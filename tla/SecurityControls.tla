--------------------------- MODULE SecurityControls ---------------------------
(***************************************************************************)
(* What the API keeps in Redis for security: the rate and failure counters *)
(* and the lock of one login (a client and an email), and the revoked      *)
(* access tokens of one user (SecurityKeyValueStore, AuthRateLimiter,      *)
(* AccessTokenRevocationStore and the login route).                        *)
(*                                                                         *)
(* Every command to Redis is a step of its own and a handler may stop      *)
(* between two of them.  Time passes in half seconds: the clock of the     *)
(* process is finer than the whole seconds of the tokens' claims and of    *)
(* the store's lifetimes.  All times are kept as what is left of them.     *)
(*                                                                         *)
(* The names that every specification has are prefixed with SC, so that a  *)
(* module can extend this one together with another.                       *)
(***************************************************************************)
EXTENDS FiniteSets, Integers

CONSTANTS
    Requests,       \* bound: logins in flight at a time
    Tokens,         \* bound: access tokens
    MaxRate,        \* rate_limit_login_max_requests
    MaxAttempts,    \* login_lockout_max_attempts
    Window,         \* both windows, in half seconds
    LockFor,        \* login_lockout_seconds, in half seconds
    Life            \* lifetime of an access token in seconds

ASSUME SCAssumption ==
    /\ IsFiniteSet(Requests)
    /\ MaxRate \in Nat \ {0} /\ MaxAttempts \in Nat \ {0}
    /\ Window \in Nat \ {0} /\ LockFor \in Nat \ {0} /\ Life \in Nat \ {0}

VARIABLES
    counter,    \* the two counters
    lock,       \* what is left of the login lock
    pc,         \* where each login is
    tried,      \* history: wrong passwords answered, or about to be, since the
                \* failures were last forgotten or the lock last ran out
    leaked,     \* history: counters whose handler stopped before EXPIRE
    odd,        \* the second half of a second
    token,      \* the access tokens
    bar         \* auth:revoked_all_access

SCvars == <<counter, lock, pc, tried, leaked, odd, token, bar>>
login == <<counter, lock, pc, tried, leaked>>
access == <<odd, token, bar>>

-----------------------------------------------------------------------------
Keys == {"rate", "fail"}

Never == -1     \* a key without a lifetime

\* Bound: above its limit, the value of a counter makes no difference.
Cap == [rate |-> MaxRate, fail |-> MaxAttempts]

Absent == [value |-> 0, left |-> 0]

\* left: to the second that exp names; key: of the entry that revokes it;
\* covered: iat <= revoked_at; revoked and closed are history.
Token ==
    [left : -2..(2 * Life), key : 0..(2 * Life), covered : BOOLEAN,
     revoked : BOOLEAN, closed : BOOLEAN]

NoToken == [left |-> -2, key |-> 0, covered |-> FALSE, revoked |-> FALSE, closed |-> FALSE]

SCInit ==
    /\ counter = [k \in Keys |-> Absent]
    /\ lock = 0
    /\ pc = [r \in Requests |-> "idle"]
    /\ tried = 0
    /\ leaked = {}
    /\ odd = FALSE
    /\ token = [t \in Tokens |-> NoToken]
    /\ bar = [left |-> 0, fresh |-> FALSE]

Enter(r, l) == pc' = [pc EXCEPT ![r] = l]

-----------------------------------------------------------------------------
\* increment: INCR ...
Incr(k) ==
    counter' = [counter EXCEPT ![k].value = IF @ < Cap[k] THEN @ + 1 ELSE @,
                               ![k].left = IF counter[k].value = 0 THEN Never ELSE @]

\* Variant: the counter is left without a lifetime.
ExpireNever(k) == counter' = counter

\* ... and EXPIRE, when the counter was at 1; nothing happens to a key that
\* has been deleted since.
Expire(k) ==
    counter' = [counter EXCEPT ![k].left = IF counter[k].value = 0 THEN 0 ELSE Window]

\* check_login_rate
CheckRate(r) ==
    /\ pc[r] = "idle"
    /\ Incr("rate")
    /\ Enter(r, IF counter["rate"].value = 0 THEN "rate_expire"
               ELSE IF counter["rate"].value + 1 > MaxRate THEN "idle" ELSE "lockout")
    /\ UNCHANGED <<lock, tried, leaked, access>>

ExpireRate(r) ==
    /\ pc[r] = "rate_expire"
    /\ Expire("rate")
    /\ leaked' = leaked \ {"rate"}
    /\ Enter(r, "lockout")
    /\ UNCHANGED <<lock, tried, access>>

\* Variant: the lock is not looked at.
CheckLockoutNever(r) ==
    /\ pc[r] = "lockout"
    /\ Enter(r, "try")
    /\ UNCHANGED <<counter, lock, tried, leaked, access>>

\* check_login_lockout
CheckLockout(r) ==
    /\ pc[r] = "lockout"
    /\ Enter(r, IF lock # 0 THEN "idle" ELSE "try")
    /\ UNCHANGED <<counter, lock, tried, leaked, access>>

\* AuthService.login: the password is right or wrong.
LoginFails(r) ==
    /\ pc[r] = "try"
    /\ Enter(r, "failed")
    /\ tried' = tried + 1
    /\ UNCHANGED <<counter, lock, leaked, access>>

LoginSucceeds(r) ==
    /\ pc[r] = "try"
    /\ Enter(r, "succeeded")
    /\ UNCHANGED <<counter, lock, tried, leaked, access>>

AfterFailure(attempts) == IF attempts >= MaxAttempts THEN "lock" ELSE "idle"

\* The logins with a wrong password that is still to be counted or to lock;
\* with a limit of one the first failure locks, too.
Unrecorded ==
    {"failed", "lock"} \cup (IF AfterFailure(1) = "lock" THEN {"fail_expire"} ELSE {})

Unanswered == {r \in Requests : pc[r] \in Unrecorded}

\* record_login_failure
RecordFailure(r) ==
    /\ pc[r] = "failed"
    /\ Incr("fail")
    /\ Enter(r, IF counter["fail"].value = 0 THEN "fail_expire"
               ELSE AfterFailure(counter["fail"].value + 1))
    /\ UNCHANGED <<lock, tried, leaked, access>>

ExpireFailures(r) ==
    /\ pc[r] = "fail_expire"
    /\ Expire("fail")
    /\ leaked' = leaked \ {"fail"}
    /\ Enter(r, AfterFailure(1))
    /\ UNCHANGED <<lock, tried, access>>

SetLock(r) ==
    /\ pc[r] = "lock"
    /\ lock' = LockFor
    /\ Enter(r, "idle")
    /\ UNCHANGED <<counter, tried, leaked, access>>

\* record_login_success
RecordSuccess(r) ==
    /\ pc[r] = "succeeded"
    /\ counter' = [counter EXCEPT !["fail"] = Absent]
    /\ lock' = 0
    /\ leaked' = leaked \ {"fail"}
    /\ tried' = Cardinality(Unanswered)
    /\ Enter(r, "idle")
    /\ UNCHANGED access

\* The handler stops where it is: a restart, a lost connection to Redis.
\* The client is none the wiser about the password.
Crash(r) ==
    /\ pc[r] # "idle"
    /\ leaked' = leaked \cup (IF pc[r] = "rate_expire" THEN {"rate"}
                              ELSE IF pc[r] = "fail_expire" THEN {"fail"} ELSE {})
    /\ tried' = IF r \in Unanswered THEN tried - 1 ELSE tried
    /\ Enter(r, "idle")
    /\ UNCHANGED <<counter, lock, access>>

-----------------------------------------------------------------------------
\* create_access_token, at a login or a refresh: iat and exp are cut to whole
\* seconds.  The token is covered by a revocation of the same second.
Issue(t) ==
    /\ token[t] = NoToken
    /\ token' = [token EXCEPT ![t] =
                   [NoToken EXCEPT !.left = 2 * Life - (IF odd THEN 1 ELSE 0),
                                   !.covered = bar.fresh]]
    /\ UNCHANGED <<login, odd, bar>>

\* decode_token accepts a token in the second that exp names, too.
Decodes(t) == token[t].left > -2

\* Variant: the entry lasts for one second less than it should.
RevokedForShort(left) == 2 * (left \div 2) - 2

\* revoke_claims: the lifetime of the entry, in whole seconds.
RevokedFor(left) == 2 * (left \div 2)

\* revoke_token, at a logout.
RevokeToken(t) ==
    /\ Decodes(t)
    /\ token' = [token EXCEPT ![t].key = IF RevokedFor(token[t].left) > 0
                                         THEN RevokedFor(token[t].left) ELSE @,
                              ![t].revoked = TRUE]
    /\ UNCHANGED <<login, odd, bar>>

\* revoke_all_for_user, when a password has been changed.
RevokeAllForUser ==
    /\ bar' = [left |-> 2 * Life, fresh |-> TRUE]
    /\ token' = [t \in Tokens |-> IF Decodes(t)
                                  THEN [token[t] EXCEPT !.covered = TRUE, !.closed = TRUE]
                                  ELSE token[t]]
    /\ UNCHANGED <<login, odd>>

\* ensure_not_revoked, after decode_token.
Accepted(t) ==
    /\ Decodes(t)
    /\ token[t].key = 0
    /\ ~(bar.left > 0 /\ token[t].covered)

-----------------------------------------------------------------------------
Down(n) == IF n > 0 THEN n - 1 ELSE n

\* Half a second passes, and Redis drops what has run out.
Tick ==
    /\ counter' = [k \in Keys |-> IF counter[k].left = 1 THEN Absent
                                  ELSE [counter[k] EXCEPT !.left = Down(@)]]
    /\ lock' = Down(lock)
    /\ tried' = IF counter["fail"].left = 1 \/ lock = 1 THEN Cardinality(Unanswered) ELSE tried
    /\ odd' = ~odd
    /\ token' = [t \in Tokens |->
                   IF token[t].left <= -1 THEN NoToken
                   ELSE [token[t] EXCEPT !.left = @ - 1, !.key = Down(@)]]
    /\ bar' = [left |-> Down(bar.left), fresh |-> bar.fresh /\ ~odd]
    /\ UNCHANGED <<pc, leaked>>

LoginStep(r) ==
    \/ CheckRate(r) \/ ExpireRate(r) \/ CheckLockout(r)
    \/ LoginFails(r) \/ LoginSucceeds(r)
    \/ RecordFailure(r) \/ ExpireFailures(r) \/ SetLock(r) \/ RecordSuccess(r)

SCNext ==
    \/ \E r \in Requests : LoginStep(r) \/ Crash(r)
    \/ \E t \in Tokens : Issue(t) \/ RevokeToken(t)
    \/ RevokeAllForUser
    \/ Tick

SCSpec == SCInit /\ [][SCNext]_SCvars

\* Time passes, and a handler that is under way goes on.
SCFairSpec ==
    /\ SCSpec
    /\ WF_SCvars(Tick)
    /\ \A r \in Requests : WF_SCvars(pc[r] # "idle" /\ LoginStep(r))

-----------------------------------------------------------------------------
\* Every variable has its type.
SCTypeOK ==
    /\ \A k \in Keys : counter[k] \in [value : 0..Cap[k], left : Never..Window]
    /\ lock \in 0..LockFor
    /\ pc \in [Requests -> {"idle", "rate_expire", "lockout", "try", "failed",
                            "fail_expire", "lock", "succeeded"}]
    /\ tried \in Nat
    /\ leaked \in SUBSET Keys
    /\ odd \in BOOLEAN
    /\ token \in [Tokens -> Token]
    /\ bar \in [left : 0..(2 * Life), fresh : BOOLEAN]

\* The passwords that can be tried are limited, however the logins overlap:
\* those before the lock, and one for each login that had passed the check
\* of the lock when it was set.
GuessesBounded == tried <= MaxAttempts - 1 + Cardinality(Requests)

\* A token that was given up, or that a password change has closed, is
\* refused up to the second in which it ends; the entries that refuse it
\* are cut to whole seconds and run out within that second.
RefusedToTheLastSecond ==
    \A t \in Tokens : Accepted(t) =>
        /\ token[t].revoked => token[t].left <= 1
        /\ token[t].closed => token[t].left <= 0

\* No client is shut out for good: every counter is forgotten in time, unless
\* the handler that started it stopped between INCR and EXPIRE.
CountersEnd ==
    \A k \in Keys : counter[k].value > 0 ~> (counter[k].value = 0 \/ k \in leaked)
=============================================================================
