------------------------------- MODULE Accounts -------------------------------
(***************************************************************************)
(* Accounts: registration, the one-time tokens that reset a password or    *)
(* verify an email, and what admins do to accounts: roles, blocking and    *)
(* the scopes of moderators (AuthService, AdminService and their routes).  *)
(*                                                                         *)
(* A request reads and checks without locks in one step and writes at its  *)
(* commit in another.                                                      *)
(***************************************************************************)
EXTENDS FiniteSets, Naturals

CONSTANTS
    Users,      \* bound: accounts
    Root,       \* the admin that seed() creates
    Tokens,     \* bound: one-time tokens
    Entities,   \* rows of the catalogue a scope can be on
    Requests,   \* bound: requests in flight at a time
    MaxStarts,  \* bound: requests altogether
    None

ASSUME ConstantsAssumption ==
    /\ Root \in Users /\ None \notin Users \cup Tokens /\ MaxStarts \in Nat
    /\ IsFiniteSet(Users) /\ IsFiniteSet(Tokens) /\ IsFiniteSet(Requests)

VARIABLES
    user,       \* users
    scope,      \* moderator_*_scopes
    token,      \* password_reset_tokens, email_verification_tokens
    req,        \* what each request in flight is to write
    starts,     \* the number of requests so far
    raced       \* history: users and tokens written by requests that overlapped

vars == <<user, scope, token, req, starts, raced>>

-----------------------------------------------------------------------------
Roles == {"student", "moderator", "admin"}

User == [role : Roles, active : BOOLEAN, verified : BOOLEAN]

NoUser == [role |-> "none", active |-> FALSE, verified |-> FALSE]

Purposes == {"reset", "verify"}

\* uses is a history of the commits that have redeemed the token.
Token ==
    [user : Users, purpose : Purposes, state : {"live", "expired", "consumed"},
     uses : 0..Cardinality(Requests)]

NoToken == [user |-> None, purpose |-> "none", state |-> "none", uses |-> 0]

Request ==
    [kind : {"idle", "register", "issue", "redeem", "admin", "role", "active", "scope"},
     user : Users \cup {None},           \* the account it is about; admin: whose it is
     token : Tokens \cup {None},
     purpose : Purposes \cup {"none"},
     seen : SUBSET Tokens,               \* issue: the live tokens of the user
     role : Roles \cup {"none"},         \* the new role, if it changes
     active : BOOLEAN,                   \* active: the new is_active
     entity : Entities \cup {None}]      \* scope: what it is on

Idle ==
    [kind |-> "idle", user |-> None, token |-> None, purpose |-> "none", seen |-> {},
     role |-> "none", active |-> TRUE, entity |-> None]

\* seed() has created the admin.
Init ==
    /\ user = [u \in Users |-> IF u = Root
                               THEN [role |-> "admin", active |-> TRUE, verified |-> TRUE]
                               ELSE NoUser]
    /\ scope = [u \in Users |-> {}]
    /\ token = [t \in Tokens |-> NoToken]
    /\ req = [r \in Requests |-> Idle]
    /\ starts = 0
    /\ raced = {}

Exists(u) == user[u] # NoUser

ActiveAdmins == {u \in Users : user[u].role = "admin" /\ user[u].active}

Live(u, purpose) ==
    {t \in Tokens : token[t].user = u /\ token[t].purpose = purpose /\ token[t].state = "live"}

Start(r, q) ==
    /\ starts < MaxStarts /\ starts' = starts + 1
    /\ req' = [req EXCEPT ![r] = q]

End(r) == req' = [req EXCEPT ![r] = Idle] /\ UNCHANGED starts

\* A new identifier: no row and no other request has it.
Fresh(t) == token[t] = NoToken /\ \A o \in Requests : req[o].token # t

\* An exception after the reads: the session dependency rolls back.
Abort(r) ==
    /\ req[r] # Idle
    /\ End(r)
    /\ UNCHANGED <<user, scope, token, raced>>

-----------------------------------------------------------------------------
(* One-time tokens.                                                        *)

NewToken(u, purpose) == [user |-> u, purpose |-> purpose, state |-> "live", uses |-> 0]

\* register; that the email is unique is also a constraint of the table.
Register(r, u, t) ==
    /\ ~Exists(u)
    /\ Fresh(t)
    /\ Start(r, [Idle EXCEPT !.kind = "register", !.user = u, !.token = t])
    /\ UNCHANGED <<user, scope, token, raced>>

CommitRegister(r) ==
    LET q == req[r] IN
    /\ q.kind = "register"
    /\ ~Exists(q.user)
    /\ user' = [user EXCEPT ![q.user] =
                  [role |-> "student", active |-> TRUE, verified |-> FALSE]]
    /\ token' = [token EXCEPT ![q.token] = NewToken(q.user, "verify")]
    /\ End(r)
    /\ UNCHANGED <<scope, raced>>

\* _consume_password_reset_tokens and _consume_email_verification_tokens:
\* the UPDATE sees the tokens that are committed.
Issue(r, u, t, purpose) ==
    /\ Exists(u)
    /\ Fresh(t)
    /\ Start(r, [Idle EXCEPT !.kind = "issue", !.user = u, !.token = t,
                             !.purpose = purpose, !.seen = Live(u, purpose)])
    /\ raced' = IF \E o \in Requests : /\ req[o].kind = "issue" /\ req[o].user = u
                                       /\ req[o].purpose = purpose
                THEN raced \cup {<<"issue", u, purpose>>} ELSE raced
    /\ UNCHANGED <<user, scope, token>>

ForgotPassword(r, u, t) == Issue(r, u, t, "reset")

ResendVerification(r, u, t) == ~user[u].verified /\ Issue(r, u, t, "verify")

\* Variant: the earlier tokens stay as they are.
CommitIssueOnly(r) ==
    LET q == req[r] IN
    /\ q.kind = "issue"
    /\ token' = [token EXCEPT ![q.token] = NewToken(q.user, q.purpose)]
    /\ End(r)
    /\ UNCHANGED <<user, scope, raced>>

CommitIssue(r) ==
    LET q == req[r] IN
    /\ q.kind = "issue"
    /\ token' = [t \in Tokens |->
                   IF t = q.token THEN NewToken(q.user, q.purpose)
                   ELSE IF t \in q.seen THEN [token[t] EXCEPT !.state = "consumed"]
                   ELSE token[t]]
    /\ End(r)
    /\ UNCHANGED <<user, scope, raced>>

\* expires_at passes.
Expire(t) ==
    /\ token[t].state = "live"
    /\ token' = [token EXCEPT ![t].state = "expired"]
    /\ UNCHANGED <<user, scope, req, starts, raced>>

\* reset_password, verify_email: the token is read and checked.
Redeem(r, t) ==
    /\ token[t].state = "live"
    /\ Start(r, [Idle EXCEPT !.kind = "redeem", !.token = t, !.user = token[t].user])
    /\ raced' = IF \E o \in Requests : req[o].kind = "redeem" /\ req[o].token = t
                THEN raced \cup {<<"token", t>>} ELSE raced
    /\ UNCHANGED <<user, scope, token>>

ResetPassword(r, t) == token[t].purpose = "reset" /\ Redeem(r, t)

VerifyEmail(r, t) == token[t].purpose = "verify" /\ Redeem(r, t)

\* Variant: the token is not marked.
RedeemedUnmarked(old) == [old EXCEPT !.uses = @ + 1]

Redeemed(old) == [old EXCEPT !.state = "consumed", !.uses = @ + 1]

\* The password is not modelled; AuthSessions has the revocations.
CommitRedeem(r) ==
    LET q == req[r] IN
    /\ q.kind = "redeem"
    /\ token' = [token EXCEPT ![q.token] = Redeemed(@)]
    /\ user' = IF token[q.token].purpose = "verify"
               THEN [user EXCEPT ![q.user].verified = TRUE] ELSE user
    /\ End(r)
    /\ UNCHANGED <<scope, raced>>

-----------------------------------------------------------------------------
(* What admins do.                                                         *)

\* get_current_user and require_roles read the actor before anything else.
\* A change of the actor's own role or status is refused, or changes nothing.
Authenticate(r, a) ==
    /\ a \in ActiveAdmins
    /\ Start(r, [Idle EXCEPT !.kind = "admin", !.user = a])
    /\ UNCHANGED <<user, scope, token, raced>>

ActsOn(r, u) == req[r].kind = "admin" /\ Exists(u)

\* A request that may leave one admin less.
Removes(q) ==
    \/ q.kind \in {"role", "scope"} /\ q.role \in {"student", "moderator"}
    \/ q.kind = "active" /\ ~q.active

StartUpdate(r, q) ==
    /\ req' = [req EXCEPT ![r] = q]
    /\ raced' = IF Removes(q) /\ \E o \in Requests : Removes(req[o])
                THEN raced \cup {<<"admins">>} ELSE raced
    /\ UNCHANGED <<user, scope, token, starts>>

\* Variant: a blocked admin counts as well.
NotLastActiveAdminByRole(u) ==
    user[u].active => Cardinality({v \in Users : user[v].role = "admin"}) > 1

\* _ensure_not_last_active_admin
NotLastActiveAdmin(u) == user[u].active => Cardinality(ActiveAdmins) > 1

UpdateUserRole(r, u, role) ==
    /\ ActsOn(r, u) /\ u # req[r].user
    /\ user[u].role = "admin" /\ role # "admin" => NotLastActiveAdmin(u)
    /\ role # user[u].role
    /\ StartUpdate(r, [Idle EXCEPT !.kind = "role", !.user = u, !.role = role])

\* set_user_status: update_user of is_active.
SetUserStatus(r, u, active) ==
    /\ ActsOn(r, u) /\ u # req[r].user
    /\ ~active /\ user[u].role = "admin" => NotLastActiveAdmin(u)
    /\ active # user[u].active
    /\ StartUpdate(r, [Idle EXCEPT !.kind = "active", !.user = u, !.active = active])

\* verify_user: update_user of is_verified, which depends on nothing it reads.
VerifyUser(r, u, verified) ==
    /\ ActsOn(r, u)
    /\ user' = [user EXCEPT ![u].verified = verified]
    /\ End(r)
    /\ UNCHANGED <<scope, token, raced>>

\* add_moderator_scope makes a moderator of a student.
AddModeratorScope(r, u, e) ==
    /\ ActsOn(r, u)
    /\ e \notin scope[u]
    /\ StartUpdate(r, [Idle EXCEPT !.kind = "scope", !.user = u, !.entity = e,
                          !.role = IF user[u].role = "student" /\ u # req[r].user
                                   THEN "moderator" ELSE "none"])

\* Only columns that change are written; the pairs of a user and an entity
\* are unique.
CommitUpdate(r) ==
    LET q == req[r] IN
    /\ q.kind \in {"role", "active", "scope"}
    /\ q.kind = "scope" => q.entity \notin scope[q.user]
    /\ user' = [user EXCEPT ![q.user].role = IF q.role # "none" THEN q.role ELSE @,
                            ![q.user].active = IF q.kind = "active" THEN q.active ELSE @]
    /\ scope' = IF q.kind = "scope" THEN [scope EXCEPT ![q.user] = @ \cup {q.entity}] ELSE scope
    /\ End(r)
    /\ UNCHANGED <<token, raced>>

DeleteModeratorScope(r, u, e) ==
    /\ ActsOn(r, u)
    /\ e \in scope[u]
    /\ scope' = [scope EXCEPT ![u] = @ \ {e}]
    /\ End(r)
    /\ UNCHANGED <<user, token, raced>>

-----------------------------------------------------------------------------
\* auth/api
Authenticating(r) ==
    \/ \E u \in Users, t \in Tokens :
         Register(r, u, t) \/ ForgotPassword(r, u, t) \/ ResendVerification(r, u, t)
    \/ \E t \in Tokens : ResetPassword(r, t) \/ VerifyEmail(r, t)

\* admin/users_api
Administering(r) ==
    \E u \in Users :
        \/ \E role \in Roles : UpdateUserRole(r, u, role)
        \/ \E b \in BOOLEAN : SetUserStatus(r, u, b) \/ VerifyUser(r, u, b)
        \/ \E e \in Entities : AddModeratorScope(r, u, e) \/ DeleteModeratorScope(r, u, e)

Committing(r) == CommitRegister(r) \/ CommitIssue(r) \/ CommitRedeem(r) \/ CommitUpdate(r)

Next ==
    \/ \E r \in Requests :
          \/ req[r] = Idle /\ (Authenticating(r) \/ \E a \in Users : Authenticate(r, a))
          \/ Administering(r) \/ Committing(r) \/ Abort(r)
    \/ \E t \in Tokens : Expire(t)

Spec == Init /\ [][Next]_vars

-----------------------------------------------------------------------------
\* Rows and requests are well formed, and every token belongs to an account.
TypeOK ==
    /\ user \in [Users -> User \cup {NoUser}]
    /\ scope \in [Users -> SUBSET Entities]
    /\ token \in [Tokens -> Token \cup {NoToken}]
    /\ \A t \in Tokens : token[t] # NoToken => Exists(token[t].user)
    /\ req \in [Requests -> Request]
    /\ starts \in 0..MaxStarts

\* A one-time token changes a password, or verifies an email, once: the check
\* and the mark are apart, so only requests that overlapped use one twice.
RedeemedOnce == \A t \in Tokens : token[t].uses > 1 => <<"token", t>> \in raced

\* A new token puts an end to the earlier ones, so that a user has one live
\* token for a purpose, unless two were asked for at the same time.
OneLiveToken ==
    \A u \in Users, purpose \in Purposes :
        Cardinality(Live(u, purpose)) > 1 => <<"issue", u, purpose>> \in raced

\* There is always an active admin, although nobody locks the rows that are
\* counted, unless two requests that may remove one overlapped.
AdminRemains == ActiveAdmins # {} \/ <<"admins">> \in raced
=============================================================================
