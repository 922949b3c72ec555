---------------------------- MODULE AuthSessions ----------------------------
(***************************************************************************)
(* The sessions of one user: rows of refresh_token_sessions, one for each  *)
(* refresh token, and the access tokens issued with them (AuthService,     *)
(* UserService.change_password, AccessTokenRevocationStore).               *)
(*                                                                         *)
(* refresh and logout lock the row of the token they are given with        *)
(* SELECT ... FOR UPDATE and hold it until they commit.  Revoking all      *)
(* sessions is one UPDATE: it takes its snapshot of the live rows, then    *)
(* goes through them row by row, waiting for each lock, and looks again at *)
(* a row it had to wait for.  Rows inserted after the snapshot are not     *)
(* seen.                                                                   *)
(*                                                                         *)
(* A token pair is one identifier.  Passwords, roles, lifetimes and        *)
(* is_active are not modelled: they only refuse requests, an expired       *)
(* refresh token for one in decode_token, before any state is read.        *)
(***************************************************************************)
EXTENDS FiniteSets

CONSTANTS
    Requests,   \* request slots: how many handlers run at a time
    Tokens,     \* identifiers of token pairs (jti: never reused)
    None        \* no token, or no request

ASSUME ConstantsAssumption == None \notin Tokens \cup Requests

VARIABLES
    session,    \* the committed rows
    lock,       \* who holds the lock of a row
    minted,     \* token pairs created so far, by commits under way too
    barred,     \* access tokens that the revocation store refuses
    req,        \* where each request is
    family,     \* history: the login that a token pair descends from
    closed      \* history: what the committed revocations had in their snapshot

vars == <<session, lock, minted, barred, req, family, closed>>

-----------------------------------------------------------------------------
\* replaced_by and used_at are written together, and never without revoked_at.
Session ==
    [state : {"absent", "live"}, replaced_by : {None}]
      \cup [state : {"revoked"}, replaced_by : Tokens \cup {None}]

Revoking == {"replay", "logout_all", "change_password", "reset_password"}

Request ==
    [pc : {"idle", "login", "refresh", "rotate", "close", "reset_commit", "bar"}
            \cup Revoking,
     token : Tokens \cup {None},    \* the token the request was given
     new : Tokens \cup {None},      \* the token pair it has created
     seen : SUBSET Tokens,          \* the snapshot of its UPDATE
     todo : SUBSET Tokens,          \* rows the UPDATE has not come to
     hit : SUBSET Tokens]           \* rows it has revoked, not committed yet

Idle ==
    [pc |-> "idle", token |-> None, new |-> None, seen |-> {}, todo |-> {}, hit |-> {}]

Live == {t \in Tokens : session[t].state = "live"}

Issued == {t \in Tokens : session[t].state # "absent"}

Init ==
    /\ session = [t \in Tokens |-> [state |-> "absent", replaced_by |-> None]]
    /\ lock = [t \in Tokens |-> None]
    /\ minted = {}
    /\ barred = {}
    /\ req = [r \in Requests |-> Idle]
    /\ family = [t \in Tokens |-> t]
    /\ closed = {}

-----------------------------------------------------------------------------
(***************************************************************************)
(* Transactions                                                            *)
(***************************************************************************)

Free(r, t) == lock[t] \in {None, r}

\* The transaction of r ends and its locks are released.
Release(r) == lock' = [t \in Tokens |-> IF lock[t] = r THEN None ELSE lock[t]]

Start(r, step, t) == req' = [req EXCEPT ![r] = [Idle EXCEPT !.pc = step, !.token = t]]

Finish(r) == req' = [req EXCEPT ![r] = Idle]

\* get_current_user: the access tokens that are accepted.
Accepted == Issued \ barred

-----------------------------------------------------------------------------
(***************************************************************************)
(* login                                                                   *)
(***************************************************************************)

\* The credentials are right and the pair is created ...
Login(r) ==
    /\ req[r].pc = "idle"
    /\ \E n \in Tokens \ minted :
          /\ minted' = minted \cup {n}
          /\ req' = [req EXCEPT ![r] = [Idle EXCEPT !.pc = "login", !.new = n]]
    /\ UNCHANGED <<session, lock, barred, family, closed>>

\* ... and its row is inserted.
CommitLogin(r) ==
    /\ req[r].pc = "login"
    /\ session' = [session EXCEPT ![req[r].new].state = "live"]
    /\ Finish(r)
    /\ UNCHANGED <<lock, minted, barred, family, closed>>

-----------------------------------------------------------------------------
(***************************************************************************)
(* refresh                                                                 *)
(***************************************************************************)

\* The client may present any refresh token it has ever been given.
Refresh(r) ==
    /\ req[r].pc = "idle"
    /\ \E t \in Issued : Start(r, "refresh", t)
    /\ UNCHANGED <<session, lock, minted, barred, family, closed>>

\* Variant: the row is read without its lock.
LockForRefreshUnlocked(r) ==
    /\ req[r].pc = "refresh"
    /\ session[req[r].token].state = "live"
    /\ \E n \in Tokens \ minted :
          /\ minted' = minted \cup {n}
          /\ family' = [family EXCEPT ![n] = family[req[r].token]]
          /\ req' = [req EXCEPT ![r].pc = "rotate", ![r].new = n]
    /\ UNCHANGED <<session, lock, barred, closed>>

\* The row is locked, and the token is still good: a pair is created.
LockForRefresh(r) ==
    /\ req[r].pc = "refresh"
    /\ Free(r, req[r].token)
    /\ session[req[r].token].state = "live"
    /\ lock' = [lock EXCEPT ![req[r].token] = r]
    /\ \E n \in Tokens \ minted :
          /\ minted' = minted \cup {n}
          /\ family' = [family EXCEPT ![n] = family[req[r].token]]
          /\ req' = [req EXCEPT ![r].pc = "rotate", ![r].new = n]
    /\ UNCHANGED <<session, barred, closed>>

\* Variant: used_at is set, revoked_at is not.
CommitRefreshUsedOnly(r) ==
    /\ req[r].pc = "rotate"
    /\ session' =
         [session EXCEPT
            ![req[r].token].replaced_by = req[r].new,
            ![req[r].new].state = "live"]
    /\ Release(r)
    /\ Finish(r)
    /\ UNCHANGED <<minted, barred, family, closed>>

\* The old row gives way to the new one in one commit.
CommitRefresh(r) ==
    /\ req[r].pc = "rotate"
    /\ session' =
         [session EXCEPT
            ![req[r].token] = [state |-> "revoked", replaced_by |-> req[r].new],
            ![req[r].new].state = "live"]
    /\ Release(r)
    /\ Finish(r)
    /\ UNCHANGED <<minted, barred, family, closed>>

\* The row is locked, and the token was used or revoked before: everything
\* the user has is revoked.
DetectReplay(r) ==
    /\ req[r].pc = "refresh"
    /\ Free(r, req[r].token)
    /\ session[req[r].token].state = "revoked"
    /\ lock' = [lock EXCEPT ![req[r].token] = r]
    /\ req' = [req EXCEPT ![r].pc = "replay", ![r].seen = Live, ![r].todo = Live]
    /\ UNCHANGED <<session, minted, barred, family, closed>>

-----------------------------------------------------------------------------
(***************************************************************************)
(* Closing one session                                                     *)
(***************************************************************************)

\* logout bars the access token it is given before it looks at the refresh
\* token; either may be missing.
Logout(r) ==
    /\ req[r].pc = "idle"
    /\ \E t \in Issued :
          /\ barred' \in {barred, barred \cup {t}}
          /\ Start(r, "close", t)
    /\ UNCHANGED <<session, lock, minted, family, closed>>

LogoutAccessOnly ==
    /\ \E t \in Issued : barred' = barred \cup {t}
    /\ UNCHANGED <<session, lock, minted, req, family, closed>>

\* revoke_session of an authenticated user reads the row without its lock.
RevokeSession(r) ==
    /\ req[r].pc = "idle"
    /\ Accepted # {}
    /\ \E t \in Issued : Start(r, "close", t)
    /\ UNCHANGED <<session, lock, minted, barred, family, closed>>

\* Either waits for the lock of the row and revokes it, whatever has become
\* of it.
CommitClose(r) ==
    /\ req[r].pc = "close"
    /\ Free(r, req[r].token)
    /\ session' = [session EXCEPT ![req[r].token].state = "revoked"]
    /\ Finish(r)
    /\ UNCHANGED <<lock, minted, barred, family, closed>>

-----------------------------------------------------------------------------
(***************************************************************************)
(* Closing all sessions                                                    *)
(***************************************************************************)

\* logout_all and change_password of an authenticated user.
RevokeAll(r) ==
    /\ req[r].pc = "idle"
    /\ \E a \in Accepted, step \in {"logout_all", "change_password"} :
          req' = [req EXCEPT ![r] =
                    [Idle EXCEPT !.pc = step, !.token = a, !.seen = Live, !.todo = Live]]
    /\ UNCHANGED <<session, lock, minted, barred, family, closed>>

\* reset_password with a good reset token; nobody needs to be logged in.
ResetPassword(r) ==
    /\ req[r].pc = "idle"
    /\ req' = [req EXCEPT ![r] =
                 [Idle EXCEPT !.pc = "reset_password", !.seen = Live, !.todo = Live]]
    /\ UNCHANGED <<session, lock, minted, barred, family, closed>>

\* Variant: rows that are locked are skipped.
RevokeRowSkipLocked(r) ==
    /\ req[r].pc \in Revoking
    /\ \E t \in req[r].todo :
          IF session[t].state = "live" /\ Free(r, t)
          THEN /\ lock' = [lock EXCEPT ![t] = r]
               /\ req' = [req EXCEPT ![r].todo = @ \ {t}, ![r].hit = @ \cup {t}]
          ELSE /\ req' = [req EXCEPT ![r].todo = @ \ {t}]
               /\ UNCHANGED lock
    /\ UNCHANGED <<session, minted, barred, family, closed>>

\* The UPDATE comes to a row: it is revoked and stays locked, unless somebody
\* else has revoked it since the snapshot.
RevokeRow(r) ==
    /\ req[r].pc \in Revoking
    /\ \E t \in req[r].todo :
          /\ Free(r, t)
          /\ IF session[t].state = "live"
             THEN /\ lock' = [lock EXCEPT ![t] = r]
                  /\ req' = [req EXCEPT ![r].todo = @ \ {t}, ![r].hit = @ \cup {t}]
             ELSE /\ req' = [req EXCEPT ![r].todo = @ \ {t}]
                  /\ UNCHANGED lock
    /\ UNCHANGED <<session, minted, barred, family, closed>>

\* reset_password bars every access token created so far before it commits.
BarAll(r) ==
    /\ req[r].pc = "reset_password"
    /\ req[r].todo = {}
    /\ barred' = barred \cup minted
    /\ req' = [req EXCEPT ![r].pc = "reset_commit"]
    /\ UNCHANGED <<session, lock, minted, family, closed>>

CommitRevoke(r) ==
    /\ req[r].pc \in {"replay", "logout_all", "change_password", "reset_commit"}
    /\ req[r].todo = {}
    /\ session' = [t \in Tokens |->
                     IF t \in req[r].hit THEN [session[t] EXCEPT !.state = "revoked"]
                     ELSE session[t]]
    /\ closed' = closed \cup req[r].seen
    /\ Release(r)
    /\ IF req[r].pc = "logout_all"
       THEN req' = [req EXCEPT ![r] = [Idle EXCEPT !.pc = "bar", !.token = req[r].token]]
       ELSE Finish(r)
    /\ UNCHANGED <<minted, barred, family>>

\* logout_all bars the access token it was called with after the commit.
BarCaller(r) ==
    /\ req[r].pc = "bar"
    /\ barred' = barred \cup {req[r].token}
    /\ Finish(r)
    /\ UNCHANGED <<session, lock, minted, family, closed>>

-----------------------------------------------------------------------------
\* The process dies, the client goes away, the commit fails, or PostgreSQL
\* picks the transaction as the victim of a deadlock: it is rolled back.
Abort(r) ==
    /\ req[r].pc # "idle"
    /\ Release(r)
    /\ Finish(r)
    /\ UNCHANGED <<session, minted, barred, family, closed>>

RequestStep(r) ==
    \/ Login(r) \/ CommitLogin(r)
    \/ Refresh(r) \/ LockForRefresh(r) \/ CommitRefresh(r) \/ DetectReplay(r)
    \/ Logout(r) \/ RevokeSession(r) \/ CommitClose(r)
    \/ RevokeAll(r) \/ ResetPassword(r) \/ RevokeRow(r) \/ BarAll(r)
    \/ CommitRevoke(r) \/ BarCaller(r)
    \/ Abort(r)

Next ==
    \/ \E r \in Requests : RequestStep(r)
    \/ LogoutAccessOnly

Spec == Init /\ [][Next]_vars

-----------------------------------------------------------------------------
(***************************************************************************)
(* Properties                                                              *)
(***************************************************************************)

\* Every variable has its type.
TypeOK ==
    /\ session \in [Tokens -> Session]
    /\ lock \in [Tokens -> Requests \cup {None}]
    /\ minted \subseteq Tokens
    /\ barred \subseteq Tokens
    /\ req \in [Requests -> Request]
    /\ family \in [Tokens -> Tokens]
    /\ closed \subseteq Tokens

\* Rotation: a login never has two live sessions, even when its refresh token
\* is presented twice at the same time; the lock of _get_refresh_session
\* makes the second request see that the token has been used.
OneLivePerLogin ==
    \A s, t \in Live : family[s] = family[t] => s = t

\* Whatever was live when a revocation of all sessions took its snapshot is
\* dead once that revocation has committed, and stays dead: rows that
\* refresh, logout or another revocation had locked meanwhile included.
RevocationComplete == closed \cap Live = {}

\* "Barcha sessiyalar bekor qilindi" (all sessions have been revoked): after
\* a revocation no session is left that descends from one it closed.
NoDescendantSurvives ==
    \A t \in Live : family[t] \notin {family[s] : s \in closed}
=============================================================================
