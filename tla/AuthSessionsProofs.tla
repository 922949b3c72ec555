------------------------- MODULE AuthSessionsProofs -------------------------
(***************************************************************************)
(* Proofs about AuthSessions for any number of requests and tokens.        *)
(*                                                                         *)
(* Rotation is safe because a rotating request holds the lock of a row     *)
(* that is live (Locks) and the pair it has created is nobody else's       *)
(* (Fresh); revocation is complete because a row of the snapshot is        *)
(* waiting, locked by the UPDATE, or already dead (Updates).               *)
(***************************************************************************)
EXTENDS AuthSessions, TLAPS

Minting == {"login", "rotate"}

\* What is known of tokens that have no row yet, and of those under way.
Fresh ==
    /\ Issued \subseteq minted
    /\ \A t \in Tokens \ minted : family[t] = t
    /\ \A t \in minted : family[t] \in minted
    /\ \A r \in Requests :
          /\ req[r].pc \in Minting => req[r].new \in minted \ Issued
          /\ req[r].pc \in {"refresh", "rotate", "close", "logout_all", "bar"}
               => req[r].token \in Issued
          /\ req[r].pc = "login"
               => \A s \in Tokens : family[s] = req[r].new <=> s = req[r].new
    /\ \A q, r \in Requests :
          q # r /\ req[q].pc \in Minting /\ req[r].pc \in Minting
            => req[q].new # req[r].new

\* What a request knows because it holds a lock.
Locks ==
    \A r \in Requests :
        /\ req[r].pc = "rotate"
             => /\ lock[req[r].token] = r
                /\ session[req[r].token].state = "live"
                /\ family[req[r].new] = family[req[r].token]
        /\ \A t \in req[r].hit : lock[t] = r /\ t \in Issued

\* Where the rows of a snapshot are.
Updates ==
    /\ closed \subseteq Issued
    /\ RevocationComplete
    /\ \A r \in Requests :
          /\ req[r].seen \subseteq Issued
          /\ \A t \in req[r].seen \cap Live : t \in req[r].todo \cup req[r].hit
          /\ req[r].pc = "reset_commit" => req[r].todo = {}

IInv == TypeOK /\ Fresh /\ Locks /\ Updates /\ OneLivePerLogin

-----------------------------------------------------------------------------
LEMMA IdleType ==
    /\ Idle \in Request
    /\ \A n \in Tokens : [Idle EXCEPT !.pc = "login", !.new = n] \in Request
    /\ \A t \in Tokens :
          /\ [Idle EXCEPT !.pc = "refresh", !.token = t] \in Request
          /\ [Idle EXCEPT !.pc = "close", !.token = t] \in Request
          /\ [Idle EXCEPT !.pc = "bar", !.token = t] \in Request
    /\ \A a \in Tokens, step \in {"logout_all", "change_password"}, S \in SUBSET Tokens :
          [Idle EXCEPT !.pc = step, !.token = a, !.seen = S, !.todo = S] \in Request
    /\ \A S \in SUBSET Tokens :
          [Idle EXCEPT !.pc = "reset_password", !.seen = S, !.todo = S] \in Request
BY Zenon DEF Idle, Request, Revoking

LEMMA TypeStep ==
    ASSUME TypeOK, Fresh, Next
    PROVE  TypeOK'
<1> USE DEF TypeOK, Release, Start, Finish
<1>i. Live \subseteq Tokens /\ Issued \subseteq Tokens /\ Accepted \subseteq Tokens
  BY DEF Live, Issued, Accepted
<1>r. \A x \in Request : /\ x.token \in Tokens \cup {None} /\ x.new \in Tokens \cup {None}
                         /\ x.seen \subseteq Tokens /\ x.todo \subseteq Tokens
                         /\ x.hit \subseteq Tokens
  BY DEF Request
<1>1. ASSUME NEW r \in Requests, Login(r) PROVE TypeOK'
  BY Zenon, <1>1, IdleType DEF Login
<1>2. ASSUME NEW r \in Requests, CommitLogin(r) PROVE TypeOK'
  <2>1. req[r].new \in Tokens /\ session[req[r].new].state = "absent"
    BY <1>2 DEF CommitLogin, Fresh, Minting, Issued
  <2>2. [session[req[r].new] EXCEPT !.state = "live"] \in Session
    BY <2>1 DEF Session
  <2> QED
    BY Zenon, <1>2, <2>1, <2>2, IdleType DEF CommitLogin
<1>3. ASSUME NEW r \in Requests, Refresh(r) PROVE TypeOK'
  BY Zenon, <1>3, <1>i, IdleType DEF Refresh
<1>4. ASSUME NEW r \in Requests, LockForRefresh(r) PROVE TypeOK'
  <2>1. PICK n \in Tokens \ minted :
           /\ minted' = minted \cup {n}
           /\ family' = [family EXCEPT ![n] = family[req[r].token]]
           /\ req' = [req EXCEPT ![r].pc = "rotate", ![r].new = n]
    BY Zenon, <1>4 DEF LockForRefresh
  <2>2. req[r].token \in Tokens
    BY <1>4, <1>i DEF LockForRefresh, Fresh
  <2>3. [req[r] EXCEPT !.pc = "rotate", !.new = n] \in Request
    BY <2>1 DEF Request
  <2>4. req' \in [Requests -> Request]
    BY <2>1, <2>3
  <2> QED
    BY <1>4, <2>1, <2>2, <2>4 DEF LockForRefresh
<1>5. ASSUME NEW r \in Requests, CommitRefresh(r) PROVE TypeOK'
  <2>1. /\ req[r].new \in Tokens /\ session[req[r].new].state = "absent"
        /\ req[r].token \in Tokens /\ session[req[r].token].state # "absent"
    BY <1>5 DEF CommitRefresh, Fresh, Minting, Issued
  <2>2. [session[req[r].new] EXCEPT !.state = "live"] \in Session
    BY <2>1 DEF Session
  <2>3. [state |-> "revoked", replaced_by |-> req[r].new] \in Session
    BY <2>1 DEF Session
  <2>4. session' \in [Tokens -> Session]
    BY <1>5, <2>1, <2>2, <2>3 DEF CommitRefresh
  <2> QED
    BY Zenon, <1>5, <2>4, IdleType DEF CommitRefresh
<1>6. ASSUME NEW r \in Requests, DetectReplay(r) PROVE TypeOK'
  <2>1. [req[r] EXCEPT !.pc = "replay", !.seen = Live, !.todo = Live] \in Request
    BY <1>i DEF Request, Revoking
  <2>2. req' \in [Requests -> Request]
    BY <1>6, <2>1 DEF DetectReplay
  <2> QED
    BY <1>6, <2>2 DEF DetectReplay
<1>7. ASSUME NEW r \in Requests, Logout(r) \/ RevokeSession(r) PROVE TypeOK'
  <2>1. PICK t \in Issued :
           /\ req' = [req EXCEPT ![r] = [Idle EXCEPT !.pc = "close", !.token = t]]
           /\ barred' = barred \/ barred' = barred \cup {t}
    BY Zenon, <1>7 DEF Logout, RevokeSession
  <2>2. t \in Tokens
    BY <1>i
  <2>3. req' \in [Requests -> Request]
    BY Zenon, <2>1, <2>2, IdleType
  <2>4. barred' \subseteq Tokens
    BY <2>1, <2>2
  <2> QED
    BY Zenon, <1>7, <2>3, <2>4 DEF Logout, RevokeSession
<1>8. ASSUME NEW r \in Requests, CommitClose(r) PROVE TypeOK'
  <2>1. [session[req[r].token] EXCEPT !.state = "revoked"] \in Session
    BY <1>8 DEF CommitClose, Fresh, Issued, Session
  <2> QED
    BY Zenon, <1>8, <2>1, IdleType DEF CommitClose
<1>9. ASSUME NEW r \in Requests, RevokeAll(r) \/ ResetPassword(r) PROVE TypeOK'
  <2>1. req' \in [Requests -> Request]
    <3>1. CASE RevokeAll(r)
      <4>1. PICK a \in Tokens, step \in {"logout_all", "change_password"} :
               req' = [req EXCEPT ![r] =
                         [Idle EXCEPT !.pc = step, !.token = a, !.seen = Live,
                                      !.todo = Live]]
        BY Zenon, <3>1, <1>i DEF RevokeAll
      <4>2. [Idle EXCEPT !.pc = step, !.token = a, !.seen = Live, !.todo = Live] \in Request
        BY Zenon, <1>i, IdleType
      <4> QED
        BY <4>1, <4>2
    <3>2. CASE ResetPassword(r)
      BY Zenon, <3>2, <1>i, IdleType DEF ResetPassword
    <3> QED
      BY <1>9, <3>1, <3>2
  <2> QED
    BY Zenon, <1>9, <2>1 DEF RevokeAll, ResetPassword
<1>10. ASSUME NEW r \in Requests, RevokeRow(r) PROVE TypeOK'
  <2>1. PICK t \in req[r].todo :
           \/ /\ lock' = [lock EXCEPT ![t] = r]
              /\ req' = [req EXCEPT ![r].todo = @ \ {t}, ![r].hit = @ \cup {t}]
           \/ req' = [req EXCEPT ![r].todo = @ \ {t}] /\ UNCHANGED lock
    BY <1>10 DEF RevokeRow
  <2>2. /\ [req[r] EXCEPT !.todo = @ \ {t}, !.hit = @ \cup {t}] \in Request
        /\ [req[r] EXCEPT !.todo = @ \ {t}] \in Request
    BY DEF Request
  <2>3. req' \in [Requests -> Request]
    BY <2>1, <2>2
  <2>4. lock' \in [Tokens -> Requests \cup {None}]
    BY <2>1
  <2> QED
    BY <1>10, <2>3, <2>4 DEF RevokeRow
<1>11. ASSUME NEW r \in Requests, BarAll(r) PROVE TypeOK'
  BY <1>11 DEF BarAll, Request
<1>12. ASSUME NEW r \in Requests, CommitRevoke(r) PROVE TypeOK'
  <2>2. \A t \in Tokens : [session[t] EXCEPT !.state = "revoked"] \in Session
    BY DEF Session
  <2>3. session' \in [Tokens -> Session]
    BY <1>12, <2>2 DEF CommitRevoke
  <2>4. req[r].pc = "logout_all" => req[r].token \in Tokens
    BY <1>i DEF Fresh
  <2>5. req' \in [Requests -> Request]
    BY Zenon, <1>12, <2>4, IdleType DEF CommitRevoke
  <2>6. closed' \subseteq Tokens
    BY <1>12, <1>r DEF CommitRevoke
  <2> QED
    BY <1>12, <2>3, <2>5, <2>6 DEF CommitRevoke
<1>13. ASSUME NEW r \in Requests, BarCaller(r) PROVE TypeOK'
  <2>1. req[r].token \in Tokens
    BY <1>13, <1>i DEF BarCaller, Fresh
  <2> QED
    BY Zenon, <1>13, <2>1, IdleType DEF BarCaller
<1>14. ASSUME NEW r \in Requests, Abort(r) PROVE TypeOK'
  BY Zenon, <1>14, IdleType DEF Abort
<1>15. CASE LogoutAccessOnly
  BY <1>15, <1>i DEF LogoutAccessOnly
<1> QED
  BY <1>1, <1>2, <1>3, <1>4, <1>5, <1>6, <1>7, <1>8, <1>9, <1>10, <1>11, <1>12, <1>13,
     <1>14, <1>15 DEF Next, RequestStep

-----------------------------------------------------------------------------
(***************************************************************************)
(* What a step of a request leaves alone                                   *)
(***************************************************************************)

\* A step of r moves no other request and takes no lock away from it.
LEMMA Frame ==
    ASSUME TypeOK, NEW r \in Requests, RequestStep(r)
    PROVE  /\ \A q \in Requests \ {r} : req'[q] = req[q]
           /\ \A q \in Requests \ {r}, t \in Tokens : lock[t] = q => lock'[t] = q
<1> USE ConstantsAssumption DEF TypeOK, Release, Start, Finish, Free
<1>1. CASE \/ Login(r) \/ CommitLogin(r) \/ Refresh(r) \/ Logout(r)
           \/ RevokeSession(r) \/ CommitClose(r) \/ RevokeAll(r) \/ ResetPassword(r)
           \/ BarAll(r) \/ BarCaller(r)
  BY Zenon, <1>1 DEF Login, CommitLogin, Refresh, Logout, RevokeSession, CommitClose,
              RevokeAll, ResetPassword, BarAll, BarCaller
<1>2. CASE LockForRefresh(r) \/ DetectReplay(r)
  BY <1>2 DEF LockForRefresh, DetectReplay
<1>3. CASE CommitRefresh(r) \/ Abort(r)
  BY <1>3 DEF CommitRefresh, Abort
<1>4. CASE CommitRevoke(r)
  BY <1>4 DEF CommitRevoke
<1>5. CASE RevokeRow(r)
  BY <1>5 DEF RevokeRow
<1> QED
  BY <1>1, <1>2, <1>3, <1>4, <1>5 DEF RequestStep

\* The token pair whose row a step of r inserts.
Inserts(r) == IF CommitLogin(r) \/ CommitRefresh(r) THEN {req[r].new} ELSE {}

\* A step of r inserts the pair it has created, or revokes rows that no other
\* request has locked, and does nothing else to the rows.
LEMMA RowEffect ==
    ASSUME TypeOK, Fresh, Locks, NEW r \in Requests, RequestStep(r), NEW t \in Tokens
    PROVE  \/ session'[t] = session[t] /\ t \notin Inserts(r)
           \/ t \in Inserts(r) /\ session'[t].state = "live" /\ session[t].state = "absent"
           \/ /\ t \notin Inserts(r) /\ Free(r, t)
              /\ session'[t].state = "revoked" /\ session[t].state # "absent"
<1>1. CASE CommitLogin(r)
  <2>1. req[r].new \in Tokens /\ session[req[r].new].state = "absent"
    BY <1>1 DEF CommitLogin, Fresh, Minting, Issued, TypeOK
  <2>2. session'[req[r].new].state = "live"
    BY <1>1, <2>1 DEF CommitLogin, TypeOK, Session
  <2> QED
    BY <1>1, <2>1, <2>2 DEF CommitLogin, Inserts, TypeOK
<1>2. CASE CommitRefresh(r)
  <2>1. /\ req[r].new \in Tokens /\ session[req[r].new].state = "absent"
        /\ req[r].token \in Tokens /\ session[req[r].token].state = "live"
        /\ lock[req[r].token] = r
    BY <1>2 DEF CommitRefresh, Fresh, Locks, Minting, Issued, TypeOK
  <2>2. session'[req[r].new].state = "live" /\ session'[req[r].token].state = "revoked"
    BY <1>2, <2>1 DEF CommitRefresh, TypeOK, Session
  <2>3. t \notin {req[r].new, req[r].token} => session'[t] = session[t]
    BY <1>2 DEF CommitRefresh, TypeOK
  <2> QED
    BY <1>2, <2>1, <2>2, <2>3 DEF Inserts, Free
<1>3. CASE ~CommitLogin(r) /\ ~CommitRefresh(r)
  <2>1. t \notin Inserts(r)
    BY <1>3 DEF Inserts
  <2>2. CASE CommitClose(r)
    <3>1. req[r].token \in Tokens /\ session[req[r].token].state # "absent"
      BY <2>2 DEF CommitClose, Fresh, Issued
    <3>2. session'[req[r].token].state = "revoked" /\ Free(r, req[r].token)
      BY <2>2, <3>1 DEF CommitClose, TypeOK, Session
    <3> QED
      BY <2>1, <2>2, <3>1, <3>2 DEF CommitClose, TypeOK
  <2>3. CASE CommitRevoke(r)
    <3>1. CASE t \in req[r].hit
      <4>1. session'[t].state = "revoked"
        BY <2>3, <3>1 DEF CommitRevoke, TypeOK, Session
      <4>2. lock[t] = r
        BY <3>1 DEF Locks
      <4>3. CASE session[t].state = "absent"
        BY <3>1, <4>3 DEF Locks, Issued
      <4> QED
        BY <2>1, <4>1, <4>2, <4>3 DEF Free
    <3>2. CASE t \notin req[r].hit
      BY <2>1, <2>3, <3>2 DEF CommitRevoke
    <3> QED
      BY <3>1, <3>2
  <2>4. CASE ~CommitClose(r) /\ ~CommitRevoke(r)
    BY Zenon, <1>3, <2>1, <2>4 DEF RequestStep, Login, Refresh, LockForRefresh,
         DetectReplay, Logout, RevokeSession, RevokeAll, ResetPassword, RevokeRow, BarAll,
         BarCaller, Abort
  <2> QED
    BY <2>2, <2>3, <2>4
<1> QED
  BY <1>1, <1>2, <1>3

\* A step of r adds the row it inserts, if any, to the rows and to the live ones.
LEMMA SetEffect ==
    ASSUME TypeOK, Fresh, Locks, NEW r \in Requests, RequestStep(r)
    PROVE  /\ Issued' = Issued \cup Inserts(r)
           /\ Live' \subseteq Live \cup Inserts(r)
           /\ Inserts(r) \cap Issued = {}
           /\ \A t \in Live \ Live' : Free(r, t)
           /\ Inserts(r) \subseteq Tokens
<1>1. Inserts(r) \subseteq Tokens
  BY DEF Inserts, CommitLogin, CommitRefresh, Fresh, Minting, TypeOK
<1> QED
  BY <1>1, RowEffect DEF Issued, Live

\* What a step of r may make of its own local state.
LEMMA OwnEffect ==
    ASSUME TypeOK, Fresh, NEW r \in Requests, RequestStep(r)
    PROVE  /\ req'[r].pc \in Minting => Login(r) \/ LockForRefresh(r)
           /\ req'[r].pc \in {"refresh", "rotate", "close", "logout_all", "bar"}
                => req'[r].token \in Issued
<1> USE DEF TypeOK, Start, Finish, Idle, Minting, Request, Revoking
<1>0. CASE Login(r)
  <2>1. req'[r].pc = "login"
    BY <1>0 DEF Login
  <2> QED
    BY <1>0, <2>1
<1>1. CASE CommitLogin(r) \/ CommitRefresh(r) \/ BarCaller(r) \/ Abort(r)
  <2>1. req'[r].pc = "idle"
    BY <1>1 DEF CommitLogin, CommitRefresh, BarCaller, Abort
  <2> QED
    BY <2>1
<1>2. CASE Refresh(r) \/ Logout(r) \/ RevokeSession(r)
  <2>1. PICK t \in Issued, step \in {"refresh", "close"} :
           req' = [req EXCEPT ![r] = [Idle EXCEPT !.pc = step, !.token = t]]
    BY Zenon, <1>2 DEF Refresh, Logout, RevokeSession
  <2>2. req'[r].pc \notin Minting /\ req'[r].token \in Issued
    BY <2>1
  <2> QED
    BY <2>2
<1>3. CASE LockForRefresh(r)
  <2>1. req'[r].pc = "rotate" /\ req'[r].token = req[r].token
    BY <1>3 DEF LockForRefresh
  <2>2. req[r].token \in Issued
    BY <1>3 DEF LockForRefresh, Fresh
  <2> QED
    BY <1>3, <2>1, <2>2
<1>9. CASE ResetPassword(r)
  BY <1>9 DEF ResetPassword
<1>4. CASE DetectReplay(r) \/ BarAll(r)
  BY <1>4 DEF DetectReplay, BarAll
<1>5. CASE CommitClose(r)
  BY <1>5 DEF CommitClose
<1>6. CASE RevokeAll(r)
  BY <1>6 DEF RevokeAll, Accepted
<1>7. CASE RevokeRow(r)
  BY <1>7 DEF RevokeRow, Fresh
<1>8. CASE CommitRevoke(r)
  <2>1. req[r].pc = "logout_all" => req[r].token \in Issued
    BY DEF Fresh
  <2>2. \/ req'[r].pc = "idle"
        \/ req[r].pc = "logout_all" /\ req'[r].pc = "bar" /\ req'[r].token = req[r].token
    <3>1. CASE req[r].pc = "logout_all"
      <4>1. req' = [req EXCEPT ![r] = [Idle EXCEPT !.pc = "bar", !.token = req[r].token]]
        BY <1>8, <3>1 DEF CommitRevoke
      <4> HIDE DEF Request, TypeOK
      <4>2. req'[r] = [Idle EXCEPT !.pc = "bar", !.token = req[r].token]
        BY <4>1 DEF TypeOK
      <4> QED
        BY <3>1, <4>2
    <3>2. CASE req[r].pc # "logout_all"
      BY <1>8, <3>2 DEF CommitRevoke
    <3> QED
      BY <3>1, <3>2
  <2> QED
    BY <2>1, <2>2
<1> QED
  BY <1>0, <1>1, <1>2, <1>3, <1>4, <1>5, <1>6, <1>7, <1>8, <1>9 DEF RequestStep

\* Only Login and LockForRefresh create a pair.
LEMMA MintEffect ==
    ASSUME TypeOK, NEW r \in Requests, RequestStep(r), ~Login(r), ~LockForRefresh(r)
    PROVE  minted' = minted /\ family' = family
BY Zenon DEF RequestStep, CommitLogin, Refresh, CommitRefresh, DetectReplay, Logout,
       RevokeSession, CommitClose, RevokeAll, ResetPassword, RevokeRow, BarAll, CommitRevoke,
       BarCaller, Abort

-----------------------------------------------------------------------------
LEMMA FreshStep ==
    ASSUME TypeOK, Fresh, Locks, Next
    PROVE  Fresh'
<1>1. ASSUME NEW r \in Requests, RequestStep(r) PROVE Fresh'
  <2>1. /\ Issued' = Issued \cup Inserts(r)
        /\ Inserts(r) \cap Issued = {}
    BY <1>1, SetEffect
  <2>2. \A q \in Requests \ {r} : req'[q] = req[q]
    BY <1>1, Frame
  <2>3. /\ req'[r].pc \in Minting => Login(r) \/ LockForRefresh(r)
        /\ req'[r].pc \in {"refresh", "rotate", "close", "logout_all", "bar"}
             => req'[r].token \in Issued
    BY <1>1, OwnEffect
  <2>4. Inserts(r) \subseteq minted
    BY DEF Inserts, CommitLogin, CommitRefresh, Fresh, Minting
  <2>5. \A q \in Requests \ {r} : req[q].pc \in Minting => req[q].new \notin Inserts(r)
    BY DEF Inserts, CommitLogin, CommitRefresh, Fresh, Minting
  <2>6. \A q \in Requests :
           req'[q].pc \in {"refresh", "rotate", "close", "logout_all", "bar"}
             => req'[q].token \in Issued'
    BY <2>1, <2>2, <2>3 DEF Fresh
  <2>7. CASE Login(r)
    <3>1. PICK n \in Tokens \ minted :
             /\ minted' = minted \cup {n}
             /\ req' = [req EXCEPT ![r] = [Idle EXCEPT !.pc = "login", !.new = n]]
      BY Zenon, <2>7 DEF Login
    <3>2. req'[r].pc = "login" /\ req'[r].new = n
      BY <3>1 DEF TypeOK, Idle
    <3>3. Issued' = Issued /\ family' = family
      BY <2>7 DEF Login, Issued
    <3>4. \A s \in Tokens : family[s] = n <=> s = n
      BY <3>1 DEF Fresh
    <3>5. \A q \in Requests :
             req'[q].pc \in Minting => req'[q].new \in minted' \ Issued'
      BY <3>1, <3>2, <3>3, <2>2 DEF Fresh
    <3>6. \A q \in Requests : req'[q].pc = "login"
               => \A s \in Tokens : family'[s] = req'[q].new <=> s = req'[q].new
      BY <3>2, <3>3, <3>4, <2>2 DEF Fresh
    <3>7. \A p, q \in Requests : p # q /\ req'[p].pc \in Minting /\ req'[q].pc \in Minting
             => req'[p].new # req'[q].new
      BY <3>1, <3>2, <2>2 DEF Fresh
    <3>8. /\ Issued' \subseteq minted'
          /\ \A t \in Tokens \ minted' : family'[t] = t
          /\ \A t \in minted' : family'[t] \in minted'
      BY <3>1, <3>3, <3>4 DEF Fresh
    <3> QED
      BY <2>6, <3>5, <3>6, <3>7, <3>8 DEF Fresh
  <2>8. CASE LockForRefresh(r)
    <3>1. PICK n \in Tokens \ minted :
             /\ minted' = minted \cup {n}
             /\ family' = [family EXCEPT ![n] = family[req[r].token]]
             /\ req' = [req EXCEPT ![r].pc = "rotate", ![r].new = n]
      BY <2>8 DEF LockForRefresh
    <3>2. req'[r].pc = "rotate" /\ req'[r].new = n
      BY <3>1 DEF TypeOK, Request
    <3>3. Issued' = Issued
      BY <2>8 DEF LockForRefresh, Issued
    <3>4. req[r].token \in minted /\ family[req[r].token] \in minted
      BY <2>8 DEF LockForRefresh, Fresh
    <3>5. \A s \in Tokens : family'[s] = IF s = n THEN family[req[r].token] ELSE family[s]
      BY <3>1 DEF TypeOK
    <3>a. \A q \in Requests \ {r} :
             req'[q].pc \in Minting => req'[q].new \in minted \ Issued
      <4>1. \A q \in Requests : req[q].pc \in Minting => req[q].new \in minted \ Issued
        BY DEF Fresh
      <4> QED
        BY <2>2, <4>1
    <3>b. n \notin Issued
      BY DEF Fresh
    <3>6. \A q \in Requests :
             req'[q].pc \in Minting => req'[q].new \in minted' \ Issued'
      <4>1. minted' = minted \cup {n}
        BY <3>1
      <4> QED
        BY <4>1, <3>2, <3>3, <3>a, <3>b
    <3>7. ASSUME NEW q \in Requests, req'[q].pc = "login", NEW s \in Tokens
          PROVE  family'[s] = req'[q].new <=> s = req'[q].new
      <4>1. q # r /\ req'[q] = req[q]
        BY <3>2, <3>7, <2>2
      <4>2. req[q].new \in minted \ Issued
        BY <3>7, <4>1 DEF Fresh, Minting
      <4>3. \A t \in Tokens : family[t] = req[q].new <=> t = req[q].new
        BY <3>7, <4>1 DEF Fresh
      <4>4. family[req[r].token] # req[q].new
        BY <4>2, <4>3, <2>8 DEF Fresh, LockForRefresh, Issued
      <4> QED
        BY <3>1, <3>5, <4>1, <4>2, <4>3, <4>4
    <3>8. \A p, q \in Requests : p # q /\ req'[p].pc \in Minting /\ req'[q].pc \in Minting
             => req'[p].new # req'[q].new
      <4>1. ASSUME NEW p \in Requests, NEW q \in Requests, p # q,
                   req'[p].pc \in Minting, req'[q].pc \in Minting
            PROVE  req'[p].new # req'[q].new
        <5>1. CASE p = r
          BY <3>2, <3>a, <4>1, <5>1
        <5>2. CASE q = r
          BY <3>2, <3>a, <4>1, <5>2
        <5>3. CASE p # r /\ q # r
          BY <2>2, <4>1, <5>3 DEF Fresh
        <5> QED
          BY <5>1, <5>2, <5>3
      <4> QED
        BY <4>1
    <3>9. /\ Issued' \subseteq minted'
          /\ \A t \in Tokens \ minted' : family'[t] = t
          /\ \A t \in minted' : family'[t] \in minted'
      BY <3>1, <3>3, <3>4, <3>5 DEF Fresh, TypeOK
    <3> QED
      BY <2>6, <3>6, <3>7, <3>8, <3>9 DEF Fresh
  <2>9. CASE ~Login(r) /\ ~LockForRefresh(r)
    <3>1. minted' = minted /\ family' = family
      BY <1>1, <2>9, MintEffect
    <3>2. req'[r].pc \notin Minting
      BY <2>3, <2>9
    <3>3. \A q \in Requests : req'[q].pc \in Minting => q # r /\ req'[q] = req[q]
      BY <2>2, <3>2
    <3>4. \A q \in Requests : req'[q].pc = "login" => q # r /\ req'[q] = req[q]
      BY <3>3 DEF Minting
    <3>5. \A q \in Requests :
             req'[q].pc \in Minting => req'[q].new \in minted' \ Issued'
      BY <2>1, <2>5, <3>1, <3>3 DEF Fresh
    <3>6. \A q \in Requests : req'[q].pc = "login"
               => \A s \in Tokens : family'[s] = req'[q].new <=> s = req'[q].new
      BY <3>1, <3>4 DEF Fresh
    <3>7. \A p, q \in Requests : p # q /\ req'[p].pc \in Minting /\ req'[q].pc \in Minting
             => req'[p].new # req'[q].new
      BY <3>3 DEF Fresh
    <3>8. Issued' \subseteq minted'
      BY <2>1, <2>4, <3>1 DEF Fresh
    <3> QED
      BY <2>6, <3>1, <3>5, <3>6, <3>7, <3>8 DEF Fresh
  <2> QED
    BY <2>7, <2>8, <2>9
<1>2. CASE LogoutAccessOnly
  BY <1>2 DEF LogoutAccessOnly, Fresh, Issued
<1> QED
  BY <1>1, <1>2 DEF Next

-----------------------------------------------------------------------------
\* The pair that a request creates leaves the family of every other alone.
LEMMA FamilyEffect ==
    ASSUME TypeOK, Fresh, NEW r \in Requests, RequestStep(r), NEW t \in minted
    PROVE  family'[t] = family[t]
<1>1. CASE LockForRefresh(r)
  BY <1>1 DEF LockForRefresh, TypeOK
<1>2. CASE Login(r)
  BY <1>2 DEF Login
<1> QED
  BY <1>1, <1>2, MintEffect

\* The rows that the UPDATE of a request has revoked stay its own until the end.
LEMMA HitStep ==
    ASSUME TypeOK, Fresh, Locks, NEW r \in Requests, RequestStep(r), NEW t \in req'[r].hit
    PROVE  lock'[t] = r /\ t \in Issued'
<1> USE DEF TypeOK, Start, Finish, Idle
<1>i. Issued \subseteq Issued'
  BY SetEffect
<1>h. req[r].hit \subseteq Tokens /\ \A s \in req[r].hit : lock[s] = r /\ s \in Issued
  BY DEF Locks, Request
<1>0. CASE Login(r) \/ ResetPassword(r)
  <2>1. req'[r].hit = {}
    BY Zenon, <1>0 DEF Login, ResetPassword
  <2> QED
    BY <2>1
<1>1. CASE Refresh(r) \/ Logout(r) \/ RevokeSession(r)
  <2>1. PICK u \in Issued, step \in {"refresh", "close"} :
           req' = [req EXCEPT ![r] = [Idle EXCEPT !.pc = step, !.token = u]]
    BY Zenon, <1>1 DEF Refresh, Logout, RevokeSession
  <2>2. req'[r].hit = {}
    BY <2>1
  <2> QED
    BY <2>2
<1>2. CASE CommitLogin(r) \/ CommitRefresh(r) \/ CommitClose(r) \/ BarCaller(r) \/ Abort(r)
  <2>1. req'[r].hit = {}
    BY <1>2 DEF CommitLogin, CommitRefresh, CommitClose, BarCaller, Abort
  <2> QED
    BY <2>1
<1>5. CASE RevokeAll(r)
  <2>1. req'[r].hit = {}
    BY <1>5 DEF RevokeAll
  <2> QED
    BY <2>1
<1>6. CASE CommitRevoke(r)
  <2>1. CASE req[r].pc = "logout_all"
    BY <1>6, <2>1 DEF CommitRevoke
  <2>2. CASE req[r].pc # "logout_all"
    BY <1>6, <2>2 DEF CommitRevoke
  <2> QED
    BY <2>1, <2>2
<1>3. CASE LockForRefresh(r) \/ DetectReplay(r) \/ BarAll(r)
  <2>1. req'[r].hit = req[r].hit
    BY <1>3 DEF LockForRefresh, DetectReplay, BarAll, Request
  <2>2. \A s \in Tokens : lock[s] = r => lock'[s] = r
    BY <1>3 DEF LockForRefresh, DetectReplay, BarAll
  <2> QED
    BY <1>i, <1>h, <2>1, <2>2
<1>4. CASE RevokeRow(r)
  <2>1. PICK u \in req[r].todo :
           \/ /\ session[u].state = "live"
              /\ lock' = [lock EXCEPT ![u] = r]
              /\ req' = [req EXCEPT ![r].todo = @ \ {u}, ![r].hit = @ \cup {u}]
           \/ req' = [req EXCEPT ![r].todo = @ \ {u}] /\ UNCHANGED lock
    BY <1>4 DEF RevokeRow
  <2>2. u \in Tokens
    BY DEF Request
  <2>3. CASE /\ session[u].state = "live"
             /\ lock' = [lock EXCEPT ![u] = r]
             /\ req' = [req EXCEPT ![r].todo = @ \ {u}, ![r].hit = @ \cup {u}]
    <3>1. req'[r].hit = req[r].hit \cup {u}
      BY <2>3 DEF Request
    <3>2. u \in Issued /\ lock'[u] = r /\ \A s \in Tokens : lock[s] = r => lock'[s] = r
      BY <2>2, <2>3 DEF Issued
    <3> QED
      BY <1>i, <1>h, <3>1, <3>2
  <2>4. CASE req' = [req EXCEPT ![r].todo = @ \ {u}] /\ UNCHANGED lock
    <3>1. req'[r].hit = req[r].hit
      BY <2>4 DEF Request
    <3> QED
      BY <1>i, <1>h, <2>4, <3>1
  <2> QED
    BY <2>1, <2>3, <2>4
<1> QED
  BY <1>0, <1>1, <1>2, <1>3, <1>4, <1>5, <1>6 DEF RequestStep

LEMMA LocksStep ==
    ASSUME TypeOK, Fresh, Locks, Next
    PROVE  Locks'
<1>1. ASSUME NEW r \in Requests, RequestStep(r) PROVE Locks'
  <2>1. \A q \in Requests \ {r} :
           /\ req'[q] = req[q]
           /\ \A t \in Tokens : lock[t] = q => lock'[t] = q
    BY <1>1, Frame
  <2>2. Issued \subseteq Issued'
    BY <1>1, SetEffect
  <2>3. ASSUME NEW q \in Requests, req'[q].pc = "rotate"
        PROVE  /\ lock'[req'[q].token] = q
               /\ session'[req'[q].token].state = "live"
               /\ family'[req'[q].new] = family'[req'[q].token]
    <3>1. CASE q = r
      <4>1. LockForRefresh(r)
        <5>1. Login(r) => req'[r].pc = "login"
          BY DEF Login, TypeOK, Idle
        <5> QED
          BY <1>1, <2>3, <3>1, <5>1, OwnEffect DEF Minting
      <4>2. PICK n \in Tokens \ minted :
               /\ minted' = minted \cup {n}
               /\ family' = [family EXCEPT ![n] = family[req[r].token]]
               /\ req' = [req EXCEPT ![r].pc = "rotate", ![r].new = n]
        BY <4>1 DEF LockForRefresh
      <4>3. req'[r].token = req[r].token /\ req'[r].new = n
        BY <4>2 DEF TypeOK, Request
      <4>4. req[r].token \in Tokens /\ req[r].token # n
        BY <4>1 DEF Fresh, LockForRefresh, Issued
      <4>5. lock'[req[r].token] = r /\ session'[req[r].token].state = "live"
        BY <4>1, <4>4 DEF LockForRefresh, TypeOK
      <4>6. family'[n] = family'[req[r].token]
        BY <4>2, <4>4 DEF TypeOK
      <4> QED
        BY <3>1, <4>3, <4>5, <4>6
    <3>2. CASE q # r
      <4>1. req'[q] = req[q] /\ req[q].pc = "rotate"
        BY <2>1, <2>3, <3>2
      <4>2. /\ lock[req[q].token] = q
            /\ session[req[q].token].state = "live"
            /\ family[req[q].new] = family[req[q].token]
        BY <4>1 DEF Locks
      <4>3. req[q].token \in Tokens /\ req[q].token \in minted /\ req[q].new \in minted
        BY <4>1 DEF Fresh, Minting, Issued
      <4>4. session'[req[q].token] = session[req[q].token]
        BY <1>1, <3>2, <4>2, <4>3, RowEffect, ConstantsAssumption DEF Free
      <4>5. /\ family'[req[q].new] = family[req[q].new]
            /\ family'[req[q].token] = family[req[q].token]
        BY <1>1, <4>3, FamilyEffect
      <4>6. lock'[req[q].token] = q
        BY <2>1, <3>2, <4>2, <4>3
      <4> QED
        BY <4>1, <4>2, <4>4, <4>5, <4>6
    <3> QED
      BY <3>1, <3>2
  <2>4. ASSUME NEW q \in Requests, NEW t \in req'[q].hit
        PROVE  lock'[t] = q /\ t \in Issued'
    <3>1. CASE q = r
      BY <1>1, <3>1, HitStep
    <3>2. CASE q # r
      BY <2>1, <2>2, <3>2 DEF Locks, Issued
    <3> QED
      BY <3>1, <3>2
  <2> QED
    BY <2>3, <2>4 DEF Locks
<1>2. CASE LogoutAccessOnly
  BY <1>2 DEF LogoutAccessOnly, Locks, Issued
<1> QED
  BY <1>1, <1>2 DEF Next

-----------------------------------------------------------------------------
\* A request's own snapshot: empty, just taken, or being worked through.
LEMMA SnapshotStep ==
    ASSUME TypeOK, Fresh, Locks, Updates, NEW r \in Requests, RequestStep(r)
    PROVE  /\ req'[r].seen \subseteq Issued'
           /\ \A t \in req'[r].seen \cap Live' : t \in req'[r].todo \cup req'[r].hit
           /\ req'[r].pc = "reset_commit" => req'[r].todo = {}
<1> USE DEF TypeOK, Start, Finish, Idle
<1>i. /\ Issued \subseteq Issued' /\ Live \subseteq Issued /\ Live \subseteq Tokens
      /\ Live' \cap Issued \subseteq Live
  BY SetEffect DEF Live, Issued
<1>u. /\ req[r].seen \subseteq Issued
      /\ \A t \in req[r].seen \cap Live : t \in req[r].todo \cup req[r].hit
      /\ req[r].pc = "reset_commit" => req[r].todo = {}
  BY DEF Updates
<1>0. CASE Login(r)
  <2>1. req'[r].seen = {} /\ req'[r].todo = {}
    BY <1>0 DEF Login
  <2> QED
    BY <2>1
<1>1. CASE Refresh(r) \/ Logout(r) \/ RevokeSession(r)
  <2>1. PICK t \in Issued, step \in {"refresh", "close"} :
           req' = [req EXCEPT ![r] = [Idle EXCEPT !.pc = step, !.token = t]]
    BY Zenon, <1>1 DEF Refresh, Logout, RevokeSession
  <2>2. req'[r].seen = {} /\ req'[r].todo = {} /\ req'[r].pc # "reset_commit"
    BY <2>1
  <2> QED
    BY <2>2
<1>2. CASE CommitLogin(r) \/ CommitRefresh(r) \/ CommitClose(r) \/ BarCaller(r) \/ Abort(r)
  <2>1. req'[r].seen = {} /\ req'[r].todo = {}
    BY <1>2 DEF CommitLogin, CommitRefresh, CommitClose, BarCaller, Abort
  <2> QED
    BY <2>1
<1>3. CASE CommitRevoke(r)
  <2>1. CASE req[r].pc = "logout_all"
    BY <1>3, <2>1 DEF CommitRevoke
  <2>2. CASE req[r].pc # "logout_all"
    BY <1>3, <2>2 DEF CommitRevoke
  <2> QED
    BY <2>1, <2>2
<1>4. CASE RevokeAll(r)
  <2>1. PICK a \in Accepted, step \in {"logout_all", "change_password"} :
           req' = [req EXCEPT ![r] =
                     [Idle EXCEPT !.pc = step, !.token = a, !.seen = Live, !.todo = Live]]
    BY Zenon, <1>4 DEF RevokeAll
  <2>2. req'[r].seen = Live /\ req'[r].todo = Live /\ req'[r].pc # "reset_commit"
    BY <2>1
  <2> QED
    BY <1>i, <2>2
<1>5. CASE ResetPassword(r)
  <2>1. req'[r].seen = Live /\ req'[r].todo = Live /\ req'[r].pc # "reset_commit"
    BY <1>5 DEF ResetPassword
  <2> QED
    BY <1>i, <2>1
<1>6. CASE DetectReplay(r)
  <2>1. req'[r].seen = Live /\ req'[r].todo = Live /\ req'[r].pc # "reset_commit"
    BY <1>6 DEF DetectReplay, Request
  <2> QED
    BY <1>i, <2>1
<1>7. CASE LockForRefresh(r)
  <2>1. /\ req'[r].seen = req[r].seen /\ req'[r].todo = req[r].todo
        /\ req'[r].hit = req[r].hit /\ req'[r].pc = "rotate"
    BY <1>7 DEF LockForRefresh, Request
  <2> QED
    BY <1>i, <1>u, <2>1
<1>8. CASE BarAll(r)
  <2>1. /\ req'[r].seen = req[r].seen /\ req'[r].todo = req[r].todo
        /\ req'[r].hit = req[r].hit /\ req[r].todo = {}
    BY <1>8 DEF BarAll, Request
  <2> QED
    BY <1>i, <1>u, <2>1
<1>9. CASE RevokeRow(r)
  <2>1. PICK u \in req[r].todo :
           \/ req' = [req EXCEPT ![r].todo = @ \ {u}, ![r].hit = @ \cup {u}]
           \/ /\ session[u].state # "live"
              /\ req' = [req EXCEPT ![r].todo = @ \ {u}]
    BY <1>9 DEF RevokeRow
  <2>2. req[r].pc # "reset_commit"
    BY <1>9 DEF RevokeRow, Revoking
  <2>3. /\ req'[r].seen = req[r].seen /\ req'[r].todo = req[r].todo \ {u}
        /\ req'[r].pc = req[r].pc
        /\ \/ req'[r].hit = req[r].hit \cup {u}
           \/ req'[r].hit = req[r].hit /\ u \notin Live
    <3>1. CASE req' = [req EXCEPT ![r].todo = @ \ {u}, ![r].hit = @ \cup {u}]
      <4>1. req'[r] = [req[r] EXCEPT !.todo = @ \ {u}, !.hit = @ \cup {u}]
        BY <3>1
      <4> QED
        BY <4>1 DEF Request
    <3>2. CASE /\ session[u].state # "live"
               /\ req' = [req EXCEPT ![r].todo = @ \ {u}]
      <4>1. u \notin Live
        BY <3>2 DEF Live
      <4> QED
        BY <3>2, <4>1 DEF Request
    <3> QED
      BY <2>1, <3>1, <3>2
  <2> QED
    BY <1>i, <1>u, <2>2, <2>3
<1> QED
  BY <1>0, <1>1, <1>2, <1>3, <1>4, <1>5, <1>6, <1>7, <1>8, <1>9 DEF RequestStep

LEMMA UpdatesStep ==
    ASSUME TypeOK, Fresh, Locks, Updates, Next
    PROVE  Updates'
<1>1. ASSUME NEW r \in Requests, RequestStep(r) PROVE Updates'
  <2>1. /\ Issued \subseteq Issued' /\ Live \subseteq Issued
        /\ Live' \cap Issued \subseteq Live
    BY <1>1, SetEffect DEF Live, Issued
  <2>2. /\ closed \subseteq Issued /\ closed \cap Live = {}
        /\ \A q \in Requests :
              /\ req[q].seen \subseteq Issued
              /\ \A t \in req[q].seen \cap Live : t \in req[q].todo \cup req[q].hit
              /\ req[q].pc = "reset_commit" => req[q].todo = {}
    BY DEF Updates, RevocationComplete
  <2>3. closed' \subseteq Issued' /\ closed' \cap Live' = {}
    <3>1. CASE CommitRevoke(r)
      <4>1. closed' = closed \cup req[r].seen /\ req[r].todo = {}
        BY <3>1 DEF CommitRevoke
      <4>2. ASSUME NEW t \in req[r].seen, t \in Live' PROVE FALSE
        <5>1. t \in req[r].hit /\ t \in Tokens
          BY <2>1, <2>2, <4>1, <4>2 DEF Live
        <5>2. session'[t].state = "revoked"
          BY <3>1, <5>1 DEF CommitRevoke, TypeOK, Session
        <5> QED
          BY <4>2, <5>2 DEF Live
      <4> QED
        BY <2>1, <2>2, <4>1, <4>2
    <3>2. CASE ~CommitRevoke(r)
      <4>1. closed' = closed
        BY Zenon, <1>1, <3>2 DEF RequestStep, Login, CommitLogin, Refresh, LockForRefresh,
             CommitRefresh, DetectReplay, Logout, RevokeSession, CommitClose, RevokeAll,
             ResetPassword, RevokeRow, BarAll, BarCaller, Abort
      <4> QED
        BY <2>1, <2>2, <4>1
    <3> QED
      BY <3>1, <3>2
  <2>4. ASSUME NEW q \in Requests
        PROVE  /\ req'[q].seen \subseteq Issued'
               /\ \A t \in req'[q].seen \cap Live' : t \in req'[q].todo \cup req'[q].hit
               /\ req'[q].pc = "reset_commit" => req'[q].todo = {}
    <3>1. CASE q = r
      BY <1>1, <3>1, SnapshotStep
    <3>2. CASE q # r
      <4>1. req'[q] = req[q]
        BY <1>1, <3>2, Frame
      <4> QED
        BY <2>1, <2>2, <4>1
    <3> QED
      BY <3>1, <3>2
  <2> QED
    BY <2>3, <2>4 DEF Updates, RevocationComplete
<1>2. CASE LogoutAccessOnly
  BY <1>2 DEF LogoutAccessOnly, Updates, RevocationComplete, Issued, Live
<1> QED
  BY <1>1, <1>2 DEF Next

LEMMA OneLiveStep ==
    ASSUME TypeOK, Fresh, Locks, OneLivePerLogin, Next
    PROVE  OneLivePerLogin'
<1>1. ASSUME NEW r \in Requests, RequestStep(r) PROVE OneLivePerLogin'
  <2>1. /\ Live' \subseteq Live \cup Inserts(r) /\ Inserts(r) \cap Issued = {}
        /\ Live \subseteq Issued /\ Issued \subseteq minted
        /\ Inserts(r) \subseteq Tokens /\ Live \subseteq Tokens
    BY <1>1, SetEffect DEF Live, Issued, Fresh
  <2>2. Inserts(r) \subseteq minted
    BY DEF Inserts, CommitLogin, CommitRefresh, Fresh, Minting
  <2>3. \A t \in Live \cup Inserts(r) : family'[t] = family[t]
    BY <1>1, <2>1, <2>2, FamilyEffect
  <2>4. \A s, t \in Live : family[s] = family[t] => s = t
    BY DEF OneLivePerLogin
  <2>5. ASSUME NEW n \in Inserts(r), NEW s \in Live', s # n PROVE family[s] # family[n]
    <3>1. s \in Live /\ Inserts(r) = {n} /\ n = req[r].new
      BY <2>1, <2>5 DEF Inserts
    <3>2. CASE CommitLogin(r)
      BY <2>1, <2>5, <3>1, <3>2 DEF CommitLogin, Fresh
    <3>3. CASE CommitRefresh(r)
      <4>1. /\ req[r].token \in Live
            /\ family[n] = family[req[r].token]
        BY <3>1, <3>3 DEF CommitRefresh, Locks, Fresh, Live, Issued
      <4>2. req[r].token # n
        BY <2>1, <2>5, <4>1
      <4>3. session'[req[r].token].state = "revoked"
        BY <3>1, <3>3, <4>1, <4>2, <2>1 DEF CommitRefresh, TypeOK
      <4>4. s # req[r].token
        BY <2>5, <4>3 DEF Live
      <4> QED
        BY <2>4, <3>1, <4>1, <4>4
    <3> QED
      BY <2>5, <3>2, <3>3 DEF Inserts
  <2>6. \A m, n \in Inserts(r) : m = n
    BY DEF Inserts
  <2> QED
    BY <2>1, <2>3, <2>4, <2>5, <2>6 DEF OneLivePerLogin
<1>2. CASE LogoutAccessOnly
  BY <1>2 DEF LogoutAccessOnly, OneLivePerLogin, Live
<1> QED
  BY <1>1, <1>2 DEF Next

-----------------------------------------------------------------------------
LEMMA InitIInv ==
    ASSUME Init
    PROVE  IInv
<1>1. TypeOK
  BY Zenon, IdleType DEF Init, TypeOK, Session
<1>2. Live = {} /\ Issued = {}
  BY DEF Init, Live, Issued
<1>3. Fresh
  BY <1>2 DEF Init, Fresh, Idle, Minting
<1>4. Locks
  BY DEF Init, Locks, Idle
<1>5. Updates
  BY <1>2 DEF Init, Updates, RevocationComplete, Idle
<1>6. OneLivePerLogin
  BY <1>2 DEF OneLivePerLogin
<1> QED
  BY <1>1, <1>3, <1>4, <1>5, <1>6 DEF IInv

LEMMA StepIInv ==
    ASSUME IInv, [Next]_vars
    PROVE  IInv'
<1>1. CASE Next
  BY <1>1, TypeStep, FreshStep, LocksStep, UpdatesStep, OneLiveStep DEF IInv
<1>2. CASE UNCHANGED vars
  BY <1>2 DEF vars, IInv, TypeOK, Fresh, Locks, Updates, RevocationComplete,
              OneLivePerLogin, Live, Issued
<1> QED
  BY <1>1, <1>2

LEMMA Inductive == Spec => []IInv
<1>1. Init => IInv
  BY InitIInv
<1>2. IInv /\ [Next]_vars => IInv'
  BY StepIInv
<1> QED
  BY <1>1, <1>2, PTL DEF Spec

\* Every state of AuthSessions has its type: a row that has been replaced
\* (refresh) is revoked, whatever runs beside it.
THEOREM TypeCorrect == Spec => []TypeOK
<1>1. IInv => TypeOK
  BY DEF IInv
<1> QED
  BY <1>1, Inductive, PTL

\* Rotation (AuthService.refresh): for any number of concurrent requests a
\* login never has two live sessions.
THEOREM RotationLeavesOne == Spec => []OneLivePerLogin
<1>1. IInv => OneLivePerLogin
  BY DEF IInv
<1> QED
  BY <1>1, Inductive, PTL

\* _revoke_all_refresh_tokens: for any number of concurrent requests, what
\* was live in the snapshot of a committed revocation is never live again.
THEOREM RevocationHolds == Spec => []RevocationComplete
<1>1. IInv => RevocationComplete
  BY DEF IInv, Updates
<1> QED
  BY <1>1, Inductive, PTL
=============================================================================
