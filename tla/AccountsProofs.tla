---------------------------- MODULE AccountsProofs ----------------------------
(***************************************************************************)
(* Proofs about Accounts for any number of accounts, tokens and requests   *)
(* in flight.                                                              *)
(*                                                                         *)
(* Nothing is locked between the checks of a request and its commit.  What *)
(* still holds at the commit is what no other request can have taken away  *)
(* without having overlapped with it: one part of the invariant for each   *)
(* kind of row (Redeeming, Issuing, Removing).                             *)
(***************************************************************************)
EXTENDS Accounts, FiniteSetTheorems, TLAPS

Kind(r) == req[r].kind

\* What every request has checked, and no other can undo.
Formed(r) ==
    /\ Kind(r) \in {"register", "issue"} =>
          req[r].user \in Users /\ req[r].token \in Tokens /\ token[req[r].token] = NoToken
    /\ Kind(r) = "issue" => /\ req[r].purpose \in Purposes
                            /\ \A t \in req[r].seen : token[t] # NoToken
    /\ Kind(r) = "redeem" => req[r].token \in Tokens /\ token[req[r].token] # NoToken
    /\ Kind(r) \in {"issue", "redeem", "role", "active", "scope"} =>
          req[r].user \in Users /\ Exists(req[r].user)
    /\ Kind(r) = "role" => req[r].role \in Roles
    /\ Kind(r) = "active" => req[r].role = "none"
    /\ Kind(r) = "scope" => req[r].role \in {"moderator", "none"} /\ req[r].entity \in Entities

\* Identifiers are not drawn twice.
NewTokensDiffer ==
    \A r, q \in Requests :
        r # q /\ Kind(r) \in {"register", "issue"} /\ Kind(q) \in {"register", "issue"} =>
            req[r].token # req[q].token

Redeemers(t) == {r \in Requests : Kind(r) = "redeem" /\ req[r].token = t}

\* A token with a use is not live: who redeems it once more has read it
\* before, next to the one that has used it.
Redeeming(t) ==
    /\ token[t].uses > 0 => token[t].state = "consumed"
    /\ token[t].uses + Cardinality(Redeemers(t)) <= Cardinality(Requests)
    /\ <<"token", t>> \notin raced =>
          /\ \A r, q \in Redeemers(t) : r = q
          /\ token[t].uses > 0 => Redeemers(t) = {}
          /\ token[t].uses <= 1

IsIssue(r, u, purpose) == Kind(r) = "issue" /\ req[r].user = u /\ req[r].purpose = purpose

\* A request for a new token puts an end to every live one.
Issuing(u, purpose) ==
    <<"issue", u, purpose>> \notin raced =>
        /\ \A t, o \in Live(u, purpose) : t = o
        /\ \A r, q \in Requests : IsIssue(r, u, purpose) /\ IsIssue(q, u, purpose) => r = q
        /\ \A r \in Requests : IsIssue(r, u, purpose) => Live(u, purpose) \subseteq req[r].seen

\* A request that may remove an admin leaves another.
Removing ==
    <<"admins">> \notin raced =>
        /\ ActiveAdmins # {}
        /\ \A r, q \in Requests : Removes(req[r]) /\ Removes(req[q]) => r = q
        /\ \A r \in Requests : Removes(req[r]) => ActiveAdmins \ {req[r].user} # {}

IInv ==
    /\ TypeOK
    /\ \A r \in Requests : Formed(r)
    /\ NewTokensDiffer
    /\ \A t \in Tokens : Redeeming(t)
    /\ \A u \in Users, purpose \in Purposes : Issuing(u, purpose)
    /\ Removing

-----------------------------------------------------------------------------
\* An admin has an update checked, or ends a request without a token.
Updating(r, u) ==
    \/ \E role \in Roles : UpdateUserRole(r, u, role)
    \/ \E active \in BOOLEAN : SetUserStatus(r, u, active)
    \/ \E e \in Entities : AddModeratorScope(r, u, e)

Ending(r) ==
    \/ CommitUpdate(r) \/ Abort(r)
    \/ \E u \in Users : \/ \E b \in BOOLEAN : VerifyUser(r, u, b)
                        \/ \E e \in Entities : DeleteModeratorScope(r, u, e)

LEMMA Steps ==
    ASSUME Next
    PROVE  \/ \E r \in Requests, u \in Users, t \in Tokens : Register(r, u, t)
           \/ \E r \in Requests, u \in Users, t \in Tokens, purpose \in Purposes :
                 Issue(r, u, t, purpose)
           \/ \E r \in Requests, t \in Tokens : Redeem(r, t)
           \/ \E r \in Requests, a \in Users : Authenticate(r, a)
           \/ \E r \in Requests, u \in Users : Updating(r, u)
           \/ \E r \in Requests :
                 CommitRegister(r) \/ CommitIssue(r) \/ CommitRedeem(r) \/ Ending(r)
           \/ \E t \in Tokens : Expire(t)
<1>1. ASSUME NEW r \in Requests, Authenticating(r)
      PROVE  \/ \E u \in Users, t \in Tokens : Register(r, u, t)
             \/ \E u \in Users, t \in Tokens, purpose \in Purposes : Issue(r, u, t, purpose)
             \/ \E t \in Tokens : Redeem(r, t)
  BY <1>1 DEF Authenticating, ForgotPassword, ResendVerification, ResetPassword,
              VerifyEmail, Purposes
<1>2. ASSUME NEW r \in Requests, Administering(r)
      PROVE  Ending(r) \/ \E u \in Users : Updating(r, u)
  BY <1>2 DEF Administering, Ending, Updating
<1>3. ASSUME NEW r \in Requests, Committing(r) \/ Abort(r)
      PROVE  CommitRegister(r) \/ CommitIssue(r) \/ CommitRedeem(r) \/ Ending(r)
  BY <1>3 DEF Committing, Ending
<1> QED
  BY <1>1, <1>2, <1>3 DEF Next

(* What the steps do to the requests in flight.                            *)

Only(r) == \A q \in Requests \ {r} : req'[q] = req[q]

LEMMA Begins ==
    ASSUME TypeOK, NEW r \in Requests, NEW q \in Request,
           req' = [req EXCEPT ![r] = q]
    PROVE  req' \in [Requests -> Request] /\ req'[r] = q /\ Only(r)
BY DEF TypeOK, Only

LEMMA Ends ==
    ASSUME TypeOK, NEW r \in Requests, End(r)
    PROVE  /\ req' \in [Requests -> Request] /\ UNCHANGED starts
           /\ req'[r] = Idle /\ Kind(r)' = "idle" /\ ~Removes(req'[r]) /\ Only(r)
<1>1. Idle \in Request
  BY DEF Idle, Request
<1>2. Idle.kind = "idle" /\ ~Removes(Idle)
  BY DEF Idle, Removes
<1> QED
  BY <1>1, <1>2, Begins DEF End, Kind

LEMMA StartsType ==
    ASSUME TypeOK, NEW r, NEW q, Start(r, q)
    PROVE  starts' \in 0 .. MaxStarts /\ req' = [req EXCEPT ![r] = q]
BY ConstantsAssumption DEF Start, TypeOK

LEMMA RegisterStep ==
    ASSUME TypeOK, NEW r \in Requests, NEW u \in Users, NEW t \in Tokens, Register(r, u, t)
    PROVE  /\ req' \in [Requests -> Request] /\ starts' \in 0 .. MaxStarts
           /\ Kind(r)' = "register" /\ req'[r].user = u /\ req'[r].token = t /\ Only(r)
           /\ Fresh(t) /\ ~Removes(req'[r])
           /\ UNCHANGED <<user, scope, token, raced>>
<1> DEFINE q == [Idle EXCEPT !.kind = "register", !.user = u, !.token = t]
<1>1. q \in Request /\ q.kind = "register" /\ q.user = u /\ q.token = t /\ ~Removes(q)
  BY DEF Idle, Request, Removes
<1>2. Start(r, q) /\ Fresh(t) /\ UNCHANGED <<user, scope, token, raced>>
  BY DEF Register
<1> HIDE DEF q
<1> QED
  BY <1>1, <1>2, StartsType, Begins DEF Kind

LEMMA IssueStep ==
    ASSUME TypeOK, NEW r \in Requests, NEW u \in Users, NEW t \in Tokens,
           NEW purpose \in Purposes, Issue(r, u, t, purpose)
    PROVE  /\ req' \in [Requests -> Request] /\ starts' \in 0 .. MaxStarts
           /\ IsIssue(r, u, purpose)' /\ req'[r].token = t
           /\ req'[r].seen = Live(u, purpose) /\ Only(r)
           /\ Fresh(t) /\ Exists(u) /\ ~Removes(req'[r])
           /\ raced \subseteq raced'
           /\ \A o \in Requests : IsIssue(o, u, purpose) => <<"issue", u, purpose>> \in raced'
           /\ UNCHANGED <<user, scope, token>>
<1> DEFINE q == [Idle EXCEPT !.kind = "issue", !.user = u, !.token = t,
                             !.purpose = purpose, !.seen = Live(u, purpose)]
<1>1. /\ q \in Request /\ q.kind = "issue" /\ q.user = u /\ q.token = t
      /\ q.purpose = purpose /\ q.seen = Live(u, purpose) /\ ~Removes(q)
  BY DEF Idle, Request, Removes, Live
<1>2. Start(r, q) /\ Exists(u) /\ Fresh(t) /\ UNCHANGED <<user, scope, token>>
  BY DEF Issue
<1>3. /\ raced \subseteq raced'
      /\ \A o \in Requests : IsIssue(o, u, purpose) => <<"issue", u, purpose>> \in raced'
  BY DEF Issue, IsIssue, Kind
<1> HIDE DEF q
<1> QED
  BY <1>1, <1>2, <1>3, StartsType, Begins DEF IsIssue, Kind

LEMMA RedeemStep ==
    ASSUME TypeOK, NEW r \in Requests, NEW t \in Tokens, Redeem(r, t)
    PROVE  /\ req' \in [Requests -> Request] /\ starts' \in 0 .. MaxStarts
           /\ Kind(r)' = "redeem" /\ req'[r].token = t /\ Only(r)
           /\ req'[r].user \in Users /\ Exists(req'[r].user)
           /\ token[t] # NoToken /\ token[t].state = "live" /\ ~Removes(req'[r])
           /\ raced \subseteq raced'
           /\ Redeemers(t) # {} => <<"token", t>> \in raced'
           /\ UNCHANGED <<user, scope, token>>
<1> DEFINE q == [Idle EXCEPT !.kind = "redeem", !.token = t, !.user = token[t].user]
<1>1. Start(r, q) /\ token[t].state = "live" /\ UNCHANGED <<user, scope, token>>
  BY DEF Redeem
<1>2. token[t] # NoToken /\ token[t].user \in Users /\ Exists(token[t].user)
  BY <1>1 DEF TypeOK, Token, NoToken
<1>3. /\ q \in Request /\ q.kind = "redeem" /\ q.user = token[t].user /\ q.token = t
      /\ ~Removes(q)
  BY <1>2 DEF Idle, Request, Removes
<1>4. raced \subseteq raced' /\ (Redeemers(t) # {} => <<"token", t>> \in raced')
  BY DEF Redeem, Redeemers, Kind
<1> HIDE DEF q
<1> QED
  BY <1>1, <1>2, <1>3, <1>4, StartsType, Begins DEF Kind

LEMMA AuthenticateStep ==
    ASSUME TypeOK, NEW r \in Requests, NEW a \in Users, Authenticate(r, a)
    PROVE  /\ req' \in [Requests -> Request] /\ starts' \in 0 .. MaxStarts
           /\ Kind(r)' = "admin" /\ Only(r) /\ ~Removes(req'[r])
           /\ UNCHANGED <<user, scope, token, raced>>
<1> DEFINE q == [Idle EXCEPT !.kind = "admin", !.user = a]
<1>1. q \in Request /\ q.kind = "admin" /\ ~Removes(q)
  BY DEF Idle, Request, Removes
<1>2. Start(r, q) /\ UNCHANGED <<user, scope, token, raced>>
  BY DEF Authenticate
<1> HIDE DEF q
<1> QED
  BY <1>1, <1>2, StartsType, Begins DEF Kind

LEMMA MoreThanOne ==
    ASSUME NEW S, IsFiniteSet(S)
    PROVE  /\ Cardinality(S) > 1 <=> \E x, y \in S : x # y
           /\ Cardinality(S) > 1 => \A x : S \ {x} # {}
<1>1. Cardinality(S) \in Nat
  BY FS_CardinalityType
<1>2. ASSUME NEW x, S \subseteq {x} PROVE Cardinality(S) <= 1
  <2>1. IsFiniteSet({x}) /\ Cardinality({x}) = 1
    BY FS_Singleton
  <2> QED
    BY <1>2, <2>1, FS_Subset
<1>3. ASSUME NEW x \in S, NEW y \in S, x # y PROVE Cardinality(S) > 1
  <2>1. IsFiniteSet(S \ {x}) /\ Cardinality(S \ {x}) = Cardinality(S) - 1
    BY FS_RemoveElement
  <2>2. Cardinality(S \ {x}) # 0
    BY <1>3, <2>1, FS_EmptySet
  <2> QED
    BY <1>1, <2>1, <2>2, FS_CardinalityType
<1>4. Cardinality(S) > 1 => \A x : S \ {x} # {}
  <2>1. ASSUME NEW x, S \ {x} = {} PROVE ~(Cardinality(S) > 1)
    <3>1. S \subseteq {x}
      BY <2>1
    <3> QED
      BY <1>1, <1>2, <3>1
  <2> QED
    BY <2>1
<1>5. Cardinality(S) > 1 => \E x, y \in S : x # y
  <2> SUFFICES ASSUME Cardinality(S) > 1 PROVE \E x, y \in S : x # y
    OBVIOUS
  <2>1. PICK x : x \in S
    BY <1>4
  <2>2. S \ {x} # {}
    BY <1>4
  <2> QED
    BY <2>1, <2>2
<1> QED
  BY <1>3, <1>4, <1>5

LEMMA Finiteness ==
    /\ IsFiniteSet(ActiveAdmins)
    /\ \A u, purpose : IsFiniteSet(Live(u, purpose))
    /\ \A t : IsFiniteSet(Redeemers(t)) /\ Cardinality(Redeemers(t)) \in Nat
    /\ \A t : Cardinality(Redeemers(t)) <= Cardinality(Requests)
    /\ Cardinality(Requests) \in Nat
<1>1. /\ ActiveAdmins \subseteq Users
      /\ \A u, purpose : Live(u, purpose) \subseteq Tokens
      /\ \A t : Redeemers(t) \subseteq Requests
  BY DEF ActiveAdmins, Live, Redeemers
<1> QED
  BY <1>1, ConstantsAssumption, FS_Subset, FS_CardinalityType

\* What an admin is about to write: the last active admin is not counted out.
LEMMA UpdateStep ==
    ASSUME TypeOK, Removing, NEW r \in Requests, NEW u \in Users, Updating(r, u)
    PROVE  /\ req' \in [Requests -> Request] /\ Only(r)
           /\ Kind(r)' \in {"role", "active", "scope"}
           /\ req'[r].user = u /\ Exists(u)
           /\ Kind(r)' = "role" => req'[r].role \in Roles
           /\ Kind(r)' = "active" => req'[r].role = "none"
           /\ Kind(r)' = "scope" => /\ req'[r].role \in {"moderator", "none"}
                                    /\ req'[r].entity \in Entities
           /\ raced \subseteq raced'
           /\ Removes(req'[r]) =>
                 /\ \A o \in Requests : Removes(req[o]) => <<"admins">> \in raced'
                 /\ <<"admins">> \notin raced => ActiveAdmins \ {u} # {}
           /\ UNCHANGED <<user, scope, token, starts>>
<1> DEFINE Sound(q) ==
             /\ q \in Request
             /\ q.kind \in {"role", "active", "scope"} /\ q.user = u
             /\ q.kind = "role" => q.role \in Roles
             /\ q.kind = "active" => q.role = "none"
             /\ q.kind = "scope" => q.role \in {"moderator", "none"} /\ q.entity \in Entities
             /\ Removes(q) /\ u \in ActiveAdmins => Cardinality(ActiveAdmins) > 1
<1>1. \E q : Sound(q) /\ StartUpdate(r, q) /\ Exists(u)
  <2>1. ASSUME NEW role \in Roles, UpdateUserRole(r, u, role)
        PROVE  \E q : Sound(q) /\ StartUpdate(r, q) /\ Exists(u)
    <3> DEFINE q == [Idle EXCEPT !.kind = "role", !.user = u, !.role = role]
    <3>1. StartUpdate(r, q) /\ Exists(u)
      BY <2>1 DEF UpdateUserRole, ActsOn
    <3>2. q \in Request /\ q.kind = "role" /\ q.user = u /\ q.role = role
      BY DEF Idle, Request
    <3>3. Removes(q) /\ u \in ActiveAdmins => Cardinality(ActiveAdmins) > 1
      BY <2>1, <3>2 DEF Removes, UpdateUserRole, NotLastActiveAdmin, ActiveAdmins
    <3>4. Sound(q)
      BY <3>2, <3>3
    <3> QED
      BY <3>1, <3>4
  <2>2. ASSUME NEW active \in BOOLEAN, SetUserStatus(r, u, active)
        PROVE  \E q : Sound(q) /\ StartUpdate(r, q) /\ Exists(u)
    <3> DEFINE q == [Idle EXCEPT !.kind = "active", !.user = u, !.active = active]
    <3>1. StartUpdate(r, q) /\ Exists(u)
      BY <2>2 DEF SetUserStatus, ActsOn
    <3>2. /\ q \in Request /\ q.kind = "active" /\ q.user = u /\ q.active = active
          /\ q.role = "none"
      BY DEF Idle, Request
    <3>3. Removes(q) /\ u \in ActiveAdmins => Cardinality(ActiveAdmins) > 1
      BY <2>2, <3>2 DEF Removes, SetUserStatus, NotLastActiveAdmin, ActiveAdmins
    <3>4. Sound(q)
      BY <3>2, <3>3
    <3> QED
      BY <3>1, <3>4
  <2>3. ASSUME NEW e \in Entities, AddModeratorScope(r, u, e)
        PROVE  \E q : Sound(q) /\ StartUpdate(r, q) /\ Exists(u)
    <3> DEFINE role == IF user[u].role = "student" /\ u # req[r].user
                       THEN "moderator" ELSE "none"
               q == [Idle EXCEPT !.kind = "scope", !.user = u, !.entity = e, !.role = role]
    <3>1. StartUpdate(r, q) /\ Exists(u)
      BY <2>3 DEF AddModeratorScope, ActsOn
    <3>2. /\ q \in Request /\ q.kind = "scope" /\ q.user = u /\ q.role = role
          /\ q.entity = e /\ role \in {"moderator", "none"}
      BY DEF Idle, Request, Roles
    <3>3. Removes(q) => u \notin ActiveAdmins
      BY <3>2 DEF Removes, ActiveAdmins
    <3>4. Sound(q)
      BY <3>2, <3>3
    <3> QED
      BY <3>1, <3>4
  <2> QED
    BY <2>1, <2>2, <2>3 DEF Updating
<1>2. PICK q : Sound(q) /\ StartUpdate(r, q) /\ Exists(u)
  BY <1>1
<1>3. /\ req' = [req EXCEPT ![r] = q] /\ raced \subseteq raced'
      /\ Removes(q) => \A o \in Requests : Removes(req[o]) => <<"admins">> \in raced'
      /\ UNCHANGED <<user, scope, token, starts>>
  BY <1>2 DEF StartUpdate
<1>4. req' \in [Requests -> Request] /\ req'[r] = q /\ Only(r)
  BY <1>2, <1>3, Begins
<1>5. Removes(q) /\ <<"admins">> \notin raced => ActiveAdmins \ {u} # {}
  <2>1. CASE u \in ActiveAdmins
    BY <1>2, <2>1, Finiteness, MoreThanOne
  <2>2. CASE u \notin ActiveAdmins
    BY <2>2 DEF Removing
  <2> QED
    BY <2>1, <2>2
<1> QED
  BY <1>2, <1>3, <1>4, <1>5 DEF Kind

-----------------------------------------------------------------------------
(* What the commits do to the rows.                                        *)

\* No account disappears; all active admins but those of lost stay.
UsersKept(lost) ==
    /\ user' \in [Users -> User \cup {NoUser}]
    /\ \A v \in Users : Exists(v) => Exists(v)'
    /\ ActiveAdmins \ lost \subseteq ActiveAdmins'

LEMMA OneUserWritten ==
    ASSUME TypeOK, NEW u \in Users, NEW row \in User, user' = [user EXCEPT ![u] = row]
    PROVE  /\ UsersKept({u})
           /\ (user[u].role = "admin" /\ user[u].active => row.role = "admin" /\ row.active)
                 => UsersKept({})
           /\ Exists(u)'
<1>1. user' \in [Users -> User \cup {NoUser}] /\ user'[u] = row
  BY DEF TypeOK
<1>2. \A v \in Users \ {u} : user'[v] = user[v]
  BY DEF TypeOK
<1>3. row # NoUser
  BY DEF User, NoUser, Roles
<1>4. /\ \A v \in Users : Exists(v) => Exists(v)'
      /\ Exists(u)'
  BY <1>1, <1>2, <1>3 DEF Exists
<1> QED
  BY <1>1, <1>2, <1>4 DEF UsersKept, ActiveAdmins

LEMMA CommitRegisterStep ==
    ASSUME TypeOK, NEW r \in Requests, Formed(r), CommitRegister(r)
    PROVE  /\ Kind(r) = "register" /\ ~Exists(req[r].user)
           /\ req[r].user \in Users /\ req[r].token \in Tokens
           /\ token[req[r].token] = NoToken
           /\ token' = [token EXCEPT ![req[r].token] = NewToken(req[r].user, "verify")]
           /\ user'[req[r].user] # NoUser /\ UsersKept({})
           /\ End(r) /\ UNCHANGED <<scope, raced>>
<1> DEFINE row == [role |-> "student", active |-> TRUE, verified |-> FALSE]
<1>1. /\ Kind(r) = "register" /\ ~Exists(req[r].user)
      /\ user' = [user EXCEPT ![req[r].user] = row]
      /\ token' = [token EXCEPT ![req[r].token] = NewToken(req[r].user, "verify")]
      /\ End(r) /\ UNCHANGED <<scope, raced>>
  BY DEF CommitRegister, Kind
<1>2. /\ req[r].user \in Users /\ req[r].token \in Tokens
      /\ token[req[r].token] = NoToken
  BY <1>1 DEF Formed
<1>3. row \in User
  BY DEF User, Roles
<1>4. user[req[r].user].role # "admin"
  BY <1>1 DEF Exists, NoUser
<1> HIDE DEF row
<1>5. UsersKept({}) /\ user'[req[r].user] # NoUser
  BY <1>1, <1>2, <1>3, <1>4, OneUserWritten DEF Exists
<1> QED
  BY <1>1, <1>2, <1>5

LEMMA CommitIssueStep ==
    ASSUME TypeOK, NEW r \in Requests, Formed(r), CommitIssue(r)
    PROVE  /\ IsIssue(r, req[r].user, req[r].purpose)
           /\ req[r].user \in Users /\ req[r].purpose \in Purposes /\ Exists(req[r].user)
           /\ req[r].token \in Tokens /\ token[req[r].token] = NoToken
           /\ token' = [t \in Tokens |->
                          IF t = req[r].token THEN NewToken(req[r].user, req[r].purpose)
                          ELSE IF t \in req[r].seen THEN [token[t] EXCEPT !.state = "consumed"]
                          ELSE token[t]]
           /\ End(r) /\ UNCHANGED <<user, scope, raced>>
BY DEF CommitIssue, Formed, IsIssue, Kind

LEMMA CommitRedeemStep ==
    ASSUME TypeOK, NEW r \in Requests, Formed(r), CommitRedeem(r)
    PROVE  /\ Kind(r) = "redeem" /\ req[r].token \in Tokens
           /\ token[req[r].token] # NoToken
           /\ token' = [token EXCEPT ![req[r].token] = Redeemed(@)]
           /\ UsersKept({}) /\ End(r) /\ UNCHANGED <<scope, raced>>
<1>1. /\ Kind(r) = "redeem" /\ req[r].token \in Tokens
      /\ token[req[r].token] # NoToken
      /\ req[r].user \in Users /\ Exists(req[r].user)
      /\ token' = [token EXCEPT ![req[r].token] = Redeemed(@)]
      /\ \/ user' = [user EXCEPT ![req[r].user].verified = TRUE]
         \/ user' = user
      /\ End(r) /\ UNCHANGED <<scope, raced>>
  BY DEF CommitRedeem, Formed, Kind
<1>2. CASE user' = user
  BY <1>1, <1>2 DEF UsersKept, TypeOK, Exists, ActiveAdmins
<1>3. CASE user' = [user EXCEPT ![req[r].user].verified = TRUE]
  <2> DEFINE row == [user[req[r].user] EXCEPT !.verified = TRUE]
  <2>1. user[req[r].user] \in User
    BY <1>1 DEF TypeOK, Exists
  <2>2. row \in User /\ row.role = user[req[r].user].role /\ row.active = user[req[r].user].active
    BY <2>1 DEF User
  <2>3. user' = [user EXCEPT ![req[r].user] = row]
    BY <1>3
  <2> HIDE DEF row
  <2> QED
    BY <1>1, <2>2, <2>3, OneUserWritten
<1> QED
  BY <1>1, <1>2, <1>3

\* The commits and the ends of requests that concern no token.
LEMMA EndStep ==
    ASSUME TypeOK, NEW r \in Requests, Formed(r), Ending(r)
    PROVE  /\ End(r) /\ UNCHANGED <<token, raced>>
           /\ scope' \in [Users -> SUBSET Entities]
           /\ UsersKept({req[r].user})
           /\ Removes(req[r]) \/ UsersKept({})
<1>1. ASSUME UNCHANGED user PROVE \A S : UsersKept(S)
  BY <1>1 DEF UsersKept, TypeOK, Exists, ActiveAdmins
<1>2. CASE Abort(r)
  BY <1>1, <1>2 DEF Abort, TypeOK
<1>3. ASSUME NEW u \in Users, NEW e \in Entities, DeleteModeratorScope(r, u, e)
      PROVE  /\ End(r) /\ UNCHANGED <<user, token, raced>>
             /\ scope' \in [Users -> SUBSET Entities]
  BY <1>3 DEF DeleteModeratorScope, TypeOK
<1>4. ASSUME NEW u \in Users, NEW b \in BOOLEAN, VerifyUser(r, u, b)
      PROVE  /\ End(r) /\ UNCHANGED <<scope, token, raced>> /\ \A S : UsersKept(S)
  <2> DEFINE row == [user[u] EXCEPT !.verified = b]
  <2>1. /\ Exists(u) /\ user' = [user EXCEPT ![u].verified = b]
        /\ End(r) /\ UNCHANGED <<scope, token, raced>>
    BY <1>4 DEF VerifyUser, ActsOn
  <2>2. user[u] \in User
    BY <2>1 DEF TypeOK, Exists
  <2>3. row \in User /\ row.role = user[u].role /\ row.active = user[u].active
    BY <2>2 DEF User
  <2>4. user' = [user EXCEPT ![u] = row]
    BY <2>1
  <2> HIDE DEF row
  <2>5. UsersKept({})
    BY <2>3, <2>4, OneUserWritten
  <2> QED
    BY <2>1, <2>5 DEF UsersKept
<1>5. CASE CommitUpdate(r)
  <2> DEFINE q == req[r]
             old == user[q.user]
             row == [old EXCEPT !.role = IF q.role # "none" THEN q.role ELSE @,
                                !.active = IF q.kind = "active" THEN q.active ELSE @]
  <2>1. /\ q.kind \in {"role", "active", "scope"} /\ q.user \in Users /\ Exists(q.user)
        /\ q \in Request
        /\ q.kind = "role" => q.role \in Roles
        /\ q.kind = "active" => q.role = "none"
        /\ q.kind = "scope" => q.role \in {"moderator", "none"} /\ q.entity \in Entities
    BY <1>5 DEF CommitUpdate, Formed, Kind, TypeOK
  <2>2. old \in User
    BY <2>1 DEF TypeOK, Exists
  <2>3. q.role \in Roles \cup {"none"} /\ q.active \in BOOLEAN
    BY <2>1 DEF Request
  <2>4. /\ row \in User
        /\ row.role = IF q.role # "none" THEN q.role ELSE old.role
        /\ row.active = IF q.kind = "active" THEN q.active ELSE old.active
    BY <2>2, <2>3 DEF User
  <2>5. user' = [user EXCEPT ![q.user] = row]
    BY <1>5 DEF CommitUpdate, TypeOK
  <2>6. /\ End(r) /\ UNCHANGED <<token, raced>>
        /\ scope' \in [Users -> SUBSET Entities]
    BY <1>5, <2>1 DEF CommitUpdate, TypeOK
  <2>7. ~Removes(q) =>
           (old.role = "admin" /\ old.active => row.role = "admin" /\ row.active)
    BY <2>1, <2>3, <2>4 DEF Removes, Roles
  <2> HIDE DEF row, old
  <2>8. UsersKept({q.user}) /\ (Removes(q) \/ UsersKept({}))
    BY <2>1, <2>4, <2>5, <2>7, OneUserWritten DEF old
  <2> QED
    BY <2>6, <2>8
<1> QED
  BY <1>1, <1>2, <1>3, <1>4, <1>5 DEF TypeOK, Ending

-----------------------------------------------------------------------------
LEMMA OneRedeemerLess ==
    ASSUME NEW t, NEW r \in Redeemers(t)
    PROVE  /\ Cardinality(Redeemers(t)) >= 1
           /\ Cardinality(Redeemers(t) \ {r}) = Cardinality(Redeemers(t)) - 1
<1>1. Cardinality(Redeemers(t) \ {r}) = Cardinality(Redeemers(t)) - 1
  BY Finiteness, FS_RemoveElement
<1>2. Cardinality(Redeemers(t) \ {r}) \in Nat
  BY Finiteness, FS_RemoveElement, FS_CardinalityType
<1> QED
  BY <1>1, <1>2, Finiteness

LEMMA TypeStep ==
    ASSUME IInv, Next
    PROVE  TypeOK'
<1> USE DEF IInv
<1>1. ASSUME UNCHANGED token, \A v \in Users : Exists(v) => Exists(v)'
      PROVE  /\ token' \in [Tokens -> Token \cup {NoToken}]
             /\ \A t \in Tokens : token'[t] # NoToken => user'[token'[t].user] # NoUser
  <2>1. ASSUME NEW t \in Tokens, token[t] # NoToken
        PROVE  token[t].user \in Users /\ Exists(token[t].user)
    BY <2>1 DEF TypeOK, Token
  <2> QED
    BY <1>1, <2>1 DEF TypeOK, Exists
<1>2. ASSUME UNCHANGED <<user, scope, token>>, req' \in [Requests -> Request],
             starts' \in 0 .. MaxStarts
      PROVE  TypeOK'
  BY <1>2 DEF TypeOK, Exists
<1>3. ASSUME NEW r \in Requests, NEW u \in Users, NEW t \in Tokens, Register(r, u, t)
      PROVE  TypeOK'
  BY <1>2, <1>3, RegisterStep
<1>4. ASSUME NEW r \in Requests, NEW u \in Users, NEW t \in Tokens,
             NEW purpose \in Purposes, Issue(r, u, t, purpose)
      PROVE  TypeOK'
  BY <1>2, <1>4, IssueStep
<1>5. ASSUME NEW r \in Requests, NEW t \in Tokens, Redeem(r, t) PROVE TypeOK'
  BY <1>2, <1>5, RedeemStep
<1>6. ASSUME NEW r \in Requests, NEW a \in Users, Authenticate(r, a) PROVE TypeOK'
  BY <1>2, <1>6, AuthenticateStep
<1>7. ASSUME NEW r \in Requests, NEW u \in Users, Updating(r, u) PROVE TypeOK'
  BY <1>2, <1>7, UpdateStep DEF TypeOK
<1>8. ASSUME NEW r \in Requests, Ending(r) PROVE TypeOK'
  <2>1. UsersKept({req[r].user}) /\ End(r) /\ UNCHANGED token
        /\ scope' \in [Users -> SUBSET Entities]
    BY <1>8, EndStep
  <2> QED
    BY <1>1, <2>1, Ends DEF UsersKept, TypeOK, Exists
<1>9. ASSUME NEW t \in Tokens, Expire(t) PROVE TypeOK'
  <2>1. token[t] \in Token
    BY <1>9 DEF Expire, TypeOK, NoToken
  <2>2. /\ [token[t] EXCEPT !.state = "expired"] \in Token
        /\ [token[t] EXCEPT !.state = "expired"].user = token[t].user
        /\ token[t] # NoToken
    BY <1>9, <2>1 DEF Token, Expire, NoToken
  <2>3. token' = [token EXCEPT ![t] = [token[t] EXCEPT !.state = "expired"]]
    BY <1>9 DEF Expire, TypeOK
  <2> QED
    BY <1>9, <2>2, <2>3 DEF Expire, TypeOK, Exists
<1>10. ASSUME NEW u \in Users, NEW purpose \in Purposes
       PROVE  NewToken(u, purpose) \in Token /\ NewToken(u, purpose).user = u
  BY Finiteness DEF NewToken, Token
<1>11. ASSUME NEW r \in Requests, CommitRegister(r) PROVE TypeOK'
  <2> DEFINE u == req[r].user
             t == req[r].token
             new == NewToken(u, "verify")
  <2>1. /\ u \in Users /\ t \in Tokens /\ token' = [token EXCEPT ![t] = new]
        /\ user'[u] # NoUser /\ UsersKept({}) /\ End(r) /\ UNCHANGED scope
    BY <1>11, CommitRegisterStep
  <2>2. new \in Token /\ new.user = u
    BY <1>10, <2>1 DEF Purposes
  <2> HIDE DEF u, t, new
  <2>3. token' \in [Tokens -> Token \cup {NoToken}]
    BY <2>1, <2>2 DEF TypeOK
  <2>4. \A o \in Tokens : token'[o] # NoToken => user'[token'[o].user] # NoUser
    <3> SUFFICES ASSUME NEW o \in Tokens, token'[o] # NoToken
                 PROVE  user'[token'[o].user] # NoUser
      OBVIOUS
    <3>1. CASE o = t
      BY <2>1, <2>2, <3>1 DEF TypeOK
    <3>2. CASE o # t
      BY <2>1, <3>2 DEF TypeOK, Token, UsersKept, Exists
    <3> QED
      BY <3>1, <3>2
  <2> QED
    BY <2>1, <2>3, <2>4, Ends DEF TypeOK, UsersKept, Exists
<1>12. ASSUME NEW r \in Requests, CommitIssue(r) PROVE TypeOK'
  <2> DEFINE u == req[r].user
             t == req[r].token
             new == NewToken(u, req[r].purpose)
             seen == req[r].seen
  <2>1. /\ u \in Users /\ Exists(u) /\ t \in Tokens /\ req[r].purpose \in Purposes
        /\ token' = [o \in Tokens |->
                       IF o = t THEN new
                       ELSE IF o \in seen THEN [token[o] EXCEPT !.state = "consumed"]
                       ELSE token[o]]
        /\ End(r) /\ UNCHANGED <<user, scope>>
    BY <1>12, CommitIssueStep
  <2>2. new \in Token /\ new.user = u
    BY <1>10, <2>1
  <2> HIDE DEF u, t, new
  <2>3. seen \subseteq Tokens /\ \A o \in seen : token[o] # NoToken
    BY <1>12 DEF TypeOK, Request, Formed, CommitIssue, Kind
  <2>4. \A o \in seen : /\ [token[o] EXCEPT !.state = "consumed"] \in Token
                        /\ [token[o] EXCEPT !.state = "consumed"].user = token[o].user
    BY <2>3 DEF TypeOK, Token
  <2> HIDE DEF seen
  <2>5. \A o \in Tokens : /\ token'[o] \in Token \cup {NoToken}
                          /\ token'[o] # NoToken => user'[token'[o].user] # NoUser
    <3> TAKE o \in Tokens
    <3>1. CASE o = t
      BY <2>1, <2>2, <3>1 DEF Exists
    <3>2. CASE o # t /\ o \in seen
      BY <2>1, <2>3, <2>4, <3>2 DEF TypeOK, Exists
    <3>3. CASE o # t /\ o \notin seen
      BY <2>1, <3>3 DEF TypeOK, Exists
    <3> QED
      BY <3>1, <3>2, <3>3
  <2>6. token' \in [Tokens -> Token \cup {NoToken}]
    BY <2>1, <2>5
  <2> QED
    BY <2>1, <2>5, <2>6, Ends DEF TypeOK, Exists
<1>13. ASSUME NEW r \in Requests, CommitRedeem(r) PROVE TypeOK'
  <2> DEFINE t == req[r].token
             new == Redeemed(token[t])
  <2>1. /\ t \in Tokens /\ token[t] \in Token /\ token' = [token EXCEPT ![t] = new]
        /\ UsersKept({}) /\ End(r) /\ UNCHANGED scope
        /\ r \in Redeemers(t)
    BY <1>13, CommitRedeemStep DEF Redeemers, TypeOK
  <2>2. token[t].uses + 1 \in 0 .. Cardinality(Requests)
    <3>1. token[t].uses \in 0 .. Cardinality(Requests)
      BY <2>1 DEF Token
    <3>2. token[t].uses + Cardinality(Redeemers(t)) <= Cardinality(Requests)
      BY <2>1 DEF Redeeming
    <3>3. Cardinality(Redeemers(t)) >= 1
      BY <2>1, OneRedeemerLess
    <3> QED
      BY <3>1, <3>2, <3>3, Finiteness
  <2>3. new \in Token /\ new.user = token[t].user
    BY <2>1, <2>2 DEF Redeemed, Token
  <2> HIDE DEF t, new
  <2>4. token' \in [Tokens -> Token \cup {NoToken}]
    BY <2>1, <2>3 DEF TypeOK
  <2>5. \A o \in Tokens : token'[o] # NoToken => user'[token'[o].user] # NoUser
    <3> SUFFICES ASSUME NEW o \in Tokens, token'[o] # NoToken
                 PROVE  user'[token'[o].user] # NoUser
      OBVIOUS
    <3>1. token[o] # NoToken /\ token'[o].user = token[o].user
      BY <2>1, <2>3 DEF TypeOK, Token, NoToken
    <3> QED
      BY <2>1, <3>1 DEF TypeOK, Token, UsersKept, Exists
  <2> QED
    BY <2>1, <2>4, <2>5, Ends DEF TypeOK, UsersKept, Exists
<1> QED
  BY <1>3, <1>4, <1>5, <1>6, <1>7, <1>8, <1>9, <1>11, <1>12, <1>13, Steps

-----------------------------------------------------------------------------
\* No token disappears, and the requests but r find theirs still unused.
TokensKept(r) ==
    /\ \A t \in Tokens : token[t] # NoToken => token'[t] # NoToken
    /\ \A q \in Requests \ {r} : Kind(q) \in {"register", "issue"} =>
          token'[req[q].token] = NoToken

LEMMA FormedKept ==
    ASSUME TypeOK, NEW r \in Requests, TokensKept(r), NEW q \in Requests \ {r}, Formed(q),
           req'[q] = req[q], \A v \in Users : Exists(v) => Exists(v)'
    PROVE  Formed(q)'
<1>1. req[q].seen \subseteq Tokens
  BY DEF TypeOK, Request
<1> QED
  BY <1>1 DEF Formed, TokensKept, Kind, Exists

LEMMA TokensUnchanged ==
    ASSUME UNCHANGED token, NEW r \in Requests, \A q \in Requests : Formed(q)
    PROVE  TokensKept(r)
BY DEF TokensKept, Formed

LEMMA FormedStep ==
    ASSUME IInv, Next
    PROVE  (\A r \in Requests : Formed(r)') /\ NewTokensDiffer'
<1> USE DEF IInv
<1>1. ASSUME NEW r \in Requests, Only(r), TokensKept(r),
             \A v \in Users : Exists(v) => Exists(v)',
             Formed(r)', Kind(r)' \in {"register", "issue"} => Fresh(req'[r].token)
      PROVE  (\A q \in Requests : Formed(q)') /\ NewTokensDiffer'
  <2>1. \A q \in Requests \ {r} : req'[q] = req[q]
    BY <1>1 DEF Only
  <2>2. \A q \in Requests \ {r} : Formed(q)'
    BY <1>1, <2>1, FormedKept
  <2>3. NewTokensDiffer'
    BY <1>1, <2>1 DEF NewTokensDiffer, Kind, Fresh
  <2> QED
    BY <1>1, <2>2, <2>3
<1>2. ASSUME NEW r \in Requests, Kind(r)' \in {"idle", "admin"} PROVE Formed(r)'
  BY <1>2 DEF Formed
<1>3. ASSUME NEW r \in Requests, NEW u \in Users, NEW t \in Tokens, Register(r, u, t)
      PROVE  (\A q \in Requests : Formed(q)') /\ NewTokensDiffer'
  <2>1. Formed(r)'
    BY <1>3, RegisterStep DEF Formed, Fresh
  <2> QED
    BY <1>1, <1>3, <2>1, RegisterStep, TokensUnchanged DEF Exists
<1>4. ASSUME NEW r \in Requests, NEW u \in Users, NEW t \in Tokens,
             NEW purpose \in Purposes, Issue(r, u, t, purpose)
      PROVE  (\A q \in Requests : Formed(q)') /\ NewTokensDiffer'
  <2>1. \A o \in Live(u, purpose) : token[o] # NoToken
    BY ConstantsAssumption DEF Live, NoToken
  <2>2. Formed(r)'
    <3>1. /\ req'[r].kind = "issue" /\ req'[r].user = u /\ req'[r].purpose = purpose
          /\ req'[r].token = t /\ req'[r].seen = Live(u, purpose)
          /\ token[t] = NoToken /\ Exists(u) /\ UNCHANGED <<user, token>>
      <4>1. /\ IsIssue(r, u, purpose)' /\ req'[r].token = t
            /\ req'[r].seen = Live(u, purpose) /\ Fresh(t) /\ Exists(u)
            /\ UNCHANGED <<user, token>>
        BY <1>4, IssueStep
      <4> QED
        BY <4>1 DEF IsIssue, Kind, Fresh
    <3> QED
      BY <2>1, <3>1 DEF Formed, Exists, Kind
  <2> QED
    BY <1>1, <1>4, <2>2, IssueStep, TokensUnchanged DEF Exists
<1>5. ASSUME NEW r \in Requests, NEW t \in Tokens, Redeem(r, t)
      PROVE  (\A q \in Requests : Formed(q)') /\ NewTokensDiffer'
  <2>1. Formed(r)'
    BY <1>5, RedeemStep DEF Formed, Exists
  <2> QED
    BY <1>1, <1>5, <2>1, RedeemStep, TokensUnchanged DEF Exists
<1>6. ASSUME NEW r \in Requests, NEW a \in Users, Authenticate(r, a)
      PROVE  (\A q \in Requests : Formed(q)') /\ NewTokensDiffer'
  BY <1>1, <1>2, <1>6, AuthenticateStep, TokensUnchanged DEF Exists
<1>7. ASSUME NEW r \in Requests, NEW u \in Users, Updating(r, u)
      PROVE  (\A q \in Requests : Formed(q)') /\ NewTokensDiffer'
  <2>1. Formed(r)'
    BY <1>7, UpdateStep DEF Formed, Exists
  <2> QED
    BY <1>1, <1>7, <2>1, UpdateStep, TokensUnchanged DEF Exists
<1>8. ASSUME NEW r \in Requests, Ending(r)
      PROVE  (\A q \in Requests : Formed(q)') /\ NewTokensDiffer'
  BY <1>1, <1>2, <1>8, EndStep, Ends, TokensUnchanged DEF UsersKept
<1>9. ASSUME NEW t \in Tokens, Expire(t)
      PROVE  (\A q \in Requests : Formed(q)') /\ NewTokensDiffer'
  <2>1. /\ token[t] # NoToken /\ token'[t] # NoToken
        /\ \A o \in Tokens \ {t} : token'[o] = token[o]
        /\ UNCHANGED <<user, req>>
    BY <1>9 DEF Expire, NoToken, TypeOK, Token
  <2>2. \A q \in Requests : req[q].seen \subseteq Tokens
    BY DEF TypeOK, Request
  <2> QED
    BY <2>1, <2>2 DEF Formed, NewTokensDiffer, Kind, Exists
<1>10. ASSUME NEW r \in Requests, CommitRegister(r)
       PROVE  (\A q \in Requests : Formed(q)') /\ NewTokensDiffer'
  <2> DEFINE new == NewToken(req[r].user, "verify")
  <2>1. /\ req[r].token \in Tokens /\ Kind(r) = "register"
        /\ token' = [token EXCEPT ![req[r].token] = new]
        /\ UsersKept({}) /\ End(r)
    BY <1>10, CommitRegisterStep
  <2>2. new # NoToken
    BY DEF NewToken, NoToken
  <2> HIDE DEF new
  <2>3. TokensKept(r)
    BY <2>1, <2>2 DEF TokensKept, Formed, NewTokensDiffer, TypeOK
  <2> QED
    BY <1>1, <1>2, <2>1, <2>3, Ends DEF UsersKept
<1>11. ASSUME NEW r \in Requests, CommitIssue(r)
       PROVE  (\A q \in Requests : Formed(q)') /\ NewTokensDiffer'
  <2> DEFINE new == NewToken(req[r].user, req[r].purpose)
             seen == req[r].seen
             used(o) == [token[o] EXCEPT !.state = "consumed"]
  <2>1. /\ req[r].token \in Tokens /\ Kind(r) = "issue"
        /\ token' = [o \in Tokens |-> IF o = req[r].token THEN new
                                      ELSE IF o \in seen THEN used(o) ELSE token[o]]
        /\ End(r) /\ UNCHANGED user
        /\ \A o \in seen : token[o] # NoToken
    BY <1>11, CommitIssueStep DEF Formed, IsIssue
  <2>2. new # NoToken
    BY DEF NewToken, NoToken
  <2>3. \A o \in Tokens : token[o] # NoToken => used(o) # NoToken
    BY DEF TypeOK, Token, NoToken
  <2> HIDE DEF new, seen, used
  <2>4. TokensKept(r)
    BY <2>1, <2>2, <2>3 DEF TokensKept, Formed, NewTokensDiffer
  <2> QED
    BY <1>1, <1>2, <2>1, <2>4, Ends DEF Exists
<1>12. ASSUME NEW r \in Requests, CommitRedeem(r)
       PROVE  (\A q \in Requests : Formed(q)') /\ NewTokensDiffer'
  <2> DEFINE new == Redeemed(token[req[r].token])
  <2>1. /\ req[r].token \in Tokens /\ token[req[r].token] # NoToken
        /\ token' = [token EXCEPT ![req[r].token] = new]
        /\ UsersKept({}) /\ End(r)
    BY <1>12, CommitRedeemStep
  <2>2. new # NoToken
    BY <2>1 DEF Redeemed, NoToken, TypeOK, Token
  <2> HIDE DEF new
  <2>3. TokensKept(r)
    BY <2>1, <2>2 DEF TokensKept, Formed, TypeOK
  <2> QED
    BY <1>1, <1>2, <2>1, <2>3, Ends DEF UsersKept
<1> QED
  BY <1>3, <1>4, <1>5, <1>6, <1>7, <1>8, <1>9, <1>10, <1>11, <1>12, Steps

-----------------------------------------------------------------------------
LEMMA RedeemingStep ==
    ASSUME IInv, Next
    PROVE  \A t \in Tokens : Redeeming(t)'
<1> USE DEF IInv
<1> DEFINE Quiet(t) == /\ token'[t].uses = token[t].uses
                       /\ token[t].state = "consumed" => token'[t].state = "consumed"
           Fewer(t) == \A q \in Requests :
                          Kind(q)' = "redeem" /\ req'[q].token = t => q \in Redeemers(t)
<1>1. ASSUME NEW t \in Tokens, Quiet(t), Fewer(t), raced \subseteq raced'
      PROVE  Redeeming(t)'
  <2>1. Redeemers(t)' \subseteq Redeemers(t)
    BY <1>1 DEF Redeemers
  <2>2. Cardinality(Redeemers(t)') <= Cardinality(Redeemers(t))
    BY <2>1, Finiteness, FS_Subset
  <2>3. Cardinality(Redeemers(t)') \in Nat /\ Cardinality(Redeemers(t)) \in Nat
    BY <2>1, Finiteness, FS_Subset, FS_CardinalityType
  <2>4. token[t].uses \in Nat
    BY Finiteness DEF TypeOK, Token, NoToken
  <2>5. token[t].uses + Cardinality(Redeemers(t)') <= Cardinality(Requests)
    <3>1. token[t].uses + Cardinality(Redeemers(t)) <= Cardinality(Requests)
      BY DEF Redeeming
    <3> QED
      BY <2>2, <2>3, <2>4, <3>1, Finiteness
  <2>6. token'[t].uses > 0 => token'[t].state = "consumed"
    BY <1>1 DEF Redeeming
  <2>7. <<"token", t>> \notin raced' => <<"token", t>> \notin raced
    BY <1>1
  <2> HIDE DEF IInv
  <2>8. <<"token", t>> \notin raced =>
          /\ \A r, q \in Redeemers(t)' : r = q
          /\ token[t].uses > 0 => Redeemers(t)' = {}
          /\ token[t].uses <= 1
    <3>1. Redeeming(t)
      BY DEF IInv
    <3> QED
      BY <2>1, <3>1 DEF Redeeming
  <2> QED
    BY <1>1, <2>5, <2>6, <2>7, <2>8 DEF Redeeming
<1>2. ASSUME NEW r \in Requests, Only(r), Kind(r)' # "redeem"
      PROVE  \A t \in Tokens : Fewer(t)
  BY <1>2 DEF Only, Redeemers, Kind
<1> HIDE DEF Fewer
<1>3. ASSUME UNCHANGED token PROVE \A t \in Tokens : Quiet(t)
  BY <1>3
<1>4. ASSUME NEW r \in Requests, NEW u \in Users, NEW t \in Tokens, Register(r, u, t)
      PROVE  \A o \in Tokens : Redeeming(o)'
  BY <1>1, <1>2, <1>3, <1>4, RegisterStep
<1>5. ASSUME NEW r \in Requests, NEW u \in Users, NEW t \in Tokens,
             NEW purpose \in Purposes, Issue(r, u, t, purpose)
      PROVE  \A o \in Tokens : Redeeming(o)'
  BY <1>1, <1>2, <1>3, <1>5, IssueStep DEF IsIssue
<1>6. ASSUME NEW r \in Requests, NEW a \in Users, Authenticate(r, a)
      PROVE  \A o \in Tokens : Redeeming(o)'
  BY <1>1, <1>2, <1>3, <1>6, AuthenticateStep
<1>7. ASSUME NEW r \in Requests, NEW u \in Users, Updating(r, u)
      PROVE  \A o \in Tokens : Redeeming(o)'
  BY <1>1, <1>2, <1>3, <1>7, UpdateStep
<1>8. ASSUME NEW r \in Requests, Ending(r) PROVE \A o \in Tokens : Redeeming(o)'
  BY <1>1, <1>2, <1>3, <1>8, EndStep, Ends
<1>9. ASSUME NEW t \in Tokens, Expire(t) PROVE \A o \in Tokens : Redeeming(o)'
  <2>1. \A o \in Tokens : Fewer(o)
    BY <1>9 DEF Expire, Fewer, Redeemers, Kind
  <2>2. \A o \in Tokens : Quiet(o)
    BY <1>9 DEF Expire, TypeOK, Token, NoToken
  <2> QED
    BY <1>1, <1>9, <2>1, <2>2 DEF Expire
<1>10. ASSUME NEW r \in Requests, CommitRegister(r) PROVE \A o \in Tokens : Redeeming(o)'
  <2>1. \A o \in Tokens : Quiet(o)
    <3>1. /\ req[r].token \in Tokens /\ token[req[r].token] = NoToken
          /\ token' = [token EXCEPT ![req[r].token] = NewToken(req[r].user, "verify")]
      BY <1>10, CommitRegisterStep
    <3>2. \A o \in Tokens \ {req[r].token} : token'[o] = token[o]
      BY <3>1 DEF TypeOK
    <3>3. token'[req[r].token] = NewToken(req[r].user, "verify")
      BY <3>1 DEF TypeOK
    <3> QED
      BY <3>1, <3>2, <3>3 DEF NewToken, NoToken
  <2> QED
    BY <1>1, <1>2, <1>10, <2>1, CommitRegisterStep, Ends
<1>11. ASSUME NEW r \in Requests, CommitIssue(r) PROVE \A o \in Tokens : Redeeming(o)'
  <2>1. \A o \in Tokens : Quiet(o)
    <3>1. \A o \in Tokens : [token[o] EXCEPT !.state = "consumed"].uses = token[o].uses
                            /\ [token[o] EXCEPT !.state = "consumed"].state = "consumed"
      BY DEF TypeOK, Token, NoToken
    <3>2. /\ token' = [t \in Tokens |->
                          IF t = req[r].token THEN NewToken(req[r].user, req[r].purpose)
                          ELSE IF t \in req[r].seen THEN [token[t] EXCEPT !.state = "consumed"]
                          ELSE token[t]]
          /\ token[req[r].token] = NoToken
      BY <1>11, CommitIssueStep
    <3> TAKE o \in Tokens
    <3>3. CASE o = req[r].token
      BY <3>2, <3>3 DEF NewToken, NoToken
    <3>4. CASE o # req[r].token /\ o \in req[r].seen
      BY <3>1, <3>2, <3>4
    <3>5. CASE o # req[r].token /\ o \notin req[r].seen
      BY <3>2, <3>5
    <3> QED
      BY <3>3, <3>4, <3>5
  <2> QED
    BY <1>1, <1>2, <1>11, <2>1, CommitIssueStep, Ends
<1>12. ASSUME NEW r \in Requests, NEW t \in Tokens, Redeem(r, t)
       PROVE  \A o \in Tokens : Redeeming(o)'
  <2>1. /\ Kind(r)' = "redeem" /\ req'[r].token = t /\ Only(r)
        /\ token[t].state = "live" /\ raced \subseteq raced'
        /\ Redeemers(t) # {} => <<"token", t>> \in raced'
        /\ UNCHANGED token
    BY <1>12, RedeemStep
  <2>2. \A o \in Tokens \ {t} : Redeeming(o)'
    <3>1. \A o \in Tokens \ {t} : Fewer(o)
      BY <2>1 DEF Only, Fewer, Redeemers, Kind
    <3> QED
      BY <1>1, <1>3, <2>1, <3>1
  <2>3. Redeeming(t)'
    <3>1. token[t].uses = 0
      <4>1. token[t].uses \in Nat
        BY <2>1, Finiteness DEF TypeOK, Token, NoToken
      <4>2. ~(token[t].uses > 0)
        BY <2>1 DEF Redeeming
      <4> QED
        BY <4>1, <4>2
    <3>2. Redeemers(t)' \subseteq Requests /\ Redeemers(t)' \subseteq Redeemers(t) \cup {r}
      BY <2>1 DEF Redeemers, Only, Kind
    <3>3. Cardinality(Redeemers(t)') <= Cardinality(Requests)
      BY <3>2, ConstantsAssumption, FS_Subset
    <3>4. Cardinality(Redeemers(t)') \in Nat
      BY <3>2, ConstantsAssumption, FS_Subset, FS_CardinalityType
    <3> QED
      BY <2>1, <3>1, <3>2, <3>3, <3>4, Finiteness DEF Redeeming
  <2> QED
    BY <2>2, <2>3
<1>13. ASSUME NEW r \in Requests, CommitRedeem(r) PROVE \A o \in Tokens : Redeeming(o)'
  <2> SUFFICES ASSUME NEW t \in Tokens, t = req[r].token
               PROVE  \A o \in Tokens : Redeeming(o)'
    BY <1>13, CommitRedeemStep
  <2>1. /\ t \in Tokens /\ token[t] \in Token /\ r \in Redeemers(t)
        /\ token' = [token EXCEPT ![t] = Redeemed(token[t])]
        /\ End(r) /\ UNCHANGED raced
    BY <1>13, CommitRedeemStep DEF Redeemers, TypeOK
  <2>2. Only(r) /\ Kind(r)' = "idle"
    BY <2>1, Ends
  <2>3. \A o \in Tokens \ {t} : Redeeming(o)'
    <3>1. \A o \in Tokens \ {t} : Quiet(o)
      BY <2>1 DEF TypeOK
    <3> QED
      BY <1>1, <1>2, <2>1, <2>2, <3>1
  <2>4. token'[t].uses = token[t].uses + 1 /\ token'[t].state = "consumed"
    BY <2>1 DEF Redeemed, Token, TypeOK
  <2>6. Redeemers(t)' = Redeemers(t) \ {r}
    BY <2>2 DEF Redeemers, Only, Kind
  <2>7. Cardinality(Redeemers(t)') = Cardinality(Redeemers(t)) - 1
    BY <2>1, <2>6, OneRedeemerLess
  <2>8. token[t].uses \in Nat
    BY <2>1, Finiteness DEF Token
  <2>9. Redeeming(t)
    BY <2>1
  <2>10. token'[t].uses + Cardinality(Redeemers(t)') <= Cardinality(Requests)
    <3>1. token[t].uses + Cardinality(Redeemers(t)) <= Cardinality(Requests)
      BY <2>9 DEF Redeeming
    <3> QED
      BY <2>4, <2>7, <2>8, <3>1, Finiteness
  <2>11. <<"token", t>> \notin raced => token[t].uses = 0 /\ Redeemers(t)' = {}
    BY <2>1, <2>6, <2>8, <2>9 DEF Redeeming
  <2>12. Redeeming(t)'
    BY <2>1, <2>4, <2>10, <2>11 DEF Redeeming
  <2> QED
    BY <2>3, <2>12
<1> QED
  BY <1>4, <1>5, <1>6, <1>7, <1>8, <1>9, <1>10, <1>11, <1>12, <1>13, Steps

-----------------------------------------------------------------------------
LEMMA IssuingStep ==
    ASSUME IInv, Next
    PROVE  \A u \in Users, purpose \in Purposes : Issuing(u, purpose)'
<1> USE DEF IInv
<1> DEFINE All == \A u \in Users, purpose \in Purposes : Issuing(u, purpose)'
           Fewer(u, purpose) == Live(u, purpose)' \subseteq Live(u, purpose)
           Same(u, purpose) == \A q \in Requests :
              IsIssue(q, u, purpose)' => IsIssue(q, u, purpose) /\ req'[q].seen = req[q].seen
<1>1. ASSUME NEW u \in Users, NEW purpose \in Purposes,
             Fewer(u, purpose), Same(u, purpose), raced \subseteq raced'
      PROVE  Issuing(u, purpose)'
  <2>1. Issuing(u, purpose)
    OBVIOUS
  <2> QED
    BY <1>1, <2>1 DEF Issuing
<1>2. ASSUME NEW r \in Requests, Only(r), Kind(r)' # "issue"
      PROVE  \A u \in Users, purpose \in Purposes : Same(u, purpose)
  BY <1>2 DEF Only, IsIssue, Kind
<1>3. ASSUME UNCHANGED token
      PROVE  \A u \in Users, purpose \in Purposes : Fewer(u, purpose)
  BY <1>3 DEF Live
<1>4. ASSUME NEW t \in Tokens, NEW row, token' = [token EXCEPT ![t] = row],
             row.state # "live"
      PROVE  \A u \in Users, purpose \in Purposes : Fewer(u, purpose)
  BY <1>4 DEF Live, TypeOK
<1> HIDE DEF Fewer, Same
<1>5. ASSUME NEW r \in Requests, NEW u \in Users, NEW t \in Tokens, Register(r, u, t)
      PROVE  All
  BY <1>1, <1>2, <1>3, <1>5, RegisterStep
<1>6. ASSUME NEW r \in Requests, NEW t \in Tokens, Redeem(r, t) PROVE All
  BY <1>1, <1>2, <1>3, <1>6, RedeemStep
<1>7. ASSUME NEW r \in Requests, NEW a \in Users, Authenticate(r, a) PROVE All
  BY <1>1, <1>2, <1>3, <1>7, AuthenticateStep
<1>8. ASSUME NEW r \in Requests, NEW u \in Users, Updating(r, u) PROVE All
  BY <1>1, <1>2, <1>3, <1>8, UpdateStep
<1>9. ASSUME NEW r \in Requests, Ending(r) PROVE All
  BY <1>1, <1>2, <1>3, <1>9, EndStep, Ends
<1>10. ASSUME NEW t \in Tokens, Expire(t) PROVE All
  <2>1. /\ token' = [token EXCEPT ![t] = [token[t] EXCEPT !.state = "expired"]]
        /\ [token[t] EXCEPT !.state = "expired"].state # "live"
        /\ UNCHANGED <<req, raced>>
    BY <1>10 DEF Expire, TypeOK, Token, NoToken
  <2>2. \A u \in Users, purpose \in Purposes : Same(u, purpose)
    BY <2>1 DEF Same, IsIssue, Kind
  <2> QED
    BY <1>1, <1>4, <2>1, <2>2
<1>11. ASSUME NEW r \in Requests, CommitRedeem(r) PROVE All
  <2>1. /\ req[r].token \in Tokens /\ UNCHANGED raced /\ End(r)
        /\ token' = [token EXCEPT ![req[r].token] = Redeemed(token[req[r].token])]
    BY <1>11, CommitRedeemStep
  <2>2. Redeemed(token[req[r].token]).state # "live"
    BY <2>1 DEF Redeemed, TypeOK, Token, NoToken
  <2> QED
    BY <1>1, <1>2, <1>4, <2>1, <2>2, Ends
<1>12. ASSUME NEW r \in Requests, NEW v \in Users, NEW t \in Tokens,
              NEW aim \in Purposes, Issue(r, v, t, aim)
       PROVE  All
  <2>1. /\ IsIssue(r, v, aim)' /\ req'[r].seen = Live(v, aim) /\ Only(r)
        /\ raced \subseteq raced' /\ UNCHANGED token
        /\ \A o \in Requests : IsIssue(o, v, aim) => <<"issue", v, aim>> \in raced'
    BY <1>12, IssueStep
  <2>2. ASSUME NEW u \in Users, NEW purpose \in Purposes, u # v \/ purpose # aim
        PROVE  Issuing(u, purpose)'
    <3>1. Same(u, purpose)
      BY <2>1, <2>2 DEF Same, Only, IsIssue, Kind
    <3> QED
      BY <1>1, <1>3, <2>1, <3>1
  <2>3. Issuing(v, aim)'
    <3>1. Issuing(v, aim)
      OBVIOUS
    <3>2. \A q \in Requests \ {r} : IsIssue(q, v, aim)' => IsIssue(q, v, aim)
      BY <2>1 DEF Only, IsIssue, Kind
    <3>3. Live(v, aim)' = Live(v, aim)
      BY <2>1 DEF Live
    <3> QED
      BY <2>1, <3>1, <3>2, <3>3 DEF Issuing
  <2> QED
    BY <2>2, <2>3
<1>13. ASSUME NEW r \in Requests, CommitRegister(r) PROVE All
  <2> SUFFICES ASSUME NEW v \in Users, NEW t \in Tokens, v = req[r].user, t = req[r].token
               PROVE  All
    BY <1>13, CommitRegisterStep
  <2>1. /\ ~Exists(v) /\ token' = [token EXCEPT ![t] = NewToken(v, "verify")]
        /\ End(r) /\ UNCHANGED raced
    BY <1>13, CommitRegisterStep
  <2>2. \A o \in Tokens : token[o].user # v
    BY <2>1, ConstantsAssumption DEF TypeOK, NoToken
  <2>3. \A purpose : Live(v, purpose)' \subseteq {t}
    BY <2>1, <2>2 DEF Live, TypeOK
  <2>4. \A q \in Requests, purpose \in Purposes : ~IsIssue(q, v, purpose)'
    <3>1. \A q \in Requests, purpose \in Purposes : ~IsIssue(q, v, purpose)
      BY <2>1 DEF IsIssue, Formed
    <3> QED
      BY <2>1, <3>1, Ends DEF IsIssue, Only, Kind
  <2>5. \A purpose \in Purposes : Issuing(v, purpose)'
    BY <2>3, <2>4 DEF Issuing
  <2>6. ASSUME NEW u \in Users \ {v}, NEW purpose \in Purposes PROVE Issuing(u, purpose)'
    <3>1. Fewer(u, purpose)
      BY <2>1 DEF Fewer, Live, TypeOK, NewToken
    <3> QED
      BY <1>1, <1>2, <2>1, <3>1, Ends
  <2> QED
    BY <2>5, <2>6
<1>14. ASSUME NEW r \in Requests, CommitIssue(r) PROVE All
  <2> SUFFICES ASSUME NEW v \in Users, NEW t \in Tokens, NEW aim \in Purposes,
                      v = req[r].user, t = req[r].token, aim = req[r].purpose
               PROVE  All
    BY <1>14, CommitIssueStep
  <2>1. /\ IsIssue(r, v, aim)
        /\ token' = [o \in Tokens |->
                       IF o = t THEN NewToken(v, aim)
                       ELSE IF o \in req[r].seen THEN [token[o] EXCEPT !.state = "consumed"]
                       ELSE token[o]]
        /\ End(r) /\ UNCHANGED raced
    BY <1>14, CommitIssueStep
  <2>2. \A o \in Tokens : [token[o] EXCEPT !.state = "consumed"].state # "live"
    BY DEF TypeOK, Token, NoToken
  <2>3. \A u \in Users, purpose \in Purposes :
           Live(u, purpose)' \subseteq (Live(u, purpose) \ req[r].seen) \cup {t}
    BY <2>1, <2>2 DEF Live
  <2>4. \A u \in Users, purpose \in Purposes :
           u # v \/ purpose # aim => t \notin Live(u, purpose)'
    BY <2>1 DEF Live, NewToken
  <2>5. \A u \in Users, purpose \in Purposes : Same(u, purpose)
    BY <1>2, <2>1, Ends
  <2>6. ASSUME NEW u \in Users, NEW purpose \in Purposes, u # v \/ purpose # aim
        PROVE  Issuing(u, purpose)'
    <3>1. Fewer(u, purpose)
      BY <2>3, <2>4, <2>6 DEF Fewer
    <3> QED
      BY <1>1, <2>1, <2>5, <3>1
  <2>7. Issuing(v, aim)'
    <3> SUFFICES ASSUME <<"issue", v, aim>> \notin raced'
                 PROVE  /\ \A o, p \in Live(v, aim)' : o = p
                        /\ \A q, p \in Requests : IsIssue(q, v, aim)' /\ IsIssue(p, v, aim)' => q = p
                        /\ \A q \in Requests : IsIssue(q, v, aim)' => Live(v, aim)' \subseteq req'[q].seen
      BY DEF Issuing
    <3>1. /\ Live(v, aim) \subseteq req[r].seen
          /\ \A q \in Requests : IsIssue(q, v, aim) => q = r
      BY <2>1 DEF Issuing
    <3>2. Live(v, aim)' \subseteq {t}
      BY <2>3, <3>1
    <3>3. \A q \in Requests : ~IsIssue(q, v, aim)'
      BY <2>1, <3>1, Ends DEF IsIssue, Only, Kind
    <3> QED
      BY <3>2, <3>3
  <2> QED
    BY <2>6, <2>7
<1> QED
  BY <1>5, <1>6, <1>7, <1>8, <1>9, <1>10, <1>11, <1>12, <1>13, <1>14, Steps

-----------------------------------------------------------------------------
LEMMA RemovingStep ==
    ASSUME IInv, Next
    PROVE  Removing'
<1> USE DEF IInv
<1>1. ASSUME ActiveAdmins \subseteq ActiveAdmins', raced \subseteq raced',
             \A q \in Requests : Removes(req'[q]) => req'[q] = req[q]
      PROVE  Removing'
  <2>1. Removing
    OBVIOUS
  <2> QED
    BY <1>1, <2>1 DEF Removing
<1>2. ASSUME NEW r \in Requests, Only(r), ~Removes(req'[r])
      PROVE  \A q \in Requests : Removes(req'[q]) => req'[q] = req[q]
  BY <1>2 DEF Only
<1>3. UNCHANGED user => ActiveAdmins \subseteq ActiveAdmins'
  BY DEF ActiveAdmins
<1>4. ASSUME NEW r \in Requests, NEW u \in Users, NEW t \in Tokens, Register(r, u, t)
      PROVE  Removing'
  BY <1>1, <1>2, <1>3, <1>4, RegisterStep
<1>5. ASSUME NEW r \in Requests, NEW u \in Users, NEW t \in Tokens,
             NEW purpose \in Purposes, Issue(r, u, t, purpose)
      PROVE  Removing'
  BY <1>1, <1>2, <1>3, <1>5, IssueStep
<1>6. ASSUME NEW r \in Requests, NEW t \in Tokens, Redeem(r, t) PROVE Removing'
  BY <1>1, <1>2, <1>3, <1>6, RedeemStep
<1>7. ASSUME NEW r \in Requests, NEW a \in Users, Authenticate(r, a) PROVE Removing'
  BY <1>1, <1>2, <1>3, <1>7, AuthenticateStep
<1>8. ASSUME NEW t \in Tokens, Expire(t) PROVE Removing'
  BY <1>1, <1>3, <1>8 DEF Expire
<1>9. ASSUME NEW r \in Requests, CommitRegister(r) \/ CommitIssue(r) \/ CommitRedeem(r)
      PROVE  Removing'
  <2>1. UsersKept({}) \/ UNCHANGED user
    BY <1>9, CommitRegisterStep, CommitIssueStep, CommitRedeemStep
  <2>2. End(r) /\ UNCHANGED raced
    BY <1>9, CommitRegisterStep, CommitIssueStep, CommitRedeemStep
  <2> QED
    BY <1>1, <1>2, <1>3, <2>1, <2>2, Ends DEF UsersKept
<1>10. ASSUME NEW r \in Requests, NEW u \in Users, Updating(r, u) PROVE Removing'
  <2>1. /\ Only(r) /\ req'[r].user = u /\ raced \subseteq raced' /\ UNCHANGED user
        /\ Removes(req'[r]) =>
              /\ \A o \in Requests : Removes(req[o]) => <<"admins">> \in raced'
              /\ <<"admins">> \notin raced => ActiveAdmins \ {u} # {}
    BY <1>10, UpdateStep
  <2>2. CASE ~Removes(req'[r])
    BY <1>1, <1>2, <1>3, <2>1, <2>2
  <2>3. CASE Removes(req'[r])
    <3> SUFFICES ASSUME <<"admins">> \notin raced'
                 PROVE  /\ ActiveAdmins' # {}
                        /\ \A p, q \in Requests : Removes(req'[p]) /\ Removes(req'[q]) => p = q
                        /\ \A q \in Requests :
                              Removes(req'[q]) => ActiveAdmins' \ {req'[q].user} # {}
      BY DEF Removing
    <3>1. \A q \in Requests : Removes(req'[q]) => q = r
      BY <2>1, <2>3 DEF Only
    <3>2. ActiveAdmins' = ActiveAdmins
      BY <2>1 DEF ActiveAdmins
    <3>3. ActiveAdmins \ {u} # {}
      BY <2>1, <2>3
    <3> QED
      BY <2>1, <3>1, <3>2, <3>3
  <2> QED
    BY <2>2, <2>3
<1>11. ASSUME NEW r \in Requests, Ending(r) PROVE Removing'
  <2>1. /\ End(r) /\ UNCHANGED raced
        /\ UsersKept({req[r].user})
        /\ Removes(req[r]) \/ UsersKept({})
    BY <1>11, EndStep
  <2>2. CASE UsersKept({})
    BY <1>1, <1>2, <2>1, <2>2, Ends DEF UsersKept
  <2>3. CASE Removes(req[r])
    <3> SUFFICES ASSUME <<"admins">> \notin raced'
                 PROVE  /\ ActiveAdmins' # {}
                        /\ \A q \in Requests : ~Removes(req'[q])
      BY DEF Removing
    <3>1. /\ \A q \in Requests : Removes(req[q]) => q = r
          /\ ActiveAdmins \ {req[r].user} # {}
      BY <2>1, <2>3 DEF Removing
    <3>2. ActiveAdmins \ {req[r].user} \subseteq ActiveAdmins'
      BY <2>1 DEF UsersKept
    <3>3. Only(r) /\ ~Removes(req'[r])
      BY <2>1, Ends
    <3> QED
      BY <3>1, <3>2, <3>3 DEF Only
  <2> QED
    BY <2>1, <2>2, <2>3
<1> QED
  BY <1>4, <1>5, <1>6, <1>7, <1>8, <1>9, <1>10, <1>11, Steps

-----------------------------------------------------------------------------
LEMMA Invariance == Spec => []IInv
<1>1. Init => IInv
  <2> SUFFICES ASSUME Init PROVE IInv
    OBVIOUS
  <2> USE DEF Init
  <2>1. \A r \in Requests : Kind(r) = "idle" /\ ~Removes(req[r]) /\ req[r] \in Request
    BY DEF Kind, Idle, Removes, Request
  <2>2. TypeOK
    <3>1. user \in [Users -> User \cup {NoUser}]
      BY DEF User, Roles
    <3> QED
      BY <2>1, <3>1, ConstantsAssumption DEF TypeOK
  <2>3. \A t : Redeemers(t) = {}
    BY <2>1 DEF Redeemers
  <2>4. \A t \in Tokens : Redeeming(t)
    <3>1. \A t : Cardinality(Redeemers(t)) = 0
      BY <2>3, FS_EmptySet
    <3>2. \A t \in Tokens : token[t].uses = 0
      BY DEF NoToken
    <3> QED
      BY <2>3, <3>1, <3>2, Finiteness DEF Redeeming
  <2>5. \A u \in Users, purpose \in Purposes : Issuing(u, purpose)
    BY <2>1 DEF Issuing, IsIssue, Live, NoToken
  <2>6. Removing
    <3>1. Root \in ActiveAdmins
      BY ConstantsAssumption DEF ActiveAdmins
    <3> QED
      BY <2>1, <3>1 DEF Removing
  <2>7. (\A r \in Requests : Formed(r)) /\ NewTokensDiffer
    BY <2>1 DEF Formed, NewTokensDiffer
  <2> QED
    BY <2>2, <2>4, <2>5, <2>6, <2>7 DEF IInv
<1>2. IInv /\ [Next]_vars => IInv'
  <2>1. ASSUME IInv, Next PROVE IInv'
    BY <2>1, TypeStep, FormedStep, RedeemingStep, IssuingStep, RemovingStep DEF IInv
  <2>2. ASSUME IInv, UNCHANGED vars PROVE IInv'
    <3>1. /\ TypeOK' /\ NewTokensDiffer' /\ \A r \in Requests : Formed(r)'
      BY <2>2 DEF IInv, vars, TypeOK, NewTokensDiffer, Formed, Kind, Exists
    <3>2. \A t \in Tokens : Redeeming(t)'
      <4>1. \A t \in Tokens : Redeemers(t)' = Redeemers(t)
        BY <2>2 DEF vars, Redeemers, Kind
      <4> QED
        BY <2>2, <4>1 DEF IInv, vars, Redeeming
    <3>3. \A u \in Users, purpose \in Purposes : Issuing(u, purpose)'
      BY <2>2 DEF IInv, vars, Issuing, IsIssue, Live, Kind
    <3>4. Removing'
      BY <2>2 DEF IInv, vars, Removing, ActiveAdmins
    <3> QED
      BY <3>1, <3>2, <3>3, <3>4 DEF IInv
  <2> QED
    BY <2>1, <2>2
<1> QED
  BY <1>1, <1>2, PTL DEF Spec

\* Rows and requests stay well formed: every token belongs to an account
\* (AuthService, AdminService).
THEOREM Typed == Spec => []TypeOK
<1>1. IInv => TypeOK
  BY DEF IInv
<1> QED
  BY <1>1, Invariance, PTL

\* Only requests that overlapped redeem one token twice (reset_password,
\* verify_email).
THEOREM Once == Spec => []RedeemedOnce
<1>1. IInv => RedeemedOnce
  <2> SUFFICES ASSUME IInv, NEW t \in Tokens, token[t].uses > 1
               PROVE  <<"token", t>> \in raced
    BY DEF RedeemedOnce
  <2>1. token[t].uses \in Nat
    BY Finiteness DEF IInv, TypeOK, Token, NoToken
  <2> QED
    BY <2>1 DEF IInv, Redeeming
<1> QED
  BY <1>1, Invariance, PTL

\* A user has one live token for a purpose, unless two were asked for at the
\* same time (forgot_password, resend_verification_email).
THEOREM OneLive == Spec => []OneLiveToken
<1>1. IInv => OneLiveToken
  <2> SUFFICES ASSUME IInv, NEW u \in Users, NEW purpose \in Purposes,
                      Cardinality(Live(u, purpose)) > 1
               PROVE  <<"issue", u, purpose>> \in raced
    BY DEF OneLiveToken
  <2>1. \E t, o \in Live(u, purpose) : t # o
    BY Finiteness, MoreThanOne
  <2> QED
    BY <2>1 DEF IInv, Issuing
<1> QED
  BY <1>1, Invariance, PTL

\* There is always an active admin, unless two requests that may remove one
\* overlapped (_ensure_not_last_active_admin).
THEOREM SomeAdmin == Spec => []AdminRemains
<1>1. IInv => AdminRemains
  BY DEF IInv, Removing, AdminRemains
<1> QED
  BY <1>1, Invariance, PTL
=============================================================================
