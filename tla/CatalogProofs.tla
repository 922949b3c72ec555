----------------------------- MODULE CatalogProofs -----------------------------
(***************************************************************************)
(* Proofs about Catalog for catalogues of any size and any number of       *)
(* users, requests and proposals.                                          *)
(*                                                                         *)
(* First that the lists of the moderators and the checks on what they may  *)
(* decide agree, then what the tables hold.  The latter follows from what  *)
(* a request that was not overtaken still knows (Valid): the name that it  *)
(* found free is free, the proposal that it found pending is pending, the  *)
(* user is who was loaded.                                                 *)
(***************************************************************************)
EXTENDS Catalog, FiniteSetTheorems, SequenceTheorems, TLAPS

\* A moderator has finitely many scopes, so the rows they are on can be
\* counted.
LEMMA ScopesFinite ==
    ASSUME NEW m \in Actors \ {Admin}, NEW f
    PROVE  IsFiniteSet({s \in ScopeIds(m, 3) : entities[s].parent = f})
<1>1. m.scope \subseteq 1..MaxEntities
  BY DEF Actors, Admin, Ids
<1>2. IsFiniteSet(1..MaxEntities)
  BY ConstantsAssumption, FS_Interval
<1>3. {s \in ScopeIds(m, 3) : entities[s].parent = f} \subseteq 1..MaxEntities
  BY <1>1 DEF ScopeIds
<1> QED BY <1>2, <1>3, FS_Subset

\* The queue of materials (_apply_scope) shows what _assert_scope admits.
LEMMA QueueMatchesCheck ==
    \A m \in Actors \ {Admin}, s \in At(3) : MayModerate(m, s) <=> ListedMaterials(m, s)
BY DEF MayModerate, ListedMaterials

\* A proposal of a faculty that a moderator may decide on is in their list.
LEMMA FacultyListed ==
    ASSUME NEW m \in Actors \ {Admin}, NEW p, proposals[p].level = 2, MayDecide(m, p)
    PROVE  ListedFaculty(m, p)
<1>1. ~m.admin
  BY DEF Actors, Admin
<1> QED BY <1>1 DEF MayDecide, FacultyScope, ListedFaculty

\* Likewise for a proposal of a subject: one scope on a sibling is enough.
LEMMA SubjectListed ==
    ASSUME NEW m \in Actors \ {Admin}, NEW p, proposals[p].level = 3, MayDecide(m, p)
    PROVE  ListedSubject(m, p)
<1> DEFINE f == proposals[p].parent
           S == {s \in ScopeIds(m, 3) : entities[s].parent = f}
<1>1. ~m.admin
  BY DEF Actors, Admin
<1>2. SubjectScope(m, p)
  BY <1>1 DEF MayDecide
<1>3. CASE Cardinality(S) = 1
  <2>1. S # {}
    <3> HIDE DEF S
    <3>1. Cardinality({}) = 0
      BY FS_EmptySet
    <3> QED BY <1>3, <3>1
  <2> QED BY <2>1 DEF ListedSubject
<1> QED BY <1>2, <1>3 DEF SubjectScope, ListedSubject

\* Whoever finds a proposal of a subject may decide on it, unless
\* scalar_one_or_none in _assert_subject_proposal_scope meets two rows.
LEMMA ListedDecides ==
    ASSUME NEW m \in Actors \ {Admin}, NEW p, proposals[p].level = 3, ListedSubject(m, p),
           Cardinality({s \in ScopeIds(m, 3) : entities[s].parent = proposals[p].parent}) <= 1
    PROVE  MayDecide(m, p)
<1> DEFINE f == proposals[p].parent
           S == {s \in ScopeIds(m, 3) : entities[s].parent = f}
<1>1. CASE f \in {entities[s].parent : s \in ScopeIds(m, 3)}
  <2>1. S # {} /\ IsFiniteSet(S)
    BY <1>1, ScopesFinite
  <2>2. Cardinality(S) \in Nat /\ Cardinality(S) # 0
    <3> HIDE DEF S
    <3> QED BY <2>1, FS_EmptySet, FS_CardinalityType
  <2>3. Cardinality(S) = 1
    <3> HIDE DEF S
    <3>1. Cardinality(S) <= 1
      BY DEF S
    <3> QED BY <2>2, <3>1
  <2> QED BY <2>3 DEF MayDecide, SubjectScope
<1> QED BY <1>1 DEF MayDecide, SubjectScope, ListedSubject

\* In every reachable state and for moderators with any scopes, what may be
\* decided on is listed and the other way round, as DecidableIsListed says.
THEOREM ListsAgreeWithChecks == Spec => []DecidableIsListed
<1>1. DecidableIsListed
  BY QueueMatchesCheck, FacultyListed, SubjectListed, ListedDecides DEF DecidableIsListed
<1> QED BY <1>1, PTL

-----------------------------------------------------------------------------
\* A request that has read and is to commit.
Request ==
    [kind : {"propose", "register", "approve", "map", "reject", "create", "update",
             "home", "assign"},
     proposal : 0..MaxProposals, user : SUBSET Users, loaded : User,
     target : 0..MaxEntities, row : Seq(Entity \cup Proposal), stale : BOOLEAN]

\* What a request carries fits its kind.
Formed(q) ==
    /\ q.kind # "idle" => q \in Request /\ \A u, v \in q.user : u = v
    /\ q.kind \in {"propose", "register"} =>
          /\ Len(q.row) = 1 /\ q.row[1] \in Proposal
          /\ q.row[1].status = "pending" /\ q.row[1].entity = 0
    /\ q.kind = "propose" => UserExists(q.row[1].by)
    /\ q.kind \in {"approve", "create"} => Len(q.row) = 1 /\ q.row[1] \in Entity
    /\ q.kind = "approve" => q.row[1].origin = q.proposal
    /\ q.kind = "create" => q.row[1].origin = 0
    /\ q.kind = "update" =>
          /\ Len(q.row) = 2 /\ q.row[1] \in Entity /\ q.row[2] \in Entity
          /\ q.row[1].level = q.row[2].level
    /\ q.kind \in {"map", "update", "home", "assign"} => q.target \in DOMAIN entities

\* A decision knows its proposal, which is still to be decided on unless the
\* request was overtaken or the proposal is gone.
OnProposal(q) ==
    q.kind \in {"approve", "map", "reject"} =>
       /\ q.proposal \in DOMAIN proposals
       /\ proposals[q.proposal].status # "gone" =>
             /\ q.user # {} => proposals[q.proposal].level = 1
             /\ q.kind = "approve" => q.row[1].level = proposals[q.proposal].level
             /\ q.kind = "map" /\ Live(q.target) =>
                   entities[q.target].level = proposals[q.proposal].level
             /\ q.stale \/ proposals[q.proposal].status = "pending"

\* What was read of a user still holds, unless the request was overtaken.
OnUser(q) ==
    /\ q.kind \in {"home", "assign"} /\ Live(q.target) => entities[q.target].level = 1
    /\ q.kind \in {"approve", "map", "reject", "home", "assign"} =>
         \A u \in q.user :
            /\ UserExists(u)
            /\ q.stale \/ /\ users[u].status = q.loaded.status
                          /\ users[u].university \in {q.loaded.university, 0}

\* Likewise the look for the name, and the row that is to be updated.
OnRow(q) ==
    /\ q.kind \in {"approve", "create"} =>
          q.stale \/ NameFree(q.row[1].level, q.row[1].parent, q.row[1].name, 0)
    /\ q.kind = "update" =>
          /\ Live(q.target) => entities[q.target].level = q.row[1].level
          /\ q.stale \/ ~Live(q.target) \/
             /\ q.row[2].level # 1 \/ q.row[2].name # q.row[1].name =>
                  NameFree(q.row[2].level, q.row[2].parent, q.row[2].name, q.target)
             /\ entities[q.target].parent = q.row[1].parent
             /\ entities[q.target].name = q.row[1].name

Valid(q) == Formed(q) /\ OnProposal(q) /\ OnUser(q) /\ OnRow(q)

\* The tables are within bounds and their histories name what was there.
Rows ==
    /\ Len(entities) <= MaxEntities /\ Len(proposals) <= MaxProposals
    /\ \A e \in DOMAIN entities :
         Live(e) => entities[e].origin = 0 \/ entities[e].origin \in DOMAIN proposals
    /\ \A p \in DOMAIN proposals :
         proposals[p].status # "gone" => UserExists(proposals[p].by)

IInv ==
    /\ TypeOK /\ Rows
    /\ req = [r \in Requests |-> req[r]]
    /\ \A r \in Requests : Valid(req[r])
    /\ NamesUnique /\ DecisionTookEffect /\ HomeMatchesStatus

-----------------------------------------------------------------------------
(* What a request knows, after a step of another one.                      *)

\* A step touches rows of one level, one proposal, one user at most.
RowsOnly(level) ==
    /\ DOMAIN entities \subseteq DOMAIN entities'
    /\ \A d \in DOMAIN entities :
         entities'[d].level # 0 => entities'[d].level = entities[d].level
    /\ \A d \in DOMAIN entities' : entities'[d].level \notin {0, level} =>
         /\ d \in DOMAIN entities /\ entities'[d].level = entities[d].level
         /\ entities'[d].parent = entities[d].parent /\ entities'[d].name = entities[d].name

ProposalsOnly(P) ==
    /\ DOMAIN proposals \subseteq DOMAIN proposals'
    /\ \A p \in DOMAIN proposals : proposals'[p].status # "gone" =>
         /\ proposals[p].status # "gone"
         /\ proposals'[p].level = proposals[p].level
         /\ p # P => proposals'[p].status = proposals[p].status

UsersOnly(U) ==
    \A u \in Users : UserExists(u) =>
       /\ UserExists(u)'
       /\ {u} # U => /\ users'[u].status = users[u].status
                     /\ users'[u].university \in {users[u].university, 0}

LEMMA ValidKept ==
    ASSUME NEW q, Valid(q), NEW q2, q2 = q \/ (q.kind # "idle" /\ q2 = [q EXCEPT !.stale = TRUE]),
           NEW level, NEW P, NEW U,
           RowsOnly(level), ProposalsOnly(P), UsersOnly(U),
           \/ q.kind \in {"idle", "propose", "register"}
           \/ q2.stale
           \/ /\ q.row # <<>> => q.row[1].level # level
              /\ q.proposal # 0 => q.proposal # P
              /\ q.user # {} => q.user # U,
           DOMAIN proposals \subseteq Nat \ {0}
    PROVE  Valid(q2)'
<1>1. CASE q.kind = "idle"
  BY <1>1 DEF Valid, Formed, OnProposal, OnUser, OnRow
<1>2. CASE q.kind # "idle"
  <2>1. q \in Request /\ \A u, v \in q.user : u = v
    BY <1>2 DEF Valid, Formed
  <2>2. /\ q2 \in Request /\ q2.kind = q.kind /\ q2.proposal = q.proposal
        /\ q2.user = q.user /\ q2.loaded = q.loaded /\ q2.target = q.target
        /\ q2.row = q.row /\ (q.stale => q2.stale)
    BY <2>1 DEF Request
  <2>3. q.user \subseteq Users /\ \A u \in q.user : q.user = {u}
    BY <2>1 DEF Request
  <2>4. Formed(q2)'
    <3>1. q.kind = "propose" => q.row[1].by \in Users
      BY DEF Valid, Formed, Proposal
    <3> QED
      BY <2>1, <2>2, <3>1 DEF Valid, Formed, RowsOnly, UsersOnly
  <2>5. OnProposal(q2)'
    <3> SUFFICES ASSUME q.kind \in {"approve", "map", "reject"}
                 PROVE  OnProposal(q2)'
      BY <2>2 DEF OnProposal
    <3> DEFINE p == q.proposal
    <3>1. p \in DOMAIN proposals /\ p # 0 /\ OnProposal(q)
      BY DEF Valid, OnProposal
    <3>2. p \in DOMAIN proposals'
      BY <3>1 DEF ProposalsOnly
    <3>3. proposals'[p].status # "gone" =>
            /\ proposals[p].status # "gone" /\ proposals'[p].level = proposals[p].level
            /\ q2.stale \/ proposals'[p].status = proposals[p].status
      BY <2>2, <3>1 DEF ProposalsOnly
    <3>4. q.kind = "map" /\ Live(q.target)' =>
            Live(q.target) /\ entities'[q.target].level = entities[q.target].level
      BY DEF Valid, Formed, RowsOnly, Live
    <3> QED
      BY <2>2, <3>1, <3>2, <3>3, <3>4 DEF OnProposal
  <2>6. OnUser(q2)'
    <3>1. q.kind \in {"home", "assign"} /\ Live(q.target)' =>
            Live(q.target) /\ entities'[q.target].level = entities[q.target].level
      BY DEF Valid, Formed, RowsOnly, Live
    <3>2. ASSUME q.kind \in {"approve", "map", "reject", "home", "assign"}, NEW u \in q.user
          PROVE  /\ UserExists(u)'
                 /\ q2.stale \/ /\ users'[u].status = users[u].status
                                /\ users'[u].university \in {users[u].university, 0}
      <4>1. UserExists(u) /\ u \in Users /\ q.user = {u}
        BY <2>3, <3>2 DEF Valid, OnUser
      <4> QED
        BY <2>2, <3>2, <4>1 DEF UsersOnly
    <3> QED
      BY <2>2, <3>1, <3>2 DEF Valid, OnUser
  <2>7. OnRow(q2)'
    BY <2>2 DEF Valid, OnRow, Formed, RowsOnly, Live, NameFree, Siblings, At, Entity
  <2> QED
    BY <2>4, <2>5, <2>6, <2>7 DEF Valid
<1> QED
  BY <1>1, <1>2

-----------------------------------------------------------------------------
(* What the tables hold.                                                   *)

LEMMA EntityFacts ==
    ASSUME IInv
    PROVE  /\ entities \in Seq(Entity \cup {NoEntity}) /\ Len(entities) \in Nat
           /\ Len(entities) <= MaxEntities /\ DOMAIN entities = 1..Len(entities)
           /\ DOMAIN entities \subseteq Ids /\ DOMAIN entities \subseteq 0..MaxEntities
           /\ 0 \notin DOMAIN entities
           /\ \A e \in DOMAIN entities : entities[e] \in Entity \cup {NoEntity}
           /\ \A e \in DOMAIN entities : Live(e) => entities[e] \in Entity
           /\ \A e \in DOMAIN entities : ~Live(e) => entities[e] = NoEntity
<1>1. /\ entities \in Seq(Entity \cup {NoEntity}) /\ Len(entities) \in Nat
      /\ Len(entities) <= MaxEntities /\ DOMAIN entities = 1..Len(entities)
      /\ entities \in [1..Len(entities) -> Entity \cup {NoEntity}]
  BY LenProperties DEF IInv, TypeOK, Rows
<1>2. \A e \in DOMAIN entities : entities[e] \in Entity \cup {NoEntity}
  BY <1>1
<1>3. NoEntity.level = 0 /\ \A row \in Entity : row.level # 0
  BY DEF NoEntity, Entity
<1> QED
  BY <1>1, <1>2, <1>3, ConstantsAssumption DEF Ids, Live

LEMMA ProposalFacts ==
    ASSUME IInv
    PROVE  /\ proposals \in Seq(Proposal \cup {NoProposal}) /\ Len(proposals) \in Nat
           /\ Len(proposals) <= MaxProposals /\ DOMAIN proposals = 1..Len(proposals)
           /\ DOMAIN proposals \subseteq Nat \ {0} /\ DOMAIN proposals \subseteq 1..MaxProposals
           /\ \A p \in DOMAIN proposals : proposals[p] \in Proposal \cup {NoProposal}
           /\ \A p \in DOMAIN proposals : proposals[p].status # "gone" => proposals[p] \in Proposal
           /\ \A p \in DOMAIN proposals : proposals[p].status = "gone" => proposals[p] = NoProposal
<1>1. /\ proposals \in Seq(Proposal \cup {NoProposal}) /\ Len(proposals) \in Nat
      /\ Len(proposals) <= MaxProposals /\ DOMAIN proposals = 1..Len(proposals)
      /\ proposals \in [1..Len(proposals) -> Proposal \cup {NoProposal}]
  BY LenProperties DEF IInv, TypeOK, Rows
<1>2. \A p \in DOMAIN proposals : proposals[p] \in Proposal \cup {NoProposal}
  BY <1>1
<1>3. NoProposal.status = "gone" /\ \A row \in Proposal : row.status # "gone"
  BY DEF NoProposal, Proposal
<1> QED
  BY <1>1, <1>2, <1>3, ConstantsAssumption

LEMMA AtFacts ==
    ASSUME IInv, NEW level \in 1..3, NEW e \in At(level)
    PROVE  /\ e \in DOMAIN entities /\ e \in Ids /\ e \in 0..MaxEntities /\ e # 0
           /\ Live(e) /\ entities[e].level = level /\ entities[e] \in Entity
<1>1. e \in DOMAIN entities /\ entities[e].level = level /\ Live(e)
  BY DEF At, Live
<1> QED
  BY <1>1, EntityFacts

-----------------------------------------------------------------------------
(* The steps that read.                                                    *)

\* Nothing but requests changes.
LEMMA ReqStep ==
    ASSUME IInv, UNCHANGED <<entities, proposals, users, raced>>,
           \A r \in Requests : Valid(req'[r]), req' = [r \in Requests |-> req'[r]]
    PROVE  IInv'
<1>1. TypeOK' /\ Rows' /\ NamesUnique' /\ DecisionTookEffect' /\ HomeMatchesStatus'
  <2>1. TypeOK'
    BY DEF IInv, TypeOK, Live, At, Parents
  <2>2. Rows'
    BY DEF IInv, Rows, Live, UserExists
  <2>3. NamesUnique'
    BY DEF IInv, NamesUnique, Live
  <2>4. DecisionTookEffect' /\ HomeMatchesStatus'
    BY DEF IInv, DecisionTookEffect, HomeMatchesStatus, Live
  <2> QED
    BY <2>1, <2>2, <2>3, <2>4
<1>2. \A r \in Requests : Valid(req[r])'
  BY DEF Valid, Formed, OnProposal, OnUser, OnRow, Live, UserExists, NameFree, Siblings, At
<1> QED
  BY <1>1, <1>2 DEF IInv

LEMMA StartStep ==
    ASSUME IInv, NEW r \in Requests, NEW q, Valid(q), Start(r, q),
           UNCHANGED <<entities, proposals, users, raced>>
    PROVE  IInv'
<1>1. \A o \in Requests : req'[o] = IF o = r THEN q ELSE req[o]
  BY DEF Start, IInv
<1>2. \A o \in Requests : Valid(req'[o])
  BY <1>1 DEF IInv
<1>3. req' = [o \in Requests |-> req'[o]]
  BY DEF Start, IInv
<1> QED
  BY <1>2, <1>3, ReqStep

LEMMA NoUserType == NoUser \in User /\ 0 \in 0..MaxEntities /\ 0 \in 0..MaxProposals
BY ConstantsAssumption DEF NoUser, User

LEMMA ProposeStep ==
    ASSUME IInv, NEW r \in Requests, NEW row \in Proposal, NEW newUser \in BOOLEAN,
           row.status = "pending", row.entity = 0, ~newUser => UserExists(row.by),
           Propose(r, row, newUser)
    PROVE  IInv'
<1> DEFINE kind == IF newUser THEN "register" ELSE "propose"
           user == IF newUser THEN {row.by} ELSE {}
           rows == <<row>>
           q == [Blank EXCEPT !.kind = kind, !.user = user, !.row = rows]
<1>1. Start(r, q) /\ UNCHANGED <<entities, proposals, users, raced>>
  BY DEF Propose
<1>2. /\ kind \in {"register", "propose"} /\ user \in SUBSET Users
      /\ \A u, v \in user : u = v
      /\ rows \in Seq(Entity \cup Proposal) /\ Len(rows) = 1 /\ rows[1] = row
  BY DEF Proposal
<1>3. kind = "propose" => UserExists(row.by)
  OBVIOUS
<1> HIDE DEF kind, user, rows
<1>4. /\ q \in Request /\ q.kind = kind /\ q.user = user /\ q.row = rows
  BY <1>2, NoUserType DEF Blank, Request
<1> HIDE DEF q
<1>5. Valid(q)
  BY <1>2, <1>3, <1>4 DEF Valid, Formed, OnProposal, OnUser, OnRow
<1> QED
  BY <1>1, <1>5, StartStep

LEMMA ProposeNew ==
    ASSUME IInv, NEW r \in Requests, NEW level \in 1..3, NEW parent \in 0..MaxEntities,
           NEW name \in Names, NEW u \in Users, NEW newUser \in BOOLEAN,
           newUser \/ UserExists(u),
           Propose(r, NewProposal(level, parent, name, u), newUser)
    PROVE  IInv'
<1> DEFINE row == NewProposal(level, parent, name, u)
<1>1. row \in Proposal /\ row.status = "pending" /\ row.entity = 0 /\ row.by = u
  BY ConstantsAssumption DEF NewProposal, Proposal
<1> HIDE DEF row
<1>2. Propose(r, row, newUser)
  BY DEF row
<1> QED
  BY <1>1, <1>2, ProposeStep

LEMMA ProposingStep ==
    ASSUME IInv, NEW r \in Requests, Proposing(r)
    PROVE  IInv'
<1>0. 1 \in 1..3 /\ 2 \in 1..3 /\ 3 \in 1..3 /\ TRUE \in BOOLEAN /\ FALSE \in BOOLEAN
  OBVIOUS
<1>1. PICK u \in Users, name \in Names :
        \/ CreateUniversityProposal(r, u, name)
        \/ RegisterWithProposal(r, u, name)
        \/ \E parent \in Ids : \/ CreateFacultyProposal(r, u, parent, name)
                               \/ CreateSubjectProposal(r, u, parent, name)
  BY DEF Proposing
<1>2. CASE CreateUniversityProposal(r, u, name)
  <2>1. UserExists(u) /\ Propose(r, NewProposal(1, 0, name, u), FALSE)
    BY <1>2 DEF CreateUniversityProposal
  <2> QED
    BY <1>0, <2>1, NoUserType, ProposeNew, Zenon
<1>3. CASE RegisterWithProposal(r, u, name)
  <2>1. Propose(r, NewProposal(1, 0, name, u), TRUE)
    BY <1>3 DEF RegisterWithProposal
  <2> QED
    BY <1>0, <2>1, NoUserType, ProposeNew, Zenon
<1>4. ASSUME NEW parent \in Ids, CreateFacultyProposal(r, u, parent, name)
      PROVE  IInv'
  <2>1. UserExists(u) /\ Propose(r, NewProposal(2, parent, name, u), FALSE)
    BY <1>4 DEF CreateFacultyProposal
  <2>2. parent \in 0..MaxEntities
    BY ConstantsAssumption DEF Ids
  <2> QED
    BY <1>0, <2>1, <2>2, ProposeNew, Zenon
<1>5. ASSUME NEW parent \in Ids, CreateSubjectProposal(r, u, parent, name)
      PROVE  IInv'
  <2>1. UserExists(u) /\ Propose(r, NewProposal(3, parent, name, u), FALSE)
    BY <1>5 DEF CreateSubjectProposal
  <2>2. parent \in 0..MaxEntities
    BY ConstantsAssumption DEF Ids
  <2> QED
    BY <1>0, <2>1, <2>2, ProposeNew, Zenon
<1> QED
  BY <1>1, <1>2, <1>3, <1>4, <1>5

LEMMA DecideStep ==
    ASSUME IInv, NEW r \in Requests, NEW kind \in {"approve", "map", "reject"},
           NEW p, p \in DOMAIN proposals, proposals[p].status = "pending",
           NEW target \in 0..MaxEntities, NEW row \in Seq(Entity),
           kind = "approve" =>
              /\ Len(row) = 1 /\ row[1] \in Entity
              /\ row[1].origin = p /\ row[1].level = proposals[p].level
              /\ NameFree(row[1].level, row[1].parent, row[1].name, 0),
           kind = "map" => target \in At(proposals[p].level),
           Decide(r, kind, p, target, row)
    PROVE  IInv'
<1> DEFINE u == proposals[p].by
           user == IF proposals[p].level = 1 THEN {u} ELSE {}
           loaded == IF proposals[p].level = 1 THEN users[u] ELSE NoUser
           q == [Blank EXCEPT !.kind = kind, !.proposal = p, !.target = target, !.row = row,
                              !.user = user, !.loaded = loaded]
<1>1. Start(r, q) /\ UNCHANGED <<entities, proposals, users, raced>>
  BY DEF Decide
<1>2. /\ p \in 0..MaxProposals /\ proposals[p] \in Proposal /\ u \in Users /\ UserExists(u)
      /\ proposals[p].level \in 1..3 /\ p # 0
  <2>1. p \in 1..MaxProposals /\ proposals[p] \in Proposal
    BY ProposalFacts
  <2>2. UserExists(u)
    BY DEF IInv, Rows
  <2> QED
    BY <2>1, <2>2, ConstantsAssumption DEF Proposal
<1>3. /\ user \in SUBSET Users /\ user \subseteq {u} /\ loaded \in User
      /\ \A v \in user : loaded = users[v]
      /\ user # {} => proposals[p].level = 1
  <2>1. users \in [Users -> User]
    BY DEF IInv, TypeOK
  <2> HIDE DEF u
  <2> QED
    BY <1>2, <2>1, NoUserType
<1>4. row \in Seq(Entity \cup Proposal)
  BY SeqMonotonic
<1> HIDE DEF u, user, loaded
<1>5. /\ q \in Request /\ q.kind = kind /\ q.user = user /\ q.row = row /\ q.proposal = p
      /\ q.loaded = loaded /\ q.target = target
  BY <1>2, <1>3, <1>4 DEF Blank, Request
<1> HIDE DEF q
<1>6. Formed(q)
  <2>1. kind = "map" => target \in DOMAIN entities
    BY DEF At
  <2> QED
    BY <1>3, <1>5, <2>1 DEF Formed
<1>7. OnProposal(q)
  BY <1>3, <1>5 DEF OnProposal, At
<1>8. OnUser(q)
  BY <1>2, <1>3, <1>5 DEF OnUser
<1>9. OnRow(q)
  BY <1>5 DEF OnRow
<1> QED
  BY <1>1, <1>6, <1>7, <1>8, <1>9, StartStep DEF Valid

LEMMA OpenFacts ==
    ASSUME IInv, NEW r, NEW p, NEW a, Open(r, p, a)
    PROVE  /\ p \in DOMAIN proposals /\ proposals[p].status = "pending"
           /\ p \in 1..MaxProposals /\ proposals[p] \in Proposal
           /\ <<>> \in Seq(Entity) /\ 0 \in 0..MaxEntities
BY ProposalFacts, NoUserType DEF Open

LEMMA ApproveStep ==
    ASSUME IInv, NEW r \in Requests, NEW p, NEW a, NEW name \in Names, NEW slug \in Slugs,
           \/ ApproveUniversity(r, p, a, name, slug)
           \/ ApproveFaculty(r, p, a, name, slug)
           \/ ApproveSubject(r, p, a, name, slug)
    PROVE  IInv'
<1> DEFINE row == ApprovedRow(p, name, slug)
           rows == <<row>>
<1>1. Open(r, p, a) /\ Available(p, name, slug) /\ Decide(r, "approve", p, 0, rows)
  BY DEF ApproveUniversity, ApproveFaculty, ApproveSubject
<1>2. /\ p \in DOMAIN proposals /\ proposals[p].status = "pending"
      /\ p \in 1..MaxProposals /\ proposals[p] \in Proposal /\ 0 \in 0..MaxEntities
  BY <1>1, OpenFacts
<1>3. /\ row \in Entity /\ row.origin = p /\ row.level = proposals[p].level
      /\ row.parent = proposals[p].parent /\ row.name = name
  BY <1>2, ConstantsAssumption DEF ApprovedRow, Entity, Proposal
<1>4. NameFree(row.level, row.parent, row.name, 0)
  BY <1>1, <1>3 DEF Available
<1> HIDE DEF row
<1>5. rows \in Seq(Entity) /\ Len(rows) = 1 /\ rows[1] = row
  BY <1>3
<1> HIDE DEF rows
<1> QED
  BY <1>1, <1>2, <1>3, <1>4, <1>5, DecideStep

LEMMA DecidingStep ==
    ASSUME IInv, NEW r \in Requests, Deciding(r)
    PROVE  IInv'
<1>1. PICK p \in 1..MaxProposals, a \in Actors :
        \/ RejectProposal(r, p, a)
        \/ \E name \in Names, slug \in Slugs : \/ ApproveUniversity(r, p, a, name, slug)
                                               \/ ApproveFaculty(r, p, a, name, slug)
                                               \/ ApproveSubject(r, p, a, name, slug)
        \/ \E e \in Ids : \/ MapExistingUniversity(r, p, a, e)
                          \/ MapExistingFaculty(r, p, a, e)
                          \/ MapExistingSubject(r, p, a, e)
  BY DEF Deciding
<1>2. CASE RejectProposal(r, p, a)
  <2>1. Open(r, p, a) /\ Decide(r, "reject", p, 0, <<>>)
    BY <1>2 DEF RejectProposal
  <2> QED
    BY <2>1, OpenFacts, DecideStep
<1>3. ASSUME NEW name \in Names, NEW slug \in Slugs,
             \/ ApproveUniversity(r, p, a, name, slug)
             \/ ApproveFaculty(r, p, a, name, slug)
             \/ ApproveSubject(r, p, a, name, slug)
      PROVE  IInv'
  BY <1>3, ApproveStep
<1>4. ASSUME NEW e \in Ids, NEW level \in 1..3, MapExisting(r, p, a, e, level)
      PROVE  IInv'
  <2>1. /\ Open(r, p, a) /\ e \in At(proposals[p].level) /\ Decide(r, "map", p, e, <<>>)
    BY <1>4 DEF MapExisting
  <2>2. e \in 0..MaxEntities
    BY ConstantsAssumption DEF Ids
  <2> QED
    BY <2>1, <2>2, OpenFacts, DecideStep
<1> QED
  BY <1>1, <1>2, <1>3, <1>4 DEF MapExistingUniversity, MapExistingFaculty, MapExistingSubject

LEMMA CreateEntityStep ==
    ASSUME IInv, NEW r \in Requests, NEW level \in 1..3, NEW parent \in 0..MaxEntities,
           NEW name \in Names, NEW slug \in Slugs, CreateEntity(r, level, parent, name, slug)
    PROVE  IInv'
<1> DEFINE row == NewRow(level, parent, name, slug)
           rows == <<row>>
           q == [Blank EXCEPT !.kind = "create", !.row = rows]
<1>1. /\ Start(r, q) /\ UNCHANGED <<entities, proposals, users, raced>>
      /\ NameFree(level, parent, name, 0)
  BY DEF CreateEntity
<1>2. /\ row \in Entity /\ row.level = level /\ row.parent = parent /\ row.name = name
      /\ row.origin = 0
  BY NoUserType DEF NewRow, Entity
<1> HIDE DEF row
<1>3. rows \in Seq(Entity \cup Proposal) /\ Len(rows) = 1 /\ rows[1] = row
  BY <1>2
<1> HIDE DEF rows
<1>4. q \in Request /\ q.kind = "create" /\ q.row = rows /\ q.user = {}
  BY <1>3, NoUserType DEF Blank, Request
<1> HIDE DEF q
<1>5. Valid(q)
  BY <1>1, <1>2, <1>3, <1>4 DEF Valid, Formed, OnProposal, OnUser, OnRow
<1> QED
  BY <1>1, <1>5, StartStep

LEMMA UpdateEntityStep ==
    ASSUME IInv, NEW r \in Requests, NEW e \in Ids, NEW parent \in 0..MaxEntities,
           NEW name \in Names, NEW slug \in Slugs, UpdateEntity(r, e, parent, name, slug)
    PROVE  IInv'
<1> DEFINE old == entities[e]
           row == [old EXCEPT !.parent = parent, !.name = name, !.slug = slug]
           rows == <<old, row>>
           q == [Blank EXCEPT !.kind = "update", !.target = e, !.row = rows]
<1>1. /\ Start(r, q) /\ UNCHANGED <<entities, proposals, users, raced>>
      /\ Live(e)
      /\ old.level # 1 \/ name # old.name => NameFree(old.level, parent, name, e)
  BY DEF UpdateEntity, NameLookedUp
<1>2. e \in DOMAIN entities /\ old \in Entity /\ e \in 0..MaxEntities
  BY <1>1, EntityFacts DEF Live
<1>3. /\ row \in Entity /\ row.level = old.level /\ row.parent = parent /\ row.name = name
  BY <1>2 DEF Entity
<1> HIDE DEF row
<1>4. rows \in Seq(Entity \cup Proposal) /\ Len(rows) = 2 /\ rows[1] = old /\ rows[2] = row
  BY <1>2, <1>3
<1> HIDE DEF rows
<1>5. q \in Request /\ q.kind = "update" /\ q.row = rows /\ q.user = {} /\ q.target = e
  BY <1>2, <1>4, NoUserType DEF Blank, Request
<1> HIDE DEF q
<1>6. Valid(q)
  BY <1>1, <1>2, <1>3, <1>4, <1>5 DEF Valid, Formed, OnProposal, OnUser, OnRow
<1> QED
  BY <1>1, <1>6, StartStep

LEMMA HomeStep ==
    ASSUME IInv, NEW r \in Requests, NEW u \in Users, NEW e \in Ids, NEW byAdmin \in BOOLEAN,
           UpdateHomeUniversity(r, u, e, byAdmin)
    PROVE  IInv'
<1> DEFINE kind == IF byAdmin THEN "assign" ELSE "home"
           user == {u}
           loaded == users[u]
           q == [Blank EXCEPT !.kind = kind, !.user = user, !.loaded = loaded, !.target = e]
<1>1. /\ Start(r, q) /\ UNCHANGED <<entities, proposals, users, raced>>
      /\ UserExists(u) /\ e \in At(1)
  BY DEF UpdateHomeUniversity
<1>2. /\ e \in DOMAIN entities /\ e \in 0..MaxEntities /\ entities[e].level = 1
      /\ loaded \in User /\ kind \in {"home", "assign"}
  BY <1>1, AtFacts DEF IInv, TypeOK
<1>3. user \in SUBSET Users /\ \A v \in user : v = u
  OBVIOUS
<1> DEFINE rows == <<>>
<1>0. rows \in Seq(Entity \cup Proposal)
  OBVIOUS
<1> HIDE DEF kind, user, loaded
<1>4. /\ q \in Request /\ q.kind = kind /\ q.user = user /\ q.loaded = loaded /\ q.target = e
  <2>1. q.kind = kind /\ q.user = user /\ q.loaded = loaded /\ q.target = e
    BY DEF Blank
  <2>2. q \in Request
    BY <1>2, <1>3, <1>0, NoUserType DEF Blank, Request
  <2> QED
    BY <2>1, <2>2
<1> HIDE DEF q
<1>5. Valid(q)
  BY <1>1, <1>2, <1>3, <1>4 DEF Valid, Formed, OnProposal, OnUser, OnRow, loaded
<1> QED
  BY <1>1, <1>5, StartStep

LEMMA StartingStep ==
    ASSUME IInv, NEW r \in Requests, Starting(r)
    PROVE  IInv'
<1>1. CASE Editing(r)
  <2>1. \A level \in 1..3 : Parents(level) \subseteq 0..MaxEntities
    BY AtFacts, ConstantsAssumption DEF Parents
  <2>2. \A e \in Ids : Live(e) => entities[e].level \in 1..3
    BY EntityFacts DEF Live, Entity
  <2>3. ASSUME NEW name \in Names, NEW slug \in Slugs, NEW level \in 1..3,
               NEW parent \in Parents(level), CreateEntity(r, level, parent, name, slug)
        PROVE  IInv'
    BY <2>1, <2>3, CreateEntityStep
  <2>4. ASSUME NEW name \in Names, NEW slug \in Slugs, NEW e \in {d \in Ids : Live(d)},
               NEW parent \in Parents(entities[e].level), UpdateEntity(r, e, parent, name, slug)
        PROVE  IInv'
    BY <2>1, <2>2, <2>4, UpdateEntityStep
  <2> QED
    BY <1>1, <2>3, <2>4, Zenon DEF Editing
<1>2. ASSUME NEW u \in Users, NEW e \in Ids, NEW byAdmin \in BOOLEAN,
             UpdateHomeUniversity(r, u, e, byAdmin)
      PROVE  IInv'
  BY <1>2, HomeStep, Zenon
<1> QED
  BY <1>1, <1>2, ProposingStep, DecidingStep, Zenon DEF Starting

LEMMA AbortStep ==
    ASSUME IInv, NEW r \in Requests, Abort(r)
    PROVE  IInv'
<1> DEFINE q == [kind |-> "idle"]
<1>1. Start(r, q) /\ UNCHANGED <<entities, proposals, users, raced>>
  BY DEF Abort, Start
<1>2. q.kind = "idle"
  OBVIOUS
<1> HIDE DEF q
<1>3. Valid(q)
  BY <1>2 DEF Valid, Formed, OnProposal, OnUser, OnRow
<1> QED
  BY <1>1, <1>3, StartStep

-----------------------------------------------------------------------------
(* The steps that write.                                                   *)

\* What the others know, when a request has committed: those that it has
\* overtaken are stale.
LEMMA EndStep ==
    ASSUME IInv, NEW r \in Requests, req[r].kind # "idle", End(r),
           NEW level, level = IF req[r].row = <<>> THEN 0 ELSE req[r].row[1].level,
           RowsOnly(level), ProposalsOnly(req[r].proposal), UsersOnly(req[r].user)
    PROVE  (\A o \in Requests : Valid(req[o])') /\ req' = [o \in Requests |-> req'[o]]
<1>1. req' = [o \in Requests |-> req'[o]]
  BY DEF End
<1>2. ASSUME NEW o \in Requests
      PROVE  Valid(req[o])'
  <2>1. PICK q : q = req[o]
    OBVIOUS
  <2>2. PICK q2 : q2 = req'[o]
    OBVIOUS
  <2>3. PICK P : P = req[r].proposal
    OBVIOUS
  <2>4. PICK U : U = req[r].user
    OBVIOUS
  <2>5. Valid(q)
    BY <2>1 DEF IInv
  <2>6. Valid(q2)'
    <3>1. CASE o = r
      <4>1. q2.kind = "idle"
        BY <2>2, <3>1 DEF End
      <4> QED
        BY <4>1 DEF Valid, Formed, OnProposal, OnUser, OnRow
    <3>2. CASE o # r
      <4> DEFINE over == q.kind \notin {"idle", "propose", "register"} /\ Related(q, req[r])
      <4>1. q2 = IF over THEN [q EXCEPT !.stale = TRUE] ELSE q
        BY <2>1, <2>2, <3>2 DEF End
      <4>2. q.kind # "idle" => q \in Request
        BY <2>5 DEF Valid, Formed
      <4>3. \/ q2 = q
            \/ q.kind # "idle" /\ q2 = [q EXCEPT !.stale = TRUE] /\ q2.stale
        BY <4>1, <4>2 DEF Request
      <4>4. q.kind # "idle" /\ q.row # <<>> => q.row[1].level # 0
        <5>1. \A row \in Entity \cup Proposal : row.level # 0
          BY DEF Entity, Proposal
        <5> QED
          BY <4>2, <5>1 DEF Request
      <4>5. \/ q.kind \in {"idle", "propose", "register"}
            \/ q2.stale
            \/ /\ q.row # <<>> => q.row[1].level # level
               /\ q.proposal # 0 => q.proposal # P
               /\ q.user # {} => q.user # U
        <5>1. CASE over
          BY <4>1, <4>2, <5>1 DEF Request
        <5>2. CASE ~over
          BY <2>3, <2>4, <4>1, <4>4, <5>2 DEF Related
        <5> QED
          BY <5>1, <5>2
      <4>6. ProposalsOnly(P) /\ UsersOnly(U) /\ DOMAIN proposals \subseteq Nat \ {0}
        BY <2>3, <2>4, ProposalFacts
      <4> HIDE DEF over
      <4> QED
        BY <2>5, <4>3, <4>5, <4>6, ValidKept
    <3> QED
      BY <3>1, <3>2
  <2> QED
    BY <2>2, <2>6
       DEF Valid, Formed, OnProposal, OnUser, OnRow, Live, UserExists, NameFree, Siblings, At
<1> QED
  BY <1>1, <1>2

\* The same for a step that no request makes.
LEMMA OtherStep ==
    ASSUME IInv, UNCHANGED req, RowsOnly(0), ProposalsOnly(0), UsersOnly({})
    PROVE  (\A o \in Requests : Valid(req[o])') /\ req' = [o \in Requests |-> req'[o]]
<1>1. req' = [o \in Requests |-> req'[o]]
  BY DEF IInv
<1>2. ASSUME NEW o \in Requests
      PROVE  Valid(req[o])'
  <2>1. PICK q : q = req[o]
    OBVIOUS
  <2>2. Valid(q)
    BY <2>1 DEF IInv
  <2>3. q.kind # "idle" /\ q.row # <<>> => q.row[1].level # 0
    <3>1. \A row \in Entity \cup Proposal : row.level # 0
      BY DEF Entity, Proposal
    <3> QED
      BY <2>2, <3>1 DEF Valid, Formed, Request
  <2>4. DOMAIN proposals \subseteq Nat \ {0}
    BY ProposalFacts
  <2>5. Valid(q)'
    BY <2>2, <2>3, <2>4, ValidKept
  <2> QED
    BY <2>1, <2>5
       DEF Valid, Formed, OnProposal, OnUser, OnRow, Live, UserExists, NameFree, Siblings, At
<1> QED
  BY <1>1, <1>2

\* What a proposal, an approval or a creation adds to its table.
LEMMA AppendFacts ==
    ASSUME NEW S, NEW s \in Seq(S), NEW x \in S
    PROVE  /\ Append(s, x) \in Seq(S) /\ Len(Append(s, x)) = Len(s) + 1
           /\ DOMAIN s = 1..Len(s) /\ DOMAIN Append(s, x) = 1..(Len(s) + 1)
           /\ Len(s) \in Nat /\ Len(s) + 1 \notin DOMAIN s /\ Len(s) + 1 \in DOMAIN Append(s, x)
           /\ DOMAIN s \subseteq DOMAIN Append(s, x)
           /\ \A i \in DOMAIN s : Append(s, x)[i] = s[i]
           /\ Append(s, x)[Len(s) + 1] = x
           /\ \A i \in DOMAIN Append(s, x) : i \in DOMAIN s \/ i = Len(s) + 1
<1>1. /\ Append(s, x) \in Seq(S) /\ Len(Append(s, x)) = Len(s) + 1
      /\ \A i \in 1..Len(s) : Append(s, x)[i] = s[i]
      /\ Append(s, x)[Len(s) + 1] = x
  BY AppendProperties
<1>2. Len(s) \in Nat /\ DOMAIN s = 1..Len(s) /\ DOMAIN Append(s, x) = 1..Len(Append(s, x))
  BY <1>1, LenProperties
<1> HIDE DEF Append
<1> QED
  BY <1>1, <1>2

LEMMA CommitProposalStep ==
    ASSUME IInv, NEW r \in Requests, CommitProposal(r)
    PROVE  IInv'
<1>1. PICK row, n : row = req[r].row[1] /\ n = Len(proposals) + 1
  OBVIOUS
<1>2. /\ req[r].kind \in {"propose", "register"} /\ Len(proposals) < MaxProposals
      /\ row.parent \in Parents(row.level)
      /\ req[r].kind = "register" => users[row.by].status = "none"
      /\ proposals' = Append(proposals, row)
      /\ users' = IF req[r].kind = "register"
                  THEN [users EXCEPT ![row.by].status = "pending"] ELSE users
      /\ End(r) /\ entities' = entities /\ raced' = raced
  BY <1>1 DEF CommitProposal, UserExists
<1>3. /\ Formed(req[r]) /\ Len(req[r].row) = 1 /\ row \in Proposal /\ row.status = "pending"
      /\ row.entity = 0 /\ row.by \in Users /\ row.level \in 1..3
      /\ req[r].kind = "propose" => users[row.by].status # "none"
  BY <1>1, <1>2 DEF IInv, Valid, Formed, Proposal, UserExists
<1>4. /\ proposals' \in Seq(Proposal \cup {NoProposal}) /\ Len(proposals') = n
      /\ n \notin DOMAIN proposals
      /\ DOMAIN proposals \subseteq DOMAIN proposals'
      /\ \A i \in DOMAIN proposals : proposals'[i] = proposals[i]
      /\ proposals'[n] = row
      /\ \A i \in DOMAIN proposals' : i \in DOMAIN proposals \/ i = n
  BY <1>1, <1>2, <1>3, ProposalFacts, AppendFacts
<1>5. /\ users' \in [Users -> User]
      /\ \A u \in Users :
           \/ users'[u] = users[u]
           \/ /\ users[u].status = "none" /\ users'[u].status = "pending"
              /\ users'[u].university = users[u].university
      /\ users'[row.by].status # "none"
  <2>1. users \in [Users -> User]
    BY DEF IInv, TypeOK
  <2>2. CASE req[r].kind = "register"
    <3> DEFINE new == [users[row.by] EXCEPT !.status = "pending"]
    <3>1. new \in User /\ new.status = "pending" /\ new.university = users[row.by].university
      BY <1>3, <2>1 DEF User
    <3>2. users' = [users EXCEPT ![row.by] = new]
      BY <1>2, <2>2
    <3> HIDE DEF new
    <3> QED
      BY <1>2, <1>3, <2>1, <2>2, <3>1, <3>2
  <2> QED
    BY <1>2, <1>3, <2>1, <2>2
<1>6. \A l : Parents(l)' = Parents(l) /\ At(l)' = At(l)
  BY <1>2 DEF Parents, At
<1>7. TypeOK'
  <2>1. \A e \in DOMAIN entities' : (Live(e) => entities[e].parent \in Parents(entities[e].level))'
    BY <1>2 DEF IInv, TypeOK, Live, Parents, At
  <2>2. ASSUME NEW p \in DOMAIN proposals'
        PROVE  (/\ proposals[p].status # "gone" => proposals[p].parent \in Parents(proposals[p].level)
                /\ proposals[p].entity # 0 => proposals[p].entity \in At(proposals[p].level))'
    <3>1. CASE p \in DOMAIN proposals
      <4>1. proposals'[p] = proposals[p]
        BY <1>4, <3>1
      <4>2. /\ proposals[p].status # "gone" => proposals[p].parent \in Parents(proposals[p].level)
            /\ proposals[p].entity # 0 => proposals[p].entity \in At(proposals[p].level)
        BY <3>1 DEF IInv, TypeOK
      <4> QED
        BY <1>2, <4>1, <4>2 DEF Parents, At
    <3>2. CASE p = n
      <4>1. proposals'[p] = row
        BY <1>4, <3>2
      <4> QED
        BY <1>2, <1>3, <4>1 DEF Parents, At
    <3> QED
      BY <1>4, <3>1, <3>2
  <2>3. \A u \in Users : (users[u].university \in {0} \cup At(1))'
    BY <1>5, <1>6 DEF IInv, TypeOK
  <2> QED
    BY <1>2, <1>4, <1>5, <2>1, <2>2, <2>3 DEF TypeOK, IInv
<1>8. Rows'
  <2>1. Len(proposals') <= MaxProposals
    BY <1>1, <1>2, <1>4, ProposalFacts, ConstantsAssumption
  <2>2. ASSUME NEW p \in DOMAIN proposals', proposals'[p].status # "gone"
        PROVE  users'[proposals'[p].by].status # "none"
    <3>1. CASE p \in DOMAIN proposals
      <4>1. proposals'[p] = proposals[p] /\ proposals[p].by \in Users
            /\ users[proposals[p].by].status # "none"
        BY <1>4, <2>2, <3>1, ProposalFacts DEF Proposal, IInv, Rows, UserExists
      <4> QED
        BY <1>5, <4>1
    <3> QED
      BY <1>4, <1>5, <2>2, <3>1
  <2> QED
    BY <1>2, <1>4, <2>1, <2>2 DEF IInv, Rows, Live, UserExists
<1>9. NamesUnique'
  BY <1>2 DEF IInv, NamesUnique, Live
<1>10. DecisionTookEffect'
  <2>1. \A e \in DOMAIN entities : Live(e) => entities[e].origin # n
    BY <1>1, <1>4, ProposalFacts DEF IInv, Rows
  <2> QED
    BY <1>2, <1>3, <1>4, <2>1 DEF IInv, DecisionTookEffect, Live
<1>11. HomeMatchesStatus'
  BY <1>2, <1>5 DEF IInv, HomeMatchesStatus
<1>12. (\A o \in Requests : Valid(req[o])') /\ req' = [o \in Requests |-> req'[o]]
  <2>1. PICK level : level = row.level
    OBVIOUS
  <2>2. RowsOnly(level) /\ req[r].row # <<>> /\ level = req[r].row[1].level
    BY <1>1, <1>2, <1>3, <2>1 DEF RowsOnly
  <2>3. ProposalsOnly(req[r].proposal) /\ UsersOnly(req[r].user)
    BY <1>4, <1>5 DEF ProposalsOnly, UsersOnly, UserExists
  <2> QED
    BY <1>2, <2>1, <2>2, <2>3, EndStep
<1> QED
  BY <1>7, <1>8, <1>9, <1>10, <1>11, <1>12 DEF IInv

\* What _apply_approved_university_to_registration_user does to the users.
LEMMA AppliedUsers ==
    ASSUME IInv, NEW q, q \in Request, NEW e \in 0..MaxEntities,
           users' = ApplyApprovedUniversity(q, e)
    PROVE  /\ users' \in [Users -> User]
           /\ \A u \in Users :
                \/ users'[u] = users[u]
                \/ u \in q.user /\ users'[u].university = e /\ users'[u].status = "selected"
<1> DEFINE new == [university |-> e, status |-> "selected", cooling |-> TRUE]
<1>1. new \in User /\ new.university = e /\ new.status = "selected"
  BY DEF User
<1>2. users \in [Users -> User]
  BY DEF IInv, TypeOK
<1>3. \/ users' = users
      \/ users' = [u \in Users |-> IF u \in q.user THEN new ELSE users[u]]
  BY DEF ApplyApprovedUniversity
<1> HIDE DEF new
<1> QED
  BY <1>1, <1>2, <1>3

\* And what _mark_registration_university_rejected does.
LEMMA RejectedUsers ==
    ASSUME IInv, NEW q, q \in Request, users' = MarkRejected(q)
    PROVE  /\ users' \in [Users -> User]
           /\ \A u \in Users :
                \/ users'[u] = users[u]
                \/ /\ u \in q.user /\ q.loaded.university = 0 /\ users'[u].status = "rejected"
                   /\ users'[u].university = users[u].university
<1> DEFINE new(u) == [users[u] EXCEPT !.status = "rejected"]
<1>1. users \in [Users -> User]
  BY DEF IInv, TypeOK
<1>2. \A u \in Users : /\ new(u) \in User /\ new(u).status = "rejected"
                       /\ new(u).university = users[u].university
  BY <1>1 DEF User
<1>3. \/ users' = users
      \/ /\ q.loaded.university = 0
         /\ users' = [u \in Users |-> IF u \in q.user THEN new(u) ELSE users[u]]
  BY DEF MarkRejected
<1> HIDE DEF new
<1> QED
  BY <1>1, <1>2, <1>3

\* What a decision that commits knows.
LEMMA DecisionFacts ==
    ASSUME IInv, NEW r \in Requests, NEW q, q = req[r],
           q.kind \in {"approve", "map", "reject"}, proposals[q.proposal].status # "gone"
    PROVE  /\ q \in Request /\ q.proposal \in DOMAIN proposals /\ q.proposal # 0
           /\ proposals[q.proposal] \in Proposal
           /\ q.user # {} => proposals[q.proposal].level = 1
           /\ q.stale \/ proposals[q.proposal].status = "pending"
           /\ \A u \in q.user : /\ u \in Users /\ q.user = {u} /\ UserExists(u)
                                /\ q.stale \/ users[u].university \in {q.loaded.university, 0}
<1>1. Formed(q) /\ OnProposal(q) /\ OnUser(q)
  BY DEF IInv, Valid
<1>2. q \in Request /\ \A u, v \in q.user : u = v
  BY <1>1 DEF Formed
<1>3. \A u \in q.user : u \in Users /\ q.user = {u}
  BY <1>2 DEF Request
<1> QED
  BY <1>1, <1>2, <1>3, ProposalFacts DEF OnProposal, OnUser

\* The proposal that is decided on.
LEMMA DecidedProposal ==
    ASSUME IInv, NEW P \in DOMAIN proposals, proposals[P] \in Proposal,
           NEW st \in {"approved", "rejected"}, NEW e \in 0..MaxEntities,
           \/ proposals' = [proposals EXCEPT ![P].status = st, ![P].entity = e]
           \/ proposals' = [proposals EXCEPT ![P].status = st] /\ e = proposals[P].entity
    PROVE  /\ proposals' \in Seq(Proposal \cup {NoProposal})
           /\ Len(proposals') = Len(proposals) /\ DOMAIN proposals' = DOMAIN proposals
           /\ \A p \in DOMAIN proposals : p # P => proposals'[p] = proposals[p]
           /\ proposals'[P].status = st /\ proposals'[P].entity = e
           /\ proposals'[P].level = proposals[P].level /\ proposals'[P].by = proposals[P].by
           /\ proposals'[P].parent = proposals[P].parent
<1>1. PICK new : /\ \/ new = [proposals[P] EXCEPT !.status = st, !.entity = e]
                    \/ new = [proposals[P] EXCEPT !.status = st] /\ e = proposals[P].entity
                 /\ proposals' = [proposals EXCEPT ![P] = new]
  <2>1. CASE proposals' = [proposals EXCEPT ![P].status = st, ![P].entity = e]
    <3> WITNESS [proposals[P] EXCEPT !.status = st, !.entity = e]
    <3> QED
      BY <2>1
  <2>2. CASE proposals' = [proposals EXCEPT ![P].status = st] /\ e = proposals[P].entity
    <3> WITNESS [proposals[P] EXCEPT !.status = st]
    <3> QED
      BY <2>2
  <2> QED
    BY <2>1, <2>2
<1>2. /\ new \in Proposal /\ new.status = st /\ new.entity = e
      /\ new.level = proposals[P].level /\ new.by = proposals[P].by
      /\ new.parent = proposals[P].parent
  BY <1>1 DEF Proposal
<1>3. /\ proposals \in [1..Len(proposals) -> Proposal \cup {NoProposal}]
      /\ Len(proposals) \in Nat /\ DOMAIN proposals = 1..Len(proposals)
  BY ProposalFacts, LenProperties
<1>4. proposals' \in [1..Len(proposals) -> Proposal \cup {NoProposal}]
  BY <1>1, <1>2, <1>3
<1>5. proposals' \in Seq(Proposal \cup {NoProposal}) /\ Len(proposals') = Len(proposals)
  BY <1>3, <1>4, SeqDef, LenProperties
<1> QED
  BY <1>1, <1>2, <1>3, <1>4, <1>5

\* A decision commits: st and e are what the proposal shows from now on, ...
DecidedProposals(P, st, e) ==
    /\ st \in {"approved", "rejected"} /\ e \in 0..MaxEntities
    /\ \/ proposals' = [proposals EXCEPT ![P].status = st, ![P].entity = e]
       \/ proposals' = [proposals EXCEPT ![P].status = st] /\ e = proposals[P].entity
    /\ \/ st = "approved" /\ (entities[e].level = proposals[P].level /\ e \in DOMAIN entities)'
       \/ st = "rejected" /\ e = proposals[P].entity

\* ... the user has the row as home, or was rejected, ...
DecidedUsers(q, st, e) ==
    /\ users' \in [Users -> User]
    /\ \A u \in Users :
         \/ users'[u] = users[u]
         \/ /\ st = "approved" /\ u \in q.user
            /\ users'[u].university = e /\ users'[u].status = "selected"
         \/ /\ u \in q.user /\ q.loaded.university = 0 /\ users'[u].status = "rejected"
            /\ users'[u].university = users[u].university

\* ... both are marked when the request was overtaken, ...
DecidedMarks(q, P) ==
    /\ raced \subseteq raced'
    /\ q.stale => <<"proposal", P>> \in raced' /\ \A u \in q.user : <<"user", u>> \in raced'

\* ... and the rows are as they were, but for one that an approval inserts.
RowsWritten(P, st, e) ==
    /\ entities' \in Seq(Entity \cup {NoEntity}) /\ Len(entities') <= MaxEntities
    /\ \A d \in DOMAIN entities' : (Live(d) => entities[d].parent \in Parents(entities[d].level))'
    /\ \A l \in 1..3 : At(l) \subseteq At(l)'
    /\ \A d \in DOMAIN entities' : entities'[d].level # 0 =>
         \/ /\ d \in DOMAIN entities /\ entities[d].level # 0
            /\ entities'[d].origin = entities[d].origin
         \/ d = e /\ st = "approved" /\ entities'[d].origin = P
    /\ NamesUnique'

LEMMA DecidedStep ==
    ASSUME IInv, NEW r \in Requests, NEW q, q = req[r],
           q.kind \in {"approve", "map", "reject"}, proposals[q.proposal].status # "gone",
           NEW P, P = q.proposal, NEW st, NEW e,
           DecidedProposals(P, st, e), DecidedUsers(q, st, e), DecidedMarks(q, P),
           RowsWritten(P, st, e),
           NEW level, level = IF q.row = <<>> THEN 0 ELSE q.row[1].level, RowsOnly(level),
           End(r)
    PROVE  IInv'
<1> USE DEF DecidedProposals, DecidedUsers, DecidedMarks, RowsWritten
<1>1. /\ q \in Request /\ P \in DOMAIN proposals /\ P # 0
      /\ proposals[P] \in Proposal
      /\ q.user # {} => proposals[P].level = 1
      /\ q.stale \/ proposals[P].status = "pending"
      /\ \A u \in q.user : /\ u \in Users /\ q.user = {u} /\ UserExists(u)
                           /\ q.stale \/ users[u].university \in {q.loaded.university, 0}
  BY DecisionFacts
<1>2. /\ proposals' \in Seq(Proposal \cup {NoProposal})
      /\ Len(proposals') = Len(proposals) /\ DOMAIN proposals' = DOMAIN proposals
      /\ \A p \in DOMAIN proposals : p # P => proposals'[p] = proposals[p]
      /\ proposals'[P].status = st /\ proposals'[P].entity = e
      /\ proposals'[P].level = proposals[P].level /\ proposals'[P].by = proposals[P].by
      /\ proposals'[P].parent = proposals[P].parent
  <2>1. \/ proposals' = [proposals EXCEPT ![P].status = st, ![P].entity = e]
        \/ proposals' = [proposals EXCEPT ![P].status = st] /\ e = proposals[P].entity
    OBVIOUS
  <2> QED
    BY ONLY IInv, <1>1, <2>1, st \in {"approved", "rejected"}, e \in 0..MaxEntities,
            DecidedProposal
<1>3. /\ \A u \in Users : users[u].status # "none" => users'[u].status # "none"
      /\ \A u \in Users \ q.user : users'[u] = users[u]
      /\ \A u \in q.user : q.user = {u}
  <2>1. /\ \A u \in Users : users[u].status # "none" => users'[u].status # "none"
        /\ \A u \in Users \ q.user : users'[u] = users[u]
    OBVIOUS
  <2>2. \A u, v \in q.user : u = v
    BY DEF IInv, Valid, Formed
  <2>3. \A u \in q.user : q.user = {u}
    BY ONLY <2>2
  <2> QED
    BY ONLY <2>1, <2>3
<1>4. proposals[P].level \in 1..3 /\ \A l : At(l)' = {d \in DOMAIN entities' : entities'[d].level = l}
  BY <1>1 DEF Proposal, At
<1>5. TypeOK'
  <2>1. ASSUME NEW p \in DOMAIN proposals'
        PROVE  (/\ proposals[p].status # "gone" => proposals[p].parent \in Parents(proposals[p].level)
                /\ proposals[p].entity # 0 => proposals[p].entity \in At(proposals[p].level))'
    <3>1. PICK l : l = proposals[p].level
      OBVIOUS
    <3>2. /\ proposals[p].status # "gone" => proposals[p].parent \in Parents(l)
          /\ proposals[p].entity # 0 => proposals[p].entity \in At(l)
          /\ l \in 1..3 \/ proposals[p] = NoProposal
      BY <1>2, <2>1, <3>1, ProposalFacts DEF IInv, TypeOK, Proposal
    <3>3. l \in 1..3 => Parents(l) \subseteq Parents(l)' /\ At(l) \subseteq At(l)'
      BY DEF Parents
    <3>4. CASE p # P
      <4>1. proposals'[p] = proposals[p]
        BY <1>2, <2>1, <3>4
      <4>2. NoProposal.status = "gone" /\ NoProposal.entity = 0
        BY DEF NoProposal
      <4>3. /\ proposals'[p].status # "gone" => proposals'[p].parent \in Parents(l)'
            /\ proposals'[p].entity # 0 => proposals'[p].entity \in At(l)'
            /\ proposals'[p].level = l
        BY <3>1, <3>2, <3>3, <4>1, <4>2
      <4> QED
        BY <4>3
    <3>5. CASE p = P
      <4>1. l \in 1..3 /\ proposals'[p].level = l /\ proposals[p].status # "gone"
        BY <1>2, <1>4, <3>1, <3>5
      <4>2. proposals'[p].parent \in Parents(l)'
        BY <1>2, <3>2, <3>3, <3>5, <4>1
      <4>3. proposals'[p].entity # 0 => proposals'[p].entity \in At(l)'
        BY <1>2, <1>4, <3>1, <3>2, <3>3, <3>5, <4>1
      <4> QED
        BY <4>1, <4>2, <4>3
    <3> QED
      BY <3>4, <3>5
  <2>2. ASSUME NEW u \in Users
        PROVE  (users[u].university \in {0} \cup At(1))'
    <3>1. users[u].university \in {0} \cup At(1) /\ At(1) \subseteq At(1)'
      BY DEF IInv, TypeOK
    <3>2. CASE u \in q.user /\ st = "approved"
      <4>1. e \in At(1)'
        BY <1>1, <1>2, <1>4, <3>2
      <4> QED
        BY <3>1, <3>2, <4>1
    <3> QED
      BY <3>1, <3>2
  <2> QED
    BY <1>2, <2>1, <2>2 DEF TypeOK
<1>6. Rows'
  <2>1. ASSUME NEW d \in DOMAIN entities', entities'[d].level # 0
        PROVE  entities'[d].origin = 0 \/ entities'[d].origin \in DOMAIN proposals
    BY <1>1, <2>1 DEF IInv, Rows, Live
  <2>2. ASSUME NEW p \in DOMAIN proposals, proposals'[p].status # "gone"
        PROVE  users'[proposals'[p].by].status # "none"
    <3>1. /\ proposals'[p].by = proposals[p].by /\ proposals[p].by \in Users
          /\ users[proposals[p].by].status # "none"
      BY <1>1, <1>2, <2>2, ProposalFacts DEF Proposal, IInv, Rows, UserExists
    <3> QED
      BY <1>3, <3>1
  <2> QED
    BY <1>2, <2>1, <2>2 DEF IInv, Rows, Live, UserExists
<1>7. DecisionTookEffect'
  <2> SUFFICES ASSUME NEW p \in DOMAIN proposals, <<"proposal", p>> \notin raced'
               PROVE  /\ proposals'[p].entity # 0 => proposals'[p].status = "approved"
                      /\ \A d \in DOMAIN entities' :
                           entities'[d].level # 0 /\ entities'[d].origin = p
                             => proposals'[p].status = "approved" /\ proposals'[p].entity = d
    BY <1>2 DEF DecisionTookEffect, Live
  <2>1. /\ proposals[p].entity # 0 => proposals[p].status = "approved"
        /\ \A d \in DOMAIN entities : entities[d].level # 0 /\ entities[d].origin = p
              => proposals[p].status = "approved" /\ proposals[p].entity = d
    BY DEF IInv, DecisionTookEffect, Live
  <2>2. CASE p # P
    BY <1>2, <2>1, <2>2
  <2>3. CASE p = P
    <3>1. proposals[P].status = "pending"
      BY <1>1, <2>3
    <3>2. proposals[P].entity = 0
      BY <2>1, <2>3, <3>1
    <3>3. \A d \in DOMAIN entities : entities[d].level # 0 => entities[d].origin # P
      BY <2>1, <2>3, <3>1
    <3>4. CASE st = "approved"
      <4>1. \A d \in DOMAIN entities' : entities'[d].level # 0 /\ entities'[d].origin = P => d = e
        BY <3>3
      <4> QED
        BY ONLY <1>2, <2>3, <3>4, <4>1
    <3>5. CASE st = "rejected"
      <4>1. e = 0
        BY <3>2, <3>5
      <4>2. \A d \in DOMAIN entities' : entities'[d].level # 0 => entities'[d].origin # P
        BY <3>3, <3>5
      <4> QED
        BY ONLY <1>2, <2>3, <4>1, <4>2
    <3> QED
      BY <3>4, <3>5
  <2> QED
    BY <2>2, <2>3
<1>8. HomeMatchesStatus'
  <2> SUFFICES ASSUME NEW u \in Users, <<"user", u>> \notin raced',
                      users'[u].status \in {"none", "pending", "rejected"}
               PROVE  users'[u].university = 0
    BY DEF HomeMatchesStatus
  <2>1. users[u].status \in {"none", "pending", "rejected"} => users[u].university = 0
    BY DEF IInv, HomeMatchesStatus
  <2> QED
    BY <1>1, <2>1
<1>9. (\A o \in Requests : Valid(req[o])') /\ req' = [o \in Requests |-> req'[o]]
  <2>1. ProposalsOnly(q.proposal)
    BY <1>2 DEF ProposalsOnly
  <2>2. UsersOnly(q.user)
    <3> SUFFICES ASSUME NEW u \in Users, users[u].status # "none"
                 PROVE  /\ users'[u].status # "none"
                        /\ {u} # q.user => users'[u] = users[u]
      BY DEF UsersOnly, UserExists
    <3>1. users'[u].status # "none"
      BY <1>3
    <3>2. {u} # q.user => u \notin q.user
      BY <1>3
    <3> QED
      BY <1>3, <3>1, <3>2
  <2> QED
    BY <2>1, <2>2, EndStep
<1> QED
  BY <1>5, <1>6, <1>7, <1>8, <1>9 DEF IInv

LEMMA CommitMapStep ==
    ASSUME IInv, NEW r \in Requests, CommitMap(r)
    PROVE  IInv'
<1>1. PICK q, P, e : q = req[r] /\ P = q.proposal /\ e = q.target
  OBVIOUS
<1>2. /\ q.kind = "map" /\ proposals[P].status # "gone" /\ Live(e)
      /\ proposals' = [proposals EXCEPT ![P].status = "approved", ![P].entity = e]
      /\ users' = ApplyApprovedUniversity(q, e)
      /\ raced' = IF q.stale THEN raced \cup ({<<"proposal", P>>} \cup {<<"user", u>> : u \in q.user})
                  ELSE raced
      /\ End(r) /\ entities' = entities
  BY <1>1 DEF CommitMap, Mark
<1>3. q \in Request /\ OnProposal(q) /\ q.kind \in {"approve", "map", "reject"}
  BY <1>1, <1>2 DEF IInv, Valid, Formed
<1>4. e \in DOMAIN entities /\ e \in 0..MaxEntities /\ entities[e].level = proposals[P].level
  BY <1>1, <1>2, <1>3, EntityFacts DEF OnProposal, Live
<1>5. PICK st : st = "approved"
  OBVIOUS
<1>6. DecidedUsers(q, st, e)
  BY <1>2, <1>3, <1>4, <1>5, AppliedUsers DEF DecidedUsers
<1>7. DecidedMarks(q, P)
  BY <1>2 DEF DecidedMarks
<1>8. DecidedProposals(P, st, e)
  <2>1. P \in DOMAIN proposals /\ proposals[P] \in Proposal
    BY <1>1, <1>2, <1>3, DecisionFacts
  <2>2. proposals'[P].level = proposals[P].level
    BY <1>2, <1>4, <2>1, DecidedProposal
  <2> QED
    BY <1>2, <1>4, <1>5, <2>2 DEF DecidedProposals
<1>9. RowsWritten(P, st, e)
  BY <1>2, <1>7, EntityFacts
     DEF IInv, TypeOK, NamesUnique, Live, Parents, At, RowsWritten, DecidedMarks
<1>10. PICK level : level = IF q.row = <<>> THEN 0 ELSE q.row[1].level
  OBVIOUS
<1>11. RowsOnly(level)
  BY <1>2 DEF RowsOnly
<1> QED
  BY <1>1, <1>2, <1>3, <1>6, <1>7, <1>8, <1>9, <1>10, <1>11, DecidedStep

LEMMA CommitRejectStep ==
    ASSUME IInv, NEW r \in Requests, CommitReject(r)
    PROVE  IInv'
<1>1. PICK q, P, e : q = req[r] /\ P = q.proposal /\ e = proposals[P].entity
  OBVIOUS
<1>2. /\ q.kind = "reject" /\ proposals[P].status # "gone"
      /\ proposals' = [proposals EXCEPT ![P].status = "rejected"]
      /\ users' = MarkRejected(q)
      /\ raced' = IF q.stale THEN raced \cup ({<<"proposal", P>>} \cup {<<"user", u>> : u \in q.user})
                  ELSE raced
      /\ End(r) /\ entities' = entities
  BY <1>1 DEF CommitReject, Mark
<1>3. q \in Request /\ q.kind \in {"approve", "map", "reject"}
  BY <1>1, <1>2 DEF IInv, Valid, Formed
<1>4. e \in 0..MaxEntities
  BY <1>1, <1>2, <1>3, DecisionFacts DEF Proposal
<1>5. PICK st : st = "rejected"
  OBVIOUS
<1>6. DecidedUsers(q, st, e)
  BY <1>2, <1>3, RejectedUsers DEF DecidedUsers
<1>7. DecidedMarks(q, P)
  BY <1>2 DEF DecidedMarks
<1>8. DecidedProposals(P, st, e)
  BY <1>1, <1>2, <1>4, <1>5 DEF DecidedProposals
<1>9. RowsWritten(P, st, e)
  BY <1>2, <1>7, EntityFacts
     DEF IInv, TypeOK, NamesUnique, Live, Parents, At, RowsWritten, DecidedMarks
<1>10. PICK level : level = IF q.row = <<>> THEN 0 ELSE q.row[1].level
  OBVIOUS
<1>11. RowsOnly(level)
  BY <1>2 DEF RowsOnly
<1> QED
  BY <1>1, <1>2, <1>3, <1>6, <1>7, <1>8, <1>9, <1>10, <1>11, DecidedStep

\* A row is inserted: the look for its name still holds, or the row is marked.
LEMMA AppendedRow ==
    ASSUME IInv, NEW row, row \in Entity, NEW n, n = Len(entities) + 1,
           Len(entities) < MaxEntities, row.parent \in Parents(row.level),
           entities' = Append(entities, row), raced \subseteq raced',
           NameFree(row.level, row.parent, row.name, 0) \/ <<"entity", n>> \in raced'
    PROVE  /\ n \in 0..MaxEntities /\ n \in DOMAIN entities' /\ n \notin DOMAIN entities
           /\ entities'[n] = row
           /\ \A d \in DOMAIN entities : entities'[d] = entities[d]
           /\ \A d \in DOMAIN entities' : d \in DOMAIN entities \/ d = n
           /\ entities' \in Seq(Entity \cup {NoEntity}) /\ Len(entities') <= MaxEntities
           /\ \A d \in DOMAIN entities' : (Live(d) => entities[d].parent \in Parents(entities[d].level))'
           /\ \A l \in 1..3 : At(l) \subseteq At(l)'
           /\ RowsOnly(row.level) /\ NamesUnique'
<1>1. /\ entities' \in Seq(Entity \cup {NoEntity}) /\ Len(entities') = n
      /\ n \notin DOMAIN entities /\ n \in DOMAIN entities'
      /\ DOMAIN entities \subseteq DOMAIN entities'
      /\ \A d \in DOMAIN entities : entities'[d] = entities[d]
      /\ entities'[n] = row
      /\ \A d \in DOMAIN entities' : d \in DOMAIN entities \/ d = n
  BY EntityFacts, AppendFacts
<1>2. n \in 0..MaxEntities
  BY EntityFacts, ConstantsAssumption
<1>3. \A l : At(l) \subseteq At(l)' /\ Parents(l) \subseteq Parents(l)'
  BY <1>1 DEF At, Parents
<1>4. ASSUME NEW d \in DOMAIN entities', Live(d)'
      PROVE  (entities[d].parent \in Parents(entities[d].level))'
  <2>1. PICK l : l = entities'[d].level
    OBVIOUS
  <2>2. entities'[d].parent \in Parents(l)
    BY <1>1, <1>4, <2>1 DEF IInv, TypeOK, Live
  <2> QED
    BY <1>3, <2>1, <2>2
<1>5. RowsOnly(row.level)
  BY <1>1 DEF RowsOnly
<1>6. NamesUnique'
  <2>1. row.level # 0
    BY DEF Entity
  <2>2. ASSUME NEW d \in DOMAIN entities, entities[d].level = row.level,
               entities[d].parent = row.parent, entities[d].name = row.name
        PROVE  <<"entity", n>> \in raced'
    BY <2>1, <2>2, EntityFacts DEF NameFree, Siblings, At
  <2> SUFFICES ASSUME NEW c \in DOMAIN entities', NEW d \in DOMAIN entities', c # d,
                      entities'[c].level # 0, entities'[c].level = entities'[d].level,
                      entities'[c].parent = entities'[d].parent,
                      entities'[c].name = entities'[d].name
               PROVE  <<"entity", c>> \in raced' \/ <<"entity", d>> \in raced'
    BY DEF NamesUnique, Live
  <2>3. CASE c = n
    BY <1>1, <2>2, <2>3
  <2>4. CASE d = n
    BY <1>1, <2>2, <2>4
  <2>5. CASE c # n /\ d # n
    BY <1>1, <2>5 DEF IInv, NamesUnique, Live
  <2> QED
    BY <2>3, <2>4, <2>5
<1> QED
  BY <1>1, <1>2, <1>3, <1>4, <1>5, <1>6

LEMMA CommitApprovalStep ==
    ASSUME IInv, NEW r \in Requests, CommitApproval(r)
    PROVE  IInv'
<1>1. PICK q, P, row, n : q = req[r] /\ P = q.proposal /\ row = q.row[1] /\ n = Len(entities) + 1
  OBVIOUS
<1>2. /\ q.kind = "approve" /\ proposals[P].status # "gone" /\ Len(entities) < MaxEntities
      /\ row.parent \in Parents(row.level)
      /\ entities' = Append(entities, row)
      /\ proposals' = [proposals EXCEPT ![P].status = "approved", ![P].entity = n]
      /\ users' = ApplyApprovedUniversity(q, n)
      /\ raced' = IF q.stale THEN raced \cup ({<<"proposal", P>>, <<"entity", n>>}
                                               \cup {<<"user", u>> : u \in q.user})
                  ELSE raced
      /\ End(r)
  BY <1>1 DEF CommitApproval, Mark
<1>3. /\ q \in Request /\ OnProposal(q) /\ OnRow(q) /\ q.kind \in {"approve", "map", "reject"}
      /\ Len(q.row) = 1 /\ row \in Entity /\ row.origin = P
  BY <1>1, <1>2 DEF IInv, Valid, Formed
<1>4. /\ raced \subseteq raced'
      /\ NameFree(row.level, row.parent, row.name, 0) \/ <<"entity", n>> \in raced'
  BY <1>1, <1>2, <1>3 DEF OnRow
<1>5. /\ n \in 0..MaxEntities /\ n \in DOMAIN entities' /\ n \notin DOMAIN entities
      /\ entities'[n] = row
      /\ \A d \in DOMAIN entities : entities'[d] = entities[d]
      /\ \A d \in DOMAIN entities' : d \in DOMAIN entities \/ d = n
      /\ entities' \in Seq(Entity \cup {NoEntity}) /\ Len(entities') <= MaxEntities
      /\ \A d \in DOMAIN entities' : (Live(d) => entities[d].parent \in Parents(entities[d].level))'
      /\ \A l \in 1..3 : At(l) \subseteq At(l)'
      /\ RowsOnly(row.level) /\ NamesUnique'
  <2>1. /\ row \in Entity /\ n = Len(entities) + 1 /\ Len(entities) < MaxEntities
        /\ row.parent \in Parents(row.level) /\ entities' = Append(entities, row)
    BY <1>1, <1>2, <1>3
  <2> QED
    BY ONLY IInv, <1>4, <2>1, AppendedRow
<1>6. PICK st : st = "approved"
  OBVIOUS
<1>7. DecidedUsers(q, st, n)
  BY <1>2, <1>3, <1>5, <1>6, AppliedUsers DEF DecidedUsers
<1>8. DecidedMarks(q, P)
  BY <1>2 DEF DecidedMarks
<1>9. DecidedProposals(P, st, n)
  <2>1. P \in DOMAIN proposals /\ proposals[P] \in Proposal
    BY <1>1, <1>2, <1>3, DecisionFacts
  <2>2. proposals'[P].level = proposals[P].level
    BY <1>2, <1>5, <2>1, DecidedProposal
  <2>3. row.level = proposals[P].level
    BY <1>1, <1>2, <1>3 DEF OnProposal
  <2> QED
    BY <1>2, <1>5, <1>6, <2>2, <2>3 DEF DecidedProposals
<1>10. RowsWritten(P, st, n)
  BY <1>3, <1>5, <1>6 DEF RowsWritten
<1>11. PICK level : level = row.level
  OBVIOUS
<1>12. RowsOnly(level) /\ level = IF q.row = <<>> THEN 0 ELSE q.row[1].level
  BY <1>1, <1>3, <1>5, <1>11
<1> QED
  BY <1>1, <1>2, <1>3, <1>7, <1>8, <1>9, <1>10, <1>12, DecidedStep

\* Rows change, proposals and users do not.
LEMMA RowsStep ==
    ASSUME IInv, proposals' = proposals, users' = users, raced \subseteq raced',
           NEW n, RowsWritten(0, "approved", n),
           \A o \in Requests : Valid(req[o])', req' = [o \in Requests |-> req'[o]]
    PROVE  IInv'
<1> USE DEF RowsWritten
<1>1. \A l \in 1..3 : Parents(l) \subseteq Parents(l)' /\ At(l) \subseteq At(l)'
  BY DEF Parents
<1>2. TypeOK'
  <2>1. ASSUME NEW p \in DOMAIN proposals'
        PROVE  (/\ proposals[p].status # "gone" => proposals[p].parent \in Parents(proposals[p].level)
                /\ proposals[p].entity # 0 => proposals[p].entity \in At(proposals[p].level))'
    <3>1. PICK l : l = proposals[p].level
      OBVIOUS
    <3>2. /\ proposals[p].status # "gone" => proposals[p].parent \in Parents(l)
          /\ proposals[p].entity # 0 => proposals[p].entity \in At(l)
          /\ l \in 1..3 \/ proposals[p] = NoProposal
      BY <3>1, ProposalFacts DEF IInv, TypeOK, Proposal
    <3>3. NoProposal.status = "gone" /\ NoProposal.entity = 0
      BY DEF NoProposal
    <3> QED
      BY <1>1, <3>1, <3>2, <3>3
  <2>2. \A u \in Users : (users[u].university \in {0} \cup At(1))'
    BY <1>1 DEF IInv, TypeOK
  <2> QED
    BY <2>1, <2>2 DEF TypeOK, IInv
<1>3. Rows'
  BY DEF IInv, Rows, Live, UserExists
<1>4. DecisionTookEffect'
  <2>1. 0 \notin DOMAIN proposals
    BY ProposalFacts
  <2> QED
    BY <2>1 DEF IInv, DecisionTookEffect, Live
<1>5. HomeMatchesStatus'
  BY DEF IInv, HomeMatchesStatus
<1> QED
  BY <1>2, <1>3, <1>4, <1>5 DEF IInv

LEMMA CommitEntityStep ==
    ASSUME IInv, NEW r \in Requests, CommitEntity(r)
    PROVE  IInv'
<1>1. PICK q, row, n : q = req[r] /\ row = q.row[1] /\ n = Len(entities) + 1
  OBVIOUS
<1>2. /\ q.kind = "create" /\ Len(entities) < MaxEntities
      /\ row.parent \in Parents(row.level)
      /\ entities' = Append(entities, row)
      /\ raced' = IF q.stale THEN raced \cup {<<"entity", n>>} ELSE raced
      /\ End(r) /\ proposals' = proposals /\ users' = users
  BY <1>1 DEF CommitEntity, Mark
<1>3. OnRow(q) /\ Len(q.row) = 1 /\ row \in Entity /\ row.origin = 0
  BY <1>1, <1>2 DEF IInv, Valid, Formed
<1>4. /\ raced \subseteq raced'
      /\ NameFree(row.level, row.parent, row.name, 0) \/ <<"entity", n>> \in raced'
  BY <1>1, <1>2 , <1>3 DEF OnRow
<1>5. /\ entities'[n] = row
      /\ \A d \in DOMAIN entities : entities'[d] = entities[d]
      /\ \A d \in DOMAIN entities' : d \in DOMAIN entities \/ d = n
      /\ entities' \in Seq(Entity \cup {NoEntity}) /\ Len(entities') <= MaxEntities
      /\ \A d \in DOMAIN entities' : (Live(d) => entities[d].parent \in Parents(entities[d].level))'
      /\ \A l \in 1..3 : At(l) \subseteq At(l)'
      /\ RowsOnly(row.level) /\ NamesUnique'
  BY <1>1, <1>2, <1>3, <1>4, AppendedRow
<1>6. RowsWritten(0, "approved", n)
  BY <1>3, <1>5 DEF RowsWritten
<1>7. PICK level : level = row.level
  OBVIOUS
<1>8. RowsOnly(level) /\ level = IF req[r].row = <<>> THEN 0 ELSE req[r].row[1].level
  BY <1>1, <1>3, <1>5, <1>7
<1>9. ProposalsOnly(req[r].proposal) /\ UsersOnly(req[r].user)
  BY <1>2 DEF ProposalsOnly, UsersOnly, UserExists
<1>10. (\A o \in Requests : Valid(req[o])') /\ req' = [o \in Requests |-> req'[o]]
  BY <1>1, <1>2, <1>8, <1>9, EndStep
<1> QED
  BY <1>2, <1>4, <1>6, <1>10, RowsStep

LEMMA CommitUpdateStep ==
    ASSUME IInv, NEW r \in Requests, CommitUpdate(r)
    PROVE  IInv'
<1>1. PICK q, e, old, new :
        /\ q = req[r] /\ e = q.target /\ old = entities[e]
        /\ new = [old EXCEPT
                    !.parent = IF q.row[1].parent # q.row[2].parent THEN q.row[2].parent ELSE @,
                    !.name = IF q.row[1].name # q.row[2].name THEN q.row[2].name ELSE @,
                    !.slug = IF q.row[1].slug # q.row[2].slug THEN q.row[2].slug ELSE @]
  OBVIOUS
<1>2. /\ q.kind = "update" /\ Live(e) /\ new.parent \in Parents(new.level)
      /\ entities' = [entities EXCEPT ![e] = new]
      /\ raced' = IF q.stale THEN raced \cup {<<"entity", e>>} ELSE raced
      /\ End(r) /\ proposals' = proposals /\ users' = users
  BY <1>1 DEF CommitUpdate, Mark
<1>3. /\ OnRow(q) /\ Len(q.row) = 2 /\ q.row[1] \in Entity /\ q.row[2] \in Entity
      /\ q.row[1].level = q.row[2].level
  BY <1>1, <1>2 DEF IInv, Valid, Formed
<1>4. e \in DOMAIN entities /\ old \in Entity /\ old.level = q.row[1].level
  BY <1>1, <1>2, <1>3, EntityFacts DEF OnRow, Live
<1>5. /\ new \in Entity /\ new.level = old.level /\ new.origin = old.origin
      /\ new.parent = IF q.row[1].parent # q.row[2].parent THEN q.row[2].parent ELSE old.parent
      /\ new.name = IF q.row[1].name # q.row[2].name THEN q.row[2].name ELSE old.name
  BY <1>1, <1>3, <1>4 DEF Entity
\* The name was looked up where the row goes, or both stay as they are.
<1>6. \/ q.stale
      \/ NameFree(new.level, new.parent, new.name, e)
      \/ new.parent = old.parent /\ new.name = old.name
  <2>1. \/ q.stale
        \/ NameFree(new.level, new.parent, new.name, e)
        \/ new.level = 1 /\ new.name = old.name
    BY <1>1, <1>2, <1>3, <1>4, <1>5 DEF OnRow
  <2>2. old.parent \in Parents(old.level)
    BY <1>1, <1>2, <1>4 DEF IInv, TypeOK
  <2>3. new.level = 1 => new.parent = old.parent
    BY <1>2, <1>5, <2>2 DEF Parents
  <2> QED
    BY <2>1, <2>3
<1>7. /\ entities' \in Seq(Entity \cup {NoEntity}) /\ Len(entities') = Len(entities)
      /\ DOMAIN entities' = DOMAIN entities
      /\ entities'[e] = new
      /\ \A d \in DOMAIN entities : d # e => entities'[d] = entities[d]
      /\ \A d \in DOMAIN entities : entities'[d].level = entities[d].level
  <2>1. /\ entities \in [1..Len(entities) -> Entity \cup {NoEntity}]
        /\ Len(entities) \in Nat /\ DOMAIN entities = 1..Len(entities)
    BY EntityFacts, LenProperties
  <2>2. entities' \in [1..Len(entities) -> Entity \cup {NoEntity}]
    BY <1>2, <1>5, <2>1
  <2>3. entities' \in Seq(Entity \cup {NoEntity}) /\ Len(entities') = Len(entities)
    BY <2>1, <2>2, SeqDef, LenProperties
  <2> QED
    BY <1>1, <1>2, <1>4, <1>5, <2>1, <2>2, <2>3
<1>8. \A l : At(l)' = At(l) /\ Parents(l)' = Parents(l)
  BY <1>7 DEF At, Parents
<1>9. NamesUnique'
  <2>1. ASSUME NEW d \in DOMAIN entities, d # e, entities[d].level = new.level,
               entities[d].parent = new.parent, entities[d].name = new.name
        PROVE  <<"entity", d>> \in raced' \/ <<"entity", e>> \in raced'
    <3>1. CASE q.stale
      BY <1>2, <3>1
    <3>2. CASE NameFree(new.level, new.parent, new.name, e)
      BY <2>1, <3>2 DEF NameFree, Siblings, At
    <3>3. CASE new.parent = old.parent /\ new.name = old.name
      <4>1. entities[d].level = old.level /\ Live(d)
        BY <1>1, <1>2, <1>4, <1>5, <2>1 DEF Live
      <4>2. <<"entity", d>> \in raced \/ <<"entity", e>> \in raced
        BY <1>1, <1>2, <1>4, <2>1, <3>3, <4>1 DEF IInv, NamesUnique
      <4> QED
        BY <1>2, <4>2
    <3> QED
      BY <1>6, <3>1, <3>2, <3>3
  <2>2. raced \subseteq raced'
    BY <1>2
  <2> SUFFICES ASSUME NEW c \in DOMAIN entities, NEW d \in DOMAIN entities, c # d,
                      entities'[c].level # 0, entities'[c].level = entities'[d].level,
                      entities'[c].parent = entities'[d].parent,
                      entities'[c].name = entities'[d].name
               PROVE  <<"entity", c>> \in raced' \/ <<"entity", d>> \in raced'
    BY <1>7 DEF NamesUnique, Live
  <2>3. CASE c = e
    BY <1>7, <2>1, <2>3
  <2>4. CASE d = e
    BY <1>7, <2>1, <2>4
  <2>5. CASE c # e /\ d # e
    BY <1>7, <2>2, <2>5 DEF IInv, NamesUnique, Live
  <2> QED
    BY <2>3, <2>4, <2>5
<1>10. RowsWritten(0, "approved", e)
  <2>1. ASSUME NEW d \in DOMAIN entities', Live(d)'
        PROVE  (entities[d].parent \in Parents(entities[d].level))'
    <3>1. PICK l : l = entities'[d].level
      OBVIOUS
    <3>2. CASE d = e
      BY <1>2, <1>7, <1>8, <3>1, <3>2
    <3>3. CASE d # e
      <4>1. entities[d].parent \in Parents(l)
        BY <1>7, <2>1, <3>1, <3>3 DEF IInv, TypeOK, Live
      <4> QED
        BY <1>7, <1>8, <3>1, <3>3, <4>1
    <3> QED
      BY <3>2, <3>3
  <2>2. ASSUME NEW d \in DOMAIN entities'
        PROVE  d \in DOMAIN entities /\ entities'[d].origin = entities[d].origin
    BY <1>1, <1>5, <1>7
  <2> QED
    BY <1>7, <1>8, <1>9, <2>1, <2>2, EntityFacts DEF RowsWritten
<1>11. PICK level : level = new.level
  OBVIOUS
<1>12. RowsOnly(level) /\ level = IF req[r].row = <<>> THEN 0 ELSE req[r].row[1].level
  BY <1>1, <1>3, <1>4, <1>5, <1>7, <1>11 DEF RowsOnly
<1>13. ProposalsOnly(req[r].proposal) /\ UsersOnly(req[r].user)
  BY <1>2 DEF ProposalsOnly, UsersOnly, UserExists
<1>14. (\A o \in Requests : Valid(req[o])') /\ req' = [o \in Requests |-> req'[o]]
  BY <1>1, <1>2, <1>12, <1>13, EndStep
<1> QED
  BY <1>2, <1>10, <1>14, RowsStep

\* Users change, rows and proposals do not.
LEMMA UsersStep ==
    ASSUME IInv, entities' = entities, proposals' = proposals, raced \subseteq raced',
           users' \in [Users -> User],
           \A u \in Users : /\ users'[u].university \in {0} \cup At(1)
                            /\ UserExists(u) => UserExists(u)',
           HomeMatchesStatus',
           \A o \in Requests : Valid(req[o])', req' = [o \in Requests |-> req'[o]]
    PROVE  IInv'
<1>1. TypeOK'
  <2>1. \A e \in DOMAIN entities' : (Live(e) => entities[e].parent \in Parents(entities[e].level))'
    BY DEF IInv, TypeOK, Live, Parents, At
  <2>2. \A p \in DOMAIN proposals' :
          (/\ proposals[p].status # "gone" => proposals[p].parent \in Parents(proposals[p].level)
           /\ proposals[p].entity # 0 => proposals[p].entity \in At(proposals[p].level))'
    BY DEF IInv, TypeOK, Parents, At
  <2>3. \A u \in Users : (users[u].university \in {0} \cup At(1))'
    BY DEF At
  <2> QED
    BY <2>1, <2>2, <2>3 DEF TypeOK, IInv
<1>2. Rows'
  <2>1. \A p \in DOMAIN proposals : proposals[p].status # "gone" => proposals[p].by \in Users
    BY ProposalFacts DEF Proposal
  <2> QED
    BY <2>1 DEF IInv, Rows, Live, UserExists
<1>3. NamesUnique'
  BY DEF IInv, NamesUnique, Live
<1>4. DecisionTookEffect'
  BY DEF IInv, DecisionTookEffect, Live
<1> QED
  BY <1>1, <1>2, <1>3, <1>4 DEF IInv

LEMMA CommitHomeStep ==
    ASSUME IInv, NEW r \in Requests, CommitHome(r)
    PROVE  IInv'
<1>1. PICK q, e : q = req[r] /\ e = q.target
  OBVIOUS
<1> DEFINE new(old) ==
      [university |-> IF q.loaded.university # e THEN e ELSE old.university,
       status |-> IF q.loaded.status # "selected" THEN "selected" ELSE old.status,
       cooling |-> old.cooling \/ q.kind = "home"]
<1>2. /\ q.kind \in {"home", "assign"} /\ Live(e)
      /\ users' = [u \in Users |-> IF u \in q.user THEN new(users[u]) ELSE users[u]]
      /\ raced' = IF q.stale THEN raced \cup {<<"user", u>> : u \in q.user} ELSE raced
      /\ End(r) /\ entities' = entities /\ proposals' = proposals
  BY <1>1 DEF CommitHome, Mark
<1>3. /\ q \in Request /\ \A u, v \in q.user : u = v
      /\ entities[e].level = 1 /\ e \in DOMAIN entities /\ e \in 0..MaxEntities
      /\ \A u \in q.user : /\ UserExists(u)
                           /\ q.stale \/ users[u].status = q.loaded.status
  BY <1>1, <1>2, EntityFacts DEF IInv, Valid, Formed, OnUser, Live
<1>4. e \in At(1) /\ users \in [Users -> User] /\ q.loaded \in User
  BY <1>3 DEF At, IInv, TypeOK, Request
<1>5. ASSUME NEW u \in Users
      PROVE  /\ new(users[u]) \in User
             /\ new(users[u]).university \in {e, users[u].university}
             /\ new(users[u]).status \in {"selected", users[u].status}
             /\ users[u].status = q.loaded.status => new(users[u]).status = "selected"
  <2>1. users[u] \in User
    BY <1>4
  <2>2. (users[u].cooling \/ q.kind = "home") \in BOOLEAN
    BY <2>1 DEF User
  <2> DEFINE university == IF q.loaded.university # e THEN e ELSE users[u].university
             status == IF q.loaded.status # "selected" THEN "selected" ELSE users[u].status
             cooling == users[u].cooling \/ q.kind = "home"
  <2>3. /\ university \in 0..MaxEntities /\ university \in {e, users[u].university}
        /\ status \in {"none", "selected", "pending", "rejected"}
        /\ status \in {"selected", users[u].status}
        /\ users[u].status = q.loaded.status => status = "selected"
    BY <1>3, <2>1 DEF User
  <2>4. cooling \in BOOLEAN
    BY <2>2
  <2> HIDE DEF university, status, cooling
  <2>5. [university |-> university, status |-> status, cooling |-> cooling] \in User
    BY <2>3, <2>4 DEF User
  <2> QED
    BY <2>3, <2>5 DEF university, status, cooling
<1> HIDE DEF new
<1>6. /\ users' \in [Users -> User]
      /\ \A u \in Users : users'[u] = IF u \in q.user THEN new(users[u]) ELSE users[u]
  BY <1>2, <1>4, <1>5
<1>7. \A u \in Users : /\ users'[u].university \in {0} \cup At(1)
                       /\ UserExists(u) => UserExists(u)'
  BY <1>4, <1>5, <1>6 DEF IInv, TypeOK, UserExists
<1>8. HomeMatchesStatus'
  <2> SUFFICES ASSUME NEW u \in Users, <<"user", u>> \notin raced',
                      users'[u].status \in {"none", "pending", "rejected"}
               PROVE  users'[u].university = 0
    BY DEF HomeMatchesStatus
  <2>1. raced \subseteq raced' /\ (u \in q.user => ~q.stale)
    BY <1>2
  <2>2. u \notin q.user
    BY <1>3, <1>5, <1>6, <2>1
  <2> QED
    BY <1>6, <2>1, <2>2 DEF IInv, HomeMatchesStatus
<1>9. (\A o \in Requests : Valid(req[o])') /\ req' = [o \in Requests |-> req'[o]]
  <2>1. PICK level : level = IF q.row = <<>> THEN 0 ELSE q.row[1].level
    OBVIOUS
  <2>2. RowsOnly(level) /\ ProposalsOnly(q.proposal)
    BY <1>2 DEF RowsOnly, ProposalsOnly
  <2>3. UsersOnly(q.user)
    <3>1. \A u \in q.user : q.user = {u}
      BY <1>3
    <3> QED
      BY <1>6, <1>7, <3>1 DEF UsersOnly
  <2> QED
    BY <1>1, <1>2, <2>1, <2>2, <2>3, EndStep
<1>10. raced \subseteq raced'
  BY <1>2
<1> QED
  BY <1>2, <1>6, <1>7, <1>8, <1>9, <1>10, UsersStep

LEMMA RegisterSelectedStep ==
    ASSUME IInv, NEW u \in Users, NEW e \in Ids, RegisterSelected(u, e)
    PROVE  IInv'
<1>1. PICK new : new = [users[u] EXCEPT !.university = e, !.status = "selected"]
  OBVIOUS
<1>2. /\ users[u].status = "none" /\ e \in At(1) /\ users' = [users EXCEPT ![u] = new]
      /\ entities' = entities /\ proposals' = proposals /\ req' = req /\ raced' = raced
  BY <1>1 DEF RegisterSelected, UserExists
<1>3. users \in [Users -> User] /\ e \in 0..MaxEntities
  BY ConstantsAssumption DEF IInv, TypeOK, Ids
<1>4. new \in User /\ new.status = "selected" /\ new.university = e
  BY <1>1, <1>3 DEF User
<1>5. /\ users' \in [Users -> User] /\ users'[u] = new
      /\ \A v \in Users : v # u => users'[v] = users[v]
  BY <1>2, <1>3, <1>4
<1>6. \A v \in Users : /\ users'[v].university \in {0} \cup At(1)
                       /\ UserExists(v) => UserExists(v)'
  BY <1>2, <1>4, <1>5 DEF IInv, TypeOK, UserExists
<1>7. HomeMatchesStatus'
  BY <1>2, <1>4, <1>5 DEF IInv, HomeMatchesStatus
<1>8. (\A o \in Requests : Valid(req[o])') /\ req' = [o \in Requests |-> req'[o]]
  <2>1. RowsOnly(0) /\ ProposalsOnly(0)
    BY <1>2 DEF RowsOnly, ProposalsOnly
  <2>2. UsersOnly({})
    BY <1>2, <1>5 DEF UsersOnly, UserExists
  <2> QED
    BY <1>2, <2>1, <2>2, OtherStep
<1> QED
  BY <1>2, <1>5, <1>6, <1>7, <1>8, UsersStep

LEMMA CooldownEndsStep ==
    ASSUME IInv, NEW u \in Users, CooldownEnds(u)
    PROVE  IInv'
<1>1. PICK new : new = [users[u] EXCEPT !.cooling = FALSE]
  OBVIOUS
<1>2. /\ users' = [users EXCEPT ![u] = new]
      /\ entities' = entities /\ proposals' = proposals /\ req' = req /\ raced' = raced
  BY <1>1 DEF CooldownEnds
<1>3. users \in [Users -> User]
  BY DEF IInv, TypeOK
<1>4. new \in User /\ new.status = users[u].status /\ new.university = users[u].university
  BY <1>1, <1>3 DEF User
<1>5. /\ users' \in [Users -> User]
      /\ \A v \in Users : /\ users'[v].status = users[v].status
                          /\ users'[v].university = users[v].university
  BY <1>2, <1>3, <1>4
<1>6. \A v \in Users : /\ users'[v].university \in {0} \cup At(1)
                       /\ UserExists(v) => UserExists(v)'
  BY <1>5 DEF IInv, TypeOK, UserExists
<1>7. HomeMatchesStatus'
  BY <1>2, <1>5 DEF IInv, HomeMatchesStatus
<1>8. (\A o \in Requests : Valid(req[o])') /\ req' = [o \in Requests |-> req'[o]]
  <2>1. RowsOnly(0) /\ ProposalsOnly(0)
    BY <1>2 DEF RowsOnly, ProposalsOnly
  <2>2. UsersOnly({})
    BY <1>5 DEF UsersOnly, UserExists
  <2> QED
    BY <1>2, <2>1, <2>2, OtherStep
<1> QED
  BY <1>2, <1>5, <1>6, <1>7, <1>8, UsersStep

\* Three levels deep is all there is, so what a deletion cascades to leaves
\* no row behind without its parent.
LEMMA GoneClosed ==
    ASSUME IInv, NEW e, Live(e), NEW gone, gone = {e} \cup Below({e}) \cup Below(Below({e}))
    PROVE  /\ gone \subseteq DOMAIN entities /\ 0 \notin gone
           /\ \A d \in DOMAIN entities \ gone : Live(d) => entities[d].parent \notin gone
<1>1. gone \subseteq DOMAIN entities /\ 0 \notin gone
  BY EntityFacts DEF Below, Live
<1>2. \A d \in DOMAIN entities : Live(d) =>
        /\ entities[d].level \in 1..3
        /\ entities[d].parent # 0 =>
             /\ Live(entities[d].parent)
             /\ entities[d].level = entities[entities[d].parent].level + 1
  <2> SUFFICES ASSUME NEW d \in DOMAIN entities, Live(d)
               PROVE  /\ entities[d].level \in 1..3
                      /\ entities[d].parent # 0 =>
                           /\ Live(entities[d].parent)
                           /\ entities[d].level = entities[entities[d].parent].level + 1
    OBVIOUS
  <2>1. entities[d].level \in 1..3 /\ entities[d].parent \in Parents(entities[d].level)
    BY EntityFacts DEF Entity, IInv, TypeOK
  <2>2. CASE entities[d].level = 1
    BY <2>1, <2>2 DEF Parents
  <2>3. CASE entities[d].level # 1
    <3>1. PICK l : l = entities[d].level - 1
      OBVIOUS
    <3>2. l \in 1..3 /\ entities[d].level = l + 1
      BY <2>1, <2>3, <3>1
    <3>3. entities[d].parent \in At(l)
      BY <2>1, <2>3, <3>1 DEF Parents
    <3> QED
      BY <2>1, <3>2, <3>3 DEF At, Live
  <2> QED
    BY <2>2, <2>3
<1>3. ASSUME NEW d \in DOMAIN entities \ gone, Live(d), entities[d].parent \in gone
      PROVE  FALSE
  <2>1. PICK f : f = entities[d].parent
    OBVIOUS
  <2>2. f \in Below(Below({e}))
    BY <1>3, <2>1 DEF Below
  <2>3. PICK g : g = entities[f].parent /\ g \in Below({e})
    BY <2>2 DEF Below
  <2>4. entities[g].parent = e /\ Live(g) /\ Live(f) /\ g \in DOMAIN entities /\ f \in DOMAIN entities
    BY <2>2, <2>3 DEF Below
  <2>5. e # 0 /\ g # 0 /\ f # 0 /\ e \in DOMAIN entities
    BY <2>4, EntityFacts DEF Live
  <2>6. /\ entities[e].level \in 1..3 /\ entities[g].level = entities[e].level + 1
    BY <1>2, <2>4, <2>5
  <2>7. entities[f].level = entities[g].level + 1
    BY <1>2, <2>3, <2>4, <2>5
  <2>8. entities[d].level = entities[f].level + 1 /\ entities[d].level \in 1..3
    BY <1>2, <1>3, <2>1, <2>5
  <2> QED
    BY <2>6, <2>7, <2>8
<1> QED
  BY <1>1, <1>3

LEMMA DeleteEntityStep ==
    ASSUME IInv, NEW e \in Ids, DeleteEntity(e)
    PROVE  IInv'
<1>1. PICK gone, lost : /\ gone = {e} \cup Below({e}) \cup Below(Below({e}))
                        /\ lost = ProposalsBelow(gone)
  OBVIOUS
<1>2. /\ Live(e)
      /\ entities' = [d \in DOMAIN entities |->
                        IF d \in gone THEN NoEntity
                        ELSE IF entities[d].level # 0 /\ entities[d].origin \in lost
                        THEN [entities[d] EXCEPT !.origin = 0] ELSE entities[d]]
      /\ proposals' = [p \in DOMAIN proposals |->
                         IF p \in lost THEN NoProposal
                         ELSE IF proposals[p].entity \in gone
                         THEN [proposals[p] EXCEPT !.entity = 0]
                         ELSE proposals[p]]
      /\ users' = [u \in Users |-> IF users[u].university \in gone
                                   THEN [users[u] EXCEPT !.university = 0] ELSE users[u]]
      /\ raced' = raced \ (({"entity"} \X gone) \cup ({"proposal"} \X lost))
      /\ req' = req
  BY <1>1 DEF DeleteEntity, HomesWithout
<1>3. /\ gone \subseteq DOMAIN entities /\ 0 \notin gone
      /\ \A d \in DOMAIN entities \ gone : Live(d) => entities[d].parent \notin gone
  BY <1>1, <1>2, GoneClosed
<1>4. /\ lost \subseteq DOMAIN proposals
      /\ \A p \in DOMAIN proposals \ lost : proposals[p].parent \notin gone
  BY <1>1 DEF ProposalsBelow
<1>5. /\ entities' \in Seq(Entity \cup {NoEntity}) /\ Len(entities') = Len(entities)
      /\ DOMAIN entities' = DOMAIN entities
      /\ \A d \in gone : entities'[d].level = 0
      /\ \A d \in DOMAIN entities \ gone :
           /\ entities'[d].level = entities[d].level
           /\ Live(d) => /\ entities'[d].parent = entities[d].parent
                         /\ entities'[d].name = entities[d].name
                         /\ entities'[d].origin = IF entities[d].origin \in lost THEN 0
                                                  ELSE entities[d].origin
  <2>1. /\ \A d \in DOMAIN entities : entities[d] \in Entity \cup {NoEntity}
        /\ \A d \in DOMAIN entities : Live(d) => entities[d] \in Entity
        /\ \A d \in DOMAIN entities : ~Live(d) => entities[d] = NoEntity
        /\ Len(entities) \in Nat /\ DOMAIN entities = 1..Len(entities) /\ NoEntity.level = 0
    BY EntityFacts DEF NoEntity
  <2>2. ASSUME NEW d \in DOMAIN entities
        PROVE  /\ entities'[d] \in Entity \cup {NoEntity}
               /\ d \in gone => entities'[d].level = 0
               /\ d \notin gone =>
                    /\ entities'[d].level = entities[d].level
                    /\ Live(d) => /\ entities'[d].parent = entities[d].parent
                                  /\ entities'[d].name = entities[d].name
                                  /\ entities'[d].origin = IF entities[d].origin \in lost THEN 0
                                                           ELSE entities[d].origin
    <3>1. CASE d \in gone
      BY <1>2, <2>1, <3>1
    <3>2. CASE d \notin gone /\ ~Live(d)
      BY <1>2, <2>1, <3>2 DEF Live
    <3>3. CASE d \notin gone /\ Live(d)
      <4>1. PICK new : new = [entities[d] EXCEPT !.origin = 0]
        OBVIOUS
      <4>2. entities[d] \in Entity
        BY <2>1, <3>3
      <4>3. /\ new \in Entity /\ new.level = entities[d].level /\ new.origin = 0
            /\ new.parent = entities[d].parent /\ new.name = entities[d].name
        BY <4>1, <4>2, NoUserType DEF Entity
      <4>4. entities'[d] = IF entities[d].origin \in lost THEN new ELSE entities[d]
        BY <1>2, <3>3, <4>1 DEF Live
      <4> QED
        BY <3>3, <4>2, <4>3, <4>4
    <3> QED
      BY <3>1, <3>2, <3>3
  <2>3. entities' \in [1..Len(entities) -> Entity \cup {NoEntity}]
    BY <1>2, <2>1, <2>2
  <2>4. entities' \in Seq(Entity \cup {NoEntity}) /\ Len(entities') = Len(entities)
    BY <2>1, <2>3, SeqDef, LenProperties
  <2> QED
    BY <1>2, <1>3, <2>2, <2>4
<1>6. /\ proposals' \in Seq(Proposal \cup {NoProposal}) /\ Len(proposals') = Len(proposals)
      /\ DOMAIN proposals' = DOMAIN proposals
      /\ \A p \in lost : proposals'[p].status = "gone" /\ proposals'[p].entity = 0
      /\ \A p \in DOMAIN proposals \ lost :
           /\ proposals'[p].status = proposals[p].status
           /\ proposals'[p].level = proposals[p].level
           /\ proposals'[p].parent = proposals[p].parent
           /\ proposals'[p].status # "gone" => proposals'[p].by = proposals[p].by
           /\ proposals'[p].entity = IF proposals[p].entity \in gone THEN 0 ELSE proposals[p].entity
  <2>1. /\ \A p \in DOMAIN proposals : proposals[p] \in Proposal \cup {NoProposal}
        /\ Len(proposals) \in Nat /\ DOMAIN proposals = 1..Len(proposals)
        /\ NoProposal.status = "gone" /\ NoProposal.entity = 0
    BY ProposalFacts DEF NoProposal
  <2>2. ASSUME NEW p \in DOMAIN proposals
        PROVE  /\ proposals'[p] \in Proposal \cup {NoProposal}
               /\ p \in lost => proposals'[p].status = "gone" /\ proposals'[p].entity = 0
               /\ p \notin lost =>
                    /\ proposals'[p].status = proposals[p].status
                    /\ proposals'[p].level = proposals[p].level
                    /\ proposals'[p].parent = proposals[p].parent
                    /\ proposals'[p].status # "gone" => proposals'[p].by = proposals[p].by
                    /\ proposals'[p].entity = IF proposals[p].entity \in gone THEN 0
                                              ELSE proposals[p].entity
    <3>1. CASE p \in lost
      BY <1>2, <2>1, <3>1
    <3>2. CASE p \notin lost /\ proposals[p].entity \notin gone
      <4>1. proposals'[p] = proposals[p]
        BY <1>2, <3>2
      <4> QED
        BY <2>1, <3>2, <4>1
    <3>3. CASE p \notin lost /\ proposals[p].entity \in gone
      <4>1. PICK new : new = [proposals[p] EXCEPT !.entity = 0]
        OBVIOUS
      <4>2. proposals[p] \in Proposal
        BY <1>3, <2>1, <3>3
      <4>3. /\ new \in Proposal /\ new.status = proposals[p].status /\ new.entity = 0
            /\ new.level = proposals[p].level /\ new.parent = proposals[p].parent
            /\ new.by = proposals[p].by
        BY <4>1, <4>2, NoUserType DEF Proposal
      <4>4. proposals'[p] = new
        BY <1>2, <3>3, <4>1
      <4> QED
        BY <3>3, <4>3, <4>4
    <3> QED
      BY <3>1, <3>2, <3>3
  <2>3. proposals' \in [1..Len(proposals) -> Proposal \cup {NoProposal}]
    BY <1>2, <2>1, <2>2
  <2>4. proposals' \in Seq(Proposal \cup {NoProposal}) /\ Len(proposals') = Len(proposals)
    BY <2>1, <2>3, SeqDef, LenProperties
  <2> QED
    BY <1>2, <1>4, <2>2, <2>4
<1>7. /\ users' \in [Users -> User]
      /\ \A u \in Users : /\ users'[u].status = users[u].status
                          /\ users'[u].university = IF users[u].university \in gone THEN 0
                                                     ELSE users[u].university
  <2>1. users \in [Users -> User]
    BY DEF IInv, TypeOK
  <2>2. ASSUME NEW u \in Users
        PROVE  /\ users'[u] \in User /\ users'[u].status = users[u].status
               /\ users'[u].university = IF users[u].university \in gone THEN 0
                                         ELSE users[u].university
    <3>1. PICK new : new = [users[u] EXCEPT !.university = 0]
      OBVIOUS
    <3>2. new \in User /\ new.status = users[u].status /\ new.university = 0
      BY <2>1, <3>1, NoUserType DEF User
    <3>3. users'[u] = IF users[u].university \in gone THEN new ELSE users[u]
      BY <1>2, <3>1
    <3> QED
      BY <2>1, <3>2, <3>3
  <2> QED
    BY <1>2, <2>2
<1>8. \A l \in 1..3 : At(l)' = At(l) \ gone
  BY <1>3, <1>5 DEF At
<1>9. \A l \in 1..3 : Parents(l)' = Parents(l) \ gone
  BY <1>3, <1>8 DEF Parents
<1>10. TypeOK'
  <2>1. ASSUME NEW d \in DOMAIN entities', Live(d)'
        PROVE  (entities[d].parent \in Parents(entities[d].level))'
    <3>1. PICK l : l = entities[d].level
      OBVIOUS
    <3>2. d \in DOMAIN entities \ gone /\ Live(d) /\ l = entities'[d].level
      BY <1>5, <2>1, <3>1 DEF Live
    <3>3. l \in 1..3 /\ entities[d].parent \in Parents(l) \ gone
      BY <1>3, <3>1, <3>2, EntityFacts DEF IInv, TypeOK, Entity
    <3>4. entities'[d].parent \in Parents(l)'
      BY <1>5, <1>9, <3>2, <3>3
    <3> QED
      BY <3>2, <3>4
  <2>2. ASSUME NEW p \in DOMAIN proposals'
        PROVE  (/\ proposals[p].status # "gone" => proposals[p].parent \in Parents(proposals[p].level)
                /\ proposals[p].entity # 0 => proposals[p].entity \in At(proposals[p].level))'
    <3>1. CASE p \in lost
      BY <1>6, <3>1
    <3>2. CASE p \notin lost
      <4>1. PICK l : l = proposals[p].level
        OBVIOUS
      <4>2. /\ p \in DOMAIN proposals \ lost /\ l = proposals'[p].level
            /\ proposals[p].parent \notin gone
            /\ proposals[p].status # "gone" => proposals[p].parent \in Parents(l)
            /\ proposals[p].entity # 0 => proposals[p].entity \in At(l)
            /\ l \in 1..3 \/ proposals[p] = NoProposal
        BY <1>4, <1>6, <3>2, <4>1, ProposalFacts DEF IInv, TypeOK, Proposal
      <4>3. NoProposal.status = "gone" /\ NoProposal.entity = 0
        BY DEF NoProposal
      <4>4. proposals'[p].status # "gone" => proposals'[p].parent \in Parents(l)'
        BY <1>6, <1>9, <4>2, <4>3
      <4>5. proposals'[p].entity # 0 => proposals'[p].entity \in At(l)'
        BY <1>6, <1>8, <4>2, <4>3
      <4> QED
        BY <4>2, <4>4, <4>5
    <3> QED
      BY <3>1, <3>2
  <2>3. ASSUME NEW u \in Users
        PROVE  (users[u].university \in {0} \cup At(1))'
    <3>1. users[u].university \in {0} \cup At(1)
      BY DEF IInv, TypeOK
    <3>2. users'[u].university \in {0} \cup (At(1) \ gone)
      BY <1>7, <3>1
    <3> QED
      BY <1>8, <3>2
  <2> QED
    BY <1>5, <1>6, <1>7, <2>1, <2>2, <2>3 DEF TypeOK
<1>11. Rows'
  <2>1. ASSUME NEW d \in DOMAIN entities', Live(d)'
        PROVE  entities'[d].origin = 0 \/ entities'[d].origin \in DOMAIN proposals'
    <3>1. d \in DOMAIN entities \ gone /\ Live(d)
      BY <1>5, <2>1 DEF Live
    <3>2. entities[d].origin = 0 \/ entities[d].origin \in DOMAIN proposals
      BY <3>1 DEF IInv, Rows
    <3> QED
      BY <1>5, <1>6, <3>1, <3>2
  <2>2. ASSUME NEW p \in DOMAIN proposals', proposals'[p].status # "gone"
        PROVE  users'[proposals'[p].by].status # "none"
    <3>1. /\ proposals'[p].by = proposals[p].by /\ proposals[p].by \in Users
          /\ users[proposals[p].by].status # "none"
      BY <1>6, <2>2, ProposalFacts DEF Proposal, IInv, Rows, UserExists
    <3> QED
      BY <1>7, <3>1
  <2>3. Len(entities') <= MaxEntities /\ Len(proposals') <= MaxProposals
    BY <1>5, <1>6 DEF IInv, Rows
  <2> QED
    BY <2>1, <2>2, <2>3 DEF Rows, UserExists
<1>12. NamesUnique'
  <2> SUFFICES ASSUME NEW c \in DOMAIN entities', NEW d \in DOMAIN entities', c # d,
                      Live(c)', Live(d)', entities'[c].level = entities'[d].level,
                      entities'[c].parent = entities'[d].parent,
                      entities'[c].name = entities'[d].name
               PROVE  <<"entity", c>> \in raced' \/ <<"entity", d>> \in raced'
    BY DEF NamesUnique
  <2>1. /\ c \in DOMAIN entities \ gone /\ d \in DOMAIN entities \ gone /\ Live(c) /\ Live(d)
    BY <1>5 DEF Live
  <2>2. <<"entity", c>> \in raced \/ <<"entity", d>> \in raced
    BY <1>5, <2>1 DEF IInv, NamesUnique
  <2> QED
    BY <1>2, <2>1, <2>2
<1>13. DecisionTookEffect'
  <2> SUFFICES ASSUME NEW p \in DOMAIN proposals, <<"proposal", p>> \notin raced'
               PROVE  /\ proposals'[p].entity # 0 => proposals'[p].status = "approved"
                      /\ \A d \in DOMAIN entities' :
                           entities'[d].level # 0 /\ entities'[d].origin = p
                             => proposals'[p].status = "approved" /\ proposals'[p].entity = d
    BY <1>6 DEF DecisionTookEffect, Live
  <2>1. p # 0
    BY ProposalFacts
  <2>2. \A d \in DOMAIN entities' : entities'[d].level # 0 /\ entities'[d].origin = p =>
          d \in DOMAIN entities \ gone /\ Live(d) /\ entities[d].origin = p /\ p \notin lost
    BY <1>5, <2>1 DEF Live
  <2>3. CASE p \in lost
    BY <1>6, <2>2, <2>3
  <2>4. CASE p \notin lost
    <3>1. <<"proposal", p>> \notin raced
      BY <1>2, <2>4
    <3>2. /\ proposals[p].entity # 0 => proposals[p].status = "approved"
          /\ \A d \in DOMAIN entities : Live(d) /\ entities[d].origin = p
                => proposals[p].status = "approved" /\ proposals[p].entity = d
      BY <3>1 DEF IInv, DecisionTookEffect
    <3> QED
      BY <1>6, <2>2, <2>4, <3>2
  <2> QED
    BY <2>3, <2>4
<1>14. HomeMatchesStatus'
  <2> SUFFICES ASSUME NEW u \in Users, <<"user", u>> \notin raced',
                      users'[u].status \in {"none", "pending", "rejected"}
               PROVE  users'[u].university = 0
    BY DEF HomeMatchesStatus
  <2>1. <<"user", u>> \notin raced
    BY <1>2
  <2> QED
    BY <1>7, <2>1 DEF IInv, HomeMatchesStatus
<1>15. (\A o \in Requests : Valid(req[o])') /\ req' = [o \in Requests |-> req'[o]]
  <2>1. RowsOnly(0)
    BY <1>5 DEF RowsOnly, Live
  <2>2. ProposalsOnly(0)
    BY <1>6 DEF ProposalsOnly
  <2>3. UsersOnly({})
    BY <1>7 DEF UsersOnly, UserExists
  <2> QED
    BY <1>2, <2>1, <2>2, <2>3, OtherStep
<1> QED
  BY <1>10, <1>11, <1>12, <1>13, <1>14, <1>15 DEF IInv

-----------------------------------------------------------------------------
\* The tree of seed_catalog: siblings have different slugs, so their names
\* differ too.
LEMMA Initially == Init => IInv
<1> SUFFICES ASSUME Init PROVE IInv
  OBVIOUS
<1>1. /\ entities = SeedCatalog /\ proposals = <<>> /\ users = [u \in Users |-> NoUser]
      /\ req = [r \in Requests |-> [kind |-> "idle"]]
  BY DEF Init
<1>2. /\ Seed \in [1..Len(Seed) -> [level : 1..3, parent : 0..MaxEntities, name : Names]]
      /\ Len(Seed) \in Nat /\ DOMAIN Seed = 1..Len(Seed) /\ Len(Seed) <= MaxEntities
  BY SeedAssumption, LenProperties
<1>3. ASSUME NEW i \in DOMAIN Seed
      PROVE  /\ entities[i] \in Entity /\ entities[i].level = Seed[i].level
             /\ entities[i].parent = Seed[i].parent /\ entities[i].name = Seed[i].name
             /\ entities[i].origin = 0 /\ Seed[i].level \in 1..3
  <2>1. Seed[i] \in [level : 1..3, parent : 0..MaxEntities, name : Names]
    BY <1>2
  <2>2. entities[i] = [level |-> Seed[i].level, parent |-> Seed[i].parent, name |-> Seed[i].name,
                       slug |-> SlugOf[Seed[i].name], origin |-> 0]
    BY <1>1 DEF SeedCatalog, NewRow
  <2>3. SlugOf[Seed[i].name] \in Slugs
    BY <2>1, ConstantsAssumption
  <2> QED
    BY <2>1, <2>2, <2>3, NoUserType DEF Entity
<1>4. /\ entities \in Seq(Entity \cup {NoEntity}) /\ Len(entities) = Len(Seed)
      /\ DOMAIN entities = DOMAIN Seed
  <2>1. DOMAIN entities = 1..Len(Seed)
    BY <1>1, <1>2 DEF SeedCatalog
  <2>2. entities \in [1..Len(Seed) -> Entity \cup {NoEntity}]
    BY <1>1, <1>2, <1>3, <2>1 DEF SeedCatalog
  <2> QED
    BY <1>2, <2>1, <2>2, SeqDef, LenProperties
<1>5. TypeOK
  <2>1. ASSUME NEW e \in DOMAIN entities
        PROVE  entities[e].parent \in Parents(entities[e].level)
    <3>1. CASE Seed[e].level = 1
      BY <1>3, <1>4, <3>1, SeedAssumption DEF Parents
    <3>2. CASE Seed[e].level # 1
      <4>1. PICK f : f = Seed[e].parent
        OBVIOUS
      <4>2. f \in 1..(e - 1) /\ Seed[f].level = Seed[e].level - 1
        BY <1>4, <3>2, <4>1, SeedAssumption
      <4>3. f \in DOMAIN Seed
        BY <1>2, <1>4, <4>2
      <4>4. f \in At(entities[e].level - 1)
        BY <1>3, <1>4, <4>2, <4>3 DEF At
      <4> QED
        BY <1>3, <1>4, <3>2, <4>1, <4>4 DEF Parents
    <3> QED
      BY <3>1, <3>2
  <2>2. proposals \in Seq(Proposal \cup {NoProposal}) /\ DOMAIN proposals = {}
    BY <1>1
  <2>3. users \in [Users -> User] /\ \A u \in Users : users[u].university = 0
    BY <1>1, NoUserType DEF NoUser
  <2> QED
    BY <1>4, <2>1, <2>2, <2>3 DEF TypeOK
<1>6. Rows
  BY <1>1, <1>2, <1>3, <1>4, ConstantsAssumption DEF Rows
<1>7. req = [r \in Requests |-> req[r]] /\ \A r \in Requests : Valid(req[r])
  BY <1>1 DEF Valid, Formed, OnProposal, OnUser, OnRow
<1>8. NamesUnique
  <2> SUFFICES ASSUME NEW d \in DOMAIN Seed, NEW e \in DOMAIN Seed, d # e,
                      Seed[d].parent = Seed[e].parent, Seed[d].name = Seed[e].name
               PROVE  FALSE
    BY <1>3, <1>4 DEF NamesUnique
  <2> QED
    BY SeedAssumption
<1>9. DecisionTookEffect /\ HomeMatchesStatus
  BY <1>1 DEF DecisionTookEffect, HomeMatchesStatus, NoUser
<1> QED
  BY <1>5, <1>6, <1>7, <1>8, <1>9 DEF IInv

LEMMA Stepwise == IInv /\ [Next]_vars => IInv'
<1> SUFFICES ASSUME IInv, [Next]_vars
             PROVE  IInv'
  OBVIOUS
<1>1. CASE UNCHANGED vars
  <2>1. /\ UNCHANGED <<entities, proposals, users, raced>> /\ req' = req
    BY <1>1 DEF vars
  <2> QED
    BY <2>1, ReqStep DEF IInv
<1>2. ASSUME NEW r \in Requests, Committing(r)
      PROVE  IInv'
  BY <1>2, CommitProposalStep, CommitApprovalStep, CommitMapStep, CommitRejectStep,
     CommitEntityStep, CommitUpdateStep, CommitHomeStep DEF Committing
<1> QED
  BY <1>1, <1>2, StartingStep, AbortStep, RegisterSelectedStep, CooldownEndsStep,
     DeleteEntityStep DEF Next

THEOREM Invariance == Spec => []IInv
BY Initially, Stepwise, PTL DEF Spec

\* The tables are well formed and no row, proposal or home university refers
\* to a row that is gone or of another level, whatever delete_university,
\* delete_faculty and delete_subject cascade to.
THEOREM Typed == Spec => []TypeOK
BY Invariance, PTL DEF IInv

\* _ensure_*_name_available looks before the write and no constraint backs
\* it: only a row written by a request that another one had overtaken on its
\* level can have the name of a sibling.
THEOREM NamesDiffer == Spec => []NamesUnique
BY Invariance, PTL DEF IInv

\* approve_*, map_existing_* and reject_*: what a proposal shows is the
\* decision whose row is in the catalogue, unless two decisions overlapped.
THEOREM TookEffect == Spec => []DecisionTookEffect
BY Invariance, PTL DEF IInv

\* _apply_approved_university_to_registration_user and
\* _mark_registration_university_rejected leave nobody with a university that
\* is still to be decided on or was rejected, unless a choice of the user or
\* of an admin overlapped with the decision.
THEOREM HomeMatches == Spec => []HomeMatchesStatus
BY Invariance, PTL DEF IInv
=============================================================================
