------------------------- MODULE TelegramEventsProofs -------------------------
(***************************************************************************)
(* Proofs about TelegramEvents for any number of users, requests, workers, *)
(* events and attempts.                                                    *)
(*                                                                         *)
(* No worker locks what it selects, so any number of rounds may have an    *)
(* event to push.  That is harmless as long as nobody posts it with a      *)
(* count that is out of date: Counted says what the calls are then equal   *)
(* to, and that a round whose count is still the row's has loaded a row    *)
(* that was not dispatched.  Such an event is treated as Delivery          *)
(* promises, which the last part shows step by step.                       *)
(***************************************************************************)
EXTENDS TelegramEvents, FiniteSetTheorems, SequenceTheorems, WellFoundedInduction, TLAPS

\* What requests and rounds have read.
WellRead ==
    /\ outbox \in Seq(Row) /\ Len(outbox) <= MaxEvents
    /\ \A r \in Requests : IsFiniteSet(req[r])
    /\ round = [w \in Workers |-> [todo |-> round[w].todo, loaded |-> round[w].loaded,
                                   marked |-> round[w].marked]]
    /\ \A w \in Workers :
          /\ round[w].todo \cap Marked(w) = {}
          /\ \A e \in round[w].todo : round[w].loaded[e] \in 0 .. MaxAttempts - 1

\* A row that is marked is locked.
Locked == \A v, w \in Workers : v # w => Marked(v) \cap Marked(w) = {}

One(status) == IF status = "dispatched" THEN 1 ELSE 0

\* Every call of the bot for an event is recorded in its row or in a round
\* that has not committed.
Counted(e) ==
    /\ (\A w \in Workers : e \notin Marked(w)) =>
          /\ calls[e] = outbox[e].attempt_count
          /\ taken[e] = One(outbox[e].status)
    /\ \A w \in Workers : e \in Marked(w) =>
          /\ outbox[e].status # "dispatched"
          /\ round[w].marked[e].attempt_count = outbox[e].attempt_count + 1
          /\ calls[e] = outbox[e].attempt_count + 1
          /\ taken[e] = One(round[w].marked[e].status)
    /\ \A w \in Workers : e \in round[w].todo =>
          /\ round[w].loaded[e] <= outbox[e].attempt_count
          /\ round[w].loaded[e] = outbox[e].attempt_count => outbox[e].status # "dispatched"

IInv ==
    /\ TypeOK
    /\ WellRead
    /\ Locked
    /\ \A e \in DOMAIN outbox \ shared : Counted(e)
    /\ \A e \in Ids \ (DOMAIN outbox \cup shared) : calls[e] = 0 /\ taken[e] = 0

-----------------------------------------------------------------------------
(* Who is told, the keys of what is sent, and the first event of a batch.  *)

LEMMA MinIn ==
    ASSUME NEW S, S \subseteq Ids, S # {}
    PROVE  Min(S) \in S
<1> DEFINE Below(x) == {y \in S : y < x}
           R == StrictSubsetOrdering(1 .. MaxEvents)
           T == {Below(x) : x \in S}
<1>1. IsFiniteSet(1 .. MaxEvents)
  BY FS_Interval, ConstantsAssumption
<1>2. IsWellFoundedOn(R, FiniteSubsetsOf(1 .. MaxEvents))
  BY FS_StrictSubsetOrderingWellFounded
<1>3. T # {} /\ T \subseteq FiniteSubsetsOf(1 .. MaxEvents)
  <2>1. \A x \in S : Below(x) \in FiniteSubsetsOf(1 .. MaxEvents)
    <3> TAKE x \in S
    <3>1. Below(x) \subseteq 1 .. MaxEvents
      BY DEF Ids
    <3> QED
      BY <1>1, <3>1, FS_Subset DEF FiniteSubsetsOf
  <2> HIDE DEF Below
  <2> QED
    BY <2>1
<1>4. PICK A \in T : \A B \in T : ~ (<<B, A>> \in R)
  <2> HIDE DEF T, R
  <2> QED
    BY <1>2, <1>3, WFMin
<1>5. PICK x \in S : A = Below(x)
  BY <1>4
<1>6. S \subseteq Int
  BY DEF Ids
<1>7. ASSUME NEW y \in S, y < x PROVE FALSE
  <2>1. Below(y) \in T /\ y \in Below(x) /\ y \notin Below(y)
    BY <1>6, <1>7
  <2>2. Below(y) \subseteq Below(x)
    <3>1. ASSUME NEW z \in S, z < y PROVE z < x
      <4>1. x \in Int /\ y \in Int /\ z \in Int
        BY <1>6
      <4> QED
        BY <1>7, <3>1, <4>1
    <3> QED
      BY <3>1
  <2>3. Below(y) \subseteq 1 .. MaxEvents /\ Below(x) \subseteq 1 .. MaxEvents
    BY DEF Ids
  <2> QED
    BY <2>1, <2>2, <2>3, <1>4, <1>5 DEF StrictSubsetOrdering
<1>8. \A y \in S : x <= y
  <2> TAKE y \in S
  <2>1. x \in Int /\ y \in Int
    BY <1>6
  <2> QED
    BY <1>7, <2>1
<1>9. \E z \in S : \A y \in S : z <= y
  BY <1>8
<1> QED
  BY <1>9 DEF Min

LEMMA UsersFinite == IsFiniteSet(Users)
<1>1. IsFiniteSet({Owner})
  BY FS_Singleton
<1>2. IsFiniteSet(Admins \cup UniversityScope) /\ IsFiniteSet(FacultyScope \cup SubjectScope)
  BY ConstantsAssumption, FS_Union
<1>3. IsFiniteSet((Admins \cup UniversityScope) \cup (FacultyScope \cup SubjectScope))
  BY <1>2, FS_Union
<1>4. IsFiniteSet(((Admins \cup UniversityScope) \cup (FacultyScope \cup SubjectScope)) \cup {Owner})
  BY <1>1, <1>3, FS_Union
<1>5. Users = ((Admins \cup UniversityScope) \cup (FacultyScope \cup SubjectScope)) \cup {Owner}
  BY DEF Users
<1> QED
  BY <1>4, <1>5

LEMMA KeysTyped ==
    ASSUME NEW type \in {"announced", "decided"},
           NEW entity \in (1 .. MaxAnnounced) \cup Materials,
           NEW recipients, recipients \subseteq Users
    PROVE  KeysFor(type, entity, recipients) \subseteq Key
           /\ IsFiniteSet(KeysFor(type, entity, recipients))
<1> DEFINE key(u) == [type |-> type, entity |-> entity, recipient |-> u]
           K == KeysFor(type, entity, recipients)
           f == [u \in recipients |-> key(u)]
<1>1. K \subseteq Key
  BY DEF KeysFor, Key
<1>2. IsFiniteSet(recipients)
  BY UsersFinite, FS_Subset
<1>3. f \in [recipients -> K] /\ \A k \in K : \E u \in recipients : f[u] = k
  BY DEF KeysFor
<1> HIDE DEF f, K
<1>4. f \in Surjection(recipients, K)
  BY <1>3 DEF Surjection
<1>5. IsFiniteSet(K)
  BY <1>2, <1>4, FS_Surjection
<1> QED
  BY <1>1, <1>5 DEF K

LEMMA Recipients ==
    ASSUME active \subseteq Users
    PROVE  /\ AdminRecipients \subseteq Users /\ MaterialRecipients \subseteq Users
           /\ {Owner} \cap active \subseteq Users
           /\ \A t \in {"university", "faculty", "subject"} : ProposalRecipients(t) \subseteq Users
BY DEF AdminRecipients, MaterialRecipients, ProposalRecipients, Users

\* New rows come after the old ones.
LEMMA RowsInserted ==
    ASSUME outbox \in Seq(Row), Len(outbox) <= MaxEvents,
           NEW keys, keys \subseteq Key, IsFiniteSet(keys), InsertRows(keys)
    PROVE  /\ outbox' \in Seq(Row) /\ Len(outbox') <= MaxEvents
           /\ DOMAIN outbox \subseteq DOMAIN outbox'
           /\ \A e \in DOMAIN outbox : outbox'[e] = outbox[e]
           /\ \A e \in DOMAIN outbox' \ DOMAIN outbox :
                 outbox'[e].status = "pending" /\ outbox'[e].attempt_count = 0
<1>1. PICK order \in [1 .. Cardinality(keys) -> keys] :
        outbox' = outbox \o [i \in DOMAIN order |->
                    [key |-> order[i], status |-> "pending", attempt_count |-> 0]]
  BY DEF InsertRows
<1>2. Cardinality(keys) \in Nat /\ Len(outbox) \in Nat
      /\ Len(outbox) + Cardinality(keys) <= MaxEvents
  BY FS_CardinalityType DEF InsertRows
<1> DEFINE n == Cardinality(keys)
           new == [i \in 1 .. n |->
                    [key |-> order[i], status |-> "pending", attempt_count |-> 0]]
<1> HIDE DEF n
<1>3. /\ new \in [1 .. n -> Row] /\ outbox' = outbox \o new
      /\ \A i \in 1 .. n : new[i].status = "pending" /\ new[i].attempt_count = 0
  <2>1. order \in [1 .. n -> Key] /\ DOMAIN order = 1 .. n
    BY <1>1 DEF n
  <2>2. \A i \in 1 .. n : [key |-> order[i], status |-> "pending", attempt_count |-> 0] \in Row
    <3>1. 0 \in 0 .. MaxAttempts
      BY ConstantsAssumption
    <3>2. \A i \in 1 .. n : order[i] \in Key
      BY <2>1
    <3> HIDE DEF n
    <3> QED
      BY <3>1, <3>2 DEF Row
  <2>3. outbox' = outbox \o new
    BY <1>1, <2>1
  <2> QED
    BY <2>2, <2>3
<1> HIDE DEF new
<1>4. new \in Seq(Row) /\ Len(new) = n /\ n \in Nat
  <2>1. n \in Nat
    BY <1>2 DEF n
  <2>2. new \in Seq(Row)
    BY <1>3, <2>1, IsASeq
  <2>3. DOMAIN new = 1 .. n
    BY <1>3
  <2> QED
    BY <2>1, <2>2, <2>3, LenProperties
<1>5. /\ outbox' \in Seq(Row) /\ Len(outbox') = Len(outbox) + n
      /\ \A i \in 1 .. Len(outbox) + n :
           outbox'[i] = IF i <= Len(outbox) THEN outbox[i] ELSE new[i - Len(outbox)]
  BY <1>3, <1>4, ConcatProperties
<1>6. DOMAIN outbox = 1 .. Len(outbox) /\ DOMAIN outbox' = 1 .. Len(outbox) + n
  BY <1>5, LenProperties
<1>7. \A e \in DOMAIN outbox : e \in DOMAIN outbox' /\ outbox'[e] = outbox[e]
  BY <1>2, <1>4, <1>5, <1>6
<1>8. ASSUME NEW e \in DOMAIN outbox' \ DOMAIN outbox
      PROVE  outbox'[e].status = "pending" /\ outbox'[e].attempt_count = 0
  <2>1. e - Len(outbox) \in 1 .. n /\ outbox'[e] = new[e - Len(outbox)]
    BY <1>2, <1>4, <1>5, <1>6
  <2> QED
    BY <1>3, <2>1
<1> QED
  BY <1>2, <1>5, <1>7, <1>8 DEF n

-----------------------------------------------------------------------------
(* The requests.                                                           *)

LEMMA Rounds ==
    ASSUME IInv, NEW w \in Workers
    PROVE  /\ InHand(w) \subseteq DOMAIN outbox /\ InHand(w) \subseteq Ids
           /\ round[w].todo \subseteq InHand(w) /\ Marked(w) \subseteq InHand(w)
           /\ DOMAIN outbox \subseteq Ids
BY DEF IInv, TypeOK, InHand

\* A step of the requests: old rows stay, new ones are fresh, and no round
\* is touched.
LEMMA TableStep ==
    ASSUME IInv, UNCHANGED <<round, history, crashes>>,
           outbox' \in Seq(Row), Len(outbox') <= MaxEvents,
           DOMAIN outbox \subseteq DOMAIN outbox',
           \A e \in DOMAIN outbox : outbox'[e] = outbox[e],
           \A e \in DOMAIN outbox' \ DOMAIN outbox :
              outbox'[e].status = "pending" /\ outbox'[e].attempt_count = 0,
           active' \in SUBSET Users, req' \in [Requests -> SUBSET Key],
           \A r \in Requests : IsFiniteSet(req'[r]),
           announced' \in 0 .. MaxAnnounced
    PROVE  IInv'
<1>1. \A w \in Workers : Marked(w)' = Marked(w) /\ InHand(w)' = InHand(w)
  BY DEF Marked, InHand
<1>2. \A e \in DOMAIN outbox' : e \in Ids /\ outbox'[e] \in Row
  <2>1. DOMAIN outbox' = 1 .. Len(outbox') /\ outbox' \in [1 .. Len(outbox') -> Row]
        /\ Len(outbox') \in Nat
    BY LenProperties
  <2> QED
    BY <2>1, ConstantsAssumption DEF Ids
<1>3. TypeOK'
  BY <1>1, <1>2, Rounds DEF IInv, TypeOK, history
<1>4. WellRead' /\ Locked'
  BY <1>1 DEF IInv, WellRead, Locked
<1>5. ASSUME NEW e \in DOMAIN outbox' \ shared PROVE Counted(e)'
  <2>1. CASE e \in DOMAIN outbox
    <3>1. Counted(e) /\ outbox'[e] = outbox[e]
      BY <1>5, <2>1 DEF IInv
    <3> QED
      BY <1>1, <3>1 DEF Counted, history
  <2>2. CASE e \notin DOMAIN outbox
    <3>1. calls[e] = 0 /\ taken[e] = 0
      BY <1>2, <1>5, <2>2 DEF IInv
    <3>2. \A w \in Workers : e \notin Marked(w) /\ e \notin round[w].todo
      BY <2>2, Rounds
    <3> QED
      BY <1>1, <2>2, <3>1, <3>2 DEF Counted, history, One
  <2> QED
    BY <2>1, <2>2
<1>6. \A e \in Ids \ (DOMAIN outbox' \cup shared) : calls[e] = 0 /\ taken[e] = 0
  BY DEF IInv
<1> QED
  BY <1>3, <1>4, <1>5, <1>6 DEF IInv, history

\* The same, when no row is new.
LEMMA NoRowStep ==
    ASSUME IInv, UNCHANGED <<outbox, round, history, crashes>>,
           active' \in SUBSET Users, req' \in [Requests -> SUBSET Key],
           \A r \in Requests : IsFiniteSet(req'[r]),
           announced' \in 0 .. MaxAnnounced
    PROVE  IInv'
<1>1. outbox \in Seq(Row) /\ Len(outbox) <= MaxEvents
  BY DEF IInv, WellRead
<1> QED
  BY <1>1, TableStep

\* What a step leaves of the rows that does not end a round.
RowsKept ==
    /\ \A e \in DOMAIN outbox : Exists(e)' /\ outbox'[e] = outbox[e]
    /\ \A e \in DOMAIN outbox' \ DOMAIN outbox :
          outbox'[e].status = "pending" /\ outbox'[e].attempt_count = 0

LEMMA RequestTypes ==
    ASSUME IInv
    PROVE  /\ active \in SUBSET Users /\ req \in [Requests -> SUBSET Key]
           /\ \A r \in Requests : IsFiniteSet(req[r])
           /\ announced \in 0 .. MaxAnnounced
           /\ outbox \in Seq(Row) /\ Len(outbox) <= MaxEvents
BY DEF IInv, TypeOK, WellRead

LEMMA AnnounceStep ==
    ASSUME IInv, NEW recipients, recipients \subseteq Users, Announce(recipients)
    PROVE  IInv' /\ RowsKept
<1> DEFINE keys == KeysFor("announced", announced + 1, recipients)
<1>1. /\ announced' = announced + 1 /\ announced < MaxAnnounced
      /\ UNCHANGED <<active, req, round, history, crashes>> /\ InsertRows(keys)
  BY DEF Announce
<1>2. announced + 1 \in 1 .. MaxAnnounced /\ announced' \in 0 .. MaxAnnounced
  BY <1>1, ConstantsAssumption, RequestTypes
<1>3. keys \subseteq Key /\ IsFiniteSet(keys)
  BY <1>2, KeysTyped
<1> HIDE DEF keys
<1>4. /\ outbox' \in Seq(Row) /\ Len(outbox') <= MaxEvents
      /\ DOMAIN outbox \subseteq DOMAIN outbox'
      /\ \A e \in DOMAIN outbox : outbox'[e] = outbox[e]
      /\ \A e \in DOMAIN outbox' \ DOMAIN outbox :
            outbox'[e].status = "pending" /\ outbox'[e].attempt_count = 0
  BY <1>1, <1>3, RequestTypes, RowsInserted
<1> QED
  BY <1>1, <1>2, <1>4, RequestTypes, TableStep DEF RowsKept, Exists

LEMMA CreateStep ==
    ASSUME IInv, NEW r \in Requests, NEW entity \in Materials, NEW recipients,
           recipients \subseteq Users, CreateEvent(r, entity, recipients)
    PROVE  IInv' /\ RowsKept
<1> DEFINE keys == KeysFor("decided", entity, recipients)
<1>1. keys \subseteq Key /\ IsFiniteSet(keys)
  BY KeysTyped
<1>2. req' = [req EXCEPT ![r] = keys \ Keys]
      /\ UNCHANGED <<outbox, active, announced, round, history, crashes>>
  BY DEF CreateEvent
<1> HIDE DEF keys
<1>3. keys \ Keys \subseteq Key /\ IsFiniteSet(keys \ Keys)
  BY <1>1, FS_Subset
<1>4. req' \in [Requests -> SUBSET Key] /\ \A q \in Requests : IsFiniteSet(req'[q])
  BY <1>2, <1>3, RequestTypes
<1> QED
  BY <1>2, <1>4, RequestTypes, NoRowStep DEF RowsKept, Exists

LEMMA EndRequestStep ==
    ASSUME IInv, NEW r \in Requests, CommitRequest(r) \/ RollBack(r)
    PROVE  IInv' /\ RowsKept
<1>1. req' = [req EXCEPT ![r] = {}]
      /\ UNCHANGED <<active, announced, round, history, crashes>>
  BY DEF CommitRequest, RollBack
<1>2. req' \in [Requests -> SUBSET Key] /\ \A q \in Requests : IsFiniteSet(req'[q])
  BY <1>1, RequestTypes, FS_EmptySet
<1>3. CASE CommitRequest(r)
  <2>1. InsertRows(req[r]) /\ req[r] \subseteq Key /\ IsFiniteSet(req[r])
    BY <1>3, RequestTypes DEF CommitRequest
  <2>2. /\ outbox' \in Seq(Row) /\ Len(outbox') <= MaxEvents
        /\ DOMAIN outbox \subseteq DOMAIN outbox'
        /\ \A e \in DOMAIN outbox : outbox'[e] = outbox[e]
        /\ \A e \in DOMAIN outbox' \ DOMAIN outbox :
              outbox'[e].status = "pending" /\ outbox'[e].attempt_count = 0
    BY <2>1, RequestTypes, RowsInserted
  <2> QED
    BY <1>1, <1>2, <2>2, RequestTypes, TableStep DEF RowsKept, Exists
<1>4. CASE RollBack(r)
  <2>1. UNCHANGED outbox
    BY <1>4 DEF RollBack
  <2> QED
    BY <1>1, <1>2, <2>1, RequestTypes, NoRowStep DEF RowsKept, Exists
<1> QED
  BY <1>3, <1>4

LEMMA ActiveStep ==
    ASSUME IInv, NEW u \in Users, SetActive(u)
    PROVE  IInv' /\ RowsKept
<1>1. active' \in SUBSET Users
      /\ UNCHANGED <<outbox, req, announced, round, history, crashes>>
  BY RequestTypes DEF SetActive
<1> QED
  BY <1>1, RequestTypes, NoRowStep DEF RowsKept, Exists

-----------------------------------------------------------------------------
(* The rounds.                                                             *)

RoundOf(todo, loaded, marked) == [todo |-> todo, loaded |-> loaded, marked |-> marked]

\* One worker goes on; the others have what they had.
LEMMA OneRound ==
    ASSUME IInv, NEW w \in Workers, NEW todo, NEW loaded, NEW marked,
           round' = [round EXCEPT ![w] = RoundOf(todo, loaded, marked)]
    PROVE  /\ round' = [v \in Workers |-> RoundOf(round'[v].todo, round'[v].loaded,
                                                  round'[v].marked)]
           /\ round'[w].todo = todo /\ round'[w].loaded = loaded
           /\ round'[w].marked = marked /\ Marked(w)' = DOMAIN marked
           /\ \A v \in Workers \ {w} : round'[v] = round[v] /\ Marked(v)' = Marked(v)
<1>1. round = [v \in Workers |-> RoundOf(round[v].todo, round[v].loaded, round[v].marked)]
  BY DEF IInv, WellRead, RoundOf
<1>2. round'[w] = RoundOf(todo, loaded, marked) /\ \A v \in Workers \ {w} : round'[v] = round[v]
  BY <1>1
<1>3. /\ round'[w].todo = todo /\ round'[w].loaded = loaded /\ round'[w].marked = marked
  BY <1>2 DEF RoundOf
<1>4. ASSUME NEW v \in Workers
      PROVE  round'[v] = RoundOf(round'[v].todo, round'[v].loaded, round'[v].marked)
  <2>1. CASE v = w
    BY <1>2, <1>3, <2>1
  <2>2. CASE v # w
    <3>1. round[v] = RoundOf(round[v].todo, round[v].loaded, round[v].marked)
      BY <1>1
    <3> QED
      BY <1>2, <2>2, <3>1
  <2> QED
    BY <2>1, <2>2
<1>5. round' = [v \in Workers |-> round'[v]]
  BY <1>1
<1>6. round' = [v \in Workers |-> RoundOf(round'[v].todo, round'[v].loaded, round'[v].marked)]
  BY <1>4, <1>5
<1> QED
  BY <1>2, <1>3, <1>6 DEF Marked

LEMMA ListStep ==
    ASSUME IInv, NEW w \in Workers, ListPending(w)
    PROVE  IInv'
<1>1. PICK batch :
        /\ batch \subseteq Pending
        /\ round' = [round EXCEPT ![w] =
                       RoundOf(batch, [e \in batch |-> outbox[e].attempt_count], <<>>)]
        /\ UNCHANGED <<table, history, crashes>>
  BY DEF ListPending, RoundOf
<1> DEFINE loaded == [e \in batch |-> outbox[e].attempt_count]
<1>2. /\ round' = [v \in Workers |-> RoundOf(round'[v].todo, round'[v].loaded,
                                             round'[v].marked)]
      /\ round'[w].todo = batch /\ round'[w].loaded = loaded /\ Marked(w)' = {}
      /\ \A v \in Workers \ {w} : round'[v] = round[v] /\ Marked(v)' = Marked(v)
  <2>1. DOMAIN <<>> = {}
    OBVIOUS
  <2> HIDE DEF loaded
  <2> QED
    BY <1>1, <2>1, OneRound DEF loaded
<1>3. Marked(w) = {}
  BY DEF ListPending, InHand
<1>4. \A v \in Workers : Marked(v)' = Marked(v)
  BY <1>2, <1>3
<1>5. ASSUME NEW e \in batch
      PROVE  /\ e \in DOMAIN outbox /\ loaded[e] = outbox[e].attempt_count
             /\ outbox[e].status # "dispatched" /\ loaded[e] \in 0 .. MaxAttempts - 1
             /\ outbox[e].attempt_count <= outbox[e].attempt_count
  <2>1. e \in DOMAIN outbox /\ outbox[e].status # "dispatched"
        /\ outbox[e].attempt_count < MaxAttempts
    BY <1>1 DEF Pending
  <2>2. outbox[e].attempt_count \in 0 .. MaxAttempts
    BY <2>1 DEF IInv, TypeOK, Row
  <2> QED
    BY <2>1, <2>2, ConstantsAssumption
<1> HIDE DEF loaded
<1>6. TypeOK'
  <2>1. ASSUME NEW v \in Workers
        PROVE  /\ InHand(v)' \subseteq DOMAIN outbox
               /\ \A e \in Marked(v)' : round'[v].marked[e] \in Mark
    BY <1>2, <1>3, <1>5, Rounds DEF InHand, IInv, TypeOK
  <2> QED
    BY <1>1, <2>1 DEF IInv, TypeOK, table, history
<1>7. WellRead'
  <2>1. ASSUME NEW v \in Workers
        PROVE  /\ round'[v].todo \cap Marked(v)' = {}
               /\ \A e \in round'[v].todo : round'[v].loaded[e] \in 0 .. MaxAttempts - 1
    BY <1>2, <1>5 DEF IInv, WellRead
  <2> QED
    BY <1>1, <1>2, <2>1 DEF IInv, WellRead, table, RoundOf
<1>8. Locked'
  BY <1>4 DEF IInv, Locked
<1>9. ASSUME NEW e \in DOMAIN outbox \ shared PROVE Counted(e)'
  <2>1. Counted(e)
    BY DEF IInv
  <2> QED
    BY <1>1, <1>2, <1>3, <1>4, <1>5, <2>1 DEF Counted, table, history
<1> QED
  BY <1>1, <1>6, <1>7, <1>8, <1>9 DEF IInv, table, history

LEMMA DispatchStep ==
    ASSUME IInv, NEW w \in Workers, DispatchEvent(w)
    PROVE  IInv'
<1> DEFINE e == Min(round[w].todo)
           next(status) == [status |-> status, attempt_count |-> round[w].loaded[e] + 1]
<1>1. e \in round[w].todo /\ e \in Ids /\ e \in DOMAIN outbox
  BY Rounds, MinIn DEF DispatchEvent
<1>2. PICK status \in {"dispatched", "failed"} :
        /\ MarkEvent(w, e, status)
        /\ taken' = IF e \in shared' \/ status = "failed" THEN taken
                    ELSE [taken EXCEPT ![e] = @ + 1]
  BY DEF DispatchEvent
<1>3. /\ shared' = IF Overlaps(w, e) THEN shared \cup {e} ELSE shared
      /\ calls' = IF e \in shared' THEN calls ELSE [calls EXCEPT ![e] = @ + 1]
      /\ UNCHANGED <<table, crashes>>
  BY DEF DispatchEvent
<1> HIDE DEF e
<1> DEFINE marked == [f \in Marked(w) \cup {e} |->
                        IF f = e THEN next(status) ELSE round[w].marked[f]]
<1>4. \A v \in Workers \ {w} : e \notin Marked(v)
  BY <1>2 DEF MarkEvent
<1>5. round' = [round EXCEPT ![w] = RoundOf(round[w].todo \ {e}, round[w].loaded, marked)]
  <2>1. round = [v \in Workers |-> RoundOf(round[v].todo, round[v].loaded, round[v].marked)]
    BY DEF IInv, WellRead, RoundOf
  <2>2. round[w] = RoundOf(round[w].todo, round[w].loaded, round[w].marked)
    BY <2>1
  <2>3. round' = [round EXCEPT ![w].todo = @ \ {e}, ![w].marked = marked]
    BY <1>2 DEF MarkEvent, Marked
  <2> HIDE DEF marked
  <2>4. [round[w] EXCEPT !.todo = @ \ {e}, !.marked = marked]
          = RoundOf(round[w].todo \ {e}, round[w].loaded, marked)
    <3> DEFINE x == round[w].todo \ {e}
               R == [todo : {round[w].todo, x}, loaded : {round[w].loaded},
                     marked : {round[w].marked, marked}]
               s == [round[w] EXCEPT !.todo = x, !.marked = marked]
    <3>1. round[w] \in R
      BY <2>2 DEF RoundOf
    <3> HIDE DEF x
    <3>2. s \in R /\ s.todo = x /\ s.marked = marked
      BY <3>1
    <3>3. s.loaded = round[w].loaded
      BY <3>1
    <3>4. s = RoundOf(s.todo, s.loaded, s.marked)
      <4> HIDE DEF s
      <4> QED
        BY <3>2 DEF RoundOf
    <3> HIDE DEF s, R
    <3>5. s = RoundOf(x, round[w].loaded, marked)
      BY <3>2, <3>3, <3>4
    <3> QED
      BY <3>5 DEF s, x
  <2> QED
    BY <2>1, <2>3, <2>4
<1>6. /\ DOMAIN marked = Marked(w) \cup {e} /\ marked[e] = next(status)
      /\ \A f \in Marked(w) : f # e => marked[f] = round[w].marked[f]
  OBVIOUS
<1> HIDE DEF marked
<1>7. /\ round' = [v \in Workers |-> RoundOf(round'[v].todo, round'[v].loaded,
                                             round'[v].marked)]
      /\ round'[w].todo = round[w].todo \ {e} /\ round'[w].loaded = round[w].loaded
      /\ round'[w].marked = marked /\ Marked(w)' = Marked(w) \cup {e}
      /\ \A v \in Workers \ {w} : round'[v] = round[v] /\ Marked(v)' = Marked(v)
  <2> DEFINE todo == round[w].todo \ {e}
             loaded == round[w].loaded
  <2>1. round' = [round EXCEPT ![w] = RoundOf(todo, loaded, marked)]
    BY <1>5
  <2> HIDE DEF todo, loaded
  <2>2. /\ round' = [v \in Workers |-> RoundOf(round'[v].todo, round'[v].loaded,
                                               round'[v].marked)]
        /\ round'[w].todo = todo /\ round'[w].loaded = loaded
        /\ round'[w].marked = marked /\ Marked(w)' = DOMAIN marked
        /\ \A v \in Workers \ {w} : round'[v] = round[v] /\ Marked(v)' = Marked(v)
    BY <2>1, OneRound
  <2> QED
    BY <1>6, <2>2 DEF todo, loaded
<1>8. e \notin Marked(w) /\ round[w].loaded[e] \in 0 .. MaxAttempts - 1
  BY <1>1 DEF IInv, WellRead
<1>9. next(status) \in Mark /\ next(status).attempt_count = round[w].loaded[e] + 1
      /\ next(status).status = status
  BY <1>8, ConstantsAssumption DEF Mark
<1> HIDE DEF next
<1>10. \A f \in Marked(w) : f # e /\ marked[f] = round[w].marked[f]
  BY <1>6, <1>8
<1>11. calls \in [Ids -> Nat] /\ taken \in [Ids -> Nat] /\ shared \subseteq Ids
  BY DEF IInv, TypeOK
<1>12. /\ calls' \in [Ids -> Nat] /\ taken' \in [Ids -> Nat]
       /\ \A f \in Ids \ {e} : calls'[f] = calls[f] /\ taken'[f] = taken[f]
       /\ e \notin shared' =>
            /\ calls'[e] = calls[e] + 1
            /\ taken'[e] = IF status = "failed" THEN taken[e] ELSE taken[e] + 1
       /\ shared' \subseteq Ids /\ shared \subseteq shared'
  BY <1>1, <1>2, <1>3, <1>11
<1>13. TypeOK'
  <2>1. ASSUME NEW v \in Workers
        PROVE  /\ InHand(v)' \subseteq DOMAIN outbox
               /\ \A f \in Marked(v)' : round'[v].marked[f] \in Mark
    <3>1. CASE v = w
      BY <1>1, <1>6, <1>7, <1>9, <1>10, <3>1, Rounds DEF InHand, IInv, TypeOK
    <3>2. CASE v # w
      BY <1>7, <3>2, Rounds DEF InHand, IInv, TypeOK
    <3> QED
      BY <3>1, <3>2
  <2> QED
    BY <1>3, <1>12, <2>1 DEF IInv, TypeOK, table
<1>14. WellRead'
  <2>1. ASSUME NEW v \in Workers
        PROVE  /\ round'[v].todo \cap Marked(v)' = {}
               /\ \A f \in round'[v].todo : round'[v].loaded[f] \in 0 .. MaxAttempts - 1
    <3>1. /\ round[v].todo \cap Marked(v) = {}
          /\ \A f \in round[v].todo : round[v].loaded[f] \in 0 .. MaxAttempts - 1
      BY DEF IInv, WellRead
    <3> QED
      BY <1>7, <3>1
  <2> QED
    BY <1>3, <1>7, <2>1 DEF IInv, WellRead, table, RoundOf
<1>15. Locked'
  BY <1>4, <1>7 DEF IInv, Locked
<1>16. ASSUME NEW f \in DOMAIN outbox \ shared' PROVE Counted(f)'
  <2>1. f \in Ids /\ Counted(f) /\ outbox' = outbox
    BY <1>3, <1>12, <1>16, Rounds DEF IInv, table, TypeOK
  <2>2. CASE f # e
    <3>1. /\ calls'[f] = calls[f] /\ taken'[f] = taken[f]
          /\ \A v \in Workers :
                /\ f \in Marked(v)' <=> f \in Marked(v)
                /\ f \in Marked(v) => round'[v].marked[f] = round[v].marked[f]
                /\ f \in round'[v].todo <=> f \in round[v].todo
                /\ round'[v].loaded = round[v].loaded
      BY <1>7, <1>10, <1>12, <2>1, <2>2
    <3> QED
      BY <2>1, <3>1 DEF Counted
  <2>3. CASE f = e
    <3>1. ~Overlaps(w, e)
      BY <1>3, <1>16, <2>3
    <3>2. /\ outbox[e].attempt_count = round[w].loaded[e]
          /\ \A v \in Workers \ {w} : e \notin Marked(v) /\ e \notin round[v].todo
      BY <3>1 DEF Overlaps, InHand
    <3>3. outbox[e].status # "dispatched"
      BY <1>1, <2>1, <2>3, <3>2 DEF Counted
    <3>4. calls[e] = outbox[e].attempt_count /\ taken[e] = 0
      BY <1>8, <2>1, <2>3, <3>2, <3>3 DEF Counted, One
    <3>5. calls'[e] = outbox[e].attempt_count + 1 /\ taken'[e] = One(status)
      BY <1>12, <1>16, <2>3, <3>4 DEF One
    <3>6. /\ e \in Marked(w)' /\ e \notin round'[w].todo
          /\ round'[w].marked[e] = next(status)
          /\ \A v \in Workers \ {w} : e \notin Marked(v)' /\ e \notin round'[v].todo
      BY <1>6, <1>7, <3>2
    <3> QED
      BY <1>9, <2>1, <2>3, <3>2, <3>3, <3>5, <3>6 DEF Counted
  <2> QED
    BY <2>2, <2>3
<1>17. \A f \in Ids \ (DOMAIN outbox' \cup shared') : calls'[f] = 0 /\ taken'[f] = 0
  BY <1>1, <1>3, <1>12 DEF IInv, table
<1> QED
  BY <1>3, <1>13, <1>14, <1>15, <1>16, <1>17 DEF IInv, table

\* The round of w is over.
LEMMA EndOfRound ==
    ASSUME IInv, NEW w \in Workers, round' = [round EXCEPT ![w] = NoRound]
    PROVE  /\ round' = [v \in Workers |-> RoundOf(round'[v].todo, round'[v].loaded,
                                                  round'[v].marked)]
           /\ round'[w].todo = {} /\ Marked(w)' = {}
           /\ \A v \in Workers \ {w} : round'[v] = round[v] /\ Marked(v)' = Marked(v)
           /\ \A v \in Workers : InHand(v)' \subseteq DOMAIN outbox
           /\ Locked'
<1>1. NoRound = RoundOf({}, <<>>, <<>>) /\ DOMAIN <<>> = {}
  BY DEF NoRound, RoundOf
<1>2. /\ round' = [v \in Workers |-> RoundOf(round'[v].todo, round'[v].loaded,
                                             round'[v].marked)]
      /\ round'[w].todo = {} /\ Marked(w)' = {}
      /\ \A v \in Workers \ {w} : round'[v] = round[v] /\ Marked(v)' = Marked(v)
  BY <1>1, OneRound
<1>3. \A v \in Workers : InHand(v)' \subseteq DOMAIN outbox
  BY <1>2, Rounds DEF InHand
<1>4. Locked'
  BY <1>2 DEF IInv, Locked
<1> QED
  BY <1>2, <1>3, <1>4

LEMMA CommitStep ==
    ASSUME IInv, NEW w \in Workers, CommitRound(w)
    PROVE  IInv'
<1>1. /\ outbox' = [e \in DOMAIN outbox |->
                      IF e \in Marked(w)
                      THEN [outbox[e] EXCEPT
                              !.status = round[w].marked[e].status,
                              !.attempt_count = round[w].marked[e].attempt_count]
                      ELSE outbox[e]]
      /\ round' = [round EXCEPT ![w] = NoRound]
      /\ UNCHANGED <<active, req, announced, history, crashes>>
  BY DEF CommitRound
<1>2. /\ round' = [v \in Workers |-> RoundOf(round'[v].todo, round'[v].loaded,
                                             round'[v].marked)]
      /\ round'[w].todo = {} /\ Marked(w)' = {}
      /\ \A v \in Workers \ {w} : round'[v] = round[v] /\ Marked(v)' = Marked(v)
      /\ \A v \in Workers : InHand(v)' \subseteq DOMAIN outbox
      /\ Locked'
  BY <1>1, EndOfRound
<1>3. DOMAIN outbox' = DOMAIN outbox /\ \A e \in DOMAIN outbox \ Marked(w) : outbox'[e] = outbox[e]
  BY <1>1
<1>4. ASSUME NEW e \in Marked(w)
      PROVE  /\ outbox'[e] \in Row
             /\ outbox'[e].status = round[w].marked[e].status
             /\ outbox'[e].attempt_count = round[w].marked[e].attempt_count
  <2>1. e \in DOMAIN outbox /\ outbox[e] \in Row /\ round[w].marked[e] \in Mark
    BY Rounds DEF IInv, TypeOK
  <2>2. outbox'[e] = [outbox[e] EXCEPT !.status = round[w].marked[e].status,
                                       !.attempt_count = round[w].marked[e].attempt_count]
    BY <1>1, <2>1
  <2>3. /\ round[w].marked[e].status \in {"dispatched", "failed"}
        /\ round[w].marked[e].attempt_count \in 0 .. MaxAttempts
    BY <2>1 DEF Mark
  <2> QED
    BY <2>1, <2>2, <2>3 DEF Row
<1>5. outbox' \in Seq(Row) /\ Len(outbox') <= MaxEvents
  <2>1. DOMAIN outbox = 1 .. Len(outbox) /\ Len(outbox) \in Nat /\ Len(outbox) <= MaxEvents
    BY LenProperties DEF IInv, WellRead
  <2>2. \A e \in DOMAIN outbox : outbox'[e] \in Row
    BY <1>3, <1>4 DEF IInv, TypeOK
  <2>3. outbox' = [e \in 1 .. Len(outbox) |-> outbox'[e]]
    BY <1>1, <2>1
  <2>4. outbox' \in Seq(Row)
    BY <2>1, <2>2, <2>3, IsASeq
  <2>5. Len(outbox') = Len(outbox)
    <3>1. DOMAIN outbox' = 1 .. Len(outbox') /\ Len(outbox') \in Nat
      BY <2>4, LenProperties
    <3> QED
      BY <1>3, <2>1, <3>1
  <2> QED
    BY <2>1, <2>4, <2>5
<1>6. TypeOK'
  <2>1. \A e \in DOMAIN outbox : e \in Ids /\ outbox'[e] \in Row
    BY <1>3, <1>4 DEF IInv, TypeOK
  <2>2. \A v \in Workers : \A e \in Marked(v)' : round'[v].marked[e] \in Mark
    BY <1>2 DEF IInv, TypeOK
  <2> QED
    BY <1>1, <1>2, <1>3, <2>1, <2>2 DEF IInv, TypeOK, history
<1>7. WellRead'
  <2>1. ASSUME NEW v \in Workers
        PROVE  /\ round'[v].todo \cap Marked(v)' = {}
               /\ \A e \in round'[v].todo : round'[v].loaded[e] \in 0 .. MaxAttempts - 1
    BY <1>2 DEF IInv, WellRead
  <2> QED
    BY <1>1, <1>2, <1>5, <2>1 DEF IInv, WellRead, RoundOf
<1>8. ASSUME NEW e \in DOMAIN outbox \ shared PROVE Counted(e)'
  <2>1. Counted(e) /\ e \in Ids /\ outbox[e] \in Row
    BY DEF IInv, TypeOK
  <2>2. UNCHANGED <<calls, taken>>
    BY <1>1 DEF history
  <2>3. CASE e \notin Marked(w)
    BY <1>2, <1>3, <2>1, <2>2, <2>3 DEF Counted
  <2>4. CASE e \in Marked(w)
    <3>1. /\ outbox'[e].attempt_count = outbox[e].attempt_count + 1
          /\ calls[e] = outbox'[e].attempt_count
          /\ taken[e] = One(outbox'[e].status)
      BY <1>4, <2>1, <2>4 DEF Counted
    <3>2. \A v \in Workers : e \notin Marked(v)'
      BY <1>2, <2>4 DEF IInv, Locked
    <3>3. ASSUME NEW v \in Workers, e \in round'[v].todo
          PROVE  round'[v].loaded[e] <= outbox[e].attempt_count
                 /\ round'[v].loaded[e] \in Int
      <4>1. v # w /\ round'[v] = round[v]
        BY <1>2, <3>3
      <4>2. round[v].loaded[e] \in 0 .. MaxAttempts - 1
        BY <3>3, <4>1 DEF IInv, WellRead
      <4> QED
        BY <2>1, <3>3, <4>1, <4>2 DEF Counted
    <3>4. outbox[e].attempt_count \in Int
      BY <2>1 DEF Row
    <3>5. \A v \in Workers : e \in round'[v].todo =>
            /\ round'[v].loaded[e] <= outbox'[e].attempt_count
            /\ round'[v].loaded[e] # outbox'[e].attempt_count
      BY <3>1, <3>3, <3>4
    <3> QED
      BY <2>2, <3>1, <3>2, <3>5 DEF Counted
  <2> QED
    BY <2>3, <2>4
<1> QED
  BY <1>1, <1>2, <1>3, <1>6, <1>7, <1>8 DEF IInv, history

LEMMA CrashStep ==
    ASSUME IInv, NEW w \in Workers, Crash(w)
    PROVE  IInv'
<1>1. /\ crashes' = crashes + 1 /\ crashes < MaxCrashes
      /\ calls' = [e \in Ids |-> IF Forgets(w, e) THEN calls[e] - 1 ELSE calls[e]]
      /\ taken' = [e \in Ids |->
                     IF Forgets(w, e) /\ round[w].marked[e].status = "dispatched"
                     THEN taken[e] - 1 ELSE taken[e]]
      /\ round' = [round EXCEPT ![w] = NoRound]
      /\ UNCHANGED <<table, shared>>
  BY DEF Crash
<1>2. /\ round' = [v \in Workers |-> RoundOf(round'[v].todo, round'[v].loaded,
                                             round'[v].marked)]
      /\ round'[w].todo = {} /\ Marked(w)' = {}
      /\ \A v \in Workers \ {w} : round'[v] = round[v] /\ Marked(v)' = Marked(v)
      /\ \A v \in Workers : InHand(v)' \subseteq DOMAIN outbox
      /\ Locked'
  BY <1>1, EndOfRound
<1>3. ASSUME NEW e \in Ids, Forgets(w, e)
      PROVE  /\ e \in DOMAIN outbox \ shared
             /\ calls'[e] = outbox[e].attempt_count /\ taken'[e] = 0
             /\ outbox[e].status # "dispatched" /\ outbox[e].attempt_count \in Nat
  <2>1. e \in DOMAIN outbox \ shared /\ e \in Marked(w)
    BY <1>3, Rounds DEF Forgets
  <2>2. Counted(e) /\ outbox[e].attempt_count \in Nat
    BY <2>1 DEF IInv, TypeOK, Row
  <2>3. /\ calls[e] = outbox[e].attempt_count + 1
        /\ taken[e] = One(round[w].marked[e].status) /\ outbox[e].status # "dispatched"
    BY <2>1, <2>2 DEF Counted
  <2>4. taken'[e] = 0
    BY <1>1, <1>3, <2>3 DEF One
  <2> QED
    BY <1>1, <1>3, <2>1, <2>2, <2>3, <2>4
<1>4. \A e \in Ids : ~Forgets(w, e) => calls'[e] = calls[e] /\ taken'[e] = taken[e]
  BY <1>1
<1>5. calls' \in [Ids -> Nat] /\ taken' \in [Ids -> Nat]
  <2>1. \A e \in Ids : calls'[e] \in Nat /\ taken'[e] \in Nat
    BY <1>3, <1>4 DEF IInv, TypeOK
  <2>2. calls' = [e \in Ids |-> calls'[e]] /\ taken' = [e \in Ids |-> taken'[e]]
    BY <1>1
  <2> QED
    BY <2>1, <2>2
<1>6. TypeOK'
  <2>1. \A v \in Workers : \A e \in Marked(v)' : round'[v].marked[e] \in Mark
    BY <1>2 DEF IInv, TypeOK
  <2>2. crashes' \in 0 .. MaxCrashes
    BY <1>1, ConstantsAssumption DEF IInv, TypeOK
  <2> QED
    BY <1>1, <1>2, <1>5, <2>1, <2>2 DEF IInv, TypeOK, table
<1>7. WellRead'
  <2>1. ASSUME NEW v \in Workers
        PROVE  /\ round'[v].todo \cap Marked(v)' = {}
               /\ \A e \in round'[v].todo : round'[v].loaded[e] \in 0 .. MaxAttempts - 1
    BY <1>2 DEF IInv, WellRead
  <2> QED
    BY <1>1, <1>2, <2>1 DEF IInv, WellRead, RoundOf, table
<1>8. ASSUME NEW e \in DOMAIN outbox \ shared PROVE Counted(e)'
  <2>1. Counted(e) /\ e \in Ids /\ outbox' = outbox
    BY <1>1 DEF IInv, TypeOK, table
  <2>2. CASE e \notin Marked(w)
    <3>1. calls'[e] = calls[e] /\ taken'[e] = taken[e]
      BY <1>4, <2>1, <2>2 DEF Forgets
    <3> QED
      BY <1>2, <2>1, <2>2, <3>1 DEF Counted
  <2>3. CASE e \in Marked(w)
    <3>1. /\ calls'[e] = outbox[e].attempt_count /\ taken'[e] = 0
          /\ outbox[e].status # "dispatched"
      BY <1>3, <1>8, <2>1, <2>3 DEF Forgets
    <3>2. \A v \in Workers : e \notin Marked(v)'
      BY <1>2, <2>3 DEF IInv, Locked
    <3>3. \A v \in Workers : e \in round'[v].todo => v # w /\ round'[v] = round[v]
      BY <1>2
    <3> QED
      BY <2>1, <3>1, <3>2, <3>3 DEF Counted, One
  <2> QED
    BY <2>2, <2>3
<1>9. \A e \in Ids \ (DOMAIN outbox' \cup shared') : calls'[e] = 0 /\ taken'[e] = 0
  BY <1>1, <1>3, <1>4 DEF IInv, table
<1> QED
  BY <1>1, <1>2, <1>6, <1>7, <1>8, <1>9 DEF IInv, table

-----------------------------------------------------------------------------
(* The invariant.                                                          *)

LEMMA Initially == Init => IInv
<1> SUFFICES ASSUME Init PROVE IInv
  OBVIOUS
<1>1. /\ outbox = <<>> /\ shared = {} /\ active = Users /\ announced = 0 /\ crashes = 0
      /\ \A r \in Requests : req[r] = {}
      /\ \A e \in Ids : calls[e] = 0 /\ taken[e] = 0
  BY DEF Init
<1>2. \A w \in Workers : /\ round[w].todo = {} /\ round[w].marked = <<>>
                         /\ round[w].loaded = <<>> /\ Marked(w) = {} /\ InHand(w) = {}
  BY DEF Init, NoRound, Marked, InHand
<1>3. DOMAIN outbox = {} /\ outbox \in Seq(Row) /\ Len(outbox) <= MaxEvents
  BY <1>1, ConstantsAssumption
<1>4. TypeOK
  <2>1. announced \in 0 .. MaxAnnounced /\ crashes \in 0 .. MaxCrashes
    BY <1>1, ConstantsAssumption
  <2> QED
    BY <1>1, <1>2, <1>3, <2>1 DEF Init, TypeOK
<1>5. WellRead
  <2>1. round = [w \in Workers |-> [todo |-> round[w].todo, loaded |-> round[w].loaded,
                                    marked |-> round[w].marked]]
    BY <1>2 DEF Init, NoRound
  <2> QED
    BY <1>1, <1>2, <1>3, <2>1, FS_EmptySet DEF WellRead
<1>6. Locked
  BY <1>2 DEF Locked
<1> QED
  BY <1>1, <1>3, <1>4, <1>5, <1>6 DEF IInv

\* A row that was dispatched stays so, unless two rounds had it at a time.
Final == \A e \in DOMAIN outbox :
            outbox[e].status = "dispatched" =>
               outbox'[e].status = "dispatched" \/ e \in shared

LEMMA CommitFinal ==
    ASSUME IInv, NEW w \in Workers, CommitRound(w)
    PROVE  Final
<1> SUFFICES ASSUME NEW e \in DOMAIN outbox, outbox[e].status = "dispatched", e \notin shared
             PROVE  outbox'[e] = outbox[e]
  BY DEF Final
<1>1. e \notin Marked(w)
  BY DEF IInv, Counted
<1> QED
  BY <1>1 DEF CommitRound

LEMMA Stepwise ==
    ASSUME IInv, [Next]_vars
    PROVE  IInv' /\ (Final \/ UNCHANGED vars)
<1>1. CASE UNCHANGED vars
  <2>1. UNCHANGED <<outbox, round, active, req, announced, history, crashes>>
    BY <1>1 DEF vars, history
  <2>2. IInv'
    BY <2>1, RequestTypes, NoRowStep
  <2> QED
    BY <1>1, <2>2
<1>2. ASSUME RowsKept PROVE Final
  BY <1>2 DEF RowsKept, Final
<1>3. CASE UserRegistered \/ MaterialSubmitted \/ ProposalCreated
  <2>1. PICK recipients \in SUBSET Users : Announce(recipients)
    <3>1. active \subseteq Users
      BY RequestTypes
    <3> QED
      BY <1>3, <3>1, Recipients DEF UserRegistered, MaterialSubmitted, ProposalCreated
  <2> QED
    BY <1>2, <2>1, AnnounceStep
<1>4. ASSUME NEW r \in Requests, NEW m \in Materials,
             OwnerEvent(r, m) \/ ProposalOwnerEvent(r, m) \/ AccountEvent(r, m)
      PROVE  IInv' /\ Final
  <2>1. PICK recipients \in SUBSET Users : CreateEvent(r, m, recipients)
    <3>1. active \subseteq Users
      BY RequestTypes
    <3> QED
      BY <1>4, <3>1, Recipients DEF OwnerEvent, ProposalOwnerEvent, AccountEvent
  <2> QED
    BY <1>2, <2>1, CreateStep
<1>5. ASSUME NEW r \in Requests, CommitRequest(r) \/ RollBack(r)
      PROVE  IInv' /\ Final
  BY <1>2, <1>5, EndRequestStep
<1>6. ASSUME NEW u \in Users, SetActive(u)
      PROVE  IInv' /\ Final
  BY <1>2, <1>6, ActiveStep
<1>7. ASSUME NEW w \in Workers, WorkerStep(w) \/ Crash(w)
      PROVE  IInv' /\ Final
  <2>1. CASE ListPending(w)
    <3>1. RowsKept
      BY <2>1 DEF ListPending, table, RowsKept, Exists
    <3> QED
      BY <1>2, <2>1, <3>1, ListStep
  <2>2. CASE DispatchEvent(w)
    <3>1. RowsKept
      BY <2>2 DEF DispatchEvent, table, RowsKept, Exists
    <3> QED
      BY <1>2, <2>2, <3>1, DispatchStep
  <2>3. CASE CommitRound(w)
    BY <2>3, CommitStep, CommitFinal
  <2>4. CASE Crash(w)
    <3>1. RowsKept
      BY <2>4 DEF Crash, table, RowsKept, Exists
    <3> QED
      BY <1>2, <2>4, <3>1, CrashStep
  <2> QED
    BY <1>7, <2>1, <2>2, <2>3, <2>4 DEF WorkerStep
<1> QED
  BY <1>1, <1>3, <1>4, <1>5, <1>6, <1>7 DEF Next

LEMMA Invariance == Spec => []IInv
<1>1. IInv /\ [Next]_vars => IInv'
  BY Stepwise
<1> QED
  BY Initially, <1>1, PTL DEF Spec

\* Every variable has its type: rows, requests and what the rounds hold.
THEOREM Typed == Spec => []TypeOK
<1>1. IInv => TypeOK
  BY DEF IInv
<1> QED
  BY <1>1, Invariance, PTL

\* The bot is called for an event telegram_event_max_attempts times, and more
\* often only for calls that were forgotten or that another worker's round
\* overlapped (mark_failed writes the count that was loaded).
THEOREM Bounded == Spec => []CallsBounded
<1>1. IInv => CallsBounded
  <2> SUFFICES ASSUME IInv, NEW e \in Ids \ shared PROVE calls[e] <= MaxAttempts
    BY DEF CallsBounded
  <2>1. CASE e \notin DOMAIN outbox
    BY <2>1, ConstantsAssumption DEF IInv
  <2>2. CASE e \in DOMAIN outbox
    <3>1. Counted(e) /\ outbox[e].attempt_count \in 0 .. MaxAttempts
      BY <2>2 DEF IInv, TypeOK, Row
    <3>2. \A w \in Workers : e \in Marked(w) =>
            round[w].marked[e].attempt_count \in 1 .. MaxAttempts
      BY DEF IInv, TypeOK, Mark
    <3>3. CASE \A w \in Workers : e \notin Marked(w)
      BY <3>1, <3>3, ConstantsAssumption DEF Counted
    <3>4. ASSUME NEW w \in Workers, e \in Marked(w) PROVE calls[e] <= MaxAttempts
      <4>1. calls[e] = round[w].marked[e].attempt_count
        BY <3>1, <3>4 DEF Counted
      <4> QED
        BY <3>2, <3>4, <4>1, ConstantsAssumption
    <3> QED
      BY <3>3, <3>4
  <2> QED
    BY <2>1, <2>2
<1> QED
  BY <1>1, Invariance, PTL

\* An event that the bot acknowledged is pushed again only after a crash or a
\* failed commit, or when two workers had it in hand at the same time
\* (list_pending_events takes no lock).
THEOREM Explained == Spec => []DuplicatesExplained
<1>1. IInv => DuplicatesExplained
  <2> SUFFICES ASSUME IInv, NEW e \in Ids \ shared PROVE taken[e] <= 1
    BY DEF DuplicatesExplained
  <2>1. CASE e \notin DOMAIN outbox
    BY <2>1 DEF IInv
  <2>2. CASE e \in DOMAIN outbox
    BY <2>2 DEF IInv, Counted, One
  <2> QED
    BY <2>1, <2>2
<1> QED
  BY <1>1, Invariance, PTL

\* A dispatched event is never pending or failed again, unless two workers had
\* it in hand at the same time (list_pending_events, mark_failed).
THEOREM StaysDispatched == Spec => DispatchedIsFinal
<1>1. IInv /\ [Next]_vars => [Final]_vars
  BY Stepwise
<1>2. Spec => [][Final]_vars
  BY <1>1, Invariance, PTL DEF Spec
<1> QED
  BY <1>2 DEF Final, DispatchedIsFinal

-----------------------------------------------------------------------------
(* The promise to one event.                                               *)

LEMMA StateOf ==
    ASSUME TypeOK, NEW e \in Ids
    PROVE  /\ calls[e] \in Nat /\ taken[e] \in Nat
           /\ ~Exists(e) => State(e) = "absent"
           /\ Exists(e) =>
                /\ outbox[e].status \in {"pending", "dispatched", "failed"}
                /\ outbox[e].attempt_count \in 0 .. MaxAttempts
                /\ outbox[e].status = "dispatched" => State(e) = "delivered"
                /\ outbox[e].status # "dispatched" =>
                     State(e) = IF outbox[e].attempt_count = MaxAttempts
                                THEN "abandoned" ELSE "open"
<1>1. calls[e] \in Nat /\ taken[e] \in Nat
  BY DEF TypeOK
<1>2. Exists(e) => outbox[e] \in Row
  BY DEF TypeOK, Exists
<1> QED
  BY <1>1, <1>2 DEF State, Row

\* A step that leaves the row and the figures of an event alone is none.
LEMMA Stutters ==
    ASSUME NEW e \in Ids, UNCHANGED <<State(e), calls[e], taken[e]>>
    PROVE  UNCHANGED Promise(e)!vars
BY DEF Promise!vars

\* The steps of the requests, and the others that end no round.
LEMMA RowsImplemented ==
    ASSUME IInv, IInv', RowsKept, NEW e \in Ids, UNCHANGED <<calls[e], taken[e]>>
    PROVE  [Promise(e)!Next]_(Promise(e)!vars)
<1>1. CASE Exists(e)
  <2>1. State(e)' = State(e)
    BY <1>1 DEF RowsKept, Exists, State
  <2> QED
    BY <2>1, Stutters
<1>2. CASE ~Exists(e) /\ ~Exists(e)'
  <2>1. State(e)' = State(e)
    BY <1>2 DEF State
  <2> QED
    BY <2>1, Stutters
<1>3. CASE ~Exists(e) /\ Exists(e)'
  <2>1. outbox'[e].status = "pending" /\ outbox'[e].attempt_count = 0
    BY <1>3 DEF RowsKept, Exists
  <2>2. State(e) = "absent"
    BY <1>3 DEF State
  <2>3. State(e)' = "open"
    BY <1>3, <2>1, ConstantsAssumption DEF State
  <2>4. Promise(e)!Enqueue
    BY <2>2, <2>3 DEF Promise!Enqueue
  <2> QED
    BY <2>4 DEF Promise!Next
<1> QED
  BY <1>1, <1>2, <1>3

\* An event that a round has marked is open, whatever the mark.
LEMMA MarkedIsOpen ==
    ASSUME IInv, NEW w \in Workers, NEW e \in Marked(w) \ shared
    PROVE  /\ e \in Ids /\ Exists(e) /\ State(e) = "open"
           /\ outbox[e].attempt_count \in 0 .. MaxAttempts - 1
           /\ calls[e] = outbox[e].attempt_count + 1
           /\ taken[e] = One(round[w].marked[e].status)
           /\ round[w].marked[e].attempt_count = outbox[e].attempt_count + 1
           /\ round[w].marked[e].status \in {"dispatched", "failed"}
<1>1. e \in Ids /\ Exists(e) /\ Counted(e) /\ round[w].marked[e] \in Mark
  BY Rounds DEF Exists, IInv, TypeOK
<1>2. /\ outbox[e].status # "dispatched"
      /\ round[w].marked[e].attempt_count = outbox[e].attempt_count + 1
      /\ calls[e] = outbox[e].attempt_count + 1
      /\ taken[e] = One(round[w].marked[e].status)
  BY <1>1 DEF Counted
<1>3. round[w].marked[e].attempt_count \in 1 .. MaxAttempts
      /\ round[w].marked[e].status \in {"dispatched", "failed"}
  BY <1>1 DEF Mark
<1>4. outbox[e].attempt_count \in 0 .. MaxAttempts - 1
  BY <1>1, <1>2, <1>3, StateOf, ConstantsAssumption DEF IInv
<1>5. State(e) = "open"
  BY <1>1, <1>2, <1>4, StateOf, ConstantsAssumption DEF IInv
<1> QED
  BY <1>1, <1>2, <1>3, <1>4, <1>5

LEMMA PostImplemented ==
    ASSUME IInv, IInv', NEW w \in Workers, DispatchEvent(w), NEW f \in Ids \ shared'
    PROVE  [Promise(f)!Next]_(Promise(f)!vars)
<1> DEFINE e == Min(round[w].todo)
<1>1. e \in round[w].todo /\ e \in Ids /\ Exists(e)
  BY Rounds, MinIn DEF DispatchEvent, Exists
<1>2. /\ shared' = IF Overlaps(w, e) THEN shared \cup {e} ELSE shared
      /\ calls' = IF e \in shared' THEN calls ELSE [calls EXCEPT ![e] = @ + 1]
      /\ \E status \in {"dispatched", "failed"} :
            taken' = IF e \in shared' \/ status = "failed" THEN taken
                     ELSE [taken EXCEPT ![e] = @ + 1]
      /\ UNCHANGED outbox
  BY DEF DispatchEvent, table
<1> HIDE DEF e
<1>3. calls \in [Ids -> Nat] /\ taken \in [Ids -> Nat] /\ f \notin shared
  BY <1>2 DEF IInv, TypeOK
<1>4. State(f)' = State(f)
  BY <1>2 DEF State, Exists
<1>5. CASE f # e
  <2>1. calls'[f] = calls[f] /\ taken'[f] = taken[f]
    BY <1>2, <1>3, <1>5
  <2> QED
    BY <1>4, <2>1, Stutters
<1>6. CASE f = e
  <2>1. /\ outbox[e].attempt_count = round[w].loaded[e]
        /\ \A v \in Workers \ {w} : e \notin Marked(v)
    BY <1>2, <1>6 DEF Overlaps, InHand
  <2>2. e \notin Marked(w) /\ round[w].loaded[e] \in 0 .. MaxAttempts - 1
    BY <1>1 DEF IInv, WellRead
  <2>3. outbox[e].status # "dispatched" /\ calls[e] = outbox[e].attempt_count
    BY <1>1, <1>3, <1>6, <2>1, <2>2 DEF IInv, Counted, Exists
  <2>4. State(e) = "open" /\ calls[e] < MaxAttempts
    BY <1>1, <2>1, <2>2, <2>3, StateOf, ConstantsAssumption DEF IInv
  <2>5. calls'[e] = calls[e] + 1 /\ taken'[e] \in Nat /\ taken'[e] >= taken[e]
    BY <1>2, <1>3, <1>6
  <2>6. (taken[e] > 0) => (taken'[e] > 0)
    BY <1>1, <1>3, <2>5
  <2>7. (taken'[e] > 0) \in BOOLEAN
    OBVIOUS
  <2>8. Promise(f)!Post
    BY <1>4, <1>6, <2>4, <2>5, <2>6, <2>7 DEF Promise!Post
  <2> QED
    BY <2>8 DEF Promise!Next
<1> QED
  BY <1>5, <1>6

LEMMA CommitImplemented ==
    ASSUME IInv, IInv', NEW w \in Workers, CommitRound(w), NEW e \in Ids \ shared'
    PROVE  [Promise(e)!Next]_(Promise(e)!vars)
<1>1. /\ outbox' = [f \in DOMAIN outbox |->
                      IF f \in Marked(w)
                      THEN [outbox[f] EXCEPT
                              !.status = round[w].marked[f].status,
                              !.attempt_count = round[w].marked[f].attempt_count]
                      ELSE outbox[f]]
      /\ UNCHANGED <<calls, taken, shared>>
  BY DEF CommitRound, history
<1>2. CASE e \notin Marked(w)
  <2>1. State(e)' = State(e)
    BY <1>1, <1>2 DEF State, Exists
  <2> QED
    BY <1>1, <2>1, Stutters
<1>3. CASE e \in Marked(w)
  <2>1. /\ Exists(e) /\ State(e) = "open"
        /\ outbox[e].attempt_count \in 0 .. MaxAttempts - 1
        /\ calls[e] = outbox[e].attempt_count + 1
        /\ taken[e] = One(round[w].marked[e].status)
        /\ round[w].marked[e].attempt_count = outbox[e].attempt_count + 1
        /\ round[w].marked[e].status \in {"dispatched", "failed"}
    BY <1>1, <1>3, MarkedIsOpen
  <2>2. outbox[e] \in Row
    BY <2>1 DEF IInv, TypeOK, Exists
  <2>3. /\ Exists(e)'
        /\ outbox'[e].status = round[w].marked[e].status
        /\ outbox'[e].attempt_count = round[w].marked[e].attempt_count
    BY <1>1, <1>3, <2>1, <2>2 DEF Exists, Row
  <2>4. CASE round[w].marked[e].status = "dispatched"
    <3>1. State(e)' = "delivered" /\ taken[e] > 0
      BY <2>1, <2>3, <2>4 DEF State, One
    <3>2. Promise(e)!Deliver
      BY <1>1, <2>1, <3>1 DEF Promise!Deliver
    <3> QED
      BY <3>2 DEF Promise!Next
  <2>5. CASE round[w].marked[e].status = "failed" /\ calls[e] = MaxAttempts
    <3>1. State(e)' = "abandoned"
      BY <2>1, <2>3, <2>5 DEF State
    <3>2. Promise(e)!Abandon
      BY <1>1, <2>1, <2>5, <3>1 DEF Promise!Abandon
    <3> QED
      BY <3>2 DEF Promise!Next
  <2>6. CASE round[w].marked[e].status = "failed" /\ calls[e] # MaxAttempts
    <3>1. State(e)' = "open"
      BY <2>1, <2>3, <2>6 DEF State
    <3> QED
      BY <1>1, <2>1, <3>1, Stutters
  <2> QED
    BY <2>1, <2>4, <2>5, <2>6
<1> QED
  BY <1>2, <1>3

LEMMA CrashImplemented ==
    ASSUME IInv, IInv', NEW w \in Workers, Crash(w), NEW e \in Ids \ shared'
    PROVE  [Promise(e)!Next]_(Promise(e)!vars)
<1>1. /\ calls'[e] = IF Forgets(w, e) THEN calls[e] - 1 ELSE calls[e]
      /\ taken'[e] = IF Forgets(w, e) /\ round[w].marked[e].status = "dispatched"
                     THEN taken[e] - 1 ELSE taken[e]
      /\ UNCHANGED <<outbox, shared>>
  BY DEF Crash, table
<1>2. State(e)' = State(e)
  BY <1>1 DEF State, Exists
<1>3. CASE Forgets(w, e)
  <2>1. /\ State(e) = "open" /\ outbox[e].attempt_count \in 0 .. MaxAttempts - 1
        /\ calls[e] = outbox[e].attempt_count + 1
        /\ taken[e] = One(round[w].marked[e].status)
    BY <1>3, MarkedIsOpen DEF Forgets
  <2>2. calls[e] > 0 /\ calls'[e] = calls[e] - 1
    BY <1>1, <1>3, <2>1, ConstantsAssumption
  <2>3. (taken'[e] > 0) = FALSE
    BY <1>1, <1>3, <2>1 DEF One
  <2>4. Promise(e)!Forget
    BY <1>2, <2>1, <2>2, <2>3 DEF Promise!Forget
  <2> QED
    BY <2>4 DEF Promise!Next
<1>4. CASE ~Forgets(w, e)
  BY <1>1, <1>2, <1>4, Stutters
<1> QED
  BY <1>3, <1>4

Implemented(e) == [Promise(e)!Next]_(Promise(e)!vars)

LEMMA StepImplemented ==
    ASSUME IInv, IInv', Next, NEW e \in Ids \ shared'
    PROVE  Implemented(e)
<1>1. ASSUME RowsKept, UNCHANGED <<calls[e], taken[e]>> PROVE Implemented(e)
  BY <1>1, RowsImplemented DEF Implemented
<1>2. active \subseteq Users
  BY RequestTypes
<1>3. CASE UserRegistered \/ MaterialSubmitted \/ ProposalCreated
  <2>1. PICK recipients \in SUBSET Users : Announce(recipients)
    BY <1>2, <1>3, Recipients DEF UserRegistered, MaterialSubmitted, ProposalCreated
  <2>2. UNCHANGED <<calls, taken>>
    BY <2>1 DEF Announce, history
  <2> QED
    BY <1>1, <2>1, <2>2, AnnounceStep
<1>4. ASSUME NEW r \in Requests, NEW m \in Materials,
             OwnerEvent(r, m) \/ ProposalOwnerEvent(r, m) \/ AccountEvent(r, m)
      PROVE  Implemented(e)
  <2>1. PICK recipients \in SUBSET Users : CreateEvent(r, m, recipients)
    BY <1>2, <1>4, Recipients DEF OwnerEvent, ProposalOwnerEvent, AccountEvent
  <2>2. UNCHANGED <<calls, taken>>
    BY <2>1 DEF CreateEvent, history
  <2> QED
    BY <1>1, <2>1, <2>2, CreateStep
<1>5. ASSUME NEW r \in Requests, CommitRequest(r) \/ RollBack(r)
      PROVE  Implemented(e)
  <2>1. UNCHANGED <<calls, taken>>
    BY <1>5 DEF CommitRequest, RollBack, history
  <2> QED
    BY <1>1, <1>5, <2>1, EndRequestStep
<1>6. ASSUME NEW u \in Users, SetActive(u)
      PROVE  Implemented(e)
  <2>1. UNCHANGED <<calls, taken>>
    BY <1>6 DEF SetActive, history
  <2> QED
    BY <1>1, <1>6, <2>1, ActiveStep
<1>7. ASSUME NEW w \in Workers, WorkerStep(w) \/ Crash(w)
      PROVE  Implemented(e)
  <2>1. CASE ListPending(w)
    <3>1. RowsKept /\ UNCHANGED <<calls, taken>>
      BY <2>1 DEF ListPending, table, history, RowsKept, Exists
    <3> QED
      BY <1>1, <3>1
  <2> QED
    BY <1>7, <2>1, PostImplemented, CommitImplemented, CrashImplemented
       DEF WorkerStep, Implemented
<1> QED
  BY <1>3, <1>4, <1>5, <1>6, <1>7 DEF Next

\* As long as no two rounds have an event in hand at a time, the workers
\* implement Delivery for it: the marks of a round, its one commit and a worker
\* that dies before it look, from each event, like single steps.
THEOREM EventsDeliver == Spec => DeliversUnlessShared
<1>1. Init => \A e \in Ids : Promise(e)!Init
  <2> SUFFICES ASSUME Init, NEW e \in Ids PROVE Promise(e)!Init
    OBVIOUS
  <2>1. ~Exists(e) /\ calls[e] = 0 /\ taken[e] = 0
    BY DEF Init, Exists
  <2> QED
    BY <2>1 DEF Promise!Init, State
<1>2. IInv /\ IInv' /\ [Next]_vars
        => [\A e \in Ids \ shared' : [Promise(e)!Next]_(Promise(e)!vars)]_vars
  BY StepImplemented DEF Implemented
<1> QED
  BY <1>1, <1>2, Invariance, PTL DEF Spec, DeliversUnlessShared
=============================================================================
