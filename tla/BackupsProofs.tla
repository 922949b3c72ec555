---------------------------- MODULE BackupsProofs ----------------------------
(***************************************************************************)
(* Proofs about Backups for any number of processes and backups, and any   *)
(* retention; and, in the second part of the module, about                 *)
(* SecurityControls, with which Backups shares nothing.                    *)
(*                                                                         *)
(* What a process read stays true although the files change under it: the  *)
(* history made[i] is written once, and every manifest, record and dump of *)
(* the backup i that is left says the same as made[i] (Described, Sound).  *)
(* What is deleted had enough newer backups when it was listed, and their  *)
(* number only grows (Newer).                                              *)
(***************************************************************************)
EXTENDS Backups, SecurityControls, FiniteSetTheorems, TLAPS

Making == {"dump", "manifest"}

WithId == {"dump", "manifest", "upload", "put", "pruneOffsite"}

ToList == {"upload", "put", "pruneOffsite", "list"}

Restoring == {"drop", "create", "restore", "filtered"}

Kept == Max({RetentionLocal, 1})

\* The backups after i that were completed at some time.
Newer(i) == {j \in Ids : j > i /\ made[j] # Missing}

\* What is left of a backup agrees with what was made, and all is left of it
\* unless enough were made after it.
Described(i) ==
    /\ local[i].sum # Missing => local[i].sum = made[i]
    /\ offsite[i].sum # Missing => offsite[i].sum = made[i]
    /\ made[i] # Missing =>
          /\ i <= lastId
          /\ local[i].dump \in {Missing, made[i]}
          /\ Intact(i) \/ Cardinality(Newer(i)) >= Kept

\* What a process has read and checked.
Sound(p) ==
    /\ job[p].pc \in WithId => job[p].id \in 1 .. lastId
    /\ job[p].pc \in Making => made[job[p].id] = Missing
    /\ job[p].pc \in Restoring \cup {"prepare"} => job[p].target # 0
    /\ job[p].target # 0 =>
          made[job[p].target] # Missing /\ job[p].record.sum = made[job[p].target]
    /\ job[p].pc \notin Restoring => job[p].temp = Missing
    /\ job[p].temp # Missing => job[p].temp = job[p].record.sum
    /\ job[p].pc \notin {"prune", "unlink"} => job[p].stale = {}
    /\ job[p].pc = "unlink" => job[p].stale # {}
    /\ \A i \in job[p].stale : Cardinality(Newer(i)) >= Kept

\* No two processes make the same backup.
Exclusive ==
    \A p, q \in Procs :
        p # q /\ job[p].pc \in Making /\ job[q].pc \in Making => job[p].id # job[q].id

\* The manifests that no process is about to delete.
Remaining == {i \in LocalManifests : \A p \in Procs : i \notin job[p].stale}

\* Between a manifest and the listing that follows it there may be more.
Retained ==
    (~failed /\ \A p \in Procs : job[p].pc \notin ToList) => Cardinality(Remaining) <= Kept

\* SourceHeld, of one process.
Held(p) ==
    job[p].pc \in Restoring => Source(p) = job[p].record.sum \/ job[p].pulled

IInv ==
    /\ TypeOK
    /\ \A i \in Ids : Described(i)
    /\ \A p \in Procs : Sound(p)
    /\ Exclusive
    /\ \A p \in Procs : Held(p)
    /\ ~mismatch
    /\ Retained

-----------------------------------------------------------------------------
(* Greatest and least elements, and what a retention keeps.                *)

LEMMA Greatest ==
    ASSUME NEW n \in Nat, NEW S, S \subseteq 1 .. n, S # {}
    PROVE  \E x \in S : \A y \in S : x >= y
<1> DEFINE Above(x) == {y \in S : y > x}
           R == StrictSubsetOrdering(1 .. n)
           T == {Above(x) : x \in S}
<1>1. IsFiniteSet(1 .. n)
  BY FS_Interval
<1>2. IsWellFoundedOn(R, FiniteSubsetsOf(1 .. n))
  BY FS_StrictSubsetOrderingWellFounded
<1>3. T # {} /\ T \subseteq FiniteSubsetsOf(1 .. n)
  <2>1. \A x \in S : Above(x) \in FiniteSubsetsOf(1 .. n)
    <3> TAKE x \in S
    <3>1. Above(x) \subseteq 1 .. n
      OBVIOUS
    <3> QED
      BY <1>1, <3>1, FS_Subset DEF FiniteSubsetsOf
  <2> HIDE DEF Above
  <2> QED
    BY <2>1
<1>4. PICK A \in T : \A B \in T : ~ (<<B, A>> \in R)
  <2> HIDE DEF T, R
  <2> QED
    BY <1>2, <1>3, WFMin
<1>5. PICK x \in S : A = Above(x)
  BY <1>4
<1>6. ASSUME NEW y \in S, y > x PROVE FALSE
  <2>1. Above(y) \in T /\ y \in Above(x) /\ y \notin Above(y)
    BY <1>6
  <2>2. Above(y) \subseteq Above(x)
    <3>1. x \in Int /\ y \in Int
      OBVIOUS
    <3>2. ASSUME NEW z \in S, z > y PROVE z > x
      <4>1. z \in Int
        OBVIOUS
      <4> QED
        BY <1>6, <3>1, <3>2, <4>1
    <3> QED
      BY <3>2
  <2>3. Above(y) \subseteq 1 .. n /\ Above(x) \subseteq 1 .. n
    OBVIOUS
  <2> QED
    BY <2>1, <2>2, <2>3, <1>4, <1>5 DEF StrictSubsetOrdering
<1> QED
  BY <1>6

LEMMA Least ==
    ASSUME NEW n \in Nat, NEW S, S \subseteq 1 .. n, S # {}
    PROVE  \E x \in S : \A y \in S : x <= y
<1> DEFINE T == {x \in 1 .. n : n + 1 - x \in S}
<1>1. \A x \in S : n + 1 - x \in T /\ n + 1 - (n + 1 - x) = x
  OBVIOUS
<1>2. T \subseteq 1 .. n /\ T # {}
  BY <1>1
<1>3. PICK g \in T : \A y \in T : g >= y
  <2> HIDE DEF T
  <2> QED
    BY <1>2, Greatest
<1>4. ASSUME NEW y \in S PROVE n + 1 - g <= y
  <2>1. g >= n + 1 - y
    BY <1>1, <1>3
  <2>2. g \in Int /\ y \in Int
    BY <1>2
  <2> QED
    BY <2>1, <2>2
<1> QED
  BY <1>3, <1>4

LEMMA MaxIn ==
    ASSUME NEW S, S \subseteq Ids, S # {}
    PROVE  Max(S) \in S
<1>1. \E x \in S : \A y \in S : x >= y
  BY Greatest, ConstantsAssumption DEF Ids
<1> QED
  BY <1>1 DEF Max

LEMMA KeptType == Kept \in Nat /\ Kept >= 1
<1>1. RetentionLocal \in Nat
  BY ConstantsAssumption
<1>2. \E x \in {RetentionLocal, 1} : \A y \in {RetentionLocal, 1} : x >= y
  <2>1. CASE RetentionLocal >= 1
    BY <1>1, <2>1
  <2>2. CASE ~(RetentionLocal >= 1)
    BY <1>1, <2>2
  <2> QED
    BY <2>1, <2>2
<1>3. Kept \in {RetentionLocal, 1} /\ Kept >= 1
  BY <1>2 DEF Kept, Max
<1> QED
  BY <1>1, <1>3

LEMMA FiniteIds ==
    ASSUME NEW S, S \subseteq Ids
    PROVE  IsFiniteSet(S) /\ Cardinality(S) \in Nat
<1>1. IsFiniteSet(1 .. MaxBackups)
  BY FS_Interval, ConstantsAssumption
<1>2. IsFiniteSet(S)
  BY <1>1, FS_Subset DEF Ids
<1> QED
  BY <1>2, FS_CardinalityType

\* The slice after the newest ones leaves no more than the retention.
LEMMA KeepsFew ==
    ASSUME NEW S, S \subseteq Ids
    PROVE  Cardinality(S \ Beyond(S, RetentionLocal)) <= Kept
<1> DEFINE T == S \ Beyond(S, RetentionLocal)
           After(m) == {j \in S : j > m}
<1>1. T \subseteq S /\ IsFiniteSet(T) /\ Cardinality(T) \in Nat
  BY FiniteIds
<1>2. CASE T = {}
  BY <1>2, FS_EmptySet, KeptType
<1>3. CASE T # {}
  <2>1. PICK m \in T : \A y \in T : m <= y
    BY <1>1, <1>3, Least, ConstantsAssumption DEF Ids
  <2>2. ~(Cardinality(After(m)) >= Kept)
    BY <2>1 DEF Beyond, Kept
  <2>3. T \ {m} \subseteq After(m)
    <3>1. S \subseteq Int
      BY DEF Ids
    <3>2. ASSUME NEW y \in T, y # m PROVE y > m
      <4>1. m <= y /\ m \in Int /\ y \in Int
        BY <1>1, <2>1, <3>1
      <4> QED
        BY <3>2, <4>1
    <3> QED
      BY <1>1, <3>2
  <2>4. IsFiniteSet(After(m)) /\ Cardinality(After(m)) \in Nat
    BY FiniteIds
  <2>5. Cardinality(T \ {m}) <= Cardinality(After(m))
    BY <2>3, <2>4, FS_Subset
  <2>6. Cardinality(T \ {m}) = Cardinality(T) - 1
    BY <1>1, <2>1, FS_RemoveElement
  <2> HIDE DEF T, After
  <2> QED
    BY <1>1, <2>2, <2>4, <2>5, <2>6, KeptType DEF T
<1> QED
  BY <1>2, <1>3

-----------------------------------------------------------------------------
(* What a step of one process leaves true of the others.                   *)

Only(p) == \A q \in Procs \ {p} : job'[q] = job[q]

\* A backup that is completed stays what it is.
MadeKept == \A i \in Ids : made[i] # Missing => made'[i] = made[i]

LEMMA NewerGrows ==
    ASSUME MadeKept, NEW i
    PROVE  /\ Cardinality(Newer(i)) \in Nat /\ Cardinality(Newer(i)') \in Nat
           /\ Cardinality(Newer(i)) >= Kept => Cardinality(Newer(i)') >= Kept
<1>1. Newer(i) \subseteq Ids /\ Newer(i)' \subseteq Ids /\ Newer(i) \subseteq Newer(i)'
  BY DEF Newer, MadeKept
<1>2. IsFiniteSet(Newer(i)') /\ Cardinality(Newer(i)') \in Nat /\ Cardinality(Newer(i)) \in Nat
  BY <1>1, FiniteIds
<1>3. Cardinality(Newer(i)) <= Cardinality(Newer(i)')
  BY <1>1, <1>2, FS_Subset
<1> QED
  BY <1>2, <1>3, KeptType

LEMMA Assign ==
    ASSUME TypeOK, NEW p \in Procs, NEW j \in Job, job' = [job EXCEPT ![p] = j]
    PROVE  job' \in [Procs -> Job] /\ job'[p] = j /\ Only(p)
BY DEF TypeOK, Only

\* The other processes find made[i] as it was, and need no more.
LEMMA SoundKept ==
    ASSUME TypeOK, MadeKept, NEW q \in Procs, Sound(q),
           job'[q] \in {job[q], [job[q] EXCEPT !.pulled = TRUE]},
           lastId' \in Nat, lastId' >= lastId,
           job[q].pc \in Making => made'[job[q].id] = made[job[q].id]
    PROVE  Sound(q)'
<1>1. job[q] \in Job /\ lastId \in Nat
  BY DEF TypeOK
<1>2. /\ job'[q].pc = job[q].pc /\ job'[q].id = job[q].id
      /\ job'[q].target = job[q].target /\ job'[q].record = job[q].record
      /\ job'[q].temp = job[q].temp /\ job'[q].stale = job[q].stale
  BY <1>1 DEF Job
<1>3. job[q].pc \in WithId => job[q].id \in 1 .. lastId'
  BY <1>1 DEF Sound
<1>4. \A i \in job[q].stale : Cardinality(Newer(i)') >= Kept
  BY NewerGrows DEF Sound
<1>5. job[q].target # 0 => job[q].target \in Ids
  BY <1>1, ConstantsAssumption DEF Job, Ids
<1> QED
  BY <1>2, <1>3, <1>4, <1>5 DEF Sound, MadeKept

LEMMA DescribedKept ==
    ASSUME TypeOK, UNCHANGED <<local, offsite, made>>,
           lastId' \in Nat, lastId' >= lastId, NEW i \in Ids, Described(i)
    PROVE  Described(i)'
<1>1. i \in Int /\ lastId \in Int /\ lastId' \in Int
  BY DEF TypeOK, Ids
<1>2. Newer(i)' = Newer(i) /\ Intact(i)' = Intact(i)
  BY DEF Newer, Intact
<1> QED
  BY <1>1, <1>2 DEF Described

LEMMA RetainedKept ==
    ASSUME Retained, failed \in BOOLEAN, failed' = failed \/ failed' = TRUE,
           \A q \in Procs : job[q].pc \in ToList => job'[q].pc \in ToList,
           \A i \in Remaining' : i \in Remaining
    PROVE  Retained'
<1>1. IsFiniteSet(Remaining) /\ Cardinality(Remaining) \in Nat
  BY FiniteIds DEF Remaining, LocalManifests
<1>2. Cardinality(Remaining') <= Cardinality(Remaining) /\ Cardinality(Remaining') \in Nat
  BY <1>1, FS_Subset, FS_CardinalityType
<1>3. Cardinality(Remaining) <= Kept => Cardinality(Remaining') <= Kept
  BY <1>1, <1>2, KeptType
<1> QED
  BY <1>3 DEF Retained

\* A step of one process that touches no file.
LEMMA AloneStep ==
    ASSUME IInv, NEW p \in Procs, NEW j \in Job, job' = [job EXCEPT ![p] = j],
           UNCHANGED <<local, offsite, made>>,
           lastId' \in 0 .. MaxBackups, lastId' >= lastId,
           database' \in Content, failed' \in BOOLEAN, mismatch' = FALSE,
           Sound(p)', Held(p)', j.pc \in Making => j.id > lastId,
           Retained'
    PROVE  IInv'
<1> USE DEF IInv
<1>1. job' \in [Procs -> Job] /\ job'[p] = j /\ Only(p)
  BY Assign
<1>2. TypeOK'
  BY <1>1 DEF TypeOK
<1>3. lastId \in Nat /\ lastId' \in Nat
  BY DEF TypeOK
<1>4. \A i \in Ids : Described(i)'
  BY <1>3, DescribedKept
<1>5. \A q \in Procs : Sound(q)'
  BY <1>1, <1>3, SoundKept DEF MadeKept, Only
<1>6. Exclusive'
  <2>1. \A q \in Procs \ {p} : job'[q] = job[q] /\ (job[q].pc \in Making => job[q].id <= lastId)
    BY <1>1, <1>3 DEF Only, Sound, Making, WithId
  <2>2. \A q \in Procs \ {p} : job[q].pc \in Making /\ j.pc \in Making => job[q].id # j.id
    <3> TAKE q \in Procs \ {p}
    <3>1. job[q].id \in Int /\ j.id \in Int
      BY DEF TypeOK, Job
    <3> QED
      BY <1>3, <2>1, <3>1
  <2> QED
    BY <1>1, <2>1, <2>2 DEF Exclusive
<1>7. \A q \in Procs : Held(q)'
  BY <1>1 DEF Held, Source, Only
<1> QED
  BY <1>2, <1>4, <1>5, <1>6, <1>7

-----------------------------------------------------------------------------
(* The steps that touch no file.                                           *)

LEMMA NoJobFacts ==
    /\ NoJob \in Job /\ NoJob.pc = "idle" /\ NoJob.id = 0 /\ NoJob.target = 0
    /\ NoJob.record = NoRecord /\ NoJob.temp = Missing /\ NoJob.stale = {}
    /\ NoJob.pulled = FALSE
    /\ NoRecord \in Record
BY ConstantsAssumption DEF NoJob, Job, NoRecord, Record, Content, Missing

LEMMA ListBackupsFacts ==
    ASSUME IInv, NEW s3 \in BOOLEAN, NEW i \in DOMAIN ListBackups(s3)
    PROVE  /\ i \in Ids /\ i # 0 /\ i \in 0 .. MaxBackups
           /\ ListBackups(s3)[i] \in Record
           /\ made[i] # Missing /\ ListBackups(s3)[i].sum = made[i]
<1> DEFINE remote == IF OffsiteEnabled /\ s3 THEN OffsiteManifests ELSE {}
           m == IF i \in LocalManifests THEN local[i] ELSE offsite[i]
<1>1. i \in LocalManifests \cup remote
  BY DEF ListBackups
<1>2. /\ ListBackups(s3)[i].sum = m.sum
      /\ ListBackups(s3)[i] =
           [sum |-> m.sum, key |-> m.key,
            available_local |-> local[i].dump # Missing,
            available_offsite |-> OffsiteEnabled /\ (i \in remote \/ m.key)]
  BY <1>1 DEF ListBackups
<1>3. i \in Ids /\ i # 0 /\ i \in 0 .. MaxBackups
  BY <1>1, ConstantsAssumption DEF LocalManifests, OffsiteManifests, Ids
<1>4. m \in Files
  BY <1>3 DEF IInv, TypeOK
<1>5. ListBackups(s3)[i] \in Record
  BY <1>2, <1>4 DEF Files, Record
<1>6. m.sum # Missing
  BY <1>1 DEF LocalManifests, OffsiteManifests
<1>7. m.sum = made[i]
  BY <1>3, <1>6 DEF IInv, Described
<1> QED
  BY <1>2, <1>3, <1>5, <1>6, <1>7

\* Manifests, listings and files are as they were: so is what remains.
LEMMA RemainingKept ==
    ASSUME IInv, NEW p \in Procs, Only(p), UNCHANGED local,
           failed' = failed \/ failed' = TRUE,
           job[p].pc \in ToList => job'[p].pc \in ToList,
           job[p].stale = {} \/ job[p].stale \subseteq job'[p].stale
    PROVE  Retained'
<1>1. \A i \in Remaining' : i \in Remaining
  BY DEF Remaining, LocalManifests, Only
<1>2. \A q \in Procs : job[q].pc \in ToList => job'[q].pc \in ToList
  BY DEF Only
<1> QED
  BY <1>1, <1>2, RetainedKept DEF IInv, TypeOK

LEMMA StartStep ==
    ASSUME IInv, NEW p \in Procs, job[p].pc = "idle",
           NEW target \in 0 .. MaxBackups, NEW record \in Record,
           target # 0 => made[target] # Missing /\ record.sum = made[target],
           StartBackup(p, target, record)
    PROVE  IInv'
<1> DEFINE j == [NoJob EXCEPT !.pc = "dump", !.id = lastId + 1,
                              !.target = target, !.record = record]
<1>1. lastId \in Nat /\ lastId < MaxBackups /\ lastId' = lastId + 1
  BY DEF StartBackup, IInv, TypeOK
<1>2. lastId + 1 \in Ids /\ lastId + 1 \in 0 .. MaxBackups
  BY <1>1, ConstantsAssumption DEF Ids
<1>3. /\ j \in Job /\ j.pc = "dump" /\ j.id = lastId + 1 /\ j.target = target
      /\ j.record = record /\ j.temp = Missing /\ j.stale = {}
  BY <1>2, NoJobFacts DEF NoJob, Job
<1>4. job' = [job EXCEPT ![p] = j]
      /\ UNCHANGED <<database, local, offsite, made, failed, mismatch>>
  BY DEF StartBackup
<1> HIDE DEF j
<1>5. job'[p] = j /\ Only(p)
  BY <1>3, <1>4, Assign DEF IInv
<1>6. made[lastId + 1] = Missing
  BY <1>1, <1>2 DEF IInv, Described
<1>7. Sound(p)'
  <2>1. lastId + 1 \in 1 .. lastId'
    BY <1>1
  <2> QED
    BY <1>3, <1>4, <1>5, <1>6, <2>1 DEF Sound, WithId, Making, Restoring
<1>8. Held(p)'
  BY <1>3, <1>5 DEF Held, Restoring
<1>9. job[p].pc \notin ToList /\ job[p].stale = {}
  BY DEF ToList, IInv, Sound
<1>10. Retained'
  BY <1>4, <1>5, <1>9, RemainingKept
<1>11. /\ lastId' \in 0 .. MaxBackups /\ lastId' >= lastId /\ j.id > lastId
       /\ database' \in Content /\ failed' \in BOOLEAN /\ mismatch' = FALSE
  BY <1>1, <1>2, <1>3, <1>4 DEF IInv, TypeOK
<1> QED
  BY <1>3, <1>4, <1>7, <1>8, <1>10, <1>11, AloneStep

LEMMA EndStep ==
    ASSUME IInv, NEW p \in Procs, job' = [job EXCEPT ![p] = NoJob],
           UNCHANGED <<local, offsite, made, lastId>>,
           database' \in Content, mismatch' = FALSE,
           \/ failed' = TRUE
           \/ failed' = failed /\ job[p].pc \notin ToList /\ job[p].stale = {}
    PROVE  IInv'
<1>1. job'[p] = NoJob /\ Only(p)
  BY NoJobFacts, Assign DEF IInv
<1>2. Sound(p)' /\ Held(p)'
  BY <1>1, NoJobFacts DEF Sound, Held, WithId, Making, Restoring
<1>3. Retained'
  <2>1. CASE failed' = TRUE
    BY <2>1 DEF Retained
  <2>2. CASE failed' = failed /\ job[p].pc \notin ToList /\ job[p].stale = {}
    BY <1>1, <2>2, RemainingKept
  <2> QED
    BY <2>1, <2>2
<1>4. lastId' \in 0 .. MaxBackups /\ lastId' >= lastId /\ failed' \in BOOLEAN
  <2>1. failed \in BOOLEAN /\ lastId \in 0 .. MaxBackups
    BY DEF IInv, TypeOK
  <2>2. failed' \in BOOLEAN
    BY <2>1, Zenon
  <2>3. lastId' \in 0 .. MaxBackups /\ lastId' >= lastId
    BY <2>1
  <2> QED
    BY <2>2, <2>3
<1>5. NoJob.pc \notin Making
  BY NoJobFacts DEF Making
<1> QED
  BY <1>2, <1>3, <1>4, <1>5, NoJobFacts, AloneStep

\* A process goes on to another step, with all it has.
LEMMA GoStep ==
    ASSUME IInv, NEW p \in Procs, NEW step,
           [job[p] EXCEPT !.pc = step] \in Job,
           Goto(p, step), step \notin WithId,
           UNCHANGED <<local, offsite, made, lastId, failed, mismatch>>,
           database' \in Content,
           job[p].pc \notin ToList,
           job[p].stale = {}, step # "unlink",
           step \in Restoring \cup {"prepare"} => job[p].target # 0,
           step \notin Restoring => job[p].temp = Missing,
           step \in Restoring => Source(p) = job[p].record.sum \/ job[p].pulled
    PROVE  IInv'
<1> DEFINE j == [job[p] EXCEPT !.pc = step]
<1>1. job[p] \in Job /\ Sound(p)
  BY DEF IInv, TypeOK
<1>2. /\ j \in Job /\ j.pc = step /\ j.id = job[p].id /\ j.target = job[p].target
      /\ j.record = job[p].record /\ j.temp = job[p].temp /\ j.stale = job[p].stale
      /\ j.pulled = job[p].pulled
  BY <1>1 DEF Job
<1>3. job' = [job EXCEPT ![p] = j]
  BY DEF Goto
<1> HIDE DEF j
<1>4. job'[p] = j /\ Only(p)
  BY <1>2, <1>3, Assign DEF IInv
<1>5. Sound(p)'
  BY <1>1, <1>2, <1>4 DEF Sound, Making, WithId
<1>6. Held(p)'
  BY <1>2, <1>4 DEF Held, Source
<1>7. Retained'
  BY <1>2, <1>4, RemainingKept
<1>8. /\ lastId' \in 0 .. MaxBackups /\ lastId' >= lastId /\ failed' \in BOOLEAN
      /\ mismatch' = FALSE /\ j.pc \notin Making
  BY <1>2 DEF IInv, TypeOK, Making, WithId
<1> QED
  BY <1>2, <1>3, <1>5, <1>6, <1>7, <1>8, AloneStep

LEMMA BeginSteps ==
    ASSUME IInv, NEW p \in Procs,
           \/ CreateBackup(p) \/ ScheduledBackup(p) \/ RestoreBackup(p)
    PROVE  IInv'
<1>1. CASE CreateBackup(p) \/ ScheduledBackup(p)
  BY <1>1, StartStep, NoJobFacts, ConstantsAssumption DEF CreateBackup, ScheduledBackup, At
<1>2. CASE RestoreBackup(p)
  <2>1. PICK s3 \in BOOLEAN : \E i \in DOMAIN ListBackups(s3) :
          StartBackup(p, i, ListBackups(s3)[i])
    BY <1>2 DEF RestoreBackup
  <2>2. PICK i \in DOMAIN ListBackups(s3) : StartBackup(p, i, ListBackups(s3)[i])
    BY <2>1
  <2> QED
    BY <1>2, <2>2, StartStep, ListBackupsFacts DEF RestoreBackup, At
<1> QED
  BY <1>1, <1>2

LEMMA ManualStep ==
    ASSUME IInv, NEW p \in Procs, ManualRestore(p)
    PROVE  IInv'
<1>0. PICK s3 \in BOOLEAN : \E i \in DOMAIN ListBackups(s3) :
        job' = [job EXCEPT ![p] = [NoJob EXCEPT !.pc = "prepare", !.target = i,
                                                !.record = ListBackups(s3)[i]]]
  BY DEF ManualRestore
<1>1. PICK i \in DOMAIN ListBackups(s3) :
        job' = [job EXCEPT ![p] = [NoJob EXCEPT !.pc = "prepare", !.target = i,
                                                !.record = ListBackups(s3)[i]]]
  BY <1>0
<1> DEFINE record == ListBackups(s3)[i]
           j == [NoJob EXCEPT !.pc = "prepare", !.target = i, !.record = record]
<1>2. i # 0 /\ i \in 0 .. MaxBackups /\ record \in Record /\ made[i] # Missing
      /\ record.sum = made[i]
  BY ListBackupsFacts
<1>3. /\ j \in Job /\ j.pc = "prepare" /\ j.target = i /\ j.record = record
      /\ j.temp = Missing /\ j.stale = {}
  BY <1>2, NoJobFacts DEF NoJob, Job
<1>4. job' = [job EXCEPT ![p] = j]
      /\ UNCHANGED <<database, local, offsite, lastId, made, failed, mismatch>>
  BY <1>1 DEF ManualRestore
<1> HIDE DEF j, record
<1>5. job'[p] = j /\ Only(p)
  BY <1>3, <1>4, Assign DEF IInv
<1>6. Sound(p)' /\ Held(p)'
  BY <1>2, <1>3, <1>4, <1>5 DEF Sound, Held, Making, WithId, Restoring
<1>7. job[p].pc \notin ToList /\ job[p].stale = {}
  BY DEF ManualRestore, At, ToList, IInv, Sound
<1>8. Retained'
  BY <1>4, <1>5, <1>7, RemainingKept
<1>9. /\ lastId' \in 0 .. MaxBackups /\ lastId' >= lastId /\ database' \in Content
      /\ failed' \in BOOLEAN /\ mismatch' = FALSE /\ j.pc \notin Making
  BY <1>3, <1>4 DEF IInv, TypeOK, Making
<1> QED
  BY <1>3, <1>4, <1>6, <1>8, <1>9, AloneStep

\* A listing finds the manifests that the retention gives up; each has enough
\* newer ones, and they were all completed.
LEMMA ListStep ==
    ASSUME IInv, NEW p \in Procs, ListStale(p)
    PROVE  IInv'
<1> DEFINE stale == Beyond(LocalManifests, RetentionLocal)
           j == [job[p] EXCEPT !.stale = stale, !.pc = "prune"]
<1>1. job[p] \in Job /\ Sound(p) /\ job[p].pc = "list"
  BY DEF IInv, TypeOK, ListStale, At
<1>2. stale \subseteq LocalManifests /\ LocalManifests \subseteq Ids
  BY DEF Beyond, LocalManifests
<1>3. /\ j \in Job /\ j.pc = "prune" /\ j.id = job[p].id /\ j.target = job[p].target
      /\ j.record = job[p].record /\ j.temp = job[p].temp /\ j.stale = stale
  BY <1>1, <1>2 DEF Job
<1>4. job' = [job EXCEPT ![p] = j]
      /\ UNCHANGED <<database, local, offsite, lastId, made, failed, mismatch>>
  BY DEF ListStale
<1>5. \A i \in stale : Cardinality(Newer(i)) >= Kept
  <2> TAKE i \in stale
  <2> DEFINE After == {k \in LocalManifests : k > i}
  <2>1. Cardinality(After) >= Kept
    BY DEF Beyond, Kept
  <2>2. After \subseteq Newer(i)
    BY <1>2 DEF LocalManifests, Newer, IInv, Described
  <2>3. IsFiniteSet(Newer(i)) /\ Cardinality(Newer(i)) \in Nat /\ Cardinality(After) \in Nat
    <3>1. After \subseteq Ids /\ Newer(i) \subseteq Ids
      BY <1>2 DEF Newer
    <3> QED
      BY <3>1, FiniteIds
  <2>4. Cardinality(After) <= Cardinality(Newer(i))
    BY <2>2, <2>3, FS_Subset
  <2> HIDE DEF After
  <2> QED
    BY <2>1, <2>3, <2>4, KeptType
<1> HIDE DEF j
<1>6. job'[p] = j /\ Only(p)
  BY <1>3, <1>4, Assign DEF IInv
<1>7. Sound(p)'
  <2>1. \A i \in stale : Newer(i)' = Newer(i)
    BY <1>4 DEF Newer
  <2> HIDE DEF stale
  <2> QED
    BY <1>1, <1>3, <1>4, <1>5, <1>6, <2>1 DEF Sound, Making, WithId, Restoring
<1>8. Held(p)'
  BY <1>3, <1>6 DEF Held, Restoring
<1>9. Retained'
  <2>1. Remaining' \subseteq LocalManifests \ stale
    <3>1. LocalManifests' = LocalManifests /\ job'[p].stale = stale
      BY <1>3, <1>4, <1>6 DEF LocalManifests
    <3> HIDE DEF stale
    <3> QED
      BY <3>1 DEF Remaining
  <2>2. Cardinality(LocalManifests \ stale) <= Kept
    BY <1>2, KeepsFew
  <2>3. /\ IsFiniteSet(LocalManifests \ stale) /\ Cardinality(LocalManifests \ stale) \in Nat
    BY <1>2, FiniteIds
  <2>4. Cardinality(Remaining') <= Cardinality(LocalManifests \ stale)
        /\ Cardinality(Remaining') \in Nat
    BY <2>1, <2>3, FS_Subset, FS_CardinalityType
  <2> HIDE DEF stale
  <2>5. Cardinality(Remaining') <= Kept
    BY <2>2, <2>3, <2>4, KeptType
  <2> QED
    BY <2>5 DEF Retained
<1>10. /\ lastId' \in 0 .. MaxBackups /\ lastId' >= lastId /\ database' \in Content
       /\ failed' \in BOOLEAN /\ mismatch' = FALSE /\ j.pc \notin Making
  BY <1>3, <1>4 DEF IInv, TypeOK, Making
<1> QED
  BY <1>3, <1>4, <1>7, <1>8, <1>9, <1>10, AloneStep

LEMMA FinishStep ==
    ASSUME IInv, NEW p \in Procs, FinishBackup(p)
    PROVE  IInv'
<1>1. /\ job[p].pc = "prune" /\ job[p].stale = {} /\ job[p] \in Job /\ Sound(p)
      /\ UNCHANGED <<database, local, offsite, lastId, made, failed, mismatch>>
      /\ database \in Content /\ mismatch = FALSE
  BY DEF FinishBackup, At, IInv, TypeOK
<1>2. CASE job[p].target = 0
  <2>1. job' = [job EXCEPT ![p] = NoJob]
    BY <1>2 DEF FinishBackup
  <2> QED
    BY <1>1, <2>1, EndStep DEF ToList
<1>3. CASE job[p].target # 0
  <2>1. Goto(p, "prepare")
    BY <1>3 DEF FinishBackup, Goto, IInv, TypeOK
  <2>2. [job[p] EXCEPT !.pc = "prepare"] \in Job
    BY <1>1 DEF Job
  <2>3. job[p].temp = Missing
    BY <1>1 DEF Sound, Restoring
  <2> QED
    BY <1>1, <1>3, <2>1, <2>2, <2>3, GoStep DEF WithId, ToList, Restoring
<1> QED
  BY <1>2, <1>3

LEMMA PrepareStep ==
    ASSUME IInv, NEW p \in Procs, PrepareRestoreDump(p)
    PROVE  IInv'
<1>1. /\ job[p].pc = "prepare" /\ job[p] \in Job /\ Sound(p)
      /\ UNCHANGED <<database, local, offsite, lastId, made, failed, mismatch>>
      /\ database \in Content /\ mismatch = FALSE
  BY DEF PrepareRestoreDump, At, IInv, TypeOK
<1>2. job[p].stale = {} /\ job[p].target # 0 /\ job[p].temp = Missing
  BY <1>1 DEF Sound, Restoring
<1>3. CASE /\ local[job[p].target].dump = job[p].record.sum
           /\ Goto(p, "drop")
  <2>1. [job[p] EXCEPT !.pc = "drop"] \in Job
    BY <1>1 DEF Job
  <2>2. Source(p) = job[p].record.sum
    BY <1>2, <1>3 DEF Source
  <2> QED
    BY <1>1, <1>2, <1>3, <2>1, <2>2, GoStep DEF WithId, ToList, Restoring
<1>4. ASSUME NEW download,
             download \in {offsite[job[p].target].dump, Damaged},
             offsite[job[p].target].dump # Missing,
             download = job[p].record.sum,
             job' = [job EXCEPT ![p].temp = download, ![p].pc = "drop"]
      PROVE  IInv'
  <2> DEFINE j == [job[p] EXCEPT !.temp = download, !.pc = "drop"]
  <2>1. download # Missing /\ download \in Content \cup {Damaged}
    BY <1>1, <1>4 DEF Missing, Damaged, Job, Record
  <2>2. /\ j \in Job /\ j.pc = "drop" /\ j.id = job[p].id /\ j.target = job[p].target
        /\ j.record = job[p].record /\ j.temp = download /\ j.stale = job[p].stale
    BY <1>1, <2>1 DEF Job
  <2>3. job' = [job EXCEPT ![p] = j]
    BY <1>4
  <2> HIDE DEF j
  <2>4. job'[p] = j /\ Only(p)
    BY <2>2, <2>3, Assign DEF IInv
  <2>5. Sound(p)'
    BY <1>1, <1>2, <1>4, <2>2, <2>4 DEF Sound, Making, WithId, Restoring
  <2>6. Held(p)'
    BY <1>4, <2>1, <2>2, <2>4 DEF Held, Source
  <2>7. Retained'
    BY <1>1, <1>2, <2>4, RemainingKept DEF ToList
  <2>8. /\ lastId' \in 0 .. MaxBackups /\ lastId' >= lastId /\ database' \in Content
        /\ failed' \in BOOLEAN /\ mismatch' = FALSE /\ j.pc \notin Making
    BY <1>1, <2>2 DEF IInv, TypeOK, Making
  <2> QED
    BY <1>1, <2>2, <2>3, <2>5, <2>6, <2>7, <2>8, AloneStep
<1> QED
  BY <1>3, <1>4 DEF PrepareRestoreDump, Downloadable

\* Whatever a restore reads, it is what the record said of the backup.
LEMMA SourceRight ==
    ASSUME IInv, NEW p \in Procs, job[p].pc \in Restoring, Source(p) # Missing
    PROVE  Source(p) = job[p].record.sum
<1>1. Sound(p) /\ job[p] \in Job
  BY DEF IInv, TypeOK
<1>2. job[p].target \in Ids
  BY <1>1, ConstantsAssumption DEF Sound, Job, Ids
<1> QED
  BY <1>1, <1>2 DEF Source, Sound, IInv, Described

LEMMA RestoreSteps ==
    ASSUME IInv, NEW p \in Procs,
           DropDatabase(p) \/ CreateDatabase(p) \/ RestoreFiltered(p)
    PROVE  IInv'
<1>1. /\ job[p].pc \in Restoring /\ job[p] \in Job /\ Sound(p) /\ Held(p)
      /\ UNCHANGED <<local, offsite, lastId, made, failed, mismatch>>
      /\ database' \in Content
  BY ConstantsAssumption DEF DropDatabase, CreateDatabase, RestoreFiltered, At,
     Restoring, IInv, TypeOK, Content, Missing
<1>2. PICK step \in Restoring : Goto(p, step)
  BY DEF DropDatabase, CreateDatabase, RestoreFiltered, Restoring
<1>3. job[p].stale = {} /\ job[p].target # 0 /\ job[p].pc \notin ToList
  BY <1>1 DEF Sound, Restoring, ToList
<1>4. [job[p] EXCEPT !.pc = step] \in Job /\ step \notin WithId /\ step # "unlink"
  BY <1>1 DEF Job, Restoring, WithId
<1> QED
  BY <1>1, <1>2, <1>3, <1>4, GoStep DEF Held

LEMMA RestoredStep ==
    ASSUME IInv, NEW p \in Procs, RunPgRestore(p)
    PROVE  IInv'
<1>1. /\ job[p].pc \in Restoring /\ job[p].pc \notin ToList /\ job[p] \in Job /\ Sound(p)
      /\ UNCHANGED <<local, offsite, lastId, made, failed>>
      /\ job' = [job EXCEPT ![p] = NoJob]
      /\ Source(p) # Missing /\ database' = Source(p)
      /\ mismatch' = (mismatch \/ Source(p) # job[p].record.sum)
      /\ mismatch = FALSE
  BY DEF RunPgRestore, Restoring, ToList, IInv, TypeOK
<1>2. Source(p) = job[p].record.sum
  BY <1>1, SourceRight
<1>3. database' \in Content
  BY <1>1, <1>2 DEF Job, Record
<1>4. mismatch' = FALSE
  BY <1>1, <1>2
<1>5. job[p].stale = {}
  BY <1>1 DEF Sound, Restoring
<1> QED
  BY <1>1, <1>3, <1>4, <1>5, EndStep

LEMMA GiveUpStep ==
    ASSUME IInv, NEW p \in Procs, GiveUp(p)
    PROVE  IInv'
<1>1. /\ job' = [job EXCEPT ![p] = NoJob] /\ failed' = TRUE
      /\ UNCHANGED <<database, local, offsite, lastId, made, mismatch>>
      /\ database' \in Content /\ mismatch' = FALSE
  BY DEF GiveUp, IInv, TypeOK
<1> QED
  BY <1>1, EndStep

LEMMA WriteStep ==
    ASSUME IInv, Write
    PROVE  IInv'
<1>1. database' \in Content /\ UNCHANGED <<local, offsite, job, lastId, made, failed, mismatch>>
  BY ConstantsAssumption DEF Write, Content, Missing
<1>2. \A i : Newer(i)' = Newer(i)
  BY <1>1 DEF Newer
<1>3. TypeOK'
  BY <1>1 DEF IInv, TypeOK
<1>4. \A i \in Ids : Described(i)'
  BY <1>1, <1>2 DEF IInv, Described, Intact
<1>5. \A p \in Procs : Sound(p)' /\ Held(p)'
  BY <1>1, <1>2 DEF IInv, Sound, Held, Source
<1>6. Exclusive' /\ ~mismatch'
  BY <1>1 DEF IInv, Exclusive
<1>7. Retained'
  <2>1. Remaining' = Remaining
    BY <1>1 DEF Remaining, LocalManifests
  <2> QED
    BY <1>1, <2>1 DEF IInv, Retained
<1> QED
  BY <1>3, <1>4, <1>5, <1>6, <1>7 DEF IInv
-----------------------------------------------------------------------------
(* The steps that write or delete files.                                   *)

\* What p does to the files leaves the others with what they had, or tells
\* them that their source is gone.
LEMMA FileStep ==
    ASSUME IInv, TypeOK', NEW p \in Procs,
           \A q \in Procs \ {p} : job'[q] \in {job[q], [job[q] EXCEPT !.pulled = TRUE]},
           MadeKept, lastId' = lastId, mismatch' = mismatch,
           \A q \in Procs \ {p} :
              job[q].pc \in Making => made'[job[q].id] = made[job[q].id],
           \A q \in Procs \ {p} :
              job[q].pc \in Restoring =>
                 local'[job[q].target].dump = local[job[q].target].dump \/ job'[q].pulled,
           job'[p].pc \in Making => job[p].pc \in Making /\ job'[p].id = job[p].id,
           job'[p].pc \notin Restoring,
           \A i \in Ids : Described(i)', Sound(p)', Retained'
    PROVE  IInv'
<1>1. \A q \in Procs \ {p} :
         /\ job'[q].pc = job[q].pc /\ job'[q].id = job[q].id
         /\ job'[q].target = job[q].target /\ job'[q].record = job[q].record
         /\ job'[q].temp = job[q].temp /\ (job[q].pulled => job'[q].pulled)
  BY DEF IInv, TypeOK, Job
<1>2. \A q \in Procs : Sound(q)'
  <2>1. lastId' \in Nat /\ lastId' >= lastId
    BY DEF IInv, TypeOK
  <2>2. ASSUME NEW q \in Procs \ {p} PROVE Sound(q)'
    BY <2>1, <2>2, SoundKept DEF IInv
  <2> QED
    BY <2>2
<1>3. Exclusive'
  BY <1>1 DEF IInv, Exclusive
<1>4. \A q \in Procs : Held(q)'
  <2>1. Held(p)'
    BY DEF Held
  <2>2. ASSUME NEW q \in Procs \ {p} PROVE Held(q)'
    <3>1. CASE job'[q].pulled
      BY <3>1, Zenon DEF Held
    <3>2. CASE job[q].pc \in Restoring /\ ~job'[q].pulled
      <4>1. Source(q)' = Source(q) /\ Held(q)
        BY <1>1, <3>2 DEF Source, IInv
      <4> QED
        BY <1>1, <3>2, <4>1 DEF Held
    <3>3. CASE job[q].pc \notin Restoring
      BY <1>1, <3>3 DEF Held
    <3> QED
      BY <3>1, <3>2, <3>3
  <2> QED
    BY <2>1, <2>2
<1> QED
  BY <1>2, <1>3, <1>4 DEF IInv

\* The process that makes a backup goes on to another step.
LEMMA MakingStep ==
    ASSUME IInv, NEW p \in Procs, NEW step, Goto(p, step),
           job[p].pc \in WithId,
           step \in {"manifest", "upload", "put", "pruneOffsite", "list"}
    PROVE  /\ job' \in [Procs -> Job] /\ Only(p)
           /\ job'[p].pc = step /\ job'[p].id = job[p].id
           /\ job'[p].stale = job[p].stale /\ job[p].stale = {}
           /\ job[p].id \in Ids /\ job[p].id <= lastId
           /\ job'[p].target = job[p].target /\ job'[p].record = job[p].record
           /\ job'[p].temp = job[p].temp
           /\ job'[p].pc \notin Restoring
<1> DEFINE j == [job[p] EXCEPT !.pc = step]
<1>1. job[p] \in Job /\ Sound(p) /\ lastId \in 0 .. MaxBackups
  BY DEF IInv, TypeOK
<1>2. /\ j \in Job /\ j.pc = step /\ j.id = job[p].id /\ j.target = job[p].target
      /\ j.record = job[p].record /\ j.temp = job[p].temp /\ j.stale = job[p].stale
  BY <1>1 DEF Job
<1>3. job' = [job EXCEPT ![p] = j]
  BY DEF Goto
<1> HIDE DEF j
<1>4. job' \in [Procs -> Job] /\ job'[p] = j /\ Only(p)
  BY <1>2, <1>3, Assign DEF IInv
<1>5. job[p].id \in Ids /\ job[p].id <= lastId
  BY <1>1, ConstantsAssumption DEF Sound, Ids
<1>6. job[p].stale = {}
  BY <1>1 DEF Sound, WithId
<1> QED
  BY <1>2, <1>4, <1>5, <1>6 DEF Restoring

LEMMA MakingSound ==
    ASSUME IInv, NEW p \in Procs, NEW step, Goto(p, step),
           job[p].pc \in WithId,
           step \in {"manifest", "upload", "put", "pruneOffsite", "list"},
           step \in Making => made'[job[p].id] = Missing,
           MadeKept, lastId' = lastId
    PROVE  Sound(p)'
<1>1. Sound(p) /\ job[p] \in Job
  BY DEF IInv, TypeOK
<1>2. job[p].target # 0 => job[p].target \in Ids
  BY <1>1, ConstantsAssumption DEF Job, Ids
<1>3. job[p].temp = Missing
  BY <1>1 DEF Sound, WithId, Restoring
<1>4. job[p].id \in 1 .. lastId'
  BY <1>1 DEF Sound
<1> QED
  BY <1>1, <1>2, <1>3, <1>4, MakingStep DEF Sound, WithId, Making, Restoring, MadeKept

LEMMA DumpStep ==
    ASSUME IInv, NEW p \in Procs, RunPgDump(p)
    PROVE  IInv'
<1> DEFINE i == job[p].id
<1>1. /\ job[p].pc = "dump" /\ Goto(p, "manifest") /\ database # Missing
      /\ local' = [local EXCEPT ![i].dump = database]
      /\ UNCHANGED <<database, offsite, lastId, made, failed, mismatch>>
  BY DEF RunPgDump, At
<1>2. job[p].pc \in WithId /\ job[p].pc \in Making
  BY <1>1 DEF WithId, Making
<1>3. /\ job' \in [Procs -> Job] /\ Only(p) /\ job'[p].pc = "manifest" /\ job'[p].id = i
      /\ job'[p].stale = {} /\ i \in Ids /\ job'[p].pc \notin Restoring
  BY <1>1, <1>2, MakingStep
<1>4. made[i] = Missing
  BY <1>2 DEF IInv, Sound
<1>5. MadeKept
  BY <1>1 DEF MadeKept
<1>6. Sound(p)'
  BY <1>1, <1>2, <1>4, <1>5, MakingSound
<1>7. /\ local' \in [Ids -> Files]
      /\ \A k \in Ids : local'[k].sum = local[k].sum
      /\ \A k \in Ids \ {i} : local'[k] = local[k]
  BY <1>1, <1>3 DEF IInv, TypeOK, Files
<1>8. TypeOK'
  BY <1>1, <1>3, <1>7 DEF IInv, TypeOK
<1>9. \A k \in Ids : Described(k)'
  <2>1. \A k : Newer(k)' = Newer(k)
    BY <1>1 DEF Newer
  <2> QED
    BY <1>1, <1>4, <1>7, <2>1 DEF IInv, Described, Intact
<1>10. Retained'
  <2>1. \A k \in Remaining' : k \in Remaining
    BY <1>3, <1>7, MakingStep, <1>1, <1>2 DEF Remaining, LocalManifests, Only
  <2>2. \A q \in Procs : job[q].pc \in ToList => job'[q].pc \in ToList
    BY <1>1, <1>3 DEF Only, ToList
  <2> QED
    BY <1>1, <2>1, <2>2, RetainedKept DEF IInv, TypeOK
<1>11. \A q \in Procs \ {p} : job[q].pc \in Restoring =>
          local'[job[q].target].dump = local[job[q].target].dump
  <2> TAKE q \in Procs \ {p}
  <2>1. job[q].pc \in Restoring =>
          job[q].target \in 0 .. MaxBackups /\ job[q].target # 0 /\ made[job[q].target] # Missing
    BY DEF IInv, TypeOK, Job, Sound
  <2>2. job[q].pc \in Restoring => job[q].target \in Ids \ {i}
    BY <1>4, <2>1, ConstantsAssumption DEF Ids
  <2> QED
    BY <1>7, <2>2
<1> QED
  BY <1>1, <1>2, <1>3, <1>5, <1>6, <1>8, <1>9, <1>10, <1>11, FileStep DEF Only

\* A manifest describes the dump as it was verified; from now on the backup
\* counts among the newer ones of those before it.
LEMMA ManifestStep ==
    ASSUME IInv, NEW p \in Procs, WriteManifest(p)
    PROVE  IInv'
<1> DEFINE i == job[p].id
           step == IF OffsiteEnabled THEN "upload" ELSE "list"
<1>1. /\ job[p].pc = "manifest" /\ Goto(p, step)
      /\ local' = [local EXCEPT ![i].sum = local[i].dump]
      /\ made' = [made EXCEPT ![i] = local[i].dump]
      /\ UNCHANGED <<database, offsite, lastId, failed, mismatch>>
  BY DEF WriteManifest, At
<1>2. /\ job[p].pc \in WithId /\ job[p].pc \in Making /\ step \in {"upload", "list"}
      /\ step \notin Making
  BY <1>1 DEF WithId, Making
<1> HIDE DEF step
<1>3. /\ job' \in [Procs -> Job] /\ Only(p) /\ job'[p].pc = step
      /\ i \in Ids /\ i <= lastId /\ job'[p].pc \notin Restoring
  BY <1>1, <1>2, MakingStep
<1>4. made[i] = Missing
  BY <1>2 DEF IInv, Sound
<1>5. /\ local' \in [Ids -> Files] /\ made' \in [Ids -> Content]
      /\ made'[i] = local[i].dump
      /\ local'[i].sum = local[i].dump /\ local'[i].dump = local[i].dump
      /\ \A k \in Ids \ {i} : local'[k] = local[k] /\ made'[k] = made[k]
  BY <1>1, <1>3 DEF IInv, TypeOK, Files
<1>6. MadeKept
  BY <1>4, <1>5 DEF MadeKept
<1>7. Sound(p)'
  BY <1>1, <1>2, <1>6, MakingSound
<1>8. TypeOK'
  BY <1>1, <1>3, <1>5 DEF IInv, TypeOK
<1>9. ASSUME NEW k \in Ids PROVE Described(k)'
  <2>1. CASE k = i
    <3>1. offsite[i].sum = Missing
      BY <1>3, <1>4 DEF IInv, Described
    <3> QED
      BY <1>1, <1>3, <1>5, <2>1, <3>1 DEF Described, Intact
  <2>2. CASE k # i
    <3>1. /\ local'[k] = local[k] /\ made'[k] = made[k] /\ Described(k)
          /\ offsite' = offsite /\ lastId' = lastId
      BY <1>1, <1>5, <2>2 DEF IInv
    <3>2. Cardinality(Newer(k)) >= Kept => Cardinality(Newer(k)') >= Kept
      BY <1>6, NewerGrows
    <3> QED
      BY <3>1, <3>2 DEF Described, Intact
  <2> QED
    BY <2>1, <2>2
<1>10. Retained'
  BY <1>2, <1>3 DEF Retained, ToList
<1>11. \A q \in Procs \ {p} : job[q].pc \in Making => made'[job[q].id] = made[job[q].id]
  <2> TAKE q \in Procs \ {p}
  <2>1. job[q].pc \in Making => job[q].id # i
    BY <1>2 DEF IInv, Exclusive
  <2>2. job[q].pc \in Making => job[q].id \in Ids
    BY ConstantsAssumption DEF IInv, TypeOK, Sound, Making, WithId, Ids
  <2> QED
    BY <1>5, <2>1, <2>2
<1>12. \A q \in Procs \ {p} : job[q].pc \in Restoring =>
          local'[job[q].target].dump = local[job[q].target].dump
  BY <1>1, <1>3, <1>5 DEF IInv, TypeOK
<1> QED
  BY <1>1, <1>2, <1>3, <1>6, <1>7, <1>8, <1>9, <1>10, <1>11, <1>12, FileStep DEF Only

\* The steps that go to the bucket leave the process before its listing.
LEMMA BucketStep ==
    ASSUME IInv, NEW p \in Procs, NEW step, Goto(p, step),
           job[p].pc \in WithId, step \in ToList,
           local' \in [Ids -> Files], offsite' \in [Ids -> Files],
           \A k \in Ids : /\ local'[k].dump = local[k].dump
                          /\ local'[k].sum \in {local[k].sum, made[k]}
                          /\ offsite'[k].sum \in {offsite[k].sum, made[k], Missing},
           UNCHANGED <<database, lastId, made, failed, mismatch>>
    PROVE  IInv'
<1>1. step \in {"manifest", "upload", "put", "pruneOffsite", "list"} /\ step \notin Making
  BY DEF ToList, Making
<1>2. /\ job' \in [Procs -> Job] /\ Only(p) /\ job'[p].pc = step
      /\ job'[p].pc \notin Restoring
  BY <1>1, MakingStep
<1>3. MadeKept
  BY DEF MadeKept
<1>4. Sound(p)'
  BY <1>1, <1>3, MakingSound
<1>5. TypeOK'
  BY <1>2 DEF IInv, TypeOK
<1>6. ASSUME NEW k \in Ids PROVE Described(k)'
  <2>1. Newer(k)' = Newer(k) /\ Described(k)
    BY DEF Newer, IInv
  <2> QED
    BY <2>1 DEF Described, Intact
<1>7. Retained'
  BY <1>2 DEF Retained
<1>8. \A q \in Procs \ {p} : job[q].pc \in Restoring =>
         local'[job[q].target].dump = local[job[q].target].dump
  <2> TAKE q \in Procs \ {p}
  <2>1. job[q].pc \in Restoring => job[q].target \in Ids
    BY ConstantsAssumption DEF IInv, TypeOK, Job, Sound, Ids
  <2> QED
    BY <2>1
<1> QED
  BY <1>1, <1>2, <1>3, <1>4, <1>5, <1>6, <1>7, <1>8, FileStep DEF Only

LEMMA OffsiteSteps ==
    ASSUME IInv, NEW p \in Procs, UploadDump(p) \/ PutManifest(p) \/ PruneOffsite(p)
    PROVE  IInv'
<1> DEFINE i == job[p].id
<1>1. /\ i \in Ids /\ local \in [Ids -> Files] /\ offsite \in [Ids -> Files]
      /\ made \in [Ids -> Content] /\ job[p].pc \in WithId
  BY ConstantsAssumption DEF UploadDump, PutManifest, PruneOffsite, At, WithId,
     IInv, TypeOK, Sound, Ids
<1> HIDE DEF i
<1>2. CASE UploadDump(p)
  <2>1. /\ offsite' = [offsite EXCEPT ![i].dump = local[i].dump]
        /\ UNCHANGED <<database, local, lastId, made, failed, mismatch>> /\ Goto(p, "put")
    BY <1>2 DEF UploadDump, i
  <2>2. offsite' \in [Ids -> Files] /\ \A k \in Ids : offsite'[k].sum = offsite[k].sum
    BY <1>1, <2>1 DEF Files
  <2> QED
    BY <1>1, <2>1, <2>2, BucketStep DEF ToList
<1>3. CASE PutManifest(p)
  <2>1. /\ offsite' = [offsite EXCEPT ![i].sum = local[i].sum, ![i].key = local[i].key]
        /\ UNCHANGED <<database, local, lastId, made, failed, mismatch>>
        /\ Goto(p, "pruneOffsite") /\ local[i].sum # Missing
    BY <1>3 DEF PutManifest, i
  <2>2. local[i].sum = made[i]
    BY <1>1, <2>1 DEF IInv, Described
  <2>3. /\ offsite' \in [Ids -> Files] /\ offsite'[i].sum = local[i].sum
        /\ \A k \in Ids \ {i} : offsite'[k].sum = offsite[k].sum
    BY <1>1, <2>1 DEF Files
  <2> QED
    BY <1>1, <2>1, <2>2, <2>3, BucketStep DEF ToList
<1>4. CASE PruneOffsite(p)
  <2>1. /\ offsite' = [j \in Ids |-> IF j \in Beyond(OffsiteStems, RetentionOffsite)
                                     THEN NoFiles ELSE offsite[j]]
        /\ local' = [local EXCEPT ![i].key = TRUE, ![i].sum = made[i]]
        /\ UNCHANGED <<database, lastId, made, failed, mismatch>> /\ Goto(p, "list")
    BY <1>4 DEF PruneOffsite, i
  <2>2. NoFiles \in Files /\ NoFiles.sum = Missing
    BY ConstantsAssumption DEF NoFiles, Files, Content, Missing
  <2>3. /\ offsite' \in [Ids -> Files]
        /\ \A k \in Ids : offsite'[k].sum \in {offsite[k].sum, Missing}
    BY <1>1, <2>1, <2>2
  <2>4. /\ local' \in [Ids -> Files] /\ local'[i].sum = made[i]
        /\ \A k \in Ids : local'[k].dump = local[k].dump
        /\ \A k \in Ids \ {i} : local'[k].sum = local[k].sum
    BY <1>1, <2>1 DEF Files
  <2> QED
    BY <1>1, <2>1, <2>3, <2>4, BucketStep DEF ToList
<1> QED
  BY <1>2, <1>3, <1>4

\* A process that deletes tells those that restore from the same backup.
LEMMA DeleteDumpStep ==
    ASSUME IInv, NEW p \in Procs, DeleteDump(p)
    PROVE  IInv'
<1> DEFINE i == Max(job[p].stale)
<1>1. /\ job[p].pc = "prune" /\ job[p].stale # {} /\ job[p] \in Job /\ Sound(p)
      /\ UNCHANGED <<database, offsite, lastId, made, mismatch>>
      /\ database' \in Content /\ mismatch' = FALSE
  BY DEF DeleteDump, At, IInv, TypeOK
<1>2. job[p].stale \subseteq Ids
  BY <1>1 DEF Job
<1>3. i \in job[p].stale /\ i \in Ids
  BY <1>1, <1>2, MaxIn
<1>4. CASE local[i].sum = Missing
  <2>1. job' = [job EXCEPT ![p] = NoJob] /\ failed' = TRUE /\ UNCHANGED local
    BY <1>4 DEF DeleteDump
  <2> QED
    BY <1>1, <2>1, EndStep
<1>5. CASE local[i].sum # Missing
  <2>1. /\ local' = [local EXCEPT ![i].dump = Missing] /\ failed' = failed
        /\ job' = [q \in Procs |->
                     IF q = p THEN [job[q] EXCEPT !.pc = "unlink"]
                     ELSE [job[q] EXCEPT !.pulled = @ \/ job[q].target = i]]
    BY <1>5 DEF DeleteDump
  <2> HIDE DEF i
  <2>2. /\ local' \in [Ids -> Files] /\ local'[i].dump = Missing
        /\ \A k \in Ids : local'[k].sum = local[k].sum
        /\ \A k \in Ids \ {i} : local'[k] = local[k]
    BY <1>3, <2>1, ConstantsAssumption DEF IInv, TypeOK, Files, Content, Missing
  <2>3. /\ job'[p] \in Job /\ job'[p].pc = "unlink" /\ job'[p].id = job[p].id
        /\ job'[p].target = job[p].target /\ job'[p].record = job[p].record
        /\ job'[p].temp = job[p].temp /\ job'[p].stale = job[p].stale
    BY <1>1, <2>1 DEF Job
  <2>4. ASSUME NEW q \in Procs \ {p}
        PROVE  /\ job'[q] \in {job[q], [job[q] EXCEPT !.pulled = TRUE]}
               /\ job'[q] \in Job /\ job'[q].pc = job[q].pc /\ job'[q].stale = job[q].stale
               /\ job[q].target = i => job'[q].pulled
    <3>1. job[q] \in Job
      BY DEF IInv, TypeOK
    <3>2. job'[q] = [job[q] EXCEPT !.pulled = job[q].pulled \/ job[q].target = i]
      BY <2>1
    <3>3. CASE job[q].target = i
      <4>1. job'[q] = [job[q] EXCEPT !.pulled = TRUE]
        BY <3>2, <3>3
      <4> QED
        BY <3>1, <4>1 DEF Job
    <3>4. CASE job[q].target # i
      <4>1. job'[q] = [job[q] EXCEPT !.pulled = job[q].pulled]
        <5>1. (job[q].pulled \/ job[q].target = i) = job[q].pulled
          BY <3>1, <3>4 DEF Job
        <5> QED
          BY <3>2, <5>1
      <4>2. job'[q] = job[q]
        BY <3>1, <4>1 DEF Job
      <4> QED
        BY <3>1, <3>4, <4>2
    <3> QED
      BY <3>3, <3>4
  <2>5. job' \in [Procs -> Job]
    <3>1. \A q \in Procs : job'[q] \in Job
      BY <2>3, <2>4
    <3>2. job' = [q \in Procs |-> job'[q]]
      BY <2>1
    <3> QED
      BY <3>1, <3>2
  <2>6. TypeOK'
    BY <1>1, <2>1, <2>2, <2>5 DEF IInv, TypeOK
  <2>7. MadeKept
    BY <1>1 DEF MadeKept
  <2>8. \A k : Newer(k)' = Newer(k)
    BY <1>1 DEF Newer
  <2>9. Sound(p)'
    BY <1>1, <2>3, <2>8 DEF Sound, WithId, Making, Restoring
  <2>10. ASSUME NEW k \in Ids PROVE Described(k)'
    <3>1. Described(k) /\ offsite' = offsite /\ lastId' = lastId /\ made' = made
      BY <1>1 DEF IInv
    <3>2. CASE k = i
      <4>1. Cardinality(Newer(k)') >= Kept
        BY <1>1, <1>3, <2>8, <3>2 DEF Sound
      <4> QED
        BY <2>2, <3>1, <3>2, <4>1 DEF Described
    <3>3. CASE k # i
      BY <2>2, <2>8, <3>1, <3>3 DEF Described, Intact
    <3> QED
      BY <3>2, <3>3
  <2>11. Retained'
    <3>1. \A k \in Remaining' : k \in Remaining
      <4>1. \A q \in Procs : job'[q].stale = job[q].stale
        BY <2>3, <2>4
      <4> QED
        BY <2>2, <4>1 DEF Remaining, LocalManifests
    <3>2. \A q \in Procs : job[q].pc \in ToList => job'[q].pc \in ToList
      BY <1>1, <2>4 DEF ToList
    <3> QED
      BY <2>1, <3>1, <3>2, RetainedKept DEF IInv, TypeOK
  <2>12. \A q \in Procs \ {p} : job[q].pc \in Restoring =>
            local'[job[q].target].dump = local[job[q].target].dump \/ job'[q].pulled
    <3> TAKE q \in Procs \ {p}
    <3>1. job[q].pc \in Restoring => job[q].target \in Ids
      BY ConstantsAssumption DEF IInv, TypeOK, Job, Sound, Ids
    <3>2. CASE job[q].target = i
      BY <2>4, <3>2, Zenon
    <3>3. CASE job[q].target # i /\ job[q].pc \in Restoring
      <4>1. local'[job[q].target].dump = local[job[q].target].dump
        BY <2>2, <3>1, <3>3
      <4> QED
        BY <4>1, Zenon
    <3> QED
      BY <3>2, <3>3, Zenon
  <2>13. job'[p].pc \notin Making /\ job'[p].pc \notin Restoring
    BY <2>3 DEF Making, Restoring
  <2> QED
    BY <1>1, <2>4, <2>6, <2>7, <2>9, <2>10, <2>11, <2>12, <2>13, FileStep
<1> QED
  BY <1>4, <1>5

LEMMA DeleteManifestStep ==
    ASSUME IInv, NEW p \in Procs, DeleteManifest(p)
    PROVE  IInv'
<1> DEFINE i == Max(job[p].stale)
           j == [job[p] EXCEPT !.stale = @ \ {i}, !.pc = "prune"]
<1>1. /\ job[p].pc = "unlink" /\ job[p] \in Job /\ Sound(p)
      /\ UNCHANGED <<database, offsite, lastId, made, failed, mismatch>>
  BY DEF DeleteManifest, At, IInv, TypeOK
<1>2. job[p].stale \subseteq Ids /\ job[p].stale # {}
  BY <1>1 DEF Job, Sound
<1>3. i \in job[p].stale /\ i \in Ids
  BY <1>2, MaxIn
<1>4. local' = [local EXCEPT ![i].sum = Missing, ![i].key = FALSE]
      /\ job' = [job EXCEPT ![p] = j]
  BY DEF DeleteManifest
<1> HIDE DEF i
<1>5. /\ j \in Job /\ j.pc = "prune" /\ j.id = job[p].id /\ j.target = job[p].target
      /\ j.record = job[p].record /\ j.temp = job[p].temp /\ j.stale = job[p].stale \ {i}
  BY <1>1 DEF Job
<1> HIDE DEF j
<1>6. job' \in [Procs -> Job] /\ job'[p] = j /\ Only(p)
  BY <1>4, <1>5, Assign DEF IInv
<1>7. /\ local' \in [Ids -> Files] /\ local'[i].sum = Missing
      /\ \A k \in Ids : local'[k].dump = local[k].dump
      /\ \A k \in Ids \ {i} : local'[k] = local[k]
  <2>1. local \in [Ids -> Files] /\ Missing \in Content
    BY ConstantsAssumption DEF IInv, TypeOK, Content, Missing
  <2> QED
    BY <1>3, <1>4, <2>1 DEF Files
<1>8. TypeOK'
  BY <1>1, <1>6, <1>7 DEF IInv, TypeOK
<1>9. \A k : Newer(k)' = Newer(k)
  BY <1>1 DEF Newer
<1>10. Sound(p)'
  BY <1>1, <1>5, <1>6, <1>9 DEF Sound, WithId, Making, Restoring
<1>11. ASSUME NEW k \in Ids PROVE Described(k)'
  <2>1. Described(k) /\ offsite' = offsite /\ lastId' = lastId /\ made' = made
    BY <1>1 DEF IInv
  <2>2. CASE k = i
    <3>1. Cardinality(Newer(k)') >= Kept
      BY <1>1, <1>3, <1>9, <2>2 DEF Sound
    <3> QED
      BY <1>7, <2>1, <2>2, <3>1 DEF Described
  <2>3. CASE k # i
    BY <1>7, <1>9, <2>1, <2>3 DEF Described, Intact
  <2> QED
    BY <2>2, <2>3
<1>12. Retained'
  <2>1. \A k \in Remaining' : k \in Remaining
    <3> TAKE k \in Remaining'
    <3>1. k \in Ids /\ local'[k].sum # Missing /\ \A q \in Procs : k \notin job'[q].stale
      BY DEF Remaining, LocalManifests
    <3>2. k # i /\ local[k].sum # Missing
      BY <1>7, <3>1
    <3>3. \A q \in Procs : k \notin job[q].stale
      BY <1>5, <1>6, <3>1, <3>2 DEF Only
    <3> QED
      BY <3>1, <3>2, <3>3 DEF Remaining, LocalManifests
  <2>2. \A q \in Procs : job[q].pc \in ToList => job'[q].pc \in ToList
    BY <1>1, <1>6 DEF ToList, Only
  <2> QED
    BY <1>1, <2>1, <2>2, RetainedKept DEF IInv, TypeOK
<1>13. \A q \in Procs \ {p} : job[q].pc \in Restoring =>
          local'[job[q].target].dump = local[job[q].target].dump
  <2> TAKE q \in Procs \ {p}
  <2>1. job[q].pc \in Restoring => job[q].target \in Ids
    BY ConstantsAssumption DEF IInv, TypeOK, Job, Sound, Ids
  <2> QED
    BY <1>7, <2>1
<1>14. MadeKept /\ job'[p].pc \notin Making /\ job'[p].pc \notin Restoring
  BY <1>1, <1>5, <1>6 DEF MadeKept, Making, Restoring
<1> QED
  BY <1>1, <1>6, <1>8, <1>10, <1>11, <1>12, <1>13, <1>14, FileStep DEF Only

-----------------------------------------------------------------------------
(* The invariant.                                                          *)

LEMMA Initially == Init => IInv
<1> SUFFICES ASSUME Init PROVE IInv
  OBVIOUS
<1>1. /\ \A p \in Procs : job[p] = NoJob
      /\ \A i \in Ids : local[i] = NoFiles /\ offsite[i] = NoFiles /\ made[i] = Missing
      /\ lastId = 0 /\ mismatch = FALSE
  BY DEF Init
<1>2. NoFiles \in Files /\ NoFiles.sum = Missing /\ Missing \in Content
      /\ 1 \in Content /\ 0 \in 0 .. MaxBackups
  BY ConstantsAssumption DEF NoFiles, Files, Content, Missing
<1>3. TypeOK
  BY <1>2, NoJobFacts DEF Init, TypeOK
<1>4. \A i \in Ids : Described(i)
  BY <1>1, <1>2 DEF Described
<1>5. \A p \in Procs : Sound(p) /\ Held(p)
  BY <1>1, NoJobFacts DEF Sound, Held, WithId, Making, Restoring
<1>6. Exclusive
  BY <1>1, NoJobFacts DEF Exclusive, Making
<1>7. Retained
  <2>1. Remaining = {}
    BY <1>1, <1>2 DEF Remaining, LocalManifests
  <2> QED
    BY <2>1, FS_EmptySet, KeptType DEF Retained
<1> QED
  BY <1>1, <1>3, <1>4, <1>5, <1>6, <1>7 DEF IInv

LEMMA Stepwise == IInv /\ [Next]_vars => IInv'
<1> SUFFICES ASSUME IInv, [Next]_vars PROVE IInv'
  OBVIOUS
<1>1. CASE UNCHANGED vars
  <2>1. \A i : Newer(i)' = Newer(i)
    BY <1>1 DEF vars, Newer
  <2>2. TypeOK' /\ Exclusive' /\ ~mismatch'
    BY <1>1 DEF vars, IInv, TypeOK, Exclusive
  <2>3. \A i \in Ids : Described(i)'
    BY <1>1, <2>1 DEF vars, IInv, Described, Intact
  <2>4. \A p \in Procs : Sound(p)' /\ Held(p)'
    BY <1>1, <2>1 DEF vars, IInv, Sound, Held, Source
  <2>5. Retained'
    <3>1. Remaining' = Remaining
      BY <1>1 DEF vars, Remaining, LocalManifests
    <3> QED
      BY <1>1, <3>1 DEF vars, IInv, Retained
  <2> QED
    BY <2>2, <2>3, <2>4, <2>5 DEF IInv
<1>2. CASE Write
  BY <1>2, WriteStep
<1>3. ASSUME NEW p \in Procs,
             \/ CreateBackup(p) \/ ScheduledBackup(p)
             \/ RestoreBackup(p) \/ ManualRestore(p)
             \/ BackupStep(p) \/ RestoreStep(p) \/ GiveUp(p)
      PROVE  IInv'
  <2>1. CASE CreateBackup(p) \/ ScheduledBackup(p) \/ RestoreBackup(p)
    BY <2>1, BeginSteps
  <2>2. CASE ManualRestore(p)
    BY <2>2, ManualStep
  <2>3. CASE BackupStep(p)
    <3>1. CASE RunPgDump(p) \/ WriteManifest(p)
      BY <3>1, DumpStep, ManifestStep
    <3>2. CASE UploadDump(p) \/ PutManifest(p) \/ PruneOffsite(p)
      BY <3>2, OffsiteSteps
    <3>3. CASE ListStale(p) \/ FinishBackup(p)
      BY <3>3, ListStep, FinishStep
    <3>4. CASE DeleteDump(p) \/ DeleteManifest(p)
      BY <3>4, DeleteDumpStep, DeleteManifestStep
    <3> QED
      BY <2>3, <3>1, <3>2, <3>3, <3>4 DEF BackupStep
  <2>4. CASE RestoreStep(p)
    BY <2>4, PrepareStep, RestoreSteps, RestoredStep DEF RestoreStep
  <2>5. CASE GiveUp(p)
    BY <2>5, GiveUpStep
  <2> QED
    BY <1>3, <2>1, <2>2, <2>3, <2>4, <2>5
<1> QED
  BY <1>1, <1>2, <1>3 DEF Next

LEMMA Invariance == Spec => []IInv
BY Initially, Stepwise, PTL DEF Spec

\* Every variable has its type: what list_backups, the jobs and the files
\* hold.
THEOREM Typed == Spec => []TypeOK
<1>1. IInv => TypeOK
  BY DEF IInv
<1> QED
  BY <1>1, Invariance, PTL

\* A restore that reports success installed what the manifest of the chosen
\* backup describes, whatever was pruned, downloaded or re-created meanwhile
\* (restore_backup, _verify_backup_integrity).
THEOREM Asked == Spec => []RestoredAsAsked
<1>1. IInv => RestoredAsAsked
  BY DEF IInv, RestoredAsAsked
<1> QED
  BY <1>1, Invariance, PTL

\* Once a restore may drop the database, the dump it restores from is gone
\* only if another process pruned it (restore_backup, _prepare_restore_dump).
THEOREM SourceStays == Spec => []SourceHeld
<1>1. IInv => SourceHeld
  BY DEF IInv, Held, SourceHeld, Restoring
<1> QED
  BY <1>1, Invariance, PTL

\* When nothing runs and nothing has failed, no more backups than
\* backup_retention_local are left, even after runs that overlapped
\* (_prune_local_backups).
THEOREM ByCount == Spec => []RetainedByCount
<1>1. IInv => RetainedByCount
  <2> SUFFICES ASSUME IInv, ~failed, \A p \in Procs : job[p].pc = "idle"
               PROVE  Cardinality(LocalManifests) <= Kept
    BY DEF RetainedByCount, Kept
  <2>1. \A p \in Procs : job[p].pc \notin ToList /\ job[p].stale = {}
    BY DEF ToList, IInv, Sound
  <2>2. Remaining = LocalManifests
    BY <2>1 DEF Remaining
  <2> QED
    BY <2>1, <2>2 DEF IInv, Retained
<1> QED
  BY <1>1, Invariance, PTL

\* From the first complete backup of real data on, some complete backup of
\* real data stays restorable from the local directory, unless retention many
\* hollow ones have pushed it out (_prune_local_backups keeps the newest
\* by name): only hollow ones are newer than the newest one of real data.
THEOREM GoodStays == Spec => []GoodBackupStays
<1>1. IInv => GoodBackupStays
  <2> SUFFICES ASSUME IInv, NEW i \in Ids, made[i] > 0
               PROVE  \/ \E j \in Ids : Intact(j) /\ local[j].sum > 0
                      \/ Cardinality(Hollow) >= Kept
    BY DEF GoodBackupStays, Kept
  <2> DEFINE Good == {j \in Ids : made[j] > 0}
  <2>1. PICK g \in Good : \A j \in Good : g >= j
    <3>1. Good # {} /\ Good \subseteq Ids
      OBVIOUS
    <3> QED
      BY <3>1, Greatest, ConstantsAssumption DEF Ids
  <2>2. made \in [Ids -> Content] /\ made[g] # Missing /\ Described(g)
    BY <2>1 DEF IInv, TypeOK, Missing
  <2>3. CASE Intact(g)
    <3>1. local[g].sum = made[g]
      BY <2>2, <2>3 DEF Intact, Described
    <3> QED
      BY <2>1, <2>3, <3>1
  <2>4. CASE Cardinality(Newer(g)) >= Kept
    <3>1. Newer(g) \subseteq Hollow
      <4> SUFFICES ASSUME NEW j \in Ids, j > g, made[j] # Missing PROVE made[j] = 0
        BY DEF Newer, Hollow
      <4>1. ~(made[j] > 0)
        <5>1. g \in Int /\ j \in Int
          BY DEF Ids
        <5> QED
          BY <2>1, <5>1
      <4> QED
        BY <2>2, <4>1, ConstantsAssumption DEF Content, Missing
    <3>2. /\ IsFiniteSet(Hollow) /\ Cardinality(Hollow) \in Nat
          /\ Cardinality(Newer(g)) \in Nat
      <4>1. Hollow \subseteq Ids /\ Newer(g) \subseteq Ids
        BY DEF Hollow, Newer
      <4> QED
        BY <4>1, FiniteIds
    <3>3. Cardinality(Newer(g)) <= Cardinality(Hollow)
      BY <3>1, <3>2, FS_Subset
    <3> QED
      BY <2>4, <3>2, <3>3, KeptType
  <2> QED
    BY <2>2, <2>3, <2>4 DEF Described
<1> QED
  BY <1>1, Invariance, PTL

-----------------------------------------------------------------------------
(***************************************************************************)
(* SecurityControls for any limits, windows and lifetimes, and any finite  *)
(* number of logins at a time.                                             *)
(*                                                                         *)
(* The guesses are bounded because a wrong password is counted, or its     *)
(* request is still to count it, as long as there is no lock (Guesses).    *)
(* Once there is, nobody starts to try one, so that those who are trying   *)
(* are all that can be added.  A token is refused because the entry that   *)
(* does so has at most half a second less to live than the token           *)
(* (Entries).                                                              *)
(***************************************************************************)

\* The requests that are at one of the places L.
AtPlace(f, L) == {r \in Requests : f[r] \in L}

Trying == AtPlace(pc, {"try"})

\* The failures that have been counted, but for the last one before a lock.
Counted ==
    IF counter["fail"].value < MaxAttempts THEN counter["fail"].value ELSE MaxAttempts - 1

Guesses ==
    /\ Cardinality(Unanswered) <= tried
    /\ lock = 0 => tried <= Counted + Cardinality(Unanswered)
    /\ lock > 0 => tried + Cardinality(Trying) <= MaxAttempts - 1 + Cardinality(Requests)

Entries ==
    \A t \in Tokens :
        /\ token[t].revoked => token[t].left <= token[t].key + 1
        /\ token[t].closed => token[t].covered /\ token[t].left <= bar.left

Counters == counter = [k \in Keys |-> counter[k]]

-----------------------------------------------------------------------------
OneIf(b) == IF b THEN 1 ELSE 0

\* How the number of requests at the places L changes when r goes to l.
LEMMA Moves ==
    ASSUME IsFiniteSet(Requests), NEW f, f = [x \in Requests |-> f[x]],
           NEW r \in Requests, NEW l, NEW L, NEW g, g = [f EXCEPT ![r] = l]
    PROVE  /\ Cardinality(AtPlace(f, L)) \in Nat
           /\ Cardinality(AtPlace(g, L)) =
                Cardinality(AtPlace(f, L)) - OneIf(f[r] \in L) + OneIf(l \in L)
<1>1. IsFiniteSet(AtPlace(f, L)) /\ Cardinality(AtPlace(f, L)) \in Nat
  BY FS_Subset, FS_CardinalityType DEF AtPlace
<1>2. AtPlace(g, L) = IF l \in L THEN AtPlace(f, L) \cup {r} ELSE AtPlace(f, L) \ {r}
  BY DEF AtPlace
<1>3. /\ Cardinality(AtPlace(f, L) \cup {r}) =
            IF r \in AtPlace(f, L) THEN Cardinality(AtPlace(f, L))
            ELSE Cardinality(AtPlace(f, L)) + 1
      /\ Cardinality(AtPlace(f, L) \ {r}) =
            IF r \in AtPlace(f, L) THEN Cardinality(AtPlace(f, L)) - 1
            ELSE Cardinality(AtPlace(f, L))
  BY <1>1, FS_AddElement, FS_RemoveElement
<1>4. r \in AtPlace(f, L) <=> f[r] \in L
  BY DEF AtPlace
<1> QED
  BY <1>1, <1>2, <1>3, <1>4 DEF OneIf

LEMMA NeverMore ==
    /\ Cardinality(Unanswered) \in Nat /\ Cardinality(Trying) \in Nat
    /\ Cardinality(Requests) \in Nat
    /\ Cardinality(Unanswered) + Cardinality(Trying) <= Cardinality(Requests)
<1>1. IsFiniteSet(Requests)
  BY SCAssumption
<1>2. /\ Unanswered \in SUBSET Requests /\ Trying \in SUBSET Requests
      /\ Unanswered \cap Trying = {}
      /\ Unanswered \cup Trying \in SUBSET Requests
  BY DEF Unanswered, Unrecorded, Trying, AtPlace
<1>3. IsFiniteSet(Unanswered) /\ IsFiniteSet(Trying)
  BY <1>1, <1>2, FS_Subset
<1>4. /\ Cardinality(Unanswered) \in Nat /\ Cardinality(Trying) \in Nat
      /\ Cardinality(Requests) \in Nat /\ Cardinality({}) = 0
  BY <1>1, <1>3, FS_CardinalityType, FS_EmptySet
<1>5. Cardinality(Unanswered \cup Trying)
        = Cardinality(Unanswered) + Cardinality(Trying)
          - Cardinality(Unanswered \cap Trying)
  BY <1>3, FS_Union
<1>6. Cardinality(Unanswered \cup Trying) <= Cardinality(Requests)
  BY <1>1, <1>2, FS_Subset
<1>7. Cardinality(Unanswered \cap Trying) = 0
  BY <1>2, <1>4
<1> DEFINE U == Cardinality(Unanswered)
           T == Cardinality(Trying)
           N == Cardinality(Requests)
<1>8. U \in Nat /\ T \in Nat /\ N \in Nat /\ U + T - 0 <= N
  BY <1>4, <1>5, <1>6, <1>7
<1> HIDE DEF U, T, N
<1>9. U \in Nat /\ T \in Nat /\ N \in Nat /\ U + T <= N
  BY <1>8
<1> QED
  BY <1>9 DEF U, T, N

LEMMA GoesTo ==
    ASSUME SCTypeOK, NEW r \in Requests, NEW l,
           Enter(r, l)
    PROVE  /\ Cardinality(Unanswered)' = Cardinality(Unanswered)
                - OneIf(pc[r] \in Unrecorded) + OneIf(l \in Unrecorded)
           /\ Cardinality(Trying)' = Cardinality(Trying) - OneIf(pc[r] = "try") + OneIf(l = "try")
<1>1. IsFiniteSet(Requests) /\ pc = [x \in Requests |-> pc[x]] /\ pc' = [pc EXCEPT ![r] = l]
  BY SCAssumption DEF SCTypeOK, Enter
<1>2. Cardinality(AtPlace(pc', Unrecorded)) = Cardinality(AtPlace(pc, Unrecorded))
          - OneIf(pc[r] \in Unrecorded) + OneIf(l \in Unrecorded)
  BY <1>1, Moves
<1>3. Cardinality(AtPlace(pc', {"try"})) = Cardinality(AtPlace(pc, {"try"}))
          - OneIf(pc[r] \in {"try"}) + OneIf(l \in {"try"})
  BY <1>1, Moves
<1>4. (pc[r] \in {"try"} <=> pc[r] = "try") /\ (l \in {"try"} <=> l = "try")
  OBVIOUS
<1>5. /\ Unanswered = AtPlace(pc, Unrecorded)
      /\ Unanswered' = AtPlace(pc', Unrecorded) /\ Trying' = AtPlace(pc', {"try"})
  BY DEF Unanswered, Unrecorded, Trying, AfterFailure, AtPlace
<1> QED
  BY <1>2, <1>3, <1>4, <1>5 DEF Trying, OneIf

-----------------------------------------------------------------------------
Counter(k) == [value : 0..Cap[k], left : Never..Window]

LEMMA CounterType ==
    ASSUME SCTypeOK, NEW k \in Keys
    PROVE  /\ Cap[k] \in Nat \ {0} /\ Window \in Nat \ {0}
           /\ counter[k] \in Counter(k)
BY SCAssumption DEF SCTypeOK, Keys, Cap, Counter

LEMMA AbsentType ==
    ASSUME SCTypeOK, NEW k \in Keys
    PROVE  Absent \in Counter(k)
<1>1. Cap[k] \in Nat \ {0} /\ Window \in Nat \ {0}
  BY CounterType
<1> QED
  BY <1>1 DEF Counter, Absent, Never

\* One counter has a new value, and the other is as it was.
Sets(k, c) == counter' = [j \in Keys |-> IF j = k THEN c ELSE counter[j]]

LEMMA SetsType ==
    ASSUME SCTypeOK, NEW k \in Keys, NEW c \in Counter(k),
           Sets(k, c)
    PROVE  /\ \A j \in Keys : counter'[j] \in Counter(j)
           /\ Counters' /\ counter'[k] = c
           /\ \A j \in Keys : j # k => counter'[j] = counter[j]
BY CounterType DEF Sets, Counters

LEMMA IncrSets ==
    ASSUME SCTypeOK, Counters, NEW k \in Keys, Incr(k)
    PROVE  \E c \in Counter(k) :
              /\ Sets(k, c)
              /\ c.value = IF counter[k].value < Cap[k] THEN counter[k].value + 1
                                                                ELSE counter[k].value
<1> DEFINE v == IF counter[k].value < Cap[k] THEN counter[k].value + 1
                                                      ELSE counter[k].value
           l == IF counter[k].value = 0 THEN Never ELSE counter[k].left
           c == [value |-> v, left |-> l]
<1>1. counter[k] \in Counter(k) /\ Cap[k] \in Nat \ {0} /\ Window \in Nat \ {0}
  BY CounterType
<1>2. c \in Counter(k)
  BY <1>1 DEF Counter, Never
<1>3. counter[k] = [value |-> counter[k].value, left |-> counter[k].left]
  BY <1>1 DEF Counter
<1>4. counter' = [counter EXCEPT ![k].value = v, ![k].left = l]
  BY DEF Incr
<1> HIDE DEF v, l
<1>5. [[counter[k] EXCEPT !.value = v] EXCEPT !.left = l] = c
  <2>1. [counter[k] EXCEPT !.value = v] = [value |-> v, left |-> counter[k].left]
    BY <1>1 DEF Counter
  <2>2. ASSUME NEW e, e = [value |-> v, left |-> counter[k].left]
        PROVE  [e EXCEPT !.left = l] = c
    BY <2>2
  <2> QED
    BY <2>1, <2>2, Zenon
<1>6. counter' = [counter EXCEPT ![k] = c]
  BY <1>4, <1>5 DEF Counters
<1>7. Sets(k, c)
  BY <1>6 DEF Counters, Sets
<1> QED
  BY <1>2, <1>7 DEF v

LEMMA ExpireSets ==
    ASSUME SCTypeOK, Counters, NEW k \in Keys, Expire(k)
    PROVE  \E c \in Counter(k) : Sets(k, c) /\ c.value = counter[k].value
<1> DEFINE c == [value |-> counter[k].value, left |-> IF counter[k].value = 0 THEN 0 ELSE Window]
<1>1. counter[k] \in Counter(k) /\ Window \in Nat \ {0}
  BY CounterType
<1>2. c \in Counter(k)
  BY <1>1 DEF Counter, Never
<1>3. counter[k] = [value |-> counter[k].value, left |-> counter[k].left]
  BY <1>1 DEF Counter
<1>4. Sets(k, c)
  BY <1>3 DEF Expire, Counters, Sets
<1> QED
  BY <1>2, <1>4

-----------------------------------------------------------------------------
Access == odd \in BOOLEAN /\ token \in [Tokens -> Token]
            /\ bar \in [left : 0..(2 * Life), fresh : BOOLEAN]

Places == {"idle", "rate_expire", "lockout", "try", "failed", "fail_expire", "lock", "succeeded"}

LEMMA LoginType ==
    ASSUME SCTypeOK, Counters, Guesses, NEW r \in Requests,
           LoginStep(r) \/ Crash(r)
    PROVE  SCTypeOK' /\ Counters'
<1>1. UNCHANGED access
  BY DEF LoginStep, Crash, CheckRate, ExpireRate,
         CheckLockout, LoginFails, LoginSucceeds,
         RecordFailure, ExpireFailures, SetLock,
         RecordSuccess
<1>2. Access'
  BY <1>1 DEF SCTypeOK, access, Access, Token
<1>3. /\ pc \in [Requests -> Places] /\ leaked \in SUBSET Keys
      /\ lock \in 0..LockFor /\ 0 \in 0..LockFor /\ LockFor \in 0..LockFor
      /\ \A n : AfterFailure(n) \in Places
  BY SCAssumption DEF SCTypeOK, Places, AfterFailure
<1>4. pc' \in [Requests -> Places]
  <2>1. PICK l \in Places : Enter(r, l)
    BY <1>3 DEF Places, LoginStep, Crash, CheckRate,
         ExpireRate, CheckLockout, LoginFails,
         LoginSucceeds, RecordFailure, ExpireFailures,
         SetLock, RecordSuccess
  <2> QED
    BY <1>3, <2>1 DEF Enter
<1>5. lock' \in 0..LockFor /\ leaked' \in SUBSET Keys
  BY <1>3 DEF LoginStep, Crash, CheckRate,
         ExpireRate, CheckLockout, LoginFails,
         LoginSucceeds, RecordFailure, ExpireFailures,
         SetLock, RecordSuccess, Keys
<1>6. tried' \in Nat
  <2>1. tried \in Nat /\ Cardinality(Unanswered) \in Nat
    BY NeverMore DEF SCTypeOK
  <2>2. CASE LoginStep(r)
    BY <2>1, <2>2 DEF LoginStep, CheckRate, ExpireRate, CheckLockout, LoginFails,
         LoginSucceeds, RecordFailure, ExpireFailures, SetLock, RecordSuccess
  <2>3. CASE Crash(r)
    <3>1. r \in Unanswered => tried > 0
      <4>1. r \in Unanswered => Cardinality(Unanswered) # 0
        BY FS_EmptySet, FS_Subset, SCAssumption DEF Unanswered
      <4> QED
        BY <2>1, <4>1 DEF Guesses
    <3> QED
      BY <2>1, <2>3, <3>1 DEF Crash
  <2> QED
    BY <2>2, <2>3
<1>7. (\A j \in Keys : counter'[j] \in Counter(j)) /\ Counters'
  <2>1. CASE UNCHANGED counter
    BY <2>1, CounterType DEF Counters
  <2>2. ASSUME NEW k \in Keys, Incr(k) \/ Expire(k)
        PROVE  (\A j \in Keys : counter'[j] \in Counter(j)) /\ Counters'
    BY <2>2, IncrSets, ExpireSets, SetsType
  <2>3. CASE RecordSuccess(r)
    <3>1. "fail" \in Keys
      BY DEF Keys
    <3>2. Sets("fail", Absent)
      BY <2>3, <3>1 DEF RecordSuccess, Counters, Sets
    <3>3. Absent \in Counter("fail")
      BY AbsentType, <3>1
    <3> QED
      BY <3>1, <3>2, <3>3, SetsType
  <2> QED
    BY <2>1, <2>2, <2>3 DEF Keys, LoginStep, Crash,
         CheckRate, ExpireRate, CheckLockout, LoginFails,
         LoginSucceeds, RecordFailure, ExpireFailures,
         SetLock
<1> QED
  BY <1>2, <1>4, <1>5, <1>6, <1>7 DEF SCTypeOK, Access, Places, Counter

-----------------------------------------------------------------------------
\* A wrong password is counted, or locks, or is still in the hands of its
\* request.
LEMMA LoginGuesses ==
    ASSUME SCTypeOK, Counters, Guesses, NEW r \in Requests,
           LoginStep(r) \/ Crash(r)
    PROVE  Guesses'
<1> DEFINE U == Cardinality(Unanswered)
           T == Cardinality(Trying)
           N == Cardinality(Requests)
<1>1. /\ U \in Nat /\ T \in Nat /\ N \in Nat /\ tried \in Nat /\ lock \in Nat
      /\ U + T <= N
      /\ MaxAttempts \in Nat \ {0} /\ LockFor \in Nat \ {0}
  BY NeverMore, SCAssumption DEF SCTypeOK
<1>2. /\ "fail" \in Keys /\ "rate" \in Keys
      /\ counter["fail"].value \in 0..MaxAttempts /\ Cap["fail"] = MaxAttempts
  BY CounterType DEF Keys, Counter, Cap
<1>3. Counted \in Nat /\ Counted <= MaxAttempts - 1
  BY <1>1, <1>2 DEF Counted
<1>4. UNCHANGED counter["fail"].value => Counted' = Counted
  BY DEF Counted
<1>5. \A l : Enter(r, l) =>
        /\ U' = U - OneIf(pc[r] \in Unrecorded) + OneIf(l \in Unrecorded)
        /\ T' = T - OneIf(pc[r] = "try") + OneIf(l = "try")
  BY GoesTo
<1>6. /\ "failed" \in Unrecorded /\ "lock" \in Unrecorded
      /\ \A l \in {"idle", "rate_expire", "lockout", "try", "succeeded"} :
            l \notin Unrecorded
      /\ "fail_expire" \in Unrecorded <=> MaxAttempts = 1
  BY <1>1 DEF Unrecorded, AfterFailure
<1>7. Guesses <=> /\ U <= tried
                  /\ lock = 0 => tried <= Counted + U
                  /\ lock > 0 => tried + T <= MaxAttempts - 1 + N
  BY DEF Guesses
<1>8. Guesses' <=> /\ U' <= tried'
                   /\ lock' = 0 => tried' <= Counted' + U'
                   /\ lock' > 0 => tried' + T' <= MaxAttempts - 1 + N
  BY DEF Guesses
<1> HIDE DEF U, T, N
<1>9. ASSUME UNCHANGED <<lock, tried, counter["fail"].value>>,
             U' = U, T' = T \/ T' = T - 1
      PROVE  Guesses'
  <2>1. lock' = lock /\ tried' = tried /\ Counted' = Counted
    BY <1>4, <1>9
  <2> QED
    BY <1>1, <1>3, <1>7, <1>8, <1>9, <2>1
<1>10. CASE CheckRate(r)
  <2>1. UNCHANGED counter["fail"].value
    BY <1>2, <1>10, IncrSets, SetsType DEF CheckRate
  <2>2. PICK l \in {"idle", "rate_expire", "lockout"} : Enter(r, l)
    BY <1>10 DEF CheckRate
  <2> QED
    BY <1>1, <1>5, <1>6, <1>9, <1>10, <2>1, <2>2 DEF CheckRate, OneIf
<1>11. CASE ExpireRate(r)
  <2>1. UNCHANGED counter["fail"].value
    BY <1>2, <1>11, ExpireSets, SetsType DEF ExpireRate
  <2> QED
    BY <1>1, <1>5, <1>6, <1>9, <1>11, <2>1 DEF ExpireRate, OneIf
<1>12. CASE CheckLockout(r)
  <2>1. CASE lock # 0
    BY <1>1, <1>5, <1>6, <1>9, <1>12, <2>1 DEF CheckLockout, OneIf
  <2>2. CASE lock = 0
    <3>1. U' = U /\ UNCHANGED <<lock, tried, counter>>
      BY <1>1, <1>5, <1>6, <1>12, <2>2 DEF CheckLockout, OneIf
    <3> QED
      BY <1>1, <1>4, <1>7, <1>8, <2>2, <3>1
  <2> QED
    BY <2>1, <2>2
<1>13. CASE LoginFails(r)
  <2>1. U' = U + 1 /\ T' = T - 1 /\ UNCHANGED <<lock, counter>> /\ tried' = tried + 1
    BY <1>1, <1>5, <1>6, <1>13 DEF LoginFails, OneIf
  <2> QED
    BY <1>1, <1>3, <1>4, <1>7, <1>8, <2>1
<1>14. CASE LoginSucceeds(r)
  <2>1. U' = U /\ T' = T - 1 /\ UNCHANGED <<lock, counter, tried>>
    BY <1>1, <1>5, <1>6, <1>14 DEF LoginSucceeds, OneIf
  <2> QED
    BY <1>1, <1>3, <1>4, <1>7, <1>8, <2>1
<1>15. CASE RecordFailure(r)
  <2> DEFINE v == counter["fail"].value
  <2>1. v' = IF v < MaxAttempts THEN v + 1 ELSE v
    BY <1>2, <1>15, IncrSets, SetsType DEF RecordFailure
  <2>2. UNCHANGED <<lock, tried>> /\ pc[r] = "failed"
    BY <1>15 DEF RecordFailure
  <2>3. Counted = (IF v < MaxAttempts THEN v ELSE MaxAttempts - 1)
        /\ Counted' = (IF v' < MaxAttempts THEN v' ELSE MaxAttempts - 1)
    BY DEF Counted
  <2>4. CASE v = 0
    <3>1. Enter(r, "fail_expire")
      BY <1>15, <2>4 DEF RecordFailure
    <3>2. T' = T /\ U' = IF MaxAttempts = 1 THEN U ELSE U - 1
      BY <1>1, <1>5, <1>6, <2>2, <3>1 DEF OneIf
    <3> QED
      BY <1>1, <1>2, <1>7, <1>8, <2>1, <2>2, <2>3, <2>4, <3>2
  <2>5. CASE v # 0
    <3>1. Enter(r, IF v + 1 >= MaxAttempts THEN "lock" ELSE "idle")
      BY <1>15, <2>5 DEF RecordFailure, AfterFailure
    <3>2. T' = T /\ U' = IF v + 1 >= MaxAttempts THEN U ELSE U - 1
      BY <1>1, <1>2, <1>5, <1>6, <2>2, <3>1 DEF OneIf
    <3> QED
      BY <1>1, <1>2, <1>7, <1>8, <2>1, <2>2, <2>3, <2>5, <3>2
  <2> QED
    BY <2>4, <2>5
<1>16. CASE ExpireFailures(r)
  <2>1. UNCHANGED counter["fail"].value
    BY <1>2, <1>16, ExpireSets, SetsType DEF ExpireFailures
  <2>2. Enter(r, IF MaxAttempts = 1 THEN "lock" ELSE "idle") /\ pc[r] = "fail_expire"
    BY <1>1, <1>16 DEF ExpireFailures, AfterFailure
  <2>3. U' = U /\ T' = T
    BY <1>1, <1>5, <1>6, <2>2 DEF OneIf
  <2> QED
    BY <1>1, <1>9, <1>16, <2>1, <2>3 DEF ExpireFailures
<1>17. CASE SetLock(r)
  <2>1. U' = U - 1 /\ T' = T /\ UNCHANGED <<tried, counter>> /\ lock' = LockFor
    BY <1>1, <1>5, <1>6, <1>17 DEF SetLock, OneIf
  <2> QED
    BY <1>1, <1>3, <1>7, <1>8, <2>1
<1>18. CASE RecordSuccess(r)
  <2>1. /\ U' = U /\ tried' = U /\ lock' = 0
    BY <1>1, <1>5, <1>6, <1>18 DEF RecordSuccess, OneIf, U
  <2>2. counter'["fail"].value = 0
    BY <1>2, <1>18 DEF RecordSuccess, Absent, Counters
  <2>3. Counted' = 0
    BY <1>1, <2>2 DEF Counted
  <2> QED
    BY <1>1, <1>8, <2>1, <2>3
<1>19. CASE Crash(r)
  <2>1. /\ Enter(r, "idle") /\ UNCHANGED <<lock, counter>>
        /\ tried' = tried - OneIf(pc[r] \in Unrecorded)
    BY <1>1, <1>19 DEF Crash, Unanswered, OneIf
  <2>2. U' = U - OneIf(pc[r] \in Unrecorded) /\ T' <= T /\ T' \in Int
    BY <1>1, <1>5, <1>6, <2>1 DEF OneIf
  <2>3. Counted' = Counted /\ lock' = lock
    BY <1>4, <2>1
  <2>4. OneIf(pc[r] \in Unrecorded) \in Nat
    BY DEF OneIf
  <2> HIDE DEF OneIf
  <2> QED
    BY <1>1, <1>3, <1>7, <1>8, <2>1, <2>2, <2>3, <2>4
<1> QED
  BY <1>10, <1>11, <1>12, <1>13, <1>14, <1>15, <1>16, <1>17, <1>18, <1>19
     DEF LoginStep

-----------------------------------------------------------------------------
LEMMA TickCounters ==
    ASSUME SCTypeOK, Counters, Tick
    PROVE  /\ \A k \in Keys : counter'[k] \in Counter(k)
           /\ Counters'
           /\ counter'["fail"].value = IF counter["fail"].left = 1 THEN 0
                                                              ELSE counter["fail"].value
<1> DEFINE New(k) == IF counter[k].left = 1 THEN Absent
                     ELSE [counter[k] EXCEPT !.left = Down(@)]
<1>1. counter' = [k \in Keys |-> New(k)]
  BY DEF Tick
<1>2. ASSUME NEW k \in Keys
      PROVE  /\ New(k) \in Counter(k)
             /\ New(k).value = IF counter[k].left = 1 THEN 0 ELSE counter[k].value
  <2>1. counter[k] \in Counter(k) /\ Window \in Nat \ {0} /\ Cap[k] \in Nat \ {0}
    BY CounterType
  <2>2. CASE counter[k].left = 1
    BY <2>2, AbsentType DEF Absent
  <2>3. CASE counter[k].left # 1
    BY <2>1, <2>3 DEF Counter, Down, Never
  <2> QED
    BY <2>2, <2>3
<1>3. "fail" \in Keys
  BY DEF Keys
<1> HIDE DEF New
<1> QED
  BY <1>1, <1>2, <1>3 DEF Counters

LEMMA TokenAfter ==
    ASSUME NEW d \in Token, NEW n, NEW k
    PROVE  [d EXCEPT !.left = n, !.key = k]
             = [left |-> n, key |-> k, covered |-> d.covered, revoked |-> d.revoked,
                closed |-> d.closed]
<1>1. [d EXCEPT !.left = n]
        = [left |-> n, key |-> d.key, covered |-> d.covered, revoked |-> d.revoked,
           closed |-> d.closed]
  BY DEF Token
<1>2. ASSUME NEW e, e = [left |-> n, key |-> d.key, covered |-> d.covered,
                         revoked |-> d.revoked, closed |-> d.closed]
      PROVE  [e EXCEPT !.key = k]
               = [left |-> n, key |-> k, covered |-> d.covered, revoked |-> d.revoked,
                  closed |-> d.closed]
  BY <1>2
<1> QED
  BY <1>1, <1>2, Zenon

LEMMA TokenIssued ==
    ASSUME NEW d \in Token, NEW n, NEW c
    PROVE  [d EXCEPT !.left = n, !.covered = c]
             = [left |-> n, key |-> d.key, covered |-> c, revoked |-> d.revoked,
                closed |-> d.closed]
<1>1. [d EXCEPT !.left = n]
        = [left |-> n, key |-> d.key, covered |-> d.covered, revoked |-> d.revoked,
           closed |-> d.closed]
  BY DEF Token
<1>2. ASSUME NEW e, e = [left |-> n, key |-> d.key, covered |-> d.covered,
                         revoked |-> d.revoked, closed |-> d.closed]
      PROVE  [e EXCEPT !.covered = c]
               = [left |-> n, key |-> d.key, covered |-> c, revoked |-> d.revoked,
                  closed |-> d.closed]
  BY <1>2
<1> QED
  BY <1>1, <1>2, Zenon

LEMMA NoTokenType ==
    /\ NoToken \in Token /\ NoToken.key = 0
    /\ NoToken.left = -2
    /\ ~NoToken.revoked /\ ~NoToken.closed
<1>1. Life \in Nat \ {0}
  BY SCAssumption
<1> QED
  BY <1>1 DEF Token, NoToken

LEMMA TokenTick ==
    ASSUME SCTypeOK, NEW t \in Tokens, Tick
    PROVE  /\ token'[t] \in Token
           /\ token[t].left <= -1 => token'[t] = NoToken
           /\ token[t].left > -1 =>
                /\ token'[t].left = token[t].left - 1
                /\ token'[t].key = Down(token[t].key)
                /\ token'[t].covered = token[t].covered
                /\ token'[t].revoked = token[t].revoked
                /\ token'[t].closed = token[t].closed
<1>1. token[t] \in Token /\ Life \in Nat \ {0}
  BY SCAssumption DEF SCTypeOK
<1>2. token'[t] = IF token[t].left <= -1 THEN NoToken
                  ELSE [token[t] EXCEPT !.left = @ - 1, !.key = Down(@)]
  BY DEF Tick
<1>3. CASE token[t].left <= -1
  <2>1. NoToken \in Token
    BY <1>1 DEF Token, NoToken
  <2>2. ~(token[t].left > -1)
    BY <1>1, <1>3 DEF Token
  <2> QED
    BY <1>2, <1>3, <2>1, <2>2
<1>4. CASE token[t].left > -1
  <2> DEFINE n == token[t].left - 1
             k == Down(token[t].key)
  <2>1. n \in -2..(2 * Life) /\ k \in 0..(2 * Life) /\ ~(token[t].left <= -1)
    BY <1>1, <1>4 DEF Token, Down
  <2>2. token'[t] = [token[t] EXCEPT !.left = n, !.key = k]
    BY <1>2, <2>1
  <2> HIDE DEF n, k
  <2>3. token'[t] = [left |-> n, key |-> k, covered |-> token[t].covered,
                     revoked |-> token[t].revoked, closed |-> token[t].closed]
    BY <1>1, <2>2, TokenAfter
  <2>4. /\ token[t].covered \in BOOLEAN /\ token[t].revoked \in BOOLEAN
        /\ token[t].closed \in BOOLEAN
    BY <1>1 DEF Token
  <2>5. token'[t] \in Token
    BY <2>1, <2>3, <2>4 DEF Token
  <2> QED
    BY <2>1, <2>3, <2>5 DEF n, k
<1> QED
  BY <1>1, <1>3, <1>4 DEF Token

LEMMA TickType ==
    ASSUME SCTypeOK, Counters, Tick
    PROVE  SCTypeOK' /\ Counters'
<1>1. Life \in Nat \ {0} /\ LockFor \in Nat \ {0}
  BY SCAssumption
<1>2. lock' \in 0..LockFor /\ odd' \in BOOLEAN
  <2>1. lock \in 0..LockFor /\ lock' = Down(lock)
    BY DEF Tick, SCTypeOK
  <2>2. odd' \in BOOLEAN
    BY Zenon DEF Tick
  <2> QED
    BY <1>1, <2>1, <2>2 DEF Down
<1>3. bar' \in [left : 0..(2 * Life), fresh : BOOLEAN]
  <2>1. Down(bar.left) \in 0..(2 * Life)
    BY <1>1 DEF SCTypeOK, Down
  <2>2. (bar.fresh /\ ~odd) \in BOOLEAN
    OBVIOUS
  <2>3. bar' = [left |-> Down(bar.left), fresh |-> bar.fresh /\ ~odd]
    BY DEF Tick
  <2> QED
    BY <2>1, <2>2, <2>3, Zenon
<1>4. tried' \in Nat
  BY NeverMore DEF Tick, SCTypeOK
<1>5. token' \in [Tokens -> Token]
  <2>1. \A t \in Tokens : token'[t] \in Token
    BY TokenTick
  <2> QED
    BY <2>1 DEF Tick
<1> QED
  BY <1>2, <1>3, <1>4, <1>5, TickCounters DEF SCTypeOK, Tick, Counter

LEMMA TickGuesses ==
    ASSUME SCTypeOK, Counters, Guesses, Tick
    PROVE  Guesses'
<1> DEFINE U == Cardinality(Unanswered)
           T == Cardinality(Trying)
           N == Cardinality(Requests)
<1>1. /\ U \in Nat /\ T \in Nat /\ N \in Nat /\ tried \in Nat /\ lock \in Nat
      /\ U + T <= N /\ MaxAttempts \in Nat \ {0}
  BY NeverMore, SCAssumption DEF SCTypeOK
<1>2. "fail" \in Keys /\ counter["fail"].value \in 0..MaxAttempts
  BY CounterType DEF Keys, Counter, Cap
<1>3. U' = U /\ T' = T
  BY DEF Tick, Unanswered, Unrecorded, AfterFailure,
         Trying, AtPlace
<1>4. /\ tried' = IF counter["fail"].left = 1 \/ lock = 1 THEN U ELSE tried
      /\ lock' = IF lock > 0 THEN lock - 1 ELSE lock
  BY DEF Tick, Down
<1>5. /\ Counted' = IF counter["fail"].left = 1 THEN 0 ELSE Counted
      /\ Counted \in Nat
  BY <1>1, <1>2, TickCounters DEF Counted
<1>6. /\ U <= tried
      /\ lock = 0 => tried <= Counted + U
      /\ lock > 0 => tried + T <= MaxAttempts - 1 + N
  BY DEF Guesses
<1>7. Guesses' <=> /\ U' <= tried'
                   /\ lock' = 0 => tried' <= Counted' + U'
                   /\ lock' > 0 => tried' + T' <= MaxAttempts - 1 + N
  BY DEF Guesses
<1> HIDE DEF U, T, N
<1> QED
  BY <1>1, <1>3, <1>4, <1>5, <1>6, <1>7

-----------------------------------------------------------------------------
LEMMA IssueKeeps ==
    ASSUME SCTypeOK, Entries, NEW t \in Tokens, Issue(t)
    PROVE  token' \in [Tokens -> Token] /\ Entries'
<1> DEFINE left == 2 * Life - (IF odd THEN 1 ELSE 0)
           issued == [NoToken EXCEPT !.left = left, !.covered = bar.fresh]
<1>1. /\ Life \in Nat \ {0} /\ odd \in BOOLEAN /\ bar.fresh \in BOOLEAN
      /\ token \in [Tokens -> Token]
  BY SCAssumption DEF SCTypeOK
<1>2. left \in -2..(2 * Life)
  BY <1>1
<1>3. token' = [token EXCEPT ![t] = issued] /\ UNCHANGED bar
  BY DEF Issue
<1>4. issued \in Token /\ ~issued.revoked /\ ~issued.closed
  <2> HIDE DEF left
  <2>1. issued = [left |-> left, key |-> NoToken.key, covered |-> bar.fresh,
                  revoked |-> NoToken.revoked, closed |-> NoToken.closed]
    BY NoTokenType, TokenIssued
  <2>2. /\ NoToken.revoked \in BOOLEAN /\ NoToken.closed \in BOOLEAN
        /\ NoToken.key \in 0..(2 * Life)
    BY NoTokenType DEF Token
  <2>3. issued \in Token
    BY <1>1, <1>2, <2>1, <2>2 DEF Token
  <2> QED
    BY <2>1, <2>3, NoTokenType
<1> HIDE DEF issued
<1> QED
  BY <1>1, <1>3, <1>4 DEF Entries

LEMMA RevokeKeeps ==
    ASSUME SCTypeOK, Entries, NEW t \in Tokens, RevokeToken(t)
    PROVE  token' \in [Tokens -> Token] /\ Entries'
<1> DEFINE left == token[t].left
           key == IF RevokedFor(left) > 0 THEN RevokedFor(left)
                                                    ELSE token[t].key
           barred_t == [token[t] EXCEPT !.key = key, !.revoked = TRUE]
<1>1. /\ Life \in Nat \ {0} /\ token \in [Tokens -> Token]
      /\ token[t] \in Token
  BY SCAssumption DEF SCTypeOK
<1>2. left \in -1..(2 * Life) /\ token[t].key \in 0..(2 * Life)
  BY <1>1 DEF RevokeToken, Decodes, Token
<1>3. key \in 0..(2 * Life) /\ left <= key + 1
  <2> HIDE DEF left
  <2> QED
    BY <1>1, <1>2 DEF RevokedFor
<1>4. token' = [token EXCEPT ![t] = barred_t] /\ UNCHANGED bar
  BY <1>1 DEF RevokeToken
<1> HIDE DEF key
<1>5. /\ barred_t \in Token /\ barred_t.left = left /\ barred_t.key = key
      /\ barred_t.closed = token[t].closed /\ barred_t.covered = token[t].covered
  BY <1>1, <1>3 DEF Token
<1> HIDE DEF barred_t
<1> QED
  BY <1>1, <1>3, <1>4, <1>5 DEF Entries

LEMMA RevokeAllKeeps ==
    ASSUME SCTypeOK, Entries, RevokeAllForUser
    PROVE  /\ token' \in [Tokens -> Token] /\ Entries'
           /\ bar' \in [left : 0..(2 * Life), fresh : BOOLEAN]
<1>1. /\ Life \in Nat \ {0} /\ \A t \in Tokens : token[t] \in Token
  BY SCAssumption DEF SCTypeOK
<1>2. bar'.left = 2 * Life /\ bar' \in [left : 0..(2 * Life), fresh : BOOLEAN]
  <2>1. bar' = [left |-> 2 * Life, fresh |-> TRUE] /\ TRUE \in BOOLEAN
    BY DEF RevokeAllForUser
  <2>2. 2 * Life \in 0..(2 * Life)
    BY <1>1
  <2> QED
    BY <2>1, <2>2, Zenon
<1>3. ASSUME NEW t \in Tokens
      PROVE  /\ token'[t] \in Token
             /\ token'[t].left = token[t].left /\ token'[t].key = token[t].key
             /\ token'[t].revoked = token[t].revoked
             /\ token'[t].closed => token'[t].covered
  <2>1. token[t] \in Token
    BY <1>1
  <2>2. CASE Decodes(t)
    <3>1. token'[t] = [token[t] EXCEPT !.covered = TRUE, !.closed = TRUE]
      BY <2>2 DEF RevokeAllForUser
    <3>2. /\ token'[t] \in Token /\ token'[t].covered
          /\ token'[t].left = token[t].left /\ token'[t].key = token[t].key
          /\ token'[t].revoked = token[t].revoked
      BY <2>1, <3>1 DEF Token
    <3> QED
      BY <3>2
  <2>3. CASE ~Decodes(t)
    <3>1. token'[t] = token[t]
      BY <2>3 DEF RevokeAllForUser
    <3> QED
      BY <2>1, <3>1 DEF Entries
  <2> QED
    BY <2>2, <2>3
<1>4. \A t \in Tokens : token'[t].left <= 2 * Life
  BY <1>1, <1>3 DEF Token
<1>5. token' \in [Tokens -> Token]
  BY <1>3 DEF RevokeAllForUser
<1> QED
  BY <1>2, <1>3, <1>4, <1>5 DEF Entries

LEMMA TickEntries ==
    ASSUME SCTypeOK, Entries, Tick
    PROVE  Entries'
<1>1. /\ bar.left \in Nat /\ bar'.left = Down(bar.left)
      /\ \A t \in Tokens : token[t].left \in Int /\ token[t].key \in Nat
  <2>1. bar.left \in Nat
    BY SCAssumption DEF SCTypeOK
  <2>2. bar'.left = Down(bar.left)
    BY Zenon DEF Tick
  <2>3. \A t \in Tokens : token[t] \in Token
    BY DEF SCTypeOK
  <2>4. Life \in Nat
    BY SCAssumption
  <2> QED
    BY <2>1, <2>2, <2>3, <2>4 DEF Token
<1>2. ASSUME NEW t \in Tokens
      PROVE  /\ token'[t].revoked => token'[t].left <= token'[t].key + 1
             /\ token'[t].closed => token'[t].covered /\ token'[t].left <= bar'.left
  <2>1. CASE token[t].left <= -1
    BY <2>1, TokenTick, NoTokenType
  <2>2. CASE token[t].left > -1
    BY <1>1, <2>2, TokenTick DEF Entries, Down
  <2> QED
    BY <1>1, <2>1, <2>2
<1> QED
  BY <1>2 DEF Entries

-----------------------------------------------------------------------------
ControlsInv == SCTypeOK /\ Counters /\ Guesses /\ Entries

LEMMA ControlsInit ==
    ASSUME SCInit
    PROVE  ControlsInv
<1> USE DEF SCInit
<1>1. /\ Life \in Nat \ {0} /\ LockFor \in Nat \ {0} /\ Window \in Nat \ {0}
      /\ MaxRate \in Nat \ {0} /\ MaxAttempts \in Nat \ {0}
  BY SCAssumption
<1>2. Counters
  BY DEF Counters
<1>3. \A k \in Keys : counter[k] \in Counter(k)
  BY <1>1 DEF Keys, Cap, Counter, Absent, Never
<1>4. bar \in [left : 0..(2 * Life), fresh : BOOLEAN] /\ odd \in BOOLEAN
  <2>1. 0 \in 0..(2 * Life) /\ FALSE \in BOOLEAN
    BY <1>1
  <2> QED
    BY <2>1, Zenon
<1>5. SCTypeOK
  BY <1>1, <1>3, <1>4, NoTokenType DEF SCTypeOK, Counter
<1>6. Unanswered = {} /\ Trying = {}
  BY DEF Unanswered, Unrecorded, Trying, AtPlace
<1>7. Counted = 0
  BY <1>1 DEF Counted, Keys, Absent
<1>8. Guesses
  BY <1>6, <1>7, FS_EmptySet DEF Guesses
<1>9. Entries
  BY NoTokenType DEF Entries
<1> QED
  BY <1>2, <1>5, <1>8, <1>9 DEF ControlsInv

LEMMA ControlsStep ==
    ASSUME ControlsInv, [SCNext]_SCvars
    PROVE  ControlsInv'
<1> USE DEF ControlsInv
<1>1. ASSUME NEW r \in Requests, LoginStep(r) \/ Crash(r)
      PROVE  ControlsInv'
  <2>1. UNCHANGED access
    BY <1>1 DEF LoginStep, Crash, CheckRate, ExpireRate,
         CheckLockout, LoginFails, LoginSucceeds,
         RecordFailure, ExpireFailures, SetLock,
         RecordSuccess
  <2>2. Entries'
    BY <2>1 DEF Entries, access
  <2> QED
    BY <1>1, <2>2, LoginType, LoginGuesses
<1>2. ASSUME UNCHANGED login, token' \in [Tokens -> Token], odd' = odd,
             bar' \in [left : 0..(2 * Life), fresh : BOOLEAN], Entries'
      PROVE  ControlsInv'
  <2>1. SCTypeOK' /\ Counters'
    BY <1>2 DEF login, SCTypeOK, Counters, Token
  <2>2. Guesses'
    BY <1>2 DEF login, Guesses, Counted, Trying, AtPlace, Unanswered,
                Unrecorded, AfterFailure
  <2> QED
    BY <1>2, <2>1, <2>2
<1>3. ASSUME NEW t \in Tokens, Issue(t)
      PROVE  ControlsInv'
  BY <1>2, <1>3, IssueKeeps DEF Issue, SCTypeOK
<1>4. ASSUME NEW t \in Tokens, RevokeToken(t)
      PROVE  ControlsInv'
  BY <1>2, <1>4, RevokeKeeps DEF RevokeToken, SCTypeOK
<1>5. CASE RevokeAllForUser
  BY <1>2, <1>5, RevokeAllKeeps DEF RevokeAllForUser
<1>6. CASE Tick
  BY <1>6, TickType, TickGuesses, TickEntries
<1>7. CASE UNCHANGED SCvars
  <2>1. UNCHANGED login /\ UNCHANGED <<odd, token, bar>>
    BY <1>7 DEF SCvars, login
  <2>2. Entries'
    BY <2>1 DEF Entries
  <2> QED
    BY <1>2, <2>1, <2>2 DEF SCTypeOK
<1> QED
  BY <1>1, <1>3, <1>4, <1>5, <1>6, <1>7 DEF SCNext

\* Every variable of the security controls has its type: in particular no
\* history of guesses is taken back that was not made.
THEOREM ControlsTyped == SCSpec => []SCTypeOK
<1>1. ControlsInv => SCTypeOK
  BY DEF ControlsInv
<1> QED
  BY <1>1, ControlsInit, ControlsStep, PTL DEF SCSpec

\* The passwords that can be tried before a lock are limited, for every limit
\* and every number of logins at a time.
THEOREM FewGuesses == SCSpec => []GuessesBounded
<1>1. ControlsInv => GuessesBounded
  <2> SUFFICES ASSUME ControlsInv
               PROVE  tried <= MaxAttempts - 1 + Cardinality(Requests)
    BY DEF GuessesBounded
  <2> DEFINE U == Cardinality(Unanswered)
             T == Cardinality(Trying)
             N == Cardinality(Requests)
  <2>1. /\ U \in Nat /\ T \in Nat /\ N \in Nat /\ U + T <= N
        /\ MaxAttempts \in Nat \ {0} /\ tried \in Nat /\ lock \in Nat
    BY NeverMore, SCAssumption DEF ControlsInv, SCTypeOK
  <2>2. "fail" \in Keys
    BY DEF Keys
  <2>3. counter["fail"].value \in 0..MaxAttempts
    BY <2>2, CounterType DEF ControlsInv, Counter, Cap
  <2>4. Counted \in Nat /\ Counted <= MaxAttempts - 1
    BY <2>1, <2>3 DEF Counted
  <2>5. /\ lock = 0 => tried <= Counted + U
        /\ lock > 0 => tried + T <= MaxAttempts - 1 + N
    BY DEF ControlsInv, Guesses
  <2> HIDE DEF U, T, N
  <2>6. tried <= MaxAttempts - 1 + N
    BY <2>1, <2>4, <2>5
  <2> QED
    BY <2>6 DEF N
<1> QED
  BY <1>1, ControlsInit, ControlsStep, PTL DEF SCSpec

\* An access token that was given up at a logout or closed by a change of the
\* password is refused up to the second in which it ends, although the entries
\* that refuse it are cut to whole seconds.
THEOREM RefusedLong == SCSpec => []RefusedToTheLastSecond
<1>1. ControlsInv => RefusedToTheLastSecond
  <2> SUFFICES ASSUME ControlsInv, NEW t \in Tokens, Accepted(t)
               PROVE  /\ token[t].revoked => token[t].left <= 1
                      /\ token[t].closed => token[t].left <= 0
    BY DEF RefusedToTheLastSecond
  <2>1. /\ token[t].revoked => token[t].left <= token[t].key + 1
        /\ token[t].closed => token[t].covered /\ token[t].left <= bar.left
        /\ token[t].key = 0 /\ ~(bar.left > 0 /\ token[t].covered)
    BY DEF ControlsInv, Entries, Accepted
  <2>2. bar.left \in Nat /\ token[t].left \in Int
    BY SCAssumption DEF ControlsInv, SCTypeOK, Token
  <2> QED
    BY <2>1, <2>2
<1> QED
  BY <1>1, ControlsInit, ControlsStep, PTL DEF SCSpec
=============================================================================
