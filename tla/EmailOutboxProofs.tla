-------------------------- MODULE EmailOutboxProofs --------------------------
(***************************************************************************)
(* Proofs about EmailOutbox for any number of messages, workers, attempts  *)
(* and crashes.                                                            *)
(*                                                                         *)
(* The limits on tries and copies are not inductive: they follow from      *)
(* claims being exclusive (Claims) and from an account of where every try  *)
(* and every copy is recorded (Account).  That the worker implements       *)
(* Delivery for every message is shown step by step from the same facts.   *)
(***************************************************************************)
EXTENDS EmailOutbox, TLAPS

\* A message is in at most one place of one job, and its row is open.
Claims ==
    /\ \A v, w \in Workers : v # w => Claimed(v) \cap Claimed(w) = {}
    /\ \A w \in Workers :
          /\ job[w].todo \cap Tried(w) = {}
          /\ job[w].sent \cap job[w].failed = {}
          /\ \A m \in Claimed(w) :
                /\ outbox[m].status \in {"pending", "retry"}
                /\ outbox[m].attempt_count < MaxAttempts

TriedNow(m) == \E w \in Workers : m \in Tried(w)

SentNow(m) == \E w \in Workers : m \in job[w].sent

One(b) == IF b THEN 1 ELSE 0

\* Every try is recorded in the row, in the job of a worker, or forgotten;
\* every copy too, or the answer to it was lost.
Account(m) ==
    /\ tries[m] = outbox[m].attempt_count + forgotten[m] + One(TriedNow(m))
    /\ copies[m] <= forgotten[m] + unsure[m] + One(outbox[m].status = "sent")
                      + One(SentNow(m))
    /\ outbox[m].status = "sent" \/ SentNow(m) => copies[m] >= 1
    /\ outbox[m].status = "absent" => outbox[m].attempt_count = 0

IInv ==
    /\ TypeOK
    /\ Claims
    /\ \A m \in Messages : Account(m)

-----------------------------------------------------------------------------
LEMMA RowAfter ==
    ASSUME NEW row \in Row, row.attempt_count < MaxAttempts
    PROVE  /\ AfterFailure(row) \in Row /\ AfterSuccess(row) \in Row
           /\ AfterFailure(row).attempt_count = row.attempt_count + 1
           /\ AfterSuccess(row).attempt_count = row.attempt_count + 1
           /\ AfterFailure(row).status \in {"failed", "retry"}
           /\ AfterSuccess(row).status = "sent"
<1>1. row.attempt_count + 1 \in 0 .. MaxAttempts
  BY ConstantsAssumption DEF Row
<1> QED
  BY <1>1 DEF Row, AfterFailure, AfterSuccess

\* How the three outcomes of a call of the mail server move a message.
Moved(w, m) ==
    /\ m \in job[w].todo
    /\ \/ job' = [job EXCEPT ![w].todo = @ \ {m}, ![w].sent = @ \cup {m}]
       \/ job' = [job EXCEPT ![w].todo = @ \ {m}, ![w].failed = @ \cup {m}]
    /\ UNCHANGED outbox

LEMMA SendMoves ==
    ASSUME NEW w \in Workers, Send(w)
    PROVE  \E m \in job[w].todo : Moved(w, m)
BY DEF Send, SendOne, SendFails, AnswerLost, Moved

LEMMA MovedType ==
    ASSUME TypeOK, NEW w \in Workers, NEW m \in job[w].todo, Moved(w, m)
    PROVE  job' \in [Workers -> Job] /\ m \in Messages
<1>1. job[w] \in Job /\ m \in Messages
  BY DEF TypeOK, Job
<1>2. /\ [job[w] EXCEPT !.todo = @ \ {m}, !.sent = @ \cup {m}] \in Job
      /\ [job[w] EXCEPT !.todo = @ \ {m}, !.failed = @ \cup {m}] \in Job
  BY <1>1 DEF Job
<1> QED
  BY <1>1, <1>2 DEF Moved, TypeOK

LEMMA TypeStep ==
    ASSUME TypeOK, Claims, Next
    PROVE  TypeOK'
<1> USE DEF TypeOK
<1>1. ASSUME NEW m \in Messages, Enqueue(m) PROVE TypeOK'
  BY <1>1, ConstantsAssumption DEF Enqueue, Row
<1>2. ASSUME NEW m \in Messages, BecomeDue(m) PROVE TypeOK'
  BY <1>2 DEF BecomeDue, Row
<1>3. ASSUME NEW w \in Workers, ProcessDue(w) PROVE TypeOK'
  <2>1. PICK batch \in SUBSET Due(w) : job' = [job EXCEPT ![w].todo = batch]
    BY <1>3 DEF ProcessDue
  <2>2. batch \subseteq Messages
    BY <2>1 DEF Due
  <2>3. job' \in [Workers -> Job]
    BY <2>1, <2>2 DEF Job
  <2> QED
    BY <2>3, <1>3 DEF ProcessDue
<1>4. ASSUME NEW w \in Workers, Send(w) PROVE TypeOK'
  <2>1. job' \in [Workers -> Job]
    BY <1>4, SendMoves, MovedType
  <2>2. \A m \in job[w].todo : m \in Messages
    BY DEF Job
  <2>3. /\ tries' \in [Messages -> Nat] /\ copies' \in [Messages -> Nat]
        /\ unsure' \in [Messages -> Nat]
    <3>1. CASE SendOne(w)
      BY <3>1, <2>2 DEF SendOne
    <3>2. CASE SendFails(w)
      BY <3>2, <2>2 DEF SendFails
    <3>3. CASE AnswerLost(w)
      BY <3>3, <2>2 DEF AnswerLost
    <3> QED
      BY <1>4, <3>1, <3>2, <3>3 DEF Send
  <2> QED
    BY <1>4, <2>1, <2>3 DEF Send, SendOne, SendFails, AnswerLost
<1>5. ASSUME NEW w \in Workers, Commit(w) PROVE TypeOK'
  <2>1. \A m \in Tried(w) : outbox[m].attempt_count < MaxAttempts
    BY DEF Claims, Claimed
  <2>2. outbox' \in [Messages -> Row]
    BY <1>5, <2>1, RowAfter DEF Commit, Tried
  <2>3. job' \in [Workers -> Job]
    BY <1>5 DEF Commit, Job, NoJob
  <2> QED
    BY <2>2, <2>3, <1>5 DEF Commit
<1>6. ASSUME NEW w \in Workers, Crash(w) PROVE TypeOK'
  <2>1. crashes' \in 0 .. MaxCrashes
    BY <1>6, ConstantsAssumption DEF Crash
  <2> QED
    BY <2>1, <1>6 DEF Crash, Job, NoJob
<1> QED
  BY <1>1, <1>2, <1>3, <1>4, <1>5, <1>6 DEF Next, WorkerStep

-----------------------------------------------------------------------------
LEMMA ClaimsStep ==
    ASSUME TypeOK, Claims, Next
    PROVE  Claims'
<1> USE DEF Claimed, Tried
<1>1. ASSUME NEW m \in Messages, Enqueue(m) PROVE Claims'
  BY <1>1 DEF Enqueue, Claims, TypeOK, Row, Job
<1>2. ASSUME NEW m \in Messages, BecomeDue(m) PROVE Claims'
  BY <1>2 DEF BecomeDue, Claims, TypeOK, Row, Job
<1>3. ASSUME NEW w \in Workers, ProcessDue(w) PROVE Claims'
  <2>1. PICK batch \in SUBSET Due(w) : job' = [job EXCEPT ![w].todo = batch]
    BY <1>3 DEF ProcessDue
  <2>2. /\ job'[w].todo = batch /\ job'[w].sent = {} /\ job'[w].failed = {}
        /\ \A v \in Workers \ {w} : job'[v] = job[v]
        /\ outbox' = outbox
    BY <2>1, <1>3 DEF ProcessDue, TypeOK, Job
  <2>3. \A v \in Workers : batch \cap Claimed(v) = {}
    BY <2>1 DEF Due, Locked
  <2>4. \A m \in batch : /\ outbox[m].status \in {"pending", "retry"}
                         /\ outbox[m].attempt_count < MaxAttempts
    BY <2>1 DEF Due
  <2> QED
    BY <2>2, <2>3, <2>4 DEF Claims
<1>4. ASSUME NEW w \in Workers, Send(w) PROVE Claims'
  <2>1. PICK m \in job[w].todo : Moved(w, m)
    BY <1>4, SendMoves
  <2>2. /\ job'[w].todo = job[w].todo \ {m}
        /\ \/ job'[w].sent = job[w].sent \cup {m} /\ job'[w].failed = job[w].failed
           \/ job'[w].failed = job[w].failed \cup {m} /\ job'[w].sent = job[w].sent
        /\ \A v \in Workers \ {w} : job'[v] = job[v]
        /\ outbox' = outbox
    BY <2>1 DEF Moved, TypeOK, Job
  <2>3. Claimed(w)' = Claimed(w) /\ \A v \in Workers \ {w} : Claimed(v)' = Claimed(v)
    BY <2>1, <2>2
  <2>4. \A v \in Workers : \A n \in Claimed(v)' :
           /\ outbox'[n].status \in {"pending", "retry"}
           /\ outbox'[n].attempt_count < MaxAttempts
    BY <2>2, <2>3 DEF Claims
  <2>5. \A u, v \in Workers : u # v => Claimed(u)' \cap Claimed(v)' = {}
    BY <2>3 DEF Claims
  <2>6. \A v \in Workers : /\ job'[v].todo \cap (job'[v].sent \cup job'[v].failed) = {}
                           /\ job'[v].sent \cap job'[v].failed = {}
    BY <2>1, <2>2 DEF Claims
  <2> QED
    BY <2>4, <2>5, <2>6 DEF Claims
<1>5. ASSUME NEW w \in Workers, Commit(w) \/ Crash(w) PROVE Claims'
  <2>1. /\ job'[w].todo = {} /\ job'[w].sent = {} /\ job'[w].failed = {}
        /\ \A v \in Workers \ {w} : job'[v] = job[v]
    BY <1>5 DEF Commit, Crash, TypeOK, NoJob
  <2>2. \A v \in Workers \ {w} : \A m \in Claimed(v) : outbox'[m] = outbox[m]
    BY <1>5 DEF Commit, Crash, TypeOK, Job, Claims
  <2> QED
    BY <2>1, <2>2 DEF Claims
<1> QED
  BY <1>1, <1>2, <1>3, <1>4, <1>5 DEF Next, WorkerStep

-----------------------------------------------------------------------------
\* A try by w on m puts it among what w has tried.
LEMMA AccountSend ==
    ASSUME IInv, NEW w \in Workers, Send(w)
    PROVE  \A n \in Messages : Account(n)'
<1> USE DEF IInv
<1>1. PICK m \in job[w].todo : /\ Moved(w, m)
                              /\ tries' = [tries EXCEPT ![m] = @ + 1]
                              /\ \/ /\ job'[w].sent = job[w].sent \cup {m}
                                    /\ job'[w].failed = job[w].failed
                                    /\ copies' = [copies EXCEPT ![m] = @ + 1]
                                    /\ unsure' = unsure
                                 \/ /\ job'[w].sent = job[w].sent
                                    /\ job'[w].failed = job[w].failed \cup {m}
                                    /\ copies' = copies /\ unsure' = unsure
                                 \/ /\ job'[w].sent = job[w].sent
                                    /\ job'[w].failed = job[w].failed \cup {m}
                                    /\ copies' = [copies EXCEPT ![m] = @ + 1]
                                    /\ unsure' = [unsure EXCEPT ![m] = @ + 1]
  <2>1. ASSUME NEW m \in job[w].todo,
               job' = [job EXCEPT ![w].todo = @ \ {m}, ![w].sent = @ \cup {m}]
        PROVE  job'[w].sent = job[w].sent \cup {m} /\ job'[w].failed = job[w].failed
    BY <2>1 DEF TypeOK, Job
  <2>2. ASSUME NEW m \in job[w].todo,
               job' = [job EXCEPT ![w].todo = @ \ {m}, ![w].failed = @ \cup {m}]
        PROVE  job'[w].sent = job[w].sent /\ job'[w].failed = job[w].failed \cup {m}
    BY <2>2 DEF TypeOK, Job
  <2>3. CASE SendOne(w)
    BY <2>3, <2>1 DEF SendOne, Moved
  <2>4. CASE SendFails(w)
    BY <2>4, <2>2 DEF SendFails, Moved
  <2>5. CASE AnswerLost(w)
    BY <2>5, <2>2 DEF AnswerLost, Moved
  <2> QED
    BY <2>3, <2>4, <2>5 DEF Send
<1>2. /\ \A v \in Workers \ {w} : job'[v] = job[v]
      /\ outbox' = outbox /\ forgotten' = forgotten /\ m \in Messages
  BY <1>1 DEF Moved, TypeOK, Job, Send, SendOne, SendFails, AnswerLost
<1>3. ~TriedNow(m) /\ ~SentNow(m)
  BY <1>1 DEF Claims, Claimed, Tried, TriedNow, SentNow
<1>4. TriedNow(m)'
  BY <1>1 DEF TriedNow, Tried
<1>5. SentNow(m)' <=> job'[w].sent = job[w].sent \cup {m}
  BY <1>1, <1>2, <1>3 DEF SentNow, Claims, Claimed, Tried
<1>6. \A n \in Messages \ {m} : /\ TriedNow(n)' <=> TriedNow(n)
                                /\ SentNow(n)' <=> SentNow(n)
  BY <1>1, <1>2 DEF TriedNow, SentNow, Tried
<1>7. ASSUME NEW n \in Messages \ {m} PROVE Account(n)'
  <2>1. /\ tries'[n] = tries[n] /\ copies'[n] = copies[n] /\ unsure'[n] = unsure[n]
        /\ outbox'[n] = outbox[n] /\ forgotten'[n] = forgotten[n]
    BY <1>1, <1>2 DEF TypeOK
  <2> QED
    BY <2>1, <1>6 DEF Account, One
<1>8. Account(m)'
  <2>1. outbox[m].status # "sent" /\ outbox[m].attempt_count \in Nat
    BY <1>1, <1>2 DEF Claims, Claimed, TypeOK, Row
  <2>2. /\ tries[m] \in Nat /\ copies[m] \in Nat /\ unsure[m] \in Nat
        /\ forgotten[m] \in Nat
    BY <1>2 DEF TypeOK
  <2>3. /\ tries[m] = outbox[m].attempt_count + forgotten[m]
        /\ copies[m] <= forgotten[m] + unsure[m]
    BY <1>2, <1>3, <2>1, <2>2 DEF Account, One
  <2>4. tries'[m] = tries[m] + 1
    BY <1>1, <1>2 DEF TypeOK
  <2>5. tries'[m] = outbox'[m].attempt_count + forgotten'[m] + One(TriedNow(m)')
    BY <1>2, <1>4, <2>1, <2>2, <2>3, <2>4 DEF One
  <2>6. CASE job'[w].sent = job[w].sent \cup {m}
    <3>1. copies'[m] = copies[m] + 1 /\ unsure'[m] = unsure[m]
      BY <1>1, <1>2, <1>3, <2>6 DEF SentNow, TypeOK
    <3>2. SentNow(m)'
      BY <1>5, <2>6
    <3> QED
      BY <1>2, <2>1, <2>2, <2>3, <2>5, <3>1, <3>2 DEF Account, One
  <2>7. CASE job'[w].sent # job[w].sent \cup {m}
    <3>1. \/ copies'[m] = copies[m] /\ unsure'[m] = unsure[m]
          \/ copies'[m] = copies[m] + 1 /\ unsure'[m] = unsure[m] + 1
      BY <1>1, <1>2, <2>7 DEF TypeOK
    <3>2. ~SentNow(m)'
      BY <1>5, <2>7
    <3> QED
      BY <1>2, <2>1, <2>2, <2>3, <2>5, <3>1, <3>2 DEF Account, One
  <2> QED
    BY <2>6, <2>7
<1> QED
  BY <1>7, <1>8

\* A commit moves the tries of w from its job into the rows.
LEMMA AccountCommit ==
    ASSUME IInv, NEW w \in Workers, Commit(w)
    PROVE  \A m \in Messages : Account(m)'
<1> USE DEF IInv
<1> SUFFICES ASSUME NEW m \in Messages PROVE Account(m)'
  OBVIOUS
<1>1. /\ tries' = tries /\ copies' = copies /\ unsure' = unsure /\ forgotten' = forgotten
      /\ job'[w].sent = {} /\ job'[w].failed = {}
      /\ \A v \in Workers \ {w} : job'[v] = job[v]
  BY DEF Commit, TypeOK, NoJob
<1>2. /\ tries[m] \in Nat /\ copies[m] \in Nat /\ unsure[m] \in Nat
      /\ forgotten[m] \in Nat /\ outbox[m] \in Row /\ outbox[m].attempt_count \in Nat
  BY DEF TypeOK, Row
<1>3. CASE m \in Tried(w)
  <2>1. /\ outbox[m].attempt_count < MaxAttempts /\ outbox[m].status # "sent"
        /\ m \notin job[w].sent <=> m \in job[w].failed
        /\ \A v \in Workers \ {w} : m \notin Tried(v)
    BY <1>3 DEF Claims, Claimed, Tried
  <2>2. ~TriedNow(m)' /\ ~SentNow(m)'
    BY <1>1, <2>1 DEF TriedNow, SentNow, Tried
  <2>3. TriedNow(m) /\ (SentNow(m) <=> m \in job[w].sent)
    BY <1>3, <2>1 DEF TriedNow, SentNow, Tried
  <2>4. /\ outbox'[m].attempt_count = outbox[m].attempt_count + 1
        /\ outbox'[m].status = "sent" <=> m \in job[w].sent
        /\ outbox'[m].status # "absent"
    BY <1>2, <1>3, <2>1, RowAfter DEF Commit, Tried
  <2> QED
    BY <1>1, <1>2, <2>1, <2>2, <2>3, <2>4 DEF Account, One
<1>4. CASE m \notin Tried(w)
  <2>1. outbox'[m] = outbox[m]
    BY <1>4 DEF Commit, Tried
  <2>2. (TriedNow(m)' <=> TriedNow(m)) /\ (SentNow(m)' <=> SentNow(m))
    BY <1>1, <1>4 DEF TriedNow, SentNow, Tried
  <2> QED
    BY <1>1, <2>1, <2>2 DEF Account, One
<1> QED
  BY <1>3, <1>4

\* A crash turns the tries of w into forgotten ones.
LEMMA AccountCrash ==
    ASSUME IInv, NEW w \in Workers, Crash(w)
    PROVE  \A m \in Messages : Account(m)'
<1> USE DEF IInv
<1> SUFFICES ASSUME NEW m \in Messages PROVE Account(m)'
  OBVIOUS
<1>1. /\ tries' = tries /\ copies' = copies /\ unsure' = unsure /\ outbox' = outbox
      /\ forgotten'[m] = IF m \in Tried(w) THEN forgotten[m] + 1 ELSE forgotten[m]
      /\ job'[w].sent = {} /\ job'[w].failed = {}
      /\ \A v \in Workers \ {w} : job'[v] = job[v]
  BY DEF Crash, TypeOK, NoJob
<1>2. /\ tries[m] \in Nat /\ copies[m] \in Nat /\ unsure[m] \in Nat
      /\ forgotten[m] \in Nat /\ outbox[m].attempt_count \in Nat
  BY DEF TypeOK, Row
<1>3. CASE m \in Tried(w)
  <2>1. /\ outbox[m].status # "sent"
        /\ \A v \in Workers \ {w} : m \notin Tried(v)
    BY <1>3 DEF Claims, Claimed, Tried
  <2>2. ~TriedNow(m)' /\ ~SentNow(m)' /\ TriedNow(m)
    BY <1>1, <1>3, <2>1 DEF TriedNow, SentNow, Tried
  <2> QED
    BY <1>1, <1>2, <1>3, <2>1, <2>2 DEF Account, One
<1>4. CASE m \notin Tried(w)
  <2>1. (TriedNow(m)' <=> TriedNow(m)) /\ (SentNow(m)' <=> SentNow(m))
    BY <1>1, <1>4 DEF TriedNow, SentNow, Tried
  <2> QED
    BY <1>1, <1>4, <2>1 DEF Account, One
<1> QED
  BY <1>3, <1>4

\* IInv is inductive.
LEMMA Invariance == Spec => []IInv
<1>1. Init => IInv
  BY ConstantsAssumption
     DEF Init, IInv, TypeOK, Claims, Claimed, Tried, Account, TriedNow, SentNow, One,
         NoRow, NoJob, Row, Job
<1>2. IInv /\ [Next]_vars => IInv'
  <2> SUFFICES ASSUME IInv, [Next]_vars PROVE IInv'
    OBVIOUS
  <2>1. CASE UNCHANGED vars
    BY <2>1 DEF vars, IInv, TypeOK, Claims, Claimed, Tried, Account, TriedNow, SentNow
  <2>2. CASE Next
    <3>1. TypeOK' /\ Claims'
      BY <2>2, TypeStep, ClaimsStep DEF IInv
    <3>2. ASSUME NEW m \in Messages, Enqueue(m) \/ BecomeDue(m)
          PROVE  \A n \in Messages : Account(n)'
      <4>1. \A n \in Messages :
               /\ outbox'[n].attempt_count = outbox[n].attempt_count
               /\ outbox'[n].status = "sent" <=> outbox[n].status = "sent"
               /\ outbox'[n].status = "absent" => outbox[n].status = "absent"
        <5>1. CASE Enqueue(m)
          <6>1. outbox[m].attempt_count = 0
            BY <5>1 DEF Enqueue, IInv, Account
          <6> QED
            BY <5>1, <6>1 DEF Enqueue, IInv, TypeOK, Row
        <5>2. CASE BecomeDue(m)
          BY <5>2 DEF BecomeDue, IInv, TypeOK, Row
        <5> QED
          BY <3>2, <5>1, <5>2
      <4>2. UNCHANGED <<job, tries, copies, forgotten, unsure>>
        BY <3>2 DEF Enqueue, BecomeDue
      <4> QED
        BY <4>1, <4>2 DEF IInv, Account, TriedNow, SentNow, Tried, One
    <3>3. ASSUME NEW w \in Workers, ProcessDue(w)
          PROVE  \A n \in Messages : Account(n)'
      <4>1. \A v \in Workers : job'[v].sent = job[v].sent /\ job'[v].failed = job[v].failed
        BY <3>3 DEF ProcessDue, IInv, TypeOK, Job
      <4>2. UNCHANGED <<outbox, tries, copies, forgotten, unsure>>
        BY <3>3 DEF ProcessDue
      <4> QED
        BY <4>1, <4>2 DEF IInv, Account, TriedNow, SentNow, Tried, One
    <3> QED
      BY <2>2, <3>1, <3>2, <3>3, AccountSend, AccountCommit, AccountCrash
         DEF Next, WorkerStep, IInv
  <2> QED
    BY <2>1, <2>2
<1> QED
  BY <1>1, <1>2, PTL DEF Spec

-----------------------------------------------------------------------------
\* The rows of the outbox keep their types for any number of workers and
\* crashes; attempt_count never passes max_attempts.
THEOREM TypeCorrect == Spec => []TypeOK
<1>1. IInv => TypeOK
  BY DEF IInv
<1> QED
  BY <1>1, Invariance, PTL

\* The mail server is called for a message at most max_attempts times plus
\* the attempts that a crash of process_due made the database forget.
THEOREM RetryLimitHolds == Spec => []RetryLimit
<1>1. IInv => RetryLimit
  <2> SUFFICES ASSUME IInv, NEW m \in Messages
               PROVE  tries[m] <= MaxAttempts + forgotten[m]
    BY DEF RetryLimit
  <2>1. /\ outbox[m].attempt_count \in Nat /\ outbox[m].attempt_count <= MaxAttempts
        /\ forgotten[m] \in Nat
    BY ConstantsAssumption DEF IInv, TypeOK, Row
  <2>2. TriedNow(m) => outbox[m].attempt_count < MaxAttempts
    BY DEF IInv, Claims, Claimed, TriedNow
  <2> QED
    BY <2>1, <2>2, ConstantsAssumption DEF IInv, Account, One
<1> QED
  BY <1>1, Invariance, PTL

\* A message is recorded as sent only after the mail server took it.
THEOREM SentMeansTaken == Spec => []SentWasTaken
<1>1. IInv => SentWasTaken
  BY DEF IInv, Account, SentWasTaken
<1> QED
  BY <1>1, Invariance, PTL

\* A second copy always goes back to a crash before the commit or to a lost
\* answer, never to two workers sharing a message.
THEOREM DuplicatesAreExplained == Spec => []DuplicatesExplained
<1>1. IInv => DuplicatesExplained
  <2> SUFFICES ASSUME IInv, NEW m \in Messages
               PROVE  copies[m] <= 1 + forgotten[m] + unsure[m]
    BY DEF DuplicatesExplained
  <2>1. copies[m] \in Nat /\ forgotten[m] \in Nat /\ unsure[m] \in Nat
    BY DEF IInv, TypeOK
  <2>2. ~(outbox[m].status = "sent" /\ SentNow(m))
    BY DEF IInv, Claims, Claimed, Tried, SentNow
  <2> QED
    BY <2>1, <2>2 DEF IInv, Account, One
<1> QED
  BY <1>1, Invariance, PTL

\* What is recorded as sent or given up is never tried or rewritten again.
THEOREM FinishedStaysFinal == Spec => FinishedIsFinal
<1>1. IInv /\ [Next]_vars
        => [\A m \in Messages :
              outbox[m].status \in {"sent", "failed"}
                => outbox'[m] = outbox[m] /\ tries'[m] = tries[m]]_vars
  <2> SUFFICES ASSUME IInv, Next, NEW m \in Messages,
                      outbox[m].status \in {"sent", "failed"}
               PROVE  outbox'[m] = outbox[m] /\ tries'[m] = tries[m]
    OBVIOUS
  <2>1. \A w \in Workers : m \notin Claimed(w)
    BY DEF IInv, Claims
  <2>2. ASSUME NEW n \in Messages, Enqueue(n) \/ BecomeDue(n)
        PROVE  outbox'[m] = outbox[m] /\ tries'[m] = tries[m]
    BY <2>2 DEF Enqueue, BecomeDue, IInv, TypeOK
  <2>3. ASSUME NEW w \in Workers, Send(w)
        PROVE  outbox'[m] = outbox[m] /\ tries'[m] = tries[m]
    BY <2>1, <2>3 DEF Send, SendOne, SendFails, AnswerLost, Claimed, IInv, TypeOK
  <2>4. ASSUME NEW w \in Workers, ProcessDue(w) \/ Commit(w) \/ Crash(w)
        PROVE  outbox'[m] = outbox[m] /\ tries'[m] = tries[m]
    BY <2>1, <2>4 DEF ProcessDue, Commit, Crash, Claimed, Tried
  <2> QED
    BY <2>2, <2>3, <2>4 DEF Next, WorkerStep
<1> QED
  BY <1>1, Invariance, PTL DEF Spec, FinishedIsFinal
-----------------------------------------------------------------------------
\* What the abstract specification sees of a message that is typed.
LEMMA StateOf ==
    ASSUME TypeOK, NEW m \in Messages
    PROVE  /\ outbox[m].status \in {"absent", "pending", "retry", "sent", "failed"}
           /\ outbox[m].attempt_count \in 0 .. MaxAttempts
           /\ tries[m] \in Nat /\ forgotten[m] \in Nat /\ copies[m] \in Nat
           /\ (State(m) = "open") <=> (outbox[m].status \in {"pending", "retry"})
           /\ outbox[m].status = "absent" => State(m) = "absent"
           /\ outbox[m].status = "sent" => State(m) = "delivered"
           /\ outbox[m].status = "failed" => State(m) = "abandoned"
<1>1. outbox[m] \in Row /\ tries[m] \in Nat /\ forgotten[m] \in Nat /\ copies[m] \in Nat
  BY DEF TypeOK
<1> QED
  BY <1>1 DEF State, Row

\* A step that leaves the row and the figures of a message alone is none.
LEMMA Stutters ==
    ASSUME NEW m \in Messages,
           UNCHANGED <<State(m), tries[m], copies[m], forgotten[m]>>
    PROVE  UNCHANGED Promise(m)!vars
BY DEF Promise!vars

LEMMA PostImplemented ==
    ASSUME IInv, TypeOK', NEW w \in Workers, Send(w), NEW m \in Messages
    PROVE  [Promise(m)!Next]_(Promise(m)!vars)
<1>1. PICK n \in job[w].todo :
        /\ tries' = [tries EXCEPT ![n] = @ + 1]
        /\ copies' = copies \/ copies' = [copies EXCEPT ![n] = @ + 1]
        /\ UNCHANGED <<outbox, forgotten>>
  BY DEF Send, SendOne, SendFails, AnswerLost
<1>2. State(m)' = State(m) /\ forgotten'[m] = forgotten[m]
  BY <1>1 DEF State
<1>3. CASE m # n
  BY <1>1, <1>2, <1>3, Stutters DEF IInv, TypeOK
<1>4. CASE m = n
  <2>1. outbox[m].status \in {"pending", "retry"} /\ outbox[m].attempt_count < MaxAttempts
    BY <1>1, <1>4 DEF IInv, Claims, Claimed
  <2>2. ~TriedNow(m)
    BY <1>1, <1>4 DEF IInv, Claims, Claimed, Tried, TriedNow
  <2>3. tries[m] - forgotten[m] = outbox[m].attempt_count
    BY <2>2, StateOf DEF IInv, Account, One
  <2>4. /\ tries'[m] - forgotten'[m] = tries[m] - forgotten[m] + 1
        /\ copies[m] > 0 => copies'[m] > 0
    BY <1>1, <1>2, <1>4, StateOf DEF IInv, TypeOK
  <2>5. (copies[m] > 0)' \in BOOLEAN
    OBVIOUS
  <2>6. Promise(m)!Post
    BY <1>2, <2>1, <2>3, <2>4, <2>5, StateOf DEF Promise!Post, IInv
  <2> QED
    BY <2>6 DEF Promise!Next
<1> QED
  BY <1>3, <1>4

LEMMA CommitImplemented ==
    ASSUME IInv, TypeOK', NEW w \in Workers, Commit(w), NEW m \in Messages
    PROVE  [Promise(m)!Next]_(Promise(m)!vars)
<1>1. UNCHANGED <<tries, copies, forgotten>>
  BY DEF Commit
<1>2. CASE m \in Tried(w)
  <2>1. outbox[m].status \in {"pending", "retry"} /\ outbox[m].attempt_count < MaxAttempts
    BY <1>2 DEF IInv, Claims, Claimed
  <2>2. TriedNow(m) /\ outbox[m] \in Row /\ State(m) = "open"
    BY <1>2, <2>1, StateOf DEF TriedNow, IInv, TypeOK
  <2>3. tries[m] - forgotten[m] = outbox[m].attempt_count + 1
    BY <2>2, StateOf DEF IInv, Account, One
  <2>4. CASE m \in job[w].sent
    <3>1. outbox'[m].status = "sent"
      BY <2>1, <2>2, <2>4, RowAfter DEF Commit
    <3>2. copies[m] >= 1
      BY <2>4 DEF IInv, Account, SentNow
    <3>3. State(m)' = "delivered" /\ copies[m] > 0
      BY <3>1, <3>2, StateOf DEF State, IInv
    <3>4. Promise(m)!Deliver
      BY <1>1, <2>2, <3>3 DEF Promise!Deliver
    <3> QED
      BY <3>4 DEF Promise!Next
  <2>5. CASE m \notin job[w].sent
    <3>1. outbox'[m] = AfterFailure(outbox[m])
      BY <1>2, <2>5 DEF Commit, Tried
    <3>2. CASE outbox[m].attempt_count + 1 >= MaxAttempts
      <4>1. outbox'[m].status = "failed"
        BY <2>2, <3>1, <3>2 DEF AfterFailure, Row
      <4>2. State(m)' = "abandoned" /\ tries[m] - forgotten[m] = MaxAttempts
        BY <2>1, <2>3, <3>2, <4>1, StateOf, ConstantsAssumption DEF State, IInv
      <4>3. Promise(m)!Abandon
        BY <1>1, <2>2, <4>2 DEF Promise!Abandon
      <4> QED
        BY <4>3 DEF Promise!Next
    <3>3. CASE ~(outbox[m].attempt_count + 1 >= MaxAttempts)
      <4>1. outbox'[m].status = "retry"
        BY <2>2, <3>1, <3>3 DEF AfterFailure, Row
      <4>2. State(m)' = "open"
        BY <4>1 DEF State
      <4> QED
        BY <1>1, <2>2, <4>2, Stutters
    <3> QED
      BY <3>2, <3>3
  <2> QED
    BY <2>4, <2>5
<1>3. CASE m \notin Tried(w)
  <2>1. outbox'[m] = outbox[m]
    BY <1>3 DEF Commit, Tried
  <2> QED
    BY <1>1, <2>1, Stutters DEF State
<1> QED
  BY <1>2, <1>3

LEMMA CrashImplemented ==
    ASSUME IInv, TypeOK', NEW w \in Workers, Crash(w), NEW m \in Messages
    PROVE  [Promise(m)!Next]_(Promise(m)!vars)
<1>1. /\ UNCHANGED <<outbox, tries, copies>>
      /\ forgotten'[m] = IF m \in Tried(w) THEN forgotten[m] + 1 ELSE forgotten[m]
  BY DEF Crash
<1>2. State(m)' = State(m)
  BY <1>1 DEF State
<1>3. CASE m \in Tried(w)
  <2>1. outbox[m].status \in {"pending", "retry"} /\ TriedNow(m)
    BY <1>3 DEF IInv, Claims, Claimed, TriedNow
  <2>2. tries[m] - forgotten[m] = outbox[m].attempt_count + 1
    BY <2>1, StateOf DEF IInv, Account, One
  <2>3. /\ tries[m] - forgotten[m] > 0
        /\ tries'[m] - forgotten'[m] = tries[m] - forgotten[m] - 1
    BY <1>1, <1>3, <2>2, StateOf DEF IInv
  <2>4. Promise(m)!Forget
    BY <1>1, <1>2, <2>1, <2>3, StateOf DEF Promise!Forget, IInv
  <2> QED
    BY <2>4 DEF Promise!Next
<1>4. CASE m \notin Tried(w)
  BY <1>1, <1>2, <1>4, Stutters
<1> QED
  BY <1>3, <1>4

\* The worker of the mail outbox implements Delivery for every message: batches,
\* the one commit of process_due and a worker that dies before it look, from
\* each message, like single steps.
THEOREM MailDelivers == Spec => DeliversAsPromised
<1>1. Init => \A m \in Messages : Promise(m)!Init
  BY DEF Init, Promise!Init, State, NoRow
<1>2. IInv /\ TypeOK' /\ [Next]_vars
        => [\A m \in Messages : [Promise(m)!Next]_(Promise(m)!vars)]_vars
  <2> SUFFICES ASSUME IInv, TypeOK', Next, NEW m \in Messages
               PROVE  [Promise(m)!Next]_(Promise(m)!vars)
    OBVIOUS
  <2>1. ASSUME NEW n \in Messages, Enqueue(n)
        PROVE  [Promise(m)!Next]_(Promise(m)!vars)
    <3>1. UNCHANGED <<tries, copies, forgotten>>
      BY <2>1 DEF Enqueue
    <3>2. CASE m = n
      <4>1. outbox[m].status = "absent" /\ outbox'[m].status = "pending"
        BY <2>1, <3>2 DEF Enqueue, IInv, TypeOK
      <4>2. State(m) = "absent" /\ State(m)' = "open"
        BY <4>1 DEF State
      <4>3. Promise(m)!Enqueue
        BY <3>1, <4>2 DEF Promise!Enqueue
      <4> QED
        BY <4>3 DEF Promise!Next
    <3>3. CASE m # n
      <4>1. outbox'[m] = outbox[m]
        BY <2>1, <3>3 DEF Enqueue, IInv, TypeOK
      <4> QED
        BY <3>1, <4>1, Stutters DEF State
    <3> QED
      BY <3>2, <3>3
  <2>2. ASSUME NEW n \in Messages, BecomeDue(n)
        PROVE  [Promise(m)!Next]_(Promise(m)!vars)
    <3>1. outbox'[m].status = outbox[m].status
      BY <2>2 DEF BecomeDue, IInv, TypeOK, Row
    <3>2. State(m)' = State(m) /\ UNCHANGED <<tries, copies, forgotten>>
      BY <2>2, <3>1 DEF State, BecomeDue
    <3> QED
      BY <3>2, Stutters
  <2>3. ASSUME NEW w \in Workers, ProcessDue(w)
        PROVE  [Promise(m)!Next]_(Promise(m)!vars)
    BY <2>3, Stutters DEF ProcessDue, State
  <2> QED
    BY <2>1, <2>2, <2>3, PostImplemented, CommitImplemented, CrashImplemented
       DEF Next, WorkerStep
<1>3. IInv => TypeOK
  BY DEF IInv
<1> QED
  BY <1>1, <1>2, <1>3, Invariance, PTL DEF Spec, DeliversAsPromised
=============================================================================
