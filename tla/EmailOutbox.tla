----------------------------- MODULE EmailOutbox -----------------------------
(***************************************************************************)
(* The table email_outbox and the workers that drain it                    *)
(* (EmailOutboxService and scripts/email_worker.py).                       *)
(*                                                                         *)
(* A worker claims a batch of due messages with FOR UPDATE SKIP LOCKED,    *)
(* sends them one by one and records all outcomes in one commit at the     *)
(* end.  When it dies before that commit the database forgets the          *)
(* attempts, and the mail server does not.                                 *)
(*                                                                         *)
(* Times are abstracted to whether next_attempt_at has been reached; the   *)
(* order in which due messages are claimed is left open.                   *)
(***************************************************************************)
EXTENDS Integers, FiniteSets

CONSTANTS
    Messages,       \* rows that requests may enqueue
    Workers,        \* worker processes (a redeployment overlaps two)
    BatchSize,      \* email_outbox_batch_size
    MaxAttempts,    \* email_outbox_max_attempts, copied into every row
    MaxCrashes      \* bound: how often a worker dies or fails to commit

ASSUME ConstantsAssumption ==
    /\ IsFiniteSet(Messages)
    /\ BatchSize \in Nat \ {0}
    /\ MaxAttempts \in Nat \ {0}
    /\ MaxCrashes \in Nat

VARIABLES
    outbox,     \* the committed rows
    job,        \* what each worker has claimed: not tried yet, sent, failed
    tries,      \* history: times the mail server was called for a message
    copies,     \* history: times the mail server took a message
    forgotten,  \* history: tries whose record was rolled back
    unsure,     \* history: messages taken although the call reported an error
    crashes     \* history: crashes so far

vars == <<outbox, job, tries, copies, forgotten, unsure, crashes>>

-----------------------------------------------------------------------------
Row ==
    [status : {"absent", "pending", "retry", "sent", "failed"},
     attempt_count : 0 .. MaxAttempts,
     due : BOOLEAN]

Job ==
    [todo : SUBSET Messages, sent : SUBSET Messages, failed : SUBSET Messages]

NoRow == [status |-> "absent", attempt_count |-> 0, due |-> FALSE]

NoJob == [todo |-> {}, sent |-> {}, failed |-> {}]

Tried(w) == job[w].sent \cup job[w].failed

Claimed(w) == job[w].todo \cup Tried(w)

Locked == UNION {Claimed(w) : w \in Workers}

Init ==
    /\ outbox = [m \in Messages |-> NoRow]
    /\ job = [w \in Workers |-> NoJob]
    /\ tries = [m \in Messages |-> 0]
    /\ copies = [m \in Messages |-> 0]
    /\ forgotten = [m \in Messages |-> 0]
    /\ unsure = [m \in Messages |-> 0]
    /\ crashes = 0

-----------------------------------------------------------------------------
\* A request commits the row together with what the message is about.
Enqueue(m) ==
    /\ outbox[m].status = "absent"
    /\ outbox' = [outbox EXCEPT ![m] =
                    [status |-> "pending", attempt_count |-> 0, due |-> TRUE]]
    /\ UNCHANGED <<job, tries, copies, forgotten, unsure, crashes>>

\* The delay of a retry, base * 2^(attempts - 1), has passed.
BecomeDue(m) ==
    /\ outbox[m].status = "retry"
    /\ ~outbox[m].due
    /\ outbox' = [outbox EXCEPT ![m].due = TRUE]
    /\ UNCHANGED <<job, tries, copies, forgotten, unsure, crashes>>

\* Variant: the rows are not locked.
DueUnlocked(w) ==
    {m \in Messages \ Claimed(w) :
        /\ outbox[m].status \in {"pending", "retry"}
        /\ outbox[m].attempt_count < MaxAttempts
        /\ outbox[m].due}

\* What the query of process_due can return to w.
Due(w) ==
    {m \in Messages \ Locked :
        /\ outbox[m].status \in {"pending", "retry"}
        /\ outbox[m].attempt_count < MaxAttempts
        /\ outbox[m].due}

ProcessDue(w) ==
    /\ Claimed(w) = {}
    /\ \E batch \in SUBSET Due(w) :
          /\ batch # {}
          /\ Cardinality(batch) <= BatchSize
          /\ batch = Due(w) \/ Cardinality(batch) = BatchSize
          /\ job' = [job EXCEPT ![w].todo = batch]
    /\ UNCHANGED <<outbox, tries, copies, forgotten, unsure, crashes>>

\* The mail server takes the message and says so.
SendOne(w) ==
    /\ \E m \in job[w].todo :
          /\ job' = [job EXCEPT ![w].todo = @ \ {m}, ![w].sent = @ \cup {m}]
          /\ tries' = [tries EXCEPT ![m] = @ + 1]
          /\ copies' = [copies EXCEPT ![m] = @ + 1]
    /\ UNCHANGED <<outbox, forgotten, unsure, crashes>>

\* The call raises, and the message was not taken.
SendFails(w) ==
    /\ \E m \in job[w].todo :
          /\ job' = [job EXCEPT ![w].todo = @ \ {m}, ![w].failed = @ \cup {m}]
          /\ tries' = [tries EXCEPT ![m] = @ + 1]
    /\ UNCHANGED <<outbox, copies, forgotten, unsure, crashes>>

\* The call raises, a timeout say, and the message was taken all the same.
AnswerLost(w) ==
    /\ \E m \in job[w].todo :
          /\ job' = [job EXCEPT ![w].todo = @ \ {m}, ![w].failed = @ \cup {m}]
          /\ tries' = [tries EXCEPT ![m] = @ + 1]
          /\ copies' = [copies EXCEPT ![m] = @ + 1]
          /\ unsure' = [unsure EXCEPT ![m] = @ + 1]
    /\ UNCHANGED <<outbox, forgotten, crashes>>

\* Variants: the failed attempt is not counted; the last attempt is taken
\* for one that leaves another; the error is dropped; the last but one
\* attempt is taken for the last.
AfterFailureUncounted(row) == [row EXCEPT !.status = "retry", !.due = FALSE]

AfterFailureOffByOne(row) ==
    [row EXCEPT !.attempt_count = @ + 1,
                !.status = IF row.attempt_count + 1 > MaxAttempts THEN "failed" ELSE "retry",
                !.due = FALSE]

AfterFailureSwallowed(row) ==
    [row EXCEPT !.attempt_count = @ + 1, !.status = "sent"]

AfterFailureEarly(row) ==
    [row EXCEPT !.attempt_count = @ + 1,
                !.status = IF row.attempt_count + 2 >= MaxAttempts THEN "failed" ELSE "retry",
                !.due = FALSE]

\* The row after an attempt that failed, and after one that succeeded.
AfterFailure(row) ==
    IF row.attempt_count + 1 >= MaxAttempts
    THEN [row EXCEPT !.attempt_count = @ + 1, !.status = "failed"]
    ELSE [row EXCEPT !.attempt_count = @ + 1, !.status = "retry", !.due = FALSE]

AfterSuccess(row) == [row EXCEPT !.attempt_count = @ + 1, !.status = "sent"]

\* One commit for the whole batch.
Commit(w) ==
    /\ job[w].todo = {}
    /\ Tried(w) # {}
    /\ outbox' = [m \in Messages |->
                    IF m \in job[w].sent THEN AfterSuccess(outbox[m])
                    ELSE IF m \in job[w].failed THEN AfterFailure(outbox[m])
                    ELSE outbox[m]]
    /\ job' = [job EXCEPT ![w] = NoJob]
    /\ UNCHANGED <<tries, copies, forgotten, unsure, crashes>>

\* The worker dies or its commit fails; it is restarted, or its loop goes on.
Crash(w) ==
    /\ Claimed(w) # {}
    /\ crashes < MaxCrashes
    /\ crashes' = crashes + 1
    /\ forgotten' = [m \in Messages |->
                       IF m \in Tried(w) THEN forgotten[m] + 1 ELSE forgotten[m]]
    /\ job' = [job EXCEPT ![w] = NoJob]
    /\ UNCHANGED <<outbox, tries, copies, unsure>>

Send(w) == SendOne(w) \/ SendFails(w) \/ AnswerLost(w)

WorkerStep(w) == ProcessDue(w) \/ Send(w) \/ Commit(w)

Next ==
    \/ \E m \in Messages : Enqueue(m) \/ BecomeDue(m)
    \/ \E w \in Workers : WorkerStep(w) \/ Crash(w)

Spec == Init /\ [][Next]_vars

\* Time passes, and a worker that is not killed goes on: every call of the
\* mail server ends because it has a timeout, and the loop polls for ever.
Fairness ==
    /\ \A m \in Messages : WF_vars(BecomeDue(m))
    /\ \A w \in Workers : WF_vars(WorkerStep(w))

FairSpec == Spec /\ Fairness

-----------------------------------------------------------------------------
(***************************************************************************)
(* Properties                                                              *)
(***************************************************************************)

\* Every variable has its type; in particular no row records more attempts
\* than max_attempts allows.
TypeOK ==
    /\ outbox \in [Messages -> Row]
    /\ job \in [Workers -> Job]
    /\ tries \in [Messages -> Nat]
    /\ copies \in [Messages -> Nat]
    /\ forgotten \in [Messages -> Nat]
    /\ unsure \in [Messages -> Nat]
    /\ crashes \in 0 .. MaxCrashes

\* The retry limit: the mail server is called at most max_attempts times for
\* a message, and once more for each attempt whose record _send_one lost
\* because the worker died before process_due committed.
RetryLimit ==
    \A m \in Messages : tries[m] <= MaxAttempts + forgotten[m]

\* A message recorded as sent has been taken by the mail server.
SentWasTaken ==
    \A m \in Messages : outbox[m].status = "sent" => copies[m] >= 1

\* A recipient gets a second copy only after a crash before the commit or a
\* lost answer: two workers never both deliver a message that
\* FOR UPDATE SKIP LOCKED gave to one of them.
DuplicatesExplained ==
    \A m \in Messages : copies[m] <= 1 + forgotten[m] + unsure[m]

\* A message that is recorded as sent or given up stays as it is and is not
\* tried again, whatever another worker holds or commits.
FinishedIsFinal ==
    [][\A m \in Messages :
          outbox[m].status \in {"sent", "failed"}
            => outbox'[m] = outbox[m] /\ tries'[m] = tries[m]]_vars

\* The message as the abstract specification sees it.
State(m) ==
    CASE outbox[m].status = "absent" -> "absent"
      [] outbox[m].status \in {"pending", "retry"} -> "open"
      [] outbox[m].status = "sent" -> "delivered"
      [] outbox[m].status = "failed" -> "abandoned"

Promise(m) ==
    INSTANCE Delivery WITH state <- State(m),
                           tried <- tries[m] - forgotten[m],
                           taken <- copies[m] > 0

\* The worker implements Delivery for every message: in one step of batches,
\* retries, crashes and commits a message is at most enqueued, posted,
\* forgotten, delivered or abandoned once, a message is abandoned after its
\* last attempt and not before, and none is posted that is not open.
DeliversAsPromised ==
    /\ \A m \in Messages : Promise(m)!Init
    /\ [][\A m \in Messages : [Promise(m)!Next]_(Promise(m)!vars)]_vars

\* Every enqueued message is sent or given up in the end: none is left
\* selected by nobody, waiting for a retry that never comes, or locked.
EveryMessageSettles ==
    \A m \in Messages :
        outbox[m].status = "pending" ~> outbox[m].status \in {"sent", "failed"}
=============================================================================
