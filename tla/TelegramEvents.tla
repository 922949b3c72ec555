---------------------------- MODULE TelegramEvents ----------------------------
(***************************************************************************)
(* The table telegram_event_outbox: the requests that fill it              *)
(* (TelegramEventService) and the workers that push it to the bot          *)
(* (TelegramEventDispatcher, scripts/telegram_event_worker.py).            *)
(*                                                                         *)
(* Unlike the mail worker, this one selects its batch without a lock.  Its *)
(* UPDATEs lock the rows it has marked until the one commit at the end of  *)
(* the round, and write the attempt count computed from what it loaded.    *)
(* Rows are numbered in the order of created_at.                           *)
(***************************************************************************)
EXTENDS Integers, Sequences, FiniteSets, FiniteSetsExt

CONSTANTS
    Admins, UniversityScope, FacultyScope, SubjectScope,
                    \* users by role and by scope on one path of the catalog
    Owner,          \* who uploaded the materials and made the proposals
    Materials,      \* entities whose events are keyed by the entity itself
    Requests,       \* bound: requests in flight
    Workers,        \* worker processes (a redeployment overlaps two)
    BatchSize,      \* telegram_event_batch_size
    MaxAttempts,    \* telegram_event_max_attempts
    MaxEvents,      \* bound: rows
    MaxAnnounced,   \* bound: events keyed by a fresh id
    MaxCrashes      \* bound: workers killed, commits that fail

ASSUME ConstantsAssumption ==
    /\ BatchSize \in Nat \ {0} /\ MaxAttempts \in Nat \ {0}
    /\ MaxEvents \in Nat /\ MaxAnnounced \in Nat /\ MaxCrashes \in Nat
    /\ IsFiniteSet(Admins) /\ IsFiniteSet(UniversityScope)
    /\ IsFiniteSet(FacultyScope) /\ IsFiniteSet(SubjectScope)

VARIABLES
    outbox,     \* the committed rows, in the order they were created
    active,     \* users that are active
    req,        \* requests: the keys they found missing
    announced,  \* fresh ids used so far
    round,      \* workers: the events to push, what was loaded, what is marked
    shared,     \* history: events that two rounds had in hand at a time
    calls,      \* history: calls of the bot for an event that is not shared,
                \* without those whose record was rolled back
    taken,      \* history: those it took and said so
    crashes

vars == <<outbox, active, req, announced, round,
          calls, taken, shared, crashes>>

table == <<outbox, active, req, announced>>

history == <<calls, taken, shared>>

-----------------------------------------------------------------------------
Users == Admins \cup UniversityScope \cup FacultyScope \cup SubjectScope \cup {Owner}

Ids == 1 .. MaxEvents

\* The columns of the unique constraint; the channel is always the bot.
Key == [type : {"announced", "decided"},
        entity : (1 .. MaxAnnounced) \cup Materials,
        recipient : Users]

Row == [key : Key, status : {"pending", "dispatched", "failed"},
        attempt_count : 0 .. MaxAttempts]

Mark == [status : {"dispatched", "failed"}, attempt_count : 1 .. MaxAttempts]

Exists(e) == e \in DOMAIN outbox

Keys == {outbox[e].key : e \in DOMAIN outbox}

NoRound == [todo |-> {}, loaded |-> <<>>, marked |-> <<>>]

Init ==
    /\ outbox = <<>>
    /\ active = Users
    /\ req = [r \in Requests |-> {}]
    /\ announced = 0
    /\ round = [w \in Workers |-> NoRound]
    /\ calls = [e \in Ids |-> 0]
    /\ taken = [e \in Ids |-> 0]
    /\ shared = {}
    /\ crashes = 0

-----------------------------------------------------------------------------
\* Who is told: _list_admin_recipients, _resolve_proposal_recipients and
\* _resolve_material_recipients; _load_users_by_ids keeps the active ones.
AdminRecipients == Admins \cap active

ProposalRecipients(entity_type) ==
    active \cap CASE entity_type = "university" -> Admins
                  [] entity_type = "faculty" -> Admins \cup UniversityScope \cup FacultyScope
                  [] entity_type = "subject" ->
                        Admins \cup UniversityScope \cup FacultyScope \cup SubjectScope

MaterialRecipients ==
    active \cap (Admins \cup SubjectScope \cup FacultyScope \cup UniversityScope)

KeysFor(type, entity, recipients) ==
    {[type |-> type, entity |-> entity, recipient |-> u] : u \in recipients}

\* Rows for the keys, in any order.
InsertRows(keys) ==
    /\ Len(outbox) + Cardinality(keys) <= MaxEvents
    /\ \E order \in [1 .. Cardinality(keys) -> keys] :
          /\ {order[i] : i \in DOMAIN order} = keys
          /\ outbox' = outbox \o [i \in DOMAIN order |->
                         [key |-> order[i], status |-> "pending", attempt_count |-> 0]]

\* What is announced under an id of its own is never there yet.
Announce(recipients) ==
    /\ announced < MaxAnnounced
    /\ announced' = announced + 1
    /\ InsertRows(KeysFor("announced", announced + 1, recipients))
    /\ UNCHANGED <<active, req, round, history, crashes>>

\* enqueue_user_registered_events; resets of a password are announced alike.
UserRegistered == Announce(AdminRecipients)

\* enqueue_material_submitted_events
MaterialSubmitted == Announce(MaterialRecipients)

\* enqueue_proposal_created_events
ProposalCreated ==
    \E t \in {"university", "faculty", "subject"} : Announce(ProposalRecipients(t))

\* create_event first looks which rows are there, and returns those.
CreateEvent(r, entity, recipients) ==
    /\ req[r] = {}
    /\ req' = [req EXCEPT ![r] = KeysFor("decided", entity, recipients) \ Keys]
    /\ UNCHANGED <<outbox, active, announced, round, history, crashes>>

\* enqueue_material_owner_event: decisions go to the uploader, if active,
\* keyed by the material.
OwnerEvent(r, m) == CreateEvent(r, m, {Owner} \cap active)

\* enqueue_proposal_owner_event: likewise, keyed by the proposal.
ProposalOwnerEvent(r, p) == CreateEvent(r, p, {Owner} \cap active)

\* Links, unlinks and verifications go to the admins, keyed by link or user.
AccountEvent(r, m) == CreateEvent(r, m, AdminRecipients)

\* The request commits; its rows are new, or the unique constraint rolls it
\* back.
Duplicate(r) == req[r] \cap Keys # {}

CommitRequest(r) ==
    /\ req[r] # {}
    /\ ~Duplicate(r)
    /\ InsertRows(req[r])
    /\ req' = [req EXCEPT ![r] = {}]
    /\ UNCHANGED <<active, announced, round, history, crashes>>

RollBack(r) ==
    /\ Duplicate(r)
    /\ req' = [req EXCEPT ![r] = {}]
    /\ UNCHANGED <<outbox, active, announced, round, history, crashes>>

SetActive(u) ==
    /\ active' = IF u \in active THEN active \ {u} ELSE active \cup {u}
    /\ UNCHANGED <<outbox, req, announced, round, history, crashes>>

-----------------------------------------------------------------------------
Marked(w) == DOMAIN round[w].marked

InHand(w) == round[w].todo \cup Marked(w)

\* Variants: the attempt count is not looked at; dispatched events are
\* selected too.
PendingForEver ==
    {e \in DOMAIN outbox : outbox[e].status \in {"pending", "failed"}}

PendingAnyStatus == {e \in DOMAIN outbox : outbox[e].attempt_count < MaxAttempts}

\* list_pending_events: the oldest first, no lock.
Pending ==
    {e \in DOMAIN outbox :
        /\ outbox[e].status \in {"pending", "failed"}
        /\ outbox[e].attempt_count < MaxAttempts}

ListPending(w) ==
    LET batch == {e \in Pending : Cardinality({f \in Pending : f < e}) < BatchSize}
    IN  /\ InHand(w) = {}
        /\ batch # {}
        /\ round' = [round EXCEPT ![w] =
                       [todo |-> batch,
                        loaded |-> [e \in batch |-> outbox[e].attempt_count],
                        marked |-> <<>>]]
        /\ UNCHANGED <<table, history, crashes>>

\* Another round has the event in hand, or has recorded an outcome since this
\* one loaded it.
Overlaps(w, e) ==
    \/ \E v \in Workers \ {w} : e \in InHand(v)
    \/ outbox[e].attempt_count # round[w].loaded[e]

\* Variant: a call that did not raise is taken for a success.
MarkEventUnread(w, e, status) ==
    /\ \A v \in Workers \ {w} : e \notin Marked(v)
    /\ round' = [round EXCEPT
                   ![w].todo = @ \ {e},
                   ![w].marked = [f \in DOMAIN @ \cup {e} |->
                      IF f = e THEN [status |-> "dispatched",
                                     attempt_count |-> round[w].loaded[e] + 1]
                      ELSE @[f]]]

\* mark_dispatched and mark_failed set the count from what was loaded; the
\* UPDATE waits for a round that has marked the row and not committed.
MarkEvent(w, e, status) ==
    /\ \A v \in Workers \ {w} : e \notin Marked(v)
    /\ round' = [round EXCEPT
                   ![w].todo = @ \ {e},
                   ![w].marked = [f \in DOMAIN @ \cup {e} |->
                      IF f = e THEN [status |-> status,
                                     attempt_count |-> round[w].loaded[e] + 1]
                      ELSE @[f]]]

\* dispatch_events: the next event is posted to the bot, which takes it or
\* not, and whose answer may be lost; then it is marked.
DispatchEvent(w) ==
    /\ round[w].todo # {}
    /\ LET e == Min(round[w].todo) IN
          /\ shared' = IF Overlaps(w, e) THEN shared \cup {e} ELSE shared
          /\ calls' = IF e \in shared' THEN calls ELSE [calls EXCEPT ![e] = @ + 1]
          /\ \E status \in {"dispatched", "failed"} :
                /\ MarkEvent(w, e, status)
                /\ taken' = IF e \in shared' \/ status = "failed" THEN taken
                            ELSE [taken EXCEPT ![e] = @ + 1]
    /\ UNCHANGED <<table, crashes>>

\* Variant: a failed call is not counted.
CommitRoundUncounted(w) ==
    /\ round[w].todo = {}
    /\ Marked(w) # {}
    /\ outbox' = [e \in DOMAIN outbox |->
                    IF e \in Marked(w)
                    THEN [outbox[e] EXCEPT !.status = round[w].marked[e].status]
                    ELSE outbox[e]]
    /\ round' = [round EXCEPT ![w] = NoRound]
    /\ UNCHANGED <<active, req, announced, history, crashes>>

\* The one commit of the round.
CommitRound(w) ==
    /\ round[w].todo = {}
    /\ Marked(w) # {}
    /\ outbox' = [e \in DOMAIN outbox |->
                    IF e \in Marked(w)
                    THEN [outbox[e] EXCEPT
                            !.status = round[w].marked[e].status,
                            !.attempt_count = round[w].marked[e].attempt_count]
                    ELSE outbox[e]]
    /\ round' = [round EXCEPT ![w] = NoRound]
    /\ UNCHANGED <<active, req, announced, history, crashes>>

Forgets(w, e) == e \in Marked(w) \ shared

\* The worker is killed, or the database refuses: the marks are gone.
Crash(w) ==
    /\ InHand(w) # {}
    /\ crashes < MaxCrashes
    /\ crashes' = crashes + 1
    /\ calls' = [e \in Ids |-> IF Forgets(w, e) THEN calls[e] - 1 ELSE calls[e]]
    /\ taken' = [e \in Ids |->
                   IF Forgets(w, e) /\ round[w].marked[e].status = "dispatched"
                   THEN taken[e] - 1 ELSE taken[e]]
    /\ round' = [round EXCEPT ![w] = NoRound]
    /\ UNCHANGED <<table, shared>>

WorkerStep(w) == ListPending(w) \/ DispatchEvent(w) \/ CommitRound(w)

Next ==
    \/ UserRegistered \/ MaterialSubmitted \/ ProposalCreated
    \/ \E r \in Requests :
          \/ \E m \in Materials : OwnerEvent(r, m) \/ ProposalOwnerEvent(r, m) \/ AccountEvent(r, m)
          \/ CommitRequest(r) \/ RollBack(r)
    \/ \E u \in Users : SetActive(u)
    \/ \E w \in Workers : WorkerStep(w) \/ Crash(w)

Spec == Init /\ [][Next]_vars

\* A worker polls for ever and its calls have a timeout; a row lock is held
\* for one round, so a worker that waits for one gets it again and again.
Fairness ==
    \A w \in Workers :
        WF_vars(ListPending(w)) /\ SF_vars(DispatchEvent(w)) /\ WF_vars(CommitRound(w))

FairSpec == Spec /\ Fairness

-----------------------------------------------------------------------------
(***************************************************************************)
(* Properties                                                              *)
(***************************************************************************)

\* Every variable has its type.
TypeOK ==
    /\ \A e \in DOMAIN outbox : e \in Ids /\ outbox[e] \in Row
    /\ active \in SUBSET Users
    /\ req \in [Requests -> SUBSET Key]
    /\ announced \in 0 .. MaxAnnounced
    /\ \A w \in Workers :
          /\ InHand(w) \subseteq DOMAIN outbox
          /\ \A e \in Marked(w) : round[w].marked[e] \in Mark
    /\ calls \in [Ids -> Nat]
    /\ taken \in [Ids -> Nat]
    /\ shared \in SUBSET Ids
    /\ crashes \in 0 .. MaxCrashes

\* An event that the bot acknowledged is pushed again only after a crash or
\* a failed commit, or when two workers had it in hand at the same time
\* (list_pending_events takes no lock).
DuplicatesExplained == \A e \in Ids \ shared : taken[e] <= 1

\* The bot is called for an event telegram_event_max_attempts times, and more
\* often only for calls that were forgotten or that another worker's round
\* overlapped, whose counts overwrite each other.
CallsBounded == \A e \in Ids \ shared : calls[e] <= MaxAttempts

\* A dispatched event is never pending or failed again, unless two workers
\* had it in hand at the same time.
DispatchedIsFinal ==
    [][\A e \in DOMAIN outbox :
          outbox[e].status = "dispatched" =>
              outbox'[e].status = "dispatched" \/ e \in shared]_vars

\* The event as the abstract specification sees it.
State(e) ==
    CASE ~Exists(e) -> "absent"
      [] Exists(e) /\ outbox[e].status = "dispatched" -> "delivered"
      [] Exists(e) /\ outbox[e].status # "dispatched"
                   /\ outbox[e].attempt_count = MaxAttempts -> "abandoned"
      [] Exists(e) /\ outbox[e].status # "dispatched"
                   /\ outbox[e].attempt_count # MaxAttempts -> "open"

Promise(e) ==
    INSTANCE Delivery WITH state <- State(e),
                           tried <- calls[e],
                           taken <- taken[e] > 0

\* As long as no two rounds have an event in hand at a time, the workers
\* implement Delivery for it: it is dispatched only if the bot has taken it,
\* given up after its last attempt and not before, and neither posted nor
\* changed afterwards.
DeliversUnlessShared ==
    /\ \A e \in Ids : Promise(e)!Init
    /\ [][\A e \in Ids \ shared' : [Promise(e)!Next]_(Promise(e)!vars)]_vars

Settled(e) == outbox[e].status = "dispatched" \/ outbox[e].attempt_count = MaxAttempts

\* Every event is dispatched or given up in the end, and stays so: an event
\* that always fails does not hold up the later ones, and two workers that
\* overwrite each other's counts do not go on for ever.
EveryEventSettles ==
    \A e \in Ids : [](Exists(e) => <>[](Exists(e) /\ Settled(e)))
=============================================================================
