------------------------------- MODULE Delivery -------------------------------
(***************************************************************************)
(* What an outbox promises about one message, with no workers, batches,    *)
(* transactions or crashes in sight: it is posted as long as it is open,   *)
(* at most MaxAttempts times as far as the outbox knows, and it is closed  *)
(* in one of two ways, as delivered when somebody has taken it, and as     *)
(* abandoned when all attempts are used up.  EmailOutbox and               *)
(* TelegramEvents, the specifications of the two outboxes, are compared    *)
(* with this module.                                                       *)
(***************************************************************************)
EXTENDS Integers

CONSTANT MaxAttempts    \* how often a message may be posted

VARIABLES
    state,      \* absent, open, delivered or abandoned
    tried,      \* how often it has been posted, but for what was forgotten
    taken       \* whether somebody has taken it, as far as is remembered

vars == <<state, tried, taken>>

Init ==
    /\ state = "absent"
    /\ tried = 0
    /\ taken = FALSE

\* The message is committed together with what it is about.
Enqueue ==
    /\ state = "absent"
    /\ state' = "open"
    /\ UNCHANGED <<tried, taken>>

\* Somebody outside is asked to take the message, and does or does not.
Post ==
    /\ state = "open"
    /\ tried < MaxAttempts
    /\ tried' = tried + 1
    /\ taken' \in BOOLEAN /\ (taken => taken')
    /\ UNCHANGED state

\* The record of an attempt is lost, and may be that of its success.
Forget ==
    /\ state = "open"
    /\ tried > 0
    /\ tried' = tried - 1
    /\ taken' \in BOOLEAN /\ (taken' => taken)
    /\ UNCHANGED state

Deliver ==
    /\ state = "open"
    /\ taken
    /\ state' = "delivered"
    /\ UNCHANGED <<tried, taken>>

\* Given up, after the last attempt and not before.
Abandon ==
    /\ state = "open"
    /\ tried = MaxAttempts
    /\ state' = "abandoned"
    /\ UNCHANGED <<tried, taken>>

Next == Enqueue \/ Post \/ Forget \/ Deliver \/ Abandon

Spec == Init /\ [][Next]_vars
=============================================================================
