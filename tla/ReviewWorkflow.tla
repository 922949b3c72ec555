--------------------------- MODULE ReviewWorkflow ---------------------------
(***************************************************************************)
(* What the moderation of one study material promises, with no requests,   *)
(* storage or transactions in sight: an owner prepares content, a          *)
(* moderator decides on it, and the public only ever sees content that a   *)
(* moderator has accepted as it stands.  MaterialReview, the specification *)
(* of the handlers, is compared with this module.                          *)
(***************************************************************************)

VARIABLES
    status,     \* draft, pending, approved or rejected
    stocked,    \* the material has at least one file
    reviewed,   \* the present content is the content the last approval saw
    closed      \* the owner has deleted the material

vars == <<status, stocked, reviewed, closed>>

Init ==
    /\ status = "draft"
    /\ stocked = FALSE
    /\ reviewed = FALSE
    /\ closed = FALSE

\* The owner asks for a review of a material that has something to review.
Submit ==
    /\ status \in {"draft", "rejected"}
    /\ stocked
    /\ status' = "pending"
    /\ UNCHANGED <<stocked, reviewed, closed>>

\* The owner takes the request back.
Withdraw ==
    /\ status = "pending"
    /\ status' = "draft"
    /\ UNCHANGED <<stocked, reviewed, closed>>

\* A moderator publishes content that is there, as it is now.
Approve ==
    /\ status = "pending"
    /\ stocked
    /\ status' = "approved"
    /\ reviewed' = TRUE
    /\ UNCHANGED <<stocked, closed>>

\* A moderator sends the material back to its owner.
Reject ==
    /\ status = "pending"
    /\ status' = "rejected"
    /\ UNCHANGED <<stocked, reviewed, closed>>

\* The owner changes the content: never under review, and a published
\* material leaves the public view in the same step.  Files are added to a
\* draft only.
Edit ==
    /\ status # "pending"
    /\ status' = IF status = "approved" THEN "pending" ELSE status
    /\ stocked' \in BOOLEAN
    /\ stocked' => (stocked \/ status = "draft")
    /\ reviewed' = FALSE
    /\ UNCHANGED closed

\* The owner removes the material for good.
Close ==
    /\ closed' = TRUE
    /\ UNCHANGED <<status, stocked, reviewed>>

Next ==
    /\ ~closed
    /\ Submit \/ Withdraw \/ Approve \/ Reject \/ Edit \/ Close

Spec == Init /\ [][Next]_vars
=============================================================================
