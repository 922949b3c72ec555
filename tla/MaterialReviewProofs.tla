------------------------ MODULE MaterialReviewProofs ------------------------
(***************************************************************************)
(* Proofs about MaterialReview for any number of requests and files.       *)
(*                                                                         *)
(* The invariants that matter are not inductive: they need to know where   *)
(* each file of a request under way is (Ownership), what a handler had     *)
(* checked before it commits (Checked), and what is in storage on behalf   *)
(* of an upload that has no row yet (Stored).                              *)
(***************************************************************************)
EXTENDS MaterialReview, FiniteSetTheorems, TLAPS

Uploading == {"saving", "invalidating", "aborting"}

Removing == {"delete_file", "purging"}

\* An upload belongs to one request until its rows are committed, and no
\* removal is under way for it before that.
Ownership ==
    /\ files \subseteq used
    /\ \A r \in Requests :
          /\ req[r].batch \subseteq used
          /\ req[r].stored \subseteq req[r].batch
          /\ req[r].pc = "saving" => req[r].batch \cap files = {}
          /\ req[r].pc = "purging" => req[r].batch \cap files = {}
    /\ \A q, r \in Requests :
          q # r /\ req[r].pc \in Uploading /\ req[q].pc \in Uploading
            => req[q].batch \cap req[r].batch = {}
    /\ \A q, r \in Requests :
          req[r].pc = "saving" /\ req[q].pc \in Removing
            => req[q].batch \cap req[r].batch = {}

\* What a handler has established about the material as it loaded it.
CheckedRequest(x) ==
    /\ x.pc \notin {"idle", "invalidating", "aborting", "purging"} => ~x.row.deleted
    /\ x.pc = "saving" => x.row.status = "draft"
    /\ x.pc = "saving"
         => x.stored = {} \/ x.row.file_count + Cardinality(x.stored) <= MaxTotalSize
    /\ x.pc = "saving" => x.batch # {}
    /\ x.pc = "submit" => x.row.status \in {"draft", "rejected"} /\ x.row.file_count >= 1
    /\ x.pc \in {"withdraw", "reject", "revise"} => x.row.status = "pending"
    /\ x.pc = "approve" => x.row.status = "pending" /\ x.row.file_count >= 1
    /\ x.pc \in {"edit", "delete_file"} => x.row.status # "pending"
    /\ x.pc = "delete_file" => \E f \in x.files : x.batch = {f}

Checked == \A r \in Requests : CheckedRequest(req[r])

\* Uploads that wait for their rows are in storage; an upload that is being
\* taken out again has no row.
Stored ==
    /\ RowsBacked
    /\ \A r \in Requests :
          /\ req[r].pc = "saving" => \A f \in req[r].stored : <<f, "file">> \in objects
          /\ req[r].pc = "aborting" => req[r].stored \cap files = {}

\* What is true of the material as long as every commit was made on data that
\* was still current.
Settled ==
    ~raced =>
      /\ row.file_count = Cardinality(files)
      /\ row.file_count <= MaxTotalSize
      /\ row.status = "approved" => reviewed /\ files # {}

-----------------------------------------------------------------------------
(***************************************************************************)
(* Types                                                                   *)
(***************************************************************************)

\* The record of a request that has nothing to do is a request.
LEMMA IdleType == Idle \in Request
BY DEF Idle, Request, Steps, Material, Status, NewDraft

\* What Commit makes of the requests, for any continuation of the right type.
LEMMA CommitType ==
    ASSUME TypeOK, NEW r \in Requests, NEW next \in Request, NEW content \in BOOLEAN,
           Commit(r, next, content)
    PROVE  /\ req' \in [Requests -> Request]
           /\ raced' \in BOOLEAN
           /\ used' \subseteq Files
<1>1. \A q \in Requests : [req[q] EXCEPT !.current = FALSE] \in Request
  BY DEF TypeOK, Request
<1> QED
  BY <1>1 DEF Commit, TypeOK, Outdated

\* Types are preserved by every step of a request.
LEMMA TypeStep ==
    ASSUME TypeOK, NEW r \in Requests, OwnerStep(r) \/ ModeratorStep(r) \/ Crash(r)
    PROVE  TypeOK'
<1> USE IdleType, ConstantsAssumption
<1>t. /\ row \in Material
      /\ req[r] \in Request
      /\ req[r].row \in Material
      /\ req[r].batch \subseteq Files
      /\ req[r].stored \subseteq Files
  BY DEF TypeOK, Request
<1>l. ASSUME NEW step \in Steps, NEW batch \in SUBSET Files, Load(r, step, batch),
             used' \subseteq Files
      PROVE  TypeOK'
  BY <1>l, <1>t DEF Load, TypeOK, Request
<1>c. ASSUME Cardinality(req[r].batch) \in Nat
      PROVE  [row EXCEPT !.file_count = @ + Cardinality(req[r].batch)] \in Material
  BY <1>c, <1>t DEF Material
<1>d. Cardinality(req[r].batch) \in Nat
  BY <1>t, FS_Subset, FS_CardinalityType
<1>e. ContentRow(r) \in Material /\ ContentLog(r) \in ReviewAction
  BY <1>t DEF ContentRow, ContentLog, Material, Status, ReviewAction, TypeOK
<1>f. CountAfterDelete(r) \in Nat
  BY <1>t DEF CountAfterDelete, Material
<1>g. \A s \in Status : [row EXCEPT !.status = s] \in Material
  BY <1>t DEF Material
<1>h. [row EXCEPT !.deleted = TRUE] \in Material
  BY <1>t DEF Material
<1>i. [ContentRow(r) EXCEPT !.file_count = CountAfterDelete(r)] \in Material
  BY <1>e, <1>f DEF Material
<1>j. \A p \in Steps : [req[r] EXCEPT !.pc = p] \in Request
  BY <1>t DEF Request
<1>1. CASE AttachFiles(r)
  BY <1>1, <1>l DEF AttachFiles, TypeOK, Steps
<1>2. CASE SaveUpload(r)
  BY <1>2, <1>t DEF SaveUpload, TypeOK, Request, Steps
<1>3. CASE BuildPreview(r)
  BY <1>3, <1>t DEF BuildPreview, TypeOK
<1>4. CASE CommitAttach(r)
  <2>1. [req[r] EXCEPT !.pc = "invalidating"] \in Request
    BY <1>j DEF Steps
  <2> QED
    BY <1>4, <2>1, <1>c, <1>d, <1>t, CommitType DEF CommitAttach, TypeOK
<1>5. CASE FailAttach(r)
  BY <1>5 DEF FailAttach, TypeOK, Request, Steps
<1>6. CASE AbortAttach(r)
  BY <1>6 DEF AbortAttach, TypeOK
<1>7. CASE FinishAttach(r)
  BY <1>7 DEF FinishAttach, TypeOK
<1>8. CASE DeleteFile(r)
  BY <1>8, <1>l DEF DeleteFile, TypeOK, Steps
<1>9. CASE CommitDeleteFile(r)
  <2>1. [req[r] EXCEPT !.pc = "purging"] \in Request
    BY <1>j DEF Steps
  <2> QED
    BY <1>9, <2>1, <1>i, <1>e, CommitType DEF CommitDeleteFile, TypeOK
<1>10. CASE PurgeObjects(r)
  BY <1>10 DEF PurgeObjects, TypeOK
<1>11. CASE Submit(r)
  BY <1>11, <1>l DEF Submit, TypeOK, Steps
<1>12. CASE CommitSubmit(r)
  BY <1>12, <1>g, CommitType DEF CommitSubmit, TypeOK, Status, ReviewAction
<1>13. CASE Withdraw(r)
  BY <1>13, <1>l DEF Withdraw, TypeOK, Steps
<1>14. CASE CommitWithdraw(r)
  BY <1>14, <1>g, CommitType DEF CommitWithdraw, TypeOK, Status, ReviewAction
<1>15. CASE UpdateMaterial(r) \/ EditTags(r) \/ EditFiles(r)
  BY <1>15, <1>l DEF UpdateMaterial, EditTags, EditFiles, TypeOK, Steps
<1>16. CASE CommitEdit(r)
  BY <1>16, <1>e, CommitType DEF CommitEdit, TypeOK
<1>17. CASE DeleteMaterial(r)
  BY <1>17, <1>l DEF DeleteMaterial, TypeOK, Steps
<1>18. CASE CommitDelete(r)
  BY <1>18, <1>h, CommitType DEF CommitDelete, TypeOK
<1>19. CASE Approve(r) \/ Reject(r) \/ RequestRevision(r) \/ MoveSubject(r)
  BY <1>19, <1>l DEF Approve, Reject, RequestRevision, MoveSubject, TypeOK, Steps
<1>20. CASE CommitApprove(r)
  <2>1. req[r].current \in BOOLEAN
    BY <1>t DEF Request
  <2> QED
    BY <1>20, <2>1, <1>g, CommitType DEF CommitApprove, TypeOK, Status, ReviewAction
<1>21. CASE CommitReject(r)
  BY <1>21, <1>g, CommitType DEF CommitReject, TypeOK, Status, ReviewAction
<1>22. CASE CommitRevision(r)
  BY <1>22, <1>g, CommitType DEF CommitRevision, TypeOK, Status, ReviewAction
<1>23. CASE CommitMove(r)
  BY <1>23, <1>g, CommitType DEF CommitMove, TypeOK
<1>24. CASE Crash(r)
  BY <1>24 DEF Crash, TypeOK
<1> QED
  BY <1>1, <1>2, <1>3, <1>4, <1>5, <1>6, <1>7, <1>8, <1>9, <1>10, <1>11, <1>12,
     <1>13, <1>14, <1>15, <1>16, <1>17, <1>18, <1>19, <1>20, <1>21, <1>22, <1>23,
     <1>24
     DEF OwnerStep, ModeratorStep

\* Every variable keeps its type under all interleavings of the handlers; in
\* particular file_count stays a natural number although delete_file writes
\* a count it computed from an outdated row.
THEOREM TypeCorrect == Spec => []TypeOK
<1>1. Init => TypeOK
  <2>1. NewDraft \in Material
    BY DEF NewDraft, Material, Status
  <2>2. [r \in Requests |-> Idle] \in [Requests -> Request]
    BY IdleType
  <2> QED
    BY <2>1, <2>2 DEF Init, TypeOK, ReviewAction
<1>2. TypeOK /\ [Next]_vars => TypeOK'
  <2>1. TypeOK /\ Next => TypeOK'
    BY TypeStep DEF Next
  <2>2. TypeOK /\ UNCHANGED vars => TypeOK'
    BY DEF TypeOK, vars
  <2> QED
    BY <2>1, <2>2
<1> QED
  BY <1>1, <1>2, PTL DEF Spec

-----------------------------------------------------------------------------
(***************************************************************************)
(* A request only touches its own slot                                     *)
(***************************************************************************)

\* Two states of a request that differ at most in what others have changed.
Same(x, y) ==
    /\ x.pc = y.pc
    /\ x.batch = y.batch
    /\ x.stored = y.stored
    /\ x.row = y.row
    /\ x.files = y.files

\* A commit puts the committing request where it says and leaves the others
\* where they are.
LEMMA CommitFrame ==
    ASSUME TypeOK, NEW r \in Requests, NEW next, NEW content, Commit(r, next, content)
    PROVE  /\ req'[r] = next
           /\ \A q \in Requests \ {r} : Same(req'[q], req[q])
<1>1. \A q \in Requests : Same([req[q] EXCEPT !.current = FALSE], req[q])
  BY DEF TypeOK, Request, Same
<1> QED
  BY <1>1 DEF Commit, Same

\* No step of a request moves another one.
LEMMA Others ==
    ASSUME TypeOK, NEW r \in Requests, OwnerStep(r) \/ ModeratorStep(r) \/ Crash(r)
    PROVE  \A q \in Requests \ {r} : Same(req'[q], req[q])
<1>1. CASE \E step, batch : Load(r, step, batch)
  BY <1>1 DEF Load, TypeOK, Same
<1>2. CASE \E next, content : Commit(r, next, content)
  BY <1>2, CommitFrame
<1>3. CASE SaveUpload(r) \/ BuildPreview(r) \/ FailAttach(r) \/ AbortAttach(r)
           \/ FinishAttach(r) \/ PurgeObjects(r) \/ Crash(r)
  BY <1>3 DEF SaveUpload, BuildPreview, FailAttach, AbortAttach, FinishAttach,
              PurgeObjects, Crash, TypeOK, Same
<1>4. AttachFiles(r) \/ DeleteFile(r) \/ Submit(r) \/ Withdraw(r) \/ UpdateMaterial(r)
      \/ EditTags(r) \/ EditFiles(r) \/ DeleteMaterial(r) \/ Approve(r) \/ Reject(r)
      \/ RequestRevision(r) \/ MoveSubject(r)
        => \E step, batch : Load(r, step, batch)
  BY DEF AttachFiles, DeleteFile, Submit, Withdraw, UpdateMaterial, EditTags, EditFiles,
         DeleteMaterial, Approve, Reject, RequestRevision, MoveSubject
<1>5. CommitAttach(r) \/ CommitDeleteFile(r) \/ CommitSubmit(r) \/ CommitWithdraw(r)
      \/ CommitEdit(r) \/ CommitDelete(r) \/ CommitApprove(r) \/ CommitReject(r)
      \/ CommitRevision(r) \/ CommitMove(r)
        => \E next, content : Commit(r, next, content)
  BY DEF CommitAttach, CommitDeleteFile, CommitSubmit, CommitWithdraw, CommitEdit,
         CommitDelete, CommitApprove, CommitReject, CommitRevision, CommitMove
<1> QED
  BY <1>1, <1>2, <1>3, <1>4, <1>5 DEF OwnerStep, ModeratorStep

-----------------------------------------------------------------------------
(***************************************************************************)
(* What a handler has checked                                              *)
(***************************************************************************)

LEMMA CheckedStep ==
    ASSUME TypeOK, Checked, NEW r \in Requests,
           OwnerStep(r) \/ ModeratorStep(r) \/ Crash(r)
    PROVE  Checked'
<1>1. CheckedRequest(Idle)
  BY DEF CheckedRequest, Idle
<1>2. \A q \in Requests \ {r} : CheckedRequest(req'[q])
  BY Others DEF Checked, CheckedRequest, Same
<1>3. CheckedRequest(req'[r])
  <2> USE DEF CheckedRequest
  <2>1. CASE AttachFiles(r)
    BY <2>1 DEF AttachFiles, Load, TypeOK
  <2>2. CASE SaveUpload(r)
    <3>1. PICK f \in req[r].batch \ req[r].stored :
             IF req[r].row.file_count + Cardinality(req[r].stored) + 1 > MaxTotalSize
             THEN req' = [req EXCEPT ![r].pc = "aborting"]
             ELSE req' = [req EXCEPT ![r].stored = @ \cup {f}]
      BY <2>2 DEF SaveUpload
    <3>2. CASE req' = [req EXCEPT ![r].pc = "aborting"]
      BY <3>2 DEF TypeOK, Request
    <3>3. CASE /\ req' = [req EXCEPT ![r].stored = @ \cup {f}]
               /\ ~(req[r].row.file_count + Cardinality(req[r].stored) + 1 > MaxTotalSize)
      <4>1. IsFiniteSet(req[r].stored)
        BY ConstantsAssumption, FS_Subset DEF TypeOK, Request
      <4>2. Cardinality(req[r].stored \cup {f}) = Cardinality(req[r].stored) + 1
        BY <3>1, <4>1, FS_AddElement
      <4>3. Cardinality(req[r].stored) \in Nat /\ req[r].row.file_count \in Nat
        BY <4>1, FS_CardinalityType DEF TypeOK, Request, Material
      <4>4. req[r].row.file_count + Cardinality(req[r].stored \cup {f}) <= MaxTotalSize
        BY <3>3, <4>2, <4>3, ConstantsAssumption
      <4>5. req'[r] = [req[r] EXCEPT !.stored = @ \cup {f}]
        BY <3>3 DEF TypeOK
      <4> QED
        BY <4>4, <4>5, <2>2 DEF Checked, TypeOK, Request, SaveUpload
    <3> QED
      BY <3>1, <3>2, <3>3
  <2>3. CASE BuildPreview(r)
    BY <2>3 DEF BuildPreview, Checked
  <2>4. CASE CommitAttach(r)
    <3>1. req'[r] = [req[r] EXCEPT !.pc = "invalidating"]
      BY <2>4, CommitFrame DEF CommitAttach
    <3>2. req'[r].pc = "invalidating"
      BY <3>1 DEF TypeOK, Request
    <3> QED
      BY <3>2
  <2>5. CASE FailAttach(r)
    BY <2>5 DEF FailAttach, TypeOK, Request
  <2>6. CASE AbortAttach(r) \/ FinishAttach(r) \/ PurgeObjects(r) \/ Crash(r)
    BY <2>6, <1>1 DEF AbortAttach, FinishAttach, PurgeObjects, Crash, TypeOK
  <2>7. CASE DeleteFile(r)
    BY <2>7 DEF DeleteFile, Load, TypeOK
  <2>8. CASE CommitDeleteFile(r)
    <3>1. req'[r] = [req[r] EXCEPT !.pc = "purging"]
      BY <2>8, CommitFrame DEF CommitDeleteFile
    <3>2. req'[r].pc = "purging"
      BY <3>1 DEF TypeOK, Request
    <3> QED
      BY <3>2
  <2>9. CASE CommitSubmit(r) \/ CommitWithdraw(r) \/ CommitEdit(r) \/ CommitDelete(r)
             \/ CommitApprove(r) \/ CommitReject(r) \/ CommitRevision(r) \/ CommitMove(r)
    <3>1. req'[r] = Idle
      BY <2>9, CommitFrame DEF CommitSubmit, CommitWithdraw, CommitEdit, CommitDelete,
                               CommitApprove, CommitReject, CommitRevision, CommitMove
    <3> QED
      BY <3>1, <1>1
  <2>10. CASE Submit(r)
    BY <2>10 DEF Submit, Load, TypeOK
  <2>11. CASE Withdraw(r)
    BY <2>11 DEF Withdraw, Load, TypeOK
  <2>12. CASE UpdateMaterial(r) \/ EditTags(r) \/ EditFiles(r)
    BY <2>12 DEF UpdateMaterial, EditTags, EditFiles, Load, TypeOK
  <2>13. CASE DeleteMaterial(r)
    BY <2>13 DEF DeleteMaterial, Load, TypeOK
  <2>14. CASE Approve(r)
    BY <2>14 DEF Approve, Load, TypeOK
  <2>15. CASE Reject(r) \/ RequestRevision(r) \/ MoveSubject(r)
    BY <2>15 DEF Reject, RequestRevision, MoveSubject, Load, TypeOK
  <2> QED
    BY <2>1, <2>2, <2>3, <2>4, <2>5, <2>6, <2>7, <2>8, <2>9, <2>10, <2>11, <2>12,
       <2>13, <2>14, <2>15 DEF OwnerStep, ModeratorStep
<1> QED
  BY <1>2, <1>3 DEF Checked

-----------------------------------------------------------------------------
(***************************************************************************)
(* Who owns a file                                                         *)
(***************************************************************************)

LEMMA OwnershipStep ==
    ASSUME TypeOK, Checked, Ownership, NEW r \in Requests,
           OwnerStep(r) \/ ModeratorStep(r) \/ Crash(r)
    PROVE  Ownership'
<1> USE DEF Uploading, Removing
<1>s. \A q \in Requests \ {r} : Same(req'[q], req[q])
  BY Others
\* A request that has stopped, or has loaded without files, owns nothing.
<1>a. ASSUME files' \subseteq files, used' = used,
             req'[r].batch = {}, req'[r].stored = {},
             req'[r].pc \notin Uploading \cup Removing
      PROVE  Ownership'
  BY <1>a, <1>s DEF Ownership, Same
\* A request that goes on with the files it has.
<1>b. ASSUME files' = files, used' = used,
             req'[r].batch = req[r].batch, req'[r].stored \subseteq req[r].batch,
             \/ req'[r].pc = req[r].pc
             \/ req[r].pc \in Uploading /\ req'[r].pc = "aborting"
      PROVE  Ownership'
  BY <1>b, <1>s DEF Ownership, Same
<1>i. Idle.batch = {} /\ Idle.stored = {} /\ Idle.pc \notin Uploading \cup Removing
  BY DEF Idle
<1>1. CASE AttachFiles(r)
  <2>1. PICK batch \in SUBSET (Files \ used) :
           Load(r, "saving", batch) /\ used' = used \cup batch
    BY <1>1 DEF AttachFiles
  <2>2. /\ req'[r].batch = batch /\ req'[r].stored = {} /\ req'[r].pc = "saving"
        /\ files' = files
    BY <2>1 DEF Load, TypeOK
  <2>3. batch \cap used = {}
    BY <2>1
  <2> QED
    BY <2>1, <2>2, <2>3, <1>s DEF Ownership, Same
<1>2. CASE SaveUpload(r)
  BY <1>2, <1>b DEF SaveUpload, TypeOK, Request, Ownership
<1>3. CASE BuildPreview(r)
  BY <1>3, <1>b DEF BuildPreview, Ownership
<1>4. CASE CommitAttach(r)
  <2>1. req'[r] = [req[r] EXCEPT !.pc = "invalidating"]
    BY <1>4, CommitFrame DEF CommitAttach
  <2>2. /\ req'[r].batch = req[r].batch /\ req'[r].stored = req[r].stored
        /\ req'[r].pc = "invalidating" /\ req[r].pc = "saving"
        /\ files' = files \cup req[r].batch
        /\ used' = used
    BY <2>1, <1>4 DEF TypeOK, Request, CommitAttach, Commit
  <2> QED
    BY <2>2, <1>s DEF Ownership, Same
<1>5. CASE FailAttach(r)
  BY <1>5, <1>b DEF FailAttach, TypeOK, Request, Ownership
<1>6. CASE AbortAttach(r) \/ FinishAttach(r) \/ PurgeObjects(r) \/ Crash(r)
  <2>1. req'[r] = Idle /\ files' = files /\ used' = used
    BY <1>6 DEF AbortAttach, FinishAttach, PurgeObjects, Crash, TypeOK
  <2> QED
    BY <2>1, <1>i, <1>a
<1>7. CASE DeleteFile(r)
  <2>1. PICK f \in files : Load(r, "delete_file", {f})
    BY <1>7 DEF DeleteFile
  <2>2. /\ req'[r].batch = {f} /\ req'[r].stored = {} /\ req'[r].pc = "delete_file"
        /\ files' = files /\ used' = used
    BY <2>1, <1>7 DEF Load, TypeOK, DeleteFile
  <2> QED
    BY <2>1, <2>2, <1>s DEF Ownership, Same
<1>8. CASE CommitDeleteFile(r)
  <2>1. req'[r] = [req[r] EXCEPT !.pc = "purging"]
    BY <1>8, CommitFrame DEF CommitDeleteFile
  <2>2. /\ req'[r].batch = req[r].batch /\ req'[r].stored = req[r].stored
        /\ req'[r].pc = "purging" /\ req[r].pc = "delete_file"
        /\ files' = files \ req[r].batch
        /\ used' = used
    BY <2>1, <1>8 DEF TypeOK, Request, CommitDeleteFile, Commit
  <2> QED
    BY <2>2, <1>s DEF Ownership, Same
<1>9. CASE CommitSubmit(r) \/ CommitWithdraw(r) \/ CommitEdit(r) \/ CommitDelete(r)
           \/ CommitApprove(r) \/ CommitReject(r) \/ CommitRevision(r) \/ CommitMove(r)
  <2>1. req'[r] = Idle
    BY <1>9, CommitFrame DEF CommitSubmit, CommitWithdraw, CommitEdit, CommitDelete,
                             CommitApprove, CommitReject, CommitRevision, CommitMove
  <2>2. files' = files /\ used' = used
    BY <1>9 DEF CommitSubmit, CommitWithdraw, CommitEdit, CommitDelete, CommitApprove,
                CommitReject, CommitRevision, CommitMove, Commit
  <2> QED
    BY <2>1, <2>2, <1>i, <1>a
<1>10. ASSUME NEW step \in Steps \ (Uploading \cup Removing), Load(r, step, {}),
              used' = used
       PROVE  Ownership'
  <2>1. /\ req'[r].batch = {} /\ req'[r].stored = {} /\ req'[r].pc = step
        /\ files' = files
    BY <1>10 DEF Load, TypeOK
  <2> QED
    BY <2>1, <1>10, <1>a
<1>11. CASE Submit(r) \/ Withdraw(r) \/ UpdateMaterial(r) \/ EditTags(r) \/ EditFiles(r)
            \/ DeleteMaterial(r) \/ Approve(r) \/ Reject(r) \/ RequestRevision(r)
            \/ MoveSubject(r)
  BY <1>11, <1>10 DEF Submit, Withdraw, UpdateMaterial, EditTags, EditFiles,
                      DeleteMaterial, Approve, Reject, RequestRevision, MoveSubject, Steps
<1> QED
  BY <1>1, <1>2, <1>3, <1>4, <1>5, <1>6, <1>7, <1>8, <1>9, <1>11
     DEF OwnerStep, ModeratorStep

\* The facts about requests under way hold in every reachable state.
LEMMA Bookkeeping == Spec => [](Checked /\ Ownership)
<1>1. Init => Checked /\ Ownership
  BY DEF Init, Checked, CheckedRequest, Ownership, Idle, Uploading, Removing
<1>2. TypeOK /\ Checked /\ Ownership /\ [Next]_vars => (Checked /\ Ownership)'
  <2>1. TypeOK /\ Checked /\ Ownership /\ Next => (Checked /\ Ownership)'
    BY CheckedStep, OwnershipStep DEF Next
  <2>2. Checked /\ Ownership /\ UNCHANGED vars => (Checked /\ Ownership)'
    BY DEF Checked, Ownership, vars
  <2> QED
    BY <2>1, <2>2
<1> QED
  BY <1>1, <1>2, TypeCorrect, PTL DEF Spec

-----------------------------------------------------------------------------
(***************************************************************************)
(* Rows and storage                                                        *)
(***************************************************************************)

LEMMA StoredStep ==
    ASSUME TypeOK, Checked, Ownership, Stored, ~CacheMayFail, NEW r \in Requests,
           OwnerStep(r) \/ ModeratorStep(r) \/ Crash(r)
    PROVE  Stored'
<1> USE DEF Uploading, Removing
<1>s. \A q \in Requests \ {r} : Same(req'[q], req[q])
  BY Others
<1>a. ASSUME objects \subseteq objects', files' \subseteq files,
             req'[r].pc \notin {"saving", "aborting"}
      PROVE  Stored'
  BY <1>a, <1>s DEF Stored, RowsBacked, Same
<1>i. Idle.pc = "idle"
  BY DEF Idle
<1>1. CASE AttachFiles(r)
  BY <1>1, <1>s DEF AttachFiles, Load, TypeOK, Stored, RowsBacked, Same
<1>2. CASE SaveUpload(r)
  <2>1. /\ req[r].pc = "saving" /\ files' = files /\ objects \subseteq objects'
        /\ \/ req'[r].pc = "aborting" /\ req'[r].stored = req[r].stored
           \/ \E f \in Files : /\ <<f, "file">> \in objects'
                              /\ req'[r].pc = "saving"
                              /\ req'[r].stored = req[r].stored \cup {f}
    BY <1>2 DEF SaveUpload, TypeOK, Request
  <2>2. RowsBacked'
    BY <2>1 DEF Stored, RowsBacked
  <2>3. req'[r].pc = "saving" => \A f \in req'[r].stored : <<f, "file">> \in objects'
    BY <2>1 DEF Stored
  <2>4. req'[r].pc = "aborting" => req'[r].stored \cap files' = {}
    BY <2>1 DEF Ownership
  <2>5. \A q \in Requests \ {r} :
           /\ req'[q].pc = "saving" => \A f \in req'[q].stored : <<f, "file">> \in objects'
           /\ req'[q].pc = "aborting" => req'[q].stored \cap files' = {}
    BY <2>1, <1>s DEF Stored, Same
  <2> QED
    BY <2>2, <2>3, <2>4, <2>5 DEF Stored
<1>3. CASE BuildPreview(r)
  BY <1>3 DEF BuildPreview, Stored, RowsBacked
<1>4. CASE CommitAttach(r)
  <2>1. req'[r] = [req[r] EXCEPT !.pc = "invalidating"]
    BY <1>4, CommitFrame DEF CommitAttach
  <2>2. req'[r].pc = "invalidating"
    BY <2>1 DEF TypeOK, Request
  <2>3. RowsBacked'
    BY <1>4 DEF CommitAttach, Stored, RowsBacked
  <2>4. \A q \in Requests \ {r} :
           req[q].pc = "aborting" => req[q].stored \cap files' = {}
    BY <1>4 DEF CommitAttach, Stored, Ownership
  <2> QED
    BY <2>2, <2>3, <2>4, <1>4, <1>s DEF Stored, Same, CommitAttach
<1>5. CASE FailAttach(r)
  <2>1. /\ req[r].pc = "saving" /\ req'[r].pc = "aborting"
        /\ req'[r].stored = req[r].stored
    BY <1>5 DEF FailAttach, TypeOK, Request
  <2> QED
    BY <2>1, <1>5, <1>s DEF FailAttach, Stored, RowsBacked, Same, Ownership
<1>6. CASE AbortAttach(r)
  <2>1. req'[r].pc = "idle" /\ req[r].pc = "aborting"
    BY <1>6, <1>i DEF AbortAttach, TypeOK
  <2>2. \A f \in Files : f \notin req[r].stored /\ <<f, "file">> \in objects
                           => <<f, "file">> \in objects'
    BY <1>6 DEF AbortAttach
  <2>3. \A f \in Files : <<f, "preview">> \in objects => <<f, "preview">> \in objects'
    BY <1>6 DEF AbortAttach
  <2>4. RowsBacked'
    BY <2>1, <2>2, <2>3, <1>6 DEF AbortAttach, Stored, RowsBacked, TypeOK
  <2>5. \A q \in Requests \ {r} :
           req[q].pc = "saving" => \A f \in req[q].stored : <<f, "file">> \in objects'
    BY <2>1, <2>2 DEF Stored, Ownership, TypeOK, Request
  <2> QED
    BY <2>1, <2>4, <2>5, <1>6, <1>s DEF AbortAttach, Stored, Same
<1>7. CASE FinishAttach(r) \/ Crash(r)
  BY <1>7, <1>i, <1>a DEF FinishAttach, Crash, TypeOK
<1>8. CASE PurgeObjects(r)
  <2>1. req'[r].pc = "idle" /\ req[r].pc = "purging"
    BY <1>8, <1>i DEF PurgeObjects, TypeOK
  <2>2. \A f \in Files, k \in {"file", "preview"} :
           f \notin req[r].batch /\ <<f, k>> \in objects => <<f, k>> \in objects'
    BY <1>8 DEF PurgeObjects
  <2>3. RowsBacked'
    BY <2>1, <2>2, <1>8 DEF PurgeObjects, Stored, RowsBacked, Ownership, TypeOK
  <2>4. \A q \in Requests \ {r} :
           req[q].pc = "saving" => \A f \in req[q].stored : <<f, "file">> \in objects'
    BY <2>1, <2>2 DEF Stored, Ownership, TypeOK, Request
  <2> QED
    BY <2>1, <2>3, <2>4, <1>8, <1>s DEF PurgeObjects, Stored, Same
<1>9. CASE CommitDeleteFile(r)
  <2>1. req'[r] = [req[r] EXCEPT !.pc = "purging"]
    BY <1>9, CommitFrame DEF CommitDeleteFile
  <2>2. req'[r].pc = "purging"
    BY <2>1 DEF TypeOK, Request
  <2> QED
    BY <2>2, <1>9, <1>a DEF CommitDeleteFile
<1>10. CASE CommitSubmit(r) \/ CommitWithdraw(r) \/ CommitEdit(r) \/ CommitDelete(r)
            \/ CommitApprove(r) \/ CommitReject(r) \/ CommitRevision(r) \/ CommitMove(r)
  <2>1. req'[r] = Idle
    BY <1>10, CommitFrame DEF CommitSubmit, CommitWithdraw, CommitEdit, CommitDelete,
                              CommitApprove, CommitReject, CommitRevision, CommitMove
  <2>2. files' = files /\ objects' = objects
    BY <1>10 DEF CommitSubmit, CommitWithdraw, CommitEdit, CommitDelete, CommitApprove,
                 CommitReject, CommitRevision, CommitMove
  <2> QED
    BY <2>1, <2>2, <1>i, <1>a
<1>11. CASE DeleteFile(r) \/ Submit(r) \/ Withdraw(r) \/ UpdateMaterial(r) \/ EditTags(r)
            \/ EditFiles(r) \/ DeleteMaterial(r) \/ Approve(r) \/ Reject(r)
            \/ RequestRevision(r) \/ MoveSubject(r)
  <2>1. \E step \in Steps \ {"saving", "aborting"} : \E batch : Load(r, step, batch)
    BY <1>11 DEF DeleteFile, Submit, Withdraw, UpdateMaterial, EditTags, EditFiles,
                 DeleteMaterial, Approve, Reject, RequestRevision, MoveSubject, Steps
  <2> QED
    BY <2>1, <1>a DEF Load, TypeOK
<1> QED
  BY <1>1, <1>2, <1>3, <1>4, <1>5, <1>6, <1>7, <1>8, <1>9, <1>10, <1>11
     DEF OwnerStep, ModeratorStep

\* With a cache that does not fail, no interleaving of uploads, deletions and
\* crashes leaves a file row whose object (or preview) is not in storage.
THEOREM RowsAlwaysBacked == ~CacheMayFail => (Spec => []RowsBacked)
<1> SUFFICES ASSUME ~CacheMayFail
             PROVE  Spec => []RowsBacked
  OBVIOUS
<1>1. Init => Stored
  BY DEF Init, Stored, RowsBacked, Idle
<1>2. TypeOK /\ Checked /\ Ownership /\ Stored /\ [Next]_vars => Stored'
  <2>1. TypeOK /\ Checked /\ Ownership /\ Stored /\ Next => Stored'
    BY StoredStep DEF Next
  <2>2. Stored /\ UNCHANGED vars => Stored'
    BY DEF Stored, RowsBacked, vars
  <2> QED
    BY <2>1, <2>2
<1>3. Stored => RowsBacked
  BY DEF Stored
<1> QED
  BY <1>1, <1>2, <1>3, TypeCorrect, Bookkeeping, PTL DEF Spec

-----------------------------------------------------------------------------
(***************************************************************************)
(* Commits on current data                                                 *)
(***************************************************************************)

\* The steps that are not commits: they leave the rows and the log alone.
Quiet == UNCHANGED <<row, files, lastLog, reviewed, raced>>

\* A request that commits without a race finds what it had loaded.
LEMMA Current ==
    ASSUME NEW r \in Requests, NEW next, NEW content, Commit(r, next, content), ~raced'
    PROVE  ~raced /\ row = req[r].row /\ files = req[r].files /\ req[r].current
BY DEF Commit, Outdated

\* Every step is quiet or one of the ten commits.
LEMMA QuietOrCommit ==
    ASSUME NEW r \in Requests, OwnerStep(r) \/ ModeratorStep(r) \/ Crash(r)
    PROVE  \/ Quiet
           \/ CommitAttach(r) \/ CommitDeleteFile(r) \/ CommitSubmit(r)
           \/ CommitWithdraw(r) \/ CommitEdit(r) \/ CommitDelete(r)
           \/ CommitApprove(r) \/ CommitReject(r) \/ CommitRevision(r) \/ CommitMove(r)
<1>1. CASE \E step, batch : Load(r, step, batch)
  BY <1>1 DEF Load, Quiet
<1>2. CASE SaveUpload(r) \/ BuildPreview(r) \/ FailAttach(r) \/ AbortAttach(r)
           \/ FinishAttach(r) \/ PurgeObjects(r) \/ Crash(r)
  BY <1>2 DEF SaveUpload, BuildPreview, FailAttach, AbortAttach, FinishAttach,
              PurgeObjects, Crash, Quiet
<1>3. AttachFiles(r) \/ DeleteFile(r) \/ Submit(r) \/ Withdraw(r) \/ UpdateMaterial(r)
      \/ EditTags(r) \/ EditFiles(r) \/ DeleteMaterial(r) \/ Approve(r) \/ Reject(r)
      \/ RequestRevision(r) \/ MoveSubject(r)
        => \E step, batch : Load(r, step, batch)
  BY DEF AttachFiles, DeleteFile, Submit, Withdraw, UpdateMaterial, EditTags, EditFiles,
         DeleteMaterial, Approve, Reject, RequestRevision, MoveSubject
<1> QED
  BY <1>1, <1>2, <1>3 DEF OwnerStep, ModeratorStep

LEMMA SettledStep ==
    ASSUME TypeOK, Checked, Ownership, Settled, NEW r \in Requests,
           OwnerStep(r) \/ ModeratorStep(r) \/ Crash(r)
    PROVE  Settled'
<1> SUFFICES ASSUME ~raced'
             PROVE  /\ row'.file_count = Cardinality(files')
                    /\ row'.file_count <= MaxTotalSize
                    /\ row'.status = "approved" => reviewed' /\ files' # {}
  BY DEF Settled
<1>f. /\ IsFiniteSet(files) /\ IsFiniteSet(req[r].batch)
      /\ Cardinality(files) \in Nat /\ Cardinality(req[r].batch) \in Nat
      /\ row.file_count \in Nat
  BY ConstantsAssumption, FS_Subset, FS_CardinalityType DEF TypeOK, Request, Material
<1>c. CheckedRequest(req[r])
  BY DEF Checked
<1>1. CASE Quiet
  BY <1>1 DEF Quiet, Settled
<1>2. CASE CommitAttach(r)
  <2>1. ~raced /\ row = req[r].row
    BY <1>2, Current DEF CommitAttach
  <2>2. /\ files' = files \cup req[r].batch
        /\ row' = [row EXCEPT !.file_count = @ + Cardinality(req[r].batch)]
        /\ req[r].pc = "saving" /\ req[r].stored = req[r].batch
    BY <1>2 DEF CommitAttach
  <2>3. row'.file_count = row.file_count + Cardinality(req[r].batch)
        /\ row'.status = row.status
    BY <2>2 DEF TypeOK, Material
  <2>4. Cardinality(files') = Cardinality(files) + Cardinality(req[r].batch)
    <3>1. files \cap req[r].batch = {}
      BY <2>2 DEF Ownership
    <3>2. Cardinality(files \cup req[r].batch)
            = Cardinality(files) + Cardinality(req[r].batch)
                - Cardinality(files \cap req[r].batch)
      BY <1>f, FS_Union
    <3>3. Cardinality(files \cap req[r].batch) = 0
      BY <3>1, FS_EmptySet
    <3> QED
      BY <3>2, <3>3, <2>2, <1>f
  <2>5. row.file_count + Cardinality(req[r].batch) <= MaxTotalSize
    BY <2>1, <2>2, <1>c DEF CheckedRequest
  <2>6. row.status = "draft"
    BY <2>1, <2>2, <1>c DEF CheckedRequest
  <2> QED
    BY <2>1, <2>3, <2>4, <2>5, <2>6 DEF Settled
<1>3. CASE CommitDeleteFile(r)
  <2>1. ~raced /\ row = req[r].row /\ files = req[r].files
    BY <1>3, Current DEF CommitDeleteFile
  <2>2. PICK f \in files : files' = files \ {f}
    BY <1>3, <2>1, <1>c DEF CommitDeleteFile, CheckedRequest
  <2>3. Cardinality(files') = Cardinality(files) - 1
    BY <2>2, <1>f, FS_RemoveElement
  <2>4. Cardinality(files') \in Nat
    BY <2>2, <1>f, FS_RemoveElement, FS_CardinalityType
  <2>5. row.file_count = Cardinality(files) /\ row.file_count <= MaxTotalSize
    BY <2>1 DEF Settled
  <2>6. CountAfterDelete(r) = row.file_count - 1
    BY <2>1, <2>3, <2>4, <2>5, <1>f DEF CountAfterDelete
  <2>7. row'.file_count = CountAfterDelete(r) /\ row'.status # "approved"
    BY <1>3, <2>1 DEF CommitDeleteFile, ContentRow, TypeOK, Material
  <2> QED
    BY <2>3, <2>5, <2>6, <2>7, <1>f, ConstantsAssumption
<1>4. CASE CommitSubmit(r) \/ CommitWithdraw(r) \/ CommitReject(r) \/ CommitRevision(r)
  <2>1. ~raced
    BY <1>4, Current DEF CommitSubmit, CommitWithdraw, CommitReject, CommitRevision
  <2>2. files' = files /\ row'.file_count = row.file_count /\ row'.status # "approved"
    BY <1>4 DEF CommitSubmit, CommitWithdraw, CommitReject, CommitRevision, TypeOK,
                Material
  <2> QED
    BY <2>1, <2>2 DEF Settled
<1>5. CASE CommitEdit(r)
  <2>1. ~raced /\ row = req[r].row
    BY <1>5, Current DEF CommitEdit
  <2>2. files' = files /\ row'.file_count = row.file_count /\ row'.status # "approved"
    BY <1>5, <2>1 DEF CommitEdit, ContentRow, TypeOK, Material
  <2> QED
    BY <2>1, <2>2 DEF Settled
<1>6. CASE CommitDelete(r) \/ CommitMove(r)
  <2>1. ~raced
    BY <1>6, Current DEF CommitDelete, CommitMove
  <2>2. /\ files' = files /\ row'.file_count = row.file_count
        /\ row'.status = row.status /\ reviewed' = reviewed
    BY <1>6 DEF CommitDelete, CommitMove, TypeOK, Material
  <2> QED
    BY <2>1, <2>2 DEF Settled
<1>7. CASE CommitApprove(r)
  <2>1. ~raced /\ row = req[r].row /\ req[r].current
    BY <1>7, Current DEF CommitApprove
  <2>2. /\ files' = files /\ row'.file_count = row.file_count
        /\ reviewed' = req[r].current
    BY <1>7 DEF CommitApprove, TypeOK, Material
  <2>3. row.file_count >= 1
    BY <1>7, <2>1, <1>c DEF CommitApprove, CheckedRequest
  <2>4. files # {}
    BY <2>1, <2>3, FS_EmptySet DEF Settled
  <2> QED
    BY <2>1, <2>2, <2>4 DEF Settled
<1> QED
  BY <1>1, <1>2, <1>3, <1>4, <1>5, <1>6, <1>7, QuietOrCommit

LEMMA AlwaysSettled == Spec => []Settled
<1>1. Init => Settled
  BY ConstantsAssumption, FS_EmptySet DEF Init, Settled, NewDraft
<1>2. TypeOK /\ Checked /\ Ownership /\ Settled /\ [Next]_vars => Settled'
  <2>1. TypeOK /\ Checked /\ Ownership /\ Settled /\ Next => Settled'
    BY SettledStep DEF Next
  <2>2. Settled /\ UNCHANGED vars => Settled'
    BY DEF Settled, vars
  <2> QED
    BY <2>1, <2>2
<1> QED
  BY <1>1, <1>2, TypeCorrect, Bookkeeping, PTL DEF Spec

\* file_count counts the file rows until some handler commits on outdated
\* data, for any number of handlers of attach_files and delete_file.
THEOREM FileCountAlwaysExact == Spec => []FileCountExact
<1>1. Settled => FileCountExact
  BY DEF Settled, FileCountExact
<1> QED
  BY <1>1, AlwaysSettled, PTL

\* attach_files keeps the material within upload_max_total_size until some
\* handler commits on outdated data.
THEOREM AlwaysWithinTotalSize == Spec => []WithinTotalSize
<1>1. Settled => WithinTotalSize
  BY DEF Settled, WithinTotalSize
<1> QED
  BY <1>1, AlwaysSettled, PTL

\* A material is public only with files, and with the content its moderator
\* had loaded, until some handler commits on outdated data.
THEOREM PublicAlwaysReviewed == Spec => []PublicIsReviewed
<1>1. Settled => PublicIsReviewed
  BY DEF Settled, PublicIsReviewed
<1> QED
  BY <1>1, AlwaysSettled, PTL

-----------------------------------------------------------------------------
(***************************************************************************)
(* The review log                                                          *)
(***************************************************************************)

\* The status is the one the last entry of the review log leaves, races or
\* not: each handler writes both in one transaction.
THEOREM StatusAlwaysMatchesLog == Spec => []StatusMatchesLog
<1>1. Init => StatusMatchesLog
  BY DEF Init, StatusMatchesLog, StatusAfter, NewDraft
<1>2. TypeOK /\ StatusMatchesLog /\ [Next]_vars => StatusMatchesLog'
  <2> SUFFICES ASSUME TypeOK, StatusMatchesLog, [Next]_vars
               PROVE  StatusMatchesLog'
    OBVIOUS
  <2> USE DEF StatusMatchesLog
  <2>1. CASE UNCHANGED vars
    BY <2>1 DEF vars
  <2>2. ASSUME NEW r \in Requests, OwnerStep(r) \/ ModeratorStep(r) \/ Crash(r)
        PROVE  StatusMatchesLog'
    <3>1. CASE Quiet
      BY <3>1 DEF Quiet
    <3>2. CASE CommitAttach(r) \/ CommitDelete(r) \/ CommitMove(r)
      BY <3>2 DEF CommitAttach, CommitDelete, CommitMove, TypeOK, Material
    <3>3. CASE CommitDeleteFile(r) \/ CommitEdit(r)
      BY <3>3 DEF CommitDeleteFile, CommitEdit, ContentRow, ContentLog, StatusAfter,
                  TypeOK, Material
    <3>4. CASE CommitSubmit(r) \/ CommitWithdraw(r) \/ CommitApprove(r)
               \/ CommitReject(r) \/ CommitRevision(r)
      BY <3>4 DEF CommitSubmit, CommitWithdraw, CommitApprove, CommitReject,
                  CommitRevision, StatusAfter, TypeOK, Material
    <3> QED
      BY <2>2, <3>1, <3>2, <3>3, <3>4, QuietOrCommit
  <2> QED
    BY <2>1, <2>2 DEF Next
<1> QED
  BY <1>1, <1>2, TypeCorrect, PTL DEF Spec

-----------------------------------------------------------------------------
(***************************************************************************)
(* The handlers implement the review workflow                              *)
(***************************************************************************)

\* A commit on current data is a step of the workflow.
LEMMA WorkflowStep ==
    ASSUME TypeOK, Checked, Settled, NEW r \in Requests,
           OwnerStep(r) \/ ModeratorStep(r) \/ Crash(r), ~raced'
    PROVE  \/ Workflow!Next
           \/ UNCHANGED <<row.status, files # {}, reviewed, row.deleted>>
<1>c. CheckedRequest(req[r])
  BY DEF Checked
<1>r. row \in Material /\ row.status \in Status
  BY DEF TypeOK, Material
<1>s. ASSUME ~raced, row.file_count >= 1 PROVE files # {}
  BY <1>s, FS_EmptySet DEF Settled
<1>1. CASE Quiet
  BY <1>1 DEF Quiet
<1>2. CASE CommitAttach(r)
  <2>1. row = req[r].row
    BY <1>2, Current DEF CommitAttach
  <2>2. row.status = "draft" /\ ~row.deleted
    BY <1>2, <2>1, <1>c DEF CommitAttach, CheckedRequest
  <2>3. row'.status = row.status /\ row'.deleted = row.deleted /\ reviewed' = FALSE
    BY <1>2, <1>r DEF CommitAttach, Material
  <2> QED
    BY <2>2, <2>3 DEF Workflow!Next, Workflow!Edit
<1>3. CASE CommitDeleteFile(r) \/ CommitEdit(r)
  <2>1. row = req[r].row
    BY <1>3, Current DEF CommitDeleteFile, CommitEdit
  <2>2. row.status # "pending" /\ ~row.deleted
    BY <1>3, <2>1, <1>c DEF CommitDeleteFile, CommitEdit, CheckedRequest
  <2>3. /\ row'.status = IF row.status = "approved" THEN "pending" ELSE row.status
        /\ row'.deleted = row.deleted /\ reviewed' = FALSE
    BY <1>3, <2>1, <1>r DEF CommitDeleteFile, CommitEdit, ContentRow, Material
  <2>4. files' # {} => files # {}
    BY <1>3 DEF CommitDeleteFile, CommitEdit
  <2> QED
    BY <2>2, <2>3, <2>4 DEF Workflow!Next, Workflow!Edit
<1>4. CASE CommitSubmit(r)
  <2>1. ~raced /\ row = req[r].row
    BY <1>4, Current DEF CommitSubmit
  <2>2. row.status \in {"draft", "rejected"} /\ ~row.deleted /\ files # {}
    BY <1>4, <2>1, <1>c, <1>s DEF CommitSubmit, CheckedRequest
  <2>3. /\ row'.status = "pending" /\ row'.deleted = row.deleted
        /\ files' = files /\ reviewed' = reviewed
    BY <1>4, <1>r DEF CommitSubmit, Material
  <2> QED
    BY <2>2, <2>3 DEF Workflow!Next, Workflow!Submit
<1>5. CASE CommitWithdraw(r)
  <2>1. row = req[r].row
    BY <1>5, Current DEF CommitWithdraw
  <2>2. row.status = "pending" /\ ~row.deleted
    BY <1>5, <2>1, <1>c DEF CommitWithdraw, CheckedRequest
  <2>3. /\ row'.status = "draft" /\ row'.deleted = row.deleted
        /\ files' = files /\ reviewed' = reviewed
    BY <1>5, <1>r DEF CommitWithdraw, Material
  <2> QED
    BY <2>2, <2>3 DEF Workflow!Next, Workflow!Withdraw
<1>6. CASE CommitApprove(r)
  <2>1. ~raced /\ row = req[r].row /\ req[r].current
    BY <1>6, Current DEF CommitApprove
  <2>2. row.status = "pending" /\ ~row.deleted /\ files # {}
    BY <1>6, <2>1, <1>c, <1>s DEF CommitApprove, CheckedRequest
  <2>3. /\ row'.status = "approved" /\ row'.deleted = row.deleted
        /\ files' = files /\ reviewed' = req[r].current
    BY <1>6, <1>r DEF CommitApprove, Material
  <2>4. req[r].current = TRUE
    BY <2>1 DEF TypeOK, Request
  <2> QED
    BY <2>2, <2>3, <2>4 DEF Workflow!Next, Workflow!Approve
<1>7. CASE CommitReject(r) \/ CommitRevision(r)
  <2>1. row = req[r].row
    BY <1>7, Current DEF CommitReject, CommitRevision
  <2>2. row.status = "pending" /\ ~row.deleted
    BY <1>7, <2>1, <1>c DEF CommitReject, CommitRevision, CheckedRequest
  <2>3. /\ row'.status = "rejected" /\ row'.deleted = row.deleted
        /\ files' = files /\ reviewed' = reviewed
    BY <1>7, <1>r DEF CommitReject, CommitRevision, Material
  <2> QED
    BY <2>2, <2>3 DEF Workflow!Next, Workflow!Reject
<1>8. CASE CommitDelete(r)
  <2>1. row = req[r].row
    BY <1>8, Current DEF CommitDelete
  <2>2. ~row.deleted
    BY <1>8, <2>1, <1>c DEF CommitDelete, CheckedRequest
  <2>3. /\ row'.status = row.status /\ row'.deleted = TRUE
        /\ files' = files /\ reviewed' = reviewed
    BY <1>8, <1>r DEF CommitDelete, Material
  <2> QED
    BY <2>2, <2>3 DEF Workflow!Next, Workflow!Close
<1>9. CASE CommitMove(r)
  BY <1>9 DEF CommitMove
<1> QED
  BY <1>1, <1>2, <1>3, <1>4, <1>5, <1>6, <1>7, <1>8, <1>9, QuietOrCommit

\* The handlers implement the review workflow step by step, as long as they
\* commit on current data: the optimistic reading of the code is right, and
\* whatever goes wrong needs a race.
THEOREM ImplementsWorkflow == Spec => WorkflowUnlessRaced
<1>1. Init => Workflow!Init
  BY DEF Init, Workflow!Init, NewDraft
<1>2. TypeOK /\ Checked /\ Settled /\ [Next]_vars
        => [Workflow!Next \/ raced']_<<row.status, files # {}, reviewed, row.deleted>>
  <2> SUFFICES ASSUME TypeOK, Checked, Settled, [Next]_vars, ~raced'
               PROVE  \/ Workflow!Next
                      \/ UNCHANGED <<row.status, files # {}, reviewed, row.deleted>>
    OBVIOUS
  <2>1. CASE UNCHANGED vars
    BY <2>1 DEF vars
  <2>2. CASE Next
    BY <2>2, WorkflowStep DEF Next
  <2> QED
    BY <2>1, <2>2
<1> QED
  BY <1>1, <1>2, TypeCorrect, Bookkeeping, AlwaysSettled, PTL
     DEF Spec, WorkflowUnlessRaced
=============================================================================
