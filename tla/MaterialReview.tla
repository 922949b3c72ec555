--------------------------- MODULE MaterialReview ---------------------------
(***************************************************************************)
(* One study material: its database row, its file rows, the objects in     *)
(* storage behind them and its review log, under the requests of its owner *)
(* and of moderators (MaterialService and ModerationService).              *)
(*                                                                         *)
(* A request is a process.  It loads the material and checks what it read, *)
(* then it commits; nothing locks the row in between, and the ORM writes   *)
(* only the columns the handler changed, so a commit is applied to         *)
(* whatever the row has become.  attach_files and delete_file also touch   *)
(* storage, before and after their commit.  A request can die at any step. *)
(*                                                                         *)
(* Every file has size one, so file_count and total_size, which the code   *)
(* always moves together, are one number.  cover_file_id and               *)
(* primary_file_id, titles, tags and file order are content: the model     *)
(* records that they changed, not their values.                            *)
(***************************************************************************)
EXTENDS Integers, FiniteSets

CONSTANTS
    Requests,       \* request slots: how many handlers run at a time
    Files,          \* identifiers of uploads (uuid4: never reused)
    Pdfs,           \* the uploads that are PDF and get a preview object
    MaxFileCount,   \* upload_max_file_count
    MaxTotalSize,   \* upload_max_total_size
    CacheMayFail    \* whether Redis may be lost while a request runs

ASSUME ConstantsAssumption ==
    /\ Pdfs \subseteq Files
    /\ IsFiniteSet(Files)
    /\ MaxFileCount \in Nat
    /\ MaxTotalSize \in Nat
    /\ CacheMayFail \in BOOLEAN

VARIABLES
    row,        \* the committed row of the material
    files,      \* the committed rows of material_files
    objects,    \* what storage holds: <<file, "file">> or <<file, "preview">>
    used,       \* identifiers already handed out
    lastLog,    \* the last entry of the review log that concerns the status
    req,        \* what each request has read and where it is
    reviewed,   \* history: the owner's content is the one the last approval loaded
    raced       \* history: some request has committed on outdated data

vars == <<row, files, objects, used, lastLog, req, reviewed, raced>>

-----------------------------------------------------------------------------
Status == {"draft", "pending", "approved", "rejected"}

ReviewAction ==
    {"none", "submitted", "resubmitted", "withdrawn", "approved", "rejected",
     "requested_revision"}

Material ==
    [status : Status, file_count : Nat, deleted : BOOLEAN]

Steps ==
    {"idle", "saving", "invalidating", "aborting", "submit", "withdraw", "edit",
     "delete", "delete_file", "purging", "approve", "reject", "revise", "move"}

Request ==
    [pc : Steps,
     batch : SUBSET Files,      \* the files the request is about
     stored : SUBSET Files,     \* the uploads it has put in storage
     row : Material,            \* the row it loaded
     files : SUBSET Files,      \* the file rows it loaded
     current : BOOLEAN]         \* no content has changed since it loaded

NewDraft == [status |-> "draft", file_count |-> 0, deleted |-> FALSE]

Idle ==
    [pc |-> "idle", batch |-> {}, stored |-> {}, row |-> NewDraft, files |-> {},
     current |-> FALSE]

\* The material as create_draft leaves it.
Init ==
    /\ row = NewDraft
    /\ files = {}
    /\ objects = {}
    /\ used = {}
    /\ lastLog = "none"
    /\ req = [r \in Requests |-> Idle]
    /\ reviewed = FALSE
    /\ raced = FALSE

-----------------------------------------------------------------------------
(***************************************************************************)
(* Loading and committing                                                  *)
(***************************************************************************)

\* The request slot r starts a handler on a material that is not deleted:
\* what is there is read as it is now.
Load(r, step, batch) ==
    /\ req[r].pc = "idle"
    /\ ~row.deleted
    /\ req' = [req EXCEPT ![r] =
                 [pc |-> step, batch |-> batch, stored |-> {}, row |-> row,
                  files |-> files, current |-> TRUE]]
    /\ UNCHANGED <<row, files, objects, lastLog, reviewed, raced>>

\* Something r has read is no longer so.
Outdated(r) ==
    row # req[r].row \/ files # req[r].files \/ ~req[r].current

\* r commits and goes on as next; a change of content is one that every
\* other request under way has not seen.
Commit(r, next, content) ==
    /\ raced' = (raced \/ Outdated(r))
    /\ req' = [q \in Requests |->
                 IF q = r THEN next
                 ELSE IF content THEN [req[q] EXCEPT !.current = FALSE]
                 ELSE req[q]]
    /\ UNCHANGED used

\* Variants: the material stays public, or goes back unrecorded.
ContentRowUnmarked(r) == row

ContentLogSilent(r) == lastLog

\* The status a commit of changed content leaves, and what it logs: a
\* material that was loaded as approved goes back to review.
ContentRow(r) ==
    IF req[r].row.status = "approved" THEN [row EXCEPT !.status = "pending"] ELSE row

ContentLog(r) ==
    IF req[r].row.status = "approved" THEN "resubmitted" ELSE lastLog

-----------------------------------------------------------------------------
(***************************************************************************)
(* attach_files: storage first, then the rows                              *)
(***************************************************************************)

AttachFiles(r) ==
    /\ row.status = "draft"
    /\ \E batch \in SUBSET (Files \ used) :
          /\ batch # {}
          /\ Cardinality(batch) <= MaxFileCount
          /\ Load(r, "saving", batch)
          /\ used' = used \cup batch

\* Variant: the running total starts from zero instead of the stored total.
SaveUploadFromZero(r) ==
    /\ req[r].pc = "saving"
    /\ \E f \in req[r].batch \ req[r].stored :
          IF Cardinality(req[r].stored) + 1 > MaxTotalSize
          THEN /\ req' = [req EXCEPT ![r].pc = "aborting"]
               /\ UNCHANGED objects
          ELSE /\ req' = [req EXCEPT ![r].stored = @ \cup {f}]
               /\ objects' = objects \cup {<<f, "file">>}
    /\ UNCHANGED <<row, files, used, lastLog, reviewed, raced>>

\* One upload is written; past the total limit it is taken out again and the
\* handler raises.
SaveUpload(r) ==
    /\ req[r].pc = "saving"
    /\ \E f \in req[r].batch \ req[r].stored :
          IF req[r].row.file_count + Cardinality(req[r].stored) + 1 > MaxTotalSize
          THEN /\ req' = [req EXCEPT ![r].pc = "aborting"]
               /\ UNCHANGED objects
          ELSE /\ req' = [req EXCEPT ![r].stored = @ \cup {f}]
               /\ objects' = objects \cup {<<f, "file">>}
    /\ UNCHANGED <<row, files, used, lastLog, reviewed, raced>>

\* The preview of a PDF, once all uploads are stored.
BuildPreview(r) ==
    /\ req[r].pc = "saving"
    /\ req[r].stored = req[r].batch
    /\ \E f \in req[r].batch \cap Pdfs :
          /\ <<f, "preview">> \notin objects
          /\ objects' = objects \cup {<<f, "preview">>}
    /\ UNCHANGED <<row, files, used, lastLog, req, reviewed, raced>>

\* The rows, and the count relative to what it is in the database.
CommitAttach(r) ==
    /\ req[r].pc = "saving"
    /\ req[r].stored = req[r].batch
    /\ \A f \in req[r].batch \cap Pdfs : <<f, "preview">> \in objects
    /\ files' = files \cup req[r].batch
    /\ row' = [row EXCEPT !.file_count = @ + Cardinality(req[r].batch)]
    /\ reviewed' = FALSE
    /\ Commit(r, [req[r] EXCEPT !.pc = "invalidating"], TRUE)
    /\ UNCHANGED <<objects, lastLog>>

\* Variant: the error path is taken after the commit too.
FailAttachLate(r) ==
    /\ req[r].pc \in {"saving", "invalidating"}
    /\ req' = [req EXCEPT ![r].pc = "aborting"]
    /\ UNCHANGED <<row, files, objects, used, lastLog, reviewed, raced>>

\* Anything that raises inside the try block: a rejected upload, a storage or
\* database error and, after the commit, an error of the cache.
FailAttach(r) ==
    /\ \/ req[r].pc = "saving"
       \/ req[r].pc = "invalidating" /\ CacheMayFail
    /\ req' = [req EXCEPT ![r].pc = "aborting"]
    /\ UNCHANGED <<row, files, objects, used, lastLog, reviewed, raced>>

\* The except block takes the uploads out of storage, not their previews.
AbortAttach(r) ==
    /\ req[r].pc = "aborting"
    /\ objects' = objects \ {<<f, "file">> : f \in req[r].stored}
    /\ req' = [req EXCEPT ![r] = Idle]
    /\ UNCHANGED <<row, files, used, lastLog, reviewed, raced>>

\* The caches are invalidated and the handler returns.
FinishAttach(r) ==
    /\ req[r].pc = "invalidating"
    /\ req' = [req EXCEPT ![r] = Idle]
    /\ UNCHANGED <<row, files, objects, used, lastLog, reviewed, raced>>

-----------------------------------------------------------------------------
(***************************************************************************)
(* delete_file: the row first, then storage                                *)
(***************************************************************************)

DeleteFile(r) ==
    /\ row.status # "pending"
    /\ \E f \in files : Load(r, "delete_file", {f})
    /\ UNCHANGED used

\* Variants: the count without its floor at zero, and no count at all.
CountUnfloored(r) == req[r].row.file_count - 1

CountKept(r) == row.file_count

\* The count is written as one less than the count that was loaded, and not
\* at all when that leaves it at zero.
CountAfterDelete(r) ==
    IF req[r].row.file_count = 0 THEN row.file_count ELSE req[r].row.file_count - 1

CommitDeleteFile(r) ==
    /\ req[r].pc = "delete_file"
    /\ files' = files \ req[r].batch
    /\ row' = [ContentRow(r) EXCEPT !.file_count = CountAfterDelete(r)]
    /\ lastLog' = ContentLog(r)
    /\ reviewed' = FALSE
    /\ Commit(r, [req[r] EXCEPT !.pc = "purging"], TRUE)
    /\ UNCHANGED objects

\* Storage errors are swallowed, so the objects may stay.
PurgeObjects(r) ==
    /\ req[r].pc = "purging"
    /\ \E gone \in SUBSET (req[r].batch \X {"file", "preview"}) :
          objects' = objects \ gone
    /\ req' = [req EXCEPT ![r] = Idle]
    /\ UNCHANGED <<row, files, used, lastLog, reviewed, raced>>

-----------------------------------------------------------------------------
(***************************************************************************)
(* The owner's other handlers                                              *)
(***************************************************************************)

Submit(r) ==
    /\ row.status \in {"draft", "rejected"}
    /\ row.file_count >= 1
    /\ Load(r, "submit", {})
    /\ UNCHANGED used

CommitSubmit(r) ==
    /\ req[r].pc = "submit"
    /\ row' = [row EXCEPT !.status = "pending"]
    /\ lastLog' = IF req[r].row.status = "draft" THEN "submitted" ELSE "resubmitted"
    /\ Commit(r, Idle, FALSE)
    /\ UNCHANGED <<files, objects, reviewed>>

Withdraw(r) ==
    /\ row.status = "pending"
    /\ Load(r, "withdraw", {})
    /\ UNCHANGED used

CommitWithdraw(r) ==
    /\ req[r].pc = "withdraw"
    /\ row' = [row EXCEPT !.status = "draft"]
    /\ lastLog' = "withdrawn"
    /\ Commit(r, Idle, FALSE)
    /\ UNCHANGED <<files, objects, reviewed>>

\* Metadata.
UpdateMaterial(r) ==
    /\ row.status # "pending"
    /\ Load(r, "edit", {})
    /\ UNCHANGED used

\* Tags are attached and detached.
EditTags(r) ==
    /\ row.status # "pending"
    /\ Load(r, "edit", {})
    /\ UNCHANGED used

\* Files are reordered, or one is chosen as cover or primary file.
EditFiles(r) ==
    /\ row.status # "pending"
    /\ files # {}
    /\ Load(r, "edit", {})
    /\ UNCHANGED used

CommitEdit(r) ==
    /\ req[r].pc = "edit"
    /\ row' = ContentRow(r)
    /\ lastLog' = ContentLog(r)
    /\ reviewed' = FALSE
    /\ Commit(r, Idle, TRUE)
    /\ UNCHANGED <<files, objects>>

DeleteMaterial(r) ==
    /\ Load(r, "delete", {})
    /\ UNCHANGED used

CommitDelete(r) ==
    /\ req[r].pc = "delete"
    /\ row' = [row EXCEPT !.deleted = TRUE]
    /\ Commit(r, Idle, FALSE)
    /\ UNCHANGED <<files, objects, lastLog, reviewed>>

-----------------------------------------------------------------------------
(***************************************************************************)
(* The moderators' handlers                                                *)
(***************************************************************************)

\* Variant: no check that there is anything to approve.
ApproveUnchecked(r) ==
    /\ row.status = "pending"
    /\ Load(r, "approve", {})
    /\ UNCHANGED used

Approve(r) ==
    /\ row.status = "pending"
    /\ row.file_count >= 1
    /\ Load(r, "approve", {})
    /\ UNCHANGED used

CommitApprove(r) ==
    /\ req[r].pc = "approve"
    /\ row' = [row EXCEPT !.status = "approved"]
    /\ lastLog' = "approved"
    /\ reviewed' = req[r].current
    /\ Commit(r, Idle, FALSE)
    /\ UNCHANGED <<files, objects>>

Reject(r) ==
    /\ row.status = "pending"
    /\ Load(r, "reject", {})
    /\ UNCHANGED used

CommitReject(r) ==
    /\ req[r].pc = "reject"
    /\ row' = [row EXCEPT !.status = "rejected"]
    /\ lastLog' = "rejected"
    /\ Commit(r, Idle, FALSE)
    /\ UNCHANGED <<files, objects, reviewed>>

RequestRevision(r) ==
    /\ row.status = "pending"
    /\ Load(r, "revise", {})
    /\ UNCHANGED used

CommitRevision(r) ==
    /\ req[r].pc = "revise"
    /\ row' = [row EXCEPT !.status = "rejected"]
    /\ lastLog' = "requested_revision"
    /\ Commit(r, Idle, FALSE)
    /\ UNCHANGED <<files, objects, reviewed>>

\* Another subject, in any status; it is not an edit that calls for a review.
MoveSubject(r) ==
    /\ Load(r, "move", {})
    /\ UNCHANGED used

CommitMove(r) ==
    /\ req[r].pc = "move"
    /\ Commit(r, Idle, TRUE)
    /\ UNCHANGED <<row, files, objects, lastLog, reviewed>>

-----------------------------------------------------------------------------
\* The process dies, the client goes away, or the commit fails: the session
\* is rolled back and what is in storage stays.
Crash(r) ==
    /\ req[r].pc # "idle"
    /\ req' = [req EXCEPT ![r] = Idle]
    /\ UNCHANGED <<row, files, objects, used, lastLog, reviewed, raced>>

OwnerStep(r) ==
    \/ AttachFiles(r) \/ SaveUpload(r) \/ BuildPreview(r) \/ CommitAttach(r)
    \/ FailAttach(r) \/ AbortAttach(r) \/ FinishAttach(r)
    \/ DeleteFile(r) \/ CommitDeleteFile(r) \/ PurgeObjects(r)
    \/ Submit(r) \/ CommitSubmit(r)
    \/ Withdraw(r) \/ CommitWithdraw(r)
    \/ UpdateMaterial(r) \/ EditTags(r) \/ EditFiles(r) \/ CommitEdit(r)
    \/ DeleteMaterial(r) \/ CommitDelete(r)

ModeratorStep(r) ==
    \/ Approve(r) \/ CommitApprove(r)
    \/ Reject(r) \/ CommitReject(r)
    \/ RequestRevision(r) \/ CommitRevision(r)
    \/ MoveSubject(r) \/ CommitMove(r)

Next == \E r \in Requests : OwnerStep(r) \/ ModeratorStep(r) \/ Crash(r)

Spec == Init /\ [][Next]_vars

-----------------------------------------------------------------------------
(***************************************************************************)
(* Properties                                                              *)
(***************************************************************************)

\* Every variable has its type whatever handlers race; in particular the
\* file count, which delete_file computes from a value that may be outdated,
\* never becomes negative.
TypeOK ==
    /\ row \in Material
    /\ files \subseteq Files
    /\ objects \subseteq Files \X {"file", "preview"}
    /\ used \subseteq Files
    /\ lastLog \in ReviewAction
    /\ req \in [Requests -> Request]
    /\ reviewed \in BOOLEAN
    /\ raced \in BOOLEAN

\* A committed file row always has its object in storage, and a PDF its
\* preview, whatever crashes between storage and database and whoever deletes
\* files meanwhile: attach_files stores before it commits, delete_file
\* commits before it purges.
RowsBacked ==
    \A f \in files :
        /\ <<f, "file">> \in objects
        /\ f \in Pdfs => <<f, "preview">> \in objects

\* As long as no handler has committed on outdated data, file_count, which
\* attach_files moves by a relative and delete_file by an absolute update, is
\* the number of file rows.
FileCountExact == ~raced => row.file_count = Cardinality(files)

\* As long as no handler has committed on outdated data, the stored total
\* stays within the limit that attach_files checks upload by upload.
WithinTotalSize == ~raced => row.file_count <= MaxTotalSize

\* Only a commit on outdated data can put before the public (status approved)
\* a material without files, or content other than what the approving
\* moderator had loaded: every edit of an approved material sends it back.
PublicIsReviewed ==
    ~raced => (row.status = "approved" => reviewed /\ files # {})

\* The status that an entry of the review log leaves behind.
StatusAfter(action) ==
    CASE action \in {"none", "withdrawn"} -> "draft"
      [] action \in {"submitted", "resubmitted"} -> "pending"
      [] action = "approved" -> "approved"
      [] OTHER -> "rejected"

\* The last status entry of the review log accounts for the status of the
\* material, even when moderators and owner overwrite each other: each
\* handler logs in the transaction that writes the status.
StatusMatchesLog == row.status = StatusAfter(lastLog)

Workflow ==
    INSTANCE ReviewWorkflow
    WITH status <- row.status, stocked <- files # {}, closed <- row.deleted

\* The handlers implement the review workflow: every step that does not
\* commit on outdated data is a step of ReviewWorkflow or leaves its state
\* alone.
WorkflowUnlessRaced ==
    /\ Workflow!Init
    /\ [][Workflow!Next \/ raced']_<<row.status, files # {}, reviewed, row.deleted>>
=============================================================================
