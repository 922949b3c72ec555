------------------------------- MODULE Backups -------------------------------
(***************************************************************************)
(* BackupService, BackupScheduler and the restore script: processes that   *)
(* share one backup directory, one bucket and one database.                *)
(*                                                                         *)
(* The content of the database is a version number; 0 is a database that   *)
(* was just created (or holds part of a dump), Missing one that was        *)
(* dropped.  A file is the content it holds.  A checksum is the content    *)
(* it was computed from.  Backups are numbered in the order of their time  *)
(* stamps: two that start in the same second are not modelled.             *)
(***************************************************************************)
EXTENDS Integers, FiniteSets, FiniteSetsExt

CONSTANTS
    Api,                \* API workers: backups and restores of an admin
    Scheduler,          \* processes of scripts/backup_worker.py
    Operator,           \* runs of scripts/manual_restore_backup.py
    RetentionLocal,     \* backup_retention_local
    RetentionOffsite,   \* backup_retention_offsite
    OffsiteEnabled,     \* storage_backend = "s3"
    MaxBackups,         \* bound: backups started
    MaxVersion          \* bound: versions of the data

ASSUME ConstantsAssumption ==
    /\ RetentionLocal \in Nat /\ RetentionOffsite \in Nat
    /\ OffsiteEnabled \in BOOLEAN
    /\ MaxBackups \in Nat /\ MaxVersion \in Nat \ {0}

VARIABLES
    database,   \* its content
    local,      \* the backup directory: dump, manifest and its offsite key
    offsite,    \* the same in the bucket
    job,        \* what each process is doing
    lastId,     \* backups started so far
    made,       \* history: the content of every completed manifest
    failed,     \* history: some process gave up
    mismatch    \* history: a restore installed something else than was asked

vars == <<database, local, offsite, job, lastId, made, failed, mismatch>>

-----------------------------------------------------------------------------
Procs == Api \cup Scheduler \cup Operator

Ids == 1 .. MaxBackups

Missing == -1

Damaged == -2

Content == Missing .. MaxVersion

Files == [dump : Content, sum : Content, key : BOOLEAN]

NoFiles == [dump |-> Missing, sum |-> Missing, key |-> FALSE]

\* BackupRecord: what list_backups says of a backup.
Record ==
    [sum : Content, key : BOOLEAN,
     available_local : BOOLEAN, available_offsite : BOOLEAN]

NoRecord ==
    [sum |-> Missing, key |-> FALSE,
     available_local |-> FALSE, available_offsite |-> FALSE]

Job ==
    [pc : {"idle", "dump", "manifest", "upload", "put", "pruneOffsite",
           "list", "prune", "unlink", "prepare", "drop", "create",
           "restore", "filtered"},
     id : 0 .. MaxBackups,          \* the backup being made
     target : 0 .. MaxBackups,      \* the backup being restored, 0 for none
     record : Record,               \* what get_backup returned
     temp : Content \cup {Damaged}, \* the downloaded dump, if any
     stale : SUBSET Ids,            \* local backups still to delete
     pulled : BOOLEAN]              \* history: another process deleted its target

NoJob ==
    [pc |-> "idle", id |-> 0, target |-> 0, record |-> NoRecord,
     temp |-> Missing, stale |-> {}, pulled |-> FALSE]

LocalManifests == {i \in Ids : local[i].sum # Missing}

OffsiteManifests == {i \in Ids : offsite[i].sum # Missing}

OffsiteStems == {i \in Ids : offsite[i] # NoFiles}

\* Variant: a retention of 0 keeps nothing.
BeyondUnclamped(S, retention) ==
    {i \in S : Cardinality({j \in S : j > i}) >= retention}

\* sorted(..., reverse=True)[max(retention, 1):]
Beyond(S, retention) ==
    {i \in S : Cardinality({j \in S : j > i}) >= Max({retention, 1})}

\* list_backups, from which get_backup picks its answer; a failing listing
\* of the bucket is ignored.
ListBackups(s3) ==
    LET remote == IF OffsiteEnabled /\ s3 THEN OffsiteManifests ELSE {}
    IN  [i \in LocalManifests \cup remote |->
           LET m == IF i \in LocalManifests THEN local[i] ELSE offsite[i]
           IN  [sum |-> m.sum, key |-> m.key,
                available_local |-> local[i].dump # Missing,
                available_offsite |-> OffsiteEnabled /\ (i \in remote \/ m.key)]]

Init ==
    /\ database = 1
    /\ local = [i \in Ids |-> NoFiles]
    /\ offsite = [i \in Ids |-> NoFiles]
    /\ job = [p \in Procs |-> NoJob]
    /\ lastId = 0
    /\ made = [i \in Ids |-> Missing]
    /\ failed = FALSE
    /\ mismatch = FALSE

-----------------------------------------------------------------------------
At(p, step) == job[p].pc = step

Goto(p, step) == job' = [job EXCEPT ![p].pc = step]

\* The rest of the program writes while the schema is there.
Write ==
    /\ database \in 1 .. MaxVersion - 1
    /\ database' = database + 1
    /\ UNCHANGED <<local, offsite, job, lastId, made, failed, mismatch>>

\* run_backup takes the next name, for its own sake or before a restore.
StartBackup(p, target, record) ==
    /\ lastId < MaxBackups
    /\ lastId' = lastId + 1
    /\ job' = [job EXCEPT ![p] =
                 [NoJob EXCEPT !.pc = "dump", !.id = lastId + 1,
                               !.target = target, !.record = record]]
    /\ UNCHANGED <<database, local, offsite, made, failed, mismatch>>

\* POST /backups, scripts/backup.py.
CreateBackup(p) == p \in Api /\ At(p, "idle") /\ StartBackup(p, 0, NoRecord)

\* The loop of the scheduler: on start, then once per interval.
ScheduledBackup(p) ==
    p \in Scheduler /\ At(p, "idle") /\ StartBackup(p, 0, NoRecord)

\* POST /backups/{id}/restore, with its confirmation: the record is read
\* first, then the present state is backed up.
RestoreBackup(p) ==
    /\ p \in Api /\ At(p, "idle")
    /\ \E s3 \in BOOLEAN : \E i \in DOMAIN ListBackups(s3) :
          StartBackup(p, i, ListBackups(s3)[i])

\* The script of the operator takes no backup first.
ManualRestore(p) ==
    /\ p \in Operator /\ At(p, "idle")
    /\ \E s3 \in BOOLEAN : \E i \in DOMAIN ListBackups(s3) :
          job' = [job EXCEPT ![p] =
                    [NoJob EXCEPT !.pc = "prepare", !.target = i,
                                  !.record = ListBackups(s3)[i]]]
    /\ UNCHANGED <<database, local, offsite, lastId, made, failed, mismatch>>

\* pg_dump sees one snapshot of a database that exists.
RunPgDump(p) ==
    /\ At(p, "dump")
    /\ database # Missing
    /\ local' = [local EXCEPT ![job[p].id].dump = database]
    /\ Goto(p, "manifest")
    /\ UNCHANGED <<database, offsite, lastId, made, failed, mismatch>>

\* The dump is verified and its manifest written, without offsite keys.
WriteManifest(p) ==
    /\ At(p, "manifest")
    /\ local' = [local EXCEPT ![job[p].id].sum = local[job[p].id].dump]
    /\ made' = [made EXCEPT ![job[p].id] = local[job[p].id].dump]
    /\ Goto(p, IF OffsiteEnabled THEN "upload" ELSE "list")
    /\ UNCHANGED <<database, offsite, lastId, failed, mismatch>>

\* _upload_and_prune_offsite: the dump, then the manifest as it is on disk.
UploadDump(p) ==
    LET i == job[p].id IN
    /\ At(p, "upload")
    /\ local[i].dump # Missing
    /\ offsite' = [offsite EXCEPT ![i].dump = local[i].dump]
    /\ Goto(p, "put")
    /\ UNCHANGED <<database, local, lastId, made, failed, mismatch>>

PutManifest(p) ==
    LET i == job[p].id IN
    /\ At(p, "put")
    /\ local[i].sum # Missing
    /\ offsite' = [offsite EXCEPT ![i].sum = local[i].sum, ![i].key = local[i].key]
    /\ Goto(p, "pruneOffsite")
    /\ UNCHANGED <<database, local, lastId, made, failed, mismatch>>

\* Objects beyond the retention go, by name; then the local manifest is
\* written again, from memory, with the offsite keys.
PruneOffsite(p) ==
    LET i == job[p].id IN
    /\ At(p, "pruneOffsite")
    /\ offsite' = [j \in Ids |->
                     IF j \in Beyond(OffsiteStems, RetentionOffsite)
                     THEN NoFiles ELSE offsite[j]]
    /\ local' = [local EXCEPT ![i].key = TRUE, ![i].sum = made[i]]
    /\ Goto(p, "list")
    /\ UNCHANGED <<database, lastId, made, failed, mismatch>>

\* Variant: one backup more is kept.
ListStaleOffByOne(p) ==
    /\ At(p, "list")
    /\ job' = [job EXCEPT ![p].stale =
                 {i \in LocalManifests :
                    Cardinality({j \in LocalManifests : j > i}) > Max({RetentionLocal, 1})},
                          ![p].pc = "prune"]
    /\ UNCHANGED <<database, local, offsite, lastId, made, failed, mismatch>>

\* _prune_local_backups lists the stale manifests once ...
ListStale(p) ==
    /\ At(p, "list")
    /\ job' = [job EXCEPT ![p].stale = Beyond(LocalManifests, RetentionLocal),
                          ![p].pc = "prune"]
    /\ UNCHANGED <<database, local, offsite, lastId, made, failed, mismatch>>

\* ... and deletes them one by one, newest first, the dump before the
\* manifest.  A manifest that another process deleted is an error that
\* nobody catches.
DeleteDump(p) ==
    LET i == Max(job[p].stale) IN
    /\ At(p, "prune")
    /\ job[p].stale # {}
    /\ IF local[i].sum = Missing
       THEN /\ job' = [job EXCEPT ![p] = NoJob]
            /\ failed' = TRUE
            /\ UNCHANGED local
       ELSE /\ local' = [local EXCEPT ![i].dump = Missing]
            /\ job' = [q \in Procs |->
                         IF q = p THEN [job[q] EXCEPT !.pc = "unlink"]
                         ELSE [job[q] EXCEPT !.pulled = @ \/ job[q].target = i]]
            /\ UNCHANGED failed
    /\ UNCHANGED <<database, offsite, lastId, made, mismatch>>

DeleteManifest(p) ==
    LET i == Max(job[p].stale) IN
    /\ At(p, "unlink")
    /\ local' = [local EXCEPT ![i].sum = Missing, ![i].key = FALSE]
    /\ job' = [job EXCEPT ![p].stale = @ \ {i}, ![p].pc = "prune"]
    /\ UNCHANGED <<database, offsite, lastId, made, failed, mismatch>>

\* The backup is done; a restore goes on.
FinishBackup(p) ==
    /\ At(p, "prune")
    /\ job[p].stale = {}
    /\ job' = [job EXCEPT ![p] =
                 IF @.target = 0 THEN NoJob ELSE [@ EXCEPT !.pc = "prepare"]]
    /\ UNCHANGED <<database, local, offsite, lastId, made, failed, mismatch>>

\* _prepare_restore_dump: the local dump if it is there, else a download,
\* which may be damaged.
Downloadable(p) ==
    /\ OffsiteEnabled
    /\ job[p].record.available_offsite
    /\ job[p].record.key
    /\ offsite[job[p].target].dump # Missing

LocalDumpUsable(p) ==
    job[p].record.available_local /\ local[job[p].target].dump # Missing

\* The dump that pg_restore would read now.
Source(p) ==
    IF job[p].temp # Missing THEN job[p].temp ELSE local[job[p].target].dump

\* Variant: the checksum is not compared.
PrepareUnverified(p) ==
    /\ At(p, "prepare")
    /\ \E temp \in IF LocalDumpUsable(p) THEN {Missing}
                   ELSE IF Downloadable(p) THEN {offsite[job[p].target].dump, Damaged}
                   ELSE {} :
          job' = [job EXCEPT ![p].temp = temp, ![p].pc = "drop"]
    /\ UNCHANGED <<database, local, offsite, lastId, made, failed, mismatch>>

\* ... and _verify_backup_integrity of it.
PrepareRestoreDump(p) ==
    /\ At(p, "prepare")
    /\ \/ /\ LocalDumpUsable(p)
          /\ local[job[p].target].dump = job[p].record.sum
          /\ Goto(p, "drop")
       \/ /\ ~LocalDumpUsable(p)
          /\ Downloadable(p)
          /\ \E download \in {offsite[job[p].target].dump, Damaged} :
                /\ download = job[p].record.sum
                /\ job' = [job EXCEPT ![p].temp = download, ![p].pc = "drop"]
    /\ UNCHANGED <<database, local, offsite, lastId, made, failed, mismatch>>

\* Connections are terminated and the database is dropped ...
DropDatabase(p) ==
    /\ At(p, "drop")
    /\ database' = Missing
    /\ Goto(p, "create")
    /\ UNCHANGED <<local, offsite, lastId, made, failed, mismatch>>

\* ... and created; another restore may have created it.
CreateDatabase(p) ==
    /\ At(p, "create")
    /\ database = Missing
    /\ database' = 0
    /\ Goto(p, "restore")
    /\ UNCHANGED <<local, offsite, lastId, made, failed, mismatch>>

\* pg_restore --exit-on-error, or psql on the filtered SQL, into a database
\* that is still empty.
RunPgRestore(p) ==
    /\ job[p].pc \in {"restore", "filtered"}
    /\ database = 0
    /\ Source(p) # Missing
    /\ database' = Source(p)
    /\ mismatch' = (mismatch \/ Source(p) # job[p].record.sum)
    /\ job' = [job EXCEPT ![p] = NoJob]
    /\ UNCHANGED <<local, offsite, lastId, made, failed>>

\* pg_restore stumbles over transaction_timeout: the database is dropped and
\* created once more and the SQL is filtered.
RestoreFiltered(p) ==
    /\ At(p, "restore")
    /\ database' = 0
    /\ Goto(p, "filtered")
    /\ UNCHANGED <<local, offsite, lastId, made, failed, mismatch>>

\* A command fails or times out, a file or an object is not there, a check
\* refuses the dump, or the process is killed: what was done stays done.
GiveUp(p) ==
    /\ ~At(p, "idle")
    /\ failed' = TRUE
    /\ job' = [job EXCEPT ![p] = NoJob]
    /\ UNCHANGED <<database, local, offsite, lastId, made, mismatch>>

BackupStep(p) ==
    \/ RunPgDump(p) \/ WriteManifest(p) \/ UploadDump(p) \/ PutManifest(p)
    \/ PruneOffsite(p) \/ ListStale(p) \/ DeleteDump(p) \/ DeleteManifest(p)
    \/ FinishBackup(p)

RestoreStep(p) ==
    \/ PrepareRestoreDump(p) \/ DropDatabase(p) \/ CreateDatabase(p)
    \/ RunPgRestore(p) \/ RestoreFiltered(p)

Next ==
    \/ Write
    \/ \E p \in Procs :
          \/ CreateBackup(p) \/ ScheduledBackup(p)
          \/ RestoreBackup(p) \/ ManualRestore(p)
          \/ BackupStep(p) \/ RestoreStep(p) \/ GiveUp(p)

Spec == Init /\ [][Next]_vars

-----------------------------------------------------------------------------
(***************************************************************************)
(* Properties                                                              *)
(***************************************************************************)

\* Every variable has its type.
TypeOK ==
    /\ database \in Content
    /\ local \in [Ids -> Files]
    /\ offsite \in [Ids -> Files]
    /\ job \in [Procs -> Job]
    /\ lastId \in 0 .. MaxBackups
    /\ made \in [Ids -> Content]
    /\ failed \in BOOLEAN
    /\ mismatch \in BOOLEAN

Intact(i) == local[i].dump # Missing /\ local[i].dump = local[i].sum

\* Backups that hold no data: pg_dump ran while a restore had emptied the
\* database, or after one that failed.
Hollow == {i \in Ids : made[i] = 0}

\* A restore that reports success installed what the manifest of the chosen
\* backup describes, whatever was pruned, downloaded or re-created meanwhile
\* (restore_backup, _verify_backup_integrity).
RestoredAsAsked == ~mismatch

\* From the first complete backup of real data on, some complete backup of
\* real data stays restorable from the local directory, unless retention
\* many hollow ones have pushed it out (_prune_local_backups keeps the newest
\* by name, whatever they hold).
GoodBackupStays ==
    (\E i \in Ids : made[i] > 0) =>
        \/ \E j \in Ids : Intact(j) /\ local[j].sum > 0
        \/ Cardinality(Hollow) >= Max({RetentionLocal, 1})

\* Once a restore may drop the database, the dump it restores from is gone
\* only if another process pruned it: its own backup before the restore is
\* pruned before the dump is chosen (restore_backup, _prepare_restore_dump).
SourceHeld ==
    \A p \in Procs :
        job[p].pc \in {"drop", "create", "restore", "filtered"} =>
            \/ Source(p) = job[p].record.sum
            \/ job[p].pulled

\* Local backups are retained by count: when nothing runs and nothing has
\* failed, no more than backup_retention_local are left, even after runs that
\* overlapped (_prune_local_backups).
RetainedByCount ==
    (~failed /\ \A p \in Procs : job[p].pc = "idle") =>
        Cardinality(LocalManifests) <= Max({RetentionLocal, 1})

\* When nothing runs and nothing has failed, an offsite copy, dump and
\* manifest, can be restored even if the local directory is lost: its manifest
\* names the dump (_list_offsite_manifests, _prepare_restore_dump).
OffsiteCopyRestorable ==
    (~failed /\ \A p \in Procs : job[p].pc = "idle") =>
        \A i \in OffsiteManifests : offsite[i].dump # Missing => offsite[i].key
=============================================================================
