# student-knowledge-hub: specifications and proofs

TLA+ models of the backend of *student-knowledge-hub*, a FastAPI service over
PostgreSQL, object storage and Redis in which students share study materials.
Each module is translated from the source; TLC checks it on small instances,
and TLAPS proves the main properties for every value of the constants.

Run everything from this directory:

    tlc -workers 2 -config MCMaterialReview.cfg MCMaterialReview
    tlapm MaterialReviewProofs.tla

`PROJECT.json` lists the runs, the theorems, the source lines behind every
definition, the hazards the properties are for, and for each property a
plausible bug in the code that breaks it.

## 1. The system

| Component | State it keeps | Operations | What is hard |
|---|---|---|---|
| Materials (`app/modules/materials`) | `materials`, `material_files`, objects in storage | draft, attach files, edit, tag, reorder, delete a file, submit, withdraw, delete | handlers check a row, await, and commit without a lock; storage and database are two systems |
| Moderation (`app/modules/moderation`) | status of a material, review log | approve, reject, request revision, move to another subject | decisions race each other and the owner |
| Storage (`app/infrastructure/storage`) | objects by key | save, delete, read, link | no transaction with the database |
| Cache (`app/core/cache.py`) | derived figures in Redis | get, set, invalidate | errors surface in the handler that invalidates |
| Email outbox (`auth/email_outbox.py`, `scripts/email_worker.py`) | `email_outbox` | enqueue; claim a batch, send, record, retry with back-off | crashes before the batch commit, lost answers, overlapping workers |
| Sessions (`auth/service.py`, `users/service.py`) | `refresh_token_sessions` | login, refresh (rotation, replay detection), logout, revoke one, revoke all, change and reset the password | concurrent refresh and revocation on the same rows |
| Access token revocation (`core/security_controls.py`) | keys in Redis | bar one token, bar all tokens of a user | seconds, TTLs, Redis is not in the transaction |
| One-time tokens (`auth/service.py`) | reset and verification tokens | issue, consume | consumed without a lock |
| Rate limiter, lockout (`core/security_controls.py`) | counters with expiry | count, lock out, clear | two commands for one counter |
| Telegram events (`telegram/event_service.py`, `dispatcher.py`, worker) | `telegram_event_outbox` | create once per key, deliver, mark | no claim, deduplication by key |
| Telegram linking (`telegram/service.py`) | links and link sessions | open, consume, relink, unlink | two accounts for one user and the reverse |
| Catalog, proposals, reports (`catalog`, `catalog_proposals`) | university tree, proposals | propose, approve, map, reject | two decisions, duplicate names |
| Scopes and admins (`admin`) | roles, scopes | assign, block, demote | the last admin, checked by an unlocked count |
| Backups (`bootstrap/backup_service.py`, scheduler) | dumps, manifests, off-site copies | back up, prune, restore | pruning before restoring, half-written copies |
| Community, tags, notifications, audit | rows appended and read | rate, save, list | upserts |

Handlers interact through shared rows. Approving a material writes the status,
the review log, the audit log and a Telegram event in one transaction; a
password reset writes the sessions in the database and bars access tokens in
Redis; registration and reset put messages into the email outbox in their own
transaction, and a worker takes them from there.

Correctness, component by component:

* materials and moderation: the public sees only reviewed content with files;
  the log explains the status; file rows are backed by storage; counts are true;
* email outbox: no message is lost, tried too often, or sent twice without a
  crash or a lost answer; every message settles;
* sessions: a login has one live session; a revocation reaches all it saw;
* one-time tokens and accounts: a token works once, the latest is the only live
  one; an active admin remains;
* rate limiter, lockout, revocation: guesses are bounded, nobody is shut out for
  good, a revoked access token is refused for as long as it would be valid;
* Telegram linking: nobody acts through the bot for an account that was not
  linked on request; a link ends only by being unlinked;
* Telegram events: an event is pushed again only after a crash, a lost answer or
  an overlap of workers, and settles in the end;
* catalogue: no dangling references, unique names, the decision that a proposal
  shows is the one that took effect, moderators see what they may decide;
* backups: a restore installs what was asked for, pruning leaves a good backup
  and keeps to the retention, an off-site copy can be restored.

Most handlers of this backend check what they have read and commit without a
lock. Many of the properties therefore have the form "... unless the requests
overlapped", with a history variable that says which row was written on outdated
data. What they show is that every other sequence of requests is safe, and that
the overlap is the only way in.

## 2. Modules

| Module | Role |
|---|---|
| `ReviewWorkflow` | abstract specification of the review of one material |
| `MaterialReview` | the handlers of owner and moderators on one material, step by step, with storage |
| `MaterialReviewProofs` | proofs about `MaterialReview`, among them that it implements `ReviewWorkflow` |
| `Delivery` | abstract specification of an outbox, as one message sees it |
| `EmailOutbox`, `EmailOutboxProofs` | the mail outbox and its workers; proofs, among them that it implements `Delivery` |
| `AuthSessions`, `AuthSessionsProofs` | the sessions of one user under concurrent requests; proofs |
| `Accounts`, `AccountsProofs` | registration, one-time tokens, roles, blocking and scopes; proofs |
| `SecurityControls` | what the API keeps in Redis: counters, the login lock, revoked tokens |
| `TelegramLinking`, `TelegramLinkingProofs` | links between platform and Telegram accounts; proofs |
| `TelegramEvents`, `TelegramEventsProofs` | the event outbox and its workers; proofs, among them that it implements `Delivery` while rounds do not overlap |
| `Catalog`, `CatalogProofs` | the university tree, proposals, scopes and home universities; proofs |
| `Backups`, `BackupsProofs` | backups, off-site copies, retention and restores; proofs about them and about `SecurityControls` |
| `MC...` | instances for TLC: model values and symmetry |

Operators named as variants (`CountUnfloored`, `DueUnlocked`,
`LockForRefreshUnlocked`, ...) are bugs the code does not have. They are used
by no specification and serve to show that the properties can fail.

### MaterialReview

`row`, `files`, `objects` and `lastLog` are the committed row, the file rows,
the contents of storage and the last status entry of the review log. `req`
holds, for each request slot, what the handler has loaded and where it is.

A handler is a *load* action (its checks, on what it reads) and a *commit*
action. Between them anything may happen: `get_db_session` opens a READ
COMMITTED transaction, no handler locks the material, and the ORM writes only
the columns a handler assigned, so a commit is applied to whatever the row has
become. Adding a log entry flushes, so the row is locked from the flush to the
commit; flush and commit are one step. `attach_files` has a step per upload and
preview, the commit, and the invalidation of the caches, which is still inside
its `try`. `delete_file` commits and then purges. `Crash` is a dead process, a
client that goes away (cancellation is not caught by `except Exception`) or a
failing commit.

Abstractions: sizes are one unit, so `file_count` and `total_size`, which the
code moves together, are one number. Title, tags, order, cover, primary file
and subject are "content", of which the model records that it changed. Loading
a row and its files is one read. Deleting a file row that is gone only warns.
An upload may leave an orphan object behind; no property says it does not. The
Telegram handlers `approve_material`, `reject_material` and
`request_material_revision` call the moderation service and add nothing.

Two history variables: `reviewed` (the owner's content is the one the last
approval had loaded; a moderator's move to another subject is not counted) and
`raced` (some commit was based on a row, files or content that had changed
since it was loaded, which is what optimistic locking would refuse).

### Delivery

What both outboxes promise about one message, with no batches, workers,
transactions or crashes in sight: it becomes open, is posted at most
`MaxAttempts` times as far as the outbox knows, is closed as delivered only when
somebody has taken it and as abandoned only when the attempts are used up, and is
not touched after that. `Forget` is what a crash before the commit of a batch
comes to. `EmailOutbox` and `TelegramEvents` contain one instance per message,
`Promise(m)`, with a refinement mapping: `State` reads the status column (and, for
an event, the attempt count, because the Telegram worker has no status for giving
up), `tried` and `taken` are the history of the calls less what was forgotten.

### EmailOutbox

`outbox` is the table and `job` what each worker has claimed with
`FOR UPDATE SKIP LOCKED` and what became of it. `_send_one` is one of
`SendOne`, `SendFails` and `AnswerLost`; the outcomes reach the table in the
single commit of `process_due`. `Crash` also stands for a commit that fails.
`next_attempt_at` is a flag that `BecomeDue` sets; which due messages are
claimed first is left open. `tries`, `copies`, `forgotten` and `unsure` count
what the mail server saw and what the database has forgotten. API and worker
share the setting `mail_enabled`; a worker with mail switched off would mark
messages as sent without sending them, which the model leaves out.

### AuthSessions

`session` holds the committed rows, `lock` the row locks, `barred` the access
tokens that the revocation store refuses. `LockForRefresh` and `DetectReplay`
are the two outcomes of `SELECT ... FOR UPDATE` in `_get_refresh_session`. The
revocation of all sessions takes a snapshot (`seen`) when its UPDATE starts,
goes through it row by row (`RevokeRow`), waits for locked rows and looks again
at a row it waited for: PostgreSQL's READ COMMITTED. `reset_password` bars the
access tokens between its UPDATE and its commit, `logout_all` bars the
caller's after it. `Abort` is a rollback, the choice of a deadlock victim
included. `family` records which login a token pair descends from, `closed`
what the committed revocations had in their snapshot.

Abstractions: one user; an access and a refresh token issued together are one
identifier; passwords, roles, lifetimes and `is_active` only refuse requests.
The branch of `_get_refresh_session` for a missing row or a wrong hash needs a
database restored under live tokens and is left out. The locks that
`change_password` and `reset_password` also take on the user's row only remove
interleavings.

### Accounts

`user`, `scope` and `token` are the committed rows. A request reads and checks in
one step and writes at its commit; `Abort` is a rollback. A request of an admin
first reads the actor (`Authenticate`), so that an admin who has just been
demoted can still finish. `seen` is what the UPDATE that consumes earlier tokens
has matched. Passwords and mail are left out: `AuthSessions` has the revocations
of a reset and `EmailOutbox` the messages. `verify_user` is one step, because what
it writes depends on nothing it reads.

### SecurityControls

One client and email: two counters, the lock, and up to two logins whose commands
to Redis are steps of their own; and the access tokens of one user. `Tick` is half a
second: `exp` and `iat` are cut to whole seconds and so are the lifetimes of the
entries in Redis, while the clock is not.
`tried` counts the wrong passwords that a client learns about since the failures
were last forgotten: a handler that stops before it has recorded one never
answers. When the first failure already locks (`login_lockout_max_attempts` of
one), that includes the command that gives the counter its lifetime, which comes
before the lock. `Crash` is a handler that stops between two commands; `leaked`
remembers a counter that was left without a lifetime. Counters above their limit are
capped, because nothing tells them apart. The in-memory store of a single process is
left out; each of its operations is one step. The names that every specification
has are prefixed with SC, so that one module can extend this one and `Backups`.

### TelegramLinking

`links` and `sessions` are the two tables, with the unique columns of the first.
`Consume` reads the session and both links, checks, and `_resolve_link_record`
chooses the row to write and the one to delete; `CommitLink` writes the columns
that differ from what was loaded, which is how two commits can leave a pair that
neither asked for (`raced`). Token and code of a session are one identifier; the
name and the chat of the Telegram account are data.

### TelegramEvents

`outbox` is the table, `round` what a worker has selected, loaded and marked.
`list_pending_events` takes no lock; the UPDATE of a marked row holds its lock up
to the one commit of the round, so another worker waits (`MarkEvent`), and then
writes the attempt count it had loaded. Events with an id of their own are
inserted in one step; those keyed by a material, a proposal, a link or a user are
looked up first (`CreateEvent`) and inserted at the commit, where the unique
constraint may roll the request back. Like the code, the model drops the second
event of a kind for one material. `shared` marks the events that two rounds had
in hand at a time.

### Catalog

Universities, faculties and subjects are levels 1 to 3 of one tree, and the three
kinds of proposals likewise. The services have three copies of each operation;
where they differ (the look for pending duplicates, the checks of scopes) so does
the model. Names are normalised names. Slugs are unique among siblings by a
constraint, names only by a look before the write. An update looks
its name up under the new parent (`NameLookedUp`: `update_university` only a name
that is given, the others the name that stays, too) and commits the columns that
changed. Deletions are one
step with their cascades. Scopes of moderators are not state: every set of
scopes is tried whenever a moderator decides, and `DecidableIsListed` quantifies
over them.

### Backups

`local` and `offsite` hold, for each backup, the content of its dump, of its
manifest (the checksum, as the content it was computed from) and whether the
manifest names the off-site dump. A process goes through `run_backup` and
`restore_backup` step by step; `GiveUp` is any error and a process that is
killed, and leaves what was done. A database that was just created, or holds part
of a dump, is content 0; a dropped one is `Missing`. Uploads and `pg_dump` are one
step each; a partial file has no manifest, which is what the code goes by.

## 3. Runs

| Run | Instance | Shows |
|---|---|---|
| `material_review` | 2 requests, 3 uploads (1 PDF), at most 2 files and total size 2, Redis up; 2.0 million states | `RowsBacked`, `StatusMatchesLog` in every interleaving; `FileCountExact`, `WithinTotalSize`, `PublicIsReviewed` and the workflow unless a commit was based on outdated data |
| `material_cache_loss` | as above, Redis may be lost | expected violation of `RowsBacked` |
| `email_outbox` | 2 messages, 2 workers, batches of 2, 3 attempts, 2 crashes, fairness | the retry limit, "sent" means taken, duplicates are explained, finished is final, `Delivery` is implemented, every message settles |
| `auth_sessions` | 2 requests, 3 token pairs; 0.6 million states | one live session per login; revocation reaches all it saw |
| `auth_race` | as above | expected violation of `NoDescendantSurvives` |
| `accounts` | 2 accounts, 2 tokens, 1 entity, 2 requests at a time and 8 in all; 1.8 million states | `RedeemedOnce`, `OneLiveToken`, `AdminRemains` |
| `security_controls` | 2 logins, limits of 2, windows and lock of one second, 1 token that lives a second, fairness; 0.4 million states | `GuessesBounded`, `RefusedToTheLastSecond`, `CountersEnd` |
| `telegram_linking` | 2 users, 2 Telegram accounts, 2 rows, 3 sessions, 2 requests | `LinkWasAsked`, `OneLiveSession`, `ActiveLinkEndsByUnlink` |
| `telegram_events` | 2 events, 2 workers, 2 requests, 2 attempts, 1 crash, fairness | `DuplicatesExplained`, `CallsBounded`, `DispatchedIsFinal`, `Delivery` is implemented (`DeliversUnlessShared`), `EveryEventSettles` |
| `catalog` | 2 requests, 2 slugs; 3 rows, 1 name, 1 proposal and 1 user, or 4 rows and 2 names; 0.5 million states | references, `NamesUnique`, `DecisionTookEffect`, `DecidableIsListed`, `HomeMatchesStatus` |
| `backups` | an API worker and a process that is scheduler and operator, 3 backups, retention 0 (which counts as 1), 2 versions; 3.7 million states | `RestoredAsAsked`, `GoodBackupStays`, `SourceHeld`, `RetainedByCount` |
| `backups_offsite` | 2 backups, 1 version | expected violation of `OffsiteCopyRestorable` |

Bounds. Two requests give every race between two handlers, three uploads give a
full batch and one more; a limit of two makes both the per-request and the
running total matter. Two workers with batches of two and two crashes let a crash
hit a retry of what a crash had forgotten, and three attempts make the last one
different from a retry. Three pairs are a login, its successor and one more.
The proofs remove these bounds for everything but liveness: they hold for any
number of requests, workers, rows and attempts, and for any value of the limits
and caps.

Eight requests are enough to register, promote and verify a second admin, to issue
two tokens, and to let two admins remove each other. Three link sessions are two
concurrent ones and a third that revokes. In `telegram_events` the only user is
both admin and owner: the recipients of an event only multiply rows, and rows are
independent but for the batch. Its batches are of one event; with batches of two,
where a crash also hits the middle of a batch, the same instance passes as well, in
353,328 states, and the safety theorems hold for every `BatchSize`.

`catalog` (`MCSpec`) puts two instances side by side. The smaller one, `Small`, takes
every step of `Next`. It starts with a university and a faculty and has room for one
row more: a subject, or a new university or faculty in place of a deleted one. All
its rows have one name, so that siblings do not coexist. The larger one is for the
names (`Naming`). It starts with two universities; its two free rows can be
faculties of one of them, created with one name by requests that overlap, or one of
each, where one is renamed or moved while the other is created or renamed. Siblings
with one name are reachable in it, and `NamesUnique` without its exception is
violated. It leaves out users and proposals, because an approval inserts its row
under the same two checks as a creation, and deletions, which name nothing. What
needs more rows, names or slugs (two siblings below a faculty, which the exception
in `DecidableIsListed` is about; an approval overtaken by a creation of the same
name; a university that shares its name and is given a new slug only) is covered by
the proofs.

Three backups with a retention of one (set as 0, the edge of the code's clamp) are
a backup, the one before its restore and one of the scheduler. `MaxStarts`,
`MaxBackups`, `MaxEntities`, `MaxProposals`, `MaxEvents`, `MaxAnnounced` and
`MaxVersion` cap what is otherwise unbounded; `MaxCrashes` is needed because with
unboundedly many crashes nothing need ever settle. Symmetry is used in safety runs
only. Deadlock is checked where the system never comes to rest (`auth_sessions`,
`security_controls`); elsewhere a used-up bound is the end of a behaviour, and a
deleted material and a drained outbox are meant to be quiet.

Type correctness of `Accounts`, `Backups`, `EmailOutbox`, `SecurityControls` and
`TelegramEvents` is no property of a run, because it is proved. Every inductive
invariant of section 5 has been checked with TLC, too, before its proof: on the
instance of the run, and that of the catalogue also in random behaviours of a
larger instance, that of `SecurityControls` for limits of one to three.

Fairness. `BecomeDue` is weakly fair because time passes. `WorkerStep` of the
mail worker is weakly fair because `run_worker` polls for ever and catches what a
round raises, calls of the mail server have a timeout, and the container
restarts. The same holds for the steps of the Telegram worker; `DispatchEvent` is
strongly fair because it waits for a row lock that another round holds, lets go,
and may take again. In `SecurityControls` time passes and a handler that is under
way goes on; that a client starts a login is not fair. Crashes and requests are
never fair.

## 4. What the violations show

* `material_cache_loss`: `attach_files` invalidates the caches after its commit
  but inside its `try`. If Redis fails there, the `except` branch removes from
  storage the objects of rows that are already committed. The repository's
  README says that a Redis failure only degrades the cache.
* `auth_race`: a refresh holds the lock of the old row while `logout_all` waits
  for it. The refresh inserts a successor that the waiting UPDATE cannot see.
  `logout_all` answers that all sessions are revoked; one is alive.
* `backups_offsite`: the manifest is put into the bucket before the off-site keys
  are entered into it, and not again. If the local directory is lost, the backup
  is listed as available off-site, and restoring it is refused.

The conditions "unless they overlapped" in the other properties are needed as
well. Files can join a material that was submitted while they were uploaded, a
one-time token can be redeemed twice at the same time, two admins can demote each
other, and two siblings can get the same name.

## 5. Proofs

All proofs are hierarchical and checked to the last leaf (SMT, Zenon, LS4).
The only assumptions are the named ASSUMEs about the constants: the limits are
natural numbers, the accounts, tokens, requests and recipients are finite sets,
and `SeedAssumption` describes the tree of `data/data.json`. In each module the
invariant is `IInv` or the conjunction named below; it is shown to hold at first
and to be kept by every action, and the properties follow from it.

The handlers check and commit without a lock, so most invariants say the same
thing in different words: what a request has read still holds when it commits,
unless somebody whose commit the history variable remembers got in between. What
is hard is to find what else must be true of *all* requests in flight for that to
be kept by the commit of each of them.

`MaterialReviewProofs`. The invariant is `TypeOK` and four parts. `Checked`:
what a handler established about the material when it loaded it. `Ownership`: an
upload belongs to one request until its rows are committed, and no removal of it
is under way before that. `Stored`: `RowsBacked`, that the uploads waiting for
their rows are in storage, and that an upload being taken out has no row.
`Settled`: the three facts (exact count, within the total size, what is public
was reviewed and has files) that hold unless `raced`. `RowsBacked` is
not inductive alone: that an abort deletes only objects without rows needs
`Ownership`, and that the commit finds its uploads needs `Stored`. It is proved
under `~CacheMayFail`; the violation run shows why the assumption is needed.
`ImplementsWorkflow` shows that the initial state and every step that is not a
commit on outdated data map to `ReviewWorkflow`.

`EmailOutboxProofs`. `Claims`: a message is claimed by at most one worker, is in
one part of its job, and is unfinished while claimed. `Account`: the tries,
copies and forgotten attempts of a message add up with its `attempt_count` and
the outcomes not yet committed. The retry limit, `SentWasTaken`,
`DuplicatesExplained` and `FinishedIsFinal` follow. `MailDelivers` shows that every
step is, for every message, a step of `Delivery` or none: a send is a `Post`
because what is claimed is open and has attempts left, the commit of a batch is
a `Deliver`, an `Abandon` or nothing for each message in it, and a crash is a
`Forget` for each that was tried. `Account` is what makes the attempts at which the
worker gives up (`AfterFailure`) those that `Delivery` counts.

`AuthSessionsProofs`. `Fresh`: pairs under way belong to one request, and a
login's pair is the only one of its family. `Locks`: a rotating request holds
the lock of a live row; so does an UPDATE of the rows it has hit. `Updates`: a
live row of a snapshot is still to come or already hit. Rotation is safe
because two requests cannot both hold the lock; a revocation is complete because
live rows of the snapshot have all been hit when it commits, and because no
action makes a dead row live again.

`AccountsProofs`. `Redeeming`: a token that was redeemed is consumed, its uses and
the requests under way for it together are no more than there are requests, and
while nobody has overlapped on it, one request at most is under way and none once
it has been used. `Issuing`: the same for the tokens of a user and purpose,
together with the fact that a request that issues one has in `seen` all that are
live. `Removing`: the requests that may take an admin away number at most one, and
leave another admin. Without the parts about requests under way none of the three
properties is inductive: a second request that had checked before the first
committed would break each of them.

`TelegramLinkingProofs`. `WellRead`: neither the row that a consumption is to write
nor the one it is to delete was active when it was read, and they are not the
same. `Supersedes` and `Overlaps`: a request that creates a session has seen all
the live ones of the user, unless two were created at the same time. `RowAsked`:
the pair in a row is one that was asked for, unless the row was written over a
version that had not been read. `ActiveLinkEndsByUnlink` is an action property of
the same invariant.

`TelegramEventsProofs`. `Counted`: of an event that no two rounds had in hand, the
calls are its `attempt_count` and the outcomes that are still to be committed, and a
round whose count is that of the row has loaded a row that was not dispatched.
`Locked`: a row that is marked is in the hands of one round. `WellRead`: what a
round is still to push is not marked, and was loaded with attempts to spare.
`CallsBounded`, `DuplicatesExplained` and, as an action property,
`DispatchedIsFinal` follow. `EventsDeliver` compares the steps with `Delivery`, as
for mail. There a claim keeps two workers apart; here nothing does, and the
theorem is about an event as long as it is not `shared`: whoever posts it then has
loaded the row as it is (`Counted`), so that it is open and its attempts are not
used up. That every batch has a first event (`MinIn`) comes from
the well-foundedness of strict inclusion among finite sets.

`BackupsProofs`. `made[i]` is written once. `Described`: every manifest, record and
dump of the backup i that is left says the same as `made[i]`, or is missing.
`Sound`: what a process carries fits where it is in `run_backup` or
`restore_backup`, and whatever it is about to delete has, counting those pruned
since, as many newer backups as the retention. `Held` is `SourceHeld` of one process.
`Exclusive`: no two processes make the same backup. `Retained`: between listings, the
manifests that nobody is about to delete are no more than the retention.
`GoodBackupStays` is the hard part: the newest backup of real data, if it is not
intact, had as many newer ones as the retention, and those are all hollow. It rests
on lemmas about the greatest elements of finite sets of numbers.

The second part of `BackupsProofs` is about `SecurityControls`. `Guesses`: while
there is no lock, every wrong password is counted or still to be counted by the
login that found it; while there is one, nobody passes the check any more, so that
the passwords tried and those still to be tried are no more than the limit less one
and the logins in flight. The second part gives `GuessesBounded`, the first is what
it takes to establish it when the lock is set. The proof counts requests by their
place (`AtPlace`); a move of one request changes these numbers by one at most
(`GoesTo`). It does not go through when `Unrecorded` leaves out the INCR and EXPIRE
of a failure that locks at once: with a limit of one, TLC finds handlers that stop
in between, whose passwords nobody has answered and no counter has in time.
`Entries`: the entry that refuses a revoked token outlives it to within half a
second, and the bar on all tokens of a user outlives every token it covers.
`RefusedToTheLastSecond` follows. The theorems are `ControlsTyped`, `FewGuesses` and
`RefusedLong`.

`CatalogProofs`. The queries behind the lists of a moderator and the checks before
a decision were written separately. `ListsAgreeWithChecks` shows that they agree
on every tree and for every set of scopes, except where `scalar_one_or_none`
meets two scopes on siblings of a proposed subject. It needs no invariant, only
that scopes are finite sets of rows; it covers trees that are too large for the
run. The other four theorems share one invariant. `Valid` is what a request that
was not overtaken still knows: the name it found free is free (`OnRow`), the
proposal is pending (`OnProposal`), the user has the status that was loaded, and
the university that was loaded or, after a deletion, none (`OnUser`). `ValidKept`
shows once for all requests that a step which touches rows of one level, one
proposal and one user keeps this for every request that does not work on one of
them, and `EndStep` that the others are stale afterwards. That deletions leave no
reference behind (`GoneClosed`) comes down to the levels: the cascade of the code
goes two levels down, and a row that were left below it would be of level four.

Only model-checked:

* liveness: `EveryMessageSettles`, `EveryEventSettles`, `CountersEnd` (liveness under
  fairness is out of this prover's reach). The refinements of `Delivery` are
  therefore about safety: it has no fairness of its own;
* the three violations, which are counterexamples.

## 6. What is left

1. A module of the cached figures: `list_trending` filters cached ids by
   deletion only, so that a list that was cached after its invalidation shows
   materials that are no longer approved.
2. The deadlock of two revocations in `auth/service.py`, which needs the order in
   which PostgreSQL visits rows; `Abort` of `AuthSessions` only has its outcome.
3. A run in which one material gets a second decision of the same kind:
   `TelegramEvents` drops its event like the code does, but no document of the
   repository says that it should arrive, and no property asks for it.

## 7. Not modelled

* Comments, ratings and tags: single rows behind unique constraints, written in
  one transaction; averages are computed when read.
* Reports on materials, notifications and the audit log: rows appended and read
  back; a report has no effect on the material.
* Downloads, statistics, dashboards and trending: figures with a short TTL by
  which no handler decides; lists, search, the sitemap and related materials only
  read.
* Creation of drafts and their slugs (the unique constraint decides), and the
  clean-up of stale drafts, which nothing calls.
* Schemas, serializers and configuration (data layout); the signatures of the
  internal API, hashing and JWT encoding (libraries); SMTP, S3 and the texts of
  messages.
