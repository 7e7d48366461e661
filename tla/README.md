# A verification project for x-locale

x-locale keeps the translatable strings of software projects: a FastAPI server
over Postgres, a React app for translators, and the `loc` command line that pushes
source strings to the server and pulls translations into a repository. This
directory models the parts of it whose correctness depends on the order in which
things happen, checks them with TLC, and proves the central results with TLAPS.

Paths below are relative to the repository (`backend/app/...`, `cli/...`).

## 1. Inventory

| Component | State it keeps | Operations | What is hard about it |
|---|---|---|---|
| Background jobs and the import lock (`services/jobs.py`, `services/import_lock.py`, `routers/sync.py`) | `jobs` rows; two advisory locks; three `threading.Event`s per job | launch, hand-over of the lock, worker, failure record, recovery sweep | two threads and four connections pass one lock along; any of them may die; a COMMIT may be in flight when its thread is gone |
| Write replay (`services/write_transactions.py`) | the attempt of a transaction | roll back and run again | the replay has lost the lock and everything it had read |
| Membership and API keys (`services/members.py`, `services/projects.py`, `auth.py`, `database.py`) | `projects`, `project_members`, `api_keys` | add, change, remove, leave, delete project, create and revoke key, use key | authorization is read before the lock; admins demote each other; keys must not outlive memberships |
| AI translation (`services/translate.py`, `routers/translate.py`) | `jobs` rows, `translations`, a job lock | inline requests, jobs, proposals and their review | minutes pass, without a lock, between reading a text and saving its translation |
| Strings and publication (`services/strings.py`, `services/publish_preview.py`, `routers/strings.py`) | `string_entries`: working copy and published snapshot | create, save, publish, unpublish, delete, discard, keep, restore | READ COMMITTED requests with column-wise UPDATEs; optimistic editors; one key per export |
| Import engine (`services/import_bulk.py`, `services/imports.py`) | strings, translations, tags | match a file's rows with strings, plan, write in one transaction; dry run | modules, keys and scopes name a string in several ways; locks in one order; planned against what was read |
| Modules and tags (`services/catalog.py`) | `modules`, `tags` | create, rename, delete | deleting a module merges its strings, and its published snapshots, with the unassigned ones |
| Key policy and project settings (`services/key_policy.py`, `services/projects.py`) | `projects` | change policy, layout, languages | requests work with a project loaded before they waited; four modes of row locks; a cascade into the strings |
| Export and sync state (`services/sync.py`) | none | build exports, sync state | refuses ambiguous keys; its rules and the import's must agree |
| Activity history (`activity.py`, `services/activities.py`) | `activities` | capture, undo, preview, restore, prune | undo against newer edits; previews that decide apart from the writes |
| Sessions (`services/auth.py`, `oidc.py`, `routers/auth.py`) | `users.token_version` | login, logout | nothing is locked: overlapping logouts, logins that store the row |
| AI provider client (`ai.py`), Excel parsing and upload limits, configuration, migrations, admin scripts | none beyond a call | | |
| CLI push and pull (`cli/x_locale_cli/push_index.py`, `ops.py`, `client.py`, `io.py`) | locale files, `push-index.json`, `push-index.pending` | push, pull | killed between two file writes; answers that never come; imports that finish after the client left |
| CLI commands and reports; web frontend | | | |

How they interact: `loc push` posts an import, the request takes the project's
import lock and may launch a job; undo and key-policy changes take the same lock;
AI jobs share the job table, the job locks and the sweep, but not the import lock;
publication, editors and imports share the rows of `string_entries`, with the
publication lock between publishers; every request is admitted by membership.

What makes each correct: imports never lose each other's writes and their job rows
tell the truth; a project keeps an admin and keys follow members; no translation is
stored for a text it was not made from; the public export is unambiguous and
changes on purpose only; what an import writes is what it read and planned; an undo
overwrites only what its entries recorded; a text stays in the language it was
written in; a session that was ended stays ended; the index never makes a push skip a
changed key. Section 5 names the exceptions that the code makes to these.

`PROJECT.json` lists every component with its status, every hazard at its line, and
the source lines of every definition.

## 2. Modules

| Module | Models | Role |
|---|---|---|
| `JobLifecycle` | what a job promises: one atomic write, or none | abstract specification |
| `ImportJobs` | jobs, import lock, hand-over, sweep, replay, restart | implements `JobLifecycle` |
| `ImportJobs_proofs` | | theorems of `ImportJobs` and `Settings` |
| `Access` | what membership promises: one authorized change at a time | abstract specification |
| `Membership` | requests that authorize, read and write in steps | implements `Access` |
| `Membership_proofs` | | theorems of `Membership` and `Sessions` |
| `AITranslation` | AI jobs next to editors and the sweep | |
| `AITranslation_proofs` | | theorems of `AITranslation` |
| `StringRows` | one row of the strings table, without modules | shared by `Publication` and `History` |
| `Publication` | drafts, snapshots, publishers, editors, batches | |
| `Publication_proofs` | | theorems of `Publication` |
| `History` | the activity log, undo, previews, restores | |
| `History_proofs` | | theorems of `History` |
| `CatalogRows` | rows with modules, key identity, the plan of an import | pure operators, shared by the next two |
| `Catalog` | a project's catalog request by request: imports, exports, sync state | |
| `Catalog_proofs` | | theorems of `Catalog`, and what a plan does |
| `ImportEngine` | the statements of an import next to saves and module deletion | concurrent version of `Catalog`'s imports |
| `ImportEngine_proofs` | | theorems of `ImportEngine` |
| `Settings` | the project's row and those who rely on it | |
| `Sessions` | one user's logins and logouts | |
| `PushIndex` | one directory: index, marker, push, pull, crash | |
| `PushIndex_proofs` | | theorems of `PushIndex` |
| `MC...` | model values, symmetry | one per checked module |

Two proof modules extend two components each, whose names must then differ: the
specifications of `Sessions`, `Settings` and `Catalog` are `SessionsSpec`, `SettingsSpec` and
`CatalogSpec`, and so on.

### ImportJobs

`rpc`, `hpc`, `wpc` are the program points of the three threads of a launch: the
request inside `launch_job`, the holder inside `_hold_session_lock`, the worker
inside `run_job`. `owner` and `waiters` are the advisory import lock, whose granted
owner is a *session*: the request's transaction, then the holder's connection, then
the worker's transaction. `jobLock` is the session lock of `owned_job_connection`.
`execute`, `abort`, `release` are the events. A step is what one thread does between
two points at which another may act; a COMMIT is two steps, sent (`WorkerCommit`) and
resolved (`CommitResolves`), because the connection may break in between. The rows
that an import writes are one entry of `log`, which records how many earlier writes
its transaction had seen: that is all `Serialized` needs. Deadlines (5 s) may pass
at any moment; the history `smooth` remembers whether one did, because the code
itself says that the overwrite gap is open then (`jobs.py:213`).

### Membership

A request is: arrive (and, for key requests, read the membership), `lock_project`,
authorize again under the lock, check, commit. All values that a later step uses
are variables of the thread (`seen`, `doomed`), so a stale one would be used stale.
The history `author` says
who made the latest change; without it, `Access` could blame another admin for a
change that its author was not allowed to make.
Using a key takes no lock and records its time after the response. `update_project`
takes the same lock and changes none of these rows; it is left out.

### AITranslation

The selection of strings, the reading of their texts, the model's answer, the save,
the completion and the failure record are separate steps; the save and the completion
are one transaction (`staged`, then `CommitResolves`). A translation is a record of
who made it and from which text. The job lock's connection may break without the
thread noticing (`LockLost`).

### Publication

A row has the working copy (key, text), the snapshot `pub` (key and text are
snapshotted together, so they are one value), status, pending removal, tombstone. A
request looks (GET or preview), starts, waits for the publication lock if its
handler takes it, reads rows into its session (`copy`), flushes, commits. `Changed`
is the ORM's rule that an UPDATE names only the columns whose value changed: several
properties depend on it. The layout is flat: the export identity of a row is its key.
Modules are in `CatalogRows`, `restore_last_history` and undo in `History`, public
imports in `ImportEngine`; tags are left out.

### History

`log` is the table of activities, oldest first; a position is an id. An entry holds
the row before and after as the *session* saw them (`Captured`; the strings of one flush come in any
order), which need not be what
the database ends with: that difference is what `MarkersTellTheTruth` and
`VersionIsRestored` are about. `ver` is `updated_at`. A request reads (`Begin`) and then
writes and commits (`Finish`) or fails (`GiveUp`); edits and imports, whose own
interleavings are in `Publication` and `ImportEngine`, are one step each. `Plan` is
`_plan_batch_revert`, a fold over the entries of a batch from the newest to the oldest
that hands keys over from one string to another; `Preview` is the separate code that
predicts it. Left out: the grouping and serialisation of the feed, entries of an older
format, strings that were deleted for good and are created again, and the tolerance
for timestamps that do not parse.

### CatalogRows and Catalog

A row has a module, a text in the base language and one in a target language, and a
published snapshot of all of it. `Plan` is the loop of `import_rows` as a fold over
the file: it matches each row of the file with a string (`Candidates`, by id of the
module, scope and key), creates, revives, updates, counts, and skips. A row of a file is
`scoped` if it says where it belongs and `excel` if it comes from a workbook. `Catalog`
runs requests one at a time, because its questions are about rules that are written
twice (checks against indexes, export against import, sync state against push, dry run
against run), not about overlap. Ids of deleted modules may be used again, which only
adds behaviours. A file names each module once and each key of a workbook once.

### ImportEngine

The same rows, with transactions: `queue` is what the current statement of a client
still has to lock, in the order in which Postgres will meet the rows, `held` what its
transaction has. A lock on a module has two modes, because foreign keys share it;
`key` and `slug` items are uncommitted entries of unique indexes. An import is its six
statements (modules, strings, rows and translations, the check that the locks still
cover what they must, new modules, plan and write); a save is its lock, comparison
and flush; a module deletion its lock, checks and cascade. `Victim` is the deadlock
detector, with `run_write`'s replay. The history `moved` remembers whether a string changed
its key or a module of its own in the middle of an import, or of a deletion that waits for
strings. Ids are given out by the model, so a new id must not be in use: `Unnamed` (modules)
and `Unused` (strings) are bounds. One import runs at a time: `ImportJobs` shows that the
import lock sees to that.

### Settings

`seen` is the project in a client's session, `project` the committed row, and `mode` the
client's lock on it: key share (foreign keys), share (`create_string`), no key update
(`lock_project`) and update (a change of a referenced column). An import here is its
locks on strings and the key share lock its audit rows take; which keys it writes does
not matter, only in which language (`lang`). `late` remembers that a job has waited
again for the import lock after a missed deadline: such a job is validated by nobody
(`run_job`). `crossed` remembers a settings change that saved on top of a base language
it had not seen.

### Sessions

A login stores the user's profile (an UPDATE of the columns that changed) and then
signs a token with the version it reads back; a logout reads the version, and commits it
plus one. The history `revoked` holds the tokens that a finished logout should have
ended, `setBack` whether a logout has written a version below the one it found.

### PushIndex

One directory and its project, seen from the CLI. `index` and `pending` are the two
files, `local` the base-language files (one per key: a pull may stop between two).
`imports` is what the directory has sent, by the number of the process that sent it. A
request outlives its process: once sent (`Send`), the server lets it in (`Accept`),
refuses or loses it (`Fail`) whenever it comes to it, the client gone or not, and before
or after what later processes send. It runs under the import lock, or, after a handoff
that missed its deadline (`MissHandoff`, `services/jobs.py:206-216`), without it, so that
a later push may be let in beside it; `Commit` needs the lock again (`jobs.py:307`).

`Crash` may happen between any two file operations, and stands also for an `OSError`
there, which leaves the same files. `GiveUp` is every failure that proves nothing: a lost
answer, a 5xx, a failed poll, the timeout. Both end the process alone: `Ends` drops the
answers that only it would have taken, and no request. Four histories: `agreed`, the text
each key had when this directory and the server last agreed, by a commit of one of its
imports or by the export of a draft pull; `newest`, the newest import that has committed;
`forgotten`, the imports that were under way when a public pull removed the marker;
`astray`, the keys that an import took which was forgotten or which a newer one had
overtaken, until directory and server agree on them again (section 5).

Not modelled: dry runs and pulls that leave the base language alone (they change neither
file), a second CLI process in the directory, a change of scope, a request that a proxy
delivers twice.

## 3. Runs

All runs set `CHECK_DEADLOCK FALSE`: clients, people and faults are bounded and may
stop for good, so a state without a next step is an end, not a deadlock. Waiting for
ever is what the liveness properties exclude.

| Run | Bounds | Shows |
|---|---|---|
| `jobs` | 2 import jobs, 1 synchronous import, 1 sweep, 1 fault | writes are serialized, rows are truthful and final, the overwrite gap is closed whenever deadlines are met; the machinery implements `JobLifecycle` |
| `jobs_live` | an undo that may be replayed and a dry run, 1 sweep, 1 fault, fairness | jobs end, the lock comes free |
| `membership` | 2 users, 2 keys, 2 concurrent requests, 2 key uses | last admin, keys, that `Membership` implements `Access`, `last_used_at` moves forward |
| `ai` | four plans: a job beside a proposing one, an overwriting job beside an inline request (1 string, 1 edit); each background kind alone (2 strings, 2 edits or reviews); 2 texts, 1 fault, fairness | translations match their texts, none is replaced unasked, outcomes are truthful and final, jobs end, rows come free |
| `publication` | two scenes: 2 strings, 2 keys, 1 text; 1 string, 1 key, 2 texts; 2 clients, 4 requests | unique export keys, strings leave on purpose, edits survive, reviewed publish, guarded save |
| `history` | three scenes of 2 strings and 2 clients: undo between edits (2 keys, 2 texts, 4 requests), between publications and deletions (5 requests), chains of renames (3 keys, one request at a time) | undo is exact, its markers are true, nothing is undone twice, the export stays unambiguous, both previews say what the writes do |
| `history_version` | 1 string, 2 keys, 2 texts, 4 requests | **violated**: a restored version mixed with a concurrent save |
| `catalog` | 2 strings, 2 modules, 1 key, 3 texts, both layouts and policies, all files of the listed shapes, 3 requests | checks suffice for the indexes, exports stay unambiguous, round trip, sync state and dry run predict |
| `import_engine` | four scenes of up to 4 clients, 2 strings and room for more, 2 modules, 4 keys: an import, a save or a deletion, and anything else; strings that move into, or out of, a module that is deleted; strings renamed to the keys that an import inserts | imports write what they planned, stale saves are refused, deletion leaves no reference, imports are in no deadlock but by strings that move or by their keys |
| `settings` | 3 clients, 1 string, 3 languages, 7 kinds of request, fairness | texts stay in the base language, inserts use current settings, no deadlock with imports; requests end, after a deadlock or a lost handoff too |
| `sessions` | 5 requests of one user, 2 profiles | ended sessions stay ended, two overlapping logouts or not, until one sets the version back; logins are harmless |
| `push_index` | 2 keys, 2 texts, 1 edit, 4 pushes or pulls | whatever is accepted or committed late, a full push follows while an import may still commit as the newest (a public pull aside), and the index is honest and a successful push delivers but for keys gone astray |

A *scene* or a *plan* is a situation that the initial state chooses once and that
nothing changes: which strings, keys and texts are in use, which kinds of request are
sent, how many. It lets one run check several small instances with the same properties,
and it is a bound, not part of the system.

Why the bounds are enough to be interesting. Two jobs and a synchronous import are
the smallest number at which a write can slip between a validation and its job while
a third party is queued. One fault suffices for each of the failure paths, since a
path handles one failure. Two strings that may exchange a key, with a third key to free
it, are the smallest chain of renames in a batch (`history`). One key, two modules and the
unassigned place give a deletion something to merge (`catalog`); an import, the editor
that moves its strings and the deletion of the module they leave are the three or four
parties of a circle of locks: the last three scenes of `import_engine` end in such circles,
one for each exception that `ImportsAvoidDeadlock` names. Three requests meet every pair of lock modes in `settings`
with a third party that queues. Two users are two admins who remove each other. Two
strings and two keys let a key move from one to the other and be reused; two edits let
a text change and change back while a model thinks (`ai`). Four runs of the CLI are
the shortest chain for a push that gives up, two pulls and a push; three suffice for a
request that is accepted behind a rerun, with a push that relies on the index after it. One edit makes the
texts of two pushes differ, or of directory and server. Every bound is a
constant of the `.cfg` or of a scene in the MC module. Jobs, texts, keys and users that
nothing tells apart are symmetric in the safety runs; the runs with liveness use no
symmetry.

Invariants that one breakdown would violate together are checked as one: `ExportSound` holds
`PublicKeysUnique`, `KeysSound` `NoOrphanKey` and `OneKeyEach`, `LogSound` `UndoneOnce` and
`ExportStaysUnambiguous`, `CatalogSound` `ChecksSuffice` and `PublicExportable`, `EngineSound` (in
`ImportEngine`) `ModulesExist` and `ExportUnambiguous`, `LanguagesSound` `SourceLanguage`,
`FreshSettings` and `BaseStaysApart`.

Every property has a mutant in `PROJECT.json`: a changed definition, kept in the
module beside the real one, that makes the property fail.

### Fairness

`ImportJobs`: weak fairness of each thread (the operating system schedules threads,
every wait in `launch_job` has a deadline), of the resolution of a COMMIT by Postgres,
and of the sweep (`recovery_loop` runs at start-up and every interval). Clients,
faults and lost connections have none. `AITranslation`: as `ImportJobs`; a call of the model
ends because the provider client has a timeout. `Settings`: weak fairness of every
client, since Postgres grants a free lock and breaks circles; strong fairness is not
needed, because nobody takes a lock twice but a save, and that is replayed once. The
other modules are checked for safety only.

## 4. Proofs

`ImportJobs_proofs` proves, for every set of jobs, synchronous writes and sweepers and
every number of faults (from `JobsAssumption`: the sets of jobs and of synchronous
writes are disjoint, dry runs and undos are jobs, no job is both): `TypeCorrect`,
`Invariance`, `Refinement` (`ImportJobs` implements `JobLifecycle`), and from it
`ImportsSerialized`, `RowsTruthful` and `OutcomesFinal`. None of the properties is
inductive by itself. The invariant adds: a live worker owns its job lock
(`WorkersOwn`) and a sweep the lock of the job it has in hand (`SweepsOwn`); a COMMIT
in flight keeps its job lock and its row running (`InFlight`); a row appears only
with its launch (`Launching`); who writes owns the import lock (`WritersOwn`) and has
seen the whole log (`WritersFresh`); a synchronous write happens once (`SyncsOnce`). The
steps then map to steps of `JobLifecycle`, and the safety properties follow from the
abstract specification, which is where they are easy.

`Membership_proofs` proves, for every finite set of users and all sets of keys and
threads (`MembershipAssumption`): `TypeCorrect`, `Refinement` (`Membership` implements
`Access`), `AdminRemains`, `KeysFollowMembers`, `OneActiveKey` and `UsesMoveForward`
(`UsageMonotone`). The invariant says that one
thread at most is past the lock, and that what it read under the lock (its role, the
guards it passed, the keys it will revoke) is still so; hence a commit is the abstract
operation at that instant.

It also proves, for `Sessions` and every set of requests (`SessionsAssumption`):
`SessionsTyped`, `EndedSessions` (`EndedStaysEnded`) and `LoginsAreHarmless`
(`OnlyLogoutsEndSessions`). The invariant says that, until a logout sets the version
back, a token is never newer than the user's row nor than the version that a logout read
which has seen it, that no logout under way has read a version ahead of the row, and that
a revoked token is older than the row.

`PushIndex_proofs` proves, for every set of keys and texts and every number of edits
and runs (`PushAssumption`): `TypeCorrect`, `HonestIndex` (`IndexHonest`),
`SuccessfulPush` (`PushDelivers`) and `UnsettledCovered` (`UnsettledIsCovered`). See
section 2 for the histories. None of the three is inductive. The invariant adds who sent
which import and who waits for its answer (`Answers`), that a push which was received is
the newest (`Ages`), what the marker says of imports that may still commit as the newest,
while a process runs too: it found the marker, and is no push that may clear it
(`Covered`), and what a process in the middle of its run knows: what an
accepted push will save is what was agreed (`PushKnows`), and so is what a draft pull will
(`PullKnows`), save for keys astray.

A part of `ImportJobs_proofs` of its own proves `NoGap` (`NoOverwriteGap`). Its invariant follows the lock from the request to the holder and from the holder to the
worker: as long as no deadline was missed (`smooth`), nobody else's write can come
between, because the next party queues before the one before it lets go (`OneQueue`,
`RequestsHold`, `HoldersQueue`, `WorkersQueue`), so the log has not grown since the
validation (`NothingSince`) and the worker writes right behind it (`Seamless`). A
replayed attempt has given the lock back and is outside of the claim (`Replays`).

`AITranslation_proofs` proves, for every set of jobs, strings and texts
(`AIAssumption`): `TypeCorrect`, `RowsTruthful` (`OutcomeTruthful`), `OutcomesAreFinal`
(`OutcomeFinal`), `TextsAlwaysMatch` (`TextsMatch`) and `NothingReplaced` (`NoneReplaced`).
What a save has checked stays true until its COMMIT is resolved, because it holds the
rows' locks (`Held`); what a generation was told about may change, which is why the
save compares again (`Unread`); and a job whose COMMIT is in flight keeps its row from
the sweep (`InFlight`).

`Publication_proofs` proves, for every set of strings, keys, texts, clients and
situations (`PublicationAssumption`): `ExportIsSound` (`ExportSound`), `ExportLeftOnPurpose`
(`LeavesOnPurpose`), `EditsNotLost` (`NoLostEdit`), `EditsKept` (`EditsSurvive`) and
`ShipsWhatWasReviewed` (`PublishedAsReviewed`). The invariant says of each request what is
still true of its copies: the table has only grown since (`Grows`); under the
publication lock the snapshots are the ones it read, under the editor's row lock the whole
row is (`Copied`); the rows it has flushed are locked, and the guard that passed at the
flush still passes (`Checked`). The last part is the heart of it: everybody who may commit
meanwhile is no publisher, so the export only loses rows (`Shrinks`, `FewerPublic`),
except by a restore of a row that changed under it, which is what `fresh` excludes.

`ImportJobs_proofs` proves of `Settings`, for every set of clients, requests, languages and strings
(`SettingsAssumption`, which has it from `create_project` that a project starts without its
base language among the targets): `LanguagesAreSound` (`LanguagesSound`) and
`ImportsAreClear` (`ImportsKeepClear`). The invariant says what each lock is worth: under a
shared lock the copy of the project is current; the strongest lock comes with the import
lock (`Current`), and only under it is a policy or a base language replaced, while there
is no string (`Replacing`); an import has the import lock from its validation on, unless
its handoff failed (`Importing`). For deadlocks it adds who may have locked strings
(`Rowed`): a save that has its string waits for nobody but the strongest lock, which does
not exist beside an import.

`ImportEngine_proofs` proves, for every set of clients, scenes and requests, every finite set
of strings and modules, every set of keys and texts and files of any length (`RowsAssumption`:
ids are numbers; `EngineAssumption`: the catalogs to start from respect the foreign keys, the
unique slugs and the snapshots of public strings): `EngineStaysSound` (`EngineSound`),
`WritesStayInformed` (`WritesAreInformed`) and `ImportsStayClear` (`ImportsAvoidDeadlock`). The
invariant `IInv` says that locks exclude each other, that one import runs at a time, that what
the catalog refers to exists, and what each transaction knows by its locks (`Local`): an import,
that the strings it has locked are as it read them, that nobody can give the modules it needs
away, and what its plan will write; a save, what it has compared; a deletion, that nobody but
itself can still refer to the module. The argument is rely and guarantee: a step of one client
is *lawful* when the locks of the others allow it, what the others know survives any lawful
step (`Steady`), so an action needs only be shown lawful and to keep what its own client knows.

A plan is a fold over the file. Its run is written down as the sequence of its states, and
what it keeps is shown by the least number at which it would not be kept, a set of numbers
and not an operator, which the provers can handle. The order of ids, `InOrder`, is a `CHOOSE` by
its property and no sorting routine, for the same reason. What every plan does is proved once, in
`Catalog_proofs`, and cited here.

For deadlocks a second invariant, `Ordered`, says which locks a transaction has while it waits:
an import has every module before its first string; until strings move, what a deletion waits
for are strings of its module, and a save that waits for a module waits for none that the
import inserts. So nobody whom an import waits for waits, in turn, for the import, save for
a unique key. Two earlier claims fell in the attempt. The model counted modules as new where
nothing was missing and nothing had been inserted (`import_bulk.py:361-372`), which made an
import sure of modules it had not locked. And `ImportsAvoidDeadlock` once excused only
strings that moved to the deleted module: a deletion that waits for strings that have left
it, and a circle of two renames, a deletion and the import's new keys, are deadlocks too.
Postgres breaks them, and `docs/import-performance.md:195-205` promises no more than the
order against module deletion, which holds.

`Catalog_proofs` proves, for every finite set of strings and modules, every set of keys and texts
and files of any length (`RowsAssumption`, and `CatalogAssumption`: the catalogs to start from
respect the foreign keys, the unique slugs and the snapshots of public strings, and the rows of
a file are scoped all or none, as the parsers of one format leave them): `CatalogStaysSound`
(`CatalogSound`), `NothingIsRevived` (`ImportsReviveNothing`), `ExportsComeBack` (`RoundTrip`) and
`PredictionsComeTrue` (`PredictionsHold`).

* `CatalogSound` alone is not inductive: the deletion of a module counts on references that
  exist, and a publication on the snapshot of every public string; `CatalogInv` adds both. Every
  request leaves one catalog (`Leaves`), whose live keys are apart, and whose exported places are
  those of before (`SamePublic`) or were checked; that is all the preservation needs to know of it.
* The plan of an import is shown by induction over the rows of its file: which strings a row
  may match, that the string it creates is free, that a
  string which a push must not touch ends as it was or the file is refused. `Fits` says that the model has ids enough for a file, which is a bound.
* The round trip rests on slugs that are unique: an exported row then names its own string and no
  other, or the file has two rows for one place and is refused.
* A dry run goes over the same rows without writing. The two agree because the string that a row
  matches is touched by no other row of the file, so the rows in between have not changed the
  answer; and the sync state asks of the same strings what `_validate` with `reject_deleted` asks.

`History_proofs` proves, for every set of strings, clients, keys and texts, every number of edits
and requests, and batches of any length (`HistoryAssumption`): `HistoryStaysSound` (`LogSound`),
`UndosAreExact` (`UndoIsExact`), `MarkersAreTrue` (`MarkersTellTheTruth`) and
`PreviewsTellTheTruth` (`PreviewsAgree`).

* The invariant `HistoryInv` says of the log that its entries are about rows that exist, and that
  links are older than what they link and mutual unless pruned (`GoodLog`). Of a session it says what is
  left of its read when it commits: nothing it saw has gone, and a row whose version is the one it
  read is the row it read (`Remembers`); an undo has both locks, and none of its entries has a
  marker (`GoodUndo`); a publication has every snapshot it saw (`GoodPublish`). Without `Remembers`
  the version guard of `claim_rows` would prove nothing of the row that an undo overwrites.
* Another session's step keeps all of that: it moves the version of each row it changes, adds
  entries at the end, and takes no lock that is held.
* Plans, previews and `restore_last_history` are folds, and each is a run of states as above. The
  tables an undo passes through are such a run too; on one string, the first table is the row that was
  committed and the last the row that will be, which is what the two properties of undo say.
* The export stays unambiguous because most handlers make nothing public (`Tame`, `Quiet`), and of the
  others each string keeps its place or is checked by `_guard_restored_publication`.
* A plan and its preview differ in form: the plan asks who owns a key while it hands keys over,
  and ends refused or not; the preview carries two flags and skips the row it cannot restore.
  `InStep` is what their states have in common after each entry. The table's index of live keys
  enters through the preview's `Taken`, which says the same only where that index holds.

`TypeOK` is a theorem of every module, alone or as a part of a combined invariant (`LogSound`,
`CatalogSound`, `EngineSound`).

Only model-checked: the liveness properties, since `ENABLED` and fairness are beyond the provers.
`VersionIsRestored` is violated, so there is nothing to prove. All the other properties of the
runs are theorems; what they take from the community modules (`FoldLeft`, `SetToSeqs`, ...) is
derived from the definitions there.

## 5. Where code and documents disagree

One disagreement has a run of its own:

* `history_version`: the restore of a version (`services/activities.py:616`) takes no lock
  and has no version guard; a save in between leaves a mix of two versions, and an
  entry in the log that describes a row which never was.

The others are exceptions that properties of the passing runs name, each with a history
variable that says when the exception has happened:

* `fresh` (`Publication` and `History`): batch restore (`services/strings.py:1244`) reads a tombstone
  without a lock. A PATCH that makes the same tombstone public may commit before the
  restore does; the restore then revives a public row without the guard for export
  keys, which `services/strings.py:349` says is there to "Reject a publication that would
  make this project's public export ambiguous". `PublicKeysUnique`, `LeavesOnPurpose` and
  `ExportStaysUnambiguous` hold apart from such a restore.
* `crossed` (`Settings`): `update_project` reads the project again only for a policy or a
  base language (`services/projects.py:166-168`); a PATCH of targets alone that waited
  behind a change of the base filters them by the old one, though `docs/data-model.md:34`
  says that settings writes remove the base language from the targets. `BaseStaysApart`
  holds apart from that.
* `late` (`Settings`): a job whose handoff missed its deadline waits again and is
  validated by nobody (`services/jobs.py:307`). `SourceLanguage` holds apart from that.
* `setBack` (`Sessions`): logout (`routers/auth.py:112`) adds one to a version it read
  without a lock. Two that overlap write the same version, and every session they saw stays
  ended; one that two others pass, one after the other, sets the version back and
  revives a session that the second had ended. `EndedStaysEnded` holds until then.
* `astray` (`PushIndex`): two ways in which an import of the directory commits behind an
  index without a marker. `UnsettledIsCovered` names them, and promises the marker
  otherwise; `IndexHonest` and `PushDelivers` leave out the keys which such an
  import took, until directory and server agree on them again.
  * *Forgotten*: a public pull deletes the marker of a push that gave up on its
    request (`push_index.py:274`); after a draft pull the next push is a delta, though
    `cli/README.md:212-214` promises a full one.
  * *Overtaken*: a push gives up, or is killed, after it has sent its request
    (`client.py:84-90`, `ops.py:299-306`) or while its job has lost the hand-over
    (`jobs.py:213`); a rerun is let in first, commits, saves its index and clears the marker
    (`push_index.py:342`); then the older import commits its texts over the newer ones.
    Nothing in a request says which push it belongs to, so neither side can tell.
* `smooth` (`ImportJobs`): `NoOverwriteGap` is promised only while deadlines are met. Once
  one was missed, a worker may wait for the lock that another request hands over, and
  `services/jobs.py:199` takes it for that request's own holder. Then `Serialized` and
  `OutcomeTruthful` are what holds: the job sees what slipped in.

Two more need no exception. `_require_job_lock` (`services/translate.py:590`) does not
notice that the connection which owns the job lock broke (`LockLost`), so a job may commit
while the sweep owns it; `OutcomeTruthful` and `OutcomeFinal` show that the check of the row
still keeps the outcome right. The preview of an undo (`services/activities.py:1921`) never
asks `_guard_restored_publication`, and may announce an undo that the write refuses even
with force; `PreviewsAgree` is about the rules the two share.

## 6. Not modelled

* Pure functions without state: AI prompts, Excel parsing and limits, CLI reports.
* The web frontend, configuration, migrations and admin scripts; see `PROJECT.json`.
* Tags, and more than one target language: both are lists of values without a rule that
  ties them to each other. Tag names are unique by an index.
* Job progress: no decision reads it, and the worker keeps off its own row meanwhile.
* Two CLI processes in one directory: nothing says what they may expect.
* Waits on unique indexes and deadlocks between row locks in `Publication` and
  `History`: they end a request, as `GiveUp` does. `ImportEngine` has them.
* The feed of activities: grouping and serialisation; entries of an older format.

## 7. Plan

1. `Catalog` with two target languages and with tags, once the runs are fast enough; the proofs
   then need the translations of a row as a function of the language.
2. The export's identity in `History`: its layout is flat, as in `Publication`. With modules, the
   proof of `ExportStaysUnambiguous` would take its places from `CatalogRows`.
