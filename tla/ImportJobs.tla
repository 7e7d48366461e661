------------------------------ MODULE ImportJobs ------------------------------
(***************************************************************************)
(* Background imports and undos of one project: the project's import lock, *)
(* the launch of a job with its two threads, the hand-over of the lock     *)
(* from the request to the worker, the worker's single transaction, and    *)
(* the sweep that fails jobs whose worker is gone.                         *)
(*                                                                         *)
(* Two Postgres advisory locks carry the design.  The import lock (owner,  *)
(* waiters) serializes every import and undo of the project; requests and  *)
(* the sweep only try it, a handoff holder and a worker block on it.  The  *)
(* job lock (jobLock) is held by a worker's connection for its whole life: *)
(* whoever gets it knows that the job's work cannot commit any more.       *)
(***************************************************************************)
EXTENDS Naturals, Sequences

CONSTANTS
    Jobs,      \* jobs that requests ask for (Prefer: respond-async)
    DryRuns,   \* the jobs that only preview an import
    Undos,     \* the jobs that undo a batch: run_write may replay them once
    Syncs,     \* imports, undos and key-policy changes done inside a request
    Sweepers,  \* server processes, each with one recovery loop
    MaxFaults  \* bound on lost connections, database errors and restarts

ASSUME JobsAssumption ==
    /\ DryRuns \subseteq Jobs
    /\ Undos \subseteq Jobs
    /\ DryRuns \cap Undos = {}
    /\ Jobs \cap Syncs = {}
    /\ MaxFaults \in Nat

Writers == Jobs \cup Syncs

\* Database sessions that can own or wait for an advisory lock.
Request(j) == <<"request", j>>
Holder(j)  == <<"holder", j>>
Worker(j)  == <<"worker", j>>
Sync(s)    == <<"sync", s>>
Sweep(k)   == <<"sweep", k>>
Free       == <<"free", "free">>

Sessions == ({"request", "holder", "worker"} \X Jobs)
                \cup ({"sync"} \X Syncs) \cup ({"sweep"} \X Sweepers)

VARIABLES
    owner, waiters,    \* import lock: its owner (or Free), the sessions blocked on it
    jobLock,           \* job lock of each job: its owner, or Free
    row,               \* committed jobs.status of each job ("none": no row)
    rpc,               \* request thread of each job, inside launch_job
    hpc,               \* handoff holder thread of each job
    wpc,               \* worker thread of each job, inside run_job
    execute, abort, release, \* threading.Events: the jobs whose event is set
    lost,              \* jobs whose worker connection is gone
    inflight,          \* jobs whose COMMIT was sent and is not resolved yet
    attempt,           \* run_write attempt of each writer
    spc,               \* request thread of each synchronous write
    swpc, candidates, target, \* recovery sweep: step, jobs listed, job in hand
    base,              \* history: how many writes each writer's transaction has seen
    asked,             \* history: how many writes the job's request had seen
    log,               \* history: the committed import and undo writes, in order
    smooth,            \* history: every handoff so far met its 5 s deadlines
    faults             \* faults so far

lockVars    == <<owner, waiters>>
eventVars   == <<execute, abort, release>>
workVars    == <<lost, inflight, attempt, base>>
sweepVars   == <<swpc, candidates, target>>
historyVars == <<asked, log>>
vars == <<lockVars, jobLock, row, rpc, hpc, wpc, eventVars, workVars, spc,
          sweepVars, historyVars, smooth, faults>>

RequestSteps == {"idle", "locked", "readying", "handing", "committed",
                 "dispatched", "recording", "returned", "rejected", "failed"}
HolderSteps  == {"none", "connecting", "waiting", "held", "done"}
WorkerSteps  == {"none", "connecting", "refused", "owned", "waiting", "working",
                 "replaying", "worked", "drained", "committing", "failing",
                 "closing", "done"}
SyncSteps    == {"idle", "working", "replaying", "done", "rejected"}
SweepSteps   == {"idle", "listing", "claimed", "locked"}
Status       == {"none", "running", "completed", "failed"}
Terminal     == {"completed", "failed"}
Logs         == Seq([by: Writers, seen: Nat])
FaultCounts  == 0..MaxFaults

\* Types of all variables (models.py Job.status; the program points of jobs.py).
TypeOK ==
    /\ owner \in Sessions \cup {Free}
    /\ waiters \subseteq Sessions
    /\ jobLock \in [Jobs -> Sessions \cup {Free}]
    /\ row \in [Jobs -> Status]
    /\ rpc \in [Jobs -> RequestSteps]
    /\ hpc \in [Jobs -> HolderSteps]
    /\ wpc \in [Jobs -> WorkerSteps]
    /\ execute \subseteq Jobs
    /\ abort \subseteq Jobs
    /\ release \subseteq Jobs
    /\ lost \subseteq Jobs
    /\ inflight \subseteq Jobs
    /\ attempt \in [Writers -> {1, 2}]
    /\ spc \in [Syncs -> SyncSteps]
    /\ swpc \in [Sweepers -> SweepSteps]
    /\ candidates \in [Sweepers -> SUBSET Jobs]
    /\ target \in [Sweepers -> Jobs \cup {Free}]
    /\ base \in [Writers -> Nat]
    /\ asked \in [Jobs -> Nat]
    /\ log \in Logs
    /\ smooth \in BOOLEAN
    /\ faults \in FaultCounts

Init ==
    /\ owner = Free /\ waiters = {}
    /\ jobLock = [j \in Jobs |-> Free]
    /\ row = [j \in Jobs |-> "none"]
    /\ rpc = [j \in Jobs |-> "idle"]
    /\ hpc = [j \in Jobs |-> "none"]
    /\ wpc = [j \in Jobs |-> "none"]
    /\ execute = {} /\ abort = {} /\ release = {}
    /\ lost = {} /\ inflight = {}
    /\ attempt = [w \in Writers |-> 1]
    /\ spc = [s \in Syncs |-> "idle"]
    /\ swpc = [k \in Sweepers |-> "idle"]
    /\ candidates = [k \in Sweepers |-> {}]
    /\ target = [k \in Sweepers |-> Free]
    /\ base = [w \in Writers |-> 0]
    /\ asked = [j \in Jobs |-> 0]
    /\ log = <<>>
    /\ smooth = TRUE
    /\ faults = 0

-----------------------------------------------------------------------------
(* The import lock.  A try succeeds only on a free lock; a released lock   *)
(* goes straight to a blocked session (Postgres queues them in order; any  *)
(* order is allowed here), so a try can never overtake one.                *)

Take(a) == owner' = a /\ UNCHANGED waiters

\* Mutants: a session that barges in, and one that leaves the lock behind.
BlockBarges(a) == Take(a)
LeaveLocked(a) == waiters' = waiters \ {a} /\ UNCHANGED owner

Block(a) ==
    IF owner = Free THEN Take(a)
    ELSE waiters' = waiters \cup {a} /\ UNCHANGED owner

PassOn(blocked) ==
    IF blocked = {} THEN owner' = Free /\ waiters' = {}
    ELSE \E b \in blocked : owner' = b /\ waiters' = blocked \ {b}

\* A session ends its transaction, unlocks, or disappears.
Leave(a) ==
    IF owner = a THEN PassOn(waiters)
    ELSE waiters' = waiters \ {a} /\ UNCHANGED owner

\* Mutant of import_lock_waiting: the launch never asks.
WaitingAssumed == TRUE

\* import_lock_waiting: some session, whosever it is, is blocked on the lock.
ImportLockWaiting == waiters # {}

Fault == faults < MaxFaults /\ faults' = faults + 1

\* Mutant: a replay keeps what the first attempt read.
ObserveOnce(w) ==
    base' = IF attempt[w] = 1 THEN [base EXCEPT ![w] = Len(log)] ELSE base

\* A transaction reads the rows its writes will be computed from.
Observe(w) == base' = [base EXCEPT ![w] = Len(log)]

Commit(w) == log' = Append(log, [by |-> w, seen |-> base[w]])

-----------------------------------------------------------------------------
(* The request: routers/sync.py, routers/activities.py and launch_job.     *)

\* The endpoint tries the lock; 409 import_in_progress when it is taken.
RequestLock(j) ==
    /\ rpc[j] = "idle"
    /\ IF owner = Free
         THEN /\ Take(Request(j))
              /\ rpc' = [rpc EXCEPT ![j] = "locked"]
              /\ asked' = [asked EXCEPT ![j] = Len(log)]
         ELSE /\ rpc' = [rpc EXCEPT ![j] = "rejected"]
              /\ UNCHANGED <<lockVars, asked>>
    /\ UNCHANGED <<jobLock, row, hpc, wpc, eventVars, workVars, spc, sweepVars,
                   log, smooth, faults>>

\* The upload cannot be read, or is too large: no launch, the lock is dropped.
RequestRefused(j) ==
    /\ rpc[j] = "locked"
    /\ rpc' = [rpc EXCEPT ![j] = "failed"]
    /\ Leave(Request(j))
    /\ UNCHANGED <<jobLock, row, hpc, wpc, eventVars, workVars, spc, sweepVars,
                   historyVars, smooth, faults>>

StartWorker(j) ==
    /\ rpc[j] = "locked"
    /\ rpc' = [rpc EXCEPT ![j] = "readying"]
    /\ wpc' = [wpc EXCEPT ![j] = "connecting"]
    /\ UNCHANGED <<lockVars, jobLock, row, hpc, eventVars, workVars, spc,
                   sweepVars, historyVars, smooth, faults>>

\* ready.result() returned: the worker owns its job lock; start the holder.
StartHolder(j) ==
    /\ rpc[j] = "readying"
    /\ wpc[j] \notin {"connecting", "refused"}
    /\ rpc' = [rpc EXCEPT ![j] = "handing"]
    /\ hpc' = [hpc EXCEPT ![j] = "connecting"]
    /\ UNCHANGED <<lockVars, jobLock, row, wpc, eventVars, workVars, spc,
                   sweepVars, historyVars, smooth, faults>>

\* start_job, once somebody waits for the lock or the deadline has passed.
\* The commit shows the row and ends the request's transaction lock.
StartJob(j) ==
    /\ rpc[j] = "handing"
    /\ smooth' = (smooth /\ ImportLockWaiting)
    /\ row' = [row EXCEPT ![j] = "running"]
    /\ Leave(Request(j))
    /\ rpc' = [rpc EXCEPT ![j] = "committed"]
    /\ UNCHANGED <<jobLock, hpc, wpc, eventVars, workVars, spc, sweepVars,
                   historyVars, faults>>

\* held.wait() returned or timed out; the worker may go.
Dispatch(j) ==
    /\ rpc[j] = "committed"
    /\ smooth' = (smooth /\ hpc[j] = "held")
    /\ execute' = execute \cup {j}
    /\ rpc' = [rpc EXCEPT ![j] = "dispatched"]
    /\ UNCHANGED <<lockVars, jobLock, row, hpc, wpc, abort, release, workVars,
                   spc, sweepVars, historyVars, faults>>

\* The second wait for a blocked session ends, or its query fails: either way
\* the holder is released.  202 with the job, or a 5xx although the job runs.
Return(j) ==
    /\ rpc[j] = "dispatched"
    /\ release' = release \cup {j}
    /\ \/ /\ rpc' = [rpc EXCEPT ![j] = "returned"]
          /\ smooth' = (smooth /\ ImportLockWaiting)
          /\ UNCHANGED faults
       \/ /\ Fault
          /\ rpc' = [rpc EXCEPT ![j] = "failed"]
          /\ smooth' = FALSE
    /\ UNCHANGED <<lockVars, jobLock, row, hpc, wpc, execute, abort, workVars,
                   spc, sweepVars, historyVars>>

\* An exception before dispatch: the worker is not ready in time or refused, or
\* the request's own connection fails, maybe after its commit went through.
\* db.rollback() drops the lock and abort is set.  A holder already started is
\* left behind: a later launch may take it for its own.
LaunchFails(j) ==
    /\ \/ /\ rpc[j] = "readying"
          /\ wpc[j] \in {"connecting", "refused"}
          /\ UNCHANGED <<row, smooth, faults>>
       \/ /\ rpc[j] = "handing"
          /\ Fault /\ smooth' = FALSE
          /\ \/ UNCHANGED row
             \/ row' = [row EXCEPT ![j] = "running"]
       \/ /\ rpc[j] = "committed"
          /\ Fault /\ smooth' = FALSE
          /\ UNCHANGED row
    /\ Leave(Request(j))
    /\ abort' = abort \cup {j}
    /\ rpc' = [rpc EXCEPT ![j] = "recording"]
    /\ UNCHANGED <<jobLock, hpc, wpc, execute, release, workVars, spc,
                   sweepVars, historyVars>>

\* Mutants: the outcome is overwritten, is never committed.
MarkFailedBlindly(j) == row' = [row EXCEPT ![j] = "failed"]
MarkNothing(j) == UNCHANGED row

\* _record_failure: only a row that still reads running is failed.
MarkFailed(j) ==
    row' = IF row[j] = "running" THEN [row EXCEPT ![j] = "failed"] ELSE row

\* _record_failure of the launch (it may fail itself), then the finally block.
RecordLaunchFailure(j) ==
    /\ rpc[j] = "recording"
    /\ \/ MarkFailed(j) /\ UNCHANGED faults
       \/ Fault /\ UNCHANGED row
    /\ execute' = execute \cup {j}
    /\ release' = release \cup {j}
    /\ rpc' = [rpc EXCEPT ![j] = "failed"]
    /\ UNCHANGED <<lockVars, jobLock, hpc, wpc, abort, workVars, spc, sweepVars,
                   historyVars, smooth>>

-----------------------------------------------------------------------------
(* The handoff holder: _hold_session_lock.                                 *)

HolderBlock(j) ==
    /\ hpc[j] = "connecting"
    /\ Block(Holder(j))
    /\ hpc' = [hpc EXCEPT ![j] = "waiting"]
    /\ UNCHANGED <<jobLock, row, rpc, wpc, eventVars, workVars, spc, sweepVars,
                   historyVars, smooth, faults>>

HolderHeld(j) ==
    /\ hpc[j] = "waiting"
    /\ owner = Holder(j)
    /\ hpc' = [hpc EXCEPT ![j] = "held"]
    /\ UNCHANGED <<lockVars, jobLock, row, rpc, wpc, eventVars, workVars, spc,
                   sweepVars, historyVars, smooth, faults>>

HolderRelease(j) ==
    /\ hpc[j] = "held"
    /\ j \in release
    /\ Leave(Holder(j))
    /\ hpc' = [hpc EXCEPT ![j] = "done"]
    /\ UNCHANGED <<jobLock, row, rpc, wpc, eventVars, workVars, spc, sweepVars,
                   historyVars, smooth, faults>>

HolderLost(j) ==
    /\ hpc[j] \in {"connecting", "waiting", "held"}
    /\ Fault
    /\ Leave(Holder(j))
    /\ hpc' = [hpc EXCEPT ![j] = "done"]
    /\ smooth' = FALSE
    /\ UNCHANGED <<jobLock, row, rpc, wpc, eventVars, workVars, spc, sweepVars,
                   historyVars>>

-----------------------------------------------------------------------------
(* The worker: run_job on the connection that owns the job lock.           *)

\* owned_job_connection: the session lock, then ready.set_result.
WorkerOwn(j) ==
    /\ wpc[j] = "connecting"
    /\ \/ /\ jobLock[j] = Free
          /\ jobLock' = [jobLock EXCEPT ![j] = Worker(j)]
          /\ wpc' = [wpc EXCEPT ![j] = "owned"]
          /\ UNCHANGED faults
       \/ /\ Fault
          /\ wpc' = [wpc EXCEPT ![j] = "refused"]
          /\ UNCHANGED jobLock
    /\ UNCHANGED <<lockVars, row, rpc, hpc, eventVars, workVars, spc, sweepVars,
                   historyVars, smooth>>

\* execute.wait() returns: stop when aborted, else queue for the import lock.
WorkerWake(j) ==
    /\ wpc[j] = "owned"
    /\ j \in execute
    /\ IF j \in abort
         THEN wpc' = [wpc EXCEPT ![j] = "closing"] /\ UNCHANGED lockVars
         ELSE IF j \in lost
         THEN wpc' = [wpc EXCEPT ![j] = "failing"] /\ UNCHANGED lockVars
         ELSE wpc' = [wpc EXCEPT ![j] = "waiting"] /\ Block(Worker(j))
    /\ UNCHANGED <<jobLock, row, rpc, hpc, eventVars, workVars, spc, sweepVars,
                   historyVars, smooth, faults>>

\* The lock is granted: work starts on the state of this moment, unless the
\* row no longer reads running.
WorkerBegin(j) ==
    /\ wpc[j] = "waiting"
    /\ owner = Worker(j)
    /\ IF row[j] = "running"
         THEN /\ wpc' = [wpc EXCEPT ![j] = "working"]
              /\ Observe(j)
              /\ UNCHANGED lockVars
         ELSE /\ wpc' = [wpc EXCEPT ![j] = "closing"]
              /\ Leave(Worker(j))
              /\ UNCHANGED base
    /\ UNCHANGED <<jobLock, row, rpc, hpc, eventVars, lost, inflight, attempt, spc,
                   sweepVars, historyVars, smooth, faults>>

\* run_write replays an undo once after a database conflict: the rollback drops
\* the import lock with the transaction.
WorkReplay(j) ==
    /\ wpc[j] = "working"
    /\ j \in Undos /\ attempt[j] = 1
    /\ attempt' = [attempt EXCEPT ![j] = 2]
    /\ wpc' = [wpc EXCEPT ![j] = "replaying"]
    /\ Leave(Worker(j))
    /\ UNCHANGED <<jobLock, row, rpc, hpc, eventVars, lost, inflight, base, spc,
                   sweepVars, historyVars, smooth, faults>>

\* The replayed write() tries the lock again; 409 fails the job.
WorkReacquire(j) ==
    /\ wpc[j] = "replaying"
    /\ IF owner = Free
         THEN /\ Take(Worker(j))
              /\ wpc' = [wpc EXCEPT ![j] = "working"]
              /\ Observe(j)
         ELSE /\ wpc' = [wpc EXCEPT ![j] = "failing"]
              /\ UNCHANGED <<lockVars, base>>
    /\ UNCHANGED <<jobLock, row, rpc, hpc, eventVars, lost, inflight, attempt, spc,
                   sweepVars, historyVars, smooth, faults>>

\* work(db, project) returns: a dry run has rolled back, and so has no lock.
WorkDone(j) ==
    /\ wpc[j] = "working"
    /\ IF j \in DryRuns
         THEN wpc' = [wpc EXCEPT ![j] = "drained"] /\ Leave(Worker(j))
         ELSE wpc' = [wpc EXCEPT ![j] = "worked"] /\ UNCHANGED lockVars
    /\ UNCHANGED <<jobLock, row, rpc, hpc, eventVars, workVars, spc, sweepVars,
                   historyVars, smooth, faults>>

\* work raises (a rejected import, a conflict, a missing project): rollback.
WorkFails(j) ==
    /\ wpc[j] \in {"working", "worked", "drained"}
    /\ wpc' = [wpc EXCEPT ![j] = "failing"]
    /\ Leave(Worker(j))
    /\ UNCHANGED <<jobLock, row, rpc, hpc, eventVars, workVars, spc, sweepVars,
                   historyVars, smooth, faults>>

\* db.refresh(job): commit writes and completed status together, or give up.
WorkerCommit(j) ==
    /\ wpc[j] \in {"worked", "drained"}
    /\ IF row[j] = "running"
         THEN /\ wpc' = [wpc EXCEPT ![j] = "committing"]
              /\ inflight' = inflight \cup {j}
              /\ UNCHANGED lockVars
         ELSE /\ wpc' = [wpc EXCEPT ![j] = "closing"]
              /\ Leave(Worker(j))
              /\ UNCHANGED inflight
    /\ UNCHANGED <<jobLock, row, rpc, hpc, eventVars, lost, attempt, base, spc,
                   sweepVars, historyVars, smooth, faults>>

\* Postgres resolves the COMMIT.  When the thread is gone its session ends here
\* and gives up the job lock too; then the COMMIT may also have been lost.
CommitResolves(j) ==
    /\ j \in inflight
    /\ inflight' = inflight \ {j}
    /\ Leave(Worker(j))
    /\ \/ /\ row' = [row EXCEPT ![j] = "completed"]
          /\ IF j \in DryRuns THEN UNCHANGED log ELSE Commit(j)
       \/ /\ wpc[j] # "committing"
          /\ UNCHANGED <<row, log>>
    /\ IF wpc[j] = "committing"
         THEN wpc' = [wpc EXCEPT ![j] = "closing"] /\ UNCHANGED jobLock
         ELSE jobLock' = [jobLock EXCEPT ![j] = Free] /\ UNCHANGED wpc
    /\ UNCHANGED <<rpc, hpc, eventVars, lost, attempt, base, spc, sweepVars, asked,
                   smooth, faults>>

\* _record_failure after an exception.  It waits for the row while a flushed
\* update of it is in flight, and may fail itself.
RecordFailure(j) ==
    /\ wpc[j] = "failing"
    /\ \/ j \notin inflight /\ MarkFailed(j) /\ UNCHANGED faults
       \/ Fault /\ UNCHANGED row
    /\ wpc' = [wpc EXCEPT ![j] = "closing"]
    /\ UNCHANGED <<lockVars, jobLock, rpc, hpc, eventVars, workVars, spc, sweepVars,
                   historyVars, smooth>>

\* owned_job_connection's exit: unlock the job, or invalidate the connection.
WorkerClose(j) ==
    /\ wpc[j] = "closing"
    /\ wpc' = [wpc EXCEPT ![j] = "done"]
    /\ IF j \in inflight THEN UNCHANGED jobLock
       ELSE jobLock' = [jobLock EXCEPT ![j] = IF @ = Worker(j) THEN Free ELSE @]
    /\ UNCHANGED <<lockVars, row, rpc, hpc, eventVars, workVars, spc, sweepVars,
                   historyVars, smooth, faults>>

\* The worker's connection breaks: its locks and open transaction are gone,
\* except a COMMIT already sent.  The thread notices at its next query.
WorkerLost(j) ==
    /\ wpc[j] \in {"owned", "waiting", "working", "replaying", "worked",
                    "drained", "committing"}
    /\ j \notin lost
    /\ Fault
    /\ lost' = lost \cup {j}
    /\ wpc' = [wpc EXCEPT ![j] = IF @ = "owned" THEN @ ELSE "failing"]
    /\ IF j \in inflight
         THEN UNCHANGED <<lockVars, jobLock>>
         ELSE Leave(Worker(j)) /\ jobLock' = [jobLock EXCEPT ![j] = Free]
    /\ UNCHANGED <<row, rpc, hpc, eventVars, inflight, attempt, base, spc, sweepVars,
                   historyVars, smooth>>

-----------------------------------------------------------------------------
(* Imports, undos and key-policy changes that run inside their request.    *)

SyncLock(s) ==
    /\ spc[s] \in {"idle", "replaying"}
    /\ IF owner = Free
         THEN /\ Take(Sync(s))
              /\ spc' = [spc EXCEPT ![s] = "working"]
              /\ Observe(s)
         ELSE /\ spc' = [spc EXCEPT ![s] = "rejected"]
              /\ UNCHANGED <<lockVars, base>>
    /\ UNCHANGED <<jobLock, row, rpc, hpc, wpc, eventVars, lost, inflight, attempt,
                   sweepVars, historyVars, smooth, faults>>

SyncReplay(s) ==
    /\ spc[s] = "working"
    /\ attempt[s] = 1
    /\ attempt' = [attempt EXCEPT ![s] = 2]
    /\ spc' = [spc EXCEPT ![s] = "replaying"]
    /\ Leave(Sync(s))
    /\ UNCHANGED <<jobLock, row, rpc, hpc, wpc, eventVars, lost, inflight, base,
                   sweepVars, historyVars, smooth, faults>>

\* db.commit(), or a dry run, an error, a lost connection: nothing is written.
SyncEnd(s) ==
    /\ spc[s] = "working"
    /\ Commit(s) \/ UNCHANGED log
    /\ spc' = [spc EXCEPT ![s] = "done"]
    /\ Leave(Sync(s))
    /\ UNCHANGED <<jobLock, row, rpc, hpc, wpc, eventVars, workVars, sweepVars, asked,
                   smooth, faults>>

-----------------------------------------------------------------------------
(* The sweep: recover_abandoned_jobs, at start-up and every interval.  Age *)
(* only selects candidates, so any running row may be one.                 *)

SweepList(k) ==
    /\ swpc[k] = "idle"
    /\ \E j \in Jobs : row[j] = "running"
    /\ swpc' = [swpc EXCEPT ![k] = "listing"]
    /\ candidates' = [candidates EXCEPT ![k] = {j \in Jobs : row[j] = "running"}]
    /\ UNCHANGED <<lockVars, jobLock, row, rpc, hpc, wpc, eventVars, workVars, spc,
                   target, historyVars, smooth, faults>>

\* try_job_lock: a job whose lock is taken is still somebody's.
SweepClaim(k) ==
    /\ swpc[k] = "listing"
    /\ \E j \in candidates[k] :
         /\ candidates' = [candidates EXCEPT ![k] = @ \ {j}]
         /\ IF jobLock[j] = Free
              THEN /\ jobLock' = [jobLock EXCEPT ![j] = Sweep(k)]
                   /\ target' = [target EXCEPT ![k] = j]
                   /\ swpc' = [swpc EXCEPT ![k] = "claimed"]
              ELSE UNCHANGED <<jobLock, target, swpc>>
    /\ UNCHANGED <<lockVars, row, rpc, hpc, wpc, eventVars, workVars, spc,
                   historyVars, smooth, faults>>

\* acquire_import_lock; on 409 the candidate's session ends with its job lock.
SweepLock(k) ==
    /\ swpc[k] = "claimed"
    /\ IF owner = Free
         THEN /\ Take(Sweep(k))
              /\ swpc' = [swpc EXCEPT ![k] = "locked"]
              /\ UNCHANGED <<jobLock, target>>
         ELSE /\ swpc' = [swpc EXCEPT ![k] = "listing"]
              /\ jobLock' = [jobLock EXCEPT ![target[k]] = Free]
              /\ target' = [target EXCEPT ![k] = Free]
              /\ UNCHANGED lockVars
    /\ UNCHANGED <<row, rpc, hpc, wpc, eventVars, workVars, spc, candidates,
                   historyVars, smooth, faults>>

\* The row is read again FOR UPDATE (skip_locked) and failed when still running.
SweepFail(k) ==
    /\ swpc[k] = "locked"
    /\ MarkFailed(target[k])
    /\ Leave(Sweep(k))
    /\ jobLock' = [jobLock EXCEPT ![target[k]] = Free]
    /\ target' = [target EXCEPT ![k] = Free]
    /\ swpc' = [swpc EXCEPT ![k] = "listing"]
    /\ UNCHANGED <<rpc, hpc, wpc, eventVars, workVars, spc, candidates, historyVars,
                   smooth, faults>>

SweepEnd(k) ==
    /\ swpc[k] = "listing"
    /\ candidates[k] = {}
    /\ swpc' = [swpc EXCEPT ![k] = "idle"]
    /\ UNCHANGED <<lockVars, jobLock, row, rpc, hpc, wpc, eventVars, workVars, spc,
                   candidates, target, historyVars, smooth, faults>>

-----------------------------------------------------------------------------
\* The server restarts: every thread dies, and with it every session, lock and
\* open transaction, except the COMMITs already sent.
Restart ==
    /\ Fault
    /\ owner' = IF \E j \in inflight : owner = Worker(j) THEN owner ELSE Free
    /\ waiters' = {}
    /\ jobLock' = [j \in Jobs |-> IF j \in inflight THEN jobLock[j] ELSE Free]
    /\ rpc' = [j \in Jobs |-> IF rpc[j] \in {"idle", "returned", "rejected"}
                               THEN rpc[j] ELSE "failed"]
    /\ hpc' = [j \in Jobs |-> IF hpc[j] = "none" THEN "none" ELSE "done"]
    /\ wpc' = [j \in Jobs |-> IF wpc[j] = "none" THEN "none" ELSE "done"]
    /\ spc' = [s \in Syncs |-> IF spc[s] \in {"idle", "rejected"}
                                THEN spc[s] ELSE "done"]
    /\ swpc' = [k \in Sweepers |-> "idle"]
    /\ candidates' = [k \in Sweepers |-> {}]
    /\ target' = [k \in Sweepers |-> Free]
    /\ UNCHANGED <<row, eventVars, workVars, historyVars, smooth>>

\* A request's thread always runs on: its waits have deadlines.
RequestStep(j) ==
    \/ RequestRefused(j) \/ StartWorker(j) \/ StartHolder(j) \/ StartJob(j)
    \/ Dispatch(j) \/ Return(j) \/ LaunchFails(j) \/ RecordLaunchFailure(j)

HolderStep(j) == HolderBlock(j) \/ HolderHeld(j) \/ HolderRelease(j)

WorkerStep(j) ==
    \/ WorkerOwn(j) \/ WorkerWake(j) \/ WorkerBegin(j) \/ WorkReacquire(j)
    \/ WorkDone(j) \/ WorkerCommit(j) \/ WorkReplay(j) \/ WorkFails(j)
    \/ RecordFailure(j) \/ WorkerClose(j)

SyncStep(s) == SyncReplay(s) \/ SyncEnd(s) \/ (spc[s] = "replaying" /\ SyncLock(s))

SweepStep(k) == SweepList(k) \/ SweepClaim(k) \/ SweepLock(k) \/ SweepFail(k)
                    \/ SweepEnd(k)

Next ==
    \/ \E j \in Jobs :
         \/ RequestLock(j) \/ RequestStep(j) \/ HolderStep(j) \/ HolderLost(j)
         \/ WorkerStep(j) \/ CommitResolves(j) \/ WorkerLost(j)
    \/ \E s \in Syncs : SyncLock(s) \/ SyncStep(s)
    \/ \E k \in Sweepers : SweepStep(k)
    \/ Restart

Spec == Init /\ [][Next]_vars

\* Threads are scheduled, Postgres resolves a COMMIT, and the recovery loop
\* comes round again.  Clients and faults promise nothing.  A sweep that finds
\* the import lock taken gives the candidate up until the next round.
Fairness ==
    /\ \A j \in Jobs : /\ WF_vars(RequestStep(j)) /\ WF_vars(HolderStep(j))
                       /\ WF_vars(WorkerStep(j)) /\ WF_vars(CommitResolves(j))
    /\ \A s \in Syncs : WF_vars(SyncStep(s))
    /\ \A k \in Sweepers : WF_vars(SweepStep(k))

FairSpec == Spec /\ Fairness

-----------------------------------------------------------------------------
\* Every committed import or undo was computed from the state all earlier ones
\* left: none is lost or overwritten by a transaction that started before it
\* (the import lock of import_lock.py, kept across threads and replays).
Serialized == \A i \in 1..Len(log) : log[i].seen = i - 1

\* A job's row tells the truth about its data: completed exactly when its
\* writes are in (a dry run's never are), so a job reported failed or
\* interrupted changed nothing (run_job, recover_abandoned_jobs).
Applied(j) == \E i \in 1..Len(log) : log[i].by = j
OutcomeTruthful ==
    \A j \in Jobs :
        /\ Applied(j) => row[j] = "completed"
        /\ row[j] = "completed" => (Applied(j) <=> j \notin DryRuns)

\* The overwrite gap stays closed: when every handoff met its deadlines, no
\* write slips in between the request that validated a job and the job's own
\* (launch_job).  A replayed undo re-plans on the newer state instead.
NoOverwriteGap ==
    smooth =>
        \A i \in 1..Len(log) :
            log[i].by \in Jobs /\ attempt[log[i].by] = 1
                => asked[log[i].by] = log[i].seen

\* A job's outcome never changes again: not by the sweep, a late failure record
\* or a COMMIT resolved after its thread died.
OutcomeFinal ==
    [][\A j \in Jobs : row[j] \in Terminal => row'[j] = row[j]]_row

\* Every job a client may poll ends, whatever dies on the way.
JobsEnd == \A j \in Jobs : row[j] = "running" ~> row[j] \in Terminal

\* The whole machinery of locks, threads and sweeps implements the contract of
\* JobLifecycle: every accepted job is one atomic write or none.
Lifecycle == INSTANCE JobLifecycle WITH status <- row, writes <- log
JobsAreAtomic == Lifecycle!Spec

\* No thread keeps the project locked: imports become possible again.
LockComesFree == []<>(owner = Free)
=============================================================================
