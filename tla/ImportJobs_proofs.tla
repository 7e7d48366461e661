-------------------------- MODULE ImportJobs_proofs ---------------------------
(***************************************************************************)
(* Type correctness of ImportJobs, and its safety: imports are serialized, *)
(* a job's row tells the truth about its data, outcomes are final, the     *)
(* machinery implements JobLifecycle, and the hand-over of the import lock *)
(* leaves no gap; for any sets of jobs, synchronous writes and sweepers,   *)
(* and any number of faults.  Then Settings, whose changes meet imports at *)
(* the same lock: texts stay in the base language of their project, for    *)
(* any clients, requests, languages and strings.                           *)
(***************************************************************************)
EXTENDS ImportJobs, Settings, TLAPS

\* Steps of a worker that has been told to go and whose connection is alive.
Live == {"waiting", "working", "replaying", "worked", "drained", "committing"}

\* Steps of a request that has not yet set its worker's execute event.
PreDispatch == {"idle", "locked", "readying", "handing", "committed", "recording"}

\* Transactions that hold computed but uncommitted writes.
Writing(w) ==
    \/ w \in Jobs /\ wpc[w] \in {"working", "worked"}
    \/ w \in Jobs /\ w \in inflight /\ w \notin DryRuns
    \/ w \in Syncs /\ spc[w] = "working"

SessionOf(w) == IF w \in Jobs THEN Worker(w) ELSE Sync(w)

\* A writer owns the import lock, so nobody committed since it began.
WritersOwn == \A w \in Writers : Writing(w) => owner = SessionOf(w)
WritersFresh == \A w \in Writers : Writing(w) => base[w] = Len(log)

\* The job lock is the worker's for as long as its work may still commit.
WorkersOwn ==
    \A j \in Jobs :
        /\ wpc[j] \in Live => j \notin lost /\ j \in execute
        /\ wpc[j] \in {"none", "connecting"} => j \notin lost
        /\ wpc[j] \in Live => jobLock[j] = Worker(j)
        /\ wpc[j] = "owned" /\ j \notin lost => jobLock[j] = Worker(j)
SweepsOwn ==
    \A k \in Sweepers :
        swpc[k] \in {"claimed", "locked"} =>
            target[k] \in Jobs /\ jobLock[target[k]] = Sweep(k)

\* A COMMIT in flight: nobody else can have touched the job's row.
InFlight ==
    \A j \in Jobs :
        /\ wpc[j] = "drained" => j \in DryRuns
        /\ wpc[j] = "committing" => j \in inflight
        /\ j \in inflight =>
            /\ wpc[j] \in {"committing", "failing", "closing", "done"}
            /\ jobLock[j] = Worker(j)
            /\ row[j] = "running"
            /\ j \in execute

\* Before dispatch the worker waits; before start_job there is no row.
Launching ==
    \A j \in Jobs :
        /\ rpc[j] \in PreDispatch => j \notin execute
        /\ rpc[j] \in {"idle", "locked", "readying", "handing"} => row[j] = "none"
        /\ rpc[j] \in {"idle", "locked"} => wpc[j] = "none"

\* A synchronous write is in the log only once its request is over.
SyncsOnce ==
    \A s \in Syncs : \A i \in 1..Len(log) : log[i].by = s => spc[s] = "done"

IInv ==
    /\ TypeOK
    /\ WritersOwn /\ WritersFresh
    /\ WorkersOwn /\ SweepsOwn /\ InFlight /\ Launching
    /\ SyncsOnce /\ Serialized /\ OutcomeTruthful

-----------------------------------------------------------------------------
\* Distinct threads have distinct sessions.
LEMMA SessionFacts ==
    /\ Free \notin Sessions
    /\ \A j \in Jobs : /\ Request(j) \in Sessions
                       /\ Holder(j) \in Sessions
                       /\ Worker(j) \in Sessions
    /\ \A s \in Syncs : Sync(s) \in Sessions
    /\ \A k \in Sweepers : Sweep(k) \in Sessions
  BY DEF Sessions, Request, Holder, Worker, Sync, Sweep, Free

\* A session that leaves changes the owner only when it owns the lock.
LEMMA LeaveFacts ==
    ASSUME NEW a \in Sessions, TypeOK, Leave(a)
    PROVE  /\ owner' \in Sessions \cup {Free}
           /\ waiters' \subseteq Sessions
           /\ owner # a => owner' = owner
  BY DEF TypeOK, Leave, PassOn

\* A session that blocks changes the owner only when the lock is free.
LEMMA BlockFacts ==
    ASSUME NEW a \in Sessions, TypeOK, Block(a)
    PROVE  /\ owner' \in Sessions \cup {Free}
           /\ waiters' \subseteq Sessions
           /\ owner # Free => owner' = owner
  BY DEF TypeOK, Block, Take

\* A fault is counted within its bound.
LEMMA FaultFacts == TypeOK /\ Fault => faults' \in FaultCounts
  BY JobsAssumption DEF TypeOK, Fault, FaultCounts

\* A transaction that begins has seen all writes so far.
LEMMA LengthFacts == TypeOK => Len(log) \in Nat
  BY DEF TypeOK, Logs

\* Observing keeps base typed and leaves the other transactions' snapshots alone.
LEMMA BaseFacts ==
    ASSUME TypeOK, NEW w \in Writers,
           base' = [base EXCEPT ![w] = Len(log)] \/ base' = base
    PROVE  base' \in [Writers -> Nat]
  BY LengthFacts DEF TypeOK

\* Marking a job failed touches only a running row, and only the job's own.
LEMMA MarkFailedFacts ==
    ASSUME NEW j, TypeOK, MarkFailed(j)
    PROVE  /\ row' \in [Jobs -> Status]
           /\ \A i \in Jobs :
                row'[i] # row[i] => i = j /\ row[i] = "running" /\ row'[i] = "failed"
  BY DEF TypeOK, MarkFailed, Status

\* A commit appends one write and keeps the earlier ones.
LEMMA CommitFacts ==
    ASSUME NEW w \in Writers, TypeOK, Commit(w)
    PROVE  /\ log' \in Logs
           /\ Len(log') = Len(log) + 1
           /\ \A i \in 1..Len(log) : log'[i] = log[i]
           /\ log'[Len(log) + 1].by = w
           /\ log'[Len(log) + 1].seen = base[w]
           /\ \A i \in 1..Len(log') : i \in 1..Len(log) \/ i = Len(log) + 1
  BY DEF TypeOK, Commit, Logs

\* Every step keeps the types.
LEMMA TypeStep == TypeOK /\ [Next]_vars => TypeOK'
  <1> SUFFICES ASSUME TypeOK, [Next]_vars
               PROVE  TypeOK'
    OBVIOUS
  <1> USE JobsAssumption
      DEF TypeOK, RequestSteps, HolderSteps, WorkerSteps, SyncSteps, SweepSteps, Status,
          Writers, lockVars, eventVars, workVars, sweepVars, historyVars
  <1>1. ASSUME NEW j \in Jobs, RequestLock(j)
        PROVE  TypeOK'
    <2>1. asked' \in [Jobs -> Nat]
      BY <1>1, LengthFacts DEF RequestLock
    <2>2. owner' \in Sessions \cup {Free} /\ waiters' \subseteq Sessions
      BY <1>1, SessionFacts, LeaveFacts DEF RequestLock, Take
    <2>3. QED
      BY <1>1, <2>1, <2>2 DEF RequestLock, Take
  <1>2. ASSUME NEW j \in Jobs, RequestRefused(j)
        PROVE  TypeOK'
    BY <1>2, SessionFacts, LeaveFacts DEF RequestRefused
  <1>3. ASSUME NEW j \in Jobs, StartWorker(j)
        PROVE  TypeOK'
    BY <1>3, SessionFacts DEF StartWorker
  <1>4. ASSUME NEW j \in Jobs, StartHolder(j)
        PROVE  TypeOK'
    BY <1>4, SessionFacts DEF StartHolder
  <1>5. ASSUME NEW j \in Jobs, StartJob(j)
        PROVE  TypeOK'
    BY <1>5, SessionFacts, LeaveFacts DEF StartJob, ImportLockWaiting
  <1>6. ASSUME NEW j \in Jobs, Dispatch(j)
        PROVE  TypeOK'
    BY <1>6, SessionFacts DEF Dispatch
  <1>7. ASSUME NEW j \in Jobs, Return(j)
        PROVE  TypeOK'
    BY <1>7, SessionFacts, FaultFacts DEF Return, ImportLockWaiting
  <1>8. ASSUME NEW j \in Jobs, LaunchFails(j)
        PROVE  TypeOK'
    BY <1>8, SessionFacts, FaultFacts, LeaveFacts, ZenonT(30) DEF LaunchFails
  <1>9. ASSUME NEW j \in Jobs, RecordLaunchFailure(j)
        PROVE  TypeOK'
    BY <1>9, SessionFacts, FaultFacts, MarkFailedFacts DEF RecordLaunchFailure
  <1>10. ASSUME NEW j \in Jobs, HolderBlock(j)
        PROVE  TypeOK'
    BY <1>10, SessionFacts, LeaveFacts, BlockFacts DEF HolderBlock
  <1>11. ASSUME NEW j \in Jobs, HolderHeld(j)
        PROVE  TypeOK'
    BY <1>11, SessionFacts DEF HolderHeld
  <1>12. ASSUME NEW j \in Jobs, HolderRelease(j)
        PROVE  TypeOK'
    BY <1>12, SessionFacts, LeaveFacts DEF HolderRelease
  <1>13. ASSUME NEW j \in Jobs, HolderLost(j)
        PROVE  TypeOK'
    BY <1>13, SessionFacts, FaultFacts, LeaveFacts DEF HolderLost
  <1>14. ASSUME NEW j \in Jobs, WorkerOwn(j)
        PROVE  TypeOK'
    BY <1>14, SessionFacts, FaultFacts DEF WorkerOwn
  <1>15. ASSUME NEW j \in Jobs, WorkerWake(j)
        PROVE  TypeOK'
    BY <1>15, SessionFacts, LeaveFacts, BlockFacts DEF WorkerWake
  <1>16. ASSUME NEW j \in Jobs, WorkerBegin(j)
        PROVE  TypeOK'
    <2>1. base' = [base EXCEPT ![j] = Len(log)] \/ base' = base
      BY <1>16 DEF WorkerBegin, Observe
    <2>2. base' \in [Writers -> Nat]
      BY <2>1, BaseFacts
    <2>3. owner' \in Sessions \cup {Free} /\ waiters' \subseteq Sessions
      BY <1>16, SessionFacts, LeaveFacts DEF WorkerBegin, Observe, Take
    <2>4. QED
      BY <1>16, <2>2, <2>3 DEF WorkerBegin, Observe
  <1>17. ASSUME NEW j \in Jobs, WorkReplay(j)
        PROVE  TypeOK'
    BY <1>17, SessionFacts, LeaveFacts DEF WorkReplay
  <1>18. ASSUME NEW j \in Jobs, WorkReacquire(j)
        PROVE  TypeOK'
    <2>1. base' = [base EXCEPT ![j] = Len(log)] \/ base' = base
      BY <1>18 DEF WorkReacquire, Observe
    <2>2. base' \in [Writers -> Nat]
      BY <2>1, BaseFacts
    <2>3. owner' \in Sessions \cup {Free} /\ waiters' \subseteq Sessions
      BY <1>18, SessionFacts, LeaveFacts DEF WorkReacquire, Observe, Take
    <2>4. QED
      BY <1>18, <2>2, <2>3, ZenonT(30) DEF WorkReacquire, Observe, Take
  <1>19. ASSUME NEW j \in Jobs, WorkDone(j)
        PROVE  TypeOK'
    BY <1>19, SessionFacts, LeaveFacts DEF WorkDone
  <1>20. ASSUME NEW j \in Jobs, WorkFails(j)
        PROVE  TypeOK'
    BY <1>20, SessionFacts, LeaveFacts DEF WorkFails
  <1>21. ASSUME NEW j \in Jobs, WorkerCommit(j)
        PROVE  TypeOK'
    BY <1>21, SessionFacts, LeaveFacts DEF WorkerCommit
  <1>22. ASSUME NEW j \in Jobs, CommitResolves(j)
        PROVE  TypeOK'
    <2>1. row' \in [Jobs -> Status]
      BY <1>22 DEF CommitResolves
    <2>2. log' \in Logs
      BY <1>22, CommitFacts DEF CommitResolves
    <2>3. QED
      BY <1>22, <2>1, <2>2, SessionFacts, LeaveFacts DEF CommitResolves
  <1>23. ASSUME NEW j \in Jobs, RecordFailure(j)
        PROVE  TypeOK'
    BY <1>23, SessionFacts, FaultFacts, MarkFailedFacts DEF RecordFailure
  <1>24. ASSUME NEW j \in Jobs, WorkerClose(j)
        PROVE  TypeOK'
    BY <1>24, SessionFacts DEF WorkerClose
  <1>25. ASSUME NEW j \in Jobs, WorkerLost(j)
        PROVE  TypeOK'
    BY <1>25, SessionFacts, FaultFacts, LeaveFacts DEF WorkerLost
  <1>26. ASSUME NEW s \in Syncs, SyncLock(s)
        PROVE  TypeOK'
    <2>1. base' = [base EXCEPT ![s] = Len(log)] \/ base' = base
      BY <1>26 DEF SyncLock, Observe
    <2>2. base' \in [Writers -> Nat]
      BY <2>1, BaseFacts
    <2>3. owner' \in Sessions \cup {Free} /\ waiters' \subseteq Sessions
      BY <1>26, SessionFacts, LeaveFacts DEF SyncLock, Observe, Take
    <2>4. QED
      BY <1>26, <2>2, <2>3 DEF SyncLock, Observe, Take
  <1>27. ASSUME NEW s \in Syncs, SyncReplay(s)
        PROVE  TypeOK'
    BY <1>27, SessionFacts, LeaveFacts DEF SyncReplay
  <1>28. ASSUME NEW s \in Syncs, SyncEnd(s)
        PROVE  TypeOK'
    BY <1>28, SessionFacts, CommitFacts, LeaveFacts DEF SyncEnd
  <1>29. ASSUME NEW k \in Sweepers, SweepList(k)
        PROVE  TypeOK'
    BY <1>29, SessionFacts DEF SweepList
  <1>30. ASSUME NEW k \in Sweepers, SweepClaim(k)
        PROVE  TypeOK'
    BY <1>30, SessionFacts DEF SweepClaim
  <1>31. ASSUME NEW k \in Sweepers, SweepLock(k)
        PROVE  TypeOK'
    BY <1>31, SessionFacts, LeaveFacts DEF SweepLock, Take
  <1>32. ASSUME NEW k \in Sweepers, SweepFail(k)
        PROVE  TypeOK'
    BY <1>32, SessionFacts, MarkFailedFacts, LeaveFacts DEF SweepFail
  <1>33. ASSUME NEW k \in Sweepers, SweepEnd(k)
        PROVE  TypeOK'
    BY <1>33, SessionFacts DEF SweepEnd
  <1>34. CASE Restart
    BY <1>34, SessionFacts, FaultFacts DEF Restart
  <1>35. CASE UNCHANGED vars
    BY <1>35 DEF vars
  <1>36. QED
    BY <1>1, <1>2, <1>3, <1>4, <1>5, <1>6, <1>7, <1>8, <1>9, <1>10, <1>11, <1>12,
       <1>13, <1>14, <1>15, <1>16, <1>17, <1>18, <1>19, <1>20, <1>21, <1>22, <1>23,
       <1>24, <1>25, <1>26, <1>27, <1>28, <1>29, <1>30, <1>31, <1>32, <1>33, <1>34,
       <1>35
       DEF Next, RequestStep, HolderStep, WorkerStep, SyncStep, SweepStep

\* Type correctness of ImportJobs.
THEOREM TypeCorrect == Spec => []TypeOK
  <1>1. Init => TypeOK
    BY JobsAssumption DEF Init, TypeOK, RequestSteps, HolderSteps, WorkerSteps,
       SyncSteps, SweepSteps, Status, Writers, Logs, FaultCounts
  <1>2. QED
    BY <1>1, TypeStep, PTL DEF Spec

-----------------------------------------------------------------------------
\* No two roles share a session.
LEMMA SessionsDiffer ==
    /\ \A i, j \in Jobs : Worker(i) = Worker(j) => i = j
    /\ \A i, j \in Jobs : Worker(i) # Request(j) /\ Worker(i) # Holder(j)
    /\ \A j \in Jobs : Worker(j) # Free
    /\ \A j \in Jobs, s \in Syncs : Worker(j) # Sync(s)
    /\ \A j \in Jobs, k \in Sweepers : Worker(j) # Sweep(k)
    /\ \A s \in Syncs, j \in Jobs : Sync(s) # Request(j) /\ Sync(s) # Holder(j)
    /\ \A s \in Syncs : Sync(s) # Free
    /\ \A s, t \in Syncs : Sync(s) = Sync(t) => s = t
    /\ \A s \in Syncs, k \in Sweepers : Sync(s) # Sweep(k)
    /\ \A k, l \in Sweepers : Sweep(k) = Sweep(l) => k = l
    /\ \A k \in Sweepers : Sweep(k) # Free
  BY DEF Request, Holder, Worker, Sync, Sweep, Free

\* The job lock, the rows and the events of one launch keep in step.
LEMMA JobsOwnStep ==
    ASSUME TypeOK, WorkersOwn, SweepsOwn, InFlight, Launching, [Next]_vars
    PROVE  (WorkersOwn /\ SweepsOwn /\ InFlight /\ Launching)'
  <1> DEFINE JInv == WorkersOwn /\ SweepsOwn /\ InFlight /\ Launching
  <1> SUFFICES JInv'
    OBVIOUS
  <1> USE DEF TypeOK, WorkersOwn, SweepsOwn, InFlight, Launching, Live, PreDispatch,
          lockVars, eventVars, workVars, sweepVars, historyVars
  <1>1. ASSUME NEW j \in Jobs, RequestLock(j)
        PROVE  JInv'
    BY <1>1, SessionsDiffer DEF RequestLock, Take
  <1>2. ASSUME NEW j \in Jobs, RequestRefused(j)
        PROVE  JInv'
    BY <1>2, SessionsDiffer DEF RequestRefused
  <1>3. ASSUME NEW j \in Jobs, StartWorker(j)
        PROVE  JInv'
    BY <1>3, SessionsDiffer DEF StartWorker
  <1>4. ASSUME NEW j \in Jobs, StartHolder(j)
        PROVE  JInv'
    BY <1>4, SessionsDiffer DEF StartHolder
  <1>5. ASSUME NEW j \in Jobs, StartJob(j)
        PROVE  JInv'
    BY <1>5, SessionsDiffer DEF StartJob, ImportLockWaiting
  <1>6. ASSUME NEW j \in Jobs, Dispatch(j)
        PROVE  JInv'
    BY <1>6, SessionsDiffer DEF Dispatch
  <1>7. ASSUME NEW j \in Jobs, Return(j)
        PROVE  JInv'
    BY <1>7, SessionsDiffer DEF Return, ImportLockWaiting
  <1>8. ASSUME NEW j \in Jobs, LaunchFails(j)
        PROVE  JInv'
    BY <1>8, SessionsDiffer DEF LaunchFails
  <1>9. ASSUME NEW j \in Jobs, RecordLaunchFailure(j)
        PROVE  JInv'
    BY <1>9, SessionsDiffer, MarkFailedFacts, SMTT(30) DEF RecordLaunchFailure
  <1>10. ASSUME NEW j \in Jobs, HolderBlock(j)
        PROVE  JInv'
    BY <1>10, SessionsDiffer DEF HolderBlock
  <1>11. ASSUME NEW j \in Jobs, HolderHeld(j)
        PROVE  JInv'
    BY <1>11, SessionsDiffer DEF HolderHeld
  <1>12. ASSUME NEW j \in Jobs, HolderRelease(j)
        PROVE  JInv'
    BY <1>12, SessionsDiffer DEF HolderRelease
  <1>13. ASSUME NEW j \in Jobs, HolderLost(j)
        PROVE  JInv'
    BY <1>13, SessionsDiffer DEF HolderLost
  <1>14. ASSUME NEW j \in Jobs, WorkerOwn(j)
        PROVE  JInv'
    BY <1>14, SessionsDiffer DEF WorkerOwn
  <1>15. ASSUME NEW j \in Jobs, WorkerWake(j)
        PROVE  JInv'
    BY <1>15, SessionsDiffer DEF WorkerWake
  <1>16. ASSUME NEW j \in Jobs, WorkerBegin(j)
        PROVE  JInv'
    BY <1>16, SessionsDiffer, ZenonT(30) DEF WorkerBegin, Observe
  <1>17. ASSUME NEW j \in Jobs, WorkReplay(j)
        PROVE  JInv'
    BY <1>17, SessionsDiffer DEF WorkReplay
  <1>18. ASSUME NEW j \in Jobs, WorkReacquire(j)
        PROVE  JInv'
    BY <1>18, SessionsDiffer, ZenonT(30) DEF WorkReacquire, Observe, Take
  <1>19. ASSUME NEW j \in Jobs, WorkDone(j)
        PROVE  JInv'
    BY <1>19, SessionsDiffer DEF WorkDone
  <1>20. ASSUME NEW j \in Jobs, WorkFails(j)
        PROVE  JInv'
    BY <1>20, SessionsDiffer DEF WorkFails
  <1>21. ASSUME NEW j \in Jobs, WorkerCommit(j)
        PROVE  JInv'
    BY <1>21, SessionsDiffer DEF WorkerCommit
  <1>22. ASSUME NEW j \in Jobs, CommitResolves(j)
        PROVE  JInv'
    BY <1>22, SessionsDiffer DEF CommitResolves
  <1>23. ASSUME NEW j \in Jobs, RecordFailure(j)
        PROVE  JInv'
    BY <1>23, SessionsDiffer, MarkFailedFacts, SMTT(30) DEF RecordFailure
  <1>24. ASSUME NEW j \in Jobs, WorkerClose(j)
        PROVE  JInv'
    BY <1>24, SessionsDiffer DEF WorkerClose
  <1>25. ASSUME NEW j \in Jobs, WorkerLost(j)
        PROVE  JInv'
    BY <1>25, SessionsDiffer DEF WorkerLost
  <1>26. ASSUME NEW s \in Syncs, SyncLock(s)
        PROVE  JInv'
    BY <1>26, SessionsDiffer DEF SyncLock, Observe, Take
  <1>27. ASSUME NEW s \in Syncs, SyncReplay(s)
        PROVE  JInv'
    BY <1>27, SessionsDiffer DEF SyncReplay
  <1>28. ASSUME NEW s \in Syncs, SyncEnd(s)
        PROVE  JInv'
    BY <1>28, SessionsDiffer DEF SyncEnd
  <1>29. ASSUME NEW k \in Sweepers, SweepList(k)
        PROVE  JInv'
    BY <1>29, SessionsDiffer DEF SweepList
  <1>30. ASSUME NEW k \in Sweepers, SweepClaim(k)
        PROVE  JInv'
    BY <1>30, SessionsDiffer DEF SweepClaim
  <1>31. ASSUME NEW k \in Sweepers, SweepLock(k)
        PROVE  JInv'
    BY <1>31, SessionsDiffer DEF SweepLock, Take
  <1>32. ASSUME NEW k \in Sweepers, SweepFail(k)
        PROVE  JInv'
    BY <1>32, SessionsDiffer, MarkFailedFacts DEF SweepFail
  <1>33. ASSUME NEW k \in Sweepers, SweepEnd(k)
        PROVE  JInv'
    BY <1>33, SessionsDiffer DEF SweepEnd
  <1>34. CASE Restart
    BY <1>34, SessionsDiffer DEF Restart
  <1>35. CASE UNCHANGED vars
    BY <1>35, SessionsDiffer DEF vars
  <1>36. QED
    BY <1>1, <1>2, <1>3, <1>4, <1>5, <1>6, <1>7, <1>8, <1>9, <1>10, <1>11, <1>12,
       <1>13, <1>14, <1>15, <1>16, <1>17, <1>18, <1>19, <1>20, <1>21, <1>22, <1>23,
       <1>24, <1>25, <1>26, <1>27, <1>28, <1>29, <1>30, <1>31, <1>32, <1>33, <1>34,
       <1>35
       DEF Next, RequestStep, HolderStep, WorkerStep, SyncStep, SweepStep

\* Whoever has computed writes keeps the import lock.
LEMMA WritersOwnStep ==
    ASSUME TypeOK, InFlight, WritersOwn, [Next]_vars
    PROVE  WritersOwn'
  <1> USE JobsAssumption
      DEF TypeOK, WritersOwn, Writing, SessionOf, InFlight, Writers,
          lockVars, eventVars, workVars, sweepVars, historyVars
  <1>1. ASSUME NEW j \in Jobs, RequestLock(j)
        PROVE  WritersOwn'
    BY <1>1, SessionsDiffer, SessionFacts, LeaveFacts DEF RequestLock, Take
  <1>2. ASSUME NEW j \in Jobs, RequestRefused(j)
        PROVE  WritersOwn'
    BY <1>2, SessionsDiffer, SessionFacts, LeaveFacts DEF RequestRefused
  <1>3. ASSUME NEW j \in Jobs, StartWorker(j)
        PROVE  WritersOwn'
    BY <1>3, SessionsDiffer, SessionFacts DEF StartWorker
  <1>4. ASSUME NEW j \in Jobs, StartHolder(j)
        PROVE  WritersOwn'
    BY <1>4, SessionsDiffer, SessionFacts DEF StartHolder
  <1>5. ASSUME NEW j \in Jobs, StartJob(j)
        PROVE  WritersOwn'
    BY <1>5, SessionsDiffer, SessionFacts, LeaveFacts DEF StartJob, ImportLockWaiting
  <1>6. ASSUME NEW j \in Jobs, Dispatch(j)
        PROVE  WritersOwn'
    BY <1>6, SessionsDiffer, SessionFacts DEF Dispatch
  <1>7. ASSUME NEW j \in Jobs, Return(j)
        PROVE  WritersOwn'
    BY <1>7, SessionsDiffer, SessionFacts DEF Return, ImportLockWaiting
  <1>8. ASSUME NEW j \in Jobs, LaunchFails(j)
        PROVE  WritersOwn'
    BY <1>8, SessionsDiffer, SessionFacts, LeaveFacts DEF LaunchFails
  <1>9. ASSUME NEW j \in Jobs, RecordLaunchFailure(j)
        PROVE  WritersOwn'
    BY <1>9, SessionsDiffer, SessionFacts DEF RecordLaunchFailure
  <1>10. ASSUME NEW j \in Jobs, HolderBlock(j)
        PROVE  WritersOwn'
    BY <1>10, SessionsDiffer, SessionFacts, LeaveFacts, BlockFacts DEF HolderBlock
  <1>11. ASSUME NEW j \in Jobs, HolderHeld(j)
        PROVE  WritersOwn'
    BY <1>11, SessionsDiffer, SessionFacts DEF HolderHeld
  <1>12. ASSUME NEW j \in Jobs, HolderRelease(j)
        PROVE  WritersOwn'
    BY <1>12, SessionsDiffer, SessionFacts, LeaveFacts DEF HolderRelease
  <1>13. ASSUME NEW j \in Jobs, HolderLost(j)
        PROVE  WritersOwn'
    BY <1>13, SessionsDiffer, SessionFacts, LeaveFacts, SMTT(30) DEF HolderLost
  <1>14. ASSUME NEW j \in Jobs, WorkerOwn(j)
        PROVE  WritersOwn'
    BY <1>14, SessionsDiffer, SessionFacts DEF WorkerOwn
  <1>15. ASSUME NEW j \in Jobs, WorkerWake(j)
        PROVE  WritersOwn'
    BY <1>15, SessionsDiffer, SessionFacts, LeaveFacts, BlockFacts DEF WorkerWake
  <1>16. ASSUME NEW j \in Jobs, WorkerBegin(j)
        PROVE  WritersOwn'
    BY <1>16, SessionsDiffer, SessionFacts, LeaveFacts DEF WorkerBegin, Observe
  <1>17. ASSUME NEW j \in Jobs, WorkReplay(j)
        PROVE  WritersOwn'
    BY <1>17, SessionsDiffer, SessionFacts, LeaveFacts DEF WorkReplay
  <1>18. ASSUME NEW j \in Jobs, WorkReacquire(j)
        PROVE  WritersOwn'
    BY <1>18, SessionsDiffer, SessionFacts, LeaveFacts DEF WorkReacquire, Observe, Take
  <1>19. ASSUME NEW j \in Jobs, WorkDone(j)
        PROVE  WritersOwn'
    BY <1>19, SessionsDiffer, SessionFacts, LeaveFacts DEF WorkDone
  <1>20. ASSUME NEW j \in Jobs, WorkFails(j)
        PROVE  WritersOwn'
    BY <1>20, SessionsDiffer, SessionFacts, LeaveFacts DEF WorkFails
  <1>21. ASSUME NEW j \in Jobs, WorkerCommit(j)
        PROVE  WritersOwn'
    BY <1>21, SessionsDiffer, SessionFacts, LeaveFacts DEF WorkerCommit
  <1>22. ASSUME NEW j \in Jobs, CommitResolves(j)
        PROVE  WritersOwn'
    BY <1>22, SessionsDiffer, SessionFacts, LeaveFacts DEF CommitResolves
  <1>23. ASSUME NEW j \in Jobs, RecordFailure(j)
        PROVE  WritersOwn'
    BY <1>23, SessionsDiffer, SessionFacts DEF RecordFailure
  <1>24. ASSUME NEW j \in Jobs, WorkerClose(j)
        PROVE  WritersOwn'
    BY <1>24, SessionsDiffer, SessionFacts DEF WorkerClose
  <1>25. ASSUME NEW j \in Jobs, WorkerLost(j)
        PROVE  WritersOwn'
    BY <1>25, SessionsDiffer, SessionFacts, LeaveFacts DEF WorkerLost
  <1>26. ASSUME NEW s \in Syncs, SyncLock(s)
        PROVE  WritersOwn'
    BY <1>26, SessionsDiffer, SessionFacts, LeaveFacts DEF SyncLock, Observe, Take
  <1>27. ASSUME NEW s \in Syncs, SyncReplay(s)
        PROVE  WritersOwn'
    BY <1>27, SessionsDiffer, SessionFacts, LeaveFacts DEF SyncReplay
  <1>28. ASSUME NEW s \in Syncs, SyncEnd(s)
        PROVE  WritersOwn'
    BY <1>28, SessionsDiffer, SessionFacts, LeaveFacts DEF SyncEnd
  <1>29. ASSUME NEW k \in Sweepers, SweepList(k)
        PROVE  WritersOwn'
    BY <1>29, SessionsDiffer, SessionFacts DEF SweepList
  <1>30. ASSUME NEW k \in Sweepers, SweepClaim(k)
        PROVE  WritersOwn'
    BY <1>30, SessionsDiffer, SessionFacts DEF SweepClaim
  <1>31. ASSUME NEW k \in Sweepers, SweepLock(k)
        PROVE  WritersOwn'
    BY <1>31, SessionsDiffer, SessionFacts, LeaveFacts DEF SweepLock, Take
  <1>32. ASSUME NEW k \in Sweepers, SweepFail(k)
        PROVE  WritersOwn'
    BY <1>32, SessionsDiffer, SessionFacts, LeaveFacts, SMTT(30) DEF SweepFail
  <1>33. ASSUME NEW k \in Sweepers, SweepEnd(k)
        PROVE  WritersOwn'
    BY <1>33, SessionsDiffer, SessionFacts DEF SweepEnd
  <1>34. CASE Restart
    BY <1>34, SessionsDiffer, SessionFacts DEF Restart
  <1>35. CASE UNCHANGED vars
    BY <1>35, SessionsDiffer, SessionFacts DEF vars
  <1>36. QED
    BY <1>1, <1>2, <1>3, <1>4, <1>5, <1>6, <1>7, <1>8, <1>9, <1>10, <1>11, <1>12,
       <1>13, <1>14, <1>15, <1>16, <1>17, <1>18, <1>19, <1>20, <1>21, <1>22, <1>23,
       <1>24, <1>25, <1>26, <1>27, <1>28, <1>29, <1>30, <1>31, <1>32, <1>33, <1>34,
       <1>35
       DEF Next, RequestStep, HolderStep, WorkerStep, SyncStep, SweepStep

\* While it computes, nobody else commits.
LEMMA WritersFreshStep ==
    ASSUME TypeOK, InFlight, WritersOwn, WritersFresh, [Next]_vars
    PROVE  WritersFresh'
  <1> USE JobsAssumption
      DEF TypeOK, WritersOwn, WritersFresh, Writing, SessionOf, InFlight, Writers,
          lockVars, eventVars, workVars, sweepVars, historyVars
  <1>1. ASSUME NEW j \in Jobs, RequestLock(j)
        PROVE  WritersFresh'
    BY <1>1, SessionsDiffer, LengthFacts DEF RequestLock, Take
  <1>2. ASSUME NEW j \in Jobs, RequestRefused(j)
        PROVE  WritersFresh'
    BY <1>2, SessionsDiffer, LengthFacts DEF RequestRefused
  <1>3. ASSUME NEW j \in Jobs, StartWorker(j)
        PROVE  WritersFresh'
    BY <1>3, SessionsDiffer, LengthFacts DEF StartWorker
  <1>4. ASSUME NEW j \in Jobs, StartHolder(j)
        PROVE  WritersFresh'
    BY <1>4, SessionsDiffer, LengthFacts DEF StartHolder
  <1>5. ASSUME NEW j \in Jobs, StartJob(j)
        PROVE  WritersFresh'
    BY <1>5, SessionsDiffer, LengthFacts DEF StartJob, ImportLockWaiting
  <1>6. ASSUME NEW j \in Jobs, Dispatch(j)
        PROVE  WritersFresh'
    BY <1>6, SessionsDiffer, LengthFacts DEF Dispatch
  <1>7. ASSUME NEW j \in Jobs, Return(j)
        PROVE  WritersFresh'
    BY <1>7, SessionsDiffer, LengthFacts DEF Return, ImportLockWaiting
  <1>8. ASSUME NEW j \in Jobs, LaunchFails(j)
        PROVE  WritersFresh'
    BY <1>8, SessionsDiffer, LengthFacts DEF LaunchFails
  <1>9. ASSUME NEW j \in Jobs, RecordLaunchFailure(j)
        PROVE  WritersFresh'
    BY <1>9, SessionsDiffer, LengthFacts DEF RecordLaunchFailure
  <1>10. ASSUME NEW j \in Jobs, HolderBlock(j)
        PROVE  WritersFresh'
    BY <1>10, SessionsDiffer, LengthFacts DEF HolderBlock
  <1>11. ASSUME NEW j \in Jobs, HolderHeld(j)
        PROVE  WritersFresh'
    BY <1>11, SessionsDiffer, LengthFacts DEF HolderHeld
  <1>12. ASSUME NEW j \in Jobs, HolderRelease(j)
        PROVE  WritersFresh'
    BY <1>12, SessionsDiffer, LengthFacts DEF HolderRelease
  <1>13. ASSUME NEW j \in Jobs, HolderLost(j)
        PROVE  WritersFresh'
    BY <1>13, SessionsDiffer, LengthFacts DEF HolderLost
  <1>14. ASSUME NEW j \in Jobs, WorkerOwn(j)
        PROVE  WritersFresh'
    BY <1>14, SessionsDiffer, LengthFacts DEF WorkerOwn
  <1>15. ASSUME NEW j \in Jobs, WorkerWake(j)
        PROVE  WritersFresh'
    BY <1>15, SessionsDiffer, LengthFacts DEF WorkerWake
  <1>16. ASSUME NEW j \in Jobs, WorkerBegin(j)
        PROVE  WritersFresh'
    BY <1>16, SessionsDiffer, LengthFacts DEF WorkerBegin, Observe
  <1>17. ASSUME NEW j \in Jobs, WorkReplay(j)
        PROVE  WritersFresh'
    BY <1>17, SessionsDiffer, LengthFacts DEF WorkReplay
  <1>18. ASSUME NEW j \in Jobs, WorkReacquire(j)
        PROVE  WritersFresh'
    BY <1>18, SessionsDiffer, LengthFacts DEF WorkReacquire, Observe, Take
  <1>19. ASSUME NEW j \in Jobs, WorkDone(j)
        PROVE  WritersFresh'
    BY <1>19, SessionsDiffer, LengthFacts DEF WorkDone
  <1>20. ASSUME NEW j \in Jobs, WorkFails(j)
        PROVE  WritersFresh'
    BY <1>20, SessionsDiffer, LengthFacts DEF WorkFails
  <1>21. ASSUME NEW j \in Jobs, WorkerCommit(j)
        PROVE  WritersFresh'
    BY <1>21, SessionsDiffer, LengthFacts DEF WorkerCommit
  <1>22. ASSUME NEW j \in Jobs, CommitResolves(j)
        PROVE  WritersFresh'
    <2>1. CASE log' = log
      BY <1>22, <2>1, SessionsDiffer DEF CommitResolves, TypeOK, WritersFresh,
         Writing, InFlight, Writers
    <2>2. CASE log' # log
      <3>1. Writing(j) /\ owner = Worker(j)
        BY <1>22, <2>2 DEF CommitResolves, WritersOwn, Writing, SessionOf, Writers
      <3>2. \A w \in Writers : w # j => ~Writing(w)
        BY <3>1, SessionsDiffer DEF WritersOwn, SessionOf, Writers
      <3>3. j \in inflight /\ j \notin DryRuns /\ wpc[j] \notin {"working", "worked"}
        BY <1>22, <2>2 DEF CommitResolves
      <3>4. j \notin inflight' /\ wpc'[j] \notin {"working", "worked"}
        BY <1>22, <3>3 DEF CommitResolves
      <3>5. ASSUME NEW w \in Writers, w # j
            PROVE  ~Writing(w)'
        <4>1. inflight' = inflight \ {j} /\ spc' = spc
          BY <1>22 DEF CommitResolves
        <4>2. w \in Jobs => wpc'[w] = wpc[w]
          BY <1>22, <3>5 DEF CommitResolves
        <4>3. QED
          BY <3>2, <3>5, <4>1, <4>2
      <3>6. ~Writing(j)'
        BY <3>4
      <3>7. QED
        BY <3>5, <3>6
    <2>3. QED
      BY <2>1, <2>2
  <1>23. ASSUME NEW j \in Jobs, RecordFailure(j)
        PROVE  WritersFresh'
    BY <1>23, SessionsDiffer, LengthFacts DEF RecordFailure
  <1>24. ASSUME NEW j \in Jobs, WorkerClose(j)
        PROVE  WritersFresh'
    BY <1>24, SessionsDiffer, LengthFacts DEF WorkerClose
  <1>25. ASSUME NEW j \in Jobs, WorkerLost(j)
        PROVE  WritersFresh'
    BY <1>25, SessionsDiffer, LengthFacts DEF WorkerLost
  <1>26. ASSUME NEW s \in Syncs, SyncLock(s)
        PROVE  WritersFresh'
    BY <1>26, SessionsDiffer, LengthFacts DEF SyncLock, Observe, Take
  <1>27. ASSUME NEW s \in Syncs, SyncReplay(s)
        PROVE  WritersFresh'
    BY <1>27, SessionsDiffer, LengthFacts DEF SyncReplay
  <1>28. ASSUME NEW s \in Syncs, SyncEnd(s)
        PROVE  WritersFresh'
    BY <1>28, SessionsDiffer, LengthFacts, CommitFacts DEF SyncEnd
  <1>29. ASSUME NEW k \in Sweepers, SweepList(k)
        PROVE  WritersFresh'
    BY <1>29, SessionsDiffer, LengthFacts DEF SweepList
  <1>30. ASSUME NEW k \in Sweepers, SweepClaim(k)
        PROVE  WritersFresh'
    BY <1>30, SessionsDiffer, LengthFacts DEF SweepClaim
  <1>31. ASSUME NEW k \in Sweepers, SweepLock(k)
        PROVE  WritersFresh'
    BY <1>31, SessionsDiffer, LengthFacts DEF SweepLock, Take
  <1>32. ASSUME NEW k \in Sweepers, SweepFail(k)
        PROVE  WritersFresh'
    BY <1>32, SessionsDiffer, LengthFacts DEF SweepFail
  <1>33. ASSUME NEW k \in Sweepers, SweepEnd(k)
        PROVE  WritersFresh'
    BY <1>33, SessionsDiffer, LengthFacts DEF SweepEnd
  <1>34. CASE Restart
    BY <1>34, SessionsDiffer, LengthFacts DEF Restart
  <1>35. CASE UNCHANGED vars
    BY <1>35, SessionsDiffer, LengthFacts DEF vars
  <1>36. QED
    BY <1>1, <1>2, <1>3, <1>4, <1>5, <1>6, <1>7, <1>8, <1>9, <1>10, <1>11, <1>12,
       <1>13, <1>14, <1>15, <1>16, <1>17, <1>18, <1>19, <1>20, <1>21, <1>22, <1>23,
       <1>24, <1>25, <1>26, <1>27, <1>28, <1>29, <1>30, <1>31, <1>32, <1>33, <1>34,
       <1>35
       DEF Next, RequestStep, HolderStep, WorkerStep, SyncStep, SweepStep

\* A request writes at most once.
LEMMA SyncsOnceStep ==
    ASSUME TypeOK, SyncsOnce, [Next]_vars
    PROVE  SyncsOnce'
  <1> USE JobsAssumption
      DEF TypeOK, SyncsOnce, Writers, lockVars, eventVars, workVars, sweepVars, historyVars
  <1>1. ASSUME NEW j \in Jobs, RequestLock(j)
        PROVE  SyncsOnce'
    BY <1>1 DEF RequestLock, Take
  <1>2. ASSUME NEW j \in Jobs, RequestRefused(j)
        PROVE  SyncsOnce'
    BY <1>2 DEF RequestRefused
  <1>3. ASSUME NEW j \in Jobs, StartWorker(j)
        PROVE  SyncsOnce'
    BY <1>3 DEF StartWorker
  <1>4. ASSUME NEW j \in Jobs, StartHolder(j)
        PROVE  SyncsOnce'
    BY <1>4 DEF StartHolder
  <1>5. ASSUME NEW j \in Jobs, StartJob(j)
        PROVE  SyncsOnce'
    BY <1>5 DEF StartJob, ImportLockWaiting
  <1>6. ASSUME NEW j \in Jobs, Dispatch(j)
        PROVE  SyncsOnce'
    BY <1>6 DEF Dispatch
  <1>7. ASSUME NEW j \in Jobs, Return(j)
        PROVE  SyncsOnce'
    BY <1>7 DEF Return, ImportLockWaiting
  <1>8. ASSUME NEW j \in Jobs, LaunchFails(j)
        PROVE  SyncsOnce'
    BY <1>8 DEF LaunchFails
  <1>9. ASSUME NEW j \in Jobs, RecordLaunchFailure(j)
        PROVE  SyncsOnce'
    BY <1>9 DEF RecordLaunchFailure
  <1>10. ASSUME NEW j \in Jobs, HolderBlock(j)
        PROVE  SyncsOnce'
    BY <1>10 DEF HolderBlock
  <1>11. ASSUME NEW j \in Jobs, HolderHeld(j)
        PROVE  SyncsOnce'
    BY <1>11 DEF HolderHeld
  <1>12. ASSUME NEW j \in Jobs, HolderRelease(j)
        PROVE  SyncsOnce'
    BY <1>12 DEF HolderRelease
  <1>13. ASSUME NEW j \in Jobs, HolderLost(j)
        PROVE  SyncsOnce'
    BY <1>13 DEF HolderLost
  <1>14. ASSUME NEW j \in Jobs, WorkerOwn(j)
        PROVE  SyncsOnce'
    BY <1>14 DEF WorkerOwn
  <1>15. ASSUME NEW j \in Jobs, WorkerWake(j)
        PROVE  SyncsOnce'
    BY <1>15 DEF WorkerWake
  <1>16. ASSUME NEW j \in Jobs, WorkerBegin(j)
        PROVE  SyncsOnce'
    BY <1>16 DEF WorkerBegin, Observe
  <1>17. ASSUME NEW j \in Jobs, WorkReplay(j)
        PROVE  SyncsOnce'
    BY <1>17 DEF WorkReplay
  <1>18. ASSUME NEW j \in Jobs, WorkReacquire(j)
        PROVE  SyncsOnce'
    BY <1>18 DEF WorkReacquire, Observe, Take
  <1>19. ASSUME NEW j \in Jobs, WorkDone(j)
        PROVE  SyncsOnce'
    BY <1>19 DEF WorkDone
  <1>20. ASSUME NEW j \in Jobs, WorkFails(j)
        PROVE  SyncsOnce'
    BY <1>20 DEF WorkFails
  <1>21. ASSUME NEW j \in Jobs, WorkerCommit(j)
        PROVE  SyncsOnce'
    BY <1>21 DEF WorkerCommit
  <1>22. ASSUME NEW j \in Jobs, CommitResolves(j)
        PROVE  SyncsOnce'
    <2>1. ASSUME Commit(j), NEW t \in Syncs, NEW i \in 1..Len(log'), log'[i].by = t
          PROVE  spc'[t] = "done"
      <3>1. log'[Len(log) + 1].by = j /\ j # t
        BY <2>1, CommitFacts, ZenonT(30)
      <3>2. i # Len(log) + 1
        BY <2>1, <3>1
      <3>3. i \in 1..Len(log) /\ log[i].by = t
        BY <2>1, <3>2, CommitFacts
      <3>4. QED
        BY <1>22, <3>3 DEF CommitResolves, SyncsOnce
    <2>2. CASE UNCHANGED log
      BY <1>22, <2>2 DEF CommitResolves, SyncsOnce
    <2>3. QED
      BY <1>22, <2>1, <2>2 DEF CommitResolves, SyncsOnce
  <1>23. ASSUME NEW j \in Jobs, RecordFailure(j)
        PROVE  SyncsOnce'
    BY <1>23 DEF RecordFailure
  <1>24. ASSUME NEW j \in Jobs, WorkerClose(j)
        PROVE  SyncsOnce'
    BY <1>24 DEF WorkerClose
  <1>25. ASSUME NEW j \in Jobs, WorkerLost(j)
        PROVE  SyncsOnce'
    BY <1>25 DEF WorkerLost
  <1>26. ASSUME NEW s \in Syncs, SyncLock(s)
        PROVE  SyncsOnce'
    BY <1>26 DEF SyncLock, Observe, Take
  <1>27. ASSUME NEW s \in Syncs, SyncReplay(s)
        PROVE  SyncsOnce'
    BY <1>27 DEF SyncReplay
  <1>28. ASSUME NEW s \in Syncs, SyncEnd(s)
        PROVE  SyncsOnce'
    <2>1. ASSUME Commit(s), NEW t \in Syncs, NEW i \in 1..Len(log'), log'[i].by = t
          PROVE  spc'[t] = "done"
      <3>1. CASE i = Len(log) + 1
        BY <1>28, <2>1, <3>1, CommitFacts DEF SyncEnd, TypeOK, Writers
      <3>2. CASE i # Len(log) + 1
        BY <1>28, <2>1, <3>2, CommitFacts DEF SyncEnd, TypeOK, SyncsOnce, Writers
      <3>3. QED
        BY <3>1, <3>2
    <2>2. CASE UNCHANGED log
      BY <1>28, <2>2 DEF SyncEnd, TypeOK, SyncsOnce
    <2>3. QED
      BY <1>28, <2>1, <2>2 DEF SyncEnd, SyncsOnce
  <1>29. ASSUME NEW k \in Sweepers, SweepList(k)
        PROVE  SyncsOnce'
    BY <1>29 DEF SweepList
  <1>30. ASSUME NEW k \in Sweepers, SweepClaim(k)
        PROVE  SyncsOnce'
    BY <1>30 DEF SweepClaim
  <1>31. ASSUME NEW k \in Sweepers, SweepLock(k)
        PROVE  SyncsOnce'
    BY <1>31 DEF SweepLock, Take
  <1>32. ASSUME NEW k \in Sweepers, SweepFail(k)
        PROVE  SyncsOnce'
    BY <1>32 DEF SweepFail
  <1>33. ASSUME NEW k \in Sweepers, SweepEnd(k)
        PROVE  SyncsOnce'
    BY <1>33 DEF SweepEnd
  <1>34. CASE Restart
    BY <1>34 DEF Restart
  <1>35. CASE UNCHANGED vars
    BY <1>35 DEF vars
  <1>36. QED
    BY <1>1, <1>2, <1>3, <1>4, <1>5, <1>6, <1>7, <1>8, <1>9, <1>10, <1>11, <1>12,
       <1>13, <1>14, <1>15, <1>16, <1>17, <1>18, <1>19, <1>20, <1>21, <1>22, <1>23,
       <1>24, <1>25, <1>26, <1>27, <1>28, <1>29, <1>30, <1>31, <1>32, <1>33, <1>34,
       <1>35
       DEF Next, RequestStep, HolderStep, WorkerStep, SyncStep, SweepStep

\* Every step is a step of JobLifecycle, or invisible to it.
LEMMA LifecycleStep ==
    ASSUME TypeOK, InFlight, Launching, SweepsOwn, WritersFresh, SyncsOnce, [Next]_vars
    PROVE  [Lifecycle!Next]_(Lifecycle!vars)
  <1> USE JobsAssumption
      DEF lockVars, eventVars, workVars, sweepVars, historyVars, Lifecycle!vars
  <1>1. ASSUME NEW j \in Jobs, RequestLock(j)
        PROVE  [Lifecycle!Next]_(Lifecycle!vars)
    BY <1>1 DEF RequestLock, Take
  <1>2. ASSUME NEW j \in Jobs, RequestRefused(j)
        PROVE  [Lifecycle!Next]_(Lifecycle!vars)
    BY <1>2 DEF RequestRefused
  <1>3. ASSUME NEW j \in Jobs, StartWorker(j)
        PROVE  [Lifecycle!Next]_(Lifecycle!vars)
    BY <1>3 DEF StartWorker
  <1>4. ASSUME NEW j \in Jobs, StartHolder(j)
        PROVE  [Lifecycle!Next]_(Lifecycle!vars)
    BY <1>4 DEF StartHolder
  <1>5. ASSUME NEW j \in Jobs, StartJob(j)
        PROVE  [Lifecycle!Next]_(Lifecycle!vars)
    BY <1>5 DEF StartJob, ImportLockWaiting, Launching, Lifecycle!Next, Lifecycle!Accept
  <1>6. ASSUME NEW j \in Jobs, Dispatch(j)
        PROVE  [Lifecycle!Next]_(Lifecycle!vars)
    BY <1>6 DEF Dispatch
  <1>7. ASSUME NEW j \in Jobs, Return(j)
        PROVE  [Lifecycle!Next]_(Lifecycle!vars)
    BY <1>7 DEF Return, ImportLockWaiting
  <1>8. ASSUME NEW j \in Jobs, LaunchFails(j)
        PROVE  [Lifecycle!Next]_(Lifecycle!vars)
    BY <1>8 DEF LaunchFails, Launching, Lifecycle!Next, Lifecycle!Accept
  <1>9. ASSUME NEW j \in Jobs, RecordLaunchFailure(j)
        PROVE  [Lifecycle!Next]_(Lifecycle!vars)
    BY <1>9 DEF RecordLaunchFailure, MarkFailed, TypeOK, SweepsOwn, Lifecycle!Next,
       Lifecycle!Fail
  <1>10. ASSUME NEW j \in Jobs, HolderBlock(j)
        PROVE  [Lifecycle!Next]_(Lifecycle!vars)
    BY <1>10 DEF HolderBlock
  <1>11. ASSUME NEW j \in Jobs, HolderHeld(j)
        PROVE  [Lifecycle!Next]_(Lifecycle!vars)
    BY <1>11 DEF HolderHeld
  <1>12. ASSUME NEW j \in Jobs, HolderRelease(j)
        PROVE  [Lifecycle!Next]_(Lifecycle!vars)
    BY <1>12 DEF HolderRelease
  <1>13. ASSUME NEW j \in Jobs, HolderLost(j)
        PROVE  [Lifecycle!Next]_(Lifecycle!vars)
    BY <1>13 DEF HolderLost
  <1>14. ASSUME NEW j \in Jobs, WorkerOwn(j)
        PROVE  [Lifecycle!Next]_(Lifecycle!vars)
    BY <1>14 DEF WorkerOwn
  <1>15. ASSUME NEW j \in Jobs, WorkerWake(j)
        PROVE  [Lifecycle!Next]_(Lifecycle!vars)
    BY <1>15 DEF WorkerWake
  <1>16. ASSUME NEW j \in Jobs, WorkerBegin(j)
        PROVE  [Lifecycle!Next]_(Lifecycle!vars)
    BY <1>16 DEF WorkerBegin, Observe
  <1>17. ASSUME NEW j \in Jobs, WorkReplay(j)
        PROVE  [Lifecycle!Next]_(Lifecycle!vars)
    BY <1>17 DEF WorkReplay
  <1>18. ASSUME NEW j \in Jobs, WorkReacquire(j)
        PROVE  [Lifecycle!Next]_(Lifecycle!vars)
    BY <1>18 DEF WorkReacquire, Observe, Take
  <1>19. ASSUME NEW j \in Jobs, WorkDone(j)
        PROVE  [Lifecycle!Next]_(Lifecycle!vars)
    BY <1>19 DEF WorkDone
  <1>20. ASSUME NEW j \in Jobs, WorkFails(j)
        PROVE  [Lifecycle!Next]_(Lifecycle!vars)
    BY <1>20 DEF WorkFails
  <1>21. ASSUME NEW j \in Jobs, WorkerCommit(j)
        PROVE  [Lifecycle!Next]_(Lifecycle!vars)
    BY <1>21 DEF WorkerCommit
  <1>22. ASSUME NEW j \in Jobs, CommitResolves(j)
        PROVE  [Lifecycle!Next]_(Lifecycle!vars)
    BY <1>22 DEF CommitResolves, Commit, InFlight, WritersFresh, Writing, Writers,
       Lifecycle!Next, Lifecycle!Complete, Lifecycle!Write
  <1>23. ASSUME NEW j \in Jobs, RecordFailure(j)
        PROVE  [Lifecycle!Next]_(Lifecycle!vars)
    BY <1>23 DEF RecordFailure, MarkFailed, TypeOK, SweepsOwn, Lifecycle!Next,
       Lifecycle!Fail
  <1>24. ASSUME NEW j \in Jobs, WorkerClose(j)
        PROVE  [Lifecycle!Next]_(Lifecycle!vars)
    BY <1>24 DEF WorkerClose
  <1>25. ASSUME NEW j \in Jobs, WorkerLost(j)
        PROVE  [Lifecycle!Next]_(Lifecycle!vars)
    BY <1>25 DEF WorkerLost
  <1>26. ASSUME NEW s \in Syncs, SyncLock(s)
        PROVE  [Lifecycle!Next]_(Lifecycle!vars)
    BY <1>26 DEF SyncLock, Observe, Take
  <1>27. ASSUME NEW s \in Syncs, SyncReplay(s)
        PROVE  [Lifecycle!Next]_(Lifecycle!vars)
    BY <1>27 DEF SyncReplay
  <1>28. ASSUME NEW s \in Syncs, SyncEnd(s)
        PROVE  [Lifecycle!Next]_(Lifecycle!vars)
    BY <1>28 DEF SyncEnd, Commit, SyncsOnce, WritersFresh, Writing, Writers,
       Lifecycle!Next, Lifecycle!SyncWrite, Lifecycle!Write
  <1>29. ASSUME NEW k \in Sweepers, SweepList(k)
        PROVE  [Lifecycle!Next]_(Lifecycle!vars)
    BY <1>29 DEF SweepList
  <1>30. ASSUME NEW k \in Sweepers, SweepClaim(k)
        PROVE  [Lifecycle!Next]_(Lifecycle!vars)
    BY <1>30 DEF SweepClaim
  <1>31. ASSUME NEW k \in Sweepers, SweepLock(k)
        PROVE  [Lifecycle!Next]_(Lifecycle!vars)
    BY <1>31 DEF SweepLock, Take
  <1>32. ASSUME NEW k \in Sweepers, SweepFail(k)
        PROVE  [Lifecycle!Next]_(Lifecycle!vars)
    BY <1>32 DEF SweepFail, MarkFailed, TypeOK, SweepsOwn, Lifecycle!Next, Lifecycle!Fail
  <1>33. ASSUME NEW k \in Sweepers, SweepEnd(k)
        PROVE  [Lifecycle!Next]_(Lifecycle!vars)
    BY <1>33 DEF SweepEnd
  <1>34. CASE Restart
    BY <1>34 DEF Restart
  <1>35. CASE UNCHANGED vars
    BY <1>35 DEF vars
  <1>36. QED
    BY <1>1, <1>2, <1>3, <1>4, <1>5, <1>6, <1>7, <1>8, <1>9, <1>10, <1>11, <1>12,
       <1>13, <1>14, <1>15, <1>16, <1>17, <1>18, <1>19, <1>20, <1>21, <1>22, <1>23,
       <1>24, <1>25, <1>26, <1>27, <1>28, <1>29, <1>30, <1>31, <1>32, <1>33, <1>34,
       <1>35
       DEF Next, RequestStep, HolderStep, WorkerStep, SyncStep, SweepStep

-----------------------------------------------------------------------------
\* Appending a write computed from the whole log so far.
LEMMA WriteFacts ==
    ASSUME TypeOK, NEW w \in Writers, Lifecycle!Write(w)
    PROVE  /\ Len(log') = Len(log) + 1
           /\ \A i \in 1..Len(log) : log'[i] = log[i]
           /\ log'[Len(log) + 1].by = w
           /\ log'[Len(log) + 1].seen = Len(log)
           /\ \A i \in 1..Len(log') : i \in 1..Len(log) \/ i = Len(log) + 1
  BY LengthFacts DEF TypeOK, Logs, Lifecycle!Write

\* What JobLifecycle's steps preserve.
LEMMA SerializedStep ==
    ASSUME TypeOK, Serialized, [Lifecycle!Next]_(Lifecycle!vars)
    PROVE  Serialized'
  <1>1. ASSUME NEW w \in Writers, Lifecycle!Write(w)
        PROVE  Serialized'
    <2> SUFFICES ASSUME NEW i \in 1..Len(log')
                 PROVE  log'[i].seen = i - 1
      BY DEF Serialized
    <2>1. CASE i = Len(log) + 1
      BY <1>1, <2>1, WriteFacts, LengthFacts
    <2>2. CASE i \in 1..Len(log)
      BY <1>1, <2>2, WriteFacts DEF Serialized
    <2>3. QED
      BY <1>1, <2>1, <2>2, WriteFacts
  <1>2. CASE UNCHANGED log
    BY <1>2 DEF Serialized
  <1>3. QED
    BY <1>1, <1>2 DEF Writers, Lifecycle!Next, Lifecycle!Accept, Lifecycle!Complete,
       Lifecycle!Fail, Lifecycle!SyncWrite, Lifecycle!vars

\* A step of JobLifecycle keeps rows and writes in agreement.
LEMMA TruthfulStep ==
    ASSUME TypeOK, OutcomeTruthful, [Lifecycle!Next]_(Lifecycle!vars)
    PROVE  OutcomeTruthful'
  <1> USE JobsAssumption
  <1>1. ASSUME NEW w \in Writers, Lifecycle!Write(w), NEW i \in Jobs
        PROVE  Applied(i)' <=> Applied(i) \/ i = w
    <2>1. \A n \in 1..Len(log) : n \in 1..Len(log') /\ log'[n].by = log[n].by
      BY <1>1, WriteFacts, LengthFacts
    <2>2. Len(log) + 1 \in 1..Len(log') /\ log'[Len(log) + 1].by = w
      BY <1>1, WriteFacts, LengthFacts
    <2>3. \A n \in 1..Len(log') : n \in 1..Len(log) \/ n = Len(log) + 1
      BY <1>1, WriteFacts
    <2>4. QED
      BY <2>1, <2>2, <2>3 DEF Applied
  <1>2. ASSUME UNCHANGED log, NEW i \in Jobs
        PROVE  Applied(i)' <=> Applied(i)
    BY <1>2 DEF Applied
  <1>3. ASSUME NEW j \in Jobs, Lifecycle!Accept(j)
        PROVE  OutcomeTruthful'
    BY <1>2, <1>3 DEF Lifecycle!Accept, OutcomeTruthful, TypeOK
  <1>4. ASSUME NEW j \in Jobs, Lifecycle!Complete(j)
        PROVE  OutcomeTruthful'
    <2>1. CASE j \in DryRuns
      BY <1>2, <1>4, <2>1 DEF Lifecycle!Complete, OutcomeTruthful, TypeOK
    <2>2. CASE j \notin DryRuns
      BY <1>1, <1>4, <2>2 DEF Lifecycle!Complete, OutcomeTruthful, TypeOK, Writers
    <2>3. QED
      BY <2>1, <2>2
  <1>5. ASSUME NEW j \in Jobs, Lifecycle!Fail(j)
        PROVE  OutcomeTruthful'
    BY <1>2, <1>5 DEF Lifecycle!Fail, OutcomeTruthful, TypeOK
  <1>6. ASSUME NEW s \in Syncs, Lifecycle!SyncWrite(s)
        PROVE  OutcomeTruthful'
    BY <1>1, <1>6 DEF Lifecycle!SyncWrite, OutcomeTruthful, Writers
  <1>7. CASE UNCHANGED Lifecycle!vars
    BY <1>2, <1>7 DEF Lifecycle!vars, OutcomeTruthful
  <1>8. QED
    BY <1>3, <1>4, <1>5, <1>6, <1>7 DEF Lifecycle!Next

\* The inductive invariant holds: nobody but the owner of a lock acts on what
\* the lock protects.
THEOREM Invariance == Spec => []IInv
  <1> USE JobsAssumption
  <1>1. Init => IInv
    <2> SUFFICES ASSUME Init
                 PROVE  IInv
      OBVIOUS
    <2>1. TypeOK
      BY DEF Init, TypeOK, RequestSteps, HolderSteps, WorkerSteps, SyncSteps,
         SweepSteps, Status, Writers, Logs, FaultCounts
    <2>2. log = <<>> /\ Len(log) = 0
      BY DEF Init
    <2>3. WritersOwn /\ WritersFresh /\ WorkersOwn /\ SweepsOwn /\ InFlight /\ Launching
      BY DEF Init, WritersOwn, WritersFresh, Writing, WorkersOwn, SweepsOwn, InFlight,
         Launching, Live, PreDispatch
    <2>4. SyncsOnce /\ Serialized /\ OutcomeTruthful
      BY <2>2 DEF Init, SyncsOnce, Serialized, OutcomeTruthful, Applied
    <2>5. QED
      BY <2>1, <2>3, <2>4 DEF IInv
  <1>2. IInv /\ [Next]_vars => IInv'
    BY TypeStep, JobsOwnStep, WritersOwnStep, WritersFreshStep, SyncsOnceStep,
       LifecycleStep, SerializedStep, TruthfulStep DEF IInv
  <1>3. QED
    BY <1>1, <1>2, PTL DEF Spec

\* Every committed import or undo saw the effect of all earlier ones.
THEOREM ImportsSerialized == Spec => []Serialized
  BY Invariance, PTL DEF IInv

\* A row that reads completed has its writes in; one that reads failed has none.
THEOREM RowsTruthful == Spec => []OutcomeTruthful
  BY Invariance, PTL DEF IInv

\* The threads, locks and sweeps implement JobLifecycle.
THEOREM Refinement == Spec => JobsAreAtomic
  <1>1. Init => Lifecycle!Init
    BY DEF Init, Lifecycle!Init
  <1>2. IInv /\ [Next]_vars => [Lifecycle!Next]_(Lifecycle!vars)
    BY LifecycleStep DEF IInv
  <1>3. QED
    BY <1>1, <1>2, Invariance, PTL DEF Spec, JobsAreAtomic, Lifecycle!Spec

\* No step changes the outcome of a job.
THEOREM OutcomesFinal == Spec => OutcomeFinal
  <1>1. IInv /\ [Next]_vars => [\A j \in Jobs : row[j] \in Terminal => row'[j] = row[j]]_row
    <2> SUFFICES ASSUME IInv, [Lifecycle!Next]_(Lifecycle!vars)
                 PROVE  \A j \in Jobs : row[j] \in Terminal => row'[j] = row[j]
      BY LifecycleStep DEF IInv
    <2>1. QED
      BY DEF IInv, TypeOK, Terminal, Lifecycle!Next, Lifecycle!Accept, Lifecycle!Complete,
         Lifecycle!Fail, Lifecycle!SyncWrite, Lifecycle!vars
  <1>2. QED
    BY <1>1, Invariance, PTL DEF Spec, OutcomeFinal

-----------------------------------------------------------------------------
(* The hand-over of the import lock leaves no gap: while every hand-over   *)
(* meets its deadlines, a job writes on top of exactly what the request    *)
(* that validated it has seen.                                             *)

\* Who waits for the import lock waits for the session of the same job that hands it on:
\* the holder for the request, the worker for the holder.
OneQueue ==
    \A a \in waiters :
        \E j \in Jobs : \/ a = Holder(j) /\ owner = Request(j) /\ hpc[j] = "waiting"
                        \/ a = Worker(j) /\ owner = Holder(j) /\ wpc[j] = "waiting"

\* The lock is the request's until its commit and the holder's until the worker waits.
RequestsHold ==
    \A j \in Jobs :
        /\ rpc[j] \in {"locked", "readying", "handing"} => owner = Request(j)
        /\ rpc[j] \in {"committed", "dispatched"} => owner = Holder(j)
        /\ rpc[j] = "dispatched" => hpc[j] = "held"

\* A holder that has not queued yet belongs to a launch that waits for it.
HoldersQueue ==
    \A j \in Jobs :
        /\ rpc[j] \in {"idle", "locked", "readying"} => hpc[j] = "none"
        /\ hpc[j] = "connecting" => rpc[j] = "handing"
        /\ rpc[j] = "committed" => hpc[j] \in {"waiting", "held"}
        /\ j \in release => rpc[j] \in {"returned", "failed"}

\* A worker that is about to queue finds its own holder in possession.
WorkersQueue ==
    \A j \in Jobs :
        /\ rpc[j] \in {"handing", "committed", "dispatched", "returned"} =>
              wpc[j] \notin {"connecting", "refused"}
        /\ rpc[j] = "recording" => j \in abort
        /\ wpc[j] \in {"connecting", "owned"} /\ j \in execute /\ j \notin abort =>
              rpc[j] = "dispatched"

\* Who tries the lock a second time is past its first attempt.
Replays == \A j \in Jobs : wpc[j] = "replaying" => attempt[j] = 2

\* Nothing was written since the request that owns the lock, or whose holder or worker does.
NothingSince ==
    \A j \in Jobs :
        \/ owner \in {Request(j), Holder(j)}
        \/ owner = Worker(j) /\ attempt[j] = 1
        => asked[j] = Len(log)

\* What was committed by a job's first attempt was computed from what its request saw.
Seamless ==
    \A i \in 1..Len(log) :
        log[i].by \in Jobs /\ attempt[log[i].by] = 1 => asked[log[i].by] = log[i].seen

Handoffs ==
    OneQueue /\ RequestsHold /\ HoldersQueue /\ WorkersQueue /\ Replays /\ NothingSince /\ Seamless


-----------------------------------------------------------------------------
\* The sessions of requests and holders differ from each other and from all others.
LEMMA HandoffSessions ==
    /\ \A i, j \in Jobs : Request(i) = Request(j) => i = j
    /\ \A i, j \in Jobs : Holder(i) = Holder(j) => i = j
    /\ \A i, j \in Jobs : Request(i) # Holder(j)
    /\ \A j \in Jobs : Request(j) # Free /\ Holder(j) # Free
    /\ \A j \in Jobs, k \in Sweepers : Request(j) # Sweep(k) /\ Holder(j) # Sweep(k)
  BY DEF Request, Holder, Sweep, Free

\* Nobody waits for a lock that is free, or that a worker, a request that writes by itself
\* or a sweep owns.
LEMMA QueueFacts ==
    ASSUME OneQueue
    PROVE  /\ owner = Free => waiters = {}
           /\ \A j \in Jobs : owner = Worker(j) => waiters = {}
           /\ \A j \in Jobs : owner = Request(j) => waiters \subseteq {Holder(j)}
           /\ \A j \in Jobs : owner = Holder(j) => waiters \subseteq {Worker(j)}
           /\ \A s \in Syncs : owner = Sync(s) => waiters = {}
           /\ \A k \in Sweepers : owner = Sweep(k) => waiters = {}
           /\ owner \notin waiters
  BY SessionsDiffer, HandoffSessions DEF OneQueue

\* A session that leaves without owning the lock leaves the queue only; nobody takes over
\* from an owner that nobody waits for.
LEMMA LeaveQueue ==
    ASSUME OneQueue, NEW a, Leave(a)
    PROVE  /\ owner # a => owner' = owner /\ waiters' = waiters \ {a}
           /\ owner = a /\ waiters = {} => owner' = Free /\ waiters' = {}
           /\ owner # a /\ a \notin waiters => waiters' = waiters
           /\ waiters' \subseteq waiters /\ a \notin waiters'
  BY QueueFacts DEF Leave, PassOn

\* The lock goes from the request to its holder, if that waits already.
LEMMA RequestLeaves ==
    ASSUME OneQueue, NEW j \in Jobs, owner = Request(j), Leave(Request(j))
    PROVE  /\ waiters' = {}
           /\ owner' = Free \/ owner' = Holder(j)
           /\ waiters # {} => owner' = Holder(j)
  <1>1. waiters = {} \/ waiters = {Holder(j)}
    BY QueueFacts
  <1>2. PassOn(waiters)
    BY DEF Leave
  <1>3. QED
    BY <1>1, <1>2 DEF PassOn

\* The lock goes from the holder to the worker, if that waits already.
LEMMA HolderLeaves ==
    ASSUME OneQueue, NEW j \in Jobs, owner = Holder(j), Leave(Holder(j))
    PROVE  waiters' = {} /\ (owner' = Free \/ owner' = Worker(j))
  <1>1. waiters = {} \/ waiters = {Worker(j)}
    BY QueueFacts
  <1>2. PassOn(waiters)
    BY DEF Leave
  <1>3. QED
    BY <1>1, <1>2 DEF PassOn

\* The threads of a launch and the queue of the import lock keep in step.
LEMMA QueueStep ==
    ASSUME IInv, Handoffs, smooth', smooth, [Next]_vars
    PROVE  (OneQueue /\ RequestsHold /\ HoldersQueue /\ WorkersQueue /\ Replays)'
  <1> DEFINE QInv == OneQueue /\ RequestsHold /\ HoldersQueue /\ WorkersQueue /\ Replays
  <1> SUFFICES QInv'
    OBVIOUS
  <1> USE DEF IInv, TypeOK, InFlight, Launching, PreDispatch, Handoffs, OneQueue, RequestsHold, HoldersQueue, WorkersQueue, Replays,
          lockVars, eventVars, workVars, sweepVars, historyVars
  <1>1. ASSUME NEW j \in Jobs, RequestLock(j)
        PROVE  QInv'
    <2>1. CASE owner = Free
      <3>1. waiters' = {} /\ owner' = Request(j) /\ rpc' = [rpc EXCEPT ![j] = "locked"]
        BY <1>1, <2>1, QueueFacts DEF RequestLock, Take
      <3>2. \A i \in Jobs : rpc[i] \notin {"locked", "readying", "handing", "committed", "dispatched"}
        BY <2>1, SessionsDiffer, HandoffSessions
      <3>3. OneQueue' /\ RequestsHold'
        BY <3>1, <3>2
      <3>4. HoldersQueue'
        BY <1>1, <3>1, <3>2 DEF RequestLock
      <3>5. WorkersQueue' /\ Replays'
        BY <1>1, <3>1, <3>2 DEF RequestLock
      <3>6. QED
        BY <3>3, <3>4, <3>5
    <2>2. CASE owner # Free
      BY <1>1, <2>2 DEF RequestLock
    <2>3. QED
      BY <2>1, <2>2
  <1>2. ASSUME NEW j \in Jobs, RequestRefused(j)
        PROVE  QInv'
    <2>1. owner = Request(j) /\ waiters \subseteq {Holder(j)}
      BY <1>2, QueueFacts DEF RequestRefused
    <2>2. waiters' = {} /\ (owner' = Free \/ owner' = Holder(j))
      BY <1>2, <2>1, RequestLeaves DEF RequestRefused
    <2>3. \A i \in Jobs : i # j => rpc[i] \notin {"locked", "readying", "handing", "committed", "dispatched"}
      BY <2>1, SessionsDiffer, HandoffSessions
    <2>4. OneQueue'
      BY <1>2, <2>1, <2>2, <2>3 DEF RequestRefused
    <2>5. RequestsHold'
      BY <1>2, <2>1, <2>2, <2>3 DEF RequestRefused
    <2>6. HoldersQueue'
      BY <1>2, <2>1, <2>2, <2>3 DEF RequestRefused
    <2>7. WorkersQueue'
      BY <1>2, <2>1, <2>2, <2>3 DEF RequestRefused
    <2>8. Replays'
      BY <1>2, <2>1, <2>2, <2>3 DEF RequestRefused
    <2>9. QED
      BY <2>4, <2>5, <2>6, <2>7, <2>8
  <1>3. ASSUME NEW j \in Jobs, StartWorker(j)
        PROVE  QInv'
    BY <1>3, SessionsDiffer, HandoffSessions, QueueFacts, LeaveQueue DEF StartWorker
  <1>4. ASSUME NEW j \in Jobs, StartHolder(j)
        PROVE  QInv'
    <2>1. Holder(j) \notin waiters
      BY <1>4, SessionsDiffer, HandoffSessions DEF StartHolder
    <2>2. OneQueue'
      BY <1>4, <2>1 DEF StartHolder
    <2>3. RequestsHold'
      BY <1>4 DEF StartHolder
    <2>4. HoldersQueue'
      BY <1>4 DEF StartHolder
    <2>5. WorkersQueue' /\ Replays'
      BY <1>4 DEF StartHolder
    <2>6. QED
      BY <2>2, <2>3, <2>4, <2>5
  <1>5. ASSUME NEW j \in Jobs, StartJob(j)
        PROVE  QInv'
    <2>0. owner = Request(j) /\ waiters # {}
      BY <1>5 DEF StartJob, ImportLockWaiting
    <2>1. owner = Request(j) /\ hpc[j] = "waiting"
      BY <2>0, SessionsDiffer, HandoffSessions
    <2>2. waiters' = {} /\ owner' = Holder(j)
      BY <1>5, <2>0, RequestLeaves DEF StartJob
    <2>3. \A i \in Jobs : i # j => rpc[i] \notin {"locked", "readying", "handing", "committed", "dispatched"}
      BY <2>1, SessionsDiffer, HandoffSessions
    <2>4. OneQueue'
      BY <2>2
    <2>5. RequestsHold'
      BY <1>5, <2>2, <2>3 DEF StartJob
    <2>6. HoldersQueue'
      BY <1>5, <2>1 DEF StartJob
    <2>7. WorkersQueue' /\ Replays'
      BY <1>5 DEF StartJob
    <2>8. QED
      BY <2>4, <2>5, <2>6, <2>7
  <1>6. ASSUME NEW j \in Jobs, Dispatch(j)
        PROVE  QInv'
    <2>1. OneQueue'
      BY <1>6 DEF Dispatch
    <2>2. RequestsHold'
      BY <1>6 DEF Dispatch
    <2>3. HoldersQueue'
      BY <1>6 DEF Dispatch
    <2>4. WorkersQueue'
      BY <1>6 DEF Dispatch
    <2>5. Replays'
      BY <1>6 DEF Dispatch
    <2>6. QED
      BY <2>1, <2>2, <2>3, <2>4, <2>5
  <1>7. ASSUME NEW j \in Jobs, Return(j)
        PROVE  QInv'
    <2>0. owner = Holder(j) /\ waiters # {}
      BY <1>7 DEF Return, ImportLockWaiting
    <2>1. owner = Holder(j) /\ wpc[j] = "waiting"
      BY <2>0, SessionsDiffer, HandoffSessions
    <2>2. rpc' = [rpc EXCEPT ![j] = "returned"]
      BY <1>7 DEF Return
    <2>3. OneQueue'
      BY <1>7, <2>1, <2>2 DEF Return
    <2>4. RequestsHold'
      BY <1>7, <2>1, <2>2 DEF Return
    <2>5. HoldersQueue'
      BY <1>7, <2>1, <2>2 DEF Return
    <2>6. WorkersQueue'
      BY <1>7, <2>1, <2>2 DEF Return
    <2>7. Replays'
      BY <1>7, <2>1, <2>2 DEF Return
    <2>8. QED
      BY <2>3, <2>4, <2>5, <2>6, <2>7
  <1>8. ASSUME NEW j \in Jobs, LaunchFails(j)
        PROVE  QInv'
    <2>1. rpc[j] = "readying" /\ wpc[j] \in {"connecting", "refused"} /\ smooth' = smooth
      BY <1>8 DEF LaunchFails
    <2>2. owner = Request(j) /\ waiters \subseteq {Holder(j)}
      BY <2>1, QueueFacts
    <2>3. waiters' = {} /\ (owner' = Free \/ owner' = Holder(j))
      BY <1>8, <2>2, RequestLeaves DEF LaunchFails
    <2>4. \A i \in Jobs : i # j => rpc[i] \notin {"locked", "readying", "handing", "committed", "dispatched"}
      BY <2>2, SessionsDiffer, HandoffSessions
    <2>5. OneQueue'
      BY <2>3
    <2>6. RequestsHold'
      BY <1>8, <2>4 DEF LaunchFails
    <2>7. HoldersQueue'
      BY <1>8, <2>1 DEF LaunchFails
    <2>8. WorkersQueue' /\ Replays'
      BY <1>8, <2>1 DEF LaunchFails
    <2>9. QED
      BY <2>5, <2>6, <2>7, <2>8
  <1>9. ASSUME NEW j \in Jobs, RecordLaunchFailure(j)
        PROVE  QInv'
    BY <1>9, SessionsDiffer, HandoffSessions, QueueFacts, LeaveQueue DEF RecordLaunchFailure
  <1>10. ASSUME NEW j \in Jobs, HolderBlock(j)
        PROVE  QInv'
    BY <1>10, SessionsDiffer, HandoffSessions, QueueFacts, LeaveQueue DEF HolderBlock, Block, Take
  <1>11. ASSUME NEW j \in Jobs, HolderHeld(j)
        PROVE  QInv'
    BY <1>11, SessionsDiffer, HandoffSessions, QueueFacts, LeaveQueue DEF HolderHeld
  <1>12. ASSUME NEW j \in Jobs, HolderRelease(j)
        PROVE  QInv'
    <2>1. rpc[j] \in {"returned", "failed"} /\ Holder(j) \notin waiters
      BY <1>12, SessionsDiffer, HandoffSessions DEF HolderRelease
    <2>2. CASE owner = Holder(j)
      <3>1. waiters' = {}
        BY <1>12, <2>2, HolderLeaves DEF HolderRelease
      <3>2. \A i \in Jobs : rpc[i] \notin {"locked", "readying", "handing", "committed", "dispatched"}
        BY <2>1, <2>2, SessionsDiffer, HandoffSessions
      <3>3. QED
        BY <1>12, <2>1, <3>1, <3>2 DEF HolderRelease
    <2>3. CASE owner # Holder(j)
      <3>0. Leave(Holder(j))
        BY <1>12 DEF HolderRelease
      <3>1. owner' = owner /\ waiters' = waiters
        BY <2>1, <2>3, <3>0, LeaveQueue DEF HolderRelease
      <3>2. OneQueue'
        BY <1>12, <2>1, <3>1 DEF HolderRelease
      <3>3. RequestsHold' /\ HoldersQueue'
        BY <1>12, <2>1, <3>1 DEF HolderRelease
      <3>4. WorkersQueue' /\ Replays'
        BY <1>12 DEF HolderRelease
      <3>5. QED
        BY <3>2, <3>3, <3>4
    <2>4. QED
      BY <2>2, <2>3
  <1>13. ASSUME NEW j \in Jobs, HolderLost(j)
        PROVE  QInv'
    BY <1>13, SessionsDiffer, HandoffSessions, QueueFacts, LeaveQueue DEF HolderLost
  <1>14. ASSUME NEW j \in Jobs, WorkerOwn(j)
        PROVE  QInv'
    BY <1>14, SessionsDiffer, HandoffSessions, QueueFacts, LeaveQueue DEF WorkerOwn
  <1>15. ASSUME NEW j \in Jobs, WorkerWake(j)
        PROVE  QInv'
    BY <1>15, SessionsDiffer, HandoffSessions, QueueFacts, LeaveQueue DEF WorkerWake, Block, Take
  <1>16. ASSUME NEW j \in Jobs, WorkerBegin(j)
        PROVE  QInv'
    BY <1>16, SessionsDiffer, HandoffSessions, QueueFacts, LeaveQueue DEF WorkerBegin, Observe
  <1>17. ASSUME NEW j \in Jobs, WorkReplay(j)
        PROVE  QInv'
    <2>1. owner = Worker(j)
      BY <1>17 DEF WorkReplay, WritersOwn, Writing, SessionOf, Writers
    <2>2. waiters' = {} /\ \A i \in Jobs : rpc[i] \notin {"locked", "readying", "handing", "committed", "dispatched"}
      BY <1>17, <2>1, SessionsDiffer, HandoffSessions, QueueFacts, LeaveQueue DEF WorkReplay
    <2>3. OneQueue'
      BY <1>17, <2>2 DEF WorkReplay
    <2>4. RequestsHold'
      BY <1>17, <2>2 DEF WorkReplay
    <2>5. HoldersQueue'
      BY <1>17, <2>2 DEF WorkReplay
    <2>6. WorkersQueue'
      BY <1>17, <2>2 DEF WorkReplay
    <2>7. Replays'
      BY <1>17 DEF WorkReplay, Writers
    <2>8. QED
      BY <2>3, <2>4, <2>5, <2>6, <2>7
  <1>18. ASSUME NEW j \in Jobs, WorkReacquire(j)
        PROVE  QInv'
    <2>1. CASE owner = Free
      <3>1. waiters' = {} /\ \A i \in Jobs : rpc[i] \notin {"locked", "readying", "handing", "committed", "dispatched"}
        BY <1>18, <2>1, QueueFacts, SessionsDiffer, HandoffSessions DEF WorkReacquire, Take
      <3>2. QED
        BY <1>18, <3>1 DEF WorkReacquire
    <2>2. CASE owner # Free
      <3>1. Worker(j) \notin waiters
        BY <1>18, SessionsDiffer, HandoffSessions DEF WorkReacquire
      <3>2. QED
        BY <1>18, <2>2, <3>1, SessionsDiffer, HandoffSessions DEF WorkReacquire
    <2>3. QED
      BY <2>1, <2>2
  <1>19. ASSUME NEW j \in Jobs, WorkDone(j)
        PROVE  QInv'
    BY <1>19, SessionsDiffer, HandoffSessions, QueueFacts, LeaveQueue DEF WorkDone
  <1>20. ASSUME NEW j \in Jobs, WorkFails(j)
        PROVE  QInv'
    BY <1>20, SessionsDiffer, HandoffSessions, QueueFacts, LeaveQueue DEF WorkFails
  <1>21. ASSUME NEW j \in Jobs, WorkerCommit(j)
        PROVE  QInv'
    BY <1>21, SessionsDiffer, HandoffSessions, QueueFacts, LeaveQueue DEF WorkerCommit
  <1>22. ASSUME NEW j \in Jobs, CommitResolves(j)
        PROVE  QInv'
    BY <1>22, SessionsDiffer, HandoffSessions, QueueFacts, LeaveQueue DEF CommitResolves
  <1>23. ASSUME NEW j \in Jobs, RecordFailure(j)
        PROVE  QInv'
    BY <1>23, SessionsDiffer, HandoffSessions, QueueFacts, LeaveQueue DEF RecordFailure
  <1>24. ASSUME NEW j \in Jobs, WorkerClose(j)
        PROVE  QInv'
    BY <1>24, SessionsDiffer, HandoffSessions, QueueFacts, LeaveQueue DEF WorkerClose
  <1>25. ASSUME NEW j \in Jobs, WorkerLost(j)
        PROVE  QInv'
    BY <1>25, SessionsDiffer, HandoffSessions, QueueFacts, LeaveQueue DEF WorkerLost
  <1>26. ASSUME NEW s \in Syncs, SyncLock(s)
        PROVE  QInv'
    <2>1. CASE owner = Free
      <3>1. waiters' = {} /\ \A i \in Jobs : rpc[i] \notin {"locked", "readying", "handing", "committed", "dispatched"}
        BY <1>26, <2>1, QueueFacts, SessionsDiffer, HandoffSessions DEF SyncLock, Take
      <3>2. QED
        BY <1>26, <3>1 DEF SyncLock
    <2>2. CASE owner # Free
      BY <1>26, <2>2 DEF SyncLock
    <2>3. QED
      BY <2>1, <2>2
  <1>27. ASSUME NEW s \in Syncs, SyncReplay(s)
        PROVE  QInv'
    BY <1>27, SessionsDiffer, HandoffSessions, QueueFacts, LeaveQueue DEF SyncReplay
  <1>28. ASSUME NEW s \in Syncs, SyncEnd(s)
        PROVE  QInv'
    BY <1>28, SessionsDiffer, HandoffSessions, QueueFacts, LeaveQueue DEF SyncEnd
  <1>29. ASSUME NEW k \in Sweepers, SweepList(k)
        PROVE  QInv'
    BY <1>29, SessionsDiffer, HandoffSessions, QueueFacts, LeaveQueue DEF SweepList
  <1>30. ASSUME NEW k \in Sweepers, SweepClaim(k)
        PROVE  QInv'
    BY <1>30, SessionsDiffer, HandoffSessions, QueueFacts, LeaveQueue DEF SweepClaim
  <1>31. ASSUME NEW k \in Sweepers, SweepLock(k)
        PROVE  QInv'
    BY <1>31, SessionsDiffer, HandoffSessions, QueueFacts, LeaveQueue DEF SweepLock, Take
  <1>32. ASSUME NEW k \in Sweepers, SweepFail(k)
        PROVE  QInv'
    BY <1>32, SessionsDiffer, HandoffSessions, QueueFacts, LeaveQueue DEF SweepFail
  <1>33. ASSUME NEW k \in Sweepers, SweepEnd(k)
        PROVE  QInv'
    BY <1>33, SessionsDiffer, HandoffSessions, QueueFacts, LeaveQueue DEF SweepEnd
  <1>34. CASE Restart
    BY <1>34, SessionsDiffer, HandoffSessions, QueueFacts, LeaveQueue DEF Restart
  <1>35. CASE UNCHANGED vars
    BY <1>35 DEF vars
  <1>36. QED
    BY <1>1, <1>2, <1>3, <1>4, <1>5, <1>6, <1>7, <1>8, <1>9, <1>10, <1>11, <1>12,
       <1>13, <1>14, <1>15, <1>16, <1>17, <1>18, <1>19, <1>20, <1>21, <1>22, <1>23, <1>24,
       <1>25, <1>26, <1>27, <1>28, <1>29, <1>30, <1>31, <1>32, <1>33, <1>34, <1>35
       DEF Next, RequestStep, HolderStep, WorkerStep, SyncStep, SweepStep

\* Nobody writes between a request and its job.
LEMMA SinceStep ==
    ASSUME IInv, Handoffs, smooth', smooth, [Next]_vars
    PROVE  (NothingSince /\ Seamless)'
  <1> DEFINE SInv == NothingSince /\ Seamless
  <1> SUFFICES SInv'
    OBVIOUS
  <1> USE DEF IInv, TypeOK, Handoffs, RequestsHold, NothingSince, Seamless, Writers,
          lockVars, eventVars, workVars, sweepVars, historyVars
  <1>1. ASSUME NEW j \in Jobs, RequestLock(j)
        PROVE  SInv'
    <2>1. UNCHANGED <<log, attempt>>
      BY <1>1 DEF RequestLock
    <2>2. CASE owner = Free
      <3>1. owner' = Request(j) /\ asked' = [asked EXCEPT ![j] = Len(log)]
        BY <1>1, <2>2 DEF RequestLock, Take
      <3>2. NothingSince'
        BY <2>1, <3>1, SessionsDiffer, HandoffSessions
      <3>3. \A i \in 1..Len(log) : log[i].by # j
        BY <1>1 DEF RequestLock, Launching, OutcomeTruthful, Applied
      <3>4. Seamless'
        BY <2>1, <3>1, <3>3
      <3>5. QED
        BY <3>2, <3>4
    <2>3. CASE owner # Free
      BY <1>1, <2>1, <2>3 DEF RequestLock
    <2>4. QED
      BY <2>2, <2>3
  <1>2. ASSUME NEW j \in Jobs, RequestRefused(j)
        PROVE  SInv'
    <2>1. UNCHANGED <<log, attempt, asked>>
      BY <1>2 DEF RequestRefused
    <2>2. owner = Request(j) /\ (owner' = Free \/ owner' = Holder(j))
      BY <1>2, RequestLeaves DEF RequestRefused
    <2>3. QED
      BY <2>1, <2>2, SessionsDiffer, HandoffSessions
  <1>3. ASSUME NEW j \in Jobs, StartWorker(j)
        PROVE  SInv'
    BY <1>3, SessionsDiffer, HandoffSessions, QueueFacts, LeaveQueue DEF StartWorker
  <1>4. ASSUME NEW j \in Jobs, StartHolder(j)
        PROVE  SInv'
    BY <1>4, SessionsDiffer, HandoffSessions, QueueFacts, LeaveQueue DEF StartHolder
  <1>5. ASSUME NEW j \in Jobs, StartJob(j)
        PROVE  SInv'
    <2>1. UNCHANGED <<log, attempt, asked>>
      BY <1>5 DEF StartJob
    <2>2. owner = Request(j) /\ (owner' = Free \/ owner' = Holder(j))
      BY <1>5, RequestLeaves DEF StartJob
    <2>3. QED
      BY <2>1, <2>2, SessionsDiffer, HandoffSessions
  <1>6. ASSUME NEW j \in Jobs, Dispatch(j)
        PROVE  SInv'
    BY <1>6, SessionsDiffer, HandoffSessions, QueueFacts, LeaveQueue DEF Dispatch
  <1>7. ASSUME NEW j \in Jobs, Return(j)
        PROVE  SInv'
    BY <1>7, SessionsDiffer, HandoffSessions, QueueFacts, LeaveQueue DEF Return, ImportLockWaiting
  <1>8. ASSUME NEW j \in Jobs, LaunchFails(j)
        PROVE  SInv'
    <2>1. UNCHANGED <<log, attempt, asked>> /\ rpc[j] = "readying"
      BY <1>8 DEF LaunchFails
    <2>2. owner = Request(j) /\ (owner' = Free \/ owner' = Holder(j))
      BY <1>8, <2>1, RequestLeaves DEF LaunchFails
    <2>3. NothingSince'
      BY <2>1, <2>2, SessionsDiffer, HandoffSessions
    <2>4. Seamless'
      BY <2>1
    <2>5. QED
      BY <2>3, <2>4
  <1>9. ASSUME NEW j \in Jobs, RecordLaunchFailure(j)
        PROVE  SInv'
    BY <1>9, SessionsDiffer, HandoffSessions, QueueFacts, LeaveQueue DEF RecordLaunchFailure
  <1>10. ASSUME NEW j \in Jobs, HolderBlock(j)
        PROVE  SInv'
    <2>1. UNCHANGED <<log, attempt, asked>>
      BY <1>10 DEF HolderBlock
    <2>2. owner = Request(j) /\ owner' = owner
      BY <1>10, SessionsDiffer, HandoffSessions DEF HolderBlock, HoldersQueue, Block
    <2>3. QED
      BY <2>1, <2>2
  <1>11. ASSUME NEW j \in Jobs, HolderHeld(j)
        PROVE  SInv'
    BY <1>11, SessionsDiffer, HandoffSessions, QueueFacts, LeaveQueue DEF HolderHeld
  <1>12. ASSUME NEW j \in Jobs, HolderRelease(j)
        PROVE  SInv'
    <2>1. UNCHANGED <<log, attempt, asked>>
      BY <1>12 DEF HolderRelease
    <2>2. owner' = owner \/ (owner = Holder(j) /\ (owner' = Free \/ owner' = Worker(j)))
      BY <1>12, LeaveQueue, HolderLeaves DEF HolderRelease
    <2>3. QED
      BY <2>1, <2>2, SessionsDiffer, HandoffSessions
  <1>13. ASSUME NEW j \in Jobs, HolderLost(j)
        PROVE  SInv'
    BY <1>13, SessionsDiffer, HandoffSessions, QueueFacts, LeaveQueue DEF HolderLost
  <1>14. ASSUME NEW j \in Jobs, WorkerOwn(j)
        PROVE  SInv'
    BY <1>14, SessionsDiffer, HandoffSessions, QueueFacts, LeaveQueue DEF WorkerOwn
  <1>15. ASSUME NEW j \in Jobs, WorkerWake(j)
        PROVE  SInv'
    <2>1. UNCHANGED <<log, attempt, asked>>
      BY <1>15 DEF WorkerWake
    <2>2. owner' = owner
      BY <1>15, SessionsDiffer, HandoffSessions DEF WorkerWake, WorkersQueue, Block
    <2>3. QED
      BY <2>1, <2>2
  <1>16. ASSUME NEW j \in Jobs, WorkerBegin(j)
        PROVE  SInv'
    BY <1>16, SessionsDiffer, HandoffSessions, QueueFacts, LeaveQueue DEF WorkerBegin, Observe
  <1>17. ASSUME NEW j \in Jobs, WorkReplay(j)
        PROVE  SInv'
    BY <1>17, SessionsDiffer, HandoffSessions, QueueFacts, LeaveQueue DEF WorkReplay
  <1>18. ASSUME NEW j \in Jobs, WorkReacquire(j)
        PROVE  SInv'
    <2>1. UNCHANGED <<log, attempt, asked>>
      BY <1>18 DEF WorkReacquire
    <2>2. owner' = owner \/ (owner' = Worker(j) /\ attempt[j] = 2)
      BY <1>18 DEF WorkReacquire, Take, Replays
    <2>3. QED
      BY <2>1, <2>2, SessionsDiffer, HandoffSessions
  <1>19. ASSUME NEW j \in Jobs, WorkDone(j)
        PROVE  SInv'
    BY <1>19, SessionsDiffer, HandoffSessions, QueueFacts, LeaveQueue DEF WorkDone
  <1>20. ASSUME NEW j \in Jobs, WorkFails(j)
        PROVE  SInv'
    BY <1>20, SessionsDiffer, HandoffSessions, QueueFacts, LeaveQueue DEF WorkFails
  <1>21. ASSUME NEW j \in Jobs, WorkerCommit(j)
        PROVE  SInv'
    BY <1>21, SessionsDiffer, HandoffSessions, QueueFacts, LeaveQueue DEF WorkerCommit
  <1>22. ASSUME NEW j \in Jobs, CommitResolves(j)
        PROVE  SInv'
    <2>1. UNCHANGED <<attempt, asked>>
      BY <1>22 DEF CommitResolves
    <2>2. CASE log' = log
      <3>1. owner' = owner \/ owner' = Free
        BY <1>22, QueueFacts, LeaveQueue DEF CommitResolves
      <3>2. QED
        BY <2>1, <2>2, <3>1, SessionsDiffer, HandoffSessions
    <2>3. CASE log' # log
      <3>1. Commit(j) /\ Writing(j)
        BY <1>22, <2>3 DEF CommitResolves, Writing
      <3>2. owner = Worker(j) /\ base[j] = Len(log)
        BY <3>1, JobsAssumption DEF WritersOwn, WritersFresh, SessionOf
      <3>3. owner' = Free
        BY <1>22, <3>2, QueueFacts, LeaveQueue DEF CommitResolves
      <3>4. NothingSince'
        BY <3>3, SessionsDiffer, HandoffSessions
      <3>5. ASSUME NEW i \in 1..Len(log'), log'[i].by \in Jobs, attempt[log'[i].by] = 1
            PROVE  asked[log'[i].by] = log'[i].seen
        <4>1. CASE i \in 1..Len(log)
          BY <3>1, <3>5, <4>1, CommitFacts
        <4>2. CASE i = Len(log) + 1
          BY <3>1, <3>2, <3>5, <4>2, CommitFacts
        <4>3. QED
          BY <3>1, <4>1, <4>2, CommitFacts
      <3>6. QED
        BY <2>1, <3>4, <3>5
    <2>4. QED
      BY <2>2, <2>3
  <1>23. ASSUME NEW j \in Jobs, RecordFailure(j)
        PROVE  SInv'
    BY <1>23, SessionsDiffer, HandoffSessions, QueueFacts, LeaveQueue DEF RecordFailure
  <1>24. ASSUME NEW j \in Jobs, WorkerClose(j)
        PROVE  SInv'
    BY <1>24, SessionsDiffer, HandoffSessions, QueueFacts, LeaveQueue DEF WorkerClose
  <1>25. ASSUME NEW j \in Jobs, WorkerLost(j)
        PROVE  SInv'
    BY <1>25, SessionsDiffer, HandoffSessions, QueueFacts, LeaveQueue DEF WorkerLost
  <1>26. ASSUME NEW s \in Syncs, SyncLock(s)
        PROVE  SInv'
    BY <1>26, SessionsDiffer, HandoffSessions, QueueFacts, LeaveQueue DEF SyncLock, Take, Observe
  <1>27. ASSUME NEW s \in Syncs, SyncReplay(s)
        PROVE  SInv'
    BY <1>27, SessionsDiffer, HandoffSessions, QueueFacts, LeaveQueue DEF SyncReplay
  <1>28. ASSUME NEW s \in Syncs, SyncEnd(s)
        PROVE  SInv'
    <2>1. UNCHANGED <<attempt, asked>>
      BY <1>28 DEF SyncEnd
    <2>2. CASE log' = log
      <3>1. owner' = owner \/ owner' = Free
        BY <1>28, QueueFacts, LeaveQueue DEF SyncEnd
      <3>2. QED
        BY <2>1, <2>2, <3>1, SessionsDiffer, HandoffSessions
    <2>3. CASE log' # log
      <3>1. Commit(s) /\ Writing(s)
        BY <1>28, <2>3 DEF SyncEnd, Writing
      <3>2. owner = Sync(s) /\ base[s] = Len(log)
        BY <3>1, JobsAssumption DEF WritersOwn, WritersFresh, SessionOf
      <3>3. owner' = Free
        BY <1>28, <3>2, QueueFacts, LeaveQueue DEF SyncEnd
      <3>4. NothingSince'
        BY <3>3, SessionsDiffer, HandoffSessions
      <3>5. ASSUME NEW i \in 1..Len(log'), log'[i].by \in Jobs, attempt[log'[i].by] = 1
            PROVE  asked[log'[i].by] = log'[i].seen
        <4>1. CASE i \in 1..Len(log)
          BY <3>1, <3>5, <4>1, CommitFacts
        <4>2. CASE i = Len(log) + 1
          <5>1. log'[i].by = s
            BY <3>1, <4>2, CommitFacts
          <5>2. QED
            BY <3>5, <5>1, JobsAssumption
        <4>3. QED
          BY <3>1, <4>1, <4>2, CommitFacts
      <3>6. QED
        BY <2>1, <3>4, <3>5
    <2>4. QED
      BY <2>2, <2>3
  <1>29. ASSUME NEW k \in Sweepers, SweepList(k)
        PROVE  SInv'
    BY <1>29, SessionsDiffer, HandoffSessions, QueueFacts, LeaveQueue DEF SweepList
  <1>30. ASSUME NEW k \in Sweepers, SweepClaim(k)
        PROVE  SInv'
    BY <1>30, SessionsDiffer, HandoffSessions, QueueFacts, LeaveQueue DEF SweepClaim
  <1>31. ASSUME NEW k \in Sweepers, SweepLock(k)
        PROVE  SInv'
    BY <1>31, SessionsDiffer, HandoffSessions, QueueFacts, LeaveQueue DEF SweepLock, Take
  <1>32. ASSUME NEW k \in Sweepers, SweepFail(k)
        PROVE  SInv'
    BY <1>32, SessionsDiffer, HandoffSessions, QueueFacts, LeaveQueue DEF SweepFail
  <1>33. ASSUME NEW k \in Sweepers, SweepEnd(k)
        PROVE  SInv'
    BY <1>33, SessionsDiffer, HandoffSessions, QueueFacts, LeaveQueue DEF SweepEnd
  <1>34. CASE Restart
    BY <1>34, SessionsDiffer, HandoffSessions, QueueFacts, LeaveQueue DEF Restart
  <1>35. CASE UNCHANGED vars
    BY <1>35 DEF vars
  <1>36. QED
    BY <1>1, <1>2, <1>3, <1>4, <1>5, <1>6, <1>7, <1>8, <1>9, <1>10, <1>11, <1>12,
       <1>13, <1>14, <1>15, <1>16, <1>17, <1>18, <1>19, <1>20, <1>21, <1>22, <1>23, <1>24,
       <1>25, <1>26, <1>27, <1>28, <1>29, <1>30, <1>31, <1>32, <1>33, <1>34, <1>35
       DEF Next, RequestStep, HolderStep, WorkerStep, SyncStep, SweepStep

-----------------------------------------------------------------------------
\* No write slips in between the request that validated a job and the job's own first
\* attempt, as long as no deadline of a hand-over is missed.
THEOREM NoGap == Spec => []NoOverwriteGap
  <1>1. Init => (smooth => Handoffs)
    BY SMTT(30) DEF Init, Handoffs, OneQueue, RequestsHold, HoldersQueue, WorkersQueue, Replays, NothingSince,
       Seamless, Request, Holder, Worker, Free
  <1>2. ASSUME IInv, smooth => Handoffs, [Next]_vars
        PROVE  (smooth => Handoffs)'
    <2>1. smooth' => smooth
      <3>1. ASSUME NEW j \in Jobs, RequestLock(j) \/ RequestStep(j) PROVE smooth' => smooth
        BY <3>1 DEF RequestStep, RequestLock, RequestRefused, StartWorker, StartHolder, StartJob,
           Dispatch, Return, LaunchFails, RecordLaunchFailure
      <3>2. ASSUME NEW j \in Jobs, HolderStep(j) \/ HolderLost(j) PROVE smooth' => smooth
        BY <3>2 DEF HolderStep, HolderBlock, HolderHeld, HolderRelease, HolderLost
      <3>3. ASSUME NEW j \in Jobs, WorkerStep(j) \/ CommitResolves(j) \/ WorkerLost(j)
            PROVE  smooth' => smooth
        BY <3>3 DEF WorkerStep, WorkerOwn, WorkerWake, WorkerBegin, WorkReplay, WorkReacquire,
           WorkDone, WorkFails, WorkerCommit, CommitResolves, RecordFailure, WorkerClose, WorkerLost
      <3>4. ASSUME NEW s \in Syncs, SyncLock(s) \/ SyncStep(s) PROVE smooth' => smooth
        BY <3>4 DEF SyncStep, SyncLock, SyncReplay, SyncEnd
      <3>5. ASSUME NEW k \in Sweepers, SweepStep(k) PROVE smooth' => smooth
        BY <3>5 DEF SweepStep, SweepList, SweepClaim, SweepLock, SweepFail, SweepEnd
      <3>6. CASE Restart \/ UNCHANGED vars
        BY <3>6 DEF Restart, vars
      <3>7. QED
        BY <1>2, <3>1, <3>2, <3>3, <3>4, <3>5, <3>6 DEF Next
    <2>2. QED
      BY <1>2, <2>1, QueueStep, SinceStep DEF Handoffs
  <1>3. (smooth => Handoffs) => NoOverwriteGap
    BY DEF Handoffs, Seamless, NoOverwriteGap
  <1>4. QED
    BY <1>1, <1>2, <1>3, Invariance, PTL DEF Spec

-----------------------------------------------------------------------------
(* Settings: who has the import lock and who has the project's row.        *)

\* No two clients have locks on the project's row that exclude each other.
Compatible == \A c, d \in Clients : c # d => ~Excludes(mode[c], mode[d])

Kind(c, kinds) == req[c] # None /\ req[c].kind \in kinds

\* Which lock a client has at which point, and what its request is there.
Moded(c) ==
    /\ pc[c] = "idle" <=> req[c] = None
    /\ pc[c] # "idle" => seen[c] # None
    /\ pc[c] \in {"idle", "loaded", "handed", "planned", "done"} => mode[c] = "none"
    /\ pc[c] = "locked" /\ Kind(c, {"import"}) => mode[c] = "none"
    /\ pc[c] = "locked" /\ ~Kind(c, {"import"}) => Kind(c, {"settings"}) /\ mode[c] = "nokey"
    /\ pc[c] = "upgrade" => Kind(c, {"settings"}) /\ mode[c] = "nokey" /\ importer = c
    /\ pc[c] \in {"checked", "cascade"} =>
          Kind(c, {"settings"}) /\ mode[c] \in {"nokey", "update"}
    /\ pc[c] = "shared" => Kind(c, {"create"}) /\ mode[c] = "share"
    /\ pc[c] = "handed" => Kind(c, {"import"})
    /\ pc[c] = "planned" => Kind(c, {"import", "save"})
    /\ pc[c] = "writing" => Kind(c, {"import", "save"}) /\ mode[c] = "keyshare"

\* What a lock is worth: under a shared lock the copy of the project is current, under the
\* strongest one the project belongs to the client, and no import runs.
Current(c) ==
    /\ pc[c] = "shared" => seen[c] = project
    /\ mode[c] = "update" => seen[c] = project /\ importer = c

\* A change that replaces a policy or a base language has the strongest lock when it is
\* saved, and a base language is replaced only while there is no string.
Replacing(c) ==
    pc[c] = "cascade" => /\ NewPolicy(c) \/ NewBase(c) => mode[c] = "update"
                         /\ NewBase(c) => Stored = {}

\* An import keeps the import lock from its validation to its end, unless its handoff
\* failed; what it works with is current, and the language of its texts is the base.
Importing(c) ==
    Kind(c, {"import"}) =>
        /\ pc[c] \in {"locked", "planned", "writing"} => importer = c
        /\ pc[c] \in {"planned", "writing"} =>
              seen[c].base = project.base /\ seen[c].dup = project.dup
        /\ ~late /\ pc[c] \in {"handed", "planned", "writing"} =>
              importer = c /\ BaseAgrees(c, project.base)

SettingsInv ==
    /\ SettingsTypeOK /\ SourceLanguage /\ BaseStaysApart /\ Compatible
    /\ \A c \in Clients : Moded(c) /\ Current(c) /\ Replacing(c) /\ Importing(c)

-----------------------------------------------------------------------------
LEMMA RequestFields ==
    ASSUME NEW r \in Requests
    PROVE  /\ r # None
           /\ r.kind \in {"settings", "create", "save", "import"}
           /\ r.kind = "settings" => /\ r.gives \subseteq {"base", "targets", "dup"}
                                     /\ r.base \in Languages /\ r.targets \subseteq Languages
                                     /\ r.dup \in BOOLEAN
           /\ r.kind \in {"create", "save"} => r.id \in Strings
           /\ r.kind = "import" => r.ids \subseteq Strings /\ r.lang \in Languages \cup {None}
  <1>1. r \in AllRequests /\ None \notin AllRequests
    BY SettingsAssumption
  <1>2. QED
    BY <1>1 DEF AllRequests

LEMMA Fresh == SettingsInv => FreshSettings
  BY DEF SettingsInv, FreshSettings, Current, Importing, Moded, Kind

\* What a step of c leaves alone in the other clients.
Frame(c) ==
    /\ req' \in [Clients -> Requests \cup {None}] /\ pc' \in [Clients -> Pcs]
    /\ seen' \in [Clients -> Projects \cup {None}] /\ mode' \in [Clients -> Modes]
    /\ importer' \in Clients \cup {None}
    /\ \A d \in Clients \ {c} :
          /\ req'[d] = req[d] /\ pc'[d] = pc[d] /\ seen'[d] = seen[d] /\ mode'[d] = mode[d]
          /\ importer = d => importer' = d

Own(c) == Moded(c) /\ Current(c) /\ Replacing(c) /\ Importing(c)

\* Another client's part of the invariant outlives a step that does not change what it
\* relies on.
LEMMA Bystander ==
    ASSUME SettingsInv, NEW c \in Clients, Frame(c), NEW d \in Clients \ {c}, late => late',
           project' = project
           \/ /\ pc[d] # "shared" /\ mode[d] # "update"
              /\ importer = d => project'.base = project.base /\ project'.dup = project.dup,
           lang' = lang \/ mode[d] # "update"
    PROVE  Own(d)'
  <1> DEFINE Same == /\ req'[d] = req[d] /\ pc'[d] = pc[d] /\ seen'[d] = seen[d]
                     /\ mode'[d] = mode[d] /\ (importer = d => importer' = d)
  <1>1. Same
    BY DEF Frame
  <1>2. Own(d)
    BY DEF SettingsInv, Own
  <1>3. Moded(d)'
    BY <1>1, <1>2 DEF Own, Moded, Kind
  <1>4. Current(d)'
    BY <1>1, <1>2 DEF Own, Current
  <1>5. NewBase(d)' = NewBase(d) /\ NewPolicy(d)' = NewPolicy(d)
    BY <1>1 DEF NewBase, NewPolicy
  <1>6. lang' = lang => Stored' = Stored
    BY DEF Stored
  <1>7. Replacing(d)'
    BY <1>1, <1>2, <1>5, <1>6 DEF Own, Replacing
  <1>8. Importing(d)'
    BY <1>1, <1>2 DEF Own, Importing, Kind, BaseAgrees
  <1>9. QED
    BY <1>3, <1>4, <1>7, <1>8 DEF Own

\* The whole invariant after a step that changes neither project nor texts.
LEMMA Quiet ==
    ASSUME SettingsInv, NEW c \in Clients, Frame(c), project' = project, lang' = lang,
           rows' \in [Clients -> SUBSET Strings], tries' \in [Clients -> 0..2],
           late' \in BOOLEAN, late => late', crossed' = crossed, Own(c)',
           \A d \in Clients \ {c} : ~Excludes(mode'[c], mode[d])
    PROVE  SettingsInv'
  <1>1. SettingsTypeOK'
    BY DEF SettingsInv, SettingsTypeOK, Frame
  <1>2. SourceLanguage' /\ BaseStaysApart'
    BY DEF SettingsInv, SourceLanguage, BaseStaysApart, BaseIsNoTarget
  <1>3. Compatible'
    BY DEF SettingsInv, Compatible, Frame, Excludes
  <1>4. \A d \in Clients \ {c} : Own(d)'
    BY Bystander
  <1>5. QED
    BY <1>1, <1>2, <1>3, <1>4 DEF SettingsInv, Own

LEMMA EndedFrame ==
    ASSUME SettingsInv, NEW c \in Clients, Ended(c), pc[c] # "idle"
    PROVE  /\ Frame(c) /\ Own(c)' /\ rows' \in [Clients -> SUBSET Strings]
           /\ tries' \in [Clients -> 0..2] /\ mode'[c] = "none"
  <1>1. Frame(c)
    BY DEF SettingsInv, SettingsTypeOK, Ended, Frame, Pcs, Modes
  <1>2. pc'[c] = "done" /\ mode'[c] = "none" /\ req'[c] = req[c] /\ seen'[c] = seen[c]
    BY DEF SettingsInv, SettingsTypeOK, Ended
  <1>3. Own(c)'
    BY <1>2 DEF SettingsInv, Own, Moded, Current, Replacing, Importing, Kind
  <1>4. QED
    BY <1>1, <1>2, <1>3 DEF SettingsInv, SettingsTypeOK, Ended

LEMMA Refused ==
    ASSUME SettingsInv, NEW c \in Clients, Refuse(c), pc[c] # "idle"
    PROVE  SettingsInv'
  <1>1. \A d \in Clients : ~Excludes("none", mode[d])
    BY DEF Excludes
  <1>2. QED
    BY <1>1, EndedFrame, Quiet DEF Refuse, SettingsInv, SettingsTypeOK

THEOREM InitInv == SettingsInit => SettingsInv
  <1> SUFFICES ASSUME SettingsInit PROVE SettingsInv
    OBVIOUS
  <1>1. project \in Projects /\ project.base \in Languages /\ project.base \notin project.targets
    BY SettingsAssumption DEF SettingsInit, Projects
  <1>2. SettingsTypeOK
    <2>1. lang \in [Strings -> Languages \cup {None}]
      BY <1>1 DEF SettingsInit
    <2>2. "idle" \in Pcs /\ "none" \in Modes /\ 0 \in 0..2
      BY DEF Pcs, Modes
    <2>3. pc \in [Clients -> Pcs] /\ mode \in [Clients -> Modes] /\ tries \in [Clients -> 0..2]
      BY <2>2 DEF SettingsInit
    <2>4. /\ req \in [Clients -> Requests \cup {None}] /\ seen \in [Clients -> Projects \cup {None}]
          /\ rows \in [Clients -> SUBSET Strings]
      BY DEF SettingsInit
    <2>5. importer \in Clients \cup {None} /\ late \in BOOLEAN /\ crossed \in BOOLEAN
      BY DEF SettingsInit
    <2>6. QED
      BY <1>1, <2>1, <2>3, <2>4, <2>5 DEF SettingsTypeOK
  <1>3. SourceLanguage /\ BaseStaysApart
    <2>1. \A s \in Strings : lang[s] \in {None, project.base}
      BY DEF SettingsInit
    <2>2. QED
      BY <1>1, <2>1 DEF SourceLanguage, BaseStaysApart, BaseIsNoTarget
  <1>4. Compatible
    BY DEF SettingsInit, Compatible, Excludes
  <1>5. \A c \in Clients : Moded(c) /\ Current(c) /\ Replacing(c) /\ Importing(c)
    BY DEF SettingsInit, Moded, Current, Replacing, Importing, Kind
  <1>6. QED
    BY <1>2, <1>3, <1>4, <1>5 DEF SettingsInv

-----------------------------------------------------------------------------
(* Steps that change neither project nor texts.                            *)

LEMMA LoadInv ==
    ASSUME SettingsInv, NEW c \in Clients, NEW r \in Requests, Load(c, r)
    PROVE  SettingsInv'
  <1>1. Frame(c)
    BY DEF SettingsInv, SettingsTypeOK, Load, Frame, Pcs
  <1>2. /\ req'[c] = r /\ r # None /\ seen'[c] = project /\ project # None /\ mode'[c] = "none"
        /\ pc'[c] \in {"planned", "loaded"} /\ (pc'[c] = "planned" => r.kind = "save")
    BY RequestFields, SettingsAssumption DEF SettingsInv, SettingsTypeOK, Load, Moded
  <1>3. Own(c)'
    BY <1>2 DEF Own, Moded, Current, Replacing, Importing, Kind
  <1>4. \A d \in Clients : ~Excludes("none", mode[d])
    BY DEF Excludes
  <1>5. QED
    BY <1>1, <1>2, <1>3, <1>4, Quiet DEF SettingsInv, SettingsTypeOK, Load

LEMMA LockRowInv ==
    ASSUME SettingsInv, NEW c \in Clients, NEW s \in Strings, LockRow(c, s)
    PROVE  SettingsInv'
  <1>1. Frame(c)
    BY DEF SettingsInv, SettingsTypeOK, LockRow, Frame
  <1>2. Own(c)'
    BY DEF SettingsInv, LockRow, Own, Moded, Current, Replacing, Importing, Kind, NewBase, NewPolicy,
           Stored, BaseAgrees
  <1>3. \A d \in Clients \ {c} : ~Excludes(mode'[c], mode[d])
    BY DEF SettingsInv, Compatible, LockRow
  <1>4. rows' \in [Clients -> SUBSET Strings]
    BY DEF SettingsInv, SettingsTypeOK, LockRow
  <1>5. QED
    BY <1>1, <1>2, <1>3, <1>4, Quiet DEF SettingsInv, SettingsTypeOK, LockRow

LEMMA VictimInv ==
    ASSUME SettingsInv, NEW c \in Clients, Victim(c)
    PROVE  SettingsInv'
  <1>1. pc[c] # "idle"
    BY SettingsAssumption DEF Victim, InCircle, WaitsFor, Wanted, Unlocked, Excludes, Is, SettingsInv, Moded
  <1>2. CASE Refuse(c)
    BY <1>1, <1>2, Refused
  <1>3. CASE ~Refuse(c)
    <2>1. /\ tries' = [tries EXCEPT ![c] = 2] /\ rows' = [rows EXCEPT ![c] = {}]
          /\ UNCHANGED <<project, lang, importer, req, pc, seen, mode, late, crossed>>
      BY <1>3 DEF Victim
    <2>2. Frame(c)
      BY <2>1 DEF SettingsInv, SettingsTypeOK, Frame
    <2>3. Own(c)'
      BY <2>1 DEF SettingsInv, Own, Moded, Current, Replacing, Importing, Kind, NewBase, NewPolicy,
                  Stored, BaseAgrees
    <2>4. \A d \in Clients \ {c} : ~Excludes(mode'[c], mode[d])
      BY <2>1 DEF SettingsInv, Compatible
    <2>5. rows' \in [Clients -> SUBSET Strings] /\ tries' \in [Clients -> 0..2]
      BY <2>1 DEF SettingsInv, SettingsTypeOK
    <2>6. QED
      BY <2>1, <2>2, <2>3, <2>4, <2>5, Quiet DEF SettingsInv, SettingsTypeOK
  <1>4. QED
    BY <1>2, <1>3

LEMMA LockProjectInv ==
    ASSUME SettingsInv, NEW c \in Clients, LockProject(c)
    PROVE  SettingsInv'
  <1>1. Frame(c)
    BY DEF SettingsInv, SettingsTypeOK, LockProject, Frame, Pcs, Modes
  <1>2. mode'[c] = "nokey" /\ pc'[c] = "locked" /\ req'[c] = req[c] /\ seen'[c] = seen[c]
        /\ req[c].kind = "settings" /\ pc[c] = "loaded"
    BY DEF SettingsInv, SettingsTypeOK, LockProject, Is
  <1>3. Own(c)'
    BY <1>2 DEF SettingsInv, Own, Moded, Current, Replacing, Importing, Kind
  <1>4. \A d \in Clients \ {c} : ~Excludes("nokey", mode[d])
    BY DEF LockProject, Granted, Wanted, Is
  <1>5. QED
    BY <1>1, <1>2, <1>3, <1>4, Quiet DEF SettingsInv, SettingsTypeOK, LockProject

LEMMA RereadInv ==
    ASSUME SettingsInv, NEW c \in Clients, Reread(c)
    PROVE  SettingsInv'
  <1>1. Frame(c)
    BY DEF SettingsInv, SettingsTypeOK, Reread, Frame, Pcs
  <1>2. mode'[c] = "nokey" /\ pc'[c] = "checked" /\ req'[c] = req[c] /\ Kind(c, {"settings"})
        /\ seen'[c] # None /\ pc[c] = "locked"
    BY SettingsAssumption DEF SettingsInv, SettingsTypeOK, Reread, Is, Moded, Kind, Projects
  <1>3. Own(c)'
    BY <1>2 DEF SettingsInv, Own, Moded, Current, Replacing, Importing, Kind
  <1>4. \A d \in Clients \ {c} : ~Excludes(mode'[c], mode[d])
    BY DEF SettingsInv, Compatible, Reread
  <1>5. QED
    BY <1>1, <1>2, <1>3, <1>4, Quiet DEF SettingsInv, SettingsTypeOK, Reread

LEMMA AskImportsInv ==
    ASSUME SettingsInv, NEW c \in Clients, AskImports(c)
    PROVE  SettingsInv'
  <1>1. CASE importer # None
    BY <1>1, Refused DEF AskImports, Is
  <1>2. CASE importer = None
    <2>1. Frame(c)
      BY <1>2, SettingsAssumption DEF SettingsInv, SettingsTypeOK, AskImports, Frame, Pcs
    <2>2. mode'[c] = "nokey" /\ pc'[c] = "upgrade" /\ req'[c] = req[c] /\ Kind(c, {"settings"})
          /\ seen'[c] = seen[c] /\ pc[c] = "checked" /\ importer' = c
      BY <1>2 DEF SettingsInv, SettingsTypeOK, AskImports, Is, Moded
    <2>3. Own(c)'
      BY <2>2 DEF SettingsInv, Own, Moded, Current, Replacing, Importing, Kind
    <2>4. \A d \in Clients \ {c} : ~Excludes(mode'[c], mode[d])
      BY <1>2 DEF SettingsInv, Compatible, AskImports
    <2>5. QED
      BY <1>2, <2>1, <2>2, <2>3, <2>4, Quiet DEF SettingsInv, SettingsTypeOK, AskImports
  <1>3. QED
    BY <1>1, <1>2

LEMMA UpgradeInv ==
    ASSUME SettingsInv, NEW c \in Clients, Upgrade(c)
    PROVE  SettingsInv'
  <1>1. Frame(c)
    BY DEF SettingsInv, SettingsTypeOK, Upgrade, Frame, Pcs, Modes
  <1>2. mode'[c] = "update" /\ pc'[c] = "checked" /\ req'[c] = req[c] /\ Kind(c, {"settings"})
        /\ seen'[c] = project /\ project # None /\ pc[c] = "upgrade" /\ importer = c
    BY SettingsAssumption DEF SettingsInv, SettingsTypeOK, Upgrade, Moded
  <1>3. Own(c)'
    BY <1>2 DEF SettingsInv, Own, Moded, Current, Replacing, Importing, Kind, Upgrade
  <1>4. \A d \in Clients \ {c} : ~Excludes("update", mode[d])
    BY DEF Upgrade, Granted, Wanted, Is
  <1>5. QED
    BY <1>1, <1>2, <1>3, <1>4, Quiet DEF SettingsInv, SettingsTypeOK, Upgrade

LEMMA CheckSettingsInv ==
    ASSUME SettingsInv, NEW c \in Clients, CheckSettings(c)
    PROVE  SettingsInv'
  <1>1. CASE Refuse(c)
    BY <1>1, Refused DEF CheckSettings, Is
  <1>2. CASE ~Refuse(c)
    <2>1. /\ pc' = [pc EXCEPT ![c] = "cascade"] /\ ~HasStrings(c)
          /\ UNCHANGED <<project, lang, importer, req, seen, mode, rows, tries, late, crossed>>
      BY <1>2 DEF CheckSettings
    <2>2. Frame(c)
      BY <2>1 DEF SettingsInv, SettingsTypeOK, Frame, Pcs
    <2>3. pc[c] = "checked" /\ pc'[c] = "cascade" /\ (NewPolicy(c) \/ NewBase(c) => mode[c] = "update")
      BY <2>1 DEF CheckSettings, Is, SettingsInv, SettingsTypeOK
    <2>4. NewBase(c)' = NewBase(c) /\ NewPolicy(c)' = NewPolicy(c) /\ Stored' = Stored
      BY <2>1 DEF NewBase, NewPolicy, Stored
    <2>5. Replacing(c)'
      BY <2>1, <2>3, <2>4 DEF Replacing, HasStrings
    <2>6. Own(c)'
      BY <2>1, <2>3, <2>5 DEF SettingsInv, Own, Moded, Current, Importing, Kind
    <2>7. \A d \in Clients \ {c} : ~Excludes(mode'[c], mode[d])
      BY <2>1 DEF SettingsInv, Compatible
    <2>8. QED
      BY <2>1, <2>2, <2>6, <2>7, Quiet DEF SettingsInv, SettingsTypeOK
  <1>3. QED
    BY <1>1, <1>2

LEMMA ShareInv ==
    ASSUME SettingsInv, NEW c \in Clients, Share(c)
    PROVE  SettingsInv'
  <1>1. CASE Refuse(c)
    BY <1>1, Refused DEF Share, Is
  <1>2. CASE ~Refuse(c)
    <2>1. /\ seen' = [seen EXCEPT ![c] = project] /\ mode' = [mode EXCEPT ![c] = "share"]
          /\ pc' = [pc EXCEPT ![c] = "shared"]
          /\ UNCHANGED <<project, lang, importer, req, rows, tries, late, crossed>>
      BY <1>2 DEF Share
    <2>2. Frame(c)
      BY <2>1 DEF SettingsInv, SettingsTypeOK, Frame, Pcs, Modes
    <2>3. mode'[c] = "share" /\ pc'[c] = "shared" /\ seen'[c] = project /\ project # None
          /\ pc[c] = "loaded" /\ req[c].kind = "create"
      BY <2>1, SettingsAssumption DEF SettingsInv, SettingsTypeOK, Share, Is
    <2>4. Own(c)'
      BY <2>1, <2>3 DEF SettingsInv, Own, Moded, Current, Replacing, Importing, Kind
    <2>5. \A d \in Clients \ {c} : ~Excludes("share", mode[d])
      BY DEF Share, Granted, Wanted, Is
    <2>6. QED
      BY <2>1, <2>2, <2>3, <2>4, <2>5, Quiet DEF SettingsInv, SettingsTypeOK
  <1>3. QED
    BY <1>1, <1>2

LEMMA LockImportsInv ==
    ASSUME SettingsInv, NEW c \in Clients, LockImports(c)
    PROVE  SettingsInv'
  <1>1. CASE Refuse(c)
    BY <1>1, Refused DEF LockImports, Is
  <1>2. CASE ~Refuse(c)
    <2>1. /\ importer = None /\ importer' = c /\ pc' = [pc EXCEPT ![c] = "locked"]
          /\ UNCHANGED <<project, lang, req, seen, mode, rows, tries, late, crossed>>
      BY <1>2 DEF LockImports
    <2>2. Frame(c)
      BY <2>1, SettingsAssumption DEF SettingsInv, SettingsTypeOK, Frame, Pcs
    <2>3. pc[c] = "loaded" /\ pc'[c] = "locked" /\ req[c].kind = "import"
      BY <2>1 DEF SettingsInv, SettingsTypeOK, LockImports, Is
    <2>4. Own(c)'
      BY <2>1, <2>3 DEF SettingsInv, Own, Moded, Current, Replacing, Importing, Kind
    <2>5. \A d \in Clients \ {c} : ~Excludes(mode'[c], mode[d])
      BY <2>1 DEF SettingsInv, Compatible
    <2>6. QED
      BY <2>1, <2>2, <2>4, <2>5, Quiet DEF SettingsInv, SettingsTypeOK
  <1>3. QED
    BY <1>1, <1>2

LEMMA RefreshInv ==
    ASSUME SettingsInv, NEW c \in Clients, Refresh(c)
    PROVE  SettingsInv'
  <1>1. CASE Refuse(c)
    BY <1>1, Refused DEF Refresh, Is
  <1>2. CASE ~Refuse(c)
    <2>1. /\ BaseAgrees(c, project.base) /\ seen' = [seen EXCEPT ![c] = project]
          /\ pc' = [pc EXCEPT ![c] = IF req[c].async THEN "handed" ELSE "planned"]
          /\ UNCHANGED <<project, lang, importer, req, mode, rows, tries, late, crossed>>
      BY <1>2 DEF Refresh
    <2>2. Frame(c)
      BY <2>1 DEF SettingsInv, SettingsTypeOK, Frame, Pcs
    <2>3. /\ pc[c] = "locked" /\ pc'[c] \in {"handed", "planned"} /\ req[c].kind = "import"
          /\ seen'[c] = project /\ project # None
      BY <2>1, SettingsAssumption DEF SettingsInv, SettingsTypeOK, Refresh, Is
    <2>4. importer = c /\ mode[c] = "none" /\ Kind(c, {"import"})
      BY <2>3 DEF SettingsInv, Importing, Moded, Kind
    <2>5. Own(c)'
      BY <2>1, <2>3, <2>4 DEF Own, Moded, Current, Replacing, Importing, Kind, BaseAgrees
    <2>6. \A d \in Clients \ {c} : ~Excludes(mode'[c], mode[d])
      BY <2>1 DEF SettingsInv, Compatible
    <2>7. QED
      BY <2>1, <2>2, <2>5, <2>6, Quiet DEF SettingsInv, SettingsTypeOK
  <1>3. QED
    BY <1>1, <1>2

LEMMA HandoffFailsInv ==
    ASSUME SettingsInv, NEW c \in Clients, HandoffFails(c)
    PROVE  SettingsInv'
  <1>1. Frame(c)
    BY DEF SettingsInv, SettingsTypeOK, HandoffFails, Frame
  <1>2. Own(c)'
    BY DEF SettingsInv, HandoffFails, Own, Moded, Current, Replacing, Importing, Kind
  <1>3. \A d \in Clients \ {c} : ~Excludes(mode'[c], mode[d])
    BY DEF SettingsInv, Compatible, HandoffFails
  <1>4. QED
    BY <1>1, <1>2, <1>3, Quiet DEF SettingsInv, SettingsTypeOK, HandoffFails

LEMMA ResumeInv ==
    ASSUME SettingsInv, NEW c \in Clients, Resume(c)
    PROVE  SettingsInv'
  <1>1. Frame(c)
    BY SettingsAssumption DEF SettingsInv, SettingsTypeOK, Resume, Frame, Pcs
  <1>2. /\ pc[c] = "handed" /\ pc'[c] = "planned" /\ seen'[c] = project /\ project # None
        /\ importer' = c /\ Kind(c, {"import"}) /\ mode[c] = "none"
        /\ ~late => BaseAgrees(c, project.base)
    BY SettingsAssumption DEF SettingsInv, SettingsTypeOK, Resume, Moded, Importing
  <1>3. Own(c)'
    BY <1>2 DEF Resume, Own, Moded, Current, Replacing, Importing, Kind, BaseAgrees
  <1>4. \A d \in Clients \ {c} : ~Excludes(mode'[c], mode[d])
    BY DEF SettingsInv, Compatible, Resume
  <1>5. QED
    BY <1>1, <1>3, <1>4, Quiet DEF SettingsInv, SettingsTypeOK, Resume

LEMMA AuditInv ==
    ASSUME SettingsInv, NEW c \in Clients, Audit(c)
    PROVE  SettingsInv'
  <1>1. Frame(c)
    BY DEF SettingsInv, SettingsTypeOK, Audit, Frame, Pcs, Modes
  <1>2. pc[c] = "planned" /\ pc'[c] = "writing" /\ mode'[c] = "keyshare" /\ req'[c] = req[c]
        /\ seen'[c] = seen[c]
    BY DEF SettingsInv, SettingsTypeOK, Audit
  <1>3. Own(c)'
    BY <1>2 DEF SettingsInv, Audit, Own, Moded, Current, Replacing, Importing, Kind, BaseAgrees
  <1>4. \A d \in Clients \ {c} : ~Excludes("keyshare", mode[d])
    BY DEF Audit, Granted, Wanted, Is
  <1>5. QED
    BY <1>1, <1>2, <1>3, <1>4, Quiet DEF SettingsInv, SettingsTypeOK, Audit

-----------------------------------------------------------------------------
(* Steps that write.                                                       *)

\* A change of the project ends with its lock: nobody shares the row with it, and a policy
\* or a base language is replaced under the import lock.
LEMMA SaveSettingsInv ==
    ASSUME SettingsInv, NEW c \in Clients, SaveSettings(c)
    PROVE  SettingsInv'
  <1>1. /\ pc[c] = "cascade" /\ Ended(c) /\ lang' = lang /\ late' = late
        /\ project' = Merged(Assigned(c), seen[c], project)
        /\ crossed' = (crossed \/ seen[c].base # project.base)
    BY DEF SaveSettings, Is
  <1>2. /\ mode[c] \in {"nokey", "update"} /\ req[c] \in Requests /\ req[c].kind = "settings"
        /\ seen[c] \in Projects /\ project \in Projects
        /\ mode[c] = "update" => seen[c] = project /\ importer = c
        /\ NewPolicy(c) \/ NewBase(c) => mode[c] = "update"
        /\ NewBase(c) => Stored = {}
    BY <1>1 DEF SettingsInv, SettingsTypeOK, Moded, Current, Replacing, Kind
  <1>3. /\ req[c].gives \subseteq {"base", "targets", "dup"} /\ req[c].base \in Languages
        /\ req[c].targets \subseteq Languages /\ req[c].dup \in BOOLEAN
    BY <1>2, RequestFields
  <1> DEFINE a == Assigned(c)
  <1>4. a \in Projects /\ (a.base # seen[c].base => NewBase(c))
        /\ (a.dup # seen[c].dup => NewPolicy(c))
    BY <1>2, <1>3 DEF Assigned, Projects, Validated, NewBase, NewPolicy
  <1>5. a.targets = seen[c].targets \/ a.base \notin a.targets
    BY DEF Assigned, Validated
  <1>5b. NewBase(c) => a.base \notin a.targets
    BY DEF Assigned, Validated, NewBase
  <1> HIDE DEF a
  <1>6. /\ project' \in Projects
        /\ project'.base = IF a.base # seen[c].base THEN a.base ELSE project.base
        /\ project'.targets = IF a.targets # seen[c].targets THEN a.targets ELSE project.targets
        /\ project'.dup = IF a.dup # seen[c].dup THEN a.dup ELSE project.dup
    BY <1>1, <1>2, <1>4 DEF a, Merged, Projects
  <1>7. Frame(c) /\ Own(c)' /\ mode'[c] = "none"
        /\ rows' \in [Clients -> SUBSET Strings] /\ tries' \in [Clients -> 0..2]
    BY <1>1, EndedFrame
  <1>8. SettingsTypeOK'
    BY <1>1, <1>6, <1>7 DEF SettingsInv, SettingsTypeOK, Frame
  <1>9. SourceLanguage'
    <2>1. CASE NewBase(c)
      BY <1>1, <1>2, <2>1 DEF SourceLanguage, Stored
    <2>2. CASE ~NewBase(c)
      <3>1. project'.base = project.base
        BY <1>4, <1>6, <2>2
      <3>2. QED
        BY <1>1, <3>1 DEF SettingsInv, SourceLanguage
    <2>3. QED
      BY <2>1, <2>2
  <1>10. BaseStaysApart'
    <2> SUFFICES ASSUME ~crossed' PROVE project'.base \notin project'.targets
      BY DEF BaseStaysApart, BaseIsNoTarget
    <2>1. ~crossed /\ seen[c].base = project.base /\ project.base \notin project.targets
      BY <1>1 DEF SettingsInv, SettingsTypeOK, BaseStaysApart, BaseIsNoTarget
    <2>2. CASE NewBase(c)
      <3>1. seen[c] = project
        BY <1>2, <2>2
      <3>2. project'.base = a.base /\ project'.targets = a.targets
        BY <1>6, <3>1
      <3>3. QED
        BY <1>5b, <2>2, <3>2
    <2>3. CASE ~NewBase(c)
      <3>1. project'.base = project.base /\ a.base = project.base
        BY <1>4, <1>6, <2>1, <2>3
      <3>2. CASE a.targets = seen[c].targets
        BY <1>6, <2>1, <3>1, <3>2
      <3>3. CASE a.targets # seen[c].targets
        BY <1>5, <1>6, <3>1, <3>3
      <3>4. QED
        BY <3>2, <3>3
    <2>4. QED
      BY <2>2, <2>3
  <1>11. Compatible'
    BY <1>7 DEF SettingsInv, Compatible, Frame, Excludes
  <1>12. ASSUME NEW d \in Clients \ {c} PROVE Own(d)'
    <2>1. pc[d] # "shared" /\ mode[d] # "update"
      BY <1>2 DEF SettingsInv, Compatible, Excludes, Moded
    <2>2. importer = d => project'.base = project.base /\ project'.dup = project.dup
      BY <1>2, <1>4, <1>6
    <2>3. QED
      BY <1>1, <1>7, <2>1, <2>2, Bystander
  <1>13. QED
    BY <1>7, <1>8, <1>9, <1>10, <1>11, <1>12 DEF SettingsInv, Own

\* A step that only writes texts and ends its request.
LEMMA WroteTexts ==
    ASSUME SettingsInv, NEW c \in Clients, Ended(c), pc[c] # "idle",
           UNCHANGED <<project, late, crossed>>, lang' \in [Strings -> Languages \cup {None}],
           ~late => \A s \in Strings : lang'[s] \in {None, project.base},
           \A d \in Clients \ {c} : mode[d] # "update"
    PROVE  SettingsInv'
  <1>1. Frame(c) /\ Own(c)' /\ mode'[c] = "none"
        /\ rows' \in [Clients -> SUBSET Strings] /\ tries' \in [Clients -> 0..2]
    BY EndedFrame
  <1>2. SettingsTypeOK'
    BY <1>1 DEF SettingsInv, SettingsTypeOK, Frame
  <1>3. SourceLanguage' /\ BaseStaysApart'
    BY DEF SettingsInv, SourceLanguage, BaseStaysApart, BaseIsNoTarget
  <1>4. Compatible'
    BY <1>1 DEF SettingsInv, Compatible, Frame, Excludes
  <1>5. \A d \in Clients \ {c} : Own(d)'
    BY <1>1, Bystander
  <1>6. QED
    BY <1>1, <1>2, <1>3, <1>4, <1>5 DEF SettingsInv, Own

LEMMA CreateInv ==
    ASSUME SettingsInv, NEW c \in Clients, Create(c)
    PROVE  SettingsInv'
  <1>1. CASE Refuse(c)
    BY <1>1, Refused DEF Create
  <1>2. CASE ~Refuse(c)
    <2>1. /\ pc[c] = "shared" /\ lang' = [lang EXCEPT ![req[c].id] = seen[c].base] /\ Ended(c)
          /\ UNCHANGED <<project, late, crossed>>
      BY <1>2 DEF Create
    <2>2. req[c] \in Requests /\ req[c].kind = "create" /\ mode[c] = "share"
          /\ seen[c] = project /\ project.base \in Languages
      BY <2>1 DEF SettingsInv, SettingsTypeOK, Moded, Current, Kind, Projects
    <2>3. req[c].id \in Strings
      BY <2>2, RequestFields
    <2>4. lang' \in [Strings -> Languages \cup {None}]
          /\ \A s \in Strings : lang'[s] \in {lang[s], project.base}
      BY <2>1, <2>2, <2>3 DEF SettingsInv, SettingsTypeOK
    <2>5. ~late => \A s \in Strings : lang'[s] \in {None, project.base}
      BY <2>4 DEF SettingsInv, SourceLanguage
    <2>6. \A d \in Clients \ {c} : mode[d] # "update"
      BY <2>2 DEF SettingsInv, Compatible, Excludes
    <2>7. QED
      BY <2>1, <2>4, <2>5, <2>6, WroteTexts
  <1>3. QED
    BY <1>1, <1>2

LEMMA WriteInv ==
    ASSUME SettingsInv, NEW c \in Clients, Write(c)
    PROVE  SettingsInv'
  <1>1. CASE Refuse(c)
    BY <1>1, Refused DEF Write
  <1>2. CASE ~Refuse(c)
    <2>1. /\ pc[c] = "writing" /\ req[c].kind # "save" /\ Ended(c)
          /\ lang' = [s \in Strings |-> IF s \in Ids(c) THEN TextsOf(c) ELSE lang[s]]
          /\ UNCHANGED <<project, late, crossed>>
      BY <1>2 DEF Write
    <2>2. Kind(c, {"import"}) /\ req[c] \in Requests /\ mode[c] = "keyshare"
          /\ seen[c].base = project.base /\ project.base \in Languages
          /\ (~late => BaseAgrees(c, project.base))
      BY <2>1 DEF SettingsInv, SettingsTypeOK, Moded, Importing, Kind, Projects
    <2>3. req[c].lang \in Languages \cup {None}
      BY <2>2, RequestFields DEF Kind
    <2>4. TextsOf(c) \in Languages /\ (~late => TextsOf(c) = project.base)
      BY <2>2, <2>3 DEF TextsOf, BaseAgrees
    <2>5. lang' \in [Strings -> Languages \cup {None}]
          /\ \A s \in Strings : lang'[s] \in {lang[s], TextsOf(c)}
      BY <2>1, <2>4 DEF SettingsInv, SettingsTypeOK
    <2>6. ~late => \A s \in Strings : lang'[s] \in {None, project.base}
      BY <2>4, <2>5 DEF SettingsInv, SourceLanguage
    <2>7. \A d \in Clients \ {c} : mode[d] # "update"
      BY <2>2 DEF SettingsInv, Compatible, Excludes
    <2>8. QED
      BY <2>1, <2>5, <2>6, <2>7, WroteTexts
  <1>3. QED
    BY <1>1, <1>2

-----------------------------------------------------------------------------
THEOREM NextInv == SettingsInv /\ [SettingsNext]_settingsVars => SettingsInv'
  <1> SUFFICES ASSUME SettingsInv, [SettingsNext]_settingsVars PROVE SettingsInv'
    OBVIOUS
  <1>1. CASE UNCHANGED settingsVars
    BY <1>1 DEF settingsVars, SettingsInv, SettingsTypeOK, SourceLanguage, BaseStaysApart, BaseIsNoTarget, Compatible,
                Moded, Current, Replacing, Importing, Kind, NewBase, NewPolicy, Stored, BaseAgrees
  <1>2. ASSUME NEW c \in Clients, NEW r \in Requests, Load(c, r) PROVE SettingsInv'
    BY <1>2, LoadInv
  <1>3. ASSUME NEW c \in Clients, HandoffFails(c) PROVE SettingsInv'
    BY <1>3, HandoffFailsInv
  <1>4. ASSUME NEW c \in Clients, Step(c) PROVE SettingsInv'
    BY <1>4, VictimInv, LockRowInv, LockProjectInv, RereadInv, AskImportsInv, UpgradeInv,
       CheckSettingsInv, SaveSettingsInv, ShareInv, CreateInv, LockImportsInv, RefreshInv,
       ResumeInv, AuditInv, WriteInv DEF Step
  <1>5. QED
    BY <1>1, <1>2, <1>3, <1>4 DEF SettingsNext

\* For any clients, requests, languages and strings: texts are in the base language, what
\* is about to be inserted is current, and the base is no target (update_project,
\* base_language_changed, validate_import_base_language).
THEOREM LanguagesAreSound == SettingsSpec => []LanguagesSound
  <1>1. SettingsInv => LanguagesSound
    BY Fresh DEF SettingsInv, LanguagesSound
  <1>2. QED
    BY <1>1, InitInv, NextInv, PTL DEF SettingsSpec

-----------------------------------------------------------------------------
(* Deadlocks.                                                              *)

\* Whoever has locked strings is an import or a save at its writes, or a change of the
\* policy that has the strongest lock.
Rowed(c) ==
    rows[c] # {} =>
        \/ Kind(c, {"save"}) /\ pc[c] \in {"planned", "writing"} /\ rows[c] \subseteq {req[c].id}
        \/ Kind(c, {"import"}) /\ pc[c] \in {"planned", "writing"}
        \/ pc[c] = "cascade" /\ mode[c] = "update"

RowInv == \A c \in Clients : Rowed(c)

LEMMA RowStep ==
    ASSUME SettingsInv, RowInv, [SettingsNext]_settingsVars
    PROVE  RowInv'
  <1>1. CASE UNCHANGED settingsVars
    BY <1>1 DEF settingsVars, RowInv, Rowed, Kind
  <1>2. ASSUME NEW c \in Clients, Ended(c) PROVE RowInv'
    BY <1>2 DEF Ended, SettingsInv, SettingsTypeOK, RowInv, Rowed, Kind
  <1>3. ASSUME NEW c \in Clients, NEW s \in Strings, LockRow(c, s) PROVE RowInv'
    <2>1. /\ rows' = [rows EXCEPT ![c] = @ \cup {s}] /\ UNCHANGED <<req, pc, mode>>
      BY <1>3 DEF LockRow
    <2>2. CASE pc[c] = "planned"
      <3>1. s \in Ids(c) /\ Kind(c, {"import", "save"})
        BY <1>3, <2>2 DEF LockRow, Unlocked, SettingsInv, Moded
      <3>2. Rowed(c)'
        BY <2>1, <2>2, <3>1 DEF SettingsInv, SettingsTypeOK, RowInv, Rowed, Kind, Ids
      <3>3. QED
        BY <2>1, <3>2 DEF SettingsInv, SettingsTypeOK, RowInv, Rowed, Kind
    <2>3. CASE pc[c] # "planned"
      <3>1. pc[c] = "cascade" /\ mode[c] = "update"
        BY <1>3, <2>3 DEF LockRow, Unlocked, SettingsInv, Replacing
      <3>2. Rowed(c)'
        BY <2>1, <3>1 DEF Rowed
      <3>3. QED
        BY <2>1, <3>2 DEF SettingsInv, SettingsTypeOK, RowInv, Rowed, Kind
    <2>4. QED
      BY <2>2, <2>3
  <1>4. ASSUME NEW c \in Clients, Victim(c) PROVE RowInv'
    <2>1. CASE Refuse(c)
      BY <1>2, <2>1 DEF Refuse
    <2>2. CASE ~Refuse(c)
      BY <1>4, <2>2 DEF Victim, SettingsInv, SettingsTypeOK, RowInv, Rowed, Kind
    <2>3. QED
      BY <2>1, <2>2
  \* The other steps keep the rows; who has some stays where it may have them.
  <1>5. ASSUME NEW c \in Clients, rows' = rows, rows[c] # {} => Rowed(c)',
               \A d \in Clients \ {c} : req'[d] = req[d] /\ pc'[d] = pc[d] /\ mode'[d] = mode[d]
        PROVE  RowInv'
    BY <1>5 DEF RowInv, Rowed, Kind
  <1>6. ASSUME NEW c \in Clients, NEW r \in Requests, Load(c, r) PROVE RowInv'
    <2>1. rows[c] = {}
      BY <1>6 DEF Load, RowInv, Rowed
    <2>2. QED
      BY <1>5, <1>6, <2>1 DEF Load, SettingsInv, SettingsTypeOK
  <1>7. ASSUME NEW c \in Clients, HandoffFails(c) \/ Resume(c) PROVE RowInv'
    <2>1. rows[c] = {}
      BY <1>7 DEF HandoffFails, Resume, RowInv, Rowed
    <2>2. QED
      BY <1>5, <1>7, <2>1 DEF HandoffFails, Resume, SettingsInv, SettingsTypeOK
  <1>8. ASSUME NEW c \in Clients, LockProject(c) \/ Reread(c) \/ Upgrade(c) PROVE RowInv'
    <2>1. rows[c] = {}
      BY <1>8 DEF LockProject, Reread, Upgrade, Is, RowInv, Rowed
    <2>2. QED
      BY <1>5, <1>8, <2>1 DEF LockProject, Reread, Upgrade, SettingsInv, SettingsTypeOK
  <1>9. ASSUME NEW c \in Clients, AskImports(c) \/ CheckSettings(c) \/ Share(c) \/ LockImports(c)
                                  \/ Refresh(c), ~Refuse(c)
        PROVE  RowInv'
    <2>1. rows[c] = {}
      BY <1>9 DEF AskImports, CheckSettings, Share, LockImports, Refresh, Is, RowInv, Rowed
    <2>2. QED
      BY <1>5, <1>9, <2>1 DEF AskImports, CheckSettings, Share, LockImports, Refresh, SettingsInv, SettingsTypeOK
  <1>10. ASSUME NEW c \in Clients, Audit(c) PROVE RowInv'
    <2>1. /\ rows' = rows /\ pc[c] = "planned" /\ pc'[c] = "writing" /\ req'[c] = req[c]
          /\ \A d \in Clients \ {c} : req'[d] = req[d] /\ pc'[d] = pc[d] /\ mode'[d] = mode[d]
      BY <1>10 DEF Audit, SettingsInv, SettingsTypeOK
    <2>2. rows[c] # {} => Rowed(c)'
      BY <2>1 DEF RowInv, Rowed, Kind
    <2>3. QED
      BY <1>5, <2>1, <2>2
  <1>11. ASSUME NEW c \in Clients, SaveSettings(c) \/ Create(c) \/ Write(c) \/ Refuse(c)
         PROVE  RowInv'
    <2>1. Ended(c)
      BY <1>11 DEF SaveSettings, Create, Write, Refuse
    <2>2. QED
      BY <1>2, <2>1
  <1>12. QED
    BY <1>1, <1>3, <1>4, <1>6, <1>7, <1>8, <1>9, <1>10, <1>11 DEF SettingsNext, Step

\* For any clients, the import lock keeps imports out of every deadlock with settings and
\* saves: who has what an import waits for waits for nobody.
THEOREM ImportsAreClear == SettingsSpec => []ImportsKeepClear
  <1>1. SettingsInit => RowInv
    BY DEF SettingsInit, RowInv, Rowed
  <1>2. ASSUME SettingsInv, RowInv PROVE ImportsKeepClear
    <2> SUFFICES ASSUME NEW c \in Clients, req[c] # None, req[c].kind = "import", InCircle(c)
                 PROVE  FALSE
      BY DEF ImportsKeepClear
    <2>1. PICK D \in SUBSET Clients :
              c \in D /\ \A d \in D : \E e, f \in D : WaitsFor(d, e) /\ WaitsFor(f, d)
      BY DEF InCircle
    <2>2. PICK e \in D : WaitsFor(c, e)
      BY <2>1
    <2>3. PICK g \in D : WaitsFor(e, g)
      BY <2>1, <2>2
    <2>4. /\ pc[c] = "planned" /\ importer = c /\ e \in Clients /\ e # c
          /\ mode[e] = "update" \/ Unlocked(c) \cap rows[e] # {}
      BY <1>2, <2>1, <2>2 DEF WaitsFor, Wanted, Unlocked, Excludes, Is, SettingsInv, Moded, Importing, Kind
    <2>5. \A d \in Clients \ {c} : mode[d] # "update"
      BY <1>2, <2>4 DEF SettingsInv, Current
    <2>6. Kind(e, {"save"}) /\ pc[e] \in {"planned", "writing"} /\ req[e].id \in rows[e]
      BY <1>2, <2>4, <2>5 DEF RowInv, Rowed, SettingsInv, Importing, Kind
    <2>7. Unlocked(e) = {}
      BY <2>6 DEF Unlocked, Ids, Kind
    <2>8. Wanted(e) \in {"keyshare", "none"}
      BY <2>6 DEF Wanted, Is
    <2>9. mode[g] = "update" /\ g \in Clients /\ g # e
      BY <2>1, <2>3, <2>7, <2>8 DEF WaitsFor, Excludes
    <2>10. g = c
      BY <2>5, <2>9
    <2>11. QED
      BY <1>2, <2>4, <2>9, <2>10 DEF SettingsInv, Moded
  <1>3. QED
    BY <1>1, <1>2, InitInv, NextInv, RowStep, PTL DEF SettingsSpec
=============================================================================
