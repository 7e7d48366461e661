----------------------------- MODULE AITranslation -----------------------------
(***************************************************************************)
(* AI translation of one project's strings into one locale, next to people *)
(* who edit the same strings.  Generation takes minutes and holds nothing  *)
(* but a job lock, on a connection of its own; reading the strings,        *)
(* saving the translations and finishing the job are separate              *)
(* transactions, so everything read before the model call may have changed *)
(* after it.  A sweep fails the jobs whose job lock nobody holds.          *)
(***************************************************************************)
EXTENDS Naturals, FiniteSets

CONSTANTS
    Jobs,         \* translation requests
    Plans,        \* the situations: requests and their kinds, strings, edits
    Strings,
    Texts,        \* source texts
    Sweepers,     \* server processes, each with one recovery loop
    None,         \* no translation, no owner
    Person,       \* author of a translation typed by hand
    MaxFaults     \* bound on lost connections, database errors and restarts

ASSUME AIAssumption ==
    /\ \A p \in Plans : /\ p.jobs \subseteq Jobs
                        /\ p.inline \subseteq p.jobs
                        /\ p.proposing \subseteq p.jobs \ p.inline
                        /\ p.overwriting \subseteq p.jobs \ p.proposing
                        /\ p.strings \subseteq Strings
                        /\ p.maxEdits \in Nat
    /\ None \notin Jobs \cup Texts \cup Sweepers \cup [by: Jobs \cup {Person}, of: Texts]
    /\ Person \notin Jobs
    /\ Jobs \cap Sweepers = {}
    /\ MaxFaults \in Nat

VARIABLES
    plan,      \* the situation: a member of Plans; maxEdits bounds edits and applications
    source,    \* source text of each string
    deleted,   \* the strings that are deleted
    cell,      \* translation of each string: None, or who wrote it from which text
    rowLock,   \* the job whose transaction locks the string's row, or None
    row,       \* committed jobs.status ("none": no row)
    pc,        \* the thread of each request, then of its background task
    chosen,    \* the strings a request selected, until the task loads them
    items,     \* what a job read: source text by string
    answered,  \* the strings the model gave a translation for
    staged,    \* the translations written in a job's open transaction
    inflight,  \* the jobs whose COMMIT was sent and is not resolved yet
    jobLock,   \* job lock of each job: the job, a sweeper, or None
    swpc, candidates, target, \* recovery sweep: step, jobs listed, job in hand
    wrote,     \* history: the jobs whose translations were committed
    edits, faults

stringVars == <<source, deleted, cell>>
workVars   == <<chosen, items, answered, staged>>
sweepVars  == <<swpc, candidates, target>>
vars == <<plan, stringVars, rowLock, row, pc, workVars, inflight, jobLock, sweepVars,
          wrote, edits, faults>>

Inline == plan.inline            \* small ones, answered inside the request: no job row
Proposing == plan.proposing      \* those that only propose; a person applies them later
Overwriting == plan.overwriting  \* those asked to replace existing translations

Cells == [by: Jobs \cup {Person}, of: Texts]
Steps == {"idle", "queued", "owned", "loading", "generating", "answered", "saved",
          "committing", "failing", "closing", "done"}
Status == {"none", "pending", "running", "completed", "failed"}
\* Mutant: the sweep forgets jobs whose callback never ran.
OpenRunning == {"running"}
Open == {"pending", "running"}

Terminal == {"completed", "failed"}
Background == Jobs \ Inline

\* Types of all variables (models.py JobStatus; the program points of translate.py).
TypeOK ==
    /\ plan \in Plans
    /\ source \in [Strings -> Texts]
    /\ deleted \subseteq Strings
    /\ cell \in [Strings -> Cells \cup {None}]
    /\ rowLock \in [Strings -> Jobs \cup {None}]
    /\ row \in [Jobs -> Status]
    /\ pc \in [Jobs -> Steps]
    /\ chosen \in [Jobs -> SUBSET Strings]
    /\ items \in [Jobs -> [Strings -> Texts \cup {None}]]
    /\ answered \in [Jobs -> SUBSET Strings]
    /\ staged \in [Jobs -> SUBSET Strings]
    /\ inflight \subseteq Jobs
    /\ jobLock \in [Jobs -> Jobs \cup Sweepers \cup {None}]
    /\ swpc \in [Sweepers -> {"idle", "listing", "claimed"}]
    /\ candidates \in [Sweepers -> SUBSET Jobs]
    /\ target \in [Sweepers -> Jobs \cup {None}]
    /\ wrote \subseteq Jobs
    /\ edits \in 0..plan.maxEdits
    /\ faults \in 0..MaxFaults

NoItems == [s \in Strings |-> None]

Init ==
    /\ plan \in Plans
    /\ \E text \in Texts : source = [s \in Strings |-> text]
    /\ deleted = Strings \ plan.strings
    /\ cell = [s \in Strings |-> None]
    /\ rowLock = [s \in Strings |-> None]
    /\ row = [j \in Jobs |-> "none"]
    /\ pc = [j \in Jobs |-> "idle"]
    /\ chosen = [j \in Jobs |-> {}]
    /\ items = [j \in Jobs |-> NoItems]
    /\ answered = [j \in Jobs |-> {}]
    /\ staged = [j \in Jobs |-> {}]
    /\ inflight = {}
    /\ jobLock = [j \in Jobs |-> None]
    /\ swpc = [k \in Sweepers |-> "idle"]
    /\ candidates = [k \in Sweepers |-> {}]
    /\ target = [k \in Sweepers |-> None]
    /\ wrote = {}
    /\ edits = 0
    /\ faults = 0

-----------------------------------------------------------------------------
Fault == faults < MaxFaults /\ faults' = faults + 1

\* Mutant: overwrite is taken for granted.
NeededAlways(j, s) == TRUE

\* needed_locales: empty translations, or all of them when overwriting.
Needed(j, s) == cell[s] = None \/ j \in Overwriting

\* work_items: the source text as it reads now, for every string that needs it.
Read(j, S) == [s \in Strings |-> IF s \in S /\ Needed(j, s) THEN source[s] ELSE None]

\* Mutant: the source conflict check is gone.
SameSourceAssumed(j, s) == TRUE

\* The string still has the text the translation was made from.
SameSource(j, s) == source[s] = items[j][s]

\* The job's database transaction ends without its writes.
Rollback(j) ==
    /\ rowLock' = [s \in Strings |-> IF rowLock[s] = j THEN None ELSE rowLock[s]]
    /\ staged' = [staged EXCEPT ![j] = {}]

-----------------------------------------------------------------------------
(* Requests: routers/translate.py.                                         *)

\* select_entries; more work than SYNC_THRESHOLD commits a pending job row.
Request(j) ==
    /\ pc[j] = "idle"
    /\ j \notin Inline
    /\ chosen' = [chosen EXCEPT ![j] = {s \in Strings \ deleted : Needed(j, s)}]
    /\ row' = [row EXCEPT ![j] = "pending"]
    /\ pc' = [pc EXCEPT ![j] = "queued"]
    /\ UNCHANGED <<plan, stringVars, rowLock, items, answered, staged, inflight, jobLock,
                   sweepVars, wrote, edits, faults>>

RequestInline(j) ==
    /\ pc[j] = "idle"
    /\ j \in Inline
    /\ items' = [items EXCEPT ![j] = Read(j, Strings \ deleted)]
    /\ pc' = [pc EXCEPT ![j] = "generating"]
    /\ UNCHANGED <<plan, stringVars, rowLock, row, chosen, answered, staged, inflight, jobLock,
                   sweepVars, wrote, edits, faults>>

-----------------------------------------------------------------------------
(* The background task: run_translate_job and run_propose_job.             *)

\* owned_job_connection.  A lock in a sweep's hands, or no connection, ends the
\* task; the row stays pending.
Own(j) ==
    /\ pc[j] = "queued"
    /\ \/ /\ jobLock[j] = None
          /\ jobLock' = [jobLock EXCEPT ![j] = j]
          /\ pc' = [pc EXCEPT ![j] = "owned"]
          /\ UNCHANGED faults
       \/ /\ jobLock[j] # None
          /\ pc' = [pc EXCEPT ![j] = "done"]
          /\ UNCHANGED <<jobLock, faults>>
       \/ /\ Fault
          /\ pc' = [pc EXCEPT ![j] = "done"]
          /\ UNCHANGED jobLock
    /\ UNCHANGED <<plan, stringVars, rowLock, row, workVars, inflight, sweepVars, wrote, edits>>

\* _claim_ai_job: only a pending job starts.
Claim(j) ==
    /\ pc[j] = "owned"
    /\ IF row[j] = "pending"
         THEN /\ row' = [row EXCEPT ![j] = "running"]
              /\ pc' = [pc EXCEPT ![j] = "loading"]
         ELSE /\ pc' = [pc EXCEPT ![j] = "closing"]
              /\ UNCHANGED row
    /\ UNCHANGED <<plan, stringVars, rowLock, workVars, inflight, jobLock, sweepVars, wrote,
                   edits, faults>>

\* The chosen strings are read again, deleted ones too, and let go of.
Load(j) ==
    /\ pc[j] = "loading"
    /\ items' = [items EXCEPT ![j] = Read(j, chosen[j])]
    /\ chosen' = [chosen EXCEPT ![j] = {}]
    /\ pc' = [pc EXCEPT ![j] = "generating"]
    /\ UNCHANGED <<plan, stringVars, rowLock, row, answered, staged, inflight, jobLock,
                   sweepVars, wrote, edits, faults>>

\* translate_batch answers for some of the items.  _require_job_lock reads a flag
\* of a connection nobody uses meanwhile: it does not notice a lost one.
Generate(j) ==
    /\ pc[j] = "generating"
    /\ \E S \in SUBSET {s \in Strings : items[j][s] # None} :
          answered' = [answered EXCEPT ![j] = S]
    /\ pc' = [pc EXCEPT ![j] = "answered"]
    /\ UNCHANGED <<plan, stringVars, rowLock, row, chosen, items, staged, inflight, jobLock,
                   sweepVars, wrote, edits, faults>>

\* save_translations: lock the live rows, read them afresh, skip changed sources
\* and, unless overwriting, translations that appeared meanwhile.
Save(j) ==
    /\ pc[j] = "answered"
    /\ j \notin Proposing
    /\ LET live == {s \in Strings \ deleted : items[j][s] # None} IN
         /\ \A s \in live : rowLock[s] = None
         /\ rowLock' = [s \in Strings |-> IF s \in live THEN j ELSE rowLock[s]]
         /\ staged' = [staged EXCEPT ![j] =
                         {s \in live \cap answered[j] :
                             SameSource(j, s) /\ Needed(j, s)}]
    /\ pc' = [pc EXCEPT ![j] = "saved"]
    /\ UNCHANGED <<plan, stringVars, row, chosen, items, answered, inflight, jobLock,
                   sweepVars, wrote, edits, faults>>

\* Mutant: the row is not looked at again.
StillRunningAssumed(j) == TRUE

\* An inline request has no row; a job's must still read running.
StillRunning(j) == j \in Inline \/ row[j] = "running"

\* _complete_ai_job: the translations and the status commit together, if the row
\* still reads running; an inline request just commits.
Complete(j) ==
    /\ pc[j] = "saved" \/ (pc[j] = "answered" /\ j \in Proposing)
    /\ IF StillRunning(j)
         THEN /\ pc' = [pc EXCEPT ![j] = "committing"]
              /\ inflight' = inflight \cup {j}
              /\ UNCHANGED <<rowLock, staged>>
         ELSE /\ pc' = [pc EXCEPT ![j] = "closing"]
              /\ Rollback(j)
              /\ UNCHANGED inflight
    /\ UNCHANGED <<plan, stringVars, row, chosen, items, answered, jobLock, sweepVars, wrote,
                   edits, faults>>

\* Mutant: the status is left to another transaction.
CompletedLater(j) == row

\* The status that the translations commit with.
Completed(j) == IF j \in Inline THEN row ELSE [row EXCEPT ![j] = "completed"]

\* Postgres resolves the COMMIT; it can be lost when the thread is gone.
CommitResolves(j) ==
    /\ j \in inflight
    /\ inflight' = inflight \ {j}
    /\ \/ /\ cell' = [s \in Strings |-> IF s \in staged[j]
                                          THEN [by |-> j, of |-> items[j][s]] ELSE cell[s]]
          /\ row' = Completed(j)
          /\ wrote' = IF staged[j] = {} THEN wrote ELSE wrote \cup {j}
       \/ /\ pc[j] # "committing"
          /\ UNCHANGED <<cell, row, wrote>>
    /\ Rollback(j)
    /\ pc' = IF pc[j] = "committing" THEN [pc EXCEPT ![j] = "closing"] ELSE pc
    /\ UNCHANGED <<plan, source, deleted, chosen, items, answered, jobLock, sweepVars, edits,
                   faults>>

\* The model call, a missing project, a database error: the work rolls back.  The
\* connection of a COMMIT may break without telling its outcome.
Fail(j) ==
    /\ pc[j] \in {"loading", "generating", "answered", "saved", "committing"}
    /\ IF pc[j] = "committing" THEN Fault ELSE UNCHANGED faults
    /\ pc' = [pc EXCEPT ![j] = "failing"]
    /\ IF j \in inflight THEN UNCHANGED <<rowLock, staged>> ELSE Rollback(j)
    /\ UNCHANGED <<plan, stringVars, row, chosen, items, answered, inflight, jobLock,
                   sweepVars, wrote, edits>>

\* _fail_ai_job: only a row that still reads running is failed.
MarkFailed(j) ==
    row' = IF row[j] = "running" THEN [row EXCEPT ![j] = "failed"] ELSE row

\* It waits for a COMMIT in flight, and may fail too.
RecordFailure(j) ==
    /\ pc[j] = "failing"
    /\ \/ j \notin inflight /\ MarkFailed(j) /\ UNCHANGED faults
       \/ Fault /\ UNCHANGED row
    /\ pc' = [pc EXCEPT ![j] = "closing"]
    /\ UNCHANGED <<plan, stringVars, rowLock, workVars, inflight, jobLock, sweepVars, wrote,
                   edits>>

\* owned_job_connection's exit unlocks the job, if the lock is still the task's.
Close(j) ==
    /\ pc[j] = "closing"
    /\ pc' = [pc EXCEPT ![j] = "done"]
    /\ jobLock' = [jobLock EXCEPT ![j] = IF @ = j THEN None ELSE @]
    /\ UNCHANGED <<plan, stringVars, rowLock, row, workVars, inflight, sweepVars, wrote, edits,
                   faults>>

\* The connection that holds the job lock breaks; the thread works on.
LockLost(j) ==
    /\ jobLock[j] = j
    /\ Fault
    /\ jobLock' = [jobLock EXCEPT ![j] = None]
    /\ UNCHANGED <<plan, stringVars, rowLock, row, pc, workVars, inflight, sweepVars, wrote,
                   edits>>

-----------------------------------------------------------------------------
(* The sweep: recover_abandoned_jobs for the AI kinds.                     *)

SweepList(k) ==
    /\ swpc[k] = "idle"
    /\ \E j \in Jobs : row[j] \in Open
    /\ swpc' = [swpc EXCEPT ![k] = "listing"]
    /\ candidates' = [candidates EXCEPT ![k] = {j \in Jobs : row[j] \in Open}]
    /\ UNCHANGED <<plan, stringVars, rowLock, row, pc, workVars, inflight, jobLock, target,
                   wrote, edits, faults>>

SweepClaim(k) ==
    /\ swpc[k] = "listing"
    /\ \E j \in candidates[k] :
         /\ candidates' = [candidates EXCEPT ![k] = @ \ {j}]
         /\ IF jobLock[j] = None
              THEN /\ jobLock' = [jobLock EXCEPT ![j] = k]
                   /\ target' = [target EXCEPT ![k] = j]
                   /\ swpc' = [swpc EXCEPT ![k] = "claimed"]
              ELSE UNCHANGED <<jobLock, target, swpc>>
    /\ UNCHANGED <<plan, stringVars, rowLock, row, pc, workVars, inflight, wrote, edits, faults>>

\* The row is read again; one that a COMMIT in flight locks is skipped.
SweepFail(k) ==
    /\ swpc[k] = "claimed"
    /\ LET j == target[k] IN
         /\ row' = IF row[j] \in Open /\ j \notin inflight
                     THEN [row EXCEPT ![j] = "failed"] ELSE row
         /\ jobLock' = [jobLock EXCEPT ![j] = None]
    /\ target' = [target EXCEPT ![k] = None]
    /\ swpc' = [swpc EXCEPT ![k] = "listing"]
    /\ UNCHANGED <<plan, stringVars, rowLock, pc, workVars, inflight, candidates, wrote, edits,
                   faults>>

SweepEnd(k) ==
    /\ swpc[k] = "listing"
    /\ candidates[k] = {}
    /\ swpc' = [swpc EXCEPT ![k] = "idle"]
    /\ UNCHANGED <<plan, stringVars, rowLock, row, pc, workVars, inflight, jobLock, candidates,
                   target, wrote, edits, faults>>

-----------------------------------------------------------------------------
(* People: each edit is one transaction that locks the string's row.  A    *)
(* PATCH without expected values reaches deleted strings too.              *)

Edited(s) ==
    /\ rowLock[s] = None
    /\ edits < plan.maxEdits
    /\ edits' = edits + 1
    /\ UNCHANGED <<plan, rowLock, row, pc, workVars, inflight, jobLock, sweepVars, wrote, faults>>

EditSource(s, text) ==
    /\ source' = [source EXCEPT ![s] = text]
    /\ UNCHANGED <<deleted, cell>>
    /\ Edited(s)

EditCell(s) ==
    /\ \/ cell' = [cell EXCEPT ![s] = [by |-> Person, of |-> source[s]]]
       \/ cell' = [cell EXCEPT ![s] = None]
    /\ UNCHANGED <<source, deleted>>
    /\ Edited(s)

\* delete_string on a string that was never published, and its undo.
DeleteOrRestore(s) ==
    /\ \/ s \notin deleted /\ deleted' = deleted \cup {s}
       \/ s \in deleted /\ deleted' = deleted \ {s}
    /\ UNCHANGED <<source, cell>>
    /\ Edited(s)

\* commit_proposals: some proposals of a finished job are applied together, or
\* none when the source of one changed.  Filled cells and deleted strings are
\* passed over.
Apply(j, S) ==
    /\ j \in Proposing
    /\ row[j] = "completed"
    /\ edits < plan.maxEdits
    /\ \A s \in S : rowLock[s] = None
    /\ \A s \in S \ deleted : SameSource(j, s)
    /\ cell' = [s \in Strings |-> IF s \in S \ deleted /\ cell[s] = None
                                    THEN [by |-> j, of |-> items[j][s]] ELSE cell[s]]
    /\ edits' = edits + 1
    /\ UNCHANGED <<plan, source, deleted, rowLock, row, pc, workVars, inflight, jobLock,
                   sweepVars, wrote, faults>>

-----------------------------------------------------------------------------
\* The server restarts: every thread, lock and open transaction is gone, except
\* the COMMITs already sent.
Restart ==
    /\ Fault
    /\ pc' = [j \in Jobs |-> IF pc[j] = "idle" THEN "idle" ELSE "done"]
    /\ jobLock' = [j \in Jobs |-> None]
    /\ rowLock' = [s \in Strings |-> IF rowLock[s] \in inflight THEN rowLock[s] ELSE None]
    /\ staged' = [j \in Jobs |-> IF j \in inflight THEN staged[j] ELSE {}]
    /\ swpc' = [k \in Sweepers |-> "idle"]
    /\ candidates' = [k \in Sweepers |-> {}]
    /\ target' = [k \in Sweepers |-> None]
    /\ UNCHANGED <<plan, stringVars, row, chosen, items, answered, inflight, wrote, edits>>

JobStep(j) ==
    \/ Own(j) \/ Claim(j) \/ Load(j) \/ Generate(j) \/ Save(j) \/ Complete(j)
    \/ Fail(j) \/ RecordFailure(j) \/ Close(j)

SweepStep(k) == SweepList(k) \/ SweepClaim(k) \/ SweepFail(k) \/ SweepEnd(k)

Next ==
    \/ \E j \in plan.jobs : \/ Request(j) \/ RequestInline(j) \/ JobStep(j)
                       \/ CommitResolves(j) \/ LockLost(j)
                       \/ \E S \in SUBSET answered[j] : Apply(j, S)
    \/ \E k \in Sweepers : SweepStep(k)
    \/ \E s \in plan.strings : \/ EditCell(s) \/ DeleteOrRestore(s)
                          \/ \E text \in Texts : EditSource(s, text)
    \/ Restart

Spec == Init /\ [][Next]_vars

\* Threads are scheduled, the model call returns or times out, Postgres resolves
\* COMMITs, and the recovery loop comes round again.  People promise nothing.
FairSpec ==
    /\ Spec
    /\ \A j \in Jobs : WF_vars(JobStep(j)) /\ WF_vars(CommitResolves(j))
    /\ \A k \in Sweepers : WF_vars(SweepStep(k))

-----------------------------------------------------------------------------
\* A generated translation is never stored for a text it was not made from, nor
\* for a deleted string, though people edit and delete during generation and
\* review (save_translations, commit_proposals).
TextsMatch ==
    [][\A s \in Strings :
          cell'[s] \notin {cell[s], None} /\ cell'[s].by \in Jobs =>
              cell'[s].of = source[s] /\ s \notin deleted]_vars

\* Unless asked to, the model's answers never replace a translation that people
\* or other jobs stored while it was thinking.
NoneReplaced ==
    [][\A s \in Strings :
          cell[s] # None /\ cell'[s] \notin {cell[s], None} =>
              cell'[s].by \in {Person} \cup Overwriting]_vars

\* A job reported failed or interrupted stored nothing, and one that stored its
\* translations is reported completed (_complete_ai_job, recover_abandoned_jobs).
OutcomeTruthful == \A j \in wrote \cap Background : row[j] = "completed"

\* A job's outcome never changes: not by a late worker, failure or sweep.
OutcomeFinal ==
    [][\A j \in Jobs : row[j] \in Terminal => row'[j] = row[j]]_row

\* Every job a client may poll ends, pending ones too, whatever dies on the way.
JobsEnd == \A j \in Jobs : row[j] \in {"pending", "running"} ~> row[j] \in Terminal

\* No string stays locked: people can edit again.
RowsComeFree == \A s \in Strings : []<>(rowLock[s] = None)

\* Whatever one fault breaks, jobs end and strings come free.
Progress == JobsEnd /\ RowsComeFree
=============================================================================
