------------------------- MODULE AITranslation_proofs -------------------------
(***************************************************************************)
(* AITranslation is safe for any sets of requests, strings and servers and *)
(* any numbers of edits and faults: what is translated fits the text it is *)
(* stored for, nothing is replaced unasked, and outcomes are truthful.     *)
(***************************************************************************)
EXTENDS AITranslation, TLAPS

\* A request that has not arrived has no row; a COMMIT in flight has found its job
\* running, and nothing may touch the row before it resolves.
Unstarted == \A j \in Jobs : pc[j] = "idle" => row[j] = "none"
InFlight == \A j \in inflight : j \in Inline \/ row[j] = "running"

\* What is staged was read, and stays as it was checked: the row is locked by the job,
\* has the text that was translated, is not deleted and has room for the translation.
Unread == \A j \in Jobs : pc[j] \in {"idle", "queued", "owned", "loading"} => staged[j] = {}
Held ==
    \A j \in Jobs : \A s \in staged[j] :
        /\ rowLock[s] = j
        /\ items[j][s] = source[s]
        /\ s \notin deleted
        /\ Needed(j, s)

IInv ==
    /\ TypeOK
    /\ Unstarted
    /\ InFlight
    /\ OutcomeTruthful
    /\ Unread
    /\ Held

-----------------------------------------------------------------------------
\* The type invariant is inductive, given that a staged translation was read.
LEMMA TypeStep == IInv /\ [Next]_vars => TypeOK'
  <1> SUFFICES ASSUME IInv, [Next]_vars PROVE TypeOK'
    OBVIOUS
  <1> USE AIAssumption DEF IInv, TypeOK, Inline, Proposing, Overwriting, Steps, Status, Cells, stringVars, workVars, sweepVars
  <1>1. ASSUME NEW j \in Jobs, Request(j) PROVE TypeOK'
    BY <1>1 DEF Request
  <1>2. ASSUME NEW j \in Jobs, RequestInline(j) PROVE TypeOK'
    BY <1>2 DEF RequestInline, Read
  <1>3. ASSUME NEW j \in Jobs, Own(j) PROVE TypeOK'
    <2>1. jobLock' \in [Jobs -> Jobs \cup Sweepers \cup {None}]
      <3>1. jobLock' \in {jobLock, [jobLock EXCEPT ![j] = j]}
        BY <1>3 DEF Own
      <3>2. CASE jobLock' = jobLock
        BY <3>2
      <3>3. CASE jobLock' = [jobLock EXCEPT ![j] = j]
        BY <3>3
      <3>4. QED
        BY <3>1, <3>2, <3>3
    <2>2. pc' \in [Jobs -> Steps] /\ faults' \in 0..MaxFaults
      BY <1>3 DEF Own, Fault
    <2>3. QED
      BY <1>3, <2>1, <2>2 DEF Own
  <1>4. ASSUME NEW j \in Jobs, Claim(j) PROVE TypeOK'
    <2>1. CASE row[j] = "pending"
      <3>1. row' = [row EXCEPT ![j] = "running"] /\ pc' = [pc EXCEPT ![j] = "loading"]
        BY <1>4, <2>1 DEF Claim
      <3>2. row' \in [Jobs -> Status] /\ pc' \in [Jobs -> Steps]
        BY <3>1
      <3>3. QED
        BY <1>4, <3>2 DEF Claim
    <2>2. CASE row[j] # "pending"
      BY <1>4, <2>2 DEF Claim
    <2>3. QED
      BY <2>1, <2>2
  <1>5. ASSUME NEW j \in Jobs, Load(j) PROVE TypeOK'
    BY <1>5 DEF Load, Read
  <1>6. ASSUME NEW j \in Jobs, Generate(j) PROVE TypeOK'
    BY <1>6 DEF Generate
  <1>7. ASSUME NEW j \in Jobs, Save(j) PROVE TypeOK'
    BY <1>7 DEF Save, SameSource, Needed
  <1>8. ASSUME NEW j \in Jobs, Complete(j) PROVE TypeOK'
    <2>1. CASE StillRunning(j)
      <3>1. /\ pc' = [pc EXCEPT ![j] = "committing"] /\ inflight' = inflight \cup {j}
            /\ UNCHANGED <<plan, stringVars, rowLock, row, workVars, jobLock, sweepVars, wrote,
                           edits, faults>>
        BY <1>8, <2>1 DEF Complete
      <3>2. pc' \in [Jobs -> Steps] /\ inflight' \subseteq Jobs
        BY <3>1
      <3>3. QED
        BY <3>1, <3>2
    <2>2. CASE ~StillRunning(j)
      <3>1. Rollback(j) /\ UNCHANGED inflight /\ pc' = [pc EXCEPT ![j] = "closing"]
        BY <1>8, <2>2 DEF Complete
      <3>2. rowLock' \in [Strings -> Jobs \cup {None}] /\ staged' \in [Jobs -> SUBSET Strings]
        BY <3>1 DEF Rollback
      <3>3. QED
        BY <1>8, <3>1, <3>2 DEF Complete
    <2>3. QED
      BY <2>1, <2>2
  <1>9. ASSUME NEW j \in Jobs, Fail(j) PROVE TypeOK'
    BY <1>9 DEF Fail, Fault, Rollback
  <1>10. ASSUME NEW j \in Jobs, RecordFailure(j) PROVE TypeOK'
    <2>1. CASE MarkFailed(j) /\ UNCHANGED faults
      <3>1. row' \in [Jobs -> Status]
        BY <2>1 DEF MarkFailed
      <3>2. QED
        BY <1>10, <2>1, <3>1 DEF RecordFailure
    <2>2. CASE Fault /\ UNCHANGED row
      BY <1>10, <2>2 DEF RecordFailure, Fault
    <2>3. QED
      BY <1>10, <2>1, <2>2 DEF RecordFailure
  <1>11. ASSUME NEW j \in Jobs, Close(j) PROVE TypeOK'
    BY <1>11 DEF Close
  <1>12. ASSUME NEW j \in Jobs, CommitResolves(j) PROVE TypeOK'
    <2>1. \A s \in staged[j] : [by |-> j, of |-> items[j][s]] \in Cells
      BY DEF Held
    <2>2. cell' \in [Strings -> Cells \cup {None}]
      BY <1>12, <2>1 DEF CommitResolves
    <2>3. row' \in [Jobs -> Status] /\ wrote' \subseteq Jobs
      <3>1. Completed(j) \in [Jobs -> Status]
        BY DEF Completed
      <3>2. QED
        BY <1>12, <3>1 DEF CommitResolves
    <2>4. rowLock' \in [Strings -> Jobs \cup {None}] /\ staged' \in [Jobs -> SUBSET Strings]
      BY <1>12 DEF CommitResolves, Rollback
    <2>5. inflight' \subseteq Jobs /\ pc' \in [Jobs -> Steps]
      BY <1>12 DEF CommitResolves
    <2>6. QED
      BY <1>12, <2>2, <2>3, <2>4, <2>5 DEF CommitResolves
  <1>13. ASSUME NEW j \in Jobs, LockLost(j) PROVE TypeOK'
    BY <1>13 DEF LockLost, Fault
  <1>14. ASSUME NEW j \in Jobs, NEW S \in SUBSET answered[j], Apply(j, S) PROVE TypeOK'
    BY <1>14 DEF Apply, SameSource
  <1>15. ASSUME NEW k \in Sweepers, SweepList(k) PROVE TypeOK'
    BY <1>15 DEF SweepList, Open
  <1>16. ASSUME NEW k \in Sweepers, SweepClaim(k) PROVE TypeOK'
    <2>1. candidates' \in [Sweepers -> SUBSET Jobs]
      BY <1>16 DEF SweepClaim
    <2>2. PICK j \in candidates[k] :
            IF jobLock[j] = None
              THEN /\ jobLock' = [jobLock EXCEPT ![j] = k]
                   /\ target' = [target EXCEPT ![k] = j]
                   /\ swpc' = [swpc EXCEPT ![k] = "claimed"]
              ELSE UNCHANGED <<jobLock, target, swpc>>
      BY <1>16 DEF SweepClaim
    <2>3. CASE jobLock[j] = None
      <3>1. /\ k \in Sweepers /\ j \in Jobs
            /\ jobLock' = [jobLock EXCEPT ![j] = k]
            /\ target' = [target EXCEPT ![k] = j]
        BY <1>16, <2>2, <2>3
      <3>2. jobLock' \in [Jobs -> Jobs \cup Sweepers \cup {None}]
        BY <3>1
      <3>3. target' \in [Sweepers -> Jobs \cup {None}]
        BY <3>1
      <3>4. swpc' \in [Sweepers -> {"idle", "listing", "claimed"}]
        BY <2>2, <2>3
      <3>5. QED
        BY <1>16, <2>1, <3>2, <3>3, <3>4 DEF SweepClaim
    <2>4. CASE jobLock[j] # None
      BY <1>16, <2>1, <2>2, <2>4 DEF SweepClaim
    <2>5. QED
      BY <2>3, <2>4
  <1>17. ASSUME NEW k \in Sweepers, SweepFail(k) PROVE TypeOK'
    BY <1>17 DEF SweepFail, Open
  <1>18. ASSUME NEW k \in Sweepers, SweepEnd(k) PROVE TypeOK'
    BY <1>18 DEF SweepEnd
  <1>19. ASSUME NEW s \in Strings, NEW text \in Texts, EditSource(s, text) PROVE TypeOK'
    BY <1>19 DEF EditSource, Edited
  <1>20. ASSUME NEW s \in Strings, EditCell(s) PROVE TypeOK'
    <2>1. \E x \in {[by |-> Person, of |-> source[s]], None} : cell' = [cell EXCEPT ![s] = x]
      BY <1>20 DEF EditCell
    <2>2. [by |-> Person, of |-> source[s]] \in Cells
      OBVIOUS
    <2>3. ASSUME NEW x \in Cells \cup {None} PROVE [cell EXCEPT ![s] = x] \in [Strings -> Cells \cup {None}]
      OBVIOUS
    <2>4. cell' \in [Strings -> Cells \cup {None}]
      BY <2>1, <2>2, <2>3
    <2>5. QED
      BY <1>20, <2>4 DEF EditCell, Edited
  <1>21. ASSUME NEW s \in Strings, DeleteOrRestore(s) PROVE TypeOK'
    BY <1>21 DEF DeleteOrRestore, Edited
  <1>22. ASSUME Restart PROVE TypeOK'
    BY <1>22 DEF Restart, Fault
  <1>23. ASSUME UNCHANGED vars PROVE TypeOK'
    BY <1>23 DEF vars, Needed, Overwriting
  <1>24. QED
    BY <1>1, <1>2, <1>3, <1>4, <1>5, <1>6, <1>7, <1>8, <1>9, <1>10, <1>11, <1>12, <1>13, <1>14, <1>15, <1>16, <1>17, <1>18, <1>19, <1>20, <1>21, <1>22, <1>23 DEF Next, JobStep, SweepStep

\* Rows start empty, stay running below a COMMIT, and tell the truth.
LEMMA RowStep == IInv /\ [Next]_vars => (Unstarted /\ InFlight /\ OutcomeTruthful)'
  <1> SUFFICES ASSUME IInv, [Next]_vars PROVE (Unstarted /\ InFlight /\ OutcomeTruthful)'
    OBVIOUS
  <1> USE AIAssumption DEF IInv, TypeOK, Inline, Proposing, Overwriting, Background, Unstarted, InFlight, OutcomeTruthful, Status, stringVars, workVars, sweepVars
  <1>1. ASSUME NEW j \in Jobs, Request(j) PROVE (Unstarted /\ InFlight /\ OutcomeTruthful)'
    BY <1>1 DEF Request
  <1>2. ASSUME NEW j \in Jobs, RequestInline(j) PROVE (Unstarted /\ InFlight /\ OutcomeTruthful)'
    BY <1>2 DEF RequestInline, Read
  <1>3. ASSUME NEW j \in Jobs, Own(j) PROVE (Unstarted /\ InFlight /\ OutcomeTruthful)'
    BY <1>3 DEF Own, Fault
  <1>4. ASSUME NEW j \in Jobs, Claim(j) PROVE (Unstarted /\ InFlight /\ OutcomeTruthful)'
    BY <1>4 DEF Claim
  <1>5. ASSUME NEW j \in Jobs, Load(j) PROVE (Unstarted /\ InFlight /\ OutcomeTruthful)'
    BY <1>5 DEF Load, Read
  <1>6. ASSUME NEW j \in Jobs, Generate(j) PROVE (Unstarted /\ InFlight /\ OutcomeTruthful)'
    BY <1>6 DEF Generate
  <1>7. ASSUME NEW j \in Jobs, Save(j) PROVE (Unstarted /\ InFlight /\ OutcomeTruthful)'
    BY <1>7 DEF Save, SameSource, Needed
  <1>8. ASSUME NEW j \in Jobs, Complete(j) PROVE (Unstarted /\ InFlight /\ OutcomeTruthful)'
    BY <1>8 DEF Complete, StillRunning, Rollback
  <1>9. ASSUME NEW j \in Jobs, Fail(j) PROVE (Unstarted /\ InFlight /\ OutcomeTruthful)'
    BY <1>9 DEF Fail, Fault, Rollback
  <1>10. ASSUME NEW j \in Jobs, RecordFailure(j) PROVE (Unstarted /\ InFlight /\ OutcomeTruthful)'
    BY <1>10 DEF RecordFailure, MarkFailed, Fault
  <1>11. ASSUME NEW j \in Jobs, Close(j) PROVE (Unstarted /\ InFlight /\ OutcomeTruthful)'
    BY <1>11 DEF Close
  <1>12. ASSUME NEW j \in Jobs, CommitResolves(j) PROVE (Unstarted /\ InFlight /\ OutcomeTruthful)'
    BY <1>12 DEF CommitResolves, Completed, Rollback
  <1>13. ASSUME NEW j \in Jobs, LockLost(j) PROVE (Unstarted /\ InFlight /\ OutcomeTruthful)'
    BY <1>13 DEF LockLost, Fault
  <1>14. ASSUME NEW j \in Jobs, NEW S \in SUBSET answered[j], Apply(j, S) PROVE (Unstarted /\ InFlight /\ OutcomeTruthful)'
    BY <1>14 DEF Apply, SameSource
  <1>15. ASSUME NEW k \in Sweepers, SweepList(k) PROVE (Unstarted /\ InFlight /\ OutcomeTruthful)'
    BY <1>15 DEF SweepList, Open
  <1>16. ASSUME NEW k \in Sweepers, SweepClaim(k) PROVE (Unstarted /\ InFlight /\ OutcomeTruthful)'
    BY <1>16 DEF SweepClaim
  <1>17. ASSUME NEW k \in Sweepers, SweepFail(k) PROVE (Unstarted /\ InFlight /\ OutcomeTruthful)'
    BY <1>17 DEF SweepFail, Open
  <1>18. ASSUME NEW k \in Sweepers, SweepEnd(k) PROVE (Unstarted /\ InFlight /\ OutcomeTruthful)'
    BY <1>18 DEF SweepEnd
  <1>19. ASSUME NEW s \in Strings, NEW text \in Texts, EditSource(s, text) PROVE (Unstarted /\ InFlight /\ OutcomeTruthful)'
    BY <1>19 DEF EditSource, Edited
  <1>20. ASSUME NEW s \in Strings, EditCell(s) PROVE (Unstarted /\ InFlight /\ OutcomeTruthful)'
    BY <1>20 DEF EditCell, Edited
  <1>21. ASSUME NEW s \in Strings, DeleteOrRestore(s) PROVE (Unstarted /\ InFlight /\ OutcomeTruthful)'
    BY <1>21 DEF DeleteOrRestore, Edited
  <1>22. ASSUME Restart PROVE (Unstarted /\ InFlight /\ OutcomeTruthful)'
    BY <1>22 DEF Restart, Fault
  <1>23. ASSUME UNCHANGED vars PROVE (Unstarted /\ InFlight /\ OutcomeTruthful)'
    BY <1>23 DEF vars, Needed, Overwriting
  <1>24. QED
    BY <1>1, <1>2, <1>3, <1>4, <1>5, <1>6, <1>7, <1>8, <1>9, <1>10, <1>11, <1>12, <1>13, <1>14, <1>15, <1>16, <1>17, <1>18, <1>19, <1>20, <1>21, <1>22, <1>23 DEF Next, JobStep, SweepStep

\* A job that goes on, and changes no row and no lock, leaves what is staged alone.
LEMMA Undisturbed ==
    ASSUME IInv, NEW j \in Jobs, NEW p \in {"committing", "closing"},
           pc' = [pc EXCEPT ![j] = p],
           UNCHANGED <<plan, stringVars, rowLock, items, staged>>
    PROVE  (Unread /\ Held)'
  <1>1. Unread'
    BY DEF IInv, TypeOK, Unread
  <1>2. Held'
    BY DEF IInv, Held, Needed, Overwriting, stringVars
  <1>3. QED
    BY <1>1, <1>2

\* Row locks keep what was checked true until the COMMIT.
LEMMA HeldStep == IInv /\ [Next]_vars => (Unread /\ Held)'
  <1> SUFFICES ASSUME IInv, [Next]_vars PROVE (Unread /\ Held)'
    OBVIOUS
  <1> USE AIAssumption DEF IInv, TypeOK, Inline, Proposing, Overwriting, Unread, Held, Needed, stringVars, workVars, sweepVars
  <1>1. ASSUME NEW j \in Jobs, Request(j) PROVE (Unread /\ Held)'
    BY <1>1 DEF Request
  <1>2. ASSUME NEW j \in Jobs, RequestInline(j) PROVE (Unread /\ Held)'
    BY <1>2 DEF RequestInline, Read
  <1>3. ASSUME NEW j \in Jobs, Own(j) PROVE (Unread /\ Held)'
    BY <1>3 DEF Own, Fault
  <1>4. ASSUME NEW j \in Jobs, Claim(j) PROVE (Unread /\ Held)'
    <2>1. CASE row[j] = "pending"
      BY <1>4, <2>1 DEF Claim
    <2>2. CASE row[j] # "pending"
      <3>1. /\ pc' = [pc EXCEPT ![j] = "closing"]
            /\ UNCHANGED <<plan, stringVars, rowLock, items, staged>>
        BY <1>4, <2>2 DEF Claim
      <3>2. QED
        BY <3>1, Undisturbed
    <2>3. QED
      BY <2>1, <2>2
  <1>5. ASSUME NEW j \in Jobs, Load(j) PROVE (Unread /\ Held)'
    BY <1>5 DEF Load, Read
  <1>6. ASSUME NEW j \in Jobs, Generate(j) PROVE (Unread /\ Held)'
    BY <1>6 DEF Generate
  <1>7. ASSUME NEW j \in Jobs, Save(j) PROVE (Unread /\ Held)'
    BY <1>7 DEF Save, SameSource, Needed
  <1>8. ASSUME NEW j \in Jobs, Complete(j) PROVE (Unread /\ Held)'
    <2>1. CASE StillRunning(j)
      <3>1. /\ pc' = [pc EXCEPT ![j] = "committing"]
            /\ UNCHANGED <<plan, stringVars, rowLock, items, staged>>
        BY <1>8, <2>1 DEF Complete
      <3>2. QED
        BY <3>1, Undisturbed
    <2>2. CASE ~StillRunning(j)
      <3>1. /\ Rollback(j) /\ pc' = [pc EXCEPT ![j] = "closing"]
            /\ UNCHANGED <<plan, source, deleted, cell, items>>
        BY <1>8, <2>2 DEF Complete
      <3>2. \A i \in Jobs : \A s \in staged'[i] : i # j /\ s \in staged[i] /\ rowLock'[s] = rowLock[s]
        BY <3>1 DEF Rollback
      <3>3. \A i \in Jobs : pc'[i] \in {"idle", "queued", "owned", "loading"} => staged'[i] = {}
        BY <3>1 DEF Rollback
      <3>4. QED
        BY <3>1, <3>2, <3>3
    <2>3. QED
      BY <2>1, <2>2
  <1>9. ASSUME NEW j \in Jobs, Fail(j) PROVE (Unread /\ Held)'
    <2>1. CASE j \in inflight
      BY <1>9, <2>1 DEF Fail
    <2>2. CASE j \notin inflight
      BY <1>9, <2>2, SMTT(40) DEF Fail, Rollback
    <2>3. QED
      BY <2>1, <2>2
  <1>10. ASSUME NEW j \in Jobs, RecordFailure(j) PROVE (Unread /\ Held)'
    BY <1>10 DEF RecordFailure, MarkFailed, Fault
  <1>11. ASSUME NEW j \in Jobs, Close(j) PROVE (Unread /\ Held)'
    BY <1>11 DEF Close
  <1>12. ASSUME NEW j \in Jobs, CommitResolves(j) PROVE (Unread /\ Held)'
    BY <1>12 DEF CommitResolves, Completed, Rollback
  <1>13. ASSUME NEW j \in Jobs, LockLost(j) PROVE (Unread /\ Held)'
    BY <1>13 DEF LockLost, Fault
  <1>14. ASSUME NEW j \in Jobs, NEW S \in SUBSET answered[j], Apply(j, S) PROVE (Unread /\ Held)'
    BY <1>14 DEF Apply, SameSource
  <1>15. ASSUME NEW k \in Sweepers, SweepList(k) PROVE (Unread /\ Held)'
    BY <1>15 DEF SweepList, Open
  <1>16. ASSUME NEW k \in Sweepers, SweepClaim(k) PROVE (Unread /\ Held)'
    BY <1>16 DEF SweepClaim
  <1>17. ASSUME NEW k \in Sweepers, SweepFail(k) PROVE (Unread /\ Held)'
    BY <1>17 DEF SweepFail, Open
  <1>18. ASSUME NEW k \in Sweepers, SweepEnd(k) PROVE (Unread /\ Held)'
    BY <1>18 DEF SweepEnd
  <1>19. ASSUME NEW s \in Strings, NEW text \in Texts, EditSource(s, text) PROVE (Unread /\ Held)'
    BY <1>19 DEF EditSource, Edited
  <1>20. ASSUME NEW s \in Strings, EditCell(s) PROVE (Unread /\ Held)'
    BY <1>20 DEF EditCell, Edited
  <1>21. ASSUME NEW s \in Strings, DeleteOrRestore(s) PROVE (Unread /\ Held)'
    BY <1>21 DEF DeleteOrRestore, Edited
  <1>22. ASSUME Restart PROVE (Unread /\ Held)'
    BY <1>22 DEF Restart, Fault
  <1>23. ASSUME UNCHANGED vars PROVE (Unread /\ Held)'
    BY <1>23 DEF vars, Needed, Overwriting
  <1>24. QED
    BY <1>1, <1>2, <1>3, <1>4, <1>5, <1>6, <1>7, <1>8, <1>9, <1>10, <1>11, <1>12, <1>13, <1>14, <1>15, <1>16, <1>17, <1>18, <1>19, <1>20, <1>21, <1>22, <1>23 DEF Next, JobStep, SweepStep

-----------------------------------------------------------------------------
\* The invariant that every step keeps.
THEOREM Invariance == Spec => []IInv
  <1>1. Init => IInv
    BY AIAssumption DEF Init, IInv, TypeOK, Unstarted, InFlight, OutcomeTruthful, Unread, Held,
       Steps, Status, NoItems, Background
  <1>2. IInv /\ [Next]_vars => IInv'
    BY TypeStep, RowStep, HeldStep DEF IInv
  <1>3. QED
    BY <1>1, <1>2, PTL DEF Spec

\* Types of the table, the jobs and their threads.
THEOREM TypeCorrect == Spec => []TypeOK
  BY Invariance, PTL DEF IInv

\* A job that stored its translations is reported completed; one reported failed stored
\* nothing.
THEOREM RowsTruthful == Spec => []OutcomeTruthful
  BY Invariance, PTL DEF IInv

-----------------------------------------------------------------------------
\* Only a resolved COMMIT, an application and a person write translations.
LEMMA WrittenBy ==
    IInv /\ [Next]_vars =>
        \/ cell' = cell
        \/ \E j \in Jobs : CommitResolves(j)
        \/ \E j \in Jobs, S \in SUBSET Strings : Apply(j, S)
        \/ \E s \in Strings : EditCell(s)
  <1> SUFFICES ASSUME IInv, [Next]_vars, cell' # cell
               PROVE  \/ \E j \in Jobs : CommitResolves(j)
                      \/ \E j \in Jobs, S \in SUBSET Strings : Apply(j, S)
                      \/ \E s \in Strings : EditCell(s)
    OBVIOUS
  <1>1. plan.jobs \subseteq Jobs /\ plan.strings \subseteq Strings
    BY AIAssumption DEF IInv, TypeOK
  <1>2. ~Restart /\ Next
    BY DEF vars, stringVars, Restart
  <1>3. \A k \in Sweepers : ~SweepStep(k)
    BY DEF SweepStep, SweepList, SweepClaim, SweepFail, SweepEnd, stringVars
  <1>4. \A j \in Jobs : ~(Request(j) \/ RequestInline(j) \/ LockLost(j) \/ JobStep(j))
    BY DEF JobStep, Request, RequestInline, LockLost, Own, Claim, Load, Generate, Save, Complete,
           Fail, RecordFailure, Close, stringVars
  <1>5. \A s \in Strings : ~DeleteOrRestore(s) /\ \A text \in Texts : ~EditSource(s, text)
    BY DEF DeleteOrRestore, EditSource
  <1>6. \A j \in Jobs : answered[j] \subseteq Strings
    BY DEF IInv, TypeOK
  <1>7. QED
    BY <1>1, <1>2, <1>3, <1>4, <1>5, <1>6 DEF Next

\* Translations that the model generated fit the text and the string they are stored for:
\* the row lock (save_translations) or the one transaction (commit_proposals) holds them.
THEOREM TextsAlwaysMatch == Spec => TextsMatch
  <1> DEFINE Fits == \A s \in Strings :
          cell'[s] \notin {cell[s], None} /\ cell'[s].by \in Jobs =>
              cell'[s].of = source[s] /\ s \notin deleted
  <1>1. ASSUME IInv, [Next]_vars PROVE Fits
    <2>1. CASE cell' = cell
      BY <2>1
    <2>2. ASSUME NEW j \in Jobs, CommitResolves(j) PROVE Fits
      BY <1>1, <2>2 DEF CommitResolves, IInv, TypeOK, Held
    <2>3. ASSUME NEW j \in Jobs, NEW S \in SUBSET Strings, Apply(j, S) PROVE Fits
      BY <1>1, <2>3 DEF Apply, SameSource, IInv, TypeOK
    <2>4. ASSUME NEW s \in Strings, EditCell(s) PROVE Fits
      BY <1>1, <2>4, AIAssumption DEF EditCell, IInv, TypeOK
    <2>5. QED
      BY <1>1, <2>1, <2>2, <2>3, <2>4, WrittenBy
  <1>2. IInv /\ [Next]_vars => [Fits]_vars
    BY <1>1
  <1>3. QED
    BY <1>2, Invariance, PTL DEF Spec, TextsMatch

\* The model's answers replace a stored translation only when the request asked for it: the
\* cells are looked at again under the row lock, or in the applying transaction.
THEOREM NothingReplaced == Spec => NoneReplaced
  <1> DEFINE Kept == \A s \in Strings :
          cell[s] # None /\ cell'[s] \notin {cell[s], None} =>
              cell'[s].by \in {Person} \cup Overwriting
  <1>1. ASSUME IInv, [Next]_vars PROVE Kept
    <2>1. CASE cell' = cell
      BY <2>1
    <2>2. ASSUME NEW j \in Jobs, CommitResolves(j) PROVE Kept
      BY <1>1, <2>2 DEF CommitResolves, IInv, TypeOK, Held, Needed
    <2>3. ASSUME NEW j \in Jobs, NEW S \in SUBSET Strings, Apply(j, S) PROVE Kept
      BY <1>1, <2>3 DEF Apply, IInv, TypeOK
    <2>4. ASSUME NEW s \in Strings, EditCell(s) PROVE Kept
      BY <1>1, <2>4 DEF EditCell, IInv, TypeOK
    <2>5. QED
      BY <1>1, <2>1, <2>2, <2>3, <2>4, WrittenBy
  <1>2. IInv /\ [Next]_vars => [Kept]_vars
    BY <1>1
  <1>3. QED
    BY <1>2, Invariance, PTL DEF Spec, NoneReplaced

\* Nothing changes an outcome once it is recorded: not a late worker whose job the sweep
\* failed, not a failure, and no COMMIT, whose job still reads running.
THEOREM OutcomesAreFinal == Spec => OutcomeFinal
  <1> DEFINE Final == \A j \in Jobs : row[j] \in Terminal => row'[j] = row[j]
  <1>1. ASSUME IInv, [Next]_vars PROVE Final
    <2> USE <1>1 DEF IInv, TypeOK, Terminal, Unstarted, InFlight, Inline
    <2>1. ASSUME NEW j \in Jobs, Request(j) PROVE Final
      BY <2>1 DEF Request
    <2>2. ASSUME NEW j \in Jobs, Claim(j) PROVE Final
      BY <2>2 DEF Claim
    <2>3. ASSUME NEW j \in Jobs, RecordFailure(j) PROVE Final
      BY <2>3 DEF RecordFailure, MarkFailed
    <2>4. ASSUME NEW j \in Jobs, CommitResolves(j) PROVE Final
      BY <2>4 DEF CommitResolves, Completed
    <2>5. ASSUME NEW k \in Sweepers, SweepFail(k) PROVE Final
      BY <2>5 DEF SweepFail, Open
    <2>6. CASE row' = row
      BY <2>6
    <2>7. plan.jobs \subseteq Jobs
      BY AIAssumption
    <2>8. ASSUME row' # row
          PROVE  \/ \E j \in Jobs : Request(j) \/ Claim(j) \/ RecordFailure(j) \/ CommitResolves(j)
                 \/ \E k \in Sweepers : SweepFail(k)
      <3>1. \A j \in Jobs : ~(\/ RequestInline(j) \/ LockLost(j) \/ Own(j) \/ Load(j)
                              \/ Generate(j) \/ Save(j) \/ Complete(j) \/ Fail(j) \/ Close(j))
        BY <2>8 DEF RequestInline, LockLost, Own, Load, Generate, Save, Complete, Fail, Close
      <3>2. \A j \in Jobs : \A S \in SUBSET answered[j] : ~Apply(j, S)
        BY <2>8 DEF Apply
      <3>3. \A k \in Sweepers : ~(SweepList(k) \/ SweepClaim(k) \/ SweepEnd(k))
        BY <2>8 DEF SweepList, SweepClaim, SweepEnd
      <3>4. \A s \in Strings : /\ ~DeleteOrRestore(s) /\ ~EditCell(s)
                               /\ \A text \in Texts : ~EditSource(s, text)
        BY <2>8 DEF DeleteOrRestore, EditSource, EditCell, Edited
      <3>5. ~Restart /\ Next
        BY <2>8 DEF vars, Restart
      <3>6. plan.strings \subseteq Strings
        BY AIAssumption
      <3>7. QED
        BY <2>7, <3>1, <3>2, <3>3, <3>4, <3>5, <3>6 DEF Next, JobStep, SweepStep
    <2>9. QED
      BY <2>1, <2>2, <2>3, <2>4, <2>5, <2>6, <2>8
  <1>2. IInv /\ [Next]_vars => [Final]_row
    BY <1>1
  <1>3. QED
    BY <1>2, Invariance, PTL DEF Spec, OutcomeFinal
=============================================================================
