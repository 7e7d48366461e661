---------------------------- MODULE PushIndex_proofs ----------------------------
(***************************************************************************)
(* The push index never hides a changed key, for any keys and texts and    *)
(* any number of edits, pushes, pulls, crashes and requests that outlive   *)
(* their process, save for the keys that went astray.                      *)
(***************************************************************************)
EXTENDS PushIndex, TLAPS

Pulls == {"draft", "public"}
Marking == {"marked", "waiting", "accepted", "writing", "indexed"}

\* What each step of a process says of its run and the marker.
Roles ==
    /\ pc = "idle" => run.kind = "none"
    /\ pc # "idle" => runs \in Imports
    /\ pc \in {"marked", "waiting", "accepted"} => run.kind = "push"
    /\ pc = "writing" => run.kind \in Pulls
    /\ pc \in {"indexed", "done"} => run.kind # "none"
    /\ pc \in Marking => pending

\* Imports have the names of processes that there were; an answer is kept for the process
\* that waits for it, and is the one to what it sent.
Answers ==
    /\ \A n \in Imports : imports[n].status # "none" => n <= runs
    /\ \A n \in Imports : n \notin Outstanding /\ imports[n].status # "none" => Awaited(n)
    /\ pc = "waiting" => imports[runs].status # "none" /\ imports[runs].vals = Sent
    /\ pc \notin {"waiting", "idle"} => imports[runs].status = "none"

\* A push that was received is the newest import.
Received == pc = "accepted" \/ (pc = "indexed" /\ run.kind = "push")
                \/ (pc = "waiting" /\ imports[runs].status = "committed")

Ages ==
    /\ newest <= runs
    /\ forgotten \subseteq Outstanding
    /\ \A n \in forgotten : ~Awaited(n)
    /\ Received => newest = runs

\* A push that found a marker sends everything.
FullAfterMarker ==
    run.kind = "push" =>
        /\ run.todo \subseteq Present(run.catalog)
        /\ run.existed => run.todo = Present(run.catalog) /\ run.old = Empty

\* A commit of this import would be the newest, and nobody waits for it.
Unsettled(n) == n \in Outstanding \ forgotten /\ ~Overtaken(n) /\ ~Awaited(n)

\* The marker is there behind such an import, and was when the process started.
Covered ==
    \A n \in Imports : Unsettled(n) =>
        /\ pending
        /\ pc \in {"marked", "waiting", "writing", "indexed"} => run.existed
        /\ run.kind = "push" => pc \notin {"accepted", "indexed", "done"}

Honest == \A k \in Keys \ astray : index[k] # None => index[k] = agreed[k]
Unsent == pc = "marked" \/ (pc = "waiting" /\ imports[runs].status # "committed")

\* A push knows that what it did not send is agreed, what was received too, and
\* that the index it found without a marker is honest as long as nothing commits.
PushKnows ==
    run.kind = "push" =>
        /\ \A k \in (Present(run.catalog) \ run.todo) \ astray : run.catalog[k] = agreed[k]
        /\ \A k \in (Keys \ run.todo) \ astray : run.old[k] # None => run.old[k] = agreed[k]
        /\ Received \/ pc = "done" => \A k \in run.todo \ astray : run.catalog[k] = agreed[k]
        /\ Unsent /\ ~run.existed /\ index # None => Honest
        /\ pc = "indexed" => Honest

\* A draft pull that may clear the marker knows that its export is agreed.
PullKnows ==
    /\ run.kind = "draft" /\ ~run.existed =>
        /\ pc \in {"writing", "indexed"} => \A k \in Keys \ astray : agreed[k] = run.catalog[k]
        /\ pc = "indexed" => index = run.catalog
    /\ run.kind = "public" /\ pc = "indexed" => index = None

\* All that the invariant reads, but for the types.
watched == <<index, pending, imports, pc, run, history, runs>>

IInv == /\ TypeOK
        /\ Roles /\ Answers /\ Ages /\ FullAfterMarker
        /\ Covered /\ PushKnows /\ PullKnows
        /\ IndexHonest

-----------------------------------------------------------------------------
(* Types.                                                                  *)

\* An end of a process keeps the types.
LEMMA EndTypes ==
    ASSUME TypeOK, Ends
    PROVE  /\ imports' \in [Imports -> [status: Statuses, vals: Catalogs]]
           /\ pc' = "idle"
           /\ run' \in [kind: {"none", "push", "draft", "public"}, full: BOOLEAN,
                        existed: BOOLEAN, catalog: Catalogs, old: Catalogs,
                        todo: SUBSET Keys]
  <1>1. Empty \in Catalogs
    BY DEF Empty, Catalogs
  <1>2. NoImport \in [status: Statuses, vals: Catalogs]
    BY <1>1 DEF NoImport, Statuses
  <1>3. NoRun \in [kind: {"none", "push", "draft", "public"}, full: BOOLEAN,
                   existed: BOOLEAN, catalog: Catalogs, old: Catalogs,
                   todo: SUBSET Keys]
    BY <1>1 DEF NoRun
  <1> QED
    BY <1>2, <1>3 DEF Ends, TypeOK

\* An answer keeps the types.
LEMMA AnswerTypes ==
    ASSUME TypeOK, NEW n \in Imports, NEW status \in Statuses, Answered(n, status)
    PROVE  imports' \in [Imports -> [status: Statuses, vals: Catalogs]]
  <1>1. Empty \in Catalogs
    BY DEF Empty, Catalogs
  <1>2. NoImport \in [status: Statuses, vals: Catalogs]
    BY <1>1 DEF NoImport, Statuses
  <1> QED
    BY <1>2 DEF Answered, TypeOK

\* Every step keeps the types.
LEMMA TypeStep ==
    ASSUME TypeOK, [Next]_vars
    PROVE  TypeOK'
  <1> USE PushAssumption DEF TypeOK, Catalogs
  <1>1. ASSUME NEW full \in BOOLEAN, StartPush(full)
        PROVE  TypeOK'
    <2>1. UseFull(full) \in BOOLEAN
      BY DEF UseFull, IndexUsable
    <2>2. ToSend(full) \subseteq Keys
      BY DEF ToSend, Present, Changed
    <2>3. (IF UseFull(full) THEN Empty ELSE index) \in Catalogs
      BY DEF UseFull, IndexUsable, Empty
    <2>4. runs' \in 0..MaxRuns
      BY <1>1 DEF StartPush, Begin
    <2>5. run' \in [kind: {"none", "push", "draft", "public"}, full: BOOLEAN,
                existed: BOOLEAN, catalog: Catalogs, old: Catalogs,
                todo: SUBSET Keys]
      BY <1>1, <2>1, <2>2, <2>3, Zenon DEF StartPush
    <2> QED
      BY <1>1, <2>4, <2>5 DEF StartPush, disk, remote, history
  <1>2. ASSUME NEW kind \in Pulls, StartPull(kind)
        PROVE  TypeOK'
    BY <1>2 DEF StartPull, disk, remote, history, Begin, DraftExport, Present, NoRun,
       Empty, Catalogs, Pulls
  <1>3. ASSUME NEW k \in Keys, EditFile(k)
        PROVE  TypeOK'
    BY <1>3 DEF EditFile, disk, remote, history
  <1>4. ASSUME NEW k \in Keys, EditString(k)
        PROVE  TypeOK'
    BY <1>4 DEF EditString, disk, remote, history
  <1>5. ASSUME NEW k \in Keys, WriteFile(k)
        PROVE  TypeOK'
    BY <1>5 DEF WriteFile, disk, remote, history
  <1>6. ASSUME Send
        PROVE  TypeOK'
    <2>1. [status |-> "sent", vals |-> Sent] \in [status: Statuses, vals: Catalogs]
      BY DEF Sent, Statuses, UnderWay
    <2> QED
      BY <1>6, <2>1 DEF Send, disk, history
  <1>7. ASSUME NEW n \in Imports, Accept(n)
        PROVE  TypeOK'
    BY <1>7 DEF Accept, disk, remote, history, Statuses, UnderWay
  <1>8. ASSUME NEW n \in Imports, MissHandoff(n)
        PROVE  TypeOK'
    BY <1>8 DEF MissHandoff, disk, remote, history, Statuses, UnderWay
  <1>9. ASSUME NEW n \in Imports, Commit(n)
        PROVE  TypeOK'
    <2>1. "committed" \in Statuses
      BY DEF Statuses
    <2>2. Answered(n, "committed")
      BY <1>9 DEF Commit
    <2>3. imports' \in [Imports -> [status: Statuses, vals: Catalogs]]
      BY <2>1, <2>2, AnswerTypes
    <2>4. imports[n].vals \in Catalogs
      OBVIOUS
    <2>5. newest' \in 0..MaxRuns /\ forgotten' \subseteq Imports /\ astray' \subseteq Keys
      BY <1>9 DEF Commit, Imports, Present
    <2>6. /\ server' \in [Keys -> Values \cup {None, Removed}]
          /\ agreed' \in [Keys -> Values \cup {None}]
      BY <1>9, <2>4 DEF Commit
    <2>7. UNCHANGED <<disk, published, pc, run, edits, runs>>
      BY <1>9 DEF Commit
    <2> QED
      BY <2>3, <2>5, <2>6, <2>7 DEF disk
  <1>10. ASSUME NEW n \in Imports, NEW status \in {"rejected", "failed"}, Fail(n, status)
        PROVE  TypeOK'
    <2>1. status \in Statuses
      BY DEF Statuses
    <2>2. imports' \in [Imports -> [status: Statuses, vals: Catalogs]]
      BY <1>10, <2>1, AnswerTypes DEF Fail
    <2> QED
      BY <1>10, <2>2 DEF Fail, disk
  <1>11. ASSUME HearCompleted
        PROVE  TypeOK'
    BY <1>11 DEF HearCompleted, disk, remote, history, NoImport, Empty, Statuses
  <1>12. ASSUME HearRejected
        PROVE  TypeOK'
    <2>1. Ends
      BY <1>12 DEF HearRejected
    <2> QED
      BY <1>12, <2>1, EndTypes DEF HearRejected, history, MarkerAfterReject
  <1>13. ASSUME GiveUp
        PROVE  TypeOK'
    <2>1. Ends
      BY <1>13 DEF GiveUp
    <2> QED
      BY <1>13, <2>1, EndTypes DEF GiveUp, disk, history
  <1>14. ASSUME SaveIndex
        PROVE  TypeOK'
    BY <1>14 DEF SaveIndex, disk, remote, history, Merged
  <1>15. ASSUME RefreshIndex
        PROVE  TypeOK'
    BY <1>15 DEF RefreshIndex, disk, remote, history, PulledIndex
  <1>16. ASSUME ClearMarker
        PROVE  TypeOK'
    BY <1>16 DEF ClearMarker, disk, remote, history, KeepsMarker, Outstanding
  <1>17. ASSUME Report
        PROVE  TypeOK'
    <2>1. Ends
      BY <1>17 DEF Report
    <2> QED
      BY <1>17, <2>1, EndTypes DEF Report, disk, history
  <1>18. ASSUME Crash
        PROVE  TypeOK'
    <2>1. Ends
      BY <1>18 DEF Crash
    <2> QED
      BY <1>18, <2>1, EndTypes DEF Crash, disk, history
  <1>19. CASE UNCHANGED vars
    BY <1>19 DEF vars, history, remote, disk
  <1> QED
    BY <1>1, <1>2, <1>3, <1>4, <1>5, <1>6, <1>7, <1>8, <1>9, <1>10, <1>11, <1>12,
       <1>13, <1>14, <1>15, <1>16, <1>17, <1>18, <1>19 DEF Next, Pulls

-----------------------------------------------------------------------------
(* The steps keep the invariant, part by part.                             *)

\* An import that was forgotten or overtaken leads its keys astray, and no other key changes.
LEMMA AstrayCommit ==
    ASSUME TypeOK, NEW n \in Imports, Commit(n), Overtaken(n) \/ n \in forgotten
    PROVE  \A k \in Keys \ astray' : k \notin astray /\ agreed'[k] = agreed[k]
  BY DEF Commit, Present

\* Every step keeps the roles of the process.
LEMMA RolesStep ==
    ASSUME IInv, TypeOK', [Next]_vars
    PROVE  Roles'
  <1> USE DEF IInv, TypeOK, disk, remote, history, Roles, Marking, Pulls, Imports
  <1>1. CASE UNCHANGED watched
    BY <1>1 DEF watched
  <1>2. ASSUME NEW full \in BOOLEAN, StartPush(full)
        PROVE  Roles'
    BY <1>2 DEF StartPush, Begin
  <1>3. ASSUME Send
        PROVE  Roles'
    BY <1>3 DEF Send, Sent
  <1>4. ASSUME NEW n \in Imports, Accept(n)
        PROVE  Roles'
    BY <1>4 DEF Accept
  <1>5. ASSUME NEW n \in Imports, MissHandoff(n)
        PROVE  Roles'
    BY <1>5 DEF MissHandoff
  <1>6. ASSUME NEW n \in Imports, Commit(n)
        PROVE  Roles'
    BY <1>6 DEF Commit, Answered, NoImport
  <1>7. ASSUME NEW n \in Imports, NEW status \in {"rejected", "failed"}, Fail(n, status)
        PROVE  Roles'
    BY <1>7 DEF Fail, Answered, NoImport
  <1>8. ASSUME HearCompleted
        PROVE  Roles'
    BY <1>8 DEF HearCompleted, NoImport
  <1>9. ASSUME HearRejected
        PROVE  Roles'
    BY <1>9 DEF HearRejected, MarkerAfterReject, Ends, NoRun, NoImport
  <1>10. ASSUME GiveUp
        PROVE  Roles'
    BY <1>10 DEF GiveUp, Ends, NoRun, NoImport
  <1>11. ASSUME SaveIndex
        PROVE  Roles'
    BY <1>11 DEF SaveIndex, Merged
  <1>12. ASSUME NEW kind \in Pulls, StartPull(kind)
        PROVE  Roles'
    BY <1>12 DEF StartPull, Begin, Pulls
  <1>13. ASSUME NEW k \in Keys, WriteFile(k)
        PROVE  Roles'
    BY <1>13 DEF WriteFile
  <1>14. ASSUME RefreshIndex
        PROVE  Roles'
    BY <1>14 DEF RefreshIndex, PulledIndex
  <1>15. ASSUME ClearMarker
        PROVE  Roles'
    BY <1>15 DEF ClearMarker, KeepsMarker
  <1>16. ASSUME Report
        PROVE  Roles'
    BY <1>16 DEF Report, Ends, NoRun, NoImport
  <1>17. ASSUME Crash
        PROVE  Roles'
    BY <1>17 DEF Crash, Ends, NoRun, NoImport
  <1>18. CASE UNCHANGED vars \/ \E k \in Keys : EditFile(k) \/ EditString(k)
    BY <1>1, <1>18 DEF vars, watched, EditFile, EditString
  <1> QED
    BY <1>2, <1>3, <1>4, <1>5, <1>6, <1>7, <1>8, <1>9, <1>10, <1>11, <1>12, <1>13, <1>14, <1>15, <1>16, <1>17, <1>18 DEF Next, Pulls

\* A process never takes the answer to another push.
LEMMA AnswersStep ==
    ASSUME IInv, TypeOK', [Next]_vars
    PROVE  Answers'
  <1> USE DEF IInv, TypeOK, disk, remote, history, Roles, Answers, Sent, Outstanding, UnderWay, Awaited, Statuses, Imports
  <1>1. CASE UNCHANGED watched
    BY <1>1 DEF watched
  <1>2. ASSUME NEW full \in BOOLEAN, StartPush(full)
        PROVE  Answers'
    BY <1>2 DEF StartPush, Begin
  <1>3. ASSUME Send
        PROVE  Answers'
    BY <1>3 DEF Send, Sent
  <1>4. ASSUME NEW n \in Imports, Accept(n)
        PROVE  Answers'
    BY <1>4 DEF Accept
  <1>5. ASSUME NEW n \in Imports, MissHandoff(n)
        PROVE  Answers'
    BY <1>5 DEF MissHandoff
  <1>6. ASSUME NEW n \in Imports, Commit(n)
        PROVE  Answers'
    BY <1>6 DEF Commit, Answered, NoImport
  <1>7. ASSUME NEW n \in Imports, NEW status \in {"rejected", "failed"}, Fail(n, status)
        PROVE  Answers'
    BY <1>7 DEF Fail, Answered, NoImport
  <1>8. ASSUME HearCompleted
        PROVE  Answers'
    BY <1>8 DEF HearCompleted, NoImport
  <1>9. ASSUME HearRejected
        PROVE  Answers'
    BY <1>9 DEF HearRejected, MarkerAfterReject, Ends, NoRun, NoImport
  <1>10. ASSUME GiveUp
        PROVE  Answers'
    BY <1>10 DEF GiveUp, Ends, NoRun, NoImport
  <1>11. ASSUME SaveIndex
        PROVE  Answers'
    BY <1>11 DEF SaveIndex, Merged
  <1>12. ASSUME NEW kind \in Pulls, StartPull(kind)
        PROVE  Answers'
    BY <1>12 DEF StartPull, Begin, Pulls
  <1>13. ASSUME NEW k \in Keys, WriteFile(k)
        PROVE  Answers'
    BY <1>13 DEF WriteFile
  <1>14. ASSUME RefreshIndex
        PROVE  Answers'
    BY <1>14 DEF RefreshIndex, PulledIndex
  <1>15. ASSUME ClearMarker
        PROVE  Answers'
    BY <1>15 DEF ClearMarker, KeepsMarker
  <1>16. ASSUME Report
        PROVE  Answers'
    BY <1>16 DEF Report, Ends, NoRun, NoImport
  <1>17. ASSUME Crash
        PROVE  Answers'
    BY <1>17 DEF Crash, Ends, NoRun, NoImport
  <1>18. CASE UNCHANGED vars \/ \E k \in Keys : EditFile(k) \/ EditString(k)
    BY <1>1, <1>18 DEF vars, watched, EditFile, EditString
  <1> QED
    BY <1>2, <1>3, <1>4, <1>5, <1>6, <1>7, <1>8, <1>9, <1>10, <1>11, <1>12, <1>13, <1>14, <1>15, <1>16, <1>17, <1>18 DEF Next, Pulls

\* The newest import is the one that was received last.
LEMMA AgesStep ==
    ASSUME IInv, TypeOK', [Next]_vars
    PROVE  Ages'
  <1> USE DEF IInv, TypeOK, disk, remote, history, Roles, Answers, Ages, Received, Overtaken, Outstanding, UnderWay, Awaited, Statuses, Imports, Pulls
  <1>1. CASE UNCHANGED watched
    BY <1>1 DEF watched
  <1>2. ASSUME NEW full \in BOOLEAN, StartPush(full)
        PROVE  Ages'
    BY <1>2 DEF StartPush, Begin
  <1>3. ASSUME Send
        PROVE  Ages'
    BY <1>3 DEF Send, Sent
  <1>4. ASSUME NEW n \in Imports, Accept(n)
        PROVE  Ages'
    BY <1>4 DEF Accept
  <1>5. ASSUME NEW n \in Imports, MissHandoff(n)
        PROVE  Ages'
    BY <1>5 DEF MissHandoff
  <1>6. ASSUME NEW n \in Imports, Commit(n)
        PROVE  Ages'
    BY <1>6 DEF Commit, Answered, NoImport
  <1>7. ASSUME NEW n \in Imports, NEW status \in {"rejected", "failed"}, Fail(n, status)
        PROVE  Ages'
    BY <1>7 DEF Fail, Answered, NoImport
  <1>8. ASSUME HearCompleted
        PROVE  Ages'
    BY <1>8 DEF HearCompleted, NoImport
  <1>9. ASSUME HearRejected
        PROVE  Ages'
    BY <1>9 DEF HearRejected, MarkerAfterReject, Ends, NoRun, NoImport
  <1>10. ASSUME GiveUp
        PROVE  Ages'
    BY <1>10 DEF GiveUp, Ends, NoRun, NoImport
  <1>11. ASSUME SaveIndex
        PROVE  Ages'
    BY <1>11 DEF SaveIndex, Merged
  <1>12. ASSUME NEW kind \in Pulls, StartPull(kind)
        PROVE  Ages'
    BY <1>12 DEF StartPull, Begin, Pulls
  <1>13. ASSUME NEW k \in Keys, WriteFile(k)
        PROVE  Ages'
    BY <1>13 DEF WriteFile
  <1>14. ASSUME RefreshIndex
        PROVE  Ages'
    BY <1>14 DEF RefreshIndex, PulledIndex
  <1>15. ASSUME ClearMarker
        PROVE  Ages'
    BY <1>15 DEF ClearMarker, KeepsMarker
  <1>16. ASSUME Report
        PROVE  Ages'
    BY <1>16 DEF Report, Ends, NoRun, NoImport
  <1>17. ASSUME Crash
        PROVE  Ages'
    BY <1>17 DEF Crash, Ends, NoRun, NoImport
  <1>18. CASE UNCHANGED vars \/ \E k \in Keys : EditFile(k) \/ EditString(k)
    BY <1>1, <1>18 DEF vars, watched, EditFile, EditString
  <1> QED
    BY <1>2, <1>3, <1>4, <1>5, <1>6, <1>7, <1>8, <1>9, <1>10, <1>11, <1>12, <1>13, <1>14, <1>15, <1>16, <1>17, <1>18 DEF Next, Pulls

\* Nothing that the process does to its run makes a forced push partial.
LEMMA FullAfterMarkerStep ==
    ASSUME IInv, TypeOK', [Next]_vars
    PROVE  FullAfterMarker'
  <1> USE DEF IInv, TypeOK, disk, remote, history, Roles, FullAfterMarker
  <1>1. CASE UNCHANGED watched
    BY <1>1 DEF watched
  <1>2. ASSUME NEW full \in BOOLEAN, StartPush(full)
        PROVE  FullAfterMarker'
    BY <1>2 DEF StartPush, Begin, UseFull, ToSend, IndexUsable, Changed, Present
  <1>3. ASSUME Send
        PROVE  FullAfterMarker'
    BY <1>3 DEF Send, Sent
  <1>4. ASSUME NEW n \in Imports, Accept(n)
        PROVE  FullAfterMarker'
    BY <1>4 DEF Accept
  <1>5. ASSUME NEW n \in Imports, MissHandoff(n)
        PROVE  FullAfterMarker'
    BY <1>5 DEF MissHandoff
  <1>6. ASSUME NEW n \in Imports, Commit(n)
        PROVE  FullAfterMarker'
    BY <1>6 DEF Commit, Answered, NoImport
  <1>7. ASSUME NEW n \in Imports, NEW status \in {"rejected", "failed"}, Fail(n, status)
        PROVE  FullAfterMarker'
    BY <1>7 DEF Fail, Answered, NoImport
  <1>8. ASSUME HearCompleted
        PROVE  FullAfterMarker'
    BY <1>8 DEF HearCompleted, NoImport
  <1>9. ASSUME HearRejected
        PROVE  FullAfterMarker'
    BY <1>9 DEF HearRejected, MarkerAfterReject, Ends, NoRun, NoImport
  <1>10. ASSUME GiveUp
        PROVE  FullAfterMarker'
    BY <1>10 DEF GiveUp, Ends, NoRun, NoImport
  <1>11. ASSUME SaveIndex
        PROVE  FullAfterMarker'
    BY <1>11 DEF SaveIndex, Merged
  <1>12. ASSUME NEW kind \in Pulls, StartPull(kind)
        PROVE  FullAfterMarker'
    BY <1>12 DEF StartPull, Begin, Pulls
  <1>13. ASSUME NEW k \in Keys, WriteFile(k)
        PROVE  FullAfterMarker'
    BY <1>13 DEF WriteFile, Pulls
  <1>14. ASSUME RefreshIndex
        PROVE  FullAfterMarker'
    BY <1>14 DEF RefreshIndex, PulledIndex
  <1>15. ASSUME ClearMarker
        PROVE  FullAfterMarker'
    BY <1>15 DEF ClearMarker, KeepsMarker
  <1>16. ASSUME Report
        PROVE  FullAfterMarker'
    BY <1>16 DEF Report, Ends, NoRun, NoImport
  <1>17. ASSUME Crash
        PROVE  FullAfterMarker'
    BY <1>17 DEF Crash, Ends, NoRun, NoImport
  <1>18. CASE UNCHANGED vars \/ \E k \in Keys : EditFile(k) \/ EditString(k)
    BY <1>1, <1>18 DEF vars, watched, EditFile, EditString
  <1> QED
    BY <1>2, <1>3, <1>4, <1>5, <1>6, <1>7, <1>8, <1>9, <1>10, <1>11, <1>12, <1>13, <1>14, <1>15, <1>16, <1>17, <1>18 DEF Next, Pulls

\* The marker stays behind an import that may be the newest, unless a public pull forgets it.
LEMMA CoveredStep ==
    ASSUME IInv, TypeOK', [Next]_vars
    PROVE  Covered'
  <1> USE DEF IInv, TypeOK, disk, remote, history, Roles, Answers, Ages, Received, FullAfterMarker, Covered, Unsettled, Overtaken, Outstanding, UnderWay, Awaited, Statuses, Imports, Marking, Pulls
  <1>1. CASE UNCHANGED watched
    BY <1>1 DEF watched
  <1>2. ASSUME NEW full \in BOOLEAN, StartPush(full)
        PROVE  Covered'
    BY <1>2 DEF StartPush, Begin, UseFull, ToSend, IndexUsable, Changed, Present
  <1>3. ASSUME Send
        PROVE  Covered'
    BY <1>3 DEF Send, Sent
  <1>4. ASSUME NEW n \in Imports, Accept(n)
        PROVE  Covered'
    BY <1>4 DEF Accept
  <1>5. ASSUME NEW n \in Imports, MissHandoff(n)
        PROVE  Covered'
    BY <1>5 DEF MissHandoff
  <1>6. ASSUME NEW n \in Imports, Commit(n)
        PROVE  Covered'
    BY <1>6 DEF Commit, Answered, NoImport
  <1>7. ASSUME NEW n \in Imports, NEW status \in {"rejected", "failed"}, Fail(n, status)
        PROVE  Covered'
    BY <1>7 DEF Fail, Answered, NoImport
  <1>8. ASSUME HearCompleted
        PROVE  Covered'
    BY <1>8 DEF HearCompleted, NoImport
  <1>9. ASSUME HearRejected
        PROVE  Covered'
    BY <1>9 DEF HearRejected, MarkerAfterReject, Ends, NoRun, NoImport
  <1>10. ASSUME GiveUp
        PROVE  Covered'
    BY <1>10 DEF GiveUp, Ends, NoRun, NoImport
  <1>11. ASSUME SaveIndex
        PROVE  Covered'
    BY <1>11 DEF SaveIndex, Merged
  <1>12. ASSUME NEW kind \in Pulls, StartPull(kind)
        PROVE  Covered'
    BY <1>12 DEF StartPull, Begin, Pulls
  <1>13. ASSUME NEW k \in Keys, WriteFile(k)
        PROVE  Covered'
    BY <1>13 DEF WriteFile
  <1>14. ASSUME RefreshIndex
        PROVE  Covered'
    BY <1>14 DEF RefreshIndex, PulledIndex
  <1>15. ASSUME ClearMarker
        PROVE  Covered'
    BY <1>15 DEF ClearMarker, KeepsMarker
  <1>16. ASSUME Report
        PROVE  Covered'
    BY <1>16 DEF Report, Ends, NoRun, NoImport
  <1>17. ASSUME Crash
        PROVE  Covered'
    BY <1>17 DEF Crash, Ends, NoRun, NoImport
  <1>18. CASE UNCHANGED vars \/ \E k \in Keys : EditFile(k) \/ EditString(k)
    BY <1>1, <1>18 DEF vars, watched, EditFile, EditString
  <1> QED
    BY <1>2, <1>3, <1>4, <1>5, <1>6, <1>7, <1>8, <1>9, <1>10, <1>11, <1>12, <1>13, <1>14, <1>15, <1>16, <1>17, <1>18 DEF Next, Pulls

\* The export of a draft pull stays agreed: only an import could change that.
LEMMA PullKnowsStep ==
    ASSUME IInv, TypeOK', [Next]_vars
    PROVE  PullKnows'
  <1> USE DEF IInv, TypeOK, disk, remote, history, Roles, Answers, Ages, Received, Covered, Unsettled, Overtaken, Outstanding, UnderWay, Awaited, Statuses, Imports, FullAfterMarker, Marking, Pulls, PullKnows
  <1>1. CASE UNCHANGED watched
    BY <1>1 DEF watched
  <1>2. ASSUME NEW full \in BOOLEAN, StartPush(full)
        PROVE  PullKnows'
    BY <1>2 DEF StartPush, Begin
  <1>3. ASSUME Send
        PROVE  PullKnows'
    BY <1>3 DEF Send, Sent
  <1>4. ASSUME NEW n \in Imports, Accept(n)
        PROVE  PullKnows'
    BY <1>4 DEF Accept
  <1>5. ASSUME NEW n \in Imports, MissHandoff(n)
        PROVE  PullKnows'
    BY <1>5 DEF MissHandoff
  <1>6. ASSUME NEW n \in Imports, Commit(n)
        PROVE  PullKnows'
    <2>1. UNCHANGED <<run, pc, index>>
      BY <1>6 DEF Commit
    <2>2. CASE run.kind = "draft" /\ ~run.existed /\ pc \in {"writing", "indexed"}
      <3>1. ~Unsettled(n) /\ ~Awaited(n) /\ n \in Outstanding
        BY <1>6, <2>2 DEF Commit
      <3>2. Overtaken(n) \/ n \in forgotten
        BY <3>1
      <3>3. \A k \in Keys \ astray' : k \notin astray /\ agreed'[k] = agreed[k]
        BY <1>6, <3>2, AstrayCommit
      <3> QED
        BY <2>1, <2>2, <3>3
    <2> QED
      BY <2>1, <2>2
  <1>7. ASSUME NEW n \in Imports, NEW status \in {"rejected", "failed"}, Fail(n, status)
        PROVE  PullKnows'
    BY <1>7 DEF Fail, Answered, NoImport
  <1>8. ASSUME HearCompleted
        PROVE  PullKnows'
    BY <1>8 DEF HearCompleted, NoImport
  <1>9. ASSUME HearRejected
        PROVE  PullKnows'
    BY <1>9 DEF HearRejected, MarkerAfterReject, Ends, NoRun, NoImport
  <1>10. ASSUME GiveUp
        PROVE  PullKnows'
    BY <1>10 DEF GiveUp, Ends, NoRun, NoImport
  <1>11. ASSUME SaveIndex
        PROVE  PullKnows'
    BY <1>11 DEF SaveIndex, Merged
  <1>12. ASSUME NEW kind \in Pulls, StartPull(kind)
        PROVE  PullKnows'
    BY <1>12 DEF StartPull, Begin, Pulls
  <1>13. ASSUME NEW k \in Keys, WriteFile(k)
        PROVE  PullKnows'
    BY <1>13 DEF WriteFile
  <1>14. ASSUME RefreshIndex
        PROVE  PullKnows'
    BY <1>14 DEF RefreshIndex, PulledIndex
  <1>15. ASSUME ClearMarker
        PROVE  PullKnows'
    BY <1>15 DEF ClearMarker, KeepsMarker
  <1>16. ASSUME Report
        PROVE  PullKnows'
    BY <1>16 DEF Report, Ends, NoRun, NoImport
  <1>17. ASSUME Crash
        PROVE  PullKnows'
    BY <1>17 DEF Crash, Ends, NoRun, NoImport
  <1>18. CASE UNCHANGED vars \/ \E k \in Keys : EditFile(k) \/ EditString(k)
    BY <1>1, <1>18 DEF vars, watched, EditFile, EditString
  <1> QED
    BY <1>2, <1>3, <1>4, <1>5, <1>6, <1>7, <1>8, <1>9, <1>10, <1>11, <1>12, <1>13, <1>14, <1>15, <1>16, <1>17, <1>18 DEF Next, Pulls

\* A push stays right about what is agreed, when others edit and imports commit.
LEMMA PushKnowsStep ==
    ASSUME IInv, TypeOK', [Next]_vars
    PROVE  PushKnows'
  <1> USE DEF IInv, TypeOK, disk, remote, history, Roles, Answers, Ages, Received, Covered, Unsettled, Overtaken, Outstanding, UnderWay, Awaited, Statuses, Imports, FullAfterMarker, Marking, Pulls, PushKnows, IndexHonest, Honest, Unsent, Present, IndexUsable
  <1>1. CASE UNCHANGED watched
    BY <1>1 DEF watched
  <1>2. ASSUME NEW full \in BOOLEAN, StartPush(full)
        PROVE  PushKnows'
    <2>1. run'.kind = "push" /\ run'.catalog = local /\ run'.todo = ToSend(full)
            /\ run'.old = (IF UseFull(full) THEN Empty ELSE index) /\ run'.existed = pending
      BY <1>2 DEF StartPush
    <2>2. UNCHANGED <<astray, agreed, index, imports>>
      BY <1>2 DEF StartPush
    <2>3. pc' = "marked" \/ (pc' = "done" /\ ToSend(full) = {})
      BY <1>2 DEF StartPush
    <2>4. CASE UseFull(full)
      <3>1. run'.todo = Present(run'.catalog) /\ run'.old = Empty
        BY <2>1, <2>4 DEF ToSend
      <3>2. ~pending /\ index # None => Honest
        OBVIOUS
      <3>3. \A k \in Keys : (run'.old)[k] = None
        BY <3>1 DEF Empty
      <3> QED
        BY <2>1, <2>2, <2>3, <3>1, <3>2, <3>3, SMTT(30)
    <2>5. CASE ~UseFull(full)
      <3>1. IndexUsable /\ run'.old = index /\ run'.todo = Changed
        BY <2>1, <2>5 DEF UseFull, ToSend
      <3>2. Honest
        BY <3>1
      <3>3. \A k \in (Present(local) \ Changed) \ astray : local[k] = agreed[k]
        BY <3>1, <3>2 DEF Changed
      <3> QED
        BY <2>1, <2>2, <2>3, <3>1, <3>2, <3>3, SMTT(30)
    <2> QED
      BY <2>4, <2>5
  <1>3. ASSUME Send
        PROVE  PushKnows'
    BY <1>3 DEF Send, Sent
  <1>4. ASSUME NEW n \in Imports, Accept(n)
        PROVE  PushKnows'
    BY <1>4 DEF Accept
  <1>5. ASSUME NEW n \in Imports, MissHandoff(n)
        PROVE  PushKnows'
    BY <1>5 DEF MissHandoff
  <1>6. ASSUME NEW n \in Imports, Commit(n)
        PROVE  PushKnows'
    <2>1. UNCHANGED <<run, pc, index, runs>>
      BY <1>6 DEF Commit
    <2>2. n \in Outstanding
      BY <1>6 DEF Commit
    <2>3. CASE run.kind # "push"
      BY <2>1, <2>3
    <2>4. CASE run.kind = "push" /\ Awaited(n)
      <3>1. imports'[n].status = "committed"
        BY <1>6, <2>4 DEF Commit, Answered
      <3>2. \A k \in Keys : imports[n].vals[k] = IF k \in run.todo THEN run.catalog[k] ELSE None
        BY <2>4 DEF Sent
      <3>3. run.todo \subseteq Present(run.catalog)
        BY <2>4
      <3>4. \A k \in Keys : agreed'[k] = IF k \in run.todo THEN run.catalog[k] ELSE agreed[k]
        BY <1>6, <3>2, <3>3 DEF Commit
      <3>5. \A k \in Keys \ astray' : k \in run.todo \/ k \notin astray
        BY <1>6, <3>2 DEF Commit
      <3> QED
        BY <2>1, <2>4, <3>1, <3>3, <3>4, <3>5
    <2>5. CASE run.kind = "push" /\ ~Awaited(n) /\ ~Unsettled(n)
      <3>1. \A k \in Keys \ astray' : k \notin astray /\ agreed'[k] = agreed[k]
        BY <1>6, <2>2, <2>5, AstrayCommit
      <3>2. Received' = Received /\ Unsent' = Unsent
        BY <1>6, <2>1, <2>5 DEF Commit, Answered
      <3> QED
        BY <2>1, <2>5, <3>1, <3>2
    <2>6. CASE run.kind = "push" /\ Unsettled(n)
      <3>1. pc \in {"marked", "waiting"} /\ run.existed
        BY <2>6
      <3>2. run.todo = Present(run.catalog) /\ run.old = Empty
        BY <2>6, <3>1
      <3>3. ~Received /\ ~Received'
        BY <1>6, <2>1, <2>6, <3>1 DEF Commit, Answered
      <3> QED
        BY <2>1, <2>6, <3>1, <3>2, <3>3 DEF Empty
    <2> QED
      BY <2>3, <2>4, <2>5, <2>6
  <1>7. ASSUME NEW n \in Imports, NEW status \in {"rejected", "failed"}, Fail(n, status)
        PROVE  PushKnows'
    BY <1>7 DEF Fail, Answered, NoImport
  <1>8. ASSUME HearCompleted
        PROVE  PushKnows'
    BY <1>8 DEF HearCompleted, NoImport
  <1>9. ASSUME HearRejected
        PROVE  PushKnows'
    BY <1>9 DEF HearRejected, MarkerAfterReject, Ends, NoRun, NoImport
  <1>10. ASSUME GiveUp
        PROVE  PushKnows'
    BY <1>10 DEF GiveUp, Ends, NoRun, NoImport
  <1>11. ASSUME SaveIndex
        PROVE  PushKnows'
    BY <1>11 DEF SaveIndex, Merged
  <1>12. ASSUME NEW kind \in Pulls, StartPull(kind)
        PROVE  PushKnows'
    BY <1>12 DEF StartPull, Begin, Pulls
  <1>13. ASSUME NEW k \in Keys, WriteFile(k)
        PROVE  PushKnows'
    BY <1>13 DEF WriteFile
  <1>14. ASSUME RefreshIndex
        PROVE  PushKnows'
    BY <1>14 DEF RefreshIndex, PulledIndex
  <1>15. ASSUME ClearMarker
        PROVE  PushKnows'
    BY <1>15 DEF ClearMarker, KeepsMarker
  <1>16. ASSUME Report
        PROVE  PushKnows'
    BY <1>16 DEF Report, Ends, NoRun, NoImport
  <1>17. ASSUME Crash
        PROVE  PushKnows'
    BY <1>17 DEF Crash, Ends, NoRun, NoImport
  <1>18. CASE UNCHANGED vars \/ \E k \in Keys : EditFile(k) \/ EditString(k)
    BY <1>1, <1>18 DEF vars, watched, EditFile, EditString
  <1> QED
    BY <1>2, <1>3, <1>4, <1>5, <1>6, <1>7, <1>8, <1>9, <1>10, <1>11, <1>12, <1>13, <1>14, <1>15, <1>16, <1>17, <1>18 DEF Next, Pulls

\* Whoever clears the marker has left an honest index.
LEMMA IndexHonestStep ==
    ASSUME IInv, TypeOK', [Next]_vars
    PROVE  IndexHonest'
  <1> USE DEF IInv, TypeOK, disk, remote, history, Roles, Answers, Ages, Received, Covered, Unsettled, Overtaken, Outstanding, UnderWay, Awaited, Statuses, Imports, FullAfterMarker, Marking, Pulls, PushKnows, PullKnows, IndexHonest, Honest, Unsent, Present, IndexUsable
  <1>1. CASE UNCHANGED watched
    BY <1>1 DEF watched
  <1>2. ASSUME NEW full \in BOOLEAN, StartPush(full)
        PROVE  IndexHonest'
    BY <1>2 DEF StartPush, Begin
  <1>3. ASSUME Send
        PROVE  IndexHonest'
    BY <1>3 DEF Send, Sent
  <1>4. ASSUME NEW n \in Imports, Accept(n)
        PROVE  IndexHonest'
    BY <1>4 DEF Accept
  <1>5. ASSUME NEW n \in Imports, MissHandoff(n)
        PROVE  IndexHonest'
    BY <1>5 DEF MissHandoff
  <1>6. ASSUME NEW n \in Imports, Commit(n)
        PROVE  IndexHonest'
    <2>1. UNCHANGED <<index, pending>>
      BY <1>6 DEF Commit, disk
    <2>2. n \in Outstanding
      BY <1>6 DEF Commit
    <2>3. CASE IndexUsable
      <3>1. ~Awaited(n) /\ ~Unsettled(n)
        BY <2>2, <2>3
      <3>2. \A k \in Keys \ astray' : k \notin astray /\ agreed'[k] = agreed[k]
        BY <1>6, <2>2, <3>1, AstrayCommit
      <3> QED
        BY <2>1, <2>3, <3>2
    <2> QED
      BY <2>1, <2>3
  <1>7. ASSUME NEW n \in Imports, NEW status \in {"rejected", "failed"}, Fail(n, status)
        PROVE  IndexHonest'
    BY <1>7 DEF Fail, Answered, NoImport
  <1>8. ASSUME HearCompleted
        PROVE  IndexHonest'
    BY <1>8 DEF HearCompleted, NoImport
  <1>9. ASSUME HearRejected
        PROVE  IndexHonest'
    BY <1>9 DEF HearRejected, MarkerAfterReject, Ends, NoRun, NoImport
  <1>10. ASSUME GiveUp
        PROVE  IndexHonest'
    BY <1>10 DEF GiveUp, Ends, NoRun, NoImport
  <1>11. ASSUME SaveIndex
        PROVE  IndexHonest'
    BY <1>11 DEF SaveIndex, Merged
  <1>12. ASSUME NEW kind \in Pulls, StartPull(kind)
        PROVE  IndexHonest'
    BY <1>12 DEF StartPull, Begin, Pulls
  <1>13. ASSUME NEW k \in Keys, WriteFile(k)
        PROVE  IndexHonest'
    BY <1>13 DEF WriteFile
  <1>14. ASSUME RefreshIndex
        PROVE  IndexHonest'
    BY <1>14 DEF RefreshIndex, PulledIndex
  <1>15. ASSUME ClearMarker
        PROVE  IndexHonest'
    BY <1>15 DEF ClearMarker, KeepsMarker
  <1>16. ASSUME Report
        PROVE  IndexHonest'
    BY <1>16 DEF Report, Ends, NoRun, NoImport
  <1>17. ASSUME Crash
        PROVE  IndexHonest'
    BY <1>17 DEF Crash, Ends, NoRun, NoImport
  <1>18. CASE UNCHANGED vars \/ \E k \in Keys : EditFile(k) \/ EditString(k)
    BY <1>1, <1>18 DEF vars, watched, EditFile, EditString
  <1> QED
    BY <1>2, <1>3, <1>4, <1>5, <1>6, <1>7, <1>8, <1>9, <1>10, <1>11, <1>12, <1>13, <1>14, <1>15, <1>16, <1>17, <1>18 DEF Next, Pulls

-----------------------------------------------------------------------------
(* Theorems.                                                               *)

\* A fresh directory without an index.
LEMMA Starts == Init => IInv
  <1> SUFFICES ASSUME Init
               PROVE  IInv
    OBVIOUS
  <1>1. Empty \in Catalogs /\ Catalogs \subseteq [Keys -> Values \cup {None, Removed}]
    BY DEF Empty, Catalogs
  <1>2. imports \in [Imports -> [status: Statuses, vals: Catalogs]]
    <2>1. NoImport \in [status: Statuses, vals: Catalogs]
      BY <1>1 DEF NoImport, Statuses
    <2> QED
      BY <2>1 DEF Init
  <1>3. NoRun \in [kind: {"none", "push", "draft", "public"}, full: BOOLEAN,
                   existed: BOOLEAN, catalog: Catalogs, old: Catalogs,
                   todo: SUBSET Keys]
    BY <1>1, Zenon DEF NoRun
  <1>4. published \in Catalogs
    BY <1>1 DEF Init
  <1>5. 0 \in 0..MaxEdits /\ 0 \in 0..MaxRuns
    BY PushAssumption
  <1>6. server \in [Keys -> Values \cup {None, Removed}]
    BY <1>1 DEF Init
  <1>7. TypeOK
    BY <1>1, <1>2, <1>3, <1>4, <1>5, <1>6, Zenon DEF Init, TypeOK
  <1>8. pc = "idle" /\ \A n \in Imports : imports[n].status = "none"
    BY DEF Init, NoImport
  <1>9. Roles /\ Answers /\ Ages /\ FullAfterMarker /\ Covered
    BY <1>8 DEF Init, NoRun, Roles, Marking, Answers, Ages, Received, FullAfterMarker, Covered,
       Unsettled, Outstanding, UnderWay
  <1>10. PushKnows /\ PullKnows /\ IndexHonest
    BY DEF Init, NoRun, PushKnows, PullKnows, IndexHonest, IndexUsable
  <1> QED
    BY <1>7, <1>9, <1>10 DEF IInv

\* The invariant holds whatever pushes, pulls, imports, edits and crashes follow.
THEOREM Invariance == Spec => []IInv
  <1>1. ASSUME IInv, [Next]_vars
        PROVE  IInv'
    <2>1. TypeOK'
      BY <1>1, TypeStep DEF IInv
    <2> QED
      BY <1>1, <2>1, RolesStep, AnswersStep, AgesStep, FullAfterMarkerStep, CoveredStep,
         PullKnowsStep, PushKnowsStep, IndexHonestStep DEF IInv
  <1> QED
    BY <1>1, Starts, PTL DEF Spec

\* Pushes and pulls keep their types.
THEOREM TypeCorrect == Spec => []TypeOK
  <1>1. IInv => TypeOK
    BY DEF IInv
  <1> QED
    BY <1>1, Invariance, PTL

\* An index that the next push will trust holds what was agreed on, but for keys that went
\* astray: it makes the push skip no changed key.
THEOREM HonestIndex == Spec => []IndexHonest
  <1>1. IInv => IndexHonest
    BY DEF IInv
  <1> QED
    BY <1>1, Invariance, PTL

\* When a push reports success, each text it scanned was agreed on, but for keys that went
\* astray.
THEOREM SuccessfulPush == Spec => []PushDelivers
  <1>1. IInv => PushDelivers
    BY DEF IInv, PushKnows, PushDelivers, Present, TypeOK
  <1> QED
    BY <1>1, Invariance, PTL

\* Behind a request that may yet become the newest import, the next push sends everything.
THEOREM UnsettledCovered == Spec => []UnsettledIsCovered
  <1>1. ASSUME IInv, NEW n \in Outstanding \ forgotten
        PROVE  Overtaken(n) \/ pending
    <2>1. CASE Awaited(n)
      BY <1>1, <2>1 DEF IInv, Roles, Marking, Awaited
    <2>2. CASE ~Awaited(n)
      BY <1>1, <2>2 DEF IInv, Covered, Unsettled, Outstanding
    <2> QED
      BY <2>1, <2>2
  <1>2. IInv => UnsettledIsCovered
    BY <1>1 DEF UnsettledIsCovered
  <1> QED
    BY <1>2, Invariance, PTL
=============================================================================
