------------------------------- MODULE PushIndex -------------------------------
(***************************************************************************)
(* loc push and loc pull in one directory (cli/x_locale_cli).  The CLI     *)
(* keeps push-index.json, the text each key had when directory and server  *)
(* last agreed, so that a push sends only what changed, and the marker     *)
(* push-index.pending, which forces a full push while the index may be     *)
(* wrong.  A process may die between any two of its file operations.  A    *)
(* request that was sent outlives the process that sent it: the server may *)
(* let it in, and commit it, before or after what later processes send.    *)
(* One CLI process runs at a time, always with the same scope; a write     *)
(* that raises OSError leaves the files as a process that dies there does. *)
(***************************************************************************)
EXTENDS Naturals

CONSTANTS
    Keys, Values,
    None,      \* no such key, no index
    Removed,   \* the key is queued for removal, or a tombstone
    MaxEdits,  \* bound on edits, of the local files and in the web app
    MaxRuns    \* bound on the pushes and pulls that are started

ASSUME PushAssumption ==
    /\ None \notin Values
    /\ Removed \notin Values \cup {None}
    /\ MaxEdits \in Nat
    /\ MaxRuns \in Nat

VARIABLES
    local,      \* base-language texts in the directory; each key has its own file
    index,      \* push-index.json, or None
    pending,    \* push-index.pending exists
    server,     \* working copies on the server
    published,  \* what the public export ships
    imports,    \* what this directory has sent, by the process that sent it
    pc, run,    \* the CLI process
    agreed,     \* history: text each key had when directory and server last agreed
    newest,     \* history: the newest import that has committed
    forgotten,  \* history: imports under way when a public pull removed the marker
    astray,     \* history: keys last agreed on by an import that was forgotten, or overtaken
    edits, runs

disk == <<local, index, pending>>
remote == <<server, published, imports>>
history == <<agreed, newest, forgotten, astray>>
vars == <<disk, remote, pc, run, history, edits, runs>>

Catalogs == [Keys -> Values \cup {None}]
Empty == [k \in Keys |-> None]

\* An import is named by the process that sent it.
Imports == 1..MaxRuns

\* Sent, let in by the server, or running without the lock it should have been handed;
\* what the answer will say, if somebody waits for it.
UnderWay == {"sent", "running", "late"}
Statuses == UnderWay \cup {"none", "committed", "rejected", "failed"}
NoImport == [status |-> "none", vals |-> Empty]

\* A process: the marker it found, the catalog it pushes or was sent, the index
\* entries it keeps, the keys it sends or the files it has yet to write.
NoRun == [kind |-> "none", full |-> FALSE, existed |-> FALSE,
          catalog |-> Empty, old |-> Empty, todo |-> {}]

TypeOK ==
    /\ local \in Catalogs
    /\ index \in Catalogs \cup {None}
    /\ pending \in BOOLEAN
    /\ server \in [Keys -> Values \cup {None, Removed}]
    /\ published \in Catalogs
    /\ imports \in [Imports -> [status: Statuses, vals: Catalogs]]
    /\ pc \in {"idle", "marked", "waiting", "accepted", "writing", "indexed", "done"}
    /\ run \in [kind: {"none", "push", "draft", "public"}, full: BOOLEAN,
                existed: BOOLEAN, catalog: Catalogs, old: Catalogs,
                todo: SUBSET Keys]
    /\ agreed \in Catalogs
    /\ newest \in 0..MaxRuns
    /\ forgotten \subseteq Imports
    /\ astray \subseteq Keys
    /\ edits \in 0..MaxEdits
    /\ runs \in 0..MaxRuns

\* A directory with files but without an index; nothing of the project has been
\* published, or everything.
Init ==
    /\ local \in Catalogs
    /\ index = None
    /\ pending = FALSE
    /\ server \in Catalogs
    /\ published \in {Empty, server}
    /\ imports = [n \in Imports |-> NoImport]
    /\ pc = "idle"
    /\ run = NoRun
    /\ agreed = Empty
    /\ newest = 0
    /\ forgotten = {}
    /\ astray = {}
    /\ edits = 0
    /\ runs = 0

-----------------------------------------------------------------------------
(* The people: a developer edits files, translators edit on the server.    *)

EditFile(k) ==
    /\ edits < MaxEdits
    /\ \E v \in (Values \cup {None}) \ {local[k]} : local' = [local EXCEPT ![k] = v]
    /\ edits' = edits + 1
    /\ UNCHANGED <<index, pending, remote, pc, run, history, runs>>

EditString(k) ==
    /\ edits < MaxEdits
    /\ \E v \in (Values \cup {Removed}) \ {server[k]} :
        /\ server[k] = None => v # Removed
        /\ server' = [server EXCEPT ![k] = v]
    /\ edits' = edits + 1
    /\ UNCHANGED <<disk, published, imports, pc, run, history, runs>>

-----------------------------------------------------------------------------
(* loc push.                                                               *)

Present(catalog) == {k \in Keys : catalog[k] # None}

IndexUsable == index # None /\ ~pending

\* Mutant: a key the index has is taken for sent, whatever its text.
NewKeys == {k \in Present(local) : index[k] = None}

Changed == {k \in Present(local) : index[k] # local[k]}

UseFull(full) == full \/ ~IndexUsable

ToSend(full) == IF UseFull(full) THEN Present(local) ELSE Changed

Begin ==
    /\ pc = "idle"
    /\ runs < MaxRuns
    /\ runs' = runs + 1

\* Scan the files, ask for the sync state, load the index, set the marker.  A
\* push of keys the server removed is refused; an empty delta sends nothing.
StartPush(full) ==
    /\ Begin
    /\ \A k \in Present(local) : server[k] # Removed
    /\ run' = [kind |-> "push", full |-> UseFull(full), existed |-> pending,
               catalog |-> local,
               old |-> IF UseFull(full) THEN Empty ELSE index, todo |-> ToSend(full)]
    /\ IF UseFull(full) \/ ToSend(full) # {}
         THEN pc' = "marked" /\ pending' = TRUE
         ELSE pc' = "done" /\ UNCHANGED pending
    /\ UNCHANGED <<local, index, remote, history, edits>>

Sent == [k \in Keys |-> IF k \in run.todo THEN run.catalog[k] ELSE None]

\* The request goes out.
Send ==
    /\ pc = "marked"
    /\ imports' = [imports EXCEPT ![runs] = [status |-> "sent", vals |-> Sent]]
    /\ pc' = "waiting"
    /\ UNCHANGED <<disk, server, published, run, history, edits, runs>>

-----------------------------------------------------------------------------
(* The server, which does not ask whether the process is still there.      *)

Outstanding == {n \in Imports : imports[n].status \in UnderWay}

\* Nobody else has the project's import lock.
LockFree(n) == \A m \in Imports \ {n} : imports[m].status # "running"

Accept(n) ==
    /\ imports[n].status = "sent" /\ LockFree(n)
    /\ imports' = [imports EXCEPT ![n].status = "running"]
    /\ UNCHANGED <<disk, server, published, pc, run, history, edits, runs>>

\* The worker misses the deadline of the handoff: its job runs on, and the lock is
\* free until it takes it.
MissHandoff(n) ==
    /\ imports[n].status = "running"
    /\ imports' = [imports EXCEPT ![n].status = "late"]
    /\ UNCHANGED <<disk, server, published, pc, run, history, edits, runs>>

\* Only the process that sent an import takes its answer.
Awaited(n) == pc = "waiting" /\ n = runs

Answered(n, status) ==
    imports' = [imports EXCEPT ![n] =
                   IF Awaited(n) THEN [@ EXCEPT !.status = status] ELSE NoImport]

Overtaken(n) == n < newest

Commit(n) ==
    LET vals == imports[n].vals IN
    /\ imports[n].status \in {"running", "late"} /\ LockFree(n)
    /\ \A k \in Present(vals) : server[k] # Removed
    /\ server' = [k \in Keys |-> IF vals[k] # None THEN vals[k] ELSE server[k]]
    /\ agreed' = [k \in Keys |-> IF vals[k] # None THEN vals[k] ELSE agreed[k]]
    /\ astray' = IF Overtaken(n) \/ n \in forgotten
                    THEN astray \cup Present(vals) ELSE astray \ Present(vals)
    /\ newest' = IF Overtaken(n) THEN newest ELSE n
    /\ forgotten' = forgotten \ {n}
    /\ Answered(n, "committed")
    /\ UNCHANGED <<disk, published, pc, run, edits, runs>>

\* Rejected with a 4xx: 409 from another import, a payload the server will not take.
\* Or failed without a status that the CLI trusts, or the request is lost.
Fail(n, status) ==
    /\ n \in Outstanding
    /\ forgotten' = forgotten \ {n}
    /\ Answered(n, status)
    /\ UNCHANGED <<disk, server, published, pc, run, agreed, newest, astray, edits, runs>>

-----------------------------------------------------------------------------
(* The rest of loc push.                                                   *)

\* The process ends; its lines stop here and its files stay as they are.  Nobody takes
\* the answer it was waiting for; what is under way goes on.
Ends ==
    /\ pc' = "idle" /\ run' = NoRun
    /\ imports' = [n \in Imports |-> IF n \in Outstanding THEN imports[n] ELSE NoImport]

\* maybe_clear_push_pending_after_failure after a definite rejection.
MarkerAfterReject == pending /\ run.existed

\* The answer to the request, or the last poll: completed or rejected.
HearCompleted ==
    /\ pc = "waiting"
    /\ imports[runs].status = "committed"
    /\ imports' = [imports EXCEPT ![runs] = NoImport]
    /\ pc' = "accepted"
    /\ UNCHANGED <<disk, server, published, run, history, edits, runs>>

HearRejected ==
    /\ pc = "waiting"
    /\ imports[runs].status = "rejected"
    /\ pending' = MarkerAfterReject
    /\ Ends
    /\ UNCHANGED <<local, index, server, published, history, edits, runs>>

\* No connection, a failure without an allowlisted status, a lost answer, a failed
\* poll, the timeout: the import may still commit.
GiveUp ==
    /\ pc \in {"marked", "waiting"}
    /\ Ends
    /\ UNCHANGED <<disk, server, published, history, edits, runs>>

\* Mutant: the index takes the files as they are when the push ends.
MergedWithFiles == [k \in Keys |-> IF local[k] # None THEN local[k] ELSE run.old[k]]

Merged == [k \in Keys |-> IF k \in run.todo THEN run.catalog[k] ELSE run.old[k]]

SaveIndex ==
    /\ pc = "accepted"
    /\ index' = Merged
    /\ pc' = "indexed"
    /\ UNCHANGED <<local, pending, remote, run, history, edits, runs>>

-----------------------------------------------------------------------------
(* loc pull.                                                               *)

DraftExport == [k \in Keys |-> IF server[k] = Removed THEN None ELSE server[k]]

\* Fetch the export, plan every write, set the marker: the commits that come in
\* between change nothing the plan reads.  A pull that touches no file of the
\* base language leaves index and marker alone.
StartPull(kind) ==
    LET export == IF kind = "public" THEN published ELSE DraftExport
        touched == Present(export) \cup Present(local)
    IN  /\ Begin
        /\ touched # {}
        /\ pending' = TRUE
        /\ agreed' = IF kind = "public" THEN agreed ELSE export
        /\ astray' = IF kind = "public" THEN astray ELSE {}
        /\ run' = [kind |-> kind, full |-> FALSE, existed |-> pending,
                   catalog |-> export, old |-> Empty, todo |-> touched]
        /\ pc' = "writing"
        /\ UNCHANGED <<local, index, remote, newest, forgotten, edits>>

\* One file is replaced, or pruned.
WriteFile(k) ==
    /\ pc = "writing"
    /\ k \in run.todo
    /\ local' = [local EXCEPT ![k] = run.catalog[k]]
    /\ run' = [run EXCEPT !.todo = @ \ {k}]
    /\ UNCHANGED <<index, pending, remote, pc, history, edits, runs>>

PulledIndex == IF run.kind = "public" THEN None ELSE run.catalog

RefreshIndex ==
    /\ pc = "writing"
    /\ run.todo = {}
    /\ index' = PulledIndex
    /\ pc' = "indexed"
    /\ UNCHANGED <<local, pending, remote, run, history, edits, runs>>

\* Mutant: a draft pull removes the marker whoever set it.
KeepsNoMarker == FALSE

KeepsMarker == run.kind = "draft" /\ run.existed

ClearMarker ==
    /\ pc = "indexed"
    /\ pending' = (pending /\ KeepsMarker)
    /\ forgotten' = IF run.kind = "public" THEN Outstanding ELSE forgotten
    /\ pc' = "done"
    /\ UNCHANGED <<local, index, remote, run, agreed, newest, astray, edits, runs>>

\* The report is printed and the process exits.
Report ==
    /\ pc = "done"
    /\ Ends
    /\ UNCHANGED <<disk, server, published, history, edits, runs>>

\* The process is killed, or a file operation of its own raises.
Crash ==
    /\ pc # "idle"
    /\ Ends
    /\ UNCHANGED <<disk, server, published, history, edits, runs>>

-----------------------------------------------------------------------------
Next ==
    \/ \E k \in Keys : EditFile(k) \/ EditString(k) \/ WriteFile(k)
    \/ \E full \in BOOLEAN : StartPush(full)
    \/ \E kind \in {"draft", "public"} : StartPull(kind)
    \/ \E n \in Imports :
          \/ Accept(n) \/ MissHandoff(n) \/ Commit(n)
          \/ \E status \in {"rejected", "failed"} : Fail(n, status)
    \/ Send \/ HearCompleted \/ HearRejected \/ GiveUp
    \/ SaveIndex \/ RefreshIndex \/ ClearMarker \/ Report \/ Crash

Spec == Init /\ [][Next]_vars

-----------------------------------------------------------------------------
(* Properties.                                                             *)

\* An index that a push would trust (compute_push_diff) holds, for each of its
\* keys, the text on which directory and server last agreed: a push that relies
\* on it skips no key whose text the server does not have from this directory.
\* Nothing is promised of a key that went astray, until they agree on it again.
IndexHonest ==
    IndexUsable =>
        \A k \in Present(index) \ astray : index[k] = agreed[k]

\* When a push reports success (print_push_report), directory and server have
\* last agreed on each text it scanned, whichever keys it sent, but for those that
\* went astray meanwhile or before.
PushDelivers ==
    pc = "done" /\ run.kind = "push" =>
        \A k \in Present(run.catalog) \ astray : agreed[k] = run.catalog[k]

\* Behind a request that may still be let in and commit, and would then be the newest
\* of the directory, the marker forces a full push (apply_index_after_success,
\* maybe_clear_push_pending_after_failure); only a public pull forgets it.
UnsettledIsCovered ==
    \A n \in Outstanding \ forgotten : Overtaken(n) \/ pending
=============================================================================
