-------------------------------- MODULE History --------------------------------
(***************************************************************************)
(* The activity log and what is undone with it (activity.py,               *)
(* services/activities.py, services/activity_state.py).  Every write of a  *)
(* string leaves an entry with the row before and after, as the session    *)
(* saw them.  Undo puts back the "before" of one entry or of a batch,      *)
(* publication included; History restores an older working copy.           *)
(* A request reads rows, then writes and commits; what others commit in    *)
(* between is there.  An undo holds the import lock and the publication    *)
(* lock, and claims its rows by the version (updated_at) that it read.     *)
(***************************************************************************)
EXTENDS StringRows, SequencesExt

CONSTANTS
    Clients,     \* each has one request under way at a time
    Scenes       \* what is sent: the kinds of request, the keys and texts in them, how
                 \* many, and how many of them at one time

RowKinds == {"publish", "delete", "discard", "restore"}
RequestKinds == RowKinds \cup {"version", "last", "undo", "undo batch"}
Kinds == RequestKinds \cup {"edit", "import", "prune"}

ASSUME HistoryAssumption ==
    /\ None \notin Strings \cup Keys \cup Texts \cup Contents \cup Clients
    /\ IsFiniteSet(Strings)
    /\ \A sc \in Scenes :
          /\ sc.kinds \subseteq Kinds /\ sc.requests \in Nat /\ sc.overlap \in Nat
          /\ sc.keys \subseteq Keys /\ sc.texts \subseteq Texts

VARIABLES
    rows, ver,   \* the strings table and its updated_at column, as committed
    log,         \* the activities, oldest first
    pruned,      \* how many of the oldest activities prune_activities deleted
    importer,    \* the client whose transaction has the import lock, or None
    publisher,   \* the client whose transaction has the publication lock, or None
    pc, req,     \* step and request of each client
    copy, cver,  \* rows and versions in the session of each client's request
    scene, sent, \* the scene, and the requests sent so far
    fresh        \* history: every batch restore found its row as it had read it

locks == <<importer, publisher>>
session == <<pc, req, copy, cver>>
vars == <<rows, ver, log, pruned, locks, session, scene, sent, fresh>>

Snapshots == Rows
Actions == {"create", "update", "delete"}

\* One activity: batch names the first entry of its batch, or is 0; revertOf and
\* revertedBy are positions in the log, or 0; forced is kept for the properties.
Activities ==
    [str: Strings, action: Actions, intent: {"none", "restore"},
     before: Snapshots, after: Snapshots,
     batch: Nat, revertOf: Nat, revertedBy: Nat, forced: BOOLEAN]

NoRequest == [kind |-> "none", strs |-> <<>>, acts |-> <<>>, force |-> FALSE]

\* Types of the table, the log and the requests under way.
TypeOK ==
    /\ rows \in [Strings -> Rows]
    /\ ver \in [Strings -> Nat]
    /\ \A i \in DOMAIN log :
          /\ log[i] \in Activities
          /\ log[i].revertOf < i
          /\ log[i].revertedBy \in 0..Len(log)
    /\ pruned \in 0..Len(log)
    /\ importer \in Clients \cup {None}
    /\ publisher \in Clients \cup {None}
    /\ \A c \in Clients :
          /\ pc[c] = "idle" <=> req[c] = NoRequest
          /\ pc[c] \in {"idle", "read"}
          /\ req[c].kind \in RequestKinds \cup {"none"}
          /\ copy[c] \in [Strings -> Rows]
          /\ cver[c] \in [Strings -> Nat]
    /\ scene \in Scenes
    /\ sent \in 0..scene.requests
    /\ fresh \in BOOLEAN

\* Some strings have been published; their entries are pruned.
Init ==
    /\ scene \in Scenes
    /\ rows \in [Strings -> {NoRow} \cup {PublishedRow(x) : x \in [key: scene.keys, text: scene.texts]}]
    /\ KeysAlive(rows)
    /\ ver = [s \in Strings |-> 0]
    /\ log = <<>>
    /\ pruned = 0
    /\ importer = None /\ publisher = None
    /\ pc = [c \in Clients |-> "idle"]
    /\ req = [c \in Clients |-> NoRequest]
    /\ copy = [c \in Clients |-> NoRows]
    /\ cver = [c \in Clients |-> ver]
    /\ sent = 0
    /\ fresh = TRUE

-----------------------------------------------------------------------------
(* Entries of the log.                                                     *)

Action(before, after) ==
    IF ~Exists(before) THEN "create"
    ELSE IF ~before.deleted /\ after.deleted THEN "delete" ELSE "update"

Entry(s, before, after, batch) ==
    [str |-> s, action |-> Action(before, after), intent |-> "none",
     before |-> before, after |-> after,
     batch |-> batch, revertOf |-> 0, revertedBy |-> 0, forced |-> FALSE]

\* classify_event: what the entry is called; every plain edit is "content".
EventType(a) ==
    IF a.intent = "restore" THEN "restored"
    ELSE IF a.action = "create" THEN "created"
    ELSE IF a.action = "delete" THEN "deleted"
    ELSE IF a.before.deleted /\ ~a.after.deleted THEN "restored"
    ELSE IF ~a.before.pending /\ a.after.pending THEN "pending_delete"
    ELSE IF a.before.pending /\ ~a.after.pending THEN "restored"
    ELSE IF a.before.status = "public" /\ a.after.status = "draft" THEN "unpublished"
    ELSE IF a.after.status = "public" /\ a.before.status # "public" THEN "published"
    ELSE IF a.before.pub # a.after.pub THEN "published"
    ELSE "content"

IsHistoryRestorable(a) ==
    EventType(a) \notin {"published", "unpublished", "pending_delete", "deleted"}

NextBatch == Len(log) + 1

\* The entries of one flush, in an order of its own; unchanged rows leave none.
Captured(before, after, batch) ==
    LET changed == {s \in Strings : before[s] # after[s]} IN
    {[n \in DOMAIN order |-> Entry(order[n], before[order[n]], after[order[n]], batch)] :
        order \in SetToSeqs(changed)}

AsRestore(entry) == [entry EXCEPT !.intent = "restore"]

\* Some strings, in the order in which a request goes through them.
Orders == SetToAllKPermutations(Strings) \ {<<>>}

Live == pruned + 1..Len(log)

\* The ways to go through positions of the log from the newest to the oldest: one.
NewestFirst(S) ==
    {acts \in SetToSeqs(S) : \A m, n \in DOMAIN acts : m < n => acts[m] > acts[n]}

StringsOf(acts) == {log[acts[n]].str : n \in DOMAIN acts}

KeyFree(table, s, key) ==
    \A t \in Strings : t # s /\ Alive(table[t]) => table[t].key # key

\* Every write stamps updated_at of the rows it touches.
Stamped(S) == [s \in Strings |-> IF s \in S THEN ver[s] + 1 ELSE ver[s]]

-----------------------------------------------------------------------------
(* What an undo is going to write.                                         *)

\* _revert_target: undoing a creation deletes or queues, anything else puts the
\* recorded row back.
RevertTarget(a, current) ==
    IF a.action # "create" THEN a.before
    ELSE IF current.pub # None THEN [current EXCEPT !.pending = TRUE]
    ELSE Tombstone(current)

Owners(table) ==
    [k \in Keys |->
        IF \E s \in Strings : Alive(table[s]) /\ table[s].key = k
        THEN CHOOSE s \in Strings : Alive(table[s]) /\ table[s].key = k ELSE None]

\* The owner of a key once s has gone from one row to another.
Handover(owners, s, before, after) ==
    [k \in Keys |->
        IF Alive(after) /\ after.key = k THEN s
        ELSE IF Alive(before) /\ before.key = k /\ owners[k] = s THEN None
        ELSE owners[k]]

Taken(owners, s, target) == Alive(target) /\ owners[target.key] \notin {None, s}

SnapshotsMatch(current, recorded) == current = recorded

InverseOf(table, i) ==
    LET before == table[log[i].str] IN
    [act |-> i, before |-> before, after |-> RevertTarget(log[i], before)]

\* _execute_inverse: one entry against the rows that were read.
EntryUndoable(table, i, force) ==
    LET inverse == InverseOf(table, i) IN
    /\ Alive(inverse.after) => KeyFree(table, log[i].str, inverse.after.key)
    /\ force \/ SnapshotsMatch(inverse.before, log[i].after)

\* _plan_batch_revert: newest first, each inverse on the state the one before it
\* left; a refusal refuses everything.
PlanStep(plan, i, force) ==
    LET s == log[i].str
        inverse == InverseOf(plan.rows, i)
    IN [ok |-> /\ plan.ok
               /\ ~Taken(plan.owners, s, inverse.after)
               /\ force \/ SnapshotsMatch(inverse.before, log[i].after),
        rows |-> [plan.rows EXCEPT ![s] = inverse.after],
        owners |-> Handover(plan.owners, s, inverse.before, inverse.after),
        inverses |-> Append(plan.inverses, inverse)]

Plan(table, acts, force) ==
    FoldLeft(LAMBDA plan, i : PlanStep(plan, i, force),
             [ok |-> TRUE, rows |-> table, owners |-> Owners(table), inverses |-> <<>>],
             acts)

\* Mutant: the preview does not release the key that an earlier item gives up.
PreviewKeepingKeys(view, i) ==
    LET a == log[i]
        current == view.rows[a.str]
        target == RevertTarget(a, current)
        blocked == Taken(view.owners, a.str, target)
    IN [blocked |-> view.blocked \/ blocked,
        conflict |-> view.conflict \/ ~SnapshotsMatch(current, a.after),
        rows |-> IF blocked THEN view.rows ELSE [view.rows EXCEPT ![a.str] = target],
        owners |-> view.owners]

\* build_revert_preview: every item is looked at, a blocked one changes nothing.
PreviewItem(view, i) ==
    LET a == log[i]
        current == view.rows[a.str]
        target == RevertTarget(a, current)
        blocked == Taken(view.owners, a.str, target)
        conflict == ~SnapshotsMatch(current, a.after)
    IN [blocked |-> view.blocked \/ blocked,
        conflict |-> view.conflict \/ conflict,
        rows |-> IF blocked THEN view.rows ELSE [view.rows EXCEPT ![a.str] = target],
        owners |-> IF blocked THEN view.owners
                   ELSE Handover(view.owners, a.str, current, target)]

Preview(table, acts) ==
    FoldLeft(PreviewItem,
             [blocked |-> FALSE, conflict |-> FALSE, rows |-> table, owners |-> Owners(table)],
             acts)

\* Only the working copy of the version goes back; publication and lifecycle stay.
HistoryTarget(current, snapshot) ==
    [current EXCEPT !.key = snapshot.key, !.text = snapshot.text]

\* preview_restore_activity_version: can_restore.
VersionPreview(table, i) ==
    LET s == log[i].str
        target == HistoryTarget(table[s], log[i].after)
    IN /\ IsHistoryRestorable(log[i])
       /\ ~table[s].deleted
       /\ target # table[s]
       /\ KeyFree(table, s, target.key)

\* _public_hold: the export key a row occupies.
PublicHold(r) == IF Exported(r) THEN ExportKey(r) ELSE None

\* _guard_restored_publication: no string that the undo puts on another export
\* key shares it with a public string.
RestoredPublicationOK(inverses, table) ==
    \A n \in DOMAIN inverses :
        LET s == log[inverses[n].act].str
            newHold == PublicHold(inverses[n].after)
        IN newHold # PublicHold(inverses[n].before) /\ newHold # None /\ Exported(table[s])
           => \A t \in Strings \ {s} : Exported(table[t]) =>
                                           ExportKey(table[t]) # ExportKey(table[s])

\* Mutant: the marker repeats what its entry recorded.
MarkerFromEntry(inv, batch, forced) ==
    LET a == log[inv.act] IN
    [str |-> a.str, action |-> "update", intent |-> "restore",
     before |-> a.after, after |-> inv.after,
     batch |-> batch, revertOf |-> inv.act, revertedBy |-> 0, forced |-> forced]

\* _make_revert_marker: an entry of its own per inverse, and the link to it.
Marker(inv, batch, forced) ==
    LET a == log[inv.act] IN
    [str |-> a.str, action |-> "update", intent |-> "restore",
     before |-> inv.before, after |-> inv.after,
     batch |-> batch, revertOf |-> inv.act, revertedBy |-> 0, forced |-> forced]

WithMarkers(inverses, forced) ==
    LET position(i) == CHOOSE n \in DOMAIN inverses : inverses[n].act = i
        linked == {inverses[n].act : n \in DOMAIN inverses} \cap Live
    IN [i \in DOMAIN log |->
            IF i \in linked THEN [log[i] EXCEPT !.revertedBy = Len(log) + position(i)]
            ELSE log[i]]
       \o [n \in DOMAIN inverses |-> Marker(inverses[n], NextBatch, forced)]

-----------------------------------------------------------------------------
(* Requests that are one step: they hold the rows they write.              *)

Send(k) ==
    /\ k \in scene.kinds
    /\ sent < scene.requests
    /\ sent' = sent + 1
    /\ UNCHANGED scene

\* What a committed write of new rows does to the table and to the log.
Write(table, entries, touched) ==
    /\ KeysAlive(table)
    /\ rows' = table
    /\ ver' = Stamped(touched)
    /\ log' = log \o entries

\* The entries are those of one flush.
WriteFlushed(table, before, after, batch, touched) ==
    \E entries \in Captured(before, after, batch) : Write(table, entries, touched)

\* POST or PATCH of a string, with publication or not; a publishing editor waits
\* for the publication lock.
Edit(s, key, text, publish) ==
    LET edited == [rows[s] EXCEPT !.key = key, !.text = text,
                                  !.status = IF Exists(rows[s]) THEN @ ELSE "draft"]
        table == [rows EXCEPT ![s] = IF publish THEN Promoted(edited) ELSE edited]
    IN /\ Send("edit")
       /\ rows[s].key # key => KeyFree(rows, s, key)
       /\ publish => publisher = None /\ KeysPublic(table)
       /\ WriteFlushed(table, rows, table, 0, {s})
       /\ UNCHANGED <<pruned, locks, session, fresh>>

\* An import: new text for the strings it finds, new strings; it has the import
\* lock and locks its rows.
Import(T, text, newKey) ==
    LET key(s) == IF Exists(rows[s]) THEN rows[s].key ELSE newKey
        table == [s \in Strings |->
                    IF s \in T
                    THEN [rows[s] EXCEPT !.text = text, !.key = key(s),
                             !.status = IF Exists(rows[s]) THEN @ ELSE "draft"]
                    ELSE rows[s]]
    IN /\ Send("import")
       /\ importer = None
       /\ \A s \in T : ~rows[s].deleted
       /\ \A s \in T : ~Exists(rows[s]) => KeyFree(rows, s, newKey)
       /\ WriteFlushed(table, rows, table, NextBatch, T)
       /\ UNCHANGED <<pruned, locks, session, fresh>>

\* prune_activities deletes the oldest entries, whatever batch they belong to.
Prune ==
    /\ Send("prune")
    /\ pruned < Len(log)
    /\ pruned' = pruned + 1
    /\ UNCHANGED <<rows, ver, log, locks, session, fresh>>

-----------------------------------------------------------------------------
(* Requests that read first and write later.                               *)

Done(c) ==
    /\ pc' = [pc EXCEPT ![c] = "idle"]
    /\ req' = [req EXCEPT ![c] = NoRequest]
    /\ copy' = [copy EXCEPT ![c] = NoRows]
    /\ cver' = [cver EXCEPT ![c] = [s \in Strings |-> 0]]
    /\ importer' = IF importer = c THEN None ELSE importer
    /\ publisher' = IF publisher = c THEN None ELSE publisher

IsUndo(q) == q.kind \in {"undo", "undo batch"}
TakesPublication(q) == IsUndo(q) \/ q.kind \in {"publish", "delete"}

\* Mutant: entries that were reverted before are in the batch again.
RevertibleAgain(i) == i \in Live

\* count_revertible_batch and revert_batch: entries nobody has reverted.
Revertible(i) == i \in Live /\ log[i].revertedBy = 0

BatchActs(b) == NewestFirst({i \in Live : log[i].batch = b /\ Revertible(i)})

\* What the request finds before it reads rows: 400 and 404 otherwise.
Sensible(q) ==
    CASE q.kind = "undo" -> Revertible(q.acts[1]) \/ q.force
      [] q.kind = "undo batch" -> q.acts # <<>>
      [] q.kind = "version" -> IsHistoryRestorable(log[q.acts[1]])
                                 /\ log[q.acts[1]].str = q.strs[1]
      [] OTHER -> TRUE

\* All locks are taken before the rows are read; the import lock is not waited for.
Begin(c, q) ==
    /\ pc[c] = "idle"
    /\ Cardinality({d \in Clients : pc[d] # "idle"}) < scene.overlap
    /\ Send(q.kind) /\ Sensible(q)
    /\ IF IsUndo(q) THEN importer = None /\ importer' = c ELSE UNCHANGED importer
    /\ IF TakesPublication(q) THEN publisher = None /\ publisher' = c
                              ELSE UNCHANGED publisher
    /\ pc' = [pc EXCEPT ![c] = "read"]
    /\ req' = [req EXCEPT ![c] = q]
    /\ copy' = [copy EXCEPT ![c] = rows]
    /\ cver' = [cver EXCEPT ![c] = ver]
    /\ UNCHANGED <<rows, ver, log, pruned, fresh>>

Batches == {log[i].batch : i \in Live} \ {0}

\* The requests that exist in a state: of the rows, of the entries, of the batches.
Offered ==
    [kind: RowKinds, strs: {<<s>> : s \in Strings}, acts: {<<>>}, force: {FALSE}]
    \cup [kind: {"last"}, strs: Orders, acts: {<<>>}, force: {FALSE}]
    \cup {[kind |-> "version", strs |-> <<log[i].str>>, acts |-> <<i>>, force |-> FALSE] :
             i \in Live}
    \cup [kind: {"undo"}, strs: {<<>>}, acts: {<<i>> : i \in Live}, force: BOOLEAN]
    \cup [kind: {"undo batch"}, strs: {<<>>}, acts: UNION {BatchActs(b) : b \in Batches},
           force: BOOLEAN]

\* publish, delete, discard and restore of the grid, on one row object.
Handled(kind, r) ==
    CASE kind = "delete"  -> QueuedOrDeleted(r)
      [] kind = "discard" -> Discarded(r)
      [] kind = "restore" -> Restored(r)
      [] kind = "publish" -> IF r.deleted THEN r
                             ELSE IF r.pending THEN Tombstone(r) ELSE Promoted(r)

\* The columns that the session changed, on the rows as they are now.
Merged(c, after) == [s \in Strings |-> Changed(copy[c][s], after[s], rows[s])]

RowAction(c) ==
    LET s == req[c].strs[1]
        after == [copy[c] EXCEPT ![s] = Handled(req[c].kind, @)]
        table == Merged(c, after)
    IN /\ req[c].kind \in RowKinds
       /\ Exists(copy[c][s])
       /\ req[c].kind = "publish" => KeysPublic(table)
       /\ WriteFlushed(table, copy[c], after, NextBatch, IF after = copy[c] THEN {} ELSE {s})

VersionTarget(c) ==
    HistoryTarget(copy[c][req[c].strs[1]], log[req[c].acts[1]].after)

\* restore_activity_version: what it checks before it writes.
VersionAllowed(c) ==
    LET s == req[c].strs[1] IN
    /\ ~copy[c][s].deleted
    /\ VersionTarget(c) # copy[c][s]
    /\ KeyFree(rows, s, VersionTarget(c).key)

WithVersion(c) == [copy[c] EXCEPT ![req[c].strs[1]] = VersionTarget(c)]

RestoreVersion(c) ==
    LET s == req[c].strs[1]
        entry == Entry(s, copy[c][s], VersionTarget(c), 0)
    IN /\ req[c].kind = "version"
       /\ VersionAllowed(c)
       /\ Write(Merged(c, WithVersion(c)), <<AsRestore(entry)>>, {s})

\* restore_last_history: the newest restorable entry with a before, string by
\* string; each key is checked against the rows written so far.
LastEntry(s) ==
    LET found == {i \in Live : /\ log[i].str = s
                               /\ Exists(log[i].before) /\ IsHistoryRestorable(log[i])}
    IN IF found = {} THEN 0 ELSE CHOOSE i \in found : \A j \in found : j <= i

\* Each string is flushed before the next one is looked at.
LastStep(c, done, s) ==
    LET i == LastEntry(s)
        current == copy[c][s]
        target == HistoryTarget(current, log[i].before)
    IN IF i = 0 \/ ~Alive(current) \/ target = current THEN done
       ELSE [ok |-> done.ok /\ KeyFree(Merged(c, done.after), s, target.key),
             after |-> [done.after EXCEPT ![s] = target],
             entries |-> Append(done.entries, AsRestore(Entry(s, current, target, NextBatch)))]

LastPlan(c) ==
    FoldLeft(LAMBDA done, s : LastStep(c, done, s),
             [ok |-> TRUE, after |-> copy[c], entries |-> <<>>], req[c].strs)

RestoreLast(c) ==
    LET done == LastPlan(c) IN
    /\ req[c].kind = "last"
    /\ done.ok
    /\ Write(Merged(c, done.after), done.entries,
             {s \in Strings : done.after[s] # copy[c][s]})

\* Mutant: the plan is written without asking whether the rows have changed.
ClaimedUnseen(c, S) == TRUE

\* claim_rows: the rows still have the versions that the plan was made on.
Claimed(c, S) == \A s \in S : ver[s] = cver[c][s]

\* What a committed undo leaves: the inverses, their markers and links.
Undone(c, undone, inverses, table) ==
    /\ Claimed(c, undone)
    /\ RestoredPublicationOK(inverses, table)
    /\ KeysAlive(table)
    /\ rows' = table
    /\ ver' = Stamped(undone)
    /\ log' = WithMarkers(inverses, req[c].kind = "undo" /\ req[c].force)

\* revert_activity: one entry, through objects of the session.
UndoEntry(c) ==
    LET i == req[c].acts[1]
        s == log[i].str
        inverse == InverseOf(copy[c], i)
    IN /\ req[c].kind = "undo"
       /\ i \in Live
       /\ EntryUndoable(copy[c], i, req[c].force)
       /\ Undone(c, {s}, <<inverse>>, [rows EXCEPT ![s] = inverse.after])

\* _write_revert_content: the last state that the plan has for each string.
PlannedRows(plan, undone) ==
    [s \in Strings |-> IF s \in undone THEN plan.rows[s] ELSE rows[s]]

\* revert_batch and _persist_revert_plan: all its entries or none.
UndoBatch(c) ==
    LET plan == Plan(copy[c], req[c].acts, req[c].force)
        undone == StringsOf(req[c].acts)
    IN /\ req[c].kind = "undo batch"
       /\ plan.ok
       /\ Undone(c, undone, plan.inverses, PlannedRows(plan, undone))

Finish(c) ==
    /\ pc[c] = "read"
    /\ RowAction(c) \/ RestoreVersion(c) \/ RestoreLast(c) \/ UndoEntry(c) \/ UndoBatch(c)
    /\ fresh' = (fresh /\ (req[c].kind = "restore" =>
                              LET s == req[c].strs[1] IN copy[c][s] = rows[s]))
    /\ Done(c)
    /\ UNCHANGED <<pruned, scene, sent>>

\* Refused (400, 404, 409), failed, or the connection broke: nothing is written.
GiveUp(c) ==
    /\ pc[c] = "read"
    /\ Done(c)
    /\ UNCHANGED <<rows, ver, log, pruned, scene, sent, fresh>>

Next ==
    \/ \E s \in Strings, key \in scene.keys, text \in scene.texts, publish \in BOOLEAN :
          Edit(s, key, text, publish)
    \/ \E T \in SUBSET Strings \ {{}}, text \in scene.texts, key \in scene.keys :
          Import(T, text, key)
    \/ Prune
    \/ \E c \in Clients : (\E q \in Offered : Begin(c, q)) \/ Finish(c) \/ GiveUp(c)

Spec == Init /\ [][Next]_vars

-----------------------------------------------------------------------------
UndoCommits(c) == pc[c] = "read" /\ pc'[c] = "idle" /\ IsUndo(req[c]) /\ log' # log

\* Positions, in a descending list of entries, of those about one string.
On(acts, s) == {n \in DOMAIN acts : log[acts[n]].str = s}
Newest(acts, s) == log[acts[CHOOSE n \in On(acts, s) : \A m \in On(acts, s) : n <= m]]
Oldest(acts, s) == log[acts[CHOOSE n \in On(acts, s) : \A m \in On(acts, s) : m <= n]]

\* An undo that is not forced overwrites exactly what its entries recorded, never
\* a later edit, whenever that edit was committed; and what it leaves is the row
\* before the oldest entry, or a removal when that entry created the string
\* (_plan_batch_revert, claim_rows).
UndoIsExact ==
    [][\A c \in Clients :
          UndoCommits(c) /\ ~req[c].force =>
              LET acts == req[c].acts IN
              \A s \in StringsOf(acts) :
                  /\ rows[s] = Newest(acts, s).after
                  /\ IF Oldest(acts, s).action = "create"
                     THEN rows'[s].deleted \/ rows'[s].pending
                     ELSE rows'[s] = Oldest(acts, s).before]_vars

\* The markers of an undo, forced or not, start from the row that was committed
\* and end with the row that is: no edit disappears without a trace in the log
\* (_make_revert_marker, after the version check).
MarkersTellTheTruth ==
    [][\A c \in Clients :
          UndoCommits(c) =>
              LET acts == req[c].acts
                  marker(n) == log'[Len(log) + n]
              IN \A n \in DOMAIN acts :
                    LET s == log[acts[n]].str IN
                    /\ (\A m \in On(acts, s) : n <= m) => marker(n).before = rows[s]
                    /\ (\A m \in On(acts, s) : m <= n) => marker(n).after = rows'[s]]_vars

\* An entry is undone once; only a forced undo of that one entry does it again
\* (reverted_by_id).
UndoneOnce ==
    \A i, j \in DOMAIN log :
        /\ log[i].revertOf # 0 /\ log[i].revertOf = log[j].revertOf
        /\ ~log[i].forced /\ ~log[j].forced
        => i = j

\* The export stays unambiguous though undo puts published snapshots back
\* (_guard_restored_publication), between publications and deletions; a batch restore
\* that writes over a changed row has no guard.
ExportStaysUnambiguous == fresh => KeysPublic(rows)

UndosOffered == {q \in Offered : IsUndo(q) /\ Sensible(q) /\ ~q.force}

Accepts(table, q, force) ==
    IF q.kind = "undo" THEN EntryUndoable(table, q.acts[1], force)
                       ELSE Plan(table, q.acts, force).ok

\* What the preview says of a batch or an entry is what an undo would meet if
\* nothing changed: the same refusals, the same conflicts (build_revert_preview
\* against _plan_batch_revert and _execute_inverse).
PreviewAgrees ==
    \A q \in UndosOffered :
        LET shown == Preview(rows, q.acts) IN
        /\ Accepts(rows, q, TRUE) <=> ~shown.blocked
        /\ Accepts(rows, q, FALSE) <=> ~shown.blocked /\ ~shown.conflict

\* The log is a log: of its types, each entry undone once, and every undo so far has
\* left the export unambiguous.
LogSound == TypeOK /\ UndoneOnce /\ ExportStaysUnambiguous

\* When the preview of a version allows it and nothing changes, the restore goes
\* through, the index of live keys included; it is never refused for a reason that the
\* preview hid, nor shown as impossible when it would work
\* (preview_restore_activity_version).
VersionPreviewAgrees ==
    \A c \in Clients :
        req[c].kind = "version" /\ copy[c] = rows =>
            (VersionPreview(rows, req[c].acts[1]) <=>
                VersionAllowed(c) /\ KeysAlive(Merged(c, WithVersion(c))))

\* Both previews, of an undo and of a version, say what the write will do.
PreviewsAgree == PreviewAgrees /\ VersionPreviewAgrees

\* "Restore working copy applies that row's working-copy content": after it the
\* string has the content of the chosen version.
VersionIsRestored ==
    [][\A c \in Clients :
          pc[c] = "read" /\ pc'[c] = "idle" /\ req[c].kind = "version" /\ log' # log =>
              Content(rows'[req[c].strs[1]]) = Content(log[req[c].acts[1]].after)]_vars
=============================================================================
