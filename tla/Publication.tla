------------------------------ MODULE Publication ------------------------------
(***************************************************************************)
(* Drafts and publication of one project's strings (services/strings.py).  *)
(* Every string has a working copy and the snapshot that the public export *)
(* ships.  A request is one READ COMMITTED transaction: it reads rows into *)
(* objects of its session, changes the objects, and at commit writes back  *)
(* only the columns it changed.  The publication lock keeps publishers     *)
(* apart, the editor locks its row; the other batch actions take no lock.  *)
(* The layout is flat, so an export key is just the key.                   *)
(***************************************************************************)
EXTENDS StringRows

CONSTANTS
    Clients,     \* people and scripts; each has one request under way at a time
    Scenes       \* the situations: strings, keys and texts in use, kinds of request
                 \* that are sent, and how many of them

ASSUME PublicationAssumption ==
    /\ None \notin Keys \cup Texts \cup Contents \cup Clients
    /\ None \notin {"draft", "public"}
    /\ \A z \in Scenes : /\ z.strings \subseteq Strings /\ z.keys \subseteq Keys
                         /\ z.texts \subseteq Texts /\ z.requests \in Nat

VARIABLES
    scene,       \* the situation: a member of Scenes
    rows,        \* the strings table, as committed
    publisher,   \* the client whose transaction has the publication lock, or None
    rowLock,     \* the client whose transaction locks the row for editing, or None
    pc, req,     \* step and request of each client
    copy,        \* the rows in the session of each client's request
    seen,        \* the rows each client looked at last: its editor, its preview
    sent,        \* requests sent so far
    fresh        \* history: no restore ever wrote to a row changed since it read it

lockVars == <<publisher, rowLock>>
vars == <<scene, rows, lockVars, pc, req, copy, seen, sent, fresh>>

\* POST and PATCH of one string ("guarded": with the editor's expected values),
\* and the batch actions; DELETE of one string is a batch of one.
Edits ==
    [kind: {"create", "save", "guarded"}, strs: {{s} : s \in Strings},
     key: Keys \cup {None}, text: Texts \cup {None}, status: {"draft", "public", None}]
BatchKinds == {"publish", "unpublish", "delete", "discard", "keep", "restore"}
Batches == [kind: BatchKinds, strs: SUBSET Strings \ {{}}]
NoRequest == [kind |-> "none", strs |-> {}]
Requests == Edits \cup Batches \cup {NoRequest}

Steps == {"idle", "looked", "started", "read", "flushed"}

\* Types of the table and of the requests under way.
TypeOK ==
    /\ scene \in Scenes
    /\ rows \in [Strings -> Rows]
    /\ publisher \in Clients \cup {None}
    /\ rowLock \in [Strings -> Clients \cup {None}]
    /\ pc \in [Clients -> Steps]
    /\ req \in [Clients -> Requests]
    /\ copy \in [Clients -> [Strings -> Rows]]
    /\ seen \in [Clients -> [Strings -> Rows]]
    /\ sent \in 0..scene.requests
    /\ fresh \in BOOLEAN

\* Some strings have been published already.
Init ==
    /\ scene \in Scenes
    /\ rows \in [Strings -> {NoRow} \cup {PublishedRow(x) : x \in Contents}]
    /\ \A s \in Strings : Exists(rows[s]) =>
          s \in scene.strings /\ rows[s].key \in scene.keys /\ rows[s].text \in scene.texts
    /\ KeysAlive(rows)
    /\ publisher = None
    /\ rowLock = [s \in Strings |-> None]
    /\ pc = [c \in Clients |-> "idle"]
    /\ req = [c \in Clients |-> NoRequest]
    /\ copy = [c \in Clients |-> NoRows]
    /\ seen = [c \in Clients |-> NoRows]
    /\ sent = 0
    /\ fresh = TRUE

-----------------------------------------------------------------------------
(* What the handlers do to one row object.                                 *)

\* A PATCH reaches deleted rows too, unless it is guarded.
Edited(q, r) ==
    [r EXCEPT !.key  = IF q.key  = None THEN @ ELSE q.key,
              !.text = IF q.text = None THEN @ ELSE q.text]

Saved(q, r) ==
    CASE q.status = "public" -> Promoted(Edited(q, r))
      [] q.status = "draft"  -> [Edited(q, r) EXCEPT !.status = "draft"]
      [] OTHER -> Edited(q, r)

Handled(q, r) ==
    IF q.kind = "create" THEN Saved(q, [r EXCEPT !.status = "draft"])
    ELSE IF ~Exists(r) \/ (r.deleted /\ q.kind \in {"publish", "unpublish", "keep"}) THEN r
    ELSE CASE q.kind \in {"save", "guarded"} -> Saved(q, r)
           [] q.kind = "delete"  -> QueuedOrDeleted(r)
           [] q.kind = "discard" -> Discarded(r)
           [] q.kind = "restore" -> Restored(r)
           [] q.kind = "publish" -> IF r.pending THEN Tombstone(r) ELSE Promoted(r)
           [] q.kind = "unpublish" -> [r EXCEPT !.status = "draft"]
           [] q.kind = "keep" -> [r EXCEPT !.pending = FALSE]

-----------------------------------------------------------------------------
(* The requests.                                                           *)

\* GET of strings, or publish-preview: what the person decides on.
Look(c) ==
    /\ pc[c] = "idle"
    /\ seen' = [seen EXCEPT ![c] = rows]
    /\ pc' = [pc EXCEPT ![c] = "looked"]
    /\ UNCHANGED <<scene, rows, lockVars, req, copy, sent, fresh>>

\* Bound: requests about the scene.
InScene(q) ==
    /\ q.kind \in scene.kinds /\ q.strs \subseteq scene.strings
    /\ q.kind \notin BatchKinds => /\ q.key \in scene.keys \cup {None}
                                  /\ q.text \in scene.texts \cup {None}

\* Requests that clients send: no PATCH without a change, no half-given string.
Sensible(q) ==
    \/ q.kind = "create" /\ None \notin {q.key, q.text, q.status}
    \/ q.kind \in {"save", "guarded"} /\ {q.key, q.text, q.status} # {None}
    \/ q.kind \in BatchKinds

\* The request's transaction is over, with its locks and its session.
Done(c) ==
    /\ publisher' = IF publisher = c THEN None ELSE publisher
    /\ rowLock' = [s \in Strings |-> IF rowLock[s] = c THEN None ELSE rowLock[s]]
    /\ pc' = [pc EXCEPT ![c] = "idle"]
    /\ req' = [req EXCEPT ![c] = NoRequest]
    /\ copy' = [copy EXCEPT ![c] = NoRows]
    /\ seen' = [seen EXCEPT ![c] = NoRows]
    /\ UNCHANGED sent

\* The requests that carry what the client saw: a fingerprint, expected values.
Reviewed(q) == q.kind \in {"publish", "guarded"}

IsEdit(q) == q.kind \in {"save", "guarded"}
Publishes(q) == q.kind = "publish" \/ (q.kind \in {"create", "save", "guarded"}
                                         /\ q.status = "public")

\* Mutants: creations publish without the lock; deletions do not wait for a first
\* publication.
LockedUnlessCreating(q) == (Publishes(q) /\ q.kind # "create") \/ q.kind = "delete"
LockedWhenPublishing(q) == Publishes(q)

\* The requests that call lock_publication, always before they read.
TakesLock(q) == Publishes(q) \/ q.kind = "delete"

\* The request arrives and, if it takes the lock, has waited for it.
Start(c, q) ==
    /\ pc[c] = IF Reviewed(q) THEN "looked" ELSE "idle"
    /\ InScene(q) /\ Sensible(q)
    /\ sent < scene.requests
    /\ sent' = sent + 1
    /\ IF TakesLock(q) THEN publisher = None /\ publisher' = c ELSE UNCHANGED publisher
    /\ pc' = [pc EXCEPT ![c] = "started"]
    /\ req' = [req EXCEPT ![c] = q]
    /\ UNCHANGED <<scene, rows, rowLock, copy, seen, fresh>>

\* Rows become objects; _locked_editor_entry waits for the row and locks it.
Read(c) ==
    /\ pc[c] = "started"
    /\ IF IsEdit(req[c])
         THEN /\ \A s \in req[c].strs : rowLock[s] = None
              /\ rowLock' = [s \in Strings |-> IF s \in req[c].strs THEN c
                                                ELSE rowLock[s]]
         ELSE UNCHANGED rowLock
    /\ copy' = [copy EXCEPT ![c] = [s \in Strings |-> IF s \in req[c].strs THEN rows[s]
                                                                     ELSE NoRow]]
    /\ pc' = [pc EXCEPT ![c] = "read"]
    /\ UNCHANGED <<scene, rows, publisher, req, seen, sent, fresh>>

-----------------------------------------------------------------------------
(* Checks, flush and commit.                                               *)

Result(c) ==
    [s \in Strings |->
        IF s \in req[c].strs
        THEN Changed(copy[c][s], Handled(req[c], copy[c][s]), rows[s]) ELSE rows[s]]

\* Mutant: the fingerprint forgets the source text.
FingerprintOfKeys(table, S) ==
    [s \in {t \in S : Publishable(table[t])} |-> [table[s] EXCEPT !.text = None]]

\* compute_publish_fingerprint: everything publishable, and nothing else.
Fingerprint(table, S) == [s \in {t \in S : Publishable(table[t])} |-> table[s]]

AsReviewed(c) == Fingerprint(copy[c], req[c].strs) = Fingerprint(seen[c], req[c].strs)

\* Mutant: a conflict needs a deleted string.
NoConflictAssumed(c) == \A s \in req[c].strs : ~copy[c][s].deleted

\* _check_editor_expected: each field it sets still has the value the editor
\* showed, or has the new one already; and the string is not deleted.
NoConflict(c) ==
    \A s \in req[c].strs :
        /\ ~copy[c][s].deleted
        /\ \A f \in {"key", "text", "status"} :
              req[c][f] # None => copy[c][s][f] \in {seen[c][s][f], req[c][f]}

\* key_owner: no other live row has the key that the string is to get.
KeyFree(c) ==
    \A s \in req[c].strs, t \in Strings :
        t # s /\ Alive(rows[t]) /\ rows[t].key = req[c].key =>
            copy[c][s].key = req[c].key

Accepted(c) ==
    LET q == req[c] IN
    /\ q.kind \notin BatchKinds => KeyFree(c)
    /\ q.kind = "create" => \A s \in q.strs : ~Exists(rows[s])
    /\ IsEdit(q) => \A s \in q.strs : Exists(copy[c][s])
    /\ q.kind = "publish" => AsReviewed(c)
    /\ q.kind = "guarded" => NoConflict(c)

Touched(c) == {s \in req[c].strs : Handled(req[c], copy[c][s]) # copy[c][s]}

\* The UPDATEs lock the rows they change; then the guard reads the table as it is
\* committed now, with the rows of this transaction.
Flush(c) ==
    /\ pc[c] = "read"
    /\ Accepted(c)
    /\ \A s \in Touched(c) : rowLock[s] \in {c, None}
    /\ rowLock' = [s \in Strings |-> IF s \in Touched(c) THEN c ELSE rowLock[s]]
    /\ Publishes(req[c]) => KeysPublic(Result(c))
    /\ pc' = [pc EXCEPT ![c] = "flushed"]
    /\ UNCHANGED <<scene, rows, publisher, req, copy, seen, sent, fresh>>

\* db.commit(); a second live row for a key has failed on the unique index.
Commit(c) ==
    /\ pc[c] = "flushed"
    /\ KeysAlive(Result(c))
    /\ rows' = Result(c)
    /\ UNCHANGED scene
    /\ fresh' = (fresh /\ (req[c].kind = "restore" =>
                              \A s \in req[c].strs : copy[c][s] = rows[s]))
    /\ Done(c)

\* Refused (404, 409, 422), failed, or the connection broke: nothing is written.
GiveUp(c) ==
    /\ pc[c] # "idle"
    /\ Done(c)
    /\ UNCHANGED <<scene, rows, fresh>>

ClientStep(c) == Read(c) \/ Flush(c) \/ Commit(c) \/ GiveUp(c)

Next == \E c \in Clients : \/ Look(c)
                           \/ \E q \in Edits \cup Batches : Start(c, q)
                           \/ ClientStep(c)

Spec == Init /\ [][Next]_vars

-----------------------------------------------------------------------------
\* One exported row per export key, whichever publishers, editors and deletions
\* overlap (lock_publication, guard_published_keys); a restore that writes over a
\* changed row takes neither.
PublicKeysUnique == fresh => KeysPublic(rows)

\* The table has rows of the table's kind, and the export is unambiguous.
ExportSound == TypeOK /\ PublicKeysUnique

\* A batch publish ships, of every string, exactly what its client reviewed in
\* the preview, though others edit between the preview and the commit.
PublishedAsReviewed ==
    [][\A c \in Clients, s \in Strings :
          /\ pc[c] = "flushed" /\ pc'[c] = "idle" /\ req[c].kind = "publish"
          /\ rows'[s].pub # rows[s].pub
          => rows'[s].pub = Content(seen[c][s])]_vars

\* A string leaves the public export only because somebody unpublished it, or
\* published the removal that the preview showed: deleting, editing, discarding
\* and fresh restores leave the export alone (queue_or_soft_delete).
LeavesOnPurpose ==
    [][\A s \in Strings :
          fresh' /\ Exported(rows[s]) /\ ~Exported(rows'[s]) =>
              \E c \in Clients :
                  /\ pc[c] = "flushed" /\ pc'[c] = "idle"
                  /\ s \in req[c].strs
                  /\ \/ req[c].kind = "unpublish"
                     \/ req[c].kind = "publish" /\ seen[c][s].pending
                     \/ IsEdit(req[c]) /\ req[c].status = "draft"]_vars

\* A guarded save never overwrites a value its editor did not show: an edit that
\* somebody else committed meanwhile survives or is equal (stale_editor_save).
NoLostEdit ==
    [][\A c \in Clients, s \in Strings :
          /\ pc[c] = "flushed" /\ pc'[c] = "idle"
          /\ req[c].kind = "guarded" /\ s \in req[c].strs
          => \A f \in {"key", "text"} :
                rows'[s][f] # rows[s][f] => rows[s][f] = seen[c][s][f]]_vars

\* A change that another request commits while a batch action works on the same
\* row is kept, unless the action is about that very column: publishing,
\* unpublishing and deleting never undo an edit of the working copy.
EditsSurvive ==
    [][\A c \in Clients, s \in Strings :
          /\ pc[c] = "flushed" /\ pc'[c] = "idle"
          /\ req[c].kind \in BatchKinds \ {"discard"}
          /\ Exists(rows[s])
          => Content(rows'[s]) = Content(rows[s])]_vars
=============================================================================
