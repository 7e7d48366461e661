------------------------------ MODULE StringRows ------------------------------
(***************************************************************************)
(* One string of a project: its working copy, its lifecycle, and the       *)
(* snapshot that the public export ships (models.py, services/strings.py). *)
(* The layout is flat, so an export key is just the key.                   *)
(***************************************************************************)
EXTENDS Naturals

CONSTANTS
    Strings, Keys, Texts,
    None         \* no snapshot, no client, no new value

Contents == [key: Keys, text: Texts]

\* A row of the table; status "none" is a string nobody has created.
Rows ==
    [key: Keys \cup {None}, text: Texts \cup {None}, pub: Contents \cup {None},
     status: {"none", "draft", "public"}, pending: BOOLEAN, deleted: BOOLEAN]

NoRow == [key |-> None, text |-> None, pub |-> None, status |-> "none",
          pending |-> FALSE, deleted |-> FALSE]
NoRows == [s \in Strings |-> NoRow]

Exists(r) == r.status # "none"
Alive(r) == Exists(r) /\ ~r.deleted

\* uq_project_key_alive: the index admits one live row per key.
KeysAlive(table) ==
    \A s, t \in Strings :
        Alive(table[s]) /\ Alive(table[t]) /\ table[s].key = table[t].key => s = t

-----------------------------------------------------------------------------
(* What the handlers do to one row object.                                 *)

Content(r) == [key |-> r.key, text |-> r.text]

\* The public export ships the snapshot of every live public row.
Exported(r) == Alive(r) /\ r.status = "public"
ExportKey(r) == IF r.pub = None THEN r.key ELSE r.pub.key

HasUnpublishedChanges(r) == r.pub # None /\ r.pub # Content(r)

Publishable(r) ==
    Alive(r) /\ (r.pending \/ r.status # "public" \/ HasUnpublishedChanges(r))

Promoted(r) == [r EXCEPT !.pub = Content(r), !.status = "public", !.pending = FALSE]

Tombstone(r) == [r EXCEPT !.deleted = TRUE, !.pending = FALSE]

QueuedOrDeleted(r) ==
    IF r.deleted THEN r
    ELSE IF r.pub # None THEN [r EXCEPT !.pending = TRUE] ELSE Tombstone(r)

Restored(r) ==
    [r EXCEPT !.deleted = FALSE, !.pending = FALSE,
              !.status = IF r.deleted THEN "draft" ELSE @]

Discarded(r) ==
    IF r.pub = None THEN r
    ELSE [r EXCEPT !.key = r.pub.key, !.text = r.pub.text, !.pending = FALSE]

PublishedRow(x) == [key |-> x.key, text |-> x.text, pub |-> x, status |-> "public",
                    pending |-> FALSE, deleted |-> FALSE]

-----------------------------------------------------------------------------
\* guard_published_keys: one exported row per export key.
KeysPublic(table) ==
    \A s, t \in Strings :
        Exported(table[s]) /\ Exported(table[t])
            /\ ExportKey(table[s]) = ExportKey(table[t]) => s = t

\* Mutant: the objects overwrite whole rows.
WholeRow(before, after, now) == after

\* An UPDATE names only the columns that the handler changed.
Changed(before, after, now) ==
    [f \in DOMAIN now |-> IF after[f] # before[f] THEN after[f] ELSE now[f]]
=============================================================================
