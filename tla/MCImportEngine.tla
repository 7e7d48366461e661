----------------------------- MODULE MCImportEngine -----------------------------
(* A small instance of ImportEngine for TLC, in four scenes: an import, a  *)
(* save or a deletion, and anything else; strings that move into, or out   *)
(* of, a module that is deleted while they are imported; and strings that  *)
(* are renamed to the keys that an import inserts.                         *)
EXTENDS ImportEngine

CONSTANTS k, l, m, n, p, q, x, importer, editor, mover, other

Row(key, ref, text) ==
    [key |-> key, ref |-> ref, scoped |-> TRUE, excel |-> FALSE, text |-> text, tr |-> None]
Table(rows, mods) == [rows |-> rows, mods |-> mods]
New(key, mod) == Draft([key |-> key, mod |-> mod, text |-> k, tr |-> Blank])
Live(key, mod) == Promoted(New(key, mod))

Loads(files) ==
    [kind: {"import"}, file: files, public: BOOLEAN, reject: {FALSE}]
Save(s, key, move, mod, public) ==
    [kind |-> "save", checked |-> TRUE, s |-> s, key |-> key, move |-> move, mod |-> mod, text |-> None,
     public |-> public]
Delete(mod) == [kind |-> "delete", mod |-> mod, public |-> TRUE]

Create(key, mod, public) ==
    [kind |-> "create", x |-> [key |-> key, mod |-> mod, text |-> k, tr |-> Blank],
     public |-> public]

\* Two keys in one module or in two; a slug that has no module yet; a tombstone.
TwoModules ==
    {Table(<<Live(k, 1), New(l, 2), NoRow, NoRow, NoRow>>, <<m, n>>),
     Table(<<Live(k, 1), Live(l, 1), NoRow, NoRow, NoRow>>, <<m, n>>),
     Table(<<Live(k, 1), [New(l, 1) EXCEPT !.deleted = TRUE], NoRow, NoRow, NoRow>>, <<m, None>>)}

Files == {<<Row(k, m, x), Row(l, m, x)>>, <<[Row(l, None, x) EXCEPT !.scoped = FALSE]>>, <<Row(l, n, x)>>}

Edits ==
    {Save(2, None, TRUE, 1, FALSE), Save(1, None, TRUE, None, TRUE),
     Save(2, None, TRUE, 2, TRUE), Save(2, k, TRUE, 2, FALSE), Save(1, l, FALSE, None, FALSE),
     [Save(2, None, FALSE, None, TRUE) EXCEPT !.text = k, !.checked = FALSE],
     [Save(2, None, FALSE, None, FALSE) EXCEPT !.text = k]}

Others ==
    Edits \cup
    {Delete(1), Delete(2), Create(l, 1, FALSE), Create(l, None, TRUE),
     [kind |-> "module", slug |-> n, public |-> FALSE],
     [kind |-> "rename", mod |-> 1, slug |-> n, public |-> FALSE],
     [kind |-> "rename", mod |-> 2, slug |-> m, public |-> FALSE]}

ThreeClients ==
    [c \in {importer, editor, mover, other} |->
        CASE c = importer -> Loads(Files)
          [] c = editor -> Edits \cup {Delete(1)}
          [] c = mover -> {}
          [] OTHER -> Others]

\* Strings that two editors move into a module that is deleted during an import; a
\* string that comes back to the module of its snapshot.
Moving ==
    {Table(<<Live(k, 2), New(l, 2), NoRow, NoRow, NoRow>>, <<m, n>>),
     Table(<<[Live(k, 1) EXCEPT !.mod = None], New(l, 1), NoRow, NoRow, NoRow>>, <<m, n>>)}

FourClients ==
    [c \in {importer, editor, mover, other} |->
        CASE c = importer -> Loads({<<Row(k, n, x), Row(l, n, x)>>})
          [] c = editor -> {Save(1, None, TRUE, 1, FALSE), Save(1, None, TRUE, 1, TRUE)}
          [] c = mover -> {Save(2, None, TRUE, 1, FALSE), Save(2, k, TRUE, 1, FALSE)}
          [] OTHER -> {Delete(1), Delete(2)}]

\* Two strings that leave a module while it is deleted, before an import of both.
Leaving == Table(<<New(k, 1), New(l, 1), NoRow, NoRow, NoRow>>, <<m, n>>)

LeavingClients ==
    [c \in {importer, editor, mover, other} |->
        CASE c = importer -> Loads({<<Row(k, n, x), Row(l, n, x)>>})
          [] c = editor -> {Save(1, None, TRUE, 2, FALSE)}
          [] c = mover -> {Save(2, None, TRUE, 2, FALSE)}
          [] OTHER -> {Delete(1)}]

\* An import of two new keys, which two editors give to strings of a module that is deleted.
Renaming == Table(<<New(p, None), New(q, 1), NoRow, NoRow, NoRow>>, <<m, n>>)

RenamingClients ==
    [c \in {importer, editor, mover, other} |->
        CASE c = importer -> Loads({<<Row(k, None, x), Row(l, None, x)>>})
          [] c = editor -> {Save(1, l, TRUE, 1, FALSE)}
          [] c = mover -> {Save(2, k, FALSE, None, FALSE)}
          [] OTHER -> {Delete(1)}]

CONSTANTS threeClients, fourClients, leavingClients, renamingClients

AllScenes ==
    (threeClients :> ThreeClients) @@ (fourClients :> FourClients)
      @@ (leavingClients :> LeavingClients) @@ (renamingClients :> RenamingClients)

Setup(table, same, scene) ==
    [cat |-> table, modular |-> same, duplicates |-> same, scene |-> scene]

BothSetups ==
    {Setup(table, same, threeClients) : table \in TwoModules, same \in BOOLEAN}
    \cup {Setup(table, TRUE, fourClients) : table \in Moving}
    \cup {Setup(Leaving, TRUE, leavingClients), Setup(Renaming, FALSE, renamingClients)}
=============================================================================
