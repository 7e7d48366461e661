------------------------------- MODULE MCHistory -------------------------------
(* Small instances of History for TLC.                                     *)
EXTENDS History

CONSTANTS k, l, m, x, y

Symmetry ==
    Permutations(Strings) \cup Permutations({k, l}) \cup Permutations({x, y})
    \cup Permutations(Clients)

Scene(kinds, keys, texts, requests, overlap) ==
    [kinds |-> kinds, keys |-> keys, texts |-> texts, requests |-> requests,
     overlap |-> overlap]

\* Undo between edits; undo between publications and deletions; chains of renames,
\* with a key left free for them.
ThreeScenes ==
    {Scene({"edit", "import", "discard", "version", "undo", "undo batch"}, {k, l}, {x, y}, 4, 2)}
    \cup {Scene({"edit", "publish", "delete", "undo", "undo batch"}, {k, l}, {t}, 5, 2) :
              t \in {x, y}}
    \cup {Scene({"edit", "import", "last", "version", "delete", "prune", "restore"}, {k, l, m},
                {t}, 4, 1) : t \in {x, y}}

\* A version is restored next to other saves.
VersionScene == {Scene({"edit", "version"}, {k, l}, {x, y}, 4, 2)}
=============================================================================
