----------------------------- MODULE MCPublication -----------------------------
(* Small instances of Publication for TLC.                                 *)
EXTENDS Publication, TLC

\* Two strings compete for two keys.
Competing ==
    [strings |-> Strings, keys |-> Keys, texts |-> {CHOOSE x \in Texts : TRUE},
     kinds |-> BatchKinds \cup {"create", "save"}, requests |-> 4]

\* Two clients review and edit one string.
Reviewing(s, k) ==
    [strings |-> {s}, keys |-> {k}, texts |-> Texts,
     kinds |-> {"create", "save", "guarded", "publish", "delete", "discard", "restore"},
     requests |-> 4]

TwoScenes == {Competing} \cup {Reviewing(s, k) : s \in Strings, k \in Keys}

\* TwoScenes is closed under these permutations.
Symmetry == Permutations(Strings) \cup Permutations(Keys) \cup Permutations(Clients)
=============================================================================
