----------------------------- MODULE MCMembership -----------------------------
(* Small instances of Membership for TLC: users, keys and threads are         *)
(* interchangeable.                                                           *)
EXTENDS Membership, TLC

Symmetry == Permutations(Users) \cup Permutations(Keys) \cup Permutations(Threads)
=============================================================================
