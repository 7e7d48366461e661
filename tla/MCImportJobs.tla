----------------------------- MODULE MCImportJobs -----------------------------
(* Small instances of ImportJobs for TLC.  Jobs of one kind are            *)
(* interchangeable, so safety runs with only plain imports use symmetry.   *)
EXTENDS ImportJobs, TLC

CONSTANTS j1, j2, s1, k1

JobSymmetry == Permutations(Jobs)
=============================================================================
