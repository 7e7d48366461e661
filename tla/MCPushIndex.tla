------------------------------ MODULE MCPushIndex ------------------------------
(* Model values for PushIndex; keys are interchangeable, and so are texts. *)
EXTENDS PushIndex, TLC

Symmetry == Permutations(Keys) \cup Permutations(Values)

=============================================================================
