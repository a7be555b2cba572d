------------------------- MODULE MCPriorityJobQueue -------------------------
(* Instances of PriorityJobQueue for TLC. *)
EXTENDS PriorityJobQueue, TLC

\* Job ids are compared for equality only.
Symmetry == Permutations(Ids)
=============================================================================
