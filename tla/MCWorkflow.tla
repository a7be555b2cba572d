----------------------------- MODULE MCWorkflow -----------------------------
(***************************************************************************)
(* Workflow on three nodes: every graph on them is submitted, and every    *)
(* acyclic one is run.                                                     *)
(***************************************************************************)
EXTENDS Workflow, TLC

Symmetry == Permutations(Nodes) \cup Permutations(Workers)
=============================================================================
