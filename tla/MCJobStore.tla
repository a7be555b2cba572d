----------------------------- MODULE MCJobStore -----------------------------
(* Instances of JobStore for TLC. *)
EXTENDS JobStore, TLC

\* Job ids and threads are interchangeable.
Symmetry == Permutations(Ids) \cup Permutations(Threads)
=============================================================================
