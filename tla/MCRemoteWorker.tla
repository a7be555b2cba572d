--------------------------- MODULE MCRemoteWorker ---------------------------
(***************************************************************************)
(* RemoteWorker with a few threads and jobs, one failure of each kind.     *)
(***************************************************************************)
EXTENDS RemoteWorker, TLC

Symmetry == Permutations(Pollers) \cup Permutations(Jobs)
=============================================================================
