-------------------------- MODULE MCEngineRestart ---------------------------
(* Instances of EngineRestart for TLC. *)
EXTENDS EngineRestart, TLC

CONSTANT AttemptLimit   \* max_attempts of every job

MCMaxAttempts == [j \in Jobs |-> AttemptLimit]

Symmetry == Permutations(Jobs) \cup Permutations(Workers) \cup Permutations(Clients)
=============================================================================
