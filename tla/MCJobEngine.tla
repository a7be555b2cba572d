---------------------------- MODULE MCJobEngine -----------------------------
(* Instances of JobEngine for TLC. *)
EXTENDS JobEngine, TLC

CONSTANTS AttemptLimit   \* max_attempts of every job

MCMaxAttempts == [j \in Jobs |-> AttemptLimit]

\* Jobs, threads of one kind and remote workers are interchangeable.
Symmetry == Permutations(Jobs) \cup Permutations(Workers) \cup Permutations(Clients)
            \cup Permutations(RemoteWorkers)
=============================================================================
