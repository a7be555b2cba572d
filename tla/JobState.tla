------------------------------ MODULE JobState ------------------------------
(***************************************************************************)
(* The job lifecycle of src/core/job.cpp: the ten states, which of them    *)
(* are terminal, and the table of legal transitions.                       *)
(***************************************************************************)

JobStates == {"PENDING", "QUEUED", "SCHEDULED", "RUNNING", "RETRYING",
              "SUCCEEDED", "FAILED", "TIMED_OUT", "CANCELLED", "SKIPPED"}

is_terminal(s) == s \in {"SUCCEEDED", "FAILED", "TIMED_OUT", "CANCELLED", "SKIPPED"}

\* The `to` states the switch of is_valid_transition accepts for each `from`.
Successors(from) ==
  CASE from = "PENDING"   -> {"QUEUED", "SCHEDULED", "CANCELLED", "SKIPPED"}
    [] from = "SCHEDULED" -> {"QUEUED", "CANCELLED", "SKIPPED"}
    [] from = "QUEUED"    -> {"RUNNING", "CANCELLED", "SKIPPED"}
    [] from = "RUNNING"   -> {"SUCCEEDED", "RETRYING", "FAILED", "TIMED_OUT",
                              "CANCELLED", "QUEUED"}
    [] from = "RETRYING"  -> {"QUEUED", "CANCELLED", "FAILED", "TIMED_OUT", "SKIPPED"}
    [] OTHER              -> {}

is_valid_transition(from, to) ==
  /\ from # to
  /\ ~ is_terminal(from)
  /\ to \in Successors(from)

\* The states from which begin_attempt may start an attempt (engine.cpp:224).
Startable == {"QUEUED", "SCHEDULED", "RETRYING"}
=============================================================================
