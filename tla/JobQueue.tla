------------------------------ MODULE JobQueue ------------------------------
(***************************************************************************)
(* What PriorityJobQueue promises (include/jobengine/queue.hpp): a bounded  *)
(* set of entries, at most one for each job.  An entry may leave once its   *)
(* ready time has come, the highest priority first and the oldest first    *)
(* within a priority.  JobEngine uses the ids of these entries.            *)
(***************************************************************************)
EXTENDS Naturals, FiniteSets

CONSTANTS Ids, Priorities, Times, Capacity

VARIABLES
  entries, closed, now, next_seq,
  returned    \* the entries the last step handed to a consumer

vars == <<entries, closed, now, next_seq, returned>>

Matured == {e \in entries : e.ready_at <= now}

\* e is served before f.
Before(e, f) ==
  \/ e.priority > f.priority
  \/ e.priority = f.priority /\ e.seq < f.seq

Init ==
  /\ entries = {}
  /\ closed = FALSE
  /\ now = 0
  /\ next_seq = 1
  /\ returned = {}

\* A push replaces the entry the job may have, under a fresh sequence number.
Push(id, priority, ready_at) ==
  /\ ~ closed
  /\ Cardinality(entries) < Capacity
  /\ entries' = {e \in entries : e.id # id}
                \cup {[id |-> id, priority |-> priority, seq |-> next_seq,
                       ready_at |-> ready_at]}
  /\ next_seq' = next_seq + 1
  /\ returned' = {}
  /\ UNCHANGED <<closed, now>>

\* The entries of S leave together: all matured, and none left behind is due before one of them.
Take(S) ==
  /\ S # {}
  /\ \A e \in S, f \in Matured \ S : Before(e, f)
  /\ entries' = entries \ S
  /\ returned' = S
  /\ UNCHANGED <<closed, now, next_seq>>

Remove(id) ==
  /\ entries' = {e \in entries : e.id # id}
  /\ returned' = {}
  /\ UNCHANGED <<closed, now, next_seq>>

Close ==
  /\ closed' = TRUE
  /\ returned' = {}
  /\ UNCHANGED <<entries, now, next_seq>>

Tick ==
  /\ now' = now + 1
  /\ returned' = {}
  /\ UNCHANGED <<entries, closed, next_seq>>

\* A call that takes nothing, or waits.
Quiet ==
  /\ returned' = {}
  /\ UNCHANGED <<entries, closed, now, next_seq>>

Next ==
  \/ \E id \in Ids, p \in Priorities, t \in Times : Push(id, p, t)
  \/ \E S \in SUBSET Matured : Take(S)
  \/ \E id \in Ids : Remove(id)
  \/ Close
  \/ Tick
  \/ Quiet

Spec == Init /\ [][Next]_vars
=============================================================================
