-------------------------- MODULE JobEngineMoves ----------------------------
(* What a step of the engine does, while no write to the store fails, to the  *)
(* state that slots, completion callbacks and stranded jobs depend on: the     *)
(* state of a row, whether its lease is in running_, the label and the job of  *)
(* a thread, the queue and the counters.                                       *)
EXTENDS JobEngine

\* The labels the invariants of this module do not mention.
Calm == {"idle", "polling", "scanning", "exited", "executing", "completing", "loaded",
         "fencing"}

Moves(t, label, job) ==
  /\ th'[t].pc = label /\ th'[t].job = job
  /\ \A u \in Threads \ {t} : th'[u] = th[u]
Settles(t) == \E label \in Calm, job \in Jobs \cup {Nobody} : Moves(t, label, job)

SameRows == \A i \in Jobs : row'[i].state = row[i].state
Becomes(j, state) ==
  /\ row'[j].state = state
  /\ \A i \in Jobs \ {j} : row'[i].state = row[i].state
SameLeases == \A i \in Jobs : is_running(i)' <=> is_running(i)
Frees(j) ==
  /\ running'[j].token = 0
  /\ \A i \in Jobs \ {j} : is_running(i)' <=> is_running(i)
Counts == <<completions, outstanding>>

Quiet ==
  /\ SameRows /\ SameLeases /\ UNCHANGED <<Counts, acked, queue>>
  /\ th' = th \/ \E t \in Threads : th[t].pc \in Calm /\ Settles(t)
Refuses(t) ==
  /\ th[t].pc = "popped" /\ row[th[t].job].state \notin Startable /\ Settles(t)
  /\ SameRows /\ SameLeases /\ UNCHANGED <<Counts, acked, queue>>
Pops(t, j) ==
  /\ th[t].pc \in Calm /\ j \in queue /\ queue' = queue \ {j}
  /\ Moves(t, "popped", j) \/ (stop_requested /\ Settles(t))
  /\ SameRows /\ SameLeases /\ UNCHANGED <<Counts, acked>>
Pushes(t) ==
  /\ th[t].pc = "enqueue" /\ Settles(t) /\ queue' = Pushed(th[t].job)
  /\ SameRows /\ SameLeases /\ UNCHANGED <<Counts, acked>>
Reserves(t, j) ==
  /\ th[t].pc \in Calm /\ Moves(t, "insert", j) /\ outstanding' = outstanding + 1
  /\ SameRows /\ SameLeases /\ UNCHANGED <<completions, acked, queue>>
Inserts(t) ==
  /\ th[t].pc = "insert" /\ Moves(t, "enqueue", th[t].job)
  /\ row[th[t].job].state = "ABSENT"
  /\ \E s \in {"QUEUED", "SCHEDULED"} : Becomes(th[t].job, s)
  /\ SameLeases /\ UNCHANGED <<Counts, acked, queue>>
Cancels(t, j) ==
  /\ th[t].pc \in Calm /\ Moves(t, "cancelling", j) /\ row[j].state = "RUNNING"
  /\ SameRows /\ SameLeases /\ UNCHANGED <<Counts, acked, queue>>
Flags(t) ==
  /\ th[t].pc = "cancelling" /\ Settles(t) /\ row[th[t].job].state # "ABSENT"
  /\ Becomes(th[t].job, "RUNNING") /\ acked' = acked \cup {th[t].job}
  /\ SameLeases /\ UNCHANGED <<Counts, queue>>
CancelsWaiting(t, j) ==
  /\ th[t].pc \in Calm \/ (th[t].pc = "popped" /\ th[t].job = j)
  /\ Moves(t, "finished", j)
  /\ row[j].state \in Startable /\ Becomes(j, "CANCELLED")
  /\ acked \subseteq acked' /\ queue' \in {queue, queue \ {j}}
  /\ SameLeases /\ UNCHANGED Counts
Starts(t) ==
  /\ th[t].pc = "popped" /\ row[th[t].job].state \in Startable /\ Settles(t)
  /\ Becomes(th[t].job, "RUNNING") /\ running'[th[t].job].token # 0
  /\ \A i \in Jobs \ {th[t].job} : is_running(i)' <=> is_running(i)
  /\ UNCHANGED <<Counts, acked, queue>>
Fences(t) ==
  /\ th[t].pc \in Calm /\ Moves(t, "deciding", th[t].job)
  /\ is_running(th[t].job) /\ Frees(th[t].job)
  /\ SameRows /\ UNCHANGED <<Counts, acked, queue>>
Records(t) ==
  /\ th[t].pc = "deciding" /\ Moves(t, "persisting", th[t].job)
  /\ SameRows /\ SameLeases /\ UNCHANGED <<Counts, acked, queue>>
\* The attempt of job j that t is in charge of is over: the job waits again, or it has ended.
Ends(t, j) ==
  /\ \/ th[t].pc = "persisting" /\ th[t].job = j /\ SameLeases
     \/ th[t].pc \in Calm /\ is_running(j) /\ Frees(j)
  /\ \/ Moves(t, "enqueue", j) /\ \E s \in Startable : Becomes(j, s)
     \/ Moves(t, "finished", j) /\ \E s : Becomes(j, s) /\ is_terminal(s)
  /\ UNCHANGED <<Counts, acked, queue>>
Completes(t) ==
  /\ th[t].pc = "finished" /\ Settles(t)
  /\ completions' = [completions EXCEPT ![th[t].job] = @ + 1]
  /\ outstanding' = outstanding - 1
  /\ SameRows /\ SameLeases /\ UNCHANGED <<acked, queue>>

Effect ==
  \/ Quiet
  \/ \E t \in Threads :
       \/ Refuses(t) \/ Pushes(t) \/ Inserts(t) \/ Flags(t) \/ Starts(t) \/ Fences(t)
       \/ Records(t) \/ Completes(t)
       \/ \E j \in Jobs : Pops(t, j) \/ Reserves(t, j) \/ Cancels(t, j) \/ CancelsWaiting(t, j)
                          \/ Ends(t, j)
=============================================================================
