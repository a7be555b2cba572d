-------------------------- MODULE PriorityJobQueue --------------------------
(***************************************************************************)
(* src/queue/queue.cpp: a heap of ready entries, a heap of delayed ones,    *)
(* an index of the live entry of each job, tombstones for entries removed   *)
(* while they sit in a heap, and two counters of live entries.  A heap is   *)
(* the set of its entries and its order.                                   *)
(*                                                                         *)
(* Every critical section of mutex_ is one action.  The notification that   *)
(* follows a push or a close is made after the unlock and is a step of its  *)
(* own.                                                                    *)
(***************************************************************************)
EXTENDS Naturals, FiniteSets

CONSTANTS
  Ids,          \* job ids
  Priorities,
  Producers,    \* threads that push, remove and close
  Workers,      \* threads that call pop, as worker_loop does
  Claimers,     \* threads that call pop_batch, as claim does; its first entry comes from pop_for
  Capacity,     \* capacity_
  MaxPushes,    \* bound on next_seq_
  MaxTime,      \* bound on the clock
  BatchSize     \* max_items of pop_batch

ASSUME QueueAssumption ==
  /\ Priorities \subseteq Nat
  /\ {Capacity, MaxPushes, MaxTime, BatchSize} \subseteq Nat
  /\ IsFiniteSet(Producers) /\ IsFiniteSet(Workers) /\ IsFiniteSet(Claimers)

Consumers == Workers \cup Claimers

VARIABLES
  ready, delayed,             \* the entries in ready_ and delayed_
  index,                      \* index_: the job ids that have a live entry, each with its Loc
  tombstones,                 \* tombstones_: sequence numbers
  live_ready, live_delayed,   \* the two counters
  next_seq, closed,           \* next_seq_, closed_
  now,                        \* now_ms()
  notify,                     \* producer -> the notification it owes: "none", "one", "all"
  con,                        \* consumer -> where it is in a pop
  returned                    \* the entries the last step took out for its caller

heaps == <<ready, delayed, index, tombstones, live_ready, live_delayed>>
vars == <<heaps, next_seq, closed, now, notify, con, returned>>

Times == 0 .. MaxTime
Never == MaxTime + 1          \* the wake-up time of an unbounded wait
Seqs == 1 .. MaxPushes
Entry == [id : Ids, priority : Priorities, seq : Seqs, ready_at : Times]
Loc == [seq : Seqs, delayed : BOOLEAN]

\* con[c]: pc is "idle" (outside), "wait" (in cv_), "loop" (woken, about to take the mutex
\* again) or "more" (between the two sections of pop_batch); until is when the wait ends by
\* itself, deadline when pop_for gives up.
Consumer == [pc : {"idle", "loop", "wait", "more"}, until : 0 .. Never, deadline : 0 .. Never]

At(pc, deadline) == [pc |-> pc, until |-> Never, deadline |-> deadline]
Idle == At("idle", Never)

TypeOK ==
  /\ ready \in SUBSET Entry /\ delayed \in SUBSET Entry
  /\ \E S \in SUBSET Ids : index \in [S -> Loc]
  /\ tombstones \in SUBSET Seqs
  /\ live_ready \in Nat /\ live_delayed \in Nat
  /\ next_seq \in 1 .. MaxPushes + 1
  /\ closed \in BOOLEAN
  /\ now \in Times
  /\ notify \in [Producers -> {"none", "one", "all"}]
  /\ con \in [Consumers -> Consumer]
  /\ returned \in SUBSET Entry

Init ==
  /\ ready = {} /\ delayed = {}
  /\ index = [i \in {} |-> 0]
  /\ tombstones = {}
  /\ live_ready = 0 /\ live_delayed = 0
  /\ next_seq = 1
  /\ closed = FALSE
  /\ now = 0
  /\ notify = [p \in Producers |-> "none"]
  /\ con = [c \in Consumers |-> Idle]
  /\ returned = {}

-----------------------------------------------------------------------------
(* Helpers *)

Without(id) == [i \in DOMAIN index \ {id} |-> index[i]]

\* `if (n > 0) --n`, k times.
Dec(n, k) == IF n > k THEN n - k ELSE 0

\* ReadyOrder: strict priority, first in first out within a level.
BugReadyOrder(e, f) == e.priority > f.priority \/ (e.priority = f.priority /\ e.seq > f.seq)
ReadyOrder(e, f) == e.priority > f.priority \/ (e.priority = f.priority /\ e.seq < f.seq)

live_count_locked == live_ready + live_delayed

\* The counters once the entry the job already has is dead.
LiveReadyWithout(id) ==
  IF id \in DOMAIN index /\ ~ index[id].delayed THEN Dec(live_ready, 1) ELSE live_ready
LiveDelayedWithout(id) ==
  IF id \in DOMAIN index /\ index[id].delayed THEN Dec(live_delayed, 1) ELSE live_delayed

-----------------------------------------------------------------------------
(* push, remove, close *)

\* delayed_.empty() || ready_at_ms < delayed_.top().ready_at_ms
BugFirstOnly(ready_at) == delayed = {}
becomes_earliest(ready_at) == \A e \in delayed : ready_at < e.ready_at

push(p, id, priority, ready_at) ==
  /\ notify[p] = "none"
  /\ ~ closed
  /\ live_count_locked < Capacity
  /\ next_seq <= MaxPushes
  /\ LET e == [id |-> id, priority |-> priority, seq |-> next_seq, ready_at |-> ready_at]
         is_delayed == ready_at > now
     IN /\ tombstones' = tombstones \cup {index[i].seq : i \in {id} \cap DOMAIN index}
        /\ index' = [i \in DOMAIN index \cup {id} |->
                       IF i = id THEN [seq |-> next_seq, delayed |-> is_delayed] ELSE index[i]]
        /\ next_seq' = next_seq + 1
        /\ IF is_delayed
             THEN /\ delayed' = delayed \cup {e}
                  /\ live_delayed' = LiveDelayedWithout(id) + 1
                  /\ live_ready' = LiveReadyWithout(id)
                  /\ notify' = [notify EXCEPT ![p] =
                                  IF becomes_earliest(ready_at) THEN "all" ELSE "none"]
                  /\ UNCHANGED ready
             ELSE /\ ready' = ready \cup {e}
                  /\ live_ready' = LiveReadyWithout(id) + 1
                  /\ live_delayed' = LiveDelayedWithout(id)
                  /\ notify' = [notify EXCEPT ![p] = "one"]
                  /\ UNCHANGED delayed
  /\ returned' = {}
  /\ UNCHANGED <<closed, now, con>>

BugRemoveNoTombstone(p, id) ==
  /\ notify[p] = "none"
  /\ id \in DOMAIN index
  /\ live_ready' = LiveReadyWithout(id)
  /\ live_delayed' = LiveDelayedWithout(id)
  /\ index' = Without(id)
  /\ returned' = {}
  /\ UNCHANGED <<ready, delayed, tombstones, next_seq, closed, now, notify, con>>

remove(p, id) ==
  /\ notify[p] = "none"
  /\ id \in DOMAIN index
  /\ tombstones' = tombstones \cup {index[id].seq}
  /\ live_ready' = LiveReadyWithout(id)
  /\ live_delayed' = LiveDelayedWithout(id)
  /\ index' = Without(id)
  /\ returned' = {}
  /\ UNCHANGED <<ready, delayed, next_seq, closed, now, notify, con>>

close(p) ==
  /\ notify[p] = "none"
  /\ ~ closed                 \* stop() closes once
  /\ closed' = TRUE
  /\ notify' = [notify EXCEPT ![p] = "all"]
  /\ returned' = {}
  /\ UNCHANGED <<heaps, next_seq, now, con>>

Waiting == {c \in Consumers : con[c].pc = "wait"}

\* cv_.notify_one() wakes one waiter if there is any, cv_.notify_all() every waiter.
notify_step(p) ==
  /\ notify[p] # "none"
  /\ \E W \in SUBSET Waiting :
       /\ notify[p] = "all" => W = Waiting
       /\ notify[p] = "one" => Cardinality(W) = IF Waiting = {} THEN 0 ELSE 1
       /\ con' = [c \in Consumers |-> IF c \in W THEN At("loop", con[c].deadline) ELSE con[c]]
  /\ notify' = [notify EXCEPT ![p] = "none"]
  /\ returned' = {}
  /\ UNCHANGED <<heaps, next_seq, closed, now>>

-----------------------------------------------------------------------------
(* pop, pop_for, pop_batch *)

\* promote_matured_locked moves M, the matured entries, out of delayed_; D of them are dead.
M == {e \in delayed : e.ready_at <= now}
D == {e \in M : e.seq \in tombstones}

\* What the queue holds after promote_matured_locked.
Promoted == [
  ready        |-> ready \cup (M \ D),
  delayed      |-> delayed \ M,
  tombstones   |-> tombstones \ {e.seq : e \in D},
  live_ready   |-> live_ready + Cardinality(M \ D),
  live_delayed |-> Dec(live_delayed, Cardinality(M \ D)),
  index        |-> [i \in DOMAIN index |->
                      IF \E e \in M \ D : e.id = i /\ e.seq = index[i].seq
                        THEN [index[i] EXCEPT !.delayed = FALSE] ELSE index[i]]]

\* take_ready_locked, n times, on the heaps q: T are the entries returned.  A call discards
\* the dead entries on top; one that finds no live entry empties the heap.
TakeUpTo(q, n, T) ==
  LET live == {e \in q.ready : e.seq \notin q.tombstones}
      gone == IF Cardinality(T) < n THEN q.ready
              ELSE T \cup {e \in q.ready : \E f \in T : ReadyOrder(e, f)}
  IN /\ T \subseteq live
     /\ Cardinality(T) = n \/ (Cardinality(T) < n /\ T = live)
     /\ \A e \in T, f \in live \ T : ReadyOrder(e, f)
     /\ returned' = T
     /\ ready' = q.ready \ gone
     /\ delayed' = q.delayed
     /\ tombstones' = q.tombstones \ {e.seq : e \in gone}
     /\ live_ready' = Dec(q.live_ready, Cardinality(T))
     /\ live_delayed' = q.live_delayed
     /\ index' = [i \in {i \in DOMAIN q.index :
                           \A e \in T : e.id # i \/ e.seq # q.index[i].seq} |-> q.index[i]]

\* The deadline of the pass a consumer is about to make: that of the call it is in, or of the
\* call it begins, which has none for pop and now or later for pop_for.
Deadlines(c) ==
  IF con[c].pc = "loop" THEN {con[c].deadline}
  ELSE IF c \in Workers THEN {Never} ELSE now .. MaxTime

\* One pass of the loop of pop and pop_for that returns an entry; pop_batch goes on for more.
pop_take(c) ==
  /\ con[c].pc \in {"idle", "loop"}
  /\ LET q == Promoted IN \E e \in q.ready : TakeUpTo(q, 1, {e})
  /\ con' = [con EXCEPT ![c] = IF c \in Claimers /\ BatchSize > 1 THEN At("more", Never) ELSE Idle]
  /\ UNCHANGED <<next_seq, closed, now, notify>>

\* The time the wait ends by itself: that of the earliest delayed entry (dead ones too) or
\* the deadline, whichever is first.
wait_until(deadline) ==
  CHOOSE t \in {e.ready_at : e \in Promoted.delayed} \cup {deadline} :
    \A u \in {e.ready_at : e \in Promoted.delayed} \cup {deadline} : t <= u

\* One pass that finds nothing: give up if the queue is closed or the deadline has come,
\* otherwise wait.
pop_wait(c, deadline) ==
  /\ con[c].pc \in {"idle", "loop"}
  /\ LET q == Promoted IN TakeUpTo(q, 1, {})
  /\ con' = [con EXCEPT ![c] = IF closed \/ deadline <= now THEN Idle
                               ELSE [pc |-> "wait", until |-> wait_until(deadline),
                                     deadline |-> deadline]]
  /\ UNCHANGED <<next_seq, closed, now, notify>>

\* The second section of pop_batch takes what else is ready, without waiting.
pop_more(c) ==
  /\ con[c].pc = "more"
  /\ LET q == Promoted IN \E T \in SUBSET q.ready : TakeUpTo(q, BatchSize - 1, T)
  /\ con' = [con EXCEPT ![c] = Idle]
  /\ UNCHANGED <<next_seq, closed, now, notify>>

\* A waiter returns from cv_ by itself: its time is up, or spuriously.
wake_up(c) ==
  /\ con[c].pc = "wait"
  /\ con' = [con EXCEPT ![c] = At("loop", con[c].deadline)]
  /\ returned' = {}
  /\ UNCHANGED <<heaps, next_seq, closed, now, notify>>

tick ==
  /\ now < MaxTime
  /\ now' = now + 1
  /\ returned' = {}
  /\ UNCHANGED <<heaps, next_seq, closed, notify, con>>

-----------------------------------------------------------------------------
Body(c) == pop_take(c) \/ (\E d \in Deadlines(c) : pop_wait(c, d)) \/ pop_more(c)

Next ==
  \/ \E p \in Producers :
       \/ \E id \in Ids, priority \in Priorities, t \in Times : push(p, id, priority, t)
       \/ \E id \in Ids : remove(p, id)
       \/ close(p)
       \/ notify_step(p)
  \/ \E c \in Consumers : Body(c) \/ wake_up(c)
  \/ tick

Spec == Init /\ [][Next]_vars

-----------------------------------------------------------------------------
(* Properties *)

All == ready \cup delayed
Live == {e \in All : e.seq \notin tombstones}

\* The pieces of the queue agree through every order of push, replacement, removal, promotion
\* and pop: an entry is in one heap under its own sequence number; a tombstone names an entry
\* still in a heap, so none outlives its entry and hits a later one; the index locates exactly
\* the live entries, one for each job; the counters that bound the queue and decide a drain
\* count them; the ready heap holds only what has matured.
QueueInv ==
  /\ \A e \in All : e.seq < next_seq
  /\ \A e, f \in All : e.seq = f.seq => e = f
  /\ ready \cap delayed = {}
  /\ \A s \in tombstones : \E e \in All : e.seq = s
  /\ DOMAIN index = {e.id : e \in Live}
  /\ \A e \in Live : index[e.id] = [seq |-> e.seq, delayed |-> e \in delayed]
  /\ live_ready = Cardinality(Live \cap ready)
  /\ live_delayed = Cardinality(Live \cap delayed)
  /\ \A e \in ready : e.ready_at <= now

\* The queue implements JobQueue: what pop returns is the best of all matured live entries,
\* those still in the delayed heap included, and a removed or replaced entry never comes back.
Q == INSTANCE JobQueue WITH entries <- Live
RefinesJobQueue == Q!Spec

\* No wake-up is missed: while a matured entry is in the queue and a consumer waits, a
\* notification is on its way, or a consumer is about to look, or a wait is over.  A push of a
\* ready entry wakes one waiter only, that of a delayed one wakes them only if it becomes the
\* earliest, and what a waiter sleeps for may have been removed or taken by others.  A closed
\* queue keeps nobody waiting: stop() joins threads that sit in pop.
NoOversleep ==
  /\ TypeOK
  /\ (Q!Matured # {} /\ Waiting # {}) =>
       \/ \E p \in Producers : notify[p] # "none"
       \/ \E c \in Consumers : con[c].pc = "loop" \/ (c \in Waiting /\ con[c].until <= now)
  /\ (closed /\ Waiting # {}) => \E p \in Producers : notify[p] = "all"
=============================================================================
