------------------------------ MODULE Workflow ------------------------------
(***************************************************************************)
(* The workflow DAG of src/engine/engine.cpp:592-864: submission with       *)
(* Kahn's test, release of dependents, skipping of descendants, the         *)
(* completion counter, finalisation, cancellation of a node and of the      *)
(* whole workflow, and a crash followed by recover().                      *)
(*                                                                         *)
(* One workflow, whose nodes take a single attempt each (JobEngine models   *)
(* attempts).  A section of wf_mutex_, and every read and write of a row,   *)
(* is one action: release_dependents, skip_descendants and finish_attempt   *)
(* write rows without the run_mutex_ that cancel and begin_attempt hold.    *)
(* Writes are durable (JobStore models group commit).                      *)
(***************************************************************************)
EXTENDS Integers, Sequences, FiniteSets, SequencesExt, JobState

CONSTANTS
  Nodes,
  NoNode,
  Workers,       \* threads that execute nodes
  Clients,       \* API threads
  Submitter,     \* the API thread that submits the workflow
  MaxRepeat,     \* times a request may list the same dependency
  MaxCancels,    \* calls of cancel and cancel_workflow
  MaxCrashes

VARIABLES
  \* the database
  edges,         \* job_dependencies: pairs <<parent, child>>
  row,           \* the job row of each node: its state and its pending_deps
  wf,            \* the state of the workflow row, "none" before it exists
  \* memory
  queue,         \* nodes in queue_
  children,      \* children_: node -> its children
  pending_deps,  \* pending_deps_
  remaining,     \* wf_remaining_: {} when the workflow has no entry
  failures,      \* wf_failures_
  outstanding,   \* outstanding_ (a negative number is one the code wraps around)
  th,            \* thread -> what it is doing
  \* history
  request,       \* the dependencies submitted: pair -> how often it is listed
  status,        \* the answer of submit_workflow
  ends,          \* node -> the states on_terminal was called with
  cancels,       \* calls of cancel and cancel_workflow so far
  early,         \* a node was cancelled before submit_workflow had set the maps
  crashes

maps == <<children, pending_deps>>
counters == <<remaining, failures>>
history == <<request, status, ends, cancels, early, crashes>>
vars == <<edges, row, wf, queue, maps, counters, outstanding, th, history>>

Threads == Workers \cup Clients \cup {Submitter}

Idle == [pc |-> "idle", node |-> NoNode, cur |-> NoNode, state |-> "none", todo |-> {},
         seen |-> {}, skipped |-> 0, cancels |-> {}]

Init ==
  /\ edges = {}
  /\ row = [n \in Nodes |-> [state |-> "none", pending_deps |-> 0]]
  /\ wf = "none"
  /\ queue = {}
  /\ children = [n \in Nodes |-> {}]
  /\ pending_deps = [n \in Nodes |-> 0]
  /\ remaining = {}
  /\ failures = 0
  /\ outstanding = 0
  /\ th = [t \in Threads |-> Idle]
  /\ request = [e \in Nodes \X Nodes |-> 0]
  /\ status = "none"
  /\ ends = [n \in Nodes |-> {}]
  /\ cancels = 0
  /\ early = FALSE
  /\ crashes = 0

\* indegree counts a dependency as often as it is listed.
Distinct(E) == {e \in DOMAIN E : E[e] > 0}
BugDistinctParents(E) == [n \in Nodes |-> Cardinality({e \in Distinct(E) : e[2] = n})]
Indegree(E) == [n \in Nodes |-> MapThenSumSet(LAMBDA p : E[<<p, n>>], Nodes)]
Children(edge_set) == [n \in Nodes |-> {m \in Nodes : <<n, m>> \in edge_set}]

-----------------------------------------------------------------------------
(* submit_workflow *)

\* Kahn's algorithm: the number of nodes it can order, from the degrees, the deque of ready
\* nodes and the number visited so far.  A degree is decremented as often as the dependency is
\* listed, and the node becomes ready when it passes zero.
RECURSIVE Visit(_, _, _, _)
Visit(E, deg, ready, visited) ==
  IF ready = <<>> THEN visited
  ELSE LET n == Head(ready)
           next == [m \in Nodes |-> deg[m] - E[<<n, m>>]]
           freed == {m \in Nodes : deg[m] \in 1 .. E[<<n, m>>]}
       IN Visit(E, next, Tail(ready) \o SetToSeq(freed), visited + 1)

HasCycle(E) ==
  Visit(E, Indegree(E), SetToSeq({n \in Nodes : Indegree(E)[n] = 0}), 0) # Cardinality(Nodes)

\* The checks of submit_workflow in their order.  A dependency listed twice passes them, and
\* breaks the primary key of job_dependencies when the workflow is inserted.
SubmitStatus(E) ==
  CASE \E n \in Nodes : E[<<n, n>>] > 0  -> "SelfEdge"
    [] HasCycle(E)                       -> "Cycle"
    [] \E e \in Nodes \X Nodes : E[e] > 1 -> "StoreError"
    [] OTHER                             -> "Ok"

\* The rows become visible; a slot is reserved for every node.
submit_insert(E) ==
  /\ request' = E
  /\ status' = SubmitStatus(E)
  /\ IF status' = "Ok"
       THEN /\ edges' = Distinct(E)
            /\ row' = [n \in Nodes |->
                         [state |-> IF Indegree(E)[n] > 0 THEN "PENDING" ELSE "QUEUED",
                          pending_deps |-> Indegree(E)[n]]]
            /\ wf' = "RUNNING"
            /\ outstanding' = Cardinality(Nodes)
            /\ th' = [th EXCEPT ![Submitter].pc = "maps"]
       ELSE UNCHANGED <<edges, row, wf, outstanding, th>>
  /\ UNCHANGED <<queue, maps, counters, ends, cancels, early, crashes>>

\* The maps under wf_mutex_.
submit_maps ==
  /\ th[Submitter].pc = "maps"
  /\ children' = Children(edges)
  /\ pending_deps' = Indegree(request)
  /\ remaining' = {Cardinality(Nodes)}
  /\ failures' = 0
  /\ th' = [th EXCEPT ![Submitter].pc = "enqueue"]
  /\ UNCHANGED <<edges, row, wf, queue, outstanding, history>>

\* The roots are pushed whatever became of their rows meanwhile.
submit_enqueue ==
  /\ th[Submitter].pc = "enqueue"
  /\ queue' = queue \cup {n \in Nodes : Indegree(request)[n] = 0}
  /\ th' = [th EXCEPT ![Submitter] = Idle]
  /\ UNCHANGED <<edges, row, wf, maps, counters, outstanding, history>>

-----------------------------------------------------------------------------
(* on_terminal, by the thread t that ended a node *)

\* Enter on_terminal for node n, whose row was just written with state s.
EnterOnTerminal(t, n, s) ==
  /\ ends' = [ends EXCEPT ![n] = @ \cup {s}]
  /\ th' = [th EXCEPT ![t].pc = IF s = "SUCCEEDED" THEN "release" ELSE "descend",
                      ![t].node = n, ![t].cur = IF s = "SUCCEEDED" THEN NoNode ELSE n,
                      ![t].state = s, ![t].todo = {}, ![t].seen = {}, ![t].skipped = 0]

\* The slot of the node is released; cancel_workflow goes on to its next node.
LeaveOnTerminal(t) ==
  [Idle EXCEPT !.cancels = th[t].cancels,
               !.pc = IF th[t].cancels = {} THEN "idle" ELSE "cancels"]

\* release_dependents: the children whose last pending dependency this node was.
BugReleaseFirst(n) == {c \in children[n] : pending_deps[c] > 0}
newly_ready(n) == {c \in children[n] : pending_deps[c] = 1}

countdown(n) ==
  [c \in Nodes |-> IF c \in children[n] /\ pending_deps[c] > 0
                   THEN pending_deps[c] - 1 ELSE pending_deps[c]]

\* It counts them down under wf_mutex_ ...
release_dependents(t) ==
  /\ th[t].pc = "release"
  /\ pending_deps' = countdown(th[t].node)
  /\ th' = [th EXCEPT ![t].pc = "ready", ![t].todo = newly_ready(th[t].node)]
  /\ UNCHANGED <<edges, row, wf, queue, children, counters, outstanding, history>>

\* ... then reads the row of each ...
release_load(t, c) ==
  /\ th[t].pc = "ready"
  /\ c \in th[t].todo
  /\ th' = [th EXCEPT ![t] = IF row[c].state = "PENDING"
                             THEN [@ EXCEPT !.pc = "enqueue", !.cur = c, !.todo = @ \ {c}]
                             ELSE [@ EXCEPT !.todo = @ \ {c}]]
  /\ UNCHANGED <<edges, row, wf, queue, maps, counters, outstanding, history>>

\* ... writes it back ...
release_write(t) ==
  /\ t # Submitter /\ th[t].pc = "enqueue"
  /\ row' = [row EXCEPT ![th[t].cur] = [state |-> "QUEUED", pending_deps |-> 0]]
  /\ th' = [th EXCEPT ![t].pc = "push"]
  /\ UNCHANGED <<edges, wf, queue, maps, counters, outstanding, history>>

\* ... and pushes it, whatever became of the row meanwhile.
release_push(t) ==
  /\ th[t].pc = "push"
  /\ queue' = queue \cup {th[t].cur}
  /\ th' = [th EXCEPT ![t].pc = "ready", ![t].cur = NoNode]
  /\ UNCHANGED <<edges, row, wf, maps, counters, outstanding, history>>

\* skip_descendants reads the children of the node that ended, and then of every node it has
\* looked at, under wf_mutex_ ...
BugSkipEverything(t) == th[t].todo \cup Nodes
Frontier(t) == th[t].todo \cup children[th[t].cur]

descend(t) ==
  /\ th[t].pc = "descend"
  /\ th' = [th EXCEPT ![t].pc = "skip", ![t].cur = NoNode, ![t].todo = Frontier(t)]
  /\ UNCHANGED <<edges, row, wf, queue, maps, counters, outstanding, history>>

\* ... takes a node of the frontier `todo` and reads its row ...
skip_load(t, d) ==
  /\ th[t].pc = "skip"
  /\ d \in th[t].todo \ th[t].seen
  /\ th' = [th EXCEPT ![t].seen = @ \cup {d}, ![t].cur = d,
                      ![t].pc = IF is_terminal(row[d].state) THEN "descend" ELSE "skipping"]
  /\ UNCHANGED <<edges, row, wf, queue, maps, counters, outstanding, history>>

\* ... and, unless that was terminal, writes SKIPPED.
skip_write(t) ==
  /\ th[t].pc = "skipping"
  /\ queue' = queue \ {th[t].cur}
  /\ row' = [row EXCEPT ![th[t].cur].state = "SKIPPED"]
  /\ th' = [th EXCEPT ![t].pc = "descend", ![t].skipped = @ + 1]
  /\ UNCHANGED <<edges, wf, maps, counters, outstanding, history>>

-----------------------------------------------------------------------------
(* the completion counter and finalize_workflow *)

BugCountOne(t) == 1
counted(t) == 1 + th[t].skipped

\* The section of wf_mutex_ in on_terminal.  The slots of the nodes skipped are released
\* before it; the node's own after it, unless the workflow has to be finalised first.
on_terminal_count(t) ==
  /\ \/ th[t].pc = "ready" /\ th[t].todo = {}
     \/ th[t].pc = "skip" /\ th[t].todo \subseteq th[t].seen
  /\ LET failed == failures + (IF th[t].state = "SUCCEEDED" THEN 0 ELSE counted(t))
         left == {r - counted(t) : r \in remaining}
         last == \E r \in left : r <= 0
     IN /\ remaining' = IF last THEN {} ELSE left
        /\ failures' = IF last THEN 0 ELSE failed
        /\ outstanding' = outstanding - th[t].skipped - (IF last THEN 0 ELSE 1)
        /\ th' = [th EXCEPT ![t] =
                    IF last THEN [@ EXCEPT !.pc = "finalize", !.todo = {}, !.seen = {}, !.skipped = 0,
                                           !.state = IF failed > 0 THEN "FAILED" ELSE "SUCCEEDED"]
                    ELSE LeaveOnTerminal(t)]
  /\ UNCHANGED <<edges, row, wf, queue, maps, history>>

\* finalize_workflow reads the workflow ...
finalize_load(t) ==
  /\ th[t].pc = "finalize"
  /\ IF wf = "RUNNING"
       THEN /\ th' = [th EXCEPT ![t].pc = "label"]
            /\ UNCHANGED outstanding
       ELSE /\ th' = [th EXCEPT ![t] = LeaveOnTerminal(t)]
            /\ outstanding' = outstanding - 1
  /\ UNCHANGED <<edges, row, wf, queue, maps, counters, history>>

\* ... and writes it back with its final state.
finalize_write(t) ==
  /\ th[t].pc = "label"
  /\ wf' = th[t].state
  /\ th' = [th EXCEPT ![t] = LeaveOnTerminal(t)]
  /\ outstanding' = outstanding - 1
  /\ UNCHANGED <<edges, row, queue, maps, counters, history>>

-----------------------------------------------------------------------------
(* attempts *)

run_mutex_free == \A t \in Threads : th[t].pc \notin {"begin", "cancel"}

\* A worker pops a node and reads its row; a row that is not startable is a stale entry.
begin_load(t, n) ==
  /\ th[t].pc = "idle"
  /\ run_mutex_free
  /\ n \in queue
  /\ queue' = queue \ {n}
  /\ th' = IF row[n].state \in Startable
             THEN [th EXCEPT ![t].pc = "begin", ![t].node = n] ELSE th
  /\ UNCHANGED <<edges, row, wf, maps, counters, outstanding, history>>

begin_write(t) ==
  /\ th[t].pc = "begin"
  /\ row' = [row EXCEPT ![th[t].node].state = "RUNNING"]
  /\ th' = [th EXCEPT ![t].pc = "run"]
  /\ UNCHANGED <<edges, wf, queue, maps, counters, outstanding, history>>

\* The attempt ends; FAILED stands for every terminal state but SUCCEEDED.
finish_attempt(t, s) ==
  /\ th[t].pc = "run"
  /\ row' = [row EXCEPT ![th[t].node].state = s]
  /\ EnterOnTerminal(t, th[t].node, s)
  /\ UNCHANGED <<edges, wf, queue, maps, counters, outstanding, request, status, cancels,
                 early, crashes>>

-----------------------------------------------------------------------------
(* cancellation *)

Live == {n \in Nodes : ~ is_terminal(row[n].state)}

\* cancel reads the row under run_mutex_ ...
cancel_load(t, n) ==
  /\ \/ th[t].pc = "idle" /\ wf # "none" /\ cancels < MaxCancels /\ cancels' = cancels + 1
     \/ th[t].pc = "cancels" /\ n \in th[t].cancels /\ UNCHANGED cancels
  /\ run_mutex_free
  /\ LET rest == th[t].cancels \ {n}
     IN th' = [th EXCEPT ![t] =
                 IF is_terminal(row[n].state)
                 THEN [Idle EXCEPT !.cancels = rest, !.pc = IF rest = {} THEN "idle" ELSE "cancels"]
                 ELSE [Idle EXCEPT !.cancels = rest, !.pc = "cancel", !.node = n,
                                   !.state = row[n].state]]
  /\ UNCHANGED <<edges, row, wf, queue, maps, counters, outstanding, request, status, ends,
                 early, crashes>>

\* ... flags a node that it read as RUNNING, writing the row back as it read it ...
cancel_flag(t) ==
  /\ th[t].pc = "cancel" /\ th[t].state = "RUNNING"
  /\ row' = [row EXCEPT ![th[t].node].state = "RUNNING"]
  /\ th' = [th EXCEPT ![t] = LeaveOnTerminal(t)]
  /\ UNCHANGED <<edges, wf, queue, maps, counters, outstanding, history>>

\* ... and ends any other at once.
cancel_write(t) ==
  /\ th[t].pc = "cancel" /\ th[t].state # "RUNNING"
  /\ queue' = queue \ {th[t].node}
  /\ row' = [row EXCEPT ![th[t].node].state = "CANCELLED"]
  /\ EnterOnTerminal(t, th[t].node, "CANCELLED")
  /\ early' = (early \/ th[Submitter].pc = "maps")
  /\ UNCHANGED <<edges, wf, maps, counters, outstanding, request, status, cancels, crashes>>

\* cancel_workflow reads the workflow, marks it, and lists the nodes to cancel.
cancel_workflow(t) ==
  /\ th[t].pc = "idle" /\ wf = "RUNNING" /\ cancels < MaxCancels
  /\ cancels' = cancels + 1
  /\ th' = [th EXCEPT ![t].pc = "mark"]
  /\ UNCHANGED <<edges, row, wf, queue, maps, counters, outstanding, request, status, ends,
                 early, crashes>>

cancel_workflow_mark(t) ==
  /\ th[t].pc = "mark"
  /\ wf' = "CANCELLED"
  /\ th' = [th EXCEPT ![t].pc = "list"]
  /\ UNCHANGED <<edges, row, queue, maps, counters, outstanding, history>>

cancel_workflow_list(t) ==
  /\ th[t].pc = "list"
  /\ th' = [th EXCEPT ![t].cancels = Live, ![t].pc = IF Live = {} THEN "idle" ELSE "cancels"]
  /\ UNCHANGED <<edges, row, wf, queue, maps, counters, outstanding, history>>

-----------------------------------------------------------------------------
(* crash and recover() *)

\* The failures recover() counts in the rows of a workflow that has a live node.
BugNoFailures == 0
recovered_failures ==
  IF Live = {} THEN 0 ELSE Cardinality({n \in Nodes \ Live : row[n].state # "SUCCEEDED"})

recover ==
  /\ crashes < MaxCrashes
  /\ wf # "none"
  /\ crashes' = crashes + 1
  /\ row' = [n \in Nodes |-> IF row[n].state = "RUNNING"
                             THEN [row[n] EXCEPT !.state = "QUEUED"] ELSE row[n]]
  /\ queue' = {n \in Live : row'[n].state \in Startable}
  /\ pending_deps' = [n \in Nodes |-> IF n \in Live THEN row[n].pending_deps ELSE 0]
  /\ remaining' = IF Live = {} THEN {} ELSE {Cardinality(Live)}
  /\ failures' = recovered_failures
  /\ outstanding' = Cardinality(Live)
  /\ children' = Children(edges)
  /\ th' = [t \in Threads |-> Idle]
  /\ UNCHANGED <<edges, wf, request, status, ends, cancels, early>>

-----------------------------------------------------------------------------
OnTerminal(t) ==
  \/ release_dependents(t)
  \/ \E n \in Nodes : release_load(t, n) \/ skip_load(t, n)
  \/ release_write(t)
  \/ release_push(t)
  \/ descend(t)
  \/ skip_write(t)
  \/ on_terminal_count(t)
  \/ finalize_load(t)
  \/ finalize_write(t)

WorkerStep(t) ==
  \/ \E n \in Nodes : begin_load(t, n)
  \/ begin_write(t)
  \/ \E s \in {"SUCCEEDED", "FAILED"} : finish_attempt(t, s)
  \/ OnTerminal(t)

ClientStep(t) ==
  \/ \E n \in Nodes : cancel_load(t, n)
  \/ cancel_flag(t)
  \/ cancel_write(t)
  \/ cancel_workflow(t)
  \/ cancel_workflow_mark(t)
  \/ cancel_workflow_list(t)
  \/ OnTerminal(t)

Next ==
  \/ status = "none" /\ \E E \in [Nodes \X Nodes -> 0 .. MaxRepeat] : submit_insert(E)
  \/ submit_maps
  \/ submit_enqueue
  \/ \E t \in Workers : WorkerStep(t)
  \/ \E t \in Clients : ClientStep(t)
  \/ recover

Spec == Init /\ [][Next]_vars

-----------------------------------------------------------------------------
(* Properties *)

\* Every variable has the shape of the data it stands for; pending_deps_ and the counters never
\* go below zero while they are in the maps (engine.cpp:773-796).
TypeOK ==
  /\ \A n \in Nodes : row[n].state \in JobStates \cup {"none"}
  /\ wf \in {"none", "RUNNING", "SUCCEEDED", "FAILED", "CANCELLED"}
  /\ queue \subseteq Nodes
  /\ pending_deps \in [Nodes -> 0 .. Cardinality(Nodes)]
  /\ remaining = {} \/ \E r \in 1 .. Cardinality(Nodes) : remaining = {r}
  /\ failures \in Nat

\* A graph is acyclic when every nonempty set of nodes has one without a parent in the set.
Acyclic(edge_set) ==
  \A S \in SUBSET Nodes : S # {} => \E n \in S : \A m \in S : <<m, n>> \notin edge_set

\* Kahn's loop decides exactly acyclicity, also when the request lists dependencies repeatedly:
\* submit_workflow answers Cycle for the graphs that have one (and no self edge), and accepts no
\* other cyclic graph.
KahnExact ==
  status \in {"Ok", "Cycle", "StoreError"} => (status = "Cycle" <=> ~ Acyclic(Distinct(request)))

\* A node starts only after every one of its parents has ended SUCCEEDED, whatever is cancelled,
\* skipped or interrupted by a crash on the way (README.md:193, "a job runs only after all its
\* dependencies have succeeded").
DependenciesRespected ==
  \A t \in Workers, p, c \in Nodes :
    (th[t].pc \in {"begin", "run"} /\ th[t].node = c /\ <<p, c>> \in edges)
      => "SUCCEEDED" \in ends[p]

\* A workflow is labelled SUCCEEDED only when every node has ended SUCCEEDED: neither a race of
\* the counter's updates nor the counters recover() rebuilds hide a node that failed.
SuccessMeansAll ==
  wf = "SUCCEEDED" => \A n \in Nodes : "SUCCEEDED" \in ends[n]

Failed(n) == \E s \in ends[n] : s # "SUCCEEDED"

Ancestors(n) ==
  {p \in Nodes \ {n} : \A S \in SUBSET Nodes :
     (n \in S /\ \A e \in edges : e[2] \in S => e[1] \in S) => p \in S}

\* A node is SKIPPED only below a node that did not succeed: unrelated branches still complete
\* (FAILURE_ANALYSIS.md:202).
SkipJustified ==
  \A n \in Nodes : row[n].state = "SKIPPED" => \E p \in Ancestors(n) : Failed(p)

Quiet ==
  /\ status = "Ok"
  /\ queue = {}
  /\ \A t \in Threads : th[t].pc = "idle"

\* When nothing is queued and no thread is busy, the workflow has its final state, every node
\* has ended or was skipped, and no slot is kept; so no node is left behind a release or a skip
\* that another thread overtook.  Where no node has two parents and nothing is cancelled each
\* slot is given back exactly once; see SlotsOwned for the other case.  (Without a crash, and when
\* no client found the nodes before submit_workflow had set its maps.)  On the way the counters
\* stay in their range (TypeOK).
Settled ==
  /\ TypeOK
  /\ Quiet /\ ~ early /\ crashes = 0 =>
       /\ wf # "RUNNING"
       /\ \A n \in Nodes : ends[n] # {} \/ row[n].state = "SKIPPED"
       /\ outstanding <= 0
       /\ cancels = 0 /\ (\A n \in Nodes : Indegree(request)[n] <= 1) => outstanding = 0

\* recover() rebuilds the counters "or a workflow recovered mid-flight would never be finalised"
\* (engine.cpp:987): with nothing queued and nobody busy, it has been finalised.
RecoveredSettled == Quiet /\ ~ early => wf # "RUNNING"

\* release_dependents leaves alone what was "cancelled or already handled" (engine.cpp:801), and
\* terminal states have no outgoing transitions (REQUIREMENTS.md:120): a node that was cancelled
\* or skipped before it started stays so.
UnstartedStaysEnded ==
  [][\A n \in Nodes :
       row[n].state \in {"CANCELLED", "SKIPPED"} => row'[n].state = row[n].state]_vars

\* outstanding_ counts the jobs that are not terminal (engine.hpp:24), so it is never decremented
\* below zero.
SlotsOwned == outstanding >= 0
=============================================================================
