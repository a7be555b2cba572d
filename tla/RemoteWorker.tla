---------------------------- MODULE RemoteWorker ----------------------------
(***************************************************************************)
(* A remote worker process and its coordinator over an unreliable          *)
(* connection: RemoteWorker::start, stop, poll_loop and heartbeat_loop     *)
(* (src/worker/remote_worker.cpp), HttpClient::request with its one         *)
(* transparent resend (src/http/http_client.cpp), the worker endpoints of   *)
(* src/api/api.cpp, and the part of the engine they reach.                  *)
(*                                                                         *)
(* A request the client gave up on may still be served, now or later; its   *)
(* answer is dropped.  The engine's handling of a request is one step here: *)
(* JobEngine models its critical sections.                                 *)
(***************************************************************************)
EXTENDS Integers, JobState

CONSTANTS
  Jobs,
  None,
  Main,          \* the thread of main(): registers, then waits for a signal
  Heart,         \* the heartbeat thread
  Pollers,       \* the threads of poll_loop
  MaxAttempts,   \* retry.max_attempts of every job
  MaxStarts,     \* processes started, one after the other
  MaxFaults,     \* requests whose connection fails, once or twice
  MaxRestarts,   \* restarts of the coordinator
  MaxTroubles    \* such requests, restarts and crashes together

Threads == {Main, Heart} \cup Pollers

\* What the messages and the tables carry: a job with the number of its attempt, an entry of
\* running_, and the bodies of the requests and of the answers.
Leases == Jobs \X Nat

Grants == [owner : Nat, attempt : Nat, reason : {"None", "User", "Timeout"}]

Requests ==
  [kind : {"register"}] \cup [kind : {"claim", "heartbeat"}, id : Nat]
    \cup [kind : {"complete"}, id : Nat, job : Jobs, attempt : Nat,
          status : {"SUCCEEDED", "FAILED", "TIMED_OUT"}]

Replies ==
  [kind : {"jobs"}, leases : SUBSET Leases] \cup [kind : {"complete"}, accepted : BOOLEAN]
    \cup [kind : {"heartbeat"}, cancel : SUBSET Jobs] \cup [kind : {"register"}, id : Nat]

ASSUME RemoteAssumption ==
  /\ MaxAttempts \in Nat \ {0}
  /\ {MaxStarts, MaxFaults, MaxRestarts, MaxTroubles} \subseteq Nat
  /\ Main # Heart /\ Main \notin Pollers /\ Heart \notin Pollers
  /\ None \notin Nat \cup Threads \cup Leases \cup Grants \cup Requests \cup Replies

VARIABLES
  \* the coordinator
  row,           \* job -> [state, attempt, cancel_requested]
  running,       \* running_: job -> the lease, or None
  remote_workers,\* remote_workers_: the ids it knows
  next_id,       \* the next worker id
  \* the worker process
  worker_id,     \* worker_id_, None while no process runs
  stopping,      \* stopping_
  active,        \* active_: job -> the thread whose cancel flag it holds, or None
  th,            \* thread -> what it is doing
  \* the network
  late,          \* requests given up by the client that may still be served
  \* history and bounds
  executed,      \* leases some thread has run, as <<job, attempt>>
  applied,       \* leases whose result the coordinator has applied
  left,          \* ids of the processes that stopped when asked to
  lost,          \* a lease or a result was lost with a connection
  starts, faults, restarts, crashes

coordinator == <<row, running, remote_workers, next_id>>
process == <<worker_id, stopping, active>>
history == <<executed, applied, left, lost>>
bounds == <<starts, faults, restarts, crashes>>
vars == <<coordinator, process, th, late, history, bounds>>

troubles == faults + restarts + crashes

Off == [pc |-> "off", req |-> None, try |-> 0, rep |-> None, lease |-> None, cancel |-> FALSE]

\* HttpClient::request is called with r.
Call(r) == [Off EXCEPT !.pc = "wait", !.req = r]

\* The loops of a process with id w call the coordinator ...
LoopCall(t, w) == Call([kind |-> IF t = Heart THEN "heartbeat" ELSE "claim", id |-> w])

\* ... again and again until they see stopping_.  (They sleep between two calls; a stop during
\* the sleep is one that comes during the next call here.)
Again(t) == IF stopping THEN Off ELSE LoopCall(t, worker_id)

\* After a call that failed the loops go on; a process that could not register exits.
Failed(t) == IF t = Main THEN Off ELSE Again(t)

Init ==
  /\ row = [j \in Jobs |-> [state |-> "QUEUED", attempt |-> 0, cancel_requested |-> FALSE]]
  /\ running = [j \in Jobs |-> None]
  /\ remote_workers = {}
  /\ next_id = 1
  /\ worker_id = None
  /\ stopping = FALSE
  /\ active = [j \in Jobs |-> None]
  /\ th = [t \in Threads |-> Off]
  /\ late = {}
  /\ executed = {} /\ applied = {} /\ left = {}
  /\ lost = FALSE
  /\ starts = 0 /\ faults = 0 /\ restarts = 0 /\ crashes = 0

-----------------------------------------------------------------------------
(* The coordinator's answer to a request r: an action on its own variables, *)
(* with the answer a.                                                       *)

\* claim: a known worker gets a lease on a queued job, or begin_attempt ends one that was
\* cancelled while it ran before.  The wait ends with nothing when no job is queued but such as
\* wait for their back-off.
BugReuseAttempt(j) == IF row[j].attempt = 0 THEN 1 ELSE row[j].attempt
next_attempt(j) == row[j].attempt + 1

claim(r, a) ==
  /\ r.kind = "claim"
  /\ LET queued == {j \in Jobs : row[j].state \in Startable}
     IN \/ /\ r.id \notin remote_workers \/ \A j \in queued : row[j].state = "RETRYING"
           /\ a = [kind |-> "jobs", leases |-> {}]
           /\ UNCHANGED <<row, running>>
        \/ \E j \in queued :
             /\ r.id \in remote_workers
             /\ ~ row[j].cancel_requested
             /\ a = [kind |-> "jobs", leases |-> {<<j, next_attempt(j)>>}]
             /\ row' = [row EXCEPT ![j].state = "RUNNING", ![j].attempt = next_attempt(j)]
             /\ running' = [running EXCEPT ![j] = [owner |-> r.id, attempt |-> next_attempt(j),
                                                   reason |-> "None"]]
        \/ \E j \in queued :
             /\ r.id \in remote_workers
             /\ row[j].cancel_requested
             /\ a = [kind |-> "jobs", leases |-> {}]
             /\ row' = [row EXCEPT ![j].state = "CANCELLED"]
             /\ UNCHANGED running
  /\ UNCHANGED <<remote_workers, next_id, applied>>

\* The state finish_attempt gives the row: reason is what the coordinator asked for, unless the
\* worker reports TIMED_OUT, which complete() puts in its place.
Finished(j, status) ==
  LET reason == IF status = "TIMED_OUT" THEN "Timeout" ELSE running[j].reason
      retried == row[j].attempt < MaxAttempts
  IN CASE reason = "User"        -> "CANCELLED"
       [] reason = "Timeout"     -> IF retried THEN "RETRYING" ELSE "TIMED_OUT"
       [] status = "SUCCEEDED"   -> "SUCCEEDED"
       [] OTHER                  -> IF retried THEN "RETRYING" ELSE "FAILED"

\* The fencing check of complete().
BugFenceOwnerOnly(r) == running[r.job] # None /\ running[r.job].owner = r.id
holds_lease(r) ==
  /\ running[r.job] # None
  /\ running[r.job].owner = r.id
  /\ running[r.job].attempt = r.attempt

complete(r, a) ==
  /\ r.kind = "complete"
  /\ IF holds_lease(r)
       THEN /\ running' = [running EXCEPT ![r.job] = None]
            /\ row' = [row EXCEPT ![r.job].state = Finished(r.job, r.status)]
            /\ applied' = applied \cup {<<r.job, r.attempt>>}
            /\ a = [kind |-> "complete", accepted |-> TRUE]
       ELSE /\ a = [kind |-> "complete", accepted |-> FALSE]
            /\ UNCHANGED <<running, row, applied>>
  /\ UNCHANGED <<remote_workers, next_id>>

\* heartbeat_worker: the jobs of this worker whose flag is set.  (Leases carry no time here: see
\* expire.)
heartbeat(r, a) ==
  /\ r.kind = "heartbeat"
  /\ a = [kind |-> "heartbeat",
          cancel |-> {j \in Jobs : /\ r.id \in remote_workers
                                   /\ running[j] # None
                                   /\ running[j].owner = r.id
                                   /\ running[j].reason # "None"}]
  /\ UNCHANGED <<coordinator, applied>>

register(r, a) ==
  /\ r.kind = "register"
  /\ a = [kind |-> "register", id |-> next_id]
  /\ remote_workers' = remote_workers \cup {next_id}
  /\ next_id' = next_id + 1
  /\ UNCHANGED <<row, running, applied>>

Answer(r, a) == claim(r, a) \/ complete(r, a) \/ heartbeat(r, a) \/ register(r, a)

Answers ==
  [kind : {"jobs"}, leases : {{}} \cup {{l} : l \in Jobs \X (1 .. MaxAttempts + MaxRestarts)}]
    \cup [kind : {"complete"}, accepted : BOOLEAN]
    \cup [kind : {"heartbeat"}, cancel : SUBSET Jobs]
    \cup [kind : {"register"}, id : {next_id}]

\* The server answers a request whose client waits for it ...
serve(t) ==
  /\ th[t].pc = "wait" /\ th[t].rep = None
  /\ \E a \in Answers : /\ Answer(th[t].req, a)
                        /\ th' = [th EXCEPT ![t].rep = a]
  /\ UNCHANGED <<process, late, executed, left, lost, bounds>>

\* ... or one whose client is gone.
serve_late(r) ==
  /\ r \in late
  /\ late' = late \ {r}
  /\ \E a \in Answers : Answer(r, a)
  /\ UNCHANGED <<process, th, executed, left, lost, bounds>>

\* A client cancels a job.
cancel(j) ==
  /\ ~ is_terminal(row[j].state) /\ ~ row[j].cancel_requested
  /\ row' = [row EXCEPT ![j].cancel_requested = TRUE,
                        ![j].state = IF @ = "RUNNING" THEN @ ELSE "CANCELLED"]
  /\ running' = [running EXCEPT ![j] = IF @ = None THEN None ELSE [@ EXCEPT !.reason = "User"]]
  /\ UNCHANGED <<remote_workers, next_id, process, th, late, history, bounds>>

\* The watchdog's deadline sets the flag with the reason Timeout.
deadline(j) ==
  /\ running[j] # None /\ running[j].reason = "None"
  /\ running' = [running EXCEPT ![j].reason = "Timeout"]
  /\ UNCHANGED <<row, remote_workers, next_id, process, th, late, history, bounds>>

BugExpireOneMore(j) == row[j].attempt > MaxAttempts
exhausted(j) == row[j].attempt >= MaxAttempts

\* The watchdog's expiry of a lease, or of every lease of a worker it marks dead: it comes when
\* heartbeats did not, which this model lets happen at any time.
expire(j) ==
  /\ running[j] # None
  /\ running' = [running EXCEPT ![j] = None]
  /\ row' = [row EXCEPT ![j].state = IF exhausted(j) THEN "FAILED" ELSE "QUEUED"]
  /\ UNCHANGED <<remote_workers, next_id, process, th, late, history, bounds>>

\* The coordinator stops and starts: recover() requeues what was RUNNING, and no worker is known.
\* Requests not yet served are lost; a client that waits sees its connection close, and sends
\* again what it had sent once, unless it finds the coordinator still down.
restart(down) ==
  /\ restarts < MaxRestarts /\ troubles < MaxTroubles
  /\ restarts' = restarts + 1
  /\ row' = [j \in Jobs |-> IF row[j].state = "RUNNING" THEN [row[j] EXCEPT !.state = "QUEUED"]
                            ELSE row[j]]
  /\ running' = [j \in Jobs |-> None]
  /\ remote_workers' = {}
  /\ late' = {}
  /\ th' = [t \in Threads |->
              IF th[t].pc # "wait" \/ th[t].rep # None THEN th[t]
              ELSE IF th[t].try = 1 \/ t \in down THEN Failed(t)
              ELSE [th[t] EXCEPT !.try = 1]]
  /\ UNCHANGED <<next_id, process, history, starts, faults, crashes>>

-----------------------------------------------------------------------------
(* HttpClient::request, by thread t *)

\* A result or a lease is lost when the client gives up a completion, or a claim that was or
\* may yet be served.
Loses(t, final) ==
  \/ th[t].req.kind = "claim" /\ (th[t].rep = None \/ th[t].rep.leases # {})
  \/ th[t].req.kind = "complete" /\ final

\* Without an answer the request may be lost, or be served later.
Abandon(t) ==
  /\ IF th[t].try = 1 THEN UNCHANGED faults
     ELSE /\ faults < MaxFaults /\ troubles < MaxTroubles
          /\ faults' = faults + 1
  /\ late' \in {late} \cup (IF th[t].rep = None THEN {late \cup {th[t].req}} ELSE {})

\* The connection breaks before a response: the first time the request is sent again.
http_resend(t) ==
  /\ th[t].pc = "wait"
  /\ th[t].try = 0
  /\ Abandon(t)
  /\ lost' = (lost \/ Loses(t, FALSE))
  /\ th' = [th EXCEPT ![t].try = 1, ![t].rep = None]
  /\ UNCHANGED <<coordinator, process, executed, applied, left, starts, restarts, crashes>>

\* It breaks again, or the response times out.
http_error(t) ==
  /\ th[t].pc = "wait"
  /\ Abandon(t)
  /\ lost' = (lost \/ Loses(t, TRUE))
  /\ th' = [th EXCEPT ![t] = Failed(t)]
  /\ UNCHANGED <<coordinator, process, executed, applied, left, starts, restarts, crashes>>

-----------------------------------------------------------------------------
(* The worker process *)

\* start(): register ...
start ==
  /\ starts < MaxStarts
  /\ \A t \in Threads : th[t].pc = "off"
  /\ starts' = starts + 1
  /\ stopping' = FALSE
  /\ th' = [th EXCEPT ![Main] = Call([kind |-> "register"])]
  /\ UNCHANGED <<coordinator, worker_id, active, late, history, faults, restarts, crashes>>

\* ... and start the loops.
registered ==
  /\ th[Main].pc = "wait" /\ th[Main].rep # None
  /\ worker_id' = th[Main].rep.id
  /\ th' = [t \in Threads |-> IF t = Main THEN [Off EXCEPT !.pc = "up"]
                             ELSE LoopCall(t, th[Main].rep.id)]
  /\ UNCHANGED <<coordinator, stopping, active, late, history, bounds>>

\* A signal: stop() sets stopping_ and joins the threads.
stop ==
  /\ th[Main].pc = "up"
  /\ stopping' = TRUE
  /\ th' = [th EXCEPT ![Main].pc = "join"]
  /\ UNCHANGED <<coordinator, worker_id, active, late, history, bounds>>

BugJoinHeartOnly == th[Heart].pc = "off"
joined == \A t \in Threads \ {Main} : th[t].pc = "off"

stopped ==
  /\ th[Main].pc = "join"
  /\ joined
  /\ th' = [th EXCEPT ![Main].pc = "off"]
  /\ worker_id' = None
  /\ left' = left \cup {worker_id}
  /\ UNCHANGED <<coordinator, stopping, active, late, executed, applied, lost, bounds>>

\* The process is killed.
crash ==
  /\ worker_id # None
  /\ starts < MaxStarts /\ troubles < MaxTroubles
  /\ crashes' = crashes + 1
  /\ worker_id' = None
  /\ active' = [j \in Jobs |-> None]
  /\ th' = [t \in Threads |-> Off]
  /\ UNCHANGED <<coordinator, stopping, late, history, starts, faults, restarts>>

\* poll_loop with the answer of a claim: enter the lease in active_ and run the handler.
claimed(t) ==
  /\ t \in Pollers /\ th[t].pc = "wait" /\ th[t].rep # None /\ th[t].req.kind = "claim"
  /\ IF th[t].rep.leases = {}
       THEN /\ th' = [th EXCEPT ![t] = Again(t)]
            /\ UNCHANGED <<active, executed>>
       ELSE \E l \in th[t].rep.leases :
              /\ active' = [active EXCEPT ![l[1]] = t]
              /\ th' = [th EXCEPT ![t] = [Off EXCEPT !.pc = "run", !.lease = l]]
              /\ executed' = executed \cup {l}
  /\ UNCHANGED <<coordinator, worker_id, stopping, late, applied, lost, left, bounds>>

\* The handler returns: erase the entry and report the result.
erased(j) == [active EXCEPT ![j] = None]

\* The flag is looked at when the handler returns, not when it throws or is not there.
Status(t, outcome) ==
  CASE outcome = "threw" -> "FAILED"
    [] th[t].cancel      -> "TIMED_OUT"
    [] OTHER             -> outcome

Report(t, outcome) ==
  Call([kind |-> "complete", id |-> worker_id, job |-> th[t].lease[1],
        attempt |-> th[t].lease[2], status |-> Status(t, outcome)])

BugSilentCancel(t, outcome) == IF th[t].cancel THEN Again(t) ELSE Report(t, outcome)
then_report(t, outcome) == Report(t, outcome)

ran(t, outcome) ==
  /\ th[t].pc = "run"
  /\ outcome = "threw" => th[t].cancel      \* otherwise it is as one that FAILED
  /\ active' = erased(th[t].lease[1])
  /\ th' = [th EXCEPT ![t] = then_report(t, outcome)]
  /\ UNCHANGED <<coordinator, worker_id, stopping, late, history, bounds>>

reported(t) ==
  /\ t \in Pollers /\ th[t].pc = "wait" /\ th[t].rep # None /\ th[t].req.kind = "complete"
  /\ th' = [th EXCEPT ![t] = Again(t)]
  /\ UNCHANGED <<coordinator, process, late, history, bounds>>

\* heartbeat_loop with an answer: set the flags of the jobs to cancel, and of those past their
\* own deadline.
heartbeat_answer(overdue) ==
  /\ th[Heart].pc = "wait" /\ th[Heart].rep # None
  /\ th' = [t \in Threads |->
              IF t = Heart THEN Again(t)
              ELSE IF \E j \in th[Heart].rep.cancel \cup overdue : active[j] = t
                   THEN [th[t] EXCEPT !.cancel = TRUE] ELSE th[t]]
  /\ UNCHANGED <<coordinator, process, late, history, bounds>>

-----------------------------------------------------------------------------
Next ==
  \/ \E t \in Threads : serve(t) \/ http_resend(t) \/ http_error(t)
  \/ \E r \in late : serve_late(r)
  \/ \E j \in Jobs : cancel(j) \/ deadline(j) \/ expire(j)
  \/ \E down \in SUBSET Threads : restart(down)
  \/ start \/ registered \/ stop \/ stopped \/ crash
  \/ \E t \in Pollers : claimed(t) \/ reported(t)
  \/ \E t \in Pollers, o \in {"SUCCEEDED", "FAILED", "threw"} : ran(t, o)
  \/ \E overdue \in SUBSET Jobs : heartbeat_answer(overdue)

Spec == Init /\ [][Next]_vars

-----------------------------------------------------------------------------
(* Properties *)

ThreadStates ==
  [pc : {"off", "wait", "run", "up", "join"}, req : Requests \cup {None}, try : {0, 1},
   rep : Replies \cup {None}, lease : Leases \cup {None}, cancel : BOOLEAN]

\* Every variable has the shape of the data it stands for.
Types ==
  /\ row \in [Jobs -> [state : JobStates, attempt : Nat, cancel_requested : BOOLEAN]]
  /\ running \in [Jobs -> Grants \cup {None}]
  /\ next_id \in Nat \ {0} /\ remote_workers \subseteq 1 .. next_id - 1
  /\ worker_id \in Nat \cup {None}
  /\ stopping \in BOOLEAN
  /\ active \in [Jobs -> Pollers \cup {None}]
  /\ th \in [Threads -> ThreadStates]
  /\ late \subseteq Requests
  /\ executed \subseteq Leases /\ applied \subseteq Leases
  /\ left \subseteq Nat
  /\ lost \in BOOLEAN
  /\ {starts, faults, restarts, crashes} \subseteq Nat

\* An answer is one that the thread waiting for it knows how to read; poll_loop asks for one job
\* at a time.
Readable(x) ==
  x.rep # None => /\ x.pc = "wait"
                  /\ x.rep.kind = IF x.req.kind = "claim" THEN "jobs" ELSE x.req.kind
                  /\ x.rep.kind = "jobs" => \A l, m \in x.rep.leases : l = m

\* A loop of the process with id w that is in state x runs only while the process is registered,
\* and calls under its id.
LoopShape(t, x, w) ==
  /\ x.pc \in {"off", "wait", "run"}
  /\ x.pc # "off" => w # None
  /\ x.pc = "wait" => /\ x.req # None
                      /\ x.req.id = w
                      /\ x.req.kind \in IF t = Heart THEN {"heartbeat"} ELSE {"claim", "complete"}
  /\ x.pc = "run" => t # Heart /\ x.lease # None

ProcessShape ==
  /\ th[Main].pc \in {"off", "wait", "up", "join"}
  /\ th[Main].pc = "wait" => th[Main].req = [kind |-> "register"]
  /\ worker_id # None <=> th[Main].pc \in {"up", "join"}
  /\ \A t \in Threads \ {Main} : LoopShape(t, th[t], worker_id)
  /\ \A t \in Threads : Readable(th[t])

\* The threads of the process, what they wait for and the worker id fit together: stop() joins the
\* loops before the id is given up.
TypeOK == Types /\ ProcessShape

\* No two threads execute a job under the same lease, whatever is resent, expired or restarted,
\* and an entry of active_ belongs to a thread that is executing that job: a cancellation never
\* reaches a thread that has gone on to something else.
LeaseRunsOnce ==
  /\ TypeOK
  /\ \A s, t \in Pollers :
       th[s].pc = "run" /\ th[t].pc = "run" /\ s # t => th[s].lease # th[t].lease
  /\ \A j \in Jobs :
       active[j] # None => th[active[j]].pc = "run" /\ th[active[j]].lease[1] = j

\* The attempts of a job are numbered up to max_attempts, and one further for each restart of the
\* coordinator, and every lease it was executed under carries one of these numbers, so there are
\* at most that many: neither crashes of workers, expired leases nor resent claims add executions
\* ("a lease expiry consumes an attempt", INTERVIEW_PREPARATION.md:153).
ExecutionsBounded ==
  /\ \A j \in Jobs : row[j].attempt <= MaxAttempts + restarts
  /\ \A l \in executed : l[2] \in 1 .. row[l[1]].attempt

\* A job that SUCCEEDED did so by the result of the last lease it was given: a result that
\* arrives late, twice or after the lease went elsewhere changes nothing (FAILURE_ANALYSIS.md:197).
SucceededByLastLease ==
  \A j \in Jobs : row[j].state = "SUCCEEDED" => <<j, row[j].attempt>> \in applied

\* Thread t has the lease l in hand: as an answer, running, or in a report not yet applied.
InHand(t, l) ==
  \/ th[t].rep # None /\ th[t].rep.kind = "jobs" /\ l \in th[t].rep.leases
  \/ th[t].pc = "run" /\ th[t].lease = l
  \/ th[t].pc = "wait" /\ th[t].req.kind = "complete" /\ <<th[t].req.job, th[t].req.attempt>> = l

\* A lease that the heartbeats of a live worker keep alive is in the hand of one of its threads,
\* unless an answer or a result was lost with a connection: heartbeat_worker extends
\* "everything this worker still holds" (engine.cpp:903) and would otherwise keep a job
\* that nobody executes.
LeaseIsHeld ==
  \A j \in Jobs :
    running[j] # None /\ running[j].owner = worker_id /\ ~ lost
      => \E t \in Pollers : InHand(t, <<j, running[j].attempt>>)

\* A lease is the right "of one worker to execute one attempt of one job" (REQUIREMENTS.md:88):
\* whatever was lost, the one that heartbeats keep alive is in the hand of a thread.
LeaseNeverIdle ==
  \A j \in Jobs :
    running[j] # None /\ running[j].owner = worker_id
      => \E t \in Pollers : InHand(t, <<j, running[j].attempt>>)

\* A process that was asked to stop exits only when it holds no lease: what it had claimed was
\* executed and reported, or is lost to the connection.
StopLeavesNoLease ==
  \A j \in Jobs : running[j] # None /\ ~ lost => running[j].owner \notin left
=============================================================================
