----------------------------- MODULE JobEngine ------------------------------
(***************************************************************************)
(* The attempt lifecycle of src/engine/engine.cpp for jobs that belong to  *)
(* no workflow: submit, cancel, begin_attempt, finish_attempt, the embedded *)
(* worker loop, the remote worker calls (register, heartbeat, claim,       *)
(* complete), the watchdog and stop().                                     *)
(*                                                                         *)
(* An action is one critical section (a hold of run_mutex_, of the queue's *)
(* mutex or of the store's writer, or one atomic operation), so every      *)
(* point at which another thread can run between two sections of one       *)
(* function is a state.  th[t].pc says which section thread t enters next. *)
(* finish_attempt writes the row without run_mutex_, so a section under    *)
(* run_mutex_ that reads and then writes a row is one action only if no    *)
(* finisher can be at that row; cancel() of a RUNNING job is two actions.  *)
(*                                                                         *)
(* Data is abstracted: payloads, results, timestamps and metrics are left  *)
(* out.  The queue is the set of the job ids it holds, entries mature and  *)
(* leave in any order.  Clocks are replaced by flags: a lease is "valid"   *)
(* or "overdue", a registered worker is "alive", "silent" (its heartbeat   *)
(* is overdue, the watchdog has not noticed) or "dead".                    *)
(***************************************************************************)
EXTENDS Integers, FiniteSets, JobState

CONSTANTS
  Jobs,             \* job ids, each submitted at most once
  Workers,          \* embedded worker threads
  Clients,          \* HTTP threads, each serving one API call at a time
  RemoteWorkers,    \* ids handed out by register_worker
  Watchdog,         \* the watchdog thread
  MaxAttempts,      \* retry.max_attempts of each job
  TimedJobs,        \* the jobs with timeout_ms > 0
  MaxOutstanding,   \* cfg.max_outstanding_jobs, also the queue's capacity
  StoreMayFail,     \* TRUE: direct-write store, any write can fail; FALSE: none does
  Nobody            \* "no job", "no owner"

ASSUME JobEngineAssumption ==
  /\ IsFiniteSet(Jobs) /\ IsFiniteSet(Workers) /\ IsFiniteSet(Clients)
  /\ MaxAttempts \in [Jobs -> Nat \ {0}]
  /\ TimedJobs \subseteq Jobs
  /\ MaxOutstanding \in Nat
  /\ StoreMayFail \in BOOLEAN
  /\ Nobody \notin Jobs \cup Workers \cup RemoteWorkers
  /\ Workers \cap Clients = {} /\ Workers \cap RemoteWorkers = {}
  /\ Watchdog \notin Workers \cup Clients

VARIABLES
  row,             \* the jobs table: what store_->get_job returns
  attempts,        \* the attempts table: finished attempts and their status
  queue,           \* job ids in queue_
  running,         \* running_: job id -> RunningInfo, NoLease when absent
  issued,          \* lease tokens issued so far for each job
  reason,          \* *cancel_reason of the newest lease of each job
  outstanding,     \* outstanding_
  remote_workers,  \* remote_workers_
  th,              \* locals of each thread inside an engine call
  expired,         \* watchdog: expired_leases
  dead,            \* watchdog: dead_workers still to be processed
  main,            \* progress of stop() on the main thread
  drain,           \* drain_
  to_drain,        \* history: what was queued when stop(true) began; none after 30 s
  completions,     \* history: completion_cb_ calls for each job
  acked            \* history: jobs whose cancel() returned Ok

storeVars == <<row, attempts>>
leaseVars == <<running, issued, reason>>
watchVars == <<expired, dead>>
mainVars  == <<main, drain, to_drain>>
envVars   == <<remote_workers, expired, dead, main, drain, to_drain>>
ghostVars == <<completions, acked>>
vars == <<row, attempts, queue, running, issued, reason, outstanding,
          remote_workers, th, expired, dead, main, drain, to_drain,
          completions, acked>>

Threads == Workers \cup Clients \cup {Watchdog}
Owners  == Workers \cup RemoteWorkers
JobRow(state, attempt, token, cancel) ==
  [state |-> state, attempt |-> attempt, lease_token |-> token, cancel_requested |-> cancel]
NoLease == [token |-> 0, owner |-> Nobody, attempt |-> 0, lease |-> "none"]
\* A thread at label, working on job for owner under the lease `token`; attempt and
\* cancel are those of its copy of the job, outcome what it reports or has decided.
Locals(label, job, owner, token, attempt, cancel, outcome) ==
  [pc |-> label, job |-> job, owner |-> owner, token |-> token, attempt |-> attempt,
   cancel_requested |-> cancel, outcome |-> outcome]
At(label, job, owner) == Locals(label, job, owner, 0, 0, FALSE, "none")
Idle == At("idle", Nobody, Nobody)

is_running(j)  == running[j].token # 0
stop_requested == main \in {"stopping", "closed", "stopped"}
queue_closed   == main \in {"closed", "stopped"}
Live(j)        == row[j].state # "ABSENT" /\ ~ is_terminal(row[j].state)

\* With group commit update_job always returns true (store.cpp:336-365); written
\* directly to SQLite the row may be refused.
StoreOutcome == IF StoreMayFail THEN BOOLEAN ELSE {TRUE}
Stored(j, r, ok) == IF ok THEN [row EXCEPT ![j] = r] ELSE row
\* A write whose failure is at most logged.
persist(j, r) == \E ok \in StoreOutcome : row' = Stored(j, r, ok)

\* The watchdog returns to its scan, any other thread to its caller.
Home(t) == At(IF t = Watchdog THEN "scanning" ELSE "idle", Nobody, Nobody)
Return(t) == th' = [th EXCEPT ![t] = Home(t)]
Proceed(t, label, outcome) ==
  th' = [th EXCEPT ![t] = Locals(label, @.job, @.owner, @.token, @.attempt,
                                 @.cancel_requested, outcome)]
Goto(t, label) == Proceed(t, label, th[t].outcome)

\* run_mutex_ can be taken: no cancel() is between its read and its write of a row.
run_mutex_free == \A t \in Threads : th[t].pc # "cancelling"
-----------------------------------------------------------------------------
(* Admission and the queue *)

\* A slot is taken only below the limit (reserve_slot's compare-exchange loop).
reserve_slot == outstanding < MaxOutstanding /\ outstanding' = outstanding + 1

BugReleaseNothing == outstanding' = outstanding
release_slot == outstanding' = outstanding - 1

\* push: Closed and Full leave the queue as it is, and enqueue() only logs Full.
Pushed(j) ==
  IF queue_closed \/ Cardinality(queue) >= MaxOutstanding THEN queue ELSE queue \cup {j}

BugEnqueueForgets(t) ==
  /\ th[t].pc = "enqueue"
  /\ Return(t)
  /\ UNCHANGED <<storeVars, queue, leaseVars, outstanding, envVars, ghostVars>>
enqueue(t) ==
  /\ th[t].pc = "enqueue"
  /\ queue' = Pushed(th[t].job)
  /\ Return(t)
  /\ UNCHANGED <<storeVars, leaseVars, outstanding, envVars, ghostVars>>

\* What every path does after it wrote a terminal row: on_terminal (nothing for a
\* job without a workflow), the completion callback, release_slot.
finish_terminal(t) ==
  /\ th[t].pc = "finished"
  /\ completions' = [completions EXCEPT ![th[t].job] = @ + 1]
  /\ release_slot
  /\ Return(t)
  /\ UNCHANGED <<storeVars, queue, leaseVars, envVars, acked>>
-----------------------------------------------------------------------------
(* submit *)

\* Job ids are fresh: j has no row and no other call is inserting it.
submit_reserve(c, j) ==
  /\ th[c].pc = "idle"
  /\ ~ stop_requested
  /\ row[j].state = "ABSENT"
  /\ \A t \in Threads : th[t].job # j
  /\ reserve_slot
  /\ th' = [th EXCEPT ![c] = At("insert", j, Nobody)]
  /\ UNCHANGED <<storeVars, queue, leaseVars, envVars, ghostVars>>

submit_insert(c) ==
  /\ th[c].pc = "insert"
  /\ \E s \in {"QUEUED", "SCHEDULED"} :
       row' = [row EXCEPT ![th[c].job] = JobRow(s, 0, 0, FALSE)]
  /\ Goto(c, "enqueue")
  /\ UNCHANGED <<attempts, queue, leaseVars, outstanding, envVars, ghostVars>>

submit_insert_fails(c) ==
  /\ th[c].pc = "insert"
  /\ StoreMayFail
  /\ release_slot
  /\ Return(c)
  /\ UNCHANGED <<storeVars, queue, leaseVars, envVars, ghostVars>>
-----------------------------------------------------------------------------
(* cancel: under run_mutex_ throughout *)

\* RUNNING: the row is read,
cancel_load(c, j) ==
  /\ th[c].pc = "idle"
  /\ run_mutex_free
  /\ row[j].state = "RUNNING"
  /\ th' = [th EXCEPT ![c] =
              Locals("cancelling", j, Nobody, row[j].lease_token, row[j].attempt, TRUE, "none")]
  /\ UNCHANGED <<storeVars, queue, leaseVars, outstanding, envVars, ghostVars>>

\* then written back with the flag, and the attempt, if it is still in running_, is told.
cancel_flag(c) ==
  LET j == th[c].job IN
  /\ th[c].pc = "cancelling"
  /\ row' = [row EXCEPT ![j] = JobRow("RUNNING", th[c].attempt, th[c].token, TRUE)]
  /\ reason' = IF is_running(j) THEN [reason EXCEPT ![j] = "User"] ELSE reason
  /\ acked' = acked \cup {j}
  /\ Return(c)
  /\ UNCHANGED <<attempts, queue, running, issued, outstanding, envVars, completions>>

cancel_flag_fails(c) ==
  /\ th[c].pc = "cancelling"
  /\ StoreMayFail
  /\ Return(c)
  /\ UNCHANGED <<storeVars, queue, leaseVars, outstanding, envVars, ghostVars>>

CancelledRow(j) == JobRow("CANCELLED", row[j].attempt, row[j].lease_token, TRUE)

BugCancelTerminal(c, j) ==
  /\ th[c].pc = "idle"
  /\ run_mutex_free
  /\ row[j].state \notin {"ABSENT", "RUNNING"}
  /\ queue' = queue \ {j}
  /\ row' = [row EXCEPT ![j] = CancelledRow(j)]
  /\ th' = [th EXCEPT ![c] = At("finished", j, Nobody)]
  /\ acked' = acked \cup {j}
  /\ UNCHANGED <<attempts, leaseVars, outstanding, envVars, completions>>
\* QUEUED, SCHEDULED or RETRYING: terminal at once.  The queue entry is removed
\* before the write that may fail.
cancel_waiting(c, j) ==
  /\ th[c].pc = "idle"
  /\ run_mutex_free
  /\ row[j].state \in Startable
  /\ queue' = queue \ {j}
  /\ \E ok \in StoreOutcome :
       /\ row' = Stored(j, CancelledRow(j), ok)
       /\ th' = IF ok THEN [th EXCEPT ![c] = At("finished", j, Nobody)] ELSE th
       /\ acked' = IF ok THEN acked \cup {j} ELSE acked
  /\ UNCHANGED <<attempts, leaseVars, outstanding, envVars, completions>>
-----------------------------------------------------------------------------
(* begin_attempt, called by an embedded worker or for a remote claim after    *)
(* the entry was popped.                                                      *)

\* The row is terminal or already RUNNING: the queue entry was stale.
begin_attempt_refused(t) ==
  /\ th[t].pc = "popped"
  /\ run_mutex_free
  /\ row[th[t].job].state \notin Startable
  /\ Return(t)
  /\ UNCHANGED <<storeVars, queue, leaseVars, outstanding, envVars, ghostVars>>

\* A cancel was requested before the lease of the previous attempt expired.  The
\* result of the write is ignored.
begin_attempt_cancelled(t) ==
  LET j == th[t].job IN
  /\ th[t].pc = "popped"
  /\ run_mutex_free
  /\ row[j].state \in Startable
  /\ row[j].cancel_requested
  /\ persist(j, CancelledRow(j))
  /\ Goto(t, "finished")
  /\ UNCHANGED <<attempts, queue, leaseVars, outstanding, envVars, ghostVars>>

BugLeasedSameAttempt(j, owner) ==
  [token |-> issued[j] + 1, owner |-> owner, attempt |-> row[j].attempt,
   lease |-> IF owner \in RemoteWorkers THEN "valid" ELSE "none"]
Leased(j, owner) ==
  [token |-> issued[j] + 1, owner |-> owner, attempt |-> row[j].attempt + 1,
   lease |-> IF owner \in RemoteWorkers THEN "valid" ELSE "none"]

\* A fresh token for attempt + 1.  An embedded worker goes on to run the handler; a
\* claim returns the lease to the remote worker.
begin_attempt_started(t) ==
  LET j    == th[t].job
      info == Leased(j, th[t].owner) IN
  /\ th[t].pc = "popped"
  /\ run_mutex_free
  /\ row[j].state \in Startable
  /\ ~ row[j].cancel_requested
  /\ row' = [row EXCEPT ![j] = JobRow("RUNNING", info.attempt, info.token, FALSE)]
  /\ running' = [running EXCEPT ![j] = info]
  /\ issued' = [issued EXCEPT ![j] = info.token]
  /\ reason' = [reason EXCEPT ![j] = "None"]
  /\ th' = [th EXCEPT ![t] =
              IF t \in Workers
              THEN Locals("executing", j, t, info.token, info.attempt, FALSE, "none")
              ELSE Idle]
  /\ UNCHANGED <<attempts, queue, outstanding, envVars, ghostVars>>

\* The RUNNING row could not be written: the popped entry is put back.
begin_attempt_requeued(t) ==
  LET j == th[t].job IN
  /\ th[t].pc = "popped"
  /\ run_mutex_free
  /\ StoreMayFail
  /\ row[j].state \in Startable
  /\ ~ row[j].cancel_requested
  /\ Goto(t, "enqueue")
  /\ UNCHANGED <<storeVars, queue, leaseVars, outstanding, envVars, ghostVars>>

begin_attempt(t) ==
  \/ begin_attempt_refused(t)
  \/ begin_attempt_cancelled(t)
  \/ begin_attempt_started(t)
  \/ begin_attempt_requeued(t)
-----------------------------------------------------------------------------
(* finish_attempt *)

BugHoldsAlways(t) == TRUE
BugNoTokenCheck(t) == is_running(th[t].job)
\* The fencing check: this attempt still holds the lease of its job.
holds_lease(t) ==
  /\ is_running(th[t].job)
  /\ running[th[t].job].token = th[t].token

\* How an attempt can end.
Reports == {"SUCCEEDED", "FAILED", "TIMED_OUT", "CANCELLED"}

\* A handler reports success or failure; complete() has a reported status already.
Reported(t) == IF th[t].pc = "executing" THEN {"SUCCEEDED", "FAILED"} ELSE {th[t].outcome}

BugFenceKeepsLease(t) ==
  /\ th[t].pc \in {"executing", "fencing"}
  /\ run_mutex_free
  /\ IF holds_lease(t)
     THEN \E o \in Reported(t) : Proceed(t, "deciding", o)
     ELSE Return(t)
  /\ UNCHANGED <<storeVars, queue, leaseVars, outstanding, envVars, ghostVars>>
\* First section: erase the lease, or drop a stale result.
finish_attempt_fence(t) ==
  /\ th[t].pc \in {"executing", "fencing"}
  /\ run_mutex_free
  /\ IF holds_lease(t)
     THEN /\ running' = [running EXCEPT ![th[t].job] = NoLease]
          /\ \E o \in Reported(t) : Proceed(t, "deciding", o)
     ELSE Return(t) /\ UNCHANGED running
  /\ UNCHANGED <<storeVars, queue, issued, reason, outstanding, envVars, ghostVars>>

BugRetryOneLess(j, attempt, state) ==
  IF attempt + 1 < MaxAttempts[j] THEN "RETRYING" ELSE state
BugRetryOneMore(j, attempt, state) ==
  IF attempt <= MaxAttempts[j] THEN "RETRYING" ELSE state
RetryOr(j, attempt, state) == IF attempt < MaxAttempts[j] THEN "RETRYING" ELSE state

\* The retry / terminal decision.  The cancel reason wins over the reported status.
NextState(j, attempt, ok) ==
  CASE reason[j] = "User"    -> "CANCELLED"
    [] reason[j] = "Timeout" -> RetryOr(j, attempt, "TIMED_OUT")
    [] OTHER -> IF ok THEN "SUCCEEDED" ELSE RetryOr(j, attempt, "FAILED")

AttemptStatus(j, ok) ==
  CASE reason[j] = "User"    -> "CANCELLED"
    [] reason[j] = "Timeout" -> "TIMED_OUT"
    [] OTHER -> IF ok THEN "SUCCEEDED" ELSE "FAILED"

\* append_attempt is INSERT OR REPLACE on (job_id, attempt).
Recorded(rec) ==
  {r \in attempts : r.job # rec.job \/ r.attempt # rec.attempt} \cup {rec}

\* Second section, run_mutex_ released: read the cancel reason, decide, append the
\* attempt record (a failure to write it is only logged).
finish_attempt_record(t) ==
  LET j  == th[t].job
      ok == th[t].outcome = "SUCCEEDED" IN
  /\ th[t].pc = "deciding"
  /\ \E written \in StoreOutcome :
       attempts' = IF written
                   THEN Recorded([job |-> j, attempt |-> th[t].attempt,
                                  status |-> AttemptStatus(j, ok)])
                   ELSE attempts
  /\ Proceed(t, "persisting", NextState(j, th[t].attempt, ok))
  /\ UNCHANGED <<row, queue, leaseVars, outstanding, envVars, ghostVars>>

\* The job as this thread copied it when the attempt began (or complete() loaded it).
FinishedRow(t) ==
  JobRow(th[t].outcome, th[t].attempt, 0, th[t].cancel_requested)

\* Third section: overwrite the row with the thread's own copy; a failed write is
\* only logged.
finish_attempt_persist(t) ==
  /\ th[t].pc = "persisting"
  /\ persist(th[t].job, FinishedRow(t))
  /\ Goto(t, IF th[t].outcome = "RETRYING" THEN "enqueue" ELSE "finished")
  /\ UNCHANGED <<attempts, queue, leaseVars, outstanding, envVars, ghostVars>>

finish_attempt(t) ==
  \/ finish_attempt_fence(t)
  \/ finish_attempt_record(t)
  \/ finish_attempt_persist(t)
  \/ enqueue(t)
  \/ finish_terminal(t)
-----------------------------------------------------------------------------
(* Embedded workers *)

\* worker_loop: pop an entry; after stop(false) the entry is abandoned.
worker_pop(w) ==
  /\ th[w].pc = "idle"
  /\ \E j \in queue :
       /\ queue' = queue \ {j}
       /\ th' = [th EXCEPT ![w] = IF stop_requested /\ ~ drain
                                  THEN At("exited", Nobody, Nobody)
                                  ELSE At("popped", j, w)]
  /\ UNCHANGED <<storeVars, leaseVars, outstanding, envVars, ghostVars>>

\* pop() returns nothing: closed, and whatever is left has not matured.
worker_exit(w) ==
  /\ th[w].pc = "idle"
  /\ queue_closed
  /\ \A j \in queue : row[j].state # "QUEUED"
  /\ Goto(w, "exited")
  /\ UNCHANGED <<storeVars, queue, leaseVars, outstanding, envVars, ghostVars>>
-----------------------------------------------------------------------------
(* Remote workers *)

register_worker(r) ==
  /\ remote_workers[r] = "unregistered"
  /\ run_mutex_free
  /\ remote_workers' = [remote_workers EXCEPT ![r] = "alive"]
  /\ UNCHANGED <<storeVars, queue, leaseVars, outstanding, th, watchVars, mainVars,
                 ghostVars>>

LeaseTime(j, time) == [running[j] EXCEPT !.lease = time]

\* A heartbeat extends every lease the worker holds.
heartbeat_worker(r) ==
  /\ remote_workers[r] # "unregistered"
  /\ run_mutex_free
  /\ remote_workers' = [remote_workers EXCEPT ![r] = "alive"]
  /\ running' = [j \in Jobs |-> IF running[j].owner = r THEN LeaseTime(j, "valid")
                                                        ELSE running[j]]
  /\ UNCHANGED <<storeVars, queue, issued, reason, outstanding, th, watchVars, mainVars,
                 ghostVars>>

\* claim: a sign of life, then a bounded wait on the queue (unless stopping).
claim_arrive(c, r) ==
  /\ th[c].pc = "idle"
  /\ run_mutex_free
  /\ remote_workers[r] # "unregistered"
  /\ remote_workers' = [remote_workers EXCEPT ![r] = "alive"]
  /\ th' = IF stop_requested THEN th
           ELSE [th EXCEPT ![c] = At("polling", Nobody, r)]
  /\ UNCHANGED <<storeVars, queue, leaseVars, outstanding, watchVars, mainVars, ghostVars>>

\* pop_batch with max_jobs = 1, what RemoteWorker::poll_loop asks for.
claim_pop(c) ==
  /\ th[c].pc = "polling"
  /\ \E j \in queue :
       /\ queue' = queue \ {j}
       /\ th' = [th EXCEPT ![c] = At("popped", j, @.owner)]
  /\ UNCHANGED <<storeVars, leaseVars, outstanding, envVars, ghostVars>>

claim_empty(c) ==
  /\ th[c].pc = "polling"
  /\ Return(c)
  /\ UNCHANGED <<storeVars, queue, leaseVars, outstanding, envVars, ghostVars>>

\* complete, first section: only the current holder's report for the current attempt
\* gets through; any other is answered StaleLease.
complete_check(c, r, j, token, attempt, status) ==
  /\ th[c].pc = "idle"
  /\ run_mutex_free
  /\ is_running(j)
  /\ running[j].token = token /\ running[j].owner = r /\ running[j].attempt = attempt
  /\ th' = [th EXCEPT ![c] = Locals("completing", j, r, token, 0, FALSE, status)]
  /\ UNCHANGED <<storeVars, queue, leaseVars, outstanding, envVars, ghostVars>>

\* complete, second section: load the row ...
complete_load(c) ==
  LET j == th[c].job IN
  /\ th[c].pc = "completing"
  /\ th' = [th EXCEPT ![c] = Locals("loaded", j, @.owner, @.token, row[j].attempt,
                                     row[j].cancel_requested, @.outcome)]
  /\ UNCHANGED <<storeVars, queue, leaseVars, outstanding, envVars, ghostVars>>

\* ... then store the reported reason in the attempt's shared cell, over what a cancel() or the
\* watchdog left there; nobody reads that cell any more once a newer lease was issued.
complete_reason(c) ==
  LET j == th[c].job IN
  /\ th[c].pc = "loaded"
  /\ Goto(c, "fencing")
  /\ reason' = IF th[c].token # issued[j] THEN reason
               ELSE [reason EXCEPT ![j] = CASE th[c].outcome = "TIMED_OUT" -> "Timeout"
                                            [] th[c].outcome = "CANCELLED" -> "User"
                                            [] OTHER -> @]
  /\ UNCHANGED <<storeVars, queue, running, issued, outstanding, envVars, ghostVars>>
-----------------------------------------------------------------------------
(* The watchdog *)

\* First section: flag late attempts, collect overdue leases and silent workers.
watchdog_collect ==
  /\ th[Watchdog].pc = "idle"
  /\ run_mutex_free
  /\ \E late \in SUBSET {j \in TimedJobs : is_running(j) /\ reason[j] = "None"} :
       reason' = [j \in Jobs |-> IF j \in late THEN "Timeout" ELSE reason[j]]
  /\ expired' = {j \in Jobs : running[j].lease = "overdue"}
  /\ dead' = {r \in RemoteWorkers : remote_workers[r] = "silent"}
  /\ remote_workers' = [r \in RemoteWorkers |->
                          IF r \in dead' THEN "dead" ELSE remote_workers[r]]
  /\ Goto(Watchdog, "scanning")
  /\ UNCHANGED <<storeVars, queue, running, issued, outstanding, mainVars, ghostVars>>

\* One section per dead worker: every lease it holds is to be expired.
watchdog_owned(r) ==
  /\ th[Watchdog].pc = "scanning"
  /\ run_mutex_free
  /\ r \in dead
  /\ dead' = dead \ {r}
  /\ expired' = expired \cup {j \in Jobs : running[j].owner = r}
  /\ UNCHANGED <<storeVars, queue, leaseVars, outstanding, remote_workers, th, mainVars,
                 ghostVars>>

BugExpireKeepsLease(j) ==
  /\ th[Watchdog].pc = "scanning"
  /\ run_mutex_free
  /\ dead = {} /\ j \in expired
  /\ expired' = expired \ {j}
  /\ row' = IF is_running(j)
            THEN [row EXCEPT ![j] = JobRow("QUEUED", @.attempt, 0, @.cancel_requested)]
            ELSE row
  /\ th' = IF is_running(j) THEN [th EXCEPT ![Watchdog] = At("enqueue", j, Nobody)] ELSE th
  /\ UNCHANGED <<attempts, queue, leaseVars, outstanding, remote_workers, dead,
                 mainVars, ghostVars>>
\* One section per collected job id, whatever lease that id holds by now.
watchdog_expire(j) ==
  /\ th[Watchdog].pc = "scanning"
  /\ run_mutex_free
  /\ dead = {} /\ j \in expired
  /\ expired' = expired \ {j}
  /\ running' = [running EXCEPT ![j] = NoLease]
  /\ IF is_running(j) /\ row[j].state = "RUNNING"
     THEN LET last == row[j].attempt >= MaxAttempts[j] IN
          /\ persist(j, JobRow(IF last THEN "FAILED" ELSE "QUEUED", row[j].attempt,
                               0, row[j].cancel_requested))
          /\ th' = [th EXCEPT ![Watchdog] =
                      At(IF last THEN "finished" ELSE "enqueue", j, Nobody)]
     ELSE UNCHANGED <<row, th>>
  /\ UNCHANGED <<attempts, queue, issued, reason, outstanding, remote_workers, dead,
                 mainVars, ghostVars>>

BugWatchdogNeverExits ==
  /\ th[Watchdog].pc = "scanning"
  /\ dead = {} /\ expired = {}
  /\ Goto(Watchdog, "idle")
  /\ UNCHANGED <<storeVars, queue, leaseVars, outstanding, envVars, ghostVars>>
\* The loop tests stop_requested_ before it sleeps, so one more scan may follow a stop.
watchdog_sleep ==
  /\ th[Watchdog].pc = "scanning"
  /\ dead = {} /\ expired = {}
  /\ Goto(Watchdog, IF stop_requested THEN "exited" ELSE "idle")
  /\ UNCHANGED <<storeVars, queue, leaseVars, outstanding, envVars, ghostVars>>
-----------------------------------------------------------------------------
(* Time *)

lease_overdue(j) ==
  /\ running[j].lease = "valid"
  /\ running' = [running EXCEPT ![j] = LeaseTime(j, "overdue")]
  /\ UNCHANGED <<storeVars, queue, issued, reason, outstanding, envVars, th, ghostVars>>

heartbeat_overdue(r) ==
  /\ remote_workers[r] = "alive"
  /\ remote_workers' = [remote_workers EXCEPT ![r] = "silent"]
  /\ UNCHANGED <<storeVars, queue, leaseVars, outstanding, th, watchVars, mainVars,
                 ghostVars>>
-----------------------------------------------------------------------------
(* stop(drain) on the main thread *)

MainStep(from, to) ==
  /\ main = from /\ main' = to
  /\ UNCHANGED <<storeVars, queue, leaseVars, outstanding, remote_workers, th, watchVars,
                 ghostVars>>

stop_begin(d) ==
  /\ MainStep("serving", IF d THEN "draining" ELSE "stopping")
  /\ drain' = d /\ to_drain' = IF d THEN queue ELSE {}

\* The loop condition reads queue_.size() and running_count() one after the other.
BugDrainIgnoresQueue == MainStep("draining", "counting") /\ UNCHANGED <<drain, to_drain>>
stop_queue_empty ==
  /\ queue = {}
  /\ MainStep("draining", "counting") /\ UNCHANGED <<drain, to_drain>>

stop_still_running ==
  /\ run_mutex_free /\ \E j \in Jobs : is_running(j)
  /\ MainStep("counting", "draining") /\ UNCHANGED <<drain, to_drain>>

stop_drained ==
  /\ run_mutex_free /\ \A j \in Jobs : ~ is_running(j)
  /\ MainStep("counting", "stopping") /\ UNCHANGED <<drain, to_drain>>

stop_deadline ==
  /\ MainStep("draining", "stopping")
  /\ to_drain' = {} /\ UNCHANGED drain

stop_close == MainStep("stopping", "closed") /\ UNCHANGED <<drain, to_drain>>

stop_join ==
  /\ \A t \in Workers \cup {Watchdog} : th[t].pc = "exited"
  /\ MainStep("closed", "stopped") /\ UNCHANGED <<drain, to_drain>>
-----------------------------------------------------------------------------
Init ==
  /\ row = [j \in Jobs |-> JobRow("ABSENT", 0, 0, FALSE)]
  /\ attempts = {}
  /\ queue = {}
  /\ running = [j \in Jobs |-> NoLease]
  /\ issued = [j \in Jobs |-> 0]
  /\ reason = [j \in Jobs |-> "None"]
  /\ outstanding = 0
  /\ remote_workers = [r \in RemoteWorkers |-> "unregistered"]
  /\ th = [t \in Threads |-> Idle]
  /\ expired = {} /\ dead = {}
  /\ main = "serving" /\ drain = FALSE /\ to_drain = {}
  /\ completions = [j \in Jobs |-> 0]
  /\ acked = {}

WorkerStep(w) == worker_pop(w) \/ worker_exit(w) \/ begin_attempt(w) \/ finish_attempt(w)

\* An API call in progress.
ClientStep(c) ==
  \/ submit_insert(c) \/ submit_insert_fails(c)
  \/ cancel_flag(c) \/ cancel_flag_fails(c)
  \/ claim_pop(c) \/ claim_empty(c) \/ begin_attempt(c)
  \/ complete_load(c) \/ complete_reason(c) \/ finish_attempt(c)

\* A new API call.
ClientCall(c) ==
  \/ \E j \in Jobs : submit_reserve(c, j) \/ cancel_load(c, j) \/ cancel_waiting(c, j)
  \/ \E r \in RemoteWorkers : claim_arrive(c, r)
  \/ \E r \in RemoteWorkers, j \in Jobs :
       \E token \in 1..issued[j], attempt \in 1..row[j].attempt, status \in Reports :
         complete_check(c, r, j, token, attempt, status)

RemoteCall(r) == register_worker(r) \/ heartbeat_worker(r)

WatchdogStep ==
  \/ watchdog_collect \/ watchdog_sleep
  \/ \E r \in RemoteWorkers : watchdog_owned(r)
  \/ \E j \in Jobs : watchdog_expire(j)
  \/ enqueue(Watchdog) \/ finish_terminal(Watchdog)

TimePasses ==
  \/ \E j \in Jobs : lease_overdue(j)
  \/ \E r \in RemoteWorkers : heartbeat_overdue(r)

StopProceeds ==
  \/ stop_queue_empty \/ stop_still_running \/ stop_drained \/ stop_deadline
  \/ stop_close \/ stop_join

Stop == (\E d \in BOOLEAN : stop_begin(d)) \/ StopProceeds

\* The engine while it serves, and with a shutdown.
Serve ==
  \/ \E w \in Workers : WorkerStep(w)
  \/ \E c \in Clients : ClientStep(c) \/ ClientCall(c)
  \/ \E r \in RemoteWorkers : RemoteCall(r)
  \/ WatchdogStep
  \/ TimePasses

Next == Serve \/ Stop

ServeSpec == Init /\ [][Serve]_vars
Spec == Init /\ [][Next]_vars
-----------------------------------------------------------------------------
(* Properties *)

Row    == [state : JobStates \cup {"ABSENT"}, attempt : Nat, lease_token : Nat,
           cancel_requested : BOOLEAN]
Lease  == [token : Nat, owner : Owners \cup {Nobody}, attempt : Nat,
           lease : {"none", "valid", "overdue"}]
Labels == {"idle", "insert", "cancelling", "enqueue", "polling", "popped", "executing",
           "completing", "loaded", "fencing", "deciding", "persisting", "finished", "scanning",
           "exited"}
Outcomes == Reports \cup {"none", "RETRYING"}
Local  == [pc : Labels, job : Jobs \cup {Nobody}, owner : Owners \cup {Nobody},
           token : Nat, attempt : Nat, cancel_requested : BOOLEAN, outcome : Outcomes]
Attempt == [job : Jobs, attempt : Nat, status : Reports]

\* Every variable has its type.
TypeOK ==
  /\ row \in [Jobs -> Row]
  /\ attempts \subseteq Attempt
  /\ queue \subseteq Jobs
  /\ running \in [Jobs -> Lease]
  /\ issued \in [Jobs -> Nat]
  /\ reason \in [Jobs -> {"None", "Timeout", "User"}]
  /\ outstanding \in Int
  /\ remote_workers \in [RemoteWorkers -> {"unregistered", "alive", "silent", "dead"}]
  /\ th \in [Threads -> Local]
  /\ expired \subseteq Jobs
  /\ dead \subseteq RemoteWorkers
  /\ main \in {"serving", "draining", "counting", "stopping", "closed", "stopped"}
  /\ drain \in BOOLEAN /\ to_drain \subseteq Jobs
  /\ completions \in [Jobs -> Nat]
  /\ acked \subseteq Jobs

\* An entry of running_ and the job's row agree: the row is RUNNING, for the same
\* attempt, under the same token.  finish_attempt and watchdog_loop act on the entry
\* and then write the row, so each relies on this while the other, cancel() and
\* complete() run between its sections (engine.cpp:310-401, 507-551).
LeaseMatchesRow ==
  \A j \in Jobs : is_running(j) =>
    /\ row[j].state = "RUNNING"
    /\ row[j].lease_token = running[j].token
    /\ row[j].attempt = running[j].attempt

Finishing(t) == th[t].pc \in {"deciding", "persisting"}

\* Past the fencing check of finish_attempt a thread is alone with its job: no other
\* thread finishes it and no attempt of it runs, so the unlocked writes of the attempt
\* record and of the row (engine.cpp:365-386) overwrite no other attempt's work.
FinisherAlone ==
  \A t \in Threads : Finishing(t) =>
    /\ ~ is_running(th[t].job)
    /\ row[th[t].job].state = "RUNNING"
    /\ \A u \in Threads \ {t} : Finishing(u) => th[u].job # th[t].job

\* The states in which a job is given up.
Exhausted == {"FAILED", "TIMED_OUT"}

\* A job gets the attempts it asked for: none beyond max_attempts is started or recorded, and
\* none is given up as FAILED or TIMED_OUT before the last (engine.cpp:346, 352, 524).
AttemptsBounded ==
  /\ \A j \in Jobs : /\ row[j].attempt <= MaxAttempts[j]
                     /\ row[j].state \in Exhausted => row[j].attempt = MaxAttempts[j]
  /\ \A a \in attempts : a.attempt <= MaxAttempts[a.job]

\* Terminal states have no outgoing transitions (REQUIREMENTS.md:120, job.cpp:60).
TerminalAbsorbing ==
  [][\A j \in Jobs : is_terminal(row[j].state) => row'[j].state = row[j].state]_vars

\* What the code does guarantee: no late result, lease expiry or retry changes the state
\* of a finished job, only the write of a cancel() that read the row before the end.
OnlyCancelRevives ==
  [][\A j \in Jobs :
       is_terminal(row[j].state) /\ row'[j].state # row[j].state =>
         /\ row'[j].state = "RUNNING" /\ row'[j].cancel_requested
         /\ \E c \in Clients : th[c].pc = "cancelling" /\ th[c].job = j]_vars

\* The history only grows: INSERT OR REPLACE never replaces a recorded attempt, so no
\* attempt has two results (engine.cpp:365, store.cpp:551-594).
HistoryKept == [][attempts \subseteq attempts']_vars

\* Some thread or table is in charge of taking job j to its next state.
InCharge(j) ==
  CASE row[j].state \in Startable ->
         \/ j \in queue
         \/ \E t \in Threads : th[t].job = j /\ th[t].pc \in {"enqueue", "popped"}
    [] row[j].state = "RUNNING" ->
         is_running(j) \/ \E t \in Threads : th[t].job = j /\ Finishing(t)
    [] OTHER -> TRUE

\* Until the queue is closed by stop(), no accepted job is stranded, unless a client asked
\* to cancel it: a waiting row has its queue entry or a thread that carries it, a RUNNING
\* row has its lease or a thread that is finishing it.
NoLostJob == ~ stop_requested => \A j \in Jobs \ acked : InCharge(j)

\* outstanding_ counts exactly the slots owed: jobs not completed yet, those whose slot is
\* about to be released included, and submissions between reserve_slot and insert_job.
Ending(j) == \E t \in Threads : th[t].pc = "finished" /\ th[t].job = j
Owed(j) == completions[j] = 0 /\ (Live(j) \/ Ending(j))
SlotAccounting ==
  outstanding = Cardinality({j \in Jobs : Owed(j)})
              + Cardinality({t \in Threads : th[t].pc = "insert"})

\* The completion callback runs at most once for a job (engine.hpp:122), and then the job
\* is over unless a client asked to cancel it: no attempt of it runs or is being finished.
CompletedOnce ==
  \A j \in Jobs :
    /\ completions[j] <= 1
    /\ completions[j] = 1 /\ j \notin acked => is_terminal(row[j].state)
    /\ completions[j] = 1 => ~ is_running(j)

\* Every change of a job's state is one is_valid_transition accepts, although no code asks
\* it, except that a job may become RUNNING from a state the table does not list: an
\* attempt starts from SCHEDULED or RETRYING, or a cancel() revives the row (job.hpp:14-15).
ValidTransitions ==
  [][\A j \in Jobs :
       row[j].state # "ABSENT" /\ row'[j].state \notin {row[j].state, "RUNNING"} =>
         is_valid_transition(row[j].state, row'[j].state)]_vars

\* "Every transition in the system goes through is_valid_transition()" (job.hpp:14).
TransitionsInTable ==
  [][\A j \in Jobs :
       row[j].state # "ABSENT" /\ row'[j].state # row[j].state =>
         is_valid_transition(row[j].state, row'[j].state)]_vars

\* cancel() and begin_attempt() never both win for the same job (engine.cpp:165-166):
\* once a cancel was answered Ok, no further attempt of the job starts.
CancelPreventsStart ==
  [][\A j \in Jobs : j \in acked => issued'[j] = issued[j]]_vars

\* A running attempt that was cancelled "is finished by the worker, which will see the User
\* cancel reason" (engine.cpp:178-179): nothing takes the reason back under the same lease.
UserReasonKept ==
  [][\A j \in Jobs :
       reason[j] = "User" /\ issued'[j] = issued[j] => reason'[j] = "User"]_vars

\* Lease expiry applies to remote workers only (engine.cpp:470-471): the watchdog never
\* takes a job from an embedded worker that is executing it.
LocalNeverExpired ==
  [][\A j \in Jobs :
       /\ running[j].owner \in Workers
       /\ \A t \in Threads : th'[t].pc # "deciding" \/ th'[t].job # j
       => running'[j].owner = running[j].owner]_vars

\* stop(true) finishes everything already queued (engine.hpp:85-86), unless its 30 s
\* deadline passes first.
DrainFinishesAll ==
  main = "stopped" => \A j \in to_drain : ~ Live(j)

\* A result is accepted only while the lease has not expired (DESIGN_DECISIONS.md:166).
LateResultRejected ==
  [][\A c \in Clients :
       th[c].pc = "idle" /\ th'[c].pc = "completing" =>
         running[th'[c].job].lease = "valid"]_vars

\* What the code does guarantee when stop() returns.  No embedded worker left an attempt behind:
\* a row still RUNNING is leased to a remote worker, being finished by an API call, or one a
\* client asked to cancel (engine.cpp:579-584, FAILURE_ANALYSIS.md:201).  And a drain within its
\* deadline gave every queued job at least one attempt: what it leaves unfinished waits for a
\* retry, or a client asked to cancel it.
StopLeavesRecoverable ==
  main = "stopped" =>
    /\ \A j \in Jobs : row[j].state = "RUNNING" =>
         \/ running[j].owner \in RemoteWorkers
         \/ \E c \in Clients : th[c].job = j /\ Finishing(c)
         \/ j \in acked
    /\ \A j \in to_drain : Live(j) => row[j].state = "RETRYING" \/ j \in acked
-----------------------------------------------------------------------------
(* The inductive invariant behind LeaseMatchesRow, FinisherAlone,             *)
(* AttemptsBounded, OnlyCancelRevives and HistoryKept.                        *)

\* Every call that works on a job has one; the id being inserted has no row yet and
\* is being inserted by one call only.
CallsInv ==
  \A t \in Threads :
    /\ th[t].pc \notin {"idle", "polling", "scanning", "exited"} => th[t].job \in Jobs
    /\ th[t].pc = "insert" =>
         /\ row[th[t].job].state = "ABSENT"
         /\ \A u \in Threads \ {t} : th[u].pc = "insert" => th[u].job # th[t].job

\* Tokens in use were issued; the lease table holds the newest.
TokensInv ==
  /\ \A j \in Jobs : running[j].token \in {0, issued[j]}
  /\ \A t \in Threads : th[t].token <= IF th[t].job \in Jobs THEN issued[th[t].job] ELSE 0

\* What cancel() read is still true of the attempt when it writes the row back: no attempt
\* starts while it holds run_mutex_, and finish_attempt does not change the number.
CancelInv ==
  /\ \A j \in Jobs : row[j].lease_token <= issued[j]
  /\ \A t \in Threads : th[t].pc = "cancelling" =>
       /\ row[th[t].job].state # "ABSENT"
       /\ th[t].attempt = row[th[t].job].attempt
       /\ is_running(th[t].job) => th[t].token = running[th[t].job].token

\* A thread about to enter finish_attempt with the token of the current lease has the
\* row's attempt number; so has a thread past the fence.  What it finishes with was
\* reported before the decision, and decided, RETRYING only below the limit and FAILED or
\* TIMED_OUT only at it, after it.
AttemptInv ==
  \A t \in Threads :
    /\ th[t].pc \in {"executing", "loaded", "fencing"} /\ holds_lease(t) =>
         th[t].attempt = row[th[t].job].attempt
    /\ Finishing(t) => th[t].attempt = row[th[t].job].attempt
    /\ th[t].pc \in {"completing", "loaded", "fencing", "deciding"} => th[t].outcome \in Reports
    /\ th[t].pc = "persisting" => th[t].outcome # "none"
    /\ th[t].pc = "persisting" /\ th[t].outcome = "RETRYING" =>
         th[t].attempt < MaxAttempts[th[t].job]
    /\ th[t].pc = "persisting" /\ th[t].outcome \in Exhausted =>
         th[t].attempt >= MaxAttempts[th[t].job]

\* A running or undecided attempt has no record yet and no record is ahead of its row.
HistoryInv ==
  /\ \A j \in Jobs : row[j].state = "ABSENT" => row[j].attempt = 0
  /\ \A a \in attempts : a.attempt <= row[a.job].attempt
  /\ \A a \in attempts : is_running(a.job) => a.attempt # row[a.job].attempt
  /\ \A a \in attempts, t \in Threads :
       th[t].pc = "deciding" /\ th[t].job = a.job => a.attempt # th[t].attempt

EngineInv ==
  /\ TypeOK /\ CallsInv /\ TokensInv /\ CancelInv /\ AttemptInv /\ HistoryInv
  /\ LeaseMatchesRow /\ FinisherAlone

\* A job that may start again has an attempt left; one that was given up has none.
LimitInv(limit) ==
  \A j \in Jobs : /\ row[j].attempt <= limit[j]
                  /\ row[j].state \in Startable => row[j].attempt < limit[j]
                  /\ row[j].state \in Exhausted => row[j].attempt >= MaxAttempts[j]

LifecycleInv == EngineInv /\ LimitInv(MaxAttempts)

\* The inductive invariant behind CompletedOnce and SlotAccounting while no write fails.
\* Over(j): the completion callback of j ran, or a thread is about to call it.
Over(j) == completions[j] = 1 \/ Ending(j)

\* One thread calls it, and only once.
CallbackInv ==
  /\ \A j \in Jobs : completions[j] \in {0, 1}
  /\ \A t \in Threads : th[t].pc = "finished" =>
       /\ completions[th[t].job] = 0
       /\ \A u \in Threads \ {t} : th[u].pc = "finished" => th[u].job # th[t].job

\* A job that is over neither waits nor runs; unless a cancel() was acknowledged its row is
\* terminal.  A cancel() about to write to a terminal row finds a job that is over.
OverInv ==
  /\ \A j \in Jobs : Over(j) =>
       /\ row[j].state \notin Startable \cup {"ABSENT"} /\ ~ is_running(j)
       /\ \A t \in Threads : Finishing(t) => th[t].job # j
       /\ j \notin acked => is_terminal(row[j].state)
  /\ \A t \in Threads :
       th[t].pc = "cancelling" /\ is_terminal(row[th[t].job].state) => Over(th[t].job)

SlotInv == CallbackInv /\ OverInv /\ SlotAccounting
-----------------------------------------------------------------------------
(* Liveness *)

\* The operating system schedules every thread, handlers return, and a thread that waits
\* for run_mutex_ while others take and release it gets it in the end (strong fairness).
\* Clients need not make calls, but a call once made is served.
Fairness ==
  /\ \A w \in Workers : SF_vars(WorkerStep(w))
  /\ \A c \in Clients : SF_vars(ClientStep(c))
  /\ SF_vars(WatchdogStep)

\* The main thread runs, and the 30 s of a drain pass however often its loop polls.
FairSpec == Spec /\ Fairness /\ SF_vars(StopProceeds) /\ SF_vars(stop_deadline)

\* While the engine is not stopped every accepted job reaches a terminal state, unless it
\* is in the hands of a remote worker or a client has asked to cancel it.
JobsFinish ==
  \A j \in Jobs :
    Live(j) ~> \/ ~ Live(j)
               \/ main # "serving" \/ j \in acked \/ running[j].owner \in RemoteWorkers

\* Once called, stop() returns: every worker and the watchdog leave their loops
\* (engine.cpp:567-588, NFR-4).
StopTerminates == main # "serving" ~> main = "stopped"
=============================================================================
