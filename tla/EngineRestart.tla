--------------------------- MODULE EngineRestart ----------------------------
(***************************************************************************)
(* JobEngine with crashes of the coordinator and the recovery of           *)
(* JobEngine::recover at the next start.  The store is the direct-write    *)
(* one (group_commit = false): a row is durable when update_job returns,   *)
(* so a crash loses everything in memory and nothing in the tables.        *)
(***************************************************************************)
EXTENDS JobEngine

CONSTANT MaxRestarts   \* bound on the number of crashes

ASSUME RestartAssumption == MaxRestarts \in Nat

VARIABLE restarts

restartVars == <<vars, restarts>>

\* The rows load_non_terminal_jobs returns.
pending == {j \in Jobs : Live(j)}

BugRecoverUncounted(j) ==
  IF row[j].state = "RUNNING"
  THEN JobRow("QUEUED", row[j].attempt - 1, 0, row[j].cancel_requested)
  ELSE row[j]
\* An interrupted attempt goes back to QUEUED; its number stays counted.
RecoveredRow(j) ==
  IF row[j].state = "RUNNING"
  THEN JobRow("QUEUED", row[j].attempt, 0, row[j].cancel_requested)
  ELSE row[j]

BugRecoverWaitingOnly == {{j \in pending : row[j].state \in Startable}}
\* Every pending job is pushed; what exceeds the queue's capacity is dropped.
RecoveredQueue ==
  IF Cardinality(pending) <= MaxOutstanding
  THEN {pending}
  ELSE {q \in SUBSET pending : Cardinality(q) = MaxOutstanding}

BugRecoverTakesNoSlots == 0
RecoveredSlots == Cardinality(pending)

\* A crash at any point, then recover() and start().  Lease tokens are random 64-bit
\* values: those issued before the crash are not issued again.  Remote workers are not
\* reloaded: they are unknown until they register.  completions counts from each start.
crash_and_recover ==
  /\ restarts < MaxRestarts
  /\ restarts' = restarts + 1
  /\ \E written \in [Jobs -> StoreOutcome] :
       row' = [j \in Jobs |-> IF written[j] THEN RecoveredRow(j) ELSE row[j]]
  /\ queue' \in RecoveredQueue
  /\ outstanding' = RecoveredSlots
  /\ running' = [j \in Jobs |-> NoLease]
  /\ reason' = [j \in Jobs |-> "None"]
  /\ remote_workers' = [r \in RemoteWorkers |-> "unregistered"]
  /\ th' = [t \in Threads |-> Idle]
  /\ expired' = {} /\ dead' = {}
  /\ main' = "serving" /\ drain' = FALSE /\ to_drain' = {}
  /\ completions' = [j \in Jobs |-> 0]
  /\ UNCHANGED <<attempts, issued, acked>>

RestartInit == Init /\ restarts = 0
RestartNext == (Serve /\ UNCHANGED restarts) \/ crash_and_recover
RestartSpec == RestartInit /\ [][RestartNext]_restartVars
-----------------------------------------------------------------------------
(* Properties *)

\* What has ended stays as it was.  Terminal jobs are untouched by late results and by recovery
\* (FR-15); only the write of a racing cancel() can touch one.  No recorded attempt is rewritten
\* by the attempt that follows a restart: the interrupted attempt keeps its number
\* (engine.cpp:1019-1020).
HistorySurvives ==
  [][/\ \A j \in Jobs \ acked' : is_terminal(row[j].state) => row'[j].state = row[j].state
     /\ attempts \subseteq attempts']_restartVars

\* AttemptsBounded does not survive a crash: an attempt that is interrupted is requeued even if
\* it was the last.  What the code does guarantee: each restart buys a job one attempt at most,
\* and costs it none, so that no job is given up before the last.
AttemptsPerRestart ==
  \A j \in Jobs : /\ row[j].attempt <= MaxAttempts[j] + restarts
                  /\ row[j].state \in Exhausted => row[j].attempt >= MaxAttempts[j]

\* A lease issued before a crash is never honoured after it: past the fence a thread
\* works for the newest token of its job (engine.cpp:312-322, 960-966).
OldLeasesFenced ==
  \A t \in Threads : Finishing(t) => th[t].token = issued[th[t].job]

\* The inductive invariant behind them: the invariant of the engine survives a crash, with
\* a limit on attempts that grows by one.
RestartLimit == [j \in Jobs |-> MaxAttempts[j] + restarts]

RestartInv ==
  /\ restarts \in Nat
  /\ EngineInv /\ LimitInv(RestartLimit) /\ OldLeasesFenced
=============================================================================
