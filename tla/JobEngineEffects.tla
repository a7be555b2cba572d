------------------------- MODULE JobEngineEffects ---------------------------
(* What a step does: each action has one of the effects of JobEngineMoves     *)
(* while no write to the store fails, and a thread that passes the fence does *)
(* so with the newest token of its job.  And what each effect means for the   *)
(* slots, the completion callbacks and the jobs that nobody looks after.      *)
EXTENDS JobEngineProofs, JobEngineMoves, EngineRestart

LEMMA MovesAt ==
  ASSUME TypeOK, NEW t \in Threads, NEW label, NEW job, NEW owner,
         th' = [th EXCEPT ![t] = At(label, job, owner)]
  PROVE  Moves(t, label, job)
<1>1. th'[t] = At(label, job, owner) /\ \A u \in Threads \ {t} : th'[u] = th[u]
  BY ThreadExcept, Zenon
<1> QED BY <1>1, AtFields DEF Moves

LEMMA MovesLocals ==
  ASSUME TypeOK, NEW t \in Threads, NEW label, NEW job, NEW owner, NEW token, NEW attempt,
         NEW cancel, NEW outcome,
         th' = [th EXCEPT ![t] = Locals(label, job, owner, token, attempt, cancel, outcome)]
  PROVE  Moves(t, label, job)
<1> DEFINE next == Locals(label, job, owner, token, attempt, cancel, outcome)
<1>0. next.pc = label /\ next.job = job
  BY Zenon DEF Locals
<1> HIDE DEF next
<1>1. th'[t] = next /\ \A u \in Threads \ {t} : th'[u] = th[u]
  BY ThreadExcept, Zenon DEF next
<1> QED BY <1>0, <1>1, Zenon DEF Moves

LEMMA MovesGoto ==
  ASSUME TypeOK, NEW t \in Threads, NEW label, Goto(t, label)
  PROVE  Moves(t, label, th[t].job)
BY ProceedFields, Zenon DEF Goto, Moves

LEMMA SettlesReturn ==
  ASSUME TypeOK, NEW t \in Threads, Return(t)
  PROVE  Settles(t)
<1> DEFINE label == IF t = Watchdog THEN "scanning" ELSE "idle"
<1>1. label \in Calm /\ th' = [th EXCEPT ![t] = At(label, Nobody, Nobody)]
  BY Zenon DEF Calm, Return, Home
<1> HIDE DEF label
<1>2. Moves(t, label, Nobody)
  BY <1>1, MovesAt, Zenon
<1> QED BY <1>1, <1>2, Zenon DEF Settles

LEMMA SettlesGoto ==
  ASSUME TypeOK, NEW t \in Threads, NEW label \in Calm, Goto(t, label)
  PROVE  Settles(t)
<1>1. Moves(t, label, th[t].job)
  BY MovesGoto, Zenon
<1>2. th[t].job \in Jobs \cup {Nobody}
  BY ThreadType, Zenon
<1> QED BY <1>1, <1>2, Zenon DEF Settles

\* While no write fails every one takes effect.
LEMMA PersistWrites ==
  ASSUME TypeOK, ~ StoreMayFail, NEW j \in Jobs, NEW r, persist(j, r)
  PROVE  Becomes(j, r.state)
<1>1. row' = [row EXCEPT ![j] = r]
  BY Zenon DEF persist, StoreOutcome, Stored
<1>2. row'[j] = r /\ \A i \in Jobs \ {j} : row'[i] = row[i]
  BY <1>1, RowExcept, Zenon
<1> QED BY <1>2, Zenon DEF Becomes

LEMMA RowBecomes ==
  ASSUME TypeOK, NEW j \in Jobs, NEW r, row' = [row EXCEPT ![j] = r]
  PROVE  Becomes(j, r.state)
<1>2. row'[j] = r /\ \A i \in Jobs \ {j} : row'[i] = row[i]
  BY RowExcept, Zenon
<1> QED BY <1>2, Zenon DEF Becomes

LEMMA NothingMoves ==
  ASSUME row' = row, running' = running
  PROVE  SameRows /\ SameLeases
BY Zenon DEF SameRows, SameLeases, is_running

LEMMA BeginEffect ==
  ASSUME EngineInv, ~ StoreMayFail, NEW t \in Threads, begin_attempt(t)
  PROVE  Refuses(t) \/ CancelsWaiting(t, th[t].job) \/ Starts(t)
<1> USE DEF storeVars, leaseVars, ghostVars, Counts
<1> DEFINE j == th[t].job
<1>0. TypeOK /\ CallsInv
  BY Zenon DEF EngineInv
<1>j. j \in Jobs /\ th[t].pc = "popped"
  BY CallJob, Zenon DEF begin_attempt, begin_attempt_refused, begin_attempt_cancelled,
     begin_attempt_started, begin_attempt_requeued, Jobless
<1>1. CASE begin_attempt_refused(t)
  <2>1. /\ row' = row /\ running' = running /\ Return(t) /\ row[j].state \notin Startable
        /\ UNCHANGED <<completions, outstanding, acked, queue>>
    BY <1>1, Zenon DEF begin_attempt_refused
  <2> QED BY <1>0, <1>j, <2>1, SettlesReturn, NothingMoves, Zenon DEF Refuses
<1>2. CASE begin_attempt_cancelled(t)
  <2> DEFINE r == CancelledRow(j)
  <2>1. /\ running' = running /\ Goto(t, "finished") /\ row[j].state \in Startable
        /\ UNCHANGED <<completions, outstanding, acked, queue>> /\ persist(j, r)
    BY <1>2, Zenon DEF begin_attempt_cancelled
  <2>2. r.state = "CANCELLED"
    BY Zenon DEF CancelledRow, JobRow
  <2> HIDE DEF r
  <2>3. Becomes(j, "CANCELLED") /\ Moves(t, "finished", j)
    BY <1>0, <1>j, <2>1, <2>2, PersistWrites, MovesGoto, Zenon
  <2>4. SameLeases
    BY <2>1, Zenon DEF SameLeases, is_running
  <2> QED BY <1>j, <2>1, <2>3, <2>4, Zenon DEF CancelsWaiting
<1>3. CASE begin_attempt_started(t)
  <2> DEFINE info == Leased(j, th[t].owner)
             r == JobRow("RUNNING", info.attempt, info.token, FALSE)
             next == IF t \in Workers
                     THEN Locals("executing", j, t, info.token, info.attempt, FALSE, "none")
                     ELSE Idle
  <2>1. /\ row[j].state \in Startable /\ row' = [row EXCEPT ![j] = r]
        /\ running' = [running EXCEPT ![j] = info] /\ th' = [th EXCEPT ![t] = next]
        /\ UNCHANGED <<completions, outstanding, acked, queue>>
    BY <1>3, Zenon DEF begin_attempt_started
  <2>2. r.state = "RUNNING" /\ info.token # 0
    <3>1. issued[j] \in Nat
      BY <1>0, <1>j, IssuedType, Zenon
    <3> QED BY <3>1 DEF JobRow, Leased
  <2>3. next.pc \in Calm /\ next.job \in Jobs \cup {Nobody}
    BY <1>j, Zenon DEF Locals, Idle, At, Calm
  <2> HIDE DEF info, r, next
  <2>4. th'[t] = next /\ \A u \in Threads \ {t} : th'[u] = th[u]
    BY <1>0, <2>1, ThreadExcept, Zenon
  <2>5. Settles(t)
    <3>1. Moves(t, next.pc, next.job)
      BY <2>4, Zenon DEF Moves
    <3> QED BY <2>3, <3>1, Zenon DEF Settles
  <2>6. Becomes(j, "RUNNING")
    BY <1>0, <1>j, <2>1, <2>2, RowBecomes, Zenon
  <2>7. running'[j].token # 0 /\ \A i \in Jobs \ {j} : is_running(i)' <=> is_running(i)
    <3>1. running \in [Jobs -> Lease]
      BY <1>0, Zenon DEF TypeOK
    <3> HIDE DEF j
    <3> QED BY <1>j, <2>1, <2>2, <3>1, Zenon DEF is_running
  <2> QED BY <1>j, <2>1, <2>5, <2>6, <2>7, Zenon DEF Starts
<1>4. CASE begin_attempt_requeued(t)
  BY <1>4, Zenon DEF begin_attempt_requeued
<1> QED BY <1>1, <1>2, <1>3, <1>4, Zenon DEF begin_attempt

LEMMA FinishEffect ==
  ASSUME EngineInv, ~ StoreMayFail, NEW t \in Threads, finish_attempt(t)
  PROVE  \/ Quiet \/ Fences(t) \/ Records(t) \/ Pushes(t) \/ Completes(t)
         \/ th[t].job \in Jobs /\ Ends(t, th[t].job)
<1> USE DEF storeVars, leaseVars, ghostVars, Counts
<1> DEFINE j == th[t].job
<1>0. TypeOK /\ CallsInv /\ AttemptInv
  BY Zenon DEF EngineInv
<1>1. CASE finish_attempt_fence(t)
  <2>1. /\ j \in Jobs /\ th[t].pc \in Calm
        /\ row' = row /\ UNCHANGED <<completions, outstanding, acked, queue>>
    BY <1>1, CallJob, Zenon DEF finish_attempt_fence, Jobless, Calm
  <2>2. CASE holds_lease(t)
    <3>1. PICK o : Proceed(t, "deciding", o)
      BY <1>1, <2>2, Zenon DEF finish_attempt_fence
    <3>2. Moves(t, "deciding", j)
      BY <1>0, <3>1, ProceedFields, Zenon DEF Moves
    <3>3. running' = [running EXCEPT ![j] = NoLease] /\ NoLease.token = 0 /\ is_running(j)
      BY <1>1, <2>2, Zenon DEF finish_attempt_fence, NoLease, holds_lease
    <3>4. running \in [Jobs -> Lease]
      BY <1>0, Zenon DEF TypeOK
    <3> HIDE DEF j
    <3>5. Frees(j)
      BY <2>1, <3>3, <3>4, Zenon DEF Frees, is_running
    <3>6. SameRows
      BY <2>1, Zenon DEF SameRows
    <3> QED BY <2>1, <3>2, <3>3, <3>5, <3>6, Zenon DEF Fences, j
  <2>3. CASE ~ holds_lease(t)
    <3>1. Return(t) /\ running' = running
      BY <1>1, <2>3, Zenon DEF finish_attempt_fence
    <3> QED BY <1>0, <2>1, <3>1, SettlesReturn, NothingMoves, Zenon DEF Quiet
  <2> QED BY <2>2, <2>3, Zenon
<1>2. CASE finish_attempt_record(t)
  <2>1. PICK o : Proceed(t, "persisting", o)
    BY <1>2, Zenon DEF finish_attempt_record
  <2>2. Moves(t, "persisting", j)
    BY <1>0, <2>1, ProceedFields, Zenon DEF Moves
  <2>3. /\ th[t].pc = "deciding" /\ row' = row /\ running' = running
        /\ UNCHANGED <<completions, outstanding, acked, queue>>
    BY <1>2, Zenon DEF finish_attempt_record
  <2> QED BY <2>2, <2>3, NothingMoves, Zenon DEF Records
<1>3. CASE finish_attempt_persist(t)
  <2> DEFINE r == FinishedRow(t)
  <2>1. /\ th[t].pc = "persisting" /\ j \in Jobs /\ running' = running /\ persist(j, r)
        /\ UNCHANGED <<completions, outstanding, acked, queue>>
        /\ Goto(t, IF th[t].outcome = "RETRYING" THEN "enqueue" ELSE "finished")
    BY <1>3, CallJob, Zenon DEF finish_attempt_persist, Jobless
  <2>2. r.state = th[t].outcome
    BY Zenon DEF FinishedRow, JobRow
  <2> HIDE DEF r
  <2>3. Becomes(j, th[t].outcome)
    BY <1>0, <2>1, <2>2, PersistWrites, Zenon
  <2>4. SameLeases
    BY <2>1, Zenon DEF SameLeases, is_running
  <2>5. th[t].outcome \in Reports \cup {"RETRYING"}
    BY <1>0, <2>1, ThreadType, Zenon DEF AttemptInv, Outcomes
  <2>6. CASE th[t].outcome = "RETRYING"
    <3>1. Moves(t, "enqueue", j)
      BY <1>0, <2>1, <2>6, MovesGoto, Zenon
    <3> QED BY <2>1, <2>3, <2>4, <2>6, <3>1, Zenon DEF Ends, Startable
  <2>7. CASE th[t].outcome # "RETRYING"
    <3>1. Moves(t, "finished", j)
      BY <1>0, <2>1, <2>7, MovesGoto, Zenon
    <3>2. is_terminal(th[t].outcome)
      BY <2>5, <2>7, Zenon DEF Reports, is_terminal
    <3> QED BY <2>1, <2>3, <2>4, <3>1, <3>2, Zenon DEF Ends
  <2> QED BY <2>6, <2>7, Zenon
<1>4. CASE enqueue(t)
  <2>1. /\ th[t].pc = "enqueue" /\ Return(t) /\ row' = row /\ running' = running
        /\ queue' = Pushed(th[t].job) /\ UNCHANGED <<completions, outstanding, acked>>
    BY <1>4, Zenon DEF enqueue
  <2> QED BY <1>0, <2>1, SettlesReturn, NothingMoves, Zenon DEF Pushes
<1>5. CASE finish_terminal(t)
  <2>1. /\ th[t].pc = "finished" /\ Return(t) /\ row' = row /\ running' = running
        /\ completions' = [completions EXCEPT ![j] = @ + 1]
        /\ outstanding' = outstanding - 1 /\ UNCHANGED <<acked, queue>>
    BY <1>5, Zenon DEF finish_terminal, release_slot
  <2> QED BY <1>0, <2>1, SettlesReturn, NothingMoves, Zenon DEF Completes
<1> QED BY <1>1, <1>2, <1>3, <1>4, <1>5, Zenon DEF finish_attempt

LEMMA ClientStepEffect ==
  ASSUME EngineInv, ~ StoreMayFail, NEW c \in Clients, ClientStep(c)
  PROVE  Effect
<1> USE DEF storeVars, leaseVars, ghostVars, Counts
<1>t. c \in Threads
  BY Zenon DEF Threads
<1>0. TypeOK /\ CallsInv /\ CancelInv
  BY Zenon DEF EngineInv
<1>1. CASE submit_insert(c)
  <2> DEFINE j == th[c].job
  <2>1. PICK s \in {"QUEUED", "SCHEDULED"} : row' = [row EXCEPT ![j] = JobRow(s, 0, 0, FALSE)]
    BY <1>1, Zenon DEF submit_insert
  <2>2. /\ th[c].pc = "insert" /\ Goto(c, "enqueue") /\ running' = running
        /\ UNCHANGED <<completions, outstanding, acked, queue>>
    BY <1>1, Zenon DEF submit_insert
  <2>3. j \in Jobs /\ row[j].state = "ABSENT"
    BY <1>0, <1>t, <2>2, Zenon DEF CallsInv
  <2>4. JobRow(s, 0, 0, FALSE).state = s
    BY Zenon DEF JobRow
  <2>5. Becomes(j, s)
    BY <1>0, <2>1, <2>3, <2>4, RowBecomes, Zenon
  <2>6. Moves(c, "enqueue", j)
    BY <1>0, <1>t, <2>2, MovesGoto, Zenon
  <2>7. SameLeases
    BY <2>2, Zenon DEF SameLeases, is_running
  <2>8. Inserts(c)
    BY <2>2, <2>3, <2>5, <2>6, <2>7, Zenon DEF Inserts
  <2> QED BY <1>t, <2>8, Zenon DEF Effect
<1>2. CASE submit_insert_fails(c) \/ cancel_flag_fails(c)
  BY <1>2, Zenon DEF submit_insert_fails, cancel_flag_fails
<1>3. CASE cancel_flag(c)
  <2> DEFINE j == th[c].job
             r == JobRow("RUNNING", th[c].attempt, th[c].token, TRUE)
  <2>1. /\ th[c].pc = "cancelling" /\ Return(c) /\ running' = running
        /\ row' = [row EXCEPT ![j] = r] /\ acked' = acked \cup {j}
        /\ UNCHANGED <<completions, outstanding, queue>>
    BY <1>3, Zenon DEF cancel_flag
  <2>2. r.state = "RUNNING"
    BY Zenon DEF JobRow
  <2>3. j \in Jobs /\ row[j].state # "ABSENT"
    BY <1>0, <1>t, <2>1, Zenon DEF CallsInv, CancelInv
  <2> HIDE DEF r
  <2>4. Becomes(j, "RUNNING")
    BY <1>0, <2>1, <2>2, <2>3, RowBecomes, Zenon
  <2>5. Settles(c)
    BY <1>0, <1>t, <2>1, SettlesReturn, Zenon
  <2>6. SameLeases
    BY <2>1, Zenon DEF SameLeases, is_running
  <2>7. Flags(c)
    BY <2>1, <2>3, <2>4, <2>5, <2>6, Zenon DEF Flags
  <2> QED BY <1>t, <2>7, Zenon DEF Effect
<1>4. CASE claim_pop(c)
  <2>1. PICK j \in queue : /\ queue' = queue \ {j}
                           /\ th' = [th EXCEPT ![c] = At("popped", j, th[c].owner)]
    BY <1>0, <1>4, <1>t, Zenon DEF claim_pop, TypeOK
  <2>2. /\ th[c].pc \in Calm /\ row' = row /\ running' = running
        /\ UNCHANGED <<completions, outstanding, acked>>
    BY <1>4, Zenon DEF claim_pop, Calm
  <2>3. j \in Jobs /\ Moves(c, "popped", j)
    BY <1>0, <1>t, <2>1, MovesAt, Zenon DEF TypeOK
  <2>4. Pops(c, j)
    BY <2>1, <2>2, <2>3, NothingMoves, Zenon DEF Pops
  <2> QED BY <1>t, <2>3, <2>4, Zenon DEF Effect
<1>5. CASE claim_empty(c)
  <2>1. /\ th[c].pc \in Calm /\ row' = row /\ running' = running /\ Return(c)
        /\ UNCHANGED <<completions, outstanding, acked, queue>>
    BY <1>5, Zenon DEF claim_empty, Calm
  <2>2. Quiet
    BY <1>0, <1>t, <2>1, SettlesReturn, NothingMoves, Zenon DEF Quiet
  <2> QED BY <2>2, Zenon DEF Effect
<1>6. CASE complete_load(c)
  <2>1. /\ th[c].pc \in Calm /\ row' = row /\ running' = running
        /\ UNCHANGED <<completions, outstanding, acked, queue>>
    BY <1>6, Zenon DEF complete_load, Calm
  <2>2. PICK o, token, attempt, cancel, outcome :
          th' = [th EXCEPT ![c] = Locals("loaded", th[c].job, o, token, attempt, cancel,
                                         outcome)]
    BY <1>6, Zenon DEF complete_load
  <2>3. Moves(c, "loaded", th[c].job)
    BY <1>0, <1>t, <2>2, MovesLocals, Zenon
  <2>4. Settles(c)
    BY <1>0, <1>t, <2>3, ThreadType, Zenon DEF Settles, Calm
  <2>5. Quiet
    BY <1>t, <2>1, <2>4, NothingMoves, Zenon DEF Quiet
  <2> QED BY <2>5, Zenon DEF Effect
<1>9. CASE complete_reason(c)
  <2>1. /\ th[c].pc \in Calm /\ row' = row /\ running' = running /\ Goto(c, "fencing")
        /\ UNCHANGED <<completions, outstanding, acked, queue>>
    BY <1>9, Zenon DEF complete_reason, Calm
  <2>2. Moves(c, "fencing", th[c].job)
    BY <1>0, <1>t, <2>1, ProceedFields, Zenon DEF Goto, Moves
  <2>3. Settles(c)
    BY <1>0, <1>t, <2>2, ThreadType, Zenon DEF Settles, Calm
  <2>4. Quiet
    BY <1>t, <2>1, <2>3, NothingMoves, Zenon DEF Quiet
  <2> QED BY <2>4, Zenon DEF Effect
<1>7. CASE begin_attempt(c)
  <2>1. th[c].job \in Jobs
    BY <1>7, <1>t, CallJob, Zenon DEF begin_attempt, begin_attempt_refused,
       begin_attempt_cancelled, begin_attempt_started, begin_attempt_requeued, Jobless
  <2> QED BY <1>7, <1>t, <2>1, BeginEffect, Zenon DEF Effect
<1>8. CASE finish_attempt(c)
  BY <1>8, <1>t, FinishEffect, Zenon DEF Effect
<1> QED BY <1>1, <1>2, <1>3, <1>4, <1>5, <1>6, <1>7, <1>8, <1>9, Zenon DEF ClientStep

LEMMA ClientCallEffect ==
  ASSUME EngineInv, ~ StoreMayFail, NEW c \in Clients, ClientCall(c)
  PROVE  Effect
<1> USE DEF storeVars, leaseVars, ghostVars, Counts
<1>t. c \in Threads
  BY Zenon DEF Threads
<1>0. TypeOK
  BY Zenon DEF EngineInv
<1>1. ASSUME NEW j \in Jobs, submit_reserve(c, j) PROVE Effect
  <2>1. /\ th[c].pc \in Calm /\ row' = row /\ running' = running
        /\ th' = [th EXCEPT ![c] = At("insert", j, Nobody)] /\ outstanding' = outstanding + 1
        /\ UNCHANGED <<completions, acked, queue>>
    BY <1>1, Zenon DEF submit_reserve, reserve_slot, Calm
  <2>2. Moves(c, "insert", j)
    BY <1>0, <1>t, <2>1, MovesAt, Zenon
  <2>3. Reserves(c, j)
    BY <2>1, <2>2, NothingMoves, Zenon DEF Reserves
  <2> QED BY <1>t, <2>3, Zenon DEF Effect
<1>2. ASSUME NEW j \in Jobs, cancel_load(c, j) PROVE Effect
  <2>1. /\ th[c].pc \in Calm /\ row' = row /\ running' = running /\ row[j].state = "RUNNING"
        /\ UNCHANGED <<completions, outstanding, acked, queue>>
        /\ th' = [th EXCEPT ![c] = Locals("cancelling", j, Nobody, row[j].lease_token,
                                          row[j].attempt, TRUE, "none")]
    BY <1>2, Zenon DEF cancel_load, Calm
  <2>2. Moves(c, "cancelling", j)
    BY <1>0, <1>t, <2>1, MovesLocals, Zenon
  <2>3. Cancels(c, j)
    BY <2>1, <2>2, NothingMoves, Zenon DEF Cancels
  <2> QED BY <1>t, <2>3, Zenon DEF Effect
<1>3. ASSUME NEW j \in Jobs, cancel_waiting(c, j) PROVE Effect
  <2> DEFINE r == CancelledRow(j)
  <2>1. PICK ok \in StoreOutcome :
          /\ row' = Stored(j, r, ok)
          /\ th' = IF ok THEN [th EXCEPT ![c] = At("finished", j, Nobody)] ELSE th
          /\ acked' = IF ok THEN acked \cup {j} ELSE acked
    BY <1>3, Zenon DEF cancel_waiting
  <2>2. ok
    BY Zenon DEF StoreOutcome
  <2>3. /\ th[c].pc \in Calm /\ row[j].state \in Startable
        /\ running' = running /\ queue' = queue \ {j} /\ UNCHANGED <<completions, outstanding>>
    BY <1>3, Zenon DEF cancel_waiting, Calm
  <2>4. r.state = "CANCELLED"
    BY Zenon DEF CancelledRow, JobRow
  <2> HIDE DEF r
  <2>5. Becomes(j, "CANCELLED")
    <3>1. row' = [row EXCEPT ![j] = r]
      BY <2>1, <2>2, Zenon DEF Stored
    <3> QED BY <1>0, <2>4, <3>1, RowBecomes, Zenon
  <2>6. Moves(c, "finished", j)
    BY <1>0, <1>t, <2>1, <2>2, MovesAt, Zenon
  <2>7. SameLeases /\ acked \subseteq acked'
    BY <2>1, <2>2, <2>3, Zenon DEF SameLeases, is_running
  <2>8. CancelsWaiting(c, j)
    BY <2>3, <2>5, <2>6, <2>7, Zenon DEF CancelsWaiting
  <2> QED BY <1>t, <2>8, Zenon DEF Effect
<1>4. ASSUME NEW r \in RemoteWorkers, claim_arrive(c, r) PROVE Effect
  <2>1. /\ th[c].pc \in Calm /\ row' = row /\ running' = running
        /\ UNCHANGED <<completions, outstanding, acked, queue>>
        /\ th' = th \/ th' = [th EXCEPT ![c] = At("polling", Nobody, r)]
    BY <1>4, Zenon DEF claim_arrive, Calm
  <2>2. th' = th \/ Moves(c, "polling", Nobody)
    BY <1>0, <1>t, <2>1, MovesAt, Zenon
  <2>3. th' = th \/ Settles(c)
    BY <2>2, Zenon DEF Settles, Calm
  <2>4. Quiet
    BY <1>t, <2>1, <2>3, NothingMoves, Zenon DEF Quiet
  <2> QED BY <2>4, Zenon DEF Effect
<1>5. ASSUME NEW r \in RemoteWorkers, NEW j \in Jobs, NEW token, NEW attempt, NEW status,
             complete_check(c, r, j, token, attempt, status)
      PROVE  Effect
  <2>1. /\ th[c].pc \in Calm /\ row' = row /\ running' = running
        /\ UNCHANGED <<completions, outstanding, acked, queue>>
        /\ th' = [th EXCEPT ![c] = Locals("completing", j, r, token, 0, FALSE, status)]
    BY <1>5, Zenon DEF complete_check, Calm
  <2>2. Moves(c, "completing", j)
    BY <1>0, <1>t, <2>1, MovesLocals, Zenon
  <2>3. Settles(c)
    BY <2>2, Zenon DEF Settles, Calm
  <2>4. Quiet
    BY <1>t, <2>1, <2>3, NothingMoves, Zenon DEF Quiet
  <2> QED BY <2>4, Zenon DEF Effect
<1> QED BY <1>1, <1>2, <1>3, <1>4, <1>5, Zenon DEF ClientCall
LEMMA WorkerEffect ==
  ASSUME EngineInv, ~ StoreMayFail, NEW w \in Workers, WorkerStep(w)
  PROVE  Effect
<1> USE DEF storeVars, leaseVars, ghostVars, Counts
<1>t. w \in Threads
  BY Zenon DEF Threads
<1>0. TypeOK /\ CallsInv
  BY Zenon DEF EngineInv
<1>1. CASE worker_pop(w)
  <2>1. PICK j \in queue :
          /\ queue' = queue \ {j}
          /\ th' = [th EXCEPT ![w] = IF stop_requested /\ ~ drain
                                     THEN At("exited", Nobody, Nobody)
                                     ELSE At("popped", j, w)]
    BY <1>1, Zenon DEF worker_pop
  <2>2. /\ th[w].pc \in Calm /\ row' = row /\ running' = running
        /\ UNCHANGED <<completions, outstanding, acked>>
    BY <1>1, Zenon DEF worker_pop, Calm
  <2>3. j \in Jobs
    BY <1>0, <2>1, Zenon DEF TypeOK
  <2>4. \/ Moves(w, "popped", j)
        \/ stop_requested /\ Moves(w, "exited", Nobody)
    <3>1. CASE stop_requested /\ ~ drain
      <4>1. th' = [th EXCEPT ![w] = At("exited", Nobody, Nobody)]
        BY <2>1, <3>1, Zenon
      <4> QED BY <1>0, <1>t, <3>1, <4>1, MovesAt, Zenon
    <3>2. CASE ~ (stop_requested /\ ~ drain)
      <4>1. th' = [th EXCEPT ![w] = At("popped", j, w)]
        BY <2>1, <3>2, Zenon
      <4> QED BY <1>0, <1>t, <4>1, MovesAt, Zenon
    <3> QED BY <3>1, <3>2, Zenon
  <2>5. Moves(w, "popped", j) \/ (stop_requested /\ Settles(w))
    BY <2>4, Zenon DEF Settles, Calm
  <2>6. Pops(w, j)
    BY <2>1, <2>2, <2>5, NothingMoves, Zenon DEF Pops
  <2> QED BY <1>t, <2>3, <2>6, Zenon DEF Effect
<1>2. CASE worker_exit(w)
  <2>1. /\ th[w].pc \in Calm /\ "exited" \in Calm /\ row' = row /\ running' = running
        /\ Goto(w, "exited") /\ UNCHANGED <<completions, outstanding, acked, queue>>
    BY <1>2, Zenon DEF worker_exit, Calm
  <2>2. Quiet
    BY <1>0, <1>t, <2>1, SettlesGoto, NothingMoves, Zenon DEF Quiet
  <2> QED BY <2>2, Zenon DEF Effect
<1>3. CASE begin_attempt(w)
  <2>1. th[w].job \in Jobs
    BY <1>3, <1>t, CallJob, Zenon DEF begin_attempt, begin_attempt_refused,
       begin_attempt_cancelled, begin_attempt_started, begin_attempt_requeued, Jobless
  <2> QED BY <1>3, <1>t, <2>1, BeginEffect, Zenon DEF Effect
<1>4. CASE finish_attempt(w)
  BY <1>4, <1>t, FinishEffect, Zenon DEF Effect
<1> QED BY <1>1, <1>2, <1>3, <1>4, Zenon DEF WorkerStep

LEMMA ExpireEffect ==
  ASSUME EngineInv, ~ StoreMayFail, NEW j \in Jobs, watchdog_expire(j)
  PROVE  Quiet \/ Ends(Watchdog, j)
<1> USE DEF storeVars, leaseVars, ghostVars, Counts
<1>t. Watchdog \in Threads
  BY Zenon DEF Threads
<1>0. TypeOK /\ LeaseMatchesRow
  BY Zenon DEF EngineInv
<1>1. /\ th[Watchdog].pc \in Calm /\ running' = [running EXCEPT ![j] = NoLease]
      /\ UNCHANGED <<completions, outstanding, acked, queue>>
  BY Zenon DEF watchdog_expire, Calm
<1>2. Frees(j)
  <2>1. running \in [Jobs -> Lease] /\ NoLease.token = 0
    BY <1>0, Zenon DEF TypeOK, NoLease
  <2> QED BY <1>1, <2>1, Zenon DEF Frees, is_running
<1>3. CASE ~ is_running(j)
  <2>1. row' = row /\ th' = th
    BY <1>3, Zenon DEF watchdog_expire
  <2>2. SameRows /\ SameLeases
    BY <1>2, <1>3, <2>1, Zenon DEF SameRows, SameLeases, Frees, is_running
  <2> QED BY <1>1, <2>1, <2>2, Zenon DEF Quiet
<1>4. CASE is_running(j)
  <2> DEFINE last == row[j].attempt >= MaxAttempts[j]
             s == IF last THEN "FAILED" ELSE "QUEUED"
             label == IF last THEN "finished" ELSE "enqueue"
             r == JobRow(s, row[j].attempt, 0, row[j].cancel_requested)
  <2>1. row[j].state = "RUNNING"
    BY <1>0, <1>4, Zenon DEF LeaseMatchesRow
  <2>2. persist(j, r) /\ th' = [th EXCEPT ![Watchdog] = At(label, j, Nobody)]
    BY <1>4, <2>1, Zenon DEF watchdog_expire
  <2>3. r.state = s
    BY Zenon DEF JobRow
  <2>4. \/ label = "finished" /\ s = "FAILED" /\ is_terminal(s)
        \/ label = "enqueue" /\ s = "QUEUED" /\ s \in Startable
    BY Zenon DEF is_terminal, Startable
  <2> HIDE DEF last, s, label, r
  <2>5. Becomes(j, s) /\ Moves(Watchdog, label, j)
    <3>1. Moves(Watchdog, label, j)
      BY <1>0, <1>t, <2>2, MovesAt, Zenon
    <3> QED BY <1>0, <2>2, <2>3, <3>1, PersistWrites, Zenon
  <2> QED BY <1>1, <1>2, <1>4, <2>4, <2>5, Zenon DEF Ends
<1> QED BY <1>3, <1>4, Zenon

LEMMA WatchdogEffect ==
  ASSUME EngineInv, ~ StoreMayFail, WatchdogStep
  PROVE  Effect
<1> USE DEF storeVars, leaseVars, ghostVars, Counts
<1>t. Watchdog \in Threads /\ {"scanning", "idle", "exited"} \subseteq Calm
  BY Zenon DEF Threads, Calm
<1>0. TypeOK /\ CallsInv
  BY Zenon DEF EngineInv
<1>1. CASE watchdog_collect \/ watchdog_sleep
  <2>1. /\ th[Watchdog].pc \in Calm /\ row' = row /\ running' = running
        /\ UNCHANGED <<completions, outstanding, acked, queue>>
        /\ \E label \in {"scanning", "idle", "exited"} : Goto(Watchdog, label)
    BY <1>1, <1>t, Zenon DEF watchdog_collect, watchdog_sleep
  <2>2. Settles(Watchdog)
    BY <1>0, <1>t, <2>1, SettlesGoto, Zenon
  <2>3. Quiet
    BY <1>t, <2>1, <2>2, NothingMoves, Zenon DEF Quiet
  <2> QED BY <2>3, Zenon DEF Effect
<1>2. ASSUME NEW r \in RemoteWorkers, watchdog_owned(r) PROVE Effect
  <2>1. /\ th' = th /\ row' = row /\ running' = running
        /\ UNCHANGED <<completions, outstanding, acked, queue>>
    BY <1>2, Zenon DEF watchdog_owned
  <2>2. Quiet
    BY <2>1, NothingMoves, Zenon DEF Quiet
  <2> QED BY <2>2, Zenon DEF Effect
<1>3. ASSUME NEW j \in Jobs, watchdog_expire(j) PROVE Effect
  BY <1>3, <1>t, ExpireEffect, Zenon DEF Effect
<1>4. CASE enqueue(Watchdog) \/ finish_terminal(Watchdog)
  <2>1. finish_attempt(Watchdog)
    BY <1>4, Zenon DEF finish_attempt
  <2> QED BY <1>t, <2>1, FinishEffect, Zenon DEF Effect
<1> QED BY <1>1, <1>2, <1>3, <1>4, Zenon DEF WatchdogStep

LEMMA OutsideEffect ==
  ASSUME TypeOK, (\E r \in RemoteWorkers : RemoteCall(r)) \/ TimePasses \/ Stop
  PROVE  Quiet
<1> USE DEF storeVars, leaseVars, ghostVars, Counts
<1>1. th' = th /\ row' = row /\ UNCHANGED <<completions, outstanding, acked, queue>>
  BY Zenon DEF RemoteCall, register_worker, heartbeat_worker, TimePasses, lease_overdue,
     heartbeat_overdue, Stop, StopProceeds, MainStep, stop_begin, stop_queue_empty,
     stop_still_running, stop_drained, stop_deadline, stop_close, stop_join
<1>2. \/ running' = running
      \/ \E r \in RemoteWorkers : heartbeat_worker(r)
      \/ \E j \in Jobs : lease_overdue(j)
  BY Zenon DEF RemoteCall, register_worker, TimePasses,
     heartbeat_overdue, Stop, StopProceeds, MainStep, stop_begin, stop_queue_empty,
     stop_still_running, stop_drained, stop_deadline, stop_close, stop_join
<1>3. \A i \in Jobs : running'[i].token = running[i].token
  <2>1. ASSUME NEW r \in RemoteWorkers, heartbeat_worker(r), NEW i \in Jobs
        PROVE  running'[i].token = running[i].token
    BY <2>1, LeaseTimeFields, Zenon DEF heartbeat_worker
  <2>2. ASSUME NEW j \in Jobs, lease_overdue(j), NEW i \in Jobs
        PROVE  running'[i].token = running[i].token
    BY <2>2, LeaseTimeFields, Zenon DEF lease_overdue, TypeOK
  <2> QED BY <1>2, <2>1, <2>2, Zenon
<1> QED BY <1>1, <1>3, Zenon DEF Quiet, SameRows, SameLeases, is_running

LEMMA Effects ==
  ASSUME EngineInv, ~ StoreMayFail, [Next]_vars
  PROVE  Effect
<1>1. CASE Next
  <2>1. TypeOK
    BY Zenon DEF EngineInv
  <2> QED BY <1>1, <2>1, WorkerEffect, ClientStepEffect, ClientCallEffect, WatchdogEffect,
             OutsideEffect, Zenon DEF Next, Serve, Effect
<1>2. CASE UNCHANGED vars
  BY <1>2, NothingMoves, Zenon DEF vars, Effect, Quiet, Counts
<1> QED BY <1>1, <1>2, Zenon

LEMMA StopKept ==
  ASSUME TypeOK, [Next]_vars, stop_requested
  PROVE  stop_requested'
<1> USE DEF envVars, mainVars
<1>1. CASE Stop
  BY <1>1, Zenon DEF stop_requested, Stop, StopProceeds, MainStep, stop_begin, stop_queue_empty,
     stop_still_running, stop_drained, stop_deadline, stop_close, stop_join
<1>2. ASSUME NEW t \in Threads, begin_attempt(t) \/ finish_attempt(t) PROVE main' = main
  BY <1>2, Zenon DEF begin_attempt, begin_attempt_refused, 
     begin_attempt_cancelled, begin_attempt_started, begin_attempt_requeued, finish_attempt,
     finish_attempt_fence, finish_attempt_record, finish_attempt_persist, enqueue, finish_terminal
<1>3. ASSUME NEW w \in Workers, WorkerStep(w) PROVE main' = main
  <2>1. w \in Threads
    BY Zenon DEF Threads
  <2> QED BY <1>2, <1>3, <2>1, Zenon DEF WorkerStep, worker_pop, worker_exit
<1>4. ASSUME NEW c \in Clients, ClientStep(c) PROVE main' = main
  <2>1. c \in Threads
    BY Zenon DEF Threads
  <2> QED BY <1>2, <1>4, <2>1, Zenon DEF ClientStep, submit_insert, submit_insert_fails,
             cancel_flag, cancel_flag_fails, claim_pop, claim_empty, complete_load,
             complete_reason
<1>5. ASSUME NEW c \in Clients, ClientCall(c) PROVE main' = main
  BY <1>5, Zenon DEF ClientCall, submit_reserve, cancel_load, cancel_waiting, claim_arrive,
     complete_check
<1>6. ASSUME WatchdogStep PROVE main' = main
  BY <1>6, Zenon DEF WatchdogStep, watchdog_collect, watchdog_sleep, watchdog_owned,
     watchdog_expire, enqueue, finish_terminal
<1>9. ASSUME TimePasses \/ \E r \in RemoteWorkers : RemoteCall(r) PROVE main' = main
  BY <1>9, Zenon DEF TimePasses, lease_overdue, heartbeat_overdue, RemoteCall,
     register_worker, heartbeat_worker
<1>7. CASE UNCHANGED vars
  BY <1>7, Zenon DEF vars, stop_requested
<1>8. main' = main => stop_requested'
  BY Zenon DEF stop_requested
<1> QED BY <1>1, <1>3, <1>4, <1>5, <1>6, <1>7, <1>8, <1>9, Zenon DEF Next, Serve
-----------------------------------------------------------------------------
(* The fence *)

\* A thread whose step does not end past the fence.
LEMMA FinisherKept ==
  ASSUME TypeOK, NEW t \in Threads, NEW next, next.pc \notin {"deciding", "persisting"},
         th' = [th EXCEPT ![t] = next], NEW u \in Threads, Finishing(u)'
  PROVE  Finishing(u) /\ th'[u] = th[u]
<1>1. th'[t] = next /\ \A v \in Threads \ {t} : th'[v] = th[v]
  BY ThreadExcept, Zenon
<1> QED BY <1>1, Zenon DEF Finishing

LEMMA ReturnKeeps ==
  ASSUME TypeOK, NEW t \in Threads, Return(t), NEW u \in Threads, Finishing(u)'
  PROVE  Finishing(u) /\ th'[u] = th[u]
<1>1. Home(t).pc \notin {"deciding", "persisting"}
  BY AtFields DEF Home
<1> QED BY <1>1, FinisherKept, Zenon DEF Return

LEMMA GotoKeeps ==
  ASSUME TypeOK, NEW t \in Threads, NEW label, label \notin {"deciding", "persisting"},
         Goto(t, label), NEW u \in Threads, Finishing(u)'
  PROVE  Finishing(u) /\ th'[u] = th[u]
<1>1. th'[t].pc = label /\ \A v \in Threads \ {t} : th'[v] = th[v]
  BY ProceedFields, Zenon DEF Goto
<1> QED BY <1>1, Zenon DEF Finishing

\* A thread past the fence was there before, or held the lease of its job.
LEMMA FinisherFrame ==
  ASSUME EngineInv, Next, NEW u \in Threads, Finishing(u)'
  PROVE  /\ th'[u].job = th[u].job /\ th'[u].token = th[u].token
         /\ Finishing(u) \/ (th[u].pc \in {"executing", "fencing"} /\ holds_lease(u))
<1> DEFINE Kept == Finishing(u) /\ th'[u] = th[u]
           Goal == /\ th'[u].job = th[u].job /\ th'[u].token = th[u].token
                   /\ Finishing(u) \/ (th[u].pc \in {"executing", "fencing"} /\ holds_lease(u))
<1>0. TypeOK
  BY Zenon DEF EngineInv
<1>1. ASSUME NEW t \in Threads, finish_attempt(t)
      PROVE  Goal
  <2>1. CASE finish_attempt_fence(t)
    <3>1. CASE holds_lease(t)
      <4>1. PICK o : Proceed(t, "deciding", o)
        BY <2>1, <3>1, Zenon DEF finish_attempt_fence
      <4>2. /\ \A v \in Threads \ {t} : th'[v] = th[v]
            /\ th'[t].job = th[t].job /\ th'[t].token = th[t].token
        BY <1>0, <4>1, ProceedFields, Zenon
      <4>3. th[t].pc \in {"executing", "fencing"}
        BY <2>1, Zenon DEF finish_attempt_fence
      <4>4. CASE u = t
        BY <3>1, <4>2, <4>3, <4>4, Zenon
      <4>5. CASE u # t
        BY <4>2, <4>5, Zenon DEF Finishing
      <4> QED BY <4>4, <4>5, Zenon
    <3>2. CASE ~ holds_lease(t)
      BY <1>0, <2>1, <3>2, ReturnKeeps, Zenon DEF finish_attempt_fence
    <3> QED BY <3>1, <3>2, Zenon
  <2>2. CASE finish_attempt_record(t)
    <3>1. PICK o : Proceed(t, "persisting", o)
      BY <2>2, Zenon DEF finish_attempt_record
    <3>2. /\ \A v \in Threads \ {t} : th'[v] = th[v]
          /\ th'[t].job = th[t].job /\ th'[t].token = th[t].token
      BY <1>0, <3>1, ProceedFields, Zenon
    <3>3. Finishing(t)
      BY <2>2, Zenon DEF finish_attempt_record, Finishing
    <3>4. CASE u = t
      BY <3>2, <3>3, <3>4, Zenon
    <3>5. CASE u # t
      BY <3>2, <3>5, Zenon DEF Finishing
    <3> QED BY <3>4, <3>5, Zenon
  <2>3. CASE finish_attempt_persist(t)
    <3> DEFINE label == IF th[t].outcome = "RETRYING" THEN "enqueue" ELSE "finished"
    <3>1. Goto(t, label) /\ label \notin {"deciding", "persisting"}
      BY <2>3, Zenon DEF finish_attempt_persist
    <3> HIDE DEF label
    <3> QED BY <1>0, <3>1, GotoKeeps, Zenon
  <2>4. CASE enqueue(t) \/ finish_terminal(t)
    BY <1>0, <2>4, ReturnKeeps, Zenon DEF enqueue, finish_terminal
  <2> QED BY <1>1, <2>1, <2>2, <2>3, <2>4, Zenon DEF finish_attempt
<1>2. ASSUME NEW t \in Threads, begin_attempt(t)
      PROVE  Kept
  <2>1. CASE begin_attempt_refused(t)
    BY <1>0, <2>1, ReturnKeeps, Zenon DEF begin_attempt_refused
  <2>2. CASE begin_attempt_cancelled(t)
    <3>1. Goto(t, "finished") /\ "finished" \notin {"deciding", "persisting"}
      BY <2>2, Zenon DEF begin_attempt_cancelled
    <3> QED BY <1>0, <3>1, GotoKeeps, Zenon
  <2>3. CASE begin_attempt_requeued(t)
    <3>1. Goto(t, "enqueue") /\ "enqueue" \notin {"deciding", "persisting"}
      BY <2>3, Zenon DEF begin_attempt_requeued
    <3> QED BY <1>0, <3>1, GotoKeeps, Zenon
  <2>4. CASE begin_attempt_started(t)
    <3>1. PICK token, attempt :
            \/ th' = [th EXCEPT ![t] = Locals("executing", th[t].job, t, token, attempt,
                                              FALSE, "none")]
            \/ th' = [th EXCEPT ![t] = Idle]
      BY <2>4, Zenon DEF begin_attempt_started
    <3>2. /\ Locals("executing", th[t].job, t, token, attempt, FALSE, "none").pc
               \notin {"deciding", "persisting"}
          /\ Idle.pc \notin {"deciding", "persisting"}
      BY Zenon DEF Locals, At, Idle
    <3> QED BY <1>0, <3>1, <3>2, FinisherKept, Zenon
  <2> QED BY <1>2, <2>1, <2>2, <2>3, <2>4, Zenon DEF begin_attempt
<1>3. ASSUME NEW t \in Threads, NEW label, NEW job, NEW owner,
             label \notin {"deciding", "persisting"},
             th' = [th EXCEPT ![t] = At(label, job, owner)]
      PROVE  Kept
  <2>1. At(label, job, owner).pc \notin {"deciding", "persisting"}
    BY <1>3, AtFields
  <2> QED BY <1>0, <1>3, <2>1, FinisherKept, Zenon
<1>4. ASSUME NEW t \in Threads, NEW label, NEW job, NEW owner, NEW token, NEW attempt,
             NEW cancel, NEW outcome, label \notin {"deciding", "persisting"},
             th' = [th EXCEPT ![t] = Locals(label, job, owner, token, attempt, cancel, outcome)]
      PROVE  Kept
  <2>1. Locals(label, job, owner, token, attempt, cancel, outcome).pc
          \notin {"deciding", "persisting"}
    BY <1>4, LocalsFields
  <2> QED BY <1>0, <1>4, <2>1, FinisherKept, Zenon
<1>5. th' = th => Kept
  BY Zenon DEF Finishing
<1> HIDE DEF Kept
<1>6. ASSUME NEW w \in Workers, worker_pop(w) \/ worker_exit(w)
      PROVE  Kept
  <2>0. w \in Threads /\ {"popped", "exited"} \cap {"deciding", "persisting"} = {}
    BY Zenon DEF Threads
  <2>1. CASE worker_pop(w)
    <3>1. PICK j : \/ th' = [th EXCEPT ![w] = At("exited", Nobody, Nobody)]
                   \/ th' = [th EXCEPT ![w] = At("popped", j, w)]
      BY <2>1, Zenon DEF worker_pop
    <3> QED BY <1>3, <2>0, <3>1, Zenon
  <2>2. CASE worker_exit(w)
    BY <1>0, <2>0, <2>2, GotoKeeps, Zenon DEF worker_exit, Kept
  <2> QED BY <1>6, <2>1, <2>2, Zenon
<1>7. ASSUME NEW c \in Clients, ClientStep(c), ~ begin_attempt(c), ~ finish_attempt(c)
      PROVE  Kept
  <2>0. c \in Threads
    BY Zenon DEF Threads
  <2>1. CASE submit_insert(c)
    <3>1. Goto(c, "enqueue") /\ "enqueue" \notin {"deciding", "persisting"}
      BY <2>1, Zenon DEF submit_insert
    <3> QED BY <1>0, <2>0, <3>1, GotoKeeps, Zenon DEF Kept
  <2>2. CASE submit_insert_fails(c) \/ cancel_flag(c) \/ cancel_flag_fails(c) \/ claim_empty(c)
    <3>1. Return(c)
      BY <2>2, Zenon DEF submit_insert_fails, cancel_flag, cancel_flag_fails, claim_empty
    <3> QED BY <1>0, <2>0, <3>1, ReturnKeeps, Zenon DEF Kept
  <2>3. CASE claim_pop(c)
    <3>1. PICK j, o : th' = [th EXCEPT ![c] = At("popped", j, o)]
      BY <1>0, <2>3, Zenon DEF claim_pop, TypeOK
    <3>2. "popped" \notin {"deciding", "persisting"}
      BY Zenon
    <3> QED BY <1>3, <2>0, <3>1, <3>2, Zenon
  <2>4. CASE complete_load(c)
    <3>1. PICK j, o, token, attempt, cancel, outcome :
            th' = [th EXCEPT ![c] = Locals("loaded", j, o, token, attempt, cancel, outcome)]
      BY <2>4, Zenon DEF complete_load
    <3>2. "loaded" \notin {"deciding", "persisting"}
      BY Zenon
    <3> QED BY <1>4, <2>0, <3>1, <3>2, Zenon
  <2>5. CASE complete_reason(c)
    <3>1. Goto(c, "fencing") /\ "fencing" \notin {"deciding", "persisting"}
      BY <2>5, Zenon DEF complete_reason
    <3> QED BY <1>0, <2>0, <3>1, GotoKeeps, Zenon DEF Kept
  <2> QED BY <1>7, <2>1, <2>2, <2>3, <2>4, <2>5, Zenon DEF ClientStep
<1>8. ASSUME NEW c \in Clients, ClientCall(c)
      PROVE  Kept
  <2>0. c \in Threads
    BY Zenon DEF Threads
  <2>1. ASSUME NEW label \in {"insert", "finished", "polling"}, NEW job, NEW owner,
               th' = [th EXCEPT ![c] = At(label, job, owner)]
        PROVE  Kept
    <3>1. label \notin {"deciding", "persisting"}
      BY Zenon
    <3> QED BY <1>3, <2>0, <2>1, <3>1, Zenon
  <2>2. ASSUME NEW j \in Jobs, submit_reserve(c, j) \/ cancel_waiting(c, j)
        PROVE  Kept
    <3>1. \/ th' = th
          \/ th' = [th EXCEPT ![c] = At("insert", j, Nobody)]
          \/ th' = [th EXCEPT ![c] = At("finished", j, Nobody)]
      BY <2>2, Zenon DEF submit_reserve, cancel_waiting
    <3> QED BY <1>5, <2>1, <3>1, Zenon
  <2>3. ASSUME NEW r \in RemoteWorkers, claim_arrive(c, r)
        PROVE  Kept
    <3>1. th' = th \/ th' = [th EXCEPT ![c] = At("polling", Nobody, r)]
      BY <2>3, Zenon DEF claim_arrive
    <3> QED BY <1>5, <2>1, <3>1, Zenon
  <2>4. ASSUME NEW label \in {"cancelling", "completing"}, NEW job, NEW owner, NEW token,
               NEW attempt, NEW cancel, NEW outcome,
               th' = [th EXCEPT ![c] = Locals(label, job, owner, token, attempt, cancel, outcome)]
        PROVE  Kept
    <3>1. label \notin {"deciding", "persisting"}
      BY Zenon
    <3> QED BY <1>4, <2>0, <2>4, <3>1, Zenon
  <2>5. ASSUME NEW j \in Jobs, cancel_load(c, j)
        PROVE  Kept
    BY <2>4, <2>5, Zenon DEF cancel_load
  <2>6. ASSUME NEW r \in RemoteWorkers, NEW j \in Jobs, NEW token, NEW attempt, NEW status,
               complete_check(c, r, j, token, attempt, status)
        PROVE  Kept
    BY <2>4, <2>6, Zenon DEF complete_check
  <2> QED BY <1>8, <2>2, <2>3, <2>5, <2>6, Zenon DEF ClientCall
<1>9. ASSUME WatchdogStep PROVE Goal
  <2>0. Watchdog \in Threads
    BY Zenon DEF Threads
  <2>1. CASE watchdog_collect
    BY <1>0, <2>0, <2>1, GotoKeeps, Zenon DEF watchdog_collect, Kept
  <2>2. CASE watchdog_sleep
    <3> DEFINE label == IF stop_requested THEN "exited" ELSE "idle"
    <3>1. Goto(Watchdog, label) /\ label \notin {"deciding", "persisting"}
      BY <2>2, Zenon DEF watchdog_sleep
    <3> HIDE DEF label
    <3> QED BY <1>0, <2>0, <3>1, GotoKeeps, Zenon DEF Kept
  <2>3. ASSUME NEW r \in RemoteWorkers, watchdog_owned(r) PROVE Kept
    BY <1>5, <2>3, Zenon DEF watchdog_owned
  <2>4. ASSUME NEW j \in Jobs, watchdog_expire(j) PROVE Kept
    <3>1. \/ th' = th
          \/ \E label \in {"finished", "enqueue"} :
               th' = [th EXCEPT ![Watchdog] = At(label, j, Nobody)]
      BY <2>4, Zenon DEF watchdog_expire
    <3> QED BY <1>3, <1>5, <2>0, <3>1, Zenon
  <2> QED BY <1>1, <1>9, <2>0, <2>1, <2>2, <2>3, <2>4, Zenon DEF WatchdogStep, finish_attempt, Kept
<1>10. ASSUME (\E r \in RemoteWorkers : RemoteCall(r)) \/ TimePasses \/ Stop PROVE Goal
  <2>1. th' = th
    BY <1>10, Zenon DEF RemoteCall, register_worker, heartbeat_worker, TimePasses, lease_overdue,
       heartbeat_overdue, Stop, StopProceeds, MainStep, stop_begin, stop_queue_empty,
       stop_still_running, stop_drained, stop_deadline, stop_close, stop_join
  <2> QED BY <1>5, <2>1, Zenon DEF Kept
<1>11. Workers \subseteq Threads /\ Clients \subseteq Threads
  BY SMTT(30) DEF Threads
<1>12. Kept => Goal
  BY Zenon DEF Kept
<1> HIDE DEF Goal
<1>13. ASSUME NEW w \in Workers, WorkerStep(w) PROVE Goal
  BY <1>1, <1>2, <1>6, <1>11, <1>12, <1>13, Zenon DEF WorkerStep
<1>14. ASSUME NEW c \in Clients, ClientStep(c) \/ ClientCall(c) PROVE Goal
  BY <1>1, <1>2, <1>7, <1>8, <1>11, <1>12, <1>14, Zenon
<1>15. Goal
  BY <1>9, <1>10, <1>12, <1>13, <1>14, Zenon DEF Next, Serve
<1> QED BY <1>15, Zenon DEF Goal

\* A step that issues a lease of a job finds its row waiting.
LEMMA IssuedFrame ==
  ASSUME EngineInv, Next, NEW j \in Jobs
  PROVE  issued'[j] = issued[j] \/ row[j].state \in Startable
<1> USE DEF leaseVars
<1>0. TypeOK
  BY Zenon DEF EngineInv
<1>1. ASSUME NEW t \in Threads, begin_attempt(t) \/ finish_attempt(t)
      PROVE  issued' = issued \/ begin_attempt_started(t)
  BY <1>1, Zenon DEF begin_attempt, finish_attempt, begin_attempt_refused,
     begin_attempt_cancelled, begin_attempt_requeued, finish_attempt_fence,
     finish_attempt_record, finish_attempt_persist, enqueue, finish_terminal
<1>2. ASSUME NEW t \in Threads, begin_attempt_started(t)
      PROVE  issued'[j] = issued[j] \/ row[j].state \in Startable
  <2>1. /\ row[th[t].job].state \in Startable
        /\ \E token : issued' = [issued EXCEPT ![th[t].job] = token]
    BY <1>2, Zenon DEF begin_attempt_started
  <2> QED BY <1>0, <2>1, Zenon DEF TypeOK
<1>3. ASSUME NEW w \in Workers, WorkerStep(w)
      PROVE  issued' = issued \/ begin_attempt(w) \/ finish_attempt(w)
  BY <1>3, Zenon DEF WorkerStep, worker_pop, worker_exit
<1>4. ASSUME NEW c \in Clients, ClientStep(c) \/ ClientCall(c)
      PROVE  issued' = issued \/ begin_attempt(c) \/ finish_attempt(c)
  BY <1>4, ZenonT(30) DEF ClientStep, ClientCall, submit_insert, submit_insert_fails, claim_pop,
     claim_empty, complete_load, complete_reason, submit_reserve, cancel_load, cancel_flag,
     cancel_flag_fails, cancel_waiting, claim_arrive, complete_check
<1>5. ASSUME WatchdogStep PROVE issued' = issued
  BY <1>5, Zenon DEF WatchdogStep, watchdog_collect, watchdog_sleep, watchdog_owned,
              watchdog_expire, enqueue, finish_terminal
<1>6. ASSUME (\E r \in RemoteWorkers : RemoteCall(r)) \/ TimePasses \/ Stop
      PROVE  issued' = issued
  BY <1>6, Zenon DEF RemoteCall, register_worker, heartbeat_worker, TimePasses, lease_overdue,
     heartbeat_overdue, Stop, StopProceeds, MainStep, stop_begin, stop_queue_empty,
     stop_still_running, stop_drained, stop_deadline, stop_close, stop_join
<1>7. Workers \subseteq Threads /\ Clients \subseteq Threads
  BY SMTT(30) DEF Threads
<1>8. issued' = issued \/ \E t \in Threads : begin_attempt_started(t)
  BY <1>1, <1>3, <1>4, <1>5, <1>6, <1>7, Zenon DEF Next, Serve
<1> QED BY <1>2, <1>8, Zenon

LEMMA FencedStep ==
  ASSUME EngineInv, OldLeasesFenced, Next
  PROVE  OldLeasesFenced'
<1> SUFFICES ASSUME NEW u \in Threads, Finishing(u)'
             PROVE  th'[u].token = issued'[th'[u].job]
  BY Zenon DEF OldLeasesFenced
<1> DEFINE j == th[u].job
<1>0. TypeOK /\ CallsInv /\ TokensInv /\ LeaseMatchesRow /\ FinisherAlone
  BY Zenon DEF EngineInv
<1>1. /\ th'[u].job = j /\ th'[u].token = th[u].token
      /\ Finishing(u) \/ (th[u].pc \in {"executing", "fencing"} /\ holds_lease(u))
  BY FinisherFrame, Zenon
<1>2. j \in Jobs
  BY <1>0, <1>1, Zenon DEF Finishing, CallsInv
<1>3. th[u].token = issued[j] /\ row[j].state = "RUNNING"
  <2>1. CASE Finishing(u)
    BY <1>0, <2>1, Zenon DEF OldLeasesFenced, FinisherAlone
  <2>2. CASE holds_lease(u)
    BY <1>0, <1>2, <2>2, Zenon DEF holds_lease, is_running, TokensInv, LeaseMatchesRow
  <2> QED BY <1>1, <2>1, <2>2, Zenon
<1>4. issued'[j] = issued[j]
  BY <1>2, <1>3, IssuedFrame, Zenon DEF Startable
<1> QED BY <1>1, <1>3, <1>4, Zenon

-----------------------------------------------------------------------------
(* What the effects keep *)

\* The part of SlotInv that counts nothing.
CompletionInv == CallbackInv /\ OverInv

OwedJobs  == {j \in Jobs : Owed(j)}
Inserting == {t \in Threads : th[t].pc = "insert"}

\* A slot is reserved, goes from a submission to its job, is released, or none of these.
SlotsMove ==
  \/ outstanding' = outstanding /\ OwedJobs' = OwedJobs /\ Inserting' = Inserting
  \/ \E t \in Threads \ Inserting :
       outstanding' = outstanding + 1 /\ OwedJobs' = OwedJobs /\ Inserting' = Inserting \cup {t}
  \/ \E t \in Inserting, j \in Jobs \ OwedJobs :
       /\ outstanding' = outstanding
       /\ OwedJobs' = OwedJobs \cup {j} /\ Inserting' = Inserting \ {t}
  \/ \E j \in OwedJobs :
       outstanding' = outstanding - 1 /\ OwedJobs' = OwedJobs \ {j} /\ Inserting' = Inserting
SlotsFollow == CompletionInv' /\ SlotsMove

\* No call reaches the release of a slot or leaves it.
NoneEnds ==
  /\ completions' = completions
  /\ \A u \in Threads : th'[u] = th[u] \/ (th[u].pc # "finished" /\ th'[u].pc # "finished")
\* Thread t ends the job j.
OneEnds(t, j) ==
  /\ completions' = completions /\ th[t].pc # "finished" /\ Moves(t, "finished", j) /\ ~ Over(j)

LEMMA NoneEndsOver ==
  ASSUME TypeOK, CallbackInv, NoneEnds
  PROVE  CallbackInv' /\ \A i \in Jobs : (Ending(i)' <=> Ending(i)) /\ (Over(i)' <=> Over(i))
<1>1. \A u \in Threads : (th'[u].pc = "finished" <=> th[u].pc = "finished")
                         /\ (th[u].pc = "finished" => th'[u].job = th[u].job)
  BY Zenon DEF NoneEnds
<1>2. completions' = completions
  BY Zenon DEF NoneEnds
<1>3. CallbackInv'
  <2>1. ASSUME NEW u \in Threads, th'[u].pc = "finished"
        PROVE  /\ completions'[th'[u].job] = 0
               /\ \A v \in Threads \ {u} : th'[v].pc = "finished" => th'[v].job # th'[u].job
    <3>1. th[u].pc = "finished" /\ th'[u].job = th[u].job
      BY <1>1, <2>1, Zenon
    <3>2. /\ completions[th[u].job] = 0
          /\ \A v \in Threads \ {u} : th[v].pc = "finished" => th[v].job # th[u].job
      BY <3>1, Zenon DEF CallbackInv
    <3> QED BY <1>1, <1>2, <3>1, <3>2, Zenon
  <2>2. \A i \in Jobs : completions'[i] \in {0, 1}
    BY <1>2, Zenon DEF CallbackInv
  <2> QED BY <2>1, <2>2, Zenon DEF CallbackInv
<1>4. \A i \in Jobs : Ending(i)' <=> Ending(i)
  BY <1>1, Zenon DEF Ending
<1> QED BY <1>2, <1>3, <1>4, Zenon DEF Over

LEMMA OneEndsOver ==
  ASSUME TypeOK, CallbackInv, NEW t \in Threads, NEW j \in Jobs, OneEnds(t, j)
  PROVE  /\ CallbackInv'
         /\ \A i \in Jobs : (Ending(i)' <=> (Ending(i) \/ i = j)) /\ (Over(i)' <=> (Over(i) \/ i = j))
<1>1. /\ th[t].pc # "finished" /\ th'[t].pc = "finished" /\ th'[t].job = j
      /\ \A u \in Threads \ {t} : th'[u] = th[u]
      /\ completions' = completions /\ ~ Over(j)
  BY Zenon DEF OneEnds, Moves
<1>2. \A i \in Jobs : Ending(i)' <=> (Ending(i) \/ i = j)
  BY <1>1, Zenon DEF Ending
<1>3. completions[j] = 0
  BY <1>1, Zenon DEF CallbackInv, Over
<1>4. \A u \in Threads : th[u].pc = "finished" => th[u].job # j
  BY <1>1, Zenon DEF Over, Ending
<1>5. CallbackInv'
  <2>1. ASSUME NEW u \in Threads, th'[u].pc = "finished"
        PROVE  /\ completions'[th'[u].job] = 0
               /\ \A v \in Threads \ {u} : th'[v].pc = "finished" => th'[v].job # th'[u].job
    <3>1. CASE u = t
      BY <1>1, <1>3, <1>4, <3>1, Zenon
    <3>2. CASE u # t
      <4>1. th'[u] = th[u] /\ th[u].pc = "finished" /\ th[u].job # j
        BY <1>1, <1>4, <2>1, <3>2, Zenon
      <4>2. /\ completions[th[u].job] = 0
            /\ \A v \in Threads \ {u} : th[v].pc = "finished" => th[v].job # th[u].job
        BY <4>1, Zenon DEF CallbackInv
      <4> QED BY <1>1, <4>1, <4>2, Zenon
    <3> QED BY <3>1, <3>2, Zenon
  <2>2. \A i \in Jobs : completions'[i] \in {0, 1}
    BY <1>1, Zenon DEF CallbackInv
  <2> QED BY <2>1, <2>2, Zenon DEF CallbackInv
<1> QED BY <1>1, <1>2, <1>5, Zenon DEF Over

LEMMA CompletesOver ==
  ASSUME EngineInv, CallbackInv, NEW t \in Threads, Completes(t)
  PROVE  /\ CallbackInv' /\ th[t].job \in Jobs /\ Ending(th[t].job)
         /\ completions[th[t].job] = 0 /\ completions'[th[t].job] = 1
         /\ \A i \in Jobs \ {th[t].job} : completions'[i] = completions[i] /\ (Ending(i)' <=> Ending(i))
         /\ \A i \in Jobs : Over(i)' <=> Over(i)
<1> DEFINE j == th[t].job
<1>0. TypeOK /\ CallsInv
  BY Zenon DEF EngineInv
<1>1. PICK label \in Calm, job \in Jobs \cup {Nobody} : Moves(t, label, job)
  BY Zenon DEF Completes, Settles
<1>2. /\ th[t].pc = "finished" /\ th'[t].pc # "finished"
      /\ \A u \in Threads \ {t} : th'[u] = th[u]
  BY <1>1, Zenon DEF Completes, Moves, Calm
<1>3. j \in Jobs
  BY <1>0, <1>2, Zenon DEF CallsInv
<1>4. completions[j] = 0 /\ \A u \in Threads \ {t} : th[u].pc = "finished" => th[u].job # j
  BY <1>2, Zenon DEF CallbackInv
<1>5. completions'[j] = 1 /\ \A i \in Jobs \ {j} : completions'[i] = completions[i]
  <2>1. completions \in [Jobs -> Nat] /\ completions' = [completions EXCEPT ![j] = @ + 1]
    BY <1>0, Zenon DEF TypeOK, Completes
  <2> QED BY <1>3, <1>4, <2>1
<1>6. \A i \in Jobs \ {j} : Ending(i)' <=> Ending(i)
  BY <1>2, Zenon DEF Ending
<1>7. CallbackInv'
  <2>1. ASSUME NEW u \in Threads, th'[u].pc = "finished"
        PROVE  /\ completions'[th'[u].job] = 0
               /\ \A v \in Threads \ {u} : th'[v].pc = "finished" => th'[v].job # th'[u].job
    <3>1. u # t /\ th'[u] = th[u] /\ th[u].pc = "finished" /\ th[u].job # j
      BY <1>2, <1>4, <2>1, Zenon
    <3>2. th[u].job \in Jobs /\ completions[th[u].job] = 0
      BY <1>0, <3>1, Zenon DEF CallsInv, CallbackInv
    <3>3. \A v \in Threads \ {u} : th[v].pc = "finished" => th[v].job # th[u].job
      BY <3>1, Zenon DEF CallbackInv
    <3> QED BY <1>2, <1>5, <3>1, <3>2, <3>3, Zenon
  <2>2. \A i \in Jobs : completions'[i] \in {0, 1}
    BY <1>5, Zenon DEF CallbackInv
  <2> QED BY <2>1, <2>2, Zenon DEF CallbackInv
<1>8. Ending(j)
  BY <1>2, Zenon DEF Ending
<1> QED BY <1>3, <1>4, <1>5, <1>6, <1>7, <1>8, Zenon DEF Over

\* What a step may do to a job that is over, and how a job may get over.
OverFrame ==
  /\ acked \subseteq acked'
  /\ \A i \in Jobs :
       /\ Over(i) => Over(i)'
       /\ Over(i)' => \/ Over(i)
                      \/ /\ is_terminal(row'[i].state) /\ running'[i].token = 0
                         /\ \A u \in Threads : Finishing(u)' => th'[u].job # i
       /\ Over(i) => \/ row'[i].state = row[i].state
                     \/ row'[i].state = "RUNNING" /\ i \in acked'
       /\ Over(i) /\ is_running(i)' => is_running(i)
       /\ is_terminal(row'[i].state) => is_terminal(row[i].state) \/ Over(i)'
  /\ \A u \in Threads, i \in Jobs :
       /\ Finishing(u)' /\ th'[u].job = i => (Finishing(u) /\ th[u].job = i) \/ is_running(i)
       /\ th'[u].pc = "cancelling" /\ th'[u].job = i =>
            (th[u].pc = "cancelling" /\ th[u].job = i) \/ row'[i].state = "RUNNING"

LEMMA OverKept ==
  ASSUME CallsInv', OverInv, OverFrame
  PROVE  OverInv'
<1>1. ASSUME NEW i \in Jobs, Over(i)'
      PROVE  /\ row'[i].state \notin Startable \cup {"ABSENT"} /\ running'[i].token = 0
             /\ \A u \in Threads : Finishing(u)' => th'[u].job # i
             /\ i \notin acked' => is_terminal(row'[i].state)
  <2>1. CASE ~ Over(i)
    <3>1. /\ is_terminal(row'[i].state) /\ running'[i].token = 0
          /\ \A u \in Threads : Finishing(u)' => th'[u].job # i
      BY <1>1, <2>1, Zenon DEF OverFrame
    <3> QED BY <3>1, Zenon DEF is_terminal, Startable
  <2>2. CASE Over(i)
    <3>1. /\ row[i].state \notin Startable \cup {"ABSENT"} /\ ~ is_running(i)
          /\ \A u \in Threads : Finishing(u) => th[u].job # i
          /\ i \notin acked => is_terminal(row[i].state)
      BY <2>2, Zenon DEF OverInv
    <3>2. /\ row'[i].state = row[i].state \/ (row'[i].state = "RUNNING" /\ i \in acked')
          /\ acked \subseteq acked' /\ (is_running(i)' => is_running(i))
          /\ \A u \in Threads : Finishing(u)' /\ th'[u].job = i =>
                               (Finishing(u) /\ th[u].job = i) \/ is_running(i)
      BY <2>2, Zenon DEF OverFrame
    <3>3. running'[i].token = 0
      BY <3>1, <3>2, Zenon DEF is_running
    <3>4. "RUNNING" \notin Startable \cup {"ABSENT"}
      BY Zenon DEF Startable
    <3>5. \A u \in Threads : Finishing(u)' => th'[u].job # i
      BY <3>1, <3>2, Zenon
    <3> QED BY <3>1, <3>2, <3>3, <3>4, <3>5, Zenon
  <2> QED BY <2>1, <2>2, Zenon
<1>2. ASSUME NEW u \in Threads, th'[u].pc = "cancelling", is_terminal(row'[th'[u].job].state)
      PROVE  Over(th[u].job)'
  <2>1. PICK i \in Jobs : i = th'[u].job
    BY <1>2, Zenon DEF CallsInv
  <2>2. row'[i].state # "RUNNING" /\ is_terminal(row'[i].state)
    BY <1>2, <2>1, Zenon DEF is_terminal
  <2>3. th[u].pc = "cancelling" /\ th[u].job = i
    BY <1>2, <2>1, <2>2, Zenon DEF OverFrame
  <2>4. is_terminal(row[i].state) => Over(i)
    BY <2>3, Zenon DEF OverInv
  <2>5. Over(i)'
    BY <2>2, <2>4, Zenon DEF OverFrame
  <2> QED BY <2>1, <2>5, Zenon DEF Over, Ending
<1> QED BY <1>1, <1>2, Zenon DEF OverInv, is_running

\* A step in which no job gets over.
LEMMA FrameIntro ==
  ASSUME TypeOK, CallbackInv, NoneEnds, acked \subseteq acked',
         \A i \in Jobs : \/ row'[i].state = row[i].state
                         \/ ~ Over(i) /\ ~ is_terminal(row'[i].state)
                         \/ row'[i].state = "RUNNING" /\ i \in acked',
         \A i \in Jobs : is_running(i)' => is_running(i) \/ ~ Over(i),
         \A u \in Threads : \/ th'[u] = th[u]
                            \/ ~ Finishing(u)' /\ th'[u].pc # "cancelling"
                            \/ Finishing(u) /\ th'[u].job = th[u].job /\ th'[u].pc # "cancelling"
                            \/ is_running(th'[u].job) /\ th'[u].pc # "cancelling"
                            \/ th'[u].pc = "cancelling" /\ row'[th'[u].job].state = "RUNNING"
  PROVE  OverFrame
<1>1. \A i \in Jobs : Over(i)' <=> Over(i)
  BY NoneEndsOver, Zenon
<1>2. ~ is_terminal("RUNNING")
  BY Zenon DEF is_terminal
<1>3. ASSUME NEW u \in Threads, NEW i \in Jobs
      PROVE  /\ Finishing(u)' /\ th'[u].job = i => (Finishing(u) /\ th[u].job = i) \/ is_running(i)
             /\ th'[u].pc = "cancelling" /\ th'[u].job = i =>
                  (th[u].pc = "cancelling" /\ th[u].job = i) \/ row'[i].state = "RUNNING"
  BY <1>3, Zenon DEF Finishing
<1>4. ASSUME NEW i \in Jobs
      PROVE  /\ Over(i) => \/ row'[i].state = row[i].state
                           \/ row'[i].state = "RUNNING" /\ i \in acked'
             /\ Over(i) /\ is_running(i)' => is_running(i)
             /\ is_terminal(row'[i].state) => is_terminal(row[i].state)
  BY <1>2, <1>4, Zenon
<1> QED BY <1>1, <1>3, <1>4, Zenon DEF OverFrame

\* A job owes a slot before and after unless it was inserted, or its slot was released.
LEMMA OwedKept ==
  ASSUME TypeOK, CallbackInv, NoneEnds, \A i \in Jobs : (Live(i)' <=> Live(i)) \/ Over(i)
  PROVE  OwedJobs' = OwedJobs
<1>1. \A i \in Jobs : Ending(i)' <=> Ending(i)
  BY NoneEndsOver, Zenon
<1>2. completions' = completions /\ \A i \in Jobs : completions[i] \in {0, 1}
  BY Zenon DEF NoneEnds, CallbackInv
<1>3. ASSUME NEW i \in Jobs PROVE Owed(i)' <=> Owed(i)
  <2>1. CASE Live(i)' <=> Live(i)
    BY <1>1, <1>2, <2>1, Zenon DEF Owed
  <2>2. CASE Over(i)
    BY <1>1, <1>2, <2>2 DEF Owed, Over
  <2> QED BY <1>3, <2>1, <2>2, Zenon
<1> QED BY <1>3, Zenon DEF OwedJobs

\* A step of thread t that starts, ends and completes nothing.
Keeps(t) ==
  /\ UNCHANGED Counts /\ acked \subseteq acked'
  /\ \A u \in Threads \ {t} : th'[u] = th[u]
  /\ \/ th'[t] = th[t]
     \/ /\ th[t].pc \notin {"finished", "insert"} /\ th'[t].pc \notin {"finished", "insert"}
        /\ \/ ~ Finishing(t)' /\ th'[t].pc # "cancelling"
           \/ Finishing(t) /\ th'[t].job = th[t].job /\ th'[t].pc # "cancelling"
           \/ is_running(th'[t].job) /\ th'[t].pc # "cancelling"
           \/ th'[t].pc = "cancelling" /\ row'[th'[t].job].state = "RUNNING"
  /\ \A i \in Jobs :
       /\ \/ row'[i].state = row[i].state
          \/ ~ Over(i) /\ (Live(i)' <=> Live(i)) /\ ~ is_terminal(row'[i].state)
          \/ row'[i].state = "RUNNING" /\ i \in acked' /\ (Live(i) \/ Over(i))
       /\ is_running(i)' => is_running(i) \/ ~ Over(i)

LEMMA KeepsSlots ==
  ASSUME EngineInv, CallsInv', CompletionInv, NEW t \in Threads, Keeps(t)
  PROVE  SlotsFollow
<1> USE DEF Counts
<1>0. TypeOK /\ CallbackInv /\ OverInv
  BY Zenon DEF EngineInv, CompletionInv
<1>1. completions' = completions /\ outstanding' = outstanding /\ acked \subseteq acked'
  BY Zenon DEF Keeps
<1>2. NoneEnds
  BY <1>1, Zenon DEF Keeps, NoneEnds
<1>3. \A i \in Jobs : \/ row'[i].state = row[i].state
                      \/ ~ Over(i) /\ ~ is_terminal(row'[i].state)
                      \/ row'[i].state = "RUNNING" /\ i \in acked'
  BY Zenon DEF Keeps
<1>4. \A i \in Jobs : is_running(i)' => is_running(i) \/ ~ Over(i)
  BY Zenon DEF Keeps
<1>5. \A u \in Threads : \/ th'[u] = th[u]
                         \/ ~ Finishing(u)' /\ th'[u].pc # "cancelling"
                         \/ Finishing(u) /\ th'[u].job = th[u].job /\ th'[u].pc # "cancelling"
                         \/ is_running(th'[u].job) /\ th'[u].pc # "cancelling"
                         \/ th'[u].pc = "cancelling" /\ row'[th'[u].job].state = "RUNNING"
  BY Zenon DEF Keeps
<1>6. OverFrame
  BY <1>0, <1>1, <1>2, <1>3, <1>4, <1>5, FrameIntro, Zenon
<1>7. Inserting' = Inserting
  BY Zenon DEF Keeps, Inserting
<1>8. OwedJobs' = OwedJobs
  <2>1. ASSUME NEW i \in Jobs PROVE (Live(i)' <=> Live(i)) \/ Over(i)
    <3>1. CASE row'[i].state = row[i].state
      BY <3>1, Zenon DEF Live
    <3>2. CASE row'[i].state = "RUNNING" /\ (Live(i) \/ Over(i))
      BY <3>2, Zenon DEF Live, is_terminal
    <3> QED BY <2>1, <3>1, <3>2, Zenon DEF Keeps
  <2> QED BY <1>0, <1>2, <2>1, OwedKept, Zenon
<1>9. SlotsMove
  BY <1>1, <1>7, <1>8, Zenon DEF SlotsMove
<1> QED BY <1>0, <1>2, <1>6, <1>9, NoneEndsOver, OverKept, Zenon DEF SlotsFollow, CompletionInv

LEMMA SettlesFields ==
  ASSUME NEW t, Settles(t)
  PROVE  /\ th'[t].pc \in Calm /\ \A u \in Threads \ {t} : th'[u] = th[u]
         /\ th'[t].pc \notin {"finished", "insert", "cancelling"} /\ ~ Finishing(t)'
BY Zenon DEF Settles, Moves, Calm, Finishing

LEMMA CalmStep ==
  ASSUME EngineInv, CallsInv', CompletionInv, SameRows, SameLeases, UNCHANGED Counts,
         acked \subseteq acked', NEW t \in Threads, th[t].pc \in Calm \cup {"popped", "enqueue"},
         th'[t].pc \in Calm \cup {"popped"}, \A u \in Threads \ {t} : th'[u] = th[u]
  PROVE  SlotsFollow
<1>1. /\ th[t].pc \notin {"finished", "insert"} /\ th'[t].pc \notin {"finished", "insert"}
      /\ ~ Finishing(t)' /\ th'[t].pc # "cancelling"
  BY Zenon DEF Calm, Finishing
<1>2. \A i \in Jobs : row'[i].state = row[i].state /\ (is_running(i)' => is_running(i))
  BY Zenon DEF SameRows, SameLeases
<1>3. Keeps(t)
  BY <1>1, <1>2, Zenon DEF Keeps
<1> QED BY <1>3, KeepsSlots, Zenon

LEMMA CalmEffects ==
  ASSUME EngineInv, CallsInv', CompletionInv,
         \/ Quiet
         \/ \E t \in Threads : Refuses(t) \/ Pushes(t) \/ \E j \in Jobs : Pops(t, j)
  PROVE  SlotsFollow
<1>1. SameRows /\ SameLeases /\ UNCHANGED Counts /\ acked \subseteq acked'
  BY Zenon DEF Quiet, Refuses, Pushes, Pops
<1>2. ASSUME th' = th PROVE SlotsFollow
  <2>1. Watchdog \in Threads
    BY Zenon DEF Threads
  <2>2. \A i \in Jobs : row'[i].state = row[i].state /\ (is_running(i)' => is_running(i))
    BY <1>1, Zenon DEF SameRows, SameLeases
  <2>3. Keeps(Watchdog)
    BY <1>1, <1>2, <2>2, Zenon DEF Keeps
  <2> QED BY <2>1, <2>3, KeepsSlots, Zenon
<1>3. ASSUME NEW t \in Threads, th[t].pc \in Calm \cup {"popped", "enqueue"},
             Settles(t) \/ \E j \in Jobs : Moves(t, "popped", j)
      PROVE  SlotsFollow
  <2>1. th'[t].pc \in Calm \cup {"popped"} /\ \A u \in Threads \ {t} : th'[u] = th[u]
    BY <1>3, SettlesFields, Zenon DEF Moves
  <2> QED BY <1>1, <1>3, <2>1, CalmStep, Zenon
<1>4. CASE Quiet
  BY <1>2, <1>3, <1>4, Zenon DEF Quiet
<1>5. ASSUME NEW t \in Threads, Refuses(t) \/ Pushes(t) \/ \E j \in Jobs : Pops(t, j)
      PROVE  SlotsFollow
  BY <1>3, <1>5, Zenon DEF Refuses, Pushes, Pops
<1> QED BY <1>4, <1>5, Zenon

LEMMA LabelEffects ==
  ASSUME EngineInv, CallsInv', CompletionInv, NEW t \in Threads,
         Fences(t) \/ Records(t) \/ \E j \in Jobs : Cancels(t, j)
  PROVE  SlotsFollow
<1>0. CallsInv
  BY Zenon DEF EngineInv
<1>1. /\ SameRows /\ UNCHANGED Counts /\ acked \subseteq acked'
      /\ \A u \in Threads \ {t} : th'[u] = th[u]
  BY Zenon DEF Fences, Records, Cancels, Moves
<1>2. \A i \in Jobs : row'[i].state = row[i].state /\ (is_running(i)' => is_running(i))
  BY <1>1, Zenon DEF SameRows, SameLeases, Fences, Records, Cancels, Frees, is_running
<1>3. th[t].pc \notin {"finished", "insert"} /\ th'[t].pc \notin {"finished", "insert"}
  BY Zenon DEF Fences, Records, Cancels, Moves, Calm
<1>4. \/ Finishing(t) /\ th'[t].job = th[t].job /\ th'[t].pc # "cancelling"
      \/ is_running(th'[t].job) /\ th'[t].pc # "cancelling"
      \/ th'[t].pc = "cancelling" /\ row'[th'[t].job].state = "RUNNING"
  BY <1>1, Zenon DEF Fences, Records, Cancels, Moves, Finishing, SameRows
<1>5. Keeps(t)
  BY <1>1, <1>2, <1>3, <1>4, Zenon DEF Keeps
<1> QED BY <1>5, KeepsSlots, Zenon

LEMMA StartsSlots ==
  ASSUME EngineInv, CallsInv', CompletionInv, NEW t \in Threads, Starts(t)
  PROVE  SlotsFollow
<1>0. CallsInv /\ OverInv
  BY Zenon DEF EngineInv, CompletionInv
<1>2. PICK j \in Jobs : j = th[t].job
  BY <1>0, Zenon DEF CallsInv, Starts
<1>1. /\ th[t].pc = "popped" /\ row[j].state \in Startable /\ row'[j].state = "RUNNING"
      /\ \A i \in Jobs \ {j} : row'[i].state = row[i].state /\ (is_running(i)' <=> is_running(i))
      /\ UNCHANGED Counts /\ acked' = acked /\ Settles(t)
  BY <1>2, Zenon DEF Starts, Becomes
<1>3. ~ Over(j)
  BY <1>0, <1>1, <1>2, Zenon DEF OverInv
<1>4. (Live(j)' <=> Live(j)) /\ ~ is_terminal(row'[j].state)
  BY <1>1, Zenon DEF Live, is_terminal, Startable
<1>5. ASSUME NEW i \in Jobs
      PROVE  /\ \/ row'[i].state = row[i].state
                \/ ~ Over(i) /\ (Live(i)' <=> Live(i)) /\ ~ is_terminal(row'[i].state)
             /\ is_running(i)' => is_running(i) \/ ~ Over(i)
  <2>1. CASE i = j
    BY <1>3, <1>4, <2>1, Zenon
  <2>2. CASE i # j
    BY <1>1, <2>2, Zenon
  <2> QED BY <2>1, <2>2, Zenon
<1>6. Keeps(t)
  BY <1>1, <1>5, SettlesFields, Zenon DEF Keeps
<1> QED BY <1>6, KeepsSlots, Zenon

LEMMA FlagsSlots ==
  ASSUME EngineInv, CallsInv', CompletionInv, NEW t \in Threads, Flags(t)
  PROVE  SlotsFollow
<1> DEFINE j == th[t].job
<1>0. TypeOK /\ CallsInv /\ OverInv
  BY Zenon DEF EngineInv, CompletionInv
<1>1. /\ th[t].pc = "cancelling" /\ row[j].state # "ABSENT" /\ row'[j].state = "RUNNING"
      /\ \A i \in Jobs \ {j} : row'[i].state = row[i].state
      /\ SameLeases /\ UNCHANGED Counts /\ acked' = acked \cup {j} /\ Settles(t)
  BY Zenon DEF Flags, Becomes
<1>2. j \in Jobs
  BY <1>0, <1>1, Zenon DEF CallsInv
<1>3. Live(j) \/ Over(j)
  BY <1>0, <1>1, Zenon DEF Live, OverInv
<1>5. ASSUME NEW i \in Jobs
      PROVE  /\ \/ row'[i].state = row[i].state
                \/ row'[i].state = "RUNNING" /\ i \in acked' /\ (Live(i) \/ Over(i))
             /\ is_running(i)' => is_running(i) \/ ~ Over(i)
  BY <1>1, <1>3, Zenon DEF SameLeases
<1>6. Keeps(t)
  BY <1>1, <1>5, SettlesFields, Zenon DEF Keeps
<1> QED BY <1>6, KeepsSlots, Zenon

LEMMA ReservesSlots ==
  ASSUME EngineInv, CallsInv', CompletionInv, NEW t \in Threads, NEW j \in Jobs, Reserves(t, j)
  PROVE  SlotsFollow
<1>0. TypeOK /\ CallbackInv /\ OverInv
  BY Zenon DEF EngineInv, CompletionInv
<1>1. /\ th[t].pc \in Calm /\ th'[t].pc = "insert" /\ \A u \in Threads \ {t} : th'[u] = th[u]
      /\ completions' = completions /\ acked' = acked /\ outstanding' = outstanding + 1
      /\ \A i \in Jobs : row'[i].state = row[i].state /\ (is_running(i)' <=> is_running(i))
  BY Zenon DEF Reserves, Moves, SameRows, SameLeases
<1>2. th[t].pc \notin {"finished", "insert"} /\ ~ Finishing(t)'
  BY <1>1, Zenon DEF Calm, Finishing
<1>3. NoneEnds
  BY <1>1, <1>2, Zenon DEF NoneEnds
<1>4. OverFrame
  BY <1>0, <1>1, <1>2, <1>3, FrameIntro, Zenon
<1>5. OwedJobs' = OwedJobs
  <2>1. \A i \in Jobs : Live(i)' <=> Live(i)
    BY <1>1, Zenon DEF Live
  <2> QED BY <1>0, <1>3, <2>1, OwedKept, Zenon
<1>6. t \notin Inserting /\ Inserting' = Inserting \cup {t}
  BY <1>1, <1>2, Zenon DEF Inserting
<1>7. SlotsMove
  BY <1>1, <1>5, <1>6, Zenon DEF SlotsMove
<1> QED BY <1>0, <1>3, <1>4, <1>7, NoneEndsOver, OverKept, Zenon DEF SlotsFollow, CompletionInv

LEMMA InsertsSlots ==
  ASSUME EngineInv, CallsInv', CompletionInv, NEW t \in Threads, Inserts(t)
  PROVE  SlotsFollow
<1>0. TypeOK /\ CallsInv /\ CallbackInv /\ OverInv
  BY Zenon DEF EngineInv, CompletionInv
<1>j. PICK j \in Jobs : j = th[t].job
  BY <1>0, Zenon DEF CallsInv, Inserts
<1>1. /\ th[t].pc = "insert" /\ th'[t].pc = "enqueue" /\ \A u \in Threads \ {t} : th'[u] = th[u]
      /\ completions' = completions /\ acked' = acked /\ outstanding' = outstanding
      /\ \A i \in Jobs \ {j} : row'[i].state = row[i].state
      /\ row[j].state = "ABSENT" /\ row'[j].state \in {"QUEUED", "SCHEDULED"}
      /\ \A i \in Jobs : is_running(i)' <=> is_running(i)
  BY <1>j, Zenon DEF Inserts, Moves, Becomes, SameLeases, Counts
<1>2. ~ Finishing(t)' /\ ~ Over(j) /\ ~ is_terminal(row'[j].state)
  BY <1>0, <1>1, Zenon DEF OverInv, Finishing, is_terminal
<1>3. NoneEnds
  BY <1>1, Zenon DEF NoneEnds
<1>4. OverFrame
  <2>1. \A i \in Jobs : \/ row'[i].state = row[i].state
                        \/ ~ Over(i) /\ ~ is_terminal(row'[i].state)
    BY <1>1, <1>2, Zenon
  <2>2. \A u \in Threads : th'[u] = th[u] \/ (~ Finishing(u)' /\ th'[u].pc # "cancelling")
    BY <1>1, <1>2, Zenon
  <2> QED BY <1>0, <1>1, <1>3, <2>1, <2>2, FrameIntro, Zenon
<1>5. j \notin OwedJobs /\ OwedJobs' = OwedJobs \cup {j}
  <2>1. \A i \in Jobs : Ending(i)' <=> Ending(i)
    BY <1>0, <1>3, NoneEndsOver, Zenon
  <2>2. ~ Owed(j)
    BY <1>1, <1>2, Zenon DEF Owed, Over, Live
  <2>3. Owed(j)'
    BY <1>0, <1>1, <1>2, Zenon DEF Owed, Over, Live, CallbackInv
  <2>4. \A i \in Jobs \ {j} : Owed(i)' <=> Owed(i)
    BY <1>1, <2>1, Zenon DEF Owed, Live
  <2> QED BY <2>2, <2>3, <2>4, Zenon DEF OwedJobs
<1>6. t \in Inserting /\ Inserting' = Inserting \ {t}
  BY <1>1, Zenon DEF Inserting
<1>7. SlotsMove
  BY <1>1, <1>5, <1>6, Zenon DEF SlotsMove
<1> QED BY <1>0, <1>3, <1>4, <1>7, NoneEndsOver, OverKept, Zenon DEF SlotsFollow, CompletionInv

LEMMA OneEndsSlots ==
  ASSUME EngineInv, CallsInv', CompletionInv, NEW t \in Threads, NEW j \in Jobs, OneEnds(t, j),
         th[t].pc # "insert", outstanding' = outstanding, acked \subseteq acked', Live(j),
         is_terminal(row'[j].state), \A i \in Jobs \ {j} : row'[i].state = row[i].state,
         running'[j].token = 0, \A i \in Jobs : is_running(i)' => is_running(i),
         \A u \in Threads \ {t} : Finishing(u) => th[u].job # j
  PROVE  SlotsFollow
<1>0. TypeOK /\ CallbackInv /\ OverInv
  BY Zenon DEF EngineInv, CompletionInv
<1>1. /\ th[t].pc # "finished" /\ th'[t].pc = "finished" /\ th'[t].job = j
      /\ \A u \in Threads \ {t} : th'[u] = th[u]
      /\ completions' = completions /\ ~ Over(j)
  BY Zenon DEF OneEnds, Moves
<1>2. /\ CallbackInv'
      /\ \A i \in Jobs : (Ending(i)' <=> (Ending(i) \/ i = j)) /\ (Over(i)' <=> (Over(i) \/ i = j))
  BY <1>0, OneEndsOver, Zenon
<1>3. \A u \in Threads : \/ th'[u] = th[u] /\ (Finishing(u) => th'[u].job # j)
                         \/ ~ Finishing(u)' /\ th'[u].pc # "cancelling"
  BY <1>1, Zenon DEF Finishing
<1>4. OverFrame
  <2>1. \A u \in Threads : Finishing(u)' => th'[u].job # j
    BY <1>3, Zenon DEF Finishing
  <2>2. ASSUME NEW u \in Threads, NEW i \in Jobs
        PROVE  /\ Finishing(u)' /\ th'[u].job = i => (Finishing(u) /\ th[u].job = i)
               /\ th'[u].pc = "cancelling" /\ th'[u].job = i =>
                    (th[u].pc = "cancelling" /\ th[u].job = i)
    BY <1>3, <2>2, Zenon DEF Finishing
  <2>3. ASSUME NEW i \in Jobs
        PROVE  /\ Over(i) => Over(i)'
               /\ Over(i)' => \/ Over(i)
                              \/ /\ is_terminal(row'[i].state) /\ running'[i].token = 0
                                 /\ \A u \in Threads : Finishing(u)' => th'[u].job # i
               /\ Over(i) => row'[i].state = row[i].state
               /\ Over(i) /\ is_running(i)' => is_running(i)
               /\ is_terminal(row'[i].state) => is_terminal(row[i].state) \/ Over(i)'
    <3>1. CASE i = j
      BY <1>1, <1>2, <2>1, <3>1, Zenon
    <3>2. CASE i # j
      BY <1>2, <3>2, Zenon
    <3> QED BY <3>1, <3>2, Zenon
  <2> QED BY <2>2, <2>3, ZenonT(60) DEF OverFrame
<1>5. OwedJobs' = OwedJobs
  <2>1. completions[j] = 0
    BY <1>0, <1>1, Zenon DEF CallbackInv, Over
  <2>2. Owed(j) /\ Owed(j)'
    BY <1>1, <1>2, <2>1, Zenon DEF Owed
  <2>3. \A i \in Jobs \ {j} : Owed(i)' <=> Owed(i)
    BY <1>1, <1>2, Zenon DEF Owed, Live
  <2>4. \A i \in Jobs : Owed(i)' <=> Owed(i)
    BY <2>2, <2>3, Zenon
  <2> QED BY <2>4, Zenon DEF OwedJobs
<1>6. Inserting' = Inserting
  <2>1. \A u \in Threads : th'[u].pc = "insert" <=> th[u].pc = "insert"
    BY <1>1, Zenon
  <2> QED BY <2>1, Zenon DEF Inserting
<1>7. SlotsMove
  BY <1>5, <1>6, Zenon DEF SlotsMove
<1> QED BY <1>0, <1>2, <1>4, <1>7, OverKept, Zenon DEF SlotsFollow, CompletionInv

LEMMA CancelsWaitingSlots ==
  ASSUME EngineInv, CallsInv', CompletionInv, NEW t \in Threads, NEW j \in Jobs, CancelsWaiting(t, j)
  PROVE  SlotsFollow
<1>0. LeaseMatchesRow /\ FinisherAlone /\ OverInv
  BY Zenon DEF EngineInv, CompletionInv
<1>1. /\ th[t].pc \notin {"finished", "insert"} /\ Moves(t, "finished", j)
      /\ row[j].state \in Startable /\ row'[j].state = "CANCELLED"
      /\ \A i \in Jobs \ {j} : row'[i].state = row[i].state
      /\ acked \subseteq acked' /\ SameLeases
      /\ completions' = completions /\ outstanding' = outstanding
  BY Zenon DEF CancelsWaiting, Calm, Becomes, Counts
<1>2. row[j].state # "RUNNING" /\ Live(j) /\ is_terminal(row'[j].state)
  BY <1>1, Zenon DEF Startable, Live, is_terminal
<1>3. ~ is_running(j) /\ \A u \in Threads : Finishing(u) => th[u].job # j
  BY <1>0, <1>2, Zenon DEF LeaseMatchesRow, FinisherAlone
<1>4. running'[j].token = 0 /\ \A i \in Jobs : is_running(i)' => is_running(i)
  BY <1>1, <1>3, Zenon DEF SameLeases, is_running
<1>5. ~ Over(j)
  BY <1>0, <1>1, Zenon DEF OverInv
<1>6. OneEnds(t, j)
  BY <1>1, <1>5, Zenon DEF OneEnds
<1> QED BY <1>1, <1>2, <1>3, <1>4, <1>6, OneEndsSlots, Zenon

\* The thread in charge of the end of an attempt is alone with a job that is not over.
LEMMA EndsAlone ==
  ASSUME EngineInv, OverInv, NEW t \in Threads, NEW j \in Jobs, Ends(t, j)
  PROVE  /\ row[j].state = "RUNNING" /\ ~ Over(j) /\ th[t].pc \notin {"finished", "insert"}
         /\ running'[j].token = 0 /\ \A i \in Jobs : is_running(i)' => is_running(i)
         /\ \A u \in Threads \ {t} : Finishing(u) => th[u].job # j
<1>0. LeaseMatchesRow /\ FinisherAlone
  BY Zenon DEF EngineInv
<1>1. CASE th[t].pc = "persisting" /\ th[t].job = j /\ SameLeases
  <2>1. Finishing(t)
    BY <1>1, Zenon DEF Finishing
  <2>2. /\ ~ is_running(j) /\ row[j].state = "RUNNING"
        /\ \A u \in Threads \ {t} : Finishing(u) => th[u].job # j
    BY <1>0, <1>1, <2>1, Zenon DEF FinisherAlone
  <2>3. ~ Over(j)
    BY <1>1, <2>1, Zenon DEF OverInv
  <2>4. running'[j].token = 0 /\ \A i \in Jobs : is_running(i)' => is_running(i)
    BY <1>1, <2>2, Zenon DEF SameLeases, is_running
  <2> QED BY <1>1, <2>2, <2>3, <2>4, Zenon
<1>2. CASE th[t].pc \in Calm /\ is_running(j) /\ Frees(j)
  <2>1. row[j].state = "RUNNING" /\ \A u \in Threads : Finishing(u) => th[u].job # j
    BY <1>0, <1>2, Zenon DEF LeaseMatchesRow, FinisherAlone
  <2>2. ~ Over(j) /\ th[t].pc \notin {"finished", "insert"}
    BY <1>2, Zenon DEF OverInv, Calm
  <2>3. running'[j].token = 0 /\ \A i \in Jobs : is_running(i)' => is_running(i)
    BY <1>2, Zenon DEF Frees, is_running
  <2> QED BY <2>1, <2>2, <2>3, Zenon
<1> QED BY <1>1, <1>2, Zenon DEF Ends

LEMMA EndsSlots ==
  ASSUME EngineInv, CallsInv', CompletionInv, NEW t \in Threads, NEW j \in Jobs, Ends(t, j)
  PROVE  SlotsFollow
<1>0. OverInv
  BY Zenon DEF CompletionInv
<1>1. /\ row[j].state = "RUNNING" /\ ~ Over(j) /\ th[t].pc \notin {"finished", "insert"}
      /\ running'[j].token = 0 /\ \A i \in Jobs : is_running(i)' => is_running(i)
      /\ \A u \in Threads \ {t} : Finishing(u) => th[u].job # j
  BY <1>0, EndsAlone, Zenon
<1>2. completions' = completions /\ outstanding' = outstanding /\ acked' = acked
  BY Zenon DEF Ends, Counts
<1>3. Live(j)
  BY <1>1, Zenon DEF Live, is_terminal
<1>4. ASSUME NEW s \in Startable, Becomes(j, s), Moves(t, "enqueue", j) PROVE SlotsFollow
  <2>1. /\ row'[j].state = s /\ \A i \in Jobs \ {j} : row'[i].state = row[i].state
        /\ th'[t].pc = "enqueue" /\ \A u \in Threads \ {t} : th'[u] = th[u]
    BY <1>4, Zenon DEF Becomes, Moves
  <2>2. Live(j)' /\ ~ is_terminal(row'[j].state) /\ ~ Finishing(t)'
    BY <2>1, Zenon DEF Live, is_terminal, Startable, Finishing
  <2>3. ASSUME NEW i \in Jobs
        PROVE  /\ \/ row'[i].state = row[i].state
                  \/ ~ Over(i) /\ (Live(i)' <=> Live(i)) /\ ~ is_terminal(row'[i].state)
               /\ is_running(i)' => is_running(i) \/ ~ Over(i)
    <3>1. CASE i = j
      BY <1>1, <1>3, <2>2, <3>1, Zenon
    <3>2. CASE i # j
      BY <1>1, <2>1, <3>2, Zenon
    <3> QED BY <3>1, <3>2, Zenon
  <2>4. Keeps(t)
    <3>1. UNCHANGED Counts /\ acked \subseteq acked' /\ th'[t].pc \notin {"finished", "insert"}
      BY <1>2, <2>1, Zenon DEF Counts
    <3>2. th'[t].pc # "cancelling"
      BY <2>1, Zenon
    <3> QED BY <1>1, <2>1, <2>2, <2>3, <3>1, <3>2, Zenon DEF Keeps
  <2> QED BY <2>4, KeepsSlots, Zenon
<1>5. ASSUME NEW s, Becomes(j, s), is_terminal(s), Moves(t, "finished", j) PROVE SlotsFollow
  <2>1. OneEnds(t, j)
    <3>1. th[t].pc # "finished"
      BY <1>1, Zenon
    <3> QED BY <1>1, <1>2, <1>5, <3>1, Zenon DEF OneEnds
  <2>2. is_terminal(row'[j].state) /\ \A i \in Jobs \ {j} : row'[i].state = row[i].state
    BY <1>5, Zenon DEF Becomes
  <2>3. th[t].pc # "insert" /\ acked \subseteq acked'
    BY <1>1, <1>2, Zenon
  <2> QED BY <1>1, <1>2, <1>3, <2>1, <2>2, <2>3, OneEndsSlots, Zenon
<1> QED BY <1>4, <1>5, Zenon DEF Ends

LEMMA CompletesSlots ==
  ASSUME EngineInv, CallsInv', CompletionInv, NEW t \in Threads, Completes(t)
  PROVE  SlotsFollow
<1>0. TypeOK /\ CallbackInv /\ OverInv
  BY Zenon DEF EngineInv, CompletionInv
<1>1. /\ CallbackInv' /\ th[t].job \in Jobs /\ Ending(th[t].job)
      /\ completions[th[t].job] = 0 /\ completions'[th[t].job] = 1
      /\ \A i \in Jobs \ {th[t].job} : completions'[i] = completions[i] /\ (Ending(i)' <=> Ending(i))
      /\ \A i \in Jobs : Over(i)' <=> Over(i)
  BY <1>0, CompletesOver, Zenon
<1>2. PICK j \in Jobs : j = th[t].job
  BY <1>1, Zenon
<1>3. /\ th[t].pc = "finished" /\ Settles(t) /\ outstanding' = outstanding - 1 /\ acked' = acked
      /\ \A i \in Jobs : row'[i].state = row[i].state /\ (is_running(i)' <=> is_running(i))
  BY Zenon DEF Completes, SameRows, SameLeases
<1>4. \A u \in Threads : \/ th'[u] = th[u]
                         \/ ~ Finishing(u)' /\ th'[u].pc \notin {"cancelling", "insert"}
  BY <1>3, SettlesFields, Zenon
<1>5. OverFrame
  <2>1. \A u \in Threads, i \in Jobs :
          /\ Finishing(u)' /\ th'[u].job = i => (Finishing(u) /\ th[u].job = i)
          /\ th'[u].pc = "cancelling" /\ th'[u].job = i =>
               (th[u].pc = "cancelling" /\ th[u].job = i)
    BY <1>4, Zenon DEF Finishing
  <2> QED BY <1>1, <1>3, <2>1, Zenon DEF OverFrame
<1>6. j \in OwedJobs /\ OwedJobs' = OwedJobs \ {j}
  <2>1. Owed(j) /\ ~ Owed(j)'
    <3>1. Ending(j) /\ completions[j] = 0 /\ completions'[j] = 1
      BY <1>1, <1>2, Zenon
    <3> QED BY <3>1 DEF Owed
  <2>2. \A i \in Jobs \ {j} : Owed(i)' <=> Owed(i)
    BY <1>1, <1>2, <1>3, Zenon DEF Owed, Live
  <2> QED BY <2>1, <2>2, Zenon DEF OwedJobs
<1>7. Inserting' = Inserting
  <2>1. th'[t].pc # "insert" /\ \A u \in Threads \ {t} : th'[u] = th[u]
    BY <1>3, SettlesFields, Zenon
  <2> QED BY <1>3, <2>1, Zenon DEF Inserting
<1>8. SlotsMove
  BY <1>3, <1>6, <1>7, Zenon DEF SlotsMove
<1> QED BY <1>0, <1>1, <1>5, <1>8, OverKept, Zenon DEF SlotsFollow, CompletionInv

LEMMA SlotStep ==
  ASSUME EngineInv, EngineInv', CompletionInv, Effect
  PROVE  SlotsFollow
<1>1. CallsInv'
  BY Zenon DEF EngineInv
<1>2. CASE Quiet
  BY <1>1, <1>2, CalmEffects, Zenon
<1>3. ASSUME NEW t \in Threads, NEW j \in Jobs,
             \/ Pops(t, j) \/ Reserves(t, j) \/ Cancels(t, j) \/ CancelsWaiting(t, j) \/ Ends(t, j)
      PROVE  SlotsFollow
  <2>1. CASE Pops(t, j) \/ Cancels(t, j)
    BY <1>1, <2>1, CalmEffects, LabelEffects, Zenon
  <2>2. CASE Reserves(t, j) \/ CancelsWaiting(t, j) \/ Ends(t, j)
    BY <1>1, <2>2, ReservesSlots, CancelsWaitingSlots, EndsSlots, Zenon
  <2> QED BY <1>3, <2>1, <2>2, Zenon
<1>4. ASSUME NEW t \in Threads,
             \/ Refuses(t) \/ Pushes(t) \/ Inserts(t) \/ Flags(t) \/ Starts(t) \/ Fences(t)
             \/ Records(t) \/ Completes(t)
      PROVE  SlotsFollow
  <2>1. CASE Refuses(t) \/ Pushes(t) \/ Fences(t) \/ Records(t)
    BY <1>1, <2>1, CalmEffects, LabelEffects, Zenon
  <2>2. CASE Inserts(t) \/ Flags(t) \/ Starts(t) \/ Completes(t)
    BY <1>1, <2>2, InsertsSlots, FlagsSlots, StartsSlots, CompletesSlots, Zenon
  <2> QED BY <1>4, <2>1, <2>2, Zenon
<1> QED BY <1>2, <1>3, <1>4, Zenon DEF Effect

-----------------------------------------------------------------------------
(* Jobs that nobody looks after *)

Carrying == {"enqueue", "popped", "deciding", "persisting"}
Waits(j) == \/ j \in queue
            \/ \E t \in Threads : th[t].job = j /\ th[t].pc \in {"enqueue", "popped"}
Runs(j)  == is_running(j) \/ \E t \in Threads : th[t].job = j /\ Finishing(t)

LEMMA Charge ==
  ASSUME NEW j \in Jobs
  PROVE  /\ InCharge(j) <=> /\ row[j].state \in Startable => Waits(j)
                            /\ row[j].state = "RUNNING" => Runs(j)
         /\ InCharge(j)' <=> /\ row'[j].state \in Startable => Waits(j)'
                             /\ row'[j].state = "RUNNING" => Runs(j)'
<1>1. "RUNNING" \notin Startable
  BY Zenon DEF Startable
<1>2. InCharge(j) <=> /\ row[j].state \in Startable => Waits(j)
                      /\ row[j].state = "RUNNING" => Runs(j)
  BY <1>1, Zenon DEF InCharge, Waits, Runs
<1>3. InCharge(j)' <=> /\ row'[j].state \in Startable => Waits(j)'
                       /\ row'[j].state = "RUNNING" => Runs(j)'
  BY <1>1, Zenon DEF InCharge, Waits, Runs
<1> QED BY <1>2, <1>3, Zenon

LEMMA ChargeKept ==
  ASSUME NEW j \in Jobs, InCharge(j), row'[j].state = row[j].state,
         is_running(j) => is_running(j)', j \in queue => j \in queue',
         \A u \in Threads : th'[u] = th[u] \/ th[u].job # j \/ th[u].pc \notin Carrying
  PROVE  InCharge(j)'
<1>1. Waits(j) => Waits(j)'
  BY Zenon DEF Waits, Carrying
<1>2. Runs(j) => Runs(j)'
  BY Zenon DEF Runs, Carrying, Finishing
<1> QED BY <1>1, <1>2, Charge, Zenon

LEMMA ChargeStep ==
  ASSUME EngineInv, Effect, ~ stop_requested, \A j \in Jobs : {j} \cup queue \subseteq Pushed(j),
         NEW i \in Jobs, i \notin acked', InCharge(i)
  PROVE  InCharge(i)'
<1>0. TypeOK /\ CallsInv
  BY Zenon DEF EngineInv
<1>c. Calm \cap Carrying = {}
  BY Zenon DEF Calm, Carrying
<1>1. CASE Quiet
  <2>1. \A u \in Threads : th'[u] = th[u] \/ th[u].pc \notin Carrying
    BY <1>1, <1>c, SettlesFields, Zenon DEF Quiet
  <2>2. queue' = queue /\ row'[i].state = row[i].state /\ (is_running(i) => is_running(i)')
    BY <1>1, Zenon DEF Quiet, SameRows, SameLeases
  <2> QED BY <2>1, <2>2, ChargeKept, Zenon
<1>2. ASSUME NEW t \in Threads, Refuses(t) PROVE InCharge(i)'
  <2>1. /\ th[t].pc = "popped" /\ row[th[t].job].state \notin Startable
        /\ queue' = queue /\ row'[i].state = row[i].state /\ (is_running(i) => is_running(i)')
        /\ \A u \in Threads \ {t} : th'[u] = th[u]
    BY <1>2, SettlesFields, Zenon DEF Refuses, SameRows, SameLeases
  <2>2. CASE th[t].job = i
    <3>1. Runs(i) => Runs(i)'
      BY <2>1, Zenon DEF Runs, Finishing
    <3> QED BY <2>1, <2>2, <3>1, Charge, Zenon
  <2>3. CASE th[t].job # i
    BY <2>1, <2>3, ChargeKept, Zenon
  <2> QED BY <2>2, <2>3, Zenon
<1>3. ASSUME NEW t \in Threads, NEW j \in Jobs, Pops(t, j) PROVE InCharge(i)'
  <2>1. /\ th[t].pc \notin Carrying /\ th'[t].pc = "popped" /\ th'[t].job = j
        /\ queue' = queue \ {j} /\ row'[i].state = row[i].state
        /\ is_running(i) => is_running(i)'
        /\ \A u \in Threads \ {t} : th'[u] = th[u]
    BY <1>3, <1>c, Zenon DEF Pops, Moves, SameRows, SameLeases
  <2>2. Waits(i) => Waits(i)'
    BY <2>1, Zenon DEF Waits, Carrying
  <2>3. Runs(i) => Runs(i)'
    BY <2>1, Zenon DEF Runs, Carrying, Finishing
  <2> QED BY <2>1, <2>2, <2>3, Charge, Zenon
<1>4. ASSUME NEW t \in Threads, Pushes(t) PROVE InCharge(i)'
  <2>1. /\ th[t].pc = "enqueue" /\ queue' = Pushed(th[t].job) /\ row'[i].state = row[i].state
        /\ is_running(i) => is_running(i)'
        /\ \A u \in Threads \ {t} : th'[u] = th[u]
    BY <1>4, SettlesFields, Zenon DEF Pushes, SameRows, SameLeases
  <2>2. th[t].job \in Jobs
    BY <1>0, <2>1, Zenon DEF CallsInv
  <2>3. th[t].job \in queue' /\ queue \subseteq queue'
    BY <2>1, <2>2, Zenon
  <2>4. Waits(i) => Waits(i)'
    BY <2>1, <2>3, Zenon DEF Waits
  <2>5. Runs(i) => Runs(i)'
    BY <2>1, Zenon DEF Runs, Finishing
  <2> QED BY <2>1, <2>4, <2>5, Charge, Zenon
<1>5. ASSUME NEW t \in Threads, NEW j \in Jobs, Reserves(t, j) \/ Cancels(t, j)
      PROVE  InCharge(i)'
  <2>1. /\ th[t].pc \notin Carrying /\ queue' = queue /\ row'[i].state = row[i].state
        /\ is_running(i) => is_running(i)'
        /\ \A u \in Threads \ {t} : th'[u] = th[u]
    BY <1>5, <1>c, Zenon DEF Reserves, Cancels, Moves, SameRows, SameLeases
  <2> QED BY <2>1, ChargeKept, Zenon
<1>6. ASSUME NEW t \in Threads, Inserts(t) PROVE InCharge(i)'
  <2>1. /\ th[t].pc \notin Carrying /\ th'[t].pc = "enqueue" /\ th'[t].job = th[t].job
        /\ queue' = queue /\ (is_running(i) => is_running(i)')
        /\ \A u \in Threads \ {t} : th'[u] = th[u]
        /\ row'[i].state = row[i].state \/ i = th[t].job
        /\ row'[th[t].job].state # "RUNNING"
    BY <1>6, Zenon DEF Inserts, Moves, SameLeases, Carrying, Becomes
  <2>2. CASE i = th[t].job
    <3>1. Waits(i)'
      BY <2>1, <2>2, Zenon DEF Waits
    <3> QED BY <2>1, <2>2, <3>1, Charge, Zenon
  <2>3. CASE row'[i].state = row[i].state
    BY <2>1, <2>3, ChargeKept, Zenon
  <2> QED BY <2>1, <2>2, <2>3, Zenon
<1>7. ASSUME NEW t \in Threads, Flags(t) PROVE InCharge(i)'
  <2>1. /\ th[t].pc \notin Carrying /\ queue' = queue /\ (is_running(i) => is_running(i)')
        /\ \A u \in Threads \ {t} : th'[u] = th[u]
        /\ row'[i].state = row[i].state
    BY <1>7, SettlesFields, Zenon DEF Flags, SameLeases, Carrying, Becomes
  <2> QED BY <2>1, ChargeKept, Zenon
<1>8. ASSUME NEW t \in Threads, NEW j \in Jobs, CancelsWaiting(t, j) PROVE InCharge(i)'
  <2>1. /\ th[t].pc \notin Carrying \/ th[t].job = j
        /\ queue' \in {queue, queue \ {j}} /\ (is_running(i) => is_running(i)')
        /\ \A u \in Threads \ {t} : th'[u] = th[u]
        /\ i # j => row'[i].state = row[i].state
        /\ row'[j].state = "CANCELLED"
    BY <1>8, <1>c, Zenon DEF CancelsWaiting, SameLeases, Becomes, Moves
  <2>2. CASE i = j
    <3>1. "CANCELLED" \notin Startable \cup {"RUNNING"}
      BY Zenon DEF Startable
    <3> QED BY <2>1, <2>2, <3>1, Charge, Zenon
  <2>3. CASE i # j
    <3>1. /\ i \in queue => i \in queue'
          /\ \A u \in Threads : th'[u] = th[u] \/ th[u].job # i \/ th[u].pc \notin Carrying
      BY <2>1, <2>3, Zenon
    <3> QED BY <2>1, <2>3, <3>1, ChargeKept, Zenon
  <2> QED BY <2>2, <2>3, Zenon
<1>10. ASSUME NEW t \in Threads, Starts(t) PROVE InCharge(i)'
  <2>1. /\ th[t].pc = "popped" /\ queue' = queue
        /\ \A u \in Threads \ {t} : th'[u] = th[u]
        /\ i # th[t].job => row'[i].state = row[i].state /\ (is_running(i) => is_running(i)')
        /\ i = th[t].job => row'[i].state = "RUNNING" /\ is_running(i)'
    BY <1>10, SettlesFields, Zenon DEF Starts, Becomes, is_running
  <2>2. CASE i = th[t].job
    <3>1. "RUNNING" \notin Startable /\ Runs(i)'
      BY <2>1, <2>2, Zenon DEF Startable, Runs
    <3> QED BY <2>1, <2>2, <3>1, Charge, Zenon
  <2>3. CASE i # th[t].job
    BY <2>1, <2>3, ChargeKept, Zenon
  <2> QED BY <2>2, <2>3, Zenon
<1>11. ASSUME NEW t \in Threads, Fences(t) \/ Records(t) PROVE InCharge(i)'
  <2>1. /\ th[t].pc \notin {"enqueue", "popped"} /\ queue' = queue
        /\ \A u \in Threads \ {t} : th'[u] = th[u]
        /\ th'[t].job = th[t].job /\ Finishing(t)' /\ row'[i].state = row[i].state
        /\ (is_running(i) => is_running(i)') \/ i = th[t].job
    <3>1. CASE Fences(t)
      BY <3>1, Zenon DEF Fences, Frees, SameRows, Moves, Finishing, Calm
    <3>2. CASE Records(t)
      BY <3>2, Zenon DEF Records, SameRows, SameLeases, Moves, Finishing
    <3> QED BY <1>11, <3>1, <3>2, Zenon
  <2>2. Waits(i) => Waits(i)'
    BY <2>1, Zenon DEF Waits
  <2>3. Runs(i) => Runs(i)'
    BY <2>1, Zenon DEF Runs, Finishing
  <2> QED BY <2>1, <2>2, <2>3, Charge, Zenon
<1>12. ASSUME NEW t \in Threads, NEW j \in Jobs, Ends(t, j) PROVE InCharge(i)'
  <2>1. /\ th[t].pc \notin Carrying \/ th[t].job = j
        /\ queue' = queue /\ (i # j => (is_running(i) => is_running(i)'))
        /\ \A u \in Threads \ {t} : th'[u] = th[u]
        /\ i # j => row'[i].state = row[i].state
    BY <1>12, <1>c, Zenon DEF Ends, SameLeases, Frees, Becomes, Moves
  <2>2. CASE i # j
    BY <2>1, <2>2, ChargeKept, Zenon
  <2>3. CASE i = j
    <3>1. CASE Moves(t, "enqueue", j) /\ \E s \in Startable : Becomes(j, s)
      <4>1. Waits(i)' /\ row'[i].state # "RUNNING"
        BY <2>3, <3>1, Zenon DEF Waits, Moves, Becomes, Startable
      <4> QED BY <4>1, Charge, Zenon
    <3>2. CASE \E s : Becomes(j, s) /\ is_terminal(s)
      <4>1. row'[i].state \notin Startable \cup {"RUNNING"}
        BY <2>3, <3>2, Zenon DEF Becomes, is_terminal, Startable
      <4> QED BY <4>1, Charge, Zenon
    <3> QED BY <1>12, <3>1, <3>2, Zenon DEF Ends
  <2> QED BY <2>2, <2>3, Zenon
<1>13. ASSUME NEW t \in Threads, Completes(t) PROVE InCharge(i)'
  <2>1. /\ th[t].pc \notin Carrying /\ queue' = queue /\ row'[i].state = row[i].state
        /\ is_running(i) => is_running(i)'
        /\ \A u \in Threads \ {t} : th'[u] = th[u]
    BY <1>13, SettlesFields, Zenon DEF Completes, SameRows, SameLeases, Carrying
  <2> QED BY <2>1, ChargeKept, Zenon
<1> QED BY <1>1, <1>2, <1>3, <1>4, <1>5, <1>6, <1>7, <1>8, <1>10, <1>11, <1>12, <1>13, Zenon DEF Effect

LEMMA AckedKept ==
  ASSUME Effect
  PROVE  acked \subseteq acked'
BY Zenon DEF Effect, Quiet, Refuses, Pops, Pushes, Reserves, Inserts, Cancels, Flags, CancelsWaiting,
   Starts, Fences, Records, Ends, Completes
=============================================================================
