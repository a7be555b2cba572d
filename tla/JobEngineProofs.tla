--------------------------- MODULE JobEngineProofs --------------------------
(* Every step of JobEngine keeps the types of its variables and the lifecycle  *)
(* invariant; the theorems about JobEngine that follow from it.                *)
EXTENDS JobEngine, TLAPS

LEMMA NatOrder == 0 <= 0 /\ \A m \in Nat : m <= m /\ 0 <= m
OBVIOUS

LEMMA NatBelow ==
  ASSUME NEW l \in Nat, NEW m \in Nat, NEW n \in Nat, l <= m, n > m
  PROVE  l <= n /\ l # n
OBVIOUS

(* The records the actions build. *)

LEMMA LocalsType ==
  ASSUME NEW label \in Labels, NEW job \in Jobs \cup {Nobody},
         NEW owner \in Owners \cup {Nobody}, NEW token \in Nat, NEW attempt \in Nat,
         NEW cancel \in BOOLEAN, NEW outcome \in Outcomes
  PROVE  Locals(label, job, owner, token, attempt, cancel, outcome) \in Local
BY Zenon DEF Locals, Local

LEMMA AtType ==
  ASSUME NEW label \in Labels, NEW job \in Jobs \cup {Nobody},
         NEW owner \in Owners \cup {Nobody}
  PROVE  At(label, job, owner) \in Local
BY LocalsType, Zenon DEF At, Outcomes

LEMMA JobRowType ==
  ASSUME NEW state \in JobStates, NEW attempt \in Nat, NEW token \in Nat,
         NEW cancel \in BOOLEAN
  PROVE  JobRow(state, attempt, token, cancel) \in Row
BY Zenon DEF JobRow, Row

LEMMA LeaseTimeType ==
  ASSUME TypeOK, NEW j \in Jobs, NEW time \in {"none", "valid", "overdue"}
  PROVE  LeaseTime(j, time) \in Lease
<1>1. running[j] \in Lease
  BY Zenon DEF TypeOK
<1> QED BY <1>1, Zenon DEF LeaseTime, Lease

(* A failed write leaves the table alone, a successful one replaces one row. *)
LEMMA StoredRow ==
  ASSUME NEW j, NEW r, NEW ok \in StoreOutcome
  PROVE  Stored(j, r, ok) = row \/ Stored(j, r, ok) = [row EXCEPT ![j] = r]
BY Zenon DEF Stored

LEMMA PersistRow ==
  ASSUME NEW j, NEW r, persist(j, r)
  PROVE  row' = row \/ row' = [row EXCEPT ![j] = r]
BY StoredRow, Zenon DEF persist

LEMMA PersistType ==
  ASSUME TypeOK, NEW j \in Jobs, NEW r \in Row, persist(j, r)
  PROVE  row' \in [Jobs -> Row]
BY PersistRow DEF TypeOK

LEMMA ThreadType ==
  ASSUME TypeOK, NEW t \in Threads
  PROVE  /\ th[t] \in Local
         /\ th[t].pc \in Labels /\ th[t].job \in Jobs \cup {Nobody}
         /\ th[t].owner \in Owners \cup {Nobody} /\ th[t].token \in Nat
         /\ th[t].attempt \in Nat /\ th[t].cancel_requested \in BOOLEAN
         /\ th[t].outcome \in Outcomes
BY Zenon DEF TypeOK, Local

LEMMA RowType ==
  ASSUME TypeOK, NEW j \in Jobs
  PROVE  /\ row[j] \in Row
         /\ row[j].state \in JobStates \cup {"ABSENT"} /\ row[j].attempt \in Nat
         /\ row[j].lease_token \in Nat /\ row[j].cancel_requested \in BOOLEAN
BY Zenon DEF TypeOK, Row

LEMMA ReturnType ==
  ASSUME TypeOK, NEW t \in Threads, Return(t)
  PROVE  th' \in [Threads -> Local]
<1>1. Home(t) \in Local
  BY AtType, Zenon DEF Home, Labels
<1> QED BY <1>1, Zenon DEF TypeOK, Return

LEMMA ProceedType ==
  ASSUME TypeOK, NEW t \in Threads, NEW l \in Labels, NEW o \in Outcomes,
         Proceed(t, l, o)
  PROVE  th' \in [Threads -> Local]
<1>1. Locals(l, th[t].job, th[t].owner, th[t].token, th[t].attempt,
             th[t].cancel_requested, o) \in Local
  BY ThreadType, LocalsType, Zenon
<1> QED BY <1>1, Zenon DEF TypeOK, Proceed

LEMMA GotoType ==
  ASSUME TypeOK, NEW t \in Threads, NEW l \in Labels, Goto(t, l)
  PROVE  th' \in [Threads -> Local]
BY ThreadType, ProceedType, Zenon DEF Goto

LEMMA SetType ==
  ASSUME TypeOK, NEW t \in Threads, NEW l \in Local, th' = [th EXCEPT ![t] = l]
  PROVE  th' \in [Threads -> Local]
BY Zenon DEF TypeOK

-----------------------------------------------------------------------------
(* Type correctness, one lemma for each group of actions. *)

LEMMA CallTypes ==
  ASSUME TypeOK, CallsInv, AttemptInv, NEW t \in Threads,
         finish_attempt(t) \/ begin_attempt(t)
  PROVE  TypeOK'
<1> USE JobEngineAssumption
<1> USE DEF storeVars, leaseVars, envVars, ghostVars
<1>j. th[t].job \in Jobs
  BY Zenon DEF CallsInv, finish_attempt, begin_attempt, finish_attempt_fence,
         finish_attempt_record, finish_attempt_persist, enqueue, finish_terminal,
         begin_attempt_refused, begin_attempt_cancelled, begin_attempt_started,
         begin_attempt_requeued
<1>1. CASE begin_attempt_refused(t)
  BY <1>1, ReturnType, Zenon DEF begin_attempt_refused, TypeOK
<1>2. CASE begin_attempt_cancelled(t)
  <2>1. CancelledRow(th[t].job) \in Row
    BY <1>j, RowType, JobRowType, Zenon DEF CancelledRow, JobStates
  <2>2. row' \in [Jobs -> Row]
    BY <1>2, <1>j, <2>1, PersistType, Zenon DEF begin_attempt_cancelled
  <2> QED BY <1>2, <2>2, GotoType, Zenon DEF begin_attempt_cancelled, TypeOK, Labels
<1>3. CASE begin_attempt_started(t)
  <2> DEFINE info == Leased(th[t].job, th[t].owner)
  <2>1. /\ info \in Lease
        /\ info.token \in Nat /\ info.attempt \in Nat
    <3>1. issued[th[t].job] \in Nat /\ row[th[t].job].attempt \in Nat
      BY <1>j, RowType, Zenon DEF TypeOK
    <3>2. th[t].owner \in Owners \cup {Nobody}
      BY ThreadType, Zenon
    <3> QED BY <3>1, <3>2 DEF Leased, Lease
  <2>2. JobRow("RUNNING", info.attempt, info.token, FALSE) \in Row
    BY <2>1, JobRowType, Zenon DEF JobStates
  <2>3. /\ Idle \in Local
        /\ t \in Workers => Locals("executing", th[t].job, t, info.token, info.attempt,
                                   FALSE, "none") \in Local
    BY <1>j, <2>1, LocalsType, AtType, Zenon DEF Idle, Labels, Outcomes, Reports, Owners
  <2> HIDE DEF info
  <2>4. /\ row' = [row EXCEPT ![th[t].job] = JobRow("RUNNING", info.attempt, info.token, FALSE)]
        /\ running' = [running EXCEPT ![th[t].job] = info]
        /\ issued' = [issued EXCEPT ![th[t].job] = info.token]
        /\ reason' = [reason EXCEPT ![th[t].job] = "None"]
        /\ th' = [th EXCEPT ![t] =
              IF t \in Workers
              THEN Locals("executing", th[t].job, t, info.token, info.attempt, FALSE, "none")
              ELSE Idle]
    BY <1>3, Zenon DEF begin_attempt_started, info
  <2>5. th' \in [Threads -> Local]
    BY <2>3, <2>4, SetType, Zenon
  <2>6. row' \in [Jobs -> Row] /\ running' \in [Jobs -> Lease]
    BY <2>1, <2>2, <2>4, Zenon DEF TypeOK
  <2>7. issued' \in [Jobs -> Nat] /\ reason' \in [Jobs -> {"None", "Timeout", "User"}]
    BY <2>1, <2>4, Zenon DEF TypeOK
  <2> QED BY <1>3, <2>5, <2>6, <2>7, Zenon DEF begin_attempt_started, TypeOK
<1>4. CASE begin_attempt_requeued(t)
  BY <1>4, GotoType, Zenon DEF begin_attempt_requeued, TypeOK, Labels
<1>5. CASE finish_attempt_fence(t)
  <2>1. CASE holds_lease(t)
    <3>1. PICK o \in Reported(t) : Proceed(t, "deciding", o)
      BY <1>5, <2>1, Zenon DEF finish_attempt_fence
    <3>2. o \in Outcomes
      BY <3>1, ThreadType, Zenon DEF Reported, Outcomes, Reports
    <3>3. NoLease \in Lease
      BY Zenon DEF NoLease, Lease
    <3> QED BY <1>5, <2>1, <3>1, <3>2, <3>3, ProceedType
            DEF finish_attempt_fence, TypeOK, Labels
  <2>2. CASE ~ holds_lease(t)
    BY <1>5, <2>2, ReturnType, Zenon DEF finish_attempt_fence, TypeOK
  <2> QED BY <2>1, <2>2, Zenon
<1>6. CASE finish_attempt_record(t)
  <2> DEFINE ok == th[t].outcome = "SUCCEEDED"
             rec == [job |-> th[t].job, attempt |-> th[t].attempt,
                     status |-> AttemptStatus(th[t].job, ok)]
  <2>1. NextState(th[t].job, th[t].attempt, ok) \in Outcomes
    BY <1>j, Zenon DEF NextState, RetryOr, Outcomes, Reports, TypeOK
  <2>2. rec \in Attempt
    BY <1>j, ThreadType, Zenon DEF AttemptStatus, Attempt, Reports
  <2>3. Recorded(rec) \subseteq Attempt
    BY <2>2, Zenon DEF Recorded, TypeOK
  <2>4. attempts' \subseteq Attempt
    BY <1>6, <2>3, Zenon DEF finish_attempt_record, TypeOK
  <2>5. th' \in [Threads -> Local]
    BY <1>6, <2>1, ProceedType, Zenon DEF finish_attempt_record, Labels
  <2> QED BY <1>6, <2>4, <2>5, Zenon DEF finish_attempt_record, TypeOK
<1>7. CASE finish_attempt_persist(t)
  <2>1. th' \in [Threads -> Local]
    BY <1>7, GotoType, Zenon DEF finish_attempt_persist, Labels
  <2>2. FinishedRow(t) \in Row
    BY <1>7, ThreadType, JobRowType, Zenon
       DEF finish_attempt_persist, FinishedRow, Outcomes, Reports, JobStates, AttemptInv,
           Finishing
  <2>3. row' \in [Jobs -> Row]
    BY <1>7, <1>j, <2>2, PersistType, Zenon DEF finish_attempt_persist
  <2> QED BY <1>7, <2>1, <2>3, Zenon DEF finish_attempt_persist, TypeOK
<1>8. CASE enqueue(t)
  BY <1>8, <1>j, ReturnType, Zenon DEF enqueue, Pushed, TypeOK
<1>9. CASE finish_terminal(t)
  BY <1>9, <1>j, ReturnType DEF finish_terminal, release_slot, TypeOK
<1> QED BY <1>1, <1>2, <1>3, <1>4, <1>5, <1>6, <1>7, <1>8, <1>9, Zenon
        DEF begin_attempt, finish_attempt

LEMMA ClientTypes ==
  ASSUME TypeOK, CallsInv, NEW c \in Clients,
         \/ submit_insert(c) \/ submit_insert_fails(c) \/ claim_pop(c) \/ claim_empty(c)
         \/ cancel_flag(c) \/ cancel_flag_fails(c) \/ complete_load(c) \/ complete_reason(c)
         \/ ClientCall(c)
  PROVE  TypeOK'
<1> USE DEF storeVars, leaseVars, envVars, watchVars, mainVars, ghostVars
<1>t. c \in Threads
  BY Zenon DEF Threads
<1>1. CASE submit_insert(c)
  <2>1. PICK s \in {"QUEUED", "SCHEDULED"} :
          row' = [row EXCEPT ![th[c].job] = JobRow(s, 0, 0, FALSE)]
    BY <1>1, Zenon DEF submit_insert
  <2>2. JobRow(s, 0, 0, FALSE) \in Row
    BY JobRowType, Zenon DEF JobStates
  <2> QED BY <1>1, <1>t, <2>1, <2>2, GotoType, Zenon DEF submit_insert, TypeOK, Labels
<1>2. CASE submit_insert_fails(c)
  BY <1>2, <1>t, ReturnType DEF submit_insert_fails, release_slot, TypeOK
<1>3. CASE claim_pop(c)
  <2>1. PICK j \in queue : /\ queue' = queue \ {j}
                           /\ th' = [th EXCEPT ![c] = At("popped", j, th[c].owner)]
    BY <1>3, <1>t, Zenon DEF claim_pop, TypeOK
  <2>2. At("popped", j, th[c].owner) \in Local
    BY <1>t, <2>1, AtType, ThreadType, Zenon DEF TypeOK, Labels
  <2> QED BY <1>3, <1>t, <2>1, <2>2, SetType, Zenon DEF claim_pop, TypeOK
<1>4. CASE claim_empty(c)
  BY <1>4, <1>t, ReturnType, Zenon DEF claim_empty, TypeOK
<1>5. CASE complete_load(c)
  <2>j. th[c].job \in Jobs
    BY <1>5, <1>t, Zenon DEF complete_load, CallsInv
  <2> DEFINE next == Locals("loaded", th[c].job, th[c].owner, th[c].token,
                            row[th[c].job].attempt, row[th[c].job].cancel_requested,
                            th[c].outcome)
  <2>1. next \in Local
    <3>1. /\ th[c].owner \in Owners \cup {Nobody} /\ th[c].token \in Nat
          /\ th[c].outcome \in Outcomes
      BY <1>t, ThreadType, Zenon
    <3>2. row[th[c].job].attempt \in Nat /\ row[th[c].job].cancel_requested \in BOOLEAN
      BY <2>j, RowType, Zenon
    <3>3. "loaded" \in Labels
      BY Zenon DEF Labels
    <3> QED BY <2>j, <3>1, <3>2, <3>3, LocalsType, Zenon
  <2>2. th' = [th EXCEPT ![c] = next]
    BY <1>5, Zenon DEF complete_load
  <2> HIDE DEF next
  <2>4. th' \in [Threads -> Local]
    BY <1>t, <2>1, <2>2, SetType, Zenon
  <2>5. UNCHANGED <<storeVars, queue, leaseVars, outstanding, envVars, ghostVars>>
    BY <1>5, Zenon DEF complete_load
  <2> QED BY <2>4, <2>5, Zenon DEF TypeOK
<1>13. CASE complete_reason(c)
  <2>1. th[c].job \in Jobs /\ Goto(c, "fencing")
    BY <1>13, <1>t, Zenon DEF complete_reason, CallsInv
  <2>2. reason' \in [Jobs -> {"None", "Timeout", "User"}]
    BY <1>13, <2>1, Zenon DEF complete_reason, TypeOK
  <2>3. UNCHANGED <<storeVars, queue, running, issued, outstanding, envVars, ghostVars>>
    BY <1>13, Zenon DEF complete_reason
  <2> QED BY <1>t, <2>1, <2>2, <2>3, GotoType, Zenon DEF TypeOK, Labels
<1>6. ASSUME NEW j \in Jobs, submit_reserve(c, j)
      PROVE  TypeOK'
  <2>1. At("insert", j, Nobody) \in Local
    BY AtType, Zenon DEF Labels
  <2> QED BY <1>6, <1>t, <2>1, SetType DEF submit_reserve, reserve_slot, TypeOK
<1>7. ASSUME NEW j \in Jobs, cancel_load(c, j)
      PROVE  TypeOK'
  <2>1. Locals("cancelling", j, Nobody, row[j].lease_token, row[j].attempt, TRUE, "none")
          \in Local
    BY RowType, LocalsType, Zenon DEF Labels, Outcomes
  <2> QED BY <1>7, <1>t, <2>1, SetType, Zenon DEF cancel_load, TypeOK
<1>11. CASE cancel_flag(c)
  <2> DEFINE r == JobRow("RUNNING", th[c].attempt, th[c].token, TRUE)
  <2>j. th[c].job \in Jobs
    BY <1>11, <1>t, Zenon DEF cancel_flag, CallsInv
  <2>1. r \in Row
    <3>1. th[c].attempt \in Nat /\ th[c].token \in Nat /\ "RUNNING" \in JobStates
      BY <1>t, ThreadType, Zenon DEF JobStates
    <3> QED BY <3>1, JobRowType, Zenon
  <2>2. row' = [row EXCEPT ![th[c].job] = r]
    BY <1>11, Zenon DEF cancel_flag
  <2> HIDE DEF r
  <2>3. reason' \in [Jobs -> {"None", "Timeout", "User"}]
    BY <1>11, <2>j, Zenon DEF cancel_flag, TypeOK
  <2>4. row \in [Jobs -> Row] /\ acked \subseteq Jobs
    BY <1>t, Zenon DEF TypeOK
  <2>5. row' \in [Jobs -> Row]
    BY <2>j, <2>1, <2>2, <2>4, SMTT(30)
  <2>6. acked' \subseteq Jobs
    BY <1>11, <2>j, <2>4, Zenon DEF cancel_flag
  <2> QED BY <1>11, <1>t, <2>3, <2>5, <2>6, ReturnType, Zenon DEF cancel_flag, TypeOK
<1>12. CASE cancel_flag_fails(c)
  BY <1>12, <1>t, ReturnType, Zenon DEF cancel_flag_fails, TypeOK
<1>8. ASSUME NEW j \in Jobs, cancel_waiting(c, j)
      PROVE  TypeOK'
  <2> DEFINE r == CancelledRow(j)
  <2>1. r \in Row
    BY RowType, JobRowType, Zenon DEF CancelledRow, JobStates
  <2>2. PICK ok \in StoreOutcome :
          /\ row' = Stored(j, r, ok)
          /\ th' = IF ok THEN [th EXCEPT ![c] = At("finished", j, Nobody)] ELSE th
          /\ acked' = IF ok THEN acked \cup {j} ELSE acked
    BY <1>8, Zenon DEF cancel_waiting
  <2> HIDE DEF r
  <2>3. row' \in [Jobs -> Row]
    BY <2>1, <2>2, StoredRow DEF TypeOK
  <2>4. At("finished", j, Nobody) \in Local
    BY AtType, Zenon DEF Labels
  <2> QED BY <1>8, <1>t, <2>2, <2>3, <2>4, SetType, Zenon DEF cancel_waiting, TypeOK
<1>9. ASSUME NEW r \in RemoteWorkers, claim_arrive(c, r)
      PROVE  TypeOK'
  <2>1. At("polling", Nobody, r) \in Local
    BY AtType, Zenon DEF Labels, Owners
  <2> QED BY <1>9, <1>t, <2>1, SetType, Zenon DEF claim_arrive, TypeOK
<1>10. ASSUME NEW r \in RemoteWorkers, NEW j \in Jobs, NEW token \in 1..issued[j],
              NEW attempt \in 1..row[j].attempt,
              NEW status \in Reports,
              complete_check(c, r, j, token, attempt, status)
       PROVE  TypeOK'
  <2>1. Locals("completing", j, r, token, 0, FALSE, status) \in Local
    <3>1. token \in Nat
      BY DEF TypeOK
    <3> QED BY <3>1, LocalsType, Zenon DEF Labels, Outcomes, Reports, Owners
  <2> QED BY <1>10, <1>t, <2>1, SetType, Zenon DEF complete_check, TypeOK
<1> QED BY <1>1, <1>2, <1>3, <1>4, <1>5, <1>6, <1>7, <1>8, <1>9, <1>10, <1>11, <1>12, <1>13, Zenon
        DEF ClientCall

LEMMA WorkerTypes ==
  ASSUME TypeOK, NEW w \in Workers, worker_pop(w) \/ worker_exit(w)
  PROVE  TypeOK'
<1> USE DEF storeVars, leaseVars, envVars, ghostVars
<1>t. w \in Threads
  BY Zenon DEF Threads
<1>1. CASE worker_pop(w)
  <2>1. PICK j \in queue :
          /\ queue' = queue \ {j}
          /\ th' = [th EXCEPT ![w] = IF stop_requested /\ ~ drain
                                     THEN At("exited", Nobody, Nobody)
                                     ELSE At("popped", j, w)]
    BY <1>1, Zenon DEF worker_pop
  <2>2. At("exited", Nobody, Nobody) \in Local /\ At("popped", j, w) \in Local
    BY AtType, Zenon DEF TypeOK, Labels, Owners
  <2> QED BY <1>1, <1>t, <2>1, <2>2, SetType, Zenon DEF worker_pop, TypeOK
<1>2. CASE worker_exit(w)
  BY <1>2, <1>t, GotoType, Zenon DEF worker_exit, TypeOK, Labels
<1> QED BY <1>1, <1>2, Zenon

LEMMA MainTypes ==
  ASSUME TypeOK, NEW from,
         NEW to \in {"serving", "draining", "counting", "stopping", "closed", "stopped"},
         MainStep(from, to), drain' \in BOOLEAN, to_drain' \subseteq Jobs
  PROVE  TypeOK'
BY Zenon DEF MainStep, TypeOK, storeVars, leaseVars, watchVars, ghostVars

LEMMA OtherTypes ==
  ASSUME TypeOK,
         \/ \E r \in RemoteWorkers : register_worker(r) \/ heartbeat_worker(r)
         \/ watchdog_collect \/ watchdog_sleep
         \/ \E r \in RemoteWorkers : watchdog_owned(r)
         \/ \E j \in Jobs : watchdog_expire(j)
         \/ TimePasses \/ Stop
  PROVE  TypeOK'
<1> USE DEF storeVars, leaseVars, envVars, watchVars, mainVars, ghostVars
<1>t. Watchdog \in Threads
  BY Zenon DEF Threads
<1>1. ASSUME NEW r \in RemoteWorkers, register_worker(r)
      PROVE  TypeOK'
  BY <1>1, Zenon DEF register_worker, TypeOK
<1>2. ASSUME NEW r \in RemoteWorkers, heartbeat_worker(r)
      PROVE  TypeOK'
  <2>1. running' \in [Jobs -> Lease]
    BY <1>2, LeaseTimeType, Zenon DEF heartbeat_worker, TypeOK
  <2> QED BY <1>2, <2>1, Zenon DEF heartbeat_worker, TypeOK
<1>3. CASE watchdog_collect
  <2>1. reason' \in [Jobs -> {"None", "Timeout", "User"}]
    BY <1>3, Zenon DEF watchdog_collect, TypeOK
  <2> QED BY <1>3, <1>t, <2>1, GotoType, Zenon DEF watchdog_collect, TypeOK, Labels
<1>4. CASE watchdog_sleep
  BY <1>4, <1>t, GotoType, Zenon DEF watchdog_sleep, TypeOK, Labels
<1>5. ASSUME NEW r \in RemoteWorkers, watchdog_owned(r)
      PROVE  TypeOK'
  BY <1>5, Zenon DEF watchdog_owned, TypeOK
<1>6. ASSUME NEW j \in Jobs, watchdog_expire(j)
      PROVE  TypeOK'
  <2>1. running' \in [Jobs -> Lease]
    BY <1>6, Zenon DEF watchdog_expire, NoLease, Lease, TypeOK
  <2>2. row' \in [Jobs -> Row] /\ th' \in [Threads -> Local]
    <3>1. CASE is_running(j) /\ row[j].state = "RUNNING"
      <4> DEFINE last == row[j].attempt >= MaxAttempts[j]
                 r == JobRow(IF last THEN "FAILED" ELSE "QUEUED", row[j].attempt, 0,
                             row[j].cancel_requested)
                 l == At(IF last THEN "finished" ELSE "enqueue", j, Nobody)
      <4>1. r \in Row /\ l \in Local
        <5>1. /\ (IF last THEN "FAILED" ELSE "QUEUED") \in JobStates
              /\ (IF last THEN "finished" ELSE "enqueue") \in Labels
          BY Zenon DEF JobStates, Labels
        <5>2. row[j].attempt \in Nat /\ row[j].cancel_requested \in BOOLEAN
          BY RowType, Zenon
        <5> HIDE DEF last
        <5> QED BY <5>1, <5>2, JobRowType, AtType, Zenon
      <4>2. persist(j, r) /\ th' = [th EXCEPT ![Watchdog] = l]
        BY <1>6, <3>1, Zenon DEF watchdog_expire
      <4> HIDE DEF r, l
      <4> QED BY <1>t, <4>1, <4>2, PersistType, SetType, Zenon
    <3>2. CASE ~ (is_running(j) /\ row[j].state = "RUNNING")
      BY <1>6, <3>2, Zenon DEF watchdog_expire, TypeOK
    <3> QED BY <3>1, <3>2, Zenon
  <2> QED BY <1>6, <2>1, <2>2, Zenon DEF watchdog_expire, TypeOK
<1>7. CASE TimePasses
  <2>1. ASSUME NEW j \in Jobs, lease_overdue(j)
        PROVE  TypeOK'
    <3>1. LeaseTime(j, "overdue") \in Lease
      BY LeaseTimeType, Zenon
    <3> QED BY <2>1, <3>1, Zenon DEF lease_overdue, TypeOK
  <2>2. ASSUME NEW r \in RemoteWorkers, heartbeat_overdue(r)
        PROVE  TypeOK'
    BY <2>2, Zenon DEF heartbeat_overdue, TypeOK
  <2> QED BY <1>7, <2>1, <2>2, Zenon DEF TimePasses
<1>8. CASE Stop
  <2>0. drain \in BOOLEAN /\ to_drain \subseteq Jobs /\ queue \subseteq Jobs
    BY Zenon DEF TypeOK
  <2>1. ASSUME NEW d \in BOOLEAN, stop_begin(d)
        PROVE  TypeOK'
    BY <2>0, <2>1, MainTypes, Zenon DEF stop_begin
  <2>2. CASE stop_deadline
    BY <2>0, <2>2, MainTypes, Zenon DEF stop_deadline
  <2>3. CASE stop_queue_empty \/ stop_still_running \/ stop_drained \/ stop_close \/ stop_join
    BY <2>0, <2>3, MainTypes, Zenon
       DEF stop_queue_empty, stop_still_running, stop_drained, stop_close, stop_join
  <2> QED BY <1>8, <2>1, <2>2, <2>3, Zenon DEF Stop, StopProceeds
<1> QED BY <1>1, <1>2, <1>3, <1>4, <1>5, <1>6, <1>7, <1>8, Zenon
-----------------------------------------------------------------------------
(* The lifecycle invariant.  Most steps fall under one of two patterns: a     *)
(* thread that is not, after the step, inserting, executing or finishing and  *)
(* that left the tables alone (QuietStep), or that rewrote the row of a job   *)
(* nobody else is inserting or finishing (RowStep).                           *)

Jobless == {"idle", "polling", "scanning", "exited"}
Busy    == {"insert", "cancelling", "executing", "completing", "loaded", "fencing", "deciding",
            "persisting"}

Retires(t) ==
  /\ \A u \in Threads \ {t} : th'[u] = th[u]
  /\ th'[t].pc \notin Busy
  /\ th'[t].pc \notin Jobless => th'[t].job \in Jobs
  /\ th'[t].token <= IF th'[t].job \in Jobs THEN issued[th'[t].job] ELSE 0

LEMMA LocalsFields ==
  ASSUME NEW label, NEW job, NEW owner, NEW token, NEW attempt, NEW cancel, NEW outcome
  PROVE  /\ Locals(label, job, owner, token, attempt, cancel, outcome).pc = label
         /\ Locals(label, job, owner, token, attempt, cancel, outcome).job = job
         /\ Locals(label, job, owner, token, attempt, cancel, outcome).owner = owner
         /\ Locals(label, job, owner, token, attempt, cancel, outcome).token = token
         /\ Locals(label, job, owner, token, attempt, cancel, outcome).attempt = attempt
         /\ Locals(label, job, owner, token, attempt, cancel, outcome).outcome = outcome
BY Zenon DEF Locals

LEMMA AtFields ==
  ASSUME NEW label, NEW job, NEW owner
  PROVE  /\ At(label, job, owner).pc = label /\ At(label, job, owner).job = job
         /\ At(label, job, owner).owner = owner /\ At(label, job, owner).token = 0
BY Zenon DEF At, Locals

LEMMA JobRowFields ==
  ASSUME NEW state, NEW attempt, NEW token, NEW cancel
  PROVE  /\ JobRow(state, attempt, token, cancel).state = state
         /\ JobRow(state, attempt, token, cancel).attempt = attempt
         /\ JobRow(state, attempt, token, cancel).lease_token = token
BY Zenon DEF JobRow

LEMMA RetiresAt ==
  ASSUME TypeOK, NEW t \in Threads, NEW label, NEW job, NEW owner,
         label \notin Busy, label \notin Jobless => job \in Jobs,
         th' = [th EXCEPT ![t] = At(label, job, owner)]
  PROVE  Retires(t)
<1>1. th'[t] = At(label, job, owner) /\ \A u \in Threads \ {t} : th'[u] = th[u]
  BY Zenon DEF TypeOK
<1>2. th'[t].pc = label /\ th'[t].job = job /\ th'[t].token = 0
  BY <1>1, AtFields
<1>3. job \in Jobs => 0 <= issued[job]
  BY DEF TypeOK
<1> QED BY <1>1, <1>2, <1>3 DEF Retires

LEMMA RetiresReturn ==
  ASSUME TypeOK, NEW t \in Threads, Return(t)
  PROVE  Retires(t)
<1> DEFINE label == IF t = Watchdog THEN "scanning" ELSE "idle"
<1>1. label \notin Busy /\ label \in Jobless
  BY Zenon DEF Busy, Jobless
<1>2. th' = [th EXCEPT ![t] = At(label, Nobody, Nobody)]
  BY Zenon DEF Return, Home
<1> HIDE DEF label
<1> QED BY <1>1, <1>2, RetiresAt, Zenon

LEMMA ProceedFields ==
  ASSUME TypeOK, NEW t \in Threads, NEW label, NEW outcome, Proceed(t, label, outcome)
  PROVE  /\ \A u \in Threads \ {t} : th'[u] = th[u]
         /\ th'[t].pc = label /\ th'[t].outcome = outcome
         /\ th'[t].job = th[t].job /\ th'[t].token = th[t].token
         /\ th'[t].attempt = th[t].attempt
<1>1. /\ th'[t] = Locals(label, th[t].job, th[t].owner, th[t].token, th[t].attempt,
                         th[t].cancel_requested, outcome)
      /\ \A u \in Threads \ {t} : th'[u] = th[u]
  BY Zenon DEF Proceed, TypeOK
<1> QED BY <1>1, LocalsFields

LEMMA RetiresGoto ==
  ASSUME TypeOK, CallsInv, TokensInv, NEW t \in Threads, NEW label,
         label \notin Busy, label \notin Jobless => th[t].job \in Jobs,
         Goto(t, label)
  PROVE  Retires(t)
<1>1. /\ \A u \in Threads \ {t} : th'[u] = th[u]
      /\ th'[t].pc = label /\ th'[t].job = th[t].job /\ th'[t].token = th[t].token
  BY ProceedFields, Zenon DEF Goto
<1>2. th[t].token <= IF th[t].job \in Jobs THEN issued[th[t].job] ELSE 0
  BY Zenon DEF TokensInv
<1> QED BY <1>1, <1>2, Zenon DEF Retires

\* What a step must leave alone for a cancel() in progress.
LEMMA CancelKept ==
  ASSUME EngineInv, TypeOK', NEW t \in Threads,
         \A u \in Threads \ {t} : th'[u] = th[u],
         th'[t].pc # "cancelling",
         \A i \in Jobs : /\ row'[i].attempt = row[i].attempt
                         /\ row'[i].lease_token <= issued'[i]
                         /\ row[i].state # "ABSENT" => row'[i].state # "ABSENT"
                         /\ running'[i].token \in {0, running[i].token}
  PROVE  CancelInv'
<1>1. ASSUME NEW u \in Threads, th'[u].pc = "cancelling"
      PROVE  /\ row'[th'[u].job].state # "ABSENT"
             /\ th'[u].attempt = row'[th'[u].job].attempt
             /\ running'[th'[u].job].token # 0 => th'[u].token = running'[th'[u].job].token
  <2>1. u # t /\ th'[u] = th[u] /\ th[u].pc = "cancelling" /\ th[u].job \in Jobs
    BY <1>1, Zenon DEF EngineInv, CallsInv
  <2> QED BY <2>1 DEF EngineInv, CancelInv, is_running
<1> QED BY <1>1, Zenon DEF CancelInv, is_running

LEMMA RowTokens ==
  ASSUME EngineInv
  PROVE  \A i \in Jobs : row[i].lease_token <= issued[i]
BY Zenon DEF EngineInv, CancelInv

\* A call that is or was past its first section works on a job.
LEMMA BusyJob ==
  ASSUME CallsInv, NEW u \in Threads, th[u].pc \in Busy
  PROVE  th[u].job \in Jobs
<1>1. th[u].pc \notin {"idle", "polling", "scanning", "exited"}
  BY Zenon DEF Busy
<1> QED BY <1>1, Zenon DEF CallsInv

LEMMA FinishingBusy ==
  ASSUME NEW pc, pc \in {"deciding", "persisting"} \/ pc \in {"executing", "loaded", "fencing"}
                   \/ pc = "insert"
  PROVE  pc \in Busy
BY Zenon DEF Busy

\* A job keeps its row and its lease, or is not running and only t works on it.
SettlesRow(t, i) ==
  /\ row'[i].attempt = row[i].attempt /\ row'[i].lease_token <= issued[i]
  /\ \/ /\ row'[i] = row[i] /\ running'[i].token = running[i].token
        /\ is_running(i) => running'[i].attempt = running[i].attempt
     \/ /\ row'[i].state # "ABSENT" /\ running'[i].token = 0
        /\ \A u \in Threads \ {t} : Finishing(u) \/ th[u].pc = "insert" => th[u].job # i

LEMMA SettleStep ==
  ASSUME EngineInv, TypeOK', NEW t \in Threads, Retires(t),
         attempts' = attempts, issued' = issued,
         \A i \in Jobs : SettlesRow(t, i)
  PROVE  EngineInv'
<1>a. /\ CallsInv /\ TokensInv /\ AttemptInv /\ HistoryInv
      /\ LeaseMatchesRow /\ FinisherAlone /\ CancelInv
  BY Zenon DEF EngineInv
<1> USE <1>a
<1>b. /\ \A u \in Threads \ {t} : th'[u] = th[u]
      /\ th'[t].pc \notin Busy
  BY Zenon DEF Retires
<1>c. ASSUME NEW u \in Threads, th'[u].pc \in Busy
      PROVE  u # t /\ th'[u] = th[u] /\ th[u].job \in Jobs
  <2>1. u # t /\ th'[u] = th[u]
    BY <1>b, <1>c, Zenon
  <2> QED BY <1>c, <2>1, BusyJob, Zenon
<1>d. /\ \A i \in Jobs : running'[i].token # 0 =>
           /\ running[i].token # 0 /\ row'[i] = row[i] /\ running'[i].token = running[i].token
           /\ running'[i].attempt = running[i].attempt
      /\ \A i \in Jobs, u \in Threads \ {t} : Finishing(u) /\ th[u].job = i =>
           row'[i] = row[i] /\ running'[i].token = running[i].token
      /\ \A i \in Jobs, u \in Threads \ {t} : th[u].pc = "insert" /\ th[u].job = i =>
           row'[i] = row[i]
  BY Zenon DEF is_running, SettlesRow
<1>e. \A i \in Jobs : /\ row'[i].attempt = row[i].attempt /\ row'[i].lease_token <= issued[i]
                      /\ row[i].state # "ABSENT" => row'[i].state # "ABSENT"
                      /\ row'[i].state = "ABSENT" => row[i].state = "ABSENT"
  BY Zenon DEF SettlesRow
<1>1. CallsInv'
  <2>1. ASSUME NEW u \in Threads, th'[u].pc \notin {"idle", "polling", "scanning", "exited"}
        PROVE  th'[u].job \in Jobs
    BY <1>b, <2>1, Zenon DEF CallsInv, Retires, Jobless
  <2>2. ASSUME NEW u \in Threads, th'[u].pc = "insert"
        PROVE  u # t /\ th'[u] = th[u] /\ th[u].job \in Jobs /\ th[u].pc = "insert"
    BY <1>c, <2>2, FinishingBusy, Zenon
  <2>3. ASSUME NEW u \in Threads, th'[u].pc = "insert"
        PROVE  /\ row'[th'[u].job].state = "ABSENT"
               /\ \A v \in Threads \ {u} : th'[v].pc = "insert" => th'[v].job # th'[u].job
    <3>1. u # t /\ th'[u] = th[u] /\ th[u].job \in Jobs /\ th[u].pc = "insert"
      BY <2>2, <2>3, Zenon
    <3>2. row'[th[u].job] = row[th[u].job] /\ row[th[u].job].state = "ABSENT"
      BY <1>d, <3>1, Zenon DEF CallsInv
    <3>3. ASSUME NEW v \in Threads \ {u}, th'[v].pc = "insert"
          PROVE  th'[v].job # th[u].job
      <4>1. th'[v] = th[v] /\ th[v].pc = "insert"
        BY <2>2, <3>3, Zenon
      <4> QED BY <3>1, <4>1, Zenon DEF CallsInv
    <3> QED BY <3>1, <3>2, <3>3, Zenon
  <2> QED BY <2>1, <2>3, Zenon DEF CallsInv
<1>2. TokensInv'
  <2>1. \A i \in Jobs : running'[i].token \in {0, issued'[i]}
    BY <1>d, Zenon DEF TokensInv
  <2>2. \A u \in Threads :
          th'[u].token <= IF th'[u].job \in Jobs THEN issued'[th'[u].job] ELSE 0
    BY Zenon DEF TokensInv, Retires
  <2> QED BY <2>1, <2>2, Zenon DEF TokensInv
<1>3. AttemptInv'
  <2>2. ASSUME NEW u \in Threads, th'[u].pc \in {"executing", "loaded", "fencing"}, holds_lease(u)'
        PROVE  th'[u].attempt = row'[th'[u].job].attempt
    <3>1. th'[u] = th[u] /\ th[u].job \in Jobs
      BY <1>c, <2>2, FinishingBusy, Zenon
    <3>2. holds_lease(u) /\ row'[th[u].job] = row[th[u].job]
      BY <1>d, <2>2, <3>1, ZenonT(60) DEF holds_lease, is_running
    <3> QED BY <2>2, <3>1, <3>2, Zenon DEF AttemptInv
  <2>3. ASSUME NEW u \in Threads, Finishing(u)'
        PROVE  th'[u].attempt = row'[th'[u].job].attempt
    <3>1. th'[u] = th[u] /\ th[u].job \in Jobs
      BY <1>c, <2>3, FinishingBusy, Zenon DEF Finishing
    <3> QED BY <1>e, <2>3, <3>1, ZenonT(60) DEF AttemptInv, Finishing
  <2>4. ASSUME NEW u \in Threads
        PROVE  /\ th'[u].pc \in {"completing", "loaded", "fencing", "deciding"} =>
                    th'[u].outcome \in Reports
               /\ th'[u].pc = "persisting" => th'[u].outcome # "none"
               /\ th'[u].pc = "persisting" /\ th'[u].outcome = "RETRYING" =>
                    th'[u].attempt < MaxAttempts[th'[u].job]
               /\ th'[u].pc = "persisting" /\ th'[u].outcome \in Exhausted =>
                    th'[u].attempt >= MaxAttempts[th'[u].job]
    BY <1>c, Zenon DEF AttemptInv, Busy
  <2> QED BY <2>2, <2>3, <2>4, Zenon DEF AttemptInv
<1>4. HistoryInv'
  <2>0. \A a \in attempts : a.job \in Jobs
    BY Zenon DEF EngineInv, TypeOK, Attempt
  <2>2. \A i \in Jobs : row'[i].state = "ABSENT" => row'[i].attempt = 0
    BY <1>e, Zenon DEF HistoryInv
  <2>3. /\ \A a \in attempts' : a.attempt <= row'[a.job].attempt
        /\ \A a \in attempts' : is_running(a.job)' => a.attempt # row'[a.job].attempt
    <3> SUFFICES ASSUME NEW a \in attempts
                 PROVE  /\ a.attempt <= row'[a.job].attempt
                        /\ is_running(a.job)' => a.attempt # row'[a.job].attempt
      BY Zenon
    <3>1. row'[a.job].attempt = row[a.job].attempt /\ (is_running(a.job)' => is_running(a.job))
      BY <1>d, <1>e, <2>0, Zenon DEF is_running
    <3> QED BY <3>1, Zenon DEF HistoryInv
  <2>4. ASSUME NEW a \in attempts', NEW u \in Threads,
               th'[u].pc = "deciding", th'[u].job = a.job
        PROVE  a.attempt # th'[u].attempt
    <3>1. th'[u] = th[u] /\ a \in attempts
      BY <1>c, <2>4, FinishingBusy, Zenon
    <3> QED BY <2>4, <3>1, Zenon DEF HistoryInv
  <2> QED BY <2>2, <2>3, <2>4, Zenon DEF HistoryInv
<1>5. LeaseMatchesRow'
  BY <1>d, ZenonT(60) DEF LeaseMatchesRow, is_running
<1>6. FinisherAlone'
  <2>1. ASSUME NEW u \in Threads, Finishing(u)'
        PROVE  /\ th'[u] = th[u] /\ Finishing(u) /\ th[u].job \in Jobs
               /\ row'[th[u].job] = row[th[u].job]
               /\ running'[th[u].job].token = running[th[u].job].token
    <3>1. u # t /\ th'[u] = th[u] /\ th[u].job \in Jobs
      BY <1>c, <2>1, FinishingBusy, Zenon DEF Finishing
    <3>2. Finishing(u)
      BY <2>1, <3>1, Zenon DEF Finishing
    <3> QED BY <1>d, <3>1, <3>2, Zenon
  <2>2. ASSUME NEW u \in Threads, Finishing(u)'
        PROVE  /\ running'[th'[u].job].token = 0
               /\ row'[th'[u].job].state = "RUNNING"
               /\ \A v \in Threads \ {u} : Finishing(v)' => th'[v].job # th'[u].job
    <3>1. /\ th'[u] = th[u] /\ row'[th[u].job] = row[th[u].job]
          /\ running'[th[u].job].token = running[th[u].job].token
          /\ running[th[u].job].token = 0 /\ row[th[u].job].state = "RUNNING"
      BY <2>1, <2>2, Zenon DEF FinisherAlone, is_running
    <3>2. ASSUME NEW v \in Threads \ {u}, Finishing(v)'
          PROVE  th'[v].job # th[u].job
      BY <2>1, <2>2, <3>2, ZenonT(60) DEF FinisherAlone
    <3> QED BY <3>1, <3>2, Zenon
  <2> QED BY <2>2, Zenon DEF FinisherAlone, is_running
<1>7. CancelInv'
  <2>1. th'[t].pc # "cancelling"
    BY <1>b, Zenon DEF Busy
  <2>2. \A i \in Jobs : running'[i].token \in {0, running[i].token}
    BY <1>d, Zenon
  <2> QED BY <1>b, <1>e, <2>1, <2>2, CancelKept, Zenon
<1> QED BY <1>1, <1>2, <1>3, <1>4, <1>5, <1>6, <1>7, Zenon DEF EngineInv

LEMMA QuietStep ==
  ASSUME EngineInv, TypeOK', NEW t \in Threads, Retires(t),
         row' = row, attempts' = attempts, issued' = issued,
         \A j \in Jobs : /\ running'[j].token = running[j].token
                         /\ is_running(j) => running'[j].attempt = running[j].attempt
  PROVE  EngineInv'
<1>1. \A i \in Jobs : SettlesRow(t, i)
  BY RowTokens, Zenon DEF SettlesRow
<1> QED BY <1>1, SettleStep, Zenon

LEMMA RowStep ==
  ASSUME EngineInv, TypeOK', NEW t \in Threads, Retires(t), NEW j \in Jobs,
         attempts' = attempts, issued' = issued,
         \A i \in Jobs \ {j} : row'[i] = row[i] /\ running'[i] = running[i],
         running'[j].token = 0,
         row'[j].attempt = row[j].attempt, row'[j].state # "ABSENT",
         row'[j].lease_token <= issued[j],
         \A u \in Threads \ {t} :
           Finishing(u) \/ th[u].pc = "insert" => th[u].job # j
  PROVE  EngineInv'
<1>1. ASSUME NEW i \in Jobs
      PROVE  SettlesRow(t, i)
  <2>1. CASE i = j
    BY <2>1, Zenon DEF SettlesRow
  <2>2. CASE i # j
    BY <2>2, RowTokens, Zenon DEF SettlesRow
  <2> QED BY <2>1, <2>2, Zenon
<1> QED BY <1>1, SettleStep, Zenon

LEMMA IssuedType ==
  ASSUME TypeOK, NEW j \in Jobs
  PROVE  issued[j] \in Nat
BY Zenon DEF TypeOK

\* What an attempt-lifecycle label says about the job of the thread.
LEMMA CallJob ==
  ASSUME EngineInv, NEW t \in Threads, th[t].pc \notin Jobless
  PROVE  th[t].job \in Jobs
BY Zenon DEF EngineInv, CallsInv, Jobless

\* A job that waits, or whose lease is in running_, is not being finished or inserted.
LEMMA NobodyElse ==
  ASSUME EngineInv, NEW j \in Jobs, row[j].state \in Startable \/ is_running(j),
         NEW u \in Threads, Finishing(u) \/ th[u].pc = "insert"
  PROVE  th[u].job # j
BY Zenon DEF EngineInv, FinisherAlone, CallsInv, LeaseMatchesRow, Startable

LEMMA WaitingNotRunning ==
  ASSUME EngineInv, NEW j \in Jobs, row[j].state # "RUNNING"
  PROVE  running[j].token = 0
BY Zenon DEF EngineInv, LeaseMatchesRow, is_running

\* An attempt starts: the row and the lease of a waiting job get its number and a new token,
\* and the thread runs it or, for a claim, returns.
StartedRow(j, token, attempt) ==
  /\ row[j].state \in Startable
  /\ \A i \in Jobs \ {j} : /\ row'[i] = row[i] /\ running'[i] = running[i]
                           /\ issued'[i] = issued[i]
  /\ row'[j].state = "RUNNING" /\ row'[j].attempt = attempt
  /\ row'[j].lease_token = token
  /\ running'[j].token = token /\ running'[j].attempt = attempt
  /\ issued'[j] = token /\ attempts' = attempts

StartedThread(t, j, token, attempt) ==
  /\ \A u \in Threads \ {t} : th'[u] = th[u]
  /\ \/ /\ th'[t].pc = "executing" /\ th'[t].job = j
        /\ th'[t].token = token /\ th'[t].attempt = attempt
     \/ th'[t].pc = "idle" /\ th'[t].token = 0

LEMMA StartedStep ==
  ASSUME EngineInv, TypeOK', NEW t \in Threads, NEW j \in Jobs,
         NEW token \in Nat, NEW attempt \in Nat,
         token > issued[j], attempt > row[j].attempt,
         run_mutex_free, StartedRow(j, token, attempt), StartedThread(t, j, token, attempt)
  PROVE  EngineInv'
<1>0. /\ TypeOK /\ CallsInv /\ TokensInv /\ AttemptInv /\ HistoryInv
      /\ LeaseMatchesRow /\ FinisherAlone
  BY Zenon DEF EngineInv
<1> USE <1>0
<1>1. /\ row[j].state \in Startable
      /\ \A i \in Jobs \ {j} : /\ row'[i] = row[i] /\ running'[i] = running[i]
                               /\ issued'[i] = issued[i]
      /\ row'[j].state = "RUNNING" /\ row'[j].attempt = attempt
      /\ row'[j].lease_token = token
      /\ running'[j].token = token /\ running'[j].attempt = attempt
      /\ issued'[j] = token /\ attempts' = attempts
  BY Zenon DEF StartedRow
<1>2. /\ \A u \in Threads \ {t} : th'[u] = th[u]
      /\ \/ /\ th'[t].pc = "executing" /\ th'[t].job = j
            /\ th'[t].token = token /\ th'[t].attempt = attempt
         \/ th'[t].pc = "idle" /\ th'[t].token = 0
  BY Zenon DEF StartedThread
<1>3. \A u \in Threads : Finishing(u) \/ th[u].pc = "insert" => th[u].job # j
  BY <1>1, NobodyElse, Zenon
<1>4. issued[j] \in Nat /\ row[j].attempt \in Nat
  BY IssuedType, RowType, Zenon
<1>5. CallsInv'
  <2>1. ASSUME NEW u \in Threads, th'[u].pc \notin {"idle", "polling", "scanning", "exited"}
        PROVE  th'[u].job \in Jobs
    <3>1. CASE u = t
      BY <1>2, <2>1, <3>1, Zenon
    <3>2. CASE u # t
      BY <1>2, <2>1, <3>2, Zenon DEF CallsInv
    <3> QED BY <3>1, <3>2, Zenon
  <2>2. ASSUME NEW u \in Threads, th'[u].pc = "insert"
        PROVE  th'[u] = th[u] /\ th[u].job \in Jobs \ {j} /\ th[u].pc = "insert"
    <3>1. u # t /\ th'[u] = th[u]
      BY <1>2, <2>2, Zenon
    <3> QED BY <1>3, <2>1, <2>2, <3>1, Zenon
  <2>3. ASSUME NEW u \in Threads, th'[u].pc = "insert"
        PROVE  /\ row'[th'[u].job].state = "ABSENT"
               /\ \A v \in Threads \ {u} : th'[v].pc = "insert" => th'[v].job # th'[u].job
    <3>1. th'[u] = th[u] /\ th[u].job \in Jobs \ {j} /\ th[u].pc = "insert"
      BY <2>2, <2>3, Zenon
    <3>2. row'[th[u].job] = row[th[u].job] /\ row[th[u].job].state = "ABSENT"
      BY <1>1, <3>1, Zenon DEF CallsInv
    <3>3. ASSUME NEW v \in Threads \ {u}, th'[v].pc = "insert"
          PROVE  th'[v].job # th[u].job
      <4>1. th'[v] = th[v] /\ th[v].pc = "insert"
        BY <2>2, <3>3, Zenon
      <4> QED BY <3>1, <4>1, Zenon DEF CallsInv
    <3> QED BY <3>1, <3>2, <3>3, Zenon
  <2> QED BY <2>1, <2>3, Zenon DEF CallsInv
<1>6. TokensInv'
  <2>1. \A i \in Jobs : running'[i].token \in {0, issued'[i]}
    BY <1>1, Zenon DEF TokensInv
  <2>2. ASSUME NEW u \in Threads
        PROVE  th'[u].token <= IF th'[u].job \in Jobs THEN issued'[th'[u].job] ELSE 0
    <3>1. CASE u = t
      <4>1. \A i \in Jobs : issued'[i] \in Nat
        BY Zenon DEF TypeOK
      <4>2. CASE th'[t].job = j /\ th'[t].token = token
        BY <1>1, <3>1, <4>2, NatOrder, Zenon
      <4>3. CASE th'[t].token = 0
        BY <3>1, <4>1, <4>3, NatOrder, Zenon
      <4> QED BY <1>2, <4>2, <4>3, Zenon
    <3>2. CASE u # t
      <4>1. th'[u] = th[u] /\ th[u].token \in Nat
        BY <1>2, <3>2, ThreadType, Zenon
      <4>2. th[u].token <= IF th[u].job \in Jobs THEN issued[th[u].job] ELSE 0
        BY Zenon DEF TokensInv
      <4>3. CASE th[u].job = j
        <5>1. th[u].token <= issued[j]
          BY <4>2, <4>3, Zenon
        <5>2. th[u].token <= token
          BY <1>4, <4>1, <5>1, NatBelow, Zenon
        <5> QED BY <1>1, <4>1, <4>3, <5>2, Zenon
      <4>4. CASE th[u].job # j
        BY <1>1, <4>1, <4>2, <4>4, Zenon
      <4> QED BY <4>3, <4>4, Zenon
    <3> QED BY <3>1, <3>2, Zenon
  <2> QED BY <2>1, <2>2, Zenon DEF TokensInv
<1>7. AttemptInv'
  <2>1. \A u \in Threads \ {t} : th[u].job = j => th[u].token # token
    <3> SUFFICES ASSUME NEW u \in Threads, th[u].job = j
                 PROVE  th[u].token # token
      BY Zenon
    <3>1. th[u].token \in Nat /\ th[u].token <= issued[j]
      BY ThreadType, Zenon DEF TokensInv
    <3> QED BY <1>4, <3>1, NatBelow, Zenon
  <2>2. /\ ~ Finishing(t)' /\ \A u \in Threads \ {t} : Finishing(u)' => Finishing(u)
    BY <1>2, Zenon DEF Finishing
  <2>5. ASSUME NEW u \in Threads \ {t}
        PROVE  /\ th'[u].pc \in {"executing", "loaded", "fencing"} /\ holds_lease(u)' =>
                    th'[u].attempt = row'[th'[u].job].attempt
               /\ Finishing(u)' => th'[u].attempt = row'[th'[u].job].attempt
    <3> DEFINE i == th[u].job
    <3>0. th'[u] = th[u] /\ th'[u].job = i
      BY <1>2, Zenon
    <3>1. /\ holds_lease(u) <=> running[i].token # 0 /\ running[i].token = th[u].token
          /\ holds_lease(u)' <=> running'[i].token # 0 /\ running'[i].token = th[u].token
      BY <3>0, Zenon DEF holds_lease, is_running
    <3>2. th'[u].pc \in {"executing", "loaded", "fencing"} \/ Finishing(u)' => i \in Jobs
      BY <3>0, Zenon DEF CallsInv, Finishing
    <3>3. /\ th[u].pc \in {"executing", "loaded", "fencing"} /\ holds_lease(u) =>
               th[u].attempt = row[i].attempt
          /\ Finishing(u) => th[u].attempt = row[i].attempt /\ i # j
          /\ i = j => th[u].token # token
      BY <1>3, <2>1, Zenon DEF AttemptInv
    <3>4. Finishing(u)' => Finishing(u)
      BY <2>2, Zenon
    <3> HIDE DEF i
    <3> QED BY <1>1, <3>0, <3>1, <3>2, <3>3, <3>4, Zenon
  <2>6. ASSUME NEW u \in Threads
        PROVE  /\ th'[u].pc \in {"completing", "loaded", "fencing", "deciding"} =>
                    th'[u].outcome \in Reports
               /\ th'[u].pc = "persisting" => th'[u].outcome # "none"
               /\ th'[u].pc = "persisting" /\ th'[u].outcome = "RETRYING" =>
                    th'[u].attempt < MaxAttempts[th'[u].job]
               /\ th'[u].pc = "persisting" /\ th'[u].outcome \in Exhausted =>
                    th'[u].attempt >= MaxAttempts[th'[u].job]
    BY <1>2, Zenon DEF AttemptInv
  <2>7. th'[t].pc = "executing" => th'[t].attempt = row'[th'[t].job].attempt
    BY <1>1, <1>2, Zenon
  <2> QED BY <1>2, <2>2, <2>5, <2>6, <2>7, Zenon DEF AttemptInv
<1>8. HistoryInv'
  <2>0. \A a \in attempts : a.job \in Jobs /\ a.attempt \in Nat
    BY Zenon DEF TypeOK, Attempt
  <2>1. \A i \in Jobs : row'[i].state = "ABSENT" => row'[i].attempt = 0
    BY <1>1, Zenon DEF HistoryInv
  <2>2. /\ \A a \in attempts' : a.attempt <= row'[a.job].attempt
        /\ \A a \in attempts' : is_running(a.job)' => a.attempt # row'[a.job].attempt
    <3> SUFFICES ASSUME NEW a \in attempts
                 PROVE  /\ a.attempt <= row'[a.job].attempt
                        /\ is_running(a.job)' => a.attempt # row'[a.job].attempt
      BY <1>1, Zenon
    <3>1. /\ a.attempt <= row[a.job].attempt
          /\ is_running(a.job) => a.attempt # row[a.job].attempt
      BY Zenon DEF HistoryInv
    <3>3. CASE a.job = j
      <4>1. a.attempt <= row[j].attempt /\ a.attempt \in Nat
        BY <2>0, <3>1, <3>3, Zenon
      <4>2. a.attempt <= attempt /\ a.attempt # attempt
        BY <1>4, <4>1, NatBelow, Zenon
      <4> QED BY <1>1, <3>3, <4>2, Zenon
    <3>4. CASE a.job # j
      BY <1>1, <2>0, <3>1, <3>4, Zenon DEF is_running
    <3> QED BY <3>3, <3>4, Zenon
  <2>3. ASSUME NEW a \in attempts', NEW u \in Threads,
               th'[u].pc = "deciding", th'[u].job = a.job
        PROVE  a.attempt # th'[u].attempt
    <3>1. th'[u] = th[u] /\ a \in attempts
      BY <1>1, <1>2, <2>3, Zenon
    <3> QED BY <2>3, <3>1, Zenon DEF HistoryInv
  <2> QED BY <2>1, <2>2, <2>3, Zenon DEF HistoryInv
<1>9. LeaseMatchesRow'
  BY <1>1, Zenon DEF LeaseMatchesRow, is_running
<1>10. FinisherAlone'
  <2>1. ASSUME NEW u \in Threads, Finishing(u)'
        PROVE  /\ u # t /\ th'[u] = th[u] /\ Finishing(u)
               /\ th[u].job \in Jobs /\ th[u].job # j
    BY <1>2, <1>3, <2>1, Zenon DEF Finishing, CallsInv
  <2>2. ASSUME NEW u \in Threads, Finishing(u)'
        PROVE  /\ running'[th'[u].job].token = 0 /\ row'[th'[u].job].state = "RUNNING"
               /\ \A v \in Threads \ {u} : Finishing(v)' => th'[v].job # th'[u].job
    <3>1. /\ th'[u] = th[u] /\ row'[th[u].job] = row[th[u].job]
          /\ running'[th[u].job] = running[th[u].job]
          /\ running[th[u].job].token = 0 /\ row[th[u].job].state = "RUNNING"
      BY <1>1, <2>1, <2>2, Zenon DEF FinisherAlone, is_running
    <3>2. ASSUME NEW v \in Threads \ {u}, Finishing(v)'
          PROVE  th'[v].job # th[u].job
      BY <2>1, <2>2, <3>2, Zenon DEF FinisherAlone
    <3> QED BY <3>1, <3>2, Zenon
  <2> QED BY <2>2, Zenon DEF FinisherAlone, is_running
<1>11. CancelInv'
  <2>1. \A u \in Threads : th'[u].pc # "cancelling"
    BY <1>2, Zenon DEF run_mutex_free
  <2>2. \A i \in Jobs : row'[i].lease_token <= issued'[i]
    <3> SUFFICES ASSUME NEW i \in Jobs
                 PROVE  row'[i].lease_token <= issued'[i]
      BY Zenon
    <3>1. CASE i = j
      BY <1>1, <3>1, NatOrder, Zenon
    <3>2. CASE i # j
      BY <1>1, <3>2, RowTokens, Zenon
    <3> QED BY <3>1, <3>2, Zenon
  <2> QED BY <2>1, <2>2, Zenon DEF CancelInv
<1> QED BY <1>5, <1>6, <1>7, <1>8, <1>9, <1>10, <1>11, Zenon DEF EngineInv

LEMMA BeginStep ==
  ASSUME EngineInv, TypeOK', NEW t \in Threads, begin_attempt(t)
  PROVE  EngineInv'
<1> USE DEF storeVars, leaseVars
<1> DEFINE j == th[t].job
<1>0. /\ TypeOK /\ CallsInv /\ TokensInv /\ AttemptInv /\ HistoryInv
      /\ LeaseMatchesRow /\ FinisherAlone
  BY Zenon DEF EngineInv
<1>j. j \in Jobs /\ th[t].pc = "popped"
  BY CallJob, Zenon DEF begin_attempt, begin_attempt_refused, begin_attempt_cancelled,
     begin_attempt_started, begin_attempt_requeued, Jobless
<1>1. CASE begin_attempt_refused(t)
  BY <1>0, <1>1, RetiresReturn, QuietStep, Zenon DEF begin_attempt_refused
<1>2. CASE begin_attempt_cancelled(t)
  <2> DEFINE r == CancelledRow(j)
  <2>1. Retires(t)
    <3>1. Goto(t, "finished") /\ "finished" \notin Busy
      BY <1>2, Zenon DEF begin_attempt_cancelled, Busy
    <3> QED BY <1>0, <1>j, <3>1, RetiresGoto, Zenon
  <2>2. row[j].state \in Startable
    BY <1>2, Zenon DEF begin_attempt_cancelled
  <2>3. row' = row \/ row' = [row EXCEPT ![j] = r]
    BY <1>2, PersistRow, Zenon DEF begin_attempt_cancelled
  <2>4. CASE row' = row
    BY <1>2, <2>1, <2>4, QuietStep, Zenon DEF begin_attempt_cancelled
  <2>5. CASE row' = [row EXCEPT ![j] = r]
    <3>0. /\ r.attempt = row[j].attempt /\ r.state = "CANCELLED"
          /\ r.lease_token = row[j].lease_token
      BY Zenon DEF CancelledRow, JobRow
    <3> HIDE DEF r
    <3>1. /\ \A i \in Jobs \ {j} : row'[i] = row[i]
          /\ row'[j].attempt = row[j].attempt /\ row'[j].state = "CANCELLED"
          /\ row'[j].lease_token <= issued[j]
      <4>1. row \in [Jobs -> Row]
        BY <1>0, Zenon DEF TypeOK
      <4>2. row[j].lease_token <= issued[j]
        BY <1>j, Zenon DEF EngineInv, CancelInv
      <4> HIDE DEF j
      <4> QED BY <1>j, <2>5, <3>0, <4>1, <4>2, Zenon
    <3>2. running'[j].token = 0
      BY <1>2, <1>j, <2>2, WaitingNotRunning, Zenon DEF begin_attempt_cancelled, Startable
    <3>3. \A u \in Threads \ {t} : Finishing(u) \/ th[u].pc = "insert" => th[u].job # j
      BY <1>j, <2>2, NobodyElse, Zenon
    <3> HIDE DEF r, j
    <3> QED BY <1>2, <1>j, <2>1, <3>1, <3>2, <3>3, RowStep, ZenonT(60) DEF begin_attempt_cancelled, Startable
  <2> QED BY <2>3, <2>4, <2>5, Zenon
<1>4. CASE begin_attempt_requeued(t)
  <2>1. Goto(t, "enqueue") /\ "enqueue" \notin Busy
    BY <1>4, Zenon DEF begin_attempt_requeued, Busy
  <2>2. Retires(t)
    BY <1>0, <1>j, <2>1, RetiresGoto, Zenon
  <2> QED BY <1>4, <2>2, QuietStep, Zenon DEF begin_attempt_requeued
<1>3. CASE begin_attempt_started(t)
  <2> DEFINE token == issued[j] + 1
             attempt == row[j].attempt + 1
  <2>1. /\ row[j].state \in Startable
        /\ \A i \in Jobs \ {j} : /\ row'[i] = row[i] /\ running'[i] = running[i]
                                 /\ issued'[i] = issued[i]
        /\ row'[j].state = "RUNNING" /\ row'[j].attempt = attempt
        /\ row'[j].lease_token = token
        /\ running'[j].token = token /\ running'[j].attempt = attempt
        /\ issued'[j] = token /\ attempts' = attempts
    <3> DEFINE info == Leased(j, th[t].owner)
               r == JobRow("RUNNING", info.attempt, info.token, FALSE)
    <3>1. info.token = token /\ info.attempt = attempt
      BY Zenon DEF Leased
    <3>2. r.state = "RUNNING" /\ r.attempt = info.attempt /\ r.lease_token = info.token
      BY Zenon DEF JobRow
    <3>3. /\ row[j].state \in Startable /\ attempts' = attempts
          /\ row' = [row EXCEPT ![j] = r]
          /\ running' = [running EXCEPT ![j] = info]
          /\ issued' = [issued EXCEPT ![j] = info.token]
      BY <1>3, Zenon DEF begin_attempt_started
    <3>4. row \in [Jobs -> Row] /\ running \in [Jobs -> Lease] /\ issued \in [Jobs -> Nat]
      BY <1>0, Zenon DEF TypeOK
    <3> HIDE DEF info, r, j
    <3>5. /\ row'[j] = r /\ running'[j] = info /\ issued'[j] = info.token
          /\ \A i \in Jobs \ {j} : /\ row'[i] = row[i] /\ running'[i] = running[i]
                                   /\ issued'[i] = issued[i]
      BY <1>j, <3>3, <3>4, Zenon
    <3> QED BY <3>1, <3>2, <3>3, <3>5, Zenon
  <2>2. /\ \A u \in Threads \ {t} : th'[u] = th[u]
        /\ \/ /\ th'[t].pc = "executing" /\ th'[t].job = j
              /\ th'[t].token = token /\ th'[t].attempt = attempt
           \/ th'[t].pc = "idle" /\ th'[t].token = 0
    <3> DEFINE info == Leased(j, th[t].owner)
               L == Locals("executing", j, t, info.token, info.attempt, FALSE, "none")
    <3>1. info.token = token /\ info.attempt = attempt
      BY Zenon DEF Leased
    <3>2. th' = [th EXCEPT ![t] = L] \/ th' = [th EXCEPT ![t] = Idle]
      BY <1>3, Zenon DEF begin_attempt_started
    <3>3. L.pc = "executing" /\ L.job = j /\ L.token = info.token /\ L.attempt = info.attempt
      BY Zenon DEF Locals
    <3>4. Idle.pc = "idle" /\ Idle.token = 0
      BY Zenon DEF Idle, At, Locals
    <3>5. th \in [Threads -> Local]
      BY <1>0, Zenon DEF TypeOK
    <3> HIDE DEF j, token, attempt, L, info
    <3>6. (\A u \in Threads \ {t} : th'[u] = th[u]) /\ (th'[t] = L \/ th'[t] = Idle)
      BY <3>2, <3>5, Zenon
    <3> QED BY <3>1, <3>3, <3>4, <3>6, Zenon
  <2>4. /\ token \in Nat /\ token > issued[j] /\ issued[j] \in Nat
        /\ attempt \in Nat /\ attempt > row[j].attempt
    <3>1. issued[j] \in Nat /\ row[j].attempt \in Nat
      BY <1>0, <1>j, IssuedType, RowType, Zenon
    <3> HIDE DEF j
    <3> QED BY <3>1
  <2>5. run_mutex_free
    BY <1>3, Zenon DEF begin_attempt_started
  <2> HIDE DEF token, attempt, j
  <2>6. StartedRow(j, token, attempt) /\ StartedThread(t, j, token, attempt)
    BY <2>1, <2>2, Zenon DEF StartedRow, StartedThread
  <2> QED BY <1>j, <2>4, <2>5, <2>6, StartedStep, Zenon
<1> QED BY <1>1, <1>2, <1>3, <1>4, Zenon DEF begin_attempt
-----------------------------------------------------------------------------
(* finish_attempt keeps the invariant. *)

LEMMA FenceStep ==
  ASSUME EngineInv, TypeOK', NEW t \in Threads, finish_attempt_fence(t)
  PROVE  EngineInv'
<1> USE DEF storeVars, leaseVars
<1> DEFINE j == th[t].job
<1>0. /\ TypeOK /\ CallsInv /\ TokensInv /\ AttemptInv /\ HistoryInv
      /\ LeaseMatchesRow /\ FinisherAlone
  BY Zenon DEF EngineInv
<1> USE <1>0
<1>j. j \in Jobs /\ th[t].pc \in {"executing", "fencing"}
  BY CallJob, Zenon DEF finish_attempt_fence, Jobless
<1>1. CASE ~ holds_lease(t)
  <2>1. /\ Return(t) /\ row' = row /\ attempts' = attempts
        /\ issued' = issued /\ running' = running
    BY <1>1, Zenon DEF finish_attempt_fence
  <2> QED BY <2>1, RetiresReturn, QuietStep, Zenon
<1>2. CASE holds_lease(t)
  <2>1. PICK o \in Reported(t) : Proceed(t, "deciding", o)
    BY <1>2, Zenon DEF finish_attempt_fence
  <2>2. /\ \A u \in Threads \ {t} : th'[u] = th[u]
        /\ th'[t].pc = "deciding" /\ th'[t].outcome = o
        /\ th'[t].job = j /\ th'[t].token = th[t].token
        /\ th'[t].attempt = th[t].attempt
    BY <2>1, ProceedFields, Zenon
  <2>3. /\ row' = row /\ attempts' = attempts /\ issued' = issued
        /\ \A i \in Jobs \ {j} : running'[i] = running[i]
        /\ running'[j].token = 0
    <3>1. /\ row' = row /\ attempts' = attempts /\ issued' = issued
          /\ running' = [running EXCEPT ![j] = NoLease] /\ NoLease.token = 0
      BY <1>2, Zenon DEF finish_attempt_fence, NoLease
    <3>2. running \in [Jobs -> Lease]
      BY Zenon DEF TypeOK
    <3> HIDE DEF j
    <3> QED BY <1>j, <3>1, <3>2, Zenon
  <2>4. /\ is_running(j) /\ row[j].state = "RUNNING" /\ th[t].attempt = row[j].attempt
    BY <1>2, <1>j, Zenon DEF holds_lease, LeaseMatchesRow, AttemptInv
  <2>5. \A u \in Threads : Finishing(u) \/ th[u].pc = "insert" => th[u].job # j
    BY <1>j, <2>4, NobodyElse, Zenon
  <2>6. o \in Reports
    BY <1>j, <2>1, Zenon DEF Reported, Reports, AttemptInv
  <2> HIDE DEF j
  <2>7. CallsInv'
    <3>1. ASSUME NEW u \in Threads
          PROVE  /\ th'[u].job = th[u].job
                 /\ th'[u].pc = "insert" => th[u].pc = "insert"
                 /\ th'[u].pc \notin {"idle", "polling", "scanning", "exited"} =>
                      th[u].job \in Jobs
      <4>1. CASE u = t
        BY <1>j, <2>2, <4>1, Zenon DEF j
      <4>2. CASE u # t
        BY <2>2, <4>2, Zenon DEF CallsInv
      <4> QED BY <4>1, <4>2, Zenon
    <3>2. ASSUME NEW u \in Threads, th'[u].pc = "insert"
          PROVE  /\ row'[th'[u].job].state = "ABSENT"
                 /\ \A v \in Threads \ {u} : th'[v].pc = "insert" => th'[v].job # th'[u].job
      <4>1. th[u].pc = "insert" /\ th'[u].job = th[u].job
        BY <3>1, <3>2, Zenon
      <4>2. ASSUME NEW v \in Threads \ {u}, th'[v].pc = "insert"
            PROVE  th'[v].job # th[u].job
        BY <3>1, <4>1, <4>2, Zenon DEF CallsInv
      <4> QED BY <2>3, <4>1, <4>2, Zenon DEF CallsInv
    <3> QED BY <3>1, <3>2, Zenon DEF CallsInv
  <2>8. TokensInv'
    <3>1. \A u \in Threads : th'[u].job = th[u].job /\ th'[u].token = th[u].token
      BY <2>2, Zenon DEF j
    <3> QED BY <1>j, <2>3, <3>1, Zenon DEF TokensInv
  <2>9. AttemptInv'
    <3>1. ASSUME NEW u \in Threads \ {t}, th'[u].pc \in Busy
          PROVE  /\ th'[u] = th[u] /\ th[u].job \in Jobs
                 /\ holds_lease(u)' => holds_lease(u)
      <4>1. th'[u] = th[u] /\ th[u].job \in Jobs
        BY <2>2, <3>1, BusyJob, Zenon
      <4> QED BY <2>3, <4>1, Zenon DEF holds_lease, is_running
    <3>2. ASSUME NEW u \in Threads \ {t}
          PROVE  /\ th'[u].pc \in {"executing", "loaded", "fencing"} /\ holds_lease(u)' =>
                      th'[u].attempt = row'[th'[u].job].attempt
                 /\ Finishing(u)' => th'[u].attempt = row'[th'[u].job].attempt
                 /\ th'[u].pc \in {"completing", "loaded", "fencing", "deciding"} =>
                      th'[u].outcome \in Reports
                 /\ th'[u].pc = "persisting" => th'[u].outcome # "none"
                 /\ th'[u].pc = "persisting" /\ th'[u].outcome = "RETRYING" =>
                      th'[u].attempt < MaxAttempts[th'[u].job]
                 /\ th'[u].pc = "persisting" /\ th'[u].outcome \in Exhausted =>
                      th'[u].attempt >= MaxAttempts[th'[u].job]
      <4>1. CASE th'[u].pc \notin Busy
        BY <4>1, Zenon DEF Finishing, Busy
      <4>2. CASE th'[u].pc \in Busy
        BY <2>3, <3>1, <4>2, Zenon DEF AttemptInv, Finishing
      <4> QED BY <4>1, <4>2, Zenon
    <3>3. th'[t].attempt = row'[th'[t].job].attempt /\ th'[t].outcome \in Reports
      BY <2>2, <2>3, <2>4, <2>6, Zenon
    <3> QED BY <2>2, <3>2, <3>3, Zenon DEF AttemptInv
  <2>10. HistoryInv'
    <3>0. \A a \in attempts : a.job \in Jobs
      BY Zenon DEF TypeOK, Attempt
    <3>1. /\ \A a \in attempts' : a.attempt <= row'[a.job].attempt
          /\ \A a \in attempts' : is_running(a.job)' => a.attempt # row'[a.job].attempt
      BY <1>j, <2>3, <3>0, Zenon DEF HistoryInv, is_running
    <3>2. ASSUME NEW a \in attempts', NEW u \in Threads,
                 th'[u].pc = "deciding", th'[u].job = a.job
          PROVE  a.attempt # th'[u].attempt
      <4>1. CASE u = t
        <5>1. a \in attempts /\ a.job = j /\ th'[u].attempt = row[j].attempt
          BY <2>2, <2>3, <2>4, <3>2, <4>1, Zenon
        <5> QED BY <2>4, <5>1, Zenon DEF HistoryInv
      <4>2. CASE u # t
        <5>1. a \in attempts /\ th'[u] = th[u]
          BY <2>2, <2>3, <4>2, Zenon
        <5> QED BY <3>2, <5>1, Zenon DEF HistoryInv
      <4> QED BY <4>1, <4>2, Zenon
    <3> QED BY <2>3, <3>1, <3>2, Zenon DEF HistoryInv
  <2>11. LeaseMatchesRow'
    BY <2>3, Zenon DEF LeaseMatchesRow, is_running
  <2>12. FinisherAlone'
    <3>1. ASSUME NEW u \in Threads \ {t}, Finishing(u)'
          PROVE  /\ th'[u] = th[u] /\ Finishing(u)
                 /\ th[u].job \in Jobs /\ th[u].job # j
      <4>1. th'[u] = th[u] /\ Finishing(u)
        BY <2>2, <3>1, Zenon DEF Finishing
      <4>2. th[u].job \in Jobs
        BY <4>1, FinishingBusy, BusyJob, Zenon DEF Finishing
      <4> QED BY <2>5, <4>1, <4>2, Zenon
    <3>2. ASSUME NEW u \in Threads \ {t}, Finishing(u)'
          PROVE  /\ running'[th'[u].job].token = 0 /\ row'[th'[u].job].state = "RUNNING"
                 /\ \A v \in Threads \ {u} : Finishing(v)' => th'[v].job # th'[u].job
      <4>1. /\ th'[u] = th[u] /\ Finishing(u) /\ th[u].job # j
            /\ running'[th[u].job] = running[th[u].job]
            /\ running[th[u].job].token = 0 /\ row[th[u].job].state = "RUNNING"
        BY <2>3, <3>1, <3>2, Zenon DEF FinisherAlone, is_running
      <4>2. ASSUME NEW v \in Threads \ {u}, Finishing(v)'
            PROVE  th'[v].job # th[u].job
        <5>1. CASE v = t
          BY <2>2, <4>1, <5>1, Zenon
        <5>2. CASE v # t
          BY <3>1, <4>1, <4>2, <5>2, Zenon DEF FinisherAlone
        <5> QED BY <5>1, <5>2, Zenon
      <4> QED BY <2>3, <4>1, <4>2, Zenon
    <3>3. /\ running'[th'[t].job].token = 0 /\ row'[th'[t].job].state = "RUNNING"
          /\ \A v \in Threads \ {t} : Finishing(v)' => th'[v].job # th'[t].job
      BY <2>2, <2>3, <2>4, <3>1, Zenon
    <3> QED BY <3>2, <3>3, Zenon DEF FinisherAlone, is_running
  <2>13. CancelInv'
    <3>1. th'[t].pc # "cancelling"
      BY <2>2, Zenon
    <3>2. \A i \in Jobs : running'[i].token \in {0, running[i].token}
      BY <2>3, Zenon
    <3> QED BY <2>2, <2>3, <3>1, <3>2, RowTokens, CancelKept, Zenon
  <2> QED BY <2>7, <2>8, <2>9, <2>10, <2>11, <2>12, <2>13, Zenon DEF EngineInv
<1> QED BY <1>1, <1>2, Zenon

LEMMA RecordStep ==
  ASSUME EngineInv, TypeOK', NEW t \in Threads, finish_attempt_record(t)
  PROVE  EngineInv' /\ attempts \subseteq attempts'
<1> USE DEF storeVars, leaseVars
<1> DEFINE j == th[t].job
           ok == th[t].outcome = "SUCCEEDED"
           rec == [job |-> j, attempt |-> th[t].attempt, status |-> AttemptStatus(j, ok)]
           next == NextState(j, th[t].attempt, ok)
<1>0. /\ TypeOK /\ CallsInv /\ TokensInv /\ AttemptInv /\ HistoryInv
      /\ LeaseMatchesRow /\ FinisherAlone
  BY Zenon DEF EngineInv
<1> USE <1>0
<1>j. j \in Jobs /\ th[t].pc = "deciding"
  BY CallJob, Zenon DEF finish_attempt_record, Jobless
<1>1. /\ row' = row /\ issued' = issued /\ running' = running
      /\ attempts' = attempts \/ attempts' = Recorded(rec)
      /\ Proceed(t, "persisting", next)
  BY Zenon DEF finish_attempt_record
<1>2. rec.job = j /\ rec.attempt = th[t].attempt
  BY Zenon
<1>3. /\ next # "none" /\ (next = "RETRYING" => th[t].attempt < MaxAttempts[j])
      /\ next \in Exhausted => th[t].attempt >= MaxAttempts[j]
  <2>1. /\ next # "none" /\ (next = "RETRYING" => th[t].attempt < MaxAttempts[j])
        /\ next \in Exhausted => ~ th[t].attempt < MaxAttempts[j]
    BY <1>j, Zenon DEF NextState, RetryOr, TypeOK, Exhausted
  <2>2. th[t].attempt \in Nat /\ MaxAttempts[j] \in Nat
    BY <1>j, ThreadType, JobEngineAssumption, Zenon
  <2> HIDE DEF next, j
  <2> QED BY <2>1, <2>2
<1> HIDE DEF rec, next
<1>4. /\ \A u \in Threads \ {t} : th'[u] = th[u]
      /\ th'[t].pc = "persisting" /\ th'[t].outcome = next
      /\ th'[t].job = j /\ th'[t].token = th[t].token
      /\ th'[t].attempt = th[t].attempt
  BY <1>1, ProceedFields, Zenon
<1>5. /\ Finishing(t) /\ ~ is_running(j) /\ row[j].state = "RUNNING"
      /\ th[t].attempt = row[j].attempt
      /\ \A u \in Threads \ {t} : Finishing(u) => th[u].job # j
  BY <1>j, Zenon DEF Finishing, FinisherAlone, AttemptInv
<1>6. \A a \in attempts' : a \in attempts \/ a = rec
  BY <1>1, Zenon DEF Recorded
<1>7. attempts \subseteq attempts'
  <2>1. \A a \in attempts : a.job # j \/ a.attempt # th[t].attempt
    BY <1>j, Zenon DEF HistoryInv
  <2> QED BY <1>1, <1>2, <2>1, Zenon DEF Recorded
<1> HIDE DEF j
<1>8. CallsInv'
  <2>1. ASSUME NEW u \in Threads
        PROVE  /\ th'[u].job = th[u].job
               /\ th'[u].pc = "insert" => th[u].pc = "insert"
               /\ th'[u].pc \notin {"idle", "polling", "scanning", "exited"} =>
                    th[u].job \in Jobs
    <3>1. CASE u = t
      BY <1>j, <1>4, <3>1, Zenon DEF j
    <3>2. CASE u # t
      BY <1>4, <3>2, Zenon DEF CallsInv
    <3> QED BY <3>1, <3>2, Zenon
  <2>2. ASSUME NEW u \in Threads, th'[u].pc = "insert"
        PROVE  /\ row'[th'[u].job].state = "ABSENT"
               /\ \A v \in Threads \ {u} : th'[v].pc = "insert" => th'[v].job # th'[u].job
    <3>1. th[u].pc = "insert" /\ th'[u].job = th[u].job
      BY <2>1, <2>2, Zenon
    <3>2. ASSUME NEW v \in Threads \ {u}, th'[v].pc = "insert"
          PROVE  th'[v].job # th[u].job
      BY <2>1, <3>1, <3>2, Zenon DEF CallsInv
    <3> QED BY <1>1, <3>1, <3>2, Zenon DEF CallsInv
  <2> QED BY <2>1, <2>2, Zenon DEF CallsInv
<1>9. TokensInv'
  <2>1. \A u \in Threads : th'[u].job = th[u].job /\ th'[u].token = th[u].token
    BY <1>4, Zenon DEF j
  <2> QED BY <1>1, <2>1, Zenon DEF TokensInv
<1>10. AttemptInv'
  <2>1. ASSUME NEW u \in Threads \ {t}
        PROVE  /\ th'[u] = th[u] /\ (holds_lease(u)' => holds_lease(u))
               /\ (Finishing(u)' => Finishing(u))
    BY <1>1, <1>4, Zenon DEF holds_lease, is_running, Finishing
  <2>2. ~ th'[t].pc \in {"executing", "loaded", "fencing", "completing", "deciding"}
        /\ th'[t].attempt = row'[th'[t].job].attempt
    BY <1>1, <1>4, <1>5, Zenon
  <2> QED BY <1>1, <1>3, <1>4, <2>1, <2>2, ZenonT(60) DEF AttemptInv
<1>11. HistoryInv'
  <2>0. \A a \in attempts : a.job \in Jobs
    BY Zenon DEF TypeOK, Attempt
  <2>1. \A a \in attempts' : a.attempt <= row'[a.job].attempt
    <3> SUFFICES ASSUME NEW a \in attempts'
                 PROVE  a.attempt <= row[a.job].attempt
      BY <1>1, Zenon
    <3>1. CASE a \in attempts
      BY <3>1, Zenon DEF HistoryInv
    <3>2. CASE a = rec
      BY <1>j, <1>2, <1>5, <3>2, RowType, NatOrder, Zenon
    <3> QED BY <1>6, <3>1, <3>2, Zenon
  <2>2. \A a \in attempts' : is_running(a.job)' => a.attempt # row'[a.job].attempt
    BY <1>1, <1>2, <1>5, <1>6, Zenon DEF HistoryInv, is_running
  <2>3. ASSUME NEW a \in attempts', NEW u \in Threads,
               th'[u].pc = "deciding", th'[u].job = a.job
        PROVE  a.attempt # th'[u].attempt
    <3>1. u # t /\ th[u].pc = "deciding" /\ th[u].job # j
      BY <1>4, <1>5, <2>3, Zenon DEF Finishing
    <3>2. th'[u] = th[u] /\ a \in attempts
      BY <1>2, <1>4, <1>6, <2>3, <3>1, Zenon
    <3> QED BY <2>3, <3>2, Zenon DEF HistoryInv
  <2>4. \A i \in Jobs : row'[i].state = "ABSENT" => row'[i].attempt = 0
    BY <1>1, Zenon DEF HistoryInv
  <2> QED BY <2>1, <2>2, <2>3, <2>4, Zenon DEF HistoryInv
<1>12. LeaseMatchesRow'
  BY <1>1, Zenon DEF LeaseMatchesRow, is_running
<1>13. FinisherAlone'
  <2>1. ASSUME NEW u \in Threads, Finishing(u)'
        PROVE  Finishing(u) /\ th'[u].job = th[u].job
    BY <1>4, <1>5, <2>1, Zenon DEF Finishing, j
  <2>2. ASSUME NEW u \in Threads, Finishing(u)'
        PROVE  /\ running'[th'[u].job].token = 0 /\ row'[th'[u].job].state = "RUNNING"
               /\ \A v \in Threads \ {u} : Finishing(v)' => th'[v].job # th'[u].job
    <3>1. /\ Finishing(u) /\ th'[u].job = th[u].job
          /\ running[th[u].job].token = 0 /\ row[th[u].job].state = "RUNNING"
      BY <2>1, <2>2, Zenon DEF FinisherAlone, is_running
    <3>2. ASSUME NEW v \in Threads \ {u}, Finishing(v)'
          PROVE  th'[v].job # th[u].job
      BY <2>1, <3>1, <3>2, Zenon DEF FinisherAlone
    <3> QED BY <1>1, <3>1, <3>2, Zenon
  <2> QED BY <2>2, Zenon DEF FinisherAlone, is_running
<1>14. CancelInv'
  <2>1. th'[t].pc # "cancelling"
    BY <1>4, Zenon
  <2>2. \A i \in Jobs : running'[i].token \in {0, running[i].token}
    BY <1>1, Zenon
  <2> QED BY <1>1, <1>4, <2>1, <2>2, RowTokens, CancelKept, Zenon
<1> QED BY <1>7, <1>8, <1>9, <1>10, <1>11, <1>12, <1>13, <1>14, Zenon DEF EngineInv

LEMMA FinishStep ==
  ASSUME EngineInv, TypeOK', NEW t \in Threads, finish_attempt(t)
  PROVE  EngineInv'
<1> USE DEF storeVars, leaseVars
<1> DEFINE j == th[t].job
<1>0. /\ TypeOK /\ CallsInv /\ TokensInv /\ AttemptInv /\ HistoryInv
      /\ LeaseMatchesRow /\ FinisherAlone
  BY Zenon DEF EngineInv
<1>1. CASE finish_attempt_fence(t)
  BY <1>1, FenceStep, Zenon
<1>2. CASE finish_attempt_record(t)
  BY <1>2, RecordStep, Zenon
<1>3. CASE finish_attempt_persist(t)
  <2> DEFINE r == FinishedRow(t)
             label == IF th[t].outcome = "RETRYING" THEN "enqueue" ELSE "finished"
  <2>j. j \in Jobs /\ th[t].pc = "persisting"
    BY <1>3, CallJob, Zenon DEF finish_attempt_persist, Jobless
  <2>1. label \notin Busy /\ label \notin Jobless
    BY Zenon DEF Busy, Jobless
  <2>2. /\ Goto(t, label) /\ persist(j, r)
        /\ attempts' = attempts /\ issued' = issued /\ running' = running
    BY <1>3, Zenon DEF finish_attempt_persist
  <2>3. r.state = th[t].outcome /\ r.attempt = th[t].attempt /\ r.lease_token = 0
    BY Zenon DEF FinishedRow, JobRow
  <2> HIDE DEF label, r
  <2>4. Retires(t)
    BY <1>0, <2>j, <2>1, <2>2, RetiresGoto, Zenon
  <2>5. /\ Finishing(t) /\ running[j].token = 0 /\ row[j].state = "RUNNING"
        /\ th[t].attempt = row[j].attempt
        /\ \A u \in Threads \ {t} : Finishing(u) \/ th[u].pc = "insert" => th[u].job # j
    BY <1>0, <2>j, Zenon DEF Finishing, FinisherAlone, AttemptInv, is_running, CallsInv
  <2>6. CASE row' = row
    BY <2>2, <2>4, <2>6, QuietStep, Zenon
  <2>7. CASE row' = [row EXCEPT ![j] = r]
    <3>0. row \in [Jobs -> Row] /\ issued[j] \in Nat
      BY <1>0, <2>j, IssuedType, Zenon DEF TypeOK
    <3>o. th[t].outcome \in Outcomes
      BY <1>0, ThreadType, Zenon
    <3> HIDE DEF j
    <3>1. /\ \A i \in Jobs \ {j} : row'[i] = row[i]
          /\ row'[j].attempt = row[j].attempt /\ row'[j].state = th[t].outcome
          /\ row'[j].lease_token <= issued[j]
      BY <2>j, <2>3, <2>5, <2>7, <3>0
    <3>2. row'[j].state # "ABSENT"
      BY <3>1, <3>o, Zenon DEF Outcomes, Reports
    <3>3. /\ \A i \in Jobs \ {j} : row'[i] = row[i] /\ running'[i] = running[i]
          /\ running'[j].token = 0 /\ attempts' = attempts /\ issued' = issued
      BY <2>2, <2>5, <3>1, Zenon
    <3> QED BY <2>j, <2>4, <2>5, <3>1, <3>2, <3>3, RowStep, Zenon
  <2> QED BY <2>2, <2>6, <2>7, PersistRow, Zenon
<1>4. CASE enqueue(t)
  BY <1>0, <1>4, RetiresReturn, QuietStep, Zenon DEF enqueue
<1>5. CASE finish_terminal(t)
  BY <1>0, <1>5, RetiresReturn, QuietStep, Zenon DEF finish_terminal
<1> QED BY <1>1, <1>2, <1>3, <1>4, <1>5, Zenon DEF finish_attempt
-----------------------------------------------------------------------------

\* One row of the jobs table is replaced.
LEMMA RowExcept ==
  ASSUME TypeOK, NEW j \in Jobs, NEW r, row' = [row EXCEPT ![j] = r]
  PROVE  row'[j] = r /\ \A i \in Jobs \ {j} : row'[i] = row[i]
<1>1. row \in [Jobs -> Row]
  BY Zenon DEF TypeOK
<1> QED BY <1>1, Zenon

\* One thread moves.
LEMMA ThreadExcept ==
  ASSUME TypeOK, NEW t \in Threads, NEW next, th' = [th EXCEPT ![t] = next]
  PROVE  th'[t] = next /\ \A u \in Threads \ {t} : th'[u] = th[u]
<1>1. th \in [Threads -> Local]
  BY Zenon DEF TypeOK
<1> QED BY <1>1, Zenon

LEMMA SubmitStep ==
  ASSUME EngineInv, TypeOK', NEW c \in Threads, NEW j \in Jobs, submit_reserve(c, j)
  PROVE  EngineInv'
<1> USE DEF storeVars, leaseVars
<1>0. /\ TypeOK /\ CallsInv /\ TokensInv /\ AttemptInv /\ HistoryInv
      /\ LeaseMatchesRow /\ FinisherAlone
  BY Zenon DEF EngineInv
<1>1. /\ row[j].state = "ABSENT" /\ row' = row /\ attempts' = attempts
      /\ issued' = issued /\ running' = running /\ \A u \in Threads : th[u].job # j
  BY Zenon DEF submit_reserve
<1>2. /\ \A u \in Threads \ {c} : th'[u] = th[u]
      /\ th'[c] = At("insert", j, Nobody)
  BY <1>0, Zenon DEF submit_reserve, TypeOK
<1>3. th'[c].pc = "insert" /\ th'[c].job = j /\ th'[c].token = 0
  BY <1>2, AtFields
<1>4. CallsInv'
  BY <1>0, <1>1, <1>2, <1>3 DEF CallsInv
<1>5. TokensInv'
  BY <1>0, <1>1, <1>2, <1>3 DEF TokensInv, TypeOK
<1>6. AttemptInv'
  BY <1>0, <1>1, <1>2, <1>3, ZenonT(60) DEF AttemptInv, Finishing, holds_lease, is_running
<1>7. HistoryInv'
  BY <1>0, <1>1, <1>2, <1>3 DEF HistoryInv, is_running
<1>8. LeaseMatchesRow'
  BY <1>0, <1>1, Zenon DEF LeaseMatchesRow, is_running
<1>9. FinisherAlone'
  BY <1>0, <1>1, <1>2, <1>3 DEF FinisherAlone, Finishing, is_running
<1>10. CancelInv'
  BY <1>1, <1>2, <1>3, CancelKept, Zenon DEF EngineInv, CancelInv
<1> QED BY <1>4, <1>5, <1>6, <1>7, <1>8, <1>9, <1>10, Zenon DEF EngineInv

\* cancel writes back a RUNNING row of the same attempt, under the same lease if there
\* still is one.
LEMMA CancelFlagStep ==
  ASSUME EngineInv, TypeOK', NEW c \in Threads, cancel_flag(c)
  PROVE  EngineInv'
<1> USE DEF storeVars, leaseVars
<1> DEFINE j == th[c].job
<1>0. /\ TypeOK /\ CallsInv /\ TokensInv /\ CancelInv /\ AttemptInv /\ HistoryInv
      /\ LeaseMatchesRow /\ FinisherAlone
  BY Zenon DEF EngineInv
<1>j. /\ j \in Jobs /\ th[c].pc = "cancelling" /\ row[j].state # "ABSENT"
      /\ th[c].attempt = row[j].attempt /\ th[c].token <= issued[j]
      /\ is_running(j) => th[c].token = running[j].token
  BY <1>0, CallJob, Zenon DEF cancel_flag, Jobless, CancelInv, TokensInv
<1>1. attempts' = attempts /\ issued' = issued /\ running' = running /\ Retires(c)
  BY <1>0, RetiresReturn, Zenon DEF cancel_flag
<1>2. /\ \A i \in Jobs \ {j} : row'[i] = row[i]
      /\ row'[j].state = "RUNNING" /\ row'[j].attempt = row[j].attempt
      /\ row'[j].lease_token = th[c].token
  <2> DEFINE r == JobRow("RUNNING", th[c].attempt, th[c].token, TRUE)
  <2>1. r.state = "RUNNING" /\ r.attempt = th[c].attempt /\ r.lease_token = th[c].token
    BY Zenon DEF JobRow
  <2>2. row' = [row EXCEPT ![j] = r]
    BY Zenon DEF cancel_flag
  <2> HIDE DEF r, j
  <2>3. row'[j] = r /\ \A i \in Jobs \ {j} : row'[i] = row[i]
    BY <1>0, <1>j, <2>2, RowExcept, Zenon
  <2> QED BY <1>j, <2>1, <2>3, Zenon
<1> HIDE DEF j
<1>3. CallsInv'
  BY <1>0, <1>j, <1>1, <1>2 DEF CallsInv, Retires, Busy, Jobless
<1>4. TokensInv'
  BY <1>0, <1>1, Zenon DEF TokensInv, Retires
<1>5. AttemptInv'
  <2>1. ASSUME NEW u \in Threads, th'[u].pc \in Busy
        PROVE  th'[u] = th[u] /\ th[u].job \in Jobs
    BY <1>0, <1>1, <2>1, Zenon DEF CallsInv, Retires, Busy
  <2>2. \A i \in Jobs : row'[i].attempt = row[i].attempt
    BY <1>2, Zenon
  <2>3. ASSUME NEW u \in Threads, th'[u].pc \in {"executing", "loaded", "fencing"}, holds_lease(u)'
        PROVE  th'[u].attempt = row'[th'[u].job].attempt
    BY <1>0, <1>1, <2>1, <2>2, <2>3, SMTT(30) DEF AttemptInv, holds_lease, is_running, Busy
  <2>4. ASSUME NEW u \in Threads, Finishing(u)'
        PROVE  th'[u].attempt = row'[th'[u].job].attempt
    BY <1>0, <2>1, <2>2, <2>4 DEF AttemptInv, Finishing, Busy
  <2>5. ASSUME NEW u \in Threads
        PROVE  /\ th'[u].pc \in {"completing", "loaded", "fencing", "deciding"} =>
                    th'[u].outcome \in Reports
               /\ th'[u].pc = "persisting" => th'[u].outcome # "none"
               /\ th'[u].pc = "persisting" /\ th'[u].outcome = "RETRYING" =>
                    th'[u].attempt < MaxAttempts[th'[u].job]
               /\ th'[u].pc = "persisting" /\ th'[u].outcome \in Exhausted =>
                    th'[u].attempt >= MaxAttempts[th'[u].job]
    BY <1>0, <2>1, Zenon DEF AttemptInv, Busy
  <2> QED BY <2>3, <2>4, <2>5, Zenon DEF AttemptInv
<1>6. HistoryInv'
  <2>1. \A a \in attempts : a.job \in Jobs
    BY <1>0, Zenon DEF TypeOK, Attempt
  <2>2. \A i \in Jobs : /\ row'[i].attempt = row[i].attempt
                        /\ row'[i].state = row[i].state \/ row'[i].state = "RUNNING"
    BY <1>j, <1>2, Zenon
  <2>3. \A a \in attempts', u \in Threads :
          th'[u].pc = "deciding" /\ th'[u].job = a.job => a.attempt # th'[u].attempt
    BY <1>0, <1>1 DEF HistoryInv, Retires, Busy
  <2>4. \A i \in Jobs : row'[i].state = "ABSENT" => row'[i].attempt = 0
    BY <1>0, <2>2, Zenon DEF HistoryInv
  <2>5. /\ \A a \in attempts' : a.attempt <= row'[a.job].attempt
        /\ \A a \in attempts' : is_running(a.job)' => a.attempt # row'[a.job].attempt
    BY <1>0, <1>1, <2>1, <2>2, Zenon DEF HistoryInv, is_running
  <2> QED BY <2>3, <2>4, <2>5, Zenon DEF HistoryInv
<1>7. LeaseMatchesRow'
  BY <1>0, <1>j, <1>1, <1>2, Zenon DEF LeaseMatchesRow, is_running
<1>8. FinisherAlone'
  <2>1. ASSUME NEW u \in Threads, Finishing(u)'
        PROVE  Finishing(u) /\ th'[u].job = th[u].job /\ th[u].job \in Jobs
    BY <1>0, <1>1, <2>1, Zenon DEF CallsInv, Retires, Busy, Finishing
  <2>2. \A i \in Jobs : row[i].state = "RUNNING" => row'[i].state = "RUNNING"
    BY <1>2, Zenon
  <2> QED BY <1>0, <1>1, <2>1, <2>2, Zenon DEF FinisherAlone, is_running
<1>9. CancelInv'
  BY <1>0, <1>j, <1>1, <1>2, CancelKept, Zenon DEF CancelInv, Retires, Busy
<1> QED BY <1>3, <1>4, <1>5, <1>6, <1>7, <1>8, <1>9, Zenon DEF EngineInv

LEMMA CancelWaitingStep ==
  ASSUME EngineInv, TypeOK', NEW c \in Threads, NEW j \in Jobs, cancel_waiting(c, j)
  PROVE  EngineInv'
<1> USE DEF storeVars, leaseVars
<1> DEFINE r == CancelledRow(j)
<1>0. TypeOK /\ TokensInv
  BY Zenon DEF EngineInv
<1>1. PICK ok \in StoreOutcome :
        /\ row' = Stored(j, r, ok)
        /\ th' = IF ok THEN [th EXCEPT ![c] = At("finished", j, Nobody)] ELSE th
  BY Zenon DEF cancel_waiting
<1>2. /\ attempts' = attempts /\ issued' = issued /\ running' = running
      /\ row[j].state \in Startable /\ th[c].pc = "idle"
  BY Zenon DEF cancel_waiting
<1>3. CASE ~ ok
  <2>1. row' = row /\ th' = th
    BY <1>1, <1>3, Zenon DEF Stored
  <2>2. Retires(c)
    BY <1>0, <1>2, <2>1, Zenon DEF Retires, TokensInv, Busy, Jobless
  <2> QED BY <1>2, <2>1, <2>2, QuietStep, Zenon
<1>4. CASE ok
  <2>1. Retires(c)
    <3>1. th' = [th EXCEPT ![c] = At("finished", j, Nobody)] /\ "finished" \notin Busy
      BY <1>1, <1>4, Zenon DEF Busy
    <3> QED BY <1>0, <3>1, RetiresAt, Zenon
  <2>2. /\ r.attempt = row[j].attempt /\ r.state = "CANCELLED"
        /\ r.lease_token = row[j].lease_token
    BY Zenon DEF CancelledRow, JobRow
  <2>3. row' = [row EXCEPT ![j] = r]
    BY <1>1, <1>4, Zenon DEF Stored
  <2> HIDE DEF r
  <2>4. /\ \A i \in Jobs \ {j} : row'[i] = row[i]
        /\ row'[j].attempt = row[j].attempt /\ row'[j].state = "CANCELLED"
        /\ row'[j].lease_token <= issued[j]
    <3>1. row'[j] = r /\ \A i \in Jobs \ {j} : row'[i] = row[i]
      BY <1>0, <2>3, RowExcept, Zenon
    <3> QED BY <2>2, <3>1, RowTokens, Zenon
  <2>5. running'[j].token = 0
    BY <1>2, WaitingNotRunning, Zenon DEF Startable
  <2>6. \A u \in Threads \ {c} : Finishing(u) \/ th[u].pc = "insert" => th[u].job # j
    BY <1>2, NobodyElse, Zenon
  <2> QED BY <1>2, <2>1, <2>4, <2>5, <2>6, RowStep
<1> QED BY <1>3, <1>4, Zenon

LEMMA InsertStep ==
  ASSUME EngineInv, TypeOK', NEW c \in Threads, submit_insert(c)
  PROVE  EngineInv'
<1> USE DEF storeVars, leaseVars
<1> DEFINE j == th[c].job
<1>0. TypeOK /\ CallsInv /\ TokensInv /\ HistoryInv /\ FinisherAlone
  BY Zenon DEF EngineInv
<1>j. /\ j \in Jobs /\ th[c].pc = "insert" /\ row[j].state = "ABSENT"
  BY <1>0, Zenon DEF submit_insert, CallsInv
<1>1. PICK s \in {"QUEUED", "SCHEDULED"} : row' = [row EXCEPT ![j] = JobRow(s, 0, 0, FALSE)]
  BY Zenon DEF submit_insert
<1>2. /\ JobRow(s, 0, 0, FALSE).attempt = 0 /\ JobRow(s, 0, 0, FALSE).state = s
      /\ JobRow(s, 0, 0, FALSE).lease_token = 0
  BY Zenon DEF JobRow
<1>3. /\ \A i \in Jobs \ {j} : row'[i] = row[i]
      /\ row'[j].attempt = row[j].attempt /\ row'[j].state = s
      /\ row'[j].lease_token <= issued[j]
  <2>2. row'[j] = JobRow(s, 0, 0, FALSE) /\ \A i \in Jobs \ {j} : row'[i] = row[i]
    BY <1>0, <1>1, <1>j, RowExcept, Zenon
  <2>3. 0 <= issued[j] /\ row[j].attempt = 0
    BY <1>0, <1>j DEF TypeOK, HistoryInv
  <2> QED BY <1>2, <2>2, <2>3, Zenon
<1>5. attempts' = attempts /\ issued' = issued /\ running' = running /\ Goto(c, "enqueue")
  BY Zenon DEF submit_insert
<1>6. running'[j].token = 0
  BY <1>j, <1>5, WaitingNotRunning, Zenon
<1>7. \A u \in Threads \ {c} : Finishing(u) \/ th[u].pc = "insert" => th[u].job # j
  BY <1>0, <1>j, Zenon DEF CallsInv, FinisherAlone
<1>8. Retires(c)
  <2>1. "enqueue" \notin Busy
    BY Zenon DEF Busy
  <2> QED BY <1>0, <1>j, <1>5, <2>1, RetiresGoto, Zenon
<1> HIDE DEF j
<1> QED BY <1>j, <1>3, <1>5, <1>6, <1>7, <1>8, RowStep

\* complete() and cancel() read the tables and write them in a later section.
LEMMA CallStep ==
  ASSUME EngineInv, TypeOK', NEW c \in Threads, NEW j \in Jobs,
         /\ row' = row /\ attempts' = attempts /\ issued' = issued /\ running' = running,
         \A u \in Threads \ {c} : th'[u] = th[u],
         th'[c].job = j, th'[c].token <= issued[j],
         \/ th'[c].pc = "completing" /\ th'[c].outcome \in Reports
         \/ /\ th'[c].pc = "loaded" /\ th'[c].attempt = row[j].attempt
            /\ th'[c].outcome \in Reports
         \/ /\ th'[c].pc = "fencing" /\ th'[c].outcome \in Reports
            /\ is_running(j) /\ running[j].token = th'[c].token =>
                 th'[c].attempt = row[j].attempt
         \/ /\ th'[c].pc = "cancelling" /\ th'[c].attempt = row[j].attempt
            /\ row[j].state = "RUNNING" /\ th'[c].token = row[j].lease_token
  PROVE  EngineInv'
<1>0. /\ TypeOK /\ CallsInv /\ TokensInv /\ CancelInv /\ AttemptInv /\ HistoryInv
      /\ LeaseMatchesRow /\ FinisherAlone
  BY Zenon DEF EngineInv
<1>1. CallsInv'
  BY <1>0 DEF CallsInv
<1>2. TokensInv'
  BY <1>0, Zenon DEF TokensInv
<1>3. AttemptInv'
  <2>1. \A u \in Threads \ {c} : /\ holds_lease(u)' <=> holds_lease(u)
                                 /\ Finishing(u)' <=> Finishing(u)
    BY Zenon DEF holds_lease, is_running, Finishing
  <2>2. ~ Finishing(c)' /\ th'[c].pc \notin {"executing", "deciding", "persisting"}
    BY Zenon DEF Finishing
  <2>3. th'[c].pc \in {"completing", "loaded", "fencing", "deciding"} => th'[c].outcome \in Reports
    BY <2>2, Zenon
  <2>4. th'[c].pc \in {"executing", "loaded", "fencing"} /\ holds_lease(c)' =>
          th'[c].attempt = row'[th'[c].job].attempt
    BY <2>2, Zenon DEF holds_lease, is_running
  <2>5. ASSUME NEW u \in Threads
        PROVE  /\ th'[u].pc \in {"executing", "loaded", "fencing"} /\ holds_lease(u)' =>
                    th'[u].attempt = row'[th'[u].job].attempt
               /\ Finishing(u)' => th'[u].attempt = row'[th'[u].job].attempt
    <3>1. CASE u = c  BY <2>2, <2>4, <3>1, Zenon
    <3>2. CASE u # c
      <4>1. th'[u] = th[u] /\ (holds_lease(u)' => holds_lease(u)) /\ (Finishing(u)' => Finishing(u))
        BY <2>1, <3>2, Zenon
      <4> QED BY <1>0, <4>1, Zenon DEF AttemptInv
    <3> QED BY <3>1, <3>2, Zenon
  <2>6. ASSUME NEW u \in Threads
        PROVE  /\ th'[u].pc \in {"completing", "loaded", "fencing", "deciding"} =>
                    th'[u].outcome \in Reports
               /\ th'[u].pc = "persisting" => th'[u].outcome # "none"
               /\ th'[u].pc = "persisting" /\ th'[u].outcome = "RETRYING" =>
                    th'[u].attempt < MaxAttempts[th'[u].job]
               /\ th'[u].pc = "persisting" /\ th'[u].outcome \in Exhausted =>
                    th'[u].attempt >= MaxAttempts[th'[u].job]
    <3>1. CASE u = c  BY <2>2, <2>3, <3>1, Zenon
    <3>2. CASE u # c  BY <1>0, <3>2, Zenon DEF AttemptInv
    <3> QED BY <3>1, <3>2, Zenon
  <2> QED BY <2>5, <2>6, Zenon DEF AttemptInv
<1>4. HistoryInv'
  BY <1>0 DEF HistoryInv, is_running
<1>5. LeaseMatchesRow'
  BY <1>0, Zenon DEF LeaseMatchesRow, is_running
<1>6. FinisherAlone'
  <2>1. ~ Finishing(c)' /\ \A u \in Threads \ {c} : (Finishing(u)' <=> Finishing(u))
    BY Zenon DEF Finishing
  <2>2. \A i : is_running(i)' <=> is_running(i)
    BY Zenon DEF is_running
  <2> QED BY <1>0, <2>1, <2>2 DEF FinisherAlone
<1>7. CancelInv'
  <2>1. \A i : is_running(i)' <=> is_running(i)
    BY Zenon DEF is_running
  <2>2. is_running(j) => row[j].lease_token = running[j].token
    BY <1>0, Zenon DEF LeaseMatchesRow
  <2> QED BY <1>0, <2>1, <2>2, ZenonT(60) DEF CancelInv
<1> QED BY <1>1, <1>2, <1>3, <1>4, <1>5, <1>6, <1>7, Zenon DEF EngineInv

LEMMA ClientStepInv ==
  ASSUME EngineInv, TypeOK', NEW c \in Clients, ClientStep(c) \/ ClientCall(c)
  PROVE  EngineInv'
<1> USE DEF storeVars, leaseVars
<1>t. c \in Threads
  BY Zenon DEF Threads
<1>0. TypeOK /\ CallsInv /\ TokensInv /\ AttemptInv
  BY Zenon DEF EngineInv
<1>1. CASE submit_insert(c)
  BY <1>1, <1>t, InsertStep, Zenon
<1>2. CASE submit_insert_fails(c)
  BY <1>0, <1>2, <1>t, RetiresReturn, QuietStep, Zenon DEF submit_insert_fails
<1>3. CASE claim_pop(c)
  <2>1. PICK j \in queue : th' = [th EXCEPT ![c] = At("popped", j, th[c].owner)]
    BY <1>0, <1>3, <1>t, Zenon DEF claim_pop, TypeOK
  <2>2. j \in Jobs /\ "popped" \notin Busy
    BY <1>0, Zenon DEF TypeOK, Busy
  <2>3. Retires(c)
    BY <1>0, <1>t, <2>1, <2>2, RetiresAt, Zenon
  <2> QED BY <1>3, <1>t, <2>3, QuietStep, Zenon DEF claim_pop
<1>4. CASE claim_empty(c)
  BY <1>0, <1>4, <1>t, RetiresReturn, QuietStep, Zenon DEF claim_empty
<1>5. CASE begin_attempt(c)
  BY <1>5, <1>t, BeginStep, Zenon
<1>6. CASE complete_load(c)
  <2> DEFINE j == th[c].job
             next == Locals("loaded", j, th[c].owner, th[c].token, row[j].attempt,
                            row[j].cancel_requested, th[c].outcome)
  <2>j. j \in Jobs /\ th[c].pc = "completing"
    BY <1>6, <1>t, CallJob, SMTT(30) DEF complete_load, Jobless
  <2>1. /\ next.pc = "loaded" /\ next.job = j /\ next.token = th[c].token
        /\ next.attempt = row[j].attempt /\ next.outcome = th[c].outcome
    BY Zenon DEF Locals
  <2>2. th' = [th EXCEPT ![c] = next]
    BY <1>0, <1>6, <1>t, Zenon DEF complete_load, TypeOK
  <2> HIDE DEF next
  <2>3. (\A u \in Threads \ {c} : th'[u] = th[u]) /\ th'[c] = next
    BY <1>0, <1>t, <2>2, ThreadExcept, Zenon
  <2>4. th[c].token <= issued[j] /\ th[c].outcome \in Reports
    BY <1>0, <1>t, <2>j, Zenon DEF TokensInv, AttemptInv
  <2>5. row' = row /\ attempts' = attempts /\ issued' = issued /\ running' = running
    BY <1>6, Zenon DEF complete_load
  <2> HIDE DEF j
  <2> QED BY <1>t, <2>j, <2>1, <2>3, <2>4, <2>5, CallStep, Zenon
<1>14. CASE complete_reason(c)
  <2> DEFINE j == th[c].job
  <2>j. j \in Jobs /\ th[c].pc = "loaded" /\ Proceed(c, "fencing", th[c].outcome)
    BY <1>14, <1>t, CallJob, SMTT(30) DEF complete_reason, Jobless, Goto
  <2>1. /\ \A u \in Threads \ {c} : th'[u] = th[u]
        /\ th'[c].pc = "fencing" /\ th'[c].outcome = th[c].outcome
        /\ th'[c].job = j /\ th'[c].token = th[c].token /\ th'[c].attempt = th[c].attempt
    BY <1>0, <1>t, <2>j, ProceedFields, Zenon
  <2>2. th[c].token <= issued[j] /\ th[c].outcome \in Reports
    BY <1>0, <1>t, <2>j, Zenon DEF TokensInv, AttemptInv
  <2>3. is_running(j) /\ running[j].token = th[c].token => th[c].attempt = row[j].attempt
    BY <1>0, <1>t, <2>j, Zenon DEF AttemptInv, holds_lease
  <2>4. row' = row /\ attempts' = attempts /\ issued' = issued /\ running' = running
    BY <1>14, Zenon DEF complete_reason
  <2> HIDE DEF j
  <2> QED BY <1>t, <2>j, <2>1, <2>2, <2>3, <2>4, CallStep, Zenon
<1>7. CASE finish_attempt(c)
  BY <1>7, <1>t, FinishStep, Zenon
<1>8. ASSUME NEW j \in Jobs, submit_reserve(c, j) \/ cancel_waiting(c, j)
      PROVE  EngineInv'
  BY <1>8, <1>t, SubmitStep, CancelWaitingStep, Zenon
<1>11. ASSUME NEW j \in Jobs, cancel_load(c, j)
       PROVE  EngineInv'
  <2> DEFINE next == Locals("cancelling", j, Nobody, row[j].lease_token, row[j].attempt,
                            TRUE, "none")
  <2>1. /\ next.pc = "cancelling" /\ next.job = j /\ next.token = row[j].lease_token
        /\ next.attempt = row[j].attempt
    BY Zenon DEF Locals
  <2>2. th' = [th EXCEPT ![c] = next]
    BY <1>11, Zenon DEF cancel_load
  <2> HIDE DEF next
  <2>3. (\A u \in Threads \ {c} : th'[u] = th[u]) /\ th'[c] = next
    BY <1>0, <1>t, <2>2, ThreadExcept, Zenon
  <2>4. row[j].lease_token <= issued[j]
    BY RowTokens, Zenon
  <2>5. /\ row' = row /\ attempts' = attempts /\ issued' = issued /\ running' = running
        /\ row[j].state = "RUNNING"
    BY <1>11, Zenon DEF cancel_load
  <2> QED BY <1>t, <2>1, <2>3, <2>4, <2>5, CallStep, Zenon
<1>12. CASE cancel_flag(c)
  BY <1>12, <1>t, CancelFlagStep, Zenon
<1>13. CASE cancel_flag_fails(c)
  BY <1>0, <1>13, <1>t, RetiresReturn, QuietStep, Zenon DEF cancel_flag_fails
<1>9. ASSUME NEW r \in RemoteWorkers, claim_arrive(c, r)
      PROVE  EngineInv'
  <2>1. CASE stop_requested
    <3>1. th' = th /\ th[c].pc = "idle"
      BY <1>9, <2>1, Zenon DEF claim_arrive
    <3>2. Retires(c)
      BY <1>0, <1>t, <3>1, Zenon DEF Retires, TokensInv, Busy, Jobless
    <3> QED BY <1>9, <1>t, <3>2, QuietStep, Zenon DEF claim_arrive
  <2>2. CASE ~ stop_requested
    <3>1. th' = [th EXCEPT ![c] = At("polling", Nobody, r)]
      BY <1>9, <2>2, Zenon DEF claim_arrive
    <3>2. "polling" \notin Busy /\ "polling" \in Jobless
      BY Zenon DEF Busy, Jobless
    <3>3. Retires(c)
      BY <1>0, <1>t, <3>1, <3>2, RetiresAt, ZenonT(30)
    <3> QED BY <1>9, <1>t, <3>3, QuietStep, Zenon DEF claim_arrive
  <2> QED BY <2>1, <2>2, Zenon
<1>10. ASSUME NEW r \in RemoteWorkers, NEW j \in Jobs, NEW token \in 1..issued[j],
              NEW attempt \in 1..row[j].attempt, NEW status \in Reports,
              complete_check(c, r, j, token, attempt, status)
       PROVE  EngineInv'
  <2> DEFINE next == Locals("completing", j, r, token, 0, FALSE, status)
  <2>1. next.pc = "completing" /\ next.job = j /\ next.token = token /\ next.outcome = status
    BY Zenon DEF Locals
  <2>2. th' = [th EXCEPT ![c] = next]
    BY <1>10, Zenon DEF complete_check
  <2> HIDE DEF next
  <2>3. (\A u \in Threads \ {c} : th'[u] = th[u]) /\ th'[c] = next
    BY <1>0, <1>t, <2>2, ThreadExcept, Zenon
  <2>4. token <= issued[j]
    BY <1>0 DEF TypeOK
  <2>5. row' = row /\ attempts' = attempts /\ issued' = issued /\ running' = running
    BY <1>10, Zenon DEF complete_check
  <2> QED BY <1>t, <2>1, <2>3, <2>4, <2>5, CallStep, Zenon
<1> QED BY <1>1, <1>2, <1>3, <1>4, <1>5, <1>6, <1>7, <1>8, <1>9, <1>10, <1>11, <1>12,
        <1>13, <1>14, Zenon DEF ClientStep, ClientCall

LEMMA WorkerStepInv ==
  ASSUME EngineInv, TypeOK', NEW w \in Workers, WorkerStep(w)
  PROVE  EngineInv'
<1> USE DEF storeVars, leaseVars
<1>t. w \in Threads
  BY Zenon DEF Threads
<1>0. TypeOK /\ CallsInv /\ TokensInv
  BY Zenon DEF EngineInv
<1>1. CASE worker_pop(w)
  <2>1. PICK j \in queue :
          th' = [th EXCEPT ![w] = IF stop_requested /\ ~ drain
                                  THEN At("exited", Nobody, Nobody) ELSE At("popped", j, w)]
    BY <1>1, Zenon DEF worker_pop
  <2>2. j \in Jobs /\ {"popped", "exited"} \cap Busy = {} /\ "exited" \in Jobless
    BY <1>0, Zenon DEF TypeOK, Busy, Jobless
  <2>3. Retires(w)
    <3>1. CASE th' = [th EXCEPT ![w] = At("exited", Nobody, Nobody)]
      BY <1>0, <1>t, <2>2, <3>1, RetiresAt, Zenon
    <3>2. CASE th' = [th EXCEPT ![w] = At("popped", j, w)]
      BY <1>0, <1>t, <2>2, <3>2, RetiresAt, Zenon
    <3> QED BY <2>1, <3>1, <3>2, Zenon
  <2> QED BY <1>1, <1>t, <2>3, QuietStep, Zenon DEF worker_pop
<1>2. CASE worker_exit(w)
  <2>1. Goto(w, "exited") /\ "exited" \notin Busy /\ "exited" \in Jobless
    BY <1>2, Zenon DEF worker_exit, Busy, Jobless
  <2>2. Retires(w)
    BY <1>0, <1>t, <2>1, RetiresGoto, Zenon
  <2> QED BY <1>2, <1>t, <2>2, QuietStep, Zenon DEF worker_exit
<1> QED BY <1>1, <1>2, <1>t, BeginStep, FinishStep, Zenon DEF WorkerStep

\* Steps of remote workers, of time and of stop(): no thread moves, no lease changes hands.
LEMMA OutsideStep ==
  ASSUME EngineInv, TypeOK', th' = th, row' = row, attempts' = attempts, issued' = issued,
         \A j \in Jobs : /\ running'[j].token = running[j].token
                         /\ running'[j].attempt = running[j].attempt
  PROVE  EngineInv'
<1>0. /\ TypeOK /\ CallsInv /\ TokensInv /\ AttemptInv /\ HistoryInv
      /\ LeaseMatchesRow /\ FinisherAlone
  BY Zenon DEF EngineInv
<1>1. CallsInv' /\ TokensInv'
  BY <1>0, SMTT(30) DEF CallsInv, TokensInv
<1>2. AttemptInv'
  BY <1>0, Zenon DEF AttemptInv, CallsInv, Finishing, holds_lease, is_running
<1>3. HistoryInv'
  <2>1. \A a \in attempts : a.job \in Jobs
    BY <1>0, Zenon DEF TypeOK, Attempt
  <2> QED BY <1>0, <2>1, Zenon DEF HistoryInv, is_running
<1>4. LeaseMatchesRow'
  BY <1>0, Zenon DEF LeaseMatchesRow, is_running
<1>5. FinisherAlone'
  BY <1>0, SMTT(30) DEF FinisherAlone, CallsInv, Finishing, is_running
<1>6. CancelInv'
  BY <1>0, Zenon DEF EngineInv, CancelInv, CallsInv, is_running
<1> QED BY <1>1, <1>2, <1>3, <1>4, <1>5, <1>6, Zenon DEF EngineInv

LEMMA LeaseTimeFields ==
  ASSUME TypeOK, NEW j \in Jobs, NEW time
  PROVE  /\ LeaseTime(j, time).token = running[j].token
         /\ LeaseTime(j, time).attempt = running[j].attempt
BY Zenon DEF TypeOK, LeaseTime, Lease

LEMMA ExpireStep ==
  ASSUME EngineInv, TypeOK', NEW j \in Jobs, watchdog_expire(j)
  PROVE  EngineInv'
<1> USE DEF storeVars, leaseVars
<1>0. TypeOK /\ TokensInv /\ CallsInv /\ LeaseMatchesRow
  BY SMTT(30) DEF EngineInv
<1>t. Watchdog \in Threads /\ th[Watchdog].pc = "scanning"
  BY SMTT(30) DEF Threads, watchdog_expire
<1>1. /\ attempts' = attempts /\ issued' = issued
      /\ \A i \in Jobs \ {j} : running'[i] = running[i]
      /\ running'[j].token = 0
  BY <1>0, ZenonT(30) DEF watchdog_expire, TypeOK, NoLease
<1>2. CASE ~ is_running(j)
  <2>1. row' = row /\ th' = th
    BY <1>2, ZenonT(30) DEF watchdog_expire
  <2>2. Retires(Watchdog)
    BY <1>0, <1>t, <2>1, Zenon DEF Retires, TokensInv, Busy, Jobless
  <2>3. \A i \in Jobs : /\ running'[i].token = running[i].token
                        /\ is_running(i) => running'[i].attempt = running[i].attempt
    BY <1>1, <1>2, Zenon DEF is_running
  <2> QED BY <1>t, <1>1, <2>1, <2>2, <2>3, QuietStep, ZenonT(30)
<1>3. CASE is_running(j)
  <2> DEFINE last == row[j].attempt >= MaxAttempts[j]
             state == IF last THEN "FAILED" ELSE "QUEUED"
             label == IF last THEN "finished" ELSE "enqueue"
             r == JobRow(state, row[j].attempt, 0, row[j].cancel_requested)
  <2>1. row[j].state = "RUNNING"
    BY <1>0, <1>3, SMTT(30) DEF LeaseMatchesRow
  <2>2. persist(j, r) /\ th' = [th EXCEPT ![Watchdog] = At(label, j, Nobody)]
    BY <1>3, <2>1, Zenon DEF watchdog_expire
  <2>3. r.state = state /\ r.attempt = row[j].attempt /\ r.lease_token = 0
    BY Zenon DEF JobRow
  <2>4. label \notin Busy
    BY Zenon DEF Busy
  <2>5. state # "ABSENT"
    BY Zenon
  <2> HIDE DEF r, label, state
  <2>6. Retires(Watchdog)
    BY <1>0, <1>t, <2>2, <2>4, RetiresAt, Zenon
  <2>7. \A u \in Threads \ {Watchdog} :
          Finishing(u) \/ th[u].pc = "insert" => th[u].job # j
    BY <1>3, NobodyElse, Zenon
  <2>8. CASE row' = row
    <3>1. row[j].lease_token <= issued[j]
      BY RowTokens, Zenon
    <3> QED BY <1>t, <1>1, <2>1, <2>6, <2>7, <2>8, <3>1, RowStep, SMTT(30) DEF Startable
  <2>9. CASE row' = [row EXCEPT ![j] = r]
    <3>1. /\ \A i \in Jobs \ {j} : row'[i] = row[i]
          /\ row'[j].attempt = row[j].attempt /\ row'[j].state = state
          /\ row'[j].lease_token <= issued[j]
      <4>1. row'[j] = r /\ \A i \in Jobs \ {j} : row'[i] = row[i]
        BY <1>0, <2>9, RowExcept, Zenon
      <4>2. 0 <= issued[j]
        BY <1>0 DEF TypeOK
      <4> QED BY <2>3, <4>1, <4>2, Zenon
    <3> QED BY <1>t, <1>1, <2>5, <2>6, <2>7, <3>1, RowStep
  <2> QED BY <2>2, <2>8, <2>9, PersistRow, Zenon
<1> QED BY <1>2, <1>3, Zenon

LEMMA WatchdogStepInv ==
  ASSUME EngineInv, TypeOK', WatchdogStep
  PROVE  EngineInv'
<1> USE DEF storeVars, leaseVars
<1>t. Watchdog \in Threads
  BY Zenon DEF Threads
<1>0. TypeOK /\ CallsInv /\ TokensInv
  BY SMTT(30) DEF EngineInv
<1>1. CASE watchdog_collect
  <2>1. Goto(Watchdog, "scanning") /\ "scanning" \notin Busy /\ "scanning" \in Jobless
    BY <1>1, Zenon DEF watchdog_collect, Busy, Jobless
  <2>2. Retires(Watchdog)
    BY <1>0, <1>t, <2>1, RetiresGoto, Zenon
  <2> QED BY <1>1, <1>t, <2>2, QuietStep, Zenon DEF watchdog_collect
<1>2. CASE watchdog_sleep
  <2> DEFINE label == IF stop_requested THEN "exited" ELSE "idle"
  <2>1. Goto(Watchdog, label) /\ label \notin Busy /\ label \in Jobless
    BY <1>2, Zenon DEF watchdog_sleep, Busy, Jobless
  <2> HIDE DEF label
  <2>2. Retires(Watchdog)
    BY <1>0, <1>t, <2>1, RetiresGoto, Zenon
  <2> QED BY <1>2, <1>t, <2>2, QuietStep, Zenon DEF watchdog_sleep
<1>3. ASSUME NEW r \in RemoteWorkers, watchdog_owned(r)
      PROVE  EngineInv'
  BY <1>3, OutsideStep, Zenon DEF watchdog_owned
<1> QED BY <1>1, <1>2, <1>3, <1>t, ExpireStep, FinishStep, Zenon DEF WatchdogStep, finish_attempt
-----------------------------------------------------------------------------
LEMMA InitInv == Init => EngineInv
<1> SUFFICES ASSUME Init PROVE EngineInv
  BY Zenon
<1>1. JobRow("ABSENT", 0, 0, FALSE) \in Row /\ NoLease \in Lease /\ Idle \in Local
  <2>1. Idle \in Local
    BY AtType, Zenon DEF Idle, Labels
  <2> QED BY <2>1, Zenon DEF JobRow, Row, NoLease, Lease
<1>2. TypeOK
  <2>1. row \in [Jobs -> Row] /\ running \in [Jobs -> Lease] /\ th \in [Threads -> Local]
    BY <1>1, Zenon DEF Init
  <2>2. /\ issued \in [Jobs -> Nat] /\ completions \in [Jobs -> Nat]
        /\ reason \in [Jobs -> {"None", "Timeout", "User"}]
        /\ remote_workers \in [RemoteWorkers -> {"unregistered", "alive", "silent", "dead"}]
    BY Zenon DEF Init
  <2>3. /\ attempts \subseteq Attempt /\ queue \subseteq Jobs /\ outstanding \in Int
        /\ expired \subseteq Jobs /\ dead \subseteq RemoteWorkers
    BY DEF Init
  <2>4. /\ main \in {"serving", "draining", "counting", "stopping", "closed", "stopped"}
        /\ drain \in BOOLEAN /\ to_drain \subseteq Jobs /\ acked \subseteq Jobs
    BY Zenon DEF Init
  <2> QED BY <2>1, <2>2, <2>3, <2>4, Zenon DEF TypeOK
<1>3. \A t \in Threads : th[t].pc = "idle" /\ th[t].token = 0 /\ th[t].job = Nobody
  BY AtFields DEF Init, Idle
<1>4. \A j \in Jobs : /\ row[j].state = "ABSENT" /\ row[j].attempt = 0
                      /\ running[j].token = 0 /\ issued[j] = 0 /\ row[j].lease_token = 0
  <2>1. LET r == JobRow("ABSENT", 0, 0, FALSE)
        IN  r.state = "ABSENT" /\ r.attempt = 0 /\ r.lease_token = 0
    BY Zenon DEF JobRow
  <2>2. NoLease.token = 0
    BY Zenon DEF NoLease
  <2> QED BY <2>1, <2>2, Zenon DEF Init
<1>5. CallsInv /\ TokensInv /\ CancelInv /\ LeaseMatchesRow /\ FinisherAlone /\ AttemptInv
  BY <1>3, <1>4 DEF CallsInv, TokensInv, CancelInv, LeaseMatchesRow, FinisherAlone, AttemptInv,
                    Finishing, is_running
<1>6. HistoryInv
  <2>1. attempts = {}
    BY Zenon DEF Init
  <2> QED BY <1>4, <2>1, Zenon DEF HistoryInv
<1> QED BY <1>2, <1>5, <1>6, Zenon DEF EngineInv

LEMMA InitLimit == Init => LimitInv(MaxAttempts)
<1> SUFFICES ASSUME Init, NEW j \in Jobs
             PROVE  /\ row[j].attempt <= MaxAttempts[j]
                    /\ row[j].state \in Startable => row[j].attempt < MaxAttempts[j]
                    /\ row[j].state \in Exhausted => row[j].attempt >= MaxAttempts[j]
  BY Zenon DEF LimitInv
<1>1. row[j].attempt = 0 /\ row[j].state \notin Exhausted
  BY Zenon DEF Init, JobRow, Exhausted
<1>2. MaxAttempts[j] \in Nat \ {0}
  BY JobEngineAssumption, Zenon
<1> QED BY <1>1, <1>2

LEMMA NextTypes ==
  ASSUME EngineInv, Next
  PROVE  TypeOK'
<1>0. TypeOK /\ CallsInv /\ AttemptInv
  BY Zenon DEF EngineInv
<1>1. ASSUME NEW w \in Workers, WorkerStep(w) PROVE TypeOK'
  BY <1>0, <1>1, WorkerTypes, CallTypes, Zenon DEF WorkerStep, Threads
<1>2. ASSUME NEW c \in Clients, ClientStep(c) \/ ClientCall(c) PROVE TypeOK'
  BY <1>0, <1>2, ClientTypes, CallTypes, Zenon DEF ClientStep, Threads
<1>3. CASE WatchdogStep
  BY <1>0, <1>3, OtherTypes, CallTypes, Zenon DEF WatchdogStep, finish_attempt, Threads
<1>4. CASE (\E r \in RemoteWorkers : RemoteCall(r)) \/ TimePasses \/ Stop
  BY <1>0, <1>4, OtherTypes, Zenon DEF RemoteCall
<1> QED BY <1>1, <1>2, <1>3, <1>4, Zenon DEF Next, Serve

LEMMA NextInv ==
  ASSUME EngineInv, [Next]_vars
  PROVE  EngineInv'
<1> USE DEF storeVars, leaseVars
<1>0. TypeOK
  BY Zenon DEF EngineInv
<1>1. CASE UNCHANGED vars
  <2>1. /\ th' = th /\ row' = row /\ attempts' = attempts /\ issued' = issued
        /\ running' = running
    BY <1>1, Zenon DEF vars
  <2>2. TypeOK'
    BY <1>0, <1>1, Zenon DEF vars, TypeOK
  <2> QED BY <2>1, <2>2, OutsideStep, Zenon
<1>2. CASE Next
  <2>0. TypeOK'
    BY <1>2, NextTypes, Zenon
  <2>1. ASSUME NEW w \in Workers, WorkerStep(w) PROVE EngineInv'
    BY <2>0, <2>1, WorkerStepInv, Zenon
  <2>2. ASSUME NEW c \in Clients, ClientStep(c) \/ ClientCall(c) PROVE EngineInv'
    BY <2>0, <2>2, ClientStepInv, Zenon
  <2>3. CASE WatchdogStep
    BY <2>0, <2>3, WatchdogStepInv, Zenon
  <2>4. ASSUME NEW r \in RemoteWorkers, RemoteCall(r) PROVE EngineInv'
    <3>1. CASE register_worker(r)
      BY <2>0, <3>1, OutsideStep, Zenon DEF register_worker
    <3>2. CASE heartbeat_worker(r)
      <4>1. \A j \in Jobs : /\ running'[j].token = running[j].token
                            /\ running'[j].attempt = running[j].attempt
        BY <1>0, <3>2, LeaseTimeFields, Zenon DEF heartbeat_worker
      <4> QED BY <2>0, <3>2, <4>1, OutsideStep, Zenon DEF heartbeat_worker
    <3> QED BY <2>4, <3>1, <3>2, Zenon DEF RemoteCall
  <2>5. ASSUME NEW i \in Jobs, lease_overdue(i) PROVE EngineInv'
    <3>1. \A j \in Jobs : /\ running'[j].token = running[j].token
                          /\ running'[j].attempt = running[j].attempt
      BY <1>0, <2>5, LeaseTimeFields, Zenon DEF lease_overdue, TypeOK
    <3> QED BY <2>0, <2>5, <3>1, OutsideStep, Zenon DEF lease_overdue
  <2>6. ASSUME NEW r \in RemoteWorkers, heartbeat_overdue(r) PROVE EngineInv'
    BY <2>0, <2>6, OutsideStep, Zenon DEF heartbeat_overdue
  <2>7. CASE Stop
    <3>1. /\ th' = th /\ row' = row /\ attempts' = attempts /\ issued' = issued
          /\ running' = running
      BY <2>7, Zenon DEF Stop, StopProceeds, MainStep, stop_begin, stop_queue_empty, stop_still_running,
                  stop_drained, stop_deadline, stop_close, stop_join
    <3> QED BY <2>0, <3>1, OutsideStep, Zenon
  <2> QED BY <1>2, <2>1, <2>2, <2>3, <2>4, <2>5, <2>6, <2>7, Zenon DEF Next, Serve, TimePasses
<1> QED BY <1>1, <1>2, Zenon

\* Which steps write the attempts table and the jobs table.
LEMMA StoreFrame ==
  ASSUME Next
  PROVE  /\ attempts' # attempts => \E t \in Threads : finish_attempt_record(t)
         /\ row' # row =>
              \/ \E c \in Threads :
                   \/ submit_insert(c)
                   \/ \E j \in Jobs : cancel_waiting(c, j)
                   \/ begin_attempt_cancelled(c) \/ begin_attempt_started(c)
                   \/ finish_attempt_persist(c)
              \/ \E c \in Clients : cancel_flag(c)
              \/ \E j \in Jobs : watchdog_expire(j)
<1> USE DEF storeVars
<1>1. ASSUME NEW t \in Threads, begin_attempt(t) \/ finish_attempt(t)
      PROVE  /\ attempts' # attempts => finish_attempt_record(t)
             /\ row' # row => \/ begin_attempt_cancelled(t) \/ begin_attempt_started(t)
                              \/ finish_attempt_persist(t)
  BY <1>1, Zenon DEF begin_attempt, finish_attempt, begin_attempt_refused,
     begin_attempt_cancelled, begin_attempt_started, begin_attempt_requeued, finish_attempt_fence,
     finish_attempt_record, finish_attempt_persist, enqueue, finish_terminal
<1>2. ASSUME NEW w \in Workers, WorkerStep(w)
      PROVE  \/ row' = row /\ attempts' = attempts
             \/ begin_attempt(w) \/ finish_attempt(w)
  BY <1>2, Zenon DEF WorkerStep, worker_pop, worker_exit
<1>3. ASSUME NEW c \in Clients, ClientStep(c) \/ ClientCall(c)
      PROVE  \/ row' = row /\ attempts' = attempts
             \/ begin_attempt(c) \/ finish_attempt(c)
             \/ submit_insert(c) /\ attempts' = attempts
             \/ cancel_flag(c) /\ attempts' = attempts
             \/ attempts' = attempts /\ \E j \in Jobs : cancel_waiting(c, j)
  BY <1>3, ZenonT(30) DEF ClientStep, ClientCall, submit_insert, submit_insert_fails, claim_pop,
     claim_empty, complete_load, complete_reason, submit_reserve, cancel_load, cancel_flag,
     cancel_flag_fails, cancel_waiting, claim_arrive, complete_check
<1>4. CASE WatchdogStep
  <2>1. \/ row' = row /\ attempts' = attempts
        \/ attempts' = attempts /\ \E j \in Jobs : watchdog_expire(j)
    BY <1>4, Zenon DEF WatchdogStep, watchdog_collect, watchdog_sleep, watchdog_owned,
                watchdog_expire, enqueue, finish_terminal
  <2> QED BY <2>1, Zenon
<1>5. CASE (\E r \in RemoteWorkers : RemoteCall(r)) \/ TimePasses \/ Stop
  BY <1>5, Zenon DEF RemoteCall, register_worker, heartbeat_worker, TimePasses, lease_overdue,
     heartbeat_overdue, Stop, StopProceeds, MainStep, stop_begin, stop_queue_empty,
     stop_still_running, stop_drained, stop_deadline, stop_close, stop_join
<1>6. Workers \subseteq Threads /\ Clients \subseteq Threads
  BY SMTT(30) DEF Threads
<1> QED BY <1>1, <1>2, <1>3, <1>4, <1>5, <1>6, Zenon DEF Next, Serve

\* How a step may change the row of job j.
RowChange(j) ==
  \/ row'[j] = row[j]
  \/ /\ row[j].state = "ABSENT" /\ row'[j].state \in {"QUEUED", "SCHEDULED"}
     /\ row'[j].attempt = 0
  \/ /\ row[j].state \in Startable /\ row'[j].state = "CANCELLED"
     /\ row'[j].attempt = row[j].attempt
  \/ /\ row[j].state \in Startable /\ row'[j].state = "RUNNING"
     /\ row'[j].attempt = row[j].attempt + 1
  \/ /\ row[j].state # "ABSENT" /\ row'[j].state = "RUNNING" /\ row'[j].cancel_requested
     /\ row'[j].attempt = row[j].attempt /\ j \in acked'
     /\ \E c \in Clients : th[c].pc = "cancelling" /\ th[c].job = j
  \/ /\ row[j].state = "RUNNING" /\ row'[j].state \in Reports \cup {"RETRYING", "QUEUED"}
     /\ row'[j].attempt = row[j].attempt
     /\ row'[j].state \in Startable => row[j].attempt < MaxAttempts[j]
     /\ row'[j].state \in Exhausted => row[j].attempt >= MaxAttempts[j]

\* The row of one job is written, the others are left alone.
LEMMA OneRow ==
  ASSUME TypeOK, NEW i \in Jobs, NEW r, row' = [row EXCEPT ![i] = r], NEW j \in Jobs
  PROVE  row'[j] = IF i = j THEN r ELSE row[j]
<1>1. row'[i] = r /\ \A k \in Jobs \ {i} : row'[k] = row[k]
  BY RowExcept, Zenon
<1> QED BY <1>1, Zenon

LEMMA RowSteps ==
  ASSUME EngineInv, Next, NEW j \in Jobs
  PROVE  RowChange(j)
<1>0. TypeOK /\ CallsInv /\ CancelInv /\ AttemptInv /\ FinisherAlone
  BY Zenon DEF EngineInv
<1>1. ASSUME NEW c \in Threads, submit_insert(c) PROVE RowChange(j)
  <2>1. PICK s \in {"QUEUED", "SCHEDULED"} :
          row' = [row EXCEPT ![th[c].job] = JobRow(s, 0, 0, FALSE)]
    BY <1>1, Zenon DEF submit_insert
  <2>2. th[c].job \in Jobs /\ row[th[c].job].state = "ABSENT"
    BY <1>0, <1>1, Zenon DEF submit_insert, CallsInv
  <2>3. row'[j] = IF th[c].job = j THEN JobRow(s, 0, 0, FALSE) ELSE row[j]
    BY <1>0, <2>1, <2>2, OneRow, Zenon
  <2> QED BY <2>2, <2>3 DEF JobRow, RowChange
<1>2. ASSUME NEW c \in Threads, NEW i \in Jobs, row[i].state \in Startable,
             row' = [row EXCEPT ![i] = CancelledRow(i)]
      PROVE  RowChange(j)
  <2>1. row'[j] = IF i = j THEN CancelledRow(i) ELSE row[j]
    BY <1>0, <1>2, OneRow, Zenon
  <2> QED BY <1>2, <2>1 DEF CancelledRow, JobRow, RowChange
<1>3. ASSUME NEW c \in Threads, NEW i \in Jobs, cancel_waiting(c, i) PROVE RowChange(j)
  <2>1. row[i].state \in Startable /\ persist(i, CancelledRow(i))
    BY <1>3, Zenon DEF cancel_waiting, persist
  <2>2. row' = row \/ row' = [row EXCEPT ![i] = CancelledRow(i)]
    BY <2>1, PersistRow, Zenon
  <2>3. CASE row' = row
    BY <2>3, Zenon DEF RowChange
  <2> QED BY <1>2, <2>1, <2>2, <2>3, Zenon
<1>4. ASSUME NEW c \in Threads, begin_attempt_cancelled(c) PROVE RowChange(j)
  <2> DEFINE i == th[c].job
  <2>1. i \in Jobs /\ row[i].state \in Startable /\ persist(i, CancelledRow(i))
    BY <1>0, <1>4, Zenon DEF begin_attempt_cancelled, CallsInv
  <2> HIDE DEF i
  <2>2. row' = row \/ row' = [row EXCEPT ![i] = CancelledRow(i)]
    BY <2>1, PersistRow, Zenon
  <2>3. CASE row' = row
    BY <2>3, Zenon DEF RowChange
  <2> QED BY <1>2, <2>1, <2>2, <2>3, Zenon
<1>5. ASSUME NEW c \in Threads, begin_attempt_started(c) PROVE RowChange(j)
  <2> DEFINE i == th[c].job
             r == JobRow("RUNNING", row[i].attempt + 1, issued[i] + 1, FALSE)
  <2>1. i \in Jobs /\ row[i].state \in Startable /\ row' = [row EXCEPT ![i] = r]
    BY <1>0, <1>5, Zenon DEF begin_attempt_started, CallsInv, Leased
  <2>2. r.state = "RUNNING" /\ r.attempt = row[i].attempt + 1
    BY Zenon DEF JobRow
  <2> HIDE DEF i, r
  <2>3. row'[j] = IF i = j THEN r ELSE row[j]
    BY <1>0, <2>1, OneRow, Zenon
  <2> QED BY <2>1, <2>2, <2>3, Zenon DEF RowChange
<1>6. ASSUME NEW c \in Threads, finish_attempt_persist(c) PROVE RowChange(j)
  <2> DEFINE i == th[c].job
             r == FinishedRow(c)
  <2>1. th[c].pc = "persisting" /\ i \in Jobs /\ persist(i, r)
    BY <1>0, <1>6, Zenon DEF finish_attempt_persist, CallsInv
  <2>2. r.state = th[c].outcome /\ r.attempt = th[c].attempt
    BY Zenon DEF FinishedRow, JobRow
  <2>3. /\ row[i].state = "RUNNING" /\ th[c].attempt = row[i].attempt
        /\ th[c].outcome # "none"
        /\ th[c].outcome = "RETRYING" => th[c].attempt < MaxAttempts[i]
        /\ th[c].outcome \in Exhausted => th[c].attempt >= MaxAttempts[i]
    BY <1>0, <2>1, Zenon DEF FinisherAlone, AttemptInv, Finishing
  <2>4. th[c].outcome \in Reports \cup {"none", "RETRYING"}
    BY <1>0, ThreadType, Zenon DEF Outcomes
  <2> HIDE DEF i, r
  <2>5. row' = row \/ row' = [row EXCEPT ![i] = r]
    BY <2>1, PersistRow, Zenon
  <2>6. row'[j] = row[j] \/ (i = j /\ row'[j] = r)
    BY <1>0, <2>1, <2>5, OneRow, ZenonT(60)
  <2>7. CASE i = j /\ row'[j] = r
    <3>1. r.state \in Startable => r.state = "RETRYING"
      BY <2>2, <2>4, Zenon DEF Reports, Startable
    <3> QED BY <2>2, <2>3, <2>4, <2>7, <3>1, Zenon DEF RowChange
  <2> QED BY <2>6, <2>7, Zenon DEF RowChange
<1>7. ASSUME NEW c \in Clients, cancel_flag(c) PROVE RowChange(j)
  <2> DEFINE i == th[c].job
             r == JobRow("RUNNING", th[c].attempt, th[c].token, TRUE)
  <2>1. th[c].pc = "cancelling" /\ row' = [row EXCEPT ![i] = r] /\ i \in acked'
    BY <1>7, Zenon DEF cancel_flag
  <2>2. r.state = "RUNNING" /\ r.attempt = th[c].attempt /\ r.cancel_requested
    BY Zenon DEF JobRow
  <2>3. i \in Jobs /\ row[i].state # "ABSENT" /\ th[c].attempt = row[i].attempt
    BY <1>0, <2>1, Zenon DEF CallsInv, CancelInv, Threads
  <2>4. th[c].job = i
    BY Zenon
  <2> HIDE DEF i, r
  <2>5. row'[j] = IF i = j THEN r ELSE row[j]
    BY <1>0, <2>1, <2>3, OneRow, ZenonT(60)
  <2>6. CASE i # j
    BY <2>5, <2>6, Zenon DEF RowChange
  <2>7. CASE i = j
    BY <2>1, <2>2, <2>3, <2>4, <2>5, <2>7, Zenon DEF RowChange
  <2> QED BY <2>6, <2>7, Zenon
<1>8. ASSUME NEW i \in Jobs, watchdog_expire(i) PROVE RowChange(j)
  <2> DEFINE last == row[i].attempt >= MaxAttempts[i]
             r == JobRow(IF last THEN "FAILED" ELSE "QUEUED", row[i].attempt, 0,
                         row[i].cancel_requested)
  <2>1. row' = row \/ (row[i].state = "RUNNING" /\ persist(i, r))
    BY <1>8, Zenon DEF watchdog_expire
  <2>2. /\ r.state \in {"FAILED", "QUEUED"} /\ r.attempt = row[i].attempt
        /\ r.state = "QUEUED" => ~ last
        /\ r.state = "FAILED" => row[i].attempt >= MaxAttempts[i]
    BY Zenon DEF JobRow
  <2>3. ~ last => row[i].attempt < MaxAttempts[i]
    BY <1>0, RowType, JobEngineAssumption
  <2> HIDE DEF last, r
  <2>4. row'[j] = row[j] \/ (i = j /\ row[i].state = "RUNNING" /\ row'[j] = r)
    <3>1. CASE row' = row
      BY <3>1, Zenon
    <3>2. CASE row' = [row EXCEPT ![i] = r] /\ row[i].state = "RUNNING"
      BY <1>0, <3>2, OneRow
    <3> QED BY <2>1, <3>1, <3>2, PersistRow, Zenon
  <2>5. CASE i = j /\ row[i].state = "RUNNING" /\ row'[j] = r
    <3>1. /\ r.state \in Startable => r.state = "QUEUED"
          /\ r.state \in Exhausted => r.state = "FAILED"
      BY <2>2, Zenon DEF Startable, Exhausted
    <3> QED BY <2>2, <2>3, <2>5, <3>1, Zenon DEF RowChange, Reports
  <2> QED BY <2>4, <2>5, Zenon DEF RowChange
<1>9. row' = row => RowChange(j)
  BY Zenon DEF RowChange
<1> QED BY <1>1, <1>3, <1>4, <1>5, <1>6, <1>7, <1>8, <1>9, StoreFrame, Zenon

LEMMA TerminalStep ==
  ASSUME EngineInv, Next, NEW j \in Jobs, is_terminal(row[j].state)
  PROVE  \/ row'[j].state = row[j].state
         \/ /\ row'[j].state = "RUNNING" /\ row'[j].cancel_requested /\ j \in acked'
            /\ \E c \in Clients : th[c].pc = "cancelling" /\ th[c].job = j
<1>1. row[j].state \notin Startable \cup {"ABSENT", "RUNNING"}
  BY Zenon DEF is_terminal, Startable
<1> QED BY <1>1, RowSteps, Zenon DEF RowChange

\* The attempt number stays within any limit that is at least max_attempts.
LEMMA LimitStep ==
  ASSUME EngineInv, Next, NEW limit \in [Jobs -> Nat],
         \A j \in Jobs : MaxAttempts[j] <= limit[j], LimitInv(limit)
  PROVE  LimitInv(limit)'
<1> SUFFICES ASSUME NEW j \in Jobs
             PROVE  /\ row'[j].attempt <= limit[j]
                    /\ row'[j].state \in Startable => row'[j].attempt < limit[j]
                    /\ row'[j].state \in Exhausted => row'[j].attempt >= MaxAttempts[j]
  BY Zenon DEF LimitInv
<1>1. /\ row[j].attempt \in Nat /\ MaxAttempts[j] \in Nat \ {0} /\ limit[j] \in Nat
      /\ MaxAttempts[j] <= limit[j]
  BY RowType, JobEngineAssumption, Zenon DEF EngineInv
<1>2. /\ row[j].attempt <= limit[j]
      /\ row[j].state \in Startable => row[j].attempt < limit[j]
      /\ row[j].state \in Exhausted => row[j].attempt >= MaxAttempts[j]
  BY Zenon DEF LimitInv
<1>3. /\ {"CANCELLED", "RUNNING"} \cap Startable = {}
      /\ {"QUEUED", "SCHEDULED", "CANCELLED", "RUNNING"} \cap Exhausted = {}
  BY Zenon DEF Startable, Exhausted
<1> QED BY <1>1, <1>2, <1>3, RowSteps DEF RowChange

-----------------------------------------------------------------------------
(* Theorems *)

\* For any number of jobs, threads and remote workers, with a store that may fail and
\* with or without a shutdown: the lease table and the rows agree, and a thread past the
\* fencing check of finish_attempt is alone with its job.
THEOREM Lifecycle == Spec => []LifecycleInv
<1>1. Init => LifecycleInv
  BY InitInv, InitLimit, Zenon DEF LifecycleInv
<1>2. ASSUME LifecycleInv, [Next]_vars PROVE LifecycleInv'
  <2>1. MaxAttempts \in [Jobs -> Nat] /\ \A j \in Jobs : MaxAttempts[j] <= MaxAttempts[j]
    BY JobEngineAssumption
  <2>2. EngineInv /\ LimitInv(MaxAttempts)
    BY <1>2, Zenon DEF LifecycleInv
  <2>3. CASE Next
    BY <2>1, <2>2, <2>3, NextInv, LimitStep, Zenon DEF LifecycleInv
  <2>4. CASE UNCHANGED vars
    <3>1. LimitInv(MaxAttempts)'
      BY <2>2, <2>4, Zenon DEF vars, LimitInv
    <3> QED BY <2>2, <2>4, <3>1, NextInv, Zenon DEF LifecycleInv
  <2> QED BY <1>2, <2>3, <2>4, Zenon
<1> QED BY <1>1, <1>2, PTL DEF Spec

\* Every variable keeps its type.
THEOREM TypeCorrect == Spec => []TypeOK
<1>1. LifecycleInv => TypeOK
  BY Zenon DEF LifecycleInv, EngineInv
<1> QED BY <1>1, Lifecycle, PTL

\* What is in running_ is in the store too, under the same token and attempt.
THEOREM LeasesAgree == Spec => []LeaseMatchesRow
<1>1. LifecycleInv => LeaseMatchesRow
  BY Zenon DEF LifecycleInv, EngineInv
<1> QED BY <1>1, Lifecycle, PTL

\* finish_attempt needs no lock past its fencing check.
THEOREM FinishersAreAlone == Spec => []FinisherAlone
<1>1. LifecycleInv => FinisherAlone
  BY Zenon DEF LifecycleInv, EngineInv
<1> QED BY <1>1, Lifecycle, PTL

\* Within one run of the coordinator max_attempts is never exceeded, and no job is given up
\* before its last attempt.
THEOREM AttemptsAreBounded == Spec => []AttemptsBounded
<1>1. LifecycleInv => AttemptsBounded
  <2> SUFFICES ASSUME LifecycleInv PROVE AttemptsBounded
    BY Zenon
  <2>1. \A j \in Jobs : row[j].attempt <= MaxAttempts[j]
    BY Zenon DEF LifecycleInv, LimitInv
  <2>2. ASSUME NEW a \in attempts PROVE a.attempt <= MaxAttempts[a.job]
    <3>1. a.job \in Jobs /\ a.attempt \in Nat
      BY Zenon DEF LifecycleInv, EngineInv, TypeOK, Attempt
    <3>2. a.attempt <= row[a.job].attempt /\ row[a.job].attempt \in Nat
      BY <3>1, RowType, Zenon DEF LifecycleInv, EngineInv, HistoryInv
    <3>3. MaxAttempts[a.job] \in Nat
      BY <3>1, JobEngineAssumption, Zenon
    <3> QED BY <2>1, <3>1, <3>2, <3>3, SMTT(30)
  <2>3. ASSUME NEW j \in Jobs, row[j].state \in Exhausted
        PROVE  row[j].attempt = MaxAttempts[j]
    <3>1. row[j].attempt >= MaxAttempts[j] /\ row[j].attempt <= MaxAttempts[j]
      BY <2>3, Zenon DEF LifecycleInv, LimitInv
    <3>2. row[j].attempt \in Nat /\ MaxAttempts[j] \in Nat
      BY RowType, JobEngineAssumption, Zenon DEF LifecycleInv, EngineInv
    <3> QED BY <3>1, <3>2
  <2> QED BY <2>1, <2>2, <2>3, Zenon DEF AttemptsBounded
<1> QED BY <1>1, Lifecycle, PTL

\* A recorded attempt is never rewritten: no attempt has two results.
THEOREM HistoryIsKept == Spec => HistoryKept
<1>1. ASSUME LifecycleInv, [Next]_vars PROVE [attempts \subseteq attempts']_vars
  <2>1. CASE Next
    <3>1. TypeOK'
      BY <1>1, <2>1, NextTypes, Zenon DEF LifecycleInv
    <3> QED BY <1>1, <2>1, <3>1, StoreFrame, RecordStep, Zenon DEF LifecycleInv
  <2> QED BY <1>1, <2>1, Zenon
<1> QED BY <1>1, Lifecycle, PTL DEF Spec, HistoryKept

\* A terminal row stays as it is whatever arrives late; only a cancel() that had read the
\* row before it became terminal can take it back to RUNNING.
THEOREM TerminalIsFinal == Spec => OnlyCancelRevives
<1>1. ASSUME LifecycleInv, [Next]_vars
      PROVE  [\A j \in Jobs :
                is_terminal(row[j].state) /\ row'[j].state # row[j].state =>
                  /\ row'[j].state = "RUNNING" /\ row'[j].cancel_requested
                  /\ \E c \in Clients : th[c].pc = "cancelling" /\ th[c].job = j]_vars
  BY <1>1, TerminalStep, Zenon DEF LifecycleInv
<1> QED BY <1>1, Lifecycle, PTL DEF Spec, OnlyCancelRevives

\* Every change of a row is one is_valid_transition accepts, or starts an attempt, or is the
\* write of a cancel().
THEOREM TransitionsAreValid == Spec => ValidTransitions
<1>1. ASSUME LifecycleInv, [Next]_vars
      PROVE  [\A j \in Jobs :
                row[j].state # "ABSENT" /\ row'[j].state \notin {row[j].state, "RUNNING"} =>
                  is_valid_transition(row[j].state, row'[j].state)]_vars
  <2>1. CASE UNCHANGED vars
    BY <2>1, Zenon
  <2>2. CASE Next
    <3> SUFFICES ASSUME NEW j \in Jobs, row[j].state # "ABSENT",
                        row'[j].state \notin {row[j].state, "RUNNING"}
                 PROVE  is_valid_transition(row[j].state, row'[j].state)
      BY Zenon
    <3>1. \/ row[j].state \in Startable /\ row'[j].state = "CANCELLED"
          \/ /\ row[j].state = "RUNNING"
             /\ row'[j].state \in Reports \cup {"RETRYING", "QUEUED"}
      BY <1>1, <2>2, RowSteps, Zenon DEF LifecycleInv, RowChange
    <3>2. \A s \in Startable : "CANCELLED" \in Successors(s) /\ s # "CANCELLED"
      BY Zenon DEF Successors, Startable
    <3>3. Reports \cup {"RETRYING", "QUEUED"} \subseteq Successors("RUNNING")
      BY Zenon DEF Successors, Reports
    <3>4. ~ is_terminal("RUNNING") /\ \A s \in Startable : ~ is_terminal(s)
      BY Zenon DEF is_terminal, Startable
    <3> QED BY <3>1, <3>2, <3>3, <3>4, Zenon DEF is_valid_transition
  <2> QED BY <1>1, <2>1, <2>2, Zenon
<1> QED BY <1>1, Lifecycle, PTL DEF Spec, ValidTransitions
=============================================================================
