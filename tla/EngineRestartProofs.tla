------------------------ MODULE EngineRestartProofs -------------------------
(* The theorems about slots, completion callbacks and stranded jobs, and about *)
(* what survives a crash of the coordinator.                                   *)
EXTENDS JobEngineEffects, FiniteSetTheorems

(* Counting *)

LEMMA FiniteThreads == IsFiniteSet(Threads)
<1>1. IsFiniteSet(Workers) /\ IsFiniteSet(Clients) /\ IsFiniteSet({Watchdog})
  BY JobEngineAssumption, FS_Singleton, Zenon
<1> QED BY <1>1, FS_Union, Zenon DEF Threads

LEMMA Counting ==
  ASSUME NEW S, IsFiniteSet(S), NEW T \in SUBSET S
  PROVE  /\ IsFiniteSet(T) /\ Cardinality(T) \in Nat
         /\ \A x : x \notin T => Cardinality(T \cup {x}) = Cardinality(T) + 1
         /\ \A x : x \in T => Cardinality(T \ {x}) = Cardinality(T) - 1
<1>1. IsFiniteSet(T)
  BY FS_Subset, Zenon
<1> QED BY <1>1, FS_CardinalityType, FS_AddElement, FS_RemoveElement, Zenon

LEMMA SlotSizes ==
  /\ Cardinality(OwedJobs) \in Nat /\ Cardinality(Inserting) \in Nat
  /\ \A j : j \notin OwedJobs => Cardinality(OwedJobs \cup {j}) = Cardinality(OwedJobs) + 1
  /\ \A j : j \in OwedJobs => Cardinality(OwedJobs \ {j}) = Cardinality(OwedJobs) - 1
  /\ \A t : t \notin Inserting => Cardinality(Inserting \cup {t}) = Cardinality(Inserting) + 1
  /\ \A t : t \in Inserting => Cardinality(Inserting \ {t}) = Cardinality(Inserting) - 1
<1>1. OwedJobs \in SUBSET Jobs /\ Inserting \in SUBSET Threads
  BY Zenon DEF OwedJobs, Inserting
<1>2. IsFiniteSet(Jobs) /\ IsFiniteSet(Threads)
  BY FiniteThreads, JobEngineAssumption, Zenon
<1> QED BY <1>1, <1>2, Counting, Zenon

\* A push is refused only by a closed queue and by a full one: a queue with room for every job
\* is full only if it holds them all.
LEMMA PushedIn ==
  ASSUME TypeOK, ~ stop_requested, Cardinality(Jobs) <= MaxOutstanding, NEW j \in Jobs
  PROVE  {j} \cup queue \subseteq Pushed(j)
<1>1. ~ queue_closed
  BY Zenon DEF stop_requested, queue_closed
<1>2. CASE Cardinality(queue) >= MaxOutstanding
  <2>1. IsFiniteSet(Jobs) /\ queue \in SUBSET Jobs
    BY JobEngineAssumption, Zenon DEF TypeOK
  <2>2. Cardinality(queue) = Cardinality(Jobs)
    <3>1. /\ Cardinality(queue) <= Cardinality(Jobs) /\ IsFiniteSet(queue)
          /\ Cardinality(Jobs) \in Nat /\ Cardinality(queue) \in Nat
      BY <2>1, FS_Subset, FS_CardinalityType, Zenon
    <3> QED BY <1>2, <3>1, JobEngineAssumption, SMTT(30)
  <2>3. queue = Jobs
    BY <2>1, <2>2, FS_Subset, Zenon
  <2> QED BY <2>3, Zenon DEF Pushed
<1>3. CASE ~ (Cardinality(queue) >= MaxOutstanding)
  BY <1>1, <1>3, Zenon DEF Pushed
<1> QED BY <1>2, <1>3, Zenon

\* A step that moves slots one by one keeps the count of them exact.
LEMMA SlotCount ==
  ASSUME EngineInv, EngineInv', SlotInv, Effect
  PROVE  SlotInv'
<1>1. CompletionInv /\ outstanding = Cardinality(OwedJobs) + Cardinality(Inserting)
  BY Zenon DEF SlotInv, SlotAccounting, CompletionInv, OwedJobs, Inserting
<1>2. CompletionInv' /\ SlotsMove
  BY <1>1, SlotStep, Zenon DEF SlotsFollow
<1>3. Cardinality(OwedJobs) \in Nat /\ Cardinality(Inserting) \in Nat
  BY SlotSizes, Zenon
<1> DEFINE Goal == outstanding' = Cardinality(OwedJobs') + Cardinality(Inserting')
<1>4. ASSUME outstanding' = outstanding, OwedJobs' = OwedJobs, Inserting' = Inserting
      PROVE  Goal
  BY <1>1, <1>4, Zenon
<1>5. ASSUME NEW t \in Threads \ Inserting, outstanding' = outstanding + 1,
             OwedJobs' = OwedJobs, Inserting' = Inserting \cup {t}
      PROVE  Goal
  <2>1. Cardinality(Inserting') = Cardinality(Inserting) + 1
    BY <1>5, SlotSizes, Zenon
  <2> QED BY <1>1, <1>3, <1>5, <2>1, SMTT(30)
<1>6. ASSUME NEW t \in Inserting, NEW j \in Jobs \ OwedJobs, outstanding' = outstanding,
             OwedJobs' = OwedJobs \cup {j}, Inserting' = Inserting \ {t}
      PROVE  Goal
  <2>1. /\ Cardinality(Inserting') = Cardinality(Inserting) - 1
        /\ Cardinality(OwedJobs') = Cardinality(OwedJobs) + 1
    BY <1>6, SlotSizes, Zenon
  <2> QED BY <1>1, <1>3, <1>6, <2>1, SMTT(30)
<1>7. ASSUME NEW j \in OwedJobs, outstanding' = outstanding - 1,
             OwedJobs' = OwedJobs \ {j}, Inserting' = Inserting
      PROVE  Goal
  <2>1. Cardinality(OwedJobs') = Cardinality(OwedJobs) - 1
    BY <1>7, SlotSizes, Zenon
  <2> QED BY <1>1, <1>3, <1>7, <2>1, SMTT(30)
<1> HIDE DEF Goal
<1>8. Goal
  BY <1>2, <1>4, <1>5, <1>6, <1>7, Zenon DEF SlotsMove
<1> QED BY <1>2, <1>8, Zenon DEF Goal, SlotInv, SlotAccounting, CompletionInv, OwedJobs, Inserting

\* What holds of slots and callbacks when a process starts: no call is in progress, no
\* callback has run, and outstanding_ counts the rows that are not terminal.
LEMMA FreshSlots ==
  ASSUME th = [t \in Threads |-> Idle], running = [j \in Jobs |-> NoLease],
         completions = [j \in Jobs |-> 0], outstanding = Cardinality({j \in Jobs : Live(j)})
  PROVE  SlotInv
<1>1. \A t \in Threads : th[t].pc = "idle"
  BY Zenon DEF Idle, At, Locals
<1>2. \A j \in Jobs : completions[j] = 0 /\ ~ Ending(j) /\ ~ Over(j)
  BY <1>1, SMTT(30) DEF Ending, Over
<1>3. CallbackInv /\ OverInv
  BY <1>1, <1>2, Zenon DEF CallbackInv, OverInv
<1>4. \A j \in Jobs : Owed(j) <=> Live(j)
  BY <1>2, Zenon DEF Owed
<1>5. {j \in Jobs : Owed(j)} = {j \in Jobs : Live(j)}
  BY <1>4, Zenon
<1>6. {t \in Threads : th[t].pc = "insert"} = {}
  BY <1>1, Zenon
<1>7. Cardinality({j \in Jobs : Live(j)}) \in Nat
  <2>1. {j \in Jobs : Live(j)} \in SUBSET Jobs
    BY Zenon
  <2> QED BY <2>1, JobEngineAssumption, Counting, Zenon
<1>8. SlotAccounting
  BY <1>5, <1>6, <1>7, FS_EmptySet, SMTT(30) DEF SlotAccounting
<1> QED BY <1>3, <1>8, Zenon DEF SlotInv

LEMMA InitSlots == Init => SlotInv
<1> SUFFICES ASSUME Init PROVE SlotInv
  BY Zenon
<1>1. \A j \in Jobs : ~ Live(j)
  <2>1. \A j \in Jobs : row[j] = JobRow("ABSENT", 0, 0, FALSE)
    BY Zenon DEF Init
  <2>2. JobRow("ABSENT", 0, 0, FALSE).state = "ABSENT"
    BY Zenon DEF JobRow
  <2> QED BY <2>1, <2>2, Zenon DEF Live
<1>2. {j \in Jobs : Live(j)} = {}
  BY <1>1, Zenon
<1>3. outstanding = Cardinality({j \in Jobs : Live(j)})
  BY <1>2, FS_EmptySet, Zenon DEF Init
<1> QED BY <1>3, FreshSlots, Zenon DEF Init

LEMMA InitCharge == Init => NoLostJob
<1> SUFFICES ASSUME Init, NEW j \in Jobs PROVE InCharge(j)
  BY Zenon DEF NoLostJob
<1>1. row[j] = JobRow("ABSENT", 0, 0, FALSE)
  BY Zenon DEF Init
<1>2. row[j].state = "ABSENT" /\ "ABSENT" \notin Startable \cup {"RUNNING"}
  <2>1. row[j].state = "ABSENT"
    BY <1>1, SMTT(30) DEF JobRow
  <2> QED BY <2>1, Zenon DEF Startable
<1> QED BY <1>2, Charge, Zenon

LEMMA SlotInvImplies == SlotInv => SlotAccounting /\ CompletedOnce
<1> SUFFICES ASSUME SlotInv, NEW j \in Jobs
             PROVE  /\ completions[j] <= 1
                    /\ completions[j] = 1 /\ j \notin acked => is_terminal(row[j].state)
                    /\ completions[j] = 1 => ~ is_running(j)
  BY Zenon DEF SlotInv, CompletedOnce
<1>1. completions[j] \in {0, 1}
  BY Zenon DEF SlotInv, CallbackInv
<1>2. completions[j] = 1 => ~ is_running(j) /\ (j \notin acked => is_terminal(row[j].state))
  BY Zenon DEF SlotInv, OverInv, Over
<1> QED BY <1>1, <1>2, SMTT(30)

LEMMA NoLostStep ==
  ASSUME EngineInv, NoLostJob, ~ StoreMayFail, Cardinality(Jobs) <= MaxOutstanding,
         [Next]_vars
  PROVE  NoLostJob'
<1>1. Effect
  BY Effects, Zenon
<1>2. ASSUME ~ stop_requested', NEW i \in Jobs, i \notin acked' PROVE InCharge(i)'
  <2>1. ~ stop_requested
    BY <1>2, StopKept, Zenon DEF EngineInv
  <2>2. InCharge(i)
    BY <1>1, <1>2, <2>1, AckedKept, Zenon DEF NoLostJob
  <2>3. \A j \in Jobs : {j} \cup queue \subseteq Pushed(j)
    BY <2>1, PushedIn, Zenon DEF EngineInv
  <2> QED BY <1>1, <1>2, <2>1, <2>2, <2>3, ChargeStep, Zenon
<1> QED BY <1>2, Zenon DEF NoLostJob
-----------------------------------------------------------------------------
(* A crash and the recovery after it *)

LEMMA PendingFinite == IsFiniteSet(pending) /\ Cardinality(pending) \in Nat
<1>1. pending \subseteq Jobs
  BY Zenon DEF pending
<1>2. IsFiniteSet(Jobs)
  BY JobEngineAssumption, Zenon
<1> QED BY <1>1, <1>2, FS_Subset, FS_CardinalityType, Zenon

\* What recovery does to a row.
LEMMA RecoveredRows ==
  ASSUME TypeOK, crash_and_recover, NEW j \in Jobs
  PROVE  \/ row'[j] = row[j]
         \/ /\ row[j].state = "RUNNING" /\ row'[j].state = "QUEUED"
            /\ row'[j].attempt = row[j].attempt /\ row'[j].lease_token = 0
            /\ row'[j].cancel_requested = row[j].cancel_requested
<1> DEFINE r == JobRow("QUEUED", row[j].attempt, 0, row[j].cancel_requested)
<1>1. r.state = "QUEUED" /\ r.attempt = row[j].attempt /\ r.lease_token = 0
      /\ r.cancel_requested = row[j].cancel_requested
  BY Zenon DEF JobRow
<1>2. row'[j] = RecoveredRow(j) \/ row'[j] = row[j]
  BY Zenon DEF crash_and_recover
<1>3. RecoveredRow(j) = row[j] \/ (row[j].state = "RUNNING" /\ RecoveredRow(j) = r)
  BY Zenon DEF RecoveredRow
<1> HIDE DEF r
<1> QED BY <1>1, <1>2, <1>3, Zenon

LEMMA CrashTypes ==
  ASSUME TypeOK, crash_and_recover
  PROVE  TypeOK'
<1>1. NoLease \in Lease /\ Idle \in Local
  <2>1. Idle \in Local
    BY AtType, Zenon DEF Idle, Labels
  <2> QED BY <2>1, Zenon DEF NoLease, Lease
<1>2. row' \in [Jobs -> Row]
  <2>1. PICK written \in [Jobs -> StoreOutcome] :
          row' = [j \in Jobs |-> IF written[j] THEN RecoveredRow(j) ELSE row[j]]
    BY Zenon DEF crash_and_recover
  <2>2. ASSUME NEW j \in Jobs PROVE RecoveredRow(j) \in Row /\ row[j] \in Row
    <3>1. "QUEUED" \in JobStates
      BY Zenon DEF JobStates
    <3> QED BY <3>1, RowType, JobRowType, Zenon DEF RecoveredRow
  <2> QED BY <2>1, <2>2, Zenon
<1>3. running' \in [Jobs -> Lease] /\ th' \in [Threads -> Local]
  BY <1>1, Zenon DEF crash_and_recover
<1>4. /\ issued' \in [Jobs -> Nat] /\ completions' \in [Jobs -> Nat]
      /\ reason' \in [Jobs -> {"None", "Timeout", "User"}]
      /\ remote_workers' \in [RemoteWorkers -> {"unregistered", "alive", "silent", "dead"}]
  BY Zenon DEF crash_and_recover, TypeOK
<1>5. queue' \subseteq Jobs
  <2>1. \A q \in RecoveredQueue : q \subseteq pending
    BY Zenon DEF RecoveredQueue
  <2> QED BY <2>1, Zenon DEF crash_and_recover, pending
<1>6. outstanding' \in Int
  BY PendingFinite, SMTT(30) DEF crash_and_recover, RecoveredSlots
<1>7. /\ attempts' \subseteq Attempt /\ expired' \subseteq Jobs /\ dead' \subseteq RemoteWorkers
      /\ to_drain' \subseteq Jobs /\ acked' \subseteq Jobs
  BY Zenon DEF crash_and_recover, TypeOK
<1>8. /\ main' \in {"serving", "draining", "counting", "stopping", "closed", "stopped"}
      /\ drain' \in BOOLEAN
  BY Zenon DEF crash_and_recover
<1> QED BY <1>2, <1>3, <1>4, <1>5, <1>6, <1>7, <1>8, Zenon DEF TypeOK

LEMMA CrashInv ==
  ASSUME EngineInv, crash_and_recover
  PROVE  EngineInv' /\ OldLeasesFenced'
<1>0. TypeOK /\ CancelInv /\ HistoryInv
  BY Zenon DEF EngineInv
<1>1. TypeOK'
  BY <1>0, CrashTypes, Zenon
<1>2. \A t \in Threads : /\ th'[t].pc = "idle" /\ th'[t].token = 0
                         /\ ~ Finishing(t)'
  BY AtFields, SMTT(30) DEF crash_and_recover, Idle, Finishing
<1>3. \A j \in Jobs : running'[j].token = 0 /\ ~ is_running(j)'
  BY Zenon DEF crash_and_recover, NoLease, is_running
<1>4. attempts' = attempts /\ issued' = issued
  BY Zenon DEF crash_and_recover
<1>5. \A j \in Jobs : /\ row'[j].attempt = row[j].attempt
                      /\ row'[j].lease_token \in {0, row[j].lease_token}
                      /\ row'[j].state = row[j].state \/ row'[j].state = "QUEUED"
  BY <1>0, RecoveredRows, ZenonT(60)
<1>6. CallsInv' /\ AttemptInv' /\ FinisherAlone' /\ OldLeasesFenced'
  BY <1>2, Zenon DEF CallsInv, AttemptInv, FinisherAlone, OldLeasesFenced
<1>7. TokensInv'
  <2>1. \A t \in Threads : th'[t].job = Nobody /\ Nobody \notin Jobs
    BY AtFields, JobEngineAssumption, SMTT(30) DEF crash_and_recover, Idle
  <2> QED BY <1>2, <1>3, <2>1, SMTT(30) DEF TokensInv
<1>8. CancelInv'
  <2>1. ASSUME NEW j \in Jobs PROVE row'[j].lease_token <= issued'[j]
    BY <1>0, <1>4, <1>5, IssuedType, SMTT(30) DEF CancelInv
  <2> QED BY <1>2, <2>1, ZenonT(60) DEF CancelInv
<1>9. LeaseMatchesRow'
  BY <1>3, Zenon DEF LeaseMatchesRow
<1>10. HistoryInv'
  <2>1. \A a \in attempts : a.job \in Jobs
    BY <1>0, Zenon DEF TypeOK, Attempt
  <2> QED BY <1>0, <1>2, <1>3, <1>4, <1>5, <2>1, ZenonT(60) DEF HistoryInv
<1> QED BY <1>1, <1>6, <1>7, <1>8, <1>9, <1>10, Zenon DEF EngineInv

\* Recovery takes one slot for each row that is not terminal.
LEMMA CrashSlots ==
  ASSUME EngineInv, crash_and_recover
  PROVE  SlotInv'
<1>1. \A t \in Threads : th'[t].pc = "idle" /\ ~ Finishing(t)'
  BY AtFields, SMTT(30) DEF crash_and_recover, Idle, Finishing
<1>2. \A j \in Jobs : completions'[j] = 0 /\ ~ Ending(j)' /\ ~ Over(j)'
  BY <1>1, SMTT(30) DEF crash_and_recover, Ending, Over
<1>3. CallbackInv' /\ OverInv'
  BY <1>1, <1>2, Zenon DEF CallbackInv, OverInv
<1>4. \A j \in Jobs : Live(j)' <=> Live(j)
  BY RecoveredRows, Zenon DEF EngineInv, Live, is_terminal
<1>5. \A j \in Jobs : Owed(j)' <=> Live(j)
  BY <1>2, <1>4, Zenon DEF Owed
<1>6. {j \in Jobs : Owed(j)}' = pending
  BY <1>5, Zenon DEF pending
<1>7. {t \in Threads : th[t].pc = "insert"}' = {}
  BY <1>1, Zenon
<1>8. outstanding' = Cardinality(pending)
  BY Zenon DEF crash_and_recover, RecoveredSlots
<1>9. Cardinality({t \in Threads : th[t].pc = "insert"}') = 0
  BY <1>7, FS_EmptySet, Zenon
<1>10. outstanding' = Cardinality({j \in Jobs : Owed(j)}')
  BY <1>6, <1>8, ZenonT(60)
<1>11. SlotAccounting'
  <2> DEFINE owed == {j \in Jobs : Owed(j)}'
             inserting == {t \in Threads : th[t].pc = "insert"}'
  <2>1. outstanding' = Cardinality(owed) /\ Cardinality(inserting) = 0
    BY <1>9, <1>10, ZenonT(60)
  <2>2. Cardinality(owed) \in Nat
    BY <1>6, PendingFinite, ZenonT(60)
  <2> HIDE DEF owed, inserting
  <2>3. outstanding' = Cardinality(owed) + Cardinality(inserting)
    BY <2>1, <2>2, SMTT(30)
  <2> QED BY <2>3, Zenon DEF SlotAccounting, owed, inserting
<1> QED BY <1>3, <1>11, ZenonT(60) DEF SlotInv

\* Recovery leaves no row RUNNING and pushes every row that waits.
LEMMA CrashCharge ==
  ASSUME EngineInv, ~ StoreMayFail, Cardinality(Jobs) <= MaxOutstanding, crash_and_recover
  PROVE  NoLostJob'
<1>1. queue' = pending
  <2>1. pending \subseteq Jobs /\ IsFiniteSet(Jobs)
    BY JobEngineAssumption, Zenon DEF pending
  <2>2. Cardinality(pending) <= Cardinality(Jobs)
    BY <2>1, FS_Subset, Zenon
  <2>3. Cardinality(Jobs) \in Nat
    BY <2>1, FS_CardinalityType, Zenon
  <2>4. Cardinality(pending) <= MaxOutstanding
    BY <2>2, <2>3, PendingFinite, JobEngineAssumption, SMTT(30)
  <2> QED BY <2>4, Zenon DEF crash_and_recover, RecoveredQueue
<1>2. ASSUME NEW j \in Jobs PROVE InCharge(j)'
  <2>1. row'[j] = RecoveredRow(j)
    <3>1. PICK written \in [Jobs -> StoreOutcome] :
            row' = [i \in Jobs |-> IF written[i] THEN RecoveredRow(i) ELSE row[i]]
      BY Zenon DEF crash_and_recover
    <3>2. StoreOutcome = {TRUE}
      BY Zenon DEF StoreOutcome
    <3>3. written[j] = TRUE
      BY <3>2, Zenon
    <3> QED BY <3>1, <3>3, Zenon
  <2>2. JobRow("QUEUED", row[j].attempt, 0, row[j].cancel_requested).state = "QUEUED"
    BY Zenon DEF JobRow
  <2>3. row'[j].state # "RUNNING"
    BY <2>1, <2>2, Zenon DEF RecoveredRow
  <2>4. row'[j].state \in Startable => row[j].state \in Startable \cup {"RUNNING"}
    BY <2>1, <2>2, Zenon DEF RecoveredRow
  <2>5. row[j].state \in Startable \cup {"RUNNING"} => j \in pending
    BY Zenon DEF pending, Live, Startable, is_terminal
  <2>6. row'[j].state \in Startable => j \in queue'
    BY <1>1, <2>4, <2>5, Zenon
  <2> QED BY <2>3, <2>6, ZenonT(60) DEF InCharge
<1> QED BY <1>2, Zenon DEF NoLostJob

LEMMA RestartInitInv == RestartInit => RestartInv
<1> SUFFICES ASSUME RestartInit PROVE RestartInv
  BY Zenon
<1>1. Init /\ restarts = 0
  BY Zenon DEF RestartInit
<1>2. EngineInv
  BY <1>1, InitInv, Zenon
<1>3. OldLeasesFenced
  BY <1>1, AtFields, SMTT(30) DEF Init, Idle, OldLeasesFenced, Finishing
<1>4. LimitInv(RestartLimit)
  <2>1. LimitInv(MaxAttempts)
    BY <1>1, InitLimit, ZenonT(60)
  <2>2. \A j \in Jobs : RestartLimit[j] = MaxAttempts[j]
    BY <1>1, JobEngineAssumption, SMTT(30) DEF RestartLimit
  <2> QED BY <2>1, <2>2, ZenonT(60) DEF LimitInv
<1> QED BY <1>1, <1>2, <1>3, <1>4, Zenon DEF RestartInv

LEMMA RestartNextInv ==
  ASSUME RestartInv, [RestartNext]_restartVars
  PROVE  RestartInv'
<1>0. restarts \in Nat /\ EngineInv /\ LimitInv(RestartLimit) /\ OldLeasesFenced
  BY Zenon DEF RestartInv
<1>1. CASE Serve /\ UNCHANGED restarts
  <2>1. Next
    BY <1>1, Zenon DEF Next
  <2>3. LimitInv(RestartLimit)'
    <3>1. PICK n \in Nat : n = restarts /\ n = restarts'
      BY <1>0, <1>1, Zenon
    <3> DEFINE limit == [j \in Jobs |-> MaxAttempts[j] + n]
    <3>2. limit \in [Jobs -> Nat] /\ \A j \in Jobs : MaxAttempts[j] <= limit[j]
      BY JobEngineAssumption, SMTT(30)
    <3>3. RestartLimit = limit /\ RestartLimit' = limit
      BY <3>1, Zenon DEF RestartLimit
    <3> HIDE DEF limit
    <3>4. LimitInv(limit)'
      BY <1>0, <2>1, <3>2, <3>3, LimitStep, Zenon
    <3> QED BY <3>3, <3>4, Zenon DEF LimitInv
  <2>4. EngineInv' /\ OldLeasesFenced'
    BY <1>0, <2>1, NextInv, FencedStep, Zenon
  <2> QED BY <1>0, <1>1, <2>3, <2>4, Zenon DEF RestartInv
<1>2. CASE crash_and_recover
  <2>1. restarts' = restarts + 1
    BY <1>2, Zenon DEF crash_and_recover
  <2>2. ASSUME NEW j \in Jobs
        PROVE  /\ row'[j].attempt <= RestartLimit'[j]
               /\ row'[j].state \in Startable => row'[j].attempt < RestartLimit'[j]
               /\ row'[j].state \in Exhausted => row'[j].attempt >= MaxAttempts[j]
    <3>1. /\ RestartLimit[j] \in Nat /\ RestartLimit'[j] = RestartLimit[j] + 1
          /\ row[j].attempt \in Nat
      BY <1>0, <2>1, RowType, JobEngineAssumption, SMTT(30) DEF RestartLimit, EngineInv
    <3>2. /\ row[j].attempt <= RestartLimit[j]
          /\ row[j].state \in Exhausted => row[j].attempt >= MaxAttempts[j]
      BY <1>0, Zenon DEF LimitInv
    <3>3. /\ row'[j].attempt = row[j].attempt
          /\ row'[j].state \in Exhausted => row[j].state \in Exhausted
      BY <1>0, <1>2, RecoveredRows, ZenonT(60) DEF EngineInv, Exhausted
    <3> QED BY <3>1, <3>2, <3>3, SMTT(30)
  <2>3. LimitInv(RestartLimit)'
    BY <2>2, Zenon DEF LimitInv
  <2> QED BY <1>0, <1>2, <2>1, <2>3, CrashInv, SMTT(30) DEF RestartInv
<1>3. CASE UNCHANGED restartVars
  <2>1. UNCHANGED vars /\ restarts' = restarts
    BY <1>3, Zenon DEF restartVars
  <2>2. EngineInv'
    BY <1>0, <2>1, NextInv, Zenon
  <2>3. LimitInv(RestartLimit)' /\ OldLeasesFenced'
    BY <1>0, <2>1, ZenonT(60) DEF vars, LimitInv, RestartLimit, OldLeasesFenced, Finishing
  <2> QED BY <1>0, <2>1, <2>2, <2>3, Zenon DEF RestartInv
<1> QED BY <1>1, <1>2, <1>3, Zenon DEF RestartNext
-----------------------------------------------------------------------------
(* Theorems about restarts *)

\* However often the coordinator crashes, and whatever writes fail: the invariant of the
\* engine holds again after recover().
THEOREM RestartLifecycle == RestartSpec => []RestartInv
<1>1. RestartInit => RestartInv
  BY RestartInitInv, Zenon
<1>2. RestartInv /\ [RestartNext]_restartVars => RestartInv'
  BY RestartNextInv, Zenon
<1> QED BY <1>1, <1>2, PTL DEF RestartSpec

LEMMA RestartEngine == RestartSpec => []EngineInv
<1>1. RestartInv => EngineInv
  BY Zenon DEF RestartInv
<1> QED BY <1>1, RestartLifecycle, PTL

LEMMA ServeSteps == [RestartNext]_restartVars => [Next]_vars \/ crash_and_recover
BY Zenon DEF RestartNext, Next, restartVars

\* A lease issued before a crash is never honoured after it.
THEOREM OldLeasesAreFenced == RestartSpec => []OldLeasesFenced
<1>1. RestartInv => OldLeasesFenced
  BY Zenon DEF RestartInv
<1> QED BY <1>1, RestartLifecycle, PTL

\* Each restart buys a job one attempt beyond max_attempts at most, and costs it none.
THEOREM RestartBuysOneAttempt == RestartSpec => []AttemptsPerRestart
<1>1. RestartInv => AttemptsPerRestart
  BY Zenon DEF RestartInv, LimitInv, RestartLimit, AttemptsPerRestart
<1> QED BY <1>1, RestartLifecycle, PTL

\* Across crashes no recorded attempt is rewritten, and a terminal row changes only when a
\* cancel() that had read it before its end is answered.
THEOREM HistoryIsDurable == RestartSpec => HistorySurvives
<1>1. ASSUME RestartInv, [RestartNext]_restartVars
      PROVE  [/\ \A j \in Jobs \ acked' : is_terminal(row[j].state) => row'[j].state = row[j].state
              /\ attempts \subseteq attempts']_restartVars
  <2>0. EngineInv
    BY <1>1, Zenon DEF RestartInv
  <2>1. CASE Serve /\ UNCHANGED restarts
    <3>1. Next
      BY <2>1, Zenon DEF Next
    <3>2. attempts \subseteq attempts'
      <4>1. TypeOK'
        BY <2>0, <3>1, NextTypes, ZenonT(60)
      <4> QED BY <2>0, <3>1, <4>1, StoreFrame, RecordStep, ZenonT(60)
    <3> QED BY <2>0, <3>1, <3>2, TerminalStep, Zenon
  <2>2. CASE crash_and_recover
    <3>1. attempts' = attempts
      BY <2>2, Zenon DEF crash_and_recover
    <3>2. \A j \in Jobs : is_terminal(row[j].state) => row'[j].state = row[j].state
      BY <2>0, <2>2, RecoveredRows, Zenon DEF EngineInv, is_terminal
    <3> QED BY <3>1, <3>2, Zenon
  <2> QED BY <1>1, <2>1, <2>2, Zenon DEF RestartNext
<1> QED BY <1>1, RestartLifecycle, PTL DEF RestartSpec, HistorySurvives
-----------------------------------------------------------------------------
(* Theorems about slots and stranded jobs *)

\* While no write to the store fails, slots and completion callbacks are accounted for in
\* every interleaving, shutdown included.
THEOREM SlotsInvariant == ~ StoreMayFail => (Spec => [](EngineInv /\ SlotInv))
<1> SUFFICES ASSUME ~ StoreMayFail PROVE Spec => [](EngineInv /\ SlotInv)
  BY Zenon
<1>1. Init => EngineInv /\ SlotInv
  BY InitInv, InitSlots, Zenon
<1>2. (EngineInv /\ SlotInv) /\ [Next]_vars => (EngineInv /\ SlotInv)'
  BY NextInv, Effects, SlotCount, ZenonT(60)
<1> QED BY <1>1, <1>2, PTL DEF Spec

\* outstanding_ is exactly the number of slots owed (engine.cpp:56-70, 417-431).
THEOREM SlotsAreAccounted == ~ StoreMayFail => (Spec => []SlotAccounting)
<1>1. EngineInv /\ SlotInv => SlotAccounting
  BY Zenon DEF SlotInv
<1> QED BY <1>1, SlotsInvariant, PTL

\* The completion callback runs at most once for a job, and then the job is over.
THEOREM CallbackRunsOnce == ~ StoreMayFail => (Spec => []CompletedOnce)
<1>1. EngineInv /\ SlotInv => CompletedOnce
  BY SlotInvImplies, Zenon
<1> QED BY <1>1, SlotsInvariant, PTL

\* The same across crashes: recover() takes exactly the slots of the rows it requeues, and
\* within one life of the process the callback of a job runs at most once.
THEOREM RestartSlots ==
  ~ StoreMayFail => (RestartSpec => [](SlotAccounting /\ CompletedOnce))
<1> SUFFICES ASSUME ~ StoreMayFail PROVE RestartSpec => [](SlotAccounting /\ CompletedOnce)
  BY Zenon
<1>1. RestartSpec => []EngineInv
  BY RestartEngine, Zenon
<1>2. RestartInit => SlotInv
  BY InitSlots, Zenon DEF RestartInit
<1>3. SlotInv /\ EngineInv /\ EngineInv' /\ [RestartNext]_restartVars => SlotInv'
  <2> SUFFICES ASSUME SlotInv, EngineInv, EngineInv', [RestartNext]_restartVars PROVE SlotInv'
    BY Zenon
  <2>1. [Next]_vars \/ crash_and_recover
    BY ServeSteps, Zenon
  <2> QED BY <2>1, CrashSlots, Effects, SlotCount, ZenonT(60)
<1>4. SlotInv => SlotAccounting /\ CompletedOnce
  BY SlotInvImplies, Zenon
<1> QED BY <1>1, <1>2, <1>3, <1>4, PTL DEF RestartSpec

\* Until stop() no accepted job is stranded, unless a client asked to cancel it, while no write
\* fails and the queue has room for every job ever submitted.  The second hypothesis is needed:
\* a queue that fills up with entries of cancelled jobs drops a live one.
THEOREM NoJobIsLost ==
  (~ StoreMayFail /\ Cardinality(Jobs) <= MaxOutstanding) => (Spec => []NoLostJob)
<1> SUFFICES ASSUME ~ StoreMayFail, Cardinality(Jobs) <= MaxOutstanding
             PROVE  Spec => []NoLostJob
  BY Zenon
<1>1. Spec => []EngineInv
  <2>1. LifecycleInv => EngineInv
    BY Zenon DEF LifecycleInv
  <2> QED BY <2>1, Lifecycle, PTL
<1>2. Init => NoLostJob
  BY InitCharge, Zenon
<1>3. NoLostJob /\ EngineInv /\ [Next]_vars => NoLostJob'
  BY NoLostStep, Zenon
<1> QED BY <1>1, <1>2, <1>3, PTL DEF Spec

\* The same across crashes: recover() requeues every job that was waiting or running.
THEOREM RestartLosesNoJob ==
  (~ StoreMayFail /\ Cardinality(Jobs) <= MaxOutstanding) => (RestartSpec => []NoLostJob)
<1> SUFFICES ASSUME ~ StoreMayFail, Cardinality(Jobs) <= MaxOutstanding
             PROVE  RestartSpec => []NoLostJob
  BY Zenon
<1>1. RestartSpec => []EngineInv
  BY RestartEngine, Zenon
<1>2. RestartInit => NoLostJob
  BY InitCharge, Zenon DEF RestartInit
<1>3. NoLostJob /\ EngineInv /\ [RestartNext]_restartVars => NoLostJob'
  BY ServeSteps, NoLostStep, CrashCharge, ZenonT(60)
<1> QED BY <1>1, <1>2, <1>3, PTL DEF RestartSpec
=============================================================================
