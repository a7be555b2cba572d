------------------------- MODULE RemoteWorkerProofs -------------------------
(* Leases of a remote worker, for every number of jobs, threads, attempts, failing           *)
(* connections, restarts and crashes.                                                        *)
EXTENDS RemoteWorker, TLAPS

(* The leases that a thread in state x holds as an answer or runs, whether it reports a      *)
(* result, and whether its report has been answered.                                         *)
HeldOf(x) ==
  (IF x.rep # None /\ x.rep.kind = "jobs" THEN x.rep.leases ELSE {})
    \cup (IF x.pc = "run" THEN {x.lease} ELSE {})

Reports(x) == x.pc = "wait" /\ x.req.kind = "complete"

Answered(x) == Reports(x) /\ x.rep # None

(* The row of a job follows its lease and the limit on its attempts. *)
RowOk(j) ==
  /\ row[j].attempt <= MaxAttempts + restarts
  /\ row[j].state \in Startable => row[j].attempt < MaxAttempts + restarts
  /\ running[j] # None => row[j].state = "RUNNING" /\ running[j].attempt = row[j].attempt
  /\ row[j].state = "SUCCEEDED" => <<j, row[j].attempt>> \in applied

RowInv == \A j \in Jobs : RowOk(j)

(* A lease is in the hand of one thread at most, and none is newer than its job's row. *)
HandInv ==
  /\ \A t \in Pollers : \A l \in HeldOf(th[t]) : 1 <= l[2] /\ l[2] <= row[l[1]].attempt
  /\ \A s, t \in Pollers : HeldOf(th[s]) \cap HeldOf(th[t]) # {} => s = t
  /\ \A t \in Pollers : Reports(th[t]) => th[t].req.attempt <= row[th[t].req.job].attempt
  /\ \A t \in Pollers : Answered(th[t]) => ~ holds_lease(th[t].req)
  /\ \A l \in executed : 1 <= l[2] /\ l[2] <= row[l[1]].attempt

ActiveInv ==
  \A j \in Jobs : active[j] # None => th[active[j]].pc = "run" /\ th[active[j]].lease[1] = j

(* No lease, no request and no process that left has the id a registration is answered with. *)
FreshId(i) ==
  /\ i < next_id
  /\ i \notin left
  /\ \A j \in Jobs : running[j] # None => running[j].owner # i
  /\ \A r \in late : r.kind = "claim" => r.id # i

IdInv ==
  /\ \A r \in late : r.kind = "claim" => r.id < next_id /\ lost
  /\ \A j \in Jobs : running[j] # None => running[j].owner < next_id
  /\ \A i \in left : i < next_id
  /\ worker_id # None => worker_id < next_id /\ worker_id \notin left
  /\ th[Main].rep # None => FreshId(th[Main].rep.id)

RemoteInv ==
  /\ TypeOK /\ RowInv /\ HandInv /\ ActiveInv /\ IdInv
  /\ LeaseIsHeld /\ StopLeavesNoLease

-----------------------------------------------------------------------------
(* Constants and records *)

LEMMA Constants ==
  /\ Main \in Threads /\ Heart \in Threads /\ Main # Heart
  /\ \A t \in Pollers : t \in Threads /\ t # Main /\ t # Heart /\ t # None
  /\ \A t \in Threads \ {Main} : t = Heart \/ t \in Pollers
  /\ None \notin Nat /\ None \notin Leases /\ None \notin Grants
  /\ None \notin Requests /\ None \notin Replies
BY RemoteAssumption, Zenon DEF Threads

LEMMA NatFacts ==
  /\ \A x, y, z \in Nat : x <= y /\ y <= z => x <= z
  /\ \A x, y \in Nat : x <= y /\ y < x => FALSE
  /\ \A x \in Nat : x + 1 \in Nat /\ x < x + 1 /\ x <= x + 1 /\ x <= x /\ ~ x < x /\ 1 <= x + 1
  /\ \A x, y \in Nat : x + y \in Nat
  /\ \A x, y \in Nat : x < y => x + 1 <= y /\ x <= y /\ x < y + 1
OBVIOUS

LEMMA RequestFacts ==
  ASSUME NEW r \in Requests
  PROVE  /\ r # None
         /\ r.kind \in {"register", "claim", "heartbeat", "complete"}
         /\ r.kind = "register" => r = [kind |-> "register"]
         /\ r.kind # "register" => r.id \in Nat
         /\ r.kind = "complete" => /\ r.job \in Jobs /\ r.attempt \in Nat
                                   /\ r.status \in {"SUCCEEDED", "FAILED", "TIMED_OUT"}
<1>1. r # None
  BY Constants, Zenon
<1>2. CASE r \in [kind : {"register"}]
  BY <1>1, <1>2
<1>3. CASE r \in [kind : {"claim", "heartbeat"}, id : Nat]
  BY <1>1, <1>3
<1>4. CASE r \in [kind : {"complete"}, id : Nat, job : Jobs, attempt : Nat,
                  status : {"SUCCEEDED", "FAILED", "TIMED_OUT"}]
  BY <1>1, <1>4
<1> QED BY <1>2, <1>3, <1>4, Zenon DEF Requests

LEMMA ReplyFacts ==
  ASSUME NEW a \in Replies
  PROVE  /\ a # None
         /\ a.kind = "jobs" => a.leases \subseteq Leases
         /\ a.kind = "heartbeat" => a.cancel \subseteq Jobs
         /\ a.kind = "register" => a.id \in Nat
<1>1. a # None
  BY Constants, Zenon
<1>2. CASE a \in [kind : {"jobs"}, leases : SUBSET Leases]
  BY <1>1, <1>2
<1>3. CASE a \in [kind : {"complete"}, accepted : BOOLEAN]
  BY <1>1, <1>3
<1>4. CASE a \in [kind : {"heartbeat"}, cancel : SUBSET Jobs]
  BY <1>1, <1>4
<1>5. CASE a \in [kind : {"register"}, id : Nat]
  BY <1>1, <1>5
<1> QED BY <1>2, <1>3, <1>4, <1>5, Zenon DEF Replies

LEMMA GrantFacts ==
  ASSUME NEW g \in Grants
  PROVE  /\ g # None
         /\ g.owner \in Nat /\ g.attempt \in Nat /\ g.reason \in {"None", "User", "Timeout"}
<1>1. g # None
  BY Constants, Zenon
<1> QED BY <1>1 DEF Grants

LEMMA LeaseFacts ==
  ASSUME NEW l \in Leases
  PROVE  l[1] \in Jobs /\ l[2] \in Nat /\ l = <<l[1], l[2]>>
BY DEF Leases

LEMMA LeaseMade ==
  ASSUME NEW j \in Jobs, NEW n \in Nat
  PROVE  <<j, n>> \in Leases /\ <<j, n>>[1] = j /\ <<j, n>>[2] = n
BY DEF Leases

LEMMA RequestsMade ==
  ASSUME NEW w \in Nat
  PROVE  /\ [kind |-> "register"] \in Requests
         /\ \A k \in {"claim", "heartbeat"} : [kind |-> k, id |-> w] \in Requests
         /\ \A j \in Jobs, n \in Nat, s \in {"SUCCEEDED", "FAILED", "TIMED_OUT"} :
              [kind |-> "complete", id |-> w, job |-> j, attempt |-> n, status |-> s] \in Requests
BY DEF Requests

LEMMA ThreadFacts ==
  ASSUME NEW x \in ThreadStates
  PROVE  /\ x.pc \in {"off", "wait", "run", "up", "join"}
         /\ x.req \in Requests \cup {None}
         /\ x.rep \in Replies \cup {None}
         /\ x.lease \in Leases \cup {None}
BY Zenon DEF ThreadStates

(* The thread states that the actions write. *)
LEMMA OffMade ==
  /\ Off \in ThreadStates /\ Off.pc = "off" /\ Off.rep = None
BY Zenon DEF Off, ThreadStates

LEMMA CallMade ==
  ASSUME NEW r \in Requests
  PROVE  /\ Call(r) \in ThreadStates
         /\ Call(r).pc = "wait" /\ Call(r).req = r /\ Call(r).rep = None
BY Zenon DEF Call, Off, ThreadStates

LEMMA RunMade ==
  ASSUME NEW l \in Leases
  PROVE  LET x == [Off EXCEPT !.pc = "run", !.lease = l]
         IN x \in ThreadStates /\ x.pc = "run" /\ x.lease = l /\ x.rep = None
BY Zenon DEF Off, ThreadStates

LEMMA UpMade ==
  LET x == [Off EXCEPT !.pc = "up"]
  IN x \in ThreadStates /\ x.pc = "up" /\ x.rep = None
BY Zenon DEF Off, ThreadStates

LEMMA PcSet ==
  ASSUME NEW x \in ThreadStates, NEW p \in {"off", "join"}
  PROVE  LET y == [x EXCEPT !.pc = p]
         IN y \in ThreadStates /\ y.pc = p /\ y.req = x.req /\ y.rep = x.rep
BY Zenon DEF ThreadStates

LEMMA RepSet ==
  ASSUME NEW x \in ThreadStates, NEW a \in Replies
  PROVE  LET y == [x EXCEPT !.rep = a]
         IN /\ y \in ThreadStates
            /\ y.pc = x.pc /\ y.req = x.req /\ y.rep = a /\ y.lease = x.lease
BY Zenon DEF ThreadStates

LEMMA TrySet ==
  ASSUME NEW x \in ThreadStates
  PROVE  LET y == [x EXCEPT !.try = 1]
         IN /\ y \in ThreadStates
            /\ y.pc = x.pc /\ y.req = x.req /\ y.rep = x.rep /\ y.lease = x.lease
BY Zenon DEF ThreadStates

LEMMA Resent ==
  ASSUME NEW x \in ThreadStates
  PROVE  LET y == [x EXCEPT !.try = 1, !.rep = None]
         IN /\ y \in ThreadStates
            /\ y.pc = x.pc /\ y.req = x.req /\ y.rep = None /\ y.lease = x.lease
BY Zenon DEF ThreadStates

LEMMA FlagSet ==
  ASSUME NEW x \in ThreadStates
  PROVE  LET y == [x EXCEPT !.cancel = TRUE]
         IN /\ y \in ThreadStates
            /\ y.pc = x.pc /\ y.req = x.req /\ y.rep = x.rep /\ y.lease = x.lease
BY Zenon DEF ThreadStates

-----------------------------------------------------------------------------
(* The coordinator *)

Rows == [state : JobStates, attempt : Nat, cancel_requested : BOOLEAN]

CoordTypes ==
  /\ row \in [Jobs -> Rows]
  /\ running \in [Jobs -> Grants \cup {None}]
  /\ next_id \in Nat \ {0} /\ remote_workers \subseteq 1 .. next_id - 1
  /\ applied \subseteq Leases

(* A step that grants job j to the worker that sent r, and one that grants nothing. *)
Granted(r, j) ==
  /\ row[j].state \in Startable
  /\ row'[j].state = "RUNNING" /\ row'[j].attempt = row[j].attempt + 1
  /\ running'[j] # None
  /\ running'[j].owner = r.id /\ running'[j].attempt = row[j].attempt + 1
  /\ \A k \in Jobs : k # j => row'[k] = row[k] /\ running'[k] = running[k]

Kept ==
  \A j \in Jobs :
    /\ row'[j].attempt = row[j].attempt
    /\ running'[j] # None => /\ running[j] # None
                             /\ running'[j].owner = running[j].owner
                             /\ running'[j].attempt = running[j].attempt

(* The lease that r reports is in running_ after the step. *)
HoldsNext(r) ==
  /\ running'[r.job] # None
  /\ running'[r.job].owner = r.id
  /\ running'[r.job].attempt = r.attempt

LEMMA RowTypes ==
  ASSUME CoordTypes, NEW j \in Jobs
  PROVE  /\ row[j] \in Rows
         /\ row[j].state \in JobStates /\ row[j].attempt \in Nat
         /\ row[j].cancel_requested \in BOOLEAN
         /\ running[j] # None => /\ running[j] \in Grants
                                 /\ running[j].owner \in Nat /\ running[j].attempt \in Nat
<1>1. row[j] \in Rows /\ running[j] \in Grants \cup {None}
  BY Zenon DEF CoordTypes
<1>2. running[j] # None => running[j] \in Grants
  BY <1>1, Zenon
<1> QED BY <1>1, <1>2, GrantFacts, Zenon DEF Rows

LEMMA RowSame ==
  ASSUME NEW j, RowOk(j), row'[j] = row[j], running'[j] = running[j], applied \subseteq applied',
         restarts' = restarts
  PROVE  RowOk(j)'
BY Zenon DEF RowOk

(* A row and its lease are replaced: what is to be shown. *)
LEMMA CoordStep ==
  ASSUME CoordTypes, RowInv, NEW j \in Jobs, NEW x \in Rows, NEW g \in Grants \cup {None},
         row' = [row EXCEPT ![j] = x], running' = [running EXCEPT ![j] = g],
         applied' \subseteq Leases, applied \subseteq applied', restarts' = restarts,
         next_id' = next_id, remote_workers' = remote_workers
  PROVE  /\ CoordTypes'
         /\ row'[j] = x /\ running'[j] = g
         /\ \A k \in Jobs : k # j => row'[k] = row[k] /\ running'[k] = running[k]
         /\ RowOk(j)' => RowInv'
<1>1. row' \in [Jobs -> Rows] /\ running' \in [Jobs -> Grants \cup {None}]
  BY Zenon DEF CoordTypes
<1>2. CoordTypes'
  BY <1>1, Zenon DEF CoordTypes
<1>3. /\ row'[j] = x /\ running'[j] = g
      /\ \A k \in Jobs : k # j => row'[k] = row[k] /\ running'[k] = running[k]
  BY Zenon DEF CoordTypes
<1>4. ASSUME NEW k \in Jobs, k # j
      PROVE  RowOk(k)'
  BY <1>3, <1>4, RowSame, Zenon DEF RowInv
<1>5. RowOk(j)' => RowInv'
  BY <1>4, Zenon DEF RowInv
<1> QED BY <1>2, <1>3, <1>5, Zenon

LEMMA CoordSame ==
  ASSUME CoordTypes, RowInv, UNCHANGED <<row, running, applied, restarts>>
  PROVE  RowInv' /\ Kept
BY Zenon DEF RowInv, RowOk, Kept

LEMMA Limits ==
  ASSUME restarts \in Nat
  PROVE  /\ MaxAttempts + restarts \in Nat
         /\ \A n \in Nat : n < MaxAttempts => n < MaxAttempts + restarts
         /\ \A n \in Nat : n < MaxAttempts + restarts => n + 1 <= MaxAttempts + restarts
         /\ \A n \in Nat : n <= MaxAttempts + restarts => n <= MaxAttempts + (restarts + 1)
         /\ \A n \in Nat : n <= MaxAttempts + restarts => n < MaxAttempts + (restarts + 1)
<1>1. MaxAttempts \in Nat
  BY RemoteAssumption
<1> QED BY <1>1

(* The answer of a claim. *)
LEMMA ClaimStep ==
  ASSUME CoordTypes, RowInv, restarts \in Nat, restarts' = restarts,
         NEW r \in Requests, NEW a, claim(r, a)
  PROVE  /\ CoordTypes' /\ RowInv' /\ next_id' = next_id
         /\ \/ Kept /\ a = [kind |-> "jobs", leases |-> {}]
            \/ \E j \in Jobs : /\ Granted(r, j)
                               /\ a = [kind |-> "jobs", leases |-> {<<j, row[j].attempt + 1>>}]
<1> DEFINE queued == {j \in Jobs : row[j].state \in Startable}
<1>0. remote_workers' = remote_workers /\ next_id' = next_id /\ applied' = applied
  BY Zenon DEF claim
<1>1. CASE UNCHANGED <<row, running>> /\ a = [kind |-> "jobs", leases |-> {}]
  <2>1. CoordTypes'
    BY <1>0, <1>1, Zenon DEF CoordTypes
  <2> QED BY <1>0, <1>1, <2>1, CoordSame, Zenon
<1>2. ASSUME NEW j \in queued,
             a = [kind |-> "jobs", leases |-> {<<j, next_attempt(j)>>}],
             row' = [row EXCEPT ![j].state = "RUNNING", ![j].attempt = next_attempt(j)],
             running' = [running EXCEPT ![j] = [owner |-> r.id, attempt |-> next_attempt(j),
                                                reason |-> "None"]]
      PROVE  /\ CoordTypes' /\ RowInv' /\ Granted(r, j)
             /\ a = [kind |-> "jobs", leases |-> {<<j, row[j].attempt + 1>>}]
  <2> DEFINE n == row[j].attempt + 1
             x == [row[j] EXCEPT !.state = "RUNNING", !.attempt = n]
             g == [owner |-> r.id, attempt |-> n, reason |-> "None"]
  <2>1. j \in Jobs /\ row[j].state \in Startable
    BY Zenon
  <2>2. row[j].attempt \in Nat /\ n \in Nat
    BY <2>1, RowTypes, NatFacts, Zenon
  <2>3. r.kind = "claim"
    BY Zenon DEF claim
  <2>4. r.id \in Nat
    BY <2>3, RequestFacts
  <2> HIDE DEF n
  <2>50. g \in Grants /\ g.owner = r.id /\ g.attempt = n
    BY <2>2, <2>4, Zenon DEF Grants
  <2> HIDE DEF g
  <2>5. g \in Grants /\ g # None /\ g.owner = r.id /\ g.attempt = n
    BY <2>50, Constants, Zenon
  <2>6. x \in Rows /\ x.state = "RUNNING" /\ x.attempt = n
    BY <2>1, <2>2, RowTypes, Zenon DEF JobStates, Rows
  <2>7. row' = [row EXCEPT ![j] = x] /\ running' = [running EXCEPT ![j] = g]
    BY <1>2, Zenon DEF next_attempt, g, n
  <2> HIDE DEF x
  <2>8. applied' \subseteq Leases /\ applied \subseteq applied'
    BY <1>0, Zenon DEF CoordTypes
  <2>9. /\ CoordTypes'
        /\ row'[j] = x /\ running'[j] = g
        /\ \A k \in Jobs : k # j => row'[k] = row[k] /\ running'[k] = running[k]
        /\ RowOk(j)' => RowInv'
    BY <1>0, <2>1, <2>5, <2>6, <2>7, <2>8, CoordStep, Zenon
  <2>10. row[j].attempt < MaxAttempts + restarts
    BY <2>1, Zenon DEF RowInv, RowOk
  <2>11. n <= MaxAttempts + restarts
    BY <2>2, <2>10, Limits, Zenon DEF n
  <2>12. RowOk(j)'
    BY <2>5, <2>6, <2>9, <2>11, Zenon DEF RowOk, Startable
  <2>13. Granted(r, j)
    BY <2>1, <2>5, <2>6, <2>9, Zenon DEF Granted, n
  <2>14. a = [kind |-> "jobs", leases |-> {<<j, row[j].attempt + 1>>}]
    BY <1>2, Zenon DEF next_attempt
  <2> QED BY <2>9, <2>12, <2>13, <2>14, Zenon
<1>3. ASSUME NEW j \in queued, row' = [row EXCEPT ![j].state = "CANCELLED"], running' = running
      PROVE  CoordTypes' /\ RowInv' /\ Kept
  <2> DEFINE x == [row[j] EXCEPT !.state = "CANCELLED"]
             g == running[j]
  <2>1. j \in Jobs /\ row[j].state \in Startable
    BY Zenon
  <2>2. x \in Rows /\ x.state = "CANCELLED" /\ x.attempt = row[j].attempt
    BY <2>1, RowTypes, Zenon DEF JobStates, Rows
  <2>3. g \in Grants \cup {None} /\ running' = [running EXCEPT ![j] = g]
    BY <1>3, <2>1, Zenon DEF CoordTypes
  <2>4. row' = [row EXCEPT ![j] = x]
    BY <1>3, Zenon
  <2> HIDE DEF x, g
  <2>5. applied' \subseteq Leases /\ applied \subseteq applied'
    BY <1>0, Zenon DEF CoordTypes
  <2>6. /\ CoordTypes'
        /\ row'[j] = x /\ running'[j] = g
        /\ \A k \in Jobs : k # j => row'[k] = row[k] /\ running'[k] = running[k]
        /\ RowOk(j)' => RowInv'
    BY <1>0, <2>1, <2>2, <2>3, <2>4, <2>5, CoordStep, Zenon
  <2>7. running[j] = None
    BY <2>1, Zenon DEF RowInv, RowOk, Startable
  <2>8. row[j].attempt <= MaxAttempts + restarts
    BY <2>1, Zenon DEF RowInv, RowOk
  <2>9. RowOk(j)'
    BY <1>3, <2>2, <2>6, <2>7, <2>8, Zenon DEF RowOk, Startable
  <2>10. Kept
    BY <1>3, <2>2, <2>6, Zenon DEF Kept
  <2> QED BY <2>6, <2>9, <2>10, Zenon
<1>4. \/ UNCHANGED <<row, running>> /\ a = [kind |-> "jobs", leases |-> {}]
      \/ \E j \in queued :
           /\ a = [kind |-> "jobs", leases |-> {<<j, next_attempt(j)>>}]
           /\ row' = [row EXCEPT ![j].state = "RUNNING", ![j].attempt = next_attempt(j)]
           /\ running' = [running EXCEPT ![j] = [owner |-> r.id, attempt |-> next_attempt(j),
                                                 reason |-> "None"]]
      \/ \E j \in queued : /\ a = [kind |-> "jobs", leases |-> {}]
                           /\ row' = [row EXCEPT ![j].state = "CANCELLED"]
                           /\ running' = running
  BY Zenon DEF claim
<1>5. \A j \in queued : j \in Jobs
  OBVIOUS
<1> HIDE DEF queued
<1> QED BY <1>0, <1>1, <1>2, <1>3, <1>4, <1>5, Zenon

(* The answer of a report. *)
LEMMA FinishedStates ==
  ASSUME NEW j, NEW s \in {"SUCCEEDED", "FAILED", "TIMED_OUT"}
  PROVE  /\ Finished(j, s) \in JobStates
         /\ Finished(j, s) \in Startable => row[j].attempt < MaxAttempts
BY DEF Finished, JobStates, Startable

LEMMA CompleteStep ==
  ASSUME CoordTypes, RowInv, restarts \in Nat, restarts' = restarts,
         NEW r \in Requests, NEW a, complete(r, a)
  PROVE  /\ CoordTypes' /\ RowInv' /\ Kept /\ next_id' = next_id
         /\ ~ HoldsNext(r)
         /\ a \in [kind : {"complete"}, accepted : BOOLEAN]
<1>0. remote_workers' = remote_workers /\ next_id' = next_id /\ r.kind = "complete"
  BY Zenon DEF complete
<1>1. /\ r.job \in Jobs /\ r.attempt \in Nat
      /\ r.status \in {"SUCCEEDED", "FAILED", "TIMED_OUT"}
  BY <1>0, RequestFacts
<1>2. CASE holds_lease(r)
  <2> DEFINE j == r.job
             s == Finished(j, r.status)
             x == [row[j] EXCEPT !.state = s]
  <2>1. /\ running' = [running EXCEPT ![j] = None]
        /\ row' = [row EXCEPT ![j].state = s]
        /\ applied' = applied \cup {<<j, r.attempt>>}
        /\ a = [kind |-> "complete", accepted |-> TRUE]
    BY <1>2, Zenon DEF complete
  <2>2. s \in JobStates /\ (s \in Startable => row[j].attempt < MaxAttempts)
    BY <1>1, FinishedStates, Zenon
  <2>3. running[j] # None /\ running[j].attempt = r.attempt
    BY <1>2, Zenon DEF holds_lease
  <2> HIDE DEF s
  <2>4. j \in Jobs /\ row' = [row EXCEPT ![j] = x]
    BY <1>1, <2>1, Zenon
  <2>5. x \in Rows /\ x.state = s /\ x.attempt = row[j].attempt /\ row[j].attempt \in Nat
    BY <2>2, <2>4, RowTypes, Zenon DEF Rows
  <2> HIDE DEF x
  <2>6. applied' \subseteq Leases /\ applied \subseteq applied'
    <3>1. <<j, r.attempt>> \in Leases /\ applied \subseteq Leases
      BY <1>1, LeaseMade, Zenon DEF CoordTypes
    <3> QED BY <2>1, <3>1, Zenon
  <2> HIDE DEF j
  <2>7. /\ CoordTypes'
        /\ row'[j] = x /\ running'[j] = None
        /\ \A k \in Jobs : k # j => row'[k] = row[k] /\ running'[k] = running[k]
        /\ RowOk(j)' => RowInv'
    BY <1>0, <2>1, <2>4, <2>5, <2>6, CoordStep, Zenon
  <2>8. row[j].attempt <= MaxAttempts + restarts /\ row[j].attempt = r.attempt
    BY <2>3, <2>4, Zenon DEF RowInv, RowOk
  <2>9. s \in Startable => row[j].attempt < MaxAttempts + restarts
    BY <2>2, <2>5, Limits, Zenon
  <2>10. <<j, row[j].attempt>> \in applied'
    BY <2>1, <2>8, Zenon
  <2>11. RowOk(j)'
    BY <2>5, <2>7, <2>8, <2>9, <2>10, Zenon DEF RowOk
  <2>12. Kept
    BY <2>5, <2>7, Zenon DEF Kept
  <2>13. ~ HoldsNext(r)
    BY <2>7, Zenon DEF HoldsNext, j
  <2> QED BY <1>0, <2>1, <2>7, <2>11, <2>12, <2>13, Zenon
<1>3. CASE ~ holds_lease(r)
  <2>1. UNCHANGED <<running, row, applied>> /\ a = [kind |-> "complete", accepted |-> FALSE]
    BY <1>3, Zenon DEF complete
  <2>2. CoordTypes'
    BY <1>0, <2>1, Zenon DEF CoordTypes
  <2>3. ~ HoldsNext(r)
    BY <1>3, <2>1, Zenon DEF holds_lease, HoldsNext
  <2> QED BY <1>0, <2>1, <2>2, <2>3, CoordSame, Zenon
<1> QED BY <1>2, <1>3, Zenon

LEMMA RepliesMade ==
  /\ \A S \in SUBSET Leases : [kind |-> "jobs", leases |-> S] \in Replies
  /\ [kind : {"complete"}, accepted : BOOLEAN] \subseteq Replies
  /\ \A S \in SUBSET Jobs : [kind |-> "heartbeat", cancel |-> S] \in Replies
  /\ \A n \in Nat : [kind |-> "register", id |-> n] \in Replies
<1>1. \A S \in SUBSET Leases : [kind |-> "jobs", leases |-> S]
                                 \in [kind : {"jobs"}, leases : SUBSET Leases]
  BY Zenon
<1>2. \A S \in SUBSET Jobs : [kind |-> "heartbeat", cancel |-> S]
                               \in [kind : {"heartbeat"}, cancel : SUBSET Jobs]
  BY Zenon
<1>3. \A n \in Nat : [kind |-> "register", id |-> n] \in [kind : {"register"}, id : Nat]
  BY Zenon
<1> QED BY <1>1, <1>2, <1>3, Zenon DEF Replies

(* An answer to r that grants nothing, and one that grants a job. *)
Plain(r, a) ==
  /\ Kept
  /\ r.kind = "claim" => a.leases = {}
  /\ r.kind = "complete" => ~ HoldsNext(r)
  /\ r.kind = "register" => a.id = next_id /\ next_id' = next_id + 1
  /\ next_id' = next_id \/ next_id' = next_id + 1

Grant(r, a, j) ==
  /\ Granted(r, j)
  /\ r.kind = "claim" /\ a.leases = {<<j, row[j].attempt + 1>>}
  /\ next_id' = next_id

Matches(r, a) ==
  /\ a \in Replies
  /\ a.kind = IF r.kind = "claim" THEN "jobs" ELSE r.kind
  /\ a.kind = "jobs" => \A l, m \in a.leases : l = m

LEMMA AnswerStep ==
  ASSUME CoordTypes, RowInv, restarts \in Nat, restarts' = restarts,
         NEW r \in Requests, NEW a, Answer(r, a)
  PROVE  /\ CoordTypes' /\ RowInv'
         /\ Matches(r, a)
         /\ Plain(r, a) \/ \E j \in Jobs : Grant(r, a, j)
<1>1. CASE claim(r, a)
  <2>1. r.kind = "claim"
    BY <1>1, Zenon DEF claim
  <2>2. /\ CoordTypes' /\ RowInv' /\ next_id' = next_id
        /\ \/ Kept /\ a = [kind |-> "jobs", leases |-> {}]
           \/ \E j \in Jobs : /\ Granted(r, j)
                              /\ a = [kind |-> "jobs", leases |-> {<<j, row[j].attempt + 1>>}]
    BY <1>1, ClaimStep, Zenon
  <2>3. CASE Kept /\ a = [kind |-> "jobs", leases |-> {}]
    <3>1. a.kind = "jobs" /\ a.leases = {}
      BY <2>3, Zenon
    <3>2. a \in Replies
      BY <2>3, RepliesMade, Zenon
    <3>3. Plain(r, a)
      BY <2>1, <2>2, <2>3, <3>1 DEF Plain
    <3>4. Matches(r, a)
      BY <2>1, <3>1, <3>2, Zenon DEF Matches
    <3> QED BY <2>2, <3>3, <3>4, Zenon
  <2>4. ASSUME NEW j \in Jobs, Granted(r, j),
               a = [kind |-> "jobs", leases |-> {<<j, row[j].attempt + 1>>}]
        PROVE  Matches(r, a) /\ Grant(r, a, j)
    <3>1. a.kind = "jobs" /\ a.leases = {<<j, row[j].attempt + 1>>}
      BY <2>4, Zenon
    <3>2. row[j].attempt + 1 \in Nat
      BY RowTypes, NatFacts, Zenon
    <3>20. <<j, row[j].attempt + 1>> \in Leases
      BY <3>2, LeaseMade, Zenon
    <3>3. a.leases \in SUBSET Leases
      BY <3>1, <3>20, Zenon
    <3>4. a \in Replies
      BY <2>4, <3>1, <3>3, RepliesMade, Zenon
    <3> QED BY <2>1, <2>2, <2>4, <3>1, <3>4, Zenon DEF Matches, Grant
  <2> QED BY <2>2, <2>3, <2>4, Zenon
<1>2. CASE complete(r, a)
  <2>1. r.kind = "complete"
    BY <1>2, Zenon DEF complete
  <2>2. /\ CoordTypes' /\ RowInv' /\ Kept /\ next_id' = next_id
        /\ ~ HoldsNext(r)
        /\ a \in [kind : {"complete"}, accepted : BOOLEAN]
    BY <1>2, CompleteStep, Zenon
  <2>3. a \in Replies /\ a.kind = "complete"
    BY <2>2, RepliesMade, Zenon
  <2>4. Plain(r, a)
    BY <2>1, <2>2, Zenon DEF Plain
  <2>5. Matches(r, a)
    BY <2>1, <2>3, Zenon DEF Matches
  <2> QED BY <2>2, <2>4, <2>5, Zenon
<1>3. CASE heartbeat(r, a)
  <2> DEFINE S == {j \in Jobs : /\ r.id \in remote_workers
                                /\ running[j] # None
                                /\ running[j].owner = r.id
                                /\ running[j].reason # "None"}
  <2>1. /\ r.kind = "heartbeat" /\ a = [kind |-> "heartbeat", cancel |-> S]
        /\ UNCHANGED <<coordinator, applied>>
    BY <1>3, Zenon DEF heartbeat
  <2>2. S \in SUBSET Jobs
    BY Zenon
  <2> HIDE DEF S
  <2>3. a \in Replies /\ a.kind = "heartbeat"
    BY <2>1, <2>2, RepliesMade, Zenon
  <2>4. /\ CoordTypes' /\ UNCHANGED <<row, running, applied>> /\ next_id' = next_id
    BY <2>1, Zenon DEF CoordTypes, coordinator
  <2>5. RowInv' /\ Kept
    BY <2>4, CoordSame, Zenon
  <2>6. Plain(r, a)
    BY <2>1, <2>4, <2>5, Zenon DEF Plain
  <2>7. Matches(r, a)
    BY <2>1, <2>3, Zenon DEF Matches
  <2> QED BY <2>4, <2>5, <2>6, <2>7, Zenon
<1>4. CASE register(r, a)
  <2>1. /\ r.kind = "register" /\ a = [kind |-> "register", id |-> next_id]
        /\ UNCHANGED <<row, running, applied>>
        /\ next_id' = next_id + 1 /\ remote_workers' = remote_workers \cup {next_id}
    BY <1>4, Zenon DEF register
  <2>2. a \in Replies /\ a.kind = "register" /\ a.id = next_id
    BY <2>1, RepliesMade, Zenon DEF CoordTypes
  <2>3. next_id' \in Nat \ {0} /\ remote_workers' \subseteq 1 .. next_id' - 1
    <3>1. next_id \in Nat /\ next_id # 0 /\ remote_workers \subseteq 1 .. next_id - 1
      BY DEF CoordTypes
    <3> QED BY <2>1, <3>1
  <2>4. CoordTypes'
    BY <2>1, <2>3, Zenon DEF CoordTypes
  <2>5. RowInv' /\ Kept
    BY <2>1, CoordSame, Zenon
  <2>6. Plain(r, a)
    BY <2>1, <2>2, <2>5, Zenon DEF Plain
  <2>7. Matches(r, a)
    BY <2>1, <2>2, Zenon DEF Matches
  <2> QED BY <2>4, <2>5, <2>6, <2>7, Zenon
<1> QED BY <1>1, <1>2, <1>3, <1>4, Zenon DEF Answer

LEMMA CancelStep ==
  ASSUME CoordTypes, RowInv, NEW j \in Jobs, cancel(j)
  PROVE  CoordTypes' /\ RowInv' /\ Kept
<1> DEFINE s == IF row[j].state = "RUNNING" THEN row[j].state ELSE "CANCELLED"
           x == [row[j] EXCEPT !.cancel_requested = TRUE, !.state = s]
           g == IF running[j] = None THEN None ELSE [running[j] EXCEPT !.reason = "User"]
<1>0. /\ row' = [row EXCEPT ![j] = x] /\ running' = [running EXCEPT ![j] = g]
      /\ applied' = applied /\ restarts' = restarts
      /\ next_id' = next_id /\ remote_workers' = remote_workers
  BY Zenon DEF cancel, history, bounds
<1>1. row[j] \in Rows /\ (running[j] # None => running[j] \in Grants)
  BY RowTypes, Zenon
<1>2. s \in JobStates /\ s \in {"RUNNING", "CANCELLED"} /\ (row[j].state = "RUNNING" => s = "RUNNING")
  BY Zenon DEF JobStates
<1> HIDE DEF s
<1>3. x \in Rows /\ x.state = s /\ x.attempt = row[j].attempt
  BY <1>1, <1>2, Zenon DEF Rows
<1>4. /\ g \in Grants \cup {None}
      /\ g # None => /\ running[j] # None
                     /\ g.owner = running[j].owner /\ g.attempt = running[j].attempt
  BY <1>1, Zenon DEF Grants
<1> HIDE DEF x, g
<1>5. applied' \subseteq Leases /\ applied \subseteq applied'
  BY <1>0, Zenon DEF CoordTypes
<1>6. /\ CoordTypes'
      /\ row'[j] = x /\ running'[j] = g
      /\ \A k \in Jobs : k # j => row'[k] = row[k] /\ running'[k] = running[k]
      /\ RowOk(j)' => RowInv'
  BY <1>0, <1>3, <1>4, <1>5, CoordStep, Zenon
<1>7. RowOk(j)
  BY Zenon DEF RowInv
<1>8. RowOk(j)'
  BY <1>0, <1>2, <1>3, <1>4, <1>6, <1>7, Zenon DEF RowOk, Startable
<1>9. Kept
  BY <1>3, <1>4, <1>6, Zenon DEF Kept
<1> QED BY <1>6, <1>8, <1>9, Zenon

LEMMA DeadlineStep ==
  ASSUME CoordTypes, RowInv, NEW j \in Jobs, deadline(j)
  PROVE  CoordTypes' /\ RowInv' /\ Kept
<1> DEFINE x == row[j]
           g == [running[j] EXCEPT !.reason = "Timeout"]
<1>0. /\ running[j] # None
      /\ row' = row /\ running' = [running EXCEPT ![j] = g]
      /\ applied' = applied /\ restarts' = restarts
      /\ next_id' = next_id /\ remote_workers' = remote_workers
  BY Zenon DEF deadline, history, bounds
<1>1. x \in Rows /\ running[j] \in Grants
  BY <1>0, RowTypes, Zenon
<1>2. row' = [row EXCEPT ![j] = x]
  BY <1>0, Zenon DEF CoordTypes
<1>3. /\ g \in Grants \cup {None}
      /\ g.owner = running[j].owner /\ g.attempt = running[j].attempt
  BY <1>1, Zenon DEF Grants
<1> HIDE DEF g
<1>5. applied' \subseteq Leases /\ applied \subseteq applied'
  BY <1>0, Zenon DEF CoordTypes
<1>6. /\ CoordTypes'
      /\ row'[j] = x /\ running'[j] = g
      /\ \A k \in Jobs : k # j => row'[k] = row[k] /\ running'[k] = running[k]
      /\ RowOk(j)' => RowInv'
  BY <1>0, <1>1, <1>2, <1>3, <1>5, CoordStep, Zenon
<1>7. RowOk(j)
  BY Zenon DEF RowInv
<1>8. RowOk(j)'
  BY <1>0, <1>3, <1>6, <1>7, Zenon DEF RowOk
<1>9. Kept
  BY <1>0, <1>3, <1>6, Zenon DEF Kept
<1> QED BY <1>6, <1>8, <1>9, Zenon

LEMMA ExpireStep ==
  ASSUME CoordTypes, RowInv, restarts \in Nat, NEW j \in Jobs, expire(j)
  PROVE  CoordTypes' /\ RowInv' /\ Kept
<1> DEFINE s == IF exhausted(j) THEN "FAILED" ELSE "QUEUED"
           x == [row[j] EXCEPT !.state = s]
<1>0. /\ row' = [row EXCEPT ![j] = x] /\ running' = [running EXCEPT ![j] = None]
      /\ applied' = applied /\ restarts' = restarts
      /\ next_id' = next_id /\ remote_workers' = remote_workers
  BY Zenon DEF expire, history, bounds
<1>1. row[j] \in Rows /\ row[j].attempt \in Nat
  BY RowTypes, Zenon
<1>2. s \in JobStates /\ s # "SUCCEEDED"
  BY Zenon DEF JobStates
<1>3. s \in Startable => row[j].attempt < MaxAttempts
  BY <1>1, RemoteAssumption DEF Startable, exhausted
<1> HIDE DEF s
<1>4. x \in Rows /\ x.state = s /\ x.attempt = row[j].attempt
  BY <1>1, <1>2, Zenon DEF Rows
<1> HIDE DEF x
<1>5. applied' \subseteq Leases /\ applied \subseteq applied'
  BY <1>0, Zenon DEF CoordTypes
<1>6. /\ CoordTypes'
      /\ row'[j] = x /\ running'[j] = None
      /\ \A k \in Jobs : k # j => row'[k] = row[k] /\ running'[k] = running[k]
      /\ RowOk(j)' => RowInv'
  BY <1>0, <1>4, <1>5, CoordStep, Zenon
<1>7. row[j].attempt <= MaxAttempts + restarts
  BY Zenon DEF RowInv, RowOk
<1>8. s \in Startable => row[j].attempt < MaxAttempts + restarts
  BY <1>1, <1>3, Limits, Zenon
<1>9. RowOk(j)'
  BY <1>0, <1>2, <1>4, <1>6, <1>7, <1>8, Zenon DEF RowOk
<1>10. Kept
  BY <1>4, <1>6, Zenon DEF Kept
<1> QED BY <1>6, <1>9, <1>10, Zenon

(* A restart allows every job one attempt more. *)
LEMMA RestartRows ==
  ASSUME CoordTypes, RowInv, restarts \in Nat, NEW down, restart(down)
  PROVE  /\ CoordTypes' /\ RowInv' /\ Kept
         /\ \A j \in Jobs : running'[j] = None
<1>0. /\ row' = [j \in Jobs |-> IF row[j].state = "RUNNING"
                                THEN [row[j] EXCEPT !.state = "QUEUED"] ELSE row[j]]
      /\ running' = [j \in Jobs |-> None]
      /\ applied' = applied /\ restarts' = restarts + 1
      /\ next_id' = next_id /\ remote_workers' = {}
  BY Zenon DEF restart, history
<1>1. \A j \in Jobs : running'[j] = None
  BY <1>0, Zenon
<1>2. ASSUME NEW j \in Jobs
      PROVE  /\ row'[j] \in Rows /\ row'[j].attempt = row[j].attempt
             /\ RowOk(j)'
  <2> DEFINE q == [row[j] EXCEPT !.state = "QUEUED"]
  <2>1. row[j] \in Rows /\ row[j].attempt \in Nat
    BY RowTypes, Zenon
  <2>2. q \in Rows /\ q.state = "QUEUED" /\ q.attempt = row[j].attempt
    BY <2>1, Zenon DEF Rows, JobStates
  <2>3. row'[j] = IF row[j].state = "RUNNING" THEN q ELSE row[j]
    BY <1>0, Zenon
  <2> HIDE DEF q
  <2>4. RowOk(j)
    BY Zenon DEF RowInv
  <2>5. row'[j].attempt = row[j].attempt /\ row'[j] \in Rows
    BY <2>1, <2>2, <2>3, Zenon
  <2>6. row[j].attempt <= MaxAttempts + restarts
    BY <2>4, Zenon DEF RowOk
  <2>7. /\ row[j].attempt <= MaxAttempts + (restarts + 1)
        /\ row[j].attempt < MaxAttempts + (restarts + 1)
    BY <2>1, <2>6, Limits, Zenon
  <2>8. row'[j].state = "SUCCEEDED" => row[j].state = "SUCCEEDED"
    BY <2>2, <2>3, Zenon
  <2>9. RowOk(j)'
    BY <1>0, <1>1, <2>4, <2>5, <2>7, <2>8, Zenon DEF RowOk
  <2> QED BY <2>5, <2>9, Zenon
<1>3. RowInv' /\ Kept
  BY <1>1, <1>2, Zenon DEF RowInv, Kept
<1>4. row' \in [Jobs -> Rows]
  BY <1>0, <1>2, Zenon
<1>5. running' \in [Jobs -> Grants \cup {None}]
  BY <1>0, Zenon
<1>6. CoordTypes'
  BY <1>0, <1>4, <1>5, Zenon DEF CoordTypes
<1> QED BY <1>1, <1>3, <1>6, Zenon

-----------------------------------------------------------------------------
(* The threads *)

ProcTypes ==
  /\ worker_id \in Nat \cup {None}
  /\ stopping \in BOOLEAN
  /\ active \in [Jobs -> Pollers \cup {None}]
  /\ th \in [Threads -> ThreadStates]
  /\ late \subseteq Requests
  /\ executed \subseteq Leases
  /\ left \subseteq Nat
  /\ lost \in BOOLEAN
  /\ {starts, faults, restarts, crashes} \subseteq Nat

LEMMA TypesSplit == Types <=> CoordTypes /\ ProcTypes
BY Zenon DEF Types, CoordTypes, ProcTypes, Rows

(* Thread t of a process with id w, back in its loop or gone. *)
Looped(t, x, w) ==
  /\ x \in ThreadStates /\ x.rep = None
  /\ x.pc \in {"off", "wait"}
  /\ x.pc = "wait" => /\ x.req \in Requests /\ x.req.id = w
                      /\ x.req.kind = IF t = Heart THEN "heartbeat" ELSE "claim"

(* A thread goes from x to y without taking a lease; while it runs one it goes on. *)
Quiet(x, y) ==
  /\ HeldOf(y) \subseteq HeldOf(x)
  /\ Reports(y) => \/ Reports(x) /\ y.req = x.req
                   \/ <<y.req.job, y.req.attempt>> \in HeldOf(x)
  /\ Answered(y) => (Answered(x) /\ y.req = x.req) \/ ~ HoldsNext(y.req)

Steady(x, y) == x.pc = "run" => y.pc = "run" /\ y.lease = x.lease

HandOf(x, l) ==
  \/ x.rep # None /\ x.rep.kind = "jobs" /\ l \in x.rep.leases
  \/ x.pc = "run" /\ x.lease = l
  \/ x.pc = "wait" /\ x.req.kind = "complete" /\ <<x.req.job, x.req.attempt>> = l

Carries(x, y) == \A l : HandOf(x, l) => HandOf(y, l)

LEMMA ThreadStep ==
  ASSUME th \in [Threads -> ThreadStates], NEW t \in Threads, NEW x \in ThreadStates,
         th' = [th EXCEPT ![t] = x]
  PROVE  /\ th' \in [Threads -> ThreadStates]
         /\ th'[t] = x
         /\ \A u \in Threads : u # t => th'[u] = th[u]
BY Zenon

LEMMA SameThread ==
  ASSUME NEW x
  PROVE  Quiet(x, x) /\ Steady(x, x) /\ Carries(x, x)
BY Zenon DEF Quiet, Steady, Carries, Answered

(* Two states of a thread that differ in its retries and its flag only. *)
LEMMA AlikeThread ==
  ASSUME NEW x, NEW y, y.pc = x.pc, y.req = x.req, y.rep = x.rep, y.lease = x.lease
  PROVE  /\ Quiet(x, y) /\ Steady(x, y) /\ Carries(x, y)
         /\ Readable(x) => Readable(y)
         /\ \A t, w : LoopShape(t, x, w) => LoopShape(t, y, w)
<1>1. HeldOf(y) = HeldOf(x) /\ (Reports(y) <=> Reports(x)) /\ (Answered(y) <=> Answered(x))
  BY Zenon DEF HeldOf, Reports, Answered
<1>2. Quiet(x, y)
  BY <1>1, Zenon DEF Quiet, Answered
<1>3. Steady(x, y) /\ Carries(x, y)
  BY Zenon DEF Steady, Carries, HandOf
<1>4. Readable(x) => Readable(y)
  BY Zenon DEF Readable
<1>5. \A t, w : LoopShape(t, x, w) => LoopShape(t, y, w)
  BY Zenon DEF LoopShape
<1> QED BY <1>2, <1>3, <1>4, <1>5, Zenon

LEMMA HeldFacts ==
  ASSUME ProcTypes, ProcessShape, NEW t \in Pollers
  PROVE  /\ HeldOf(th[t]) \subseteq Leases
         /\ Reports(th[t]) => /\ th[t].req \in Requests /\ th[t].req.id = worker_id
                              /\ worker_id # None /\ worker_id \in Nat
                              /\ th[t].req.job \in Jobs /\ th[t].req.attempt \in Nat
<1> DEFINE x == th[t]
<1>1. t \in Threads \ {Main} /\ t # Heart
  BY Constants, Zenon
<1>2. x \in ThreadStates /\ LoopShape(t, x, worker_id) /\ worker_id \in Nat \cup {None}
  BY <1>1, Zenon DEF ProcTypes, ProcessShape
<1> HIDE DEF x
<1>3. /\ x.rep \in Replies \cup {None} /\ x.lease \in Leases \cup {None}
      /\ x.req \in Requests \cup {None}
  BY <1>2, ThreadFacts, Zenon
<1>4. x.rep # None /\ x.rep.kind = "jobs" => x.rep.leases \subseteq Leases
  BY <1>3, ReplyFacts, Zenon
<1>5. x.pc = "run" => x.lease \in Leases
  BY <1>2, <1>3, Zenon DEF LoopShape
<1>6. HeldOf(x) \subseteq Leases
  BY <1>4, <1>5, Zenon DEF HeldOf
<1>7. x.pc = "wait" => x.req \in Requests /\ x.req.id = worker_id /\ worker_id # None
  BY <1>2, <1>3, Zenon DEF LoopShape
<1>8. Reports(x) => x.req \in Requests /\ x.req.kind = "complete"
  BY <1>7, Zenon DEF Reports
<1>9. Reports(x) => x.req.job \in Jobs /\ x.req.attempt \in Nat
  BY <1>8, RequestFacts, Zenon
<1>10. Reports(x) => worker_id # None /\ x.req.id = worker_id
  BY <1>7, Zenon DEF Reports
<1> QED BY <1>2, <1>6, <1>8, <1>9, <1>10, Zenon DEF x

(* A thread that is back in its loop holds nothing. *)
LEMMA LoopedFacts ==
  ASSUME NEW t, NEW x, NEW w, Looped(t, x, w)
  PROVE  /\ HeldOf(x) = {} /\ ~ Reports(x) /\ Readable(x)
         /\ \A z : Quiet(z, x)
         /\ w # None \/ x.pc = "off" => LoopShape(t, x, w)
<1>1. /\ x.rep = None /\ x.pc \in {"off", "wait"}
      /\ x.pc = "wait" => /\ x.req \in Requests /\ x.req.id = w
                          /\ x.req.kind = IF t = Heart THEN "heartbeat" ELSE "claim"
  BY Zenon DEF Looped
<1>2. HeldOf(x) = {}
  BY <1>1, Zenon DEF HeldOf
<1>3. ~ Reports(x)
  BY <1>1, Zenon DEF Reports
<1>4. Readable(x)
  BY <1>1, Zenon DEF Readable
<1>5. \A z : Quiet(z, x)
  BY <1>2, <1>3, Zenon DEF Quiet, Answered
<1>6. x.pc = "wait" => x.req # None
  BY <1>1, RequestFacts, Zenon
<1>7. ASSUME w # None \/ x.pc = "off"
      PROVE  LoopShape(t, x, w)
  BY <1>1, <1>6, <1>7, Zenon DEF LoopShape
<1> QED BY <1>2, <1>3, <1>4, <1>5, <1>7, Zenon

LEMMA LoopedMade ==
  ASSUME NEW t, NEW w
  PROVE  /\ Looped(t, Off, w)
         /\ w \in Nat => Looped(t, LoopCall(t, w), w)
         /\ stopping \/ worker_id \in Nat => Looped(t, Again(t), worker_id)
<1>1. Looped(t, Off, w) /\ Looped(t, Off, worker_id)
  BY OffMade, Zenon DEF Looped
<1>2. ASSUME NEW i \in Nat
      PROVE  Looped(t, LoopCall(t, i), i)
  <2> DEFINE k == IF t = Heart THEN "heartbeat" ELSE "claim"
             r == [kind |-> k, id |-> i]
  <2>1. k \in {"claim", "heartbeat"}
    BY Zenon
  <2>2. r \in Requests /\ r.kind = k /\ r.id = i
    BY <2>1, RequestsMade, Zenon
  <2>3. LoopCall(t, i) = Call(r)
    BY Zenon DEF LoopCall
  <2> HIDE DEF r
  <2>4. Call(r) \in ThreadStates /\ Call(r).pc = "wait" /\ Call(r).req = r /\ Call(r).rep = None
    BY <2>2, CallMade, Zenon
  <2> QED BY <2>2, <2>3, <2>4, Zenon DEF Looped
<1>3. stopping \/ worker_id \in Nat => Looped(t, Again(t), worker_id)
  BY <1>1, <1>2, Zenon DEF Again
<1> QED BY <1>1, <1>2, <1>3, Zenon

-----------------------------------------------------------------------------
(* What every kind of step keeps *)

LEMMA HandQuiet ==
  ASSUME ProcTypes, ProcessShape, HandInv, Kept,
         \A u \in Pollers : Quiet(th[u], th'[u]),
         \A l \in executed' : l \in executed \/ \E u \in Pollers : l \in HeldOf(th[u])
  PROVE  HandInv'
<1>1. ASSUME NEW u \in Pollers, NEW l \in HeldOf(th'[u])
      PROVE  l \in HeldOf(th[u]) /\ 1 <= l[2] /\ l[2] <= row'[l[1]].attempt
  <2>1. l \in HeldOf(th[u])
    BY Zenon DEF Quiet
  <2>2. l \in Leases
    BY <2>1, HeldFacts, Zenon
  <2>3. l[1] \in Jobs
    BY <2>2, LeaseFacts, Zenon
  <2>4. 1 <= l[2] /\ l[2] <= row[l[1]].attempt
    BY <2>1, Zenon DEF HandInv
  <2> QED BY <2>1, <2>3, <2>4, Zenon DEF Kept
<1>2. ASSUME NEW s \in Pollers, NEW t \in Pollers, HeldOf(th'[s]) \cap HeldOf(th'[t]) # {}
      PROVE  s = t
  <2>1. HeldOf(th[s]) \cap HeldOf(th[t]) # {}
    BY <1>1, <1>2, Zenon
  <2> QED BY <2>1, Zenon DEF HandInv
<1>3. ASSUME NEW u \in Pollers, Reports(th'[u])
      PROVE  th'[u].req.attempt <= row'[th'[u].req.job].attempt
  <2>1. CASE Reports(th[u]) /\ th'[u].req = th[u].req
    <3>1. th[u].req.job \in Jobs
      BY <2>1, HeldFacts, Zenon
    <3>2. th[u].req.attempt <= row[th[u].req.job].attempt
      BY <2>1, Zenon DEF HandInv
    <3> QED BY <2>1, <3>1, <3>2, Zenon DEF Kept
  <2>2. CASE <<th'[u].req.job, th'[u].req.attempt>> \in HeldOf(th[u])
    <3> DEFINE j == th'[u].req.job
               n == th'[u].req.attempt
    <3>1. <<j, n>> \in Leases
      BY <2>2, HeldFacts, Zenon
    <3> HIDE DEF j, n
    <3>2. j \in Jobs /\ n \in Nat
      BY <3>1 DEF Leases
    <3>3. n <= row[j].attempt
      <4>1. <<j, n>>[2] <= row[<<j, n>>[1]].attempt
        BY <2>2, Zenon DEF HandInv, j, n
      <4>2. <<j, n>>[1] = j /\ <<j, n>>[2] = n
        BY <3>2, LeaseMade, Zenon
      <4> QED BY <4>1, <4>2, Zenon
    <3> QED BY <3>2, <3>3, Zenon DEF Kept, j, n
  <2> QED BY <1>3, <2>1, <2>2, Zenon DEF Quiet
<1>4. ASSUME NEW u \in Pollers, Answered(th'[u])
      PROVE  ~ HoldsNext(th'[u].req)
  <2> SUFFICES ASSUME HoldsNext(th'[u].req)
               PROVE  FALSE
    BY Zenon
  <2>1. Answered(th[u]) /\ th'[u].req = th[u].req
    BY <1>4, Zenon DEF Quiet
  <2> DEFINE r == th[u].req
  <2>2. r.job \in Jobs
    BY <2>1, HeldFacts, Zenon DEF Answered
  <2>3. ~ holds_lease(r)
    BY <2>1, Zenon DEF HandInv
  <2>4. th'[u].req = r
    BY <2>1, Zenon
  <2> HIDE DEF r
  <2>5. ~ HoldsNext(r)
    BY <2>2, <2>3, Zenon DEF Kept, holds_lease, HoldsNext
  <2> QED BY <2>4, <2>5, Zenon
<1>5. ASSUME NEW l \in executed'
      PROVE  1 <= l[2] /\ l[2] <= row'[l[1]].attempt
  <2>1. 1 <= l[2] /\ l[2] <= row[l[1]].attempt
    BY Zenon DEF HandInv
  <2>2. l \in Leases
    BY HeldFacts, Zenon DEF ProcTypes
  <2>3. l[1] \in Jobs
    BY <2>2, LeaseFacts, Zenon
  <2> QED BY <2>1, <2>3, Zenon DEF Kept
<1> QED BY <1>1, <1>2, <1>3, <1>4, <1>5, Zenon DEF HandInv, holds_lease, HoldsNext

LEMMA ActiveSteady ==
  ASSUME ProcTypes, ActiveInv, active' = active, \A u \in Pollers : Steady(th[u], th'[u])
  PROVE  ActiveInv'
<1>1. ASSUME NEW j \in Jobs, active'[j] # None
      PROVE  th'[active'[j]].pc = "run" /\ th'[active'[j]].lease[1] = j
  <2>1. active'[j] = active[j] /\ active[j] \in Pollers
    BY <1>1, Zenon DEF ProcTypes
  <2>2. th[active[j]].pc = "run" /\ th[active[j]].lease[1] = j
    BY <1>1, <2>1, Zenon DEF ActiveInv
  <2> QED BY <2>1, <2>2, Zenon DEF Steady
<1> QED BY <1>1, Zenon DEF ActiveInv

LEMMA IdKept ==
  ASSUME CoordTypes, CoordTypes', ProcTypes, ProcTypes', IdInv, Kept, lost => lost',
         next_id' = next_id \/ next_id' = next_id + 1,
         worker_id' = worker_id, left' = left,
         th'[Main].rep # None => th'[Main].rep = th[Main].rep /\ th[Main].rep.id \in Nat,
         \A r \in late' : r.kind = "claim" => \/ r \in late
                                              \/ th'[Main].rep = None /\ r.id < next_id /\ lost'
  PROVE  IdInv'
<1>0. next_id \in Nat /\ next_id' \in Nat
  BY Zenon DEF CoordTypes
<1>1. \A i \in Nat : i < next_id => i < next_id'
  <2>1. CASE next_id' = next_id
    BY <2>1, Zenon
  <2>2. CASE next_id' = next_id + 1
    BY <1>0, <2>2, NatFacts, Zenon
  <2> QED BY <2>1, <2>2, Zenon
<1>2. ASSUME NEW r \in late', r.kind = "claim"
      PROVE  r.id < next_id' /\ lost'
  <2>1. r.id \in Nat
    BY <1>2, RequestFacts, Zenon DEF ProcTypes
  <2>2. r.id < next_id /\ lost'
    BY <1>2, Zenon DEF IdInv
  <2> QED BY <1>1, <2>1, <2>2, Zenon
<1>3. ASSUME NEW j \in Jobs, running'[j] # None
      PROVE  /\ running'[j].owner < next_id'
             /\ running[j] # None /\ running'[j].owner = running[j].owner
  <2>1. running[j] # None /\ running'[j].owner = running[j].owner
    BY <1>3, Zenon DEF Kept
  <2>2. running[j].owner \in Nat
    BY <2>1, RowTypes, Zenon
  <2>3. running[j].owner < next_id
    BY <2>1, Zenon DEF IdInv
  <2> QED BY <1>1, <2>1, <2>2, <2>3, Zenon
<1>4. \A i \in left' : i < next_id'
  BY <1>1, Zenon DEF IdInv, ProcTypes
<1>5. worker_id' # None => worker_id' < next_id' /\ worker_id' \notin left'
  BY <1>1, Zenon DEF IdInv, ProcTypes
<1>6. ASSUME NEW i, th'[Main].rep # None, i = th'[Main].rep.id
      PROVE  /\ i < next_id' /\ i \notin left'
             /\ \A j \in Jobs : running'[j] # None => running'[j].owner # i
             /\ \A r \in late' : r.kind = "claim" => r.id # i
  <2>1. th[Main].rep.id = i /\ i \in Nat /\ th[Main].rep # None
    BY <1>6, Zenon
  <2>2. FreshId(i)
    BY <2>1, Zenon DEF IdInv
  <2>3. i < next_id' /\ i \notin left'
    BY <1>1, <2>1, <2>2, Zenon DEF FreshId
  <2>4. \A j \in Jobs : running'[j] # None => running'[j].owner # i
    BY <1>3, <2>2, Zenon DEF FreshId
  <2>5. \A r \in late' : r.kind = "claim" => r.id # i
    BY <1>6, <2>2, Zenon DEF FreshId
  <2> QED BY <2>3, <2>4, <2>5, Zenon
<1> QED BY <1>2, <1>3, <1>4, <1>5, <1>6, Zenon DEF IdInv, FreshId

LEMMA HandOfIsInHand == \A t, l : InHand(t, l) <=> HandOf(th[t], l)
BY Zenon DEF InHand, HandOf

LEMMA HandOfIsInHandNext == \A t, l : (InHand(t, l))' <=> HandOf(th'[t], l)
BY Zenon DEF InHand, HandOf

LEMMA HeldKept ==
  ASSUME LeaseIsHeld, Kept, lost => lost', worker_id' = worker_id,
         lost' \/ \A u \in Pollers : Carries(th[u], th'[u])
  PROVE  LeaseIsHeld'
<1>1. ASSUME NEW j \in Jobs, running'[j] # None, running'[j].owner = worker_id', ~ lost'
      PROVE  \E t \in Pollers : HandOf(th'[t], <<j, running'[j].attempt>>)
  <2>1. /\ running[j] # None /\ running[j].owner = worker_id
        /\ running'[j].attempt = running[j].attempt
    BY <1>1, Zenon DEF Kept
  <2>2. \E t \in Pollers : HandOf(th[t], <<j, running[j].attempt>>)
    BY <1>1, <2>1, HandOfIsInHand, Zenon DEF LeaseIsHeld
  <2> QED BY <1>1, <2>1, <2>2, Zenon DEF Carries
<1> QED BY <1>1, HandOfIsInHandNext, Zenon DEF LeaseIsHeld

LEMMA StopKept ==
  ASSUME StopLeavesNoLease, Kept, lost => lost', left' = left
  PROVE  StopLeavesNoLease'
BY Zenon DEF StopLeavesNoLease, Kept

LEMMA MainFacts ==
  ASSUME ProcTypes, ProcessShape
  PROVE  /\ th[Main].rep # None => /\ th[Main].pc = "wait"
                                   /\ th[Main].rep \in Replies /\ th[Main].rep.id \in Nat
         /\ th[Main].pc \in {"off", "wait"} => /\ worker_id = None
                                               /\ \A u \in Threads \ {Main} : th[u].pc = "off"
         /\ th[Main].pc \in {"off", "up", "join"} => th[Main].rep = None
         /\ \A u \in Threads : th[u].pc # "wait" => th[u].rep = None
<1>1. \A u \in Threads : th[u].rep # None => th[u].pc = "wait"
  BY Zenon DEF ProcessShape, Readable
<1>2. th[Main].pc \in {"off", "wait"} => /\ worker_id = None
                                         /\ \A u \in Threads \ {Main} : th[u].pc = "off"
  BY Zenon DEF ProcessShape, LoopShape
<1>3. ASSUME th[Main].rep # None
      PROVE  th[Main].rep \in Replies /\ th[Main].rep.id \in Nat
  <2>1. th[Main].pc = "wait" /\ th[Main].rep \in Replies
    BY <1>1, <1>3, Constants, ThreadFacts, Zenon DEF ProcTypes
  <2>2. th[Main].req = [kind |-> "register"]
    BY <2>1, Zenon DEF ProcessShape
  <2>3. th[Main].req.kind = "register"
    BY <2>2
  <2>4. Readable(th[Main])
    BY Constants, Zenon DEF ProcessShape
  <2>5. th[Main].rep.kind = "register"
    BY <1>3, <2>3, <2>4, Zenon DEF Readable
  <2> QED BY <2>1, <2>5, ReplyFacts, Zenon
<1>4. Main \in Threads
  BY Constants, Zenon
<1> QED BY <1>1, <1>2, <1>3, <1>4, Zenon

LEMMA InvParts ==
  ASSUME RemoteInv
  PROVE  /\ CoordTypes /\ ProcTypes /\ ProcessShape /\ RowInv /\ HandInv /\ ActiveInv /\ IdInv
         /\ LeaseIsHeld /\ StopLeavesNoLease /\ restarts \in Nat
BY TypesSplit, Zenon DEF RemoteInv, TypeOK, ProcTypes

LEMMA TypesSplitNext == (Types <=> CoordTypes /\ ProcTypes)'
<1>1. Types <=> CoordTypes /\ ProcTypes
  BY TypesSplit
<1> QED BY <1>1, PTL

LEMMA InvMade ==
  ASSUME CoordTypes', ProcTypes', ProcessShape', RowInv', HandInv', ActiveInv', IdInv',
         LeaseIsHeld', StopLeavesNoLease'
  PROVE  RemoteInv'
BY TypesSplitNext, Zenon DEF RemoteInv, TypeOK

(* A step of the process under its id that takes no lease. *)
LEMMA QuietStep ==
  ASSUME RemoteInv, CoordTypes', ProcTypes', ProcessShape', RowInv', Kept,
         \A u \in Pollers : Quiet(th[u], th'[u]),
         \A l \in executed' : l \in executed \/ \E u \in Pollers : l \in HeldOf(th[u]),
         ActiveInv', LeaseIsHeld', lost => lost',
         next_id' = next_id \/ next_id' = next_id + 1,
         worker_id' = worker_id, left' = left,
         th'[Main].rep # None => th'[Main].rep = th[Main].rep,
         \A r \in late' : r.kind = "claim" => \/ r \in late
                                              \/ th'[Main].rep = None /\ r.id < next_id /\ lost'
  PROVE  RemoteInv'
<1>1. /\ CoordTypes /\ ProcTypes /\ ProcessShape /\ HandInv /\ IdInv /\ StopLeavesNoLease
  BY InvParts, Zenon
<1>2. HandInv'
  BY <1>1, HandQuiet, Zenon
<1>3. th'[Main].rep # None => th'[Main].rep = th[Main].rep /\ th[Main].rep.id \in Nat
  BY <1>1, MainFacts, Zenon
<1>4. IdInv'
  BY <1>1, <1>3, IdKept, Zenon
<1>5. StopLeavesNoLease'
  BY <1>1, StopKept, Zenon
<1> QED BY <1>2, <1>4, <1>5, InvMade, Zenon

(* A step of the coordinator alone that grants nothing. *)
LEMMA CoordOnly ==
  ASSUME RemoteInv, CoordTypes', RowInv', Kept,
         next_id' = next_id \/ next_id' = next_id + 1,
         late' \subseteq late,
         UNCHANGED <<process, th, executed, left, lost, bounds>>
  PROVE  RemoteInv'
<1>1. /\ worker_id' = worker_id /\ stopping' = stopping /\ active' = active /\ th' = th
      /\ executed' = executed /\ left' = left /\ lost' = lost
      /\ starts' = starts /\ faults' = faults /\ restarts' = restarts /\ crashes' = crashes
  BY Zenon DEF process, bounds
<1>2. ProcTypes /\ ProcessShape /\ ActiveInv /\ LeaseIsHeld
  BY InvParts, Zenon
<1>20. lost => lost'
  BY <1>1
<1>3. ProcTypes'
  BY <1>1, <1>2, Zenon DEF ProcTypes
<1>4. ProcessShape' /\ ActiveInv'
  BY <1>1, <1>2, Zenon DEF ProcessShape, ActiveInv
<1>5. /\ \A u \in Pollers : Quiet(th[u], th'[u])
      /\ \A u \in Pollers : Carries(th[u], th'[u])
  BY <1>1, SameThread, Zenon
<1>6. LeaseIsHeld'
  BY <1>1, <1>2, <1>20, <1>5, HeldKept, Zenon
<1>7. \A l \in executed' : l \in executed \/ \E u \in Pollers : l \in HeldOf(th[u])
  BY <1>1, Zenon
<1> QED BY <1>1, <1>20, <1>3, <1>4, <1>5, <1>6, <1>7, QuietStep, Zenon

LEMMA CancelInv ==
  ASSUME RemoteInv, NEW j \in Jobs, cancel(j) \/ deadline(j) \/ expire(j)
  PROVE  RemoteInv'
<1>1. CoordTypes /\ RowInv /\ restarts \in Nat
  BY InvParts, Zenon
<1>2. CoordTypes' /\ RowInv' /\ Kept
  BY <1>1, CancelStep, DeadlineStep, ExpireStep, Zenon
<1>3. next_id' = next_id /\ late' = late /\ UNCHANGED <<process, th, executed, left, lost, bounds>>
  BY Zenon DEF cancel, deadline, expire, history
<1> QED BY <1>2, <1>3, CoordOnly, Zenon

-----------------------------------------------------------------------------
(* HttpClient::request *)

LEMMA WaitFacts ==
  ASSUME ProcTypes, ProcessShape, NEW t \in Threads, th[t].pc = "wait"
  PROVE  /\ th[t] \in ThreadStates /\ Readable(th[t])
         /\ th[t].req \in Requests
         /\ t = Main => th[t].req.kind = "register" /\ worker_id = None
         /\ t # Main => /\ LoopShape(t, th[t], worker_id)
                        /\ worker_id # None /\ worker_id \in Nat /\ th[t].req.id = worker_id
                        /\ th[Main].pc \in {"up", "join"} /\ th[Main].rep = None
         /\ t = Heart => th[t].req.kind = "heartbeat"
         /\ t \in Pollers => th[t].req.kind \in {"claim", "complete"}
         /\ th[t].rep # None => th[t].rep \in Replies
<1> DEFINE x == th[t]
<1>1. x \in ThreadStates /\ Readable(x)
  BY Zenon DEF ProcTypes, ProcessShape
<1>2. x.req \in Requests \cup {None} /\ x.rep \in Replies \cup {None}
  BY <1>1, ThreadFacts, Zenon
<1>3. CASE t = Main
  <2>1. x.req = [kind |-> "register"] /\ worker_id = None
    BY <1>3, Zenon DEF ProcessShape
  <2>2. x.req.kind = "register"
    BY <2>1
  <2>3. x.req \in Requests
    BY <2>1, RequestsMade, NatFacts, Zenon
  <2> QED BY <1>1, <1>2, <1>3, <2>1, <2>2, <2>3, Constants, Zenon
<1>4. CASE t # Main
  <2>1. LoopShape(t, x, worker_id) /\ worker_id \in Nat \cup {None}
    BY <1>4, Zenon DEF ProcessShape, ProcTypes
  <2>2. worker_id # None /\ worker_id \in Nat /\ x.req # None /\ x.req.id = worker_id
    BY <2>1, Zenon DEF LoopShape
  <2>3. x.req.kind \in IF t = Heart THEN {"heartbeat"} ELSE {"claim", "complete"}
    BY <2>1, Zenon DEF LoopShape
  <2>4. th[Main].pc \in {"up", "join"}
    BY <2>2, Zenon DEF ProcessShape
  <2>5. th[Main].rep = None
    BY <2>4, MainFacts, Zenon
  <2>6. t = Heart => x.req.kind = "heartbeat"
    BY <2>3, Zenon
  <2>7. t \in Pollers => x.req.kind \in {"claim", "complete"}
    BY <2>3, Constants, Zenon
  <2> QED BY <1>1, <1>2, <1>4, <2>1, <2>2, <2>4, <2>5, <2>6, <2>7, Zenon
<1> QED BY <1>3, <1>4, Zenon

LEMMA FailedMade ==
  ASSUME ProcTypes, ProcessShape, NEW t \in Threads, th[t].pc = "wait"
  PROVE  /\ Looped(t, Failed(t), worker_id)
         /\ t = Main => Failed(t) = Off
<1>1. t # Main => worker_id \in Nat
  BY WaitFacts, Zenon
<1> QED BY <1>1, LoopedMade, Zenon DEF Failed

(* A request that is sent again keeps a report in hand, and loses the answer it had. *)
LEMMA ResentFacts ==
  ASSUME NEW x, NEW y, x.pc = "wait", y.pc = x.pc, y.req = x.req, y.rep = None,
         y.lease = x.lease
  PROVE  /\ Quiet(x, y) /\ Steady(x, y) /\ Readable(y)
         /\ \A t, w : LoopShape(t, x, w) => LoopShape(t, y, w)
<1>1. HeldOf(y) = {} /\ (Reports(y) <=> Reports(x)) /\ ~ Answered(y)
  BY Zenon DEF HeldOf, Reports, Answered
<1>2. Quiet(x, y)
  BY <1>1, Zenon DEF Quiet
<1>3. Steady(x, y) /\ Readable(y)
  BY Zenon DEF Steady, Readable
<1>4. \A t, w : LoopShape(t, x, w) => LoopShape(t, y, w)
  BY Zenon DEF LoopShape
<1> QED BY <1>2, <1>3, <1>4, Zenon

LEMMA NothingInAnswer ==
  ASSUME NEW x, NEW l, x.pc = "wait", Readable(x), x.req.kind \in {"claim", "complete"},
         ~ (x.req.kind = "claim" /\ (x.rep = None \/ x.rep.leases # {})),
         HandOf(x, l)
  PROVE  x.req.kind = "complete" /\ <<x.req.job, x.req.attempt>> = l
<1>1. CASE x.req.kind = "claim"
  <2>1. x.rep # None /\ x.rep.leases = {}
    BY <1>1, Zenon
  <2> QED BY <1>1, <2>1, Zenon DEF HandOf
<1>2. CASE x.req.kind = "complete"
  <2>1. x.rep # None => x.rep.kind = "complete"
    BY <1>2, Zenon DEF Readable
  <2> QED BY <1>2, <2>1, Zenon DEF HandOf
<1> QED BY <1>1, <1>2, Zenon

(* What becomes of a request the client gives up. *)
LEMMA AbandonFacts ==
  ASSUME RemoteInv, NEW t \in Threads, th[t].pc = "wait", Abandon(t), NEW final,
         lost' = (lost \/ Loses(t, final)), final \in BOOLEAN,
         th'[Main].rep # None => th'[Main].rep = th[Main].rep,
         \A u \in Threads : u # t => th'[u] = th[u]
  PROVE  /\ lost => lost'
         /\ lost' \in BOOLEAN
         /\ late' \subseteq Requests /\ faults' \in Nat
         /\ ~ lost' => ~ Loses(t, final)
         /\ \A r \in late' : r.kind = "claim" => \/ r \in late
                                                 \/ th'[Main].rep = None /\ r.id < next_id /\ lost'
<1>1. /\ ProcTypes /\ ProcessShape /\ IdInv
  BY InvParts, Zenon
<1>2. lost => lost'
  BY Zenon
<1>3. ~ lost' => ~ Loses(t, final)
  BY Zenon
<1>4. Loses(t, final) => lost'
  BY Zenon
<1>5. th[t].req \in Requests
  BY <1>1, WaitFacts, Zenon
<1>6. late' = late \/ (th[t].rep = None /\ late' = late \cup {th[t].req})
  BY Zenon DEF Abandon
<1>7. late' \subseteq Requests
  BY <1>1, <1>5, <1>6, Zenon DEF ProcTypes
<1>8. faults' \in Nat
  <2>1. faults \in Nat
    BY <1>1, Zenon DEF ProcTypes
  <2>2. faults' = faults \/ faults' = faults + 1
    BY Zenon DEF Abandon
  <2> QED BY <2>1, <2>2
<1>9. ASSUME NEW r \in late', r.kind = "claim", r \notin late
      PROVE  th'[Main].rep = None /\ r.id < next_id /\ lost'
  <2>1. r = th[t].req /\ th[t].rep = None
    BY <1>6, <1>9, Zenon
  <2>2. lost'
    BY <1>4, <1>9, <2>1, Zenon DEF Loses
  <2>3. t # Main
    BY <1>1, <1>9, <2>1, WaitFacts, Zenon
  <2>4. worker_id # None /\ r.id = worker_id /\ th[Main].rep = None
    BY <1>1, <2>1, <2>3, WaitFacts, Zenon
  <2>5. r.id < next_id
    BY <1>1, <2>4, Zenon DEF IdInv
  <2>6. th'[Main] = th[Main]
    BY <2>3, Constants, Zenon
  <2> QED BY <2>2, <2>4, <2>5, <2>6, Zenon
<1>10. lost' \in BOOLEAN
  BY <1>1, Zenon DEF ProcTypes
<1> QED BY <1>2, <1>3, <1>7, <1>8, <1>9, <1>10, Zenon

LEMMA ProcStep ==
  ASSUME ProcTypes, th' \in [Threads -> ThreadStates], late' \subseteq Requests,
         executed' \subseteq Leases, lost' \in BOOLEAN, faults' \in Nat, restarts' \in Nat,
         worker_id' = worker_id, stopping' = stopping,
         active' \in [Jobs -> Pollers \cup {None}],
         left' = left, starts' = starts, crashes' = crashes
  PROVE  ProcTypes'
<1>1. {starts', faults', restarts', crashes'} \subseteq Nat
  BY Zenon DEF ProcTypes
<1> QED BY <1>1, Zenon DEF ProcTypes

LEMMA ResendInv ==
  ASSUME RemoteInv, NEW t \in Threads, http_resend(t)
  PROVE  RemoteInv'
<1> DEFINE x == th[t]
           y == [x EXCEPT !.try = 1, !.rep = None]
<1>0. /\ x.pc = "wait" /\ Abandon(t)
      /\ th' = [th EXCEPT ![t] = y]
      /\ row' = row /\ running' = running /\ remote_workers' = remote_workers
      /\ next_id' = next_id
      /\ worker_id' = worker_id /\ stopping' = stopping /\ active' = active
      /\ executed' = executed /\ applied' = applied /\ left' = left
      /\ starts' = starts /\ restarts' = restarts /\ crashes' = crashes
  BY Zenon DEF http_resend, coordinator, process
<1>01. lost' = (lost \/ Loses(t, FALSE))
  BY Zenon DEF http_resend
<1>1. CoordTypes /\ ProcTypes /\ ProcessShape /\ RowInv /\ ActiveInv /\ LeaseIsHeld
  BY InvParts, Zenon
<1>2. x \in ThreadStates /\ Readable(x) /\ (t # Main => LoopShape(t, x, worker_id))
  BY <1>0, <1>1, WaitFacts, Zenon
<1>3. y \in ThreadStates /\ y.pc = x.pc /\ y.req = x.req /\ y.rep = None /\ y.lease = x.lease
  BY <1>2, Resent, Zenon
<1> HIDE DEF y
<1>4. /\ th' \in [Threads -> ThreadStates] /\ th'[t] = y
      /\ \A u \in Threads : u # t => th'[u] = th[u]
  BY <1>0, <1>1, <1>3, ThreadStep, Zenon DEF ProcTypes
<1> USE DEF x
<1>5. /\ Quiet(x, y) /\ Steady(x, y) /\ Readable(y)
      /\ \A s, w : LoopShape(s, x, w) => LoopShape(s, y, w)
  BY <1>0, <1>3, ResentFacts, Zenon
<1>6. th'[Main].rep # None => th'[Main].rep = th[Main].rep
  BY <1>3, <1>4, Constants, Zenon
<1>7. /\ (lost => lost') /\ lost' \in BOOLEAN /\ late' \subseteq Requests /\ faults' \in Nat
      /\ ~ lost' => ~ Loses(t, FALSE)
      /\ \A r \in late' : r.kind = "claim" => \/ r \in late
                                              \/ th'[Main].rep = None /\ r.id < next_id /\ lost'
  BY <1>0, <1>01, <1>4, <1>6, AbandonFacts, Zenon
<1>8. CoordTypes' /\ RowInv' /\ Kept
  BY <1>0, <1>1, CoordSame, Zenon DEF CoordTypes
<1>9. ProcTypes'
  <2>1. executed \subseteq Leases /\ active \in [Jobs -> Pollers \cup {None}] /\ restarts \in Nat
    BY <1>1, Zenon DEF ProcTypes
  <2>2. /\ executed' \subseteq Leases /\ restarts' \in Nat
        /\ active' \in [Jobs -> Pollers \cup {None}]
    BY <1>0, <2>1, Zenon
  <2> QED BY <1>0, <1>1, <1>4, <1>7, <2>2, ProcStep, Zenon
<1>10. ProcessShape'
  <2>1. \A u \in Threads : Readable(th'[u])
    BY <1>1, <1>4, <1>5, Zenon DEF ProcessShape
  <2>2. \A u \in Threads \ {Main} : LoopShape(u, th'[u], worker_id)
    BY <1>1, <1>4, <1>5, <1>2, Zenon DEF ProcessShape
  <2>3. th'[Main].pc = th[Main].pc /\ th'[Main].req = th[Main].req
    BY <1>3, <1>4, Constants, Zenon
  <2> QED BY <1>0, <1>1, <2>1, <2>2, <2>3, Zenon DEF ProcessShape
<1>11. \A u \in Pollers : Quiet(th[u], th'[u]) /\ Steady(th[u], th'[u])
  BY <1>4, <1>5, SameThread, Constants, Zenon
<1>12. ActiveInv'
  BY <1>0, <1>1, <1>11, ActiveSteady, Zenon
<1>13. ASSUME ~ lost', NEW u \in Pollers
       PROVE  Carries(th[u], th'[u])
  <2>1. CASE u # t
    BY <1>4, <2>1, SameThread, Constants, Zenon
  <2>2. CASE u = t
    <3>1. ~ (x.req.kind = "claim" /\ (x.rep = None \/ x.rep.leases # {}))
      BY <1>7, <1>13, Zenon DEF Loses
    <3>2. x.req.kind \in {"claim", "complete"}
      BY <1>0, <1>1, <2>2, WaitFacts, Zenon
    <3>3. ASSUME NEW l, HandOf(x, l)
          PROVE  HandOf(y, l)
      <4>1. x.req.kind = "complete" /\ <<x.req.job, x.req.attempt>> = l
        BY <1>0, <1>2, <3>1, <3>2, <3>3, NothingInAnswer, Zenon
      <4> QED BY <1>0, <1>3, <4>1, Zenon DEF HandOf
    <3> QED BY <1>4, <2>2, <3>3, Zenon DEF Carries
  <2> QED BY <2>1, <2>2, Zenon
<1>14. LeaseIsHeld'
  BY <1>0, <1>1, <1>7, <1>8, <1>13, HeldKept, Zenon
<1>15. \A l \in executed' : l \in executed \/ \E u \in Pollers : l \in HeldOf(th[u])
  BY <1>0, Zenon
<1> QED BY <1>0, <1>6, <1>7, <1>8, <1>9, <1>10, <1>11, <1>12, <1>14, <1>15, QuietStep, Zenon

LEMMA ErrorInv ==
  ASSUME RemoteInv, NEW t \in Threads, http_error(t)
  PROVE  RemoteInv'
<1> DEFINE x == th[t]
           y == Failed(t)
<1>0. /\ x.pc = "wait" /\ Abandon(t)
      /\ th' = [th EXCEPT ![t] = y]
      /\ row' = row /\ running' = running /\ remote_workers' = remote_workers
      /\ next_id' = next_id
      /\ worker_id' = worker_id /\ stopping' = stopping /\ active' = active
      /\ executed' = executed /\ applied' = applied /\ left' = left
      /\ starts' = starts /\ restarts' = restarts /\ crashes' = crashes
  BY Zenon DEF http_error, coordinator, process
<1>01. lost' = (lost \/ Loses(t, TRUE))
  BY Zenon DEF http_error
<1>1. CoordTypes /\ ProcTypes /\ ProcessShape /\ RowInv /\ ActiveInv /\ LeaseIsHeld
  BY InvParts, Zenon
<1>2. x \in ThreadStates /\ Readable(x) /\ (t # Main => worker_id # None)
  BY <1>0, <1>1, WaitFacts, Zenon
<1>3. Looped(t, y, worker_id) /\ (t = Main => y = Off)
  BY <1>0, <1>1, FailedMade, Zenon
<1> HIDE DEF y
<1>30. y \in ThreadStates /\ y.rep = None
  BY <1>3, Zenon DEF Looped
<1>4. /\ th' \in [Threads -> ThreadStates] /\ th'[t] = y
      /\ \A u \in Threads : u # t => th'[u] = th[u]
  BY <1>0, <1>1, <1>30, ThreadStep, Zenon DEF ProcTypes
<1>5. /\ Readable(y) /\ Quiet(x, y)
      /\ t # Main => LoopShape(t, y, worker_id)
  BY <1>2, <1>3, LoopedFacts, Zenon
<1>50. Steady(x, y)
  BY <1>0, Zenon DEF Steady
<1>6. th'[Main].rep # None => th'[Main].rep = th[Main].rep
  BY <1>30, <1>4, Constants, Zenon
<1>7. /\ (lost => lost') /\ lost' \in BOOLEAN /\ late' \subseteq Requests /\ faults' \in Nat
      /\ ~ lost' => ~ Loses(t, TRUE)
      /\ \A r \in late' : r.kind = "claim" => \/ r \in late
                                              \/ th'[Main].rep = None /\ r.id < next_id /\ lost'
  BY <1>0, <1>01, <1>4, <1>6, AbandonFacts, Zenon
<1>8. CoordTypes' /\ RowInv' /\ Kept
  BY <1>0, <1>1, CoordSame, Zenon DEF CoordTypes
<1>9. ProcTypes'
  <2>1. executed \subseteq Leases /\ active \in [Jobs -> Pollers \cup {None}] /\ restarts \in Nat
    BY <1>1, Zenon DEF ProcTypes
  <2>2. /\ executed' \subseteq Leases /\ restarts' \in Nat
        /\ active' \in [Jobs -> Pollers \cup {None}]
    BY <1>0, <2>1, Zenon
  <2> QED BY <1>0, <1>1, <1>4, <1>7, <2>2, ProcStep, Zenon
<1>10. ProcessShape'
  <2>1. \A u \in Threads : Readable(th'[u])
    BY <1>1, <1>4, <1>5, Zenon DEF ProcessShape
  <2>2. \A u \in Threads \ {Main} : LoopShape(u, th'[u], worker_id)
    BY <1>1, <1>4, <1>5, Zenon DEF ProcessShape
  <2>3. CASE t = Main
    <3>1. th'[Main].pc = "off" /\ worker_id = None
      BY <1>0, <1>1, <1>3, <1>4, <2>3, OffMade, WaitFacts, Zenon
    <3> QED BY <1>0, <2>1, <2>2, <3>1, Zenon DEF ProcessShape
  <2>4. CASE t # Main
    <3>1. th'[Main] = th[Main]
      BY <1>4, <2>4, Constants, Zenon
    <3> QED BY <1>0, <1>1, <2>1, <2>2, <3>1, Zenon DEF ProcessShape
  <2> QED BY <2>3, <2>4, Zenon
<1>11. \A u \in Pollers : Quiet(th[u], th'[u]) /\ Steady(th[u], th'[u])
  BY <1>4, <1>5, <1>50, SameThread, Constants, Zenon
<1>12. ActiveInv'
  BY <1>0, <1>1, <1>11, ActiveSteady, Zenon
<1>13. ASSUME ~ lost', NEW u \in Pollers
       PROVE  Carries(th[u], th'[u])
  <2>1. CASE u # t
    BY <1>4, <2>1, SameThread, Constants, Zenon
  <2>2. CASE u = t
    <3>1. /\ ~ (x.req.kind = "claim" /\ (x.rep = None \/ x.rep.leases # {}))
          /\ x.req.kind # "complete"
      BY <1>7, <1>13, Zenon DEF Loses
    <3>2. x.req.kind \in {"claim", "complete"}
      BY <1>0, <1>1, <2>2, WaitFacts, Zenon
    <3>3. ASSUME NEW l, HandOf(x, l)
          PROVE  FALSE
      BY <1>0, <1>2, <3>1, <3>2, <3>3, NothingInAnswer, Zenon
    <3> QED BY <1>4, <2>2, <3>3, Zenon DEF Carries
  <2> QED BY <2>1, <2>2, Zenon
<1>14. LeaseIsHeld'
  BY <1>0, <1>1, <1>7, <1>8, <1>13, HeldKept, Zenon
<1>15. \A l \in executed' : l \in executed \/ \E u \in Pollers : l \in HeldOf(th[u])
  BY <1>0, Zenon
<1> QED BY <1>0, <1>6, <1>7, <1>8, <1>9, <1>10, <1>11, <1>12, <1>14, <1>15, QuietStep, Zenon

LEMMA RestartInv ==
  ASSUME RemoteInv, NEW down, restart(down)
  PROVE  RemoteInv'
<1>0. /\ th' = [t \in Threads |->
                  IF th[t].pc # "wait" \/ th[t].rep # None THEN th[t]
                  ELSE IF th[t].try = 1 \/ t \in down THEN Failed(t)
                  ELSE [th[t] EXCEPT !.try = 1]]
      /\ restarts' = restarts + 1 /\ late' = {} /\ next_id' = next_id
      /\ worker_id' = worker_id /\ stopping' = stopping /\ active' = active
      /\ executed' = executed /\ left' = left
      /\ starts' = starts /\ faults' = faults /\ crashes' = crashes
  BY Zenon DEF restart, process, history
<1>01. lost' = lost
  BY Zenon DEF restart, history
<1>1. /\ CoordTypes /\ ProcTypes /\ ProcessShape /\ RowInv /\ ActiveInv /\ LeaseIsHeld
      /\ restarts \in Nat
  BY InvParts, Zenon
<1>2. CoordTypes' /\ RowInv' /\ Kept /\ \A j \in Jobs : running'[j] = None
  BY <1>1, RestartRows, Zenon
<1>3. ASSUME NEW t \in Threads
      PROVE  /\ th'[t] \in ThreadStates
             /\ Quiet(th[t], th'[t]) /\ Steady(th[t], th'[t])
             /\ Readable(th'[t])
             /\ t # Main => LoopShape(t, th'[t], worker_id)
             /\ t = Main => \/ th'[t].pc = th[t].pc /\ th'[t].req = th[t].req
                            \/ th'[t].pc = "off" /\ worker_id = None
             /\ th'[t].rep # None => th'[t].rep = th[t].rep
  <2> DEFINE x == th[t]
  <2>1. x \in ThreadStates /\ Readable(x) /\ (t # Main => LoopShape(t, x, worker_id))
    BY <1>1, Zenon DEF ProcTypes, ProcessShape
  <2>2. CASE x.pc # "wait" \/ x.rep # None
    <3>1. th'[t] = x
      BY <1>0, <2>2, Zenon
    <3> QED BY <2>1, <3>1, SameThread, Zenon
  <2>3. CASE x.pc = "wait" /\ x.rep = None /\ (x.try = 1 \/ t \in down)
    <3>1. th'[t] = Failed(t)
      BY <1>0, <2>3, Zenon
    <3>2. Looped(t, Failed(t), worker_id) /\ (t = Main => Failed(t) = Off)
      BY <1>1, <2>3, FailedMade, Zenon
    <3>3. t # Main => worker_id # None
      BY <1>1, <2>3, WaitFacts, Zenon
    <3>4. t = Main => worker_id = None
      BY <1>1, <2>3, WaitFacts, Zenon
    <3>5. /\ Readable(Failed(t)) /\ Quiet(x, Failed(t))
          /\ t # Main => LoopShape(t, Failed(t), worker_id)
      BY <3>2, <3>3, LoopedFacts, Zenon
    <3>6. Steady(x, Failed(t)) /\ Failed(t) \in ThreadStates /\ Failed(t).rep = None
      BY <2>3, <3>2, Zenon DEF Steady, Looped
    <3>7. t = Main => Failed(t).pc = "off"
      BY <3>2, OffMade, Zenon
    <3> QED BY <3>1, <3>4, <3>5, <3>6, <3>7, Zenon
  <2>4. CASE x.pc = "wait" /\ x.rep = None /\ ~ (x.try = 1 \/ t \in down)
    <3> DEFINE y == [x EXCEPT !.try = 1]
    <3>1. th'[t] = y
      BY <1>0, <2>4, Zenon
    <3>2. y \in ThreadStates /\ y.pc = x.pc /\ y.req = x.req /\ y.rep = x.rep /\ y.lease = x.lease
      BY <2>1, TrySet, Zenon
    <3> HIDE DEF y
    <3>3. /\ Quiet(x, y) /\ Steady(x, y) /\ Readable(y)
          /\ t # Main => LoopShape(t, y, worker_id)
      BY <2>1, <3>2, AlikeThread, Zenon
    <3> QED BY <3>1, <3>2, <3>3, Zenon
  <2> QED BY <2>2, <2>3, <2>4, Zenon
<1>4. th' \in [Threads -> ThreadStates]
  BY <1>0, <1>3, Zenon
<1>5. ProcTypes'
  <2>1. /\ executed \subseteq Leases /\ active \in [Jobs -> Pollers \cup {None}]
        /\ lost \in BOOLEAN /\ faults \in Nat
    BY <1>1, Zenon DEF ProcTypes
  <2>2. /\ executed' \subseteq Leases /\ active' \in [Jobs -> Pollers \cup {None}]
        /\ lost' \in BOOLEAN /\ faults' \in Nat /\ restarts' \in Nat /\ late' \subseteq Requests
    BY <1>0, <1>01, <1>1, <2>1, NatFacts, Zenon
  <2> QED BY <1>0, <1>1, <1>4, <2>2, ProcStep, Zenon
<1>6. ProcessShape'
  <2>1. \/ th'[Main].pc = th[Main].pc /\ th'[Main].req = th[Main].req
        \/ th'[Main].pc = "off" /\ worker_id = None
    BY <1>3, Constants, Zenon
  <2>2. /\ th'[Main].pc \in {"off", "wait", "up", "join"}
        /\ th'[Main].pc = "wait" => th'[Main].req = [kind |-> "register"]
        /\ worker_id # None <=> th'[Main].pc \in {"up", "join"}
    BY <1>1, <2>1, Zenon DEF ProcessShape
  <2> QED BY <1>0, <1>3, <2>2, Zenon DEF ProcessShape
<1>7. \A u \in Pollers : Quiet(th[u], th'[u]) /\ Steady(th[u], th'[u])
  BY <1>3, Constants, Zenon
<1>8. ActiveInv'
  BY <1>0, <1>1, <1>7, ActiveSteady, Zenon
<1>9. LeaseIsHeld'
  BY <1>2, Zenon DEF LeaseIsHeld
<1>10. \A l \in executed' : l \in executed \/ \E u \in Pollers : l \in HeldOf(th[u])
  BY <1>0, Zenon
<1>11. th'[Main].rep # None => th'[Main].rep = th[Main].rep
  BY <1>3, Constants, Zenon
<1>12. \A r \in late' : r.kind = "claim" => \/ r \in late
                                            \/ th'[Main].rep = None /\ r.id < next_id /\ lost'
  BY <1>0, Zenon
<1>13. lost => lost'
  BY <1>01
<1> QED BY <1>0, <1>2, <1>5, <1>6, <1>7, <1>8, <1>9, <1>10, <1>11, <1>12, <1>13, QuietStep, Zenon

-----------------------------------------------------------------------------
(* The worker process *)

(* A step of the process alone, under its id. *)
LEMMA ProcessOnly ==
  ASSUME RemoteInv, UNCHANGED coordinator, UNCHANGED <<late, applied, left, lost>>,
         restarts' = restarts, worker_id' = worker_id,
         ProcTypes', ProcessShape', ActiveInv', LeaseIsHeld',
         \A u \in Pollers : Quiet(th[u], th'[u]),
         \A l \in executed' : l \in executed \/ \E u \in Pollers : l \in HeldOf(th[u]),
         th'[Main].rep # None => th'[Main].rep = th[Main].rep
  PROVE  RemoteInv'
<1>0. /\ row' = row /\ running' = running /\ remote_workers' = remote_workers
      /\ next_id' = next_id /\ late' = late /\ applied' = applied /\ left' = left
  BY Zenon DEF coordinator
<1>1. CoordTypes /\ RowInv
  BY InvParts, Zenon
<1>2. CoordTypes' /\ RowInv' /\ Kept
  BY <1>0, <1>1, CoordSame, Zenon DEF CoordTypes
<1>3. lost => lost'
  <2>1. lost' = lost
    BY Zenon
  <2> QED BY <2>1
<1>4. \A r \in late' : r.kind = "claim" => \/ r \in late
                                           \/ th'[Main].rep = None /\ r.id < next_id /\ lost'
  BY <1>0, Zenon
<1> QED BY <1>0, <1>2, <1>3, <1>4, QuietStep, Zenon

LEMMA KeptSame ==
  ASSUME UNCHANGED coordinator
  PROVE  Kept
BY Zenon DEF Kept, coordinator

LEMMA LoopStep ==
  ASSUME ProcTypes, ProcessShape, NEW t \in Threads \ {Main}, NEW y \in ThreadStates,
         th' = [th EXCEPT ![t] = y], worker_id' = worker_id,
         Readable(y), LoopShape(t, y, worker_id)
  PROVE  /\ th' \in [Threads -> ThreadStates] /\ ProcessShape'
         /\ th'[t] = y /\ th'[Main] = th[Main]
         /\ \A u \in Threads : u # t => th'[u] = th[u]
<1>1. /\ th' \in [Threads -> ThreadStates] /\ th'[t] = y
      /\ \A u \in Threads : u # t => th'[u] = th[u]
  BY ThreadStep, Zenon DEF ProcTypes
<1>2. th'[Main] = th[Main]
  BY <1>1, Constants, Zenon
<1>3. \A u \in Threads : Readable(th'[u])
  BY <1>1, Zenon DEF ProcessShape
<1>4. \A u \in Threads \ {Main} : LoopShape(u, th'[u], worker_id)
  BY <1>1, Zenon DEF ProcessShape
<1>5. ProcessShape'
  BY <1>2, <1>3, <1>4, Zenon DEF ProcessShape
<1> QED BY <1>1, <1>2, <1>5, Zenon

(* The types after a step of the process that changes th, active and executed. *)
LEMMA ProcSame ==
  ASSUME ProcTypes, UNCHANGED <<worker_id, stopping, late, left, lost, bounds>>,
         th' \in [Threads -> ThreadStates], active' \in [Jobs -> Pollers \cup {None}],
         executed' \subseteq Leases
  PROVE  ProcTypes' /\ restarts' = restarts
<1>1. /\ worker_id' = worker_id /\ stopping' = stopping /\ late' = late /\ left' = left
      /\ starts' = starts /\ faults' = faults /\ restarts' = restarts /\ crashes' = crashes
  BY Zenon DEF bounds
<1>2. lost' = lost
  BY Zenon
<1>3. lost \in BOOLEAN /\ late \subseteq Requests /\ faults \in Nat /\ restarts \in Nat
  BY Zenon DEF ProcTypes
<1>4. lost' \in BOOLEAN /\ late' \subseteq Requests /\ faults' \in Nat /\ restarts' \in Nat
  BY <1>1, <1>2, <1>3, Zenon
<1> QED BY <1>1, <1>4, ProcStep, Zenon

LEMMA HeartbeatInv ==
  ASSUME RemoteInv, NEW overdue, heartbeat_answer(overdue)
  PROVE  RemoteInv'
<1>0. /\ th[Heart].pc = "wait"
      /\ th' = [t \in Threads |->
                  IF t = Heart THEN Again(t)
                  ELSE IF \E j \in th[Heart].rep.cancel \cup overdue : active[j] = t
                       THEN [th[t] EXCEPT !.cancel = TRUE] ELSE th[t]]
      /\ UNCHANGED coordinator
      /\ worker_id' = worker_id /\ stopping' = stopping /\ active' = active
      /\ executed' = executed
  BY Zenon DEF heartbeat_answer, process, history
<1>01. /\ UNCHANGED <<late, applied, left, lost>>
       /\ UNCHANGED <<worker_id, stopping, late, left, lost, bounds>>
  BY Zenon DEF heartbeat_answer, process, history
<1>1. ProcTypes /\ ProcessShape /\ ActiveInv /\ LeaseIsHeld
  BY InvParts, Zenon
<1>2. worker_id # None /\ worker_id \in Nat
  BY <1>0, <1>1, WaitFacts, Constants, Zenon
<1>3. ASSUME NEW t \in Threads
      PROVE  /\ th'[t] \in ThreadStates /\ Readable(th'[t])
             /\ t # Heart => /\ th'[t].pc = th[t].pc /\ th'[t].req = th[t].req
                             /\ th'[t].rep = th[t].rep /\ th'[t].lease = th[t].lease
             /\ t # Main => LoopShape(t, th'[t], worker_id)
  <2>1. th[t] \in ThreadStates /\ Readable(th[t]) /\ (t # Main => LoopShape(t, th[t], worker_id))
    BY <1>1, Zenon DEF ProcTypes, ProcessShape
  <2>2. CASE t = Heart
    <3>1. th'[t] = Again(t)
      BY <1>0, <2>2, Zenon
    <3>2. Looped(t, Again(t), worker_id)
      BY <1>2, LoopedMade, Zenon
    <3>3. Again(t) \in ThreadStates
      BY <3>2, Zenon DEF Looped
    <3>4. Readable(Again(t)) /\ LoopShape(t, Again(t), worker_id)
      BY <1>2, <3>2, LoopedFacts, Zenon
    <3> QED BY <2>2, <3>1, <3>3, <3>4, Zenon
  <2>3. CASE t # Heart
    <3> DEFINE y == [th[t] EXCEPT !.cancel = TRUE]
    <3>1. th'[t] = y \/ th'[t] = th[t]
      BY <1>0, <2>3, Zenon
    <3>2. /\ y \in ThreadStates /\ y.pc = th[t].pc /\ y.req = th[t].req
          /\ y.rep = th[t].rep /\ y.lease = th[t].lease
      BY <2>1, FlagSet, Zenon
    <3> HIDE DEF y
    <3>3. Readable(y) /\ (t # Main => LoopShape(t, y, worker_id))
      BY <2>1, <3>2, AlikeThread, Zenon
    <3> QED BY <2>1, <2>3, <3>1, <3>2, <3>3, Zenon
  <2> QED BY <2>2, <2>3, Zenon
<1>4. th' \in [Threads -> ThreadStates]
  BY <1>0, <1>3, Zenon
<1>5. ProcTypes' /\ restarts' = restarts
  <2>1. active' \in [Jobs -> Pollers \cup {None}] /\ executed' \subseteq Leases
    BY <1>0, <1>1, Zenon DEF ProcTypes
  <2> QED BY <1>01, <1>1, <1>4, <2>1, ProcSame, Zenon
<1>6. ProcessShape'
  <2>1. th'[Main].pc = th[Main].pc /\ th'[Main].req = th[Main].req
    BY <1>3, Constants, Zenon
  <2> QED BY <1>0, <1>1, <1>3, <2>1, Zenon DEF ProcessShape
<1>7. \A u \in Pollers : Quiet(th[u], th'[u]) /\ Steady(th[u], th'[u]) /\ Carries(th[u], th'[u])
  BY <1>3, AlikeThread, Constants, Zenon
<1>8. ActiveInv'
  BY <1>0, <1>1, <1>7, ActiveSteady, Zenon
<1>9. lost => lost'
  <2>1. lost' = lost
    BY <1>01, Zenon
  <2> QED BY <2>1
<1>10. LeaseIsHeld'
  BY <1>0, <1>1, <1>7, <1>9, KeptSame, HeldKept, Zenon
<1>11. \A l \in executed' : l \in executed \/ \E u \in Pollers : l \in HeldOf(th[u])
  BY <1>0, Zenon
<1>12. th'[Main].rep # None => th'[Main].rep = th[Main].rep
  BY <1>3, Constants, Zenon
<1> QED BY <1>0, <1>01, <1>5, <1>6, <1>7, <1>8, <1>10, <1>11, <1>12, ProcessOnly, Zenon

LEMMA ReportedInv ==
  ASSUME RemoteInv, NEW t \in Pollers, reported(t)
  PROVE  RemoteInv'
<1> DEFINE y == Again(t)
<1>0. /\ th[t].pc = "wait" /\ th[t].rep # None /\ th[t].req.kind = "complete"
      /\ th' = [th EXCEPT ![t] = y]
      /\ UNCHANGED coordinator
      /\ worker_id' = worker_id /\ stopping' = stopping /\ active' = active
      /\ executed' = executed
  BY Zenon DEF reported, process, history
<1>01. /\ UNCHANGED <<late, applied, left, lost>>
       /\ UNCHANGED <<worker_id, stopping, late, left, lost, bounds>>
  BY Zenon DEF reported, process, history
<1>1. ProcTypes /\ ProcessShape /\ ActiveInv /\ LeaseIsHeld /\ HandInv
  BY InvParts, Zenon
<1>2. t \in Threads \ {Main} /\ t # Heart
  BY Constants, Zenon
<1>3. worker_id # None /\ worker_id \in Nat /\ th[t].req.id = worker_id
  BY <1>0, <1>1, <1>2, WaitFacts, Zenon
<1>4. Looped(t, y, worker_id)
  BY <1>3, LoopedMade, Zenon
<1> HIDE DEF y
<1>5. /\ y \in ThreadStates /\ y.pc \in {"off", "wait"}
      /\ Readable(y) /\ LoopShape(t, y, worker_id) /\ Quiet(th[t], y)
  BY <1>3, <1>4, LoopedFacts, Zenon DEF Looped
<1>6. /\ th' \in [Threads -> ThreadStates] /\ ProcessShape'
      /\ th'[t] = y /\ th'[Main] = th[Main]
      /\ \A u \in Threads : u # t => th'[u] = th[u]
  BY <1>0, <1>1, <1>2, <1>5, LoopStep, Zenon
<1>7. ProcTypes' /\ restarts' = restarts
  <2>1. active' \in [Jobs -> Pollers \cup {None}] /\ executed' \subseteq Leases
    BY <1>0, <1>1, Zenon DEF ProcTypes
  <2> QED BY <1>01, <1>1, <1>6, <2>1, ProcSame, Zenon
<1>8. \A u \in Pollers : Quiet(th[u], th'[u]) /\ Steady(th[u], th'[u])
  <2>1. Steady(th[t], y)
    BY <1>0, Zenon DEF Steady
  <2> QED BY <1>5, <1>6, <2>1, SameThread, Constants, Zenon
<1>9. ActiveInv'
  BY <1>0, <1>1, <1>8, ActiveSteady, Zenon
<1>10. LeaseIsHeld'
  <2>1. running' = running /\ lost' = lost
    BY <1>0, <1>01, Zenon DEF coordinator
  <2>2. ASSUME NEW j \in Jobs, running[j] # None, running[j].owner = worker_id, ~ lost
        PROVE  \E u \in Pollers : HandOf(th'[u], <<j, running[j].attempt>>)
    <3>1. PICK u \in Pollers : HandOf(th[u], <<j, running[j].attempt>>)
      BY <1>1, <2>2, HandOfIsInHand, Zenon DEF LeaseIsHeld
    <3>2. CASE u = t
      <4>1. ~ holds_lease(th[t].req)
        BY <1>0, <1>1, Zenon DEF HandInv, Answered, Reports
      <4>2. Readable(th[t])
        BY <1>1, <1>2, Zenon DEF ProcessShape
      <4>3. th[t].rep.kind = "complete"
        BY <1>0, <4>2, Zenon DEF Readable
      <4>4. <<th[t].req.job, th[t].req.attempt>> = <<j, running[j].attempt>>
        BY <1>0, <3>1, <3>2, <4>3, Zenon DEF HandOf
      <4>5. th[t].req.job = j /\ th[t].req.attempt = running[j].attempt
        BY <4>4
      <4> QED BY <1>3, <2>2, <4>1, <4>5, Zenon DEF holds_lease
    <3>3. CASE u # t
      BY <1>6, <3>1, <3>3, Constants, Zenon
    <3> QED BY <3>2, <3>3, Zenon
  <2>3. ~ lost' => ~ lost
    BY <2>1
  <2> QED BY <1>0, <2>1, <2>2, <2>3, HandOfIsInHandNext, Zenon DEF LeaseIsHeld
<1>11. \A l \in executed' : l \in executed \/ \E u \in Pollers : l \in HeldOf(th[u])
  BY <1>0, Zenon
<1>12. th'[Main].rep # None => th'[Main].rep = th[Main].rep
  BY <1>6, Zenon
<1> QED BY <1>0, <1>01, <1>6, <1>7, <1>8, <1>9, <1>10, <1>11, <1>12, ProcessOnly, Zenon

LEMMA ClaimedInv ==
  ASSUME RemoteInv, NEW t \in Pollers, claimed(t)
  PROVE  RemoteInv'
<1> DEFINE x == th[t]
<1>0. /\ x.pc = "wait" /\ x.rep # None /\ x.req.kind = "claim"
      /\ UNCHANGED coordinator
      /\ worker_id' = worker_id /\ stopping' = stopping
  BY Zenon DEF claimed
<1>01. /\ UNCHANGED <<late, applied, left, lost>>
       /\ UNCHANGED <<worker_id, stopping, late, left, lost, bounds>>
  BY Zenon DEF claimed
<1>1. ProcTypes /\ ProcessShape /\ ActiveInv /\ LeaseIsHeld
  BY InvParts, Zenon
<1>2. t \in Threads \ {Main} /\ t # Heart
  BY Constants, Zenon
<1>3. worker_id # None /\ worker_id \in Nat /\ Readable(x)
  BY <1>0, <1>1, <1>2, WaitFacts, Zenon
<1>30. x.rep.kind = "jobs" /\ \A l, m \in x.rep.leases : l = m
  BY <1>0, <1>3, Zenon DEF Readable
<1>31. lost => lost'
  <2>1. lost' = lost
    BY <1>01, Zenon
  <2> QED BY <2>1
<1>32. active \in [Jobs -> Pollers \cup {None}] /\ executed \subseteq Leases
  BY <1>1, Zenon DEF ProcTypes
<1>4. CASE x.rep.leases = {}
  <2> DEFINE y == Again(t)
  <2>0. th' = [th EXCEPT ![t] = y] /\ active' = active /\ executed' = executed
    BY <1>4, Zenon DEF claimed
  <2>1. Looped(t, y, worker_id)
    BY <1>3, LoopedMade, Zenon
  <2> HIDE DEF y
  <2>2. /\ y \in ThreadStates /\ Readable(y) /\ LoopShape(t, y, worker_id) /\ Quiet(x, y)
    BY <1>3, <2>1, LoopedFacts, Zenon DEF Looped
  <2>3. /\ th' \in [Threads -> ThreadStates] /\ ProcessShape'
        /\ th'[t] = y /\ th'[Main] = th[Main]
        /\ \A u \in Threads : u # t => th'[u] = th[u]
    BY <1>0, <1>1, <1>2, <2>0, <2>2, LoopStep, Zenon
  <2>4. ProcTypes' /\ restarts' = restarts
    BY <1>01, <1>1, <1>32, <2>0, <2>3, ProcSame, Zenon
  <2>5. Steady(x, y)
    BY <1>0, Zenon DEF Steady
  <2>6. Carries(x, y)
    BY <1>0, <1>4, <1>30, Zenon DEF Carries, HandOf
  <2>7. \A u \in Pollers : Quiet(th[u], th'[u]) /\ Steady(th[u], th'[u]) /\ Carries(th[u], th'[u])
    BY <2>2, <2>3, <2>5, <2>6, SameThread, Constants, Zenon
  <2>8. ActiveInv'
    BY <1>1, <2>0, <2>7, ActiveSteady, Zenon
  <2>9. LeaseIsHeld'
    BY <1>0, <1>1, <1>31, <2>7, KeptSame, HeldKept, Zenon
  <2>10. \A l \in executed' : l \in executed \/ \E u \in Pollers : l \in HeldOf(th[u])
    BY <2>0, Zenon
  <2>11. th'[Main].rep # None => th'[Main].rep = th[Main].rep
    BY <2>3, Zenon
  <2> QED BY <1>0, <1>01, <2>3, <2>4, <2>7, <2>8, <2>9, <2>10, <2>11, ProcessOnly, Zenon
<1>5. CASE x.rep.leases # {}
  <2> DEFINE Y(l) == [Off EXCEPT !.pc = "run", !.lease = l]
  <2>0. PICK l \in x.rep.leases : /\ active' = [active EXCEPT ![l[1]] = t]
                                  /\ th' = [th EXCEPT ![t] = Y(l)]
                                  /\ executed' = executed \cup {l}
    BY <1>5, Zenon DEF claimed
  <2> DEFINE y == Y(l)
  <2>1. l \in HeldOf(x)
    BY <1>0, <1>30, <2>0, Zenon DEF HeldOf
  <2>2. l \in Leases /\ l # None /\ l[1] \in Jobs
    BY <1>1, <2>1, HeldFacts, LeaseFacts, Constants, Zenon
  <2>3. y \in ThreadStates /\ y.pc = "run" /\ y.lease = l /\ y.rep = None
    BY <2>2, RunMade, Zenon
  <2>30. th' = [th EXCEPT ![t] = y]
    BY <2>0, Zenon
  <2> HIDE DEF y, Y
  <2>4. Readable(y) /\ LoopShape(t, y, worker_id)
    BY <1>2, <1>3, <2>2, <2>3, Zenon DEF Readable, LoopShape
  <2>5. /\ th' \in [Threads -> ThreadStates] /\ ProcessShape'
        /\ th'[t] = y /\ th'[Main] = th[Main]
        /\ \A u \in Threads : u # t => th'[u] = th[u]
    BY <1>0, <1>1, <1>2, <2>30, <2>3, <2>4, LoopStep, Zenon
  <2>6. HeldOf(y) = {l} /\ ~ Reports(y)
    BY <2>3, Zenon DEF HeldOf, Reports
  <2>7. Quiet(x, y)
    BY <2>1, <2>6, Zenon DEF Quiet, Answered
  <2>8. Carries(x, y)
    BY <1>0, <1>30, <2>0, <2>3, Zenon DEF Carries, HandOf
  <2>9. \A u \in Pollers : Quiet(th[u], th'[u]) /\ Carries(th[u], th'[u])
    BY <2>5, <2>7, <2>8, SameThread, Constants, Zenon
  <2>10. active' \in [Jobs -> Pollers \cup {None}] /\ executed' \subseteq Leases
    BY <1>32, <2>0, <2>2, Zenon
  <2>11. ProcTypes' /\ restarts' = restarts
    BY <1>01, <1>1, <2>5, <2>10, ProcSame, Zenon
  <2>12. ActiveInv'
    <3>1. ASSUME NEW j \in Jobs, active'[j] # None
          PROVE  th'[active'[j]].pc = "run" /\ th'[active'[j]].lease[1] = j
      <4>1. CASE j = l[1]
        <5>1. active'[j] = t
          BY <1>32, <2>0, <4>1, Zenon
        <5> QED BY <2>3, <2>5, <4>1, <5>1, Zenon
      <4>2. CASE j # l[1]
        <5>1. active'[j] = active[j] /\ active[j] \in Pollers
          BY <1>32, <2>0, <3>1, <4>2, Zenon
        <5>2. th[active[j]].pc = "run" /\ th[active[j]].lease[1] = j
          BY <1>1, <3>1, <5>1, Zenon DEF ActiveInv
        <5>3. th'[active[j]] = th[active[j]]
          BY <1>0, <2>5, <5>1, <5>2, Constants, Zenon
        <5> QED BY <5>1, <5>2, <5>3, Zenon
      <4> QED BY <4>1, <4>2, Zenon
    <3> QED BY <3>1, Zenon DEF ActiveInv
  <2>13. LeaseIsHeld'
    BY <1>0, <1>1, <1>31, <2>9, KeptSame, HeldKept, Zenon
  <2>14. \A m \in executed' : m \in executed \/ \E u \in Pollers : m \in HeldOf(th[u])
    BY <2>0, <2>1, Zenon
  <2>15. th'[Main].rep # None => th'[Main].rep = th[Main].rep
    BY <2>5, Zenon
  <2> QED BY <1>0, <1>01, <2>5, <2>9, <2>11, <2>12, <2>13, <2>14, <2>15, ProcessOnly, Zenon
<1> QED BY <1>4, <1>5, Zenon

LEMMA StatusFacts ==
  ASSUME NEW t, NEW o \in {"SUCCEEDED", "FAILED", "threw"}
  PROVE  Status(t, o) \in {"SUCCEEDED", "FAILED", "TIMED_OUT"}
BY DEF Status

LEMMA RanInv ==
  ASSUME RemoteInv, NEW t \in Pollers, NEW o \in {"SUCCEEDED", "FAILED", "threw"}, ran(t, o)
  PROVE  RemoteInv'
<1> DEFINE x == th[t]
           l == x.lease
           r == [kind |-> "complete", id |-> worker_id, job |-> l[1], attempt |-> l[2],
                 status |-> Status(t, o)]
           y == Call(r)
<1>0. /\ x.pc = "run" /\ active' = [active EXCEPT ![l[1]] = None]
      /\ th' = [th EXCEPT ![t] = y]
      /\ UNCHANGED coordinator
      /\ worker_id' = worker_id /\ stopping' = stopping /\ executed' = executed
  BY Zenon DEF ran, erased, then_report, Report, history
<1>01. /\ UNCHANGED <<late, applied, left, lost>>
       /\ UNCHANGED <<worker_id, stopping, late, left, lost, bounds>>
  BY Zenon DEF ran, history
<1>1. ProcTypes /\ ProcessShape /\ ActiveInv /\ LeaseIsHeld
  BY InvParts, Zenon
<1>2. t \in Threads \ {Main} /\ t # Heart /\ t \in Threads
  BY Constants, Zenon
<1>3. LoopShape(t, x, worker_id) /\ worker_id \in Nat \cup {None} /\ x.rep = None
  BY <1>0, <1>1, <1>2, MainFacts, Zenon DEF ProcessShape, ProcTypes
<1>4. worker_id # None /\ worker_id \in Nat
  BY <1>0, <1>3, Zenon DEF LoopShape
<1>5. l \in HeldOf(x)
  BY <1>0, Zenon DEF HeldOf
<1>6. l \in Leases
  BY <1>1, <1>5, HeldFacts, Zenon
<1>7. l[1] \in Jobs /\ l[2] \in Nat /\ l = <<l[1], l[2]>>
  BY <1>6, LeaseFacts, Zenon
<1>8. /\ r \in Requests /\ r.kind = "complete" /\ r.id = worker_id
      /\ r.job = l[1] /\ r.attempt = l[2]
  BY <1>4, <1>7, StatusFacts, RequestsMade, Zenon
<1> HIDE DEF r, l
<1>9. y \in ThreadStates /\ y.pc = "wait" /\ y.req = r /\ y.rep = None
  BY <1>8, CallMade, Zenon
<1> HIDE DEF y
<1>10. r # None
  BY <1>8, RequestFacts, Zenon
<1>11. Readable(y) /\ LoopShape(t, y, worker_id)
  BY <1>2, <1>4, <1>8, <1>9, <1>10, Zenon DEF Readable, LoopShape
<1>12. /\ th' \in [Threads -> ThreadStates] /\ ProcessShape'
       /\ th'[t] = y /\ th'[Main] = th[Main]
       /\ \A u \in Threads : u # t => th'[u] = th[u]
  BY <1>0, <1>1, <1>2, <1>9, <1>11, LoopStep, Zenon
<1>13. HeldOf(y) = {} /\ ~ Answered(y) /\ <<y.req.job, y.req.attempt>> = l
  BY <1>7, <1>8, <1>9, Zenon DEF HeldOf, Answered
<1>14. Quiet(x, y)
  BY <1>5, <1>13, Zenon DEF Quiet
<1>15. Carries(x, y)
  BY <1>0, <1>3, <1>8, <1>9, <1>13, Zenon DEF Carries, HandOf, l
<1>16. \A u \in Pollers : Quiet(th[u], th'[u]) /\ Carries(th[u], th'[u])
  BY <1>12, <1>14, <1>15, SameThread, Constants, Zenon
<1>17. active \in [Jobs -> Pollers \cup {None}] /\ executed \subseteq Leases
  BY <1>1, Zenon DEF ProcTypes
<1>18. active' \in [Jobs -> Pollers \cup {None}] /\ executed' \subseteq Leases
  BY <1>0, <1>17, Zenon
<1>19. ProcTypes' /\ restarts' = restarts
  BY <1>01, <1>1, <1>12, <1>18, ProcSame, Zenon
<1>20. ActiveInv'
  <2>1. ASSUME NEW j \in Jobs, active'[j] # None
        PROVE  th'[active'[j]].pc = "run" /\ th'[active'[j]].lease[1] = j
    <3>1. j # l[1]
      BY <1>0, <1>7, <1>17, <2>1, Zenon
    <3>2. active'[j] = active[j] /\ active[j] \in Pollers /\ active[j] # None
      BY <1>0, <1>17, <2>1, <3>1, Zenon
    <3>3. th[active[j]].pc = "run" /\ th[active[j]].lease[1] = j
      BY <1>1, <3>2, Zenon DEF ActiveInv
    <3>4. active[j] # t
      BY <3>1, <3>3, Zenon DEF l
    <3> QED BY <1>12, <3>2, <3>3, <3>4, Constants, Zenon
  <2> QED BY <2>1, Zenon DEF ActiveInv
<1>21. lost => lost'
  <2>1. lost' = lost
    BY <1>01, Zenon
  <2> QED BY <2>1
<1>22. LeaseIsHeld'
  BY <1>0, <1>1, <1>16, <1>21, KeptSame, HeldKept, Zenon
<1>23. \A m \in executed' : m \in executed \/ \E u \in Pollers : m \in HeldOf(th[u])
  BY <1>0, Zenon
<1>24. th'[Main].rep # None => th'[Main].rep = th[Main].rep
  BY <1>12, Zenon
<1> QED BY <1>0, <1>01, <1>12, <1>16, <1>19, <1>20, <1>22, <1>23, <1>24, ProcessOnly, Zenon

(* start() and stop(): the thread of main() goes from x to y, the others stay. *)
LEMMA MainStep ==
  ASSUME RemoteInv, NEW y \in ThreadStates, th' = [th EXCEPT ![Main] = y],
         y.rep = None, y.pc \in {"off", "wait", "up", "join"},
         y.pc = "wait" => y.req = [kind |-> "register"],
         worker_id # None <=> y.pc \in {"up", "join"},
         UNCHANGED coordinator, UNCHANGED <<active, late, executed, applied, left, lost>>,
         worker_id' = worker_id, stopping' \in BOOLEAN, starts' \in Nat,
         UNCHANGED <<faults, restarts, crashes>>
  PROVE  RemoteInv'
<1>1. ProcTypes /\ ProcessShape /\ ActiveInv /\ LeaseIsHeld
  BY InvParts, Zenon
<1>2. /\ th' \in [Threads -> ThreadStates] /\ th'[Main] = y
      /\ \A u \in Threads : u # Main => th'[u] = th[u]
  BY <1>1, ThreadStep, Constants, ZenonT(60) DEF ProcTypes
<1>3. ProcTypes'
  <2>1. {starts', faults', restarts', crashes'} \subseteq Nat
    BY <1>1, Zenon DEF ProcTypes
  <2>2. lost' \in BOOLEAN /\ active' \in [Jobs -> Pollers \cup {None}] /\ late' \subseteq Requests
    BY <1>1, Zenon DEF ProcTypes
  <2>3. executed' \subseteq Leases /\ left' \subseteq Nat /\ worker_id' \in Nat \cup {None}
    BY <1>1, Zenon DEF ProcTypes
  <2> QED BY <1>2, <2>1, <2>2, <2>3, Zenon DEF ProcTypes
<1>4. ProcessShape'
  <2>1. \A u \in Threads : Readable(th'[u])
    <3>1. Readable(y)
      BY Zenon DEF Readable
    <3> QED BY <1>1, <1>2, <3>1, Zenon DEF ProcessShape
  <2>2. \A u \in Threads \ {Main} : LoopShape(u, th'[u], worker_id)
    BY <1>1, <1>2, Zenon DEF ProcessShape
  <2> QED BY <1>2, <2>1, <2>2, Zenon DEF ProcessShape
<1>5. \A u \in Pollers : Quiet(th[u], th'[u]) /\ Steady(th[u], th'[u]) /\ Carries(th[u], th'[u])
  BY <1>2, SameThread, Constants, Zenon
<1>6. ActiveInv'
  BY <1>1, <1>5, ActiveSteady, Zenon
<1>7. lost => lost'
  <2>1. lost' = lost
    BY Zenon
  <2> QED BY <2>1
<1>8. LeaseIsHeld'
  BY <1>1, <1>5, <1>7, KeptSame, HeldKept, Zenon
<1>9. \A l \in executed' : l \in executed \/ \E u \in Pollers : l \in HeldOf(th[u])
  BY Zenon
<1>10. th'[Main].rep # None => th'[Main].rep = th[Main].rep
  BY <1>2, Zenon
<1>11. restarts' = restarts
  BY Zenon
<1> QED BY <1>3, <1>4, <1>5, <1>6, <1>8, <1>9, <1>10, <1>11, ProcessOnly, Zenon

LEMMA StartInv ==
  ASSUME RemoteInv, start
  PROVE  RemoteInv'
<1> DEFINE r == [kind |-> "register"]
           y == Call(r)
<1>0. /\ \A t \in Threads : th[t].pc = "off"
      /\ starts' = starts + 1 /\ stopping' = FALSE
      /\ th' = [th EXCEPT ![Main] = y]
      /\ UNCHANGED coordinator /\ UNCHANGED <<active, late, executed, applied, left, lost>>
      /\ worker_id' = worker_id /\ UNCHANGED <<faults, restarts, crashes>>
  BY Zenon DEF start, history
<1>1. ProcTypes /\ ProcessShape
  BY InvParts, Zenon
<1>2. worker_id = None
  BY <1>0, <1>1, MainFacts, Constants, Zenon
<1>3. r \in Requests
  BY RequestsMade, NatFacts, Zenon
<1> HIDE DEF r
<1>4. y \in ThreadStates /\ y.pc = "wait" /\ y.req = r /\ y.rep = None
  BY <1>3, CallMade, Zenon
<1> HIDE DEF y
<1>5. starts' \in Nat
  BY <1>0, <1>1, NatFacts, Zenon DEF ProcTypes
<1>6. stopping' \in BOOLEAN
  BY <1>0, Zenon
<1>7. y.pc = "wait" => y.req = [kind |-> "register"]
  BY <1>4, Zenon DEF r
<1>8. worker_id # None <=> y.pc \in {"up", "join"}
  BY <1>2, <1>4, Zenon
<1> QED BY <1>0, <1>4, <1>5, <1>6, <1>7, <1>8, MainStep, Zenon

LEMMA StopInv ==
  ASSUME RemoteInv, stop
  PROVE  RemoteInv'
<1> DEFINE x == th[Main]
           y == [x EXCEPT !.pc = "join"]
<1>0. /\ x.pc = "up" /\ stopping' = TRUE
      /\ th' = [th EXCEPT ![Main] = y]
      /\ UNCHANGED coordinator /\ UNCHANGED <<active, late, executed, applied, left, lost>>
      /\ worker_id' = worker_id /\ starts' = starts /\ UNCHANGED <<faults, restarts, crashes>>
  BY Zenon DEF stop, history, bounds
<1>1. ProcTypes /\ ProcessShape
  BY InvParts, Zenon
<1>2. worker_id # None /\ x.rep = None /\ x \in ThreadStates
  BY <1>0, <1>1, MainFacts, Constants, Zenon DEF ProcessShape, ProcTypes
<1>3. y \in ThreadStates /\ y.pc = "join" /\ y.rep = None
  BY <1>2, PcSet, Zenon
<1> HIDE DEF y
<1>4. starts' \in Nat
  BY <1>0, <1>1, Zenon DEF ProcTypes
<1>5. stopping' \in BOOLEAN
  BY <1>0, Zenon
<1>6. worker_id # None <=> y.pc \in {"up", "join"}
  BY <1>2, <1>3, Zenon
<1>7. y.pc = "wait" => y.req = [kind |-> "register"]
  BY <1>3, Zenon
<1> QED BY <1>0, <1>3, <1>4, <1>5, <1>6, <1>7, MainStep, Zenon

(* A step in which a process comes or goes: no thread of it holds anything afterwards. *)
LEMMA TurnStep ==
  ASSUME RemoteInv, UNCHANGED coordinator, UNCHANGED <<late, executed, applied, lost>>,
         restarts' = restarts, ProcTypes', ProcessShape', ActiveInv', th'[Main].rep = None,
         \A u \in Pollers : Quiet(th[u], th'[u]),
         \A i \in left' : i < next_id,
         worker_id' # None => worker_id' < next_id /\ worker_id' \notin left',
         LeaseIsHeld', StopLeavesNoLease'
  PROVE  RemoteInv'
<1>0. /\ row' = row /\ running' = running /\ remote_workers' = remote_workers
      /\ next_id' = next_id /\ late' = late /\ applied' = applied /\ executed' = executed
  BY Zenon DEF coordinator
<1>1. CoordTypes /\ RowInv /\ HandInv /\ IdInv /\ ProcTypes /\ ProcessShape
  BY InvParts, Zenon
<1>2. CoordTypes' /\ RowInv' /\ Kept
  BY <1>0, <1>1, CoordSame, Zenon DEF CoordTypes
<1>3. \A l \in executed' : l \in executed \/ \E u \in Pollers : l \in HeldOf(th[u])
  BY <1>0, Zenon
<1>4. HandInv'
  BY <1>1, <1>2, <1>3, HandQuiet, Zenon
<1>5. lost => lost'
  <2>1. lost' = lost
    BY Zenon
  <2> QED BY <2>1
<1>6. \A r \in late' : r.kind = "claim" => r.id < next_id' /\ lost'
  BY <1>0, <1>1, <1>5, Zenon DEF IdInv
<1>7. \A j \in Jobs : running'[j] # None => running'[j].owner < next_id'
  BY <1>0, <1>1, Zenon DEF IdInv
<1>8. IdInv'
  BY <1>0, <1>6, <1>7, Zenon DEF IdInv
<1> QED BY <1>2, <1>4, <1>8, InvMade, Zenon

LEMMA RegisteredInv ==
  ASSUME RemoteInv, registered
  PROVE  RemoteInv'
<1> DEFINE U == [Off EXCEPT !.pc = "up"]
<1>1. /\ CoordTypes /\ ProcTypes /\ ProcessShape /\ ActiveInv /\ IdInv /\ StopLeavesNoLease
  BY InvParts, Zenon
<1>2. PICK i : i = th[Main].rep.id
  BY Zenon
<1>0. /\ th[Main].pc = "wait" /\ th[Main].rep # None
      /\ worker_id' = i
      /\ th' = [t \in Threads |-> IF t = Main THEN U ELSE LoopCall(t, i)]
      /\ UNCHANGED coordinator /\ UNCHANGED <<late, executed, applied, lost>>
      /\ stopping' = stopping /\ active' = active /\ left' = left
      /\ starts' = starts /\ faults' = faults /\ restarts' = restarts /\ crashes' = crashes
  BY <1>2, Zenon DEF registered, history, bounds
<1>3. i \in Nat /\ \A u \in Threads \ {Main} : th[u].pc = "off"
  BY <1>0, <1>1, <1>2, MainFacts, Zenon
<1>4. i # None
  BY <1>3, Constants, Zenon
<1>5. U \in ThreadStates /\ U.pc = "up" /\ U.rep = None
  BY UpMade, Zenon
<1> HIDE DEF U
<1>6. th'[Main] = U
  BY <1>0, Constants, Zenon
<1>7. ASSUME NEW u \in Threads \ {Main}
      PROVE  /\ th'[u] \in ThreadStates /\ Readable(th'[u]) /\ LoopShape(u, th'[u], i)
             /\ Quiet(th[u], th'[u])
  <2>1. th'[u] = LoopCall(u, i)
    BY <1>0, Zenon
  <2>2. Looped(u, LoopCall(u, i), i)
    BY <1>3, LoopedMade, Zenon
  <2>3. LoopCall(u, i) \in ThreadStates
    BY <2>2, Zenon DEF Looped
  <2>4. /\ Readable(LoopCall(u, i)) /\ LoopShape(u, LoopCall(u, i), i)
        /\ Quiet(th[u], LoopCall(u, i))
    BY <1>4, <2>2, LoopedFacts, Zenon
  <2> QED BY <2>1, <2>3, <2>4, Zenon
<1>8. th' \in [Threads -> ThreadStates]
  <2>1. \A u \in Threads : th'[u] \in ThreadStates
    BY <1>5, <1>6, <1>7, Zenon
  <2> QED BY <1>0, <2>1, Zenon
<1>9. ProcTypes'
  <2>1. {starts', faults', restarts', crashes'} \subseteq Nat
    BY <1>0, <1>1, Zenon DEF ProcTypes
  <2>2. active' \in [Jobs -> Pollers \cup {None}] /\ late' \subseteq Requests
    BY <1>0, <1>1, Zenon DEF ProcTypes
  <2>3. executed' \subseteq Leases /\ left' \subseteq Nat /\ worker_id' \in Nat \cup {None}
    BY <1>0, <1>1, <1>3, Zenon DEF ProcTypes
  <2>4. lost' \in BOOLEAN /\ stopping' \in BOOLEAN
    BY <1>0, <1>1, Zenon DEF ProcTypes
  <2> QED BY <1>8, <2>1, <2>2, <2>3, <2>4, Zenon DEF ProcTypes
<1>10. ProcessShape'
  <2>1. \A u \in Threads : Readable(th'[u])
    BY <1>5, <1>6, <1>7, Zenon DEF Readable
  <2> QED BY <1>0, <1>4, <1>5, <1>6, <1>7, <2>1, Zenon DEF ProcessShape
<1>11. ActiveInv'
  <2>1. ASSUME NEW j \in Jobs
        PROVE  active[j] = None
    <3>1. active[j] \in Pollers \cup {None}
      BY <1>1, Zenon DEF ProcTypes
    <3>2. active[j] # None => th[active[j]].pc = "run"
      BY <1>1, Zenon DEF ActiveInv
    <3> QED BY <1>3, <3>1, <3>2, Constants, Zenon
  <2> QED BY <1>0, <2>1, Zenon DEF ActiveInv
<1>12. FreshId(i)
  BY <1>0, <1>1, <1>2, Zenon DEF IdInv
<1>13. running' = running
  BY <1>0, Zenon DEF coordinator
<1>14. LeaseIsHeld'
  BY <1>0, <1>12, <1>13, Zenon DEF LeaseIsHeld, FreshId
<1>15. StopLeavesNoLease'
  <2>1. ~ lost' => ~ lost
    BY <1>0, Zenon
  <2> QED BY <1>0, <1>1, <1>13, <2>1, Zenon DEF StopLeavesNoLease
<1>16. \A k \in left' : k < next_id
  BY <1>0, <1>1, Zenon DEF IdInv
<1>17. worker_id' < next_id /\ worker_id' \notin left'
  BY <1>0, <1>12, Zenon DEF FreshId
<1>18. \A u \in Pollers : Quiet(th[u], th'[u])
  BY <1>7, Constants, Zenon
<1>19. th'[Main].rep = None
  BY <1>5, <1>6, Zenon
<1> QED BY <1>0, <1>9, <1>10, <1>11, <1>14, <1>15, <1>16, <1>17, <1>18, <1>19, TurnStep, Zenon

(* Without an id no lease is the process's own. *)
LEMMA NoProcess ==
  ASSUME CoordTypes, running' = running, worker_id' = None
  PROVE  LeaseIsHeld'
<1>1. ASSUME NEW j \in Jobs, running'[j] # None
      PROVE  running'[j].owner # worker_id'
  <2>1. running[j].owner \in Nat
    BY <1>1, RowTypes, Zenon
  <2> QED BY <2>1, Constants, Zenon
<1> QED BY <1>1, Zenon DEF LeaseIsHeld

LEMMA StoppedInv ==
  ASSUME RemoteInv, stopped
  PROVE  RemoteInv'
<1> DEFINE x == th[Main]
           y == [x EXCEPT !.pc = "off"]
<1>0. /\ x.pc = "join" /\ joined
      /\ th' = [th EXCEPT ![Main] = y]
      /\ worker_id' = None /\ left' = left \cup {worker_id}
      /\ UNCHANGED coordinator /\ UNCHANGED <<late, executed, applied, lost>>
      /\ stopping' = stopping /\ active' = active
      /\ starts' = starts /\ faults' = faults /\ restarts' = restarts /\ crashes' = crashes
  BY Zenon DEF stopped, bounds
<1>1. /\ CoordTypes /\ ProcTypes /\ ProcessShape /\ ActiveInv /\ IdInv /\ LeaseIsHeld
      /\ StopLeavesNoLease
  BY InvParts, Zenon
<1>2. x \in ThreadStates /\ x.rep = None /\ worker_id # None /\ worker_id \in Nat
  BY <1>0, <1>1, MainFacts, Constants, Zenon DEF ProcTypes, ProcessShape
<1>3. y \in ThreadStates /\ y.pc = "off" /\ y.rep = None
  BY <1>2, PcSet, Zenon
<1> HIDE DEF y
<1>4. /\ th' \in [Threads -> ThreadStates] /\ th'[Main] = y
      /\ \A u \in Threads : u # Main => th'[u] = th[u]
  BY <1>0, <1>1, <1>3, ThreadStep, Constants, Zenon DEF ProcTypes
<1>5. \A u \in Threads \ {Main} : th[u].pc = "off"
  BY <1>0, Zenon DEF joined
<1>6. ProcTypes'
  <2>1. {starts', faults', restarts', crashes'} \subseteq Nat
    BY <1>0, <1>1, Zenon DEF ProcTypes
  <2>2. active' \in [Jobs -> Pollers \cup {None}] /\ late' \subseteq Requests
    BY <1>0, <1>1, Zenon DEF ProcTypes
  <2>3. executed' \subseteq Leases /\ left' \subseteq Nat /\ worker_id' \in Nat \cup {None}
    BY <1>0, <1>1, <1>2, Zenon DEF ProcTypes
  <2>4. lost' \in BOOLEAN /\ stopping' \in BOOLEAN
    BY <1>0, <1>1, Zenon DEF ProcTypes
  <2> QED BY <1>4, <2>1, <2>2, <2>3, <2>4, Zenon DEF ProcTypes
<1>7. ProcessShape'
  <2>1. \A u \in Threads : Readable(th'[u])
    <3>1. Readable(y)
      BY <1>3, Zenon DEF Readable
    <3> QED BY <1>1, <1>4, <3>1, Zenon DEF ProcessShape
  <2>2. \A u \in Threads \ {Main} : LoopShape(u, th'[u], None)
    BY <1>4, <1>5, Zenon DEF LoopShape
  <2> QED BY <1>0, <1>3, <1>4, <2>1, <2>2, Zenon DEF ProcessShape
<1>8. \A u \in Pollers : Quiet(th[u], th'[u]) /\ Steady(th[u], th'[u])
  BY <1>4, SameThread, Constants, Zenon
<1>9. ActiveInv'
  BY <1>0, <1>1, <1>8, ActiveSteady, Zenon
<1>10. running' = running
  BY <1>0, Zenon DEF coordinator
<1>11. LeaseIsHeld'
  BY <1>0, <1>1, <1>10, NoProcess, Zenon
<1>12. StopLeavesNoLease'
  <2>1. ASSUME NEW j \in Jobs, running[j] # None, ~ lost
        PROVE  running[j].owner # worker_id
    <3> SUFFICES ASSUME running[j].owner = worker_id
                 PROVE  FALSE
      BY Zenon
    <3>1. PICK t \in Pollers : HandOf(th[t], <<j, running[j].attempt>>)
      BY <1>1, <2>1, HandOfIsInHand, Zenon DEF LeaseIsHeld
    <3>2. th[t].pc = "off" /\ t \in Threads
      BY <1>5, Constants, Zenon
    <3>3. th[t].rep = None
      BY <1>1, <3>2, MainFacts, Zenon
    <3> QED BY <3>1, <3>2, <3>3, Zenon DEF HandOf
  <2>2. ~ lost' => ~ lost
    BY <1>0, Zenon
  <2> QED BY <1>0, <1>1, <1>10, <2>1, <2>2, Zenon DEF StopLeavesNoLease
<1>13. \A k \in left' : k < next_id
  BY <1>0, <1>1, <1>2, Zenon DEF IdInv
<1>14. th'[Main].rep = None
  BY <1>3, <1>4, Zenon
<1> QED BY <1>0, <1>6, <1>7, <1>8, <1>9, <1>11, <1>12, <1>13, <1>14, TurnStep, Zenon

LEMMA CrashInv ==
  ASSUME RemoteInv, crash
  PROVE  RemoteInv'
<1>0. /\ crashes' = crashes + 1 /\ worker_id' = None
      /\ active' = [j \in Jobs |-> None] /\ th' = [t \in Threads |-> Off]
      /\ UNCHANGED coordinator /\ UNCHANGED <<late, executed, applied, lost>>
      /\ left' = left /\ stopping' = stopping
      /\ starts' = starts /\ faults' = faults /\ restarts' = restarts
  BY Zenon DEF crash, history
<1>1. CoordTypes /\ ProcTypes /\ IdInv /\ StopLeavesNoLease
  BY InvParts, Zenon
<1>2. \A u \in Threads : th'[u] = Off
  BY <1>0, Zenon
<1>3. Off \in ThreadStates /\ Off.pc = "off" /\ Off.rep = None
  BY OffMade, Zenon
<1>4. ProcTypes'
  <2>1. crashes' \in Nat
    BY <1>0, <1>1, NatFacts, Zenon DEF ProcTypes
  <2>2. {starts', faults', restarts', crashes'} \subseteq Nat
    BY <1>0, <1>1, <2>1, Zenon DEF ProcTypes
  <2>3. active' \in [Jobs -> Pollers \cup {None}] /\ late' \subseteq Requests
    BY <1>0, <1>1, Zenon DEF ProcTypes
  <2>4. executed' \subseteq Leases /\ left' \subseteq Nat /\ worker_id' \in Nat \cup {None}
    BY <1>0, <1>1, Zenon DEF ProcTypes
  <2>5. lost' \in BOOLEAN /\ stopping' \in BOOLEAN
    BY <1>0, <1>1, Zenon DEF ProcTypes
  <2>6. th' \in [Threads -> ThreadStates]
    BY <1>0, <1>3, Zenon
  <2> QED BY <2>2, <2>3, <2>4, <2>5, <2>6, Zenon DEF ProcTypes
<1>5. ProcessShape'
  <2>1. Readable(Off) /\ \A u : LoopShape(u, Off, None)
    BY <1>3, Zenon DEF Readable, LoopShape
  <2>2. th'[Main] = Off
    BY <1>2, Constants, Zenon
  <2>3. \A u \in Threads : Readable(th'[u]) /\ LoopShape(u, th'[u], None)
    BY <1>2, <2>1, Zenon
  <2> QED BY <1>0, <1>3, <2>2, <2>3, Zenon DEF ProcessShape
<1>6. ActiveInv'
  BY <1>0, Zenon DEF ActiveInv
<1>7. \A u \in Pollers : Quiet(th[u], th'[u])
  <2>1. \A u \in Pollers : Looped(u, Off, None)
    BY LoopedMade, Zenon
  <2> QED BY <1>2, <2>1, LoopedFacts, Constants, Zenon
<1>8. running' = running
  BY <1>0, Zenon DEF coordinator
<1>9. LeaseIsHeld'
  BY <1>0, <1>1, <1>8, NoProcess, Zenon
<1>10. StopLeavesNoLease'
  <2>1. ~ lost' => ~ lost
    BY <1>0, Zenon
  <2> QED BY <1>0, <1>1, <1>8, <2>1, Zenon DEF StopLeavesNoLease
<1>11. \A k \in left' : k < next_id
  BY <1>0, <1>1, Zenon DEF IdInv
<1>12. th'[Main].rep = None
  BY <1>2, <1>3, Constants, Zenon
<1> QED BY <1>0, <1>4, <1>5, <1>6, <1>7, <1>9, <1>10, <1>11, <1>12, TurnStep, Zenon

-----------------------------------------------------------------------------
(* The server *)

LEMMA NatNext == \A m, n \in Nat : m <= n => m <= n + 1 /\ m # n + 1
OBVIOUS

LEMMA GrantRows ==
  ASSUME CoordTypes, CoordTypes', NEW r, NEW j \in Jobs, Granted(r, j)
  PROVE  /\ row[j].attempt \in Nat /\ row[j].attempt + 1 \in Nat
         /\ row'[j].attempt = row[j].attempt + 1
         /\ \A k \in Jobs, n \in Nat : n <= row[k].attempt => n <= row'[k].attempt
         /\ \A n \in Nat : n <= row[j].attempt => n # row[j].attempt + 1
<1>1. /\ row[j].attempt \in Nat /\ row[j].attempt + 1 \in Nat
  BY RowTypes, NatFacts, Zenon
<1>2. row'[j].attempt = row[j].attempt + 1
  BY Zenon DEF Granted
<1>3. ASSUME NEW k \in Jobs, NEW n \in Nat, n <= row[k].attempt
      PROVE  n <= row'[k].attempt
  <2>1. CASE k = j
    BY <1>1, <1>2, <1>3, <2>1, NatNext, Zenon
  <2>2. CASE k # j
    BY <1>3, <2>2, Zenon DEF Granted
  <2> QED BY <2>1, <2>2, Zenon
<1>4. \A n \in Nat : n <= row[j].attempt => n # row[j].attempt + 1
  BY <1>1, NatNext, Zenon
<1> QED BY <1>1, <1>2, <1>3, <1>4, Zenon

(* A lease is granted to thread t, or to nobody when t is no poller. *)
LEMMA HandGrant ==
  ASSUME CoordTypes, CoordTypes', ProcTypes, ProcessShape, HandInv,
         NEW r, NEW j \in Jobs, Granted(r, j), NEW t, executed' = executed,
         \A u \in Pollers : u # t => th'[u] = th[u],
         t \in Pollers => HeldOf(th'[t]) = {<<j, row[j].attempt + 1>>} /\ ~ Reports(th'[t])
  PROVE  HandInv'
<1> DEFINE n == row[j].attempt + 1
           l == <<j, n>>
<1>1. /\ row[j].attempt \in Nat /\ n \in Nat /\ row'[j].attempt = n
      /\ \A k \in Jobs, m \in Nat : m <= row[k].attempt => m <= row'[k].attempt
      /\ \A m \in Nat : m <= row[j].attempt => m # n
  BY GrantRows, Zenon
<1>2. 1 <= n /\ n <= n
  BY <1>1, NatFacts, Zenon
<1>3. t \in Pollers => HeldOf(th'[t]) = {l} /\ ~ Reports(th'[t])
  BY Zenon
<1>30. running'[j].attempt = n
  BY Zenon DEF Granted
<1> HIDE DEF n
<1>4. l \in Leases /\ l[1] = j /\ l[2] = n
  BY <1>1, LeaseMade, Zenon
<1> HIDE DEF l
<1>5. ASSUME NEW m \in Leases, m[2] <= row[m[1]].attempt
      PROVE  m[2] <= row'[m[1]].attempt /\ m # l
  <2>1. m[1] \in Jobs /\ m[2] \in Nat
    BY LeaseFacts, Zenon
  <2> QED BY <1>1, <1>4, <1>5, <2>1, Zenon
<1>6. ASSUME NEW u \in Pollers, u # t, NEW m \in HeldOf(th'[u])
      PROVE  m \in HeldOf(th[u]) /\ m # l /\ 1 <= m[2] /\ m[2] <= row'[m[1]].attempt
  <2>1. m \in HeldOf(th[u])
    BY <1>6, Zenon
  <2>2. m \in Leases
    BY <2>1, HeldFacts, Zenon
  <2>3. 1 <= m[2] /\ m[2] <= row[m[1]].attempt
    BY <2>1, Zenon DEF HandInv
  <2> QED BY <1>5, <2>1, <2>2, <2>3, Zenon
<1>7. ASSUME NEW u \in Pollers, NEW m \in HeldOf(th'[u])
      PROVE  1 <= m[2] /\ m[2] <= row'[m[1]].attempt
  <2>1. CASE u = t
    BY <1>1, <1>2, <1>3, <1>4, <2>1, Zenon
  <2>2. CASE u # t
    BY <1>6, <2>2, Zenon
  <2> QED BY <2>1, <2>2, Zenon
<1>8. ASSUME NEW s \in Pollers, NEW u \in Pollers, NEW m,
             m \in HeldOf(th'[s]), m \in HeldOf(th'[u])
      PROVE  s = u
  <2>1. CASE s = t
    BY <1>3, <1>6, <1>8, <2>1, Zenon
  <2>2. CASE u = t
    BY <1>3, <1>6, <1>8, <2>2, Zenon
  <2>3. CASE s # t /\ u # t
    <3>1. m \in HeldOf(th[s]) /\ m \in HeldOf(th[u])
      BY <1>6, <1>8, <2>3, Zenon
    <3> QED BY <3>1, Zenon DEF HandInv
  <2> QED BY <2>1, <2>2, <2>3, Zenon
<1>9. ASSUME NEW u \in Pollers, Reports(th'[u])
      PROVE  /\ u # t /\ th'[u] = th[u] /\ th[u].req.job \in Jobs /\ th[u].req.attempt \in Nat
             /\ th[u].req.attempt <= row[th[u].req.job].attempt
  <2>1. u # t /\ th'[u] = th[u]
    BY <1>3, <1>9, Zenon
  <2> QED BY <1>9, <2>1, HeldFacts, Zenon DEF HandInv
<1>10. ASSUME NEW u \in Pollers, Reports(th'[u])
       PROVE  th'[u].req.attempt <= row'[th'[u].req.job].attempt
  BY <1>1, <1>9, <1>10, Zenon
<1>11. ASSUME NEW u \in Pollers, Answered(th'[u])
       PROVE  ~ HoldsNext(th'[u].req)
  <2>0. PICK q : q = th[u].req
    BY Zenon
  <2>1. /\ th'[u] = th[u] /\ q.job \in Jobs /\ q.attempt \in Nat /\ th'[u].req = q
        /\ q.attempt <= row[q.job].attempt
    BY <1>9, <1>11, <2>0, Zenon DEF Answered
  <2>2. ~ holds_lease(q)
    BY <1>11, <2>0, <2>1, Zenon DEF HandInv
  <2>3. CASE q.job = j
    BY <1>1, <1>30, <2>1, <2>3, Zenon DEF HoldsNext
  <2>4. CASE q.job # j
    <3>1. running'[q.job] = running[q.job]
      BY <2>1, <2>4, Zenon DEF Granted
    <3> QED BY <2>1, <2>2, <3>1, Zenon DEF HoldsNext, holds_lease
  <2> QED BY <2>3, <2>4, Zenon
<1>12. ASSUME NEW m \in executed'
       PROVE  1 <= m[2] /\ m[2] <= row'[m[1]].attempt
  <2>1. m \in Leases /\ 1 <= m[2] /\ m[2] <= row[m[1]].attempt
    BY Zenon DEF HandInv, ProcTypes
  <2> QED BY <1>5, <2>1, Zenon
<1>13. \A s, u \in Pollers : HeldOf(th'[s]) \cap HeldOf(th'[u]) # {} => s = u
  BY <1>8, Zenon
<1> QED BY <1>7, <1>10, <1>11, <1>12, <1>13, Zenon DEF HandInv, holds_lease, HoldsNext

LEMMA IdGrant ==
  ASSUME IdInv, NEW r, NEW j \in Jobs, Granted(r, j), r.id < next_id, next_id' = next_id,
         late' \subseteq late, th'[Main].rep = th[Main].rep, worker_id' = worker_id,
         left' = left, lost => lost',
         th[Main].rep # None => r.id # th[Main].rep.id
  PROVE  IdInv'
<1>1. \A k \in Jobs : running'[k] # None => running'[k].owner < next_id'
  BY Zenon DEF IdInv, Granted
<1>2. \A q \in late' : q.kind = "claim" => q.id < next_id' /\ lost'
  BY Zenon DEF IdInv
<1>3. ASSUME NEW i, th'[Main].rep # None, i = th'[Main].rep.id
      PROVE  /\ i < next_id' /\ i \notin left'
             /\ \A k \in Jobs : running'[k] # None => running'[k].owner # i
             /\ \A q \in late' : q.kind = "claim" => q.id # i
  <2>1. FreshId(i) /\ r.id # i
    BY <1>3, Zenon DEF IdInv
  <2>2. \A k \in Jobs : running'[k] # None => running'[k].owner # i
    BY <2>1, Zenon DEF FreshId, Granted
  <2> QED BY <2>1, <2>2, Zenon DEF FreshId
<1>4. /\ \A i \in left' : i < next_id'
      /\ worker_id' # None => worker_id' < next_id' /\ worker_id' \notin left'
  BY Zenon DEF IdInv
<1> QED BY <1>1, <1>2, <1>3, <1>4, Zenon DEF IdInv, FreshId

(* The registration of the process: its id is new. *)
LEMMA IdServed ==
  ASSUME CoordTypes, CoordTypes', ProcTypes, ProcTypes', IdInv, Kept, lost => lost',
         next_id' = next_id + 1, NEW a, a.id = next_id, th'[Main].rep = a,
         worker_id' = worker_id, left' = left, late' = late
  PROVE  IdInv'
<1>0. next_id \in Nat /\ next_id < next_id + 1
  BY NatFacts, Zenon DEF CoordTypes
<1>1. \A i \in Nat : i < next_id => i < next_id' /\ i # next_id
  BY <1>0, NatFacts, Zenon
<1>2. ASSUME NEW r \in late, r.kind = "claim"
      PROVE  r.id < next_id' /\ lost' /\ r.id # next_id
  <2>1. r.id \in Nat
    BY <1>2, RequestFacts, Zenon DEF ProcTypes
  <2>2. r.id < next_id /\ lost'
    BY <1>2, Zenon DEF IdInv
  <2> QED BY <1>1, <2>1, <2>2, Zenon
<1>3. ASSUME NEW j \in Jobs, running'[j] # None
      PROVE  running'[j].owner < next_id' /\ running'[j].owner # next_id
  <2>1. running[j] # None /\ running'[j].owner = running[j].owner
    BY <1>3, Zenon DEF Kept
  <2>2. running[j].owner \in Nat
    BY <2>1, RowTypes, Zenon
  <2>3. running[j].owner < next_id
    BY <2>1, Zenon DEF IdInv
  <2> QED BY <1>1, <2>1, <2>2, <2>3, Zenon
<1>4. ASSUME NEW i \in left
      PROVE  i < next_id' /\ i # next_id
  <2>1. i \in Nat /\ i < next_id
    BY Zenon DEF IdInv, ProcTypes
  <2> QED BY <1>1, <2>1, Zenon
<1>5. worker_id' # None => worker_id' < next_id' /\ worker_id' \notin left'
  BY <1>1, Zenon DEF IdInv, ProcTypes
<1>6. next_id < next_id'
  BY <1>0, Zenon
<1> QED BY <1>2, <1>3, <1>4, <1>5, <1>6, Zenon DEF IdInv, FreshId

LEMMA ServeInv ==
  ASSUME RemoteInv, NEW t \in Threads, serve(t)
  PROVE  RemoteInv'
<1> DEFINE x == th[t]
<1>1. /\ CoordTypes /\ ProcTypes /\ ProcessShape /\ RowInv /\ HandInv /\ ActiveInv /\ IdInv
      /\ LeaseIsHeld /\ StopLeavesNoLease /\ restarts \in Nat
  BY InvParts, Zenon
<1>2. PICK r : r = x.req
  BY Zenon
<1>3. PICK a : Answer(r, a) /\ th' = [th EXCEPT ![t].rep = a]
  BY <1>2, Zenon DEF serve
<1> DEFINE y == [x EXCEPT !.rep = a]
<1>0. /\ x.pc = "wait" /\ x.rep = None /\ th' = [th EXCEPT ![t] = y]
      /\ late' = late /\ executed' = executed /\ left' = left
      /\ worker_id' = worker_id /\ stopping' = stopping /\ active' = active
      /\ restarts' = restarts
  BY <1>3, Zenon DEF serve, process, bounds
<1>01. UNCHANGED <<worker_id, stopping, late, left, lost, bounds>>
  BY Zenon DEF serve, process
<1>02. lost => lost'
  <2>1. lost' = lost
    BY <1>01, Zenon
  <2> QED BY <2>1
<1>4. /\ x \in ThreadStates /\ r \in Requests
      /\ t = Main => r.kind = "register"
      /\ t # Main => /\ LoopShape(t, x, worker_id)
                     /\ worker_id # None /\ r.id = worker_id /\ th[Main].rep = None
      /\ t = Heart => r.kind = "heartbeat"
      /\ t \in Pollers => r.kind \in {"claim", "complete"}
  BY <1>0, <1>1, <1>2, WaitFacts, Zenon
<1>5. /\ CoordTypes' /\ RowInv' /\ Matches(r, a)
      /\ Plain(r, a) \/ \E j \in Jobs : Grant(r, a, j)
  BY <1>0, <1>1, <1>3, <1>4, AnswerStep, Zenon
<1>6. /\ y \in ThreadStates
      /\ y.pc = x.pc /\ y.req = x.req /\ y.rep = a /\ y.lease = x.lease /\ a # None
  BY <1>4, <1>5, RepSet, ReplyFacts, Zenon DEF Matches
<1> HIDE DEF y
<1>7. /\ th' \in [Threads -> ThreadStates] /\ th'[t] = y
      /\ \A u \in Threads : u # t => th'[u] = th[u]
  BY <1>0, <1>1, <1>6, ThreadStep, Zenon DEF ProcTypes
<1>8. ProcTypes'
  <2>1. active' \in [Jobs -> Pollers \cup {None}] /\ executed' \subseteq Leases
    BY <1>0, <1>1, Zenon DEF ProcTypes
  <2> QED BY <1>01, <1>1, <1>7, <2>1, ProcSame, Zenon
<1>9. ProcessShape'
  <2>1. Readable(y)
    BY <1>0, <1>2, <1>5, <1>6, Zenon DEF Readable, Matches
  <2>2. t # Main => LoopShape(t, y, worker_id)
    BY <1>4, <1>6, Zenon DEF LoopShape
  <2>3. \A u \in Threads : Readable(th'[u])
    BY <1>1, <1>7, <2>1, Zenon DEF ProcessShape
  <2>4. \A u \in Threads \ {Main} : LoopShape(u, th'[u], worker_id)
    BY <1>1, <1>7, <2>2, Zenon DEF ProcessShape
  <2>5. th'[Main].pc = th[Main].pc /\ th'[Main].req = th[Main].req
    BY <1>6, <1>7, Constants, Zenon
  <2> QED BY <1>0, <1>1, <2>3, <2>4, <2>5, Zenon DEF ProcessShape
<1>10. \A u \in Pollers : Steady(th[u], th'[u])
  <2>1. Steady(x, y)
    BY <1>0, Zenon DEF Steady
  <2> QED BY <1>7, <2>1, SameThread, Constants, Zenon
<1>11. ActiveInv'
  BY <1>0, <1>1, <1>10, ActiveSteady, Zenon
<1>12. Carries(x, y)
  BY <1>0, <1>6, Zenon DEF Carries, HandOf
<1>13. \A u \in Pollers : Carries(th[u], th'[u])
  BY <1>7, <1>12, SameThread, Constants, Zenon
<1>14. CASE Plain(r, a)
  <2>1. /\ Kept
        /\ r.kind = "claim" => a.leases = {}
        /\ r.kind = "complete" => ~ HoldsNext(r)
        /\ r.kind = "register" => a.id = next_id /\ next_id' = next_id + 1
        /\ next_id' = next_id \/ next_id' = next_id + 1
    BY <1>14, Zenon DEF Plain
  <2>2. \A u \in Pollers : Quiet(th[u], th'[u])
    <3>1. ASSUME t \in Pollers
          PROVE  Quiet(x, y)
      <4>1. r.kind = "claim" \/ r.kind = "complete"
        BY <1>4, <3>1, Zenon
      <4>2. r.kind = "complete" => a.kind = "complete"
        BY <1>5, Zenon DEF Matches
      <4>3. HeldOf(y) = {}
        BY <1>0, <1>6, <2>1, <4>1, <4>2, Zenon DEF HeldOf
      <4>4. Reports(y) => Reports(x) /\ y.req = x.req
        BY <1>6, Zenon DEF Reports
      <4>5. Answered(y) => ~ HoldsNext(y.req)
        BY <1>2, <1>6, <2>1, Zenon DEF Answered, Reports
      <4> QED BY <4>3, <4>4, <4>5, Zenon DEF Quiet
    <3> QED BY <1>7, <3>1, SameThread, Constants, Zenon
  <2>3. LeaseIsHeld'
    BY <1>0, <1>02, <1>1, <1>13, <2>1, HeldKept, Zenon
  <2>4. \A l \in executed' : l \in executed \/ \E u \in Pollers : l \in HeldOf(th[u])
    BY <1>0, Zenon
  <2>5. CASE t # Main
    <3>1. th'[Main].rep # None => th'[Main].rep = th[Main].rep
      BY <1>7, <2>5, Constants, Zenon
    <3>2. \A q \in late' : q.kind = "claim" => \/ q \in late
                                               \/ th'[Main].rep = None /\ q.id < next_id /\ lost'
      BY <1>0, Zenon
    <3> QED BY <1>0, <1>02, <1>5, <1>8, <1>9, <1>11, <2>1, <2>2, <2>3, <2>4, <3>1, <3>2,
               QuietStep, Zenon
  <2>6. CASE t = Main
    <3>1. HandInv'
      BY <1>1, <2>1, <2>2, <2>4, HandQuiet, Zenon
    <3>2. StopLeavesNoLease'
      BY <1>0, <1>02, <1>1, <2>1, StopKept, Zenon
    <3>3. a.id = next_id /\ next_id' = next_id + 1 /\ th'[Main].rep = a
      BY <1>4, <1>6, <1>7, <2>1, <2>6, Zenon
    <3>4. IdInv'
      BY <1>0, <1>02, <1>1, <1>5, <1>8, <2>1, <3>3, IdServed, Zenon
    <3> QED BY <1>5, <1>8, <1>9, <1>11, <2>3, <3>1, <3>2, <3>4, InvMade, Zenon
  <2> QED BY <2>5, <2>6, Zenon
<1>15. ASSUME NEW j \in Jobs, Grant(r, a, j)
       PROVE  RemoteInv'
  <2> DEFINE n == row[j].attempt + 1
  <2>1. /\ Granted(r, j) /\ r.kind = "claim" /\ a.leases = {<<j, n>>} /\ next_id' = next_id
    BY <1>15, Zenon DEF Grant
  <2>2. t \in Pollers /\ t # Main
    BY <1>4, <2>1, Constants, Zenon
  <2>3. a.kind = "jobs"
    BY <1>5, <2>1, Zenon DEF Matches
  <2>4. HeldOf(y) = {<<j, n>>} /\ ~ Reports(y)
    BY <1>0, <1>2, <1>6, <2>1, <2>3, Zenon DEF HeldOf, Reports
  <2>5. HandInv'
    <3>1. \A u \in Pollers : u # t => th'[u] = th[u]
      BY <1>7, Constants, Zenon
    <3>2. HeldOf(th'[t]) = {<<j, row[j].attempt + 1>>} /\ ~ Reports(th'[t])
      BY <1>7, <2>4, Zenon
    <3> QED BY <1>0, <1>1, <1>5, <2>1, <3>1, <3>2, HandGrant, Zenon
  <2>6. worker_id < next_id /\ worker_id \notin left /\ r.id = worker_id /\ th[Main].rep = None
    BY <1>1, <1>4, <2>2, Zenon DEF IdInv
  <2>7. IdInv'
    <3>1. th'[Main].rep = th[Main].rep
      BY <1>7, <2>2, Constants, Zenon
    <3> QED BY <1>0, <1>02, <1>1, <2>1, <2>6, <3>1, IdGrant, Zenon
  <2>8. LeaseIsHeld'
    <3>1. ASSUME NEW k \in Jobs, running'[k] # None, running'[k].owner = worker_id', ~ lost'
          PROVE  \E u \in Pollers : HandOf(th'[u], <<k, running'[k].attempt>>)
      <4>1. CASE k = j
        <5>1. running'[k].attempt = n
          BY <2>1, <4>1, Zenon DEF Granted
        <5>2. HandOf(y, <<j, n>>)
          BY <1>6, <2>1, <2>3, Zenon DEF HandOf
        <5> QED BY <1>7, <2>2, <4>1, <5>1, <5>2, Zenon
      <4>2. CASE k # j
        <5>1. running'[k] = running[k]
          BY <2>1, <4>2, Zenon DEF Granted
        <5>2. \E u \in Pollers : HandOf(th[u], <<k, running[k].attempt>>)
          BY <1>0, <1>02, <1>1, <3>1, <5>1, HandOfIsInHand, Zenon DEF LeaseIsHeld
        <5> QED BY <1>13, <5>1, <5>2, Zenon DEF Carries
      <4> QED BY <4>1, <4>2, Zenon
    <3> QED BY <3>1, HandOfIsInHandNext, Zenon DEF LeaseIsHeld
  <2>9. StopLeavesNoLease'
    <3>1. ASSUME NEW k \in Jobs, running'[k] # None, ~ lost'
          PROVE  running'[k].owner \notin left'
      <4>1. CASE k = j
        BY <1>0, <2>1, <2>6, <4>1, Zenon DEF Granted
      <4>2. CASE k # j
        <5>1. running'[k] = running[k]
          BY <2>1, <4>2, Zenon DEF Granted
        <5> QED BY <1>0, <1>02, <1>1, <3>1, <5>1, Zenon DEF StopLeavesNoLease
      <4> QED BY <4>1, <4>2, Zenon
    <3> QED BY <3>1, Zenon DEF StopLeavesNoLease
  <2> QED BY <1>5, <1>8, <1>9, <1>11, <2>5, <2>7, <2>8, <2>9, InvMade, Zenon
<1> QED BY <1>5, <1>14, <1>15, Zenon

LEMMA LateInv ==
  ASSUME RemoteInv, NEW r, serve_late(r)
  PROVE  RemoteInv'
<1>1. /\ CoordTypes /\ ProcTypes /\ ProcessShape /\ RowInv /\ HandInv /\ ActiveInv /\ IdInv
      /\ LeaseIsHeld /\ StopLeavesNoLease /\ restarts \in Nat
  BY InvParts, Zenon
<1>0. /\ r \in late /\ late' = late \ {r} /\ th' = th
      /\ executed' = executed /\ left' = left
      /\ worker_id' = worker_id /\ stopping' = stopping /\ active' = active
      /\ starts' = starts /\ faults' = faults /\ restarts' = restarts /\ crashes' = crashes
  BY Zenon DEF serve_late, process, bounds
<1>01. UNCHANGED <<process, th, executed, left, lost, bounds>>
  BY Zenon DEF serve_late
<1>02. (lost => lost') /\ lost' = lost
  <2>1. lost' = lost
    BY <1>01, Zenon
  <2> QED BY <2>1
<1>2. PICK a : Answer(r, a)
  BY Zenon DEF serve_late
<1>3. r \in Requests
  BY <1>0, <1>1, Zenon DEF ProcTypes
<1>4. /\ CoordTypes' /\ RowInv'
      /\ Plain(r, a) \/ \E j \in Jobs : Grant(r, a, j)
  BY <1>0, <1>1, <1>2, <1>3, AnswerStep, Zenon
<1>5. late' \subseteq late
  BY <1>0, Zenon
<1>6. CASE Plain(r, a)
  BY <1>01, <1>4, <1>5, <1>6, CoordOnly, Zenon DEF Plain
<1>7. ASSUME NEW j \in Jobs, Grant(r, a, j)
      PROVE  RemoteInv'
  <2>1. Granted(r, j) /\ r.kind = "claim" /\ next_id' = next_id
    BY <1>7, Zenon DEF Grant
  <2>2. lost' /\ r.id < next_id
    BY <1>0, <1>02, <1>1, <2>1, Zenon DEF IdInv
  <2>3. th[Main].rep # None => r.id # th[Main].rep.id
    BY <1>0, <1>1, <2>1, Zenon DEF IdInv, FreshId
  <2>4. HandInv'
    <3>1. /\ Main \notin Pollers
          /\ \A u \in Pollers : u # Main => th'[u] = th[u]
      BY <1>0, Constants, Zenon
    <3> QED BY <1>0, <1>1, <1>4, <2>1, <3>1, HandGrant, Zenon
  <2>5. IdInv'
    BY <1>0, <1>02, <1>1, <1>5, <2>1, <2>2, <2>3, IdGrant, Zenon
  <2>6. LeaseIsHeld' /\ StopLeavesNoLease'
    BY <2>2, Zenon DEF LeaseIsHeld, StopLeavesNoLease
  <2>7. ProcTypes'
    <3>1. {starts', faults', restarts', crashes'} \subseteq Nat
      BY <1>0, <1>1, Zenon DEF ProcTypes
    <3>2. active' \in [Jobs -> Pollers \cup {None}] /\ late' \subseteq Requests
      BY <1>0, <1>1, <1>5, Zenon DEF ProcTypes
    <3>3. executed' \subseteq Leases /\ left' \subseteq Nat /\ worker_id' \in Nat \cup {None}
      BY <1>0, <1>1, Zenon DEF ProcTypes
    <3>4. lost' \in BOOLEAN /\ stopping' \in BOOLEAN /\ th' \in [Threads -> ThreadStates]
      BY <1>0, <1>02, <1>1, Zenon DEF ProcTypes
    <3> QED BY <3>1, <3>2, <3>3, <3>4, Zenon DEF ProcTypes
  <2>8. ProcessShape' /\ ActiveInv'
    BY <1>0, <1>1, Zenon DEF ProcessShape, ActiveInv
  <2> QED BY <1>4, <2>4, <2>5, <2>6, <2>7, <2>8, InvMade, Zenon
<1> QED BY <1>4, <1>6, <1>7, Zenon

-----------------------------------------------------------------------------
(* The specification *)

LEMMA OffSet ==
  /\ Off \in ThreadStates
  /\ Off.pc = "off" /\ Off.rep = None
BY DEF Off, ThreadStates

LEMMA InitTypes == Init => CoordTypes /\ ProcTypes
<1> SUFFICES ASSUME Init
             PROVE  CoordTypes /\ ProcTypes
  OBVIOUS
<1>1. row \in [Jobs -> Rows]
  BY DEF Init, Rows, JobStates
<1>2. next_id \in Nat \ {0} /\ remote_workers \subseteq 1 .. next_id - 1
  BY DEF Init
<1>3. CoordTypes
  BY <1>1, <1>2, Zenon DEF Init, CoordTypes
<1>4. {starts, faults, restarts, crashes} \subseteq Nat
  BY DEF Init
<1>5. th \in [Threads -> ThreadStates] /\ active \in [Jobs -> Pollers \cup {None}]
  BY OffSet, Zenon DEF Init
<1>6. ProcTypes
  BY <1>4, <1>5, Zenon DEF Init, ProcTypes
<1> QED BY <1>3, <1>6

LEMMA InitInv == Init => RemoteInv
<1> SUFFICES ASSUME Init
             PROVE  RemoteInv
  OBVIOUS
<1>1. Types
  BY InitTypes, TypesSplit, Zenon
<1>2. \A t \in Threads : th[t] = Off
  BY Zenon DEF Init
<1>3. \A t \in Threads : HeldOf(th[t]) = {} /\ ~ Reports(th[t]) /\ ~ Answered(th[t])
  BY <1>2, OffSet, Zenon DEF HeldOf, Reports, Answered
<1>4. ProcessShape
  <2>1. \A t \in Threads : Readable(th[t]) /\ LoopShape(t, th[t], worker_id)
    BY <1>2, OffSet, Zenon DEF Readable, LoopShape
  <2>2. th[Main].pc = "off" /\ worker_id = None
    BY <1>2, OffSet, Constants, Zenon DEF Init
  <2> QED BY <2>1, <2>2, Zenon DEF ProcessShape
<1>5. RowInv
  <2>1. ASSUME NEW j \in Jobs
        PROVE  RowOk(j)
    <3>1. row[j].attempt = 0 /\ row[j].state = "QUEUED" /\ running[j] = None /\ restarts = 0
      BY DEF Init
    <3>2. 0 <= MaxAttempts + 0 /\ 0 < MaxAttempts + 0
      BY RemoteAssumption
    <3> QED BY <3>1, <3>2, Zenon DEF RowOk
  <2> QED BY <2>1, Zenon DEF RowInv
<1>6. HandInv
  BY <1>3, Constants, Zenon DEF HandInv, Init
<1>7. ActiveInv /\ LeaseIsHeld /\ StopLeavesNoLease
  BY Zenon DEF ActiveInv, LeaseIsHeld, StopLeavesNoLease, Init
<1>8. IdInv
  <2>1. th[Main].rep = None
    BY <1>2, OffSet, Constants, Zenon
  <2> QED BY <2>1, Zenon DEF IdInv, Init
<1> QED BY <1>1, <1>4, <1>5, <1>6, <1>7, <1>8, Zenon DEF RemoteInv, TypeOK

LEMMA NextInv == RemoteInv /\ [Next]_vars => RemoteInv'
<1> SUFFICES ASSUME RemoteInv, [Next]_vars
             PROVE  RemoteInv'
  OBVIOUS
<1>1. ASSUME NEW t \in Threads, serve(t) \/ http_resend(t) \/ http_error(t)
      PROVE  RemoteInv'
  BY <1>1, ServeInv, ResendInv, ErrorInv, Zenon
<1>2. ASSUME NEW r \in late, serve_late(r)
      PROVE  RemoteInv'
  BY <1>2, LateInv, Zenon
<1>3. ASSUME NEW j \in Jobs, cancel(j) \/ deadline(j) \/ expire(j)
      PROVE  RemoteInv'
  BY <1>3, CancelInv, Zenon
<1>4. ASSUME NEW down \in SUBSET Threads, restart(down)
      PROVE  RemoteInv'
  BY <1>4, RestartInv, Zenon
<1>5. CASE start \/ registered \/ stop \/ stopped \/ crash
  BY <1>5, StartInv, RegisteredInv, StopInv, StoppedInv, CrashInv, Zenon
<1>6. ASSUME NEW t \in Pollers, claimed(t) \/ reported(t)
      PROVE  RemoteInv'
  BY <1>6, ClaimedInv, ReportedInv, Zenon
<1>7. ASSUME NEW t \in Pollers, NEW o \in {"SUCCEEDED", "FAILED", "threw"}, ran(t, o)
      PROVE  RemoteInv'
  BY <1>7, RanInv, Zenon
<1>8. ASSUME NEW overdue \in SUBSET Jobs, heartbeat_answer(overdue)
      PROVE  RemoteInv'
  BY <1>8, HeartbeatInv, Zenon
<1>9. CASE UNCHANGED vars
  <2>1. /\ CoordTypes /\ RowInv
        /\ UNCHANGED <<row, running, remote_workers, next_id, applied>>
        /\ UNCHANGED <<process, th, executed, left, lost, bounds>>
        /\ late' = late /\ restarts' = restarts
    BY <1>9, InvParts, Zenon DEF vars, coordinator, history, bounds
  <2>2. CoordTypes' /\ RowInv'
    BY <2>1, Zenon DEF CoordTypes, RowInv, RowOk
  <2>3. Kept
    BY <2>1, Zenon DEF Kept
  <2> QED BY <2>1, <2>2, <2>3, CoordOnly, Zenon
<1> QED BY <1>1, <1>2, <1>3, <1>4, <1>5, <1>6, <1>7, <1>8, <1>9, Zenon DEF Next

(* The inductive invariant of a worker process and its coordinator. *)
THEOREM RemoteInvHolds == Spec => []RemoteInv
BY InitInv, NextInv, PTL DEF Spec

(* poll_loop and heartbeat_loop: whatever the connection resends or loses, and whatever the  *)
(* coordinator expires, grants again or forgets when it restarts, no two threads run the     *)
(* same lease, and an entry of active_ belongs to the thread that runs the job.              *)
THEOREM LeaseRunsOnceHolds == Spec => []LeaseRunsOnce
<1>1. RemoteInv => LeaseRunsOnce
  <2> SUFFICES ASSUME RemoteInv
               PROVE  LeaseRunsOnce
    OBVIOUS
  <2>1. TypeOK /\ HandInv /\ ActiveInv
    BY Zenon DEF RemoteInv
  <2>2. ASSUME NEW s \in Pollers, NEW t \in Pollers, th[s].pc = "run", th[t].pc = "run",
               th[s].lease = th[t].lease
        PROVE  s = t
    <3>1. th[s].lease \in HeldOf(th[s]) /\ th[s].lease \in HeldOf(th[t])
      BY <2>2, Zenon DEF HeldOf
    <3> QED BY <2>1, <3>1, Zenon DEF HandInv
  <2> QED BY <2>1, <2>2, Zenon DEF LeaseRunsOnce, ActiveInv
<1> QED BY <1>1, RemoteInvHolds, PTL

(* complete: a job is SUCCEEDED only by a result for the last lease it was given, whatever   *)
(* results arrive late, twice or for a lease that went elsewhere.                            *)
THEOREM SucceededByLastLeaseHolds == Spec => []SucceededByLastLease
<1>1. RemoteInv => SucceededByLastLease
  BY Zenon DEF RemoteInv, RowInv, RowOk, SucceededByLastLease
<1> QED BY <1>1, RemoteInvHolds, PTL

(* heartbeat_worker: while no answer and no result is lost, every lease that the heartbeats  *)
(* of a process keep alive is in the hand of one of its threads.                             *)
THEOREM LeaseIsHeldHolds == Spec => []LeaseIsHeld
<1>1. RemoteInv => LeaseIsHeld
  BY Zenon DEF RemoteInv
<1> QED BY <1>1, RemoteInvHolds, PTL

(* RemoteWorker::stop: while no answer and no result is lost, a process that was asked to    *)
(* stop exits only when it holds no lease, and gets none afterwards.                         *)
THEOREM StopLeavesNoLeaseHolds == Spec => []StopLeavesNoLease
<1>1. RemoteInv => StopLeavesNoLease
  BY Zenon DEF RemoteInv
<1> QED BY <1>1, RemoteInvHolds, PTL

(* claim, expire and recover: the leases of a job are numbered up to max_attempts and one     *)
(* more for each restart of the coordinator, and its handler is called under these only.     *)
THEOREM ExecutionsBoundedHolds == Spec => []ExecutionsBounded
<1>1. RemoteInv => ExecutionsBounded
  <2> SUFFICES ASSUME RemoteInv
               PROVE  ExecutionsBounded
    OBVIOUS
  <2>1. CoordTypes /\ ProcTypes /\ RowInv /\ HandInv
    BY InvParts, Zenon
  <2>2. \A j \in Jobs : row[j].attempt \in Nat /\ row[j].attempt <= MaxAttempts + restarts
    BY <2>1, RowTypes, Zenon DEF RowInv, RowOk
  <2>3. ASSUME NEW l \in executed
        PROVE  l[2] \in 1 .. row[l[1]].attempt
    <3>1. l \in Leases /\ 1 <= l[2] /\ l[2] <= row[l[1]].attempt
      BY <2>1, Zenon DEF ProcTypes, HandInv
    <3>2. \A k \in Leases : k[1] \in Jobs /\ k[2] \in Nat
      BY DEF Leases
    <3>3. \A m, n \in Nat : 1 <= m /\ m <= n => m \in 1 .. n
      OBVIOUS
    <3> QED BY <2>2, <3>1, <3>2, <3>3, Zenon
  <2> QED BY <2>2, <2>3, Zenon DEF ExecutionsBounded
<1> QED BY <1>1, RemoteInvHolds, PTL
=============================================================================
