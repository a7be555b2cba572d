---------------------------- MODULE JobStoreTable ---------------------------
(* Writes under way are ordered by their versions between the disk, the batch, *)
(* the buffers and the cache.  So reads are never stale, a row on disk follows *)
(* the record of its attempt, and the store implements WriteBehindTable.       *)
EXTENDS JobStoreProofs

-----------------------------------------------------------------------------
(* Calls *)

LEMMA InsertTable ==
  ASSUME TypeOK, DurabilityInv, TableInv, NEW t \in Threads, NEW i \in Ids, insert_job(t, i)
  PROVE  /\ TableInv' /\ \E e \in Buffered : Adds(e) /\ e.id = i /\ e.row.att = 0
         /\ \A j \in Ids : Table'[j] >= Table[j]
<1> DEFINE e == Entry(i, version_counter + 1, 0, insert_seq + 1)
<1>1. version_counter \in Nat /\ insert_seq \in Nat
  BY Zenon DEF TypeOK
<1>2. /\ th[t].pc = "idle" /\ Visible(i) = NoRow
      /\ version_counter' = version_counter + 1 /\ insert_seq' = insert_seq + 1
      /\ pending_inserts' = Append(pending_inserts, e)
      /\ cache' = Cached(i, [version |-> version_counter + 1, att |-> 0])
      /\ th' = [th EXCEPT ![t] = [Idle EXCEPT !.pc = "insert", !.id = i, !.seq = insert_seq + 1]]
      /\ UNCHANGED <<db, db_attempts, pending_updates, flusher, last_flush_error, late>>
  BY Zenon DEF insert_job
<1>3. /\ e \in Buffered /\ e.id = i /\ e.row = [version |-> version_counter + 1, att |-> 0]
      /\ e.seq = insert_seq + 1 /\ e.row.version = version_counter + 1 /\ e.row.att = 0
  BY <1>1 DEF Entry, Buffered, Row
<1> HIDE DEF e
<1>4. Adds(e)
  BY <1>2, <1>3, Zenon DEF Adds
<1>5. /\ th'[t].pc = "insert" /\ th'[t].seq = insert_seq + 1
      /\ \A u \in Threads : u # t => th'[u] = th[u]
  BY <1>2, Zenon DEF TypeOK, Idle
<1>6. WaiterInv'
  <2>1. pending_inserts \in Seq(Buffered)
    BY Zenon DEF TypeOK
  <2>2. Items(pending_inserts)' = Items(pending_inserts) \cup {e}
    <3>1. Items(Append(pending_inserts, e)) = Items(pending_inserts) \cup {e}
      BY <1>3, <2>1, ItemsAppend
    <3> QED BY <1>2, <3>1, Zenon DEF Items
  <2>3. ASSUME NEW f \in Items(pending_inserts)
        PROVE  \E u \in Threads : th'[u].pc = "insert" /\ th'[u].seq = f.seq
    <3>1. PICK u \in Threads : th[u].pc = "insert" /\ th[u].seq = f.seq
      BY Zenon DEF TableInv, WaiterInv
    <3>2. u # t
      BY <1>2, <3>1, Zenon
    <3> QED BY <1>5, <3>1, <3>2, Zenon
  <2>4. \E u \in Threads : th'[u].pc = "insert" /\ th'[u].seq = e.seq
    BY <1>3, <1>5, Zenon
  <2> QED BY <2>2, <2>3, <2>4, Zenon DEF WaiterInv
<1>7. Updating' = Updating
  BY <1>2, Zenon DEF Updating, Items
<1>8. \A u \in Threads : th'[u].pc \in {"recorded", "update"} => th'[u] = th[u]
  BY <1>5, Zenon
<1>9. CallInv /\ VersionInv /\ CacheInv
  BY Zenon DEF DurabilityInv, TableInv
<1>10. TableInv'
  BY <1>2, <1>3, <1>4, <1>6, <1>7, <1>8, <1>9, AddsTable, Zenon
<1>11. \A j \in Ids : Table'[j] >= Table[j]
  BY <1>3, <1>4, <1>9, AddsVisible, Zenon
<1> QED BY <1>3, <1>4, <1>10, <1>11, Zenon

LEMMA UpdateTable ==
  ASSUME TypeOK, DurabilityInv, TableInv, NEW t \in Threads, NEW i \in Ids, NEW att \in Nat,
         update_job(t, i, att)
  PROVE  /\ TableInv' /\ \E e \in Buffered : Adds(e) /\ e.id = i /\ e.row.att = att
         /\ \A j \in Ids : Table'[j] >= Table[j]
<1> DEFINE e == Entry(i, version_counter + 1, att, 0)
<1>1. version_counter \in Nat
  BY Zenon DEF TypeOK
<1>2. /\ version_counter' = version_counter + 1
      /\ pending_updates' = Append(pending_updates, e)
      /\ cache' = Cached(i, [version |-> version_counter + 1, att |-> att])
      /\ th' = [th EXCEPT ![t] = Idle]
      /\ UNCHANGED <<db, db_attempts, pending_inserts, flusher, last_flush_error, late>>
      /\ \/ th[t].pc = "idle" /\ Visible(i) # NoRow
         \/ th[t].pc \in {"recorded", "update"} /\ i = th[t].id
  BY Zenon DEF update_job
<1>3. /\ e \in Buffered /\ e.id = i /\ e.row = [version |-> version_counter + 1, att |-> att]
      /\ e.row.version = version_counter + 1 /\ e.row.att = att
  BY <1>1 DEF Entry, Buffered, Row
<1> HIDE DEF e
<1>4. Adds(e)
  BY <1>2, <1>3, Zenon DEF Adds
<1>5. th'[t].pc = "idle" /\ \A u \in Threads : u # t => th'[u] = th[u]
  BY <1>2, Zenon DEF TypeOK, Idle
<1>6. WaiterInv'
  <2>1. ASSUME NEW f \in Items(pending_inserts)
        PROVE  \E u \in Threads : th'[u].pc = "insert" /\ th'[u].seq = f.seq
    <3>1. PICK u \in Threads : th[u].pc = "insert" /\ th[u].seq = f.seq
      BY Zenon DEF TableInv, WaiterInv
    <3>2. u # t
      BY <1>2, <3>1, Zenon
    <3> QED BY <1>5, <3>1, <3>2, Zenon
  <2>2. Items(pending_inserts)' = Items(pending_inserts)
    BY <1>2, Zenon DEF Items
  <2> QED BY <2>1, <2>2, Zenon DEF WaiterInv
<1>7. \A u \in Threads : th'[u].pc \in {"recorded", "update"} => th'[u] = th[u]
  BY <1>5, Zenon
<1>8. CallInv /\ VersionInv /\ CacheInv /\ ExistInv
  BY Zenon DEF DurabilityInv, TableInv
<1>9. last_flush_error \/ Visible(e.id) # NoRow
  BY <1>2, <1>3, <1>8, Zenon DEF ExistInv
<1>10. TableInv'
  BY <1>2, <1>3, <1>4, <1>6, <1>7, <1>8, <1>9, AddsTable, Zenon
<1>11. \A j \in Ids : Table'[j] >= Table[j]
  BY <1>3, <1>4, <1>8, AddsVisible, Zenon
<1> QED BY <1>3, <1>4, <1>10, <1>11, Zenon

\* The calls that write no row.
Quiet(t) ==
  \/ insert_return(t) \/ flush(t) \/ Reader(t) \/ select(t) \/ list_begin(t)
  \/ \E i \in Ids : append_attempt(t, i) \/ get_job(t, i)
  \/ \E i \in Ids, att \in Nat : update_job_full(t, i, att)

LEMMA QuietMoves ==
  ASSUME TypeOK, NEW t \in Threads, Quiet(t)
  PROVE  /\ UNCHANGED <<db, db_attempts, pending_inserts, pending_updates, cache, flusher,
                        last_flush_error, late>>
         /\ \A u \in Threads : u # t => th'[u] = th[u]
         /\ version_counter' \in Nat /\ version_counter <= version_counter'
         /\ th'[t].pc # "insert"
<1>1. version_counter \in Nat /\ th \in [Threads -> Thread]
  BY Zenon DEF TypeOK
<1>2. th[t].pc \in Pcs /\ \A p \in Pcs : [th[t] EXCEPT !.pc = p].pc = p
  BY <1>1, Zenon DEF Thread
<1>3. CASE insert_return(t) \/ select(t)
  BY <1>1, <1>3 DEF insert_return, select, buffers, counters, Idle
<1>4. CASE flush(t) \/ Reader(t)
  <2>1. PICK p \in {"list", "select"} : th' = [th EXCEPT ![t].pc = p]
    BY <1>4, Zenon DEF flush, Reader
  <2>2. th'[t].pc = p /\ \A u \in Threads : u # t => th'[u] = th[u]
    BY <1>1, <2>1, Zenon DEF Thread
  <2> QED BY <1>1, <1>4, <2>1, <2>2, SMTT(30) DEF flush, Reader, buffers, counters
<1>5. CASE list_begin(t)
  BY <1>1, <1>5 DEF list_begin, buffers, counters, Idle
<1>6. CASE \E i \in Ids : append_attempt(t, i)
  BY <1>1, <1>6 DEF append_attempt, Idle
<1>7. CASE \E i \in Ids : get_job(t, i)
  BY <1>1, <1>7, SMTT(30) DEF get_job, buffers, counters, Idle
<1>8. CASE \E i \in Ids, att \in Nat : update_job_full(t, i, att)
  BY <1>1, <1>8 DEF update_job_full, buffers, counters, Idle
<1> QED BY <1>3, <1>4, <1>5, <1>6, <1>7, <1>8, Zenon DEF Quiet

LEMMA QuietTable ==
  ASSUME TypeOK, DurabilityInv, TableInv, NEW t \in Threads, Quiet(t)
  PROVE  TableInv' /\ Table' = Table
<1>1. /\ UNCHANGED <<db, db_attempts, pending_inserts, pending_updates, cache, flusher,
                     last_flush_error, late>>
      /\ \A u \in Threads : u # t => th'[u] = th[u]
      /\ version_counter' \in Nat /\ version_counter <= version_counter'
      /\ th'[t].pc # "insert"
  BY QuietMoves, Zenon
<1>2. Items(pending_inserts)' = Items(pending_inserts)
  BY <1>1, Zenon DEF Items
<1>3. \A f \in Items(pending_inserts) : ~ (th[t].pc = "insert" /\ th[t].seq = f.seq)
  <2>1. CASE insert_return(t)
    <3>1. committed_insert_seq >= th[t].seq /\ committed_insert_seq \in Nat /\ th[t].seq \in Nat
      BY <2>1, ThreadType, Zenon DEF insert_return, TypeOK
    <3>2. \A k \in 1 .. Len(pending_inserts) : committed_insert_seq < pending_inserts[k].seq
      BY Zenon DEF DurabilityInv, BufferInv, InOrder
    <3>3. \A k \in 1 .. Len(pending_inserts) : pending_inserts[k].seq \in Nat
      BY SeqNumbers, Zenon DEF TypeOK
    <3>4. \A k \in 1 .. Len(pending_inserts) : pending_inserts[k].seq # th[t].seq
      BY <3>1, <3>2, <3>3, SMTT(30)
    <3> QED BY <3>4, Zenon DEF Items
  <2>2. CASE ~ insert_return(t)
    BY <2>2, Zenon DEF Quiet, flush, Reader, select, list_begin, append_attempt, get_job, update_job_full
  <2> QED BY <2>1, <2>2, Zenon
<1>4. WaiterInv'
  <2>1. ASSUME NEW f \in Items(pending_inserts)
        PROVE  \E u \in Threads : th'[u].pc = "insert" /\ th'[u].seq = f.seq
    <3>1. PICK u \in Threads : th[u].pc = "insert" /\ th[u].seq = f.seq
      BY Zenon DEF TableInv, WaiterInv
    <3>2. u # t
      BY <1>3, <3>1, Zenon
    <3> QED BY <1>1, <3>1, <3>2, Zenon
  <2> QED BY <1>2, <2>1, Zenon DEF WaiterInv
<1>5. \A u \in Threads : (th[u].pc \in {"recorded", "update"} /\ ~ last_flush_error) =>
                           Visible(th[u].id) # NoRow
  BY Zenon DEF TableInv, ExistInv
<1>6. th'[t].pc \in {"recorded", "update"} => last_flush_error \/ Visible(th'[t].id) # NoRow
  <2>1. th \in [Threads -> Thread]
    BY Zenon DEF TypeOK
  <2>2. CASE \E i \in Ids : append_attempt(t, i)
    <3>1. PICK i \in Ids : append_attempt(t, i)
      BY <2>2, Zenon
    <3>2. th'[t].id = i
      BY <2>1, <3>1, Zenon DEF append_attempt, Idle
    <3>3. Visible(i) # NoRow
      BY <3>1, Zenon DEF append_attempt
    <3> QED BY <3>2, <3>3, Zenon
  <2>3. CASE \E i \in Ids, att \in Nat : update_job_full(t, i, att)
    <3>1. PICK i \in Ids, att \in Nat : update_job_full(t, i, att)
      BY <2>3, Zenon
    <3>2. th'[t].id = i
      BY <2>1, <3>1, Zenon DEF update_job_full, Idle
    <3>3. Visible(i) # NoRow \/ last_flush_error
      BY <1>5, <3>1, Zenon DEF update_job_full
    <3> QED BY <3>2, <3>3, Zenon
  <2>4. CASE flush(t) \/ Reader(t)
    <3>1. PICK p \in {"list", "select"} : th' = [th EXCEPT ![t].pc = p]
      BY <2>4, Zenon DEF flush, Reader
    <3>2. th'[t].pc = p
      BY <2>1, <3>1, Zenon DEF Thread
    <3> QED BY <3>2, Zenon
  <2>5. CASE insert_return(t) \/ select(t)
    BY <2>1, <2>5 DEF insert_return, select, Idle
  <2>6. CASE list_begin(t)
    BY <2>1, <2>6, Zenon DEF list_begin, Idle
  <2>7. CASE \E i \in Ids : get_job(t, i)
    BY <2>1, <2>7, Zenon DEF get_job, Idle
  <2> QED BY <2>2, <2>3, <2>4, <2>5, <2>6, <2>7, Zenon DEF Quiet
<1>7. \A u \in Threads : th'[u].pc \in {"recorded", "update"} =>
                           last_flush_error \/ Visible(th'[u].id) # NoRow
  BY <1>1, <1>5, <1>6, Zenon
<1>8. Table' = Table
  BY <1>1, Zenon DEF Table, Visible
<1> QED BY <1>1, <1>4, <1>7, <1>8, StillTable, Zenon

-----------------------------------------------------------------------------
(* The attempt records, and the steps by what they do to the buffers *)

LEMMA RecordedItems ==
  Recorded = db_attempts \cup Items(pending_attempts) \cup Items(flusher.batch.attempts)
BY Zenon DEF Recorded, Items

LEMMA RecordedNext ==
  (Recorded = db_attempts \cup Items(pending_attempts) \cup Items(flusher.batch.attempts))'
<1>1. Recorded = db_attempts \cup Items(pending_attempts) \cup Items(flusher.batch.attempts)
  BY RecordedItems, Zenon
<1> QED BY <1>1, PTL

LEMMA StoreSteps ==
  ASSUME TypeOK, CallInv, Next
  PROVE  \/ \E t \in Threads : \/ Quiet(t)
                               \/ \E i \in Ids : insert_job(t, i)
                               \/ \E i \in Ids, att \in Nat : update_job(t, i, att)
                               \/ \E S \in SUBSET Ids : insert_workflow(t, S)
         \/ flusher_take \/ commit_batch \/ commit_fails \/ flusher_retire
         \/ Reopened
<1>1. ASSUME NEW t \in Threads, Continue(t)
      PROVE  Quiet(t) \/ \E i \in Ids, att \in Nat : update_job(t, i, att)
  <2>1. th[t].att \in Nat
    BY ThreadType, Zenon
  <2>2. th[t].pc \in {"recorded", "update"} => th[t].id \in Ids
    BY Zenon DEF CallInv
  <2> QED BY <1>1, <2>1, <2>2, Zenon DEF Continue, Quiet
<1>2. ASSUME NEW t \in Threads, Call(t)
      PROVE  \/ Quiet(t)
             \/ \E i \in Ids : insert_job(t, i)
             \/ \E i \in Ids, att \in Nat : update_job(t, i, att)
             \/ \E S \in SUBSET Ids : insert_workflow(t, S)
  <2>1. 0 \in Nat
    BY Zenon
  <2> QED BY <1>2, <2>1, Zenon DEF Call, Quiet
<1>3. CASE crash \/ close
  BY <1>3, Zenon DEF crash, close
<1> QED BY <1>1, <1>2, <1>3, Zenon DEF Next, Flusher

\* No record is forgotten except by a batch that failed, and the disk grows.
LEMMA QuietRecords ==
  ASSUME TypeOK, NEW t \in Threads, Quiet(t)
  PROVE  /\ Recorded \subseteq Recorded'
         /\ \A i \in Ids : append_attempt(t, i) => version_counter' \in Recorded'
<1>1. UNCHANGED <<db_attempts, flusher>>
  BY QuietMoves, Zenon
<1>2. Items(flusher.batch.attempts)' = Items(flusher.batch.attempts)
  BY <1>1, Zenon DEF Items
<1>3. ASSUME NEW i \in Ids, append_attempt(t, i)
      PROVE  Items(pending_attempts)' = Items(pending_attempts) \cup {version_counter'}
  <2>1. pending_attempts \in Seq(Nat) /\ version_counter' \in Nat
    BY QuietMoves, Zenon DEF TypeOK
  <2>2. pending_attempts' = Append(pending_attempts, version_counter')
    BY <1>3, Zenon DEF append_attempt
  <2>3. PICK v \in Nat : v = version_counter'
    BY <2>1, Zenon
  <2>4. Items(Append(pending_attempts, v)) = Items(pending_attempts) \cup {v}
    BY <2>1, ItemsAppend
  <2> QED BY <2>2, <2>3, <2>4, Zenon DEF Items
<1>4. CASE \E i \in Ids : append_attempt(t, i)
  BY <1>1, <1>2, <1>3, <1>4, RecordedItems, RecordedNext, Zenon
<1>5. CASE ~ \E i \in Ids : append_attempt(t, i)
  <2>1. UNCHANGED pending_attempts
    BY <1>5, Zenon DEF Quiet, insert_return, flush, Reader, select, list_begin, get_job,
                       update_job_full, buffers
  <2>2. Items(pending_attempts)' = Items(pending_attempts)
    BY <2>1, Zenon DEF Items
  <2> QED BY <1>1, <1>2, <1>5, <2>2, RecordedItems, RecordedNext, Zenon
<1> QED BY <1>4, <1>5, Zenon

LEMMA StillRecorded ==
  ASSUME UNCHANGED <<db_attempts, pending_attempts, flusher>>
  PROVE  Recorded' = Recorded
BY Zenon DEF Recorded

LEMMA TakeRecords ==
  ASSUME TypeOK, TableInv, flusher_take
  PROVE  /\ Recorded' = Recorded
         /\ Items(flusher.batch.attempts) = {}
         /\ Items(flusher.batch.attempts)' = Items(Prefix(pending_attempts))
         /\ Items(pending_attempts) = Items(Prefix(pending_attempts)) \cup Items(Rest(pending_attempts))
         /\ late' = late \cup Items(Rest(pending_attempts))
<1>1. /\ flusher.pc = "wait" /\ UNCHANGED db_attempts
      /\ pending_attempts' = Rest(pending_attempts)
      /\ late' = late \cup Items(Rest(pending_attempts))
  BY Zenon DEF flusher_take, Items
<1>2. flusher'.batch.attempts = Prefix(pending_attempts)
  BY Zenon DEF flusher_take
<1>3. flusher.batch.attempts = <<>>
  BY <1>1 DEF TableInv, BatchInv, EmptyBatch
<1>4. Items(flusher.batch.attempts) = {}
  BY <1>3, ItemsEmpty, Zenon
<1>5. /\ Items(flusher.batch.attempts)' = Items(Prefix(pending_attempts))
      /\ Items(pending_attempts)' = Items(Rest(pending_attempts))
  BY <1>1, <1>2, Zenon DEF Items
<1>6. Items(pending_attempts) = Items(Prefix(pending_attempts)) \cup Items(Rest(pending_attempts))
  <2>1. pending_attempts \in Seq(Nat)
    BY Zenon DEF TypeOK
  <2> QED BY <2>1, ItemsSplit, Zenon
<1>7. Recorded' = Recorded
  BY <1>1, <1>4, <1>5, <1>6, RecordedItems, RecordedNext, Zenon
<1> QED BY <1>1, <1>4, <1>5, <1>6, <1>7, Zenon

LEMMA CommitRecords ==
  ASSUME TypeOK, commit_batch \/ commit_fails
  PROVE  /\ Recorded' = Recorded /\ db_attempts \subseteq db_attempts' /\ late \subseteq late'
         /\ Items(flusher.batch.attempts)' = Items(flusher.batch.attempts)
         /\ Items(flusher.batch.updates)' = Items(flusher.batch.updates)
         /\ commit_batch => db_attempts' = db_attempts \cup Items(flusher.batch.attempts)
<1>a. flusher \in [pc : {"wait", "commit", "retire"}, batch : Batch, ok : BOOLEAN]
  BY Zenon DEF TypeOK
<1>b. \/ flusher' = [flusher EXCEPT !.pc = "retire"]
      \/ flusher' = [flusher EXCEPT !.pc = "retire", !.ok = FALSE]
  BY Zenon DEF commit_batch, commit_fails
<1>1. flusher'.batch = flusher.batch
  BY <1>a, <1>b, Zenon
<1>2. /\ Items(flusher.batch.attempts)' = Items(flusher.batch.attempts)
      /\ Items(flusher.batch.updates)' = Items(flusher.batch.updates)
  BY <1>1, Zenon DEF Items
<1>3. Items(pending_attempts)' = Items(pending_attempts)
  BY Zenon DEF commit_batch, commit_fails, buffers, Items
<1>4. commit_batch => /\ db_attempts' = db_attempts \cup Items(flusher.batch.attempts)
                      /\ late' = late
  BY Zenon DEF commit_batch, Items
<1>5. commit_fails => /\ late' = late \cup Items(flusher.batch.attempts)
                      /\ db_attempts' = db_attempts
  BY Zenon DEF commit_fails, Items
<1>6. Recorded' = Recorded
  BY <1>2, <1>3, <1>4, <1>5, RecordedItems, RecordedNext, Zenon
<1> QED BY <1>2, <1>4, <1>5, <1>6, Zenon

LEMMA RetireRecords ==
  ASSUME TypeOK, TableInv, flusher_retire
  PROVE  /\ Recorded \cup late = Recorded' \cup late'
         /\ Items(flusher.batch.attempts)' = {} /\ Items(flusher.batch.updates)' = {}
         /\ Items(flusher.batch.attempts) \subseteq db_attempts => Recorded' = Recorded
<1>1. /\ flusher.pc = "retire" /\ flusher' = FlusherWaits
      /\ UNCHANGED <<db_attempts, pending_attempts, late>>
  BY Zenon DEF flusher_retire
<1>2. flusher'.batch.attempts = <<>> /\ flusher'.batch.updates = <<>>
  BY <1>1, Zenon DEF FlusherWaits, EmptyBatch
<1>3. Items(flusher.batch.attempts)' = {} /\ Items(flusher.batch.updates)' = {}
  BY <1>2 DEF Items
<1>4. Items(pending_attempts)' = Items(pending_attempts)
  BY <1>1, Zenon DEF Items
<1>5. Items(flusher.batch.attempts) \subseteq db_attempts \cup late
  BY <1>1, Zenon DEF TableInv, BatchInv
<1> QED BY <1>1, <1>3, <1>4, <1>5, RecordedItems, RecordedNext, Zenon

-----------------------------------------------------------------------------
(* Reads *)

Reading == {"get", "list", "select", "flush"}

LEMMA TableTypeNext == (TypeOK => Table \in [Ids -> Nat])'
<1>1. TypeOK => Table \in [Ids -> Nat]
  BY TableType, Zenon
<1> QED BY <1>1, PTL

\* A read that does not move goes on finding what it has to find.
LEMMA FreshKept ==
  ASSUME TypeOK, TypeOK', NEW u \in Threads, Fresh(u),
         \A i \in Ids : db[i].version <= db'[i].version,
         db_attempts \subseteq db_attempts',
         last_flush_error => last_flush_error',
         ~ last_flush_error' => /\ \A i \in Ids : Table'[i] >= Table[i]
                                /\ Recorded \subseteq Recorded',
         th'[u] = th[u] \/ th'[u].pc \notin Reading
  PROVE  Fresh(u)'
<1>1. CASE th'[u].pc \notin Reading
  BY <1>1, Zenon DEF Fresh, Reading
<1>2. CASE th'[u] = th[u]
  <2>1. \A i \in Ids : th[u].seen[i] \in Nat
    BY DEF TypeOK, Thread
  <2>2. \A i \in Ids : db[i].version \in Nat
    BY StoreTypes, Zenon
  <2>3. \A i \in Ids : db'[i].version \in Nat
    BY Zenon DEF TypeOK, Row
  <2>4. \A i \in Ids : Table[i] \in Nat
    BY TableType, Zenon
  <2>5. \A i \in Ids : Table'[i] \in Nat
    BY TableTypeNext, Zenon
  <2>6. \A i \in Ids : th[u].seen[i] <= db[i].version => th[u].seen[i] <= db'[i].version
    BY <2>1, <2>2, <2>3, SMTT(30)
  <2>7. \A i \in Ids : (Table'[i] >= Table[i] /\ th[u].seen[i] <= Table[i]) =>
                         th[u].seen[i] <= Table'[i]
    BY <2>1, <2>4, <2>5, SMTT(30)
  <2>8. /\ (th'[u].pc \in {"list", "select"} /\ ~ last_flush_error') =>
             (\A i \in Ids : th'[u].seen[i] <= db'[i].version) /\ th'[u].recs \subseteq db_attempts'
        /\ th'[u].pc = "get" => (\A i \in Ids : th'[u].seen[i] <= db'[i].version) /\ th'[u].recs = {}
    BY <1>2, <2>6, Zenon DEF Fresh
  <2>9. (th'[u].pc = "flush" /\ ~ last_flush_error') =>
          (\A i \in Ids : th'[u].seen[i] <= Table'[i]) /\ th'[u].recs \subseteq Recorded'
    BY <1>2, <2>7, Zenon DEF Fresh
  <2> QED BY <2>8, <2>9, Zenon DEF Fresh
<1> QED BY <1>1, <1>2, Zenon

\* With nothing buffered and nothing in the batch, the cache is empty and the disk has it all.
LEMMA FlushedTable ==
  ASSUME TypeOK, TableInv, ~ has_pending_locked, nothing_in_flight
  PROVE  (\A i \in Ids : Table[i] = db[i].version) /\ Recorded = db_attempts
<1>1. /\ pending_inserts = <<>> /\ pending_updates = <<>> /\ pending_attempts = <<>>
      /\ flusher.batch.inserts = <<>> /\ flusher.batch.updates = <<>>
      /\ flusher.batch.attempts = <<>>
  BY DEF has_pending_locked, nothing_in_flight, EmptyBatch
<1>2. Taken \cup Waiting = {}
  BY <1>1, ItemsEmpty, Zenon DEF Taken, Waiting
<1>3. DOMAIN cache = {}
  BY <1>2, Zenon DEF TableInv, CacheInv
<1>4. \A i \in Ids : Table[i] = db[i].version
  BY <1>3, Zenon DEF Table, Visible
<1>5. Recorded = db_attempts
  BY <1>1, ItemsEmpty, RecordedItems, Zenon
<1> QED BY <1>4, <1>5, Zenon

\* The step a read itself takes.
LEMMA QuietFresh ==
  ASSUME TypeOK, TypeOK', TableInv, NEW t \in Threads, Fresh(t), Quiet(t)
  PROVE  Fresh(t)'
<1>1. th \in [Threads -> Thread] /\ th[t] \in Thread
  BY Zenon DEF TypeOK
<1>2. UNCHANGED <<db, db_attempts, cache, flusher, last_flush_error>>
  BY QuietMoves, Zenon
<1>3. Table' = Table
  BY <1>2, Zenon DEF Table, Visible
<1>4. Recorded \subseteq Recorded'
  BY QuietRecords, Zenon
<1>5. CASE insert_return(t) \/ select(t)
  <2>1. th'[t].pc = "idle"
    BY <1>1, <1>5, SMTT(30) DEF insert_return, select, Idle
  <2> QED BY <2>1, Zenon DEF Fresh
<1>6. CASE \E i \in Ids : append_attempt(t, i)
  <2>1. th'[t].pc = "recorded"
    BY <1>1, <1>6 DEF append_attempt, Idle
  <2> QED BY <2>1, Zenon DEF Fresh
<1>7. CASE \E i \in Ids, att \in Nat : update_job_full(t, i, att)
  <2>1. th'[t].pc = "update"
    BY <1>1, <1>7 DEF update_job_full, Idle
  <2> QED BY <2>1, Zenon DEF Fresh
<1>8. CASE \E i \in Ids : get_job(t, i)
  <2>1. PICK i \in Ids : get_job(t, i)
    BY <1>8, Zenon
  <2>2. /\ th'[t].pc = "get" /\ th'[t].recs = {}
        /\ th'[t].seen = [k \in Ids |-> IF k = i THEN Table[i] ELSE 0]
    BY <1>1, <2>1, Zenon DEF get_job, Idle
  <2>3. Table[i] = db[i].version
    BY <2>1, Zenon DEF get_job, Table, Visible
  <2>4. \A k \in Ids : db[k].version \in Nat
    BY StoreTypes, Zenon
  <2>5. \A k \in Ids : th'[t].seen[k] <= db'[k].version
    BY <1>2, <2>2, <2>3, <2>4, SMTT(30)
  <2> QED BY <2>2, <2>5, Zenon DEF Fresh
<1>9. CASE list_begin(t)
  <2>1. th'[t].pc = "flush" /\ th'[t].recs = Recorded /\ th'[t].seen = Table
    BY <1>1, <1>9, Zenon DEF list_begin, Idle
  <2>2. \A k \in Ids : Table[k] <= Table[k]
    BY TableType
  <2> QED BY <1>3, <1>4, <2>1, <2>2, Zenon DEF Fresh
<1>10. CASE flush(t)
  <2>1. /\ th[t].pc = "flush" /\ th'[t].pc = "list" /\ th'[t].recs = th[t].recs
        /\ th'[t].seen = th[t].seen
    BY <1>1, <1>10, Zenon DEF flush, Thread
  <2>2. (\A i \in Ids : Table[i] = db[i].version) /\ Recorded = db_attempts
    BY <1>10, FlushedTable, Zenon DEF flush
  <2> QED BY <1>2, <2>1, <2>2, Zenon DEF Fresh
<1>11. CASE Reader(t)
  <2>1. /\ th[t].pc \in {"get", "list"} /\ th'[t].pc = "select" /\ th'[t].recs = th[t].recs
        /\ th'[t].seen = th[t].seen
    BY <1>1, <1>11, Zenon DEF Reader, Thread
  <2> QED BY <1>2, <2>1, Zenon DEF Fresh
<1> QED BY <1>5, <1>6, <1>7, <1>8, <1>9, <1>10, <1>11, Zenon DEF Quiet

LEMMA ReadNext ==
  ASSUME TypeOK, TypeOK', DurabilityInv, TableInv, ReadInv, Next
  PROVE  ReadInv'
<1>0. \A i \in Ids : db[i].version \in Nat /\ Table[i] \in Nat
  BY StoreTypes, TableType, Zenon
<1>a. \A i \in Ids : db[i].version <= db[i].version /\ Table[i] >= Table[i]
  BY <1>0
<1>b. \A u \in Threads : Fresh(u)
  BY Zenon DEF ReadInv
<1>1. ASSUME NEW t \in Threads, Quiet(t)
      PROVE  ReadInv'
  <2>1. /\ UNCHANGED <<db, db_attempts, flusher, last_flush_error>>
        /\ \A u \in Threads : u # t => th'[u] = th[u]
    BY <1>1, QuietMoves, Zenon
  <2>2. Table' = Table
    BY <1>1, QuietTable, Zenon
  <2>3. Recorded \subseteq Recorded'
    BY <1>1, QuietRecords, Zenon
  <2>4. \A u \in Threads : u # t => Fresh(u)'
    BY <1>a, <1>b, <2>1, <2>2, <2>3, FreshKept, Zenon
  <2>5. Fresh(t)'
    BY <1>1, <1>b, QuietFresh, Zenon
  <2>6. \A u \in Threads : Fresh(u)'
    BY <2>4, <2>5, Zenon
  <2>7. Items(flusher.batch.attempts)' = Items(flusher.batch.attempts)
    BY <2>1, Zenon DEF Items
  <2> QED BY <2>1, <2>6, <2>7, Zenon DEF ReadInv
<1>2. ASSUME NEW t \in Threads,
             \/ \E i \in Ids : insert_job(t, i)
             \/ \E i \in Ids, att \in Nat : update_job(t, i, att)
             \/ \E S \in SUBSET Ids : insert_workflow(t, S)
      PROVE  ReadInv'
  <2>1. UNCHANGED <<db_attempts, pending_attempts, flusher, last_flush_error>>
    BY <1>2, Zenon DEF insert_job, update_job, insert_workflow, buffers
  <2>2. /\ \A u \in Threads : u # t => th'[u] = th[u]
        /\ th'[t] = th[t] \/ th'[t].pc \notin Reading
    <3>1. th \in [Threads -> Thread]
      BY Zenon DEF TypeOK
    <3>2. CASE \E i \in Ids : insert_job(t, i)
      BY <3>1, <3>2, SMTT(30) DEF insert_job, Idle, Reading
    <3>3. CASE \E i \in Ids, att \in Nat : update_job(t, i, att)
      BY <3>1, <3>3, SMTT(30) DEF update_job, Idle, Reading
    <3>4. CASE \E S \in SUBSET Ids : insert_workflow(t, S)
      BY <3>4, Zenon DEF insert_workflow
    <3> QED BY <1>2, <3>2, <3>3, <3>4, ZenonT(60)
  <2>3. \A i \in Ids : db[i].version <= db'[i].version /\ Table'[i] >= Table[i]
    <3>1. CASE \E i \in Ids : insert_job(t, i)
      <4>1. UNCHANGED db
        BY <3>1, Zenon DEF insert_job
      <4> QED BY <1>a, <3>1, <4>1, InsertTable, Zenon
    <3>2. CASE \E i \in Ids, att \in Nat : update_job(t, i, att)
      <4>1. UNCHANGED db
        BY <3>2, Zenon DEF update_job
      <4> QED BY <1>a, <3>2, <4>1, UpdateTable, ZenonT(60)
    <3>3. ASSUME NEW S \in SUBSET Ids, insert_workflow(t, S)
          PROVE  \A i \in Ids : db[i].version <= db'[i].version /\ Table'[i] >= Table[i]
      <4>1. \A i \in Ids : \/ db'[i] = db[i] /\ Table'[i] = Table[i]
                           \/ /\ db[i] = NoRow /\ Table[i] = 0 /\ Table'[i] > 0
                              /\ db'[i].version = Table'[i] /\ db'[i].att = 0
        BY <3>3, ThroughTable, Zenon DEF DurabilityInv
      <4>2. NoRow.version = 0
        BY Zenon DEF NoRow
      <4>3. \A i \in Ids : Table'[i] \in Nat
        BY TableTypeNext, Zenon
      <4> QED BY <1>0, <4>1, <4>2, <4>3, SMTT(30)
    <3> QED BY <1>2, <3>1, <3>2, <3>3, Zenon
  <2>4. Recorded' = Recorded
    BY <2>1, StillRecorded, Zenon
  <2>5. \A u \in Threads : Fresh(u)'
    BY <1>b, <2>1, <2>2, <2>3, <2>4, FreshKept, Zenon
  <2>6. Items(flusher.batch.attempts)' = Items(flusher.batch.attempts)
    BY <2>1, Zenon DEF Items
  <2> QED BY <2>1, <2>5, <2>6, Zenon DEF ReadInv
<1>3. CASE flusher_take
  <2>1. UNCHANGED <<db, db_attempts, cache, last_flush_error, th>>
    BY <1>3, Zenon DEF flusher_take
  <2>2. flusher'.pc = "commit"
    BY <1>3, Zenon DEF flusher_take
  <2>3. Table' = Table
    BY <2>1, Zenon DEF Table, Visible
  <2>4. Recorded' = Recorded
    BY <1>3, TakeRecords, Zenon
  <2>5. \A u \in Threads : Fresh(u)'
    BY <1>a, <1>b, <2>1, <2>3, <2>4, FreshKept, Zenon
  <2> QED BY <2>2, <2>5, Zenon DEF ReadInv
<1>4. CASE commit_batch
  <2>1. UNCHANGED <<last_flush_error, th>>
    BY <1>4, Zenon DEF commit_batch
  <2>2. /\ Table' = Table
        /\ \A i \in Ids : db[i].version <= db'[i].version
    BY <1>4, CommitTable, Zenon
  <2>3. /\ Recorded' = Recorded /\ db_attempts \subseteq db_attempts'
        /\ Items(flusher.batch.attempts)' = Items(flusher.batch.attempts)
        /\ db_attempts' = db_attempts \cup Items(flusher.batch.attempts)
    BY <1>4, CommitRecords, Zenon
  <2>4. \A u \in Threads : Fresh(u)'
    BY <1>a, <1>b, <2>1, <2>2, <2>3, FreshKept, Zenon
  <2>5. Items(flusher.batch.attempts)' \subseteq db_attempts'
    BY <2>3, Zenon
  <2> QED BY <2>4, <2>5, Zenon DEF ReadInv
<1>5. CASE commit_fails
  <2>1. UNCHANGED <<db, db_attempts, cache, last_flush_error, th>>
    BY <1>5, Zenon DEF commit_fails, buffers
  <2>2. flusher'.ok = FALSE
    BY <1>5, Zenon DEF commit_fails, TypeOK
  <2>3. Table' = Table
    BY <2>1, Zenon DEF Table, Visible
  <2>4. Recorded' = Recorded
    BY <1>5, CommitRecords, Zenon
  <2>5. \A u \in Threads : Fresh(u)'
    BY <1>a, <1>b, <2>1, <2>3, <2>4, FreshKept, Zenon
  <2> QED BY <2>2, <2>5, Zenon DEF ReadInv
<1>6. CASE flusher_retire
  <2>1. /\ UNCHANGED <<db, db_attempts, th>> /\ flusher.pc = "retire"
        /\ last_flush_error' = (last_flush_error \/ ~ flusher.ok)
    BY <1>6, Zenon DEF flusher_retire
  <2>2. flusher'.pc = "wait"
    BY <1>6, Zenon DEF flusher_retire, FlusherWaits
  <2>3. ~ last_flush_error' => \A i \in Ids : Table'[i] = Table[i]
    BY <1>6, RetireTable, Zenon
  <2>4. ~ last_flush_error' => Items(flusher.batch.attempts) \subseteq db_attempts
    BY <2>1, Zenon DEF ReadInv
  <2>5. ~ last_flush_error' => Recorded' = Recorded
    BY <1>6, <2>4, RetireRecords, Zenon
  <2>6. ~ last_flush_error' => /\ \A i \in Ids : Table'[i] >= Table[i]
                               /\ Recorded \subseteq Recorded'
    BY <1>a, <2>3, <2>5, Zenon
  <2>7. \A u \in Threads : Fresh(u)'
    BY <1>a, <1>b, <2>1, <2>6, FreshKept, Zenon
  <2> QED BY <2>2, <2>7, Zenon DEF ReadInv
<1>7. CASE Reopened
  <2>1. flusher'.pc = "wait" /\ \A u \in Threads : th'[u].pc = "idle"
    BY <1>7, Zenon DEF Reopened, FlusherWaits, Idle
  <2>2. \A u \in Threads : Fresh(u)'
    BY <2>1, Zenon DEF Fresh
  <2> QED BY <2>1, <2>2, ZenonT(60) DEF ReadInv
<1>8. CallInv
  BY Zenon DEF DurabilityInv
<1> QED BY <1>1, <1>2, <1>3, <1>4, <1>5, <1>6, <1>7, <1>8, StoreSteps, Zenon

-----------------------------------------------------------------------------
(* Attempt records and the rows that report them *)

\* A step that leaves the rows on disk, the inserts and the batch alone.
LEMMA RecordKept ==
  ASSUME RecordInv,
         \A i \in Ids : db'[i] = db[i] \/ db'[i].att = 0,
         UNCHANGED <<db_attempts, flusher, late>>, Recorded \subseteq Recorded',
         \A e \in Inserting' : e \in Inserting \/ e.row.att = 0,
         \A e \in Items(pending_updates)' : \/ e \in Items(pending_updates)
                                            \/ e.row.att \in {0} \cup Recorded \cup late,
         \A u \in Threads : th'[u].pc \in {"recorded", "update"} =>
           th'[u] = th[u] \/ th'[u].att \in {0} \cup Recorded' \cup late
  PROVE  RecordInv'
<1>1. RecordPrecedesRow'
  <2>1. \A i \in Ids : db[i].att \in {0} \cup db_attempts \cup late
    BY Zenon DEF RecordInv, RecordPrecedesRow
  <2>2. \A i \in Ids : db'[i].att \in {0} \cup db_attempts \cup late
    BY <2>1, Zenon
  <2> QED BY <2>2, Zenon DEF RecordPrecedesRow
<1>2. \A e \in Inserting' : e.row.att = 0
  BY Zenon DEF RecordInv
<1>3. /\ Items(flusher.batch.attempts)' = Items(flusher.batch.attempts)
      /\ Items(flusher.batch.updates)' = Items(flusher.batch.updates)
  BY Zenon DEF Items
<1>4. \A e \in Items(flusher.batch.updates)' :
        e.row.att \in {0} \cup db_attempts' \cup late' \cup Items(flusher.batch.attempts)'
  BY <1>3, Zenon DEF RecordInv
<1>5. \A e \in Items(pending_updates)' : e.row.att \in {0} \cup Recorded' \cup late'
  BY Zenon DEF RecordInv
<1>6. \A u \in Threads : th'[u].pc \in {"recorded", "update"} =>
                           th'[u].att \in {0} \cup Recorded' \cup late'
  BY Zenon DEF RecordInv
<1> QED BY <1>1, <1>2, <1>4, <1>5, <1>6, Zenon DEF RecordInv

LEMMA QuietRecordInv ==
  ASSUME TypeOK, RecordInv, NEW t \in Threads, Quiet(t)
  PROVE  RecordInv'
<1>1. /\ UNCHANGED <<db, db_attempts, pending_inserts, pending_updates, flusher, late>>
      /\ \A u \in Threads : u # t => th'[u] = th[u]
  BY QuietMoves, Zenon
<1>2. Recorded \subseteq Recorded'
  BY QuietRecords, Zenon
<1>3. Inserting' = Inserting /\ Items(pending_updates)' = Items(pending_updates)
  BY <1>1, Zenon DEF Inserting, Items
<1>4. th \in [Threads -> Thread]
  BY Zenon DEF TypeOK
<1>5. th'[t].pc \in {"recorded", "update"} => th'[t].att \in {0} \cup Recorded' \cup late
  <2>1. ASSUME NEW i \in Ids, append_attempt(t, i)
        PROVE  th'[t].att \in {0} \cup Recorded' \cup late
    <3>1. th'[t].att = version_counter'
      BY <1>4, <2>1, Zenon DEF append_attempt, Idle
    <3>2. version_counter' \in Recorded'
      BY <2>1, QuietRecords, Zenon
    <3> QED BY <3>1, <3>2, Zenon
  <2>2. ASSUME NEW i \in Ids, NEW att \in Nat, update_job_full(t, i, att)
        PROVE  th'[t].att \in {0} \cup Recorded' \cup late
    <3>1. th'[t].att = att
      BY <1>4, <2>2, Zenon DEF update_job_full, Idle
    <3>2. att = 0 \/ (th[t].pc = "recorded" /\ att = th[t].att)
      BY <2>2, Zenon DEF update_job_full
    <3>3. th[t].pc = "recorded" => th[t].att \in {0} \cup Recorded \cup late
      BY Zenon DEF RecordInv
    <3> QED BY <1>2, <3>1, <3>2, <3>3, Zenon
  <2>3. CASE flush(t) \/ Reader(t)
    <3>1. PICK p \in {"list", "select"} : th' = [th EXCEPT ![t].pc = p]
      BY <2>3, Zenon DEF flush, Reader
    <3>2. th'[t].pc = p
      BY <1>4, <3>1, Zenon DEF Thread
    <3> QED BY <3>2, Zenon
  <2>4. CASE insert_return(t) \/ select(t)
    BY <1>4, <2>4, SMTT(30) DEF insert_return, select, Idle
  <2>5. CASE list_begin(t)
    BY <1>4, <2>5, Zenon DEF list_begin, Idle
  <2>6. CASE \E i \in Ids : get_job(t, i)
    BY <1>4, <2>6, Zenon DEF get_job, Idle
  <2> QED BY <2>1, <2>2, <2>3, <2>4, <2>5, <2>6, Zenon DEF Quiet
<1> QED BY <1>1, <1>2, <1>3, <1>5, RecordKept, Zenon

LEMMA WriterRecordInv ==
  ASSUME TypeOK, DurabilityInv, TableInv, RecordInv, NEW t \in Threads,
         \/ \E i \in Ids : insert_job(t, i)
         \/ \E i \in Ids, att \in Nat : update_job(t, i, att)
         \/ \E S \in SUBSET Ids : insert_workflow(t, S)
  PROVE  RecordInv'
<1>1. UNCHANGED <<db_attempts, pending_attempts, flusher, late>>
  BY Zenon DEF insert_job, update_job, insert_workflow, buffers
<1>2. Recorded' = Recorded
  BY <1>1, StillRecorded, Zenon
<1>3. th \in [Threads -> Thread]
  BY Zenon DEF TypeOK
<1>4. Items(flusher.batch.inserts)' = Items(flusher.batch.inserts)
  BY <1>1, Zenon DEF Items
<1>5. ASSUME NEW i \in Ids, insert_job(t, i)
      PROVE  RecordInv'
  <2>1. UNCHANGED <<db, pending_updates>>
    BY <1>5, Zenon DEF insert_job
  <2>2. PICK e \in Buffered : Adds(e) /\ e.id = i /\ e.row.att = 0
    BY <1>5, InsertTable, Zenon
  <2>3. \A f \in Inserting' : f \in Inserting \/ f.row.att = 0
    <3>1. Inserting' = Inserting \cup {e} \/ Inserting' = Inserting
      BY <2>2, AddsSets, Zenon
    <3> QED BY <2>2, <3>1, Zenon
  <2>4. Items(pending_updates)' = Items(pending_updates)
    BY <2>1, Zenon DEF Items
  <2>5. \A u \in Threads : th'[u].pc \in {"recorded", "update"} => th'[u] = th[u]
    BY <1>3, <1>5, Zenon DEF insert_job, Idle
  <2> QED BY <1>1, <1>2, <2>1, <2>3, <2>4, <2>5, RecordKept, Zenon
<1>6. ASSUME NEW i \in Ids, NEW att \in Nat, update_job(t, i, att)
      PROVE  RecordInv'
  <2>1. UNCHANGED <<db, pending_inserts>>
    BY <1>6, Zenon DEF update_job
  <2>2. PICK e \in Buffered : e = Entry(i, version_counter + 1, att, 0)
    BY EntryType, SMTT(30) DEF TypeOK
  <2>3. pending_updates' = Append(pending_updates, e) /\ pending_updates \in Seq(Buffered)
    BY <1>6, <2>2, ZenonT(60) DEF update_job, TypeOK
  <2>4. Items(Append(pending_updates, e)) = Items(pending_updates) \cup {e}
    BY <2>3, ItemsAppend, SMTT(30)
  <2>5. Items(pending_updates)' = Items(pending_updates) \cup {e}
    BY <2>3, <2>4, Zenon DEF Items
  <2>6. e.row.att = att
    BY <2>2, Zenon DEF Entry
  <2>7. att \in {0} \cup Recorded \cup late
    <3>1. att = 0 \/ (th[t].pc \in {"recorded", "update"} /\ att = th[t].att)
      BY <1>6, Zenon DEF update_job
    <3> QED BY <3>1, Zenon DEF RecordInv
  <2>8. \A f \in Items(pending_updates)' : \/ f \in Items(pending_updates)
                                           \/ f.row.att \in {0} \cup Recorded \cup late
    BY <2>5, <2>6, <2>7, Zenon
  <2>9. Inserting' = Inserting
    BY <1>4, <2>1, Zenon DEF Inserting, Items
  <2>10. \A u \in Threads : th'[u].pc \in {"recorded", "update"} => th'[u] = th[u]
    BY <1>3, <1>6, Zenon DEF update_job, Idle
  <2> QED BY <1>1, <1>2, <2>1, <2>8, <2>9, <2>10, RecordKept, Zenon
<1>7. ASSUME NEW S \in SUBSET Ids, insert_workflow(t, S)
      PROVE  RecordInv'
  <2>1. UNCHANGED <<pending_inserts, pending_updates, th>>
    BY <1>7, Zenon DEF insert_workflow, buffers
  <2>2. \A i \in Ids : db'[i] = db[i] \/ db'[i].att = 0
    BY <1>7, ThroughTable, Zenon DEF DurabilityInv
  <2>3. Inserting' = Inserting /\ Items(pending_updates)' = Items(pending_updates)
    BY <1>4, <2>1, Zenon DEF Inserting, Items
  <2> QED BY <1>1, <1>2, <2>1, <2>2, <2>3, RecordKept, Zenon
<1> QED BY <1>5, <1>6, <1>7, Zenon

LEMMA TakeRecordInv ==
  ASSUME TypeOK, DurabilityInv, TableInv, RecordInv, flusher_take
  PROVE  RecordInv'
<1>1. UNCHANGED <<db, db_attempts, th>> /\ pending_updates \in Seq(Buffered)
  BY Zenon DEF flusher_take, TypeOK
<1>2. /\ Recorded' = Recorded
      /\ Items(flusher.batch.attempts) = {}
      /\ Items(flusher.batch.attempts)' = Items(Prefix(pending_attempts))
      /\ Items(pending_attempts) = Items(Prefix(pending_attempts)) \cup Items(Rest(pending_attempts))
      /\ late' = late \cup Items(Rest(pending_attempts))
  BY TakeRecords, Zenon
<1>3. Inserting' = Inserting
  BY TakeSets, Zenon DEF DurabilityInv
<1>4. Items(pending_updates) = Items(Prefix(pending_updates)) \cup Items(Rest(pending_updates))
  BY <1>1, ItemsSplit, ZenonT(60)
<1>5. Items(pending_updates)' = Items(Rest(pending_updates))
  BY Zenon DEF flusher_take, Items
<1>6. flusher'.batch.updates = Prefix(pending_updates)
  BY Zenon DEF flusher_take
<1>7. Items(flusher.batch.updates)' = Items(Prefix(pending_updates))
  BY <1>6, Zenon DEF Items
<1>8. \A e \in Items(pending_updates) : e.row.att \in {0} \cup Recorded \cup late
  BY Zenon DEF RecordInv
<1>9. RecordPrecedesRow'
  <2>1. \A i \in Ids : db[i].att \in {0} \cup db_attempts \cup late
    BY Zenon DEF RecordInv, RecordPrecedesRow
  <2>2. late \subseteq late'
    BY <1>2, ZenonT(60)
  <2> QED BY <1>1, <2>1, <2>2, ZenonT(60) DEF RecordPrecedesRow
<1>10. \A e \in Inserting' : e.row.att = 0
  BY <1>3, Zenon DEF RecordInv
<1>11. \A e \in Items(flusher.batch.updates)' :
         e.row.att \in {0} \cup db_attempts' \cup late' \cup Items(flusher.batch.attempts)'
  BY <1>1, <1>2, <1>4, <1>7, <1>8, RecordedItems, Zenon
<1>12. \A e \in Items(pending_updates)' : e.row.att \in {0} \cup Recorded' \cup late'
  BY <1>2, <1>4, <1>5, <1>8, Zenon
<1>13. \A u \in Threads : th'[u].pc \in {"recorded", "update"} =>
                            th'[u].att \in {0} \cup Recorded' \cup late'
  <2>1. \A u \in Threads : th[u].pc \in {"recorded", "update"} =>
                             th[u].att \in {0} \cup Recorded \cup late
    BY Zenon DEF RecordInv
  <2>2. late \subseteq late'
    BY <1>2, Zenon
  <2> QED BY <1>1, <1>2, <2>1, <2>2, Zenon
<1> QED BY <1>9, <1>10, <1>11, <1>12, <1>13, ZenonT(60) DEF RecordInv

LEMMA CommitRecordInv ==
  ASSUME TypeOK, DurabilityInv, TableInv, RecordInv, commit_batch \/ commit_fails
  PROVE  RecordInv'
<1>1. UNCHANGED <<pending_inserts, pending_updates, th>>
  BY Zenon DEF commit_batch, commit_fails, buffers
<1>2. /\ Recorded' = Recorded /\ db_attempts \subseteq db_attempts' /\ late \subseteq late'
      /\ Items(flusher.batch.attempts)' = Items(flusher.batch.attempts)
      /\ Items(flusher.batch.updates)' = Items(flusher.batch.updates)
      /\ commit_batch => db_attempts' = db_attempts \cup Items(flusher.batch.attempts)
  BY CommitRecords, Zenon
<1>3. flusher'.batch = flusher.batch
  <2>1. flusher \in [pc : {"wait", "commit", "retire"}, batch : Batch, ok : BOOLEAN]
    BY ZenonT(60) DEF TypeOK
  <2>2. \/ flusher' = [flusher EXCEPT !.pc = "retire"]
        \/ flusher' = [flusher EXCEPT !.pc = "retire", !.ok = FALSE]
    BY Zenon DEF commit_batch, commit_fails
  <2> QED BY <2>1, <2>2, ZenonT(60)
<1>4. /\ Inserting' = Inserting /\ Items(pending_updates)' = Items(pending_updates)
  BY <1>1, <1>3, Zenon DEF Inserting, Items
<1>5. \A e \in Items(flusher.batch.updates) :
        e.row.att \in {0} \cup db_attempts \cup late \cup Items(flusher.batch.attempts)
  BY Zenon DEF RecordInv
<1>6. RecordPrecedesRow'
  <2>1. \A i \in Ids : db[i].att \in {0} \cup db_attempts \cup late
    BY Zenon DEF RecordInv, RecordPrecedesRow
  <2>2. ASSUME NEW i \in Ids, NEW e \in Taken, db'[i] = e.row, commit_batch
        PROVE  db'[i].att \in {0} \cup db_attempts' \cup late'
    <3>1. CASE e \in Items(flusher.batch.inserts)
      BY <2>2, <3>1, Zenon DEF RecordInv, Inserting
    <3>2. CASE e \in Items(flusher.batch.updates)
      BY <1>2, <1>5, <2>2, <3>2, Zenon
    <3> QED BY <3>1, <3>2, Zenon DEF Taken
  <2>3. ASSUME NEW i \in Ids
        PROVE  db'[i].att \in {0} \cup db_attempts' \cup late'
    <3>1. db'[i] = db[i] \/ (commit_batch /\ \E e \in Taken : e.id = i /\ db'[i] = e.row)
      <4>1. CASE commit_batch
        BY <4>1, CommitRows, Zenon DEF DurabilityInv, TableInv
      <4>2. CASE commit_fails
        BY <4>2, Zenon DEF commit_fails
      <4> QED BY <4>1, <4>2, Zenon
    <3>2. CASE db'[i] = db[i]
      BY <1>2, <2>1, <3>2, Zenon
    <3> QED BY <2>2, <3>1, <3>2, Zenon
  <2> QED BY <2>3, Zenon DEF RecordPrecedesRow
<1>7. \A e \in Inserting' : e.row.att = 0
  BY <1>4, ZenonT(60) DEF RecordInv
<1>8. \A e \in Items(flusher.batch.updates)' :
        e.row.att \in {0} \cup db_attempts' \cup late' \cup Items(flusher.batch.attempts)'
  BY <1>2, <1>5, Zenon
<1>9. \A e \in Items(pending_updates)' : e.row.att \in {0} \cup Recorded' \cup late'
  BY <1>2, <1>4, Zenon DEF RecordInv
<1>10. \A u \in Threads : th'[u].pc \in {"recorded", "update"} =>
                            th'[u].att \in {0} \cup Recorded' \cup late'
  BY <1>1, <1>2, Zenon DEF RecordInv
<1> QED BY <1>6, <1>7, <1>8, <1>9, <1>10, Zenon DEF RecordInv

LEMMA RetireRecordInv ==
  ASSUME TypeOK, TableInv, RecordInv, flusher_retire
  PROVE  RecordInv'
<1>1. UNCHANGED <<db, db_attempts, pending_inserts, pending_updates, th, late>>
  BY Zenon DEF flusher_retire
<1>2. /\ Recorded \cup late = Recorded' \cup late'
      /\ Items(flusher.batch.updates)' = {}
  BY RetireRecords, Zenon
<1>3. Items(flusher.batch.inserts)' = {}
  BY DEF flusher_retire, FlusherWaits, EmptyBatch, Items
<1>4. /\ Items(pending_updates)' = Items(pending_updates)
      /\ Items(pending_inserts)' = Items(pending_inserts)
  BY <1>1, Zenon DEF Items
<1>5. Inserting' \subseteq Inserting
  BY <1>3, <1>4, Zenon DEF Inserting
<1>6. RecordPrecedesRow'
  BY <1>1, Zenon DEF RecordInv, RecordPrecedesRow
<1>7. \A e \in Inserting' : e.row.att = 0
  BY <1>5, Zenon DEF RecordInv
<1>8. \A e \in Items(pending_updates)' : e.row.att \in {0} \cup Recorded' \cup late'
  <2>1. \A e \in Items(pending_updates) : e.row.att \in {0} \cup Recorded \cup late
    BY Zenon DEF RecordInv
  <2> QED BY <1>2, <1>4, <2>1, Zenon
<1>9. \A u \in Threads : th'[u].pc \in {"recorded", "update"} =>
                            th'[u].att \in {0} \cup Recorded' \cup late'
  <2>1. \A u \in Threads : th[u].pc \in {"recorded", "update"} =>
                             th[u].att \in {0} \cup Recorded \cup late
    BY Zenon DEF RecordInv
  <2> QED BY <1>1, <1>2, <2>1, Zenon
<1> QED BY <1>2, <1>6, <1>7, <1>8, <1>9, ZenonT(60) DEF RecordInv

\* With nothing buffered and no call in progress only the rows on disk report attempts.
LEMMA OpenedRecords ==
  RecordPrecedesRow /\ Opened => RecordInv /\ (\A t \in Threads : th[t].pc = "idle")
<1> SUFFICES ASSUME RecordPrecedesRow, Opened
             PROVE  RecordInv /\ (\A t \in Threads : th[t].pc = "idle")
  BY Zenon
<1>1. /\ pending_inserts = <<>> /\ pending_updates = <<>>
      /\ flusher.batch.inserts = <<>> /\ flusher.batch.updates = <<>>
      /\ \A t \in Threads : th[t].pc = "idle"
  BY Zenon DEF Opened, FlusherWaits, EmptyBatch, Idle
<1>2. Inserting = {} /\ Items(pending_updates) = {} /\ Items(flusher.batch.updates) = {}
  BY <1>1, ItemsEmpty, Zenon DEF Inserting
<1> QED BY <1>1, <1>2, Zenon DEF RecordInv

LEMMA OpenedRecordsNext ==
  (RecordPrecedesRow /\ Opened => RecordInv /\ (\A t \in Threads : th[t].pc = "idle"))'
<1>1. RecordPrecedesRow /\ Opened => RecordInv /\ (\A t \in Threads : th[t].pc = "idle")
  BY OpenedRecords, ZenonT(60)
<1> QED BY <1>1, PTL

-----------------------------------------------------------------------------
(* The invariant of the store *)

LEMMA ReopenedIsOpened ==
  ASSUME TypeOK, TableInv, Reopened
  PROVE  Opened'
<1>1. \A i \in Ids : db[i].version <= version_counter /\ (db[i].version = 0 => db[i] = NoRow)
  BY ZenonT(60) DEF TableInv, VersionInv
<1> QED BY <1>1, Zenon DEF Reopened, Opened

LEMMA TableNext ==
  ASSUME TypeOK, DurabilityInv, TableInv, Next
  PROVE  TableInv'
<1>1. ASSUME Reopened
      PROVE  TableInv'
  BY <1>1, ReopenedIsOpened, OpenedNext, ZenonT(60)
<1>2. CallInv /\ BufferInv
  BY Zenon DEF DurabilityInv
<1> QED BY <1>1, <1>2, StoreSteps, QuietTable, InsertTable, UpdateTable, ThroughTable, TakeTable,
           CommitTable, FailTable, RetireTable, Zenon

LEMMA RecordNext ==
  ASSUME TypeOK, DurabilityInv, TableInv, RecordInv, Next
  PROVE  RecordInv'
<1>1. ASSUME Reopened
      PROVE  RecordInv'
  <2>1. RecordPrecedesRow'
    BY <1>1, Zenon DEF Reopened, RecordInv, RecordPrecedesRow
  <2> QED BY <1>1, <2>1, ReopenedIsOpened, OpenedRecordsNext, Zenon
<1>2. CallInv
  BY Zenon DEF DurabilityInv
<1> QED BY <1>1, <1>2, StoreSteps, QuietRecordInv, WriterRecordInv, TakeRecordInv, CommitRecordInv,
           RetireRecordInv, Zenon

LEMMA StoreInit ==
  ASSUME Init
  PROVE  StoreInv /\ Opened
<1>1. TypeOK /\ DurabilityInv
  BY DurabilityInit, Zenon
<1>2. \A i \in Ids : db[i] = NoRow /\ db[i].version = 0 /\ db[i].att = 0
  BY Zenon DEF Init, NoRow
<1>3. version_counter = 0 /\ 0 <= 0
  BY DEF Init
<1>4. Opened
  BY <1>2, <1>3, Zenon DEF Init, Opened
<1>5. RecordPrecedesRow
  BY <1>2, Zenon DEF RecordPrecedesRow
<1>6. TableInv /\ RecordInv /\ \A t \in Threads : th[t].pc = "idle"
  BY <1>4, <1>5, OpenedTable, OpenedRecords, Zenon
<1>7. flusher.pc = "wait"
  BY Zenon DEF Init, FlusherWaits
<1>8. ReadInv
  BY <1>6, <1>7, Zenon DEF ReadInv, Fresh
<1> QED BY <1>1, <1>4, <1>6, <1>8, ZenonT(60) DEF StoreInv

LEMMA StoreNext ==
  ASSUME StoreInv, [Next]_vars
  PROVE  StoreInv'
<1>1. TypeOK' /\ DurabilityInv'
  BY DurabilityNext, Zenon DEF StoreInv
<1>2. CASE Next
  BY <1>1, <1>2, TableNext, ReadNext, RecordNext, Zenon DEF StoreInv
<1>3. CASE UNCHANGED vars
  <2>1. UNCHANGED <<db, db_attempts, pending_inserts, pending_updates, pending_attempts, cache,
                    version_counter, flusher, last_flush_error, th, late>>
    BY <1>3, Zenon DEF vars, buffers, counters
  <2>2. /\ Taken' = Taken /\ Waiting' = Waiting /\ Inserting' = Inserting /\ Updating' = Updating
        /\ Recorded' = Recorded /\ Table' = Table
    BY <2>1, Zenon DEF Taken, Waiting, Inserting, Updating, Recorded, Table, Visible
  <2>3. TableInv'
    <3>1. WaiterInv' /\ BatchInv' /\ VersionInv' /\ OrderInv'
      BY <2>1, <2>2, ZenonT(60) DEF StoreInv, TableInv, WaiterInv, BatchInv, VersionInv, OrderInv
    <3>2. CacheInv'
      BY <2>1, <2>2, Zenon DEF StoreInv, TableInv, CacheInv
    <3>3. ExistInv'
      BY <2>1, <2>2, ZenonT(60) DEF StoreInv, TableInv, ExistInv, Visible, Retired
    <3> QED BY <3>1, <3>2, <3>3, ZenonT(60) DEF TableInv
  <2>4. ReadInv'
    BY <2>1, <2>2, Zenon DEF StoreInv, ReadInv, Fresh
  <2>5. RecordInv'
    BY <2>1, <2>2, Zenon DEF StoreInv, RecordInv, RecordPrecedesRow
  <2> QED BY <1>1, <2>3, <2>4, <2>5, Zenon DEF StoreInv
<1> QED BY <1>2, <1>3, Zenon

\* The invariant of the store: writes under way are ordered by version between disk and cache,
\* reads find what they have to, and records go ahead of the rows that report them.
THEOREM StoreIsConsistent == Spec => []StoreInv
<1>1. Init => StoreInv
  BY StoreInit, Zenon
<1>2. StoreInv /\ [Next]_vars => StoreInv'
  BY StoreNext, Zenon
<1> QED BY <1>1, <1>2, PTL DEF Spec

\* finish_attempt appends the record before it updates the row (engine.cpp:365-386), and the
\* flusher takes prefixes of both buffers at once (store.cpp:868-903): a row on disk reports an
\* attempt whose record is not there only if a full batch left the record behind or its own
\* transaction failed.
THEOREM RecordsComeFirst == Spec => []RecordPrecedesRow
<1>1. StoreInv => RecordPrecedesRow
  BY Zenon DEF StoreInv, RecordInv
<1> QED BY <1>1, StoreIsConsistent, PTL

LEMMA SelectIsFresh ==
  ASSUME StoreInv, NEW t \in Threads, th[t].pc = "select", ~ last_flush_error
  PROVE  /\ \A i \in Ids : db[i].version >= th[t].seen[i]
         /\ th[t].recs \subseteq db_attempts
<1>1. (\A i \in Ids : th[t].seen[i] <= db[i].version) /\ th[t].recs \subseteq db_attempts
  BY Zenon DEF StoreInv, ReadInv, Fresh
<1>2. \A i \in Ids : th[t].seen[i] \in Nat
  BY DEF StoreInv, TypeOK, Thread
<1>3. \A i \in Ids : db[i].version \in Nat
  BY StoreTypes, Zenon DEF StoreInv
<1> QED BY <1>1, <1>2, <1>3, Zenon

\* A get_job that missed the cache and a listing that flushed find every row and record that was
\* visible or buffered when they began, however the flusher and the writers go on meanwhile.
THEOREM ReadsAreFresh == Spec => ReadsFresh
<1>1. StoreInv /\ [Next]_vars =>
        [\A t \in Threads : (th[t].pc = "select" /\ th'[t].pc = "idle" /\ ~ last_flush_error) =>
           /\ \A i \in Ids : db[i].version >= th[t].seen[i]
           /\ th[t].recs \subseteq db_attempts]_vars
  BY SelectIsFresh, Zenon
<1> QED BY <1>1, StoreIsConsistent, PTL DEF Spec, ReadsFresh

-----------------------------------------------------------------------------
(* The store implements WriteBehindTable *)

LEMMA TableStep ==
  ASSUME StoreInv, Next
  PROVE  W!Next \/ UNCHANGED W!vars
<1> DEFINE disk == [i \in Ids |-> db[i].version]
<1>0. /\ TypeOK /\ DurabilityInv /\ TableInv /\ CallInv
      /\ \A i \in Ids : Table[i] \in Nat /\ db[i].version \in Nat
  BY TableType, StoreTypes, Zenon DEF StoreInv, DurabilityInv
<1>1. ASSUME UNCHANGED <<db, last_flush_error>>, \A i \in Ids : Table'[i] >= Table[i]
      PROVE  W!Next
  BY <1>1, Zenon DEF W!Next, W!Write
<1>2. ASSUME UNCHANGED <<db, last_flush_error>>, Table' = Table
      PROVE  W!Next
  <2>1. \A i \in Ids : Table'[i] >= Table[i]
    BY <1>0, <1>2, SMTT(30)
  <2> QED BY <1>1, <1>2, <2>1, ZenonT(60)
<1>3. ASSUME NEW t \in Threads, Quiet(t)
      PROVE  W!Next
  BY <1>0, <1>2, <1>3, QuietMoves, QuietTable, Zenon
<1>4. ASSUME NEW t \in Threads, NEW i \in Ids, insert_job(t, i)
      PROVE  W!Next
  <2>1. UNCHANGED <<db, last_flush_error>>
    BY <1>4, Zenon DEF insert_job
  <2> QED BY <1>0, <1>1, <1>4, <2>1, InsertTable, Zenon
<1>5. ASSUME NEW t \in Threads, NEW i \in Ids, NEW att \in Nat, update_job(t, i, att)
      PROVE  W!Next
  <2>1. UNCHANGED <<db, last_flush_error>>
    BY <1>5, Zenon DEF update_job
  <2> QED BY <1>0, <1>1, <1>5, <2>1, UpdateTable, Zenon
<1>6. ASSUME NEW t \in Threads, NEW S \in SUBSET Ids, insert_workflow(t, S)
      PROVE  W!Next
  <2>1. \A i \in Ids : \/ db'[i] = db[i] /\ Table'[i] = Table[i]
                       \/ /\ db[i] = NoRow /\ Table[i] = 0 /\ Table'[i] > 0
                          /\ db'[i].version = Table'[i] /\ db'[i].att = 0
    BY <1>0, <1>6, ThroughTable, Zenon
  <2>2. UNCHANGED last_flush_error
    BY <1>6, Zenon DEF insert_workflow
  <2>3. \A i \in Ids : disk[i] = db[i].version /\ disk'[i] = db'[i].version
    BY Zenon
  <2>4. \A i \in Ids : \/ Table'[i] = Table[i] /\ disk'[i] = disk[i]
                       \/ Table[i] = 0 /\ Table'[i] > 0 /\ disk'[i] = Table'[i]
    BY <2>1, <2>3, Zenon
  <2> QED BY <2>2, <2>4, Zenon DEF W!Next, W!WriteThrough
<1>7. CASE flusher_take
  <2>1. UNCHANGED <<db, cache, last_flush_error>>
    BY <1>7, Zenon DEF flusher_take
  <2>2. Table' = Table
    BY <2>1, Zenon DEF Table, Visible
  <2> QED BY <1>2, <2>1, <2>2, Zenon
<1>8. CASE commit_batch
  <2>1. UNCHANGED last_flush_error
    BY <1>8, Zenon DEF commit_batch
  <2>2. /\ \A i \in Ids : db[i].version <= db'[i].version /\ db'[i].version <= Table[i]
        /\ Table' = Table
    BY <1>0, <1>8, CommitTable, Zenon
  <2>3. \A i \in Ids : disk[i] = db[i].version /\ disk'[i] = db'[i].version
    BY Zenon
  <2>4. \A i \in Ids : disk[i] <= disk'[i] /\ disk'[i] <= Table[i]
    BY <2>2, <2>3, Zenon
  <2> QED BY <2>1, <2>2, <2>4, Zenon DEF W!Next, W!Sync
<1>9. CASE commit_fails
  <2>1. UNCHANGED <<db, cache, last_flush_error>>
    BY <1>9, ZenonT(60) DEF commit_fails, buffers
  <2>2. Table' = Table
    BY <2>1, Zenon DEF Table, Visible
  <2> QED BY <1>2, <2>1, <2>2, Zenon
<1>10. CASE flusher_retire
  <2>1. UNCHANGED db /\ last_flush_error' = (last_flush_error \/ ~ flusher.ok)
    BY <1>10, Zenon DEF flusher_retire
  <2>2. \A i \in Ids : Table'[i] = Table[i] \/ (last_flush_error' /\ Table'[i] = db[i].version)
    BY <1>0, <1>10, RetireTable, ZenonT(60)
  <2>3. last_flush_error \in BOOLEAN /\ last_flush_error' \in BOOLEAN
    BY <1>0, <2>1, ZenonT(60) DEF TypeOK
  <2>4. CASE last_flush_error' = TRUE
    <3>1. \A i \in Ids : disk[i] = db[i].version
      BY Zenon
    <3>2. \A i \in Ids : Table'[i] \in {Table[i], disk[i]}
      BY <2>2, <3>1, Zenon
    <3> QED BY <2>1, <2>4, <3>2, Zenon DEF W!Next, W!Lose
  <2>5. CASE last_flush_error' = FALSE
    <3>1. \A i \in Ids : Table'[i] >= Table[i]
      BY <1>0, <2>2, <2>5, SMTT(30)
    <3>2. last_flush_error' = last_flush_error
      BY <2>1, <2>3, <2>5, ZenonT(60)
    <3> QED BY <1>1, <2>1, <3>1, <3>2, Zenon
  <2> QED BY <2>3, <2>4, <2>5, Zenon
<1>11. CASE Reopened
  <2>1. UNCHANGED db /\ last_flush_error' = FALSE
    BY <1>11, Zenon DEF Reopened
  <2>2. Table' = disk'
    BY <1>0, <1>11, ReopenedIsOpened, OpenedNext, Zenon
  <2> QED BY <2>1, <2>2, ZenonT(60) DEF W!Next, W!Crash
<1> QED BY <1>0, <1>3, <1>4, <1>5, <1>6, <1>7, <1>8, <1>9, <1>10, <1>11, StoreSteps, Zenon

LEMMA TableInit ==
  ASSUME Init
  PROVE  W!Init
<1>1. Table = [i \in Ids |-> db[i].version]
  BY StoreInit, OpenedTable, Zenon
<1>2. [i \in Ids |-> db[i].version] = [i \in Ids |-> 0]
  BY Zenon DEF Init, NoRow
<1>3. last_flush_error = FALSE
  BY Zenon DEF Init
<1> QED BY <1>1, <1>2, <1>3, ZenonT(60) DEF W!Init

\* Group commit (store.cpp:336-406, 868-926) implements the table of WriteBehindTable for every
\* number of jobs and threads: a write is visible at once and until it is on disk, the disk never returns
\* to an older row, and only a crash or a reported failure takes rows back.
THEOREM StoreImplementsTable == Spec => RefinesTable
<1>1. Init => W!Init
  BY TableInit, Zenon
<1>2. StoreInv /\ [Next]_vars => [W!Next]_(W!vars)
  <2>1. ASSUME UNCHANGED vars PROVE UNCHANGED W!vars
    BY <2>1, Zenon DEF vars, buffers, W!vars, Table, Visible
  <2> QED BY <2>1, TableStep, Zenon
<1> QED BY <1>1, <1>2, StoreIsConsistent, PTL DEF Spec, RefinesTable, W!Spec
=============================================================================
