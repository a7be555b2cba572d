------------------------------ MODULE JobStore ------------------------------
(***************************************************************************)
(* src/store/store.cpp with group commit: writers append to buffers and to  *)
(* a read-through cache, a flusher thread writes a prefix of the buffers as *)
(* one transaction, inserts wait for it, listings flush first.  The process *)
(* may crash at any point; the database survives.                          *)
(*                                                                         *)
(* Every critical section of wb_mutex_ and every transaction is one action.*)
(* A condition variable is waited for with a predicate everywhere, so a     *)
(* wait is the guard of the step that follows it.  A row is the version of  *)
(* the write that made it, with the attempt record that write reports.     *)
(***************************************************************************)
EXTENDS Naturals, Sequences, FiniteSets

CONSTANTS
  Ids,           \* job ids
  NoId,
  Threads,       \* threads that call the store
  MaxBatch,      \* max_batch
  MaxBuffered,   \* max_buffered_rows
  Connections,   \* reader_connections
  CommitMayFail, \* whether a transaction can fail
  MaxVersion,    \* bound on version_counter_
  MaxCrashes

\* A blocked insert holds one row of the buffer, and the server runs at most 256 threads
\* (max_connection_threads) against a batch of 1024.
ASSUME StoreAssumption ==
  /\ IsFiniteSet(Threads) /\ NoId \notin Ids
  /\ {MaxBuffered, Connections, MaxVersion, MaxCrashes} \subseteq Nat
  /\ MaxBatch \in Nat \ {0} /\ Cardinality(Threads) <= MaxBatch
  /\ CommitMayFail \in BOOLEAN

VARIABLES
  db,                    \* the jobs table: id -> row
  db_attempts,           \* the job_attempts table
  pending_inserts, pending_updates, pending_attempts,
  cache,                 \* cache_: id -> its newest row not yet known to be in the database
  version_counter,       \* version_counter_; runs on after a crash, so that rows stay different
  insert_seq, committed_insert_seq,
  last_flush_error,      \* whether last_flush_error_ is set
  flusher,               \* the flusher's progress and its batch; in_flight_ is the batch's size
  th,                    \* the calls in progress
  acked,                 \* ids whose insert returned true (history)
  late,                  \* attempt records that a full batch left in the buffer or that were in
                         \* a failed transaction (history)
  crashes

buffers == <<pending_inserts, pending_updates, pending_attempts, cache>>
counters == <<version_counter, insert_seq, committed_insert_seq>>
vars == <<db, db_attempts, buffers, counters, last_flush_error, flusher, th, acked, late, crashes>>

Row == [version : Nat, att : Nat]
NoRow == [version |-> 0, att |-> 0]
Buffered == [id : Ids, row : Row, seq : Nat]

\* th[t].pc: "idle", "insert" (waiting for its batch), "recorded" (finish_attempt has appended
\* the record att and will update the row), "update" (held back by a full buffer), "get" (cache
\* miss, needs a connection), "select" (holds a connection), "flush" (in the flush() of a
\* listing), "list" (flushed, needs a connection).
\* seen and recs are the rows and the attempt records a read has to find (history).
Pcs == {"idle", "insert", "recorded", "update", "get", "select", "flush", "list"}
Thread == [pc : Pcs, id : Ids \cup {NoId}, att : Nat, seq : Nat, seen : [Ids -> Nat],
           recs : SUBSET Nat]

EmptyBatch == [inserts |-> <<>>, updates |-> <<>>, attempts |-> <<>>]
Batch == [inserts : Seq(Buffered), updates : Seq(Buffered), attempts : Seq(Nat)]

TypeOK ==
  /\ db \in [Ids -> Row]
  /\ db_attempts \in SUBSET Nat
  /\ pending_inserts \in Seq(Buffered) /\ pending_updates \in Seq(Buffered)
  /\ pending_attempts \in Seq(Nat)
  /\ \E S \in SUBSET Ids : cache \in [S -> Row]
  /\ version_counter \in Nat /\ insert_seq \in Nat /\ committed_insert_seq \in Nat
  /\ last_flush_error \in BOOLEAN
  /\ flusher \in [pc : {"wait", "commit", "retire"}, batch : Batch, ok : BOOLEAN]
  /\ th \in [Threads -> Thread]
  /\ acked \in SUBSET Ids
  /\ late \in SUBSET Nat
  /\ crashes \in Nat

Idle == [pc |-> "idle", id |-> NoId, att |-> 0, seq |-> 0, seen |-> [i \in Ids |-> 0],
         recs |-> {}]
FlusherWaits == [pc |-> "wait", batch |-> EmptyBatch, ok |-> TRUE]

Init ==
  /\ db = [i \in Ids |-> NoRow]
  /\ db_attempts = {}
  /\ pending_inserts = <<>> /\ pending_updates = <<>> /\ pending_attempts = <<>>
  /\ cache = [i \in {} |-> NoRow]
  /\ version_counter = 0 /\ insert_seq = 0 /\ committed_insert_seq = 0
  /\ last_flush_error = FALSE
  /\ flusher = FlusherWaits
  /\ th = [t \in Threads |-> Idle]
  /\ acked = {}
  /\ late = {}
  /\ crashes = 0

-----------------------------------------------------------------------------
(* Helpers *)

\* What get_job finds: the cached row if there is one, else the database's.
Visible(i) == IF i \in DOMAIN cache THEN cache[i] ELSE db[i]
Table == [i \in Ids |-> Visible(i).version]

Cached(i, row) == [k \in DOMAIN cache \cup {i} |-> IF k = i THEN row ELSE cache[k]]

Entry(i, version, att, seq) == [id |-> i, row |-> [version |-> version, att |-> att], seq |-> seq]

has_pending_locked ==
  pending_inserts # <<>> \/ pending_updates # <<>> \/ pending_attempts # <<>>

buffered == Len(pending_inserts) + Len(pending_updates) + Len(pending_attempts)

\* in_flight_ == 0
BugAttemptsNotCounted ==
  flusher.batch.inserts = <<>> /\ flusher.batch.updates = <<>>
nothing_in_flight == flusher.batch = EmptyBatch

-----------------------------------------------------------------------------
(* Writers *)

\* insert_jobs of one new row, the only use the engine makes of it: buffer it, then wait.
insert_job(t, i) ==
  /\ th[t].pc = "idle"
  /\ Visible(i) = NoRow /\ \A u \in Threads : ~ (th[u].pc = "insert" /\ th[u].id = i)
  /\ version_counter < MaxVersion
  /\ version_counter' = version_counter + 1
  /\ insert_seq' = insert_seq + 1
  /\ pending_inserts' = Append(pending_inserts, Entry(i, version_counter', 0, insert_seq'))
  /\ cache' = Cached(i, [version |-> version_counter', att |-> 0])
  /\ th' = [th EXCEPT ![t] = [Idle EXCEPT !.pc = "insert", !.id = i, !.seq = insert_seq']]
  /\ UNCHANGED <<db, db_attempts, pending_updates, pending_attempts, committed_insert_seq,
                 last_flush_error, flusher, acked, late, crashes>>

\* The wait ends at the watermark; the answer is an error once any batch has failed.
insert_return(t) ==
  /\ th[t].pc = "insert"
  /\ committed_insert_seq >= th[t].seq
  /\ acked' = IF last_flush_error THEN acked ELSE acked \cup {th[t].id}
  /\ th' = [th EXCEPT ![t] = Idle]
  /\ UNCHANGED <<db, db_attempts, buffers, counters, last_flush_error, flusher, late, crashes>>

\* append_attempt, called by finish_attempt before it updates the row.
append_attempt(t, i) ==
  /\ th[t].pc = "idle"
  /\ Visible(i) # NoRow
  /\ version_counter < MaxVersion
  /\ version_counter' = version_counter + 1
  /\ pending_attempts' = Append(pending_attempts, version_counter')
  /\ th' = [th EXCEPT ![t] = [Idle EXCEPT !.pc = "recorded", !.id = i, !.att = version_counter']]
  /\ UNCHANGED <<db, db_attempts, pending_inserts, pending_updates, cache, insert_seq,
                 committed_insert_seq, last_flush_error, flusher, acked, late, crashes>>

\* update_job, first case: the buffer is full and the caller waits at most 50 ms.
update_job_full(t, i, att) ==
  /\ \/ th[t].pc = "idle" /\ Visible(i) # NoRow /\ att = 0
     \/ th[t].pc = "recorded" /\ i = th[t].id /\ att = th[t].att
  /\ MaxBuffered > 0 /\ buffered >= MaxBuffered
  /\ th' = [th EXCEPT ![t] = [Idle EXCEPT !.pc = "update", !.id = i, !.att = att]]
  /\ UNCHANGED <<db, db_attempts, buffers, counters, last_flush_error, flusher, acked, late, crashes>>

\* update_job: room in the buffer, or the wait is over (there is room, or the 50 ms are up).
update_job(t, i, att) ==
  /\ \/ /\ \/ th[t].pc = "idle" /\ Visible(i) # NoRow /\ att = 0
           \/ th[t].pc = "recorded" /\ i = th[t].id /\ att = th[t].att
        /\ MaxBuffered = 0 \/ buffered < MaxBuffered
     \/ th[t].pc = "update" /\ i = th[t].id /\ att = th[t].att
  /\ version_counter < MaxVersion
  /\ version_counter' = version_counter + 1
  /\ pending_updates' = Append(pending_updates, Entry(i, version_counter', att, 0))
  /\ cache' = Cached(i, [version |-> version_counter', att |-> att])
  /\ th' = [th EXCEPT ![t] = Idle]
  /\ UNCHANGED <<db, db_attempts, pending_inserts, pending_attempts, insert_seq,
                 committed_insert_seq, last_flush_error, flusher, acked, late, crashes>>

\* insert_workflow writes new rows in a transaction of its own, past the buffers: all or none.
insert_workflow(t, S) ==
  /\ th[t].pc = "idle"
  /\ S # {} /\ \A i \in S : Visible(i) = NoRow
  /\ \A u \in Threads : ~ (th[u].pc = "insert" /\ th[u].id \in S)
  /\ version_counter < MaxVersion
  /\ version_counter' = version_counter + 1     \* the code does not number these rows
  /\ db' = [i \in Ids |-> IF i \in S THEN [version |-> version_counter', att |-> 0] ELSE db[i]]
  /\ acked' = acked \cup S
  /\ UNCHANGED <<db_attempts, buffers, insert_seq, committed_insert_seq, last_flush_error,
                 flusher, th, late, crashes>>

-----------------------------------------------------------------------------
(* The flusher *)

Prefix(s) == SubSeq(s, 1, IF Len(s) < MaxBatch THEN Len(s) ELSE MaxBatch)
Rest(s) == SubSeq(s, Len(Prefix(s)) + 1, Len(s))

\* Take a bounded prefix of every buffer.
BugTakeRowsFirst ==
  /\ flusher.pc = "wait"
  /\ has_pending_locked
  /\ LET rows == pending_inserts # <<>> \/ pending_updates # <<>>
     IN /\ flusher' = [pc |-> "commit", ok |-> TRUE,
                       batch |-> [inserts |-> Prefix(pending_inserts),
                                  updates |-> Prefix(pending_updates),
                                  attempts |-> IF rows THEN <<>> ELSE Prefix(pending_attempts)]]
        /\ pending_attempts' = IF rows THEN pending_attempts ELSE Rest(pending_attempts)
  /\ pending_inserts' = Rest(pending_inserts)
  /\ pending_updates' = Rest(pending_updates)
  /\ late' = late \cup {Rest(pending_attempts)[k] : k \in 1 .. Len(Rest(pending_attempts))}
  /\ UNCHANGED <<db, db_attempts, cache, counters, last_flush_error, th, acked, crashes>>

flusher_take ==
  /\ flusher.pc = "wait"
  /\ has_pending_locked
  /\ flusher' = [pc |-> "commit", ok |-> TRUE,
                 batch |-> [inserts |-> Prefix(pending_inserts),
                            updates |-> Prefix(pending_updates),
                            attempts |-> Prefix(pending_attempts)]]
  /\ pending_inserts' = Rest(pending_inserts)
  /\ pending_updates' = Rest(pending_updates)
  /\ pending_attempts' = Rest(pending_attempts)
  /\ late' = late \cup {Rest(pending_attempts)[k] : k \in 1 .. Len(Rest(pending_attempts))}
  /\ UNCHANGED <<db, db_attempts, cache, counters, last_flush_error, th, acked, crashes>>

\* The row of i after the writes of s, in order.
After(s, i, old) ==
  IF \E k \in 1 .. Len(s) : s[k].id = i
  THEN s[CHOOSE k \in 1 .. Len(s) : s[k].id = i /\ \A m \in k + 1 .. Len(s) : s[m].id # i].row
  ELSE old

\* commit_batch: inserts, then updates (of rows that exist), then attempt records, as one
\* transaction.  A second insert of an id breaks the primary key.
Written(b, i) ==
  LET inserted == After(b.inserts, i, db[i])
  IN IF inserted = NoRow THEN NoRow ELSE After(b.updates, i, inserted)

Duplicate(b) == \E k \in 1 .. Len(b.inserts) : db[b.inserts[k].id] # NoRow

commit_batch ==
  /\ flusher.pc = "commit"
  /\ ~ Duplicate(flusher.batch)
  /\ db' = [i \in Ids |-> Written(flusher.batch, i)]
  /\ db_attempts' = db_attempts
       \cup {flusher.batch.attempts[k] : k \in 1 .. Len(flusher.batch.attempts)}
  /\ flusher' = [flusher EXCEPT !.pc = "retire"]
  /\ UNCHANGED <<buffers, counters, last_flush_error, th, acked, late, crashes>>

commit_fails ==
  /\ flusher.pc = "commit"
  /\ CommitMayFail \/ Duplicate(flusher.batch)
  /\ flusher' = [flusher EXCEPT !.pc = "retire", !.ok = FALSE]
  /\ late' = late \cup {flusher.batch.attempts[k] : k \in 1 .. Len(flusher.batch.attempts)}
  /\ UNCHANGED <<db, db_attempts, buffers, counters, last_flush_error, th, acked, crashes>>

\* A cache entry goes if the version just written is still the newest.
BugRetireAll(i) ==
  \E s \in {flusher.batch.inserts, flusher.batch.updates} : \E k \in 1 .. Len(s) : s[k].id = i
Retired(i) ==
  \E s \in {flusher.batch.inserts, flusher.batch.updates} :
    \E k \in 1 .. Len(s) : s[k].id = i /\ s[k].row.version = cache[i].version

Kept == [i \in {k \in DOMAIN cache : ~ Retired(k)} |-> cache[i]]

\* The watermark of the batch: its inserts are in arrival order.
BugWatermarkLatest ==
  LET b == flusher.batch.inserts IN IF b = <<>> THEN 0 ELSE insert_seq
BugWatermarkOnSuccess ==
  LET b == flusher.batch.inserts IN IF b = <<>> \/ ~ flusher.ok THEN 0 ELSE b[Len(b)].seq
batch_insert_seq ==
  LET b == flusher.batch.inserts IN IF b = <<>> THEN 0 ELSE b[Len(b)].seq

\* After the transaction, whether it went through or not.
flusher_retire ==
  /\ flusher.pc = "retire"
  /\ cache' = Kept
  /\ last_flush_error' = (last_flush_error \/ ~ flusher.ok)
  /\ committed_insert_seq' = IF batch_insert_seq > committed_insert_seq THEN batch_insert_seq
                             ELSE committed_insert_seq
  /\ flusher' = FlusherWaits
  /\ UNCHANGED <<db, db_attempts, pending_inserts, pending_updates, pending_attempts,
                 version_counter, insert_seq, th, acked, late, crashes>>

-----------------------------------------------------------------------------
(* Readers *)

\* get_job of a row that is not in the cache (one that is, is returned at once).
get_job(t, i) ==
  /\ th[t].pc = "idle"
  /\ i \notin DOMAIN cache
  /\ th' = [th EXCEPT ![t] = [Idle EXCEPT !.pc = "get", !.id = i,
                                          !.seen = [k \in Ids |-> IF k = i THEN Table[i] ELSE 0]]]
  /\ UNCHANGED <<db, db_attempts, buffers, counters, last_flush_error, flusher, acked, late, crashes>>

Recorded ==
  db_attempts \cup {pending_attempts[k] : k \in 1 .. Len(pending_attempts)}
              \cup {flusher.batch.attempts[k] : k \in 1 .. Len(flusher.batch.attempts)}

\* The listings and counts (list_jobs, list_workflow_jobs, load_non_terminal_jobs, count_jobs,
\* count_by_state, list_attempts) call flush() and query the database afterwards.
list_begin(t) ==
  /\ th[t].pc = "idle"
  /\ th' = [th EXCEPT ![t] = [Idle EXCEPT !.pc = "flush", !.seen = Table, !.recs = Recorded]]
  /\ UNCHANGED <<db, db_attempts, buffers, counters, last_flush_error, flusher, acked, late, crashes>>

\* flush() polls until nothing is buffered and nothing is in flight.
flush(t) ==
  /\ th[t].pc = "flush"
  /\ ~ has_pending_locked /\ nothing_in_flight
  /\ th' = [th EXCEPT ![t].pc = "list"]
  /\ UNCHANGED <<db, db_attempts, buffers, counters, last_flush_error, flusher, acked, late, crashes>>

\* Reader: take a free connection, or wait for one.
Reader(t) ==
  /\ th[t].pc \in {"get", "list"}
  /\ Cardinality({u \in Threads : th[u].pc = "select"}) < Connections
  /\ th' = [th EXCEPT ![t].pc = "select"]
  /\ UNCHANGED <<db, db_attempts, buffers, counters, last_flush_error, flusher, acked, late, crashes>>

\* The query, and the return of the connection.
select(t) ==
  /\ th[t].pc = "select"
  /\ th' = [th EXCEPT ![t] = Idle]
  /\ UNCHANGED <<db, db_attempts, buffers, counters, last_flush_error, flusher, acked, late, crashes>>

-----------------------------------------------------------------------------
(* The end of the process *)

\* A new JobStore on the same file.
Reopened ==
  /\ pending_inserts' = <<>> /\ pending_updates' = <<>> /\ pending_attempts' = <<>>
  /\ cache' = [i \in {} |-> NoRow]
  /\ committed_insert_seq' = insert_seq
  /\ last_flush_error' = FALSE
  /\ flusher' = FlusherWaits
  /\ th' = [t \in Threads |-> Idle]
  /\ crashes' = crashes + 1
  /\ UNCHANGED <<db, db_attempts, version_counter, insert_seq, acked, late>>

crash ==
  /\ crashes < MaxCrashes
  /\ Reopened

\* ~JobStore, when no call is in progress: flush(), then the flusher is stopped.
close ==
  /\ crashes < MaxCrashes
  /\ \A t \in Threads : th[t].pc = "idle"
  /\ ~ has_pending_locked /\ nothing_in_flight
  /\ Reopened

-----------------------------------------------------------------------------
Flusher == flusher_take \/ commit_batch \/ commit_fails \/ flusher_retire

\* The steps that carry a call on, and the calls themselves.
Continue(t) ==
  \/ insert_return(t) \/ flush(t) \/ Reader(t) \/ select(t)
  \/ th[t].pc \in {"recorded", "update"} /\ \/ update_job_full(t, th[t].id, th[t].att)
                                            \/ update_job(t, th[t].id, th[t].att)
Call(t) ==
  \/ \E i \in Ids : insert_job(t, i) \/ append_attempt(t, i) \/ get_job(t, i)
  \/ \E i \in Ids : th[t].pc = "idle" /\ (update_job_full(t, i, 0) \/ update_job(t, i, 0))
  \/ \E S \in SUBSET Ids : insert_workflow(t, S)
  \/ list_begin(t)

Next ==
  \/ \E t \in Threads : Continue(t) \/ Call(t)
  \/ Flusher
  \/ crash \/ close

Spec == Init /\ [][Next]_vars

-----------------------------------------------------------------------------
(* Properties *)

\* insert_job is acknowledged only when the row is durable (store.hpp:59-60): whatever batches
\* fail and whenever the process dies, an id for which it returned true has a row on disk.
AckedDurable == \A i \in acked : db[i] # NoRow

\* The table readers see, the disk and the error flag behave as WriteBehindTable: a write is
\* visible at once and stays visible until it is on disk, however batches and writes interleave;
\* the disk never returns to an older row; only a crash or a reported failure takes rows back.
W == INSTANCE WriteBehindTable WITH table <- Table, disk <- [i \in Ids |-> db[i].version],
                                    error <- last_flush_error
RefinesTable == W!Spec

\* A query finds every row and record that was visible or buffered when the call began: a cache
\* miss is followed by a read of the database while the flusher goes on, and a listing reads the
\* database alone after its flush.
ReadsFresh ==
  [][\A t \in Threads : (th[t].pc = "select" /\ th'[t].pc = "idle" /\ ~ last_flush_error) =>
       /\ \A i \in Ids : db[i].version >= th[t].seen[i]
       /\ th[t].recs \subseteq db_attempts]_vars

\* A row on disk never reports an attempt whose record is not there, unless a full batch left the
\* record in the buffer or the record's own transaction failed: finish_attempt appends the record
\* first, but record and row travel in different buffers, may leave in different batches, and a
\* crash may come between them.
RecordPrecedesRow == \A i \in Ids : db[i].att \in {0} \cup db_attempts \cup late

\* docs/ARCHITECTURE.md:62-63: the attempt row and the jobs row are written "Both in one
\* transaction."  They are not: while one thread is between append_attempt and update_job, a full
\* batch can take the row of a later attempt and leave its record (StoreRecord.cfg).
RecordWithRow == \A i \in Ids : db[i].att \in {0} \cup db_attempts

\* No insert waits for ever: until the watermark has reached a waiting insert, its row is in the
\* buffer or in the batch of the flusher, failed batches included.
InsertsAreServed ==
  \A t \in Threads : th[t].pc = "insert" =>
    \/ committed_insert_seq >= th[t].seq
    \/ \E s \in {pending_inserts, flusher.batch.inserts} :
         \E k \in 1 .. Len(s) : s[k].id = th[t].id /\ s[k].seq = th[t].seq

-----------------------------------------------------------------------------
(* The inductive invariant of the proofs *)

\* A call that works on a job has one.
CallInv == \A t \in Threads : th[t].pc \in {"insert", "recorded", "update"} => th[t].id \in Ids

\* s holds rows, in the order of their numbers, which are above lo and not above hi.
InOrder(s, lo, hi) ==
  /\ \A k \in 1 .. Len(s) : s[k].row # NoRow
  /\ \A k \in 1 .. Len(s) : lo < s[k].seq /\ s[k].seq <= hi
  /\ \A k, m \in 1 .. Len(s) : k < m => s[k].seq < s[m].seq

Precedes(s, r) == \A k \in 1 .. Len(s), m \in 1 .. Len(r) : s[k].seq < r[m].seq

\* What is buffered comes after what is in the batch, and the batch after the watermark; a batch
\* whose transaction went through is in the database.
BufferInv ==
  /\ committed_insert_seq <= insert_seq
  /\ InOrder(pending_inserts, committed_insert_seq, insert_seq)
  /\ InOrder(flusher.batch.inserts, committed_insert_seq, insert_seq)
  /\ \A k \in 1 .. Len(pending_updates) : pending_updates[k].row # NoRow
  /\ \A k \in 1 .. Len(flusher.batch.updates) : flusher.batch.updates[k].row # NoRow
  /\ Precedes(flusher.batch.inserts, pending_inserts)
  /\ flusher.pc = "wait" => flusher.batch.inserts = <<>>
  /\ (flusher.pc = "retire" /\ flusher.ok) =>
       \A k \in 1 .. Len(flusher.batch.inserts) : db[flusher.batch.inserts[k].id] # NoRow

Holds(s, t) == \E k \in 1 .. Len(s) : s[k].id = th[t].id /\ s[k].seq = th[t].seq

\* A waiting insert is buffered, in the batch, or below the watermark with its row in the
\* database or the error reported.
InsertInv ==
  \A t \in Threads : th[t].pc = "insert" =>
    \/ Holds(pending_inserts, t)
    \/ Holds(flusher.batch.inserts, t)
    \/ th[t].seq <= committed_insert_seq /\ (last_flush_error \/ db[th[t].id] # NoRow)

DurabilityInv == CallInv /\ BufferInv /\ InsertInv /\ AckedDurable

\* The writes of the flusher's batch, the writes behind it, and both.
Items(s) == {s[k] : k \in 1 .. Len(s)}
Taken == Items(flusher.batch.inserts) \cup Items(flusher.batch.updates)
Waiting == Items(pending_inserts) \cup Items(pending_updates)
Inserting == Items(pending_inserts) \cup Items(flusher.batch.inserts)
Updating == Items(pending_updates) \cup Items(flusher.batch.updates)

Before(e, f) == e.id = f.id => e.row.version < f.row.version
Ascending(s) == \A k, m \in 1 .. Len(s) : k < m => s[k].row.version < s[m].row.version

\* Every buffered insert has a thread that waits for it, so a batch takes them all.
WaiterInv ==
  \A e \in Items(pending_inserts) : \E t \in Threads : th[t].pc = "insert" /\ th[t].seq = e.seq

\* Only a batch under way holds anything; a finished one has written its records or lost them.
BatchInv ==
  /\ flusher.pc = "wait" => flusher.batch = EmptyBatch
  /\ flusher.pc \in {"wait", "commit"} => flusher.ok
  /\ flusher.pc = "retire" => Items(flusher.batch.attempts) \subseteq db_attempts \cup late

\* Versions are in use up to version_counter, and 0 means no row.
VersionInv ==
  /\ \A e \in Taken \cup Waiting : 0 < e.row.version /\ e.row.version <= version_counter
  /\ \A i \in DOMAIN cache : 0 < cache[i].version /\ cache[i].version <= version_counter
  /\ \A i \in Ids : db[i].version <= version_counter /\ (db[i].version = 0 => db[i] = NoRow)

\* The writes of a job are in the order of their versions: the disk, the batch, the buffers.
OrderInv ==
  /\ \A s \in {pending_inserts, pending_updates, flusher.batch.inserts, flusher.batch.updates} :
       Ascending(s)
  /\ \A e \in Taken, f \in Waiting : Before(e, f)
  /\ \A e \in Inserting, f \in Updating : Before(e, f)
  /\ \A e \in Waiting : db[e.id].version < e.row.version
  /\ flusher.pc = "commit" => \A e \in Taken : db[e.id].version < e.row.version

\* The cache holds the newest write of every job that has one under way, and nothing else; what
\* it holds is not older than the disk.
CacheInv ==
  /\ \A e \in Taken \cup Waiting : e.id \in DOMAIN cache /\ e.row.version <= cache[e.id].version
  /\ \A i \in DOMAIN cache :
       \E e \in Taken \cup Waiting : e.id = i /\ e.row.version = cache[i].version
  /\ \A i \in DOMAIN cache : db[i].version <= cache[i].version

\* As long as no batch has failed, an update is of a row that is on disk or on its way there, a
\* call that will write an update still finds its row, and a batch that went through is on disk.
ExistInv ==
  ~ last_flush_error =>
    /\ flusher.ok => \A f \in Updating : \/ db[f.id] # NoRow
                                         \/ \E e \in Inserting : e.id = f.id
    /\ \A t \in Threads : th[t].pc \in {"recorded", "update"} => Visible(th[t].id) # NoRow
    /\ (flusher.pc = "retire" /\ flusher.ok) =>
         \A i \in DOMAIN cache : Retired(i) => db[i].version = cache[i].version

TableInv == WaiterInv /\ BatchInv /\ VersionInv /\ OrderInv /\ CacheInv /\ ExistInv

\* What a read of t has to find is on disk when the read gets to the disk, and is visible or
\* buffered until then.
Fresh(t) ==
  /\ (th[t].pc \in {"list", "select"} /\ ~ last_flush_error) =>
       (\A i \in Ids : th[t].seen[i] <= db[i].version) /\ th[t].recs \subseteq db_attempts
  /\ th[t].pc = "get" => (\A i \in Ids : th[t].seen[i] <= db[i].version) /\ th[t].recs = {}
  /\ (th[t].pc = "flush" /\ ~ last_flush_error) =>
       (\A i \in Ids : th[t].seen[i] <= Table[i]) /\ th[t].recs \subseteq Recorded

ReadInv ==
  /\ (flusher.pc = "retire" /\ flusher.ok) => Items(flusher.batch.attempts) \subseteq db_attempts
  /\ \A t \in Threads : Fresh(t)

\* The record of an attempt goes ahead of the row that reports it at every stage.
RecordInv ==
  /\ RecordPrecedesRow
  /\ \A e \in Inserting : e.row.att = 0
  /\ \A e \in Items(flusher.batch.updates) :
       e.row.att \in {0} \cup db_attempts \cup late \cup Items(flusher.batch.attempts)
  /\ \A e \in Items(pending_updates) : e.row.att \in {0} \cup Recorded \cup late
  /\ \A t \in Threads : th[t].pc \in {"recorded", "update"} =>
                          th[t].att \in {0} \cup Recorded \cup late

StoreInv == TypeOK /\ DurabilityInv /\ TableInv /\ ReadInv /\ RecordInv
=============================================================================
