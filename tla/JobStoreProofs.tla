--------------------------- MODULE JobStoreProofs ---------------------------
(* What the helpers of JobStore compute, and that its steps keep the types.    *)
(* Group commit: an acknowledged insert is durable, and no insert is left      *)
(* waiting.  What the flusher and a restart do to the table.                   *)
EXTENDS JobStore, FiniteSetTheorems, TLAPS

(* Sequences *)

LEMMA Element ==
  ASSUME NEW S, NEW s \in Seq(S)
  PROVE  \A k \in 1 .. Len(s) : s[k] \in S
OBVIOUS

LEMMA NoElement ==
  ASSUME NEW S, NEW s \in Seq(S), Len(s) = 0
  PROVE  s = <<>>
OBVIOUS

\* A set of positions that is not empty has a last one.
LEMMA LastPosition ==
  ASSUME NEW n \in Nat, NEW K \in SUBSET (1 .. n), K # {}
  PROVE  \E k \in K : \A m \in K : m <= k
<1> DEFINE D == {n - k : k \in K}
<1>1. D \subseteq Nat /\ D # {}
  <2>1. \A k \in K : n - k \in Nat
    OBVIOUS
  <2>2. PICK k \in K : TRUE
    BY Zenon
  <2>3. n - k \in D
    BY Zenon
  <2> QED BY <2>1, <2>3, Zenon
<1> DEFINE R == OpToRel(<, Nat)
<1>2. IsWellFoundedOn(R, Nat)
  BY NatLessThanWellFounded, Zenon
<1>3. \A A, B, T : (IsWellFoundedOn(A, B) /\ T \subseteq B /\ T # {})
                     => \E x \in T : \A y \in T : ~ (<<y, x>> \in A)
  BY WFMin, Zenon
<1> HIDE DEF D, R
<1>4. \E x \in D : \A y \in D : ~ (<<y, x>> \in R)
  BY <1>1, <1>2, <1>3, Zenon
<1>5. PICK x \in D : \A y \in D : ~ (<<y, x>> \in R)
  BY <1>4, Zenon
<1>6. \A y \in D : ~ (y < x)
  BY <1>5, <1>1, Zenon DEF R, OpToRel
<1>7. PICK k \in K : x = n - k
  BY Zenon DEF D
<1>8. \A m \in K : m <= k
  BY <1>6, <1>7 DEF D
<1> QED BY <1>8, Zenon

\* The two parts of a buffer keep its elements in their order.
LEMMA Split ==
  ASSUME NEW S, NEW s \in Seq(S)
  PROVE  /\ Prefix(s) \in Seq(S) /\ Rest(s) \in Seq(S)
         /\ Len(Prefix(s)) \in Nat /\ Len(Prefix(s)) <= Len(s)
         /\ Len(Rest(s)) = Len(s) - Len(Prefix(s))
         /\ \A k \in 1 .. Len(Prefix(s)) : Prefix(s)[k] = s[k]
         /\ \A k \in 1 .. Len(Rest(s)) : Rest(s)[k] = s[Len(Prefix(s)) + k]
<1> DEFINE n == IF Len(s) < MaxBatch THEN Len(s) ELSE MaxBatch
<1>1. n \in Nat /\ n <= Len(s)
  BY StoreAssumption
<1>2. \A k \in 1 .. Len(s) : s[k] \in S
  OBVIOUS
<1> HIDE DEF n
<1>3. /\ SubSeq(s, 1, n) \in Seq(S)
      /\ Len(SubSeq(s, 1, n)) = n
      /\ \A k \in 1 .. n : SubSeq(s, 1, n)[k] = s[k]
  BY <1>1, <1>2
<1>4. /\ SubSeq(s, n + 1, Len(s)) \in Seq(S)
      /\ Len(SubSeq(s, n + 1, Len(s))) = Len(s) - n
      /\ \A k \in 1 .. Len(s) - n : SubSeq(s, n + 1, Len(s))[k] = s[n + k]
  BY <1>1, <1>2
<1>5. Prefix(s) = SubSeq(s, 1, n)
  BY Zenon DEF Prefix, n
<1>6. Rest(s) = SubSeq(s, n + 1, Len(s))
  BY <1>5, <1>3, Zenon DEF Rest
<1> QED BY <1>1, <1>3, <1>4, <1>5, <1>6, Zenon

\* A written id has the row of one of its writes.
LEMMA AfterIsWritten ==
  ASSUME NEW s \in Seq(Buffered), NEW i, NEW old, \E k \in 1 .. Len(s) : s[k].id = i
  PROVE  \E k \in 1 .. Len(s) : After(s, i, old) = s[k].row
<1> DEFINE K == {k \in 1 .. Len(s) : s[k].id = i}
<1>1. \E k \in K : \A m \in K : m <= k
  <2>1. Len(s) \in Nat /\ K \in SUBSET (1 .. Len(s)) /\ K # {}
    OBVIOUS
  <2> HIDE DEF K
  <2> QED BY <2>1, LastPosition, Zenon
<1>2. \E k \in 1 .. Len(s) : s[k].id = i /\ \A m \in k + 1 .. Len(s) : s[m].id # i
  BY <1>1
<1> QED BY <1>2, Zenon DEF After

\* Writes leave a row: an old one stays a row, and a written id gets one.
LEMMA AfterRow ==
  ASSUME NEW s \in Seq(Buffered), \A k \in 1 .. Len(s) : s[k].row # NoRow, NEW i, NEW old,
         old # NoRow \/ \E k \in 1 .. Len(s) : s[k].id = i
  PROVE  After(s, i, old) # NoRow
<1>1. CASE \E k \in 1 .. Len(s) : s[k].id = i
  BY <1>1, AfterIsWritten, Zenon
<1>2. CASE ~ \E k \in 1 .. Len(s) : s[k].id = i
  BY <1>2, Zenon DEF After
<1> QED BY <1>1, <1>2, Zenon

LEMMA AfterType ==
  ASSUME NEW s \in Seq(Buffered), NEW i, NEW old \in Row
  PROVE  After(s, i, old) \in Row
<1>1. \A k \in 1 .. Len(s) : s[k] \in Buffered
  BY Element, Zenon
<1>2. \A e \in Buffered : e.row \in Row
  BY Zenon DEF Buffered
<1>3. CASE \E k \in 1 .. Len(s) : s[k].id = i
  <2>1. PICK k \in 1 .. Len(s) : After(s, i, old) = s[k].row
    BY <1>3, AfterIsWritten, Zenon
  <2> QED BY <1>1, <1>2, <2>1, Zenon
<1>4. CASE ~ \E k \in 1 .. Len(s) : s[k].id = i
  BY <1>4, Zenon DEF After
<1> QED BY <1>3, <1>4, Zenon

\* A transaction takes no row away and leaves a row for every insert of the batch.
LEMMA WrittenRow ==
  ASSUME TypeOK, BufferInv, NEW i \in Ids,
         db[i] # NoRow \/ \E k \in 1 .. Len(flusher.batch.inserts) : flusher.batch.inserts[k].id = i
  PROVE  Written(flusher.batch, i) # NoRow
<1>1. flusher.batch.inserts \in Seq(Buffered) /\ flusher.batch.updates \in Seq(Buffered)
  BY Zenon DEF TypeOK, Batch
<1>2. \A k \in 1 .. Len(flusher.batch.inserts) : flusher.batch.inserts[k].row # NoRow
  BY Zenon DEF BufferInv, InOrder
<1>3. \A k \in 1 .. Len(flusher.batch.updates) : flusher.batch.updates[k].row # NoRow
  BY Zenon DEF BufferInv
<1>4. After(flusher.batch.inserts, i, db[i]) # NoRow
  BY <1>1, <1>2, AfterRow, Zenon
<1>5. After(flusher.batch.updates, i, After(flusher.batch.inserts, i, db[i])) # NoRow
  BY <1>1, <1>3, <1>4, AfterRow, Zenon
<1> QED BY <1>4, <1>5, Zenon DEF Written
-----------------------------------------------------------------------------
(* Type correctness *)

LEMMA EntryType ==
  ASSUME NEW i \in Ids, NEW v \in Nat, NEW att \in Nat, NEW seq \in Nat
  PROVE  Entry(i, v, att, seq) \in Buffered
BY Zenon DEF Entry, Buffered, Row

LEMMA IdleType == Idle \in Thread
BY Zenon DEF Idle, Thread, Pcs

LEMMA FlusherWaitsType ==
  FlusherWaits \in [pc : {"wait", "commit", "retire"}, batch : Batch, ok : BOOLEAN]
BY DEF FlusherWaits, EmptyBatch, Batch

LEMMA CachedType ==
  ASSUME TypeOK, NEW i \in Ids, NEW r \in Row
  PROVE  \E S \in SUBSET Ids : Cached(i, r) \in [S -> Row]
<1>1. PICK S \in SUBSET Ids : cache \in [S -> Row]
  BY Zenon DEF TypeOK
<1>2. S \cup {i} \in SUBSET Ids
  BY Zenon
<1>3. Cached(i, r) \in [S \cup {i} -> Row]
  BY <1>1, Zenon DEF Cached
<1> QED BY <1>2, <1>3, Zenon

LEMMA VisibleType ==
  ASSUME TypeOK, NEW i \in Ids
  PROVE  Visible(i) \in Row
BY Zenon DEF TypeOK, Visible

LEMMA TableType ==
  ASSUME TypeOK
  PROVE  Table \in [Ids -> Nat]
<1>1. \A r \in Row : r.version \in Nat
  BY Zenon DEF Row
<1>2. \A i \in Ids : Visible(i).version \in Nat
  BY <1>1, VisibleType, Zenon
<1> QED BY <1>2, Zenon DEF Table

LEMMA BatchType ==
  ASSUME TypeOK
  PROVE  /\ flusher.batch \in Batch
         /\ flusher.batch.inserts \in Seq(Buffered)
         /\ flusher.batch.updates \in Seq(Buffered)
         /\ flusher.batch.attempts \in Seq(Nat)
BY Zenon DEF TypeOK, Batch

LEMMA ThreadType ==
  ASSUME TypeOK, NEW t \in Threads
  PROVE  /\ th[t] \in Thread /\ th[t].pc \in Pcs /\ th[t].id \in Ids \cup {NoId}
         /\ th[t].att \in Nat /\ th[t].seq \in Nat
BY Zenon DEF TypeOK, Thread

\* The calls that only move a thread.
LEMMA ThreadMoves ==
  ASSUME TypeOK, NEW t \in Threads, NEW l \in Thread, th' = [th EXCEPT ![t] = l],
         UNCHANGED <<db, db_attempts, buffers, counters, last_flush_error, flusher, late, crashes>>,
         acked' \in SUBSET Ids
  PROVE  TypeOK'
BY Zenon DEF TypeOK, buffers, counters

LEMMA TypeCalls ==
  ASSUME TypeOK, CallInv, NEW t \in Threads, Continue(t) \/ Call(t)
  PROVE  TypeOK'
<1> USE IdleType, ThreadType
<1>1. CASE insert_return(t)
  <2>1. acked' \in SUBSET Ids
    BY <1>1, Zenon DEF insert_return, CallInv, TypeOK
  <2> QED BY <1>1, <2>1, ThreadMoves, Zenon DEF insert_return
<1>2. CASE flush(t) \/ Reader(t)
  <2>1. PICK p \in {"list", "select"} : th' = [th EXCEPT ![t].pc = p]
    BY <1>2, Zenon DEF flush, Reader
  <2>2. [th[t] EXCEPT !.pc = p] \in Thread
    BY <2>1, Zenon DEF Thread, Pcs
  <2>3. th' = [th EXCEPT ![t] = [th[t] EXCEPT !.pc = p]]
    BY <2>1, Zenon DEF TypeOK
  <2>4. acked' \in SUBSET Ids
    BY <1>2, Zenon DEF flush, Reader, TypeOK
  <2> QED BY <1>2, <2>2, <2>3, <2>4, ThreadMoves, Zenon DEF flush, Reader
<1>3. CASE select(t)
  BY <1>3, ThreadMoves, Zenon DEF select, TypeOK
<1>4. ASSUME NEW i \in Ids, NEW att \in Nat, update_job_full(t, i, att)
      PROVE  TypeOK'
  <2>1. [Idle EXCEPT !.pc = "update", !.id = i, !.att = att] \in Thread
    BY Zenon DEF Thread, Pcs
  <2> QED BY <1>4, <2>1, ThreadMoves, Zenon DEF update_job_full, TypeOK
<1>5. ASSUME NEW i \in Ids, NEW att \in Nat, update_job(t, i, att)
      PROVE  TypeOK'
  <2>1. version_counter' \in Nat
    BY <1>5 DEF update_job, TypeOK
  <2>2. Entry(i, version_counter', att, 0) \in Buffered
    BY <2>1, EntryType, Zenon
  <2>3. [version |-> version_counter', att |-> att] \in Row
    BY <2>1, Zenon DEF Row
  <2>4. \E S \in SUBSET Ids : cache' \in [S -> Row]
    BY <1>5, <2>3, CachedType, Zenon DEF update_job
  <2>5. pending_updates' \in Seq(Buffered) /\ th' \in [Threads -> Thread]
    BY <1>5, <2>2 DEF update_job, TypeOK
  <2> QED BY <1>5, <2>1, <2>4, <2>5, Zenon DEF update_job, TypeOK
<1>6. ASSUME NEW i \in Ids, insert_job(t, i)
      PROVE  TypeOK'
  <2>1. version_counter' \in Nat /\ insert_seq' \in Nat
    BY <1>6, SMTT(30) DEF insert_job, TypeOK
  <2>2. Entry(i, version_counter', 0, insert_seq') \in Buffered
    BY <2>1, EntryType, Zenon
  <2>3. [version |-> version_counter', att |-> 0] \in Row
    BY <2>1, Zenon DEF Row
  <2>4. \E S \in SUBSET Ids : cache' \in [S -> Row]
    BY <1>6, <2>3, CachedType, Zenon DEF insert_job
  <2>5. [Idle EXCEPT !.pc = "insert", !.id = i, !.seq = insert_seq'] \in Thread
    BY <2>1, Zenon DEF Thread, Pcs
  <2>6. pending_inserts' \in Seq(Buffered) /\ th' \in [Threads -> Thread]
    BY <1>6, <2>2, <2>5, SMTT(30) DEF insert_job, TypeOK
  <2> QED BY <1>6, <2>1, <2>4, <2>6, Zenon DEF insert_job, TypeOK
<1>7. ASSUME NEW i \in Ids, append_attempt(t, i)
      PROVE  TypeOK'
  <2>1. version_counter' \in Nat
    BY <1>7, SMTT(30) DEF append_attempt, TypeOK
  <2>2. [Idle EXCEPT !.pc = "recorded", !.id = i, !.att = version_counter'] \in Thread
    BY <2>1, Zenon DEF Thread, Pcs
  <2> QED BY <1>7, <2>1, <2>2, SMTT(30) DEF append_attempt, TypeOK
<1>8. ASSUME NEW i \in Ids, get_job(t, i)
      PROVE  TypeOK'
  <2>1. [k \in Ids |-> IF k = i THEN Table[i] ELSE 0] \in [Ids -> Nat]
    BY TableType, Zenon
  <2>2. [Idle EXCEPT !.pc = "get", !.id = i,
                     !.seen = [k \in Ids |-> IF k = i THEN Table[i] ELSE 0]] \in Thread
    BY <2>1, Zenon DEF Thread, Pcs
  <2> QED BY <1>8, <2>2, ThreadMoves, Zenon DEF get_job, TypeOK
<1>9. CASE list_begin(t)
  <2>1. Recorded \in SUBSET Nat
    <3>1. \A k \in 1 .. Len(pending_attempts) : pending_attempts[k] \in Nat
      BY DEF TypeOK
    <3>2. \A k \in 1 .. Len(flusher.batch.attempts) : flusher.batch.attempts[k] \in Nat
      BY BatchType
    <3> QED BY <3>1, <3>2, ZenonT(60) DEF Recorded, TypeOK
  <2>2. [Idle EXCEPT !.pc = "flush", !.seen = Table, !.recs = Recorded] \in Thread
    BY <2>1, TableType, Zenon DEF Thread, Pcs
  <2> QED BY <1>9, <2>2, ThreadMoves, Zenon DEF list_begin, TypeOK
<1>10. ASSUME NEW S \in SUBSET Ids, insert_workflow(t, S)
       PROVE  TypeOK'
  <2>1. version_counter' \in Nat
    BY <1>10 DEF insert_workflow, TypeOK
  <2>2. [version |-> version_counter', att |-> 0] \in Row
    BY <2>1, Zenon DEF Row
  <2>3. db' \in [Ids -> Row]
    BY <1>10, <2>2, Zenon DEF insert_workflow, TypeOK
  <2>4. acked' \in SUBSET Ids
    BY <1>10, Zenon DEF insert_workflow, TypeOK
  <2> QED BY <1>10, <2>1, <2>3, <2>4, Zenon DEF insert_workflow, TypeOK, buffers
<1>11. CASE th[t].pc \in {"recorded", "update"} /\ \/ update_job_full(t, th[t].id, th[t].att)
                                                   \/ update_job(t, th[t].id, th[t].att)
  <2>1. th[t].id \in Ids
    BY <1>11, Zenon DEF CallInv
  <2> QED BY <1>11, <2>1, <1>4, <1>5, Zenon
<1>12. 0 \in Nat
  BY Zenon
<1> QED BY <1>1, <1>2, <1>3, <1>4, <1>5, <1>6, <1>7, <1>8, <1>9, <1>10, <1>11, <1>12, Zenon
        DEF Continue, Call

LEMMA TypeFlusher ==
  ASSUME TypeOK, Flusher
  PROVE  TypeOK'
<1> USE BatchType
<1>a. {flusher.batch.attempts[k] : k \in 1 .. Len(flusher.batch.attempts)} \in SUBSET Nat
  <2>1. \A k \in 1 .. Len(flusher.batch.attempts) : flusher.batch.attempts[k] \in Nat
    OBVIOUS
  <2> QED BY <2>1, Zenon
<1>1. CASE flusher_take
  <2>1. /\ pending_inserts \in Seq(Buffered) /\ pending_updates \in Seq(Buffered)
        /\ pending_attempts \in Seq(Nat)
    BY Zenon DEF TypeOK
  <2>2. /\ Prefix(pending_inserts) \in Seq(Buffered) /\ Rest(pending_inserts) \in Seq(Buffered)
        /\ Prefix(pending_updates) \in Seq(Buffered) /\ Rest(pending_updates) \in Seq(Buffered)
        /\ Prefix(pending_attempts) \in Seq(Nat) /\ Rest(pending_attempts) \in Seq(Nat)
    BY <2>1, Split, Zenon
  <2>3. late' \in SUBSET Nat
    <3> DEFINE r == Rest(pending_attempts)
               A == {r[k] : k \in 1 .. Len(r)}
    <3>1. \A k \in 1 .. Len(r) : r[k] \in Nat
      BY <2>2, Element, Zenon
    <3>2. A \in SUBSET Nat
      BY <3>1, Zenon
    <3>3. late' = late \cup A /\ late \in SUBSET Nat
      BY <1>1, Zenon DEF flusher_take, TypeOK
    <3> HIDE DEF A
    <3> QED BY <3>2, <3>3, Zenon
  <2> QED BY <1>1, <2>2, <2>3, Zenon DEF flusher_take, TypeOK, Batch, counters
<1>2. CASE commit_batch
  <2>1. \A i \in Ids : Written(flusher.batch, i) \in Row
    <3> SUFFICES ASSUME NEW i \in Ids PROVE Written(flusher.batch, i) \in Row
      BY Zenon
    <3>1. db[i] \in Row /\ NoRow \in Row
      BY Zenon DEF TypeOK, NoRow, Row
    <3>2. After(flusher.batch.inserts, i, db[i]) \in Row
      BY <3>1, AfterType, Zenon
    <3>3. After(flusher.batch.updates, i, After(flusher.batch.inserts, i, db[i])) \in Row
      BY <3>2, AfterType, Zenon
    <3> QED BY <3>1, <3>3, Zenon DEF Written
  <2>2. db' \in [Ids -> Row]
    BY <1>2, <2>1, Zenon DEF commit_batch
  <2>3. db_attempts' \in SUBSET Nat
    <3> DEFINE A == {flusher.batch.attempts[k] : k \in 1 .. Len(flusher.batch.attempts)}
    <3>1. db_attempts' = db_attempts \cup A
      BY <1>2, Zenon DEF commit_batch
    <3>2. A \in SUBSET Nat /\ db_attempts \in SUBSET Nat
      BY <1>a, Zenon DEF TypeOK
    <3> HIDE DEF A
    <3> QED BY <3>1, <3>2, Zenon
  <2> QED BY <1>2, <2>2, <2>3, Zenon DEF commit_batch, TypeOK, buffers, counters
<1>3. CASE commit_fails
  <2>1. late' \in SUBSET Nat
    BY <1>3, <1>a, Zenon DEF commit_fails, TypeOK
  <2> QED BY <1>3, <2>1, Zenon DEF commit_fails, TypeOK, buffers, counters
<1>4. CASE flusher_retire
  <2>1. \E S \in SUBSET Ids : Kept \in [S -> Row]
    <3>1. PICK S \in SUBSET Ids : cache \in [S -> Row]
      BY Zenon DEF TypeOK
    <3>2. Kept \in [{k \in S : ~ Retired(k)} -> Row]
      BY <3>1, Zenon DEF Kept
    <3> QED BY <3>1, <3>2, Zenon
  <2>2. batch_insert_seq \in Nat
    <3>1. CASE flusher.batch.inserts # <<>>
      <4>1. Len(flusher.batch.inserts) \in 1 .. Len(flusher.batch.inserts)
        BY <3>1
      <4>2. flusher.batch.inserts[Len(flusher.batch.inserts)] \in Buffered
        BY <4>1
      <4> QED BY <3>1, <4>2, Zenon DEF batch_insert_seq, Buffered
    <3>2. CASE flusher.batch.inserts = <<>>
      BY <3>2, Zenon DEF batch_insert_seq
    <3> QED BY <3>1, <3>2, Zenon
  <2> QED BY <1>4, <2>1, <2>2, FlusherWaitsType, Zenon DEF flusher_retire, TypeOK
<1> QED BY <1>1, <1>2, <1>3, <1>4, Zenon DEF Flusher

LEMMA TypeReopened ==
  ASSUME TypeOK, Reopened
  PROVE  TypeOK'
<1>1. cache' \in [{} -> Row] /\ {} \in SUBSET Ids
  BY Zenon DEF Reopened
<1>2. \E S \in SUBSET Ids : cache' \in [S -> Row]
  BY <1>1, Zenon
<1>3. th' \in [Threads -> Thread]
  BY IdleType, Zenon DEF Reopened
<1>4. /\ pending_inserts' \in Seq(Buffered) /\ pending_updates' \in Seq(Buffered)
      /\ pending_attempts' \in Seq(Nat)
  BY DEF Reopened
<1>5. flusher' \in [pc : {"wait", "commit", "retire"}, batch : Batch, ok : BOOLEAN]
  BY FlusherWaitsType, Zenon DEF Reopened
<1>6. /\ committed_insert_seq' \in Nat /\ crashes' \in Nat
      /\ version_counter' \in Nat /\ insert_seq' \in Nat
  BY DEF Reopened, TypeOK
<1>7. last_flush_error' \in BOOLEAN
  BY Zenon DEF Reopened
<1> QED BY <1>7, <1>2, <1>3, <1>4, <1>5, <1>6, Zenon DEF Reopened, TypeOK
-----------------------------------------------------------------------------
(* A step that leaves the buffers, the batch and the database alone and starts no insert. *)
LEMMA QuietStep ==
  ASSUME DurabilityInv, AckedDurable',
         UNCHANGED <<db, pending_inserts, pending_updates, committed_insert_seq, insert_seq,
                     last_flush_error, flusher>>,
         \A u \in Threads : \/ th'[u] = th[u]
                            \/ /\ th'[u].pc # "insert"
                               /\ th'[u].pc \in {"recorded", "update"} => th'[u].id \in Ids
  PROVE  DurabilityInv'
<1>1. CallInv'
  BY Zenon DEF DurabilityInv, CallInv
<1>2. BufferInv'
  BY Zenon DEF DurabilityInv, BufferInv
<1>3. InsertInv'
  <2> SUFFICES ASSUME NEW u \in Threads, th'[u].pc = "insert"
               PROVE  \/ Holds(pending_inserts, u)'
                      \/ Holds(flusher.batch.inserts, u)'
                      \/ /\ th'[u].seq <= committed_insert_seq'
                         /\ last_flush_error' \/ db'[th'[u].id] # NoRow
    BY Zenon DEF InsertInv
  <2>1. th'[u] = th[u]
    BY Zenon
  <2> QED BY <2>1, Zenon DEF DurabilityInv, InsertInv, Holds
<1> QED BY <1>1, <1>2, <1>3, Zenon DEF DurabilityInv

(* A row that was just numbered is a row. *)
LEMMA NumberedRow ==
  ASSUME NEW v \in Nat, NEW att, NEW i, NEW seq
  PROVE  /\ Entry(i, v + 1, att, seq).row # NoRow
         /\ Entry(i, v + 1, att, seq).id = i
         /\ Entry(i, v + 1, att, seq).seq = seq
BY DEF Entry, NoRow

LEMMA SeqNumbers ==
  ASSUME NEW s \in Seq(Buffered)
  PROVE  \A k \in 1 .. Len(s) : s[k].seq \in Nat /\ s[k].id \in Ids
<1>1. \A k \in 1 .. Len(s) : s[k] \in Buffered
  BY Element, Zenon
<1>2. \A e \in Buffered : e.seq \in Nat /\ e.id \in Ids
  BY Zenon DEF Buffered
<1> QED BY <1>1, <1>2, Zenon

(* How the order of a buffer survives. *)
LEMMA OrderAppend ==
  ASSUME NEW s \in Seq(Buffered), NEW lo \in Nat, NEW hi \in Nat, lo <= hi, InOrder(s, lo, hi),
         NEW e \in Buffered, e.row # NoRow, e.seq = hi + 1
  PROVE  InOrder(Append(s, e), lo, hi + 1)
<1>1. \A k \in 1 .. Len(s) : s[k].seq \in Nat
  BY SeqNumbers, Zenon
<1>2. /\ Len(Append(s, e)) = Len(s) + 1 /\ Len(s) \in Nat
      /\ \A k \in 1 .. Len(s) : Append(s, e)[k] = s[k]
      /\ Append(s, e)[Len(s) + 1] = e
  OBVIOUS
<1> DEFINE a == Append(s, e)
<1> HIDE DEF a
<1> QED BY <1>1, <1>2, SMTT(30) DEF InOrder

LEMMA OrderBounds ==
  ASSUME NEW s \in Seq(Buffered), NEW lo \in Nat, NEW hi \in Nat, InOrder(s, lo, hi),
         NEW low \in Nat, NEW high \in Nat, hi <= high,
         \A k \in 1 .. Len(s) : low < s[k].seq
  PROVE  InOrder(s, low, high)
BY SeqNumbers DEF InOrder

LEMMA OrderSplit ==
  ASSUME NEW s \in Seq(Buffered), NEW lo \in Nat, NEW hi \in Nat, InOrder(s, lo, hi)
  PROVE  /\ InOrder(Prefix(s), lo, hi) /\ InOrder(Rest(s), lo, hi)
         /\ Precedes(Prefix(s), Rest(s))
<1> DEFINE p == Prefix(s)
           r == Rest(s)
<1>1. /\ Len(p) \in Nat /\ Len(p) <= Len(s)
      /\ Len(r) = Len(s) - Len(p)
      /\ \A k \in 1 .. Len(p) : p[k] = s[k]
      /\ \A k \in 1 .. Len(r) : r[k] = s[Len(p) + k]
  BY Split, Zenon
<1>2. Len(s) \in Nat
  OBVIOUS
<1> HIDE DEF p, r
<1>3. \A k \in 1 .. Len(p) : k \in 1 .. Len(s)
  BY <1>1, <1>2
<1>4. \A k \in 1 .. Len(r) : Len(p) + k \in 1 .. Len(s)
  BY <1>1, <1>2
<1>5. InOrder(p, lo, hi)
  BY <1>1, <1>3, Zenon DEF InOrder
<1>6. InOrder(r, lo, hi)
  <2>1. \A k \in 1 .. Len(r) : r[k].row # NoRow /\ lo < r[k].seq /\ r[k].seq <= hi
    BY <1>1, <1>4, Zenon DEF InOrder
  <2>2. ASSUME NEW k \in 1 .. Len(r), NEW m \in 1 .. Len(r), k < m
        PROVE  r[k].seq < r[m].seq
    <3>1. Len(p) + k < Len(p) + m
      BY <1>1, <2>2
    <3> QED BY <1>1, <1>4, <3>1, Zenon DEF InOrder
  <2> QED BY <2>1, <2>2, Zenon DEF InOrder
<1>7. Precedes(p, r)
  <2>1. ASSUME NEW k \in 1 .. Len(p), NEW m \in 1 .. Len(r)
        PROVE  p[k].seq < r[m].seq
    <3>1. k < Len(p) + m
      BY <1>1, <2>1
    <3>2. \A x, y \in 1 .. Len(s) : x < y => s[x].seq < s[y].seq
      BY Zenon DEF InOrder
    <3> QED BY <1>1, <1>3, <1>4, <2>1, <3>1, <3>2, Zenon
  <2> QED BY <2>1, Zenon DEF Precedes
<1> QED BY <1>5, <1>6, <1>7, Zenon DEF p, r

LEMMA InsertStep ==
  ASSUME TypeOK, DurabilityInv, NEW t \in Threads, NEW i \in Ids, insert_job(t, i)
  PROVE  DurabilityInv'
<1> DEFINE e == Entry(i, version_counter + 1, 0, insert_seq + 1)
<1>1. /\ pending_inserts \in Seq(Buffered) /\ flusher.batch.inserts \in Seq(Buffered)
      /\ insert_seq \in Nat /\ committed_insert_seq \in Nat /\ version_counter \in Nat
  BY BatchType, Zenon DEF TypeOK
<1>2. e.row # NoRow /\ e.id = i /\ e.seq = insert_seq + 1
  BY <1>1, NumberedRow
<1>3. e \in Buffered
  BY <1>1, EntryType
<1>4. pending_inserts' = Append(pending_inserts, e)
  BY Zenon DEF insert_job
<1>5. /\ insert_seq' = insert_seq + 1
      /\ UNCHANGED <<db, pending_updates, committed_insert_seq, last_flush_error, flusher, acked>>
  BY Zenon DEF insert_job
<1>6. /\ th'[t].pc = "insert" /\ th'[t].id = i /\ th'[t].seq = insert_seq + 1
      /\ \A u \in Threads : u # t => th'[u] = th[u]
  BY Zenon DEF insert_job, TypeOK, Idle
<1> HIDE DEF e
<1>7. /\ Len(pending_inserts') = Len(pending_inserts) + 1 /\ Len(pending_inserts) \in Nat
      /\ \A k \in 1 .. Len(pending_inserts) : pending_inserts'[k] = pending_inserts[k]
      /\ pending_inserts'[Len(pending_inserts) + 1] = e
  BY <1>1, <1>4
<1>8. CallInv'
  BY <1>6, Zenon DEF DurabilityInv, CallInv
<1>9. BufferInv'
  <2>1. /\ committed_insert_seq <= insert_seq
        /\ InOrder(pending_inserts, committed_insert_seq, insert_seq)
        /\ InOrder(flusher.batch.inserts, committed_insert_seq, insert_seq)
    BY Zenon DEF DurabilityInv, BufferInv
  <2>2. InOrder(pending_inserts', committed_insert_seq, insert_seq + 1)
    BY <1>1, <1>2, <1>3, <1>4, <2>1, OrderAppend, Zenon
  <2>3. InOrder(flusher.batch.inserts, committed_insert_seq, insert_seq + 1)
    <3>1. \A k \in 1 .. Len(flusher.batch.inserts) :
            committed_insert_seq < flusher.batch.inserts[k].seq
      BY <2>1, Zenon DEF InOrder
    <3>2. insert_seq + 1 \in Nat /\ insert_seq <= insert_seq + 1
      BY <1>1
    <3> QED BY <1>1, <2>1, <3>1, <3>2, OrderBounds, Zenon
  <2>4. Precedes(flusher.batch.inserts, pending_inserts')
    <3> SUFFICES ASSUME NEW k \in 1 .. Len(flusher.batch.inserts),
                        NEW m \in 1 .. Len(pending_inserts')
                 PROVE  flusher.batch.inserts[k].seq < pending_inserts'[m].seq
      BY Zenon DEF Precedes
    <3>1. flusher.batch.inserts[k].seq \in Nat /\ flusher.batch.inserts[k].seq <= insert_seq
      BY <1>1, <2>1, SeqNumbers, Zenon DEF InOrder
    <3>2. CASE m = Len(pending_inserts) + 1
      BY <1>1, <1>2, <1>7, <3>1, <3>2, SMTT(30)
    <3>3. CASE m # Len(pending_inserts) + 1
      <4>1. m \in 1 .. Len(pending_inserts)
        BY <1>7, <3>3
      <4> QED BY <1>7, <4>1, Zenon DEF DurabilityInv, BufferInv, Precedes
    <3> QED BY <3>2, <3>3, Zenon
  <2>5. committed_insert_seq <= insert_seq + 1
    BY <1>1, <2>1
  <2> QED BY <1>5, <2>2, <2>3, <2>4, <2>5, Zenon DEF DurabilityInv, BufferInv
<1>10. InsertInv'
  <2> SUFFICES ASSUME NEW u \in Threads, th'[u].pc = "insert"
               PROVE  \/ Holds(pending_inserts, u)'
                      \/ Holds(flusher.batch.inserts, u)'
                      \/ /\ th'[u].seq <= committed_insert_seq'
                         /\ last_flush_error' \/ db'[th'[u].id] # NoRow
    BY Zenon DEF InsertInv
  <2>1. CASE u = t
    BY <1>2, <1>6, <1>7, <2>1 DEF Holds
  <2>2. CASE u # t
    <3>1. th'[u] = th[u]
      BY <1>6, <2>2, Zenon
    <3>2. CASE Holds(pending_inserts, u)
      BY <1>7, <3>1, <3>2 DEF Holds
    <3>3. CASE ~ Holds(pending_inserts, u)
      BY <1>5, <3>1, <3>3, Zenon DEF Holds, DurabilityInv, InsertInv
    <3> QED BY <3>2, <3>3, Zenon
  <2> QED BY <2>1, <2>2, Zenon
<1> QED BY <1>5, <1>8, <1>9, <1>10, Zenon DEF DurabilityInv, AckedDurable

LEMMA UpdateStep ==
  ASSUME TypeOK, DurabilityInv, NEW t \in Threads, NEW i \in Ids, NEW att, update_job(t, i, att)
  PROVE  DurabilityInv'
<1> DEFINE e == Entry(i, version_counter + 1, att, 0)
<1>1. e.row # NoRow
  BY NumberedRow DEF TypeOK
<1>2. pending_updates \in Seq(Buffered) /\ pending_updates' = Append(pending_updates, e)
  BY Zenon DEF update_job, TypeOK
<1>3. UNCHANGED <<db, pending_inserts, insert_seq, committed_insert_seq, last_flush_error,
                  flusher, acked>>
  BY Zenon DEF update_job
<1> HIDE DEF e
<1>4. \A k \in 1 .. Len(pending_updates') : pending_updates'[k].row # NoRow
  BY <1>1, <1>2 DEF DurabilityInv, BufferInv
<1>5. \A u \in Threads : th'[u] = th[u] \/ th'[u].pc = "idle"
  BY Zenon DEF update_job, TypeOK, Idle
<1>6. CallInv'
  BY <1>5, Zenon DEF DurabilityInv, CallInv
<1>7. BufferInv'
  BY <1>3, <1>4, Zenon DEF DurabilityInv, BufferInv
<1>8. InsertInv'
  <2> SUFFICES ASSUME NEW u \in Threads, th'[u].pc = "insert"
               PROVE  \/ Holds(pending_inserts, u)'
                      \/ Holds(flusher.batch.inserts, u)'
                      \/ /\ th'[u].seq <= committed_insert_seq'
                         /\ last_flush_error' \/ db'[th'[u].id] # NoRow
    BY Zenon DEF InsertInv
  <2>1. th'[u] = th[u]
    BY <1>5, Zenon
  <2> QED BY <1>3, <2>1, Zenon DEF DurabilityInv, InsertInv, Holds
<1> QED BY <1>3, <1>6, <1>7, <1>8, Zenon DEF DurabilityInv, AckedDurable

LEMMA CallStep ==
  ASSUME TypeOK, DurabilityInv, NEW t \in Threads, Continue(t) \/ Call(t)
  PROVE  DurabilityInv'
<1> USE DEF buffers, counters
<1>1. CASE insert_return(t)
  <2>1. AckedDurable'
    <3>1. CASE last_flush_error
      BY <1>1, <3>1, Zenon DEF insert_return, DurabilityInv, AckedDurable
    <3>2. CASE ~ last_flush_error
      <4>1. /\ th[t].seq \in Nat /\ committed_insert_seq \in Nat /\ th[t].seq <= committed_insert_seq
            /\ pending_inserts \in Seq(Buffered) /\ flusher.batch.inserts \in Seq(Buffered)
        BY <1>1, ThreadType, BatchType, Zenon DEF insert_return, TypeOK
      <4>2. /\ \A k \in 1 .. Len(pending_inserts) : committed_insert_seq < pending_inserts[k].seq
            /\ \A k \in 1 .. Len(flusher.batch.inserts) :
                 committed_insert_seq < flusher.batch.inserts[k].seq
        BY Zenon DEF DurabilityInv, BufferInv, InOrder
      <4>3. ~ Holds(pending_inserts, t) /\ ~ Holds(flusher.batch.inserts, t)
        BY <4>1, <4>2, SMTT(30) DEF Holds
      <4>4. db[th[t].id] # NoRow
        BY <1>1, <3>2, <4>3, Zenon DEF insert_return, DurabilityInv, InsertInv
      <4> QED BY <1>1, <4>4, Zenon DEF insert_return, DurabilityInv, AckedDurable
    <3> QED BY <3>1, <3>2, Zenon
  <2>2. \A u \in Threads : th'[u] = th[u] \/ th'[u].pc = "idle"
    BY <1>1, Zenon DEF insert_return, TypeOK, Idle
  <2> QED BY <1>1, <2>1, <2>2, QuietStep, Zenon DEF insert_return
<1>2. CASE flush(t) \/ Reader(t) \/ select(t) \/ list_begin(t) \/ \E i \in Ids : get_job(t, i)
  <2>1. \A u \in Threads : \/ th'[u] = th[u]
                           \/ th'[u].pc \in {"idle", "list", "select", "flush", "get"}
    <3>1. CASE flush(t) \/ Reader(t)
      <4>1. PICK p \in {"list", "select"} : th' = [th EXCEPT ![t].pc = p]
        BY <3>1, Zenon DEF flush, Reader
      <4> QED BY <4>1 DEF TypeOK, Thread
    <3>2. CASE select(t)
      BY <3>2, Zenon DEF select, TypeOK, Idle
    <3>3. CASE list_begin(t)
      BY <3>3, Zenon DEF list_begin, TypeOK, Idle
    <3>4. ASSUME NEW i \in Ids, get_job(t, i)
          PROVE  \A u \in Threads : th'[u] = th[u] \/ th'[u].pc = "get"
      BY <3>4, Zenon DEF get_job, TypeOK, Idle
    <3> QED BY <1>2, <3>1, <3>2, <3>3, <3>4, Zenon
  <2>2. AckedDurable'
    BY <1>2, Zenon DEF flush, Reader, select, list_begin, get_job, DurabilityInv, AckedDurable
  <2>3. \A u \in Threads : \/ th'[u] = th[u]
                           \/ /\ th'[u].pc # "insert"
                              /\ th'[u].pc \in {"recorded", "update"} => th'[u].id \in Ids
    BY <2>1, Zenon
  <2> QED BY <1>2, <2>2, <2>3, QuietStep, Zenon DEF flush, Reader, select, list_begin, get_job
<1>3. ASSUME NEW i \in Ids, NEW att, append_attempt(t, i) \/ update_job_full(t, i, att)
      PROVE  DurabilityInv'
  <2>1. \A u \in Threads : \/ th'[u] = th[u]
                           \/ th'[u].pc \in {"recorded", "update"} /\ th'[u].id = i
    <3>1. CASE append_attempt(t, i)
      BY <3>1, Zenon DEF append_attempt, TypeOK, Idle
    <3>2. CASE update_job_full(t, i, att)
      BY <3>2, Zenon DEF update_job_full, TypeOK, Idle
    <3> QED BY <1>3, <3>1, <3>2, Zenon
  <2>2. AckedDurable'
    BY <1>3, Zenon DEF append_attempt, update_job_full, DurabilityInv, AckedDurable
  <2>3. \A u \in Threads : \/ th'[u] = th[u]
                           \/ /\ th'[u].pc # "insert"
                              /\ th'[u].pc \in {"recorded", "update"} => th'[u].id \in Ids
    BY <2>1, Zenon
  <2> QED BY <1>3, <2>2, <2>3, QuietStep, Zenon DEF append_attempt, update_job_full
<1>4. ASSUME NEW S \in SUBSET Ids, insert_workflow(t, S)
      PROVE  DurabilityInv'
  <2>1. \A i \in Ids : db'[i] = db[i] \/ (i \in S /\ db'[i] # NoRow)
    BY <1>4 DEF insert_workflow, TypeOK, NoRow
  <2>2. \A i \in S : db'[i] # NoRow
    BY <1>4 DEF insert_workflow, TypeOK, NoRow
  <2>3. AckedDurable'
    BY <1>4, <2>1, <2>2, Zenon DEF insert_workflow, DurabilityInv, AckedDurable, TypeOK
  <2>4. \A k \in 1 .. Len(flusher.batch.inserts) : flusher.batch.inserts[k].id \in Ids
    BY BatchType, SeqNumbers, Zenon
  <2>5. BufferInv'
    <3>1. UNCHANGED <<pending_inserts, pending_updates, committed_insert_seq, insert_seq, flusher>>
      BY <1>4, Zenon DEF insert_workflow
    <3>2. (flusher.pc = "retire" /\ flusher.ok) =>
            \A k \in 1 .. Len(flusher.batch.inserts) : db'[flusher.batch.inserts[k].id] # NoRow
      BY <2>1, <2>4, Zenon DEF DurabilityInv, BufferInv
    <3> QED BY <3>1, <3>2, Zenon DEF DurabilityInv, BufferInv
  <2>6. CallInv' /\ InsertInv'
    BY <1>4, <2>1, Zenon DEF insert_workflow, DurabilityInv, CallInv, InsertInv, Holds
  <2> QED BY <2>3, <2>5, <2>6, Zenon DEF DurabilityInv
<1>5. CASE th[t].pc \in {"recorded", "update"} /\ \/ update_job_full(t, th[t].id, th[t].att)
                                                  \/ update_job(t, th[t].id, th[t].att)
  <2>1. th[t].id \in Ids
    BY <1>5, Zenon DEF DurabilityInv, CallInv
  <2> QED BY <1>3, <1>5, <2>1, UpdateStep, Zenon
<1> QED BY <1>1, <1>2, <1>3, <1>4, <1>5, InsertStep, UpdateStep, Zenon DEF Continue, Call

LEMMA TakeStep ==
  ASSUME TypeOK, DurabilityInv, flusher_take
  PROVE  DurabilityInv'
<1>1. /\ pending_inserts \in Seq(Buffered) /\ pending_updates \in Seq(Buffered)
      /\ insert_seq \in Nat /\ committed_insert_seq \in Nat
  BY Zenon DEF TypeOK
<1>2. /\ flusher'.pc = "commit"
      /\ flusher'.batch.inserts = Prefix(pending_inserts)
      /\ flusher'.batch.updates = Prefix(pending_updates)
      /\ pending_inserts' = Rest(pending_inserts) /\ pending_updates' = Rest(pending_updates)
      /\ UNCHANGED <<db, committed_insert_seq, insert_seq, last_flush_error, th, acked>>
  BY Zenon DEF flusher_take, counters
<1>3. CallInv' /\ AckedDurable'
  BY <1>2, Zenon DEF DurabilityInv, CallInv, AckedDurable
<1>4. BufferInv'
  <2>1. /\ InOrder(Prefix(pending_inserts), committed_insert_seq, insert_seq)
        /\ InOrder(Rest(pending_inserts), committed_insert_seq, insert_seq)
        /\ Precedes(Prefix(pending_inserts), Rest(pending_inserts))
    BY <1>1, OrderSplit, Zenon DEF DurabilityInv, BufferInv
  <2>2. \A k \in 1 .. Len(Prefix(pending_updates)) : Prefix(pending_updates)[k].row # NoRow
    BY <1>1, Split DEF DurabilityInv, BufferInv
  <2>3. \A k \in 1 .. Len(Rest(pending_updates)) : Rest(pending_updates)[k].row # NoRow
    <3> DEFINE p == Prefix(pending_updates)
               r == Rest(pending_updates)
    <3>1. /\ Len(p) \in Nat /\ Len(p) <= Len(pending_updates) /\ Len(pending_updates) \in Nat
          /\ Len(r) = Len(pending_updates) - Len(p)
          /\ \A k \in 1 .. Len(r) : r[k] = pending_updates[Len(p) + k]
      BY <1>1, Split
    <3> HIDE DEF p, r
    <3>2. \A k \in 1 .. Len(r) : Len(p) + k \in 1 .. Len(pending_updates)
      BY <3>1
    <3>3. \A k \in 1 .. Len(r) : r[k].row # NoRow
      BY <3>1, <3>2, Zenon DEF DurabilityInv, BufferInv
    <3> QED BY <3>3, Zenon DEF r
  <2> QED BY <1>2, <2>1, <2>2, <2>3, Zenon DEF DurabilityInv, BufferInv
<1>5. InsertInv'
  <2> SUFFICES ASSUME NEW u \in Threads, th[u].pc = "insert"
               PROVE  \/ Holds(pending_inserts, u)'
                      \/ Holds(flusher.batch.inserts, u)'
                      \/ /\ th[u].seq <= committed_insert_seq
                         /\ last_flush_error \/ db[th[u].id] # NoRow
    BY <1>2, Zenon DEF InsertInv
  <2>1. ~ Holds(flusher.batch.inserts, u)
    BY DEF DurabilityInv, BufferInv, flusher_take, Holds
  <2>2. CASE Holds(pending_inserts, u)
    <3> DEFINE p == Prefix(pending_inserts)
               r == Rest(pending_inserts)
    <3>1. /\ Len(p) \in Nat /\ Len(p) <= Len(pending_inserts)
          /\ Len(r) = Len(pending_inserts) - Len(p)
          /\ \A k \in 1 .. Len(p) : p[k] = pending_inserts[k]
          /\ \A k \in 1 .. Len(r) : r[k] = pending_inserts[Len(p) + k]
      BY <1>1, Split, Zenon
    <3>2. PICK k \in 1 .. Len(pending_inserts) :
            pending_inserts[k].id = th[u].id /\ pending_inserts[k].seq = th[u].seq
      BY <2>2, Zenon DEF Holds
    <3> HIDE DEF p, r
    <3>3. CASE k <= Len(p)
      <4>1. k \in 1 .. Len(p) /\ p[k] = pending_inserts[k]
        BY <3>1, <3>3
      <4> QED BY <1>2, <3>2, <4>1, Zenon DEF Holds, p
    <3>4. CASE ~ (k <= Len(p))
      <4>1. k - Len(p) \in 1 .. Len(r) /\ Len(p) + (k - Len(p)) = k /\ Len(pending_inserts) \in Nat
        BY <1>1, <3>1, <3>4
      <4>2. r[k - Len(p)] = pending_inserts[k]
        BY <3>1, <4>1, Zenon
      <4> QED BY <1>2, <3>2, <4>1, <4>2, Zenon DEF Holds, r
    <3> QED BY <3>3, <3>4, Zenon
  <2>3. CASE ~ Holds(pending_inserts, u)
    BY <2>1, <2>3, Zenon DEF DurabilityInv, InsertInv
  <2> QED BY <2>2, <2>3, Zenon
<1> QED BY <1>3, <1>4, <1>5, Zenon DEF DurabilityInv

LEMMA CommitStep ==
  ASSUME TypeOK, DurabilityInv, commit_batch \/ commit_fails
  PROVE  DurabilityInv'
<1>1. UNCHANGED <<pending_inserts, pending_updates, committed_insert_seq, insert_seq,
                  last_flush_error, th, acked>>
  BY Zenon DEF commit_batch, commit_fails, buffers, counters
<1>2. flusher'.batch = flusher.batch /\ flusher'.pc = "retire"
  BY Zenon DEF commit_batch, commit_fails, TypeOK
<1>3. BufferInv
  BY Zenon DEF DurabilityInv
<1>4. \A i \in Ids : db[i] # NoRow => db'[i] # NoRow
  <2>1. CASE commit_batch
    <3>1. \A i \in Ids : db'[i] = Written(flusher.batch, i)
      BY <2>1, Zenon DEF commit_batch
    <3> QED BY <1>3, <3>1, WrittenRow, Zenon
  <2>2. CASE commit_fails
    BY <2>2, Zenon DEF commit_fails
  <2> QED BY <2>1, <2>2, Zenon
<1>5. flusher'.ok => \A k \in 1 .. Len(flusher.batch.inserts) : db'[flusher.batch.inserts[k].id] # NoRow
  <2>1. CASE commit_batch
    <3>1. \A i \in Ids : db'[i] = Written(flusher.batch, i)
      BY <2>1, Zenon DEF commit_batch
    <3>2. \A k \in 1 .. Len(flusher.batch.inserts) : flusher.batch.inserts[k].id \in Ids
      BY BatchType, SeqNumbers, Zenon
    <3>3. \A k \in 1 .. Len(flusher.batch.inserts) :
            Written(flusher.batch, flusher.batch.inserts[k].id) # NoRow
      BY <1>3, <3>2, WrittenRow, Zenon
    <3> QED BY <3>1, <3>2, <3>3, Zenon
  <2>2. CASE commit_fails
    <3>1. flusher'.ok = FALSE
      BY <2>2, Zenon DEF commit_fails, TypeOK
    <3> QED BY <3>1, Zenon
  <2> QED BY <2>1, <2>2, Zenon
<1>6. BufferInv'
  BY <1>1, <1>2, <1>3, <1>5, Zenon DEF BufferInv
<1>7. CallInv' /\ InsertInv' /\ AckedDurable'
  <2>1. \A i \in acked : i \in Ids
    BY Zenon DEF TypeOK
  <2>2. AckedDurable'
    BY <1>1, <1>4, <2>1, Zenon DEF DurabilityInv, AckedDurable
  <2>3. CallInv'
    BY <1>1, Zenon DEF DurabilityInv, CallInv
  <2>4. InsertInv'
    BY <1>1, <1>2, <1>4, ZenonT(60) DEF DurabilityInv, CallInv, InsertInv, Holds
  <2> QED BY <2>2, <2>3, <2>4, Zenon
<1> QED BY <1>6, <1>7, Zenon DEF DurabilityInv

LEMMA RetireStep ==
  ASSUME TypeOK, DurabilityInv, flusher_retire
  PROVE  DurabilityInv'
<1> DEFINE b == flusher.batch.inserts
           mark == IF batch_insert_seq > committed_insert_seq THEN batch_insert_seq
                   ELSE committed_insert_seq
<1>1. /\ UNCHANGED <<db, pending_inserts, pending_updates, insert_seq, th, acked>>
      /\ flusher' = FlusherWaits
      /\ last_flush_error' = (last_flush_error \/ ~ flusher.ok)
      /\ committed_insert_seq' = mark
  BY Zenon DEF flusher_retire
<1>2. /\ b \in Seq(Buffered) /\ pending_inserts \in Seq(Buffered)
      /\ insert_seq \in Nat /\ committed_insert_seq \in Nat /\ Len(b) \in Nat
      /\ \A k \in 1 .. Len(b) : b[k].seq \in Nat
  <2>1. b \in Seq(Buffered)
    BY BatchType, Zenon
  <2>2. \A k \in 1 .. Len(b) : b[k].seq \in Nat
    BY <2>1, SeqNumbers, Zenon
  <2> QED BY <2>1, <2>2 DEF TypeOK
<1>3. /\ InOrder(b, committed_insert_seq, insert_seq) /\ Precedes(b, pending_inserts)
      /\ InOrder(pending_inserts, committed_insert_seq, insert_seq)
      /\ committed_insert_seq <= insert_seq
  BY Zenon DEF DurabilityInv, BufferInv
<1>4. b # <<>> => Len(b) \in 1 .. Len(b) /\ batch_insert_seq = b[Len(b)].seq
  BY <1>2 DEF batch_insert_seq
<1>5. b = <<>> => batch_insert_seq = 0 /\ Len(b) = 0
  BY Zenon DEF batch_insert_seq
<1> HIDE DEF b
<1>6. /\ mark \in Nat /\ committed_insert_seq <= mark /\ mark <= insert_seq
      /\ \A k \in 1 .. Len(b) : b[k].seq <= mark
      /\ \A m \in 1 .. Len(pending_inserts) : mark < pending_inserts[m].seq
  <2>1. CASE b = <<>>
    BY <1>2, <1>3, <1>5, <2>1 DEF InOrder
  <2>2. CASE b # <<>>
    <3>1. mark = b[Len(b)].seq
      BY <1>2, <1>3, <1>4, <2>2, Zenon DEF InOrder
    <3>2. mark \in Nat /\ committed_insert_seq <= mark /\ mark <= insert_seq
      BY <1>2, <1>3, <1>4, <2>2, <3>1, SMTT(30) DEF InOrder
    <3>3. \A k \in 1 .. Len(b) : b[k].seq <= b[Len(b)].seq
      <4> SUFFICES ASSUME NEW k \in 1 .. Len(b) PROVE b[k].seq <= b[Len(b)].seq
        BY Zenon
      <4>1. CASE k = Len(b)
        BY <1>2, <4>1
      <4>2. CASE k < Len(b)
        BY <1>2, <1>3, <1>4, <2>2, <4>2 DEF InOrder
      <4> QED BY <1>2, <4>1, <4>2
    <3>4. \A m \in 1 .. Len(pending_inserts) : b[Len(b)].seq < pending_inserts[m].seq
      BY <1>3, <1>4, <2>2, Zenon DEF Precedes
    <3> HIDE DEF mark
    <3> QED BY <3>1, <3>2, <3>3, <3>4, Zenon
  <2> QED BY <2>1, <2>2, Zenon
<1> HIDE DEF mark
<1>7. flusher'.pc = "wait" /\ flusher'.batch.inserts = <<>> /\ flusher'.batch.updates = <<>>
  BY <1>1, Zenon DEF FlusherWaits, EmptyBatch
<1>8. BufferInv'
  <2>1. InOrder(pending_inserts, mark, insert_seq)
    BY <1>2, <1>3, <1>6, OrderBounds
  <2>2. InOrder(<<>>, mark, insert_seq) /\ Precedes(<<>>, pending_inserts)
    BY DEF InOrder, Precedes
  <2>3. \A k \in 1 .. Len(flusher'.batch.updates) : flusher'.batch.updates[k].row # NoRow
    <3>1. Len(flusher'.batch.updates) = 0
      BY <1>7
    <3> QED BY <3>1
  <2>4. flusher'.pc # "retire"
    BY <1>7, Zenon
  <2> QED BY <1>1, <1>6, <1>7, <2>1, <2>2, <2>3, <2>4, Zenon DEF DurabilityInv, BufferInv
<1>9. InsertInv'
  <2> SUFFICES ASSUME NEW u \in Threads, th[u].pc = "insert"
               PROVE  \/ Holds(pending_inserts, u)'
                      \/ Holds(flusher.batch.inserts, u)'
                      \/ /\ th[u].seq <= mark
                         /\ last_flush_error' \/ db[th[u].id] # NoRow
    BY <1>1, Zenon DEF InsertInv
  <2>1. CASE Holds(pending_inserts, u)
    BY <1>1, <2>1, Zenon DEF Holds
  <2>2. CASE Holds(flusher.batch.inserts, u)
    <3>1. PICK k \in 1 .. Len(b) : b[k].id = th[u].id /\ b[k].seq = th[u].seq
      BY <2>2, Zenon DEF Holds, b
    <3>2. th[u].seq <= mark
      BY <1>6, <3>1, Zenon
    <3>3. flusher.ok => db[b[k].id] # NoRow
      BY <3>1, Zenon DEF DurabilityInv, BufferInv, flusher_retire, b
    <3> QED BY <1>1, <3>1, <3>2, <3>3, Zenon
  <2>3. CASE th[u].seq <= committed_insert_seq /\ (last_flush_error \/ db[th[u].id] # NoRow)
    <3>1. th[u].seq <= mark
      BY <1>2, <1>6, <2>3, ThreadType
    <3> QED BY <1>1, <2>3, <3>1, Zenon
  <2> QED BY <2>1, <2>2, <2>3, Zenon DEF DurabilityInv, InsertInv
<1> QED BY <1>1, <1>8, <1>9, Zenon DEF DurabilityInv, CallInv, AckedDurable

-----------------------------------------------------------------------------
(* The theorems *)

LEMMA DurabilityInit == Init => TypeOK /\ DurabilityInv
<1> SUFFICES ASSUME Init PROVE TypeOK /\ DurabilityInv
  BY Zenon
<1>1. TypeOK
  <2>1. cache \in [{} -> Row] /\ {} \in SUBSET Ids
    BY Zenon DEF Init
  <2>2. \E S \in SUBSET Ids : cache \in [S -> Row]
    BY <2>1, Zenon
  <2>3. db \in [Ids -> Row] /\ th \in [Threads -> Thread]
    BY IdleType, Zenon DEF Init, Row, NoRow
  <2>4. /\ pending_inserts \in Seq(Buffered) /\ pending_updates \in Seq(Buffered)
        /\ pending_attempts \in Seq(Nat)
    BY DEF Init
  <2>5. /\ version_counter \in Nat /\ insert_seq \in Nat /\ committed_insert_seq \in Nat
        /\ crashes \in Nat
    BY Zenon DEF Init
  <2> QED BY <2>2, <2>3, <2>4, <2>5, FlusherWaitsType, Zenon DEF Init, TypeOK
<1>2. flusher.pc = "wait" /\ flusher.batch.inserts = <<>> /\ flusher.batch.updates = <<>>
  BY Zenon DEF Init, FlusherWaits, EmptyBatch
<1>3. BufferInv
  BY <1>2 DEF Init, BufferInv, InOrder, Precedes
<1>4. \A t \in Threads : th[t].pc = "idle"
  BY Zenon DEF Init, Idle
<1>5. CallInv /\ InsertInv
  BY <1>4, Zenon DEF CallInv, InsertInv
<1>6. AckedDurable
  BY Zenon DEF Init, AckedDurable
<1> QED BY <1>1, <1>3, <1>5, <1>6, Zenon DEF DurabilityInv

LEMMA ReopenStep ==
  ASSUME TypeOK, DurabilityInv, Reopened
  PROVE  DurabilityInv'
<1>1. flusher'.pc = "wait" /\ flusher'.batch.inserts = <<>> /\ flusher'.batch.updates = <<>>
  BY Zenon DEF Reopened, FlusherWaits, EmptyBatch
<1>2. BufferInv'
  BY <1>1 DEF Reopened, BufferInv, InOrder, Precedes, TypeOK
<1>3. \A t \in Threads : th'[t].pc = "idle"
  BY Zenon DEF Reopened, Idle
<1>4. CallInv' /\ InsertInv'
  BY <1>3, Zenon DEF CallInv, InsertInv
<1>5. AckedDurable'
  BY Zenon DEF Reopened, DurabilityInv, AckedDurable
<1> QED BY <1>2, <1>4, <1>5, Zenon DEF DurabilityInv

LEMMA DurabilityNext ==
  ASSUME TypeOK, DurabilityInv, [Next]_vars
  PROVE  TypeOK' /\ DurabilityInv'
<1>1. ASSUME NEW t \in Threads, Continue(t) \/ Call(t)
      PROVE  TypeOK' /\ DurabilityInv'
  BY <1>1, TypeCalls, CallStep, Zenon DEF DurabilityInv
<1>2. CASE Flusher
  BY <1>2, TypeFlusher, TakeStep, CommitStep, RetireStep, Zenon DEF Flusher
<1>3. CASE crash \/ close
  BY <1>3, TypeReopened, ReopenStep, Zenon DEF crash, close
<1>4. CASE UNCHANGED vars
  <2>1. TypeOK'
    BY <1>4, Zenon DEF vars, buffers, counters, TypeOK
  <2>2. AckedDurable'
    BY <1>4, Zenon DEF vars, AckedDurable, DurabilityInv
  <2> QED BY <1>4, <2>1, <2>2, QuietStep, Zenon DEF vars, buffers, counters
<1> QED BY <1>1, <1>2, <1>3, <1>4, Zenon DEF Next

\* The types and the inductive invariant hold in every state of the store.
THEOREM StoreInvariant == Spec => [](TypeOK /\ DurabilityInv)
<1>1. Init => TypeOK /\ DurabilityInv
  BY DurabilityInit, Zenon
<1>2. (TypeOK /\ DurabilityInv) /\ [Next]_vars => (TypeOK /\ DurabilityInv)'
  BY DurabilityNext, Zenon
<1> QED BY <1>1, <1>2, PTL DEF Spec

\* An insert for which insert_job returned true (406) has a row on disk, for every number of
\* jobs, threads, crashes and failed batches and every batch size.
THEOREM AcknowledgedIsDurable == Spec => []AckedDurable
<1>1. DurabilityInv => AckedDurable
  BY Zenon DEF DurabilityInv
<1> QED BY <1>1, StoreInvariant, PTL

\* A waiting insert is always buffered, in the batch, or below the watermark: no wait of
\* insert_jobs (399-404) is for a batch that will never come.
THEOREM InsertsServed == Spec => []InsertsAreServed
<1>1. TypeOK /\ DurabilityInv => InsertsAreServed
  BY ThreadType, Zenon DEF DurabilityInv, InsertInv, InsertsAreServed, Holds, TypeOK
<1> QED BY <1>1, StoreInvariant, PTL

-----------------------------------------------------------------------------
(* The writes of a buffer *)

LEMMA ItemsAppend ==
  ASSUME NEW S, NEW s \in Seq(S), NEW e \in S
  PROVE  Items(Append(s, e)) = Items(s) \cup {e}
<1>1. /\ Len(Append(s, e)) = Len(s) + 1 /\ Len(s) \in Nat
      /\ \A k \in 1 .. Len(s) : Append(s, e)[k] = s[k]
      /\ Append(s, e)[Len(s) + 1] = e
  OBVIOUS
<1>2. \A k \in 1 .. Len(s) + 1 : k \in 1 .. Len(s) \/ k = Len(s) + 1
  BY <1>1
<1>3. Len(s) + 1 \in 1 .. Len(s) + 1 /\ \A k \in 1 .. Len(s) : k \in 1 .. Len(s) + 1
  BY <1>1
<1> QED BY <1>1, <1>2, <1>3, Zenon DEF Items

LEMMA ItemsEmpty == Items(<<>>) = {}
BY DEF Items

LEMMA ItemsType ==
  ASSUME NEW S, NEW s \in Seq(S)
  PROVE  Items(s) \subseteq S
BY Element, Zenon DEF Items

LEMMA ItemsSplit ==
  ASSUME NEW S, NEW s \in Seq(S)
  PROVE  Items(s) = Items(Prefix(s)) \cup Items(Rest(s))
<1> DEFINE p == Prefix(s)
           r == Rest(s)
<1>0. Len(s) \in Nat
  OBVIOUS
<1>1. /\ Len(p) \in Nat /\ Len(p) <= Len(s) /\ Len(s) \in Nat
      /\ Len(r) = Len(s) - Len(p)
      /\ \A k \in 1 .. Len(p) : p[k] = s[k]
      /\ \A k \in 1 .. Len(r) : r[k] = s[Len(p) + k]
  BY <1>0, Split, Zenon
<1> HIDE DEF p, r
<1>2. \A k \in 1 .. Len(p) : k \in 1 .. Len(s)
  BY <1>1
<1>3. \A k \in 1 .. Len(r) : Len(p) + k \in 1 .. Len(s)
  BY <1>1
<1>4. \A k \in 1 .. Len(s) : k \in 1 .. Len(p) \/ \E m \in 1 .. Len(r) : k = Len(p) + m
  <2> SUFFICES ASSUME NEW k \in 1 .. Len(s)
               PROVE  k \in 1 .. Len(p) \/ \E m \in 1 .. Len(r) : k = Len(p) + m
    BY Zenon
  <2>1. k \in 1 .. Len(p) \/ (k - Len(p) \in 1 .. Len(r) /\ k = Len(p) + (k - Len(p)))
    BY <1>1
  <2> QED BY <2>1, Zenon
<1>5. \A e \in Items(p) \cup Items(r) : e \in Items(s)
  BY <1>1, <1>2, <1>3, ZenonT(60) DEF Items
<1>6. \A e \in Items(s) : e \in Items(p) \cup Items(r)
  <2> SUFFICES ASSUME NEW k \in 1 .. Len(s)
               PROVE  s[k] \in Items(p) \cup Items(r)
    BY Zenon DEF Items
  <2>1. CASE k \in 1 .. Len(p)
    BY <1>1, <2>1, Zenon DEF Items
  <2>2. CASE \E m \in 1 .. Len(r) : k = Len(p) + m
    BY <1>1, <2>2, Zenon DEF Items
  <2> QED BY <1>4, <2>1, <2>2, Zenon
<1> QED BY <1>5, <1>6, Zenon DEF p, r

LEMMA AscendingAppend ==
  ASSUME NEW s \in Seq(Buffered), NEW e \in Buffered, Ascending(s),
         \A f \in Items(s) : f.row.version < e.row.version
  PROVE  Ascending(Append(s, e))
<1>1. /\ Len(Append(s, e)) = Len(s) + 1 /\ Len(s) \in Nat
      /\ \A k \in 1 .. Len(s) : Append(s, e)[k] = s[k]
      /\ Append(s, e)[Len(s) + 1] = e
  OBVIOUS
<1>2. \A k \in 1 .. Len(s) : s[k].row.version < e.row.version
  BY Zenon DEF Items
<1> DEFINE a == Append(s, e)
<1> HIDE DEF a
<1> SUFFICES ASSUME NEW k \in 1 .. Len(a), NEW m \in 1 .. Len(a), k < m
             PROVE  a[k].row.version < a[m].row.version
  BY Zenon DEF Ascending, a
<1>3. k \in 1 .. Len(s) /\ (m \in 1 .. Len(s) \/ m = Len(s) + 1)
  BY <1>1 DEF a
<1> QED BY <1>1, <1>2, <1>3, Zenon DEF Ascending, a

LEMMA AscendingSplit ==
  ASSUME NEW s \in Seq(Buffered), Ascending(s)
  PROVE  /\ Ascending(Prefix(s)) /\ Ascending(Rest(s))
         /\ \A e \in Items(Prefix(s)), f \in Items(Rest(s)) : e.row.version < f.row.version
<1> DEFINE p == Prefix(s)
           r == Rest(s)
<1>0. Len(s) \in Nat
  OBVIOUS
<1>1. /\ Len(p) \in Nat /\ Len(p) <= Len(s) /\ Len(s) \in Nat
      /\ Len(r) = Len(s) - Len(p)
      /\ \A k \in 1 .. Len(p) : p[k] = s[k]
      /\ \A k \in 1 .. Len(r) : r[k] = s[Len(p) + k]
  BY <1>0, Split, Zenon
<1> HIDE DEF p, r
<1>2. \A k \in 1 .. Len(p) : k \in 1 .. Len(s)
  BY <1>1
<1>3. \A k \in 1 .. Len(r) : Len(p) + k \in 1 .. Len(s)
  BY <1>1
<1>4. \A x, y \in 1 .. Len(s) : x < y => s[x].row.version < s[y].row.version
  BY Zenon DEF Ascending
<1>5. Ascending(p)
  BY <1>1, <1>2, <1>4, Zenon DEF Ascending
<1>6. Ascending(r)
  <2> SUFFICES ASSUME NEW k \in 1 .. Len(r), NEW m \in 1 .. Len(r), k < m
               PROVE  r[k].row.version < r[m].row.version
    BY Zenon DEF Ascending
  <2>1. Len(p) + k < Len(p) + m
    BY <1>1
  <2> QED BY <1>1, <1>3, <1>4, <2>1, Zenon
<1>7. \A e \in Items(p), f \in Items(r) : e.row.version < f.row.version
  <2> SUFFICES ASSUME NEW k \in 1 .. Len(p), NEW m \in 1 .. Len(r)
               PROVE  p[k].row.version < r[m].row.version
    BY Zenon DEF Items
  <2>1. k < Len(p) + m
    BY <1>1
  <2> QED BY <1>1, <1>2, <1>3, <1>4, <2>1, Zenon
<1> QED BY <1>5, <1>6, <1>7, Zenon DEF p, r

\* The row after a sequence of writes is the newest of the writes to it.
LEMMA AfterNewest ==
  ASSUME NEW s \in Seq(Buffered), Ascending(s), NEW i, NEW old,
         \E e \in Items(s) : e.id = i
  PROVE  \E e \in Items(s) : /\ e.id = i /\ After(s, i, old) = e.row
                             /\ \A f \in Items(s) : f.id = i => f.row.version <= e.row.version
<1> DEFINE K == {k \in 1 .. Len(s) : s[k].id = i}
           Last(k) == s[k].id = i /\ \A m \in k + 1 .. Len(s) : s[m].id # i
<1>1. \E k \in K : \A m \in K : m <= k
  <2>1. Len(s) \in Nat /\ K \in SUBSET (1 .. Len(s))
    OBVIOUS
  <2>2. K # {}
    BY Zenon DEF Items
  <2> HIDE DEF K
  <2> QED BY <2>1, <2>2, LastPosition, Zenon
<1>2. \E k \in 1 .. Len(s) : Last(k)
  BY <1>1
<1>3. \E k \in 1 .. Len(s) : s[k].id = i
  BY <1>2, Zenon
<1> DEFINE n == CHOOSE k \in 1 .. Len(s) : Last(k)
<1>4. After(s, i, old) = s[n].row
  BY <1>3, Zenon DEF After
<1>5. n \in 1 .. Len(s) /\ Last(n)
  BY <1>2, Zenon
<1> HIDE DEF n
<1>6. s[n] \in Items(s)
  BY <1>5, Zenon DEF Items
<1>7. \A k \in 1 .. Len(s) : s[k].row.version \in Nat
  <2>1. \A k \in 1 .. Len(s) : s[k] \in Buffered
    BY Element, Zenon
  <2> QED BY <2>1, Zenon DEF Buffered, Row
<1>8. \A k \in 1 .. Len(s) : s[k].id = i => s[k].row.version <= s[n].row.version
  <2> SUFFICES ASSUME NEW k \in 1 .. Len(s), s[k].id = i
               PROVE  s[k].row.version <= s[n].row.version
    BY Zenon
  <2>1. ~ (n < k)
    BY <1>5
  <2>2. k = n \/ k < n
    BY <1>5, <2>1
  <2>3. k < n => s[k].row.version < s[n].row.version
    BY <1>5, Zenon DEF Ascending
  <2> QED BY <1>5, <1>7, <2>2, <2>3
<1>9. \A f \in Items(s) : f.id = i => f.row.version <= s[n].row.version
  BY <1>8, Zenon DEF Items
<1> QED BY <1>4, <1>5, <1>6, <1>9, Zenon

LEMMA AfterNone ==
  ASSUME NEW s, NEW i, NEW old, \A e \in Items(s) : e.id # i
  PROVE  After(s, i, old) = old
BY Zenon DEF After, Items

-----------------------------------------------------------------------------
(* The writes under way *)

LEMMA WriteTypes ==
  ASSUME TypeOK
  PROVE  /\ Taken \cup Waiting \subseteq Buffered
         /\ Inserting \cup Updating = Taken \cup Waiting
         /\ \A e \in Taken \cup Waiting :
              e.id \in Ids /\ e.row \in Row /\ e.row.version \in Nat /\ e.row.att \in Nat
<1>1. /\ pending_inserts \in Seq(Buffered) /\ pending_updates \in Seq(Buffered)
      /\ flusher.batch.inserts \in Seq(Buffered) /\ flusher.batch.updates \in Seq(Buffered)
  BY BatchType, Zenon DEF TypeOK
<1>2. /\ Items(pending_inserts) \subseteq Buffered /\ Items(pending_updates) \subseteq Buffered
      /\ Items(flusher.batch.inserts) \subseteq Buffered
      /\ Items(flusher.batch.updates) \subseteq Buffered
  BY <1>1, ItemsType, Zenon
<1>3. Taken \cup Waiting \subseteq Buffered
  BY <1>2, Zenon DEF Taken, Waiting
<1>4. Inserting \cup Updating = Taken \cup Waiting
  BY Zenon DEF Taken, Waiting, Inserting, Updating
<1>5. \A e \in Buffered : e.id \in Ids /\ e.row \in Row /\ e.row.version \in Nat /\ e.row.att \in Nat
  BY Zenon DEF Buffered, Row
<1> QED BY <1>3, <1>4, <1>5, Zenon

LEMMA StoreTypes ==
  ASSUME TypeOK
  PROVE  /\ version_counter \in Nat
         /\ DOMAIN cache \subseteq Ids
         /\ \A i \in DOMAIN cache : cache[i] \in Row /\ cache[i].version \in Nat
         /\ \A i \in Ids : db[i] \in Row /\ db[i].version \in Nat
<1>1. \A r \in Row : r.version \in Nat
  BY Zenon DEF Row
<1>2. PICK S \in SUBSET Ids : cache \in [S -> Row]
  BY Zenon DEF TypeOK
<1>3. DOMAIN cache = S /\ \A i \in S : cache[i] \in Row
  BY <1>2, Zenon
<1>4. version_counter \in Nat /\ \A i \in Ids : db[i] \in Row
  BY Zenon DEF TypeOK
<1> QED BY <1>1, <1>2, <1>3, <1>4, Zenon

LEMMA RetiredIsTaken ==
  ASSUME NEW i
  PROVE  Retired(i) <=> \E e \in Taken : e.id = i /\ e.row.version = cache[i].version
BY Zenon DEF Retired, Taken, Items

\* A job with a write under way is visible, through the cache.
LEMMA WriteIsVisible ==
  ASSUME TypeOK, VersionInv, CacheInv, NEW e \in Taken \cup Waiting
  PROVE  e.id \in DOMAIN cache /\ Visible(e.id) = cache[e.id] /\ Visible(e.id) # NoRow
<1>1. e.id \in DOMAIN cache
  BY Zenon DEF CacheInv
<1>2. cache[e.id].version # 0
  BY <1>1, StoreTypes DEF VersionInv
<1>3. NoRow.version = 0
  BY Zenon DEF NoRow
<1>4. cache[e.id] # NoRow
  BY <1>2, <1>3, Zenon
<1> QED BY <1>1, <1>4, Zenon DEF Visible

LEMMA CachedIsVisible ==
  ASSUME TypeOK, VersionInv, NEW i \in DOMAIN cache
  PROVE  Visible(i) # NoRow
<1>2. cache[i].version # 0
  BY StoreTypes DEF VersionInv
<1>3. NoRow.version = 0
  BY Zenon DEF NoRow
<1> QED BY <1>2, <1>3, Zenon DEF Visible

\* Every buffered insert has a thread of its own, so a batch has room for all of them.
LEMMA TakeAll ==
  ASSUME TypeOK, BufferInv, WaiterInv
  PROVE  Rest(pending_inserts) = <<>> /\ Items(Prefix(pending_inserts)) = Items(pending_inserts)
<1> DEFINE s == pending_inserts
           D == 1 .. Len(s)
           Waits(t, k) == th[t].pc = "insert" /\ th[t].seq = s[k].seq
           f == [k \in D |-> CHOOSE t \in Threads : Waits(t, k)]
<1>1. s \in Seq(Buffered) /\ Len(s) \in Nat
  BY DEF TypeOK
<1>2. \A k \in D : \E t \in Threads : Waits(t, k)
  BY Zenon DEF WaiterInv, Items
<1>3. \A k \in D : f[k] \in Threads /\ Waits(f[k], k)
  BY <1>2, Zenon
<1>4. \A k, m \in D : k < m => s[k].seq < s[m].seq
  BY Zenon DEF BufferInv, InOrder
<1>5. \A k \in D : s[k].seq \in Nat
  BY <1>1, SeqNumbers, Zenon
<1>6. \A k, m \in D : s[k].seq = s[m].seq => k = m
  BY <1>1, <1>4, <1>5
<1>7. f \in [D -> Threads]
  <2> HIDE DEF Waits
  <2> QED BY <1>3, Zenon
<1> HIDE DEF f
<1>8. \A k, m \in D : f[k] = f[m] => k = m
  <2> SUFFICES ASSUME NEW k \in D, NEW m \in D, f[k] = f[m] PROVE s[k].seq = s[m].seq
    BY <1>6, Zenon
  <2>1. th[f[k]].seq = s[k].seq /\ th[f[m]].seq = s[m].seq
    BY <1>3, Zenon
  <2> QED BY <2>1, Zenon
<1>9. f \in Injection(D, Threads)
  BY <1>7, <1>8, Zenon DEF Injection, IsInjective
<1>10. Cardinality(D) <= Cardinality(Threads)
  BY <1>9, FS_Injection, StoreAssumption, Zenon
<1>11. Cardinality(D) = Len(s)
  <2>1. 1 \in Int /\ Len(s) \in Int
    BY <1>1
  <2>2. Cardinality(D) = IF 1 > Len(s) THEN 0 ELSE Len(s) - 1 + 1
    BY <2>1, FS_Interval, Zenon
  <2> QED BY <1>1, <2>2
<1>12. Len(s) <= MaxBatch
  <2>1. Cardinality(Threads) \in Nat /\ Cardinality(Threads) <= MaxBatch /\ MaxBatch \in Nat
    BY StoreAssumption, FS_CardinalityType, Zenon
  <2> QED BY <1>1, <1>10, <1>11, <2>1
<1>13. (IF Len(s) < MaxBatch THEN Len(s) ELSE MaxBatch) = Len(s)
  BY <1>1, <1>12, StoreAssumption
<1>14. Prefix(s) = SubSeq(s, 1, Len(s))
  BY <1>13, Zenon DEF Prefix
<1>15. Prefix(s) = s
  BY <1>1, <1>14
<1>16. Rest(s) = <<>>
  <2>1. Len(Rest(s)) = Len(s) - Len(Prefix(s)) /\ Rest(s) \in Seq(Buffered)
    BY <1>1, Split, Zenon
  <2>2. Len(Rest(s)) = 0
    BY <1>1, <1>15, <2>1
  <2> QED BY <2>1, <2>2, NoElement, Zenon
<1> QED BY <1>15, <1>16, Zenon

-----------------------------------------------------------------------------
(* insert_job and update_job append a write with a new version to a buffer. *)

Adds(e) ==
  /\ version_counter' = version_counter + 1 /\ e.row.version = version_counter + 1
  /\ cache' = Cached(e.id, e.row)
  /\ UNCHANGED <<db, flusher, last_flush_error>>
  /\ \/ /\ pending_inserts' = Append(pending_inserts, e)
        /\ Visible(e.id) = NoRow
        /\ UNCHANGED pending_updates
     \/ /\ pending_updates' = Append(pending_updates, e)
        /\ UNCHANGED pending_inserts

LEMMA AddsSets ==
  ASSUME TypeOK, NEW e \in Buffered, Adds(e)
  PROVE  /\ Taken' = Taken /\ Waiting' = Waiting \cup {e}
         /\ \/ /\ Inserting' = Inserting \cup {e} /\ Updating' = Updating
               /\ Visible(e.id) = NoRow
            \/ Inserting' = Inserting /\ Updating' = Updating \cup {e}
         /\ DOMAIN cache' = DOMAIN cache \cup {e.id} /\ cache'[e.id] = e.row
         /\ \A i \in DOMAIN cache : i # e.id => cache'[i] = cache[i]
<1>1. pending_inserts \in Seq(Buffered) /\ pending_updates \in Seq(Buffered)
  BY Zenon DEF TypeOK
<1>2. /\ Items(Append(pending_inserts, e)) = Items(pending_inserts) \cup {e}
      /\ Items(Append(pending_updates, e)) = Items(pending_updates) \cup {e}
  BY <1>1, ItemsAppend
<1>3. flusher' = flusher
  BY Zenon DEF Adds
<1>4. /\ Taken' = Taken
      /\ Items(flusher.batch.inserts)' = Items(flusher.batch.inserts)
      /\ Items(flusher.batch.updates)' = Items(flusher.batch.updates)
  BY <1>3, Zenon DEF Taken, Items
<1>5. ASSUME pending_inserts' = Append(pending_inserts, e), UNCHANGED pending_updates
      PROVE  /\ Waiting' = Waiting \cup {e}
             /\ Inserting' = Inserting \cup {e} /\ Updating' = Updating
  <2>1. Items(pending_inserts)' = Items(pending_inserts) \cup {e}
    BY <1>2, <1>5, Zenon DEF Items
  <2>2. Items(pending_updates)' = Items(pending_updates)
    BY <1>5, Zenon DEF Items
  <2> QED BY <1>4, <2>1, <2>2, Zenon DEF Waiting, Inserting, Updating
<1>6. ASSUME pending_updates' = Append(pending_updates, e), UNCHANGED pending_inserts
      PROVE  /\ Waiting' = Waiting \cup {e}
             /\ Inserting' = Inserting /\ Updating' = Updating \cup {e}
  <2>1. Items(pending_updates)' = Items(pending_updates) \cup {e}
    BY <1>2, <1>6, Zenon DEF Items
  <2>2. Items(pending_inserts)' = Items(pending_inserts)
    BY <1>6, Zenon DEF Items
  <2> QED BY <1>4, <2>1, <2>2, Zenon DEF Waiting, Inserting, Updating
<1>7. /\ DOMAIN cache' = DOMAIN cache \cup {e.id} /\ cache'[e.id] = e.row
      /\ \A i \in DOMAIN cache : i # e.id => cache'[i] = cache[i]
  <2>1. cache' = Cached(e.id, e.row)
    BY Zenon DEF Adds
  <2> QED BY <2>1, Zenon DEF Cached
<1> QED BY <1>4, <1>5, <1>6, <1>7, Zenon DEF Adds

LEMMA AddsVersions ==
  ASSUME TypeOK, VersionInv, NEW e \in Buffered, Adds(e)
  PROVE  /\ VersionInv'
         /\ \A f \in Taken \cup Waiting : f.row.version < e.row.version
         /\ db[e.id].version < e.row.version
<1>1. /\ version_counter' = version_counter + 1 /\ e.row.version = version_counter + 1
      /\ db' = db
  BY Zenon DEF Adds
<1>2. /\ \A f \in Taken \cup Waiting : 0 < f.row.version /\ f.row.version <= version_counter
      /\ \A i \in DOMAIN cache : 0 < cache[i].version /\ cache[i].version <= version_counter
      /\ \A i \in Ids : db[i].version <= version_counter /\ (db[i].version = 0 => db[i] = NoRow)
  BY Zenon DEF VersionInv
<1>3. /\ version_counter \in Nat
      /\ \A f \in Taken \cup Waiting : f.row.version \in Nat
      /\ \A i \in DOMAIN cache : cache[i].version \in Nat
      /\ \A i \in Ids : db[i].version \in Nat
  BY WriteTypes, StoreTypes, Zenon
<1>4. e.id \in Ids
  BY Zenon DEF Buffered
<1>5. \A f \in Taken \cup Waiting : f.row.version < e.row.version
  BY <1>1, <1>2, <1>3
<1>6. db[e.id].version < e.row.version
  BY <1>1, <1>2, <1>3, <1>4, SMTT(30)
<1>7. \A f \in (Taken \cup Waiting)' : 0 < f.row.version /\ f.row.version <= version_counter'
  <2>1. (Taken \cup Waiting)' = (Taken \cup Waiting) \cup {e}
    BY AddsSets, Zenon
  <2> QED BY <1>1, <1>2, <1>3, <2>1
<1>8. \A i \in DOMAIN cache' : 0 < cache'[i].version /\ cache'[i].version <= version_counter'
  <2> SUFFICES ASSUME NEW i \in DOMAIN cache'
               PROVE  0 < cache'[i].version /\ cache'[i].version <= version_counter'
    BY Zenon
  <2>1. cache'[i] = e.row \/ (i \in DOMAIN cache /\ cache'[i] = cache[i])
    BY AddsSets, Zenon
  <2> QED BY <1>1, <1>2, <1>3, <2>1
<1>9. \A i \in Ids : db'[i].version <= version_counter' /\ (db'[i].version = 0 => db'[i] = NoRow)
  BY <1>1, <1>2, <1>3
<1> QED BY <1>5, <1>6, <1>7, <1>8, <1>9, Zenon DEF VersionInv

LEMMA AddsOrder ==
  ASSUME TypeOK, VersionInv, OrderInv, CacheInv, NEW e \in Buffered, Adds(e)
  PROVE  OrderInv'
<1>1. \A f \in Taken \cup Waiting : f.row.version < e.row.version
  BY AddsVersions, Zenon
<1>2. /\ pending_inserts \in Seq(Buffered) /\ pending_updates \in Seq(Buffered)
  BY Zenon DEF TypeOK
<1>3. UNCHANGED <<db, flusher>>
  BY Zenon DEF Adds
<1>4. /\ Taken' = Taken /\ Waiting' = Waiting \cup {e}
  BY AddsSets, Zenon
<1>5. \A s \in {pending_inserts, pending_updates, flusher.batch.inserts, flusher.batch.updates} :
        Ascending(s)
  BY Zenon DEF OrderInv
<1>6. /\ Ascending(Append(pending_inserts, e)) /\ Ascending(Append(pending_updates, e))
  <2>1. /\ \A f \in Items(pending_inserts) : f.row.version < e.row.version
        /\ \A f \in Items(pending_updates) : f.row.version < e.row.version
    BY <1>1, Zenon DEF Waiting
  <2> QED BY <1>2, <1>5, <2>1, AscendingAppend, Zenon
<1>7. /\ Ascending(pending_inserts') /\ Ascending(pending_updates')
      /\ Ascending(flusher'.batch.inserts) /\ Ascending(flusher'.batch.updates)
  BY <1>3, <1>5, <1>6, Zenon DEF Adds
<1>8. \A f \in Taken', g \in Waiting' : Before(f, g)
  BY <1>1, <1>4, Zenon DEF OrderInv, Before
<1>9. \A f \in Inserting', g \in Updating' : Before(f, g)
  <2>1. ASSUME Inserting' = Inserting \cup {e}, Updating' = Updating, Visible(e.id) = NoRow
        PROVE  \A f \in Inserting', g \in Updating' : Before(f, g)
    <3>1. \A g \in Updating : g.id # e.id
      BY <2>1, WriteIsVisible, Zenon DEF Updating, Taken, Waiting
    <3> QED BY <2>1, <3>1, Zenon DEF OrderInv, Before
  <2>2. ASSUME Inserting' = Inserting, Updating' = Updating \cup {e}
        PROVE  \A f \in Inserting', g \in Updating' : Before(f, g)
    <3>1. \A f \in Inserting : f.row.version < e.row.version
      BY <1>1, Zenon DEF Inserting, Taken, Waiting
    <3> QED BY <2>2, <3>1, Zenon DEF OrderInv, Before
  <2> QED BY <2>1, <2>2, AddsSets, Zenon
<1>10. \A f \in Waiting' : db'[f.id].version < f.row.version
  BY <1>3, <1>4, AddsVersions, Zenon DEF OrderInv
<1>11. flusher'.pc = "commit" => \A f \in Taken' : db'[f.id].version < f.row.version
  BY <1>3, <1>4, Zenon DEF OrderInv
<1> QED BY <1>7, <1>8, <1>9, <1>10, <1>11, Zenon DEF OrderInv

LEMMA AddsCache ==
  ASSUME TypeOK, VersionInv, CacheInv, NEW e \in Buffered, Adds(e)
  PROVE  CacheInv'
<1>1. /\ \A f \in Taken \cup Waiting : f.row.version < e.row.version
      /\ db[e.id].version < e.row.version
  BY AddsVersions, Zenon
<1>2. db' = db
  BY Zenon DEF Adds
<1>3. /\ (Taken \cup Waiting)' = (Taken \cup Waiting) \cup {e}
      /\ DOMAIN cache' = DOMAIN cache \cup {e.id} /\ cache'[e.id] = e.row
      /\ \A i \in DOMAIN cache : i # e.id => cache'[i] = cache[i]
  BY AddsSets, Zenon
<1>4. e.row.version \in Nat /\ e.id \in Ids
  BY Zenon DEF Buffered, Row
<1>5. \A f \in Taken \cup Waiting : f.row.version \in Nat
  BY WriteTypes, Zenon
<1>6. \A f \in (Taken \cup Waiting)' :
        f.id \in DOMAIN cache' /\ f.row.version <= cache'[f.id].version
  <2> SUFFICES ASSUME NEW f \in (Taken \cup Waiting) \cup {e}
               PROVE  f.id \in DOMAIN cache' /\ f.row.version <= cache'[f.id].version
    BY <1>3, Zenon
  <2>1. CASE f.id = e.id
    <3>1. f.row.version <= e.row.version
      BY <1>1, <1>4, <1>5
    <3> QED BY <1>3, <2>1, <3>1, Zenon
  <2>2. CASE f.id # e.id
    BY <1>3, <2>2, Zenon DEF CacheInv
  <2> QED BY <2>1, <2>2, Zenon
<1>7. \A i \in DOMAIN cache' :
        \E f \in (Taken \cup Waiting)' : f.id = i /\ f.row.version = cache'[i].version
  <2> SUFFICES ASSUME NEW i \in DOMAIN cache \cup {e.id}
               PROVE  \E f \in (Taken \cup Waiting) \cup {e} :
                        f.id = i /\ f.row.version = cache'[i].version
    BY <1>3, Zenon
  <2>1. CASE i = e.id
    BY <1>3, <2>1, Zenon
  <2>2. CASE i # e.id
    <3>1. PICK f \in Taken \cup Waiting : f.id = i /\ f.row.version = cache[i].version
      BY <2>2, Zenon DEF CacheInv
    <3>2. cache'[i] = cache[i]
      BY <1>3, <2>2, Zenon
    <3> QED BY <3>1, <3>2, Zenon
  <2> QED BY <2>1, <2>2, Zenon
<1>8. \A i \in DOMAIN cache' : db'[i].version <= cache'[i].version
  <2> SUFFICES ASSUME NEW i \in DOMAIN cache \cup {e.id}
               PROVE  db[i].version <= cache'[i].version
    BY <1>2, <1>3, Zenon
  <2>1. CASE i = e.id
    <3>1. db[i].version <= e.row.version
      BY <1>1, <1>4, <2>1, StoreTypes, SMTT(30)
    <3> QED BY <1>3, <2>1, <3>1, Zenon
  <2>2. CASE i # e.id
    BY <1>3, <2>2, Zenon DEF CacheInv
  <2> QED BY <2>1, <2>2, Zenon
<1> QED BY <1>6, <1>7, <1>8, Zenon DEF CacheInv

LEMMA AddsVisible ==
  ASSUME TypeOK, VersionInv, CacheInv, NEW e \in Buffered, Adds(e)
  PROVE  /\ \A i \in Ids : Visible(i)' = IF i = e.id THEN e.row ELSE Visible(i)
         /\ e.row # NoRow
         /\ \A i \in Ids : Table'[i] >= Table[i]
<1>1. /\ DOMAIN cache' = DOMAIN cache \cup {e.id} /\ cache'[e.id] = e.row
      /\ \A i \in DOMAIN cache : i # e.id => cache'[i] = cache[i]
  BY AddsSets, Zenon
<1>2. db' = db
  BY Zenon DEF Adds
<1>3. \A i \in Ids : Visible(i)' = IF i = e.id THEN e.row ELSE Visible(i)
  BY <1>1, <1>2, Zenon DEF Visible
<1>4. e.row # NoRow
  <2>1. e.row.version # 0
    BY StoreTypes DEF Adds
  <2> QED BY <2>1 DEF NoRow
<1>5. \A i \in Ids : Table[i] = Visible(i).version /\ Table'[i] = Visible(i)'.version
  BY Zenon DEF Table
<1>6. \A i \in Ids : Visible(i).version \in Nat /\ Visible(i).version <= version_counter
  <2> SUFFICES ASSUME NEW i \in Ids
               PROVE  Visible(i).version \in Nat /\ Visible(i).version <= version_counter
    BY Zenon
  <2>1. CASE i \in DOMAIN cache
    BY <2>1, StoreTypes, Zenon DEF Visible, VersionInv
  <2>2. CASE i \notin DOMAIN cache
    BY <2>2, StoreTypes, Zenon DEF Visible, VersionInv
  <2> QED BY <2>1, <2>2, Zenon
<1>7. e.row.version = version_counter + 1 /\ version_counter \in Nat
  BY StoreTypes, Zenon DEF Adds
<1>8. \A i \in Ids : Table'[i] >= Table[i]
  <2> SUFFICES ASSUME NEW i \in Ids PROVE Table'[i] >= Table[i]
    BY Zenon
  <2>1. CASE i = e.id
    <3>1. Table'[i] = version_counter + 1 /\ Table[i] = Visible(i).version
      BY <1>3, <1>5, <1>7, <2>1, Zenon
    <3> QED BY <1>6, <1>7, <3>1
  <2>2. CASE i # e.id
    <3>1. Table'[i] = Visible(i).version /\ Table[i] = Visible(i).version
      BY <1>3, <1>5, <2>2, Zenon
    <3> QED BY <1>6, <3>1
  <2> QED BY <2>1, <2>2, Zenon
<1> QED BY <1>3, <1>4, <1>8, Zenon

LEMMA AddsExist ==
  ASSUME TypeOK, CallInv, VersionInv, CacheInv, ExistInv, NEW e \in Buffered, Adds(e),
         Updating' = Updating \/ last_flush_error \/ Visible(e.id) # NoRow,
         \A u \in Threads : th'[u].pc \in {"recorded", "update"} => th'[u] = th[u]
  PROVE  ExistInv'
<1> SUFFICES ASSUME ~ last_flush_error PROVE ExistInv'
  BY Zenon DEF ExistInv, Adds
<1>1. UNCHANGED <<db, flusher, last_flush_error>>
  BY Zenon DEF Adds
<1>2. e.id \in Ids
  BY Zenon DEF Buffered
<1>3. Inserting \subseteq Inserting' /\ Updating' \subseteq Updating \cup {e} /\ Taken' = Taken
  BY AddsSets, Zenon
<1>4. ASSUME flusher'.ok, NEW f \in Updating'
      PROVE  db'[f.id] # NoRow \/ \E x \in Inserting' : x.id = f.id
  <2>1. \A g \in Updating : db[g.id] # NoRow \/ \E x \in Inserting : x.id = g.id
    BY <1>1, <1>4, Zenon DEF ExistInv
  <2>2. CASE f \in Updating
    BY <1>1, <1>3, <2>1, <2>2, Zenon
  <2>3. CASE f \notin Updating
    <3>1. f = e /\ Visible(e.id) # NoRow
      BY <1>3, <1>4, <2>3, Zenon
    <3>2. CASE e.id \in DOMAIN cache
      <4>1. PICK x \in Taken \cup Waiting : x.id = e.id
        BY <3>2, Zenon DEF CacheInv
      <4>2. x \in Inserting \/ x \in Updating
        BY WriteTypes, Zenon
      <4> QED BY <1>1, <1>3, <2>1, <3>1, <4>1, <4>2, Zenon
    <3>3. CASE e.id \notin DOMAIN cache
      BY <1>1, <3>1, <3>3, Zenon DEF Visible
    <3> QED BY <3>2, <3>3, Zenon
  <2> QED BY <2>2, <2>3, Zenon
<1>5. ASSUME NEW u \in Threads, th'[u].pc \in {"recorded", "update"}
      PROVE  Visible(th[u].id)' # NoRow
  <2>1. th'[u] = th[u]
    BY <1>5, Zenon
  <2>2. PICK i \in Ids : i = th[u].id
    BY <1>5, <2>1, Zenon DEF CallInv
  <2>3. Visible(i) # NoRow
    BY <1>5, <2>1, <2>2, Zenon DEF ExistInv
  <2>4. Visible(i)' # NoRow
    BY <2>3, AddsVisible, Zenon
  <2> QED BY <2>1, <2>2, <2>4, Zenon DEF Visible
<1>6. ASSUME flusher'.pc = "retire", flusher'.ok, NEW i \in DOMAIN cache', Retired(i)'
      PROVE  db'[i].version = cache'[i].version
  <2>1. PICK f \in Taken : f.id = i /\ f.row.version = cache'[i].version
    BY <1>3, <1>6, Zenon DEF Retired, Taken, Items
  <2>2. f.row.version < e.row.version /\ f.row.version \in Nat
    BY AddsVersions, WriteTypes, Zenon
  <2>3. i # e.id
    <3>1. f.row.version # e.row.version
      BY <2>2, AddsVersions
    <3> QED BY <2>1, <3>1, AddsSets, Zenon
  <2>4. i \in DOMAIN cache /\ cache'[i] = cache[i]
    BY <1>6, <2>3, AddsSets, Zenon
  <2>5. Retired(i)
    BY <2>1, <2>4, RetiredIsTaken, Zenon
  <2> QED BY <1>1, <1>6, <2>4, <2>5, Zenon DEF ExistInv
<1> QED BY <1>1, <1>4, <1>5, <1>6, Zenon DEF ExistInv

LEMMA AddsTable ==
  ASSUME TypeOK, CallInv, TableInv, NEW e \in Buffered, Adds(e), WaiterInv',
         UNCHANGED <<db_attempts, late>>,
         Updating' = Updating \/ last_flush_error \/ Visible(e.id) # NoRow,
         \A u \in Threads : th'[u].pc \in {"recorded", "update"} => th'[u] = th[u]
  PROVE  TableInv'
<1>1. VersionInv /\ OrderInv /\ CacheInv /\ ExistInv /\ BatchInv
  BY Zenon DEF TableInv
<1>2. BatchInv'
  BY <1>1, Zenon DEF BatchInv, Adds
<1> QED BY <1>1, <1>2, AddsVersions, AddsOrder, AddsCache, AddsExist, Zenon DEF TableInv

\* A step that writes nothing: it moves a thread or numbers a record.
LEMMA StillTable ==
  ASSUME TypeOK, TableInv, WaiterInv',
         UNCHANGED <<db, db_attempts, pending_inserts, pending_updates, cache, flusher,
                     last_flush_error, late>>,
         version_counter' \in Nat, version_counter <= version_counter',
         \A u \in Threads : th'[u].pc \in {"recorded", "update"} =>
                              last_flush_error \/ Visible(th'[u].id) # NoRow
  PROVE  TableInv'
<1>1. /\ Taken' = Taken /\ Waiting' = Waiting /\ Inserting' = Inserting /\ Updating' = Updating
  BY Zenon DEF Taken, Waiting, Inserting, Updating
<1>2. BatchInv'
  BY Zenon DEF TableInv, BatchInv
<1>3. VersionInv'
  <2>1. /\ \A f \in Taken \cup Waiting : 0 < f.row.version /\ f.row.version <= version_counter
        /\ \A i \in DOMAIN cache : 0 < cache[i].version /\ cache[i].version <= version_counter
        /\ \A i \in Ids : db[i].version <= version_counter /\ (db[i].version = 0 => db[i] = NoRow)
    BY Zenon DEF TableInv, VersionInv
  <2>2. /\ version_counter \in Nat
        /\ \A f \in Taken \cup Waiting : f.row.version \in Nat
        /\ \A i \in DOMAIN cache : cache[i].version \in Nat
        /\ \A i \in Ids : db[i].version \in Nat
    BY WriteTypes, StoreTypes, Zenon
  <2>3. /\ \A f \in Taken \cup Waiting : f.row.version <= version_counter'
        /\ \A i \in DOMAIN cache : cache[i].version <= version_counter'
        /\ \A i \in Ids : db[i].version <= version_counter'
    BY <2>1, <2>2
  <2> QED BY <1>1, <2>1, <2>3, Zenon DEF VersionInv
<1>4. OrderInv'
  BY <1>1, Zenon DEF TableInv, OrderInv
<1>5. CacheInv'
  BY <1>1, Zenon DEF TableInv, CacheInv
<1>6. ExistInv'
  <2>1. ASSUME NEW i \in DOMAIN cache, Retired(i)'
        PROVE  Retired(i)
    BY <2>1, Zenon DEF Retired
  <2>2. ASSUME NEW u \in Threads, th'[u].pc \in {"recorded", "update"}, ~ last_flush_error
        PROVE  Visible(th[u].id)' # NoRow
    BY <2>2, Zenon DEF Visible
  <2> QED BY <1>1, <2>1, <2>2, Zenon DEF TableInv, ExistInv
<1> QED BY <1>2, <1>3, <1>4, <1>5, <1>6, Zenon DEF TableInv

\* insert_workflow puts rows on disk that nobody had a write under way for.
LEMMA ThroughTable ==
  ASSUME TypeOK, CallInv, TableInv, NEW t \in Threads, NEW S \in SUBSET Ids, insert_workflow(t, S)
  PROVE  /\ TableInv'
         /\ \A i \in Ids : \/ db'[i] = db[i] /\ Table'[i] = Table[i]
                           \/ /\ db[i] = NoRow /\ Table[i] = 0 /\ Table'[i] > 0
                              /\ db'[i].version = Table'[i] /\ db'[i].att = 0
<1>1. /\ UNCHANGED <<db_attempts, pending_inserts, pending_updates, pending_attempts, cache,
                     flusher, last_flush_error, th, late>>
      /\ version_counter' = version_counter + 1
      /\ \A i \in S : Visible(i) = NoRow
  BY Zenon DEF insert_workflow, buffers
<1>2. /\ \A i \in S : db'[i] = [version |-> version_counter + 1, att |-> 0]
      /\ \A i \in Ids : i \notin S => db'[i] = db[i]
  BY <1>1, Zenon DEF insert_workflow
<1>3. \A i \in S : i \notin DOMAIN cache
  BY <1>1, CachedIsVisible, Zenon DEF TableInv
<1>4. \A f \in Taken \cup Waiting : f.id \notin S
  BY <1>3, Zenon DEF TableInv, CacheInv
<1>5. /\ Taken' = Taken /\ Waiting' = Waiting /\ Inserting' = Inserting /\ Updating' = Updating
  BY <1>1, Zenon DEF Taken, Waiting, Inserting, Updating
<1>6. version_counter \in Nat
  BY StoreTypes, Zenon
<1>7. \A f \in Taken \cup Waiting : f.id \in Ids /\ db'[f.id] = db[f.id]
  BY <1>2, <1>4, WriteTypes, Zenon
<1>8. \A i \in DOMAIN cache : db'[i] = db[i]
  BY <1>2, <1>3, StoreTypes, Zenon
<1>9. \A i \in S : db'[i].version = version_counter + 1 /\ db'[i].att = 0 /\ db'[i] # NoRow
  BY <1>2, <1>6 DEF NoRow
<1>10. WaiterInv' /\ BatchInv'
  BY <1>1, Zenon DEF TableInv, WaiterInv, BatchInv
<1>11. VersionInv'
  <2>1. /\ \A f \in Taken \cup Waiting : 0 < f.row.version /\ f.row.version <= version_counter
        /\ \A i \in DOMAIN cache : 0 < cache[i].version /\ cache[i].version <= version_counter
        /\ \A i \in Ids : db[i].version <= version_counter /\ (db[i].version = 0 => db[i] = NoRow)
    BY Zenon DEF TableInv, VersionInv
  <2>2. /\ \A f \in Taken \cup Waiting : f.row.version \in Nat
        /\ \A i \in DOMAIN cache : cache[i].version \in Nat
        /\ \A i \in Ids : db[i].version \in Nat
    BY WriteTypes, StoreTypes, Zenon
  <2>3. /\ \A f \in Taken \cup Waiting : f.row.version <= version_counter'
        /\ \A i \in DOMAIN cache : cache[i].version <= version_counter'
    BY <1>1, <1>6, <2>1, <2>2, SMTT(30)
  <2>4. \A i \in Ids : db'[i].version <= version_counter' /\ (db'[i].version = 0 => db'[i] = NoRow)
    <3> SUFFICES ASSUME NEW i \in Ids
                 PROVE  db'[i].version <= version_counter' /\ (db'[i].version = 0 => db'[i] = NoRow)
      BY Zenon
    <3>1. CASE i \in S
      BY <1>1, <1>6, <1>9, <3>1, SMTT(30)
    <3>2. CASE i \notin S
      BY <1>1, <1>2, <1>6, <2>1, <2>2, <3>2, SMTT(30)
    <3> QED BY <3>1, <3>2, Zenon
  <2> QED BY <1>1, <1>5, <2>1, <2>3, <2>4, Zenon DEF VersionInv
<1>12. OrderInv'
  BY <1>1, <1>5, <1>7, Zenon DEF TableInv, OrderInv
<1>13. CacheInv'
  BY <1>1, <1>5, <1>8, Zenon DEF TableInv, CacheInv
<1>14. ExistInv'
  <2>1. ASSUME NEW i \in DOMAIN cache, Retired(i)'
        PROVE  Retired(i)
    BY <1>1, <2>1, Zenon DEF Retired
  <2>2. ASSUME NEW i \in Ids, Visible(i) # NoRow
        PROVE  Visible(i)' # NoRow
    BY <1>1, <1>2, <1>9, <2>2, Zenon DEF Visible
  <2>3. ASSUME NEW u \in Threads, th'[u].pc \in {"recorded", "update"}, ~ last_flush_error
        PROVE  Visible(th[u].id)' # NoRow
    <3>1. Visible(th[u].id) # NoRow
      BY <1>1, <2>3, Zenon DEF TableInv, ExistInv
    <3>2. PICK i \in Ids : i = th[u].id
      BY <1>1, <2>3, Zenon DEF CallInv
    <3>3. Visible(i)' # NoRow
      BY <2>2, <3>1, <3>2, Zenon
    <3> QED BY <1>1, <3>2, <3>3, Zenon DEF Visible
  <2>4. \A f \in Updating : db'[f.id] = db[f.id]
    BY <1>7, WriteTypes, Zenon
  <2> QED BY <1>1, <1>5, <1>8, <2>1, <2>3, <2>4, Zenon DEF TableInv, ExistInv
<1>15. ASSUME NEW i \in Ids
       PROVE  \/ db'[i] = db[i] /\ Table'[i] = Table[i]
              \/ /\ db[i] = NoRow /\ Table[i] = 0 /\ Table'[i] > 0
                 /\ db'[i].version = Table'[i] /\ db'[i].att = 0
  <2>1. Table[i] = Visible(i).version /\ Table'[i] = Visible(i)'.version
    BY Zenon DEF Table
  <2>2. CASE i \in S
    <3>1. i \notin DOMAIN cache /\ Visible(i) = db[i] /\ Visible(i)' = db'[i] /\ db[i] = NoRow
      BY <1>1, <1>3, <2>2, Zenon DEF Visible
    <3>2. NoRow.version = 0
      BY Zenon DEF NoRow
    <3>3. Table[i] = 0 /\ Table'[i] = db'[i].version /\ db[i] = NoRow
      BY <2>1, <3>1, <3>2, Zenon
    <3> QED BY <1>6, <1>9, <2>2, <3>3, SMTT(30)
  <2>3. CASE i \notin S
    BY <1>1, <1>2, <2>1, <2>3, Zenon DEF Visible
  <2> QED BY <2>2, <2>3, Zenon
<1> QED BY <1>10, <1>11, <1>12, <1>13, <1>14, <1>15, Zenon DEF TableInv

-----------------------------------------------------------------------------
(* The flusher *)

LEMMA TakeSets ==
  ASSUME TypeOK, BufferInv, TableInv, flusher_take
  PROVE  /\ Taken = {} /\ Taken' \cup Waiting' = Taken \cup Waiting
         /\ Inserting' = Inserting /\ Updating' = Updating
         /\ Taken' = Inserting \cup Items(Prefix(pending_updates))
         /\ Waiting' = Items(Rest(pending_updates))
<1>1. /\ pending_inserts \in Seq(Buffered) /\ pending_updates \in Seq(Buffered)
  BY Zenon DEF TypeOK
<1>2. /\ flusher'.batch.inserts = Prefix(pending_inserts)
      /\ flusher'.batch.updates = Prefix(pending_updates)
      /\ pending_inserts' = Rest(pending_inserts) /\ pending_updates' = Rest(pending_updates)
  BY Zenon DEF flusher_take
<1>3. flusher.batch.inserts = <<>> /\ flusher.batch.updates = <<>>
  <2>1. flusher.batch = EmptyBatch
    BY Zenon DEF TableInv, BatchInv, flusher_take
  <2> QED BY <2>1 DEF EmptyBatch
<1>4. Items(flusher.batch.inserts) = {} /\ Items(flusher.batch.updates) = {}
  BY <1>3, ItemsEmpty, Zenon
<1>5. Rest(pending_inserts) = <<>> /\ Items(Prefix(pending_inserts)) = Items(pending_inserts)
  BY TakeAll, Zenon DEF TableInv
<1>6. Items(pending_updates) = Items(Prefix(pending_updates)) \cup Items(Rest(pending_updates))
  BY <1>1, ItemsSplit, Zenon
<1>7. Items(flusher.batch.inserts)' = Items(pending_inserts)
  BY <1>2, <1>5, Zenon DEF Items
<1>8. Items(flusher.batch.updates)' = Items(Prefix(pending_updates))
  BY <1>2, Zenon DEF Items
<1>9. Items(pending_inserts)' = {}
  BY <1>2, <1>5, ItemsEmpty, Zenon DEF Items
<1>10. Items(pending_updates)' = Items(Rest(pending_updates))
  BY <1>2, Zenon DEF Items
<1> HIDE DEF Items
<1> QED BY <1>4, <1>6, <1>7, <1>8, <1>9, <1>10, Zenon DEF Taken, Waiting, Inserting, Updating

LEMMA TakeTable ==
  ASSUME TypeOK, BufferInv, TableInv, flusher_take
  PROVE  TableInv'
<1>1. /\ pending_inserts \in Seq(Buffered) /\ pending_updates \in Seq(Buffered)
  BY Zenon DEF TypeOK
<1>2. /\ flusher'.batch.inserts = Prefix(pending_inserts)
      /\ flusher'.batch.updates = Prefix(pending_updates)
      /\ pending_inserts' = Rest(pending_inserts) /\ pending_updates' = Rest(pending_updates)
      /\ flusher'.pc = "commit" /\ flusher'.ok = TRUE
      /\ UNCHANGED <<db, cache, version_counter, last_flush_error, th>>
  BY Zenon DEF flusher_take, counters
<1>3. Rest(pending_inserts) = <<>>
  BY TakeAll, Zenon DEF TableInv
<1>4. WaiterInv'
  <2>1. Items(pending_inserts)' = {}
    BY <1>2, <1>3, ItemsEmpty, ZenonT(60) DEF Items
  <2> QED BY <2>1, Zenon DEF WaiterInv
<1>5. BatchInv'
  BY <1>2, Zenon DEF BatchInv
<1>6. VersionInv'
  <2>1. (Taken \cup Waiting)' = Taken \cup Waiting
    BY TakeSets, Zenon
  <2> QED BY <1>2, <2>1, Zenon DEF TableInv, VersionInv
<1>7. CacheInv'
  <2>1. (Taken \cup Waiting)' = Taken \cup Waiting
    BY TakeSets, Zenon
  <2> QED BY <1>2, <2>1, Zenon DEF TableInv, CacheInv
<1>8. OrderInv'
  <2>1. Ascending(pending_inserts) /\ Ascending(pending_updates)
    BY Zenon DEF TableInv, OrderInv
  <2>2. /\ Ascending(Prefix(pending_inserts)) /\ Ascending(Rest(pending_inserts))
        /\ Ascending(Prefix(pending_updates)) /\ Ascending(Rest(pending_updates))
        /\ \A e \in Items(Prefix(pending_updates)), f \in Items(Rest(pending_updates)) :
             e.row.version < f.row.version
    BY <1>1, <2>1, AscendingSplit, Zenon
  <2>3. \A s \in {pending_inserts, pending_updates, flusher.batch.inserts, flusher.batch.updates}' :
          Ascending(s)
    BY <1>2, <2>2, Zenon
  <2>4. \A e \in Inserting, f \in Updating : Before(e, f)
    BY Zenon DEF TableInv, OrderInv
  <2>5. Items(Rest(pending_updates)) \subseteq Updating
    BY <1>1, ItemsSplit, Zenon DEF Updating
  <2>6. \A e \in Taken', f \in Waiting' : Before(e, f)
    BY <2>2, <2>4, <2>5, TakeSets, Zenon DEF Before
  <2>7. \A e \in Inserting', f \in Updating' : Before(e, f)
    BY <2>4, TakeSets, Zenon
  <2>8. \A e \in Waiting : db[e.id].version < e.row.version
    BY Zenon DEF TableInv, OrderInv
  <2>9. \A e \in Taken' \cup Waiting' : db'[e.id].version < e.row.version
    BY <1>2, <2>8, TakeSets, Zenon
  <2> QED BY <2>3, <2>6, <2>7, <2>9, Zenon DEF OrderInv
<1>9. ExistInv'
  <2>1. flusher.ok
    BY Zenon DEF TableInv, BatchInv, flusher_take
  <2>2. flusher'.pc # "retire"
    BY <1>2, Zenon
  <2>3. ASSUME NEW u \in Threads, th'[u].pc \in {"recorded", "update"}, ~ last_flush_error
        PROVE  Visible(th[u].id)' # NoRow
    <3>1. Visible(th[u].id) # NoRow
      BY <1>2, <2>3, Zenon DEF TableInv, ExistInv
    <3> QED BY <1>2, <3>1, Zenon DEF Visible
  <2> QED BY <1>2, <2>1, <2>2, <2>3, TakeSets, Zenon DEF TableInv, ExistInv
<1> QED BY <1>4, <1>5, <1>6, <1>7, <1>8, <1>9, Zenon DEF TableInv

\* A transaction writes the newest row of the batch over every job that has a row or an insert
\* in the batch, and leaves the others.
LEMMA CommitRows ==
  ASSUME TypeOK, BufferInv, OrderInv, commit_batch, NEW i \in Ids
  PROVE  /\ db'[i] = db[i] \/ \E e \in Taken : e.id = i /\ db'[i] = e.row
         /\ (db[i] # NoRow \/ \E e \in Items(flusher.batch.inserts) : e.id = i) =>
              /\ db'[i] # NoRow
              /\ \A e \in Taken : e.id = i => e.row.version <= db'[i].version
<1> DEFINE bi == flusher.batch.inserts
           bu == flusher.batch.updates
           ins == After(bi, i, db[i])
<1>1. db'[i] = IF ins = NoRow THEN NoRow ELSE After(bu, i, ins)
  BY Zenon DEF commit_batch, Written
<1>2. bi \in Seq(Buffered) /\ bu \in Seq(Buffered)
  BY BatchType, Zenon
<1>3. Ascending(bi) /\ Ascending(bu)
  BY Zenon DEF OrderInv
<1>4. Taken = Items(bi) \cup Items(bu)
  BY Zenon DEF Taken
<1>5. (\A e \in Items(bi) : e.row # NoRow) /\ (\A e \in Items(bu) : e.row # NoRow)
  BY Zenon DEF BufferInv, InOrder, Items
<1>6. \A e \in Items(bi), f \in Items(bu) : e.id = i /\ f.id = i => e.row.version < f.row.version
  BY Zenon DEF OrderInv, Before, Inserting, Updating
<1>7. \A e \in Taken : e.row.version \in Nat
  BY WriteTypes, Zenon
<1>8. (\A e \in Items(bi) : e.id # i) => ins = db[i]
  BY AfterNone, Zenon
<1>9. ASSUME \E e \in Items(bi) : e.id = i
      PROVE  \E e \in Items(bi) : /\ e.id = i /\ ins = e.row
                                  /\ \A f \in Items(bi) : f.id = i => f.row.version <= e.row.version
  BY <1>2, <1>3, <1>9, AfterNewest, SMTT(30)
<1>10. (\A e \in Items(bu) : e.id # i) => After(bu, i, ins) = ins
  BY AfterNone, Zenon
<1>11. ASSUME \E e \in Items(bu) : e.id = i
       PROVE  \E e \in Items(bu) : /\ e.id = i /\ After(bu, i, ins) = e.row
                                   /\ \A f \in Items(bu) : f.id = i => f.row.version <= e.row.version
  BY <1>2, <1>3, <1>11, AfterNewest, SMTT(30)
<1> HIDE DEF bi, bu, ins
<1>12. db'[i] = db[i] \/ \E e \in Taken : e.id = i /\ db'[i] = e.row
  BY <1>1, <1>4, <1>5, <1>8, <1>9, <1>10, <1>11, Zenon
<1>13. ASSUME db[i] # NoRow \/ \E e \in Items(bi) : e.id = i
       PROVE  db'[i] # NoRow /\ \A e \in Taken : e.id = i => e.row.version <= db'[i].version
  <2>1. ins # NoRow
    BY <1>5, <1>8, <1>9, <1>13, Zenon
  <2>2. db'[i] = After(bu, i, ins)
    BY <1>1, <2>1, Zenon
  <2>3. CASE \A e \in Items(bu) : e.id # i
    <3>1. db'[i] = ins
      BY <1>10, <2>2, <2>3, Zenon
    <3>2. \A e \in Taken : e.id = i => e.row.version <= db'[i].version
      BY <1>4, <1>9, <2>3, <3>1, Zenon
    <3> QED BY <2>1, <3>1, <3>2, Zenon
  <2>4. CASE \E e \in Items(bu) : e.id = i
    <3>1. PICK f \in Items(bu) : /\ f.id = i /\ db'[i] = f.row
                                 /\ \A g \in Items(bu) : g.id = i => g.row.version <= f.row.version
      BY <1>11, <2>2, <2>4, Zenon
    <3>2. \A e \in Items(bi) : e.id = i => e.row.version <= f.row.version
      <4> SUFFICES ASSUME NEW e \in Items(bi), e.id = i PROVE e.row.version <= f.row.version
        BY Zenon
      <4>1. e.row.version < f.row.version
        BY <1>6, <3>1, Zenon
      <4>2. e.row.version \in Nat /\ f.row.version \in Nat
        BY <1>4, <1>7, Zenon
      <4> QED BY <4>1, <4>2
    <3> QED BY <1>4, <1>5, <3>1, <3>2, Zenon
  <2> QED BY <2>3, <2>4, Zenon
<1> QED BY <1>12, <1>13, Zenon DEF bi

LEMMA CommitTable ==
  ASSUME TypeOK, DurabilityInv, TableInv, commit_batch
  PROVE  /\ TableInv'
         /\ \A i \in Ids : db[i].version <= db'[i].version /\ db'[i].version <= Table[i]
         /\ Table' = Table
<1>1. /\ flusher.pc = "commit" /\ flusher'.batch = flusher.batch /\ flusher'.pc = "retire"
      /\ flusher'.ok = flusher.ok
      /\ UNCHANGED <<pending_inserts, pending_updates, cache, version_counter, last_flush_error,
                     th, late>>
  BY Zenon DEF commit_batch, TypeOK, buffers, counters
<1>2. /\ Taken' = Taken /\ Waiting' = Waiting /\ Inserting' = Inserting /\ Updating' = Updating
  BY <1>1, Zenon DEF Taken, Waiting, Inserting, Updating, Items
<1>3. BufferInv /\ CallInv /\ WaiterInv /\ BatchInv /\ VersionInv /\ OrderInv /\ CacheInv /\ ExistInv
  BY Zenon DEF DurabilityInv, TableInv
<1>4. \A i \in Ids : db'[i] = db[i] \/ \E e \in Taken : e.id = i /\ db'[i] = e.row
  BY <1>3, CommitRows, Zenon
<1>5. \A i \in Ids : (db[i] # NoRow \/ \E e \in Items(flusher.batch.inserts) : e.id = i) =>
                       /\ db'[i] # NoRow
                       /\ \A e \in Taken : e.id = i => e.row.version <= db'[i].version
  BY <1>3, CommitRows, Zenon
<1>6. \A e \in Taken \cup Waiting : e.id \in Ids /\ e.row.version \in Nat
  BY WriteTypes, Zenon
<1>7. /\ version_counter \in Nat /\ DOMAIN cache \subseteq Ids
      /\ \A i \in Ids : db[i].version \in Nat
      /\ \A i \in DOMAIN cache : cache[i].version \in Nat
  BY StoreTypes, Zenon
<1>8. \A i \in Ids : db'[i].version \in Nat
  BY <1>4, <1>6, <1>7, Zenon
<1>9. WaiterInv'
  BY <1>1, <1>3, Zenon DEF WaiterInv
<1>10. BatchInv'
  <2>1. Items(flusher.batch.attempts) \subseteq db_attempts'
    BY Zenon DEF commit_batch, Items
  <2> QED BY <1>1, <2>1, Zenon DEF BatchInv
<1>11. VersionInv'
  <2>1. \A i \in Ids : db'[i].version <= version_counter /\ (db'[i].version = 0 => db'[i] = NoRow)
    <3> SUFFICES ASSUME NEW i \in Ids
                 PROVE  db'[i].version <= version_counter /\ (db'[i].version = 0 => db'[i] = NoRow)
      BY Zenon
    <3>1. CASE db'[i] = db[i]
      BY <1>3, <3>1, Zenon DEF VersionInv
    <3>2. CASE \E e \in Taken : e.id = i /\ db'[i] = e.row
      <4>1. PICK e \in Taken : db'[i] = e.row
        BY <3>2, Zenon
      <4>2. 0 < e.row.version /\ e.row.version <= version_counter
        BY <1>3, Zenon DEF VersionInv
      <4>3. e.row.version # 0
        BY <1>6, <4>2
      <4> QED BY <4>1, <4>2, <4>3, Zenon
    <3> QED BY <1>4, <3>1, <3>2, Zenon
  <2> QED BY <1>1, <1>2, <1>3, <2>1, Zenon DEF VersionInv
<1>12. OrderInv'
  <2>1. ASSUME NEW f \in Waiting PROVE db'[f.id].version < f.row.version
    <3>1. CASE db'[f.id] = db[f.id]
      BY <1>3, <3>1, Zenon DEF OrderInv
    <3>2. CASE \E e \in Taken : e.id = f.id /\ db'[f.id] = e.row
      BY <1>3, <3>2, Zenon DEF OrderInv, Before
    <3> QED BY <1>4, <1>6, <3>1, <3>2, Zenon
  <2>2. flusher'.pc # "commit"
    BY <1>1, Zenon
  <2> QED BY <1>1, <1>2, <1>3, <2>1, <2>2, Zenon DEF OrderInv
<1>13. CacheInv'
  <2>1. ASSUME NEW i \in DOMAIN cache PROVE db'[i].version <= cache[i].version
    BY <1>3, <1>4, <1>7, Zenon DEF CacheInv
  <2> QED BY <1>1, <1>2, <1>3, <2>1, Zenon DEF CacheInv
<1>14. ExistInv'
  <2> SUFFICES ASSUME ~ last_flush_error PROVE ExistInv'
    BY <1>1, Zenon DEF ExistInv
  <2>1. flusher.ok
    BY <1>1, <1>3, Zenon DEF BatchInv
  <2>2. \A f \in Updating : db[f.id] # NoRow \/ \E e \in Inserting : e.id = f.id
    BY <1>3, <2>1, Zenon DEF ExistInv
  <2>3. \A f \in Updating : f.id \in Ids
    BY <1>6, WriteTypes, Zenon
  <2>4. \A f \in Updating' : db'[f.id] # NoRow \/ \E e \in Inserting' : e.id = f.id
    BY <1>2, <1>5, <2>2, <2>3, Zenon
  <2>5. ASSUME NEW u \in Threads, th'[u].pc \in {"recorded", "update"}
        PROVE  Visible(th[u].id)' # NoRow
    <3>1. th[u].id \in Ids /\ Visible(th[u].id) # NoRow
      BY <1>1, <1>3, <2>5, Zenon DEF CallInv, ExistInv
    <3> QED BY <1>1, <1>5, <3>1, Zenon DEF Visible
  <2>6. ASSUME NEW i \in DOMAIN cache, Retired(i)'
        PROVE  db'[i].version = cache[i].version
    <3>1. PICK e \in Taken : e.id = i /\ e.row.version = cache[i].version
      BY <1>1, <2>6, Zenon DEF Retired, Taken, Items
    <3>2. db[i] # NoRow \/ \E x \in Items(flusher.batch.inserts) : x.id = i
      <4>1. CASE e \in Items(flusher.batch.inserts)
        BY <3>1, <4>1, Zenon
      <4>2. CASE e \notin Items(flusher.batch.inserts)
        <5>1. e \in Updating
          BY <4>2, Zenon DEF Taken, Updating
        <5>2. ASSUME NEW x \in Items(pending_inserts), x.id = i PROVE FALSE
          <6>1. e.row.version < x.row.version
            BY <1>3, <3>1, <5>2, Zenon DEF OrderInv, Before, Waiting
          <6>2. x.row.version < e.row.version
            BY <1>3, <3>1, <5>1, <5>2, Zenon DEF OrderInv, Before, Inserting
          <6>3. x \in Waiting
            BY Zenon DEF Waiting
          <6> QED BY <1>6, <6>1, <6>2, <6>3, SMTT(30)
        <5> QED BY <2>2, <3>1, <5>1, <5>2, Zenon DEF Inserting
      <4> QED BY <4>1, <4>2, Zenon
    <3>3. e.row.version <= db'[i].version
      BY <1>5, <1>7, <3>1, <3>2, Zenon
    <3>4. db'[i].version <= cache[i].version
      BY <1>1, <1>13, Zenon DEF CacheInv
    <3> QED BY <1>7, <1>8, <3>1, <3>3, <3>4, SMTT(30)
  <2> QED BY <1>1, <2>4, <2>5, <2>6, Zenon DEF ExistInv
<1>15. ASSUME NEW i \in Ids
       PROVE  db[i].version <= db'[i].version /\ db'[i].version <= Table[i] /\ Table'[i] = Table[i]
  <2>1. Table[i] = Visible(i).version /\ Table'[i] = Visible(i)'.version
    BY Zenon DEF Table
  <2>2. CASE db'[i] = db[i]
    <3>1. Visible(i)' = Visible(i)
      BY <1>1, <2>2, Zenon DEF Visible
    <3>2. db[i].version <= Visible(i).version
      <4>1. CASE i \in DOMAIN cache
        BY <1>3, <4>1, Zenon DEF Visible, CacheInv
      <4>2. CASE i \notin DOMAIN cache
        <5>1. Visible(i) = db[i]
          BY <4>2, Zenon DEF Visible
        <5> QED BY <1>7, <5>1
      <4> QED BY <4>1, <4>2, Zenon
    <3>3. db[i].version <= db[i].version
      BY <1>7
    <3> QED BY <2>1, <2>2, <3>1, <3>2, <3>3, Zenon
  <2>3. CASE \E e \in Taken : e.id = i /\ db'[i] = e.row
    <3>1. PICK e \in Taken : e.id = i /\ db'[i] = e.row
      BY <2>3, Zenon
    <3>2. i \in DOMAIN cache /\ e.row.version <= cache[i].version
      BY <1>3, <3>1, Zenon DEF CacheInv
    <3>3. Visible(i) = cache[i] /\ Visible(i)' = cache[i]
      BY <1>1, <3>2, Zenon DEF Visible
    <3>4. db[i].version < e.row.version
      BY <1>1, <1>3, <3>1, Zenon DEF OrderInv
    <3>5. db[i].version <= e.row.version
      BY <1>6, <1>7, <3>4
    <3> QED BY <2>1, <3>1, <3>2, <3>3, <3>5, Zenon
  <2> QED BY <1>4, <2>2, <2>3, Zenon
<1>16. Table' = Table
  BY <1>15, Zenon DEF Table
<1> QED BY <1>9, <1>10, <1>11, <1>12, <1>13, <1>14, <1>15, <1>16, Zenon DEF TableInv

LEMMA FailTable ==
  ASSUME TypeOK, TableInv, commit_fails
  PROVE  TableInv'
<1>1. /\ flusher.pc = "commit" /\ flusher'.batch = flusher.batch /\ flusher'.pc = "retire"
      /\ flusher'.ok = FALSE
      /\ UNCHANGED <<db, db_attempts, pending_inserts, pending_updates, cache, version_counter,
                     last_flush_error, th>>
  BY Zenon DEF commit_fails, TypeOK, buffers, counters
<1>2. /\ Taken' = Taken /\ Waiting' = Waiting /\ Inserting' = Inserting /\ Updating' = Updating
  BY <1>1, Zenon DEF Taken, Waiting, Inserting, Updating, Items
<1>3. WaiterInv' /\ VersionInv' /\ CacheInv'
  BY <1>1, <1>2, Zenon DEF TableInv, WaiterInv, VersionInv, CacheInv
<1>4. BatchInv'
  <2>1. Items(flusher.batch.attempts) \subseteq late'
    BY Zenon DEF commit_fails, Items
  <2> QED BY <1>1, <2>1, Zenon DEF BatchInv
<1>5. OrderInv'
  <2>1. flusher'.pc # "commit"
    BY <1>1, Zenon
  <2> QED BY <1>1, <1>2, <2>1, Zenon DEF TableInv, OrderInv
<1>6. ExistInv'
  <2>1. ASSUME NEW u \in Threads, th'[u].pc \in {"recorded", "update"}, ~ last_flush_error
        PROVE  Visible(th[u].id)' # NoRow
    <3>1. Visible(th[u].id) # NoRow
      BY <1>1, <2>1, Zenon DEF TableInv, ExistInv
    <3> QED BY <1>1, <3>1, Zenon DEF Visible
  <2> QED BY <1>1, <2>1, Zenon DEF ExistInv
<1> QED BY <1>3, <1>4, <1>5, <1>6, Zenon DEF TableInv

LEMMA RetireTable ==
  ASSUME TypeOK, DurabilityInv, TableInv, flusher_retire
  PROVE  /\ TableInv'
         /\ \A i \in Ids : Table'[i] = Table[i] \/ (last_flush_error' /\ Table'[i] = db[i].version)
<1>1. /\ flusher.pc = "retire" /\ flusher' = FlusherWaits /\ cache' = Kept
      /\ last_flush_error' = (last_flush_error \/ ~ flusher.ok)
      /\ UNCHANGED <<db, db_attempts, pending_inserts, pending_updates, version_counter, th, late>>
  BY Zenon DEF flusher_retire
<1>2. /\ flusher'.pc = "wait" /\ flusher'.ok = TRUE /\ flusher'.batch = EmptyBatch
      /\ flusher'.batch.inserts = <<>> /\ flusher'.batch.updates = <<>>
  BY <1>1, Zenon DEF FlusherWaits, EmptyBatch
<1>3. BufferInv /\ CallInv /\ WaiterInv /\ BatchInv /\ VersionInv /\ OrderInv /\ CacheInv /\ ExistInv
  BY Zenon DEF DurabilityInv, TableInv
<1>4. /\ Taken' = {} /\ Waiting' = Waiting
      /\ Inserting' = Items(pending_inserts) /\ Updating' = Items(pending_updates)
  <2>1. Items(flusher.batch.inserts)' = {} /\ Items(flusher.batch.updates)' = {}
    BY <1>2, ItemsEmpty, ZenonT(60) DEF Items
  <2>2. /\ Items(pending_inserts)' = Items(pending_inserts)
        /\ Items(pending_updates)' = Items(pending_updates)
    BY <1>1, Zenon DEF Items
  <2> QED BY <2>1, <2>2, Zenon DEF Taken, Waiting, Inserting, Updating
<1>5. /\ DOMAIN cache' = {i \in DOMAIN cache : ~ Retired(i)}
      /\ \A i \in DOMAIN cache' : cache'[i] = cache[i]
  BY <1>1, Zenon DEF Kept
<1>6. \A e \in Taken \cup Waiting : e.id \in Ids /\ e.row.version \in Nat
  BY WriteTypes, Zenon
<1>7. /\ version_counter \in Nat /\ DOMAIN cache \subseteq Ids
      /\ \A i \in Ids : db[i].version \in Nat
      /\ \A i \in DOMAIN cache : cache[i].version \in Nat
  BY StoreTypes, Zenon
<1>8. WaiterInv' /\ BatchInv'
  <2>1. WaiterInv'
    BY <1>1, <1>3, Zenon DEF WaiterInv
  <2> QED BY <1>2, <2>1, Zenon DEF BatchInv
<1>9. VersionInv'
  BY <1>1, <1>3, <1>4, <1>5, Zenon DEF VersionInv
<1>10. OrderInv'
  <2>1. Ascending(<<>>)
    BY DEF Ascending
  <2>2. \A s \in {pending_inserts, pending_updates, flusher.batch.inserts, flusher.batch.updates}' :
          Ascending(s)
    BY <1>1, <1>2, <1>3, <2>1, Zenon DEF OrderInv
  <2>3. flusher'.pc # "commit"
    BY <1>2, Zenon
  <2>4. \A e \in Inserting', f \in Updating' : Before(e, f)
    BY <1>3, <1>4, Zenon DEF OrderInv, Inserting, Updating
  <2> QED BY <1>1, <1>3, <1>4, <2>2, <2>3, <2>4, Zenon DEF OrderInv
<1>11. CacheInv'
  <2>1. ASSUME NEW f \in Waiting PROVE ~ Retired(f.id)
    <3> SUFFICES ASSUME Retired(f.id) PROVE FALSE
      BY Zenon
    <3>1. PICK e \in Taken : e.id = f.id /\ e.row.version = cache[f.id].version
      BY RetiredIsTaken, Zenon
    <3>2. e.row.version < f.row.version
      BY <1>3, <3>1, Zenon DEF OrderInv, Before
    <3>3. f.row.version <= cache[f.id].version
      BY <1>3, Zenon DEF CacheInv
    <3> QED BY <1>6, <3>1, <3>2, <3>3, SMTT(30)
  <2>2. \A f \in Waiting : f.id \in DOMAIN cache' /\ f.row.version <= cache'[f.id].version
    BY <1>3, <1>5, <2>1, Zenon DEF CacheInv
  <2>3. \A i \in DOMAIN cache' : \E f \in Waiting : f.id = i /\ f.row.version = cache'[i].version
    <3> SUFFICES ASSUME NEW i \in DOMAIN cache'
                 PROVE  \E f \in Waiting : f.id = i /\ f.row.version = cache[i].version
      BY <1>5, ZenonT(60)
    <3>1. i \in DOMAIN cache /\ ~ Retired(i)
      BY <1>5, Zenon
    <3>2. PICK f \in Taken \cup Waiting : f.id = i /\ f.row.version = cache[i].version
      BY <1>3, <3>1, Zenon DEF CacheInv
    <3>3. f \notin Taken
      BY <3>1, <3>2, RetiredIsTaken, Zenon
    <3> QED BY <3>2, <3>3, Zenon
  <2>4. \A i \in DOMAIN cache' : db'[i].version <= cache'[i].version
    BY <1>1, <1>3, <1>5, Zenon DEF CacheInv
  <2>5. Taken' \cup Waiting' = Waiting
    BY <1>4, Zenon
  <2> QED BY <2>2, <2>3, <2>4, <2>5, Zenon DEF CacheInv
<1>12. ASSUME ~ last_flush_error', NEW i \in DOMAIN cache, Retired(i)
       PROVE  db[i].version = cache[i].version /\ db[i] # NoRow
  <2>1. db[i].version = cache[i].version
    BY <1>1, <1>3, <1>12, Zenon DEF ExistInv
  <2>2. cache[i].version # 0
    BY <1>3, <1>7 DEF VersionInv
  <2>3. NoRow.version = 0
    BY Zenon DEF NoRow
  <2> QED BY <2>1, <2>2, <2>3, Zenon
<1>13. ExistInv'
  <2> SUFFICES ASSUME ~ last_flush_error' PROVE ExistInv'
    BY Zenon DEF ExistInv
  <2>1. ~ last_flush_error /\ flusher.ok
    BY <1>1, Zenon
  <2>2. ASSUME NEW f \in Items(pending_updates)
        PROVE  db[f.id] # NoRow \/ \E e \in Items(pending_inserts) : e.id = f.id
    <3>1. db[f.id] # NoRow \/ \E e \in Inserting : e.id = f.id
      BY <1>3, <2>1, Zenon DEF ExistInv, Updating
    <3>2. \A e \in Items(flusher.batch.inserts) : db[e.id] # NoRow
      BY <1>1, <1>3, <2>1, Zenon DEF BufferInv, Items
    <3> QED BY <3>1, <3>2, Zenon DEF Inserting
  <2>3. ASSUME NEW u \in Threads, th'[u].pc \in {"recorded", "update"}
        PROVE  Visible(th[u].id)' # NoRow
    <3>1. PICK i \in Ids : i = th[u].id /\ Visible(i) # NoRow
      BY <1>1, <1>3, <2>1, <2>3, Zenon DEF CallInv, ExistInv
    <3>2. Visible(i)' # NoRow
      BY <1>1, <1>5, <1>12, <3>1, Zenon DEF Visible
    <3> QED BY <1>1, <3>1, <3>2, Zenon DEF Visible
  <2>4. flusher'.pc # "retire"
    BY <1>2, Zenon
  <2> QED BY <1>1, <1>4, <2>2, <2>3, <2>4, Zenon DEF ExistInv
<1>14. ASSUME NEW i \in Ids
       PROVE  Table'[i] = Table[i] \/ (last_flush_error' /\ Table'[i] = db[i].version)
  <2>1. Table[i] = Visible(i).version /\ Table'[i] = Visible(i)'.version
    BY Zenon DEF Table
  <2>2. CASE i \in DOMAIN cache /\ Retired(i)
    <3>1. Visible(i) = cache[i]
      BY <2>2, Zenon DEF Visible
    <3>2. Visible(i)' = db[i]
      BY <1>1, <1>5, <2>2, Zenon DEF Visible
    <3> QED BY <1>12, <2>1, <2>2, <3>1, <3>2, Zenon
  <2>3. CASE i \in DOMAIN cache /\ ~ Retired(i)
    <3>1. i \in DOMAIN cache'
      BY <1>5, <2>3, Zenon
    <3> QED BY <1>5, <2>1, <2>3, <3>1, Zenon DEF Visible
  <2>4. CASE i \notin DOMAIN cache
    <3>1. i \notin DOMAIN cache'
      BY <1>5, <2>4, Zenon
    <3> QED BY <1>1, <2>1, <2>4, <3>1, Zenon DEF Visible
  <2> QED BY <2>2, <2>3, <2>4, Zenon
<1> QED BY <1>8, <1>9, <1>10, <1>11, <1>13, <1>14, Zenon DEF TableInv

\* A store that was just opened.
Opened ==
  /\ pending_inserts = <<>> /\ pending_updates = <<>> /\ cache = [i \in {} |-> NoRow]
  /\ flusher = FlusherWaits /\ th = [t \in Threads |-> Idle]
  /\ \A i \in Ids : db[i].version <= version_counter /\ (db[i].version = 0 => db[i] = NoRow)

LEMMA OpenedTable == Opened => TableInv /\ Table = [i \in Ids |-> db[i].version]
<1> SUFFICES ASSUME Opened PROVE TableInv /\ Table = [i \in Ids |-> db[i].version]
  BY Zenon
<1> USE DEF Opened
<1>1. /\ flusher.pc = "wait" /\ flusher.ok = TRUE /\ flusher.batch = EmptyBatch
      /\ flusher.batch.inserts = <<>> /\ flusher.batch.updates = <<>>
  BY Zenon DEF FlusherWaits, EmptyBatch
<1>2. Taken = {} /\ Waiting = {} /\ Inserting = {} /\ Updating = {}
  BY <1>1, ItemsEmpty, Zenon DEF Taken, Waiting, Inserting, Updating
<1>3. DOMAIN cache = {}
  BY Zenon
<1>4. \A t \in Threads : th[t].pc = "idle"
  BY Zenon DEF Idle
<1>5. Ascending(<<>>)
  BY DEF Ascending
<1>6. flusher.pc # "commit" /\ flusher.pc # "retire"
  BY <1>1, Zenon
<1>7. WaiterInv
  BY ItemsEmpty, Zenon DEF WaiterInv
<1>8. BatchInv
  BY <1>1, <1>6, Zenon DEF BatchInv
<1>9. VersionInv
  BY <1>2, <1>3, Zenon DEF VersionInv
<1>10. OrderInv
  BY <1>1, <1>2, <1>5, <1>6, Zenon DEF OrderInv
<1>11. CacheInv
  BY <1>2, <1>3, Zenon DEF CacheInv
<1>12. ExistInv
  <2>1. \A t \in Threads : th[t].pc \notin {"recorded", "update"}
    BY <1>4, Zenon
  <2> QED BY <1>2, <1>6, <2>1, Zenon DEF ExistInv
<1>13. Table = [i \in Ids |-> db[i].version]
  BY <1>3, Zenon DEF Table, Visible
<1> QED BY <1>7, <1>8, <1>9, <1>10, <1>11, <1>12, <1>13, Zenon DEF TableInv

LEMMA OpenedNext == (Opened => TableInv /\ Table = [i \in Ids |-> db[i].version])'
<1>1. Opened => TableInv /\ Table = [i \in Ids |-> db[i].version]
  BY OpenedTable, Zenon
<1> QED BY <1>1, PTL
=============================================================================
