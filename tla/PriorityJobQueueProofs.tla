----------------------- MODULE PriorityJobQueueProofs -----------------------
(* The heaps, the index, the tombstones and the counters of the queue agree, the queue    *)
(* implements JobQueue, and no consumer sleeps through an entry that is due, for every     *)
(* number of jobs, threads, priorities and pushes.                                         *)
EXTENDS PriorityJobQueue, FiniteSetTheorems, WellFoundedInduction, TLAPS

(* QueueInv, of heaps r and d, tombstones, index and counters given as arguments. *)

LiveOf(r, d, tomb) == {e \in r \cup d : e.seq \notin tomb}

Sorted(r, d, tomb, n, t) ==
  /\ r \subseteq Entry /\ d \subseteq Entry /\ IsFiniteSet(r) /\ IsFiniteSet(d)
  /\ \A e \in r \cup d : e.seq < n
  /\ \A e, f \in r \cup d : e.seq = f.seq => e = f
  /\ r \cap d = {}
  /\ \A s \in tomb : \E e \in r \cup d : e.seq = s
  /\ \A e \in r : e.ready_at <= t

Indexed(r, d, tomb, idx) ==
  /\ DOMAIN idx = {e.id : e \in LiveOf(r, d, tomb)}
  /\ \A e \in LiveOf(r, d, tomb) : idx[e.id] = [seq |-> e.seq, delayed |-> e \in d]

Counted(r, d, tomb, lr, ld) ==
  /\ lr = Cardinality(LiveOf(r, d, tomb) \cap r)
  /\ ld = Cardinality(LiveOf(r, d, tomb) \cap d)

HeapInv ==
  /\ next_seq \in Nat \ {0} /\ now \in Nat
  /\ Sorted(ready, delayed, tombstones, next_seq, now)
  /\ Indexed(ready, delayed, tombstones, index)
  /\ Counted(ready, delayed, tombstones, live_ready, live_delayed)

LEMMA HeapImpliesQueue == HeapInv => QueueInv
BY Zenon DEF HeapInv, QueueInv, Sorted, Indexed, Counted, LiveOf, Live, All

LEMMA LocFields ==
  ASSUME NEW n, NEW x, NEW S, NEW loc, loc = [seq |-> n, delayed |-> x \in S]
  PROVE  loc.seq = n /\ (loc.delayed <=> x \in S)
<1>1. CASE x \in S
  <2>1. loc = [seq |-> n, delayed |-> TRUE]
    BY <1>1, Zenon
  <2> QED BY <1>1, <2>1
<1>2. CASE x \notin S
  <2>0. (x \in S) = FALSE
    BY <1>2
  <2>1. loc = [seq |-> n, delayed |-> FALSE]
    BY <2>0, Zenon
  <2> QED BY <1>2, <2>1
<1> QED BY <1>1, <1>2, Zenon

LEMMA EntryType ==
  ASSUME NEW e \in Entry
  PROVE  e.seq \in Nat /\ e.priority \in Nat /\ e.ready_at \in Nat /\ e.id \in Ids
<1>1. /\ e.seq \in Seqs /\ e.priority \in Priorities /\ e.ready_at \in Times
      /\ e.id \in Ids
  BY Zenon DEF Entry
<1>2. MaxPushes \in Nat /\ MaxTime \in Nat /\ Priorities \subseteq Nat
  BY QueueAssumption, Zenon
<1>3. Seqs \subseteq Nat /\ Times \subseteq Nat
  BY <1>2 DEF Seqs, Times
<1> QED BY <1>1, <1>2, <1>3, Zenon

-----------------------------------------------------------------------------
(* Sets and counters *)

LEMMA CountAdd ==
  ASSUME NEW S, NEW T, IsFiniteSet(S), IsFiniteSet(T), S \cap T = {}
  PROVE  /\ IsFiniteSet(S \cup T)
         /\ Cardinality(S \cup T) = Cardinality(S) + Cardinality(T)
         /\ Cardinality(S) \in Nat /\ Cardinality(T) \in Nat
<1>1. Cardinality(S \cap T) = 0
  BY FS_EmptySet, Zenon
<1>2. Cardinality(S) \in Nat /\ Cardinality(T) \in Nat
  BY FS_CardinalityType, Zenon
<1>3. /\ IsFiniteSet(S \cup T)
      /\ Cardinality(S \cup T) = Cardinality(S) + Cardinality(T) - Cardinality(S \cap T)
  BY FS_Union, Zenon
<1> QED BY <1>1, <1>2, <1>3

LEMMA CountDrop ==
  ASSUME NEW S, IsFiniteSet(S), NEW T, T \subseteq S
  PROVE  /\ IsFiniteSet(T) /\ IsFiniteSet(S \ T)
         /\ Cardinality(S \ T) = Dec(Cardinality(S), Cardinality(T))
<1>1. IsFiniteSet(T) /\ IsFiniteSet(S \ T)
  BY FS_Subset, FS_Difference, Zenon
<1>2. S = (S \ T) \cup T /\ (S \ T) \cap T = {}
  BY Zenon
<1>3. /\ Cardinality(S) = Cardinality(S \ T) + Cardinality(T)
      /\ Cardinality(S \ T) \in Nat /\ Cardinality(T) \in Nat
  BY <1>1, <1>2, CountAdd, Zenon
<1> QED BY <1>1, <1>3 DEF Dec

LEMMA CountOne ==
  ASSUME NEW S, IsFiniteSet(S), NEW e, e \notin S
  PROVE  IsFiniteSet(S \cup {e}) /\ Cardinality(S \cup {e}) = Cardinality(S) + 1
BY FS_AddElement, Zenon

-----------------------------------------------------------------------------
(* The live entry of a job goes: what push and remove do first. *)

\* The sequence number push and remove bury.
Buried(id) == {index[i].seq : i \in {id} \cap DOMAIN index}

LEMMA Bury ==
  ASSUME HeapInv, NEW id
  PROVE  LET tomb == tombstones \cup Buried(id)
             live == {e \in Live : e.id # id}
         IN /\ LiveOf(ready, delayed, tomb) = live
            /\ Sorted(ready, delayed, tomb, next_seq, now)
            /\ Indexed(ready, delayed, tomb, Without(id))
            /\ LiveReadyWithout(id) = Cardinality(live \cap ready)
            /\ LiveDelayedWithout(id) = Cardinality(live \cap delayed)
            /\ IsFiniteSet(live \cap ready) /\ IsFiniteSet(live \cap delayed)
<1> DEFINE tomb == tombstones \cup Buried(id)
           live == {e \in Live : e.id # id}
<1>1. /\ Sorted(ready, delayed, tombstones, next_seq, now)
      /\ Indexed(ready, delayed, tombstones, index)
      /\ Counted(ready, delayed, tombstones, live_ready, live_delayed)
      /\ LiveOf(ready, delayed, tombstones) = Live
  BY Zenon DEF HeapInv, LiveOf, Live, All
<1>2. /\ DOMAIN index = {e.id : e \in Live}
      /\ \A e \in Live : index[e.id] = [seq |-> e.seq, delayed |-> e \in delayed]
  BY <1>1, Zenon DEF Indexed
<1>3. \A e \in Live : index[e.id].seq = e.seq /\ (index[e.id].delayed <=> e \in delayed)
  <2> SUFFICES ASSUME NEW e \in Live
               PROVE  index[e.id].seq = e.seq /\ (index[e.id].delayed <=> e \in delayed)
    BY Zenon
  <2>1. index[e.id] = [seq |-> e.seq, delayed |-> e \in delayed]
    BY <1>2, Zenon
  <2> QED BY <2>1, LocFields, Zenon
<1>4. \A e, f \in All : e.seq = f.seq => e = f
  BY <1>1, Zenon DEF Sorted, All
<1>5. \A e \in Live : e \in All /\ e.seq \notin tombstones
  BY Zenon DEF Live
<1>6. \A e, f \in Live : e.id = f.id => e = f
  <2> SUFFICES ASSUME NEW e \in Live, NEW f \in Live, e.id = f.id PROVE e = f
    BY Zenon
  <2>1. e.seq = f.seq
    BY <1>3, Zenon
  <2> QED BY <1>4, <1>5, <2>1, Zenon
<1>7. \A e \in Live : e.seq \in Buried(id) <=> e.id = id
  <2> SUFFICES ASSUME NEW e \in Live PROVE e.seq \in Buried(id) <=> e.id = id
    BY Zenon
  <2>1. CASE e.id = id
    <3>1. id \in DOMAIN index /\ index[id].seq = e.seq
      BY <1>2, <1>3, <2>1, Zenon
    <3> QED BY <2>1, <3>1, Zenon DEF Buried
  <2>2. ASSUME e.seq \in Buried(id) PROVE e.id = id
    <3>1. id \in DOMAIN index /\ e.seq = index[id].seq
      BY <2>2, Zenon DEF Buried
    <3>2. PICK f \in Live : f.id = id
      BY <1>2, <3>1, Zenon
    <3>3. e.seq = f.seq
      BY <1>3, <3>1, <3>2, Zenon
    <3> QED BY <1>4, <1>5, <3>2, <3>3, Zenon
  <2> QED BY <2>1, <2>2, Zenon
<1>8. LiveOf(ready, delayed, tomb) = live
  <2>1. \A e : e \in LiveOf(ready, delayed, tomb) <=> e \in Live /\ e.seq \notin Buried(id)
    BY Zenon DEF LiveOf, Live, All
  <2> QED BY <1>7, <2>1, Zenon
<1>9. Sorted(ready, delayed, tomb, next_seq, now)
  <2>1. \A s \in Buried(id) : \E e \in ready \cup delayed : e.seq = s
    <3> SUFFICES ASSUME NEW s \in Buried(id) PROVE \E e \in ready \cup delayed : e.seq = s
      BY Zenon
    <3>1. id \in DOMAIN index /\ s = index[id].seq
      BY Zenon DEF Buried
    <3>2. PICK f \in Live : f.id = id
      BY <1>2, <3>1, Zenon
    <3> QED BY <1>3, <1>5, <3>1, <3>2, Zenon DEF All
  <2> QED BY <1>1, <2>1, Zenon DEF Sorted
<1> HIDE DEF tomb, live
<1>10. \A e : e \in live <=> e \in Live /\ e.id # id
  BY Zenon DEF live
<1>11. Indexed(ready, delayed, tomb, Without(id))
  <2>1. DOMAIN Without(id) = DOMAIN index \ {id}
    BY Zenon DEF Without
  <2>2. \A i \in DOMAIN index \ {id} : Without(id)[i] = index[i]
    BY Zenon DEF Without
  <2>3. DOMAIN index \ {id} = {e.id : e \in live}
    BY <1>2, <1>10, Zenon
  <2>4. \A e \in live : e.id \in DOMAIN index \ {id}
    BY <2>3, Zenon
  <2> QED BY <1>2, <1>8, <1>10, <2>1, <2>2, <2>3, <2>4, Zenon DEF Indexed
<1>12. /\ IsFiniteSet(Live \cap ready) /\ IsFiniteSet(Live \cap delayed)
       /\ live_ready = Cardinality(Live \cap ready)
       /\ live_delayed = Cardinality(Live \cap delayed)
  <2>1. IsFiniteSet(ready) /\ IsFiniteSet(delayed)
    BY <1>1, Zenon DEF Sorted
  <2>2. IsFiniteSet(Live \cap ready) /\ IsFiniteSet(Live \cap delayed)
    BY <2>1, FS_Intersection, Zenon
  <2> QED BY <1>1, <2>2, Zenon DEF Counted
<1>13. ready \cap delayed = {} /\ Live \subseteq ready \cup delayed
  BY <1>1, <1>5, Zenon DEF Sorted, All
<1>14. CASE id \notin DOMAIN index
  <2>1. live = Live
    BY <1>2, <1>10, <1>14, Zenon
  <2> QED BY <1>8, <1>9, <1>11, <1>12, <1>14, <2>1, Zenon
          DEF tomb, live, LiveReadyWithout, LiveDelayedWithout
<1>15. CASE id \in DOMAIN index
  <2>1. PICK f \in Live : f.id = id
    BY <1>2, <1>15, Zenon
  <2>2. \A e : e \in live <=> e \in Live /\ e # f
    BY <1>6, <1>10, <2>1, Zenon
  <2>3. CASE f \in ready
    <3>1. live \cap ready = (Live \cap ready) \ {f} /\ live \cap delayed = Live \cap delayed
      BY <1>13, <2>2, <2>3, Zenon
    <3>2. f \notin delayed /\ ~ index[id].delayed
      BY <1>3, <1>13, <2>1, <2>3, Zenon
    <3>3. {f} \subseteq Live \cap ready /\ Cardinality({f}) = 1
      BY <2>1, <2>3, FS_Singleton, Zenon
    <3>4. Cardinality(live \cap ready) = Dec(live_ready, 1) /\ IsFiniteSet(live \cap ready)
      BY <1>12, <3>1, <3>3, CountDrop, Zenon
    <3> QED BY <1>8, <1>9, <1>11, <1>12, <1>15, <3>1, <3>2, <3>4, Zenon
            DEF tomb, live, LiveReadyWithout, LiveDelayedWithout
  <2>4. CASE f \in delayed
    <3>1. live \cap delayed = (Live \cap delayed) \ {f} /\ live \cap ready = Live \cap ready
      BY <1>13, <2>2, <2>4, Zenon
    <3>2. index[id].delayed
      BY <1>3, <2>1, <2>4, Zenon
    <3>3. {f} \subseteq Live \cap delayed /\ Cardinality({f}) = 1
      BY <2>1, <2>4, FS_Singleton, Zenon
    <3>4. Cardinality(live \cap delayed) = Dec(live_delayed, 1) /\ IsFiniteSet(live \cap delayed)
      BY <1>12, <3>1, <3>3, CountDrop, Zenon
    <3> QED BY <1>8, <1>9, <1>11, <1>12, <1>15, <3>1, <3>2, <3>4, Zenon
            DEF tomb, live, LiveReadyWithout, LiveDelayedWithout
  <2> QED BY <1>13, <2>1, <2>3, <2>4, Zenon
<1> QED BY <1>14, <1>15, Zenon DEF tomb, live

-----------------------------------------------------------------------------
(* promote_matured_locked moves matured entries and changes nothing that is live. *)

\* What HeapInv says of the live entries.
LEMMA LiveFacts ==
  ASSUME HeapInv
  PROVE  /\ LiveOf(ready, delayed, tombstones) = Live
         /\ \A e : e \in Live <=> e \in ready \cup delayed /\ e.seq \notin tombstones
         /\ ready \subseteq Entry /\ delayed \subseteq Entry
         /\ IsFiniteSet(ready) /\ IsFiniteSet(delayed)
         /\ ready \cap delayed = {}
         /\ \A e, f \in ready \cup delayed : e.seq = f.seq => e = f
         /\ DOMAIN index = {e.id : e \in Live}
         /\ \A e \in Live : index[e.id] = [seq |-> e.seq, delayed |-> e \in delayed]
         /\ \A e \in Live : index[e.id].seq = e.seq
         /\ live_ready = Cardinality(Live \cap ready) /\ live_delayed = Cardinality(Live \cap delayed)
<1>1. LiveOf(ready, delayed, tombstones) = Live
  BY Zenon DEF LiveOf, Live, All
<1>2. \A e : e \in Live <=> e \in ready \cup delayed /\ e.seq \notin tombstones
  BY Zenon DEF Live, All
<1>3. \A e \in Live : index[e.id] = [seq |-> e.seq, delayed |-> e \in delayed]
  BY <1>1, Zenon DEF HeapInv, Indexed
<1>4. \A e \in Live : index[e.id].seq = e.seq
  <2> SUFFICES ASSUME NEW e \in Live PROVE index[e.id].seq = e.seq
    BY Zenon
  <2>1. index[e.id] = [seq |-> e.seq, delayed |-> e \in delayed]
    BY <1>3, Zenon
  <2>2. index[e.id].seq = e.seq /\ (index[e.id].delayed <=> e \in delayed)
    BY <2>1, LocFields, Zenon
  <2> QED BY <2>2, Zenon
<1> QED BY <1>1, <1>2, <1>3, <1>4, Zenon DEF HeapInv, Sorted, Indexed, Counted

LEMMA PromotedFields ==
  /\ Promoted.ready = ready \cup (M \ D) /\ Promoted.delayed = delayed \ M
  /\ Promoted.tombstones = tombstones \ {e.seq : e \in D}
  /\ Promoted.live_ready = live_ready + Cardinality(M \ D)
  /\ Promoted.live_delayed = Dec(live_delayed, Cardinality(M \ D))
  /\ Promoted.index = [i \in DOMAIN index |->
                         IF \E e \in M \ D : e.id = i /\ e.seq = index[i].seq
                           THEN [index[i] EXCEPT !.delayed = FALSE] ELSE index[i]]
BY Zenon DEF Promoted

LEMMA Promote ==
  ASSUME HeapInv
  PROVE  LET q == Promoted
         IN /\ LiveOf(q.ready, q.delayed, q.tombstones) = Live
            /\ Live \cap q.ready = {e \in Live : e.ready_at <= now}
            /\ Sorted(q.ready, q.delayed, q.tombstones, next_seq, now)
            /\ Indexed(q.ready, q.delayed, q.tombstones, q.index)
            /\ Counted(q.ready, q.delayed, q.tombstones, q.live_ready, q.live_delayed)
<1> DEFINE r == Promoted.ready
           d == Promoted.delayed
           tomb == Promoted.tombstones
           P == M \ D
<1>1. r = ready \cup P /\ d = delayed \ M /\ tomb = tombstones \ {e.seq : e \in D}
  BY PromotedFields, Zenon
<1>2. /\ \A e : e \in M <=> e \in delayed /\ e.ready_at <= now
      /\ \A e : e \in D <=> e \in M /\ e.seq \in tombstones
  BY Zenon DEF M, D
<1>3. \A e : e \in P <=> e \in M /\ e \in Live
  BY <1>2, LiveFacts, Zenon
<1> HIDE DEF r, d, tomb, P
<1>4. \A e : e \in r \cup d <=> e \in ready \cup delayed /\ e \notin D
  <2>1. \A e \in D : e \notin ready
    BY <1>2, LiveFacts, Zenon
  <2>2. \A e : e \in P <=> e \in M /\ e \notin D
    BY Zenon DEF P
  <2> QED BY <1>1, <1>2, <2>1, <2>2, Zenon
<1>5. \A e \in r \cup d : e.seq \in tomb <=> e.seq \in tombstones
  <2> SUFFICES ASSUME NEW e \in r \cup d, e.seq \in tombstones PROVE e.seq \in tomb
    BY <1>1, Zenon
  <2>1. \A f \in D : f.seq # e.seq
    BY <1>2, <1>4, LiveFacts, Zenon
  <2> QED BY <1>1, <2>1, Zenon
<1>6. LiveOf(r, d, tomb) = Live
  <2>1. \A e : e \in LiveOf(r, d, tomb) <=> e \in r \cup d /\ e.seq \notin tomb
    BY Zenon DEF LiveOf
  <2>2. \A e \in Live : e \notin D
    BY <1>2, LiveFacts, Zenon
  <2> QED BY <1>4, <1>5, <2>1, <2>2, LiveFacts, Zenon
<1>7. Live \cap r = {e \in Live : e.ready_at <= now}
  <2>1. \A e \in ready : e.ready_at <= now
    BY Zenon DEF HeapInv, Sorted
  <2> QED BY <1>1, <1>2, <1>3, <2>1, LiveFacts, Zenon
<1>8. Sorted(r, d, tomb, next_seq, now)
  <2>1. IsFiniteSet(P) /\ IsFiniteSet(r) /\ IsFiniteSet(d)
    <3>1. P \subseteq delayed
      BY <1>2, <1>3, Zenon
    <3>2. IsFiniteSet(P)
      BY <3>1, LiveFacts, FS_Subset, Zenon
    <3> QED BY <1>1, <3>2, LiveFacts, FS_Union, FS_Difference, Zenon
  <2>2. r \subseteq Entry /\ d \subseteq Entry /\ r \cap d = {}
    BY <1>1, <1>2, <1>3, LiveFacts, Zenon
  <2>3. /\ \A e \in r \cup d : e.seq < next_seq
        /\ \A e, f \in r \cup d : e.seq = f.seq => e = f
    BY <1>4, LiveFacts, Zenon DEF HeapInv, Sorted
  <2>4. \A s \in tomb : \E e \in r \cup d : e.seq = s
    <3> SUFFICES ASSUME NEW s \in tomb PROVE \E e \in r \cup d : e.seq = s
      BY Zenon
    <3>1. s \in tombstones /\ \A e \in D : e.seq # s
      BY <1>1, Zenon
    <3>2. PICK e \in ready \cup delayed : e.seq = s
      BY <3>1, Zenon DEF HeapInv, Sorted
    <3> QED BY <1>4, <3>1, <3>2, Zenon
  <2>5. \A e \in r : e.ready_at <= now
    BY <1>1, <1>2, <1>3, Zenon DEF HeapInv, Sorted
  <2> QED BY <2>1, <2>2, <2>3, <2>4, <2>5, Zenon DEF Sorted
<1>9. Indexed(r, d, tomb, Promoted.index)
  <2> DEFINE idx == Promoted.index
             Moved(i) == \E e \in P : e.id = i /\ e.seq = index[i].seq
  <2>1. /\ DOMAIN idx = DOMAIN index
        /\ \A i \in DOMAIN index : idx[i] = IF Moved(i) THEN [index[i] EXCEPT !.delayed = FALSE]
                                            ELSE index[i]
    BY PromotedFields, Zenon DEF P
  <2> HIDE DEF idx, Moved
  <2>2. ASSUME NEW e \in Live
        PROVE  idx[e.id] = [seq |-> e.seq, delayed |-> e \in d]
    <3>1. /\ index[e.id] = [seq |-> e.seq, delayed |-> e \in delayed] /\ index[e.id].seq = e.seq
          /\ e.id \in DOMAIN index
      BY LiveFacts, Zenon
    <3>2. Moved(e.id) <=> e \in P
      <4>1. ASSUME Moved(e.id) PROVE e \in P
        <5>1. PICK f \in P : f.seq = e.seq
          BY <3>1, <4>1, Zenon DEF Moved
        <5> QED BY <1>3, <5>1, LiveFacts, Zenon
      <4> QED BY <3>1, <4>1, Zenon DEF Moved
    <3>3. CASE e \in P
      <4>1. (e \in d) = FALSE
        BY <1>1, <1>3, <3>3
      <4>2. idx[e.id] = [index[e.id] EXCEPT !.delayed = FALSE]
        BY <2>1, <3>1, <3>2, <3>3, Zenon
      <4>3. idx[e.id] = [seq |-> e.seq, delayed |-> FALSE]
        BY <3>1, <4>2, Zenon
      <4> QED BY <4>1, <4>3, Zenon
    <3>4. CASE e \notin P
      <4>1. e \in d <=> e \in delayed
        BY <1>1, <1>3, <3>4, Zenon
      <4>2. (e \in d) = (e \in delayed)
        BY <4>1
      <4>3. idx[e.id] = index[e.id]
        BY <2>1, <3>1, <3>2, <3>4, Zenon
      <4> QED BY <3>1, <4>2, <4>3, Zenon
    <3> QED BY <3>3, <3>4, Zenon
  <2> QED BY <1>6, <2>1, <2>2, LiveFacts, Zenon DEF Indexed, idx
<1>10. Counted(r, d, tomb, Promoted.live_ready, Promoted.live_delayed)
  <2>1. /\ Live \cap r = (Live \cap ready) \cup P /\ (Live \cap ready) \cap P = {}
        /\ Live \cap d = (Live \cap delayed) \ P /\ P \subseteq Live \cap delayed
    BY <1>1, <1>2, <1>3, LiveFacts, Zenon
  <2>2. IsFiniteSet(Live \cap ready) /\ IsFiniteSet(Live \cap delayed)
    BY LiveFacts, FS_Intersection, Zenon
  <2>3. IsFiniteSet(P)
    BY <2>1, <2>2, FS_Subset, Zenon
  <2>c. live_ready = Cardinality(Live \cap ready) /\ live_delayed = Cardinality(Live \cap delayed)
    BY LiveFacts, Zenon
  <2>4. Cardinality(Live \cap r) = live_ready + Cardinality(P)
    <3> DEFINE S == Live \cap ready
    <3>1. IsFiniteSet(S) /\ S \cap P = {} /\ Live \cap r = S \cup P /\ live_ready = Cardinality(S)
      BY <2>1, <2>2, <2>c, Zenon
    <3> HIDE DEF S
    <3> QED BY <2>3, <3>1, CountAdd, Zenon
  <2>5. Cardinality(Live \cap d) = Dec(live_delayed, Cardinality(P))
    <3> DEFINE S == Live \cap delayed
    <3>1. IsFiniteSet(S) /\ P \subseteq S /\ Live \cap d = S \ P /\ live_delayed = Cardinality(S)
      BY <2>1, <2>2, <2>c, Zenon
    <3> HIDE DEF S
    <3> QED BY <3>1, CountDrop, Zenon
  <2> QED BY <1>6, <2>4, <2>5, PromotedFields, Zenon DEF Counted, P
<1> QED BY <1>6, <1>7, <1>8, <1>9, <1>10, Zenon DEF r, d, tomb

-----------------------------------------------------------------------------
(* take_ready_locked takes the best live entries and buries nothing else. *)

LEMMA OrderAsymmetric ==
  ASSUME NEW e \in Entry, NEW f \in Entry, ReadyOrder(e, f)
  PROVE  ~ ReadyOrder(f, e)
BY EntryType DEF ReadyOrder

LEMMA TakeStep ==
  ASSUME NEW q, NEW n, NEW T, TakeUpTo(q, n, T),
         Sorted(q.ready, q.delayed, q.tombstones, next_seq, now),
         Indexed(q.ready, q.delayed, q.tombstones, q.index),
         Counted(q.ready, q.delayed, q.tombstones, q.live_ready, q.live_delayed)
  PROVE  LET live == LiveOf(q.ready, q.delayed, q.tombstones)
         IN /\ T \subseteq live \cap q.ready
            /\ \A e \in T, f \in (live \cap q.ready) \ T : ReadyOrder(e, f)
            /\ returned' = T
            /\ Live' = live \ T
            /\ Sorted(ready', delayed', tombstones', next_seq, now)
            /\ Indexed(ready', delayed', tombstones', index')
            /\ Counted(ready', delayed', tombstones', live_ready', live_delayed')
<1> DEFINE live == LiveOf(q.ready, q.delayed, q.tombstones)
           best == {e \in q.ready : e.seq \notin q.tombstones}
           gone == IF Cardinality(T) < n THEN q.ready
                   ELSE T \cup {e \in q.ready : \E f \in T : ReadyOrder(e, f)}
           Taken(i) == \E e \in T : e.id = i /\ e.seq = q.index[i].seq
<1>1. /\ T \subseteq best
      /\ Cardinality(T) = n \/ (Cardinality(T) < n /\ T = best)
      /\ \A e \in T, f \in best \ T : ReadyOrder(e, f)
      /\ returned' = T
      /\ ready' = q.ready \ gone /\ delayed' = q.delayed
      /\ tombstones' = q.tombstones \ {e.seq : e \in gone}
      /\ live_ready' = Dec(q.live_ready, Cardinality(T)) /\ live_delayed' = q.live_delayed
  BY Zenon DEF TakeUpTo
<1>2. index' = [i \in {i \in DOMAIN q.index : \A e \in T : e.id # i \/ e.seq # q.index[i].seq}
                 |-> q.index[i]]
  BY Zenon DEF TakeUpTo
<1>3. /\ DOMAIN index' = {i \in DOMAIN q.index : ~ Taken(i)}
      /\ \A i \in DOMAIN index' : index'[i] = q.index[i]
  BY <1>2, Zenon
<1>4. /\ q.ready \subseteq Entry /\ q.delayed \subseteq Entry
      /\ IsFiniteSet(q.ready) /\ IsFiniteSet(q.delayed)
      /\ \A e, f \in q.ready \cup q.delayed : e.seq = f.seq => e = f
      /\ q.ready \cap q.delayed = {}
  BY Zenon DEF Sorted
<1>5. \A e : e \in live <=> e \in q.ready \cup q.delayed /\ e.seq \notin q.tombstones
  BY Zenon DEF LiveOf
<1>6. best = live \cap q.ready
  BY <1>5, Zenon
<1>7. gone \subseteq q.ready /\ T \subseteq gone
  BY <1>1, Zenon
<1>8. \A e \in live : e \in gone => e \in T
  <2> SUFFICES ASSUME NEW e \in live, e \in gone, e \notin T PROVE FALSE
    BY Zenon
  <2>1. e \in best
    BY <1>6, <1>7, Zenon
  <2>2. ~ (Cardinality(T) < n)
    <3>1. IsFiniteSet(best) /\ T # best
      <4>1. best \subseteq q.ready
        BY Zenon
      <4>2. IsFiniteSet(best)
        BY <1>4, <4>1, FS_Subset, Zenon
      <4> QED BY <2>1, <4>2, Zenon
    <3>2. Cardinality(T) \in Nat /\ Cardinality(T) = n
      BY <1>1, <3>1, FS_Subset, FS_CardinalityType, Zenon
    <3> QED BY <3>2
  <2>3. PICK f \in T : ReadyOrder(e, f)
    BY <2>2, Zenon
  <2>4. ReadyOrder(f, e)
    BY <1>1, <2>1, <2>3, Zenon
  <2>5. e \in Entry /\ f \in Entry
    BY <1>1, <1>4, <2>1, <2>3, Zenon
  <2> QED BY <2>3, <2>4, <2>5, OrderAsymmetric, Zenon
<1> HIDE DEF live, best, gone, Taken
<1>9. \A e : e \in ready' \cup delayed' <=> e \in q.ready \cup q.delayed /\ e \notin gone
  BY <1>1, <1>4, <1>7, Zenon
<1>10. \A e \in ready' \cup delayed' : e.seq \in tombstones' <=> e.seq \in q.tombstones
  <2> SUFFICES ASSUME NEW e \in ready' \cup delayed', e.seq \in q.tombstones
               PROVE  e.seq \in tombstones'
    BY <1>1, Zenon
  <2>1. \A f \in gone : f.seq # e.seq
    BY <1>4, <1>7, <1>9, Zenon
  <2> QED BY <1>1, <2>1, Zenon
<1>11. \A e : e \in Live' <=> e \in live /\ e \notin T
  <2>1. \A e : e \in Live' <=> e \in ready' \cup delayed' /\ e.seq \notin tombstones'
    BY Zenon DEF Live, All
  <2> QED BY <1>5, <1>7, <1>8, <1>9, <1>10, <2>1, Zenon
<1>12. Live' = live \ T
  BY <1>11, Zenon
<1>13. LiveOf(ready', delayed', tombstones') = Live'
  BY Zenon DEF LiveOf, Live, All
<1>14. Sorted(ready', delayed', tombstones', next_seq, now)
  <2>1. ready' \subseteq q.ready
    BY <1>1, Zenon
  <2>2. IsFiniteSet(ready') /\ IsFiniteSet(delayed')
    BY <1>1, <1>4, <2>1, FS_Subset, Zenon
  <2>3. \A s \in tombstones' : \E e \in ready' \cup delayed' : e.seq = s
    <3> SUFFICES ASSUME NEW s \in tombstones' PROVE \E e \in ready' \cup delayed' : e.seq = s
      BY Zenon
    <3>1. s \in q.tombstones /\ \A e \in gone : e.seq # s
      BY <1>1, Zenon
    <3>2. PICK e \in q.ready \cup q.delayed : e.seq = s
      BY <3>1, Zenon DEF Sorted
    <3> QED BY <1>9, <3>1, <3>2, Zenon
  <2>4. /\ \A e \in ready' \cup delayed' : e.seq < next_seq
        /\ \A e \in ready' : e.ready_at <= now
    BY <1>9, <2>1, Zenon DEF Sorted
  <2>5. ready' \subseteq Entry /\ delayed' \subseteq Entry /\ ready' \cap delayed' = {}
    BY <1>1, <1>4, <2>1, Zenon
  <2>6. \A e, f \in ready' \cup delayed' : e.seq = f.seq => e = f
    BY <1>4, <1>9, Zenon
  <2> QED BY <2>2, <2>3, <2>4, <2>5, <2>6, Zenon DEF Sorted
<1>15. Indexed(ready', delayed', tombstones', index')
  <2>1. /\ DOMAIN q.index = {e.id : e \in live}
        /\ \A e \in live : q.index[e.id] = [seq |-> e.seq, delayed |-> e \in q.delayed]
    BY Zenon DEF Indexed, live
  <2>2. ASSUME NEW e \in live PROVE Taken(e.id) <=> e \in T
    <3>1. q.index[e.id].seq = e.seq
      <4> DEFINE loc == q.index[e.id]
                 late == q.delayed
      <4>1. loc = [seq |-> e.seq, delayed |-> e \in late]
        BY <2>1, Zenon
      <4> HIDE DEF loc, late
      <4>2. loc.seq = e.seq /\ (loc.delayed <=> e \in late)
        BY <4>1, LocFields, Zenon
      <4> QED BY <4>2, Zenon DEF loc
    <3>2. ASSUME Taken(e.id) PROVE e \in T
      <4>1. PICK f \in T : f.seq = e.seq
        BY <3>1, <3>2, Zenon DEF Taken
      <4> QED BY <1>1, <1>4, <1>5, <1>6, <4>1, Zenon
    <3> QED BY <3>1, <3>2, Zenon DEF Taken
  <2>3. DOMAIN index' = {e.id : e \in Live'}
    <3>1. \A i : i \in DOMAIN index' <=> (\E e \in live : i = e.id) /\ ~ Taken(i)
      BY <1>3, <2>1, Zenon
    <3>2. \A i : i \in DOMAIN index' <=> \E e \in Live' : i = e.id
      BY <1>11, <2>2, <3>1, Zenon
    <3> QED BY <3>2, Zenon
  <2>4. \A e \in Live' : index'[e.id] = [seq |-> e.seq, delayed |-> e \in delayed']
    BY <1>1, <1>3, <1>11, <2>1, <2>3, Zenon
  <2> QED BY <1>13, <2>3, <2>4, Zenon DEF Indexed
<1>16. Counted(ready', delayed', tombstones', live_ready', live_delayed')
  <2>1. q.live_ready = Cardinality(live \cap q.ready) /\ q.live_delayed = Cardinality(live \cap q.delayed)
    BY Zenon DEF Counted, live
  <2>2. Live' \cap ready' = (live \cap q.ready) \ T /\ T \subseteq live \cap q.ready
    BY <1>1, <1>6, <1>8, <1>11, Zenon
  <2>3. Live' \cap delayed' = live \cap q.delayed
    BY <1>1, <1>4, <1>6, <1>11, Zenon
  <2>4. IsFiniteSet(live \cap q.ready)
    BY <1>4, FS_Intersection, Zenon
  <2>5. Cardinality(Live' \cap ready') = Dec(q.live_ready, Cardinality(T))
    <3> DEFINE S == live \cap q.ready
    <3>1. IsFiniteSet(S) /\ T \subseteq S /\ q.live_ready = Cardinality(S)
          /\ Live' \cap ready' = S \ T
      BY <2>1, <2>2, <2>4, Zenon
    <3> HIDE DEF S
    <3> QED BY <3>1, CountDrop, Zenon
  <2> QED BY <1>1, <1>13, <2>1, <2>3, <2>5, Zenon DEF Counted
<1> QED BY <1>1, <1>6, <1>12, <1>14, <1>15, <1>16, Zenon DEF live

-----------------------------------------------------------------------------
(* The steps *)

\* A pass of pop, pop_for or pop_batch takes the best of the matured live entries.
LEMMA PopStep ==
  ASSUME HeapInv, NEW n, NEW T, TakeUpTo(Promoted, n, T), UNCHANGED <<next_seq, now>>
  PROVE  /\ HeapInv'
         /\ T \subseteq Q!Matured
         /\ \A e \in T, f \in Q!Matured \ T : Q!Before(e, f)
         /\ Live' = Live \ T /\ returned' = T
<1> DEFINE q == Promoted
<1>1. /\ LiveOf(q.ready, q.delayed, q.tombstones) = Live
      /\ Live \cap q.ready = {e \in Live : e.ready_at <= now}
      /\ Sorted(q.ready, q.delayed, q.tombstones, next_seq, now)
      /\ Indexed(q.ready, q.delayed, q.tombstones, q.index)
      /\ Counted(q.ready, q.delayed, q.tombstones, q.live_ready, q.live_delayed)
  BY Promote, Zenon
<1>2. Live \cap q.ready = Q!Matured
  BY <1>1, Zenon DEF Q!Matured
<1> HIDE DEF q
<1>3. TakeUpTo(q, n, T)
  BY Zenon DEF q
<1>4. /\ T \subseteq Live \cap q.ready
      /\ \A e \in T, f \in (Live \cap q.ready) \ T : ReadyOrder(e, f)
      /\ returned' = T
      /\ Live' = Live \ T
      /\ Sorted(ready', delayed', tombstones', next_seq, now)
      /\ Indexed(ready', delayed', tombstones', index')
      /\ Counted(ready', delayed', tombstones', live_ready', live_delayed')
  BY <1>1, <1>3, TakeStep, Zenon
<1>5. HeapInv'
  BY <1>4, Zenon DEF HeapInv
<1> QED BY <1>2, <1>4, <1>5, Zenon DEF ReadyOrder, Q!Before

\* JobQueue counts with its own instance of FiniteSets.
LEMMA SameCardinality == ASSUME NEW S PROVE Q!Cardinality(S) = Cardinality(S)
BY Zenon DEF Q!Cardinality, Cardinality, Q!IsFiniteSet, IsFiniteSet

LEMMA PushStep ==
  ASSUME HeapInv, NEW p, NEW id \in Ids, NEW priority \in Priorities, NEW t \in Times,
         push(p, id, priority, t)
  PROVE  HeapInv' /\ Q!Push(id, priority, t)
<1> DEFINE e == [id |-> id, priority |-> priority, seq |-> next_seq, ready_at |-> t]
           live == {f \in Live : f.id # id}
           tomb == tombstones \cup Buried(id)
           late == t > now
<1>1. /\ LiveOf(ready, delayed, tomb) = live
      /\ Sorted(ready, delayed, tomb, next_seq, now)
      /\ Indexed(ready, delayed, tomb, Without(id))
      /\ LiveReadyWithout(id) = Cardinality(live \cap ready)
      /\ LiveDelayedWithout(id) = Cardinality(live \cap delayed)
      /\ IsFiniteSet(live \cap ready) /\ IsFiniteSet(live \cap delayed)
  BY Bury, Zenon
<1>2. /\ ~ closed /\ live_count_locked < Capacity /\ next_seq <= MaxPushes
      /\ tombstones' = tomb
      /\ index' = [i \in DOMAIN index \cup {id} |->
                     IF i = id THEN [seq |-> next_seq, delayed |-> late] ELSE index[i]]
      /\ next_seq' = next_seq + 1 /\ returned' = {} /\ UNCHANGED <<closed, now>>
      /\ IF late THEN /\ delayed' = delayed \cup {e} /\ ready' = ready
                      /\ live_delayed' = LiveDelayedWithout(id) + 1
                      /\ live_ready' = LiveReadyWithout(id)
                 ELSE /\ ready' = ready \cup {e} /\ delayed' = delayed
                      /\ live_ready' = LiveReadyWithout(id) + 1
                      /\ live_delayed' = LiveDelayedWithout(id)
  BY Zenon DEF push, Buried
<1>3. next_seq \in Nat \ {0} /\ now \in Nat
  BY Zenon DEF HeapInv
<1>4. e \in Entry
  BY <1>2, <1>3, QueueAssumption DEF Entry, Seqs
<1>5. e.id = id /\ e.seq = next_seq /\ e.ready_at = t
  BY Zenon
<1> HIDE DEF e, live, tomb
<1>6. \A f \in ready \cup delayed : f \in Entry /\ f.seq < next_seq /\ f.seq # e.seq /\ f # e
  <2>1. \A f \in ready \cup delayed : f \in Entry /\ f.seq < next_seq
    BY <1>1, Zenon DEF Sorted
  <2>2. \A f \in ready \cup delayed : f.seq # next_seq
    BY <1>3, <2>1, EntryType
  <2> QED BY <1>5, <2>1, <2>2, Zenon
<1>7. e.seq \notin tomb
  BY <1>1, <1>6, Zenon DEF Sorted
<1>8. \A f : f \in ready' \cup delayed' <=> f \in ready \cup delayed \/ f = e
  BY <1>2
<1>9. \A f : f \in live <=> f \in ready \cup delayed /\ f.seq \notin tomb
  BY <1>1, Zenon DEF LiveOf
<1>10. LiveOf(ready', delayed', tombstones') = live \cup {e}
  <2>1. \A f : f \in LiveOf(ready', delayed', tombstones')
                <=> f \in ready' \cup delayed' /\ f.seq \notin tomb
    BY <1>2, Zenon DEF LiveOf
  <2> QED BY <1>7, <1>8, <1>9, <2>1, Zenon
<1>11. Sorted(ready', delayed', tombstones', next_seq', now')
  <2>1. ready' \subseteq Entry /\ delayed' \subseteq Entry
    BY <1>2, <1>4, <1>6, Zenon
  <2>2. IsFiniteSet(ready') /\ IsFiniteSet(delayed')
    <3>1. IsFiniteSet(ready) /\ IsFiniteSet(delayed)
      BY <1>1, Zenon DEF Sorted
    <3>2. IsFiniteSet(ready \cup {e}) /\ IsFiniteSet(delayed \cup {e})
      BY <3>1, FS_AddElement, Zenon
    <3>3. \/ ready' = ready /\ delayed' = delayed \cup {e}
          \/ ready' = ready \cup {e} /\ delayed' = delayed
      BY <1>2, Zenon
    <3> QED BY <3>1, <3>2, <3>3, Zenon
  <2>3. \A f \in ready' \cup delayed' : f.seq < next_seq'
    BY <1>2, <1>3, <1>5, <1>6, <1>8, EntryType
  <2>4. \A f, g \in ready' \cup delayed' : f.seq = g.seq => f = g
    BY <1>1, <1>6, <1>8, Zenon DEF Sorted
  <2>5. ready' \cap delayed' = {}
    <3>1. ready \cap delayed = {} /\ e \notin ready /\ e \notin delayed
      BY <1>1, <1>6, Zenon DEF Sorted
    <3> QED BY <1>2, <3>1, Zenon
  <2>6. \A s \in tombstones' : \E f \in ready' \cup delayed' : f.seq = s
    BY <1>1, <1>2, <1>8, Zenon DEF Sorted
  <2>7. \A f \in ready' : f.ready_at <= now'
    <3>1. \A f \in ready : f.ready_at <= now
      BY <1>1, Zenon DEF Sorted
    <3>2. t \in Nat
      BY <1>4, <1>5, EntryType, Zenon
    <3> QED BY <1>2, <1>3, <1>5, <3>1, <3>2
  <2> QED BY <2>1, <2>2, <2>3, <2>4, <2>5, <2>6, <2>7, Zenon DEF Sorted
<1>12. Indexed(ready', delayed', tombstones', index')
  <2>1. /\ DOMAIN Without(id) = {f.id : f \in live} /\ DOMAIN Without(id) = DOMAIN index \ {id}
        /\ \A i \in DOMAIN Without(id) : Without(id)[i] = index[i]
        /\ \A f \in live : Without(id)[f.id] = [seq |-> f.seq, delayed |-> f \in delayed]
    <3>1. /\ DOMAIN Without(id) = DOMAIN index \ {id}
          /\ \A i \in DOMAIN Without(id) : Without(id)[i] = index[i]
      BY Zenon DEF Without
    <3> QED BY <1>1, <3>1, Zenon DEF Indexed
  <2>2. /\ DOMAIN index' = DOMAIN Without(id) \cup {id}
        /\ index'[id] = [seq |-> next_seq, delayed |-> late]
        /\ \A i \in DOMAIN Without(id) : index'[i] = index[i]
    <3>1. DOMAIN Without(id) = DOMAIN index \ {id}
      BY <2>1, Zenon
    <3> HIDE DEF late
    <3> QED BY <1>2, <3>1, Zenon
  <2>3. DOMAIN index' = {f.id : f \in live \cup {e}}
    <3>1. \A i : i \in DOMAIN Without(id) <=> \E f \in live : i = f.id
      BY <2>1, Zenon
    <3>2. \A i : i \in DOMAIN index' <=> i = e.id \/ \E f \in live : i = f.id
      BY <1>5, <2>2, <3>1, Zenon
    <3> QED BY <3>2, Zenon
  <2>4. index'[e.id] = [seq |-> e.seq, delayed |-> e \in delayed']
    <3>1. (e \in delayed') = late
      BY <1>2, <1>6
    <3> QED BY <1>5, <2>2, <3>1, Zenon
  <2>5. \A f \in live : index'[f.id] = [seq |-> f.seq, delayed |-> f \in delayed']
    <3> SUFFICES ASSUME NEW f \in live
                 PROVE  index'[f.id] = [seq |-> f.seq, delayed |-> f \in delayed']
      BY Zenon
    <3>1. (f \in delayed') = (f \in delayed)
      BY <1>2, <1>6, <1>9
    <3>2. f.id \in DOMAIN Without(id)
      BY <2>1, Zenon
    <3> QED BY <2>1, <2>2, <3>1, <3>2, Zenon
  <2> QED BY <1>10, <2>3, <2>4, <2>5, Zenon DEF Indexed
<1>13. Counted(ready', delayed', tombstones', live_ready', live_delayed')
  <2>1. e \notin live /\ e \notin ready /\ e \notin delayed
    BY <1>6, <1>9, Zenon
  <2>2. CASE late
    <3>1. /\ (live \cup {e}) \cap ready' = live \cap ready
          /\ (live \cup {e}) \cap delayed' = (live \cap delayed) \cup {e}
      BY <1>2, <2>1, <2>2, Zenon
    <3>2. Cardinality((live \cap delayed) \cup {e}) = Cardinality(live \cap delayed) + 1
      BY <1>1, <2>1, CountOne, Zenon
    <3> QED BY <1>1, <1>2, <1>10, <2>2, <3>1, <3>2, Zenon DEF Counted
  <2>3. CASE ~ late
    <3>1. /\ (live \cup {e}) \cap ready' = (live \cap ready) \cup {e}
          /\ (live \cup {e}) \cap delayed' = live \cap delayed
      BY <1>2, <2>1, <2>3, Zenon
    <3>2. Cardinality((live \cap ready) \cup {e}) = Cardinality(live \cap ready) + 1
      BY <1>1, <2>1, CountOne, Zenon
    <3> QED BY <1>1, <1>2, <1>10, <2>3, <3>1, <3>2, Zenon DEF Counted
  <2> QED BY <2>2, <2>3, Zenon
<1>14. HeapInv'
  <2>1. next_seq' \in Nat \ {0} /\ now' \in Nat
    BY <1>2, <1>3
  <2> QED BY <1>11, <1>12, <1>13, <2>1, Zenon DEF HeapInv
<1>15. Live' = live \cup {e}
  BY <1>10, Zenon DEF LiveOf, Live, All
<1>16. Cardinality(Live) < Capacity
  <2>1. /\ IsFiniteSet(Live \cap ready) /\ IsFiniteSet(Live \cap delayed)
        /\ Live = (Live \cap ready) \cup (Live \cap delayed)
        /\ (Live \cap ready) \cap (Live \cap delayed) = {}
    BY LiveFacts, FS_Intersection, Zenon
  <2>2. Cardinality((Live \cap ready) \cup (Live \cap delayed))
          = Cardinality(Live \cap ready) + Cardinality(Live \cap delayed)
    BY <2>1, CountAdd, Zenon
  <2>3. Cardinality(Live) = live_ready + live_delayed
    BY <2>1, <2>2, LiveFacts, Zenon
  <2> QED BY <1>2, <2>3, Zenon DEF live_count_locked
<1>17. Live' = {f \in Live : f.id # id}
               \cup {[id |-> id, priority |-> priority, seq |-> next_seq, ready_at |-> t]}
  BY <1>15, Zenon DEF e, live
<1>18. Q!Push(id, priority, t)
  BY <1>2, <1>16, <1>17, SameCardinality, Zenon DEF Q!Push
<1> QED BY <1>14, <1>18, Zenon

LEMMA RemoveStep ==
  ASSUME HeapInv, NEW p, NEW id, remove(p, id)
  PROVE  HeapInv' /\ Q!Remove(id)
<1>1. /\ tombstones' = tombstones \cup Buried(id)
      /\ UNCHANGED <<ready, delayed, next_seq, now, closed>>
      /\ index' = Without(id) /\ returned' = {}
      /\ live_ready' = LiveReadyWithout(id) /\ live_delayed' = LiveDelayedWithout(id)
  BY Zenon DEF remove, Buried
<1>2. /\ LiveOf(ready', delayed', tombstones') = {e \in Live : e.id # id}
      /\ Sorted(ready', delayed', tombstones', next_seq', now')
      /\ Indexed(ready', delayed', tombstones', index')
      /\ live_ready' = Cardinality({e \in Live : e.id # id} \cap ready')
      /\ live_delayed' = Cardinality({e \in Live : e.id # id} \cap delayed')
  BY <1>1, Bury, Zenon
<1>3. Counted(ready', delayed', tombstones', live_ready', live_delayed')
  BY <1>2, Zenon DEF Counted
<1>4. HeapInv'
  BY <1>1, <1>2, <1>3, Zenon DEF HeapInv
<1>5. Live' = {e \in Live : e.id # id}
  BY <1>2, Zenon DEF LiveOf, Live, All
<1> QED BY <1>1, <1>4, <1>5, Zenon DEF Q!Remove

\* A step that leaves the heaps alone; the clock may move.
LEMMA SameHeaps ==
  ASSUME HeapInv, UNCHANGED <<heaps, next_seq>>, now' = now \/ now' = now + 1
  PROVE  HeapInv' /\ Live' = Live
<1>1. UNCHANGED <<ready, delayed, index, tombstones, live_ready, live_delayed, next_seq>>
  BY Zenon DEF heaps
<1>2. next_seq \in Nat \ {0} /\ now \in Nat /\ now' \in Nat /\ now <= now'
  BY DEF HeapInv
<1>3. ready \subseteq Entry /\ \A e \in ready : e.ready_at <= now
  BY Zenon DEF HeapInv, Sorted
<1>4. \A e \in ready : e.ready_at <= now'
  BY <1>2, <1>3, EntryType
<1>5. Sorted(ready, delayed, tombstones, next_seq, now')
  BY <1>4, Zenon DEF HeapInv, Sorted
<1> QED BY <1>1, <1>2, <1>5, Zenon DEF HeapInv, Live, All

\* Every step keeps HeapInv and is a step of JobQueue, or one it does not see.
LEMMA QueueStep ==
  ASSUME HeapInv, [Next]_vars
  PROVE  HeapInv' /\ [Q!Next]_(Q!vars)
<1>1. ASSUME NEW p \in Producers, NEW id \in Ids, NEW priority \in Priorities, NEW t \in Times,
             push(p, id, priority, t)
      PROVE  HeapInv' /\ [Q!Next]_(Q!vars)
  BY <1>1, PushStep, Zenon DEF Q!Next
<1>2. ASSUME NEW p \in Producers, NEW id \in Ids, remove(p, id)
      PROVE  HeapInv' /\ [Q!Next]_(Q!vars)
  BY <1>2, RemoveStep, Zenon DEF Q!Next
<1>3. ASSUME NEW p \in Producers, close(p)
      PROVE  HeapInv' /\ [Q!Next]_(Q!vars)
  <2>1. UNCHANGED <<heaps, next_seq>> /\ now' = now /\ closed' = TRUE /\ returned' = {}
    BY <1>3, Zenon DEF close
  <2>2. HeapInv' /\ Live' = Live
    BY <2>1, SameHeaps, Zenon
  <2>3. Q!Close
    BY <2>1, <2>2, Zenon DEF Q!Close
  <2> QED BY <2>2, <2>3, Zenon DEF Q!Next
<1>4. ASSUME UNCHANGED <<heaps, next_seq, closed, now>>, returned' = {}
      PROVE  HeapInv' /\ [Q!Next]_(Q!vars)
  <2>1. UNCHANGED <<heaps, next_seq>> /\ now' = now /\ closed' = closed
    BY <1>4, Zenon
  <2>2. HeapInv' /\ Live' = Live
    BY <2>1, SameHeaps, Zenon
  <2>3. Q!Quiet
    BY <1>4, <2>1, <2>2, Zenon DEF Q!Quiet
  <2> QED BY <2>2, <2>3, Zenon DEF Q!Next
<1>5. ASSUME NEW p \in Producers, notify_step(p)
      PROVE  HeapInv' /\ [Q!Next]_(Q!vars)
  BY <1>4, <1>5, Zenon DEF notify_step
<1>6. ASSUME NEW n, NEW T, TakeUpTo(Promoted, n, T), UNCHANGED <<next_seq, closed, now>>
      PROVE  HeapInv' /\ [Q!Next]_(Q!vars)
  <2>1. UNCHANGED <<next_seq, now>> /\ closed' = closed /\ next_seq' = next_seq /\ now' = now
    BY <1>6, Zenon
  <2>2. /\ HeapInv'
        /\ T \subseteq Q!Matured
        /\ \A e \in T, f \in Q!Matured \ T : Q!Before(e, f)
        /\ Live' = Live \ T /\ returned' = T
    BY <1>6, <2>1, PopStep, Zenon
  <2>3. CASE T = {}
    <3>1. Live' = Live
      BY <2>2, <2>3, Zenon
    <3>2. Q!Quiet
      BY <2>1, <2>2, <2>3, <3>1, Zenon DEF Q!Quiet
    <3> QED BY <2>2, <3>2, Zenon DEF Q!Next
  <2>4. CASE T # {}
    <3>1. Q!Take(T)
      BY <2>1, <2>2, <2>4, Zenon DEF Q!Take
    <3>2. T \in SUBSET Q!Matured
      BY <2>2, Zenon
    <3> QED BY <2>2, <3>1, <3>2, Zenon DEF Q!Next
  <2> QED BY <2>3, <2>4, Zenon
<1>7. ASSUME NEW c \in Consumers, Body(c)
      PROVE  HeapInv' /\ [Q!Next]_(Q!vars)
  <2>1. UNCHANGED <<next_seq, closed, now>>
    BY <1>7, Zenon DEF Body, pop_take, pop_wait, pop_more
  <2>2. \E n, T : TakeUpTo(Promoted, n, T)
    BY <1>7, Zenon DEF Body, pop_take, pop_wait, pop_more
  <2> QED BY <1>6, <2>1, <2>2, Zenon
<1>8. ASSUME NEW c \in Consumers, wake_up(c)
      PROVE  HeapInv' /\ [Q!Next]_(Q!vars)
  BY <1>4, <1>8, Zenon DEF wake_up
<1>9. ASSUME tick
      PROVE  HeapInv' /\ [Q!Next]_(Q!vars)
  <2>1. /\ UNCHANGED <<heaps, next_seq>> /\ now' = now + 1 /\ closed' = closed
        /\ next_seq' = next_seq /\ returned' = {}
    BY <1>9, Zenon DEF tick
  <2>2. HeapInv' /\ Live' = Live
    BY <2>1, SameHeaps, Zenon
  <2>3. Q!Tick
    BY <2>1, <2>2, Zenon DEF Q!Tick
  <2> QED BY <2>2, <2>3, Zenon DEF Q!Next
<1>10. ASSUME UNCHANGED vars
       PROVE  HeapInv' /\ [Q!Next]_(Q!vars)
  <2>1. UNCHANGED <<heaps, next_seq>> /\ now' = now /\ closed' = closed
        /\ next_seq' = next_seq /\ returned' = returned
    BY <1>10, Zenon DEF vars
  <2>2. HeapInv' /\ Live' = Live
    BY <2>1, SameHeaps, Zenon
  <2>3. UNCHANGED Q!vars
    BY <2>1, <2>2, Zenon DEF Q!vars
  <2> QED BY <2>2, <2>3, Zenon
<1> QED BY <1>1, <1>2, <1>3, <1>5, <1>7, <1>8, <1>9, <1>10, Zenon DEF Next

LEMMA QueueInit == ASSUME Init PROVE HeapInv /\ Q!Init
<1>1. /\ ready = {} /\ delayed = {} /\ tombstones = {} /\ live_ready = 0 /\ live_delayed = 0
      /\ DOMAIN index = {} /\ next_seq = 1 /\ now = 0 /\ closed = FALSE /\ returned = {}
  BY Zenon DEF Init
<1>2. LiveOf(ready, delayed, tombstones) = {} /\ Live = {}
  BY <1>1, Zenon DEF LiveOf, Live, All
<1>3. Sorted(ready, delayed, tombstones, next_seq, now)
  BY <1>1, FS_EmptySet, Zenon DEF Sorted
<1>4. Indexed(ready, delayed, tombstones, index)
  BY <1>1, <1>2, Zenon DEF Indexed
<1>5. Counted(ready, delayed, tombstones, live_ready, live_delayed)
  <2>1. Cardinality({}) = 0
    BY FS_EmptySet, Zenon
  <2> QED BY <1>1, <1>2, <2>1, Zenon DEF Counted
<1>6. next_seq \in Nat \ {0} /\ now \in Nat
  BY <1>1
<1> QED BY <1>1, <1>2, <1>3, <1>4, <1>5, <1>6, Zenon DEF HeapInv, Q!Init

-----------------------------------------------------------------------------
(* Theorems *)

\* The heaps, the index, the tombstones and the counters agree in every reachable state, for
\* every number of jobs and threads, every capacity, batch size and clock.
THEOREM QueueConsistent == Spec => []QueueInv
<1>1. Init => HeapInv
  BY QueueInit, Zenon
<1>2. HeapInv /\ [Next]_vars => HeapInv'
  BY QueueStep, Zenon
<1> QED BY <1>1, <1>2, HeapImpliesQueue, PTL DEF Spec

\* queue.cpp implements what queue.hpp promises: each pop takes the best of the matured live
\* entries, and a removed or replaced entry is never returned.
THEOREM QueueImplementsJobQueue == Spec => RefinesJobQueue
<1>1. Init => HeapInv /\ Q!Init
  BY QueueInit, Zenon
<1>2. HeapInv /\ [Next]_vars => HeapInv' /\ [Q!Next]_(Q!vars)
  BY QueueStep, Zenon
<1> QED BY <1>1, <1>2, PTL DEF Spec, RefinesJobQueue, Q!Spec
-----------------------------------------------------------------------------
Owing == {p \in Producers : notify[p] = "one"}
Looping == {c \in Consumers : con[c].pc = "loop"}
AllOwed == \E p \in Producers : notify[p] = "all"

\* The part of TypeOK that is not about the heaps.
CallTypes ==
  /\ next_seq \in 1 .. MaxPushes + 1 /\ now \in Times /\ closed \in BOOLEAN
  /\ notify \in [Producers -> {"none", "one", "all"}]
  /\ con \in [Consumers -> Consumer]
  /\ returned \in SUBSET Entry
  /\ index = [i \in DOMAIN index |-> index[i]]

\* A waiter wakes by itself no later than the first delayed entry matures, or everyone is
\* about to be woken.
SleepInv == AllOwed \/ \A c \in Waiting, e \in delayed : con[c].until <= e.ready_at

\* Every live entry of the ready heap has a consumer that is about to look, or a notification on
\* its way; unless every waiter is about to wake.
CountInv ==
  \/ AllOwed
  \/ \A c \in Waiting : con[c].until <= now
  \/ Cardinality(Live \cap ready) <= Cardinality(Looping) + Cardinality(Owing)

ClosedInv == closed /\ Waiting # {} => AllOwed

WakeInv == HeapInv /\ CallTypes /\ SleepInv /\ CountInv /\ ClosedInv

-----------------------------------------------------------------------------
(* Types *)

LEMMA HeapTypes == ASSUME HeapInv, CallTypes PROVE TypeOK
<1>1. /\ ready \subseteq Entry /\ delayed \subseteq Entry
      /\ IsFiniteSet(ready) /\ IsFiniteSet(delayed)
      /\ DOMAIN index = {e.id : e \in Live}
      /\ \A e \in Live : index[e.id] = [seq |-> e.seq, delayed |-> e \in delayed]
      /\ live_ready = Cardinality(Live \cap ready) /\ live_delayed = Cardinality(Live \cap delayed)
  BY LiveFacts, Zenon
<1>2. Live \subseteq Entry
  BY <1>1, LiveFacts, Zenon
<1>3. live_ready \in Nat /\ live_delayed \in Nat
  <2>1. Live \cap ready \in SUBSET ready /\ Live \cap delayed \in SUBSET delayed
    BY Zenon
  <2>2. IsFiniteSet(Live \cap ready) /\ IsFiniteSet(Live \cap delayed)
    BY <1>1, <2>1, FS_Subset, Zenon
  <2> QED BY <1>1, <2>2, FS_CardinalityType, Zenon
<1>4. tombstones \in SUBSET Seqs
  <2>1. \A e \in ready \cup delayed : e.seq \in Seqs
    BY <1>1, Zenon DEF Entry
  <2>2. \A s \in tombstones : \E e \in ready \cup delayed : e.seq = s
    BY Zenon DEF HeapInv, Sorted
  <2> QED BY <2>1, <2>2, Zenon
<1>5. \E S \in SUBSET Ids : index \in [S -> Loc]
  <2>1. \A e \in Live : e.id \in Ids /\ e.seq \in Seqs
    BY <1>2, Zenon DEF Entry
  <2>2. DOMAIN index \in SUBSET Ids
    BY <1>1, <2>1, Zenon
  <2>3. \A i \in DOMAIN index : index[i] \in Loc
    <3> SUFFICES ASSUME NEW i \in DOMAIN index PROVE index[i] \in Loc
      BY Zenon
    <3>1. PICK e \in Live : i = e.id
      BY <1>1, Zenon
    <3>2. index[i] = [seq |-> e.seq, delayed |-> e \in delayed]
      BY <1>1, <3>1, Zenon
    <3>3. \E b \in BOOLEAN : index[i] = [seq |-> e.seq, delayed |-> b]
      <4>1. CASE e \in delayed
        <5>1. index[i] = [seq |-> e.seq, delayed |-> TRUE]
          BY <3>2, <4>1, Zenon
        <5> QED BY <5>1, Zenon
      <4>2. CASE e \notin delayed
        <5>1. (e \in delayed) = FALSE
          BY <4>2
        <5>2. index[i] = [seq |-> e.seq, delayed |-> FALSE]
          BY <3>2, <5>1, Zenon
        <5> QED BY <5>2, Zenon
      <4> QED BY <4>1, <4>2, Zenon
    <3> QED BY <2>1, <3>3 DEF Loc
  <2>4. index \in [DOMAIN index -> Loc]
    BY <2>3, Zenon DEF CallTypes
  <2> QED BY <2>2, <2>4, Zenon
<1> QED BY <1>1, <1>3, <1>4, <1>5, Zenon DEF TypeOK, CallTypes
-----------------------------------------------------------------------------
(* Sets and times *)

\* A set of times has a first one.
LEMMA FirstTime ==
  ASSUME NEW S \in SUBSET Nat, S # {}
  PROVE  \E t \in S : \A u \in S : t <= u
<1> DEFINE R == OpToRel(<, Nat)
<1>1. IsWellFoundedOn(R, Nat)
  BY NatLessThanWellFounded, Zenon
<1>2. \A A, B, T : (IsWellFoundedOn(A, B) /\ T \subseteq B /\ T # {})
                     => \E x \in T : \A y \in T : ~ (<<y, x>> \in A)
  BY WFMin, Zenon
<1> HIDE DEF R
<1>3. PICK t \in S : \A u \in S : ~ (<<u, t>> \in R)
  BY <1>1, <1>2, Zenon
<1>4. \A u \in S : ~ (u < t)
  BY <1>3, Zenon DEF R, OpToRel
<1> QED BY <1>4

\* A waiter's time is that of its deadline or of the first entry it leaves delayed.
LEMMA WaitUntil ==
  ASSUME HeapInv, now \in Times, NEW d \in 0 .. Never
  PROVE  /\ wait_until(d) \in 0 .. Never
         /\ \A e \in delayed \ M : wait_until(d) <= e.ready_at
<1> DEFINE S == {e.ready_at : e \in Promoted.delayed} \cup {d}
<1>1. Promoted.delayed = delayed \ M
  BY PromotedFields, Zenon
<1>2. delayed \subseteq Entry
  BY LiveFacts, Zenon
<1>3. MaxTime \in Nat
  BY QueueAssumption, Zenon
<1>4. \A e \in delayed : e.ready_at \in Times
  BY <1>2, Zenon DEF Entry
<1>5. S \subseteq 0 .. Never /\ d \in S
  BY <1>1, <1>3, <1>4 DEF Times, Never
<1>6. S \in SUBSET Nat /\ S # {}
  BY <1>3, <1>5 DEF Never
<1>7. \A e \in delayed \ M : e.ready_at \in S
  BY <1>1, Zenon
<1>8. wait_until(d) = CHOOSE t \in S : \A u \in S : t <= u
  BY Zenon DEF wait_until
<1> HIDE DEF S
<1>9. \E t \in S : \A u \in S : t <= u
  BY <1>6, FirstTime, Zenon
<1>10. wait_until(d) \in S /\ \A u \in S : wait_until(d) <= u
  BY <1>8, <1>9, Zenon
<1> QED BY <1>5, <1>7, <1>10, Zenon

LEMMA FiniteThreads == IsFiniteSet(Producers) /\ IsFiniteSet(Consumers)
<1>1. IsFiniteSet(Producers) /\ IsFiniteSet(Workers) /\ IsFiniteSet(Claimers)
  BY QueueAssumption, Zenon
<1> QED BY <1>1, FS_Union, Zenon DEF Consumers

\* Sizes of the sets CountInv speaks of.
LEMMA Sizes ==
  ASSUME HeapInv
  PROVE  /\ IsFiniteSet(Live \cap ready) /\ Cardinality(Live \cap ready) \in Nat
         /\ IsFiniteSet(Looping) /\ Cardinality(Looping) \in Nat
         /\ IsFiniteSet(Owing) /\ Cardinality(Owing) \in Nat
<1>1. IsFiniteSet(ready)
  BY LiveFacts, Zenon
<1>2. /\ Live \cap ready \in SUBSET ready /\ Looping \in SUBSET Consumers
      /\ Owing \in SUBSET Producers
  BY Zenon DEF Looping, Owing
<1>3. IsFiniteSet(Live \cap ready) /\ IsFiniteSet(Looping) /\ IsFiniteSet(Owing)
  BY <1>1, <1>2, FiniteThreads, FS_Subset, Zenon
<1> QED BY <1>3, FS_CardinalityType, Zenon

LEMMA UntilType ==
  ASSUME CallTypes, NEW c \in Consumers
  PROVE  con[c].until \in Nat /\ con[c].deadline \in 0 .. Never /\ con[c] \in Consumer
<1>1. con[c] \in Consumer
  BY Zenon DEF CallTypes
<1>2. Never \in Nat
  BY QueueAssumption DEF Never
<1>3. con[c].until \in 0 .. Never /\ con[c].deadline \in 0 .. Never
  BY <1>1, Zenon DEF Consumer
<1> QED BY <1>1, <1>2, <1>3

\* No element more, one more or one less.
LEMMA NoMore ==
  ASSUME NEW S, IsFiniteSet(S), NEW T, T \subseteq S
  PROVE  /\ IsFiniteSet(T) /\ Cardinality(T) <= Cardinality(S)
         /\ Cardinality(T) \in Nat /\ Cardinality(S) \in Nat
<1>1. T \in SUBSET S
  BY Zenon
<1> QED BY <1>1, FS_Subset, FS_CardinalityType, Zenon

LEMMA OneMore ==
  ASSUME NEW S, IsFiniteSet(S), NEW e, NEW T, T \subseteq S \cup {e}
  PROVE  Cardinality(T) <= Cardinality(S) + 1 /\ Cardinality(T) \in Nat
<1>1. /\ IsFiniteSet(S \cup {e}) /\ Cardinality(S) \in Nat
      /\ Cardinality(S \cup {e}) = IF e \in S THEN Cardinality(S) ELSE Cardinality(S) + 1
  BY FS_AddElement, FS_CardinalityType, Zenon
<1>2. Cardinality(T) <= Cardinality(S \cup {e}) /\ Cardinality(T) \in Nat
  BY <1>1, NoMore, Zenon
<1> QED BY <1>1, <1>2

LEMMA OneLess ==
  ASSUME NEW S, IsFiniteSet(S), NEW e \in S, NEW T, T \subseteq S \ {e}
  PROVE  Cardinality(T) <= Cardinality(S) - 1 /\ Cardinality(T) \in Nat
<1>1. /\ IsFiniteSet(S \ {e}) /\ Cardinality(S) \in Nat
      /\ Cardinality(S \ {e}) = Cardinality(S) - 1
  BY FS_RemoveElement, FS_CardinalityType, Zenon
<1>2. Cardinality(T) <= Cardinality(S \ {e}) /\ Cardinality(T) \in Nat
  BY <1>1, NoMore, Zenon
<1> QED BY <1>1, <1>2, Zenon
-----------------------------------------------------------------------------
(* The steps *)

\* push, with the entry it adds and the notification it will make.
LEMMA PushWakes ==
  ASSUME WakeInv, NEW p \in Producers, NEW id \in Ids, NEW priority \in Priorities,
         NEW t \in Times, push(p, id, priority, t)
  PROVE  WakeInv'
<1> DEFINE e == [id |-> id, priority |-> priority, seq |-> next_seq, ready_at |-> t]
<1>0. HeapInv /\ CallTypes /\ SleepInv /\ CountInv /\ ClosedInv
  BY Zenon DEF WakeInv
<1>1. HeapInv' /\ Live' = {f \in Live : f.id # id} \cup {e}
  BY <1>0, PushStep, Zenon DEF Q!Push
<1>2. /\ notify[p] = "none" /\ ~ closed /\ next_seq <= MaxPushes
      /\ next_seq' = next_seq + 1 /\ returned' = {} /\ closed' = closed /\ now' = now /\ con' = con
      /\ DOMAIN index' = DOMAIN index \cup {id} /\ index' = [i \in DOMAIN index' |-> index'[i]]
  BY Zenon DEF push
<1>3. \/ /\ t > now /\ delayed' = delayed \cup {e} /\ ready' = ready
         /\ notify' = [notify EXCEPT ![p] = IF becomes_earliest(t) THEN "all" ELSE "none"]
      \/ /\ ready' = ready \cup {e} /\ delayed' = delayed
         /\ notify' = [notify EXCEPT ![p] = "one"]
  BY Zenon DEF push
<1>e. e.ready_at = t
  BY Zenon
<1>t. /\ t \in Nat /\ now \in Nat /\ MaxPushes \in Nat
      /\ next_seq \in 1 .. MaxPushes + 1 /\ notify \in [Producers -> {"none", "one", "all"}]
  BY <1>0, QueueAssumption DEF CallTypes, Times
<1> HIDE DEF e
<1>4. CallTypes'
  <2>1. next_seq' \in 1 .. MaxPushes + 1
    BY <1>2, <1>t
  <2>2. notify' \in [Producers -> {"none", "one", "all"}]
    BY <1>3, <1>t, Zenon
  <2> QED BY <1>0, <1>2, <2>1, <2>2, Zenon DEF CallTypes
<1>5. Waiting' = Waiting /\ Looping' = Looping
  BY <1>2, Zenon DEF Waiting, Looping
<1>6. AllOwed => AllOwed'
  BY <1>2, <1>3, <1>t, Zenon DEF AllOwed
<1>7. ClosedInv'
  BY <1>2, Zenon DEF ClosedInv
<1>8. CASE ready' = ready \cup {e} /\ delayed' = delayed /\ notify' = [notify EXCEPT ![p] = "one"]
  <2>1. SleepInv'
    BY <1>0, <1>2, <1>5, <1>6, <1>8, Zenon DEF SleepInv
  <2>2. Live' \cap ready' \subseteq (Live \cap ready) \cup {e}
    BY <1>1, <1>8, Zenon
  <2>3. Owing' = Owing \cup {p} /\ p \notin Owing
    BY <1>2, <1>8, <1>t, Zenon DEF Owing
  <2>4. Cardinality(Owing') = Cardinality(Owing) + 1
    BY <1>0, <2>3, Sizes, CountOne, Zenon
  <2>5. /\ Cardinality(Live' \cap ready') <= Cardinality(Live \cap ready) + 1
        /\ Cardinality(Live' \cap ready') \in Nat
    BY <1>0, <2>2, Sizes, OneMore, Zenon
  <2>6. /\ Cardinality(Live \cap ready) \in Nat
        /\ Cardinality(Looping) \in Nat /\ Cardinality(Owing) \in Nat
    BY <1>0, Sizes, Zenon
  <2>7. CountInv'
    <3>1. CASE Cardinality(Live \cap ready) <= Cardinality(Looping) + Cardinality(Owing)
      <4>1. Cardinality(Live' \cap ready') <= Cardinality(Looping) + Cardinality(Owing')
        BY <2>4, <2>5, <2>6, <3>1
      <4> QED BY <1>5, <4>1, Zenon DEF CountInv
    <3> QED BY <1>0, <1>2, <1>5, <1>6, <3>1, Zenon DEF CountInv
  <2> QED BY <1>1, <1>4, <1>7, <2>1, <2>7, Zenon DEF WakeInv
<1>9. CASE /\ t > now /\ delayed' = delayed \cup {e} /\ ready' = ready
           /\ notify' = [notify EXCEPT ![p] = IF becomes_earliest(t) THEN "all" ELSE "none"]
  <2>1. becomes_earliest(t) => AllOwed'
    BY <1>9, <1>t, Zenon DEF AllOwed
  <2>2. SleepInv'
    <3>1. CASE ~ becomes_earliest(t) /\ ~ AllOwed
      <4>1. PICK f \in delayed : ~ (t < f.ready_at)
        BY <3>1, Zenon DEF becomes_earliest
      <4>2. f.ready_at \in Nat
        BY <1>0, LiveFacts, EntryType, Zenon
      <4>3. \A c \in Waiting : con[c].until \in Nat
        BY <1>0, UntilType, Zenon DEF Waiting
      <4>4. \A c \in Waiting : con[c].until <= f.ready_at
        BY <1>0, <3>1, Zenon DEF SleepInv
      <4>5. \A c \in Waiting : con[c].until <= t
        BY <1>t, <4>1, <4>2, <4>3, <4>4
      <4>6. \A c \in Waiting, g \in delayed \cup {e} : con[c].until <= g.ready_at
        BY <1>0, <1>e, <3>1, <4>5, Zenon DEF SleepInv
      <4> QED BY <1>2, <1>5, <1>9, <4>6, Zenon DEF SleepInv
    <3> QED BY <1>6, <2>1, <3>1, Zenon DEF SleepInv
  <2>3. e \notin ready
    BY <1>0, <1>e, <1>9, <1>t DEF HeapInv, Sorted
  <2>4. Live' \cap ready' \subseteq Live \cap ready
    BY <1>1, <1>9, <2>3, Zenon
  <2>5. /\ Cardinality(Live' \cap ready') <= Cardinality(Live \cap ready)
        /\ Cardinality(Live' \cap ready') \in Nat
    BY <1>0, <2>4, Sizes, NoMore, Zenon
  <2>6. /\ Cardinality(Live \cap ready) \in Nat
        /\ Cardinality(Looping) \in Nat /\ Cardinality(Owing) \in Nat
    BY <1>0, Sizes, Zenon
  <2>7. AllOwed' \/ Owing' = Owing
    <3>1. ~ becomes_earliest(t) => Owing' = Owing
      BY <1>2, <1>9, <1>t, Zenon DEF Owing
    <3> QED BY <2>1, <3>1, Zenon
  <2>8. CountInv'
    <3>1. CASE /\ Cardinality(Live \cap ready) <= Cardinality(Looping) + Cardinality(Owing)
               /\ Owing' = Owing
      <4>1. Cardinality(Live' \cap ready') <= Cardinality(Looping) + Cardinality(Owing)
        BY <2>5, <2>6, <3>1
      <4> QED BY <1>5, <3>1, <4>1, Zenon DEF CountInv
    <3> QED BY <1>0, <1>2, <1>5, <1>6, <2>7, <3>1, Zenon DEF CountInv
  <2> QED BY <1>1, <1>4, <1>7, <2>2, <2>8, Zenon DEF WakeInv
<1> QED BY <1>3, <1>8, <1>9, Zenon

\* A step that adds no ready entry, and takes away none of the consumers and notifications that
\* will look.
LEMMA CountKept ==
  ASSUME HeapInv, CallTypes, CountInv, AllOwed => AllOwed', now' = now \/ now' = now + 1,
         Waiting' \subseteq Waiting, \A c \in Waiting' : con'[c].until = con[c].until,
         Live' \cap ready' \subseteq Live \cap ready,
         Looping \subseteq Looping', IsFiniteSet(Looping'), Owing' = Owing
  PROVE  CountInv'
<1>1. CASE AllOwed
  BY <1>1, Zenon DEF CountInv
<1>2. CASE \A c \in Waiting : con[c].until <= now
  <2>1. \A c \in Waiting : con[c].until \in Nat
    BY UntilType, Zenon DEF Waiting
  <2>2. now \in Nat
    BY Zenon DEF HeapInv
  <2>3. \A c \in Waiting' : con'[c].until <= now'
    BY <1>2, <2>1, <2>2
  <2> QED BY <2>3, Zenon DEF CountInv
<1>3. CASE Cardinality(Live \cap ready) <= Cardinality(Looping) + Cardinality(Owing)
  <2>1. /\ Cardinality(Live' \cap ready') <= Cardinality(Live \cap ready)
        /\ Cardinality(Live' \cap ready') \in Nat /\ Cardinality(Live \cap ready) \in Nat
    BY Sizes, NoMore, Zenon
  <2>2. /\ Cardinality(Looping) <= Cardinality(Looping')
        /\ Cardinality(Looping) \in Nat /\ Cardinality(Looping') \in Nat
    BY NoMore, Zenon
  <2>3. Cardinality(Owing) \in Nat
    BY Sizes, Zenon
  <2>4. Cardinality(Live' \cap ready') <= Cardinality(Looping') + Cardinality(Owing)
    BY <1>3, <2>1, <2>2, <2>3
  <2> QED BY <2>4, Zenon DEF CountInv
<1> QED BY <1>1, <1>2, <1>3, Zenon DEF CountInv

\* Steps that move no consumer: remove, close, the clock.
LEMMA StillWakes ==
  ASSUME WakeInv, HeapInv', CallTypes', con' = con, now' = now \/ now' = now + 1,
         AllOwed => AllOwed', closed' # closed => AllOwed',
         delayed' \subseteq delayed, Live' \cap ready' \subseteq Live \cap ready,
         AllOwed' \/ Owing' = Owing
  PROVE  WakeInv'
<1>0. HeapInv /\ CallTypes /\ SleepInv /\ CountInv /\ ClosedInv
  BY Zenon DEF WakeInv
<1>1. Waiting' = Waiting /\ Looping' = Looping
  BY Zenon DEF Waiting, Looping
<1>2. SleepInv'
  BY <1>0, <1>1, Zenon DEF SleepInv
<1>3. ClosedInv'
  BY <1>0, <1>1, Zenon DEF ClosedInv
<1>4. CASE AllOwed'
  BY <1>2, <1>3, <1>4, Zenon DEF WakeInv, CountInv
<1>5. CASE Owing' = Owing
  <2>1. IsFiniteSet(Looping') /\ Looping \subseteq Looping' /\ Waiting' \subseteq Waiting
    BY <1>0, <1>1, Sizes, Zenon
  <2>2. CountInv'
    BY <1>0, <1>5, <2>1, CountKept, Zenon
  <2> QED BY <1>2, <1>3, <2>2, Zenon DEF WakeInv
<1> QED BY <1>4, <1>5, Zenon

LEMMA RemoveWakes ==
  ASSUME WakeInv, NEW p \in Producers, NEW id \in Ids, remove(p, id)
  PROVE  WakeInv'
<1>0. HeapInv /\ CallTypes
  BY Zenon DEF WakeInv
<1>1. HeapInv' /\ Live' = {f \in Live : f.id # id}
  BY <1>0, RemoveStep, Zenon DEF Q!Remove
<1>2. /\ ready' = ready /\ delayed' = delayed /\ con' = con /\ notify' = notify /\ closed' = closed
      /\ now' = now /\ next_seq' = next_seq /\ returned' = {} /\ index' = Without(id)
  BY Zenon DEF remove
<1>3. CallTypes'
  BY <1>0, <1>2, Zenon DEF CallTypes, Without
<1>4. (AllOwed => AllOwed') /\ Owing' = Owing
  BY <1>2, Zenon DEF AllOwed, Owing
<1>5. delayed' \subseteq delayed /\ Live' \cap ready' \subseteq Live \cap ready
  BY <1>1, <1>2, Zenon
<1> QED BY <1>1, <1>2, <1>3, <1>4, <1>5, StillWakes, Zenon

LEMMA CloseWakes ==
  ASSUME WakeInv, NEW p \in Producers, close(p)
  PROVE  WakeInv'
<1>0. HeapInv /\ CallTypes
  BY Zenon DEF WakeInv
<1>1. /\ notify' = [notify EXCEPT ![p] = "all"] /\ closed' = TRUE /\ returned' = {} /\ con' = con
      /\ now' = now /\ next_seq' = next_seq /\ UNCHANGED heaps
  BY Zenon DEF close
<1>2. HeapInv' /\ Live' = Live /\ ready' = ready /\ delayed' = delayed /\ index' = index
  BY <1>0, <1>1, SameHeaps, Zenon DEF heaps
<1>3. CallTypes'
  <2>1. notify' \in [Producers -> {"none", "one", "all"}]
    BY <1>0, <1>1, Zenon DEF CallTypes
  <2> QED BY <1>0, <1>1, <1>2, <2>1, Zenon DEF CallTypes
<1>4. AllOwed'
  BY <1>0, <1>1, Zenon DEF AllOwed, CallTypes
<1>5. delayed' \subseteq delayed /\ Live' \cap ready' \subseteq Live \cap ready
  BY <1>2, Zenon
<1> QED BY <1>1, <1>2, <1>3, <1>4, <1>5, StillWakes, Zenon

LEMMA TickWakes == ASSUME WakeInv, tick PROVE WakeInv'
<1>0. HeapInv /\ CallTypes
  BY Zenon DEF WakeInv
<1>1. /\ notify' = notify /\ closed' = closed /\ returned' = {} /\ con' = con
      /\ now < MaxTime /\ now' = now + 1 /\ next_seq' = next_seq /\ UNCHANGED heaps
  BY Zenon DEF tick
<1>2. HeapInv' /\ Live' = Live /\ ready' = ready /\ delayed' = delayed /\ index' = index
  BY <1>0, <1>1, SameHeaps, Zenon DEF heaps
<1>3. CallTypes'
  <2>1. now' \in Times
    BY <1>0, <1>1, QueueAssumption DEF CallTypes, Times
  <2> QED BY <1>0, <1>1, <1>2, <2>1, Zenon DEF CallTypes
<1>4. (AllOwed => AllOwed') /\ Owing' = Owing
  BY <1>1, Zenon DEF AllOwed, Owing
<1>5. delayed' \subseteq delayed /\ Live' \cap ready' \subseteq Live \cap ready
  BY <1>2, Zenon
<1> QED BY <1>1, <1>2, <1>3, <1>4, <1>5, StillWakes, Zenon

LEMMA AtFields ==
  ASSUME NEW pc \in {"idle", "loop", "wait", "more"}, NEW d \in 0 .. Never
  PROVE  At(pc, d) \in Consumer /\ At(pc, d).pc = pc
<1>1. Never \in 0 .. Never
  BY QueueAssumption DEF Never
<1> QED BY <1>1, Zenon DEF At, Consumer

\* Waiters W leave cv_, at a notification or by themselves.
LEMMA Woken ==
  ASSUME WakeInv, NEW W \in SUBSET Waiting,
         con' = [c \in Consumers |-> IF c \in W THEN At("loop", con[c].deadline) ELSE con[c]]
  PROVE  /\ con' \in [Consumers -> Consumer]
         /\ Waiting' = Waiting \ W /\ \A c \in Waiting' : con'[c] = con[c]
         /\ Looping' = Looping \cup W /\ Looping \cap W = {} /\ W \subseteq Consumers
         /\ IsFiniteSet(Looping') /\ IsFiniteSet(W)
<1>0. HeapInv /\ CallTypes
  BY Zenon DEF WakeInv
<1>1. W \subseteq Consumers /\ \A c \in W : con[c].pc = "wait"
  BY Zenon DEF Waiting
<1>2. \A c \in W : con'[c] \in Consumer /\ con'[c].pc = "loop"
  <2> SUFFICES ASSUME NEW c \in W PROVE con'[c] \in Consumer /\ con'[c].pc = "loop"
    BY Zenon
  <2>1. con'[c] = At("loop", con[c].deadline) /\ con[c].deadline \in 0 .. Never
    BY <1>0, <1>1, UntilType, Zenon
  <2> QED BY <2>1, AtFields, Zenon
<1>3. \A c \in Consumers \ W : con'[c] = con[c] /\ con'[c] \in Consumer
  BY <1>0, UntilType, Zenon
<1>4. con' \in [Consumers -> Consumer]
  BY <1>2, <1>3, Zenon
<1>5. Waiting' = Waiting \ W /\ \A c \in Waiting' : con'[c] = con[c]
  <2>1. \A c \in W : con'[c].pc # "wait"
    BY <1>2, Zenon
  <2> QED BY <1>1, <2>1, <1>3, Zenon DEF Waiting
<1>6. Looping' = Looping \cup W /\ Looping \cap W = {}
  BY <1>1, <1>2, <1>3, Zenon DEF Looping
<1>7. Looping' \subseteq Consumers
  BY Zenon DEF Looping
<1>8. IsFiniteSet(Looping') /\ IsFiniteSet(W)
  BY <1>1, <1>7, FiniteThreads, NoMore, Zenon
<1> QED BY <1>1, <1>4, <1>5, <1>6, <1>8, Zenon

LEMMA WakeUpWakes ==
  ASSUME WakeInv, NEW c \in Consumers, wake_up(c)
  PROVE  WakeInv'
<1>0. HeapInv /\ CallTypes /\ SleepInv /\ CountInv /\ ClosedInv
  BY Zenon DEF WakeInv
<1>1. /\ con[c].pc = "wait" /\ con' = [con EXCEPT ![c] = At("loop", con[c].deadline)]
      /\ notify' = notify /\ closed' = closed /\ returned' = {} /\ now' = now
      /\ next_seq' = next_seq /\ UNCHANGED heaps
  BY Zenon DEF wake_up
<1>2. HeapInv' /\ Live' = Live /\ ready' = ready /\ delayed' = delayed /\ index' = index
  BY <1>0, <1>1, SameHeaps, Zenon DEF heaps
<1>3. PICK W \in SUBSET Waiting :
        con' = [u \in Consumers |-> IF u \in W THEN At("loop", con[u].deadline) ELSE con[u]]
  <2>1. con \in [Consumers -> Consumer]
    BY <1>0, Zenon DEF CallTypes
  <2>2. {c} \in SUBSET Waiting
    BY <1>1, Zenon DEF Waiting
  <2>3. con' = [u \in Consumers |-> IF u \in {c} THEN At("loop", con[u].deadline) ELSE con[u]]
    BY <1>1, <2>1, Zenon
  <2> QED BY <2>2, <2>3, Zenon
<1>4. /\ con' \in [Consumers -> Consumer] /\ Waiting' \subseteq Waiting
      /\ \A u \in Waiting' : con'[u] = con[u]
      /\ Looping \subseteq Looping' /\ IsFiniteSet(Looping')
  <2>1. /\ con' \in [Consumers -> Consumer]
        /\ Waiting' = Waiting \ W /\ \A u \in Waiting' : con'[u] = con[u]
        /\ Looping' = Looping \cup W /\ IsFiniteSet(Looping')
    BY <1>3, Woken, Zenon
  <2> QED BY <2>1, Zenon
<1>5. CallTypes'
  BY <1>0, <1>1, <1>2, <1>4, Zenon DEF CallTypes
<1>6. (AllOwed => AllOwed') /\ Owing' = Owing
  BY <1>1, Zenon DEF AllOwed, Owing
<1>7. SleepInv' /\ ClosedInv'
  BY <1>0, <1>1, <1>2, <1>4, <1>6, Zenon DEF SleepInv, ClosedInv
<1>8. Live' \cap ready' \subseteq Live \cap ready /\ \A u \in Waiting' : con'[u].until = con[u].until
  BY <1>2, <1>4, Zenon
<1>9. CountInv'
  BY <1>0, <1>1, <1>4, <1>6, <1>8, CountKept, Zenon
<1> QED BY <1>2, <1>5, <1>7, <1>9, Zenon DEF WakeInv

LEMMA NotifyWakes ==
  ASSUME WakeInv, NEW p \in Producers, notify_step(p)
  PROVE  WakeInv'
<1>0. HeapInv /\ CallTypes /\ SleepInv /\ CountInv /\ ClosedInv
  BY Zenon DEF WakeInv
<1>1. /\ notify[p] # "none" /\ notify' = [notify EXCEPT ![p] = "none"] /\ closed' = closed
      /\ returned' = {} /\ now' = now /\ next_seq' = next_seq /\ UNCHANGED heaps
  BY Zenon DEF notify_step
<1>2. PICK W \in SUBSET Waiting :
        /\ notify[p] = "all" => W = Waiting
        /\ notify[p] = "one" => Cardinality(W) = IF Waiting = {} THEN 0 ELSE 1
        /\ con' = [c \in Consumers |-> IF c \in W THEN At("loop", con[c].deadline) ELSE con[c]]
  BY Zenon DEF notify_step
<1>3. HeapInv' /\ Live' = Live /\ ready' = ready /\ delayed' = delayed /\ index' = index
  BY <1>0, <1>1, SameHeaps, Zenon DEF heaps
<1>4. /\ con' \in [Consumers -> Consumer]
      /\ Waiting' = Waiting \ W /\ \A c \in Waiting' : con'[c] = con[c]
      /\ Looping' = Looping \cup W /\ Looping \cap W = {}
      /\ IsFiniteSet(Looping') /\ IsFiniteSet(W)
  BY <1>2, Woken, Zenon
<1>n. notify \in [Producers -> {"none", "one", "all"}]
  BY <1>0, Zenon DEF CallTypes
<1>5. CallTypes'
  <2>1. notify' \in [Producers -> {"none", "one", "all"}]
    BY <1>1, <1>n, Zenon
  <2> QED BY <1>0, <1>1, <1>3, <1>4, <2>1, Zenon DEF CallTypes
<1>6. CASE Waiting' = {}
  BY <1>3, <1>5, <1>6, Zenon DEF WakeInv, SleepInv, CountInv, ClosedInv
<1>7. CASE Waiting' # {}
  <2>1. notify[p] = "one" /\ Cardinality(W) = 1
    BY <1>1, <1>2, <1>4, <1>7, <1>n, Zenon
  <2>2. AllOwed => AllOwed'
    BY <1>1, <1>n, <2>1, Zenon DEF AllOwed
  <2>3. SleepInv' /\ ClosedInv'
    BY <1>0, <1>1, <1>3, <1>4, <2>2, Zenon DEF SleepInv, ClosedInv
  <2>4. p \in Owing /\ Owing' = Owing \ {p}
    BY <1>1, <1>n, <2>1, Zenon DEF Owing
  <2>5. /\ Cardinality(Owing') = Cardinality(Owing) - 1
        /\ Cardinality(Owing) \in Nat /\ Cardinality(Looping) \in Nat
        /\ Cardinality(Live \cap ready) \in Nat
    BY <1>0, <2>4, Sizes, FS_RemoveElement, Zenon
  <2>6. Cardinality(Looping') = Cardinality(Looping) + 1
    BY <1>0, <1>4, <2>1, Sizes, CountAdd, Zenon
  <2>7. CountInv'
    <3>1. CASE Cardinality(Live \cap ready) <= Cardinality(Looping) + Cardinality(Owing)
      <4>1. Cardinality(Live \cap ready) <= Cardinality(Looping') + Cardinality(Owing')
        BY <2>5, <2>6, <3>1
      <4> QED BY <1>3, <4>1, Zenon DEF CountInv
    <3> QED BY <1>0, <1>1, <1>4, <2>2, <3>1, Zenon DEF CountInv
  <2> QED BY <1>3, <1>5, <2>3, <2>7, Zenon DEF WakeInv
<1> QED BY <1>6, <1>7, Zenon

\* A pass of pop, pop_for or pop_batch: what is left in the heaps.
LEMMA PopHeaps ==
  ASSUME HeapInv, NEW n, NEW T, TakeUpTo(Promoted, n, T), UNCHANGED <<next_seq, now>>
  PROVE  /\ HeapInv' /\ Live' = Live \ T /\ T \subseteq Live /\ returned' = T
         /\ T \subseteq ready \cup (M \ D)
         /\ ready' \subseteq ready \cup (M \ D) /\ delayed' = delayed \ M
         /\ Cardinality(T) < n => ready' = {}
         /\ index' = [i \in DOMAIN index' |-> index'[i]]
<1>1. HeapInv' /\ T \subseteq Q!Matured /\ Live' = Live \ T /\ returned' = T
  BY PopStep, Zenon
<1>2. T \subseteq Live
  BY <1>1, Zenon DEF Q!Matured
<1>3. Promoted.ready = ready \cup (M \ D) /\ Promoted.delayed = delayed \ M
  BY PromotedFields, Zenon
<1> DEFINE q == Promoted
<1> HIDE DEF q
<1>4. TakeUpTo(q, n, T) /\ q.ready = ready \cup (M \ D) /\ q.delayed = delayed \ M
  BY <1>3, Zenon DEF q
<1>5. /\ ready' \subseteq q.ready /\ delayed' = q.delayed /\ T \subseteq q.ready
      /\ Cardinality(T) < n => ready' = {}
      /\ index' = [i \in DOMAIN index' |-> index'[i]]
  BY <1>4, Zenon DEF TakeUpTo
<1> QED BY <1>1, <1>2, <1>4, <1>5, Zenon

\* A pass that returns entries: pop_take and pop_more.
LEMMA TakenWakes ==
  ASSUME WakeInv, NEW c \in Consumers, NEW n, NEW T, TakeUpTo(Promoted, n, T),
         UNCHANGED <<next_seq, closed, now, notify>>,
         NEW next \in Consumer, con' = [con EXCEPT ![c] = next],
         next.pc \notin {"wait", "loop"}, con[c].pc # "wait", con[c].pc = "loop" => T # {}
  PROVE  WakeInv'
<1>0. HeapInv /\ CallTypes /\ SleepInv /\ CountInv /\ ClosedInv
  BY Zenon DEF WakeInv
<1>1. /\ HeapInv' /\ Live' = Live \ T /\ T \subseteq Live /\ returned' = T
      /\ T \subseteq ready \cup (M \ D) /\ ready' \subseteq ready \cup (M \ D)
      /\ delayed' = delayed \ M /\ index' = [i \in DOMAIN index' |-> index'[i]]
  BY <1>0, PopHeaps, Zenon
<1>2. /\ next_seq' = next_seq /\ closed' = closed /\ now' = now /\ notify' = notify
      /\ con \in [Consumers -> Consumer]
  BY <1>0, Zenon DEF CallTypes
<1>3. con' \in [Consumers -> Consumer] /\ con'[c] = next /\ \A u \in Consumers \ {c} : con'[u] = con[u]
  BY <1>2, Zenon
<1>4. CallTypes'
  <2>1. T \subseteq Entry
    BY <1>0, <1>1, LiveFacts, Zenon
  <2> QED BY <1>0, <1>1, <1>2, <1>3, <2>1, Zenon DEF CallTypes
<1>5. Waiting' = Waiting /\ \A u \in Waiting : con'[u] = con[u]
  BY <1>3, Zenon DEF Waiting
<1>6. Looping' = Looping \ {c}
  BY <1>3, Zenon DEF Looping
<1>7. (AllOwed' <=> AllOwed) /\ Owing' = Owing
  BY <1>2, Zenon DEF AllOwed, Owing
<1>8. SleepInv' /\ ClosedInv'
  <2>1. \A e \in delayed' : e \in delayed
    BY <1>1, Zenon
  <2>2. \A u \in Waiting' : u \in Waiting /\ con'[u] = con[u]
    BY <1>5, Zenon
  <2>3. SleepInv'
    BY <1>0, <1>7, <2>1, <2>2, Zenon DEF SleepInv
  <2>4. ClosedInv'
    BY <1>0, <1>2, <1>5, <1>7 DEF ClosedInv
  <2> QED BY <2>3, <2>4, Zenon
<1>9. CountInv'
  <2>1. CASE M \ D # {}
    <3>1. PICK e \in delayed : e.ready_at <= now
      BY <2>1, Zenon DEF M
    <3>2. e.ready_at \in Nat /\ now \in Nat
      BY <1>0, LiveFacts, EntryType, Zenon DEF HeapInv
    <3>3. \A u \in Waiting : con[u].until \in Nat
      BY <1>0, UntilType, Zenon DEF Waiting
    <3>4. CASE \A u \in Waiting : con[u].until <= e.ready_at
      <4>1. \A u \in Waiting : con[u].until <= now
        BY <3>1, <3>2, <3>3, <3>4, SMTT(30)
      <4> QED BY <1>2, <1>5, <4>1, Zenon DEF CountInv
    <3> QED BY <1>0, <1>7, <3>4, Zenon DEF SleepInv, CountInv
  <2>2. CASE M \ D = {} /\ con[c].pc # "loop"
    <3>1. Live' \cap ready' \subseteq Live \cap ready
      BY <1>1, <2>2, Zenon
    <3>2. Looping' = Looping
      BY <1>6, <2>2, Zenon DEF Looping
    <3>3. IsFiniteSet(Looping') /\ Looping \subseteq Looping' /\ Waiting' \subseteq Waiting
      BY <1>0, <1>5, <3>2, Sizes, Zenon
    <3>4. \A u \in Waiting' : con'[u].until = con[u].until
      BY <1>5, Zenon
    <3> QED BY <1>0, <1>2, <1>7, <3>1, <3>3, <3>4, CountKept, Zenon
  <2>3. CASE M \ D = {} /\ con[c].pc = "loop"
    <3>1. PICK e \in T : TRUE
      BY <2>3, Zenon
    <3>2. e \in Live \cap ready /\ Live' \cap ready' \subseteq (Live \cap ready) \ {e}
      BY <1>1, <2>3, <3>1, Zenon
    <3>3. /\ Cardinality(Live' \cap ready') <= Cardinality(Live \cap ready) - 1
          /\ Cardinality(Live' \cap ready') \in Nat
      BY <1>0, <3>2, Sizes, OneLess, Zenon
    <3>4. c \in Looping
      BY <2>3, Zenon DEF Looping
    <3>5. /\ Cardinality(Looping') = Cardinality(Looping) - 1
          /\ Cardinality(Owing) \in Nat /\ Cardinality(Looping) \in Nat
          /\ Cardinality(Live \cap ready) \in Nat
      BY <1>0, <1>6, <3>4, Sizes, FS_RemoveElement, Zenon
    <3>6. CASE Cardinality(Live \cap ready) <= Cardinality(Looping) + Cardinality(Owing)
      <4>1. Cardinality(Live' \cap ready') <= Cardinality(Looping') + Cardinality(Owing)
        BY <3>3, <3>5, <3>6
      <4> QED BY <1>7, <4>1, Zenon DEF CountInv
    <3> QED BY <1>0, <1>2, <1>5, <1>7, <3>6, Zenon DEF CountInv
  <2> QED BY <2>1, <2>2, <2>3, Zenon
<1> QED BY <1>1, <1>4, <1>8, <1>9, Zenon DEF WakeInv

\* A pass that finds nothing leaves no ready entry, and its caller sleeps no longer than the
\* first delayed one allows.
LEMMA WaitWakes ==
  ASSUME WakeInv, NEW c \in Consumers, NEW d \in Deadlines(c), pop_wait(c, d)
  PROVE  WakeInv'
<1> DEFINE next == IF closed \/ d <= now THEN Idle
                   ELSE [pc |-> "wait", until |-> wait_until(d), deadline |-> d]
<1>0. HeapInv /\ CallTypes /\ SleepInv /\ CountInv /\ ClosedInv
  BY Zenon DEF WakeInv
<1>1. /\ con[c].pc \in {"idle", "loop"} /\ TakeUpTo(Promoted, 1, {}) /\ con' = [con EXCEPT ![c] = next]
      /\ next_seq' = next_seq /\ closed' = closed /\ now' = now /\ notify' = notify
  BY Zenon DEF pop_wait
<1>2. Cardinality({}) = 0 /\ IsFiniteSet({})
  BY FS_EmptySet, Zenon
<1>3. 1 \in Nat /\ UNCHANGED <<next_seq, now>> /\ Cardinality({}) < 1
  BY <1>1, <1>2
<1>4. /\ HeapInv' /\ returned' = {} /\ ready' = {} /\ delayed' = delayed \ M
      /\ index' = [i \in DOMAIN index' |-> index'[i]]
  BY <1>0, <1>1, <1>3, PopHeaps, Zenon
<1>5. d \in 0 .. Never
  <2>1. now \in Times /\ MaxTime \in Nat
    BY <1>0, QueueAssumption, Zenon DEF CallTypes
  <2>2. con[c].deadline \in 0 .. Never
    BY <1>0, UntilType, Zenon
  <2>3. d = con[c].deadline \/ d = Never \/ d \in now .. MaxTime
    BY Zenon DEF Deadlines
  <2> QED BY <2>1, <2>2, <2>3 DEF Times, Never
<1>6. /\ next \in Consumer /\ next.pc # "loop"
      /\ next.pc = "wait" => ~ closed /\ \A e \in delayed \ M : next.until <= e.ready_at
  <2>1. CASE closed \/ d <= now
    <3>1. next = At("idle", Never) /\ Never \in 0 .. Never
      BY <2>1, QueueAssumption DEF Idle, Never
    <3> QED BY <3>1, AtFields, Zenon
  <2>2. CASE ~ (closed \/ d <= now)
    <3>1. now \in Times
      BY <1>0, Zenon DEF CallTypes
    <3>2. /\ wait_until(d) \in 0 .. Never
          /\ \A e \in delayed \ M : wait_until(d) <= e.ready_at
      BY <1>0, <1>5, <3>1, WaitUntil, Zenon
    <3>3. next = [pc |-> "wait", until |-> wait_until(d), deadline |-> d]
      BY <2>2, Zenon
    <3> QED BY <1>5, <2>2, <3>2, <3>3, Zenon DEF Consumer
  <2> QED BY <2>1, <2>2, Zenon
<1> HIDE DEF next
<1>7. con \in [Consumers -> Consumer]
  BY <1>0, Zenon DEF CallTypes
<1>8. /\ con' \in [Consumers -> Consumer] /\ con'[c] = next
      /\ \A u \in Consumers \ {c} : con'[u] = con[u]
  BY <1>1, <1>6, <1>7, Zenon
<1>9. CallTypes'
  BY <1>0, <1>1, <1>4, <1>8, Zenon DEF CallTypes
<1>10. AllOwed' <=> AllOwed
  BY <1>1, Zenon DEF AllOwed
<1>11. \A u \in Waiting' : \/ u \in Waiting /\ con'[u] = con[u]
                           \/ u = c /\ con'[u] = next /\ next.pc = "wait"
  BY <1>8, Zenon DEF Waiting
<1>12. SleepInv'
  <2>1. CASE AllOwed
    BY <1>10, <2>1, Zenon DEF SleepInv
  <2>2. CASE ~ AllOwed
    <3>1. \A u \in Waiting', e \in delayed \ M : con'[u].until <= e.ready_at
      BY <1>0, <1>6, <1>11, <2>2, Zenon DEF SleepInv
    <3> QED BY <1>4, <3>1, Zenon DEF SleepInv
  <2> QED BY <2>1, <2>2, Zenon
<1>13. CountInv'
  <2>1. Live' \cap ready' = {}
    BY <1>4, Zenon
  <2>2. Looping' \subseteq Consumers /\ Owing' \subseteq Producers
    BY Zenon DEF Looping, Owing
  <2>3. Cardinality(Looping') \in Nat /\ Cardinality(Owing') \in Nat
    BY <2>2, FiniteThreads, NoMore, Zenon
  <2>4. Cardinality(Live' \cap ready') <= Cardinality(Looping') + Cardinality(Owing')
    <3>1. Cardinality(Live' \cap ready') = 0
      BY <1>2, <2>1, Zenon
    <3> QED BY <2>3, <3>1
  <2> QED BY <2>4, Zenon DEF CountInv
<1>14. ClosedInv'
  BY <1>0, <1>1, <1>6, <1>10, <1>11, Zenon DEF ClosedInv
<1> QED BY <1>4, <1>9, <1>12, <1>13, <1>14, Zenon DEF WakeInv

LEMMA BodyWakes ==
  ASSUME WakeInv, NEW c \in Consumers, Body(c)
  PROVE  WakeInv'
<1>n. Never \in 0 .. Never /\ BatchSize \in Nat
  BY QueueAssumption DEF Never
<1>i. Idle \in Consumer /\ Idle.pc \notin {"wait", "loop"}
  BY <1>n, AtFields, Zenon DEF Idle
<1>1. CASE pop_take(c)
  <2> DEFINE next == IF c \in Claimers /\ BatchSize > 1 THEN At("more", Never) ELSE Idle
  <2>1. next \in Consumer /\ next.pc \notin {"wait", "loop"}
    BY <1>n, <1>i, AtFields, Zenon
  <2>2. PICK e : TakeUpTo(Promoted, 1, {e})
    BY <1>1, Zenon DEF pop_take
  <2>3. /\ con' = [con EXCEPT ![c] = next] /\ UNCHANGED <<next_seq, closed, now, notify>>
        /\ con[c].pc # "wait"
    BY <1>1, Zenon DEF pop_take
  <2>4. 1 \in Nat /\ {e} # {}
    BY Zenon
  <2> HIDE DEF next
  <2> QED BY <2>1, <2>2, <2>3, <2>4, TakenWakes, Zenon
<1>2. CASE \E d \in Deadlines(c) : pop_wait(c, d)
  BY <1>2, WaitWakes, Zenon
<1>3. CASE pop_more(c)
  <2>1. PICK T : TakeUpTo(Promoted, BatchSize - 1, T)
    BY <1>3, Zenon DEF pop_more
  <2>2. /\ con' = [con EXCEPT ![c] = Idle] /\ UNCHANGED <<next_seq, closed, now, notify>>
        /\ con[c].pc = "more" /\ con[c].pc # "wait" /\ con[c].pc # "loop"
    BY <1>3, Zenon DEF pop_more
  <2> QED BY <1>i, <1>n, <2>1, <2>2, TakenWakes, Zenon
<1> QED BY <1>1, <1>2, <1>3, Zenon DEF Body

LEMMA WakeStep == ASSUME WakeInv, [Next]_vars PROVE WakeInv'
<1>1. ASSUME NEW p \in Producers,
             \/ \E id \in Ids, priority \in Priorities, t \in Times : push(p, id, priority, t)
             \/ \E id \in Ids : remove(p, id)
             \/ close(p)
             \/ notify_step(p)
      PROVE  WakeInv'
  BY <1>1, PushWakes, RemoveWakes, CloseWakes, NotifyWakes, Zenon
<1>2. ASSUME NEW c \in Consumers, Body(c) \/ wake_up(c) PROVE WakeInv'
  BY <1>2, BodyWakes, WakeUpWakes, Zenon
<1>3. CASE UNCHANGED vars
  <2>1. /\ con' = con /\ notify' = notify /\ closed' = closed /\ now' = now /\ next_seq' = next_seq
        /\ returned' = returned /\ UNCHANGED heaps
    BY <1>3, Zenon DEF vars
  <2>2. HeapInv /\ CallTypes
    BY Zenon DEF WakeInv
  <2>3. HeapInv' /\ Live' = Live /\ ready' = ready /\ delayed' = delayed /\ index' = index
    BY <2>1, <2>2, SameHeaps, Zenon DEF heaps
  <2>4. CallTypes'
    BY <2>1, <2>2, <2>3, Zenon DEF CallTypes
  <2>5. (AllOwed => AllOwed') /\ Owing' = Owing
    BY <2>1, Zenon DEF AllOwed, Owing
  <2>6. delayed' \subseteq delayed /\ Live' \cap ready' \subseteq Live \cap ready
    BY <2>3, Zenon
  <2> QED BY <2>1, <2>3, <2>4, <2>5, <2>6, StillWakes, Zenon
<1> QED BY <1>1, <1>2, <1>3, TickWakes, Zenon DEF Next

LEMMA WakeInit == ASSUME Init PROVE WakeInv
<1>1. HeapInv
  BY QueueInit, Zenon
<1>2. /\ next_seq = 1 /\ now = 0 /\ closed = FALSE /\ returned = {} /\ delayed = {}
      /\ notify = [p \in Producers |-> "none"] /\ con = [c \in Consumers |-> Idle]
      /\ ready = {} /\ index = [i \in {} |-> 0]
  BY Zenon DEF Init
<1>3. MaxPushes \in Nat /\ MaxTime \in Nat /\ Never \in 0 .. Never
  BY QueueAssumption DEF Never
<1>4. Idle \in Consumer /\ Idle.pc = "idle"
  BY <1>3, AtFields, Zenon DEF Idle
<1>5. CallTypes
  <2>1. index = [i \in DOMAIN index |-> index[i]]
    BY <1>2, Zenon
  <2>2. next_seq \in 1 .. MaxPushes + 1 /\ now \in Times
    BY <1>2, <1>3 DEF Times
  <2>3. notify \in [Producers -> {"none", "one", "all"}] /\ con \in [Consumers -> Consumer]
    BY <1>2, <1>4, Zenon
  <2>4. closed \in BOOLEAN /\ returned \in SUBSET Entry
    BY <1>2, Zenon
  <2> QED BY <2>1, <2>2, <2>3, <2>4, Zenon DEF CallTypes
<1>6. Waiting = {}
  BY <1>2, <1>4, Zenon DEF Waiting
<1> QED BY <1>1, <1>2, <1>5, <1>6, Zenon DEF WakeInv, SleepInv, CountInv, ClosedInv

\* WakeInv is what NoOversleep needs.
LEMMA WakeImplies == ASSUME WakeInv PROVE NoOversleep
<1>0. HeapInv /\ CallTypes /\ SleepInv /\ CountInv /\ ClosedInv
  BY Zenon DEF WakeInv
<1>1. TypeOK
  BY <1>0, HeapTypes, Zenon
<1>2. ASSUME Q!Matured # {}, Waiting # {}, ~ \E p \in Producers : notify[p] # "none"
      PROVE  \E c \in Consumers : con[c].pc = "loop" \/ (c \in Waiting /\ con[c].until <= now)
  <2>1. PICK e \in Live : e.ready_at <= now
    BY <1>2, Zenon DEF Q!Matured
  <2>2. PICK w \in Waiting : w \in Consumers
    BY <1>2, Zenon DEF Waiting
  <2>3. ~ AllOwed /\ Owing = {}
    BY <1>2, Zenon DEF AllOwed, Owing
  <2>4. e \in Entry /\ (e \in ready \/ e \in delayed)
    BY <1>0, LiveFacts, Zenon
  <2>5. CASE e \in delayed
    <3>1. con[w].until <= e.ready_at
      BY <1>0, <2>2, <2>3, <2>5, Zenon DEF SleepInv
    <3>2. con[w].until \in Nat /\ e.ready_at \in Nat /\ now \in Nat
      BY <1>0, <2>2, <2>4, UntilType, EntryType, Zenon DEF HeapInv
    <3>3. con[w].until <= now
      BY <2>1, <3>1, <3>2
    <3> QED BY <2>2, <3>3, Zenon
  <2>6. CASE e \in ready
    <3>1. CASE \A c \in Waiting : con[c].until <= now
      BY <2>2, <3>1, Zenon
    <3>2. CASE Cardinality(Live \cap ready) <= Cardinality(Looping) + Cardinality(Owing)
      <4>1. Live \cap ready # {}
        BY <2>6, Zenon
      <4>2. /\ Cardinality(Live \cap ready) \in Nat /\ Cardinality(Live \cap ready) # 0
            /\ Cardinality(Owing) = 0 /\ Cardinality(Looping) \in Nat
        BY <1>0, <2>3, <4>1, Sizes, FS_EmptySet, Zenon
      <4>3. Cardinality(Looping) # 0
        BY <3>2, <4>2
      <4>4. Looping # {}
        BY <4>3, FS_EmptySet, Zenon
      <4> QED BY <4>4, Zenon DEF Looping
    <3> QED BY <1>0, <2>3, <3>1, <3>2, Zenon DEF CountInv
  <2> QED BY <2>4, <2>5, <2>6, Zenon
<1>3. closed /\ Waiting # {} => \E p \in Producers : notify[p] = "all"
  BY <1>0, Zenon DEF ClosedInv, AllOwed
<1> QED BY <1>1, <1>2, <1>3, Zenon DEF NoOversleep

-----------------------------------------------------------------------------
(* Theorem *)

\* No wake-up is missed: with any number of producers and consumers, a consumer that waits while
\* an entry is due is about to be woken, or another one is about to look, or its wait is over.
\* One notify_one for each ready push, and a notify_all for a delayed push that becomes the
\* earliest, are enough; and close() reaches every waiter.
THEOREM NoWakeupIsMissed == Spec => []NoOversleep
<1>1. Init => WakeInv
  BY WakeInit, Zenon
<1>2. WakeInv /\ [Next]_vars => WakeInv'
  BY WakeStep, Zenon
<1>3. WakeInv => NoOversleep
  BY WakeImplies, Zenon
<1> QED BY <1>1, <1>2, <1>3, PTL DEF Spec
=============================================================================
