-------------------------- MODULE HttpServerProofs --------------------------
(* The connection pool of the HTTP server, for every number of connections and threads.      *)
EXTENDS HttpServer, FiniteSetTheorems, TLAPS

ThreadPcs == {"none", "loop", "test", "checked", "blocked", "woken", "parse", "read", "handle",
              "error", "write", "exit"}

(* A thread inside next_connection, which idle_threads_ counts, and one with a connection. *)
IdlePcs == {"test", "checked", "blocked", "woken"}
ServingPcs == {"parse", "read", "handle", "error", "write"}

IsThread(x) ==
  x = [pc |-> x.pc, conn |-> x.conn, parser |-> x.parser, pending_input |-> x.pending_input,
       keep_alive |-> x.keep_alive]

IsConn(x) ==
  x = [state |-> x.state, input |-> x.input, script |-> x.script, handled |-> x.handled]

ThreadOk(t, x, w) ==
  /\ IsThread(x)
  /\ x.pc \in ThreadPcs
  /\ (x.pc = "none") <=> (t \notin w)
  /\ x.conn \in Connections \cup {NoConnection}
  /\ x.conn # NoConnection <=> x.pc \in ServingPcs

ThreadInv ==
  /\ th = [t \in Pool |-> th[t]]
  /\ \A t \in Pool : ThreadOk(t, th[t], workers)

ConnInv ==
  /\ conn = [c \in Connections |-> conn[c]]
  /\ \A c \in Connections : IsConn(conn[c]) /\ conn[c].state \in {"none", "open", "closed"}

PoolTypes ==
  /\ pending \in Seq(Connections)
  /\ workers \in SUBSET Pool
  /\ stopping \in BOOLEAN
  /\ acceptor \in {"poll", "accepting", "notify", "starved?", "grow", "exit"}
  /\ stopper \in {"running", "notify", "join acceptor", "notify again", "join", "stopped"}

Idle == {t \in Pool : th[t].pc \in IdlePcs}

IdleInv == idle_threads = Cardinality(Idle)

(* A connection is open while it is queued or served, and then in one place. *)
Queued(c) == \E i \in DOMAIN pending : pending[i] = c
Served(c) == \E t \in Pool : th[t].conn = c

QueueOnce == \A i, j \in DOMAIN pending : pending[i] = pending[j] => i = j
ServedOnce == \A s, t \in Pool : th[s].conn = th[t].conn /\ th[s].conn # NoConnection => s = t

OwnInv ==
  /\ QueueOnce
  /\ ServedOnce
  /\ \A c \in Connections : ~ (Queued(c) /\ Served(c))
  /\ \A c \in Connections : conn[c].state = "open" <=> Queued(c) \/ Served(c)

(* stop(): when the threads are taken the acceptor is gone and no thread is between its test *)
(* and its wait; after the second notify_all none waits.                                     *)
StopInv ==
  /\ stopping <=> stopper # "running"
  /\ acceptor = "exit" => stopping
  /\ stopper \in {"notify again", "join", "stopped"} =>
       acceptor = "exit" /\ \A t \in Pool : th[t].pc # "checked"
  /\ stopper \in {"join", "stopped"} => \A t \in Pool : th[t].pc # "blocked"

ServerInv == PoolTypes /\ ThreadInv /\ ConnInv /\ IdleInv /\ OwnInv /\ StopInv

-----------------------------------------------------------------------------
(* Sequences and records *)

LEMMA ThreadPc ==
  ASSUME NEW x, IsThread(x), NEW v
  PROVE  /\ IsThread([x EXCEPT !.pc = v])
         /\ [x EXCEPT !.pc = v].pc = v /\ [x EXCEPT !.pc = v].conn = x.conn
BY DEF IsThread

LEMMA ThreadParser ==
  ASSUME NEW x, IsThread(x), NEW v
  PROVE  /\ IsThread([x EXCEPT !.parser = v])
         /\ [x EXCEPT !.parser = v].pc = x.pc /\ [x EXCEPT !.parser = v].conn = x.conn
BY DEF IsThread

LEMMA ThreadInput ==
  ASSUME NEW x, IsThread(x), NEW v
  PROVE  /\ IsThread([x EXCEPT !.pending_input = v])
         /\ [x EXCEPT !.pending_input = v].pc = x.pc /\ [x EXCEPT !.pending_input = v].conn = x.conn
BY DEF IsThread

LEMMA ThreadKeepAlive ==
  ASSUME NEW x, IsThread(x), NEW v
  PROVE  /\ IsThread([x EXCEPT !.keep_alive = v])
         /\ [x EXCEPT !.keep_alive = v].pc = x.pc /\ [x EXCEPT !.keep_alive = v].conn = x.conn
BY DEF IsThread

LEMMA ThreadConn ==
  ASSUME NEW x, IsThread(x), NEW v
  PROVE  /\ IsThread([x EXCEPT !.conn = v])
         /\ [x EXCEPT !.conn = v].pc = x.pc /\ [x EXCEPT !.conn = v].conn = v
BY DEF IsThread

LEMMA FreshThread ==
  /\ IsThread(Fresh) /\ Fresh.pc = "none" /\ Fresh.conn = NoConnection
  /\ \A p : LET y == [Fresh EXCEPT !.pc = p]
            IN  IsThread(y) /\ y.pc = p /\ y.conn = NoConnection
<1>1. IsThread(Fresh) /\ Fresh.pc = "none" /\ Fresh.conn = NoConnection
  BY DEF IsThread, Fresh
<1>2. ASSUME NEW p
      PROVE  LET y == [Fresh EXCEPT !.pc = p]
             IN  IsThread(y) /\ y.pc = p /\ y.conn = NoConnection
  BY <1>1, ThreadPc, Zenon
<1> QED BY <1>1, <1>2, Zenon

LEMMA ConnUpdates ==
  ASSUME NEW x, IsConn(x), NEW v
  PROVE  /\ IsConn([x EXCEPT !.state = v]) /\ [x EXCEPT !.state = v].state = v
         /\ IsConn([x EXCEPT !.input = v]) /\ [x EXCEPT !.input = v].state = x.state
         /\ IsConn([x EXCEPT !.handled = v]) /\ [x EXCEPT !.handled = v].state = x.state
BY DEF IsConn

LEMMA PoppedBack ==
  ASSUME NEW S, NEW s \in Seq(S), s # <<>>
  PROVE  /\ Len(s) \in DOMAIN s /\ back(s) = s[Len(s)] /\ back(s) \in S
         /\ pop_back(s) \in Seq(S)
         /\ DOMAIN pop_back(s) = DOMAIN s \ {Len(s)}
         /\ \A i \in DOMAIN pop_back(s) : pop_back(s)[i] = s[i]
<1>1. Len(s) \in Nat \ {0} /\ DOMAIN s = 1 .. Len(s) /\ \A i \in 1 .. Len(s) : s[i] \in S
  BY SMTT(30)
<1>2. Len(s) \in DOMAIN s /\ back(s) = s[Len(s)] /\ back(s) \in S
  BY <1>1 DEF back
<1>3. /\ pop_back(s) \in Seq(S)
      /\ Len(pop_back(s)) = Len(s) - 1
      /\ \A i \in 1 .. Len(s) - 1 : pop_back(s)[i] = s[i]
  <2> DEFINE n == Len(s) - 1
  <2>1. n \in Nat /\ n \in Int /\ 1 \in Int /\ \A i \in 1 .. n : s[i] \in S
    BY <1>1
  <2>2. pop_back(s) = SubSeq(s, 1, n)
    BY Zenon DEF pop_back
  <2> HIDE DEF n
  <2>3. /\ pop_back(s) \in Seq(S)
        /\ Len(pop_back(s)) = IF 1 <= n THEN n - 1 + 1 ELSE 0
        /\ \A i \in 1 .. n - 1 + 1 : pop_back(s)[i] = s[1 + i - 1]
    BY <2>1, <2>2, SMTT(30)
  <2>4. Len(pop_back(s)) = n /\ \A i \in 1 .. n : pop_back(s)[i] = s[i]
    BY <2>1, <2>3, SMTT(30)
  <2> QED BY <2>3, <2>4, Zenon DEF n
<1>4. DOMAIN pop_back(s) = 1 .. Len(s) - 1
  BY <1>3, SMTT(30)
<1>5. 1 .. Len(s) - 1 = (1 .. Len(s)) \ {Len(s)}
  BY <1>1
<1> QED BY <1>1, <1>2, <1>3, <1>4, <1>5, Zenon

LEMMA Appended ==
  ASSUME NEW S, NEW s \in Seq(S), NEW c \in S
  PROVE  /\ Append(s, c) \in Seq(S)
         /\ DOMAIN Append(s, c) = DOMAIN s \cup {Len(s) + 1}
         /\ Append(s, c)[Len(s) + 1] = c
         /\ \A i \in DOMAIN s : Append(s, c)[i] = s[i] /\ i # Len(s) + 1
BY SMTT(30)

-----------------------------------------------------------------------------
(* What a step of the threads keeps *)

(* A thread moves from x to y, and keeps its connection. *)
Moved(x, y) ==
  /\ IsThread(y) /\ y.pc \in ThreadPcs
  /\ y.conn = x.conn
  /\ y.pc \in ServingPcs <=> x.pc \in ServingPcs
  /\ y.pc = "none" <=> x.pc = "none"

(* It begins to wait only before stop(). *)
Wakeful(x, y) ==
  /\ y.pc = "checked" => x.pc = "checked" \/ ~ stopping
  /\ y.pc = "blocked" => x.pc = "checked" \/ x.pc = "blocked"

LEMMA StaysPut ==
  ASSUME ThreadInv
  PROVE  \A t \in Pool : Moved(th[t], th[t]) /\ Wakeful(th[t], th[t])
BY Zenon DEF ThreadInv, ThreadOk, Moved, Wakeful

LEMMA ThreadStep ==
  ASSUME ThreadInv, NEW t \in Pool, NEW y, th' = [th EXCEPT ![t] = y]
  PROVE  /\ th' = [u \in Pool |-> th'[u]]
         /\ th'[t] = y
         /\ \A u \in Pool : u # t => th'[u] = th[u]
<1>1. th = [u \in Pool |-> th[u]]
  BY Zenon DEF ThreadInv
<1>2. th' = [u \in Pool |-> IF u = t THEN y ELSE th[u]]
  BY <1>1
<1> QED BY <1>2, Zenon

LEMMA MovedStep ==
  ASSUME ThreadInv, NEW t \in Pool, NEW y, th' = [th EXCEPT ![t] = y],
         Moved(th[t], y), Wakeful(th[t], y)
  PROVE  /\ th' = [u \in Pool |-> th'[u]]
         /\ \A u \in Pool : Moved(th[u], th'[u]) /\ Wakeful(th[u], th'[u])
         /\ th'[t] = y
         /\ \A u \in Pool : u # t => th'[u] = th[u]
BY ThreadStep, StaysPut, Zenon

LEMMA ThreadsKept ==
  ASSUME ThreadInv, workers' = workers, th' = [u \in Pool |-> th'[u]],
         \A u \in Pool : Moved(th[u], th'[u])
  PROVE  ThreadInv'
<1>1. ASSUME NEW u \in Pool
      PROVE  ThreadOk(u, th'[u], workers)
  <2>1. th'[u].pc = "none" <=> th[u].pc = "none"
    BY Zenon DEF Moved
  <2>2. th[u].pc = "none" <=> u \notin workers
    BY Zenon DEF ThreadInv, ThreadOk
  <2>3. th'[u].conn = th[u].conn /\ (th'[u].pc \in ServingPcs <=> th[u].pc \in ServingPcs)
    BY Zenon DEF Moved
  <2>4. /\ th[u].conn \in Connections \cup {NoConnection}
        /\ th[u].conn # NoConnection <=> th[u].pc \in ServingPcs
    BY Zenon DEF ThreadInv, ThreadOk
  <2>5. IsThread(th'[u]) /\ th'[u].pc \in ThreadPcs
    BY Zenon DEF Moved
  <2> QED BY <2>1, <2>2, <2>3, <2>4, <2>5, Zenon DEF ThreadOk
<1> QED BY <1>1, Zenon DEF ThreadInv

LEMMA ConnsKept ==
  ASSUME ConnInv, NEW c \in Connections, NEW y, conn' = [conn EXCEPT ![c] = y],
         IsConn(y), y.state \in {"none", "open", "closed"}
  PROVE  /\ ConnInv'
         /\ conn'[c] = y
         /\ \A d \in Connections : d # c => conn'[d] = conn[d]
<1>1. conn = [d \in Connections |-> conn[d]]
  BY Zenon DEF ConnInv
<1>2. conn' = [d \in Connections |-> IF d = c THEN y ELSE conn[d]]
  BY <1>1
<1>3. /\ conn' = [d \in Connections |-> conn'[d]]
      /\ conn'[c] = y
      /\ \A d \in Connections : d # c => conn'[d] = conn[d]
  BY <1>2, Zenon
<1> QED BY <1>3, Zenon DEF ConnInv

LEMMA OwnKept ==
  ASSUME OwnInv, pending' = pending,
         \A u \in Pool : th'[u].conn = th[u].conn,
         \A c \in Connections : conn'[c].state = conn[c].state
  PROVE  OwnInv'
<1>1. \A c : (Queued(c)' <=> Queued(c)) /\ (Served(c)' <=> Served(c))
  BY Zenon DEF Queued, Served
<1>2. QueueOnce' /\ ServedOnce'
  BY Zenon DEF OwnInv, QueueOnce, ServedOnce
<1>3. \A c \in Connections : conn'[c].state = "open" <=> conn[c].state = "open"
  BY Zenon
<1> QED BY <1>1, <1>2, <1>3, Zenon DEF OwnInv

LEMMA StopKept ==
  ASSUME StopInv, \A u \in Pool : Wakeful(th[u], th'[u]),
         stopping' = stopping, stopper' = stopper,
         acceptor' = acceptor \/ (acceptor # "exit" /\ (acceptor' = "exit" => stopping))
  PROVE  StopInv'
<1>1. stopping' <=> stopper' # "running"
  BY Zenon DEF StopInv
<1>2. acceptor' = "exit" => stopping'
  BY Zenon DEF StopInv
<1>3. ASSUME stopper' \in {"notify again", "join", "stopped"}
      PROVE  acceptor' = "exit" /\ \A t \in Pool : th'[t].pc # "checked"
  <2>1. stopper \in {"notify again", "join", "stopped"} /\ stopper # "running"
    BY <1>3, Zenon
  <2>2. stopping /\ acceptor = "exit" /\ \A t \in Pool : th[t].pc # "checked"
    BY <2>1, Zenon DEF StopInv
  <2> QED BY <2>2, Zenon DEF Wakeful
<1>4. ASSUME stopper' \in {"join", "stopped"}
      PROVE  \A t \in Pool : th'[t].pc # "blocked"
  <2>1. stopper \in {"join", "stopped"} /\ stopper \in {"notify again", "join", "stopped"}
    BY <1>4, Zenon
  <2>2. \A t \in Pool : th[t].pc # "checked" /\ th[t].pc # "blocked"
    BY <2>1, Zenon DEF StopInv
  <2> QED BY <2>2, Zenon DEF Wakeful
<1> QED BY <1>1, <1>2, <1>3, <1>4, Zenon DEF StopInv

LEMMA IdleFinite ==
  /\ IsFiniteSet(Idle)
  /\ \A S : S \subseteq Pool => IsFiniteSet(S)
<1>1. \A S : S \subseteq Pool => IsFiniteSet(S)
  BY ServerAssumption, FS_Subset, Zenon
<1>2. Idle \subseteq Pool
  BY Zenon DEF Idle
<1> QED BY <1>1, <1>2, Zenon

LEMMA IdleSame ==
  ASSUME IdleInv, idle_threads' = idle_threads,
         \A u \in Pool : th'[u].pc \in IdlePcs <=> th[u].pc \in IdlePcs
  PROVE  IdleInv'
<1>1. Idle' = Idle
  BY Zenon DEF Idle
<1> QED BY <1>1, Zenon DEF IdleInv

LEMMA IdleIn ==
  ASSUME IdleInv, NEW t \in Pool, idle_threads' = idle_threads + 1,
         th[t].pc \notin IdlePcs, th'[t].pc \in IdlePcs,
         \A u \in Pool : u # t => th'[u] = th[u]
  PROVE  IdleInv'
<1>1. Idle' = Idle \cup {t} /\ t \notin Idle
  BY Zenon DEF Idle
<1>2. Cardinality(Idle \cup {t}) = Cardinality(Idle) + 1
  BY <1>1, IdleFinite, FS_AddElement, Zenon
<1> QED BY <1>1, <1>2, Zenon DEF IdleInv

LEMMA IdleOut ==
  ASSUME IdleInv, NEW t \in Pool, idle_threads' = idle_threads - 1,
         th[t].pc \in IdlePcs, th'[t].pc \notin IdlePcs,
         \A u \in Pool : u # t => th'[u] = th[u]
  PROVE  IdleInv'
<1>1. Idle' = Idle \ {t} /\ t \in Idle
  BY Zenon DEF Idle
<1>2. Cardinality(Idle \ {t}) = Cardinality(Idle) - 1
  BY <1>1, IdleFinite, FS_RemoveElement, Zenon
<1> QED BY <1>1, <1>2, Zenon DEF IdleInv

-----------------------------------------------------------------------------
(* The actions *)

(* A thread moves; connections keep their states. *)
LEMMA MoveInv ==
  ASSUME ServerInv, NEW t \in Pool, NEW y, th' = [th EXCEPT ![t] = y],
         Moved(th[t], y), Wakeful(th[t], y),
         \/ idle_threads' = idle_threads /\ (y.pc \in IdlePcs <=> th[t].pc \in IdlePcs)
         \/ idle_threads' = idle_threads + 1 /\ th[t].pc \notin IdlePcs /\ y.pc \in IdlePcs
         \/ idle_threads' = idle_threads - 1 /\ th[t].pc \in IdlePcs /\ y.pc \notin IdlePcs,
         ConnInv', \A c \in Connections : conn'[c].state = conn[c].state,
         UNCHANGED <<pending, workers, stopping, acceptor, stopper>>
  PROVE  ServerInv'
<1>1. PoolTypes /\ ThreadInv /\ ConnInv /\ IdleInv /\ OwnInv /\ StopInv
  BY Zenon DEF ServerInv
<1>2. /\ th' = [u \in Pool |-> th'[u]]
      /\ \A u \in Pool : Moved(th[u], th'[u]) /\ Wakeful(th[u], th'[u])
      /\ th'[t] = y
      /\ \A u \in Pool : u # t => th'[u] = th[u]
  BY <1>1, MovedStep, Zenon
<1>3. PoolTypes'
  BY <1>1, Zenon DEF PoolTypes
<1>4. ThreadInv'
  BY <1>1, <1>2, ThreadsKept, Zenon
<1>5. IdleInv'
  <2>1. CASE idle_threads' = idle_threads /\ (y.pc \in IdlePcs <=> th[t].pc \in IdlePcs)
    <3>1. \A u \in Pool : th'[u].pc \in IdlePcs <=> th[u].pc \in IdlePcs
      BY <1>2, <2>1, Zenon
    <3> QED BY <1>1, <2>1, <3>1, IdleSame, Zenon
  <2>2. CASE idle_threads' = idle_threads + 1 /\ th[t].pc \notin IdlePcs /\ y.pc \in IdlePcs
    BY <1>1, <1>2, <2>2, IdleIn, Zenon
  <2>3. CASE idle_threads' = idle_threads - 1 /\ th[t].pc \in IdlePcs /\ y.pc \notin IdlePcs
    BY <1>1, <1>2, <2>3, IdleOut, Zenon
  <2> QED BY <2>1, <2>2, <2>3, Zenon
<1>6. OwnInv'
  <2>1. \A u \in Pool : th'[u].conn = th[u].conn
    BY <1>2, Zenon DEF Moved
  <2> QED BY <1>1, <2>1, OwnKept, Zenon
<1>7. StopInv'
  BY <1>1, <1>2, StopKept, Zenon
<1> QED BY <1>3, <1>4, <1>5, <1>6, <1>7, Zenon DEF ServerInv

(* Threads that wait in next_connection wake up. *)
LEMMA WokenStep ==
  ASSUME ServerInv, NEW S, S \subseteq Blocked, th' = Woken(S),
         UNCHANGED <<pool, conn>>
  PROVE  /\ ThreadInv' /\ ConnInv' /\ IdleInv' /\ OwnInv'
         /\ \A u \in Pool : Wakeful(th[u], th'[u])
         /\ \A u \in Pool : u \in S => th'[u].pc = "woken"
         /\ \A u \in Pool : u \notin S => th'[u] = th[u]
<1>1. ThreadInv /\ ConnInv /\ IdleInv /\ OwnInv
  BY Zenon DEF ServerInv
<1>2. th' = [t \in Pool |-> IF t \in S THEN [th[t] EXCEPT !.pc = "woken"] ELSE th[t]]
  BY Zenon DEF Woken
<1>3. th' = [t \in Pool |-> th'[t]]
  BY <1>2, Zenon
<1>4. ASSUME NEW u \in Pool, u \in S
      PROVE  /\ Moved(th[u], th'[u]) /\ Wakeful(th[u], th'[u])
             /\ th'[u].pc = "woken" /\ th[u].pc = "blocked"
  <2>1. th[u].pc = "blocked" /\ IsThread(th[u])
    BY <1>1, <1>4, Zenon DEF Blocked, ThreadInv, ThreadOk
  <2>2. th'[u] = [th[u] EXCEPT !.pc = "woken"]
    BY <1>2, <1>4, Zenon
  <2> DEFINE y == [th[u] EXCEPT !.pc = "woken"]
  <2>a. IsThread(y) /\ y.pc = "woken" /\ y.conn = th[u].conn
    BY <2>1, ThreadPc, ZenonT(60)
  <2> HIDE DEF y
  <2>3. IsThread(th'[u]) /\ th'[u].pc = "woken" /\ th'[u].conn = th[u].conn
    <3>1. th'[u] = y
      BY <2>2, Zenon DEF y
    <3> QED BY <2>a, <3>1, Zenon
  <2> QED BY <2>1, <2>3, Zenon DEF Moved, Wakeful, ThreadPcs, ServingPcs
<1>5. \A u \in Pool : u \notin S => th'[u] = th[u]
  BY <1>2, Zenon
<1>6. \A u \in Pool : Moved(th[u], th'[u]) /\ Wakeful(th[u], th'[u])
  BY <1>1, <1>4, <1>5, StaysPut, Zenon
<1>7. \A u \in Pool : th'[u].pc \in IdlePcs <=> th[u].pc \in IdlePcs
  BY <1>4, <1>5, Zenon DEF IdlePcs
<1>8. /\ pending' = pending /\ idle_threads' = idle_threads /\ workers' = workers
      /\ conn' = conn
  BY Zenon DEF pool
<1>9. ThreadInv' /\ IdleInv'
  BY <1>1, <1>3, <1>6, <1>7, <1>8, ThreadsKept, IdleSame, Zenon
<1>10. ConnInv'
  BY <1>1, <1>8, Zenon DEF ConnInv
<1>11. OwnInv'
  BY <1>1, <1>6, <1>8, OwnKept, Zenon DEF Moved
<1> QED BY <1>4, <1>5, <1>6, <1>9, <1>10, <1>11, Zenon

LEMMA NotifyOneInv ==
  ASSUME ServerInv, notify_one
  PROVE  ServerInv'
<1>1. PoolTypes /\ ThreadInv /\ ConnInv /\ IdleInv /\ OwnInv /\ StopInv
  BY Zenon DEF ServerInv
<1>2. /\ acceptor = "notify" /\ acceptor' = "starved?"
      /\ UNCHANGED <<pool, conn>> /\ stopping' = stopping /\ stopper' = stopper
  BY Zenon DEF notify_one
<1>3. PoolTypes'
  BY <1>1, <1>2, Zenon DEF PoolTypes, pool
<1>4. /\ ThreadInv' /\ ConnInv' /\ IdleInv' /\ OwnInv'
      /\ \A u \in Pool : Wakeful(th[u], th'[u])
  <2>1. CASE th' = th
    <3>1. th' = Woken({}) /\ {} \subseteq Blocked
      BY <1>1, <2>1, Zenon DEF Woken, ThreadInv
    <3> QED BY <1>2, <3>1, WokenStep, SMTT(30)
  <2>2. ASSUME NEW t \in Blocked, th' = Woken({t})
        PROVE  /\ ThreadInv' /\ ConnInv' /\ IdleInv' /\ OwnInv'
               /\ \A u \in Pool : Wakeful(th[u], th'[u])
    <3>1. {t} \subseteq Blocked
      BY <2>2, Zenon
    <3> QED BY <1>2, <2>2, <3>1, WokenStep, SMTT(30)
  <2> QED BY <2>1, <2>2, Zenon DEF notify_one
<1>5. StopInv'
  BY <1>1, <1>2, <1>4, StopKept, Zenon
<1> QED BY <1>3, <1>4, <1>5, Zenon DEF ServerInv

(* Nothing changes but the acceptor and stop(). *)
LEMMA OutsideStep ==
  ASSUME ServerInv, UNCHANGED <<pool, th, conn>>
  PROVE  ThreadInv' /\ ConnInv' /\ IdleInv' /\ OwnInv'
<1>1. /\ ThreadInv /\ ConnInv /\ IdleInv /\ OwnInv
  BY Zenon DEF ServerInv
<1>2. /\ pending' = pending /\ idle_threads' = idle_threads /\ workers' = workers
      /\ th' = th /\ conn' = conn
  BY Zenon DEF pool
<1>3. ThreadInv' /\ ConnInv'
  BY <1>1, <1>2, Zenon DEF ThreadInv, ConnInv
<1>4. IdleInv'
  BY <1>1, <1>2, IdleSame, Zenon
<1>5. OwnInv'
  BY <1>1, <1>2, OwnKept, Zenon
<1> QED BY <1>3, <1>4, <1>5, Zenon

LEMMA AcceptorInv ==
  ASSUME ServerInv, accept_loop \/ read_idle
  PROVE  ServerInv'
<1>1. PoolTypes /\ ThreadInv /\ StopInv
  BY Zenon DEF ServerInv
<1>2. UNCHANGED <<pool, th, conn>> /\ stopping' = stopping /\ stopper' = stopper
  BY Zenon DEF accept_loop, read_idle
<1>3. /\ acceptor' \in {"poll", "accepting", "grow", "exit"}
      /\ acceptor # "exit"
      /\ acceptor' = "exit" => stopping
  <2>1. CASE accept_loop
    <3>1. CASE acceptor = "accepting"
      BY <2>1, <3>1, SMTT(30) DEF accept_loop
    <3>2. CASE acceptor = "poll" /\ stopping
      BY <2>1, <3>2, SMTT(30) DEF accept_loop
    <3>3. CASE acceptor = "poll" /\ ~ stopping
      BY <2>1, <3>3, SMTT(30) DEF accept_loop
    <3> QED BY <2>1, <3>1, <3>2, <3>3, Zenon DEF accept_loop
  <2>2. CASE read_idle
    <3>1. acceptor' = "poll" \/ acceptor' = "grow"
      BY <2>2, Zenon DEF read_idle
    <3> QED BY <2>2, <3>1, Zenon DEF read_idle
  <2> QED BY <2>1, <2>2, Zenon
<1>4. PoolTypes'
  BY <1>1, <1>2, <1>3, Zenon DEF PoolTypes, pool
<1>5. StopInv'
  <2>1. \A u \in Pool : Wakeful(th[u], th'[u])
    BY <1>1, <1>2, StaysPut, Zenon
  <2> QED BY <1>1, <1>2, <1>3, <2>1, StopKept, Zenon
<1> QED BY <1>2, <1>4, <1>5, OutsideStep, Zenon DEF ServerInv

LEMMA BeginInv ==
  ASSUME ServerInv, NEW t \in Pool,
         next_connection(t) \/ block(t) \/ wake_up(t) \/ parse_error(t)
  PROVE  ServerInv'
<1>1. /\ ThreadInv /\ ConnInv /\ IsThread(th[t])
  BY Zenon DEF ServerInv, ThreadInv, ThreadOk
<1>2. ASSUME NEW p \in ThreadPcs, th' = [th EXCEPT ![t] = [th[t] EXCEPT !.pc = p]],
             p \in ServingPcs <=> th[t].pc \in ServingPcs, p # "none", th[t].pc # "none",
             p # "checked", p = "blocked" => th[t].pc = "checked",
             \/ idle_threads' = idle_threads /\ (p \in IdlePcs <=> th[t].pc \in IdlePcs)
             \/ idle_threads' = idle_threads + 1 /\ th[t].pc \notin IdlePcs /\ p \in IdlePcs,
             conn' = conn, UNCHANGED <<pending, workers, stopping, acceptor, stopper>>
      PROVE  ServerInv'
  <2> DEFINE y == [th[t] EXCEPT !.pc = p]
  <2>1. IsThread(y) /\ y.pc = p /\ y.conn = th[t].conn
    BY <1>1, ThreadPc, ZenonT(60)
  <2> HIDE DEF y
  <2>2. Moved(th[t], y) /\ Wakeful(th[t], y)
    BY <1>2, <2>1, Zenon DEF Moved, Wakeful
  <2>3. ConnInv' /\ \A c \in Connections : conn'[c].state = conn[c].state
    BY <1>1, <1>2, ZenonT(60) DEF ConnInv
  <2>4. th' = [th EXCEPT ![t] = y]
    BY <1>2, Zenon DEF y
  <2> QED BY <1>2, <2>1, <2>2, <2>3, <2>4, MoveInv, Zenon
<1>3. CASE next_connection(t)
  <2>1. /\ th' = [th EXCEPT ![t] = [th[t] EXCEPT !.pc = "test"]] /\ th[t].pc = "loop"
        /\ idle_threads' = idle_threads + 1 /\ conn' = conn
        /\ UNCHANGED <<pending, workers, stopping, acceptor, stopper>>
    BY <1>3, Zenon DEF next_connection
  <2> QED BY <1>2, <2>1, Zenon DEF ThreadPcs, ServingPcs, IdlePcs
<1>4. CASE block(t)
  <2>1. /\ th' = [th EXCEPT ![t] = [th[t] EXCEPT !.pc = "blocked"]] /\ th[t].pc = "checked"
        /\ idle_threads' = idle_threads /\ conn' = conn
        /\ UNCHANGED <<pending, workers, stopping, acceptor, stopper>>
    BY <1>4, Zenon DEF block, pool
  <2> QED BY <1>2, <2>1, Zenon DEF ThreadPcs, ServingPcs, IdlePcs
<1>5. CASE wake_up(t)
  <2>1. /\ th' = [th EXCEPT ![t] = [th[t] EXCEPT !.pc = "test"]]
        /\ th[t].pc = "woken" \/ th[t].pc = "blocked"
        /\ idle_threads' = idle_threads /\ conn' = conn
        /\ UNCHANGED <<pending, workers, stopping, acceptor, stopper>>
    BY <1>5, Zenon DEF wake_up, pool
  <2> QED BY <1>2, <2>1, Zenon DEF ThreadPcs, ServingPcs, IdlePcs
<1>6. CASE parse_error(t)
  <2> DEFINE x == [th[t] EXCEPT !.pc = "write"]
             y == [x EXCEPT !.keep_alive = FALSE]
  <2>1. /\ th' = [th EXCEPT ![t] = y]
        /\ th[t].pc = "error"
        /\ idle_threads' = idle_threads /\ conn' = conn
        /\ UNCHANGED <<pending, workers, stopping, acceptor, stopper>>
    BY <1>6, Zenon DEF parse_error, pool
  <2>a. IsThread(x) /\ x.pc = "write" /\ x.conn = th[t].conn
    BY <1>1, ThreadPc, Zenon
  <2> HIDE DEF x
  <2>2. IsThread(y) /\ y.pc = "write" /\ y.conn = th[t].conn
    BY <2>a, ThreadKeepAlive, Zenon
  <2> HIDE DEF y
  <2>3. Moved(th[t], y) /\ Wakeful(th[t], y) /\ (y.pc \in IdlePcs <=> th[t].pc \in IdlePcs)
    BY <2>1, <2>2, Zenon DEF Moved, Wakeful, ThreadPcs, ServingPcs, IdlePcs
  <2>4. ConnInv' /\ \A c \in Connections : conn'[c].state = conn[c].state
    BY <1>1, <2>1, Zenon DEF ConnInv
  <2> QED BY <2>1, <2>3, <2>4, MoveInv, Zenon
<1> QED BY <1>3, <1>4, <1>5, <1>6, Zenon

(* A step of a thread with its connection, which stays open. *)
LEMMA ServeStep ==
  ASSUME ServerInv, NEW t \in Pool, NEW y, th' = [th EXCEPT ![t] = y],
         IsThread(y), y.conn = th[t].conn, th[t].pc \in ServingPcs, y.pc \in ServingPcs,
         conn' = conn \/ \E v : \/ conn' = [conn EXCEPT ![th[t].conn].input = v]
                                \/ conn' = [conn EXCEPT ![th[t].conn].handled = v],
         UNCHANGED <<pool, stopping, acceptor, stopper>>
  PROVE  ServerInv'
<1>1. /\ ThreadInv /\ ConnInv
      /\ idle_threads' = idle_threads
      /\ UNCHANGED <<pending, workers, stopping, acceptor, stopper>>
  BY Zenon DEF ServerInv, pool
<1>2. /\ y.pc \in ThreadPcs /\ y.pc # "none" /\ y.pc # "checked" /\ y.pc # "blocked"
      /\ th[t].pc # "none"
      /\ y.pc \notin IdlePcs /\ th[t].pc \notin IdlePcs
  BY Zenon DEF ServingPcs, ThreadPcs, IdlePcs
<1>3. Moved(th[t], y) /\ Wakeful(th[t], y)
  BY <1>2, Zenon DEF Moved, Wakeful
<1>4. PICK c : c = th[t].conn
  BY Zenon
<1>5. c \in Connections
  BY <1>1, <1>4, Zenon DEF ThreadInv, ThreadOk
<1>6. ConnInv' /\ \A d \in Connections : conn'[d].state = conn[d].state
  <2>1. CASE conn' = conn
    BY <1>1, <2>1, Zenon DEF ConnInv
  <2>2. ASSUME NEW x, IsConn(x), x.state = conn[c].state, conn' = [conn EXCEPT ![c] = x]
        PROVE  ConnInv' /\ \A d \in Connections : conn'[d].state = conn[d].state
    <3>1. x.state \in {"none", "open", "closed"}
      BY <1>1, <1>5, <2>2, ZenonT(60) DEF ConnInv
    <3>2. /\ ConnInv'
          /\ conn'[c] = x
          /\ \A d \in Connections : d # c => conn'[d] = conn[d]
      BY <1>1, <1>5, <2>2, <3>1, ConnsKept, Zenon
    <3> QED BY <2>2, <3>2, Zenon
  <2>3. IsConn(conn[c])
    BY <1>1, <1>5, Zenon DEF ConnInv
  <2>4. ASSUME NEW v, conn' = [conn EXCEPT ![c].input = v]
        PROVE  ConnInv' /\ \A d \in Connections : conn'[d].state = conn[d].state
    <3> DEFINE x == [conn[c] EXCEPT !.input = v]
    <3>1. conn' = [conn EXCEPT ![c] = x]
      BY <2>4, Zenon
    <3>2. IsConn(x) /\ x.state = conn[c].state
      BY <2>3, ConnUpdates, Zenon
    <3> HIDE DEF x
    <3> QED BY <2>2, <3>1, <3>2, Zenon
  <2>5. ASSUME NEW v, conn' = [conn EXCEPT ![c].handled = v]
        PROVE  ConnInv' /\ \A d \in Connections : conn'[d].state = conn[d].state
    <3> DEFINE x == [conn[c] EXCEPT !.handled = v]
    <3>1. conn' = [conn EXCEPT ![c] = x]
      BY <2>5, Zenon
    <3>2. IsConn(x) /\ x.state = conn[c].state
      BY <2>3, ConnUpdates, Zenon
    <3> HIDE DEF x
    <3> QED BY <2>2, <3>1, <3>2, Zenon
  <2> QED BY <1>4, <2>1, <2>4, <2>5, Zenon
<1> QED BY <1>1, <1>2, <1>3, <1>6, MoveInv, Zenon

LEMMA Fed == \A p : AfterFeed(p) \in ServingPcs
BY Zenon DEF AfterFeed, ServingPcs

LEMMA ParseInv ==
  ASSUME ServerInv, NEW t \in Pool, parse(t)
  PROVE  ServerInv'
<1>1. IsThread(th[t])
  BY Zenon DEF ServerInv, ThreadInv, ThreadOk
<1>2. PICK p : th' = [th EXCEPT ![t].parser = p, ![t].pending_input = <<>>,
                                ![t].pc = AfterFeed(p)]
  BY Zenon DEF parse
<1> DEFINE x == [th[t] EXCEPT !.parser = p]
           z == [x EXCEPT !.pending_input = <<>>]
           y == [z EXCEPT !.pc = AfterFeed(p)]
<1>4. th' = [th EXCEPT ![t] = y]
  BY <1>2, Zenon
<1>a. IsThread(x) /\ x.conn = th[t].conn
  BY <1>1, ThreadParser, Zenon
<1> HIDE DEF x
<1>b. IsThread(z) /\ z.conn = th[t].conn
  BY <1>a, ThreadInput, Zenon
<1> HIDE DEF z
<1>5. IsThread(y) /\ y.pc = AfterFeed(p) /\ y.conn = th[t].conn
  BY <1>b, ThreadPc, Zenon
<1> HIDE DEF y
<1>6. y.pc \in ServingPcs
  BY <1>5, Fed, Zenon
<1>7. /\ th[t].pc \in ServingPcs /\ conn' = conn
      /\ UNCHANGED <<pool, stopping, acceptor, stopper>>
  BY Zenon DEF parse, ServingPcs
<1> QED BY <1>4, <1>5, <1>6, <1>7, ServeStep, Zenon

LEMMA RecvInv ==
  ASSUME ServerInv, NEW t \in Pool, NEW n, recv(t, n)
  PROVE  ServerInv'
<1>1. IsThread(th[t])
  BY Zenon DEF ServerInv, ThreadInv, ThreadOk
<1>2. PICK p : th' = [th EXCEPT ![t].parser = p, ![t].pc = AfterFeed(p)]
  BY Zenon DEF recv
<1> DEFINE x == [th[t] EXCEPT !.parser = p]
           y == [x EXCEPT !.pc = AfterFeed(p)]
<1>4. th' = [th EXCEPT ![t] = y]
  BY <1>2, Zenon
<1>a. IsThread(x) /\ x.conn = th[t].conn
  BY <1>1, ThreadParser, Zenon
<1> HIDE DEF x
<1>5. IsThread(y) /\ y.pc = AfterFeed(p) /\ y.conn = th[t].conn
  BY <1>a, ThreadPc, Zenon
<1> HIDE DEF y
<1>6. y.pc \in ServingPcs
  BY <1>5, Fed, Zenon
<1>7. /\ th[t].pc \in ServingPcs
      /\ UNCHANGED <<pool, stopping, acceptor, stopper>>
  BY Zenon DEF recv, ServingPcs
<1>8. \E v : conn' = [conn EXCEPT ![th[t].conn].input = v]
  BY Zenon DEF recv
<1> QED BY <1>4, <1>5, <1>6, <1>7, <1>8, ServeStep, Zenon

LEMMA HandleInv ==
  ASSUME ServerInv, NEW t \in Pool, handle(t)
  PROVE  ServerInv'
<1>1. IsThread(th[t])
  BY Zenon DEF ServerInv, ThreadInv, ThreadOk
<1>2. PICK i, k : th' = [th EXCEPT ![t].pc = "write", ![t].pending_input = i,
                                   ![t].parser = reset, ![t].keep_alive = k]
  BY Zenon DEF handle
<1> DEFINE x == [th[t] EXCEPT !.pc = "write"]
           z == [x EXCEPT !.pending_input = i]
           w == [z EXCEPT !.parser = reset]
           y == [w EXCEPT !.keep_alive = k]
<1>4. th' = [th EXCEPT ![t] = y]
  BY <1>2, Zenon
<1>a. IsThread(x) /\ x.pc = "write" /\ x.conn = th[t].conn
  BY <1>1, ThreadPc, Zenon
<1> HIDE DEF x
<1>b. IsThread(z) /\ z.pc = "write" /\ z.conn = th[t].conn
  BY <1>a, ThreadInput, Zenon
<1> HIDE DEF z
<1>c. IsThread(w) /\ w.pc = "write" /\ w.conn = th[t].conn
  BY <1>b, ThreadParser, Zenon
<1> HIDE DEF w
<1>5. IsThread(y) /\ y.pc = "write" /\ y.conn = th[t].conn
  BY <1>c, ThreadKeepAlive, Zenon
<1> HIDE DEF y
<1>6. /\ th[t].pc \in ServingPcs /\ y.pc \in ServingPcs
      /\ UNCHANGED <<pool, stopping, acceptor, stopper>>
  BY <1>5, Zenon DEF handle, ServingPcs
<1>7. \E v : conn' = [conn EXCEPT ![th[t].conn].handled = v]
  BY Zenon DEF handle
<1> QED BY <1>4, <1>5, <1>6, <1>7, ServeStep, Zenon

(* A thread closes its connection and goes back to next_connection. *)
LEMMA CloseInv ==
  ASSUME ServerInv, NEW t \in Pool, th[t].pc \in ServingPcs, Close(t),
         UNCHANGED <<pool, stopping, acceptor, stopper>>
  PROVE  ServerInv'
<1>1. PoolTypes /\ ThreadInv /\ ConnInv /\ IdleInv /\ OwnInv /\ StopInv
  BY Zenon DEF ServerInv
<1>2. /\ pending' = pending /\ idle_threads' = idle_threads /\ workers' = workers
      /\ stopping' = stopping /\ acceptor' = acceptor /\ stopper' = stopper
  BY Zenon DEF pool
<1>3. PICK c : c = th[t].conn
  BY Zenon
<1> DEFINE y == [Fresh EXCEPT !.pc = "loop"]
           x == [conn[c] EXCEPT !.state = "closed"]
<1>4. th' = [th EXCEPT ![t] = y] /\ conn' = [conn EXCEPT ![c] = x]
  BY <1>3, Zenon DEF Close
<1>5. c \in Connections /\ c # NoConnection /\ t \in workers
  BY <1>1, <1>3, Zenon DEF ThreadInv, ThreadOk, ServingPcs
<1>6. IsThread(y) /\ y.pc = "loop" /\ y.conn = NoConnection
  BY FreshThread, Zenon
<1> HIDE DEF y
<1>7. IsConn(x) /\ x.state = "closed"
  <2>1. IsConn(conn[c])
    BY <1>1, <1>5, Zenon DEF ConnInv
  <2> QED BY <2>1, ConnUpdates, ZenonT(60)
<1> HIDE DEF x
<1>8. /\ th' = [u \in Pool |-> th'[u]]
      /\ th'[t] = y
      /\ \A u \in Pool : u # t => th'[u] = th[u]
  BY <1>1, <1>4, ThreadStep, Zenon
<1>9. /\ ConnInv' /\ conn'[c].state = "closed"
      /\ \A d \in Connections : d # c => conn'[d].state = conn[d].state
  BY <1>1, <1>4, <1>5, <1>7, ConnsKept, Zenon
<1>10. PoolTypes'
  BY <1>1, <1>2, Zenon DEF PoolTypes
<1>11. ThreadInv'
  <2>1. /\ y.pc \in ThreadPcs /\ y.pc # "none" /\ y.pc \notin ServingPcs
    BY <1>6, Zenon DEF ThreadPcs, ServingPcs
  <2>2. ThreadOk(t, y, workers)
    BY <1>5, <1>6, <2>1, Zenon DEF ThreadOk
  <2>3. \A u \in Pool : ThreadOk(u, th'[u], workers)
    BY <1>1, <1>8, <2>2, Zenon DEF ThreadInv
  <2> QED BY <1>2, <1>8, <2>3, Zenon DEF ThreadInv
<1>12. IdleInv'
  <2>1. y.pc \notin IdlePcs /\ th[t].pc \notin IdlePcs
    BY <1>6, Zenon DEF IdlePcs, ServingPcs
  <2>2. \A u \in Pool : th'[u].pc \in IdlePcs <=> th[u].pc \in IdlePcs
    BY <1>8, <2>1, Zenon
  <2> QED BY <1>1, <1>2, <2>2, IdleSame, Zenon
<1>13. OwnInv'
  <2>1. \A d : Queued(d)' <=> Queued(d)
    BY <1>2, Zenon DEF Queued
  <2>2. ~ Queued(c) /\ Served(c)
    BY <1>1, <1>3, <1>5, Zenon DEF OwnInv, Served
  <2>3. \A u \in Pool : u # t => th[u].conn # c
    BY <1>1, <1>3, <1>5, ZenonT(60) DEF OwnInv, ServedOnce
  <2>4. ~ Served(c)'
    BY <1>5, <1>6, <1>8, <2>3, Zenon DEF Served
  <2>5. \A d \in Connections : d # c => (Served(d)' <=> Served(d))
    <3>1. \A d \in Connections : d # NoConnection
      BY ServerAssumption, Zenon
    <3> QED BY <1>3, <1>6, <1>8, <3>1, Zenon DEF Served
  <2>6. QueueOnce' /\ ServedOnce'
    <3>1. QueueOnce'
      BY <1>1, <1>2, ZenonT(60) DEF OwnInv, QueueOnce
    <3>2. ASSUME NEW u \in Pool, NEW v \in Pool, th'[u].conn = th'[v].conn,
                 th'[u].conn # NoConnection
          PROVE  u = v
      <4>1. u # t /\ v # t
        BY <1>6, <1>8, <3>2, Zenon
      <4> QED BY <1>1, <1>8, <3>2, <4>1, ZenonT(60) DEF OwnInv, ServedOnce
    <3> QED BY <3>1, <3>2, Zenon DEF ServedOnce
  <2>7. ASSUME NEW d \in Connections
        PROVE  /\ ~ (Queued(d)' /\ Served(d)')
               /\ conn'[d].state = "open" <=> Queued(d)' \/ Served(d)'
    <3>1. CASE d = c
      BY <1>9, <2>1, <2>2, <2>4, <3>1, Zenon
    <3>2. CASE d # c
      BY <1>1, <1>9, <2>1, <2>5, <3>2, Zenon DEF OwnInv
    <3> QED BY <3>1, <3>2, Zenon
  <2> QED BY <2>6, <2>7, ZenonT(60) DEF OwnInv
<1>14. StopInv'
  <2>1. Wakeful(th[t], y)
    BY <1>6, Zenon DEF Wakeful
  <2>2. \A u \in Pool : Wakeful(th[u], th'[u])
    BY <1>1, <1>8, <2>1, StaysPut, Zenon
  <2> QED BY <1>1, <1>2, <2>2, StopKept, Zenon
<1> QED BY <1>9, <1>10, <1>11, <1>12, <1>13, <1>14, Zenon DEF ServerInv

LEMMA WriteInv ==
  ASSUME ServerInv, NEW t \in Pool, transport_error(t) \/ \E ok \in BOOLEAN : write(t, ok)
  PROVE  ServerInv'
<1>1. IsThread(th[t])
  BY Zenon DEF ServerInv, ThreadInv, ThreadOk
<1>2. /\ th[t].pc \in ServingPcs
      /\ UNCHANGED <<pool, stopping, acceptor, stopper>>
  BY Zenon DEF transport_error, write, ServingPcs
<1>3. CASE Close(t)
  BY <1>2, <1>3, CloseInv, Zenon
<1>4. CASE /\ th' = [th EXCEPT ![t].pc = "parse", ![t].keep_alive = FALSE]
           /\ UNCHANGED conn
  <2> DEFINE x == [th[t] EXCEPT !.pc = "parse"]
             y == [x EXCEPT !.keep_alive = FALSE]
  <2>1. th' = [th EXCEPT ![t] = y] /\ conn' = conn
    BY <1>4, Zenon
  <2>2. IsThread(x) /\ x.pc = "parse" /\ x.conn = th[t].conn
    BY <1>1, ThreadPc, Zenon
  <2> HIDE DEF x
  <2>3. IsThread(y) /\ y.pc = "parse" /\ y.conn = th[t].conn
    BY <2>2, ThreadKeepAlive, Zenon
  <2> HIDE DEF y
  <2>4. y.pc \in ServingPcs
    BY <2>3, Zenon DEF ServingPcs
  <2> QED BY <1>2, <2>1, <2>3, <2>4, ServeStep, Zenon
<1> QED BY <1>3, <1>4, Zenon DEF transport_error, write

(* A thread takes the connection queued last. *)
LEMMA TakeInv ==
  ASSUME ServerInv, NEW t \in Pool, th[t].pc = "test", pending # <<>>,
         idle_threads' = idle_threads - 1,
         th' = [th EXCEPT ![t] = [Fresh EXCEPT !.pc = "parse", !.conn = back(pending)]],
         pending' = pop_back(pending),
         UNCHANGED <<workers, stopping, acceptor, stopper, conn>>
  PROVE  ServerInv'
<1>1. PoolTypes /\ ThreadInv /\ ConnInv /\ IdleInv /\ OwnInv /\ StopInv
  BY Zenon DEF ServerInv
<1>2. PICK c : c = back(pending)
  BY Zenon
<1>3. PICK n : n = Len(pending)
  BY Zenon
<1>4. /\ n \in DOMAIN pending /\ c = pending[n] /\ c \in Connections
      /\ pending' \in Seq(Connections)
      /\ DOMAIN pending' = DOMAIN pending \ {n}
      /\ \A i \in DOMAIN pending' : pending'[i] = pending[i]
  BY <1>1, <1>2, <1>3, PoppedBack, ZenonT(60) DEF PoolTypes
<1> DEFINE x == [Fresh EXCEPT !.pc = "parse"]
           y == [x EXCEPT !.conn = c]
<1>6. th' = [th EXCEPT ![t] = y]
  BY <1>2, Zenon
<1>a. IsThread(x) /\ x.pc = "parse"
  BY FreshThread, Zenon
<1> HIDE DEF x
<1>5. IsThread(y) /\ y.pc = "parse" /\ y.conn = c
  BY <1>a, ThreadConn, Zenon
<1> HIDE DEF y
<1>7. /\ th' = [u \in Pool |-> th'[u]]
      /\ th'[t] = y
      /\ \A u \in Pool : u # t => th'[u] = th[u]
  BY <1>1, <1>6, ThreadStep, Zenon
<1>8. c # NoConnection /\ th[t].conn = NoConnection /\ t \in workers
  <2>1. th[t].pc \notin ServingPcs /\ th[t].pc # "none"
    BY Zenon DEF ServingPcs
  <2>2. ThreadOk(t, th[t], workers)
    BY <1>1, Zenon DEF ThreadInv
  <2> QED BY <1>4, <2>1, <2>2, ServerAssumption, Zenon DEF ThreadOk
<1>9. PoolTypes'
  BY <1>1, <1>4, Zenon DEF PoolTypes
<1>10. ThreadInv'
  <2>1. y.pc \in ThreadPcs /\ y.pc # "none" /\ y.pc \in ServingPcs
    BY <1>5, Zenon DEF ThreadPcs, ServingPcs
  <2>2. ThreadOk(t, y, workers)
    BY <1>4, <1>5, <1>8, <2>1, Zenon DEF ThreadOk
  <2>3. \A u \in Pool : ThreadOk(u, th'[u], workers)
    BY <1>1, <1>7, <2>2, ZenonT(60) DEF ThreadInv
  <2> QED BY <1>7, <2>3, Zenon DEF ThreadInv
<1>11. ConnInv'
  BY <1>1, Zenon DEF ConnInv
<1>12. IdleInv'
  <2>1. th[t].pc \in IdlePcs /\ th'[t].pc \notin IdlePcs
    BY <1>5, <1>7, Zenon DEF IdlePcs
  <2> QED BY <1>1, <1>7, <2>1, IdleOut, ZenonT(60)
<1>13. OwnInv'
  <2>1. QueueOnce
    BY <1>1, Zenon DEF OwnInv
  <2>2. Queued(c) /\ ~ Served(c)
    BY <1>1, <1>4, Zenon DEF OwnInv, Queued
  <2>3. ~ Queued(c)'
    BY <1>4, <2>1, ZenonT(60) DEF Queued, QueueOnce
  <2>4. Served(c)'
    BY <1>5, <1>7, Zenon DEF Served
  <2>5. ASSUME NEW d \in Connections, d # c
        PROVE  (Queued(d)' <=> Queued(d)) /\ (Served(d)' <=> Served(d))
    <3>1. d # NoConnection
      BY ServerAssumption, Zenon
    <3>2. Queued(d)' <=> Queued(d)
      BY <1>4, <2>5, Zenon DEF Queued
    <3>3. Served(d)' <=> Served(d)
      BY <1>5, <1>7, <1>8, <2>5, <3>1, Zenon DEF Served
    <3> QED BY <3>2, <3>3, Zenon
  <2>6. QueueOnce'
    BY <1>4, <2>1, Zenon DEF QueueOnce
  <2>7. ServedOnce'
    <3>1. \A u \in Pool : th[u].conn # c
      BY <2>2, Zenon DEF Served
    <3>2. ASSUME NEW u \in Pool, NEW v \in Pool, th'[u].conn = th'[v].conn,
                 th'[u].conn # NoConnection
          PROVE  u = v
      <4>1. CASE u # t /\ v # t
        BY <1>1, <1>7, <3>2, <4>1, Zenon DEF OwnInv, ServedOnce
      <4>2. CASE u = t /\ v # t
        <5>1. th'[u].conn = c /\ th'[v].conn = th[v].conn
          BY <1>5, <1>7, <4>2, Zenon
        <5> QED BY <3>1, <3>2, <5>1, Zenon
      <4>3. CASE u # t /\ v = t
        <5>1. th'[v].conn = c /\ th'[u].conn = th[u].conn
          BY <1>5, <1>7, <4>3, Zenon
        <5> QED BY <3>1, <3>2, <5>1, Zenon
      <4> QED BY <4>1, <4>2, <4>3, Zenon
    <3> QED BY <3>2, Zenon DEF ServedOnce
  <2>8. ASSUME NEW d \in Connections
        PROVE  /\ ~ (Queued(d)' /\ Served(d)')
               /\ conn'[d].state = "open" <=> Queued(d)' \/ Served(d)'
    <3>1. CASE d = c
      BY <1>1, <2>2, <2>3, <2>4, <3>1, Zenon DEF OwnInv
    <3>2. CASE d # c
      BY <1>1, <2>5, <3>2, Zenon DEF OwnInv
    <3> QED BY <3>1, <3>2, Zenon
  <2> QED BY <2>6, <2>7, <2>8, ZenonT(60) DEF OwnInv
<1>14. StopInv'
  <2>1. Wakeful(th[t], y)
    BY <1>5, Zenon DEF Wakeful
  <2>2. \A u \in Pool : Wakeful(th[u], th'[u])
    BY <1>1, <1>7, <2>1, StaysPut, Zenon
  <2> QED BY <1>1, <2>2, StopKept, Zenon
<1> QED BY <1>9, <1>10, <1>11, <1>12, <1>13, <1>14, Zenon DEF ServerInv

LEMMA TestInv ==
  ASSUME ServerInv, NEW t \in Pool, test(t)
  PROVE  ServerInv'
<1>1. /\ ThreadInv /\ ConnInv /\ ThreadOk(t, th[t], workers)
  BY Zenon DEF ServerInv, ThreadInv
<1>2. /\ th[t].pc = "test" /\ UNCHANGED <<workers, stopping, acceptor, stopper, conn>>
  BY Zenon DEF test
<1>3. ConnInv' /\ \A c \in Connections : conn'[c].state = conn[c].state
  BY <1>1, <1>2, Zenon DEF ConnInv
<1>4. th[t].conn = NoConnection /\ IsThread(th[t])
  BY <1>1, <1>2, Zenon DEF ThreadOk, ServingPcs
<1>5. CASE pending # <<>>
  <2>1. /\ idle_threads' = idle_threads - 1
        /\ th' = [th EXCEPT ![t] = [Fresh EXCEPT !.pc = "parse", !.conn = back(pending)]]
        /\ pending' = pop_back(pending)
    BY <1>5, Zenon DEF test, left_idle
  <2> QED BY <1>2, <1>5, <2>1, TakeInv, Zenon
<1>6. CASE pending = <<>> /\ stopping
  <2> DEFINE y == [Fresh EXCEPT !.pc = "exit"]
  <2>1. /\ idle_threads' = idle_threads - 1
        /\ th' = [th EXCEPT ![t] = y]
        /\ pending' = pending
    BY <1>6, Zenon DEF test, left_idle
  <2>2. IsThread(y) /\ y.pc = "exit" /\ y.conn = NoConnection
    BY FreshThread, Zenon
  <2> HIDE DEF y
  <2>3. /\ Moved(th[t], y) /\ Wakeful(th[t], y)
        /\ th[t].pc \in IdlePcs /\ y.pc \notin IdlePcs
    BY <1>2, <1>4, <2>2, Zenon DEF Moved, Wakeful, ThreadPcs, ServingPcs, IdlePcs
  <2> QED BY <1>2, <1>3, <2>1, <2>3, MoveInv, Zenon
<1>7. CASE pending = <<>> /\ ~ stopping
  <2> DEFINE y == [th[t] EXCEPT !.pc = "checked"]
  <2>1. /\ idle_threads' = idle_threads
        /\ th' = [th EXCEPT ![t] = y]
        /\ pending' = pending
    BY <1>7, Zenon DEF test
  <2>2. IsThread(y) /\ y.pc = "checked" /\ y.conn = th[t].conn
    BY <1>4, ThreadPc, ZenonT(60)
  <2> HIDE DEF y
  <2>3. /\ Moved(th[t], y) /\ Wakeful(th[t], y)
        /\ th[t].pc \in IdlePcs /\ y.pc \in IdlePcs
    BY <1>2, <1>7, <2>2, Zenon DEF Moved, Wakeful, ThreadPcs, ServingPcs, IdlePcs
  <2> QED BY <1>2, <1>3, <2>1, <2>3, MoveInv, Zenon
<1> QED BY <1>5, <1>6, <1>7, Zenon

(* The acceptor queues a new connection. *)
LEMMA AcceptInv ==
  ASSUME ServerInv, NEW c \in Connections, NEW s, accept(c, s)
  PROVE  ServerInv'
<1>1. PoolTypes /\ ThreadInv /\ ConnInv /\ IdleInv /\ OwnInv /\ StopInv
  BY Zenon DEF ServerInv
<1> DEFINE y == [state |-> "open", input |-> Stream(s), script |-> s, handled |-> <<>>]
<1>2. /\ acceptor = "accepting" /\ acceptor' = "notify"
      /\ conn[c].state = "none" /\ conn' = [conn EXCEPT ![c] = y]
      /\ pending' = Append(pending, c)
      /\ UNCHANGED <<idle_threads, workers, stopping, th, stopper>>
  BY Zenon DEF accept
<1>3. IsConn(y) /\ y.state = "open"
  BY DEF IsConn
<1> HIDE DEF y
<1>4. PICK n : n = Len(pending) + 1
  BY Zenon
<1>5. /\ pending' \in Seq(Connections)
      /\ DOMAIN pending' = DOMAIN pending \cup {n}
      /\ pending'[n] = c
      /\ \A i \in DOMAIN pending : pending'[i] = pending[i] /\ i # n
  <2>1. pending \in Seq(Connections)
    BY <1>1, Zenon DEF PoolTypes
  <2>2. /\ Append(pending, c) \in Seq(Connections)
        /\ DOMAIN Append(pending, c) = DOMAIN pending \cup {Len(pending) + 1}
        /\ Append(pending, c)[Len(pending) + 1] = c
        /\ \A i \in DOMAIN pending :
             Append(pending, c)[i] = pending[i] /\ i # Len(pending) + 1
    BY <2>1, Appended, Zenon
  <2> QED BY <1>2, <1>4, <2>2, ZenonT(60)
<1>6. /\ ConnInv' /\ conn'[c].state = "open"
      /\ \A d \in Connections : d # c => conn'[d].state = conn[d].state
  BY <1>1, <1>2, <1>3, ConnsKept, Zenon
<1>7. PoolTypes'
  BY <1>1, <1>2, <1>5, ZenonT(60) DEF PoolTypes
<1>8. ThreadInv'
  BY <1>1, <1>2, Zenon DEF ThreadInv
<1>9. IdleInv'
  BY <1>1, <1>2, IdleSame, Zenon
<1>10. OwnInv'
  <2>1. ~ Queued(c) /\ ~ Served(c)
    <3>1. conn[c].state # "open"
      BY <1>2, Zenon
    <3> QED BY <1>1, <3>1, Zenon DEF OwnInv
  <2>2. \A d : Served(d)' <=> Served(d)
    BY <1>2, Zenon DEF Served
  <2>3. Queued(c)'
    BY <1>5, Zenon DEF Queued
  <2>4. ASSUME NEW d, d # c
        PROVE  Queued(d)' <=> Queued(d)
    BY <1>5, <2>4, Zenon DEF Queued
  <2>5. QueueOnce'
    <3>1. \A i \in DOMAIN pending : pending[i] # c
      BY <2>1, Zenon DEF Queued
    <3>2. ASSUME NEW i \in DOMAIN pending', NEW j \in DOMAIN pending', pending'[i] = pending'[j]
          PROVE  i = j
      <4>1. CASE i \in DOMAIN pending /\ j \in DOMAIN pending
        BY <1>1, <1>5, <3>2, <4>1, Zenon DEF OwnInv, QueueOnce
      <4>2. CASE i \in DOMAIN pending /\ j = n
        BY <1>5, <3>1, <3>2, <4>2, Zenon
      <4>3. CASE i = n /\ j \in DOMAIN pending
        BY <1>5, <3>1, <3>2, <4>3, Zenon
      <4> QED BY <1>5, <4>1, <4>2, <4>3, Zenon
    <3> QED BY <3>2, Zenon DEF QueueOnce
  <2>6. ServedOnce'
    BY <1>1, <1>2, Zenon DEF OwnInv, ServedOnce
  <2>7. ASSUME NEW d \in Connections
        PROVE  /\ ~ (Queued(d)' /\ Served(d)')
               /\ conn'[d].state = "open" <=> Queued(d)' \/ Served(d)'
    <3>1. CASE d = c
      BY <1>6, <2>1, <2>2, <2>3, <3>1, Zenon
    <3>2. CASE d # c
      BY <1>1, <1>6, <2>2, <2>4, <3>2, Zenon DEF OwnInv
    <3> QED BY <3>1, <3>2, Zenon
  <2> QED BY <2>5, <2>6, <2>7, Zenon DEF OwnInv
<1>11. StopInv'
  <2>1. \A u \in Pool : Wakeful(th[u], th'[u])
    BY <1>1, <1>2, StaysPut, Zenon
  <2> QED BY <1>1, <1>2, <2>1, StopKept, Zenon
<1> QED BY <1>6, <1>7, <1>8, <1>9, <1>10, <1>11, Zenon DEF ServerInv

(* The acceptor adds a thread to the pool, or not. *)
LEMMA GrowInv ==
  ASSUME ServerInv, grow_pool
  PROVE  ServerInv'
<1>1. PoolTypes /\ ThreadInv /\ ConnInv /\ IdleInv /\ OwnInv /\ StopInv
  BY Zenon DEF ServerInv
<1>2. /\ acceptor = "grow" /\ acceptor' = "poll"
      /\ UNCHANGED <<pending, idle_threads, stopping, stopper, conn>>
  BY Zenon DEF grow_pool
<1>3. CASE UNCHANGED <<workers, th>>
  <2>1. UNCHANGED <<pool, th, conn>>
    BY <1>2, <1>3, Zenon DEF pool
  <2>2. PoolTypes'
    BY <1>1, <1>2, <1>3, Zenon DEF PoolTypes
  <2>3. \A u \in Pool : Wakeful(th[u], th'[u])
    BY <1>1, <1>3, StaysPut, Zenon
  <2>4. StopInv'
    BY <1>1, <1>2, <2>3, StopKept, Zenon
  <2> QED BY <2>1, <2>2, <2>4, OutsideStep, Zenon DEF ServerInv
<1>4. ASSUME NEW t \in Pool \ workers, workers' = workers \cup {t},
             th' = [th EXCEPT ![t].pc = "loop"]
      PROVE  ServerInv'
  <2> DEFINE y == [th[t] EXCEPT !.pc = "loop"]
  <2>1. t \in Pool /\ th' = [th EXCEPT ![t] = y]
    BY <1>4, Zenon
  <2>2. ThreadOk(t, th[t], workers)
    BY <1>1, <2>1, Zenon DEF ThreadInv
  <2>3. IsThread(th[t]) /\ th[t].pc = "none" /\ th[t].conn = NoConnection
    BY <1>4, <2>2, Zenon DEF ThreadOk, ServingPcs
  <2>4. IsThread(y) /\ y.pc = "loop" /\ y.conn = NoConnection
    BY <2>3, ThreadPc, Zenon
  <2> HIDE DEF y
  <2>5. /\ th' = [u \in Pool |-> th'[u]]
        /\ th'[t] = y
        /\ \A u \in Pool : u # t => th'[u] = th[u]
    BY <1>1, <2>1, ThreadStep, Zenon
  <2>6. PoolTypes'
    BY <1>1, <1>2, <1>4, <2>1, Zenon DEF PoolTypes
  <2>7. ThreadInv'
    <3>1. y.pc \in ThreadPcs /\ y.pc # "none" /\ y.pc \notin ServingPcs
      BY <2>4, Zenon DEF ThreadPcs, ServingPcs
    <3>2. ThreadOk(t, th'[t], workers')
      BY <1>4, <2>4, <2>5, <3>1, Zenon DEF ThreadOk
    <3>3. ASSUME NEW u \in Pool, u # t
          PROVE  ThreadOk(u, th'[u], workers')
      <4>1. ThreadOk(u, th[u], workers) /\ th'[u] = th[u]
        BY <1>1, <2>5, <3>3, Zenon DEF ThreadInv
      <4>2. u \notin workers' <=> u \notin workers
        BY <1>4, <3>3, Zenon
      <4> QED BY <4>1, <4>2, ZenonT(60) DEF ThreadOk
    <3>4. \A u \in Pool : ThreadOk(u, th'[u], workers')
      BY <3>2, <3>3, Zenon
    <3> QED BY <2>5, <3>4, Zenon DEF ThreadInv
  <2>8. ConnInv'
    BY <1>1, <1>2, Zenon DEF ConnInv
  <2>9. IdleInv'
    <3>1. th[t].pc \notin IdlePcs /\ y.pc \notin IdlePcs
      BY <2>3, <2>4, Zenon DEF IdlePcs
    <3>2. \A u \in Pool : th'[u].pc \in IdlePcs <=> th[u].pc \in IdlePcs
      BY <2>5, <3>1, Zenon
    <3> QED BY <1>1, <1>2, <3>2, IdleSame, Zenon
  <2>10. OwnInv'
    <3>1. \A u \in Pool : th'[u].conn = th[u].conn
      BY <2>3, <2>4, <2>5, Zenon
    <3> QED BY <1>1, <1>2, <3>1, OwnKept, Zenon
  <2>11. StopInv'
    <3>1. Wakeful(th[t], y)
      BY <2>4, Zenon DEF Wakeful
    <3>2. \A u \in Pool : Wakeful(th[u], th'[u])
      BY <1>1, <2>5, <3>1, StaysPut, Zenon
    <3> QED BY <1>1, <1>2, <3>2, StopKept, Zenon
  <2> QED BY <2>6, <2>7, <2>8, <2>9, <2>10, <2>11, Zenon DEF ServerInv
<1> QED BY <1>3, <1>4, Zenon DEF grow_pool

(* stop() sets stopping_; it wakes the threads; it takes them once the acceptor is gone. *)
LEMMA StopBeginInv ==
  ASSUME ServerInv, stop
  PROVE  ServerInv'
<1>1. PoolTypes /\ StopInv
  BY Zenon DEF ServerInv
<1>2. /\ stopping' = TRUE /\ stopper' = "notify" /\ acceptor' = acceptor
      /\ UNCHANGED <<pool, th, conn>>
  BY Zenon DEF stop
<1>3. PoolTypes'
  BY <1>1, <1>2, Zenon DEF PoolTypes, pool
<1>4. stopper' # "running" /\ stopper' \notin {"notify again", "join", "stopped"}
      /\ stopper' \notin {"join", "stopped"}
  BY <1>2, Zenon
<1>5. StopInv'
  BY <1>2, <1>4, Zenon DEF StopInv
<1>6. ThreadInv' /\ ConnInv' /\ IdleInv' /\ OwnInv'
  BY <1>2, OutsideStep, Zenon
<1> QED BY <1>3, <1>5, <1>6, Zenon DEF ServerInv

LEMMA StopNotifyInv ==
  ASSUME ServerInv, stop_notify
  PROVE  ServerInv'
<1>1. PoolTypes /\ StopInv
  BY Zenon DEF ServerInv
<1>2. /\ stopper = "notify" /\ stopper' = "join acceptor" /\ acceptor' = acceptor
      /\ stopping' = stopping /\ th' = Woken(Blocked) /\ UNCHANGED <<pool, conn>>
  BY Zenon DEF stop_notify
<1>3. PoolTypes'
  BY <1>1, <1>2, Zenon DEF PoolTypes, pool
<1>4. stopper # "running" /\ stopper' # "running"
      /\ stopper' \notin {"notify again", "join", "stopped"}
      /\ stopper' \notin {"join", "stopped"}
  BY <1>2, Zenon
<1>5. StopInv'
  BY <1>1, <1>2, <1>4, Zenon DEF StopInv
<1>6. Blocked \subseteq Blocked
  BY Zenon
<1>7. ThreadInv' /\ ConnInv' /\ IdleInv' /\ OwnInv'
  BY <1>2, <1>6, WokenStep, Zenon
<1> QED BY <1>3, <1>5, <1>7, Zenon DEF ServerInv

LEMMA StopSwapInv ==
  ASSUME ServerInv, stop_swap
  PROVE  ServerInv'
<1>1. PoolTypes /\ StopInv
  BY Zenon DEF ServerInv
<1>2. /\ stopper = "join acceptor" /\ stopper' = "notify again"
      /\ acceptor = "exit" /\ acceptor' = acceptor
      /\ stopping' = stopping /\ UNCHANGED <<pool, th, conn>>
  BY Zenon DEF stop_swap
<1>3. PoolTypes'
  BY <1>1, <1>2, Zenon DEF PoolTypes, pool
<1>4. stopper # "running" /\ stopper' # "running" /\ stopper' \notin {"join", "stopped"}
  BY <1>2, Zenon
<1>5. \A t \in Pool : th'[t].pc # "checked"
  BY <1>2, Zenon DEF stop_swap, mutex_free
<1>6. StopInv'
  BY <1>1, <1>2, <1>4, <1>5, Zenon DEF StopInv
<1>7. ThreadInv' /\ ConnInv' /\ IdleInv' /\ OwnInv'
  BY <1>2, OutsideStep, Zenon
<1> QED BY <1>3, <1>6, <1>7, Zenon DEF ServerInv

LEMMA StopNotifyAgainInv ==
  ASSUME ServerInv, stop_notify_again
  PROVE  ServerInv'
<1>1. PoolTypes /\ StopInv
  BY Zenon DEF ServerInv
<1>2. /\ stopper = "notify again" /\ stopper' = "join" /\ acceptor' = acceptor
      /\ stopping' = stopping /\ th' = Woken(Blocked) /\ UNCHANGED <<pool, conn>>
  BY Zenon DEF stop_notify_again, second_notify
<1>3. PoolTypes'
  BY <1>1, <1>2, Zenon DEF PoolTypes, pool
<1>4. Blocked \subseteq Blocked
  BY Zenon
<1>5. /\ ThreadInv' /\ ConnInv' /\ IdleInv' /\ OwnInv'
      /\ \A u \in Pool : u \in Blocked => th'[u].pc = "woken"
      /\ \A u \in Pool : u \notin Blocked => th'[u] = th[u]
  BY <1>2, <1>4, WokenStep, ZenonT(60)
<1>6. stopper # "running" /\ stopper' # "running"
      /\ stopper \in {"notify again", "join", "stopped"}
  BY <1>2, Zenon
<1>7. stopping /\ acceptor = "exit" /\ \A t \in Pool : th[t].pc # "checked"
  BY <1>1, <1>6, Zenon DEF StopInv
<1>8. ASSUME NEW t \in Pool
      PROVE  th'[t].pc # "checked" /\ th'[t].pc # "blocked"
  <2>1. CASE t \in Blocked
    <3>1. th'[t].pc = "woken"
      BY <1>5, <2>1, Zenon
    <3> QED BY <3>1, Zenon
  <2>2. CASE t \notin Blocked
    BY <1>5, <1>7, <2>2, Zenon DEF Blocked
  <2> QED BY <2>1, <2>2, Zenon
<1>9. StopInv'
  BY <1>2, <1>6, <1>7, <1>8, Zenon DEF StopInv
<1> QED BY <1>3, <1>5, <1>9, Zenon DEF ServerInv

(* Every thread has left: what is open is in the queue, and is closed with it. *)
LEMMA StopJoinInv ==
  ASSUME ServerInv, stop_join
  PROVE  ServerInv'
<1>1. PoolTypes /\ ThreadInv /\ ConnInv /\ IdleInv /\ OwnInv /\ StopInv
  BY Zenon DEF ServerInv
<1>2. /\ stopper = "join" /\ stopper' = "stopped" /\ pending' = <<>>
      /\ UNCHANGED <<idle_threads, workers, stopping, acceptor, th>>
      /\ \A t \in workers : th[t].pc = "exit"
  BY Zenon DEF stop_join
<1>3. conn' = [c \in Connections |-> IF c \in Range(pending)
                                       THEN [conn[c] EXCEPT !.state = "closed"] ELSE conn[c]]
  BY Zenon DEF stop_join, pending_closed
<1>4. \A c : c \in Range(pending) <=> Queued(c)
  BY Zenon DEF Range, Queued
<1>5. \A c \in Connections : ~ Served(c)
  <2>1. ASSUME NEW t \in Pool
        PROVE  th[t].conn = NoConnection
    <3>1. ThreadOk(t, th[t], workers)
      BY <1>1, Zenon DEF ThreadInv
    <3>2. th[t].pc = "exit" \/ th[t].pc = "none"
      BY <1>2, <3>1, Zenon DEF ThreadOk
    <3>3. th[t].pc \notin ServingPcs
      BY <3>2, Zenon DEF ServingPcs
    <3> QED BY <3>1, <3>3, Zenon DEF ThreadOk
  <2> QED BY <2>1, ServerAssumption, Zenon DEF Served
<1>6. ASSUME NEW c \in Connections
      PROVE  /\ IsConn(conn'[c]) /\ conn'[c].state \in {"none", "open", "closed"}
             /\ conn'[c].state # "open"
  <2>1. IsConn(conn[c]) /\ conn[c].state \in {"none", "open", "closed"}
    BY <1>1, Zenon DEF ConnInv
  <2>2. CASE Queued(c)
    <3> DEFINE y == [conn[c] EXCEPT !.state = "closed"]
    <3>1. conn'[c] = y
      BY <1>3, <1>4, <2>2, Zenon
    <3>2. IsConn(y) /\ y.state = "closed"
      BY <2>1, ConnUpdates, Zenon
    <3> HIDE DEF y
    <3>3. IsConn(conn'[c]) /\ conn'[c].state = "closed"
      BY <3>1, <3>2, Zenon
    <3> QED BY <3>3, Zenon
  <2>3. CASE ~ Queued(c)
    <3>1. conn'[c] = conn[c]
      BY <1>3, <1>4, <2>3, Zenon
    <3>2. conn[c].state # "open"
      BY <1>1, <1>5, <2>3, Zenon DEF OwnInv
    <3> QED BY <2>1, <3>1, <3>2, Zenon
  <2> QED BY <2>2, <2>3, Zenon
<1>7. ConnInv'
  <2>1. conn' = [c \in Connections |-> conn'[c]]
    BY <1>3, Zenon
  <2> QED BY <1>6, <2>1, Zenon DEF ConnInv
<1>8. pending' \in Seq(Connections) /\ DOMAIN pending' = {}
  BY <1>2
<1>9. PoolTypes'
  BY <1>1, <1>2, <1>8, Zenon DEF PoolTypes
<1>10. ThreadInv'
  BY <1>1, <1>2, Zenon DEF ThreadInv
<1>11. IdleInv'
  BY <1>1, <1>2, IdleSame, Zenon
<1>12. OwnInv'
  <2>1. \A c : ~ Queued(c)'
    BY <1>8, Zenon DEF Queued
  <2>2. \A c \in Connections : ~ Served(c)'
    BY <1>2, <1>5, Zenon DEF Served
  <2>3. QueueOnce'
    BY <1>8, Zenon DEF QueueOnce
  <2>4. ServedOnce'
    BY <1>1, <1>2, Zenon DEF OwnInv, ServedOnce
  <2> QED BY <1>6, <2>1, <2>2, <2>3, <2>4, Zenon DEF OwnInv
<1>13. StopInv'
  <2>1. /\ stopper # "running" /\ stopper' # "running"
        /\ stopper \in {"notify again", "join", "stopped"}
        /\ stopper \in {"join", "stopped"}
    BY <1>2, Zenon
  <2> QED BY <1>1, <1>2, <2>1, Zenon DEF StopInv
<1> QED BY <1>7, <1>9, <1>10, <1>11, <1>12, <1>13, Zenon DEF ServerInv

LEMMA StartInv ==
  Init => ServerInv
<1> SUFFICES ASSUME Init
             PROVE  ServerInv
  BY Zenon
<1>1. /\ pending = <<>> /\ idle_threads = 0 /\ stopping = FALSE
      /\ acceptor = "poll" /\ stopper = "running"
      /\ conn = [c \in Connections |-> [state |-> "none", input |-> <<>>, script |-> <<>>,
                                        handled |-> <<>>]]
  BY Zenon DEF Init
<1>2. PICK W \in SUBSET Pool :
        /\ workers = W
        /\ th = [t \in Pool |-> IF t \in W THEN [Fresh EXCEPT !.pc = "loop"] ELSE Fresh]
  BY Zenon DEF Init
<1>3. ASSUME NEW t \in Pool
      PROVE  /\ IsThread(th[t]) /\ th[t].conn = NoConnection
             /\ th[t].pc = IF t \in workers THEN "loop" ELSE "none"
  <2> DEFINE y == [Fresh EXCEPT !.pc = "loop"]
  <2>1. th[t] = IF t \in W THEN y ELSE Fresh
    BY <1>2, Zenon
  <2>2. IsThread(y) /\ y.pc = "loop" /\ y.conn = NoConnection
    BY FreshThread, Zenon
  <2> HIDE DEF y
  <2> QED BY <1>2, <2>1, <2>2, FreshThread, Zenon
<1>4. ThreadInv
  <2>1. th = [t \in Pool |-> th[t]]
    BY <1>2, Zenon
  <2>2. ASSUME NEW t \in Pool
        PROVE  ThreadOk(t, th[t], workers)
    <3>1. CASE t \in workers
      <4>1. th[t].pc = "loop"
        BY <1>3, <3>1, Zenon
      <4> QED BY <1>3, <3>1, <4>1, Zenon DEF ThreadOk, ThreadPcs, ServingPcs
    <3>2. CASE t \notin workers
      <4>1. th[t].pc = "none"
        BY <1>3, <3>2, Zenon
      <4> QED BY <1>3, <3>2, <4>1, Zenon DEF ThreadOk, ThreadPcs, ServingPcs
    <3> QED BY <3>1, <3>2, Zenon
  <2> QED BY <2>1, <2>2, Zenon DEF ThreadInv
<1>5. ASSUME NEW c \in Connections
      PROVE  IsConn(conn[c]) /\ conn[c].state = "none"
  <2> DEFINE y == [state |-> "none", input |-> <<>>, script |-> <<>>, handled |-> <<>>]
  <2>1. conn[c] = y
    BY <1>1, Zenon
  <2>2. IsConn(y) /\ y.state = "none"
    BY DEF IsConn
  <2> HIDE DEF y
  <2> QED BY <2>1, <2>2, Zenon
<1>6. ConnInv
  <2>1. conn = [c \in Connections |-> conn[c]]
    BY <1>1, Zenon
  <2>2. \A c \in Connections : conn[c].state \in {"none", "open", "closed"}
    BY <1>5, Zenon
  <2> QED BY <1>5, <2>1, <2>2, Zenon DEF ConnInv
<1>7. pending \in Seq(Connections) /\ DOMAIN pending = {}
  BY <1>1, SMTT(30)
<1>8. PoolTypes
  BY <1>1, <1>2, <1>7, Zenon DEF PoolTypes
<1>9. IdleInv
  <2>1. \A t \in Pool : th[t].pc = "loop" \/ th[t].pc = "none"
    BY <1>3, Zenon
  <2>2. \A t \in Pool : th[t].pc \notin IdlePcs
    BY <2>1, Zenon DEF IdlePcs
  <2>3. Idle = {}
    BY <2>2, Zenon DEF Idle
  <2> QED BY <1>1, <2>3, FS_EmptySet, Zenon DEF IdleInv
<1>10. OwnInv
  <2>1. \A c : ~ Queued(c)
    BY <1>7, Zenon DEF Queued
  <2>2. \A c \in Connections : ~ Served(c)
    BY <1>3, ServerAssumption, Zenon DEF Served
  <2>3. QueueOnce
    BY <1>7, Zenon DEF QueueOnce
  <2>4. ServedOnce
    BY <1>3, Zenon DEF ServedOnce
  <2>5. \A c \in Connections : conn[c].state # "open"
    BY <1>5, Zenon
  <2> QED BY <2>1, <2>2, <2>3, <2>4, <2>5, Zenon DEF OwnInv
<1>11. StopInv
  BY <1>1, Zenon DEF StopInv
<1> QED BY <1>4, <1>6, <1>8, <1>9, <1>10, <1>11, Zenon DEF ServerInv

LEMMA StepInv ==
  ServerInv /\ [Next]_vars => ServerInv'
<1> SUFFICES ASSUME ServerInv, [Next]_vars
             PROVE  ServerInv'
  BY Zenon
<1>1. CASE UNCHANGED vars
  <2>1. /\ UNCHANGED <<pool, th, conn>>
        /\ stopping' = stopping /\ stopper' = stopper /\ acceptor' = acceptor
    BY <1>1, Zenon DEF vars
  <2>2. PoolTypes /\ ThreadInv /\ StopInv
    BY Zenon DEF ServerInv
  <2>3. PoolTypes'
    BY <2>1, <2>2, Zenon DEF PoolTypes, pool
  <2>4. \A u \in Pool : Wakeful(th[u], th'[u])
    BY <2>1, <2>2, StaysPut, Zenon
  <2>5. StopInv'
    BY <2>1, <2>2, <2>4, StopKept, Zenon
  <2> QED BY <2>1, <2>3, <2>5, OutsideStep, ZenonT(60) DEF ServerInv
<1>2. CASE \E c \in Connections, s \in Scripts : accept(c, s)
  BY <1>2, AcceptInv, Zenon
<1>3. CASE accept_loop \/ read_idle
  BY <1>3, AcceptorInv, Zenon
<1>4. CASE notify_one
  BY <1>4, NotifyOneInv, Zenon
<1>5. CASE grow_pool
  BY <1>5, GrowInv, Zenon
<1>6. ASSUME NEW t \in Pool,
             \/ next_connection(t) \/ test(t) \/ block(t) \/ wake_up(t)
             \/ parse(t) \/ transport_error(t) \/ handle(t) \/ parse_error(t)
             \/ \E n \in 1 .. MaxStream : recv(t, n)
             \/ \E ok \in BOOLEAN : write(t, ok)
      PROVE  ServerInv'
  <2>1. CASE next_connection(t) \/ block(t) \/ wake_up(t) \/ parse_error(t)
    BY <2>1, BeginInv, Zenon
  <2>2. CASE test(t)
    BY <2>2, TestInv, Zenon
  <2>3. CASE parse(t)
    BY <2>3, ParseInv, Zenon
  <2>4. CASE handle(t)
    BY <2>4, HandleInv, Zenon
  <2>5. CASE \E n \in 1 .. MaxStream : recv(t, n)
    BY <2>5, RecvInv, Zenon
  <2>6. CASE transport_error(t) \/ \E ok \in BOOLEAN : write(t, ok)
    BY <2>6, WriteInv, Zenon
  <2> QED BY <1>6, <2>1, <2>2, <2>3, <2>4, <2>5, <2>6, Zenon
<1>7. CASE stop
  BY <1>7, StopBeginInv, Zenon
<1>8. CASE stop_notify
  BY <1>8, StopNotifyInv, Zenon
<1>9. CASE stop_swap
  BY <1>9, StopSwapInv, Zenon
<1>10. CASE stop_notify_again
  BY <1>10, StopNotifyAgainInv, Zenon
<1>11. CASE stop_join
  BY <1>11, StopJoinInv, Zenon
<1> QED BY <1>1, <1>2, <1>3, <1>4, <1>5, <1>6, <1>7, <1>8, <1>9, <1>10, <1>11, Zenon DEF Next

-----------------------------------------------------------------------------
(* What the server promises *)

(* The invariant of the pool: idle_threads_ counts the threads inside next_connection, a       *)
(* connection is open exactly while it is queued or a thread serves it, it is in one place, a  *)
(* thread has a connection exactly while it serves, and stop() finds the acceptor gone and no  *)
(* thread asleep.  It holds whatever the requests, the pool's size and the order of the steps. *)
THEOREM ServerInvHolds ==
  Spec => []ServerInv
<1>1. Init => ServerInv
  BY StartInv, Zenon
<1>2. ServerInv /\ [Next]_vars => ServerInv'
  BY StepInv, Zenon
<1> QED BY <1>1, <1>2, PTL DEF Spec

LEMMA OwnedOnce ==
  ASSUME ServerInv, NEW c \in Connections
  PROVE  Cardinality(Places(c)) = IF conn[c].state = "open" THEN 1 ELSE 0
<1>1. OwnInv
  BY Zenon DEF ServerInv
<1> DEFINE Q == {j \in DOMAIN pending : pending[j] = c}
           S == {u \in Pool : th[u].conn = c}
<1>2. Places(c) = {<<"queued", i>> : i \in Q} \cup {<<"served", t>> : t \in S}
  BY Zenon DEF Places
<1>3. (Queued(c) <=> Q # {}) /\ (Served(c) <=> S # {})
  BY Zenon DEF Queued, Served
<1>4. \A i, j \in Q : i = j
  BY <1>1, Zenon DEF OwnInv, QueueOnce
<1>5. \A s, t \in S : s = t
  <2>1. c # NoConnection
    BY ServerAssumption, Zenon
  <2> QED BY <1>1, <2>1, Zenon DEF OwnInv, ServedOnce
<1> HIDE DEF Q, S
<1>6. CASE Queued(c)
  <2>1. S = {} /\ conn[c].state = "open"
    BY <1>1, <1>3, <1>6, Zenon DEF OwnInv
  <2>2. PICK i : i \in Q
    BY <1>3, <1>6, Zenon
  <2>3. Places(c) = {<<"queued", i>>}
    <3>1. ASSUME NEW x
          PROVE  x \in Places(c) <=> x = <<"queued", i>>
      BY <1>2, <1>4, <2>1, <2>2, Zenon
    <3> QED BY <3>1, Zenon
  <2>4. Cardinality(Places(c)) = 1
    BY <2>3, FS_Singleton, Zenon
  <2> QED BY <2>1, <2>4, Zenon
<1>7. CASE Served(c)
  <2>1. Q = {} /\ conn[c].state = "open"
    BY <1>1, <1>3, <1>7, ZenonT(60) DEF OwnInv
  <2>2. PICK t : t \in S
    BY <1>3, <1>7, Zenon
  <2>3. Places(c) = {<<"served", t>>}
    <3>1. ASSUME NEW x
          PROVE  x \in Places(c) <=> x = <<"served", t>>
      BY <1>2, <1>5, <2>1, <2>2, Zenon
    <3> QED BY <3>1, Zenon
  <2>4. Cardinality(Places(c)) = 1
    BY <2>3, FS_Singleton, Zenon
  <2> QED BY <2>1, <2>4, Zenon
<1>8. CASE ~ Queued(c) /\ ~ Served(c)
  <2>1. Q = {} /\ S = {} /\ conn[c].state # "open"
    BY <1>1, <1>3, <1>8, Zenon DEF OwnInv
  <2>2. Places(c) = {}
    BY <1>2, <2>1, Zenon
  <2>3. Cardinality(Places(c)) = 0
    BY <2>2, FS_EmptySet, Zenon
  <2> QED BY <2>1, <2>3, Zenon
<1> QED BY <1>6, <1>7, <1>8, Zenon

LEMMA TypesHold ==
  ASSUME ServerInv
  PROVE  TypeOK
<1>1. PoolTypes /\ ThreadInv /\ ConnInv /\ IdleInv
  BY Zenon DEF ServerInv
<1>2. Idle \subseteq workers
  <2>1. ASSUME NEW t \in Idle
        PROVE  t \in workers
    <3>1. t \in Pool /\ th[t].pc # "none"
      BY <2>1, Zenon DEF Idle, IdlePcs
    <3> QED BY <1>1, <3>1, Zenon DEF ThreadInv, ThreadOk
  <2> QED BY <2>1, Zenon
<1>3. IsFiniteSet(workers) /\ IsFiniteSet(Idle)
  <2>1. workers \subseteq Pool
    BY <1>1, Zenon DEF PoolTypes
  <2> QED BY <2>1, IdleFinite, Zenon
<1>4. /\ Cardinality(Idle) \in Nat /\ Cardinality(workers) \in Nat
      /\ Cardinality(Idle) <= Cardinality(workers)
  BY <1>2, <1>3, FS_CardinalityType, FS_Subset, Zenon
<1>5. Cardinality(Idle) \in 0 .. Cardinality(workers)
  BY <1>4, SMTT(30)
<1>6. idle_threads \in 0 .. Cardinality(workers)
  BY <1>1, <1>5, Zenon DEF IdleInv
<1>7. \A t \in Pool :
        /\ th[t].pc \in ThreadPcs
        /\ (th[t].pc = "none") <=> (t \notin workers)
        /\ th[t].conn \in Connections \cup {NoConnection}
  BY <1>1, Zenon DEF ThreadInv, ThreadOk
<1>8. \A c \in Connections : conn[c].state \in {"none", "open", "closed"}
  BY <1>1, Zenon DEF ConnInv
<1> QED BY <1>1, <1>6, <1>7, <1>8, Zenon DEF TypeOK, PoolTypes, ThreadPcs

(* No descriptor is leaked, closed twice or read by two threads, through the growth of the pool *)
(* and stop(), and the count the pool grows by stays in its range: next_connection and          *)
(* serve_connection with any number of threads and connections.                                 *)
THEOREM OpenIsOwnedHolds ==
  Spec => []OpenIsOwned
<1>1. ServerInv => OpenIsOwned
  BY OwnedOnce, TypesHold, Zenon DEF OpenIsOwned
<1> QED BY <1>1, ServerInvHolds, PTL

(* When stop() joins the threads none sleeps in cv_.wait and none is added: the swap waits for *)
(* mutex_, so that the second notify_all reaches whoever missed the first.                     *)
THEOREM NoSleeperAfterStopHolds ==
  Spec => []NoSleeperAfterStop
<1>1. ServerInv => NoSleeperAfterStop
  <2> SUFFICES ASSUME ServerInv, stopper \in {"join", "stopped"}
               PROVE  /\ acceptor = "exit"
                      /\ \A t \in Pool : th[t].pc \notin {"checked", "blocked"}
    BY Zenon DEF NoSleeperAfterStop
  <2>1. stopper \in {"notify again", "join", "stopped"}
    BY Zenon
  <2>2. StopInv
    BY Zenon DEF ServerInv
  <2>3. acceptor = "exit" /\ \A t \in Pool : th[t].pc # "checked" /\ th[t].pc # "blocked"
    BY <2>1, <2>2, Zenon DEF StopInv
  <2> QED BY <2>3, Zenon
<1> QED BY <1>1, ServerInvHolds, PTL
=============================================================================
