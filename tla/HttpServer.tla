----------------------------- MODULE HttpServer -----------------------------
(***************************************************************************)
(* The HTTP server of src/http/http_server.cpp: the acceptor, the pool of   *)
(* connection threads that grows on demand, the handling of a keep-alive    *)
(* connection with pipelined requests, and stop().                         *)
(*                                                                         *)
(* A section of mutex_, an access to an atomic outside it, and a socket     *)
(* operation are one action each.  A client connects with all its requests  *)
(* written; the network delivers them in chunks of any size.               *)
(***************************************************************************)
EXTENDS HttpParser, FiniteSets

CONSTANTS
  Connections,
  NoConnection,
  Scripts,       \* the sequences of requests a client may write
  Pool,          \* connection threads: as many as max_connection_threads
  Floor          \* threads started by start(): cfg_.threads

ASSUME ServerAssumption ==
  /\ IsFiniteSet(Pool)
  /\ Floor \in 1 .. Cardinality(Pool)
  /\ NoConnection \notin Connections

VARIABLES
  pending,       \* pending_: accepted connections, taken from the back
  idle_threads,  \* idle_threads_
  workers,       \* the threads of workers_ and, after the swap, of to_join
  stopping,      \* stopping_
  acceptor,      \* what the acceptor does
  th,            \* connection thread -> what it does
  stopper,       \* how far stop() is
  conn           \* connection -> its two ends

pool == <<pending, idle_threads, workers>>
vars == <<pool, stopping, acceptor, th, stopper, conn>>

\* The longest stream a client writes.
MaxStream == CHOOSE n \in {Len(Stream(s)) : s \in Scripts} :
               \A s \in Scripts : Len(Stream(s)) <= n

Fresh == [pc |-> "none", conn |-> NoConnection, parser |-> reset, pending_input |-> <<>>,
          keep_alive |-> FALSE]

\* start() has bound the socket and started the first threads.
Init ==
  /\ pending = <<>>
  /\ idle_threads = 0
  /\ \E W \in SUBSET Pool :
       /\ Cardinality(W) = Floor
       /\ workers = W
       /\ th = [t \in Pool |-> IF t \in W THEN [Fresh EXCEPT !.pc = "loop"] ELSE Fresh]
  /\ stopping = FALSE
  /\ acceptor = "poll"
  /\ stopper = "running"
  /\ conn = [c \in Connections |-> [state |-> "none", input |-> <<>>, script |-> <<>>,
                                    handled |-> <<>>]]

\* mutex_ is held from entering next_connection until the thread leaves it or blocks.
mutex_free == \A t \in Pool : th[t].pc \notin {"test", "checked"}

-----------------------------------------------------------------------------
(* accept_loop *)

\* The test of the loop; poll and accept come after it, and may bring nothing.
accept_loop ==
  /\ acceptor \in {"poll", "accepting"}
  /\ acceptor' = CASE acceptor = "accepting" -> "poll"
                   [] stopping               -> "exit"
                   [] OTHER                  -> "accepting"
  /\ UNCHANGED <<pool, stopping, th, stopper, conn>>

\* poll and accept bring a connection, queued under mutex_: stop() may have begun meanwhile.
accept(c, script) ==
  /\ acceptor = "accepting"
  /\ mutex_free
  /\ conn[c].state = "none"
  /\ conn' = [conn EXCEPT ![c] = [state |-> "open", input |-> Stream(script), script |-> script,
                                  handled |-> <<>>]]
  /\ pending' = Append(pending, c)
  /\ acceptor' = "notify"
  /\ UNCHANGED <<idle_threads, workers, stopping, th, stopper>>

\* A thread blocked in cv_.wait wakes; the others miss the notification.
Blocked == {t \in Pool : th[t].pc = "blocked"}
Woken(S) == [t \in Pool |-> IF t \in S THEN [th[t] EXCEPT !.pc = "woken"] ELSE th[t]]

notify_one ==
  /\ acceptor = "notify"
  /\ \/ Blocked = {} /\ UNCHANGED th
     \/ \E t \in Blocked : th' = Woken({t})
  /\ acceptor' = "starved?"
  /\ UNCHANGED <<pool, stopping, stopper, conn>>

\* grow_pool_if_starved: the idle count is read without the mutex ...
read_idle ==
  /\ acceptor = "starved?"
  /\ acceptor' = IF idle_threads > 0 THEN "poll" ELSE "grow"
  /\ UNCHANGED <<pool, stopping, th, stopper, conn>>

\* ... and the rest is decided under it.
grow_pool ==
  /\ acceptor = "grow"
  /\ mutex_free
  /\ acceptor' = "poll"
  /\ IF ~ stopping /\ pending # <<>> /\ workers # Pool
       THEN \E t \in Pool \ workers : /\ workers' = workers \cup {t}
                                      /\ th' = [th EXCEPT ![t].pc = "loop"]
       ELSE UNCHANGED <<workers, th>>
  /\ UNCHANGED <<pending, idle_threads, stopping, stopper, conn>>

-----------------------------------------------------------------------------
(* next_connection, by thread t *)

next_connection(t) ==
  /\ th[t].pc = "loop"
  /\ mutex_free
  /\ idle_threads' = idle_threads + 1
  /\ th' = [th EXCEPT ![t].pc = "test"]
  /\ UNCHANGED <<pending, workers, stopping, acceptor, stopper, conn>>

\* The predicate of cv_.wait.  When it holds the thread takes the connection queued last, or
\* leaves when there is none; when it does not, the thread is about to block.
left_idle == idle_threads - 1

back(s) == s[Len(s)]
pop_back(s) == SubSeq(s, 1, Len(s) - 1)

test(t) ==
  /\ th[t].pc = "test"
  /\ CASE pending # <<>> ->
            /\ idle_threads' = left_idle
            /\ th' = [th EXCEPT ![t] = [Fresh EXCEPT !.pc = "parse", !.conn = back(pending)]]
            /\ pending' = pop_back(pending)
       [] pending = <<>> /\ stopping ->
            /\ idle_threads' = left_idle
            /\ th' = [th EXCEPT ![t] = [Fresh EXCEPT !.pc = "exit"]]
            /\ UNCHANGED pending
       [] OTHER ->
            /\ th' = [th EXCEPT ![t].pc = "checked"]
            /\ UNCHANGED <<pending, idle_threads>>
  /\ UNCHANGED <<workers, stopping, acceptor, stopper, conn>>

\* The thread blocks and releases the mutex: a notification sent before this is missed.
block(t) ==
  /\ th[t].pc = "checked"
  /\ th' = [th EXCEPT ![t].pc = "blocked"]
  /\ UNCHANGED <<pool, stopping, acceptor, stopper, conn>>

\* A thread that was notified, or woke by itself, takes the mutex and tests again.
wake_up(t) ==
  /\ th[t].pc \in {"woken", "blocked"}
  /\ mutex_free
  /\ th' = [th EXCEPT ![t].pc = "test"]
  /\ UNCHANGED <<pool, stopping, acceptor, stopper, conn>>

-----------------------------------------------------------------------------
(* serve_connection, by thread t *)

\* Where a thread goes with its parser.
AfterFeed(p) == CASE p.status = "Complete" -> "handle"
                  [] p.status = "Error"    -> "error"
                  [] OTHER                 -> "read"

\* A new request: what is left of the last read is fed first.
parse(t) ==
  /\ th[t].pc = "parse"
  /\ LET p == IF th[t].pending_input = <<>> THEN reset ELSE feed(reset, th[t].pending_input)
     IN th' = [th EXCEPT ![t].parser = p, ![t].pending_input = <<>>, ![t].pc = AfterFeed(p)]
  /\ UNCHANGED <<pool, stopping, acceptor, stopper, conn>>

\* recv returns n units.
recv(t, n) ==
  /\ th[t].pc = "read"
  /\ LET c == th[t].conn
         p == feed(th[t].parser, SubSeq(conn[c].input, 1, n))
     IN /\ n <= Len(conn[c].input)
        /\ conn' = [conn EXCEPT ![c].input = SubSeq(@, n + 1, Len(@))]
        /\ th' = [th EXCEPT ![t].parser = p, ![t].pc = AfterFeed(p)]
  /\ UNCHANGED <<pool, stopping, acceptor, stopper>>

Close(t) ==
  /\ conn' = [conn EXCEPT ![th[t].conn].state = "closed"]
  /\ th' = [th EXCEPT ![t] = [Fresh EXCEPT !.pc = "loop"]]

\* The peer closes or fails, the idle deadline passes, or poll times out while stopping.
transport_error(t) ==
  /\ th[t].pc = "read"
  /\ Close(t)
  /\ UNCHANGED <<pool, stopping, acceptor, stopper>>

\* The handler runs; what was read past the request is kept for the next one.
handle(t) ==
  /\ th[t].pc = "handle"
  /\ LET p == th[t].parser
     IN /\ conn' = [conn EXCEPT ![th[t].conn].handled = Append(@, [request |-> request(p), body |-> body(p)])]
        /\ th' = [th EXCEPT ![t].pc = "write", ![t].pending_input = leftover(p),
                            ![t].parser = reset,
                            ![t].keep_alive = keep_alive(request(p)) /\ ~ stopping]
  /\ UNCHANGED <<pool, stopping, acceptor, stopper>>

\* A request that cannot be parsed is answered too, and ends the connection.
parse_error(t) ==
  /\ th[t].pc = "error"
  /\ th' = [th EXCEPT ![t].pc = "write", ![t].keep_alive = FALSE]
  /\ UNCHANGED <<pool, stopping, acceptor, stopper, conn>>

\* The response is written, or not.
write(t, ok) ==
  /\ th[t].pc = "write"
  /\ IF ok /\ th[t].keep_alive
       THEN /\ th' = [th EXCEPT ![t].pc = "parse", ![t].keep_alive = FALSE]
            /\ UNCHANGED conn
       ELSE Close(t)
  /\ UNCHANGED <<pool, stopping, acceptor, stopper>>

-----------------------------------------------------------------------------
(* stop() *)

stop ==
  /\ stopper = "running"
  /\ stopping' = TRUE
  /\ stopper' = "notify"
  /\ UNCHANGED <<pool, acceptor, th, conn>>

stop_notify ==
  /\ stopper = "notify"
  /\ th' = Woken(Blocked)
  /\ stopper' = "join acceptor"
  /\ UNCHANGED <<pool, stopping, acceptor, conn>>

\* The acceptor is joined, and the threads are taken under the mutex.
stop_swap ==
  /\ stopper = "join acceptor"
  /\ acceptor = "exit"
  /\ mutex_free
  /\ stopper' = "notify again"
  /\ UNCHANGED <<pool, stopping, acceptor, th, conn>>

BugNotifyOnce == th
second_notify == Woken(Blocked)

stop_notify_again ==
  /\ stopper = "notify again"
  /\ th' = second_notify
  /\ stopper' = "join"
  /\ UNCHANGED <<pool, stopping, acceptor, conn>>

\* Every thread is joined; connections nobody took are closed.
BugLeavePending == conn
pending_closed == [c \in Connections |-> IF c \in Range(pending) THEN [conn[c] EXCEPT !.state = "closed"]
                                         ELSE conn[c]]

stop_join ==
  /\ stopper = "join"
  /\ \A t \in workers : th[t].pc = "exit"
  /\ conn' = pending_closed
  /\ pending' = <<>>
  /\ stopper' = "stopped"
  /\ UNCHANGED <<idle_threads, workers, stopping, acceptor, th>>

-----------------------------------------------------------------------------
Next ==
  \/ \E c \in Connections, s \in Scripts : accept(c, s)
  \/ accept_loop \/ notify_one \/ read_idle \/ grow_pool
  \/ \E t \in Pool : \/ next_connection(t) \/ test(t) \/ block(t) \/ wake_up(t)
                     \/ parse(t) \/ transport_error(t) \/ handle(t) \/ parse_error(t)
                     \/ \E n \in 1 .. MaxStream : recv(t, n)
                     \/ \E ok \in BOOLEAN : write(t, ok)
  \/ stop \/ stop_notify \/ stop_swap \/ stop_notify_again \/ stop_join

Spec == Init /\ [][Next]_vars

-----------------------------------------------------------------------------
(* Properties *)

\* The state has its types, and idle_threads_, which decides whether the pool grows, stays
\* between zero and the number of threads.
TypeOK ==
  /\ pending \in Seq(Connections)
  /\ idle_threads \in 0 .. Cardinality(workers)
  /\ workers \in SUBSET Pool
  /\ stopping \in BOOLEAN
  /\ acceptor \in {"poll", "accepting", "notify", "starved?", "grow", "exit"}
  /\ stopper \in {"running", "notify", "join acceptor", "notify again", "join", "stopped"}
  /\ \A t \in Pool :
       /\ th[t].pc \in {"none", "loop", "test", "checked", "blocked", "woken", "parse", "read",
                        "handle", "error", "write", "exit"}
       /\ (th[t].pc = "none") <=> (t \notin workers)
       /\ th[t].conn \in Connections \cup {NoConnection}
  /\ \A c \in Connections : conn[c].state \in {"none", "open", "closed"}

\* serve_connection loses, repeats and reorders nothing of a connection's stream: the requests
\* handed to the handler, with their bodies, then what the thread kept for the next request,
\* then what the parser holds, then what is not yet read, are the stream the client wrote,
\* however it was fragmented and whatever the thread answered before.
Handled(c) ==
  [i \in DOMAIN conn[c].handled |->
    HeaderBlock(conn[c].handled[i].request) \o conn[c].handled[i].body]
FramingExact ==
  \A t \in Pool : LET c == th[t].conn IN
    c # NoConnection =>
      Joined(Handled(c)) \o th[t].pending_input \o th[t].parser.buffer \o conn[c].input
        = Stream(conn[c].script)

\* A request is refused with the status of the first check of parse_headers it fails, or with
\* 431 when its header block exceeds the limit or when a read ended inside its blank line with
\* more than the limit in the buffer, as can happen from three bytes below the limit on; and no
\* request that fails a check or exceeds the limit gets to the handler.  Neither a body nor a
\* pipelined request counts against the header limit, and no status is an earlier request's.
RefusalJustified ==
  /\ \A t \in Pool : th[t].pc = "error" =>
       LET c == th[t].conn
           refused == conn[c].script[Len(conn[c].handled) + 1]
           p == th[t].parser
       IN IF p.error_status = 431
            THEN refused.head > MaxHeader \/ Len(p.buffer) \in MaxHeader + 1 .. refused.head + 3
            ELSE refused.head <= MaxHeader /\ parse_headers(refused) = p.error_status
  /\ \A c \in Connections : \A i \in DOMAIN conn[c].handled :
       LET r == conn[c].handled[i].request
       IN parse_headers(r) = 0 /\ r.head <= MaxHeader

\* What http.hpp says of the limit: "request line + headers up to kMaxHeaderBytes".  A header
\* block within it is not refused as too large.
HeaderLimitExact ==
  \A t \in Pool : th[t].pc = "error" /\ th[t].parser.error_status = 431 =>
    conn[th[t].conn].script[Len(conn[th[t].conn].handled) + 1].head > MaxHeader

\* A connection is served by one thread or queued once, from accept to close, through the growth
\* of the pool and stop(): no descriptor is leaked, closed twice, or read by two threads; and the
\* count of idle threads the pool grows by stays in its range (TypeOK).
Places(c) == {<<"queued", i>> : i \in {j \in DOMAIN pending : pending[j] = c}}
               \cup {<<"served", t>> : t \in {u \in Pool : th[u].conn = c}}
OpenIsOwned ==
  /\ TypeOK
  /\ \A c \in Connections : Cardinality(Places(c)) = IF conn[c].state = "open" THEN 1 ELSE 0

\* Once stop() joins the threads none sleeps in next_connection and no thread is added: the
\* first notify_all can be missed by a thread that tested before stopping_ was set and blocked
\* after, the second cannot, because the swap waits for the mutex.
NoSleeperAfterStop ==
  stopper \in {"join", "stopped"} =>
    /\ acceptor = "exit"
    /\ \A t \in Pool : th[t].pc \notin {"checked", "blocked"}

\* What grow_pool_if_starved is for: a connection is not left in the queue while every thread is
\* busy with another, the acceptor has looked, and the pool is below its cap.
NoStarvation ==
  ~ /\ pending # <<>> /\ workers # Pool /\ ~ stopping
    /\ acceptor = "poll"
    /\ \A t \in workers : th[t].conn # NoConnection
=============================================================================
