----------------------------- MODULE HttpParser -----------------------------
(***************************************************************************)
(* HttpRequestParser (src/http/http_server.cpp:102-207): the framing of a   *)
(* byte stream into requests, fed in chunks of any size.                    *)
(*                                                                         *)
(* A stream is a sequence of units: the units "h" of a header block, the    *)
(* four of the blank line that ends it ("cr", "lf", "cr" and "end", the     *)
(* last of which carries what parse_headers reads in the block), and the    *)
(* units "b" of a body.                                                    *)
(***************************************************************************)
EXTENDS Integers, Sequences, Functions

CONSTANTS
  MaxHeader,     \* kMaxHeaderBytes, in units
  MaxBody        \* kMaxBodyBytes, in units

\* The checks of parse_headers in the order they are made, and the status each refuses with.
Checks ==
  << [flaw |-> "request line", status |-> 400], [flaw |-> "target", status |-> 414],
     [flaw |-> "version", status |-> 505], [flaw |-> "path", status |-> 400],
     [flaw |-> "header line", status |-> 400], [flaw |-> "chunked", status |-> 411],
     [flaw |-> "Content-Length", status |-> 400], [flaw |-> "body", status |-> 413] >>

\* A request: the length of its header block, its Content-Length (0 when it has none), its
\* version and Connection header, and what is wrong with it.
Requests == [head : Nat, body : Nat, version : {"HTTP/1.0", "HTTP/1.1"},
             connection : {"", "close", "keep-alive"},
             flaws : SUBSET {"request line", "target", "version", "path", "header line",
                             "chunked", "Content-Length"}]

First(S) == CHOOSE i \in S : \A j \in S : i <= j

\* The status parse_headers refuses r with, 0 when it accepts it.
parse_headers(r) ==
  LET flaws == r.flaws \cup {f \in {"body"} : r.body > MaxBody}
      failing == {i \in DOMAIN Checks : Checks[i].flaw \in flaws}
  IN IF failing = {} THEN 0 ELSE Checks[First(failing)].status

keep_alive(r) ==
  \/ r.connection = "keep-alive"
  \/ r.connection # "close" /\ r.version = "HTTP/1.1"

BlankLine(r) == << <<"cr">>, <<"lf">>, <<"cr">>, <<"end", r>> >>
HeaderBlock(r) == [i \in 1 .. r.head |-> <<"h">>] \o BlankLine(r)
Encode(r) == HeaderBlock(r) \o [i \in 1 .. r.body |-> <<"b">>]

\* The sequences of ss one after the other.
Joined(ss) ==
  LET upto[i \in 0 .. Len(ss)] == IF i = 0 THEN <<>> ELSE upto[i - 1] \o ss[i]
  IN  upto[Len(ss)]

Stream(requests) == Joined([i \in DOMAIN requests |-> Encode(requests[i])])

reset == [buffer |-> <<>>, headers_done |-> FALSE, body_start |-> 0, body_expected |-> 0,
          status |-> "NeedMore", error_status |-> 400]

fail(p, status) == [p EXCEPT !.status = "Error", !.error_status = status]

\* The places where the four units of a blank line start: `find("\r\n\r\n")` gives the first.
Blank(buffer) ==
  {i \in 1 .. Len(buffer) - 3 : /\ buffer[i] = <<"cr">> /\ buffer[i + 1] = <<"lf">>
                                /\ buffer[i + 2] = <<"cr">> /\ buffer[i + 3][1] = "end"}

\* The block is complete: parse_headers reads it.
parse_block(p, end) ==
  LET request == p.buffer[end + 4][2]
      refusal == parse_headers(request)
  IN IF refusal # 0 THEN fail(p, refusal)
     ELSE [p EXCEPT !.headers_done = TRUE, !.body_start = end + 4, !.body_expected = request.body]

\* A parser that applies the limit to all it holds, not to the header block.
BugLimitFirst(p) ==
  IF Len(p.buffer) > MaxHeader + 3 THEN fail(p, 431)
  ELSE IF Blank(p.buffer) = {} THEN [p EXCEPT !.status = "NeedMore"]
  ELSE parse_block(p, First(Blank(p.buffer)) - 1)

\* The headers: not there yet, too long, refused by parse_headers, or done.
parse_head(p) ==
  IF Blank(p.buffer) = {}
  THEN IF Len(p.buffer) > MaxHeader THEN fail(p, 431) ELSE [p EXCEPT !.status = "NeedMore"]
  ELSE LET end == First(Blank(p.buffer)) - 1
       IN IF end > MaxHeader THEN fail(p, 431) ELSE parse_block(p, end)

parse_body(p) ==
  IF Len(p.buffer) - p.body_start < p.body_expected THEN [p EXCEPT !.status = "NeedMore"]
  ELSE [p EXCEPT !.status = "Complete"]

feed(p, chunk) ==
  LET q == [p EXCEPT !.buffer = @ \o chunk]
      h == IF q.headers_done THEN q ELSE parse_head(q)
  IN IF h.headers_done THEN parse_body(h) ELSE h

\* What a completed parser has: the request, its body, and the units that belong to the next.
request(p) == p.buffer[p.body_start][2]
body(p) == SubSeq(p.buffer, p.body_start + 1, p.body_start + p.body_expected)
BugNoLeftover(p) == <<>>
leftover(p) == SubSeq(p.buffer, p.body_start + p.body_expected + 1, Len(p.buffer))
=============================================================================
