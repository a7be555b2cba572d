---------------------------- MODULE MCHttpServer ----------------------------
(* HttpServer for TLC. *)
EXTENDS HttpServer, TLC

Req(h, b, c, F) ==
  [head |-> h, body |-> b, version |-> "HTTP/1.1", connection |-> c, flaws |-> F]

\* Pipelined requests, the first with a body; header blocks below, at and past the limit, the
\* first two of which are refused as too large or not by how they are fragmented; a body past its
\* limit, with another request behind it.
MCScripts ==
  { << Req(1, 1, "", {}), Req(2, 0, "close", {}) >>,
    << Req(4, 0, "close", {}) >>,
    << Req(5, 0, "close", {}) >>,
    << [Req(1, 3, "keep-alive", {}) EXCEPT !.version = "HTTP/1.0"], Req(1, 0, "", {}) >> }

Symmetry == Permutations(Pool) \cup Permutations(Connections)
=============================================================================
