---------------------------- MODULE MCHttpServ ----------------------------
(***************************************************************************)
(* HttpServ for TLC.  Three units are read at once: "b" ends within a      *)
(* piece, "d" with one, and "p", the page, takes two.                      *)
(***************************************************************************)
EXTENDS HttpServ

CONSTANTS c1, c2

MCClients == {c1, c2}

MCSize == [n \in {"b", "d", "p"} |-> CASE n = "b" -> 2 [] n = "d" -> 3 [] n = "p" -> 4]
MCPage == "p"

Ends(n) == [asks |-> n, ends |-> TRUE]
Goes(n) == [asks |-> n, ends |-> FALSE]

\* A request in pieces, and another behind it; and what is answered otherwise.
Requests == {Goes("d"), Ends("b")}
Refusals == {Ends("root"), Ends("missing"), Ends("bad")}

MCChunks == Requests \cup Refusals
MCWorlds == {Requests, Refusals}
=============================================================================
