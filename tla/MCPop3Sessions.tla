--------------------------- MODULE MCPop3Sessions ---------------------------
(***************************************************************************)
(* Pop3Sessions for TLC: every word of the protocol and one that is none   *)
(* (NOOP), with no parameter, with one that names nothing (-1), and with   *)
(* those that name a user, a password or a message, or just miss one.      *)
(***************************************************************************)
EXTENDS Pop3Sessions, TLC

CONSTANTS c1, c2

MCClients2 == {c1, c2}

Words  == {"USER", "PASS", "QUIT", "STAT", "LIST", "RETR", "DELE", "RSET", "NOOP"}
Params == {<<>>} \cup {<<n>> : n \in -1 .. 3}

MCLines == [command : Words, param : Params]

Symmetry2 == Permutations(MCClients2)
=============================================================================
