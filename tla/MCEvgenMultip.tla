--------------------------- MODULE MCEvgenMultip ---------------------------
(***************************************************************************)
(* EvgenMultip for TLC: two peers and two mailboxes, in a process that has *)
(* descriptors for both sessions and in one that has one for only one.     *)
(***************************************************************************)
EXTENDS EvgenMultip

CONSTANTS c1, c2, n1, n2, part

MCClients == {c1, c2}
MCUsers   == {n1, n2}
MCParts   == {part}
=============================================================================
