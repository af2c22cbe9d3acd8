--------------------------- MODULE MCMultiplexV1 ---------------------------
(***************************************************************************)
(* MultiplexV1 for TLC.  A buf of one chunk and a byte is full after one   *)
(* chunk and never to its last byte; a buf of two chunks can be filled.    *)
(***************************************************************************)
EXTENDS MultiplexV1, TLC

CONSTANTS c1, c2

MCClients  == {c1, c2}
MCSymmetry == Permutations(MCClients)
=============================================================================
