---------------------------- MODULE MCImgServer -----------------------------
(***************************************************************************)
(* ImgServer for TLC.  With three connections a number can change hands    *)
(* while another connection's file waits to be sent on it.                 *)
(***************************************************************************)
EXTENDS ImgServer, TLC

CONSTANTS c1, c2, c3, a, b

MCConns    == {c1, c2, c3}
MCImages   == {a, b}
MCSymmetry == Permutations(MCConns) \cup Permutations(MCImages)
=============================================================================
