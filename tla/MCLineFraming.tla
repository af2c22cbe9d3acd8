--------------------------- MODULE MCLineFraming ---------------------------
(***************************************************************************)
(* LineFraming for TLC: buffers a line of five bytes can outgrow.          *)
(***************************************************************************)
EXTENDS LineFraming

MCRecv == [s \in Servers |-> CASE s = "joint" -> 2 [] s = "v1.0" -> 2 [] s = "v1.001" -> 3]
MCSize == [s \in Servers |-> CASE s = "joint" -> 7 [] s = "v1.0" -> 6 [] s = "v1.001" -> 5]
=============================================================================
