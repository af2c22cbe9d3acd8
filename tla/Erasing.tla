------------------------------ MODULE Erasing ------------------------------
(***************************************************************************)
(* What every POP3 server of this repository does at QUIT with the vector  *)
(* of messages of a mailbox: erase() takes the messages labelled del out   *)
(* one by one, and those behind each of them move up.                      *)
(*                                                                         *)
(* Enumerate(K)[n] is the n-th smallest of the numbers K, so Kept(s) lists *)
(* the unmarked messages of s in order.  (SelectSeq would do for TLC, but  *)
(* nothing can be proved about a definition by recursion here.)            *)
(***************************************************************************)
EXTENDS Integers, Sequences, FiniteSets

Rank(K, i)   == Cardinality({j \in K : j <= i})
Enumerate(K) == [n \in 1 .. Cardinality(K) |-> CHOOSE i \in K : Rank(K, i) = n]
Unmarked(s)  == {i \in 1 .. Len(s) : ~s[i].del}
Kept(s)      == [n \in 1 .. Cardinality(Unmarked(s)) |-> s[Enumerate(Unmarked(s))[n]]]
=============================================================================
