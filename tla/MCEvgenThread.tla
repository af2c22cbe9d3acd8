--------------------------- MODULE MCEvgenThread ---------------------------
(***************************************************************************)
(* EvgenThread for TLC: two threads race for a lock; the lines are all the *)
(* commands but LIST, which changes nothing, USER and PASS without a name  *)
(* too, and a blank one.                                                   *)
(***************************************************************************)
EXTENDS EvgenThread, TLC

CONSTANTS t1, t2, n1, n2

MCThreads  == {t1, t2}
MCUsers    == {n1, n2}
MCSymmetry == Permutations(MCThreads) \cup Permutations(MCUsers)

Says(w, x) == [word |-> w, name |-> x]
MCLines    == {Says("USER", Nik(n)) : n \in MCUsers}
              \cup {Says("PASS", Pass(n)) : n \in MCUsers}
              \cup {Says(w, Nothing) : w \in {"USER", "PASS", "QUIT", Nothing}}
=============================================================================
