--------------------------- MODULE MCThreadedPop3 ---------------------------
(***************************************************************************)
(* ThreadedPop3 for TLC.  Two threads suffice for a race on a lock (one    *)
(* looks while the other takes or releases), two mailboxes for a USER that *)
(* gives one up for the other; a connection slot is used again and again.  *)
(***************************************************************************)
EXTENDS ThreadedPop3, TLC

CONSTANTS t1, t2

MCThreads  == {t1, t2}
MCSymmetry == Permutations(MCThreads)
=============================================================================
