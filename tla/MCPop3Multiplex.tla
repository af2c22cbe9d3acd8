-------------------------- MODULE MCPop3Multiplex --------------------------
(***************************************************************************)
(* Pop3Multiplex for TLC.                                                  *)
(***************************************************************************)
EXTENDS Pop3Multiplex, TLC

CONSTANTS c1, c2, c3, part

MCFragments   == {part}
MCNoFragments == {}

MCClients2 == {c1, c2}
MCClients3 == {c1, c2, c3}

\* A session that locks, marks and leaves, in the fewest commands.
MCLines == {[command |-> "USER", param |-> <<0>>],
            [command |-> "PASS", param |-> <<0>>],
            [command |-> "DELE", param |-> <<1>>],
            [command |-> "QUIT", param |-> <<>>]}

\* A line that keeps the session; it ends when its peer leaves.
MCIdleLines == {[command |-> "NOOP", param |-> <<>>]}

Symmetry2 == Permutations(MCClients2)
=============================================================================
