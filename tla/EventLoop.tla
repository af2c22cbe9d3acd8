----------------------------- MODULE EventLoop -----------------------------
(***************************************************************************)
(* libevent as the HTTP servers of this repository use it, on top of the   *)
(* network.  An event is a kind with the client it belongs to; event_add   *)
(* puts it in pending and event_del takes it out, and out of active, where *)
(* dispatch puts the events whose callbacks it will run in this pass.      *)
(* Events of descriptors run before timers, and otherwise in any order.    *)
(*                                                                         *)
(* A peer that is up may or may not read what is sent to it, so whether    *)
(* its connection can be written to is left open.                          *)
(***************************************************************************)
EXTENDS Network

CONSTANT Listener   \* whose "accept" event is pending all the time

VARIABLES pending,   \* the events of connections that were added
          due,       \* clients whose timer has run out
          active     \* the events whose callbacks are still to be run

Kinds     == {"read", "write", "time"}
Events(c) == Kinds \X {c}
Timed(c)  == <<"time", c>> \in pending

LoopInit == pending = {} /\ due = {} /\ active = {}

Expire(c) ==
    /\ Timed(c) /\ c \notin due
    /\ due' = due \cup {c}
    /\ UNCHANGED <<pending, active>>

Ready(takers) ==
    {e \in pending :
        \/ e[1] = "read" /\ Readable(e[2])
        \/ e[1] = "write" /\ (Departed(e[2]) \/ e[2] \in takers)
        \/ e[1] = "time" /\ e[2] \in due}
    \cup {e \in {<<"accept", Listener>>} : backlog # <<>>}

dispatch ==
    /\ active = {}
    /\ \E takers \in SUBSET Clients : active' = Ready(takers)
    /\ active' # {}
    /\ UNCHANGED <<pending, due>>

\* The callback of an event is next.
Runs(e) ==
    /\ e \in active
    /\ e[1] = "time" => \A d \in active : d[1] = "time"

LoopTypeOK ==
    /\ pending \subseteq Kinds \X Clients
    /\ active \subseteq pending \cup {<<"accept", Listener>>}
    /\ due \subseteq {c \in Clients : Timed(c)}
    /\ NetTypeOK
=============================================================================
