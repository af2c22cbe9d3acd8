------------------------------ MODULE Network ------------------------------
(***************************************************************************)
(* The peers of a select loop and the kernel between them and the server,  *)
(* as the servers of this repository use them: connect(), send(), close()  *)
(* and resets at the other end; the listen backlog; what recv() will       *)
(* return; and what send() does to a peer that has gone.                   *)
(*                                                                         *)
(* send() to a peer that has closed is answered by a reset, and send() to  *)
(* a peer that has reset the connection may raise SIGPIPE, which nothing   *)
(* in the servers catches.                                                 *)
(***************************************************************************)
EXTENDS Integers, Sequences

CONSTANTS Clients,    \* the peers, each with at most one connection at a time
          Chunks,     \* what one recv() may return
          InboxMax    \* bound on what a peer sends ahead of the server

VARIABLES peer,      \* the other end: "idle", "up", "closed" or "reset"
          backlog,   \* connections the kernel completed and nobody accepted
          inbox      \* what a peer sent and the server did not receive

NetInit ==
    /\ peer = [c \in Clients |-> "idle"]
    /\ backlog = <<>>
    /\ inbox = [c \in Clients |-> <<>>]

Dial(c) ==
    /\ peer[c] = "idle"
    /\ peer' = [peer EXCEPT ![c] = "up"]
    /\ backlog' = Append(backlog, c)
    /\ UNCHANGED inbox

Transmit(c) ==
    /\ peer[c] = "up"
    /\ Len(inbox[c]) < InboxMax
    /\ \E chunk \in Chunks : inbox' = [inbox EXCEPT ![c] = Append(@, chunk)]
    /\ UNCHANGED <<peer, backlog>>

Depart(c) ==
    /\ peer[c] = "up"
    /\ \E how \in {"closed", "reset"} : peer' = [peer EXCEPT ![c] = how]
    /\ UNCHANGED <<backlog, inbox>>

PeerActs == \E c \in Clients : Dial(c) \/ Transmit(c) \/ Depart(c)

\* How the peer may stand after a send, and whether the process may die of it.
AfterSend(c) == IF peer[c] = "closed" THEN {"closed", "reset"} ELSE {peer[c]}
MayRaise(c)  == IF peer[c] = "reset" THEN {FALSE, TRUE} ELSE {FALSE}

\* A peer that is gone makes its connection readable for good.
Departed(c) == peer[c] \in {"closed", "reset"}
Readable(c) == inbox[c] # <<>> \/ Departed(c)

Hungup(c) ==
    /\ peer' = [peer EXCEPT ![c] = "idle"]
    /\ inbox' = [inbox EXCEPT ![c] = <<>>]

NetTypeOK ==
    /\ peer \in [Clients -> {"idle", "up", "closed", "reset"}]
    /\ backlog \in Seq(Clients)
    /\ inbox \in [Clients -> Seq(Chunks)]
=============================================================================
