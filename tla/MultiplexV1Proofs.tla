-------------------------- MODULE MultiplexV1Proofs --------------------------
(***************************************************************************)
(* Proofs about MultiplexV1, for every set of peers, number of mailboxes,  *)
(* messages and descriptors, and size of buf.                              *)
(*                                                                         *)
(* The shape of the loop (LoopShape) owes nothing to the commands.  With   *)
(* it and the sessions in order (SessionsInv) every step does one of a few *)
(* things to the sessions and the mailboxes (Kinds).  That a free mailbox  *)
(* has no mark needs to be known of the mailboxes that may become free     *)
(* without an update, too: those of sessions USER may take elsewhere.      *)
(***************************************************************************)
EXTENDS MultiplexV1, VectorProofs

LoopTypes ==
    /\ clients \in Seq(Clients) /\ Len(clients) <= MaxSock /\ MaxSock \in Limits
    /\ phase \in {"select", "accept", "serve", "dead"}
    /\ readset \subseteq Clients \cup {Listener}
    /\ it \in 1 .. MaxSock + 1
    /\ buf \in [Clients -> 0 .. MAXDATASIZE]
    /\ cntwrcmd \in [Clients -> 0 .. MaxErrors + 1]
    /\ NetTypeOK

\* A connected peer is in the backlog or has a session, and is there once.
OnePlace ==
    /\ IsInjective(clients) /\ IsInjective(backlog)
    /\ Open \cap ToSet(backlog) = {}
    /\ \A c \in Clients : peer[c] = "idle" <=> c \notin Open \cup ToSet(backlog)

\* What is to be accepted stays in the backlog.
SomebodyWaits == phase = "accept" /\ Listener \in readset => backlog # <<>>

\* A session with more errors than it may make is closed.
FewErrors == \A c \in Open : cntwrcmd[c] <= MaxErrors

LoopShape == LoopTypes /\ OnePlace /\ SomebodyWaits

Message  == [st : 1 .. MaxMessages, del : BOOLEAN]
Clean(s) == \A k \in DOMAIN s : ~s[k].del

SessionTypes ==
    /\ used \in [Users -> BOOLEAN]
    /\ messages \in [Users -> Seq(Message)]
    /\ user \in [Clients -> Users \cup {-1}]
    /\ state \in [Clients -> {"AUTHORIZATION", "TRANSACTION", "UPDATE"}]
    /\ \A c \in Open : state[c] # "UPDATE" /\ (state[c] = "TRANSACTION" => user[c] \in Users)

\* No marks in a mailbox that is free, or whose session has not been let in.
CleanUntilLetIn ==
    \A u \in Users :
        ~used[u] \/ (\E c \in Holders(u) : state[c] = "AUTHORIZATION") => Clean(messages[u])

SessionsInv == SessionTypes /\ OneHolder /\ CleanUntilLetIn

-----------------------------------------------------------------------------
\* The shape of the loop, ready to use.
LEMMA ShapeFacts ==
    ASSUME LoopShape
    PROVE  /\ MaxSock \in Nat \ {0} /\ Len(clients) \in Nat /\ it \in Nat \ {0}
           /\ clients \in Seq(Clients) /\ backlog \in Seq(Clients)
           /\ IsInjective(clients) /\ IsInjective(backlog)
           /\ \A i \in 1 .. Len(clients) : clients[i] \in Clients /\ clients[i] \in Open
           /\ Open \subseteq Clients /\ ToSet(backlog) \subseteq Clients
           /\ Open \cap ToSet(backlog) = {}
           /\ \A c \in Clients : peer[c] \in {"idle", "up", "closed", "reset"}
           /\ \A c \in Clients : inbox[c] \in Seq(Sizes \cup {EndsLine})
           /\ Listener \notin Clients
<1>1. clients \in Seq(Clients) /\ backlog \in Seq(Clients) /\ MaxSock \in Limits
  BY DEF LoopShape, LoopTypes, NetTypeOK
<1>2. IsInjective(clients) /\ IsInjective(backlog) /\ Open \cap ToSet(backlog) = {}
  BY DEF LoopShape, OnePlace
<1>3. /\ \A c \in Clients : peer[c] \in {"idle", "up", "closed", "reset"}
      /\ \A c \in Clients : inbox[c] \in Seq(Sizes \cup {EndsLine})
  BY DEF LoopShape, LoopTypes, NetTypeOK
<1>4. MaxSock \in Nat \ {0} /\ Listener \notin Clients
  BY <1>1, V1Assumption
<1>5. Len(clients) \in Nat /\ \A i \in 1 .. Len(clients) : clients[i] \in Clients
  BY <1>1
<1>6. it \in Nat \ {0}
  BY <1>4 DEF LoopShape, LoopTypes
<1> QED
  BY <1>1, <1>2, <1>3, <1>4, <1>5, <1>6, Elements DEF Open

\* A step that moves no connection from one place to another.
LEMMA SamePlaces ==
    ASSUME LoopShape, LoopTypes', UNCHANGED <<clients, backlog>>,
           \A c \in Clients : peer'[c] = "idle" <=> peer[c] = "idle",
           phase' = "accept" /\ Listener \in readset' => backlog # <<>>
    PROVE  LoopShape'
  BY DEF LoopShape, OnePlace, Open, SomebodyWaits

\* Peers dial when they are idle, and nothing else of them moves a connection.
LEMMA PeersShape ==
    ASSUME LoopShape, Peers
    PROVE  LoopShape'
<1>1. PICK c \in Clients : Dial(c) \/ Transmit(c) \/ Depart(c)
  BY DEF Peers, PeerActs
<1>2. UNCHANGED <<clients, phase, readset, it, buf, cntwrcmd, MaxSock>>
  BY DEF Peers, server_vars
<1>3. CASE Dial(c)
  <2>1. c \notin Open /\ c \notin ToSet(backlog)
    BY <1>3 DEF Dial, LoopShape, OnePlace
  <2>2. /\ backlog' \in Seq(Clients) /\ backlog' # <<>> /\ IsInjective(backlog)'
        /\ ToSet(backlog)' = ToSet(backlog) \cup {c}
    BY <1>3, <2>1, ShapeFacts, AppendAdds DEF Dial
  <2>3. peer' = [peer EXCEPT ![c] = "up"] /\ inbox' = inbox
    BY <1>3 DEF Dial
  <2>4. LoopTypes'
    BY <1>2, <2>2, <2>3 DEF LoopShape, LoopTypes, NetTypeOK
  <2>5. OnePlace'
    BY <1>2, <2>1, <2>2, <2>3 DEF LoopShape, LoopTypes, NetTypeOK, OnePlace, Open
  <2> QED
    BY <2>2, <2>4, <2>5 DEF LoopShape, SomebodyWaits
<1>4. CASE Transmit(c)
  <2>1. PICK chunk \in Sizes \cup {EndsLine} : inbox' = [inbox EXCEPT ![c] = Append(inbox[c], chunk)]
    BY <1>4 DEF Transmit
  <2>2. UNCHANGED <<peer, backlog>>
    BY <1>4 DEF Transmit
  <2>3. Append(inbox[c], chunk) \in Seq(Sizes \cup {EndsLine})
    BY ShapeFacts, AppendAdds
  <2>4. LoopTypes'
    BY <1>2, <2>1, <2>2, <2>3 DEF LoopShape, LoopTypes, NetTypeOK
  <2> QED
    BY <1>2, <2>2, <2>4, SamePlaces DEF LoopShape, SomebodyWaits
<1>5. CASE Depart(c)
  <2>1. PICK how \in {"closed", "reset"} : peer' = [peer EXCEPT ![c] = how]
    BY <1>5 DEF Depart
  <2>2. UNCHANGED <<backlog, inbox>> /\ peer[c] = "up"
    BY <1>5 DEF Depart
  <2>3. LoopTypes'
    BY <1>2, <2>1, <2>2 DEF LoopShape, LoopTypes, NetTypeOK
  <2>4. \A d \in Clients : peer'[d] = "idle" <=> peer[d] = "idle"
    BY <2>1, <2>2 DEF LoopShape, LoopTypes, NetTypeOK
  <2> QED
    BY <1>2, <2>2, <2>3, <2>4, SamePlaces DEF LoopShape, SomebodyWaits
<1> QED
  BY <1>1, <1>3, <1>4, <1>5

\* The steps of the loop that touch no session.
LEMMA PassShape ==
    ASSUME LoopShape, Select \/ AcceptFails \/ NothingToAccept \/ EndOfPass
    PROVE  LoopShape'
<1>1. UNCHANGED <<clients, buf, cntwrcmd, peer, backlog, inbox, MaxSock>> /\ it' \in {it, 1}
  BY DEF Select, AcceptFails, NothingToAccept, EndOfPass, net_vars
<1>2. /\ readset' \subseteq Clients \cup {Listener}
      /\ phase' = "accept" /\ Listener \in readset' => backlog # <<>>
  <2>1. CASE Select
    BY <2>1, ShapeFacts DEF Select, Open
  <2>2. CASE ~Select
    BY <2>2 DEF AcceptFails, NothingToAccept, EndOfPass, LoopShape, LoopTypes
  <2> QED
    BY <2>1, <2>2
<1>3. phase' \in {"select", "accept", "serve", "dead"}
  BY DEF Select, AcceptFails, NothingToAccept, EndOfPass
<1>4. 1 \in 1 .. MaxSock + 1
  BY ShapeFacts
<1>5. LoopTypes'
  BY <1>1, <1>2, <1>3, <1>4 DEF LoopShape, LoopTypes, NetTypeOK
<1> QED
  BY <1>1, <1>2, <1>3, <1>5, SamePlaces

\* No connection is made or ended by a send().
LEMMA SendKeeps ==
    ASSUME LoopShape, NEW c \in Clients, NEW p \in AfterSend(c), peer' = [peer EXCEPT ![c] = p]
    PROVE  /\ peer' \in [Clients -> {"idle", "up", "closed", "reset"}]
           /\ \A d \in Clients : peer'[d] = "idle" <=> peer[d] = "idle"
  BY DEF LoopShape, LoopTypes, NetTypeOK, AfterSend

\* A connection moves from the backlog to the end of the vector.
LEMMA AcceptFacts ==
    ASSUME LoopShape, Accept
    PROVE  /\ Head(backlog) \in Clients /\ Head(backlog) \notin Open
           /\ Open' = Open \cup {Head(backlog)}
           /\ LoopShape'
<1> DEFINE c == Head(backlog)
<1>1. /\ phase = "accept" /\ Listener \in readset /\ Len(clients) < MaxSock
      /\ buf' = [buf EXCEPT ![c] = 0] /\ clients' = Append(clients, c)
      /\ backlog' = Tail(backlog) /\ phase' \in {"serve", "dead"}
      /\ cntwrcmd' = [cntwrcmd EXCEPT ![c] = 0]
      /\ UNCHANGED <<readset, it, inbox, MaxSock>>
  BY DEF Accept, Sends, MayRaise
<1>2. PICK p \in AfterSend(c) : peer' = [peer EXCEPT ![c] = p]
  BY DEF Accept, Sends
<1>3. backlog # <<>>
  BY <1>1 DEF LoopShape, SomebodyWaits
<1>4. /\ c \in Clients /\ c \in ToSet(backlog) /\ c \notin Open
      /\ backlog' \in Seq(Clients) /\ IsInjective(backlog)'
      /\ ToSet(backlog)' = ToSet(backlog) \ {c}
  BY <1>1, <1>3, ShapeFacts, TailTakes
<1>5. /\ clients' \in Seq(Clients) /\ Len(clients') = Len(clients) + 1
      /\ Open' = Open \cup {c} /\ IsInjective(clients)'
  BY <1>1, <1>4, ShapeFacts, AppendAdds DEF Open
<1> HIDE DEF c
<1>6. /\ peer' \in [Clients -> {"idle", "up", "closed", "reset"}]
      /\ \A d \in Clients : peer'[d] = "idle" <=> peer[d] = "idle"
  BY <1>2, <1>4, SendKeeps
<1>7. LoopTypes'
  <2>1. Len(clients') <= MaxSock /\ 0 \in 0 .. MAXDATASIZE /\ 0 \in 0 .. MaxErrors + 1
    BY <1>1, <1>5, ShapeFacts, V1Assumption
  <2> QED
    BY <1>1, <1>4, <1>5, <1>6, <2>1 DEF LoopShape, LoopTypes, NetTypeOK
<1>8. OnePlace'
  BY <1>1, <1>4, <1>5, <1>6 DEF LoopShape, OnePlace, Open
<1>9. SomebodyWaits'
  BY <1>1 DEF SomebodyWaits
<1> QED
  BY <1>4, <1>5, <1>7, <1>8, <1>9 DEF LoopShape, c

\* What a turn says: the session is open, and the index within the vector.
LEMMA TurnFacts ==
    ASSUME LoopShape, NEW c, NEW i, Turn(c, i)
    PROVE  /\ i \in 1 .. Len(clients) /\ clients[i] = c
           /\ c \in Clients /\ c \in Open /\ c \notin ToSet(backlog)
           /\ phase = "serve" /\ i + 1 \in 1 .. MaxSock + 1
<1>1. /\ phase = "serve" /\ i \in it .. Len(clients) /\ clients[i] = c
      /\ Len(clients) <= MaxSock
  BY DEF Turn, LoopShape, LoopTypes
<1>2. i \in 1 .. Len(clients) /\ i + 1 \in 1 .. MaxSock + 1
  BY <1>1, ShapeFacts
<1>3. c \in Clients /\ c \in Open
  BY <1>1, <1>2, ShapeFacts
<1>4. c \notin ToSet(backlog)
  BY <1>3, ShapeFacts
<1> QED
  BY <1>1, <1>2, <1>3, <1>4

\* A session is served and stays.
LEMMA StaysShape ==
    ASSUME LoopShape, NEW c, NEW i, Turn(c, i), it' = i + 1, phase' \in {phase, "dead"},
           UNCHANGED <<clients, readset, backlog, MaxSock>>,
           buf' \in [Clients -> 0 .. MAXDATASIZE],
           cntwrcmd' \in [Clients -> 0 .. MaxErrors + 1],
           inbox' \in [Clients -> Seq(Sizes \cup {EndsLine})],
           \E p \in AfterSend(c) : peer' = [peer EXCEPT ![c] = p]
    PROVE  LoopShape'
<1> PICK p \in AfterSend(c) : peer' = [peer EXCEPT ![c] = p]
  OBVIOUS
<1>1. /\ peer' \in [Clients -> {"idle", "up", "closed", "reset"}]
      /\ \A d \in Clients : peer'[d] = "idle" <=> peer[d] = "idle"
  BY TurnFacts, SendKeeps
<1>2. LoopTypes'
  BY <1>1, TurnFacts DEF LoopShape, LoopTypes, NetTypeOK
<1> QED
  BY <1>1, <1>2, TurnFacts, SamePlaces

\* A session is erased, and its connection ends.
LEMMA ErasedFacts ==
    ASSUME LoopShape, NEW c, NEW i, Turn(c, i), phase' \in {phase, "dead"},
           Erase(c, i), UNCHANGED <<readset, backlog, MaxSock>>,
           buf' \in [Clients -> 0 .. MAXDATASIZE],
           cntwrcmd' \in [Clients -> 0 .. MaxErrors + 1]
    PROVE  LoopShape' /\ Open' = Open \ {c}
<1>1. /\ clients' = RemoveAt(clients, i) /\ it' = i
      /\ peer' = [peer EXCEPT ![c] = "idle"] /\ inbox' = [inbox EXCEPT ![c] = <<>>]
  BY DEF Erase, Hungup
<1>2. i \in 1 .. Len(clients) /\ clients[i] = c
  BY TurnFacts
<1>3. /\ clients' \in Seq(Clients) /\ Len(clients') = Len(clients) - 1
      /\ Open' = Open \ {c} /\ IsInjective(clients)'
  <2>1. clients \in Seq(Clients) /\ IsInjective(clients)
    BY ShapeFacts
  <2>2. clients' = RemoveAt(clients, i)
    BY <1>1
  <2> QED
    BY <1>2, <2>1, <2>2, RemoveTakes DEF Open
<1>4. LoopTypes'
  <2>1. Len(clients') <= MaxSock /\ i \in 1 .. MaxSock + 1
    <3>1. Len(clients) <= MaxSock /\ Len(clients) \in Nat /\ MaxSock \in Nat
      BY ShapeFacts DEF LoopShape, LoopTypes
    <3> QED
      BY <1>2, <1>3, <3>1
  <2>2. <<>> \in Seq(Sizes \cup {EndsLine})
    OBVIOUS
  <2> QED
    BY <1>1, <1>3, <2>1, <2>2, TurnFacts DEF LoopShape, LoopTypes, NetTypeOK
<1>5. OnePlace'
  <2>1. c \in Clients /\ c \notin ToSet(backlog) /\ backlog' = backlog
    BY TurnFacts
  <2>2. peer' = [peer EXCEPT ![c] = "idle"]
    BY <1>1
  <2> QED
    BY <1>3, <2>1, <2>2 DEF LoopShape, LoopTypes, NetTypeOK, OnePlace
<1>6. SomebodyWaits'
  BY TurnFacts DEF SomebodyWaits
<1> QED
  BY <1>3, <1>4, <1>5, <1>6 DEF LoopShape

\* The session stays, and the loop goes on behind it.
Stays(c, i) == UNCHANGED clients /\ it' = i + 1

\* Serving a session erases it, or goes on behind it.
LEMMA ServeFacts ==
    ASSUME LoopShape, FewErrors, NEW c, NEW i, Serve(c, i)
    PROVE  /\ LoopShape' /\ FewErrors' /\ UNCHANGED readset
           /\ Turn(c, i) /\ c \in Clients /\ c \in Open
           /\ \/ Erase(c, i) /\ Open' = Open \ {c} /\ (ServeTooLong(c, i) \/ ServeLine(c, i))
              \/ Stays(c, i) /\ Open' = Open
<1>0. Turn(c, i) /\ c \in Clients /\ c \in Open /\ UNCHANGED <<readset, backlog, MaxSock>>
  <2>1. Turn(c, i) /\ UNCHANGED <<readset, backlog, MaxSock>>
    BY DEF Serve, ServeTooLong, ServeEnd, ServePart, ServeLine, net_vars
  <2> QED
    BY <2>1, TurnFacts
<1>a. 0 \in 0 .. MAXDATASIZE /\ \A n \in 0 .. MaxErrors : n + 1 \in 0 .. MaxErrors + 1
  BY V1Assumption
<1>b. /\ cntwrcmd[c] \in 0 .. MaxErrors /\ buf[c] \in 0 .. MAXDATASIZE
      /\ inbox[c] \in Seq(Sizes \cup {EndsLine})
  BY <1>0, V1Assumption DEF LoopShape, LoopTypes, NetTypeOK, FewErrors
<1>c. inbox[c] # <<>> =>
        [inbox EXCEPT ![c] = Tail(inbox[c])] \in [Clients -> Seq(Sizes \cup {EndsLine})]
  <2>1. inbox[c] # <<>> => Tail(inbox[c]) \in Seq(Sizes \cup {EndsLine})
    BY <1>b, HeadTailProperties
  <2> QED
    BY <2>1 DEF LoopShape, LoopTypes, NetTypeOK
<1>d. peer[c] \in AfterSend(c) /\ peer = [peer EXCEPT ![c] = peer[c]]
  BY <1>0 DEF AfterSend, LoopShape, LoopTypes, NetTypeOK
<1>1. CASE ServeTooLong(c, i)
  <2>1. /\ buf' = [buf EXCEPT ![c] = 0] /\ cntwrcmd' = [cntwrcmd EXCEPT ![c] = cntwrcmd[c] + 1]
        /\ phase' \in {phase, "dead"}
    BY <1>1 DEF ServeTooLong, MayRaise
  <2>2. buf' \in [Clients -> 0 .. MAXDATASIZE] /\ cntwrcmd' \in [Clients -> 0 .. MaxErrors + 1]
    BY <1>a, <1>b, <2>1 DEF LoopShape, LoopTypes
  <2>3. CASE Erase(c, i)
    <3>1. LoopShape' /\ Open' = Open \ {c}
      BY <1>0, <2>1, <2>2, <2>3, ErasedFacts
    <3>2. FewErrors'
      BY <1>0, <2>1, <3>1, ShapeFacts DEF FewErrors, LoopShape, LoopTypes
    <3> QED
      BY <1>0, <1>1, <2>3, <3>1, <3>2
  <2>4. CASE ~Erase(c, i)
    <3>1. /\ cntwrcmd[c] + 1 <= MaxErrors /\ Stays(c, i) /\ inbox' = inbox
          /\ \E p \in AfterSend(c) : peer' = [peer EXCEPT ![c] = p]
      BY <1>1, <2>4 DEF ServeTooLong, Stays
    <3>2. LoopShape'
      BY <1>0, <2>1, <2>2, <3>1, StaysShape DEF Stays, LoopShape, LoopTypes, NetTypeOK
    <3>3. Open' = Open
      BY <3>1 DEF Stays, Open
    <3>4. FewErrors'
      BY <1>0, <2>1, <3>1, <3>3, ShapeFacts DEF FewErrors, LoopShape, LoopTypes
    <3> QED
      BY <1>0, <3>1, <3>2, <3>3, <3>4
  <2> QED
    BY <2>3, <2>4
<1>2. CASE ServeEnd(c, i)
  <2>1. Stays(c, i) /\ UNCHANGED <<buf, cntwrcmd, phase, peer, inbox>>
    BY <1>2 DEF ServeEnd, Stays, net_vars
  <2>2. LoopShape'
    BY <1>0, <1>d, <2>1, StaysShape DEF Stays, LoopShape, LoopTypes, NetTypeOK
  <2>3. Open' = Open
    BY <2>1 DEF Stays, Open
  <2> QED
    BY <1>0, <2>1, <2>2, <2>3 DEF FewErrors
<1>3. CASE ServePart(c, i)
  <2> PICK l : l = buf[c] + Head(inbox[c])
    OBVIOUS
  <2>1. /\ Stays(c, i) /\ UNCHANGED <<phase, peer>> /\ ~Full(c)
        /\ inbox[c] # <<>> /\ Head(inbox[c]) \in Sizes
        /\ inbox' = [inbox EXCEPT ![c] = Tail(inbox[c])]
        /\ buf' = [buf EXCEPT ![c] = l]
        /\ cntwrcmd' = [cntwrcmd EXCEPT ![c] = IF l = MAXDATASIZE THEN 0 ELSE cntwrcmd[c]]
    BY <1>3 DEF ServePart, Stays, Terminated
  <2>2. l \in 0 .. MAXDATASIZE
    <3> PICK h : h = Head(inbox[c])
      OBVIOUS
    <3>1. h \in 1 .. MAXDATARECV /\ MAXDATASIZE \in Nat /\ MAXDATARECV \in Nat
      BY <2>1, V1Assumption
    <3>2. ~(buf[c] + MAXDATARECV > MAXDATASIZE)
      BY <2>1 DEF Full
    <3> QED
      BY <1>b, <3>1, <3>2
  <2>3. buf' \in [Clients -> 0 .. MAXDATASIZE] /\ cntwrcmd' \in [Clients -> 0 .. MaxErrors + 1]
    <3>1. 0 \in 0 .. MaxErrors + 1 /\ cntwrcmd[c] \in 0 .. MaxErrors + 1
      BY <1>b, V1Assumption
    <3>2. buf' \in [Clients -> 0 .. MAXDATASIZE]
      BY <2>1, <2>2 DEF LoopShape, LoopTypes
    <3>3. cntwrcmd' \in [Clients -> 0 .. MaxErrors + 1]
      BY <2>1, <3>1 DEF LoopShape, LoopTypes
    <3> QED
      BY <3>2, <3>3
  <2>4. LoopShape'
    BY <1>0, <1>c, <1>d, <2>1, <2>3, StaysShape DEF Stays
  <2>5. Open' = Open
    BY <2>1 DEF Stays, Open
  <2>6. FewErrors'
    BY <1>0, <1>b, <2>1, <2>5, ShapeFacts, V1Assumption DEF FewErrors, LoopShape, LoopTypes
  <2> QED
    BY <1>0, <2>1, <2>4, <2>5, <2>6
<1>4. CASE ServeLine(c, i)
  <2>1. /\ buf' = [buf EXCEPT ![c] = 0] /\ cntwrcmd' = cntwrcmd
        /\ phase' \in {phase, "dead"} /\ inbox[c] # <<>>
    BY <1>4 DEF ServeLine, MayRaise
  <2>2. buf' \in [Clients -> 0 .. MAXDATASIZE] /\ cntwrcmd' \in [Clients -> 0 .. MaxErrors + 1]
    BY <1>a, <2>1 DEF LoopShape, LoopTypes
  <2>3. CASE Erase(c, i)
    <3>1. LoopShape' /\ Open' = Open \ {c}
      BY <1>0, <2>1, <2>2, <2>3, ErasedFacts
    <3> QED
      BY <1>0, <1>4, <2>1, <2>3, <3>1 DEF FewErrors
  <2>4. CASE ~Erase(c, i)
    <3>1. /\ Stays(c, i) /\ inbox' = [inbox EXCEPT ![c] = Tail(inbox[c])]
          /\ \E p \in AfterSend(c) : peer' = [peer EXCEPT ![c] = p]
      BY <1>4, <2>4 DEF ServeLine, Stays
    <3>2. LoopShape'
      BY <1>0, <1>c, <2>1, <2>2, <3>1, StaysShape DEF Stays
    <3>3. Open' = Open
      BY <3>1 DEF Stays, Open
    <3> QED
      BY <1>0, <2>1, <3>1, <3>2, <3>3 DEF FewErrors
  <2> QED
    BY <2>3, <2>4
<1> QED
  BY <1>1, <1>2, <1>3, <1>4 DEF Serve

\* Nobody is anywhere at the start.
LEMMA InitShape == Init => LoopShape /\ FewErrors
<1> SUFFICES ASSUME Init PROVE LoopShape /\ FewErrors
  OBVIOUS
<1>1. /\ MaxSock \in Nat \ {0}
      /\ 0 \in 0 .. MAXDATASIZE /\ 0 \in 0 .. MaxErrors + 1
  BY V1Assumption DEF Init
<1>2. clients = <<>> /\ backlog = <<>> /\ <<>> \in Seq(Clients) /\ Len(<<>>) = 0
  BY DEF Init, NetInit
<1>3. \A s : s = <<>> => ToSet(s) = {} /\ IsInjective(s)
  BY DEF ToSet, IsInjective
<1>4. <<>> \in Seq(Sizes \cup {EndsLine})
  OBVIOUS
<1>5. LoopTypes
  BY <1>1, <1>2, <1>4 DEF Init, NetInit, LoopTypes, NetTypeOK
<1>6. OnePlace /\ SomebodyWaits /\ FewErrors
  BY <1>2, <1>3 DEF Init, NetInit, OnePlace, SomebodyWaits, FewErrors, Open
<1> QED
  BY <1>5, <1>6 DEF LoopShape

\* Every step of the peers and of the loop keeps the shape.
LEMMA NextShape == LoopShape /\ FewErrors /\ [Next]_vars => LoopShape' /\ FewErrors'
<1> SUFFICES ASSUME LoopShape, FewErrors, [Next]_vars PROVE LoopShape' /\ FewErrors'
  OBVIOUS
<1>1. CASE Peers
  BY <1>1, PeersShape DEF Peers, server_vars, FewErrors, Open
<1>2. CASE Select \/ AcceptFails \/ NothingToAccept \/ EndOfPass
  <2>1. UNCHANGED <<clients, cntwrcmd>>
    BY <1>2 DEF Select, AcceptFails, NothingToAccept, EndOfPass
  <2> QED
    BY <1>2, <2>1, PassShape DEF FewErrors, Open
<1>3. CASE Accept
  <2>1. /\ LoopShape' /\ Head(backlog) \in Clients /\ Open' = Open \cup {Head(backlog)}
        /\ cntwrcmd' = [cntwrcmd EXCEPT ![Head(backlog)] = 0]
    BY <1>3, AcceptFacts DEF Accept
  <2>2. FewErrors'
    BY <2>1, ShapeFacts, V1Assumption DEF FewErrors, LoopShape, LoopTypes
  <2> QED
    BY <2>1, <2>2
<1>4. ASSUME NEW c \in Clients, NEW i, Serve(c, i) PROVE LoopShape' /\ FewErrors'
  BY <1>4, ServeFacts
<1>5. CASE UNCHANGED vars
  BY <1>5 DEF vars, server_vars, net_vars, LoopShape, LoopTypes, NetTypeOK, OnePlace,
              SomebodyWaits, FewErrors, Open
<1> QED
  BY <1>1, <1>2, <1>3, <1>4, <1>5 DEF Next

(***************************************************************************)
(* Every reachable state of the loop has its shape.                        *)
(***************************************************************************)
THEOREM ShapeInvariance == Spec => [](LoopShape /\ FewErrors)
<1> QED
  BY InitShape, NextShape, PTL DEF Spec

(***************************************************************************)
(* A step of the serve loop disposes of one session select reported: those *)
(* behind an erased one move up to where the loop goes on.                 *)
(***************************************************************************)
LEMMA DisposesOfOne ==
    ASSUME LoopShape, FewErrors, NEW c, NEW i, Serve(c, i)
    PROVE  Pending \ Pending' \subseteq {c}
<1> SUFFICES ASSUME NEW d \in Pending, d # c PROVE d \in Pending'
  OBVIOUS
<1>1. /\ readset' = readset /\ Turn(c, i)
      /\ Erase(c, i) \/ Stays(c, i)
  BY ServeFacts
<1>2. /\ clients[i] = c /\ i \in 1 .. Len(clients) /\ it \in Nat \ {0} /\ Len(clients) \in Nat
      /\ \A j \in it .. i - 1 : clients[j] \notin readset
  BY <1>1, TurnFacts, ShapeFacts DEF Turn
<1>3. PICK j \in it .. Len(clients) : clients[j] = d
  BY DEF Pending
<1>4. d \in readset /\ j \in i + 1 .. Len(clients)
  <2>1. d \in readset
    BY DEF Pending
  <2>2. j \notin it .. i - 1 /\ j # i
    BY <1>2, <1>3, <2>1
  <2> QED
    BY <1>2, <2>1, <2>2
<1>5. CASE Stays(c, i)
  BY <1>1, <1>3, <1>4, <1>5 DEF Stays, Pending
<1>6. CASE Erase(c, i)
  <2>1. clients' = RemoveAt(clients, i) /\ it' = i
    BY <1>6 DEF Erase
  <2>2. clients \in Seq(Clients) /\ IsInjective(clients)
    BY ShapeFacts
  <2>3. /\ Len(RemoveAt(clients, i)) = Len(clients) - 1
        /\ \A k \in 1 .. Len(clients) - 1 :
               RemoveAt(clients, i)[k] = IF k < i THEN clients[k] ELSE clients[k + 1]
    BY <1>2, <2>2, RemoveTakes
  <2>4. /\ j - 1 \in 1 .. Len(clients) - 1 /\ j - 1 \in i .. Len(clients) - 1
        /\ ~(j - 1 < i) /\ (j - 1) + 1 = j
    BY <1>2, <1>4
  <2>5. clients'[j - 1] = d /\ Len(clients') = Len(clients) - 1
    BY <1>3, <2>1, <2>3, <2>4
  <2> QED
    BY <1>1, <1>4, <2>1, <2>4, <2>5 DEF Pending
<1> QED
  BY <1>1, <1>5, <1>6

(***************************************************************************)
(* No session is passed over when another is erased (lines 792, 823).       *)
(***************************************************************************)
THEOREM NoneSkipped == Spec => NobodyIsSkipped
<1>1. \A S : S = {} => Cardinality(S) <= 1
  BY FS_EmptySet
<1>2. \A S, e : S = {e} => Cardinality(S) <= 1
  BY FS_Singleton
<1>3. LoopShape /\ FewErrors /\ [Next]_vars
      => [phase = "serve" /\ phase' = "serve" => Cardinality(Pending \ Pending') <= 1]_vars
  <2> SUFFICES ASSUME LoopShape, FewErrors, Next, phase = "serve", phase' = "serve"
               PROVE  Cardinality(Pending \ Pending') <= 1
    OBVIOUS
  <2>1. CASE Peers
    <3>1. Pending \ Pending' = {}
      BY <2>1 DEF Peers, server_vars, Pending
    <3> QED
      BY <1>1, <3>1
  <2>2. ASSUME NEW c \in Clients, NEW i, Serve(c, i)
        PROVE  Cardinality(Pending \ Pending') <= 1
    <3>1. Pending \ Pending' = {} \/ Pending \ Pending' = {c}
      BY <2>2, DisposesOfOne
    <3> QED
      BY <1>1, <1>2, <3>1
  <2> QED
    BY <2>1, <2>2 DEF Next, Select, Accept, AcceptFails, NothingToAccept, EndOfPass
<1> QED
  BY <1>3, ShapeInvariance, PTL DEF Spec, NobodyIsSkipped

-----------------------------------------------------------------------------
(***************************************************************************)
(* What a step does to the sessions and to the mailboxes.                  *)
(***************************************************************************)
Quiet == UNCHANGED <<mail_vars, info_vars>> /\ Open' = Open

Joins(c) ==
    /\ c \in Clients \ Open /\ Open' = Open \cup {c}
    /\ user' = [user EXCEPT ![c] = -1] /\ state' = [state EXCEPT ![c] = "AUTHORIZATION"]
    /\ UNCHANGED mail_vars

\* A command of a session that stays.
Takes(c, n) == c \in Open /\ Open' = Open /\ USER(c, n)
LetsIn(c)   == c \in Open /\ Open' = Open /\ PASS(c)
Marks(c, k) == c \in Open /\ Open' = Open /\ DELE(c, k)
Unmarks(c)  == c \in Open /\ Open' = Open /\ RSET(c)

\* A session ends for its errors, or by QUIT.
Drops(c) ==
    /\ c \in Open /\ Open' = Open \ {c}
    /\ cntwrcmd[c] = MaxErrors /\ Full(c)
    /\ UNCHANGED <<mail_vars, info_vars>>

Quits(c) == c \in Open /\ Open' = Open \ {c} /\ QUIT(c)

Kinds ==
    \/ Quiet
    \/ \E c \in Clients : Joins(c) \/ LetsIn(c) \/ Unmarks(c) \/ Drops(c) \/ Quits(c)
    \/ \E c \in Clients, n \in Users : Takes(c, n)
    \/ \E c \in Clients : \E k : Marks(c, k)

\* There are no other steps.
LEMMA StepKinds ==
    ASSUME LoopShape, FewErrors, SessionTypes, [Next]_vars
    PROVE  Kinds
<1>1. CASE Peers \/ Select \/ AcceptFails \/ NothingToAccept \/ EndOfPass \/ UNCHANGED vars
  BY <1>1 DEF Peers, Select, AcceptFails, NothingToAccept, EndOfPass, vars, server_vars,
              Kinds, Quiet, Open
<1>2. CASE Accept
  <2>1. Joins(Head(backlog)) /\ Head(backlog) \in Clients
    BY <1>2, AcceptFacts DEF Joins, Accept
  <2> QED
    BY <2>1 DEF Kinds
<1>3. ASSUME NEW c \in Clients, NEW i, ServeEnd(c, i) \/ ServePart(c, i) PROVE Kinds
  <2>1. UNCHANGED <<mail_vars, info_vars, clients>>
    BY <1>3 DEF ServeEnd, ServePart
  <2> QED
    BY <2>1 DEF Kinds, Quiet, Open
<1>4. ASSUME NEW c \in Clients, NEW i, ServeTooLong(c, i) PROVE Kinds
  <2>1. UNCHANGED <<mail_vars, info_vars>> /\ Full(c)
    BY <1>4 DEF ServeTooLong
  <2>2. c \in Open /\ cntwrcmd[c] \in 0 .. MaxErrors
    BY <1>4, ServeFacts, V1Assumption DEF Serve, FewErrors, LoopShape, LoopTypes
  <2>3. \/ cntwrcmd[c] + 1 > MaxErrors /\ Erase(c, i)
        \/ UNCHANGED clients
    BY <1>4 DEF ServeTooLong
  <2>4. CASE UNCHANGED clients
    BY <2>1, <2>4 DEF Kinds, Quiet, Open
  <2>5. CASE cntwrcmd[c] + 1 > MaxErrors /\ Erase(c, i) /\ clients' # clients
    <3>1. cntwrcmd[c] = MaxErrors
      BY <2>2, <2>5, V1Assumption
    <3>2. Open' = Open \ {c}
      BY <1>4, <2>5, ServeFacts DEF Serve, Stays
    <3>3. Drops(c)
      BY <2>1, <2>2, <3>1, <3>2 DEF Drops
    <3> QED
      BY <3>3 DEF Kinds
  <2> QED
    BY <2>3, <2>4, <2>5
<1>5. ASSUME NEW c \in Clients, NEW i, ServeLine(c, i) PROVE Kinds
  <2>1. c \in Open /\ state[c] # "UPDATE" /\ string_handler(c)
    BY <1>5, ServeFacts DEF Serve, SessionTypes, ServeLine
  <2>2. CASE state'[c] = "UPDATE"
    <3>1. Erase(c, i)
      BY <1>5, <2>2 DEF ServeLine
    <3>2. clients' # clients
      <4>1. i \in 1 .. Len(clients) /\ clients \in Seq(Clients) /\ IsInjective(clients)
            /\ Len(clients) \in Nat
        BY <1>5, ServeFacts, TurnFacts, ShapeFacts DEF Serve
      <4>2. Len(RemoveAt(clients, i)) = Len(clients) - 1
        BY <4>1, RemoveTakes
      <4> QED
        BY <3>1, <4>1, <4>2 DEF Erase
    <3>3. Open' = Open \ {c}
      BY <1>5, <3>2, ServeFacts DEF Serve, Stays
    <3>4. QUIT(c)
      <4>1. state[c] \in {"AUTHORIZATION", "TRANSACTION"}
        BY <2>1 DEF SessionTypes
      <4>2. UNCHANGED state \/ state' = [state EXCEPT ![c] = "TRANSACTION"] \/ QUIT(c)
        BY <2>1 DEF string_handler, USER, PASS, DELE, RSET, info_vars
      <4> QED
        BY <2>1, <2>2, <4>1, <4>2 DEF SessionTypes
    <3>5. Quits(c)
      BY <2>1, <3>3, <3>4 DEF Quits
    <3> QED
      BY <3>5 DEF Kinds
  <2>3. CASE state'[c] # "UPDATE"
    <3>1. Open' = Open
      BY <1>5, <2>3 DEF ServeLine, Open
    <3>2. ~QUIT(c)
      BY <2>3 DEF QUIT, SessionTypes
    <3> QED
      BY <2>1, <3>1, <3>2 DEF string_handler, Kinds, Quiet, Takes, LetsIn, Marks, Unmarks
  <2> QED
    BY <2>2, <2>3
<1> QED
  BY <1>1, <1>2, <1>3, <1>4, <1>5 DEF Next, Serve

-----------------------------------------------------------------------------
(***************************************************************************)
(* The messages of one mailbox.                                            *)
(***************************************************************************)

\* DELE, RSET and updatemailbox() leave messages, the last two without marks.
LEMMA MessagesFacts ==
    ASSUME NEW s \in Seq(Message)
    PROVE  /\ \A k \in DOMAIN s : [s EXCEPT ![k].del = TRUE] \in Seq(Message)
           /\ Unlabelled(s) \in Seq(Message) /\ Clean(Unlabelled(s))
           /\ updatemailbox(s) \in Seq(Message) /\ Clean(updatemailbox(s))
<1>1. ASSUME NEW k \in DOMAIN s PROVE [s EXCEPT ![k].del = TRUE] \in Seq(Message)
  <2> DEFINE m == [s[k] EXCEPT !.del = TRUE]
  <2>1. s[k] \in Message
    OBVIOUS
  <2>2. m \in Message
    BY <2>1 DEF Message
  <2> HIDE DEF m
  <2>3. s \in [1 .. Len(s) -> Message] /\ Len(s) \in Nat /\ k \in 1 .. Len(s)
    OBVIOUS
  <2>4. [s EXCEPT ![k] = m] \in [1 .. Len(s) -> Message]
    BY <2>2, <2>3
  <2>5. [s EXCEPT ![k] = m] \in Seq(Message)
    BY <2>3, <2>4
  <2> QED
    BY <2>5 DEF m
<1>2. Unlabelled(s) \in Seq(Message) /\ Clean(Unlabelled(s))
  <2>1. \A k \in DOMAIN s : [s[k] EXCEPT !.del = FALSE] \in Message
                            /\ ~[s[k] EXCEPT !.del = FALSE].del
    <3> TAKE k \in DOMAIN s
    <3>1. s[k] \in Message
      OBVIOUS
    <3> QED
      BY <3>1 DEF Message
  <2>2. Len(s) \in Nat /\ DOMAIN s = 1 .. Len(s)
    OBVIOUS
  <2>3. Unlabelled(s) \in Seq(Message) /\ DOMAIN Unlabelled(s) = DOMAIN s
    BY <2>1, <2>2 DEF Unlabelled
  <2>4. \A k \in DOMAIN s : Unlabelled(s)[k] = [s[k] EXCEPT !.del = FALSE]
    BY DEF Unlabelled
  <2> QED
    BY <2>1, <2>3, <2>4 DEF Clean
<1>3. updatemailbox(s) \in Seq(Message) /\ Clean(updatemailbox(s))
  BY KeptProperties DEF updatemailbox, Clean
<1> QED
  BY <1>1, <1>2, <1>3

\* The types of what commands change.
LEMMA TypesStep == ASSUME SessionTypes, Open \subseteq Clients, Kinds PROVE SessionTypes'
<1> USE DEF SessionTypes, mail_vars, info_vars
<1>0. -1 \notin Users
  BY DEF Users
<1>1. CASE Quiet
  BY <1>1 DEF Quiet
<1>2. ASSUME NEW c \in Clients, Joins(c) PROVE SessionTypes'
  BY <1>2 DEF Joins
<1>3. ASSUME NEW c \in Clients, NEW n \in Users, Takes(c, n) PROVE SessionTypes'
  BY <1>3 DEF Takes, USER
<1>4. ASSUME NEW c \in Clients, LetsIn(c) PROVE SessionTypes'
  BY <1>4 DEF LetsIn, PASS
<1>5. ASSUME NEW c \in Clients, NEW k, Marks(c, k) PROVE SessionTypes'
  <2> PICK v : v = user[c]
    OBVIOUS
  <2> PICK d : d = [messages[v] EXCEPT ![k].del = TRUE]
    OBVIOUS
  <2>1. v \in Users /\ k \in DOMAIN messages[v] /\ c \in Open
    BY <1>5 DEF Marks, DELE
  <2>2. messages[v] \in Seq(Message)
    BY <2>1
  <2>3. d \in Seq(Message)
    BY <2>1, <2>2, MessagesFacts
  <2>4. messages' = [messages EXCEPT ![v] = d]
    BY <1>5 DEF Marks, DELE
  <2>5. messages' \in [Users -> Seq(Message)]
    BY <2>1, <2>3, <2>4
  <2> QED
    BY <1>5, <2>5 DEF Marks, DELE
<1>6. ASSUME NEW c \in Clients, Unmarks(c) PROVE SessionTypes'
  <2>1. user[c] \in Users
    BY <1>6 DEF Unmarks, RSET
  <2>2. Unlabelled(messages[user[c]]) \in Seq(Message)
    BY <2>1, MessagesFacts
  <2>3. messages' \in [Users -> Seq(Message)]
    BY <1>6, <2>1, <2>2 DEF Unmarks, RSET
  <2> QED
    BY <1>6, <2>3 DEF Unmarks, RSET
<1>7. ASSUME NEW c \in Clients, Drops(c) PROVE SessionTypes'
  BY <1>7 DEF Drops
<1>8. ASSUME NEW c \in Clients, Quits(c) PROVE SessionTypes'
  <2>1. messages' \in [Users -> Seq(Message)] /\ used' \in [Users -> BOOLEAN]
    <3>1. CASE user[c] = -1
      BY <1>8, <3>1 DEF Quits, QUIT, Leave
    <3>2. CASE user[c] # -1
      <4>1. updatemailbox(messages[user[c]]) \in Seq(Message)
        BY <3>2, MessagesFacts
      <4> QED
        BY <1>8, <3>2, <4>1 DEF Quits, QUIT, Leave
    <3> QED
      BY <3>1, <3>2
  <2> QED
    BY <1>8, <2>1 DEF Quits, QUIT
<1> QED
  BY <1>1, <1>2, <1>3, <1>4, <1>5, <1>6, <1>7, <1>8 DEF Kinds

-----------------------------------------------------------------------------
(***************************************************************************)
(* Who holds what, and what is locked, after each kind of step.            *)
(***************************************************************************)

\* Steps by which nobody comes to hold a mailbox, or ceases to.
LEMMA SameHolders ==
    ASSUME SessionTypes, Open \subseteq Clients,
           \/ Quiet
           \/ \E c \in Clients : Joins(c) \/ LetsIn(c) \/ Unmarks(c) \/ \E k : Marks(c, k)
    PROVE  used' = used /\ \A u \in Users : Holders(u)' = Holders(u)
<1> USE DEF SessionTypes, Holders, mail_vars, info_vars
<1>0. -1 \notin Users
  BY DEF Users
<1>1. CASE Quiet
  BY <1>1 DEF Quiet
<1>2. ASSUME NEW c \in Clients, Joins(c)
      PROVE  used' = used /\ \A u \in Users : Holders(u)' = Holders(u)
  BY <1>0, <1>2 DEF Joins
<1>3. ASSUME NEW c \in Clients, LetsIn(c) \/ Unmarks(c) \/ \E k : Marks(c, k)
      PROVE  used' = used /\ \A u \in Users : Holders(u)' = Holders(u)
  BY <1>3 DEF LetsIn, PASS, Unmarks, RSET, Marks, DELE
<1> QED
  BY <1>1, <1>2, <1>3

\* USER takes a free mailbox and gives up the one named before.
LEMMA TakesEffect ==
    ASSUME SessionTypes, OneHolder, Open \subseteq Clients,
           NEW c \in Clients, NEW m \in Users, Takes(c, m)
    PROVE  /\ ~used[m] /\ Holders(m) = {} /\ UNCHANGED <<messages, state>>
           /\ state[c] = "AUTHORIZATION"
           /\ \A u \in Users :
                  /\ used'[u] = (u = m \/ (used[u] /\ c \notin Holders(u)))
                  /\ Holders(u)' = IF u = m THEN {c} ELSE Holders(u) \ {c}
<1>1. /\ c \in Open /\ Open' = Open /\ state[c] = "AUTHORIZATION" /\ ~used[m]
      /\ used' = [u \in Users |-> u = m \/ (used[u] /\ u # user[c])]
      /\ user' = [user EXCEPT ![c] = m] /\ UNCHANGED <<messages, state>>
  BY DEF Takes, USER, Free
<1>2. Holders(m) = {}
  BY <1>1 DEF OneHolder
<1>3. \A u \in Users : c \in Holders(u) <=> u = user[c]
  BY <1>1 DEF Holders
<1>4. \A u \in Users : used'[u] = (u = m \/ (used[u] /\ c \notin Holders(u)))
  BY <1>1, <1>3
<1>5. ASSUME NEW u \in Users PROVE Holders(u)' = IF u = m THEN {c} ELSE Holders(u) \ {c}
  <2> PICK S : S = Holders(u)'
    OBVIOUS
  <2>1. \A d : d \in S <=> d \in Open /\ user'[d] = u
    BY <1>1 DEF Holders
  <2>2. \A d \in Open : user'[d] = IF d = c THEN m ELSE user[d]
    BY <1>1 DEF SessionTypes
  <2>3. \A d : d \in Holders(u) <=> d \in Open /\ user[d] = u
    BY DEF Holders
  <2>4. CASE u = m
    <3>1. c \in S /\ \A d \in S : d = c
      BY <1>1, <1>2, <2>1, <2>2, <2>3, <2>4
    <3> QED
      BY <2>4, <3>1
  <2>5. CASE u # m
    <3>1. \A d : d \in S <=> d \in Holders(u) /\ d # c
      BY <1>1, <2>1, <2>2, <2>3, <2>5
    <3> QED
      BY <2>5, <3>1
  <2> QED
    BY <2>4, <2>5
<1> QED
  BY <1>1, <1>2, <1>4, <1>5

\* A session ends: QUIT releases its mailbox, updated; too many errors do not.
LEMMA EndEffect ==
    ASSUME SessionTypes, NEW c \in Clients, Drops(c) \/ Quits(c)
    PROVE  /\ \A u \in Users : Holders(u)' = Holders(u) \ {c}
           /\ \A u \in Users : c \notin Holders(u) =>
                  used'[u] = used[u] /\ messages'[u] = messages[u]
           /\ \A d : d # c => state'[d] = state[d]
           /\ Drops(c) => UNCHANGED <<used, messages>>
           /\ Quits(c) => \A u \in Users : c \in Holders(u) => ~used'[u] /\ Clean(messages'[u])
<1>1. CASE Drops(c)
  <2>1. ~Quits(c) \/ Quits(c) => c \in Open /\ Open' = Open \ {c}
    BY <1>1 DEF Drops
  <2>2. UNCHANGED <<used, messages, user, state>> /\ Open' = Open \ {c}
    BY <1>1 DEF Drops, mail_vars, info_vars
  <2>3. ~Quits(c)
    BY <2>2 DEF Quits, QUIT, SessionTypes
  <2> QED
    BY <2>2, <2>3 DEF Holders
<1>2. CASE Quits(c)
  <2>1. /\ c \in Open /\ Open' = Open \ {c} /\ user' = user
        /\ state' = [state EXCEPT ![c] = "UPDATE"] /\ Leave(c)
        /\ state[c] \in {"AUTHORIZATION", "TRANSACTION"}
    BY <1>2 DEF Quits, QUIT
  <2>2. \A u \in Users : c \in Holders(u) <=> u = user[c]
    BY <2>1 DEF Holders
  <2>3. \A u \in Users : Holders(u)' = Holders(u) \ {c}
    BY <2>1 DEF Holders
  <2>4. ~Drops(c)
    BY <2>1 DEF Drops, info_vars, SessionTypes
  <2>5. \A d : d # c => state'[d] = state[d]
    BY <2>1 DEF SessionTypes
  <2>6. CASE user[c] = -1
    <3>1. UNCHANGED <<used, messages>>
      BY <2>1, <2>6 DEF Leave, mail_vars
    <3>2. user[c] \notin Users
      BY <2>6 DEF Users
    <3> QED
      BY <2>2, <2>3, <2>4, <2>5, <3>1, <3>2
  <2>7. CASE user[c] # -1
    <3> PICK v : v = user[c]
      OBVIOUS
    <3>1. v \in Users /\ messages[v] \in Seq(Message)
      BY <2>7 DEF SessionTypes
    <3>2. /\ used' = [used EXCEPT ![v] = FALSE]
          /\ messages' = [messages EXCEPT ![v] = updatemailbox(messages[v])]
      BY <2>1, <2>7 DEF Leave
    <3>3. Clean(updatemailbox(messages[v]))
      BY <3>1, MessagesFacts
    <3>4. /\ ~used'[v] /\ Clean(messages'[v])
          /\ \A u \in Users : u # v => used'[u] = used[u] /\ messages'[u] = messages[u]
      BY <3>1, <3>2, <3>3 DEF SessionTypes
    <3> QED
      BY <2>2, <2>3, <2>4, <2>5, <3>4
  <2> QED
    BY <2>6, <2>7
<1> QED
  BY <1>1, <1>2

\* A mailbox keeps its one session, and is locked while it has one.
LEMMA OneHolderStep ==
    ASSUME SessionTypes, OneHolder, Open \subseteq Clients, Kinds
    PROVE  OneHolder'
<1> SUFFICES ASSUME NEW u \in Users
             PROVE  (\A d, e \in Holders(u)' : d = e) /\ (Holders(u)' # {} => used'[u])
  BY DEF OneHolder
<1>1. (\A d, e \in Holders(u) : d = e) /\ (Holders(u) # {} => used[u])
  BY DEF OneHolder
<1>2. CASE \/ Quiet
           \/ \E c \in Clients : Joins(c) \/ LetsIn(c) \/ Unmarks(c) \/ \E k : Marks(c, k)
  <2>1. used' = used /\ Holders(u)' = Holders(u)
    BY <1>2, SameHolders
  <2> QED
    BY <1>1, <2>1
<1>3. ASSUME NEW c \in Clients, NEW m \in Users, Takes(c, m)
      PROVE  (\A d, e \in Holders(u)' : d = e) /\ (Holders(u)' # {} => used'[u])
  <2>1. /\ used'[u] = (u = m \/ (used[u] /\ c \notin Holders(u)))
        /\ Holders(u)' = IF u = m THEN {c} ELSE Holders(u) \ {c}
    BY <1>3, TakesEffect
  <2> QED
    BY <1>1, <2>1
<1>4. ASSUME NEW c \in Clients, Drops(c) \/ Quits(c)
      PROVE  (\A d, e \in Holders(u)' : d = e) /\ (Holders(u)' # {} => used'[u])
  <2>1. /\ Holders(u)' = Holders(u) \ {c}
        /\ c \notin Holders(u) => used'[u] = used[u]
    BY <1>4, EndEffect
  <2> QED
    BY <1>1, <2>1
<1> QED
  BY <1>2, <1>3, <1>4 DEF Kinds

\* No step leaves a mark in a mailbox that is free or not opened.
LEMMA CleanStep ==
    ASSUME SessionsInv, Open \subseteq Clients, Kinds
    PROVE  CleanUntilLetIn'
<1> SUFFICES ASSUME NEW u \in Users,
                    ~used'[u] \/ \E c \in Holders(u)' : state'[c] = "AUTHORIZATION"
             PROVE  Clean(messages'[u])
  BY DEF CleanUntilLetIn
<1> USE DEF SessionsInv
<1>1. ~used[u] \/ (\E c \in Holders(u) : state[c] = "AUTHORIZATION") => Clean(messages[u])
  BY DEF CleanUntilLetIn
<1>2. (\A d, e \in Holders(u) : d = e) /\ (Holders(u) # {} => used[u])
  BY DEF OneHolder
<1>3. CASE Quiet
  BY <1>1, <1>3, SameHolders DEF Quiet, mail_vars, info_vars
<1>4. ASSUME NEW c \in Clients, Joins(c) PROVE Clean(messages'[u])
  <2>1. used' = used /\ Holders(u)' = Holders(u) /\ messages' = messages
    BY <1>4, SameHolders DEF Joins, mail_vars
  <2>2. \A d \in Holders(u) : state'[d] = state[d]
    BY <1>4 DEF Joins, Holders, SessionTypes
  <2> QED
    BY <1>1, <2>1, <2>2
<1>5. ASSUME NEW c \in Clients, LetsIn(c) PROVE Clean(messages'[u])
  <2>1. used' = used /\ Holders(u)' = Holders(u) /\ messages' = messages
    BY <1>5, SameHolders DEF LetsIn, PASS, mail_vars
  <2>2. \A d \in Holders(u) : state'[d] = "AUTHORIZATION" => state[d] = "AUTHORIZATION"
    BY <1>5 DEF LetsIn, PASS, SessionTypes
  <2> QED
    BY <1>1, <2>1, <2>2
<1>6. ASSUME NEW c \in Clients, Unmarks(c) \/ \E k : Marks(c, k) PROVE Clean(messages'[u])
  <2>1. used' = used /\ Holders(u)' = Holders(u)
    BY <1>6, SameHolders
  <2>2. state' = state /\ state[c] = "TRANSACTION" /\ c \in Open
    BY <1>6 DEF Unmarks, RSET, Marks, DELE, info_vars
  <2>3. u # user[c]
    <3>1. user[c] = u => c \in Holders(u)
      BY <2>2 DEF Holders
    <3> QED
      BY <1>2, <2>1, <2>2, <3>1
  <2>4. messages'[u] = messages[u]
    BY <1>6, <2>3 DEF Unmarks, RSET, Marks, DELE, SessionTypes
  <2> QED
    BY <1>1, <2>1, <2>2, <2>4
<1>7. ASSUME NEW c \in Clients, NEW m \in Users, Takes(c, m) PROVE Clean(messages'[u])
  <2>1. /\ ~used[m] /\ UNCHANGED <<messages, state>>
        /\ state[c] = "AUTHORIZATION"
        /\ used'[u] = (u = m \/ (used[u] /\ c \notin Holders(u)))
        /\ Holders(u)' = IF u = m THEN {c} ELSE Holders(u) \ {c}
    BY <1>7, TakesEffect
  <2> QED
    BY <1>1, <2>1
<1>8. ASSUME NEW c \in Clients, Drops(c) \/ Quits(c) PROVE Clean(messages'[u])
  <2>1. /\ Holders(u)' = Holders(u) \ {c}
        /\ c \notin Holders(u) => used'[u] = used[u] /\ messages'[u] = messages[u]
        /\ \A d : d # c => state'[d] = state[d]
        /\ Drops(c) => UNCHANGED <<used, messages>>
        /\ Quits(c) => (c \in Holders(u) => ~used'[u] /\ Clean(messages'[u]))
    BY <1>8, EndEffect
  <2>2. CASE c \notin Holders(u)
    BY <1>1, <2>1, <2>2
  <2>3. CASE c \in Holders(u)
    BY <1>2, <1>8, <2>1, <2>3
  <2> QED
    BY <2>2, <2>3
<1> QED
  BY <1>3, <1>4, <1>5, <1>6, <1>7, <1>8 DEF Kinds

\* No mailbox is locked at the start, and none marked.
LEMMA InitSessions == Init => SessionsInv
<1> SUFFICES ASSUME Init PROVE SessionsInv
  OBVIOUS
<1>1. Open = {}
  BY DEF Init, Open, ToSet
<1>2. messages \in [Users -> Seq(Message)] /\ \A u \in Users : Clean(messages[u])
  <2>1. \A u \in Users : Stored(u) \in Nat /\ Stored(u) <= MaxMessages
    BY V1Assumption DEF Stored
  <2>2. \A u \in Users : [k \in 1 .. Stored(u) |-> [st |-> k, del |-> FALSE]] \in Seq(Message)
    <3> TAKE u \in Users
    <3>1. \A k \in 1 .. Stored(u) : [st |-> k, del |-> FALSE] \in Message
      BY <2>1, V1Assumption DEF Message
    <3> QED
      BY <2>1, <3>1
  <2> QED
    BY <2>2 DEF Init, Clean
<1>3. SessionTypes
  BY <1>1, <1>2 DEF Init, SessionTypes
<1>4. OneHolder /\ CleanUntilLetIn
  BY <1>1, <1>2 DEF OneHolder, CleanUntilLetIn, Holders
<1> QED
  BY <1>3, <1>4 DEF SessionsInv

\* What the sessions, the locks and the marks have to do with each other.
THEOREM SessionsInvariance == Spec => []SessionsInv
<1>1. LoopShape /\ FewErrors /\ SessionsInv /\ [Next]_vars => SessionsInv'
  <2> SUFFICES ASSUME LoopShape, FewErrors, SessionsInv, [Next]_vars PROVE SessionsInv'
    OBVIOUS
  <2>1. Open \subseteq Clients /\ Kinds
    BY ShapeFacts, StepKinds DEF SessionsInv
  <2> QED
    BY <2>1, TypesStep, OneHolderStep, CleanStep DEF SessionsInv
<1> QED
  BY <1>1, InitSessions, ShapeInvariance, PTL DEF Spec

(***************************************************************************)
(* A mailbox has at most one session, it is locked while it has one, and a *)
(* free one has no mark.                                                   *)
(***************************************************************************)
THEOREM V1Correct == Spec => []V1Inv
<1>1. LoopShape /\ SessionsInv => V1Inv
  <2> SUFFICES ASSUME LoopShape, SessionsInv PROVE V1Inv
    OBVIOUS
  <2>1. \A u \in Users : \A k \in DOMAIN messages[u] : messages[u][k].st \in 1 .. MaxMessages
    <3> TAKE u \in Users
    <3>1. messages[u] \in Seq(Message)
      BY DEF SessionsInv, SessionTypes
    <3>2. \A k \in DOMAIN messages[u] : messages[u][k] \in Message
      BY <3>1
    <3> QED
      BY <3>2 DEF Message
  <2>2. TypeOK
    BY <2>1 DEF LoopShape, LoopTypes, OnePlace, SessionsInv, SessionTypes, TypeOK
  <2>3. FreeIsUnmarked
    BY DEF SessionsInv, CleanUntilLetIn, Clean, FreeIsUnmarked
  <2> QED
    BY <2>2, <2>3 DEF V1Inv, SessionsInv
<1> QED
  BY <1>1, ShapeInvariance, SessionsInvariance, PTL

(***************************************************************************)
(* A lock outlives its session only when the loop closes the session for   *)
(* its errors, and then nothing of the mailbox is erased.                  *)
(***************************************************************************)
THEOREM ErrorsLeak == Spec => OnlyErrorsLeak
<1>1. ASSUME LoopShape, FewErrors, SessionsInv, [Next]_vars,
             NEW u \in Users, NEW c \in Holders(u), c \notin Open', used'[u]
      PROVE  /\ cntwrcmd[c] = MaxErrors /\ Full(c)
             /\ messages'[u] = messages[u]
  <2>1. Open \subseteq Clients /\ Kinds
    BY <1>1, ShapeFacts, StepKinds DEF SessionsInv
  <2>2. c \in Open
    BY DEF Holders
  <2>3. c \in Clients /\ (Drops(c) \/ Quits(c))
    BY <1>1, <2>1, <2>2 DEF Kinds, Quiet, Joins, Takes, LetsIn, Marks, Unmarks, Drops, Quits
  <2>4. ~Quits(c)
    BY <1>1, <2>3, EndEffect DEF SessionsInv
  <2> QED
    BY <2>3, <2>4 DEF Drops, mail_vars
<1>2. LoopShape /\ FewErrors /\ SessionsInv /\ [Next]_vars
      => [\A u \in Users : \A c \in Holders(u) :
             c \notin Open' /\ used'[u] =>
                 /\ cntwrcmd[c] = MaxErrors /\ Full(c)
                 /\ messages'[u] = messages[u]]_vars
  BY <1>1
<1> QED
  BY <1>2, ShapeInvariance, SessionsInvariance, PTL DEF Spec, OnlyErrorsLeak

-----------------------------------------------------------------------------
(***************************************************************************)
(* The refinement of Locks.  Hold is what MultiplexV1 puts for holder.     *)
(***************************************************************************)
Hold == [u \in Users |-> IF Holders(u) # {} THEN CHOOSE c \in Holders(u) : TRUE
                         ELSE IF used[u] THEN Lost ELSE Nobody]

HoldIsSession ==
    \A u \in Users : /\ \A c \in Holders(u) : Hold[u] = c
                     /\ Holders(u) = {} => Hold[u] = IF used[u] THEN Lost ELSE Nobody

\* The holder is the session, if there is one.
LEMMA HoldIs == SessionsInv => HoldIsSession
  BY DEF SessionsInv, OneHolder, Hold, HoldIsSession

\* And so it is after a step.
LEMMA HoldIsNext == SessionsInv' => HoldIsSession'
  BY HoldIs, PTL

\* The holder of a mailbox changes only with its sessions and with used.
LEMMA HoldSame ==
    ASSUME HoldIsSession, HoldIsSession', NEW u \in Users,
           used'[u] = used[u], Holders(u)' = Holders(u)
    PROVE  Hold'[u] = Hold[u]
<1>1. CASE Holders(u) = {}
  BY <1>1 DEF HoldIsSession
<1>2. ASSUME NEW c \in Holders(u) PROVE Hold'[u] = Hold[u]
  <2>1. Hold[u] = c /\ c \in Holders(u)'
    BY DEF HoldIsSession
  <2>2. Hold'[u] = c
    BY <2>1 DEF HoldIsSession
  <2> QED
    BY <2>1, <2>2
<1> QED
  BY <1>1, <1>2

\* Every step does to the locks what Locks allows, or nothing.
LEMMA HoldStep ==
    ASSUME SessionsInv, SessionsInv', Open \subseteq Clients, Kinds
    PROVE  [Boxes!Next]_Hold
<1>1. HoldIsSession /\ HoldIsSession'
  BY HoldIs, HoldIsNext
<1>2. CASE \/ Quiet
           \/ \E c \in Clients : Joins(c) \/ LetsIn(c) \/ Unmarks(c) \/ \E k : Marks(c, k)
  <2>1. used' = used /\ \A u \in Users : Holders(u)' = Holders(u)
    BY <1>2, SameHolders DEF SessionsInv
  <2>2. \A u \in Users : Hold'[u] = Hold[u]
    BY <1>1, <2>1, HoldSame
  <2> QED
    BY <2>2 DEF Hold
<1>3. ASSUME NEW c \in Clients, NEW m \in Users, Takes(c, m) PROVE Boxes!Next
  <2>1. /\ ~used[m] /\ Holders(m) = {}
        /\ \A u \in Users :
               /\ used'[u] = (u = m \/ (used[u] /\ c \notin Holders(u)))
               /\ Holders(u)' = IF u = m THEN {c} ELSE Holders(u) \ {c}
    BY <1>3, TakesEffect DEF SessionsInv
  <2>2. Hold[m] = Nobody /\ Hold'[m] = c
    BY <1>1, <2>1 DEF HoldIsSession
  <2>3. ASSUME NEW u \in Users, u # m
        PROVE  Hold'[u] = IF Hold[u] = c THEN Nobody ELSE Hold[u]
    <3>1. /\ used'[u] = (used[u] /\ c \notin Holders(u))
          /\ Holders(u)' = Holders(u) \ {c}
      BY <2>1, <2>3
    <3>2. CASE c \in Holders(u)
      <4>1. Holders(u)' = {} /\ ~used'[u]
        BY <3>1, <3>2 DEF SessionsInv, OneHolder
      <4>2. Hold[u] = c /\ Hold'[u] = Nobody
        BY <1>1, <3>2, <4>1 DEF HoldIsSession
      <4> QED
        BY <4>2
    <3>3. CASE c \notin Holders(u)
      <4>1. used'[u] = used[u] /\ Holders(u)' = Holders(u)
        BY <3>1, <3>3 DEF SessionsInv, SessionTypes
      <4>2. Hold'[u] = Hold[u]
        BY <1>1, <4>1, HoldSame
      <4>3. Hold[u] # c \/ Hold[u] = Nobody
        BY <1>1, <3>3, V1Assumption DEF HoldIsSession
      <4> QED
        BY <4>2, <4>3
    <3> QED
      BY <3>2, <3>3
  <2>4. Hold' = [u \in Users |-> IF u = m THEN c ELSE IF Hold[u] = c THEN Nobody ELSE Hold[u]]
    <3>1. Hold' = [u \in Users |-> Hold'[u]]
      BY DEF Hold
    <3>2. \A u \in Users : Hold'[u] = IF u = m THEN c ELSE IF Hold[u] = c THEN Nobody ELSE Hold[u]
      BY <2>2, <2>3
    <3> QED
      BY <3>1, <3>2
  <2>5. Boxes!Lock(c, m)
    BY <2>2, <2>4 DEF Boxes!Lock, Hold
  <2> QED
    BY <2>5 DEF Boxes!Next
<1>4. ASSUME NEW c \in Clients, Drops(c) \/ Quits(c) PROVE [Boxes!Next]_Hold
  <2>1. \A u \in Users : /\ Holders(u)' = Holders(u) \ {c}
                         /\ c \notin Holders(u) => used'[u] = used[u]
    BY <1>4, EndEffect DEF SessionsInv
  <2>2. \A u \in Users : c \notin Holders(u) => Hold'[u] = Hold[u]
    BY <1>1, <2>1, HoldSame
  <2>3. CASE \A u \in Users : c \notin Holders(u)
    BY <2>2, <2>3 DEF Hold
  <2>4. ASSUME NEW m \in Users, c \in Holders(m) PROVE Boxes!Next
    <3>1. \A u \in Users : u # m => c \notin Holders(u)
      BY <2>4 DEF Holders
    <3>2. Holders(m)' = {}
      BY <2>1, <2>4 DEF SessionsInv, OneHolder
    <3>3. Hold[m] = c /\ Hold'[m] \in {Nobody, Lost}
      BY <1>1, <2>4, <3>2 DEF HoldIsSession
    <3>4. Hold' = [Hold EXCEPT ![m] = Nobody] \/ Hold' = [Hold EXCEPT ![m] = Lost]
      BY <2>2, <3>1, <3>3 DEF Hold
    <3>5. Boxes!GiveUp(m, Nobody) \/ Boxes!GiveUp(m, Lost)
      BY <3>3, <3>4 DEF Boxes!GiveUp, Hold
    <3> QED
      BY <3>5 DEF Boxes!Next
  <2> QED
    BY <2>3, <2>4
<1> QED
  BY <1>2, <1>3, <1>4 DEF Kinds

(***************************************************************************)
(* used is a lock for every mailbox, as Locks has it: USER takes a free    *)
(* one and gives up the one it had in one step, only QUIT releases, and a  *)
(* lost lock stays lost.                                                   *)
(***************************************************************************)
THEOREM Refinement == Spec => ImplementsLocks
<1>1. Init => Boxes!Init
  <2> SUFFICES ASSUME Init PROVE Boxes!Init
    OBVIOUS
  <2>1. Open = {}
    BY DEF Init, Open, ToSet
  <2> QED
    BY <2>1 DEF Init, Boxes!Init, Holders
<1>2. LoopShape /\ FewErrors /\ SessionsInv /\ SessionsInv' /\ [Next]_vars => [Boxes!Next]_Hold
  <2> SUFFICES ASSUME LoopShape, FewErrors, SessionsInv, SessionsInv', [Next]_vars
               PROVE  [Boxes!Next]_Hold
    OBVIOUS
  <2>1. Open \subseteq Clients /\ Kinds
    BY ShapeFacts, StepKinds DEF SessionsInv
  <2> QED
    BY <2>1, HoldStep
<1> QED
  BY <1>1, <1>2, ShapeInvariance, SessionsInvariance, PTL
     DEF Spec, ImplementsLocks, Boxes!Spec, Hold
=============================================================================
