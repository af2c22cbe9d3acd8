------------------------- MODULE EvgenMultipProofs -------------------------
(***************************************************************************)
(* Proofs about EvgenMultip, for every set of peers, mailboxes and chunks  *)
(* and every number of descriptors.                                        *)
(*                                                                         *)
(* The shape of the loop (LoopShape: where a connection is, what select    *)
(* reported) owes nothing to the commands.  With it every step does one of *)
(* a few things to the sessions and to u (Kinds), and that is all the      *)
(* locks depend on.                                                        *)
(***************************************************************************)
EXTENDS EvgenMultip, VectorProofs

LoopTypes ==
    /\ s_sock \in Seq(Clients) /\ Len(s_sock) <= MaxSock /\ MaxSock \in Limits
    /\ phase \in {"select", "accept", "serve", "dead"}
    /\ readset \subseteq Clients \cup {Listener}
    /\ it \in 1 .. MaxSock + 2
    /\ buf \in [Clients -> 0 .. BufMax]
    /\ NetTypeOK

\* A connected peer is in the backlog or has a session, and is there once.
OnePlace ==
    /\ IsInjective(s_sock) /\ IsInjective(backlog)
    /\ Open \cap ToSet(backlog) = {}
    /\ \A c \in Clients : peer[c] = "idle" <=> c \notin Open \cup ToSet(backlog)

\* What is to be accepted stays in the backlog.
SomebodyWaits == phase = "accept" /\ Listener \in readset => backlog # <<>>

LoopShape == LoopTypes /\ OnePlace /\ SomebodyWaits

LockTypes ==
    /\ u \in [Users -> BOOLEAN]
    /\ numb \in [Clients -> Users \cup {None}] /\ stage \in [Clients -> 0 .. 2]
    /\ \A c \in Open : (stage[c] = 0) <=> (numb[c] = None)

\* A mailbox has at most one session, and is in use while it has one.
OneHolder ==
    \A n \in Users : /\ Holders(n) # {} => u[n]
                     /\ \A c, d \in Holders(n) : c = d

LocksInv == LockTypes /\ OneHolder

-----------------------------------------------------------------------------
\* The shape of the loop, ready to use.
LEMMA ShapeFacts ==
    ASSUME LoopShape
    PROVE  /\ MaxSock \in Nat \ {0} /\ Len(s_sock) \in Nat /\ it \in Nat \ {0}
           /\ s_sock \in Seq(Clients) /\ backlog \in Seq(Clients)
           /\ IsInjective(s_sock) /\ IsInjective(backlog)
           /\ \A i \in 1 .. Len(s_sock) : s_sock[i] \in Clients /\ s_sock[i] \in Open
           /\ Open \subseteq Clients /\ ToSet(backlog) \subseteq Clients
           /\ Open \cap ToSet(backlog) = {}
           /\ \A c \in Clients : peer[c] \in {"idle", "up", "closed", "reset"}
           /\ \A c \in Clients : inbox[c] \in Seq(Parts \cup {EndsLine})
           /\ Listener \notin Clients
<1>1. s_sock \in Seq(Clients) /\ backlog \in Seq(Clients) /\ MaxSock \in Limits
  BY DEF LoopShape, LoopTypes, NetTypeOK
<1>2. IsInjective(s_sock) /\ IsInjective(backlog) /\ Open \cap ToSet(backlog) = {}
  BY DEF LoopShape, OnePlace
<1>3. /\ \A c \in Clients : peer[c] \in {"idle", "up", "closed", "reset"}
      /\ \A c \in Clients : inbox[c] \in Seq(Parts \cup {EndsLine})
  BY DEF LoopShape, LoopTypes, NetTypeOK
<1>4. MaxSock \in Nat \ {0} /\ Listener \notin Clients
  BY <1>1, MultipAssumption
<1>5. Len(s_sock) \in Nat /\ \A i \in 1 .. Len(s_sock) : s_sock[i] \in Clients
  BY <1>1
<1>6. it \in Nat \ {0}
  BY <1>4 DEF LoopShape, LoopTypes
<1> QED
  BY <1>1, <1>2, <1>3, <1>4, <1>5, <1>6, Elements DEF Open

\* A step that moves no connection from one place to another.
LEMMA SamePlaces ==
    ASSUME LoopShape, LoopTypes', UNCHANGED <<s_sock, backlog>>,
           \A c \in Clients : peer'[c] = "idle" <=> peer[c] = "idle",
           phase' = "accept" /\ Listener \in readset' => backlog # <<>>
    PROVE  LoopShape'
  BY DEF LoopShape, OnePlace, Open, SomebodyWaits

\* Peers dial when they are idle, and nothing else of them moves a connection.
LEMMA PeersShape ==
    ASSUME LoopShape, Peers
    PROVE  LoopShape'
<1>1. PICK c \in Clients : Dial(c) \/ Transmit(c) \/ Depart(c)
  BY DEF Peers, PeerActs
<1>2. UNCHANGED <<s_sock, phase, readset, it, buf, MaxSock>>
  BY DEF Peers, loop_vars
<1>3. CASE Dial(c)
  <2>1. c \notin Open /\ c \notin ToSet(backlog)
    BY <1>3 DEF Dial, LoopShape, OnePlace
  <2>2. /\ backlog' \in Seq(Clients) /\ backlog' # <<>> /\ IsInjective(backlog)'
        /\ ToSet(backlog)' = ToSet(backlog) \cup {c}
    BY <1>3, <2>1, ShapeFacts, AppendAdds DEF Dial
  <2>3. peer' = [peer EXCEPT ![c] = "up"] /\ inbox' = inbox
    BY <1>3 DEF Dial
  <2>4. LoopTypes'
    BY <1>2, <2>2, <2>3 DEF LoopShape, LoopTypes, NetTypeOK
  <2>5. OnePlace'
    BY <1>2, <2>1, <2>2, <2>3 DEF LoopShape, LoopTypes, NetTypeOK, OnePlace, Open
  <2> QED
    BY <2>2, <2>4, <2>5 DEF LoopShape, SomebodyWaits
<1>4. CASE Transmit(c)
  <2>1. PICK chunk \in Parts \cup {EndsLine} : inbox' = [inbox EXCEPT ![c] = Append(inbox[c], chunk)]
    BY <1>4 DEF Transmit
  <2>2. UNCHANGED <<peer, backlog>>
    BY <1>4 DEF Transmit
  <2>3. Append(inbox[c], chunk) \in Seq(Parts \cup {EndsLine})
    BY ShapeFacts, AppendAdds
  <2>4. LoopTypes'
    BY <1>2, <2>1, <2>2, <2>3 DEF LoopShape, LoopTypes, NetTypeOK
  <2> QED
    BY <1>2, <2>2, <2>4, SamePlaces DEF LoopShape, SomebodyWaits
<1>5. CASE Depart(c)
  <2>1. PICK how \in {"closed", "reset"} : peer' = [peer EXCEPT ![c] = how]
    BY <1>5 DEF Depart
  <2>2. UNCHANGED <<backlog, inbox>> /\ peer[c] = "up"
    BY <1>5 DEF Depart
  <2>3. LoopTypes'
    BY <1>2, <2>1, <2>2 DEF LoopShape, LoopTypes, NetTypeOK
  <2>4. \A d \in Clients : peer'[d] = "idle" <=> peer[d] = "idle"
    BY <2>1, <2>2 DEF LoopShape, LoopTypes, NetTypeOK
  <2> QED
    BY <1>2, <2>2, <2>3, <2>4, SamePlaces DEF LoopShape, SomebodyWaits
<1> QED
  BY <1>1, <1>3, <1>4, <1>5

\* The steps of the loop that touch no session.
LEMMA PassShape ==
    ASSUME LoopShape, Select \/ AcceptFails \/ NothingToAccept \/ EndOfPass
    PROVE  LoopShape'
<1>1. UNCHANGED <<s_sock, buf, peer, backlog, inbox, MaxSock>> /\ it' \in {it, 1}
  BY DEF Select, AcceptFails, NothingToAccept, EndOfPass, net_vars
<1>2. Ready \subseteq Clients \cup {Listener} /\ (Listener \in Ready => backlog # <<>>)
  BY ShapeFacts DEF Ready, Open
<1>3. /\ phase' \in {"select", "accept", "serve", "dead"}
      /\ readset' \in {readset, Ready, {}}
      /\ phase' = "accept" => readset' = Ready
  BY DEF Select, AcceptFails, NothingToAccept, EndOfPass
<1>4. 1 \in 1 .. MaxSock + 2
  BY ShapeFacts
<1>5. LoopTypes'
  BY <1>1, <1>2, <1>3, <1>4 DEF LoopShape, LoopTypes, NetTypeOK
<1> QED
  BY <1>1, <1>2, <1>3, <1>5, SamePlaces

\* No connection is made or ended by a send().
LEMMA SendKeeps ==
    ASSUME LoopShape, NEW c \in Clients, NEW p \in AfterSend(c), peer' = [peer EXCEPT ![c] = p]
    PROVE  /\ peer' \in [Clients -> {"idle", "up", "closed", "reset"}]
           /\ \A d \in Clients : peer'[d] = "idle" <=> peer[d] = "idle"
  BY DEF LoopShape, LoopTypes, NetTypeOK, AfterSend

\* A connection moves from the backlog to the end of the vector.
LEMMA AcceptsFacts ==
    ASSUME LoopShape, Accepts
    PROVE  /\ Head(backlog) \in Clients /\ Head(backlog) \notin Open
           /\ Open' = Open \cup {Head(backlog)}
           /\ LoopShape'
<1> DEFINE c == Head(backlog)
<1>1. /\ phase = "accept" /\ Listener \in readset /\ Len(s_sock) < MaxSock
      /\ buf' = [buf EXCEPT ![c] = 0] /\ s_sock' = Append(s_sock, c)
      /\ backlog' = Tail(backlog) /\ phase' \in {"serve", "dead"}
      /\ UNCHANGED <<readset, it, inbox, MaxSock>>
  BY DEF Accepts, Replies, MayRaise
<1>2. PICK p \in AfterSend(c) : peer' = [peer EXCEPT ![c] = p]
  BY DEF Accepts, Replies
<1>3. backlog # <<>>
  BY <1>1 DEF LoopShape, SomebodyWaits
<1>4. /\ c \in Clients /\ c \in ToSet(backlog) /\ c \notin Open
      /\ backlog' \in Seq(Clients) /\ IsInjective(backlog)'
      /\ ToSet(backlog)' = ToSet(backlog) \ {c}
  BY <1>1, <1>3, ShapeFacts, TailTakes
<1>5. /\ s_sock' \in Seq(Clients) /\ Len(s_sock') = Len(s_sock) + 1
      /\ Open' = Open \cup {c} /\ IsInjective(s_sock)'
  BY <1>1, <1>4, ShapeFacts, AppendAdds DEF Open
<1> HIDE DEF c
<1>6. /\ peer' \in [Clients -> {"idle", "up", "closed", "reset"}]
      /\ \A d \in Clients : peer'[d] = "idle" <=> peer[d] = "idle"
  BY <1>2, <1>4, SendKeeps
<1>7. LoopTypes'
  <2>1. Len(s_sock') <= MaxSock /\ 0 \in 0 .. BufMax
    BY <1>1, <1>5, ShapeFacts, MultipAssumption
  <2> QED
    BY <1>1, <1>4, <1>5, <1>6, <2>1 DEF LoopShape, LoopTypes, NetTypeOK
<1>8. OnePlace'
  BY <1>1, <1>4, <1>5, <1>6 DEF LoopShape, OnePlace, Open
<1>9. SomebodyWaits'
  BY <1>1 DEF SomebodyWaits
<1> QED
  BY <1>4, <1>5, <1>7, <1>8, <1>9 DEF LoopShape, c

\* What a turn says: the session is open, and the index within the vector.
LEMMA TurnFacts ==
    ASSUME LoopShape, NEW c, NEW i, Turn(c, i)
    PROVE  /\ i \in 1 .. Len(s_sock) /\ s_sock[i] = c
           /\ c \in Clients /\ c \in Open /\ c \notin ToSet(backlog)
           /\ phase = "serve" /\ i + 1 \in 1 .. MaxSock + 2
<1>1. /\ phase = "serve" /\ i \in it .. Len(s_sock) /\ s_sock[i] = c
      /\ Len(s_sock) <= MaxSock
  BY DEF Turn, LoopShape, LoopTypes
<1>2. i \in 1 .. Len(s_sock) /\ i + 1 \in 1 .. MaxSock + 2
  BY <1>1, ShapeFacts
<1>3. c \in Clients /\ c \in Open
  BY <1>1, <1>2, ShapeFacts
<1>4. c \notin ToSet(backlog)
  BY <1>3, ShapeFacts
<1> QED
  BY <1>1, <1>2, <1>3, <1>4

\* A session is served and stays.
LEMMA StaysShape ==
    ASSUME LoopShape, NEW c, NEW i, Turn(c, i), it' = i + 1, phase' \in {phase, "dead"},
           UNCHANGED <<s_sock, readset, backlog, MaxSock>>,
           buf' \in [Clients -> 0 .. BufMax],
           inbox[c] # <<>>, inbox' = [inbox EXCEPT ![c] = Tail(@)],
           \E p \in AfterSend(c) : peer' = [peer EXCEPT ![c] = p]
    PROVE  LoopShape'
<1> PICK p \in AfterSend(c) : peer' = [peer EXCEPT ![c] = p]
  OBVIOUS
<1>1. /\ peer' \in [Clients -> {"idle", "up", "closed", "reset"}]
      /\ \A d \in Clients : peer'[d] = "idle" <=> peer[d] = "idle"
  BY TurnFacts, SendKeeps
<1>2. Tail(inbox[c]) \in Seq(Parts \cup {EndsLine})
  BY TurnFacts, ShapeFacts, HeadTailProperties
<1>3. LoopTypes'
  BY <1>1, <1>2, TurnFacts DEF LoopShape, LoopTypes, NetTypeOK
<1> QED
  BY <1>1, <1>3, TurnFacts, SamePlaces

\* A session is erased, and its connection ends.
LEMMA ErasedFacts ==
    ASSUME LoopShape, NEW c, NEW i, Turn(c, i), it' = i + 1, phase' \in {phase, "dead"},
           Erase(c, i), UNCHANGED <<buf, readset, backlog, MaxSock>>
    PROVE  LoopShape' /\ Open' = Open \ {c}
<1>1. /\ s_sock' = RemoveAt(s_sock, i)
      /\ peer' = [peer EXCEPT ![c] = "idle"] /\ inbox' = [inbox EXCEPT ![c] = <<>>]
  BY DEF Erase, Hungup
<1>2. i \in 1 .. Len(s_sock) /\ s_sock[i] = c
  BY TurnFacts
<1>3. /\ s_sock' \in Seq(Clients) /\ Len(s_sock') = Len(s_sock) - 1
      /\ Open' = Open \ {c} /\ IsInjective(s_sock)'
  BY <1>1, <1>2, ShapeFacts, RemoveTakes DEF Open
<1>4. LoopTypes'
  <2>1. Len(s_sock') <= MaxSock
    BY <1>3, ShapeFacts DEF LoopShape, LoopTypes
  <2>2. <<>> \in Seq(Parts \cup {EndsLine})
    OBVIOUS
  <2> QED
    BY <1>1, <1>3, <2>1, <2>2, TurnFacts DEF LoopShape, LoopTypes, NetTypeOK
<1>5. OnePlace'
  BY <1>1, <1>3, TurnFacts DEF LoopShape, LoopTypes, NetTypeOK, OnePlace, Open
<1>6. SomebodyWaits'
  BY TurnFacts DEF SomebodyWaits
<1> QED
  BY <1>3, <1>4, <1>5, <1>6 DEF LoopShape

\* Each way to serve a session keeps the shape, and ends no other session.
LEMMA ServeFacts ==
    ASSUME LoopShape, NEW c, NEW i,
           ServeEnd(c, i) \/ ServePart(c, i) \/ ServeLine(c, i) \/ ServeQuit(c, i)
    PROVE  /\ LoopShape' /\ c \in Clients /\ c \in Open
           /\ ServeEnd(c, i) \/ ServeQuit(c, i) => Open' = Open \ {c}
           /\ ServePart(c, i) \/ ServeLine(c, i) => Open' = Open
<1>0. Turn(c, i) /\ c \in Clients /\ c \in Open
  <2>1. Turn(c, i)
    BY DEF ServeEnd, ServePart, ServeLine, ServeQuit, Receives
  <2> QED
    BY <2>1, TurnFacts
<1>1. CASE ServeEnd(c, i)
  <2>1. LoopShape' /\ Open' = Open \ {c}
    BY <1>1, ErasedFacts DEF ServeEnd, Advance
  <2>2. ~ServePart(c, i) /\ ~ServeLine(c, i)
    BY <1>1 DEF ServeEnd, ServePart, ServeLine, Receives
  <2> QED
    BY <1>0, <2>1, <2>2
<1>2. CASE ServePart(c, i)
  <2>1. /\ it' = i + 1 /\ inbox[c] # <<>> /\ buf[c] # BufMax /\ Head(inbox[c]) # EndsLine
        /\ buf' = [buf EXCEPT ![c] = buf[c] + 1] /\ inbox' = [inbox EXCEPT ![c] = Tail(@)]
        /\ UNCHANGED <<s_sock, phase, peer, readset, backlog, MaxSock>>
    BY <1>2, MultipAssumption DEF ServePart, Receives, Advance, Ended
  <2>2. buf' \in [Clients -> 0 .. BufMax]
    BY <1>0, <2>1, MultipAssumption DEF LoopShape, LoopTypes
  <2>3. peer[c] \in AfterSend(c) /\ peer' = [peer EXCEPT ![c] = peer[c]]
    BY <1>0, <2>1 DEF AfterSend, LoopShape, LoopTypes, NetTypeOK
  <2>4. LoopShape'
    BY <1>0, <2>1, <2>2, <2>3, StaysShape
  <2>5. ~ServeEnd(c, i) /\ ~ServeQuit(c, i)
    BY <2>1 DEF ServeEnd, ServeQuit, Receives, Ended
  <2> QED
    BY <1>0, <2>1, <2>4, <2>5 DEF Open
<1>3. CASE ServeLine(c, i)
  <2>1. /\ it' = i + 1 /\ inbox[c] # <<>> /\ phase' \in {phase, "dead"} /\ ~Ended(c)
        /\ buf' = [buf EXCEPT ![c] = 0] /\ inbox' = [inbox EXCEPT ![c] = Tail(@)]
        /\ \E p \in AfterSend(c) : peer' = [peer EXCEPT ![c] = p]
        /\ UNCHANGED <<s_sock, readset, backlog, MaxSock>>
    BY <1>3 DEF ServeLine, Receives, Advance, Ended, Replies, MayRaise
  <2>2. buf' \in [Clients -> 0 .. BufMax]
    <3>1. 0 \in 0 .. BufMax
      BY MultipAssumption
    <3> QED
      BY <2>1, <3>1 DEF LoopShape, LoopTypes
  <2>3. LoopShape'
    BY <1>0, <2>1, <2>2, StaysShape
  <2>4. ~ServeEnd(c, i)
    BY <2>1 DEF ServeEnd
  <2>5. ~ServeQuit(c, i)
    <3>1. ServeQuit(c, i) => Len(s_sock') = Len(s_sock) - 1
      BY <1>0, TurnFacts, ShapeFacts, RemoveTakes DEF ServeQuit, Erase
    <3> QED
      BY <2>1, <3>1, ShapeFacts
  <2> QED
    BY <1>0, <2>1, <2>3, <2>4, <2>5 DEF Open
<1>4. CASE ServeQuit(c, i)
  <2>1. LoopShape' /\ Open' = Open \ {c}
    BY <1>4, ErasedFacts DEF ServeQuit, Receives, Advance, MayRaise
  <2>2. Len(s_sock') = Len(s_sock) - 1
    BY <1>0, <1>4, TurnFacts, ShapeFacts, RemoveTakes DEF ServeQuit, Erase
  <2>3. ~ServePart(c, i) /\ ~ServeLine(c, i)
    BY <2>2, ShapeFacts DEF ServePart, ServeLine
  <2> QED
    BY <1>0, <2>1, <2>3
<1> QED
  BY <1>1, <1>2, <1>3, <1>4

\* Nobody is anywhere at the start.
LEMMA InitShape == Init => LoopShape
<1> SUFFICES ASSUME Init PROVE LoopShape
  OBVIOUS
<1>1. MaxSock \in Nat \ {0} /\ 0 \in 0 .. BufMax
  BY MultipAssumption DEF Init
<1>2. s_sock = <<>> /\ backlog = <<>> /\ <<>> \in Seq(Clients) /\ Len(<<>>) = 0
  BY DEF Init, NetInit
<1>3. \A s : s = <<>> => ToSet(s) = {} /\ IsInjective(s)
  BY DEF ToSet, IsInjective
<1>4. <<>> \in Seq(Parts \cup {EndsLine})
  OBVIOUS
<1>5. LoopTypes
  BY <1>1, <1>2, <1>4 DEF Init, NetInit, LoopTypes, NetTypeOK
<1>6. OnePlace /\ SomebodyWaits
  BY <1>2, <1>3 DEF Init, NetInit, OnePlace, SomebodyWaits, Open
<1> QED
  BY <1>5, <1>6 DEF LoopShape

\* Every step of the peers and of the loop keeps the shape.
LEMMA NextShape == LoopShape /\ [Next]_vars => LoopShape'
<1> SUFFICES ASSUME LoopShape, [Next]_vars PROVE LoopShape'
  OBVIOUS
<1>1. CASE Peers
  BY <1>1, PeersShape
<1>2. CASE Work
  BY <1>2, PassShape, AcceptsFacts, ServeFacts DEF Work, Serve
<1>3. CASE UNCHANGED vars
  BY <1>3 DEF vars, loop_vars, net_vars, LoopShape, LoopTypes, NetTypeOK, OnePlace,
              SomebodyWaits, Open
<1> QED
  BY <1>1, <1>2, <1>3 DEF Next

(***************************************************************************)
(* Every reachable state of the loop has its shape.                        *)
(***************************************************************************)
THEOREM ShapeInvariance == Spec => []LoopShape
<1> QED
  BY InitShape, NextShape, PTL DEF Spec

-----------------------------------------------------------------------------
(***************************************************************************)
(* What a step does to the sessions and to the mailboxes.                  *)
(***************************************************************************)
Quiet == UNCHANGED <<u, param_vars>> /\ Open' = Open

Joins(c) ==
    /\ c \in Clients \ Open /\ Open' = Open \cup {c}
    /\ numb' = [numb EXCEPT ![c] = None] /\ stage' = [stage EXCEPT ![c] = 0]
    /\ UNCHANGED u

Speaks(c) == c \in Open /\ Open' = Open /\ (USER_refused(c) \/ PASS(c))

Takes(c, n) == c \in Open /\ Open' = Open /\ USER(c, n)

Drops(c) ==
    /\ c \in Open /\ Open' = Open \ {c}
    /\ Ended(c)
    /\ UNCHANGED <<u, param_vars>>

Quits(c) ==
    /\ c \in Open /\ Open' = Open \ {c}
    /\ ~Ended(c)
    /\ Release(c)
    /\ UNCHANGED param_vars

Kinds ==
    \/ Quiet
    \/ \E c \in Clients : Joins(c) \/ Speaks(c) \/ Drops(c) \/ Quits(c)
    \/ \E c \in Clients, n \in Users : Takes(c, n)

\* There are no other steps.
LEMMA StepKinds == ASSUME LoopShape, [Next]_vars PROVE Kinds
<1>1. CASE Peers \/ Select \/ AcceptFails \/ NothingToAccept \/ EndOfPass \/ UNCHANGED vars
  BY <1>1 DEF Peers, Select, AcceptFails, NothingToAccept, EndOfPass, vars, loop_vars,
              Kinds, Quiet, Open
<1>2. CASE Accepts
  <2>1. Joins(Head(backlog)) /\ Head(backlog) \in Clients
    BY <1>2, AcceptsFacts DEF Joins, Accepts
  <2> QED
    BY <2>1 DEF Kinds
<1>3. ASSUME NEW c \in Clients, NEW i, ServeEnd(c, i) PROVE Kinds
  <2>1. Drops(c)
    BY <1>3, ServeFacts DEF ServeEnd, Drops
  <2> QED
    BY <2>1 DEF Kinds
<1>4. ASSUME NEW c \in Clients, NEW i, ServePart(c, i) PROVE Kinds
  BY <1>4, ServeFacts DEF ServePart, Kinds, Quiet
<1>5. ASSUME NEW c \in Clients, NEW i, ServeLine(c, i) PROVE Kinds
  <2>1. Command(c) /\ c \in Open /\ Open' = Open
    BY <1>5, ServeFacts DEF ServeLine
  <2> QED
    BY <2>1 DEF Command, Answers, Kinds, Quiet, Speaks, Takes
<1>6. ASSUME NEW c \in Clients, NEW i, ServeQuit(c, i) PROVE Kinds
  <2>1. Quits(c)
    BY <1>6, ServeFacts DEF ServeQuit, Receives, Quits
  <2> QED
    BY <2>1 DEF Kinds
<1> QED
  BY <1>1, <1>2, <1>3, <1>4, <1>5, <1>6 DEF Next, Work, Serve

\* Nobody comes to hold a mailbox, or ceases to, by these.
LEMMA SameHolders ==
    ASSUME LocksInv, Open \subseteq Clients, Quiet \/ \E c \in Clients : Joins(c) \/ Speaks(c)
    PROVE  u' = u /\ \A n \in Users : Holders(n)' = Holders(n)
<1> USE MultipAssumption DEF LocksInv, LockTypes, Holders, param_vars
<1>1. CASE Quiet
  BY <1>1 DEF Quiet
<1>2. ASSUME NEW c \in Clients, Joins(c)
      PROVE  u' = u /\ \A n \in Users : Holders(n)' = Holders(n)
  BY <1>2 DEF Joins
<1>3. ASSUME NEW c \in Clients, Speaks(c)
      PROVE  u' = u /\ \A n \in Users : Holders(n)' = Holders(n)
  BY <1>3 DEF Speaks, USER_refused, PASS
<1> QED
  BY <1>1, <1>2, <1>3

\* Who holds what after the other kinds of step.
LEMMA HoldersEffect ==
    ASSUME LocksInv, Open \subseteq Clients, NEW c \in Clients
    PROVE  /\ \A m \in Users : Takes(c, m) =>
                  /\ ~u[m] /\ u' = [u EXCEPT ![m] = TRUE]
                  /\ Holders(m) = {} /\ \A n \in Users : c \notin Holders(n)
                  /\ \A n \in Users : Holders(n)' = IF n = m THEN {c} ELSE Holders(n)
           /\ Drops(c) \/ Quits(c) => \A n \in Users : Holders(n)' = Holders(n) \ {c}
           /\ Drops(c) => u' = u
           /\ Quits(c) => \A n \in Users : u'[n] = (u[n] /\ c \notin Holders(n))
<1> USE DEF LocksInv, LockTypes, OneHolder, Holders, param_vars
<1>2. ASSUME NEW m \in Users, Takes(c, m)
      PROVE  /\ ~u[m] /\ u' = [u EXCEPT ![m] = TRUE]
             /\ Holders(m) = {} /\ \A n \in Users : c \notin Holders(n)
             /\ \A n \in Users : Holders(n)' = IF n = m THEN {c} ELSE Holders(n)
  <2>1. /\ stage[c] = 0 /\ ~u[m] /\ u' = [u EXCEPT ![m] = TRUE]
        /\ numb' = [numb EXCEPT ![c] = m] /\ stage' = [stage EXCEPT ![c] = 1]
        /\ c \in Open /\ Open' = Open
    BY <1>2 DEF Takes, USER, Free
  <2>2. Holders(m) = {} /\ \A n \in Users : c \notin Holders(n)
    BY <2>1
  <2>3. \A n \in Users : \A d \in Clients : d # c => (d \in Holders(n)' <=> d \in Holders(n))
    BY <2>1
  <2>4. \A n \in Users : c \in Holders(n)' <=> n = m
    BY <2>1
  <2>5. \A n \in Users : Holders(n)' \subseteq Clients /\ Holders(n) \subseteq Clients
    BY <2>1
  <2> HIDE DEF Holders
  <2>6. \A n \in Users : Holders(n)' = IF n = m THEN {c} ELSE Holders(n)
    <3> TAKE n \in Users
    <3> PICK S : S = Holders(n)'
      OBVIOUS
    <3>1. S \subseteq Clients /\ Holders(n) \subseteq Clients
      BY <2>5
    <3>2. c \in S <=> n = m
      BY <2>4
    <3>3. \A d \in Clients : d # c => (d \in S <=> d \in Holders(n))
      BY <2>3
    <3>4. CASE n = m
      <4>1. \A d \in S : d = c
        BY <2>2, <3>1, <3>3, <3>4
      <4> QED
        BY <3>2, <3>4, <4>1
    <3>5. CASE n # m
      <4>1. \A d : d \in S <=> d \in Holders(n)
        BY <2>2, <3>1, <3>2, <3>3, <3>5
      <4> QED
        BY <3>5, <4>1
    <3> QED
      BY <3>4, <3>5
  <2> QED
    BY <2>1, <2>2, <2>6
<1>3. ASSUME Drops(c) \/ Quits(c)
      PROVE  \A n \in Users : Holders(n)' = Holders(n) \ {c}
  BY <1>3 DEF Drops, Quits
<1>4. ASSUME Drops(c) PROVE u' = u
  BY <1>4 DEF Drops
<1>5. ASSUME Quits(c) PROVE \A n \in Users : u'[n] = (u[n] /\ c \notin Holders(n))
  <2>1. c \in Open /\ u' = [n \in Users |-> u[n] /\ n # numb[c]]
    BY <1>5 DEF Quits, Release
  <2>2. \A n \in Users : c \in Holders(n) <=> n = numb[c]
    BY <2>1, MultipAssumption
  <2> HIDE DEF Holders
  <2> QED
    BY <2>1, <2>2
<1> QED
  BY <1>2, <1>3, <1>4, <1>5

\* Every kind of step keeps the locks in order.
LEMMA LocksStep ==
    ASSUME LocksInv, Open \subseteq Clients, Kinds
    PROVE  LocksInv'
<1>1. LockTypes'
  <2> USE MultipAssumption DEF LocksInv, LockTypes, param_vars
  <2>1. CASE Quiet
    BY <2>1 DEF Quiet
  <2>2. ASSUME NEW c \in Clients, Joins(c) PROVE LockTypes'
    BY <2>2 DEF Joins
  <2>3. ASSUME NEW c \in Clients, Speaks(c) PROVE LockTypes'
    BY <2>3 DEF Speaks, USER_refused, PASS
  <2>4. ASSUME NEW c \in Clients, Drops(c) PROVE LockTypes'
    BY <2>4 DEF Drops
  <2>5. ASSUME NEW c \in Clients, Quits(c) PROVE LockTypes'
    BY <2>5 DEF Quits, Release
  <2>6. ASSUME NEW c \in Clients, NEW n \in Users, Takes(c, n) PROVE LockTypes'
    BY <2>6 DEF Takes, USER
  <2> QED
    BY <2>1, <2>2, <2>3, <2>4, <2>5, <2>6 DEF Kinds
<1>2. OneHolder'
  <2>1. \A n \in Users : (Holders(n) # {} => u[n]) /\ \A c, d \in Holders(n) : c = d
    BY DEF LocksInv, OneHolder
  <2>2. CASE Quiet \/ \E c \in Clients : Joins(c) \/ Speaks(c)
    BY <2>1, <2>2, SameHolders DEF OneHolder
  <2>3. ASSUME NEW c \in Clients, NEW m \in Users, Takes(c, m) PROVE OneHolder'
    BY <2>1, <2>3, HoldersEffect DEF OneHolder, LocksInv, LockTypes
  <2>4. ASSUME NEW c \in Clients, Drops(c) PROVE OneHolder'
    BY <2>1, <2>4, HoldersEffect DEF OneHolder
  <2>5. ASSUME NEW c \in Clients, Quits(c) PROVE OneHolder'
    <3> SUFFICES ASSUME NEW n \in Users
                 PROVE  /\ Holders(n)' # {} => u'[n]
                        /\ \A d, e \in Holders(n)' : d = e
      BY DEF OneHolder
    <3>1. Holders(n)' = Holders(n) \ {c} /\ u'[n] = (u[n] /\ c \notin Holders(n))
      BY <2>5, HoldersEffect
    <3> QED
      BY <2>1, <3>1
  <2> QED
    BY <2>2, <2>3, <2>4, <2>5 DEF Kinds
<1> QED
  BY <1>1, <1>2 DEF LocksInv

\* No mailbox is in use at the start.
LEMMA LocksInit == Init => LocksInv
<1> SUFFICES ASSUME Init PROVE LocksInv
  OBVIOUS
<1>1. Open = {}
  BY DEF Init, Open, ToSet
<1> QED
  BY <1>1 DEF Init, LocksInv, LockTypes, OneHolder, Holders

(***************************************************************************)
(* A mailbox has at most one session between USER and its end.             *)
(***************************************************************************)
THEOREM LocksInvariance == Spec => []LocksInv
<1>1. LoopShape /\ LocksInv /\ [Next]_vars => LocksInv'
  <2> SUFFICES ASSUME LoopShape, LocksInv, [Next]_vars PROVE LocksInv'
    OBVIOUS
  <2>1. Open \subseteq Clients /\ Kinds
    BY ShapeFacts, StepKinds
  <2> QED
    BY <2>1, LocksStep
<1> QED
  BY <1>1, LocksInit, ShapeInvariance, PTL DEF Spec

(***************************************************************************)
(* The variables of server3.cpp have their types; a connection has at most *)
(* one session, and one past PASS has a mailbox.                           *)
(***************************************************************************)
THEOREM TypeCorrect == Spec => []TypeOK
<1>1. LoopShape /\ LocksInv => TypeOK
  BY DEF LoopShape, LoopTypes, OnePlace, LocksInv, LockTypes, TypeOK
<1> QED
  BY <1>1, ShapeInvariance, LocksInvariance, PTL

(***************************************************************************)
(* QUIT always releases; the end of the input and too long a line always   *)
(* lose the lock.                                                          *)
(***************************************************************************)
THEOREM LocksLost == Spec => EndsLeak
<1>1. ASSUME LoopShape, LocksInv, [Next]_vars,
             NEW n \in Users, NEW c \in Holders(n), c \notin Open'
      PROVE  u'[n] <=> inbox[c] = <<>> \/ buf[c] = BufMax
  <2>1. Open \subseteq Clients /\ Kinds
    BY <1>1, ShapeFacts, StepKinds
  <2>2. c \in Open
    BY DEF Holders
  <2>3. c \in Clients /\ (Drops(c) \/ Quits(c))
    BY <1>1, <2>1, <2>2 DEF Kinds, Quiet, Joins, Speaks, Takes, Drops, Quits
  <2>4. u[n]
    BY <1>1 DEF LocksInv, OneHolder
  <2>5. CASE Drops(c)
    BY <2>4, <2>5 DEF Drops, Ended
  <2>6. CASE Quits(c)
    <3>1. ~u'[n]
      BY <1>1, <2>1, <2>3, <2>6, HoldersEffect
    <3> QED
      BY <2>6, <3>1 DEF Quits, Ended
  <2> QED
    BY <2>3, <2>5, <2>6
<1>2. LoopShape /\ LocksInv /\ [Next]_vars
      => [\A n \in Users : \A c \in Holders(n) :
              c \notin Open' => (u'[n] <=> inbox[c] = <<>> \/ buf[c] = BufMax)]_vars
  BY <1>1
<1> QED
  BY <1>2, ShapeInvariance, LocksInvariance, PTL DEF Spec, EndsLeak

-----------------------------------------------------------------------------
(***************************************************************************)
(* The refinement of Locks.  Hold is what EvgenMultip puts for holder.     *)
(***************************************************************************)
Hold == [n \in Users |-> IF Holders(n) # {} THEN CHOOSE c \in Holders(n) : TRUE
                         ELSE IF u[n] THEN Lost ELSE Nobody]

HoldIsSession ==
    \A n \in Users : /\ \A c \in Holders(n) : Hold[n] = c
                     /\ Holders(n) = {} => Hold[n] = IF u[n] THEN Lost ELSE Nobody

\* The holder is the session, if there is one.
LEMMA HoldIs == LocksInv => HoldIsSession
  BY DEF LocksInv, OneHolder, Hold, HoldIsSession

\* And so it is after a step.
LEMMA HoldIsNext == LocksInv' => HoldIsSession'
  BY HoldIs, PTL

\* The holder of a mailbox changes only with its sessions and with u.
LEMMA HoldSame ==
    ASSUME HoldIsSession, HoldIsSession', NEW n \in Users, u'[n] = u[n], Holders(n)' = Holders(n)
    PROVE  Hold'[n] = Hold[n]
<1>1. CASE Holders(n) = {}
  BY <1>1 DEF HoldIsSession
<1>2. ASSUME NEW c \in Holders(n) PROVE Hold'[n] = Hold[n]
  <2>1. Hold[n] = c /\ c \in Holders(n)'
    BY DEF HoldIsSession
  <2>2. Hold'[n] = c
    BY <2>1 DEF HoldIsSession
  <2> QED
    BY <2>1, <2>2
<1> QED
  BY <1>1, <1>2

\* Every step does to the locks what Locks allows, or nothing.
LEMMA HoldStep ==
    ASSUME LocksInv, LocksInv', Open \subseteq Clients, Kinds
    PROVE  [Boxes!Next]_Hold
<1>1. HoldIsSession /\ HoldIsSession'
  BY HoldIs, HoldIsNext
<1>2. CASE Quiet \/ \E c \in Clients : Joins(c) \/ Speaks(c)
  <2>1. u' = u /\ \A n \in Users : Holders(n)' = Holders(n)
    BY <1>2, SameHolders
  <2>2. \A n \in Users : Hold'[n] = Hold[n]
    BY <1>1, <2>1, HoldSame
  <2> QED
    BY <2>2 DEF Hold
<1>3. ASSUME NEW c \in Clients, NEW m \in Users, Takes(c, m) PROVE Boxes!Next
  <2>1. /\ ~u[m] /\ u' = [u EXCEPT ![m] = TRUE]
        /\ Holders(m) = {} /\ \A n \in Users : c \notin Holders(n)
        /\ \A n \in Users : Holders(n)' = IF n = m THEN {c} ELSE Holders(n)
    BY <1>3, HoldersEffect
  <2>2. \A n \in Users : Hold[n] # c \/ Hold[n] = Nobody
    BY <1>1, <2>1, MultipAssumption DEF HoldIsSession
  <2>3. Hold[m] = Nobody /\ Hold'[m] = c
    BY <1>1, <2>1 DEF HoldIsSession
  <2>4. \A n \in Users : n # m => Hold'[n] = Hold[n]
    <3>1. \A n \in Users : n # m => u'[n] = u[n] /\ Holders(n)' = Holders(n)
      BY <2>1 DEF LocksInv, LockTypes
    <3> QED
      BY <1>1, <3>1, HoldSame
  <2>5. Hold' = [n \in Users |-> IF n = m THEN c ELSE IF Hold[n] = c THEN Nobody ELSE Hold[n]]
    <3>1. Hold' = [n \in Users |-> Hold'[n]]
      BY DEF Hold
    <3>2. \A n \in Users : Hold'[n] = IF n = m THEN c ELSE IF Hold[n] = c THEN Nobody ELSE Hold[n]
      BY <2>2, <2>3, <2>4
    <3> QED
      BY <3>1, <3>2
  <2>6. Boxes!Lock(c, m)
    BY <2>3, <2>5 DEF Boxes!Lock, Hold
  <2> QED
    BY <2>6 DEF Boxes!Next
<1>4. ASSUME NEW c \in Clients, Drops(c) \/ Quits(c) PROVE [Boxes!Next]_Hold
  <2>1. \A n \in Users : Holders(n)' = Holders(n) \ {c}
    BY <1>4, HoldersEffect
  <2>2. \A n \in Users : c \notin Holders(n) => u'[n] = u[n]
    <3>1. CASE Drops(c)
      BY <3>1, HoldersEffect
    <3>2. CASE Quits(c)
      BY <3>2, HoldersEffect DEF LocksInv, LockTypes
    <3> QED
      BY <1>4, <3>1, <3>2
  <2>3. \A n \in Users : c \notin Holders(n) => Hold'[n] = Hold[n]
    BY <1>1, <2>1, <2>2, HoldSame
  <2>4. CASE \A n \in Users : c \notin Holders(n)
    BY <2>3, <2>4 DEF Hold
  <2>5. ASSUME NEW m \in Users, c \in Holders(m) PROVE Boxes!Next
    <3>1. \A n \in Users : n # m => c \notin Holders(n)
      BY <2>5 DEF Holders
    <3>2. Holders(m)' = {}
      BY <2>1, <2>5 DEF LocksInv, OneHolder
    <3>3. Hold[m] = c /\ Hold'[m] \in {Nobody, Lost}
      BY <1>1, <2>5, <3>2 DEF HoldIsSession
    <3>4. Hold' = [Hold EXCEPT ![m] = Nobody] \/ Hold' = [Hold EXCEPT ![m] = Lost]
      BY <2>3, <3>1, <3>3 DEF Hold
    <3>5. Boxes!GiveUp(m, Nobody) \/ Boxes!GiveUp(m, Lost)
      BY <3>3, <3>4 DEF Boxes!GiveUp, Hold
    <3> QED
      BY <3>5 DEF Boxes!Next
  <2> QED
    BY <2>4, <2>5
<1> QED
  BY <1>2, <1>3, <1>4 DEF Kinds

(***************************************************************************)
(* u is a lock for every mailbox, as Locks has it: one session at a time   *)
(* has it, nobody else gives it up, and a lost one stays lost.             *)
(***************************************************************************)
THEOREM Refinement == Spec => ImplementsLocks
<1>1. Init => Boxes!Init
  <2> SUFFICES ASSUME Init PROVE Boxes!Init
    OBVIOUS
  <2>1. Open = {}
    BY DEF Init, Open, ToSet
  <2> QED
    BY <2>1 DEF Init, Boxes!Init, Holders
<1>2. LoopShape /\ LocksInv /\ LocksInv' /\ [Next]_vars => [Boxes!Next]_Hold
  <2> SUFFICES ASSUME LoopShape, LocksInv, LocksInv', [Next]_vars PROVE [Boxes!Next]_Hold
    OBVIOUS
  <2>1. Open \subseteq Clients /\ Kinds
    BY ShapeFacts, StepKinds
  <2> QED
    BY <2>1, HoldStep
<1> QED
  BY <1>1, <1>2, ShapeInvariance, LocksInvariance, PTL DEF Spec, ImplementsLocks, Boxes!Spec, Hold
=============================================================================
