------------------------ MODULE Pop3MultiplexProofs ------------------------
(***************************************************************************)
(* Proofs about Pop3Multiplex, for every set of peers, lines and chunks    *)
(* and every bound on descriptors, buffers and what peers send ahead.      *)
(*                                                                         *)
(* The shape of the loop (LoopShape) is an invariant that owes nothing to  *)
(* what the commands do.  With it every step of the loop is a step of      *)
(* Pop3Sessions or none, so that what is proved of the sessions holds of   *)
(* the loop; from there come the types of what the commands change.        *)
(***************************************************************************)
EXTENDS Pop3Multiplex, VectorProofs

LoopTypes ==
    /\ s_sock \in Seq(Clients) /\ Len(s_sock) <= MaxSock
    /\ phase \in {"select", "accept", "serve", "dead"}
    /\ readset \subseteq Clients \cup {Listener}
    /\ it \in 1 .. MaxSock + 2
    /\ buf \in [Clients -> 0 .. BufMax]
    /\ NetTypeOK
    /\ MaxSock \in Limits /\ polite \in Manners

\* What select has just reported: only sessions it knows, or somebody to accept.
PassBegins ==
    /\ phase = "select" => it = 1 /\ readset = {}
    /\ phase = "accept" => /\ it = 1 /\ readset \subseteq Open \cup {Listener}
                           /\ Listener \in readset => backlog # <<>>

LoopShape == LoopTypes /\ OnePlace /\ RecvReturns /\ PassBegins

(***************************************************************************)
(* What polite peers guarantee: who has closed has its session, and the    *)
(* server has received all it sent.                                        *)
(***************************************************************************)
PoliteInv ==
    polite => /\ phase # "dead"
              /\ \A c \in Clients : /\ peer[c] # "reset"
                                    /\ peer[c] = "closed" => c \in Open /\ inbox[c] = <<>>

-----------------------------------------------------------------------------
(***************************************************************************)
(* The shape of the loop.                                                  *)
(***************************************************************************)

\* What it says, ready to use.
LEMMA ShapeFacts ==
    ASSUME LoopShape
    PROVE  /\ MaxSock \in Nat \ {0} /\ Len(s_sock) \in Nat
           /\ s_sock \in Seq(Clients) /\ backlog \in Seq(Clients)
           /\ IsInjective(s_sock) /\ IsInjective(backlog)
           /\ \A c : c \in Open <=> \E i \in 1 .. Len(s_sock) : s_sock[i] = c
           /\ \A i \in 1 .. Len(s_sock) : s_sock[i] \in Clients
           /\ \A i, j \in 1 .. Len(s_sock) : s_sock[i] = s_sock[j] => i = j
           /\ Open \subseteq Clients /\ ToSet(backlog) \subseteq Clients
           /\ Open \cap ToSet(backlog) = {}
           /\ Listener \notin Clients
           /\ \A c \in Clients : peer[c] \in {"idle", "up", "closed", "reset"}
           /\ \A c \in Clients : inbox[c] \in Seq(Lines \cup Fragments)
<1>1. s_sock \in Seq(Clients) /\ backlog \in Seq(Clients) /\ MaxSock \in Limits
  BY DEF LoopShape, LoopTypes, NetTypeOK
<1>2. IsInjective(s_sock) /\ IsInjective(backlog) /\ Open \cap ToSet(backlog) = {}
  BY DEF LoopShape, OnePlace
<1>3. /\ \A c \in Clients : peer[c] \in {"idle", "up", "closed", "reset"}
      /\ \A c \in Clients : inbox[c] \in Seq(Lines \cup Fragments)
  BY DEF LoopShape, LoopTypes, NetTypeOK
<1>4. MaxSock \in Nat \ {0} /\ Listener \notin Clients
  BY <1>1, MultiplexAssumption
<1>5. Len(s_sock) \in Nat /\ \A i \in 1 .. Len(s_sock) : s_sock[i] \in Clients
  BY <1>1
<1> QED
  BY <1>1, <1>2, <1>3, <1>4, <1>5, Elements DEF Open

(***************************************************************************)
(* Steps that move no peer from one place to another.                      *)
(***************************************************************************)
LEMMA SamePlaces ==
    ASSUME LoopShape, LoopTypes', UNCHANGED s_sock,
           ToSet(backlog)' = ToSet(backlog), IsInjective(backlog)',
           phase' # "dead" =>
               phase # "dead" /\ \A c \in Clients : peer'[c] = "idle" <=> peer[c] = "idle",
           RecvReturns', PassBegins'
    PROVE  LoopShape'
  BY DEF LoopShape, OnePlace, Open

\* A step that makes no session unreadable keeps what select reported true.
LEMMA StillReadable ==
    ASSUME LoopShape, UNCHANGED <<s_sock, readset, it>>,
           \A c \in Clients : Readable(c) => Readable(c)'
    PROVE  RecvReturns'
<1>1. RecvReturns
  BY DEF LoopShape
<1>2. it \in Nat \ {0}
  BY ShapeFacts DEF LoopShape, LoopTypes
<1> QED
  BY <1>1, <1>2, ShapeFacts DEF RecvReturns

\* Peers only make more sessions readable, and dial when they are idle.
LEMMA PeersShape ==
    ASSUME LoopShape, Peers
    PROVE  LoopShape'
<1>1. PICK c \in Clients : Dial(c) \/ Transmit(c) \/ Depart(c)
  BY DEF Peers, PeerActs
<1>2. UNCHANGED <<s_sock, phase, readset, it, buf, MaxSock, polite>> /\ phase # "dead"
  BY DEF Peers, server_vars, world
<1>3. CASE Dial(c)
  <2>1. c \notin Open /\ c \notin ToSet(backlog)
    BY <1>2, <1>3 DEF Dial, LoopShape, OnePlace
  <2>2. /\ backlog' \in Seq(Clients) /\ backlog' # <<>> /\ IsInjective(backlog)'
        /\ ToSet(backlog)' = ToSet(backlog) \cup {c}
    BY <1>3, <2>1, ShapeFacts, AppendAdds DEF Dial
  <2>3. peer' = [peer EXCEPT ![c] = "up"] /\ inbox' = inbox
    BY <1>3 DEF Dial
  <2>4. LoopTypes'
    BY <1>2, <2>2, <2>3 DEF LoopShape, LoopTypes, NetTypeOK
  <2>5. OnePlace'
    BY <1>2, <2>1, <2>2, <2>3 DEF LoopShape, LoopTypes, NetTypeOK, OnePlace, Open
  <2>6. RecvReturns'
    <3>1. \A d \in Clients : Readable(d) => Readable(d)'
      BY <1>3, <2>3 DEF Dial, LoopShape, LoopTypes, NetTypeOK, Readable, Departed
    <3> QED
      BY <1>2, <3>1, StillReadable
  <2>7. PassBegins'
    BY <1>2, <2>2 DEF LoopShape, PassBegins, Open
  <2> QED
    BY <2>4, <2>5, <2>6, <2>7 DEF LoopShape
<1>4. CASE Transmit(c)
  <2>1. PICK chunk \in Lines \cup Fragments : inbox' = [inbox EXCEPT ![c] = Append(inbox[c], chunk)]
    BY <1>4 DEF Transmit
  <2>2. UNCHANGED <<peer, backlog>>
    BY <1>4 DEF Transmit
  <2>3. inbox'[c] \in Seq(Lines \cup Fragments) /\ inbox'[c] # <<>>
    <3>1. inbox'[c] = Append(inbox[c], chunk)
      BY <2>1 DEF LoopShape, LoopTypes, NetTypeOK
    <3>2. inbox[c] \in Seq(Lines \cup Fragments)
      BY ShapeFacts
    <3> QED
      BY <3>1, <3>2, AppendAdds
  <2>4. LoopTypes'
    BY <1>2, <2>1, <2>2, <2>3 DEF LoopShape, LoopTypes, NetTypeOK
  <2>5. RecvReturns'
    <3>1. \A d \in Clients : Readable(d) => Readable(d)'
      BY <2>1, <2>2, <2>3 DEF LoopShape, LoopTypes, NetTypeOK, Readable, Departed
    <3> QED
      BY <1>2, <3>1, StillReadable
  <2>6. PassBegins'
    BY <1>2, <2>2 DEF LoopShape, PassBegins, Open
  <2> QED
    BY <1>2, <2>2, <2>4, <2>5, <2>6, ShapeFacts, SamePlaces
<1>5. CASE Depart(c)
  <2>1. PICK how \in {"closed", "reset"} : peer' = [peer EXCEPT ![c] = how]
    BY <1>5 DEF Depart
  <2>2. UNCHANGED <<backlog, inbox>> /\ peer[c] = "up"
    BY <1>5 DEF Depart
  <2>3. LoopTypes'
    BY <1>2, <2>1, <2>2 DEF LoopShape, LoopTypes, NetTypeOK
  <2>4. RecvReturns'
    <3>1. \A d \in Clients : Readable(d) => Readable(d)'
      BY <2>1, <2>2 DEF LoopShape, LoopTypes, NetTypeOK, Readable, Departed
    <3> QED
      BY <1>2, <3>1, StillReadable
  <2>5. PassBegins'
    BY <1>2, <2>2 DEF LoopShape, PassBegins, Open
  <2>6. \A d \in Clients : peer'[d] = "idle" <=> peer[d] = "idle"
    BY <2>1, <2>2 DEF LoopShape, LoopTypes, NetTypeOK
  <2> QED
    BY <1>2, <2>2, <2>3, <2>4, <2>5, <2>6, ShapeFacts, SamePlaces
<1> QED
  BY <1>1, <1>3, <1>4, <1>5

\* select reports sessions that are readable, and the listener if somebody waits.
LEMMA SelectShape ==
    ASSUME LoopShape, Select
    PROVE  LoopShape'
<1>1. /\ phase = "select" /\ readset' = Ready /\ phase' = "accept"
      /\ UNCHANGED <<s_sock, it, buf, peer, backlog, inbox, MaxSock, polite>>
  BY DEF Select, net_vars, world
<1>2. /\ Ready \subseteq Open \cup {Listener}
      /\ \A c \in Clients : c \in Ready => Readable(c)
      /\ Listener \in Ready => backlog # <<>>
  BY ShapeFacts DEF Ready, Open
<1>3. LoopTypes'
  BY <1>1, <1>2, ShapeFacts DEF LoopShape, LoopTypes, NetTypeOK
<1>4. RecvReturns'
  <2>1. it = 1 /\ \A i \in 1 .. Len(s_sock) : s_sock[i] \in Clients
    BY <1>1, ShapeFacts DEF LoopShape, PassBegins
  <2> QED
    BY <1>1, <1>2, <2>1 DEF RecvReturns, Readable, Departed
<1>5. PassBegins'
  BY <1>1, <1>2 DEF LoopShape, PassBegins, Open
<1> QED
  BY <1>1, <1>3, <1>4, <1>5, ShapeFacts, SamePlaces

\* Steps of accept that accept nobody, and the end of the serve loop.
LEMMA TurnOfPassShape ==
    ASSUME LoopShape, AcceptFails \/ NothingToAccept \/ EndOfPass
    PROVE  LoopShape'
<1>1. UNCHANGED <<s_sock, buf, peer, backlog, inbox, MaxSock, polite>> /\ it' = 1
  BY DEF AcceptFails, NothingToAccept, EndOfPass, net_vars, world
<1>2. \/ phase' = "select" /\ readset' = {}
      \/ phase = "accept" /\ phase' = "serve" /\ readset' = readset /\ it = 1
  BY DEF AcceptFails, Abandon, NothingToAccept, EndOfPass, LoopShape, PassBegins
<1>3. LoopTypes'
  BY <1>1, <1>2, ShapeFacts DEF LoopShape, LoopTypes, NetTypeOK
<1>4. RecvReturns'
  BY <1>1, <1>2 DEF LoopShape, RecvReturns, Readable, Departed
<1>5. PassBegins'
  BY <1>1, <1>2 DEF LoopShape, PassBegins
<1>6. phase # "dead"
  BY DEF AcceptFails, NothingToAccept, EndOfPass
<1> QED
  BY <1>1, <1>3, <1>4, <1>5, <1>6, ShapeFacts, SamePlaces

(***************************************************************************)
(* What send() leaves of the peer: no connection is made or ended by it,   *)
(* and none becomes unreadable.                                            *)
(***************************************************************************)
LEMMA SendKeeps ==
    ASSUME LoopShape, NEW c \in Clients, NEW p \in AfterSend(c), peer' = [peer EXCEPT ![c] = p]
    PROVE  /\ peer' \in [Clients -> {"idle", "up", "closed", "reset"}]
           /\ \A d \in Clients : peer'[d] = "idle" <=> peer[d] = "idle"
           /\ \A d \in Clients : Departed(d)' <=> Departed(d)
           /\ \A d \in Clients : peer'[d] = peer[d] \/ (peer[d] = "closed" /\ peer'[d] = "reset")
  BY DEF LoopShape, LoopTypes, NetTypeOK, AfterSend, Departed

\* A connection moves from the backlog to the end of the vector.
LEMMA AcceptsShape ==
    ASSUME LoopShape, Accepts
    PROVE  LoopShape'
<1> DEFINE c == Head(backlog)
<1>1. /\ phase = "accept" /\ Listener \in readset /\ Len(s_sock) < MaxSock
      /\ buf' = [buf EXCEPT ![c] = 0] /\ s_sock' = Append(s_sock, c)
      /\ backlog' = Tail(backlog) /\ it' = 1 /\ phase' \in {"serve", "dead"}
      /\ UNCHANGED <<readset, inbox, MaxSock, polite>>
  BY DEF Accepts, world, MayRaise
<1>2. PICK p \in AfterSend(c) : peer' = [peer EXCEPT ![c] = p]
  BY DEF Accepts
<1>3. /\ it = 1 /\ readset \subseteq Open \cup {Listener} /\ backlog # <<>>
  BY <1>1 DEF LoopShape, PassBegins
<1>4. /\ c \in Clients /\ c \in ToSet(backlog) /\ c \notin Open
      /\ backlog' \in Seq(Clients) /\ IsInjective(backlog)'
      /\ ToSet(backlog)' = ToSet(backlog) \ {c}
  BY <1>1, <1>3, ShapeFacts, TailTakes
<1>5. /\ s_sock' \in Seq(Clients) /\ Len(s_sock') = Len(s_sock) + 1
      /\ \A i \in 1 .. Len(s_sock) : s_sock'[i] = s_sock[i]
      /\ s_sock'[Len(s_sock) + 1] = c
      /\ Open' = Open \cup {c} /\ IsInjective(s_sock)'
  BY <1>1, <1>4, ShapeFacts, AppendAdds, AppendProperties DEF Open
<1> HIDE DEF c
<1>6. /\ peer' \in [Clients -> {"idle", "up", "closed", "reset"}]
      /\ \A d \in Clients : peer'[d] = "idle" <=> peer[d] = "idle"
      /\ \A d \in Clients : Departed(d)' <=> Departed(d)
  BY <1>2, <1>4, SendKeeps
<1>7. LoopTypes'
  <2>1. Len(s_sock') <= MaxSock /\ it' \in 1 .. MaxSock + 2 /\ 0 \in 0 .. BufMax
    BY <1>1, <1>5, ShapeFacts, MultiplexAssumption
  <2> QED
    BY <1>1, <1>4, <1>5, <1>6, <2>1 DEF LoopShape, LoopTypes, NetTypeOK
<1>8. OnePlace'
  BY <1>1, <1>4, <1>5, <1>6 DEF LoopShape, OnePlace, Open
<1>9. RecvReturns'
  <2> SUFFICES ASSUME NEW i \in 1 .. Len(s_sock) + 1, NEW d, d = s_sock'[i], d \in readset
               PROVE  Readable(d)'
    BY <1>1, <1>5 DEF RecvReturns
  <2>1. i # Len(s_sock) + 1
    BY <1>3, <1>4, <1>5, ShapeFacts
  <2>2. i \in 1 .. Len(s_sock) /\ s_sock[i] = d /\ d \in Clients
    BY <1>5, <2>1, ShapeFacts
  <2>3. Readable(d)
    BY <1>3, <2>2 DEF LoopShape, RecvReturns
  <2> QED
    BY <1>1, <1>6, <2>2, <2>3 DEF Readable
<1>10. PassBegins'
  BY <1>1 DEF PassBegins
<1> QED
  BY <1>7, <1>8, <1>9, <1>10 DEF LoopShape

(***************************************************************************)
(* What a turn says: the session is open, its peer connected, and the      *)
(* index within the vector.                                                *)
(***************************************************************************)
LEMMA TurnFacts ==
    ASSUME LoopShape, NEW c, NEW i, Turn(c, i)
    PROVE  /\ i \in 1 .. Len(s_sock) /\ s_sock[i] = c /\ it <= i
           /\ c \in Clients /\ c \in Open /\ c \notin ToSet(backlog)
           /\ phase = "serve" /\ c \in readset /\ Readable(c) /\ peer[c] # "idle"
           /\ i + 1 \in 1 .. MaxSock + 2 /\ it \in Nat
<1>1. /\ phase = "serve" /\ i \in it .. Len(s_sock) /\ s_sock[i] = c /\ c \in readset
      /\ it \in 1 .. MaxSock + 2 /\ Len(s_sock) <= MaxSock
  BY DEF Turn, LoopShape, LoopTypes
<1>2. i \in 1 .. Len(s_sock) /\ it <= i /\ i + 1 \in 1 .. MaxSock + 2 /\ it \in Nat
  BY <1>1, ShapeFacts
<1>3. c \in Clients /\ c \in Open
  BY <1>1, <1>2, ShapeFacts
<1>4. c \notin ToSet(backlog) /\ peer[c] # "idle"
  BY <1>1, <1>3 DEF LoopShape, OnePlace
<1>5. Readable(c)
  BY <1>1 DEF LoopShape, RecvReturns
<1> QED
  BY <1>1, <1>2, <1>3, <1>4, <1>5

\* A session is served and stays; it is not served again in this pass.
LEMMA StaysShape ==
    ASSUME LoopShape, NEW c, NEW i, Turn(c, i), it' = i + 1, phase' \in {phase, "dead"},
           UNCHANGED <<s_sock, readset, backlog, MaxSock, polite>>,
           buf' \in [Clients -> 0 .. BufMax],
           inbox' \in [Clients -> Seq(Lines \cup Fragments)],
           \A d \in Clients \ {c} : inbox'[d] = inbox[d],
           \E p \in AfterSend(c) : peer' = [peer EXCEPT ![c] = p]
    PROVE  LoopShape'
<1> PICK p \in AfterSend(c) : peer' = [peer EXCEPT ![c] = p]
  OBVIOUS
<1>1. /\ peer' \in [Clients -> {"idle", "up", "closed", "reset"}]
      /\ \A d \in Clients : peer'[d] = "idle" <=> peer[d] = "idle"
      /\ \A d \in Clients : Departed(d)' <=> Departed(d)
  BY TurnFacts, SendKeeps
<1>2. LoopTypes'
  BY <1>1, TurnFacts DEF LoopShape, LoopTypes, NetTypeOK
<1>3. RecvReturns'
  <2>1. /\ i \in 1 .. Len(s_sock) /\ s_sock[i] = c /\ it <= i /\ it \in Nat
        /\ Len(s_sock) \in Nat
    BY TurnFacts, ShapeFacts
  <2> SUFFICES ASSUME NEW j \in i + 1 .. Len(s_sock), NEW d, d = s_sock[j], d \in readset
               PROVE  Readable(d)'
    BY DEF RecvReturns
  <2>2. j \in 1 .. Len(s_sock) /\ j \in it .. Len(s_sock) /\ j # i
    BY <2>1
  <2>3. d \in Clients \ {c}
    BY <2>1, <2>2, ShapeFacts
  <2>4. Readable(d)
    BY <2>2 DEF LoopShape, RecvReturns
  <2> QED
    BY <1>1, <2>3, <2>4 DEF Readable
<1>4. PassBegins'
  BY TurnFacts DEF PassBegins
<1> QED
  BY <1>1, <1>2, <1>3, <1>4, TurnFacts, ShapeFacts, SamePlaces

(***************************************************************************)
(* A session is erased: those behind it move up by one, and the index with *)
(* them, so that the next of them is passed over but none is lost.         *)
(***************************************************************************)
LEMMA ErasedShape ==
    ASSUME LoopShape, NEW c, NEW i, Turn(c, i), it' = i + 1, phase' \in {phase, "dead"},
           Erase(c, i), UNCHANGED <<readset, backlog, MaxSock, polite>>
    PROVE  LoopShape'
<1>1. /\ s_sock' = RemoveAt(s_sock, i) /\ buf' = [buf EXCEPT ![c] = 0]
      /\ peer' = [peer EXCEPT ![c] = "idle"] /\ inbox' = [inbox EXCEPT ![c] = <<>>]
  BY DEF Erase, Hungup
<1>2. /\ i \in 1 .. Len(s_sock) /\ s_sock[i] = c /\ it <= i /\ it \in Nat
      /\ s_sock \in Seq(Clients) /\ Len(s_sock) \in Nat /\ IsInjective(s_sock)
  BY TurnFacts, ShapeFacts
<1>3. /\ s_sock' \in Seq(Clients) /\ Len(s_sock') = Len(s_sock) - 1
      /\ \A j \in 1 .. Len(s_sock) - 1 : s_sock'[j] = IF j < i THEN s_sock[j] ELSE s_sock[j + 1]
      /\ Open' = Open \ {c} /\ IsInjective(s_sock)'
  BY <1>1, <1>2, RemoveTakes DEF Open
<1>4. LoopTypes'
  <2>1. Len(s_sock') <= MaxSock
    BY <1>2, <1>3, ShapeFacts DEF LoopShape, LoopTypes
  <2>2. <<>> \in Seq(Lines \cup Fragments)
    OBVIOUS
  <2> QED
    BY <1>1, <1>3, <2>1, <2>2, TurnFacts, MultiplexAssumption DEF LoopShape, LoopTypes, NetTypeOK
<1>5. OnePlace'
  BY <1>1, <1>3, TurnFacts DEF LoopShape, LoopTypes, NetTypeOK, OnePlace, Open
<1>6. RecvReturns'
  <2> SUFFICES ASSUME NEW j \in i + 1 .. Len(s_sock) - 1, NEW d, d = s_sock'[j], d \in readset
               PROVE  Readable(d)'
    BY <1>3 DEF RecvReturns
  <2>1. j + 1 \in 1 .. Len(s_sock) /\ j + 1 \in it .. Len(s_sock) /\ j + 1 # i
    BY <1>2
  <2>2. d = s_sock[j + 1]
    BY <1>2, <1>3
  <2>3. d \in Clients /\ d # c
    BY <1>2, <2>1, <2>2, ShapeFacts
  <2>4. Readable(d)
    BY <2>1, <2>2 DEF LoopShape, RecvReturns
  <2> QED
    BY <1>1, <2>3, <2>4 DEF LoopShape, LoopTypes, NetTypeOK, Readable, Departed
<1>7. PassBegins'
  BY TurnFacts DEF PassBegins
<1> QED
  BY <1>4, <1>5, <1>6, <1>7 DEF LoopShape

\* Each way to serve a session keeps the shape.
LEMMA ServeShape ==
    ASSUME LoopShape, NEW c, NEW i, ServeHangup(c, i) \/ ServeFragment(c, i) \/ ServeLine(c, i)
    PROVE  LoopShape'
<1>1. CASE ServeHangup(c, i)
  BY <1>1, ErasedShape DEF ServeHangup, Advance, world
<1>2. CASE ServeFragment(c, i)
  <2>1. /\ Turn(c, i) /\ it' = i + 1 /\ inbox[c] # <<>> /\ buf[c] < BufMax
        /\ buf' = [buf EXCEPT ![c] = buf[c] + 1] /\ inbox' = [inbox EXCEPT ![c] = Tail(inbox[c])]
        /\ UNCHANGED <<s_sock, phase, peer, readset, backlog, MaxSock, polite>>
    BY <1>2 DEF ServeFragment, Advance, Room, world
  <2>2. c \in Clients /\ inbox[c] \in Seq(Lines \cup Fragments)
    BY <2>1, TurnFacts, ShapeFacts
  <2>3. Tail(inbox[c]) \in Seq(Lines \cup Fragments)
    BY <2>1, <2>2, HeadTailProperties
  <2>4. /\ inbox' \in [Clients -> Seq(Lines \cup Fragments)]
        /\ \A d \in Clients \ {c} : inbox'[d] = inbox[d]
    BY <2>1, <2>3 DEF LoopShape, LoopTypes, NetTypeOK
  <2>5. buf' \in [Clients -> 0 .. BufMax]
    BY <2>1, <2>2, MultiplexAssumption DEF LoopShape, LoopTypes
  <2>6. peer[c] \in AfterSend(c) /\ peer' = [peer EXCEPT ![c] = peer[c]]
    BY <2>1, <2>2 DEF AfterSend, LoopShape, LoopTypes, NetTypeOK
  <2> QED
    BY <2>1, <2>4, <2>5, <2>6, StaysShape
<1>3. CASE ServeLine(c, i)
  <2>1. /\ Turn(c, i) /\ it' = i + 1 /\ inbox[c] # <<>> /\ phase' \in {phase, "dead"}
        /\ UNCHANGED <<readset, backlog, MaxSock, polite>>
    BY <1>3 DEF ServeLine, Advance, world, MayRaise
  <2>2. CASE Erase(c, i)
    BY <2>1, <2>2, ErasedShape
  <2>3. CASE ~Erase(c, i)
    <3>1. /\ \E p \in AfterSend(c) : peer' = [peer EXCEPT ![c] = p]
          /\ inbox' = [inbox EXCEPT ![c] = Tail(inbox[c])] /\ buf' = [buf EXCEPT ![c] = 0]
          /\ UNCHANGED s_sock
      BY <1>3, <2>3 DEF ServeLine
    <3>2. c \in Clients /\ inbox[c] \in Seq(Lines \cup Fragments)
      BY <2>1, TurnFacts, ShapeFacts
    <3>3. Tail(inbox[c]) \in Seq(Lines \cup Fragments)
      BY <2>1, <3>2, HeadTailProperties
    <3>4. /\ inbox' \in [Clients -> Seq(Lines \cup Fragments)]
          /\ \A d \in Clients \ {c} : inbox'[d] = inbox[d]
      BY <3>1, <3>3 DEF LoopShape, LoopTypes, NetTypeOK
    <3>5. buf' \in [Clients -> 0 .. BufMax]
      <4>1. 0 \in 0 .. BufMax
        BY MultiplexAssumption
      <4> QED
        BY <3>1, <4>1 DEF LoopShape, LoopTypes
    <3> QED
      BY <2>1, <3>1, <3>4, <3>5, StaysShape
  <2> QED
    BY <2>2, <2>3
<1> QED
  BY <1>1, <1>2, <1>3

\* Nobody is anywhere at the start.
LEMMA InitShape == Init => LoopShape
<1> SUFFICES ASSUME Init PROVE LoopShape
  OBVIOUS
<1>1. MaxSock \in Nat \ {0} /\ 0 \in 0 .. BufMax
  BY MultiplexAssumption DEF Init
<1>2. s_sock = <<>> /\ backlog = <<>> /\ <<>> \in Seq(Clients) /\ Len(<<>>) = 0
  BY DEF Init, NetInit
<1>3. \A s : s = <<>> => ToSet(s) = {} /\ IsInjective(s)
  BY DEF ToSet, IsInjective
<1>4. LoopTypes
  <2>1. <<>> \in Seq(Lines \cup Fragments)
    OBVIOUS
  <2> QED
    BY <1>1, <1>2, <2>1 DEF Init, NetInit, LoopTypes, NetTypeOK
<1>5. OnePlace /\ RecvReturns /\ PassBegins
  BY <1>2, <1>3 DEF Init, NetInit, OnePlace, RecvReturns, PassBegins, Open
<1> QED
  BY <1>4, <1>5 DEF LoopShape

\* Every step of the peers and of the loop keeps the shape.
LEMMA NextShape == LoopShape /\ [Next]_vars => LoopShape'
<1> SUFFICES ASSUME LoopShape, [Next]_vars PROVE LoopShape'
  OBVIOUS
<1>1. CASE Peers
  BY <1>1, PeersShape
<1>2. CASE Work
  BY <1>2, SelectShape, TurnOfPassShape, AcceptsShape, ServeShape DEF Work, Serve
<1>3. CASE UNCHANGED vars
  BY <1>3 DEF vars, server_vars, net_vars, world, LoopShape, LoopTypes, NetTypeOK, OnePlace,
              RecvReturns, PassBegins, Open, Readable, Departed
<1> QED
  BY <1>1, <1>2, <1>3 DEF Next

(***************************************************************************)
(* Every reachable state of the loop has its shape.                        *)
(***************************************************************************)
THEOREM ShapeInvariance == Spec => []LoopShape
<1>1. Init => LoopShape
  BY InitShape
<1>2. LoopShape /\ [Next]_vars => LoopShape'
  BY NextShape
<1> QED
  BY <1>1, <1>2, PTL DEF Spec

-----------------------------------------------------------------------------
(***************************************************************************)
(* What needs the shape only.                                              *)
(***************************************************************************)

\* With polite peers the loop never sends to a connection that is reset.
LEMMA PoliteStep ==
    ASSUME LoopShape, LoopShape', PoliteInv, [Next]_vars
    PROVE  PoliteInv'
<1> SUFFICES ASSUME polite' PROVE /\ phase' # "dead"
                                  /\ \A c \in Clients : /\ peer'[c] # "reset"
                                                        /\ peer'[c] = "closed" =>
                                                             c \in Open' /\ inbox'[c] = <<>>
  BY DEF PoliteInv
<1>1. UNCHANGED polite
  BY DEF Next, Peers, Work, Select, AcceptFails, Accepts, NothingToAccept, Serve, ServeHangup,
         ServeFragment, ServeLine, EndOfPass, world, vars
<1>2. /\ phase # "dead"
      /\ \A c \in Clients : peer[c] # "reset" /\ (peer[c] = "closed" => c \in Open /\ inbox[c] = <<>>)
  BY <1>1 DEF PoliteInv
<1>3. CASE Peers
  <2>1. PICK c \in Clients : Dial(c) \/ Transmit(c) \/ Depart(c)
    BY <1>3 DEF Peers, PeerActs
  <2>2. UNCHANGED <<s_sock, phase>> /\ Polite
    BY <1>1, <1>3 DEF Peers, server_vars
  <2>3. \A d \in Clients \ {c} : peer'[d] = peer[d] /\ inbox'[d] = inbox[d]
    BY <2>1 DEF Dial, Transmit, Depart, LoopShape, LoopTypes, NetTypeOK
  <2>4. peer'[c] \in {"up", "closed", "reset"} /\ (peer'[c] \in {"closed", "reset"} => Depart(c))
    BY <2>1 DEF Dial, Transmit, Depart, LoopShape, LoopTypes, NetTypeOK
  <2>5. Depart(c) => peer'[c] = "closed" /\ c \in Open /\ inbox'[c] = <<>>
    BY <2>2, <2>4 DEF Polite, Depart, Open, LoopShape, LoopTypes, NetTypeOK
  <2> QED
    BY <1>2, <2>2, <2>3, <2>4, <2>5 DEF Open
<1>4. CASE Work
  <2>1. CASE Select \/ AcceptFails \/ NothingToAccept \/ EndOfPass
    BY <1>2, <2>1 DEF Select, AcceptFails, Abandon, NothingToAccept, EndOfPass, net_vars, Open
  <2>2. CASE Accepts
    <3> PICK c : c = Head(backlog)
      OBVIOUS
    <3>1. c \in Clients /\ c \in ToSet(backlog) /\ c \notin Open
      BY <2>2, ShapeFacts, TailTakes DEF Accepts, LoopShape, PassBegins
    <3>2. AfterSend(c) = {peer[c]} /\ MayRaise(c) = {FALSE}
      BY <1>2, <3>1 DEF AfterSend, MayRaise
    <3>3. /\ \E p \in AfterSend(c) : peer' = [peer EXCEPT ![c] = p]
          /\ \E killed \in MayRaise(c) : phase' = IF killed THEN "dead" ELSE "serve"
          /\ inbox' = inbox /\ s_sock' = Append(s_sock, c)
      BY <2>2 DEF Accepts
    <3>4. peer' = peer /\ phase' = "serve"
      <4>1. peer' = peer
        BY <3>1, <3>2, <3>3 DEF LoopShape, LoopTypes, NetTypeOK
      <4>2. phase' = "serve"
        BY <3>2, <3>3, Zenon
      <4> QED
        BY <4>1, <4>2
    <3>5. Open \subseteq Open'
      BY <3>1, <3>3, ShapeFacts, AppendAdds DEF Open
    <3> QED
      BY <1>2, <3>3, <3>4, <3>5
  <2>3. ASSUME NEW c, NEW i, ServeHangup(c, i) \/ ServeFragment(c, i) \/ ServeLine(c, i)
        PROVE  /\ phase' # "dead"
               /\ \A d \in Clients : /\ peer'[d] # "reset"
                                     /\ peer'[d] = "closed" => d \in Open' /\ inbox'[d] = <<>>
    <3>1. Turn(c, i) /\ (~ServeHangup(c, i) => inbox[c] # <<>>)
      BY <2>3 DEF ServeHangup, ServeFragment, ServeLine
    <3>2. i \in 1 .. Len(s_sock) /\ s_sock[i] = c /\ c \in Clients
      BY <3>1, TurnFacts
    <3>3. CASE Erase(c, i) /\ phase' \in {phase, "dead"} /\ (phase' = phase \/ peer[c] = "reset")
      <4>1. Open' = Open \ {c}
        BY <3>2, <3>3, ShapeFacts, RemoveTakes DEF Erase, Open
      <4> QED
        BY <1>2, <3>2, <3>3, <4>1 DEF Erase, Hungup, LoopShape, LoopTypes, NetTypeOK
    <3>4. CASE ~Erase(c, i)
      <4>1. inbox[c] # <<>> /\ s_sock' = s_sock
        BY <2>3, <3>1, <3>4 DEF ServeHangup, ServeFragment, ServeLine
      <4>2. peer[c] \notin {"closed", "reset"}
        BY <1>2, <3>2, <4>1
      <4>3. AfterSend(c) = {peer[c]} /\ MayRaise(c) = {FALSE}
        BY <4>2 DEF AfterSend, MayRaise
      <4>4. /\ \/ peer' = peer /\ phase' = phase
               \/ /\ \E p \in AfterSend(c) : peer' = [peer EXCEPT ![c] = p]
                  /\ \E killed \in MayRaise(c) : phase' = IF killed THEN "dead" ELSE phase
            /\ inbox' = [inbox EXCEPT ![c] = Tail(inbox[c])]
        BY <2>3, <3>4 DEF ServeHangup, ServeFragment, ServeLine
      <4>5. peer' = peer /\ phase' = phase
        BY <3>2, <4>3, <4>4 DEF LoopShape, LoopTypes, NetTypeOK
      <4> QED
        BY <1>2, <3>2, <4>1, <4>2, <4>4, <4>5 DEF LoopShape, LoopTypes, NetTypeOK, Open
    <3> QED
      BY <2>3, <3>3, <3>4 DEF ServeHangup, ServeFragment, ServeLine, MayRaise
  <2> QED
    BY <1>4, <2>1, <2>2, <2>3 DEF Work, Serve
<1>5. CASE UNCHANGED vars
  BY <1>2, <1>5 DEF vars, server_vars, net_vars, Open
<1> QED
  BY <1>3, <1>4, <1>5 DEF Next

(***************************************************************************)
(* SIGPIPE never ends the server while its peers are polite: the step that *)
(* finds the end of the input does not answer it.                          *)
(***************************************************************************)
THEOREM NoSigpipe == Spec => []NeverKilled
<1>1. Init => PoliteInv
  BY DEF Init, NetInit, PoliteInv
<1>2. LoopShape /\ LoopShape' /\ PoliteInv /\ [Next]_vars => PoliteInv'
  BY PoliteStep
<1>3. PoliteInv => NeverKilled
  BY DEF PoliteInv, NeverKilled
<1> QED
  BY <1>1, <1>2, <1>3, ShapeInvariance, PTL DEF Spec

(***************************************************************************)
(* A full table with somebody in the backlog is for ever.                  *)
(***************************************************************************)
THEOREM Jam == Spec => JamIsForever
<1>1. ASSUME LoopShape, [Next]_vars, Jammed PROVE Jammed'
  <2>1. /\ Len(s_sock) = MaxSock /\ backlog # <<>>
        /\ phase = "select" \/ (phase = "accept" /\ Listener \in readset)
    BY <1>1 DEF Jammed
  <2>2. CASE Peers
    <3>1. PICK c \in Clients : Dial(c) \/ Transmit(c) \/ Depart(c)
      BY <2>2 DEF Peers, PeerActs
    <3>2. backlog' # <<>>
      BY <1>1, <2>1, <3>1, ShapeFacts, AppendAdds DEF Dial, Transmit, Depart
    <3> QED
      BY <2>1, <2>2, <3>2 DEF Peers, server_vars, world, Jammed
  <2>3. CASE Work
    <3>1. Select \/ AcceptFails
      BY <1>1, <2>1, <2>3, ShapeFacts
         DEF Work, Accepts, NothingToAccept, Serve, ServeHangup, ServeFragment, ServeLine,
             Turn, EndOfPass
    <3> QED
      BY <2>1, <3>1 DEF Select, Ready, AcceptFails, Abandon, net_vars, world, Jammed
  <2>4. CASE UNCHANGED vars
    BY <2>1, <2>4 DEF vars, server_vars, net_vars, world, Jammed
  <2> QED
    BY <1>1, <2>2, <2>3, <2>4 DEF Next
<1>2. LoopShape /\ [Next]_vars => [Jammed => Jammed']_vars
  BY <1>1
<1> QED
  BY <1>2, ShapeInvariance, PTL DEF Spec, JamIsForever

-----------------------------------------------------------------------------
(***************************************************************************)
(* The refinement of Pop3Sessions.  Sessions, the instance of Pop3-        *)
(* Multiplex, and Proved, the one that brings the theorems, are instances  *)
(* of the same definitions.                                                *)
(***************************************************************************)
Proved == INSTANCE Pop3SessionsProofs WITH s_sock <- ToSet(s_sock)

\* The handler of the sessions is the one the loop calls.
LEMMA SameHandler ==
    /\ \A c, line : Sessions!command_handler(c, line) <=> command_handler(c, line)
    /\ \A c : Sessions!QUIT(c, <<>>) <=> QUIT(c, <<>>)
    /\ HandlerInit => Sessions!HandlerInit
<1> USE DEF Users, Digits, Length, login, cntmess, summmess, HasMessage, showmessage, setlabeldel,
            taken, unused, Labelled, deletealllabels, Cardinality, Rank, Enumerate, Unmarked,
            Kept, updatemailbox, Mailbox, Answer, Ok, Err, Bye
<1> USE DEF Sessions!Users, Sessions!Digits, Sessions!Length, Sessions!login, Sessions!cntmess,
            Sessions!summmess, Sessions!HasMessage, Sessions!showmessage, Sessions!setlabeldel,
            Sessions!taken, Sessions!unused, Sessions!Labelled, Sessions!deletealllabels,
            Sessions!Cardinality, Sessions!Rank, Sessions!Enumerate, Sessions!Unmarked,
            Sessions!Kept, Sessions!updatemailbox, Sessions!Mailbox, Sessions!Answer,
            Sessions!Ok, Sessions!Err, Sessions!Bye
<1>1. \A c, line : Sessions!command_handler(c, line) <=> command_handler(c, line)
  BY DEF command_handler, atoi, login_at, Relogin, USER, PASS, Epilogue, QUIT, Drop, STAT, LIST,
         RETR, DELE, RSET, CommandsOf, Invalid,
         Sessions!command_handler, Sessions!atoi, Sessions!login_at, Sessions!Relogin,
         Sessions!USER, Sessions!PASS, Sessions!Epilogue, Sessions!QUIT, Sessions!Drop,
         Sessions!STAT, Sessions!LIST, Sessions!RETR, Sessions!DELE, Sessions!RSET,
         Sessions!CommandsOf, Sessions!Invalid
<1>2. \A c : Sessions!QUIT(c, <<>>) <=> QUIT(c, <<>>)
  BY DEF QUIT, Epilogue, Sessions!QUIT, Sessions!Epilogue
<1>3. HandlerInit => Sessions!HandlerInit
  BY DEF HandlerInit, UsersInit, NewPerson, NoReply,
         Sessions!HandlerInit, Sessions!UsersInit, Sessions!NewPerson, Sessions!NoReply
<1> QED
  BY <1>1, <1>2, <1>3

\* The session whose turn it is leaves the vector alone.
LEMMA TurnRemoves ==
    ASSUME LoopShape, NEW c, NEW i, Turn(c, i)
    PROVE  c \in Clients /\ c \in ToSet(s_sock) /\ ToSet(RemoveAt(s_sock, i)) = ToSet(s_sock) \ {c}
<1>1. i \in 1 .. Len(s_sock) /\ s_sock[i] = c /\ c \in Clients /\ c \in ToSet(s_sock)
  BY TurnFacts DEF Open
<1>2. s_sock \in Seq(Clients) /\ IsInjective(s_sock)
  BY ShapeFacts
<1> QED
  BY <1>1, <1>2, RemoveTakes

(***************************************************************************)
(* Accepting, a command line and the end of the input are the steps of     *)
(* Pop3Sessions; whatever else the loop and the peers do is none.          *)
(***************************************************************************)
LEMMA SessionsStep ==
    ASSUME LoopShape, [Next]_vars
    PROVE  [Sessions!Next]_(Sessions!vars)
<1>1. CASE Peers \/ Select \/ AcceptFails \/ NothingToAccept \/ EndOfPass \/ UNCHANGED vars
  BY <1>1 DEF Peers, Select, AcceptFails, NothingToAccept, EndOfPass, vars, server_vars,
              handler_vars, Sessions!vars
<1>2. CASE Accepts
  <2> PICK c : c = Head(backlog)
    OBVIOUS
  <2>1. c \in Clients /\ c \in ToSet(backlog) /\ c \notin Open
    BY <1>2, ShapeFacts, TailTakes DEF Accepts, LoopShape, PassBegins
  <2>2. ToSet(s_sock)' = ToSet(s_sock) \cup {c}
    BY <1>2, <2>1, ShapeFacts, AppendAdds DEF Accepts
  <2>3. Sessions!Accept(c)
    BY <1>2, <2>1, <2>2 DEF Accepts, Open, Sessions!Accept, Sessions!NewSession
  <2> QED
    BY <2>1, <2>3 DEF Sessions!Next
<1>3. ASSUME NEW c, NEW i, ServeHangup(c, i) PROVE Sessions!Next
  <2>1. Turn(c, i) /\ QUIT(c, <<>>) /\ s_sock' = RemoveAt(s_sock, i)
    BY <1>3 DEF ServeHangup, Commit, Erase
  <2>2. c \in Clients /\ c \in ToSet(s_sock) /\ ToSet(s_sock)' = ToSet(s_sock) \ {c}
    BY <2>1, TurnRemoves
  <2>3. Sessions!Hangup(c)
    BY <2>1, <2>2, SameHandler DEF Sessions!Hangup
  <2> QED
    BY <2>2, <2>3 DEF Sessions!Next
<1>4. ASSUME NEW c, NEW i, ServeLine(c, i) PROVE Sessions!Next
  <2> PICK line : line = Head(inbox[c])
    OBVIOUS
  <2>1. /\ Turn(c, i) /\ command_handler(c, line) /\ line \in Lines
        /\ \/ result'.q = 0 /\ s_sock' = RemoveAt(s_sock, i)
           \/ result'.q = 1 /\ s_sock' = s_sock
    BY <1>4 DEF ServeLine, Erase
  <2>2. c \in Clients /\ c \in ToSet(s_sock) /\ ToSet(RemoveAt(s_sock, i)) = ToSet(s_sock) \ {c}
    BY <2>1, TurnRemoves
  <2>3. Sessions!HandleLine(c, line)
    BY <2>1, <2>2, SameHandler DEF Sessions!HandleLine
  <2> QED
    BY <2>1, <2>2, <2>3 DEF Sessions!Next
<1>5. ASSUME NEW c, NEW i, ServeFragment(c, i) PROVE UNCHANGED Sessions!vars
  BY <1>5 DEF ServeFragment, handler_vars, Sessions!vars
<1> QED
  BY <1>1, <1>2, <1>3, <1>4, <1>5 DEF Next, Work, Serve

(***************************************************************************)
(* work() implements the sessions: whatever the order of service, the      *)
(* erasures inside the loop and the peers that go away.                    *)
(***************************************************************************)
THEOREM Refinement == Spec => ImplementsSessions
<1>1. Init => Sessions!Init
  <2>1. ToSet(<<>>) = {}
    BY DEF ToSet
  <2> QED
    BY <2>1, SameHandler DEF Init, Sessions!Init
<1>2. LoopShape /\ [Next]_vars => [Sessions!Next]_(Sessions!vars)
  BY SessionsStep
<1> QED
  BY <1>1, <1>2, ShapeInvariance, PTL DEF Spec, ImplementsSessions, Sessions!Spec

\* The two instances have the same behaviours.
LEMMA SameSessions == Sessions!Spec => Proved!Spec
<1>1. Sessions!Init => Proved!Init
  BY DEF Sessions!Init, Sessions!HandlerInit, Sessions!UsersInit, Sessions!NewPerson,
         Sessions!NoReply, Sessions!Users, Sessions!Length, Sessions!Digits,
         Proved!Init, Proved!HandlerInit, Proved!UsersInit, Proved!NewPerson,
         Proved!NoReply, Proved!Users, Proved!Length, Proved!Digits
<1>2. [Sessions!Next]_(Sessions!vars) => [Proved!Next]_(Proved!vars)
  BY DEF Sessions!Next, Sessions!vars, Sessions!Accept, Sessions!NewSession, Sessions!HandleLine,
         Sessions!Hangup, Sessions!command_handler, Sessions!atoi, Sessions!login_at,
         Sessions!Relogin, Sessions!USER, Sessions!PASS, Sessions!Epilogue, Sessions!QUIT,
         Sessions!Drop, Sessions!STAT, Sessions!LIST, Sessions!RETR, Sessions!DELE,
         Sessions!RSET, Sessions!CommandsOf, Sessions!Invalid, Sessions!Users,
         Sessions!Digits, Sessions!Length, Sessions!login, Sessions!cntmess,
         Sessions!summmess, Sessions!HasMessage, Sessions!showmessage, Sessions!setlabeldel,
         Sessions!taken, Sessions!unused, Sessions!Labelled, Sessions!deletealllabels,
         Sessions!Cardinality, Sessions!Rank, Sessions!Enumerate, Sessions!Unmarked,
         Sessions!Kept, Sessions!updatemailbox, Sessions!Mailbox, Sessions!Answer,
         Sessions!Ok, Sessions!Err, Sessions!Bye,
         Proved!Next, Proved!vars, Proved!Accept, Proved!NewSession, Proved!HandleLine,
         Proved!Hangup, Proved!command_handler, Proved!atoi, Proved!login_at,
         Proved!Relogin, Proved!USER, Proved!PASS, Proved!Epilogue, Proved!QUIT,
         Proved!Drop, Proved!STAT, Proved!LIST, Proved!RETR, Proved!DELE,
         Proved!RSET, Proved!CommandsOf, Proved!Invalid, Proved!Users,
         Proved!Digits, Proved!Length, Proved!login, Proved!cntmess,
         Proved!summmess, Proved!HasMessage, Proved!showmessage, Proved!setlabeldel,
         Proved!taken, Proved!unused, Proved!Labelled, Proved!deletealllabels,
         Proved!Cardinality, Proved!Rank, Proved!Enumerate, Proved!Unmarked,
         Proved!Kept, Proved!updatemailbox, Proved!Mailbox, Proved!Answer,
         Proved!Ok, Proved!Err, Proved!Bye
<1> QED
  BY <1>1, <1>2, PTL DEF Sessions!Spec, Proved!Spec

(***************************************************************************)
(* What Pop3SessionsProofs proves of the sessions holds in every state of  *)
(* the loop.                                                               *)
(***************************************************************************)
LEMMA SessionsInvariance == Spec => []Proved!IInv
<1>1. Proved!MailboxAssumption /\ Proved!HandlerAssumption
  BY MailboxAssumption, HandlerAssumption DEF Proved!MailboxAssumption, Proved!HandlerAssumption
<1>2. Proved!Spec => []Proved!IInv
  BY <1>1, Proved!Invariance
<1> QED
  BY <1>2, Refinement, SameSessions, PTL DEF ImplementsSessions

(***************************************************************************)
(* The variables have the types of the program's, a peer is in one place,  *)
(* and what select reported still holds when a session's turn comes.       *)
(***************************************************************************)
THEOREM LoopCorrect == Spec => []LoopInv
<1>1. LoopShape /\ Proved!IInv => LoopInv
  BY DEF LoopShape, LoopTypes, LoopInv, TypeOK, Users, Person, Message, Text, States, Reply, Wordings,
         Proved!IInv, Proved!TypeOK, Proved!Users, Proved!Person, Proved!Message, Proved!Text,
         Proved!States, Proved!Reply, Proved!Wordings
<1> QED
  BY <1>1, ShapeInvariance, SessionsInvariance, PTL

(***************************************************************************)
(* Through the loop, two peers never hold one mailbox, a mailbox is locked *)
(* exactly while a session of the vector holds it, only a session that     *)
(* gave the password has marks, and summ is the size of the mailbox.       *)
(***************************************************************************)
THEOREM LoopKeepsMailboxes ==
    Spec => [](/\ Sessions!HeldByOneSession /\ Sessions!LockedIffHeld
               /\ Sessions!MarksNeedTransaction /\ Sessions!TransactionHoldsMailbox
               /\ Sessions!SummIsTotal)
<1>1. Proved!IInv => /\ Sessions!HeldByOneSession /\ Sessions!LockedIffHeld
                     /\ Sessions!MarksNeedTransaction /\ Sessions!TransactionHoldsMailbox
                     /\ Sessions!SummIsTotal
  BY DEF Sessions!HeldByOneSession, Sessions!LockedIffHeld, Sessions!MarksNeedTransaction,
         Sessions!TransactionHoldsMailbox, Sessions!SummIsTotal, Sessions!Holders,
         Sessions!Marked, Sessions!Users, Sessions!Length, Sessions!Digits,
         Proved!IInv, Proved!HeldByOneSession, Proved!LockedIffHeld,
         Proved!MarksNeedTransaction, Proved!TransactionHoldsMailbox, Proved!SummIsTotal,
         Proved!Holders, Proved!Marked, Proved!Users, Proved!Length, Proved!Digits
<1> QED
  BY <1>1, SessionsInvariance, PTL

(***************************************************************************)
(* Through the loop, messages leave a mailbox only by the commit of the    *)
(* session that holds it, marks last until it resets or ends, and the      *)
(* mailboxes keep the promise of Maildrop.                                 *)
(***************************************************************************)
THEOREM LoopKeepsPromise ==
    Spec => /\ Proved!OnlyCommitErases
            /\ Proved!MarksAreKept
            /\ Proved!ImplementsMaildrop
<1>1. Proved!MailboxAssumption /\ Proved!HandlerAssumption
  BY MailboxAssumption, HandlerAssumption DEF Proved!MailboxAssumption, Proved!HandlerAssumption
<1>2. Proved!Spec => /\ Proved!OnlyCommitErases
                     /\ Proved!MarksAreKept
                     /\ Proved!ImplementsMaildrop
  BY <1>1, Proved!Commits, Proved!MarksLast, Proved!Refinement
<1> QED
  BY <1>2, Refinement, SameSessions, PTL DEF ImplementsSessions
=============================================================================
