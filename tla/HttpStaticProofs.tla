-------------------------- MODULE HttpStaticProofs --------------------------
(***************************************************************************)
(* HttpStatic, for any number of clients, files and handles: connections   *)
(* wait with a timer or are written to without one, no FILE leaks but at   *)
(* the two places that are known, and in a tame world answers are whole.   *)
(***************************************************************************)
EXTENDS HttpStatic, VectorProofs

(***************************************************************************)
(* HttpStatic's events and connections owe nothing to the files            *)
(* (StaticShape).                                                          *)
(***************************************************************************)
Reading(c) == <<"read", c>> \in pending
Writing(c) == <<"write", c>> \in pending

\* Which events a connection has, and who is in active.
StaticEvents ==
    /\ live \subseteq Clients
    /\ pending \subseteq Kinds \X Clients
    /\ active \subseteq pending \cup {<<"accept", Listener>>}
    /\ due \subseteq {c \in Clients : Timed(c)}
    /\ \A c \in Clients : /\ Reading(c) <=> Timed(c)
                          /\ ~(Reading(c) /\ Writing(c))
                          /\ Reading(c) \/ Writing(c) => c \in live

\* A connected peer is in the backlog or has an fd_state, and is there once.
Places ==
    /\ NetTypeOK
    /\ IsInjective(backlog) /\ live \cap ToSet(backlog) = {}
    /\ \A c \in Clients : peer[c] = "idle" <=> c \notin live \cup ToSet(backlog)
    /\ <<"accept", Listener>> \in active => backlog # <<>>

StaticShape == StaticEvents /\ Places

Units == {Head200, Head302, Head404} \cup (Files \X Nat)
FILE  == [name : Files \cup {""}, by : Clients \cup {Listener}, pos : Nat, eof : BOOLEAN]

\* What is open is read up to its end, in pieces of Room before that.
FilesOK ==
    /\ file \in [Handles -> FILE]
    /\ \A h \in Handles : IsOpen(h) =>
          /\ file[h].name \in Files /\ file[h].by \in Clients
          /\ file[h].pos <= Size[file[h].name]
          /\ IF file[h].eof THEN file[h].pos = Size[file[h].name] ELSE file[h].pos % Room = 0

StaticTypes ==
    /\ buffer \in [Clients -> Seq(Units)] /\ out \in [Clients -> Seq(Units)]
    /\ n_written \in [Clients -> Nat]
    /\ \A c \in Clients : n_written[c] <= Len(buffer[c]) /\ Len(buffer[c]) <= Room + 1
    /\ f \in [Clients -> Handles \cup {NULL}]
    /\ keep_alive \in [Clients -> {"some", "zero"}] /\ cut \in [Clients -> BOOLEAN]
    /\ asked \in [Clients -> Files \cup Others]
    /\ alive \in BOOLEAN /\ world \in Worlds

\* The FILE is the one that fopen() made for c.
Owns(c) == f[c] # NULL /\ IsOpen(f[c]) /\ file[f[c]].by = c

\* What is sent and what buffer still holds are no more than was read of the
\* FILE, and buffer is spent only at the end of one that fills it.
Owned(c) ==
    /\ Len(out[c]) + Len(buffer[c]) <= 1 + file[f[c]].pos + n_written[c]
    /\ \/ n_written[c] < Len(buffer[c])
       \/ buffer[c] = <<>> /\ Size[file[f[c]].name] % Room = 0

Owners == \A c \in Clients : Owns(c) => Writing(c) /\ Owned(c)

\* Unit i of the answer with file n; s is a part of it, from unit o + 1 on.
Unit(n, i)         == IF i = 1 THEN Head200 ELSE <<n, i - 1>>
Continues(s, n, o) == \A i \in 1 .. Len(s) : s[i] = Unit(n, o + i)

\* What is sent, what buffer holds and what is not read make up the answer.
InService(c) ==
    LET n == asked[c]
        o == Len(out[c])
    IN  /\ Owns(c) /\ file[f[c]].name = n
        /\ Continues(out[c], n, 0)
        /\ n_written[c] <= o /\ Continues(buffer[c], n, o - n_written[c])
        /\ o + Len(buffer[c]) = 1 + file[f[c]].pos + n_written[c]

\* An answer that is a header only.
Short(c) ==
    /\ f[c] = NULL /\ out[c] = <<>> /\ n_written[c] = 0
    /\ Len(buffer[c]) = 1 /\ buffer[c] \in Answers(asked[c])

Part(c) ==
    IF Writing(c) THEN InService(c) \/ Short(c)
    ELSE /\ n_written[c] = 0
         /\ IF Reading(c) THEN out[c] \in Answers(asked[c])
            ELSE out[c] = <<>> /\ asked[c] = IF c \in live THEN "other" ELSE "part"

TameParts == world.tame => alive /\ \A c \in Clients : Part(c)

DataInv    == StaticTypes /\ FilesOK /\ Owners
StaticIInv == StaticShape /\ DataInv /\ TameParts

-----------------------------------------------------------------------------
\* The types of the network, ready to use.
LEMMA PlacesFacts ==
    ASSUME Places
    PROVE  /\ backlog \in Seq(Clients) /\ IsInjective(backlog) /\ ToSet(backlog) \subseteq Clients
           /\ peer \in [Clients -> {"idle", "up", "closed", "reset"}]
           /\ inbox \in [Clients -> Seq(Chunks)]
           /\ live \cap ToSet(backlog) = {}
           /\ \A c \in Clients : peer[c] = "idle" <=> c \notin live \cup ToSet(backlog)
           /\ <<"accept", Listener>> \in active => backlog # <<>>
  BY Elements DEF Places, NetTypeOK

\* A step that moves no connection from one place to another.
LEMMA PlacesSame ==
    ASSUME Places, UNCHANGED <<live, backlog>>, NetTypeOK',
           \A c \in Clients : peer'[c] = "idle" <=> peer[c] = "idle",
           <<"accept", Listener>> \in active' => backlog # <<>>
    PROVE  Places'
  BY DEF Places

\* Peers dial when they are idle, and nothing else of them moves a connection.
LEMMA PlacesPeers ==
    ASSUME Places, PeerActs, UNCHANGED <<live, active>>
    PROVE  Places'
<1>1. PICK c \in Clients : Dial(c) \/ Transmit(c) \/ Depart(c)
  BY DEF PeerActs
<1>2. CASE Dial(c)
  <2>1. c \notin live /\ c \notin ToSet(backlog)
    BY <1>2, PlacesFacts DEF Dial
  <2>2. /\ backlog' \in Seq(Clients) /\ backlog' # <<>> /\ IsInjective(backlog)'
        /\ ToSet(backlog)' = ToSet(backlog) \cup {c}
    BY <1>2, <2>1, PlacesFacts, AppendAdds DEF Dial
  <2>3. peer' = [peer EXCEPT ![c] = "up"] /\ inbox' = inbox
    BY <1>2 DEF Dial
  <2>4. NetTypeOK'
    BY <2>2, <2>3, PlacesFacts DEF NetTypeOK
  <2>5. \A d \in Clients : peer'[d] = "idle" <=> d \notin live \cup ToSet(backlog)'
    BY <2>2, <2>3, PlacesFacts
  <2>6. live \cap ToSet(backlog)' = {}
    BY <2>1, <2>2, PlacesFacts
  <2> QED
    BY <2>2, <2>4, <2>5, <2>6 DEF Places
<1>3. CASE Transmit(c)
  <2>1. PICK chunk \in Chunks : inbox' = [inbox EXCEPT ![c] = Append(inbox[c], chunk)]
    BY <1>3 DEF Transmit
  <2>2. UNCHANGED <<peer, backlog>>
    BY <1>3 DEF Transmit
  <2>3. Append(inbox[c], chunk) \in Seq(Chunks)
    BY PlacesFacts, AppendAdds
  <2>4. NetTypeOK'
    BY <2>1, <2>2, <2>3, PlacesFacts DEF NetTypeOK
  <2> QED
    BY <2>2, <2>4, PlacesSame, PlacesFacts
<1>4. CASE Depart(c)
  <2>1. PICK how \in {"closed", "reset"} : peer' = [peer EXCEPT ![c] = how]
    BY <1>4 DEF Depart
  <2>2. UNCHANGED <<backlog, inbox>> /\ peer[c] = "up"
    BY <1>4 DEF Depart
  <2>3. NetTypeOK' /\ \A d \in Clients : peer'[d] = "idle" <=> peer[d] = "idle"
    BY <2>1, <2>2, PlacesFacts DEF NetTypeOK
  <2> QED
    BY <2>2, <2>3, PlacesSame, PlacesFacts
<1> QED
  BY <1>1, <1>2, <1>3, <1>4

\* The head of the backlog gets its fd_state.
LEMMA PlacesAccept ==
    ASSUME Places, <<"accept", Listener>> \in active, live' = live \cup {Head(backlog)},
           backlog' = Tail(backlog), UNCHANGED <<peer, inbox>>,
           active' = active \ {<<"accept", Listener>>}
    PROVE  /\ Places'
           /\ Head(backlog) \in Clients \ live
<1>1. /\ Head(backlog) \in Clients /\ Tail(backlog) \in Seq(Clients) /\ Head(backlog) \in ToSet(backlog)
      /\ ToSet(Tail(backlog)) = ToSet(backlog) \ {Head(backlog)} /\ IsInjective(Tail(backlog))
  BY PlacesFacts, TailTakes
<1>2. NetTypeOK'
  BY <1>1, PlacesFacts DEF NetTypeOK
<1>3. ToSet(backlog)' = ToSet(backlog) \ {Head(backlog)} /\ IsInjective(backlog)'
  BY <1>1
<1>4. \A d \in Clients : peer'[d] = "idle" <=> d \notin live' \cup ToSet(backlog)'
  BY <1>1, <1>3, PlacesFacts
<1>5. live' \cap ToSet(backlog)' = {} /\ Head(backlog) \notin live
  BY <1>1, <1>3, PlacesFacts
<1> QED
  BY <1>1, <1>2, <1>3, <1>4, <1>5 DEF Places

\* The head of the backlog is hung up, for its number is too high.
LEMMA PlacesRefuse ==
    ASSUME Places, <<"accept", Listener>> \in active, live' = live, Hungup(Head(backlog)),
           backlog' = Tail(backlog), active' = active \ {<<"accept", Listener>>}
    PROVE  /\ Places'
           /\ Head(backlog) \in Clients \ live
           /\ \A d \in Clients : d # Head(backlog) => peer'[d] = peer[d]
<1> PICK c : c = Head(backlog)
  OBVIOUS
<1>1. /\ c \in Clients /\ Tail(backlog) \in Seq(Clients) /\ c \in ToSet(backlog)
      /\ ToSet(Tail(backlog)) = ToSet(backlog) \ {c} /\ IsInjective(Tail(backlog))
  BY PlacesFacts, TailTakes
<1>2. peer' = [peer EXCEPT ![c] = "idle"] /\ inbox' = [inbox EXCEPT ![c] = <<>>]
  BY DEF Hungup
<1>3. NetTypeOK'
  BY <1>1, <1>2, PlacesFacts DEF NetTypeOK
<1>4. ToSet(backlog)' = ToSet(backlog) \ {c} /\ IsInjective(backlog)'
  BY <1>1
<1>5. \A d \in Clients : /\ peer'[d] = "idle" <=> d \notin live' \cup ToSet(backlog)'
                         /\ d # c => peer'[d] = peer[d]
  BY <1>1, <1>2, <1>4, PlacesFacts
<1>6. live' \cap ToSet(backlog)' = {} /\ c \notin live
  BY <1>1, <1>4, PlacesFacts
<1> QED
  BY <1>1, <1>3, <1>4, <1>5, <1>6 DEF Places

\* A connection that is freed is hung up, and its peer is idle.
LEMMA PlacesFree ==
    ASSUME Places, NEW c \in live, c \in Clients, live' = live \ {c}, Hungup(c),
           backlog' = backlog,
           active' \subseteq active
    PROVE  Places'
<1>1. peer' = [peer EXCEPT ![c] = "idle"] /\ inbox' = [inbox EXCEPT ![c] = <<>>]
  BY DEF Hungup
<1>2. NetTypeOK'
  BY <1>1, PlacesFacts DEF NetTypeOK
<1>3. c \notin ToSet(backlog)
  BY PlacesFacts
<1>4. \A d \in Clients : peer'[d] = "idle" <=> d \notin live' \cup ToSet(backlog)
  BY <1>1, <1>3, PlacesFacts
<1> QED
  BY <1>2, <1>4, PlacesFacts DEF Places

\* Who runs has an fd_state.
LEMMA Runner ==
    ASSUME StaticShape, NEW c \in Clients, NEW k \in Kinds, Runs(<<k, c>>)
    PROVE  <<k, c>> \in pending /\ <<k, c>> \in active /\ c \in live
<1>1. <<k, c>> \in active /\ <<k, c>> # <<"accept", Listener>>
  BY DEF Runs, Kinds
<1>2. <<k, c>> \in pending
  BY <1>1 DEF StaticShape, StaticEvents
<1>3. c \in live
  BY <1>2 DEF StaticShape, StaticEvents, Reading, Writing, Timed, Kinds
<1> QED
  BY <1>1, <1>2, <1>3

\* What a callback may do to its peer and its inbox, apart from freeing them.
LEMMA PeersAfter ==
    ASSUME StaticShape, NEW c \in Clients,
           peer' = peer \/ \E p \in AfterSend(c) : peer' = [peer EXCEPT ![c] = p],
           inbox' = inbox \/ (inbox[c] # <<>> /\ inbox' = [inbox EXCEPT ![c] = Tail(@)]),
           backlog' = backlog
    PROVE  NetTypeOK' /\ \A d \in Clients : peer'[d] = "idle" <=> peer[d] = "idle"
<1>1. peer \in [Clients -> {"idle", "up", "closed", "reset"}] /\ inbox \in [Clients -> Seq(Chunks)]
  BY PlacesFacts DEF StaticShape
<1>2. inbox' \in [Clients -> Seq(Chunks)]
  <2>1. inbox[c] # <<>> => Tail(inbox[c]) \in Seq(Chunks)
    BY <1>1
  <2> QED
    BY <1>1, <2>1
<1>3. /\ peer' \in [Clients -> {"idle", "up", "closed", "reset"}]
      /\ \A d \in Clients : peer'[d] = "idle" <=> peer[d] = "idle"
  BY <1>1 DEF AfterSend
<1>4. backlog' \in Seq(Clients)
  BY PlacesFacts DEF StaticShape
<1> QED
  BY <1>2, <1>3, <1>4 DEF NetTypeOK

\* The events of c, before and after, decide those of all.
LEMMA EventsAfter ==
    ASSUME StaticEvents, NEW c \in live, live' = live, active' \subseteq active,
           active' \subseteq pending' \cup {<<"accept", Listener>>},
           due' \subseteq {d \in Clients : Timed(d)'},
           \A k \in Kinds, d \in Clients : d # c => (<<k, d>> \in pending' <=> <<k, d>> \in pending),
           pending' \subseteq Kinds \X Clients,
           Reading(c)' <=> Timed(c)', ~(Reading(c)' /\ Writing(c)')
    PROVE  StaticEvents'
<1>1. c \in Clients
  BY DEF StaticEvents
<1>2. ASSUME NEW d \in Clients
      PROVE  /\ Reading(d)' <=> Timed(d)'
             /\ ~(Reading(d)' /\ Writing(d)')
             /\ Reading(d)' \/ Writing(d)' => d \in live
  <2>1. CASE d = c
    BY <2>1
  <2>2. CASE d # c
    BY <2>2 DEF StaticEvents, Reading, Writing, Timed, Kinds
  <2> QED
    BY <2>1, <2>2
<1>3. live' \subseteq Clients
  BY DEF StaticEvents
<1> QED
  BY <1>2, <1>3 DEF StaticEvents, Reading, Writing, Timed

LEMMA FreeShape ==
    ASSUME StaticShape, NEW c \in live, free_fd_state(c)
    PROVE  StaticShape'
<1>1. /\ c \in Clients /\ live' = live \ {c} /\ UNCHANGED backlog /\ Hungup(c)
      /\ pending' = pending \ Events(c) /\ active' = active \ Events(c) /\ due' = due \ {c}
  BY DEF free_fd_state, Deleted, StaticShape, StaticEvents
<1>2. \A d \in Clients, k \in Kinds : <<k, d>> \in pending' <=> <<k, d>> \in pending /\ d # c
  BY <1>1 DEF Events
<1>3. /\ active' \subseteq pending' \cup {<<"accept", Listener>>}
      /\ pending' \subseteq Kinds \X Clients
  BY <1>1 DEF StaticShape, StaticEvents
<1>4. due' \subseteq {d \in Clients : Timed(d)'}
  BY <1>1, <1>2 DEF StaticShape, StaticEvents, Timed, Kinds
<1>5. ASSUME NEW d \in Clients
      PROVE  /\ Reading(d)' <=> Timed(d)'
             /\ ~(Reading(d)' /\ Writing(d)')
             /\ Reading(d)' \/ Writing(d)' => d \in live'
  BY <1>1, <1>2 DEF StaticShape, StaticEvents, Reading, Writing, Timed, Kinds
<1>6. live' \subseteq Clients
  BY <1>1 DEF StaticShape, StaticEvents
<1>7. StaticEvents'
  BY <1>3, <1>4, <1>5, <1>6 DEF StaticEvents, Reading, Writing, Timed
<1>8. Places'
  BY <1>1, PlacesFree DEF StaticShape
<1> QED
  BY <1>7, <1>8 DEF StaticShape

LEMMA AcceptShape ==
    ASSUME StaticShape, do_accept
    PROVE  StaticShape'
<1>1. <<"accept", Listener>> \in active /\ active' = active \ {<<"accept", Listener>>}
  BY DEF do_accept, Runs, Ran
<1>2. UNCHANGED due
  BY DEF do_accept
<1>3. ASSUME UNCHANGED <<live, pending>> PROVE StaticEvents'
  BY <1>1, <1>2, <1>3 DEF StaticShape, StaticEvents, Reading, Writing, Timed
<1>4. CASE UNCHANGED <<live, pending, net_vars>>
  <2>1. NetTypeOK' /\ UNCHANGED <<live, peer, backlog>>
    BY <1>4 DEF StaticShape, Places, NetTypeOK, net_vars
  <2>2. Places'
    BY <1>1, <2>1, PlacesSame DEF StaticShape
  <2> QED
    BY <1>3, <1>4, <2>2 DEF StaticShape
<1>5. CASE UNCHANGED <<live, pending>> /\ backlog' = Tail(backlog) /\ Hungup(Head(backlog))
  BY <1>1, <1>3, <1>5, PlacesRefuse DEF StaticShape
<1>6. CASE /\ UNCHANGED <<peer, inbox>>
           /\ live' = live \cup {Head(backlog)} /\ backlog' = Tail(backlog)
           /\ pending' = pending \cup ({"read", "time"} \X {Head(backlog)})
  <2> PICK c : c = Head(backlog)
    OBVIOUS
  <2>1. Places' /\ c \in Clients /\ c \notin live
    BY <1>1, <1>2, <1>6, PlacesAccept DEF StaticShape
  <2>2. \A d \in Clients : /\ Reading(d)' <=> Reading(d) \/ d = c
                           /\ Timed(d)' <=> Timed(d) \/ d = c
                           /\ Writing(d)' <=> Writing(d)
    BY <1>6 DEF Reading, Writing, Timed
  <2>3. pending' \subseteq Kinds \X Clients /\ active' \subseteq pending' \cup {<<"accept", Listener>>}
    BY <1>1, <1>6, <2>1 DEF StaticShape, StaticEvents, Kinds
  <2>4. due' \subseteq {d \in Clients : Timed(d)'}
    BY <1>2, <2>2 DEF StaticShape, StaticEvents
  <2>5. ASSUME NEW d \in Clients
        PROVE  /\ Reading(d)' <=> Timed(d)'
               /\ ~(Reading(d)' /\ Writing(d)')
               /\ Reading(d)' \/ Writing(d)' => d \in live'
    BY <1>6, <2>1, <2>2 DEF StaticShape, StaticEvents
  <2>6. live' \subseteq Clients
    BY <1>6, <2>1 DEF StaticShape, StaticEvents
  <2>7. StaticEvents'
    BY <2>3, <2>4, <2>5, <2>6 DEF StaticEvents, Reading, Writing, Timed
  <2> QED
    BY <2>1, <2>7 DEF StaticShape
<1> QED
  BY <1>4, <1>5, <1>6 DEF do_accept

LEMMA DispatchShape ==
    ASSUME StaticShape, Dispatch
    PROVE  StaticShape'
<1>1. PICK takers \in SUBSET Clients : active' = Ready(takers)
  BY DEF Dispatch, dispatch
<1>2. UNCHANGED <<pending, due, live, peer, backlog, inbox>>
  BY DEF Dispatch, dispatch, conn_vars, net_vars
<1>3. active' \subseteq pending \cup {<<"accept", Listener>>}
  BY <1>1 DEF Ready
<1>4. <<"accept", Listener>> \in active' => backlog # <<>>
  <2>1. <<"accept", Listener>> \notin pending
    BY DEF StaticShape, StaticEvents, Kinds
  <2> QED
    BY <1>1, <2>1 DEF Ready
<1>5. StaticEvents'
  BY <1>2, <1>3 DEF StaticShape, StaticEvents, Reading, Writing, Timed
<1>6. Places'
  BY <1>2, <1>4 DEF StaticShape, Places, NetTypeOK
<1> QED
  BY <1>5, <1>6 DEF StaticShape

LEMMA OutsideShape ==
    ASSUME StaticShape, Outside, UNCHANGED live
    PROVE  StaticShape'
<1>1. CASE PeerActs /\ UNCHANGED loop_vars
  <2>1. UNCHANGED <<pending, due, active>>
    BY <1>1 DEF loop_vars
  <2>2. Places'
    BY <1>1, <2>1, PlacesPeers DEF StaticShape
  <2> QED
    BY <2>1, <2>2 DEF StaticShape, StaticEvents, Reading, Writing, Timed
<1>2. ASSUME NEW c \in Clients, Expire(c), UNCHANGED net_vars PROVE StaticShape'
  <2>1. due' = due \cup {c} /\ Timed(c) /\ UNCHANGED <<pending, active, peer, backlog, inbox>>
    BY <1>2 DEF Expire, net_vars
  <2>2. StaticEvents'
    BY <1>2, <2>1 DEF StaticShape, StaticEvents, Reading, Writing, Timed
  <2>3. Places'
    BY <2>1 DEF StaticShape, Places, NetTypeOK
  <2> QED
    BY <2>2, <2>3 DEF StaticShape
<1> QED
  BY <1>1, <1>2 DEF Outside

LEMMA ReadShape ==
    ASSUME StaticShape, NEW c \in Clients, do_read(c)
    PROVE  StaticShape'
<1>1. CASE ReadEnd(c)
  BY <1>1, Runner, FreeShape DEF ReadEnd, Kinds
<1>2. CASE ReadPart(c)
  <2>1. /\ inbox[c] # <<>> /\ inbox' = [inbox EXCEPT ![c] = Tail(@)]
        /\ UNCHANGED <<live, pending, due, peer, backlog>> /\ active' \subseteq active
    BY <1>2 DEF ReadPart, Receives, Ran, conn_vars
  <2>2. NetTypeOK' /\ \A d \in Clients : peer'[d] = "idle" <=> peer[d] = "idle"
    BY <2>1, PeersAfter
  <2>3. Places'
    BY <2>1, <2>2, PlacesSame, PlacesFacts DEF StaticShape
  <2>4. StaticEvents'
    BY <2>1 DEF StaticShape, StaticEvents, Reading, Writing, Timed
  <2> QED
    BY <2>3, <2>4 DEF StaticShape
<1>3. CASE ReadRequest(c)
  <2>1. PICK what : pending' = (pending \ Events(c)) \cup {e \in {<<"write", c>>} : Answered(what)}
    BY <1>3 DEF ReadRequest, Answer
  <2>2. /\ inbox[c] # <<>> /\ inbox' = [inbox EXCEPT ![c] = Tail(@)] /\ Runs(<<"read", c>>)
        /\ active' = active \ Events(c) /\ due' = due \ {c} /\ UNCHANGED <<live, peer, backlog>>
    BY <1>3 DEF ReadRequest, Receives
  <2>3. NetTypeOK' /\ \A d \in Clients : peer'[d] = "idle" <=> peer[d] = "idle"
    BY <2>2, PeersAfter
  <2>4. Places'
    BY <2>2, <2>3, PlacesSame, PlacesFacts DEF StaticShape
  <2>5. c \in live
    BY <2>2, Runner DEF Kinds
  <2>6. /\ \A k \in Kinds, d \in Clients : d # c => (<<k, d>> \in pending' <=> <<k, d>> \in pending)
        /\ ~Reading(c)' /\ ~Timed(c)'
    BY <2>1 DEF Events, Reading, Timed, Kinds
  <2>7. /\ pending' \subseteq Kinds \X Clients
        /\ active' \subseteq active /\ active' \subseteq pending' \cup {<<"accept", Listener>>}
    BY <2>1, <2>2 DEF StaticShape, StaticEvents, Kinds
  <2>8. due' \subseteq {d \in Clients : Timed(d)'}
    BY <2>2, <2>6 DEF StaticShape, StaticEvents, Timed, Kinds
  <2>9. StaticEvents'
    BY <2>2, <2>5, <2>6, <2>7, <2>8, EventsAfter DEF StaticShape
  <2> QED
    BY <2>4, <2>9 DEF StaticShape
<1> QED
  BY <1>1, <1>2, <1>3 DEF do_read

\* The answer is sent: the events of c are those of one who waits.
LEMMA AwaitShape ==
    ASSUME StaticEvents, NEW c \in live, Await(c), live' = live,
           active' = active \ {<<"write", c>>}
    PROVE  StaticEvents'
<1>1. c \in Clients
  BY DEF StaticEvents
<1>2. /\ pending' = (pending \ {<<"write", c>>}) \cup ({"read", "time"} \X {c})
      /\ due' \subseteq due \cup {c}
  BY DEF Await
<1>3. /\ \A k \in Kinds, d \in Clients : d # c => (<<k, d>> \in pending' <=> <<k, d>> \in pending)
      /\ Reading(c)' /\ Timed(c)' /\ ~Writing(c)'
  BY <1>2 DEF Reading, Timed, Writing
<1>4. /\ pending' \subseteq Kinds \X Clients
      /\ active' \subseteq active /\ active' \subseteq pending' \cup {<<"accept", Listener>>}
  BY <1>1, <1>2 DEF StaticEvents, Kinds
<1>5. due' \subseteq {d \in Clients : Timed(d)'}
  BY <1>1, <1>2, <1>3 DEF StaticEvents, Timed, Kinds
<1> QED
  BY <1>3, <1>4, <1>5, EventsAfter

LEMMA WriteShape ==
    ASSUME StaticShape, NEW c \in Clients, do_write(c)
    PROVE  StaticShape'
<1>1. Runs(<<"write", c>>)
  BY DEF do_write, WriteEnd, WritePart, WriteRest, Sends
<1>2. c \in live
  BY <1>1, Runner DEF Kinds
<1>3. CASE WriteEnd(c)
  BY <1>2, <1>3, FreeShape DEF WriteEnd
<1>4. ASSUME NEW k, Sends(c, k) PROVE Places'
  <2>1. /\ \E p \in AfterSend(c) : peer' = [peer EXCEPT ![c] = p]
        /\ UNCHANGED <<live, backlog, inbox>> /\ active' \subseteq active
    BY <1>4 DEF Sends, Ran
  <2>2. NetTypeOK' /\ \A d \in Clients : peer'[d] = "idle" <=> peer[d] = "idle"
    BY <2>1, PeersAfter
  <2> QED
    BY <2>1, <2>2, PlacesSame, PlacesFacts DEF StaticShape
<1>5. ASSUME NEW k, Sends(c, k), UNCHANGED <<pending, due>> PROVE StaticEvents'
  <2>1. UNCHANGED live /\ active' \subseteq active
    BY <1>5 DEF Sends, Ran
  <2> QED
    BY <1>5, <2>1 DEF StaticShape, StaticEvents, Reading, Writing, Timed
<1>6. CASE WritePart(c)
  BY <1>4, <1>5, <1>6 DEF WritePart, StaticShape
<1>7. CASE WriteRest(c)
  <2>1. Sends(c, Len(Rest(c))) /\ live' = live /\ active' = active \ {<<"write", c>>}
    BY <1>7 DEF WriteRest, Sends, Ran
  <2>2. Await(c) \/ UNCHANGED <<pending, due>>
    BY <1>7 DEF WriteRest, GoOn, Finish
  <2>3. StaticEvents'
    BY <1>2, <1>5, <2>1, <2>2, AwaitShape DEF StaticShape
  <2> QED
    BY <1>4, <2>1, <2>3 DEF StaticShape
<1> QED
  BY <1>3, <1>6, <1>7 DEF do_write

LEMMA ShapeInit == Init => StaticShape
<1> SUFFICES ASSUME Init PROVE StaticShape
  OBVIOUS
<1>1. backlog = <<>> /\ backlog \in Seq(Clients) /\ ToSet(backlog) = {} /\ IsInjective(backlog)
  BY EmptySeq DEF Init, NetInit, ToSet, IsInjective
<1>2. Places
  BY <1>1 DEF Init, NetInit, LoopInit, Places, NetTypeOK
<1>3. StaticEvents
  BY DEF Init, LoopInit, StaticEvents, Reading, Writing, Timed
<1> QED
  BY <1>2, <1>3 DEF StaticShape

LEMMA ShapeNext == StaticShape /\ [Next]_vars => StaticShape'
<1> SUFFICES ASSUME StaticShape, [Next]_vars PROVE StaticShape'
  OBVIOUS
<1>1. CASE UNCHANGED vars
  BY <1>1 DEF vars, conn_vars, loop_vars, net_vars, StaticShape, StaticEvents, Places,
     NetTypeOK,
              Reading, Writing, Timed
<1>2. CASE Outside /\ UNCHANGED <<conn_vars, file, alive>>
  BY <1>2, OutsideShape DEF conn_vars
<1>3. ASSUME NEW c \in Clients, do_timer(c) PROVE StaticShape'
  BY <1>3, Runner, FreeShape DEF do_timer, Kinds
<1>4. CASE Next
  BY <1>2, <1>3, <1>4, AcceptShape, DispatchShape, ReadShape, WriteShape DEF Next, Callback
<1> QED
  BY <1>1, <1>4

(***************************************************************************)
(* A connection without events is one whose request was no GET.            *)
(***************************************************************************)
LEMMA PendingIs ==
    ASSUME StaticShape, NEW c \in Clients
    PROVE  /\ Pending(c) = {} <=> ~Reading(c) /\ ~Writing(c)
           /\ "read" \in Pending(c) <=> Reading(c)
           /\ Pending(c) \in {{}, {"write"}, {"read", "time"}}
           /\ c \notin live => Pending(c) = {}
<1>1. \A k : k \in Pending(c) <=> <<k, c>> \in pending
  <2>1. \A k : <<k, c>> \in pending => k \in Pending(c)
    BY DEF Pending
  <2>2. ASSUME NEW k \in Pending(c) PROVE <<k, c>> \in pending
    <3>1. PICK e \in pending : e[2] = c /\ e[1] = k
      BY <2>2 DEF Pending
    <3>2. e \in Kinds \X Clients
      BY DEF StaticShape, StaticEvents
    <3>3. e = <<k, c>>
      BY <3>1, <3>2
    <3> QED
      BY <3>3
  <2> QED
    BY <2>1, <2>2
<1>2. ASSUME NEW k \in Pending(c) PROVE k \in Kinds
  <2>1. <<k, c>> \in Kinds \X Clients
    BY <1>1 DEF StaticShape, StaticEvents
  <2> QED
    BY <2>1
<1>3. /\ "read" \in Pending(c) <=> Reading(c)
      /\ "time" \in Pending(c) <=> Reading(c)
      /\ "write" \in Pending(c) <=> Writing(c)
      /\ ~(Reading(c) /\ Writing(c)) /\ (c \notin live => ~Reading(c) /\ ~Writing(c))
  BY <1>1 DEF StaticShape, StaticEvents, Reading, Writing, Timed
<1> QED
  BY <1>2, <1>3 DEF Kinds

-----------------------------------------------------------------------------
(***************************************************************************)
(* What files and buffers hold.                                            *)
(***************************************************************************)

\* Pieces of Room follow each other.
LEMMA NextMultiple ==
    ASSUME NEW a \in Nat, NEW r \in Nat \ {0}, a % r = 0
    PROVE  (a + r) % r = 0
<1> PICK q : q = a \div r
  OBVIOUS
<1>1. q \in Nat /\ a = r * q
  OBVIOUS
<1>2. a + r = r * (q + 1)
  BY <1>1
<1>3. a + r = (r * ((a + r) \div r)) + ((a + r) % r)
  OBVIOUS
<1>4. (a + r) % r \in 0 .. r - 1 /\ (a + r) \div r \in Nat
  OBVIOUS
<1>5. (a + r) \div r = q + 1
  <2> PICK p \in Nat : p = (a + r) \div r
    BY <1>4
  <2> PICK m \in 0 .. r - 1 : m = (a + r) % r
    BY <1>4
  <2>1. r * (q + 1) = r * p + m
    BY <1>2, <1>3
  <2>2. r * (q + 1 - p) = m
    BY <1>1, <2>1
  <2>3. ASSUME p < q + 1 PROVE r * (q + 1 - p) >= r
    <3> PICK z \in Nat \ {0} : z = q + 1 - p
      BY <1>1, <2>3
    <3> QED
      BY SMT
  <2>4. p > q + 1 => r * (q + 1 - p) <= 0
    BY <1>1, SMT
  <2> QED
    BY <1>1, <2>2, <2>3, <2>4
<1> QED
  BY <1>1, <1>2, <1>3, <1>4, <1>5

\* A piece of a file, from unit p + 1 on.
LEMMA PieceIs ==
    ASSUME NEW n \in Files, NEW p \in Nat, NEW m \in Nat, p <= m, m <= Size[n]
    PROVE  /\ SubSeq(Content(n), p + 1, m) \in Seq(Units)
           /\ Len(SubSeq(Content(n), p + 1, m)) = m - p
           /\ \A i \in 1 .. m - p : SubSeq(Content(n), p + 1, m)[i] = <<n, p + i>>
<1> PICK s : s = Content(n)
  OBVIOUS
<1>1. Size[n] \in Nat
  BY StaticAssumption
<1>2. \A i \in 1 .. Size[n] : <<n, i>> \in Units
  BY <1>1 DEF Units
<1>3. s \in [1 .. Size[n] -> Units] /\ \A i \in 1 .. Size[n] : s[i] = <<n, i>>
  BY <1>2 DEF Content
<1>4. s \in Seq(Units) /\ Len(s) = Size[n]
  BY <1>1, <1>3
<1>5. CASE p = m
  BY <1>1, <1>4, <1>5, SubSeqEmpty, SubSeqProperties
<1>6. CASE p < m
  <2>1. /\ SubSeq(s, p + 1, m) \in Seq(Units) /\ Len(SubSeq(s, p + 1, m)) = m - p
        /\ \A i \in 1 .. m - p : SubSeq(s, p + 1, m)[i] = s[p + i]
    BY <1>1, <1>4, <1>6, SubSeqProperties
  <2> QED
    BY <1>1, <1>3, <1>6, <2>1
<1> QED
  BY <1>5, <1>6

\* What fread() leaves in buffer and in the FILE.
LEMMA FilledIs ==
    ASSUME NEW n \in Files, NEW p \in Nat, p <= Size[n], p % Room = 0
    PROVE  \E m \in Nat :
              /\ m = p + Len(Piece(n, p)) /\ p <= m /\ m <= Size[n]
              /\ Piece(n, p) \in Seq(Units) /\ Len(Piece(n, p)) = m - p /\ m - p <= Room
              /\ \A i \in 1 .. m - p : Piece(n, p)[i] = Unit(n, 1 + p + i)
              /\ IF p + Room > Size[n] THEN m = Size[n] ELSE m % Room = 0
              /\ Piece(n, p) = <<>> => Size[n] % Room = 0
<1>1. Size[n] \in Nat /\ Room \in Nat \ {0}
  BY StaticAssumption
<1> PICK m \in Nat : m = IF p + Room < Size[n] THEN p + Room ELSE Size[n]
  BY <1>1
<1> PICK s : s = Piece(n, p)
  OBVIOUS
<1>2. p <= m /\ m <= Size[n] /\ m - p <= Room
  BY <1>1
<1>3. s \in Seq(Units) /\ Len(s) = m - p /\ \A i \in 1 .. m - p : s[i] = <<n, p + i>>
  BY <1>2, PieceIs DEF Piece
<1>4. m = p + Len(s)
  BY <1>2, <1>3
<1>5. IF p + Room > Size[n] THEN m = Size[n] ELSE m % Room = 0
  <2>1. (p + Room) % Room = 0
    BY <1>1, NextMultiple
  <2>2. p + Room <= Size[n] => m = p + Room
    BY <1>1
  <2> QED
    BY <1>1, <2>1, <2>2
<1>6. s = <<>> => Size[n] % Room = 0
  <2>1. s = <<>> => m = p
    BY <1>2, <1>3
  <2>2. m = p => m = Size[n]
    BY <1>1
  <2> QED
    BY <2>1, <2>2
<1>7. ASSUME NEW i \in 1 .. m - p PROVE s[i] = Unit(n, 1 + p + i)
  <2> PICK j : j = 1 + p + i
    OBVIOUS
  <2>1. j # 1 /\ j - 1 = p + i
    BY <1>2
  <2>2. Unit(n, j) = <<n, p + i>>
    BY <2>1 DEF Unit
  <2> QED
    BY <1>3, <2>2
<1> QED
  BY <1>2, <1>3, <1>4, <1>5, <1>6, <1>7

\* What is not sent of buffer, and a part of it.
LEMMA RestIs ==
    ASSUME StaticTypes, NEW c \in Clients, NEW k \in Nat, k <= Len(Rest(c))
    PROVE  /\ Rest(c) \in Seq(Units) /\ Len(Rest(c)) = Len(buffer[c]) - n_written[c]
           /\ SubSeq(Rest(c), 1, k) \in Seq(Units) /\ Len(SubSeq(Rest(c), 1, k)) = k
           /\ n_written[c] + k <= Len(buffer[c])
           /\ \A i \in 1 .. k : SubSeq(Rest(c), 1, k)[i] = buffer[c][n_written[c] + i]
<1> PICK b : b = buffer[c]
  OBVIOUS
<1> PICK w : w = n_written[c]
  OBVIOUS
<1>1. b \in Seq(Units) /\ w \in Nat /\ w <= Len(b) /\ Len(b) \in Nat
  BY DEF StaticTypes
<1>2. w \in 0 .. Len(b)
  BY <1>1
<1> PICK r : r = SubSeq(b, w + 1, Len(b))
  OBVIOUS
<1>3. r \in Seq(Units) /\ Len(r) = Len(b) - w /\ \A i \in 1 .. Len(b) - w : r[i] = b[w + i]
  BY <1>1, <1>2, Cut
<1>4. r = Rest(c)
  BY DEF Rest
<1>5. k \in 0 .. Len(r) /\ k \in Nat /\ w + k <= Len(b)
  BY <1>1, <1>3, <1>4
<1> PICK t : t = SubSeq(r, 1, k)
  OBVIOUS
<1>6. t \in Seq(Units) /\ Len(t) = k /\ \A i \in 1 .. k : t[i] = r[i]
  <2>1. t = SubSeq(r, 1, k) /\ k \in 0 .. Len(r) /\ r \in Seq(Units)
    BY <1>3, <1>5
  <2> QED
    BY ONLY <2>1, Cut
<1>7. ASSUME NEW i \in 1 .. k PROVE t[i] = b[w + i]
  <2>1. i \in 1 .. Len(b) - w
    BY <1>1, <1>3, <1>5
  <2>2. r[i] = b[w + i]
    BY <1>3, <2>1
  <2> QED
    BY <1>6, <2>2
<1> QED
  BY <1>3, <1>4, <1>5, <1>6, <1>7

\* The history after s was sent.
LEMMA KnownIs ==
    ASSUME NEW s \in Seq(Units), NEW t \in Seq(Units)
    PROVE  /\ Known(s \o t) \in Seq(Units) /\ Len(Known(s \o t)) <= Len(s) + Len(t)
           /\ Len(s) + Len(t) <= OutMax => Known(s \o t) = s \o t
<1> PICK u : u = s \o t
  OBVIOUS
<1>1. u \in Seq(Units) /\ Len(u) = Len(s) + Len(t)
  BY Joined
<1>2. OutMax \in Nat
  BY StaticAssumption
<1>3. Len(u) > OutMax => SubSeq(u, 1, OutMax) \in Seq(Units) /\ Len(SubSeq(u, 1, OutMax)) = OutMax
  BY <1>1, <1>2, Cut
<1>4. Known(u) \in Seq(Units) /\ Len(Known(u)) <= Len(u)
  BY <1>1, <1>2, <1>3 DEF Known
<1>5. Len(u) <= OutMax => Known(u) = u
  BY DEF Known
<1> QED
  BY <1>1, <1>4, <1>5

\* A connection whose part of the state, and whose FILE, a step leaves alone.
LEMMA PartSame ==
    ASSUME NEW c \in Clients, Part(c),
           /\ buffer'[c] = buffer[c] /\ n_written'[c] = n_written[c] /\ f'[c] = f[c]
           /\ asked'[c] = asked[c] /\ out'[c] = out[c],
           Writing(c)' <=> Writing(c), Reading(c)' <=> Reading(c), c \in live' <=> c \in live,
           Owns(c) => file'[f[c]] = file[f[c]]
    PROVE  Part(c)'
<1>1. InService(c) => InService(c)'
  BY DEF InService, Owns, IsOpen, Continues, Unit
<1>2. Short(c) => Short(c)'
  BY DEF Short, Answers, Whole, Content
<1> QED
  BY <1>1, <1>2 DEF Part, Answers, Whole, Content

\* A FILE that is still there is the same one, and was read on if at all.
LEMMA OwnerSame ==
    ASSUME DataInv, NEW c \in Clients,
           buffer'[c] = buffer[c] /\ n_written'[c] = n_written[c] /\ f'[c] = f[c] /\ out'[c] = out[c],
           Writing(c) => Writing(c)',
           Owns(c)' => /\ Owns(c) /\ file'[f[c]].name = file[f[c]].name
                       /\ file'[f[c]].pos \in Nat /\ file[f[c]].pos <= file'[f[c]].pos
    PROVE  Owns(c)' => Writing(c)' /\ Owned(c)'
<1> SUFFICES ASSUME Owns(c)' PROVE Writing(c)' /\ Owned(c)'
  OBVIOUS
<1>1. Writing(c) /\ Owned(c)
  BY DEF DataInv, Owners
<1>2. /\ out[c] \in Seq(Units) /\ buffer[c] \in Seq(Units) /\ n_written[c] \in Nat
      /\ file[f[c]].pos \in Nat
  BY DEF DataInv, StaticTypes, FilesOK, FILE, Owns
<1>3. Len(out[c]) + Len(buffer[c]) <= 1 + file[f[c]].pos + n_written[c]
  BY <1>1 DEF Owned
<1>4. Len(out[c]) + Len(buffer[c]) <= 1 + file'[f[c]].pos + n_written[c]
  <2> PICK x : x = Len(out[c])
    OBVIOUS
  <2> PICK y : y = Len(buffer[c])
    OBVIOUS
  <2> PICK w : w = n_written[c]
    OBVIOUS
  <2> PICK p : p = file[f[c]].pos
    OBVIOUS
  <2> PICK q : q = file'[f[c]].pos
    OBVIOUS
  <2>1. x \in Nat /\ y \in Nat /\ w \in Nat /\ p \in Nat /\ q \in Nat /\ p <= q
    BY <1>2
  <2>2. x + y <= 1 + p + w
    BY <1>3
  <2>3. x + y <= 1 + q + w
    BY ONLY <2>1, <2>2
  <2> QED
    BY <2>3
<1> QED
  BY <1>1, <1>4 DEF Owned

\* A step that touches neither files nor connections.
LEMMA DataSame ==
    ASSUME DataInv, TameParts, UNCHANGED <<conn_vars, file, alive, world, pending>>
    PROVE  DataInv' /\ TameParts'
<1>1. /\ UNCHANGED <<live, buffer, n_written, f, keep_alive, cut, asked, out>>
      /\ UNCHANGED <<file, alive, world, pending>>
  BY DEF conn_vars
<1>2. StaticTypes' /\ FilesOK'
  BY <1>1 DEF DataInv, StaticTypes, FilesOK, IsOpen
<1>3. Owners'
  BY <1>1 DEF DataInv, Owners, Owns, Owned, IsOpen, Writing
<1>4. ASSUME NEW c \in Clients, Part(c) PROVE Part(c)'
  BY <1>1, <1>4, PartSame DEF Writing, Reading
<1> QED
  BY <1>1, <1>2, <1>3, <1>4 DEF DataInv, TameParts

LEMMA FreeData ==
    ASSUME StaticShape, DataInv, TameParts, NEW c \in live, free_fd_state(c), world' = world
    PROVE  DataInv' /\ TameParts'
<1>1. /\ c \in Clients /\ live' = live \ {c} /\ pending' = pending \ Events(c)
      /\ f' = [f EXCEPT ![c] = NULL] /\ buffer' = [buffer EXCEPT ![c] = <<>>]
      /\ n_written' = [n_written EXCEPT ![c] = 0]
      /\ keep_alive' = [keep_alive EXCEPT ![c] = "some"] /\ cut' = [cut EXCEPT ![c] = FALSE]
      /\ asked' = [asked EXCEPT ![c] = "part"] /\ out' = [out EXCEPT ![c] = <<>>]
      /\ UNCHANGED <<file, alive>>
  BY DEF free_fd_state, Deleted, StaticShape, StaticEvents
<1>2. /\ buffer \in [Clients -> Seq(Units)] /\ out \in [Clients -> Seq(Units)]
      /\ n_written \in [Clients -> Nat] /\ f \in [Clients -> Handles \cup {NULL}]
      /\ \A d \in Clients : n_written[d] <= Len(buffer[d]) /\ Len(buffer[d]) <= Room + 1
      /\ keep_alive \in [Clients -> {"some", "zero"}] /\ cut \in [Clients -> BOOLEAN]
      /\ asked \in [Clients -> Files \cup Others]
  BY DEF DataInv, StaticTypes
<1>3. /\ <<>> \in Seq(Units) /\ Len(<<>>) = 0 /\ 0 <= Room + 1
  BY StaticAssumption
<1>4. StaticTypes'
  <2>1. buffer' \in [Clients -> Seq(Units)] /\ out' \in [Clients -> Seq(Units)]
    BY <1>1, <1>2, <1>3
  <2>2. \A d \in Clients : n_written'[d] <= Len(buffer'[d]) /\ Len(buffer'[d]) <= Room + 1
    BY <1>1, <1>2, <1>3
  <2>3. /\ n_written' \in [Clients -> Nat] /\ f' \in [Clients -> Handles \cup {NULL}]
        /\ keep_alive' \in [Clients -> {"some", "zero"}] /\ cut' \in [Clients -> BOOLEAN]
        /\ asked' \in [Clients -> Files \cup Others]
    BY <1>1, <1>2 DEF Others
  <2> QED
    BY <1>1, <2>1, <2>2, <2>3 DEF DataInv, StaticTypes
<1>5. FilesOK'
  BY <1>1 DEF DataInv, FilesOK, IsOpen
<1>6. ASSUME NEW d \in Clients
      PROVE  /\ Writing(d)' <=> Writing(d) /\ d # c
             /\ Reading(d)' <=> Reading(d) /\ d # c
  BY <1>1 DEF Writing, Reading, Events, Kinds
<1>7. ASSUME NEW d \in Clients, d # c
      PROVE  /\ buffer'[d] = buffer[d] /\ n_written'[d] = n_written[d] /\ f'[d] = f[d]
             /\ asked'[d] = asked[d] /\ out'[d] = out[d] /\ (d \in live' <=> d \in live)
  BY <1>1, <1>2, <1>7
<1>8. ASSUME NEW d \in Clients, d # c, Owns(d)' PROVE Writing(d)' /\ Owned(d)'
  <2>1. Owns(d) /\ Writing(d) /\ Owned(d)
    BY <1>1, <1>7, <1>8 DEF DataInv, Owners, Owns, IsOpen
  <2> QED
    BY <1>1, <1>6, <1>7, <1>8, <2>1 DEF Owned
<1>9. ~Owns(c)'
  BY <1>1, <1>2 DEF Owns
<1>10. Owners'
  BY <1>8, <1>9 DEF Owners
<1>11. ASSUME NEW d \in Clients, d # c, Part(d) PROVE Part(d)'
  BY <1>1, <1>6, <1>7, <1>11, PartSame
<1>12. Part(c)'
  <2>1. n_written'[c] = 0 /\ out'[c] = <<>> /\ asked'[c] = "part" /\ c \notin live'
    BY <1>1, <1>2
  <2>2. ~Writing(c)' /\ ~Reading(c)'
    BY <1>1, <1>6
  <2> QED
    BY <2>1, <2>2 DEF Part
<1>13. TameParts'
  BY <1>1, <1>11, <1>12 DEF TameParts
<1> QED
  BY <1>4, <1>5, <1>10, <1>13 DEF DataInv

LEMMA AcceptData ==
    ASSUME StaticShape, DataInv, TameParts, do_accept, world' = world
    PROVE  DataInv' /\ TameParts'
<1>1. /\ UNCHANGED <<buffer, n_written, f, file, keep_alive, cut, asked, out, alive>>
      /\ <<"accept", Listener>> \in active /\ active' = active \ {<<"accept", Listener>>}
  BY DEF do_accept, Runs, Ran
<1>2. CASE UNCHANGED <<live, pending>>
  BY <1>1, <1>2, DataSame DEF conn_vars
<1>3. CASE /\ live' = live \cup {Head(backlog)} /\ backlog' = Tail(backlog)
           /\ pending' = pending \cup ({"read", "time"} \X {Head(backlog)})
           /\ UNCHANGED <<peer, inbox>>
  <2> PICK c : c = Head(backlog)
    OBVIOUS
  <2>1. c \in Clients /\ c \notin live
    BY <1>1, <1>3, PlacesAccept DEF StaticShape
  <2>2. \A d \in Clients : /\ Reading(d)' <=> Reading(d) \/ d = c
                           /\ Writing(d)' <=> Writing(d)
    BY <1>3 DEF Reading, Writing
  <2>3. StaticTypes' /\ FilesOK'
    BY <1>1 DEF DataInv, StaticTypes, FilesOK, IsOpen
  <2>4. Owners'
    BY <1>1, <2>2 DEF DataInv, Owners, Owns, Owned, IsOpen
  <2>5. ASSUME NEW d \in Clients, d # c, Part(d) PROVE Part(d)'
    BY <1>1, <1>3, <2>2, <2>5, PartSame
  <2>6. ASSUME Part(c) PROVE Part(c)'
    <3>1. ~Reading(c) /\ ~Writing(c)
      BY <2>1 DEF StaticShape, StaticEvents
    <3>2. n_written[c] = 0 /\ out[c] = <<>> /\ asked[c] = "part"
      BY <2>1, <2>6, <3>1 DEF Part
    <3>3. out[c] \in Answers(asked[c])
      BY <3>2, StaticAssumption DEF Answers, Others
    <3> QED
      BY <1>1, <2>1, <2>2, <3>1, <3>2, <3>3 DEF Part, Answers, Whole, Content
  <2> QED
    BY <1>1, <2>3, <2>4, <2>5, <2>6 DEF DataInv, TameParts
<1> QED
  BY <1>2, <1>3 DEF do_accept

\* What a request asks for, once its chunk is received.
LEMMA AsksIs ==
    ASSUME StaticShape, NEW c \in Clients, NEW chunk \in Chunks, chunk.what # "part"
    PROVE  /\ Asks(c, chunk) \in Files \cup {"root", "other"}
           /\ Asks(c, chunk) # "part"
           /\ chunk.ka \in {"keep", "some", "zero"} /\ chunk.spills \in BOOLEAN
<1>1. /\ chunk.what \in Files \cup Others
      /\ chunk.ka \in {"keep", "some", "zero"} /\ chunk.spills \in BOOLEAN
  BY StaticAssumption
<1> QED
  BY <1>1, StaticAssumption DEF Asks, Others

\* A FILE that is opened: the connections of others keep theirs.
LEMMA OpenedFile ==
    ASSUME DataInv, NEW c \in Clients, NEW h \in Handles, ~IsOpen(h), NEW n \in Files,
           file' = [file EXCEPT ![h] = [name |-> n, by |-> c, pos |-> 0, eof |-> FALSE]],
           \A d \in Clients : d # c => f'[d] = f[d]
    PROVE  /\ FilesOK' /\ IsOpen(h)'
           /\ \A d \in Clients : d # c /\ Owns(d)' => Owns(d)
           /\ \A d \in Clients : Owns(d) => file'[f[d]] = file[f[d]]
<1>1. file \in [Handles -> FILE]
  BY DEF DataInv, FilesOK
<1> PICK r : r = [name |-> n, by |-> c, pos |-> 0, eof |-> FALSE]
  OBVIOUS
<1>2. r \in FILE /\ r.name = n /\ r.by = c /\ r.pos = 0 /\ r.eof = FALSE
  BY DEF FILE
<1>3. r # Closed
  BY <1>2, StaticAssumption DEF Closed
<1>4. file' \in [Handles -> FILE] /\ file'[h] = r /\ \A g \in Handles : g # h => file'[g] = file[g]
  BY <1>1, <1>2
<1>5. 0 % Room = 0 /\ Size[n] \in Nat /\ 0 <= Size[n]
  BY StaticAssumption
<1>6. ASSUME NEW g \in Handles, IsOpen(g)'
      PROVE  /\ file'[g].name \in Files /\ file'[g].by \in Clients
             /\ file'[g].pos <= Size[file'[g].name]
             /\ IF file'[g].eof THEN file'[g].pos = Size[file'[g].name] ELSE file'[g].pos % Room = 0
  <2>1. CASE g = h
    BY <1>2, <1>4, <1>5, <2>1
  <2>2. CASE g # h
    BY <1>4, <1>6, <2>2 DEF DataInv, FilesOK, IsOpen
  <2> QED
    BY <2>1, <2>2
<1>7. FilesOK'
  BY <1>4, <1>6 DEF FilesOK
<1>8. ASSUME NEW d \in Clients, Owns(d) PROVE file'[f[d]] = file[f[d]]
  <2>1. f[d] \in Handles /\ f[d] # h
    BY <1>8 DEF DataInv, StaticTypes, Owns
  <2> QED
    BY <1>4, <2>1
<1>9. ASSUME NEW d \in Clients, d # c, Owns(d)' PROVE Owns(d)
  <2>1. f'[d] = f[d] /\ f[d] \in Handles /\ file'[f[d]].by = d
    BY <1>9 DEF DataInv, StaticTypes, Owns
  <2>2. f[d] # h
    BY <1>2, <1>4, <1>9, <2>1
  <2> QED
    BY <1>4, <1>9, <2>1, <2>2 DEF Owns, IsOpen
<1> QED
  BY <1>3, <1>4, <1>7, <1>8, <1>9 DEF IsOpen

LEMMA ReadData ==
    ASSUME StaticShape, DataInv, TameParts, NEW c \in Clients, do_read(c), world' = world,
           world.tame => Tame'
    PROVE  DataInv' /\ TameParts'
<1>1. CASE ReadEnd(c)
  <2>1. c \in live /\ free_fd_state(c)
    BY <1>1, Runner DEF ReadEnd, Kinds
  <2> QED
    BY <2>1, FreeData
<1>2. CASE ReadPart(c)
  BY <1>2, DataSame DEF ReadPart
<1>3. CASE ReadRequest(c)
  <2>1. PICK chunk \in Chunks :
           /\ Receives(c, chunk) /\ chunk.what # "part"
           /\ keep_alive' = [keep_alive EXCEPT ![c] = Period(c, chunk.ka)]
           /\ cut' = [cut EXCEPT ![c] = chunk.spills]
           /\ asked' = [asked EXCEPT ![c] = Asks(c, chunk)]
           /\ Answer(c, Asks(c, chunk))
    BY <1>3 DEF ReadRequest
  <2> PICK what : what = Asks(c, chunk)
    OBVIOUS
  <2> PICK b : b = IF what = "other" THEN <<>> ELSE <<Header(what)>>
    OBVIOUS
  <2>2. what \in Files \cup {"root", "other"} /\ what # "part"
    BY <2>1, AsksIs
  <2>3. /\ Runs(<<"read", c>>) /\ Opened(c, what) /\ buffer' = [buffer EXCEPT ![c] = b]
        /\ pending' = (pending \ Events(c)) \cup {e \in {<<"write", c>>} : Answered(what)}
    BY <2>1 DEF Receives, Answer
  <2>4. /\ out' = [out EXCEPT ![c] = <<>>] /\ n_written' = [n_written EXCEPT ![c] = 0]
        /\ UNCHANGED <<live, alive>>
    BY <1>3 DEF ReadRequest
  <2>5. c \in live /\ ~Writing(c) /\ Reading(c)
    BY <2>3, Runner DEF Kinds, StaticShape, StaticEvents, Reading
  <2>6. ~Owns(c)
    BY <2>5 DEF DataInv, Owners
  <2>7. /\ buffer \in [Clients -> Seq(Units)] /\ out \in [Clients -> Seq(Units)]
        /\ n_written \in [Clients -> Nat] /\ f \in [Clients -> Handles \cup {NULL}]
        /\ \A d \in Clients : n_written[d] <= Len(buffer[d]) /\ Len(buffer[d]) <= Room + 1
        /\ keep_alive \in [Clients -> {"some", "zero"}] /\ cut \in [Clients -> BOOLEAN]
        /\ asked \in [Clients -> Files \cup Others]
    BY DEF DataInv, StaticTypes
  <2>8. /\ b \in Seq(Units) /\ 0 <= Len(b) /\ Len(b) <= Room + 1
        /\ what # "other" => Len(b) = 1 /\ b = <<Header(what)>>
    <3>1. Header(what) \in Units
      BY DEF Header, Units
    <3>2. <<Header(what)>> \in Seq(Units) /\ Len(<<Header(what)>>) = 1
      BY <3>1, One
    <3>3. <<>> \in Seq(Units) /\ Len(<<>>) = 0 /\ 1 <= Room + 1 /\ 0 <= Room + 1
      BY StaticAssumption
    <3> QED
      BY <3>2, <3>3
  <2>9. ASSUME NEW d \in Clients
        PROVE  /\ d # c => /\ buffer'[d] = buffer[d] /\ n_written'[d] = n_written[d]
                           /\ out'[d] = out[d] /\ asked'[d] = asked[d]
               /\ buffer'[c] = b /\ n_written'[c] = 0 /\ out'[c] = <<>> /\ asked'[c] = what
    BY <2>1, <2>3, <2>4, <2>7
  <2>10. ASSUME NEW d \in Clients
         PROVE  /\ Writing(d)' <=> IF d = c THEN what # "other" ELSE Writing(d)
                /\ Reading(d)' <=> Reading(d) /\ d # c
    BY <2>3 DEF Writing, Reading, Events, Kinds, Answered
  <2>11. /\ f' \in [Clients -> Handles \cup {NULL}] /\ \A d \in Clients : d # c => f'[d] = f[d]
    BY <2>3, <2>7 DEF Opened
  <2>12. StaticTypes'
    <3>1. buffer' \in [Clients -> Seq(Units)] /\ out' \in [Clients -> Seq(Units)]
      BY <2>3, <2>4, <2>7, <2>8
    <3>2. \A d \in Clients : n_written'[d] <= Len(buffer'[d]) /\ Len(buffer'[d]) <= Room + 1
      BY <2>7, <2>8, <2>9
    <3>3. n_written' \in [Clients -> Nat]
      BY <2>4, <2>7
    <3>4. Period(c, chunk.ka) \in {"some", "zero"} /\ chunk.spills \in BOOLEAN
      BY <2>1, <2>7, AsksIs DEF Period
    <3>5. keep_alive' \in [Clients -> {"some", "zero"}] /\ cut' \in [Clients -> BOOLEAN]
      BY <2>1, <2>7, <3>4
    <3>6. asked' \in [Clients -> Files \cup Others]
      BY <2>1, <2>2, <2>7 DEF Others
    <3> QED
      BY <2>4, <2>11, <3>1, <3>2, <3>3, <3>5, <3>6 DEF DataInv, StaticTypes
  <2>13. /\ FilesOK'
         /\ \A d \in Clients : d # c /\ Owns(d)' => Owns(d)
         /\ \A d \in Clients : Owns(d) => file'[f[d]] = file[f[d]]
         /\ \/ ~Owns(c)' /\ (what \in Files => f'[c] = NULL /\ b = <<Head404>>)
            \/ /\ Owns(c)' /\ what \in Files /\ b = <<Head200>>
               /\ file'[f'[c]].name = what /\ file'[f'[c]].pos = 0
    <3>1. CASE what \in {"other", "root"} /\ UNCHANGED <<f, file>>
      <4>1. what \notin Files
        BY <3>1, StaticAssumption DEF Others
      <4> QED
        BY <2>6, <3>1, <4>1 DEF DataInv, FilesOK, Owns, IsOpen
    <3>2. CASE /\ what \notin {"other", "root"} /\ ~Found(what)
               /\ f' = [f EXCEPT ![c] = NULL] /\ UNCHANGED file
      <4>1. f'[c] = NULL /\ ~Owns(c)'
        BY <2>7, <3>2 DEF Owns
      <4>2. b = <<Head404>>
        BY <2>8, <3>2 DEF Header
      <4> QED
        BY <2>11, <3>2, <4>1, <4>2 DEF DataInv, FilesOK, Owns, IsOpen
    <3>3. CASE /\ Found(what)
               /\ \E h \in {g \in Handles : ~IsOpen(g)} :
                     /\ file' = [file EXCEPT ![h] =
                                    [name |-> what, by |-> c, pos |-> 0, eof |-> FALSE]]
                     /\ f' = [f EXCEPT ![c] = h]
      <4> PICK h \in Handles :
             /\ ~IsOpen(h) /\ f' = [f EXCEPT ![c] = h]
             /\ file' = [file EXCEPT ![h] = [name |-> what, by |-> c, pos |-> 0, eof |-> FALSE]]
        BY <3>3
      <4>1. what \in Files
        BY <3>3 DEF Found
      <4>2. /\ FilesOK' /\ IsOpen(h)'
            /\ \A d \in Clients : d # c /\ Owns(d)' => Owns(d)
            /\ \A d \in Clients : Owns(d) => file'[f[d]] = file[f[d]]
        BY <2>11, <4>1, OpenedFile
      <4>3. f'[c] = h /\ h # NULL
        BY <2>7, StaticAssumption
      <4>4. file'[h].name = what /\ file'[h].by = c /\ file'[h].pos = 0
        BY DEF DataInv, FilesOK
      <4>5. Owns(c)'
        BY <4>2, <4>3, <4>4 DEF Owns
      <4>6. b = <<Head200>>
        BY <2>8, <3>3, <4>1, StaticAssumption DEF Header, Others
      <4> QED
        BY <4>1, <4>2, <4>3, <4>4, <4>5, <4>6
    <3> QED
      BY <2>3, <3>1, <3>2, <3>3 DEF Opened
  <2>14. ASSUME Owns(c)' PROVE Writing(c)' /\ Owned(c)'
    <3>1. what \in Files /\ b = <<Head200>> /\ file'[f'[c]].pos = 0
      BY <2>13, <2>14
    <3>2. Writing(c)'
      BY <2>10, <3>1, StaticAssumption DEF Others
    <3>3. Len(b) = 1
      BY <2>8, <3>1, StaticAssumption DEF Others
    <3>4. Len(<<>>) = 0
      OBVIOUS
    <3>5. /\ out'[c] = <<>> /\ buffer'[c] = b /\ n_written'[c] = 0
      BY <2>9
    <3>6. Len(out'[c]) + Len(buffer'[c]) <= 1 + file'[f'[c]].pos + n_written'[c]
      BY <3>1, <3>3, <3>4, <3>5
    <3>7. n_written'[c] < Len(buffer'[c])
      BY <3>3, <3>5
    <3>8. Owned(c)'
      BY <3>6, <3>7 DEF Owned
    <3> QED
      BY <3>2, <3>8
  <2>15. ASSUME NEW d \in Clients, d # c, Owns(d)' PROVE Writing(d)' /\ Owned(d)'
    <3>1. Owns(d) /\ file'[f[d]] = file[f[d]]
      BY <2>13, <2>15
    <3>2. Writing(d) /\ Owned(d)
      BY <3>1 DEF DataInv, Owners
    <3>3. f'[d] = f[d]
      BY <2>11, <2>15
    <3> QED
      BY <2>9, <2>10, <2>15, <3>1, <3>2, <3>3 DEF Owned
  <2>16. Owners'
    BY <2>14, <2>15 DEF Owners
  <2>17. ASSUME NEW d \in Clients, d # c, Part(d) PROVE Part(d)'
    BY <2>4, <2>9, <2>10, <2>11, <2>13, <2>17, PartSame
  <2>18. ASSUME world.tame PROVE Part(c)'
    <3>1. CASE what = "other"
      <4>1. n_written'[c] = 0 /\ out'[c] = <<>> /\ asked'[c] = "other" /\ c \in live'
        BY <2>4, <2>5, <2>9, <3>1
      <4>2. ~Writing(c)' /\ ~Reading(c)'
        BY <2>10, <3>1
      <4> QED
        BY <4>1, <4>2 DEF Part
    <3>2. ASSUME what # "other", f'[c] = NULL,
                 <<Header(what)>> \in Answers(what) PROVE Part(c)'
      <4>1. Len(b) = 1 /\ b \in Answers(what)
        BY <2>8, <3>2
      <4>2. Answers(what)' = Answers(what)
        BY DEF Answers, Whole, Content
      <4>3. Short(c)'
        BY <2>9, <3>2, <4>1 DEF Short, Answers, Whole, Content
      <4>4. Writing(c)'
        BY <2>10, <3>2
      <4> QED
        BY <4>3, <4>4 DEF Part
    <3>3. CASE what = "root"
      <4>1. what \notin Files
        BY <3>3, StaticAssumption DEF Others
      <4>2. f'[c] = NULL
        BY <2>9, <2>18, <3>3 DEF Tame
      <4>3. <<Header(what)>> \in Answers(what)
        BY <3>3, <4>1 DEF Header, Answers
      <4> QED
        BY <3>2, <3>3, <4>2, <4>3
    <3>4. CASE what \in Files /\ ~Owns(c)'
      <4>1. what # "other" /\ f'[c] = NULL /\ b = <<Head404>>
        BY <2>13, <3>4, StaticAssumption DEF Others
      <4>2. <<Header(what)>> \in Answers(what)
        BY <2>8, <3>4, <4>1 DEF Answers
      <4> QED
        BY <3>2, <4>1, <4>2
    <3>5. CASE what \in Files /\ Owns(c)'
      <4>1. b = <<Head200>> /\ file'[f'[c]].name = what /\ file'[f'[c]].pos = 0
        BY <2>13, <3>5
      <4>2. Continues(<<>>, what, 0)
        BY DEF Continues
      <4>3. Len(b) = 1 /\ Continues(b, what, 0)
        <5>1. Len(b) = 1 /\ b[1] = Head200
          BY <4>1
        <5>2. Unit(what, 0 + 1) = Head200
          BY DEF Unit
        <5>3. \A i \in 1 .. 1 : i = 1
          OBVIOUS
        <5> QED
          BY <5>1, <5>2, <5>3 DEF Continues
      <4>4. Len(<<>>) = 0
        OBVIOUS
      <4>5. InService(c)'
        <5>1. /\ out'[c] = <<>> /\ buffer'[c] = b /\ n_written'[c] = 0 /\ asked'[c] = what
          BY <2>9
        <5>2. Len(out'[c]) = 0 /\ Len(buffer'[c]) = 1 /\ n_written'[c] <= 0
          BY <4>3, <4>4, <5>1
        <5>3. Len(out'[c]) + Len(buffer'[c]) = 1 + file'[f'[c]].pos + n_written'[c]
          BY <4>1, <5>1, <5>2
        <5>4. Continues(out'[c], what, 0) /\ Continues(buffer'[c], what, Len(out'[c]) - n_written'[c])
          BY <4>2, <4>3, <5>1, <5>2
        <5>5. n_written'[c] <= Len(out'[c])
          BY <5>1, <5>2
        <5> QED
          BY <3>5, <4>1, <5>1, <5>3, <5>4, <5>5 DEF InService, Continues, Unit
      <4>6. Writing(c)'
        BY <2>10, <3>5, StaticAssumption DEF Others
      <4> QED
        BY <4>5, <4>6 DEF Part
    <3> QED
      BY <2>2, <3>1, <3>3, <3>4, <3>5
  <2>19. TameParts'
    BY <2>4, <2>17, <2>18 DEF TameParts
  <2> QED
    BY <2>12, <2>13, <2>16, <2>19 DEF DataInv
<1> QED
  BY <1>1, <1>2, <1>3 DEF do_read

\* t is a part of b, from unit w + 1 on.
Taken(t, b, w) == \A i \in 1 .. Len(t) : t[i] = b[w + i]

\* What is sent is the next part of the answer.
LEMMA Extends ==
    ASSUME NEW n, NEW w \in Nat, NEW d \in Nat,
           NEW s \in Seq(Units), Continues(s, n, 0), w + d = Len(s),
           NEW b \in Seq(Units), Continues(b, n, d),
           NEW t \in Seq(Units), Taken(t, b, w), w + Len(t) <= Len(b)
    PROVE  Continues(s \o t, n, 0)
<1>1. Len(s) \in Nat /\ Len(t) \in Nat /\ Len(b) \in Nat
  BY LenProperties
<1> PICK o \in Nat : o = Len(s)
  BY <1>1
<1> PICK k \in Nat : k = Len(t)
  BY <1>1
<1>2. /\ s \o t \in Seq(Units) /\ Len(s \o t) = o + k
      /\ \A i \in 1 .. o : (s \o t)[i] = s[i]
      /\ \A i \in 1 .. k : (s \o t)[o + i] = t[i]
  <2>1. /\ s \o t \in Seq(Units) /\ Len(s \o t) = Len(s) + Len(t)
        /\ \A i \in 1 .. Len(s) : (s \o t)[i] = s[i]
        /\ \A i \in 1 .. Len(t) : (s \o t)[Len(s) + i] = t[i]
    BY ONLY s \in Seq(Units), t \in Seq(Units), Joined
  <2> QED
    BY ONLY <2>1, o = Len(s), k = Len(t)
<1>3. ASSUME NEW i \in 1 .. o + k PROVE (s \o t)[i] = Unit(n, 0 + i)
  <2>1. CASE i <= o
    <3>1. i \in 1 .. o
      BY <2>1
    <3>2. s[i] = Unit(n, 0 + i)
      BY <3>1 DEF Continues
    <3> QED
      BY <1>2, <3>1, <3>2
  <2>2. CASE i > o
    <3> PICK j : j = i - o
      OBVIOUS
    <3>1. j \in 1 .. k /\ o + j = i
      BY <2>2
    <3> PICK m : m = w + j
      OBVIOUS
    <3> PICK l \in Nat : l = Len(b)
      BY <1>1
    <3>2. m \in 1 .. l /\ d + m = 0 + i
      BY ONLY <3>1, w + k <= l, w + d = o, m = w + j, w \in Nat, d \in Nat, o \in Nat,
         k \in Nat,
              l \in Nat
    <3>3. b[m] = Unit(n, d + m)
      BY <3>2 DEF Continues
    <3>4. (s \o t)[i] = t[j] /\ t[j] = b[m]
      BY <1>2, <3>1 DEF Taken
    <3> QED
      BY <3>2, <3>3, <3>4
  <2> QED
    BY <2>1, <2>2
<1> QED
  BY <1>2, <1>3 DEF Continues

\* What send() does, whatever follows.
LEMMA SendsIs ==
    ASSUME StaticShape, DataInv, NEW c \in Clients, NEW k \in Nat, 0 < k, k <= Len(Rest(c)),
           Sends(c, k)
    PROVE  /\ c \in live /\ Writing(c) /\ ~Reading(c)
           /\ UNCHANGED <<live, keep_alive, cut, asked>>
           /\ out' \in [Clients -> Seq(Units)] /\ \A d \in Clients : d # c => out'[d] = out[d]
           /\ Len(out'[c]) <= Len(out[c]) + k
           /\ n_written[c] + k <= Len(buffer[c])
           /\ Len(Rest(c)) = Len(buffer[c]) - n_written[c]
           /\ InService(c) => Len(out'[c]) = Len(out[c]) + k /\ Continues(out'[c], asked[c], 0)
           /\ Short(c) => out'[c] = buffer[c] /\ k = 1
<1>1. Runs(<<"write", c>>) /\ UNCHANGED <<live, keep_alive, cut, asked>>
  BY DEF Sends
<1>2. c \in live /\ Writing(c) /\ ~Reading(c)
  BY <1>1, Runner DEF Kinds, StaticShape, StaticEvents, Writing
<1> PICK o : o = out[c]
  OBVIOUS
<1> PICK b : b = buffer[c]
  OBVIOUS
<1> PICK w : w = n_written[c]
  OBVIOUS
<1> PICK t : t = SubSeq(Rest(c), 1, k)
  OBVIOUS
<1>3. /\ o \in Seq(Units) /\ b \in Seq(Units) /\ w \in Nat /\ w <= Len(b) /\ Len(o) \in Nat
      /\ out \in [Clients -> Seq(Units)]
  BY DEF DataInv, StaticTypes
<1>4. StaticTypes
  BY DEF DataInv
<1>5. /\ t \in Seq(Units) /\ Len(t) = k /\ w + k <= Len(b) /\ Len(Rest(c)) = Len(b) - w
      /\ \A i \in 1 .. k : t[i] = b[w + i]
  BY <1>4, RestIs
<1>6. Known(o \o t) \in Seq(Units) /\ Len(Known(o \o t)) <= Len(o) + k
  BY <1>3, <1>5, KnownIs
<1>7. out' = [out EXCEPT ![c] = Known(o \o t)]
  BY DEF Sends
<1>8. /\ out' \in [Clients -> Seq(Units)] /\ out'[c] = Known(o \o t)
      /\ \A d \in Clients : d # c => out'[d] = out[d]
  BY <1>3, <1>6, <1>7
<1>9. ASSUME InService(c)
      PROVE  Len(out'[c]) = Len(out[c]) + k /\ Continues(out'[c], asked[c], 0)
  <2> PICK n : n = asked[c]
    OBVIOUS
  <2> PICK p : p = file[f[c]].pos
    OBVIOUS
  <2>1. f[c] \in Handles /\ IsOpen(f[c]) /\ file[f[c]].name = n
    BY <1>9 DEF InService, Owns, DataInv, StaticTypes
  <2>2. n \in Files /\ p <= Size[n] /\ p \in Nat
    BY <2>1 DEF DataInv, FilesOK, FILE
  <2>3. Size[n] \in Nat /\ OutMax \in Nat /\ Size[n] + 2 <= OutMax
    BY <2>2, StaticAssumption
  <2> PICK q \in Nat : q = Len(o)
    BY <1>3
  <2> PICK l \in Nat : l = Len(b)
    BY <1>3
  <2>4. w <= q /\ q + l = 1 + p + w
    BY <1>9 DEF InService
  <2>5. q + k <= OutMax
    <3>1. w + k <= l /\ w \in Nat
      BY <1>3, <1>5
    <3> QED
      BY ONLY <2>2, <2>3, <2>4, <3>1, q \in Nat, l \in Nat, k \in Nat
  <2>6. Continues(o, n, 0) /\ Continues(b, n, q - w)
    BY <1>9 DEF InService
  <2>7. Len(o \o t) = q + k /\ Continues(o \o t, n, 0)
    <3> PICK d : d = q - w
      OBVIOUS
    <3>1. d \in Nat /\ w + d = q
      BY <1>3, <2>4
    <3>2. Len(o) = q /\ Continues(b, n, d) /\ Continues(o, n, 0)
      BY <2>6
    <3>3. q \in Nat /\ w \in Nat /\ k \in Nat /\ o \in Seq(Units) /\ b \in Seq(Units)
      BY <1>3
    <3>4. Taken(t, b, w) /\ t \in Seq(Units) /\ Len(t) = k /\ w + Len(t) <= Len(b)
      BY <1>5 DEF Taken
    <3>5. w + d = Len(o)
      BY <3>1, <3>2
    <3>6. Continues(o \o t, n, 0)
      BY ONLY <3>1, <3>2, <3>3, <3>4, <3>5, Extends
    <3>7. Len(o \o t) = q + k
      BY ONLY <3>2, <3>3, <3>4, Joined
    <3> QED
      BY <3>6, <3>7
  <2>8. Known(o \o t) = o \o t
    BY <1>3, <1>5, <2>5, KnownIs
  <2> QED
    BY <1>8, <2>7, <2>8
<1>10. ASSUME Short(c) PROVE out'[c] = buffer[c] /\ k = 1
  <2>1. o = <<>> /\ w = 0 /\ Len(b) = 1
    BY <1>10 DEF Short
  <2>2. k = 1
    BY <1>5, <2>1
  <2>3. t[1] = b[1]
    BY <1>5, <2>1, <2>2
  <2>4. t = b
    <3>1. Len(t) = Len(b) /\ \A i \in 1 .. Len(b) : t[i] = b[i]
      BY <1>5, <2>1, <2>2, <2>3
    <3> QED
      BY ONLY <1>3, <1>5, <3>1, SeqEqual
  <2>5. <<>> \o t = t
    BY <1>5, <2>1
  <2>6. Len(<<>>) = 0 /\ 1 <= OutMax /\ <<>> \in Seq(Units)
    BY StaticAssumption
  <2>7. Known(<<>> \o t) = t
    BY <1>5, <2>2, <2>5, <2>6 DEF Known
  <2> QED
    BY <1>8, <2>1, <2>2, <2>4, <2>7
<1> QED
  BY <1>1, <1>2, <1>5, <1>6, <1>8, <1>9, <1>10

LEMMA PartData ==
    ASSUME StaticShape, DataInv, TameParts, NEW c \in Clients, WritePart(c), world' = world
    PROVE  DataInv' /\ TameParts'
<1> PICK k \in 1 .. Len(Rest(c)) - 1 :
       Sends(c, k) /\ n_written' = [n_written EXCEPT ![c] = @ + k]
  BY DEF WritePart
<1> PICK w : w = n_written[c] + k
  OBVIOUS
<1>1. UNCHANGED <<buffer, f, file, alive, pending>>
  BY DEF WritePart
<1>2. /\ buffer[c] \in Seq(Units) /\ n_written \in [Clients -> Nat] /\ out[c] \in Seq(Units)
      /\ Len(out[c]) \in Nat /\ Len(buffer[c]) \in Nat /\ n_written[c] \in Nat
  BY DEF DataInv, StaticTypes
<1>3. StaticTypes
  BY DEF DataInv
<1>4. Len(Rest(c)) \in Nat
  BY <1>2, <1>3, RestIs
<1>5. k \in Nat /\ 0 < k /\ k <= Len(Rest(c)) /\ k < Len(Rest(c))
  BY <1>4
<1>6. /\ c \in live /\ Writing(c) /\ ~Reading(c) /\ UNCHANGED <<live, keep_alive, cut, asked>>
      /\ out' \in [Clients -> Seq(Units)] /\ \A d \in Clients : d # c => out'[d] = out[d]
      /\ Len(out'[c]) <= Len(out[c]) + k
      /\ n_written[c] + k <= Len(buffer[c]) /\ Len(Rest(c)) = Len(buffer[c]) - n_written[c]
      /\ InService(c) => Len(out'[c]) = Len(out[c]) + k /\ Continues(out'[c], asked[c], 0)
      /\ Short(c) => k = 1
  BY <1>5, SendsIs
<1>7. w \in Nat /\ w < Len(buffer[c])
  BY <1>2, <1>5, <1>6
<1>8. /\ n_written' \in [Clients -> Nat] /\ n_written'[c] = w
      /\ \A d \in Clients : d # c => n_written'[d] = n_written[d]
  BY <1>2, <1>7
<1>9. StaticTypes'
  <2>1. \A d \in Clients : n_written'[d] <= Len(buffer'[d]) /\ Len(buffer'[d]) <= Room + 1
    BY <1>1, <1>2, <1>7, <1>8 DEF DataInv, StaticTypes
  <2> QED
    BY <1>1, <1>6, <1>8, <2>1 DEF DataInv, StaticTypes
<1>10. FilesOK'
  BY <1>1 DEF DataInv, FilesOK, IsOpen
<1>11. \A d \in Clients : (Writing(d)' <=> Writing(d)) /\ (Reading(d)' <=> Reading(d))
  BY <1>1 DEF Writing, Reading
<1>12. ASSUME NEW d \in Clients, d # c, Owns(d)' PROVE Writing(d)' /\ Owned(d)'
  <2>1. Owns(d) /\ Writing(d) /\ Owned(d)
    BY <1>1, <1>12 DEF DataInv, Owners, Owns, IsOpen
  <2> QED
    BY <1>1, <1>6, <1>8, <1>11, <1>12, <2>1 DEF Owned
<1> PICK q \in Nat : q = Len(out[c])
  BY <1>2
<1> PICK l \in Nat : l = Len(buffer[c])
  BY <1>2
<1>13. ASSUME Owns(c)' PROVE Writing(c)' /\ Owned(c)'
  <2>1. Owns(c) /\ Owned(c)
    BY <1>1, <1>13 DEF DataInv, Owners, Owns, IsOpen
  <2> PICK p : p = file[f[c]].pos
    OBVIOUS
  <2> PICK r \in Nat : r = Len(out'[c])
    BY <1>6
  <2>2. p \in Nat
    <3>1. f[c] \in Handles /\ file \in [Handles -> FILE]
      BY <2>1 DEF DataInv, StaticTypes, FilesOK, Owns
    <3> QED
      BY <3>1 DEF FILE
  <2>3. q + l <= 1 + p + n_written[c] /\ r <= q + k
    BY <1>6, <2>1 DEF Owned
  <2>4. r + l <= 1 + p + w
    BY ONLY <1>2, <1>5, <2>2, <2>3, w = n_written[c] + k, q \in Nat, l \in Nat, r \in Nat
  <2>5. Owned(c)'
    BY <1>1, <1>7, <1>8, <2>4 DEF Owned
  <2> QED
    BY <1>6, <1>11, <2>5
<1>14. Owners'
  BY <1>12, <1>13 DEF Owners
<1>15. ASSUME NEW d \in Clients, d # c, Part(d) PROVE Part(d)'
  BY <1>1, <1>6, <1>8, <1>11, <1>15, PartSame
<1>16. ASSUME Part(c) PROVE Part(c)'
  <2>1. ~Short(c)
    <3>1. Short(c) => k = 1 /\ Len(buffer[c]) = 1 /\ n_written[c] = 0
      BY <1>6 DEF Short
    <3>2. Len(Rest(c)) = Len(buffer[c]) - n_written[c]
      BY <1>6
    <3>3. ASSUME Short(c) PROVE FALSE
      <4>1. Len(Rest(c)) = 1 - 0
        BY ONLY <3>1, <3>2, <3>3
      <4>2. k < 1
        BY <1>5, <4>1
      <4> QED
        BY <1>5, <4>2
    <3> QED
      BY <3>3
  <2>2. InService(c)
    BY <1>6, <1>16, <2>1 DEF Part
  <2> PICK p : p = file[f[c]].pos
    OBVIOUS
  <2>3. p \in Nat /\ f[c] \in Handles
    BY <2>2 DEF InService, DataInv, StaticTypes, FilesOK, FILE, Owns
  <2> PICK r : r = q + k
    OBVIOUS
  <2>4. n_written[c] <= q /\ q + l = 1 + p + n_written[c]
    BY <2>2 DEF InService
  <2>5. w <= r /\ r + l = 1 + p + w /\ r - w = q - n_written[c]
    <3> PICK v \in Nat : v = n_written[c]
      BY <1>2
    <3>1. v <= q /\ q + l = 1 + p + v /\ w = v + k /\ k \in Nat
      BY <1>5, <2>4
    <3>2. w <= r /\ r + l = 1 + p + w /\ r - w = q - v
      BY ONLY <2>3, <3>1, q \in Nat, l \in Nat, v \in Nat, r = q + k
    <3> QED
      BY <3>2
  <2>6. Len(out'[c]) = r /\ Continues(out'[c], asked[c], 0)
    BY <1>6, <2>2
  <2>7. Continues(buffer[c], asked[c], r - w)
    BY <2>2, <2>5 DEF InService
  <2>8. InService(c)'
    BY <1>1, <1>6, <1>8, <2>2, <2>5, <2>6, <2>7 DEF InService, Owns, IsOpen, Continues, Unit
  <2> QED
    BY <1>6, <1>11, <2>8 DEF Part
<1>17. TameParts'
  BY <1>1, <1>15, <1>16 DEF TameParts
<1> QED
  BY <1>9, <1>10, <1>14, <1>17 DEF DataInv

\* The answer with a whole file, unit by unit.
LEMMA WholeIs ==
    ASSUME NEW n \in Files
    PROVE  /\ Whole(n) \in Seq(Units) /\ Len(Whole(n)) = Size[n] + 1
           /\ \A i \in 1 .. Size[n] + 1 : Whole(n)[i] = Unit(n, i)
<1> PICK s : s = Content(n)
  OBVIOUS
<1>1. Size[n] \in Nat
  BY StaticAssumption
<1>2. /\ s \in Seq(Units) /\ Len(s) = Size[n]
      /\ \A i \in 1 .. Size[n] : s[i] = <<n, i>>
  <2>1. \A i \in 1 .. Size[n] : <<n, i>> \in Units
    BY <1>1 DEF Units
  <2>2. s \in [1 .. Size[n] -> Units] /\ \A i \in 1 .. Size[n] : s[i] = <<n, i>>
    BY <2>1 DEF Content
  <2> QED
    BY <1>1, <2>2
<1> PICK h : h = <<Head200>>
  OBVIOUS
<1>3. h \in Seq(Units) /\ Len(h) = 1 /\ h[1] = Head200
  BY One DEF Units
<1> PICK w : w = h \o s
  OBVIOUS
<1>4. /\ w \in Seq(Units) /\ Len(w) = Len(h) + Len(s)
      /\ \A i \in 1 .. Len(h) : w[i] = h[i]
      /\ \A i \in Len(h) + 1 .. Len(h) + Len(s) : w[i] = s[i - Len(h)]
  BY <1>2, <1>3, Joined
<1>5. ASSUME NEW i \in 1 .. Size[n] + 1 PROVE w[i] = Unit(n, i)
  <2>1. CASE i = 1
    BY <1>3, <1>4, <2>1 DEF Unit
  <2>2. CASE i > 1
    <3> PICK j : j = i - 1
      OBVIOUS
    <3>1. j \in 1 .. Size[n] /\ i \in 2 .. Size[n] + 1
      BY <1>1, <2>2
    <3>2. w[i] = s[j]
      BY <1>1, <1>2, <1>3, <1>4, <3>1
    <3>3. s[j] = <<n, j>> /\ i # 1
      BY <1>2, <2>2, <3>1
    <3> QED
      BY <3>2, <3>3 DEF Unit
  <2>3. i = 1 \/ i > 1
    BY <1>1
  <2> QED
    BY <2>1, <2>2, <2>3
<1>6. Whole(n) = w /\ Len(w) = Size[n] + 1
  BY <1>1, <1>2, <1>3, <1>4 DEF Whole
<1> QED
  BY <1>4, <1>5, <1>6

\* What continues from the start of the answer is a beginning of it.
LEMMA BeginsIs ==
    ASSUME NEW n \in Files, NEW s \in Seq(Units), Len(s) <= Size[n] + 1, Continues(s, n, 0)
    PROVE  IsPrefix(s, Whole(n)) /\ (Len(s) = Size[n] + 1 => s = Whole(n))
<1> PICK w : w = Whole(n)
  OBVIOUS
<1>1. /\ w \in Seq(Units) /\ Len(w) = Size[n] + 1 /\ Size[n] \in Nat
      /\ \A i \in 1 .. Size[n] + 1 : w[i] = Unit(n, i)
  BY WholeIs, StaticAssumption
<1>2. Len(s) \in 0 .. Size[n] + 1
  BY <1>1, LenProperties
<1> PICK l \in 0 .. Size[n] + 1 : l = Len(s)
  BY <1>2
<1>3. ASSUME NEW i \in 1 .. l PROVE s[i] = w[i]
  <2>1. s[i] = Unit(n, 0 + i) /\ 0 + i = i
    BY DEF Continues
  <2>2. i \in 1 .. Size[n] + 1
    BY <1>1
  <2> QED
    BY <1>1, <2>1, <2>2
<1> PICK u : u = SubSeq(s, 1, l)
  OBVIOUS
<1> PICK v : v = SubSeq(w, 1, l)
  OBVIOUS
<1>4. u \in Seq(Units) /\ Len(u) = l /\ \A i \in 1 .. l : u[i] = s[i]
  BY <1>1, Cut
<1>5. v \in Seq(Units) /\ Len(v) = l /\ \A i \in 1 .. l : v[i] = w[i]
  <2>1. l \in 0 .. Len(w)
    BY <1>1
  <2> QED
    BY <1>1, <2>1, Cut
<1>6. u = v
  <2>1. Len(u) = Len(v) /\ \A i \in 1 .. Len(u) : u[i] = v[i]
    BY <1>3, <1>4, <1>5
  <2> QED
    BY ONLY <1>4, <1>5, <2>1, SeqEqual
<1>7. IsPrefix(s, w)
  BY <1>1, <1>6 DEF IsPrefix
<1>8. ASSUME Len(s) = Size[n] + 1 PROVE s = w
  <2>1. s \in Seq(Units) /\ Len(s) = l /\ w \in Seq(Units) /\ Len(w) = l
    BY <1>1, <1>8
  <2> QED
    BY ONLY <1>3, <2>1, SeqEqual
<1> QED
  BY <1>7, <1>8

\* Nobody else reads the FILE of a connection in service.
LEMMA Alone ==
    ASSUME NEW c, NEW d, Owns(c), Owns(d), f[c] = f[d]
    PROVE  c = d
  BY DEF Owns

\* The step after the last unit of buffer, in the four ways it may go.
LEMMA RestData ==
    ASSUME StaticShape, DataInv, TameParts, NEW c \in Clients, WriteRest(c), world' = world
    PROVE  DataInv' /\ TameParts'
<1> PICK k : k = Len(Rest(c))
  OBVIOUS
<1>1. /\ Sends(c, k) /\ n_written' = [n_written EXCEPT ![c] = 0] /\ GoOn(c) /\ Rest(c) # <<>>
  BY DEF WriteRest
<1>2. /\ buffer \in [Clients -> Seq(Units)] /\ n_written \in [Clients -> Nat]
      /\ out \in [Clients -> Seq(Units)] /\ f \in [Clients -> Handles \cup {NULL}]
      /\ file \in [Handles -> FILE]
      /\ Len(out[c]) \in Nat /\ Len(buffer[c]) \in Nat /\ n_written[c] \in Nat
  BY DEF DataInv, StaticTypes, FilesOK
<1>3. StaticTypes
  BY DEF DataInv
<1>4. k \in Nat /\ 0 < k /\ k <= Len(Rest(c))
  <2>1. Rest(c) \in Seq(Units)
    BY <1>3, RestIs
  <2> QED
    BY <1>1, <2>1
<1>5. /\ c \in live /\ Writing(c) /\ ~Reading(c) /\ UNCHANGED <<live, keep_alive, cut, asked>>
      /\ out' \in [Clients -> Seq(Units)] /\ \A d \in Clients : d # c => out'[d] = out[d]
      /\ Len(out'[c]) <= Len(out[c]) + k
      /\ k = Len(buffer[c]) - n_written[c]
      /\ InService(c) => Len(out'[c]) = Len(out[c]) + k /\ Continues(out'[c], asked[c], 0)
      /\ Short(c) => out'[c] = buffer[c]
  BY <1>1, <1>4, SendsIs
<1>6. /\ n_written' \in [Clients -> Nat] /\ n_written'[c] = 0
      /\ \A d \in Clients : d # c => n_written'[d] = n_written[d]
  BY <1>1, <1>2
<1> PICK r \in Nat : r = Len(out'[c])
  BY <1>5
<1>7. \A h \in Handles : file[h].pos \in Nat
  BY <1>2 DEF FILE
<1>8. \A d \in Clients : Owns(d) => f[d] \in Handles
  BY <1>2 DEF Owns
<1>9. Owned(c) /\ f[c] \in Handles => r <= 1 + file[f[c]].pos
  <2> SUFFICES ASSUME Owned(c), f[c] \in Handles PROVE r <= 1 + file[f[c]].pos
    OBVIOUS
  <2> PICK p \in Nat : p = file[f[c]].pos
    BY <1>7
  <2> PICK q \in Nat : q = Len(out[c])
    BY <1>2
  <2> PICK l \in Nat : l = Len(buffer[c])
    BY <1>2
  <2> PICK w \in Nat : w = n_written[c]
    BY <1>2
  <2>1. q + l <= 1 + p + w /\ k = l - w /\ r <= q + k
    BY <1>5 DEF Owned
  <2>2. r <= 1 + p
    BY ONLY <2>1, q \in Nat, l \in Nat, w \in Nat, p \in Nat, r \in Nat
  <2> QED
    BY <2>2
<1>10. InService(c) => r = 1 + file[f[c]].pos /\ f[c] \in Handles
  <2> SUFFICES ASSUME InService(c) PROVE r = 1 + file[f[c]].pos /\ f[c] \in Handles
    OBVIOUS
  <2>1. f[c] \in Handles
    BY <1>2 DEF InService, Owns
  <2> PICK p \in Nat : p = file[f[c]].pos
    BY <1>7, <2>1
  <2> PICK q \in Nat : q = Len(out[c])
    BY <1>2
  <2> PICK l \in Nat : l = Len(buffer[c])
    BY <1>2
  <2> PICK w \in Nat : w = n_written[c]
    BY <1>2
  <2>2. q + l = 1 + p + w /\ k = l - w /\ r = q + k
    BY <1>5 DEF InService
  <2>3. r = 1 + p
    BY ONLY <2>2, q \in Nat, l \in Nat, w \in Nat, p \in Nat, r \in Nat
  <2> QED
    BY <2>1, <2>3
<1>11. world.tame => InService(c) \/ Short(c)
  BY <1>5 DEF TameParts, Part
\* What the four ways have in common, for the others and for c.
<1>12. ASSUME \A d \in Clients : d # c => buffer'[d] = buffer[d], f' = f,
              \A d \in Clients : d # c => (Writing(d)' <=> Writing(d)) /\ (Reading(d)' <=> Reading(d)),
              NEW d \in Clients, d # c
       PROVE  /\ (Owns(d)' => /\ Owns(d) /\ file'[f[d]].name = file[f[d]].name
                              /\ file'[f[d]].pos \in Nat /\ file[f[d]].pos <= file'[f[d]].pos)
                 => (Owns(d)' => Writing(d)' /\ Owned(d)')
              /\ Part(d) /\ (Owns(d) => file'[f[d]] = file[f[d]]) => Part(d)'
  BY <1>5, <1>6, <1>12, OwnerSame, PartSame
<1>13. ASSUME Await(c)
       PROVE  /\ buffer' \in [Clients -> Seq(Units)] /\ buffer'[c] = <<>> /\ Len(<<>>) = 0
              /\ \A d \in Clients : d # c => buffer'[d] = buffer[d]
              /\ \A d \in Clients : /\ d # c => (Writing(d)' <=> Writing(d))
                                    /\ d # c => (Reading(d)' <=> Reading(d))
              /\ ~Writing(c)' /\ Reading(c)'
  BY <1>2, <1>13 DEF Await, Writing, Reading
<1>14. ASSUME \A d \in Clients : d # c => buffer'[d] = buffer[d],
              buffer' \in [Clients -> Seq(Units)], Len(buffer'[c]) <= Room + 1, f' = f,
              alive' \in BOOLEAN
       PROVE  StaticTypes'
  <2>1. Len(buffer'[c]) \in Nat
    BY <1>14
  <2>2. ASSUME NEW d \in Clients
        PROVE  n_written'[d] <= Len(buffer'[d]) /\ Len(buffer'[d]) <= Room + 1
    <3>1. CASE d = c
      BY <1>6, <1>14, <2>1, <3>1
    <3>2. CASE d # c
      BY <1>6, <1>14, <3>2 DEF DataInv, StaticTypes
    <3> QED
      BY <3>1, <3>2
  <2> QED
    BY <1>2, <1>5, <1>6, <1>14, <2>2 DEF DataInv, StaticTypes
<1>15. alive \in BOOLEAN /\ Room \in Nat
  BY StaticAssumption DEF DataInv, StaticTypes
<1>16. ASSUME UNCHANGED <<f, file>>
       PROVE  FilesOK' /\ \A d \in Clients : Owns(d)' <=> Owns(d)
  BY <1>16 DEF DataInv, FilesOK, Owns, IsOpen
<1>17. CASE f[c] = NULL /\ Await(c) /\ UNCHANGED <<f, file, alive>>
  <2>1. StaticTypes' /\ FilesOK'
    <3>1. Len(buffer'[c]) <= Room + 1
      BY <1>13, <1>15, <1>17
    <3> QED
      BY <1>13, <1>14, <1>15, <1>16, <1>17, <3>1
  <2>2. ASSUME NEW d \in Clients, Owns(d)' PROVE Writing(d)' /\ Owned(d)'
    <3>1. Owns(d) /\ d # c
      BY <1>16, <1>17, <2>2 DEF Owns
    <3> PICK p \in Nat : p = file[f[d]].pos
      BY <1>7, <1>8, <3>1
    <3>2. file'[f[d]].pos \in Nat /\ file[f[d]].pos <= file'[f[d]].pos
      BY <1>17
    <3> QED
      BY <1>12, <1>13, <1>17, <2>2, <3>1, <3>2
  <2>3. ASSUME NEW d \in Clients, d # c, Part(d) PROVE Part(d)'
    BY <1>12, <1>13, <1>17, <2>3
  <2>4. ASSUME world.tame PROVE Part(c)'
    <3>1. Short(c)
      BY <1>11, <1>17, <2>4 DEF InService, Owns
    <3>2. out'[c] \in Answers(asked[c])
      BY <1>5, <3>1 DEF Short
    <3> QED
      BY <1>5, <1>6, <1>13, <1>17, <3>2 DEF Part, Answers, Whole, Content
  <2> QED
    BY <1>17, <2>1, <2>2, <2>3, <2>4 DEF DataInv, Owners, TameParts
<1>18. CASE f[c] # NULL /\ ~IsOpen(f[c]) /\ alive' = FALSE /\ UNCHANGED <<buffer, f, file, pending>>
  <2>1. \A d \in Clients : (Writing(d)' <=> Writing(d)) /\ (Reading(d)' <=> Reading(d))
    BY <1>18 DEF Writing, Reading
  <2>2. StaticTypes' /\ FilesOK'
    <3>1. Len(buffer'[c]) <= Room + 1
      BY <1>18 DEF DataInv, StaticTypes
    <3> QED
      BY <1>2, <1>14, <1>16, <1>18, <3>1
  <2>3. ASSUME NEW d \in Clients, Owns(d)' PROVE Writing(d)' /\ Owned(d)'
    <3>1. Owns(d) /\ d # c
      BY <1>16, <1>18, <2>3 DEF Owns
    <3> PICK p \in Nat : p = file[f[d]].pos
      BY <1>7, <1>8, <3>1
    <3>2. file'[f[d]].pos \in Nat /\ file[f[d]].pos <= file'[f[d]].pos
      BY <1>18
    <3> QED
      BY <1>12, <1>18, <2>1, <2>3, <3>1, <3>2
  <2>4. ~world.tame
    BY <1>11, <1>18 DEF InService, Short, Owns
  <2> QED
    BY <2>2, <2>3, <2>4 DEF DataInv, Owners, TameParts
\* More of the file, which may be another's by then, but not in a tame world.
<1>19. CASE /\ f[c] # NULL /\ IsOpen(f[c]) /\ ~file[f[c]].eof
            /\ fill_in_buffer_from_file(c, f[c]) /\ UNCHANGED <<f, alive, pending>>
  <2> PICK h \in Handles : h = f[c]
    BY <1>2, <1>19
  <2> PICK n : n = file[h].name
    OBVIOUS
  <2> PICK p : p = file[h].pos
    OBVIOUS
  <2>1. /\ n \in Files /\ p \in Nat /\ p <= Size[n] /\ p % Room = 0 /\ file[h].by \in Clients
        /\ Size[n] \in Nat
    <3>1. IsOpen(h) /\ ~file[h].eof
      BY <1>19
    <3>2. /\ n \in Files /\ p <= Size[n] /\ file[h].by \in Clients
          /\ IF file[h].eof THEN p = Size[n] ELSE p % Room = 0
      BY <3>1 DEF DataInv, FilesOK
    <3> QED
      BY <1>7, <3>1, <3>2, StaticAssumption
  <2> PICK s : s = Piece(n, p)
    OBVIOUS
  <2>2. PICK m \in Nat :
           /\ m = p + Len(s) /\ p <= m /\ m <= Size[n]
           /\ s \in Seq(Units) /\ Len(s) = m - p /\ m - p <= Room
           /\ \A i \in 1 .. m - p : s[i] = Unit(n, 1 + p + i)
           /\ IF p + Room > Size[n] THEN m = Size[n] ELSE m % Room = 0
           /\ s = <<>> => Size[n] % Room = 0
    <3>1. \E m \in Nat :
              /\ m = p + Len(Piece(n, p)) /\ p <= m /\ m <= Size[n]
              /\ Piece(n, p) \in Seq(Units) /\ Len(Piece(n, p)) = m - p /\ m - p <= Room
              /\ \A i \in 1 .. m - p : Piece(n, p)[i] = Unit(n, 1 + p + i)
              /\ IF p + Room > Size[n] THEN m = Size[n] ELSE m % Room = 0
              /\ Piece(n, p) = <<>> => Size[n] % Room = 0
      BY ONLY <2>1, FilledIs
    <3> QED
      BY <3>1
  <2>3. /\ buffer' = [buffer EXCEPT ![c] = s]
        /\ file' = [file EXCEPT ![h].pos = m, ![h].eof = p + Room > Size[n]]
    BY <1>19, <2>2 DEF fill_in_buffer_from_file
  <2>4. /\ file' \in [Handles -> FILE] /\ \A g \in Handles : g # h => file'[g] = file[g]
        /\ file'[h].name = n /\ file'[h].by = file[h].by /\ file'[h].pos = m
        /\ file'[h].eof = (p + Room > Size[n])
    <3> PICK g : g = [file[h] EXCEPT !.pos = m, !.eof = p + Room > Size[n]]
      OBVIOUS
    <3>1. file[h] \in FILE /\ (p + Room > Size[n]) \in BOOLEAN
      BY <1>2
    <3>2. /\ g \in FILE /\ g.name = file[h].name /\ g.by = file[h].by /\ g.pos = m
          /\ g.eof = (p + Room > Size[n])
      BY <3>1 DEF FILE
    <3>3. file' = [file EXCEPT ![h] = g]
      BY <1>2, <2>3
    <3> QED
      BY <1>2, <3>2, <3>3
  <2>5. \A g \in Handles : /\ IsOpen(g)' <=> IsOpen(g)
                           /\ file'[g].name = file[g].name /\ file'[g].by = file[g].by
                           /\ file'[g].pos \in Nat /\ file[g].pos <= file'[g].pos
    <3> SUFFICES ASSUME NEW g \in Handles
                 PROVE  /\ IsOpen(g)' <=> IsOpen(g)
                        /\ file'[g].name = file[g].name /\ file'[g].by = file[g].by
                        /\ file'[g].pos \in Nat /\ file[g].pos <= file'[g].pos
      OBVIOUS
    <3>1. CASE g = h
      <4>1. file'[h].by \in Clients /\ Closed.by = Listener
        BY <2>1, <2>4 DEF Closed
      <4>2. file'[h] # Closed
        BY <4>1, StaticAssumption
      <4> QED
        BY <1>19, <2>2, <2>4, <3>1, <4>2 DEF IsOpen
    <3>2. CASE g # h
      <4> PICK q \in Nat : q = file[g].pos
        BY <1>2 DEF FILE
      <4> QED
        BY <2>4, <3>2 DEF IsOpen
    <3> QED
      BY <3>1, <3>2
  <2>6. FilesOK'
    <3> SUFFICES ASSUME NEW g \in Handles, IsOpen(g)'
                 PROVE  /\ file'[g].name \in Files /\ file'[g].by \in Clients
                        /\ file'[g].pos <= Size[file'[g].name]
                        /\ IF file'[g].eof THEN file'[g].pos = Size[file'[g].name]
                           ELSE file'[g].pos % Room = 0
      BY <2>4 DEF FilesOK
    <3>1. CASE g = h
      BY <2>1, <2>2, <2>4, <3>1
    <3>2. CASE g # h
      BY <2>4, <2>5, <3>2 DEF DataInv, FilesOK
    <3> QED
      BY <3>1, <3>2
  <2>7. /\ buffer' \in [Clients -> Seq(Units)] /\ buffer'[c] = s
        /\ \A d \in Clients : d # c => buffer'[d] = buffer[d]
    BY <1>2, <2>2, <2>3
  <2>8. StaticTypes'
    <3>1. Len(buffer'[c]) <= Room + 1
      <4>1. Len(s) <= Room
        BY <2>2
      <4>2. Len(s) \in Nat
        BY ONLY <2>2, LenProperties
      <4>3. Len(s) <= Room + 1
        BY ONLY <1>15, <4>1, <4>2
      <4> QED
        BY <2>7, <4>3
    <3> QED
      BY <1>14, <1>15, <1>19, <2>7, <3>1
  <2>9. \A d \in Clients : (Writing(d)' <=> Writing(d)) /\ (Reading(d)' <=> Reading(d))
    BY <1>19 DEF Writing, Reading
  <2>10. \A d \in Clients : Owns(d)' <=> Owns(d)
    BY <1>2, <1>19, <2>5 DEF Owns
  <2>11. ASSUME NEW d \in Clients, d # c, Owns(d)' PROVE Writing(d)' /\ Owned(d)'
    BY <1>12, <1>19, <1>8, <2>5, <2>7, <2>9, <2>10, <2>11
  <2>12. ASSUME Owns(c)' PROVE Writing(c)' /\ Owned(c)'
    <3>1. Owned(c)
      BY <2>10, <2>12 DEF DataInv, Owners
    <3>2. r <= 1 + p
      BY <1>9, <3>1
    <3>3. r + Len(s) <= 1 + m + 0
      BY ONLY <2>1, <2>2, <3>2, r \in Nat
    <3>4. 0 < Len(s) \/ (s = <<>> /\ Size[n] % Room = 0)
      <4>1. s # <<>> => 0 < Len(s)
        <5>1. s \in Seq(Units)
          BY <2>2
        <5> QED
          BY ONLY <5>1
      <4> QED
        BY <2>2, <4>1
    <3>5. Owned(c)'
      BY <1>6, <1>19, <2>4, <2>7, <3>3, <3>4 DEF Owned
    <3> QED
      BY <1>5, <2>9, <3>5
  <2>13. Owners'
    BY <2>11, <2>12 DEF Owners
  <2>14. ASSUME world.tame PROVE InService(c)
    BY <1>11, <1>19, <2>14 DEF Short
  <2>15. ASSUME world.tame, NEW d \in Clients, d # c, Part(d) PROVE Part(d)'
    <3>1. Owns(d) => f[d] \in Handles /\ f[d] # h
      BY <1>8, <2>14, <2>15, Alone DEF InService
    <3> QED
      BY <1>12, <1>19, <2>4, <2>7, <2>9, <2>15, <3>1
  <2>16. ASSUME world.tame PROVE Part(c)'
    <3>1. InService(c) /\ asked[c] = n /\ Owns(c)'
      BY <2>10, <2>14, <2>16 DEF InService
    <3>2. r = 1 + p /\ Continues(out'[c], n, 0)
      BY <1>5, <1>10, <3>1
    <3>3. Continues(s, n, r)
      <4>1. \A i \in 1 .. Len(s) : s[i] = Unit(n, r + i)
        BY <2>2, <3>2
      <4> QED
        BY <4>1 DEF Continues
    <3>4. Continues(s, n, r - 0)
      BY <3>3
    <3>5. 0 <= r /\ r + Len(s) = 1 + m + 0
      BY ONLY <2>1, <2>2, <3>2, r \in Nat
    <3>6. InService(c)'
      <4>1. /\ asked'[c] = n /\ f'[c] = h /\ n_written'[c] = 0 /\ buffer'[c] = s
            /\ Len(out'[c]) = r /\ file'[h].pos = m /\ file'[h].name = n
        BY <1>5, <1>6, <1>19, <2>4, <2>7, <3>1
      <4> QED
        BY <3>1, <3>2, <3>4, <3>5, <4>1 DEF InService, Continues, Unit
    <3> QED
      BY <1>5, <2>9, <3>6 DEF Part
  <2>17. TameParts'
    BY <1>19, <2>15, <2>16 DEF TameParts
  <2> QED
    BY <2>6, <2>8, <2>13, <2>17 DEF DataInv
\* The end of the file.
<1>20. CASE /\ f[c] # NULL /\ IsOpen(f[c]) /\ file[f[c]].eof
            /\ Finish(c, f[c])
  <2> PICK h \in Handles : h = f[c]
    BY <1>2, <1>20
  <2>1. file' = [file EXCEPT ![h] = Closed] /\ Await(c) /\ UNCHANGED <<f, alive>>
    BY <1>20 DEF Finish
  <2>2. file'[h] = Closed /\ \A g \in Handles : g # h => file'[g] = file[g]
    BY <1>2, <2>1
  <2>3. FilesOK'
    <3>1. Closed \in FILE
      BY DEF Closed, FILE
    <3>2. file' \in [Handles -> FILE]
      BY <1>2, <2>1, <3>1
    <3>3. ASSUME NEW g \in Handles, IsOpen(g)' PROVE IsOpen(g) /\ file'[g] = file[g]
      BY <2>2, <3>3 DEF IsOpen
    <3> QED
      BY <3>2, <3>3 DEF DataInv, FilesOK
  <2>4. StaticTypes'
    <3>1. Len(buffer'[c]) <= Room + 1
      BY <1>13, <1>15, <2>1
    <3> QED
      BY <1>13, <1>14, <1>15, <2>1, <3>1
  <2>5. ASSUME NEW d \in Clients, Owns(d)'
        PROVE  Owns(d) /\ d # c /\ f[d] \in Handles /\ file'[f[d]] = file[f[d]]
    <3>1. f'[d] = f[d] /\ f[d] \in Handles /\ IsOpen(f[d])'
      BY <1>2, <2>1, <2>5 DEF Owns
    <3>2. f[d] # h
      BY <2>2, <3>1 DEF IsOpen
    <3> QED
      BY <2>2, <2>5, <3>1, <3>2 DEF Owns, IsOpen
  <2>6. ASSUME NEW d \in Clients, Owns(d)' PROVE Writing(d)' /\ Owned(d)'
    <3>1. Owns(d) /\ d # c /\ f[d] \in Handles /\ file'[f[d]] = file[f[d]]
      BY <2>5, <2>6
    <3> PICK p \in Nat : p = file[f[d]].pos
      BY <1>7, <3>1
    <3>2. file'[f[d]].pos \in Nat /\ file[f[d]].pos <= file'[f[d]].pos
      BY <3>1
    <3> QED
      BY <1>12, <1>13, <2>1, <2>6, <3>1, <3>2
  <2>7. ASSUME world.tame PROVE InService(c)
    BY <1>11, <1>20, <2>7 DEF Short
  <2>8. ASSUME world.tame, NEW d \in Clients, d # c, Part(d) PROVE Part(d)'
    <3>1. Owns(d) => f[d] \in Handles /\ f[d] # h
      BY <1>8, <2>7, <2>8, Alone DEF InService
    <3> QED
      BY <1>12, <1>13, <2>1, <2>2, <2>8, <3>1
  <2>9. ASSUME world.tame PROVE Part(c)'
    <3> PICK n : n = asked[c]
      OBVIOUS
    <3>1. file[h].name = n /\ Continues(out'[c], n, 0) /\ r = 1 + file[h].pos
      BY <1>5, <1>10, <2>7, <2>9 DEF InService
    <3>2. n \in Files /\ file[h].pos = Size[n]
      BY <1>20, <3>1 DEF DataInv, FilesOK
    <3>3. out'[c] \in Seq(Units) /\ Len(out'[c]) = Size[n] + 1 /\ Size[n] \in Nat
      BY <1>5, <3>1, <3>2, StaticAssumption
    <3>4. Len(out'[c]) <= Size[n] + 1
      BY ONLY <3>3
    <3>5. out'[c] = Whole(n)
      BY <3>1, <3>2, <3>3, <3>4, BeginsIs
    <3>6. out'[c] \in Answers(asked'[c])
      BY <1>5, <3>2, <3>5 DEF Answers
    <3> QED
      BY <1>6, <1>13, <2>1, <3>6 DEF Part, Answers, Whole, Content
  <2> QED
    BY <2>1, <2>3, <2>4, <2>6, <2>8, <2>9 DEF DataInv, Owners, TameParts
<1> QED
  BY <1>1, <1>17, <1>18, <1>19, <1>20 DEF GoOn

-----------------------------------------------------------------------------
LEMMA DataInit == Init => DataInv /\ TameParts
<1> SUFFICES ASSUME Init PROVE DataInv /\ TameParts
  OBVIOUS
<1>1. /\ live = {} /\ alive = TRUE /\ world \in Worlds /\ pending = {}
      /\ buffer = [c \in Clients |-> <<>>] /\ n_written = [c \in Clients |-> 0]
      /\ f = [c \in Clients |-> NULL] /\ file = [h \in Handles |-> Closed]
      /\ keep_alive = [c \in Clients |-> "some"] /\ cut = [c \in Clients |-> FALSE]
      /\ asked = [c \in Clients |-> "part"] /\ out = [c \in Clients |-> <<>>]
  BY DEF Init, LoopInit
<1>2. Len(<<>>) = 0 /\ 0 <= Room + 1 /\ <<>> \in Seq(Units)
  BY StaticAssumption
<1>3. StaticTypes
  BY <1>1, <1>2 DEF StaticTypes, Others
<1>4. FilesOK
  <2>1. Closed \in FILE
    BY DEF Closed, FILE
  <2> QED
    BY <1>1, <2>1 DEF FilesOK, IsOpen
<1>5. Owners
  BY <1>1 DEF Owners, Owns
<1>6. \A c \in Clients : Part(c)
  BY <1>1 DEF Part, Writing, Reading
<1> QED
  BY <1>1, <1>3, <1>4, <1>5, <1>6 DEF DataInv, TameParts

LEMMA DataNext == StaticShape /\ DataInv /\ TameParts /\ [Next]_vars => DataInv' /\ TameParts'
<1> SUFFICES ASSUME StaticShape, DataInv, TameParts, [Next]_vars
             PROVE DataInv' /\ TameParts'
  OBVIOUS
<1>1. CASE UNCHANGED vars
  BY <1>1, DataSame DEF vars, loop_vars
<1>2. CASE Next
  <2>1. world' = world /\ (world.tame => Tame')
    BY <1>2 DEF Next
  <2>2. CASE do_accept
    BY <2>1, <2>2, AcceptData
  <2>3. ASSUME NEW c \in Clients, do_read(c) PROVE DataInv' /\ TameParts'
    BY <2>1, <2>3, ReadData
  <2>4. ASSUME NEW c \in Clients, do_write(c) PROVE DataInv' /\ TameParts'
    <3>1. CASE WriteEnd(c)
      <4>1. c \in live /\ free_fd_state(c)
        BY <3>1, Runner DEF WriteEnd, Kinds
      <4> QED
        BY <2>1, <4>1, FreeData
    <3>2. CASE WritePart(c)
      BY <2>1, <3>2, PartData
    <3>3. CASE WriteRest(c)
      BY <2>1, <3>3, RestData
    <3> QED
      BY <2>4, <3>1, <3>2, <3>3 DEF do_write
  <2>5. ASSUME NEW c \in Clients, do_timer(c) PROVE DataInv' /\ TameParts'
    <3>1. c \in live /\ free_fd_state(c)
      BY <2>5, Runner DEF do_timer, Kinds
    <3> QED
      BY <2>1, <3>1, FreeData
  <2>6. CASE Dispatch
    BY <2>1, <2>6, DataSame DEF Dispatch, dispatch
  <2>7. CASE Outside /\ UNCHANGED <<conn_vars, file, alive>>
    BY <2>1, <2>7, DataSame DEF Outside, Expire, loop_vars
  <2> QED
    BY <1>2, <2>2, <2>3, <2>4, <2>5, <2>6, <2>7 DEF Next, Callback
<1> QED
  BY <1>1, <1>2

\* The inductive invariant holds in every state.
THEOREM StaticKeeps == Spec => []StaticIInv
<1>1. Init => StaticIInv
  BY ShapeInit, DataInit DEF StaticIInv
<1>2. StaticIInv /\ [Next]_vars => StaticIInv'
  BY ShapeNext, DataNext DEF StaticIInv
<1> QED
  BY <1>1, <1>2, PTL DEF Spec

\* A connection either waits, with a timer, or is written to, without one
\* (do_read, do_write, free_fd_state).
THEOREM StaticWaitsOrWrites == Spec => []StaticInv
<1>1. StaticIInv => StaticInv
  <2> SUFFICES ASSUME StaticIInv PROVE TypeOK /\ EventsMatch
    BY DEF StaticInv
  <2>1. LoopTypeOK
    BY DEF StaticIInv, StaticShape, StaticEvents, Places, LoopTypeOK, Kinds
  <2>2. ASSUME NEW c \in Clients PROVE n_written[c] \in 0 .. Len(buffer[c])
    BY <2>2, LenProperties DEF StaticIInv, DataInv, StaticTypes
  <2>3. TypeOK
    BY <2>1, <2>2 DEF StaticIInv, StaticShape, StaticEvents, DataInv, StaticTypes, FilesOK,
       TypeOK
  <2>4. EventsMatch
    BY PendingIs DEF StaticIInv, EventsMatch
  <2> QED
    BY <2>3, <2>4
<1> QED
  BY <1>1, StaticKeeps, PTL

\* In a tame world a peer gets the whole answer it asked for, and no FILE is
\* used after it is closed (do_write, fill_in_buffer_from_file).
THEOREM StaticAnswersWhole == Spec => []AnswersAreWhole
<1>1. StaticIInv => AnswersAreWhole
  <2> SUFFICES ASSUME StaticIInv, world.tame, NEW c \in live
               PROVE  /\ alive
                      /\ \E a \in Answers(asked[c]) : IsPrefix(out[c], a)
                      /\ "read" \in Pending(c) => out[c] \in Answers(asked[c])
    BY DEF StaticIInv, TameParts, AnswersAreWhole
  <2>1. /\ c \in Clients /\ alive /\ Part(c) /\ ~(Reading(c) /\ Writing(c))
        /\ "read" \in Pending(c) <=> Reading(c)
        /\ out[c] \in Seq(Units) /\ buffer[c] \in Seq(Units) /\ n_written[c] \in Nat
        /\ n_written[c] <= Len(buffer[c])
    BY PendingIs DEF StaticIInv, TameParts, StaticShape, StaticEvents, DataInv, StaticTypes
  <2>2. IsPrefix(out[c], out[c])
    BY <2>1 DEF IsPrefix
  <2>3. CASE Writing(c) /\ InService(c)
    <3> PICK n : n = asked[c]
      OBVIOUS
    <3> PICK h \in Handles : h = f[c] /\ IsOpen(h) /\ file[h].name = n
      BY <2>1, <2>3 DEF InService, Owns, StaticIInv, DataInv, StaticTypes
    <3>1. n \in Files /\ file[h].pos <= Size[n] /\ file[h].pos \in Nat
      BY DEF StaticIInv, DataInv, FilesOK, FILE
    <3>2. Size[n] \in Nat
      BY <3>1, StaticAssumption
    <3> PICK p \in Nat : p = file[h].pos
      BY <3>1
    <3> PICK o \in Nat : o = Len(out[c])
      BY <2>1, LenProperties
    <3> PICK l \in Nat : l = Len(buffer[c])
      BY <2>1, LenProperties
    <3> PICK w \in Nat : w = n_written[c]
      BY <2>1
    <3>3. o + l = 1 + p + w /\ w <= l /\ p <= Size[n] /\ Continues(out[c], n, 0)
      BY <2>1, <2>3, <3>1 DEF InService
    <3>4. o <= Size[n] + 1
      BY ONLY <3>2, <3>3, o \in Nat, l \in Nat, w \in Nat, p \in Nat
    <3>5. IsPrefix(out[c], Whole(n))
      BY <2>1, <3>1, <3>3, <3>4, BeginsIs
    <3>6. Whole(n) \in Answers(asked[c])
      BY <3>1 DEF Answers
    <3> QED
      BY <2>1, <2>3, <3>5, <3>6
  <2>4. CASE Writing(c) /\ Short(c)
    <3>1. out[c] = <<>> /\ buffer[c] \in Answers(asked[c]) /\ Len(buffer[c]) = 1
      BY <2>4 DEF Short
    <3>2. SubSeq(out[c], 1, 0) = <<>> /\ SubSeq(buffer[c], 1, 0) = <<>>
      BY <2>1, SubSeqEmpty
    <3>3. IsPrefix(out[c], buffer[c])
      BY <3>1, <3>2 DEF IsPrefix
    <3> QED
      BY <2>1, <2>4, <3>1, <3>3
  <2>5. CASE Reading(c)
    BY <2>1, <2>2, <2>5 DEF Part
  <2>6. CASE ~Reading(c) /\ ~Writing(c)
    <3>1. out[c] = <<>> /\ asked[c] = "other"
      BY <2>1, <2>6 DEF Part
    <3>2. out[c] \in Answers(asked[c])
      BY <3>1, StaticAssumption DEF Answers, Others
    <3> QED
      BY <2>1, <2>2, <3>2
  <2> QED
    BY <2>1, <2>3, <2>4, <2>5, <2>6 DEF Part
<1> QED
  BY <1>1, StaticKeeps, PTL

-----------------------------------------------------------------------------
(***************************************************************************)
(* What one step may not do: strand a connection, or leak a FILE, but in   *)
(* the ways that are known.                                                *)
(***************************************************************************)
StrandedIs == \A c \in Clients : Stranded(c) <=> c \in live /\ ~Reading(c) /\ ~Writing(c)

LEMMA ShapeStranded == StaticShape => StrandedIs
  BY PendingIs DEF StrandedIs, Stranded

LEMMA ShapeStrandedNext == StaticShape' => StrandedIs'
<1>1. (StaticShape => StrandedIs)'
  BY ShapeStranded, PTL
<1> QED
  BY <1>1

\* Whose events a step takes away, for good, without an answer.
LEMMA StrandsStep ==
    ASSUME StaticShape, [Next]_vars, NEW c \in Clients,
           c \in live', ~Reading(c)', ~Writing(c)', asked'[c] # "other",
           asked \in [Clients -> Files \cup Others]
    PROVE  c \in live /\ ~Reading(c) /\ ~Writing(c)
<1>1. CASE UNCHANGED <<live, pending>>
  BY <1>1 DEF Reading, Writing
<1>2. CASE do_accept
  BY <1>2 DEF do_accept, Reading, Writing
<1>3. ASSUME NEW d \in Clients, free_fd_state(d)
      PROVE  c \in live /\ ~Reading(c) /\ ~Writing(c)
  BY <1>3 DEF free_fd_state, Deleted, Events, Reading, Writing, Kinds
<1>4. ASSUME NEW d \in Clients, ReadRequest(d)
      PROVE  c \in live /\ ~Reading(c) /\ ~Writing(c)
  <2>1. PICK chunk \in Chunks :
           asked' = [asked EXCEPT ![d] = Asks(d, chunk)] /\ Answer(d, Asks(d, chunk))
    BY <1>4 DEF ReadRequest
  <2>2. /\ live' = live
        /\ pending' = (pending \ Events(d)) \cup {e \in {<<"write", d>>} : Answered(Asks(d, chunk))}
    BY <1>4, <2>1 DEF ReadRequest, Answer
  <2>3. CASE c = d
    BY <2>1, <2>2, <2>3 DEF Writing, Answered
  <2>4. CASE c # d
    BY <2>2, <2>4 DEF Reading, Writing, Events, Kinds
  <2> QED
    BY <2>3, <2>4
<1>5. ASSUME NEW d \in Clients, WriteRest(d)
      PROVE  c \in live /\ ~Reading(c) /\ ~Writing(c)
  <2>1. live' = live
    BY <1>5 DEF WriteRest, Sends
  <2>2. pending' = pending
        \/ pending' = (pending \ {<<"write", d>>}) \cup ({"read", "time"} \X {d})
    BY <1>5 DEF WriteRest, GoOn, Await, Finish
  <2> QED
    BY <2>1, <2>2 DEF Reading, Writing
<1> QED
  <2>1. CASE UNCHANGED vars
    BY <1>1, <2>1 DEF vars, conn_vars, loop_vars
  <2>2. CASE Next
    <3>1. ASSUME NEW d \in Clients, do_read(d) \/ do_write(d) \/ do_timer(d)
          PROVE  c \in live /\ ~Reading(c) /\ ~Writing(c)
      <4>1. CASE free_fd_state(d)
        BY <1>3, <4>1
      <4>2. CASE ReadPart(d)
        BY <1>1, <4>2 DEF ReadPart, conn_vars
      <4>3. CASE WritePart(d)
        BY <1>1, <4>3 DEF WritePart, Sends
      <4> QED
        BY <1>4, <1>5, <3>1, <4>1, <4>2, <4>3
           DEF do_read, do_write, do_timer, ReadEnd, WriteEnd
    <3>2. CASE Dispatch
      BY <1>1, <3>2 DEF Dispatch, dispatch, conn_vars
    <3>3. CASE Outside /\ UNCHANGED <<conn_vars, file, alive>>
      BY <1>1, <3>3 DEF Outside, Expire, loop_vars, conn_vars
    <3> QED
      BY <1>2, <2>2, <3>1, <3>2, <3>3 DEF Next, Callback
  <2> QED
    BY <2>1, <2>2

\* What a step does to the timer of a connection that goes on.
LEMMA TimersStep ==
    ASSUME StaticShape, [Next]_vars, NEW c \in Clients, c \in live', Timed(c)
    PROVE  \/ Timed(c)' /\ (c \in due => c \in due')
           \/ RequestEnds(c) /\ ~Timed(c)'
<1> DEFINE Runs_on == Timed(c)' /\ (c \in due => c \in due')
<1>1. ASSUME pending \subseteq pending', due \subseteq due' PROVE Runs_on
  BY <1>1 DEF Timed
<1>2. CASE do_accept
  BY <1>1, <1>2 DEF do_accept
<1>3. ASSUME NEW d \in Clients, free_fd_state(d) PROVE Runs_on
  BY <1>3 DEF free_fd_state, Deleted, Events, Timed
<1>4. ASSUME NEW d \in Clients, ReadRequest(d)
      PROVE  Runs_on \/ (RequestEnds(c) /\ ~Timed(c)')
  <2>1. PICK chunk \in Chunks :
           Receives(d, chunk) /\ chunk.what # "part" /\ Answer(d, Asks(d, chunk))
    BY <1>4 DEF ReadRequest
  <2>2. /\ due' = due \ {d}
        /\ pending' = (pending \ Events(d)) \cup {e \in {<<"write", d>>} : Answered(Asks(d, chunk))}
    BY <1>4, <2>1 DEF ReadRequest, Answer
  <2>3. CASE c = d
    BY <2>1, <2>2, <2>3 DEF Receives, RequestEnds, Timed, Events, Kinds
  <2>4. CASE c # d
    BY <2>2, <2>4 DEF Timed, Events
  <2> QED
    BY <2>3, <2>4
<1>5. ASSUME NEW d \in Clients, WriteRest(d) PROVE Runs_on
  <2>1. /\ pending' = pending \/ pending' = (pending \ {<<"write", d>>}) \cup ({"read", "time"} \X {d})
        /\ due \subseteq due'
    BY <1>5 DEF WriteRest, GoOn, Await, Finish
  <2> QED
    BY <2>1 DEF Timed
<1> QED
  <2>1. CASE UNCHANGED vars
    BY <1>1, <2>1 DEF vars, loop_vars
  <2>2. CASE Next
    <3>1. ASSUME NEW d \in Clients, do_read(d) \/ do_write(d) \/ do_timer(d)
          PROVE  Runs_on \/ (RequestEnds(c) /\ ~Timed(c)')
      <4>1. CASE free_fd_state(d)
        BY <1>3, <4>1
      <4>2. CASE ReadPart(d)
        BY <1>1, <4>2 DEF ReadPart
      <4>3. CASE WritePart(d)
        BY <1>1, <4>3 DEF WritePart
      <4> QED
        BY <1>4, <1>5, <3>1, <4>1, <4>2, <4>3
           DEF do_read, do_write, do_timer, ReadEnd, WriteEnd
    <3>2. CASE Dispatch
      BY <1>1, <3>2 DEF Dispatch, dispatch
    <3>3. CASE Outside
      BY <1>1, <3>3 DEF Outside, Expire, loop_vars
    <3> QED
      BY <1>2, <2>2, <3>1, <3>2, <3>3 DEF Next, Callback
  <2> QED
    BY <2>1, <2>2

(***************************************************************************)
(* Pieces of requests neither stop a timer nor set it anew, the end of a   *)
(* request stops it, and only one that is no GET leaves its connection     *)
(* without any event (do_read 134-190, do_write 236-245).                  *)
(***************************************************************************)
THEOREM TimersRunOut == Spec => OnlyRequestsStopTimers
<1> DEFINE A == \A c \in live \cap live' :
                   /\ Timed(c) => \/ Timed(c)' /\ (c \in due => c \in due')
                                  \/ RequestEnds(c) /\ ~Timed(c)'
                   /\ Stranded(c)' => Stranded(c) \/ asked'[c] = "other"
<1>1. StaticIInv /\ StaticIInv' /\ [Next]_vars => [A]_vars
  <2> SUFFICES ASSUME StaticIInv, StaticIInv', [Next]_vars, NEW c \in live \cap live'
               PROVE  /\ Timed(c) => \/ Timed(c)' /\ (c \in due => c \in due')
                                     \/ RequestEnds(c) /\ ~Timed(c)'
                      /\ Stranded(c)' => Stranded(c) \/ asked'[c] = "other"
    OBVIOUS
  <2>1. c \in Clients /\ StaticShape /\ asked \in [Clients -> Files \cup Others]
    BY DEF StaticIInv, StaticShape, StaticEvents, DataInv, StaticTypes
  <2>2. Timed(c) => \/ Timed(c)' /\ (c \in due => c \in due')
                    \/ RequestEnds(c) /\ ~Timed(c)'
    BY <2>1, TimersStep
  <2>3. ASSUME Stranded(c)', asked'[c] # "other" PROVE Stranded(c)
    <3>1. StrandedIs /\ StrandedIs'
      BY ShapeStranded, ShapeStrandedNext DEF StaticIInv
    <3>2. c \in live' /\ ~Reading(c)' /\ ~Writing(c)'
      BY <2>1, <2>3, <3>1 DEF StrandedIs
    <3>3. c \in live /\ ~Reading(c) /\ ~Writing(c)
      BY <2>1, <2>3, <3>2, StrandsStep
    <3> QED
      BY <2>1, <3>1, <3>3 DEF StrandedIs
  <2> QED
    BY <2>2, <2>3
<1> QED
  BY <1>1, StaticKeeps, PTL DEF Spec, OnlyRequestsStopTimers

\* Who is freed while it owns a FILE was not sent the whole answer, or read a
\* file that fills buffer to the last unit.
LEMMA CutIs ==
    ASSUME DataInv, NEW c \in Clients, Owns(c)
    PROVE  out[c] # Whole(file[f[c]].name) \/ Size[file[f[c]].name] % Room = 0
<1> PICK h \in Handles : h = f[c] /\ IsOpen(h)
  BY DEF DataInv, StaticTypes, Owns
<1> PICK n : n = file[h].name
  OBVIOUS
<1>1. n \in Files /\ file[h].pos <= Size[n] /\ file[h].pos \in Nat
  BY DEF DataInv, FilesOK, FILE
<1>2. Size[n] \in Nat /\ Len(Whole(n)) = Size[n] + 1
  BY <1>1, WholeIs, StaticAssumption
<1>3. Owned(c)
  BY DEF DataInv, Owners
<1>4. CASE n_written[c] < Len(buffer[c])
  <2>1. /\ out[c] \in Seq(Units) /\ buffer[c] \in Seq(Units) /\ n_written[c] \in Nat
    BY DEF DataInv, StaticTypes
  <2> PICK o \in Nat : o = Len(out[c])
    BY <2>1, LenProperties
  <2> PICK l \in Nat : l = Len(buffer[c])
    BY <2>1, LenProperties
  <2> PICK w \in Nat : w = n_written[c]
    BY <2>1
  <2> PICK p \in Nat : p = file[h].pos
    BY <1>1
  <2>2. o + l <= 1 + p + w /\ w < l /\ p <= Size[n]
    BY <1>1, <1>3, <1>4 DEF Owned
  <2>3. o < Size[n] + 1
    BY ONLY <1>2, <2>2, o \in Nat, l \in Nat, w \in Nat, p \in Nat
  <2> QED
    BY <1>2, <2>3
<1>5. CASE Size[n] % Room = 0
  BY <1>5
<1> QED
  BY <1>3, <1>4, <1>5 DEF Owned

LEMMA LeaksStep ==
    ASSUME StaticShape, DataInv, [Next]_vars, NEW h \in Handles, Leaked(h)', ~Leaked(h)
    PROVE  /\ file[h].by \in Clients /\ Owns(file[h].by) /\ f[file[h].by] = h
           /\ file[h].by \in live \ live'
<1> PICK c : c = file[h].by
  OBVIOUS
<1>1. f \in [Clients -> Handles \cup {NULL}] /\ file \in [Handles -> FILE]
  BY DEF DataInv, StaticTypes, FilesOK
<1>2. IsOpen(h) => c \in Clients /\ Owns(c) /\ f[c] = h
  BY StaticAssumption DEF DataInv, FilesOK, Leaked, Owns
<1>3. ASSUME IsOpen(h)' => IsOpen(h) /\ file'[h].by = c, f' = f PROVE FALSE
  BY <1>3 DEF Leaked
<1>4. ASSUME UNCHANGED <<f, file>> PROVE FALSE
  <2>1. IsOpen(h)' => IsOpen(h) /\ file'[h].by = c
    BY <1>4 DEF IsOpen
  <2> QED
    BY <1>3, <1>4, <2>1
<1>5. ASSUME NEW d \in Clients, d \in live, free_fd_state(d)
      PROVE  c \in Clients /\ Owns(c) /\ f[c] = h /\ c \in live \ live'
  <2>1. f' = [f EXCEPT ![d] = NULL] /\ file' = file /\ live' = live \ {d}
    BY <1>5 DEF free_fd_state
  <2>2. IsOpen(h) /\ f'[c] # h
    BY <2>1 DEF Leaked, IsOpen
  <2>3. c \in Clients /\ Owns(c) /\ f[c] = h
    BY <1>2, <2>2
  <2>4. c = d
    BY <1>1, <2>1, <2>2, <2>3
  <2> QED
    BY <1>5, <2>1, <2>3, <2>4
<1>6. ASSUME NEW d \in Clients, ReadRequest(d) PROVE FALSE
  <2>1. Runs(<<"read", d>>) /\ \E what : Opened(d, what)
    BY <1>6 DEF ReadRequest, Receives, Answer
  <2> PICK what : Opened(d, what)
    BY <2>1
  <2>2. ~Owns(d)
    <3>1. Reading(d)
      BY <2>1, Runner DEF Kinds, Reading
    <3> QED
      BY <3>1 DEF DataInv, Owners, StaticShape, StaticEvents
  <2>3. CASE f' = [f EXCEPT ![d] = NULL] /\ file' = file
    <3>1. IsOpen(h) /\ f'[c] # h
      BY <2>3 DEF Leaked, IsOpen
    <3> QED
      BY <1>1, <1>2, <2>2, <2>3, <3>1
  <2>4. CASE \E g \in {i \in Handles : ~IsOpen(i)} :
                /\ f' = [f EXCEPT ![d] = g]
                /\ file' = [file EXCEPT ![g] = [name |-> what, by |-> d, pos |-> 0, eof |-> FALSE]]
    <3> PICK g \in Handles :
           /\ ~IsOpen(g) /\ f' = [f EXCEPT ![d] = g]
           /\ file' = [file EXCEPT ![g] = [name |-> what, by |-> d, pos |-> 0, eof |-> FALSE]]
      BY <2>4
    <3>1. file'[g].by = d /\ f'[d] = g
      BY <1>1
    <3>2. h # g
      BY <3>1 DEF Leaked
    <3>3. file'[h] = file[h]
      BY <1>1, <3>2
    <3>4. IsOpen(h) /\ f'[c] # h
      BY <3>3 DEF Leaked, IsOpen
    <3> QED
      BY <1>1, <1>2, <2>2, <3>4
  <2> QED
    BY <1>4, <2>3, <2>4 DEF Opened
<1>7. ASSUME NEW d \in Clients, WriteRest(d) PROVE FALSE
  <2>1. f' = f
    BY <1>7 DEF WriteRest, GoOn, Finish
  <2>2. CASE file' = file
    BY <1>4, <2>1, <2>2
  <2>3. CASE /\ IsOpen(f[d]) /\ f[d] # NULL
             /\ \E p, e : file' = [file EXCEPT ![f[d]].pos = p, ![f[d]].eof = e]
    <3> PICK g \in Handles : g = f[d]
      BY <1>1, <2>3
    <3> PICK p, e : file' = [file EXCEPT ![g].pos = p, ![g].eof = e]
      BY <2>3
    <3> PICK r : r = [file[g] EXCEPT !.pos = p, !.eof = e]
      OBVIOUS
    <3>1. file[g] \in FILE
      BY <1>1
    <3>2. r.by = file[g].by
      BY <3>1 DEF FILE
    <3>3. file' = [file EXCEPT ![g] = r]
      BY <1>1
    <3>4. file'[h].by = c
      BY <1>1, <3>2, <3>3
    <3>5. IsOpen(h)
      BY <1>1, <2>3, <3>3 DEF IsOpen, Leaked
    <3> QED
      BY <1>3, <2>1, <3>4, <3>5
  <2>4. CASE file' = [file EXCEPT ![f[d]] = Closed]
    BY <1>1, <1>3, <2>1, <2>4 DEF IsOpen
  <2> QED
    BY <1>7, <2>2, <2>3, <2>4 DEF WriteRest, GoOn, Finish, fill_in_buffer_from_file
<1> QED
  <2>1. CASE UNCHANGED vars
    BY <1>4, <2>1 DEF vars, conn_vars
  <2>2. CASE Next
    <3>1. ASSUME NEW d \in Clients, do_read(d) \/ do_write(d) \/ do_timer(d)
          PROVE  c \in Clients /\ Owns(c) /\ f[c] = h /\ c \in live \ live'
      <4>1. CASE ReadEnd(d) \/ WriteEnd(d) \/ do_timer(d)
        <5>1. d \in live /\ free_fd_state(d)
          BY <4>1, Runner DEF ReadEnd, WriteEnd, do_timer, Kinds
        <5> QED
          BY <1>5, <5>1
      <4>2. CASE ReadPart(d)
        BY <1>4, <4>2 DEF ReadPart, conn_vars
      <4>3. CASE WritePart(d)
        BY <1>4, <4>3 DEF WritePart
      <4> QED
        BY <1>6, <1>7, <3>1, <4>1, <4>2, <4>3 DEF do_read, do_write
    <3>2. CASE do_accept
      BY <1>4, <3>2 DEF do_accept
    <3>3. CASE Dispatch
      BY <1>4, <3>3 DEF Dispatch, conn_vars
    <3>4. CASE Outside /\ UNCHANGED <<conn_vars, file, alive>>
      BY <1>4, <3>4 DEF conn_vars
    <3> QED
      BY <2>2, <3>1, <3>2, <3>3, <3>4 DEF Next, Callback
  <2> QED
    BY <2>1, <2>2

\* A FILE is left open and forgotten only where a connection is freed in the
\* middle of an answer, or after a file that fills buffer to the last unit
\* (free_fd_state, do_write 204-215).
THEOREM OnlyCutsLose == Spec => OnlyCutsLeak
<1> DEFINE A == \A h \in Handles : Leaked(h)' /\ ~Leaked(h) =>
                   LET c == file[h].by
                   IN  /\ c \in live \ live'
                       /\ out[c] # Whole(file[h].name) \/ Size[file[h].name] % Room = 0
<1>1. StaticIInv /\ [Next]_vars => [A]_vars
  <2> SUFFICES ASSUME StaticIInv, [Next]_vars, NEW h \in Handles, Leaked(h)', ~Leaked(h)
               PROVE  /\ file[h].by \in live \ live'
                      /\ \/ out[file[h].by] # Whole(file[h].name)
                         \/ Size[file[h].name] % Room = 0
    OBVIOUS
  <2> PICK c : c = file[h].by
    OBVIOUS
  <2>1. c \in Clients /\ Owns(c) /\ f[c] = h /\ c \in live \ live'
    BY LeaksStep DEF StaticIInv
  <2>2. out[c] # Whole(file[h].name) \/ Size[file[h].name] % Room = 0
    BY <2>1, CutIs DEF StaticIInv
  <2> QED
    BY <2>1, <2>2
<1> QED
  BY <1>1, StaticKeeps, PTL DEF Spec, OnlyCutsLeak
=============================================================================
