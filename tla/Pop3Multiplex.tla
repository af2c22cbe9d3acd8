--------------------------- MODULE Pop3Multiplex ---------------------------
(***************************************************************************)
(* work() and process_data() of general/multi_server_pop3/                 *)
(* unit_multiplex.cpp: the select loop that serves all sessions, with the  *)
(* peers it talks to.                                                      *)
(*                                                                         *)
(* A pass of the loop is select, at most one accept, and one recv of two   *)
(* bytes for every session select found readable.  Peers act between any   *)
(* two of these steps.  What one recv returns is a chunk: one of           *)
(* Fragments, without '\r', or the command line its '\r' completes.        *)
(* SIGPIPE of a send() ends the process.                                   *)
(***************************************************************************)
EXTENDS CommandHandler, SequencesExt

CONSTANTS Fragments,  \* the chunks without '\r'
          Listener,   \* the listening descriptor, in readset
          Limits,     \* descriptors that may be left for sessions (RLIMIT_NOFILE)
          Manners,    \* whether the peers may be, or not be, polite
          BufMax,     \* chunks buf holds: (MAXDATASIZE - 2) / 2 in the code
          InboxMax    \* bound on what a peer sends ahead of the server

ASSUME MultiplexAssumption ==
    /\ Fragments \cap Lines = {}
    /\ Listener \notin Clients
    /\ Limits \subseteq Nat \ {0} /\ Manners \subseteq BOOLEAN
    /\ BufMax \in Nat /\ InboxMax \in Nat

VARIABLES s_sock,    \* the sessions, in the order of the vector
          phase,     \* "select", "accept", "serve", or "dead" after SIGPIPE
          readset,   \* what select found readable
          it,        \* index in s_sock of the serve loop (both are reset between passes)
          buf,       \* chunks of an unfinished line in param.buf
          peer,      \* the other end: "idle", "up", "closed" or "reset"
          backlog,   \* connections the kernel completed and work() did not accept
          inbox,     \* what a peer sent and process_data did not receive
          MaxSock,   \* the descriptors left for sessions, once and for all
          polite     \* the peers are polite, all of them (see Polite)

INSTANCE Network WITH Chunks <- Lines \cup Fragments

server_vars == <<s_sock, phase, readset, it, buf>>
net_vars    == <<peer, backlog, inbox>>
world       == <<MaxSock, polite>>
vars        == <<handler_vars, server_vars, net_vars, world>>

Init ==
    /\ HandlerInit
    /\ s_sock = <<>> /\ phase = "select" /\ readset = {} /\ it = 1
    /\ buf = [c \in Clients |-> 0]
    /\ NetInit
    /\ MaxSock \in Limits /\ polite \in Manners

-----------------------------------------------------------------------------
(***************************************************************************)
(* The peers act between any two steps of the loop.  Polite ones close     *)
(* only once they are accepted and everything they sent is answered, and   *)
(* never reset a connection.                                               *)
(***************************************************************************)
Polite == \A c \in Clients :
              peer[c] = "up" /\ peer'[c] \in {"closed", "reset"} =>
                  /\ peer'[c] = "closed"
                  /\ c \in ToSet(s_sock) /\ inbox[c] = <<>>

Peers ==
    /\ phase # "dead"
    /\ PeerActs
    /\ polite => Polite
    /\ UNCHANGED <<handler_vars, server_vars, world>>

-----------------------------------------------------------------------------
(***************************************************************************)
(* select blocks until the listener or a session is readable.              *)
(***************************************************************************)
\* Mutant: new connections wait until no session has anything to say.
Ready_sessionsFirst ==
    LET busy == {c \in ToSet(s_sock) : Readable(c)}
    IN  IF busy # {} \/ backlog = <<>> THEN busy ELSE {Listener}

Ready == {c \in ToSet(s_sock) : Readable(c)} \cup (IF backlog = <<>> THEN {} ELSE {Listener})

Select ==
    /\ phase = "select"
    /\ Ready # {}
    /\ readset' = Ready
    /\ phase' = "accept"
    /\ UNCHANGED <<handler_vars, s_sock, it, buf, net_vars, world>>

(***************************************************************************)
(* One accept per pass.  When it fails, because no descriptor is left, the *)
(* program goes back to select without serving anybody.                    *)
(***************************************************************************)
\* Mutant: the failure is reported and the pass goes on.
Abandon_servesOn == phase' = "serve" /\ UNCHANGED readset

Abandon == phase' = "select" /\ readset' = {}

AcceptFails ==
    /\ phase = "accept"
    /\ Listener \in readset
    /\ Len(s_sock) >= MaxSock
    /\ Abandon
    /\ it' = 1
    /\ UNCHANGED <<handler_vars, s_sock, buf, net_vars, world>>

Accepts ==
    /\ phase = "accept"
    /\ Listener \in readset
    /\ Len(s_sock) < MaxSock
    /\ LET c == Head(backlog)
       IN  /\ user' = [user EXCEPT ![c] = -1]
           /\ state' = [state EXCEPT ![c] = "AUTHORIZATION"]
           /\ buf' = [buf EXCEPT ![c] = 0]
           /\ s_sock' = Append(s_sock, c)
           /\ backlog' = Tail(backlog)
           /\ \E p \in AfterSend(c) : peer' = [peer EXCEPT ![c] = p]
           /\ \E killed \in MayRaise(c) : phase' = IF killed THEN "dead" ELSE "serve"
    /\ it' = 1
    /\ UNCHANGED <<Massive, result, readset, inbox, world>>

NothingToAccept ==
    /\ phase = "accept"
    /\ Listener \notin readset
    /\ phase' = "serve"
    /\ it' = 1
    /\ UNCHANGED <<handler_vars, s_sock, readset, buf, net_vars, world>>

-----------------------------------------------------------------------------
(***************************************************************************)
(* The serve loop.  Turn(c, i): it has come to session c at index i, which *)
(* is the next one in readset.                                             *)
(***************************************************************************)
Turn(c, i) ==
    /\ phase = "serve"
    /\ i \in it .. Len(s_sock)
    /\ s_sock[i] = c
    /\ c \in readset
    /\ \A j \in it .. i - 1 : s_sock[j] \notin readset

\* Mutant: the loop is left after the first session served.
Advance_breaks(i) == it' = Len(s_sock) + 1

Advance(i) == it' = i + 1

(***************************************************************************)
(* process_data returns 1: the session is erased, its successor moves to   *)
(* index i, and the it++ of the loop steps over it in this pass.           *)
(***************************************************************************)
\* Mutant: the descriptor is closed and the session stays in the vector.
Erase_closesOnly(c, i) ==
    /\ Hungup(c)
    /\ buf' = [buf EXCEPT ![c] = 0]
    /\ UNCHANGED s_sock

Erase(c, i) ==
    /\ s_sock' = RemoveAt(s_sock, i)
    /\ Hungup(c)
    /\ buf' = [buf EXCEPT ![c] = 0]

Room(c) == buf[c] < BufMax

\* Mutant: the session is erased without the QUIT.
Commit_nothing(c) == UNCHANGED handler_vars

Commit(c) == QUIT(c, <<>>)

\* Mutant: the end of the input is answered like an empty line.
ServeHangup_answers(c, i) ==
    /\ Turn(c, i)
    /\ inbox[c] = <<>>
    /\ Answer(Err(c, "invalid command"))
    /\ \E p \in AfterSend(c) : peer' = [peer EXCEPT ![c] = p]
    /\ \E killed \in MayRaise(c) : phase' = IF killed THEN "dead" ELSE phase
    /\ Advance(i)
    /\ UNCHANGED <<s_sock, readset, buf, backlog, inbox, world>>

\* recv() <= 0, or a chunk that does not fit: handled as a QUIT without reply.
ServeHangup(c, i) ==
    /\ Turn(c, i)
    /\ inbox[c] = <<>> \/ ~Room(c)
    /\ Commit(c)
    /\ Erase(c, i)
    /\ Advance(i)
    /\ UNCHANGED <<phase, readset, backlog, world>>

ServeFragment(c, i) ==
    /\ Turn(c, i)
    /\ inbox[c] # <<>> /\ Head(inbox[c]) \in Fragments
    /\ Room(c)
    /\ buf' = [buf EXCEPT ![c] = @ + 1]
    /\ inbox' = [inbox EXCEPT ![c] = Tail(@)]
    /\ Advance(i)
    /\ UNCHANGED <<handler_vars, s_sock, phase, readset, peer, backlog, world>>

ServeLine(c, i) ==
    /\ Turn(c, i)
    /\ inbox[c] # <<>> /\ Head(inbox[c]) \in Lines
    /\ Room(c)
    /\ command_handler(c, Head(inbox[c]))
    /\ \E killed \in MayRaise(c) : phase' = IF killed THEN "dead" ELSE phase
    /\ \/ /\ result'.q = 0
          /\ Erase(c, i)
       \/ /\ result'.q = 1
          /\ \E p \in AfterSend(c) : peer' = [peer EXCEPT ![c] = p]
          /\ inbox' = [inbox EXCEPT ![c] = Tail(@)]
          /\ buf' = [buf EXCEPT ![c] = 0]
          /\ UNCHANGED s_sock
    /\ Advance(i)
    /\ UNCHANGED <<readset, backlog, world>>

Serve(c) == \E i \in 1 .. Len(s_sock) :
                ServeHangup(c, i) \/ ServeFragment(c, i) \/ ServeLine(c, i)

EndOfPass ==
    /\ phase = "serve"
    /\ \A i \in it .. Len(s_sock) : s_sock[i] \notin readset
    /\ phase' = "select"
    /\ readset' = {} /\ it' = 1
    /\ UNCHANGED <<handler_vars, s_sock, buf, net_vars, world>>

Work ==
    \/ Select
    \/ AcceptFails \/ Accepts \/ NothingToAccept
    \/ \E c \in Clients : Serve(c)
    \/ EndOfPass

Next == Peers \/ Work

Spec == Init /\ [][Next]_vars

(***************************************************************************)
(* The process runs whenever select has something to report.  Nothing is   *)
(* assumed of the peers.                                                   *)
(***************************************************************************)
FairSpec == Spec /\ WF_vars(Work)

-----------------------------------------------------------------------------
Open == ToSet(s_sock)

TypeOK ==
    /\ Massive \in [Users -> Person]
    /\ user \in [Clients -> Users \cup {-1}]
    /\ state \in [Clients -> States]
    /\ result \in Reply
    /\ s_sock \in Seq(Clients) /\ Len(s_sock) <= MaxSock
    /\ phase \in {"select", "accept", "serve", "dead"}
    /\ readset \subseteq Clients \cup {Listener}
    /\ it \in 1 .. MaxSock + 2
    /\ buf \in [Clients -> 0 .. BufMax]
    /\ NetTypeOK
    /\ MaxSock \in Limits /\ polite \in Manners

OnePlace ==
    /\ IsInjective(s_sock) /\ IsInjective(backlog)
    /\ Open \cap ToSet(backlog) = {}
    /\ phase # "dead" =>
         \A c \in Clients : peer[c] = "idle" <=> c \notin Open \cup ToSet(backlog)

RecvReturns ==
    \A i \in it .. Len(s_sock) : s_sock[i] \in readset => Readable(s_sock[i])

(***************************************************************************)
(* A peer is in exactly one place: idle, in the backlog, or in s_sock.     *)
(* Erasing inside the serve loop never loses a session or serves a closed  *)
(* one, and what select reported still holds when a session's turn comes.  *)
(* The loop relies on it: accepted sockets are non-blocking (line 90), and *)
(* a recv() that found nothing would end the session (line 11).            *)
(***************************************************************************)
LoopInv == TypeOK /\ OnePlace /\ RecvReturns

(***************************************************************************)
(* The loop implements Pop3Sessions: whatever the order of service, the    *)
(* erasures and the peers that go away, sessions see whole commands.       *)
(***************************************************************************)
Sessions == INSTANCE Pop3Sessions WITH s_sock <- ToSet(s_sock)

ImplementsSessions == Sessions!Spec

(***************************************************************************)
(* The table of sessions is full and somebody waits in the backlog while   *)
(* the loop is outside its serving part.  accept then fails in every pass, *)
(* the pass serves nobody, and so no session ever ends: the server hangs   *)
(* for good, even if every peer leaves (lines 84-88).                      *)
(***************************************************************************)
Jammed ==
    /\ Len(s_sock) = MaxSock
    /\ backlog # <<>>
    /\ \/ phase = "select"
       \/ phase = "accept" /\ Listener \in readset

JamIsForever == [][Jammed => Jammed']_vars

Stopped == phase = "dead" \/ Jammed

(***************************************************************************)
(* A session that stays readable is served again and again, however much   *)
(* the other peers send, although a session that closes makes the loop     *)
(* skip its successor in that pass (lines 106-115).                        *)
(***************************************************************************)
NoStarvation ==
    \A c \in Clients :
        <>[](c \in Open /\ Readable(c)) => (<>Stopped \/ []<><<Serve(c)>>_vars)

(***************************************************************************)
(* Nobody waits for ever, unless the server stops: a connection the kernel *)
(* completed gets a session, and a peer that is gone loses its own, hence  *)
(* the lock on its mailbox, without having sent QUIT.                      *)
(***************************************************************************)
Waits(c) == c \in ToSet(backlog) \/ (c \in Open /\ Departed(c))

NobodyWaits == \A c \in Clients : Waits(c) ~> ~Waits(c) \/ Stopped

(***************************************************************************)
(* With polite peers the server never sends to a connection that is reset, *)
(* so SIGPIPE, which nothing catches, never ends it (lines 43 and 93).     *)
(* The step that handles the end of the input must not answer it.  (A peer *)
(* that is not polite may reset before its reply, and end the server.)     *)
(***************************************************************************)
NeverKilled == polite => phase # "dead"
=============================================================================
