------------------------------ MODULE HttpServ ------------------------------
(***************************************************************************)
(* evgen/http/http_serv.cpp: an HTTP server of libevent callbacks that     *)
(* answers the first request of a connection and closes it.                *)
(*                                                                         *)
(* A file is Size[n] units, and do_write reads Room of them (koef bytes)   *)
(* at a time.  A chunk says what its first line asks for, if it is where a *)
(* request begins, and whether it ends with an empty line.                 *)
(*                                                                         *)
(* errno is one variable of the process: do_write reads it also after a    *)
(* send() of nothing, which returns 0 and does not set it.                 *)
(***************************************************************************)
EXTENDS Integers, FiniteSets, SequencesExt, EventLoop

CONSTANTS Size,     \* the files and their sizes
          Page404,  \* the file that stands for one that is not there
          Room,     \* what is read from a file at once
          BufMax,   \* chunks that buffer takes
          NULL,     \* no FILE
          MaxFd,    \* descriptors for connections and files
          SetSize,  \* those of them with numbers up to FD_SETSIZE
          Worlds    \* the values world may have

Files  == DOMAIN Size
Others == {"root", "missing", "bad"}

ASSUME ServAssumption ==
    /\ Files \cap Others = {} /\ Page404 \in Files /\ NULL \notin Files
    /\ \A n \in Files : Size[n] \in Nat
    /\ Room \in Nat \ {0} /\ BufMax \in Nat \ {0}
    /\ MaxFd \in Nat /\ SetSize \in Nat
    /\ Listener \notin Clients /\ Worlds \subseteq SUBSET Chunks
    /\ Chunks \subseteq [asks : Files \cup Others, ends : BOOLEAN]

VARIABLES live,    \* connections that have an fd_state
          buffer,  \* the chunks received
          left,    \* what is read and not yet sent: kl units from ukw on
          fl,      \* fd_state.fl
          pos,     \* how far it is read
          eof,     \* feof(fl)
          out,     \* history: what was sent, until the peer connects again
          errno,   \* "EAGAIN", or any other
          alive,   \* the process runs
          world    \* what the peers may send, once and for all

state_vars == <<live, buffer, left, fl, pos, eof>>
loop_vars  == <<pending, due, active>>
net_vars   == <<peer, backlog, inbox>>
vars       == <<state_vars, out, errno, alive, world, loop_vars, net_vars>>

Init ==
    /\ world \in Worlds
    /\ live = {} /\ errno = "other" /\ alive = TRUE
    /\ buffer = [c \in Clients |-> <<>>] /\ left = [c \in Clients |-> <<>>]
    /\ fl = [c \in Clients |-> NULL] /\ pos = [c \in Clients |-> 0]
    /\ eof = [c \in Clients |-> FALSE] /\ out = [c \in Clients |-> <<>>]
    /\ LoopInit /\ NetInit

Head200    == <<"200", 0>>
Head302    == <<"302", 0>>
Content(n) == [i \in 1 .. Size[n] |-> <<n, i>>]

Descriptors == Cardinality(live) + Cardinality({c \in live : fl[c] # NULL})

Ran(e) == active' = active \ {e}
Keeps(e) == Ran(e) /\ UNCHANGED <<pending, due>>

-----------------------------------------------------------------------------

Closed(c) == fl' = [fl EXCEPT ![c] = NULL]

\* The FILE and the descriptor are closed, the events deleted.
free_fd_state(c) ==
    /\ live' = live \ {c}
    /\ buffer' = [buffer EXCEPT ![c] = <<>>] /\ left' = [left EXCEPT ![c] = <<>>]
    /\ Closed(c)
    /\ pos' = [pos EXCEPT ![c] = 0] /\ eof' = [eof EXCEPT ![c] = FALSE]
    /\ pending' = pending \ Events(c) /\ active' = active \ Events(c)
    /\ Hungup(c)
    /\ UNCHANGED <<due, backlog>>

\* A number above FD_SETSIZE is closed at once: those below are in use then,
\* while files, which may have numbers above, leave gaps below.
do_accept ==
    /\ Runs(<<"accept", Listener>>)
    /\ Ran(<<"accept", Listener>>)
    /\ \/ /\ Descriptors >= MaxFd
          /\ errno' = "other"
          /\ UNCHANGED <<live, out, pending, net_vars>>
       \/ /\ Descriptors < MaxFd /\ Descriptors >= SetSize
          /\ Hungup(Head(backlog))
          /\ backlog' = Tail(backlog)
          /\ UNCHANGED <<live, out, pending, errno>>
       \/ /\ Descriptors < MaxFd /\ Cardinality(live) < SetSize
          /\ live' = live \cup {Head(backlog)}
          /\ out' = [out EXCEPT ![Head(backlog)] = <<>>]
          /\ pending' = pending \cup {<<"read", Head(backlog)>>}
          /\ backlog' = Tail(backlog)
          /\ UNCHANGED <<errno, peer, inbox>>
    /\ UNCHANGED <<buffer, left, fl, pos, eof, alive, due>>

-----------------------------------------------------------------------------
(***************************************************************************)
(* do_read and parse.                                                      *)
(***************************************************************************)
ReadEnd(c) ==
    /\ Runs(<<"read", c>>)
    /\ inbox[c] = <<>> \/ Len(buffer[c]) = BufMax
    /\ errno' \in (IF peer[c] = "reset" THEN {"other"} ELSE {errno})
    /\ free_fd_state(c)
    /\ UNCHANGED <<out, alive>>

Received(c, ends) ==
    /\ Runs(<<"read", c>>)
    /\ inbox[c] # <<>> /\ Len(buffer[c]) < BufMax
    /\ Head(inbox[c]).ends = ends

\* A chunk does not end with an empty line: the request goes on.
ReadPart(c) ==
    /\ Received(c, FALSE)
    /\ buffer' = [buffer EXCEPT ![c] = Append(@, Head(inbox[c]))]
    /\ inbox' = [inbox EXCEPT ![c] = Tail(@)]
    /\ Keeps(<<"read", c>>)
    /\ UNCHANGED <<live, left, fl, pos, eof, out, errno, alive, peer, backlog>>

\* parse() reads from the beginning of buffer.  Mutant: from the last chunk.
Wants_last(c) == Head(inbox[c]).asks

Wants(c) == Head(buffer[c] \o inbox[c]).asks

\* A send() without MSG_NOSIGNAL.
Raises(c) == alive' \in (IF peer[c] = "reset" THEN BOOLEAN ELSE {TRUE})

\* "/" is redirected; what is no request is not answered: the last send() is
\* on a descriptor that is closed.
ReadRefused(c) ==
    /\ Received(c, TRUE)
    /\ Wants(c) \in {"root", "bad"}
    /\ \/ Wants(c) = "bad" /\ UNCHANGED <<out, alive>>
       \/ /\ Wants(c) = "root"
          /\ Raises(c)
          /\ out' = IF peer[c] = "reset" THEN out ELSE [out EXCEPT ![c] = Append(@, Head302)]
    /\ errno' = "other"
    /\ free_fd_state(c)

\* What fopen() returns, for what is asked or else for the page.
Opened(n) ==
    IF Descriptors >= MaxFd THEN NULL ELSE IF n \in Files THEN n ELSE Page404

ReadRequest(c) ==
    /\ Received(c, TRUE)
    /\ Wants(c) \notin {"root", "bad"}
    /\ fl' = [fl EXCEPT ![c] = Opened(Wants(c))]
    /\ errno' = IF Wants(c) \in Files /\ Descriptors < MaxFd /\ peer[c] # "reset"
                THEN errno ELSE "other"
    /\ Raises(c)
    /\ IF peer[c] = "reset" THEN UNCHANGED <<out, peer>>
       ELSE /\ out' = [out EXCEPT ![c] = Append(@, Head200)]
            /\ \E p \in AfterSend(c) : peer' = [peer EXCEPT ![c] = p]
    /\ buffer' = [buffer EXCEPT ![c] = <<Head(@ \o inbox[c])>>]
    /\ inbox' = [inbox EXCEPT ![c] = Tail(@)]
    /\ pending' = (pending \ Events(c)) \cup {<<"write", c>>}
    /\ active' = active \ Events(c)
    /\ UNCHANGED <<live, left, pos, eof, due, backlog>>

do_read(c) == ReadEnd(c) \/ ReadPart(c) \/ ReadRefused(c) \/ ReadRequest(c)

-----------------------------------------------------------------------------
(***************************************************************************)
(* do_write: when nothing is left to send it reads on, then it sends.      *)
(***************************************************************************)
Crash(c) ==
    /\ Runs(<<"write", c>>)
    /\ left[c] = <<>> /\ fl[c] = NULL
    /\ alive' = FALSE
    /\ UNCHANGED <<state_vars, out, errno, loop_vars, net_vars>>

Reads(c)  == left[c] = <<>>
Piece(c)  == SubSeq(Content(fl[c]), pos[c] + 1,
                    IF pos[c] + Room < Size[fl[c]] THEN pos[c] + Room ELSE Size[fl[c]])
Data(c)   == IF Reads(c) THEN Piece(c) ELSE left[c]
AtEof(c)  == eof[c] \/ (Reads(c) /\ pos[c] + Room > Size[fl[c]])

\* What the callback leaves, when k units of Data are sent.
Sent(c, k) ==
    /\ left' = [left EXCEPT ![c] = SubSeq(Data(c), k + 1, Len(Data(c)))]
    /\ pos' = [pos EXCEPT ![c] = IF Reads(c) THEN @ + Len(Piece(c)) ELSE @]
    /\ eof' = [eof EXCEPT ![c] = AtEof(c)]
    /\ Keeps(<<"write", c>>)
    /\ UNCHANGED <<live, buffer, fl, alive, backlog, inbox>>

Sending(c) == Runs(<<"write", c>>) /\ (Reads(c) => fl[c] # NULL)

\* send() has no room for a peer that does not read.
WriteAgain(c) ==
    /\ Sending(c)
    /\ peer[c] = "up" /\ Data(c) # <<>>
    /\ errno' = "EAGAIN"
    /\ Sent(c, 0)
    /\ UNCHANGED <<out, peer>>

\* send() of nothing, while errno is left from another call.
WriteStale(c) ==
    /\ Sending(c)
    /\ peer[c] # "reset" /\ Data(c) = <<>> /\ errno = "EAGAIN"
    /\ Sent(c, 0)
    /\ UNCHANGED <<out, errno, peer>>

\* send() fails, or sends nothing.  Mutant: the error is ignored.
WriteEnd_ignored(c) ==
    /\ Sending(c)
    /\ peer[c] = "reset" \/ (Data(c) = <<>> /\ errno # "EAGAIN")
    /\ errno' = "other"
    /\ Sent(c, 0)
    /\ UNCHANGED <<out, peer>>

WriteEnd(c) ==
    /\ Sending(c)
    /\ peer[c] = "reset" \/ (Data(c) = <<>> /\ errno # "EAGAIN")
    /\ errno' = "other"
    /\ free_fd_state(c)
    /\ UNCHANGED <<out, alive>>

\* Mutant: the end of the file is enough, whatever is left of it.
Done_atEof(c, k) == AtEof(c)

Done(c, k) == AtEof(c) /\ k = Len(Data(c))

WriteSome(c) ==
    /\ Sending(c)
    /\ peer[c] # "reset"
    /\ \E k \in 1 .. Len(Data(c)) :
          /\ out' = [out EXCEPT ![c] = @ \o SubSeq(Data(c), 1, k)]
          /\ \/ ~Done(c, k) /\ Sent(c, k) /\ \E p \in AfterSend(c) : peer' = [peer EXCEPT ![c] = p]
             \/ Done(c, k) /\ free_fd_state(c) /\ UNCHANGED alive
    /\ UNCHANGED errno

do_write(c) == Crash(c) \/ WriteAgain(c) \/ WriteStale(c) \/ WriteEnd(c) \/ WriteSome(c)

-----------------------------------------------------------------------------
Callback == do_accept \/ \E c \in Clients : do_read(c) \/ do_write(c)

Dispatch == dispatch /\ UNCHANGED <<state_vars, out, errno, alive, net_vars>>

Next ==
    /\ alive
    /\ \/ Callback
       \/ Dispatch
       \/ PeerActs /\ UNCHANGED <<state_vars, out, errno, alive, loop_vars>>
    /\ \A c \in Clients : ToSet(inbox'[c]) \subseteq world
    /\ UNCHANGED world

Spec == Init /\ [][Next]_vars

(***************************************************************************)
(* The process runs, and peers that are up go on reading.                  *)
(***************************************************************************)
FairSpec ==
    /\ Spec
    /\ WF_vars(alive /\ Callback /\ UNCHANGED world)
    /\ WF_vars(alive /\ Ready({}) # {} /\ Dispatch /\ UNCHANGED world)
    /\ \A c \in Clients :
          /\ SF_vars(alive /\ Dispatch /\ <<"write", c>> \in active' /\ UNCHANGED world)
          /\ SF_vars(alive /\ WriteSome(c) /\ UNCHANGED world)

-----------------------------------------------------------------------------
Writing(c) == <<"write", c>> \in pending

TypeOK ==
    /\ live \subseteq Clients
    /\ \A c \in Clients : Len(buffer[c]) <= BufMax /\ Len(left[c]) <= Room
    /\ fl \in [Clients -> Files \cup {NULL}]
    /\ \A c \in Clients : fl[c] # NULL => c \in live /\ pos[c] <= Size[fl[c]]
    /\ \A c \in Clients : c \in live <=> (Writing(c) \/ <<"read", c>> \in pending)
    /\ eof \in [Clients -> BOOLEAN]
    /\ errno \in {"EAGAIN", "other"} /\ alive \in BOOLEAN
    /\ world \in Worlds
    /\ LoopTypeOK

Whole(n) == <<Head200>> \o Content(n)
Page(n)  == IF n \in Files THEN n ELSE Page404

FirstIsAnswered ==
    \A c \in live :
        IF Writing(c)
        THEN fl[c] = NULL \/ IsPrefix(out[c], Whole(Page(Head(buffer[c]).asks)))
                          \/ (peer[c] = "reset" /\ out[c] = <<>>)
        ELSE out[c] = <<>>

(***************************************************************************)
(* What a peer has been sent is a part of the answer to the first request  *)
(* of its connection, in order, whatever came after that request, however  *)
(* sends are cut and however many files are sent at once.                  *)
(***************************************************************************)
ServInv == TypeOK /\ FirstIsAnswered

(***************************************************************************)
(* A connection that is being answered is closed only when the whole file  *)
(* is sent, or its peer has reset it (lines 103-121): neither the end of   *)
(* the file nor an error of another connection, left in errno, cuts it.    *)
(***************************************************************************)
ClosedWhenWhole ==
    [][\A c \in live \ live' :
          Writing(c) => peer[c] = "reset" \/ out'[c] = Whole(fl[c])]_vars

(***************************************************************************)
(* The whole file is sent and do_write waits for ever for a chance to send *)
(* nothing: errno is EAGAIN from an earlier send(), maybe on another       *)
(* connection, and the size is a multiple of what is read at once.         *)
(***************************************************************************)
Spins(c) ==
    Writing(c) /\ errno = "EAGAIN" /\ fl[c] # NULL /\ left[c] = <<>> /\ pos[c] = Size[fl[c]]

(***************************************************************************)
(* That is the only way for an answer to a peer that reads never to end.   *)
(***************************************************************************)
ReadersAreServed == \A c \in Clients : Writing(c) ~> ~Writing(c) \/ Spins(c) \/ ~alive
=============================================================================
