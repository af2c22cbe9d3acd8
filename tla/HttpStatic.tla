----------------------------- MODULE HttpStatic -----------------------------
(***************************************************************************)
(* flavik/multi_http_static_server/v1.0_alpha: an HTTP server of libevent  *)
(* callbacks, one fd_state per connection.                                 *)
(*                                                                         *)
(* Bytes are counted in units: a file is Size[n] of them, and buffer takes *)
(* Room (MAX_LENGTH_WRT_BUF - 1) at a time.  recv() takes 8 bytes; a chunk *)
(* is a part of a request, or the part that ends one, with what the        *)
(* request asks for: a file, "/", or something that is not a GET.  (A file *)
(* that is not there is answered as one that cannot be opened.)  A chunk   *)
(* that spills also held the first bytes of the next request: they are     *)
(* dropped, and the next is no GET.  Requests that do not fit into buffer  *)
(* are not modelled.                                                       *)
(*                                                                         *)
(* fclose() leaves the pointer in fd_state.f as it is.  fopen() may hand   *)
(* out the same memory again; a FILE that is closed, when it is read,      *)
(* ends the process (the second fclose() aborts it).                       *)
(***************************************************************************)
EXTENDS Integers, FiniteSets, SequencesExt, EventLoop

CONSTANTS Size,      \* the files and their sizes
          Room,      \* what buffer takes from a file at once
          Handles,   \* where a FILE may be in memory
          NULL,      \* no FILE
          MaxFd,     \* descriptors for connections and files
          SetSize,   \* those of them with numbers up to FD_SETSIZE
          OutMax,    \* bound on the history of an answer: more than a whole one
          Worlds     \* the values world may have

Files == DOMAIN Size
Others == {"part", "root", "other"}

ASSUME StaticAssumption ==
    /\ Files \cap Others = {}
    /\ \A n \in Files : Size[n] \in Nat
    /\ Room \in Nat \ {0} /\ MaxFd \in Nat /\ SetSize \in Nat /\ NULL \notin Handles
    /\ OutMax \in Nat \ {0} /\ \A n \in Files : Size[n] + 2 <= OutMax
    /\ Worlds \subseteq [tame : BOOLEAN, sends : SUBSET Chunks]
    /\ Listener \notin Clients
    /\ Chunks \subseteq [what : Files \cup Others,
                         ka : {"keep", "some", "zero"}, spills : BOOLEAN]

VARIABLES live,        \* connections that have an fd_state
          buffer,      \* the answer, or the part of it that is being sent
          n_written,   \* how much of buffer is sent
          f,           \* fd_state.f
          file,        \* the FILE at a handle: what is open, by whom, and how far it is read
          keep_alive,  \* the period of the timer: "some", or "zero"
          cut,         \* the head of the next request was dropped
          asked,       \* history: what the last request asked for
          out,         \* history: what was sent in answer to it, up to OutMax
          alive,       \* the process runs
          world        \* what peers may send, once and for all, and whether they are tame

conn_vars == <<live, buffer, n_written, f, keep_alive, cut, asked, out>>
loop_vars == <<pending, due, active>>
net_vars  == <<peer, backlog, inbox>>
vars      == <<conn_vars, file, alive, world, loop_vars, net_vars>>

Closed == [name |-> "", by |-> Listener, pos |-> 0, eof |-> FALSE]
IsOpen(h) == file[h] # Closed

Init ==
    /\ live = {} /\ alive = TRUE /\ world \in Worlds
    /\ buffer = [c \in Clients |-> <<>>] /\ n_written = [c \in Clients |-> 0]
    /\ f = [c \in Clients |-> NULL] /\ file = [h \in Handles |-> Closed]
    /\ keep_alive = [c \in Clients |-> "some"] /\ cut = [c \in Clients |-> FALSE]
    /\ asked = [c \in Clients |-> "part"] /\ out = [c \in Clients |-> <<>>]
    /\ LoopInit /\ NetInit

Head200 == <<"200", 0>>
Head302 == <<"302", 0>>
Head404 == <<"404", 0>>
Content(n) == [i \in 1 .. Size[n] |-> <<n, i>>]

\* What the history keeps.
Known(s) == IF Len(s) <= OutMax THEN s ELSE SubSeq(s, 1, OutMax)

\* Descriptors in use: connections and files that are open.
Descriptors == Cardinality(live) + Cardinality({h \in Handles : IsOpen(h)})

Ran(e)   == active' = active \ {e}
-----------------------------------------------------------------------------
(***************************************************************************)
(* free_fd_state and close: the events are deleted; a FILE stays open.     *)
(***************************************************************************)
\* Mutant: time_event is not deleted.
Deleted_notTimer(c) ==
    /\ pending' = pending \ {<<"read", c>>, <<"write", c>>}
    /\ active' = active \ {<<"read", c>>, <<"write", c>>}
    /\ UNCHANGED due

Deleted(c) ==
    /\ pending' = pending \ Events(c)
    /\ active' = active \ Events(c)
    /\ due' = due \ {c}

free_fd_state(c) ==
    /\ live' = live \ {c}
    /\ f' = [f EXCEPT ![c] = NULL]
    /\ buffer' = [buffer EXCEPT ![c] = <<>>]
    /\ n_written' = [n_written EXCEPT ![c] = 0]
    /\ keep_alive' = [keep_alive EXCEPT ![c] = "some"]
    /\ cut' = [cut EXCEPT ![c] = FALSE]
    /\ asked' = [asked EXCEPT ![c] = "part"] /\ out' = [out EXCEPT ![c] = <<>>]
    /\ Deleted(c)
    /\ Hungup(c)
    /\ UNCHANGED <<file, alive, backlog>>

do_timer(c) == Runs(<<"time", c>>) /\ free_fd_state(c)

(***************************************************************************)
(* alloc_fd_state makes what free_fd_state leaves behind; accept may fail. *)
(* A number above FD_SETSIZE is closed at once: those below are in use     *)
(* then, while files, which may have numbers above, leave gaps below.      *)
(***************************************************************************)
do_accept ==
    /\ Runs(<<"accept", Listener>>)
    /\ Ran(<<"accept", Listener>>)
    /\ \/ /\ Descriptors >= MaxFd
          /\ UNCHANGED <<live, pending, net_vars>>
       \/ /\ Descriptors < MaxFd /\ Descriptors >= SetSize
          /\ Hungup(Head(backlog))
          /\ backlog' = Tail(backlog)
          /\ UNCHANGED <<live, pending>>
       \/ /\ Descriptors < MaxFd /\ Cardinality(live) < SetSize
          /\ live' = live \cup {Head(backlog)}
          /\ pending' = pending \cup ({"read", "time"} \X {Head(backlog)})
          /\ backlog' = Tail(backlog)
          /\ UNCHANGED <<peer, inbox>>
    /\ UNCHANGED <<buffer, n_written, f, file, keep_alive, cut, asked, out, alive, due>>

-----------------------------------------------------------------------------
(***************************************************************************)
(* do_read.                                                                *)
(***************************************************************************)
ReadEnd(c) ==
    /\ Runs(<<"read", c>>)
    /\ inbox[c] = <<>>
    /\ free_fd_state(c)

Receives(c, chunk) ==
    /\ Runs(<<"read", c>>)
    /\ inbox[c] # <<>> /\ chunk = Head(inbox[c])
    /\ inbox' = [inbox EXCEPT ![c] = Tail(@)]

\* Mutant: every chunk sets the timer anew.
ReadPart_renews(c) ==
    /\ \E chunk \in Chunks : Receives(c, chunk) /\ chunk.what = "part"
    /\ Ran(<<"read", c>>)
    /\ due' = due \ {c}
    /\ UNCHANGED <<conn_vars, file, alive, pending, peer, backlog>>

ReadPart(c) ==
    /\ \E chunk \in Chunks : Receives(c, chunk) /\ chunk.what = "part"
    /\ Ran(<<"read", c>>)
    /\ UNCHANGED <<conn_vars, file, alive, pending, due, peer, backlog>>

(***************************************************************************)
(* request_handler: a request that lost its head is no GET; a request that *)
(* does not speak of the connection keeps the period of the one before.    *)
(***************************************************************************)
Asks(c, chunk) == IF cut[c] THEN "other" ELSE chunk.what

Period(c, ka) == IF ka = "keep" THEN keep_alive[c] ELSE ka

Found(what) == what \in Files /\ Descriptors < MaxFd

\* "/" leaves f alone; a file sets it to what fopen returns.
\* Mutant: when fopen fails, the FILE of the request before stays.
Opened_keepsOld(c, what) ==
    IF ~Found(what) THEN UNCHANGED <<f, file>>
    ELSE \E h \in {g \in Handles : ~IsOpen(g)} :
            /\ file' = [file EXCEPT ![h] = [name |-> what, by |-> c, pos |-> 0, eof |-> FALSE]]
            /\ f' = [f EXCEPT ![c] = h]

Opened(c, what) ==
    \/ /\ what \in {"other", "root"}
       /\ UNCHANGED <<f, file>>
    \/ /\ what \notin {"other", "root"} /\ ~Found(what)
       /\ f' = [f EXCEPT ![c] = NULL]
       /\ UNCHANGED file
    \/ /\ Found(what)
       /\ \E h \in {g \in Handles : ~IsOpen(g)} :
             /\ file' = [file EXCEPT ![h] = [name |-> what, by |-> c, pos |-> 0, eof |-> FALSE]]
             /\ f' = [f EXCEPT ![c] = h]

Header(what) == IF what = "root" THEN Head302 ELSE IF Found(what) THEN Head200 ELSE Head404

\* Whether write_event is added.
Answered(what) == what # "other"

Answer(c, what) ==
    /\ Opened(c, what)
    /\ buffer' = [buffer EXCEPT ![c] = IF what = "other" THEN <<>> ELSE <<Header(what)>>]
    /\ pending' = (pending \ Events(c)) \cup {e \in {<<"write", c>>} : Answered(what)}

ReadRequest(c) ==
    /\ \E chunk \in Chunks :
          /\ Receives(c, chunk) /\ chunk.what # "part"
          /\ keep_alive' = [keep_alive EXCEPT ![c] = Period(c, chunk.ka)]
          /\ cut' = [cut EXCEPT ![c] = chunk.spills]
          /\ asked' = [asked EXCEPT ![c] = Asks(c, chunk)]
          /\ Answer(c, Asks(c, chunk))
    /\ active' = active \ Events(c)
    /\ due' = due \ {c}
    /\ out' = [out EXCEPT ![c] = <<>>] /\ n_written' = [n_written EXCEPT ![c] = 0]
    /\ UNCHANGED <<live, alive, peer, backlog>>

do_read(c) == ReadEnd(c) \/ ReadPart(c) \/ ReadRequest(c)

-----------------------------------------------------------------------------
(***************************************************************************)
(* do_write.  send() fails when the peer has reset the connection, and     *)
(* returns 0 when it is given nothing; else it takes some of the rest.     *)
(***************************************************************************)
Rest(c) == SubSeq(buffer[c], n_written[c] + 1, Len(buffer[c]))

WriteEnd(c) ==
    /\ Runs(<<"write", c>>)
    /\ Rest(c) = <<>> \/ peer[c] = "reset"
    /\ free_fd_state(c)

Sends(c, k) ==
    /\ Runs(<<"write", c>>)
    /\ peer[c] # "reset"
    /\ \E p \in AfterSend(c) : peer' = [peer EXCEPT ![c] = p]
    /\ out' = [out EXCEPT ![c] = Known(@ \o SubSeq(Rest(c), 1, k))]
    /\ Ran(<<"write", c>>)
    /\ UNCHANGED <<live, keep_alive, cut, asked, backlog, inbox>>

WritePart(c) ==
    /\ \E k \in 1 .. Len(Rest(c)) - 1 :
          /\ Sends(c, k)
          /\ n_written' = [n_written EXCEPT ![c] = @ + k]
    /\ UNCHANGED <<buffer, f, file, alive, pending, due>>

\* The answer is sent: the timer is set anew, and the next request is read.
Await(c) ==
    /\ pending' = (pending \ {<<"write", c>>}) \cup ({"read", "time"} \X {c})
    /\ due' = IF keep_alive[c] = "zero" THEN due \cup {c} ELSE due
    /\ buffer' = [buffer EXCEPT ![c] = <<>>]

\* What fread() returns of a file, from position p.
Piece(n, p) == SubSeq(Content(n), p + 1, IF p + Room < Size[n] THEN p + Room ELSE Size[n])

\* fread() meets the end of the file only if it wanted more than there was.
fill_in_buffer_from_file(c, h) ==
    LET n == file[h].name
        p == file[h].pos
    IN  /\ buffer' = [buffer EXCEPT ![c] = Piece(n, p)]
        /\ file' = [file EXCEPT ![h].pos = p + Len(Piece(n, p)), ![h].eof = p + Room > Size[n]]

\* Mutant: the FILE is not closed.
Finish_open(c, h) == Await(c) /\ UNCHANGED <<f, file, alive>>

Finish(c, h) ==
    /\ file' = [file EXCEPT ![h] = Closed]
    /\ Await(c)
    /\ UNCHANGED <<f, alive>>

GoOn(c) ==
    \/ /\ f[c] = NULL
       /\ Await(c)
       /\ UNCHANGED <<f, file, alive>>
    \/ /\ f[c] # NULL /\ ~IsOpen(f[c])
       /\ alive' = FALSE
       /\ UNCHANGED <<buffer, f, file, pending, due>>
    \/ /\ f[c] # NULL /\ IsOpen(f[c]) /\ ~file[f[c]].eof
       /\ fill_in_buffer_from_file(c, f[c])
       /\ UNCHANGED <<f, alive, pending, due>>
    \/ /\ f[c] # NULL /\ IsOpen(f[c]) /\ file[f[c]].eof
       /\ Finish(c, f[c])

WriteRest(c) ==
    /\ Rest(c) # <<>>
    /\ Sends(c, Len(Rest(c)))
    /\ n_written' = [n_written EXCEPT ![c] = 0]
    /\ GoOn(c)

do_write(c) == WriteEnd(c) \/ WritePart(c) \/ WriteRest(c)

-----------------------------------------------------------------------------
Callback == do_accept \/ \E c \in Clients : do_read(c) \/ do_write(c) \/ do_timer(c)

Outside ==
    \/ PeerActs /\ UNCHANGED loop_vars
    \/ \E c \in Clients : Expire(c) /\ UNCHANGED net_vars

Dispatch == dispatch /\ UNCHANGED <<conn_vars, file, alive, net_vars>>

(***************************************************************************)
(* In a tame world nobody asks for "/" on a connection that was sent a     *)
(* file before, where f still points at the FILE that was closed.          *)
(***************************************************************************)
Tame == \A c \in Clients : asked[c] = "root" => f[c] = NULL

Next ==
    /\ alive
    /\ \/ Callback
       \/ Dispatch
       \/ Outside /\ UNCHANGED <<conn_vars, file, alive>>
    /\ world.tame => Tame'
    /\ \A c \in Clients : ToSet(inbox'[c]) \subseteq world.sends
    /\ UNCHANGED world

Spec == Init /\ [][Next]_vars

-----------------------------------------------------------------------------
TypeOK ==
    /\ live \subseteq Clients
    /\ \A c \in Clients : n_written[c] \in 0 .. Len(buffer[c]) /\ Len(buffer[c]) <= Room + 1
    /\ f \in [Clients -> Handles \cup {NULL}]
    /\ \A h \in Handles : IsOpen(h) => file[h].name \in Files /\ file[h].pos <= Size[file[h].name]
    /\ keep_alive \in [Clients -> {"some", "zero"}]
    /\ cut \in [Clients -> BOOLEAN] /\ alive \in BOOLEAN /\ world \in Worlds
    /\ asked \in [Clients -> Files \cup Others]
    /\ LoopTypeOK

Pending(c) == {e[1] : e \in {d \in pending : d[2] = c}}
Stranded(c) == c \in live /\ Pending(c) = {}

EventsMatch ==
    \A c \in Clients :
        /\ Pending(c) \in {{}, {"write"}, {"read", "time"}}
        /\ c \notin live => Pending(c) = {}

(***************************************************************************)
(* A connection either waits for a request, with a timer, or is being      *)
(* written to, without one: the timer never cuts an answer short, and no   *)
(* callback is left that would run on a freed fd_state (do_read 142-144,   *)
(* do_write 233-245, free_fd_state).                                       *)
(***************************************************************************)
StaticInv == TypeOK /\ EventsMatch

\* A chunk that ends a request is the next that is received from c.
RequestEnds(c) == inbox[c] # <<>> /\ Head(inbox[c]).what # "part"

(***************************************************************************)
(* The timer that was set when the last answer was sent, or the connection *)
(* accepted, goes on running and stays run out whatever pieces of requests *)
(* arrive; only the end of a request stops it, and then an answer follows, *)
(* but for what is no GET.  That alone leaves a connection without events, *)
(* and so open for good (do_read 134-190, do_write 236-245).               *)
(***************************************************************************)
OnlyRequestsStopTimers ==
    [][\A c \in live \cap live' :
          /\ Timed(c) => \/ Timed(c)' /\ (c \in due => c \in due')
                         \/ RequestEnds(c) /\ ~Timed(c)'
          /\ Stranded(c)' => Stranded(c) \/ asked'[c] = "other"]_vars

(***************************************************************************)
(* A FILE nobody will read any more stays open only when its connection is *)
(* freed in the middle of an answer, or at the end of a file that fills    *)
(* buffer to the last byte, whose end fread() does not see (free_fd_state, *)
(* do_write 204-215).                                                      *)
(***************************************************************************)
Leaked(h) == IsOpen(h) /\ f[file[h].by] # h
Whole(n)  == <<Head200>> \o Content(n)

OnlyCutsLeak ==
    [][\A h \in Handles : Leaked(h)' /\ ~Leaked(h) =>
          LET c == file[h].by
          IN  /\ c \in live \ live'
              /\ out[c] # Whole(file[h].name) \/ Size[file[h].name] % Room = 0]_vars

Answers(what) ==
    IF what \in Files THEN {<<Head404>>, Whole(what)}
    ELSE IF what = "root" THEN {<<Head302>>} ELSE {<<>>}

(***************************************************************************)
(* In a tame world no FILE is used after it is closed, and what a peer     *)
(* gets is the header and the whole file it asked for, or the answer that  *)
(* there is none, however the answer is cut into sends and whatever the    *)
(* other connections do.  (Otherwise the redirection is followed by a read *)
(* from a closed FILE, do_write 228-235, which may be another's by then.)  *)
(***************************************************************************)
AnswersAreWhole ==
    world.tame =>
        /\ alive
        /\ \A c \in live :
              /\ \E a \in Answers(asked[c]) : IsPrefix(out[c], a)
              /\ "read" \in Pending(c) => out[c] \in Answers(asked[c])
=============================================================================
