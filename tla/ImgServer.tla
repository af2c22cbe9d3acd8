----------------------------- MODULE ImgServer -----------------------------
(***************************************************************************)
(* evgen/http/evhttp/http_serv.cpp: one callback on libevent's HTTP server *)
(* that answers /img?name=<file>, and the descriptor table of the process. *)
(* Line 52 reads fd=open(fname,O_RDONLY)<0, so fd is 0 when open succeeds  *)
(* and 1 when it fails: the file is open under a number nobody keeps,      *)
(* while descriptors 0 and 1 are read and closed.  A descriptor number     *)
(* closed here may still be the number libevent holds for a connection.    *)
(***************************************************************************)
EXTENDS Naturals, FiniteSets, FiniteSetsExt

CONSTANTS Conns,     \* connections of peers
          Images,    \* names of files that exist
          Dirs,      \* names of directories: open succeeds, read fails
          Missing,   \* a name no file has
          NoName,    \* a request without the parameter name
          Empty,     \* a body without bytes
          Std,       \* stdin, stdout, stderr, libevent's own descriptors
          Free,      \* no descriptor
          LastFd     \* bound on descriptor numbers

ASSUME ImgAssumption ==
    /\ LastFd \in Nat /\ LastFd >= 2
    /\ Cardinality({Missing, NoName, Empty, Std, Free}) = 5
    /\ {Missing, NoName, Empty, Std, Free} \cap (Conns \cup Images \cup Dirs) = {}
    /\ Conns \cap (Images \cup Dirs) = {} /\ Images \cap Dirs = {}

VARIABLES table,    \* what each descriptor number refers to
          conn,     \* the number libevent holds for each of its connections
          asked,    \* what a peer asks for and has no answer to
          queued    \* the reply in a connection's output buffer, and what it answers

img_vars == <<table, conn, asked, queued>>

Numbers == 0 .. LastFd
Named   == Images \cup Dirs \cup {Missing, NoName}
ReplySet == [status : {200, 400, 404}, body : Images \cup {Empty}, name : Named]

(***************************************************************************)
(* The process starts with descriptors 0 to 2 open; stdin has no size, as  *)
(* that of a terminal.                                                     *)
(***************************************************************************)
ImgInit ==
    /\ table = [n \in Numbers |-> IF n <= 2 THEN Std ELSE Free]
    /\ conn = [c \in Conns |-> Free]
    /\ asked = [c \in Conns |-> Free]
    /\ queued = [c \in Conns |-> Free]

Unused == {n \in Numbers : table[n] = Free}
Freed(t, n) == [t EXCEPT ![n] = Free]

-----------------------------------------------------------------------------
(* libevent and the peers *)

Accept(c) ==
    /\ conn[c] = Free /\ c \notin {table[n] : n \in Numbers} /\ Unused # {}
    /\ table' = [table EXCEPT ![Min(Unused)] = c]
    /\ conn' = [conn EXCEPT ![c] = Min(Unused)]
    /\ asked' = [asked EXCEPT ![c] = Free]
    /\ UNCHANGED queued

Ask(c) ==
    /\ c \in {table[n] : n \in Numbers} /\ asked[c] = Free
    /\ \E name \in Named : asked' = [asked EXCEPT ![c] = name]
    /\ UNCHANGED <<table, conn, queued>>

\* Who is behind the number that libevent holds for c.
Behind(c) == table[conn[c]]

\* The reply of c can be written, and so reaches the peer that is behind its number.
Reaches(c) == queued[c] # Free /\ conn[c] # Free /\ Behind(c) \in Conns

\* The reply is written to whatever has the number now, and may end the connection.
Send(c) ==
    /\ queued[c] # Free /\ conn[c] # Free
    /\ asked' = IF Reaches(c) THEN [asked EXCEPT ![Behind(c)] = Free] ELSE asked
    /\ \/ /\ table' = Freed(table, conn[c])
          /\ conn' = [conn EXCEPT ![c] = Free]
       \/ Reaches(c) /\ UNCHANGED <<table, conn>>
    /\ queued' = [queued EXCEPT ![c] = Free]

\* The peer behind the number has gone: libevent closes its connection.
Gone(c) ==
    /\ conn[c] # Free
    /\ Behind(c) \in Conns
    /\ table' = Freed(table, conn[c])
    /\ conn' = [conn EXCEPT ![c] = Free]
    /\ queued' = [queued EXCEPT ![c] = Free]
    /\ asked' = [asked EXCEPT ![Behind(c)] = Free]

-----------------------------------------------------------------------------
(* The callback *)

Opens(name) == name \in Images \cup Dirs /\ Unused # {}

fd(name) == IF Opens(name) THEN 0 ELSE 1

AfterOpen(name) == IF Opens(name) THEN [table EXCEPT ![Min(Unused)] = name] ELSE table

Reply(c, status, body, name) ==
    queued' = [queued EXCEPT ![c] = [status |-> status, body |-> body, name |-> name]]

BadRequest(c, name) ==
    /\ name = NoName
    /\ Reply(c, 400, Empty, name)
    /\ UNCHANGED table

\* Also when reading fails, as it does from a directory.
NotFound(c, name) ==
    /\ name # NoName
    /\ fd(name) = 1 \/ AfterOpen(name)[0] \in {Free} \cup Dirs
    /\ Reply(c, 404, Empty, name)
    /\ table' = Freed(AfterOpen(name), fd(name))

\* Mutant: close is forgotten on the way out of a file that was read.
Ok_leaves(c, name) ==
    /\ name # NoName /\ fd(name) = 0 /\ AfterOpen(name)[0] \notin {Free} \cup Dirs
    /\ Reply(c, 200, IF AfterOpen(name)[0] \in Images THEN AfterOpen(name)[0] ELSE Empty, name)
    /\ table' = IF AfterOpen(name)[0] \in Images THEN AfterOpen(name) ELSE Freed(AfterOpen(name), 0)

\* Mutant: the descriptor of the connection is closed with the file.
Ok_closesConnection(c, name) ==
    /\ name # NoName /\ fd(name) = 0 /\ AfterOpen(name)[0] \notin {Free} \cup Dirs
    /\ Reply(c, 200, IF AfterOpen(name)[0] \in Images THEN AfterOpen(name)[0] ELSE Empty, name)
    /\ table' = Freed(Freed(AfterOpen(name), fd(name)), conn[c])

\* fstat and the reads are of descriptor 0; a terminal or a socket has size 0.
Ok(c, name) ==
    /\ name # NoName /\ fd(name) = 0 /\ AfterOpen(name)[0] \notin {Free} \cup Dirs
    /\ Reply(c, 200, IF AfterOpen(name)[0] \in Images THEN AfterOpen(name)[0] ELSE Empty, name)
    /\ table' = Freed(AfterOpen(name), fd(name))

\* The request libevent reads for c is that of the peer behind c's number.
http_img_cb(c) ==
    /\ conn[c] # Free /\ queued[c] = Free
    /\ Behind(c) \in Conns /\ asked[Behind(c)] # Free
    /\ LET name == asked[Behind(c)]
       IN  BadRequest(c, name) \/ NotFound(c, name) \/ Ok(c, name)
    /\ UNCHANGED <<conn, asked>>

ImgNext == \E c \in Conns : Accept(c) \/ Ask(c) \/ Send(c) \/ Gone(c) \/ http_img_cb(c)

ImgSpec == ImgInit /\ [][ImgNext]_img_vars

-----------------------------------------------------------------------------
ImgTypeOK ==
    /\ table \in [Numbers -> Conns \cup Images \cup Dirs \cup {Std, Free}]
    /\ conn \in [Conns -> Numbers \cup {Free}]
    /\ asked \in [Conns -> Named \cup {Free}]
    /\ queued \in [Conns -> ReplySet \cup {Free}]

(***************************************************************************)
(* A reply that can be written carries the file its request named, or      *)
(* nothing, although the callback always reads descriptor 0 (lines 57-75); *)
(* and a peer whose number is above 1 is behind its own connection, and    *)
(* gets the reply to what it asked for and still waits for.  A peer on 0   *)
(* or 1 may get the reply to another, whose number the callback closed     *)
(* under libevent (lines 58 and 103).                                      *)
(***************************************************************************)
OwnReplies ==
    \A c \in Conns : Reaches(c) =>
        /\ queued[c].body \in {queued[c].name, Empty}
        /\ conn[c] >= 2 => Behind(c) = c /\ queued[c].name = asked[c]

(***************************************************************************)
(* The connections whose number the callback may close by mistake are      *)
(* those accepted on 0 or 1, when those were free: every other one keeps   *)
(* its descriptor until libevent closes it.                                *)
(***************************************************************************)
HighConnectionsSurvive ==
    \A c \in Conns : conn[c] # Free /\ conn[c] >= 2 => table[conn[c]] = c

\* The invariant of the run: the types and the survival of the high connections.
ImgInv == ImgTypeOK /\ HighConnectionsSurvive
=============================================================================
