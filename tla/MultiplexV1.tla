---------------------------- MODULE MultiplexV1 ----------------------------
(***************************************************************************)
(* flavik/pop3/multiplex/v1.0/server.cpp: the select loop of main() and    *)
(* string_handler, which it calls with a line.                             *)
(*                                                                         *)
(* recv() takes up to MAXDATARECV bytes.  A chunk is their number, when no *)
(* line ends in them, or EndsLine, when they hold a '\r' '\n' (what        *)
(* follows it in the chunk is dropped); what the line says is any command. *)
(* STAT, LIST, RETR and every refusal leave the session as it is.          *)
(*                                                                         *)
(* A session ends by QUIT, or after MaxErrors + 1 lines that are too long; *)
(* the end of its input is nothing to the loop, which polls for ever.      *)
(* The byte behind a full buf is the low byte of cntwrcmd.                 *)
(***************************************************************************)
EXTENDS Erasing, SequencesExt

CONSTANTS Clients,      \* the peers
          Listener,     \* the listening descriptor, in readset
          Limits,       \* descriptors that may be left for sessions (RLIMIT_NOFILE)
          MAXUSERS,     \* number of mailboxes
          MaxMessages,  \* the messages mailbox 0 has at the start, the others have none
          MAXDATASIZE,  \* size of buf
          MAXDATARECV,  \* most bytes recv() takes
          MaxErrors,    \* errors a session may make: 7
          EndsLine,     \* the chunk that ends a line
          Sizes,        \* the other chunks: how many bytes they have
          InboxMax,     \* bound on what a peer sends ahead of the server
          Nobody, Lost  \* for Locks

ASSUME V1Assumption ==
    /\ Listener \notin Clients /\ Limits \subseteq Nat \ {0}
    /\ MAXUSERS \in Nat \ {0} /\ MaxMessages \in Nat
    /\ MAXDATARECV \in Nat \ {0} /\ MAXDATASIZE \in Nat /\ MAXDATASIZE >= MAXDATARECV
    /\ MaxErrors \in 0 .. 254 /\ InboxMax \in Nat
    /\ Sizes \subseteq 1 .. MAXDATARECV /\ EndsLine \notin Sizes
    /\ Lost \notin Clients

Users == 0 .. MAXUSERS - 1

VARIABLES used,       \* Massive[u].used
          messages,   \* Massive[u].messages
          clients,    \* the sessions, in the order of the vector
          user,       \* ClientInfo.user
          state,      \* ClientInfo.state
          buf,        \* strlen(ClientInfo.buf)
          cntwrcmd,   \* ClientInfo.cntwrcmd
          phase,      \* "select", "accept", "serve", or "dead" after SIGPIPE
          readset,    \* what select found readable
          it,         \* index in clients of the serve loop
          peer, backlog, inbox,
          MaxSock     \* the descriptors left for sessions, once and for all

INSTANCE Network WITH Chunks <- Sizes \cup {EndsLine}

mail_vars   == <<used, messages>>
info_vars   == <<user, state>>
server_vars == <<clients, buf, cntwrcmd, phase, readset, it>>
net_vars    == <<peer, backlog, inbox>>
vars        == <<mail_vars, info_vars, server_vars, net_vars, MaxSock>>

\* main() gives each mailbox two or three messages, and sessions empty them: here
\* only the first has any, since mailboxes share nothing but their sessions.
Stored(u) == IF u = 0 THEN MaxMessages ELSE 0

Init ==
    /\ MaxSock \in Limits
    /\ used = [u \in Users |-> FALSE]
    /\ messages = [u \in Users |-> [k \in 1 .. Stored(u) |-> [st |-> k, del |-> FALSE]]]
    /\ user = [c \in Clients |-> -1]
    /\ state = [c \in Clients |-> "UPDATE"]
    /\ clients = <<>> /\ phase = "select" /\ readset = {} /\ it = 1
    /\ buf = [c \in Clients |-> 0] /\ cntwrcmd = [c \in Clients |-> 0]
    /\ NetInit

-----------------------------------------------------------------------------
(***************************************************************************)
(* string_handler.  The second login() of USER finds the mailbox as the    *)
(* first did: nothing runs in between.                                     *)
(***************************************************************************)
\* Mutant: login() does not look at used.
Free_always(n) == TRUE

Free(n) == ~used[n]

USER(c, n) ==
    /\ state[c] = "AUTHORIZATION"
    /\ Free(n)
    /\ used' = [u \in Users |-> u = n \/ (used[u] /\ u # user[c])]
    /\ user' = [user EXCEPT ![c] = n]
    /\ UNCHANGED <<messages, state>>

PASS(c) ==
    /\ state[c] = "AUTHORIZATION"
    /\ user[c] # -1
    /\ state' = [state EXCEPT ![c] = "TRANSACTION"]
    /\ UNCHANGED <<mail_vars, user>>

DELE(c, k) ==
    /\ state[c] = "TRANSACTION"
    /\ k \in DOMAIN messages[user[c]]
    /\ messages' = [messages EXCEPT ![user[c]][k].del = TRUE]
    /\ UNCHANGED <<used, info_vars>>

Unlabelled(s)    == [k \in DOMAIN s |-> [s[k] EXCEPT !.del = FALSE]]
updatemailbox(s) == Kept(s)

RSET(c) ==
    /\ state[c] = "TRANSACTION"
    /\ messages' = [messages EXCEPT ![user[c]] = Unlabelled(@)]
    /\ UNCHANGED <<used, info_vars>>

\* Mutants: the mailbox is not updated; it is not released.
Leave_noUpdate(c) ==
    IF user[c] = -1 THEN UNCHANGED mail_vars
    ELSE used' = [used EXCEPT ![user[c]] = FALSE] /\ UNCHANGED messages
Leave_noRelease(c) ==
    IF user[c] = -1 THEN UNCHANGED mail_vars
    ELSE messages' = [messages EXCEPT ![user[c]] = updatemailbox(@)] /\ UNCHANGED used

Leave(c) ==
    IF user[c] = -1 THEN UNCHANGED mail_vars
    ELSE /\ used' = [used EXCEPT ![user[c]] = FALSE]
         /\ messages' = [messages EXCEPT ![user[c]] = updatemailbox(@)]

QUIT(c) ==
    /\ state[c] \in {"AUTHORIZATION", "TRANSACTION"}
    /\ state' = [state EXCEPT ![c] = "UPDATE"]
    /\ Leave(c)
    /\ UNCHANGED user

string_handler(c) ==
    \/ \E n \in Users : USER(c, n)
    \/ PASS(c)
    \/ \E k \in 1 .. MaxMessages : DELE(c, k)
    \/ RSET(c)
    \/ QUIT(c)
    \/ UNCHANGED <<mail_vars, info_vars>>

-----------------------------------------------------------------------------
(***************************************************************************)
(* The loop of main().                                                     *)
(***************************************************************************)
Peers ==
    /\ phase # "dead"
    /\ PeerActs
    /\ UNCHANGED <<mail_vars, info_vars, server_vars, MaxSock>>

\* select with a timeout of 0: it reports what is ready and never waits.
Select ==
    /\ phase = "select"
    /\ readset' = {c \in ToSet(clients) : Readable(c)} \cup
                  (IF backlog = <<>> THEN {} ELSE {Listener})
    /\ phase' = "accept"
    /\ UNCHANGED <<mail_vars, info_vars, clients, buf, cntwrcmd, it, net_vars, MaxSock>>

Sends(c) ==
    /\ \E p \in AfterSend(c) : peer' = [peer EXCEPT ![c] = p]
    /\ \E killed \in MayRaise(c) : phase' = IF killed THEN "dead" ELSE "serve"

Accept ==
    /\ phase = "accept"
    /\ Listener \in readset
    /\ Len(clients) < MaxSock
    /\ LET c == Head(backlog)
       IN  /\ user' = [user EXCEPT ![c] = -1]
           /\ state' = [state EXCEPT ![c] = "AUTHORIZATION"]
           /\ buf' = [buf EXCEPT ![c] = 0]
           /\ cntwrcmd' = [cntwrcmd EXCEPT ![c] = 0]
           /\ clients' = Append(clients, c)
           /\ Sends(c)
    /\ backlog' = Tail(backlog)
    /\ UNCHANGED <<mail_vars, readset, it, inbox, MaxSock>>

\* accept fails: the pass is abandoned.
AcceptFails ==
    /\ phase = "accept"
    /\ Listener \in readset
    /\ Len(clients) >= MaxSock
    /\ phase' = "select" /\ readset' = {}
    /\ UNCHANGED <<mail_vars, info_vars, clients, buf, cntwrcmd, it, net_vars, MaxSock>>

NothingToAccept ==
    /\ phase = "accept"
    /\ Listener \notin readset
    /\ phase' = "serve"
    /\ UNCHANGED <<mail_vars, info_vars, clients, buf, cntwrcmd, readset, it, net_vars, MaxSock>>

Turn(c, i) ==
    /\ phase = "serve"
    /\ i \in it .. Len(clients)
    /\ clients[i] = c
    /\ c \in readset
    /\ \A j \in it .. i - 1 : clients[j] \notin readset

(***************************************************************************)
(* close and erase: it steps back first, so the loop goes on with the      *)
(* successor.                                                              *)
(***************************************************************************)
\* Mutant: it does not step back, and the successor is passed over.
Erase_skips(c, i) ==
    /\ clients' = RemoveAt(clients, i)
    /\ Hungup(c)
    /\ it' = i + 1

Erase(c, i) ==
    /\ clients' = RemoveAt(clients, i)
    /\ Hungup(c)
    /\ it' = i

Full(c) == buf[c] + MAXDATARECV > MAXDATASIZE

\* A line that leaves no room is forgotten and counted; recv is not called.
ServeTooLong(c, i) ==
    /\ Turn(c, i)
    /\ Full(c)
    /\ buf' = [buf EXCEPT ![c] = 0]
    /\ cntwrcmd' = [cntwrcmd EXCEPT ![c] = @ + 1]
    /\ \E killed \in MayRaise(c) : phase' = IF killed THEN "dead" ELSE phase
    /\ \/ cntwrcmd[c] + 1 > MaxErrors /\ Erase(c, i)
       \/ /\ cntwrcmd[c] + 1 <= MaxErrors
          /\ \E p \in AfterSend(c) : peer' = [peer EXCEPT ![c] = p]
          /\ it' = i + 1
          /\ UNCHANGED <<clients, inbox>>
    /\ UNCHANGED <<mail_vars, info_vars, readset, backlog, MaxSock>>

\* recv() returns 0 or -1: the loop goes on with the next session.
ServeEnd(c, i) ==
    /\ Turn(c, i)
    /\ ~Full(c) /\ inbox[c] = <<>>
    /\ it' = i + 1
    /\ UNCHANGED <<mail_vars, info_vars, clients, buf, cntwrcmd, phase, readset, net_vars, MaxSock>>

\* The '\0' behind the bytes received; behind a full buf it clears cntwrcmd.
Terminated(c, l) ==
    cntwrcmd' = [cntwrcmd EXCEPT ![c] = IF l = MAXDATASIZE THEN 0 ELSE @]

ServePart(c, i) ==
    /\ Turn(c, i)
    /\ ~Full(c) /\ inbox[c] # <<>> /\ Head(inbox[c]) \in Sizes
    /\ LET l == buf[c] + Head(inbox[c])
       IN  buf' = [buf EXCEPT ![c] = l] /\ Terminated(c, l)
    /\ inbox' = [inbox EXCEPT ![c] = Tail(@)]
    /\ it' = i + 1
    /\ UNCHANGED <<mail_vars, info_vars, clients, phase, readset, peer, backlog, MaxSock>>

ServeLine(c, i) ==
    /\ Turn(c, i)
    /\ ~Full(c) /\ inbox[c] # <<>> /\ Head(inbox[c]) = EndsLine
    /\ string_handler(c)
    /\ buf' = [buf EXCEPT ![c] = 0]
    /\ \E killed \in MayRaise(c) : phase' = IF killed THEN "dead" ELSE phase
    /\ \/ state'[c] = "UPDATE" /\ Erase(c, i)
       \/ /\ state'[c] # "UPDATE"
          /\ \E p \in AfterSend(c) : peer' = [peer EXCEPT ![c] = p]
          /\ inbox' = [inbox EXCEPT ![c] = Tail(@)]
          /\ it' = i + 1
          /\ UNCHANGED clients
    /\ UNCHANGED <<cntwrcmd, readset, backlog, MaxSock>>

Serve(c, i) == ServeTooLong(c, i) \/ ServeEnd(c, i) \/ ServePart(c, i) \/ ServeLine(c, i)

EndOfPass ==
    /\ phase = "serve"
    /\ \A i \in it .. Len(clients) : clients[i] \notin readset
    /\ phase' = "select" /\ readset' = {} /\ it' = 1
    /\ UNCHANGED <<mail_vars, info_vars, clients, buf, cntwrcmd, net_vars, MaxSock>>

Next ==
    \/ Peers
    \/ Select \/ Accept \/ AcceptFails \/ NothingToAccept
    \/ \E c \in Clients : \E i \in 1 .. Len(clients) : Serve(c, i)
    \/ EndOfPass

Spec == Init /\ [][Next]_vars

-----------------------------------------------------------------------------
Open       == ToSet(clients)
Holders(u) == {c \in Open : user[c] = u}

TypeOK ==
    /\ used \in [Users -> BOOLEAN]
    /\ \A u \in Users : \A k \in DOMAIN messages[u] : messages[u][k].st \in 1 .. MaxMessages
    /\ user \in [Clients -> Users \cup {-1}]
    /\ state \in [Clients -> {"AUTHORIZATION", "TRANSACTION", "UPDATE"}]
    /\ clients \in Seq(Clients) /\ IsInjective(clients) /\ Len(clients) <= MaxSock
    /\ MaxSock \in Limits
    /\ buf \in [Clients -> 0 .. MAXDATASIZE]
    /\ cntwrcmd \in [Clients -> 0 .. MaxErrors + 1]
    /\ phase \in {"select", "accept", "serve", "dead"}
    /\ readset \subseteq Clients \cup {Listener}
    /\ it \in 1 .. MaxSock + 1
    /\ NetTypeOK

OneHolder ==
    \A u \in Users :
        /\ \A c, d \in Holders(u) : c = d
        /\ Holders(u) # {} => used[u]

FreeIsUnmarked ==
    \A u \in Users : ~used[u] => \A k \in DOMAIN messages[u] : ~messages[u][k].del

(***************************************************************************)
(* A mailbox has at most one session, and it is locked while it has one;   *)
(* one that is free has no mark left, so nobody erases what an earlier     *)
(* session marked (USER, QUIT and lines 605-610).                          *)
(***************************************************************************)
V1Inv == TypeOK /\ OneHolder /\ FreeIsUnmarked

(***************************************************************************)
(* The locks are those of Locks; USER gives up the mailbox named before in *)
(* the step that takes the new one (lines 262-297), and the lock of a      *)
(* session that was closed for its errors is lost.                         *)
(***************************************************************************)
Boxes == INSTANCE Locks WITH
    Boxes  <- Users,
    holder <- [u \in Users |-> IF Holders(u) # {} THEN CHOOSE c \in Holders(u) : TRUE
                               ELSE IF used[u] THEN Lost ELSE Nobody]

ImplementsLocks == Boxes!Spec

(***************************************************************************)
(* A lock outlives its session only when the loop closes the session for   *)
(* its errors (lines 789-794): then nothing is erased and nobody releases  *)
(* the mailbox.  Nothing else that happens to a session ends it without    *)
(* releasing its mailbox: recv() == 0 is an empty chunk (lines 798-829),   *)
(* and the session of a peer that has gone stays.                          *)
(***************************************************************************)
OnlyErrorsLeak ==
    [][\A u \in Users : \A c \in Holders(u) :
          c \notin Open' /\ used'[u] =>
              /\ cntwrcmd[c] = MaxErrors /\ Full(c)
              /\ messages'[u] = messages[u]]_vars

(***************************************************************************)
(* A step of the serve loop disposes of one session that select reported,  *)
(* at most: erasing one never makes the loop pass over another.            *)
(***************************************************************************)
Pending == {c \in readset : \E i \in it .. Len(clients) : clients[i] = c}

NobodyIsSkipped ==
    [][phase = "serve" /\ phase' = "serve" => Cardinality(Pending \ Pending') <= 1]_vars

=============================================================================
