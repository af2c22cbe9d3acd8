---------------------------- MODULE EvgenMultip ----------------------------
(***************************************************************************)
(* evgen/pop3/multip/server3.cpp: the select loop of main() and            *)
(* process_data, which it calls for a readable session.                    *)
(*                                                                         *)
(* A chunk is EndsLine, when it holds a '\r', or one of Parts; what the     *)
(* line says is any command.  buf counts the chunks of an unfinished line: one more  *)
(* than BufMax is more than the 3000 bytes that are allowed.               *)
(*                                                                         *)
(* A session ends by QUIT, by the end of its input or by a line that is    *)
(* too long.  A connection that cannot be accepted ends the process, and   *)
(* so does SIGPIPE.  QUIT of a session without a mailbox clears u[-1],     *)
(* which in the build is padding that nothing reads.                       *)
(***************************************************************************)
EXTENDS Integers, FiniteSets, SequencesExt

CONSTANTS Clients,    \* the peers
          Listener,   \* the listening descriptor, in readset
          Users,      \* indices of usr and u
          None,       \* numb = -1
          Limits,     \* descriptors that may be left for sessions (RLIMIT_NOFILE)
          BufMax,     \* chunks of a line that it buffers
          Parts,      \* chunks without a '\r'
          EndsLine,   \* the chunk that ends a line
          InboxMax,   \* bound on what a peer sends ahead of the server
          Nobody, Lost   \* for Locks

ASSUME MultipAssumption ==
    /\ Listener \notin Clients /\ None \notin Users
    /\ Limits \subseteq Nat \ {0} /\ BufMax \in Nat /\ InboxMax \in Nat
    /\ EndsLine \notin Parts /\ Lost \notin Clients

VARIABLES u,         \* u[n]: mailbox n is in use
          s_sock,    \* the sessions, in the order of the vector
          numb,      \* param.numb
          stage,     \* param.stage: 0, 1 (USER accepted) or 2 (PASS accepted)
          buf,       \* param.buf
          phase,     \* "select", "accept", "serve"; "dead" after exit or SIGPIPE
          readset,   \* what select found readable
          it,        \* index in s_sock of the serve loop
          peer, backlog, inbox,
          MaxSock    \* the descriptors left for sessions, once and for all

INSTANCE Network WITH Chunks <- Parts \cup {EndsLine}

param_vars == <<numb, stage>>
loop_vars  == <<s_sock, buf, phase, readset, it>>
net_vars   == <<peer, backlog, inbox>>
vars       == <<u, param_vars, loop_vars, net_vars, MaxSock>>

Init ==
    /\ MaxSock \in Limits
    /\ u = [n \in Users |-> FALSE]
    /\ s_sock = <<>> /\ phase = "select" /\ readset = {} /\ it = 1
    /\ numb = [c \in Clients |-> None] /\ stage = [c \in Clients |-> 0]
    /\ buf = [c \in Clients |-> 0]
    /\ NetInit

-----------------------------------------------------------------------------
(***************************************************************************)
(* What process_data does with a line.                                     *)
(***************************************************************************)
\* Mutant: the search for the user does not look at u.
Free_always(n) == TRUE

Free(n) == ~u[n]

USER(c, n) ==
    /\ stage[c] = 0
    /\ Free(n)
    /\ u' = [u EXCEPT ![n] = TRUE]
    /\ numb' = [numb EXCEPT ![c] = n] /\ stage' = [stage EXCEPT ![c] = 1]

\* No such user, or in use.
USER_refused(c) ==
    /\ stage[c] = 0
    /\ numb' = [numb EXCEPT ![c] = None]
    /\ UNCHANGED <<u, stage>>

\* Mutant: PASS is taken in any stage.
PASS_anyStage(c) ==
    /\ stage' = [stage EXCEPT ![c] = @ + 1]
    /\ UNCHANGED <<u, numb>>

PASS(c) ==
    /\ stage[c] = 1
    /\ stage' = [stage EXCEPT ![c] = @ + 1]
    /\ UNCHANGED <<u, numb>>

\* LIST, and whatever is refused.
Answers(c) == UNCHANGED <<u, param_vars>>

Command(c) == (\E n \in Users : USER(c, n)) \/ USER_refused(c) \/ PASS(c) \/ Answers(c)

\* Mutant: QUIT leaves the mailbox in use.
Release_nothing(c) == UNCHANGED u

Release(c) == u' = [n \in Users |-> u[n] /\ n # numb[c]]

-----------------------------------------------------------------------------
(***************************************************************************)
(* The loop of main().                                                     *)
(***************************************************************************)
Peers ==
    /\ phase # "dead"
    /\ PeerActs
    /\ UNCHANGED <<u, param_vars, loop_vars, MaxSock>>

Ready == {c \in ToSet(s_sock) : Readable(c)} \cup (IF backlog = <<>> THEN {} ELSE {Listener})

Select ==
    /\ phase = "select"
    /\ Ready # {}
    /\ readset' = Ready /\ phase' = "accept"
    /\ UNCHANGED <<u, param_vars, s_sock, buf, it, net_vars, MaxSock>>

Replies(c, next) ==
    /\ \E p \in AfterSend(c) : peer' = [peer EXCEPT ![c] = p]
    /\ \E killed \in MayRaise(c) : phase' = IF killed THEN "dead" ELSE next

Accepts ==
    /\ phase = "accept"
    /\ Listener \in readset
    /\ Len(s_sock) < MaxSock
    /\ LET c == Head(backlog)
       IN  /\ numb' = [numb EXCEPT ![c] = None] /\ stage' = [stage EXCEPT ![c] = 0]
           /\ buf' = [buf EXCEPT ![c] = 0]
           /\ s_sock' = Append(s_sock, c)
           /\ Replies(c, "serve")
    /\ backlog' = Tail(backlog)
    /\ UNCHANGED <<u, readset, it, inbox, MaxSock>>

AcceptFails ==
    /\ phase = "accept"
    /\ Listener \in readset
    /\ Len(s_sock) >= MaxSock
    /\ phase' = "dead"
    /\ UNCHANGED <<u, param_vars, s_sock, buf, readset, it, net_vars, MaxSock>>

NothingToAccept ==
    /\ phase = "accept"
    /\ Listener \notin readset
    /\ phase' = "serve"
    /\ UNCHANGED <<u, param_vars, s_sock, buf, readset, it, net_vars, MaxSock>>

Turn(c, i) ==
    /\ phase = "serve"
    /\ i \in it .. Len(s_sock)
    /\ s_sock[i] = c
    /\ c \in readset
    /\ \A j \in it .. i - 1 : s_sock[j] \notin readset

\* close and erase; the successor moves to i, and the loop goes on behind it.
Erase(c, i) ==
    /\ s_sock' = RemoveAt(s_sock, i)
    /\ Hungup(c)

Advance(i) == it' = i + 1

Ended(c) == inbox[c] = <<>> \/ buf[c] = BufMax

\* Mutant: recv() <= 0 is passed over.
ServeEnd_polls(c, i) ==
    /\ Turn(c, i)
    /\ Ended(c)
    /\ Advance(i)
    /\ UNCHANGED <<u, param_vars, s_sock, buf, phase, readset, net_vars, MaxSock>>

\* The end of the input, or too long a line: u is left as it is.
ServeEnd(c, i) ==
    /\ Turn(c, i)
    /\ Ended(c)
    /\ Erase(c, i)
    /\ Advance(i)
    /\ UNCHANGED <<u, param_vars, buf, phase, readset, backlog, MaxSock>>

Receives(c, i, chunks) ==
    /\ Turn(c, i)
    /\ ~Ended(c) /\ Head(inbox[c]) \in chunks
    /\ Advance(i)
    /\ UNCHANGED <<readset, backlog, MaxSock>>

ServePart(c, i) ==
    /\ Receives(c, i, Parts)
    /\ buf' = [buf EXCEPT ![c] = @ + 1]
    /\ inbox' = [inbox EXCEPT ![c] = Tail(@)]
    /\ UNCHANGED <<u, param_vars, s_sock, phase, peer>>

ServeLine(c, i) ==
    /\ Receives(c, i, {EndsLine})
    /\ Command(c)
    /\ buf' = [buf EXCEPT ![c] = 0]
    /\ inbox' = [inbox EXCEPT ![c] = Tail(@)]
    /\ Replies(c, phase)
    /\ UNCHANGED s_sock

ServeQuit(c, i) ==
    /\ Receives(c, i, {EndsLine})
    /\ Release(c)
    /\ Erase(c, i)
    /\ \E killed \in MayRaise(c) : phase' = IF killed THEN "dead" ELSE phase
    /\ UNCHANGED <<param_vars, buf>>

Serve(c) == \E i \in 1 .. Len(s_sock) :
                ServeEnd(c, i) \/ ServePart(c, i) \/ ServeLine(c, i) \/ ServeQuit(c, i)

EndOfPass ==
    /\ phase = "serve"
    /\ \A i \in it .. Len(s_sock) : s_sock[i] \notin readset
    /\ phase' = "select" /\ readset' = {} /\ it' = 1
    /\ UNCHANGED <<u, param_vars, s_sock, buf, net_vars, MaxSock>>

Work ==
    \/ Select \/ Accepts \/ AcceptFails \/ NothingToAccept
    \/ \E c \in Clients : Serve(c)
    \/ EndOfPass

Next == Peers \/ Work

Spec == Init /\ [][Next]_vars

\* The process runs whenever select has something to report.
FairSpec == Spec /\ WF_vars(Work)

-----------------------------------------------------------------------------
Open       == ToSet(s_sock)
Holders(n) == {c \in Open : stage[c] > 0 /\ numb[c] = n}
Dead       == phase = "dead"

TypeOK ==
    /\ u \in [Users -> BOOLEAN]
    /\ s_sock \in Seq(Clients) /\ IsInjective(s_sock) /\ Len(s_sock) <= MaxSock
    /\ MaxSock \in Limits
    /\ numb \in [Clients -> Users \cup {None}] /\ stage \in [Clients -> 0 .. 2]
    /\ \A c \in Open : (stage[c] = 0) <=> (numb[c] = None)
    /\ buf \in [Clients -> 0 .. BufMax]
    /\ phase \in {"select", "accept", "serve", "dead"}
    /\ readset \subseteq Clients \cup {Listener}
    /\ it \in 1 .. MaxSock + 2
    /\ NetTypeOK

(***************************************************************************)
(* The locks are those of Locks: a mailbox has at most one session between *)
(* USER and its end, no session releases the mailbox of another, and one   *)
(* whose session ended without QUIT is never given to anybody again.       *)
(***************************************************************************)
Boxes == INSTANCE Locks WITH
    Boxes  <- Users,
    holder <- [n \in Users |-> IF Holders(n) # {} THEN CHOOSE c \in Holders(n) : TRUE
                               ELSE IF u[n] THEN Lost ELSE Nobody]

ImplementsLocks == Boxes!Spec

(***************************************************************************)
(* A session that is closed leaves its lock behind exactly when its input  *)
(* had ended, or its line was too long (lines 59-63).  QUIT always         *)
(* releases (line 90), however the reply to it fares.                      *)
(***************************************************************************)
EndsLeak ==
    [][\A n \in Users : \A c \in Holders(n) :
          c \notin Open' => (u'[n] <=> inbox[c] = <<>> \/ buf[c] = BufMax)]_vars

(***************************************************************************)
(* Nobody waits for ever, in the backlog or, gone, for the end of its      *)
(* session: passes end, the loop comes to every session again and again    *)
(* although it passes over the successor of one it erases, and a full      *)
(* table ends the process instead of the service.                          *)
(***************************************************************************)
Waits(c) == c \in ToSet(backlog) \/ (c \in Open /\ Departed(c))

NobodyWaits == \A c \in Clients : Waits(c) ~> ~Waits(c) \/ Dead
=============================================================================
