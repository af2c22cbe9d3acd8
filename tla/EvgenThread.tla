---------------------------- MODULE EvgenThread ----------------------------
(***************************************************************************)
(* evgen/pop3/thread/server2.cpp: main() accepts, and SocketWork runs in a *)
(* thread of its own for every connection, on the shared array u.  A step  *)
(* is one access to u, with the local work around it.                      *)
(*                                                                         *)
(* A line is a word and a name; sscanf leaves alone what a line does not   *)
(* have, so that a blank line repeats the last command, and a command of   *)
(* one word takes the last name.  Lines that do not fit into _buf are not  *)
(* modelled.                                                               *)
(*                                                                         *)
(* Nobody sets numb before USER: a thread starts with what its stack held. *)
(* When the input has ended recv() returns 0 for ever, and the thread goes *)
(* round in its inner loop, which is no step here; only QUIT ends it.      *)
(***************************************************************************)
EXTENDS Integers, FiniteSets

CONSTANTS Threads,   \* the connections, each with its thread
          Users,     \* indices of usr and u
          None,      \* numb = -1
          Lines,     \* what peers may send
          Nothing,   \* an empty word or name, or one that a line does not have
          MaxSock,   \* descriptors left for connections (RLIMIT_NOFILE)
          Orders,    \* the values orderly may have
          Nobody, Lost   \* for Locks

Nik(n)  == <<"nik", n>>
Pass(n) == <<"pass", n>>
Names   == {Nik(n) : n \in Users} \cup {Pass(n) : n \in Users}
Words   == {"USER", "PASS", "LIST", "QUIT"}

ASSUME EvgenThreadAssumption ==
    /\ None \notin Users /\ Nothing \notin Words \cup Names
    /\ MaxSock \in Nat \ {0} /\ Orders \subseteq BOOLEAN
    /\ Lines \subseteq [word : Words \cup {Nothing}, name : Names \cup {Nothing}]

VARIABLES u,       \* u[n]: mailbox n is in use
          numb,    \* the locals of SocketWork
          stage,
          word,
          name,
          pc,      \* where a thread is: "none", "recv", "look", "take", "release"
          said,    \* history: the names the peer has sent
          other,   \* the other end: "up", "closed" or "reset"
          running, \* the process runs
          orderly  \* threads and peers keep order by chance (see Orderly)

locals      == <<numb, stage, word, name>>
thread_vars == <<u, locals, pc, said, other, running, orderly>>

ThreadInit ==
    /\ u = [n \in Users |-> FALSE]
    /\ numb \in [Threads -> {None}] /\ stage \in [Threads -> {0}]
    /\ word \in [Threads -> {Nothing}] /\ name \in [Threads -> {Nothing}]
    /\ pc \in [Threads -> {"none"}] /\ said \in [Threads -> {{}}]
    /\ other \in [Threads -> {"closed"}]
    /\ running = TRUE
    /\ orderly \in Orders

Goto(t, l) == pc' = [pc EXCEPT ![t] = l]

\* send() to a peer that has reset the connection may raise SIGPIPE.
Replies(t) == running' \in (IF other[t] = "reset" THEN BOOLEAN ELSE {TRUE})

-----------------------------------------------------------------------------
Connected == {t \in Threads : pc[t] \notin {"none", "release"}}

\* Mutant: word and name are not cleared, and the stack was used before.
Cleared_not(t) ==
    /\ word' = [word EXCEPT ![t] = Nothing]
    /\ name' \in {[name EXCEPT ![t] = x] : x \in Names}

Cleared(t) ==
    /\ word' = [word EXCEPT ![t] = Nothing]
    /\ name' = [name EXCEPT ![t] = Nothing]

Start(t) ==
    /\ pc[t] = "none"
    /\ Cardinality(Connected) < MaxSock
    /\ stage' = [stage EXCEPT ![t] = 0]
    /\ \E x \in Users \cup {None} : numb' = [numb EXCEPT ![t] = x]
    /\ Cleared(t)
    /\ said' = [said EXCEPT ![t] = {}]
    /\ other' = [other EXCEPT ![t] = "up"]
    /\ Goto(t, "recv")
    /\ UNCHANGED <<u, running>>

\* accept() has no descriptor: exit(3).
AcceptFails ==
    /\ Cardinality(Connected) >= MaxSock
    /\ running' = FALSE
    /\ UNCHANGED <<u, locals, pc, said, other>>

PeerLeaves(t) ==
    /\ t \in Connected /\ other[t] = "up"
    /\ \E how \in {"closed", "reset"} : other' = [other EXCEPT ![t] = how]
    /\ UNCHANGED <<u, locals, pc, said, running>>

-----------------------------------------------------------------------------
(***************************************************************************)
(* A line: what it leaves in word and name decides.                        *)
(***************************************************************************)
Latest(new, old) == IF new = Nothing THEN old ELSE new

Receives(t, line) ==
    /\ pc[t] = "recv" /\ other[t] = "up"
    /\ word' = [word EXCEPT ![t] = Latest(line.word, @)]
    /\ name' = [name EXCEPT ![t] = Latest(line.name, @)]
    /\ said' = [said EXCEPT ![t] = @ \cup ({line.name} \ {Nothing})]
    /\ UNCHANGED other

QUIT(t) ==
    /\ word'[t] = "QUIT"
    /\ Replies(t)
    /\ Goto(t, "release")
    /\ UNCHANGED <<u, numb, stage>>

USER(t) ==
    /\ word'[t] = "USER" /\ stage[t] = 0
    /\ numb' = [numb EXCEPT ![t] = None]
    /\ Goto(t, "look")
    /\ UNCHANGED <<u, stage, running>>

Matches(t, x) == numb[t] \in Users /\ x = Pass(numb[t])

PASS(t) ==
    /\ word'[t] = "PASS" /\ stage[t] = 1
    /\ stage' = IF Matches(t, name'[t]) THEN [stage EXCEPT ![t] = 2] ELSE stage
    /\ Replies(t)
    /\ UNCHANGED <<u, numb, pc>>

\* LIST, and whatever the stage refuses.
Answers(t) ==
    /\ word'[t] # "QUIT"
    /\ word'[t] = "USER" => stage[t] # 0
    /\ word'[t] = "PASS" => stage[t] # 1
    /\ Replies(t)
    /\ UNCHANGED <<u, numb, stage, pc>>

Line(t) ==
    \E line \in Lines :
        /\ Receives(t, line)
        /\ QUIT(t) \/ USER(t) \/ PASS(t) \/ Answers(t)

\* USER: the mailbox is found in use, or there is no such user ...
LookFails(t) ==
    /\ pc[t] = "look"
    /\ \A n \in Users : name[t] = Nik(n) => u[n]
    /\ Replies(t)
    /\ Goto(t, "recv")
    /\ UNCHANGED <<u, locals, said, other>>

\* Mutant: the search for the user does not look at u.
Look_always(t) ==
    /\ pc[t] = "look"
    /\ \E n \in Users : name[t] = Nik(n) /\ numb' = [numb EXCEPT ![t] = n]
    /\ Goto(t, "take")
    /\ UNCHANGED <<u, stage, word, name, said, other, running>>

\* ... or it is found free, ...
Look(t) ==
    /\ pc[t] = "look"
    /\ \E n \in Users : name[t] = Nik(n) /\ ~u[n] /\ numb' = [numb EXCEPT ![t] = n]
    /\ Goto(t, "take")
    /\ UNCHANGED <<u, stage, word, name, said, other, running>>

\* ... and is taken.
Take(t) ==
    /\ pc[t] = "take"
    /\ u' = [u EXCEPT ![numb[t]] = TRUE]
    /\ stage' = [stage EXCEPT ![t] = 1]
    /\ Replies(t)
    /\ Goto(t, "recv")
    /\ UNCHANGED <<numb, word, name, said, other>>

\* Mutant: the mailbox stays in use.
Release_nothing(t) ==
    /\ pc[t] = "release"
    /\ Goto(t, "none")
    /\ UNCHANGED <<u, locals, said, other, running>>

\* The end of QUIT, after the socket is closed.
Release(t) ==
    /\ pc[t] = "release"
    /\ u' = [n \in Users |-> u[n] /\ n # numb[t]]
    /\ Goto(t, "none")
    /\ UNCHANGED <<locals, said, other, running>>

\* recv() returns 0, or -1 and then 0.
Circles(t) == pc[t] = "recv" /\ other[t] # "up" /\ UNCHANGED thread_vars

SocketWork(t) == Line(t) \/ LookFails(t) \/ Look(t) \/ Take(t) \/ Release(t) \/ Circles(t)

(***************************************************************************)
(* The code excludes nothing.  An orderly world is one where it happens    *)
(* that looking and taking, and releasing, never overlap, and that nobody  *)
(* says QUIT before USER has set numb.                                     *)
(***************************************************************************)
Inside(t) == pc[t] \in {"take", "release"}

Orderly ==
    /\ \A s, t \in Threads : Inside(s) /\ Inside(t) => s = t
    /\ \A t \in Threads : word[t] = "QUIT" => stage[t] > 0 \/ numb[t] = None

ThreadNext ==
    /\ running
    /\ \/ \E t \in Threads : Start(t) \/ PeerLeaves(t) \/ SocketWork(t)
       \/ AcceptFails
    /\ orderly => Orderly'
    /\ UNCHANGED orderly

ThreadSpec == ThreadInit /\ [][ThreadNext]_thread_vars

-----------------------------------------------------------------------------
Begun(t)   == pc[t] # "none"
Holders(n) == {t \in Threads : Begun(t) /\ stage[t] > 0 /\ numb[t] = n}

ThreadTypeOK ==
    /\ u \in [Users -> BOOLEAN]
    /\ numb \in [Threads -> Users \cup {None}] /\ stage \in [Threads -> 0 .. 2]
    /\ \A t \in Threads : stage[t] > 0 \/ pc[t] = "take" => numb[t] # None
    /\ word \in [Threads -> Words \cup {Nothing}]
    /\ name \in [Threads -> Names \cup {Nothing}]
    /\ pc \in [Threads -> {"none", "recv", "look", "take", "release"}]
    /\ said \in [Threads -> SUBSET Names]
    /\ other \in [Threads -> {"up", "closed", "reset"}]
    /\ running \in BOOLEAN /\ orderly \in Orders

(***************************************************************************)
(* However lines leave out words, a session has only what its own peer has *)
(* named: the mailbox, and in stage 2 its password.  Nothing of the thread *)
(* whose stack it runs on counts (lines 51-52, 77).                        *)
(***************************************************************************)
OnlyWhatWasSaid ==
    \A t \in Threads : Begun(t) /\ stage[t] > 0 =>
        /\ Nik(numb[t]) \in said[t]
        /\ stage[t] = 2 => Pass(numb[t]) \in said[t]

NoneLost   == \A n \in Users : u[n] => Holders(n) # {}
HeldIsUsed == orderly => \A n \in Users : Holders(n) # {} => u[n]

(***************************************************************************)
(* In every world, however threads overlap and whatever number a QUIT      *)
(* before USER finds on its stack, a mailbox that is in use has a session: *)
(* races give locks up too early (lines 85, 100-113), and lose none.  In   *)
(* an orderly world none is given up for another's QUIT either.            *)
(***************************************************************************)
ThreadInv == ThreadTypeOK /\ NoneLost /\ HeldIsUsed

(***************************************************************************)
(* There the locks are those of Locks: of two sessions that ask for a      *)
(* mailbox one gets it, and only that one gives it up.  (Without order two *)
(* sessions may have one mailbox, line 100, and a QUIT before USER gives   *)
(* up whatever mailbox its stack names, line 85.)                          *)
(***************************************************************************)
Boxes == INSTANCE Locks WITH
    Clients <- Threads,
    Boxes   <- Users,
    holder  <- [n \in Users |-> IF Holders(n) # {} THEN CHOOSE t \in Holders(n) : TRUE
                                ELSE IF u[n] THEN Lost ELSE Nobody]

ImplementsLocks == Boxes!Init /\ [][orderly => Boxes!Step]_thread_vars
=============================================================================
