---------------------------- MODULE ThreadedPop3 ----------------------------
(***************************************************************************)
(* flavik/pop3/multhread/v1.0/server.cpp: one thread per connection        *)
(* (ThreadSock), all of them reading and writing the shared Massive with   *)
(* no lock of their own.                                                   *)
(*                                                                         *)
(* Each read and each write of a shared flag `used` is a step.  login() is *)
(* called twice by USER: the first call may take the mailbox, the second   *)
(* is meant only to find out that the first one failed because it was in   *)
(* use, and takes it too if it was released in between; its 1 is ignored.  *)
(* DELE, RSET and updatemailbox() are one step each: two threads inside    *)
(* one vector at once is undefined behaviour and outside this model.       *)
(* STAT, LIST and RETR change nothing, and so do refused commands.         *)
(*                                                                         *)
(* The main thread creates threads and nothing stops one: a peer that has  *)
(* gone makes recv() return 0, which is answered like an unknown command   *)
(* until the peer resets the connection; then recv() fails and calls       *)
(* exit(1), or send() raises SIGPIPE: every session ends with the process. *)
(***************************************************************************)
EXTENDS Erasing, SequencesExt

CONSTANTS Threads,      \* the connections, each with its thread
          Nobody,       \* the owner of a free mailbox, for Maildrop
          MAXUSERS,     \* number of mailboxes
          MaxMessages,  \* messages in each at the start
          Worlds        \* the values serial may have

ASSUME ThreadsAssumption ==
    /\ Nobody \notin Threads /\ MAXUSERS \in Nat \ {0} /\ MaxMessages \in Nat
    /\ Worlds \subseteq BOOLEAN

Users == 0 .. MAXUSERS - 1

VARIABLES used,       \* Massive[u].used
          messages,   \* Massive[u].messages
          User,       \* the local User of a thread
          State,      \* the local State of a thread
          pc,         \* where a thread is
          name,       \* index of the mailbox USER asks for
          peer,       \* the other end: "up", "closed" or "reset"
          alive,      \* the process runs
          serial      \* the sections that touch used exclude each other (see Serial)

vars == <<used, messages, User, State, pc, name, peer, alive, serial>>

Init ==
    /\ used = [u \in Users |-> FALSE]
    /\ messages = [u \in Users |-> [k \in 1 .. MaxMessages |-> [st |-> k, del |-> FALSE]]]
    /\ User = [t \in Threads |-> -1]
    /\ State = [t \in Threads |-> "AUTHORIZATION"]
    /\ pc = [t \in Threads |-> "none"]
    /\ name = [t \in Threads |-> -1]
    /\ peer = [t \in Threads |-> "closed"]
    /\ alive = TRUE
    /\ serial \in Worlds

Goto(t, l) == pc' = [pc EXCEPT ![t] = l]

-----------------------------------------------------------------------------
(***************************************************************************)
(* main() accepts and creates a thread, with new locals.                   *)
(***************************************************************************)
StartThread(t) ==
    /\ pc[t] = "none"
    /\ User' = [User EXCEPT ![t] = -1]
    /\ State' = [State EXCEPT ![t] = "AUTHORIZATION"]
    /\ peer' = [peer EXCEPT ![t] = "up"]
    /\ name' = [name EXCEPT ![t] = -1]
    /\ Goto(t, "recv")
    /\ UNCHANGED <<used, messages, alive>>

PeerLeaves(t) ==
    /\ pc[t] # "none" /\ peer[t] = "up"
    /\ \E how \in {"closed", "reset"} : peer' = [peer EXCEPT ![t] = how]
    /\ UNCHANGED <<used, messages, User, State, pc, name, alive>>

Receives(t, s) == pc[t] = "recv" /\ peer[t] = "up" /\ State[t] = s

RecvEnd(t) ==
    /\ pc[t] = "recv"
    /\ \/ /\ peer[t] = "closed"
          /\ \E how \in {"closed", "reset"} : peer' = [peer EXCEPT ![t] = how]
          /\ UNCHANGED alive
       \/ /\ peer[t] = "reset"
          /\ alive' = FALSE
          /\ UNCHANGED peer
    /\ UNCHANGED <<used, messages, User, State, pc, name>>

-----------------------------------------------------------------------------
(***************************************************************************)
(* USER n: first login(), read and write of used; then unused() of the     *)
(* mailbox held before.                                                    *)
(***************************************************************************)
USER(t, n) ==
    /\ Receives(t, "AUTHORIZATION")
    /\ name' = [name EXCEPT ![t] = n]
    /\ Goto(t, "login")
    /\ UNCHANGED <<used, messages, User, State, peer, alive>>

Login(t) ==
    /\ pc[t] = "login"
    /\ Goto(t, IF used[name[t]] THEN "relogin" ELSE "take")
    /\ UNCHANGED <<used, messages, User, State, name, peer, alive>>

\* Mutant: the mailbox held before is not released.
Take_keepsOld(t) ==
    /\ pc[t] = "take"
    /\ used' = [used EXCEPT ![name[t]] = TRUE]
    /\ User' = [User EXCEPT ![t] = name[t]]
    /\ Goto(t, "recv")
    /\ UNCHANGED <<messages, State, name, peer, alive>>

Take(t) ==
    /\ pc[t] = "take"
    /\ used' = [used EXCEPT ![name[t]] = TRUE]
    /\ \/ /\ User[t] = -1
          /\ User' = [User EXCEPT ![t] = name[t]]
          /\ Goto(t, "recv")
       \/ /\ User[t] # -1
          /\ Goto(t, "giveup")
          /\ UNCHANGED User
    /\ UNCHANGED <<messages, State, name, peer, alive>>

GiveUp(t) ==
    /\ pc[t] = "giveup"
    /\ used' = [used EXCEPT ![User[t]] = FALSE]
    /\ User' = [User EXCEPT ![t] = name[t]]
    /\ Goto(t, "recv")
    /\ UNCHANGED <<messages, State, name, peer, alive>>

\* The second login().
Relogin(t) ==
    /\ pc[t] = "relogin"
    /\ Goto(t, IF used[name[t]] THEN "recv" ELSE "retake")
    /\ UNCHANGED <<used, messages, User, State, name, peer, alive>>

Retake(t) ==
    /\ pc[t] = "retake"
    /\ used' = [used EXCEPT ![name[t]] = TRUE]
    /\ Goto(t, "recv")
    /\ UNCHANGED <<messages, User, State, name, peer, alive>>

PASS(t, n) ==
    /\ Receives(t, "AUTHORIZATION")
    /\ User[t] # -1 /\ User[t] = n
    /\ State' = [State EXCEPT ![t] = "TRANSACTION"]
    /\ UNCHANGED <<used, messages, User, pc, name, peer, alive>>

DELE(t, k) ==
    /\ Receives(t, "TRANSACTION")
    /\ k \in DOMAIN messages[User[t]]
    /\ messages' = [messages EXCEPT ![User[t]][k].del = TRUE]
    /\ UNCHANGED <<used, User, State, pc, name, peer, alive>>

Unlabelled(s)    == [k \in DOMAIN s |-> [s[k] EXCEPT !.del = FALSE]]
updatemailbox(s) == Kept(s)

RSET(t) ==
    /\ Receives(t, "TRANSACTION")
    /\ messages' = [messages EXCEPT ![User[t]] = Unlabelled(@)]
    /\ UNCHANGED <<used, User, State, pc, name, peer, alive>>

(***************************************************************************)
(* QUIT closes the socket, then updates the mailbox, then releases it.     *)
(***************************************************************************)
QUIT(t) ==
    /\ \E s \in {"AUTHORIZATION", "TRANSACTION"} : Receives(t, s)
    /\ State' = [State EXCEPT ![t] = "UPDATE"]
    /\ Goto(t, IF User[t] = -1 THEN "none" ELSE "update")
    /\ peer' = [peer EXCEPT ![t] = "closed"]
    /\ UNCHANGED <<used, messages, User, name, alive>>

\* Mutant: the marked messages stay.
Update_nothing(t) ==
    /\ pc[t] = "update"
    /\ Goto(t, "release")
    /\ UNCHANGED <<used, messages, User, State, name, peer, alive>>

Update(t) ==
    /\ pc[t] = "update"
    /\ messages' = [messages EXCEPT ![User[t]] = updatemailbox(@)]
    /\ Goto(t, "release")
    /\ UNCHANGED <<used, User, State, name, peer, alive>>

\* Mutant: the mailbox USER named last is released, not the one it gave.
Release_named(t) ==
    /\ pc[t] = "release"
    /\ used' = [used EXCEPT ![name[t]] = FALSE]
    /\ Goto(t, "none")
    /\ UNCHANGED <<messages, User, State, name, peer, alive>>

Release(t) ==
    /\ pc[t] = "release"
    /\ used' = [used EXCEPT ![User[t]] = FALSE]
    /\ Goto(t, "none")
    /\ UNCHANGED <<messages, User, State, name, peer, alive>>

ThreadSock(t) ==
    \/ RecvEnd(t)
    \/ \E n \in Users : USER(t, n) \/ PASS(t, n)
    \/ Login(t) \/ Take(t) \/ GiveUp(t) \/ Relogin(t) \/ Retake(t)
    \/ \E k \in 1 .. MaxMessages : DELE(t, k)
    \/ RSET(t)
    \/ QUIT(t) \/ Update(t) \/ Release(t)

(***************************************************************************)
(* The code has no exclusion between threads.  A serial world is one whose *)
(* scheduler happens never to run two of the sections that touch `used` at *)
(* once: USER from the first login() to its end, and the end of QUIT.      *)
(***************************************************************************)
Inside(t) == pc[t] \in {"login", "take", "giveup", "relogin", "retake", "update", "release"}

Serial == \A s, t \in Threads : Inside(s) /\ Inside(t) => s = t

Next ==
    /\ alive
    /\ \E t \in Threads : StartThread(t) \/ PeerLeaves(t) \/ ThreadSock(t)
    /\ serial => Serial'
    /\ UNCHANGED serial

Spec == Init /\ [][Next]_vars

-----------------------------------------------------------------------------
TypeOK ==
    /\ used \in [Users -> BOOLEAN]
    /\ \A u \in Users : \A k \in DOMAIN messages[u] : messages[u][k].st \in 1 .. MaxMessages
    /\ User \in [Threads -> Users \cup {-1}]
    /\ State \in [Threads -> {"AUTHORIZATION", "TRANSACTION", "UPDATE"}]
    /\ \A t \in Threads : State[t] = "TRANSACTION" => User[t] \in Users
    /\ name \in [Threads -> Users \cup {-1}]
    /\ peer \in [Threads -> {"up", "closed", "reset"}]
    /\ alive \in BOOLEAN /\ serial \in Worlds

Owners(u) == {t \in Threads : pc[t] # "none" /\ User[t] = u}

(***************************************************************************)
(* A session that was told "maildrop locked and ready" (line 294) has the  *)
(* mailbox to itself: no other session marks its messages or updates it.   *)
(***************************************************************************)
MaildropLocked ==
    \A s, t \in Threads :
        /\ pc[s] # "none" /\ State[s] = "TRANSACTION"
        /\ pc[t] # "none" /\ State[t] = "TRANSACTION"
        /\ User[s] = User[t]
        => s = t

(***************************************************************************)
(* A lock can be orphaned: the second login() of a refused USER (line 258) *)
(* takes a mailbox that was released since the first.  No session owns it  *)
(* and none is about to; whatever the threads do from then on, it stays    *)
(* locked and every USER that asks for it is refused.                      *)
(***************************************************************************)
Taking(t) == pc[t] \in {"take", "giveup"}

Orphaned(u) ==
    /\ used[u]
    /\ Owners(u) = {}
    /\ ~\E t \in Threads : Taking(t) /\ name[t] = u

OrphanIsForever == [][\A u \in Users : Orphaned(u) => Orphaned(u)']_vars

LockedIffOwned ==
    serial /\ (\A t \in Threads : ~Inside(t)) =>
        \A u \in Users : /\ used[u] <=> Owners(u) # {}
                         /\ \A s, t \in Owners(u) : s = t

(***************************************************************************)
(* A thread indexes Massive only with a mailbox it named.  And in a serial *)
(* world, while no thread is inside USER or the end of QUIT, a mailbox is  *)
(* locked exactly when a thread owns it: USER neither leaves a lock        *)
(* behind, by its second login(), nor takes a mailbox that has an owner.   *)
(* (Otherwise it may have two: see the run race.)                          *)
(***************************************************************************)
ThreadedInv == TypeOK /\ LockedIffOwned

(***************************************************************************)
(* What Maildrop promises, in a serial world.  A thread                    *)
(* has left once updatemailbox() has run, before it clears used.           *)
(***************************************************************************)
Leaving(t) == pc[t] = "release"
Holders(u) == {t \in Owners(u) : ~Leaving(t)}

owner  == [u \in Users |-> IF Holders(u) = {} THEN Nobody
                           ELSE CHOOSE t \in Holders(u) : TRUE]
opened == [u \in Users |-> \E t \in Holders(u) : State[t] # "AUTHORIZATION"]
mail   == [u \in Users |-> {m.st : m \in ToSet(messages[u])}]
marks  == [u \in Users |-> {m.st : m \in {n \in ToSet(messages[u]) : n.del}}]

Drops == INSTANCE Maildrop WITH
    Clients <- Threads,
    Boxes   <- Users,
    Texts   <- 1 .. MaxMessages

ImplementsMaildrop == Drops!Init /\ [][serial => [Drops!Next]_(Drops!vars)]_vars
=============================================================================
