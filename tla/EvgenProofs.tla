---------------------------- MODULE EvgenProofs -----------------------------
(***************************************************************************)
(* Proofs about EvgenThread, ImgServer and HttpServ, the threaded POP3     *)
(* server and the HTTP servers of evgen, for every set of threads, peers,  *)
(* files, lines and requests and every number of descriptors.              *)
(***************************************************************************)
EXTENDS EvgenThread, HttpServ, ImgServer, WellFoundedInduction, VectorProofs

-----------------------------------------------------------------------------
(***************************************************************************)
(* Proofs about EvgenThread, for every set of threads, users and lines.    *)
(*                                                                         *)
(* HeldIsUsed is not inductive.  A QUIT must find that nobody else has     *)
(* the mailbox it gives up (OneEach), which Take keeps because what Look   *)
(* found free still is (FoundFree); and both need that a thread has no     *)
(* session yet while it looks for one (Unnamed).  The first two hold only  *)
(* in an orderly world; NoneLost, and OnlyWhatWasSaid by NamesWereSaid, in *)
(* any world.                                                              *)
(***************************************************************************)
\* Only a QUIT releases, and only a thread without a mailbox looks for one.
Unnamed ==
    \A t \in Threads : /\ pc[t] \in {"look", "take"} => stage[t] = 0
                       /\ pc[t] = "release" => word[t] = "QUIT"

\* What a thread goes by has been said by its peer, in this connection.
NamesWereSaid ==
    \A t \in Threads : Begun(t) =>
        /\ name[t] \in said[t] \cup {Nothing}
        /\ pc[t] = "take" \/ stage[t] > 0 => Nik(numb[t]) \in said[t]
        /\ stage[t] = 2 => Pass(numb[t]) \in said[t]

FoundFree ==
    \A t \in Threads : pc[t] = "take" => ~u[numb[t]]

OneEach ==
    \A n \in Users : \A s, t \in Holders(n) : s = t

IInv ==
    /\ ThreadTypeOK
    /\ Unnamed
    /\ NamesWereSaid
    /\ NoneLost /\ HeldIsUsed
    /\ orderly => Orderly /\ FoundFree /\ OneEach

-----------------------------------------------------------------------------
\* What the invariant says of the types, ready to use.
LEMMA Types ==
    ASSUME IInv, NEW t \in Threads
    PROVE  /\ stage[t] \in 0 .. 2 /\ numb[t] \in Users \cup {None}
           /\ word[t] \in Words \cup {Nothing} /\ name[t] \in Names \cup {Nothing}
           /\ said[t] \in SUBSET Names
           /\ pc[t] \in {"none", "recv", "look", "take", "release"}
           /\ stage[t] > 0 \/ pc[t] = "take" => numb[t] \in Users
  BY DEF IInv, ThreadTypeOK

(***************************************************************************)
(* The locks are as they were after a step that changes neither u nor who  *)
(* has a session.                                                          *)
(***************************************************************************)
LEMMA SameLocks ==
    ASSUME IInv, UNCHANGED <<u, orderly>>, orderly => Orderly',
           \A t \in Threads, n \in Users : (t \in Holders(n))' <=> t \in Holders(n),
           \A t \in Threads : pc'[t] = "take" /\ orderly => ~u[numb'[t]]
    PROVE  NoneLost' /\ HeldIsUsed' /\ (orderly => Orderly /\ FoundFree /\ OneEach)'
<1>1. \A n \in Users : Holders(n)' = Holders(n)
  BY DEF Holders
<1>2. NoneLost' /\ HeldIsUsed'
  BY <1>1 DEF IInv, NoneLost, HeldIsUsed
<1>3. orderly => OneEach'
  BY <1>1 DEF IInv, OneEach
<1>4. orderly => FoundFree'
  BY DEF FoundFree
<1> QED
  BY <1>2, <1>3, <1>4

\* A thread starts with an empty word and name, and has no session.
LEMMA StartStep ==
    ASSUME IInv, UNCHANGED orderly, orderly => Orderly', NEW t \in Threads, Start(t)
    PROVE  IInv'
<1>1. ThreadTypeOK'
  BY DEF IInv, ThreadTypeOK, Start, Cleared, Goto
<1>2. /\ pc' = [pc EXCEPT ![t] = "recv"] /\ stage' = [stage EXCEPT ![t] = 0]
      /\ name' = [name EXCEPT ![t] = Nothing] /\ said' = [said EXCEPT ![t] = {}]
      /\ word' = [word EXCEPT ![t] = Nothing]
      /\ pc[t] = "none" /\ u' = u
      /\ \E x \in Users \cup {None} : numb' = [numb EXCEPT ![t] = x]
  BY DEF Start, Cleared, Goto
<1>3. Unnamed' /\ NamesWereSaid'
  BY <1>2 DEF IInv, ThreadTypeOK, Unnamed, NamesWereSaid, Begun
<1>4. NoneLost' /\ HeldIsUsed' /\ (orderly => Orderly /\ FoundFree /\ OneEach)'
  <2>1. ASSUME NEW s \in Threads, NEW n \in Users
        PROVE  (s \in Holders(n))' <=> s \in Holders(n)
    BY <1>2 DEF IInv, ThreadTypeOK, Holders, Begun
  <2>2. ASSUME NEW s \in Threads, pc'[s] = "take", orderly PROVE ~u[numb'[s]]
    BY <1>2, <2>2 DEF IInv, ThreadTypeOK, FoundFree
  <2> QED
    BY <2>1, <2>2, <1>2, SameLocks
<1> QED
  BY <1>1, <1>3, <1>4 DEF IInv

\* A line is remembered, and what it names has been said.
LEMMA LineStep ==
    ASSUME IInv, UNCHANGED orderly, orderly => Orderly', NEW t \in Threads, Line(t)
    PROVE  IInv'
<1> PICK line \in Lines : Receives(t, line) /\ (QUIT(t) \/ USER(t) \/ PASS(t) \/ Answers(t))
  BY DEF Line
<1>1. /\ line.word \in Words \cup {Nothing} /\ line.name \in Names \cup {Nothing}
      /\ Nothing \notin Words \cup Names /\ None \notin Users
  BY EvgenThreadAssumption
<1>2. /\ pc[t] = "recv"
      /\ word' = [word EXCEPT ![t] = Latest(line.word, word[t])]
      /\ name' = [name EXCEPT ![t] = Latest(line.name, name[t])]
      /\ said' = [said EXCEPT ![t] = said[t] \cup ({line.name} \ {Nothing})]
      /\ other' = other
  BY DEF Receives
<1>3. /\ word' \in [Threads -> Words \cup {Nothing}]
      /\ name' \in [Threads -> Names \cup {Nothing}]
      /\ said' \in [Threads -> SUBSET Names]
  BY <1>1, <1>2 DEF IInv, ThreadTypeOK, Latest
<1>4. /\ name'[t] \in said'[t] \cup {Nothing} /\ said[t] \subseteq said'[t]
      /\ \A s \in Threads : s # t => /\ word'[s] = word[s] /\ name'[s] = name[s]
                                     /\ said'[s] = said[s]
  BY <1>1, <1>2 DEF IInv, ThreadTypeOK, Latest, NamesWereSaid, Begun
<1>5. running' \in BOOLEAN /\ u' = u
  BY DEF QUIT, USER, PASS, Answers, Replies, IInv, ThreadTypeOK
<1>6. CASE QUIT(t)
  <2>1. /\ pc' = [pc EXCEPT ![t] = "release"] /\ word'[t] = "QUIT"
        /\ UNCHANGED <<numb, stage>>
    BY <1>6 DEF QUIT, Goto
  <2>2. ThreadTypeOK'
    BY <1>2, <1>3, <1>5, <2>1 DEF IInv, ThreadTypeOK
  <2>3. Unnamed' /\ NamesWereSaid'
    BY <1>2, <1>4, <2>1 DEF IInv, ThreadTypeOK, Unnamed, NamesWereSaid, Begun
  <2>4. \A s \in Threads, n \in Users : (s \in Holders(n))' <=> s \in Holders(n)
    BY <1>2, <2>1 DEF IInv, ThreadTypeOK, Holders, Begun
  <2>5. \A s \in Threads : pc'[s] = "take" /\ orderly => ~u[numb'[s]]
    BY <2>1 DEF IInv, ThreadTypeOK, FoundFree
  <2> QED
    BY <1>5, <2>2, <2>3, <2>4, <2>5, SameLocks DEF IInv
<1>7. CASE USER(t)
  <2>1. /\ pc' = [pc EXCEPT ![t] = "look"] /\ stage[t] = 0
        /\ numb' = [numb EXCEPT ![t] = None] /\ UNCHANGED stage /\ running' = running
    BY <1>7 DEF USER, Goto
  <2>2. ThreadTypeOK'
    BY <1>2, <1>3, <1>5, <2>1 DEF IInv, ThreadTypeOK
  <2>3. Unnamed' /\ NamesWereSaid'
    BY <1>2, <1>4, <2>1 DEF IInv, ThreadTypeOK, Unnamed, NamesWereSaid, Begun
  <2>4. \A s \in Threads, n \in Users : (s \in Holders(n))' <=> s \in Holders(n)
    BY <1>2, <2>1 DEF IInv, ThreadTypeOK, Holders, Begun
  <2>5. \A s \in Threads : pc'[s] = "take" /\ orderly => ~u[numb'[s]]
    BY <2>1 DEF IInv, ThreadTypeOK, FoundFree
  <2> QED
    BY <1>5, <2>2, <2>3, <2>4, <2>5, SameLocks DEF IInv
<1>8. CASE PASS(t) \/ Answers(t)
  <2>1. /\ UNCHANGED <<pc, numb>>
        /\ \/ stage' = stage
           \/ /\ stage' = [stage EXCEPT ![t] = 2] /\ stage[t] = 1
              /\ Matches(t, name'[t])
    BY <1>8 DEF PASS, Answers
  <2>2. numb[t] = None => stage[t] = 0
    BY Types, <1>1
  <2>3. ThreadTypeOK'
    BY <1>2, <1>3, <1>5, <2>1, <2>2 DEF IInv, ThreadTypeOK, Matches
  <2>4. Unnamed' /\ NamesWereSaid'
    <3>1. stage'[t] = 2 => stage[t] = 2 \/ name'[t] = Pass(numb[t])
      BY <2>1 DEF Matches
    <3>2. stage'[t] = 2 => Pass(numb[t]) \in said'[t]
      <4>1. stage[t] = 2 => Pass(numb[t]) \in said'[t]
        BY <1>2, <1>4 DEF IInv, NamesWereSaid, Begun
      <4>2. name'[t] = Pass(numb[t]) /\ stage[t] = 1 => name'[t] # Nothing
        BY <1>1, <2>2, Types DEF Names
      <4> QED
        BY <2>1, <3>1, <4>1, <4>2, <1>4 DEF Matches, IInv, ThreadTypeOK
    <3>3. stage'[t] > 0 => stage[t] > 0
      BY <2>1, Types
    <3> QED
      BY <1>2, <1>4, <2>1, <3>2, <3>3 DEF IInv, ThreadTypeOK, Unnamed, NamesWereSaid, Begun
  <2>5. \A s \in Threads, n \in Users : (s \in Holders(n))' <=> s \in Holders(n)
    BY <1>2, <2>1 DEF IInv, ThreadTypeOK, Holders, Begun
  <2>6. \A s \in Threads : pc'[s] = "take" /\ orderly => ~u[numb'[s]]
    BY <2>1 DEF IInv, ThreadTypeOK, FoundFree
  <2> QED
    BY <1>5, <2>3, <2>4, <2>5, <2>6, SameLocks DEF IInv
<1> QED
  BY <1>6, <1>7, <1>8

\* USER finds no mailbox to take.
LEMMA LookFailsStep ==
    ASSUME IInv, UNCHANGED orderly, orderly => Orderly', NEW t \in Threads, LookFails(t)
    PROVE  IInv'
<1>1. /\ pc' = [pc EXCEPT ![t] = "recv"] /\ pc[t] = "look"
      /\ UNCHANGED <<u, numb, stage, word, name, said, other>>
      /\ running' \in BOOLEAN
  BY DEF LookFails, Goto, locals, Replies, IInv, ThreadTypeOK
<1>2. ThreadTypeOK'
  BY <1>1 DEF IInv, ThreadTypeOK
<1>3. Unnamed' /\ NamesWereSaid'
  BY <1>1 DEF IInv, ThreadTypeOK, Unnamed, NamesWereSaid, Begun
<1>4. \A s \in Threads, n \in Users : (s \in Holders(n))' <=> s \in Holders(n)
  BY <1>1 DEF IInv, ThreadTypeOK, Holders, Begun
<1>5. \A s \in Threads : pc'[s] = "take" /\ orderly => ~u[numb'[s]]
  BY <1>1 DEF IInv, ThreadTypeOK, FoundFree
<1> QED
  BY <1>1, <1>2, <1>3, <1>4, <1>5, SameLocks DEF IInv

\* USER finds a mailbox that is free, of the name its peer has said.
LEMMA LookStep ==
    ASSUME IInv, UNCHANGED orderly, orderly => Orderly', NEW t \in Threads, Look(t)
    PROVE  IInv'
<1> PICK n \in Users : name[t] = Nik(n) /\ ~u[n] /\ numb' = [numb EXCEPT ![t] = n]
  BY DEF Look
<1>1. /\ pc' = [pc EXCEPT ![t] = "take"] /\ pc[t] = "look"
      /\ UNCHANGED <<u, stage, word, name, said, other, running>>
  BY DEF Look, Goto
<1>2. n # None /\ Nik(n) # Nothing
  BY EvgenThreadAssumption DEF Names
<1>3. ThreadTypeOK'
  BY <1>1, <1>2 DEF IInv, ThreadTypeOK
<1>4. stage[t] = 0 /\ Nik(n) \in said[t]
  BY <1>1, <1>2 DEF IInv, Unnamed, NamesWereSaid, Begun
<1>5. Unnamed' /\ NamesWereSaid'
  BY <1>1, <1>4 DEF IInv, ThreadTypeOK, Unnamed, NamesWereSaid, Begun
<1>6. \A s \in Threads, m \in Users : (s \in Holders(m))' <=> s \in Holders(m)
  BY <1>1, <1>4 DEF IInv, ThreadTypeOK, Holders, Begun
<1>7. \A s \in Threads : pc'[s] = "take" /\ orderly => ~u[numb'[s]]
  BY <1>1 DEF IInv, ThreadTypeOK, FoundFree
<1> QED
  BY <1>1, <1>3, <1>5, <1>6, <1>7, SameLocks DEF IInv

(***************************************************************************)
(* USER takes the mailbox: nobody has it, as u said so, and nobody else is *)
(* about to take it, as two threads are not inside at once.                *)
(***************************************************************************)
LEMMA TakeStep ==
    ASSUME IInv, UNCHANGED orderly, orderly => Orderly', NEW t \in Threads, Take(t)
    PROVE  IInv'
<1> DEFINE n == numb[t]
<1>1. /\ pc' = [pc EXCEPT ![t] = "recv"] /\ pc[t] = "take"
      /\ u' = [u EXCEPT ![n] = TRUE] /\ stage' = [stage EXCEPT ![t] = 1]
      /\ UNCHANGED <<numb, word, name, said, other>>
      /\ running' \in BOOLEAN
  BY DEF Take, Goto, Replies, IInv, ThreadTypeOK
<1>2. n \in Users /\ n # None /\ stage[t] = 0
  BY <1>1, Types, EvgenThreadAssumption DEF IInv, Unnamed
<1>3. ThreadTypeOK'
  BY <1>1, <1>2 DEF IInv, ThreadTypeOK
<1>4. Unnamed' /\ NamesWereSaid'
  BY <1>1 DEF IInv, ThreadTypeOK, Unnamed, NamesWereSaid, Begun
<1>5. \A s \in Threads, m \in Users :
          (s \in Holders(m))' <=> s \in Holders(m) \/ (s = t /\ m = n)
  BY <1>1, <1>2 DEF IInv, ThreadTypeOK, Holders, Begun
<1>6. \A m \in Users : Holders(m)' = IF m = n THEN Holders(m) \cup {t} ELSE Holders(m)
  BY <1>5 DEF Holders
<1>7. \A m \in Users : u'[m] <=> u[m] \/ m = n
  BY <1>1 DEF IInv, ThreadTypeOK
<1>8. NoneLost' /\ HeldIsUsed'
  BY <1>6, <1>7 DEF IInv, NoneLost, HeldIsUsed
<1>9. ASSUME orderly PROVE FoundFree' /\ OneEach'
  <2>1. Holders(n) = {}
    BY <1>1, <1>2, <1>9 DEF IInv, FoundFree, HeldIsUsed
  <2>2. OneEach'
    BY <1>6, <1>9, <2>1 DEF IInv, OneEach
  <2>3. ASSUME NEW s \in Threads PROVE pc'[s] # "take"
    <3>1. s # t => pc[s] # "take"
      BY <1>1, <1>9 DEF IInv, Orderly, Inside
    <3> QED
      BY <1>1, <3>1 DEF IInv, ThreadTypeOK
  <2> QED
    BY <2>2, <2>3 DEF FoundFree
<1> QED
  BY <1>3, <1>4, <1>8, <1>9 DEF IInv

(***************************************************************************)
(* QUIT gives up the number of its thread, and who has another mailbox     *)
(* keeps it.  In an orderly world it gives up the mailbox of its thread,   *)
(* which nobody else has, and none when the thread has none.               *)
(***************************************************************************)
LEMMA ReleaseStep ==
    ASSUME IInv, UNCHANGED orderly, orderly => Orderly', NEW t \in Threads, Release(t)
    PROVE  IInv'
<1>1. /\ pc' = [pc EXCEPT ![t] = "none"] /\ pc[t] = "release"
      /\ u' = [m \in Users |-> u[m] /\ m # numb[t]]
      /\ UNCHANGED <<numb, stage, word, name, said, other, running>>
  BY DEF Release, Goto, locals
<1>2. ThreadTypeOK'
  BY <1>1 DEF IInv, ThreadTypeOK
<1>3. Unnamed' /\ NamesWereSaid'
  BY <1>1 DEF IInv, ThreadTypeOK, Unnamed, NamesWereSaid, Begun
<1>4. \A s \in Threads, m \in Users : (s \in Holders(m))' <=> s \in Holders(m) /\ s # t
  BY <1>1 DEF IInv, ThreadTypeOK, Holders, Begun
<1>5. \A m \in Users : Holders(m)' = Holders(m) \ {t}
  BY <1>4 DEF Holders
<1>6. \A m \in Users : m # numb[t] => Holders(m)' = Holders(m)
  BY <1>5 DEF Holders
<1>7. NoneLost'
  BY <1>1, <1>6 DEF IInv, NoneLost
<1>8. ASSUME orderly PROVE HeldIsUsed' /\ FoundFree' /\ OneEach'
  <2>1. \A m \in Users : Holders(m) # {} => u[m]
    BY <1>8 DEF IInv, HeldIsUsed
  <2>2. ASSUME NEW m \in Users, m = numb[t] PROVE t \in Holders(m)
    <3>1. stage[t] > 0
      BY <1>1, <1>8, <2>2, EvgenThreadAssumption DEF IInv, Unnamed, Orderly
    <3> QED
      BY <1>1, <2>2, <3>1 DEF Holders, Begun
  <2>3. ASSUME NEW m \in Users, Holders(m)' # {} PROVE u'[m]
    <3>1. m # numb[t]
      BY <1>5, <1>8, <2>2, <2>3 DEF IInv, OneEach
    <3> QED
      BY <1>1, <1>6, <2>1, <2>3, <3>1
  <2>4. FoundFree'
    BY <1>1, <1>8, Types DEF IInv, ThreadTypeOK, FoundFree
  <2>5. OneEach'
    BY <1>5, <1>8 DEF IInv, OneEach
  <2> QED
    BY <2>3, <2>4, <2>5 DEF HeldIsUsed
<1> QED
  BY <1>2, <1>3, <1>7, <1>8 DEF IInv, HeldIsUsed

-----------------------------------------------------------------------------
\* Steps that leave the threads where they are, as far as the locks go.
LEMMA IdleStep ==
    ASSUME IInv, orderly => Orderly',
           UNCHANGED <<u, numb, stage, word, name, pc, said, orderly>>,
           other' \in [Threads -> {"up", "closed", "reset"}], running' \in BOOLEAN
    PROVE  IInv'
  BY DEF IInv, ThreadTypeOK, Unnamed, NamesWereSaid, NoneLost, HeldIsUsed, FoundFree,
         OneEach, Holders, Begun

\* No thread runs at the start.
LEMMA InitIInv == ThreadInit => IInv
<1> SUFFICES ASSUME ThreadInit PROVE IInv
  OBVIOUS
<1>1. Nothing \notin Words
  BY EvgenThreadAssumption
<1>2. ThreadTypeOK
  BY DEF ThreadInit, ThreadTypeOK
<1>3. Unnamed /\ NamesWereSaid
  BY DEF ThreadInit, Unnamed, NamesWereSaid, Begun
<1>4. NoneLost /\ HeldIsUsed /\ Orderly /\ FoundFree /\ OneEach
  BY <1>1 DEF ThreadInit, NoneLost, HeldIsUsed, Orderly, Inside, FoundFree, OneEach, Holders, Begun, Words
<1> QED
  BY <1>2, <1>3, <1>4 DEF IInv

\* Every step of every thread keeps the invariant.
LEMMA NextIInv == IInv /\ [ThreadNext]_thread_vars => IInv'
<1> SUFFICES ASSUME IInv, [ThreadNext]_thread_vars PROVE IInv'
  OBVIOUS
<1>1. CASE UNCHANGED thread_vars
  <2>1. orderly => Orderly'
    BY <1>1 DEF thread_vars, locals, IInv, Orderly, Inside
  <2> QED
    BY <1>1, <2>1, IdleStep DEF thread_vars, locals, IInv, ThreadTypeOK
<1>2. CASE ThreadNext
  <2>1. UNCHANGED orderly /\ (orderly => Orderly')
    BY <1>2 DEF ThreadNext
  <2>2. ASSUME NEW t \in Threads, Start(t) PROVE IInv'
    BY <2>1, <2>2, StartStep
  <2>3. ASSUME NEW t \in Threads, PeerLeaves(t) PROVE IInv'
    BY <2>1, <2>3, IdleStep DEF PeerLeaves, locals, IInv, ThreadTypeOK
  <2>4. ASSUME NEW t \in Threads, SocketWork(t) PROVE IInv'
    <3>1. CASE Line(t)
      BY <2>1, <3>1, LineStep
    <3>2. CASE LookFails(t)
      BY <2>1, <3>2, LookFailsStep
    <3>3. CASE Look(t)
      BY <2>1, <3>3, LookStep
    <3>4. CASE Take(t)
      BY <2>1, <3>4, TakeStep
    <3>5. CASE Release(t)
      BY <2>1, <3>5, ReleaseStep
    <3>6. CASE Circles(t)
      BY <1>1, <3>6 DEF Circles
    <3> QED
      BY <2>4, <3>1, <3>2, <3>3, <3>4, <3>5, <3>6 DEF SocketWork
  <2>5. CASE AcceptFails
    BY <2>1, <2>5, IdleStep DEF AcceptFails, locals, IInv, ThreadTypeOK
  <2> QED
    BY <1>2, <2>2, <2>3, <2>4, <2>5 DEF ThreadNext
<1> QED
  BY <1>1, <1>2

(***************************************************************************)
(* Every reachable state satisfies the inductive invariant.                *)
(***************************************************************************)
THEOREM Invariance == ThreadSpec => []IInv
<1>1. ThreadInit => IInv
  BY InitIInv
<1>2. IInv /\ [ThreadNext]_thread_vars => IInv'
  BY NextIInv
<1> QED
  BY <1>1, <1>2, PTL DEF ThreadSpec

(***************************************************************************)
(* Whatever threads race for and whatever a QUIT finds on its stack, a     *)
(* mailbox in use has a session: SocketWork loses no lock.  In an orderly  *)
(* world it gives up none of another's either.                             *)
(***************************************************************************)
THEOREM NoLockIsLost == ThreadSpec => []ThreadInv
<1>1. IInv => ThreadInv
  BY DEF IInv, ThreadInv
<1> QED
  BY <1>1, Invariance, PTL

(***************************************************************************)
(* A session of SocketWork has only what its own peer has named, whatever  *)
(* lines leave out and whatever thread ran on the stack before.            *)
(***************************************************************************)
THEOREM OwnNames == ThreadSpec => []OnlyWhatWasSaid
<1>1. IInv => OnlyWhatWasSaid
  BY DEF IInv, NamesWereSaid, OnlyWhatWasSaid
<1> QED
  BY <1>1, Invariance, PTL

-----------------------------------------------------------------------------
(***************************************************************************)
(* The refinement of Locks.  Hold is what EvgenThread puts for holder.     *)
(***************************************************************************)
Hold == [n \in Users |-> IF Holders(n) # {} THEN CHOOSE t \in Holders(n) : TRUE
                         ELSE IF u[n] THEN Lost ELSE Nobody]

HoldIsSession ==
    \A n \in Users : /\ Holders(n) = {} => Hold[n] = Nobody
                     /\ \A t \in Holders(n) : Hold[n] = t

\* In an orderly world the holder is the one thread with a session, if any.
LEMMA HoldIs == IInv /\ orderly => HoldIsSession
  BY DEF IInv, NoneLost, OneEach, Hold, HoldIsSession

\* And so it is after a step.
LEMMA HoldIsNext == (IInv /\ orderly => HoldIsSession)'
  BY HoldIs, PTL

\* A step that does not change who has a session stutters.
LEMMA HoldSame ==
    ASSUME HoldIsSession, HoldIsSession',
           \A t \in Threads, n \in Users : (t \in Holders(n))' <=> t \in Holders(n)
    PROVE  UNCHANGED Hold
<1>1. \A n \in Users : Holders(n)' = Holders(n)
  BY DEF Holders
<1>2. \A n \in Users : Hold'[n] = Hold[n]
  BY <1>1 DEF HoldIsSession
<1> QED
  BY <1>2 DEF Hold

(***************************************************************************)
(* In an orderly world, Take is Lock and Release is GiveUp or nothing.     *)
(***************************************************************************)
LEMMA LocksStep ==
    ASSUME IInv, IInv', orderly, [ThreadNext]_thread_vars
    PROVE  [Boxes!Next]_Hold
<1>1. CASE UNCHANGED thread_vars
  BY <1>1 DEF thread_vars, locals, Hold, Holders, Begun
<1>2. CASE ThreadNext
  <2>1. HoldIsSession /\ HoldIsSession'
    BY <1>2, HoldIs, HoldIsNext DEF ThreadNext
  <2>2. ASSUME NEW t \in Threads, Start(t) PROVE UNCHANGED Hold
    <3>1. \A s \in Threads, n \in Users : (s \in Holders(n))' <=> s \in Holders(n)
      BY <2>2 DEF Start, Goto, IInv, ThreadTypeOK, Holders, Begun
    <3> QED
      BY <2>1, <3>1, HoldSame
  <2>3. ASSUME NEW t \in Threads, PeerLeaves(t) \/ LookFails(t) \/ Circles(t)
        PROVE  UNCHANGED Hold
    <3>1. \A s \in Threads, n \in Users : (s \in Holders(n))' <=> s \in Holders(n)
      BY <2>3 DEF PeerLeaves, LookFails, Circles, Goto, IInv, ThreadTypeOK, Holders, Begun, locals, thread_vars
    <3> QED
      BY <2>1, <3>1, HoldSame
  <2>4. ASSUME NEW t \in Threads, Line(t) PROVE UNCHANGED Hold
    <3>1. pc[t] = "recv" /\ (QUIT(t) \/ USER(t) \/ PASS(t) \/ Answers(t))
      BY <2>4 DEF Line, Receives
    <3>2. \A s \in Threads, n \in Users : (s \in Holders(n))' <=> s \in Holders(n)
      BY <3>1 DEF QUIT, USER, PASS, Answers, Goto, IInv, ThreadTypeOK, Holders, Begun
    <3> QED
      BY <2>1, <3>2, HoldSame
  <2>5. ASSUME NEW t \in Threads, Look(t) PROVE UNCHANGED Hold
    <3>1. \A s \in Threads, n \in Users : (s \in Holders(n))' <=> s \in Holders(n)
      BY <2>5 DEF Look, Goto, IInv, ThreadTypeOK, Unnamed, Holders, Begun
    <3> QED
      BY <2>1, <3>1, HoldSame
  <2>6. ASSUME NEW t \in Threads, Take(t) PROVE Boxes!Next
    <3> PICK n : n = numb[t]
      OBVIOUS
    <3>1. /\ n \in Users /\ stage[t] = 0 /\ ~u[n]
      BY <2>6, Types DEF Take, IInv, Unnamed, FoundFree
    <3>2. Holders(n) = {}
      BY <3>1 DEF IInv, HeldIsUsed
    <3>3. \A s \in Threads, m \in Users :
              (s \in Holders(m))' <=> s \in Holders(m) \/ (s = t /\ m = n)
      BY <2>6, <3>1 DEF Take, Goto, IInv, ThreadTypeOK, Holders, Begun
    <3>4. \A m \in Users : m # n => Holders(m)' = Holders(m)
      BY <3>3 DEF Holders
    <3>6. t \in Holders(n)'
      BY <3>1, <3>3
    <3>7. Hold'[n] = t
      BY <2>1, <3>1, <3>6 DEF HoldIsSession
    <3>8. \A m \in Users : m # n => Hold'[m] = Hold[m]
      BY <2>1, <3>4 DEF HoldIsSession
    <3>9. \A m \in Users : m # n /\ Hold[m] = t => Hold[m] = Nobody
      <4>1. \A m \in Users : t \notin Holders(m)
        BY <3>1 DEF Holders
      <4> QED
        BY <2>1, <4>1 DEF HoldIsSession
    <3>10. Boxes!Lock(t, n)
      <4>1. Hold[n] = Nobody
        BY <2>1, <3>1, <3>2 DEF HoldIsSession
      <4>2. Hold' = [m \in Users |-> IF m = n THEN t ELSE IF Hold[m] = t THEN Nobody ELSE Hold[m]]
        BY <3>1, <3>7, <3>8, <3>9 DEF Hold
      <4> QED
        BY <4>1, <4>2 DEF Boxes!Lock, Hold
    <3> QED
      BY <3>1, <3>10 DEF Boxes!Next
  <2>7. ASSUME NEW t \in Threads, Release(t) PROVE Boxes!Next \/ UNCHANGED Hold
    <3> PICK n : n = numb[t]
      OBVIOUS
    <3>1. \A s \in Threads, m \in Users : (s \in Holders(m))' <=> s \in Holders(m) /\ s # t
      BY <2>7 DEF Release, Goto, locals, IInv, ThreadTypeOK, Holders, Begun
    <3>2. \A m \in Users : Holders(m)' = Holders(m) \ {t}
      BY <3>1 DEF Holders
    <3>3. \A m \in Users : m # n => Holders(m)' = Holders(m)
      BY <3>2 DEF Holders
    <3>4. \A m \in Users : m # n => Hold'[m] = Hold[m]
      BY <2>1, <3>3 DEF HoldIsSession
    <3>5. CASE n \in Users
      <4>1. t \in Holders(n)
        <5>1. stage[t] > 0
          BY <2>7, <3>5, EvgenThreadAssumption DEF Release, IInv, Unnamed, Orderly
        <5> QED
          BY <2>7, <5>1 DEF Release, Holders, Begun
      <4>2. OneEach
        BY DEF IInv
      <4>3. Holders(n)' = {}
        BY <3>2, <3>5, <4>1, <4>2 DEF OneEach
      <4>4. Hold[n] = t /\ Hold'[n] = Nobody
        BY <2>1, <3>5, <4>1, <4>3 DEF HoldIsSession
      <4>5. Hold' = [Hold EXCEPT ![n] = Nobody]
        BY <3>4, <3>5, <4>4 DEF Hold
      <4>6. Boxes!GiveUp(n, Nobody)
        BY <4>4, <4>5 DEF Boxes!GiveUp, Hold
      <4> QED
        BY <3>5, <4>6 DEF Boxes!Next
    <3>6. CASE n \notin Users
      BY <3>4, <3>6 DEF Hold
    <3> QED
      BY <3>5, <3>6
  <2>8. ASSUME AcceptFails PROVE UNCHANGED Hold
    BY <2>8 DEF AcceptFails, locals, Hold, Holders, Begun
  <2> QED
    BY <1>2, <2>2, <2>3, <2>4, <2>5, <2>6, <2>7, <2>8 DEF ThreadNext, SocketWork
<1> QED
  BY <1>1, <1>2

(***************************************************************************)
(* In an orderly world u is a lock for every mailbox, as Locks has it: who *)
(* finds it free gets it alone, and only its QUIT gives it up.  None is    *)
(* ever lost there.                                                        *)
(***************************************************************************)
THEOREM Refinement == ThreadSpec => ImplementsLocks
<1>1. ThreadInit => Boxes!Init
  BY DEF ThreadInit, Boxes!Init, Holders, Begun
<1>2. IInv /\ IInv' /\ [ThreadNext]_thread_vars => [orderly => Boxes!Step]_thread_vars
  BY LocksStep DEF Boxes!Step, Hold
<1> QED
  BY <1>1, <1>2, Invariance, PTL DEF ThreadSpec, ImplementsLocks

-----------------------------------------------------------------------------
(***************************************************************************)
(* Proofs about the HTTP servers of evgen: ImgServer and HttpServ, for     *)
(* every set of peers, files and requests and every number of descriptors. *)
(***************************************************************************)
\* A set of naturals has a least element.
LEMMA Least ==
    ASSUME NEW S \in SUBSET Nat, S # {}
    PROVE  \E n \in S : \A m \in S : n <= m
<1> DEFINE R == {ss \in Nat \X Nat : ss[1] < ss[2]}
<1>1. OpToRel(<, Nat) = R
  BY DEF OpToRel
<1>2. IsWellFoundedOn(R, Nat)
  BY <1>1, NatLessThanWellFounded, Zenon
<1> HIDE DEF R
<1>3. PICK n \in S : \A m \in S : <<m, n>> \notin R
  BY <1>2, WFMin, Zenon
<1>4. \A m \in S : ~(m < n)
  BY <1>3 DEF R
<1> QED
  BY <1>4

(***************************************************************************)
(* ImgServer.  The callback reads descriptor 0 whatever it opened, so what *)
(* matters is that no file is left there (NothingLeft): one that is opened *)
(* while 0 is free lands there and is closed by the same callback.  And a  *)
(* peer that is behind a number above 1 is behind no other (OneSeat), so   *)
(* no other connection's reply takes away what it asks for (Matching).     *)
(***************************************************************************)

\* No file is left at the number that the callback reads.
NothingLeft == table[0] \notin Images \cup Dirs

\* A peer is behind one number at most.
OneSeat == \A m, n \in Numbers : table[m] = table[n] /\ table[m] \in Conns => m = n

\* A reply that waits is that of an open connection, and carries what its request
\* named; above 1 the peer still waits for it.
Matching ==
    \A c \in Conns : queued[c] # Free =>
        /\ conn[c] # Free
        /\ queued[c].body \in {queued[c].name, Empty}
        /\ conn[c] >= 2 => queued[c].name = asked[c] /\ asked[c] # Free

ImgIInv == ImgInv /\ NothingLeft /\ OneSeat /\ Matching

LEMMA ImgNumbers ==
    ASSUME Unused # {}
    PROVE  Min(Unused) \in Unused /\ \A n \in Unused : Min(Unused) <= n
<1>1. Unused \in SUBSET Nat
  BY DEF Unused, Numbers
<1>2. PICK n \in Unused : \A m \in Unused : n <= m
  BY <1>1, Least
<1> QED
  BY <1>2 DEF Min

LEMMA ImgStarts == ASSUME ImgInit PROVE ImgIInv
<1> USE ImgAssumption DEF ImgInit
<1>1. ImgTypeOK
  BY DEF ImgTypeOK, Numbers
<1>2. HighConnectionsSurvive
  BY DEF HighConnectionsSurvive
<1>3. 0 \in Numbers /\ table[0] = Std
  BY DEF Numbers
<1>4. \A n \in Numbers : table[n] \in {Std, Free}
  OBVIOUS
<1>5. Std \notin Conns /\ Free \notin Conns
  OBVIOUS
<1>6. NothingLeft /\ OneSeat /\ Matching
  BY <1>3, <1>4, <1>5 DEF NothingLeft, OneSeat, Matching
<1> QED
  BY <1>1, <1>2, <1>6 DEF ImgIInv, ImgInv

\* A descriptor that is handed out was free, and is the lowest.
LEMMA ImgLowest ==
    ASSUME Unused # {}
    PROVE  \E m \in Numbers : /\ m = Min(Unused) /\ table[m] = Free
                              /\ table[0] = Free => m = 0
<1>1. 0 \in Numbers
  BY ImgAssumption DEF Numbers
<1>2. Min(Unused) \in Unused /\ \A n \in Unused : Min(Unused) <= n
  BY ImgNumbers
<1>3. table[0] = Free => Min(Unused) <= 0 /\ Min(Unused) \in Nat
  BY <1>1, <1>2 DEF Unused, Numbers
<1> QED
  BY <1>2, <1>3 DEF Unused

LEMMA ImgAcceptKeeps ==
    ASSUME ImgIInv, NEW c \in Conns, Accept(c)
    PROVE  ImgIInv'
<1> USE ImgAssumption
<1>1. ImgTypeOK /\ HighConnectionsSurvive /\ NothingLeft /\ OneSeat /\ Matching
  BY DEF ImgIInv, ImgInv
<1>2. PICK m \in Numbers : m = Min(Unused) /\ table[m] = Free
  BY ImgLowest DEF Accept
<1>3. /\ table' = [table EXCEPT ![m] = c] /\ conn' = [conn EXCEPT ![c] = m]
      /\ asked' = [asked EXCEPT ![c] = Free] /\ queued' = queued
      /\ conn[c] = Free /\ \A n \in Numbers : table[n] # c
  BY <1>2 DEF Accept
<1>4. ImgTypeOK'
  BY <1>1, <1>3 DEF ImgTypeOK
<1>5. HighConnectionsSurvive'
  BY <1>1, <1>2, <1>3 DEF ImgTypeOK, HighConnectionsSurvive
<1>6. NothingLeft' /\ OneSeat'
  BY <1>1, <1>3 DEF NothingLeft, OneSeat, ImgTypeOK
<1>7. Matching'
  <2>1. queued[c] = Free
    BY <1>1, <1>3 DEF Matching
  <2> QED
    BY <1>1, <1>3, <2>1 DEF Matching, ImgTypeOK
<1> QED
  BY <1>4, <1>5, <1>6, <1>7 DEF ImgIInv, ImgInv

\* A number is closed that is c's, or was that of none of the high connections.
LEMMA ImgCloses ==
    ASSUME ImgIInv, NEW c \in Conns, conn[c] # Free,
           table' = Freed(table, conn[c]), conn' = [conn EXCEPT ![c] = Free]
    PROVE  HighConnectionsSurvive' /\ NothingLeft' /\ OneSeat'
<1> USE ImgAssumption
<1>1. ImgTypeOK /\ HighConnectionsSurvive /\ NothingLeft /\ OneSeat
  BY DEF ImgIInv, ImgInv
<1>2. \A d \in Conns : conn'[d] # Free /\ conn'[d] >= 2 => d # c /\ conn[d] # Free /\ conn[d] >= 2
  BY <1>1 DEF ImgTypeOK
<1>3. ASSUME NEW d \in Conns, conn'[d] # Free, conn'[d] >= 2
      PROVE  table'[conn'[d]] = d
  <2>1. d # c /\ conn[d] = conn'[d] /\ table[conn[d]] = d
    BY <1>1, <1>2, <1>3 DEF ImgTypeOK, HighConnectionsSurvive
  <2>2. conn[c] # conn[d]
    BY <1>1, <1>3, <2>1 DEF HighConnectionsSurvive
  <2> QED
    BY <1>1, <2>1, <2>2 DEF ImgTypeOK, Freed
<1>4. NothingLeft' /\ OneSeat'
  BY <1>1 DEF NothingLeft, OneSeat, ImgTypeOK, Freed
<1> QED
  BY <1>3, <1>4 DEF HighConnectionsSurvive

\* Behind a high number is the connection's own peer, and no other number has it.
LEMMA ImgOwnPeer ==
    ASSUME ImgIInv, NEW c \in Conns, NEW d \in Conns, conn[c] # Free, conn[d] # Free,
           conn[d] >= 2, Behind(c) = d
    PROVE  conn[c] = conn[d] /\ c = d
<1>1. conn[c] \in Numbers /\ conn[d] \in Numbers
  BY DEF ImgIInv, ImgInv, ImgTypeOK
<1>2. table[conn[d]] = d /\ table[conn[c]] = d
  BY DEF ImgIInv, ImgInv, HighConnectionsSurvive, Behind
<1>3. conn[c] = conn[d]
  BY <1>1, <1>2 DEF ImgIInv, OneSeat
<1> QED
  BY <1>2, <1>3 DEF ImgIInv, ImgInv, HighConnectionsSurvive

\* A connection's reply is sent, or dropped, and its peer waits no more.
LEMMA ImgMatches ==
    ASSUME ImgIInv, NEW c \in Conns, conn[c] # Free,
           queued' = [queued EXCEPT ![c] = Free],
           asked' = IF Behind(c) \in Conns THEN [asked EXCEPT ![Behind(c)] = Free] ELSE asked,
           conn' = [conn EXCEPT ![c] = Free] \/ conn' = conn
    PROVE  Matching'
<1>1. ImgTypeOK /\ Matching
  BY DEF ImgIInv, ImgInv
<1>2. SUFFICES ASSUME NEW d \in Conns, queued'[d] # Free
               PROVE  /\ conn'[d] # Free
                      /\ queued'[d].body \in {queued'[d].name, Empty}
                      /\ conn'[d] >= 2 => queued'[d].name = asked'[d] /\ asked'[d] # Free
  BY DEF Matching
<1>3. d # c /\ queued'[d] = queued[d] /\ conn'[d] = conn[d]
  BY <1>1, <1>2 DEF ImgTypeOK
<1>4. /\ conn[d] # Free /\ queued[d].body \in {queued[d].name, Empty}
      /\ conn[d] >= 2 => queued[d].name = asked[d] /\ asked[d] # Free
  BY <1>1, <1>2, <1>3 DEF Matching
<1>5. conn[d] >= 2 => Behind(c) # d
  BY <1>3, <1>4, ImgOwnPeer
<1>6. conn[d] >= 2 => asked'[d] = asked[d]
  BY <1>1, <1>5 DEF ImgTypeOK
<1> QED
  BY <1>3, <1>4, <1>6

LEMMA ImgSendKeeps ==
    ASSUME ImgIInv, NEW c \in Conns, Send(c)
    PROVE  ImgIInv'
<1> USE ImgAssumption
<1>1. ImgTypeOK /\ HighConnectionsSurvive /\ NothingLeft /\ OneSeat /\ Matching
  BY DEF ImgIInv, ImgInv
<1>2. conn[c] \in Numbers /\ queued[c] # Free /\ conn[c] # Free
  BY <1>1 DEF Send, ImgTypeOK
<1>3. /\ queued' = [queued EXCEPT ![c] = Free]
      /\ asked' = IF Behind(c) \in Conns THEN [asked EXCEPT ![Behind(c)] = Free] ELSE asked
  BY <1>2 DEF Send, Reaches
<1>4. \/ table' = Freed(table, conn[c]) /\ conn' = [conn EXCEPT ![c] = Free]
      \/ UNCHANGED <<table, conn>>
  BY DEF Send
<1>5. asked' \in [Conns -> Named \cup {Free}]
  BY <1>1, <1>3 DEF ImgTypeOK
<1>6. ImgTypeOK'
  BY <1>1, <1>3, <1>4, <1>5 DEF ImgTypeOK, Freed
<1>7. HighConnectionsSurvive' /\ NothingLeft' /\ OneSeat'
  <2>1. CASE UNCHANGED <<table, conn>>
    BY <1>1, <2>1 DEF HighConnectionsSurvive, NothingLeft, OneSeat
  <2>2. CASE table' = Freed(table, conn[c]) /\ conn' = [conn EXCEPT ![c] = Free]
    BY <1>2, <2>2, ImgCloses
  <2> QED
    BY <1>4, <2>1, <2>2
<1>8. Matching'
  BY <1>2, <1>3, <1>4, ImgMatches
<1> QED
  BY <1>6, <1>7, <1>8 DEF ImgIInv, ImgInv

LEMMA ImgGoneKeeps ==
    ASSUME ImgIInv, NEW c \in Conns, Gone(c)
    PROVE  ImgIInv'
<1> USE ImgAssumption
<1>1. ImgTypeOK
  BY DEF ImgIInv, ImgInv
<1>2. /\ Behind(c) \in Conns /\ conn[c] \in Numbers /\ conn[c] # Free
      /\ table' = Freed(table, conn[c]) /\ conn' = [conn EXCEPT ![c] = Free]
      /\ queued' = [queued EXCEPT ![c] = Free] /\ asked' = [asked EXCEPT ![Behind(c)] = Free]
  BY <1>1 DEF Gone, ImgTypeOK
<1>3. ImgTypeOK'
  BY <1>1, <1>2 DEF ImgTypeOK, Freed
<1>4. HighConnectionsSurvive' /\ NothingLeft' /\ OneSeat'
  BY <1>2, ImgCloses
<1>5. Matching'
  BY <1>2, ImgMatches
<1> QED
  BY <1>3, <1>4, <1>5 DEF ImgIInv, ImgInv

\* The callback leaves the descriptors of the high connections alone, seats
\* nobody anew, and leaves nothing at 0 that can be read.
LEMMA ImgOpened ==
    ASSUME ImgIInv, NEW image \in Named
    PROVE  /\ Freed(AfterOpen(image), fd(image))
                \in [Numbers -> Conns \cup Images \cup Dirs \cup {Std, Free}]
           /\ \A n \in Numbers : n >= 2 /\ table[n] # Free =>
                 Freed(AfterOpen(image), fd(image))[n] = table[n]
           /\ \A n \in Numbers : Freed(AfterOpen(image), fd(image))[n] \in Conns =>
                 Freed(AfterOpen(image), fd(image))[n] = table[n]
           /\ Freed(AfterOpen(image), fd(image))[0] \notin Images \cup Dirs
           /\ Opens(image) /\ AfterOpen(image)[0] \in Images => AfterOpen(image)[0] = image
<1> USE ImgAssumption
<1>1. ImgTypeOK /\ NothingLeft /\ 0 \in Numbers /\ 1 \in Numbers
  BY DEF ImgIInv, ImgInv, Numbers
<1>2. CASE Opens(image)
  <2>1. PICK m \in Numbers : /\ m = Min(Unused) /\ table[m] = Free
                             /\ table[0] = Free => m = 0
    BY <1>2, ImgLowest DEF Opens
  <2>2. AfterOpen(image) = [table EXCEPT ![m] = image] /\ fd(image) = 0
    BY <1>2, <2>1 DEF AfterOpen, fd
  <2>3. image \in Images \cup Dirs
    BY <1>2 DEF Opens
  <2>4. Freed(AfterOpen(image), fd(image)) = [[table EXCEPT ![m] = image] EXCEPT ![0] = Free]
    BY <2>2 DEF Freed
  <2>5. AfterOpen(image)[0] \in Images => AfterOpen(image)[0] = image
    BY <1>1, <2>1, <2>2, <2>3 DEF ImgTypeOK, NothingLeft
  <2>6. 0 < 2
    OBVIOUS
  <2>7. image \notin Conns /\ Free \notin Conns
    BY <2>3
  <2> QED
    BY <1>1, <2>1, <2>3, <2>4, <2>5, <2>6, <2>7 DEF ImgTypeOK
<1>3. CASE ~Opens(image)
  <2>1. AfterOpen(image) = table /\ fd(image) = 1
    BY <1>3 DEF AfterOpen, fd
  <2> QED
    BY <1>1, <1>3, <2>1 DEF ImgTypeOK, NothingLeft, Freed, Numbers
<1> QED
  BY <1>2, <1>3

LEMMA ImgCallbackKeeps ==
    ASSUME ImgIInv, NEW c \in Conns, http_img_cb(c)
    PROVE  ImgIInv'
<1> USE ImgAssumption
<1>1. ImgTypeOK /\ HighConnectionsSurvive /\ OneSeat /\ Matching
  BY DEF ImgIInv, ImgInv
<1>2. PICK image \in Named :
         /\ image = asked[Behind(c)]
         /\ BadRequest(c, image) \/ NotFound(c, image) \/ Ok(c, image)
  BY <1>1 DEF http_img_cb, ImgTypeOK
<1>3. UNCHANGED <<conn, asked>> /\ conn[c] # Free /\ asked[Behind(c)] # Free
  BY DEF http_img_cb
<1> DEFINE after == Freed(AfterOpen(image), fd(image))
<1>4. table' = table \/ table' = after
  BY <1>2 DEF BadRequest, NotFound, Ok
<1>5. \E r \in ReplySet : /\ queued' = [queued EXCEPT ![c] = r]
                          /\ r.body \in {r.name, Empty} /\ r.name = image
  <2>1. ASSUME NEW s \in {200, 400, 404}, NEW b \in Images \cup {Empty}, b \in {image, Empty},
               Reply(c, s, b, image)
        PROVE  \E r \in ReplySet : /\ queued' = [queued EXCEPT ![c] = r]
                                   /\ r.body \in {r.name, Empty} /\ r.name = image
    <3> DEFINE r == [status |-> s, body |-> b, name |-> image]
    <3>1. r \in ReplySet /\ r.body = b /\ r.name = image
      BY DEF ReplySet
    <3>2. queued' = [queued EXCEPT ![c] = r]
      BY <2>1 DEF Reply
    <3> HIDE DEF r
    <3> QED
      BY <2>1, <3>1, <3>2
  <2>2. CASE BadRequest(c, image) \/ NotFound(c, image)
    BY <2>1, <2>2 DEF BadRequest, NotFound
  <2>3. CASE Ok(c, image)
    <3>1. Opens(image)
      BY <2>3 DEF Ok, fd
    <3> QED
      BY <2>1, <2>3, <3>1, ImgOpened DEF Ok
  <2> QED
    BY <1>2, <2>2, <2>3
<1>6. table' \in [Numbers -> Conns \cup Images \cup Dirs \cup {Std, Free}]
  BY <1>1, <1>4, ImgOpened DEF ImgTypeOK
<1>7. ImgTypeOK'
  BY <1>1, <1>3, <1>5, <1>6 DEF ImgTypeOK
<1>8. HighConnectionsSurvive'
  <2>1. \A n \in Numbers : n >= 2 /\ table[n] # Free => table'[n] = table[n]
    BY <1>4, ImgOpened
  <2> QED
    BY <1>1, <1>3, <2>1 DEF ImgTypeOK, HighConnectionsSurvive
<1>9. NothingLeft'
  BY <1>4, ImgOpened DEF NothingLeft, ImgIInv
<1>10. OneSeat'
  <2>1. \A n \in Numbers : table'[n] \in Conns => table'[n] = table[n]
    BY <1>4, ImgOpened
  <2> QED
    BY <1>1, <2>1 DEF OneSeat
<1>11. conn[c] >= 2 => Behind(c) = c
  BY <1>1, <1>3 DEF HighConnectionsSurvive, Behind
<1>12. Matching'
  BY <1>1, <1>2, <1>3, <1>5, <1>11 DEF Matching, ImgTypeOK
<1> QED
  BY <1>7, <1>8, <1>9, <1>10, <1>12 DEF ImgIInv, ImgInv

LEMMA ImgSteps == ImgIInv /\ [ImgNext]_img_vars => ImgIInv'
<1> SUFFICES ASSUME ImgIInv, [ImgNext]_img_vars
             PROVE  ImgIInv'
  OBVIOUS
<1>1. CASE UNCHANGED img_vars
  BY <1>1 DEF img_vars, ImgIInv, ImgInv, ImgTypeOK, HighConnectionsSurvive, NothingLeft,
              OneSeat, Matching
<1>2. ASSUME NEW c \in Conns, Ask(c) PROVE ImgIInv'
  <2>1. ImgTypeOK /\ HighConnectionsSurvive /\ NothingLeft /\ OneSeat /\ Matching
    BY DEF ImgIInv, ImgInv
  <2>2. UNCHANGED <<table, conn, queued>> /\ asked[c] = Free
    BY <1>2 DEF Ask
  <2>3. PICK image \in Named : asked' = [asked EXCEPT ![c] = image]
    BY <1>2 DEF Ask
  <2>4. ImgTypeOK'
    BY <2>1, <2>2, <2>3 DEF ImgTypeOK
  <2>5. Matching'
    BY <2>1, <2>2, <2>3 DEF Matching, ImgTypeOK
  <2> QED
    BY <2>1, <2>2, <2>4, <2>5 DEF ImgIInv, ImgInv, HighConnectionsSurvive, NothingLeft, OneSeat
<1> QED
  BY <1>1, <1>2, ImgAcceptKeeps, ImgSendKeeps, ImgGoneKeeps, ImgCallbackKeeps DEF ImgNext

LEMMA ImgInvariance == ImgSpec => []ImgIInv
<1>1. ImgInit => ImgIInv
  BY ImgStarts
<1>2. ImgIInv /\ [ImgNext]_img_vars => ImgIInv'
  BY ImgSteps
<1> QED
  BY <1>1, <1>2, PTL DEF ImgSpec

(***************************************************************************)
(* http_img_cb takes no descriptor from a connection whose number is above *)
(* 1, whatever it opens, leaks and closes by mistake (lines 52 to 93).     *)
(***************************************************************************)
THEOREM ConnectionsSurvive == ImgSpec => []ImgInv
<1>1. ImgIInv => ImgInv
  BY DEF ImgIInv
<1> QED
  BY <1>1, ImgInvariance, PTL

(***************************************************************************)
(* Whoever was accepted, closed or refused in between: a reply carries the *)
(* file its request named or nothing, although http_img_cb reads           *)
(* descriptor 0 whatever number open() returned; and a peer above 1 gets   *)
(* the reply to its own request.                                           *)
(***************************************************************************)
THEOREM RepliesAreOwn == ImgSpec => []OwnReplies
<1>1. ImgIInv => OwnReplies
  BY DEF ImgIInv, ImgInv, Matching, HighConnectionsSurvive, OwnReplies, Reaches, Behind
<1> QED
  BY <1>1, ImgInvariance, PTL

-----------------------------------------------------------------------------
(***************************************************************************)
(* HttpServ.  What holds of its events and connections owes nothing to the *)
(* files (ServShape).  With it, what is sent, what is left in the fd_state *)
(* and what is not read yet always make up one answer (InService).         *)
(***************************************************************************)
\* Which events a connection has, and who is in active.
ServEvents ==
    /\ live \subseteq Clients /\ due = {}
    /\ pending \subseteq {"read", "write"} \X Clients
    /\ active \subseteq pending \cup {<<"accept", Listener>>}
    /\ \A c \in Clients : c \in live <=> (Writing(c) \/ <<"read", c>> \in pending)
    /\ \A c \in Clients : ~(Writing(c) /\ <<"read", c>> \in pending)

\* A connected peer is in the backlog or has an fd_state, and is there once.
Places ==
    /\ NetTypeOK
    /\ IsInjective(backlog) /\ live \cap ToSet(backlog) = {}
    /\ \A c \in Clients : peer[c] = "idle" <=> c \notin live \cup ToSet(backlog)
    /\ <<"accept", Listener>> \in active => backlog # <<>>

ServShape == ServEvents /\ Places

Units == {Head200, Head302} \cup (Files \X Nat)

ServTypes ==
    /\ buffer \in [Clients -> Seq(Chunks)] /\ \A c \in Clients : Len(buffer[c]) <= BufMax
    /\ left \in [Clients -> Seq(Units)] /\ out \in [Clients -> Seq(Units)]
    /\ fl \in [Clients -> Files \cup {NULL}] /\ pos \in [Clients -> Nat]
    /\ eof \in [Clients -> BOOLEAN] /\ errno \in {"EAGAIN", "other"} /\ alive \in BOOLEAN
    /\ world \in Worlds

\* Unit i of the answer with file n.
Unit(n, i) == IF i = 1 THEN Head200 ELSE <<n, i - 1>>

\* s begins the answer with file n; s comes after unit o of it.
Begins(s, n)       == \A i \in 1 .. Len(s) : s[i] = Unit(n, i)
ComesAfter(s, n, o) == \A i \in 1 .. Len(s) : s[i] = <<n, o - 1 + i>>

\* What is sent, what is left and what is not read yet make up the answer.
InService(c) ==
    /\ Len(out[c]) \in 1 .. Size[fl[c]] + 1
    /\ Begins(out[c], fl[c]) /\ ComesAfter(left[c], fl[c], Len(out[c]))
    /\ Len(left[c]) = pos[c] + 1 - Len(out[c]) /\ Len(left[c]) <= Room
    /\ pos[c] <= Size[fl[c]]
    /\ eof[c] => pos[c] = Size[fl[c]]

\* The peer reset the connection before it was answered.
Unanswered(c) == peer[c] = "reset" /\ out[c] = <<>> /\ left[c] = <<>> /\ pos[c] = 0 /\ ~eof[c]

Answering(c) ==
    /\ buffer[c] # <<>>
    /\ fl[c] = NULL => left[c] = <<>>
    /\ fl[c] # NULL => /\ fl[c] = Page(Head(buffer[c]).asks)
                       /\ Unanswered(c) \/ InService(c)

Fresh(c) ==
    /\ left[c] = <<>> /\ fl[c] = NULL /\ pos[c] = 0 /\ ~eof[c]
    /\ c \in live => out[c] = <<>>
    /\ c \notin live => buffer[c] = <<>>

Part(c) == IF Writing(c) THEN Answering(c) ELSE Fresh(c)

ServData == ServTypes /\ \A c \in Clients : Part(c)

ServIInv == ServShape /\ ServData

-----------------------------------------------------------------------------
\* The types of the network, ready to use.
LEMMA PlacesFacts ==
    ASSUME Places
    PROVE  /\ backlog \in Seq(Clients) /\ IsInjective(backlog) /\ ToSet(backlog) \subseteq Clients
           /\ peer \in [Clients -> {"idle", "up", "closed", "reset"}]
           /\ inbox \in [Clients -> Seq(Chunks)]
           /\ live \cap ToSet(backlog) = {}
           /\ \A c \in Clients : peer[c] = "idle" <=> c \notin live \cup ToSet(backlog)
           /\ <<"accept", Listener>> \in active => backlog # <<>>
  BY Elements DEF Places, NetTypeOK

\* A step that moves no connection from one place to another.
LEMMA PlacesSame ==
    ASSUME Places, UNCHANGED <<live, backlog>>, NetTypeOK',
           \A c \in Clients : peer'[c] = "idle" <=> peer[c] = "idle",
           <<"accept", Listener>> \in active' => backlog # <<>>
    PROVE  Places'
  BY DEF Places

\* Peers dial when they are idle, and nothing else of them moves a connection.
LEMMA PlacesPeers ==
    ASSUME Places, PeerActs, UNCHANGED <<live, active>>
    PROVE  Places'
<1>1. PICK c \in Clients : Dial(c) \/ Transmit(c) \/ Depart(c)
  BY DEF PeerActs
<1>2. CASE Dial(c)
  <2>1. c \notin live /\ c \notin ToSet(backlog)
    BY <1>2, PlacesFacts DEF Dial
  <2>2. /\ backlog' \in Seq(Clients) /\ backlog' # <<>> /\ IsInjective(backlog)'
        /\ ToSet(backlog)' = ToSet(backlog) \cup {c}
    BY <1>2, <2>1, PlacesFacts, AppendAdds DEF Dial
  <2>3. peer' = [peer EXCEPT ![c] = "up"] /\ inbox' = inbox
    BY <1>2 DEF Dial
  <2>4. NetTypeOK'
    BY <2>2, <2>3, PlacesFacts DEF NetTypeOK
  <2>5. \A d \in Clients : peer'[d] = "idle" <=> d \notin live \cup ToSet(backlog)'
    BY <2>2, <2>3, PlacesFacts
  <2>6. live \cap ToSet(backlog)' = {}
    BY <2>1, <2>2, PlacesFacts
  <2> QED
    BY <2>2, <2>4, <2>5, <2>6 DEF Places
<1>3. CASE Transmit(c)
  <2>1. PICK chunk \in Chunks : inbox' = [inbox EXCEPT ![c] = Append(inbox[c], chunk)]
    BY <1>3 DEF Transmit
  <2>2. UNCHANGED <<peer, backlog>>
    BY <1>3 DEF Transmit
  <2>3. Append(inbox[c], chunk) \in Seq(Chunks)
    BY PlacesFacts, AppendAdds
  <2>4. NetTypeOK'
    BY <2>1, <2>2, <2>3, PlacesFacts DEF NetTypeOK
  <2> QED
    BY <2>2, <2>4, PlacesSame, PlacesFacts
<1>4. CASE Depart(c)
  <2>1. PICK how \in {"closed", "reset"} : peer' = [peer EXCEPT ![c] = how]
    BY <1>4 DEF Depart
  <2>2. UNCHANGED <<backlog, inbox>> /\ peer[c] = "up"
    BY <1>4 DEF Depart
  <2>3. NetTypeOK' /\ \A d \in Clients : peer'[d] = "idle" <=> peer[d] = "idle"
    BY <2>1, <2>2, PlacesFacts DEF NetTypeOK
  <2> QED
    BY <2>2, <2>3, PlacesSame, PlacesFacts
<1> QED
  BY <1>1, <1>2, <1>3, <1>4

\* The head of the backlog gets its fd_state.
LEMMA PlacesAccept ==
    ASSUME Places, <<"accept", Listener>> \in active, live' = live \cup {Head(backlog)},
           backlog' = Tail(backlog), UNCHANGED <<peer, inbox>>,
           active' = active \ {<<"accept", Listener>>}
    PROVE  /\ Places'
           /\ Head(backlog) \in Clients \ live
<1>1. /\ Head(backlog) \in Clients /\ Tail(backlog) \in Seq(Clients) /\ Head(backlog) \in ToSet(backlog)
      /\ ToSet(Tail(backlog)) = ToSet(backlog) \ {Head(backlog)} /\ IsInjective(Tail(backlog))
  BY PlacesFacts, TailTakes
<1>2. NetTypeOK'
  BY <1>1, PlacesFacts DEF NetTypeOK
<1>3. ToSet(backlog)' = ToSet(backlog) \ {Head(backlog)} /\ IsInjective(backlog)'
  BY <1>1
<1>4. \A d \in Clients : peer'[d] = "idle" <=> d \notin live' \cup ToSet(backlog)'
  BY <1>1, <1>3, PlacesFacts
<1>5. live' \cap ToSet(backlog)' = {} /\ Head(backlog) \notin live
  BY <1>1, <1>3, PlacesFacts
<1> QED
  BY <1>1, <1>2, <1>3, <1>4, <1>5 DEF Places

\* The head of the backlog is hung up, for its number is too high.
LEMMA PlacesRefuse ==
    ASSUME Places, <<"accept", Listener>> \in active, live' = live, Hungup(Head(backlog)),
           backlog' = Tail(backlog), active' = active \ {<<"accept", Listener>>}
    PROVE  /\ Places'
           /\ Head(backlog) \in Clients \ live
           /\ \A d \in Clients : d # Head(backlog) => peer'[d] = peer[d]
<1> PICK c : c = Head(backlog)
  OBVIOUS
<1>1. /\ c \in Clients /\ Tail(backlog) \in Seq(Clients) /\ c \in ToSet(backlog)
      /\ ToSet(Tail(backlog)) = ToSet(backlog) \ {c} /\ IsInjective(Tail(backlog))
  BY PlacesFacts, TailTakes
<1>2. peer' = [peer EXCEPT ![c] = "idle"] /\ inbox' = [inbox EXCEPT ![c] = <<>>]
  BY DEF Hungup
<1>3. NetTypeOK'
  BY <1>1, <1>2, PlacesFacts DEF NetTypeOK
<1>4. ToSet(backlog)' = ToSet(backlog) \ {c} /\ IsInjective(backlog)'
  BY <1>1
<1>5. \A d \in Clients : /\ peer'[d] = "idle" <=> d \notin live' \cup ToSet(backlog)'
                         /\ d # c => peer'[d] = peer[d]
  BY <1>1, <1>2, <1>4, PlacesFacts
<1>6. live' \cap ToSet(backlog)' = {} /\ c \notin live
  BY <1>1, <1>4, PlacesFacts
<1> QED
  BY <1>1, <1>3, <1>4, <1>5, <1>6 DEF Places

\* A connection that is freed is hung up, and its peer is idle.
LEMMA PlacesFree ==
    ASSUME Places, NEW c \in live, c \in Clients, live' = live \ {c}, Hungup(c),
           backlog' = backlog,
           active' \subseteq active
    PROVE  Places'
<1>1. peer' = [peer EXCEPT ![c] = "idle"] /\ inbox' = [inbox EXCEPT ![c] = <<>>]
  BY DEF Hungup
<1>2. NetTypeOK'
  BY <1>1, PlacesFacts DEF NetTypeOK
<1>3. c \notin ToSet(backlog)
  BY PlacesFacts
<1>4. \A d \in Clients : peer'[d] = "idle" <=> d \notin live' \cup ToSet(backlog)
  BY <1>1, <1>3, PlacesFacts
<1> QED
  BY <1>2, <1>4, PlacesFacts DEF Places
\* Who runs has an fd_state.
LEMMA Runner ==
    ASSUME ServShape, NEW c \in Clients, NEW k \in {"read", "write"}, Runs(<<k, c>>)
    PROVE  <<k, c>> \in pending /\ <<k, c>> \in active /\ c \in live
<1>1. <<k, c>> \in active /\ <<k, c>> # <<"accept", Listener>>
  BY DEF Runs
<1>2. <<k, c>> \in pending
  BY <1>1 DEF ServShape, ServEvents
<1>3. c \in live
  BY <1>2 DEF ServShape, ServEvents, Writing
<1> QED
  BY <1>1, <1>2, <1>3

\* A callback that keeps its event and its connection.
LEMMA KeepsShape ==
    ASSUME ServShape, NEW e, Keeps(e), UNCHANGED <<live, backlog>>, NetTypeOK',
           \A c \in Clients : peer'[c] = "idle" <=> peer[c] = "idle"
    PROVE  ServShape'
<1>1. active' \subseteq active /\ UNCHANGED <<pending, due>>
  BY DEF Keeps, Ran
<1>2. ServEvents'
  BY <1>1 DEF ServShape, ServEvents, Writing
<1>3. Places'
  BY <1>1, PlacesSame, PlacesFacts DEF ServShape
<1> QED
  BY <1>2, <1>3 DEF ServShape

LEMMA FreeShape ==
    ASSUME ServShape, NEW c \in live, free_fd_state(c)
    PROVE  ServShape'
<1>1. /\ c \in Clients /\ live' = live \ {c} /\ UNCHANGED <<due, backlog>> /\ Hungup(c)
      /\ pending' = pending \ Events(c) /\ active' = active \ Events(c)
  BY DEF free_fd_state, ServShape, ServEvents
<1>2. \A d \in Clients, k \in {"read", "write"} :
         <<k, d>> \in pending' <=> <<k, d>> \in pending /\ d # c
  BY <1>1 DEF Events, Kinds
<1>3. active' \subseteq pending' \cup {<<"accept", Listener>>}
  BY <1>1 DEF ServShape, ServEvents
<1>4. ServEvents'
  BY <1>1, <1>2, <1>3 DEF ServShape, ServEvents, Writing
<1>5. Places'
  BY <1>1, PlacesFree DEF ServShape
<1> QED
  BY <1>4, <1>5 DEF ServShape

LEMMA AcceptShape ==
    ASSUME ServShape, do_accept
    PROVE  ServShape'
<1>1. <<"accept", Listener>> \in active /\ active' = active \ {<<"accept", Listener>>}
  BY DEF do_accept, Runs, Ran
<1>2. UNCHANGED due
  BY DEF do_accept
<1>3. ASSUME UNCHANGED <<live, pending>> PROVE ServEvents'
  BY <1>1, <1>2, <1>3 DEF ServShape, ServEvents, Writing
<1>4. CASE UNCHANGED <<live, pending, net_vars>>
  <2>1. NetTypeOK' /\ UNCHANGED <<live, peer, backlog>>
    BY <1>4 DEF ServShape, Places, NetTypeOK, net_vars
  <2>2. Places'
    BY <1>1, <2>1, PlacesSame DEF ServShape
  <2> QED
    BY <1>3, <1>4, <2>2 DEF ServShape
<1>5. CASE UNCHANGED <<live, pending>> /\ backlog' = Tail(backlog) /\ Hungup(Head(backlog))
  BY <1>1, <1>3, <1>5, PlacesRefuse DEF ServShape
<1>6. CASE /\ UNCHANGED <<peer, inbox>>
           /\ live' = live \cup {Head(backlog)} /\ pending' = pending \cup {<<"read", Head(backlog)>>}
           /\ backlog' = Tail(backlog)
  <2> PICK c : c = Head(backlog)
    OBVIOUS
  <2>1. Places' /\ c \in Clients /\ c \notin live
    BY <1>1, <1>2, <1>6, PlacesAccept DEF ServShape
  <2>2. \A d \in Clients : /\ <<"read", d>> \in pending' <=> <<"read", d>> \in pending \/ d = c
                           /\ <<"write", d>> \in pending' <=> <<"write", d>> \in pending
    BY <1>6
  <2>3. ServEvents'
    BY <1>1, <1>2, <1>6, <2>1, <2>2 DEF ServShape, ServEvents, Writing
  <2> QED
    BY <2>1, <2>3 DEF ServShape
<1> QED
  BY <1>4, <1>5, <1>6 DEF do_accept

LEMMA DispatchShape ==
    ASSUME ServShape, Dispatch
    PROVE  ServShape'
<1>1. PICK takers \in SUBSET Clients : active' = Ready(takers)
  BY DEF Dispatch, dispatch
<1>2. UNCHANGED <<pending, due, live, peer, backlog, inbox>>
  BY DEF Dispatch, dispatch, state_vars, net_vars
<1>3. active' \subseteq pending \cup {<<"accept", Listener>>}
  BY <1>1 DEF Ready
<1>4. <<"accept", Listener>> \in active' => backlog # <<>>
  <2>1. <<"accept", Listener>> \notin pending
    BY DEF ServShape, ServEvents
  <2> QED
    BY <1>1, <2>1 DEF Ready
<1>5. ServEvents'
  BY <1>2, <1>3 DEF ServShape, ServEvents, Writing
<1>6. Places'
  BY <1>2, <1>4 DEF ServShape, Places, NetTypeOK
<1> QED
  BY <1>5, <1>6 DEF ServShape

\* What a callback may do to its peer and its inbox, apart from freeing them.
LEMMA PeersAfter ==
    ASSUME ServShape, NEW c \in Clients,
           peer' = peer \/ \E p \in AfterSend(c) : peer' = [peer EXCEPT ![c] = p],
           inbox' = inbox \/ (inbox[c] # <<>> /\ inbox' = [inbox EXCEPT ![c] = Tail(@)]),
           backlog' = backlog
    PROVE  /\ NetTypeOK'
           /\ \A d \in Clients : peer'[d] = "idle" <=> peer[d] = "idle"
           /\ \A d \in Clients : peer[d] = "reset" => peer'[d] = "reset"
           /\ \A d \in Clients : d # c => peer'[d] = peer[d]
<1>1. peer \in [Clients -> {"idle", "up", "closed", "reset"}] /\ inbox \in [Clients -> Seq(Chunks)]
  BY PlacesFacts DEF ServShape
<1>2. inbox' \in [Clients -> Seq(Chunks)]
  <2>1. inbox[c] # <<>> => Tail(inbox[c]) \in Seq(Chunks)
    BY <1>1
  <2> QED
    BY <1>1, <2>1
<1>3. /\ peer' \in [Clients -> {"idle", "up", "closed", "reset"}]
      /\ \A d \in Clients : peer'[d] = "idle" <=> peer[d] = "idle"
      /\ \A d \in Clients : peer[d] = "reset" => peer'[d] = "reset"
      /\ \A d \in Clients : d # c => peer'[d] = peer[d]
  BY <1>1 DEF AfterSend
<1>4. backlog' \in Seq(Clients)
  BY PlacesFacts DEF ServShape
<1> QED
  BY <1>2, <1>3, <1>4 DEF NetTypeOK

LEMMA ReadShape ==
    ASSUME ServShape, NEW c \in Clients, do_read(c)
    PROVE  ServShape'
<1>1. CASE ReadEnd(c) \/ ReadRefused(c)
  <2>1. Runs(<<"read", c>>) /\ free_fd_state(c)
    BY <1>1 DEF ReadEnd, ReadRefused, Received
  <2> QED
    BY <2>1, Runner, FreeShape
<1>2. CASE ReadPart(c)
  <2>1. /\ Keeps(<<"read", c>>) /\ UNCHANGED <<live, peer, backlog>>
        /\ inbox[c] # <<>> /\ inbox' = [inbox EXCEPT ![c] = Tail(@)]
    BY <1>2 DEF ReadPart, Received
  <2>2. NetTypeOK' /\ \A d \in Clients : peer'[d] = "idle" <=> peer[d] = "idle"
    BY <2>1, PeersAfter
  <2> QED
    BY <2>1, <2>2, KeepsShape
<1>3. CASE ReadRequest(c)
  <2>1. /\ Runs(<<"read", c>>) /\ UNCHANGED <<live, due, backlog>>
        /\ inbox[c] # <<>> /\ inbox' = [inbox EXCEPT ![c] = Tail(@)]
        /\ pending' = (pending \ Events(c)) \cup {<<"write", c>>} /\ active' = active \ Events(c)
        /\ peer' = peer \/ \E p \in AfterSend(c) : peer' = [peer EXCEPT ![c] = p]
    BY <1>3 DEF ReadRequest, Received
  <2>2. NetTypeOK' /\ \A d \in Clients : peer'[d] = "idle" <=> peer[d] = "idle"
    BY <2>1, PeersAfter
  <2>3. Places'
    BY <2>1, <2>2, PlacesSame, PlacesFacts DEF ServShape
  <2>4. \A d \in Clients : /\ <<"read", d>> \in pending' <=> <<"read", d>> \in pending /\ d # c
                           /\ <<"write", d>> \in pending' <=> <<"write", d>> \in pending \/ d = c
    BY <2>1 DEF Events, Kinds
  <2>5. c \in live
    BY <2>1, Runner
  <2>6. /\ active' \subseteq pending' \cup {<<"accept", Listener>>}
        /\ pending' \subseteq {"read", "write"} \X Clients
    BY <2>1 DEF ServShape, ServEvents
  <2>7. ServEvents'
    BY <2>1, <2>4, <2>5, <2>6 DEF ServShape, ServEvents, Writing
  <2> QED
    BY <2>3, <2>7 DEF ServShape
<1> QED
  BY <1>1, <1>2, <1>3 DEF do_read

LEMMA WriteShape ==
    ASSUME ServShape, NEW c \in Clients, do_write(c)
    PROVE  ServShape'
<1>1. CASE Crash(c)
  BY <1>1 DEF Crash, state_vars, loop_vars, net_vars, ServShape, ServEvents, Places,
     NetTypeOK, Writing
<1>2. ASSUME NEW k, Sent(c, k),
             peer' = peer \/ \E p \in AfterSend(c) : peer' = [peer EXCEPT ![c] = p]
      PROVE  ServShape'
  <2>1. Keeps(<<"write", c>>) /\ UNCHANGED <<live, backlog, inbox>>
    BY <1>2 DEF Sent
  <2>2. NetTypeOK' /\ \A d \in Clients : peer'[d] = "idle" <=> peer[d] = "idle"
    BY <1>2, <2>1, PeersAfter
  <2> QED
    BY <2>1, <2>2, KeepsShape
<1>3. CASE WriteAgain(c) \/ WriteStale(c)
  BY <1>2, <1>3 DEF WriteAgain, WriteStale
<1>4. ASSUME Sending(c), free_fd_state(c) PROVE ServShape'
  BY <1>4, Runner, FreeShape DEF Sending
<1>5. CASE WriteEnd(c)
  BY <1>4, <1>5 DEF WriteEnd
<1>6. CASE WriteSome(c)
  BY <1>2, <1>4, <1>6 DEF WriteSome
<1> QED
  BY <1>1, <1>3, <1>5, <1>6 DEF do_write

LEMMA ShapeInit == Init => ServShape
<1> SUFFICES ASSUME Init PROVE ServShape
  OBVIOUS
<1>1. backlog = <<>> /\ backlog \in Seq(Clients) /\ ToSet(backlog) = {} /\ IsInjective(backlog)
  BY EmptySeq DEF Init, NetInit, ToSet, IsInjective
<1>2. Places
  BY <1>1 DEF Init, NetInit, LoopInit, Places, NetTypeOK
<1>3. ServEvents
  BY DEF Init, LoopInit, ServEvents, Writing
<1> QED
  BY <1>2, <1>3 DEF ServShape

LEMMA ShapeNext == ServShape /\ [Next]_vars => ServShape'
<1> SUFFICES ASSUME ServShape, [Next]_vars PROVE ServShape'
  OBVIOUS
<1>1. CASE UNCHANGED vars
  BY <1>1 DEF vars, state_vars, loop_vars, net_vars, ServShape, ServEvents, Places,
     NetTypeOK, Writing
<1>2. CASE PeerActs /\ UNCHANGED <<state_vars, out, errno, alive, loop_vars>>
  <2>1. UNCHANGED <<live, pending, due, active>>
    BY <1>2 DEF state_vars, loop_vars
  <2>2. Places'
    BY <1>2, <2>1, PlacesPeers DEF ServShape
  <2> QED
    BY <2>1, <2>2 DEF ServShape, ServEvents, Writing
<1>3. CASE Next
  BY <1>2, <1>3, AcceptShape, DispatchShape, ReadShape, WriteShape DEF Next, Callback
<1> QED
  BY <1>1, <1>3
-----------------------------------------------------------------------------
\* A file as the units it has.
LEMMA ContentIs ==
    ASSUME NEW n \in Files
    PROVE  /\ Size[n] \in Nat
           /\ Content(n) \in Seq(Units) /\ Len(Content(n)) = Size[n]
           /\ \A i \in 1 .. Size[n] : Content(n)[i] = <<n, i>>
<1>1. Size[n] \in Nat
  BY ServAssumption
<1>2. \A i \in 1 .. Size[n] : <<n, i>> \in Units
  BY <1>1 DEF Units
<1>3. Content(n) \in [1 .. Size[n] -> Units]
  BY <1>2 DEF Content
<1>4. Content(n) \in Seq(Units)
  BY <1>1, <1>3
<1> QED
  BY <1>1, <1>3, <1>4 DEF Content

\* A piece of it, from unit p + 1 on.
LEMMA PieceIs ==
    ASSUME NEW n \in Files, NEW p \in Nat, NEW m \in Nat, p <= m, m <= Size[n]
    PROVE  /\ SubSeq(Content(n), p + 1, m) \in Seq(Units)
           /\ Len(SubSeq(Content(n), p + 1, m)) = m - p
           /\ \A i \in 1 .. m - p : SubSeq(Content(n), p + 1, m)[i] = <<n, p + i>>
<1> DEFINE s == Content(n)
<1>1. s \in Seq(Units) /\ Len(s) = Size[n] /\ Size[n] \in Nat
      /\ \A i \in 1 .. Size[n] : s[i] = <<n, i>>
  BY ContentIs
<1> HIDE DEF s
<1>2. CASE p = m
  BY <1>1, <1>2, SubSeqEmpty, SubSeqProperties
<1>3. CASE p < m
  <2>1. /\ SubSeq(s, p + 1, m) \in Seq(Units) /\ Len(SubSeq(s, p + 1, m)) = m - p
        /\ \A i \in 1 .. m - p : SubSeq(s, p + 1, m)[i] = s[p + i]
    BY <1>1, <1>3, SubSeqProperties
  <2> QED
    BY <1>1, <1>3, <2>1 DEF s
<1> QED
  BY <1>2, <1>3 DEF s

\* What do_write sends next to a peer in service (see Data).
LEMMA DataIs ==
    ASSUME ServData, NEW c \in Clients, fl[c] \in Files, InService(c)
    PROVE  \E m \in Nat :
              /\ m = IF Reads(c) THEN pos[c] + Len(Piece(c)) ELSE pos[c]
              /\ m <= Size[fl[c]] /\ (AtEof(c) \/ Data(c) = <<>> => m = Size[fl[c]])
              /\ Data(c) \in Seq(Units) /\ Len(Data(c)) = m + 1 - Len(out[c]) /\ Len(Data(c)) <= Room
              /\ ComesAfter(Data(c), fl[c], Len(out[c]))
<1> PICK n \in Files : n = fl[c]
  OBVIOUS
<1> PICK p : p = pos[c]
  OBVIOUS
<1>1. /\ p \in Nat /\ out[c] \in Seq(Units) /\ left[c] \in Seq(Units) /\ eof[c] \in BOOLEAN
      /\ Size[n] \in Nat /\ Room \in Nat \ {0} /\ Len(out[c]) \in Nat /\ p <= Size[n]
  BY ServAssumption DEF ServData, ServTypes, InService
<1>2. CASE left[c] = <<>>
  <2>1. PICK m \in Nat : m = IF p + Room < Size[n] THEN p + Room ELSE Size[n]
    BY <1>1
  <2>2. p <= m /\ m <= Size[n] /\ m - p <= Room
    BY <1>1, <2>1
  <2>3. Piece(c) = SubSeq(Content(n), p + 1, m) /\ Reads(c) /\ Data(c) = Piece(c)
    BY <1>2, <2>1 DEF Piece, Reads, Data
  <2>4. /\ Data(c) \in Seq(Units) /\ Len(Data(c)) = m - p
        /\ \A i \in 1 .. m - p : Data(c)[i] = <<n, p + i>>
    <3>1. /\ SubSeq(Content(n), p + 1, m) \in Seq(Units)
          /\ Len(SubSeq(Content(n), p + 1, m)) = m - p
          /\ \A i \in 1 .. m - p : SubSeq(Content(n), p + 1, m)[i] = <<n, p + i>>
      <4>1. p \in Nat /\ m \in Nat /\ p <= m /\ m <= Size[n] /\ n \in Files
        BY <1>1, <2>1, <2>2
      <4> QED
        BY <4>1, PieceIs
    <3> QED
      BY <2>3, <3>1
  <2>5. Len(out[c]) = p + 1
    BY <1>1, <1>2 DEF InService
  <2>6. AtEof(c) \/ Data(c) = <<>> => m = Size[n]
    <3>1. AtEof(c) => m = Size[n]
      BY <1>1, <2>1 DEF AtEof, InService
    <3>2. Data(c) = <<>> => m = p
      BY <1>1, <2>1, <2>2, <2>4
    <3> QED
      BY <1>1, <2>1, <3>1, <3>2
  <2>7. m = p + Len(Piece(c))
    BY <1>1, <2>1, <2>3, <2>4
  <2>8. \A i \in 1 .. Len(Data(c)) : Data(c)[i] = <<n, Len(out[c]) - 1 + i>>
    BY <1>1, <2>2, <2>4, <2>5
  <2>9. Len(Data(c)) = m + 1 - Len(out[c]) /\ Len(Data(c)) <= Room
    BY <1>1, <2>1, <2>2, <2>4, <2>5
  <2> QED
    BY <2>1, <2>2, <2>3, <2>4, <2>6, <2>7, <2>8, <2>9 DEF ComesAfter
<1>3. CASE left[c] # <<>>
  <2>1. Data(c) = left[c] /\ ~Reads(c)
    BY <1>3 DEF Data, Reads
  <2>2. AtEof(c) \/ Data(c) = <<>> => p = Size[n]
    BY <1>3, <2>1 DEF AtEof, InService
  <2> QED
    BY <1>1, <2>1, <2>2 DEF InService
<1> QED
  BY <1>2, <1>3

\* o units are sent, l are left, k of them go.
LEMMA Counted ==
    ASSUME NEW k \in Nat, NEW l \in Nat, NEW m \in Nat, NEW o \in Nat, NEW size \in Nat,
           NEW r \in Nat, k <= l, l = m + 1 - o, 1 <= o, m <= size, l <= r
    PROVE  l - k = m + 1 - (o + k) /\ l - k <= r /\ o + k \in 1 .. size + 1
  OBVIOUS

\* Of the units d that come after unit o, the first k are sent.
LEMMA MovedOut ==
    ASSUME NEW n \in Files, NEW s \in Seq(Units), NEW t \in Seq(Units), NEW o \in Nat,
           o = Len(s), o >= 1, Begins(s, n), ComesAfter(t, n, o)
    PROVE  s \o t \in Seq(Units) /\ Len(s \o t) = o + Len(t) /\ Begins(s \o t, n)
<1> PICK v : v = s \o t
  OBVIOUS
<1> PICK k \in Nat : k = Len(t)
  OBVIOUS
<1>1. /\ v \in Seq(Units) /\ Len(v) = o + k /\ \A i \in 1 .. o : v[i] = s[i]
      /\ \A i \in o + 1 .. o + k : v[i] = t[i - o]
  BY Joined
<1>2. ASSUME NEW i \in 1 .. o + k PROVE v[i] = Unit(n, i)
  <2>1. CASE i <= o
    BY <1>1, <2>1 DEF Begins
  <2>2. CASE i > o
    <3> PICK j : j = i - o
      OBVIOUS
    <3>1. j \in 1 .. k /\ i = o + j /\ i \in o + 1 .. o + k /\ i # 1
      BY <2>2
    <3>2. t[j] = <<n, o - 1 + j>>
      BY <3>1 DEF ComesAfter
    <3>3. v[i] = t[j] /\ o - 1 + j = i - 1
      BY <1>1, <3>1
    <3> QED
      BY <3>1, <3>2, <3>3 DEF Unit
  <2> QED
    BY <2>1, <2>2
<1> QED
  BY <1>1, <1>2 DEF Begins

\* The first k are where d is; the others come after them.
LEMMA MovedLeft ==
    ASSUME NEW n \in Files, NEW d \in Seq(Units), NEW k \in 0 .. Len(d), NEW o \in Nat,
           ComesAfter(d, n, o)
    PROVE  /\ ComesAfter(SubSeq(d, 1, k), n, o)
           /\ ComesAfter(SubSeq(d, k + 1, Len(d)), n, o + k)
<1> PICK t : t = SubSeq(d, 1, k)
  OBVIOUS
<1> PICK rest : rest = SubSeq(d, k + 1, Len(d))
  OBVIOUS
<1>1. /\ t \in Seq(Units) /\ Len(t) = k /\ \A i \in 1 .. k : t[i] = d[i]
      /\ rest \in Seq(Units) /\ Len(rest) = Len(d) - k /\ \A i \in 1 .. Len(d) - k : rest[i] = d[k + i]
  BY Cut
<1> PICK l \in Nat : l = Len(d)
  OBVIOUS
<1>2. k \in Nat /\ k <= l
  OBVIOUS
<1>3. ASSUME NEW i \in 1 .. l - k PROVE rest[i] = <<n, (o + k) - 1 + i>>
  <2> PICK j : j = k + i
    OBVIOUS
  <2>1. j \in 1 .. l /\ o - 1 + j = (o + k) - 1 + i
    BY <1>2
  <2>2. d[j] = <<n, o - 1 + j>>
    BY <2>1 DEF ComesAfter
  <2>3. rest[i] = d[j]
    BY <1>1
  <2> QED
    BY <2>1, <2>2, <2>3
<1>4. ComesAfter(t, n, o)
  BY <1>1, <1>2 DEF ComesAfter
<1>5. ComesAfter(rest, n, o + k)
  BY <1>1, <1>3 DEF ComesAfter
<1> QED
  BY <1>4, <1>5

\* The callback sent k more units of the answer.
LEMMA SentService ==
    ASSUME ServData, NEW c \in Clients, fl[c] \in Files, InService(c),
           NEW k \in 0 .. Len(Data(c)), Sent(c, k), out'[c] = out[c] \o SubSeq(Data(c), 1, k)
    PROVE  /\ left' \in [Clients -> Seq(Units)] /\ pos' \in [Clients -> Nat]
           /\ eof' \in [Clients -> BOOLEAN]
           /\ \A d \in Clients : d # c => left'[d] = left[d] /\ pos'[d] = pos[d] /\ eof'[d] = eof[d]
           /\ out'[c] \in Seq(Units) /\ InService(c)'
<1> PICK n \in Files : n = fl[c]
  OBVIOUS
<1> PICK s : s = out[c]
  OBVIOUS
<1> PICK d : d = Data(c)
  OBVIOUS
<1>1. PICK m \in Nat :
         /\ m = IF Reads(c) THEN pos[c] + Len(Piece(c)) ELSE pos[c]
         /\ m <= Size[n] /\ (AtEof(c) => m = Size[n])
         /\ d \in Seq(Units) /\ Len(d) = m + 1 - Len(s) /\ Len(d) <= Room
         /\ ComesAfter(d, n, Len(s))
  BY DataIs
<1>2. /\ left \in [Clients -> Seq(Units)] /\ pos \in [Clients -> Nat] /\ eof \in [Clients -> BOOLEAN]
      /\ s \in Seq(Units) /\ Size[n] \in Nat /\ Room \in Nat
  BY ServAssumption DEF ServData, ServTypes
<1>3. Len(s) \in 1 .. Size[n] + 1 /\ Begins(s, n) /\ s # <<>>
  BY <1>2 DEF InService
<1>4. /\ left' = [left EXCEPT ![c] = SubSeq(d, k + 1, Len(d))]
      /\ pos' = [pos EXCEPT ![c] = IF Reads(c) THEN @ + Len(Piece(c)) ELSE @]
      /\ eof' = [eof EXCEPT ![c] = AtEof(c)] /\ fl' = fl
  BY DEF Sent
<1>5. AtEof(c) \in BOOLEAN
  BY <1>2 DEF AtEof, Reads
<1>6. /\ out'[c] \in Seq(Units) /\ Len(out'[c]) = Len(s) + k /\ Begins(out'[c], n)
      /\ SubSeq(d, k + 1, Len(d)) \in Seq(Units) /\ Len(SubSeq(d, k + 1, Len(d))) = Len(d) - k
      /\ ComesAfter(SubSeq(d, k + 1, Len(d)), n, Len(s) + k)
  <2>1. /\ s \in Seq(Units) /\ d \in Seq(Units) /\ k \in 0 .. Len(d)
        /\ Begins(s, n) /\ ComesAfter(d, n, Len(s)) /\ s # <<>>
    BY <1>1, <1>2, <1>3
  <2> PICK rest : rest = SubSeq(d, k + 1, Len(d))
    OBVIOUS
  <2> PICK t : t = SubSeq(d, 1, k)
    OBVIOUS
  <2> PICK o \in Nat : o = Len(s)
    BY <1>2, LenProperties
  <2>2. t \in Seq(Units) /\ Len(t) = k /\ rest \in Seq(Units) /\ Len(rest) = Len(d) - k
    BY <2>1, Cut
  <2>3. ComesAfter(t, n, o) /\ ComesAfter(rest, n, o + k)
    BY <2>1, MovedLeft
  <2>4. o = Len(s) /\ o >= 1 /\ Begins(s, n)
    BY <1>2, <2>1
  <2>5. s \o t \in Seq(Units) /\ Len(s \o t) = o + k /\ Begins(s \o t, n)
    <3>1. n \in Files /\ s \in Seq(Units) /\ t \in Seq(Units) /\ o \in Nat
      BY <1>2, <2>1, <2>2
    <3>2. o = Len(s) /\ o >= 1 /\ Begins(s, n) /\ ComesAfter(t, n, o)
      BY <2>3, <2>4
    <3>3. s \o t \in Seq(Units) /\ Len(s \o t) = o + Len(t) /\ Begins(s \o t, n)
      BY ONLY <3>1, <3>2, MovedOut
    <3> QED
      BY <2>2, <3>3
  <2> QED
    BY <2>2, <2>3, <2>5
<1>7. pos'[c] = m /\ pos' \in [Clients -> Nat] /\ \A e \in Clients : e # c => pos'[e] = pos[e]
  BY <1>1, <1>2, <1>4
<1>8. /\ left' \in [Clients -> Seq(Units)] /\ Len(left'[c]) = Len(d) - k
      /\ ComesAfter(left'[c], n, Len(s) + k) /\ \A e \in Clients : e # c => left'[e] = left[e]
  BY <1>2, <1>4, <1>6
<1>9. /\ eof' \in [Clients -> BOOLEAN] /\ (eof'[c] => m = Size[n])
      /\ \A e \in Clients : e # c => eof'[e] = eof[e]
  BY <1>1, <1>2, <1>4, <1>5
<1>10. Len(d) - k = m + 1 - (Len(s) + k) /\ Len(d) - k <= Room /\ Len(s) + k \in 1 .. Size[n] + 1
  <2>1. /\ k \in Nat /\ Len(s) \in Nat /\ Len(d) \in Nat /\ m \in Nat
        /\ k <= Len(d) /\ Len(d) = m + 1 - Len(s) /\ 1 <= Len(s) /\ m <= Size[n] /\ Len(d) <= Room
    BY <1>1, <1>2, <1>3
  <2> QED
    BY <1>2, <2>1, Counted
<1>11. InService(c)'
  <2>1. Len(out'[c]) \in 1 .. Size[n] + 1 /\ Begins(out'[c], n)
    BY <1>6, <1>10
  <2>2. Len(left'[c]) = pos'[c] + 1 - Len(out'[c]) /\ Len(left'[c]) <= Room
    BY <1>6, <1>7, <1>8, <1>10
  <2>3. ComesAfter(left'[c], n, Len(out'[c]))
    BY <1>6, <1>8
  <2>4. pos'[c] <= Size[n] /\ (eof'[c] => pos'[c] = Size[n])
    BY <1>1, <1>7, <1>9
  <2>5. fl'[c] = n
    BY <1>4
  <2> QED
    BY <2>1, <2>2, <2>3, <2>4, <2>5 DEF InService
<1> QED
  BY <1>6, <1>7, <1>8, <1>9, <1>11

\* A connection whose part of the state a step leaves alone.
LEMMA PartSame ==
    ASSUME NEW c \in Clients, Part(c),
           /\ buffer'[c] = buffer[c] /\ left'[c] = left[c] /\ fl'[c] = fl[c]
           /\ pos'[c] = pos[c] /\ eof'[c] = eof[c] /\ out'[c] = out[c],
           c \in live' <=> c \in live, Writing(c)' <=> Writing(c),
           peer[c] = "reset" => peer'[c] = "reset"
    PROVE  Part(c)'
<1>1. InService(c) => InService(c)'
  BY DEF InService
<1>2. Unanswered(c) => Unanswered(c)'
  BY DEF Unanswered
<1>3. Answering(c) => Answering(c)'
  BY <1>1, <1>2 DEF Answering, Page
<1>4. Fresh(c) => Fresh(c)'
  BY DEF Fresh
<1> QED
  BY <1>3, <1>4 DEF Part

\* A step that leaves all of them alone.
LEMMA DataSame ==
    ASSUME ServData, UNCHANGED <<buffer, left, fl, pos, eof, out, live, pending, world>>,
           errno' \in {"EAGAIN", "other"}, alive' \in BOOLEAN,
           \A c \in Clients : peer[c] = "reset" => peer'[c] = "reset"
    PROVE  ServData'
<1>1. ServTypes'
  BY DEF ServData, ServTypes
<1>2. \A c \in Clients : Writing(c)' <=> Writing(c)
  BY DEF Writing
<1>3. ASSUME NEW c \in Clients PROVE Part(c)'
  BY <1>2, <1>3, PartSame DEF ServData
<1> QED
  BY <1>1, <1>3 DEF ServData

\* A connection that is freed.
LEMMA FreeData ==
    ASSUME ServShape, ServData, NEW c \in live, free_fd_state(c),
           out' \in [Clients -> Seq(Units)],
           \A d \in Clients : d # c => out'[d] = out[d],
           errno' \in {"EAGAIN", "other"}, alive' \in BOOLEAN, world' = world
    PROVE  ServData'
<1>1. /\ c \in Clients /\ live' = live \ {c} /\ pending' = pending \ Events(c) /\ Hungup(c)
      /\ buffer' = [buffer EXCEPT ![c] = <<>>] /\ left' = [left EXCEPT ![c] = <<>>]
      /\ fl' = [fl EXCEPT ![c] = NULL] /\ pos' = [pos EXCEPT ![c] = 0]
      /\ eof' = [eof EXCEPT ![c] = FALSE]
  BY DEF free_fd_state, Closed, ServShape, ServEvents
<1>2. /\ buffer \in [Clients -> Seq(Chunks)] /\ \A d \in Clients : Len(buffer[d]) <= BufMax
      /\ left \in [Clients -> Seq(Units)] /\ fl \in [Clients -> Files \cup {NULL}]
      /\ pos \in [Clients -> Nat] /\ eof \in [Clients -> BOOLEAN]
  BY DEF ServData, ServTypes
<1>3. \A d \in Clients : Writing(d)' <=> Writing(d) /\ d # c
  BY <1>1 DEF Writing, Events, Kinds
<1>4. peer \in [Clients -> {"idle", "up", "closed", "reset"}]
  BY PlacesFacts DEF ServShape
<1>5. BufMax \in Nat
  BY ServAssumption
<1>6. ServTypes'
  <2>1. buffer' \in [Clients -> Seq(Chunks)] /\ \A d \in Clients : Len(buffer'[d]) <= BufMax
    BY <1>1, <1>2, <1>5
  <2>2. left' \in [Clients -> Seq(Units)]
    BY <1>1, <1>2
  <2>3. /\ fl' \in [Clients -> Files \cup {NULL}] /\ pos' \in [Clients -> Nat]
        /\ eof' \in [Clients -> BOOLEAN]
    BY <1>1, <1>2
  <2> QED
    BY <2>1, <2>2, <2>3 DEF ServData, ServTypes
<1>7. ASSUME NEW d \in Clients, d # c PROVE Part(d)'
  <2>1. /\ buffer'[d] = buffer[d] /\ left'[d] = left[d] /\ fl'[d] = fl[d]
        /\ pos'[d] = pos[d] /\ eof'[d] = eof[d] /\ out'[d] = out[d]
    BY <1>1, <1>2, <1>7
  <2>2. peer'[d] = peer[d]
    BY <1>1, <1>4, <1>7 DEF Hungup
  <2> QED
    BY <1>1, <1>3, <1>7, <2>1, <2>2, PartSame DEF ServData
<1>8. Part(c)'
  BY <1>1, <1>2, <1>3 DEF Part, Fresh
<1> QED
  BY <1>6, <1>7, <1>8 DEF ServData

LEMMA AcceptData ==
    ASSUME ServShape, ServData, do_accept, world' = world
    PROVE  ServData'
<1>1. /\ UNCHANGED <<buffer, left, fl, pos, eof, alive, due>>
      /\ <<"accept", Listener>> \in active /\ active' = active \ {<<"accept", Listener>>}
  BY DEF do_accept, Runs, Ran
<1>2. ASSUME errno' = "other", UNCHANGED <<live, out, pending, net_vars>> PROVE ServData'
  <2>1. alive' \in BOOLEAN /\ \A c \in Clients : peer[c] = "reset" => peer'[c] = "reset"
    BY <1>1, <1>2 DEF ServData, ServTypes, net_vars
  <2> QED
    BY <1>1, <1>2, <2>1, DataSame
<1>3. ASSUME live' = live \cup {Head(backlog)}, out' = [out EXCEPT ![Head(backlog)] = <<>>],
             pending' = pending \cup {<<"read", Head(backlog)>>}, backlog' = Tail(backlog),
             UNCHANGED <<errno, peer, inbox>>
      PROVE  ServData'
  <2> PICK c : c = Head(backlog)
    OBVIOUS
  <2>1. c \in Clients /\ c \notin live
    BY <1>1, <1>3, PlacesAccept DEF ServShape
  <2>2. \A d \in Clients : Writing(d)' <=> Writing(d)
    BY <1>3 DEF Writing
  <2>3. out \in [Clients -> Seq(Units)] /\ <<>> \in Seq(Units)
    BY DEF ServData, ServTypes
  <2>4. out' \in [Clients -> Seq(Units)] /\ out'[c] = <<>>
        /\ \A d \in Clients : d # c => out'[d] = out[d]
    BY <1>3, <2>1, <2>3
  <2>5. ServTypes'
    BY <1>1, <1>3, <2>4 DEF ServData, ServTypes
  <2>6. ASSUME NEW d \in Clients, d # c PROVE Part(d)'
    BY <1>1, <1>3, <2>2, <2>4, <2>6, PartSame DEF ServData
  <2>7. ~Writing(c)
    BY <2>1 DEF ServShape, ServEvents
  <2>8. Fresh(c)
    BY <2>1, <2>7 DEF ServData, Part
  <2>9. Part(c)'
    BY <1>1, <1>3, <2>1, <2>2, <2>4, <2>7, <2>8 DEF Part, Fresh
  <2> QED
    BY <2>5, <2>6, <2>9 DEF ServData
<1>4. ASSUME Hungup(Head(backlog)), backlog' = Tail(backlog), UNCHANGED <<live, out, pending, errno>>
      PROVE  ServData'
  <2> PICK c : c = Head(backlog)
    OBVIOUS
  <2>1. c \in Clients /\ c \notin live /\ \A d \in Clients : d # c => peer'[d] = peer[d]
    BY <1>1, <1>4, PlacesRefuse DEF ServShape
  <2>2. \A d \in Clients : Writing(d)' <=> Writing(d)
    BY <1>4 DEF Writing
  <2>3. ServTypes'
    BY <1>1, <1>4 DEF ServData, ServTypes
  <2>4. ASSUME NEW d \in Clients, d # c PROVE Part(d)'
    BY <1>1, <1>4, <2>1, <2>2, <2>4, PartSame DEF ServData
  <2>5. ~Writing(c)
    BY <2>1 DEF ServShape, ServEvents
  <2>6. Part(c)'
    BY <1>1, <1>4, <2>1, <2>2, <2>5 DEF ServData, Part, Fresh
  <2> QED
    BY <2>3, <2>4, <2>6 DEF ServData
<1> QED
  BY <1>2, <1>3, <1>4 DEF do_accept

\* The request that is answered: a chunk of buffer or of inbox comes first.
LEMMA WantsIs ==
    ASSUME ServShape, ServData, NEW c \in Clients, inbox[c] # <<>>
    PROVE  /\ Head(buffer[c] \o inbox[c]) \in Chunks
           /\ Wants(c) \in Files \cup Others
           /\ <<Head(buffer[c] \o inbox[c])>> \in Seq(Chunks)
<1>1. buffer[c] \in Seq(Chunks) /\ inbox[c] \in Seq(Chunks)
  BY PlacesFacts DEF ServShape, ServData, ServTypes
<1> PICK s : s = buffer[c] \o inbox[c]
  OBVIOUS
<1>2. s \in Seq(Chunks) /\ s # <<>>
  BY <1>1
<1> PICK h : h = Head(s)
  OBVIOUS
<1>3. h \in Chunks
  BY <1>2, HeadTailProperties
<1>4. h.asks \in Files \cup Others
  BY <1>3, ServAssumption
<1>5. <<h>> \in Seq(Chunks)
  BY <1>3, One
<1> QED
  BY <1>3, <1>4, <1>5 DEF Wants

LEMMA ReadData ==
    ASSUME ServShape, ServData, NEW c \in Clients, do_read(c), world' = world
    PROVE  ServData'
<1>1. Runs(<<"read", c>>)
  BY DEF do_read, ReadEnd, ReadPart, ReadRefused, ReadRequest, Received
<1>2. <<"read", c>> \in pending /\ c \in live /\ ~Writing(c)
  BY <1>1, Runner DEF ServShape, ServEvents
<1>3. Fresh(c)
  BY <1>2 DEF ServData, Part
<1>4. /\ buffer \in [Clients -> Seq(Chunks)] /\ \A d \in Clients : Len(buffer[d]) <= BufMax
      /\ out \in [Clients -> Seq(Units)] /\ fl \in [Clients -> Files \cup {NULL}]
      /\ errno \in {"EAGAIN", "other"} /\ alive \in BOOLEAN
  BY DEF ServData, ServTypes
<1>5. /\ inbox \in [Clients -> Seq(Chunks)] /\ peer \in [Clients -> {"idle", "up", "closed", "reset"}]
  BY PlacesFacts DEF ServShape
<1>6. CASE ReadEnd(c)
  <2>1. free_fd_state(c) /\ UNCHANGED <<out, alive>> /\ errno' \in {"EAGAIN", "other"}
    BY <1>4, <1>6 DEF ReadEnd
  <2> QED
    BY <1>2, <1>4, <2>1, FreeData
<1>7. CASE ReadPart(c)
  <2> PICK chunk : chunk = Head(inbox[c])
    OBVIOUS
  <2>1. /\ inbox[c] # <<>> /\ Len(buffer[c]) < BufMax
        /\ buffer' = [buffer EXCEPT ![c] = Append(@, chunk)]
        /\ UNCHANGED <<live, left, fl, pos, eof, out, errno, alive, peer, pending>>
    BY <1>7 DEF ReadPart, Received, Keeps
  <2>2. chunk \in Chunks /\ buffer[c] \in Seq(Chunks)
    BY <1>4, <1>5, <2>1
  <2> PICK s : s = Append(buffer[c], chunk)
    OBVIOUS
  <2>3. s \in Seq(Chunks) /\ Len(s) = Len(buffer[c]) + 1
    BY <2>2, AppendAdds
  <2>4. buffer' \in [Clients -> Seq(Chunks)] /\ \A d \in Clients : d # c => buffer'[d] = buffer[d]
    BY <1>4, <2>1, <2>3
  <2>5. \A d \in Clients : Len(buffer'[d]) <= BufMax
    <3>1. buffer'[c] = s
      BY <1>4, <2>1
    <3>2. Len(s) <= BufMax
      BY <2>1, <2>2, <2>3, ServAssumption
    <3> QED
      BY <1>4, <2>4, <3>1, <3>2
  <2>6. ServTypes'
    BY <2>1, <2>4, <2>5 DEF ServData, ServTypes
  <2>7. \A d \in Clients : Writing(d)' <=> Writing(d)
    BY <2>1 DEF Writing
  <2>8. ASSUME NEW d \in Clients, d # c PROVE Part(d)'
    BY <2>1, <2>4, <2>7, <2>8, PartSame DEF ServData
  <2>9. Part(c)'
    BY <1>2, <1>3, <2>1, <2>7 DEF Part, Fresh
  <2> QED
    BY <2>6, <2>8, <2>9 DEF ServData
<1>8. CASE ReadRefused(c)
  <2>1. free_fd_state(c) /\ errno' = "other"
    BY <1>8 DEF ReadRefused
  <2>2. alive' \in BOOLEAN
    BY <1>4, <1>8 DEF ReadRefused, Raises
  <2>3. Head302 \in Units /\ out[c] \in Seq(Units)
    BY <1>4 DEF Units
  <2>4. Append(out[c], Head302) \in Seq(Units)
    BY <2>3, AppendAdds
  <2>5. out' = out \/ out' = [out EXCEPT ![c] = Append(out[c], Head302)]
    BY <1>8 DEF ReadRefused
  <2>6. out' \in [Clients -> Seq(Units)] /\ \A d \in Clients : d # c => out'[d] = out[d]
    BY <1>4, <2>4, <2>5
  <2> QED
    BY <1>2, <2>1, <2>2, <2>6, FreeData
<1>9. CASE ReadRequest(c)
  <2> PICK first : first = Head(buffer[c] \o inbox[c])
    OBVIOUS
  <2>1. /\ inbox[c] # <<>> /\ Wants(c) \notin {"root", "bad"}
        /\ fl' = [fl EXCEPT ![c] = Opened(Wants(c))]
        /\ buffer' = [buffer EXCEPT ![c] = <<first>>]
        /\ pending' = (pending \ Events(c)) \cup {<<"write", c>>}
        /\ UNCHANGED <<live, left, pos, eof, due, backlog>>
        /\ inbox' = [inbox EXCEPT ![c] = Tail(@)]
    BY <1>9 DEF ReadRequest, Received
  <2>2. first \in Chunks /\ <<first>> \in Seq(Chunks) /\ Wants(c) = first.asks
        /\ Wants(c) \in Files \cup Others
    BY <2>1, WantsIs DEF Wants
  <2>3. Opened(Wants(c)) \in {NULL, Page(Wants(c))} /\ Page(Wants(c)) \in Files
    BY ServAssumption DEF Opened, Page
  <2>4. /\ peer' = peer \/ \E p \in AfterSend(c) : peer' = [peer EXCEPT ![c] = p]
        /\ peer[c] = "reset" => out' = out
        /\ peer[c] # "reset" => out' = [out EXCEPT ![c] = Append(out[c], Head200)]
    BY <1>9 DEF ReadRequest
  <2>5. \A d \in Clients : /\ peer[d] = "reset" => peer'[d] = "reset"
    BY <2>1, <2>4, PeersAfter
  <2>6. errno' \in {"EAGAIN", "other"} /\ alive' \in BOOLEAN
    BY <1>4, <1>9 DEF ReadRequest, Raises
  <2>7. out[c] = <<>>
    BY <1>2, <1>3 DEF Fresh
  <2>8. Append(out[c], Head200) = <<Head200>> /\ <<Head200>> \in Seq(Units) /\ Head200 \in Units
    BY <2>7 DEF Units
  <2>9. /\ out' \in [Clients -> Seq(Units)] /\ \A d \in Clients : d # c => out'[d] = out[d]
        /\ out'[c] = IF peer[c] = "reset" THEN <<>> ELSE <<Head200>>
    BY <1>4, <2>4, <2>7, <2>8
  <2>10. /\ fl' \in [Clients -> Files \cup {NULL}] /\ fl'[c] \in {NULL, Page(first.asks)}
         /\ \A d \in Clients : d # c => fl'[d] = fl[d]
    BY <1>4, <2>1, <2>2, <2>3
  <2>11. /\ buffer' \in [Clients -> Seq(Chunks)] /\ buffer'[c] = <<first>>
         /\ \A d \in Clients : d # c => buffer'[d] = buffer[d]
    BY <1>4, <2>1, <2>2
  <2>12. \A d \in Clients : Len(buffer'[d]) <= BufMax
    <3>1. Len(<<first>>) = 1 /\ 1 <= BufMax
      BY ServAssumption
    <3> QED
      BY <1>4, <2>11, <3>1
  <2>13. ServTypes'
    BY <2>1, <2>6, <2>9, <2>10, <2>11, <2>12 DEF ServData, ServTypes
  <2>14. \A d \in Clients : Writing(d)' <=> Writing(d) \/ d = c
    BY <2>1 DEF Writing, Events, Kinds
  <2>15. ASSUME NEW d \in Clients, d # c PROVE Part(d)'
    BY <2>1, <2>5, <2>9, <2>10, <2>11, <2>14, <2>15, PartSame DEF ServData
  <2>16. Part(c)'
    <3>1. left'[c] = <<>> /\ pos'[c] = 0 /\ ~eof'[c]
      BY <1>3, <2>1 DEF Fresh
    <3>2. buffer'[c] # <<>> /\ Head(buffer'[c]) = first
      <4>1. <<first>> # <<>> /\ Head(<<first>>) = first
        BY <2>2, One
      <4> QED
        BY <2>11, <4>1
    <3>3. peer[c] = "reset" => Unanswered(c)'
      BY <2>5, <2>9, <3>1 DEF Unanswered
    <3>4. ASSUME peer[c] # "reset", fl'[c] # NULL PROVE InService(c)'
      <4> PICK n \in Files : n = fl'[c]
        BY <2>2, <2>3, <2>10, <3>4
      <4>1. Size[n] \in Nat /\ Room \in Nat
        BY ServAssumption
      <4>2. out'[c] = <<Head200>>
        BY <2>9, <3>4
      <4>3. Begins(<<Head200>>, n)
        BY DEF Begins, Unit
      <4>4. Len(out'[c]) = 1 /\ Begins(out'[c], n) /\ 1 \in 1 .. Size[n] + 1
        BY <4>1, <4>2, <4>3
      <4>5. Len(left'[c]) = 0 /\ ComesAfter(left'[c], n, 1)
        BY <3>1 DEF ComesAfter
      <4> QED
        BY <3>1, <4>1, <4>4, <4>5 DEF InService
    <3>5. fl'[c] # NULL => fl'[c] = Page(Head(buffer'[c]).asks)
      BY <2>10, <3>2
    <3>6. Answering(c)'
      BY <3>1, <3>2, <3>3, <3>4, <3>5 DEF Answering, Page
    <3> QED
      BY <2>14, <3>6 DEF Part
  <2> QED
    BY <2>13, <2>15, <2>16 DEF ServData
<1> QED
  BY <1>6, <1>7, <1>8, <1>9 DEF do_read

\* Who sends has a file, and is in service unless the peer has reset.
LEMMA Sender ==
    ASSUME ServShape, ServData, NEW c \in Clients, Sending(c)
    PROVE  /\ c \in live /\ Writing(c) /\ fl[c] \in Files
           /\ fl[c] = Page(Head(buffer[c]).asks)
           /\ peer[c] # "reset" => InService(c)
<1>1. c \in live /\ Writing(c)
  BY Runner DEF Sending, Writing
<1>2. Answering(c)
  BY <1>1 DEF ServData, Part
<1>3. fl[c] # NULL
  BY <1>2 DEF Answering, Sending, Reads
<1>4. fl[c] \in Files
  BY <1>3 DEF ServData, ServTypes
<1> QED
  BY <1>1, <1>2, <1>3, <1>4 DEF Answering, Unanswered

\* Sending nothing leaves out as it is.
LEMMA SentNothing ==
    ASSUME ServShape, ServData, NEW c \in Clients, Sending(c), peer[c] # "reset"
    PROVE  /\ 0 \in 0 .. Len(Data(c))
           /\ out = [out EXCEPT ![c] = out[c] \o SubSeq(Data(c), 1, 0)]
<1>1. fl[c] \in Files /\ InService(c)
  BY Sender
<1>2. Data(c) \in Seq(Units)
  BY <1>1, DataIs
<1>3. out \in [Clients -> Seq(Units)] /\ out[c] \in Seq(Units)
  BY DEF ServData, ServTypes
<1> PICK d : d = Data(c)
  OBVIOUS
<1>4. Len(d) \in Nat /\ d \in Seq(Units)
  BY <1>2
<1>5. SubSeq(d, 1, 0) = <<>>
  BY <1>4, SubSeqEmpty
<1>6. out[c] \o <<>> = out[c]
  BY <1>3, ConcatEmptySeq
<1>7. out[c] \o SubSeq(d, 1, 0) = out[c]
  BY <1>5, <1>6
<1> QED
  BY <1>3, <1>4, <1>7

\* The callback sent k units, and goes on when it may.
LEMMA SentData ==
    ASSUME ServShape, ServData, NEW c \in Clients, Sending(c), peer[c] # "reset",
           NEW k \in 0 .. Len(Data(c)), Sent(c, k),
           out' = [out EXCEPT ![c] = out[c] \o SubSeq(Data(c), 1, k)],
           peer' = peer \/ \E p \in AfterSend(c) : peer' = [peer EXCEPT ![c] = p],
           errno' \in {"EAGAIN", "other"}, world' = world
    PROVE  ServData'
<1>1. /\ c \in live /\ Writing(c) /\ fl[c] \in Files /\ InService(c)
      /\ fl[c] = Page(Head(buffer[c]).asks)
  BY Sender
<1>2. out \in [Clients -> Seq(Units)] /\ fl \in [Clients -> Files \cup {NULL}]
  BY DEF ServData, ServTypes
<1>3. out'[c] = out[c] \o SubSeq(Data(c), 1, k) /\ \A d \in Clients : d # c => out'[d] = out[d]
  BY <1>2
<1>4. /\ left' \in [Clients -> Seq(Units)] /\ pos' \in [Clients -> Nat]
      /\ eof' \in [Clients -> BOOLEAN]
      /\ \A d \in Clients : d # c => left'[d] = left[d] /\ pos'[d] = pos[d] /\ eof'[d] = eof[d]
      /\ out'[c] \in Seq(Units) /\ InService(c)'
  BY <1>1, <1>3, SentService
<1>5. UNCHANGED <<live, buffer, fl, alive, backlog, inbox, pending>>
  BY DEF Sent, Keeps
<1>6. out' \in [Clients -> Seq(Units)]
  BY <1>2, <1>4
<1>7. ServTypes'
  BY <1>4, <1>5, <1>6 DEF ServData, ServTypes
<1>8. \A d \in Clients : Writing(d)' <=> Writing(d)
  BY <1>5 DEF Writing
<1>9. \A d \in Clients : peer[d] = "reset" => peer'[d] = "reset"
  BY <1>5, PeersAfter
<1>10. ASSUME NEW d \in Clients, d # c PROVE Part(d)'
  BY <1>3, <1>4, <1>5, <1>8, <1>9, <1>10, PartSame DEF ServData
<1>11. Part(c)'
  <2>1. Answering(c)
    BY <1>1 DEF ServData, Part
  <2>2. fl'[c] # NULL
    BY <1>1, <1>5, ServAssumption
  <2>3. Answering(c)'
    BY <1>1, <1>4, <1>5, <2>1, <2>2 DEF Answering, Page
  <2> QED
    BY <1>1, <1>8, <2>3 DEF Part
<1> QED
  BY <1>7, <1>10, <1>11 DEF ServData

LEMMA WriteData ==
    ASSUME ServShape, ServData, NEW c \in Clients, do_write(c), world' = world
    PROVE  ServData'
<1>1. /\ out \in [Clients -> Seq(Units)] /\ errno \in {"EAGAIN", "other"} /\ alive \in BOOLEAN
  BY DEF ServData, ServTypes
<1>2. CASE Crash(c)
  <2>1. UNCHANGED <<buffer, left, fl, pos, eof, out, live, pending, peer, errno>> /\ alive' = FALSE
    BY <1>2 DEF Crash, state_vars, loop_vars, net_vars
  <2>2. errno' \in {"EAGAIN", "other"} /\ alive' \in BOOLEAN
        /\ \A d \in Clients : peer[d] = "reset" => peer'[d] = "reset"
    BY <1>1, <2>1
  <2> QED
    BY <2>1, <2>2, DataSame
<1>3. CASE WriteAgain(c) \/ WriteStale(c)
  <2>1. /\ Sending(c) /\ peer[c] # "reset" /\ Sent(c, 0) /\ UNCHANGED <<out, peer>>
        /\ errno' \in {"EAGAIN", "other"}
    BY <1>1, <1>3 DEF WriteAgain, WriteStale
  <2>2. 0 \in 0 .. Len(Data(c)) /\ out' = [out EXCEPT ![c] = out[c] \o SubSeq(Data(c), 1, 0)]
    BY <2>1, SentNothing
  <2> QED
    BY <2>1, <2>2, SentData
<1>4. CASE WriteEnd(c)
  <2>1. Sending(c) /\ free_fd_state(c) /\ UNCHANGED <<out, alive>> /\ errno' \in {"EAGAIN", "other"}
    BY <1>4 DEF WriteEnd
  <2>2. c \in live
    BY <2>1, Sender
  <2> QED
    BY <1>1, <2>1, <2>2, FreeData
<1>5. CASE WriteSome(c)
  <2>1. Sending(c) /\ peer[c] # "reset" /\ errno' = errno
    BY <1>5 DEF WriteSome
  <2>2. PICK k \in 1 .. Len(Data(c)) :
           /\ out' = [out EXCEPT ![c] = out[c] \o SubSeq(Data(c), 1, k)]
           /\ \/ Sent(c, k) /\ \E p \in AfterSend(c) : peer' = [peer EXCEPT ![c] = p]
              \/ free_fd_state(c) /\ UNCHANGED alive
    BY <1>5 DEF WriteSome
  <2>3. fl[c] \in Files /\ InService(c) /\ c \in live
    BY <2>1, Sender
  <2>4. Data(c) \in Seq(Units)
    BY <2>3, DataIs
  <2>5. k \in 0 .. Len(Data(c))
    BY <2>4
  <2>6. CASE Sent(c, k) /\ \E p \in AfterSend(c) : peer' = [peer EXCEPT ![c] = p]
    BY <1>1, <2>1, <2>2, <2>5, <2>6, SentData
  <2>7. CASE free_fd_state(c) /\ UNCHANGED alive
    <3> PICK t : t = SubSeq(Data(c), 1, k)
      OBVIOUS
    <3>1. t \in Seq(Units)
      BY <2>4, <2>5, Cut
    <3>2. out[c] \o t \in Seq(Units)
      BY <1>1, <3>1, Joined
    <3>3. out' \in [Clients -> Seq(Units)] /\ \A d \in Clients : d # c => out'[d] = out[d]
      BY <1>1, <2>2, <3>2
    <3> QED
      BY <1>1, <2>1, <2>3, <2>7, <3>3, FreeData
  <2> QED
    BY <2>2, <2>6, <2>7
<1> QED
  BY <1>2, <1>3, <1>4, <1>5 DEF do_write

LEMMA DataInit == Init => ServData
<1> SUFFICES ASSUME Init PROVE ServData
  OBVIOUS
<1>1. <<>> \in Seq(Units) /\ <<>> \in Seq(Chunks) /\ Len(<<>>) = 0
  BY EmptySeq
<1>2. ServTypes
  BY <1>1, ServAssumption DEF Init, ServTypes
<1>3. \A c \in Clients : Part(c)
  BY DEF Init, LoopInit, Part, Fresh, Writing
<1> QED
  BY <1>2, <1>3 DEF ServData

LEMMA DataNext == ServIInv /\ [Next]_vars => ServData'
<1> SUFFICES ASSUME ServShape, ServData, [Next]_vars PROVE ServData'
  BY DEF ServIInv
<1>1. errno \in {"EAGAIN", "other"} /\ alive \in BOOLEAN
  BY DEF ServData, ServTypes
<1>2. CASE UNCHANGED vars
  <2>1. UNCHANGED <<buffer, left, fl, pos, eof, out, live, pending, peer, errno, alive, world>>
    BY <1>2 DEF vars, state_vars, loop_vars, net_vars
  <2> QED
    BY <1>1, <2>1, DataSame
<1>3. CASE Next
  <2>1. world' = world
    BY <1>3 DEF Next
  <2>2. CASE Dispatch
    <3>1. UNCHANGED <<buffer, left, fl, pos, eof, out, live, pending, peer, errno, alive>>
      BY <2>2 DEF Dispatch, dispatch, state_vars, net_vars
    <3> QED
      BY <1>1, <2>1, <3>1, DataSame
  <2>3. CASE PeerActs /\ UNCHANGED <<state_vars, out, errno, alive, loop_vars>>
    <3>1. UNCHANGED <<buffer, left, fl, pos, eof, out, live, pending, errno, alive>>
      BY <2>3 DEF state_vars, loop_vars
    <3>2. \A d \in Clients : peer[d] = "reset" => peer'[d] = "reset"
      <4>1. peer \in [Clients -> {"idle", "up", "closed", "reset"}]
        BY PlacesFacts DEF ServShape
      <4> QED
        BY <2>3, <4>1 DEF PeerActs, Dial, Transmit, Depart
    <3> QED
      BY <1>1, <2>1, <3>1, <3>2, DataSame
  <2> QED
    BY <1>3, <2>1, <2>2, <2>3, AcceptData, ReadData, WriteData DEF Next, Callback
<1> QED
  BY <1>2, <1>3

\* The inductive invariant holds in every state.
THEOREM EvgenServesFirst == Spec => []ServIInv
<1>1. Init => ServIInv
  BY ShapeInit, DataInit DEF ServIInv
<1>2. ServIInv /\ [Next]_vars => ServIInv'
  BY ShapeNext, DataNext DEF ServIInv
<1> QED
  BY <1>1, <1>2, PTL DEF Spec

\* The answer with file n, unit by unit; what begins it is a prefix of it.
LEMMA WholeIs ==
    ASSUME NEW n \in Files
    PROVE  /\ Whole(n) \in Seq(Units) /\ Len(Whole(n)) = Size[n] + 1
           /\ \A i \in 1 .. Size[n] + 1 : Whole(n)[i] = Unit(n, i)
<1> PICK s : s = Content(n)
  OBVIOUS
<1>1. /\ Size[n] \in Nat /\ s \in Seq(Units) /\ Len(s) = Size[n]
      /\ \A i \in 1 .. Size[n] : s[i] = <<n, i>>
  BY ContentIs
<1> PICK h : h = <<Head200>>
  OBVIOUS
<1>2. h \in Seq(Units) /\ Len(h) = 1 /\ h[1] = Head200
  BY One DEF Units
<1> PICK w : w = h \o s
  OBVIOUS
<1>3. /\ w \in Seq(Units) /\ Len(w) = Len(h) + Len(s)
      /\ \A i \in 1 .. Len(h) : w[i] = h[i]
      /\ \A i \in Len(h) + 1 .. Len(h) + Len(s) : w[i] = s[i - Len(h)]
  BY <1>1, <1>2, Joined
<1>4. ASSUME NEW i \in 1 .. Size[n] + 1 PROVE w[i] = Unit(n, i)
  <2>1. CASE i = 1
    BY <1>2, <1>3, <2>1 DEF Unit
  <2>2. CASE i > 1
    <3> PICK j : j = i - 1
      OBVIOUS
    <3>1. j \in 1 .. Size[n] /\ i \in 2 .. Size[n] + 1
      BY <1>1, <2>2
    <3>2. w[i] = s[j]
      BY <1>1, <1>2, <1>3, <3>1
    <3>3. s[j] = <<n, j>> /\ i # 1
      BY <1>1, <2>2, <3>1
    <3> QED
      BY <3>2, <3>3 DEF Unit
  <2> QED
    BY <1>1, <2>1, <2>2
<1>5. Whole(n) = w /\ Len(w) = Size[n] + 1
  BY <1>1, <1>2, <1>3 DEF Whole
<1> QED
  BY <1>3, <1>4, <1>5

LEMMA BeginsIs ==
    ASSUME NEW n \in Files, NEW s \in Seq(Units), Len(s) \in 1 .. Size[n] + 1, Begins(s, n)
    PROVE  IsPrefix(s, Whole(n)) /\ (Len(s) = Size[n] + 1 => s = Whole(n))
<1> PICK w : w = Whole(n)
  OBVIOUS
<1>1. /\ w \in Seq(Units) /\ Len(w) = Size[n] + 1 /\ Size[n] \in Nat
      /\ \A i \in 1 .. Size[n] + 1 : w[i] = Unit(n, i)
  BY WholeIs, ServAssumption
<1> PICK l \in 1 .. Size[n] + 1 : l = Len(s)
  OBVIOUS
<1>2. \A i \in 1 .. l : s[i] = w[i]
  BY <1>1 DEF Begins
<1> PICK start : start = SubSeq(s, 1, l)
  OBVIOUS
<1> PICK v : v = SubSeq(w, 1, l)
  OBVIOUS
<1>3. start \in Seq(Units) /\ Len(start) = l /\ \A i \in 1 .. l : start[i] = s[i]
  BY <1>1, Cut
<1>4. v \in Seq(Units) /\ Len(v) = l /\ \A i \in 1 .. l : v[i] = w[i]
  <2>1. l \in 0 .. Len(w)
    BY <1>1
  <2> QED
    BY <1>1, <2>1, Cut
<1>5. start = v
  BY <1>1, <1>2, <1>3, <1>4
<1>6. IsPrefix(s, w)
  BY <1>1, <1>5 DEF IsPrefix
<1>7. ASSUME Len(s) = Size[n] + 1 PROVE s = w
  <2>1. s \in Seq(Units) /\ Len(s) = l /\ w \in Seq(Units) /\ Len(w) = l
    BY <1>1, <1>7
  <2> QED
    BY ONLY <1>2, <2>1, SeqEqual
<1> QED
  BY <1>6, <1>7

(***************************************************************************)
(* What a peer of http_serv.cpp was sent begins the answer to the first    *)
(* request of its connection, whatever is sent between.                    *)
(***************************************************************************)
THEOREM EvgenAnswersFirst == Spec => []ServInv
<1>1. ServIInv => ServInv
  <2> SUFFICES ASSUME ServShape, ServData PROVE TypeOK /\ FirstIsAnswered
    BY DEF ServIInv, ServInv
  <2>1. ASSUME NEW c \in Clients
        PROVE  Len(left[c]) <= Room /\ (fl[c] # NULL => c \in live /\ pos[c] <= Size[fl[c]])
    <3>1. Len(<<>>) = 0 /\ 0 <= Room
      BY ServAssumption
    <3>2. fl[c] # NULL => Size[fl[c]] \in Nat
      BY ServAssumption DEF ServData, ServTypes
    <3>3. Writing(c) => c \in live
      BY DEF ServShape, ServEvents
    <3> QED
      BY <3>1, <3>2, <3>3 DEF ServData, Part, Answering, Unanswered, InService, Fresh
  <2>2. LoopTypeOK
    BY DEF ServShape, ServEvents, Places, LoopTypeOK, Kinds
  <2>3. TypeOK
    BY <2>1, <2>2 DEF ServShape, ServEvents, ServData, ServTypes, TypeOK
  <2>4. ASSUME NEW c \in live, Writing(c), fl[c] # NULL, ~Unanswered(c)
        PROVE  IsPrefix(out[c], Whole(Page(Head(buffer[c]).asks)))
    <3>1. c \in Clients
      BY DEF ServShape, ServEvents
    <3>2. Answering(c)
      BY <2>4, <3>1 DEF ServData, Part
    <3>3. fl[c] \in Files /\ out[c] \in Seq(Units)
      BY <2>4, <3>1 DEF ServData, ServTypes
    <3> PICK n \in Files : n = fl[c]
      BY <3>3
    <3>4. n = Page(Head(buffer[c]).asks) /\ Len(out[c]) \in 1 .. Size[n] + 1 /\ Begins(out[c], n)
      BY <2>4, <3>2 DEF Answering, InService
    <3>5. IsPrefix(out[c], Whole(n))
      BY <3>3, <3>4, BeginsIs
    <3> QED
      BY <3>4, <3>5
  <2>5. ASSUME NEW c \in live, ~Writing(c) PROVE out[c] = <<>>
    BY <2>5 DEF ServShape, ServEvents, ServData, Part, Fresh
  <2>6. FirstIsAnswered
    BY <2>4, <2>5 DEF FirstIsAnswered, Unanswered
  <2> QED
    BY <2>3, <2>6
<1> QED
  BY <1>1, EvgenServesFirst, PTL

\* The end of a file: nothing is left to send.
LEMMA AtTheEnd ==
    ASSUME ServShape, ServData, NEW c \in Clients, Sending(c), peer[c] # "reset"
    PROVE  /\ Data(c) = <<>> => out[c] = Whole(fl[c])
           /\ \A k \in 1 .. Len(Data(c)) : Done(c, k) => out[c] \o SubSeq(Data(c), 1, k) = Whole(fl[c])
<1>1. fl[c] \in Files /\ InService(c)
  BY Sender
<1> PICK n \in Files : n = fl[c]
  BY <1>1
<1> PICK d : d = Data(c)
  OBVIOUS
<1> PICK s : s = out[c]
  OBVIOUS
<1>2. PICK m \in Nat :
         /\ m <= Size[n] /\ (AtEof(c) \/ d = <<>> => m = Size[n])
         /\ d \in Seq(Units) /\ Len(d) = m + 1 - Len(s) /\ ComesAfter(d, n, Len(s))
  BY <1>1, DataIs
<1>3. s \in Seq(Units) /\ Size[n] \in Nat
  BY ServAssumption DEF ServData, ServTypes
<1>4. Len(s) \in 1 .. Size[n] + 1 /\ Begins(s, n)
  BY <1>1 DEF InService
<1>5. ASSUME d = <<>> PROVE s = Whole(n)
  <2>1. Len(d) = 0 /\ m = Size[n] /\ Len(s) \in Nat
    BY <1>2, <1>3, <1>5
  <2>2. Len(s) = Size[n] + 1
    BY <1>2, <1>3, <2>1
  <2> QED
    BY <1>3, <1>4, <2>2, BeginsIs
<1>6. ASSUME NEW k \in 1 .. Len(d), Done(c, k) PROVE s \o SubSeq(d, 1, k) = Whole(n)
  <2> PICK t : t = SubSeq(d, 1, k)
    OBVIOUS
  <2> PICK o \in Nat : o = Len(s)
    BY <1>3, LenProperties
  <2>1. k = Len(d) /\ m = Size[n] /\ k \in 0 .. Len(d)
    BY <1>2, <1>6 DEF Done
  <2>2. t \in Seq(Units) /\ Len(t) = k
    BY <1>2, <2>1, Cut
  <2>3. ComesAfter(t, n, o)
    BY <1>2, <2>1, MovedLeft
  <2>4. o >= 1 /\ o + k = Size[n] + 1
    BY <1>2, <1>3, <1>4, <2>1
  <2> PICK w : w = s \o t
    OBVIOUS
  <2>5. w \in Seq(Units) /\ Len(w) = o + k /\ Begins(w, n)
    <3>1. n \in Files /\ s \in Seq(Units) /\ t \in Seq(Units) /\ o \in Nat
      BY <1>3, <2>2
    <3>2. o = Len(s) /\ o >= 1 /\ Begins(s, n) /\ ComesAfter(t, n, o)
      BY <1>4, <2>3, <2>4
    <3>3. s \o t \in Seq(Units) /\ Len(s \o t) = o + Len(t) /\ Begins(s \o t, n)
      BY ONLY <3>1, <3>2, MovedOut
    <3> QED
      BY <2>2, <3>3
  <2>6. Len(w) = Size[n] + 1 /\ Len(w) \in 1 .. Size[n] + 1
    BY <1>3, <2>4, <2>5
  <2>7. w = Whole(n)
    BY <2>5, <2>6, BeginsIs
  <2> QED
    BY <2>7
<1> QED
  BY <1>5, <1>6

(***************************************************************************)
(* A connection of http_serv.cpp that is being answered is closed only     *)
(* when the whole file is sent, or its peer has reset it.                  *)
(***************************************************************************)
THEOREM EvgenSendsWhole == Spec => ClosedWhenWhole
<1> DEFINE A == \A c \in live \ live' :
                   Writing(c) => peer[c] = "reset" \/ out'[c] = Whole(fl[c])
<1>1. ServIInv /\ [Next]_vars => [A]_vars
  <2> SUFFICES ASSUME ServShape, ServData, Next,
                      NEW c \in live \ live', Writing(c), peer[c] # "reset"
               PROVE  out'[c] = Whole(fl[c])
    BY DEF ServIInv
  <2>1. c \in Clients /\ <<"read", c>> \notin pending
    BY DEF ServShape, ServEvents
  <2>2. out \in [Clients -> Seq(Units)]
    BY DEF ServData, ServTypes
  <2>3. ASSUME NEW d \in Clients, free_fd_state(d) PROVE d = c
    BY <2>3 DEF free_fd_state
  <2>4. CASE do_accept
    BY <2>4 DEF do_accept
  <2>5. CASE Dispatch \/ (PeerActs /\ UNCHANGED <<state_vars, out, errno, alive, loop_vars>>)
    BY <2>5 DEF Dispatch, state_vars
  <2>6. ASSUME NEW d \in Clients, do_read(d) PROVE FALSE
    <3>1. Runs(<<"read", d>>)
      BY <2>6 DEF do_read, ReadEnd, ReadPart, ReadRefused, ReadRequest, Received
    <3>2. d # c
      BY <2>1, <3>1, Runner
    <3> QED
      BY <2>3, <2>6, <3>2 DEF do_read, ReadEnd, ReadPart, ReadRefused, ReadRequest
  <2>7. ASSUME NEW d \in Clients, do_write(d) PROVE out'[c] = Whole(fl[c])
    <3>1. CASE Crash(d) \/ WriteAgain(d) \/ WriteStale(d)
      BY <3>1 DEF Crash, WriteAgain, WriteStale, Sent, state_vars
    <3>2. CASE WriteEnd(d)
      <4>1. d = c /\ Sending(c) /\ Data(c) = <<>> /\ out' = out
        BY <2>3, <3>2 DEF WriteEnd
      <4> QED
        BY <2>1, <4>1, AtTheEnd
    <3>3. CASE WriteSome(d)
      <4>1. PICK k \in 1 .. Len(Data(d)) :
               /\ out' = [out EXCEPT ![d] = out[d] \o SubSeq(Data(d), 1, k)]
               /\ \/ Sent(d, k)
                  \/ Done(d, k) /\ free_fd_state(d)
        BY <3>3 DEF WriteSome
      <4>2. ~Sent(d, k)
        BY DEF Sent
      <4>3. d = c /\ Done(c, k) /\ Sending(c)
        BY <2>3, <3>3, <4>1, <4>2 DEF WriteSome
      <4>4. out'[c] = out[c] \o SubSeq(Data(c), 1, k)
        BY <2>1, <2>2, <4>1, <4>3
      <4> QED
        BY <2>1, <4>1, <4>3, <4>4, AtTheEnd
    <3> QED
      BY <2>7, <3>1, <3>2, <3>3 DEF do_write
  <2> QED
    BY <2>4, <2>5, <2>6, <2>7 DEF Next, Callback
<1> QED
  BY <1>1, EvgenServesFirst, PTL DEF Spec, ClosedWhenWhole
=============================================================================
