---------------------------- MODULE FlavikProofs ----------------------------
(***************************************************************************)
(* Proofs about ThreadedPop3, the threaded POP3 server of flavik, and      *)
(* about LineFraming, the loops of the multiplexed ones, for every number  *)
(* of threads, mailboxes and messages, every stream a peer may send and    *)
(* every way it may be cut.                                                *)
(***************************************************************************)
EXTENDS ThreadedPop3, LineFraming, WellFoundedInduction, VectorProofs

-----------------------------------------------------------------------------
(***************************************************************************)
(* Proofs about ThreadedPop3, for every number of threads, mailboxes and   *)
(* messages.                                                               *)
(*                                                                         *)
(* In every world, Types says which mailbox a thread has at hand at each   *)
(* point of its code; OrphanIsForever follows from it.  In a serial world  *)
(* LockedIffOwned speaks of the moments when no thread is inside USER or   *)
(* the end of QUIT.  Locked says what `used` is in between: a thread at    *)
(* "take" goes for a mailbox that is free, one at "giveup" has taken a     *)
(* mailbox nobody owns yet, and the second login() finds what the first    *)
(* did, so no thread comes to "retake".                                    *)
(***************************************************************************)
Places == {"none", "recv", "login", "take", "giveup", "relogin", "retake", "update", "release"}

Stored == [st : 1 .. MaxMessages, del : BOOLEAN]

\* A thread inside USER has named a mailbox, one at the end of QUIT owns one.
AtHand(t) ==
    /\ pc[t] \in {"login", "take", "giveup", "relogin", "retake"} =>
          name[t] \in Users /\ State[t] = "AUTHORIZATION"
    /\ pc[t] \in {"giveup", "update", "release"} => User[t] \in Users
    /\ pc[t] \in {"update", "release"} => State[t] = "UPDATE"
    /\ pc[t] = "recv" => State[t] # "UPDATE"

Types ==
    /\ TypeOK
    /\ messages \in [Users -> Seq(Stored)]
    /\ pc \in [Threads -> Places]
    /\ \A t \in Threads : AtHand(t)

OneOwner == \A u \in Users : \A s, t \in Owners(u) : s = t

GivesUpFor(u) == \E t \in Threads : pc[t] = "giveup" /\ name[t] = u

Locked ==
    /\ Serial
    /\ OneOwner
    /\ \A u \in Users : used[u] <=> Owners(u) # {} \/ GivesUpFor(u)
    /\ \A t \in Threads :
          /\ pc[t] = "take" => ~used[name[t]]
          /\ pc[t] = "giveup" => Owners(name[t]) = {}
          /\ pc[t] = "relogin" => used[name[t]]
          /\ pc[t] # "retake"

SerialLocked == serial => Locked

\* The messages of a mailbox are told apart by their texts.
TextsApart == \A u \in Users : Distinct(messages[u])

-----------------------------------------------------------------------------
\* Types without the messages.
Flags ==
    /\ used \in [Users -> BOOLEAN]
    /\ User \in [Threads -> Users \cup {-1}]
    /\ State \in [Threads -> {"AUTHORIZATION", "TRANSACTION", "UPDATE"}]
    /\ \A t \in Threads : State[t] = "TRANSACTION" => User[t] \in Users
    /\ name \in [Threads -> Users \cup {-1}]
    /\ peer \in [Threads -> {"up", "closed", "reset"}]
    /\ alive \in BOOLEAN /\ serial \in Worlds
    /\ pc \in [Threads -> Places]
    /\ \A t \in Threads : AtHand(t)

\* Types is Flags and the type of the messages.
LEMMA TypesParts == Types <=> Flags /\ messages \in [Users -> Seq(Stored)]
<1>1. ASSUME messages \in [Users -> Seq(Stored)]
      PROVE  \A u \in Users : \A k \in DOMAIN messages[u] : messages[u][k].st \in 1 .. MaxMessages
  <2> TAKE u \in Users
  <2>1. messages[u] \in Seq(Stored)
    BY <1>1
  <2>2. \A k \in DOMAIN messages[u] : messages[u][k] \in Stored
    BY <2>1
  <2> QED
    BY <2>2 DEF Stored
<1> QED
  BY <1>1 DEF Types, TypeOK, Flags

\* The same after a step.
LEMMA TypesPartsNext == Types' <=> Flags' /\ (messages \in [Users -> Seq(Stored)])'
  BY TypesParts, PTL

\* A step of a thread, of its creation or of its peer.
Step(t) == StartThread(t) \/ PeerLeaves(t) \/ ThreadSock(t)

\* Users are not -1.
LEMMA UsersType == -1 \notin Users /\ Users # {} /\ Users \subseteq Int
  BY ThreadsAssumption DEF Users

\* What a thread does keeps the flags and what it has at hand.
LEMMA FlagsStep ==
    ASSUME Flags, NEW t \in Threads, Step(t), UNCHANGED serial
    PROVE  Flags'
<1> USE DEF Flags, AtHand, Places, Goto
<1>1. CASE StartThread(t)
  BY <1>1 DEF StartThread
<1>2. CASE PeerLeaves(t)
  BY <1>2 DEF PeerLeaves
<1>3. CASE RecvEnd(t)
  BY <1>3 DEF RecvEnd
<1>4. ASSUME NEW n \in Users, USER(t, n) PROVE Flags'
  BY <1>4 DEF USER, Receives
<1>5. ASSUME NEW n \in Users, PASS(t, n) PROVE Flags'
  BY <1>5 DEF PASS, Receives
<1>6. CASE Login(t)
  BY <1>6 DEF Login
<1>7. CASE Take(t)
  BY <1>7 DEF Take
<1>8. CASE GiveUp(t)
  BY <1>8 DEF GiveUp
<1>9. CASE Relogin(t)
  BY <1>9 DEF Relogin
<1>10. CASE Retake(t)
  BY <1>10 DEF Retake
<1>11. ASSUME NEW k, DELE(t, k) PROVE Flags'
  BY <1>11 DEF DELE
<1>12. CASE RSET(t)
  BY <1>12 DEF RSET
<1>13. CASE QUIT(t)
  BY <1>13 DEF QUIT, Receives
<1>14. CASE Update(t)
  BY <1>14 DEF Update
<1>15. CASE Release(t)
  BY <1>15 DEF Release
<1> QED
  BY <1>1, <1>2, <1>3, <1>4, <1>5, <1>6, <1>7, <1>8, <1>9, <1>10, <1>11, <1>12, <1>13, <1>14,
     <1>15 DEF Step, ThreadSock

-----------------------------------------------------------------------------
\* DELE labels one message.
LEMMA LabelFacts ==
    ASSUME NEW s \in Seq(Stored), NEW k \in DOMAIN s
    PROVE  LET d == [s EXCEPT ![k].del = TRUE]
           IN  /\ d \in Seq(Stored)
               /\ AllTexts(d) = AllTexts(s)
               /\ DelTexts(d) = DelTexts(s) \cup {s[k].st}
               /\ Distinct(s) => Distinct(d)
<1> DEFINE m == [s[k] EXCEPT !.del = TRUE]
           d == [s EXCEPT ![k].del = TRUE]
<1>1. s[k] \in Stored
  OBVIOUS
<1>2. m \in Stored /\ m.st = s[k].st /\ m.del
  BY <1>1 DEF Stored
<1>3. d = [s EXCEPT ![k] = m]
  OBVIOUS
<1> HIDE DEF m, d
<1>4. d \in Seq(Stored) /\ DOMAIN d = DOMAIN s
  <2>1. s \in [1 .. Len(s) -> Stored] /\ Len(s) \in Nat /\ k \in 1 .. Len(s)
    OBVIOUS
  <2>2. d \in [1 .. Len(s) -> Stored]
    BY <1>2, <1>3, <2>1
  <2> QED
    BY <2>1, <2>2
<1>5. \A i \in DOMAIN s : d[i] = IF i = k THEN m ELSE s[i]
  BY <1>3
<1>6. /\ \A i \in DOMAIN s : d[i].st = s[i].st
      /\ d[k].del /\ \A i \in DOMAIN s : i # k => d[i].del = s[i].del
  BY <1>2, <1>5
<1>7. /\ AllTexts(d) = AllTexts(s)
      /\ DelTexts(d) = DelTexts(s) \cup {s[k].st}
      /\ Distinct(s) => Distinct(d)
  BY <1>4, <1>6, MarkTexts
<1> QED
  BY <1>4, <1>7 DEF d

\* RSET takes every label away.
LEMMA UnlabelFacts ==
    ASSUME NEW s \in Seq(Stored)
    PROVE  /\ Unlabelled(s) \in Seq(Stored)
           /\ AllTexts(Unlabelled(s)) = AllTexts(s)
           /\ DelTexts(Unlabelled(s)) = {}
           /\ Distinct(s) => Distinct(Unlabelled(s))
<1> DEFINE d == Unlabelled(s)
<1>1. \A k \in DOMAIN s : [s[k] EXCEPT !.del = FALSE] \in Stored
  <2> TAKE k \in DOMAIN s
  <2>1. s[k] \in Stored
    OBVIOUS
  <2> QED
    BY <2>1 DEF Stored
<1>2. d \in Seq(Stored) /\ DOMAIN d = DOMAIN s
  BY <1>1 DEF Unlabelled
<1>3. \A i \in DOMAIN s : d[i].st = s[i].st /\ ~d[i].del
  <2> TAKE i \in DOMAIN s
  <2>1. s[i] \in Stored /\ d[i] = [s[i] EXCEPT !.del = FALSE]
    BY DEF Unlabelled
  <2> HIDE DEF d
  <2> QED
    BY <2>1 DEF Stored
<1> HIDE DEF d
<1>4. /\ AllTexts(d) = AllTexts(s) /\ DelTexts(d) = {}
      /\ Distinct(s) => Distinct(d)
  BY <1>2, <1>3, UnmarkTexts
<1> QED
  BY <1>2, <1>4 DEF d

\* updatemailbox() erases the labelled messages.
LEMMA UpdateFacts ==
    ASSUME NEW s \in Seq(Stored)
    PROVE  /\ updatemailbox(s) \in Seq(Stored)
           /\ Distinct(s) => /\ AllTexts(updatemailbox(s)) = AllTexts(s) \ DelTexts(s)
                             /\ DelTexts(updatemailbox(s)) = {}
                             /\ Distinct(updatemailbox(s))
  BY KeptProperties, KeptTexts DEF updatemailbox

\* Who touches messages touches those of one mailbox, in one of these ways.
LEMMA MailEffect ==
    ASSUME Types, NEW t \in Threads, Step(t)
    PROVE  \/ UNCHANGED messages
           \/ /\ User[t] \in Users /\ messages[User[t]] \in Seq(Stored)
              /\ (\E k : DELE(t, k)) \/ RSET(t) \/ Update(t)
<1>1. CASE RSET(t) \/ Update(t) \/ \E k : DELE(t, k)
  <2>1. User[t] \in Users
    BY <1>1 DEF Types, TypeOK, AtHand, DELE, RSET, Update, Receives
  <2> QED
    BY <1>1, <2>1 DEF Types
<1>2. CASE ~(RSET(t) \/ Update(t) \/ \E k : DELE(t, k))
  BY <1>2 DEF Step, ThreadSock, StartThread, PeerLeaves, RecvEnd, USER, PASS, Login, Take, GiveUp,
              Relogin, Retake, QUIT, Release
<1> QED
  BY <1>1, <1>2

\* Every thread keeps the types of the variables.
LEMMA TypesStep ==
    ASSUME Types, NEW t \in Threads, Step(t), UNCHANGED serial
    PROVE  Types'
<1>1. Flags /\ messages \in [Users -> Seq(Stored)]
  BY TypesParts
<1>2. Flags'
  BY <1>1, FlagsStep
<1>3. messages' \in [Users -> Seq(Stored)]
  <2>1. CASE UNCHANGED messages
    BY <1>1, <2>1
  <2>2. ASSUME User[t] \in Users, messages[User[t]] \in Seq(Stored), NEW k, DELE(t, k)
        PROVE  messages' \in [Users -> Seq(Stored)]
    <3> PICK u : u = User[t]
      OBVIOUS
    <3> PICK d : d = [messages[u] EXCEPT ![k].del = TRUE]
      OBVIOUS
    <3>1. d \in Seq(Stored)
      BY <2>2, LabelFacts DEF DELE
    <3>2. messages' = [messages EXCEPT ![u] = d]
      BY <2>2 DEF DELE
    <3> QED
      BY <1>1, <2>2, <3>1, <3>2
  <2>3. ASSUME User[t] \in Users, messages[User[t]] \in Seq(Stored), RSET(t)
        PROVE  messages' \in [Users -> Seq(Stored)]
    BY <1>1, <2>3, UnlabelFacts DEF RSET
  <2>4. ASSUME User[t] \in Users, messages[User[t]] \in Seq(Stored), Update(t)
        PROVE  messages' \in [Users -> Seq(Stored)]
    BY <1>1, <2>4, UpdateFacts DEF Update
  <2> QED
    BY <2>1, <2>2, <2>3, <2>4, MailEffect
<1> QED
  BY <1>2, <1>3, TypesPartsNext

\* The program starts with the types of the variables.
LEMMA TypesInit == ASSUME Init PROVE Types
<1>1. Flags
  BY UsersType DEF Init, Flags, AtHand, Places
<1>2. [k \in 1 .. MaxMessages |-> [st |-> k, del |-> FALSE]] \in Seq(Stored)
  BY ThreadsAssumption DEF Stored
<1>3. messages \in [Users -> Seq(Stored)]
  BY <1>2 DEF Init
<1> QED
  BY <1>1, <1>3, TypesParts

\* A step of the program is one of a thread, and nothing else changes the world.
LEMMA NextIsStep ==
    ASSUME Next
    PROVE  /\ \E t \in Threads : Step(t)
           /\ alive /\ UNCHANGED serial /\ (serial => Serial')
  BY DEF Next, Step

\* The variables always have the types of the program's.
THEOREM TypesInvariance == Spec => []Types
<1>1. Types /\ [Next]_vars => Types'
  <2>1. ASSUME Types, Next PROVE Types'
    BY <2>1, NextIsStep, TypesStep
  <2>2. ASSUME Types, UNCHANGED vars PROVE Types'
    BY <2>2 DEF vars, Types, TypeOK, AtHand
  <2> QED
    BY <2>1, <2>2
<1> QED
  BY <1>1, TypesInit, PTL DEF Spec

-----------------------------------------------------------------------------
\* No step of a thread releases or takes an orphaned mailbox.
LEMMA OrphanStep ==
    ASSUME Flags, NEW t \in Threads, Step(t), NEW u \in Users, Orphaned(u)
    PROVE  Orphaned(u)'
<1> USE UsersType DEF Flags, AtHand, Places, Goto, Orphaned, Owners, Taking
<1>1. CASE StartThread(t)
  BY <1>1 DEF StartThread
<1>2. CASE PeerLeaves(t)
  BY <1>2 DEF PeerLeaves
<1>3. CASE RecvEnd(t)
  BY <1>3 DEF RecvEnd
<1>4. ASSUME NEW n \in Users, USER(t, n) PROVE Orphaned(u)'
  BY <1>4 DEF USER, Receives
<1>5. ASSUME NEW n \in Users, PASS(t, n) PROVE Orphaned(u)'
  BY <1>5 DEF PASS, Receives
<1>6. CASE Login(t)
  BY <1>6 DEF Login
<1>7. CASE Take(t)
  BY <1>7 DEF Take
<1>8. CASE GiveUp(t)
  BY <1>8 DEF GiveUp
<1>9. CASE Relogin(t)
  BY <1>9 DEF Relogin
<1>10. CASE Retake(t)
  BY <1>10 DEF Retake
<1>11. ASSUME NEW k, DELE(t, k) PROVE Orphaned(u)'
  BY <1>11 DEF DELE
<1>12. CASE RSET(t)
  BY <1>12 DEF RSET
<1>13. CASE QUIT(t)
  BY <1>13 DEF QUIT, Receives
<1>14. CASE Update(t)
  BY <1>14 DEF Update
<1>15. CASE Release(t)
  BY <1>15 DEF Release
<1> QED
  BY <1>1, <1>2, <1>3, <1>4, <1>5, <1>6, <1>7, <1>8, <1>9, <1>10, <1>11, <1>12, <1>13, <1>14,
     <1>15 DEF Step, ThreadSock

(***************************************************************************)
(* A lock the second login() of a refused USER took is never released and  *)
(* never given to a session, in any interleaving of the threads.           *)
(***************************************************************************)
THEOREM OrphansStay == Spec => OrphanIsForever
<1>1. Types /\ [Next]_vars => [\A u \in Users : Orphaned(u) => Orphaned(u)']_vars
  BY NextIsStep, OrphanStep, TypesParts
<1> QED
  BY <1>1, TypesInvariance, PTL DEF Spec, OrphanIsForever

-----------------------------------------------------------------------------
(***************************************************************************)
(* Serial worlds: at most one thread is inside USER or the end of QUIT, so *)
(* what it found of `used` is still so when it acts on it.                 *)
(***************************************************************************)
LEMMA LockedStep ==
    ASSUME Flags, Locked, NEW t \in Threads, Step(t), Serial'
    PROVE  Locked'
<1> USE UsersType DEF Flags, AtHand, Places, Goto, Locked, OneOwner, Owners, GivesUpFor, Serial, Inside
<1>1. CASE StartThread(t)
  BY <1>1 DEF StartThread
<1>2. CASE PeerLeaves(t)
  BY <1>2 DEF PeerLeaves
<1>3. CASE RecvEnd(t)
  BY <1>3 DEF RecvEnd
<1>4. ASSUME NEW n \in Users, USER(t, n) PROVE Locked'
  BY <1>4 DEF USER, Receives
<1>5. ASSUME NEW n \in Users, PASS(t, n) PROVE Locked'
  BY <1>5 DEF PASS, Receives
<1>6. CASE Login(t)
  BY <1>6 DEF Login
<1>7. CASE Take(t)
  <2> PICK n : n = name[t]
    OBVIOUS
  <2>1. /\ n \in Users /\ ~used[n] /\ Owners(n) = {}
        /\ \A s \in Threads : s # t => pc[s] \notin {"take", "giveup", "relogin", "retake"}
    BY <1>7 DEF Take
  <2>2. CASE User[t] = -1
    <3>1. /\ pc' = [pc EXCEPT ![t] = "recv"] /\ User' = [User EXCEPT ![t] = n]
          /\ used' = [used EXCEPT ![n] = TRUE] /\ name' = name
      BY <1>7, <2>2 DEF Take
    <3>2. \A u \in Users : Owners(u)' = IF u = n THEN {t} ELSE Owners(u)
      BY <1>7, <2>1, <2>2, <3>1 DEF Take
    <3>3. \A u \in Users : ~GivesUpFor(u) /\ ~GivesUpFor(u)'
      BY <1>7, <2>1, <3>1 DEF Take
    <3> QED
      BY <2>1, <3>1, <3>2, <3>3
  <2>3. CASE User[t] # -1
    <3>1. /\ pc' = [pc EXCEPT ![t] = "giveup"] /\ User' = User
          /\ used' = [used EXCEPT ![n] = TRUE] /\ name' = name
      BY <1>7, <2>3 DEF Take
    <3>2. \A u \in Users : Owners(u)' = Owners(u)
      BY <1>7, <3>1 DEF Take
    <3>3. \A u \in Users : ~GivesUpFor(u) /\ (GivesUpFor(u)' <=> u = n)
      BY <1>7, <2>1, <3>1 DEF Take
    <3> QED
      BY <2>1, <3>1, <3>2, <3>3
  <2> QED
    BY <2>2, <2>3
<1>8. CASE GiveUp(t)
  BY <1>8 DEF GiveUp
<1>9. CASE Relogin(t)
  BY <1>9 DEF Relogin
<1>10. CASE Retake(t)
  BY <1>10 DEF Retake
<1>11. ASSUME NEW k, DELE(t, k) PROVE Locked'
  BY <1>11 DEF DELE
<1>12. CASE RSET(t)
  BY <1>12 DEF RSET
<1>13. CASE QUIT(t)
  BY <1>13 DEF QUIT, Receives
<1>14. CASE Update(t)
  BY <1>14 DEF Update
<1>15. CASE Release(t)
  BY <1>15 DEF Release
<1> QED
  BY <1>1, <1>2, <1>3, <1>4, <1>5, <1>6, <1>7, <1>8, <1>9, <1>10, <1>11, <1>12, <1>13, <1>14,
     <1>15 DEF Step, ThreadSock

\* Nobody owns or holds a lock at the start.
LEMMA LockedInit == ASSUME Init PROVE Locked
  BY UsersType DEF Init, Locked, Serial, Inside, OneOwner, Owners, GivesUpFor

\* In a serial world the locks are in order in every state, inside USER too.
THEOREM SerialInvariance == Spec => []SerialLocked
<1>1. Init => SerialLocked
  BY LockedInit DEF SerialLocked
<1>2. Types /\ SerialLocked /\ [Next]_vars => SerialLocked'
  <2>1. ASSUME Types, SerialLocked, Next PROVE SerialLocked'
    BY <2>1, NextIsStep, TypesParts, LockedStep DEF SerialLocked
  <2>2. ASSUME SerialLocked, UNCHANGED vars PROVE SerialLocked'
    BY <2>2 DEF vars, SerialLocked, Locked, Serial, Inside, OneOwner, Owners, GivesUpFor
  <2> QED
    BY <2>1, <2>2
<1> QED
  BY <1>1, <1>2, TypesInvariance, PTL DEF Spec

(***************************************************************************)
(* A thread indexes Massive only with a mailbox it named; and where the    *)
(* sections that touch `used` exclude each other, a mailbox is locked      *)
(* exactly while one thread owns it.                                       *)
(***************************************************************************)
THEOREM ThreadedCorrect == Spec => []ThreadedInv
<1>1. Types /\ SerialLocked => ThreadedInv
  BY DEF Types, SerialLocked, Locked, OneOwner, GivesUpFor, ThreadedInv, LockedIffOwned, Inside
<1> QED
  BY <1>1, TypesInvariance, SerialInvariance, PTL

-----------------------------------------------------------------------------
\* No step gives two messages of a mailbox the same text.
LEMMA TextsStep ==
    ASSUME Types, TextsApart, NEW t \in Threads, Step(t)
    PROVE  TextsApart'
<1>1. messages \in [Users -> Seq(Stored)]
  BY DEF Types
<1> SUFFICES ASSUME NEW u \in Users PROVE Distinct(messages'[u])
  BY DEF TextsApart
<1>2. Distinct(messages[u]) /\ messages[u] \in Seq(Stored)
  BY <1>1 DEF TextsApart
<1>3. CASE messages'[u] = messages[u]
  BY <1>2, <1>3
<1>4. ASSUME NEW k, DELE(t, k), User[t] = u PROVE Distinct(messages'[u])
  BY <1>1, <1>2, <1>4, LabelFacts DEF DELE
<1>5. ASSUME RSET(t), User[t] = u PROVE Distinct(messages'[u])
  BY <1>1, <1>2, <1>5, UnlabelFacts DEF RSET
<1>6. ASSUME Update(t), User[t] = u PROVE Distinct(messages'[u])
  BY <1>1, <1>2, <1>6, UpdateFacts DEF Update
<1>7. CASE messages'[u] # messages[u]
  <2>1. User[t] = u /\ ((\E k : DELE(t, k)) \/ RSET(t) \/ Update(t))
    BY <1>1, <1>7, MailEffect DEF DELE, RSET, Update
  <2> QED
    BY <2>1, <1>4, <1>5, <1>6
<1> QED
  BY <1>3, <1>7

\* Every message has a text of its own.
THEOREM TextsInvariance == Spec => []TextsApart
<1>1. Init => TextsApart
  BY DEF Init, TextsApart, Distinct
<1>2. Types /\ TextsApart /\ [Next]_vars => TextsApart'
  <2>1. ASSUME Types, TextsApart, Next PROVE TextsApart'
    BY <2>1, NextIsStep, TextsStep
  <2>2. ASSUME TextsApart, UNCHANGED vars PROVE TextsApart'
    BY <2>2 DEF vars, TextsApart
  <2> QED
    BY <2>1, <2>2
<1> QED
  BY <1>1, <1>2, TypesInvariance, PTL DEF Spec

-----------------------------------------------------------------------------
(***************************************************************************)
(* The refinement of Maildrop.  What the mapping makes of a state:         *)
(***************************************************************************)
Opened(u) == \E t \in Holders(u) : State[t] # "AUTHORIZATION"

Mapped ==
    /\ owner = [u \in Users |-> owner[u]] /\ opened = [u \in Users |-> opened[u]]
    /\ mail = [u \in Users |-> mail[u]] /\ marks = [u \in Users |-> marks[u]]
    /\ \A u \in Users :
          /\ Holders(u) = {} => owner[u] = Nobody
          /\ \A t \in Holders(u) : owner[u] = t /\ t # Nobody
          /\ opened[u] = Opened(u)
          /\ mail[u] = AllTexts(messages[u])
          /\ marks[u] = DelTexts(messages[u])

\* A mailbox is mapped to its owner and to the texts in it.
LEMMA Mapping == Locked => Mapped
<1> SUFFICES ASSUME Locked PROVE Mapped
  OBVIOUS
<1>1. /\ owner = [u \in Users |-> owner[u]] /\ opened = [u \in Users |-> opened[u]]
      /\ mail = [u \in Users |-> mail[u]] /\ marks = [u \in Users |-> marks[u]]
  BY DEF owner, opened, mail, marks
<1>2. ASSUME NEW u \in Users PROVE Holders(u) = {} => owner[u] = Nobody
  BY DEF owner
<1>3. ASSUME NEW u \in Users, NEW t \in Holders(u) PROVE owner[u] = t /\ t # Nobody
  <2>1. \A s \in Holders(u) : s = t
    BY DEF Locked, OneOwner, Holders
  <2>2. owner[u] \in Holders(u)
    BY DEF owner
  <2>3. t \in Threads
    BY DEF Holders, Owners
  <2> QED
    BY <2>1, <2>2, <2>3, ThreadsAssumption
<1>4. ASSUME NEW u \in Users PROVE opened[u] = Opened(u)
  BY DEF opened, Opened
<1>5. ASSUME NEW u \in Users PROVE mail[u] = AllTexts(messages[u])
  BY DEF mail, AllTexts, ToSet
<1>6. ASSUME NEW u \in Users PROVE marks[u] = DelTexts(messages[u])
  BY DEF marks, DelTexts, ToSet
<1> QED
  BY <1>1, <1>2, <1>3, <1>4, <1>5, <1>6 DEF Mapped

\* The same after a step.
LEMMA MappingNext == Locked' => Mapped'
  BY Mapping, PTL

\* The mapped owners depend only on who holds what and who was let in.
LEMMA SameHolders ==
    ASSUME Mapped, Mapped', NEW u \in Users, Holders(u)' = Holders(u),
           \A t \in Holders(u) : (State'[t] # "AUTHORIZATION") = (State[t] # "AUTHORIZATION")
    PROVE  owner'[u] = owner[u] /\ opened'[u] = opened[u]
<1>1. owner'[u] = owner[u]
  BY DEF Mapped
<1>2. Opened(u)' = Opened(u)
  BY DEF Opened
<1>3. opened'[u] = Opened(u)' /\ opened[u] = Opened(u)
  BY DEF Mapped
<1> QED
  BY <1>1, <1>2, <1>3

\* The mapped mail depends only on the messages.
LEMMA SameMail ==
    ASSUME Mapped, Mapped', NEW u \in Users, messages'[u] = messages[u]
    PROVE  mail'[u] = mail[u] /\ marks'[u] = marks[u]
  BY DEF Mapped

\* The steps that change nothing Maildrop speaks of.
LEMMA MapsToStutter ==
    ASSUME Mapped, Mapped', UNCHANGED messages,
           \A u \in Users : Holders(u)' = Holders(u),
           \A u \in Users : \A t \in Holders(u) :
               (State'[t] # "AUTHORIZATION") = (State[t] # "AUTHORIZATION")
    PROVE  UNCHANGED Drops!vars
<1>1. \A u \in Users : owner'[u] = owner[u] /\ opened'[u] = opened[u]
  BY SameHolders
<1>2. \A u \in Users : mail'[u] = mail[u] /\ marks'[u] = marks[u]
  BY SameMail
<1>3. owner' = owner /\ opened' = opened
  BY <1>1 DEF Mapped
<1>4. mail' = mail /\ marks' = marks
  BY <1>2 DEF Mapped
<1> QED
  BY <1>3, <1>4 DEF Drops!vars

\* The step in which a thread comes to own n, and nothing else.
LEMMA MapsToLock ==
    ASSUME Locked, Mapped, Mapped', UNCHANGED messages, UNCHANGED State,
           NEW t \in Threads, NEW n \in Users, State[t] = "AUTHORIZATION",
           Holders(n) = {}, Holders(n)' = {t},
           \A u \in Users : u # n => Holders(u)' = Holders(u) \ {t}
    PROVE  Drops!Lock(t, n)
<1>1. \A u \in Users : \A r, s \in Holders(u) : r = s
  BY DEF Locked, OneOwner, Holders
<1>2. t # Nobody
  BY ThreadsAssumption
<1>3. \A u \in Users : mail'[u] = mail[u] /\ marks'[u] = marks[u]
  BY SameMail
<1>4. mail' = mail /\ marks' = marks
  BY <1>3 DEF Mapped
<1>5. ASSUME NEW u \in Users PROVE opened'[u] = opened[u]
  <2>1. Opened(u)' = Opened(u)
    BY DEF Opened
  <2>2. opened'[u] = Opened(u)' /\ opened[u] = Opened(u)
    BY DEF Mapped
  <2> QED
    BY <2>1, <2>2
<1>6. opened' = opened
  BY <1>5 DEF Mapped
<1>7. ASSUME NEW u \in Users, owner[u] = t PROVE t \in Holders(u) /\ ~opened[u]
  <2>1. t \in Holders(u)
    BY <1>2, <1>7 DEF Mapped
  <2> QED
    BY <1>1, <2>1 DEF Mapped, Opened
<1>8. ASSUME NEW u \in Users
      PROVE  owner'[u] = IF u = n THEN t ELSE IF owner[u] = t THEN Nobody ELSE owner[u]
  <2>1. CASE u = n
    BY <2>1 DEF Mapped
  <2>2. CASE u # n /\ owner[u] = t
    <3>1. Holders(u)' = {}
      BY <1>1, <1>7, <2>2
    <3> QED
      BY <2>2, <3>1 DEF Mapped
  <2>3. CASE u # n /\ owner[u] # t
    <3>1. t \notin Holders(u)
      BY <2>3 DEF Mapped
    <3>2. Holders(u)' = Holders(u)
      BY <2>3, <3>1
    <3> QED
      BY <2>3, <3>2 DEF Mapped
  <2> QED
    BY <2>1, <2>2, <2>3
<1>9. owner' = [u \in Users |-> IF u = n THEN t ELSE IF owner[u] = t THEN Nobody ELSE owner[u]]
  BY <1>8 DEF Mapped
<1>10. owner[n] = Nobody
  BY DEF Mapped
<1> QED
  BY <1>4, <1>6, <1>7, <1>9, <1>10 DEF Drops!Lock

\* The step in which the owner of n is let in, or leaves for QUIT.
LEMMA MapsToOpen ==
    ASSUME Mapped, Mapped', UNCHANGED messages, NEW t, NEW n \in Users, t \in Holders(n),
           State'[t] # "AUTHORIZATION",
           \A u \in Users : Holders(u)' = Holders(u),
           \A u \in Users : \A s \in Holders(u) : u # n => State'[s] = State[s]
    PROVE  Drops!Open(n)
<1>1. \A u \in Users : mail'[u] = mail[u] /\ marks'[u] = marks[u]
  BY SameMail
<1>2. mail' = mail /\ marks' = marks
  BY <1>1 DEF Mapped
<1>3. ASSUME NEW u \in Users PROVE owner'[u] = owner[u]
  BY DEF Mapped
<1>4. ASSUME NEW u \in Users, u # n PROVE opened'[u] = opened[u]
  BY <1>4, SameHolders
<1>5. opened'[n] = TRUE
  <2>1. Opened(n)'
    BY DEF Opened
  <2>2. opened'[n] = Opened(n)'
    BY DEF Mapped
  <2> QED
    BY <2>1, <2>2
<1>6. owner' = owner /\ opened' = [opened EXCEPT ![n] = TRUE]
  BY <1>3, <1>4, <1>5 DEF Mapped
<1>7. owner[n] # Nobody
  BY DEF Mapped
<1> QED
  BY <1>2, <1>6, <1>7 DEF Drops!Open

\* A step that touches only the messages of n.
LEMMA MapsToMail ==
    ASSUME Mapped, Mapped', NEW n \in Users,
           \A u \in Users : u # n => messages'[u] = messages[u],
           \A u \in Users : Holders(u)' = Holders(u), UNCHANGED State
    PROVE  /\ UNCHANGED <<owner, opened>>
           /\ mail' = [mail EXCEPT ![n] = AllTexts(messages'[n])]
           /\ marks' = [marks EXCEPT ![n] = DelTexts(messages'[n])]
           /\ mail[n] = AllTexts(messages[n]) /\ marks[n] = DelTexts(messages[n])
<1>1. \A u \in Users : owner'[u] = owner[u] /\ opened'[u] = opened[u]
  BY SameHolders
<1>2. owner' = owner /\ opened' = opened
  BY <1>1 DEF Mapped
<1>3. \A u \in Users : u # n => mail'[u] = mail[u] /\ marks'[u] = marks[u]
  BY SameMail
<1>4. mail' = [mail EXCEPT ![n] = AllTexts(messages'[n])]
  BY <1>3 DEF Mapped
<1>5. marks' = [marks EXCEPT ![n] = DelTexts(messages'[n])]
  BY <1>3 DEF Mapped
<1>6. mail[n] = AllTexts(messages[n]) /\ marks[n] = DelTexts(messages[n])
  BY DEF Mapped
<1> QED
  BY <1>2, <1>4, <1>5, <1>6

\* The box of a thread that was let in is open.
LEMMA OpenedFor ==
    ASSUME Mapped, NEW u \in Users, NEW t \in Holders(u), State[t] # "AUTHORIZATION"
    PROVE  opened[u]
<1>1. Opened(u)
  BY DEF Opened
<1> QED
  BY <1>1 DEF Mapped

\* DELE marks a message of the open mailbox.
LEMMA MapsToMark ==
    ASSUME Types, Mapped, Mapped', NEW t \in Threads, NEW k, DELE(t, k)
    PROVE  \E b \in Users : \E m \in 1 .. MaxMessages : Drops!Mark(b, m)
<1> PICK n : n = User[t]
  OBVIOUS
<1> PICK s : s = messages[n]
  OBVIOUS
<1> PICK d : d = [s EXCEPT ![k].del = TRUE]
  OBVIOUS
<1>1. n \in Users /\ t \in Holders(n) /\ State[t] = "TRANSACTION"
  BY DEF Types, TypeOK, DELE, Receives, Holders, Owners, Leaving
<1>2. s \in Seq(Stored) /\ k \in DOMAIN s
  BY <1>1 DEF Types, DELE
<1>3. messages' = [messages EXCEPT ![n] = d]
  BY DEF DELE
<1>4. messages'[n] = d /\ \A u \in Users : u # n => messages'[u] = messages[u]
  BY <1>1, <1>3 DEF Types
<1>5. AllTexts(d) = AllTexts(s) /\ DelTexts(d) = DelTexts(s) \cup {s[k].st}
  BY <1>2, LabelFacts
<1>6. \A u \in Users : Holders(u)' = Holders(u)
  BY DEF DELE, Holders, Owners, Leaving
<1>7. /\ UNCHANGED <<owner, opened>>
      /\ mail' = [mail EXCEPT ![n] = AllTexts(d)]
      /\ marks' = [marks EXCEPT ![n] = DelTexts(d)]
      /\ mail[n] = AllTexts(s) /\ marks[n] = DelTexts(s)
  <2>1. UNCHANGED State
    BY DEF DELE
  <2> QED
    BY <1>1, <1>4, <1>6, <2>1, MapsToMail
<1>8. mail' = mail /\ marks' = [marks EXCEPT ![n] = @ \cup {s[k].st}]
  <2>1. mail = [u \in Users |-> mail[u]] /\ marks = [u \in Users |-> marks[u]]
    BY DEF Mapped
  <2>2. mail' = [mail EXCEPT ![n] = mail[n]]
    BY <1>5, <1>7
  <2>3. marks' = [marks EXCEPT ![n] = marks[n] \cup {s[k].st}]
    BY <1>5, <1>7
  <2>4. mail' = mail
    BY <2>1, <2>2
  <2> QED
    BY <2>3, <2>4
<1>9. opened[n]
  BY <1>1, OpenedFor
<1>10. s[k] \in Stored
  BY <1>2
<1>11. s[k].st \in mail[n] /\ s[k].st \in 1 .. MaxMessages
  BY <1>2, <1>7, <1>10 DEF AllTexts, Stored
<1>12. Drops!Mark(n, s[k].st)
  BY <1>7, <1>8, <1>9, <1>11 DEF Drops!Mark
<1> QED
  BY <1>1, <1>11, <1>12

\* RSET takes the marks away.
LEMMA MapsToReset ==
    ASSUME Types, Mapped, Mapped', NEW t \in Threads, RSET(t)
    PROVE  \E b \in Users : Drops!Reset(b)
<1> PICK n : n = User[t]
  OBVIOUS
<1> PICK s : s = messages[n]
  OBVIOUS
<1>1. n \in Users /\ t \in Holders(n) /\ State[t] = "TRANSACTION"
  BY DEF Types, TypeOK, RSET, Receives, Holders, Owners, Leaving
<1>2. s \in Seq(Stored)
  BY <1>1 DEF Types
<1>3. messages' = [messages EXCEPT ![n] = Unlabelled(s)]
  BY <1>1 DEF RSET, Types
<1>4. messages'[n] = Unlabelled(s) /\ \A u \in Users : u # n => messages'[u] = messages[u]
  BY <1>1, <1>3 DEF Types
<1>5. AllTexts(Unlabelled(s)) = AllTexts(s) /\ DelTexts(Unlabelled(s)) = {}
  BY <1>2, UnlabelFacts
<1>6. \A u \in Users : Holders(u)' = Holders(u)
  BY DEF RSET, Holders, Owners, Leaving
<1>7. /\ UNCHANGED <<owner, opened>>
      /\ mail' = [mail EXCEPT ![n] = AllTexts(Unlabelled(s))]
      /\ marks' = [marks EXCEPT ![n] = DelTexts(Unlabelled(s))]
      /\ mail[n] = AllTexts(s)
  <2>1. UNCHANGED State
    BY DEF RSET
  <2> QED
    BY <1>1, <1>4, <1>6, <2>1, MapsToMail
<1>8. mail' = mail /\ marks' = [marks EXCEPT ![n] = {}]
  <2>1. mail = [u \in Users |-> mail[u]]
    BY <1>1 DEF Mapped
  <2>2. mail' = [mail EXCEPT ![n] = mail[n]]
    BY <1>5, <1>7
  <2> QED
    BY <2>1, <2>2, <1>5, <1>7
<1>9. opened[n]
  BY <1>1, OpenedFor
<1>10. Drops!Reset(n)
  BY <1>7, <1>8, <1>9 DEF Drops!Reset
<1> QED
  BY <1>1, <1>10

\* updatemailbox() is the moment a thread leaves its mailbox.
LEMMA MapsToLeave ==
    ASSUME Types, TextsApart, Locked, Mapped, Mapped', NEW t \in Threads, Update(t)
    PROVE  \E b \in Users : Drops!Leave(b)
<1> PICK n : n = User[t]
  OBVIOUS
<1> PICK s : s = messages[n]
  OBVIOUS
<1>1. n \in Users /\ t \in Holders(n)
  BY DEF Types, AtHand, Update, Holders, Owners, Leaving
<1>2. s \in Seq(Stored) /\ Distinct(s)
  BY <1>1 DEF Types, TextsApart
<1>3. messages' = [messages EXCEPT ![n] = updatemailbox(s)]
  BY <1>1 DEF Update, Types
<1>4. messages'[n] = updatemailbox(s) /\ \A u \in Users : u # n => messages'[u] = messages[u]
  BY <1>1, <1>3 DEF Types
<1>5. /\ AllTexts(updatemailbox(s)) = AllTexts(s) \ DelTexts(s)
      /\ DelTexts(updatemailbox(s)) = {}
  BY <1>2, UpdateFacts
<1>6. /\ \A u \in Users : Holders(u)' = IF u = n THEN {} ELSE Holders(u)
      /\ UNCHANGED State
  <2>1. \A u \in Users : \A r \in Holders(u) : r = t <=> u = n
    BY <1>1 DEF Locked, OneOwner, Holders, Owners
  <2>2. pc' = [pc EXCEPT ![t] = "release"] /\ UNCHANGED <<User, State>>
    BY DEF Update, Goto
  <2> QED
    BY <1>1, <2>1, <2>2 DEF Holders, Owners, Leaving, Types
<1>7. \A u \in Users : u # n => /\ owner'[u] = owner[u] /\ opened'[u] = opened[u]
                                /\ mail'[u] = mail[u] /\ marks'[u] = marks[u]
  BY <1>4, <1>6, SameHolders, SameMail
<1>8. owner'[n] = Nobody /\ opened'[n] = FALSE
  <2>1. Opened(n)' = FALSE
    BY <1>1, <1>6 DEF Opened
  <2>2. opened'[n] = Opened(n)'
    BY <1>1 DEF Mapped
  <2>3. owner'[n] = Nobody
    BY <1>1, <1>6 DEF Mapped
  <2> QED
    BY <2>1, <2>2, <2>3
<1>9. mail'[n] = mail[n] \ marks[n] /\ marks'[n] = {}
  BY <1>1, <1>4, <1>5 DEF Mapped
<1>10. /\ owner' = [owner EXCEPT ![n] = Nobody]
       /\ opened' = [opened EXCEPT ![n] = FALSE]
       /\ mail' = [mail EXCEPT ![n] = @ \ marks[n]]
       /\ marks' = [marks EXCEPT ![n] = {}]
  BY <1>1, <1>7, <1>8, <1>9 DEF Mapped
<1>11. owner[n] # Nobody
  BY <1>1 DEF Mapped
<1>12. Drops!Leave(n)
  BY <1>10, <1>11 DEF Drops!Leave
<1> QED
  BY <1>1, <1>12

-----------------------------------------------------------------------------
\* Which threads hold which mailbox after a step that leaves the mail alone.
LEMMA HoldersEffect ==
    ASSUME Types, Locked, NEW t \in Threads, Step(t), UNCHANGED messages, ~Update(t)
    PROVE  \/ /\ \A u \in Users : Holders(u)' = Holders(u)
              /\ \A u \in Users : \A s \in Holders(u) :
                     (State'[s] # "AUTHORIZATION") = (State[s] # "AUTHORIZATION")
           \/ \E n \in Users :
                 /\ UNCHANGED State /\ State[t] = "AUTHORIZATION"
                 /\ Holders(n) = {} /\ Holders(n)' = {t}
                 /\ \A u \in Users : u # n => Holders(u)' = Holders(u) \ {t}
           \/ \E n \in Users :
                 /\ t \in Holders(n) /\ State'[t] # "AUTHORIZATION"
                 /\ \A u \in Users : Holders(u)' = Holders(u)
                 /\ \A u \in Users : \A s \in Holders(u) : u # n => State'[s] = State[s]
<1> DEFINE Same == /\ \A u \in Users : Holders(u)' = Holders(u)
                   /\ \A u \in Users : \A s \in Holders(u) :
                          (State'[s] # "AUTHORIZATION") = (State[s] # "AUTHORIZATION")
<1> USE UsersType DEF Types, TypeOK, AtHand, Places, Goto, Holders, Owners, Leaving
<1>1. CASE StartThread(t)
  BY <1>1 DEF StartThread
<1>2. CASE PeerLeaves(t)
  BY <1>2 DEF PeerLeaves
<1>3. CASE RecvEnd(t)
  BY <1>3 DEF RecvEnd
<1>4. ASSUME NEW n \in Users, USER(t, n) PROVE Same
  BY <1>4 DEF USER, Receives
<1>5. ASSUME NEW n \in Users, PASS(t, n)
      PROVE  /\ t \in Holders(n) /\ State'[t] # "AUTHORIZATION"
             /\ \A u \in Users : Holders(u)' = Holders(u)
             /\ \A u \in Users : \A s \in Holders(u) : u # n => State'[s] = State[s]
  BY <1>5 DEF PASS, Receives
<1>6. ASSUME Login(t) PROVE Same
  BY <1>6 DEF Login
<1>7. ASSUME Take(t), User[t] # -1 PROVE Same
  BY <1>7 DEF Take
<1>8. ASSUME Take(t), User[t] = -1
      PROVE  \E n \in Users :
                 /\ UNCHANGED State /\ State[t] = "AUTHORIZATION"
                 /\ Holders(n) = {} /\ Holders(n)' = {t}
                 /\ \A u \in Users : u # n => Holders(u)' = Holders(u) \ {t}
  <2> PICK n : n = name[t]
    OBVIOUS
  <2>1. n \in Users /\ Owners(n) = {}
    <3>1. n \in Users /\ ~used[n]
      BY <1>8 DEF Take, Locked
    <3> QED
      BY <3>1 DEF Locked
  <2>2. /\ pc' = [pc EXCEPT ![t] = "recv"] /\ User' = [User EXCEPT ![t] = n]
        /\ UNCHANGED State /\ State[t] = "AUTHORIZATION"
    BY <1>8 DEF Take
  <2> QED
    BY <1>8, <2>1, <2>2
<1>9. ASSUME GiveUp(t)
      PROVE  \E n \in Users :
                 /\ UNCHANGED State /\ State[t] = "AUTHORIZATION"
                 /\ Holders(n) = {} /\ Holders(n)' = {t}
                 /\ \A u \in Users : u # n => Holders(u)' = Holders(u) \ {t}
  <2> PICK n : n = name[t]
    OBVIOUS
  <2>1. n \in Users /\ Owners(n) = {}
    BY <1>9 DEF GiveUp, Locked
  <2>2. /\ pc' = [pc EXCEPT ![t] = "recv"] /\ User' = [User EXCEPT ![t] = n]
        /\ UNCHANGED State /\ State[t] = "AUTHORIZATION"
    BY <1>9 DEF GiveUp
  <2> QED
    BY <1>9, <2>1, <2>2
<1>10. ASSUME Relogin(t) PROVE Same
  BY <1>10 DEF Relogin
<1>11. ASSUME Retake(t) PROVE Same
  BY <1>11 DEF Retake
<1>12. ASSUME NEW k, DELE(t, k) PROVE Same
  BY <1>12 DEF DELE
<1>13. ASSUME RSET(t) PROVE Same
  <2>1. UNCHANGED <<User, State, pc>>
    BY <1>13 DEF RSET
  <2> QED
    BY <2>1
<1>14. ASSUME QUIT(t), User[t] = -1 PROVE Same
  BY <1>14 DEF QUIT, Receives
<1>15. ASSUME QUIT(t), User[t] # -1
       PROVE  \E n \in Users :
                 /\ t \in Holders(n) /\ State'[t] # "AUTHORIZATION"
                 /\ \A u \in Users : Holders(u)' = Holders(u)
                 /\ \A u \in Users : \A s \in Holders(u) : u # n => State'[s] = State[s]
  <2> PICK n : n = User[t]
    OBVIOUS
  <2>1. n \in Users
    BY <1>15
  <2> QED
    BY <1>15, <2>1 DEF QUIT, Receives
<1>16. ASSUME Release(t) PROVE Same
  BY <1>16 DEF Release
<1> QED
  BY <1>1, <1>2, <1>3, <1>4, <1>5, <1>6, <1>7, <1>8, <1>9, <1>10, <1>11, <1>12, <1>13, <1>14,
     <1>15, <1>16 DEF Step, ThreadSock

\* In a serial world every step does to the mailboxes what Maildrop allows.
LEMMA MaildropStep ==
    ASSUME Types, TextsApart, Locked, Locked', NEW t \in Threads, Step(t)
    PROVE  [Drops!Next]_(Drops!vars)
<1>1. Mapped /\ Mapped'
  BY Mapping, MappingNext
<1>2. CASE UNCHANGED messages /\ ~Update(t)
  <2>1. ASSUME NEW n \in Users, UNCHANGED State, State[t] = "AUTHORIZATION",
               Holders(n) = {}, Holders(n)' = {t},
               \A u \in Users : u # n => Holders(u)' = Holders(u) \ {t}
        PROVE  Drops!Next
    <3>1. Drops!Lock(t, n)
      BY <1>1, <1>2, <2>1, MapsToLock
    <3> QED
      BY <3>1 DEF Drops!Next
  <2>2. ASSUME NEW n \in Users, t \in Holders(n), State'[t] # "AUTHORIZATION",
               \A u \in Users : Holders(u)' = Holders(u),
               \A u \in Users : \A s \in Holders(u) : u # n => State'[s] = State[s]
        PROVE  Drops!Next
    <3>1. Drops!Open(n)
      BY <1>1, <1>2, <2>2, MapsToOpen
    <3> QED
      BY <3>1 DEF Drops!Next
  <2>3. ASSUME \A u \in Users : Holders(u)' = Holders(u),
               \A u \in Users : \A s \in Holders(u) :
                   (State'[s] # "AUTHORIZATION") = (State[s] # "AUTHORIZATION")
        PROVE  UNCHANGED Drops!vars
    BY <1>1, <1>2, <2>3, MapsToStutter
  <2> QED
    BY <1>2, <2>1, <2>2, <2>3, HoldersEffect
<1>3. CASE Update(t)
  BY <1>1, <1>3, MapsToLeave DEF Drops!Next
<1>4. CASE RSET(t)
  BY <1>1, <1>4, MapsToReset DEF Drops!Next
<1>5. ASSUME NEW k, DELE(t, k) PROVE Drops!Next
  BY <1>1, <1>5, MapsToMark DEF Drops!Next
<1> QED
  BY <1>2, <1>3, <1>4, <1>5, MailEffect

\* The program starts where Maildrop does.
LEMMA MaildropInit == ASSUME Init PROVE Drops!Init
<1>1. Mapped
  BY LockedInit, Mapping
<1>2. Types
  BY TypesInit
<1>3. \A u \in Users : Holders(u) = {} /\ ~Opened(u)
  BY UsersType DEF Init, Holders, Owners, Opened
<1>4. \A u \in Users : owner[u] = Nobody /\ opened[u] = FALSE
  <2> TAKE u \in Users
  <2>1. opened[u] = Opened(u) /\ owner[u] = Nobody
    BY <1>1, <1>3 DEF Mapped
  <2>2. Opened(u) = FALSE
    BY <1>3
  <2> QED
    BY <2>1, <2>2
<1>5. \A u \in Users : mail[u] \subseteq 1 .. MaxMessages /\ marks[u] = {}
  <2> TAKE u \in Users
  <2> PICK s : s = messages[u]
    OBVIOUS
  <2>1. s \in Seq(Stored) /\ \A k \in DOMAIN s : s[k].st \in 1 .. MaxMessages
    BY <1>2 DEF Types, TypeOK
  <2>2. \A k \in DOMAIN s : ~s[k].del
    BY DEF Init
  <2>3. AllTexts(s) \subseteq 1 .. MaxMessages /\ DelTexts(s) = {}
    BY <2>1, <2>2 DEF AllTexts, DelTexts
  <2>4. mail[u] = AllTexts(s) /\ marks[u] = DelTexts(s)
    BY <1>1 DEF Mapped
  <2> QED
    BY <2>3, <2>4
<1>6. owner = [u \in Users |-> Nobody] /\ opened = [u \in Users |-> FALSE]
  BY <1>1, <1>4 DEF Mapped
<1>7. mail \in [Users -> SUBSET (1 .. MaxMessages)] /\ marks = [u \in Users |-> {}]
  BY <1>1, <1>5 DEF Mapped
<1> QED
  BY <1>6, <1>7 DEF Drops!Init

(***************************************************************************)
(* Where the sections that touch `used` exclude each other, the threads    *)
(* give every mailbox to one owner at a time, and what it marked           *)
(* disappears at once, when its updatemailbox() has run.                   *)
(***************************************************************************)
THEOREM Refinement == Spec => ImplementsMaildrop
<1>1. Types /\ TextsApart /\ SerialLocked /\ SerialLocked' /\ [Next]_vars
      => [serial => [Drops!Next]_(Drops!vars)]_vars
  BY NextIsStep, MaildropStep DEF SerialLocked
<1> QED
  BY <1>1, MaildropInit, TypesInvariance, TextsInvariance, SerialInvariance, PTL
     DEF Spec, ImplementsMaildrop

-----------------------------------------------------------------------------
(***************************************************************************)
(* Proofs about LineFraming, for every stream a peer may send, every way   *)
(* it may be cut, and every size of buffers and chunks.                    *)
(*                                                                         *)
(* Each property has its own account of what is in buf.  Room: how much.   *)
(* JointInv and FreshInv: exactly the part of the line that has come.      *)
(* InOrder: later bytes than the handler has been given.  Ragged: no bytes *)
(* in front of a CR LF that came whole.                                    *)
(***************************************************************************)
-----------------------------------------------------------------------------
(***************************************************************************)
(* Numbers and sequences.                                                  *)
(***************************************************************************)

\* A set of natural numbers has a least one.
LEMMA Least ==
    ASSUME NEW S \in SUBSET Nat, S # {}
    PROVE  \E n \in S : \A m \in S : n <= m
<1> DEFINE R == {ss \in Nat \X Nat : ss[1] < ss[2]}
<1>1. OpToRel(<, Nat) = R
  BY DEF OpToRel
<1>2. IsWellFoundedOn(R, Nat)
  BY <1>1, NatLessThanWellFounded, Zenon
<1> HIDE DEF R
<1>3. PICK n \in S : \A m \in S : <<m, n>> \notin R
  BY <1>2, WFMin, Zenon
<1>4. \A m \in S : ~(m < n)
  BY <1>3 DEF R
<1> QED
  BY <1>4

\* Min is that one.
LEMMA MinIsLeast ==
    ASSUME NEW S \in SUBSET Nat, S # {}
    PROVE  Min(S) \in S /\ \A m \in S : Min(S) <= m
  BY Least DEF Min

\* The first n elements of a sequence.
LEMMA FrontOf ==
    ASSUME NEW S, NEW s \in Seq(S), NEW n \in 0 .. Len(s)
    PROVE  /\ SubSeq(s, 1, n) \in Seq(S) /\ Len(SubSeq(s, 1, n)) = n
           /\ \A k \in 1 .. n : SubSeq(s, 1, n)[k] = s[k]
  BY SubSeqProperties

\* The elements behind them.
LEMMA RestOf ==
    ASSUME NEW S, NEW s \in Seq(S), NEW n \in 0 .. Len(s)
    PROVE  /\ SubSeq(s, n + 1, Len(s)) \in Seq(S) /\ Len(SubSeq(s, n + 1, Len(s))) = Len(s) - n
           /\ \A k \in 1 .. Len(s) - n : SubSeq(s, n + 1, Len(s))[k] = s[n + k]
<1>1. \A i \in n + 1 .. Len(s) : s[i] \in S
  OBVIOUS
<1>2. \A k \in 1 .. Len(s) - n : (n + 1) + k - 1 = n + k
  OBVIOUS
<1> QED
  BY <1>1, <1>2, SubSeqProperties

-----------------------------------------------------------------------------
(***************************************************************************)
(* What sscanf() makes of a string.                                        *)
(***************************************************************************)

\* White space at the head is skipped, and nothing else.
LEMMA Skips ==
    ASSUME NEW s \in Seq(Nat)
    PROVE  \E i \in 0 .. Len(s) :
              /\ SkipWhite(s) = SubSeq(s, i + 1, Len(s))
              /\ \A k \in 1 .. i : ~IsText(s[k])
              /\ i < Len(s) => IsText(s[i + 1])
<1> DEFINE I == {k \in 1 .. Len(s) : IsText(s[k])}
<1>1. SelectInSeq(s, IsText) = IF I # {} THEN Min(I) ELSE 0
  BY DEF SelectInSeq
<1>2. CASE I = {}
  <2>1. SkipWhite(s) = <<>>
    BY <1>1, <1>2 DEF SkipWhite
  <2>2. SubSeq(s, Len(s) + 1, Len(s)) = <<>>
    BY SubSeqEmpty
  <2> QED
    BY <1>2, <2>1, <2>2
<1>3. CASE I # {}
  <2>1. Min(I) \in I /\ \A k \in I : Min(I) <= k
    <3>1. I \in SUBSET Nat
      OBVIOUS
    <3> HIDE DEF I
    <3> QED
      BY <1>3, <3>1, MinIsLeast
  <2>2. SkipWhite(s) = SubSeq(s, Min(I), Len(s))
    <3>1. Min(I) # 0
      BY <2>1
    <3> QED
      BY <1>1, <1>3, <3>1 DEF SkipWhite
  <2> DEFINE i == Min(I) - 1
  <2>3. i \in 0 .. Len(s) /\ i + 1 = Min(I) /\ i + 1 \in I
    BY <2>1
  <2>4. \A k \in 1 .. i : k \notin I
    BY <2>1, <2>3
  <2>5. \A k \in 1 .. i : ~IsText(s[k])
    BY <2>3, <2>4
  <2>6. SkipWhite(s) = SubSeq(s, i + 1, Len(s)) /\ IsText(s[i + 1])
    BY <2>2, <2>3
  <2> i \in 0 .. Len(s)
    BY <2>3
  <2> HIDE DEF i, I
  <2> WITNESS i \in 0 .. Len(s)
  <2> QED
    BY <2>5, <2>6
<1> QED
  BY <1>2, <1>3

\* A word is the text at the head.
LEMMA Takes ==
    ASSUME NEW s \in Seq(Nat)
    PROVE  \E i \in 0 .. Len(s) :
              /\ Word(s) = SubSeq(s, 1, i)
              /\ \A k \in 1 .. i : IsText(s[k])
              /\ i < Len(s) => ~IsText(s[i + 1])
<1> DEFINE I == {k \in 1 .. Len(s) : ~IsText(s[k])}
<1>1. SelectInSeq(s, LAMBDA b : ~IsText(b)) = IF I # {} THEN Min(I) ELSE 0
  BY DEF SelectInSeq
<1>2. CASE I = {}
  <2>1. Word(s) = s
    BY <1>1, <1>2 DEF Word
  <2>2. SubSeq(s, 1, Len(s)) = s
    BY SubSeqFull
  <2>3. \A k \in 1 .. Len(s) : IsText(s[k])
    BY <1>2
  <2> Len(s) \in 0 .. Len(s)
    OBVIOUS
  <2> WITNESS Len(s) \in 0 .. Len(s)
  <2> QED
    BY <2>1, <2>2, <2>3
<1>3. CASE I # {}
  <2>1. Min(I) \in I /\ \A k \in I : Min(I) <= k
    <3>1. I \in SUBSET Nat
      OBVIOUS
    <3> HIDE DEF I
    <3> QED
      BY <1>3, <3>1, MinIsLeast
  <2>2. Word(s) = SubSeq(s, 1, Min(I) - 1)
    <3>1. Min(I) # 0
      BY <2>1
    <3> QED
      BY <1>1, <1>3, <3>1 DEF Word
  <2> DEFINE i == Min(I) - 1
  <2>3. i \in 0 .. Len(s) /\ i + 1 = Min(I) /\ i + 1 \in I
    BY <2>1
  <2>4. \A k \in 1 .. i : k \notin I
    BY <2>1, <2>3
  <2>5. \A k \in 1 .. i : IsText(s[k])
    BY <2>3, <2>4
  <2>6. Word(s) = SubSeq(s, 1, i) /\ ~IsText(s[i + 1])
    BY <2>2, <2>3
  <2> i \in 0 .. Len(s)
    BY <2>3
  <2> HIDE DEF i, I
  <2> WITNESS i \in 0 .. Len(s)
  <2> QED
    BY <2>5, <2>6
<1> QED
  BY <1>2, <1>3

\* The two words are texts of s, and the second is behind the first.
LEMMA WordsAre ==
    ASSUME NEW s \in Seq(Nat)
    PROVE  /\ Words(s) = <<Words(s)[1], Words(s)[2]>>
           /\ Words(s)[1] \in Seq(Nat) /\ Words(s)[2] \in Seq(Nat)
           /\ Text(Words(s)[1]) /\ Text(Words(s)[2])
           /\ \E i, j \in Nat :
                 /\ i + Len(Words(s)[1]) <= j /\ j + Len(Words(s)[2]) <= Len(s)
                 /\ \A k \in DOMAIN Words(s)[1] : Words(s)[1][k] = s[i + k]
                 /\ \A k \in DOMAIN Words(s)[2] : Words(s)[2][k] = s[j + k]
<1> DEFINE t == SkipWhite(s)
           c == Word(t)
           r == SubSeq(t, Len(c) + 1, Len(t))
           v == SkipWhite(r)
           p == Word(v)
<1>1. Words(s) = <<c, p>>
  BY DEF Words
<1>2. PICK i \in 0 .. Len(s) : t = SubSeq(s, i + 1, Len(s))
  BY Skips
<1> HIDE DEF t
<1>3. t \in Seq(Nat) /\ Len(t) = Len(s) - i /\ \A k \in 1 .. Len(t) : t[k] = s[i + k]
  BY <1>2, RestOf
<1>4. PICK n \in 0 .. Len(t) : c = SubSeq(t, 1, n) /\ \A k \in 1 .. n : IsText(t[k])
  BY <1>3, Takes
<1> HIDE DEF c
<1>5. c \in Seq(Nat) /\ Len(c) = n /\ \A k \in 1 .. n : c[k] = t[k]
  BY <1>3, <1>4, FrontOf
<1>6. r \in Seq(Nat) /\ Len(r) = Len(t) - n /\ \A k \in 1 .. Len(r) : r[k] = t[n + k]
  BY <1>3, <1>5, RestOf
<1> HIDE DEF r
<1>7. PICK j \in 0 .. Len(r) : v = SubSeq(r, j + 1, Len(r))
  BY <1>6, Skips
<1> HIDE DEF v
<1>8. v \in Seq(Nat) /\ Len(v) = Len(r) - j /\ \A k \in 1 .. Len(v) : v[k] = r[j + k]
  BY <1>6, <1>7, RestOf
<1>9. PICK m \in 0 .. Len(v) : p = SubSeq(v, 1, m) /\ \A k \in 1 .. m : IsText(v[k])
  BY <1>8, Takes
<1> HIDE DEF p
<1>10. p \in Seq(Nat) /\ Len(p) = m /\ \A k \in 1 .. m : p[k] = v[k]
  BY <1>8, <1>9, FrontOf
<1>11. Text(c) /\ Text(p)
  BY <1>4, <1>5, <1>9, <1>10 DEF Text
<1>12. \A k \in DOMAIN c : c[k] = s[i + k]
  <2> SUFFICES ASSUME NEW k \in 1 .. n PROVE c[k] = s[i + k]
    BY <1>5
  <2>1. c[k] = t[k] /\ k \in 1 .. Len(t)
    BY <1>5
  <2> QED
    BY <1>3, <2>1
<1>13. \A k \in DOMAIN p : p[k] = s[(i + n + j) + k]
  <2> SUFFICES ASSUME NEW k \in 1 .. m PROVE p[k] = s[(i + n + j) + k]
    BY <1>10
  <2>1. p[k] = v[k] /\ v[k] = r[j + k]
    BY <1>8, <1>10
  <2>2. j + k \in 1 .. Len(r) /\ r[j + k] = t[n + (j + k)]
    BY <1>6, <1>8
  <2>3. n + (j + k) \in 1 .. Len(t) /\ t[n + (j + k)] = s[i + (n + (j + k))]
    BY <1>3, <1>6, <2>2
  <2> QED
    BY <2>1, <2>2, <2>3
<1>14. (i + n + j) + Len(p) <= Len(s) /\ i + Len(c) <= i + n + j /\ i + n + j \in Nat
  BY <1>3, <1>5, <1>6, <1>8, <1>10
<1>15. Words(s)[1] = c /\ Words(s)[2] = p
  BY <1>1
<1>16. \E a, b \in Nat : /\ a + Len(c) <= b /\ b + Len(p) <= Len(s)
                         /\ \A k \in DOMAIN c : c[k] = s[a + k]
                         /\ \A k \in DOMAIN p : p[k] = s[b + k]
  <2> HIDE DEF p
  <2> DEFINE q == i + n + j
  <2>1. i \in Nat /\ q \in Nat
    BY <1>14
  <2>2. /\ i + Len(c) <= q /\ q + Len(p) <= Len(s)
        /\ \A k \in DOMAIN c : c[k] = s[i + k]
        /\ \A k \in DOMAIN p : p[k] = s[q + k]
    BY <1>12, <1>13, <1>14
  <2> HIDE DEF q
  <2> QED
    BY <2>1, <2>2
<1> HIDE DEF p
<1> QED
  BY <1>1, <1>5, <1>10, <1>11, <1>15, <1>16

\* A line of text is its own first word, also behind the LF of the line before.
LEMMA WordsOfText ==
    ASSUME NEW s \in Seq(Nat), Text(s), NEW t, t = s \/ t = <<LF>> \o s
    PROVE  Words(t) = <<s, <<>>>>
<1>1. SkipWhite(s) = s
  <2>1. PICK i \in 0 .. Len(s) : SkipWhite(s) = SubSeq(s, i + 1, Len(s)) /\ \A k \in 1 .. i : ~IsText(s[k])
    BY Skips
  <2>2. i = 0
    BY <2>1 DEF Text
  <2> QED
    BY <2>1, <2>2, SubSeqFull
<1>2. Word(s) = s
  <2>1. PICK i \in 0 .. Len(s) : Word(s) = SubSeq(s, 1, i) /\ (i < Len(s) => ~IsText(s[i + 1]))
    BY Takes
  <2>2. i = Len(s)
    BY <2>1 DEF Text
  <2> QED
    BY <2>1, <2>2, SubSeqFull
<1>3. SkipWhite(<<>>) = <<>> /\ Word(<<>>) = <<>>
  <2> DEFINE e == <<>>
  <2>1. e \in Seq(Nat) /\ Len(e) = 0
    OBVIOUS
  <2> HIDE DEF e
  <2>2. PICK i \in 0 .. Len(e) : SkipWhite(e) = SubSeq(e, i + 1, Len(e))
    BY <2>1, Skips
  <2>3. PICK j \in 0 .. Len(e) : Word(e) = SubSeq(e, 1, j)
    BY <2>1, Takes
  <2>4. SkipWhite(e) = <<>> /\ Word(e) = <<>>
    BY <2>1, <2>2, <2>3, SubSeqEmpty
  <2> QED
    BY <2>4 DEF e
<1>4. SkipWhite(t) = s
  <2>1. CASE t = s
    BY <1>1, <2>1
  <2>2. CASE t = <<LF>> \o s
    <3>1. <<LF>> \in Seq(Nat) /\ Len(<<LF>>) = 1 /\ <<LF>>[1] = LF /\ ~IsText(LF)
      BY DEF LF, IsText
    <3>2. /\ t \in Seq(Nat) /\ Len(t) = Len(s) + 1 /\ t[1] = LF
          /\ \A k \in 1 .. Len(s) : t[k + 1] = s[k]
      BY <2>2, <3>1, ConcatProperties
    <3>3. PICK i \in 0 .. Len(t) : /\ SkipWhite(t) = SubSeq(t, i + 1, Len(t))
                                   /\ \A k \in 1 .. i : ~IsText(t[k])
                                   /\ i < Len(t) => IsText(t[i + 1])
      BY <3>2, Skips
    <3>4. i # 0
      BY <3>1, <3>2, <3>3
    <3>5. ~(i > 1)
      <4> SUFFICES ASSUME i > 1 PROVE FALSE
        OBVIOUS
      <4>1. ~IsText(t[2]) /\ 1 \in 1 .. Len(s)
        BY <3>2, <3>3
      <4>2. t[1 + 1] = s[1] /\ IsText(s[1])
        BY <3>2, <4>1 DEF Text
      <4> QED
        BY <4>1, <4>2
    <3>6. SkipWhite(t) = SubSeq(t, 1 + 1, Len(t))
      BY <3>3, <3>4, <3>5
    <3>7. /\ SubSeq(t, 1 + 1, Len(t)) \in Seq(Nat) /\ Len(SubSeq(t, 1 + 1, Len(t))) = Len(s)
          /\ \A k \in 1 .. Len(s) : SubSeq(t, 1 + 1, Len(t))[k] = s[k]
      BY <3>1, <3>2, RestOf
    <3> QED
      BY <3>6, <3>7, SeqEqual
  <2> QED
    BY <2>1, <2>2
<1>5. SubSeq(s, Len(s) + 1, Len(s)) = <<>>
  BY SubSeqEmpty
<1> QED
  BY <1>2, <1>3, <1>4, <1>5 DEF Words

-----------------------------------------------------------------------------
(***************************************************************************)
(* The stream.                                                             *)
(***************************************************************************)

Stream == ends \in Seq(Nat) /\ \A i \in Lines : Length(i) \in Nat

\* Where lines begin and end.
LEMMA StreamPlaces ==
    ASSUME Stream
    PROVE  /\ Len(ends) \in Nat /\ Lines = 1 .. Len(ends) /\ Total \in Nat
           /\ \A i \in Lines : /\ Start(i) \in Nat /\ End(i) \in Nat /\ Length(i) \in Nat
                              /\ End(i) = Start(i) + Length(i) + 2
           /\ \A i \in Lines : i > 1 => i - 1 \in Lines /\ Start(i) = End(i - 1)
           /\ Len(ends) = 0 => Total = 0
           /\ Len(ends) # 0 => Len(ends) \in Lines /\ Total = End(Len(ends))
<1>1. Len(ends) \in Nat /\ Lines = 1 .. Len(ends) /\ \A i \in Lines : ends[i] \in Nat
  BY DEF Stream, Lines
<1>2. Total \in Nat
  BY <1>1 DEF Total, Start
<1>3. ASSUME NEW i \in Lines
      PROVE  /\ Start(i) \in Nat /\ End(i) \in Nat /\ Length(i) \in Nat
             /\ End(i) = Start(i) + Length(i) + 2
  BY <1>1 DEF Start, End, Length, Stream
<1>4. ASSUME NEW i \in Lines, i > 1 PROVE i - 1 \in Lines /\ Start(i) = End(i - 1)
  BY <1>1, <1>4 DEF Start, End
<1>5. Len(ends) = 0 => Total = 0
  BY <1>1 DEF Total, Start
<1>6. Len(ends) # 0 => Len(ends) \in Lines /\ Total = End(Len(ends))
  BY <1>1 DEF Total, Start, End
<1> QED
  BY <1>1, <1>2, <1>3, <1>4, <1>5, <1>6

\* A line begins behind the end of every line before it.
LEMMA LinesFollow ==
    ASSUME Stream, NEW i \in Lines, NEW j \in Lines, i < j
    PROVE  End(i) <= Start(j)
<1> DEFINE S == {k \in Lines : i < k /\ ~(End(i) <= Start(k))}
<1>1. Lines \subseteq Nat /\ S \subseteq Nat
  BY StreamPlaces
<1>2. SUFFICES ASSUME S # {} PROVE FALSE
  OBVIOUS
<1>3. PICK k \in S : \A m \in S : k <= m
  <2> HIDE DEF S
  <2> QED
    BY <1>1, <1>2, Least
<1>4. k \in Lines /\ k > i /\ k - 1 \in Lines /\ Start(k) = End(k - 1)
  BY <1>1, <1>3, StreamPlaces
<1>5. k - 1 # i
  BY <1>3, <1>4, StreamPlaces
<1>6. k - 1 \notin S
  BY <1>1, <1>3, <1>4
<1>7. End(i) <= Start(k - 1)
  BY <1>1, <1>4, <1>5, <1>6
<1>8. /\ Start(k - 1) \in Nat /\ End(k - 1) \in Nat /\ Length(k - 1) \in Nat
      /\ End(k - 1) = Start(k - 1) + Length(k - 1) + 2 /\ End(i) \in Nat
  BY <1>4, StreamPlaces
<1>9. ~(End(i) <= Start(k))
  BY <1>3
<1> QED
  BY <1>4, <1>7, <1>8, <1>9

\* Every byte is of a line.
LEMMA LineAt ==
    ASSUME Stream, NEW p \in 1 .. Total
    PROVE  \E i \in Lines : Start(i) < p /\ p <= End(i)
<1> DEFINE S == {k \in Lines : p <= End(k)}
<1>1. S \subseteq Nat
  BY StreamPlaces
<1>2. S # {}
  BY StreamPlaces
<1>3. PICK i \in S : \A m \in S : i <= m
  <2> HIDE DEF S
  <2> QED
    BY <1>1, <1>2, Least
<1>4. i \in Lines /\ p <= End(i)
  BY <1>3
<1>5. Start(i) < p
  <2>1. CASE i = 1
    BY <1>4, <2>1 DEF Start
  <2>2. CASE i # 1
    <3>1. i - 1 \in Lines /\ Start(i) = End(i - 1) /\ End(i - 1) \in Nat
      BY <1>4, <2>2, StreamPlaces
    <3>2. i - 1 \notin S
      BY <1>1, <1>3
    <3> QED
      BY <3>1, <3>2
  <2> QED
    BY <2>1, <2>2
<1> QED
  BY <1>4, <1>5

\* And of one only.
LEMMA OneLine ==
    ASSUME Stream, NEW i \in Lines, NEW j \in Lines, NEW p \in Nat,
           Start(i) < p, p <= End(i), Start(j) < p, p <= End(j)
    PROVE  i = j
<1>1. i \in Nat /\ j \in Nat
  BY StreamPlaces
<1>2. ~(i < j)
  BY LinesFollow, StreamPlaces
<1>3. ~(j < i)
  BY LinesFollow, StreamPlaces
<1> QED
  BY <1>1, <1>2, <1>3

\* A line ends with its CR LF, and the rest of it is text.
LEMMA ByteOf ==
    ASSUME Stream, NEW i \in Lines, NEW p \in Nat, Start(i) < p, p <= End(i)
    PROVE  Byte(p) = IF p = End(i) - 1 THEN CR ELSE IF p = End(i) THEN LF ELSE 32 + p
<1>1. ToSet(ends) = {End(j) : j \in Lines}
  BY DEF ToSet, End, Lines
<1>2. End(i) \in ToSet(ends)
  BY <1>1
<1>3. ASSUME NEW j \in Lines, p = End(j) PROVE p = End(i)
  <2>1. Start(j) < p
    BY <1>3, StreamPlaces
  <2>2. i = j
    BY <1>3, <2>1, OneLine
  <2> QED
    BY <1>3, <2>2
<1>4. ASSUME NEW j \in Lines, p + 1 = End(j) PROVE p = End(i) - 1
  <2>1. CASE i = j
    BY <1>4, <2>1, StreamPlaces
  <2>2. CASE j < i
    BY <1>4, <2>2, LinesFollow, StreamPlaces
  <2>3. CASE i < j
    BY <1>4, <2>3, LinesFollow, StreamPlaces
  <2> QED
    BY <2>1, <2>2, <2>3, StreamPlaces
<1>5. p + 1 \in ToSet(ends) <=> p = End(i) - 1
  BY <1>1, <1>2, <1>4, StreamPlaces
<1>6. p \in ToSet(ends) <=> p = End(i)
  BY <1>1, <1>2, <1>3
<1> QED
  BY <1>5, <1>6 DEF Byte

\* What a byte is says where it is.
LEMMA ByteKinds ==
    ASSUME Stream, NEW p \in 1 .. Total
    PROVE  /\ Byte(p) \in Nat
           /\ IsText(Byte(p)) => Byte(p) = 32 + p
           /\ \A i \in Lines : Byte(p) = CR /\ Start(i) < p /\ p <= End(i) => p = End(i) - 1
           /\ \A i \in Lines : Byte(p) = LF /\ Start(i) < p /\ p <= End(i) => p = End(i)
<1>1. PICK i \in Lines : Start(i) < p /\ p <= End(i)
  BY LineAt
<1>2. Byte(p) = IF p = End(i) - 1 THEN CR ELSE IF p = End(i) THEN LF ELSE 32 + p
  BY <1>1, ByteOf
<1>3. ASSUME NEW j \in Lines, Start(j) < p, p <= End(j) PROVE i = j
  BY <1>1, <1>3, OneLine
<1> QED
  BY <1>1, <1>2, <1>3, StreamPlaces DEF CR, LF, IsText

\* LineOf finds the line of a byte of text.
LEMMA LineOfText ==
    ASSUME Stream, NEW p \in 1 .. Total
    PROVE  /\ LineOf(32 + p) \in Lines
           /\ Start(LineOf(32 + p)) < p /\ p <= End(LineOf(32 + p))
<1>1. \E i \in Lines : Start(i) < (32 + p) - 32 /\ (32 + p) - 32 <= End(i)
  BY LineAt
<1>2. LineOf(32 + p) \in Lines /\ Start(LineOf(32 + p)) < (32 + p) - 32
      /\ (32 + p) - 32 <= End(LineOf(32 + p))
  BY <1>1 DEF LineOf
<1> QED
  BY <1>2

\* A part of the stream.
LEMMA BytesAre ==
    ASSUME Stream, NEW m \in Nat, NEW n \in Nat, m <= n, n <= Total
    PROVE  /\ Bytes(m, n) \in Seq(Nat) /\ Len(Bytes(m, n)) = n - m
           /\ \A k \in 1 .. n - m : m + k \in 1 .. Total /\ Bytes(m, n)[k] = Byte(m + k)
<1>1. \A k \in 1 .. n - m : m + k \in 1 .. Total
  BY StreamPlaces
<1>2. \A k \in 1 .. n - m : Byte(m + k) \in Nat
  BY <1>1, ByteKinds
<1>3. n - m \in Nat
  OBVIOUS
<1>4. Bytes(m, n) \in [1 .. n - m -> Nat]
  BY <1>2 DEF Bytes
<1>5. Bytes(m, n) \in Seq(Nat) /\ Len(Bytes(m, n)) = n - m
  BY <1>3, <1>4
<1> QED
  BY <1>1, <1>5 DEF Bytes

\* Parts that follow each other.
LEMMA BytesJoin ==
    ASSUME Stream, NEW m \in Nat, NEW n \in Nat, NEW q \in Nat, m <= n, n <= q, q <= Total
    PROVE  Bytes(m, n) \o Bytes(n, q) = Bytes(m, q)
<1> DEFINE a == Bytes(m, n)
           b == Bytes(n, q)
           c == Bytes(m, q)
<1>0. Total \in Nat
  BY StreamPlaces
<1>1. a \in Seq(Nat) /\ Len(a) = n - m /\ \A k \in 1 .. n - m : a[k] = Byte(m + k)
  BY <1>0, BytesAre
<1>2. b \in Seq(Nat) /\ Len(b) = q - n /\ \A k \in 1 .. q - n : b[k] = Byte(n + k)
  BY <1>0, BytesAre
<1>3. c \in Seq(Nat) /\ Len(c) = q - m /\ \A k \in 1 .. q - m : c[k] = Byte(m + k)
  BY <1>0, BytesAre
<1> HIDE DEF a, b, c
<1>4. /\ a \o b \in Seq(Nat) /\ Len(a \o b) = q - m
      /\ \A k \in 1 .. q - m : (a \o b)[k] = IF k <= n - m THEN a[k] ELSE b[k - (n - m)]
  BY <1>1, <1>2, ConcatProperties
<1>5. ASSUME NEW k \in 1 .. q - m PROVE (a \o b)[k] = c[k]
  <2>1. CASE k <= n - m
    <3>1. k \in 1 .. n - m
      BY <2>1
    <3>2. (a \o b)[k] = a[k]
      BY <1>4, <2>1
    <3> QED
      BY <1>1, <1>3, <3>1, <3>2
  <2>2. CASE ~(k <= n - m)
    <3>1. k - (n - m) \in 1 .. q - n /\ n + (k - (n - m)) = m + k
      BY <2>2
    <3> QED
      BY <1>2, <1>3, <1>4, <2>2, <3>1
  <2> QED
    BY <2>1, <2>2
<1>6. a \o b = c
  BY <1>3, <1>4, <1>5, SeqEqual
<1> QED
  BY <1>6 DEF a, b, c

\* The beginning of a part.
LEMMA BytesFront ==
    ASSUME Stream, NEW m \in Nat, NEW n \in Nat, m <= n, n <= Total, NEW k \in 0 .. n - m
    PROVE  SubSeq(Bytes(m, n), 1, k) = Bytes(m, m + k)
<1> DEFINE a == Bytes(m, n)
           b == Bytes(m, m + k)
<1>0. Total \in Nat
  BY StreamPlaces
<1>1. a \in Seq(Nat) /\ Len(a) = n - m /\ \A j \in 1 .. n - m : a[j] = Byte(m + j)
  BY <1>0, BytesAre
<1>2. b \in Seq(Nat) /\ Len(b) = k /\ \A j \in 1 .. k : b[j] = Byte(m + j)
  <2>1. m + k \in Nat /\ m <= m + k /\ m + k <= Total /\ (m + k) - m = k
    BY <1>0
  <2> QED
    BY <2>1, BytesAre
<1> HIDE DEF a, b
<1>3. /\ SubSeq(a, 1, k) \in Seq(Nat) /\ Len(SubSeq(a, 1, k)) = k
      /\ \A j \in 1 .. k : SubSeq(a, 1, k)[j] = a[j]
  BY <1>1, FrontOf
<1>4. SubSeq(a, 1, k) = b
  BY <1>1, <1>2, <1>3, SeqEqual
<1> QED
  BY <1>4 DEF a, b

\* The same, by its length.
LEMMA BytesFrom ==
    ASSUME Stream, NEW m \in Nat, NEW n \in Nat, m + n <= Total
    PROVE  /\ Bytes(m, m + n) \in Seq(Nat) /\ Len(Bytes(m, m + n)) = n
           /\ \A k \in 1 .. n : m + k \in 1 .. Total /\ Bytes(m, m + n)[k] = Byte(m + k)
           /\ \A i \in 0 .. n : SubSeq(Bytes(m, m + n), 1, i) = Bytes(m, m + i)
<1>1. PICK q \in Nat : q = m + n
  OBVIOUS
<1>2. m <= q /\ q <= Total /\ q - m = n
  BY <1>1
<1>3. /\ Bytes(m, q) \in Seq(Nat) /\ Len(Bytes(m, q)) = q - m
      /\ \A k \in 1 .. q - m : m + k \in 1 .. Total /\ Bytes(m, q)[k] = Byte(m + k)
  BY <1>2, BytesAre
<1>4. \A i \in 0 .. q - m : SubSeq(Bytes(m, q), 1, i) = Bytes(m, m + i)
  BY <1>2, BytesFront
<1> QED
  BY <1>1, <1>2, <1>3, <1>4

-----------------------------------------------------------------------------
(***************************************************************************)
(* Types, and how much is in buf.  An error is paid for with the bytes     *)
(* that filled buf, and these are spent only once.                         *)
(***************************************************************************)

Cost == SIZE - RECV + 1

Room ==
    /\ server \in Servers /\ Stream
    /\ received \in 0 .. Total /\ received \in cuts /\ cuts \subseteq 0 .. received
    /\ buf \in Seq(Nat) /\ Len(buf) <= SIZE - Eaten
    /\ server = "joint" /\ ~closed => Len(buf) + RECV <= SIZE
    /\ handled \in Seq(Seq(Nat) \X Seq(Nat))
    /\ \A h \in ToSet(handled) : Text(h[1]) /\ Text(h[2])
    /\ cntwrcmd \in 0 .. MaxWrong + 1 /\ closed \in BOOLEAN
    /\ ~closed => cntwrcmd <= MaxWrong
    /\ cntwrcmd * Cost + Len(buf) <= received

\* The sizes of the server at hand.
LEMMA SizesFit ==
    ASSUME server \in Servers
    PROVE  /\ RECV \in Nat \ {0} /\ SIZE \in Nat /\ RECV <= SIZE /\ Cost \in Nat \ {0}
           /\ MaxWrong \in Nat /\ Eaten \in {0, 1}
           /\ server = "joint" => RECV = 2 /\ Eaten = 0
           /\ server = "v1.0" => Eaten = 0
           /\ server = "v1.001" => Eaten = 1
  BY ChunkAssumption DEF Servers, RECV, SIZE, Cost, Eaten

\* The string a chunk makes of buf, up to its i-th byte.
LEMMA ChunkAppends ==
    ASSUME Room, NEW n \in Nat, received + n <= Total, NEW i \in 0 .. n
    PROVE  /\ Bytes(received, received + n) \in Seq(Nat) /\ Len(Bytes(received, received + n)) = n
           /\ \A k \in 1 .. n : Bytes(received, received + n)[k] = Byte(received + k)
           /\ SubSeq(Bytes(received, received + n), 1, i) = Bytes(received, received + i)
           /\ buf \o Bytes(received, received + i) \in Seq(Nat)
           /\ Len(buf \o Bytes(received, received + i)) = Len(buf) + i
           /\ \A k \in 1 .. Len(buf) + i : (buf \o Bytes(received, received + i))[k] =
                  IF k <= Len(buf) THEN buf[k] ELSE Byte(received + (k - Len(buf)))
<1>1. Stream /\ buf \in Seq(Nat) /\ received \in Nat /\ Total \in Nat /\ Len(buf) \in Nat
  BY StreamPlaces DEF Room
<1>2. received + i <= Total /\ i \in Nat
  BY <1>1
<1>3. /\ Bytes(received, received + n) \in Seq(Nat) /\ Len(Bytes(received, received + n)) = n
      /\ \A k \in 1 .. n : Bytes(received, received + n)[k] = Byte(received + k)
  BY <1>1, BytesFrom
<1>4. SubSeq(Bytes(received, received + n), 1, i) = Bytes(received, received + i)
  BY <1>1, BytesFrom
<1> DEFINE b == Bytes(received, received + i)
<1>5. b \in Seq(Nat) /\ Len(b) = i /\ \A k \in 1 .. i : b[k] = Byte(received + k)
  BY <1>1, <1>2, BytesFrom
<1> HIDE DEF b
<1>6. /\ buf \o b \in Seq(Nat) /\ Len(buf \o b) = Len(buf) + i
      /\ \A k \in 1 .. Len(buf) + i : (buf \o b)[k] = IF k <= Len(buf) THEN buf[k] ELSE b[k - Len(buf)]
  BY <1>1, <1>5, ConcatProperties
<1>7. \A k \in 1 .. Len(buf) + i : ~(k <= Len(buf)) => k - Len(buf) \in 1 .. i
  BY <1>1
<1> QED
  BY <1>3, <1>4, <1>5, <1>6, <1>7 DEF b

\* What a recv() does.  Only its beginning matters of a chunk that ends a line.
LEMMA Received ==
    ASSUME Room, NEW n \in 1 .. RECV, Receive(n)
    PROVE  LET chunk == Bytes(received, received + n)
           IN  /\ received + n <= Total /\ received' = received + n /\ cuts' = cuts \cup {received + n}
               /\ \/ ~Fits(n) /\ closed' = TRUE /\ UNCHANGED <<buf, handled, cntwrcmd>>
                  \/ /\ Fits(n) /\ Ends(chunk) = {} /\ UNCHANGED <<handled, closed>>
                     /\ buf' \in Seq(Nat) /\ Len(buf') = Len(buf) + n - Eaten
                     /\ Eaten = 0 => buf' = buf \o chunk
                     /\ \A k \in 1 .. Len(buf') : buf'[k] = (buf \o chunk)[k]
                     /\ cntwrcmd' \in {0, cntwrcmd}
                  \/ /\ Fits(n) /\ UNCHANGED <<cntwrcmd, closed>> /\ buf' = <<>>
                     /\ \E i \in 1 .. n :
                           /\ i \in Ends(chunk)
                           /\ \A j \in Ends(chunk) : i <= j
                           /\ handled' = Append(handled, Words(buf \o Bytes(received, received + (i - 1))))
<1> DEFINE chunk == Bytes(received, received + n)
<1>1. /\ received + n <= Total /\ received' = received + n /\ cuts' = cuts \cup {received + n}
      /\ n \in Nat /\ Eaten \in {0, 1}
  BY SizesFit DEF Receive, Room
<1>2. /\ chunk \in Seq(Nat) /\ Len(chunk) = n
      /\ \A i \in 0 .. n : SubSeq(chunk, 1, i) = Bytes(received, received + i)
      /\ buf \o chunk \in Seq(Nat) /\ Len(buf \o chunk) = Len(buf) + n
  <2>1. n \in 0 .. n
    BY <1>1
  <2>2. \A i \in 0 .. n : SubSeq(chunk, 1, i) = Bytes(received, received + i)
    BY <1>1, ChunkAppends
  <2> QED
    BY <1>1, <2>1, <2>2, ChunkAppends
<1>3. \/ ~Fits(n) /\ closed' = TRUE /\ UNCHANGED <<buf, handled, cntwrcmd>>
      \/ Fits(n) /\ Ends(chunk) = {} /\ Part(chunk) /\ UNCHANGED closed
      \/ /\ Fits(n) /\ UNCHANGED closed
         /\ \E i \in Ends(chunk) : (\A j \in Ends(chunk) : i <= j) /\ EndOfLine(chunk, i)
  BY DEF Receive
<1> HIDE DEF chunk
<1>4. ASSUME Part(chunk)
      PROVE  /\ UNCHANGED handled /\ cntwrcmd' \in {0, cntwrcmd}
             /\ buf' \in Seq(Nat) /\ Len(buf') = Len(buf) + n - Eaten
             /\ Eaten = 0 => buf' = buf \o chunk
             /\ \A k \in 1 .. Len(buf') : buf'[k] = (buf \o chunk)[k]
  <2> DEFINE l == Len(buf) + n - Eaten
             s == buf \o chunk
  <2>1. buf' = SubSeq(s, 1, l) /\ cntwrcmd' \in {0, cntwrcmd} /\ UNCHANGED handled
    BY <1>2, <1>4 DEF Part
  <2>2. s \in Seq(Nat) /\ Len(s) = Len(buf) + n /\ Len(buf) \in Nat
    BY <1>2 DEF Room
  <2>3. l \in 0 .. Len(s)
    BY <1>1, <2>2
  <2>4. Eaten = 0 => l = Len(s)
    BY <2>2
  <2> HIDE DEF s, l
  <2>5. buf' \in Seq(Nat) /\ Len(buf') = l /\ \A k \in 1 .. l : buf'[k] = s[k]
    BY <2>1, <2>2, <2>3, FrontOf
  <2>6. Eaten = 0 => buf' = s
    BY <2>1, <2>2, <2>4, SubSeqFull
  <2> QED
    BY <2>1, <2>5, <2>6 DEF s, l
<1>5. ASSUME NEW i \in Ends(chunk), EndOfLine(chunk, i)
      PROVE  /\ i \in 1 .. n /\ buf' = <<>> /\ UNCHANGED cntwrcmd
             /\ handled' = Append(handled, Words(buf \o Bytes(received, received + (i - 1))))
  <2>1. i \in 1 .. n
    BY <1>1, <1>2 DEF Ends
  <2>2. i - 1 \in 0 .. n
    BY <1>1, <2>1
  <2>3. SubSeq(chunk, 1, i - 1) = Bytes(received, received + (i - 1))
    BY <1>2, <2>2
  <2> QED
    BY <1>5, <2>1, <2>3 DEF EndOfLine
<1>6. \/ ~Fits(n) /\ closed' = TRUE /\ UNCHANGED <<buf, handled, cntwrcmd>>
      \/ /\ Fits(n) /\ Ends(chunk) = {} /\ UNCHANGED <<handled, closed>>
         /\ buf' \in Seq(Nat) /\ Len(buf') = Len(buf) + n - Eaten
         /\ Eaten = 0 => buf' = buf \o chunk
         /\ \A k \in 1 .. Len(buf') : buf'[k] = (buf \o chunk)[k]
         /\ cntwrcmd' \in {0, cntwrcmd}
      \/ /\ Fits(n) /\ UNCHANGED <<cntwrcmd, closed>> /\ buf' = <<>>
         /\ \E i \in 1 .. n :
               /\ i \in Ends(chunk)
               /\ \A j \in Ends(chunk) : i <= j
               /\ handled' = Append(handled, Words(buf \o Bytes(received, received + (i - 1))))
  <2>1. CASE ~Fits(n) /\ closed' = TRUE /\ UNCHANGED <<buf, handled, cntwrcmd>>
    BY <2>1
  <2>2. CASE Fits(n) /\ Ends(chunk) = {} /\ Part(chunk) /\ UNCHANGED closed
    BY <1>4, <2>2
  <2>3. ASSUME Fits(n), UNCHANGED closed, NEW i \in Ends(chunk),
               \A j \in Ends(chunk) : i <= j, EndOfLine(chunk, i)
        PROVE  /\ Fits(n) /\ UNCHANGED <<cntwrcmd, closed>> /\ buf' = <<>>
               /\ \E h \in 1 .. n :
                     /\ h \in Ends(chunk)
                     /\ \A j \in Ends(chunk) : h <= j
                     /\ handled' = Append(handled, Words(buf \o Bytes(received, received + (h - 1))))
    BY <1>5, <2>3
  <2> QED
    BY <1>3, <2>1, <2>2, <2>3
<1> QED
  BY <1>1, <1>6 DEF chunk

\* The handler is given two words of text.
LEMMA HandledTypes ==
    ASSUME Room, NEW s \in Seq(Nat), handled' = Append(handled, Words(s))
    PROVE  /\ handled' \in Seq(Seq(Nat) \X Seq(Nat))
           /\ Len(handled') = Len(handled) + 1 /\ handled'[Len(handled) + 1] = Words(s)
           /\ \A k \in 1 .. Len(handled) : handled'[k] = handled[k]
           /\ \A h \in ToSet(handled') : h \in ToSet(handled) \/ h = Words(s)
           /\ ToSet(handled) \subseteq ToSet(handled') /\ Words(s) \in ToSet(handled')
           /\ \A h \in ToSet(handled') : Text(h[1]) /\ Text(h[2])
<1>1. Words(s) \in Seq(Nat) \X Seq(Nat) /\ Text(Words(s)[1]) /\ Text(Words(s)[2])
  BY WordsAre
<1> DEFINE w == Words(s)
           H == Seq(Nat) \X Seq(Nat)
<1>2. w \in H /\ handled \in Seq(H) /\ Text(w[1]) /\ Text(w[2]) /\ handled' = Append(handled, w)
  BY <1>1 DEF Room
<1> HIDE DEF w, H
<1>3. /\ handled' \in Seq(H) /\ Len(handled') = Len(handled) + 1 /\ handled'[Len(handled) + 1] = w
      /\ \A k \in 1 .. Len(handled) : handled'[k] = handled[k]
  BY <1>2, AppendProperties
<1>4. /\ Len(handled) \in Nat
      /\ \A h : h \in ToSet(handled) <=> \E k \in 1 .. Len(handled) : handled[k] = h
      /\ \A h : h \in ToSet(handled') <=> \E k \in 1 .. Len(handled) + 1 : handled'[k] = h
  BY <1>2, <1>3 DEF ToSet
<1>5. \A h \in ToSet(handled') : h \in ToSet(handled) \/ h = w
  <2> SUFFICES ASSUME NEW k \in 1 .. Len(handled) + 1 PROVE handled'[k] \in ToSet(handled) \/ handled'[k] = w
    BY <1>4
  <2>1. CASE k \in 1 .. Len(handled)
    BY <1>3, <1>4, <2>1
  <2>2. CASE k = Len(handled) + 1
    BY <1>3, <2>2
  <2> QED
    BY <1>4, <2>1, <2>2
<1>6. ToSet(handled) \subseteq ToSet(handled')
  BY <1>3, <1>4
<1>7. w \in ToSet(handled')
  BY <1>3, <1>4
<1>8. \A h \in ToSet(handled) : Text(h[1]) /\ Text(h[2])
  BY DEF Room
<1> QED
  BY <1>2, <1>3, <1>5, <1>6, <1>7, <1>8 DEF w, H

\* What stays so in every step.
LEMMA SameStream ==
    ASSUME UNCHANGED <<server, ends>>
    PROVE  /\ Stream' = Stream /\ Total' = Total /\ Lines' = Lines /\ SIZE' = SIZE /\ RECV' = RECV
           /\ Eaten' = Eaten /\ Cost' = Cost
           /\ \A i : Start(i)' = Start(i) /\ End(i)' = End(i) /\ Length(i)' = Length(i) /\ Line(i)' = Line(i)
  BY DEF Stream, Total, Lines, SIZE, RECV, Eaten, Cost, Start, End, Length, Line

\* A step of the session.
LEMMA Steps ==
    ASSUME [FramingNext]_framing_vars
    PROVE  \/ UNCHANGED framing_vars
           \/ /\ ~closed /\ UNCHANGED <<server, ends>>
              /\ \/ Full /\ TooLong
                 \/ ~Full /\ Ended
                 \/ ~Full /\ \E n \in 1 .. RECV : Receive(n)
  BY DEF FramingNext, Serve

LEMMA RoomInit == ASSUME FramingInit PROVE Room
<1>1. server \in Servers /\ ends \in BoundedSeq(1 .. MaxBytes, MaxLines)
  BY DEF FramingInit
<1>2. PICK n \in 0 .. MaxLines : ends \in [1 .. n -> 1 .. MaxBytes]
  BY <1>1 DEF BoundedSeq, SeqOf
<1>3. ends \in Seq(Nat)
  BY <1>2, ChunkAssumption
<1>4. Stream
  BY <1>3, ChunkAssumption DEF FramingInit, Stream
<1>5. Total \in Nat
  BY <1>4, StreamPlaces
<1>6. /\ buf = <<>> /\ handled = <<>> /\ cntwrcmd = 0 /\ closed = FALSE /\ received = 0 /\ cuts = {0}
  BY DEF FramingInit
<1>7. cntwrcmd * Cost + Len(buf) <= received
  BY <1>1, <1>6, SizesFit
<1>8. handled \in Seq(Seq(Nat) \X Seq(Nat)) /\ ToSet(handled) = {}
  BY <1>6 DEF ToSet
<1>9. Len(buf) <= SIZE - Eaten /\ Len(buf) + RECV <= SIZE /\ buf \in Seq(Nat)
  BY <1>1, <1>6, SizesFit
<1>10. cntwrcmd \in 0 .. MaxWrong + 1 /\ cntwrcmd <= MaxWrong
  BY <1>6, ChunkAssumption
<1>11. received \in 0 .. Total /\ received \in cuts /\ cuts \subseteq 0 .. received
  BY <1>5, <1>6
<1>12. \A h \in ToSet(handled) : Text(h[1]) /\ Text(h[2])
  BY <1>8
<1> QED
  BY <1>1, <1>4, <1>6, <1>7, <1>8, <1>9, <1>10, <1>11, <1>12 DEF Room

LEMMA RoomStep == ASSUME Room, [FramingNext]_framing_vars PROVE Room'
<1>1. /\ server \in Servers /\ Stream /\ Total \in Nat /\ received \in 0 .. Total /\ Len(buf) \in Nat
      /\ received \in cuts /\ cuts \subseteq 0 .. received /\ cntwrcmd \in Nat
      /\ cntwrcmd * Cost + Len(buf) <= received
  BY StreamPlaces DEF Room
<1>2. /\ RECV \in Nat \ {0} /\ SIZE \in Nat /\ RECV <= SIZE /\ Cost \in Nat \ {0}
      /\ MaxWrong \in Nat /\ Eaten \in {0, 1} /\ (server = "joint" => RECV = 2 /\ Eaten = 0)
  BY <1>1, SizesFit
<1>3. CASE UNCHANGED framing_vars
  BY <1>3 DEF framing_vars, Room, SIZE, RECV, Eaten, Cost, Total, Start, Stream, Lines, Length, End
<1> SUFFICES ASSUME ~closed, UNCHANGED <<server, ends>>,
                    \/ Full /\ TooLong
                    \/ ~Full /\ Ended
                    \/ ~Full /\ \E n \in 1 .. RECV : Receive(n)
             PROVE  Room'
  BY <1>3, Steps
<1>4. /\ Stream' = Stream /\ Total' = Total /\ SIZE' = SIZE /\ RECV' = RECV
      /\ Eaten' = Eaten /\ Cost' = Cost
  BY SameStream
<1>5. PICK x \in Nat : x = cntwrcmd * Cost /\ (cntwrcmd + 1) * Cost = x + Cost
  BY <1>1, <1>2
<1>6. CASE Full /\ TooLong
  <2>1. /\ cntwrcmd' = cntwrcmd + 1 /\ closed' = (cntwrcmd + 1 > MaxWrong) /\ buf' = <<>>
        /\ UNCHANGED <<received, handled, cuts>> /\ server # "joint" /\ Len(buf) >= Cost
    BY <1>1, <1>2, <1>6 DEF TooLong, Full, Cost
  <2>2. cntwrcmd' * Cost + Len(buf') <= received
    <3>1. cntwrcmd' * Cost = x + Cost
      BY <1>5, <2>1
    <3>2. Len(buf') = 0
      BY <2>1
    <3> QED
      BY <1>1, <1>2, <1>5, <2>1, <3>1, <3>2
  <2>3. cntwrcmd' \in 0 .. MaxWrong + 1 /\ closed' \in BOOLEAN /\ (~closed' => cntwrcmd' <= MaxWrong)
    <3>1. cntwrcmd <= MaxWrong
      BY DEF Room
    <3>2. CASE cntwrcmd + 1 > MaxWrong
      <4>1. closed' = TRUE
        BY <2>1, <3>2
      <4> QED
        BY <1>1, <1>2, <2>1, <3>1, <4>1
    <3>3. CASE ~(cntwrcmd + 1 > MaxWrong)
      BY <1>1, <1>2, <2>1, <3>1, <3>3
    <3> QED
      BY <3>2, <3>3
  <2>4. buf' \in Seq(Nat) /\ Len(buf') = 0
    BY <2>1
  <2> QED
    BY <1>2, <1>4, <2>1, <2>2, <2>3, <2>4 DEF Room
<1>7. CASE ~Full /\ Ended
  <2>1. closed' = (server = "joint") /\ UNCHANGED <<received, handled, cntwrcmd, cuts>>
        /\ buf' = SubSeq(buf, 1, Len(buf) - Eaten)
    BY <1>7 DEF Ended
  <2>2. buf' \in Seq(Nat) /\ Len(buf') <= Len(buf) /\ Len(buf') \in Nat
    <3>1. CASE Len(buf) - Eaten \in 0 .. Len(buf)
      <4> DEFINE l == Len(buf) - Eaten
      <4>1. l \in 0 .. Len(buf) /\ buf' = SubSeq(buf, 1, l) /\ buf \in Seq(Nat)
        BY <2>1, <3>1 DEF Room
      <4> HIDE DEF l
      <4> QED
        BY <4>1, FrontOf
    <3>2. CASE Len(buf) - Eaten < 0
      <4>1. buf' = <<>>
        BY <1>1, <1>2, <2>1, <3>2, SubSeqEmpty
      <4> QED
        BY <1>1, <4>1
    <3> QED
      BY <1>1, <1>2, <3>1, <3>2
  <2>3. cntwrcmd * Cost + Len(buf') <= received
    BY <1>1, <1>5, <2>2
  <2>4. closed' \in BOOLEAN
    BY <2>1
  <2>5. Len(buf') <= SIZE - Eaten
    BY <1>1, <1>2, <2>2 DEF Room
  <2>6. server' = "joint" /\ ~closed' => Len(buf') + RECV <= SIZE
    BY <2>1
  <2>7. cntwrcmd <= MaxWrong
    BY DEF Room
  <2> QED
    BY <1>1, <1>2, <1>4, <2>1, <2>2, <2>3, <2>4, <2>5, <2>6, <2>7 DEF Room
<1>8. ASSUME ~Full, NEW n \in 1 .. RECV, Receive(n) PROVE Room'
  <2> DEFINE chunk == Bytes(received, received + n)
  <2>1. /\ received + n <= Total /\ received' = received + n /\ cuts' = cuts \cup {received + n}
        /\ n \in Nat \ {0} /\ n <= RECV
    <3>1. n \in Nat \ {0} /\ n <= RECV
      BY <1>2
    <3>2. received + n <= Total /\ received' = received + n /\ cuts' = cuts \cup {received + n}
      BY <1>8 DEF Receive
    <3> QED
      BY <3>1, <3>2
  <2>2. /\ received' \in 0 .. Total /\ received' \in cuts' /\ cuts' \subseteq 0 .. received'
    BY <1>1, <2>1
  <2>3. CASE ~Fits(n) /\ closed' = TRUE /\ UNCHANGED <<buf, handled, cntwrcmd>>
    <3>1. cntwrcmd' * Cost + Len(buf') <= received'
      BY <1>1, <1>5, <2>1, <2>3
    <3> QED
      BY <1>4, <2>2, <2>3, <3>1 DEF Room
  <2>4. CASE /\ Fits(n) /\ Ends(chunk) = {} /\ UNCHANGED <<handled, closed>>
             /\ buf' \in Seq(Nat) /\ Len(buf') = Len(buf) + n - Eaten
             /\ cntwrcmd' \in {0, cntwrcmd}
    <3>1. cntwrcmd' * Cost \in 0 .. x
      <4>1. CASE cntwrcmd' = 0
        BY <1>2, <1>5, <4>1
      <4>2. CASE cntwrcmd' = cntwrcmd
        BY <1>5, <4>2
      <4> QED
        BY <2>4, <4>1, <4>2
    <3>2. cntwrcmd' * Cost + Len(buf') <= received'
      <4>1. PICK y \in 0 .. x : y = cntwrcmd' * Cost
        BY <3>1
      <4>2. x + Len(buf) <= received
        BY <1>1, <1>5
      <4>3. Len(buf') \in Nat /\ Len(buf') <= Len(buf) + n
        BY <1>1, <1>2, <2>1, <2>4
      <4>4. y + Len(buf') <= received + n
        BY <1>1, <2>1, <4>2, <4>3
      <4> QED
        BY <2>1, <4>1, <4>4
    <3>3. Len(buf') <= SIZE - Eaten /\ (server = "joint" => Len(buf') + RECV <= SIZE)
      BY <1>1, <1>2, <1>8, <2>1, <2>4 DEF Full, Fits, Room
    <3>4. cntwrcmd' \in 0 .. MaxWrong + 1 /\ (~closed' => cntwrcmd' <= MaxWrong)
      BY <1>2, <2>4 DEF Room
    <3> QED
      BY <1>4, <2>2, <2>4, <3>2, <3>3, <3>4 DEF Room
  <2>5. ASSUME UNCHANGED <<cntwrcmd, closed>>, buf' = <<>>, NEW i \in 1 .. n,
               handled' = Append(handled, Words(buf \o Bytes(received, received + (i - 1))))
        PROVE  Room'
    <3>1. i - 1 \in 0 .. n
      BY <2>1
    <3>2. buf \o Bytes(received, received + (i - 1)) \in Seq(Nat)
      BY <2>1, <3>1, ChunkAppends
    <3>3. /\ handled' \in Seq(Seq(Nat) \X Seq(Nat))
          /\ \A h \in ToSet(handled') : Text(h[1]) /\ Text(h[2])
      BY <2>5, <3>2, HandledTypes
    <3>4. buf' \in Seq(Nat) /\ Len(buf') = 0
      BY <2>5
    <3>5. cntwrcmd' * Cost + Len(buf') <= received'
      BY <1>1, <1>5, <2>1, <2>5, <3>4
    <3> QED
      BY <1>2, <1>4, <2>2, <2>5, <3>3, <3>4, <3>5 DEF Room
  <2> HIDE DEF chunk
  <2>6. \/ ~Fits(n) /\ closed' = TRUE /\ UNCHANGED <<buf, handled, cntwrcmd>>
        \/ /\ Fits(n) /\ Ends(chunk) = {} /\ UNCHANGED <<handled, closed>>
           /\ buf' \in Seq(Nat) /\ Len(buf') = Len(buf) + n - Eaten
           /\ cntwrcmd' \in {0, cntwrcmd}
        \/ /\ UNCHANGED <<cntwrcmd, closed>> /\ buf' = <<>>
           /\ \E i \in 1 .. n : handled' = Append(handled, Words(buf \o Bytes(received, received + (i - 1))))
    BY <1>8, Received DEF chunk
  <2> QED
    BY <2>3, <2>4, <2>5, <2>6
<1> QED
  BY <1>6, <1>7, <1>8

-----------------------------------------------------------------------------
(***************************************************************************)
(* Every line that is too long is counted, until v1.0 forgets: it does so  *)
(* when buf, which it has filled from the end of one chunk on, becomes     *)
(* full with the end of another.                                           *)
(***************************************************************************)

Counted ==
    /\ server = "v1.0" => received - Len(buf) \in cuts
    /\ wrong \in Nat /\ cntwrcmd <= wrong
    /\ wrong # cntwrcmd => server = "v1.0" /\ BufFilled

LEMMA CountedInit == ASSUME FramingInit, Room PROVE Counted
<1>1. Len(buf) = 0 /\ received = 0 /\ cuts = {0} /\ wrong = 0 /\ cntwrcmd = 0
  BY DEF FramingInit
<1> QED
  BY <1>1 DEF Counted

LEMMA CountedStep == ASSUME Room, Counted, [FramingNext]_framing_vars PROVE Counted'
<1>1. /\ server \in Servers /\ received \in Nat /\ Len(buf) \in Nat /\ buf \in Seq(Nat)
      /\ received \in cuts /\ cntwrcmd \in Nat /\ wrong \in Nat /\ cntwrcmd <= wrong
  BY StreamPlaces DEF Room, Counted
<1>2. /\ RECV \in Nat \ {0} /\ SIZE \in Nat /\ RECV <= SIZE
      /\ (server = "v1.0" => Eaten = 0) /\ (server = "v1.001" => Eaten = 1)
  BY <1>1, SizesFit
<1>3. CASE UNCHANGED framing_vars
  BY <1>3 DEF framing_vars, Counted, BufFilled, SIZE
<1> SUFFICES ASSUME ~closed, UNCHANGED <<server, ends>>,
                    \/ Full /\ TooLong
                    \/ ~Full /\ Ended
                    \/ ~Full /\ \E n \in 1 .. RECV : Receive(n)
             PROVE  Counted'
  BY <1>3, Steps
<1>4. SIZE' = SIZE /\ server' = server
  BY SameStream
<1>5. ASSUME cuts \subseteq cuts', BufFilled PROVE BufFilled'
  BY <1>4, <1>5 DEF BufFilled
<1>6. CASE Full /\ TooLong
  <2>1. /\ cntwrcmd' = cntwrcmd + 1 /\ wrong' = wrong + 1 /\ Len(buf') = 0
        /\ received' = received /\ cuts' = cuts
    BY <1>6 DEF TooLong
  <2>2. wrong' # cntwrcmd' => server = "v1.0" /\ BufFilled
    BY <1>1, <2>1 DEF Counted
  <2> QED
    BY <1>1, <1>4, <1>5, <2>1, <2>2 DEF Counted
<1>7. CASE ~Full /\ Ended
  <2>1. /\ UNCHANGED <<received, cntwrcmd, cuts, wrong>> /\ buf' = SubSeq(buf, 1, Len(buf) - Eaten)
    BY <1>7 DEF Ended
  <2>2. server = "v1.0" => buf' = buf
    BY <1>1, <1>2, <2>1, SubSeqFull
  <2> QED
    BY <1>1, <1>4, <1>5, <2>1, <2>2 DEF Counted
<1>8. ASSUME ~Full, NEW n \in 1 .. RECV, Receive(n) PROVE Counted'
  <2> DEFINE chunk == Bytes(received, received + n)
  <2>1. /\ received' = received + n /\ cuts' = cuts \cup {received + n} /\ wrong' = wrong
        /\ n \in Nat \ {0} /\ n <= RECV
    BY <1>2, <1>8 DEF Receive
  <2>2. /\ chunk \in Seq(Nat) /\ Len(chunk) = n
        /\ buf \o chunk \in Seq(Nat) /\ Len(buf \o chunk) = Len(buf) + n
    <3>1. n \in 0 .. n /\ n \in Nat /\ received + n <= Total
      BY <2>1, <1>8 DEF Receive
    <3> QED
      BY <3>1, ChunkAppends
  <2>3. \/ ~Fits(n) /\ UNCHANGED <<buf, cntwrcmd>>
        \/ Part(chunk)
        \/ buf' = <<>> /\ UNCHANGED cntwrcmd
    BY <1>8 DEF Receive, EndOfLine
  <2> HIDE DEF chunk
  <2>4. CASE UNCHANGED cntwrcmd /\ (server = "v1.0" => buf' = <<>>)
    <3>1. server = "v1.0" => received' - Len(buf') \in cuts'
      BY <1>1, <2>1, <2>4
    <3> QED
      BY <1>1, <1>4, <1>5, <2>1, <2>4, <3>1 DEF Counted
  <2>5. CASE Part(chunk)
    <3> DEFINE l == Len(buf) + n - Eaten
    <3>1. /\ buf' = SubSeq(buf \o chunk, 1, l)
          /\ cntwrcmd' = IF l = SIZE /\ server # "joint" THEN 0 ELSE cntwrcmd
      BY <2>2, <2>5 DEF Part
    <3>2. server = "v1.0" => l = Len(buf) + n /\ buf' = buf \o chunk
      BY <1>2, <2>2, <3>1, SubSeqFull
    <3>3. server = "v1.0" => received' - Len(buf') = received - Len(buf)
      <4>1. server = "v1.0" => Len(buf') = Len(buf) + n
        BY ONLY <2>2, <3>2
      <4>2. (received + n) - (Len(buf) + n) = received - Len(buf)
        BY ONLY <1>1, <2>1
      <4> QED
        BY ONLY <2>1, <4>1, <4>2
    <3>4. ASSUME cntwrcmd' # cntwrcmd PROVE server = "v1.0" /\ cntwrcmd' = 0 /\ l = SIZE
      <4>1. cntwrcmd' = 0 /\ l = SIZE /\ server # "joint"
        BY <3>1, <3>4
      <4>2. server # "v1.001"
        <5>1. Len(buf) + RECV <= SIZE
          BY <1>1, <1>2, <1>8, <4>1 DEF Full
        <5> QED
          BY <1>1, <1>2, <2>1, <4>1, <5>1
      <4> QED
        BY <1>1, <4>1, <4>2 DEF Servers
    <3> HIDE DEF l
    <3>5. CASE cntwrcmd' = cntwrcmd
      BY <1>1, <1>4, <1>5, <2>1, <3>3, <3>5 DEF Counted
    <3>6. CASE cntwrcmd' # cntwrcmd
      <4>1. server = "v1.0" /\ cntwrcmd' = 0 /\ SIZE = Len(buf) + n
        BY <3>2, <3>4, <3>6
      <4>2. PICK a \in cuts : a = received - Len(buf)
        BY <4>1 DEF Counted
      <4>3. a + SIZE = received + n
        BY <1>1, <2>1, <4>1, <4>2
      <4>4. BufFilled'
        BY <1>4, <2>1, <4>2, <4>3 DEF BufFilled
      <4> QED
        BY <1>1, <1>4, <2>1, <3>3, <4>1, <4>2, <4>4 DEF Counted
    <3> QED
      BY <3>5, <3>6
  <2>6. server = "v1.0" => Fits(n)
    BY DEF Fits
  <2> QED
    <3>1. CASE ~Fits(n) /\ UNCHANGED <<buf, cntwrcmd>>
      BY <2>4, <2>6, <3>1
    <3> QED
      BY <2>3, <2>4, <2>5, <3>1
<1> QED
  BY <1>6, <1>7, <1>8

-----------------------------------------------------------------------------
(***************************************************************************)
(* The joint server: whatever the chunks, buf is the part of the line that *)
(* has come, and at most the LF in front of it.                            *)
(***************************************************************************)

\* Line i is on its way, and those before it that fit were handled.
AtLine(i) ==
    \E b \in Nat :
        /\ b = Start(i) \/ (i > 1 /\ b = Start(i) - 1)
        /\ b <= received /\ buf = Bytes(b, received)
        /\ i \in Lines => received <= End(i) - 2
        /\ \A j \in 1 .. i - 1 : Reliable(j) => <<Line(j), <<>>>> \in ToSet(handled)

JointInv ==
    server = "joint" =>
        /\ ~closed => \E i \in 1 .. Len(ends) + 1 : AtLine(i)
        /\ closed /\ received # Total => \E i \in Lines : Length(i) + 3 > SIZE - 2
        /\ CleanLinesArrive

\* A line ends in the stream.
LEMMA EndInTotal ==
    ASSUME Stream, NEW i \in Lines
    PROVE  End(i) <= Total
<1>1. Len(ends) \in Nat /\ Lines = 1 .. Len(ends) /\ Len(ends) \in Lines /\ Total = End(Len(ends))
  <2>1. Len(ends) \in Nat /\ Lines = 1 .. Len(ends)
    BY StreamPlaces
  <2>2. Len(ends) # 0
    BY <2>1
  <2> QED
    BY <2>1, <2>2, StreamPlaces
<1>2. CASE i = Len(ends)
  BY <1>1, <1>2, StreamPlaces
<1>3. CASE i < Len(ends)
  <2>1. End(i) <= Start(Len(ends))
    BY <1>1, <1>3, LinesFollow
  <2>2. /\ End(i) \in Nat /\ Start(Len(ends)) \in Nat /\ End(Len(ends)) \in Nat
        /\ Length(Len(ends)) \in Nat /\ End(Len(ends)) = Start(Len(ends)) + Length(Len(ends)) + 2
    BY <1>1, StreamPlaces
  <2> QED
    BY <1>1, <2>1, <2>2
<1> QED
  BY <1>1, <1>2, <1>3

\* The bytes of a line are its text, in front of its CR LF.
LEMMA LineBytes ==
    ASSUME Stream, NEW i \in Lines
    PROVE  /\ Line(i) \in Seq(Nat) /\ Text(Line(i)) /\ Len(Line(i)) = Length(i)
           /\ Bytes(Start(i), End(i) - 2) = Line(i)
           /\ Words(Line(i)) = <<Line(i), <<>>>>
<1>1. /\ Start(i) \in Nat /\ End(i) \in Nat /\ Length(i) \in Nat /\ End(i) = Start(i) + Length(i) + 2
      /\ Total \in Nat /\ End(i) <= Total
  BY StreamPlaces, EndInTotal
<1>2. Line(i) \in [1 .. Length(i) -> Nat]
  BY <1>1 DEF Line
<1>3. Line(i) \in Seq(Nat) /\ Len(Line(i)) = Length(i) /\ \A k \in 1 .. Length(i) : Line(i)[k] = 32 + Start(i) + k
  BY <1>1, <1>2 DEF Line
<1>4. Text(Line(i))
  BY <1>1, <1>3 DEF Text, IsText
<1>5. Bytes(Start(i), End(i) - 2) = Line(i)
  <2>1. /\ Bytes(Start(i), Start(i) + Length(i)) \in Seq(Nat)
        /\ Len(Bytes(Start(i), Start(i) + Length(i))) = Length(i)
        /\ \A k \in 1 .. Length(i) : Bytes(Start(i), Start(i) + Length(i))[k] = Byte(Start(i) + k)
    <3>1. Start(i) + Length(i) <= Total
      BY <1>1
    <3> QED
      BY <1>1, <3>1, BytesFrom
  <2>2. ASSUME NEW k \in 1 .. Length(i) PROVE Byte(Start(i) + k) = 32 + Start(i) + k
    <3>1. PICK p \in Nat : p = Start(i) + k
      BY <1>1
    <3>2. Start(i) < p /\ p <= End(i) /\ p # End(i) - 1 /\ p # End(i)
      BY <1>1, <3>1
    <3>3. Byte(p) = 32 + p
      BY <3>2, ByteOf
    <3> QED
      BY <1>1, <3>1, <3>3
  <2>3. End(i) - 2 = Start(i) + Length(i)
    BY <1>1
  <2>4. Bytes(Start(i), Start(i) + Length(i)) = Line(i)
    BY <1>3, <2>1, <2>2, SeqEqual
  <2> QED
    BY <2>3, <2>4
<1> QED
  BY <1>3, <1>4, <1>5, WordsOfText

\* Behind the LF of the line before, the handler gets the line all the same.
LEMMA LineBehindLF ==
    ASSUME Stream, NEW i \in Lines, i > 1
    PROVE  Words(Bytes(Start(i) - 1, End(i) - 2)) = <<Line(i), <<>>>>
<1>1. /\ Start(i) \in Nat /\ End(i) \in Nat /\ Length(i) \in Nat /\ End(i) = Start(i) + Length(i) + 2
      /\ i - 1 \in Lines /\ Start(i) = End(i - 1) /\ End(i - 1) - 2 \in Nat /\ Start(i - 1) \in Nat
      /\ Start(i - 1) < Start(i) /\ Total \in Nat
  BY StreamPlaces
<1>2. PICK s \in Nat : s = Start(i) - 1
  BY <1>1
<1>3. End(i) <= Total
  BY StreamPlaces, EndInTotal
<1>4. Bytes(s, Start(i)) = <<LF>>
  <2>1. Bytes(s, s + 1) \in Seq(Nat) /\ Len(Bytes(s, s + 1)) = 1 /\ Bytes(s, s + 1)[1] = Byte(s + 1)
    <3>1. s + 1 <= Total /\ 1 \in 1 .. 1
      BY <1>1, <1>2, <1>3
    <3> QED
      BY <3>1, BytesFrom
  <2>2. Byte(Start(i)) = LF
    BY <1>1, ByteOf
  <2>3. s + 1 = Start(i)
    BY <1>1, <1>2
  <2> QED
    BY <2>1, <2>2, <2>3
<1>5. Bytes(s, Start(i)) \o Bytes(Start(i), End(i) - 2) = Bytes(s, End(i) - 2)
  <2>1. PICK e \in Nat : e = End(i) - 2
    BY <1>1
  <2>2. s <= Start(i) /\ Start(i) <= e /\ e <= Total
    BY <1>1, <1>2, <1>3, <2>1
  <2>3. Bytes(s, Start(i)) \o Bytes(Start(i), e) = Bytes(s, e)
    BY <1>1, <2>2, BytesJoin
  <2> QED
    BY <2>1, <2>3
<1>6. Bytes(s, End(i) - 2) = <<LF>> \o Line(i)
  BY <1>4, <1>5, LineBytes
<1>7. Words(<<LF>> \o Line(i)) = <<Line(i), <<>>>>
  BY LineBytes, WordsOfText
<1> QED
  BY <1>2, <1>6, <1>7

\* The lines that have come whole are those before the one on its way.
LEMMA JointClean ==
    ASSUME Stream, server = "joint", NEW i \in 1 .. Len(ends) + 1, NEW r \in Nat,
           i \in Lines => r < End(i),
           \A j \in 1 .. i - 1 : Reliable(j) => <<Line(j), <<>>>> \in ToSet(handled),
           NEW j \in Lines, r >= End(j), Reliable(j)
    PROVE  <<Line(j), <<>>>> \in ToSet(handled)
<1>1. /\ Lines = 1 .. Len(ends) /\ Len(ends) \in Nat /\ End(j) \in Nat
      /\ i \in Lines => Start(j) \in Nat /\ End(i) \in Nat /\ Start(j) < End(j)
  BY StreamPlaces
<1>2. ~(i <= j)
  <2> SUFFICES ASSUME i <= j PROVE FALSE
    OBVIOUS
  <2>1. i \in Lines
    BY <1>1
  <2>2. i # j => End(i) <= Start(j)
    BY <1>1, <2>1, LinesFollow
  <2> QED
    BY <1>1, <2>1, <2>2
<1>3. j \in 1 .. i - 1
  BY <1>1, <1>2
<1> QED
  BY <1>3

LEMMA NoBytes ==
    ASSUME Stream, NEW r \in Nat, r <= Total
    PROVE  Bytes(r, r) = <<>>
<1>1. r <= r /\ Total \in Nat
  BY StreamPlaces
<1>2. Bytes(r, r) \in Seq(Nat) /\ Len(Bytes(r, r)) = r - r
  BY <1>1, BytesAre
<1>3. r - r = 0
  OBVIOUS
<1> QED
  BY <1>2, <1>3

LEMMA AtClean == Stream /\ server = "joint" /\ (\E i \in 1 .. Len(ends) + 1 : AtLine(i)) /\ received \in Nat
                     => CleanLinesArrive
<1> SUFFICES ASSUME Stream, server = "joint", NEW i \in 1 .. Len(ends) + 1, AtLine(i), received \in Nat,
                    NEW j \in Lines, Reliable(j), received >= End(j)
             PROVE  <<Line(j), <<>>>> \in ToSet(handled)
  BY DEF CleanLinesArrive
<1>1. i \in Lines => received < End(i)
  BY StreamPlaces DEF AtLine
<1>2. \A k \in 1 .. i - 1 : Reliable(k) => <<Line(k), <<>>>> \in ToSet(handled)
  BY DEF AtLine
<1> QED
  BY <1>1, <1>2, JointClean

LEMMA AtCleanNext == (Stream /\ server = "joint" /\ (\E i \in 1 .. Len(ends) + 1 : AtLine(i)) /\ received \in Nat
                          => CleanLinesArrive)'
  BY AtClean, PTL

\* The state of a line after a step.
LEMMA AtLineNext ==
    ASSUME UNCHANGED <<server, ends>>, server = "joint", NEW i \in 1 .. Len(ends) + 1,
           NEW b \in Nat, b = Start(i) \/ (i > 1 /\ b = Start(i) - 1), b <= received',
           buf' = Bytes(b, received'), i \in Lines => received' <= End(i) - 2,
           \A j \in 1 .. i - 1 : Reliable(j) => <<Line(j), <<>>>> \in ToSet(handled')
    PROVE  AtLine(i)'
<1>1. /\ Start(i)' = Start(i) /\ End(i)' = End(i) /\ Lines' = Lines
      /\ Bytes(b, received)' = Bytes(b, received')
  BY DEF Start, End, Lines, Bytes, Byte
<1>2. \A j \in 1 .. i - 1 : Reliable(j)' = Reliable(j) /\ Line(j)' = Line(j)
  BY DEF Reliable, Line, Length, Start, End, SIZE
<1>3. \A j \in 1 .. i - 1 : (Reliable(j) => <<Line(j), <<>>>> \in ToSet(handled))'
  BY <1>2
<1> QED
  BY <1>1, <1>3 DEF AtLine

LEMMA JointStep ==
    ASSUME Room, Room', server = "joint", JointInv, [FramingNext]_framing_vars
    PROVE  JointInv'
<1>1. /\ Stream /\ Total \in Nat /\ received \in Nat /\ received <= Total
      /\ Len(ends) \in Nat /\ Lines = 1 .. Len(ends)
      /\ SIZE \in Nat /\ RECV = 2 /\ Eaten = 0
  BY StreamPlaces, SizesFit DEF Room
<1>2. CASE UNCHANGED framing_vars
  <2>1. CleanLinesArrive' = CleanLinesArrive
    BY <1>2 DEF framing_vars, CleanLinesArrive, Reliable, StartsFresh, WholeEnd, Line, Lines, Length, Start, End, SIZE, RECV
  <2>2. \A i \in 1 .. Len(ends) + 1 : AtLine(i)' = AtLine(i)
    BY <1>2 DEF framing_vars, AtLine, Reliable, StartsFresh, WholeEnd, Bytes, Byte, Line, Lines, Length, Start, End, SIZE, RECV
  <2>3. Total' = Total /\ SIZE' = SIZE /\ Lines' = Lines /\ \A i : Length(i)' = Length(i)
    BY <1>2, SameStream DEF framing_vars
  <2> QED
    BY <1>2, <2>1, <2>2, <2>3 DEF framing_vars, JointInv
<1> SUFFICES ASSUME ~closed, UNCHANGED <<server, ends>>,
                    \/ Full /\ TooLong
                    \/ ~Full /\ Ended
                    \/ ~Full /\ \E n \in 1 .. RECV : Receive(n)
             PROVE  JointInv'
  BY <1>2, Steps
<1>3. CleanLinesArrive
  BY DEF JointInv
<1>4. /\ Total' = Total /\ SIZE' = SIZE /\ Lines' = Lines /\ Stream' = Stream
      /\ \A i : Length(i)' = Length(i) /\ End(i)' = End(i) /\ Line(i)' = Line(i)
  BY SameStream
<1>5. \A i \in Lines : Reliable(i)' = Reliable(i)
  BY <1>4 DEF Reliable
<1>6. CASE ~Full /\ Ended
  <2>1. received = Total /\ UNCHANGED <<received, handled>> /\ closed' = (server = "joint")
    BY <1>6 DEF Ended
  <2>2. CleanLinesArrive' = CleanLinesArrive
    BY <1>4, <1>5, <2>1 DEF CleanLinesArrive
  <2>3. closed' = TRUE
    BY <2>1
  <2> QED
    BY <1>3, <1>4, <2>1, <2>2, <2>3 DEF JointInv
<1>7. ~(Full /\ TooLong)
  BY DEF Full
<1>8. ASSUME NEW n \in 1 .. 2, Receive(n) PROVE JointInv'
  <2> DEFINE chunk == Bytes(received, received + n)
  <2>1. /\ received + n <= Total /\ received' = received + n
        /\ \/ ~Fits(n) /\ closed' = TRUE /\ UNCHANGED <<buf, handled>>
           \/ /\ Ends(chunk) = {} /\ UNCHANGED <<handled, closed>> /\ buf' = buf \o chunk
           \/ /\ UNCHANGED closed /\ buf' = <<>>
              /\ \E k \in 1 .. n :
                    /\ k \in Ends(chunk)
                    /\ handled' = Append(handled, Words(buf \o Bytes(received, received + (k - 1))))
    BY <1>1, <1>8, Received
  <2>2. /\ n \in 0 .. n /\ chunk \in Seq(Nat) /\ Len(chunk) = n
        /\ \A k \in 1 .. n : chunk[k] = Byte(received + k)
    <3>1. n \in Nat /\ n \in 0 .. n
      OBVIOUS
    <3> QED
      BY <2>1, <3>1, ChunkAppends DEF chunk
  <2>3. \A k : k \in Ends(chunk) <=> k \in 1 .. n /\ Byte(received + k) = CR
    BY <2>2 DEF Ends
  <2> HIDE DEF chunk
  <2>4. PICK i \in 1 .. Len(ends) + 1 : AtLine(i)
    BY DEF JointInv
  <2>5. PICK b \in Nat : /\ b = Start(i) \/ (i > 1 /\ b = Start(i) - 1)
                         /\ b <= received /\ buf = Bytes(b, received)
                         /\ i \in Lines => received <= End(i) - 2
    BY <2>4 DEF AtLine
  <2>6. \A j \in 1 .. i - 1 : Reliable(j) => <<Line(j), <<>>>> \in ToSet(handled)
    BY <2>4 DEF AtLine
  <2>7. PICK r \in Nat : r = received + n /\ r = received' /\ r <= Total /\ received < r
    BY <1>1, <2>1
  <2>8. Len(buf) = received - b
    BY <1>1, <2>5, BytesAre
  <2>9. buf \o chunk = Bytes(b, r)
    <3>1. chunk = Bytes(received, r)
      BY <2>7 DEF chunk
    <3>2. Bytes(b, received) \o Bytes(received, r) = Bytes(b, r)
      <4>1. b <= received /\ received <= r /\ r <= Total
        BY <1>1, <2>5, <2>7
      <4> QED
        BY <1>1, <4>1, BytesJoin
    <3> QED
      BY <2>5, <3>1, <3>2
  <2>10. ASSUME NEW m \in 1 .. Len(ends) + 1, AtLine(m)', UNCHANGED closed PROVE JointInv'
    <3>1. received' \in Nat /\ Stream' /\ server' = "joint" /\ ends' = ends
      BY <1>1, <1>4, <2>7
    <3>2. \E m_1 \in 1 .. Len(ends') + 1 : AtLine(m_1)'
      BY <2>10, <3>1
    <3>3. CleanLinesArrive'
      BY <3>1, <3>2, AtCleanNext
    <3> QED
      BY <2>10, <3>2, <3>3 DEF JointInv
  <2>11. CASE i \notin Lines
    <3>1. i = Len(ends) + 1 /\ Start(i) = Total /\ r = Total /\ b = Total - 1 /\ received = b /\ n = 1 /\ i > 1
      <4>1. i = Len(ends) + 1
        BY <1>1, <2>11
      <4>2. Start(i) = Total
        BY <4>1 DEF Total
      <4> QED
        BY <1>1, <2>5, <2>7, <4>1, <4>2
    <3>2. Len(ends) \in Lines /\ Total = End(Len(ends)) /\ Start(Len(ends)) < Total
      BY <1>1, <3>1, StreamPlaces
    <3>3. Byte(Total) = LF
      BY <1>1, <3>2, ByteOf
    <3>4. Ends(chunk) = {}
      BY <1>1, <2>3, <3>1, <3>3 DEF CR, LF
    <3>5. CASE ~Fits(n) /\ closed' = TRUE /\ UNCHANGED <<buf, handled>>
      <4>1. \A j \in Lines : Reliable(j) => <<Line(j), <<>>>> \in ToSet(handled)
        BY <1>1, <2>6, <3>1
      <4>2. CleanLinesArrive'
        BY <1>4, <1>5, <3>5, <4>1 DEF CleanLinesArrive
      <4> QED
        BY <1>4, <2>7, <3>1, <3>5, <4>2 DEF JointInv
    <3>6. CASE UNCHANGED <<handled, closed>> /\ buf' = buf \o chunk
      <4>1. AtLine(i)'
        BY <1>1, <2>5, <2>6, <2>7, <2>9, <2>11, <3>6, AtLineNext
      <4> QED
        BY <2>10, <3>6, <4>1
    <3> QED
      BY <2>1, <3>4, <3>5, <3>6
  <2>12. CASE i \in Lines
    <3>1. /\ Start(i) \in Nat /\ End(i) \in Nat /\ Length(i) \in Nat /\ End(i) = Start(i) + Length(i) + 2
          /\ End(i) <= Total /\ received <= End(i) - 2 /\ received \in Nat
      BY <1>1, <2>5, <2>12, StreamPlaces, EndInTotal
    <3>2. CASE ~Fits(n) /\ closed' = TRUE /\ UNCHANGED <<buf, handled>>
      <4>1. Length(i) + 3 > SIZE - 2
        BY <1>1, <2>5, <2>8, <3>1, <3>2 DEF Fits
      <4>2. ASSUME NEW j \in Lines, Reliable(j) PROVE j \in 1 .. i - 1
        <5>1. \A k \in 1 .. j : Length(k) + 3 <= SIZE - 2
          BY <4>2 DEF Reliable
        <5>2. i \notin 1 .. j
          BY <1>1, <3>1, <4>1, <5>1
        <5> QED
          BY <1>1, <5>2
      <4>3. CleanLinesArrive'
        BY <1>4, <1>5, <2>6, <3>2, <4>2 DEF CleanLinesArrive
      <4> QED
        BY <1>4, <2>12, <3>2, <4>1, <4>3 DEF JointInv
    <3>3. CASE Ends(chunk) = {} /\ UNCHANGED <<handled, closed>> /\ buf' = buf \o chunk
      <4>1. Byte(End(i) - 1) = CR
        BY <3>1, <2>12, <1>1, ByteOf
      <4>2. ~(r >= End(i) - 1)
        <5> SUFFICES ASSUME r >= End(i) - 1 PROVE FALSE
          OBVIOUS
        <5>1. PICK k \in 1 .. n : received + k = End(i) - 1
          <6>1. End(i) - 1 - received \in 1 .. n /\ received + (End(i) - 1 - received) = End(i) - 1
            BY <2>7, <3>1
          <6> QED
            BY <6>1
        <5>2. k \in Ends(chunk)
          BY <2>3, <4>1, <5>1
        <5> QED
          BY <3>3, <5>2
      <4>3. r <= End(i) - 2
        BY <3>1, <4>2
      <4>4. AtLine(i)'
        BY <1>1, <2>5, <2>6, <2>7, <2>9, <3>3, <4>3, AtLineNext
      <4> QED
        BY <2>10, <3>3, <4>4
    <3>4. ASSUME UNCHANGED closed, buf' = <<>>, NEW k \in 1 .. n, k \in Ends(chunk),
                 handled' = Append(handled, Words(buf \o Bytes(received, received + (k - 1))))
          PROVE  JointInv'
      <4>1. PICK p \in Nat : p = received + k
        BY <3>1
      <4>2. Byte(p) = CR
        BY <2>3, <3>4, <4>1
      <4>3. p > Start(i)
        <5> SUFFICES ASSUME p <= Start(i) PROVE FALSE
          BY <3>1
        <5>1. i > 1 /\ p = Start(i)
          BY <2>5, <3>1, <4>1
        <5>2. i - 1 \in Lines /\ p = End(i - 1) /\ Start(i - 1) < p /\ End(i - 1) \in Nat
          <6>1. i - 1 \in Lines /\ Start(i) = End(i - 1)
            BY <1>1, <2>12, <5>1, StreamPlaces
          <6>2. PICK h \in Lines : h = i - 1
            BY <6>1
          <6>3. Start(h) \in Nat /\ End(h) \in Nat /\ Length(h) \in Nat /\ End(h) = Start(h) + Length(h) + 2
            BY <1>1, StreamPlaces
          <6> QED
            BY <5>1, <6>1, <6>2, <6>3
        <5>3. Byte(p) = IF p = End(i - 1) - 1 THEN CR ELSE IF p = End(i - 1) THEN LF ELSE 32 + p
          BY <1>1, <5>2, ByteOf
        <5>4. Byte(p) = LF
          BY <5>2, <5>3
        <5> QED
          BY <4>2, <5>4 DEF CR, LF
      <4>4. p <= End(i) /\ p \in 1 .. Total
        <5>1. k \in 1 .. 2 /\ k <= n
          OBVIOUS
        <5> QED
          BY <1>1, <2>7, <3>1, <4>1, <5>1
      <4>5. p = End(i) - 1
        BY <1>1, <2>12, <4>2, <4>3, <4>4, ByteKinds
      <4>6. received + (k - 1) = End(i) - 2 /\ End(i) - 2 \in Nat
        BY <3>1, <4>1, <4>5
      <4>7. buf \o Bytes(received, End(i) - 2) = Bytes(b, End(i) - 2)
        <5>1. PICK e \in Nat : e = End(i) - 2
          BY <4>6
        <5>2. received <= e /\ e <= Total
          BY <1>1, <3>1, <5>1
        <5>3. buf \o Bytes(received, e) = Bytes(b, e)
          BY <1>1, <2>5, <3>1, <5>2, BytesJoin
        <5> QED
          BY <5>1, <5>3
      <4>8. Words(Bytes(b, End(i) - 2)) = <<Line(i), <<>>>>
        BY <1>1, <2>5, <2>12, LineBytes, LineBehindLF
      <4> DEFINE s == buf \o Bytes(received, received + (k - 1))
      <4>9. s \in Seq(Nat)
        <5>1. k - 1 \in 0 .. n
          OBVIOUS
        <5> QED
          BY <2>1, <5>1, ChunkAppends
      <4>10. handled' = Append(handled, Words(s)) /\ Words(s) = <<Line(i), <<>>>>
        BY <3>4, <4>6, <4>7, <4>8
      <4> HIDE DEF s
      <4>11. ToSet(handled) \subseteq ToSet(handled') /\ <<Line(i), <<>>>> \in ToSet(handled')
        BY <4>9, <4>10, HandledTypes
      <4>12. i + 1 \in 1 .. Len(ends) + 1 /\ i + 1 > 1 /\ Start(i + 1) = End(i)
        BY <1>1, <2>12 DEF Start, End
      <4>13. r = Start(i + 1) \/ r = Start(i + 1) - 1
        BY <2>7, <3>1, <4>1, <4>5, <4>12
      <4>14. i + 1 \in Lines => r <= End(i + 1) - 2
        <5> SUFFICES ASSUME i + 1 \in Lines PROVE r <= End(i + 1) - 2
          OBVIOUS
        <5>1. PICK m \in Lines : m = i + 1
          OBVIOUS
        <5>2. Start(m) \in Nat /\ End(m) \in Nat /\ Length(m) \in Nat /\ End(m) = Start(m) + Length(m) + 2
          BY <1>1, StreamPlaces
        <5> QED
          BY <2>7, <4>13, <5>1, <5>2
      <4>15. buf' = Bytes(r, r)
        BY <1>1, <2>7, <3>4, NoBytes
      <4>16. \A j \in 1 .. (i + 1) - 1 : Reliable(j) => <<Line(j), <<>>>> \in ToSet(handled')
        BY <1>1, <2>6, <2>12, <4>11
      <4>17. PICK m \in 1 .. Len(ends) + 1 : m = i + 1
        BY <4>12
      <4>18. AtLine(m)'
        BY <2>7, <4>12, <4>13, <4>14, <4>15, <4>16, <4>17, AtLineNext
      <4> QED
        BY <2>10, <3>4, <4>18
    <3> QED
      BY <2>1, <3>2, <3>3, <3>4
  <2> QED
    BY <2>11, <2>12
<1> QED
  BY <1>1, <1>6, <1>7, <1>8

LEMMA JointInit == ASSUME FramingInit PROVE JointInv
<1>1. Room /\ received = 0 /\ buf = <<>> /\ closed = FALSE
  BY RoomInit DEF FramingInit
<1>2. Stream /\ Len(ends) \in Nat /\ Lines = 1 .. Len(ends) /\ Total \in Nat
  BY <1>1, StreamPlaces DEF Room
<1>3. Bytes(0, 0) \in Seq(Nat) /\ Len(Bytes(0, 0)) = 0 - 0
  BY <1>2, BytesAre
<1>4. Start(1) = 0 /\ (1 \in Lines => End(1) >= 2)
  BY <1>2, StreamPlaces DEF Start
<1>5. AtLine(1)
  BY <1>1, <1>2, <1>3, <1>4, StreamPlaces DEF AtLine
<1>6. \E i \in 1 .. Len(ends) + 1 : AtLine(i)
  BY <1>2, <1>5
<1> QED
  BY <1>1, <1>2, <1>6, AtClean DEF JointInv

-----------------------------------------------------------------------------
(***************************************************************************)
(* The other two: with a line that starts afresh, buf is empty, and in     *)
(* v1.0 it is then the part of the line that has come.                     *)
(***************************************************************************)

FreshInv ==
    server # "joint" =>
        /\ \A i \in Lines : StartsFresh(i) /\ received = Start(i) => buf = <<>>
        /\ server = "v1.0" =>
              \A i \in Lines :
                  /\ StartsFresh(i) /\ Length(i) <= SIZE - RECV
                  /\ Start(i) <= received /\ received <= End(i) - 2
                  => buf = Bytes(Start(i), received)
        /\ CleanLinesArrive

\* The pairs of a chunk: all of them where a line ends.
LEMMA PairsOf ==
    ASSUME Room, server # "joint", NEW n \in Nat, received + n <= Total, NEW i \in Lines
    PROVE  /\ received < End(i) - 1 /\ End(i) <= received + n
                  => End(i) - 1 - received \in Ends(Bytes(received, received + n))
           /\ \A k \in Ends(Bytes(received, received + n)) :
                  k \in 1 .. n /\ ~(Start(i) < received + k /\ received + k < End(i) - 1)
<1> DEFINE chunk == Bytes(received, received + n)
<1>1. Stream /\ received \in Nat /\ Total \in Nat
  BY StreamPlaces DEF Room
<1>2. chunk \in Seq(Nat) /\ Len(chunk) = n /\ \A k \in 1 .. n : received + k \in 1 .. Total /\ chunk[k] = Byte(received + k)
  BY <1>1, BytesFrom
<1> HIDE DEF chunk
<1>3. Ends(chunk) = {k \in 1 .. n - 1 : <<chunk[k], chunk[k + 1]>> \in {<<CR, LF>>, <<LF, CR>>}}
  BY <1>2 DEF Ends, Pair
<1>4. /\ Start(i) \in Nat /\ End(i) \in Nat /\ Length(i) \in Nat /\ End(i) = Start(i) + Length(i) + 2
  BY <1>1, StreamPlaces
<1>5. ASSUME received < End(i) - 1, End(i) <= received + n
      PROVE  End(i) - 1 - received \in Ends(chunk)
  <2>1. PICK k \in 1 .. n - 1 : received + k = End(i) - 1 /\ received + (k + 1) = End(i) /\ k = End(i) - 1 - received
    <3>1. End(i) - 1 - received \in 1 .. n - 1
      BY <1>1, <1>4, <1>5
    <3> QED
      BY <1>1, <1>4, <3>1
  <2>2. Byte(End(i) - 1) = CR /\ Byte(End(i)) = LF
    BY <1>1, <1>4, ByteOf
  <2>3. chunk[k] = CR /\ chunk[k + 1] = LF
    <3>1. k \in 1 .. n /\ k + 1 \in 1 .. n
      OBVIOUS
    <3>2. chunk[k] = Byte(received + k) /\ chunk[k + 1] = Byte(received + (k + 1))
      BY <1>2, <3>1
    <3> QED
      BY <2>1, <2>2, <3>2
  <2> QED
    BY <1>3, <2>1, <2>3
<1>6. ASSUME NEW k \in Ends(chunk)
      PROVE  k \in 1 .. n /\ ~(Start(i) < received + k /\ received + k < End(i) - 1)
  <2>1. k \in 1 .. n /\ <<chunk[k], chunk[k + 1]>> \in {<<CR, LF>>, <<LF, CR>>}
    BY <1>3, <1>6
  <2>2. chunk[k] \in {CR, LF}
    BY <2>1
  <2> SUFFICES ASSUME Start(i) < received + k, received + k < End(i) - 1 PROVE FALSE
    BY <2>1
  <2>3. PICK p \in Nat : p = received + k
    BY <1>1, <2>1
  <2>4. Byte(p) = 32 + p
    BY <1>1, <1>4, <2>3, ByteOf
  <2>5. chunk[k] = Byte(p)
    BY <1>2, <2>1, <2>3
  <2> QED
    BY <2>2, <2>3, <2>4, <2>5 DEF CR, LF
<1> QED
  BY <1>5, <1>6 DEF chunk

\* A cut in what has been received is an old one.
LEMMA OldCuts ==
    ASSUME Room, NEW n \in Nat \ {0}, cuts' = cuts \cup {received + n}, NEW c \in Nat
    PROVE  c \in cuts' => c \in cuts \/ (c = received + n /\ c > received)
  BY DEF Room

\* What a line relies on, it has relied on before.
LEMMA FreshBefore ==
    ASSUME Room, server # "joint", UNCHANGED <<server, ends>>, NEW n \in Nat \ {0}, cuts' = cuts \cup {received + n},
           NEW i \in Lines, StartsFresh(i)'
    PROVE  /\ Start(i) <= received => StartsFresh(i)
           /\ received < Start(i) => Start(i) = received + n
<1>1. Stream /\ received \in Nat /\ Start(i) \in Nat
  BY StreamPlaces DEF Room
<1>2. Start(i) \in cuts' /\ (i > 1 => End(i - 1) - 1 \notin cuts')
  BY DEF StartsFresh, WholeEnd, Start, End
<1>3. Start(i) \in cuts \/ (Start(i) = received + n /\ Start(i) > received)
  BY <1>1, <1>2, OldCuts
<1>4. Start(i) \in cuts => StartsFresh(i)
  BY <1>2 DEF StartsFresh, WholeEnd
<1> QED
  BY <1>1, <1>3, <1>4 DEF Room

\* The line on its way is in buf and the chunk brings its end: the handler gets it.
LEMMA EndsWell ==
    ASSUME Room, server # "joint", NEW n \in 1 .. RECV, Receive(n), NEW i \in Lines,
           Start(i) <= received, received <= End(i) - 2, End(i) <= received + n,
           buf = Bytes(Start(i), received)
    PROVE  <<Line(i), <<>>>> \in ToSet(handled')
<1> DEFINE chunk == Bytes(received, received + n)
<1>1. /\ Stream /\ received \in Nat /\ Total \in Nat /\ RECV \in Nat /\ n \in Nat /\ received + n <= Total
  BY StreamPlaces, SizesFit DEF Room, Receive
<1>2. /\ Start(i) \in Nat /\ End(i) \in Nat /\ Length(i) \in Nat /\ End(i) = Start(i) + Length(i) + 2
      /\ End(i) <= Total /\ End(i) - 2 \in Nat
  BY <1>1, StreamPlaces, EndInTotal
<1>3. End(i) - 1 - received \in Ends(chunk)
  BY <1>1, <1>2, PairsOf
<1>4. \A k \in Ends(chunk) : k \in 1 .. n /\ ~(Start(i) < received + k /\ received + k < End(i) - 1)
  BY <1>1, PairsOf
<1>5. Fits(n)
  BY DEF Fits
<1>6. PICK k \in 1 .. n : /\ k \in Ends(chunk) /\ \A j \in Ends(chunk) : k <= j
                          /\ handled' = Append(handled, Words(buf \o Bytes(received, received + (k - 1))))
  BY <1>3, <1>5, Received
<1> HIDE DEF chunk
<1>7. received + (k - 1) = End(i) - 2
  <2>1. k <= End(i) - 1 - received
    BY <1>3, <1>6
  <2>2. k \in Nat \ {0} /\ ~(Start(i) < received + k /\ received + k < End(i) - 1)
    BY <1>4, <1>6
  <2> QED
    BY <1>1, <1>2, <2>1, <2>2
<1>8. buf \o Bytes(received, End(i) - 2) = Line(i)
  <2>1. PICK e \in Nat : e = End(i) - 2
    BY <1>2
  <2>2. Start(i) <= received /\ received <= e /\ e <= Total
    BY <1>1, <1>2, <2>1
  <2>3. Bytes(Start(i), received) \o Bytes(received, e) = Bytes(Start(i), e)
    BY <1>1, <1>2, <2>2, BytesJoin
  <2> QED
    BY <1>1, <2>1, <2>3, LineBytes
<1>9. Line(i) \in Seq(Nat) /\ Words(Line(i)) = <<Line(i), <<>>>>
  BY <1>1, LineBytes
<1>10. handled' = Append(handled, Words(Line(i)))
  BY <1>6, <1>7, <1>8
<1> QED
  BY <1>9, <1>10, HandledTypes

LEMMA FreshStep ==
    ASSUME Room, server # "joint", FreshInv, [FramingNext]_framing_vars
    PROVE  FreshInv'
<1>1. /\ Stream /\ Total \in Nat /\ received \in Nat /\ received <= Total /\ SIZE \in Nat /\ RECV \in Nat \ {0}
      /\ server \in Servers /\ Eaten \in {0, 1} /\ (server = "v1.0" => Eaten = 0)
      /\ received \in cuts /\ cuts \subseteq 0 .. received
  BY StreamPlaces, SizesFit DEF Room
<1>2. \A i \in Lines : /\ Start(i) \in Nat /\ End(i) \in Nat /\ Length(i) \in Nat
                       /\ End(i) = Start(i) + Length(i) + 2 /\ End(i) <= Total
  BY <1>1, StreamPlaces, EndInTotal
<1>3. CASE UNCHANGED framing_vars
  <2>1. CleanLinesArrive' = CleanLinesArrive
    BY <1>3 DEF framing_vars, CleanLinesArrive, Reliable, StartsFresh, WholeEnd, Line, Lines, Length, Start, End, SIZE, RECV
  <2>2. \A i : /\ StartsFresh(i)' = StartsFresh(i) /\ Start(i)' = Start(i) /\ End(i)' = End(i)
               /\ Length(i)' = Length(i) /\ Bytes(Start(i), received)' = Bytes(Start(i), received)
    BY <1>3 DEF framing_vars, StartsFresh, WholeEnd, Length, Start, End, Bytes, Byte
  <2>3. SIZE' = SIZE /\ RECV' = RECV /\ Lines' = Lines
    BY <1>3, SameStream DEF framing_vars
  <2> QED
    BY <1>3, <2>1, <2>2, <2>3 DEF framing_vars, FreshInv
<1> SUFFICES ASSUME ~closed, UNCHANGED <<server, ends>>,
                    \/ Full /\ TooLong
                    \/ ~Full /\ Ended
                    \/ ~Full /\ \E n \in 1 .. RECV : Receive(n)
             PROVE  FreshInv'
  BY <1>3, Steps
<1>4. /\ SIZE' = SIZE /\ RECV' = RECV /\ Lines' = Lines
      /\ \A i : Length(i)' = Length(i) /\ End(i)' = End(i) /\ Start(i)' = Start(i) /\ Line(i)' = Line(i)
  BY SameStream
<1>5. /\ \A i \in Lines : StartsFresh(i) /\ received = Start(i) => buf = <<>>
      /\ server = "v1.0" =>
            \A i \in Lines : /\ StartsFresh(i) /\ Length(i) <= SIZE - RECV
                             /\ Start(i) <= received /\ received <= End(i) - 2
                             => buf = Bytes(Start(i), received)
      /\ CleanLinesArrive
  BY DEF FreshInv
<1>6. ASSUME UNCHANGED <<received, handled, cuts>>,
             buf = <<>> => buf' = <<>>,
             \A i \in Lines : received <= End(i) - 2 /\ Length(i) <= SIZE - RECV /\ server = "v1.0" => 
                                  buf' = buf \/ buf # Bytes(Start(i), received)
      PROVE  FreshInv'
  <2>1. CleanLinesArrive' = CleanLinesArrive
    BY <1>6 DEF CleanLinesArrive, Reliable, StartsFresh, WholeEnd, Line, Lines, Length, Start, End, SIZE, RECV
  <2>2. \A i : StartsFresh(i)' = StartsFresh(i) /\ Bytes(Start(i), received)' = Bytes(Start(i), received)
    BY <1>6 DEF StartsFresh, WholeEnd, Length, Start, End, Bytes, Byte
  <2> QED
    BY <1>4, <1>5, <1>6, <2>1, <2>2 DEF FreshInv
<1>7. CASE Full /\ TooLong
  <2>1. UNCHANGED <<received, handled, cuts>> /\ buf' = <<>> /\ Len(buf) + RECV > SIZE
    BY <1>7 DEF TooLong, Full
  <2>2. ASSUME NEW i \in Lines, received <= End(i) - 2, Length(i) <= SIZE - RECV, buf = Bytes(Start(i), received)
        PROVE  buf' = buf
    <3>1. CASE Start(i) <= received
      <4>1. Len(buf) = received - Start(i)
        BY <1>1, <1>2, <2>2, <3>1, BytesAre
      <4> QED
        BY <1>1, <1>2, <2>1, <2>2, <4>1
    <3>2. CASE received < Start(i)
      <4>1. received - Start(i) < 0 /\ received - Start(i) \in Int
        BY <1>1, <1>2, <3>2
      <4>2. 1 .. received - Start(i) = {}
        BY <4>1
      <4>3. buf = <<>>
        BY <2>2, <4>2 DEF Bytes
      <4> QED
        BY <2>1, <4>3
    <3> QED
      BY <1>1, <1>2, <3>1, <3>2
  <2> QED
    BY <1>6, <2>1, <2>2
<1>8. CASE ~Full /\ Ended
  <2>1. received = Total /\ UNCHANGED <<received, handled, cuts>> /\ buf' = SubSeq(buf, 1, Len(buf) - Eaten)
    BY <1>8 DEF Ended
  <2>2. buf = <<>> => buf' = <<>>
    <3> SUFFICES ASSUME buf = <<>> PROVE buf' = <<>>
      OBVIOUS
    <3>1. buf \in Seq(Nat) /\ Len(buf) = 0
      OBVIOUS
    <3> QED
      BY <1>1, <2>1, <3>1, SubSeqEmpty
  <2>3. \A i \in Lines : ~(received <= End(i) - 2)
    BY <1>1, <1>2, <2>1
  <2> QED
    BY <1>6, <2>1, <2>2, <2>3
<1>9. ASSUME ~Full, NEW n \in 1 .. RECV, Receive(n) PROVE FreshInv'
  <2> DEFINE chunk == Bytes(received, received + n)
  <2>1. /\ received + n <= Total /\ cuts' = cuts \cup {received + n} /\ n \in Nat \ {0}
        /\ \/ /\ Ends(chunk) = {} /\ UNCHANGED handled /\ (Eaten = 0 => buf' = buf \o chunk)
           \/ /\ buf' = <<>>
              /\ \E k \in 1 .. n :
                    /\ k \in Ends(chunk)
                    /\ handled' = Append(handled, Words(buf \o Bytes(received, received + (k - 1))))
    <3>1. received + n <= Total /\ cuts' = cuts \cup {received + n} /\ n \in Nat \ {0}
      BY <1>1, <1>9 DEF Receive
    <3>2. Fits(n)
      BY DEF Fits
    <3>3. \/ Ends(chunk) = {} /\ UNCHANGED handled /\ (Eaten = 0 => buf' = buf \o chunk)
          \/ /\ buf' = <<>>
             /\ \E k \in 1 .. n :
                   /\ k \in Ends(chunk)
                   /\ handled' = Append(handled, Words(buf \o Bytes(received, received + (k - 1))))
      BY <1>9, <3>2, Received
    <3> QED
      BY <3>1, <3>3
  <2>2. PICK r \in Nat : r = received + n /\ r = received' /\ r <= Total /\ received < r
    BY <1>1, <1>9, <2>1 DEF Receive
  <2>3. \A i \in Lines : /\ received < End(i) - 1 /\ End(i) <= r => Ends(chunk) # {}
                         /\ \A k \in Ends(chunk) : k \in 1 .. n /\ ~(Start(i) < received + k /\ received + k < End(i) - 1)
    BY <1>1, <2>1, <2>2, PairsOf
  <2>4. chunk = Bytes(received, r)
    BY <2>2
  <2> HIDE DEF chunk
  <2>5. ToSet(handled) \subseteq ToSet(handled')
    <3>1. CASE UNCHANGED handled
      BY <3>1
    <3>2. ASSUME NEW k \in 1 .. n, handled' = Append(handled, Words(buf \o Bytes(received, received + (k - 1))))
          PROVE  ToSet(handled) \subseteq ToSet(handled')
      <4> DEFINE s == buf \o Bytes(received, received + (k - 1))
      <4>1. k - 1 \in 0 .. n
        BY <2>1
      <4>2. s \in Seq(Nat)
        BY <2>1, <4>1, ChunkAppends
      <4>3. handled' = Append(handled, Words(s))
        BY <3>2
      <4> HIDE DEF s
      <4> QED
        BY <4>2, <4>3, HandledTypes
    <3> QED
      BY <2>1, <3>1, <3>2
  \* Behind a line that ended well buf is empty.
  <2>6. ASSUME NEW i \in Lines, StartsFresh(i)', r = Start(i) PROVE buf' = <<>>
    <3>1. i > 1
      <4>1. Start(i) # 0
        BY <1>1, <2>2, <2>6
      <4>2. i \in Nat
        BY <1>1, StreamPlaces
      <4> QED
        BY <1>1, <4>1, <4>2, StreamPlaces DEF Start
    <3>2. PICK h \in Lines : h = i - 1 /\ Start(i) = End(h)
      BY <1>1, <3>1, StreamPlaces
    <3>3. End(h) - 1 \notin cuts'
      BY <2>6, <3>1, <3>2 DEF StartsFresh, WholeEnd, End
    <3>4. received # End(h) - 1
      BY <1>1, <2>1, <3>3
    <3>5. received < End(h) - 1 /\ End(h) <= r
      <4>1. End(h) \in Nat /\ End(h) = r
        BY <1>2, <2>6, <3>2
      <4> QED
        <5>1. received \in Nat /\ received < r /\ r \in Nat
          BY <1>1, <2>2
        <5> HIDE DEF End
        <5> QED
          BY <3>4, <4>1, <5>1
    <3>6. Ends(chunk) # {}
      BY <2>3, <3>5
    <3> QED
      BY <2>1, <3>6
  <2>7. \A i \in Lines : StartsFresh(i)' => /\ Start(i) <= received => StartsFresh(i)
                                            /\ received < Start(i) => Start(i) = r
    BY <2>1, <2>2, FreshBefore
  <2>8. ASSUME NEW i \in Lines, server = "v1.0", StartsFresh(i)', Length(i) <= SIZE - RECV,
               Start(i) <= r, r <= End(i) - 2
        PROVE  buf' = Bytes(Start(i), r)
    <3>1. CASE received < Start(i)
      <4>1. r = Start(i)
        BY <2>7, <2>8, <3>1
      <4> QED
        BY <1>1, <2>2, <2>6, <2>8, <4>1, NoBytes
    <3>2. CASE Start(i) <= received
      <4>1. buf = Bytes(Start(i), received)
        <5>1. received <= End(i) - 2
          BY <1>1, <1>2, <2>2, <2>8
        <5> QED
          BY <1>5, <2>7, <2>8, <3>2, <5>1
      <4>2. Ends(chunk) = {}
        <5> SUFFICES ASSUME NEW k \in Ends(chunk) PROVE FALSE
          OBVIOUS
        <5>1. k \in 1 .. n /\ ~(Start(i) < received + k /\ received + k < End(i) - 1)
          BY <2>3
        <5>2. k \in Nat /\ 1 <= k /\ k <= n
          BY <2>1, <5>1
        <5> QED
          BY <1>1, <1>2, <2>1, <2>2, <2>8, <3>2, <5>1, <5>2
      <4>3. buf' = buf \o chunk
        BY <1>1, <2>1, <2>8, <4>2
      <4>4. Start(i) <= received /\ received <= r /\ r <= Total /\ Start(i) \in Nat
        BY <1>1, <1>2, <2>2, <3>2
      <4>5. Bytes(Start(i), received) \o Bytes(received, r) = Bytes(Start(i), r)
        BY <1>1, <4>4, BytesJoin
      <4> QED
        BY <2>4, <4>1, <4>3, <4>5
    <3> QED
      BY <1>1, <1>2, <3>1, <3>2
  <2>9. ASSUME NEW i \in Lines, Reliable(i)', r >= End(i) PROVE <<Line(i), <<>>>> \in ToSet(handled')
    <3>1. /\ StartsFresh(i)' /\ WholeEnd(i)'
          /\ server = "v1.0" => Length(i) <= SIZE - RECV
          /\ server = "v1.001" => \A c \in cuts' : c <= Start(i) \/ c >= End(i)
      BY <1>1, <1>4, <2>9 DEF Reliable, Servers
    <3>2. Start(i) <= received => StartsFresh(i)
      BY <2>7, <3>1
    <3>3. Start(i) <= received
      <4> SUFFICES ASSUME received < Start(i) PROVE FALSE
        BY <1>1, <1>2
      <4>1. Start(i) = r
        BY <2>7, <3>1
      <4> QED
        BY <1>2, <2>2, <2>9, <4>1
    <3>4. WholeEnd(i) /\ End(i) - 1 \notin cuts'
      BY <2>1, <3>1 DEF WholeEnd, End
    <3>5. CASE received >= End(i)
      <4>1. Reliable(i)
        BY <1>1, <2>1, <3>1, <3>2, <3>3, <3>4 DEF Reliable, Servers
      <4> QED
        BY <1>5, <2>5, <3>5, <4>1 DEF CleanLinesArrive
    <3>6. CASE received < End(i)
      <4>1. received <= End(i) - 2
        <5>1. received # End(i) - 1
          BY <1>1, <2>1, <3>4
        <5> QED
          <6>1. End(i) \in Nat
            BY <1>2
          <6> QED
            BY <1>1, <3>6, <5>1, <6>1
      <4>2. buf = Bytes(Start(i), received)
        <5>1. CASE server = "v1.0"
          BY <1>5, <3>1, <3>2, <3>3, <4>1, <5>1
        <5>2. CASE server = "v1.001"
          <6>1. received <= Start(i)
            BY <1>1, <1>2, <2>1, <3>1, <3>6, <5>2
          <6>2. received = Start(i)
            BY <1>1, <1>2, <3>3, <6>1
          <6> QED
            BY <1>1, <1>5, <3>2, <3>3, <6>2, NoBytes
        <5> QED
          BY <1>1, <5>1, <5>2 DEF Servers
      <4>3. End(i) <= received + n
        BY <2>2, <2>9
      <4> QED
        BY <1>9, <3>3, <4>1, <4>2, <4>3, EndsWell
    <3> QED
      BY <1>1, <1>2, <3>5, <3>6
  <2>10. CleanLinesArrive'
    BY <1>4, <2>2, <2>9 DEF CleanLinesArrive
  <2>11. \A i \in Lines : (StartsFresh(i) /\ received = Start(i) => buf = <<>>)'
    BY <1>4, <2>2, <2>6
  <2>12. \A i \in Lines : Bytes(Start(i), received)' = Bytes(Start(i), r)
    BY <2>2 DEF Bytes, Byte, Start
  <2>13. server' = "v1.0" =>
            \A i \in Lines : /\ StartsFresh(i)' /\ Length(i) <= SIZE - RECV
                             /\ Start(i) <= r /\ r <= End(i) - 2
                             => buf' = Bytes(Start(i), received)'
    BY <2>8, <2>12
  <2> QED
    BY <1>4, <2>2, <2>10, <2>11, <2>13 DEF FreshInv
<1> QED
  BY <1>7, <1>8, <1>9

LEMMA FreshInit == ASSUME FramingInit PROVE FreshInv
<1>1. Room /\ received = 0 /\ buf = <<>>
  BY RoomInit DEF FramingInit
<1>2. Stream /\ Total \in Nat
  BY <1>1, StreamPlaces DEF Room
<1>3. \A i \in Lines : Start(i) \in Nat /\ End(i) \in Nat /\ Length(i) \in Nat /\ End(i) = Start(i) + Length(i) + 2
  BY <1>2, StreamPlaces
<1>4. ASSUME NEW i \in Lines, Start(i) <= received PROVE buf = Bytes(Start(i), received)
  <2>1. Start(i) = 0
    BY <1>1, <1>3, <1>4
  <2> QED
    BY <1>1, <1>2, <2>1, NoBytes
<1>5. CleanLinesArrive
  BY <1>1, <1>3 DEF CleanLinesArrive
<1> QED
  BY <1>1, <1>4, <1>5 DEF FreshInv

-----------------------------------------------------------------------------
(***************************************************************************)
(* The bytes in buf are in order, and behind all that were handled.        *)
(***************************************************************************)

Ordered(s) == \A j, k \in DOMAIN s : j < k /\ IsText(s[j]) /\ IsText(s[k]) => s[j] < s[k]

InOrder ==
    /\ Ordered(buf)
    /\ \A k \in DOMAIN buf : IsText(buf[k]) => buf[k] <= 32 + received
    /\ \A h \in ToSet(handled) : \A b \in BytesOf(h) :
          /\ b <= 32 + received
          /\ \A k \in DOMAIN buf : IsText(buf[k]) => b < buf[k]
    /\ BytesInOrder

\* The elements of a sequence.
LEMMA ElementsOf ==
    ASSUME NEW s \in Seq(Nat)
    PROVE  /\ \A b : b \in ToSet(s) <=> \E k \in 1 .. Len(s) : b = s[k]
           /\ ToSet(s) \subseteq Nat
<1>1. ToSet(s) = {s[k] : k \in DOMAIN s} /\ DOMAIN s = 1 .. Len(s)
  BY DEF ToSet
<1>2. \A k \in 1 .. Len(s) : s[k] \in Nat
  OBVIOUS
<1> QED
  BY <1>1, <1>2

\* What the handler is given are numbers.
LEMMA BytesAreNumbers ==
    ASSUME Room, NEW h \in ToSet(handled)
    PROVE  /\ h[1] \in Seq(Nat) /\ h[2] \in Seq(Nat)
           /\ \A b \in BytesOf(h) : b \in Nat
           /\ \A b : b \in BytesOf(h) <=> \/ \E k \in 1 .. Len(h[1]) : b = h[1][k]
                                          \/ \E k \in 1 .. Len(h[2]) : b = h[2][k]
<1>1. PICK k \in DOMAIN handled : h = handled[k]
  BY DEF ToSet
<1>2. h \in Seq(Nat) \X Seq(Nat)
  BY <1>1 DEF Room
<1>3. h[1] \in Seq(Nat) /\ h[2] \in Seq(Nat)
  BY <1>2
<1> DEFINE c == h[1]
           p == h[2]
<1>4. /\ \A b : b \in ToSet(c) <=> \E k_1 \in 1 .. Len(c) : b = c[k_1]
      /\ \A b : b \in ToSet(p) <=> \E k_1 \in 1 .. Len(p) : b = p[k_1]
      /\ ToSet(c) \subseteq Nat /\ ToSet(p) \subseteq Nat
  <2>1. c \in Seq(Nat) /\ p \in Seq(Nat)
    BY <1>3
  <2> HIDE DEF c, p
  <2> QED
    BY <2>1, ElementsOf
<1> QED
  BY <1>3, <1>4 DEF BytesOf

\* The string a chunk makes of buf: its text, and where it comes from.
LEMMA TextOf ==
    ASSUME Room, InOrder, NEW n \in Nat, received + n <= Total
    PROVE  LET s == buf \o Bytes(received, received + n)
           IN  /\ s \in Seq(Nat) /\ Ordered(s)
               /\ \A k \in DOMAIN s : IsText(s[k]) =>
                     /\ s[k] <= 32 + received + n
                     /\ \A h \in ToSet(handled) : \A b \in BytesOf(h) : b < s[k]
                     /\ \/ k \in DOMAIN buf /\ s[k] = buf[k] /\ s[k] <= 32 + received
                        \/ /\ s[k] - 32 \in Nat /\ s[k] - 32 > received /\ s[k] - 32 <= received + n
                           /\ Byte(s[k] - 32) = s[k]
<1> DEFINE s == buf \o Bytes(received, received + n)
<1>1. Stream /\ received \in Nat /\ Total \in Nat /\ buf \in Seq(Nat) /\ Len(buf) \in Nat
  BY StreamPlaces DEF Room
<1>2. /\ s \in Seq(Nat) /\ Len(s) = Len(buf) + n
      /\ \A k \in 1 .. Len(buf) + n : s[k] = IF k <= Len(buf) THEN buf[k] ELSE Byte(received + (k - Len(buf)))
  <2>1. n \in 0 .. n
    OBVIOUS
  <2> QED
    BY <1>1, <2>1, ChunkAppends
<1> HIDE DEF s
<1>3. \A h \in ToSet(handled) : \A b \in BytesOf(h) : b \in Nat
  BY BytesAreNumbers
<1>4. ASSUME NEW k \in DOMAIN s, IsText(s[k])
      PROVE  /\ s[k] \in Nat /\ s[k] <= 32 + received + n
             /\ \A h \in ToSet(handled) : \A b \in BytesOf(h) : b < s[k]
             /\ \/ k \in DOMAIN buf /\ s[k] = buf[k] /\ s[k] <= 32 + received
                \/ /\ k > Len(buf) /\ s[k] = 32 + (received + (k - Len(buf)))
                   /\ Byte(received + (k - Len(buf))) = s[k]
  <2>1. k \in 1 .. Len(buf) + n
    BY <1>2
  <2>2. CASE k <= Len(buf)
    <3>1. k \in DOMAIN buf /\ s[k] = buf[k] /\ buf[k] \in Nat
      BY <1>1, <1>2, <2>1, <2>2
    <3>2. buf[k] <= 32 + received /\ \A h \in ToSet(handled) : \A b \in BytesOf(h) : b < buf[k]
      BY <1>4, <3>1 DEF InOrder
    <3> QED
      BY <1>1, <3>1, <3>2
  <2>3. CASE ~(k <= Len(buf))
    <3>1. PICK p \in 1 .. Total : p = received + (k - Len(buf))
      BY <1>1, <2>1, <2>3
    <3>2. s[k] = Byte(p)
      BY <1>2, <2>1, <2>3, <3>1
    <3>3. Byte(p) = 32 + p
      BY <1>1, <1>4, <3>2, ByteKinds
    <3>4. \A h \in ToSet(handled) : \A b \in BytesOf(h) : b <= 32 + received
      BY DEF InOrder
    <3> QED
      BY <1>1, <1>3, <2>1, <2>3, <3>1, <3>2, <3>3, <3>4
  <2> QED
    BY <1>1, <2>1, <2>2, <2>3
<1>5. Ordered(s)
  <2> SUFFICES ASSUME NEW j \in DOMAIN s, NEW k \in DOMAIN s, j < k, IsText(s[j]), IsText(s[k])
               PROVE  s[j] < s[k]
    BY DEF Ordered
  <2>1. j \in 1 .. Len(buf) + n /\ k \in 1 .. Len(buf) + n /\ s[j] \in Nat /\ s[k] \in Nat
    BY <1>2
  <2>2. CASE j \in DOMAIN buf /\ s[j] = buf[j] /\ s[j] <= 32 + received
    <3>1. CASE k \in DOMAIN buf /\ s[k] = buf[k]
      BY <2>2, <3>1 DEF InOrder, Ordered
    <3>2. CASE k > Len(buf) /\ s[k] = 32 + (received + (k - Len(buf)))
      BY <1>1, <2>1, <2>2, <3>2
    <3> QED
      BY <1>4, <3>1, <3>2
  <2>3. CASE j > Len(buf) /\ s[j] = 32 + (received + (j - Len(buf)))
    <3>1. s[k] = 32 + (received + (k - Len(buf)))
      BY <1>1, <1>4, <2>1, <2>3
    <3> QED
      BY <1>1, <2>1, <2>3, <3>1
  <2> QED
    BY <1>4, <2>2, <2>3
<1>6. ASSUME NEW k \in DOMAIN s, IsText(s[k])
      PROVE  \/ k \in DOMAIN buf /\ s[k] = buf[k] /\ s[k] <= 32 + received
             \/ /\ s[k] - 32 \in Nat /\ s[k] - 32 > received /\ s[k] - 32 <= received + n
                /\ Byte(s[k] - 32) = s[k]
  <2>1. CASE k > Len(buf) /\ s[k] = 32 + (received + (k - Len(buf))) /\ Byte(received + (k - Len(buf))) = s[k]
    <3>1. PICK p \in Nat : p = received + (k - Len(buf)) /\ p > received /\ p <= received + n
      BY <1>1, <1>2, <2>1
    <3>2. s[k] - 32 = p
      BY <2>1, <3>1
    <3> QED
      BY <2>1, <3>1, <3>2
  <2> QED
    BY <1>4, <1>6, <2>1
<1> QED
  BY <1>2, <1>4, <1>5, <1>6 DEF s

\* The words of a string are text of it, in its order.
LEMMA WordsInOrder ==
    ASSUME NEW s \in Seq(Nat), Ordered(s)
    PROVE  /\ Increasing(Words(s)[1] \o Words(s)[2])
           /\ \A b \in BytesOf(Words(s)) : IsText(b) /\ \E k \in DOMAIN s : s[k] = b
<1> DEFINE c == Words(s)[1]
           p == Words(s)[2]
<1>1. /\ c \in Seq(Nat) /\ p \in Seq(Nat) /\ Text(c) /\ Text(p)
      /\ \E i, j \in Nat :
            /\ i + Len(c) <= j /\ j + Len(p) <= Len(s)
            /\ \A k \in DOMAIN c : c[k] = s[i + k]
            /\ \A k \in DOMAIN p : p[k] = s[j + k]
  BY WordsAre
<1>2. BytesOf(Words(s)) = ToSet(c) \cup ToSet(p)
  BY DEF BytesOf
<1> HIDE DEF c, p
<1>3. PICK i \in Nat, j \in Nat :
            /\ i + Len(c) <= j /\ j + Len(p) <= Len(s)
            /\ \A k \in DOMAIN c : c[k] = s[i + k]
            /\ \A k \in DOMAIN p : p[k] = s[j + k]
  BY <1>1
<1>4. /\ Len(c) \in Nat /\ Len(p) \in Nat /\ Len(s) \in Nat /\ DOMAIN s = 1 .. Len(s)
      /\ DOMAIN c = 1 .. Len(c) /\ DOMAIN p = 1 .. Len(p)
  BY <1>1
<1>5. /\ c \o p \in Seq(Nat) /\ Len(c \o p) = Len(c) + Len(p)
      /\ \A k \in 1 .. Len(c) + Len(p) : (c \o p)[k] = IF k <= Len(c) THEN c[k] ELSE p[k - Len(c)]
  BY <1>1, ConcatProperties
<1>6. ASSUME NEW k \in 1 .. Len(c) + Len(p)
      PROVE  \E m \in DOMAIN s : /\ (c \o p)[k] = s[m] /\ IsText(s[m])
                                 /\ k <= Len(c) => m = i + k
                                 /\ k > Len(c) => m = j + (k - Len(c))
  <2>1. CASE k <= Len(c)
    <3>1. k \in DOMAIN c /\ (c \o p)[k] = c[k] /\ i + k \in DOMAIN s
      BY <1>3, <1>4, <1>5, <2>1
    <3>2. PICK m \in DOMAIN s : m = i + k
      BY <3>1
    <3>3. c[k] = s[m] /\ IsText(c[k])
      BY <1>1, <1>3, <3>1, <3>2 DEF Text
    <3> QED
      BY <1>4, <2>1, <3>1, <3>2, <3>3
  <2>2. CASE k > Len(c)
    <3>1. PICK q \in DOMAIN p : q = k - Len(c)
      BY <1>4, <2>2
    <3>2. (c \o p)[k] = p[q] /\ j + q \in DOMAIN s
      BY <1>3, <1>4, <1>5, <2>2, <3>1
    <3>3. PICK m \in DOMAIN s : m = j + q
      BY <3>2
    <3>4. p[q] = s[m] /\ IsText(p[q])
      BY <1>1, <1>3, <3>1, <3>3 DEF Text
    <3> QED
      BY <1>4, <2>2, <3>1, <3>2, <3>3, <3>4
  <2>3. k <= Len(c) \/ k > Len(c)
    BY <1>4
  <2> QED
    BY <2>1, <2>2, <2>3
<1>7. Increasing(c \o p)
  <2> SUFFICES ASSUME NEW a \in 1 .. Len(c) + Len(p), NEW b \in 1 .. Len(c) + Len(p), a < b
               PROVE  (c \o p)[a] < (c \o p)[b]
    BY <1>5 DEF Increasing
  <2>1. PICK m \in DOMAIN s : /\ (c \o p)[a] = s[m] /\ IsText(s[m])
                              /\ a <= Len(c) => m = i + a
                              /\ a > Len(c) => m = j + (a - Len(c))
    BY <1>6
  <2>2. PICK q \in DOMAIN s : /\ (c \o p)[b] = s[q] /\ IsText(s[q])
                              /\ b <= Len(c) => q = i + b
                              /\ b > Len(c) => q = j + (b - Len(c))
    BY <1>6
  <2>3. m < q
    <3>1. a \in Nat /\ b \in Nat /\ i + Len(c) <= j
      BY <1>3
    <3>2. CASE b <= Len(c)
      <4>1. m = i + a /\ q = i + b
        BY <1>4, <2>1, <2>2, <3>1, <3>2
      <4> QED
        BY <3>1, <4>1
    <3>3. CASE a <= Len(c) /\ b > Len(c)
      <4>1. m = i + a /\ q = j + (b - Len(c))
        BY <2>1, <2>2, <3>3
      <4> QED
        BY <1>4, <3>1, <3>3, <4>1
    <3>4. CASE a > Len(c)
      <4>1. m = j + (a - Len(c)) /\ q = j + (b - Len(c))
        BY <1>4, <2>1, <2>2, <3>1, <3>4
      <4> QED
        BY <1>4, <3>1, <4>1
    <3> QED
      BY <1>4, <3>1, <3>2, <3>3, <3>4
  <2> QED
    BY <2>1, <2>2, <2>3 DEF Ordered
<1>8. ASSUME NEW b \in BytesOf(Words(s)) PROVE IsText(b) /\ \E k \in DOMAIN s : s[k] = b
  <2>1. CASE b \in ToSet(c)
    <3>1. PICK k \in DOMAIN c : c[k] = b
      BY <2>1 DEF ToSet
    <3>2. k \in 1 .. Len(c) + Len(p) /\ k <= Len(c)
      BY <1>4, <3>1
    <3>3. (c \o p)[k] = b
      BY <1>5, <3>1, <3>2
    <3> QED
      BY <1>6, <3>2, <3>3
  <2>2. CASE b \in ToSet(p)
    <3>1. PICK k \in DOMAIN p : p[k] = b
      BY <2>2 DEF ToSet
    <3>2. PICK q \in 1 .. Len(c) + Len(p) : q = Len(c) + k /\ ~(q <= Len(c)) /\ q - Len(c) = k
      BY <1>4, <3>1
    <3>3. (c \o p)[q] = b
      BY <1>5, <3>1, <3>2
    <3> QED
      BY <1>6, <3>2, <3>3
  <2> QED
    BY <1>2, <1>8, <2>1, <2>2
<1> QED
  BY <1>7, <1>8 DEF c, p

LEMMA InOrderInit == ASSUME FramingInit PROVE InOrder
<1>1. buf = <<>> /\ handled = <<>>
  BY DEF FramingInit
<1>2. DOMAIN buf = {} /\ DOMAIN handled = {} /\ ToSet(handled) = {}
  BY <1>1 DEF ToSet
<1> QED
  BY <1>2 DEF InOrder, Ordered, BytesInOrder

\* What a command that has been handled has been given does not change.
LEMMA InOrderKept ==
    ASSUME Room, InOrder, UNCHANGED handled, received' \in Nat, received' >= received, NEW s, Ordered(s),
           \A k \in DOMAIN s : IsText(s[k]) =>
               s[k] <= 32 + received' /\ \A h \in ToSet(handled) : \A b \in BytesOf(h) : b < s[k],
           \A k \in DOMAIN buf' : k \in DOMAIN s /\ buf'[k] = s[k]
    PROVE  InOrder'
<1>1. Ordered(buf')
  BY DEF Ordered
<1>2. \A k \in DOMAIN buf' : IsText(buf'[k]) =>
         buf'[k] <= 32 + received' /\ \A h \in ToSet(handled) : \A b \in BytesOf(h) : b < buf'[k]
  OBVIOUS
<1>3. ASSUME NEW h \in ToSet(handled), NEW b \in BytesOf(h) PROVE b <= 32 + received'
  <2>1. b \in Nat /\ b <= 32 + received /\ received \in Nat
    BY BytesAreNumbers DEF InOrder, Room
  <2> PICK v \in Nat : v = received
    BY <2>1
  <2> PICK w \in Nat : w = received'
    OBVIOUS
  <2>2. b \in Nat /\ b <= 32 + v /\ w >= v
    BY <2>1
  <2>3. b <= 32 + w
    BY ONLY <2>2, v \in Nat, w \in Nat
  <2> QED
    BY <2>3
<1>4. BytesInOrder' = BytesInOrder
  BY DEF BytesInOrder
<1>5. Ordered(buf)' = Ordered(buf')
  BY DEF Ordered
<1> QED
  BY <1>1, <1>2, <1>3, <1>4, <1>5 DEF InOrder

LEMMA InOrderStep ==
    ASSUME Room, InOrder, [FramingNext]_framing_vars
    PROVE  InOrder'
<1>1. /\ received \in Nat /\ Len(buf) \in Nat /\ buf \in Seq(Nat) /\ Total \in Nat /\ Eaten \in {0, 1} /\ RECV \in Nat
  BY SizesFit, StreamPlaces DEF Room
<1>2. ASSUME UNCHANGED handled, received' \in Nat, received' >= received,
             \A k \in DOMAIN buf' : k \in DOMAIN buf /\ buf'[k] = buf[k]
      PROVE  InOrder'
  <2>1. \A k \in DOMAIN buf : IsText(buf[k]) => buf[k] <= 32 + received'
    <3> SUFFICES ASSUME NEW k \in DOMAIN buf, IsText(buf[k]) PROVE buf[k] <= 32 + received'
      OBVIOUS
    <3>1. buf[k] \in Nat /\ buf[k] <= 32 + received
      BY <1>1 DEF InOrder
    <3> QED
      BY <1>1, <1>2, <3>1
  <2>2. \A k \in DOMAIN buf : IsText(buf[k]) => \A h \in ToSet(handled) : \A b \in BytesOf(h) : b < buf[k]
    BY DEF InOrder
  <2>3. Ordered(buf)
    BY DEF InOrder
  <2> QED
    BY <1>2, <2>1, <2>2, <2>3, InOrderKept
<1>3. CASE UNCHANGED framing_vars
  BY <1>1, <1>2, <1>3 DEF framing_vars
<1> SUFFICES ASSUME ~closed, UNCHANGED <<server, ends>>,
                    \/ Full /\ TooLong
                    \/ ~Full /\ Ended
                    \/ ~Full /\ \E n \in 1 .. RECV : Receive(n)
             PROVE  InOrder'
  BY <1>3, Steps
<1>4. CASE Full /\ TooLong
  <2>1. UNCHANGED <<received, handled>> /\ buf' = <<>>
    BY <1>4 DEF TooLong
  <2> QED
    BY <1>1, <1>2, <2>1
<1>5. CASE ~Full /\ Ended
  <2>1. UNCHANGED <<received, handled>> /\ buf' = SubSeq(buf, 1, Len(buf) - Eaten)
    BY <1>5 DEF Ended
  <2>2. \A k \in DOMAIN buf' : k \in DOMAIN buf /\ buf'[k] = buf[k]
    <3>1. CASE Len(buf) - Eaten < 0
      <4>1. buf' = <<>>
        BY <1>1, <2>1, <3>1, SubSeqEmpty
      <4> QED
        BY <4>1
    <3>2. CASE Len(buf) - Eaten >= 0
      <4>0. Len(buf) - Eaten \in 0 .. Len(buf)
        <5>1. CASE Eaten = 0
          BY <1>1, <5>1
        <5>2. CASE Eaten = 1
          BY <1>1, <3>2, <5>2
        <5> QED
          BY <1>1, <5>1, <5>2
      <4>1. PICK l \in 0 .. Len(buf) : l = Len(buf) - Eaten
        BY <4>0
      <4>2. buf' \in Seq(Nat) /\ Len(buf') = l /\ \A k \in 1 .. l : buf'[k] = buf[k]
        BY <1>1, <2>1, <4>1, FrontOf
      <4> QED
        BY <1>1, <4>2
    <3> QED
      BY <1>1, <3>1, <3>2
  <2> QED
    BY <1>1, <1>2, <2>1, <2>2
<1>6. ASSUME NEW n \in 1 .. RECV, Receive(n) PROVE InOrder'
  <2> DEFINE chunk == Bytes(received, received + n)
  <2>1. /\ received + n <= Total /\ received' = received + n /\ n \in Nat \ {0}
    BY <1>1, <1>6 DEF Receive
  <2>2. received' \in Nat /\ received' >= received
    BY <1>1, <2>1
  <2>3. CASE UNCHANGED <<buf, handled>>
    BY <1>2, <2>2, <2>3
  <2>4. CASE /\ UNCHANGED handled /\ buf' \in Seq(Nat) /\ Len(buf') = Len(buf) + n - Eaten
             /\ \A k \in 1 .. Len(buf') : buf'[k] = (buf \o chunk)[k]
    <3> DEFINE s == buf \o chunk
    <3>1. /\ s \in Seq(Nat) /\ Ordered(s)
          /\ \A k \in DOMAIN s : IsText(s[k]) =>
                /\ s[k] <= 32 + received + n
                /\ \A h \in ToSet(handled) : \A b \in BytesOf(h) : b < s[k]
      BY <2>1, TextOf
    <3>2. Len(s) = Len(buf) + n
      <4>1. n \in 0 .. n
        BY <2>1
      <4> QED
        BY <2>1, <4>1, ChunkAppends
    <3>3. \A k \in 1 .. Len(buf') : buf'[k] = s[k]
      BY <2>4
    <3> HIDE DEF s, chunk
    <3>4. \A k \in DOMAIN buf' : k \in DOMAIN s /\ buf'[k] = s[k]
      <4>1. DOMAIN buf' = 1 .. Len(buf') /\ DOMAIN s = 1 .. Len(s) /\ Len(buf') \in Nat
        BY <2>4, <3>1
      <4>2. Len(buf') <= Len(s)
        BY <1>1, <2>1, <2>4, <3>2
      <4> QED
        BY <3>1, <3>3, <4>1, <4>2
    <3>5. \A k \in DOMAIN s : IsText(s[k]) =>
              s[k] <= 32 + received' /\ \A h \in ToSet(handled) : \A b \in BytesOf(h) : b < s[k]
      <4>1. 32 + received + n = 32 + received'
        BY <1>1, <2>1
      <4> QED
        BY <3>1, <4>1
    <3> QED
      BY <2>2, <2>4, <3>1, <3>4, <3>5, InOrderKept
  <2>5. ASSUME buf' = <<>>, NEW i \in 1 .. n,
               handled' = Append(handled, Words(buf \o Bytes(received, received + (i - 1))))
        PROVE  InOrder'
    <3>0. PICK e \in Nat : e = i - 1 /\ e <= n /\ received + e <= Total
      BY <1>1, <2>1
    <3> DEFINE s == buf \o Bytes(received, received + e)
               w == Words(s)
    <3>1. /\ s \in Seq(Nat) /\ Ordered(s)
          /\ \A k \in DOMAIN s : IsText(s[k]) =>
                /\ s[k] <= 32 + received + e
                /\ \A h \in ToSet(handled) : \A b \in BytesOf(h) : b < s[k]
      BY <3>0, TextOf
    <3>2. handled' = Append(handled, Words(s))
      BY <2>5, <3>0
    <3> HIDE DEF s
    <3>3. /\ handled' \in Seq(Seq(Nat) \X Seq(Nat))
          /\ Len(handled') = Len(handled) + 1 /\ handled'[Len(handled) + 1] = w
          /\ \A k \in 1 .. Len(handled) : handled'[k] = handled[k]
          /\ \A h \in ToSet(handled') : h \in ToSet(handled) \/ h = w
      BY <3>1, <3>2, HandledTypes
    <3>4. /\ Increasing(w[1] \o w[2])
          /\ \A b \in BytesOf(w) : IsText(b) /\ \E k \in DOMAIN s : s[k] = b
      BY <3>1, WordsInOrder
    <3> HIDE DEF w
    <3>5. \A b \in BytesOf(w) : /\ b \in Nat /\ b <= 32 + received'
                                /\ \A h \in ToSet(handled) : \A a \in BytesOf(h) : a < b
      <4> SUFFICES ASSUME NEW b \in BytesOf(w)
                   PROVE  /\ b \in Nat /\ b <= 32 + received'
                          /\ \A h \in ToSet(handled) : \A a \in BytesOf(h) : a < b
        OBVIOUS
      <4>1. PICK k \in DOMAIN s : s[k] = b /\ IsText(s[k])
        BY <3>4
      <4>2. b \in Nat /\ b <= 32 + received + e /\ \A h \in ToSet(handled) : \A a \in BytesOf(h) : a < b
        BY <3>1, <4>1
      <4> QED
        BY <1>1, <2>1, <3>0, <4>2
    <3>6. \A h \in ToSet(handled') : \A b \in BytesOf(h) : b <= 32 + received'
      <4> SUFFICES ASSUME NEW h \in ToSet(handled), NEW b \in BytesOf(h) PROVE b <= 32 + received'
        BY <3>3, <3>5
      <4>1. b \in Nat /\ b <= 32 + received /\ received \in Nat
        BY <1>1, BytesAreNumbers DEF InOrder
      <4>2. received' = received + n /\ n \in Nat
        BY <2>1
      <4> QED
        BY <4>1, <4>2
    <3>7. BytesInOrder'
      <4>1. \A h \in ToSet(handled') : Increasing(h[1] \o h[2])
        BY <3>3, <3>4 DEF InOrder, BytesInOrder
      <4>2. ASSUME NEW j \in DOMAIN handled', NEW k \in DOMAIN handled', j < k,
                   NEW b \in BytesOf(handled'[j]), NEW c \in BytesOf(handled'[k])
            PROVE  b < c
        <5>1. /\ Len(handled) \in Nat /\ DOMAIN handled = 1 .. Len(handled)
              /\ DOMAIN handled' = 1 .. Len(handled) + 1
          BY <3>3 DEF Room
        <5>2. j \in DOMAIN handled /\ handled'[j] = handled[j]
          BY <3>3, <4>2, <5>1
        <5>3. CASE k \in DOMAIN handled
          <6>1. handled'[k] = handled[k]
            BY <3>3, <5>1, <5>3
          <6> QED
            BY <4>2, <5>2, <5>3, <6>1 DEF InOrder, BytesInOrder
        <5>4. CASE k = Len(handled) + 1
          <6>1. handled'[k] = w /\ handled[j] \in ToSet(handled)
            BY <3>3, <5>2, <5>4 DEF ToSet
          <6> QED
            BY <3>5, <4>2, <5>2, <6>1
        <5> QED
          BY <5>1, <5>3, <5>4
      <4> QED
        BY <4>1, <4>2 DEF BytesInOrder, Increasing, BytesOf
    <3>8. DOMAIN buf' = {}
      BY <2>5
    <3>9. Ordered(buf)'
      BY <3>8 DEF Ordered
    <3>10. \A h : BytesOf(h)' = BytesOf(h)
      BY DEF BytesOf
    <3> QED
      BY <3>6, <3>7, <3>8, <3>9 DEF InOrder
  <2>6. \/ UNCHANGED <<buf, handled>>
        \/ /\ UNCHANGED handled /\ buf' \in Seq(Nat) /\ Len(buf') = Len(buf) + n - Eaten
           /\ \A k \in 1 .. Len(buf') : buf'[k] = (buf \o chunk)[k]
        \/ /\ buf' = <<>>
           /\ \E i \in 1 .. n : handled' = Append(handled, Words(buf \o Bytes(received, received + (i - 1))))
    BY <1>6, Received
  <2> QED
    BY <2>3, <2>4, <2>5, <2>6
<1> QED
  BY <1>4, <1>5, <1>6

-----------------------------------------------------------------------------
(***************************************************************************)
(* What is in buf is in front of no CR LF that came whole.                 *)
(***************************************************************************)

Ragged ==
    \A k \in DOMAIN buf : \A i \in Lines :
        IsText(buf[k]) /\ buf[k] - 32 <= End(i) /\ End(i) - 1 <= received => ~WholeEnd(i)

JoinsInv == (~closed => Ragged) /\ JoinsNeedACut

\* In the joint server all of it is of the line on its way.
LEMMA JointRagged ==
    ASSUME Room, server = "joint", JointInv, ~closed
    PROVE  Ragged
<1>1. /\ Stream /\ Total \in Nat /\ received \in Nat /\ received <= Total
      /\ Len(ends) \in Nat /\ Lines = 1 .. Len(ends)
  BY StreamPlaces DEF Room
<1>2. PICK m \in 1 .. Len(ends) + 1 : AtLine(m)
  BY DEF JointInv
<1>3. PICK s \in Nat : /\ s = Start(m) \/ (m > 1 /\ s = Start(m) - 1)
                       /\ s <= received /\ buf = Bytes(s, received)
                       /\ m \in Lines => received <= End(m) - 2
  BY <1>2 DEF AtLine
<1> SUFFICES ASSUME NEW k \in DOMAIN buf, NEW i \in Lines, IsText(buf[k]), buf[k] - 32 <= End(i), End(i) - 1 <= received
             PROVE  FALSE
  BY DEF Ragged
<1>4. PICK p \in 1 .. Total : p > s /\ buf[k] = Byte(p) /\ p <= received
  <2>1. Len(buf) = received - s /\ buf \in Seq(Nat) /\ \A j \in 1 .. received - s : s + j \in 1 .. Total /\ buf[j] = Byte(s + j)
    BY <1>1, <1>3, BytesAre
  <2>2. k \in 1 .. received - s
    BY <2>1
  <2> QED
    BY <1>1, <1>3, <2>1, <2>2
<1>5. Byte(p) = 32 + p
  BY <1>1, <1>4, ByteKinds
<1>6. \A h \in Lines : Start(h) \in Nat /\ End(h) \in Nat /\ Length(h) \in Nat /\ End(h) = Start(h) + Length(h) + 2
  BY <1>1, StreamPlaces
<1>7. p <= End(i)
  BY <1>4, <1>5, <1>6
<1>8. ASSUME NEW h \in Lines PROVE p # End(h)
  <2> SUFFICES ASSUME p = End(h) PROVE FALSE
    OBVIOUS
  <2>1. Start(h) < p /\ p <= End(h) /\ p # End(h) - 1 /\ p \in Nat
    <3>1. Start(h) \in Nat /\ End(h) \in Nat /\ Length(h) \in Nat /\ End(h) = Start(h) + Length(h) + 2
      BY <1>6
    <3> QED
      BY <3>1
  <2>2. Byte(p) = IF p = End(h) - 1 THEN CR ELSE IF p = End(h) THEN LF ELSE 32 + p
    BY <1>1, <1>6, <2>1, ByteOf
  <2> QED
    BY <1>1, <1>5, <2>1, <2>2 DEF LF
<1>9. CASE m \in Lines
  <2>1. p > Start(m)
    <3>1. CASE m > 1 /\ s = Start(m) - 1
      <4>1. m - 1 \in Lines /\ Start(m) = End(m - 1)
        BY <1>1, <1>9, <3>1, StreamPlaces
      <4>2. p # Start(m)
        BY <1>8, <4>1
      <4> QED
        BY <1>1, <1>4, <1>6, <1>9, <3>1, <4>2
    <3> QED
      BY <1>3, <1>4, <1>6, <1>9, <3>1
  <2>2. End(i) < End(m)
    BY <1>1, <1>3, <1>6, <1>9
  <2>3. i < m
    <3> SUFFICES ASSUME m < i PROVE FALSE
      BY <1>1, <1>6, <2>2
    <3>1. End(m) <= Start(i)
      BY <1>1, <1>9, LinesFollow
    <3> QED
      BY <1>6, <1>9, <2>2, <3>1
  <2>4. End(i) <= Start(m)
    BY <1>1, <1>9, <2>3, LinesFollow
  <2> QED
    BY <1>6, <1>7, <1>9, <2>1, <2>4
<1>10. CASE m \notin Lines
  <2>1. m = Len(ends) + 1 /\ Start(m) = Total
    BY <1>1, <1>10 DEF Total
  <2>2. p = Total
    BY <1>1, <1>3, <1>4, <2>1
  <2>3. Len(ends) \in Lines /\ Total = End(Len(ends))
    <3>1. Len(ends) # 0
      BY <1>1
    <3> QED
      BY <1>1, <3>1, StreamPlaces
  <2> QED
    BY <1>8, <2>2, <2>3
<1> QED
  BY <1>9, <1>10

LEMMA JointRaggedNow == Room /\ server = "joint" /\ JointInv /\ ~closed => Ragged
  BY JointRagged

LEMMA JointRaggedNext == (Room /\ server = "joint" /\ JointInv /\ ~closed => Ragged)'
  BY JointRaggedNow, PTL

\* The others: a chunk that brings a CR LF empties buf.
LEMMA RaggedStep ==
    ASSUME Room, server # "joint", ~closed, Ragged, InOrder, [FramingNext]_framing_vars
    PROVE  Ragged'
<1>1. /\ Stream /\ Total \in Nat /\ received \in Nat /\ received <= Total /\ received \in cuts
      /\ Len(buf) \in Nat /\ buf \in Seq(Nat) /\ Eaten \in {0, 1} /\ RECV \in Nat
      /\ \A i \in Lines : End(i) \in Nat
  BY StreamPlaces, SizesFit DEF Room
<1>2. ASSUME UNCHANGED <<server, ends, received, cuts>>,
             \A k \in DOMAIN buf' : k \in DOMAIN buf /\ buf'[k] = buf[k]
      PROVE  Ragged'
  BY <1>2 DEF Ragged, WholeEnd, End, Lines
<1>3. CASE UNCHANGED framing_vars
  BY <1>2, <1>3 DEF framing_vars
<1> SUFFICES ASSUME UNCHANGED <<server, ends>>,
                    \/ Full /\ TooLong
                    \/ ~Full /\ Ended
                    \/ ~Full /\ \E n \in 1 .. RECV : Receive(n)
             PROVE  Ragged'
  BY <1>3, Steps
<1>4. CASE Full /\ TooLong
  <2>1. UNCHANGED <<received, cuts>> /\ buf' = <<>>
    BY <1>4 DEF TooLong
  <2> QED
    BY <1>2, <2>1
<1>5. CASE ~Full /\ Ended
  <2>1. UNCHANGED <<received, cuts>> /\ buf' = SubSeq(buf, 1, Len(buf) - Eaten)
    BY <1>5 DEF Ended
  <2>2. \A k \in DOMAIN buf' : k \in DOMAIN buf /\ buf'[k] = buf[k]
    <3>1. CASE Len(buf) - Eaten < 0
      <4>1. buf' = <<>>
        BY <1>1, <2>1, <3>1, SubSeqEmpty
      <4> QED
        BY <4>1
    <3>2. CASE Len(buf) - Eaten >= 0
      <4>0. Len(buf) - Eaten \in 0 .. Len(buf)
        <5>1. CASE Eaten = 0
          BY <1>1, <5>1
        <5>2. CASE Eaten = 1
          BY <1>1, <3>2, <5>2
        <5> QED
          BY <1>1, <5>1, <5>2
      <4>1. PICK l \in 0 .. Len(buf) : l = Len(buf) - Eaten
        BY <4>0
      <4>2. buf' \in Seq(Nat) /\ Len(buf') = l /\ \A k \in 1 .. l : buf'[k] = buf[k]
        BY <1>1, <2>1, <4>1, FrontOf
      <4> QED
        BY <1>1, <4>2
    <3> QED
      BY <1>1, <3>1, <3>2
  <2> QED
    BY <1>2, <2>1, <2>2
<1>6. ASSUME NEW n \in 1 .. RECV, Receive(n) PROVE Ragged'
  <2> DEFINE chunk == Bytes(received, received + n)
             s == buf \o chunk
  <2>1. received + n <= Total /\ cuts' = cuts \cup {received + n} /\ n \in Nat \ {0}
    BY <1>1, <1>6 DEF Receive
  <2>2. PICK r \in Nat : r = received + n /\ r = received' /\ r <= Total /\ received < r /\ cuts' = cuts \cup {r}
    BY <1>1, <1>6, <2>1 DEF Receive
  <2>3. Fits(n)
    BY DEF Fits
  <2>4. \/ /\ Ends(chunk) = {} /\ buf' \in Seq(Nat) /\ Len(buf') = Len(buf) + n - Eaten
           /\ \A k \in 1 .. Len(buf') : buf'[k] = s[k]
        \/ buf' = <<>>
    BY <1>6, <2>3, Received
  <2>5. Len(s) = Len(buf) + n
    <3>1. n \in 0 .. n
      BY <2>1
    <3> QED
      BY <2>1, <3>1, ChunkAppends
  <2>6. /\ s \in Seq(Nat)
        /\ \A k \in DOMAIN s : IsText(s[k]) =>
              \/ k \in DOMAIN buf /\ s[k] = buf[k]
              \/ s[k] - 32 \in Nat /\ s[k] - 32 > received
    BY <2>1, TextOf
  <2>7. \A i \in Lines : received < End(i) - 1 /\ End(i) <= r => Ends(chunk) # {}
    BY <2>1, <2>2, PairsOf
  <2>8. /\ Lines' = Lines
        /\ \A i : End(i)' = End(i) /\ WholeEnd(i)' = (End(i) - 1 \notin cuts') /\ WholeEnd(i) = (End(i) - 1 \notin cuts)
    BY DEF Lines, End, WholeEnd
  <2> HIDE DEF s, chunk
  <2> SUFFICES ASSUME NEW k \in DOMAIN buf', NEW i \in Lines, IsText(buf'[k]), buf'[k] - 32 <= End(i), End(i) - 1 <= r
               PROVE  End(i) - 1 \in cuts'
    BY <2>2, <2>8 DEF Ragged
  <2>9. Ends(chunk) = {} /\ buf' \in Seq(Nat) /\ Len(buf') = Len(buf) + n - Eaten
        /\ \A j \in 1 .. Len(buf') : buf'[j] = s[j]
    BY <2>4
  <2>10. k \in DOMAIN s /\ buf'[k] = s[k]
    <3>1. DOMAIN buf' = 1 .. Len(buf') /\ DOMAIN s = 1 .. Len(s) /\ Len(buf') \in Nat
      BY <2>6, <2>9
    <3>2. Len(buf') <= Len(s)
      BY <1>1, <2>1, <2>5, <2>9
    <3> QED
      BY <2>9, <3>1, <3>2
  <2>11. CASE End(i) - 1 = r
    BY <2>2, <2>11
  <2>12. CASE End(i) - 1 = received
    BY <1>1, <2>2, <2>12
  <2>13. CASE End(i) <= received
    <3>1. k \in DOMAIN buf /\ buf[k] = buf'[k]
      <4>1. ~(s[k] - 32 \in Nat /\ s[k] - 32 > received)
        BY <1>1, <2>10, <2>13
      <4> QED
        BY <2>6, <2>10, <4>1
    <3>2. ~WholeEnd(i)
      <4>1. End(i) - 1 <= received
        BY <1>1, <2>13
      <4> QED
        BY <3>1, <4>1 DEF Ragged
    <3> QED
      BY <2>2, <2>8, <3>2
  <2>14. ~(received < End(i) - 1 /\ End(i) <= r)
    BY <2>7, <2>9
  <2>15. End(i) \in Nat
    BY <1>1
  <2> QED
    BY <1>1, <2>2, <2>11, <2>12, <2>13, <2>14, <2>15
<1> QED
  BY <1>4, <1>5, <1>6

\* So a command joins lines only where Ragged says it may.
LEMMA JoinsStep ==
    ASSUME Room, InOrder, ~closed => Ragged, JoinsNeedACut, [FramingNext]_framing_vars
    PROVE  JoinsNeedACut'
<1>1. /\ Stream /\ Total \in Nat /\ received \in Nat /\ received <= Total /\ received \in cuts
      /\ RECV \in Nat /\ Lines = 1 .. Len(ends) /\ Len(ends) \in Nat
      /\ \A i \in Lines : /\ Start(i) \in Nat /\ End(i) \in Nat /\ Length(i) \in Nat
                          /\ End(i) = Start(i) + Length(i) + 2
  BY StreamPlaces, SizesFit DEF Room
<1>2. ASSUME UNCHANGED <<server, ends>>, cuts \subseteq cuts',
             \A h \in ToSet(handled') :
                 \/ h \in ToSet(handled)
                 \/ \A b, c \in BytesOf(h) : \A i \in LineOf(b) .. LineOf(c) - 1 : ~WholeEnd(i)'
      PROVE  JoinsNeedACut'
  <2>1. \A b : LineOf(b)' = LineOf(b)
    BY <1>2 DEF LineOf, Lines, Start, End
  <2>2. \A i : ~WholeEnd(i) => ~WholeEnd(i)'
    BY <1>2 DEF WholeEnd, End
  <2>3. \A h : BytesOf(h)' = BytesOf(h)
    BY DEF BytesOf
  <2> SUFFICES ASSUME NEW h \in ToSet(handled'), NEW b \in BytesOf(h), NEW c \in BytesOf(h),
                      NEW i \in LineOf(b) .. LineOf(c) - 1
               PROVE  ~WholeEnd(i)'
    BY <2>1, <2>3 DEF JoinsNeedACut
  <2>4. h \in ToSet(handled) => ~WholeEnd(i)
    BY DEF JoinsNeedACut
  <2> QED
    BY <1>2, <2>2, <2>4
<1>3. CASE UNCHANGED framing_vars
  <2>1. UNCHANGED <<server, ends, handled, cuts>>
    BY <1>3 DEF framing_vars
  <2> QED
    BY <1>2, <2>1
<1> SUFFICES ASSUME ~closed, UNCHANGED <<server, ends>>,
                    \/ Full /\ TooLong
                    \/ ~Full /\ Ended
                    \/ ~Full /\ \E n \in 1 .. RECV : Receive(n)
             PROVE  JoinsNeedACut'
  BY <1>3, Steps
<1>4. CASE (Full /\ TooLong) \/ (~Full /\ Ended)
  <2>1. UNCHANGED <<handled, cuts>>
    BY <1>4 DEF TooLong, Ended
  <2> QED
    BY <1>2, <2>1
<1>5. ASSUME NEW n \in 1 .. RECV, Receive(n) PROVE JoinsNeedACut'
  <2> DEFINE chunk == Bytes(received, received + n)
  <2>1. received + n <= Total /\ cuts' = cuts \cup {received + n} /\ n \in Nat \ {0}
    BY <1>1, <1>5 DEF Receive
  <2>2. CASE UNCHANGED handled
    BY <1>2, <2>1, <2>2
  <2>3. ASSUME NEW e \in 1 .. n, e \in Ends(chunk), \A j \in Ends(chunk) : e <= j,
               handled' = Append(handled, Words(buf \o Bytes(received, received + (e - 1))))
        PROVE  JoinsNeedACut'
    <3>0. PICK l \in Nat : l = e - 1 /\ l <= n /\ received + l <= Total
      BY <1>1, <2>1
    <3> DEFINE s == buf \o Bytes(received, received + l)
               w == Words(s)
    <3>1. /\ s \in Seq(Nat) /\ Ordered(s)
          /\ \A k \in DOMAIN s : IsText(s[k]) =>
                \/ k \in DOMAIN buf /\ s[k] = buf[k] /\ s[k] <= 32 + received
                \/ /\ s[k] - 32 \in Nat /\ s[k] - 32 > received /\ s[k] - 32 <= received + l
                   /\ Byte(s[k] - 32) = s[k]
      BY <3>0, TextOf
    <3>2. handled' = Append(handled, Words(s))
      BY <2>3, <3>0
    <3> HIDE DEF s
    <3>3. \A h \in ToSet(handled') : h \in ToSet(handled) \/ h = w
      BY <3>1, <3>2, HandledTypes
    <3>4. \A b \in BytesOf(w) : IsText(b) /\ \E k \in DOMAIN s : s[k] = b
      BY <3>1, WordsInOrder
    <3> HIDE DEF w
    <3>5. ASSUME NEW i \in Lines, received < End(i) - 1, End(i) <= received + l PROVE FALSE
      <4>1. PICK j \in 1 .. n : j = End(i) - 1 - received /\ received + j = End(i) - 1 /\ j < e
        <5>1. End(i) \in Nat
          BY <1>1
        <5>2. End(i) - 1 - received \in 1 .. n /\ End(i) - 1 - received < e
          BY <1>1, <3>0, <3>5, <5>1
        <5> QED
          BY <1>1, <5>1, <5>2
      <4>2. j \in Ends(chunk)
        <5>1. CASE server = "joint"
          <6>1. n \in 0 .. n
            BY <2>1
          <6>2. chunk \in Seq(Nat) /\ Len(chunk) = n /\ chunk[j] = Byte(received + j)
            BY <2>1, <6>1, ChunkAppends
          <6>3. Byte(End(i) - 1) = CR
            <7>1. PICK p \in Nat : p = End(i) - 1 /\ Start(i) < p /\ p <= End(i)
              <8>1. /\ Start(i) \in Nat /\ End(i) \in Nat /\ Length(i) \in Nat
                    /\ End(i) = Start(i) + Length(i) + 2
                BY <1>1
              <8> QED
                BY <8>1
            <7> QED
              BY <1>1, <7>1, ByteOf
          <6> HIDE DEF chunk
          <6>4. chunk[j] = CR /\ j \in DOMAIN chunk
            BY <4>1, <6>2, <6>3
          <6> QED
            BY <5>1, <6>4 DEF Ends
        <5>2. CASE server # "joint"
          <6>1. End(i) <= received + n
            BY <1>1, <2>1, <3>0, <3>5
          <6> QED
            BY <2>1, <3>5, <4>1, <5>2, <6>1, PairsOf
        <5> QED
          BY <5>1, <5>2
      <4> QED
        BY <2>3, <4>1, <4>2
    <3>6. ASSUME NEW b \in BytesOf(w)
          PROVE  \E p \in 1 .. Total :
                    /\ b = 32 + p /\ p <= received + l
                    /\ (\E k \in DOMAIN buf : IsText(buf[k]) /\ buf[k] = b) \/ (p > received /\ Byte(p) = 32 + p)
      <4>1. PICK k \in DOMAIN s : s[k] = b /\ IsText(s[k])
        BY <3>4
      <4>2. b \in Nat /\ b > 32
        BY <3>1, <4>1 DEF IsText
      <4>3. PICK p \in Nat : p = b - 32 /\ p > 0 /\ b = 32 + p
        BY <4>2
      <4>4. \/ k \in DOMAIN buf /\ b = buf[k] /\ b <= 32 + received
            \/ p > received /\ p <= received + l /\ Byte(p) = b
        BY <3>1, <4>1, <4>3
      <4>5. p <= received + l /\ p \in 1 .. Total
        BY <1>1, <3>0, <4>3, <4>4
      <4> QED
        BY <4>1, <4>3, <4>4, <4>5
    <3>7. ASSUME NEW b \in BytesOf(w), NEW c \in BytesOf(w), NEW i \in LineOf(b) .. LineOf(c) - 1
          PROVE  ~WholeEnd(i)
      <4>1. PICK p \in 1 .. Total :
                    /\ b = 32 + p /\ p <= received + l
                    /\ (\E k \in DOMAIN buf : IsText(buf[k]) /\ buf[k] = b) \/ (p > received /\ Byte(p) = 32 + p)
        BY <3>6
      <4>2. PICK q \in 1 .. Total : c = 32 + q /\ q <= received + l
        BY <3>6
      <4>3. PICK x \in Lines : x = LineOf(b) /\ p <= End(x)
        BY <1>1, <4>1, LineOfText
      <4>4. PICK y \in Lines : y = LineOf(c) /\ Start(y) < q
        BY <1>1, <4>2, LineOfText
      <4>5. i \in Lines /\ x <= i /\ i < y
        BY <1>1, <4>3, <4>4
      <4>6. End(i) <= Start(y)
        BY <1>1, <4>5, LinesFollow
      <4>7. p <= End(i)
        <5>1. CASE x = i
          BY <4>3, <5>1
        <5>2. CASE x < i
          <6>1. End(x) <= Start(i)
            BY <1>1, <4>5, <5>2, LinesFollow
          <6>2. Start(i) <= End(i) /\ Start(i) \in Nat /\ End(i) \in Nat /\ End(x) \in Nat
            BY <1>1, <4>5
          <6> QED
            BY <4>3, <6>1, <6>2
        <5> QED
          BY <1>1, <4>3, <4>5, <5>1, <5>2
      <4>8. End(i) \in Nat /\ End(i) <= received + l
        <5>1. End(i) \in Nat /\ Start(y) \in Nat
          BY <1>1, <4>5
        <5> QED
          BY <1>1, <3>0, <4>2, <4>4, <4>6, <5>1
      <4>9. End(i) - 1 <= received
        BY <1>1, <3>5, <4>5, <4>8
      <4>10. CASE \E k \in DOMAIN buf : IsText(buf[k]) /\ buf[k] = b
        <5>1. PICK k \in DOMAIN buf : IsText(buf[k]) /\ buf[k] = b
          BY <4>10
        <5>2. buf[k] - 32 = p
          BY <4>1, <5>1
        <5> QED
          BY <4>5, <4>7, <4>9, <5>1, <5>2 DEF Ragged
      <4>11. CASE p > received /\ Byte(p) = 32 + p
        <5>1. p = End(i)
          <6>1. received \in Nat /\ p \in Nat
            BY <1>1
          <6>2. PICK x_1 \in Nat : x_1 = End(i)
            BY <4>8
          <6>3. p <= x_1 /\ x_1 - 1 <= received /\ p > received
            BY <4>7, <4>9, <4>11, <6>2
          <6>4. p = x_1
            BY <6>1, <6>3
          <6> QED
            BY <6>2, <6>4
        <5>2. Start(i) < p /\ p # End(i) - 1 /\ p \in Nat
          <6>1. Start(i) \in Nat /\ Length(i) \in Nat /\ End(i) = Start(i) + Length(i) + 2
            BY <1>1, <4>5
          <6> QED
            BY <4>8, <5>1, <6>1
        <5>3. Byte(p) = IF p = End(i) - 1 THEN CR ELSE IF p = End(i) THEN LF ELSE 32 + p
          BY <1>1, <4>5, <4>7, <5>2, ByteOf
        <5>4. Byte(p) = LF
          BY <5>1, <5>2, <5>3
        <5> QED
          BY <4>11, <5>2, <5>4 DEF LF
      <4> QED
        BY <4>1, <4>10, <4>11
    <3>8. \A i : ~WholeEnd(i) => ~WholeEnd(i)'
      BY <2>1 DEF WholeEnd, End
    <3> QED
      BY <1>2, <2>1, <3>3, <3>7, <3>8
  <2>4. \/ UNCHANGED handled
        \/ \E e \in 1 .. n :
              /\ e \in Ends(chunk) /\ \A j \in Ends(chunk) : e <= j
              /\ handled' = Append(handled, Words(buf \o Bytes(received, received + (e - 1))))
    BY <1>5, Received
  <2> QED
    BY <2>2, <2>3, <2>4
<1> QED
  BY <1>4, <1>5

-----------------------------------------------------------------------------
(***************************************************************************)
(* The properties the model is checked for.                                *)
(***************************************************************************)

\* How much is in buf, whatever a peer sends and however it is cut.
THEOREM RoomInvariance == FramingSpec => []Room
<1> QED
  BY RoomInit, RoomStep, PTL DEF FramingSpec

LEMMA JointInvariance == FramingSpec => []JointInv
<1>1. Room /\ Room' /\ JointInv /\ [FramingNext]_framing_vars => JointInv'
  <2>1. CASE server # "joint"
    BY <2>1 DEF FramingNext, Serve, framing_vars, JointInv
  <2>2. CASE server = "joint"
    BY <2>2, JointStep
  <2> QED
    BY <2>1, <2>2
<1> QED
  BY <1>1, JointInit, RoomInvariance, PTL DEF FramingSpec

(***************************************************************************)
(* Nothing is written behind buf, and a session is closed only for what    *)
(* its peer sent.                                                          *)
(***************************************************************************)
THEOREM FramingIsSafe == FramingSpec => []FramingInv
<1>1. Room /\ JointInv /\ Counted => FramingInv
  <2> SUFFICES ASSUME Room, JointInv, Counted PROVE FramingInv
    OBVIOUS
  <2>1. /\ Total \in Nat /\ received \in 0 .. Total /\ Len(buf) \in Nat /\ cntwrcmd \in Nat /\ Cost \in Nat
        /\ MaxWrong \in Nat
    BY StreamPlaces, SizesFit DEF Room
  <2>2. FramingTypeOK
    BY <2>1 DEF Room, FramingTypeOK, Stream
  <2>3. cntwrcmd * Cost <= received
    <3>1. PICK x \in Nat : x = cntwrcmd * Cost
      BY <2>1
    <3>2. x + Len(buf) <= received
      BY <3>1 DEF Room
    <3> QED
      BY <2>1, <3>1, <3>2
  <2>4. ErrorsArePaid
    BY <2>3 DEF ErrorsArePaid, Cost, JointInv, Counted
  <2> QED
    BY <2>2, <2>4 DEF FramingInv
<1>2. Room /\ Counted /\ [FramingNext]_framing_vars => Counted'
  BY CountedStep
<1>3. FramingInit => Room /\ Counted
  BY RoomInit, CountedInit
<1>4. FramingSpec => []Counted
  BY <1>2, <1>3, RoomInvariance, PTL DEF FramingSpec
<1> QED
  BY <1>1, <1>4, RoomInvariance, JointInvariance, PTL

(***************************************************************************)
(* A line that its server promises to take reaches the handler whole.      *)
(***************************************************************************)
THEOREM CleanLines == FramingSpec => []CleanLinesArrive
<1>1. Room /\ FreshInv /\ [FramingNext]_framing_vars => FreshInv'
  <2>1. CASE server = "joint"
    BY <2>1 DEF FramingNext, Serve, framing_vars, FreshInv
  <2>2. CASE server # "joint"
    BY <2>2, FreshStep
  <2> QED
    BY <2>1, <2>2
<1>2. JointInv /\ FreshInv => CleanLinesArrive
  BY DEF JointInv, FreshInv
<1> QED
  BY <1>1, <1>2, FreshInit, RoomInvariance, JointInvariance, PTL DEF FramingSpec

LEMMA InOrderInvariance == FramingSpec => []InOrder
<1> QED
  BY InOrderInit, InOrderStep, RoomInvariance, PTL DEF FramingSpec

(***************************************************************************)
(* No byte is given to the handler twice or out of its turn.               *)
(***************************************************************************)
THEOREM BytesStayInOrder == FramingSpec => []BytesInOrder
<1>1. InOrder => BytesInOrder
  BY DEF InOrder
<1> QED
  BY <1>1, InOrderInvariance, PTL

(***************************************************************************)
(* Lines become one command only across a CR LF that was cut.              *)
(***************************************************************************)
THEOREM JoinsOnlyAtACut == FramingSpec => []JoinsNeedACut
<1>1. FramingInit => JoinsInv
  <2> SUFFICES ASSUME FramingInit PROVE JoinsInv
    OBVIOUS
  <2>1. DOMAIN buf = {} /\ ToSet(handled) = {}
    BY DEF FramingInit, ToSet
  <2> QED
    BY <2>1 DEF JoinsInv, Ragged, JoinsNeedACut
<1>2. Room /\ Room' /\ JointInv' /\ InOrder /\ JoinsInv /\ [FramingNext]_framing_vars => JoinsInv'
  <2> SUFFICES ASSUME Room, Room', JointInv', InOrder, JoinsInv, [FramingNext]_framing_vars PROVE JoinsInv'
    OBVIOUS
  <2>1. JoinsNeedACut'
    BY JoinsStep DEF JoinsInv
  <2>2. ~closed' => Ragged'
    <3>1. CASE server' = "joint"
      BY <3>1, JointRaggedNext
    <3>2. CASE server' # "joint"
      <4>1. server' = server /\ (closed => UNCHANGED framing_vars)
        BY DEF FramingNext, Serve, framing_vars
      <4>2. CASE closed
        BY <4>1, <4>2 DEF framing_vars
      <4>3. CASE ~closed
        BY <3>2, <4>1, <4>3, RaggedStep DEF JoinsInv
      <4> QED
        BY <4>2, <4>3
    <3> QED
      BY <3>1, <3>2
  <2> QED
    BY <2>1, <2>2 DEF JoinsInv
<1>3. JoinsInv => JoinsNeedACut
  BY DEF JoinsInv
<1> QED
  BY <1>1, <1>2, <1>3, RoomInvariance, JointInvariance, InOrderInvariance, PTL DEF FramingSpec
=============================================================================
