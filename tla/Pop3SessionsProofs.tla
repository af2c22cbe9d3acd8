------------------------ MODULE Pop3SessionsProofs ------------------------
(***************************************************************************)
(* Proofs about Pop3Sessions, for every number of users, messages and      *)
(* clients and every set of command lines.                                 *)
(*                                                                         *)
(* HeldByOneSession is not inductive alone: that USER takes a mailbox      *)
(* nobody holds follows only from LockedIffHeld, which in turn needs       *)
(* HeldByOneSession when a session releases its mailbox.  MarksNeed-       *)
(* Transaction needs both, and what updatemailbox does to a mailbox needs  *)
(* SummIsTotal.  IInv is their conjunction.                                *)
(***************************************************************************)
EXTENDS Pop3Sessions, VectorProofs

IInv ==
    /\ TypeOK
    /\ HeldByOneSession
    /\ LockedIffHeld
    /\ MarksNeedTransaction
    /\ TransactionHoldsMailbox
    /\ SummIsTotal

-----------------------------------------------------------------------------
(***************************************************************************)
(* What the methods of Person do to a mailbox, for every number of users   *)
(* and messages.                                                           *)
(***************************************************************************)

\* The length of a message is a natural number.
LEMMA LengthType == ASSUME NEW u \in Users PROVE Length(u) \in Nat
  BY MailboxAssumption DEF Users, Length, Digits

(***************************************************************************)
(* A mailbox whose summ is the total of its messages stays such a mailbox  *)
(* under updatemailbox, which leaves no mark.                              *)
(***************************************************************************)
Totalled(u, p) == p.summ = Len(p.messages) * Length(u)
NoMarks(p)     == \A i \in DOMAIN p.messages : ~p.messages[i].del

\* updatemailbox keeps summ in step and leaves no mark (lines 57-69).
LEMMA UpdateProperties ==
    ASSUME NEW u \in Users, NEW p \in Person, Totalled(u, p)
    PROVE  /\ updatemailbox(u, p) \in Person
           /\ Totalled(u, updatemailbox(u, p))
           /\ NoMarks(updatemailbox(u, p))
           /\ updatemailbox(u, p).used = p.used
           /\ updatemailbox(u, p).messages = Kept(p.messages)
<1> DEFINE s == p.messages
           q == updatemailbox(u, p)
<1>1. s \in Seq(Message) /\ p.summ \in Nat /\ p.used \in BOOLEAN
  BY DEF Person
<1>2. /\ Kept(s) \in Seq(Message)
      /\ Len(Kept(s)) \in Nat
      /\ \A n \in DOMAIN Kept(s) : ~Kept(s)[n].del
  BY <1>1, KeptProperties
<1>3. /\ q.messages = Kept(s)
      /\ q.summ = p.summ - (Len(s) - Len(Kept(s))) * Length(u)
      /\ q.used = p.used
      /\ q = [messages |-> q.messages, summ |-> q.summ, used |-> q.used]
  <2> DEFINE m == Kept(s)
             n == p.summ - (Len(s) - Len(Kept(s))) * Length(u)
  <2>1. q = [p EXCEPT !.messages = m, !.summ = n]
    BY DEF updatemailbox
  <2> HIDE DEF m, n, q
  <2>2. q = [messages |-> m, summ |-> n, used |-> p.used]
    BY <2>1 DEF Person
  <2>3. q.messages = m /\ q.summ = n /\ q.used = p.used
    BY <2>2
  <2> QED
    BY <2>2, <2>3 DEF m, n
<1>4. \A a, b, l \in Nat : a * l - (a - b) * l = b * l /\ b * l \in Nat
  OBVIOUS
<1>5. q.summ = Len(Kept(s)) * Length(u) /\ q.summ \in Nat
  <2>1. p.summ = Len(s) * Length(u)
    BY DEF Totalled
  <2>2. Len(s) \in Nat /\ Length(u) \in Nat
    BY <1>1, LengthType
  <2> HIDE DEF s, q
  <2> QED
    BY <1>2, <1>3, <1>4, <2>1, <2>2
<1> QED
  BY <1>1, <1>2, <1>3, <1>5 DEF Person, Totalled, NoMarks

\* Locking and unlocking touch only the flag used.
LEMMA UnusedProperties ==
    ASSUME NEW p \in Person
    PROVE  /\ unused(p) \in Person /\ taken(p) \in Person
           /\ ~unused(p).used /\ taken(p).used
           /\ unused(p).messages = p.messages /\ taken(p).messages = p.messages
           /\ unused(p).summ = p.summ /\ taken(p).summ = p.summ
  BY DEF Person, unused, taken

\* Marking a message touches neither the lock nor the sizes.
LEMMA LabelledProperties ==
    ASSUME NEW p \in Person, NEW k \in Int, HasMessage(p, k)
    PROVE  /\ Labelled(p, k) \in Person
           /\ Labelled(p, k).used = p.used
           /\ Labelled(p, k).summ = p.summ
           /\ Len(Labelled(p, k).messages) = Len(p.messages)
<1> DEFINE s == p.messages
           t == [s EXCEPT ![k] = [s[k] EXCEPT !.del = TRUE]]
<1>1. s \in Seq(Message) /\ Len(s) \in Nat /\ k \in 1 .. Len(s)
  BY DEF Person, HasMessage
<1>2. s[k] \in Message
  BY <1>1
<1>3. [s[k] EXCEPT !.del = TRUE] \in Message
  BY <1>2 DEF Message
<1>4. t \in Seq(Message) /\ Len(t) = Len(s)
  BY <1>1, <1>3
<1>5. Labelled(p, k) = [p EXCEPT !.messages = t]
  BY DEF Labelled
<1> HIDE DEF t
<1>6. Labelled(p, k) = [messages |-> t, summ |-> p.summ, used |-> p.used]
  BY <1>5 DEF Person
<1> QED
  BY <1>4, <1>6 DEF Person

\* deletealllabels leaves no mark, and only takes marks away.
LEMMA DeleteLabelsProperties ==
    ASSUME NEW p \in Person
    PROVE  /\ deletealllabels(p) \in Person
           /\ deletealllabels(p).used = p.used
           /\ deletealllabels(p).summ = p.summ
           /\ Len(deletealllabels(p).messages) = Len(p.messages)
           /\ NoMarks(deletealllabels(p))
<1> DEFINE s == p.messages
           t == [k \in DOMAIN s |-> [s[k] EXCEPT !.del = FALSE]]
<1>1. s \in Seq(Message) /\ Len(s) \in Nat /\ DOMAIN s = 1 .. Len(s)
  BY DEF Person
<1>2. t \in [1 .. Len(s) -> Message] /\ \A k \in 1 .. Len(s) : ~t[k].del
  <2>1. ASSUME NEW k \in 1 .. Len(s)
        PROVE  [s[k] EXCEPT !.del = FALSE] \in Message /\ ~[s[k] EXCEPT !.del = FALSE].del
    <3>1. s[k] \in Message
      BY <1>1
    <3> QED
      BY <3>1 DEF Message
  <2> QED
    BY <1>1, <2>1
<1>3. t \in Seq(Message) /\ Len(t) = Len(s) /\ DOMAIN t = 1 .. Len(s)
  BY <1>1, <1>2
<1>4. deletealllabels(p) = [p EXCEPT !.messages = t]
  BY DEF deletealllabels
<1> HIDE DEF t
<1>5. deletealllabels(p) = [messages |-> t, summ |-> p.summ, used |-> p.used]
  BY <1>4 DEF Person
<1> QED
  BY <1>2, <1>3, <1>5 DEF Person, NoMarks

\* UsersInit makes free mailboxes without marks, summ in step.
LEMMA NewPersonProperties ==
    ASSUME NEW u \in Users, NEW t \in 0 .. MaxMessages
    PROVE  /\ NewPerson(u, t) \in Person
           /\ Totalled(u, NewPerson(u, t))
           /\ NoMarks(NewPerson(u, t))
           /\ ~NewPerson(u, t).used
<1> DEFINE s == [k \in 1 .. t |-> [st |-> <<u, k - 1>>, del |-> FALSE]]
<1>1. t \in Nat /\ u \in Users
  BY MailboxAssumption
<1>2. s \in [1 .. t -> Message] /\ \A k \in 1 .. t : ~s[k].del
  BY <1>1 DEF Message, Text
<1>3. s \in Seq(Message) /\ Len(s) = t /\ DOMAIN s = 1 .. t
  BY <1>1, <1>2
<1>4. \A a, b \in Nat : a * b \in Nat
  OBVIOUS
<1>5. t * Length(u) \in Nat
  BY <1>1, <1>4, LengthType
<1> HIDE DEF s
<1>6. NewPerson(u, t) = [messages |-> s, summ |-> t * Length(u), used |-> FALSE]
  BY DEF NewPerson, s
<1> QED
  BY <1>2, <1>3, <1>5, <1>6 DEF Person, Totalled, NoMarks

(***************************************************************************)
(* What the return values of the methods tell.                             *)
(***************************************************************************)
LEMMA LoginFree ==
    ASSUME NEW p, NEW matches \in BOOLEAN, p.used \in BOOLEAN, login(p, matches) = 1
    PROVE  matches /\ ~p.used
<1>1. CASE ~matches
  BY <1>1 DEF login
<1>2. CASE matches /\ p.used
  BY <1>2 DEF login
<1> QED
  BY <1>1, <1>2

\* setlabeldel() returns 1 only for a message that exists.
LEMMA LabelledExists ==
    ASSUME NEW p, NEW k, setlabeldel(p, k) = 1
    PROVE  HasMessage(p, k)
<1>1. CASE ~HasMessage(p, k)
  BY <1>1 DEF setlabeldel
<1> QED
  BY <1>1

\* showmessage() of an existing message is the text of one.
LEMMA ShownType ==
    ASSUME NEW p \in Person, NEW k \in Int, HasMessage(p, k)
    PROVE  showmessage(p, k) \in Text
<1>1. p.messages \in Seq(Message) /\ k \in 1 .. Len(p.messages)
  BY DEF Person, HasMessage
<1>2. p.messages[k] \in Message
  BY <1>1
<1> QED
  BY <1>2 DEF Message, showmessage

-----------------------------------------------------------------------------
(***************************************************************************)
(* The messages of a mailbox are told apart by their texts: those of u are *)
(* <<u, k>> with k increasing along the mailbox.                           *)
(***************************************************************************)
Numbered(u, p) ==
    /\ \A i \in DOMAIN p.messages : p.messages[i].st \in {u} \X (0 .. MaxMessages - 1)
    /\ \A i, j \in DOMAIN p.messages : i < j => p.messages[i].st[2] < p.messages[j].st[2]

\* Two messages of a mailbox never have the same text.
LEMMA TextsDiffer ==
    ASSUME NEW p \in Person, NEW u, Numbered(u, p),
           NEW i \in DOMAIN p.messages, NEW j \in DOMAIN p.messages,
           p.messages[i].st = p.messages[j].st
    PROVE  i = j
<1>1. i \in Nat /\ j \in Nat
  BY DEF Person
<1>2. \A k \in DOMAIN p.messages : p.messages[k].st[2] \in Nat
  BY MailboxAssumption DEF Numbered
<1>3. ~(i < j) /\ ~(j < i)
  BY <1>2 DEF Numbered
<1> QED
  BY <1>1, <1>3

\* UsersInit numbers the messages of a mailbox from 0.
LEMMA NewPersonNumbered ==
    ASSUME NEW u \in Users, NEW t \in 0 .. MaxMessages
    PROVE  Numbered(u, NewPerson(u, t))
<1>1. t \in Nat /\ MaxMessages \in Nat
  BY MailboxAssumption
<1>2. /\ DOMAIN NewPerson(u, t).messages = 1 .. t
      /\ \A k \in 1 .. t : NewPerson(u, t).messages[k].st = <<u, k - 1>>
  BY DEF NewPerson
<1>3. \A k \in 1 .. t : k - 1 \in 0 .. MaxMessages - 1
  BY <1>1
<1> DEFINE s == NewPerson(u, t).messages
<1> HIDE DEF s
<1>4. \A k \in 1 .. t : s[k].st \in {u} \X (0 .. MaxMessages - 1)
  <2> TAKE k \in 1 .. t
  <2>1. s[k].st = <<u, k - 1>> /\ k - 1 \in 0 .. MaxMessages - 1
    BY <1>2, <1>3 DEF s
  <2> QED
    BY <2>1
<1>5. \A k \in 1 .. t : s[k].st[2] = k - 1
  <2> TAKE k \in 1 .. t
  <2>1. s[k].st = <<u, k - 1>>
    BY <1>2 DEF s
  <2> QED
    BY <2>1
<1>6. DOMAIN s = 1 .. t
  BY <1>2 DEF s
<1>7. \A i, j \in 1 .. t : i < j => s[i].st[2] < s[j].st[2]
  BY <1>1, <1>5
<1> QED
  BY <1>4, <1>6, <1>7 DEF Numbered, s

\* A mailbox with the same texts is numbered too.
LEMMA SameNumbers ==
    ASSUME NEW p, NEW q, NEW u, Numbered(u, p),
           DOMAIN q.messages = DOMAIN p.messages,
           \A i \in DOMAIN p.messages : q.messages[i].st = p.messages[i].st
    PROVE  Numbered(u, q)
  BY DEF Numbered

(***************************************************************************)
(* The texts in a mailbox, those that are marked, and what each method     *)
(* does to the two sets.                                                   *)
(***************************************************************************)
TextsIn(p)  == {p.messages[i].st : i \in DOMAIN p.messages}
MarksIn(p)  == {i \in DOMAIN p.messages : p.messages[i].del}
MarkedIn(p) == {p.messages[i].st : i \in MarksIn(p)}

\* DELE marks one message and leaves the texts as they are.
LEMMA LabelledTexts ==
    ASSUME NEW p \in Person, NEW k \in Int, HasMessage(p, k)
    PROVE  /\ k \in DOMAIN p.messages
           /\ DOMAIN Labelled(p, k).messages = DOMAIN p.messages
           /\ \A i \in DOMAIN p.messages :
                 /\ Labelled(p, k).messages[i].st = p.messages[i].st
                 /\ Labelled(p, k).messages[i].del = IF i = k THEN TRUE ELSE p.messages[i].del
           /\ TextsIn(Labelled(p, k)) = TextsIn(p)
           /\ MarksIn(Labelled(p, k)) = MarksIn(p) \cup {k}
           /\ MarkedIn(Labelled(p, k)) = MarkedIn(p) \cup {p.messages[k].st}
<1> DEFINE s == p.messages
           m == [s[k] EXCEPT !.del = TRUE]
           t == [s EXCEPT ![k] = m]
<1>1. s \in Seq(Message) /\ Len(s) \in Nat /\ k \in 1 .. Len(s) /\ DOMAIN s = 1 .. Len(s)
  BY DEF Person, HasMessage
<1>2. s[k] \in Message
  BY <1>1
<1>3. m.st = s[k].st /\ m.del = TRUE
  BY <1>2 DEF Message
<1>4. Labelled(p, k) = [p EXCEPT !.messages = t]
  BY DEF Labelled
<1> HIDE DEF m
<1>5. DOMAIN t = DOMAIN s /\ \A i \in DOMAIN s : t[i] = IF i = k THEN m ELSE s[i]
  BY <1>1
<1> HIDE DEF t
<1>6. Labelled(p, k).messages = t
  BY <1>4 DEF Person
<1>7. \A i \in DOMAIN s : t[i].st = s[i].st /\ t[i].del = IF i = k THEN TRUE ELSE s[i].del
  BY <1>3, <1>5
<1> HIDE DEF s
<1>8. TextsIn(Labelled(p, k)) = TextsIn(p)
  BY <1>5, <1>6, <1>7 DEF TextsIn, s
<1>9. MarksIn(Labelled(p, k)) = MarksIn(p) \cup {k}
  BY <1>1, <1>5, <1>6, <1>7 DEF MarksIn, s
<1>10. MarkedIn(Labelled(p, k)) = MarkedIn(p) \cup {s[k].st}
  <2>1. \A i \in MarksIn(p) \cup {k} : i \in DOMAIN s /\ t[i].st = s[i].st
    BY <1>1, <1>7 DEF MarksIn, s
  <2> QED
    BY <1>6, <1>9, <2>1 DEF MarkedIn, s
<1> QED
  BY <1>1, <1>5, <1>6, <1>7, <1>8, <1>9, <1>10 DEF s

\* RSET takes every mark away and leaves the texts as they are.
LEMMA ResetTexts ==
    ASSUME NEW p \in Person
    PROVE  /\ DOMAIN deletealllabels(p).messages = DOMAIN p.messages
           /\ \A i \in DOMAIN p.messages :
                 deletealllabels(p).messages[i].st = p.messages[i].st
           /\ TextsIn(deletealllabels(p)) = TextsIn(p)
           /\ MarkedIn(deletealllabels(p)) = {}
<1> DEFINE s == p.messages
           t == [k \in DOMAIN s |-> [s[k] EXCEPT !.del = FALSE]]
<1>1. s \in Seq(Message) /\ DOMAIN s = 1 .. Len(s)
  BY DEF Person
<1>2. \A k \in DOMAIN s : s[k] \in Message
  BY <1>1
<1>3. deletealllabels(p) = [p EXCEPT !.messages = t]
  BY DEF deletealllabels
<1>4. DOMAIN t = DOMAIN s /\ \A k \in DOMAIN s : t[k].st = s[k].st
  BY <1>2 DEF Message
<1> HIDE DEF t
<1>5. deletealllabels(p).messages = t
  BY <1>3 DEF Person
<1>6. MarkedIn(deletealllabels(p)) = {}
  <2>1. MarksIn(deletealllabels(p)) = {}
    BY DeleteLabelsProperties DEF NoMarks, MarksIn
  <2> QED
    BY <2>1 DEF MarkedIn
<1> QED
  BY <1>4, <1>5, <1>6 DEF TextsIn

\* What is left of a numbered mailbox is numbered, and has the unmarked texts.
LEMMA UpdateTexts ==
    ASSUME NEW u \in Users, NEW p \in Person, Totalled(u, p), Numbered(u, p)
    PROVE  /\ Numbered(u, updatemailbox(u, p))
           /\ TextsIn(updatemailbox(u, p)) = TextsIn(p) \ MarkedIn(p)
<1> DEFINE s == p.messages
           t == Kept(s)
<1>1. s \in Seq(Message) /\ DOMAIN s = 1 .. Len(s)
  BY DEF Person
<1>2. updatemailbox(u, p).messages = t
  BY UpdateProperties
<1>3. PICK place \in [DOMAIN t -> Unmarked(s)] :
              /\ \A k \in Unmarked(s) : \E n \in DOMAIN t : place[n] = k
              /\ \A m, n \in DOMAIN t : m < n => place[m] < place[n]
              /\ \A n \in DOMAIN t : t[n] = s[place[n]]
  BY <1>1, KeptOrder
<1>4. \A i : i \in Unmarked(s) <=> i \in DOMAIN s /\ ~s[i].del
  BY <1>1 DEF Unmarked
<1> HIDE DEF s, t
<1>5. \A n \in DOMAIN t : place[n] \in DOMAIN s /\ ~s[place[n]].del /\ t[n].st = s[place[n]].st
  BY <1>3, <1>4
<1>6. Numbered(u, updatemailbox(u, p))
  BY <1>2, <1>3, <1>5 DEF Numbered, s
<1>7. Distinct(s)
  BY TextsDiffer DEF Distinct, s
<1>8. AllTexts(t) = AllTexts(s) \ DelTexts(s)
  BY <1>1, <1>7, KeptTexts DEF t
<1>9. TextsIn(updatemailbox(u, p)) = TextsIn(p) \ MarkedIn(p)
  BY <1>2, <1>8 DEF AllTexts, DelTexts, TextsIn, MarkedIn, MarksIn, s
<1> QED
  BY <1>6, <1>9

-----------------------------------------------------------------------------
(***************************************************************************)
(* What the commands do to the sessions.                                   *)
(***************************************************************************)

\* A +OK reply is a Reply that keeps the connection.
LEMMA OkType ==
    ASSUME NEW c \in Clients, NEW text \in Wordings,
           NEW nums \in Seq(Int), NEW body \in Seq(Int \X Int)
    PROVE  Ok(c, text, nums, body) \in Reply /\ Ok(c, text, nums, body).q = 1
  BY DEF Ok, Reply

\* An -ERR reply is a Reply that keeps the connection.
LEMMA ErrType ==
    ASSUME NEW c \in Clients, NEW text \in Wordings
    PROVE  Err(c, text) \in Reply /\ Err(c, text).q = 1
<1>1. <<>> \in Seq(Int) /\ <<>> \in Seq(Int \X Int)
  OBVIOUS
<1> QED
  BY <1>1 DEF Err, Reply

\* The reply to QUIT is a Reply that closes the connection.
LEMMA ByeType ==
    ASSUME NEW c \in Clients
    PROVE  Bye(c) \in Reply /\ Bye(c).q = 0
<1>1. <<>> \in Seq(Int) /\ <<>> \in Seq(Int \X Int)
  OBVIOUS
<1> QED
  BY <1>1 DEF Bye, Reply, Wordings

\* What the invariant says of the mailbox an open session holds.
LEMMA HolderFacts ==
    ASSUME IInv, NEW c \in s_sock, user[c] # -1
    PROVE  /\ c \in Clients /\ user[c] \in Users
           /\ Massive[user[c]] \in Person
           /\ Massive[user[c]].used
           /\ Totalled(user[c], Massive[user[c]])
           /\ \A d \in s_sock : user[d] = user[c] => d = c
<1>1. c \in Clients /\ user[c] \in Users
  BY DEF IInv, TypeOK
<1>2. c \in Holders(user[c])
  BY DEF Holders
<1>3. Massive[user[c]].used
  BY <1>1, <1>2 DEF IInv, LockedIffHeld
<1>4. \A d \in s_sock : user[d] = user[c] => d = c
  BY <1>1, <1>2 DEF IInv, HeldByOneSession, Holders
<1>5. Massive[user[c]] \in Person
  BY <1>1 DEF IInv, TypeOK
<1>6. Totalled(user[c], Massive[user[c]])
  BY <1>1 DEF IInv, SummIsTotal, Totalled
<1> QED
  BY <1>1, <1>3, <1>4, <1>5, <1>6

(***************************************************************************)
(* A mailbox with marks is one of a session in TRANSACTION.                *)
(***************************************************************************)
LEMMA MarkFree ==
    ASSUME IInv, NEW u \in Users,
           ~\E c \in s_sock : user[c] = u /\ state[c] = "TRANSACTION"
    PROVE  NoMarks(Massive[u])
<1>1. Marked(u) = {}
  BY DEF IInv, MarksNeedTransaction, Holders
<1> QED
  BY <1>1 DEF Marked, NoMarks

-----------------------------------------------------------------------------
(***************************************************************************)
(* Steps that change nothing but the reply.                                *)
(***************************************************************************)
LEMMA AnswerStep ==
    ASSUME IInv, UNCHANGED <<Massive, user, state, s_sock>>, result' \in Reply
    PROVE  IInv'
<1>1. TypeOK'
  BY DEF IInv, TypeOK
<1>2. \A u : Holders(u)' = Holders(u) /\ Marked(u)' = Marked(u)
  BY DEF Holders, Marked
<1>3. HeldByOneSession' /\ LockedIffHeld'
  BY <1>2 DEF IInv, HeldByOneSession, LockedIffHeld
<1>4. MarksNeedTransaction' /\ TransactionHoldsMailbox' /\ SummIsTotal'
  BY <1>2 DEF IInv, MarksNeedTransaction, TransactionHoldsMailbox, SummIsTotal
<1> QED
  BY <1>1, <1>3, <1>4 DEF IInv

(***************************************************************************)
(* Steps of a session in TRANSACTION that change only its mailbox.         *)
(***************************************************************************)
LEMMA HolderStep ==
    ASSUME IInv, NEW c \in s_sock, state[c] = "TRANSACTION",
           NEW p \in Person, p.used, Totalled(user[c], p),
           Massive' = [Massive EXCEPT ![user[c]] = p],
           UNCHANGED <<user, state, s_sock>>, result' \in Reply
    PROVE  IInv'
<1>1. user[c] \in Users /\ user[c] # -1
  BY DEF IInv, TransactionHoldsMailbox, Users
<1>2. Massive \in [Users -> Person]
  BY DEF IInv, TypeOK
<1>3. TypeOK'
  BY <1>1, <1>2 DEF IInv, TypeOK
<1>4. \A u \in Users : Massive'[u] = IF u = user[c] THEN p ELSE Massive[u]
  BY <1>1, <1>2
<1>5. \A u : Holders(u)' = Holders(u)
  BY DEF Holders
<1>6. HeldByOneSession'
  BY <1>5 DEF IInv, HeldByOneSession
<1>7. Massive[user[c]].used
  BY <1>1, HolderFacts
<1>8. LockedIffHeld'
  BY <1>4, <1>5, <1>7 DEF IInv, LockedIffHeld
<1>9. MarksNeedTransaction'
  <2> SUFFICES ASSUME NEW u \in Users, Marked(u)' # {}
               PROVE  \E d \in Holders(u)' : state'[d] = "TRANSACTION"
    BY DEF MarksNeedTransaction
  <2>1. CASE u = user[c]
    BY <2>1 DEF Holders
  <2>2. CASE u # user[c]
    <3>1. Marked(u) # {}
      BY <2>2, <1>4 DEF Marked
    <3> QED
      BY <3>1, <1>5 DEF IInv, MarksNeedTransaction
  <2> QED
    BY <2>1, <2>2
<1>10. TransactionHoldsMailbox'
  BY DEF IInv, TransactionHoldsMailbox
<1>11. SummIsTotal'
  BY <1>1, <1>4 DEF IInv, SummIsTotal, Totalled
<1> QED
  BY <1>3, <1>6, <1>8, <1>9, <1>10, <1>11 DEF IInv

-----------------------------------------------------------------------------
(***************************************************************************)
(* Steps in which session c lets go of the mailbox it holds, if any, which *)
(* is left as p, and closes.                                               *)
(***************************************************************************)
LEMMA QuitStep ==
    ASSUME IInv, NEW c \in s_sock, QUIT(c, <<>>), s_sock' = s_sock \ {c}
    PROVE  IInv'
<1> DEFINE held(u) == user[c] # -1 /\ u = user[c]
           p == unused(updatemailbox(user[c], Massive[user[c]]))
<1>1. /\ state' = [state EXCEPT ![c] = "UPDATE"]
      /\ result' = Bye(c)
      /\ Epilogue(c)
      /\ user' = user
  BY DEF QUIT, Answer
<1>2. c \in Clients /\ Massive \in [Users -> Person] /\ state \in [Clients -> States]
      /\ user[c] \in Users \cup {-1} /\ s_sock \subseteq Clients
  BY DEF IInv, TypeOK
<1>3. ASSUME user[c] # -1
      PROVE  p \in Person /\ ~p.used /\ Totalled(user[c], p) /\ NoMarks(p)
  <2> DEFINE r == updatemailbox(user[c], Massive[user[c]])
  <2>1. r \in Person /\ Totalled(user[c], r) /\ NoMarks(r)
    BY <1>3, HolderFacts, UpdateProperties
  <2> HIDE DEF r
  <2>2. unused(r) \in Person /\ ~unused(r).used
        /\ unused(r).messages = r.messages /\ unused(r).summ = r.summ
    BY <2>1, UnusedProperties
  <2>3. Totalled(user[c], unused(r)) /\ NoMarks(unused(r))
    BY <2>1, <2>2 DEF Totalled, NoMarks
  <2> QED
    BY <2>2, <2>3 DEF r
<1> HIDE DEF p
<1>4. \A u \in Users : Massive'[u] = IF held(u) THEN p ELSE Massive[u]
  BY <1>1, <1>2 DEF Epilogue, p
<1>5. Massive' \in [Users -> Person]
  BY <1>1, <1>2, <1>3 DEF Epilogue, p
<1>6. TypeOK'
  <2>1. state' \in [Clients -> States]
    BY <1>1, <1>2 DEF States
  <2>2. result' \in Reply
    BY <1>1, <1>2, ByeType
  <2> QED
    BY <1>1, <1>2, <1>5, <2>1, <2>2 DEF IInv, TypeOK
<1>7. \A u : Holders(u)' = Holders(u) \ {c}
  BY <1>1 DEF Holders
<1>8. HeldByOneSession'
  BY <1>7 DEF IInv, HeldByOneSession
<1>9. LockedIffHeld'
  <2> SUFFICES ASSUME NEW u \in Users
               PROVE  Massive'[u].used <=> Holders(u)' # {}
    BY DEF LockedIffHeld
  <2>1. CASE held(u)
    <3>1. Holders(u)' = {}
      BY <1>1, <2>1, HolderFacts DEF Holders
    <3> QED
      BY <1>3, <1>4, <2>1, <3>1
  <2>2. CASE ~held(u)
    <3>1. c \notin Holders(u)
      BY <2>2 DEF Holders, Users
    <3> QED
      BY <1>4, <1>7, <2>2, <3>1 DEF IInv, LockedIffHeld
  <2> QED
    BY <2>1, <2>2
<1>10. MarksNeedTransaction'
  <2> SUFFICES ASSUME NEW u \in Users, Marked(u)' # {}
               PROVE  \E d \in Holders(u)' : state'[d] = "TRANSACTION"
    BY DEF MarksNeedTransaction
  <2>1. ~held(u)
    BY <1>3, <1>4 DEF Marked, NoMarks
  <2>2. Marked(u) # {}
    BY <1>4, <2>1 DEF Marked
  <2>3. PICK d \in Holders(u) : state[d] = "TRANSACTION"
    BY <2>2 DEF IInv, MarksNeedTransaction
  <2>4. d # c /\ d \in Clients
    BY <1>2, <2>1, <2>3 DEF Holders, Users
  <2> QED
    BY <1>1, <1>2, <1>7, <2>3, <2>4
<1>11. TransactionHoldsMailbox'
  <2>1. \A d \in s_sock' : state'[d] = state[d] /\ d \in s_sock
    BY <1>1, <1>2
  <2> QED
    BY <1>1, <2>1 DEF IInv, TransactionHoldsMailbox
<1>12. SummIsTotal'
  BY <1>3, <1>4 DEF IInv, SummIsTotal, Totalled
<1> QED
  BY <1>6, <1>8, <1>9, <1>10, <1>11, <1>12 DEF IInv

(***************************************************************************)
(* USER takes a free mailbox and releases the one held before.             *)
(***************************************************************************)
LEMMA TakeStep ==
    ASSUME IInv, NEW c \in s_sock, NEW u \in Users,
           state[c] = "AUTHORIZATION",
           ~Massive[u].used,
           Massive' = Relogin(c, u),
           user' = [user EXCEPT ![c] = u],
           UNCHANGED <<state, s_sock>>, result' \in Reply
    PROVE  IInv'
<1>1. c \in Clients /\ Massive \in [Users -> Person] /\ user \in [Clients -> Users \cup {-1}]
      /\ s_sock \subseteq Clients
  BY DEF IInv, TypeOK
<1>2. Holders(u) = {} /\ user[c] # u
  BY DEF IInv, LockedIffHeld, Holders
<1>3. \A v \in Users :
         /\ Massive'[v] \in Person
         /\ Massive'[v].messages = Massive[v].messages
         /\ Massive'[v].summ = Massive[v].summ
         /\ Massive'[v].used = IF v = user[c] THEN FALSE
                               ELSE IF v = u THEN TRUE ELSE Massive[v].used
  <2> SUFFICES ASSUME NEW v \in Users
               PROVE  /\ Massive'[v] \in Person
                      /\ Massive'[v].messages = Massive[v].messages
                      /\ Massive'[v].summ = Massive[v].summ
                      /\ Massive'[v].used = IF v = user[c] THEN FALSE
                                            ELSE IF v = u THEN TRUE ELSE Massive[v].used
    OBVIOUS
  <2>1. Massive'[v] = IF v = user[c] THEN unused(Massive[v])
                      ELSE IF v = u THEN taken(Massive[v]) ELSE Massive[v]
    BY DEF Relogin
  <2>2. Massive[v] \in Person
    BY <1>1
  <2>3. /\ unused(Massive[v]) \in Person /\ taken(Massive[v]) \in Person
        /\ unused(Massive[v]).used = FALSE /\ taken(Massive[v]).used = TRUE
        /\ unused(Massive[v]).messages = Massive[v].messages
        /\ taken(Massive[v]).messages = Massive[v].messages
        /\ unused(Massive[v]).summ = Massive[v].summ
        /\ taken(Massive[v]).summ = Massive[v].summ
    BY <2>2 DEF Person, unused, taken
  <2> QED
    BY <2>1, <2>2, <2>3
<1>4. Massive' \in [Users -> Person]
  BY <1>3 DEF Relogin
<1>5. TypeOK'
  BY <1>1, <1>4 DEF IInv, TypeOK
<1>6. \A v \in Users : Holders(v)' = IF v = u THEN {c} ELSE Holders(v) \ {c}
  BY <1>1, <1>2 DEF Holders
<1>7. HeldByOneSession'
  BY <1>6 DEF IInv, HeldByOneSession
<1>8. LockedIffHeld'
  <2> SUFFICES ASSUME NEW v \in Users
               PROVE  Massive'[v].used <=> Holders(v)' # {}
    BY DEF LockedIffHeld
  <2>1. CASE v = user[c]
    <3>1. Holders(v) \ {c} = {}
      BY <2>1 DEF IInv, HeldByOneSession, Holders
    <3> QED
      BY <1>2, <1>3, <1>6, <2>1, <3>1
  <2>2. CASE v = u
    BY <1>2, <1>3, <1>6, <2>2
  <2>3. CASE v # user[c] /\ v # u
    <3>1. Holders(v) \ {c} = Holders(v)
      BY <2>3 DEF Holders
    <3> QED
      BY <1>3, <1>6, <2>3, <3>1 DEF IInv, LockedIffHeld
  <2> QED
    BY <2>1, <2>2, <2>3
<1>9. MarksNeedTransaction'
  <2> SUFFICES ASSUME NEW v \in Users, Marked(v)' # {}
               PROVE  \E d \in Holders(v)' : state'[d] = "TRANSACTION"
    BY DEF MarksNeedTransaction
  <2>1. Marked(v) # {}
    BY <1>3 DEF Marked
  <2>2. PICK d \in Holders(v) : state[d] = "TRANSACTION"
    BY <2>1 DEF IInv, MarksNeedTransaction
  <2>3. d # c /\ v # u
    BY <1>2, <2>2
  <2> QED
    BY <1>6, <2>2, <2>3
<1>10. TransactionHoldsMailbox'
  BY <1>1 DEF IInv, TransactionHoldsMailbox
<1>11. SummIsTotal'
  BY <1>3 DEF IInv, SummIsTotal
<1> QED
  BY <1>5, <1>7, <1>8, <1>9, <1>10, <1>11 DEF IInv

-----------------------------------------------------------------------------
(***************************************************************************)
(* The handlers, one by one, on an open session.                           *)
(***************************************************************************)
LEMMA RefusalStep ==
    ASSUME IInv, NEW c \in s_sock, NEW text \in Wordings, Answer(Err(c, text)),
           s_sock' = IF result'.q = 0 THEN s_sock \ {c} ELSE s_sock
    PROVE  IInv'
<1>1. c \in Clients
  BY DEF IInv, TypeOK
<1>2. result' \in Reply /\ result'.q = 1 /\ UNCHANGED <<Massive, user, state>>
  BY <1>1, ErrType DEF Answer
<1> QED
  BY <1>2, AnswerStep

\* A command that only reports preserves the invariant.
LEMMA ReportStep ==
    ASSUME IInv, NEW c \in s_sock, NEW text \in Wordings,
           NEW nums \in Seq(Int), NEW body \in Seq(Int \X Int),
           Answer(Ok(c, text, nums, body)),
           s_sock' = IF result'.q = 0 THEN s_sock \ {c} ELSE s_sock
    PROVE  IInv'
<1>1. c \in Clients
  BY DEF IInv, TypeOK
<1>2. result' \in Reply /\ result'.q = 1 /\ UNCHANGED <<Massive, user, state>>
  BY <1>1, OkType DEF Answer
<1> QED
  BY <1>2, AnswerStep

\* USER preserves the invariant (unit_handler.cpp 22-62).
LEMMA USERStep ==
    ASSUME IInv, NEW c \in s_sock, NEW param, USER(c, param),
           s_sock' = IF result'.q = 0 THEN s_sock \ {c} ELSE s_sock
    PROVE  IInv'
<1>1. CASE Answer(Err(c, "wrong username"))
  BY <1>1, RefusalStep DEF Wordings
<1>2. ASSUME NEW u \in Users, login_at(u, param) = 1, Massive' = Relogin(c, u),
             user' = [user EXCEPT ![c] = u], UNCHANGED state,
             result' = Ok(c, "name is valid mailbox", <<>>, <<>>)
      PROVE  IInv'
  <2>1. ~Massive[u].used
    <3>1. Massive[u].used \in BOOLEAN
      BY DEF IInv, TypeOK, Person
    <3>2. login(Massive[u], param = <<u>>) = 1
      BY <1>2 DEF login_at
    <3> QED
      BY <3>1, <3>2, LoginFree
  <2>2. result' \in Reply /\ result'.q = 1
    <3>1. <<>> \in Seq(Int) /\ <<>> \in Seq(Int \X Int)
      OBVIOUS
    <3>2. c \in Clients
      BY DEF IInv, TypeOK
    <3> QED
      BY <1>2, <3>1, <3>2, OkType DEF Wordings
  <2>3. state[c] = "AUTHORIZATION"
    BY DEF USER
  <2>4. s_sock' = s_sock
    BY <2>2
  <2> QED
    BY <1>2, <2>1, <2>2, <2>3, <2>4, TakeStep
<1> QED
  BY <1>1, <1>2 DEF USER

\* PASS preserves the invariant (unit_handler.cpp 65-93).
LEMMA PASSStep ==
    ASSUME IInv, NEW c \in s_sock, NEW param, PASS(c, param),
           s_sock' = IF result'.q = 0 THEN s_sock \ {c} ELSE s_sock
    PROVE  IInv'
<1>1. CASE Answer(Err(c, "invalid password"))
  BY <1>1, RefusalStep DEF Wordings
<1>2. CASE Answer(Err(c, "client is not identified"))
  BY <1>2, RefusalStep DEF Wordings
<1>3. ASSUME user[c] # -1, state' = [state EXCEPT ![c] = "TRANSACTION"],
             result' = Ok(c, "maildrop locked and ready", <<>>, <<>>),
             UNCHANGED <<Massive, user>>
      PROVE  IInv'
  <2>1. c \in Clients /\ user[c] \in Users
    BY <1>3 DEF IInv, TypeOK
  <2>2. result' \in Reply /\ result'.q = 1
    <3>1. <<>> \in Seq(Int) /\ <<>> \in Seq(Int \X Int)
      OBVIOUS
    <3> QED
      BY <1>3, <2>1, <3>1, OkType DEF Wordings
  <2>3. s_sock' = s_sock
    BY <2>2
  <2>4. TypeOK'
    BY <1>3, <2>1, <2>2, <2>3 DEF IInv, TypeOK, States
  <2>5. \A u : Holders(u)' = Holders(u) /\ Marked(u)' = Marked(u)
    BY <1>3, <2>3 DEF Holders, Marked
  <2>6. HeldByOneSession' /\ LockedIffHeld' /\ SummIsTotal'
    BY <1>3, <2>5 DEF IInv, HeldByOneSession, LockedIffHeld, SummIsTotal
  <2>7. \A d \in Clients : state[d] = "TRANSACTION" => state'[d] = "TRANSACTION"
    BY <1>3 DEF IInv, TypeOK
  <2>8. MarksNeedTransaction'
    BY <2>5, <2>7 DEF IInv, TypeOK, MarksNeedTransaction, Holders
  <2>9. TransactionHoldsMailbox'
    BY <1>3, <2>1, <2>3 DEF IInv, TypeOK, TransactionHoldsMailbox
  <2> QED
    BY <2>4, <2>6, <2>8, <2>9 DEF IInv
<1> QED
  BY <1>1, <1>2, <1>3 DEF PASS

\* The numbers STAT, LIST and RSET report are naturals.
LEMMA DropType ==
    ASSUME IInv, NEW c \in s_sock, state[c] = "TRANSACTION"
    PROVE  /\ user[c] \in Users /\ user[c] # -1
           /\ Mailbox(c) \in Person
           /\ cntmess(Mailbox(c)) \in Nat
           /\ Length(user[c]) \in Nat
           /\ Drop(c) \in Seq(Int)
<1>1. user[c] \in Users /\ user[c] # -1
  BY DEF IInv, TransactionHoldsMailbox, Users
<1>2. Mailbox(c) \in Person
  BY <1>1 DEF IInv, TypeOK, Mailbox
<1>3. cntmess(Mailbox(c)) \in Nat /\ summmess(Mailbox(c)) \in Nat
  BY <1>2 DEF Person, cntmess, summmess
<1>4. \A a, b \in Nat : <<a, b>> \in Seq(Int)
  OBVIOUS
<1>5. Drop(c) \in Seq(Int)
  BY <1>3, <1>4 DEF Drop
<1> QED
  BY <1>1, <1>2, <1>3, <1>5, LengthType

\* QUIT, with or without a parameter, preserves the invariant.
LEMMA QUITStep ==
    ASSUME IInv, NEW c \in s_sock, NEW param, QUIT(c, param),
           s_sock' = IF result'.q = 0 THEN s_sock \ {c} ELSE s_sock
    PROVE  IInv'
<1>1. CASE param = <<>>
  <2>1. c \in Clients
    BY DEF IInv, TypeOK
  <2>2. result' = Bye(c)
    BY <1>1 DEF QUIT
  <2>3. result'.q = 0
    BY <2>1, <2>2, ByeType
  <2> QED
    BY <1>1, <2>3, QuitStep
<1>2. CASE param # <<>>
  BY <1>2, RefusalStep DEF QUIT, Wordings
<1> QED
  BY <1>1, <1>2

\* STAT preserves the invariant (unit_handler.cpp 128-142).
LEMMA STATStep ==
    ASSUME IInv, NEW c \in s_sock, NEW param, STAT(c, param),
           s_sock' = IF result'.q = 0 THEN s_sock \ {c} ELSE s_sock
    PROVE  IInv'
<1>0. state[c] = "TRANSACTION"
  BY DEF STAT
<1>1. Drop(c) \in Seq(Int) /\ <<>> \in Seq(Int \X Int)
  BY <1>0, DropType
<1>2. CASE param = <<>>
  <2>1. Answer(Ok(c, "stat", Drop(c), <<>>))
    BY <1>2 DEF STAT
  <2>2. "stat" \in Wordings
    BY DEF Wordings
  <2> QED
    BY <1>1, <2>1, <2>2, ReportStep
<1>3. CASE param # <<>>
  BY <1>3, RefusalStep DEF STAT, Wordings
<1> QED
  BY <1>2, <1>3

\* LIST preserves the invariant (unit_handler.cpp 145-190).
LEMMA LISTStep ==
    ASSUME IInv, NEW c \in s_sock, NEW param \in Seq(Int), LIST(c, param),
           s_sock' = IF result'.q = 0 THEN s_sock \ {c} ELSE s_sock
    PROVE  IInv'
<1> DEFINE lines == [k \in 1 .. cntmess(Mailbox(c)) |-> <<k, Length(user[c])>>]
<1>0. state[c] = "TRANSACTION"
  BY DEF LIST
<1>1. /\ Drop(c) \in Seq(Int)
      /\ cntmess(Mailbox(c)) \in Nat
      /\ Length(user[c]) \in Nat
  BY <1>0, DropType
<1>2. "messages" \in Wordings /\ "scan" \in Wordings /\ "no such message" \in Wordings
  BY DEF Wordings
<1>3. CASE Answer(Ok(c, "messages", Drop(c), lines))
  <2>1. lines \in Seq(Int \X Int)
    BY <1>1
  <2> HIDE DEF lines
  <2> QED
    BY <1>1, <1>2, <1>3, <2>1, ReportStep
<1>4. CASE param # <<>> /\ Answer(Ok(c, "scan", <<atoi(param), Length(user[c])>>, <<>>))
  <2>1. atoi(param) \in Int
    BY <1>4 DEF atoi
  <2>2. <<atoi(param), Length(user[c])>> \in Seq(Int) /\ <<>> \in Seq(Int \X Int)
    BY <1>1, <2>1
  <2> QED
    BY <1>2, <1>4, <2>2, ReportStep
<1>5. CASE Answer(Err(c, "no such message"))
  BY <1>2, <1>5, RefusalStep
<1> QED
  BY <1>3, <1>4, <1>5 DEF LIST

\* RETR preserves the invariant (unit_handler.cpp 193-214).
LEMMA RETRStep ==
    ASSUME IInv, NEW c \in s_sock, NEW param \in Seq(Int), RETR(c, param),
           s_sock' = IF result'.q = 0 THEN s_sock \ {c} ELSE s_sock
    PROVE  IInv'
<1> DEFINE k == atoi(param)
           shown == showmessage(Mailbox(c), k)
<1>0. state[c] = "TRANSACTION"
  BY DEF RETR
<1>1. Mailbox(c) \in Person /\ Length(user[c]) \in Nat
  BY <1>0, DropType
<1>2. "retr" \in Wordings /\ "no such message" \in Wordings
  BY DEF Wordings
<1>3. CASE HasMessage(Mailbox(c), k) /\ Answer(Ok(c, "retr", <<Length(user[c])>>, <<shown>>))
  <2>1. k \in Int
    BY DEF atoi
  <2>2. shown \in Text
    BY <1>1, <1>3, <2>1, ShownType
  <2>3. shown \in Int \X Int
    BY <2>2 DEF Text, Users
  <2> HIDE DEF shown
  <2>4. <<Length(user[c])>> \in Seq(Int) /\ <<shown>> \in Seq(Int \X Int)
    BY <1>1, <2>3
  <2> QED
    BY <1>2, <1>3, <2>4, ReportStep
<1>4. CASE Answer(Err(c, "no such message"))
  BY <1>2, <1>4, RefusalStep
<1> QED
  BY <1>3, <1>4 DEF RETR

\* DELE preserves the invariant (unit_handler.cpp 217-247).
LEMMA DELEStep ==
    ASSUME IInv, NEW c \in s_sock, NEW param \in Seq(Int), DELE(c, param),
           s_sock' = IF result'.q = 0 THEN s_sock \ {c} ELSE s_sock
    PROVE  IInv'
<1> DEFINE k == atoi(param)
<1>0. state[c] = "TRANSACTION"
  BY DEF DELE
<1>1. /\ user[c] \in Users /\ user[c] # -1
      /\ Mailbox(c) \in Person /\ Mailbox(c) = Massive[user[c]]
  BY <1>0, DropType DEF Mailbox
<1>2. "message deleted" \in Wordings /\ "message already deleted" \in Wordings
      /\ "no such message" \in Wordings
  BY DEF Wordings
<1>3. k \in Int
  BY DEF atoi
<1>4. CASE Answer(Err(c, "message already deleted")) \/ Answer(Err(c, "no such message"))
  BY <1>2, <1>4, RefusalStep
<1>5. CASE /\ setlabeldel(Mailbox(c), k) = 1
           /\ Massive' = [Massive EXCEPT ![user[c]] = Labelled(@, k)]
           /\ result' = Ok(c, "message deleted", <<k>>, <<>>)
           /\ UNCHANGED <<user, state>>
  <2> DEFINE p == Labelled(Mailbox(c), k)
  <2> HIDE DEF k
  <2>1. HasMessage(Mailbox(c), k)
    BY <1>5, LabelledExists
  <2>2. Mailbox(c).used /\ Totalled(user[c], Mailbox(c))
    BY <1>1, HolderFacts
  <2>3. p \in Person /\ p.used = Mailbox(c).used /\ p.summ = Mailbox(c).summ
        /\ Len(p.messages) = Len(Mailbox(c).messages)
    BY <1>1, <1>3, <2>1, LabelledProperties
  <2>4. p.used /\ Totalled(user[c], p)
    BY <2>2, <2>3 DEF Totalled
  <2>5. Massive' = [Massive EXCEPT ![user[c]] = p]
    BY <1>1, <1>5
  <2>6. c \in Clients /\ <<k>> \in Seq(Int) /\ <<>> \in Seq(Int \X Int)
    BY <1>3 DEF IInv, TypeOK
  <2>7. result' \in Reply /\ result'.q = 1
    BY <1>2, <1>5, <2>6, OkType
  <2>8. s_sock' = s_sock
    BY <2>7
  <2>9. state[c] = "TRANSACTION"
    BY DEF DELE
  <2> HIDE DEF p
  <2> QED
    BY <1>5, <2>3, <2>4, <2>5, <2>7, <2>8, <2>9, HolderStep
<1> QED
  BY <1>4, <1>5 DEF DELE

\* RSET preserves the invariant (unit_handler.cpp 250-268).
LEMMA RSETStep ==
    ASSUME IInv, NEW c \in s_sock, NEW param, RSET(c, param),
           s_sock' = IF result'.q = 0 THEN s_sock \ {c} ELSE s_sock
    PROVE  IInv'
<1>0. state[c] = "TRANSACTION"
  BY DEF RSET
<1>1. /\ user[c] \in Users /\ user[c] # -1
      /\ Mailbox(c) \in Person /\ Mailbox(c) = Massive[user[c]]
      /\ Drop(c) \in Seq(Int)
  BY <1>0, DropType DEF Mailbox
<1>2. "maildrop has" \in Wordings /\ "invalid command" \in Wordings
  BY DEF Wordings
<1>3. CASE Answer(Err(c, "invalid command"))
  BY <1>2, <1>3, RefusalStep
<1>4. CASE /\ Massive' = [Massive EXCEPT ![user[c]] = deletealllabels(@)]
           /\ result' = Ok(c, "maildrop has", Drop(c), <<>>)
           /\ UNCHANGED <<user, state>>
  <2> DEFINE p == deletealllabels(Mailbox(c))
  <2>1. Mailbox(c).used /\ Totalled(user[c], Mailbox(c))
    BY <1>1, HolderFacts
  <2>2. p \in Person /\ p.used = Mailbox(c).used /\ p.summ = Mailbox(c).summ
        /\ Len(p.messages) = Len(Mailbox(c).messages)
    BY <1>1, DeleteLabelsProperties
  <2>3. p.used /\ Totalled(user[c], p)
    BY <2>1, <2>2 DEF Totalled
  <2>4. Massive' = [Massive EXCEPT ![user[c]] = p]
    BY <1>1, <1>4
  <2>5. c \in Clients /\ <<>> \in Seq(Int \X Int)
    BY DEF IInv, TypeOK
  <2>6. result' \in Reply /\ result'.q = 1
    BY <1>1, <1>2, <1>4, <2>5, OkType
  <2>7. s_sock' = s_sock
    BY <2>6
  <2>8. state[c] = "TRANSACTION"
    BY DEF RSET
  <2> HIDE DEF p
  <2> QED
    BY <1>4, <2>2, <2>3, <2>4, <2>6, <2>7, <2>8, HolderStep
<1> QED
  BY <1>3, <1>4 DEF RSET

\* A word that is not of the state preserves the invariant.
LEMMA InvalidStep ==
    ASSUME IInv, NEW c \in s_sock, NEW command, Invalid(c, command),
           s_sock' = IF result'.q = 0 THEN s_sock \ {c} ELSE s_sock
    PROVE  IInv'
  BY RefusalStep DEF Invalid, Wordings

\* A new session holds nothing, so opening one preserves the invariant.
LEMMA AcceptStep == ASSUME IInv, NEW c \in Clients, Accept(c) PROVE IInv'
<1>1. /\ c \notin s_sock /\ s_sock' = s_sock \cup {c}
      /\ user' = [user EXCEPT ![c] = -1]
      /\ state' = [state EXCEPT ![c] = "AUTHORIZATION"]
      /\ UNCHANGED <<Massive, result>>
  BY DEF Accept, NewSession
<1>2. user \in [Clients -> Users \cup {-1}] /\ state \in [Clients -> States]
      /\ s_sock \subseteq Clients
  BY DEF IInv, TypeOK
<1>3. TypeOK'
  BY <1>1, <1>2 DEF IInv, TypeOK, States
<1>4. \A u \in Users : Holders(u)' = Holders(u)
  BY <1>1, <1>2 DEF Holders, Users
<1>5. \A u \in Users : Marked(u)' = Marked(u)
  BY <1>1 DEF Marked
<1>6. HeldByOneSession' /\ LockedIffHeld' /\ SummIsTotal'
  BY <1>1, <1>4 DEF IInv, HeldByOneSession, LockedIffHeld, SummIsTotal
<1>7. \A d \in s_sock : d # c /\ state'[d] = state[d] /\ user'[d] = user[d]
  BY <1>1, <1>2
<1>8. MarksNeedTransaction'
  BY <1>4, <1>5, <1>7 DEF IInv, MarksNeedTransaction, Holders
<1>9. TransactionHoldsMailbox'
  BY <1>1, <1>2, <1>7 DEF IInv, TransactionHoldsMailbox
<1> QED
  BY <1>3, <1>6, <1>8, <1>9 DEF IInv

-----------------------------------------------------------------------------
\* UsersInit leaves free mailboxes without marks and no session.
LEMMA InitIInv == ASSUME Init PROVE IInv
<1>1. /\ Massive \in UsersInit
      /\ user = [c \in Clients |-> -1]
      /\ state = [c \in Clients |-> "UPDATE"]
      /\ result = NoReply
      /\ s_sock = {}
  BY DEF Init, HandlerInit
<1>2. PICK t \in [Users -> 0 .. MaxMessages] : Massive = [u \in Users |-> NewPerson(u, t[u])]
  BY <1>1 DEF UsersInit
<1>3. \A u \in Users : /\ Massive[u] = NewPerson(u, t[u])
                       /\ Massive[u] \in Person
                       /\ Totalled(u, Massive[u])
                       /\ NoMarks(Massive[u])
                       /\ ~Massive[u].used
  BY <1>2, NewPersonProperties
<1>4. TypeOK
  <2>1. <<>> \in Seq(Int) /\ <<>> \in Seq(Int \X Int)
    OBVIOUS
  <2>2. result \in Reply
    BY <1>1, <2>1 DEF NoReply, Reply, Wordings
  <2>3. Massive \in [Users -> Person]
    BY <1>2, <1>3
  <2> QED
    BY <1>1, <2>2, <2>3 DEF TypeOK, States
<1>5. \A u : Holders(u) = {}
  BY <1>1 DEF Holders
<1>6. HeldByOneSession /\ LockedIffHeld /\ SummIsTotal /\ TransactionHoldsMailbox
  BY <1>1, <1>3, <1>5
     DEF HeldByOneSession, LockedIffHeld, SummIsTotal, TransactionHoldsMailbox, Totalled
<1>7. MarksNeedTransaction
  BY <1>3 DEF MarksNeedTransaction, Marked, NoMarks
<1> QED
  BY <1>4, <1>6, <1>7 DEF IInv

\* Every command line an open session sends preserves the invariant.
LEMMA HandleLineStep ==
    ASSUME IInv, NEW c \in Clients, NEW line \in Lines, HandleLine(c, line)
    PROVE  IInv'
<1>1. /\ c \in s_sock
      /\ command_handler(c, line)
      /\ s_sock' = IF result'.q = 0 THEN s_sock \ {c} ELSE s_sock
  BY DEF HandleLine
<1>2. line.param \in Seq(Int)
  BY HandlerAssumption
<1>3. CASE USER(c, line.param)
  BY <1>1, <1>3, USERStep
<1>4. CASE PASS(c, line.param)
  BY <1>1, <1>4, PASSStep
<1>5. CASE QUIT(c, line.param)
  BY <1>1, <1>5, QUITStep
<1>6. CASE STAT(c, line.param)
  BY <1>1, <1>6, STATStep
<1>7. CASE LIST(c, line.param)
  BY <1>1, <1>2, <1>7, LISTStep
<1>8. CASE RETR(c, line.param)
  BY <1>1, <1>2, <1>8, RETRStep
<1>9. CASE DELE(c, line.param)
  BY <1>1, <1>2, <1>9, DELEStep
<1>10. CASE RSET(c, line.param)
  BY <1>1, <1>10, RSETStep
<1>11. CASE Invalid(c, line.command)
  BY <1>1, <1>11, InvalidStep
<1> QED
  BY <1>1, <1>3, <1>4, <1>5, <1>6, <1>7, <1>8, <1>9, <1>10, <1>11 DEF command_handler

\* Every step of the sessions preserves the invariant.
LEMMA NextIInv == ASSUME IInv, [Next]_vars PROVE IInv'
<1>1. ASSUME NEW c \in Clients, Accept(c) PROVE IInv'
  BY <1>1, AcceptStep
<1>2. ASSUME NEW c \in Clients, NEW line \in Lines, HandleLine(c, line) PROVE IInv'
  BY <1>2, HandleLineStep
<1>3. ASSUME NEW c \in Clients, Hangup(c) PROVE IInv'
  BY <1>3, QuitStep DEF Hangup
<1>4. CASE UNCHANGED vars
  <2>1. result' \in Reply
    BY <1>4 DEF vars, IInv, TypeOK
  <2> QED
    BY <1>4, <2>1, AnswerStep DEF vars
<1> QED
  BY <1>1, <1>2, <1>3, <1>4 DEF Next

(***************************************************************************)
(* Every reachable state satisfies the inductive invariant.                *)
(***************************************************************************)
THEOREM Invariance == Spec => []IInv
<1>1. Init => IInv
  BY InitIInv
<1>2. IInv /\ [Next]_vars => IInv'
  BY NextIInv
<1> QED
  BY <1>1, <1>2, PTL DEF Spec

(***************************************************************************)
(* The variables always have the types of the program's, and summ never    *)
(* goes below zero.                                                        *)
(***************************************************************************)
THEOREM TypeCorrect == Spec => []TypeOK
<1>1. IInv => TypeOK
  BY DEF IInv
<1> QED
  BY <1>1, Invariance, PTL

(***************************************************************************)
(* Mutual exclusion on mailboxes, and no lock without a session.           *)
(***************************************************************************)
THEOREM Locking == Spec => [](HeldByOneSession /\ LockedIffHeld)
<1>1. IInv => HeldByOneSession /\ LockedIffHeld
  BY DEF IInv
<1> QED
  BY <1>1, Invariance, PTL

(***************************************************************************)
(* Only a session in TRANSACTION has marks, and it holds a mailbox.        *)
(***************************************************************************)
THEOREM Marking == Spec => [](MarksNeedTransaction /\ TransactionHoldsMailbox)
<1>1. IInv => MarksNeedTransaction /\ TransactionHoldsMailbox
  BY DEF IInv
<1> QED
  BY <1>1, Invariance, PTL

(***************************************************************************)
(* The size STAT reports is the size of the messages in the mailbox.       *)
(***************************************************************************)
THEOREM Sizes == Spec => []SummIsTotal
<1>1. IInv => SummIsTotal
  BY DEF IInv
<1> QED
  BY <1>1, Invariance, PTL

-----------------------------------------------------------------------------
(***************************************************************************)
(* What a step can do to the mailboxes: nothing, or one of the following.  *)
(***************************************************************************)
Quiet == UNCHANGED <<Massive, user, state, s_sock>>

Takes(c, u) ==
    /\ state[c] = "AUTHORIZATION"
    /\ ~Massive[u].used
    /\ Massive' = Relogin(c, u)
    /\ user' = [user EXCEPT ![c] = u]
    /\ UNCHANGED <<state, s_sock>>

Opens(c) ==
    /\ state[c] = "AUTHORIZATION"
    /\ user[c] # -1
    /\ state' = [state EXCEPT ![c] = "TRANSACTION"]
    /\ UNCHANGED <<Massive, user, s_sock>>

Labels(c, k) ==
    /\ state[c] = "TRANSACTION"
    /\ HasMessage(Mailbox(c), k)
    /\ Massive' = [Massive EXCEPT ![user[c]] = Labelled(@, k)]
    /\ UNCHANGED <<user, state, s_sock>>

Resets(c) ==
    /\ state[c] = "TRANSACTION"
    /\ Massive' = [Massive EXCEPT ![user[c]] = deletealllabels(@)]
    /\ result'.sock = c /\ result'.text = "maildrop has"
    /\ UNCHANGED <<user, state, s_sock>>

Ends(c) ==
    /\ state' = [state EXCEPT ![c] = "UPDATE"]
    /\ Epilogue(c)
    /\ s_sock' = s_sock \ {c}
    /\ UNCHANGED user

Kinds ==
    \/ Quiet
    \/ \E c \in Clients : Accept(c)
    \/ \E c \in s_sock :
          \/ \E u \in Users : Takes(c, u)
          \/ Opens(c)
          \/ \E k \in Int : Labels(c, k)
          \/ Resets(c)
          \/ Ends(c)

\* A session that is answered +OK stays open.
LEMMA OkStays ==
    ASSUME NEW c, NEW text, NEW nums, NEW body, result' = Ok(c, text, nums, body),
           s_sock' = IF result'.q = 0 THEN s_sock \ {c} ELSE s_sock
    PROVE  s_sock' = s_sock /\ result'.sock = c /\ result'.text = text
<1>1. result'.q = 1 /\ result'.sock = c /\ result'.text = text
  BY DEF Ok
<1> QED
  BY <1>1

\* A refusal leaves everything but the reply as it is.
LEMMA RefusalQuiet ==
    ASSUME NEW c, NEW text, Answer(Err(c, text)),
           s_sock' = IF result'.q = 0 THEN s_sock \ {c} ELSE s_sock
    PROVE  Quiet
  BY DEF Answer, Err, Quiet

\* A report leaves everything but the reply as it is.
LEMMA ReportQuiet ==
    ASSUME NEW c, NEW text, NEW nums, NEW body, Answer(Ok(c, text, nums, body)),
           s_sock' = IF result'.q = 0 THEN s_sock \ {c} ELSE s_sock
    PROVE  Quiet
  BY DEF Answer, Ok, Quiet

\* A QUIT, sent or not, ends the session.
LEMMA QuitEnds ==
    ASSUME NEW c, QUIT(c, <<>>), s_sock' = s_sock \ {c}
    PROVE  Ends(c)
  BY DEF QUIT, Answer, Err, Ends

\* Every command line is one of the kinds.
LEMMA LineKinds ==
    ASSUME IInv, NEW c \in Clients, NEW line \in Lines, HandleLine(c, line)
    PROVE  Kinds
<1> DEFINE param == line.param
<1>1. /\ c \in s_sock
      /\ command_handler(c, line)
      /\ s_sock' = IF result'.q = 0 THEN s_sock \ {c} ELSE s_sock
  BY DEF HandleLine
<1>2. atoi(param) \in Int
  <2>1. param \in Seq(Int)
    BY HandlerAssumption
  <2> QED
    BY <2>1 DEF atoi
<1>3. CASE USER(c, param)
  <2>1. CASE Answer(Err(c, "wrong username"))
    BY <1>1, <2>1, RefusalQuiet DEF Kinds
  <2>2. ASSUME NEW u \in Users, login_at(u, param) = 1, Massive' = Relogin(c, u),
               user' = [user EXCEPT ![c] = u], UNCHANGED state,
               result' = Ok(c, "name is valid mailbox", <<>>, <<>>)
        PROVE  Takes(c, u)
    <3>1. Massive[u].used \in BOOLEAN
      BY DEF IInv, TypeOK, Person
    <3>2. ~Massive[u].used
      BY <2>2, <3>1, LoginFree DEF login_at
    <3>3. s_sock' = s_sock
      BY <1>1, <2>2, OkStays
    <3> QED
      BY <1>3, <2>2, <3>2, <3>3 DEF Takes, USER
  <2> QED
    BY <1>1, <1>3, <2>1, <2>2 DEF USER, Kinds
<1>4. CASE PASS(c, param)
  <2>1. CASE Answer(Err(c, "invalid password")) \/ Answer(Err(c, "client is not identified"))
    BY <1>1, <2>1, RefusalQuiet DEF Kinds
  <2>2. CASE /\ user[c] # -1
             /\ state' = [state EXCEPT ![c] = "TRANSACTION"]
             /\ result' = Ok(c, "maildrop locked and ready", <<>>, <<>>)
             /\ UNCHANGED <<Massive, user>>
    <3>1. s_sock' = s_sock
      BY <1>1, <2>2, OkStays
    <3>2. Opens(c)
      BY <1>4, <2>2, <3>1 DEF Opens, PASS
    <3> QED
      BY <1>1, <3>2 DEF Kinds
  <2> QED
    BY <1>4, <2>1, <2>2 DEF PASS
<1>5. CASE QUIT(c, param)
  <2>1. CASE param = <<>>
    <3>1. result' = Bye(c)
      BY <1>5, <2>1 DEF QUIT
    <3>2. Ends(c)
      BY <1>1, <1>5, <2>1, <3>1, QuitEnds DEF Bye
    <3> QED
      BY <1>1, <3>2 DEF Kinds
  <2>2. CASE param # <<>>
    BY <1>1, <1>5, <2>2, RefusalQuiet DEF QUIT, Kinds
  <2> QED
    BY <2>1, <2>2
<1>6. CASE STAT(c, param)
  <2>1. Answer(Ok(c, "stat", Drop(c), <<>>)) \/ Answer(Err(c, "invalid command"))
    BY <1>6 DEF STAT
  <2> QED
    BY <1>1, <2>1, RefusalQuiet, ReportQuiet DEF Kinds
<1>7. CASE LIST(c, param)
  BY <1>1, <1>7, RefusalQuiet, ReportQuiet DEF LIST, Kinds
<1>8. CASE RETR(c, param)
  BY <1>1, <1>8, RefusalQuiet, ReportQuiet DEF RETR, Kinds
<1>9. CASE DELE(c, param)
  <2> DEFINE k == atoi(param)
  <2>1. CASE Answer(Err(c, "message already deleted")) \/ Answer(Err(c, "no such message"))
    BY <1>1, <2>1, RefusalQuiet DEF Kinds
  <2>2. CASE /\ setlabeldel(Mailbox(c), k) = 1
             /\ Massive' = [Massive EXCEPT ![user[c]] = Labelled(@, k)]
             /\ result' = Ok(c, "message deleted", <<k>>, <<>>)
             /\ UNCHANGED <<user, state>>
    <3>1. HasMessage(Mailbox(c), k) /\ state[c] = "TRANSACTION"
      BY <1>9, <2>2, LabelledExists DEF DELE
    <3>2. s_sock' = s_sock
      BY <1>1, <2>2, OkStays
    <3>3. Labels(c, k)
      BY <2>2, <3>1, <3>2 DEF Labels
    <3> QED
      BY <1>1, <1>2, <3>3 DEF Kinds
  <2> QED
    BY <1>9, <2>1, <2>2 DEF DELE
<1>10. CASE RSET(c, param)
  <2>1. CASE Answer(Err(c, "invalid command"))
    BY <1>1, <2>1, RefusalQuiet DEF Kinds
  <2>2. CASE /\ Massive' = [Massive EXCEPT ![user[c]] = deletealllabels(@)]
             /\ result' = Ok(c, "maildrop has", Drop(c), <<>>)
             /\ UNCHANGED <<user, state>>
    <3>1. s_sock' = s_sock /\ result'.sock = c /\ result'.text = "maildrop has"
      BY <1>1, <2>2, OkStays
    <3>2. Resets(c)
      BY <1>10, <2>2, <3>1 DEF Resets, RSET
    <3> QED
      BY <1>1, <3>2 DEF Kinds
  <2> QED
    BY <1>10, <2>1, <2>2 DEF RSET
<1>11. CASE Invalid(c, line.command)
  BY <1>1, <1>11, RefusalQuiet DEF Invalid, Kinds
<1> QED
  BY <1>1, <1>3, <1>4, <1>5, <1>6, <1>7, <1>8, <1>9, <1>10, <1>11 DEF command_handler

\* Every step of the sessions is one of the kinds.
LEMMA StepKinds == ASSUME IInv, [Next]_vars PROVE Kinds
<1>1. ASSUME NEW c \in Clients, Hangup(c) PROVE Kinds
  <2>1. c \in s_sock /\ Ends(c)
    BY <1>1, QuitEnds DEF Hangup
  <2> QED
    BY <2>1 DEF Kinds
<1>2. CASE UNCHANGED vars
  BY <1>2 DEF vars, Kinds, Quiet
<1>3. ASSUME NEW c \in Clients, Accept(c) PROVE Kinds
  BY <1>3 DEF Kinds
<1> QED
  BY <1>1, <1>2, <1>3, LineKinds DEF Next

-----------------------------------------------------------------------------
(***************************************************************************)
(* The same, seen from mailbox u.                                          *)
(***************************************************************************)
Untouched(u) ==
    /\ Massive'[u].messages = Massive[u].messages
    /\ Holders(u) \subseteq s_sock'

Labelling(c, u, k) ==
    /\ state[c] = "TRANSACTION" /\ c \in s_sock'
    /\ HasMessage(Massive[u], k)
    /\ Massive'[u] = Labelled(Massive[u], k)

Resetting(c, u) ==
    /\ state[c] = "TRANSACTION" /\ c \in s_sock'
    /\ Massive'[u] = deletealllabels(Massive[u])
    /\ result'.sock = c /\ result'.text = "maildrop has"

Committing(c, u) ==
    /\ c \notin s_sock'
    /\ Massive'[u] = unused(updatemailbox(u, Massive[u]))

\* A step touches the messages of a mailbox only through its holder.
LEMMA MailEffect ==
    ASSUME IInv, Kinds, NEW u \in Users
    PROVE  \/ Untouched(u)
           \/ \E c \in Holders(u) : \/ \E k \in Int : Labelling(c, u, k)
                                   \/ Resetting(c, u)
                                   \/ Committing(c, u)
<1>1. /\ Massive \in [Users -> Person] /\ user \in [Clients -> Users \cup {-1}]
      /\ s_sock \subseteq Clients
  BY DEF IInv, TypeOK
<1>2. CASE Quiet
  BY <1>2 DEF Quiet, Untouched, Holders
<1>3. ASSUME NEW c \in Clients, Accept(c) PROVE Untouched(u)
  BY <1>3 DEF Accept, NewSession, Untouched, Holders
<1>4. ASSUME NEW c \in s_sock, Opens(c) PROVE Untouched(u)
  BY <1>4 DEF Opens, Untouched, Holders
<1>5. ASSUME NEW c \in s_sock, NEW v \in Users, Takes(c, v) PROVE Untouched(u)
  <2>1. /\ unused(Massive[u]).messages = Massive[u].messages
        /\ taken(Massive[u]).messages = Massive[u].messages
    BY <1>1, UnusedProperties
  <2>2. Massive'[u].messages = Massive[u].messages
    BY <1>5, <2>1 DEF Takes, Relogin
  <2> QED
    BY <1>5, <2>2 DEF Takes, Untouched, Holders
<1>6. ASSUME NEW c \in s_sock, NEW k \in Int, Labels(c, k)
      PROVE  Untouched(u) \/ (c \in Holders(u) /\ Labelling(c, u, k))
  BY <1>1, <1>6 DEF Labels, Mailbox, Untouched, Labelling, Holders
<1>7. ASSUME NEW c \in s_sock, Resets(c)
      PROVE  Untouched(u) \/ (c \in Holders(u) /\ Resetting(c, u))
  BY <1>1, <1>7 DEF Resets, Untouched, Resetting, Holders
<1>8. ASSUME NEW c \in s_sock, Ends(c)
      PROVE  Untouched(u) \/ (c \in Holders(u) /\ Committing(c, u))
  <2>1. CASE user[c] = u
    <3>1. user[c] # -1
      BY <2>1 DEF Users
    <3> QED
      BY <1>1, <1>8, <2>1, <3>1 DEF Ends, Epilogue, Committing, Holders
  <2>2. CASE user[c] # u
    BY <1>1, <1>8, <2>2 DEF Ends, Epilogue, Untouched, Holders
  <2> QED
    BY <2>1, <2>2
<1> QED
  BY <1>2, <1>3, <1>4, <1>5, <1>6, <1>7, <1>8 DEF Kinds

\* What a commit leaves of a mailbox.
LEMMA CommitEffect ==
    ASSUME IInv, NEW u \in Users, NEW c, Committing(c, u)
    PROVE  Massive'[u].messages = Kept(Massive[u].messages)
<1> DEFINE q == updatemailbox(u, Massive[u])
<1>1. Massive[u] \in Person /\ Totalled(u, Massive[u])
  BY DEF IInv, TypeOK, SummIsTotal, Totalled
<1>2. q \in Person /\ q.messages = Kept(Massive[u].messages)
  BY <1>1, UpdateProperties
<1> HIDE DEF q
<1>3. unused(q).messages = q.messages
  BY <1>2, UnusedProperties
<1> QED
  BY <1>2, <1>3 DEF Committing, q

(***************************************************************************)
(* The messages of a mailbox can be told apart by their texts, so that     *)
(* "the marked ones are gone" can be said of the texts.                    *)
(***************************************************************************)
TextsInv == \A u \in Users : Numbered(u, Massive[u])

\* No step gives two messages of a mailbox the same text.
LEMMA TextsStep == ASSUME IInv, TextsInv, [Next]_vars PROVE TextsInv'
<1> SUFFICES ASSUME NEW u \in Users PROVE Numbered(u, Massive'[u])
  BY DEF TextsInv
<1>1. Massive[u] \in Person /\ Totalled(u, Massive[u]) /\ Numbered(u, Massive[u])
  BY DEF IInv, TypeOK, SummIsTotal, Totalled, TextsInv
<1>2. CASE Untouched(u)
  BY <1>1, <1>2 DEF Untouched, Numbered
<1>3. ASSUME NEW c, NEW k \in Int, Labelling(c, u, k) PROVE Numbered(u, Massive'[u])
  <2>1. HasMessage(Massive[u], k) /\ Massive'[u] = Labelled(Massive[u], k)
    BY <1>3 DEF Labelling
  <2> DEFINE q == Labelled(Massive[u], k)
  <2>2. /\ DOMAIN q.messages = DOMAIN Massive[u].messages
        /\ \A i \in DOMAIN Massive[u].messages : q.messages[i].st = Massive[u].messages[i].st
    BY <1>1, <2>1, LabelledTexts
  <2> HIDE DEF q
  <2>3. Numbered(u, q)
    BY <1>1, <2>2, SameNumbers
  <2> QED
    BY <2>1, <2>3 DEF q
<1>4. ASSUME NEW c, Resetting(c, u) PROVE Numbered(u, Massive'[u])
  <2>1. Numbered(u, deletealllabels(Massive[u]))
    BY <1>1, ResetTexts, SameNumbers
  <2> QED
    BY <1>4, <2>1 DEF Resetting
<1>5. ASSUME NEW c, Committing(c, u) PROVE Numbered(u, Massive'[u])
  <2>1. Numbered(u, updatemailbox(u, Massive[u]))
    BY <1>1, UpdateTexts
  <2>2. Massive'[u].messages = updatemailbox(u, Massive[u]).messages
    BY <1>1, <1>5, CommitEffect, UpdateProperties
  <2> QED
    BY <2>1, <2>2 DEF Numbered
<1> QED
  BY <1>2, <1>3, <1>4, <1>5, StepKinds, MailEffect

\* Every message has a text of its own.
THEOREM TextsApart == Spec => []TextsInv
<1>1. Init => TextsInv
  <2> SUFFICES ASSUME Init PROVE TextsInv
    OBVIOUS
  <2>1. PICK t \in [Users -> 0 .. MaxMessages] : Massive = [u \in Users |-> NewPerson(u, t[u])]
    BY DEF Init, HandlerInit, UsersInit
  <2>2. \A u \in Users : Massive[u] = NewPerson(u, t[u]) /\ t[u] \in 0 .. MaxMessages
    BY <2>1
  <2> QED
    BY <2>2, NewPersonNumbered DEF TextsInv
<1>2. IInv /\ TextsInv /\ [Next]_vars => TextsInv'
  BY TextsStep
<1> QED
  BY <1>1, <1>2, Invariance, PTL DEF Spec

-----------------------------------------------------------------------------
(***************************************************************************)
(* Nothing but the end of a session in TRANSACTION makes a message         *)
(* disappear, and then exactly the marked ones do, the others in order.    *)
(***************************************************************************)
LEMMA EraseStep ==
    ASSUME IInv, [Next]_vars, NEW u \in Users,
           Stored(Massive'[u].messages) # Stored(Massive[u].messages)
    PROVE  /\ \E c \in Holders(u) : state[c] = "TRANSACTION" /\ c \notin s_sock'
           /\ Leaves(Massive[u].messages, DOMAIN Massive[u].messages \ Marked(u),
                     Massive'[u].messages)
<1> DEFINE s == Massive[u].messages
<1>1. Massive[u] \in Person /\ s \in Seq(Message) /\ DOMAIN s = 1 .. Len(s)
  BY DEF IInv, TypeOK, Person
<1>2. ~Untouched(u)
  BY DEF Untouched
<1>3. ASSUME NEW c, NEW k \in Int, Labelling(c, u, k) PROVE FALSE
  <2>1. HasMessage(Massive[u], k) /\ Massive'[u] = Labelled(Massive[u], k)
    BY <1>3 DEF Labelling
  <2>2. /\ DOMAIN Labelled(Massive[u], k).messages = DOMAIN s
        /\ \A i \in DOMAIN s : Labelled(Massive[u], k).messages[i].st = s[i].st
    BY <1>1, <2>1, LabelledTexts
  <2> QED
    BY <2>1, <2>2 DEF Stored
<1>4. ASSUME NEW c, Resetting(c, u) PROVE FALSE
  BY <1>1, <1>4, ResetTexts DEF Resetting, Stored
<1>5. PICK c \in Holders(u) : Committing(c, u)
  BY <1>2, <1>3, <1>4, StepKinds, MailEffect
<1>6. Massive'[u].messages = Kept(s)
  BY <1>5, CommitEffect
<1>7. state[c] = "TRANSACTION"
  <2> SUFFICES ASSUME state[c] # "TRANSACTION" PROVE FALSE
    OBVIOUS
  <2>1. \A d \in Holders(u) : d = c
    BY DEF IInv, HeldByOneSession
  <2>2. NoMarks(Massive[u])
    BY <2>1, MarkFree DEF Holders
  <2> QED
    BY <1>1, <1>6, <2>2, KeptAll DEF NoMarks
<1>8. DOMAIN s \ Marked(u) = Unmarked(s)
  BY <1>1 DEF Marked, Unmarked
<1>9. Leaves(s, Unmarked(s), Kept(s))
  <2>1. PICK place \in [DOMAIN Kept(s) -> Unmarked(s)] :
              /\ \A k \in Unmarked(s) : \E n \in DOMAIN Kept(s) : place[n] = k
              /\ \A m, n \in DOMAIN Kept(s) : m < n => place[m] < place[n]
              /\ \A n \in DOMAIN Kept(s) : Kept(s)[n] = s[place[n]]
    BY <1>1, KeptOrder
  <2> QED
    BY <2>1 DEF Leaves
<1> QED
  BY <1>5, <1>6, <1>7, <1>8, <1>9 DEF Committing

\* Messages leave a mailbox only by the commit of the session that holds it.
THEOREM Commits == Spec => OnlyCommitErases
<1>1. IInv /\ [Next]_vars =>
        [\A u \in Users :
           Stored(Massive'[u].messages) # Stored(Massive[u].messages) =>
             /\ \E c \in Holders(u) : state[c] = "TRANSACTION" /\ c \notin s_sock'
             /\ Leaves(Massive[u].messages, DOMAIN Massive[u].messages \ Marked(u),
                       Massive'[u].messages)]_vars
  BY EraseStep
<1> QED
  BY <1>1, Invariance, PTL DEF Spec, OnlyCommitErases

(***************************************************************************)
(* A mark stays until the session that set it resets or ends.              *)
(***************************************************************************)
LEMMA MarkStep ==
    ASSUME IInv, TextsInv, [Next]_vars, NEW u \in Users, NEW i \in Marked(u)
    PROVE  \E c \in Holders(u) :
              \/ /\ c \in s_sock'
                 /\ Stored(Massive'[u].messages) = Stored(Massive[u].messages)
                 /\ i \in Marked(u)' \/ (result'.sock = c /\ result'.text = "maildrop has")
              \/ /\ c \notin s_sock'
                 /\ Massive[u].messages[i].st \notin MailOf(u)'
<1> DEFINE s == Massive[u].messages
<1>1. /\ Massive[u] \in Person /\ Totalled(u, Massive[u]) /\ Numbered(u, Massive[u])
      /\ i \in DOMAIN s /\ s[i].del
  BY DEF IInv, TypeOK, SummIsTotal, Totalled, TextsInv, Marked
<1>2. \A c, d \in Holders(u) : c = d
  BY DEF IInv, HeldByOneSession
<1>3. PICK c \in Holders(u) : state[c] = "TRANSACTION"
  BY DEF IInv, MarksNeedTransaction
<1>4. CASE Untouched(u)
  BY <1>3, <1>4 DEF Untouched, Marked
<1>5. ASSUME NEW k \in Int, Labelling(c, u, k)
      PROVE  /\ c \in s_sock'
             /\ Stored(Massive'[u].messages) = Stored(s)
             /\ i \in Marked(u)'
  <2> DEFINE q == Labelled(Massive[u], k)
  <2>1. c \in s_sock' /\ HasMessage(Massive[u], k) /\ Massive'[u] = q
    BY <1>5 DEF Labelling
  <2>2. /\ DOMAIN q.messages = DOMAIN s
        /\ \A j \in DOMAIN s : /\ q.messages[j].st = s[j].st
                              /\ q.messages[j].del = IF j = k THEN TRUE ELSE s[j].del
    BY <1>1, <2>1, LabelledTexts
  <2> HIDE DEF q
  <2> QED
    BY <1>1, <2>1, <2>2 DEF Stored, Marked
<1>6. ASSUME Resetting(c, u)
      PROVE  /\ c \in s_sock'
             /\ Stored(Massive'[u].messages) = Stored(s)
             /\ result'.sock = c /\ result'.text = "maildrop has"
  <2> DEFINE q == deletealllabels(Massive[u])
  <2>1. /\ DOMAIN q.messages = DOMAIN s
        /\ \A j \in DOMAIN s : q.messages[j].st = s[j].st
    BY <1>1, ResetTexts
  <2> HIDE DEF q
  <2> QED
    BY <1>6, <2>1 DEF Resetting, Stored, q
<1>7. ASSUME Committing(c, u)
      PROVE  c \notin s_sock' /\ s[i].st \notin MailOf(u)'
  <2>1. Massive'[u].messages = updatemailbox(u, Massive[u]).messages
    BY <1>1, <1>7, CommitEffect, UpdateProperties
  <2>2. MailOf(u)' = TextsIn(updatemailbox(u, Massive[u]))
    BY <2>1 DEF MailOf, TextsIn
  <2>3. s[i].st \in MarkedIn(Massive[u])
    BY <1>1 DEF MarkedIn, MarksIn
  <2> QED
    BY <1>1, <1>7, <2>2, <2>3, UpdateTexts DEF Committing
<1>8. \/ Untouched(u)
      \/ \E k \in Int : Labelling(c, u, k)
      \/ Resetting(c, u)
      \/ Committing(c, u)
  BY <1>2, <1>3, StepKinds, MailEffect
<1> QED
  BY <1>3, <1>4, <1>5, <1>6, <1>7, <1>8

\* A message answered "deleted" is gone in the end, or its session reset it.
THEOREM MarksLast == Spec => MarksAreKept
<1>1. IInv /\ TextsInv /\ [Next]_vars =>
        [\A u \in Users : \A i \in Marked(u) : \E c \in Holders(u) :
           \/ /\ c \in s_sock'
              /\ Stored(Massive'[u].messages) = Stored(Massive[u].messages)
              /\ i \in Marked(u)' \/ (result'.sock = c /\ result'.text = "maildrop has")
           \/ /\ c \notin s_sock'
              /\ Massive[u].messages[i].st \notin MailOf(u)']_vars
  BY MarkStep
<1> QED
  BY <1>1, Invariance, TextsApart, PTL DEF Spec, MarksAreKept

-----------------------------------------------------------------------------
(***************************************************************************)
(* The refinement of Maildrop.  What the mapping makes of a state:         *)
(***************************************************************************)
InTransaction(u) == \E c \in Holders(u) : state[c] = "TRANSACTION"

Mapped ==
    /\ owner = [u \in Users |-> owner[u]] /\ opened = [u \in Users |-> opened[u]]
    /\ mail = [u \in Users |-> mail[u]] /\ marks = [u \in Users |-> marks[u]]
    /\ \A u \in Users :
          /\ Holders(u) = {} => owner[u] = NoClient
          /\ \A c \in Holders(u) : owner[u] = c /\ c # NoClient
          /\ opened[u] = InTransaction(u)
          /\ mail[u] = TextsIn(Massive[u])
          /\ marks[u] = MarkedIn(Massive[u])

\* A mailbox is mapped to its holder and to the texts in it.
LEMMA Mapping == IInv => Mapped
<1> SUFFICES ASSUME IInv PROVE Mapped
  OBVIOUS
<1>1. /\ owner = [u \in Users |-> owner[u]] /\ opened = [u \in Users |-> opened[u]]
      /\ mail = [u \in Users |-> mail[u]] /\ marks = [u \in Users |-> marks[u]]
  BY DEF owner, opened, mail, marks
<1>2. ASSUME NEW u \in Users PROVE Holders(u) = {} => owner[u] = NoClient
  BY DEF owner
<1>3. ASSUME NEW u \in Users, NEW c \in Holders(u) PROVE owner[u] = c /\ c # NoClient
  <2>1. \A d \in Holders(u) : d = c
    BY DEF IInv, HeldByOneSession
  <2>2. owner[u] \in Holders(u)
    BY DEF owner
  <2>3. c \in Clients
    BY DEF IInv, TypeOK, Holders
  <2> QED
    BY <2>1, <2>2, <2>3, HandlerAssumption
<1>4. ASSUME NEW u \in Users
      PROVE  opened[u] = InTransaction(u) /\ mail[u] = TextsIn(Massive[u])
  BY DEF opened, InTransaction, mail, MailOf, TextsIn
<1>5. ASSUME NEW u \in Users PROVE marks[u] = MarkedIn(Massive[u])
  BY DEF marks, MarkedTexts, Marked, MarkedIn, MarksIn
<1> QED
  BY <1>1, <1>2, <1>3, <1>4, <1>5 DEF Mapped

\* The same after a step.
LEMMA MappingNext == IInv' => Mapped'
  BY Mapping, PTL

\* Steps that leave the holders, their states and the messages as they are.
LEMMA MapsToStutter ==
    ASSUME Mapped, Mapped', UNCHANGED Massive,
           \A u \in Users : Holders(u)' = Holders(u),
           \A u \in Users : \A c \in Holders(u) : state'[c] = state[c]
    PROVE  UNCHANGED Drops!vars
<1>1. ASSUME NEW u \in Users PROVE owner'[u] = owner[u]
  BY DEF Mapped
<1>2. ASSUME NEW u \in Users PROVE opened'[u] = opened[u]
  <2>1. InTransaction(u)' = InTransaction(u)
    BY DEF InTransaction
  <2>2. opened'[u] = InTransaction(u)' /\ opened[u] = InTransaction(u)
    BY DEF Mapped
  <2> QED
    BY <2>1, <2>2
<1>3. ASSUME NEW u \in Users PROVE mail'[u] = mail[u] /\ marks'[u] = marks[u]
  BY DEF Mapped
<1>4. owner' = owner /\ opened' = opened
  BY <1>1, <1>2 DEF Mapped
<1>5. mail' = mail /\ marks' = marks
  BY <1>3 DEF Mapped
<1> QED
  BY <1>4, <1>5 DEF Drops!vars

\* USER locks a mailbox.
LEMMA MapsToLock ==
    ASSUME IInv, Mapped, Mapped', NEW c \in s_sock, NEW u \in Users, Takes(c, u)
    PROVE  Drops!Lock(c, u)
<1>1. /\ c \in Clients /\ user \in [Clients -> Users \cup {-1}] /\ s_sock \subseteq Clients
      /\ Massive \in [Users -> Person] /\ c # NoClient
  BY HandlerAssumption DEF IInv, TypeOK
<1>2. Holders(u) = {}
  BY DEF Takes, IInv, LockedIffHeld
<1>3. \A v \in Users : Holders(v)' = IF v = u THEN {c} ELSE Holders(v) \ {c}
  BY <1>1, <1>2 DEF Takes, Holders
<1>4. \A v \in Users : \A d, e \in Holders(v) : d = e
  BY DEF IInv, HeldByOneSession
<1>5. \A v \in Users : TextsIn(Massive'[v]) = TextsIn(Massive[v])
                     /\ MarkedIn(Massive'[v]) = MarkedIn(Massive[v])
  <2> TAKE v \in Users
  <2>1. /\ unused(Massive[v]).messages = Massive[v].messages
        /\ taken(Massive[v]).messages = Massive[v].messages
    BY <1>1, UnusedProperties
  <2>2. Massive'[v].messages = Massive[v].messages
    BY <2>1 DEF Takes, Relogin
  <2> QED
    BY <2>2 DEF TextsIn, MarkedIn, MarksIn
<1>6. mail' = mail /\ marks' = marks
  <2>1. ASSUME NEW v \in Users PROVE mail'[v] = mail[v] /\ marks'[v] = marks[v]
    BY <1>5 DEF Mapped
  <2> QED
    BY <2>1 DEF Mapped
<1>7. state' = state /\ state[c] = "AUTHORIZATION"
  BY DEF Takes
<1>8. ASSUME NEW v \in Users PROVE opened'[v] = opened[v]
  <2>1. InTransaction(v)' = InTransaction(v)
    BY <1>2, <1>3, <1>7 DEF InTransaction
  <2>2. opened'[v] = InTransaction(v)' /\ opened[v] = InTransaction(v)
    BY DEF Mapped
  <2> QED
    BY <2>1, <2>2
<1>9. opened' = opened
  BY <1>8 DEF Mapped
<1>10. ASSUME NEW v \in Users, owner[v] = c PROVE c \in Holders(v) /\ ~opened[v]
  <2>1. c \in Holders(v)
    BY <1>1, <1>10 DEF Mapped
  <2> QED
    BY <1>4, <1>7, <2>1 DEF Mapped, InTransaction
<1>11. ASSUME NEW v \in Users
       PROVE  owner'[v] = IF v = u THEN c ELSE IF owner[v] = c THEN NoClient ELSE owner[v]
  <2>1. CASE v = u
    BY <1>3, <2>1 DEF Mapped
  <2>2. CASE v # u /\ owner[v] = c
    <3>1. Holders(v)' = {}
      BY <1>3, <1>4, <1>10, <2>2
    <3> QED
      BY <2>2, <3>1 DEF Mapped
  <2>3. CASE v # u /\ owner[v] # c
    <3>1. c \notin Holders(v)
      BY <2>3 DEF Mapped
    <3>2. Holders(v)' = Holders(v)
      BY <1>3, <2>3, <3>1
    <3> QED
      BY <2>3, <3>2 DEF Mapped
  <2> QED
    BY <2>1, <2>2, <2>3
<1>12. owner' = [v \in Users |-> IF v = u THEN c ELSE IF owner[v] = c THEN NoClient ELSE owner[v]]
  BY <1>11 DEF Mapped
<1>13. owner[u] = NoClient
  BY <1>2 DEF Mapped
<1> QED
  BY <1>6, <1>9, <1>10, <1>12, <1>13 DEF Drops!Lock

\* PASS opens the mailbox of the session.
LEMMA MapsToOpen ==
    ASSUME IInv, Mapped, Mapped', NEW c \in s_sock, Opens(c)
    PROVE  Drops!Open(user[c])
<1> PICK u : u = user[c]
  OBVIOUS
<1>1. u \in Users /\ c \in Clients /\ state \in [Clients -> States]
  BY DEF IInv, TypeOK, Opens
<1>2. c \in Holders(u) /\ \A v \in Users : Holders(v)' = Holders(v)
  BY DEF Opens, Holders
<1>3. UNCHANGED Massive /\ state' = [state EXCEPT ![c] = "TRANSACTION"]
  BY DEF Opens
<1>4. ASSUME NEW v \in Users
      PROVE  owner'[v] = owner[v] /\ mail'[v] = mail[v] /\ marks'[v] = marks[v]
  <2>1. owner'[v] = owner[v]
    BY <1>2 DEF Mapped
  <2>2. mail'[v] = mail[v] /\ marks'[v] = marks[v]
    BY <1>3 DEF Mapped
  <2> QED
    BY <2>1, <2>2
<1>5. owner' = owner /\ mail' = mail /\ marks' = marks
  BY <1>4 DEF Mapped
<1>6. opened'[u] = TRUE
  <2>1. InTransaction(u)'
    BY <1>1, <1>2, <1>3 DEF InTransaction
  <2>2. opened'[u] = InTransaction(u)'
    BY <1>1 DEF Mapped
  <2> QED
    BY <2>1, <2>2
<1>7. ASSUME NEW v \in Users, v # u PROVE opened'[v] = opened[v]
  <2>1. c \notin Holders(v)
    BY <1>7 DEF Holders
  <2>2. \A d \in Holders(v) : state'[d] = state[d]
    BY <1>1, <1>3, <2>1 DEF Holders, IInv, TypeOK
  <2>3. InTransaction(v)' = InTransaction(v)
    BY <1>2, <2>2 DEF InTransaction
  <2>4. opened'[v] = InTransaction(v)' /\ opened[v] = InTransaction(v)
    BY DEF Mapped
  <2> QED
    BY <2>3, <2>4
<1>8. opened' = [opened EXCEPT ![u] = TRUE]
  BY <1>1, <1>6, <1>7 DEF Mapped
<1>9. owner[u] # NoClient
  BY <1>1, <1>2 DEF Mapped
<1> QED
  BY <1>5, <1>8, <1>9 DEF Drops!Open

\* Steps of a session in TRANSACTION leave the mapped owners as they are.
LEMMA MapsToHeld ==
    ASSUME Mapped, Mapped', UNCHANGED <<user, state, s_sock>>
    PROVE  owner' = owner /\ opened' = opened
<1>1. ASSUME NEW v \in Users PROVE owner'[v] = owner[v]
  <2>1. Holders(v)' = Holders(v)
    BY DEF Holders
  <2> QED
    BY <2>1 DEF Mapped
<1>2. ASSUME NEW v \in Users PROVE opened'[v] = opened[v]
  <2>1. InTransaction(v)' = InTransaction(v)
    BY DEF InTransaction, Holders
  <2>2. opened'[v] = InTransaction(v)' /\ opened[v] = InTransaction(v)
    BY DEF Mapped
  <2> QED
    BY <2>1, <2>2
<1> QED
  BY <1>1, <1>2 DEF Mapped

\* DELE marks a message of an open mailbox.
LEMMA MapsToMark ==
    ASSUME IInv, TextsInv, Mapped, Mapped', NEW c \in s_sock, NEW k \in Int, Labels(c, k)
    PROVE  \E m \in Users \X (0 .. MaxMessages - 1) : Drops!Mark(user[c], m)
<1> PICK u : u = user[c]
  OBVIOUS
<1>1. /\ u \in Users /\ Massive \in [Users -> Person] /\ Massive[u] \in Person
      /\ HasMessage(Massive[u], k) /\ state[c] = "TRANSACTION"
  BY DEF Labels, Mailbox, IInv, TypeOK, TransactionHoldsMailbox
<1> DEFINE m == Massive[u].messages[k].st
           q == Labelled(Massive[u], k)
<1>2. k \in DOMAIN Massive[u].messages
      /\ TextsIn(q) = TextsIn(Massive[u])
      /\ MarkedIn(q) = MarkedIn(Massive[u]) \cup {m}
  <2> PICK p : p = Massive[u]
    OBVIOUS
  <2>1. p \in Person /\ HasMessage(p, k)
    BY <1>1
  <2>2. /\ k \in DOMAIN p.messages
        /\ TextsIn(Labelled(p, k)) = TextsIn(p)
        /\ MarkedIn(Labelled(p, k)) = MarkedIn(p) \cup {p.messages[k].st}
    BY <2>1, LabelledTexts
  <2> QED
    BY <2>2
<1>3. m \in {u} \X (0 .. MaxMessages - 1)
  BY <1>1, <1>2 DEF TextsInv, Numbered
<1>4. m \in TextsIn(Massive[u])
  BY <1>2 DEF TextsIn
<1>5. \A v \in Users : Massive'[v] = IF v = u THEN q ELSE Massive[v]
  BY <1>1 DEF Labels
<1> HIDE DEF q
<1> PICK text : text = m
  OBVIOUS
<1> HIDE DEF m
<1>6. owner' = owner /\ opened' = opened
  BY MapsToHeld DEF Labels
<1>7. opened[u]
  <2>1. InTransaction(u)
    BY <1>1 DEF InTransaction, Holders
  <2> QED
    BY <1>1, <2>1 DEF Mapped
<1>8. ASSUME NEW v \in Users
      PROVE  mail'[v] = mail[v] /\ marks'[v] = IF v = u THEN marks[u] \cup {text} ELSE marks[v]
  <2>1. mail'[v] = TextsIn(Massive'[v]) /\ marks'[v] = MarkedIn(Massive'[v])
    BY DEF Mapped
  <2>2. mail[v] = TextsIn(Massive[v]) /\ marks[v] = MarkedIn(Massive[v])
    BY DEF Mapped
  <2> QED
    BY <1>2, <1>5, <2>1, <2>2
<1>9. mail' = mail /\ marks' = [marks EXCEPT ![u] = @ \cup {text}]
  BY <1>1, <1>8 DEF Mapped
<1>10. text \in mail[u]
  BY <1>1, <1>4 DEF Mapped
<1>11. text \in Users \X (0 .. MaxMessages - 1)
  BY <1>1, <1>3
<1>12. Drops!Mark(u, text)
  BY <1>6, <1>7, <1>9, <1>10 DEF Drops!Mark
<1> QED
  BY <1>11, <1>12

\* RSET takes the marks of an open mailbox away.
LEMMA MapsToReset ==
    ASSUME IInv, Mapped, Mapped', NEW c \in s_sock, Resets(c)
    PROVE  Drops!Reset(user[c])
<1> PICK u : u = user[c]
  OBVIOUS
<1>1. /\ u \in Users /\ Massive \in [Users -> Person] /\ Massive[u] \in Person
      /\ state[c] = "TRANSACTION"
  BY DEF Resets, IInv, TypeOK, TransactionHoldsMailbox
<1> DEFINE q == deletealllabels(Massive[u])
<1>2. TextsIn(q) = TextsIn(Massive[u]) /\ MarkedIn(q) = {}
  BY <1>1, ResetTexts
<1>3. \A v \in Users : Massive'[v] = IF v = u THEN q ELSE Massive[v]
  BY <1>1 DEF Resets
<1> HIDE DEF q
<1>4. owner' = owner /\ opened' = opened
  BY MapsToHeld DEF Resets
<1>5. opened[u]
  <2>1. InTransaction(u)
    BY <1>1 DEF InTransaction, Holders
  <2> QED
    BY <1>1, <2>1 DEF Mapped
<1>6. ASSUME NEW v \in Users
      PROVE  mail'[v] = mail[v] /\ marks'[v] = IF v = u THEN {} ELSE marks[v]
  <2>1. mail'[v] = TextsIn(Massive'[v]) /\ marks'[v] = MarkedIn(Massive'[v])
    BY DEF Mapped
  <2>2. mail[v] = TextsIn(Massive[v]) /\ marks[v] = MarkedIn(Massive[v])
    BY DEF Mapped
  <2> QED
    BY <1>2, <1>3, <2>1, <2>2
<1>7. mail' = mail /\ marks' = [marks EXCEPT ![u] = {}]
  BY <1>1, <1>6 DEF Mapped
<1> QED
  BY <1>4, <1>5, <1>7 DEF Drops!Reset

\* The end of a session that holds a mailbox commits and releases it.
LEMMA MapsToLeave ==
    ASSUME IInv, IInv', TextsInv, Mapped, Mapped', NEW c \in s_sock, Ends(c), user[c] # -1
    PROVE  Drops!Leave(user[c])
<1> PICK u : u = user[c]
  OBVIOUS
<1>1. /\ u \in Users /\ Massive \in [Users -> Person] /\ Massive[u] \in Person
      /\ Totalled(u, Massive[u]) /\ Numbered(u, Massive[u]) /\ c \in Clients
      /\ state \in [Clients -> States] /\ s_sock \subseteq Clients
  BY DEF IInv, TypeOK, SummIsTotal, Totalled, TextsInv
<1>2. c \in Holders(u) /\ \A d \in Holders(u) : d = c
  BY <1>1 DEF Holders, IInv, HeldByOneSession
<1>3. Holders(u)' = {} /\ \A v \in Users : v # u => Holders(v)' = Holders(v)
  BY <1>2 DEF Ends, Holders
<1>4. /\ Massive'[u] = unused(updatemailbox(u, Massive[u]))
      /\ \A v \in Users : v # u => Massive'[v] = Massive[v]
  BY <1>1 DEF Ends, Epilogue
<1>5. TextsIn(Massive'[u]) = TextsIn(Massive[u]) \ MarkedIn(Massive[u])
  <2> DEFINE q == updatemailbox(u, Massive[u])
  <2>1. q \in Person /\ TextsIn(q) = TextsIn(Massive[u]) \ MarkedIn(Massive[u])
    BY <1>1, UpdateProperties, UpdateTexts
  <2> HIDE DEF q
  <2>2. unused(q).messages = q.messages
    BY <2>1, UnusedProperties
  <2>3. TextsIn(unused(q)) = TextsIn(q)
    BY <2>2 DEF TextsIn
  <2> QED
    BY <1>4, <2>1, <2>3 DEF q
<1>6. MarkedIn(Massive'[u]) = {}
  <2>1. Marked(u)' = {}
    BY <1>1, <1>3 DEF IInv, MarksNeedTransaction
  <2> QED
    BY <2>1 DEF Marked, MarkedIn, MarksIn
<1>7. ASSUME NEW v \in Users
      PROVE  /\ mail'[v] = IF v = u THEN mail[u] \ marks[u] ELSE mail[v]
             /\ marks'[v] = IF v = u THEN {} ELSE marks[v]
  <2>1. mail'[v] = TextsIn(Massive'[v]) /\ marks'[v] = MarkedIn(Massive'[v])
    BY DEF Mapped
  <2>2. mail[v] = TextsIn(Massive[v]) /\ marks[v] = MarkedIn(Massive[v])
    BY DEF Mapped
  <2> QED
    BY <1>4, <1>5, <1>6, <2>1, <2>2
<1>8. mail' = [mail EXCEPT ![u] = @ \ marks[u]] /\ marks' = [marks EXCEPT ![u] = {}]
  BY <1>1, <1>7 DEF Mapped
<1>9. owner[u] # NoClient /\ owner'[u] = NoClient
  BY <1>1, <1>2, <1>3 DEF Mapped
<1>10. opened'[u] = FALSE
  <2>1. ~InTransaction(u)'
    BY <1>3 DEF InTransaction
  <2>2. opened'[u] = InTransaction(u)'
    BY <1>1 DEF Mapped
  <2> QED
    BY <2>1, <2>2
<1>11. ASSUME NEW v \in Users, v # u PROVE owner'[v] = owner[v]
  BY <1>3, <1>11 DEF Mapped
<1>12. ASSUME NEW v \in Users, v # u PROVE opened'[v] = opened[v]
  <2>1. \A d \in Holders(v) : d # c /\ d \in Clients
    BY <1>1, <1>12 DEF Holders
  <2>2. \A d \in Holders(v) : state'[d] = state[d]
    BY <1>1, <2>1 DEF Ends
  <2>3. InTransaction(v)' = InTransaction(v)
    BY <1>3, <1>12, <2>2 DEF InTransaction
  <2>4. opened'[v] = InTransaction(v)' /\ opened[v] = InTransaction(v)
    BY DEF Mapped
  <2> QED
    BY <2>3, <2>4
<1>13. owner' = [owner EXCEPT ![u] = NoClient]
  BY <1>1, <1>9, <1>11 DEF Mapped
<1>14. opened' = [opened EXCEPT ![u] = FALSE]
  BY <1>1, <1>10, <1>12 DEF Mapped
<1> QED
  BY <1>8, <1>9, <1>13, <1>14 DEF Drops!Leave

\* Every step of the sessions is a step of Maildrop, or none.
LEMMA MaildropStep == ASSUME IInv, IInv', TextsInv, [Next]_vars PROVE [Drops!Next]_(Drops!vars)
<1>1. Mapped /\ Mapped'
  BY Mapping, MappingNext
<1>2. /\ user \in [Clients -> Users \cup {-1}] /\ state \in [Clients -> States]
      /\ s_sock \subseteq Clients
  BY DEF IInv, TypeOK
<1>3. CASE Quiet
  BY <1>1, <1>3, MapsToStutter DEF Quiet, Holders
<1>4. ASSUME NEW c \in Clients, Accept(c) PROVE UNCHANGED Drops!vars
  <2>1. \A u \in Users : Holders(u)' = Holders(u)
    BY <1>2, <1>4 DEF Accept, NewSession, Holders, Users
  <2>2. \A u \in Users : \A d \in Holders(u) : state'[d] = state[d]
    BY <1>2, <1>4 DEF Accept, NewSession, Holders
  <2> QED
    BY <1>1, <1>4, <2>1, <2>2, MapsToStutter DEF Accept, NewSession
<1>5. ASSUME NEW c \in s_sock, NEW u \in Users, Takes(c, u) PROVE Drops!Next
  <2>1. Drops!Lock(c, u) /\ c \in Clients
    BY <1>1, <1>2, <1>5, MapsToLock
  <2> QED
    BY <2>1 DEF Drops!Next
<1>6. ASSUME NEW c \in s_sock, Opens(c) PROVE Drops!Next
  <2>1. user[c] \in Users
    BY <1>2, <1>6 DEF Opens
  <2> QED
    BY <1>1, <1>6, <2>1, MapsToOpen DEF Drops!Next
<1>7. ASSUME NEW c \in s_sock, NEW k \in Int, Labels(c, k) PROVE Drops!Next
  <2>1. user[c] \in Users
    BY <1>7 DEF Labels, IInv, TransactionHoldsMailbox
  <2> QED
    BY <1>1, <1>7, <2>1, MapsToMark DEF Drops!Next
<1>8. ASSUME NEW c \in s_sock, Resets(c) PROVE Drops!Next
  <2>1. user[c] \in Users
    BY <1>8 DEF Resets, IInv, TransactionHoldsMailbox
  <2> QED
    BY <1>1, <1>8, <2>1, MapsToReset DEF Drops!Next
<1>9. ASSUME NEW c \in s_sock, Ends(c) PROVE Drops!Next \/ UNCHANGED Drops!vars
  <2>1. CASE user[c] # -1
    <3>1. user[c] \in Users
      BY <1>2, <2>1
    <3> QED
      BY <1>1, <1>9, <2>1, <3>1, MapsToLeave DEF Drops!Next
  <2>2. CASE user[c] = -1
    <3>1. \A u \in Users : c \notin Holders(u)
      BY <2>2 DEF Holders, Users
    <3>2. \A u \in Users : Holders(u)' = Holders(u)
      BY <1>9, <3>1 DEF Ends, Holders
    <3>3. \A u \in Users : \A d \in Holders(u) : state'[d] = state[d]
      BY <1>2, <1>9, <3>1 DEF Ends, Holders
    <3> QED
      BY <1>1, <1>9, <2>2, <3>2, <3>3, MapsToStutter DEF Ends, Epilogue
  <2> QED
    BY <2>1, <2>2
<1> QED
  BY <1>3, <1>4, <1>5, <1>6, <1>7, <1>8, <1>9, StepKinds DEF Kinds

\* Mailboxes start without owner and marks.
LEMMA MaildropInit == ASSUME Init, IInv, TextsInv PROVE Drops!Init
<1>1. Mapped
  BY Mapping
<1>2. \A u \in Users : Holders(u) = {}
  BY DEF Init, Holders
<1>3. ASSUME NEW u \in Users PROVE owner[u] = NoClient /\ opened[u] = FALSE
  BY <1>1, <1>2 DEF Mapped, InTransaction
<1>4. ASSUME NEW u \in Users PROVE marks[u] = {}
  <2>1. Marked(u) = {}
    BY <1>2 DEF IInv, MarksNeedTransaction
  <2> QED
    BY <2>1 DEF marks, MarkedTexts
<1>5. ASSUME NEW u \in Users PROVE mail[u] \in SUBSET (Users \X (0 .. MaxMessages - 1))
  <2>1. \A i \in DOMAIN Massive[u].messages :
           Massive[u].messages[i].st \in {u} \X (0 .. MaxMessages - 1)
    BY DEF TextsInv, Numbered
  <2> QED
    BY <1>1, <2>1 DEF Mapped, TextsIn
<1> QED
  BY <1>1, <1>3, <1>4, <1>5 DEF Mapped, Drops!Init

(***************************************************************************)
(* The sessions implement the promise of a mailbox: one owner at a time,   *)
(* marks only by an owner who opened it, and the marked messages gone      *)
(* together with the owner, however the owner ends.                        *)
(***************************************************************************)
THEOREM Refinement == Spec => ImplementsMaildrop
<1>1. Init /\ IInv /\ TextsInv => Drops!Init
  BY MaildropInit
<1>2. IInv /\ IInv' /\ TextsInv /\ [Next]_vars => [Drops!Next]_(Drops!vars)
  BY MaildropStep
<1> QED
  BY <1>1, <1>2, Invariance, TextsApart, PTL DEF Spec, ImplementsMaildrop, Drops!Spec
=============================================================================
