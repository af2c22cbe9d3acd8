------------------------------ MODULE Mailbox ------------------------------
(***************************************************************************)
(* The mailboxes of general/multi_server_pop3: class Person of unit_data.h *)
(* and unit_data.cpp.  A mailbox is a value; each method is an operator    *)
(* that gives what the method returns, or the mailbox it leaves behind.    *)
(*                                                                         *)
(* A message is the pair <<u, k>> that stands for the text                 *)
(* "user<u>message<k>" UsersInit writes.  Every message of mailbox u has   *)
(* then the same length, Length(u).                                        *)
(***************************************************************************)
EXTENDS Erasing

CONSTANTS MAXUSERS,     \* number of mailboxes
          MaxMessages   \* most messages UsersInit puts in one (9 in the code)

ASSUME MailboxAssumption == MAXUSERS \in Nat \ {0} /\ MaxMessages \in Nat

Users == 0 .. MAXUSERS - 1

Text    == Users \X Nat
Message == [st : Text, del : BOOLEAN]
Person  == [messages : Seq(Message), summ : Nat, used : BOOLEAN]

(***************************************************************************)
(* st.length(): "user" and "message" are 11 characters, k is one digit and *)
(* u has up to four.                                                       *)
(***************************************************************************)
Digits(u) == IF u < 10 THEN 1 ELSE IF u < 100 THEN 2 ELSE IF u < 1000 THEN 3 ELSE 4
Length(u) == 12 + Digits(u)

(***************************************************************************)
(* What a method returns.                                                  *)
(***************************************************************************)

\* 1: the mailbox was free (and is taken), -1: it is in use, 0: another name.
login(p, matches) == IF ~matches THEN 0 ELSE IF p.used THEN -1 ELSE 1

cntmess(p)  == Len(p.messages)
summmess(p) == p.summ

\* showmessage(k) # "": a number outside the mailbox shows the empty string.
HasMessage(p, k)  == k >= 1 /\ k <= Len(p.messages)
showmessage(p, k) == p.messages[k].st

\* 0: no such message, -1: marked before, 1: marked now.
setlabeldel(p, k) == IF ~HasMessage(p, k) THEN 0 ELSE IF p.messages[k].del THEN -1 ELSE 1

(***************************************************************************)
(* The mailbox a method leaves behind.                                     *)
(***************************************************************************)
taken(p)  == [p EXCEPT !.used = TRUE]
unused(p) == [p EXCEPT !.used = FALSE]

Labelled(p, k) == [p EXCEPT !.messages[k].del = TRUE]

deletealllabels(p) ==
    [p EXCEPT !.messages = [k \in DOMAIN p.messages |->
                               [p.messages[k] EXCEPT !.del = FALSE]]]

(***************************************************************************)
(* updatemailbox erases the marked messages one by one; the others keep    *)
(* their order and move up (Erasing).                                      *)
(***************************************************************************)
\* Mutants: the labels are left alone; the sizes are not subtracted.
updatemailbox_nothing(u, p) == p
updatemailbox_nosumm(u, p)  == [p EXCEPT !.messages = Kept(@)]

\* Mutant: cur-- stays on the erased message, which is counted twice.
updatemailbox_twice(u, p) ==
    [p EXCEPT !.messages = Kept(p.messages),
              !.summ = p.summ - 2 * (Len(p.messages) - Len(Kept(p.messages))) * Length(u)]

\* Mutant: erase(w) without stepping back skips the message after an erased one.
updatemailbox_skips(u, p) ==
    LET s    == p.messages
        gone == {i \in 1 .. Len(s) : s[i].del /\ (i > 1 => ~s[i - 1].del)}
        left == (1 .. Len(s)) \ gone
    IN  [p EXCEPT !.messages = [n \in 1 .. Cardinality(left) |-> s[Enumerate(left)[n]]],
                  !.summ = @ - Cardinality(gone) * Length(u)]

updatemailbox(u, p) ==
    [p EXCEPT !.messages = Kept(p.messages),
              !.summ = p.summ - (Len(p.messages) - Len(Kept(p.messages))) * Length(u)]

(***************************************************************************)
(* UsersInit: mailbox u starts free, with t messages numbered from 0.      *)
(***************************************************************************)
NewPerson(u, t) == [messages |-> [k \in 1 .. t |-> [st |-> <<u, k - 1>>, del |-> FALSE]],
                    summ |-> t * Length(u),
                    used |-> FALSE]

UsersInit == {[u \in Users |-> NewPerson(u, t[u])] : t \in [Users -> 0 .. MaxMessages]}
=============================================================================
