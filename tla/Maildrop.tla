------------------------------ MODULE Maildrop ------------------------------
(***************************************************************************)
(* What the POP3 servers of this repository promise of a mailbox: it has   *)
(* at most one owner, only an owner that opened it marks messages, and the *)
(* marked messages disappear at the moment the owner leaves, together and  *)
(* with the release of the mailbox.  Connections, commands and replies are *)
(* not part of the promise.                                                *)
(***************************************************************************)
EXTENDS FiniteSets

CONSTANTS Clients,  \* who may own a mailbox
          Nobody,   \* the owner of a free mailbox
          Boxes,    \* the mailboxes
          Texts     \* the messages a mailbox may hold

VARIABLES owner,    \* owner of every mailbox
          opened,   \* has its owner given the password?
          mail,     \* its messages
          marks     \* those its owner has marked

vars == <<owner, opened, mail, marks>>

TypeOK ==
    /\ owner \in [Boxes -> Clients \cup {Nobody}]
    /\ opened \in [Boxes -> BOOLEAN]
    /\ mail \in [Boxes -> SUBSET Texts]
    /\ marks \in [Boxes -> SUBSET Texts]

Init ==
    /\ owner = [b \in Boxes |-> Nobody]
    /\ opened = [b \in Boxes |-> FALSE]
    /\ mail \in [Boxes -> SUBSET Texts]
    /\ marks = [b \in Boxes |-> {}]

\* A client that has opened nothing takes a free mailbox and gives up the one it had.
Lock(c, b) ==
    /\ owner[b] = Nobody
    /\ \A d \in Boxes : owner[d] = c => ~opened[d]
    /\ owner' = [d \in Boxes |-> IF d = b THEN c
                                 ELSE IF owner[d] = c THEN Nobody ELSE owner[d]]
    /\ UNCHANGED <<opened, mail, marks>>

Open(b) ==
    /\ owner[b] # Nobody
    /\ opened' = [opened EXCEPT ![b] = TRUE]
    /\ UNCHANGED <<owner, mail, marks>>

Mark(b, m) ==
    /\ opened[b]
    /\ m \in mail[b]
    /\ marks' = [marks EXCEPT ![b] = @ \cup {m}]
    /\ UNCHANGED <<owner, opened, mail>>

Reset(b) ==
    /\ opened[b]
    /\ marks' = [marks EXCEPT ![b] = {}]
    /\ UNCHANGED <<owner, opened, mail>>

Leave(b) ==
    /\ owner[b] # Nobody
    /\ owner' = [owner EXCEPT ![b] = Nobody]
    /\ opened' = [opened EXCEPT ![b] = FALSE]
    /\ mail' = [mail EXCEPT ![b] = @ \ marks[b]]
    /\ marks' = [marks EXCEPT ![b] = {}]

Next == \E b \in Boxes :
            \/ \E c \in Clients : Lock(c, b)
            \/ Open(b)
            \/ \E m \in Texts : Mark(b, m)
            \/ Reset(b)
            \/ Leave(b)

Spec == Init /\ [][Next]_vars
=============================================================================
