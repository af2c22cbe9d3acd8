------------------------------- MODULE Locks -------------------------------
(***************************************************************************)
(* What the POP3 servers promise of the locks alone, the weaker ones too:  *)
(* a mailbox has at most one holder, only its holder gives it up, and a    *)
(* holder that is lost (its session ended in a way that releases nothing)  *)
(* leaves the mailbox locked for good; nobody is ever given it by mistake. *)
(***************************************************************************)
CONSTANTS Clients, Boxes,
          Nobody,   \* the holder of a free mailbox
          Lost      \* the holder of one that is never released

VARIABLE holder

Init == holder = [b \in Boxes |-> Nobody]

\* A client takes a free mailbox, and gives up the one it had.
Lock(c, b) ==
    /\ holder[b] = Nobody
    /\ holder' = [d \in Boxes |-> IF d = b THEN c
                                  ELSE IF holder[d] = c THEN Nobody ELSE holder[d]]

GiveUp(b, next) ==
    /\ holder[b] \in Clients
    /\ holder' = [holder EXCEPT ![b] = next]

Next == \E b \in Boxes :
            \/ \E c \in Clients : Lock(c, b)
            \/ GiveUp(b, Nobody)
            \/ GiveUp(b, Lost)

\* A step of a server: one of these, or none.
Step == [Next]_holder

Spec == Init /\ [][Next]_holder
=============================================================================
