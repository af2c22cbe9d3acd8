---------------------------- MODULE Pop3Sessions ----------------------------
(***************************************************************************)
(* The sessions of general/multi_server_pop3: the set s_sock of sessions   *)
(* work() serves, what opens one, what a complete command line does to it, *)
(* and what ends it.  The server has one thread, so a command is one step; *)
(* what is interleaved is the commands of different sessions.  How bytes   *)
(* become lines and which session select() serves next is the matter of    *)
(* Pop3Multiplex and LineFraming.                                          *)
(***************************************************************************)
EXTENDS CommandHandler

VARIABLE s_sock   \* the sessions that are open

vars == <<Massive, user, state, result, s_sock>>

Init == HandlerInit /\ s_sock = {}

(***************************************************************************)
(* work() accepts a connection and pushes a new param.                     *)
(***************************************************************************)
NewSession(c) ==
    /\ user' = [user EXCEPT ![c] = -1]
    /\ state' = [state EXCEPT ![c] = "AUTHORIZATION"]
    /\ UNCHANGED <<Massive, result>>

Accept(c) ==
    /\ c \notin s_sock
    /\ NewSession(c)
    /\ s_sock' = s_sock \cup {c}

(***************************************************************************)
(* process_data handles a line; the session is closed and erased when the  *)
(* handler cleared q.                                                      *)
(***************************************************************************)
HandleLine(c, line) ==
    /\ c \in s_sock
    /\ command_handler(c, line)
    /\ s_sock' = IF result'.q = 0 THEN s_sock \ {c} ELSE s_sock

(***************************************************************************)
(* recv() returns 0 or -1, or the line outgrows buf: process_data handles  *)
(* a "QUIT" nobody sent, whose reply is not sent either, and closes.       *)
(***************************************************************************)
\* Mutant: the session is dropped without the "QUIT".
Hangup_noQuit(c) ==
    /\ c \in s_sock
    /\ state' = [state EXCEPT ![c] = "UPDATE"]
    /\ s_sock' = s_sock \ {c}
    /\ UNCHANGED <<Massive, user, result>>

Hangup(c) ==
    /\ c \in s_sock
    /\ QUIT(c, <<>>)
    /\ s_sock' = s_sock \ {c}

Next == \E c \in Clients :
            \/ Accept(c)
            \/ \E line \in Lines : HandleLine(c, line)
            \/ Hangup(c)

Spec == Init /\ [][Next]_vars

-----------------------------------------------------------------------------
Holders(u) == {c \in s_sock : user[c] = u}

MailOf(u)  == {m.st : m \in {Massive[u].messages[i] : i \in DOMAIN Massive[u].messages}}
Marked(u) == {i \in DOMAIN Massive[u].messages : Massive[u].messages[i].del}

(***************************************************************************)
(* The variables have the types of Massive, param and result.              *)
(***************************************************************************)
TypeOK ==
    /\ Massive \in [Users -> Person]
    /\ user \in [Clients -> Users \cup {-1}]
    /\ state \in [Clients -> States]
    /\ result \in Reply
    /\ s_sock \subseteq Clients

(***************************************************************************)
(* Two sessions never hold the same mailbox, whatever USER commands they   *)
(* interleave (login, unit_data.cpp 27-38).                                *)
(***************************************************************************)
HeldByOneSession == \A u \in Users : \A c, d \in Holders(u) : c = d

(***************************************************************************)
(* A mailbox is locked exactly while some open session holds it: no lock   *)
(* outlives its session, however that ends, and no session holds a mailbox *)
(* another may take (USER 22-62, epilogue 304-309, process_data 11-17).    *)
(***************************************************************************)
LockedIffHeld == \A u \in Users : Massive[u].used <=> Holders(u) # {}

(***************************************************************************)
(* Deletion marks exist only in the mailbox of a session that has given    *)
(* the password.  So the QUIT of a session that only named the mailbox,    *)
(* which runs updatemailbox too, finds nothing to erase, and a session     *)
(* that logs in later inherits no mark.                                    *)
(***************************************************************************)
MarksNeedTransaction ==
    \A u \in Users : Marked(u) # {} => \E c \in Holders(u) : state[c] = "TRANSACTION"

(***************************************************************************)
(* A session in TRANSACTION holds a mailbox: STAT .. RSET index Massive    *)
(* with its user and never with -1.                                        *)
(***************************************************************************)
TransactionHoldsMailbox ==
    \A c \in s_sock : /\ state[c] # "UPDATE"
                      /\ state[c] = "TRANSACTION" => user[c] \in Users

(***************************************************************************)
(* summ, which is kept incrementally, is the total size of the messages in *)
(* the mailbox, marked ones included (addmessage, updatemailbox).          *)
(***************************************************************************)
SummIsTotal ==
    \A u \in Users : Massive[u].summ = Len(Massive[u].messages) * Length(u)

(***************************************************************************)
(* Messages leave a mailbox only when the session that holds it in         *)
(* TRANSACTION ends; exactly the marked ones leave and the others keep     *)
(* their order.  So message numbers mean the same during a session.        *)
(***************************************************************************)
Stored(messages) == [i \in DOMAIN messages |-> messages[i].st]

\* The texts of t are those of s at the places in K, in the order of s.
Leaves(s, K, t) ==
    \E place \in [DOMAIN t -> K] :
        /\ \A k \in K : \E n \in DOMAIN t : place[n] = k
        /\ \A m, n \in DOMAIN t : m < n => place[m] < place[n]
        /\ \A n \in DOMAIN t : t[n].st = s[place[n]].st

OnlyCommitErases ==
    [][\A u \in Users :
          Stored(Massive'[u].messages) # Stored(Massive[u].messages) =>
             /\ \E c \in Holders(u) : state[c] = "TRANSACTION" /\ c \notin s_sock'
             /\ Leaves(Massive[u].messages, DOMAIN Massive[u].messages \ Marked(u),
                       Massive'[u].messages)]_vars

(***************************************************************************)
(* A message answered "message k deleted" stays marked until the session   *)
(* that marked it sends RSET or ends, and is gone in that case; nothing    *)
(* any other session sends can take the mark back.                         *)
(***************************************************************************)
MarksAreKept ==
    [][\A u \in Users : \A i \in Marked(u) : \E c \in Holders(u) :
          \/ /\ c \in s_sock'
             /\ Stored(Massive'[u].messages) = Stored(Massive[u].messages)
             /\ i \in Marked(u)' \/ (result'.sock = c /\ result'.text = "maildrop has")
          \/ /\ c \notin s_sock'
             /\ Massive[u].messages[i].st \notin MailOf(u)']_vars

(***************************************************************************)
(* The sessions implement Maildrop: a mailbox belongs to the session that  *)
(* holds it, is open while that session is in TRANSACTION, and its marks   *)
(* are its messages labelled del.                                          *)
(***************************************************************************)
MarkedTexts(u) == {Massive[u].messages[i].st : i \in Marked(u)}

owner  == [u \in Users |-> IF Holders(u) = {} THEN NoClient
                           ELSE CHOOSE c \in Holders(u) : TRUE]
opened == [u \in Users |-> \E c \in Holders(u) : state[c] = "TRANSACTION"]
mail   == [u \in Users |-> MailOf(u)]
marks  == [u \in Users |-> MarkedTexts(u)]

Drops == INSTANCE Maildrop WITH
    Nobody <- NoClient,
    Boxes  <- Users,
    Texts  <- Users \X (0 .. MaxMessages - 1)

(***************************************************************************)
(* Every behaviour of the sessions is one Maildrop allows: in particular a *)
(* hangup commits and releases in one step, as QUIT does, and a session    *)
(* takes a mailbox only when nobody has it.                                *)
(***************************************************************************)
ImplementsMaildrop == Drops!Spec
=============================================================================
