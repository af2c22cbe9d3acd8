--------------------------- MODULE CommandHandler ---------------------------
(***************************************************************************)
(* command_handler of general/multi_server_pop3/unit_handler.cpp: what one *)
(* command line does to the mailboxes (Massive), to the session it arrived *)
(* on (its user and state) and to the global reply buffer (result).        *)
(*                                                                         *)
(* A line is [command, param]: param is <<>> when the line has one word    *)
(* (sscanf leaves the empty string) and <<n>> otherwise.  As a user name   *)
(* or a password <<n>> stands for "user<n>" or "pass<n>", as a message     *)
(* number for n; -1 stands for text that is none of these.                 *)
(***************************************************************************)
EXTENDS Mailbox

CONSTANTS Clients,    \* the peers, each with at most one session at a time
          NoClient,   \* the reply buffer before the first command
          Lines       \* the command lines clients send

ASSUME HandlerAssumption ==
    /\ NoClient \notin Clients
    /\ Lines \subseteq [command : STRING, param : Seq(Int)]

VARIABLES Massive,    \* mailbox of every user
          user,       \* param.user: index of the session's mailbox, or -1
          state,      \* param.state
          result      \* the reply the last command left in the global buffer

handler_vars == <<Massive, user, state, result>>

States == {"AUTHORIZATION", "TRANSACTION", "UPDATE"}

(***************************************************************************)
(* A reply, the session it is for and q, the flag that tells process_data  *)
(* to keep the connection (1) or close it (0).                             *)
(***************************************************************************)
Wordings == {"", "name is valid mailbox", "wrong username", "maildrop locked and ready",
             "invalid password", "client is not identified", "dewey POP3 server",
             "invalid command", "stat", "messages", "scan", "retr", "no such message",
             "message deleted", "message already deleted", "maildrop has"}

Reply == [sock : Clients \cup {NoClient}, q : {0, 1}, status : {"", "+OK", "-ERR"},
          text : Wordings, nums : Seq(Int), body : Seq(Int \X Int)]

Ok(c, text, nums, body) ==
    [sock |-> c, q |-> 1, status |-> "+OK", text |-> text, nums |-> nums, body |-> body]
Err(c, text) ==
    [sock |-> c, q |-> 1, status |-> "-ERR", text |-> text, nums |-> <<>>, body |-> <<>>]
Bye(c) ==
    [sock |-> c, q |-> 0, status |-> "+OK", text |-> "dewey POP3 server",
     nums |-> <<>>, body |-> <<>>]
NoReply ==
    [sock |-> NoClient, q |-> 1, status |-> "", text |-> "", nums |-> <<>>, body |-> <<>>]

HandlerInit ==
    /\ Massive \in UsersInit
    /\ user = [c \in Clients |-> -1]
    /\ state = [c \in Clients |-> "UPDATE"]
    /\ result = NoReply

atoi(param) == IF param = <<>> THEN 0 ELSE Head(param)

Mailbox(c) == Massive[user[c]]

Answer(reply) == result' = reply /\ UNCHANGED <<Massive, user, state>>

(***************************************************************************)
(* USER: login() takes the first mailbox of that name if it is free, and   *)
(* only then is the mailbox the session held before released.  A name that *)
(* is unknown, or in use (by this very session too), is refused and leaves *)
(* the session with what it held.                                          *)
(***************************************************************************)
login_at(u, param) == login(Massive[u], param = <<u>>)

\* Mutant: the old mailbox stays locked.
Relogin_keepsOld(c, u) == [Massive EXCEPT ![u] = taken(@)]

Relogin(c, u) ==
    [v \in Users |-> IF v = user[c] THEN unused(Massive[v])
                     ELSE IF v = u THEN taken(Massive[v]) ELSE Massive[v]]

USER(c, param) ==
    /\ state[c] = "AUTHORIZATION"
    /\ \/ \E u \in Users :
             /\ login_at(u, param) = 1
             /\ Massive' = Relogin(c, u)
             /\ user' = [user EXCEPT ![c] = u]
             /\ result' = Ok(c, "name is valid mailbox", <<>>, <<>>)
             /\ UNCHANGED state
       \/ /\ \A u \in Users : login_at(u, param) # 1
          /\ Answer(Err(c, "wrong username"))

PASS(c, param) ==
    /\ state[c] = "AUTHORIZATION"
    /\ \/ /\ user[c] # -1
          /\ param = <<user[c]>>
          /\ state' = [state EXCEPT ![c] = "TRANSACTION"]
          /\ result' = Ok(c, "maildrop locked and ready", <<>>, <<>>)
          /\ UNCHANGED <<Massive, user>>
       \/ /\ user[c] # -1
          /\ param # <<user[c]>>
          /\ Answer(Err(c, "invalid password"))
       \/ /\ user[c] = -1
          /\ Answer(Err(c, "client is not identified"))

(***************************************************************************)
(* QUIT without a parameter, in either state: the session goes to UPDATE,  *)
(* and the epilogue of command_handler erases the marked messages of the   *)
(* mailbox it holds and releases it.                                       *)
(***************************************************************************)
\* Mutant: the mailbox is released but not updated.
Epilogue_noUpdate(c) ==
    Massive' = IF user[c] = -1 THEN Massive
               ELSE [Massive EXCEPT ![user[c]] = unused(@)]

Epilogue(c) ==
    Massive' = IF user[c] = -1 THEN Massive
               ELSE [Massive EXCEPT ![user[c]] = unused(updatemailbox(user[c], @))]

QUIT(c, param) ==
    /\ state[c] \in {"AUTHORIZATION", "TRANSACTION"}
    /\ \/ /\ param = <<>>
          /\ state' = [state EXCEPT ![c] = "UPDATE"]
          /\ result' = Bye(c)
          /\ Epilogue(c)
          /\ UNCHANGED user
       \/ /\ param # <<>>
          /\ Answer(Err(c, "invalid command"))

(***************************************************************************)
(* The commands of TRANSACTION.                                            *)
(***************************************************************************)
Drop(c) == <<cntmess(Mailbox(c)), summmess(Mailbox(c))>>

STAT(c, param) ==
    /\ state[c] = "TRANSACTION"
    /\ Answer(IF param = <<>> THEN Ok(c, "stat", Drop(c), <<>>)
              ELSE Err(c, "invalid command"))

LIST(c, param) ==
    /\ state[c] = "TRANSACTION"
    /\ \/ /\ param = <<>>
          /\ Answer(Ok(c, "messages", Drop(c),
                       [k \in 1 .. cntmess(Mailbox(c)) |-> <<k, Length(user[c])>>]))
       \/ /\ param # <<>>
          /\ HasMessage(Mailbox(c), atoi(param))
          /\ Answer(Ok(c, "scan", <<atoi(param), Length(user[c])>>, <<>>))
       \/ /\ param # <<>>
          /\ ~HasMessage(Mailbox(c), atoi(param))
          /\ Answer(Err(c, "no such message"))

\* A marked message is still shown: RETR does not look at its label.
RETR(c, param) ==
    /\ state[c] = "TRANSACTION"
    /\ \/ /\ HasMessage(Mailbox(c), atoi(param))
          /\ Answer(Ok(c, "retr", <<Length(user[c])>>,
                       <<showmessage(Mailbox(c), atoi(param))>>))
       \/ /\ ~HasMessage(Mailbox(c), atoi(param))
          /\ Answer(Err(c, "no such message"))

DELE(c, param) ==
    /\ state[c] = "TRANSACTION"
    /\ LET k == atoi(param)
           p == setlabeldel(Mailbox(c), k)
       IN  \/ /\ p = 1
              /\ Massive' = [Massive EXCEPT ![user[c]] = Labelled(@, k)]
              /\ result' = Ok(c, "message deleted", <<k>>, <<>>)
              /\ UNCHANGED <<user, state>>
           \/ p = -1 /\ Answer(Err(c, "message already deleted"))
           \/ p = 0 /\ Answer(Err(c, "no such message"))

RSET(c, param) ==
    /\ state[c] = "TRANSACTION"
    /\ \/ /\ param = <<>>
          /\ Massive' = [Massive EXCEPT ![user[c]] = deletealllabels(@)]
          /\ result' = Ok(c, "maildrop has", Drop(c), <<>>)
          /\ UNCHANGED <<user, state>>
       \/ /\ param # <<>>
          /\ Answer(Err(c, "invalid command"))

(***************************************************************************)
(* Any other word, and the word of another state.                          *)
(***************************************************************************)
CommandsOf(s) == IF s = "AUTHORIZATION" THEN {"USER", "PASS", "QUIT"}
                 ELSE {"STAT", "LIST", "RETR", "DELE", "RSET", "QUIT"}

Invalid(c, command) ==
    /\ state[c] \in {"AUTHORIZATION", "TRANSACTION"}
    /\ command \notin CommandsOf(state[c])
    /\ Answer(Err(c, "invalid command"))

command_handler(c, line) ==
    \/ line.command = "USER" /\ USER(c, line.param)
    \/ line.command = "PASS" /\ PASS(c, line.param)
    \/ line.command = "QUIT" /\ QUIT(c, line.param)
    \/ line.command = "STAT" /\ STAT(c, line.param)
    \/ line.command = "LIST" /\ LIST(c, line.param)
    \/ line.command = "RETR" /\ RETR(c, line.param)
    \/ line.command = "DELE" /\ DELE(c, line.param)
    \/ line.command = "RSET" /\ RSET(c, line.param)
    \/ Invalid(c, line.command)
=============================================================================
