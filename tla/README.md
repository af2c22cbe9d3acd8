# TLA+ models of test_network_prog

The repository is the workshop of three students learning network programming:
several POP3 servers and HTTP servers, each a variation on the previous one,
and a last POP3 server, `general/multi_server_pop3`, that puts the parts
together. The servers keep all mailboxes in memory, and what can go wrong in
them is what goes wrong in any server with sessions: who owns a mailbox, what
is committed when a session ends (and sessions end in many ways), how a byte
stream becomes commands, and which session is served next. This directory
models that, checks it with TLC and proves the POP3 servers' part of it with
TLAPS.

## 1. The system

### The joint POP3 server, `general/multi_server_pop3`

One process, one thread, three layers:

| part | files | state | operations |
|---|---|---|---|
| mailboxes | `unit_data.*` | `Massive[MAXUSERS]` of `Person`: `messages` (text, `del`), `summ`, `used` | `login`, `unused`, `setlabeldel`, `deletealllabels`, `updatemailbox`, readers; `UsersInit` |
| command handler | `unit_handler.*` | `user`, `state` of the session (by reference), the global `result` | `command_handler`: USER, PASS, QUIT, STAT, LIST, RETR, DELE, RSET, anything else; epilogue when the state is UPDATE |
| select loop | `unit_multiplex.*` | `s_sock`, a vector of `param` (socket, user, state, `buf`); the `readset` of the pass | `work` (select, one accept, serve), `process_data` (recv of 2 bytes, end of line, hangup) |
| start-up | `server.cpp` | none | bind, `UsersInit`, `work` |
| other | `unit_threads.cpp`, `spam_bot_test`, `test/test.pl` | | dead code (commented out in `server.cpp`); clients |

The loop calls the handler by a function call per line, the handler calls the
mailbox methods. `used` is the lock of a mailbox; a session holds the mailbox
`user` is the index of. The hard behaviours:

* sessions interleave at every command: a USER by a session that already
  holds a mailbox, names somebody else's, or its own again;
* a session ends by QUIT, by the end of its input, by an error, or by a line
  that does not fit; the last three are turned into a QUIT by `process_data`
  (lines 11-17), so deletions are committed and the lock released;
* `updatemailbox` erases inside its iteration and keeps `summ` incrementally;
* `work` erases the session it serves inside its iteration (line 112);
* a failing `accept` abandons the pass (lines 84-88);
* replies go to peers that may have gone: nothing catches SIGPIPE;
* `recv` takes 2 bytes, and what follows a `'\r'` in them is dropped.

What makes it correct: a mailbox has at most one session and is locked exactly
while it has one; only a session that gave the password marks messages, marks
live as long as the session, and exactly the marked messages are erased, when
it ends; sizes and numbers stay in step with the messages; every line reaches
the handler whole; every session that has something to say is served; the
session of a peer that is gone ends.

### The others

| part | what it is | state | hard behaviour |
|---|---|---|---|
| `flavik/pop3/multhread/v1.0` | POP3, one thread per connection | shared `Massive` without a lock, locals of a thread | `login` called twice by USER; close before update before release; nothing ends a session but QUIT |
| `flavik/pop3/multiplex/v1.0`, `v1.001` | POP3, select loop, predecessors of the joint server | `Massive`, a vector of `ClientInfo` (socket, state, user, `buf`, `cntwrcmd`) | a session closed for its errors keeps its lock, and the end of the input closes none; CR LF must arrive in one chunk |
| `evgen/pop3/thread` | POP3, one thread per connection | the array `u` of locks, locals `numb`, `stage`, `word`, `name` | the number of the mailbox is read before it is set; test-then-set of the lock; words of the line before |
| `evgen/pop3/multip` | POP3, select loop | `u`, vectors of sessions | a session that ends without QUIT keeps its lock; the vector is erased while it is walked |
| `flavik/multi_http_static_server/v1.0_alpha` | HTTP, libevent callbacks | an `fd_state` per connection: buffer, FILE, events, timer | keep-alive: the state of the request before; a file sent in pieces; requests in pieces or two in one chunk |
| `evgen/http` | HTTP, libevent callbacks, one request per connection | an `fd_state`: buffer, FILE, events; the process-wide `errno` | `do_write` decides by an `errno` another call may have set |
| `evgen/http/evhttp/http_serv.cpp` | one callback on libevent's HTTP server | none but the process's descriptors | works on descriptors 0 and 1 instead of the file's |
| `evgen/http/evhttp/pr.cpp` | the rot13 echo server of libevent's documentation | an `fd_state` | not part of the servers |
| `parse`, `kuzalex`, `docs` | Perl scrapers and their data | none | sequential input and output |

What makes the POP3 servers correct is what makes the joint one correct. An
HTTP connection is correct when what its peer receives is the whole answer to
what it asked, in order, from the file it asked for; when every connection has
an event that will move it on, and none that is freed has one; when a peer that
reads is served to the end and one that is gone is forgotten.

## 2. The modules

| module | models | reads on |
|---|---|---|
| `Mailbox` | `class Person`, `UsersInit` (`unit_data.*`) | a mailbox is a value, a method an operator |
| `CommandHandler` | `command_handler` | one action per command word, with all its refusals and the epilogue |
| `Pop3Sessions` | the sessions: `s_sock` as a set, a whole line per step | EXTENDS `CommandHandler` |
| `Maildrop` | the abstract promise of all the POP3 servers: Lock, Open, Mark, Reset, Leave | implemented by `Pop3Sessions` and `ThreadedPop3` |
| `Network` | the peers and the kernel: connections, what was sent and not yet received, resets | external code; INSTANCEd by both select loops |
| `Pop3Multiplex` | `work` and `process_data` | EXTENDS `CommandHandler`, implements `Pop3Sessions` |
| `LineFraming` | bytes to lines in `process_data` and in the loops of v1.0 and v1.001 | on its own |
| `MultiplexV1` | `flavik/pop3/multiplex/v1.0/server.cpp`: the loop of `main` and `string_handler` | INSTANCEs `Network`, implements `Locks` |
| `ThreadedPop3` | `flavik/pop3/multhread/v1.0/server.cpp` | INSTANCEs `Maildrop`, which it implements when serial |
| `Locks` | the abstract promise of the locks alone, where a lock may be lost with its session | implemented by `MultiplexV1` and `EvgenMultip`, and by `EvgenThread` when orderly |
| `EvgenMultip` | `evgen/pop3/multip/server3.cpp` | INSTANCEs `Network`, implements `Locks` |
| `EvgenThread` | `evgen/pop3/thread/server2.cpp` | on its own |
| `EventLoop` | libevent: pending and active events, timers, the order of a pass | external code; EXTENDS `Network` |
| `HttpStatic` | `flavik/multi_http_static_server/v1.0_alpha` | EXTENDS `EventLoop` |
| `HttpServ` | `evgen/http/http_serv.cpp` | EXTENDS `EventLoop` |
| `ImgServer` | `evgen/http/evhttp/http_serv.cpp` and the descriptor table | on its own |
| `Erasing` | the erase loop of `updatemailbox`, which three servers have: what a vector keeps | INSTANCEd by their modules |
| `VectorProofs` | lemmas: elements of a vector, append, erase, the enumeration behind `Kept` | extended by the proofs about servers |
| `Pop3SessionsProofs`, `Pop3MultiplexProofs`, `MultiplexV1Proofs`, `EvgenMultipProofs`, `HttpStaticProofs` | theorems | each EXTENDS the module it proves about |
| `FlavikProofs` | theorems | EXTENDS `ThreadedPop3` and `LineFraming` |
| `EvgenProofs` | theorems | EXTENDS `EvgenThread`, `HttpServ` and `ImgServer` |
| `MC*` | TLC's clients, lines, files and symmetry | |

Operators whose name contains `_` and that follow a comment "Mutant" are
faulty variants of the operator after them (a dropped test, a missing reset).
No specification uses them: each shows, put in the place of the original,
that a property can fail.

Some properties hold of every environment and others only of some: of peers
that wait for their answers, of a scheduler that happens not to overlap two
sections, of a table with room for so many sessions. One module states both.
A rigid variable, chosen in `Init` and changed by no step, says which world
the behaviour is in, and `Next` keeps to it: `polite` and `MaxSock` in
`Pop3Multiplex`, `MaxSock` in `MultiplexV1` and `EvgenMultip`, `serial` in
`ThreadedPop3`, `orderly` in `EvgenThread`, `world` in `HttpStatic` and
`HttpServ`, `server` in `LineFraming`. Properties that need a world have it as
a hypothesis. `Limits`, `Manners`, `Orders` and `Worlds` are the worlds of a run.

Modules that one proof module extends together share no names: the
specifications of `EvgenThread`, `ImgServer` and `LineFraming` are `ThreadSpec`,
`ImgSpec` and `FramingSpec`.

### State and actions against the code

*Mailbox.* A message is a pair `<<u, k>>` for the text `user<u>message<k>`
`UsersInit` writes; every message of a mailbox has the same length. `UsersInit`
draws the number of messages at random: `Init` takes every choice.
`updatemailbox` is the filter the erase loop computes (`Kept`, of `Erasing`),
written with an explicit enumeration so that it can be proved about. The loop decrements an
iterator that may be `begin()`, which the standard leaves undefined; in the
library it is built with it is a pointer, and comes back.

*CommandHandler.* A command line is `[command, param]`; `param` is a number
that stands for the user, password or message it names, or -1 for text that
names none. `result` keeps status, wording and the numbers of a reply, and
`q`. The handler's `command[MAXCOMMANDSIZE]` has room for 4 characters and
`sscanf` writes a terminating zero behind it; in the build of the Makefile this
falls on bytes nothing reads (the server was run to confirm it), and the model
takes this outcome. Words of more than four characters are outside the model.

*Pop3Sessions.* `Accept`, `HandleLine` (process_data with a complete line,
closing when `q` is 0), `Hangup` (lines 11-17). One thread runs it all, so each
is one step.

*Pop3Multiplex.* `phase`, `readset` and `it` are where `work` is: `Select`;
`AcceptFails`, `Accepts` or `NothingToAccept`; then `ServeHangup`,
`ServeFragment` or `ServeLine` for each readable session from index `it` on,
and `EndOfPass`. Erasing at `it` moves the successor there and the loop's
`it++` passes over it (`Erase`, `Advance`). A recv returns a *chunk*: a
fragment without `'\r'`, or the command line its `'\r'` completes; `buf` counts
the chunks of an unfinished line.

*Network.* Peers (`Dial`, `Transmit`, `Depart`) act between any two steps of a
server. Assumed of the network: a peer may close (its data are read first, then
recv returns 0) or reset; send to a closed peer may bring a reset; send to a
reset connection may raise SIGPIPE or not.

*LineFraming.* One session of one of three `server`s. `ends` is what the peer
sends, as the places in the stream where its lines end; `received` counts the
bytes `recv` has returned. A byte of text is its place in the stream (`Byte`), so
that one that is lost, repeated or moved to another line is seen. `Words` is what `sscanf` sees of a line: the
`'\n'` left over from the line before is white space. `Ends` is the scan of a
chunk: for a CR in the joint server, for CR LF or LF CR in v1.0 and v1.001;
`EndOfLine` drops the rest of the chunk; `Part` puts the `'\0'` behind the chunk,
or in v1.001 on its last byte (`Eaten`); `Ended` is recv returning 0. `Full` is
the test of v1.0 and v1.001 before the recv, `Fits` that of the joint server
after it. The string may fill `buf` in v1.0 and never does in v1.001, where an
end of input with an empty `buf` puts the `'\0'` on the last byte of `user`,
which nothing reads any more. `cuts` is a history of where chunks ended.

*MultiplexV1.* `phase`, `readset` and `it` as above; here erasing at `it` steps
back first and passes over nobody. A chunk is a number of bytes, or `EndsLine`
when its bytes hold a CR LF; what the line says is then any command, chosen by
`string_handler`. `buf` is the length of the unfinished line: `ServeTooLong`
clears it and counts an error in `cntwrcmd` before `recv` is called, and closes
the session when there are more than `MaxErrors` (7 in the code). `ServeEnd` is
recv returning 0: the loop takes it for an empty chunk. The `'\0'` written
behind a chunk that fills `buf` to its last byte is outside the array; in the
build it falls on `cntwrcmd`, the member that follows (v1.0 was compiled and run
to confirm it: with lines sent in chunks of 16 the count of errors stays at 1
and the session is never closed, with chunks of 15 it is closed after 8 and its
mailbox can no longer be opened). `Terminated` takes this outcome.

*ThreadedPop3.* Each read and write of a flag `used` is a step: `Login` (the
test of the first `login()`), `Take` (its write), `GiveUp` (`unused()` of the
mailbox held before), `Relogin` and `Retake` (the second `login()`), `Update`
and `Release` (the end of QUIT). Commands that only report are stutters. A
vector used by two threads at once is undefined behaviour and left out: DELE,
RSET and `Update` are single steps. When a reset peer makes `recv` fail,
`exit(1)` ends the process (`alive`). In a `serial` world no two threads are
ever inside the sections that touch `used`: what a mutex around them would give.

*EvgenMultip.* `phase`, `readset` and `it` as in `Pop3Multiplex`. The loop of
`main` walks the vector and erases in it; a failing `accept` is `exit`.
`numb` is -1 for a session without a mailbox, and QUIT then clears `u[-1]`: in
the build that is padding, nothing reads it (the server was compiled and run to
confirm it), and the model writes nothing.

*EvgenThread.* A step is one access to `u` with the local work around it:
`look` and `take` are the test and the setting of a lock, `release` what QUIT
does. `word` and `name` keep what the line before left there, as `sscanf` does
when a line is short. `numb` of a fresh thread is any value that a stack may
hold (0, the first mailbox, in the build that was run: QUIT before USER then
frees a mailbox another session holds). After the end of its input a thread
spins in its inner loop and changes nothing any more.

*EventLoop.* `pending` holds the events that are added, `active` those of the
pass; `dispatch` begins a pass with everything that is ready. Descriptors come
before timers; `event_del` takes an event out of both. Which peers can be
written to is chosen anew in each pass: a peer may stop reading.

*HttpStatic.* `live` are the connections with an `fd_state`; `buffer` and
`n_written` the piece of the answer that is being sent. `f` is the pointer in
the `fd_state`, `file` the memory it points to: `fclose` leaves `f` as it is, and
a later `fopen` may hand out the same memory, also for another connection.
Using a closed FILE ends the process. `cut` remembers that the head of the next
request came in the chunk that ended this one and was dropped. Compiled and run,
the server shows what the model says: GET of a file and GET of `/` on one
connection abort it (double `fclose`), or, with a file of another connection
open, send that file after the redirection and close it; HEAD is never answered
and never closed; a second request in the same chunk is lost.

*HttpServ.* As above, with one request for each connection. `errno` is a variable
of the process that any failing call sets: `do_write` reads it also after a
`send` of nothing, which sets nothing (`WriteStale`). `Opened` is NULL without a
descriptor, and `Crash` the use of NULL.

*ImgServer.* `table` says what each descriptor number refers to; a new one takes
the lowest free number. `fd` is the value of `open(...)<0`, not of `open(...)`.
libevent keeps its own number for each connection (`conn`): after the callback
closed 0 or 1 that number may belong to somebody else, so `Send` and `Gone` go
by the number. libevent is external; the model takes it to answer and close a
connection in any order the peers allow. Descriptors 0 to 2 are open at the
start and have no contents, as a terminal has none.

## 3. The runs

| run | bounds | shows |
|---|---|---|
| `sessions` | 2 clients, 2 users, 0 to 3 messages, 9 words with 6 parameters | `TypeOK`, `LockedIffHeld`, `MarksNeedTransaction`, `SummIsTotal`; as action properties `OnlyCommitErases`, `MarksAreKept`; the sessions implement `Maildrop` |
| `loop` | 2 peers, 1 user, 1 message, 1 chunk ahead, 1 fragment in `buf`, 2 descriptors, polite peers or any | `LoopInv` (`OnePlace`: no session lost, none served after it is closed; `RecvReturns`: what `select` reported is still so when its turn comes), `NeverKilled` (peers that close once they are answered raise no SIGPIPE); the loop implements `Pop3Sessions` |
| `loop_fair` | 3 peers, 1 or 3 descriptors, lines that keep the session | `NoStarvation`, `NobodyWaits`, `JamIsForever` |
| `framing` | 3 servers; up to 3 lines of up to 5 bytes (`MaxBytes` 21), buffers of 7, 6 and 5, chunks of up to 2, 2 and 3, `MaxWrong` 1 | `FramingInv` (`buf` is never outgrown; an error is paid for with bytes, and forgotten only by v1.0 when a chunk ends with the last byte of `buf`), `BytesInOrder`, `CleanLinesArrive`, `JoinsNeedACut` |
| `v1` | 2 clients, 2 users, 1 message, chunks of 2 bytes, buffer of 3, `MaxErrors` 1, 1 or 2 descriptors | `V1Inv` (one holder, no inherited marks); as action properties `OnlyErrorsLeak`, `NobodyIsSkipped`; the locks implement `Locks` |
| `threads` | 2 threads, 2 mailboxes, 2 messages, serial or racing | `ThreadedInv` (`LockedIffOwned`), `OrphanIsForever`; the threads implement `Maildrop` when serial |
| `race` | the same, racing | a violation of `MaildropLocked` |
| `evgen_multip` | 2 peers, 2 users, 1 or 2 descriptors, 1 fragment in `buf` | `TypeOK`; the sessions implement `Locks`; `EndsLeak`: a session that ends leaves its lock behind exactly when the end of its input or a long line ended it; `NobodyWaits` |
| `evgen_thread` | 2 threads, 2 users, USER, PASS and QUIT, short and blank lines, orderly or racing | `ThreadInv` (`NoneLost`: in both worlds a mailbox in use has a session; `HeldIsUsed`: when orderly, one with a session is in use), `OnlyWhatWasSaid`; the locks implement `Locks` when orderly |
| `http` | 2 peers, 3 files (half of `buffer`, all of it, more), 2 FILEs, 3 descriptors, 2 of them up to `FD_SETSIZE`; requests in pieces, pipelined, with and without keep-alive, for `/`, and no GET | `StaticInv` (`EventsMatch`), `AnswersAreWhole`; as action properties `OnlyRequestsStopTimers`, `OnlyCutsLeak` |
| `evgen_http` | 2 peers, files that end within a piece, with one, and after one; 3 descriptors, 2 of them up to `FD_SETSIZE`; requests in two worlds, answered and refused | `ServInv` (`FirstIsAnswered`); as an action property `ClosedWhenWhole`; `ReadersAreServed` |
| `evgen_img` | 3 connections, 2 files, a directory, a missing name, none; 5 descriptors | `ImgInv` (`HighConnectionsSurvive`), `OwnReplies` |

Why the bounds are enough. Locking needs two sessions that want the same
mailbox and one of them holding another: two clients, two users. Erasing needs
a mark at the head, at the end, next to another and between unmarked messages:
three messages, and mailboxes with fewer. The loop needs a session, a successor
that is skipped, and a third that is not: three peers for the liveness runs.
There the lines are words the handler refuses: they keep a session
busy for as long as its peer likes, which is what may starve another, and a
session ends when its peer leaves, which erases it as QUIT does; mailboxes are
left out (no messages, one user). With a line buffer of 7 bytes and lines of up
to 5, some lines just fit, some fit only when no `'\n'` precedes them or for
some ways of cutting them, and some never do. In `v1` the buffer is no multiple
of the chunk, so errors are counted and a session is closed for them, as with
the chunks of 15 above; only the first mailbox has mail there, since mailboxes
share nothing but the sessions that hold them. In `framing` the buffer of v1.0 is
a multiple of the chunk, as `MAXDATASIZE` and `MAXDATARECV` are in the code, and
that of v1.001 is not. It takes a line, its CR LF cut in
two, a second line that is joined to it and a third that is safe again, lines
that are too long for `buf`, and enough bytes for one error more than is
allowed. A file of the HTTP runs is shorter than a piece, exactly one, or longer:
the end of a file is seen by a read that comes short, so these are the cases.
Two connections are enough for a FILE, an `errno` or a descriptor of one to reach
the other. In `evgen_img` the third connection is for a number that changes
hands: one connection's reply waits, a refusal to the second closes the number
under libevent, and the third is accepted there. Connections and leaked files
fill the descriptors, so that running out is reached in every order. Symmetry of
clients, threads, mailboxes and FILEs is used only in runs without liveness properties.
`CHECK_DEADLOCK FALSE` stands where the system stops: the process was killed
or exited, all peers jammed, all bytes are handled, or no peer has anything more to say.

Bounds named in the modules: `MAXUSERS`, `MaxMessages`, `Limits` (of `MaxSock`,
the descriptors), `BufMax` (chunks in `buf`), `InboxMax` (what a peer sends
ahead), `Lengths` and `MaxLines` (the lines of a stream), `MAXDATASIZE`,
`MAXDATARECV`, `Sizes` (the lengths of chunks), `MaxErrors`, `MaxWrong`, `MaxFd`,
`SetSize` (those up to `FD_SETSIZE`) and `LastFd` (descriptors), `Size` and `Room`
(units of a file, and of a piece),
`OutMax` (the history of an answer).

### Fairness

`FairSpec` is weak fairness of `Work`: the server's process runs when it has
something to do. `select` returns when something is ready and each step of the
pass is straight code, so the operating system's scheduling justifies it.
Nothing is assumed of the peers: they need not send, read or leave.
`EvgenMultip` is the same. In `HttpServ` the callbacks and the dispatching of
what is ready are weakly fair. An answer can only end there if its peer reads, so
peers that are up are assumed to take what is sent again and again: strong
fairness of being writable and of a send that makes progress. `HttpStatic` is
checked for safety only.

### What the liveness runs show

A session that closes makes the loop pass over its successor, and the others
may keep closing and reopening: still every session that stays readable is
served again and again (`NoStarvation`), since a session only moves towards the
front. A peer waits when it is in the backlog, or has gone and still has a
session: `NobodyWaits` says neither lasts, *unless the server
stops*, which it does in two ways: SIGPIPE (`dead`), and `Jammed`. With the
table of sessions full and a connection waiting, `accept` fails in every pass,
the pass is abandoned before anybody is served, so nobody can leave and no
descriptor is ever freed; `JamIsForever` shows there is no way out even when
every peer leaves. That is what the code does, and the code promises nothing
else, so it is stated as a property that holds.

### What the first select loop shows

In `MultiplexV1` a mailbox has one holder and no session erases what another
marked, as in the joint server. Its locks implement `Locks`, in which a lock may
be lost with its session. It does not implement `Maildrop`: a session
closed for its errors leaves its lock behind with nobody to release it
(`OnlyErrorsLeak` says that this is the only way), and one whose peer is gone
keeps descriptor and lock. The code promises no better, and the joint server has
repaired both: there every end of a session goes through QUIT. The limit on
errors itself does not work against full chunks (`Terminated`; in `framing` the
history `wrong` counts all errors, and `ErrorsArePaid` says when `cntwrcmd` may
have lost some).

### What the servers of evgen and the HTTP servers show

`EvgenMultip` implements `Locks` too, with one way to lose a lock: any end of a
session but QUIT. `EvgenThread` does so only when the accesses to `u` exclude
each other and nobody says QUIT before USER. Without that two sessions may have one
mailbox, or a QUIT free another's; but no lock is lost in any world (`NoneLost`).

`LineFraming` says what a peer can rely on. The joint server takes a stream cut
anywhere, as long as lines fit. With v1.0 and v1.001 a line must
begin a chunk, behind one that ended well, and its CR LF must not be cut. Joined
commands come only from a CR LF that was cut in two. In v1.001 the line must also
come in one chunk, or it loses a byte for each piece: what a person types
through a client that sends single characters disappears altogether.

In `HttpStatic` every connection keeps an event that will move it on, unless it
is asked something that is not a GET; a FILE is lost only when its answer is cut
short, or when its end falls on the end of `buffer`. Pieces of a request leave the
timer alone, so that a peer that dribbles cannot put it off. In `HttpServ` an answer is
whole, whatever `errno` says of other connections; the price of a stale `errno` is a connection that is never closed
(`Spins`), when its file is a multiple of what is read at once, and
`ReadersAreServed` says it is the only one. `ImgServer` reads and closes whatever
descriptor 0 is: a reply carries the file its request named or nothing. It can
close under libevent only connections that were accepted on 0 or 1; a peer on
any other number gets the reply to its own request, and one on 0 or 1 may get
another's.

### The findings

`race`: in the threaded server two clients that send USER for one mailbox at
once may both pass the test of `used` (`login`, lines 52-53), and both are then
told `+OK maildrop locked and ready` (line 294). In the serial world of `threads`
the same steps keep the promise, so the missing exclusion is the whole cause. `OrphanIsForever` shows a second effect of the same race: the second
`login()` of a refused USER (line 258) can take a mailbox nobody will ever release.

The models follow the code in more that its authors would not want; no line of
the repository claims otherwise, and the properties say what holds all the same.

* A client of the other threaded server that says QUIT before USER releases the
  mailbox its stack happens to name (`evgen/pop3/thread/server2.cpp` 49 and 85);
  `HeldIsUsed` needs the world without, `NoneLost` does not.
* In the static server a request for `/` on a connection that was sent a file
  finds `f` still set: the redirection is followed by the rest of whatever file
  the memory now belongs to (228). `AnswersAreWhole` needs the tame world.
* `evgen/http/http_serv.cpp` answers a request it cannot parse on a descriptor
  that is already closed (203 to 205).
* `fd=open(fname,O_RDONLY)<0` (`evgen/http/evhttp/http_serv.cpp` 52) is 0 for a
  file that is open, and the first request for a file is answered 200 with no
  bytes; a connection accepted on 0 or 1 may be sent the reply to another's
  request. `OwnReplies` says that no other is, and what a reply can carry.

## 4. The proofs

Everything below is proved for every value of the constants that satisfies the
assumptions named at the end: every number of clients, mailboxes, messages and
descriptors, every set of lines, every size of a buffer.

| module | theorem | property |
|---|---|---|
| `Pop3SessionsProofs` | `TypeCorrect`, `Locking`, `Marking`, `Sizes` | `TypeOK`, `LockedIffHeld` (and `HeldByOneSession`), `MarksNeedTransaction` (and `TransactionHoldsMailbox`), `SummIsTotal` |
| | `Commits`, `MarksLast`, `Refinement` | `OnlyCommitErases`, `MarksAreKept`, `ImplementsMaildrop` |
| `Pop3MultiplexProofs` | `LoopCorrect`, `NoSigpipe`, `Jam`, `Refinement` | `LoopInv`, `NeverKilled`, `JamIsForever`, `ImplementsSessions` |
| | `LoopKeepsMailboxes`, `LoopKeepsPromise` | those of `Pop3SessionsProofs`, for the sessions of the loop |
| `FlavikProofs` | `ThreadedCorrect`, `OrphansStay`, `Refinement` | `ThreadedInv`, `OrphanIsForever`, `ImplementsMaildrop` |
| | `FramingIsSafe`, `BytesStayInOrder`, `CleanLines`, `JoinsOnlyAtACut` | `FramingInv`, `BytesInOrder`, `CleanLinesArrive`, `JoinsNeedACut` |
| `MultiplexV1Proofs` | `V1Correct`, `NoneSkipped`, `ErrorsLeak`, `Refinement` | `V1Inv`, `NobodyIsSkipped`, `OnlyErrorsLeak`, `ImplementsLocks` |
| `EvgenMultipProofs` | `TypeCorrect`, `LocksLost`, `Refinement` | `TypeOK`, `EndsLeak`, `ImplementsLocks` |
| `EvgenProofs` | `NoLockIsLost`, `OwnNames`, `Refinement` | `ThreadInv`, `OnlyWhatWasSaid`, `ImplementsLocks` |
| | `EvgenAnswersFirst`, `EvgenSendsWhole` | `ServInv`, `ClosedWhenWhole` |
| | `ConnectionsSurvive`, `RepliesAreOwn` | `ImgInv`, `OwnReplies` |
| `HttpStaticProofs` | `StaticWaitsOrWrites`, `StaticAnswersWhole` | `StaticInv`, `AnswersAreWhole` |
| | `TimersRunOut`, `OnlyCutsLose` | `OnlyRequestsStopTimers`, `OnlyCutsLeak` |

With these, every invariant and every action property that a run expects to hold,
and every refinement, is a theorem. `EvgenServesFirst` and `StaticKeeps`, which
are in the list of theorems too, say that the inductive invariants of the HTTP
servers hold.

### The joint server

*Sessions.* `IInv` of `Pop3SessionsProofs` is the conjunction of six invariants.
None of the middle ones is inductive alone: that USER takes a mailbox nobody
holds follows from `LockedIffHeld`; that a release frees only one's own follows
from `HeldByOneSession`; that no foreign mark is left behind when a session lets
go of a mailbox it did not open needs both and `MarksNeedTransaction`. The proof
has one lemma per command. Commands that only answer go through `AnswerStep`,
those that change the mailbox of a session in TRANSACTION through `HolderStep`,
QUIT and `Hangup` through `QuitStep`, a successful USER through `TakeStep`.

The two action properties and the refinement speak of texts, and need that no
two messages of a mailbox have the same one: `TextsInv`, proved apart
(`TextsApart`), since erasing keeps it and nothing adds. `VectorProofs` has the
reason: the enumeration behind `updatemailbox` is a bijection that keeps the
order (an injection between finite sets of the same size), what it keeps is
unmarked, and all of it. The refinement mapping gives a mailbox the session that
holds it, by CHOOSE among its holders; `HeldByOneSession` makes the choice the
only one, and each command is then a step of `Maildrop` or leaves the mapped
state alone. `HeldByOneSession` and `TransactionHoldsMailbox` are proved only;
the run `sessions` does not repeat them.

*Loop.* `LoopShape` (types, `OnePlace`, `RecvReturns`, `PassBegins`) is inductive
without a word about commands: `PassBegins` says what `select` has just reported,
which `RecvReturns` needs when the pass starts, and `OnePlace` is why erasing one
session disturbs no other. With it every step of the loop is one of
`Pop3Sessions`, or none. All that is proved of the sessions then holds of the
loop, `LoopKeepsMailboxes` and `LoopKeepsPromise`, and from there comes the rest
of the loop's `TypeOK`. `NoSigpipe` needs what a polite peer is like at each
moment of the pass (`PoliteInv`).

### The other POP3 servers

*ThreadedPop3.* `LockedIffOwned` speaks of the moments when no thread is inside
USER or the end of QUIT. In between, `Locked` says what `used` is: a thread at
"take" goes for a mailbox that is free, one at "giveup" has taken a mailbox
nobody owns yet, and the second `login()` finds what the first did, so that in a
serial world no thread comes to "retake". `Types`, which mailbox a thread has at
hand at each point of its code, holds in every world, and `OrphanIsForever`
follows from it. In the refinement a USER of a thread that has a mailbox already is
four steps, of which only `GiveUp` changes what `Maildrop` sees: it is the Lock.

*MultiplexV1 and EvgenMultip.* Again a `LoopShape` without commands, from which
`NobodyIsSkipped` follows. Then every step is shown to do one of a few things to
sessions and locks (`Kinds`: a connection joins, a session takes, speaks, drops
or quits), and invariants, leaks and the refinement are proved for each kind.
`FreeIsUnmarked` is not inductive: a session that takes another mailbox frees the
one it had, which must have no mark although it is in use. `CleanUntilLetIn`, no
marks in a mailbox that is free or whose session has not given its password, is.

*EvgenThread.* `HeldIsUsed` needs that a QUIT finds nobody else in the mailbox
it gives up (`OneEach`), which `Take` keeps because what `Look` found free still
is (`FoundFree`); both need that a thread has no session while it looks for one
(`Unnamed`). `OneEach` and `FoundFree` hold in an orderly world only. `NoneLost`,
and `OnlyWhatWasSaid` by `NamesWereSaid`, hold in every world: a session ends
only where the same step clears the lock.

### Lines out of bytes

The theorems about `LineFraming` hold of every stream of lines, every way it
may be cut into chunks, and every size of `buf` and of a chunk; only the joint
server's chunk of 2 is what the code says (`recv(..., 2, 0)`, `unit_multiplex.cpp`
10). None of the four properties is inductive, since none says what is in `buf`;
each has its own account of that, and `Room`, how much is in it, under all of
them.

* `Room`: an error is counted when `buf` is full, and every byte in `buf` is
  paid for once, so the errors times the least that fills `buf`, and what is in
  it now, are no more than was received.
* `Counted`: in v1.0 what is in `buf` came since the end of some chunk. So when the
  count of errors is cleared, chunks ended `MAXDATASIZE` bytes apart; in the other
  two loops `cntwrcmd` never misses an error.
* `JointInv`: in the joint server there is always a line on its way (`AtLine`).
  `buf` is the part of it that has come, with or without the LF of the line
  before, never its CR. A chunk of two bytes that ends the line leaves the next
  one at its beginning or one byte before it, which is why the assumption about
  the chunk matters.
* `FreshInv`: in the other two, `buf` is empty where a line starts afresh, and in
  v1.0 it is from there on the part of the line that has come.
* `InOrder`: the text in `buf` is increasing and behind all that was handled.
* `Ragged`: no text in `buf` is in front of a CR LF that came whole. In the joint
  server this follows from `AtLine`.

`Words` is shown to return two pieces of its string, the second behind the first
(`WordsAre`), and a line of text as its own first word (`WordsOfText`).

### The HTTP servers

What the two servers on libevent have in common comes first, and owes nothing to
files: which events a connection may have, and that a peer that is connected is
once in the backlog or has an `fd_state` (`Places`). An accept finds a peer
there, and gives an `fd_state` to one that had none.

*HttpStatic.* `StaticInv` needs more than that. That `do_write` never reads behind
the end of a file depends on how far each open FILE is read (`FilesOK`: to its
end, or to a multiple of `Room`), and that a FILE is not forgotten on who owns
it. `Owners` is the heart: a FILE that was opened for a connection, and that its
`fd_state` still points to, belongs to one that is being written to; what was
sent and what is buffered are no more than was read; and `buffer` runs out only
at the end of a file that fills it. So a connection that has been sent all of a
file whose size is no multiple of `Room` has closed it, which is `OnlyCutsLeak`. This much
holds in every world, and also when a redirection follows a stale `f`:
then the pointer may lead to another's FILE, and `Owns` does not hold. In a tame
world `TameParts` says it exactly: what was sent, what is left in `buffer`
and what is not read yet are the header and the file, one behind the other. Two
connections never share a FILE there, since each is open in its owner's name, and
`fopen` takes a handle that is not open. `AnswersAreWhole` is the last state of
that account.

*HttpServ.* `ServIInv` is the same account without handles, since `fl` and `pos`
belong to one connection. Its weak place is a send that fails: `errno` may be of another
connection, and `do_write` stops or frees on it. `Unanswered` is what such an
end leaves, a peer that reset before anything was sent; otherwise
`InService`. `ClosedWhenWhole` follows: `do_write` frees when there is nothing left to
send and nothing more to read, and then the account has only what was sent.

*ImgServer.* The callback reads 0 whatever it opened; so 0 must never be a file
that an earlier request left there (`NothingLeft`). An open returns 0 only when 0
is free, and then the same callback closes it again, which is why a body is the
file its request named, or nothing. That a reply on a number above 1 is the one
its peer waits for (`Matching`) needs that nobody else's reply reaches that peer
before it: a peer is behind one number only (`OneSeat`), and that number is its
own connection's (`HighConnectionsSurvive`).

### Assumptions

`MailboxAssumption` (`MAXUSERS` a positive number, `MaxMessages` a natural
number), `HandlerAssumption` (the types of lines, and a value that is no client),
and those of the other modules, which say as much: types of the bounds, and
that the values which stand for nobody, for a lost lock and for the listening
socket are no clients. The last are not limits of the program, where these are
-1 and a descriptor no client has. `ChunkAssumption` also says that a chunk fits
in `buf`, as it does with every pair of sizes in the code, and that the joint
server's is 2. `StaticAssumption` asks of `OutMax`, the bound on the history of what a
peer was sent, that it is more than a whole answer: a history that is cut there is
no part of one, so the bound hides nothing. TLC evaluates all of them.

### What stays with TLC

* Liveness: `NoStarvation`, both `NobodyWaits`, `ReadersAreServed`. The prover
  cannot handle ENABLED, which fairness is defined by.
* What a recursive definition computes for every input needs induction over data,
  which the installed provers cannot do. `Erasing` is therefore written with
  an enumeration, `summ` is a multiple of the number of messages, and `Words` finds
  where a word ends with `SelectInSeq`. Where a proof would go by induction over
  a number (`LinesFollow`: a line begins behind the end of all before it), it takes
  the least number for which the claim fails; that there is one (`Least`) comes from
  the well-foundedness of `<`.
* That `MaildropLocked` fails in a racing world, which is a counterexample.

## 5. What is not modelled

* Replies beyond status, wording and numbers; whether they arrive.
* Words longer than four letters, parameters longer than their buffer; in
  `EvgenThread` and `HttpStatic`, lines and requests longer than theirs.
* Errors of `select` (the joint server ends with `exit(3)`), `bind`, `listen`;
  signals other than SIGPIPE; failing `malloc`.
* `pr.cpp`: libevent's example program.
* The replies of the joint server are not
  followed to the peer: a reply the socket buffer has no room for is lost.
* That the peer of `HttpStatic` is timed out, and everything else about its
  liveness.
* Files that change while they are sent (`evgen/http/evhttp/http_serv.cpp` would
  not return from its loop, line 76).
* What `printf` writes to descriptor 1 after `ImgServer` closed it.
* `unit_threads.cpp` (dead), start-up code, test clients, scripts.

## 6. Plan

1. Done: the joint server (mailboxes, handler, loop, framing), its abstract
   specification, the first proofs; the threaded server and the first select
   loop of flavik.
2. Done: the POP3 servers of evgen, the abstract `Locks`, the byte framing of all
   three select loops, the HTTP servers on libevent.
3. Done: proofs of all safety properties of the POP3 servers' sessions, loops,
   threads and lines, their refinements of `Maildrop`, `Pop3Sessions` and `Locks`
   included.
4. Done: proofs of the invariants and the action properties of the three HTTP
   servers.
