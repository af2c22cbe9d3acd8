---------------------------- MODULE LineFraming ----------------------------
(***************************************************************************)
(* How three select loops make command lines of the bytes one session      *)
(* sends, cut into chunks anywhere.                                        *)
(*                                                                         *)
(* "joint" (general/multi_server_pop3): a CR ends the line; what follows   *)
(* it in the chunk, at most the LF, is dropped; the LF of a CR LF that was *)
(* cut stays at the head of the next line, where sscanf skips it.          *)
(*                                                                         *)
(* "v1.0" and "v1.001" (flavik/pop3/multiplex): a line ends only where     *)
(* CR LF (or LF CR) lies inside one chunk; the rest of that chunk is       *)
(* dropped.  v1.0 puts the '\0' of a chunk that ends no line behind its    *)
(* last byte, v1.001 on it.                                                *)
(***************************************************************************)
EXTENDS Integers, Sequences, SequencesExt

CONSTANTS Lengths,        \* the lengths of lines a peer may send
          MaxLines,       \* bound on the lines a peer sends
          MaxBytes,       \* bound on the bytes of its stream
          MAXDATARECV,    \* the size recv() is called with: 2, 16 and 32
          MAXDATASIZE,    \* the size of buf: 2048, 128 and 64
          MaxWrong        \* the errors v1.0 and v1.001 forgive a session: 7

Servers == {"joint", "v1.0", "v1.001"}

CR == 13
LF == 10

ASSUME ChunkAssumption ==
    /\ Lengths \subseteq Nat /\ MaxLines \in Nat /\ MaxBytes \in Nat /\ MaxWrong \in Nat
    /\ MAXDATARECV \in [Servers -> Nat \ {0}] /\ MAXDATASIZE \in [Servers -> Nat]
    /\ \A s \in Servers : MAXDATARECV[s] <= MAXDATASIZE[s]
    /\ MAXDATARECV["joint"] = 2

VARIABLES server,    \* which of the three it is
          ends,      \* where in the stream the lines of the peer end
          received,  \* how many of its bytes recv() has returned
          buf,       \* the string in buf
          handled,   \* the command and parameter of every call of the handler
          cntwrcmd,  \* errors counted for the session
          closed,    \* the server ended the session
          cuts,      \* history: where in the stream a chunk ended
          wrong      \* history: the lines dropped as too long

framing_vars == <<server, ends, received, buf, handled, cntwrcmd, closed, cuts, wrong>>

-----------------------------------------------------------------------------
(* The stream.  Only the place of a byte matters: a byte of text is 32 plus *)
(* its position in the stream, so all are different.                        *)

Lines     == DOMAIN ends
Start(i)  == IF i = 1 THEN 0 ELSE ends[i - 1]
End(i)    == ends[i]
Length(i) == End(i) - Start(i) - 2
Line(i)   == [k \in 1 .. Length(i) |-> 32 + Start(i) + k]
Total     == Start(Len(ends) + 1)

Byte(p) == IF p + 1 \in ToSet(ends) THEN CR ELSE IF p \in ToSet(ends) THEN LF ELSE 32 + p

\* The bytes behind the m-th, up to the n-th.
Bytes(m, n) == [k \in 1 .. n - m |-> Byte(m + k)]

RECV  == MAXDATARECV[server]
SIZE  == MAXDATASIZE[server]
Eaten == IF server = "v1.001" THEN 1 ELSE 0

FramingInit ==
    /\ server \in Servers
    /\ ends \in BoundedSeq(1 .. MaxBytes, MaxLines)
    /\ \A i \in Lines : Length(i) \in Lengths
    /\ received = 0
    /\ buf = <<>> /\ handled = <<>>
    /\ cntwrcmd = 0 /\ closed = FALSE /\ cuts = {0} /\ wrong = 0

-----------------------------------------------------------------------------
(***************************************************************************)
(* sscanf(buf, "%s %s"): two words, white space in front of each skipped.  *)
(***************************************************************************)
IsText(b)    == b > 32
SkipWhite(s) == LET i == SelectInSeq(s, IsText)
                IN  IF i = 0 THEN <<>> ELSE SubSeq(s, i, Len(s))
Word(s)      == LET i == SelectInSeq(s, LAMBDA b : ~IsText(b))
                IN  IF i = 0 THEN s ELSE SubSeq(s, 1, i - 1)
Words(s) ==
    LET t       == SkipWhite(s)
        command == Word(t)
    IN  <<command, Word(SkipWhite(SubSeq(t, Len(command) + 1, Len(t))))>>

Pair(chunk, i) == <<chunk[i], chunk[i + 1]>> \in {<<CR, LF>>, <<LF, CR>>}

\* Mutant: the scan stops one byte early and misses a CR LF at the end of the chunk.
Ends_early(chunk) == {i \in 1 .. Len(chunk) - 2 : Pair(chunk, i)}

Ends(chunk) ==
    IF server = "joint" THEN {i \in DOMAIN chunk : chunk[i] = CR}
                        ELSE {i \in 1 .. Len(chunk) - 1 : Pair(chunk, i)}

\* Mutant: room is tested for nothing but the '\0'.
Full_lax == server # "joint" /\ Len(buf) + 1 > SIZE

\* v1.0 and v1.001 test for room before the recv, the joint server behind it.
Full == server # "joint" /\ Len(buf) + RECV > SIZE

Fits(n) == server # "joint" \/ Len(buf) + n <= SIZE - 2

TooLong ==
    /\ cntwrcmd' = cntwrcmd + 1
    /\ closed' = (cntwrcmd' > MaxWrong)
    /\ buf' = <<>>
    /\ wrong' = wrong + 1
    /\ UNCHANGED <<received, handled, cuts>>

\* Mutant: buf is not emptied after its line.
EndOfLine_keeps(chunk, i) ==
    /\ handled' = Append(handled, Words(buf \o SubSeq(chunk, 1, i - 1)))
    /\ UNCHANGED <<buf, cntwrcmd>>

(***************************************************************************)
(* The line ends at i: the handler gets it, and the rest is lost.           *)
(***************************************************************************)
EndOfLine(chunk, i) ==
    /\ handled' = Append(handled, Words(buf \o SubSeq(chunk, 1, i - 1)))
    /\ buf' = <<>>
    /\ UNCHANGED cntwrcmd

(***************************************************************************)
(* No line ends here.  In v1.0 the '\0' behind a chunk that fills buf lands *)
(* on the count of errors.                                                 *)
(***************************************************************************)
Part(chunk) ==
    LET l == Len(buf) + Len(chunk) - Eaten
    IN  /\ buf' = SubSeq(buf \o chunk, 1, l)
        /\ cntwrcmd' = IF l = SIZE /\ server # "joint" THEN 0 ELSE cntwrcmd
        /\ UNCHANGED handled

Receive(n) ==
    LET chunk == Bytes(received, received + n)
    IN  /\ received + n <= Total
        /\ received' = received + n
        /\ cuts' = cuts \cup {received + n} /\ UNCHANGED wrong
        /\ \/ ~Fits(n) /\ closed' = TRUE /\ UNCHANGED <<buf, handled, cntwrcmd>>
           \/ Fits(n) /\ Ends(chunk) = {} /\ Part(chunk) /\ UNCHANGED closed
           \/ /\ Fits(n)
              /\ \E i \in Ends(chunk) :
                    /\ \A j \in Ends(chunk) : i <= j
                    /\ EndOfLine(chunk, i)
              /\ UNCHANGED closed

(***************************************************************************)
(* The peer has ended its stream: recv() returns 0.  The joint server ends *)
(* the session; the others do so in every pass, and v1.001 takes the last  *)
(* byte of buf each time.                                                  *)
(***************************************************************************)
Ended ==
    /\ received = Total
    /\ closed' = (server = "joint")
    /\ buf' = SubSeq(buf, 1, Len(buf) - Eaten)
    /\ UNCHANGED <<received, handled, cntwrcmd, cuts, wrong>>

Serve ==
    /\ ~closed
    /\ \/ Full /\ TooLong
       \/ ~Full /\ \E n \in 1 .. RECV : Receive(n)
       \/ ~Full /\ Ended
    /\ UNCHANGED <<server, ends>>

FramingNext == Serve

FramingSpec == FramingInit /\ [][FramingNext]_framing_vars

-----------------------------------------------------------------------------
Text(s) == \A k \in DOMAIN s : IsText(s[k])

FramingTypeOK ==
    /\ server \in Servers
    /\ ends \in Seq(Nat) /\ received \in 0 .. Total /\ buf \in Seq(Nat)
    /\ Len(buf) <= SIZE - Eaten
    /\ server = "joint" /\ ~closed => Len(buf) + RECV <= SIZE
    /\ handled \in Seq(Seq(Nat) \X Seq(Nat))
    /\ \A h \in ToSet(handled) : Text(h[1]) /\ Text(h[2])
    /\ cntwrcmd \in 0 .. MaxWrong + 1
    /\ closed \in BOOLEAN /\ cuts \subseteq 0 .. Total

\* A chunk has ended SIZE bytes behind the end of another.
BufFilled == \E c \in cuts : c + SIZE \in cuts

ErrorsArePaid ==
    /\ cntwrcmd * (SIZE - RECV + 1) <= received
    /\ cntwrcmd <= wrong
    /\ wrong # cntwrcmd => server = "v1.0" /\ BufFilled
    /\ server = "joint" /\ closed /\ received # Total =>
          \E i \in Lines : Length(i) + 3 > SIZE - 2

(***************************************************************************)
(* Nothing is written behind buf but the '\0' of v1.0: the recv() of the    *)
(* joint server, whose test comes after it, always has room, and the       *)
(* handler is given two words.  Every line that is too long is counted,     *)
(* and none is forgotten but by v1.0, where a chunk ended with the last    *)
(* byte of buf.  And a session is closed only for what it sent: an error   *)
(* costs more bytes than fit in front of a chunk, and the joint server     *)
(* ends a session before the end of its stream only for a line that leaves *)
(* no room for its CR LF and the LF of the line before.                    *)
(***************************************************************************)
FramingInv == FramingTypeOK /\ ErrorsArePaid

(***************************************************************************)
(* What the handler is given is the stream with bytes left out: however    *)
(* chunks are cut, dropped and cleared away, no byte reaches two commands, *)
(* and none overtakes another.                                             *)
(***************************************************************************)
Increasing(s) == \A j, k \in DOMAIN s : j < k => s[j] < s[k]
BytesOf(h)    == ToSet(h[1]) \cup ToSet(h[2])

BytesInOrder ==
    /\ \A h \in ToSet(handled) : Increasing(h[1] \o h[2])
    /\ \A j, k \in DOMAIN handled : j < k =>
          \A b \in BytesOf(handled[j]), c \in BytesOf(handled[k]) : b < c

WholeEnd(i)    == server = "joint" \/ End(i) - 1 \notin cuts
StartsFresh(i) == Start(i) \in cuts /\ (i > 1 => WholeEnd(i - 1))

\* The lines a peer of each server can rely on.
Reliable(i) ==
    CASE server = "joint"  -> \A j \in 1 .. i : Length(j) + 3 <= SIZE - 2
      [] server = "v1.0"   -> StartsFresh(i) /\ WholeEnd(i) /\ Length(i) <= SIZE - RECV
      [] server = "v1.001" -> StartsFresh(i) /\ WholeEnd(i)
                              /\ \A c \in cuts : c <= Start(i) \/ c >= End(i)

(***************************************************************************)
(* What a peer can rely on.  The joint server hands every line over whole  *)
(* whose length, and that of those before it, leaves room for its CR LF    *)
(* and the LF of the line before, however the stream is cut.  With v1.0    *)
(* the line must start with a chunk, behind a line that ended well, and    *)
(* its CR LF must not be cut; with v1.001 it must come in one chunk.       *)
(***************************************************************************)
CleanLinesArrive ==
    \A i \in Lines :
        Reliable(i) /\ received >= End(i) => <<Line(i), <<>>>> \in ToSet(handled)

LineOf(b) == CHOOSE i \in Lines : Start(i) < b - 32 /\ b - 32 <= End(i)

(***************************************************************************)
(* Lines are joined into one command only across a CR LF that was cut in   *)
(* two, and by the joint server never: a whole one always ends the         *)
(* command, also behind a line that was too long or lost.                  *)
(***************************************************************************)
JoinsNeedACut ==
    \A h \in ToSet(handled) :
        \A b, c \in BytesOf(h) : \A i \in LineOf(b) .. LineOf(c) - 1 : ~WholeEnd(i)
=============================================================================
