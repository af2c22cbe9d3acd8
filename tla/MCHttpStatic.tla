--------------------------- MODULE MCHttpStatic ---------------------------
(***************************************************************************)
(* HttpStatic for TLC.  buffer takes two units: "a" is read at once and to *)
(* its end, "b" fills buffer, "d" takes two pieces.                        *)
(***************************************************************************)
EXTENDS HttpStatic, TLC

CONSTANTS c1, c2, h1, h2

MCClients  == {c1, c2}
MCHandles  == {h1, h2}
MCSymmetry == Permutations(MCClients) \cup Permutations(MCHandles)

Chunk(w, k, s) == [what |-> w, ka |-> k, spills |-> s]

MCSize == [n \in {"a", "b", "d"} |-> CASE n = "a" -> 1 [] n = "b" -> 2 [] n = "d" -> 3]

\* A file, the redirection behind it, and what is no GET, for its head is lost.
Wild == {Chunk("a", "keep", FALSE), Chunk("root", "keep", TRUE)}

\* A file of two pieces, requests in parts and pipelined, and "Connection: close".
Plain == {Chunk("part", "keep", FALSE), Chunk("d", "keep", FALSE),
          Chunk("b", "zero", TRUE), Chunk("root", "some", FALSE)}

MCChunks == Wild \cup Plain
MCWorlds == {[tame |-> FALSE, sends |-> Wild], [tame |-> TRUE, sends |-> Plain]}
=============================================================================
