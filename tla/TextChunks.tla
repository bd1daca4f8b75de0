----------------------------- MODULE TextChunks -----------------------------
(***************************************************************************)
(* How texts are cut for classification: splitLLMText of the WAF           *)
(* (internal/waf/llm_protection.go) and splitChunks of the guard           *)
(* (services/synit-llm-guard/main.go), one iteration of their loops each.  *)
(*                                                                         *)
(* Of a text only the places where it may be cut matter: a text is the     *)
(* sequence that says of every byte whether utf8.RuneStart holds of it.    *)
(* Offsets count from 0, and a chunk is a pair <<start, end>>.             *)
(***************************************************************************)
EXTENDS Integers, Sequences

UTFMax == 4

RuneStart(text, i) == text[i + 1]

\* UTF-8: a text begins with a rune, and no rune is longer than UTFMax.
WellFormed(text) ==
  /\ text \in Seq(BOOLEAN)
  /\ \A i \in 0 .. Len(text) - 1 :
       \E j \in 0 .. i : i - j < UTFMax /\ RuneStart(text, j)

-----------------------------------------------------------------------------
\* splitLLMText

\* llmTextChunkOverlapBytes, but at most a quarter of the chunk.
Overlap(maxBytes) == IF maxBytes \div 4 < 256 THEN maxBytes \div 4 ELSE 256

\* for i > low && !utf8.RuneStart(text[i]) { i-- }
BackToRune(text, i, low) ==
  IF i <= low
  THEN i
  ELSE CHOOSE j \in low .. i :
         /\ j = low \/ RuneStart(text, j)
         /\ \A k \in j + 1 .. i : ~RuneStart(text, k)

ChunkEnd(text, start, maxBytes) ==
  IF start + maxBytes >= Len(text)
  THEN Len(text)
  ELSE BackToRune(text, start + maxBytes, start)

\* (Mutant: no way on when the overlap reaches back to the chunk's start.)
NextStartStuck(text, start, maxBytes) ==
  BackToRune(text, ChunkEnd(text, start, maxBytes) - Overlap(maxBytes), start)

\* Where the chunk after the one that begins at start begins.
NextStart(text, start, maxBytes) ==
  LET end == ChunkEnd(text, start, maxBytes)
      next == BackToRune(text, end - Overlap(maxBytes), start)
  IN IF next <= start THEN end ELSE next

-----------------------------------------------------------------------------
\* splitChunks

\* The start of the rune that index points into, if there is one in reach.
RuneBoundary(text, index) ==
  LET near == {i \in 1 .. index : i > index - UTFMax /\ RuneStart(text, i)}
  IN IF near = {}
     THEN index
     ELSE CHOOSE i \in near : \A j \in near : j <= i

GuardEnd(text, start, chunkBytes) ==
  LET end == RuneBoundary(text, start + chunkBytes)
  IN IF end <= start THEN start + chunkBytes ELSE end

\* Where the rune that begins at start ends (utf8.DecodeRuneInString).
RuneEnd(text, start) ==
  CHOOSE i \in start + 1 .. Len(text) :
    /\ i = Len(text) \/ RuneStart(text, i)
    /\ \A j \in start + 1 .. i - 1 : ~RuneStart(text, j)

\* (Mutant: consecutive chunks do not overlap.)
GuardNextDisjoint(text, start, chunkBytes, overlapBytes) ==
  GuardEnd(text, start, chunkBytes)

GuardNext(text, start, chunkBytes, overlapBytes) ==
  LET end == GuardEnd(text, start, chunkBytes)
      next == RuneBoundary(text, end - overlapBytes)
      step == RuneEnd(text, start)
  IN IF next > start THEN next ELSE IF step < end THEN step ELSE end

\* The chunks splitChunks returns.
GuardChunks(text, chunkBytes, overlapBytes) ==
  LET From[start \in 0 .. Len(text)] ==
        IF Len(text) - start <= chunkBytes
        THEN {<<start, Len(text)>>}
        ELSE {<<start, GuardEnd(text, start, chunkBytes)>>}
               \cup From[GuardNext(text, start, chunkBytes, overlapBytes)]
  IN From[0]
=============================================================================
