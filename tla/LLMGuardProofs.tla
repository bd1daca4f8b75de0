--------------------------- MODULE LLMGuardProofs ---------------------------
(***************************************************************************)
(* Proofs about the guard.  First TextChunks: what one iteration of        *)
(* splitLLMText and of splitChunks does to every well-formed text, for     *)
(* every size of text and chunk.  Then LLMGuard: admission, the session's  *)
(* slot and Close, for every set of requests, every admission capacity and *)
(* every number of batches.                                                *)
(***************************************************************************)
EXTENDS LLMGuard, TextChunks, FiniteSetTheorems, TLAPS

-----------------------------------------------------------------------------
(* TextChunks *)

\* A rune start lies at most three bytes before every byte.
LEMMA StartNearby ==
  ASSUME NEW text, WellFormed(text), NEW i \in 0 .. Len(text) - 1
  PROVE  \E j \in 0 .. i : j >= i - 3 /\ RuneStart(text, j)
<1>1. PICK j \in 0 .. i : i - j < UTFMax /\ RuneStart(text, j)
  BY Zenon DEF WellFormed
<1>2. j >= i - 3
  BY <1>1 DEF WellFormed, UTFMax
<1> QED
  BY <1>1, <1>2, Zenon

\* The loop that moves an offset back stops after at most three steps, at a
\* rune start or at its lower bound.
LEMMA BackToRuneStops ==
  ASSUME NEW text, WellFormed(text), NEW low \in Nat, NEW i \in Nat,
         low < i, i < Len(text)
  PROVE  /\ BackToRune(text, i, low) \in low .. i
         /\ BackToRune(text, i, low) >= i - 3
<1> DEFINE Stop(j) == /\ j = low \/ RuneStart(text, j)
                      /\ \A k \in j + 1 .. i : ~RuneStart(text, k)
<1>0. Len(text) \in Nat
  BY DEF WellFormed
<1>1. \E j \in low .. i : j >= i - 3 /\ Stop(j)
  <2>1. CASE RuneStart(text, i) \/ i = low
    BY <2>1
  <2>2. CASE ~RuneStart(text, i) /\ (i - 1 = low \/ RuneStart(text, i - 1))
    <3>1. i - 1 \in low .. i /\ i - 1 >= i - 3
      OBVIOUS
    <3>2. Stop(i - 1)
      BY <2>2
    <3> QED
      BY <3>1, <3>2, Zenon
  <2>3. CASE /\ ~RuneStart(text, i) /\ ~RuneStart(text, i - 1) /\ i - 1 > low
             /\ i - 2 = low \/ RuneStart(text, i - 2)
    <3>1. i - 2 \in low .. i /\ i - 2 >= i - 3
      BY <2>3
    <3>2. \A k \in (i - 2) + 1 .. i : k = i \/ k = i - 1
      OBVIOUS
    <3>3. Stop(i - 2)
      BY <2>3, <3>2, Zenon
    <3> QED
      BY <3>1, <3>3, Zenon
  <2>4. CASE /\ ~RuneStart(text, i) /\ ~RuneStart(text, i - 1) /\ ~RuneStart(text, i - 2)
             /\ i - 2 > low
    <3>1. i \in 0 .. Len(text) - 1
      BY <1>0
    <3>2. PICK j \in 0 .. i : j >= i - 3 /\ RuneStart(text, j)
      BY <3>1, StartNearby, Zenon
    <3>3. j = i - 3
      BY <3>2, <2>4
    <3>4. i - 3 \in low .. i /\ i - 3 >= i - 3
      BY <2>4
    <3>5. \A k \in (i - 3) + 1 .. i : k = i \/ k = i - 1 \/ k = i - 2
      OBVIOUS
    <3>6. Stop(i - 3)
      BY <2>4, <3>2, <3>3, <3>5, Zenon
    <3> QED
      BY <3>4, <3>6, Zenon
  <2> QED
    BY <2>1, <2>2, <2>3, <2>4
<1>2. PICK j \in low .. i : j >= i - 3 /\ Stop(j)
  BY <1>1, Zenon
<1> DEFINE m == CHOOSE n \in low .. i : Stop(n)
<1>3. m \in low .. i /\ Stop(m)
  BY <1>2, Zenon
<1>4. m >= i - 3
  <2>1. CASE j <= m
    BY <1>2, <1>3, <2>1
  <2>2. CASE m < j
    <3>1. j \in m + 1 .. i
      BY <1>2, <1>3, <2>2
    <3>2. ~RuneStart(text, j)
      BY <1>3, <3>1, Zenon
    <3>3. j = low
      BY <1>2, <3>2, Zenon
    <3> QED
      BY <3>3, <2>2, <1>3
  <2> QED
    BY <1>3, <2>1, <2>2
<1>5. BackToRune(text, i, low) = m
  BY DEF BackToRune
<1> QED
  BY <1>3, <1>4, <1>5, Zenon

-----------------------------------------------------------------------------
\* splitLLMText

\* The overlap is at most a quarter of the chunk.
LEMMA OverlapSmall ==
  ASSUME NEW maxBytes \in Nat
  PROVE  Overlap(maxBytes) \in Nat /\ 4 * Overlap(maxBytes) <= maxBytes
  BY DEF Overlap

\* Where a chunk that is not the last one ends.
LEMMA ChunkEndPlace ==
  ASSUME NEW text, WellFormed(text), NEW maxBytes \in Nat \ {0}, NEW start \in Nat,
         start + maxBytes < Len(text)
  PROVE  /\ ChunkEnd(text, start, maxBytes) \in start .. start + maxBytes
         /\ ChunkEnd(text, start, maxBytes) >= start + maxBytes - 3
<1>1. Len(text) \in Nat
  BY DEF WellFormed
<1>2. ChunkEnd(text, start, maxBytes) = BackToRune(text, start + maxBytes, start)
  BY <1>1 DEF ChunkEnd
<1>3. start + maxBytes \in Nat /\ start < start + maxBytes
  OBVIOUS
<1>4. /\ BackToRune(text, start + maxBytes, start) \in start .. start + maxBytes
      /\ BackToRune(text, start + maxBytes, start) >= (start + maxBytes) - 3
  BY <1>3, BackToRuneStops, Zenon
<1> QED
  BY <1>2, <1>4

\* splitLLMText makes progress on every well-formed text once max_text_bytes
\* has room for a rune: the chunk is neither empty nor too long, and the next
\* one begins after its start and not after its end, so that the loop ends and
\* no byte is left out.
THEOREM ChunkProgress ==
  ASSUME NEW text, WellFormed(text), NEW maxBytes \in Nat, maxBytes >= UTFMax,
         NEW start \in Nat, start + maxBytes < Len(text)
  PROVE  /\ ChunkEnd(text, start, maxBytes) \in start + 1 .. start + maxBytes
         /\ NextStart(text, start, maxBytes) \in start + 1 .. ChunkEnd(text, start, maxBytes)
<1> DEFINE end == ChunkEnd(text, start, maxBytes)
           back == end - Overlap(maxBytes)
           next == BackToRune(text, back, start)
<1>0. maxBytes \in Nat \ {0} /\ maxBytes >= 4 /\ Len(text) \in Nat
  BY DEF UTFMax, WellFormed
<1>1. end \in start .. start + maxBytes /\ end >= start + maxBytes - 3
  BY <1>0, ChunkEndPlace, Zenon
<1>2. end \in start + 1 .. start + maxBytes
  BY <1>0, <1>1
<1>3. Overlap(maxBytes) \in Nat /\ 4 * Overlap(maxBytes) <= maxBytes
  BY OverlapSmall, Zenon
<1>4. NextStart(text, start, maxBytes) = IF next <= start THEN end ELSE next
  BY Zenon DEF NextStart
<1>5. CASE back <= start
  <2>1. next = back
    BY <1>5, Zenon DEF BackToRune
  <2> QED
    BY <1>2, <1>4, <1>5, <2>1
<1>6. CASE start < back
  <2>1. back \in Nat /\ back < Len(text) /\ back <= end
    BY <1>2, <1>3, <1>6
  <2>2. next \in start .. back
    BY <1>6, <2>1, BackToRuneStops, Zenon
  <2>3. CASE next <= start
    BY <1>2, <1>4, <2>3
  <2>4. CASE start < next
    <3>1. next \in start + 1 .. end
      BY <1>2, <2>1, <2>2, <2>4
    <3>2. NextStart(text, start, maxBytes) = next
      BY <1>4, <2>2, <2>4
    <3> QED
      BY <1>2, <3>1, <3>2, Zenon
  <2> QED
    BY <2>2, <2>3, <2>4
<1>7. back \in Int
  BY <1>1, <1>3
<1> QED
  BY <1>5, <1>6, <1>7

\* Once a chunk has at least nine bytes, the one after it repeats the whole
\* overlap.
LEMMA ChunkOverlap ==
  ASSUME NEW text, WellFormed(text), NEW maxBytes \in Nat, maxBytes >= 9,
         NEW start \in Nat, start + maxBytes < Len(text)
  PROVE  /\ ChunkEnd(text, start, maxBytes) \in Nat
         /\ NextStart(text, start, maxBytes) \in Nat
         /\ NextStart(text, start, maxBytes) <= ChunkEnd(text, start, maxBytes) - Overlap(maxBytes)
<1> DEFINE end == ChunkEnd(text, start, maxBytes)
           back == end - Overlap(maxBytes)
           next == BackToRune(text, back, start)
<1>0. maxBytes \in Nat \ {0} /\ Len(text) \in Nat
  BY DEF WellFormed
<1>1. end \in start .. start + maxBytes /\ end >= start + maxBytes - 3
  BY <1>0, ChunkEndPlace, Zenon
<1>2. Overlap(maxBytes) \in Nat /\ 4 * Overlap(maxBytes) <= maxBytes
  BY OverlapSmall, Zenon
<1>3. back \in Nat /\ start < back /\ back < Len(text) /\ back - 3 > start
  BY <1>0, <1>1, <1>2
<1>4. next \in start .. back /\ next >= back - 3
  BY <1>3, BackToRuneStops, Zenon
<1>5. NextStart(text, start, maxBytes) = next
  <2>1. NextStart(text, start, maxBytes) = IF next <= start THEN end ELSE next
    BY Zenon DEF NextStart
  <2> QED
    BY <1>3, <1>4, <2>1
<1> QED
  BY <1>1, <1>3, <1>4, <1>5

\* "The overlap keeps a phrase that straddles a cut in one chunk": a phrase
\* of at most the overlap's bytes that begins in a chunk lies in it whole or
\* begins in what the next chunk repeats.
THEOREM PhraseKept ==
  ASSUME NEW text, WellFormed(text), NEW maxBytes \in Nat, maxBytes >= 9,
         NEW start \in Nat, start + maxBytes < Len(text),
         NEW from \in Nat, NEW to \in Nat, start <= from, from < to,
         to - from <= Overlap(maxBytes)
  PROVE  \/ to <= ChunkEnd(text, start, maxBytes)
         \/ NextStart(text, start, maxBytes) <= from
<1>1. Overlap(maxBytes) \in Nat
  BY OverlapSmall, Zenon
<1> QED
  BY <1>1, ChunkOverlap

-----------------------------------------------------------------------------
\* splitChunks

\* runeBoundary moves an index back by at most three bytes.
LEMMA RuneBoundaryNear ==
  ASSUME NEW text, NEW index \in Int
  PROVE  /\ RuneBoundary(text, index) \in Int
         /\ RuneBoundary(text, index) <= index
         /\ RuneBoundary(text, index) >= index - 3
<1> DEFINE near == {i \in 1 .. index : i > index - UTFMax /\ RuneStart(text, i)}
           Last(i) == \A j \in near : j <= i
<1>1. CASE near = {}
  BY <1>1 DEF RuneBoundary
<1>2. CASE near # {}
  <2>1. \A i \in near : i \in Int /\ i <= index /\ i >= index - 3 /\ i > index - 4
    BY DEF UTFMax
  <2>2. \E i \in near : Last(i)
    <3>1. CASE index \in near
      BY <3>1, <2>1, Zenon
    <3>2. CASE index \notin near /\ index - 1 \in near
      BY <3>2, <2>1
    <3>3. CASE index \notin near /\ index - 1 \notin near /\ index - 2 \in near
      BY <3>3, <2>1
    <3>4. CASE index \notin near /\ index - 1 \notin near /\ index - 2 \notin near
      <4>1. \A i \in near : i = index - 3
        BY <3>4, <2>1
      <4> QED
        BY <1>2, <4>1
    <3> QED
      BY <3>1, <3>2, <3>3, <3>4, Zenon
  <2>3. (CHOOSE i \in near : Last(i)) \in near
    BY <2>2, Zenon
  <2>4. RuneBoundary(text, index) = CHOOSE i \in near : Last(i)
    BY <1>2, Zenon DEF RuneBoundary
  <2> QED
    BY <2>1, <2>3, <2>4, Zenon
<1> QED
  BY <1>1, <1>2, Zenon

\* The rune at start ends after it.
LEMMA RuneEnds ==
  ASSUME NEW text, WellFormed(text), NEW start \in Nat, start < Len(text)
  PROVE  RuneEnd(text, start) \in start + 1 .. Len(text)
<1> DEFINE Ends(i) == /\ i = Len(text) \/ RuneStart(text, i)
                      /\ \A j \in start + 1 .. i - 1 : ~RuneStart(text, j)
           At(n) == start + n = Len(text) \/ RuneStart(text, start + n)
<1>0. Len(text) \in Nat
  BY DEF WellFormed
<1>1. \E i \in start + 1 .. Len(text) : Ends(i)
  <2>1. CASE At(1)
    <3>1. Ends(start + 1)
      BY <2>1
    <3> QED
      BY <1>0, <3>1
  <2>2. CASE ~At(1) /\ At(2)
    <3>1. start + 2 \in start + 1 .. Len(text)
      BY <1>0, <2>2
    <3>2. \A j \in start + 1 .. (start + 2) - 1 : j = start + 1
      OBVIOUS
    <3>3. Ends(start + 2)
      BY <2>2, <3>2, Zenon
    <3> QED
      BY <3>1, <3>3, Zenon
  <2>3. CASE ~At(1) /\ ~At(2) /\ At(3)
    <3>1. start + 3 \in start + 1 .. Len(text)
      BY <1>0, <2>3
    <3>2. \A j \in start + 1 .. (start + 3) - 1 : j = start + 1 \/ j = start + 2
      OBVIOUS
    <3>3. Ends(start + 3)
      BY <2>3, <3>2, Zenon
    <3> QED
      BY <3>1, <3>3, Zenon
  <2>4. CASE ~At(1) /\ ~At(2) /\ ~At(3)
    <3>1. start + 4 \in start + 1 .. Len(text)
      BY <1>0, <2>4
    <3>2. At(4)
      <4>1. SUFFICES ASSUME start + 4 # Len(text) PROVE RuneStart(text, start + 4)
        BY Zenon
      <4>2. start + 4 \in 0 .. Len(text) - 1
        BY <1>0, <3>1, <4>1
      <4>3. PICK j \in 0 .. start + 4 : j >= (start + 4) - 3 /\ RuneStart(text, j)
        BY <4>2, StartNearby, Zenon
      <4>4. j = start + 4
        BY <2>4, <4>3
      <4> QED
        BY <4>3, <4>4, Zenon
    <3>3. \A j \in start + 1 .. (start + 4) - 1 : j = start + 1 \/ j = start + 2 \/ j = start + 3
      OBVIOUS
    <3>4. Ends(start + 4)
      BY <2>4, <3>2, <3>3, Zenon
    <3> QED
      BY <3>1, <3>4, Zenon
  <2> QED
    BY <2>1, <2>2, <2>3, <2>4, Zenon
<1>2. (CHOOSE i \in start + 1 .. Len(text) : Ends(i)) \in start + 1 .. Len(text)
  BY <1>1, Zenon
<1> QED
  BY <1>2, Zenon DEF RuneEnd

\* Where a chunk of the guard that is not the last one ends.
LEMMA GuardEndPlace ==
  ASSUME NEW text, NEW chunkBytes \in Nat \ {0}, NEW start \in Nat
  PROVE  /\ GuardEnd(text, start, chunkBytes) \in start + 1 .. start + chunkBytes
         /\ GuardEnd(text, start, chunkBytes) >= start + chunkBytes - 3
<1> DEFINE end == RuneBoundary(text, start + chunkBytes)
<1>1. end \in Int /\ end <= start + chunkBytes /\ end >= (start + chunkBytes) - 3
  BY RuneBoundaryNear
<1>2. GuardEnd(text, start, chunkBytes) = IF end <= start THEN start + chunkBytes ELSE end
  BY Zenon DEF GuardEnd
<1> QED
  BY <1>1, <1>2

\* splitChunks always makes progress, for any CHUNK_BYTES: no chunk is empty
\* or too long, the next one begins later, and no byte is left out.
THEOREM GuardProgress ==
  ASSUME NEW text, WellFormed(text), NEW chunkBytes \in Nat \ {0}, NEW overlapBytes \in Nat,
         NEW start \in Nat, start + chunkBytes < Len(text)
  PROVE  /\ GuardEnd(text, start, chunkBytes) \in start + 1 .. start + chunkBytes
         /\ GuardNext(text, start, chunkBytes, overlapBytes)
              \in start + 1 .. GuardEnd(text, start, chunkBytes)
<1> DEFINE end == GuardEnd(text, start, chunkBytes)
           next == RuneBoundary(text, end - overlapBytes)
           step == RuneEnd(text, start)
<1>1. end \in start + 1 .. start + chunkBytes
  BY GuardEndPlace, Zenon
<1>2. next \in Int /\ next <= end
  BY <1>1, RuneBoundaryNear
<1>3. step \in start + 1 .. Len(text) /\ Len(text) \in Nat
  BY RuneEnds DEF WellFormed
<1>4. GuardNext(text, start, chunkBytes, overlapBytes)
        = IF next > start THEN next ELSE IF step < end THEN step ELSE end
  BY Zenon DEF GuardNext
<1> QED
  BY <1>1, <1>2, <1>3, <1>4

\* "Consecutive chunks share at least overlapBytes bytes, so anything up to
\* that size that straddles a cut is still seen whole by one chunk. ... Only
\* an overlap within a few bytes of the chunk size can force a smaller
\* overlap": a few bytes are at most six.
THEOREM GuardPhraseKept ==
  ASSUME NEW text, NEW chunkBytes \in Nat \ {0}, NEW overlapBytes \in Nat,
         overlapBytes + 6 < chunkBytes, NEW start \in Nat,
         NEW from \in Nat, NEW to \in Nat, start <= from, from < to,
         to - from <= overlapBytes
  PROVE  \/ to <= GuardEnd(text, start, chunkBytes)
         \/ GuardNext(text, start, chunkBytes, overlapBytes) <= from
<1> DEFINE end == GuardEnd(text, start, chunkBytes)
           next == RuneBoundary(text, end - overlapBytes)
<1>1. end \in start + 1 .. start + chunkBytes /\ end >= start + chunkBytes - 3
  BY GuardEndPlace, Zenon
<1>2. next \in Int /\ next <= end - overlapBytes /\ next >= (end - overlapBytes) - 3
  BY <1>1, RuneBoundaryNear
<1>3. next > start
  BY <1>1, <1>2
<1>4. GuardNext(text, start, chunkBytes, overlapBytes) = next
  BY <1>3, Zenon DEF GuardNext
<1> QED
  BY <1>1, <1>2, <1>4

-----------------------------------------------------------------------------
(* LLMGuard *)

\* The goroutine a request has started holds the token until it releases it.
SlotOwned == \A r \in Request : infer[r] # "none" <=> slot = r

\* Close holds it for good once it has taken it.
CloserHolds == slot = Closer <=> closer \in {"holding", "destroyed"}

\* A run that is not abandoned has a caller that awaits it.
RunAwaited == \A r \in Request : infer[r] = "running" => pc[r] = "await" /\ result[r] = "none"

IInv == TypeOK /\ SlotOwned /\ CloserHolds /\ RunAwaited /\ OwnResult /\ AdmissionExact

-----------------------------------------------------------------------------
\* A request that leaves frees exactly its own place in the count.
LEMMA LeaveCount ==
  ASSUME TypeOK, AdmissionExact, NEW r \in Request, pc[r] \in Admitted, Leave(r)
  PROVE  admission' \in 0..MaxConcurrent /\ AdmissionExact'
<1> DEFINE A == {q \in Request : pc[q] \in Admitted}
<1>1. IsFiniteSet(A)
  BY GuardAssumption, FS_Subset, Zenon
<1>2. r \in A /\ A' = A \ {r}
  BY Zenon DEF TypeOK, Leave, Admitted
<1>3. Cardinality(A \ {r}) = Cardinality(A) - 1 /\ Cardinality(A) \in Nat /\ Cardinality(A \ {r}) \in Nat
  BY <1>1, <1>2, FS_RemoveElement, FS_CardinalityType, Zenon
<1>4. admission = Cardinality(A) /\ admission' = admission - 1
  BY Zenon DEF AdmissionExact, Leave
<1>5. admission' = Cardinality(A')
  BY <1>2, <1>3, <1>4, Zenon
<1>6. admission' \in 0..MaxConcurrent
  BY <1>3, <1>4, GuardAssumption DEF TypeOK
<1> QED
  BY <1>5, <1>6, Zenon DEF AdmissionExact

\* A request that is admitted adds exactly one.
LEMMA AdmitCount ==
  ASSUME TypeOK, AdmissionExact, NEW r \in Request, NEW n \in 1..MaxBatches, Admit(r, n)
  PROVE  admission' \in 0..MaxConcurrent /\ AdmissionExact'
<1> DEFINE A == {q \in Request : pc[q] \in Admitted}
<1>1. IsFiniteSet(A)
  BY GuardAssumption, FS_Subset, Zenon
<1>2. r \notin A /\ A' = A \cup {r}
  BY Zenon DEF TypeOK, Admit, Admitted
<1>3. Cardinality(A \cup {r}) = Cardinality(A) + 1
  BY <1>1, <1>2, FS_AddElement, Zenon
<1>4. admission = Cardinality(A) /\ admission' = admission + 1
  BY Zenon DEF AdmissionExact, Admit
<1>5. admission' = Cardinality(A')
  BY <1>2, <1>3, <1>4, Zenon
<1>6. admission' \in 0..MaxConcurrent
  BY <1>4, GuardAssumption DEF TypeOK, Admit, CapacityLeft
<1> QED
  BY <1>5, <1>6, Zenon DEF AdmissionExact

\* A step that keeps every request on its side of admission keeps the count.
LEMMA SameCount ==
  ASSUME AdmissionExact, admission' = admission,
         \A q \in Request : pc'[q] \in Admitted <=> pc[q] \in Admitted
  PROVE  AdmissionExact'
<1>1. {q \in Request : pc'[q] \in Admitted} = {q \in Request : pc[q] \in Admitted}
  BY Zenon
<1> QED
  BY <1>1, Zenon DEF AdmissionExact

-----------------------------------------------------------------------------
LEMMA InitInv == Init => IInv
<1> SUFFICES ASSUME Init PROVE IInv
  BY Zenon
<1>1. TypeOK
  BY GuardAssumption DEF Init, TypeOK, Admitted, Running
<1>2. SlotOwned /\ CloserHolds /\ RunAwaited /\ OwnResult
  BY GuardAssumption, Zenon DEF Init, SlotOwned, CloserHolds, RunAwaited, OwnResult
<1>3. {r \in Request : pc[r] \in Admitted} = {}
  BY Zenon DEF Init, Admitted
<1>4. AdmissionExact
  BY <1>3, FS_EmptySet, Zenon DEF Init, AdmissionExact
<1> QED
  BY <1>1, <1>2, <1>4, Zenon DEF IInv

\* IInv is inductive: one step per action of the model.
LEMMA StepInv == IInv /\ [Next]_vars => IInv'
<1> SUFFICES ASSUME IInv, [Next]_vars PROVE IInv'
  BY Zenon
<1> USE GuardAssumption
<1>1. ASSUME NEW r \in Request, NEW n \in 1..MaxBatches, Admit(r, n) PROVE IInv'
  <2>1. admission' \in 0..MaxConcurrent /\ AdmissionExact'
    BY <1>1, AdmitCount, Zenon DEF IInv
  <2>2. TypeOK'
    BY <1>1, <2>1 DEF IInv, TypeOK, Admit, Admitted, Running
  <2>3. SlotOwned' /\ CloserHolds'
    BY <1>1, Zenon DEF IInv, SlotOwned, CloserHolds, Admit
  <2>4. RunAwaited' /\ OwnResult'
    BY <1>1, Zenon DEF IInv, TypeOK, RunAwaited, OwnResult, Admit
  <2> QED
    BY <2>1, <2>2, <2>3, <2>4, Zenon DEF IInv
<1>2. ASSUME NEW r \in Request, Expire(r) PROVE IInv'
  <2>1. TypeOK'
    BY <1>2, Zenon DEF IInv, TypeOK, Expire
  <2>2. SlotOwned' /\ CloserHolds' /\ RunAwaited' /\ OwnResult'
    BY <1>2, Zenon DEF IInv, SlotOwned, CloserHolds, RunAwaited, OwnResult, Expire
  <2>3. AdmissionExact'
    BY <1>2, SameCount, Zenon DEF IInv, Expire
  <2> QED
    BY <2>1, <2>2, <2>3, Zenon DEF IInv
<1>3. ASSUME NEW r \in Request, ClassifyBegin(r) PROVE IInv'
  <2>1. TypeOK'
    BY <1>3, Zenon DEF IInv, TypeOK, ClassifyBegin, Admitted
  <2>2. SlotOwned' /\ CloserHolds'
    BY <1>3, Zenon DEF IInv, SlotOwned, CloserHolds, ClassifyBegin
  <2>3. RunAwaited' /\ OwnResult'
    BY <1>3, Zenon DEF IInv, TypeOK, RunAwaited, OwnResult, ClassifyBegin
  <2>4. AdmissionExact'
    BY <1>3, SameCount, Zenon DEF IInv, TypeOK, ClassifyBegin, Admitted
  <2> QED
    BY <2>1, <2>2, <2>3, <2>4, Zenon DEF IInv
<1>4. ASSUME NEW r \in Request, GiveUpWaiting(r) PROVE IInv'
  <2>1. admission' \in 0..MaxConcurrent /\ AdmissionExact'
    BY <1>4, LeaveCount, Zenon DEF IInv, GiveUpWaiting, Admitted
  <2>2. TypeOK'
    BY <1>4, <2>1 DEF IInv, TypeOK, GiveUpWaiting, Leave
  <2>3. SlotOwned' /\ CloserHolds'
    BY <1>4, Zenon DEF IInv, SlotOwned, CloserHolds, GiveUpWaiting
  <2>4. RunAwaited' /\ OwnResult'
    BY <1>4, Zenon DEF IInv, TypeOK, RunAwaited, OwnResult, GiveUpWaiting, Leave
  <2> QED
    BY <2>1, <2>2, <2>3, <2>4, Zenon DEF IInv
<1>5. ASSUME NEW r \in Request, TakeSlot(r) PROVE IInv'
  <2>1. TypeOK'
    BY <1>5, Zenon DEF IInv, TypeOK, TakeSlot, Admitted, Running
  <2>2. SlotOwned' /\ CloserHolds'
    BY <1>5, Zenon DEF IInv, TypeOK, SlotOwned, CloserHolds, TakeSlot, SlotFree
  <2>3. RunAwaited' /\ OwnResult'
    BY <1>5, Zenon DEF IInv, TypeOK, RunAwaited, OwnResult, TakeSlot
  <2>4. AdmissionExact'
    BY <1>5, SameCount, Zenon DEF IInv, TypeOK, TakeSlot, Admitted
  <2> QED
    BY <2>1, <2>2, <2>3, <2>4, Zenon DEF IInv
<1>6. ASSUME NEW r \in Request, Abandon(r) PROVE IInv'
  <2>1. admission' \in 0..MaxConcurrent /\ AdmissionExact'
    BY <1>6, LeaveCount, Zenon DEF IInv, Abandon, Admitted
  <2>2. TypeOK'
    BY <1>6, <2>1 DEF IInv, TypeOK, Abandon, Leave, Running
  <2>3. SlotOwned' /\ CloserHolds'
    BY <1>6, Zenon DEF IInv, TypeOK, SlotOwned, CloserHolds, Abandon
  <2>4. RunAwaited' /\ OwnResult'
    BY <1>6, Zenon DEF IInv, TypeOK, RunAwaited, OwnResult, Abandon, Leave
  <2> QED
    BY <2>1, <2>2, <2>3, <2>4, Zenon DEF IInv
<1>7. ASSUME NEW r \in Request, Receive(r) PROVE IInv'
  <2>1. CASE result[r] = "ok" /\ left[r] > 1
    <3>1. TypeOK'
      BY <1>7, <2>1 DEF IInv, TypeOK, Receive, Admitted
    <3>2. SlotOwned' /\ CloserHolds'
      BY <1>7, Zenon DEF IInv, SlotOwned, CloserHolds, Receive
    <3>3. RunAwaited' /\ OwnResult'
      BY <1>7, <2>1 DEF IInv, TypeOK, RunAwaited, OwnResult, Receive
    <3>4. AdmissionExact'
      BY <1>7, <2>1, SameCount, Zenon DEF IInv, TypeOK, Receive, Admitted
    <3> QED
      BY <3>1, <3>2, <3>3, <3>4, Zenon DEF IInv
  <2>2. CASE ~(result[r] = "ok" /\ left[r] > 1)
    <3>1. Leave(r) /\ UNCHANGED <<infer, slot, closer>> /\ pc[r] \in Admitted
      BY <1>7, <2>2, Zenon DEF Receive, Admitted
    <3>2. admission' \in 0..MaxConcurrent /\ AdmissionExact'
      BY <3>1, LeaveCount, Zenon DEF IInv
    <3>3. TypeOK'
      BY <3>1, <3>2 DEF IInv, TypeOK, Leave
    <3>4. SlotOwned' /\ CloserHolds'
      BY <3>1, Zenon DEF IInv, SlotOwned, CloserHolds
    <3>5. RunAwaited' /\ OwnResult'
      BY <1>7, <3>1, Zenon DEF IInv, TypeOK, RunAwaited, OwnResult, Receive, Leave
    <3> QED
      BY <3>2, <3>3, <3>4, <3>5, Zenon DEF IInv
  <2> QED
    BY <2>1, <2>2, Zenon
<1>8. ASSUME NEW r \in Request, NEW res \in {"ok", "err"}, InferEnd(r, res) PROVE IInv'
  <2>1. TypeOK'
    BY <1>8, Zenon DEF IInv, TypeOK, InferEnd, Running
  <2>2. SlotOwned' /\ CloserHolds'
    BY <1>8, Zenon DEF IInv, TypeOK, SlotOwned, CloserHolds, InferEnd, Running
  <2>3. RunAwaited' /\ OwnResult'
    BY <1>8, Zenon DEF IInv, TypeOK, RunAwaited, OwnResult, InferEnd, Running
  <2>4. AdmissionExact'
    BY <1>8, SameCount, Zenon DEF IInv, InferEnd
  <2> QED
    BY <2>1, <2>2, <2>3, <2>4, Zenon DEF IInv
<1>9. ASSUME NEW r \in Request, Release(r) PROVE IInv'
  <2>1. TypeOK'
    BY <1>9, Zenon DEF IInv, TypeOK, Release, Running
  <2>2. SlotOwned' /\ CloserHolds'
    BY <1>9, Zenon DEF IInv, TypeOK, SlotOwned, CloserHolds, Release
  <2>3. RunAwaited' /\ OwnResult'
    BY <1>9, Zenon DEF IInv, TypeOK, RunAwaited, OwnResult, Release
  <2>4. AdmissionExact'
    BY <1>9, SameCount, Zenon DEF IInv, Release
  <2> QED
    BY <2>1, <2>2, <2>3, <2>4, Zenon DEF IInv
<1>10. ASSUME Shutdown \/ CloseStep PROVE IInv'
  <2>1. UNCHANGED <<pc, left, expired, result, infer, admission>>
    BY <1>10, Zenon DEF Shutdown, CloseStep, CloseTake, CloseTimeout, Destroy
  <2>2. TypeOK'
    BY <1>10, Zenon DEF IInv, TypeOK, Shutdown, CloseStep, CloseTake, CloseTimeout, Destroy
  <2>3. SlotOwned' /\ CloserHolds'
    BY <1>10, Zenon
       DEF IInv, TypeOK, SlotOwned, CloserHolds, Shutdown, CloseStep, CloseTake, CloserMayTake,
           CloseTimeout, Destroy
  <2>4. RunAwaited' /\ OwnResult'
    BY <2>1, Zenon DEF IInv, RunAwaited, OwnResult
  <2>5. AdmissionExact'
    BY <2>1, SameCount, Zenon DEF IInv
  <2> QED
    BY <2>2, <2>3, <2>4, <2>5, Zenon DEF IInv
<1>11. ASSUME UNCHANGED vars PROVE IInv'
  <2>1. TypeOK' /\ SlotOwned' /\ CloserHolds' /\ RunAwaited' /\ OwnResult'
    BY <1>11, Zenon DEF IInv, TypeOK, SlotOwned, CloserHolds, RunAwaited, OwnResult, vars
  <2>2. AdmissionExact'
    BY <1>11, SameCount, Zenon DEF IInv, vars
  <2> QED
    BY <2>1, <2>2, Zenon DEF IInv
<1> QED
  BY <1>1, <1>2, <1>3, <1>4, <1>5, <1>6, <1>7, <1>8, <1>9, <1>10, <1>11, Zenon
     DEF Next, HandlerStep, GoroutineStep, Reject

-----------------------------------------------------------------------------
LEMMA Invariance == Spec => []IInv
  BY InitInv, StepInv, PTL DEF Spec

\* Type correctness; the admission channel in particular never exceeds
\* MAX_CONCURRENT_REQUESTS nor is drained below empty.
THEOREM TypeCorrect == Spec => []TypeOK
<1>1. IInv => TypeOK
  BY Zenon DEF IInv
<1> QED
  BY <1>1, Invariance, PTL

\* Model runs never overlap, whatever callers time out.
THEOREM InferenceExclusive == Spec => []OneInference
<1>1. IInv => OneInference
  BY Zenon DEF IInv, SlotOwned, OneInference, Running
<1> QED
  BY <1>1, Invariance, PTL

\* Close never destroys the session under a run, and no run starts later.
THEOREM DestroySafe == Spec => []NoRunAfterDestroy
<1>1. IInv => NoRunAfterDestroy
  BY GuardAssumption, Zenon DEF IInv, SlotOwned, CloserHolds, NoRunAfterDestroy, Running
<1> QED
  BY <1>1, Invariance, PTL

\* Every return path of handleDetect releases its admission token.
THEOREM AdmissionReleased == Spec => []AdmissionExact
<1>1. IInv => AdmissionExact
  BY Zenon DEF IInv
<1> QED
  BY <1>1, Invariance, PTL

\* No request receives the result of another's run.
THEOREM ResultsNotMixed == Spec => []OwnResult
<1>1. IInv => OwnResult
  BY Zenon DEF IInv
<1> QED
  BY <1>1, Invariance, PTL

-----------------------------------------------------------------------------
\* The run the contract sees is determined by infer.
LEMMA RunUnique ==
  ASSUME IInv, NEW r \in Request, infer[r] \in Running
  PROVE  CurrentRun = r
<1>1. \A q \in Request : infer[q] \in Running => q = r
  BY Zenon DEF IInv, SlotOwned, Running
<1> QED
  BY <1>1, Zenon DEF CurrentRun

LEMMA RunNone ==
  ASSUME \A r \in Request : infer[r] \notin Running
  PROVE  CurrentRun = Free
  BY Zenon DEF CurrentRun

\* The same for the state after a step.
LEMMA RunUniqueNext ==
  ASSUME IInv', NEW r \in Request, infer'[r] \in Running
  PROVE  CurrentRun' = r
<1>1. \A q \in Request : infer'[q] \in Running => q = r
  BY Zenon DEF IInv, SlotOwned, Running
<1> QED
  BY <1>1, Zenon DEF CurrentRun

LEMMA RunNoneNext ==
  ASSUME \A r \in Request : infer'[r] \notin Running
  PROVE  CurrentRun' = Free
  BY Zenon DEF CurrentRun

\* A step that starts and ends no run is invisible to the contract.
LEMMA RunKept ==
  ASSUME IInv, IInv', \A r \in Request : infer'[r] \in Running <=> infer[r] \in Running
  PROVE  CurrentRun' = CurrentRun
<1>1. CASE \E r \in Request : infer[r] \in Running
  <2>1. PICK r \in Request : infer[r] \in Running
    BY <1>1, Zenon
  <2>2. CurrentRun = r
    BY <2>1, RunUnique, Zenon
  <2>3. CurrentRun' = r
    BY <2>1, RunUniqueNext, Zenon
  <2> QED
    BY <2>2, <2>3, Zenon
<1>2. CASE \A r \in Request : infer[r] \notin Running
  BY <1>2, RunNone, RunNoneNext, Zenon
<1> QED
  BY <1>1, <1>2, Zenon

\* Every step of the guard is a step of the contract or leaves it unchanged.
LEMMA StepContract ==
  ASSUME IInv, IInv', [Next]_vars
  PROVE  [Session!Next]_<<CurrentRun, closer # "destroyed">>
<1> USE GuardAssumption
<1>1. ASSUME NEW r \in Request, TakeSlot(r) PROVE Session!Start(r)
  <2>1. \A q \in Request : infer[q] \notin Running
    BY <1>1, Zenon DEF IInv, SlotOwned, TakeSlot, SlotFree, Running
  <2>2. CurrentRun = Free
    BY <2>1, RunNone, Zenon
  <2>3. infer'[r] \in Running
    BY <1>1 DEF IInv, TypeOK, TakeSlot, Running
  <2>4. CurrentRun' = r
    BY <2>3, RunUniqueNext, Zenon
  <2>5. closer # "destroyed" /\ closer' = closer
    BY <1>1, Zenon DEF IInv, CloserHolds, TakeSlot, SlotFree
  <2> QED
    BY <2>2, <2>4, <2>5, Zenon DEF Session!Start
<1>2. ASSUME NEW r \in Request, NEW res \in {"ok", "err"}, InferEnd(r, res) PROVE Session!End
  <2>1. CurrentRun = r
    BY <1>2, RunUnique, Zenon DEF InferEnd
  <2>2. \A q \in Request : infer'[q] \notin Running
    BY <1>2 DEF IInv, TypeOK, SlotOwned, InferEnd, Running
  <2>3. CurrentRun' = Free
    BY <2>2, RunNoneNext, Zenon
  <2>4. closer' = closer
    BY <1>2, Zenon DEF InferEnd
  <2> QED
    BY <2>1, <2>3, <2>4, Zenon DEF Session!End
<1>3. ASSUME Destroy PROVE Session!Destroy
  <2>1. \A q \in Request : infer[q] \notin Running /\ infer'[q] \notin Running
    BY <1>3, Zenon DEF IInv, SlotOwned, CloserHolds, Destroy, Running
  <2>2. CurrentRun = Free /\ CurrentRun' = Free
    BY <2>1, RunNone, RunNoneNext, Zenon
  <2> QED
    BY <1>3, <2>2, Zenon DEF Destroy, Session!Destroy
<1>4. ASSUME \A q \in Request : infer'[q] \in Running <=> infer[q] \in Running,
             closer' # "destroyed" <=> closer # "destroyed"
      PROVE  UNCHANGED <<CurrentRun, closer # "destroyed">>
  BY <1>4, RunKept, Zenon
<1>5. ASSUME NEW r \in Request,
             \/ \E n \in 1..MaxBatches : Admit(r, n)
             \/ Reject(r) \/ Expire(r) \/ ClassifyBegin(r) \/ GiveUpWaiting(r) \/ Receive(r)
      PROVE  UNCHANGED <<CurrentRun, closer # "destroyed">>
  <2>1. infer' = infer /\ closer' = closer
    BY <1>5, Zenon DEF Admit, Reject, Expire, ClassifyBegin, GiveUpWaiting, Receive, vars
  <2> QED
    BY <2>1, <1>4, Zenon
<1>6. ASSUME NEW r \in Request, Abandon(r) \/ Release(r)
      PROVE  UNCHANGED <<CurrentRun, closer # "destroyed">>
  <2>1. closer' = closer /\ \A q \in Request : infer'[q] \in Running <=> infer[q] \in Running
    BY <1>6 DEF IInv, TypeOK, Abandon, Release, Running
  <2> QED
    BY <2>1, <1>4, Zenon
<1>7. ASSUME Shutdown \/ CloseTake \/ CloseTimeout \/ UNCHANGED vars
      PROVE  UNCHANGED <<CurrentRun, closer # "destroyed">>
  <2>1. infer' = infer /\ (closer' # "destroyed" <=> closer # "destroyed")
    BY <1>7, Zenon DEF Shutdown, CloseTake, CloseTimeout, vars
  <2> QED
    BY <2>1, <1>4, Zenon
<1> QED
  BY <1>1, <1>2, <1>3, <1>5, <1>6, <1>7, Zenon
     DEF Next, HandlerStep, GoroutineStep, CloseStep, Session!Next

\* The guard implements the session's contract: the comments of Classify and
\* Close, as a refinement.
THEOREM ContractImplemented == Spec => SessionContract
<1>1. Init => Session!Init
  <2> SUFFICES ASSUME Init PROVE Session!Init
    BY Zenon
  <2>1. CurrentRun = Free
    BY RunNone, Zenon DEF Init, Running
  <2> QED
    BY <2>1, Zenon DEF Init, Session!Init
<1>2. IInv /\ IInv' /\ [Next]_vars => [Session!Next]_<<CurrentRun, closer # "destroyed">>
  BY StepContract, Zenon
<1> QED
  BY <1>1, <1>2, Invariance, PTL DEF Spec, SessionContract, Session!Spec
=============================================================================
