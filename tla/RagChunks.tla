----------------------------- MODULE RagChunks -----------------------------
(***************************************************************************)
(* rag-chunker.ts: how the text of a transcript is cut into chunks that    *)
(* fit the encoder.  A text is a sequence of code points: "a" a letter,    *)
(* "_" a blank, "m" a combining mark.  count[<<s, e>>] is the number of    *)
(* tokens of the code points s + 1 .. e, fits[<<s, e>>] whether they fit   *)
(* the model with the prefix of a passage: a tokenizer need not be         *)
(* monotonic, which is why the code searches twice.  A transcript is a     *)
(* sequence of segments, which joined by a blank are the text.             *)
(***************************************************************************)
EXTENDS Integers, Sequences, FiniteSetsExt, TLC

CONSTANTS MaxOverlapTokens, MaxChunksPerDocument

NoTime == -1
None == -1

Blank(text, s, e) == \A i \in s + 1 .. e : text[i] = "_"

IsMark(text, p) == p < Len(text) /\ text[p + 1] = "m"

\* Where the overlap of the chunk that starts at coreStart begins.
OverlapStart(text, count, coreStart) ==
  LET small(s) == count[<<s, coreStart>>] <= MaxOverlapTokens
      search[low, high \in 0 .. coreStart] ==
        IF low >= high THEN low
        ELSE LET middle == (low + high) \div 2
             IN IF small(middle) THEN search[low, middle] ELSE search[middle + 1, high]
      found == search[0, coreStart]
      down == Min({s \in 0 .. found : \A k \in s .. found - 1 : small(k)})
      up == Min({s \in down .. coreStart : s = coreStart \/ small(s)})
  IN IF coreStart = 0 \/ small(0) THEN 0
     ELSE Min({s \in up .. coreStart : s = coreStart \/ ~ IsMark(text, s)})

LargestFittingEnd(length, fits, overlapStart, coreStart) ==
  LET ok(e) == fits[<<overlapStart, e>>]
      search[low \in coreStart + 1 .. length + 1, high \in coreStart .. length,
             best \in coreStart .. length] ==
        IF low > high THEN best
        ELSE LET middle == (low + high) \div 2
             IN IF ok(middle) THEN search[middle + 1, high, middle]
                ELSE search[low, middle - 1, best]
      found == search[coreStart + 1, length, coreStart]
      up == Max({e \in found .. length : \A k \in found + 1 .. e : ok(k)})
  IN Max({e \in coreStart .. up : e = coreStart \/ ok(e)})

\* Where the chunk ends: at the last segment boundary up to which all of them
\* fit, else as far as it fits; not before a mark; None when nothing fits.
CoreEnd(text, fits, overlapStart, coreStart, boundaries) ==
  LET ahead == {b \in boundaries : b > coreStart}
      fitting == {b \in ahead : \A c \in ahead : c <= b => fits[<<overlapStart, c>>]}
      largest == LargestFittingEnd(Len(text), fits, overlapStart, coreStart)
      bounded == IF fitting # {} THEN Max(fitting) ELSE largest
      visible == IF Blank(text, overlapStart, bounded) THEN largest ELSE bounded
      stops(e) == e <= coreStart + 1 \/ ~ IsMark(text, e)
      end == IF visible <= coreStart THEN visible
             ELSE Max({e \in coreStart + 1 .. visible : stops(e)})
  IN IF end <= coreStart \/ ~ fits[<<overlapStart, end>>] THEN None ELSE end

\* The spans of the segments: each owns the blank that follows it.
SegmentSpans(segments, length) ==
  LET start[i \in 1 .. Len(segments)] ==
        IF i = 1 THEN 0 ELSE start[i - 1] + segments[i - 1].length + 1
  IN [i \in 1 .. Len(segments) |->
       [start |-> start[i],
        ownedEnd |-> IF i = Len(segments) THEN length
                     ELSE start[i] + segments[i].length + 1]]

CoveredSegments(spans, coreStart, coreEnd) ==
  LET covered == {i \in DOMAIN spans : coreStart < spans[i].ownedEnd
                                       /\ coreEnd > spans[i].start}
  IN IF covered = {} THEN [start |-> 0, end |-> 0]
     ELSE [start |-> Min(covered) - 1, end |-> Max(covered)]

\* From the earliest start to the latest end; the end is unknown when that of
\* one segment is.
Timestamps(segments, range) ==
  LET inside == {segments[i] : i \in range.start + 1 .. range.end}
  IN [start |-> Min({s.startSeconds : s \in inside}),
      end |-> IF \E s \in inside : s.durationSeconds = NoTime THEN NoTime
              ELSE Max({s.startSeconds + s.durationSeconds : s \in inside})]

\* The chunks of a text, or that it has none it can be cut into.
Chunks(text, count, fits, segments) ==
  LET length == Len(text)
      spans == SegmentSpans(segments, length)
      boundaries == {spans[i].ownedEnd : i \in DOMAIN spans}
      from[coreStart \in 0 .. length] ==
        LET overlapStart == OverlapStart(text, count, coreStart)
            coreEnd == CoreEnd(text, fits, overlapStart, coreStart, boundaries)
            covered == CoveredSegments(spans, coreStart, coreEnd)
            rest == from[coreEnd]
        IN IF coreStart = length THEN [ok |-> TRUE, chunks |-> <<>>]
           ELSE IF coreEnd = None \/ Blank(text, overlapStart, coreEnd) \/ covered.end = 0
                THEN [ok |-> FALSE, chunks |-> <<>>]
           ELSE [ok |-> rest.ok,
                 chunks |-> <<[core |-> [start |-> coreStart, end |-> coreEnd],
                               overlap |-> [start |-> overlapStart, end |-> coreStart],
                               segments |-> covered,
                               times |-> Timestamps(segments, covered)]>> \o rest.chunks]
      result == from[0]
  IN IF Blank(text, 0, length) \/ Len(segments) = 0 \/ ~ result.ok
          \/ Len(result.chunks) > MaxChunksPerDocument
     THEN [ok |-> FALSE, chunks |-> <<>>]
     ELSE [ok |-> TRUE,
           chunks |-> [i \in DOMAIN result.chunks |->
                        [ordinal |-> i - 1, count |-> Len(result.chunks)] @@ result.chunks[i]]]
=============================================================================
