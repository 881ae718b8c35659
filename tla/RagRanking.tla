----------------------------- MODULE RagRanking -----------------------------
(***************************************************************************)
(* rag-search-service.ts: how the candidates of the vector search and of   *)
(* the text search become one ranking.  A candidate has a score and what   *)
(* the index keeps of its chunk; the identifiers are numbers, in the order *)
(* of localeCompare.  Scores of the fusion are fractions <<n, d>>, where   *)
(* the code adds floating-point numbers.                                   *)
(***************************************************************************)
EXTENDS Integers, FiniteSetsExt

CONSTANTS CandidateLimit, RrfK

\* candidateSignature: the candidate without its score.
Signature(c) == [chunk |-> c.chunk, doc |-> c.doc, version |-> c.version,
                 ordinal |-> c.ordinal, content |-> c.content]

\* stableIdentity(c, d) < 0
Before(c, d) ==
  \/ c.doc < d.doc
  \/ c.doc = d.doc /\ c.version < d.version
  \/ c.doc = d.doc /\ c.version = d.version /\ c.ordinal < d.ordinal
  \/ c.doc = d.doc /\ c.version = d.version /\ c.ordinal = d.ordinal /\ c.chunk < d.chunk

\* The order of the candidates of one search: by score, then by identity.
Ahead(c, d) == c.score > d.score \/ (c.score = d.score /\ Before(c, d))

\* Candidates that tell different things of one chunk are refused.
Agreeing(candidates) ==
  \A c, d \in candidates : c.chunk = d.chunk => Signature(c) = Signature(d)

\* Of the candidates of one chunk the one with the best score is retained.
Retained(candidates) ==
  {c \in candidates : \A d \in candidates : c.chunk = d.chunk => c.score >= d.score}

Rank(c, candidates) == 1 + Cardinality({d \in Retained(candidates) : Ahead(d, c)})

\* A fraction for every chunk of a search: 1 / (RrfK + rank), or none.
Contribution(chunk, candidates) ==
  LET own == {c \in Retained(candidates) : c.chunk = chunk}
  IN IF own = {} THEN <<0, 1>>
     ELSE <<1, RrfK + Rank(CHOOSE c \in own : TRUE, candidates)>>

Plus(x, y) == <<x[1] * y[2] + y[1] * x[2], x[2] * y[2]>>
Greater(x, y) == x[1] * y[2] > y[1] * x[2]
Same(x, y) == x[1] * y[2] = y[1] * x[2]

CanFuse(vector, text) ==
  /\ Cardinality(vector) <= CandidateLimit /\ Cardinality(text) <= CandidateLimit
  /\ Agreeing(vector \cup text)

Fused(vector, text) ==
  {[candidate |-> Signature(c),
    score |-> Plus(Contribution(c.chunk, vector), Contribution(c.chunk, text))] :
   c \in vector \cup text}

FusedAhead(x, y) ==
  \/ Greater(x.score, y.score)
  \/ Same(x.score, y.score) /\ Before(x.candidate, y.candidate)

\* The place of a result, and the results a client is sent.
Place(x, fused) == 1 + Cardinality({y \in fused : FusedAhead(y, x)})

Results(vector, text, topK) ==
  LET fused == Fused(vector, text)
      shown == {x \in fused : Place(x, fused) <= topK}
  IN {[rank |-> Place(x, fused), score |-> x.score, candidate |-> x.candidate] : x \in shown}

\* The requests that are searched for: 1 to 1000 code points, 1 to 20 results,
\* at most 50 documents, each once.
RequestNormalizes(length, topK, documents) ==
  /\ length \in 1 .. 1000
  /\ topK \in 1 .. 20
  /\ DOMAIN documents \in {1 .. n : n \in 0 .. 50}
  /\ \A i, j \in DOMAIN documents : i # j => documents[i] # documents[j]
=============================================================================
