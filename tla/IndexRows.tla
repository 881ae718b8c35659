----------------------------- MODULE IndexRows -----------------------------
(***************************************************************************)
(* The rows of the search index: how the worker makes the rows of a        *)
(* publication, what lancedb-rag-index.ts demands of them before it writes *)
(* them, what a merge does to the table and what is demanded of the rows   *)
(* of a document when they are read back.  RagIngestion takes the rows of  *)
(* a document as one value; the theorems of StoredDataProofs are why.      *)
(*                                                                         *)
(* A family of rows is a function whose domain is where the rows are: the  *)
(* indices of an array, or the places of a table.  The formats of          *)
(* identifiers, digests and timestamps are Booleans of the row: identified *)
(* for those that are checked at every reading, described for the others.  *)
(***************************************************************************)
EXTENDS Integers, FiniteSets

MaxDocumentChunks == 5000

\* A timestamp that is null.
NoTime == -1

\* What all rows of one publication have in common.
TargetOf(row) ==
  [doc |-> row.doc, version |-> row.version, ingestion |-> row.ingestion,
   generation |-> row.generation, count |-> row.count, digest |-> row.digest]

StatesEqual(left, right) == left = right

Uniform(rows) == \A p, q \in DOMAIN rows : TargetOf(rows[p]) = TargetOf(rows[q])

Distinct(rows) ==
  \A p, q \in DOMAIN rows :
    p # q => rows[p].chunk # rows[q].chunk /\ rows[p].ordinal # rows[q].ordinal

Covered(rows) ==
  \A o \in 0 .. Cardinality(DOMAIN rows) - 1 : \E p \in DOMAIN rows : rows[p].ordinal = o

Counted(rows) == \A p \in DOMAIN rows : rows[p].count = Cardinality(DOMAIN rows)

WellFormed(row) ==
  /\ row.identified /\ row.described /\ row.compatible /\ row.unit
  /\ row.generation \in Nat /\ row.ordinal \in Nat /\ row.count \in Nat
  /\ row.core.start \in Nat /\ row.core.end \in Nat
  /\ row.overlap.start \in Nat /\ row.overlap.end \in Nat
  /\ row.segments.start \in Nat /\ row.segments.end \in Nat
  /\ row.core.start < row.core.end
  /\ row.overlap.start <= row.overlap.end
  /\ row.segments.start < row.segments.end
  /\ NoTime \notin {row.times.start, row.times.end} => row.times.start <= row.times.end

\* What is demanded of rows before they are written.
Publishable(rows) ==
  /\ Cardinality(DOMAIN rows) \in 1 .. MaxDocumentChunks
  /\ \A p \in DOMAIN rows : WellFormed(rows[p])
  /\ Uniform(rows) /\ Counted(rows) /\ Distinct(rows) /\ Covered(rows)

\* What is demanded of the rows a document has in the table.
Readable(rows) ==
  \/ DOMAIN rows = {}
  \/ /\ Cardinality(DOMAIN rows) \in 1 .. MaxDocumentChunks
     /\ \A p \in DOMAIN rows : /\ rows[p].identified /\ rows[p].compatible
                               /\ rows[p].ordinal \in Nat
     /\ Uniform(rows) /\ Counted(rows) /\ Distinct(rows) /\ Covered(rows)

TargetIn(rows) == TargetOf(rows[CHOOSE p \in DOMAIN rows : TRUE])

-----------------------------------------------------------------------------
(* The table: a set of rows, of all documents.                             *)

StoredRows(table, doc) == [row \in {r \in table : r.doc = doc} |-> row]

\* The table at startup: every document in it can be read.
AllReadable(table) == \A row \in table : Readable(StoredRows(table, row.doc))

\* Merge by chunk identifier: rows of the table that match are updated, rows
\* that match none are inserted, other rows of the document are deleted.
Merged(table, rows) ==
  LET new == {rows[p] : p \in DOMAIN rows}
      kept(row) == /\ \A r \in new : r.chunk # row.chunk
                   /\ row.doc # TargetIn(rows).doc
  IN {row \in table : kept(row)} \cup new

Deleted(table, doc) == {row \in table : row.doc # doc}

\* The identifier of a chunk is a digest of its version, and that of the
\* version a digest of its document: no two documents share one.
ChunksOfOneDocument(set) == \A r, s \in set : r.chunk = s.chunk => r.doc = s.doc

-----------------------------------------------------------------------------
(* The rows the worker makes of a record, its source, its chunks and their *)
(* vectors.                                                                *)

\* The digest is over every chunk and every vector: it is what it is made of.
RowsDigest(chunks, vectors) == <<chunks, vectors>>

ChunkMatches(chunk, record, source) ==
  /\ chunk.doc = record.doc
  /\ chunk.version = record.version
  /\ chunk.source = source

Materialized(record, chunks, vectors) ==
  [i \in DOMAIN chunks |->
    [chunk |-> chunks[i].id, doc |-> chunks[i].doc, version |-> chunks[i].version,
     ingestion |-> record.id, generation |-> record.targetGeneration,
     ordinal |-> chunks[i].ordinal, count |-> chunks[i].count,
     digest |-> RowsDigest(chunks, vectors), core |-> chunks[i].core,
     overlap |-> chunks[i].overlap, segments |-> chunks[i].segments,
     times |-> chunks[i].times, identified |-> chunks[i].identified,
     described |-> chunks[i].described, compatible |-> chunks[i].compatible,
     unit |-> vectors[i].unit]]

\* The rows are handed on only when this holds; otherwise the ingestion fails.
CanMaterialize(record, source, chunks, vectors) ==
  /\ DOMAIN chunks # {}
  /\ DOMAIN chunks = DOMAIN vectors
  /\ \A i \in DOMAIN chunks : ChunkMatches(chunks[i], record, source)
  /\ Publishable(Materialized(record, chunks, vectors))

\* What the receipt of a publication tells the record: the count and the
\* digest of the target that was read back.
Completion(target) == [expectedChunkCount |-> target.count, documentDigest |-> target.digest]
=============================================================================
