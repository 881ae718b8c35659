--------------------------- MODULE OperatorChecks ---------------------------
(***************************************************************************)
(* The modules without state, checked by TLC over small inputs: each       *)
(* assumption below is evaluated at the start of a run that extends this   *)
(* module.  What has a theorem is checked here too, so that its premises   *)
(* are known to be met; the chunker has no theorem and is checked here     *)
(* against what its result must be.                                        *)
(***************************************************************************)
EXTENDS Integers, Sequences, FiniteSetsExt, TLC

CONSTANTS Null, i1, i2, x1

Rows == INSTANCE IndexRows
Cut == INSTANCE RagChunks WITH MaxOverlapTokens <- 1, MaxChunksPerDocument <- 4
Ranking == INSTANCE RagRanking WITH CandidateLimit <- 2, RrfK <- 60
Setup == INSTANCE IndexSetup
Files == INSTANCE ArtifactFiles WITH Ids <- {i1, i2}, Keys <- {x1}, Strings <- {"t"}
Stored == INSTANCE StoredRecords WITH
  Ids <- {i1, i2}, Digests <- {x1}, VideoIds <- {"v"}, Tags <- {"pt", "PT", "?"},
  Canonical <- [t \in {"pt", "PT", "?"} |-> IF t = "?" THEN Null ELSE "pt"],
  JobCodes <- {"JOB_INTERRUPTED"}, RagCodes <- {"RAG_STORAGE_UNAVAILABLE"},
  Shards <- {"s1", "s2"}, ShardOf <- [i \in {i1, i2} |-> IF i = i1 THEN "s1" ELSE "s2"]

-----------------------------------------------------------------------------
(* The chunker: every text of at most four code points, cut under four     *)
(* tokenizers, in one segment or in two.                                   *)

Texts == UNION {[1 .. n -> {"a", "_", "m"}] : n \in 1 .. 4}

Tokenized(text, tokens(_, _)) ==
  [p \in (0 .. Len(text)) \X (0 .. Len(text)) |-> IF p[1] < p[2] THEN tokens(p[1], p[2]) ELSE 1]

PerPoint(text) == LET tokens(s, e) == e - s IN Tokenized(text, tokens)

\* Blanks are free beside other code points.
PerLetter(text) ==
  LET letters(s, e) == Cardinality({i \in s + 1 .. e : text[i] # "_"})
      tokens(s, e) == IF letters(s, e) = 0 THEN 1 ELSE letters(s, e)
  IN Tokenized(text, tokens)

\* Two that are merged count for one, so a longer text can have fewer tokens.
Merging(text) ==
  LET tokens(s, e) == IF (e - s) % 2 = 0 THEN (e - s) \div 2 ELSE e - s
  IN Tokenized(text, tokens)

Tokenizers(text) == {PerPoint(text), PerLetter(text), Merging(text)}

FitsIn(max, count) == [p \in DOMAIN count |-> count[p] + 1 <= max]

Segment(length, start, duration) ==
  [length |-> length, startSeconds |-> start, durationSeconds |-> duration]

Segmentations(text) ==
  {<<Segment(Len(text), 0, 1)>>}
    \cup {<<Segment(k - 1, 0, 1), Segment(Len(text) - k, 1, -1)>> :
          k \in {i \in DOMAIN text : text[i] = "_"}}

\* The cores of the chunks are the text, in order and without a gap; each chunk
\* fits the model together with its overlap, shows something, and names the
\* segments its core touches.
WellCut(text, fits, segments, chunks) ==
  /\ chunks[1].core.start = 0 /\ chunks[Len(chunks)].core.end = Len(text)
  /\ \A i \in DOMAIN chunks :
       LET c == chunks[i]
           spans == Cut!SegmentSpans(segments, Len(text))
       IN /\ i > 1 => c.core.start = chunks[i - 1].core.end
          /\ c.core.start < c.core.end
          /\ c.overlap.end = c.core.start /\ c.overlap.start \in 0 .. c.core.start
          /\ fits[<<c.overlap.start, c.core.end>>]
          /\ \E p \in c.overlap.start + 1 .. c.core.end : text[p] # "_"
          /\ \A p \in c.core.start + 1 .. c.core.end :
               \E s \in c.segments.start + 1 .. c.segments.end :
                 spans[s].start < p /\ p <= spans[s].ownedEnd

\* The chunk as the worker takes it, for the rows of the index.
Chunk(c) ==
  [id |-> <<c.ordinal, c.core, c.overlap>>, doc |-> "d", version |-> "v", source |-> "s",
   identified |-> TRUE, described |-> TRUE, compatible |-> TRUE] @@ c

Publishes(chunks) ==
  Rows!CanMaterialize([id |-> "i", doc |-> "d", version |-> "v", targetGeneration |-> 0], "s",
                      [i \in DOMAIN chunks |-> Chunk(chunks[i])],
                      [i \in DOMAIN chunks |-> [unit |-> TRUE]])

\* What the chunker returns is well cut, and it makes rows that are publishable:
\* an ingestion never fails between its chunks and its rows.
ASSUME ChunksAreWellCut ==
  \A text \in Texts : \A count \in Tokenizers(text) : \A max \in {3, 4} :
    \A segments \in Segmentations(text) :
      LET fits == FitsIn(max, count)
          cut == Cut!Chunks(text, count, fits, segments)
      IN cut.ok => /\ WellCut(text, fits, segments, cut.chunks)
                   /\ Publishes(cut.chunks)

\* A text whose blanks stand alone, each before a letter without marks, is always
\* cut, wherever its segments end: only a stretch of blanks, or of blanks and
\* marks, can make the chunker give up.
ASSUME OrdinaryTextIsCut ==
  LET ordinary(text) ==
        \A i \in DOMAIN text :
          text[i] = "_" => /\ i < Len(text) /\ text[i + 1] = "a"
                           /\ i + 2 <= Len(text) => text[i + 2] # "m"
  IN \A text \in {t \in Texts : ordinary(t)} :
       \A count \in {PerPoint(text), PerLetter(text)} : \A max \in {3, 4} :
         \A segments \in Segmentations(text) :
           Cut!Chunks(text, count, FitsIn(max, count), segments).ok

-----------------------------------------------------------------------------
(* The rows: two publications of one document, of one chunk and of two.    *)

Row(chunk, ordinal, version, count) ==
  [chunk |-> chunk, doc |-> "d", version |-> version, ingestion |-> "i", generation |-> 0,
   ordinal |-> ordinal, count |-> count, digest |-> version,
   core |-> [start |-> ordinal, end |-> ordinal + 1],
   overlap |-> [start |-> ordinal, end |-> ordinal],
   segments |-> [start |-> 0, end |-> 1], times |-> [start |-> 0, end |-> -1],
   identified |-> TRUE, described |-> TRUE, compatible |-> TRUE, unit |-> TRUE]

Older == <<Row("c1", 0, "v1", 2), Row("c2", 1, "v1", 2)>>
Newer == <<Row("c3", 0, "v2", 3), Row("c4", 1, "v2", 3), Row("c5", 2, "v2", 3)>>
AsSet(rows) == {rows[i] : i \in DOMAIN rows}

\* Of all sets of rows of the two publications only none, those of the one and
\* those of the other can be read; the merge gives the other.
ASSUME OnlyWholePublicationsAreRead ==
  /\ Rows!Publishable(Older) /\ Rows!Publishable(Newer)
  /\ \A set \in SUBSET (AsSet(Older) \cup AsSet(Newer)) :
       Rows!Readable(Rows!StoredRows(set, "d")) <=> set \in {{}, AsSet(Older), AsSet(Newer)}
  /\ Rows!Merged(AsSet(Older), Newer) = AsSet(Newer)
  /\ Rows!Deleted(AsSet(Older), "d") = {}

-----------------------------------------------------------------------------
(* The ranking: up to two candidates of each search, of three chunks.      *)

Candidate(chunk, score) ==
  [chunk |-> chunk, doc |-> 1, version |-> 1, ordinal |-> 3 - chunk, content |-> "text",
   score |-> score]

CandidateSets ==
  {S \in SUBSET {Candidate(c, s) : c \in 1 .. 3, s \in 0 .. 1} :
     Cardinality(S) <= 2 /\ \A x, y \in S : x.chunk = y.chunk => x = y}

\* The results are numbered from one without a gap, by falling score; a chunk
\* both searches found is one result, ahead of one that is no better in either.
ASSUME ResultsAreARanking ==
  \A vector, text \in CandidateSets : \A topK \in 1 .. 4 :
    LET results == Ranking!Results(vector, text, topK)
        chunks == {c.chunk : c \in vector \cup text}
    IN Ranking!CanFuse(vector, text) =>
         /\ {r.rank : r \in results} = 1 .. Min({topK, Cardinality(chunks)})
         /\ Cardinality(results) = Min({topK, Cardinality(chunks)})
         /\ \A r, s \in results : r.rank < s.rank => ~ Ranking!Greater(s.score, r.score)
         /\ results = Ranking!Results(text, vector, topK)

-----------------------------------------------------------------------------
(* The records: all that can be made of the first record of a job and of   *)
(* an ingestion within three transitions, at two times.                    *)

Url == [plain |-> TRUE, host |-> "short", path |-> <<"v">>, query |-> Null]

JobTransitions ==
  [type : {"start"}, at : 0 .. 1]
    \cup [type : {"complete"}, at : 0 .. 1, expiresAt : {2}, artifactId : {i2}]
    \cup [type : {"fail"}, at : 0 .. 1, expiresAt : {2}, code : {"JOB_INTERRUPTED"}]

IngestionTransitions ==
  [type : {"start", "retry"}, at : 0 .. 1]
    \cup [type : {"complete"}, at : 0 .. 1, expiresAt : {2}, expectedChunkCount : {1},
          documentDigest : {x1}, publication : {[lanceVersion |-> 1, changedRows |-> 0]}]
    \cup [type : {"fail"}, at : 0 .. 1, expiresAt : {2}, code : {"RAG_STORAGE_UNAVAILABLE"}]

Request == Stored!NormalizedRequest(Url, <<"PT">>)
Source == [jobId |-> i1, artifactId |-> i2, cacheKey |-> x1, artifactExpiresAt |-> 2,
           transcriptSha256 |-> x1]

NextJobs(jobs) ==
  jobs \cup {Stored!MovedJob(m[1], m[2]) :
             m \in {p \in jobs \X JobTransitions : Stored!JobMayMove(p[1], p[1].revision, p[2])}}

NextIngestions(records) ==
  records \cup {Stored!MovedIngestion(m[1], m[2]) :
                m \in {p \in records \X IngestionTransitions :
                         Stored!IngestionMayMove(p[1], p[1].revision, p[2])}}

Jobs == NextJobs(NextJobs({Stored!QueuedJob(i1, Request, 0)}))
Ingestions == NextIngestions(NextIngestions(NextIngestions(
                {Stored!QueuedIngestion(i1, Source, x1, x1, 0, 0)})))

\* Every record of a job or ingestion is accepted, in every status; the scan
\* finds it in its own place and quarantines it in any other.
ASSUME WrittenRecordsAreAccepted ==
  /\ {j.status : j \in Jobs} = {"queued", "processing", "completed", "failed"}
  /\ {r.status : r \in Ingestions} = {"queued", "processing", "completed", "failed"}
  /\ \A j \in Jobs : Stored!JobAccepted(j)
  /\ \A r \in Ingestions : Stored!IngestionAccepted(r)
  /\ \A j \in Jobs : \A p \in {"s1", "s2", "other"} \X {i1, i2} :
       LET files == [q \in {p} |-> [regular |-> TRUE, content |-> j]]
       IN /\ DOMAIN Stored!Scanned(files, Jobs) = {i1} <=> p = <<"s1", i1>>
          /\ Stored!Quarantined(files, Jobs) = {p} <=> p[1] # "other" /\ p # <<"s1", i1>>

\* The same video, asked for by its short address and by its page, in one
\* language or the other form of its tag, is one request; a tag that is no
\* language, or the same twice, is refused.
ASSUME OneRequestForOneVideo ==
  /\ Stored!RequestAccepted(Request)
  /\ Stored!NormalizedRequest(Stored!CanonicalUrl("v"), <<"pt">>) = Request
  /\ ~ Stored!LanguagesAccepted(<<"?">>) /\ ~ Stored!LanguagesAccepted(<<"pt", "PT">>)

-----------------------------------------------------------------------------
(* The table of the index, from every volume a start may find.             *)

\* A start that dies after any of its writes leaves a volume the next one
\* completes; a start refuses a volume or makes it ready, and never changes a
\* table that has rows.
ASSUME SetupResumes ==
  /\ \A n, k \in 0 .. 4 :
       LET left == Setup!After(Setup!After(Setup!Empty, n), k)
       IN ~ Setup!Refused(left) /\ Setup!Ready(Setup!Initialized(left))
  /\ \A v \in {w \in Setup!Volumes : ~ w.table => ~ w.rows /\ w.index = "none"} :
       Setup!Refused(v) \/ (/\ Setup!Ready(Setup!Initialized(v))
                           /\ v.rows => Setup!Initialized(v) = v)

-----------------------------------------------------------------------------
(* The artifact store: two bundles of one key, an older and a newer, with  *)
(* one file of the newer replaced.                                         *)

Transcript(n) ==
  [videoId |-> "t", sourceUrl |-> "t", source |-> "youtube_captions", language |-> "t",
   isGenerated |-> FALSE, timestampPrecision |-> "caption", extractedAt |-> n,
   text |-> "t", segments |-> <<[text |-> "t", startSeconds |-> n, durationSeconds |-> Null]>>]

Input(id, n) ==
  [artifactId |-> id, cacheKey |-> x1, producerJobId |-> Null, transcript |-> Transcript(n),
   pdf |-> [page |-> n], createdAt |-> n, expiresAt |-> n + 1]

Blank == Files!Disk([k \in {x1} |-> Null], [i \in {i1, i2} |-> Files!Absent], {})
Both == Files!Published(Files!Published(Blank, Input(i1, 1)), Input(i2, 2))

\* What may be in the place of a file: nothing, another kind of file, the file
\* of the other bundle, a manifest that tells another name or time.
Contents ==
  {Null, [garbage |-> TRUE], Files!ManifestOf(Input(i1, 1)), Files!ManifestOf(Input(i2, 1)),
   [Files!ManifestOf(Input(i2, 2)) EXCEPT !.artifactId = i1],
   [Files!ManifestOf(Input(i2, 2)) EXCEPT !.expiresAt = 4],
   Transcript(1), [page |-> 1]}

Spoiled(file, content) ==
  Files!Disk(Both.pointers, [Both.artifacts EXCEPT ![i2][file] = content], {})

\* The newer bundle is found until it expires; with any other content in one of
\* its files it is not, by a lookup or by the job, and nothing of it is left but
\* in quarantine; an ingestion needs no PDF.  The older bundle is left to its job.  A
\* transcript that could not be read back is not published.
ASSUME SpoiledFilesAreNotServed ==
  /\ Files!Published(Both, [Input(i1, 2) EXCEPT !.transcript.source = "t"]) = Both
  /\ Files!Find(Both, x1, 2).value = Files!BundleOf(Input(i2, 2))
  /\ Files!Find(Both, x1, 3) = Files!Result(Null, Files!Expired(Both, Input(i2, 2)))
  /\ \A file \in {"manifest", "transcript", "pdf"} : \A content \in Contents :
       LET disk == Spoiled(file, content)
           found == Files!Find(disk, x1, 2)
           read == Files!ReadForJob(disk, Files!Reference(Input(i2, 2)))
           source == Files!ReadVerifiedTranscript(disk, Files!Reference(Input(i2, 2)))
       IN /\ found.value = Null /\ read.value = Null
          /\ found.disk.artifacts[i2] = Files!Absent /\ found.disk.pointers[x1] = Null
          /\ found.disk.quarantine = {disk.artifacts[i2]}
          /\ read.disk = IF file = "manifest" /\ content = Null THEN disk ELSE found.disk
          /\ source.value = IF file = "pdf" THEN Transcript(2) ELSE Null
          /\ Files!ReadForJob(found.disk, Files!Reference(Input(i1, 1))).value
               = Files!BundleOf(Input(i1, 1))

\* A saved transcript is recovered; one that was being saved over another, or
\* does not parse, is put away.
ASSUME WorkIsRecoveredWhole ==
  LET saved == Files!WorkSaved(i1, Transcript(1))
      torn == Files!TranscriptSaved(saved, Transcript(2))
      bad == Files!WorkSaved(i1, [garbage |-> TRUE])
  IN /\ Files!Recovered(saved, i1) = Transcript(1) /\ Files!AfterRecovery(saved, i1) = saved
     /\ \A work \in {torn, bad} : /\ Files!Recovered(work, i1) = Null
                                  /\ Files!AfterRecovery(work, i1) = Files!NoWork
     /\ Files!Recovered(saved, i2) = Null /\ Files!AfterRecovery(saved, i2) = Files!NoWork
     /\ LET half == Files!TranscriptSaved(Files!NoWork, Transcript(1))
        IN Files!Recovered(half, i1) = Null /\ Files!AfterRecovery(half, i1) = half
=============================================================================
