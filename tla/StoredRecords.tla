--------------------------- MODULE StoredRecords ---------------------------
(***************************************************************************)
(* The records of the two repositories as files: how a transcript job and  *)
(* an ingestion are made, moved on and shown, what the parsers demand of   *)
(* a record at startup, and what the scan of a directory keeps and what it *)
(* quarantines.  DurableJobs and RagIngestion take a record that is on the *)
(* volume as one that is read back; StoredDataProofs shows that it is.     *)
(*                                                                         *)
(* A digest is what it is a digest of, an address of a video its parts, a  *)
(* timestamp a number.                                                     *)
(***************************************************************************)
EXTENDS Integers, Sequences

CONSTANTS
  Ids,          \* UUIDs: of jobs, ingestions and artifacts
  Digests,      \* SHA-256 digests: of documents, versions, transcripts, keys
  VideoIds,     \* what VIDEO_ID_PATTERN accepts
  Tags,         \* language tags
  Canonical,    \* the canonical form of each tag, Null for an invalid one
  JobCodes, RagCodes,      \* the public failure codes
  Shards, ShardOf,         \* directories, and the one of each identifier
  Null

Times == Nat
Maybe(S) == S \cup {Null}

\* Null is no value of a field that may be null.
NullIsApart == Null \notin Ids \cup Digests \cup Times

\* { ...record, ...changes }
Spread(record, changes) ==
  [k \in DOMAIN record |-> IF k \in DOMAIN changes THEN changes[k] ELSE record[k]]

-----------------------------------------------------------------------------
(* Addresses and requests.                                                 *)

\* The video of an address, Null when it has none: the first part of the path
\* of a short address, the parameter v of a watch page, or the part after
\* shorts, embed or live.
VideoOf(url) ==
  LET part(i) == IF i <= Len(url.path) THEN url.path[i] ELSE Null
      found == IF url.host = "short" THEN part(1)
               ELSE IF url.host # "full" THEN Null
               ELSE IF url.path = <<"watch">> THEN url.query
               ELSE IF part(1) \in {"shorts", "embed", "live"} THEN part(2)
               ELSE Null
  IN IF url.plain /\ found \in VideoIds THEN found ELSE Null

CanonicalUrl(video) ==
  [plain |-> TRUE, host |-> "full", path |-> <<"watch">>, query |-> video]

CacheKey(video, languages) == <<video, languages>>

LanguagesAccepted(tags) ==
  /\ \A i \in DOMAIN tags : Canonical[tags[i]] # Null
  /\ \A i, j \in DOMAIN tags : i # j => Canonical[tags[i]] # Canonical[tags[j]]

NormalizedLanguages(tags) == [i \in DOMAIN tags |-> Canonical[tags[i]]]

NormalizedRequest(url, tags) ==
  LET languages == NormalizedLanguages(tags)
  IN [videoId |-> VideoOf(url), canonicalUrl |-> CanonicalUrl(VideoOf(url)),
      languages |-> languages, cacheKey |-> CacheKey(VideoOf(url), languages)]

RequestAccepted(request) ==
  /\ DOMAIN request = {"videoId", "canonicalUrl", "languages", "cacheKey"}
  /\ request.videoId \in VideoIds
  /\ request.canonicalUrl = CanonicalUrl(request.videoId)
  /\ request.languages \in Seq(Tags)
  /\ request.cacheKey = CacheKey(request.videoId, request.languages)

-----------------------------------------------------------------------------
(* Transcript jobs.                                                        *)

JobFailure(code) == [code |-> code, message |-> <<"job", code>>]
JobFailures == {JobFailure(code) : code \in JobCodes}

QueuedJob(id, request, at) ==
  [revision |-> 0, id |-> id, status |-> "queued", request |-> request,
   artifactId |-> Null, createdAt |-> at, updatedAt |-> at, startedAt |-> Null,
   completedAt |-> Null, expiresAt |-> Null, failure |-> Null]

CompletedJob(id, request, bundle, at) ==
  Spread(QueuedJob(id, request, at),
         [status |-> "completed", artifactId |-> bundle.artifactId,
          completedAt |-> at, expiresAt |-> bundle.expiresAt])

JobMayMove(job, expected, t) ==
  /\ job.revision = expected
  /\ \/ job.status = "queued" /\ t.type = "start"
     \/ job.status = "processing" /\ t.type = "complete" /\ t.artifactId \in Ids
     \/ job.status = "processing" /\ t.type = "fail" /\ t.code \in JobCodes

\* What each transition changes.
JobChanges(job, t) ==
  CASE t.type = "start" ->
         [status |-> "processing", updatedAt |-> t.at, startedAt |-> t.at,
          revision |-> job.revision + 1]
    [] t.type = "complete" ->
         [status |-> "completed", artifactId |-> t.artifactId, updatedAt |-> t.at,
          completedAt |-> t.at, expiresAt |-> t.expiresAt, revision |-> job.revision + 1]
    [] t.type = "fail" ->
         [status |-> "failed", updatedAt |-> t.at, completedAt |-> t.at,
          expiresAt |-> t.expiresAt, failure |-> JobFailure(t.code),
          revision |-> job.revision + 1]

MovedJob(job, t) == Spread(job, JobChanges(job, t))

\* What startup makes of the younger of two active jobs of one key.
RepairedJob(job, at, ttl) ==
  Spread(job, [revision |-> job.revision + 1, status |-> "failed", artifactId |-> Null,
               updatedAt |-> at, completedAt |-> at, expiresAt |-> at + ttl,
               failure |-> JobFailure("JOB_INTERRUPTED")])

JobAccepted(job) ==
  /\ DOMAIN job = {"revision", "id", "status", "request", "artifactId", "createdAt",
                   "updatedAt", "startedAt", "completedAt", "expiresAt", "failure"}
  /\ job.revision \in Nat /\ job.id \in Ids
  /\ job.createdAt \in Times /\ job.updatedAt \in Times
  /\ job.artifactId \in Maybe(Ids) /\ job.failure \in Maybe(JobFailures)
  /\ job.startedAt \in Maybe(Times) /\ job.completedAt \in Maybe(Times)
  /\ job.expiresAt \in Maybe(Times)
  /\ RequestAccepted(job.request)
  /\ \/ /\ job.status = "queued"
        /\ {job.artifactId, job.startedAt, job.completedAt, job.expiresAt, job.failure} = {Null}
     \/ /\ job.status = "processing"
        /\ {job.artifactId, job.completedAt, job.expiresAt, job.failure} = {Null}
        /\ job.startedAt # Null
     \/ /\ job.status = "completed"
        /\ job.artifactId # Null /\ job.completedAt # Null /\ job.expiresAt # Null
        /\ job.failure = Null
     \/ /\ job.status = "failed"
        /\ job.artifactId = Null /\ job.completedAt # Null /\ job.expiresAt # Null
        /\ job.failure # Null

PublicJob(job) ==
  [jobId |-> job.id, status |-> job.status, createdAt |-> job.createdAt,
   updatedAt |-> job.updatedAt, startedAt |-> job.startedAt,
   completedAt |-> job.completedAt, expiresAt |-> job.expiresAt,
   failure |-> IF job.failure = Null THEN Null ELSE JobFailure(job.failure.code)]

-----------------------------------------------------------------------------
(* Ingestions.                                                             *)

RagFailure(code) == [code |-> code, message |-> <<"rag", code>>]
RagFailures == {RagFailure(code) : code \in RagCodes}

SourceAccepted(source) ==
  source \in [jobId : Ids, artifactId : Ids, cacheKey : Digests,
              artifactExpiresAt : Times, transcriptSha256 : Digests]

QueuedIngestion(id, source, doc, version, generation, at) ==
  [revision |-> 0, id |-> id, documentId |-> doc, versionId |-> version,
   targetGeneration |-> generation, status |-> "queued", source |-> source,
   snapshot |-> [ingestionId |-> id, transcriptSha256 |-> source.transcriptSha256],
   expectedChunkCount |-> Null, documentDigest |-> Null, publication |-> Null,
   createdAt |-> at, updatedAt |-> at, startedAt |-> Null, completedAt |-> Null,
   expiresAt |-> Null, failure |-> Null]

\* The record of a submission whose version is already in the index.
HitIngestion(id, source, state, at, ttl) ==
  Spread(QueuedIngestion(id, source, state.doc, state.version, state.generation, at),
         [status |-> "completed", snapshot |-> Null, expectedChunkCount |-> state.count,
          documentDigest |-> state.digest,
          publication |-> [lanceVersion |-> state.lanceVersion, changedRows |-> 0],
          startedAt |-> at, completedAt |-> at, expiresAt |-> at + ttl])

IngestionMayMove(record, expected, t) ==
  /\ record.revision = expected
  /\ \/ record.status = "queued" /\ t.type = "start"
     \/ /\ record.status = "processing" /\ t.type = "complete"
        /\ t.expectedChunkCount \in 1 .. 5000 /\ t.documentDigest \in Digests
        /\ t.publication \in [lanceVersion : Nat, changedRows : Nat]
     \/ record.status = "processing" /\ t.type = "fail" /\ t.code \in RagCodes
     \/ record.status = "processing" /\ t.type = "retry"

IngestionChanges(record, t) ==
  CASE t.type = "start" ->
         [status |-> "processing", updatedAt |-> t.at, startedAt |-> t.at,
          revision |-> record.revision + 1]
    [] t.type = "complete" ->
         [status |-> "completed", snapshot |-> Null,
          expectedChunkCount |-> t.expectedChunkCount,
          documentDigest |-> t.documentDigest, publication |-> t.publication,
          updatedAt |-> t.at, completedAt |-> t.at, expiresAt |-> t.expiresAt,
          revision |-> record.revision + 1]
    [] t.type = "fail" ->
         [status |-> "failed", snapshot |-> Null, updatedAt |-> t.at,
          completedAt |-> t.at, expiresAt |-> t.expiresAt, failure |-> RagFailure(t.code),
          revision |-> record.revision + 1]
    [] t.type = "retry" ->
         [status |-> "queued", updatedAt |-> t.at, startedAt |-> Null,
          revision |-> record.revision + 1]

MovedIngestion(record, t) == Spread(record, IngestionChanges(record, t))

\* The parser looks at the code of a failure and makes its message anew.
IngestionAccepted(record) ==
  /\ DOMAIN record = {"revision", "id", "documentId", "versionId", "targetGeneration",
                      "status", "source", "snapshot", "expectedChunkCount",
                      "documentDigest", "publication", "createdAt", "updatedAt",
                      "startedAt", "completedAt", "expiresAt", "failure"}
  /\ record.revision \in Nat /\ record.targetGeneration \in Nat
  /\ record.id \in Ids /\ record.documentId \in Digests /\ record.versionId \in Digests
  /\ SourceAccepted(record.source)
  /\ record.snapshot \in Maybe([ingestionId : Ids, transcriptSha256 : Digests])
  /\ record.createdAt \in Times /\ record.updatedAt \in Times
  /\ record.startedAt \in Maybe(Times) /\ record.completedAt \in Maybe(Times)
  /\ record.expiresAt \in Maybe(Times)
  /\ \/ record.status = "queued" /\ record.snapshot # Null /\ record.expiresAt = Null
     \/ record.status = "processing" /\ record.snapshot # Null /\ record.startedAt # Null
     \/ /\ record.status \in {"completed", "failed"} /\ record.snapshot = Null
        /\ record.completedAt # Null /\ record.expiresAt # Null
  /\ record.status = "failed" => record.failure \in RagFailures

PublicIngestion(record) ==
  [ingestionId |-> record.id, documentId |-> record.documentId, status |-> record.status,
   createdAt |-> record.createdAt, updatedAt |-> record.updatedAt,
   startedAt |-> record.startedAt, completedAt |-> record.completedAt,
   expiresAt |-> record.expiresAt,
   failure |-> IF record.failure = Null THEN Null ELSE RagFailure(record.failure.code)]

IngestionSubmission(record, disposition) ==
  [ingestionId |-> record.id, documentId |-> record.documentId, status |-> record.status,
   disposition |-> disposition, createdAt |-> record.createdAt,
   updatedAt |-> record.updatedAt, expiresAt |-> record.expiresAt]

-----------------------------------------------------------------------------
(* Tombstones and epochs.                                                  *)

Tombstone(record, at, ttl) == [id |-> record.id, expiredAt |-> at, expiresAt |-> at + ttl]
TombstoneAccepted(t) == t \in [id : Ids, expiredAt : Times, expiresAt : Times]

EpochAccepted(e) ==
  e \in [documentId : Digests, generation : Nat,
         state : {"active", "delete_pending", "deleted"},
         activeVersionId : Maybe(Digests), publishedIngestionId : Maybe(Ids),
         expectedChunkCount : Nat, documentDigest : Maybe(Digests), updatedAt : Times]

-----------------------------------------------------------------------------
(* The scan of a directory at startup.  files gives the entry of each path *)
(* <<shard, name>>; accepted is the set of contents the parser accepts.    *)

PathOf(id) == <<ShardOf[id], id>>

\* Directories that are no shards are passed over.
Scannable(files) == {p \in DOMAIN files : p[1] \in Shards}

Kept(files, accepted) ==
  {p \in Scannable(files) : /\ files[p].regular
                            /\ files[p].content \in accepted
                            /\ p = PathOf(files[p].content.id)}

Scanned(files, accepted) ==
  [id \in {files[p].content.id : p \in Kept(files, accepted)} |-> files[PathOf(id)].content]

Quarantined(files, accepted) == Scannable(files) \ Kept(files, accepted)

AfterScan(files, accepted) ==
  [p \in DOMAIN files \ Quarantined(files, accepted) |-> files[p]]

Written(files, record) ==
  [p \in DOMAIN files \cup {PathOf(record.id)} |->
     IF p = PathOf(record.id) THEN [regular |-> TRUE, content |-> record] ELSE files[p]]

\* Temporary files and directories are removed; snapshots are removed when the
\* scan found no record of theirs; what is neither is left alone.
WithoutTemporaries(entries) == {e \in entries : e.kind # "temporary"}

CleanedSnapshots(entries, records) ==
  {e \in WithoutTemporaries(entries) : e.kind = "snapshot" => e.id \in DOMAIN records}
=============================================================================
