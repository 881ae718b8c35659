-------------------------- MODULE StoredDataProofs --------------------------
(***************************************************************************)
(* What the program writes, it reads back: every record it makes, and what *)
(* every transition makes of it, is accepted by the parser that reads it   *)
(* after a restart, and the scan finds it where it was written.  A record  *)
(* that is not accepted is moved to quarantine, and the job or ingestion   *)
(* of a client is gone.                                                    *)
(*                                                                         *)
(* What is read back from the table of an index is what one publication    *)
(* wrote, never a part of it and never a mixture of two, and a publication *)
(* changes one document only: the rows of a document can be taken as one   *)
(* value.  What a search ranks is a function of what the two searches of   *)
(* the index found: the order in which the candidates came, and the        *)
(* insertion order of the maps, do not show.                               *)
(***************************************************************************)
EXTENDS StoredRecords, IndexRows, RagRanking, Functions, FiniteSetTheorems, TLAPS

\* A request that was normalised is accepted by the parser of jobs, and its
\* canonical address is an address of the same video.
THEOREM NormalizedIsAccepted ==
  ASSUME NEW url, NEW tags \in Seq(Tags), Null \notin VideoIds,
         Canonical \in [Tags -> Tags \cup {Null}],
         VideoOf(url) # Null, LanguagesAccepted(tags)
  PROVE  /\ RequestAccepted(NormalizedRequest(url, tags))
         /\ VideoOf(NormalizedRequest(url, tags).canonicalUrl) = VideoOf(url)
<1> DEFINE v == VideoOf(url)
           request == NormalizedRequest(url, tags)
<1>1. v \in VideoIds
  BY DEF VideoOf
<1>2. NormalizedLanguages(tags) \in Seq(Tags)
  <2>1. \A i \in 1 .. Len(tags) : Canonical[tags[i]] \in Tags
    BY DEF LanguagesAccepted
  <2> QED
    BY <2>1 DEF NormalizedLanguages
<1>3. VideoOf(CanonicalUrl(v)) = v
  <2> HIDE DEF v
  <2> QED
    BY <1>1 DEF VideoOf, CanonicalUrl
<1>4. RequestAccepted(request)
  <2> HIDE DEF v
  <2>1. request = [videoId |-> v, canonicalUrl |-> CanonicalUrl(v),
                   languages |-> NormalizedLanguages(tags),
                   cacheKey |-> CacheKey(v, NormalizedLanguages(tags))]
    BY DEF NormalizedRequest, v
  <2> QED
    BY <2>1, <1>1, <1>2 DEF RequestAccepted
<1> QED
  BY <1>3, <1>4 DEF NormalizedRequest

\* A request made of the canonical form of another has the same cache key, so
\* the same owner and the same artifact.
THEOREM CanonicalFormHasSameKey ==
  ASSUME NEW url, NEW tags \in Seq(Tags), Null \notin VideoIds,
         Canonical \in [Tags -> Tags \cup {Null}],
         \A t \in Tags : Canonical[t] # Null => Canonical[Canonical[t]] = Canonical[t],
         VideoOf(url) # Null, LanguagesAccepted(tags),
         NEW request, request = NormalizedRequest(url, tags)
  PROVE  /\ LanguagesAccepted(request.languages)
         /\ NormalizedRequest(request.canonicalUrl, request.languages) = request
<1> DEFINE languages == NormalizedLanguages(tags)
<1>1. request.languages = languages /\ request.canonicalUrl = CanonicalUrl(VideoOf(url))
  BY DEF NormalizedRequest
<1>2. VideoOf(request.canonicalUrl) = VideoOf(url)
  BY NormalizedIsAccepted
<1>3. /\ DOMAIN languages = DOMAIN tags
      /\ \A i \in DOMAIN tags : languages[i] = Canonical[tags[i]]
  BY DEF NormalizedLanguages
<1>4. \A i \in DOMAIN tags : tags[i] \in Tags
  OBVIOUS
<1>5. \A i \in DOMAIN tags : /\ Canonical[tags[i]] # Null
                             /\ Canonical[languages[i]] = languages[i]
  BY <1>3, <1>4 DEF LanguagesAccepted
<1>6. LanguagesAccepted(languages)
  <2> HIDE DEF languages
  <2> QED
    BY <1>3, <1>5 DEF LanguagesAccepted
<1>7. NormalizedLanguages(languages) = languages
  BY <1>3, <1>5 DEF NormalizedLanguages
<1> QED
  BY <1>1, <1>2, <1>6, <1>7 DEF NormalizedRequest

LEMMA JobFailureIsAccepted ==
  ASSUME NEW code \in JobCodes
  PROVE  JobFailure(code) \in JobFailures
BY DEF JobFailures

\* A job that was accepted, of which the program makes the next record, is
\* accepted again, with the next revision.
THEOREM MovedJobIsAccepted ==
  ASSUME NullIsApart, Null \notin JobFailures,
         NEW job, JobAccepted(job), NEW t, JobMayMove(job, job.revision, t),
         t.at \in Times, t.type # "start" => t.expiresAt \in Times
  PROVE  /\ JobAccepted(MovedJob(job, t))
         /\ MovedJob(job, t).revision = job.revision + 1
         /\ MovedJob(job, t).id = job.id
<1>1. CASE t.type = "start"
  <2>1. job.status = "queued"
    BY <1>1 DEF JobMayMove
  <2> QED
    BY <1>1, <2>1 DEF MovedJob, JobChanges, Spread, JobAccepted, NullIsApart, Maybe, Times
<1>2. CASE t.type = "complete"
  <2>1. job.status = "processing" /\ t.artifactId \in Ids
    BY <1>2 DEF JobMayMove
  <2> QED
    BY <1>2, <2>1 DEF MovedJob, JobChanges, Spread, JobAccepted, NullIsApart, Maybe, Times
<1>3. CASE t.type = "fail"
  <2>1. job.status = "processing" /\ JobFailure(t.code) \in JobFailures
    BY <1>3, JobFailureIsAccepted DEF JobMayMove
  <2> HIDE DEF JobFailures
  <2> QED
    BY <1>3, <2>1 DEF MovedJob, JobChanges, Spread, JobAccepted, NullIsApart, Maybe, Times
<1> QED
  BY <1>1, <1>2, <1>3 DEF JobMayMove

\* The first record of a job is accepted: queued, or completed for a submission
\* whose artifact was there; and so is the repair of a duplicate.
THEOREM NewJobIsAccepted ==
  ASSUME NullIsApart, Null \notin JobFailures, "JOB_INTERRUPTED" \in JobCodes,
         NEW id \in Ids, NEW request, RequestAccepted(request), NEW at \in Times,
         NEW bundle, bundle.artifactId \in Ids, bundle.expiresAt \in Times
  PROVE  /\ JobAccepted(QueuedJob(id, request, at))
         /\ JobAccepted(CompletedJob(id, request, bundle, at))
         /\ \A job, ttl : JobAccepted(job) /\ ttl \in Nat
              => JobAccepted(RepairedJob(job, at, ttl))
<1>1. JobAccepted(QueuedJob(id, request, at))
  BY DEF QueuedJob, JobAccepted, Maybe, Times
<1>2. JobAccepted(CompletedJob(id, request, bundle, at))
  BY DEF CompletedJob, QueuedJob, Spread, JobAccepted, Maybe, Times, NullIsApart
<1>3. ASSUME NEW job, NEW ttl \in Nat, JobAccepted(job)
      PROVE  JobAccepted(RepairedJob(job, at, ttl))
  <2>1. JobFailure("JOB_INTERRUPTED") \in JobFailures
    BY JobFailureIsAccepted
  <2> HIDE DEF JobFailures
  <2> QED
    BY <1>3, <2>1 DEF RepairedJob, Spread, JobAccepted, Maybe, Times, NullIsApart
<1> QED
  BY <1>1, <1>2, <1>3

\* The failure a client is shown is the one that was stored.
THEOREM PublicFailureIsStored ==
  ASSUME NEW job, JobAccepted(job)
  PROVE  PublicJob(job).failure = job.failure
<1>1. CASE job.failure = Null
  BY <1>1 DEF PublicJob
<1>2. CASE job.failure # Null
  <2>1. PICK code \in JobCodes : job.failure = JobFailure(code)
    BY <1>2 DEF JobAccepted, Maybe, JobFailures
  <2>2. job.failure.code = code
    BY <2>1 DEF JobFailure
  <2> QED
    BY <1>2, <2>1, <2>2 DEF PublicJob
<1> QED
  BY <1>1, <1>2

\* The ingestions the program writes: accepted, and without an expiry while
\* they are under way.  The parser does not demand the last part of a record
\* that is processing, but a retry of one that has an expiry would write a
\* queued record that is not accepted.
IngestionWritten(record) ==
  /\ IngestionAccepted(record)
  /\ record.status \in {"queued", "processing"} => record.expiresAt = Null

SnapshotApart == Null \notin [ingestionId : Ids, transcriptSha256 : Digests]

\* Every transition of an ingestion the program wrote gives one it can write:
\* it is accepted again, with the next revision, and keeps its identity.
THEOREM MovedIngestionIsAccepted ==
  ASSUME NullIsApart, SnapshotApart,
         NEW record, IngestionWritten(record),
         NEW t, IngestionMayMove(record, record.revision, t),
         t.at \in Times, t.type \in {"complete", "fail"} => t.expiresAt \in Times
  PROVE  /\ IngestionWritten(MovedIngestion(record, t))
         /\ MovedIngestion(record, t).revision = record.revision + 1
         /\ MovedIngestion(record, t).id = record.id
         /\ MovedIngestion(record, t).targetGeneration = record.targetGeneration
<1>1. CASE t.type = "start"
  <2>1. record.status = "queued"
    BY <1>1 DEF IngestionMayMove
  <2> QED
    BY <1>1, <2>1 DEF MovedIngestion, IngestionChanges, Spread, IngestionAccepted,
       IngestionWritten, NullIsApart, Maybe, Times
<1>2. CASE t.type = "complete"
  <2>1. record.status = "processing"
    BY <1>2 DEF IngestionMayMove
  <2> QED
    BY <1>2, <2>1 DEF MovedIngestion, IngestionChanges, Spread, IngestionAccepted,
       IngestionWritten, NullIsApart, Maybe, Times
<1>3. CASE t.type = "fail"
  <2>1. record.status = "processing" /\ RagFailure(t.code) \in RagFailures
    BY <1>3 DEF IngestionMayMove, RagFailures
  <2> HIDE DEF RagFailures
  <2> QED
    BY <1>3, <2>1 DEF MovedIngestion, IngestionChanges, Spread, IngestionAccepted,
       IngestionWritten, NullIsApart, Maybe, Times
<1>4. CASE t.type = "retry"
  <2>1. record.status = "processing"
    BY <1>4 DEF IngestionMayMove
  <2> QED
    BY <1>4, <2>1 DEF MovedIngestion, IngestionChanges, Spread, IngestionAccepted,
       IngestionWritten, NullIsApart, Maybe, Times
<1> QED
  BY <1>1, <1>2, <1>3, <1>4 DEF IngestionMayMove

\* The first record of an ingestion is accepted: queued, or completed for a
\* version that is in the index already; and so is a tombstone.
THEOREM NewIngestionIsAccepted ==
  ASSUME NullIsApart, SnapshotApart, NEW id \in Ids, NEW source, SourceAccepted(source),
         NEW doc \in Digests, NEW version \in Digests, NEW generation \in Nat,
         NEW at \in Times, NEW ttl \in Nat, NEW count, NEW digest, NEW lance
  PROVE  /\ IngestionWritten(QueuedIngestion(id, source, doc, version, generation, at))
         /\ IngestionWritten(HitIngestion(id, source,
              [doc |-> doc, version |-> version, generation |-> generation, count |-> count,
               digest |-> digest, lanceVersion |-> lance], at, ttl))
         /\ \A record : IngestionAccepted(record)
              => TombstoneAccepted(Tombstone(record, at, ttl))
<1>1. source.transcriptSha256 \in Digests
  BY DEF SourceAccepted
<1>2. IngestionWritten(QueuedIngestion(id, source, doc, version, generation, at))
  <2>1. [ingestionId |-> id, transcriptSha256 |-> source.transcriptSha256]
          \in [ingestionId : Ids, transcriptSha256 : Digests]
    BY <1>1
  <2>2. [ingestionId |-> id, transcriptSha256 |-> source.transcriptSha256] # Null
    BY <2>1 DEF SnapshotApart
  <2> QED
    BY <2>1, <2>2 DEF IngestionWritten, IngestionAccepted, QueuedIngestion, Maybe, Times
<1>3. IngestionWritten(HitIngestion(id, source,
        [doc |-> doc, version |-> version, generation |-> generation, count |-> count,
         digest |-> digest, lanceVersion |-> lance], at, ttl))
  BY DEF IngestionWritten, IngestionAccepted, HitIngestion, QueuedIngestion, Spread,
     Maybe, Times, NullIsApart
<1>4. \A record : IngestionAccepted(record) => TombstoneAccepted(Tombstone(record, at, ttl))
  BY DEF IngestionAccepted, TombstoneAccepted, Tombstone, Times
<1> QED
  BY <1>2, <1>3, <1>4

-----------------------------------------------------------------------------
(* The scan.                                                               *)

\* A record that was written is found by the next scan, as it was written, and
\* what the scan finds of the other records does not depend on it.
THEOREM WrittenIsScanned ==
  ASSUME NEW files, NEW accepted, NEW record, record \in accepted,
         ShardOf[record.id] \in Shards
  PROVE  /\ record.id \in DOMAIN Scanned(Written(files, record), accepted)
         /\ Scanned(Written(files, record), accepted)[record.id] = record
         /\ \A id : id # record.id =>
              /\ id \in DOMAIN Scanned(Written(files, record), accepted)
                   <=> id \in DOMAIN Scanned(files, accepted)
              /\ id \in DOMAIN Scanned(files, accepted) =>
                   Scanned(Written(files, record), accepted)[id]
                     = Scanned(files, accepted)[id]
<1> DEFINE after == Written(files, record)
           path == PathOf(record.id)
<1>1. /\ path \in DOMAIN after
      /\ after[path] = [regular |-> TRUE, content |-> record]
      /\ \A p \in DOMAIN files : p # path => p \in DOMAIN after /\ after[p] = files[p]
      /\ \A p \in DOMAIN after : p # path => p \in DOMAIN files
  BY DEF Written
<1>2. path[1] \in Shards
  BY DEF PathOf
<1> HIDE DEF after
<1>3. path \in Kept(after, accepted) /\ after[path].content = record
  BY <1>1, <1>2 DEF Kept, Scannable
<1>4. /\ \A p : p # path =>
           (p \in Kept(after, accepted) <=> p \in Kept(files, accepted))
      /\ \A p \in Kept(files, accepted) : p # path => after[p] = files[p]
  <2> HIDE DEF path
  <2> QED
    BY <1>1 DEF Kept, Scannable
<1>5. ASSUME NEW set, NEW p \in Kept(set, accepted)
      PROVE  p = PathOf(set[p].content.id)
  BY <1>5 DEF Kept
<1>6. \A id : id # record.id => PathOf(id) # path
  BY DEF PathOf
<1>7. /\ record.id \in DOMAIN Scanned(after, accepted)
      /\ Scanned(after, accepted)[record.id] = record
  <2>1. record.id \in {after[p].content.id : p \in Kept(after, accepted)}
    BY <1>3
  <2> QED
    BY <2>1, <1>3 DEF Scanned
<1>8. ASSUME NEW id, id # record.id
      PROVE  id \in {after[p].content.id : p \in Kept(after, accepted)}
               <=> id \in {files[p].content.id : p \in Kept(files, accepted)}
  <2>1. ASSUME NEW p \in Kept(after, accepted), after[p].content.id = id
        PROVE  p \in Kept(files, accepted) /\ files[p].content.id = id
    BY <2>1, <1>4, <1>5, <1>6, <1>8
  <2>2. ASSUME NEW p \in Kept(files, accepted), files[p].content.id = id
        PROVE  p \in Kept(after, accepted) /\ after[p].content.id = id
    BY <2>2, <1>4, <1>5, <1>6, <1>8
  <2> QED
    BY <2>1, <2>2
<1>9. ASSUME NEW id, id # record.id, id \in DOMAIN Scanned(files, accepted)
      PROVE  Scanned(after, accepted)[id] = Scanned(files, accepted)[id]
  <2>1. id \in {files[p].content.id : p \in Kept(files, accepted)}
    BY <1>9 DEF Scanned
  <2>2. PICK p \in Kept(files, accepted) : files[p].content.id = id
    BY <2>1
  <2>3. p = PathOf(id)
    BY <2>2, <1>5
  <2>4. after[PathOf(id)] = files[PathOf(id)]
    BY <2>2, <2>3, <1>4, <1>6, <1>9
  <2> QED
    BY <2>1, <2>4, <1>8, <1>9 DEF Scanned
<1> QED
  BY <1>7, <1>8, <1>9 DEF Scanned, after

\* The scan takes no record it found out of its place, and a second scan finds
\* the same records and nothing to move: a crash during a scan loses nothing.
THEOREM ScanIsRepeatable ==
  ASSUME NEW files, NEW accepted
  PROVE  /\ Quarantined(AfterScan(files, accepted), accepted) = {}
         /\ Scanned(AfterScan(files, accepted), accepted) = Scanned(files, accepted)
<1> DEFINE after == AfterScan(files, accepted)
<1>1. /\ DOMAIN after = DOMAIN files \ Quarantined(files, accepted)
      /\ \A p \in DOMAIN after : after[p] = files[p]
  BY DEF AfterScan
<1> HIDE DEF after
<1>2. Scannable(after) = Kept(files, accepted)
  BY <1>1 DEF Scannable, Quarantined, Kept
<1>3. Kept(after, accepted) = Kept(files, accepted)
  BY <1>1, <1>2 DEF Kept, Scannable
<1>4. Quarantined(after, accepted) = {}
  BY <1>2, <1>3 DEF Quarantined
<1>5. \A p \in Kept(files, accepted) : after[p] = files[p]
  BY <1>1, <1>3 DEF Kept, Scannable
<1>6. {after[p].content.id : p \in Kept(files, accepted)}
        = {files[p].content.id : p \in Kept(files, accepted)}
  BY <1>5
<1>7. \A id \in {files[p].content.id : p \in Kept(files, accepted)} :
        after[PathOf(id)] = files[PathOf(id)]
  BY <1>5 DEF Kept
<1>8. Scanned(after, accepted) = Scanned(files, accepted)
  BY <1>3, <1>6, <1>7 DEF Scanned
<1> QED
  BY <1>4, <1>8 DEF after

\* The snapshot of a queued or processing ingestion outlives the cleanup that
\* follows the scan that found the ingestion.
LEMMA SnapshotOutlivesCleanup ==
  ASSUME NEW files, NEW accepted, NEW entries, NEW entry \in entries,
         entry.kind = "snapshot",
         entry.id \in DOMAIN Scanned(files, accepted)
  PROVE  entry \in CleanedSnapshots(entries, Scanned(files, accepted))
BY DEF CleanedSnapshots, WithoutTemporaries

----------------------------------------------------------------------------
(* The rows of an index and the ranking of a search.                        *)
\* A one-to-one image has the size of its set.
LEMMA ImageSize ==
  ASSUME NEW S, IsFiniteSet(S), NEW f, DOMAIN f = S,
         \A x, y \in S : f[x] = f[y] => x = y
  PROVE  /\ IsFiniteSet({f[x] : x \in S})
         /\ Cardinality({f[x] : x \in S}) = Cardinality(S)
<1> DEFINE T == {f[x] : x \in S}
           g == [x \in S |-> f[x]]
<1>1. g \in [S -> T]
  OBVIOUS
<1>2. g \in Injection(S, T)
  BY <1>1 DEF Injection, IsInjective
<1>3. g \in Surjection(S, T)
  BY <1>1 DEF Surjection
<1>4. ExistsBijection(S, T)
  BY <1>2, <1>3 DEF ExistsBijection, Bijection
<1> QED
  BY <1>4, FS_Bijection

\* Ordinals that are distinct and cover 0 .. n - 1 in n rows are in 0 .. n - 1.
LEMMA OrdinalsInRange ==
  ASSUME NEW rows, IsFiniteSet(DOMAIN rows),
         \A p \in DOMAIN rows : rows[p].ordinal \in Nat,
         Distinct(rows), Covered(rows)
  PROVE  \A p \in DOMAIN rows : rows[p].ordinal \in 0 .. Cardinality(DOMAIN rows) - 1
<1> DEFINE n == Cardinality(DOMAIN rows)
           P == {p \in DOMAIN rows : rows[p].ordinal \in 0 .. n - 1}
           f == [p \in P |-> rows[p].ordinal]
<1>1. n \in Nat
  BY FS_CardinalityType
<1>2. IsFiniteSet(P)
  BY FS_Subset
<1>3. \A p, q \in P : f[p] = f[q] => p = q
  BY DEF Distinct
<1>4. /\ IsFiniteSet({f[p] : p \in P})
      /\ Cardinality({f[p] : p \in P}) = Cardinality(P)
  <2> HIDE DEF P
  <2> DOMAIN f = P
    OBVIOUS
  <2> HIDE DEF f
  <2> QED
    BY <1>2, <1>3, ImageSize
<1>5. {f[p] : p \in P} = 0 .. n - 1
  <2>1. \A o \in 0 .. n - 1 : \E p \in P : f[p] = o
    BY DEF Covered
  <2>2. \A p \in P : f[p] \in 0 .. n - 1
    OBVIOUS
  <2> QED
    BY <2>1, <2>2
<1>6. Cardinality(0 .. n - 1) = n
  <2> HIDE DEF n
  <2>1. Cardinality(0 .. n - 1) = IF 0 > n - 1 THEN 0 ELSE (n - 1) - 0 + 1
    BY <1>1, FS_Interval
  <2> QED
    BY <2>1, <1>1
<1>7. P = DOMAIN rows
  <2>1. Cardinality(DOMAIN rows) = Cardinality(P)
    BY <1>4, <1>5, <1>6
  <2>2. P \in SUBSET DOMAIN rows
    OBVIOUS
  <2> HIDE DEF P
  <2> QED
    BY <2>1, <2>2, FS_Subset
<1> QED
  BY <1>7

\* Rows that may be written can be read, with the target they were written for.
THEOREM PublishableIsReadable ==
  ASSUME NEW rows, Publishable(rows)
  PROVE  /\ Readable(rows)
         /\ \A p \in DOMAIN rows : TargetOf(rows[p]) = TargetIn(rows)
<1>1. Readable(rows)
  BY DEF Publishable, Readable, WellFormed
<1>2. \A p \in DOMAIN rows : TargetOf(rows[p]) = TargetIn(rows)
  BY DEF Publishable, Uniform, TargetIn
<1> QED
  BY <1>1, <1>2

\* Rows that can be read, and were all written by one publication, are all the
\* rows of that publication: a publication is never seen in part.
LEMMA NoPartOfPublication ==
  ASSUME NEW written, IsFiniteSet(DOMAIN written), Publishable(written),
         NEW read, IsFiniteSet(DOMAIN read), DOMAIN read # {}, Readable(read),
         \A p \in DOMAIN read : \E q \in DOMAIN written : read[p] = written[q]
  PROVE  {read[p] : p \in DOMAIN read} = {written[q] : q \in DOMAIN written}
<1> DEFINE n == Cardinality(DOMAIN written)
<1>1. \A q \in DOMAIN written : written[q].count = n
  BY DEF Publishable, Counted
<1>2. PICK p \in DOMAIN read : TRUE
  OBVIOUS
<1>3. Cardinality(DOMAIN read) = n
  <2>1. read[p].count = Cardinality(DOMAIN read)
    BY DEF Readable, Counted
  <2> QED
    BY <1>1, <2>1
<1>4. ASSUME NEW q \in DOMAIN written
      PROVE  written[q] \in {read[r] : r \in DOMAIN read}
  <2>1. written[q].ordinal \in 0 .. n - 1
    <3>1. \A r \in DOMAIN written : written[r].ordinal \in Nat
      BY DEF Publishable, WellFormed
    <3>2. Distinct(written) /\ Covered(written)
      BY DEF Publishable
    <3> QED
      BY <3>1, <3>2, OrdinalsInRange
  <2>2. PICK r \in DOMAIN read : read[r].ordinal = written[q].ordinal
    BY <2>1, <1>3 DEF Readable, Covered
  <2>3. PICK s \in DOMAIN written : read[r] = written[s]
    BY <2>2
  <2>4. s = q
    BY <2>2, <2>3 DEF Publishable, Distinct
  <2> QED
    BY <2>3, <2>4
<1> QED
  BY <1>4

\* Rows that can be read, and were written by two publications with different
\* targets, are the rows of one of the two, and all of them: whatever a merge
\* that failed half-way left in the table, it is refused or it is whole.
THEOREM NoMixture ==
  ASSUME NEW before, IsFiniteSet(DOMAIN before), Publishable(before),
         NEW after, IsFiniteSet(DOMAIN after), Publishable(after),
         TargetIn(before) # TargetIn(after),
         NEW read, IsFiniteSet(DOMAIN read), DOMAIN read # {}, Readable(read),
         \A p \in DOMAIN read : \/ \E q \in DOMAIN before : read[p] = before[q]
                                \/ \E q \in DOMAIN after : read[p] = after[q]
  PROVE  \/ {read[p] : p \in DOMAIN read} = {before[q] : q \in DOMAIN before}
         \/ {read[p] : p \in DOMAIN read} = {after[q] : q \in DOMAIN after}
<1>1. /\ \A q \in DOMAIN before : TargetOf(before[q]) = TargetIn(before)
      /\ \A q \in DOMAIN after : TargetOf(after[q]) = TargetIn(after)
  BY PublishableIsReadable
<1>2. \A p, q \in DOMAIN read : TargetOf(read[p]) = TargetOf(read[q])
  BY DEF Readable, Uniform
<1>3. CASE \A p \in DOMAIN read : \E q \in DOMAIN before : read[p] = before[q]
  BY <1>3, NoPartOfPublication
<1>4. CASE \E p \in DOMAIN read : ~ \E q \in DOMAIN before : read[p] = before[q]
  <2>1. PICK p \in DOMAIN read : ~ \E q \in DOMAIN before : read[p] = before[q]
    BY <1>4
  <2>2. TargetOf(read[p]) = TargetIn(after)
    BY <2>1, <1>1
  <2>3. \A r \in DOMAIN read : TargetOf(read[r]) = TargetIn(after)
    BY <2>2, <1>2
  <2>4. \A r \in DOMAIN read : \E q \in DOMAIN after : read[r] = after[q]
    BY <2>3, <1>1
  <2> QED
    BY <2>4, NoPartOfPublication
<1> QED
  BY <1>3, <1>4

\* Two publications of one ingestion with the same target are the same rows:
\* the digest is over the chunks and the vectors.  A replacement that is
\* repeated after a failure cannot leave other rows under the same receipt.
THEOREM TargetDeterminesRows ==
  ASSUME NEW record, NEW source, NEW chunks, NEW vectors,
         NEW chunks2, NEW vectors2,
         CanMaterialize(record, source, chunks, vectors),
         CanMaterialize(record, source, chunks2, vectors2),
         TargetIn(Materialized(record, chunks, vectors))
           = TargetIn(Materialized(record, chunks2, vectors2))
  PROVE  Materialized(record, chunks, vectors) = Materialized(record, chunks2, vectors2)
<1> DEFINE A == Materialized(record, chunks, vectors)
           B == Materialized(record, chunks2, vectors2)
<1>1. DOMAIN A # {} /\ DOMAIN B # {}
  BY DEF CanMaterialize, Materialized
<1>2. TargetIn(A).digest = <<chunks, vectors>>
  BY <1>1 DEF TargetIn, TargetOf, Materialized, RowsDigest
<1>3. TargetIn(B).digest = <<chunks2, vectors2>>
  BY <1>1 DEF TargetIn, TargetOf, Materialized, RowsDigest
<1>4. <<chunks, vectors>> = <<chunks2, vectors2>>
  BY <1>2, <1>3
<1>5. chunks = chunks2 /\ vectors = vectors2
  BY <1>4
<1> QED
  BY <1>5

\* The rows of a publication as they lie in the table: one place for each.
LEMMA WrittenIsStored ==
  ASSUME NEW rows, IsFiniteSet(DOMAIN rows), Publishable(rows),
         NEW new, new = {rows[p] : p \in DOMAIN rows}
  PROVE  Readable([row \in new |-> row])
<1> DEFINE stored == [row \in new |-> row]
<1>1. DOMAIN stored = new
  OBVIOUS
<1>2. \A p, q \in DOMAIN rows : rows[p] = rows[q] => p = q
  BY DEF Publishable, Distinct
<1>3. Cardinality(new) = Cardinality(DOMAIN rows)
  BY <1>2, ImageSize
<1>4. \A row \in new : \E p \in DOMAIN rows : row = rows[p]
  OBVIOUS
<1>5. /\ Cardinality(new) \in 1 .. MaxDocumentChunks
      /\ \A row \in new : /\ row.identified /\ row.compatible
                          /\ row.ordinal \in Nat
  <2>1. Cardinality(DOMAIN rows) \in 1 .. MaxDocumentChunks
    BY DEF Publishable
  <2> QED
    BY <2>1, <1>3, <1>4 DEF Publishable, WellFormed
<1>6. Uniform(stored)
  BY <1>4 DEF Publishable, Uniform
<1>7. Counted(stored)
  BY <1>1, <1>3, <1>4 DEF Publishable, Counted
<1>8. Distinct(stored)
  BY <1>4 DEF Publishable, Distinct
<1>9. Covered(stored)
  <2> SUFFICES ASSUME NEW o \in 0 .. Cardinality(new) - 1
               PROVE  \E row \in new : row.ordinal = o
    BY <1>1 DEF Covered
  <2>1. PICK p \in DOMAIN rows : rows[p].ordinal = o
    BY <1>3 DEF Publishable, Covered
  <2> QED
    BY <2>1
<1> QED
  BY <1>1, <1>5, <1>6, <1>7, <1>8, <1>9 DEF Readable

\* A merge replaces the rows of its document by the rows of the publication and
\* leaves every other document as it was; so what is in the table can be read
\* after it when it could be before, and a restart opens the index.
THEOREM MergeReplacesOneDocument ==
  ASSUME NEW table, NEW rows, IsFiniteSet(DOMAIN rows), Publishable(rows),
         ChunksOfOneDocument(table \cup {rows[p] : p \in DOMAIN rows}),
         NEW doc, doc = TargetIn(rows).doc
  PROVE  /\ StoredRows(Merged(table, rows), doc)
              = [row \in {rows[p] : p \in DOMAIN rows} |-> row]
         /\ \A other : other # doc
              => StoredRows(Merged(table, rows), other) = StoredRows(table, other)
         /\ AllReadable(table) => AllReadable(Merged(table, rows))
<1> DEFINE new == {rows[p] : p \in DOMAIN rows}
           after == Merged(table, rows)
<1>1. \A row \in new : row.doc = doc
  <2>1. \A p \in DOMAIN rows : TargetOf(rows[p]) = TargetIn(rows)
    BY PublishableIsReadable
  <2>2. \A p \in DOMAIN rows : rows[p].doc = TargetOf(rows[p]).doc
    BY DEF TargetOf
  <2> QED
    BY <2>1, <2>2
<1>2. \A row \in after : row \in new \/ (row \in table /\ row.doc # doc)
  BY DEF Merged
<1>3. \A row \in table : row.doc # doc => row \in after
  <2> SUFFICES ASSUME NEW row \in table, row.doc # doc
               PROVE  row \in after
    OBVIOUS
  <2>1. \A r \in new : r.chunk # row.chunk
    BY <1>1 DEF ChunksOfOneDocument
  <2> QED
    BY <2>1 DEF Merged
<1>4. new \subseteq after
  BY DEF Merged
<1>5. {row \in after : row.doc = doc} = new
  <2> HIDE DEF new, after
  <2> QED
    BY <1>1, <1>2, <1>4
<1>6. StoredRows(after, doc) = [row \in new |-> row]
  BY <1>5 DEF StoredRows
<1>7. ASSUME NEW other, other # doc
      PROVE  StoredRows(after, other) = StoredRows(table, other)
  <2>1. {row \in after : row.doc = other} = {row \in table : row.doc = other}
    <3> HIDE DEF new, after
    <3> QED
      BY <1>1, <1>2, <1>3, <1>7
  <2> QED
    BY <2>1 DEF StoredRows
<1>8. ASSUME AllReadable(table)
      PROVE  AllReadable(after)
  <2> SUFFICES ASSUME NEW row \in after
               PROVE  Readable(StoredRows(after, row.doc))
    BY DEF AllReadable
  <2>1. CASE row.doc = doc
    <3>1. Readable([r \in new |-> r])
      BY WrittenIsStored
    <3> QED
      BY <2>1, <3>1, <1>6
  <2>2. CASE row.doc # doc
    <3>1. row \in table
      BY <2>2, <1>1, <1>2
    <3> QED
      BY <2>2, <3>1, <1>7, <1>8 DEF AllReadable
  <2> QED
    BY <2>1, <2>2
<1> QED
  BY <1>6, <1>7, <1>8

\* A deletion removes the rows of its document and no other row.
THEOREM DeleteRemovesOneDocument ==
  ASSUME NEW table, NEW doc
  PROVE  /\ DOMAIN StoredRows(Deleted(table, doc), doc) = {}
         /\ \A other : other # doc
              => StoredRows(Deleted(table, doc), other) = StoredRows(table, other)
         /\ AllReadable(table) => AllReadable(Deleted(table, doc))
<1>1. {row \in Deleted(table, doc) : row.doc = doc} = {}
  BY DEF Deleted
<1>2. ASSUME NEW other, other # doc
      PROVE  StoredRows(Deleted(table, doc), other) = StoredRows(table, other)
  <2>1. {row \in Deleted(table, doc) : row.doc = other} = {row \in table : row.doc = other}
    BY <1>2 DEF Deleted
  <2> QED
    BY <2>1 DEF StoredRows
<1>3. DOMAIN StoredRows(Deleted(table, doc), doc) = {}
  BY <1>1 DEF StoredRows
<1>4. ASSUME AllReadable(table)
      PROVE  AllReadable(Deleted(table, doc))
  <2> SUFFICES ASSUME NEW row \in Deleted(table, doc)
               PROVE  Readable(StoredRows(Deleted(table, doc), row.doc))
    BY DEF AllReadable
  <2>1. row \in table /\ row.doc # doc
    BY DEF Deleted
  <2> QED
    BY <2>1, <1>2, <1>4 DEF AllReadable
<1> QED
  BY <1>2, <1>3, <1>4

----------------------------------------------------------------------------
\* The identifiers of a candidate are numbers here.
Identified(c) ==
  c.chunk \in Int /\ c.doc \in Int /\ c.version \in Int /\ c.ordinal \in Int

\* The order of identities is strict and total: two candidates are tied only
\* when they are of one chunk.
LEMMA BeforeIsTotal ==
  ASSUME NEW c, NEW d, NEW e, Identified(c), Identified(d), Identified(e)
  PROVE  /\ ~ Before(c, c)
         /\ Before(c, d) /\ Before(d, e) => Before(c, e)
         /\ c.chunk # d.chunk => Before(c, d) \/ Before(d, c)
<1>1. ~ Before(c, c)
  BY DEF Before, Identified
<1>2. Before(c, d) /\ Before(d, e) => Before(c, e)
  BY DEF Before, Identified
<1>3. c.chunk # d.chunk => Before(c, d) \/ Before(d, c)
  BY DEF Before, Identified
<1> QED
  BY <1>1, <1>2, <1>3

LEMMA AheadIsTotal ==
  ASSUME NEW c, NEW d, NEW e, Identified(c), Identified(d), Identified(e),
         c.score \in Int, d.score \in Int, e.score \in Int
  PROVE  /\ ~ Ahead(c, c)
         /\ Ahead(c, d) /\ Ahead(d, e) => Ahead(c, e)
         /\ c.chunk # d.chunk => Ahead(c, d) \/ Ahead(d, c)
<1>1. ~ Ahead(c, c)
  BY BeforeIsTotal DEF Ahead
<1>2. ASSUME Ahead(c, d), Ahead(d, e)
      PROVE  Ahead(c, e)
  BY <1>2, BeforeIsTotal DEF Ahead
<1>3. ASSUME c.chunk # d.chunk
      PROVE  Ahead(c, d) \/ Ahead(d, c)
  BY <1>3, BeforeIsTotal DEF Ahead
<1> QED
  BY <1>1, <1>2, <1>3

\* In an order that is strict and total, fewer are ahead of the one that is ahead.
LEMMA FewerAhead ==
  ASSUME NEW S, IsFiniteSet(S), NEW c \in S, NEW A, NEW B,
         A \subseteq S, B \subseteq S, A \subseteq B, c \in B, c \notin A
  PROVE  Cardinality(A) < Cardinality(B)
<1>1. IsFiniteSet(B) /\ IsFiniteSet(A)
  BY FS_Subset
<1>2. A \in SUBSET B /\ A # B
  OBVIOUS
<1>3. Cardinality(A) <= Cardinality(B) /\ Cardinality(A) # Cardinality(B)
  BY <1>1, <1>2, FS_Subset
<1>4. Cardinality(A) \in Nat /\ Cardinality(B) \in Nat
  BY <1>1, FS_CardinalityType
<1> QED
  BY <1>3, <1>4

\* The candidates of one search that are ranked have one rank each, the better
\* candidate the smaller: the contribution of a chunk does not depend on the
\* order in which the index returned the candidates.
THEOREM RanksFollowTheOrder ==
  ASSUME NEW candidates, IsFiniteSet(candidates),
         \A x \in candidates : Identified(x) /\ x.score \in Int,
         NEW c \in Retained(candidates), NEW d \in Retained(candidates),
         c.chunk # d.chunk
  PROVE  /\ Rank(c, candidates) # Rank(d, candidates)
         /\ Ahead(c, d) <=> Rank(c, candidates) < Rank(d, candidates)
<1> DEFINE S == Retained(candidates)
           Above(x) == {y \in S : Ahead(y, x)}
<1>1. S \subseteq candidates /\ IsFiniteSet(S)
  <2>1. S \subseteq candidates
    BY DEF Retained
  <2> QED
    BY <2>1, FS_Subset
<1>2. ASSUME NEW x \in S, NEW y \in S, Ahead(x, y)
      PROVE  Cardinality(Above(x)) < Cardinality(Above(y))
  <2>1. /\ Identified(x) /\ x.score \in Int
        /\ Identified(y) /\ y.score \in Int
        /\ \A z \in S : Identified(z) /\ z.score \in Int
    BY <1>1
  <2>2. Above(x) \subseteq Above(y)
    <3> SUFFICES ASSUME NEW z \in S, Ahead(z, x)
                 PROVE  Ahead(z, y)
      OBVIOUS
    <3> QED
      BY <1>2, <2>1, AheadIsTotal
  <2>3. x \in Above(y)
    BY <1>2
  <2>4. x \notin Above(x)
    BY <2>1, AheadIsTotal
  <2> HIDE DEF S
  <2>5. Above(x) \subseteq S /\ Above(y) \subseteq S
    OBVIOUS
  <2> HIDE DEF Above
  <2> QED
    BY <1>1, <2>2, <2>3, <2>4, <2>5, FewerAhead
<1>3. Ahead(c, d) \/ Ahead(d, c)
  BY <1>1, AheadIsTotal
<1>4. ASSUME NEW x \in S
      PROVE  Cardinality(Above(x)) \in Nat
  <2> HIDE DEF S
  <2>1. Above(x) \in SUBSET S
    OBVIOUS
  <2> HIDE DEF Above
  <2> QED
    BY <1>1, <2>1, FS_Subset, FS_CardinalityType
<1>5. /\ Rank(c, candidates) = 1 + Cardinality(Above(c))
      /\ Rank(d, candidates) = 1 + Cardinality(Above(d))
  BY DEF Rank
<1>6. Cardinality(Above(c)) \in Nat /\ Cardinality(Above(d)) \in Nat
  BY <1>4
<1>7. /\ Ahead(c, d) => Cardinality(Above(c)) < Cardinality(Above(d))
      /\ Ahead(d, c) => Cardinality(Above(d)) < Cardinality(Above(c))
  BY <1>2
<1> QED
  <2> HIDE DEF Above, S
  <2> QED
    BY <1>3, <1>5, <1>6, <1>7

\* The fusion does not tell the two searches apart: exchanging their candidates
\* gives the same scores.
THEOREM FusionIsSymmetric ==
  ASSUME NEW vector, NEW text,
         \A chunk : /\ Contribution(chunk, vector) \in Int \X Int
                    /\ Contribution(chunk, text) \in Int \X Int
  PROVE  Fused(vector, text) = Fused(text, vector)
<1>1. ASSUME NEW x \in Int \X Int, NEW y \in Int \X Int
      PROVE  Plus(x, y) = Plus(y, x)
  <2>1. x[1] \in Int /\ x[2] \in Int /\ y[1] \in Int /\ y[2] \in Int
    OBVIOUS
  <2>2. \A a, b, c, e \in Int : a * e + c * b = c * b + a * e /\ b * e = e * b
    OBVIOUS
  <2> QED
    BY <2>1, <2>2 DEF Plus
<1>2. \A chunk : Plus(Contribution(chunk, vector), Contribution(chunk, text))
                   = Plus(Contribution(chunk, text), Contribution(chunk, vector))
  BY <1>1
<1>3. vector \cup text = text \cup vector
  OBVIOUS
<1> QED
  BY <1>2, <1>3 DEF Fused

=============================================================================
