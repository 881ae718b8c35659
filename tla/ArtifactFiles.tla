--------------------------- MODULE ArtifactFiles ---------------------------
(***************************************************************************)
(* The files of the artifact store: what file-artifact-store.ts demands of *)
(* a bundle, of a cache pointer and of a saved transcript before it hands  *)
(* them on, and what it removes or puts into quarantine when they are not  *)
(* what they must be.  DurableJobs takes a bundle on the volume as one     *)
(* that can be read; here any file may be missing or hold anything.        *)
(*                                                                         *)
(* The content of a file is the value it parses to; a file that is no such *)
(* object has other keys, one that is missing is Null.  A digest, which    *)
(* stands for the length too, is what it is a digest of.  Reads, renames   *)
(* and removals succeed here: their failures are in DurableJobs.           *)
(***************************************************************************)
EXTENDS Integers, Sequences

CONSTANTS Ids, Keys, Strings, Null

Times == Nat

Metadata(content) == [sha256 |-> content]

MetadataAccepted(value) == DOMAIN value = {"sha256"}

SegmentAccepted(value) ==
  value \in [text : Strings, startSeconds : Nat, durationSeconds : Nat \cup {Null}]

TranscriptAccepted(value) ==
  /\ DOMAIN value = {"videoId", "sourceUrl", "source", "language", "isGenerated",
                     "timestampPrecision", "extractedAt", "text", "segments"}
  /\ {value.videoId, value.sourceUrl, value.language, value.text} \subseteq Strings
  /\ value.source \in {"youtube_captions", "muse_transcription"}
  /\ value.timestampPrecision \in {"caption", "chunk"}
  /\ value.isGenerated \in BOOLEAN /\ value.extractedAt \in Times
  /\ \A i \in DOMAIN value.segments : SegmentAccepted(value.segments[i])

ManifestAccepted(value) ==
  /\ DOMAIN value = {"artifactId", "cacheKey", "producerJobId", "cacheSchemaVersion",
                     "transcriptPolicyVersion", "createdAt", "expiresAt", "transcript", "pdf"}
  /\ value.artifactId \in Ids /\ value.cacheKey \in Keys
  /\ value.producerJobId \in Ids \cup {Null}
  /\ value.cacheSchemaVersion = 1 /\ value.transcriptPolicyVersion = 1
  /\ value.createdAt \in Times /\ value.expiresAt \in Times
  /\ MetadataAccepted(value.transcript) /\ MetadataAccepted(value.pdf)

PointerAccepted(value) ==
  /\ DOMAIN value = {"cacheKey", "artifactId", "expiresAt"}
  /\ value.cacheKey \in Keys /\ value.artifactId \in Ids /\ value.expiresAt \in Times

WorkManifestAccepted(value) ==
  /\ DOMAIN value = {"jobId", "transcript"}
  /\ value.jobId \in Ids /\ MetadataAccepted(value.transcript)

-----------------------------------------------------------------------------
(* Bundles: a directory of three files.                                    *)

Absent == [manifest |-> Null, transcript |-> Null, pdf |-> Null]

Verified(content, expected) == content # Null /\ Metadata(content) = expected

Describes(manifest, reference) ==
  /\ manifest.artifactId = reference.artifactId
  /\ manifest.cacheKey = reference.cacheKey
  /\ manifest.expiresAt = reference.expiresAt

\* A bundle that has a manifest and cannot be read is corrupt, one that has
\* none is missing.
TranscriptReads(bundle, reference) ==
  /\ bundle.manifest # Null /\ ManifestAccepted(bundle.manifest)
  /\ Describes(bundle.manifest, reference)
  /\ Verified(bundle.transcript, bundle.manifest.transcript)
  /\ TranscriptAccepted(bundle.transcript)

BundleReads(bundle, reference) ==
  TranscriptReads(bundle, reference) /\ Verified(bundle.pdf, bundle.manifest.pdf)

-----------------------------------------------------------------------------
(* The volume: a pointer for each key, a directory for each identifier,    *)
(* and what was put into quarantine.                                       *)

Disk(pointers, artifacts, quarantine) ==
  [pointers |-> pointers, artifacts |-> artifacts, quarantine |-> quarantine]

Unpointed(disk, key) ==
  Disk([disk.pointers EXCEPT ![key] = Null], disk.artifacts, disk.quarantine)

Removed(disk, id) ==
  Disk(disk.pointers, [disk.artifacts EXCEPT ![id] = Absent], disk.quarantine)

\* Into quarantine goes what is there.
SetAside(disk, id) ==
  Disk(disk.pointers, [disk.artifacts EXCEPT ![id] = Absent],
       disk.quarantine \cup ({disk.artifacts[id]} \ {Absent}))

PointerSetAside(disk, key) ==
  Disk([disk.pointers EXCEPT ![key] = Null], disk.artifacts,
       disk.quarantine \cup {disk.pointers[key]})

Expired(disk, reference) == Removed(Unpointed(disk, reference.cacheKey), reference.artifactId)

Owns(pointer, reference) ==
  pointer.cacheKey = reference.cacheKey /\ pointer.artifactId = reference.artifactId

\* A pointer that cannot be parsed stops the removal.
CanDisown(disk, reference) ==
  LET pointer == disk.pointers[reference.cacheKey] IN pointer = Null \/ PointerAccepted(pointer)

Disowned(disk, reference) ==
  LET pointer == disk.pointers[reference.cacheKey]
  IN IF pointer # Null /\ Owns(pointer, reference) THEN Unpointed(disk, reference.cacheKey)
     ELSE disk

\* The removal of a bundle that a reader found corrupt.
Corrupted(disk, reference) ==
  IF disk.artifacts[reference.artifactId].manifest # Null /\ CanDisown(disk, reference)
  THEN SetAside(Disowned(disk, reference), reference.artifactId) ELSE disk

-----------------------------------------------------------------------------
(* The operations: what they return, Null for nothing, and what they leave.*)

Reference(pointer) ==
  [artifactId |-> pointer.artifactId, cacheKey |-> pointer.cacheKey,
   expiresAt |-> pointer.expiresAt]

Result(value, disk) == [value |-> value, disk |-> disk]

Find(disk, key, now) ==
  LET pointer == disk.pointers[key]
      usable == PointerAccepted(pointer) /\ pointer.cacheKey = key
      bundle == disk.artifacts[pointer.artifactId]
  IN IF pointer = Null THEN Result(Null, disk)
     ELSE IF ~ usable THEN Result(Null, PointerSetAside(disk, key))
     ELSE IF pointer.expiresAt <= now THEN Result(Null, Expired(disk, pointer))
     ELSE IF BundleReads(bundle, Reference(pointer)) THEN Result(bundle, disk)
     ELSE Result(Null, SetAside(Unpointed(disk, key), pointer.artifactId))

\* Nothing returned is an error to the caller of these two.
ReadForJob(disk, reference) ==
  LET bundle == disk.artifacts[reference.artifactId]
  IN IF BundleReads(bundle, reference) THEN Result(bundle, disk)
     ELSE Result(Null, Corrupted(disk, reference))

ReadVerifiedTranscript(disk, reference) ==
  LET bundle == disk.artifacts[reference.artifactId]
  IN IF TranscriptReads(bundle, reference) THEN Result(bundle.transcript, disk)
     ELSE Result(Null, Corrupted(disk, reference))

ManifestOf(input) ==
  [artifactId |-> input.artifactId, cacheKey |-> input.cacheKey,
   producerJobId |-> input.producerJobId, cacheSchemaVersion |-> 1,
   transcriptPolicyVersion |-> 1, createdAt |-> input.createdAt,
   expiresAt |-> input.expiresAt, transcript |-> Metadata(input.transcript),
   pdf |-> Metadata(input.pdf)]

BundleOf(input) ==
  [manifest |-> ManifestOf(input), transcript |-> input.transcript, pdf |-> input.pdf]

\* The bundle is read back before the pointer is written, and removed again
\* when it cannot be read.
Published(disk, input) ==
  IF BundleReads(BundleOf(input), Reference(input))
  THEN Disk([disk.pointers EXCEPT ![input.cacheKey] = Reference(input)],
            [disk.artifacts EXCEPT ![input.artifactId] = BundleOf(input)], disk.quarantine)
  ELSE disk

-----------------------------------------------------------------------------
(* The transcript a job saves before it publishes: two files, written one  *)
(* after the other.                                                        *)

NoWork == [manifest |-> Null, transcript |-> Null]

TranscriptSaved(work, transcript) == [manifest |-> work.manifest, transcript |-> transcript]

WorkSaved(job, transcript) ==
  [manifest |-> [jobId |-> job, transcript |-> Metadata(transcript)],
   transcript |-> transcript]

WorkReads(work, job) ==
  /\ WorkManifestAccepted(work.manifest) /\ work.manifest.jobId = job
  /\ Verified(work.transcript, work.manifest.transcript)
  /\ TranscriptAccepted(work.transcript)

\* A file that is missing is no work; work that cannot be read is put away.
Recovered(work, job) ==
  IF work.manifest = Null \/ ~ WorkReads(work, job) THEN Null ELSE work.transcript

AfterRecovery(work, job) ==
  IF /\ work.manifest # Null
     /\ WorkManifestAccepted(work.manifest) /\ work.manifest.jobId = job
           => work.transcript # Null /\ ~ WorkReads(work, job)
  THEN NoWork ELSE work
=============================================================================
