------------------------ MODULE ArtifactFilesProofs ------------------------
(***************************************************************************)
(* What the artifact store never serves, whatever its files hold: nothing  *)
(* half replaced, half saved or taken from another key; and what a lookup  *)
(* that finds nothing leaves behind.                                       *)
(***************************************************************************)
EXTENDS ArtifactFiles, TLAPS

ReferenceType == [artifactId : Ids, cacheKey : Keys, expiresAt : Times]

InputType(input) ==
  /\ input.artifactId \in Ids /\ input.cacheKey \in Keys
  /\ input.producerJobId \in Ids \cup {Null}
  /\ input.createdAt \in Times /\ input.expiresAt \in Times
  /\ TranscriptAccepted(input.transcript)
  /\ input.transcript # Null /\ input.pdf # Null

DiskType(disk) ==
  /\ disk = Disk(disk.pointers, disk.artifacts, disk.quarantine)
  /\ disk.pointers = [k \in Keys |-> disk.pointers[k]]
  /\ disk.artifacts = [i \in Ids |-> disk.artifacts[i]]

\* A manifest that was written is no missing file.
Distinct(input) == ManifestOf(input) # Null /\ Reference(input) # Null

-----------------------------------------------------------------------------
(* Equal digests are digests of equal contents.                            *)
LEMMA DigestIdentifies ==
  ASSUME NEW a, NEW b, Metadata(a) = Metadata(b)
  PROVE  a = b
<1>1. Metadata(a).sha256 = a /\ Metadata(b).sha256 = b
  BY DEF Metadata
<1> QED BY <1>1

(* What publishBundle writes is accepted by parseManifest and parsePointer. *)
LEMMA WrittenIsAccepted ==
  ASSUME NEW input, InputType(input)
  PROVE  /\ ManifestAccepted(ManifestOf(input))
         /\ PointerAccepted(Reference(input))
<1>1. MetadataAccepted(Metadata(input.transcript)) /\ MetadataAccepted(Metadata(input.pdf))
  BY DEF MetadataAccepted, Metadata
<1>2. ManifestAccepted(ManifestOf(input))
  BY <1>1 DEF ManifestAccepted, ManifestOf, InputType
<1>3. PointerAccepted(Reference(input))
  BY DEF PointerAccepted, Reference, InputType
<1> QED BY <1>2, <1>3

LEMMA WrittenReads ==
  ASSUME NEW input, InputType(input), Distinct(input)
  PROVE  BundleReads(BundleOf(input), Reference(input))
<1>1. ManifestAccepted(ManifestOf(input))
  BY WrittenIsAccepted
<1>2. Describes(ManifestOf(input), Reference(input))
  BY DEF Describes, ManifestOf, Reference
<1>3. /\ Verified(input.transcript, ManifestOf(input).transcript)
      /\ Verified(input.pdf, ManifestOf(input).pdf)
  BY DEF Verified, ManifestOf, InputType
<1> QED BY <1>1, <1>2, <1>3 DEF BundleReads, TranscriptReads, BundleOf, Distinct, InputType

-----------------------------------------------------------------------------
(* What was published is found until it expires (publishBundle, find), and  *)
(* publishing it changes nothing of another key.                           *)
THEOREM PublishedIsFound ==
  ASSUME NEW disk, DiskType(disk), NEW input, InputType(input), Distinct(input),
         NEW now \in Times, now < input.expiresAt
  PROVE  LET after == Published(disk, input)
         IN /\ Find(after, input.cacheKey, now) = Result(BundleOf(input), after)
            /\ \A k \in Keys \ {input.cacheKey} : after.pointers[k] = disk.pointers[k]
<1> DEFINE after == Published(disk, input)
           key == input.cacheKey
<1>1. BundleReads(BundleOf(input), Reference(input))
  BY WrittenReads
<1>2. after = Disk([disk.pointers EXCEPT ![key] = Reference(input)],
                   [disk.artifacts EXCEPT ![input.artifactId] = BundleOf(input)],
                   disk.quarantine)
  BY <1>1 DEF Published
<1>3. /\ after.pointers[key] = Reference(input)
      /\ after.artifacts[input.artifactId] = BundleOf(input)
      /\ \A k \in Keys \ {key} : after.pointers[k] = disk.pointers[k]
  BY <1>2 DEF Disk, DiskType, InputType
<1>4. /\ PointerAccepted(Reference(input)) /\ Reference(input) # Null
      /\ Reference(input).cacheKey = key /\ Reference(input).artifactId = input.artifactId
      /\ Reference(input).expiresAt = input.expiresAt
      /\ Reference(Reference(input)) = Reference(input)
  BY WrittenIsAccepted DEF Reference, Distinct
<1>5. input.expiresAt > now /\ ~ (input.expiresAt <= now)
  BY DEF InputType, Times
<1>6. Find(after, key, now) = Result(BundleOf(input), after)
  <2> HIDE DEF after
  <2>1. BundleReads(after.artifacts[after.pointers[key].artifactId],
                    Reference(after.pointers[key]))
    BY <1>1, <1>3, <1>4
  <2> QED BY <2>1, <1>3, <1>4, <1>5 DEF Find
<1> QED BY <1>3, <1>6

(* If one file of a published bundle is lost or holds anything else, the    *)
(* lookup returns nothing or the very transcript and PDF that were          *)
(* published (#readBundle, #verifyBytes): two files would have to change.   *)
THEOREM OneBadFileIsNotServed ==
  ASSUME NEW input, NEW reference, NEW spoiled,
         \/ /\ spoiled.transcript = input.transcript /\ spoiled.pdf = input.pdf
         \/ spoiled.manifest = ManifestOf(input)
  PROVE  /\ BundleReads(spoiled, reference) =>
              spoiled.transcript = input.transcript /\ spoiled.pdf = input.pdf
         /\ TranscriptReads(spoiled, reference) => spoiled.transcript = input.transcript
<1>1. CASE spoiled.transcript = input.transcript /\ spoiled.pdf = input.pdf
  BY <1>1
<1>2. CASE spoiled.manifest = ManifestOf(input)
  <2>1. /\ spoiled.manifest.transcript = Metadata(input.transcript)
        /\ spoiled.manifest.pdf = Metadata(input.pdf)
    BY <1>2 DEF ManifestOf
  <2>2. TranscriptReads(spoiled, reference) => spoiled.transcript = input.transcript
    BY <2>1, DigestIdentifies DEF TranscriptReads, Verified
  <2>3. BundleReads(spoiled, reference) => spoiled.pdf = input.pdf
    BY <2>1, DigestIdentifies DEF BundleReads, Verified
  <2> QED BY <2>2, <2>3 DEF BundleReads
<1> QED BY <1>1, <1>2

(* A lookup is of one key (find): what it returns is a readable bundle of   *)
(* that key that has not expired, and the pointers of other keys stay.      *)
THEOREM FoundIsOfTheKey ==
  ASSUME NEW disk, DiskType(disk), NEW key \in Keys, NEW now \in Times
  PROVE  LET find == Find(disk, key, now)
         IN /\ find.value # Null =>
                 /\ find.disk = disk
                 /\ find.value.manifest.cacheKey = key
                 /\ find.value.manifest.expiresAt > now
            /\ \A k \in Keys \ {key} : find.disk.pointers[k] = disk.pointers[k]
<1> DEFINE pointer == disk.pointers[key]
           usable == PointerAccepted(pointer) /\ pointer.cacheKey = key
           bundle == disk.artifacts[pointer.artifactId]
           find == Find(disk, key, now)
<1>0. usable => pointer.expiresAt \in Int
  BY DEF PointerAccepted, Times
<1>1. CASE pointer = Null
  <2>1. find = Result(Null, disk)
    BY <1>1 DEF Find
  <2> QED BY <2>1 DEF Result
<1>2. CASE pointer # Null /\ ~ usable
  <2>1. find = Result(Null, PointerSetAside(disk, key))
    BY <1>2 DEF Find
  <2>2. PointerSetAside(disk, key).pointers = [disk.pointers EXCEPT ![key] = Null]
    BY DEF PointerSetAside, Disk
  <2>3. \A k \in Keys \ {key} : PointerSetAside(disk, key).pointers[k] = disk.pointers[k]
    BY <2>2 DEF DiskType
  <2> QED BY <2>1, <2>3 DEF Result
<1>3. CASE pointer # Null /\ usable /\ pointer.expiresAt <= now
  <2>1. find = Result(Null, Expired(disk, pointer))
    BY <1>3, <1>0 DEF Find, Times
  <2> QED BY <2>1, <1>3 DEF Result, Expired, Removed, Unpointed, Disk, DiskType
<1>4. CASE pointer # Null /\ usable /\ pointer.expiresAt > now
           /\ BundleReads(bundle, Reference(pointer))
  <2>1. find = Result(bundle, disk)
    BY <1>4, <1>0 DEF Find, Times
  <2>2. Describes(bundle.manifest, Reference(pointer))
    BY <1>4 DEF BundleReads, TranscriptReads
  <2>3. bundle.manifest.cacheKey = key /\ bundle.manifest.expiresAt = pointer.expiresAt
    BY <2>2, <1>4 DEF Describes, Reference
  <2> QED BY <2>1, <2>3, <1>4 DEF Result
<1>5. CASE pointer # Null /\ usable /\ pointer.expiresAt > now
           /\ ~ BundleReads(bundle, Reference(pointer))
  <2>1. find = Result(Null, SetAside(Unpointed(disk, key), pointer.artifactId))
    BY <1>5, <1>0 DEF Find, Times
  <2> QED BY <2>1 DEF Result, SetAside, Unpointed, Disk, DiskType
<1>6. usable => pointer.expiresAt <= now \/ pointer.expiresAt > now
  BY <1>0 DEF Times
<1> QED BY <1>1, <1>2, <1>3, <1>4, <1>5, <1>6

(* A lookup that found nothing has settled the key (find): the pointer is   *)
(* gone, so the next lookup finds nothing either and changes nothing.       *)
THEOREM MissIsSettled ==
  ASSUME NEW disk, DiskType(disk), NEW key \in Keys, NEW now \in Times, NEW later \in Times,
         Find(disk, key, now).value = Null,
         disk.artifacts[disk.pointers[key].artifactId] # Null
  PROVE  LET after == Find(disk, key, now).disk
         IN after.pointers[key] = Null /\ Find(after, key, later) = Result(Null, after)
<1> DEFINE pointer == disk.pointers[key]
           usable == PointerAccepted(pointer) /\ pointer.cacheKey = key
           bundle == disk.artifacts[pointer.artifactId]
           after == Find(disk, key, now).disk
<1>0. usable => pointer.expiresAt \in Int
  BY DEF PointerAccepted, Times
<1>1. after.pointers[key] = Null
  <2>1. CASE pointer = Null
    <3>1. Find(disk, key, now) = Result(Null, disk)
      BY <2>1 DEF Find
    <3> QED BY <3>1, <2>1 DEF Result
  <2>2. CASE pointer # Null /\ ~ usable
    <3>1. Find(disk, key, now) = Result(Null, PointerSetAside(disk, key))
      BY <2>2 DEF Find
    <3> QED BY <3>1 DEF Result, PointerSetAside, Disk, DiskType
  <2>3. CASE pointer # Null /\ usable /\ pointer.expiresAt <= now
    <3>1. Find(disk, key, now) = Result(Null, Expired(disk, pointer))
      BY <2>3, <1>0 DEF Find, Times
    <3> QED BY <3>1, <2>3 DEF Result, Expired, Removed, Unpointed, Disk, DiskType
  <2>4. CASE pointer # Null /\ usable /\ pointer.expiresAt > now
             /\ BundleReads(bundle, Reference(pointer))
    <3>1. Find(disk, key, now) = Result(bundle, disk)
      BY <2>4, <1>0 DEF Find, Times
    <3> QED BY <3>1 DEF Result
  <2>5. CASE pointer # Null /\ usable /\ pointer.expiresAt > now
             /\ ~ BundleReads(bundle, Reference(pointer))
    <3>1. Find(disk, key, now) = Result(Null, SetAside(Unpointed(disk, key), pointer.artifactId))
      BY <2>5, <1>0 DEF Find, Times
    <3> QED BY <3>1 DEF Result, SetAside, Unpointed, Disk, DiskType
  <2>6. usable => pointer.expiresAt <= now \/ pointer.expiresAt > now
    BY <1>0 DEF Times
  <2> QED BY <2>1, <2>2, <2>3, <2>4, <2>5, <2>6
<1>2. Find(after, key, later) = Result(Null, after)
  <2> HIDE DEF after
  <2> QED BY <1>1 DEF Find
<1> QED BY <1>1, <1>2

-----------------------------------------------------------------------------
(* A reader that finds an older bundle of a key corrupt leaves the pointer   *)
(* to a newer one (readForJob, withVerifiedTranscript, #removePointerIfOwned),*)
(* and every other directory.  The expiry of a bundle does not look at the   *)
(* pointer: that is the finding UnexpiredIsReused of DurableJobs.            *)
THEOREM NewerBundleIsKept ==
  ASSUME NEW disk, DiskType(disk), NEW reference \in ReferenceType, NEW key \in Keys,
         NEW id \in Ids, id # reference.artifactId,
         NEW after \in {ReadForJob(disk, reference).disk,
                        ReadVerifiedTranscript(disk, reference).disk}
  PROVE  /\ disk.pointers[key] # Null /\ disk.pointers[key].artifactId = id =>
              after.pointers[key] = disk.pointers[key]
         /\ after.artifacts[id] = disk.artifacts[id]
<1>1. after \in {disk, Corrupted(disk, reference)}
  BY DEF ReadForJob, ReadVerifiedTranscript, Result
<1>2. Disowned(disk, reference) \in {disk, Unpointed(disk, reference.cacheKey)}
  BY DEF Disowned
<1>3. after.artifacts[id] = disk.artifacts[id]
  BY <1>1, <1>2 DEF Corrupted, SetAside, Unpointed, Disk, DiskType, ReferenceType
<1>4. ASSUME disk.pointers[key] # Null, disk.pointers[key].artifactId = id
      PROVE  after.pointers[key] = disk.pointers[key]
  <2>1. CASE key # reference.cacheKey
    <3>1. Disowned(disk, reference).pointers[key] = disk.pointers[key]
      BY <1>2, <2>1 DEF Unpointed, Disk, DiskType, ReferenceType
    <3> QED BY <1>1, <3>1 DEF Corrupted, SetAside, Disk
  <2>2. CASE key = reference.cacheKey
    <3>1. Disowned(disk, reference) = disk
      BY <1>4, <2>2 DEF Disowned, Owns
    <3> QED BY <1>1, <3>1 DEF Corrupted, SetAside, Disk
  <2> QED BY <2>1, <2>2
<1> QED BY <1>3, <1>4

(* The transcript an ingestion reads is that of the bundle a client of the   *)
(* job would download (withVerifiedTranscript, readForJob).                  *)
THEOREM OneTranscriptForAllReaders ==
  ASSUME NEW disk, NEW reference, ReadForJob(disk, reference).value # Null,
         disk.artifacts[reference.artifactId].transcript # Null
  PROVE  ReadVerifiedTranscript(disk, reference)
           = Result(ReadForJob(disk, reference).value.transcript, disk)
<1> DEFINE bundle == disk.artifacts[reference.artifactId]
<1>1. BundleReads(bundle, reference) /\ ReadForJob(disk, reference) = Result(bundle, disk)
  BY DEF ReadForJob, Result
<1>2. TranscriptReads(bundle, reference)
  BY <1>1 DEF BundleReads
<1> QED BY <1>1, <1>2 DEF ReadVerifiedTranscript, Result

(* A save that did not finish is not served (saveWorkTranscript writes the   *)
(* transcript and then the manifest, recoverWorkTranscript verifies them): a  *)
(* crash between the two writes, over nothing or over an earlier save, makes  *)
(* recovery return nothing, and what would never verify is put away.         *)
THEOREM UnfinishedSaveIsNotServed ==
  ASSUME NEW job \in Ids, NEW old, NEW new, old # new,
         WorkSaved(job, old).manifest # Null
  PROVE  /\ Recovered(TranscriptSaved(NoWork, new), job) = Null
         /\ Recovered(TranscriptSaved(WorkSaved(job, old), new), job) = Null
         /\ new # Null =>
              AfterRecovery(TranscriptSaved(WorkSaved(job, old), new), job) = NoWork
<1> DEFINE torn == TranscriptSaved(WorkSaved(job, old), new)
<1>1. Recovered(TranscriptSaved(NoWork, new), job) = Null
  BY DEF Recovered, TranscriptSaved, NoWork
<1>2. torn.manifest = [jobId |-> job, transcript |-> Metadata(old)] /\ torn.transcript = new
  BY DEF TranscriptSaved, WorkSaved
<1>3. ~ WorkReads(torn, job)
  BY <1>2, DigestIdentifies DEF WorkReads, Verified
<1>4. torn.manifest # Null
  BY DEF TranscriptSaved, WorkSaved
<1> QED BY <1>1, <1>2, <1>3, <1>4 DEF Recovered, AfterRecovery

(* A save that finished is recovered, whatever was there before it.          *)
THEOREM SavedIsRecovered ==
  ASSUME NEW job \in Ids, NEW transcript, TranscriptAccepted(transcript), transcript # Null,
         WorkSaved(job, transcript).manifest # Null
  PROVE  LET work == WorkSaved(job, transcript)
         IN Recovered(work, job) = transcript /\ AfterRecovery(work, job) = work
<1>1. WorkManifestAccepted(WorkSaved(job, transcript).manifest)
  BY DEF WorkManifestAccepted, WorkSaved, MetadataAccepted, Metadata
<1>2. WorkReads(WorkSaved(job, transcript), job)
  BY <1>1 DEF WorkReads, WorkSaved, Verified
<1>3. WorkSaved(job, transcript).transcript = transcript
      /\ WorkSaved(job, transcript).manifest.jobId = job
  BY DEF WorkSaved
<1> QED BY <1>1, <1>2, <1>3 DEF Recovered, AfterRecovery
=============================================================================
