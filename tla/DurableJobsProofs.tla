------------------------- MODULE DurableJobsProofs -------------------------
(* Theorems about DurableJobs, for every number of keys, jobs and bundles,   *)
(* of failures and of crashes.                                               *)
EXTENDS DurableJobs, FiniteSetTheorems, TLAPS

(* The facts about the constants that the proofs use.                        *)
LEMMA ConstantTypes ==
    /\ NoKey \notin Keys
    /\ MaxJobs \in Nat /\ MaxBundles \in Nat
    /\ ArtifactTtl \in Nat \ {0} /\ FailedTtl \in Nat \ {0} /\ TombstoneTtl \in Nat \ {0}
  BY ConstantsAssumption DEF ConstantsAssumption

(* The constant records have their types.                                    *)
LEMMA RecordTypes ==
    /\ NoJob \in JobRecord /\ NoBundle \in BundleRecord
    /\ At("off") \in WorkerState /\ NoSubmission \in Submission
  BY DEF Job, NoJob, Bundle, Submitting, Holding, At, NoBundle, NoSubmission,
         JobRecord, BundleRecord, WorkerState, Submission

(* The records that the code writes have their types.                        *)
LEMMA NewRecordTypes ==
    ASSUME NEW k \in Keys \cup {NoKey}, NEW r \in JobRecord, NEW a \in BundleIds \cup {0},
           NEW e \in Nat, NEW p \in JobIds \cup {0}, now \in Nat
    PROVE  /\ Queued(k) \in JobRecord /\ CompletedHit(k, a, e) \in JobRecord
           /\ Started(r) \in JobRecord /\ Completed(r, a, e) \in JobRecord
           /\ Failed(r) \in JobRecord
           /\ NewBundle(k, p) \in BundleRecord
  <1>1. Queued(k) \in JobRecord
    BY DEF Job, NoJob, JobRecord, Queued, Active
  <1>2. CompletedHit(k, a, e) \in JobRecord
    BY DEF Job, NoJob, JobRecord, CompletedHit, Terminal
  <1>3. Started(r) \in JobRecord
    BY DEF Job, JobRecord, Started, Active
  <1>4. Completed(r, a, e) \in JobRecord
    BY DEF Job, JobRecord, Completed, Terminal
  <1>5. Failed(r) \in JobRecord
    BY ConstantTypes DEF Job, JobRecord, Failed, Terminal
  <1>6. NewBundle(k, p) \in BundleRecord
    BY ConstantTypes DEF Bundle, NewBundle, BundleRecord
  <1> QED BY <1>1, <1>2, <1>3, <1>4, <1>5, <1>6

(* What the writes on the volume do to the types of what they touch.         *)
RepoTyped  == /\ jobs \in [JobIds -> JobRecord] /\ dJobs \in [JobIds -> JobRecord]
              /\ tombs \in [JobIds -> Nat] /\ dTombs \in [JobIds -> Nat]
              /\ faults \in Nat
StoreTyped == /\ bundles \in [BundleIds -> BundleRecord]
              /\ ptr \in [Keys -> BundleIds \cup {0}]
              /\ faults \in Nat

(* Writing a job file, whether or not it fails.                              *)
LEMMA PutTyped ==
    ASSUME RepoTyped, NEW j, NEW r \in JobRecord, PutJob(j, r) \/ PutJobFails(j, r)
    PROVE  RepoTyped'
  BY DEF RepoTyped, PutJob, PutJobFails, Fault

(* Publishing a bundle and its pointer.                                      *)
LEMMA PublishTyped ==
    ASSUME StoreTyped, NEW k \in Keys \cup {NoKey}, NEW p \in JobIds \cup {0}, now \in Nat,
           nextBundle \in BundleIds,
           PublishBundle(k, p) \/ PublishFails(k, p)
    PROVE  StoreTyped' /\ nextBundle' = nextBundle + 1
  <1>1. NewBundle(k, p) \in BundleRecord
    BY NewRecordTypes, RecordTypes
  <1>2. CASE PublishBundle(k, p)
    BY <1>1, <1>2 DEF StoreTyped, PublishBundle
  <1>3. CASE PublishFails(k, p)
    BY <1>1, <1>3 DEF StoreTyped, PublishFails, Fault
  <1> QED BY <1>2, <1>3

(* Removing a bundle and its pointer.                                        *)
LEMMA RemovalTyped ==
    ASSUME StoreTyped, NEW k, NEW a,
           \/ ExpireBundle(k, a) \/ ExpireFails(k, a)
           \/ InvalidateBundle(k, a) \/ InvalidateFails(k, a)
    PROVE  StoreTyped'
  <1>1. NoBundle \in BundleRecord
    BY RecordTypes
  <1>2. CASE ExpireBundle(k, a)
    BY <1>1, <1>2 DEF StoreTyped, ExpireBundle
  <1>3. CASE ExpireFails(k, a)
    BY <1>1, <1>3 DEF StoreTyped, ExpireFails, Fault
  <1>4. CASE InvalidateBundle(k, a)
    BY <1>1, <1>4 DEF StoreTyped, InvalidateBundle, Unpointed
  <1>5. CASE InvalidateFails(k, a)
    BY <1>1, <1>5 DEF StoreTyped, InvalidateFails, Unpointed, Fault
  <1> QED BY <1>2, <1>3, <1>4, <1>5

(* Looking a key up, which may expire what it finds.                         *)
LEMMA FindTyped ==
    ASSUME StoreTyped, NEW k, Find(k) \/ FindFails(k)
    PROVE  StoreTyped'
  <1>1. CASE PointerExpired(k)
    BY <1>1, RemovalTyped DEF Find, FindFails
  <1>2. CASE ~PointerExpired(k)
    BY <1>2 DEF Find, FindFails, StoreTyped, Fault
  <1> QED BY <1>1, <1>2

(* The result of a lookup is a bundle id or 0.                               *)
LEMMA FoundTyped ==
    ASSUME StoreTyped, NEW k \in Keys
    PROVE  Found(k) \in BundleIds \cup {0}
  BY DEF Found, StoreTyped

(* Replacing a job file by a tombstone.                                      *)
LEMMA ExpireJobTyped ==
    ASSUME RepoTyped, NEW j \in JobIds, ExpireJob(j)
    PROVE  RepoTyped'
  <1>1. NoJob \in JobRecord /\ jobs[j].expires + TombstoneTtl \in Nat
    BY RecordTypes, ConstantTypes DEF RepoTyped, JobRecord
  <1> QED BY <1>1 DEF RepoTyped, ExpireJob, TombExpiry, Fault

(* A crash between two writes takes the process down and leaves the records  *)
(* and the tombstones in memory, for what clients saw last.                  *)
LEMMA CrashFrame ==
    ASSUME CrashInside
    PROVE  /\ phase # "down" /\ Down /\ crashes' = crashes + 1
           /\ UNCHANGED <<now, work, jobs, tombs, dJobs, nextJob, called, faults>>
           /\ UNCHANGED <<bundles, ptr>> \/ UNCHANGED repo
  BY DEF CrashInside, CrashInPublication, CrashInRemoval, CrashInExpiry, Dies, DirectoryOnly,
         store, repo

(* A crash inside a publication or a removal keeps the types.                *)
LEMMA CrashTyped ==
    ASSUME TypeOK, StepsAgree, CrashInside
    PROVE  /\ StoreTyped' /\ dTombs' \in [JobIds -> Nat]
           /\ nextBundle' \in Nat \ {0}
  <1> USE DEF TypeOK, StoreTyped
  <1>1. CASE CrashInPublication
    <2>1. PICK k \in Keys \cup {NoKey}, p \in JobIds \cup {0} : DirectoryOnly(k, p)
      BY <1>1 DEF CrashInPublication, StepsAgree, WorkerCurrent, JobRecord
    <2>2. NewBundle(k, p) \in BundleRecord
      BY RecordTypes, NewRecordTypes
    <2> QED BY <1>1, <2>1, <2>2 DEF CrashInPublication, DirectoryOnly, repo
  <1>2. CASE CrashInRemoval
    BY <1>2 DEF CrashInRemoval, repo
  <1>3. CASE CrashInExpiry
    <2>1. \A j \in JobIds : TombExpiry(j) \in Nat
      BY ConstantTypes DEF TombExpiry, JobRecord
    <2> QED BY <1>3, <2>1 DEF CrashInExpiry, store
  <1> QED BY <1>1, <1>2, <1>3 DEF CrashInside

(* Some of the repairs of a start have been written.                         *)
LEMMA RepairFrame ==
    ASSUME TypeOK, RepairCut
    PROVE  /\ UNCHANGED <<now, phase, store, jobs, tombs, dTombs, nextJob, procs, nextBundle,
                          called>>
           /\ {faults', crashes'} \subseteq Nat
           /\ faults' >= faults
           /\ \A j \in JobIds :
                \/ dJobs'[j] = dJobs[j]
                \/ /\ j \in Duplicates /\ dTombs[j] = 0 /\ dJobs[j].status \in Active
                   /\ dJobs'[j] = Failed(dJobs[j])
           /\ DOMAIN dJobs' = JobIds /\ dJobs' = [j \in JobIds |-> dJobs'[j]]
           /\ dJobs' # dJobs => Duplicates # {}
  <1>1. /\ UNCHANGED <<now, phase, store, jobs, tombs, dTombs, nextJob, procs, nextBundle,
                       called>>
        /\ {faults', crashes'} \subseteq Nat /\ faults' >= faults
    BY DEF RepairCut, Fault, TypeOK
  <1>2. PICK S \in SUBSET Duplicates :
            dJobs' = [j \in JobIds |-> IF j \in S THEN Repaired[j] ELSE dJobs[j]]
    BY DEF RepairCut
  <1>3. \A j \in Duplicates : /\ j \in JobIds /\ Repaired[j] = Failed(dJobs[j])
                              /\ dTombs[j] = 0 /\ dJobs[j].status \in Active
    BY DEF Repaired, Loaded, Duplicates, ActiveIds, Active, NoJob, Job
  <1>4. S = {} => dJobs' = dJobs
    BY <1>2 DEF TypeOK
  <1> QED BY <1>1, <1>2, <1>3, <1>4

(* A job that such a repair has failed is a job still.                       *)
LEMMA RepairTyped ==
    ASSUME TypeOK, RepairCut
    PROVE  dJobs' \in [JobIds -> JobRecord]
  <1>1. ASSUME NEW j \in JobIds PROVE dJobs'[j] \in JobRecord
    <2>1. dJobs[j] \in JobRecord /\ now \in Nat
      BY DEF TypeOK
    <2>2. CASE dJobs'[j] = Failed(dJobs[j])
      BY <2>1, <2>2, ConstantTypes DEF Failed, Job, JobRecord, Terminal
    <2>3. CASE dJobs'[j] = dJobs[j]
      BY <2>1, <2>3
    <2> QED BY <2>2, <2>3, RepairFrame
  <1>2. dJobs' = [j \in JobIds |-> dJobs'[j]]
    BY RepairFrame
  <1> QED BY <1>1, <1>2

(* The first start finds an empty volume of the right types.                 *)
LEMMA TypeInit == Init => TypeOK
  BY ConstantTypes, RecordTypes DEF Init, TypeOK

(* Every step keeps the types; it relies on what its actor read before it.   *)
LEMMA TypeStep ==
    ASSUME TypeOK, StepsAgree, [Next]_vars
    PROVE  TypeOK'
  <1> USE DEF TypeOK, store, repo, procs
  <1>a. /\ RepoTyped /\ StoreTyped
    BY DEF RepoTyped, StoreTyped
  <1>b. /\ \A pc \in {"off", "recover", "idle", "waiting"} : At(pc) \in WorkerState
        /\ NoSubmission \in Submission
        /\ NoJob \in JobRecord
    BY RecordTypes DEF At, Holding, WorkerState
  <1>c. ASSUME NEW pc \in {"permit", "permitted", "provider", "render", "publish", "complete",
                           "invalidate", "cleanup", "failclean", "failwrite"}, StepTo(pc)
        PROVE  worker' \in WorkerState /\ UNCHANGED <<phase, recover>>
    BY <1>c DEF StepTo, WorkerState
  <1>d. /\ Done \in WorkerState /\ Notified \in WorkerState
    BY <1>b DEF Done, Notified, WorkerState
  <1>1. CASE UNCHANGED vars
    BY <1>1 DEF vars
  <1>2. CASE Initialize
    BY <1>2, <1>b, NewRecordTypes DEF Initialize, Repaired, Loaded
  <1>3. CASE Stop
    BY <1>3 DEF Stop
  <1>4. CASE Exit
    BY <1>4, <1>b DEF Exit, Down
  <1>5. CASE Crash
    BY <1>5, <1>b DEF Crash, Dies, Down
  <1>6. CASE Tick
    BY <1>6 DEF Tick
  <1>7. CASE RecoverDone
    BY <1>7, <1>b DEF RecoverDone
  <1>8. CASE PickCandidate
    <2>1. worker' \in WorkerState
      BY <1>8, <1>b DEF PickCandidate, Holding, WorkerState, JobRecord, Oldest, QueuedIds
    <2> QED BY <1>8, <2>1 DEF PickCandidate
  <1>9. CASE GetPermit
    BY <1>9 DEF GetPermit, WorkerState
  <1>10. CASE WorkerExit
    BY <1>10, <1>b DEF WorkerExit
  <1>11. ASSUME NEW j \in JobIds, RecoverFind(j) PROVE TypeOK'
    <2>1. jobs[j].key \in Keys /\ jobs[j].rev \in Nat
      BY <1>11 DEF RecoverFind, Oldest, StepsAgree, RecoveryCurrent, RecordsWhole, Whole,
                   NoJob, Job, JobRecord
    <2>2. Found(jobs[j].key) \in BundleIds \cup {0}
      BY <2>1, <1>a, FoundTyped
    <2>3. Recovered(j, Found(jobs[j].key)) \in WorkerState
      BY <2>1, <2>2 DEF Recovered, Holding, WorkerState, BundleRecord
    <2>4. StoreTyped'
      BY <1>11, <1>a, FindTyped DEF RecoverFind
    <2> QED BY <1>11, <1>b, <2>3, <2>4 DEF RecoverFind, StoreTyped
  <1>12. CASE Claim
    <2>1. worker.job \in JobIds /\ jobs[worker.job] \in JobRecord
      BY <1>12 DEF Claim, StepsAgree, WorkerCurrent
    <2>2. Started(jobs[worker.job]) \in JobRecord
      BY <2>1, NewRecordTypes
    <2>3. RepoTyped'
      BY <1>12, <1>a, <2>2, PutTyped DEF Claim
    <2>4. worker' \in WorkerState /\ called' \subseteq JobIds
      BY <1>12, <1>b, <2>1, <2>2 DEF Claim, Holding, WorkerState, JobRecord
    <2> QED BY <1>12, <2>3, <2>4 DEF Claim, RepoTyped
  <1>13. CASE Transcribe
    <2>1. worker' \in WorkerState /\ UNCHANGED <<phase, recover>>
      BY <1>13, <1>c DEF Transcribe
    <2>2. work' \subseteq JobIds /\ faults' \in Nat
      BY <1>13 DEF Transcribe, Fault, StepsAgree, WorkerCurrent
    <2> QED BY <1>13, <2>1, <2>2 DEF Transcribe
  <1>14. CASE Render
    BY <1>14, <1>c DEF Render
  <1>15. CASE Publish
    <2>1. worker.job \in JobIds /\ nextBundle \in BundleIds
          /\ jobs[worker.job].key \in Keys \cup {NoKey}
      BY <1>15 DEF Publish, StepsAgree, WorkerCurrent, JobRecord
    <2>2. StoreTyped' /\ nextBundle' = nextBundle + 1
      BY <1>15, <1>a, <2>1, PublishTyped DEF Publish
    <2>3. worker' \in WorkerState
      BY <1>15, <1>b, <1>c, <2>1, ConstantTypes DEF Publish, Throw, Holding, WorkerState
    <2>4. phase' \in {"down", phase} /\ recover' \subseteq JobIds
      BY <1>15, <1>c DEF Publish, Throw
    <2> QED BY <1>15, <2>2, <2>3, <2>4 DEF Publish, StoreTyped
  <1>16. CASE Complete
    <2>1. Completed(jobs[worker.job], worker.art, worker.expires) \in JobRecord
      BY <1>16, NewRecordTypes DEF Complete, StepsAgree, WorkerCurrent, WorkerState
    <2>2. RepoTyped'
      BY <1>16, <1>a, <2>1, PutTyped DEF Complete
    <2> QED BY <1>16, <1>c, <2>2 DEF Complete, RepoTyped
  <1>17. CASE Invalidate
    <2>1. StoreTyped'
      BY <1>17, <1>a, RemovalTyped DEF Invalidate
    <2>2. worker' \in WorkerState /\ phase' \in {"down", phase} /\ recover' \subseteq JobIds
      BY <1>17, <1>b, <1>c DEF Invalidate, Throw
    <2> QED BY <1>17, <2>1, <2>2 DEF Invalidate, StoreTyped
  <1>18. CASE Cleanup
    <2>1. worker' \in WorkerState /\ phase' \in {"down", phase} /\ recover' \subseteq JobIds
      BY <1>18, <1>b, <1>c, <1>d DEF Cleanup, Throw, Continue
    <2> QED BY <1>18, <2>1 DEF Cleanup, Fault
  <1>19. CASE FailClean
    <2>1. worker' \in WorkerState /\ phase' \in {"down", phase} /\ recover' \subseteq JobIds
      BY <1>19, <1>b, <1>c, <1>d DEF FailClean, Throw, Continue
    <2> QED BY <1>19, <2>1 DEF FailClean, Fault
  <1>20. CASE FailWrite
    <2>1. Failed(jobs[worker.job]) \in JobRecord
      BY <1>20, NewRecordTypes DEF FailWrite, StepsAgree, WorkerCurrent
    <2>2. RepoTyped'
      BY <1>20, <1>a, <2>1, PutTyped DEF FailWrite, RepoTyped
    <2>3. worker' \in WorkerState /\ phase' \in {"down", phase} /\ recover' \subseteq JobIds
      BY <1>20, <1>b, <1>d DEF FailWrite, Throw, Continue
    <2> QED BY <1>20, <2>2, <2>3 DEF FailWrite, RepoTyped
  <1>21. ASSUME NEW k \in Keys, SubmitBegin(k) PROVE TypeOK'
    BY <1>21, RecordTypes DEF SubmitBegin, Submitting, Submission
  <1>22. CASE SubmitFind
    <2>1. sub.key \in Keys
      BY <1>22 DEF SubmitFind, StepsAgree, SubmissionCurrent
    <2>2. Found(sub.key) \in BundleIds \cup {0}
      BY <2>1, <1>a, FoundTyped
    <2>3. StoreTyped'
      BY <1>22, <1>a, FindTyped DEF SubmitFind
    <2>4. sub' \in Submission
      BY <1>22, <1>b, <2>1, <2>2 DEF SubmitFind, Submitting, Submission
    <2> QED BY <1>22, <2>3, <2>4 DEF SubmitFind, StoreTyped
  <1>23. CASE SubmitRetained
    BY <1>23, <1>b DEF SubmitRetained, Submission
  <1>24. CASE SubmitMiss
    <2>1. Queued(sub.key) \in JobRecord
      BY NewRecordTypes DEF Submission, Queued, Job, JobRecord, Active
    <2>2. RepoTyped' /\ nextJob' = nextJob + 1
      BY <1>24, <1>a, <2>1, PutTyped DEF SubmitMiss, CreateJob, CreateFails
    <2> QED BY <1>24, <1>b, <1>d, <2>2 DEF SubmitMiss, RepoTyped
  <1>25. CASE SubmitRejected
    BY <1>25, <1>b DEF SubmitRejected
  <1>26. CASE SubmitHit
    <2>1. CompletedHit(sub.key, sub.art, sub.bundle.expires) \in JobRecord
      BY DEF Submission, BundleRecord, CompletedHit, Job, JobRecord, Terminal
    <2>2. RepoTyped' /\ nextJob' = nextJob + 1
      BY <1>26, <1>a, <2>1, PutTyped DEF SubmitHit, CreateJob, CreateFails
    <2> QED BY <1>26, <1>b, <2>2 DEF SubmitHit, RepoTyped
  <1>27. ASSUME NEW k \in SyncKeys, SyncFind(k) PROVE TypeOK'
    <2>1. StoreTyped'
      BY <1>27, <1>a, FindTyped DEF SyncFind
    <2> QED BY <1>27, <2>1, ConstantsAssumption DEF SyncFind, StoreTyped, ConstantsAssumption
  <1>28. CASE SyncPublish
    <2>1. StoreTyped' /\ nextBundle' = nextBundle + 1
      BY <1>28, <1>a, PublishTyped DEF SyncPublish
    <2> QED BY <1>28, <2>1 DEF SyncPublish, StoreTyped
  <1>29. CASE SyncAbort
    BY <1>29 DEF SyncAbort
  <1>30. ASSUME NEW j \in JobIds, SweepBundle(j) PROVE TypeOK'
    <2>1. StoreTyped'
      BY <1>30, <1>a, RemovalTyped DEF SweepBundle
    <2> QED BY <1>30, <2>1 DEF SweepBundle, StoreTyped
  <1>31. CASE SweepCompleted
    <2>1. RepoTyped'
      BY <1>31, <1>a, ExpireJobTyped DEF SweepCompleted
    <2> QED BY <1>31, <2>1 DEF SweepCompleted, RepoTyped
  <1>32. ASSUME NEW j \in JobIds, SweepFailed(j) PROVE TypeOK'
    <2>1. RepoTyped'
      BY <1>32, <1>a, ExpireJobTyped DEF SweepFailed
    <2> QED BY <1>32, <2>1 DEF SweepFailed, RepoTyped
  <1>33. ASSUME NEW j \in JobIds, SweepTombstone(j) PROVE TypeOK'
    BY <1>33 DEF SweepTombstone
  <1>34. CASE CrashInside
    BY <1>34, <1>b, CrashFrame, CrashTyped DEF Down, StoreTyped
  <1>35. CASE RepairCut
    <2>1. dJobs' \in [JobIds -> JobRecord]
      BY <1>35, RepairTyped
    <2> QED BY <1>35, <2>1, RepairFrame
  <1>36. CASE SubmitAdmit
    BY <1>36 DEF SubmitAdmit, Submission
  <1> QED
    BY <1>1, <1>2, <1>3, <1>4, <1>5, <1>6, <1>7, <1>8, <1>9, <1>10, <1>11, <1>12, <1>13,
       <1>14, <1>15, <1>16, <1>17, <1>18, <1>19, <1>20, <1>21, <1>22, <1>23, <1>24, <1>25,
       <1>26, <1>27, <1>28, <1>29, <1>30, <1>31, <1>32, <1>33, <1>34, <1>35, <1>36
       DEF Next, WorkerStep, Recovery, SubmitStep, SweepStart

----------------------------------------------------------------------------
(* The repository: whole records, and tombstones apart from records.          *)

(* The steps that change the job repository.                                 *)
RepoChanges ==
    \/ Initialize \/ Claim \/ Complete \/ FailWrite \/ SubmitMiss \/ SubmitHit
    \/ SweepCompleted \/ RepairCut \/ CrashInExpiry
    \/ \E j \in JobIds : SweepFailed(j) \/ SweepTombstone(j)

(* No other step changes it.                                                 *)
LEMMA RepoFrame ==
    ASSUME [Next]_vars
    PROVE  UNCHANGED repo \/ RepoChanges
  BY DEF Next, WorkerStep, Recovery, SubmitStep, SweepStart, RepoChanges, vars, Stop,
         Exit, Crash, Tick, RecoverFind, RecoverDone, PickCandidate, GetPermit, WorkerExit,
         Transcribe, Render, Publish, Invalidate, Cleanup, FailClean, SubmitBegin,
         SubmitFind, SubmitRetained, SubmitAdmit, SubmitRejected, SyncFind, SyncPublish,
         SyncAbort, SweepBundle, CrashInside, CrashInPublication, CrashInRemoval

(* The clock only advances, and not in a step that changes the repository.   *)
LEMMA ClockFrame ==
    ASSUME TypeOK, [Next]_vars
    PROVE  now' \in Nat /\ now <= now' /\ (now' # now => UNCHANGED repo)
  BY CrashFrame
     DEF TypeOK, Next, WorkerStep, Recovery, SubmitStep, SweepStart, RepoChanges, RepairCut,
         vars, Initialize, Stop, Exit, Crash, Tick, RecoverFind, RecoverDone, PickCandidate,
         GetPermit, WorkerExit, Transcribe, Render, Publish, Invalidate, Cleanup, FailClean,
         SubmitBegin, SubmitFind, SubmitRetained, SubmitRejected, SyncFind, SyncPublish,
         SubmitAdmit, SyncAbort, SweepBundle, Claim, Complete, FailWrite, SubmitMiss, SubmitHit,
         SweepFailed, SweepTombstone, SweepCompleted

(* One record written, one job expired.                                      *)
LEMMA PutWhole ==
    ASSUME TypeOK, RecordsWhole, NEW j \in JobIds, NEW r, r.status # "absent", r.key \in Keys,
           nextJob' \in {nextJob, nextJob + 1}, j < nextJob',
           PutJob(j, r) \/ PutJobFails(j, r)
    PROVE  RecordsWhole'
  <1>1. Whole(j, r)'
    BY DEF Whole, NoJob, Job
  <1>2. \A i \in JobIds : \A q : Whole(i, q) => Whole(i, q)'
    BY DEF TypeOK, Whole, JobIds
  <1>3. /\ jobs' \in {jobs, [jobs EXCEPT ![j] = r]}
        /\ dJobs' \in {dJobs, [dJobs EXCEPT ![j] = r]}
    BY DEF PutJob, PutJobFails
  <1>4. ASSUME NEW i \in JobIds
        PROVE  Whole(i, jobs[i])' /\ Whole(i, dJobs[i])'
    BY <1>1, <1>2, <1>3 DEF TypeOK, RecordsWhole
  <1> QED BY <1>4 DEF RecordsWhole

(* Writing the record of a job without a tombstone keeps them apart.         *)
LEMMA PutApart ==
    ASSUME TypeOK, TombstonesApart, NEW j \in JobIds, NEW r, dTombs[j] = 0,
           nextJob' \in {nextJob, nextJob + 1}, now' = now,
           PutJob(j, r) \/ PutJobFails(j, r)
    PROVE  TombstonesApart'
  <1>1. jobs' = jobs \/ jobs' = [jobs EXCEPT ![j] = r]
    BY DEF PutJob, PutJobFails
  <1>2. tombs[j] = 0
    BY DEF TombstonesApart
  <1>3. tombs' = tombs /\ dTombs' = dTombs
    BY DEF PutJob, PutJobFails
  <1>4. ASSUME NEW i \in JobIds, i # j
        PROVE  jobs'[i] = jobs[i]
    BY <1>1, <1>4 DEF TypeOK
  <1>5. \A i \in JobIds : i < nextJob => i < nextJob'
    BY DEF TypeOK, JobIds
  <1> QED BY <1>2, <1>3, <1>4, <1>5 DEF TombstonesApart, Expired

(* The volume has no tombstone of an active job.                             *)
LEMMA ActiveNotTombstoned ==
    ASSUME TombstonesApart, NEW j \in JobIds, jobs[j].status \in Active
    PROVE  dTombs[j] = 0
  BY DEF TombstonesApart, Active, Terminal, NoJob, Job

(* Expiring a job keeps the records whole.                                   *)
LEMMA ExpireWhole ==
    ASSUME TypeOK, RecordsWhole, NEW j \in JobIds, ExpireJob(j), UNCHANGED nextJob
    PROVE  RecordsWhole'
  BY DEF TypeOK, RecordsWhole, Whole, ExpireJob

(* Expiring a job that is over and past its time keeps them apart.           *)
LEMMA ExpireApart ==
    ASSUME TypeOK, RecordsWhole, TombstonesApart, NEW j \in JobIds, ExpireJob(j),
           jobs[j].status \in Terminal, Expired(jobs[j].expires), UNCHANGED <<now, nextJob>>
    PROVE  TombstonesApart'
  <1>1. jobs[j] # NoJob /\ j < nextJob /\ tombs[j] = 0
    BY DEF RecordsWhole, Whole, TombstonesApart, NoJob, Job, Terminal
  <1>2. CASE jobs' = [jobs EXCEPT ![j] = NoJob]
             /\ tombs' = [tombs EXCEPT ![j] = jobs[j].expires + TombstoneTtl]
             /\ dTombs' = [dTombs EXCEPT ![j] = jobs[j].expires + TombstoneTtl]
    BY <1>1, <1>2 DEF TypeOK, TombstonesApart, Expired
  <1>3. CASE UNCHANGED <<jobs, tombs>>
             /\ dTombs' \in {dTombs, [dTombs EXCEPT ![j] = jobs[j].expires + TombstoneTtl]}
    BY <1>1, <1>3 DEF TypeOK, TombstonesApart, Expired
  <1> QED BY <1>2, <1>3 DEF ExpireJob, TombExpiry

(* What a start makes of the records it finds on the volume.                 *)
LEMMA InitializeRecords ==
    ASSUME TypeOK, RecordsWhole, TombstonesApart, Initialize
    PROVE  /\ RecordsWhole' /\ TombstonesApart'
           /\ \A j \in JobIds \ Duplicates : jobs'[j] = Loaded[j] /\ dJobs'[j] = dJobs[j]
           /\ \A j \in Duplicates : /\ jobs'[j] = Failed(dJobs[j]) /\ dJobs'[j] = jobs'[j]
                                    /\ dTombs[j] = 0 /\ dJobs[j].status \in Active
  <1>1. \A j \in JobIds \ Duplicates : jobs'[j] = Loaded[j] /\ dJobs'[j] = dJobs[j]
    BY DEF Initialize, Repaired, Loaded, TypeOK
  <1>2. \A j \in Duplicates : /\ jobs'[j] = Failed(dJobs[j]) /\ dJobs'[j] = jobs'[j]
                              /\ dTombs[j] = 0 /\ j \in JobIds /\ dJobs[j] # NoJob
                              /\ dJobs[j].status \in Active
    BY DEF Initialize, Repaired, Loaded, TypeOK, Duplicates, ActiveIds, Active, NoJob, Job
  <1>3. UNCHANGED <<nextJob, now, dTombs>> /\ tombs' = dTombs
    BY DEF Initialize
  <1>4. ASSUME NEW j \in JobIds
        PROVE  Whole(j, jobs[j])' /\ Whole(j, dJobs[j])'
    <2>1. CASE j \in Duplicates
      <3>1. Whole(j, dJobs[j]) /\ dJobs[j] # NoJob
        BY <1>2, <2>1 DEF RecordsWhole
      <3>2. Whole(j, Failed(dJobs[j]))
        BY <3>1 DEF Whole, Failed, Job
      <3> QED BY <1>2, <1>3, <2>1, <3>2 DEF Whole
    <2>2. CASE j \notin Duplicates
      BY <1>1, <1>3, <2>2 DEF RecordsWhole, Whole, Loaded
    <2> QED BY <2>1, <2>2
  <1>5. \A j \in JobIds : dTombs[j] # 0 => jobs'[j] = NoJob
    BY <1>2 DEF Initialize, Repaired, Loaded
  <1>6. TombstonesApart'
    BY <1>3, <1>5 DEF TombstonesApart
  <1>7. RecordsWhole'
    BY <1>4 DEF RecordsWhole
  <1> QED BY <1>1, <1>2, <1>6, <1>7

(* Every step keeps the records whole and the tombstones apart.              *)
LEMMA RepositoryStep ==
    ASSUME TypeOK, StepsAgree, [Next]_vars
    PROVE  RecordsWhole' /\ TombstonesApart'
  <1> USE DEF StepsAgree
  <1>n. nextJob \in Nat
    BY DEF TypeOK
  <1>1. CASE UNCHANGED repo
    <2>1. now <= now' /\ now \in Nat /\ now' \in Nat
      BY ClockFrame DEF TypeOK
    <2>2. \A e : Expired(e) => Expired(e)' \/ e \notin Nat
      BY <2>1 DEF Expired
    <2>3. \A j \in JobIds : jobs[j].expires \in Nat
      BY DEF TypeOK, JobRecord
    <2>4. TombstonesApart'
      BY <1>1, <2>2, <2>3 DEF TombstonesApart, repo
    <2> QED BY <1>1, <2>4 DEF RecordsWhole, Whole, repo
  <1>2. CASE Initialize
    BY <1>2, InitializeRecords
  <1>3. CASE Claim
    <2>1. worker.job \in JobIds /\ jobs[worker.job].status = "queued"
      BY <1>3 DEF Claim, IsFresh, WorkerCurrent
    <2>2. Whole(worker.job, jobs[worker.job]) /\ jobs[worker.job] # NoJob
      BY <2>1 DEF RecordsWhole, NoJob, Job
    <2> DEFINE r == Started(jobs[worker.job])
    <2>3. r.status # "absent" /\ r.key \in Keys /\ worker.job < nextJob
      BY <2>2 DEF Whole, Started, Job
    <2>4. PutJob(worker.job, r) \/ PutJobFails(worker.job, r)
      BY <1>3 DEF Claim
    <2>5. UNCHANGED <<now, nextJob>>
      BY <1>3 DEF Claim
    <2>6. dTombs[worker.job] = 0
      BY <2>1, ActiveNotTombstoned DEF Active
    <2> HIDE DEF r
    <2> QED BY <1>n, <2>1, <2>3, <2>4, <2>5, <2>6, PutWhole, PutApart
  <1>4. CASE Complete
    <2>1. worker.job \in JobIds /\ jobs[worker.job].status = "processing"
      BY <1>4 DEF Complete, WorkerCurrent
    <2>2. Whole(worker.job, jobs[worker.job]) /\ jobs[worker.job] # NoJob
      BY <2>1 DEF RecordsWhole, NoJob, Job
    <2> DEFINE r == Completed(jobs[worker.job], worker.art, worker.expires)
    <2>3. r.status # "absent" /\ r.key \in Keys /\ worker.job < nextJob
      BY <2>2 DEF Whole, Completed, Job
    <2>4. PutJob(worker.job, r) \/ PutJobFails(worker.job, r)
      BY <1>4 DEF Complete
    <2>5. UNCHANGED <<now, nextJob>>
      BY <1>4 DEF Complete
    <2>6. dTombs[worker.job] = 0
      BY <2>1, ActiveNotTombstoned DEF Active
    <2> HIDE DEF r
    <2> QED BY <1>n, <2>1, <2>3, <2>4, <2>5, <2>6, PutWhole, PutApart
  <1>5. CASE FailWrite
    <2> DEFINE r == Failed(jobs[worker.job])
    <2>1. CASE MayFail /\ (PutJob(worker.job, r) \/ PutJobFails(worker.job, r))
      <3>1. worker.job \in JobIds /\ jobs[worker.job].status = "processing"
        BY <1>5, <2>1 DEF FailWrite, MayFail, WorkerCurrent
      <3>2. Whole(worker.job, jobs[worker.job]) /\ jobs[worker.job] # NoJob
        BY <3>1 DEF RecordsWhole, NoJob, Job
      <3>3. r.status # "absent" /\ r.key \in Keys /\ worker.job < nextJob
        BY <3>2 DEF Whole, Failed, Job
      <3>4. UNCHANGED <<now, nextJob>>
        BY <1>5 DEF FailWrite
      <3>5. dTombs[worker.job] = 0
        BY <3>1, ActiveNotTombstoned DEF Active
      <3> HIDE DEF r
      <3> QED BY <1>n, <2>1, <3>1, <3>3, <3>4, <3>5, PutWhole, PutApart
    <2>2. CASE UNCHANGED <<jobs, tombs, dJobs, dTombs>>
      BY <1>1, <1>5, <2>2 DEF FailWrite, repo
    <2> QED BY <1>5, <2>1, <2>2 DEF FailWrite
  <1>6. CASE SubmitMiss \/ SubmitHit
    <2>1. PICK r : /\ r.status # "absent" /\ r.key = sub.key
                   /\ PutJob(nextJob, r) \/ PutJobFails(nextJob, r)
      BY <1>6 DEF SubmitMiss, SubmitHit, CreateJob, CreateFails, Queued, CompletedHit, Job
    <2>2. nextJob \in JobIds /\ sub.key \in Keys
      BY <1>6 DEF SubmitMiss, SubmitHit, SubmissionCurrent
    <2>3. now' = now /\ nextJob' = nextJob + 1
      BY <1>6 DEF SubmitMiss, SubmitHit, CreateJob, CreateFails
    <2>4. dTombs[nextJob] = 0
      BY <1>n, <2>2 DEF TombstonesApart
    <2> QED BY <1>n, <2>1, <2>2, <2>3, <2>4, PutWhole, PutApart
  <1>7. CASE SweepCompleted
    <2>1. sweeping \in JobIds /\ ExpireJob(sweeping) /\ UNCHANGED <<now, nextJob>>
      BY <1>7 DEF SweepCompleted, TypeOK
    <2>2. jobs[sweeping].status \in Terminal /\ Expired(jobs[sweeping].expires)
      BY <1>7 DEF SweepCompleted, SweepCurrent, Terminal
    <2> QED BY <2>1, <2>2, ExpireWhole, ExpireApart
  <1>8. ASSUME NEW j \in JobIds, SweepFailed(j)
        PROVE  RecordsWhole' /\ TombstonesApart'
    <2>1. ExpireJob(j) /\ UNCHANGED <<now, nextJob>>
      BY <1>8 DEF SweepFailed
    <2>2. jobs[j].status \in Terminal /\ Expired(jobs[j].expires)
      BY <1>8 DEF SweepFailed, Due, Terminal
    <2> QED BY <2>1, <2>2, ExpireWhole, ExpireApart
  <1>9. ASSUME NEW j \in JobIds, SweepTombstone(j)
        PROVE  RecordsWhole' /\ TombstonesApart'
    <2>1. /\ UNCHANGED <<jobs, dJobs, now, nextJob>>
          /\ tombs' = [tombs EXCEPT ![j] = 0] /\ dTombs' = [dTombs EXCEPT ![j] = 0]
      BY <1>9 DEF SweepTombstone
    <2>2. RecordsWhole'
      BY <2>1 DEF RecordsWhole, Whole
    <2>3. TombstonesApart'
      BY <2>1 DEF TypeOK, TombstonesApart, Expired
    <2> QED BY <2>2, <2>3
  <1>10. CASE RepairCut
    <2>1. ASSUME NEW j \in JobIds PROVE Whole(j, dJobs'[j])
      <3>1. CASE dJobs'[j] = dJobs[j]
        BY <3>1 DEF RecordsWhole
      <3>2. CASE dJobs[j].status \in Active /\ dJobs'[j] = Failed(dJobs[j])
        <4>1. dJobs[j].key \in Keys /\ j < nextJob
          BY <3>2 DEF RecordsWhole, Whole, NoJob, Job, Active
        <4> QED BY <3>2, <4>1 DEF Whole, Failed, Job
      <3> QED BY <1>10, <3>1, <3>2, RepairFrame
    <2>2. UNCHANGED <<now, jobs, tombs, dTombs, nextJob>>
      BY <1>10 DEF RepairCut
    <2> QED BY <2>1, <2>2 DEF RecordsWhole, Whole, TombstonesApart, Expired
  <1>11. CASE CrashInExpiry
    <2>1. UNCHANGED <<now, jobs, tombs, dJobs, nextJob>>
      BY <1>11 DEF CrashInExpiry
    <2>2. PICK j \in JobIds : /\ j = sweeping \/ Due(j, "failed")
                              /\ dTombs' = [dTombs EXCEPT ![j] = TombExpiry(j)]
      BY <1>11 DEF CrashInExpiry
    <2>3. /\ jobs[j].status \in Terminal /\ Expired(jobs[j].expires)
          /\ tombs[j] = 0 /\ j < nextJob
      BY <2>2 DEF SweepCurrent, Due, Terminal, JobIds, TombstonesApart, RecordsWhole, Whole,
                  NoJob, Job
    <2> QED BY <2>1, <2>2, <2>3 DEF RecordsWhole, Whole, TombstonesApart, TypeOK, Expired
  <1> QED
    BY <1>1, <1>2, <1>3, <1>4, <1>5, <1>6, <1>7, <1>8, <1>9, <1>10, <1>11, RepoFrame
       DEF RepoChanges

----------------------------------------------------------------------------
(* Who writes a record, and who gives a key a new owner.                      *)

(* Which steps write a job's record, apart from a start of the process.      *)
WorkerWrites(j) == /\ Claim \/ Complete \/ (FailWrite /\ MayFail)
                   /\ RepositoryFree /\ j = worker.job
SubmitWrites(j) == /\ SubmitMiss \/ SubmitHit
                   /\ RepositoryFree /\ j = nextJob /\ jobs[j] = NoJob
SweepWrites(j)  == /\ SweepCompleted \/ SweepFailed(j)
                   /\ jobs[j].status \in Terminal /\ Expired(jobs[j].expires)
                   /\ jobs'[j] = NoJob

(* A record changes in memory only in one of these ways.                     *)
LEMMA WhoWrites ==
    ASSUME TypeOK, StepsAgree, [Next]_vars, ~Initialize, NEW j \in JobIds, jobs'[j] # jobs[j]
    PROVE  WorkerWrites(j) \/ SubmitWrites(j) \/ SweepWrites(j)
  <1> USE DEF TypeOK
  <1>1. RepoChanges
    BY RepoFrame DEF repo
  <1>2. CASE Claim \/ Complete
    BY <1>2 DEF Claim, Complete, PutJob, PutJobFails, WorkerWrites
  <1>3. CASE FailWrite
    BY <1>3 DEF FailWrite, PutJob, PutJobFails, WorkerWrites
  <1>4. CASE SubmitMiss \/ SubmitHit
    <2>1. j = nextJob /\ RepositoryFree
      BY <1>4 DEF SubmitMiss, SubmitHit, CreateJob, CreateFails, PutJob, PutJobFails
    <2>2. jobs[j] = NoJob
      BY <2>1 DEF StepsAgree, RecordsWhole, Whole
    <2> QED BY <1>4, <2>1, <2>2 DEF SubmitWrites
  <1>5. CASE SweepCompleted
    <2>1. j = sweeping /\ jobs'[j] = NoJob
      BY <1>5 DEF SweepCompleted, ExpireJob
    <2> QED BY <1>5, <2>1 DEF StepsAgree, SweepCurrent, SweepWrites, SweepCompleted, Terminal
  <1>6. ASSUME NEW i \in JobIds, SweepFailed(i)
        PROVE  SweepWrites(j)
    <2>1. j = i /\ jobs'[j] = NoJob
      BY <1>6 DEF SweepFailed, ExpireJob
    <2> QED BY <1>6, <2>1 DEF SweepFailed, Due, SweepWrites, Terminal
  <1>7. ASSUME NEW i \in JobIds, SweepTombstone(i)
        PROVE  FALSE
    BY <1>7 DEF SweepTombstone
  <1>8. CASE RepairCut \/ CrashInExpiry
    BY <1>8 DEF RepairCut, CrashInExpiry
  <1> QED BY <1>1, <1>2, <1>3, <1>4, <1>5, <1>6, <1>7, <1>8 DEF RepoChanges

(* No job becomes active in this step, and no active job changes its key.    *)
NoNewOwner ==
    \A j \in JobIds : jobs'[j].status \in Active =>
        jobs[j].status \in Active /\ jobs'[j].key = jobs[j].key

(* Only a created miss gives a key a new owner.                              *)
LEMMA NewOwners ==
    ASSUME TypeOK, StepsAgree, [Next]_vars, ~Initialize, ~SubmitMiss
    PROVE  NoNewOwner
  <1> SUFFICES ASSUME NEW j \in JobIds, jobs'[j].status \in Active, jobs'[j] # jobs[j]
               PROVE  jobs[j].status \in Active /\ jobs'[j].key = jobs[j].key
    BY DEF NoNewOwner
  <1>1. CASE WorkerWrites(j)
    <2>1. CASE Claim
      <3>1. jobs'[j] = Started(jobs[j]) /\ jobs[j].status = "queued"
        BY <1>1, <2>1 DEF Claim, WorkerWrites, PutJob, PutJobFails, IsFresh, TypeOK
      <3> QED BY <3>1 DEF Started, Job, Active
    <2>2. CASE Complete \/ FailWrite
      <3>1. \/ jobs'[j] = Completed(jobs[j], worker.art, worker.expires)
            \/ jobs'[j] = Failed(jobs[j])
        BY <1>1, <2>2 DEF Complete, FailWrite, WorkerWrites, PutJob, PutJobFails, TypeOK
      <3> QED BY <3>1 DEF Completed, Failed, Job, Active
    <2> QED BY <1>1, <2>1, <2>2 DEF WorkerWrites
  <1>2. CASE SubmitWrites(j)
    <2>1. jobs'[j] = CompletedHit(sub.key, sub.art, sub.bundle.expires)
      BY <1>2 DEF SubmitWrites, SubmitHit, CreateJob, CreateFails, PutJob, PutJobFails, TypeOK
    <2> QED BY <2>1 DEF CompletedHit, Job, Active
  <1>3. CASE SweepWrites(j)
    BY <1>3 DEF SweepWrites, NoJob, Job, Active
  <1> QED BY <1>1, <1>2, <1>3, WhoWrites

(* One owner a key: the submission that creates it saw none, and a start keeps*)
(* one.                                                                      *)
LEMMA OneActiveStep ==
    ASSUME TypeOK, StepsAgree, OneActivePerKey, [Next]_vars
    PROVE  OneActivePerKey'
  <1>1. CASE ~Initialize /\ ~SubmitMiss
    <2>1. NoNewOwner
      BY <1>1, NewOwners
    <2> QED BY <2>1 DEF NoNewOwner, OneActivePerKey, ActiveIds
  <1>2. CASE SubmitMiss
    <2>1. ~HasOwner(sub.key)
      BY <1>2 DEF SubmitMiss, StepsAgree, SubmissionCurrent
    <2>2. jobs' \in {jobs, [jobs EXCEPT ![nextJob] = Queued(sub.key)]}
      BY <1>2 DEF SubmitMiss, CreateJob, CreateFails, PutJob, PutJobFails
    <2>3. Queued(sub.key).key = sub.key
      BY DEF Queued, Job
    <2> QED BY <2>1, <2>2, <2>3 DEF OneActivePerKey, ActiveIds, HasOwner, TypeOK
  <1>3. CASE Initialize
    <2> SUFFICES ASSUME NEW i \in JobIds, NEW j \in JobIds, i < j,
                        jobs'[i].status \in Active, jobs'[j].status \in Active
                 PROVE  jobs'[i].key # jobs'[j].key
      BY DEF OneActivePerKey, ActiveIds, JobIds
    <2>1. \A l \in JobIds : jobs'[l].status \in Active =>
            l \notin Duplicates /\ jobs'[l] = Loaded[l]
      <3>1. \A q : Failed(q).status \notin Active
        BY DEF Failed, Job, Active
      <3> QED BY <1>3, <3>1 DEF Initialize, Repaired
    <2>2. Loaded[i].status \in Active /\ Loaded[j].status \in Active /\ j \notin Duplicates
      BY <2>1
    <2> QED BY <2>1, <2>2 DEF Duplicates, IsDuplicate, ActiveIds
  <1> QED BY <1>1, <1>2, <1>3

----------------------------------------------------------------------------
(* The submission, the sweep and the recovery rely on what they read.         *)

(* What happens to the process as a whole, a start apart.                    *)
Process == Stop \/ Tick \/ Crash \/ CrashInside \/ Exit \/ RepairCut

(* It touches no step in progress unless it takes the process down.          *)
LEMMA ProcessFrame ==
    ASSUME TypeOK, Process
    PROVE  /\ UNCHANGED <<jobs, tombs, nextJob, called, work>> /\ ~Initialize
           /\ \/ Down /\ UNCHANGED now
              \/ UNCHANGED <<procs, nextBundle>> /\ phase' = phase
              \/ UNCHANGED <<procs, nextBundle>> /\ phase = "running" /\ phase' = "stopping"
  <1>1. "down" # "recovering" /\ (Initialize => phase' = "recovering" /\ phase = "down")
    BY DEF Initialize
  <1>2. CASE Stop
    BY <1>1, <1>2 DEF Stop, store, repo
  <1>3. CASE Tick \/ RepairCut
    BY <1>1, <1>3 DEF Tick, RepairCut, store, repo
  <1>4. CASE Crash \/ CrashInside \/ Exit
    BY <1>1, <1>4, CrashFrame DEF Crash, Dies, Exit, Down, store, repo
  <1> QED BY <1>2, <1>3, <1>4 DEF Process

(* What a step can do to the submission in progress.                         *)
LEMMA SubmissionFrame ==
    ASSUME TypeOK, StepsAgree, [Next]_vars
    PROVE  \/ sub'.pc = "idle"
           \/ UNCHANGED <<sub, nextJob, phase>>
           \/ UNCHANGED <<sub, nextJob>> /\ phase' \in {"running", "stopping"}
           \/ (SubmitFind \/ SubmitRetained \/ SubmitAdmit)
              /\ sub'.key = sub.key /\ sub.pc # "idle"
              /\ UNCHANGED <<jobs, nextJob, phase>>
           \/ \E k \in Keys : SubmitBegin(k)
  <1> USE DEF TypeOK, StepsAgree, SubmissionCurrent, store, repo, procs
  <1>1. NoSubmission.pc = "idle"
    BY DEF NoSubmission, Submitting
  <1>2. CASE UNCHANGED vars \/ Initialize \/ Process
    BY <1>1, <1>2, ProcessFrame DEF vars, Initialize, Down
  <1>3. CASE WorkerStep
    BY <1>3
       DEF WorkerStep, Recovery, RecoverFind, RecoverDone, PickCandidate, GetPermit,
           WorkerExit, Claim, Transcribe, Render, Publish, Complete, Invalidate, Cleanup,
           FailClean, FailWrite, StepTo, Throw, Continue, WorkerCurrent
  <1>4. CASE SubmitStep
    BY <1>1, <1>4
       DEF SubmitStep, SubmitFind, SubmitRetained, SubmitAdmit, SubmitMiss, SubmitRejected,
           SubmitHit, Submitting, Submission
  <1>5. CASE \/ SyncPublish \/ SyncAbort \/ SweepStart \/ SweepCompleted
             \/ \E k \in SyncKeys : SyncFind(k)
    BY <1>5 DEF SyncPublish, SyncAbort, SweepStart, SweepBundle, SweepFailed, SweepTombstone,
        SweepCompleted, SyncFind
  <1> QED BY <1>2, <1>3, <1>4, <1>5 DEF Next, Process

(* The key of the submission in progress still has no owner.                 *)
LEMMA SubmissionStep ==
    ASSUME TypeOK, StepsAgree, [Next]_vars
    PROVE  SubmissionCurrent'
  <1> USE DEF SubmissionCurrent
  <1>0. SubmissionCurrent
    BY DEF StepsAgree
  <1>1. CASE sub'.pc = "idle"
    BY <1>1
  <1>2. CASE sub'.pc # "idle" /\ UNCHANGED <<sub, nextJob>>
    <2>1. ~Initialize /\ ~SubmitMiss
      BY <1>0, <1>2 DEF Initialize, SubmitMiss, NoSubmission, Submitting
    <2>2. ~HasOwner(sub.key)'
      BY <1>0, <1>2, <2>1, NewOwners DEF NoNewOwner, HasOwner, ActiveIds
    <2>3. phase' \in {phase, "running", "stopping"}
      BY <1>0, <1>2, SubmissionFrame DEF SubmitFind, SubmitRetained, SubmitAdmit, SubmitBegin
    <2> QED BY <1>0, <1>2, <2>2, <2>3
  <1>3. CASE /\ SubmitFind \/ SubmitRetained \/ SubmitAdmit
             /\ sub'.key = sub.key /\ sub.pc # "idle" /\ UNCHANGED <<jobs, nextJob, phase>>
    BY <1>0, <1>3 DEF HasOwner, ActiveIds
  <1>4. ASSUME NEW k \in Keys, SubmitBegin(k)
        PROVE  SubmissionCurrent'
    <2>1. sub'.key = k /\ UNCHANGED <<jobs, nextJob, phase>> /\ phase = "running"
      BY <1>4 DEF SubmitBegin, Submitting, repo
    <2>2. nextJob \in JobIds /\ ~HasOwner(k)
      BY <1>4 DEF SubmitBegin
    <2> QED BY <2>1, <2>2 DEF HasOwner, ActiveIds
  <1> QED BY <1>1, <1>2, <1>3, <1>4, SubmissionFrame

(* The job whose bundle the sweep removed is still completed and expired.    *)
LEMMA SweepStep ==
    ASSUME TypeOK, StepsAgree, [Next]_vars
    PROVE  SweepCurrent'
  <1> USE DEF SweepCurrent
  <1>0. SweepCurrent /\ (sweeping # 0 => sweeping \in JobIds)
    BY DEF StepsAgree, TypeOK
  <1>1. ASSUME NEW j \in JobIds, SweepBundle(j), sweeping' = j
        PROVE  SweepCurrent'
    BY <1>1 DEF SweepBundle, Due, Expired, repo
  <1>2. \/ sweeping' = 0
        \/ \E j \in JobIds : SweepBundle(j) /\ sweeping' = j
        \/ /\ sweeping' = sweeping /\ ~Initialize
           /\ phase' = phase \/ phase' \in {"running", "stopping"}
    <2> USE DEF store, repo, procs
    <2>1. CASE UNCHANGED vars \/ Initialize \/ Process
      BY <1>0, <2>1, ProcessFrame DEF vars, Initialize, Down
    <2>2. CASE WorkerStep
      BY <1>0, <2>2
         DEF WorkerStep, Recovery, RecoverFind, RecoverDone, PickCandidate, GetPermit,
             WorkerExit, Claim, Transcribe, Render, Publish, Complete, Invalidate, Cleanup,
             FailClean, FailWrite, StepTo, Throw, Continue, StepsAgree, WorkerCurrent,
             Initialize
    <2>3. CASE SubmitStep \/ \E k \in Keys : SubmitBegin(k)
      BY <1>0, <2>3
         DEF SubmitStep, SubmitBegin, SubmitFind, SubmitRetained, SubmitMiss, SubmitRejected,
             SubmitAdmit, SubmitHit, Initialize
    <2>4. CASE \/ SyncPublish \/ SyncAbort \/ SweepStart \/ SweepCompleted
               \/ \E k \in SyncKeys : SyncFind(k)
      BY <1>0, <2>4
         DEF SyncPublish, SyncAbort, SweepStart, SweepBundle, SweepFailed, SweepTombstone,
             SweepCompleted, SyncFind, Initialize
    <2> QED BY <2>1, <2>2, <2>3, <2>4 DEF Next, Process
  <1>3. CASE sweeping' = sweeping /\ sweeping # 0 /\ ~Initialize
             /\ (phase' = phase \/ phase' \in {"running", "stopping"})
    <2>1. jobs'[sweeping] = jobs[sweeping]
      <3>1. sweeping \in JobIds /\ jobs[sweeping].status = "completed" /\ ~RepositoryFree
        BY <1>0, <1>3 DEF RepositoryFree
      <3> QED BY <1>3, <3>1, WhoWrites
         DEF WorkerWrites, SubmitWrites, SweepWrites, SweepFailed, Due, SweepCompleted
    <2>2. now <= now' /\ now \in Nat /\ now' \in Nat /\ jobs[sweeping].expires \in Nat
      BY <1>0, <1>3, ClockFrame DEF TypeOK, JobRecord
    <2> QED BY <1>0, <1>3, <2>1, <2>2 DEF Expired
  <1> QED BY <1>1, <1>2, <1>3

(* The jobs that startup has still to reconcile stay processing.             *)
LEMMA RecoveryStep ==
    ASSUME TypeOK, StepsAgree, [Next]_vars
    PROVE  RecoveryCurrent'
  <1>0. RecoveryCurrent /\ WorkerCurrent
    BY DEF StepsAgree
  <1>1. CASE Initialize
    BY <1>1, RecordTypes DEF Initialize, RecoveryCurrent, At, Holding, JobIds, TypeOK
  <1>2. CASE recover' = {}
    BY <1>2 DEF RecoveryCurrent
  <1>3. ASSUME NEW i \in JobIds, RecoverFind(i), recover' = recover \ {i}
        PROVE  RecoveryCurrent'
    <2>1. worker'.job = i \/ recover' = {}
      BY <1>3 DEF RecoverFind, Recovered, Holding
    <2>2. phase' = phase \/ recover' = {}
      BY <1>3 DEF RecoverFind
    <2>3. jobs' = jobs
      BY <1>3 DEF RecoverFind, repo
    <2> QED BY <1>0, <1>3, <2>1, <2>2, <2>3 DEF RecoveryCurrent
  <1>4. CASE /\ ~Initialize /\ recover' = recover /\ recover # {}
             /\ phase' = phase /\ worker'.job \in {0, worker.job}
    <2> SUFFICES ASSUME NEW j \in recover
                 PROVE  jobs'[j] = jobs[j] /\ j # 0
      BY <1>0, <1>4 DEF RecoveryCurrent
    <2>1. jobs[j].status = "processing" /\ j # worker.job /\ j \in JobIds /\ j # 0
      BY <1>0 DEF RecoveryCurrent, TypeOK, JobIds
    <2>2. ~WorkerWrites(j) /\ ~SubmitWrites(j) /\ ~SweepWrites(j)
      BY <2>1 DEF WorkerWrites, SubmitWrites, SweepWrites, NoJob, Job, Terminal
    <2> QED BY <1>4, <2>1, <2>2, WhoWrites
  <1>5. \/ Initialize \/ recover' = {}
        \/ \E i \in JobIds : RecoverFind(i) /\ recover' = recover \ {i}
        \/ /\ ~Initialize /\ recover' = recover /\ recover # {}
           /\ phase' = phase /\ worker'.job \in {0, worker.job}
    <2> USE DEF store, repo, procs
    <2>0. recover # {} => phase = "recovering"
      BY <1>0 DEF RecoveryCurrent
    <2>1. CASE UNCHANGED vars \/ Process
      BY <2>0, <2>1, ProcessFrame DEF vars, Initialize, Down
    <2>2. CASE WorkerStep
      <3>1. CASE Recovery \/ PickCandidate \/ GetPermit \/ WorkerExit \/ Claim
        BY <2>0, <3>1 DEF Recovery, RecoverFind, RecoverDone, PickCandidate, GetPermit,
          WorkerExit, Claim, WorkerCurrent, Initialize, Holding, At, TypeOK, WorkerState
      <3>2. CASE Transcribe \/ Render \/ Publish \/ Complete \/ Invalidate
        BY <2>0, <3>2
           DEF Transcribe, Render, Publish, Complete, Invalidate, StepTo, Throw, Initialize,
               Holding, At, TypeOK, WorkerState
      <3>3. CASE Cleanup \/ FailClean \/ FailWrite
        BY <2>0, <3>3
           DEF Cleanup, FailClean, FailWrite, StepTo, Throw, Continue, Done, Initialize,
               Holding, At, TypeOK, WorkerState
      <3> QED BY <2>2, <3>1, <3>2, <3>3 DEF WorkerStep
    <2>3. CASE SubmitStep \/ \E k \in Keys : SubmitBegin(k)
      BY <2>0, <2>3
         DEF SubmitStep, SubmitBegin, SubmitFind, SubmitRetained, SubmitMiss, SubmitRejected,
             SubmitAdmit, SubmitHit, Initialize, Notified, TypeOK, WorkerState
    <2>4. CASE \/ SyncPublish \/ SyncAbort \/ SweepStart \/ SweepCompleted
               \/ \E k \in SyncKeys : SyncFind(k)
      BY <2>0, <2>4
         DEF SyncPublish, SyncAbort, SweepStart, SweepBundle, SweepFailed, SweepTombstone,
             SweepCompleted, SyncFind, Initialize
    <2> QED BY <2>1, <2>2, <2>3, <2>4 DEF Next, Process
  <1> QED BY <1>1, <1>2, <1>3, <1>4, <1>5

----------------------------------------------------------------------------
(* The worker relies on the record it claimed.                                *)

(* A step that leaves the worker alone leaves alone the record it holds.     *)
LEMMA HeldRecord ==
    ASSUME TypeOK, StepsAgree, [Next]_vars, ~Initialize, ~Claim, ~Complete, ~FailWrite,
           worker.job \in JobIds, jobs[worker.job].status = "processing"
    PROVE  jobs'[worker.job] = jobs[worker.job]
  <1>1. /\ ~WorkerWrites(worker.job) /\ ~SubmitWrites(worker.job)
        /\ ~SweepWrites(worker.job)
    BY DEF WorkerWrites, SubmitWrites, SweepWrites, NoJob, Job, Terminal
  <1> QED BY <1>1, WhoWrites

(* The job that the worker runs stays processing until the worker ends it.   *)
LEMMA WorkerCurrentStep ==
    ASSUME TypeOK, TypeOK', StepsAgree, [Next]_vars
    PROVE  WorkerCurrent'
  <1> USE DEF WorkerCurrent, store, repo, procs
  <1>0. WorkerCurrent /\ RecoveryCurrent
    BY DEF StepsAgree
  <1>t. worker \in WorkerState /\ worker' \in WorkerState
    BY DEF TypeOK
  <1>a. \A pc \in {"off", "recover", "idle", "waiting"} :
            At(pc).pc = pc /\ At(pc).mode = "loop"
    BY DEF At, Holding
  <1>1. ASSUME worker' = At("off") PROVE WorkerCurrent'
    BY <1>1, <1>a
  <1>2. CASE Initialize
    BY <1>2, <1>a DEF Initialize
  <1>3. CASE RecoverDone \/ PickCandidate
    BY <1>3, <1>a DEF RecoverDone, PickCandidate, Holding, Oldest, QueuedIds
  <1>4. CASE GetPermit
    BY <1>0, <1>t, <1>4 DEF GetPermit, WorkerState
  <1>5. ASSUME NEW j \in JobIds, RecoverFind(j) PROVE WorkerCurrent'
    <2>1. jobs[j].status = "processing" /\ phase = "recovering"
      BY <1>0, <1>5 DEF RecoverFind, Oldest, RecoveryCurrent
    <2>2. CASE worker' = Recovered(j, Found(jobs[j].key)) /\ phase' = phase
      BY <1>5, <2>1, <2>2 DEF RecoverFind, Recovered, Holding
    <2> QED BY <1>1, <1>5, <2>2 DEF RecoverFind
  <1>6. CASE Claim
    <2>1. CASE worker' = Holding("provider", "loop", worker.job, jobs[worker.job].rev + 1, 0, 0)
               /\ PutJob(worker.job, Started(jobs[worker.job]))
      <3>1. worker.job \in JobIds
        BY <1>0, <1>6 DEF Claim
      <3>2. jobs'[worker.job] = Started(jobs[worker.job])
        BY <2>1, <3>1 DEF PutJob, TypeOK
      <3>3. jobs'[worker.job].status = "processing"
        BY <3>2 DEF Started, Job
      <3> QED BY <2>1, <3>1, <3>3 DEF Holding
    <2>2. CASE worker' = At("waiting")
      BY <1>a, <2>2
    <2> QED BY <1>6, <2>1, <2>2 DEF Claim, Started, Job
  <1>7. CASE Transcribe \/ Render
    <2>1. /\ worker.job \in JobIds /\ jobs[worker.job].status = "processing"
          /\ UNCHANGED <<jobs, phase, nextBundle>>
      BY <1>0, <1>7 DEF Transcribe, Render, StepTo
    <2>2. \E pc \in {"render", "publish", "failclean"} :
              /\ worker' = [worker EXCEPT !.pc = pc]
              /\ pc = "publish" => nextBundle \in BundleIds
      BY <1>7 DEF Transcribe, Render, StepTo
    <2> QED BY <1>0, <1>t, <2>1, <2>2 DEF WorkerState
  <1>8. CASE Publish
    <2>1. worker.job \in JobIds /\ jobs[worker.job].status = "processing" /\ UNCHANGED jobs
      BY <1>0, <1>8 DEF Publish
    <2>2. \/ worker' = At("off")
          \/ worker' = [worker EXCEPT !.pc = "failclean"] /\ UNCHANGED phase
          \/ worker' = Holding("complete", worker.mode, worker.job, worker.rev, nextBundle,
                               now + ArtifactTtl) /\ UNCHANGED phase
      BY <1>8 DEF Publish, Throw, StepTo
    <2> QED BY <1>0, <1>1, <1>t, <2>1, <2>2 DEF WorkerState, Holding
  <1>9. CASE Complete \/ Invalidate
    <2>1. worker.job \in JobIds
      BY <1>0, <1>9 DEF Complete, Invalidate
    <2>2. \/ worker' = At("off")
          \/ \E pc \in {"cleanup", "invalidate", "failclean"} :
                 worker' = [worker EXCEPT !.pc = pc] /\ UNCHANGED phase
      BY <1>9 DEF Complete, Invalidate, Throw, StepTo
    <2> QED BY <1>0, <1>1, <1>t, <2>1, <2>2 DEF WorkerState
  <1>10. CASE Cleanup \/ FailClean \/ FailWrite
    <2>1. worker.job \in JobIds
      BY <1>0, <1>10 DEF Cleanup, FailClean, FailWrite
    <2>2. \/ worker' = At("off")
          \/ worker' = Done /\ UNCHANGED phase
          \/ \E pc \in {"failclean", "failwrite"} :
                 worker' = [worker EXCEPT !.pc = pc] /\ UNCHANGED phase
      BY <1>10 DEF Cleanup, FailClean, FailWrite, Throw, StepTo, Continue
    <2> QED BY <1>0, <1>1, <1>a, <1>t, <2>1, <2>2 DEF WorkerState, Done
  <1>11. CASE /\ worker' = Notified \/ worker' = worker
              /\ ~Initialize /\ ~Claim /\ ~Complete /\ ~FailWrite
              /\ phase' = phase \/ phase = "running"
              /\ worker.pc = "publish" => nextBundle' \in BundleIds
    <2>1. CASE worker.pc = "waiting" /\ worker' = Notified
      <3>1. worker' = [worker EXCEPT !.pc = "idle"]
        BY <1>11, <2>1 DEF Notified
      <3>2. worker'.pc = "idle" /\ worker'.mode = worker.mode
        BY <1>t, <3>1 DEF WorkerState
      <3> QED BY <1>0, <1>11, <3>2
    <2>2. CASE worker' = worker
      <3>1. worker.pc \in {"provider", "render", "publish", "complete"} =>
              jobs'[worker.job].status = "processing"
        BY <1>0, <1>11, HeldRecord
      <3> QED BY <1>0, <1>11, <2>2, <3>1
    <2> QED BY <1>11, <2>1, <2>2 DEF Notified
  <1>12. CASE UNCHANGED vars \/ Process \/ WorkerExit
    <2>1. CASE (Process /\ Down) \/ WorkerExit
      BY <1>1, <2>1 DEF Down, WorkerExit
    <2>2. CASE UNCHANGED vars \/ (Process /\ ~Down)
      BY <1>0, <2>2, ProcessFrame DEF vars
    <2> QED BY <1>12, <2>1, <2>2
  <1>13. CASE SubmitStep \/ \E k \in Keys : SubmitBegin(k)
    <2>1. /\ worker' = Notified \/ worker' = worker
          /\ UNCHANGED <<phase, nextBundle>>
      BY <1>13 DEF SubmitStep, SubmitBegin, SubmitFind, SubmitRetained, SubmitAdmit,
             SubmitMiss, SubmitRejected, SubmitHit
    <2> QED BY <1>0, <1>2, <1>6, <1>9, <1>10, <1>11, <2>1
  <1>14. CASE \/ SyncAbort \/ SyncPublish \/ SweepStart \/ SweepCompleted
              \/ \E k \in SyncKeys : SyncFind(k)
    <2>1. /\ worker' = worker /\ phase' = phase
          /\ nextBundle' = nextBundle \/ SyncPublish
      BY <1>14 DEF SyncAbort, SyncPublish, SweepStart, SweepBundle, SweepFailed,
             SweepTombstone, SweepCompleted, SyncFind
    <2>2. SyncPublish /\ worker.pc = "publish" => nextBundle' \in BundleIds
      BY ConstantTypes DEF SyncPublish, PublishBundle, PublishFails, BundleIds, TypeOK
    <2> QED BY <1>0, <1>2, <1>6, <1>9, <1>10, <1>11, <2>1, <2>2
  <1> QED
    BY <1>2, <1>3, <1>4, <1>5, <1>6, <1>7, <1>8, <1>9, <1>10, <1>12, <1>13, <1>14
       DEF Next, WorkerStep, Recovery, Process

----------------------------------------------------------------------------
(* The types and the agreement of the steps, as an invariant; one record.     *)

(* The steps agree after every step.                                         *)
LEMMA StepsAgreeStep ==
    ASSUME TypeOK, StepsAgree, [Next]_vars
    PROVE  TypeOK' /\ StepsAgree'
  <1>1. TypeOK'
    BY TypeStep
  <1> QED
    BY <1>1, RepositoryStep, SubmissionStep, WorkerCurrentStep, RecoveryStep, SweepStep
       DEF StepsAgree

(* The steps agree at the first start.                                       *)
LEMMA StepsAgreeInit == Init => StepsAgree
  BY DEF Init, StepsAgree, RecordsWhole, Whole, TombstonesApart, SubmissionCurrent,
         WorkerCurrent, RecoveryCurrent, SweepCurrent, NoSubmission, Submitting, At, Holding

(* Every variable has its type in every state: no failure, crash or interleaving*)
(* leaves a record, a pointer or a step in progress that the code could not read.*)
THEOREM TypeCorrect == Spec => [](TypeOK /\ StepsAgree)
  <1>1. Init => TypeOK /\ StepsAgree
    BY TypeInit, StepsAgreeInit
  <1>2. TypeOK /\ StepsAgree /\ [Next]_vars => (TypeOK /\ StepsAgree)'
    BY StepsAgreeStep
  <1> QED BY <1>1, <1>2, PTL DEF Spec

(* The record that may be written next for job j.                            *)
NextRecord(j, r) ==
    \/ jobs[j].status = "queued" /\ r = Started(jobs[j])
    \/ /\ jobs[j].status = "processing" /\ j = worker.job
       /\ \/ worker.pc = "complete" /\ r = Completed(jobs[j], worker.art, worker.expires)
          \/ r = Failed(jobs[j])
    \/ /\ j = nextJob /\ jobs[j] = NoJob
       /\ \/ r = Queued(sub.key)
          \/ sub.pc = "hit" /\ r = CompletedHit(sub.key, sub.art, sub.bundle.expires)

(* A new record of job j, on the volume and in memory or on the volume only. *)
Written(j) ==
    \E r : NextRecord(j, r) /\ \/ jobs'[j] = r /\ dJobs'[j] = r
                               \/ jobs'[j] = jobs[j] /\ dJobs'[j] \in {dJobs[j], r}

(* An expired job makes way for its tombstone.                               *)
Dropped(j) == /\ jobs[j].status \in Terminal /\ Expired(jobs[j].expires)
              /\ jobs'[j] = NoJob /\ dJobs'[j] = NoJob /\ tombs'[j] # 0

(* A start that did not get to its end has failed a duplicate on the volume. *)
CopyFailed(j) == /\ jobs'[j] = jobs[j] /\ dJobs'[j] = Failed(dJobs[j])
                 /\ dJobs[j].status \in Active /\ Duplicates # {}

(* Writing a job file writes that job and no other.                          *)
LEMMA PutWrites ==
    ASSUME TypeOK, NEW i \in JobIds, NEW r, NextRecord(i, r), PutJob(i, r) \/ PutJobFails(i, r),
           NEW j \in JobIds
    PROVE  UNCHANGED <<jobs[j], dJobs[j]>> \/ Written(j)
  <1>1. CASE j = i
    <2>1. \/ jobs'[j] = r /\ dJobs'[j] = r
          \/ jobs'[j] = jobs[j] /\ dJobs'[j] \in {dJobs[j], r}
      BY <1>1 DEF TypeOK, PutJob, PutJobFails
    <2> QED BY <1>1, <2>1 DEF Written
  <1>2. CASE j # i
    BY <1>2 DEF TypeOK, PutJob, PutJobFails
  <1> QED BY <1>1, <1>2

(* Expiring a job drops that job and no other.                               *)
LEMMA ExpireDrops ==
    ASSUME TypeOK, NEW i \in JobIds, ExpireJob(i), jobs[i].status \in Terminal,
           Expired(jobs[i].expires), NEW j \in JobIds
    PROVE  UNCHANGED <<jobs[j], dJobs[j]>> \/ Dropped(j)
  <1>1. jobs[i].expires + TombstoneTtl # 0
    BY ConstantTypes DEF TypeOK, JobRecord
  <1> QED BY <1>1 DEF TypeOK, ExpireJob, TombExpiry, Dropped

(* A step that is not a start leaves a record, writes its successor or drops *)
(* it, unless it is part of a start.                                         *)
LEMMA RecordStep ==
    ASSUME TypeOK, StepsAgree, [Next]_vars, ~Initialize, NEW j \in JobIds
    PROVE  UNCHANGED <<jobs[j], dJobs[j]>> \/ Written(j) \/ Dropped(j) \/ CopyFailed(j)
  <1> USE DEF StepsAgree, NextRecord
  <1>1. CASE UNCHANGED repo
    BY <1>1 DEF repo
  <1>2. CASE Claim
    <2>1. worker.job \in JobIds /\ NextRecord(worker.job, Started(jobs[worker.job]))
      BY <1>2 DEF Claim, IsFresh, WorkerCurrent
    <2> QED BY <1>2, <2>1, PutWrites DEF Claim
  <1>3. CASE Complete
    <2>1. worker.job \in JobIds
          /\ NextRecord(worker.job, Completed(jobs[worker.job], worker.art, worker.expires))
      BY <1>3 DEF Complete, WorkerCurrent
    <2> QED BY <1>3, <2>1, PutWrites DEF Complete
  <1>4. CASE FailWrite
    <2>1. CASE MayFail
      <3>1. worker.job \in JobIds /\ NextRecord(worker.job, Failed(jobs[worker.job]))
        BY <1>4, <2>1 DEF FailWrite, MayFail, WorkerCurrent
      <3> QED BY <1>4, <2>1, <3>1, PutWrites DEF FailWrite
    <2>2. CASE ~MayFail
      BY <1>4, <2>2 DEF FailWrite
    <2> QED BY <2>1, <2>2
  <1>5. CASE SubmitMiss \/ SubmitHit
    <2>1. nextJob \in JobIds /\ jobs[nextJob] = NoJob
      BY <1>5 DEF SubmitMiss, SubmitHit, SubmissionCurrent, RecordsWhole, Whole, TypeOK
    <2>2. \E r : /\ PutJob(nextJob, r) \/ PutJobFails(nextJob, r)
                 /\ NextRecord(nextJob, r)
      BY <1>5, <2>1 DEF SubmitMiss, SubmitHit, CreateJob, CreateFails
    <2> QED BY <2>1, <2>2, PutWrites
  <1>6. CASE SweepCompleted
    BY <1>6, ExpireDrops DEF SweepCompleted, SweepCurrent, Terminal, TypeOK
  <1>7. ASSUME NEW i \in JobIds, SweepFailed(i)
        PROVE  UNCHANGED <<jobs[j], dJobs[j]>> \/ Dropped(j)
    BY <1>7, ExpireDrops DEF SweepFailed, Due, Terminal
  <1>8. ASSUME NEW i \in JobIds, SweepTombstone(i)
        PROVE  UNCHANGED <<jobs[j], dJobs[j]>>
    BY <1>8 DEF SweepTombstone
  <1>9. CASE RepairCut
    BY <1>9, RepairFrame DEF CopyFailed
  <1>10. CASE CrashInExpiry
    BY <1>10 DEF CrashInExpiry
  <1> QED
    BY <1>1, <1>2, <1>3, <1>4, <1>5, <1>6, <1>7, <1>8, <1>9, <1>10, RepoFrame DEF RepoChanges

(* The successor of a record that clients see moves it forward.              *)
LEMMA NextRecordMovesForward ==
    ASSUME TypeOK, NEW j \in JobIds, jobs[j] # NoJob, NEW r, NextRecord(j, r)
    PROVE  jobs[j].status \in Active /\ MovesForward(jobs[j], r) /\ r.status # "queued"
  <1>1. jobs[j].rev \in Nat
    BY DEF TypeOK, JobRecord
  <1>2. CASE jobs[j].status = "queued" /\ r = Started(jobs[j])
    BY <1>1, <1>2 DEF Started, Job, MovesForward, Rank, Active, Terminal
  <1>3. CASE /\ jobs[j].status = "processing"
             /\ r \in {Completed(jobs[j], worker.art, worker.expires), Failed(jobs[j])}
    BY <1>1, <1>3 DEF Completed, Failed, Job, MovesForward, Rank, Active, Terminal
  <1> QED BY <1>2, <1>3 DEF NextRecord

(* So does failing the record that overtook it on the volume.                *)
LEMMA FailedMovesForward ==
    ASSUME TypeOK, NEW j \in JobIds, dJobs[j].status \in Active,
           dJobs[j] = jobs[j] \/ MovesForward(jobs[j], dJobs[j])
    PROVE  MovesForward(jobs[j], Failed(dJobs[j]))
  <1>1. dJobs[j].rev \in Nat /\ jobs[j].rev \in Nat /\ Failed(dJobs[j]).rev \in Nat
    BY DEF TypeOK, JobRecord, Failed, Job
  <1>2. MovesForward(dJobs[j], Failed(dJobs[j]))
    BY <1>1 DEF MovesForward, Failed, Job, Rank, Active, Terminal
  <1>3. CASE MovesForward(jobs[j], dJobs[j])
    <2>1. Rank(jobs[j]) \in Nat /\ Rank(dJobs[j]) \in Nat /\ Rank(Failed(dJobs[j])) \in Nat
      BY DEF Rank
    <2> QED BY <1>1, <1>2, <1>3, <2>1 DEF MovesForward
  <1> QED BY <1>2, <1>3

----------------------------------------------------------------------------
(* The safety properties.                                                     *)

(* What clients see after a start, and after any other step, is on the volume. *)
LEMMA DurableStep ==
    ASSUME TypeOK, StepsAgree, DurableBeforeVisible, [Next]_vars
    PROVE  DurableBeforeVisible'
  <1> SUFFICES ASSUME NEW j \in JobIds, jobs'[j] # NoJob
               PROVE  \/ dJobs'[j] = jobs'[j]
                      \/ jobs'[j].status \in Active /\ MovesForward(jobs'[j], dJobs'[j])
    BY DEF DurableBeforeVisible
  <1>1. CASE Initialize
    BY <1>1, InitializeRecords DEF StepsAgree, Loaded
  <1>2. CASE UNCHANGED <<jobs[j], dJobs[j]>>
    BY <1>2 DEF DurableBeforeVisible
  <1>3. CASE Written(j)
    <2>1. PICK r : NextRecord(j, r) /\ \/ jobs'[j] = r /\ dJobs'[j] = r
                                       \/ jobs'[j] = jobs[j] /\ dJobs'[j] \in {dJobs[j], r}
      BY <1>3 DEF Written
    <2>2. CASE jobs'[j] = jobs[j] /\ dJobs'[j] = r
      BY <2>1, <2>2, NextRecordMovesForward
    <2> QED BY <2>1, <2>2 DEF DurableBeforeVisible
  <1>4. CASE Dropped(j)
    BY <1>4 DEF Dropped
  <1>5. CASE CopyFailed(j)
    <2>1. dJobs[j] = jobs[j] \/ (jobs[j].status \in Active /\ MovesForward(jobs[j], dJobs[j]))
      BY <1>5 DEF CopyFailed, DurableBeforeVisible
    <2> QED BY <1>5, <2>1, FailedMovesForward DEF CopyFailed
  <1> QED BY <1>1, <1>2, <1>3, <1>4, <1>5, RecordStep

(* No step takes back a record that clients see.                             *)
LEMMA ForwardStep ==
    ASSUME TypeOK, StepsAgree, DurableBeforeVisible, [Next]_vars,
           NEW j \in JobIds, jobs[j] # NoJob
    PROVE  \/ jobs'[j] = jobs[j] \/ MovesForward(jobs[j], jobs'[j])
           \/ /\ jobs[j].status \in Terminal /\ Expired(jobs[j].expires)
              /\ jobs'[j] = NoJob /\ tombs'[j] # 0
  <1>1. CASE ~Initialize
    <2>1. CASE Written(j)
      BY <2>1, NextRecordMovesForward DEF Written
    <2> QED BY <1>1, <2>1, RecordStep DEF Dropped, CopyFailed
  <1>2. CASE Initialize /\ dTombs[j] # 0
    <2>1. jobs'[j] = NoJob /\ tombs'[j] = dTombs[j]
      BY <1>2, InitializeRecords DEF StepsAgree, Initialize, Loaded
    <2> QED BY <1>2, <2>1 DEF StepsAgree, TombstonesApart
  <1>3. CASE Initialize /\ dTombs[j] = 0
    <2>0. dJobs[j] = jobs[j] \/ MovesForward(jobs[j], dJobs[j])
      BY DEF DurableBeforeVisible
    <2>1. CASE j \in Duplicates
      <3>1. jobs'[j] = Failed(dJobs[j]) /\ dJobs[j].status \in Active
        BY <1>3, <2>1, InitializeRecords DEF StepsAgree
      <3> QED BY <2>0, <3>1, FailedMovesForward
    <2>2. CASE j \notin Duplicates
      BY <1>3, <2>0, <2>2, InitializeRecords DEF StepsAgree, Loaded
    <2> QED BY <2>1, <2>2
  <1> QED BY <1>1, <1>2, <1>3

(* A tombstone stays until its own time is over.                             *)
LEMMA TombstoneStep ==
    ASSUME TypeOK, StepsAgree, [Next]_vars, NEW j \in JobIds, tombs[j] # 0
    PROVE  /\ jobs'[j] = NoJob
           /\ tombs'[j] = tombs[j] \/ (tombs'[j] = 0 /\ Expired(tombs[j]))
  <1>0. jobs[j] = NoJob /\ dTombs[j] = tombs[j] /\ j < nextJob
    BY DEF StepsAgree, TombstonesApart
  <1>1. NoJob.status = "absent" /\ j # nextJob
    BY <1>0 DEF NoJob, Job, TypeOK, JobIds
  <1>2. CASE Initialize
    BY <1>0, <1>2, InitializeRecords DEF StepsAgree, Initialize, Loaded
  <1>3. CASE ~Initialize
    <2>1. jobs'[j] = NoJob
      BY <1>0, <1>1, <1>3, RecordStep DEF Written, Dropped, CopyFailed, NextRecord
    <2>2. CASE tombs' = tombs
      BY <2>1, <2>2
    <2>3. CASE SweepCompleted
      <3>1. sweeping \in JobIds /\ sweeping # j
        BY <1>0, <1>1, <2>3 DEF SweepCompleted, StepsAgree, SweepCurrent, TypeOK
      <3> QED BY <2>1, <2>3, <3>1 DEF SweepCompleted, ExpireJob, TypeOK
    <2>4. ASSUME NEW i \in JobIds, SweepFailed(i)
          PROVE  tombs'[j] = tombs[j]
      BY <1>0, <1>1, <2>4 DEF SweepFailed, Due, ExpireJob, TypeOK
    <2>5. ASSUME NEW i \in JobIds, SweepTombstone(i)
          PROVE  tombs'[j] = tombs[j] \/ (tombs'[j] = 0 /\ Expired(tombs[j]))
      BY <2>5 DEF SweepTombstone, TypeOK
    <2>6. CASE Claim \/ Complete \/ FailWrite \/ SubmitMiss \/ SubmitHit
      BY <2>1, <2>6
         DEF Claim, Complete, FailWrite, SubmitMiss, SubmitHit, CreateJob, CreateFails,
             PutJob, PutJobFails
    <2>7. CASE UNCHANGED repo \/ RepairCut \/ CrashInExpiry
      BY <2>1, <2>7 DEF repo, RepairCut, CrashInExpiry
    <2> QED BY <1>3, <2>1, <2>2, <2>3, <2>4, <2>5, <2>6, <2>7, RepoFrame DEF RepoChanges
  <1> QED BY <1>2, <1>3

(* A job the provider was called for has an id that was given out.           *)
CalledUsed == \A j \in called : j < nextJob

(* Only a claim that succeeds calls the provider.                            *)
LEMMA CalledFrame ==
    ASSUME TypeOK, StepsAgree, CalledUsed, [Next]_vars
    PROVE  /\ nextJob' \in {nextJob, nextJob + 1}
           /\ called' = called \/ (/\ Claim /\ called' = called \cup {worker.job}
                                   /\ PutJob(worker.job, Started(jobs[worker.job])))
  <1> USE DEF store, repo, procs
  <1>1. CASE UNCHANGED vars \/ Initialize \/ Process
    BY <1>1, ProcessFrame DEF vars, Initialize
  <1>2. CASE WorkerStep
    BY <1>2
       DEF WorkerStep, Recovery, RecoverFind, RecoverDone, PickCandidate, GetPermit,
           WorkerExit, Claim, Transcribe, Render, Publish, Complete, Invalidate, Cleanup,
           FailClean, FailWrite
  <1>3. CASE SubmitStep \/ \E k \in Keys : SubmitBegin(k)
    BY <1>3 DEF SubmitStep, SubmitBegin, SubmitFind, SubmitRetained, SubmitAdmit, SubmitMiss,
         SubmitRejected, SubmitHit, CreateJob, CreateFails
  <1>4. CASE \/ SyncAbort \/ SyncPublish \/ SweepStart \/ SweepCompleted
             \/ \E k \in SyncKeys : SyncFind(k)
    BY <1>4 DEF SyncAbort, SyncPublish, SweepStart, SweepBundle, SweepFailed, SweepTombstone,
         SweepCompleted, SyncFind
  <1> QED BY <1>1, <1>2, <1>3, <1>4 DEF Next, Process

(* A job the provider was called for is not queued again.                    *)
LEMMA CalledStep ==
    ASSUME TypeOK, StepsAgree, NoRepeatedProviderCall, CalledUsed, [Next]_vars
    PROVE  NoRepeatedProviderCall' /\ CalledUsed'
  <1>0. nextJob \in Nat /\ called \subseteq JobIds /\ JobIds \subseteq Nat
    BY DEF TypeOK, JobIds
  <1>1. ASSUME NEW j \in called
        PROVE  jobs'[j].status # "queued" /\ dJobs'[j].status # "queued"
    <2>0. j \in JobIds /\ j < nextJob /\ jobs[j].status # "queued" /\ dJobs[j].status # "queued"
      BY <1>0, <1>1 DEF CalledUsed, NoRepeatedProviderCall
    <2>1. CASE Initialize
      <3>1. Failed(dJobs[j]).status # "queued" /\ NoJob.status # "queued"
        BY DEF Failed, NoJob, Job
      <3> QED BY <2>0, <2>1, <3>1, InitializeRecords DEF StepsAgree, Loaded
    <2>2. CASE UNCHANGED <<jobs[j], dJobs[j]>>
      BY <2>0, <2>2
    <2>3. CASE Written(j)
      <3>1. j # nextJob
        BY <1>0, <2>0
      <3>2. \A r : NextRecord(j, r) => r.status # "queued"
        BY <3>1 DEF NextRecord, Started, Completed, Failed, Job
      <3> QED BY <2>0, <2>3, <3>2 DEF Written
    <2>4. CASE Dropped(j)
      BY <2>4 DEF Dropped, NoJob, Job
    <2>5. CASE CopyFailed(j)
      BY <2>0, <2>5 DEF CopyFailed, Failed, Job
    <2> QED BY <2>0, <2>1, <2>2, <2>3, <2>4, <2>5, RecordStep
  <1>2. CASE called' = called
    <2>1. nextJob' \in {nextJob, nextJob + 1}
      BY CalledFrame
    <2>2. CalledUsed'
      BY <1>0, <1>2, <2>1 DEF CalledUsed
    <2>3. NoRepeatedProviderCall'
      BY <1>1, <1>2 DEF NoRepeatedProviderCall
    <2> QED BY <2>2, <2>3
  <1>3. CASE /\ Claim /\ called' = called \cup {worker.job}
             /\ PutJob(worker.job, Started(jobs[worker.job]))
    <2>1. worker.job \in JobIds /\ jobs[worker.job].status = "queued"
      BY <1>3 DEF Claim, IsFresh, StepsAgree, WorkerCurrent
    <2>2. worker.job < nextJob
      BY <2>1 DEF StepsAgree, RecordsWhole, Whole, NoJob, Job
    <2>3. /\ jobs'[worker.job] = Started(jobs[worker.job])
          /\ dJobs'[worker.job] = jobs'[worker.job]
      BY <1>3, <2>1 DEF PutJob, TypeOK
    <2>4. jobs'[worker.job].status # "queued" /\ dJobs'[worker.job].status # "queued"
      BY <2>3 DEF Started, Job
    <2>5. nextJob' = nextJob
      BY <1>3 DEF Claim
    <2> QED BY <1>0, <1>1, <1>3, <2>2, <2>4, <2>5 DEF CalledUsed, NoRepeatedProviderCall
  <1> QED BY <1>2, <1>3, CalledFrame

(* The inductive invariant behind the theorems that follow. *)
Consistent == /\ TypeOK /\ StepsAgree /\ OneActivePerKey /\ DurableBeforeVisible
              /\ NoRepeatedProviderCall /\ CalledUsed

(* The invariant holds in every state.                                       *)
THEOREM ConsistentInvariant == Spec => []Consistent
  <1>1. Init => Consistent
    <2>1. Init => \A j \in JobIds : jobs[j] = NoJob
      BY DEF Init
    <2>2. NoJob.status \notin Active
      BY DEF NoJob, Job, Active
    <2> QED BY <2>1, <2>2, TypeInit, StepsAgreeInit DEF Consistent, OneActivePerKey, ActiveIds,
               DurableBeforeVisible, NoRepeatedProviderCall, CalledUsed, Init
  <1>2. Consistent /\ [Next]_vars => Consistent'
    BY StepsAgreeStep, OneActiveStep, DurableStep, CalledStep DEF Consistent
  <1> QED BY <1>1, <1>2, PTL DEF Spec

(* At most one active job for a key, in every state (CACHE-03, EDGE-07).     *)
THEOREM OneActive == Spec => []OneActivePerKey
  BY ConsistentInvariant, PTL DEF Consistent

(* No failure and no restart queues again a job that the provider was called *)
(* for (EDGE-02, EDGE-03).                                                   *)
THEOREM ProviderCalledOnce == Spec => []NoRepeatedProviderCall
  BY ConsistentInvariant, PTL DEF Consistent

(* What a client sees is on the volume, or was overtaken there by a write that*)
(* reported a failure.                                                       *)
THEOREM VisibleIsDurable == Spec => []DurableBeforeVisible
  BY ConsistentInvariant, PTL DEF Consistent

(* No step, a restart included, takes an acknowledged job back.              *)
THEOREM ForwardOnly == Spec => RecordsMoveForward
  <1>1. Consistent /\ [Next]_vars =>
          [\A j \in JobIds : jobs[j] # NoJob =>
             \/ jobs'[j] = jobs[j] \/ MovesForward(jobs[j], jobs'[j])
             \/ /\ jobs[j].status \in Terminal /\ Expired(jobs[j].expires)
                /\ jobs'[j] = NoJob /\ tombs'[j] # 0]_vars
    BY ForwardStep DEF Consistent
  <1> QED BY <1>1, ConsistentInvariant, PTL DEF Spec, RecordsMoveForward

(* A job reported expired stays so until its tombstone is due.               *)
THEOREM ExpiredForGood == Spec => ExpiredStaysExpired
  <1>1. Consistent /\ [Next]_vars =>
          [\A j \in JobIds : tombs[j] # 0 =>
             /\ jobs'[j] = NoJob
             /\ tombs'[j] = tombs[j] \/ (tombs'[j] = 0 /\ Expired(tombs[j]))]_vars
    BY TombstoneStep DEF Consistent
  <1> QED BY <1>1, ConsistentInvariant, PTL DEF Spec, ExpiredStaysExpired

----------------------------------------------------------------------------
(* The artifact store: who may remove a bundle, and what the pointers name.   *)

(* Ids of bundles are not reused; a reference that a job, the worker or a    *)
(* submission holds to a bundle is to one that was published for its key,    *)
(* whether or not it is still there.                                         *)
BundlesUsed == \A a \in BundleIds : bundles[a].key # NoKey => a < nextBundle

Owns(k, a) == a \in BundleIds => a < nextBundle /\ bundles[a].key \in {k, NoKey}

ReferencesOwned ==
    /\ \A j \in JobIds : Owns(jobs[j].key, jobs[j].art) /\ Owns(dJobs[j].key, dJobs[j].art)
    /\ Owns(sub.key, sub.art)
    /\ worker.pc \in {"complete", "invalidate"} =>
         Owns(jobs[worker.job].key, worker.art) /\ jobs[worker.job].status = "processing"

StoreSound == BundlesUsed /\ PointerNotDangling /\ ReferencesOwned

(* The changes of the store: a publication, and a removal.                   *)
Publishes(k) == /\ nextBundle \in BundleIds
                /\ \E p : PublishBundle(k, p) \/ PublishFails(k, p) \/ DirectoryOnly(k, p)
Removes(k, a) == /\ UNCHANGED nextBundle
                 /\ \/ ExpireBundle(k, a) \/ ExpireFails(k, a)
                    \/ InvalidateBundle(k, a) \/ InvalidateFails(k, a)

(* What the lookup of a key may remove was published for the key.            *)
LEMMA FindRemoves ==
    ASSUME TypeOK, StoreSound, NEW k \in Keys, UNCHANGED nextBundle, Find(k) \/ FindFails(k)
    PROVE  UNCHANGED <<bundles, ptr>> \/ \E a : Owns(k, a) /\ Removes(k, a)
  <1>1. CASE PointerExpired(k)
    <2>1. Removes(k, ptr[k])
      BY <1>1 DEF Find, FindFails, Removes
    <2>2. ptr[k] \in BundleIds /\ bundles[ptr[k]].key = k
      BY <1>1 DEF PointerExpired, TypeOK, StoreSound, PointerNotDangling
    <2>3. Owns(k, ptr[k])
      BY <2>2, ConstantTypes DEF Owns, StoreSound, BundlesUsed
    <2> QED BY <2>1, <2>3
  <1>2. CASE ~PointerExpired(k)
    BY <1>2 DEF Find, FindFails
  <1> QED BY <1>1, <1>2

(* What a lookup finds was published for the key and is there.               *)
LEMMA FoundIsOwned ==
    ASSUME TypeOK, StoreSound, NEW k \in Keys
    PROVE  /\ Owns(k, Found(k))
           /\ Found(k) # 0 => /\ Found(k) \in BundleIds /\ bundles[Found(k)].key = k
                              /\ Found(k) < nextBundle
  <1>1. CASE Found(k) = 0
    BY <1>1 DEF Owns, BundleIds
  <1>2. CASE Found(k) # 0
    <2>1. Found(k) = ptr[k] /\ ptr[k] \in BundleIds /\ bundles[ptr[k]].key = k
      BY <1>2 DEF Found, TypeOK, StoreSound, PointerNotDangling
    <2> QED BY <2>1, ConstantTypes DEF Owns, StoreSound, BundlesUsed
  <1> QED BY <1>1, <1>2

(* The steps that change the store: a publication, and the three that remove *)
(* a bundle.                                                                 *)
LEMMA StoreChange ==
    ASSUME TypeOK, StepsAgree, [Next]_vars
    PROVE  \/ UNCHANGED <<bundles, ptr, nextBundle>>
           \/ \E k \in Keys : Publishes(k)
           \/ \E k \in Keys : (Find(k) \/ FindFails(k)) /\ UNCHANGED <<nextBundle, now>>
           \/ Invalidate
           \/ \E j \in JobIds : SweepBundle(j)
           \/ CrashInRemoval
  <1> USE DEF store, repo, procs
  <1>k. \A j \in JobIds : jobs[j].status # "absent" => jobs[j].key \in Keys
    BY DEF StepsAgree, RecordsWhole, Whole, NoJob, Job
  <1>1. CASE UNCHANGED vars \/ Initialize \/ Process
    <2>1. CASE UNCHANGED vars \/ Initialize \/ Stop \/ Tick \/ Crash \/ Exit \/ RepairCut
      BY <2>1 DEF vars, Initialize, Stop, Tick, Crash, Exit, RepairCut
    <2>2. CASE CrashInPublication
      <3>1. PICK k \in Keys : nextBundle \in BundleIds /\ \E p : DirectoryOnly(k, p)
        BY <1>k, <2>2 DEF CrashInPublication, StepsAgree, WorkerCurrent, TypeOK
      <3> QED BY <3>1 DEF Publishes
    <2>3. CASE CrashInExpiry
      BY <2>3 DEF CrashInExpiry
    <2> QED BY <1>1, <2>1, <2>2, <2>3 DEF Process, CrashInside
  <1>2. ASSUME NEW j \in JobIds, RecoverFind(j)
        PROVE  \E k \in Keys : (Find(k) \/ FindFails(k)) /\ UNCHANGED <<nextBundle, now>>
    <2>1. jobs[j].key \in Keys
      BY <1>2, <1>k DEF RecoverFind, Oldest, StepsAgree, RecoveryCurrent
    <2> QED BY <1>2, <2>1 DEF RecoverFind
  <1>3. CASE Publish
    <2>1. jobs[worker.job].key \in Keys /\ nextBundle \in BundleIds
      BY <1>3, <1>k DEF Publish, StepsAgree, WorkerCurrent
    <2>2. Publishes(jobs[worker.job].key)
      BY <1>3, <2>1 DEF Publish, Publishes
    <2> QED BY <2>1, <2>2
  <1>4. CASE \/ RecoverDone \/ PickCandidate \/ GetPermit \/ WorkerExit \/ Claim \/ Transcribe
             \/ Render \/ Complete \/ Cleanup \/ FailClean \/ FailWrite
    BY <1>4 DEF RecoverDone, PickCandidate, GetPermit, WorkerExit, Claim, Transcribe, Render,
         Complete, Cleanup, FailClean, FailWrite
  <1>5. CASE SubmitFind
    BY <1>5 DEF SubmitFind, StepsAgree, SubmissionCurrent
  <1>6. CASE \/ SubmitRetained \/ SubmitAdmit \/ SubmitMiss \/ SubmitRejected \/ SubmitHit
             \/ \E k \in Keys : SubmitBegin(k)
    BY <1>6 DEF SubmitRetained, SubmitAdmit, SubmitMiss, SubmitRejected, SubmitHit, SubmitBegin
  <1>7. ASSUME NEW k \in SyncKeys, SyncFind(k)
        PROVE  \E l \in Keys : (Find(l) \/ FindFails(l)) /\ UNCHANGED <<nextBundle, now>>
    BY <1>7, ConstantsAssumption DEF SyncFind, ConstantsAssumption
  <1>8. CASE SyncPublish
    <2>1. syncKey \in Keys /\ Publishes(syncKey)
      BY <1>8 DEF SyncPublish, Publishes, TypeOK
    <2> QED BY <2>1
  <1>9. CASE SyncAbort \/ SweepCompleted \/ \E j \in JobIds : SweepFailed(j) \/ SweepTombstone(j)
    BY <1>9 DEF SyncAbort, SweepCompleted, SweepFailed, SweepTombstone
  <1> QED
    BY <1>1, <1>2, <1>3, <1>4, <1>5, <1>6, <1>7, <1>8, <1>9
       DEF Next, WorkerStep, Recovery, SubmitStep, SweepStart, Process

(* What is removed was published for the key it is removed under.            *)
LEMMA RemovalOwned ==
    ASSUME TypeOK, StepsAgree, StoreSound,
           \/ \E k \in Keys : (Find(k) \/ FindFails(k)) /\ UNCHANGED nextBundle
           \/ Invalidate
           \/ \E j \in JobIds : SweepBundle(j)
    PROVE  \/ UNCHANGED <<bundles, ptr, nextBundle>>
           \/ \E k \in Keys : \E a : Owns(k, a) /\ Removes(k, a)
  <1>k. \A j \in JobIds : jobs[j].status # "absent" => jobs[j].key \in Keys
    BY DEF StepsAgree, RecordsWhole, Whole, NoJob, Job
  <1>1. ASSUME NEW k \in Keys, Find(k) \/ FindFails(k), UNCHANGED nextBundle
        PROVE  \/ UNCHANGED <<bundles, ptr, nextBundle>>
               \/ \E a : Owns(k, a) /\ Removes(k, a)
    BY <1>1, FindRemoves
  <1>2. CASE Invalidate
    <2>1. worker.job \in JobIds /\ jobs[worker.job].status = "processing"
      BY <1>2 DEF Invalidate, StepsAgree, WorkerCurrent, StoreSound, ReferencesOwned
    <2>2. jobs[worker.job].key \in Keys /\ Owns(jobs[worker.job].key, worker.art)
      BY <1>2, <1>k, <2>1 DEF Invalidate, StoreSound, ReferencesOwned
    <2>3. Removes(jobs[worker.job].key, worker.art)
      BY <1>2 DEF Invalidate, Removes
    <2> QED BY <2>2, <2>3
  <1>3. ASSUME NEW j \in JobIds, SweepBundle(j)
        PROVE  \E k \in Keys : \E a : Owns(k, a) /\ Removes(k, a)
    <2>1. jobs[j].key \in Keys
      BY <1>3, <1>k DEF SweepBundle, Due
    <2>2. Owns(jobs[j].key, jobs[j].art) /\ Removes(jobs[j].key, jobs[j].art)
      BY <1>3 DEF SweepBundle, Removes, StoreSound, ReferencesOwned
    <2> QED BY <2>1, <2>2
  <1> QED BY <1>1, <1>2, <1>3

(* A publication points its key at a new bundle, or leaves the key without   *)
(* a pointer, or as it was.                                                  *)
LEMMA PublishKeeps ==
    ASSUME TypeOK, BundlesUsed, PointerNotDangling, NEW k \in Keys, Publishes(k)
    PROVE  /\ BundlesUsed' /\ PointerNotDangling' /\ nextBundle' = nextBundle + 1
           /\ \A b \in BundleIds : b < nextBundle => bundles'[b] = bundles[b]
  <1>0. nextBundle \in BundleIds /\ nextBundle \in Nat /\ BundleIds \subseteq Nat /\ 0 \notin BundleIds
    BY DEF Publishes, BundleIds, TypeOK
  <1>1. nextBundle' = nextBundle + 1
    BY DEF Publishes, PublishBundle, PublishFails, DirectoryOnly
  <1>2. PICK p : PublishBundle(k, p) \/ PublishFails(k, p) \/ DirectoryOnly(k, p)
    BY DEF Publishes
  <1>3. NewBundle(k, p).key = k
    BY DEF NewBundle, Bundle
  <1>4. /\ bundles' = bundles \/ bundles' = [bundles EXCEPT ![nextBundle] = NewBundle(k, p)]
        /\ \/ ptr' = ptr \/ ptr' = [ptr EXCEPT ![k] = 0]
           \/ ptr' = [ptr EXCEPT ![k] = nextBundle]
                /\ bundles' = [bundles EXCEPT ![nextBundle] = NewBundle(k, p)]
    BY <1>2 DEF PublishBundle, PublishFails, DirectoryOnly
  <1>5. \A b \in BundleIds : b # nextBundle => bundles'[b] = bundles[b]
    BY <1>4 DEF TypeOK
  <1>6. BundlesUsed'
    <2> SUFFICES ASSUME NEW b \in BundleIds, bundles'[b].key # NoKey
                 PROVE  b < nextBundle + 1
      BY <1>1 DEF BundlesUsed
    <2>1. CASE b = nextBundle
      BY <1>0, <2>1
    <2>2. CASE b # nextBundle
      <3>1. b < nextBundle
        BY <1>5, <2>2 DEF BundlesUsed
      <3> QED BY <1>0, <3>1
    <2> QED BY <2>1, <2>2
  <1>7. ASSUME NEW l \in Keys, ptr[l] # 0
        PROVE  ptr[l] \in BundleIds /\ ptr[l] # nextBundle /\ bundles'[ptr[l]].key = l
    <2>1. ptr[l] \in BundleIds /\ bundles[ptr[l]].key = l
      BY <1>7 DEF TypeOK, PointerNotDangling
    <2>2. ptr[l] < nextBundle
      BY <2>1, ConstantTypes DEF BundlesUsed
    <2>3. ptr[l] # nextBundle
      BY <1>0, <2>1, <2>2
    <2> QED BY <1>5, <2>1, <2>3
  <1>8. PointerNotDangling'
    <2> SUFFICES ASSUME NEW l \in Keys, ptr'[l] # 0
                 PROVE  bundles'[ptr'[l]].key = l
      BY DEF PointerNotDangling
    <2>1. CASE ptr'[l] = ptr[l]
      BY <1>7, <2>1
    <2>2. CASE ptr'[l] # ptr[l]
      <3>1. l = k /\ ptr'[l] = nextBundle /\ bundles' = [bundles EXCEPT ![nextBundle] = NewBundle(k, p)]
        BY <1>4, <2>2 DEF TypeOK
      <3>2. bundles'[nextBundle] = NewBundle(k, p)
        BY <1>0, <3>1 DEF TypeOK
      <3> QED BY <1>3, <3>1, <3>2
    <2> QED BY <2>1, <2>2
  <1> QED BY <1>0, <1>1, <1>5, <1>6, <1>8

(* A removal takes the pointer of the key before the bundle.                 *)
LEMMA RemovalKeeps ==
    ASSUME TypeOK, BundlesUsed, PointerNotDangling, NEW k \in Keys, NEW a, Owns(k, a),
           Removes(k, a)
    PROVE  /\ BundlesUsed' /\ PointerNotDangling' /\ nextBundle' = nextBundle
           /\ bundles' \in {bundles, [bundles EXCEPT ![a] = NoBundle]}
  <1>1. nextBundle' = nextBundle
    BY DEF Removes
  <1>2. /\ bundles' \in {bundles, [bundles EXCEPT ![a] = NoBundle]}
        /\ \A l \in Keys : ptr'[l] \in {ptr[l], 0}
        /\ bundles' # bundles => ptr'[k] # a \/ ptr'[k] = 0
    BY DEF Removes, ExpireBundle, ExpireFails, InvalidateBundle, InvalidateFails, Unpointed, TypeOK
  <1>3. NoBundle.key = NoKey
    BY DEF NoBundle, Bundle
  <1>4. \A b \in BundleIds : bundles'[b] = bundles[b] \/ (b = a /\ bundles'[b] = NoBundle)
    BY <1>2 DEF TypeOK
  <1>5. BundlesUsed'
    BY <1>1, <1>3, <1>4 DEF BundlesUsed
  <1>6. PointerNotDangling'
    <2> SUFFICES ASSUME NEW l \in Keys, ptr'[l] # 0
                 PROVE  bundles'[ptr'[l]].key = l
      BY DEF PointerNotDangling
    <2>1. ptr'[l] = ptr[l] /\ ptr[l] \in BundleIds /\ bundles[ptr[l]].key = l
      BY <1>2 DEF TypeOK, PointerNotDangling
    <2>2. CASE bundles'[ptr[l]] = bundles[ptr[l]]
      BY <2>1, <2>2
    <2>3. CASE bundles'[ptr[l]] # bundles[ptr[l]]
      <3>1. ptr[l] = a /\ bundles' # bundles
        BY <1>4, <2>1, <2>3
      <3>2. l = k
        BY <2>1, <3>1, ConstantTypes DEF Owns
      <3> QED BY <1>2, <2>1, <3>1, <3>2
    <2> QED BY <2>2, <2>3
  <1> QED BY <1>1, <1>2, <1>5, <1>6

(* No step gives away a reference.                                           *)
LEMMA StoreStep ==
    ASSUME TypeOK, StepsAgree, StoreSound, [Next]_vars
    PROVE  /\ BundlesUsed' /\ PointerNotDangling'
           /\ nextBundle' \in {nextBundle, nextBundle + 1}
           /\ \A b \in BundleIds : b < nextBundle => bundles'[b] \in {bundles[b], NoBundle}
  <1>1. CASE UNCHANGED <<bundles, ptr, nextBundle>>
    BY <1>1 DEF StoreSound, BundlesUsed, PointerNotDangling
  <1>2. ASSUME NEW k \in Keys, Publishes(k)
        PROVE  /\ BundlesUsed' /\ PointerNotDangling' /\ nextBundle' = nextBundle + 1
               /\ \A b \in BundleIds : b < nextBundle => bundles'[b] = bundles[b]
    BY <1>2, PublishKeeps DEF StoreSound
  <1>3. ASSUME NEW k \in Keys, NEW a, Owns(k, a), Removes(k, a)
        PROVE  /\ BundlesUsed' /\ PointerNotDangling' /\ nextBundle' = nextBundle
               /\ \A b \in BundleIds : bundles'[b] \in {bundles[b], NoBundle}
    <2>1. /\ BundlesUsed' /\ PointerNotDangling' /\ nextBundle' = nextBundle
          /\ bundles' \in {bundles, [bundles EXCEPT ![a] = NoBundle]}
      BY <1>3, RemovalKeeps DEF StoreSound
    <2> QED BY <2>1 DEF TypeOK
  <1>4. CASE CrashInRemoval
    <2>1. /\ UNCHANGED <<bundles, nextBundle>>
          /\ \A k \in Keys : ptr'[k] \in {ptr[k], 0}
      BY <1>4 DEF CrashInRemoval, TypeOK
    <2> QED BY <2>1 DEF StoreSound, BundlesUsed, PointerNotDangling
  <1> QED BY <1>1, <1>2, <1>3, <1>4, StoreChange, RemovalOwned

(* Whoever owned a reference owns it after the step.                         *)
LEMMA OwnedStays ==
    ASSUME TypeOK, StepsAgree, StoreSound, [Next]_vars, NEW k, NEW a, Owns(k, a)
    PROVE  Owns(k, a)'
  <1> SUFFICES ASSUME a \in BundleIds
               PROVE  a < nextBundle' /\ bundles'[a].key \in {k, NoKey}
    BY DEF Owns
  <1>1. a < nextBundle /\ bundles[a].key \in {k, NoKey} /\ a \in Nat /\ nextBundle \in Nat
    BY DEF Owns, BundleIds, TypeOK
  <1>2. bundles'[a] \in {bundles[a], NoBundle} /\ nextBundle' \in {nextBundle, nextBundle + 1}
    BY <1>1, StoreStep
  <1>3. NoBundle.key = NoKey
    BY DEF NoBundle, Bundle
  <1>4. a < nextBundle'
    BY <1>1, <1>2
  <1> QED BY <1>1, <1>2, <1>3, <1>4

(* No bundle: owned by whoever asks.                                         *)
LEMMA NoneOwned == \A k : Owns(k, 0)
  BY DEF Owns, BundleIds

(* The records written have references that were the worker's or the         *)
(* submission's.                                                             *)
LEMMA RecordsOwned ==
    ASSUME TypeOK, StepsAgree, StoreSound, [Next]_vars, NEW j \in JobIds
    PROVE  Owns(jobs[j].key, jobs[j].art)' /\ Owns(dJobs[j].key, dJobs[j].art)'
  <1>1. Owns(jobs[j].key, jobs[j].art) /\ Owns(dJobs[j].key, dJobs[j].art)
    BY DEF StoreSound, ReferencesOwned
  <1>n. NoJob.art = 0 /\ \A r : Failed(r).art = 0
    BY DEF NoJob, Failed, Job
  <1>a. ASSUME NEW r, Owns(r.key, r.art) PROVE Owns(r.key, r.art)'
    BY <1>a, OwnedStays
  <1>2. /\ jobs'[j] \in {jobs[j], dJobs[j]} \/ jobs'[j].art = 0
           \/ \E r : NextRecord(j, r) /\ jobs'[j] = r
        /\ dJobs'[j] = dJobs[j] \/ dJobs'[j].art = 0
           \/ \E r : NextRecord(j, r) /\ dJobs'[j] = r
    <2>1. CASE Initialize
      BY <1>n, <2>1, InitializeRecords DEF StepsAgree, Loaded
    <2>2. CASE ~Initialize
      <3>1. UNCHANGED <<jobs[j], dJobs[j]>> \/ Written(j) \/ Dropped(j) \/ CopyFailed(j)
        BY <2>2, RecordStep
      <3> QED BY <1>n, <3>1 DEF Written, Dropped, CopyFailed
    <2> QED BY <2>1, <2>2
  <1>3. ASSUME NEW r, NextRecord(j, r) PROVE Owns(r.key, r.art)
    <2>1. CASE r = Started(jobs[j]) \/ r = Failed(jobs[j]) \/ r = Queued(sub.key)
      <3>1. r.art = 0
        BY <2>1 DEF Started, Failed, Queued, Job
      <3> QED BY <3>1, NoneOwned
    <2>2. CASE /\ j = worker.job /\ worker.pc = "complete"
               /\ r = Completed(jobs[j], worker.art, worker.expires)
      <3>1. r.key = jobs[j].key /\ r.art = worker.art
        BY <2>2 DEF Completed, Job
      <3> QED BY <2>2, <3>1 DEF StoreSound, ReferencesOwned
    <2>3. CASE r = CompletedHit(sub.key, sub.art, sub.bundle.expires)
      <3>1. r.key = sub.key /\ r.art = sub.art
        BY <2>3 DEF CompletedHit, Job
      <3> QED BY <3>1 DEF StoreSound, ReferencesOwned
    <2> QED BY <1>3, <2>1, <2>2, <2>3 DEF NextRecord
  <1>4. Owns(jobs'[j].key, jobs'[j].art)
    <2>1. CASE jobs'[j] \in {jobs[j], dJobs[j]}
      BY <1>1, <2>1
    <2>2. CASE jobs'[j].art = 0
      BY <2>2, NoneOwned
    <2>3. CASE \E r : NextRecord(j, r) /\ jobs'[j] = r
      BY <1>3, <2>3
    <2> QED BY <1>2, <2>1, <2>2, <2>3
  <1>5. Owns(dJobs'[j].key, dJobs'[j].art)
    <2>1. CASE dJobs'[j] = dJobs[j]
      BY <1>1, <2>1
    <2>2. CASE dJobs'[j].art = 0
      BY <2>2, NoneOwned
    <2>3. CASE \E r : NextRecord(j, r) /\ dJobs'[j] = r
      BY <1>3, <2>3
    <2> QED BY <1>2, <2>1, <2>2, <2>3
  <1>6. \A k, a : Owns(k, a) => (a \in BundleIds => a < nextBundle' /\ bundles'[a].key \in {k, NoKey})
    BY OwnedStays DEF Owns
  <1> QED BY <1>4, <1>5, <1>6 DEF Owns

(* How the submission in progress goes on.                                   *)
LEMMA SubmissionChange ==
    ASSUME TypeOK, StepsAgree, [Next]_vars
    PROVE  \/ sub' \in {sub, NoSubmission}
           \/ \E k \in Keys : sub' = Submitting("find", k, 0, NoBundle)
           \/ \E pc \in {"create", "admitted"} : sub' = [sub EXCEPT !.pc = pc]
           \/ sub' = [sub EXCEPT !.pc = "hit"] /\ sub.pc = "retained"
           \/ /\ Found(sub.key) # 0 /\ sub.key \in Keys /\ Find(sub.key)
              /\ UNCHANGED <<now, nextBundle, faults>>
              /\ sub' = Submitting("retained", sub.key, Found(sub.key), bundles[Found(sub.key)])
  <1> USE DEF store, repo, procs
  <1>1. CASE UNCHANGED vars \/ Initialize \/ Process
    BY <1>1, ProcessFrame DEF vars, Initialize, Down
  <1>2. CASE WorkerStep
    BY <1>2
       DEF WorkerStep, Recovery, RecoverFind, RecoverDone, PickCandidate, GetPermit,
           WorkerExit, Claim, Transcribe, Render, Publish, Complete, Invalidate, Cleanup,
           FailClean, FailWrite
  <1>3. CASE SubmitFind
    <2>1. sub.key \in Keys
      BY <1>3 DEF SubmitFind, StepsAgree, SubmissionCurrent
    <2>2. CASE /\ Find(sub.key) /\ Found(sub.key) # 0
               /\ sub' = Submitting("retained", sub.key, Found(sub.key), bundles[Found(sub.key)])
      <3>1. UNCHANGED faults
        BY <2>2 DEF Find, ExpireBundle
      <3> QED BY <1>3, <2>1, <2>2, <3>1 DEF SubmitFind
    <2> QED BY <1>3, <2>2 DEF SubmitFind
  <1>4. CASE SubmitRetained
    BY <1>4 DEF SubmitRetained
  <1>5. CASE \/ SubmitAdmit \/ SubmitMiss \/ SubmitRejected \/ SubmitHit
             \/ \E k \in Keys : SubmitBegin(k)
    BY <1>5 DEF SubmitAdmit, SubmitMiss, SubmitRejected, SubmitHit, SubmitBegin
  <1>6. CASE \/ SyncPublish \/ SyncAbort \/ SweepStart \/ SweepCompleted
             \/ \E k \in SyncKeys : SyncFind(k)
    BY <1>6 DEF SyncPublish, SyncAbort, SweepStart, SweepBundle, SweepFailed, SweepTombstone,
        SweepCompleted, SyncFind
  <1> QED BY <1>1, <1>2, <1>3, <1>4, <1>5, <1>6 DEF Next, SubmitStep, Process

(* How the worker comes to hold a bundle that no job names yet.              *)
LEMMA BundleInHand ==
    ASSUME TypeOK, StepsAgree, [Next]_vars, worker'.pc \in {"complete", "invalidate"}
    PROVE  \/ worker' = worker /\ ~Initialize /\ ~Claim /\ ~Complete /\ ~FailWrite
           \/ \E j \in JobIds :
                /\ RecoverFind(j) /\ Found(jobs[j].key) # 0 /\ Find(jobs[j].key)
                /\ worker' = Recovered(j, Found(jobs[j].key))
           \/ /\ Publish /\ PublishBundle(jobs[worker.job].key, worker.job)
              /\ worker' = Holding("complete", worker.mode, worker.job, worker.rev, nextBundle,
                                   now + ArtifactTtl)
           \/ Complete /\ worker' = [worker EXCEPT !.pc = "invalidate"] /\ UNCHANGED jobs /\ Fault
  <1> USE DEF store, repo, procs
  <1>t. worker \in WorkerState
    BY DEF TypeOK
  <1>a. \A pc \in {"off", "recover", "idle", "waiting"} : At(pc).pc = pc
    BY DEF At, Holding
  <1>b. /\ Done.pc \notin {"complete", "invalidate"}
        /\ \A pc : [worker EXCEPT !.pc = pc].pc = pc
    BY <1>a, <1>t DEF Done, WorkerState
  <1>1. CASE \/ Initialize \/ (Process /\ Down) \/ RecoverDone \/ WorkerExit \/ Claim
             \/ PickCandidate \/ GetPermit
    <2>1. CASE Initialize \/ (Process /\ Down) \/ RecoverDone \/ WorkerExit
      BY <1>a, <2>1 DEF Initialize, Down, RecoverDone, WorkerExit
    <2>2. CASE Claim \/ PickCandidate
      BY <1>a, <2>2 DEF Claim, PickCandidate, Holding
    <2>3. CASE GetPermit
      BY <1>b, <2>3 DEF GetPermit
    <2> QED BY <1>1, <2>1, <2>2, <2>3
  <1>2. ASSUME NEW j \in JobIds, RecoverFind(j)
        PROVE  /\ Found(jobs[j].key) # 0 /\ Find(jobs[j].key)
               /\ worker' = Recovered(j, Found(jobs[j].key))
    <2>1. /\ Find(jobs[j].key) /\ worker' = Recovered(j, Found(jobs[j].key))
      BY <1>2, <1>a DEF RecoverFind
    <2>2. Found(jobs[j].key) # 0
      BY <2>1 DEF Recovered, Holding
    <2> QED BY <2>1, <2>2
  <1>3. CASE Transcribe \/ Render \/ Invalidate \/ Cleanup \/ FailClean \/ FailWrite
    BY <1>3, <1>a, <1>b
       DEF Transcribe, Render, Invalidate, Cleanup, FailClean, FailWrite, StepTo, Throw, Continue
  <1>4. CASE Publish
    <2>1. CASE Throw(StepTo("failclean"))
      BY <1>a, <1>b, <2>1 DEF StepTo, Throw
    <2> QED BY <1>4, <2>1 DEF Publish
  <1>5. CASE Complete
    <2>1. CASE StepTo("cleanup")
      BY <1>b, <2>1 DEF StepTo
    <2>2. CASE StepTo("invalidate") /\ \E r : PutJobFails(worker.job, r)
      BY <1>5, <2>2 DEF StepTo, PutJobFails, Fault
    <2> QED BY <1>5, <2>1, <2>2 DEF Complete
  <1>6. CASE worker' \in {worker, Notified}
    <2>1. worker' = worker
      BY <1>6, <1>b DEF Notified
    <2>2. ~Initialize
      BY <1>a, <2>1 DEF Initialize
    <2>3. ~Claim /\ ~FailWrite
      BY <2>1 DEF Claim, FailWrite
    <2>4. CASE Complete
      BY <1>5, <2>4
    <2> QED BY <2>1, <2>2, <2>3, <2>4
  <1>7. CASE \/ UNCHANGED vars \/ (Process /\ ~Down) \/ SubmitStep
             \/ \E k \in Keys : SubmitBegin(k)
    BY <1>6, <1>7, ProcessFrame
       DEF vars, SubmitStep, SubmitFind, SubmitRetained, SubmitAdmit, SubmitMiss,
           SubmitRejected, SubmitHit, SubmitBegin
  <1>8. CASE \/ SyncPublish \/ SyncAbort \/ SweepStart \/ SweepCompleted
             \/ \E k \in SyncKeys : SyncFind(k)
    BY <1>6, <1>8 DEF SyncPublish, SyncAbort, SweepStart, SweepBundle, SweepFailed,
         SweepTombstone, SweepCompleted, SyncFind
  <1> QED
    BY <1>1, <1>2, <1>3, <1>4, <1>5, <1>7, <1>8 DEF Next, WorkerStep, Recovery, Process

(* The submission and the worker keep references to bundles of their key.    *)
LEMMA ReferencesStep ==
    ASSUME TypeOK, TypeOK', StepsAgree, StoreSound, [Next]_vars
    PROVE  ReferencesOwned'
  <1>r. ReferencesOwned
    BY DEF StoreSound
  <1> DEFINE Kept(k, a) ==
               a \in BundleIds => a < nextBundle' /\ bundles'[a].key \in {k, NoKey}
  <1>s. \A k, a : Owns(k, a) => Kept(k, a)
    BY OwnedStays DEF Owns
  <1>1. \A j \in JobIds : /\ Kept(jobs'[j].key, jobs'[j].art)
                         /\ Kept(dJobs'[j].key, dJobs'[j].art)
    BY RecordsOwned DEF Owns
  <1>2. Owns(sub'.key, sub'.art)
    <2> HIDE DEF Kept
    <2>1. CASE sub' = NoSubmission \/ \E k \in Keys : sub' = Submitting("find", k, 0, NoBundle)
      <3>1. sub'.art = 0
        BY <2>1 DEF NoSubmission, Submitting
      <3> QED BY <3>1, NoneOwned
    <2>2. CASE sub' = sub \/ \E pc : sub' = [sub EXCEPT !.pc = pc]
      <3>1. sub'.key = sub.key /\ sub'.art = sub.art
        BY <2>2 DEF TypeOK, Submission
      <3> QED BY <1>r, <3>1 DEF ReferencesOwned
    <2>3. CASE /\ Found(sub.key) # 0 /\ sub.key \in Keys
               /\ sub' = Submitting("retained", sub.key, Found(sub.key), bundles[Found(sub.key)])
      BY <2>3, FoundIsOwned DEF Submitting
    <2> QED BY <2>1, <2>2, <2>3, SubmissionChange
  <1>3. ASSUME worker'.pc \in {"complete", "invalidate"}
        PROVE  Kept(jobs'[worker'.job].key, worker'.art)
               /\ jobs'[worker'.job].status = "processing"
    <2>1. CASE worker' = worker /\ ~Initialize /\ ~Claim /\ ~Complete /\ ~FailWrite
      <3>1. /\ worker.job \in JobIds /\ jobs[worker.job].status = "processing"
            /\ Owns(jobs[worker.job].key, worker.art)
        BY <1>3, <1>r, <2>1 DEF ReferencesOwned, StepsAgree, WorkerCurrent
      <3>2. jobs'[worker.job] = jobs[worker.job]
        BY <2>1, <3>1, HeldRecord
      <3> QED BY <1>s, <2>1, <3>1, <3>2
    <2>2. ASSUME NEW j \in JobIds, RecoverFind(j), worker' = Recovered(j, Found(jobs[j].key)),
                 Found(jobs[j].key) # 0
          PROVE  Kept(jobs'[worker'.job].key, worker'.art)
                 /\ jobs'[worker'.job].status = "processing"
      <3>1. jobs' = jobs /\ j \in recover /\ worker'.job = j /\ worker'.art = Found(jobs[j].key)
        BY <2>2 DEF RecoverFind, repo, Recovered, Holding, Oldest
      <3>2. jobs[j].status = "processing" /\ jobs[j].key \in Keys
        BY <3>1 DEF StepsAgree, RecoveryCurrent, RecordsWhole, Whole, NoJob, Job
      <3>3. Owns(jobs[j].key, Found(jobs[j].key))
        BY <3>2, FoundIsOwned
      <3> QED BY <1>s, <3>1, <3>2, <3>3
    <2>3. CASE /\ Publish /\ PublishBundle(jobs[worker.job].key, worker.job)
               /\ worker' = Holding("complete", worker.mode, worker.job, worker.rev, nextBundle,
                                    now + ArtifactTtl)
      <3>1. /\ jobs' = jobs /\ worker'.job = worker.job /\ worker'.art = nextBundle
            /\ worker.job \in JobIds /\ jobs[worker.job].status = "processing"
            /\ nextBundle \in BundleIds
        BY <2>3 DEF Publish, repo, Holding, StepsAgree, WorkerCurrent
      <3>2. /\ bundles' = [bundles EXCEPT ![nextBundle] =
                              NewBundle(jobs[worker.job].key, worker.job)]
            /\ nextBundle' = nextBundle + 1
        BY <2>3 DEF PublishBundle
      <3>3. bundles'[nextBundle].key = jobs[worker.job].key
        BY <3>1, <3>2 DEF TypeOK, NewBundle, Bundle
      <3>4. nextBundle < nextBundle'
        BY <3>2 DEF TypeOK
      <3> QED BY <3>1, <3>3, <3>4
    <2>4. CASE Complete /\ worker' = [worker EXCEPT !.pc = "invalidate"] /\ UNCHANGED jobs
      <3>1. worker'.job = worker.job /\ worker'.art = worker.art
        BY <2>4 DEF TypeOK, WorkerState
      <3>2. worker.pc = "complete"
        BY <2>4 DEF Complete
      <3>3. Owns(jobs[worker.job].key, worker.art) /\ jobs[worker.job].status = "processing"
        BY <1>r, <3>2 DEF ReferencesOwned
      <3> QED BY <1>s, <2>4, <3>1, <3>3
    <2> QED BY <1>3, <2>1, <2>2, <2>3, <2>4, BundleInHand
  <1>4. Kept(sub'.key, sub'.art)
    BY <1>2, <1>s
  <1> QED BY <1>1, <1>3, <1>4 DEF ReferencesOwned, Owns

(* The store is sound in every state.                                        *)
THEOREM StoreInvariant == Spec => []StoreSound
  <1>1. Init => StoreSound
    <2>1. NoBundle.key = NoKey /\ NoJob.art = 0 /\ NoSubmission.art = 0 /\ At("off").pc = "off"
      BY DEF NoBundle, Bundle, NoJob, Job, NoSubmission, Submitting, At, Holding
    <2> QED BY <2>1, NoneOwned DEF Init, StoreSound, BundlesUsed, PointerNotDangling,
               ReferencesOwned
  <1>2. (TypeOK /\ StepsAgree) /\ (TypeOK /\ StepsAgree)' /\ StoreSound /\ [Next]_vars
          => StoreSound'
    BY StoreStep, ReferencesStep DEF StoreSound
  <1> QED BY <1>1, <1>2, TypeCorrect, PTL DEF Spec

(* No cache pointer names a bundle that is gone or another key's, whatever   *)
(* fails, crashes or runs in between (STORE-07).                             *)
THEOREM PointersNeverDangle == Spec => []PointerNotDangling
  BY StoreInvariant, PTL DEF StoreSound

----------------------------------------------------------------------------
(* While no storage operation has failed.                                     *)

(* A reference with an expiry is a promise: the bundle is there with that    *)
(* expiry until it comes.                                                    *)
Vouches(k, a, e) ==
    /\ a \in BundleIds /\ a < nextBundle
    /\ bundles[a] # NoBundle => bundles[a].key = k /\ bundles[a].expires = e
    /\ ~Expired(e) => bundles[a] # NoBundle

Promised ==
    /\ \A j \in JobIds : dJobs[j].status = "completed" =>
         Vouches(dJobs[j].key, dJobs[j].art, dJobs[j].expires)
    /\ sub.pc \in {"retained", "hit"} => Vouches(sub.key, sub.art, sub.bundle.expires)
    /\ worker.pc = "complete" => Vouches(jobs[worker.job].key, worker.art, worker.expires)

(* Memory and volume are the same and the worker invalidates nothing, except *)
(* for what crashes have left of the jobs whose expiry they cut: until the   *)
(* next start the tombstone that memory does not have, and from then on the  *)
(* record that memory does not have.                                         *)
Intact ==
    /\ worker.pc # "invalidate"
    /\ \A j \in JobIds :
        /\ \/ dJobs[j] = jobs[j]
           \/ /\ jobs[j] = NoJob /\ dJobs[j].status \in Terminal
              /\ Expired(dJobs[j].expires)
        /\ dTombs[j] = tombs[j] \/ (phase = "down" /\ jobs[j] # NoJob)

(* A processing job is the worker's, at the revision that the worker claimed,*)
(* or startup has still to reconcile it.                                     *)
InHand(j) ==
    \/ j \in recover
    \/ /\ j = worker.job /\ worker.rev = jobs[j].rev
       /\ worker.pc \in {"provider", "render", "publish", "complete", "failclean", "failwrite"}

ProcessingInHand ==
    phase # "down" => \A j \in JobIds : jobs[j].status = "processing" => InHand(j)

(* The job that the worker is about to claim is the first in line.           *)
NextInLine ==
    worker.pc \in {"permit", "permitted"} =>
        /\ recover = {} /\ worker.job < nextJob
        /\ \A i \in QueuedIds : worker.job <= i

Undisturbed == Intact /\ Promised /\ ProcessingInHand

(* A step counts its failure.                                                *)
LEMMA FaultCounted ==
    ASSUME [Next]_vars
    PROVE  Fault \/ faults' = faults
  <1>p. \A j, r : PutJob(j, r) \/ PutJobFails(j, r) => Fault \/ faults' = faults
    BY DEF PutJob, PutJobFails
  <1>f. \A k : Find(k) \/ FindFails(k) => Fault \/ faults' = faults
    BY DEF Find, FindFails, ExpireBundle, ExpireFails
  <1>u. \A k, p : PublishBundle(k, p) \/ PublishFails(k, p) => Fault \/ faults' = faults
    BY DEF PublishBundle, PublishFails
  <1>1. CASE UNCHANGED vars \/ Initialize \/ Process
    BY <1>1, CrashFrame DEF vars, Initialize, Process, Stop, Tick, Crash, Exit, RepairCut
  <1>2. CASE \/ RecoverDone \/ PickCandidate \/ GetPermit \/ WorkerExit \/ Transcribe
             \/ Render \/ Cleanup \/ FailClean \/ \E j \in JobIds : RecoverFind(j)
    BY <1>2, <1>f
       DEF RecoverFind, RecoverDone, PickCandidate, GetPermit, WorkerExit, Transcribe, Render,
           Cleanup, FailClean
  <1>3. CASE Claim \/ Complete \/ FailWrite
    BY <1>3, <1>p DEF Claim, Complete, FailWrite
  <1>4. CASE Publish \/ SyncPublish
    BY <1>4, <1>u DEF Publish, SyncPublish
  <1>5. CASE Invalidate
    BY <1>5 DEF Invalidate, InvalidateBundle, InvalidateFails
  <1>6. CASE \/ SubmitRetained \/ SubmitAdmit \/ SubmitMiss \/ SubmitRejected \/ SubmitHit
             \/ \E k \in Keys : SubmitBegin(k)
    BY <1>6, <1>p
       DEF SubmitBegin, SubmitRetained, SubmitAdmit, SubmitMiss, SubmitRejected, SubmitHit,
           CreateJob, CreateFails
  <1>7. CASE SubmitFind \/ \E k \in SyncKeys : SyncFind(k)
    BY <1>7, <1>f DEF SubmitFind, SyncFind
  <1>8. CASE SyncAbort \/ SweepCompleted \/ SweepStart
    BY <1>8 DEF SyncAbort, SweepCompleted, SweepStart, SweepBundle, SweepFailed,
         SweepTombstone, ExpireJob, ExpireBundle, ExpireFails
  <1> QED
    BY <1>1, <1>2, <1>3, <1>4, <1>5, <1>6, <1>7, <1>8
       DEF Next, WorkerStep, Recovery, SubmitStep, Process

(* No step forgets a failure.                                                *)
LEMMA FaultFrame ==
    ASSUME TypeOK, [Next]_vars, faults' = 0
    PROVE  faults = 0 /\ ~Fault
  <1>1. faults \in Nat
    BY DEF TypeOK
  <1> QED BY <1>1, FaultCounted DEF Fault

(* Only a start leaves "down".                                               *)
LEMMA StartFrame ==
    ASSUME StepsAgree, TypeOK, [Next]_vars, ~Initialize, phase = "down"
    PROVE  phase' = "down"
  <1> USE DEF store, repo, procs, StepsAgree, WorkerCurrent, SubmissionCurrent, SweepCurrent
  <1>1. CASE UNCHANGED vars \/ Process
    BY <1>1, ProcessFrame DEF vars, Down
  <1>2. CASE Recovery \/ PickCandidate \/ GetPermit \/ WorkerExit \/ Claim
    BY <1>2 DEF Recovery, RecoverFind, RecoverDone, PickCandidate, GetPermit, WorkerExit, Claim
  <1>3. CASE \/ Transcribe \/ Render \/ Publish \/ Complete \/ Invalidate \/ Cleanup
             \/ FailClean \/ FailWrite
    BY <1>3 DEF Transcribe, Render, Publish, Complete, Invalidate, Cleanup, FailClean,
         FailWrite, StepTo, Throw, Continue
  <1>4. CASE SubmitStep \/ \E k \in Keys : SubmitBegin(k)
    BY <1>4 DEF SubmitStep, SubmitBegin, SubmitFind, SubmitRetained, SubmitAdmit,
         SubmitMiss, SubmitRejected, SubmitHit
  <1>5. CASE \/ SyncPublish \/ SyncAbort \/ SweepStart \/ SweepCompleted
             \/ \E k \in SyncKeys : SyncFind(k)
    BY <1>5 DEF SyncPublish, SyncAbort, SweepStart, SweepBundle, SweepFailed,
         SweepTombstone, SweepCompleted, SyncFind
  <1> QED BY <1>1, <1>2, <1>3, <1>4, <1>5 DEF Next, WorkerStep, Process

(* The next start finds nothing to repair.                                   *)
LEMMA NothingToRepair ==
    ASSUME OneActivePerKey, Intact
    PROVE  Duplicates = {}
  <1>1. \A j \in ActiveIds(Loaded) : j \in ActiveIds(jobs) /\ Loaded[j] = jobs[j]
    BY DEF ActiveIds, Loaded, Intact, NoJob, Job, Active, Terminal
  <1> SUFFICES ASSUME NEW j \in ActiveIds(Loaded), NEW i \in ActiveIds(Loaded), i < j,
                      Loaded[i].key = Loaded[j].key
               PROVE  FALSE
    BY DEF Duplicates, IsDuplicate
  <1>2. i = j
    BY <1>1 DEF OneActivePerKey
  <1> QED BY <1>2 DEF ActiveIds, JobIds

(* It loads the records that have no tombstone, and changes none.            *)
LEMMA StartLoads ==
    ASSUME TypeOK, OneActivePerKey, Intact, Initialize
    PROVE  /\ jobs' = Loaded /\ tombs' = dTombs
           /\ dJobs' = dJobs /\ dTombs' = dTombs /\ nextJob' = nextJob /\ now' = now
  <1>1. Duplicates = {}
    BY NothingToRepair
  <1>2. Repaired = Loaded
    BY <1>1 DEF Repaired, Loaded
  <1> QED BY <1>1, <1>2 DEF Initialize, TypeOK

(* Without a failure every write reaches the volume and memory alike.        *)
LEMMA IntactStep ==
    ASSUME TypeOK, StepsAgree, OneActivePerKey, Intact, [Next]_vars, ~Fault
    PROVE  Intact'
  <1>1. now <= now' /\ now \in Nat /\ now' \in Nat
    BY ClockFrame DEF TypeOK
  <1>2. \A j \in JobIds : dJobs[j].expires \in Nat
    BY DEF TypeOK, JobRecord
  <1>4. phase = "down" => Initialize \/ phase' = "down"
    BY StartFrame
  <1>5. ASSUME NEW j \in JobIds, ~Initialize,
               UNCHANGED <<jobs[j], dJobs[j]>> \/ dJobs'[j] = jobs'[j],
               \/ dTombs'[j] = tombs'[j]
               \/ phase' = "down" /\ jobs'[j] # NoJob
               \/ UNCHANGED <<tombs[j], dTombs[j]>> /\ (jobs[j] # NoJob => jobs'[j] # NoJob)
        PROVE  /\ \/ dJobs'[j] = jobs'[j]
                  \/ /\ jobs'[j] = NoJob /\ dJobs'[j].status \in Terminal
                     /\ Expired(dJobs[j].expires)' /\ dJobs'[j] = dJobs[j]
               /\ dTombs'[j] = tombs'[j] \/ (phase' = "down" /\ jobs'[j] # NoJob)
    <2>1. /\ \/ dJobs[j] = jobs[j]
             \/ /\ jobs[j] = NoJob /\ dJobs[j].status \in Terminal
                /\ Expired(dJobs[j].expires)
          /\ dTombs[j] = tombs[j] \/ (phase = "down" /\ jobs[j] # NoJob)
      BY DEF Intact
    <2>2. Expired(dJobs[j].expires) => (dJobs'[j] = dJobs[j] => Expired(dJobs[j].expires)')
      BY <1>1, <1>2 DEF Expired
    <2> QED BY <1>4, <1>5, <2>1, <2>2
  <1>6. ASSUME NEW j \in JobIds
        PROVE  /\ \/ dJobs'[j] = jobs'[j]
                  \/ /\ jobs'[j] = NoJob /\ dJobs'[j].status \in Terminal
                     /\ Expired(dJobs[j].expires)' /\ dJobs'[j] = dJobs[j]
               /\ dTombs'[j] = tombs'[j] \/ (phase' = "down" /\ jobs'[j] # NoJob)
    <2>1. CASE UNCHANGED repo /\ ~Initialize
      BY <1>5, <2>1 DEF repo
    <2>2. CASE Initialize
      <3>1. /\ jobs'[j] = Loaded[j] /\ tombs'[j] = dTombs[j] /\ dTombs'[j] = dTombs[j]
            /\ dJobs'[j] = dJobs[j] /\ now' = now
        BY <2>2, StartLoads
      <3>2. CASE dTombs[j] = 0
        BY <3>1, <3>2 DEF Loaded
      <3>3. CASE dTombs[j] # 0
        <4>1. jobs[j] = NoJob \/ (jobs[j].status \in Terminal /\ Expired(jobs[j].expires))
          BY <3>3 DEF StepsAgree, TombstonesApart
        <4>2. dJobs[j] = NoJob \/ (dJobs[j].status \in Terminal /\ Expired(dJobs[j].expires))
          BY <4>1 DEF Intact
        <4> QED BY <3>1, <3>3, <4>2 DEF Loaded, Expired
      <3> QED BY <3>2, <3>3
    <2>3. CASE (Claim \/ Complete \/ FailWrite \/ SubmitMiss \/ SubmitHit) /\ ~Initialize
      <3>1. \/ UNCHANGED <<jobs, dJobs, tombs, dTombs>>
            \/ \E i, r : PutJob(i, r) /\ r.status # "absent"
        BY <2>3 DEF Claim, Complete, FailWrite, SubmitMiss, SubmitHit, CreateJob, CreateFails,
             PutJobFails, Started, Completed, Failed, Queued, CompletedHit, Job
      <3>2. CASE UNCHANGED <<jobs, dJobs, tombs, dTombs>>
        BY <1>5, <2>3, <3>2
      <3>3. ASSUME NEW i, NEW r, PutJob(i, r), r.status # "absent"
            PROVE  /\ UNCHANGED <<tombs[j], dTombs[j]>>
                   /\ \/ UNCHANGED <<jobs[j], dJobs[j]>>
                      \/ dJobs'[j] = jobs'[j] /\ jobs'[j] # NoJob
        BY <3>3 DEF PutJob, TypeOK, NoJob, Job
      <3> QED BY <1>5, <2>3, <3>1, <3>2, <3>3
    <2>4. ASSUME NEW i \in JobIds, ExpireJob(i), ~Initialize
          PROVE  /\ UNCHANGED <<jobs[j], dJobs[j]>> \/ dJobs'[j] = jobs'[j]
                 /\ \/ dTombs'[j] = tombs'[j]
                    \/ UNCHANGED <<jobs[j], tombs[j], dTombs[j]>>
      BY <2>4 DEF ExpireJob, TypeOK
    <2>5. CASE (SweepCompleted \/ \E i \in JobIds : SweepFailed(i)) /\ ~Initialize
      <3>1. PICK i \in JobIds : ExpireJob(i)
        BY <2>5 DEF SweepCompleted, SweepFailed, TypeOK
      <3> QED BY <1>5, <2>4, <2>5, <3>1
    <2>6. CASE (\E i \in JobIds : SweepTombstone(i)) /\ ~Initialize
      <3>1. /\ UNCHANGED <<jobs, dJobs>>
            /\ dTombs'[j] = tombs'[j] \/ UNCHANGED <<tombs[j], dTombs[j]>>
        BY <2>6 DEF SweepTombstone, TypeOK
      <3> QED BY <1>5, <2>6, <3>1
    <2>7. ~RepairCut
      BY NothingToRepair DEF RepairCut
    <2>8. CASE CrashInExpiry /\ ~Initialize
      <3>1. PICK i \in JobIds : /\ i = sweeping \/ Due(i, "failed")
                                /\ dTombs' = [dTombs EXCEPT ![i] = TombExpiry(i)]
        BY <2>8 DEF CrashInExpiry
      <3>2. jobs[i] # NoJob /\ phase' = "down" /\ UNCHANGED <<jobs, dJobs, tombs>>
        BY <2>8, <3>1 DEF CrashInExpiry, Dies, Down, Due, StepsAgree, SweepCurrent, NoJob, Job,
               JobIds
      <3>3. i # j => dTombs'[j] = dTombs[j]
        BY <3>1 DEF TypeOK
      <3> QED BY <1>5, <2>8, <3>2, <3>3
    <2> QED BY <2>1, <2>2, <2>3, <2>5, <2>6, <2>7, <2>8, RepoFrame DEF RepoChanges
  <1>7. worker'.pc # "invalidate"
    <2>1. \A j, a : Recovered(j, a).pc # "invalidate"
      BY DEF Recovered, Holding
    <2>2. \A m, j, v, a, e : Holding("complete", m, j, v, a, e).pc # "invalidate"
      BY DEF Holding
    <2> QED BY <2>1, <2>2, BundleInHand DEF Intact
  <1> QED BY <1>6, <1>7 DEF Intact, Expired

(* Without a failure only a bundle that is due is removed.                   *)
LEMMA RemovedIsDue ==
    ASSUME TypeOK, StepsAgree, StoreSound, Intact, Promised, [Next]_vars, ~Fault,
           NEW a \in BundleIds, a < nextBundle, bundles'[a] # bundles[a]
    PROVE  bundles'[a] = NoBundle /\ Expired(bundles[a].expires)
  <1>1. bundles'[a] = NoBundle
    BY StoreStep
  <1>2. ASSUME NEW k \in Keys, Find(k) \/ FindFails(k)
        PROVE  Expired(bundles[a].expires)
    <2>1. CASE PointerExpired(k)
      <3>1. ExpireBundle(k, ptr[k])
        BY <1>2, <2>1 DEF Find, FindFails, ExpireFails
      <3>2. a = ptr[k]
        BY <3>1 DEF ExpireBundle, TypeOK
      <3> QED BY <2>1, <3>2 DEF PointerExpired
    <2>2. CASE ~PointerExpired(k)
      BY <1>2, <2>2 DEF Find, FindFails
    <2> QED BY <2>1, <2>2
  <1>3. ASSUME NEW j \in JobIds, SweepBundle(j)
        PROVE  Expired(bundles[a].expires)
    <2>1. /\ ExpireBundle(jobs[j].key, jobs[j].art)
          /\ jobs[j].status = "completed" /\ Expired(jobs[j].expires)
      BY <1>3 DEF SweepBundle, Due, ExpireFails
    <2>2. a = jobs[j].art
      BY <2>1 DEF ExpireBundle, TypeOK
    <2>3. Vouches(jobs[j].key, a, jobs[j].expires)
      <3>1. dJobs[j] = jobs[j]
        BY <2>1 DEF Intact, NoJob, Job
      <3> QED BY <2>1, <2>2, <3>1 DEF Promised
    <2> QED BY <1>1, <2>1, <2>3 DEF Vouches
  <1>4. ~Invalidate
    BY DEF Invalidate, Intact
  <1>5. ~ \E k \in Keys : Publishes(k)
    BY PublishKeeps DEF StoreSound
  <1>6. ~CrashInRemoval
    BY DEF CrashInRemoval
  <1> QED BY <1>1, <1>2, <1>3, <1>4, <1>5, <1>6, StoreChange

(* So a promise is kept.                                                     *)
LEMMA PromiseKept ==
    ASSUME TypeOK, StepsAgree, StoreSound, Intact, Promised, [Next]_vars, ~Fault,
           NEW k \in Keys, NEW a, NEW e \in Nat, Vouches(k, a, e)
    PROVE  Vouches(k, a, e)'
  <1>0. a \in BundleIds /\ a < nextBundle /\ a \in Nat /\ nextBundle \in Nat
    BY DEF Vouches, BundleIds, TypeOK
  <1>1. nextBundle' \in {nextBundle, nextBundle + 1}
    BY StoreStep
  <1>2. a < nextBundle'
    BY <1>0, <1>1
  <1>3. Expired(e) => Expired(e)'
    BY ClockFrame DEF Expired, TypeOK
  <1>4. CASE bundles'[a] = bundles[a]
    BY <1>0, <1>2, <1>3, <1>4 DEF Vouches
  <1>5. CASE bundles'[a] # bundles[a]
    <2>1. bundles'[a] = NoBundle /\ Expired(bundles[a].expires)
      BY <1>0, <1>5, RemovedIsDue
    <2>2. Expired(e)
      BY <1>5, <2>1 DEF Vouches
    <2> QED BY <1>0, <1>2, <1>3, <2>1, <2>2 DEF Vouches
  <1> QED BY <1>4, <1>5

(* The records, the submission and the worker get promises from the store or *)
(* from each other.                                                          *)
LEMMA PromisedStep ==
    ASSUME TypeOK, TypeOK', StepsAgree, OneActivePerKey, StoreSound, Intact, Promised,
           [Next]_vars, ~Fault
    PROVE  Promised'
  <1> DEFINE Kept(k, a, e) ==
               /\ a \in BundleIds /\ a < nextBundle'
               /\ bundles'[a] # NoBundle => bundles'[a].key = k /\ bundles'[a].expires = e
               /\ ~(e # 0 /\ e <= now') => bundles'[a] # NoBundle
  <1>s. ASSUME NEW k \in Keys, NEW a, NEW e \in Nat, Vouches(k, a, e) PROVE Kept(k, a, e)
    BY <1>s, PromiseKept DEF Vouches, Expired
  <1> HIDE DEF Kept
  <1>k. \A j \in JobIds : jobs[j].status # "absent" => jobs[j].key \in Keys
    BY DEF StepsAgree, RecordsWhole, Whole, NoJob, Job
  <1>e. /\ \A j \in JobIds : jobs[j].expires \in Nat /\ dJobs[j].expires \in Nat
        /\ sub.bundle.expires \in Nat /\ worker.expires \in Nat
    BY DEF TypeOK, JobRecord, Submission, BundleRecord, WorkerState
  <1>w. worker.pc \in {"complete", "invalidate"} =>
          worker.job \in JobIds /\ jobs[worker.job].status = "processing"
    BY DEF StepsAgree, WorkerCurrent, StoreSound, ReferencesOwned
  <1>1. ASSUME NEW j \in JobIds, dJobs'[j].status = "completed"
        PROVE  Kept(dJobs'[j].key, dJobs'[j].art, dJobs'[j].expires)
    <2>1. CASE dJobs'[j] = dJobs[j]
      <3>1. dJobs[j].key \in Keys
        BY <1>1, <2>1 DEF StepsAgree, RecordsWhole, Whole, NoJob, Job
      <3>2. Vouches(dJobs[j].key, dJobs[j].art, dJobs[j].expires)
        BY <1>1, <2>1 DEF Promised
      <3> QED BY <1>e, <1>s, <2>1, <3>1, <3>2
    <2>2. CASE dJobs'[j] # dJobs[j]
      <3>1. NextRecord(j, dJobs'[j])
        <4>1. ~Initialize
          BY <2>2, StartLoads
        <4>2. ~Dropped(j)
          BY <1>1 DEF Dropped, NoJob, Job
        <4>3. ~CopyFailed(j)
          BY NothingToRepair DEF CopyFailed
        <4> QED BY <2>2, <4>1, <4>2, <4>3, RecordStep DEF Written
      <3>2. CASE /\ jobs[j].status = "processing" /\ j = worker.job /\ worker.pc = "complete"
                 /\ dJobs'[j] = Completed(jobs[j], worker.art, worker.expires)
        <4>1. /\ dJobs'[j].key = jobs[j].key /\ dJobs'[j].art = worker.art
              /\ dJobs'[j].expires = worker.expires
          BY <3>2 DEF Completed, Job
        <4>2. Vouches(jobs[j].key, worker.art, worker.expires) /\ jobs[j].key \in Keys
          BY <1>k, <3>2 DEF Promised
        <4> QED BY <1>e, <1>s, <4>1, <4>2
      <3>3. CASE sub.pc = "hit" /\ dJobs'[j] = CompletedHit(sub.key, sub.art, sub.bundle.expires)
        <4>1. /\ dJobs'[j].key = sub.key /\ dJobs'[j].art = sub.art
              /\ dJobs'[j].expires = sub.bundle.expires
          BY <3>3 DEF CompletedHit, Job
        <4>2. Vouches(sub.key, sub.art, sub.bundle.expires) /\ sub.key \in Keys
          BY <3>3 DEF Promised, StepsAgree, SubmissionCurrent
        <4> QED BY <1>e, <1>s, <4>1, <4>2
      <3> QED BY <1>1, <3>1, <3>2, <3>3 DEF NextRecord, Started, Failed, Queued, Job
    <2> QED BY <2>1, <2>2
  <1>2. ASSUME sub'.pc \in {"retained", "hit"}
        PROVE  Kept(sub'.key, sub'.art, sub'.bundle.expires)
    <2>1. CASE sub' = sub \/ (sub' = [sub EXCEPT !.pc = "hit"] /\ sub.pc = "retained")
      <3>1. /\ sub'.key = sub.key /\ sub'.art = sub.art /\ sub'.bundle = sub.bundle
            /\ sub.pc \in {"retained", "hit"}
        BY <1>2, <2>1 DEF TypeOK, Submission
      <3>2. Vouches(sub.key, sub.art, sub.bundle.expires) /\ sub.key \in Keys
        BY <3>1 DEF Promised, StepsAgree, SubmissionCurrent
      <3> QED BY <1>e, <1>s, <3>1, <3>2
    <2>2. CASE /\ Found(sub.key) # 0 /\ sub.key \in Keys
               /\ sub' = Submitting("retained", sub.key, Found(sub.key), bundles[Found(sub.key)])
      <3> DEFINE a == Found(sub.key)
      <3>1. /\ a \in BundleIds /\ bundles[a].key = sub.key /\ a < nextBundle
        BY <2>2, FoundIsOwned
      <3>2. bundles[a] # NoBundle /\ bundles[a].expires \in Nat
        BY <2>2, <3>1, ConstantTypes DEF TypeOK, BundleRecord, NoBundle, Bundle
      <3>3. Vouches(sub.key, a, bundles[a].expires)
        BY <3>1, <3>2 DEF Vouches
      <3>4. Kept(sub.key, a, bundles[a].expires)
        BY <1>s, <2>2, <3>2, <3>3
      <3> QED BY <2>2, <3>4 DEF Submitting
    <2>3. ~ \E k \in Keys : sub' = Submitting("find", k, 0, NoBundle)
      BY <1>2 DEF Submitting
    <2>4. /\ sub' # NoSubmission
          /\ \A pc \in {"create", "admitted"} : sub' # [sub EXCEPT !.pc = pc]
      BY <1>2 DEF NoSubmission, Submitting, TypeOK, Submission
    <2> QED BY <2>1, <2>2, <2>3, <2>4, SubmissionChange
  <1>3. ASSUME worker'.pc = "complete"
        PROVE  Kept(jobs'[worker'.job].key, worker'.art, worker'.expires)
    <2>1. CASE worker' = worker /\ ~Initialize /\ ~Claim /\ ~Complete /\ ~FailWrite
      <3>1. jobs'[worker.job] = jobs[worker.job]
        BY <1>3, <1>w, <2>1, HeldRecord
      <3>2. Vouches(jobs[worker.job].key, worker.art, worker.expires)
            /\ jobs[worker.job].key \in Keys
        BY <1>3, <1>k, <1>w, <2>1 DEF Promised
      <3> QED BY <1>e, <1>s, <2>1, <3>1, <3>2
    <2>2. ASSUME NEW j \in JobIds, RecoverFind(j), Found(jobs[j].key) # 0,
                 worker' = Recovered(j, Found(jobs[j].key))
          PROVE  Kept(jobs'[worker'.job].key, worker'.art, worker'.expires)
      <3> DEFINE a == Found(jobs[j].key)
      <3>1. /\ jobs' = jobs /\ j \in recover /\ worker'.job = j /\ worker'.art = a
            /\ worker'.expires = bundles[a].expires
        BY <2>2 DEF RecoverFind, repo, Recovered, Holding, Oldest
      <3>2. jobs[j].key \in Keys
        BY <1>k, <3>1 DEF StepsAgree, RecoveryCurrent
      <3>3. /\ a \in BundleIds /\ bundles[a].key = jobs[j].key /\ a < nextBundle
        BY <2>2, <3>2, FoundIsOwned
      <3>4. bundles[a] # NoBundle /\ bundles[a].expires \in Nat
        BY <3>2, <3>3, ConstantTypes DEF TypeOK, BundleRecord, NoBundle, Bundle
      <3>5. Vouches(jobs[j].key, a, bundles[a].expires)
        BY <3>3, <3>4 DEF Vouches
      <3>6. Kept(jobs[j].key, a, bundles[a].expires)
        BY <1>s, <3>2, <3>4, <3>5
      <3> QED BY <3>1, <3>6
    <2>3. CASE /\ Publish /\ PublishBundle(jobs[worker.job].key, worker.job)
               /\ worker' = Holding("complete", worker.mode, worker.job, worker.rev, nextBundle,
                                    now + ArtifactTtl)
      <3>1. /\ jobs' = jobs /\ worker'.job = worker.job /\ worker'.art = nextBundle
            /\ worker'.expires = now + ArtifactTtl /\ now' = now
            /\ worker.job \in JobIds /\ nextBundle \in BundleIds
            /\ jobs[worker.job].status = "processing"
        BY <2>3 DEF Publish, repo, Holding, StepsAgree, WorkerCurrent
      <3>2. /\ bundles' = [bundles EXCEPT ![nextBundle] =
                              NewBundle(jobs[worker.job].key, worker.job)]
            /\ nextBundle' = nextBundle + 1
        BY <2>3 DEF PublishBundle
      <3>3. /\ bundles'[nextBundle].key = jobs[worker.job].key
            /\ bundles'[nextBundle].expires = now + ArtifactTtl
        BY <3>1, <3>2 DEF TypeOK, NewBundle, Bundle
      <3>4. jobs[worker.job].key \in Keys
        BY <1>k, <3>1
      <3>5. bundles'[nextBundle] # NoBundle
        BY <3>3, <3>4, ConstantTypes DEF NoBundle, Bundle
      <3>6. nextBundle < nextBundle'
        BY <3>2 DEF TypeOK
      <3> QED BY <3>1, <3>3, <3>5, <3>6 DEF Kept
    <2> QED BY <1>3, <2>1, <2>2, <2>3, BundleInHand
  <1> QED BY <1>1, <1>2, <1>3 DEF Kept, Promised, Vouches, Expired

(* The steps between which startup's list stays as it is.                    *)
LEMMA RecoverChange ==
    ASSUME TypeOK, StepsAgree, [Next]_vars, ~Initialize
    PROVE  \/ recover' = recover \/ (recover' = {} /\ phase' = "down")
           \/ \E i \in JobIds : /\ RecoverFind(i) /\ recover' = recover \ {i}
                                /\ worker' = Recovered(i, Found(jobs[i].key))
  <1> USE DEF store, repo, procs
  <1>1. CASE UNCHANGED vars \/ Process
    BY <1>1, ProcessFrame DEF vars, Down
  <1>2. ASSUME NEW i \in JobIds, RecoverFind(i)
        PROVE  \/ recover' = {} /\ phase' = "down"
               \/ recover' = recover \ {i} /\ worker' = Recovered(i, Found(jobs[i].key))
    BY <1>2 DEF RecoverFind
  <1>3. CASE RecoverDone \/ PickCandidate \/ GetPermit \/ WorkerExit \/ Claim
    BY <1>3 DEF RecoverDone, PickCandidate, GetPermit, WorkerExit, Claim
  <1>4. CASE \/ Transcribe \/ Render \/ Publish \/ Complete \/ Invalidate \/ Cleanup
             \/ FailClean \/ FailWrite
    BY <1>4 DEF Transcribe, Render, Publish, Complete, Invalidate, Cleanup, FailClean,
         FailWrite, StepTo, Throw, Continue
  <1>5. CASE SubmitStep \/ \E k \in Keys : SubmitBegin(k)
    BY <1>5 DEF SubmitStep, SubmitBegin, SubmitFind, SubmitRetained, SubmitAdmit,
         SubmitMiss, SubmitRejected, SubmitHit
  <1>6. CASE \/ SyncPublish \/ SyncAbort \/ SweepStart \/ SweepCompleted
             \/ \E k \in SyncKeys : SyncFind(k)
    BY <1>6 DEF SyncPublish, SyncAbort, SweepStart, SweepBundle, SweepFailed,
         SweepTombstone, SweepCompleted, SyncFind
  <1> QED BY <1>1, <1>2, <1>3, <1>4, <1>5, <1>6 DEF Next, WorkerStep, Recovery, Process

(* The worker goes on with the job in hand until the job has ended.          *)
LEMMA WorkerGoesOn ==
    ASSUME TypeOK, StepsAgree, Intact, [Next]_vars, ~Fault, ~Initialize, phase' # "down",
           worker.pc \in {"provider", "render", "publish", "complete", "failclean", "failwrite"},
           worker.rev = jobs[worker.job].rev, jobs[worker.job].status = "processing",
           jobs'[worker.job] = jobs[worker.job]
    PROVE  /\ worker'.job = worker.job /\ worker'.rev = worker.rev
           /\ worker'.pc \in {"provider", "render", "publish", "complete", "failclean",
                              "failwrite"}
  <1> USE DEF store, repo, procs
  <1>t. worker \in WorkerState /\ worker.job \in JobIds
    BY DEF TypeOK, StepsAgree, WorkerCurrent
  <1>a. ASSUME NEW pc \in {"render", "publish", "complete", "failclean", "failwrite"},
               StepTo(pc)
        PROVE  worker'.job = worker.job /\ worker'.rev = worker.rev /\ worker'.pc = pc
    BY <1>a, <1>t DEF StepTo, WorkerState
  <1>1. CASE UNCHANGED vars \/ Process
    BY <1>1, ProcessFrame DEF vars, Down
  <1>2. CASE Transcribe
    BY <1>2, <1>a DEF Transcribe
  <1>3. CASE Render
    BY <1>3, <1>a DEF Render
  <1>4. CASE Publish
    BY <1>4 DEF Publish, PublishFails, Holding
  <1>5. CASE Complete
    <2>1. PutJob(worker.job, Completed(jobs[worker.job], worker.art, worker.expires))
      BY <1>5 DEF Complete, PutJobFails
    <2>2. jobs'[worker.job].status = "completed"
      BY <1>t, <2>1 DEF PutJob, TypeOK, Completed, Job
    <2> QED BY <2>2
  <1>6. CASE FailClean
    BY <1>6, <1>a DEF FailClean
  <1>7. CASE FailWrite
    <2>1. PutJob(worker.job, Failed(jobs[worker.job]))
      BY <1>7 DEF FailWrite, MayFail, PutJobFails
    <2>2. jobs'[worker.job].status = "failed"
      BY <1>t, <2>1 DEF PutJob, TypeOK, Failed, Job
    <2> QED BY <2>2
  <1>8. CASE \/ Recovery \/ PickCandidate \/ GetPermit \/ WorkerExit \/ Claim \/ Invalidate
             \/ Cleanup
    BY <1>8 DEF Recovery, RecoverFind, RecoverDone, PickCandidate, GetPermit, WorkerExit,
         Claim, Invalidate, Cleanup, Intact
  <1>9. CASE SubmitStep \/ \E k \in Keys : SubmitBegin(k)
    <2>1. worker' \in {worker, Notified}
      BY <1>9 DEF SubmitStep, SubmitBegin, SubmitFind, SubmitRetained, SubmitAdmit,
           SubmitMiss, SubmitRejected, SubmitHit
    <2> QED BY <2>1 DEF Notified
  <1>10. CASE \/ SyncPublish \/ SyncAbort \/ SweepStart \/ SweepCompleted
              \/ \E k \in SyncKeys : SyncFind(k)
    BY <1>10 DEF SyncPublish, SyncAbort, SweepStart, SweepBundle, SweepFailed,
         SweepTombstone, SweepCompleted, SyncFind
  <1> QED BY <1>1, <1>2, <1>3, <1>4, <1>5, <1>6, <1>7, <1>8, <1>9, <1>10 DEF Next, WorkerStep, Process

(* No processing job is left behind by a step that does not fail.            *)
LEMMA InHandStep ==
    ASSUME TypeOK, StepsAgree, OneActivePerKey, Intact, ProcessingInHand, [Next]_vars, ~Fault
    PROVE  ProcessingInHand'
  <1> SUFFICES ASSUME phase' # "down", NEW j \in JobIds, jobs'[j].status = "processing"
               PROVE  InHand(j)'
    BY DEF ProcessingInHand
  <1>1. CASE Initialize
    BY <1>1 DEF Initialize, InHand
  <1>2. CASE ~Initialize /\ jobs'[j] # jobs[j]
    <2>1. Claim /\ j = worker.job
      <3>1. CASE WorkerWrites(j)
        <4>1. CASE Complete \/ FailWrite
          <5>1. \/ jobs'[j] = Completed(jobs[j], worker.art, worker.expires)
                \/ jobs'[j] = Failed(jobs[j])
            BY <1>2, <3>1, <4>1
               DEF Complete, FailWrite, WorkerWrites, PutJob, PutJobFails, TypeOK
          <5> QED BY <5>1 DEF Completed, Failed, Job
        <4> QED BY <3>1, <4>1 DEF WorkerWrites
      <3>2. CASE SubmitWrites(j)
        <4>1. jobs'[j] = Queued(sub.key)
              \/ jobs'[j] = CompletedHit(sub.key, sub.art, sub.bundle.expires)
          BY <1>2, <3>2 DEF SubmitWrites, SubmitMiss, SubmitHit, CreateJob, CreateFails, PutJob,
               PutJobFails, TypeOK
        <4> QED BY <4>1 DEF Queued, CompletedHit, Job
      <3>3. CASE SweepWrites(j)
        BY <3>3 DEF SweepWrites, NoJob, Job
      <3> QED BY <1>2, <3>1, <3>2, <3>3, WhoWrites
    <2>2. /\ PutJob(j, Started(jobs[j]))
          /\ worker' = Holding("provider", "loop", j, Started(jobs[j]).rev, 0, 0)
      BY <2>1 DEF Claim, PutJobFails
    <2>3. jobs'[j] = Started(jobs[j])
      BY <2>2 DEF PutJob, TypeOK
    <2> QED BY <2>2, <2>3 DEF InHand, Holding
  <1>3. CASE ~Initialize /\ jobs'[j] = jobs[j]
    <2>1. InHand(j)
      BY <1>3, StartFrame DEF ProcessingInHand
    <2>2. CASE j \in recover
      <3>1. ASSUME NEW i \in JobIds, RecoverFind(i), recover' = recover \ {i},
                   worker' = Recovered(i, Found(jobs[i].key))
            PROVE  InHand(j)'
        <4>1. CASE i = j
          BY <1>3, <3>1, <4>1 DEF InHand, Recovered, Holding
        <4> QED BY <2>2, <3>1, <4>1 DEF InHand
      <3> QED BY <1>3, <2>2, <3>1, RecoverChange DEF InHand
    <2>3. CASE j \notin recover
      <3>1. /\ j = worker.job /\ worker.rev = jobs[worker.job].rev
            /\ jobs[worker.job].status = "processing"
            /\ worker.pc \in {"provider", "render", "publish", "complete", "failclean",
                              "failwrite"}
        BY <1>3, <2>1, <2>3 DEF InHand
      <3>2. /\ worker'.job = worker.job /\ worker'.rev = worker.rev
            /\ worker'.pc \in {"provider", "render", "publish", "complete", "failclean",
                               "failwrite"}
        BY <1>3, <3>1, WorkerGoesOn
      <3> QED BY <1>3, <3>1, <3>2 DEF InHand
    <2> QED BY <2>2, <2>3
  <1> QED BY <1>1, <1>2, <1>3

(* Where the worker's candidate comes from.                                  *)
LEMMA CandidateChange ==
    ASSUME TypeOK, StepsAgree, [Next]_vars, worker'.pc \in {"permit", "permitted"}
    PROVE  \/ PickCandidate /\ worker'.job \in Oldest(QueuedIds)
           \/ ~Initialize /\ worker'.job = worker.job /\ worker.pc \in {"permit", "permitted"}
  <1> USE DEF store, repo, procs
  <1>t. worker \in WorkerState
    BY DEF TypeOK
  <1>a. \A pc \in {"off", "recover", "idle", "waiting"} : At(pc).pc = pc
    BY DEF At, Holding
  <1>b. /\ Done.pc \notin {"permit", "permitted"}
        /\ Notified # worker => Notified.pc \notin {"permit", "permitted"}
    BY <1>a, <1>t DEF Done, Notified, WorkerState
  <1>c. ASSUME NEW pc, StepTo(pc) PROVE worker'.pc = pc
    BY <1>c, <1>t DEF StepTo, WorkerState
  <1>1. CASE Initialize \/ (Process /\ Down) \/ RecoverDone \/ WorkerExit
    BY <1>1, <1>a DEF Initialize, Down, RecoverDone, WorkerExit
  <1>2. CASE PickCandidate
    BY <1>2, <1>a DEF PickCandidate, Holding
  <1>3. CASE GetPermit
    <2>1. worker'.job = worker.job /\ worker.pc = "permit"
      BY <1>3, <1>t DEF GetPermit, WorkerState
    <2>2. ~Initialize
      BY <1>3, <1>a DEF GetPermit, Initialize
    <2> QED BY <2>1, <2>2
  <1>4. CASE Claim \/ \E j \in JobIds : RecoverFind(j)
    BY <1>4, <1>a DEF Claim, RecoverFind, Recovered, Holding
  <1>5. CASE \/ Transcribe \/ Render \/ Publish \/ Complete \/ Invalidate \/ Cleanup
             \/ FailClean \/ FailWrite
    <2>1. CASE Transcribe \/ Render
      BY <1>c, <2>1 DEF Transcribe, Render
    <2>2. CASE Publish
      BY <1>a, <1>c, <2>2 DEF Publish, Throw, Holding
    <2>3. CASE Complete \/ Invalidate
      BY <1>a, <1>c, <2>3 DEF Complete, Invalidate, Throw
    <2>4. CASE Cleanup \/ FailClean \/ FailWrite
      BY <1>a, <1>b, <1>c, <2>4 DEF Cleanup, FailClean, FailWrite, Throw, Continue
    <2> QED BY <1>5, <2>1, <2>2, <2>3, <2>4
  <1>6. CASE worker' \in {worker, Notified}
    <2>1. worker' = worker
      BY <1>b, <1>6
    <2>2. ~Initialize
      BY <1>a, <2>1 DEF Initialize
    <2> QED BY <2>1, <2>2
  <1>7. CASE \/ UNCHANGED vars \/ (Process /\ ~Down) \/ SubmitStep
             \/ \E k \in Keys : SubmitBegin(k)
    BY <1>6, <1>7, ProcessFrame
       DEF vars, SubmitStep, SubmitFind, SubmitRetained, SubmitAdmit, SubmitMiss,
           SubmitRejected, SubmitHit, SubmitBegin
  <1>8. CASE \/ SyncPublish \/ SyncAbort \/ SweepStart \/ SweepCompleted
             \/ \E k \in SyncKeys : SyncFind(k)
    BY <1>6, <1>8 DEF SyncPublish, SyncAbort, SweepStart, SweepBundle, SweepFailed,
         SweepTombstone, SweepCompleted, SyncFind
  <1> QED
    BY <1>1, <1>2, <1>3, <1>4, <1>5, <1>7, <1>8 DEF Next, WorkerStep, Recovery, Process

(* A job that is queued anew takes its place at the end.                     *)
LEMMA NextInLineStep ==
    ASSUME TypeOK, StepsAgree, CalledUsed, NextInLine, [Next]_vars
    PROVE  NextInLine'
  <1> SUFFICES ASSUME worker'.pc \in {"permit", "permitted"}
               PROVE  /\ recover' = {} /\ worker'.job < nextJob'
                      /\ \A i \in JobIds : jobs'[i].status = "queued" => worker'.job <= i
    BY DEF NextInLine, QueuedIds
  <1>0. nextJob \in Nat /\ worker.job \in Nat /\ JobIds \subseteq Nat
    BY DEF TypeOK, WorkerState, JobIds
  <1>1. CASE PickCandidate /\ worker'.job \in Oldest(QueuedIds)
    <2>1. UNCHANGED <<jobs, recover, nextJob>> /\ phase = "running"
      BY <1>1 DEF PickCandidate, repo
    <2>2. recover = {}
      BY <2>1 DEF StepsAgree, RecoveryCurrent
    <2>3. jobs[worker'.job].status = "queued" /\ worker'.job \in JobIds
          /\ \A i \in QueuedIds : worker'.job <= i
      BY <1>1 DEF Oldest, QueuedIds
    <2>4. worker'.job < nextJob
      BY <2>3 DEF StepsAgree, RecordsWhole, Whole, NoJob, Job
    <2> QED BY <2>1, <2>2, <2>3, <2>4 DEF QueuedIds
  <1>2. CASE ~Initialize /\ worker'.job = worker.job /\ worker.pc \in {"permit", "permitted"}
    <2>1. recover = {} /\ worker.job < nextJob /\ \A i \in QueuedIds : worker.job <= i
      BY <1>2 DEF NextInLine
    <2>2. recover' = {}
      BY <1>2, <2>1, RecoverChange DEF RecoverFind
    <2>3. worker.job < nextJob'
      BY <1>0, <2>1, CalledFrame
    <2>4. ASSUME NEW i \in JobIds, jobs'[i].status = "queued"
          PROVE  worker.job <= i
      <3>1. CASE jobs[i].status = "queued"
        BY <2>1, <3>1 DEF QueuedIds
      <3>2. CASE jobs[i].status # "queued"
        <4>1. i = nextJob
          <5>1. SubmitWrites(i)
            <6>1. ~WorkerWrites(i)
              <7>1. ASSUME WorkerWrites(i)
                    PROVE  \E q \in JobRecord : jobs'[i] \in {Started(q), Failed(q),
                                                    Completed(q, worker.art, worker.expires)}
                BY <2>4, <3>2, <7>1
                   DEF WorkerWrites, Claim, Complete, FailWrite, PutJob, PutJobFails, TypeOK
              <7> QED BY <2>4, <7>1 DEF Started, Failed, Completed, Job
            <6>2. ~SweepWrites(i)
              BY <2>4 DEF SweepWrites, NoJob, Job
            <6> QED BY <1>2, <2>4, <3>2, <6>1, <6>2, WhoWrites
          <5> QED BY <5>1 DEF SubmitWrites
        <4> QED BY <1>0, <2>1, <4>1
      <3> QED BY <3>1, <3>2
    <2> QED BY <1>2, <2>2, <2>3, <2>4
  <1> QED BY <1>1, <1>2, CandidateChange

(* As long as no storage operation has failed, the promises are kept.        *)
THEOREM UndisturbedInvariant == Spec => [](NextInLine /\ (faults = 0 => Undisturbed))
  <1>1. Init => NextInLine /\ Undisturbed
    <2>1. At("off").pc = "off" /\ NoSubmission.pc = "idle" /\ NoJob.status = "absent"
      BY DEF At, Holding, NoSubmission, Submitting, NoJob, Job
    <2> QED BY <2>1 DEF Init, NextInLine, Undisturbed, Intact, Promised, ProcessingInHand
  <1>2. Consistent /\ Consistent' /\ StoreSound /\ [Next]_vars
          /\ NextInLine /\ (faults = 0 => Undisturbed)
        => (NextInLine /\ (faults = 0 => Undisturbed))'
    <2> SUFFICES ASSUME Consistent, Consistent', StoreSound, [Next]_vars, NextInLine,
                        faults = 0 => Undisturbed
                 PROVE  NextInLine' /\ (faults' = 0 => Undisturbed')
      OBVIOUS
    <2>1. NextInLine'
      BY NextInLineStep DEF Consistent
    <2>2. ASSUME faults' = 0 PROVE Undisturbed'
      <3>1. faults = 0 /\ ~Fault
        BY <2>2, FaultFrame DEF Consistent
      <3> QED BY <3>1, IntactStep, PromisedStep, InHandStep DEF Undisturbed, Consistent
    <2> QED BY <2>1, <2>2
  <1> QED BY <1>1, <1>2, ConsistentInvariant, StoreInvariant, PTL DEF Spec

(* The bundle of a completed job is on the volume until the job expires, as  *)
(* long as no storage operation has failed: neither another job's expiry, nor*)
(* a lookup, nor any number of crashes and restarts takes it (STORE-01).     *)
THEOREM CompletedStaysReadable == Spec => [](faults = 0 => CompletedReadable)
  <1>1. Intact /\ Promised => CompletedReadable
    <2> SUFFICES ASSUME Intact, Promised, NEW j \in JobIds, jobs[j].status = "completed",
                        ~Expired(jobs[j].expires)
                 PROVE  /\ bundles[jobs[j].art].key = jobs[j].key
                        /\ bundles[jobs[j].art].expires = jobs[j].expires
      BY DEF CompletedReadable
    <2>1. dJobs[j] = jobs[j]
      BY DEF Intact, NoJob, Job
    <2> QED BY <2>1 DEF Promised, Vouches
  <1> QED BY <1>1, UndisturbedInvariant, PTL DEF Undisturbed

(* Only a crash or the orderly exit takes a stopping process down.           *)
LEMMA StoppingFrame ==
    ASSUME StepsAgree, TypeOK, [Next]_vars, phase = "stopping", phase' = "down"
    PROVE  Exit \/ crashes' = crashes + 1
  <1> USE DEF store, repo, procs, StepsAgree, WorkerCurrent
  <1>1. CASE UNCHANGED vars \/ Initialize \/ Process
    BY <1>1, CrashFrame DEF vars, Initialize, Process, Stop, Tick, RepairCut, Crash, Dies
  <1>2. CASE Recovery \/ PickCandidate \/ GetPermit \/ WorkerExit \/ Claim
    BY <1>2 DEF Recovery, RecoverFind, RecoverDone, PickCandidate, GetPermit, WorkerExit, Claim
  <1>3. CASE \/ Transcribe \/ Render \/ Publish \/ Complete \/ Invalidate \/ Cleanup
             \/ FailClean \/ FailWrite
    BY <1>3 DEF Transcribe, Render, Publish, Complete, Invalidate, Cleanup, FailClean,
         FailWrite, StepTo, Throw, Continue
  <1>4. CASE SubmitStep \/ \E k \in Keys : SubmitBegin(k)
    BY <1>4 DEF SubmitStep, SubmitBegin, SubmitFind, SubmitRetained, SubmitAdmit,
         SubmitMiss, SubmitRejected, SubmitHit
  <1>5. CASE \/ SyncPublish \/ SyncAbort \/ SweepStart \/ SweepCompleted
             \/ \E k \in SyncKeys : SyncFind(k)
    BY <1>5 DEF SyncPublish, SyncAbort, SweepStart, SweepBundle, SweepFailed,
         SweepTombstone, SweepCompleted, SyncFind
  <1> QED BY <1>1, <1>2, <1>3, <1>4, <1>5 DEF Next, WorkerStep, Process

(* As long as no storage operation has failed, a graceful shutdown leaves no *)
(* job processing (WORK-05).                                                 *)
THEOREM ShutdownIsClean == Spec /\ [](faults = 0) => CleanExit
  <1>1. Consistent /\ faults = 0 /\ (faults = 0 => Undisturbed) /\ [Next]_vars
        => [phase = "stopping" /\ phase' = "down" /\ crashes' = crashes =>
              \A j \in JobIds : jobs'[j].status # "processing"]_vars
    <2> SUFFICES ASSUME Consistent, Undisturbed, [Next]_vars, phase = "stopping",
                        phase' = "down", crashes' = crashes, NEW j \in JobIds,
                        jobs'[j].status = "processing"
                 PROVE  FALSE
      OBVIOUS
    <2>1. Exit
      <3>1. crashes \in Nat
        BY DEF Consistent, TypeOK
      <3> QED BY <3>1, StoppingFrame DEF Consistent
    <2>2. jobs' = jobs /\ worker.pc = "off"
      BY <2>1 DEF Exit, repo
    <2>3. InHand(j)
      BY <2>2 DEF Undisturbed, ProcessingInHand
    <2> QED BY <2>2, <2>3 DEF InHand, Consistent, StepsAgree, RecoveryCurrent
  <1> QED
    BY <1>1, ConsistentInvariant, UndisturbedInvariant, PTL DEF Spec, CleanExit

----------------------------------------------------------------------------
(* The jobs implement JobLifecycle.                                           *)

(* The lifecycle counts the jobs that the records say are queued, or active.  *)
LEMMA ClientView ==
    ASSUME TypeOK
    PROVE  /\ \A j \in JobIds : jobs[j] # NoJob => ClientStatus(j) = jobs[j].status
           /\ \A j \in JobIds : ClientStatus(j) \in Active \cup Terminal
                                  => jobs[j].status = ClientStatus(j)
           /\ Lifecycle!Active = ActiveIds(jobs)
           /\ Lifecycle!With({"queued"}) = QueuedIds
           /\ Lifecycle!With({"processing"}) = {j \in JobIds : jobs[j].status = "processing"}
  <1>1. NoJob.status = "absent"
    BY DEF NoJob, Job
  <1>2. \A j \in JobIds : jobs[j] # NoJob => ClientStatus(j) = jobs[j].status
    BY DEF ClientStatus
  <1>3. \A j \in JobIds : ClientStatus(j) \in Active \cup Terminal
                            => jobs[j].status = ClientStatus(j)
    BY DEF ClientStatus, Active, Terminal
  <1>4. \A j \in JobIds : jobs[j].status \in Active <=> ClientStatus(j) \in Active
    BY <1>1, <1>2, <1>3 DEF Active
  <1>5. Lifecycle!With({"queued", "processing"}) = {j \in JobIds : ClientStatus(j) \in Active}
    BY DEF Lifecycle!With, Active
  <1>6. Lifecycle!Active = ActiveIds(jobs)
    BY <1>4, <1>5 DEF Lifecycle!Active, ActiveIds
  <1>7. \A s \in Active : Lifecycle!With({s}) = {j \in JobIds : ClientStatus(j) = s}
    BY DEF Lifecycle!With
  <1>8. \A s \in Active, j \in JobIds : jobs[j].status = s <=> ClientStatus(j) = s
    BY <1>1, <1>2, <1>3 DEF Active
  <1>9. \A s \in Active : Lifecycle!With({s}) = {j \in JobIds : jobs[j].status = s}
    BY <1>7, <1>8
  <1> QED BY <1>2, <1>3, <1>6, <1>9 DEF QueuedIds, Active

(* A step that leaves the records to clients as they were is a stutter.      *)
LEMMA SameJobs ==
    ASSUME jobs' = jobs, tombs' = tombs, dJobs' = dJobs, nextJob' = nextJob
    PROVE  UNCHANGED Lifecycle!vars
  BY DEF Lifecycle!vars, ClientStatus, Residue

(* A step that writes one record changes what clients see of that job only.  *)
LEMMA OneJobChanges ==
    ASSUME TypeOK, NEW j \in JobIds, NEW r, jobs' = [jobs EXCEPT ![j] = r],
           NEW t, tombs' = [tombs EXCEPT ![j] = t],
           nextJob' = nextJob \/ (j = nextJob /\ nextJob' = nextJob + 1),
           NEW s, ClientStatus(j)' = s, NEW k, r.key = k,
           \A i \in JobIds : Residue(i)' = Residue(i)
    PROVE  Lifecycle!Becomes(j, s, k)
  <1>1. \A i \in JobIds : i # j => jobs'[i] = jobs[i] /\ tombs'[i] = tombs[i]
    BY DEF TypeOK
  <1>2. \A i \in JobIds : i # j => (i < nextJob' <=> i < nextJob)
    BY DEF TypeOK, JobIds
  <1>3. \A i \in JobIds : i # j => ClientStatus(i)' = ClientStatus(i)
    BY <1>1, <1>2 DEF ClientStatus
  <1>4. [i \in JobIds |-> ClientStatus(i)']
          = [[i \in JobIds |-> ClientStatus(i)] EXCEPT ![j] = s]
    BY <1>3
  <1>5. jobs'[j] = r
    BY DEF TypeOK
  <1>6. [i \in JobIds |-> jobs'[i].key] = [[i \in JobIds |-> jobs[i].key] EXCEPT ![j] = k]
    <2>1. \A i \in JobIds : jobs'[i].key = IF i = j THEN k ELSE jobs[i].key
      BY <1>1, <1>5
    <2> QED BY <2>1, Zenon
  <1> QED BY <1>4, <1>6 DEF Lifecycle!Becomes

(* So does writing a record over the one on the volume.                      *)
LEMMA RecordWritten ==
    ASSUME TypeOK, NEW j \in JobIds, NEW r, PutJob(j, r),
           nextJob' = nextJob \/ (j = nextJob /\ nextJob' = nextJob + 1),
           NEW s, r.status = s, s # "absent", NEW k, r.key = k,
           jobs[j] # NoJob \/ dJobs[j] = NoJob
    PROVE  Lifecycle!Becomes(j, s, k)
  <1>1. jobs' = [jobs EXCEPT ![j] = r]
    BY DEF PutJob
  <1>2. tombs' = [tombs EXCEPT ![j] = tombs[j]]
    BY DEF PutJob, TypeOK
  <1>3. jobs'[j] = r /\ r # NoJob
    BY <1>1 DEF TypeOK, NoJob, Job
  <1>4. ClientStatus(j)' = s
    BY <1>3 DEF ClientStatus
  <1>5. ASSUME NEW i \in JobIds PROVE Residue(i)' = Residue(i)
    <2>1. i # j => jobs'[i] = jobs[i] /\ dJobs'[i] = dJobs[i]
      BY DEF PutJob, TypeOK
    <2> QED BY <1>3, <2>1 DEF Residue
  <1> QED BY <1>1, <1>2, <1>4, <1>5, OneJobChanges

(* A process that is down has no worker.                                      *)
OffWhenDown == phase = "down" => worker.pc = "off"

LEMMA OffStep ==
    ASSUME StepsAgree, OffWhenDown, [Next]_vars
    PROVE  OffWhenDown'
  <1> USE DEF store, repo, procs, OffWhenDown
  <1>0. At("off").pc = "off"
    BY DEF At, Holding
  <1>1. CASE UNCHANGED vars \/ Initialize \/ Process
    BY <1>0, <1>1, CrashFrame
       DEF vars, Initialize, Process, Stop, Tick, Crash, Dies, Exit, RepairCut, Down
  <1>2. CASE RecoverDone \/ PickCandidate \/ GetPermit \/ WorkerExit \/ Claim
    BY <1>0, <1>2 DEF RecoverDone, PickCandidate, GetPermit, WorkerExit, Claim
  <1>3. ASSUME NEW j \in JobIds, RecoverFind(j)
        PROVE  OffWhenDown'
    BY <1>0, <1>3 DEF RecoverFind
  <1>4. CASE \/ Transcribe \/ Render \/ Publish \/ Complete \/ Invalidate \/ Cleanup
             \/ FailClean \/ FailWrite
    BY <1>0, <1>4 DEF Transcribe, Render, Publish, Complete, Invalidate, Cleanup, FailClean,
         FailWrite, StepTo, Throw, Continue
  <1>5. CASE SubmitStep \/ \E k \in Keys : SubmitBegin(k)
    BY <1>5 DEF SubmitStep, SubmitBegin, SubmitFind, SubmitRetained, SubmitAdmit,
         SubmitMiss, SubmitRejected, SubmitHit, StepsAgree, SubmissionCurrent
  <1>6. CASE \/ SyncPublish \/ SyncAbort \/ SweepStart \/ SweepCompleted
             \/ \E k \in SyncKeys : SyncFind(k)
    BY <1>6 DEF SyncPublish, SyncAbort, SweepStart, SweepBundle, SweepFailed,
         SweepTombstone, SweepCompleted, SyncFind
  <1> QED BY <1>1, <1>2, <1>3, <1>4, <1>5, <1>6 DEF Next, WorkerStep, Recovery, Process

(* The worker claims the first job in line, and no other job is processing.   *)
LEMMA ClaimImplements ==
    ASSUME TypeOK, StepsAgree, NextInLine, ProcessingInHand, OffWhenDown, Claim, ~Fault,
           NEW j \in JobIds, worker.job = j
    PROVE  Lifecycle!Claim(j)
  <1>1. jobs[j].status = "queued" /\ worker.pc = "permitted"
    BY DEF Claim, IsFresh
  <1>2. recover = {} /\ \A i \in QueuedIds : j <= i
    BY <1>1 DEF NextInLine
  <1>3. \A i \in JobIds : jobs[i].status # "processing"
    BY <1>1, <1>2 DEF OffWhenDown, ProcessingInHand, InHand
  <1>4. PICK r : r = Started(jobs[j])
    OBVIOUS
  <1>5. r.key = jobs[j].key /\ r.status = "processing"
    BY <1>4 DEF Started, Job
  <1>6. PutJob(j, r) /\ nextJob' = nextJob
    BY <1>4 DEF Claim, PutJobFails
  <1>7. Lifecycle!Becomes(j, "processing", r.key)
    BY <1>1, <1>5, <1>6, RecordWritten DEF NoJob, Job
  <1>8. PICK k : k = jobs[j].key
    OBVIOUS
  <1>9. Lifecycle!Becomes(j, "processing", k)
    BY <1>5, <1>7, <1>8
  <1>10. ClientStatus(j) = "queued"
    BY <1>1, ClientView DEF NoJob, Job
  <1>11. Lifecycle!With({"processing"}) = {} /\ Lifecycle!With({"queued"}) = QueuedIds
    BY <1>3, ClientView
  <1>12. [i \in JobIds |-> jobs[i].key][j] = k
    BY <1>8
  <1> QED BY <1>2, <1>9, <1>10, <1>11, <1>12 DEF Lifecycle!Claim, Lifecycle!Becomes

(* The worker and startup end the job that is processing.                     *)
LEMMA FinishImplements ==
    ASSUME TypeOK, Complete \/ (FailWrite /\ MayFail), ~Fault, NEW j \in JobIds,
           worker.job = j, jobs[j].status = "processing"
    PROVE  Lifecycle!Finish(j)
  <1>1. PICK r \in {Completed(jobs[j], worker.art, worker.expires), Failed(jobs[j])} :
          PutJob(j, r) /\ nextJob' = nextJob
    BY DEF Complete, FailWrite, PutJobFails
  <1>2. PICK k, s : k = jobs[j].key /\ s = r.status
    OBVIOUS
  <1>3. r.key = k /\ s \in {"completed", "failed"}
    BY <1>1, <1>2 DEF Completed, Failed, Job
  <1>4. Lifecycle!Becomes(j, s, k)
    BY <1>1, <1>2, <1>3, RecordWritten DEF NoJob, Job
  <1>5. ClientStatus(j) = "processing"
    BY ClientView DEF NoJob, Job
  <1>6. [i \in JobIds |-> jobs[i].key][j] = k
    BY <1>2
  <1> QED BY <1>3, <1>4, <1>5, <1>6 DEF Lifecycle!Finish, Lifecycle!Becomes

(* The queue has still room for the submission that was admitted: until it    *)
(* creates its job, jobs only end.                                            *)
AdmittedFits == sub.pc = "admitted" => Cardinality(ActiveIds(jobs)) < MaxQueuedJobs

LEMMA AdmittedStep ==
    ASSUME TypeOK, StepsAgree, AdmittedFits, [Next]_vars
    PROVE  AdmittedFits'
  <1> SUFFICES ASSUME sub'.pc = "admitted"
               PROVE  Cardinality(ActiveIds(jobs')) < MaxQueuedJobs
    BY DEF AdmittedFits, ActiveIds
  <1>1. CASE sub' = sub
    <2>1. ~Initialize /\ ~SubmitMiss
      BY <1>1 DEF Initialize, SubmitMiss, NoSubmission, Submitting, StepsAgree,
                  SubmissionCurrent
    <2>2. ActiveIds(jobs') \subseteq ActiveIds(jobs)
      BY <2>1, NewOwners DEF NoNewOwner, ActiveIds
    <2>3. IsFiniteSet(ActiveIds(jobs))
      <3>1. IsFiniteSet(JobIds)
        BY ConstantTypes, FS_Interval DEF JobIds
      <3>2. ActiveIds(jobs) \subseteq JobIds
        BY DEF ActiveIds
      <3> QED BY <3>1, <3>2, FS_Subset
    <2>4. /\ Cardinality(ActiveIds(jobs')) <= Cardinality(ActiveIds(jobs))
          /\ Cardinality(ActiveIds(jobs')) \in Nat /\ Cardinality(ActiveIds(jobs)) \in Nat
      BY <2>2, <2>3, FS_Subset, FS_CardinalityType
    <2> QED BY <1>1, <2>4, ConstantsAssumption DEF AdmittedFits, ConstantsAssumption
  <1>2. CASE SubmitAdmit
    BY <1>2 DEF SubmitAdmit, repo
  <1>3. CASE SubmitFind \/ SubmitRetained \/ \E k \in Keys : SubmitBegin(k)
    BY <1>3 DEF SubmitFind, SubmitRetained, SubmitBegin, NoSubmission, Submitting, TypeOK,
                Submission
  <1> QED BY <1>1, <1>2, <1>3, SubmissionFrame

(* The abstract specification counts as this one does.                        *)
LEMMA SameCardinality ==
    ASSUME NEW S
    PROVE  Lifecycle!Cardinality(S) = Cardinality(S)
  BY DEF Lifecycle!Cardinality, Cardinality

(* A submission opens the next job for a key that has no active one.          *)
LEMMA SubmitImplements ==
    ASSUME TypeOK, StepsAgree, AdmittedFits, SubmitMiss \/ SubmitHit, ~Fault,
           NEW j \in JobIds, nextJob = j, NEW k \in Keys, sub.key = k, ~HasOwner(k)
    PROVE  Lifecycle!Miss(j, k) \/ Lifecycle!Hit(j, k)
  <1>1. jobs[j] = NoJob /\ dJobs[j] = NoJob /\ tombs[j] = 0
    BY DEF StepsAgree, RecordsWhole, Whole, TombstonesApart, TypeOK
  <1>2. ClientStatus(j) = "unknown"
    BY <1>1 DEF ClientStatus, TypeOK
  <1>3. \A i \in Lifecycle!Active : i \in JobIds /\ jobs[i].key # k
    BY ClientView DEF HasOwner, ActiveIds
  <1>4. CASE SubmitMiss
    <2>1. PICK r : r = Queued(k)
      OBVIOUS
    <2>2. r.status = "queued" /\ r.key = k
      BY <2>1 DEF Queued, Job
    <2>3. PutJob(j, r) /\ nextJob' = nextJob + 1
      BY <1>4, <2>1 DEF SubmitMiss, CreateJob, CreateFails, PutJobFails
    <2>4. Lifecycle!Becomes(j, "queued", k)
      BY <1>1, <2>2, <2>3, RecordWritten
    <2>5. Lifecycle!Cardinality(Lifecycle!Active) < MaxQueuedJobs
      BY <1>4, ClientView, SameCardinality DEF SubmitMiss, AdmittedFits
    <2>6. Lifecycle!Miss(j, k)
      BY <1>2, <1>3, <2>4, <2>5 DEF Lifecycle!Miss
    <2> QED BY <2>6
  <1>5. CASE SubmitHit
    <2>1. PICK r : r = CompletedHit(k, sub.art, sub.bundle.expires)
      OBVIOUS
    <2>2. r.status = "completed" /\ r.key = k
      BY <2>1 DEF CompletedHit, Job
    <2>3. PutJob(j, r) /\ nextJob' = nextJob + 1
      BY <1>5, <2>1 DEF SubmitHit, CreateJob, CreateFails, PutJobFails
    <2>4. Lifecycle!Becomes(j, "completed", k)
      BY <1>1, <2>2, <2>3, RecordWritten
    <2>5. Lifecycle!Hit(j, k)
      BY <1>2, <1>3, <2>4 DEF Lifecycle!Hit
    <2> QED BY <2>5
  <1> QED BY <1>4, <1>5

(* The sweep expires a job that has ended, and forgets an expired one.        *)
LEMMA ExpireImplements ==
    ASSUME TypeOK, ~Fault, NEW j \in JobIds, ExpireJob(j), jobs[j].status \in Terminal,
           nextJob' = nextJob
    PROVE  Lifecycle!Expire(j)
  <1>0. PICK t : t = jobs[j].expires + TombstoneTtl
    OBVIOUS
  <1>1. t # 0
    <2>1. jobs[j].expires \in Nat
      BY DEF TypeOK, JobRecord
    <2> QED BY <1>0, <2>1, ConstantTypes
  <1>2. jobs' = [jobs EXCEPT ![j] = NoJob] /\ tombs' = [tombs EXCEPT ![j] = t]
    BY <1>0 DEF ExpireJob, TombExpiry
  <1>r. \A i \in JobIds : Residue(i)' = Residue(i)
    <2>1. dJobs' = [dJobs EXCEPT ![j] = NoJob] /\ jobs[j] # NoJob
      BY DEF ExpireJob, Terminal, NoJob, Job
    <2> QED BY <1>2, <2>1 DEF Residue, TypeOK
  <1>3. ClientStatus(j)' = "expired"
    BY <1>1, <1>2 DEF ClientStatus, TypeOK
  <1>4. NoJob.key = NoKey
    BY DEF NoJob, Job
  <1>5. Lifecycle!Becomes(j, "expired", NoKey)
    BY <1>2, <1>3, <1>4, <1>r, OneJobChanges
  <1>6. ClientStatus(j) \in {"completed", "failed"}
    BY ClientView DEF Terminal, NoJob, Job
  <1> QED BY <1>5, <1>6 DEF Lifecycle!Expire, Lifecycle!Ended, Lifecycle!With

(* And an expired job whose tombstone is over is forgotten.                   *)
LEMMA ForgetImplements ==
    ASSUME TypeOK, StepsAgree, NEW j \in JobIds, SweepTombstone(j)
    PROVE  Lifecycle!Forget(j)
  <1>1. tombs[j] # 0 /\ jobs[j] = NoJob /\ j < nextJob
    BY DEF SweepTombstone, Expired, StepsAgree, TombstonesApart
  <1>2. /\ jobs' = [jobs EXCEPT ![j] = NoJob] /\ tombs' = [tombs EXCEPT ![j] = 0]
        /\ nextJob' = nextJob
    BY <1>1 DEF SweepTombstone, TypeOK
  <1>3. ClientStatus(j) = "expired" /\ ClientStatus(j)' = "forgotten"
    BY <1>1, <1>2 DEF ClientStatus, TypeOK
  <1>4. NoJob.key = NoKey
    BY DEF NoJob, Job
  <1>r. \A i \in JobIds : Residue(i)' = Residue(i)
    BY DEF SweepTombstone, Residue
  <1>5. Lifecycle!Becomes(j, "forgotten", NoKey)
    BY <1>2, <1>3, <1>4, <1>r, OneJobChanges
  <1> QED BY <1>3, <1>5 DEF Lifecycle!Forget

(* A start finishes the expiries that were cut, and brings back the jobs that *)
(* they left behind and that were forgotten meanwhile.                        *)
LEMMA RestartImplements ==
    ASSUME TypeOK, StepsAgree, OneActivePerKey, Intact, Initialize
    PROVE  \E cut \in SUBSET Lifecycle!Ended : Lifecycle!Restart(cut)
  <1> DEFINE cut == {j \in JobIds : jobs[j] # NoJob /\ dTombs[j] # 0}
  <1>1. /\ jobs' = Loaded /\ tombs' = dTombs /\ dJobs' = dJobs /\ nextJob' = nextJob
    BY StartLoads
  <1>2. ASSUME NEW j \in JobIds
        PROVE  /\ dJobs[j] = jobs[j] \/ (jobs[j] = NoJob /\ dJobs[j].status \in Terminal)
               /\ jobs[j] = NoJob => dTombs[j] = tombs[j]
               /\ tombs[j] # 0 => jobs[j] = NoJob
               /\ j \in cut => jobs[j].status \in Terminal
               /\ dJobs[j] # NoJob => j < nextJob
    <2>1. phase = "down"
      BY DEF Initialize
    <2> QED BY <2>1 DEF Intact, StepsAgree, TombstonesApart, RecordsWhole, Whole
  <1>3. NoJob.status = "absent" /\ NoJob.key = NoKey
    BY DEF NoJob, Job
  <1>4. cut \subseteq Lifecycle!Ended
    BY <1>2, ClientView DEF Lifecycle!Ended, Lifecycle!With, Terminal
  <1>5. Lifecycle!Back = {j \in JobIds : jobs[j] = NoJob /\ tombs[j] = 0 /\ dJobs[j] # NoJob}
    <2>1. ASSUME NEW j \in JobIds
          PROVE  Residue(j) # Lifecycle!NoResidue <=> jobs[j] = NoJob /\ dJobs[j] # NoJob
      <3>1. jobs[j] = NoJob /\ dJobs[j] # NoJob => dJobs[j].status # "none"
        BY <1>2 DEF Terminal
      <3> QED BY <3>1 DEF Residue, Lifecycle!NoResidue
    <2>2. ASSUME NEW j \in JobIds, jobs[j] = NoJob, dJobs[j] # NoJob
          PROVE  ClientStatus(j) = "forgotten" <=> tombs[j] = 0
      BY <1>2, <2>2 DEF ClientStatus
    <2>3. ASSUME NEW j \in JobIds
          PROVE  j \in Lifecycle!Back <=> /\ ClientStatus(j) = "forgotten"
                                         /\ Residue(j) # Lifecycle!NoResidue
      BY DEF Lifecycle!Back, Lifecycle!With
    <2>4. Lifecycle!Back \subseteq JobIds
      BY DEF Lifecycle!Back, Lifecycle!With
    <2> QED BY <2>1, <2>2, <2>3, <2>4
  <1>6. ASSUME NEW j \in JobIds
        PROVE  /\ ClientStatus(j)' = IF j \in cut THEN "expired"
                                     ELSE IF j \in Lifecycle!Back THEN Residue(j).status
                                     ELSE ClientStatus(j)
               /\ jobs'[j].key = IF j \in cut THEN NoKey
                                 ELSE IF j \in Lifecycle!Back THEN Residue(j).key
                                 ELSE jobs[j].key
               /\ Residue(j)' = IF j \in cut
                                THEN [status |-> ClientStatus(j), key |-> jobs[j].key]
                                ELSE IF j \in Lifecycle!Back THEN Lifecycle!NoResidue
                                ELSE Residue(j)
    <2>1. jobs'[j] = IF dTombs[j] # 0 THEN NoJob ELSE dJobs[j]
      BY <1>1 DEF Loaded
    <2>2. CASE j \in cut
      <3>1. jobs'[j] = NoJob /\ tombs'[j] # 0 /\ dJobs'[j] = jobs[j] /\ jobs[j] # NoJob
        BY <1>1, <1>2, <2>1, <2>2
      <3>2. ClientStatus(j) = jobs[j].status
        BY <3>1 DEF ClientStatus
      <3> QED BY <1>3, <2>2, <3>1, <3>2 DEF ClientStatus, Residue
    <2>3. CASE j \in Lifecycle!Back
      <3>1. /\ jobs[j] = NoJob /\ tombs[j] = 0 /\ dTombs[j] = 0 /\ dJobs[j] # NoJob
            /\ j \notin cut
        BY <1>2, <1>5, <2>3
      <3>2. jobs'[j] = dJobs[j] /\ jobs'[j] # NoJob
        BY <2>1, <3>1
      <3>3. Residue(j) = [status |-> dJobs[j].status, key |-> dJobs[j].key]
        BY <3>1 DEF Residue
      <3> QED BY <2>3, <3>1, <3>2, <3>3 DEF ClientStatus, Residue, Lifecycle!NoResidue
    <2>4. CASE j \notin cut /\ j \notin Lifecycle!Back
      <3>1. jobs'[j] = jobs[j]
        BY <1>2, <1>5, <2>1, <2>4
      <3>2. jobs[j] = NoJob => tombs'[j] = tombs[j]
        BY <1>1, <1>2
      <3> QED BY <1>1, <2>4, <3>1, <3>2 DEF ClientStatus, Residue
    <2> QED BY <2>2, <2>3, <2>4
  <1>7. Lifecycle!Restart(cut)
    <2>1. [j \in JobIds |-> ClientStatus(j)']
            = [j \in JobIds |-> IF j \in cut THEN "expired"
                               ELSE IF j \in Lifecycle!Back THEN Residue(j).status
                               ELSE ClientStatus(j)]
      BY <1>6
    <2>2. [j \in JobIds |-> jobs'[j].key]
            = [j \in JobIds |-> IF j \in cut THEN NoKey
                               ELSE IF j \in Lifecycle!Back THEN Residue(j).key
                               ELSE jobs[j].key]
      BY <1>6
    <2>3. [j \in JobIds |-> Residue(j)']
            = [j \in JobIds |-> IF j \in cut
                               THEN [status |-> ClientStatus(j), key |-> jobs[j].key]
                               ELSE IF j \in Lifecycle!Back THEN Lifecycle!NoResidue
                               ELSE Residue(j)]
      BY <1>6
    <2> HIDE DEF cut
    <2> QED BY <2>1, <2>2, <2>3 DEF Lifecycle!Restart
  <1> HIDE DEF cut
  <1>8. cut \in SUBSET Lifecycle!Ended
    BY <1>4
  <1> QED BY <1>7, <1>8 DEF Lifecycle!Restart

(* Every step of the process is a step of the lifecycle, or hidden from it.   *)
LEMMA LifecycleStep ==
    ASSUME Consistent, NextInLine, Undisturbed, OffWhenDown, AdmittedFits, [Next]_vars, ~Fault
    PROVE  [Lifecycle!Next]_Lifecycle!vars
  <1> USE DEF Consistent
  <1>1. CASE UNCHANGED repo
    BY <1>1, SameJobs DEF repo
  <1>2. CASE Initialize
    BY <1>2, RestartImplements DEF Undisturbed, Lifecycle!Next
  <1>3. CASE Claim
    <2>1. PICK j \in JobIds : j = worker.job
      BY <1>3 DEF Claim, StepsAgree, WorkerCurrent
    <2>2. Lifecycle!Claim(j)
      BY <1>3, <2>1, ClaimImplements DEF Undisturbed
    <2> QED BY <2>2 DEF Lifecycle!Next
  <1>4. CASE Complete \/ (FailWrite /\ MayFail)
    <2>1. PICK j \in JobIds : j = worker.job
      BY <1>4 DEF Complete, FailWrite, StepsAgree, WorkerCurrent
    <2>2. jobs[j].status = "processing"
      BY <1>4, <2>1 DEF Complete, MayFail, StepsAgree, WorkerCurrent
    <2>3. Lifecycle!Finish(j)
      BY <1>4, <2>1, <2>2, FinishImplements
    <2> QED BY <2>3 DEF Lifecycle!Next
  <1>5. CASE FailWrite /\ ~MayFail
    BY <1>5, SameJobs DEF FailWrite
  <1>6. CASE SubmitMiss \/ SubmitHit
    <2>1. PICK j \in JobIds, k \in Keys : j = nextJob /\ k = sub.key /\ ~HasOwner(k)
      BY <1>6 DEF SubmitMiss, SubmitHit, StepsAgree, SubmissionCurrent
    <2>2. Lifecycle!Miss(j, k) \/ Lifecycle!Hit(j, k)
      BY <1>6, <2>1, SubmitImplements
    <2> QED BY <2>2 DEF Lifecycle!Next
  <1>7. CASE SweepCompleted
    <2>1. PICK j \in JobIds : j = sweeping /\ jobs[j].status \in Terminal
      BY <1>7 DEF SweepCompleted, StepsAgree, SweepCurrent, TypeOK, Terminal
    <2>2. Lifecycle!Expire(j)
      BY <1>7, <2>1, ExpireImplements DEF SweepCompleted
    <2> QED BY <2>2 DEF Lifecycle!Next
  <1>8. ASSUME NEW j \in JobIds, SweepFailed(j)
        PROVE  Lifecycle!Next
    BY <1>8, ExpireImplements DEF SweepFailed, Due, Terminal, Lifecycle!Next
  <1>9. ASSUME NEW j \in JobIds, SweepTombstone(j)
        PROVE  Lifecycle!Next
    BY <1>9, ForgetImplements DEF Lifecycle!Next
  <1>10. ~RepairCut
    BY NothingToRepair DEF RepairCut, Undisturbed
  <1>11. CASE CrashInExpiry
    BY <1>11, SameJobs DEF CrashInExpiry
  <1> QED
    BY <1>1, <1>2, <1>3, <1>4, <1>5, <1>6, <1>7, <1>8, <1>9, <1>10, <1>11, RepoFrame
       DEF RepoChanges

(* As long as no storage operation fails, the jobs are those of JobLifecycle, *)
(* though the process may die between any two steps and between the writes of *)
(* one operation: the active jobs are bounded by the queue limit, one job is  *)
(* processing, the queue is FIFO, and all that a client sees of a restart is  *)
(* that an expiry which was cut is done, and that a job which such an expiry  *)
(* left behind comes back once it was forgotten.  (That a claimed job ends,   *)
(* the fairness of FairSpec, is checked only.)                                *)
THEOREM JobsFollowLifecycle == Spec /\ [](faults = 0) => Lifecycle!Spec
  <1>1. Init => OffWhenDown
    BY DEF Init, OffWhenDown, At, Holding
  <1>2. Consistent /\ OffWhenDown /\ [Next]_vars => OffWhenDown'
    BY OffStep DEF Consistent
  <1>a. Init => AdmittedFits
    BY DEF Init, AdmittedFits, NoSubmission, Submitting
  <1>b. Consistent /\ AdmittedFits /\ [Next]_vars => AdmittedFits'
    BY AdmittedStep DEF Consistent
  <1>3. Spec => [](OffWhenDown /\ AdmittedFits)
    BY <1>1, <1>2, <1>a, <1>b, ConsistentInvariant, PTL DEF Spec
  <1>4. Init => Lifecycle!Init
    <2> SUFFICES ASSUME Init PROVE Lifecycle!Init
      OBVIOUS
    <2>1. \A j \in JobIds : /\ jobs[j] = NoJob /\ dJobs[j] = NoJob /\ tombs[j] = 0
                            /\ ~(j < nextJob)
      BY DEF Init, JobIds
    <2>2. NoJob.key = NoKey
      BY DEF NoJob, Job
    <2>3. \A j \in JobIds : /\ ClientStatus(j) = "unknown" /\ jobs[j].key = NoKey
                            /\ Residue(j) = Lifecycle!NoResidue
      BY <2>1, <2>2 DEF ClientStatus, Residue, Lifecycle!NoResidue
    <2> QED BY <2>3 DEF Lifecycle!Init
  <1>5. /\ Consistent /\ NextInLine /\ (faults = 0 => Undisturbed) /\ OffWhenDown
        /\ AdmittedFits /\ [Next]_vars /\ faults = 0 /\ (faults = 0)'
        => [Lifecycle!Next]_Lifecycle!vars
    BY LifecycleStep DEF Fault
  <1> QED
    BY <1>3, <1>4, <1>5, ConsistentInvariant, UndisturbedInvariant, PTL
       DEF Spec, Lifecycle!Spec

=============================================================================
