---------------------------- MODULE DurableJobs ----------------------------
(***************************************************************************)
(* The durable transcript jobs of the API: the job repository (a map in     *)
(* memory and one JSON file per job), the artifact store (immutable bundles *)
(* and one cache pointer per key), the single worker, the serialised        *)
(* submissions, a synchronous request that publishes its transcript, the    *)
(* sweeper, the clock, and the life of the process: startup, recovery,      *)
(* graceful shutdown and crashes.                                           *)
(*                                                                          *)
(* Repository operations run under one mutex and store operations on a key  *)
(* under that key's lock, so each is one step here.  An operation that       *)
(* writes more than one file may fail between the writes, which is counted  *)
(* in "faults", or be cut there by a crash, which is counted in "crashes":  *)
(* both leave what the files it had already touched hold.                   *)
(***************************************************************************)
EXTENDS Naturals, FiniteSets

CONSTANTS
    Keys,          \* cache keys: canonical video and language list
    NoKey,         \* not a key
    SyncKeys,      \* bound: the keys that synchronous requests ask for
    MaxJobs,       \* bound: job ids are 1..MaxJobs, in creation order
    MaxBundles,    \* bound: artifact ids are 1..MaxBundles, in publication order
    MaxQueuedJobs, \* MAX_QUEUED_JOBS
    ArtifactTtl,   \* ARTIFACT_TTL_SECONDS, in clock ticks
    FailedTtl,     \* FAILED_JOB_TTL_SECONDS
    TombstoneTtl,  \* JOB_TOMBSTONE_TTL_SECONDS
    MaxTime,       \* bound on the clock
    MaxFaults,     \* bound on failing storage operations
    MaxCrashes     \* bound on crashes; graceful restarts are not bounded

ASSUME ConstantsAssumption ==
    /\ NoKey \notin Keys /\ SyncKeys \subseteq Keys
    /\ {MaxJobs, MaxBundles, MaxQueuedJobs, MaxTime, MaxFaults, MaxCrashes} \subseteq Nat
    /\ {ArtifactTtl, FailedTtl, TombstoneTtl} \subseteq Nat \ {0}

VARIABLES
    now,      \* the wall clock
    phase,    \* "down", "recovering", "running" or "stopping"
    jobs,     \* FileJobRepository.#jobs; while down, what clients saw last
    tombs,    \* FileJobRepository.#tombstones: expiry of the tombstone, 0 for none
    dJobs,    \* the job files on the volume
    dTombs,   \* the tombstone files on the volume
    bundles,  \* the artifact directories on the volume
    ptr,      \* the cache pointer files: the bundle a key points at, 0 for none
    work,     \* jobs whose transcript is saved in a work directory
    worker,   \* DurableJobWorker: where its loop, or the recovery, stands
    recover,  \* the processing jobs startup has still to reconcile
    sub,      \* the submission holding #submissionTail
    syncKey,  \* the key a synchronous request produces, NoKey for none
    sweeping, \* the completed job whose bundle the sweep has expired, 0 for none
    nextJob, nextBundle, \* the next unused ids
    called,   \* history: jobs the transcript provider has been called for
    faults, crashes

store == <<bundles, ptr, work>>
repo  == <<jobs, tombs, dJobs, dTombs, nextJob>>
procs == <<worker, recover, sub, syncKey, sweeping>>
vars  == <<now, phase, store, repo, procs, nextBundle, called, faults, crashes>>

----------------------------------------------------------------------------
JobIds    == 1..MaxJobs
BundleIds == 1..MaxBundles
Active    == {"queued", "processing"}
Terminal  == {"completed", "failed"}

Job(s, v, k, a, e) == [status |-> s, rev |-> v, key |-> k, art |-> a, expires |-> e]
Bundle(k, p, e)    == [key |-> k, producer |-> p, expires |-> e]
Submitting(pc, k, a, b) == [pc |-> pc, key |-> k, art |-> a, bundle |-> b]
Holding(pc, m, j, v, a, e) == [pc |-> pc, mode |-> m, job |-> j, rev |-> v, art |-> a,
                               expires |-> e]

NoJob        == Job("absent", 0, NoKey, 0, 0)
NoBundle     == Bundle(NoKey, 0, 0)
NoSubmission == Submitting("idle", NoKey, 0, NoBundle)
At(pc)       == Holding(pc, "loop", 0, 0, 0, 0)

ActiveIds(js)   == {j \in JobIds : js[j].status \in Active}
QueuedIds       == {j \in JobIds : jobs[j].status = "queued"}
Oldest(S)       == {j \in S : \A i \in S : j <= i}
HasOwner(k)     == \E j \in ActiveIds(jobs) : jobs[j].key = k
RepositoryFree  == sweeping = 0
\* seeded fault: an expiry that nobody looked at on time is missed
ExpiresOnlyOnTheTick(t) == t = now
Expired(t)      == t # 0 /\ t <= now

Queued(k)             == Job("queued", 0, k, 0, 0)
CompletedHit(k, a, e) == Job("completed", 0, k, a, e)
Started(r)            == Job("processing", r.rev + 1, r.key, 0, 0)
Completed(r, a, e)    == Job("completed", r.rev + 1, r.key, a, e)
\* seeded fault: an interrupted job goes back to the queue
RequeueInterrupted(r) == Job("queued", r.rev + 1, r.key, 0, 0)
Failed(r)             == Job("failed", r.rev + 1, r.key, 0, now + FailedTtl)

JobRecord    == [status : Active \cup Terminal \cup {"absent"}, rev : Nat,
                 key : Keys \cup {NoKey}, art : BundleIds \cup {0}, expires : Nat]
BundleRecord == [key : Keys \cup {NoKey}, producer : JobIds \cup {0}, expires : Nat]
WorkerState  == [pc : {"off", "recover", "idle", "waiting", "permit", "permitted",
                       "provider", "render", "publish", "complete", "invalidate",
                       "cleanup", "failclean", "failwrite"},
                 mode : {"loop", "found", "resume", "interrupt"},
                 job : JobIds \cup {0}, rev : Nat, art : BundleIds \cup {0},
                 expires : Nat]
Submission   == [pc : {"idle", "find", "retained", "create", "admitted", "hit"},
                 key : Keys \cup {NoKey}, art : BundleIds \cup {0}, bundle : BundleRecord]

(* Every variable has the type the code gives it.                            *)
TypeOK ==
    /\ now \in Nat /\ faults \in Nat /\ crashes \in Nat
    /\ phase \in {"down", "recovering", "running", "stopping"}
    /\ jobs \in [JobIds -> JobRecord] /\ dJobs \in [JobIds -> JobRecord]
    /\ tombs \in [JobIds -> Nat] /\ dTombs \in [JobIds -> Nat]
    /\ bundles \in [BundleIds -> BundleRecord]
    /\ ptr \in [Keys -> BundleIds \cup {0}]
    /\ work \subseteq JobIds /\ recover \subseteq JobIds /\ called \subseteq JobIds
    /\ worker \in WorkerState /\ sub \in Submission
    /\ syncKey \in Keys \cup {NoKey} /\ sweeping \in JobIds \cup {0}
    /\ nextJob \in Nat \ {0} /\ nextBundle \in Nat \ {0}

Init ==
    /\ now = 1 /\ phase = "down"
    /\ jobs = [j \in JobIds |-> NoJob] /\ dJobs = jobs
    /\ tombs = [j \in JobIds |-> 0] /\ dTombs = tombs
    /\ bundles = [a \in BundleIds |-> NoBundle]
    /\ ptr = [k \in Keys |-> 0] /\ work = {}
    /\ worker = At("off") /\ recover = {}
    /\ sub = NoSubmission /\ syncKey = NoKey /\ sweeping = 0
    /\ nextJob = 1 /\ nextBundle = 1 /\ called = {} /\ faults = 0 /\ crashes = 0

----------------------------------------------------------------------------
(* Files.  AtomicFileWriter.write renames and then syncs the directory: a    *)
(* write may fail with the target untouched or already replaced, and only a  *)
(* write that returned changes the map in memory.                            *)

Fault == faults < MaxFaults /\ faults' = faults + 1

PutJob(j, r) ==
    /\ jobs' = [jobs EXCEPT ![j] = r]
    /\ dJobs' = [dJobs EXCEPT ![j] = r]
    /\ UNCHANGED <<tombs, dTombs, faults>>

\* seeded fault: memory changes before the write is known to have succeeded
PutJobInMemoryFirst(j, r) ==
    /\ Fault
    /\ jobs' = [jobs EXCEPT ![j] = r]
    /\ dJobs' \in {dJobs, [dJobs EXCEPT ![j] = r]}
    /\ UNCHANGED <<tombs, dTombs>>

PutJobFails(j, r) ==
    /\ Fault
    /\ dJobs' \in {dJobs, [dJobs EXCEPT ![j] = r]}
    /\ UNCHANGED <<jobs, tombs, dTombs>>

(* FileArtifactStore.publishBundle: the directory, then the cache pointer.   *)
NewBundle(k, p) == Bundle(k, p, now + ArtifactTtl)

\* seeded fault: the pointer gets the id of the next bundle
PublishPointsAhead(k, p) ==
    /\ nextBundle' = nextBundle + 1
    /\ bundles' = [bundles EXCEPT ![nextBundle] = NewBundle(k, p)]
    /\ ptr' = [ptr EXCEPT ![k] = nextBundle + 1]
    /\ UNCHANGED faults

PublishBundle(k, p) ==
    /\ nextBundle' = nextBundle + 1
    /\ bundles' = [bundles EXCEPT ![nextBundle] = NewBundle(k, p)]
    /\ ptr' = [ptr EXCEPT ![k] = nextBundle]
    /\ UNCHANGED faults

(* Between its writes the directory is there and the pointer is still the    *)
(* old one.                                                                  *)
DirectoryOnly(k, p) ==
    /\ nextBundle' = nextBundle + 1
    /\ bundles' = [bundles EXCEPT ![nextBundle] = NewBundle(k, p)]
    /\ UNCHANGED ptr

(* It fails before the directory is renamed; at the pointer, rolled back     *)
(* with the old pointer kept or already replaced; or with the roll-back not  *)
(* done, leaving the directory and whatever the pointer then was.            *)
PublishFails(k, p) ==
    /\ nextBundle' = nextBundle + 1 /\ Fault
    /\ \/ bundles' = bundles /\ ptr' \in {ptr, [ptr EXCEPT ![k] = 0]}
       \/ /\ bundles' = [bundles EXCEPT ![nextBundle] = NewBundle(k, p)]
          /\ ptr' \in {ptr, [ptr EXCEPT ![k] = 0], [ptr EXCEPT ![k] = nextBundle]}

(* #expireUnlocked: the key's pointer goes first, whatever it points at.     *)
ExpireBundle(k, a) ==
    /\ ptr' = [ptr EXCEPT ![k] = 0]
    /\ bundles' = [bundles EXCEPT ![a] = NoBundle]
    /\ UNCHANGED faults

(* A removal that fails may have removed the pointer, or part of the bundle. *)
ExpireFails(k, a) ==
    /\ Fault
    /\ \/ ptr' \in {ptr, [ptr EXCEPT ![k] = 0]} /\ UNCHANGED bundles
       \/ ptr' = [ptr EXCEPT ![k] = 0] /\ bundles' = [bundles EXCEPT ![a] = NoBundle]

(* invalidateBundle: the pointer only if it is this bundle's.                *)
\* seeded fault: the pointer survives its bundle
KeepsPointer(k, a) == ptr
Unpointed(k, a) == IF ptr[k] = a THEN [ptr EXCEPT ![k] = 0] ELSE ptr

InvalidateBundle(k, a) ==
    /\ ptr' = Unpointed(k, a)
    /\ bundles' = [bundles EXCEPT ![a] = NoBundle]
    /\ UNCHANGED faults

InvalidateFails(k, a) ==
    /\ Fault
    /\ \/ ptr' \in {ptr, Unpointed(k, a)} /\ UNCHANGED bundles
       \/ ptr' = Unpointed(k, a) /\ bundles' = [bundles EXCEPT ![a] = NoBundle]

(* find: a pointer past its expiry is expired on the way.                    *)
\* seeded fault: a bundle is expired one tick before its time
PointerExpiresEarly(k) == ptr[k] # 0 /\ bundles[ptr[k]].expires <= now + 1
PointerExpired(k) == ptr[k] # 0 /\ Expired(bundles[ptr[k]].expires)
Found(k)          == IF PointerExpired(k) THEN 0 ELSE ptr[k]

Find(k) ==
    IF PointerExpired(k) THEN ExpireBundle(k, ptr[k])
    ELSE UNCHANGED <<bundles, ptr, faults>>

FindFails(k) ==
    IF PointerExpired(k) THEN ExpireFails(k, ptr[k]) ELSE Fault /\ UNCHANGED <<bundles, ptr>>

----------------------------------------------------------------------------
(* The process.  The maps in memory are lost when it goes down; "jobs" and   *)
(* "tombs" keep what clients saw last until Initialize overwrites them.      *)

Down ==
    /\ phase' = "down"
    /\ worker' = At("off") /\ recover' = {}
    /\ sub' = NoSubmission /\ syncKey' = NoKey /\ sweeping' = 0

Dies == phase # "down" /\ Down /\ crashes < MaxCrashes /\ crashes' = crashes + 1

Crash ==
    /\ Dies
    /\ UNCHANGED <<now, store, repo, nextBundle, called, faults>>

(* FileJobRepository.initialize: tombstoned ids are dropped from the map,    *)
(* and of several active jobs for one key all but the oldest are failed.     *)
\* seeded fault: tombstoned records are loaded
LoadedWithTombstoned == dJobs
Loaded          == [j \in JobIds |-> IF dTombs[j] # 0 THEN NoJob ELSE dJobs[j]]
IsDuplicate(j)  == \E i \in ActiveIds(Loaded) : i < j /\ Loaded[i].key = Loaded[j].key
\* seeded fault: startup trusts the records it finds
NoDuplicates    == {}
Duplicates      == {j \in ActiveIds(Loaded) : IsDuplicate(j)}
Repaired        == [j \in JobIds |-> IF j \in Duplicates THEN Failed(Loaded[j]) ELSE Loaded[j]]

(* The repairs are written one after the other.  A failure or a crash leaves *)
(* some of them for the next start to find.                                  *)
RepairCut ==
    /\ phase = "down"
    /\ \E S \in SUBSET Duplicates :
         S # {} /\ dJobs' = [j \in JobIds |-> IF j \in S THEN Repaired[j] ELSE dJobs[j]]
    /\ \/ Fault /\ UNCHANGED crashes
       \/ crashes < MaxCrashes /\ crashes' = crashes + 1 /\ UNCHANGED faults
    /\ UNCHANGED <<now, phase, store, jobs, tombs, dTombs, nextJob, procs, nextBundle, called>>

Initialize ==
    /\ phase = "down" /\ phase' = "recovering"
    /\ jobs' = Repaired /\ tombs' = dTombs
    /\ dJobs' = [j \in JobIds |-> IF j \in Duplicates THEN Repaired[j] ELSE dJobs[j]]
    /\ recover' = {j \in JobIds : Repaired[j].status = "processing"}
    /\ worker' = At("recover")
    /\ UNCHANGED <<now, store, dTombs, nextJob, sub, syncKey, sweeping, nextBundle, called,
                   faults, crashes>>

(* beginShutdown, then stop: the loop ends once it holds no job.             *)
Stop ==
    /\ phase = "running" /\ phase' = "stopping"
    /\ UNCHANGED <<now, store, repo, procs, nextBundle, called, faults, crashes>>

Exit ==
    /\ phase = "stopping" /\ worker.pc = "off"
    /\ sub.pc = "idle" /\ syncKey = NoKey /\ sweeping = 0
    /\ Down
    /\ UNCHANGED <<now, store, repo, nextBundle, called, faults, crashes>>

Tick ==
    /\ now < MaxTime /\ now' = now + 1
    /\ UNCHANGED <<phase, store, repo, procs, nextBundle, called, faults, crashes>>

----------------------------------------------------------------------------
(* DurableJobWorker.recover: one processing job after another.  A failure    *)
(* other than the renderer's ends the startup.                               *)

Recovered(j, a) ==
    LET As(pc, m, e) == Holding(pc, m, j, jobs[j].rev, a, e) IN
    IF a # 0 THEN As("complete", "found", bundles[a].expires)
    ELSE IF j \in work THEN As("render", "resume", 0)
    ELSE As("failclean", "interrupt", 0)

RecoverFind(j) ==
    /\ worker.pc = "recover" /\ j \in Oldest(recover)
    /\ \/ /\ Find(jobs[j].key) /\ recover' = recover \ {j} /\ UNCHANGED phase
          /\ worker' = Recovered(j, Found(jobs[j].key))
       \/ FindFails(jobs[j].key) /\ phase' = "down" /\ worker' = At("off") /\ recover' = {}
    /\ UNCHANGED <<now, work, repo, sub, syncKey, sweeping, nextBundle, called, crashes>>

\* seeded fault: startup reconciles one job and goes on
RecoverOnlyOne ==
    /\ worker.pc = "recover"
    /\ phase' = "running" /\ worker' = At("idle") /\ recover' = {}
    /\ UNCHANGED <<now, store, repo, sub, syncKey, sweeping, nextBundle, called, faults,
                   crashes>>

RecoverDone ==
    /\ worker.pc = "recover" /\ recover = {}
    /\ phase' = "running" /\ worker' = At("idle")
    /\ UNCHANGED <<now, store, repo, recover, sub, syncKey, sweeping, nextBundle, called,
                   faults, crashes>>

----------------------------------------------------------------------------
(* DurableJobWorker.#run.                                                    *)

PickCandidate ==
    /\ worker.pc = "idle" /\ phase = "running"
    /\ \/ QueuedIds = {} /\ worker' = At("waiting")
       \/ \E j \in Oldest(QueuedIds) :
            worker' = Holding("permit", "loop", j, jobs[j].rev, 0, 0)
    /\ UNCHANGED <<now, phase, store, repo, recover, sub, syncKey, sweeping, nextBundle,
                   called, faults, crashes>>

GetPermit ==
    /\ worker.pc = "permit" /\ phase = "running"
    /\ worker' = [worker EXCEPT !.pc = "permitted"]
    /\ UNCHANGED <<now, phase, store, repo, recover, sub, syncKey, sweeping, nextBundle,
                   called, faults, crashes>>

\* seeded fault: the loop ends without its job
WorkerExitAtOnce ==
    /\ phase = "stopping" /\ worker.pc \in {"idle", "waiting", "permit", "provider"}
    /\ worker' = At("off")
    /\ UNCHANGED <<now, phase, store, repo, recover, sub, syncKey, sweeping, nextBundle,
                   called, faults, crashes>>

WorkerExit ==
    /\ phase = "stopping" /\ worker.pc \in {"idle", "waiting", "permit"}
    /\ worker' = At("off")
    /\ UNCHANGED <<now, phase, store, repo, recover, sub, syncKey, sweeping, nextBundle,
                   called, faults, crashes>>

(* #runCandidate: the claim is by revision; if it throws, the loop waits for *)
(* a notification.                                                           *)
IsFresh == jobs[worker.job].status = "queued" /\ jobs[worker.job].rev = worker.rev

Claim ==
    /\ worker.pc = "permitted" /\ RepositoryFree /\ IsFresh
    /\ LET r == Started(jobs[worker.job]) IN
       \/ /\ PutJob(worker.job, r)
          /\ worker' = Holding("provider", "loop", worker.job, r.rev, 0, 0)
          /\ called' = called \cup {worker.job}
       \/ /\ PutJobFails(worker.job, r)
          /\ worker' = At("waiting") /\ UNCHANGED called
    /\ UNCHANGED <<now, phase, store, nextJob, recover, sub, syncKey, sweeping, nextBundle,
                   crashes>>

(* What a step of #completePublished or #failTerminal leads to, in the loop  *)
(* and during recovery.                                                      *)
Done == IF worker.mode = "loop" THEN At("idle")
                                ELSE At("recover")

Continue == worker' = Done /\ UNCHANGED <<phase, recover>>

StepTo(pc) == worker' = [worker EXCEPT !.pc = pc] /\ UNCHANGED <<phase, recover>>

Throw(next) ==
    IF worker.mode = "loop" THEN next
    ELSE phase' = "down" /\ worker' = At("off") /\ recover' = {}

(* getTranscript and saveWorkTranscript; a failed save may leave the files.  *)
Transcribe ==
    /\ worker.pc = "provider"
    /\ \/ work' = work \cup {worker.job} /\ StepTo("render") /\ UNCHANGED faults
       \/ UNCHANGED <<work, faults>> /\ StepTo("failclean")
       \/ Fault /\ work' \in {work, work \cup {worker.job}} /\ StepTo("failclean")
    /\ UNCHANGED <<now, bundles, ptr, repo, sub, syncKey, sweeping, nextBundle, called,
                   crashes>>

Render ==
    /\ worker.pc = "render"
    /\ \/ nextBundle \in BundleIds /\ StepTo("publish")
       \/ StepTo("failclean")
    /\ UNCHANGED <<now, store, repo, sub, syncKey, sweeping, nextBundle, called, faults,
                   crashes>>

Publish ==
    /\ worker.pc = "publish"
    /\ LET k == jobs[worker.job].key IN
       \/ /\ PublishBundle(k, worker.job) /\ UNCHANGED <<phase, recover>>
          /\ worker' = Holding("complete", worker.mode, worker.job, worker.rev, nextBundle,
                                now + ArtifactTtl)
       \/ PublishFails(k, worker.job) /\ Throw(StepTo("failclean"))
    /\ UNCHANGED <<now, work, repo, sub, syncKey, sweeping, called, crashes>>

Complete ==
    /\ worker.pc = "complete" /\ RepositoryFree
    /\ LET r == Completed(jobs[worker.job], worker.art, worker.expires) IN
       \/ PutJob(worker.job, r) /\ StepTo("cleanup")
       \/ PutJobFails(worker.job, r) /\ StepTo("invalidate")
    /\ UNCHANGED <<now, store, nextJob, sub, syncKey, sweeping, nextBundle, called, crashes>>

Invalidate ==
    /\ worker.pc = "invalidate"
    /\ LET k == jobs[worker.job].key IN
       InvalidateBundle(k, worker.art) \/ InvalidateFails(k, worker.art)
    /\ Throw(StepTo("failclean"))
    /\ UNCHANGED <<now, work, repo, sub, syncKey, sweeping, nextBundle, called, crashes>>

(* A work directory that cannot be removed after the completion is persisted *)
(* sends the loop to #failTerminal, whose transition the terminal job        *)
(* refuses.                                                                  *)
Cleanup ==
    /\ worker.pc = "cleanup"
    /\ \/ work' = work \ {worker.job} /\ Continue /\ UNCHANGED faults
       \/ Fault /\ UNCHANGED work /\ Throw(StepTo("failclean"))
    /\ UNCHANGED <<now, bundles, ptr, repo, sub, syncKey, sweeping, nextBundle, called,
                   crashes>>

FailClean ==
    /\ worker.pc = "failclean"
    /\ \/ work' = work \ {worker.job} /\ StepTo("failwrite") /\ UNCHANGED faults
       \/ Fault /\ UNCHANGED work /\ Throw(Continue)
    /\ UNCHANGED <<now, bundles, ptr, repo, sub, syncKey, sweeping, nextBundle, called,
                   crashes>>

(* #fail: its own failure is swallowed by the loop.                          *)
\* seeded fault: a job is failed without looking at its status and revision
FailsAnything == TRUE
MayFail == jobs[worker.job].status = "processing" /\ jobs[worker.job].rev = worker.rev

FailWrite ==
    /\ worker.pc = "failwrite" /\ RepositoryFree
    /\ LET r == Failed(jobs[worker.job]) IN
       \/ MayFail /\ PutJob(worker.job, r) /\ Continue
       \/ MayFail /\ PutJobFails(worker.job, r) /\ Throw(Continue)
       \/ ~MayFail /\ UNCHANGED <<jobs, tombs, dJobs, dTombs, faults>> /\ Continue
    /\ UNCHANGED <<now, store, nextJob, sub, syncKey, sweeping, nextBundle, called, crashes>>

----------------------------------------------------------------------------
(* DurableJobCoordinator.submit, serialised by #submissionTail.  A key with  *)
(* an active owner is joined, which changes nothing.                         *)

SubmitBegin(k) ==
    /\ phase = "running" /\ sub.pc = "idle" /\ ~HasOwner(k) /\ nextJob \in JobIds
    /\ sub' = Submitting("find", k, 0, NoBundle)
    /\ UNCHANGED <<now, phase, store, repo, worker, recover, syncKey, sweeping, nextBundle,
                   called, faults, crashes>>

SubmitFind ==
    /\ sub.pc = "find"
    /\ \/ /\ Find(sub.key)
          /\ LET a == Found(sub.key) IN
             sub' = IF a = 0 THEN [sub EXCEPT !.pc = "create"]
                    ELSE Submitting("retained", sub.key, a, bundles[a])
       \/ FindFails(sub.key) /\ sub' = NoSubmission
    /\ UNCHANGED <<now, phase, work, repo, worker, recover, syncKey, sweeping, nextBundle,
                   called, crashes>>

(* The producer named by the bundle's manifest: completed and retained, the  *)
(* answer is that job; never a job or forgotten, a completed job is created; *)
(* otherwise the submission falls through to a miss.                         *)
SubmitRetained ==
    /\ sub.pc = "retained" /\ RepositoryFree
    /\ LET p == sub.bundle.producer IN
       sub' = IF p = 0 \/ (tombs[p] = 0 /\ jobs[p] = NoJob) THEN [sub EXCEPT !.pc = "hit"]
              ELSE IF tombs[p] = 0 /\ jobs[p].status = "completed" THEN NoSubmission
              ELSE [sub EXCEPT !.pc = "create"]
    /\ UNCHANGED <<now, phase, store, repo, worker, recover, syncKey, sweeping, nextBundle,
                   called, faults, crashes>>

CreateJob(r)   == nextJob' = nextJob + 1 /\ PutJob(nextJob, r)
CreateFails(r) == nextJob' = nextJob + 1 /\ PutJobFails(nextJob, r)

(* A created miss notifies the worker, which hears it only while it waits.   *)
\* seeded fault: a created miss does not wake the worker
NotNotified == worker
Notified == IF worker.pc = "waiting" THEN [worker EXCEPT !.pc = "idle"] ELSE worker

(* The limit is compared before the repository's mutex is waited for.        *)
SubmitAdmit ==
    /\ sub.pc = "create" /\ Cardinality(ActiveIds(jobs)) < MaxQueuedJobs
    /\ sub' = [sub EXCEPT !.pc = "admitted"]
    /\ UNCHANGED <<now, phase, store, repo, worker, recover, syncKey, sweeping, nextBundle,
                   called, faults, crashes>>

SubmitMiss ==
    /\ sub.pc = "admitted" /\ RepositoryFree
    /\ \/ CreateJob(Queued(sub.key)) /\ worker' = Notified
       \/ CreateFails(Queued(sub.key)) /\ UNCHANGED worker
    /\ sub' = NoSubmission
    /\ UNCHANGED <<now, phase, store, recover, syncKey, sweeping, nextBundle, called, crashes>>

SubmitRejected ==
    /\ sub.pc = "create" /\ Cardinality(ActiveIds(jobs)) >= MaxQueuedJobs
    /\ sub' = NoSubmission
    /\ UNCHANGED <<now, phase, store, repo, worker, recover, syncKey, sweeping, nextBundle,
                   called, faults, crashes>>

SubmitHit ==
    /\ sub.pc = "hit" /\ RepositoryFree
    /\ LET r == CompletedHit(sub.key, sub.art, sub.bundle.expires)
       IN  CreateJob(r) \/ CreateFails(r)
    /\ sub' = NoSubmission
    /\ UNCHANGED <<now, phase, store, worker, recover, syncKey, sweeping, nextBundle, called,
                   crashes>>

----------------------------------------------------------------------------
(* A synchronous transcript request: a verified hit is answered at once and  *)
(* changes nothing; a miss produces and publishes without a job.             *)

SyncFind(k) ==
    /\ phase = "running" /\ syncKey = NoKey
    /\ \/ Found(k) = 0 /\ Find(k)
       \/ FindFails(k)
    /\ syncKey' = k
    /\ UNCHANGED <<now, phase, work, repo, worker, recover, sub, sweeping, nextBundle,
                   called, crashes>>

SyncPublish ==
    /\ syncKey # NoKey /\ syncKey' = NoKey
    /\ nextBundle \in BundleIds /\ (worker.pc = "publish" => nextBundle < MaxBundles)
    /\ PublishBundle(syncKey, 0) \/ PublishFails(syncKey, 0)
    /\ UNCHANGED <<now, phase, work, repo, worker, recover, sub, sweeping, called, crashes>>

SyncAbort ==
    /\ syncKey # NoKey /\ syncKey' = NoKey
    /\ UNCHANGED <<now, phase, store, repo, worker, recover, sub, sweeping, nextBundle,
                   called, faults, crashes>>

----------------------------------------------------------------------------
(* FileJobRepository.sweep.  Under the repository mutex: the bundle of an    *)
(* expired completed job, then its tombstone, then its job file.             *)

Due(j, s) ==
    /\ phase \in {"running", "stopping"} /\ RepositoryFree
    /\ jobs[j].status = s /\ Expired(jobs[j].expires)

SweepBundle(j) ==
    /\ Due(j, "completed")
    /\ \/ ExpireBundle(jobs[j].key, jobs[j].art) /\ sweeping' = j
       \/ ExpireFails(jobs[j].key, jobs[j].art) /\ UNCHANGED sweeping
    /\ UNCHANGED <<now, phase, work, repo, worker, recover, sub, syncKey, nextBundle,
                   called, crashes>>

TombExpiry(j) == jobs[j].expires + TombstoneTtl

ExpireJob(j) ==
    LET expiry == TombExpiry(j) IN
    \/ /\ jobs' = [jobs EXCEPT ![j] = NoJob] /\ dJobs' = [dJobs EXCEPT ![j] = NoJob]
       /\ tombs' = [tombs EXCEPT ![j] = expiry] /\ dTombs' = [dTombs EXCEPT ![j] = expiry]
       /\ UNCHANGED faults
    \/ /\ Fault /\ dTombs' \in {dTombs, [dTombs EXCEPT ![j] = expiry]}
       /\ UNCHANGED <<jobs, dJobs, tombs>>

SweepCompleted ==
    /\ sweeping # 0 /\ sweeping' = 0
    /\ ExpireJob(sweeping)
    /\ UNCHANGED <<now, phase, store, nextJob, worker, recover, sub, syncKey, nextBundle,
                   called, crashes>>

SweepFailed(j) ==
    /\ Due(j, "failed") /\ ExpireJob(j)
    /\ UNCHANGED <<now, phase, store, nextJob, procs, nextBundle, called, crashes>>

SweepTombstone(j) ==
    /\ phase \in {"running", "stopping"} /\ RepositoryFree /\ Expired(tombs[j])
    /\ tombs' = [tombs EXCEPT ![j] = 0] /\ dTombs' = [dTombs EXCEPT ![j] = 0]
    /\ UNCHANGED <<now, phase, store, jobs, dJobs, nextJob, procs, nextBundle, called,
                   faults, crashes>>

----------------------------------------------------------------------------
(* A crash between two writes of one operation.                              *)

CrashInPublication ==
    /\ nextBundle \in BundleIds
    /\ \/ worker.pc = "publish" /\ DirectoryOnly(jobs[worker.job].key, worker.job)
       \/ syncKey # NoKey /\ DirectoryOnly(syncKey, 0)
    /\ Dies
    /\ UNCHANGED <<now, work, repo, called, faults>>

(* Who may be between the removal of the pointer of k and that of the bundle. *)
RemovesPointer(k) ==
    \/ /\ PointerExpired(k)
       /\ \/ worker.pc = "recover" /\ \E j \in Oldest(recover) : jobs[j].key = k
          \/ sub.pc = "find" /\ sub.key = k
          \/ phase = "running" /\ syncKey = NoKey /\ k \in SyncKeys
    \/ \E j \in JobIds : Due(j, "completed") /\ jobs[j].key = k
    \/ worker.pc = "invalidate" /\ jobs[worker.job].key = k /\ ptr[k] = worker.art

CrashInRemoval ==
    /\ \E k \in Keys : RemovesPointer(k) /\ ptr' = [ptr EXCEPT ![k] = 0]
    /\ Dies
    /\ UNCHANGED <<now, bundles, work, repo, nextBundle, called, faults>>

(* The tombstone is written and the job file is still there.                 *)
CrashInExpiry ==
    /\ \E j \in JobIds : /\ j = sweeping \/ Due(j, "failed")
                         /\ dTombs' = [dTombs EXCEPT ![j] = TombExpiry(j)]
    /\ Dies
    /\ UNCHANGED <<now, store, jobs, tombs, dJobs, nextJob, nextBundle, called, faults>>

CrashInside == CrashInPublication \/ CrashInRemoval \/ CrashInExpiry

----------------------------------------------------------------------------
Recovery   == (\E j \in JobIds : RecoverFind(j)) \/ RecoverDone
WorkerStep == \/ Recovery \/ PickCandidate \/ GetPermit \/ WorkerExit \/ Claim
              \/ Transcribe \/ Render \/ Publish \/ Complete \/ Invalidate
              \/ Cleanup \/ FailClean \/ FailWrite
SubmitStep == \/ SubmitFind \/ SubmitRetained \/ SubmitAdmit \/ SubmitMiss
              \/ SubmitRejected \/ SubmitHit
SweepStart == \E j \in JobIds : SweepBundle(j) \/ SweepFailed(j) \/ SweepTombstone(j)

Next ==
    \/ Initialize \/ RepairCut \/ Stop \/ Exit \/ Crash \/ CrashInside \/ Tick
    \/ WorkerStep
    \/ \E k \in Keys : SubmitBegin(k)
    \/ \E k \in SyncKeys : SyncFind(k)
    \/ SubmitStep \/ SyncPublish \/ SyncAbort
    \/ SweepStart \/ SweepCompleted

Spec == Init /\ [][Next]_vars

(* What the event loop guarantees: a started process loads its repository,   *)
(* an operation that was begun goes on, and the sweep timer keeps firing.    *)
Fairness ==
    /\ WF_vars(Initialize) /\ WF_vars(Exit)
    /\ WF_vars(WorkerStep) /\ WF_vars(SubmitStep)
    /\ WF_vars(SyncPublish \/ SyncAbort)
    /\ WF_vars(SweepStart) /\ WF_vars(SweepCompleted)

FairSpec == Spec /\ Fairness

----------------------------------------------------------------------------
(* Safety, with failing storage operations and crashes.                      *)

(* At most one job that clients see is queued or processing for a key,       *)
(* though a create that reported a failure may have left a second record on  *)
(* the volume for the next start to find (CACHE-03, EDGE-07).                *)
OneActivePerKey ==
    \A i, j \in ActiveIds(jobs) : jobs[i].key = jobs[j].key => i = j

(* A job for which the provider was called is queued neither in memory nor   *)
(* on the volume: no failure and no restart calls the provider for it again  *)
(* (EDGE-02, EDGE-03).                                                       *)
NoRepeatedProviderCall ==
    \A j \in called : jobs[j].status # "queued" /\ dJobs[j].status # "queued"

Rank(r) == CASE r.status = "queued" -> 1 [] r.status = "processing" -> 2
             [] r.status \in Terminal -> 3 [] OTHER -> 0

MovesForward(r, s) == s.key = r.key /\ s.rev > r.rev /\ Rank(s) > Rank(r)

(* What a client sees is on the volume: the same record, or a later one of   *)
(* an active job whose write reported a failure (design.md: "every           *)
(* authoritative state transition is persisted before it becomes visible").  *)
DurableBeforeVisible ==
    \A j \in JobIds : jobs[j] # NoJob =>
        \/ dJobs[j] = jobs[j]
        \/ jobs[j].status \in Active /\ MovesForward(jobs[j], dJobs[j])

(* No step, a restart included, takes an acknowledged job back: its record   *)
(* stays, or moves to a later status of the same key at a later revision, or *)
(* ends as a tombstone once it has expired.                                  *)
RecordsMoveForward ==
    [][\A j \in JobIds : jobs[j] # NoJob =>
         \/ jobs'[j] = jobs[j] \/ MovesForward(jobs[j], jobs'[j])
         \/ /\ jobs[j].status \in Terminal /\ Expired(jobs[j].expires)
            /\ jobs'[j] = NoJob /\ tombs'[j] # 0]_vars

(* The records, the tombstones and the steps in progress agree: a record is  *)
(* whole; a tombstone in memory replaces its record, and one that only the   *)
(* volume has belongs to an expired job; what a submission, the worker, the  *)
(* recovery and the sweep read before they gave up control still holds when  *)
(* they use it.                                                              *)
Whole(j, r) == r = NoJob \/ (r.status # "absent" /\ r.key \in Keys /\ j < nextJob)

RecordsWhole == \A j \in JobIds : Whole(j, jobs[j]) /\ Whole(j, dJobs[j])

TombstonesApart ==
    \A j \in JobIds :
        /\ tombs[j] # 0 => jobs[j] = NoJob /\ dTombs[j] = tombs[j]
        /\ dTombs[j] # 0 => /\ j < nextJob
                            /\ jobs[j] = NoJob \/ (/\ jobs[j].status \in Terminal
                                                   /\ Expired(jobs[j].expires))

SubmissionCurrent ==
    /\ phase \in {"down", "recovering"} => sub.pc = "idle"
    /\ sub.pc # "idle" => sub.key \in Keys /\ nextJob \in JobIds /\ ~HasOwner(sub.key)

WorkerCurrent ==
    /\ worker.pc \notin {"off", "recover", "idle", "waiting"} => worker.job \in JobIds
    /\ worker.pc \in {"provider", "render", "publish", "complete"} =>
         jobs[worker.job].status = "processing"
    /\ worker.pc = "publish" => nextBundle \in BundleIds
    /\ worker.pc = "recover" \/ worker.mode # "loop" => phase = "recovering"

RecoveryCurrent ==
    \A j \in recover : /\ phase = "recovering" /\ jobs[j].status = "processing"
                       /\ j # worker.job

SweepCurrent ==
    sweeping # 0 => /\ phase \in {"running", "stopping"}
                    /\ jobs[sweeping].status = "completed"
                    /\ Expired(jobs[sweeping].expires)

StepsAgree == /\ RecordsWhole /\ TombstonesApart /\ SubmissionCurrent
              /\ WorkerCurrent /\ RecoveryCurrent /\ SweepCurrent

(* A job reported expired (410) stays so until its tombstone's own time is   *)
(* over, whatever was left on the volume when the process went down.         *)
ExpiredStaysExpired ==
    [][\A j \in JobIds : tombs[j] # 0 =>
         /\ jobs'[j] = NoJob
         /\ tombs'[j] = tombs[j] \/ (tombs'[j] = 0 /\ Expired(tombs[j]))]_vars

(* A cache pointer never names a directory that is gone or another key's:    *)
(* every removal takes the pointer before the content (STORE-07).            *)
PointerNotDangling ==
    \A k \in Keys : ptr[k] # 0 => bundles[ptr[k]].key = k

----------------------------------------------------------------------------
(* Without storage failures, with crashes and graceful restarts.             *)

(* The jobs implement JobLifecycle: the active jobs are bounded by the queue *)
(* limit, the queue is FIFO with one job processing, a claimed job ends, and *)
(* all that a client sees of a restart is that an expiry cut by a crash is   *)
(* completed, and that a job it left behind comes back once forgotten.       *)
ClientStatus(j) ==
    IF jobs[j] # NoJob THEN jobs[j].status
    ELSE IF tombs[j] # 0 THEN "expired"
    ELSE IF j < nextJob THEN "forgotten" ELSE "unknown"

Residue(j) ==
    IF jobs[j] = NoJob /\ dJobs[j] # NoJob
    THEN [status |-> dJobs[j].status, key |-> dJobs[j].key]
    ELSE [status |-> "none", key |-> NoKey]

Lifecycle == INSTANCE JobLifecycle WITH
                 Jobs <- JobIds,
                 status <- [j \in JobIds |-> ClientStatus(j)],
                 key <- [j \in JobIds |-> jobs[j].key],
                 residue <- [j \in JobIds |-> Residue(j)]

ImplementsLifecycle == Lifecycle!FairSpec

(* The bundle of a completed job is on the volume until the job expires:     *)
(* neither another job's expiry nor a restart takes it (STORE-01).           *)
CompletedReadable ==
    \A j \in JobIds :
        jobs[j].status = "completed" /\ ~Expired(jobs[j].expires) =>
            /\ bundles[jobs[j].art].key = jobs[j].key
            /\ bundles[jobs[j].art].expires = jobs[j].expires

(* A graceful shutdown leaves no job processing (WORK-05).                   *)
CleanExit ==
    [][phase = "stopping" /\ phase' = "down" /\ crashes' = crashes =>
         \A j \in JobIds : jobs'[j].status # "processing"]_vars

(* In a process that stays up, every queued job is claimed: no submission's  *)
(* notification is lost (WORK-02).                                           *)
StaysUp == <>[](phase = "running")

QueuedIsClaimed ==
    StaysUp => \A j \in JobIds : jobs[j].status = "queued" ~> jobs[j].status # "queued"

(* In a process that stays up, an expired job is removed (CACHE-07).         *)
ExpiredIsSwept ==
    StaysUp => \A j \in JobIds :
        (jobs[j].status \in Terminal /\ jobs[j].expires <= now) ~> jobs[j] = NoJob

----------------------------------------------------------------------------
(* What the documents say and the code does not do.                          *)

(* spec.md CACHE-04: "WHEN an unexpired completed artifact/job exists THEN   *)
(* it SHALL return the same job ID with `hit`".  No submission goes on to    *)
(* new work while the key has a completed, unexpired, readable job.          *)
UnexpiredIsReused ==
    sub.pc = "create" =>
        \A j \in JobIds :
            jobs[j].status = "completed" /\ jobs[j].key = sub.key
              /\ bundles[jobs[j].art].key = sub.key => Expired(jobs[j].expires)

(* design.md: "expired --> [*]: tombstone TTL".  When the tombstone goes,    *)
(* nothing of the job is left.                                               *)
ForgottenForGood ==
    [][\A j \in JobIds : tombs[j] # 0 /\ tombs'[j] = 0 => dJobs'[j] = NoJob]_vars
=============================================================================
