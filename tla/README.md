# Verification of the transcript API

The repository serves transcripts of YouTube videos: a TypeScript HTTP API (`src/src`) with durable
jobs on a file volume and a retrieval subsystem (RAG) over LanceDB, and a channel library
(`src/services/channel-library`) that uses the API as a client. This directory holds TLA+ models of
its protocols, the TLC runs that check them and the TLAPS proofs about them. The models are
translated from the code; the documents under `src/.specs` are quoted only where code and document
disagree.

## 1. Inventory

| component | state | operations | interacts with |
|---|---|---|---|
| `FileJobRepository` | map of jobs, of tombstones and of active owners; one JSON file per job and per tombstone | `initialize` (with the repair of duplicates), `create`, `get`, `transition` by revision, `sweep`, `oldestQueued`, `activeOwner` | `AtomicFileWriter`; calls `FileArtifactStore.expire` inside its mutex |
| `FileArtifactStore` | bundle directories, one cache pointer per key, work directories | `publishBundle`, `find`, `readForJob`, `withVerifiedTranscript`, `invalidateBundle`, `expire`, work save/recover/cleanup | one lock per key |
| `DurableJobWorker` | loop promise, wake callback | `start`, `notify`, `stop`, `recover`, the claim loop | repository, store, permits, provider |
| `DurableJobCoordinator` | submission tail, readiness, sweep timer | `start`, `submit`, readers, `stop` | all of the above |
| `ExecutionController` | active permits, waiters | `tryAcquire`, `waitForPermit`, `release`, `beginShutdown` | worker, synchronous routes |
| synchronous routes, `TranscriptArtifactCoordinator` | none | verified hit; produce and publish without a job | store, permits |
| `AsyncReadWriteLock` | readers, writer, two queues | acquire, release, abort, `stop` | RAG search, ingestion, deletion, maintenance |
| `RagEncoderScheduler` | two queues, active flag, a counter of searches | `runSearch`, `runIngestionBatch`, abort, `stop` | search, ingestion |
| `FileRagRepository` | ingestion records, epochs, snapshots on files | `createQueued`, `transition`, `writeEpoch`, `sweep`, `initialize` | |
| `LanceDbRagIndex` | rows per document | `replaceDocument`, `deleteDocument`, `inspectDocument`, search | |
| `RagIngestionWorker` | loop, fatal flag, maintenance | claim, chunk, embed, publish; `recover` | repository, index, scheduler, lock |
| `RagIngestionCoordinator` | readiness, retry and sweep timers, submission tail | `submit`, `delete`, `search`, initialise, degrade, `stop` | everything RAG; reads the durable jobs under an artifact key lock |
| providers: captions, audio fallback, process runner | child processes, temporary files | produce a transcript | |
| channel library: `Worker`, `Store`, `Remote` | SQLite tables of channels, runs, videos, chunks | collect, process, retry, recover | client of the durable jobs and of an LLM |
| chunker, rank fusion, URL parsing, PDF, metrics, OpenAPI, web client, scripts | none or counters | pure functions, wiring, user interface | |

**What is hard.** Everything server-side runs on one event loop, so the hard interleavings are at
the `await`s: a submission, the worker, a synchronous request, the sweep and a shutdown each read
state, give up control and act on what they read. Storage can fail half way through an operation
(a rename that succeeded under a directory sync that failed), and the process can die anywhere. The
RAG subsystem adds publications that race deletions under epochs, recovery from three places that
may disagree (index, epoch, receipt), and a re-initialisation that runs beside a live worker. The
list of hazards, each at its line, is in `PROJECT.json`.

**What makes each component correct.**

- Jobs: one active job per key; FIFO, one at a time; a record only moves forward; a provider call
  is never repeated; expired stays expired; nothing is visible before it is durable; a queued job
  is eventually claimed and a claimed one ends.
- Store: a pointer never dangles; the bundle of a completed job is there until the job expires.
- Permits, lock, scheduler: bounds are kept, no waiter is lost across an abort, the writer is
  preferred, ingestion is not starved.
- RAG: a deleted document does not come back; index, epoch and receipt agree at rest; a search sees
  one generation of a document; recovery makes progress.
- Channel library: a video is submitted once while its job lives; the cursor and the videos agree;
  a retry resumes from what is saved.

## 2. Modules

State machines:

| module | what it is |
|---|---|
| `JobLifecycle` | what a client may rely on: accepted once, claimed FIFO and one at a time, ended, expired, forgotten. No storage and no worker; of a restart, what a client sees: an expiry that a crash cut is completed, and the job it left behind comes back once it was forgotten. |
| `DurableJobs` | repository, store, worker, submissions, a synchronous publisher, sweep, clock, startup, recovery, shutdown, crashes; every property; the refinement of `JobLifecycle` |
| `TranscriptExecution` | execution permits and the production under them: captions, tools, Muse, the temporary directory, timeouts, aborts, shutdown |
| `DocumentShelf` | what a searcher may rely on: a document shows one ingestion as a whole, accepted after its last acknowledged deletion |
| `RagIngestion` | ingestion repository, epochs, snapshots, table, worker, coordinator, search, degradation, shutdown, crashes; the refinement of `DocumentShelf`. `RagIngestionMC` adds the symmetry of the versions. |
| `ReadWriteLock` | `AsyncReadWriteLock`: both acquisitions, both releases, the abort of a waiter, `stop` |
| `EncoderScheduler` | `RagEncoderScheduler`: searches and batches queueing for one encoder, the end of a task in two turns, abort, `stop` |
| `ChannelLibrary` | the channel library's worker over its SQLite store: one channel's collections, its videos, the remote jobs, restarts |

Operators without state, each on the data that a state machine takes as whole:

| module | what it is | why the state machines may rest on it |
|---|---|---|
| `StoredRecords` | job and ingestion records: creation, transition, parser, public view, the scan and its quarantine, the address of a video and its cache key | what the program wrote is read back at the next start |
| `ArtifactFiles` | bundle, pointer and saved transcript as files, any of which may be missing or hold anything | a bundle that is found can be served; a bad one is removed with its own pointer only |
| `IndexRows` | the rows of a publication, the checks before a write and at a reading, merge and deletion | a document's rows are one value in `RagIngestion` |
| `IndexSetup` | manifest, table and text index made in four steps, resumed after a crash in any of them | `InitIndex` either succeeds or changes nothing that matters |
| `RagChunks` | the chunker over a text, a tokenizer and segments | an ingestion has rows that pass the checks |
| `RagRanking` | the fusion of the candidates of two searches | |
| `OperatorChecks` | assumptions that TLC evaluates: the six modules above over all small inputs | |

`EncoderSchedulerMC` is `EncoderScheduler` with `OperatorChecks`, so one run evaluates both.
The theorems of section 6 are in `DurableJobsProofs`, `RagIngestionProofs`, `ReadWriteLockProofs`,
`EncoderSchedulerProofs`, `TranscriptExecutionProofs`, `ChannelLibraryProofs`, `ArtifactFilesProofs`
and `StoredDataProofs` (records, rows and ranking).

How they compose: the production that `DurableJobs` takes as one step with an outcome is
`TranscriptExecution`; the files both repositories write as single values are `StoredRecords` and
`ArtifactFiles`; `RagIngestion` uses the publication lock by what `ReadWriteLock` shows of it
(a writer is alone, comes first and gets in) and the encoder by what `EncoderScheduler` shows (a
batch is started); `ChannelLibrary` sees the durable jobs as a service that may or may not answer.

### DurableJobs and the code

| state | code |
|---|---|
| `jobs`, `tombs` | `FileJobRepository.#jobs`, `#tombstones` |
| `dJobs`, `dTombs` | the job and tombstone files |
| `bundles`, `ptr`, `work` | artifact directories, cache pointer files, work directories |
| `worker` | where `DurableJobWorker`'s loop or `recover` stands, with what it has read |
| `recover` | the rest of `snapshot.processing` in `DurableJobCoordinator.#start` |
| `sub` | the one submission inside `#withSubmissionLock`; `admitted` between the limit (`durable-job-coordinator.ts:290`) and the creation (`:296`) |
| `syncKey` | a synchronous request between its miss and its publication |
| `sweeping` | the job whose bundle `sweep` has expired and whose tombstone is not yet written |
| `phase` | the process: down, recovering, running, stopping |
| `called` | history: the jobs for which the provider was called |

An action is what the code does between two `await`s that matter. Repository operations run under
the repository mutex and store operations under the lock of their key, so each is one step. The
sweep takes two: between the removal of a bundle and the tombstone it has released the key lock and
still holds the mutex, so `RepositoryFree` blocks every repository operation meanwhile and store
operations may come between.

**Failures.** A storage operation that fails is a second disjunct of its action and counts in
`faults`. `AtomicFileWriter.write` syncs the directory after the rename, so a failing write leaves
the target untouched or already replaced, and memory unchanged. `PublishFails` enumerates the
outcomes of the roll-back; `ExpireFails` and `InvalidateFails` those of two removals.

A crash is not a failure of storage. Besides `Crash`, between two steps, there is one action for each
operation that a crash can cut between its writes: `CrashInPublication` (the directory is there, the
pointer is the old one), `CrashInRemoval` (the pointer is gone, the bundle is not), `CrashInExpiry`
(the tombstone is written, the job file is still there) and `RepairCut` (some duplicates are failed).
They count in `crashes` only, so that what is said of healthy storage holds across them.

**Abstractions.**

- A key stands for a canonical video and language list; ids are numbers in order of creation, so
  the tie-break of `compareJobs` on identifiers of the same millisecond is creation order.
- While the process is down, `jobs` and `tombs` keep what clients saw last: `RecordsMoveForward`
  and the refinement then compare what clients see before and after a restart.
- The sweep visits the jobs in any order and lets other repository operations come between two
  jobs; the code does it in one hold of the mutex. The model has more behaviours.
- A joined submission and the read handlers change nothing and have no action. A verified hit of a
  synchronous request neither.
- Files are read as they were written. `StoredDataProofs` shows that the program's own records
  are accepted by its parsers, `ArtifactFiles` what happens to files that were damaged.
- Readiness is left out: no operation that changes the modelled state consults it.
- The worker's wait between a failing claim and `#waitForNotification` is within one turn of
  microtasks that no submission can enter, so it is one step.
- The repair of duplicates at startup is one step of a start that goes on, and `RepairCut`, with any
  part of it written, of a start that does not.

**Bounds.** `MaxJobs`, `MaxBundles`, `MaxTime` cap ids and the clock, `MaxFaults` and `MaxCrashes`
the failures, `SyncKeys` the keys of synchronous requests. A submission begins only if an id is
left; `Render` and `SyncPublish` go on only if a bundle id is left (`Render` may otherwise fail, as
rendering may). The proofs hold for every value of these constants.

**Seeded faults.** An operator with a comment `seeded fault` is not used by the model: it is the
definition that follows it with a plausible bug put in, and replaces it to show that a property
notices (the `mutants` of `PROJECT.json`).

### RagIngestion and the code

| state | code |
|---|---|
| `recs`, `dRecs`, `tombs`, `dTombs` | `FileRagRepository.#records` and `#tombstones`, and their files |
| `epochs`, `dEpochs` | `#epochs` and the epoch files: the fence of a document |
| `snaps` | the snapshot files of ingestions that have not ended |
| `rows` | the LanceDB table: which ingestion's rows a document has |
| `ing` | what a record says from its creation on: document, version, target generation |
| `phase`, `ready`, `retry`, `started`, `init` | `RagIngestionCoordinator`: readiness, the retry timer, and where `#runInitialization` stands, with the record that the recovery holds |
| `worker` | where `RagIngestionWorker`'s loop stands, with the revision it has read |
| `sub`, `del`, `search` | the submission that holds `#submissionTail`, the deletion and the search in progress; `asked` once the readiness was looked at and before the mutex and the lock are granted |
| `buried` | history: the ingestions accepted when the last deletion was acknowledged |

The document mutex and the publication lock are not variables: `DocFree`, `CanRead` and `CanWrite`
say from the program counters who holds them. A publication is three steps, the merge, the epoch and
the record, and a deletion three, the intent, the rows and the deleted epoch, because `Load`, the
sweep and the worker's own transitions take neither lock and a crash may fall between any two. `Load`
reads the files, repairs two owners of a document and removes the snapshots nobody needs;
`ReconcileDelete` and the recovery put epoch, table and record in order before the coordinator serves.

The recovery of a record is `RecoverLock` (under the mutex and the write lock the owner is looked at,
once), `SettleEpoch` and `SettleRecord`, with awaits between them; the worker, which may be running,
puts the record back or fails it meanwhile. The transition then finds another revision:
`SettleRejected`. That is a plain `Error`, not a `RagError`; `#initialize` throws it on
(`rag-ingestion-coordinator.ts:399`), the retry timer does not handle the rejection (`:520`), and
Node ends the process (no handler of unhandled rejections is installed). `InitFailed` is the other
case, a `RagError`, which schedules a retry.

A failing operation may or may not have taken effect; it degrades the coordinator, whose retry
initialises again beside the worker. A crash between two writes of one operation is no failure:
`CreateCut`, `CrashInTransition`, `CrashInSweep`, `CrashInReconcile` and `CrashInLoad` leave the
files as they are in between and count as the end of a life only.

The rows, the snapshot and the chunks are values here (`IndexRows`, `RagChunks`); the embedding is
one step that ends or is aborted; `optimize`, which changes no row, and the probe of free space,
which only refuses a submission, are left out. Which document a submission or a deletion names is
chosen when it has the mutex, and the request that waits is of no document yet: the model has more
behaviours. Bounds: ids, generations, expired ingestions, failures and lives of the process are capped
in the guards by the constants of those names.

### TranscriptExecution and the code

`ready`, `active` and `waiters` are the fields of `ExecutionController`; `pc` is the `await` a task
is at, and what follows an `await` up to the next is one step. `tool` is `process-runner.ts`: a
child that runs, or was told to stop for its first reason; `ForceKill` is the end of the grace, after
which it is no longer waited for. `dirs` are the temporary directories of `audio-media-pipeline.ts`,
removed in its `finally`. `Publish` stands for the PDF, the artifact and the answer or completion,
where no signal is looked at any more. A client that leaves while its request still looks for a
cached artifact is not noticed (`http/app.ts` adds its listeners after that `await`), so
`ClientLeaves` begins with the permit.

### ChannelLibrary and the code

`chan`, `run`, `vids`, `sources`, `chunks` and `attempts` are rows of the SQLite file; a statement or
a transaction is one step and survives a crash. `worker` is the loop of `worker.ts`, which gives up
control only while it waits for a provider: an action is the answer of a provider with all the code
up to the next call. `jobs` is the transcript service, external, which may fail a job, finish it or
never answer. Videos are numbered by publication and a time is the number of videos published by
then, so the cursor, the cutoff and the checkpoint are numbers. Feeds, the reading state, the
export, request admission and several channels, which the worker takes one after another, are
left out.

### The lock and the scheduler

Their methods contain no `await`, so each method is one action, `#drain` included; what interleaves
is the order of calls, and every order is allowed. A caller is a client with one request at a time;
a request after `stop` or with an aborted signal is rejected and changes nothing, so it has no
action.

- `ReadWriteLock`: `readers` and `writer` say who holds the `#activeReaders` and `#writeLocked`
  leases; the queues hold the waiting callers. The abort of a waiter calls `#drain` as the code
  does; a lease is always out then, so that call never admits anybody (`NoForgottenWaiter`).
- `EncoderScheduler`: `running` holds the tasks whose callback has started and not ended. A task
  ends in `Settle` and the encoder is free one microtask later (`Free`): between the two any caller
  may come back. A search or a batch that ended may queue again at once. `place` and `passed` are
  history: the place a batch queued at and the searches started since.

## 3. Runs

| run | question | instance |
|---|---|---|
| `durable_faults` | does safety survive failing storage and a crash? | 1 key, 2 jobs, 2 bundles, 3 ticks, TTLs of 1, 2 faults, 1 crash anywhere; 3.0 M states |
| `durable_restarts` | on healthy storage, do the jobs implement `JobLifecycle`, and does everything that must happen happen, across crashes, also inside an operation, and graceful restarts? | 2 keys, 2 jobs, 2 bundles, queue of 1, 3 ticks, 1 crash; 0.45 M states |
| `stale_expiry` | CACHE-04: is an unexpired job reused? No. | 1 key, 3 jobs, 2 bundles |
| `resurrection` | does a tombstone's end forget the job? No, not even on healthy storage. | 1 job, no fault, 1 crash |
| `lost_wakeup` | WORK-02: is the head of the queue claimed? Not after a failing claim. | 1 job, 1 fault |
| `transcript_execution` | are permits, directories and results right whatever aborts, timeouts and a shutdown meet? | 2 requests, the worker, 2 permits, 2 chunks; 20,858 states |
| `rag_faults` | do deletions stay final, searches whole and the three places of a publication together, across failures and crashes? | 1 document, 2 versions, 2 ingestions, 1 deletion, 1 expiry, 2 faults, 2 lives; 2.5 M states |
| `rag_liveness` | does every ingestion end and a degraded coordinator serve again? | 1 document, 2 versions, 2 ingestions, 1 deletion, 1 fault, 2 lives; 0.19 M states |
| `join_after_delete` | does a submission join an ingestion that can still publish? Not after a deletion. | 1 document, 2 versions, 2 ingestions, no fault, 1 life |
| `read_write_lock` | is a writer alone, is no waiter forgotten, do writers come first, whatever aborts and releases cross? | 3 readers, 3 writers; 604 states |
| `encoder_scheduler` | does one task run at a time, and is a batch passed by no more than it was promised? and what do the operators compute? | 2 searches, 2 batches, each coming back without end; 29,112 states; the inputs of `OperatorChecks` |
| `channel_library` | is no video missed, none submitted twice, and does everything end, whatever crashes or fails? | 3 videos on 3 pages, 1 of them processed in 2 parts, 2 collections, 3 jobs, 2 troubles; 0.45 M states |

Why the bounds are enough.

- *Durable jobs*: two jobs of one key are what a duplicate takes, two bundles what a superseded
  pointer takes. With TTLs of one tick, three ticks take a job through expiry, tombstone and its end
  while the next job of the key lives. Two faults allow a failing operation and the failure of its
  compensation (completion and invalidation, publication and roll-back), and the crash can then fall
  anywhere. A queue of one with two keys makes the limit bite (`SubmitRejected`). The second key is
  only in the run without faults: nothing in the code relates two keys but the queue and the FIFO
  order, which that run checks.
- *Ingestion*: two ingestions of one document are a publication that replaces another, a duplicate
  owner, or one on each side of a deletion; one deletion is what a stale ingestion takes. Two faults
  are a failing operation and the failure of its repair; the second life is the restart after a crash
  at any step or between two writes of one. The liveness run has both versions, so that the worker
  can find its ingestion stale beside a re-initialisation and the process can end by it
  (`SettleRejected`); there nothing expires, since what has ended plays no part in what must happen.
  Documents meet only in the publication lock and in the one worker, and the lock is checked and proved on its own; the theorems hold for any number of documents.
- *Execution*: two permits and three tasks make a task wait, be turned away and be handed a permit;
  two chunks are the first and a later one.
- *Channel library*: a page of one video and a first collection of one make every page a boundary
  and split a collection over its passes; the owner can also add the video that the collection finds.
  Two troubles are any two of: a life of the process (the first start is one), a failing provider, a
  retry of the owner, so that a crash meets every await but is not followed by a failure.
- *Lock and scheduler*: three callers of a kind are one that holds and two that wait, so an abort can
  take either end of a queue. Two searches that keep coming back spend the counter of four, and a
  second batch has a place behind the first, with its bound of eight; nothing caps `passed` but the
  code.

Deadlock is checked where the system never stops. After a shutdown, or at a bound on what clients
ask for, nothing more need happen, so the runs with `stop` do not check it; that nothing gets stuck
is what their liveness properties say.

Properties, by the question they answer:

- *Two actors, one key*: `OneActivePerKey`, `OneOwner`.
- *Memory and volume*: `DurableBeforeVisible`, `RecordsMoveForward`, `ExpiredStaysExpired`,
  `NoRepeatedProviderCall`, `SnapshotRetained`.
- *Pointer and bundle*: `PointerNotDangling`, `CompletedReadable`.
- *Index, epoch and receipt*: `NoResurrection`, `EpochFollowsTable`, `CompletedIsPublished`,
  `SearchReadsOneVersion`.
- *Promise to clients*: `ImplementsLifecycle`, with progress; `ImplementsShelf`.
- *Permits and cleanup*: `PermitsAccounted`, `NothingLeftBehind`, `NothingStoredAfterAbort`,
  `FirstReasonWins`.
- *Lock*: `Exclusion`, `NoForgottenWaiter`, `WriterPreferred`, `WriterAdmitted`.
- *Scheduler*: `OneCallback`, `BatchPassedAtMost`, `BatchStarted`.
- *Cursor and videos*: `NothingMissed`, `SubmittedOnce`, `FailureHasCause`, `ReadyForGood`.
- *Shutdown and progress*: `CleanExit`, `QueuedIsClaimed`, `ExpiredIsSwept`, `IngestionEnds`,
  `ServesAgain`, `WaiterServed`, `ShutdownDrains`, `VideoEnds`, `CollectionEnds`.

`OperatorChecks` evaluates at the start of its run: `ChunksAreWellCut` and `OrdinaryTextIsCut` (every
text of up to four code points under three tokenizers), `OnlyWholePublicationsAreRead`,
`ResultsAreARanking`, `SetupResumes` (index creation cut after any step), `SpoiledFilesAreNotServed`
and `WorkIsRecoveredWhole` (a bundle or a saved transcript with any file spoiled), and small
instances of what the theorems say, so that their premises are known to be met.

`CompletedReadable`, `EpochFollowsTable`, `SnapshotRetained`, `FailureHasCause` and the progress
properties are for healthy storage or providers, as their definitions say (a crash between two writes
is part of that; a failing write is not), and `OneOwner` is for one
failing operation: two can give a document a second owner in memory (section 5). With a failing completion
and a crash a completed job may lose its bundle (the record reached the volume although the write
reported a failure, and the worker removed the bundle); with a failing `#failTerminal` a job stays
processing until the next start.

## 4. Fairness

`FairSpec` assumes what the event loop and the platform give: a process that is down is started
again (`Initialize`), an operation that was begun goes on (`WorkerStep`, `SubmitStep`, the
synchronous request, `SweepCompleted`), a stopping process exits once nothing runs, and the sweep
timer keeps firing (`SweepStart`). All are weak: once begun, none is disabled by another for ever.
Nothing is assumed of clients, of `Stop`, of the clock or of crashes. The provider and the renderer
answer in the end because the code bounds both with timeouts. `QueuedIsClaimed` and `ExpiredIsSwept`
speak of a process that stays up (`StaysUp`), since a process restarted without end may never come
to a job.

The lock's `FairSpec` assumes that a holder releases its lease: `withRead` and `withWrite` do, in a
`finally` block, once their callback ends. The scheduler's assumes that a task's callback ends and
that the microtask after it runs; that a call of the encoder returns is an assumption about the
inference library, which the code puts no timeout on. Nothing is assumed of new callers, of aborts
or of `stop`.

`RagIngestion` assumes that the initialisation, the worker and the calls that were begun go on, and
strong fairness where the document mutex or the publication lock is asked for (`Revalidate`,
`ReconcileDelete`, `RecoverLock`): their queues are fair, as `WriterAdmitted` shows for the lock.
A process that is down is started again (`Start`), as a container's restart policy does; it is what
`ServesAgain` leans on where a re-initialisation ends the process.
Nothing is assumed of new submissions, deletions or searches, of failures or of crashes.
`ServesAgain` allows for one failure: after two, in one order, no initialisation may succeed any more
(section 5). It says nothing of a process that has used up the lives of the run.

`TranscriptExecution` assumes that timers fire, that files and the caption library answer, and that
the worker goes on with a permit it was given. Neither a tool nor Muse owes an answer, and no client
has to leave. `ChannelLibrary` assumes that a provider answers or times out, that time passes and
that the tick of two seconds comes; the transcript service need not ever finish a job.

Readers have no progress property, and none holds: when the last waiting writer aborts while
readers are active, the readers queued behind it stay queued until no reader is active, and new
readers are admitted past them meanwhile. No document promises them more.

## 5. Where the code and its documents disagree

- **Stale expiry** (`file-artifact-store.ts:686`): expiring an old bundle removes the pointer of
  the newer one, and an unexpired transcript is computed again.
- **Resurrection** (`file-job-repository.ts:475`): when the process dies between the tombstone and the
  removal of the job file, or that removal fails, the job file outlives its tombstone, and the job
  comes back, as it had ended, at a later start. A crash on healthy storage is enough.
- **Lost wakeup** (`durable-job-worker.ts:252`): after a claim whose write failed the worker sleeps
  with a job queued.
- **Join after delete** (`rag-ingestion-coordinator.ts:287`): after an acknowledged deletion a
  submission joins an ingestion queued before it, which can only fail as stale.

Four more disagreements have no run of their own; the models contain them.

- **Claims after shutdown has begun** (`durable-job-worker.ts:210`): a permit granted just before
  shutdown is still used for a claim, and the job then ends by the abort of its production, while
  WORK-05 says that "new claims SHALL stop" (durable-transcript-jobs `spec.md:98`). `CleanExit` says
  what does hold: nothing is left processing.
- **Ingestions claimed after shutdown has begun** (`rag-ingestion-coordinator.ts:259`): `performStop`
  waits for the submission in flight before it stops the worker, which goes on claiming until then
  (`Aborted`), while ING-08 says "new RAG claims SHALL stop" (rag-lancedb `spec.md:79`).
- **A re-initialisation may end the process** (`rag-ingestion-coordinator.ts:520`): a failing
  operation degrades the coordinator; the re-initialisation meets the worker putting back or failing
  the same record (`rag-ingestion-worker.ts:549`, `:558`), the revision does not match, and the plain
  `Error` becomes an unhandled rejection, which ends the process with the transcription routes
  and jobs in it. README.md:351 says that "RAG operations fail closed with fixed codes, while
  liveness and existing transcription/job routes retain their own contracts", and rag-lancedb
  `design.md:739` that RAG routes answer 503 "until a bounded local retry succeeds". `rag_liveness`
  reaches it (`SettleRejected`), and shows that the next life finds its files in order.
- **Two ingestions of one document** (`file-rag-repository.ts:473`), against VER-04 (rag-lancedb
  `spec.md:99`: "SHALL not replace or queue duplicate work"), after two failures: a failing search
  degrades the coordinator, the initialisation that follows puts the worker's ingestion back into the
  queue, and beside it a creation fails after its record reached the volume, as below. The
  coordinator serves again and looks up the owner of the document for another submission; the worker
  finds its record changed and stops, the next initialisation loads the unknown record behind that
  submission, which then creates a second one. It takes two documents and three ingestions, more
  than the run has; TLC confirmed it on that instance. Hence the `faults < 2` of `OneOwner`.

Behaviour that no document rules out, but that a maintainer should know:

- A creation of an ingestion that fails after its record reached the volume, while an initialisation
  is past its scan, leaves that record unknown to memory and the coordinator ready
  (`file-rag-repository.ts:473`); a later initialisation finds two owners and fails the younger,
  even when the table already shows its rows. Hence the `faults > 1` of `ServesAgain`.
- A removal of the temporary directory that fails replaces a finished transcript by an error
  (`audio-media-pipeline.ts:92`).
- The scan at startup puts a record into quarantine whatever made reading it fail, a passing I/O
  error included (`file-job-repository.ts:529`, `file-rag-repository.ts:747`).
- The chunker gives up on a text with a stretch of blanks, or of blanks and combining marks, that
  does not fit one chunk (`OrdinaryTextIsCut` says which texts are safe).

## 6. Proofs

**Durable jobs.** `DurableJobsProofs` proves, for every set of keys, every bound and every TTL (assuming only
`ConstantsAssumption`: the bounds are natural numbers, the TTLs positive, as `config.ts` enforces):

| theorem | property |
|---|---|
| `TypeCorrect` | `TypeOK` and `StepsAgree` are invariants |
| `ConsistentInvariant` | the inductive invariant `Consistent` |
| `OneActive` | `OneActivePerKey` |
| `ProviderCalledOnce` | `NoRepeatedProviderCall` |
| `VisibleIsDurable` | `DurableBeforeVisible` |
| `ForwardOnly` | `RecordsMoveForward` |
| `ExpiredForGood` | `ExpiredStaysExpired` |
| `StoreInvariant` | the inductive invariant `StoreSound` |
| `PointersNeverDangle` | `PointerNotDangling` |
| `UndisturbedInvariant` | the inductive invariant of what healthy storage keeps |
| `CompletedStaysReadable` | `CompletedReadable`, while no storage operation has failed |
| `ShutdownIsClean` | `CleanExit`, while none has failed |
| `JobsFollowLifecycle` | the safety part of `ImplementsLifecycle`, while none has failed |

`OneActivePerKey` is not inductive: that `SubmitMiss` may create a job rests on no owner having
appeared since `SubmitBegin` looked (`SubmissionCurrent`, in `StepsAgree`), and that a restart
leaves one owner rests on the repair over what the volume holds. `DurableBeforeVisible` ties the
two copies of a record, so a restart moves each forward or leaves it; together with
`TombstonesApart`, which says that a tombstone on the volume belongs to a job expired in memory,
it gives the two action properties. `NoRepeatedProviderCall` needs that a called job is one that
was used (`CalledUsed`), so a new id is never a called one. `Consistent` is the conjunction:

    TypeOK /\ StepsAgree /\ OneActivePerKey /\ DurableBeforeVisible
           /\ NoRepeatedProviderCall /\ CalledUsed

The type correctness and `StepsAgree` are inductive alone and proved first; then `Consistent`, one
lemma per group of actions, one step per action; the action properties follow from the invariant
and one step of `Next`. TLC checked every conjunct before it was proved.

`PointerNotDangling` holds whatever fails, and needs to know who may remove a bundle: ids are not
reused (`BundlesUsed`), and a reference that a job, the worker or a submission holds is to a bundle
that was published for its own key (`ReferencesOwned`). So whoever removes a bundle by its
reference may move only the pointer of that key.

`CompletedReadable` does not survive a failed operation (a cleanup that fails halfway, a worker that
invalidates), so `Undisturbed` says what holds while none has failed, whatever crashes cut. Memory is
the volume, but for the expired records that a cut expiry left, and nobody invalidates (`Intact`): a
restart changes no record and brings back only those. A reference with an expiry is a promise that the
bundle is there until then (`Promised`), which is `CompletedReadable` for the completed jobs. A
processing job is the worker's at the revision it claimed, or startup has still to reconcile it
(`ProcessingInHand`): a worker that has stopped leaves none, which is `CleanExit`. `NextInLine`
holds whatever fails: the job the worker is about to claim is the oldest that is queued. With it
every step of the code is a step of `JobLifecycle` or a stutter, one step per action. The
hypothesis `[](faults = 0)` is the one of `DurableRestarts.cfg` (`MaxFaults = 0`), where TLC checks
`ImplementsLifecycle` whole, with its fairness. It excludes failing operations and no crash: one
between two writes of an operation is a step of the specification that leaves `faults` as it is.
What such a crash does to a client is in `JobLifecycle` itself: `Restart` completes the expiries that
were cut, and brings a forgotten job with a residue back.

**Lock.** `ReadWriteLockProofs` proves for every set of readers and writers (`CallersAssumption`:
they are apart) `LockSafe`, that `TypeOK`, `Exclusion` and `NoForgottenWaiter` are invariants, and
`WritersFirst`, that `WriterPreferred` holds. `WriterPreferred` rests on `NoForgottenWaiter`:
`acquireWrite` looks at the leases only, and it is the invariant that says that nobody waits when
none is out. `NobodyIsForgotten` states that one alone.

**Scheduler.** `EncoderSchedulerProofs` proves for every set of searches and batches
(`TasksAssumption`) `SchedulerSafe`: `TypeOK`, `OneCallback`, `NoForgottenTask` and
`BatchPassedAtMost` are invariants (`CallbacksAreAlone` states the second alone). The bound is not inductive: it says nothing of the counter, so
it would allow a batch already passed as often as promised with the counter at zero, which the next
search passes once more. `Paced` is inductive: for the batch at place
`i`, the searches that passed it, plus four for each place up to `i`, are at most four for each
place it was given plus the counter. A search adds one to both sides, a batch that starts lowers
every place and clears the counter, an abort lowers places only.

**Ingestion.** `RagIngestionProofs` proves, for every set of documents and versions and every bound
(`ConstantsAssumption`):

| theorem | property |
|---|---|
| `TypeCorrect` | `TypeOK` |
| `IndexInvariant` | the inductive invariant `Inv` |
| `DeletionIsFinal` | `NoResurrection` |
| `SearchIsolated` | `SearchReadsOneVersion` |
| `IndexImplementsShelf` | `ImplementsShelf`: every step is a step of `DocumentShelf` or a stutter |
| `SnapshotStays` | `SnapshotRetained` |
| `CompletionIsPublication` | `CompletedIsPublished` |
| `QuietInvariant` | the inductive invariant `Quiet` |
| `EpochsFollow` | `EpochFollowsTable` |
| `OneOwnerHolds` | `OneOwner` |

`NoResurrection` is not inductive: it says nothing of an ingestion that is about to publish. `Inv`
(`Typed`, `Known`, which says that a record's ingestion was accepted, and `Fencing`) adds what the
fence rests on: the epochs in memory never run ahead of their files
(`MemoryLagsFiles`); an accepted ingestion targets a generation its document has reached
(`Accepted`); one accepted before an acknowledged deletion targets a generation the document has
left (`BuriedFenced`); rows belong to an ingestion of their document
(`RowsBelong`); every ingestion of a document that is being deleted targets an older generation than
the deletion's (`DeletionFences`); a publication past its check under the lock was accepted after
the last acknowledged deletion of its document (`PublisherIsNew`); and a publication, a
deletion and a search exclude each other as the lock says (`SearchAlone`). Type correctness is
proved first, in parts by group of variables; then `Fencing`, one lemma per group of actions, most of
them by `FenceKept`: what touches neither table, ingestions nor calls keeps the fence as long as no
generation goes back. `SnapshotStays` has an invariant of its own, `Retained`: without a failure
what is at work in memory is so in the files and has its snapshot, and only ended records lose theirs,
also where a crash cuts a transition between the record and its snapshot.
`CompletionIsPublication` has `Standing`: what a publication wrote to the table and to the epoch
stands, under the document mutex, until its record is written.

`EpochFollowsTable` compares two things written at different awaits, so it needs to know who is
between them. `Quiet` says so while no operation has failed: the process initialises once in its life
(`Lifetime`), the epochs in memory are those in the files and memory in use has what the files have at
work (`MemoryIsDisk`), nobody takes the claimed ingestion or fences off its publication (`ClaimHeld`),
a document has one ingestion at work in the files
(`OneOnDisk`), and a document whose epoch is not that of its rows is being deleted or published,
or is on the list of the initialisation that will settle it (`Explained`). `QuietSteps` says
what the actions do when nothing fails; then one lemma per conjunct.

`OneOwner` tolerates one failure. `Sole` says what it rests on: what has ended or has a tombstone is
not at work in the files (`Remains`); a record the files have and memory has not is one that a failed
creation left, and to load it beside a submission takes a second failure
(`HiddenTakesTwo`); a submission about to create finds no owner (`SubmitsAlone`). With two failures
the property is false, and section 5 says how.

**Execution.** `TranscriptExecutionProofs` proves, for any number of clients, workers, permits and
chunks (`ConstantsAssumption`):

| theorem | property |
|---|---|
| `ExecutionIsSafe` | the inductive invariant `ExecutionInv` |
| `TypeCorrect` | `TypeOK` |
| `PermitsStayAccounted` | `PermitsAccounted` |
| `DirectoriesAreRemoved` | `NothingLeftBehind` |
| `AbortedIsNotStored` | `NothingStoredAfterAbort` |
| `FirstReasonIsReported` | `FirstReasonWins` |

`PermitsAccounted` is not inductive: that a release admits as many tasks as it frees permits rests
on the queue holding each waiter once and only tasks that wait (`PermitInv`); what is left of the
queue then waits beside no free permit. `NothingLeftBehind` is not either: a directory must exist
only at the awaits that lead to its removal (`WorkInv`). One lemma for a task that goes to its next
await (`GoesSafe`), one for a task that ends (`SettleSafe`), then one for each operation.

**Channel library.** `ChannelLibraryProofs` proves, for a channel of any length and for pages, limits,
overlaps, parts and attempts of any size (`ConstantsAssumption`):

| theorem | property |
|---|---|
| `LibraryIsSound` | the inductive invariant `LibraryInv` |
| `LibraryTyped` | the types of the rows and of the worker (`Typed`) |
| `CollectionsMissNothing` | `NothingMissed` |
| `FailuresHaveCauses` | `FailureHasCause` |
| `SubmissionsAreBounded` | `SubmittedOnce` |
| `ReadyVideosStay` | `ReadyForGood` |

`NothingMissed` speaks of what is behind the checkpoint; a collection that is under way has moved its
cursor and not the checkpoint, so `CollectInv` says that everything newer than the place the cursor
has come to, and not older than the overlap, is in the library already. A page that ends the
collection early has a video older than the overlap on it, so what is older than the page is too
(`PageRead`, `PageSafe`). `SubmittedOnce` is not inductive: a video that has just lost its job is about
to get another. `CountInv` keeps a life or a failure in reserve for every submission that may still
come (`Owed`): a video without a job while the process is up, one whose job has failed, one that a
retry will send again. `FailureHasCause` needs that the worker finds no active attempt of the video
it takes up (`WorkerInv`, which a restart that closes attempts restores), and that no job fails
without a provider. The rows a step may write are described first, by what the properties tell
apart; then one lemma per action, the steps of the worker on a video by one lemma (`StepSafe`).
TLC checked every conjunct of `LibraryInv` on the run's instance before it was proved.

**Data.** The state machines take records, bundles and rows as whole values. These theorems say why,
for all identifiers, digests, texts and times:

- `StoredDataProofs`, records: a normalised request passes the parser that reads it back
  (`NormalizedIsAccepted`) and its canonical address has the same key (`CanonicalFormHasSameKey`);
  every job and ingestion as created and as moved on by a legal transition passes the parser of the
  next start (`NewJobIsAccepted`, `MovedJobIsAccepted`, `NewIngestionIsAccepted`,
  `MovedIngestionIsAccepted`); a written record is found by the scan (`WrittenIsScanned`), and a
  second scan finds the same (`ScanIsRepeatable`); a client is shown the stored failure
  (`PublicFailureIsStored`).
- `ArtifactFilesProofs`: what is published is found (`PublishedIsFound`) and only that
  (`FoundIsOfTheKey`); one file lost or replaced by anything is noticed or harmless
  (`OneBadFileIsNotServed`); a lookup that misses settles (`MissIsSettled`); a reader that finds a bad
  bundle leaves a newer one alone (`NewerBundleIsKept`); ingestion and client read the same
  transcript (`OneTranscriptForAllReaders`); a saved transcript is recovered whole or not at all
  (`SavedIsRecovered`, `UnfinishedSaveIsNotServed`).
- `StoredDataProofs`, index and ranking: what passes the checks before a write passes those at every reading
  (`PublishableIsReadable`), rows that can be read are one whole publication (`NoMixture`), equal
  targets mean equal rows (`TargetDeterminesRows`), merge and deletion touch one document
  (`MergeReplacesOneDocument`, `DeleteRemovesOneDocument`); in a ranking no two candidates share a
  rank (`RanksFollowTheOrder`), and the fusion does not depend on which search comes first
  (`FusionIsSymmetric`).

A digest is taken to be what it is a digest of: collisions of SHA-256 are assumed away.

**Only model-checked.** Every invariant and every action property of the passing runs is a theorem.
What is left to TLC is out of the prover's reach. First, liveness under fairness: the fairness of
`ImplementsLifecycle`, `QueuedIsClaimed`, `ExpiredIsSwept`, `WriterAdmitted`, `BatchStarted`,
`IngestionEnds`, `ServesAgain`, `VideoEnds`, `CollectionEnds`, `WaiterServed` and `ShutdownDrains`.
Second, induction over data: the chunker, a recursive function whose result for every text would
take it, and `IndexSetup`.

## 7. Not modelled

| part | why |
|---|---|
| admission of searches (`rag-search-controller.ts`), mapping of errors to responses | one counter in one turn; response wording |
| readiness probes, probes of free space, `optimize` | they change nothing the protocols read |
| path and symlink checks of `AtomicFileWriter` and the stores | they refuse what the program never makes |
| local encoder, model manifest, storage paths | checksums of fixed files and calls of an inference library |
| HTTP routes, OpenAPI, configuration, wiring | schemas and response building; the limits are constants of the models |
| channel library: feeds, reading state, export, request admission, several channels | rows that no protocol reads; the worker takes channels one after another |
| PDF, metrics, web client, scripts | formatting, counters, user interface, tooling |

Within the modelled parts: storage reads do not fail in the state machines, and an initialisation of
the index that is under way when the service stops is not waited for by `stop`, which the model
keeps (`Exit` needs the worker, the calls and, for the write lock, a record that is being settled).
