---------------------------- MODULE RagIngestion ----------------------------
(***************************************************************************)
(* The retrieval index of the API: the ingestion repository (records,       *)
(* tombstones and document epochs in memory and in files, snapshots in      *)
(* files), the LanceDB table, the single ingestion worker, and the          *)
(* coordinator with its serialised submissions, deletions, searches, sweep, *)
(* degradation, re-initialisation, shutdown, and the crashes between.       *)
(*                                                                          *)
(* Publications, deletions and recovery hold the document's mutex and the   *)
(* write lock; a submission holds the mutex.  The loading of the repository, *)
(* the sweep and the worker's own transitions hold neither, which is why    *)
(* the steps of a publication, of a deletion and of a recovery are kept     *)
(* apart.  A storage operation that fails is counted in "faults" and may or *)
(* may not have taken effect; a crash between two writes of one operation   *)
(* is no failure and is not counted.                                        *)
(***************************************************************************)
EXTENDS Naturals, FiniteSets

CONSTANTS
    Docs,           \* document ids: one per transcript cache key
    Versions,       \* version ids: what a transcript's checksum can be
    None,           \* neither a document nor a version
    MaxIngestions,  \* bound: ingestion ids are 1..MaxIngestions, in creation order
    MaxQueued,      \* RAG_MAX_QUEUED_INGESTIONS
    MaxGeneration,  \* bound on the deletions of one document
    MaxExpired,     \* bound on the ingestions whose retention elapses
    MaxFaults,      \* bound on failing operations
    MaxRuns         \* bound on the lives of the process

ASSUME ConstantsAssumption ==
    /\ None \notin Docs \cup Versions
    /\ {MaxIngestions, MaxQueued, MaxGeneration, MaxExpired, MaxFaults, MaxRuns} \subseteq Nat

VARIABLES
    phase,    \* "down", "up" or "stopping"
    ready,    \* RagIngestionCoordinator.#ready
    retry,    \* an initialisation is due: start() or the retry timer
    started,  \* RagIngestionCoordinator.#workerStarted
    init,     \* where #runInitialization stands
    recs, dRecs,   \* FileRagRepository.#records, and the record files
    snaps,         \* the ingestions whose snapshot is on the volume
    tombs, dTombs, \* FileRagRepository.#tombstones, and the tombstone files
    expired,       \* ingestions whose terminal retention has elapsed
    epochs, dEpochs, \* FileRagRepository.#epochs, and the epoch files
    rows,     \* the table: the ingestion whose rows a document has, 0 for none
    ing,      \* what an ingestion's record says from its creation on
    nextId,   \* the next unused ingestion id
    worker,   \* RagIngestionWorker: where its loop stands
    sub,      \* the submission that holds #submissionTail
    del,      \* the deletion that waits for the write lock or holds it
    search,   \* a search between its vector and its text candidates
    buried,   \* history: ingestions up to this one precede an acknowledged deletion
    faults, runs

records == <<recs, dRecs, snaps, tombs, dTombs, expired>>
epochal == <<epochs, dEpochs>>
coord   == <<phase, ready, retry, started, init>>
created == <<ing, nextId>>
procs   == <<worker, sub, del, search>>
vars    == <<coord, records, epochal, rows, created, procs, buried, faults, runs>>

----------------------------------------------------------------------------
Ids      == 1..MaxIngestions
Active   == {"queued", "processing"}
Terminal == {"completed", "failed"}

Rec(s, v)      == [status |-> s, rev |-> v]
Ing(d, v, g)   == [doc |-> d, ver |-> v, gen |-> g]
Epoch(s, g, i) == [state |-> s, gen |-> g, ing |-> i]
Loop(pc, i, v) == [pc |-> pc, id |-> i, rev |-> v]
Work(pc, d, v, g) == [pc |-> pc, doc |-> d, ver |-> v, gen |-> g]
Initialising(pc, ds, rs) ==
    [pc |-> pc, deletes |-> ds, recover |-> rs, held |-> [id |-> 0, rev |-> 0]]

Gone     == Rec("absent", 0)
NoInit   == Initialising("none", {}, {})
Off      == Loop("off", 0, 0)
Idle     == Loop("idle", 0, 0)
NoWork   == Work("idle", None, None, 0)
NoSearch == [doc |-> None, seen |-> 0]

OwnerIds(d)  == {i \in Ids : recs[i].status \in Active /\ ing[i].doc = d}
IsOwner(d, i) == i \in OwnerIds(d) /\ \A j \in OwnerIds(d) : i <= j
QueuedIds    == {i \in Ids : recs[i].status = "queued"}
Oldest(S)    == {i \in S : \A j \in S : i <= j}

(* stateMatchesEpoch and epochMatchesState.                                  *)
Agree(e, i) ==
    \/ e.state = "deleted" /\ i = 0
    \/ e.state = "active" /\ i # 0 /\ i = e.ing /\ ing[i].gen = e.gen
Consistent(d) == Agree(epochs[d], rows[d])

(* Who holds the document mutex of d, and the publication lock.              *)
Publishing == worker.pc \in {"merge", "epoch", "complete"}
Settling   == init.pc = "settle"
Deleting   == del.pc \in {"rows", "epoch"}
Writing    == Publishing \/ Settling \/ Deleting
DocFree(d) ==
    /\ ~(Publishing /\ ing[worker.id].doc = d)
    /\ ~(Settling /\ ing[init.held.id].doc = d)
    /\ ~(sub.pc \in {"create", "hit"} /\ sub.doc = d)
    /\ ~(Deleting /\ del.doc = d)
CanRead(d)  == DocFree(d) /\ ~Writing
CanWrite(d) == CanRead(d) /\ search = NoSearch

Serving == ready /\ phase = "up"
(* worker.stop waits for the submission in flight; no other follows it.      *)
Aborted == phase = "stopping" /\ sub = NoWork

RecRecord == [status : Active \cup Terminal \cup {"absent"}, rev : Nat]
IngRecord == [doc : Docs \cup {None}, ver : Versions \cup {None}, gen : Nat]
EpochRecord == [state : {"active", "delete_pending", "deleted"}, gen : Nat,
                ing : Ids \cup {0}]

(* Every variable has the type the code gives it.                            *)
TypeOK ==
    /\ phase \in {"down", "up", "stopping"}
    /\ {ready, retry, started} \subseteq BOOLEAN
    /\ init \in [pc : {"none", "index", "reconcile", "settle"}, deletes : SUBSET Docs,
                 recover : SUBSET [id : Ids, rev : Nat], held : [id : Ids \cup {0}, rev : Nat]]
    /\ recs \in [Ids -> RecRecord] /\ dRecs \in [Ids -> RecRecord]
    /\ snaps \subseteq Ids /\ tombs \subseteq Ids /\ dTombs \subseteq Ids
    /\ expired \subseteq Ids
    /\ epochs \in [Docs -> EpochRecord] /\ dEpochs \in [Docs -> EpochRecord]
    /\ rows \in [Docs -> Ids \cup {0}] /\ ing \in [Ids -> IngRecord]
    /\ nextId \in Nat \ {0} /\ buried \in [Docs -> Nat]
    /\ worker \in [pc : {"off", "idle", "waiting", "claim", "snapshot", "embed", "publish",
                         "merge", "epoch", "complete", "retry", "fail", "failfatal"},
                   id : Ids \cup {0}, rev : Nat]
    /\ sub \in [pc : {"idle", "asked", "create", "hit"}, doc : Docs \cup {None},
                ver : Versions \cup {None}, gen : Nat]
    /\ del \in [pc : {"idle", "asked", "rows", "epoch"}, doc : Docs \cup {None},
                ver : {None}, gen : Nat]
    /\ search \in [doc : Docs \cup {None}, seen : Ids \cup {0}]
    /\ faults \in Nat /\ runs \in Nat

Init ==
    /\ phase = "down" /\ ready = FALSE /\ retry = FALSE /\ started = FALSE
    /\ init = NoInit
    /\ recs = [i \in Ids |-> Gone] /\ dRecs = recs
    /\ snaps = {} /\ tombs = {} /\ dTombs = {} /\ expired = {}
    /\ epochs = [d \in Docs |-> Epoch("deleted", 0, 0)] /\ dEpochs = epochs
    /\ rows = [d \in Docs |-> 0]
    /\ ing = [i \in Ids |-> Ing(None, None, 0)] /\ nextId = 1
    /\ worker = Off /\ sub = NoWork /\ del = NoWork /\ search = NoSearch
    /\ buried = [d \in Docs |-> 0] /\ faults = 0 /\ runs = 0

----------------------------------------------------------------------------
(* Files.                                                                    *)

Fault == faults < MaxFaults /\ faults' = faults + 1

(* transition: the record, then the snapshot of a terminal one, then memory. *)
Put(i, r) ==
    /\ recs' = [recs EXCEPT ![i] = r]
    /\ dRecs' = [dRecs EXCEPT ![i] = r]
    /\ snaps' = IF r.status \in Terminal THEN snaps \ {i} ELSE snaps
    /\ UNCHANGED <<tombs, dTombs, expired, faults>>

PutFails(i, r) ==
    /\ Fault
    /\ \/ UNCHANGED <<dRecs, snaps>>
       \/ /\ dRecs' = [dRecs EXCEPT ![i] = r]
          /\ snaps' \in {snaps, IF r.status \in Terminal THEN snaps \ {i} ELSE snaps}
    /\ UNCHANGED <<recs, tombs, dTombs, expired>>

PutEpoch(d, e) ==
    /\ epochs' = [epochs EXCEPT ![d] = e]
    /\ dEpochs' = [dEpochs EXCEPT ![d] = e]
    /\ UNCHANGED faults

PutEpochFails(d, e) ==
    /\ Fault
    /\ dEpochs' \in {dEpochs, [dEpochs EXCEPT ![d] = e]}
    /\ UNCHANGED epochs

Moved(i, s) == Rec(s, recs[i].rev + 1)
ActiveEpoch(i)  == Epoch("active", ing[i].gen, i)
DeletedEpoch(d) == Epoch("deleted", epochs[d].gen, 0)

----------------------------------------------------------------------------
(* The process and the coordinator's initialisation.                         *)

(* #degrade: nothing is scheduled once the coordinator has stopped.  A timer *)
(* that fires while an initialisation runs joins it, and the end of that     *)
(* initialisation clears the timer or arms it again.                         *)
\* seeded fault: a degraded coordinator waits for a restart
DegradedForGood ==
    /\ ready' = FALSE /\ retry' = FALSE
    /\ UNCHANGED <<phase, started, init>>

Degraded ==
    /\ ready' = FALSE /\ retry' = (phase = "up")
    /\ UNCHANGED <<phase, started, init>>

(* #handleWorkerFatal.                                                       *)
WorkerFatal ==
    /\ worker' = Off
    /\ IF phase = "up"
       THEN ready' = FALSE /\ retry' = TRUE /\ started' = FALSE
       ELSE UNCHANGED <<ready, retry, started>>
    /\ UNCHANGED <<phase, init>>

Start ==
    /\ phase = "down" /\ phase' = "up" /\ retry' = TRUE
    /\ runs < MaxRuns /\ runs' = runs + 1
    /\ UNCHANGED <<ready, started, init, records, epochal, rows, created, procs, buried,
                   faults>>

Down ==
    /\ phase' = "down" /\ ready' = FALSE /\ retry' = FALSE /\ started' = FALSE
    /\ init' = NoInit /\ worker' = Off /\ sub' = NoWork /\ del' = NoWork
    /\ search' = NoSearch

Crash ==
    /\ phase # "down" /\ Down
    /\ UNCHANGED <<records, epochal, rows, created, buried, faults, runs>>

Stop ==
    /\ phase = "up" /\ phase' = "stopping" /\ ready' = FALSE /\ retry' = FALSE
    /\ UNCHANGED <<started, init, records, epochal, rows, created, procs, buried, faults,
                   runs>>

Exit ==
    /\ Aborted /\ worker.pc = "off" /\ del = NoWork /\ search = NoSearch /\ ~Settling
    /\ Down
    /\ UNCHANGED <<records, epochal, rows, created, buried, faults, runs>>

(* FileRagRepository.initialize.                                             *)
Loaded        == [i \in Ids |-> IF i \in dTombs THEN Gone ELSE dRecs[i]]
LoadedActive  == {i \in Ids : Loaded[i].status \in Active}
Duplicates    == {i \in LoadedActive : \E j \in LoadedActive : j < i /\ ing[j].doc = ing[i].doc}
Unclaimed     == {i \in Ids : Loaded[i] = Gone}
Repair(S, rs) == [i \in Ids |-> IF i \in S THEN Rec("failed", rs[i].rev + 1) ELSE rs[i]]
\* seeded fault: what a crash interrupted is taken for an empty queue
NothingInterrupted == {}
Interrupted   == {i \in LoadedActive \ Duplicates : Loaded[i].status = "processing"}

InitDue == phase = "up" /\ retry /\ init = NoInit

Load ==
    /\ InitDue
    /\ recs' = Repair(Duplicates, Loaded) /\ dRecs' = Repair(Duplicates, dRecs)
    /\ snaps' = snaps \ (Unclaimed \cup Duplicates)
    /\ tombs' = dTombs /\ epochs' = dEpochs
    /\ retry' = FALSE
    /\ init' = Initialising("index", {d \in Docs : dEpochs[d].state = "delete_pending"},
                     {[id |-> i, rev |-> Loaded[i].rev] : i \in Interrupted})
    /\ UNCHANGED <<phase, ready, started, dTombs, expired, dEpochs, rows, created, procs,
                   buried, faults, runs>>

(* The files of a load that stops half way: first the snapshots go that no   *)
(* record needs, then one duplicate after another is failed.                 *)
HalfLoaded ==
    \/ dRecs' = dRecs /\ snaps' \in {snaps \ S : S \in SUBSET Unclaimed}
    \/ \E S \in SUBSET Duplicates :
        /\ dRecs' = Repair(S, dRecs)
        /\ \E i \in S : snaps' \in {snaps \ (Unclaimed \cup S),
                                   snaps \ (Unclaimed \cup (S \ {i}))}

LoadFails ==
    /\ InitDue /\ Fault /\ HalfLoaded /\ Degraded
    /\ UNCHANGED <<recs, tombs, dTombs, expired, epochal, rows, created, procs, buried, runs>>

(* A RagError, which #initialize absorbs.                                    *)
InitFailed ==
    /\ init' = NoInit /\ ready' = FALSE /\ retry' = (phase = "up")
    /\ UNCHANGED <<phase, started>>

(* The probes, the index and the encoder; the table is left as it is.        *)
InitIndex ==
    /\ init.pc = "index"
    /\ \/ init' = [init EXCEPT !.pc = "reconcile"]
          /\ UNCHANGED <<phase, ready, retry, started, faults>>
       \/ Fault /\ InitFailed
    /\ UNCHANGED <<records, epochal, rows, created, procs, buried, runs>>

(* #reconcileDeletes, one document after another.                            *)
ReconcileDelete(d) ==
    /\ init.pc = "reconcile" /\ d \in init.deletes /\ CanWrite(d)
    /\ init' = [init EXCEPT !.deletes = @ \ {d}]
    /\ IF epochs[d].state = "delete_pending"
       THEN rows' = [rows EXCEPT ![d] = 0] /\ PutEpoch(d, DeletedEpoch(d))
       ELSE UNCHANGED <<rows, epochal, faults>>
    /\ UNCHANGED <<phase, ready, retry, started, records, created, procs, buried, runs>>

ReconcileDeleteFails(d) ==
    /\ init.pc = "reconcile" /\ d \in init.deletes /\ CanWrite(d)
    /\ epochs[d].state = "delete_pending"
    /\ \/ rows' \in {rows, [rows EXCEPT ![d] = 0]} /\ Fault /\ UNCHANGED epochal
       \/ rows' = [rows EXCEPT ![d] = 0] /\ PutEpochFails(d, DeletedEpoch(d))
    /\ InitFailed
    /\ UNCHANGED <<records, created, procs, buried, runs>>

(* RagIngestionWorker.recover: a candidate that has moved on is passed over. *)
Candidate(c) == init.pc = "reconcile" /\ init.deletes = {} /\ c \in init.recover

StillOwns(i, v) ==
    IsOwner(ing[i].doc, i) /\ recs[i].status = "processing" /\ recs[i].rev = v

RecoverSkip(c) ==
    /\ Candidate(c) /\ ~StillOwns(c.id, c.rev)
    /\ init' = [init EXCEPT !.recover = @ \ {c}]
    /\ UNCHANGED <<phase, ready, retry, started, records, epochal, rows, created, procs, buried,
                   faults, runs>>

(* The owner is looked at once, under the mutex and the write lock.          *)
RecoverLock(c) ==
    /\ Candidate(c) /\ StillOwns(c.id, c.rev) /\ CanWrite(ing[c.id].doc)
    /\ init' = [init EXCEPT !.pc = "settle", !.recover = @ \ {c}, !.held = c]
    /\ UNCHANGED <<phase, ready, retry, started, records, epochal, rows, created, procs, buried,
                   faults, runs>>

(* #reconcile: what the table and the epoch say of the ingestion.            *)

Fenced(i)    == LET e == epochs[ing[i].doc] IN
                e.gen > ing[i].gen \/ e.state = "delete_pending"
Published(i) == rows[ing[i].doc] = i
\* seeded fault: an ingestion that is not fenced off is taken for published
OutcomeByFence(i) == IF Fenced(i) THEN "failed" ELSE "completed"
Outcome(i) ==
    IF Published(i) THEN "completed" ELSE IF Fenced(i) THEN "failed" ELSE "queued"

(* What the table and the epoch say cannot have been reached.                *)
Impossible(i) ==
    LET d == ing[i].doc IN
    IF Published(i) THEN epochs[d].gen # ing[i].gen \/ epochs[d].state = "delete_pending"
    ELSE ~Fenced(i) /\ ~(epochs[d].gen = ing[i].gen /\ Consistent(d))

Settled ==
    /\ init' = [init EXCEPT !.pc = "reconcile", !.held = NoInit.held]
    /\ UNCHANGED <<phase, ready, retry, started>>

SettleImpossible ==
    /\ Settling /\ Impossible(init.held.id) /\ InitFailed
    /\ UNCHANGED <<records, epochal, rows, created, procs, buried, faults, runs>>

EpochBehind ==
    /\ Settling /\ ~Impossible(init.held.id)
    /\ Published(init.held.id) /\ ~Consistent(ing[init.held.id].doc)

SettleEpoch ==
    LET i == init.held.id IN
    /\ EpochBehind
    /\ \/ PutEpoch(ing[i].doc, ActiveEpoch(i)) /\ UNCHANGED coord
       \/ PutEpochFails(ing[i].doc, ActiveEpoch(i)) /\ InitFailed
    /\ UNCHANGED <<records, rows, created, procs, buried, runs>>

SettlesRecord == Settling /\ ~Impossible(init.held.id) /\ ~EpochBehind
Unmoved       == recs[init.held.id] = Rec("processing", init.held.rev)

SettleRecord ==
    LET i == init.held.id IN
    /\ SettlesRecord /\ Unmoved
    /\ \/ Put(i, Moved(i, Outcome(i))) /\ Settled
       \/ PutFails(i, Moved(i, Outcome(i))) /\ InitFailed
    /\ UNCHANGED <<epochal, rows, created, procs, buried, runs>>

(* The worker has moved the record meanwhile: the revision no longer matches, *)
(* which is a plain Error; #initialize throws it on, nobody handles the       *)
(* rejection, and Node ends the process.                                      *)
SettleRejected ==
    /\ SettlesRecord /\ ~Unmoved /\ Down
    /\ UNCHANGED <<records, epochal, rows, created, buried, faults, runs>>

(* The worker is started unless it runs; a stopped worker starts no more.    *)
Finish ==
    /\ init.pc = "reconcile" /\ init.deletes = {} /\ init.recover = {}
    /\ init' = NoInit /\ ready' = TRUE /\ retry' = FALSE /\ started' = TRUE
    /\ worker' = IF started \/ Aborted THEN worker ELSE Idle
    /\ UNCHANGED <<phase, records, epochal, rows, created, sub, del, search, buried, faults,
                   runs>>

----------------------------------------------------------------------------
(* RagIngestionWorker.#run and #runCandidate.                                *)

Pick ==
    /\ worker.pc = "idle" /\ ~Aborted
    /\ \/ QueuedIds = {} /\ worker' = Loop("waiting", 0, 0)
       \/ \E i \in Oldest(QueuedIds) : worker' = Loop("claim", i, recs[i].rev)
    /\ UNCHANGED <<coord, records, epochal, rows, created, sub, del, search, buried, faults,
                   runs>>

WorkerExit ==
    /\ worker.pc \in {"idle", "waiting"} /\ Aborted /\ worker' = Off
    /\ UNCHANGED <<coord, records, epochal, rows, created, sub, del, search, buried, faults,
                   runs>>

(* The claim is by revision; a candidate that has changed sends the loop to  *)
(* wait for a notification.                                                  *)
Claim ==
    /\ worker.pc = "claim"
    /\ \/ /\ recs[worker.id] = Rec("queued", worker.rev)
          /\ Put(worker.id, Moved(worker.id, "processing"))
          /\ worker' = Loop("snapshot", worker.id, worker.rev + 1)
          /\ UNCHANGED coord
       \/ /\ recs[worker.id] # Rec("queued", worker.rev)
          /\ worker' = Loop("waiting", 0, 0)
          /\ UNCHANGED <<coord, records, faults>>
       \/ /\ recs[worker.id] = Rec("queued", worker.rev)
          /\ PutFails(worker.id, Moved(worker.id, "processing"))
          /\ WorkerFatal
    /\ UNCHANGED <<epochal, rows, created, sub, del, search, buried, runs>>

Goto(pc) == worker' = [worker EXCEPT !.pc = pc]

(* readSnapshot: a failure is the storage's, not the ingestion's.            *)
ReadSnapshot ==
    /\ worker.pc = "snapshot" /\ ~Aborted
    /\ \/ worker.id \in snaps /\ Goto("embed") /\ UNCHANGED faults
       \/ worker.id \notin snaps /\ Goto("failfatal") /\ UNCHANGED faults
       \/ Fault /\ Goto("failfatal")
    /\ UNCHANGED <<coord, records, epochal, rows, created, sub, del, search, buried, runs>>

(* Chunking and embedding; either may reject this ingestion.                 *)
Embed ==
    /\ worker.pc = "embed" /\ ~Aborted
    /\ \/ Goto("publish") /\ UNCHANGED faults
       \/ Fault /\ Goto("fail")
    /\ UNCHANGED <<coord, records, epochal, rows, created, sub, del, search, buried, runs>>

Abort ==
    /\ worker.pc \in {"snapshot", "embed", "publish"} /\ Aborted /\ Goto("retry")
    /\ UNCHANGED <<coord, records, epochal, rows, created, sub, del, search, buried, faults,
                   runs>>

(* Under the mutex and the write lock: the owner and the epoch once more.    *)
\* seeded fault: the generation is not read again after the embedding
StaleUnlessOwner(i) == ~StillOwns(i, worker.rev)
Stale(i) ==
    \/ ~StillOwns(i, worker.rev)
    \/ epochs[ing[i].doc].gen # ing[i].gen
    \/ epochs[ing[i].doc].state = "delete_pending"

\* seeded fault: the publication does not wait for the searches
LockedAgainstWriters(d) == CanRead(d)
Lock(d) == CanWrite(d)

Revalidate ==
    LET d == ing[worker.id].doc IN
    /\ worker.pc = "publish" /\ ~Aborted /\ Lock(d)
    /\ \/ Stale(worker.id) /\ Goto("fail") /\ UNCHANGED <<coord, faults>>
       \/ ~Stale(worker.id) /\ Fault /\ Goto("failfatal") /\ UNCHANGED coord
       \/ ~Stale(worker.id) /\ ~Consistent(d) /\ WorkerFatal /\ UNCHANGED faults
       \/ ~Stale(worker.id) /\ Consistent(d) /\ Goto("merge") /\ UNCHANGED <<coord, faults>>
    /\ UNCHANGED <<records, epochal, rows, created, sub, del, search, buried, runs>>

(* replaceDocument inspects the table again before it reports a failure.     *)
Merge ==
    LET d == ing[worker.id].doc IN
    /\ worker.pc = "merge"
    /\ \/ /\ rows' = [rows EXCEPT ![d] = worker.id]
          /\ Goto("epoch") /\ UNCHANGED <<coord, faults>>
       \/ rows' \in {rows, [rows EXCEPT ![d] = worker.id]} /\ Fault /\ WorkerFatal
    /\ UNCHANGED <<records, epochal, created, sub, del, search, buried, runs>>

PublishEpoch ==
    LET i == worker.id
        d == ing[i].doc
    IN
    /\ worker.pc = "epoch"
    /\ \/ /\ epochs[d].gen = ing[i].gen
          /\ \/ PutEpoch(d, ActiveEpoch(i)) /\ Goto("complete") /\ UNCHANGED coord
             \/ PutEpochFails(d, ActiveEpoch(i)) /\ WorkerFatal
       \/ epochs[d].gen # ing[i].gen /\ WorkerFatal /\ UNCHANGED <<epochal, faults>>
    /\ UNCHANGED <<records, rows, created, sub, del, search, buried, runs>>

(* transition from processing: the revision must be the one that was claimed. *)
Holds == recs[worker.id] = Rec("processing", worker.rev)

Leave(status, next) ==
    \/ Holds /\ Put(worker.id, Moved(worker.id, status)) /\ next
    \/ Holds /\ PutFails(worker.id, Moved(worker.id, status)) /\ WorkerFatal
    \/ ~Holds /\ WorkerFatal /\ UNCHANGED <<records, faults>>

BackToLoop == worker' = Idle /\ UNCHANGED coord

Complete ==
    /\ worker.pc = "complete" /\ Leave("completed", BackToLoop)
    /\ UNCHANGED <<epochal, rows, created, sub, del, search, buried, runs>>

Requeue ==
    /\ worker.pc = "retry" /\ Leave("queued", BackToLoop)
    /\ UNCHANGED <<epochal, rows, created, sub, del, search, buried, runs>>

Fail ==
    /\ \/ worker.pc = "fail" /\ Leave("failed", BackToLoop)
       \/ worker.pc = "failfatal" /\ Leave("failed", WorkerFatal)
    /\ UNCHANGED <<epochal, rows, created, sub, del, search, buried, runs>>

----------------------------------------------------------------------------
(* RagIngestionCoordinator.submit.  It looks at the readiness before it waits *)
(* for the mutex of the document, and not again; which document and version  *)
(* it names matters when it has the mutex.                                   *)

SubmitAsk ==
    /\ Serving /\ sub = NoWork /\ sub' = Work("asked", None, None, 0)
    /\ UNCHANGED <<coord, records, epochal, rows, created, worker, del, search, buried,
                   faults, runs>>

Deciding(d) == sub.pc = "asked" /\ CanRead(d)

(* A document whose epoch and rows disagree degrades the coordinator.        *)
FindInconsistent(d) ==
    /\ Deciding(d) /\ ~Consistent(d) /\ sub' = NoWork /\ Degraded
    /\ UNCHANGED <<records, epochal, rows, created, worker, del, search, buried, faults, runs>>

CompletedOf(d, v) ==
    {i \in Ids : recs[i].status = "completed" /\ ing[i].doc = d /\ ing[i].ver = v}
Shows(d, v) == rows[d] # 0 /\ ing[rows[d]].ver = v

(* #hit: a completed record is created unless the oldest is still retained.  *)
Hit(d, v) == Shows(d, v) /\ Oldest(CompletedOf(d, v)) \subseteq expired

\* seeded fault: the owner of the document is not looked up
MissWithoutOwner(d, v) == ~Shows(d, v)
Miss(d, v) == ~Shows(d, v) /\ OwnerIds(d) = {}

Room(d, v) == nextId <= MaxIngestions /\ (Miss(d, v) => Cardinality(QueuedIds) < MaxQueued)

SubmitHit(d, v) ==
    /\ Deciding(d) /\ Consistent(d) /\ Hit(d, v) /\ Room(d, v)
    /\ sub' = Work("hit", d, v, ing[rows[d]].gen)
    /\ UNCHANGED <<coord, records, epochal, rows, created, worker, del, search, buried,
                   faults, runs>>

SubmitMiss(d, v) ==
    /\ Deciding(d) /\ Consistent(d) /\ Miss(d, v) /\ Room(d, v)
    /\ sub' = Work("create", d, v, epochs[d].gen)
    /\ UNCHANGED <<coord, records, epochal, rows, created, worker, del, search, buried,
                   faults, runs>>

(* A retained hit, an ingestion to join or in the way, a full queue.         *)
SubmitAnswered(d, v) ==
    /\ Deciding(d) /\ Consistent(d) /\ sub' = NoWork
    /\ (Hit(d, v) \/ Miss(d, v)) => ~Room(d, v)
    /\ UNCHANGED <<coord, records, epochal, rows, created, worker, del, search, buried,
                   faults, runs>>

NewIngestion ==
    /\ ing' = [ing EXCEPT ![nextId] = Ing(sub.doc, sub.ver, sub.gen)]
    /\ nextId' = nextId + 1

\* seeded fault: the worker is not notified
NotNotified == worker
Notified == IF worker.pc = "waiting" THEN Idle ELSE worker

(* createQueued: the snapshot, then the record, then memory.                 *)
CreateQueued ==
    /\ sub.pc = "create" /\ NewIngestion
    /\ recs' = [recs EXCEPT ![nextId] = Rec("queued", 0)]
    /\ dRecs' = [dRecs EXCEPT ![nextId] = Rec("queued", 0)]
    /\ snaps' = snaps \cup {nextId}
    /\ sub' = NoWork /\ worker' = Notified
    /\ UNCHANGED <<coord, tombs, dTombs, expired, epochal, rows, del, search, buried, faults,
                   runs>>

(* A failure removes what was published of the snapshot, if it can; the      *)
(* record may be on the volume all the same.                                 *)
CreateFails ==
    /\ sub.pc = "create" /\ NewIngestion /\ Fault /\ Degraded
    /\ dRecs' \in {dRecs, [dRecs EXCEPT ![nextId] = Rec("queued", 0)]}
    /\ snaps' \in {snaps, snaps \cup {nextId}}
    /\ sub' = NoWork
    /\ UNCHANGED <<recs, tombs, dTombs, expired, epochal, rows, worker, del, search, buried,
                   runs>>

\* seeded fault: the record is written before the snapshot is published
CutBetweenRecordAndSnapshot ==
    /\ sub.pc = "create" /\ NewIngestion
    /\ Down
    /\ dRecs' = [dRecs EXCEPT ![nextId] = Rec("queued", 0)]
    /\ UNCHANGED <<recs, snaps, tombs, dTombs, expired, epochal, rows, buried, faults, runs>>

(* A crash after the snapshot was published, before or after the record was. *)
CreateCut ==
    /\ sub.pc = "create" /\ NewIngestion
    /\ Down
    /\ dRecs' \in {dRecs, [dRecs EXCEPT ![nextId] = Rec("queued", 0)]}
    /\ snaps' = snaps \cup {nextId}
    /\ UNCHANGED <<recs, tombs, dTombs, expired, epochal, rows, buried, faults, runs>>

CreateCompletedHit ==
    /\ sub.pc = "hit" /\ NewIngestion /\ sub' = NoWork
    /\ \/ Put(nextId, Rec("completed", 0)) /\ UNCHANGED coord
       \/ PutFails(nextId, Rec("completed", 0)) /\ Degraded
    /\ UNCHANGED <<epochal, rows, worker, del, search, buried, runs>>

----------------------------------------------------------------------------
(* RagIngestionCoordinator.delete: after the readiness, under the mutex of   *)
(* the document and the write lock, the intent, the rows and the epoch.      *)

DeleteAsk ==
    /\ Serving /\ del = NoWork /\ del' = Work("asked", None, None, 0)
    /\ UNCHANGED <<coord, records, epochal, rows, created, worker, sub, search, buried,
                   faults, runs>>

MayDelete(d) == del.pc = "asked" /\ CanWrite(d)
Deletable(d) == Consistent(d) /\ rows[d] # 0 /\ epochs[d].gen < MaxGeneration
\* seeded fault: a deletion keeps the generation of the document
SameGeneration(d) == Epoch("delete_pending", epochs[d].gen, epochs[d].ing)
Intent(d) == Epoch("delete_pending", epochs[d].gen + 1, epochs[d].ing)

(* There is nothing to delete, or epoch and rows disagree.                   *)
DeleteRefused(d) ==
    /\ MayDelete(d) /\ ~Deletable(d) /\ del' = NoWork
    /\ IF Consistent(d) THEN UNCHANGED coord ELSE Degraded
    /\ UNCHANGED <<records, epochal, rows, created, worker, sub, search, buried, faults, runs>>

WriteIntent(d) ==
    /\ MayDelete(d) /\ Deletable(d)
    /\ \/ /\ PutEpoch(d, Intent(d)) /\ UNCHANGED coord
          /\ del' = Work("rows", d, None, Intent(d).gen)
       \/ PutEpochFails(d, Intent(d)) /\ Degraded /\ del' = NoWork
    /\ UNCHANGED <<records, rows, created, worker, sub, search, buried, runs>>

DeleteRows ==
    /\ del.pc = "rows"
    /\ \/ /\ rows' = [rows EXCEPT ![del.doc] = 0] /\ UNCHANGED <<coord, faults>>
          /\ del' = [del EXCEPT !.pc = "epoch"]
       \/ /\ rows' \in {rows, [rows EXCEPT ![del.doc] = 0]} /\ Fault /\ Degraded
          /\ del' = NoWork
    /\ UNCHANGED <<records, epochal, created, worker, sub, search, buried, runs>>

Acknowledge ==
    /\ del.pc = "epoch" /\ del' = NoWork
    /\ \/ /\ epochs[del.doc].gen = del.gen
          /\ PutEpoch(del.doc, DeletedEpoch(del.doc)) /\ UNCHANGED coord
          /\ buried' = [buried EXCEPT ![del.doc] = nextId - 1]
       \/ /\ PutEpochFails(del.doc, DeletedEpoch(del.doc)) /\ Degraded
          /\ UNCHANGED buried
    /\ UNCHANGED <<records, rows, created, worker, sub, search, runs>>

----------------------------------------------------------------------------
(* RagSearchService.search: both candidate lists under one read lock.        *)

SearchVector(d) ==
    /\ Serving /\ search = NoSearch /\ ~Writing
    /\ search' = [doc |-> d, seen |-> rows[d]]
    /\ UNCHANGED <<coord, records, epochal, rows, created, worker, sub, del, buried, faults,
                   runs>>

SearchText ==
    /\ search # NoSearch /\ search' = NoSearch
    /\ \/ UNCHANGED <<coord, faults>>
       \/ Fault /\ Degraded
    /\ UNCHANGED <<records, epochal, rows, created, worker, sub, del, buried, runs>>

----------------------------------------------------------------------------
(* Retention.  A record expires when its time has come, whoever looks; the   *)
(* sweep buries it under a tombstone and removes the tombstone in turn.      *)

Expire(i) ==
    /\ recs[i].status \in Terminal /\ i \notin expired /\ Cardinality(expired) < MaxExpired
    /\ expired' = expired \cup {i}
    /\ UNCHANGED <<coord, recs, dRecs, snaps, tombs, dTombs, epochal, rows, created, procs,
                   buried, faults, runs>>

Swept(i) == i \in expired /\ recs[i].status \in Terminal

Sweep(i) ==
    /\ Serving /\ Swept(i)
    /\ recs' = [recs EXCEPT ![i] = Gone] /\ dRecs' = [dRecs EXCEPT ![i] = Gone]
    /\ tombs' = tombs \cup {i} /\ dTombs' = dTombs \cup {i}
    /\ UNCHANGED <<coord, snaps, expired, epochal, rows, created, procs, buried, faults,
                   runs>>

SweepFails(i) ==
    /\ Serving /\ Swept(i) /\ Fault /\ Degraded
    /\ \/ UNCHANGED <<dTombs, dRecs>>
       \/ dTombs' = dTombs \cup {i} /\ dRecs' \in {dRecs, [dRecs EXCEPT ![i] = Gone]}
    /\ UNCHANGED <<recs, snaps, tombs, expired, epochal, rows, created, procs, buried, runs>>

SweepTombstone(i) ==
    /\ Serving /\ i \in tombs
    /\ \/ tombs' = tombs \ {i} /\ dTombs' = dTombs \ {i} /\ UNCHANGED <<coord, faults>>
       \/ dTombs' \in {dTombs, dTombs \ {i}} /\ UNCHANGED tombs /\ Fault /\ Degraded
    /\ UNCHANGED <<recs, dRecs, snaps, expired, epochal, rows, created, procs, buried, runs>>

----------------------------------------------------------------------------
(* The process dies between two writes of one operation.                     *)

EndWritten(i, s) == s \in Terminal /\ dRecs' = [dRecs EXCEPT ![i] = Moved(i, s)]

(* The record has ended and its snapshot is still there.                     *)
CrashInTransition ==
    /\ \/ worker.pc = "complete" /\ Holds /\ EndWritten(worker.id, "completed")
       \/ worker.pc \in {"fail", "failfatal"} /\ Holds /\ EndWritten(worker.id, "failed")
       \/ SettlesRecord /\ Unmoved /\ EndWritten(init.held.id, Outcome(init.held.id))
    /\ Down
    /\ UNCHANGED <<recs, snaps, tombs, dTombs, expired, epochal, rows, created, buried, faults,
                   runs>>

(* The tombstone is written and the record is still there.                   *)
CrashInSweep(i) ==
    /\ Serving /\ Swept(i) /\ dTombs' = dTombs \cup {i}
    /\ Down
    /\ UNCHANGED <<recs, dRecs, snaps, tombs, expired, epochal, rows, created, buried, faults,
                   runs>>

(* The rows are gone and the epoch still says so of the intent only.         *)
CrashInReconcile(d) ==
    /\ init.pc = "reconcile" /\ d \in init.deletes /\ CanWrite(d)
    /\ epochs[d].state = "delete_pending" /\ rows' = [rows EXCEPT ![d] = 0]
    /\ Down
    /\ UNCHANGED <<records, epochal, created, buried, faults, runs>>

CrashInLoad ==
    /\ InitDue /\ HalfLoaded
    /\ Down
    /\ UNCHANGED <<recs, tombs, dTombs, expired, epochal, rows, created, buried, faults, runs>>

----------------------------------------------------------------------------
InitialiseStep ==
    \/ Load \/ InitIndex \/ Finish
    \/ \E d \in Docs : ReconcileDelete(d)
    \/ \E c \in init.recover : RecoverSkip(c) \/ RecoverLock(c)
    \/ SettleImpossible \/ SettleEpoch \/ SettleRecord \/ SettleRejected

WorkerStep ==
    \/ Pick \/ WorkerExit \/ Claim \/ ReadSnapshot \/ Embed \/ Abort \/ Revalidate
    \/ Merge \/ PublishEpoch \/ Complete \/ Requeue \/ Fail

Client ==
    \/ \E d \in Docs, v \in Versions :
        SubmitHit(d, v) \/ SubmitMiss(d, v) \/ SubmitAnswered(d, v)
    \/ \E d \in Docs :
        FindInconsistent(d) \/ DeleteRefused(d) \/ WriteIntent(d) \/ SearchVector(d)
    \/ SubmitAsk \/ CreateQueued \/ CreateFails \/ CreateCompletedHit
    \/ DeleteAsk \/ DeleteRows \/ Acknowledge \/ SearchText

Failure == LoadFails \/ \E d \in Docs : ReconcileDeleteFails(d)

CrashInside ==
    \/ CreateCut \/ CrashInTransition \/ CrashInLoad
    \/ \E i \in Ids : CrashInSweep(i)
    \/ \E d \in Docs : CrashInReconcile(d)

Retention ==
    \E i \in Ids : Expire(i) \/ Sweep(i) \/ SweepFails(i) \/ SweepTombstone(i)

Next ==
    \/ Start \/ Crash \/ CrashInside \/ Stop \/ Exit
    \/ InitialiseStep \/ WorkerStep \/ Client \/ Failure \/ Retention

Spec == Init /\ [][Next]_vars

----------------------------------------------------------------------------
(* No deletion that was acknowledged is undone by an ingestion that was      *)
(* accepted before it, whatever fails or crashes in between: rag-ingestion-  *)
(* worker.ts reads the generation again under the lock it publishes under.   *)
NoResurrection == \A d \in Docs : rows[d] # 0 => rows[d] > buried[d]

(* The two candidate lists of a search come from one version of a document:  *)
(* publications and deletions wait for the search's read lock.               *)
SearchReadsOneVersion == search # NoSearch => rows[search.doc] = search.seen

(* While the coordinator serves and nothing holds a document, its epoch says *)
(* what its rows are, also after crashes: startup reconciles both first.     *)
EpochFollowsTable ==
    faults = 0 /\ Serving => \A d \in Docs : CanWrite(d) => Consistent(d)

(* An ingestion that is queued or processing still has its snapshot, so that *)
(* a restart can run it again; only a failed operation can take it away.     *)
SnapshotRetained ==
    faults = 0 => \A i \in Ids : dRecs[i].status \in Active => i \in snaps

(* VER-04: a document never has two ingestions at work, not even after a     *)
(* failed write left a record on the volume that memory does not know.  A    *)
(* second failure is what it takes to have an initialisation under way while *)
(* that record is left behind, and to load it behind a submission later.     *)
OneOwner ==
    faults < 2 => \A i, j \in Ids : recs[i].status \in Active /\ recs[j].status \in Active
                      /\ ing[i].doc = ing[j].doc => i = j

(* An ingestion is recorded as completed only when the table shows its rows  *)
(* and the epoch names it: success is not inferred from half a publication.  *)
CompletedIsPublished ==
    [][\A i \in Ids :
        dRecs[i].status \in Active /\ dRecs'[i].status = "completed"
        => rows'[ing[i].doc] = i /\ epochs'[ing[i].doc] = ActiveEpoch(i)]_vars

(* The index implements what DocumentShelf promises of its documents.        *)
Shelf == INSTANCE DocumentShelf WITH accepted <- nextId - 1, shown <- rows
ImplementsShelf == Shelf!Spec

(* Where the lock and the mutex are asked for, their queues are fair.        *)
Fairness ==
    /\ WF_vars(InitialiseStep) /\ WF_vars(WorkerStep) /\ SF_vars(Revalidate)
    /\ \A d \in Docs : SF_vars(ReconcileDelete(d))
    /\ SF_vars(\E c \in init.recover : RecoverLock(c))
    /\ WF_vars(Start)
    /\ WF_vars(CreateQueued) /\ WF_vars(CreateCompletedHit)
    /\ WF_vars(DeleteRows) /\ WF_vars(Acknowledge) /\ WF_vars(SearchText)

FairSpec == Spec /\ Fairness

(* An ingestion on the volume ends while the process stays up, unless an     *)
(* operation fails: no wake-up is lost, no lock is waited for in a circle,   *)
(* and what a crash interrupted is taken up again.                           *)
IngestionEnds ==
    \A i \in Ids :
        (phase = "up" /\ dRecs[i].status \in Active)
        ~> (phase # "up" \/ dRecs[i].status \notin Active \/ faults > 0)

(* A coordinator that is started or degraded serves again, in this life of   *)
(* the process or, should it end, in the next: one failed operation, with    *)
(* crashes at any write, leaves behind nothing that the initialisation       *)
(* cannot put in order, though the worker goes on beside it.                 *)
ServesAgain ==
    phase = "up" ~> \/ Serving \/ phase = "stopping" \/ faults > 1
                    \/ phase = "down" /\ runs = MaxRuns

(* A submission that joins an ingestion joins one that can still publish:    *)
(* it targets the generation its document has when the submission decides.   *)
JoinTargetsCurrentGeneration ==
    \A d \in Docs, i \in Ids :
        Deciding(d) /\ Consistent(d) /\ ~Shows(d, ing[i].ver) /\ IsOwner(d, i)
        => ing[i].gen = epochs[d].gen
=============================================================================
