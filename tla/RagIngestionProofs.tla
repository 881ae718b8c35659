------------------------- MODULE RagIngestionProofs -------------------------
(***************************************************************************)
(* Theorems about RagIngestion, for any number of documents, versions,      *)
(* ingestions, generations, failures and lives of the process: its types,   *)
(* the isolation of a search, that no acknowledged deletion is undone and   *)
(* no ingestion completed that is not published, and, for healthy storage,  *)
(* that snapshots stay, that epochs follow the table while it serves, and   *)
(* (after one failure, too) that a document has one ingestion at work.      *)
(***************************************************************************)
EXTENDS RagIngestion, TLAPS

(* A submission that is past its decision is about to create an ingestion.   *)
Decided == sub.pc \in {"create", "hit"}

CoordTyped ==
    /\ phase \in {"down", "up", "stopping"}
    /\ ready \in BOOLEAN /\ retry \in BOOLEAN /\ started \in BOOLEAN
    /\ init \in [pc : {"none", "index", "reconcile", "settle"}, deletes : SUBSET Docs,
                 recover : SUBSET [id : Ids, rev : Nat], held : [id : Ids \cup {0}, rev : Nat]]
    /\ Settling => init.held.id \in Ids

RecordsTyped ==
    /\ recs \in [Ids -> RecRecord] /\ dRecs \in [Ids -> RecRecord]
    /\ snaps \subseteq Ids /\ tombs \subseteq Ids /\ dTombs \subseteq Ids
    /\ expired \subseteq Ids

EpochsTyped == epochs \in [Docs -> EpochRecord] /\ dEpochs \in [Docs -> EpochRecord]

RowsTyped == rows \in [Docs -> Ids \cup {0}] /\ buried \in [Docs -> Nat]

CreatedTyped == ing \in [Ids -> IngRecord] /\ nextId \in Nat \ {0}

WorkerTyped ==
    /\ worker \in [pc : {"off", "idle", "waiting", "claim", "snapshot", "embed", "publish",
                         "merge", "epoch", "complete", "retry", "fail", "failfatal"},
                   id : Ids \cup {0}, rev : Nat]
    /\ worker.pc \notin {"off", "idle", "waiting"} => worker.id \in Ids

CallsTyped ==
    /\ sub \in [pc : {"idle", "asked", "create", "hit"}, doc : Docs \cup {None},
                ver : Versions \cup {None}, gen : Nat]
    /\ del \in [pc : {"idle", "asked", "rows", "epoch"}, doc : Docs \cup {None},
                ver : {None}, gen : Nat]
    /\ search \in [doc : Docs \cup {None}, seen : Ids \cup {0}]
    /\ Decided => nextId \in Ids /\ sub.doc \in Docs /\ sub.ver \in Versions
    /\ Deleting => del.doc \in Docs
    /\ search # NoSearch => search.doc \in Docs

CountersTyped == faults \in Nat /\ runs \in Nat

(* TypeOK in the groups of variables that the actions change together; a     *)
(* worker past its queue and a call that is under way name what they work on. *)
Typed ==
    /\ CoordTyped /\ RecordsTyped /\ EpochsTyped /\ RowsTyped /\ CreatedTyped
    /\ WorkerTyped /\ CallsTyped /\ CountersTyped

LEMMA TypedIsTypeOK == Typed => TypeOK
  BY DEF Typed, TypeOK, CoordTyped, RecordsTyped, EpochsTyped, RowsTyped, CreatedTyped,
         WorkerTyped, CallsTyped, CountersTyped

----------------------------------------------------------------------------
(* What the constructors build, and what the file operations preserve.       *)

LEMMA RecordTypes ==
    ASSUME NEW s \in Active \cup Terminal \cup {"absent"}, NEW v \in Nat
    PROVE  Rec(s, v) \in RecRecord /\ Gone \in RecRecord
  BY DEF Rec, RecRecord, Gone, Active, Terminal

LEMMA EpochTypes ==
    ASSUME NEW s \in {"active", "delete_pending", "deleted"}, NEW g \in Nat,
           NEW i \in Ids \cup {0}
    PROVE  Epoch(s, g, i) \in EpochRecord
  BY DEF Epoch, EpochRecord

LEMMA PutTyped ==
    ASSUME RecordsTyped, CountersTyped, NEW i \in Ids, NEW r \in RecRecord,
           Put(i, r) \/ PutFails(i, r), UNCHANGED runs
    PROVE  RecordsTyped' /\ CountersTyped'
  <1>1. faults' \in Nat /\ runs' \in Nat
    BY DEF Put, PutFails, Fault, CountersTyped
  <1>2. recs' \in [Ids -> RecRecord] /\ dRecs' \in [Ids -> RecRecord]
    BY DEF Put, PutFails, RecordsTyped
  <1>3. snaps' \subseteq snaps
    BY DEF Put, PutFails
  <1> QED
    BY <1>1, <1>2, <1>3 DEF Put, PutFails, RecordsTyped, CountersTyped

LEMMA PutEpochTyped ==
    ASSUME EpochsTyped, CountersTyped, NEW d, NEW e \in EpochRecord,
           PutEpoch(d, e) \/ PutEpochFails(d, e), UNCHANGED runs
    PROVE  EpochsTyped' /\ CountersTyped'
  <1>1. faults' \in Nat /\ runs' \in Nat
    BY DEF PutEpoch, PutEpochFails, Fault, CountersTyped
  <1>2. epochs' \in [Docs -> EpochRecord] /\ dEpochs' \in [Docs -> EpochRecord]
    BY DEF PutEpoch, PutEpochFails, EpochsTyped
  <1> QED
    BY <1>1, <1>2 DEF EpochsTyped, CountersTyped

LEMMA MovedTyped ==
    ASSUME RecordsTyped, NEW i \in Ids, NEW s \in Active \cup Terminal
    PROVE  Moved(i, s) \in RecRecord
  BY RecordTypes DEF RecordsTyped, Moved, Rec, RecRecord, Active, Terminal

LEMMA EpochsOfTyped ==
    ASSUME EpochsTyped, CreatedTyped
    PROVE  /\ \A i \in Ids : ActiveEpoch(i) \in EpochRecord
           /\ \A d \in Docs : DeletedEpoch(d) \in EpochRecord /\ Intent(d) \in EpochRecord
  BY EpochTypes DEF EpochsTyped, CreatedTyped, ActiveEpoch, DeletedEpoch, Intent, EpochRecord,
                    IngRecord, Epoch

LEMMA CoordFrame ==
    ASSUME CoordTyped, UNCHANGED coord \/ Degraded
    PROVE  CoordTyped'
  BY DEF CoordTyped, Settling, coord, Degraded

LEMMA FatalTyped ==
    ASSUME CoordTyped, WorkerFatal
    PROVE  CoordTyped' /\ WorkerTyped'
  BY DEF CoordTyped, Settling, WorkerTyped, WorkerFatal, Off, Loop

LEMMA InitFailedTyped ==
    ASSUME CoordTyped, InitFailed
    PROVE  CoordTyped'
  BY DEF CoordTyped, Settling, InitFailed, NoInit, Initialising

LEMMA DownTyped ==
    ASSUME Down
    PROVE  CoordTyped' /\ WorkerTyped' /\ CallsTyped'
  BY DEF Down, CoordTyped, Settling, WorkerTyped, CallsTyped, Decided, Deleting, NoInit,
         Initialising, Off, Loop, NoWork, Work, NoSearch

LEMMA LoopTyped ==
    ASSUME WorkerTyped, NEW pc \in {"embed", "publish", "merge", "epoch", "complete", "retry",
                                    "fail", "failfatal"},
           worker.pc \notin {"off", "idle", "waiting"}, Goto(pc)
    PROVE  WorkerTyped' /\ worker'.id = worker.id /\ worker'.pc = pc
  BY DEF WorkerTyped, Goto

----------------------------------------------------------------------------
(* Types: the initial state, and one step per action.                        *)

LEMMA TypeInit == Init => Typed
  <1> SUFFICES ASSUME Init PROVE Typed
    OBVIOUS
  <1>1. CoordTyped
    BY DEF Init, CoordTyped, Settling, NoInit, Initialising
  <1>2. RecordsTyped
    BY DEF Init, RecordsTyped, Gone, Rec, RecRecord
  <1>3. EpochsTyped
    BY DEF Init, EpochsTyped, Epoch, EpochRecord
  <1>4. RowsTyped /\ CreatedTyped /\ CountersTyped
    BY DEF Init, RowsTyped, CreatedTyped, CountersTyped, Ing, IngRecord
  <1>5. WorkerTyped /\ CallsTyped
    BY DEF Init, WorkerTyped, CallsTyped, Decided, Deleting, Off, Loop, NoWork, Work, NoSearch
  <1> QED
    BY <1>1, <1>2, <1>3, <1>4, <1>5 DEF Typed

(* What an action leaves to be shown of the types of what it changes.        *)
LEMMA TypeFrames ==
    ASSUME Typed
    PROVE  /\ CoordTyped /\ RecordsTyped /\ EpochsTyped /\ RowsTyped /\ CreatedTyped
           /\ WorkerTyped /\ CallsTyped /\ CountersTyped
           /\ UNCHANGED coord \/ Degraded \/ InitFailed => CoordTyped'
           /\ WorkerFatal => CoordTyped' /\ WorkerTyped'
           /\ Down => CoordTyped' /\ WorkerTyped' /\ CallsTyped'
           /\ UNCHANGED records => RecordsTyped'
           /\ UNCHANGED epochal => EpochsTyped'
           /\ UNCHANGED rows /\ UNCHANGED buried => RowsTyped'
           /\ UNCHANGED created => CreatedTyped'
           /\ UNCHANGED worker => WorkerTyped'
           /\ UNCHANGED sub /\ UNCHANGED del /\ UNCHANGED search /\ UNCHANGED created
              => CallsTyped'
           /\ (Fault \/ UNCHANGED faults) /\ UNCHANGED runs => CountersTyped'
  <1>1. /\ CoordTyped /\ RecordsTyped /\ EpochsTyped /\ RowsTyped /\ CreatedTyped
        /\ WorkerTyped /\ CallsTyped /\ CountersTyped
    BY DEF Typed
  <1>2. UNCHANGED records => RecordsTyped'
    BY <1>1 DEF RecordsTyped, records
  <1>3. /\ UNCHANGED epochal => EpochsTyped'
        /\ UNCHANGED rows /\ UNCHANGED buried => RowsTyped'
        /\ UNCHANGED created => CreatedTyped'
        /\ UNCHANGED worker => WorkerTyped'
        /\ UNCHANGED sub /\ UNCHANGED del /\ UNCHANGED search /\ UNCHANGED created
           => CallsTyped'
    BY <1>1 DEF EpochsTyped, RowsTyped, CreatedTyped, WorkerTyped, CallsTyped, Decided, Deleting,
                epochal, created
  <1>4. (Fault \/ UNCHANGED faults) /\ UNCHANGED runs => CountersTyped'
    BY <1>1 DEF Fault, CountersTyped
  <1>5. /\ UNCHANGED coord \/ Degraded \/ InitFailed => CoordTyped'
        /\ WorkerFatal => CoordTyped' /\ WorkerTyped'
        /\ Down => CoordTyped' /\ WorkerTyped' /\ CallsTyped'
    BY <1>1, CoordFrame, FatalTyped, InitFailedTyped, DownTyped
  <1> QED
    BY <1>1, <1>2, <1>3, <1>4, <1>5

(* The same for the three kinds of write.                                    *)
LEMMA WritesTyped ==
    ASSUME Typed
    PROVE  /\ \A i \in Ids, t \in Active \cup Terminal :
                  (Put(i, Moved(i, t)) \/ PutFails(i, Moved(i, t))) /\ UNCHANGED runs
                  => RecordsTyped' /\ CountersTyped'
           /\ \A d, i : i \in Ids /\ (PutEpoch(d, ActiveEpoch(i)) \/ PutEpochFails(d, ActiveEpoch(i)))
                        /\ UNCHANGED runs => EpochsTyped' /\ CountersTyped'
           /\ \A d \in Docs :
                  (PutEpoch(d, DeletedEpoch(d)) \/ PutEpochFails(d, DeletedEpoch(d))
                   \/ PutEpoch(d, Intent(d)) \/ PutEpochFails(d, Intent(d)))
                  /\ UNCHANGED runs => EpochsTyped' /\ CountersTyped'
           /\ \A d \in Docs, i \in Ids \cup {0} :
                  rows' \in {rows, [rows EXCEPT ![d] = i]} /\ UNCHANGED buried => RowsTyped'
  <1>1. /\ RecordsTyped /\ EpochsTyped /\ RowsTyped /\ CreatedTyped /\ CountersTyped
    BY DEF Typed
  <1>2. \A i \in Ids, t \in Active \cup Terminal : Moved(i, t) \in RecRecord
    BY <1>1, MovedTyped
  <1>3. /\ \A i \in Ids : ActiveEpoch(i) \in EpochRecord
        /\ \A d \in Docs : DeletedEpoch(d) \in EpochRecord /\ Intent(d) \in EpochRecord
    BY <1>1, EpochsOfTyped
  <1>4. \A d \in Docs, i \in Ids \cup {0} :
            rows' \in {rows, [rows EXCEPT ![d] = i]} /\ UNCHANGED buried => RowsTyped'
    BY <1>1 DEF RowsTyped
  <1> QED
    BY <1>1, <1>2, <1>3, <1>4, PutTyped, PutEpochTyped

LEMMA LoadTyped ==
    ASSUME Typed, Load
    PROVE  Typed'
  <1> USE TypeFrames
  <1>1. /\ Loaded \in [Ids -> RecRecord]
        /\ \A rs \in [Ids -> RecRecord] : Repair(Duplicates, rs) \in [Ids -> RecRecord]
    BY DEF Loaded, Repair, RecordsTyped, Gone, Rec, RecRecord, Terminal
  <1>2. RecordsTyped'
    BY <1>1 DEF Load, RecordsTyped
  <1>3. EpochsTyped' /\ CountersTyped'
    BY DEF Load, EpochsTyped
  <1>4. CoordTyped'
    <2>1. Interrupted \subseteq Ids
      BY DEF Interrupted, LoadedActive
    <2>2. {[id |-> i, rev |-> Loaded[i].rev] : i \in Interrupted} \subseteq [id : Ids, rev : Nat]
      BY <1>1, <2>1 DEF RecRecord
    <2> QED
      BY <2>2 DEF Load, CoordTyped, Settling, Initialising
  <1> QED
    BY <1>2, <1>3, <1>4 DEF Load, Typed, procs

(* A load that stops half way leaves each record or fails it, and takes no    *)
(* snapshot of a record that is at work.                                     *)
LEMMA HalfLoadedFiles ==
    ASSUME RecordsTyped, HalfLoaded
    PROVE  /\ dRecs' \in [Ids -> RecRecord] /\ snaps' \subseteq snaps
           /\ \A i \in Ids : \/ dRecs'[i] = dRecs[i]
                             \/ /\ i \in Duplicates /\ dRecs[i].status \in Active
                                /\ dRecs'[i].status = "failed"
           /\ \A i \in snaps : \/ i \in snaps' \/ dRecs'[i].status = "failed"
                              \/ i \in dTombs \/ dRecs[i].status = "absent"
  <1>1. \A i \in Unclaimed : i \in dTombs \/ dRecs[i].status = "absent"
    BY DEF Unclaimed, Loaded, Gone, Rec
  <1>2. CASE dRecs' = dRecs /\ snaps' \in {snaps \ S : S \in SUBSET Unclaimed}
    BY <1>1, <1>2 DEF RecordsTyped
  <1>3. ASSUME NEW S \in SUBSET Duplicates, dRecs' = Repair(S, dRecs), NEW i \in S,
               snaps' \in {snaps \ (Unclaimed \cup S), snaps \ (Unclaimed \cup (S \ {i}))}
        PROVE  /\ dRecs' \in [Ids -> RecRecord] /\ snaps' \subseteq snaps
               /\ \A j \in Ids : \/ dRecs'[j] = dRecs[j]
                                 \/ /\ j \in Duplicates /\ dRecs[j].status \in Active
                                    /\ dRecs'[j].status = "failed"
               /\ \A j \in snaps : \/ j \in snaps' \/ dRecs'[j].status = "failed"
                                  \/ j \in dTombs \/ dRecs[j].status = "absent"
    <2>1. /\ dRecs' \in [Ids -> RecRecord]
          /\ \A j \in Ids : dRecs'[j] = IF j \in S THEN Rec("failed", dRecs[j].rev + 1) ELSE dRecs[j]
      BY <1>3 DEF Repair, RecordsTyped, Rec, RecRecord, Terminal
    <2>2. \A j \in S : j \in Ids /\ dRecs'[j].status = "failed"
      BY <1>3, <2>1 DEF Duplicates, LoadedActive, Rec
    <2>3. \A j \in S : dRecs[j].status \in Active
      BY <1>3 DEF Duplicates, LoadedActive, Loaded, Gone, Rec, Active
    <2>4. snaps' \subseteq snaps /\ \A j \in snaps \ snaps' : j \in Unclaimed \cup S
      BY <1>3
    <2> QED
      BY <1>1, <1>3, <2>1, <2>2, <2>3, <2>4
  <1> QED
    BY <1>2, <1>3 DEF HalfLoaded

(* A candidate passed over leaves what is held alone, one taken is held.     *)
LEMMA RecoverTyped ==
    ASSUME CoordTyped, NEW c \in init.recover, RecoverSkip(c) \/ RecoverLock(c)
    PROVE  CoordTyped'
  <1>1. UNCHANGED <<phase, ready, retry, started>>
    BY DEF RecoverSkip, RecoverLock
  <1>2. /\ (phase \in {"down", "up", "stopping"})'
        /\ (ready \in BOOLEAN /\ retry \in BOOLEAN /\ started \in BOOLEAN)'
    BY <1>1 DEF CoordTyped
  <1>3. c \in [id : Ids, rev : Nat]
    BY DEF CoordTyped
  <1>4. CASE RecoverSkip(c)
    <2>1. init' = [init EXCEPT !.recover = @ \ {c}] /\ init.pc = "reconcile"
      BY <1>4 DEF RecoverSkip, Candidate
    <2>2. init'.pc = "reconcile"
      BY <2>1 DEF CoordTyped
    <2>3. init' \in [pc : {"none", "index", "reconcile", "settle"}, deletes : SUBSET Docs,
                     recover : SUBSET [id : Ids, rev : Nat], held : [id : Ids \cup {0}, rev : Nat]]
      BY <2>1 DEF CoordTyped
    <2> QED
      BY <1>2, <2>2, <2>3 DEF CoordTyped, Settling
  <1>5. CASE RecoverLock(c)
    <2>1. init' = [init EXCEPT !.pc = "settle", !.recover = @ \ {c}, !.held = c]
      BY <1>5 DEF RecoverLock
    <2>2. init'.held.id \in Ids
      BY <1>3, <2>1 DEF CoordTyped
    <2>3. init' \in [pc : {"none", "index", "reconcile", "settle"}, deletes : SUBSET Docs,
                     recover : SUBSET [id : Ids, rev : Nat], held : [id : Ids \cup {0}, rev : Nat]]
      BY <1>3, <2>1 DEF CoordTyped
    <2> QED
      BY <1>2, <2>2, <2>3 DEF CoordTyped
  <1> QED
    BY <1>4, <1>5

LEMMA InitialiseTyped ==
    ASSUME Typed, InitialiseStep \/ Failure
    PROVE  Typed'
  <1> USE TypeFrames
  <1>1. CASE Load
    BY <1>1, LoadTyped
  <1>2. CASE InitIndex
    <2>1. init' = [init EXCEPT !.pc = "reconcile"] /\ UNCHANGED <<phase, ready, retry, started>>
          => CoordTyped'
      BY DEF CoordTyped, Settling
    <2>2. CoordTyped'
      BY <1>2, <2>1 DEF InitIndex
    <2> QED
      BY <1>2, <2>2 DEF InitIndex, Typed, procs
  <1>3. CASE Finish
    BY <1>3 DEF Finish, Typed, CoordTyped, Settling, WorkerTyped, NoInit, Initialising, Idle, Loop
  <1>4. ASSUME NEW d \in Docs, ReconcileDelete(d)
        PROVE  Typed'
    <2>1. CoordTyped'
      BY <1>4 DEF ReconcileDelete, CoordTyped, Settling
    <2>2. RowsTyped' /\ EpochsTyped' /\ CountersTyped'
      BY <1>4, WritesTyped DEF ReconcileDelete
    <2> QED
      BY <1>4, <2>1, <2>2 DEF ReconcileDelete, Typed, procs
  <1>5. ASSUME NEW d \in Docs, ReconcileDeleteFails(d)
        PROVE  Typed'
    <2>1. RowsTyped' /\ EpochsTyped' /\ CountersTyped'
      BY <1>5, WritesTyped DEF ReconcileDeleteFails
    <2> QED
      BY <1>5, <2>1 DEF ReconcileDeleteFails, Typed, procs
  <1>6. ASSUME NEW c \in init.recover, RecoverSkip(c) \/ RecoverLock(c)
        PROVE  Typed'
    <2>1. CoordTyped'
      BY <1>6, RecoverTyped DEF Typed
    <2> QED
      BY <1>6, <2>1 DEF RecoverSkip, RecoverLock, Typed, procs
  <1>7. CASE SettleImpossible \/ SettleRejected
    BY <1>7 DEF SettleImpossible, SettleRejected, Typed, procs
  <1>8. CASE SettleEpoch
    <2>1. init.held.id \in Ids
      BY <1>8 DEF SettleEpoch, EpochBehind, CoordTyped
    <2>2. EpochsTyped' /\ CountersTyped' /\ CoordTyped'
      BY <1>8, <2>1, WritesTyped DEF SettleEpoch
    <2> QED
      BY <1>8, <2>2 DEF SettleEpoch, Typed, procs
  <1>9. CASE SettleRecord
    <2>1. init.held.id \in Ids
      BY <1>9 DEF SettleRecord, SettlesRecord, CoordTyped
    <2>2. Outcome(init.held.id) \in Active \cup Terminal
      BY DEF Outcome, Active, Terminal
    <2>3. RecordsTyped' /\ CountersTyped'
      BY <1>9, <2>1, <2>2, WritesTyped DEF SettleRecord
    <2>4. ASSUME Settled
          PROVE  CoordTyped'
      <3>1. NoInit.held \in [id : Ids \cup {0}, rev : Nat]
        BY DEF NoInit, Initialising
      <3>2. /\ init' \in [pc : {"none", "index", "reconcile", "settle"}, deletes : SUBSET Docs,
                          recover : SUBSET [id : Ids, rev : Nat],
                          held : [id : Ids \cup {0}, rev : Nat]]
            /\ init'.pc = "reconcile"
        BY <2>4, <3>1 DEF Settled, CoordTyped
      <3> QED
        BY <2>4, <3>2 DEF Settled, CoordTyped, Settling
    <2>5. CoordTyped'
      BY <1>9, <2>4 DEF SettleRecord
    <2> QED
      BY <1>9, <2>3, <2>5 DEF SettleRecord, Typed, procs
  <1>10. CASE LoadFails
    <2>1. RecordsTyped'
      BY <1>10, HalfLoadedFiles DEF LoadFails, RecordsTyped
    <2> QED
      BY <1>10, <2>1 DEF LoadFails, Typed, procs
  <1> QED
    BY <1>1, <1>2, <1>3, <1>4, <1>5, <1>6, <1>7, <1>8, <1>9, <1>10 DEF InitialiseStep, Failure

LEMMA WorkerStepTyped ==
    ASSUME Typed, WorkerStep
    PROVE  Typed'
  <1> USE TypeFrames
  <1>0. \A t \in {"processing", "completed", "queued", "failed"} : t \in Active \cup Terminal
    BY DEF Active, Terminal
  <1>1. CASE Pick \/ WorkerExit
    <2>1. WorkerTyped'
      BY <1>1 DEF Pick, WorkerExit, WorkerTyped, Loop, Off, Oldest, QueuedIds, RecordsTyped,
                  RecRecord
    <2> QED
      BY <1>1, <2>1 DEF Pick, WorkerExit, Typed
  <1>2. CASE Claim
    <2>0. worker.id \in Ids /\ worker.rev + 1 \in Nat
      BY <1>2 DEF Claim, WorkerTyped
    <2>1. RecordsTyped' /\ CountersTyped'
      BY <1>0, <1>2, <2>0, WritesTyped DEF Claim
    <2>2. CoordTyped' /\ WorkerTyped'
      <3>1. CASE WorkerFatal
        BY <3>1
      <3>2. CASE UNCHANGED coord /\ (\/ worker' = Loop("snapshot", worker.id, worker.rev + 1)
                                     \/ worker' = Loop("waiting", 0, 0))
        BY <2>0, <3>2 DEF WorkerTyped, Loop
      <3> QED
        BY <1>2, <3>1, <3>2 DEF Claim
    <2> QED
      BY <1>2, <2>1, <2>2 DEF Claim, Typed
  <1>3. CASE ReadSnapshot \/ Embed \/ Abort
    <2>1. WorkerTyped'
      BY <1>3, LoopTyped DEF ReadSnapshot, Embed, Abort
    <2>2. CountersTyped'
      BY <1>3 DEF ReadSnapshot, Embed, Abort
    <2> QED
      BY <1>3, <2>1, <2>2 DEF ReadSnapshot, Embed, Abort, Typed
  <1>4. CASE Revalidate
    <2>1. WorkerTyped' /\ CoordTyped'
      BY <1>4, LoopTyped DEF Revalidate
    <2>2. CountersTyped'
      BY <1>4 DEF Revalidate
    <2> QED
      BY <1>4, <2>1, <2>2 DEF Revalidate, Typed
  <1>5. CASE Merge
    <2>0. worker.id \in Ids
      BY <1>5 DEF Merge, WorkerTyped
    <2>1. WorkerTyped' /\ CoordTyped' /\ CountersTyped'
      BY <1>5, LoopTyped DEF Merge
    <2>2. RowsTyped'
      BY <1>5, <2>0 DEF Merge, RowsTyped
    <2> QED
      BY <1>5, <2>1, <2>2 DEF Merge, Typed
  <1>6. CASE PublishEpoch
    <2>0. worker.id \in Ids
      BY <1>6 DEF PublishEpoch, WorkerTyped
    <2>1. WorkerTyped' /\ CoordTyped'
      BY <1>6, LoopTyped DEF PublishEpoch
    <2>2. EpochsTyped' /\ CountersTyped'
      BY <1>6, <2>0, WritesTyped DEF PublishEpoch
    <2> QED
      BY <1>6, <2>1, <2>2 DEF PublishEpoch, Typed
  <1>7. ASSUME NEW t \in {"completed", "queued", "failed"}, worker.id \in Ids, UNCHANGED runs,
               Leave(t, BackToLoop) \/ Leave(t, WorkerFatal)
        PROVE  RecordsTyped' /\ CountersTyped' /\ CoordTyped' /\ WorkerTyped'
    <2>1. RecordsTyped' /\ CountersTyped'
      BY <1>0, <1>7, WritesTyped DEF Leave
    <2>2. BackToLoop => CoordTyped' /\ WorkerTyped'
      BY DEF BackToLoop, WorkerTyped, Idle, Loop
    <2> QED
      BY <1>7, <2>1, <2>2 DEF Leave
  <1>8. CASE Complete \/ Requeue \/ Fail
    <2>0. worker.id \in Ids
      BY <1>8 DEF Complete, Requeue, Fail, WorkerTyped
    <2>1. RecordsTyped' /\ CountersTyped' /\ CoordTyped' /\ WorkerTyped'
      BY <1>7, <1>8, <2>0 DEF Complete, Requeue, Fail
    <2> QED
      BY <1>8, <2>1 DEF Complete, Requeue, Fail, Typed
  <1> QED
    BY <1>1, <1>2, <1>3, <1>4, <1>5, <1>6, <1>8 DEF WorkerStep

LEMMA CreationTyped ==
    ASSUME Typed, Decided, NewIngestion
    PROVE  CreatedTyped' /\ nextId \in Ids /\ Ing(sub.doc, sub.ver, sub.gen) \in IngRecord
  <1> USE TypeFrames
  <1>1. nextId \in Ids /\ Ing(sub.doc, sub.ver, sub.gen) \in IngRecord
    BY DEF CallsTyped, Ing, IngRecord
  <1>2. ing' \in [Ids -> IngRecord]
    BY <1>1 DEF NewIngestion, CreatedTyped
  <1>3. nextId' \in Nat \ {0}
    BY DEF NewIngestion, CreatedTyped
  <1> QED
    BY <1>1, <1>2, <1>3 DEF CreatedTyped

LEMMA CreateTyped ==
    ASSUME Typed, CreateQueued \/ CreateFails \/ CreateCut
    PROVE  Typed'
  <1> USE TypeFrames
  <1>1. CreatedTyped' /\ nextId \in Ids
    BY CreationTyped DEF CreateQueued, CreateFails, CreateCut, Decided
  <1>2. RecordsTyped'
    <2>1. Rec("queued", 0) \in RecRecord
      BY RecordTypes DEF Active
    <2>2. /\ recs' \in [Ids -> RecRecord] /\ dRecs' \in [Ids -> RecRecord]
      BY <2>1 DEF CreateQueued, CreateFails, CreateCut, RecordsTyped
    <2>3. snaps' \subseteq Ids
      BY <1>1 DEF CreateQueued, CreateFails, CreateCut, RecordsTyped
    <2> QED
      BY <2>2, <2>3 DEF CreateQueued, CreateFails, CreateCut, RecordsTyped
  <1>3. CallsTyped'
    <2>1. CASE CreateCut
      BY <2>1 DEF CreateCut
    <2>2. CASE CreateQueued \/ CreateFails
      BY <2>2 DEF CreateQueued, CreateFails, CallsTyped, Decided, Deleting, NoWork, Work
    <2> QED
      BY <2>1, <2>2
  <1>4. WorkerTyped'
    BY DEF CreateQueued, CreateFails, CreateCut, Notified, WorkerTyped, Idle, Loop
  <1> QED
    BY <1>1, <1>2, <1>3, <1>4 DEF CreateQueued, CreateFails, CreateCut, Typed

LEMMA ClientTyped ==
    ASSUME Typed, Client
    PROVE  Typed'
  <1> USE TypeFrames
  <1>1. CASE CreateQueued \/ CreateFails
    BY <1>1, CreateTyped
  <1>2. CASE CreateCompletedHit
    <2>1. CreatedTyped' /\ nextId \in Ids
      BY <1>2, CreationTyped DEF CreateCompletedHit, Decided
    <2>2. RecordsTyped' /\ CountersTyped'
      BY <1>2, <2>1, RecordTypes, PutTyped DEF CreateCompletedHit, Terminal
    <2>3. CallsTyped'
      BY <1>2 DEF CreateCompletedHit, CallsTyped, Decided, Deleting, NoWork, Work
    <2> QED
      BY <1>2, <2>1, <2>2, <2>3 DEF CreateCompletedHit, Typed
  <1>a. ASSUME UNCHANGED <<del, search, created>>,
               \/ sub'.pc \in {"idle", "asked"}
               \/ nextId \in Ids /\ sub'.doc \in Docs /\ sub'.ver \in Versions,
               NEW pc \in {"idle", "asked", "create", "hit"}, NEW d \in Docs \cup {None},
               NEW v \in Versions \cup {None}, NEW g \in Nat, sub' = Work(pc, d, v, g)
        PROVE  CallsTyped'
    BY <1>a DEF CallsTyped, Decided, Deleting, Work, created
  <1>b. nextId <= MaxIngestions => nextId \in Ids
    BY ConstantsAssumption DEF CreatedTyped, Ids, ConstantsAssumption
  <1>3. ASSUME NEW d \in Docs, NEW v \in Versions, SubmitHit(d, v)
        PROVE  Typed'
    <2>1. ing[rows[d]].gen \in Nat
      BY <1>3 DEF SubmitHit, Hit, Shows, RowsTyped, CreatedTyped, IngRecord
    <2>2. nextId \in Ids
      BY <1>3, <1>b DEF SubmitHit, Room
    <2>3. CallsTyped'
      BY <1>3, <1>a, <2>1, <2>2 DEF SubmitHit, Work
    <2> QED
      BY <1>3, <2>3 DEF SubmitHit, Typed
  <1>4. ASSUME NEW d \in Docs, NEW v \in Versions, SubmitMiss(d, v)
        PROVE  Typed'
    <2>1. epochs[d].gen \in Nat
      BY DEF EpochsTyped, EpochRecord
    <2>2. nextId \in Ids
      BY <1>4, <1>b DEF SubmitMiss, Room
    <2>3. CallsTyped'
      BY <1>4, <1>a, <2>1, <2>2 DEF SubmitMiss, Work
    <2> QED
      BY <1>4, <2>3 DEF SubmitMiss, Typed
  <1>5. ASSUME \/ SubmitAsk \/ \E d \in Docs : FindInconsistent(d)
               \/ \E d \in Docs, v \in Versions : SubmitAnswered(d, v)
        PROVE  Typed'
    <2>1. CallsTyped'
      BY <1>5, <1>a DEF SubmitAsk, FindInconsistent, SubmitAnswered, NoWork, Work
    <2>2. CoordTyped'
      BY <1>5 DEF SubmitAsk, FindInconsistent, SubmitAnswered
    <2> QED
      BY <1>5, <2>1, <2>2 DEF SubmitAsk, FindInconsistent, SubmitAnswered, Typed
  <1>6. ASSUME NEW d \in Docs, WriteIntent(d)
        PROVE  Typed'
    <2>1. CoordTyped'
      BY <1>6 DEF WriteIntent
    <2>2. EpochsTyped' /\ CountersTyped'
      BY <1>6, WritesTyped DEF WriteIntent
    <2>3. Intent(d).gen \in Nat
      BY DEF Intent, Epoch, EpochsTyped, EpochRecord
    <2>4. CallsTyped'
      BY <1>6, <2>3 DEF WriteIntent, CallsTyped, Decided, Deleting, NoWork, Work, created
    <2> QED
      BY <1>6, <2>1, <2>2, <2>4 DEF WriteIntent, Typed
  <1>7. ASSUME NEW d \in Docs, SearchVector(d)
        PROVE  Typed'
    <2>1. CallsTyped'
      BY <1>7 DEF SearchVector, CallsTyped, Decided, Deleting, RowsTyped, created
    <2> QED
      BY <1>7, <2>1 DEF SearchVector, Typed
  <1>8. CASE SearchText
    <2>1. CallsTyped'
      BY <1>8 DEF SearchText, CallsTyped, Decided, Deleting, NoSearch, created
    <2> QED
      BY <1>8, <2>1 DEF SearchText, Typed
  <1>9. CASE DeleteRows
    <2>1. CallsTyped'
      <3>1. del' = NoWork \/ (del' = [del EXCEPT !.pc = "epoch"] /\ del.pc = "rows")
        BY <1>9 DEF DeleteRows
      <3>2. /\ del' \in [pc : {"idle", "asked", "rows", "epoch"}, doc : Docs \cup {None},
                         ver : {None}, gen : Nat]
            /\ Deleting' => del'.doc \in Docs
        BY <3>1 DEF CallsTyped, Deleting, NoWork, Work
      <3> QED
        BY <1>9, <3>2 DEF DeleteRows, CallsTyped, Decided, created
    <2>2. RowsTyped'
      BY <1>9 DEF DeleteRows, RowsTyped
    <2>3. CoordTyped' /\ CountersTyped'
      BY <1>9 DEF DeleteRows
    <2> QED
      BY <1>9, <2>1, <2>2, <2>3 DEF DeleteRows, Typed
  <1>10. CASE Acknowledge
    <2>1. CallsTyped'
      BY <1>10 DEF Acknowledge, CallsTyped, Decided, Deleting, NoWork, Work, created
    <2>2. RowsTyped'
      <3>1. nextId - 1 \in Nat
        BY DEF CreatedTyped
      <3> QED
        BY <1>10, <3>1 DEF Acknowledge, RowsTyped
    <2>3. EpochsTyped' /\ CountersTyped'
      <3>1. del.doc \in Docs
        BY <1>10 DEF Acknowledge, CallsTyped, Deleting
      <3> QED
        BY <1>10, <3>1, WritesTyped DEF Acknowledge
    <2>4. CoordTyped'
      BY <1>10 DEF Acknowledge
    <2> QED
      BY <1>10, <2>1, <2>2, <2>3, <2>4 DEF Acknowledge, Typed
  <1>11. ASSUME DeleteAsk \/ \E d \in Docs : DeleteRefused(d)
         PROVE  Typed'
    <2>1. CallsTyped'
      BY <1>11 DEF DeleteAsk, DeleteRefused, CallsTyped, Decided, Deleting, NoWork, Work, created
    <2>2. CoordTyped'
      BY <1>11 DEF DeleteAsk, DeleteRefused
    <2> QED
      BY <1>11, <2>1, <2>2 DEF DeleteAsk, DeleteRefused, Typed
  <1> QED
    BY <1>1, <1>2, <1>3, <1>4, <1>5, <1>6, <1>7, <1>8, <1>9, <1>10, <1>11 DEF Client

(* The crashes inside an operation.                                          *)
LEMMA CrashInsideTyped ==
    ASSUME Typed, CrashInside
    PROVE  Typed'
  <1> USE TypeFrames
  <1>1. CASE CreateCut
    BY <1>1, CreateTyped
  <1>2. CASE CrashInTransition
    <2>1. ASSUME NEW i \in Ids, NEW t, EndWritten(i, t)
          PROVE  dRecs' \in [Ids -> RecRecord]
      BY <2>1, MovedTyped DEF EndWritten, RecordsTyped
    <2>2. /\ worker.pc \in {"complete", "fail", "failfatal"} => worker.id \in Ids
          /\ SettlesRecord => init.held.id \in Ids
      BY DEF WorkerTyped, CoordTyped, SettlesRecord
    <2>3. RecordsTyped'
      BY <1>2, <2>1, <2>2 DEF CrashInTransition, RecordsTyped
    <2> QED
      BY <1>2, <2>3 DEF CrashInTransition, Typed
  <1>3. CASE CrashInLoad
    <2>1. RecordsTyped'
      BY <1>3, HalfLoadedFiles DEF CrashInLoad, RecordsTyped
    <2> QED
      BY <1>3, <2>1 DEF CrashInLoad, Typed
  <1>4. ASSUME NEW i \in Ids, CrashInSweep(i)
        PROVE  Typed'
    BY <1>4 DEF CrashInSweep, RecordsTyped, Typed
  <1>5. ASSUME NEW d \in Docs, CrashInReconcile(d)
        PROVE  Typed'
    <2>1. RowsTyped'
      BY <1>5, WritesTyped DEF CrashInReconcile
    <2> QED
      BY <1>5, <2>1 DEF CrashInReconcile, Typed
  <1> QED
    BY <1>1, <1>2, <1>3, <1>4, <1>5 DEF CrashInside

LEMMA RetentionTyped ==
    ASSUME Typed, Retention
    PROVE  Typed'
  <1> USE TypeFrames
  <1>1. PICK i \in Ids : Expire(i) \/ Sweep(i) \/ SweepFails(i) \/ SweepTombstone(i)
    BY DEF Retention
  <1>2. RecordsTyped'
    <2>1. Gone \in RecRecord
      BY DEF RecRecord, Gone, Rec
    <2>2. recs' \in [Ids -> RecRecord] /\ dRecs' \in [Ids -> RecRecord]
      BY <1>1, <2>1 DEF Expire, Sweep, SweepFails, SweepTombstone, RecordsTyped
    <2>3. /\ snaps' \subseteq Ids /\ tombs' \subseteq Ids /\ dTombs' \subseteq Ids
          /\ expired' \subseteq Ids
      BY <1>1 DEF Expire, Sweep, SweepFails, SweepTombstone, RecordsTyped
    <2> QED
      BY <2>2, <2>3 DEF RecordsTyped
  <1>3. CoordTyped' /\ CountersTyped'
    BY <1>1 DEF Expire, Sweep, SweepFails, SweepTombstone
  <1> QED
    BY <1>1, <1>2, <1>3 DEF Expire, Sweep, SweepFails, SweepTombstone, Typed, procs

LEMMA TypeStep == Typed /\ [Next]_vars => Typed'
  <1> SUFFICES ASSUME Typed, [Next]_vars PROVE Typed'
    OBVIOUS
  <1> USE TypeFrames
  <1>1. CASE Start \/ Stop
    <2>1. CoordTyped'
      BY <1>1 DEF Start, Stop, CoordTyped, Settling
    <2>2. CountersTyped'
      BY <1>1 DEF Start, Stop, CountersTyped
    <2> QED
      BY <1>1, <2>1, <2>2 DEF Start, Stop, Typed, procs
  <1>2. CASE Crash \/ Exit
    BY <1>2 DEF Crash, Exit, Typed
  <1>3. CASE UNCHANGED vars
    BY <1>3 DEF vars, procs, Typed
  <1> QED
    BY <1>1, <1>2, <1>3, InitialiseTyped, WorkerStepTyped, ClientTyped, RetentionTyped,
       CrashInsideTyped DEF Next

(* Every variable has the type the code gives it, and a call that is under   *)
(* way names the document and the ingestion it is about.                     *)
THEOREM TypeCorrect == Spec => []TypeOK
  <1>1. Spec => []Typed
    BY TypeInit, TypeStep, PTL DEF Spec
  <1> QED
    BY <1>1, TypedIsTypeOK, PTL

----------------------------------------------------------------------------
(* Why no deletion is undone.  The generation of a document never goes back: *)
(* memory never knows more than the files.  A deletion is acknowledged with  *)
(* the generation it wrote, and every ingestion of the document accepted by  *)
(* then has an older one, so that it is fenced off from then on.             *)

Born(i, d) == i < nextId /\ ing[i].doc = d

Known == \A i \in Ids :
    /\ recs[i].status # "absent" \/ dRecs[i].status # "absent" => i < nextId
    /\ i < nextId => ing[i].doc \in Docs

MemoryLagsFiles == \A d \in Docs : epochs[d].gen <= dEpochs[d].gen

Accepted ==
    /\ \A d \in Docs : buried[d] < nextId
    /\ \A d \in Docs, i \in Ids : Born(i, d) => ing[i].gen <= epochs[d].gen
    /\ Decided => sub.gen <= epochs[sub.doc].gen

BuriedFenced == \A d \in Docs, i \in Ids :
    Born(i, d) /\ i <= buried[d] => ing[i].gen < epochs[d].gen

RowsBelong == \A d \in Docs : rows[d] # 0 => Born(rows[d], d)

DeletionFences == Deleting =>
    /\ (Decided => del.doc # sub.doc) /\ ~Publishing
    /\ del.pc = "epoch" => rows[del.doc] = 0
    /\ \A i \in Ids : Born(i, del.doc) => ing[i].gen < del.gen

PublisherIsNew == Publishing =>
    LET d == ing[worker.id].doc IN
    d \in Docs /\ Born(worker.id, d) /\ worker.id > buried[d]

SearchAlone == search # NoSearch => ~Writing /\ rows[search.doc] = search.seen

SettlesAlone == Settling => init.held.id < nextId /\ ~Publishing /\ ~Deleting

Fencing ==
    /\ MemoryLagsFiles /\ Accepted /\ BuriedFenced /\ RowsBelong /\ DeletionFences
    /\ PublisherIsNew /\ SearchAlone /\ SettlesAlone /\ NoResurrection

Inv == Typed /\ Known /\ Fencing

LEMMA FencingInit == Init => Fencing
  <1> SUFFICES ASSUME Init PROVE Fencing
    OBVIOUS
  <1>1. /\ worker.pc = "off" /\ ~Decided /\ ~Deleting /\ ~Settling /\ search = NoSearch
        /\ nextId = 1 /\ \A d \in Docs : rows[d] = 0 /\ buried[d] = 0
        /\ \A d \in Docs : epochs[d] = dEpochs[d] /\ epochs[d].gen = 0
    BY DEF Init, Off, Loop, NoWork, Work, Epoch, Decided, Deleting, Settling, NoInit, Initialising
  <1>2. \A i \in Ids : \A d : ~Born(i, d)
    BY <1>1 DEF Born, Ids
  <1> QED
    BY <1>1, <1>2 DEF Fencing, MemoryLagsFiles, Accepted, BuriedFenced, RowsBelong,
                      DeletionFences, PublisherIsNew, SearchAlone, SettlesAlone,
                      NoResurrection, Publishing

(* The worker stays with the publication it is in, or is in none.            *)
StaysOrLeaves == Publishing' => Publishing /\ worker'.id = worker.id

(* Generations only grow.                                                    *)
GenerationsGrow == \A d \in Docs : epochs[d].gen <= epochs'[d].gen

(* The initialisation stays with what it settles, or settles nothing.        *)
SettlementStays == Settling' => Settling /\ init'.held = init.held

LEMMA SettlementFrame ==
    ASSUME \/ UNCHANGED init \/ UNCHANGED coord
           \/ Degraded \/ WorkerFatal \/ InitFailed \/ Down
    PROVE  SettlementStays
  BY DEF SettlementStays, Settling, coord, Degraded, WorkerFatal, InitFailed, Down, NoInit,
         Initialising

(* A call stays where it is, or holds nothing.                               *)
CallsStay ==
    /\ sub' = sub \/ sub'.pc \in {"idle", "asked"}
    /\ del' = del \/ del'.pc \in {"idle", "asked"}

LEMMA CallsFrame ==
    ASSUME sub' = sub \/ sub' = NoWork \/ sub' = Work("asked", None, None, 0),
           del' = del \/ del' = NoWork \/ del' = Work("asked", None, None, 0)
    PROVE  CallsStay
  BY DEF CallsStay, NoWork, Work

(* What reads and writes neither the table nor the ingestions, and enters no *)
(* critical section, keeps the fence when no generation goes back.           *)
LEMMA FenceKept ==
    ASSUME Inv, Typed', StaysOrLeaves, SettlementStays, CallsStay, GenerationsGrow,
           MemoryLagsFiles', UNCHANGED <<rows, buried, ing, nextId, search>>
    PROVE  Fencing'
  <1>1. /\ \A d \in Docs : epochs[d].gen \in Nat /\ epochs'[d].gen \in Nat
        /\ \A i \in Ids : ing[i].gen \in Nat
        /\ Decided => sub.doc \in Docs /\ sub.gen \in Nat
    BY DEF Inv, Typed, EpochsTyped, EpochRecord, CreatedTyped, IngRecord, CallsTyped
  <1>2. (Decided' => Decided /\ sub' = sub) /\ (Deleting' => Deleting /\ del' = del)
    BY DEF CallsStay, Decided, Deleting
  <1>3. Accepted' /\ BuriedFenced'
    BY <1>1, <1>2 DEF Inv, Fencing, Accepted, BuriedFenced, Born, GenerationsGrow
  <1>4. RowsBelong' /\ SearchAlone' /\ NoResurrection'
    BY <1>2 DEF Inv, Fencing, RowsBelong, SearchAlone, NoResurrection, Born,
                StaysOrLeaves, SettlementStays, Writing
  <1>5. DeletionFences'
    BY <1>2 DEF Inv, Fencing, DeletionFences, Born, StaysOrLeaves
  <1>6. PublisherIsNew'
    BY DEF Inv, Fencing, PublisherIsNew, Born, StaysOrLeaves
  <1>7. SettlesAlone'
    BY <1>2 DEF Inv, Fencing, SettlesAlone, StaysOrLeaves, SettlementStays
  <1> QED
    BY <1>3, <1>4, <1>5, <1>6, <1>7 DEF Fencing

(* A process that is gone holds no call; rows may go with it, none come.     *)
LEMMA FenceSurvivesDown ==
    ASSUME Inv, Down, UNCHANGED <<buried, ing, nextId, epochal>>,
           \A d \in Docs : rows'[d] = rows[d] \/ rows'[d] = 0
    PROVE  Fencing'
  <1>1. worker'.pc = "off" /\ ~Decided' /\ ~Deleting' /\ ~Settling' /\ search' = NoSearch
    BY DEF Down, Off, Loop, NoWork, Work, Decided, Deleting, Settling, NoInit, Initialising
  <1>2. Accepted' /\ BuriedFenced' /\ MemoryLagsFiles' /\ RowsBelong' /\ NoResurrection'
    BY <1>1 DEF Inv, Fencing, Accepted, BuriedFenced, MemoryLagsFiles, RowsBelong, NoResurrection,
                Born, epochal
  <1>3. DeletionFences' /\ PublisherIsNew' /\ SearchAlone' /\ SettlesAlone'
    BY <1>1 DEF DeletionFences, PublisherIsNew, SearchAlone, SettlesAlone, Publishing
  <1> QED
    BY <1>2, <1>3 DEF Fencing

(* A new ingestion has a generation its document has reached.                *)
LEMMA FenceKeptByCreation ==
    ASSUME Inv, Decided, NewIngestion, UNCHANGED <<rows, buried, epochs>>,
           MemoryLagsFiles', sub'.pc = "idle", StaysOrLeaves, SettlementStays,
           \/ UNCHANGED <<del, search>>
           \/ del' = NoWork /\ search' = NoSearch /\ ~Publishing'
    PROVE  Fencing'
  <1>1. /\ nextId \in Ids /\ sub.doc \in Docs /\ sub.gen \in Nat
        /\ nextId \in Nat /\ nextId' = nextId + 1
        /\ \A d \in Docs : buried[d] \in Nat /\ epochs[d].gen \in Nat
        /\ \A d \in Docs : rows[d] \in Ids \cup {0}
        /\ Ids \subseteq Nat \ {0}
    BY DEF Inv, Typed, CallsTyped, CreatedTyped, RowsTyped, EpochsTyped, EpochRecord,
           NewIngestion, Ids
  <1>2. \A i \in Ids : ing'[i] = IF i = nextId THEN Ing(sub.doc, sub.ver, sub.gen) ELSE ing[i]
    BY <1>1 DEF NewIngestion, Inv, Typed, CreatedTyped
  <1>3. \A i \in Ids, d \in Docs : Born(i, d)' <=> Born(i, d) \/ (i = nextId /\ d = sub.doc)
    BY <1>1, <1>2 DEF Born, Ing
  <1>4. \A i \in Ids : i # nextId => ing'[i] = ing[i]
    BY <1>2
  <1>5. ing'[nextId].gen = sub.gen
    BY <1>1, <1>2 DEF Ing
  <1>a. ~Decided'
    BY DEF Decided
  <1>6. Accepted'
    <2>1. sub.gen <= epochs[sub.doc].gen /\ \A d \in Docs : buried[d] < nextId'
      BY <1>1 DEF Inv, Fencing, Accepted
    <2>2. ASSUME NEW d \in Docs, NEW i \in Ids, Born(i, d)'
          PROVE  ing'[i].gen <= epochs'[d].gen
      <3>1. CASE i = nextId
        BY <1>1, <1>3, <1>5, <2>1, <2>2, <3>1 DEF Born
      <3>2. CASE i # nextId
        BY <1>3, <1>4, <2>2, <3>2 DEF Inv, Fencing, Accepted
      <3> QED
        BY <3>1, <3>2
    <2> QED
      BY <1>a, <2>1, <2>2 DEF Accepted
  <1>7. BuriedFenced'
    <2>1. ASSUME NEW d \in Docs, NEW i \in Ids, Born(i, d)', i <= buried[d]
          PROVE  ing'[i].gen < epochs'[d].gen
      <3>1. i # nextId
        BY <1>1, <2>1 DEF Inv, Fencing, Accepted
      <3> QED
        BY <1>3, <1>4, <2>1, <3>1 DEF Inv, Fencing, BuriedFenced
    <2> QED
      BY <2>1 DEF BuriedFenced
  <1>8. RowsBelong' /\ NoResurrection'
    <2>1. \A d \in Docs : rows[d] # 0 => Born(rows[d], d)'
      BY <1>1, <1>3 DEF Inv, Fencing, RowsBelong
    <2> QED
      BY <2>1 DEF Inv, Fencing, RowsBelong, NoResurrection
  <1>9. DeletionFences'
    <2>1. CASE del' = NoWork
      BY <2>1 DEF DeletionFences, Deleting, NoWork, Work
    <2>2. ASSUME UNCHANGED del, Deleting
          PROVE  /\ ~Publishing'
                 /\ del.pc = "epoch" => rows[del.doc] = 0
                 /\ \A i \in Ids : Born(i, del.doc)' => ing'[i].gen < del.gen
      <3>1. del.doc \in Docs /\ del.doc # sub.doc
        BY <2>2 DEF Inv, Typed, CallsTyped, Fencing, DeletionFences
      <3>3. ~Publishing' /\ (del.pc = "epoch" => rows[del.doc] = 0)
        BY <2>2 DEF Inv, Fencing, DeletionFences, StaysOrLeaves
      <3>4. ASSUME NEW i \in Ids, Born(i, del.doc)'
            PROVE  ing'[i].gen < del.gen
        <4>1. Born(i, del.doc) /\ i # nextId
          BY <1>1, <1>3, <2>2, <3>1, <3>4 DEF Born
        <4> QED
          BY <1>4, <2>2, <4>1 DEF Inv, Fencing, DeletionFences
      <3> QED
        BY <3>3, <3>4
    <2>3. CASE UNCHANGED del /\ Deleting
      BY <1>a, <2>2, <2>3 DEF DeletionFences, Decided
    <2>4. CASE UNCHANGED del /\ ~Deleting
      BY <2>4 DEF DeletionFences, Deleting
    <2> QED
      BY <2>1, <2>3, <2>4
  <1>10. PublisherIsNew'
    <2>1. ASSUME Publishing'
          PROVE  /\ worker'.id = worker.id /\ worker.id < nextId'
                 /\ ing'[worker.id].doc \in Docs /\ worker.id > buried[ing'[worker.id].doc]
      <3>1. /\ worker.id \in Ids /\ worker.id < nextId /\ worker'.id = worker.id
            /\ ing[worker.id].doc \in Docs /\ worker.id > buried[ing[worker.id].doc]
        BY <2>1 DEF StaysOrLeaves, Publishing, Inv, Typed, WorkerTyped, Fencing, PublisherIsNew,
                    Born
      <3>2. worker.id # nextId /\ worker.id < nextId'
        <4>1. worker.id \in Nat
          BY <1>1, <3>1
        <4> QED
          BY <1>1, <3>1, <4>1
      <3>3. ing'[worker.id] = ing[worker.id]
        BY <1>4, <3>1, <3>2
      <3> QED
        BY <3>1, <3>2, <3>3
    <2> QED
      BY <2>1 DEF PublisherIsNew, Born
  <1>11. SearchAlone' /\ SettlesAlone'
    <2>1. Deleting' => Deleting
      BY DEF Deleting, NoWork, Work
    <2>2. SearchAlone'
      BY <2>1 DEF Inv, Fencing, SearchAlone, StaysOrLeaves, SettlementStays, Writing
    <2>3. Settling' => init'.held.id < nextId'
      <3>1. Settling' => Settling /\ init'.held = init.held
        BY DEF SettlementStays
      <3>2. init.held.id \in Nat
        BY DEF Inv, Typed, CoordTyped, Ids
      <3> QED
        BY <1>1, <3>1, <3>2 DEF Inv, Fencing, SettlesAlone
    <2> QED
      BY <2>1, <2>2, <2>3 DEF Inv, Fencing, SettlesAlone, StaysOrLeaves, SettlementStays
  <1> QED
    BY <1>6, <1>7, <1>8, <1>9, <1>10, <1>11 DEF Fencing

----------------------------------------------------------------------------
(* A record, in memory or in a file, is that of an ingestion that exists.    *)

RecordsFrame == \A i \in Ids :
    recs'[i].status # "absent" \/ dRecs'[i].status # "absent"
    => recs[i].status # "absent" \/ dRecs[i].status # "absent"

LEMMA KnownFrame ==
    ASSUME Known, UNCHANGED created, RecordsFrame
    PROVE  Known'
  BY DEF Known, RecordsFrame, created

LEMMA PutFrame ==
    ASSUME Typed, NEW i \in Ids, recs[i].status # "absent", NEW r, Put(i, r) \/ PutFails(i, r)
    PROVE  RecordsFrame
  BY DEF Typed, RecordsTyped, Put, PutFails, RecordsFrame

LEMMA CreationKnown ==
    ASSUME Typed, Known, Decided, NewIngestion, NEW r,
           recs' \in {recs, [recs EXCEPT ![nextId] = r]},
           dRecs' \in {dRecs, [dRecs EXCEPT ![nextId] = r]}
    PROVE  Known'
  <1>1. /\ nextId \in Ids /\ nextId \in Nat /\ nextId' = nextId + 1 /\ sub.doc \in Docs
        /\ Ids \subseteq Nat
        /\ \A i \in Ids : ing'[i] = IF i = nextId THEN Ing(sub.doc, sub.ver, sub.gen) ELSE ing[i]
    BY DEF Typed, CallsTyped, CreatedTyped, NewIngestion, Ids
  <1>2. ASSUME NEW i \in Ids
        PROVE  /\ recs'[i].status # "absent" \/ dRecs'[i].status # "absent" => i < nextId'
               /\ i < nextId' => ing'[i].doc \in Docs
    <2>1. CASE i = nextId
      BY <1>1, <2>1 DEF Ing
    <2>2. CASE i # nextId
      <3>1. recs'[i] = recs[i] /\ dRecs'[i] = dRecs[i] /\ ing'[i] = ing[i]
        BY <1>1, <2>2 DEF Typed, RecordsTyped
      <3>2. i < nextId' <=> i < nextId
        BY <1>1, <2>2
      <3> QED
        BY <3>1, <3>2 DEF Known
    <2> QED
      BY <2>1, <2>2
  <1> QED
    BY <1>2 DEF Known

LEMMA KnownInit == Init => Known
  BY DEF Init, Known, Gone, Rec, Ids

LEMMA KnownStep == Typed /\ Known /\ [Next]_vars => Known'
  <1> SUFFICES ASSUME Typed, Known, [Next]_vars PROVE Known'
    OBVIOUS
  <1>a. UNCHANGED records => RecordsFrame
    BY DEF records, RecordsFrame
  <1>b. worker.pc \notin {"off", "idle", "waiting"} => worker.id \in Ids
    BY DEF Typed, WorkerTyped
  <1>1. CASE Start \/ Stop \/ Crash \/ Exit \/ UNCHANGED vars
    BY <1>1, <1>a, KnownFrame DEF Start, Stop, Crash, Exit, vars
  <1>c. HalfLoaded /\ UNCHANGED recs => RecordsFrame
    BY HalfLoadedFiles DEF RecordsFrame, Typed, Active
  <1>2. CASE InitialiseStep \/ Failure
    <2>1. CASE Load
      <3>1. \A i \in Ids : recs'[i].status # "absent" \/ dRecs'[i].status # "absent"
                           => dRecs[i].status # "absent"
        BY <2>1 DEF Load, Repair, Loaded, Duplicates, LoadedActive, Active, Gone, Rec
      <3> QED
        BY <2>1, <3>1, KnownFrame DEF Load, RecordsFrame
    <2>2. CASE LoadFails
      BY <2>2, <1>c, KnownFrame DEF LoadFails
    <2>3. CASE InitIndex \/ Finish
      BY <2>3, <1>a, KnownFrame DEF InitIndex, Finish
    <2>4. ASSUME NEW d \in Docs, ReconcileDelete(d) \/ ReconcileDeleteFails(d)
          PROVE  Known'
      BY <2>4, <1>a, KnownFrame DEF ReconcileDelete, ReconcileDeleteFails
    <2>5. ASSUME NEW c \in init.recover, RecoverSkip(c) \/ RecoverLock(c)
          PROVE  Known'
      BY <2>5, <1>a, KnownFrame DEF RecoverSkip, RecoverLock
    <2>6. CASE SettleImpossible \/ SettleEpoch \/ SettleRejected
      BY <2>6, <1>a, KnownFrame DEF SettleImpossible, SettleEpoch, SettleRejected
    <2>7. CASE SettleRecord
      <3>1. /\ UNCHANGED created /\ init.held.id \in Ids
            /\ recs[init.held.id].status # "absent"
        BY <2>7 DEF SettleRecord, SettlesRecord, Unmoved, Rec, Typed, CoordTyped
      <3>2. \E r : Put(init.held.id, r) \/ PutFails(init.held.id, r)
        BY <2>7 DEF SettleRecord
      <3> QED
        BY <3>1, <3>2, KnownFrame, PutFrame
    <2> QED
      BY <1>2, <2>1, <2>2, <2>3, <2>4, <2>5, <2>6, <2>7 DEF InitialiseStep, Failure
  <1>3. CASE WorkerStep
    <2>1. UNCHANGED created
      BY <1>3 DEF WorkerStep, Pick, WorkerExit, Claim, ReadSnapshot, Embed, Abort, Revalidate,
                  Merge, PublishEpoch, Complete, Requeue, Fail
    <2>2. \A t, next : Leave(t, next) =>
              \/ UNCHANGED records
              \/ Holds /\ \E r : Put(worker.id, r) \/ PutFails(worker.id, r)
      BY DEF Leave
    <2>3. \/ UNCHANGED records
          \/ /\ worker.id \in Ids /\ recs[worker.id].status # "absent"
             /\ \E r : Put(worker.id, r) \/ PutFails(worker.id, r)
      <3>1. CASE Claim
        BY <1>b, <3>1 DEF Claim, Rec
      <3>2. CASE Complete \/ Requeue \/ Fail
        BY <1>b, <2>2, <3>2 DEF Complete, Requeue, Fail, Holds, Rec
      <3> QED
        BY <1>3, <3>1, <3>2 DEF WorkerStep, Pick, WorkerExit, ReadSnapshot, Embed, Abort,
                                Revalidate, Merge, PublishEpoch
    <2> QED
      BY <1>a, <2>1, <2>3, KnownFrame, PutFrame
  <1>4. CASE Client
    <2>1. CASE CreateQueued \/ CreateFails
      <3>1. /\ Decided /\ NewIngestion
            /\ recs' \in {recs, [recs EXCEPT ![nextId] = Rec("queued", 0)]}
            /\ dRecs' \in {dRecs, [dRecs EXCEPT ![nextId] = Rec("queued", 0)]}
        BY <2>1 DEF CreateQueued, CreateFails, Decided
      <3> QED
        BY <3>1, CreationKnown
    <2>2. CASE CreateCompletedHit
      <3>1. /\ Decided /\ NewIngestion
            /\ recs' \in {recs, [recs EXCEPT ![nextId] = Rec("completed", 0)]}
            /\ dRecs' \in {dRecs, [dRecs EXCEPT ![nextId] = Rec("completed", 0)]}
        BY <2>2 DEF CreateCompletedHit, Put, PutFails, Decided
      <3> QED
        BY <3>1, CreationKnown
    <2>3. ASSUME NEW d \in Docs,
                 \/ \E v \in Versions :
                       SubmitHit(d, v) \/ SubmitMiss(d, v) \/ SubmitAnswered(d, v)
                 \/ FindInconsistent(d) \/ DeleteRefused(d) \/ WriteIntent(d) \/ SearchVector(d)
          PROVE  Known'
      BY <2>3, <1>a, KnownFrame DEF SubmitHit, SubmitMiss, SubmitAnswered, FindInconsistent,
                                    DeleteRefused, WriteIntent, SearchVector
    <2>4. CASE SubmitAsk \/ DeleteAsk \/ DeleteRows \/ Acknowledge \/ SearchText
      BY <2>4, <1>a, KnownFrame DEF SubmitAsk, DeleteAsk, DeleteRows, Acknowledge, SearchText
    <2> QED
      BY <1>4, <2>1, <2>2, <2>3, <2>4 DEF Client
  <1>5. CASE Retention
    <2>1. PICK i \in Ids : Expire(i) \/ Sweep(i) \/ SweepFails(i) \/ SweepTombstone(i)
      BY <1>5 DEF Retention
    <2>2. RecordsFrame
      BY <2>1 DEF Expire, Sweep, SweepFails, SweepTombstone, RecordsFrame, Typed, RecordsTyped,
                  Gone, Rec
    <2> QED
      BY <2>1, <2>2, KnownFrame DEF Expire, Sweep, SweepFails, SweepTombstone
  <1>6. CASE CrashInside
    <2>1. CASE CreateCut
      <3>1. /\ Decided /\ NewIngestion /\ recs' = recs
            /\ dRecs' \in {dRecs, [dRecs EXCEPT ![nextId] = Rec("queued", 0)]}
        BY <2>1 DEF CreateCut, Decided
      <3> QED
        BY <3>1, CreationKnown
    <2>2. CASE CrashInTransition
      <3>1. PICK i \in Ids : \E s : recs[i].status # "absent" /\ EndWritten(i, s)
        BY <1>b, <2>2 DEF CrashInTransition, Holds, SettlesRecord, Unmoved, Rec, Typed, CoordTyped
      <3> QED
        BY <2>2, <3>1, KnownFrame DEF CrashInTransition, EndWritten, RecordsFrame, Typed,
                                      RecordsTyped
    <2>3. CASE CrashInLoad
      BY <2>3, <1>c, KnownFrame DEF CrashInLoad
    <2>4. ASSUME NEW i \in Ids, CrashInSweep(i)
          PROVE  Known'
      BY <2>4, KnownFrame DEF CrashInSweep, RecordsFrame
    <2>5. ASSUME NEW d \in Docs, CrashInReconcile(d)
          PROVE  Known'
      BY <2>5, <1>a, KnownFrame DEF CrashInReconcile
    <2> QED
      BY <1>6, <2>1, <2>2, <2>3, <2>4, <2>5 DEF CrashInside
  <1> QED
    BY <1>1, <1>2, <1>3, <1>4, <1>5, <1>6 DEF Next

----------------------------------------------------------------------------
(* The fence, one step per action that touches it.                           *)

LEMMA EpochWriteAdvances ==
    ASSUME Inv, NEW d \in Docs, NEW e \in EpochRecord, e.gen >= epochs[d].gen,
           PutEpoch(d, e) \/ PutEpochFails(d, e)
    PROVE  GenerationsGrow /\ MemoryLagsFiles'
  <1>1. epochs \in [Docs -> EpochRecord] /\ dEpochs \in [Docs -> EpochRecord]
    BY DEF Inv, Typed, EpochsTyped
  <1>2. \A c \in Docs : epochs[c].gen \in Nat /\ dEpochs[c].gen \in Nat /\ e.gen \in Nat
    BY <1>1 DEF EpochRecord
  <1>3. \A c \in Docs : epochs'[c] = epochs[c] \/ (c = d /\ epochs'[c] = e /\ dEpochs'[c] = e)
    BY <1>1 DEF PutEpoch, PutEpochFails
  <1>4. \A c \in Docs : dEpochs'[c] = dEpochs[c] \/ (c = d /\ dEpochs'[c] = e)
    BY <1>1 DEF PutEpoch, PutEpochFails
  <1> QED
    BY <1>2, <1>3, <1>4 DEF Inv, Fencing, MemoryLagsFiles, GenerationsGrow

LEMMA EpochsSame ==
    ASSUME Inv, UNCHANGED epochal
    PROVE  GenerationsGrow /\ MemoryLagsFiles'
  <1>1. \A d \in Docs : epochs[d].gen \in Nat
    BY DEF Inv, Typed, EpochsTyped, EpochRecord
  <1> QED
    BY <1>1 DEF Inv, Fencing, MemoryLagsFiles, GenerationsGrow, epochal

(* Rows that are removed under the write lock are missed by nobody.          *)
LEMMA FenceKeptByRemoval ==
    ASSUME Inv, Typed', NEW d \in Docs, ~Writing, search = NoSearch, GenerationsGrow,
           MemoryLagsFiles', rows' = [rows EXCEPT ![d] = 0], SettlementStays,
           UNCHANGED <<buried, ing, nextId, worker, sub, del, search>>
    PROVE  Fencing'
  <1>1. /\ \A c \in Docs : epochs[c].gen \in Nat /\ epochs'[c].gen \in Nat
        /\ \A i \in Ids : ing[i].gen \in Nat
        /\ Decided => sub.doc \in Docs /\ sub.gen \in Nat
        /\ \A c \in Docs : rows'[c] = IF c = d THEN 0 ELSE rows[c]
    BY DEF Inv, Typed, EpochsTyped, EpochRecord, CreatedTyped, IngRecord, CallsTyped, RowsTyped
  <1>2. Accepted' /\ BuriedFenced'
    BY <1>1 DEF Inv, Fencing, Accepted, BuriedFenced, Born, GenerationsGrow, Decided
  <1>3. RowsBelong' /\ NoResurrection'
    BY <1>1 DEF Inv, Fencing, RowsBelong, NoResurrection, Born
  <1>4. DeletionFences' /\ SearchAlone' /\ PublisherIsNew' /\ SettlesAlone'
    BY DEF DeletionFences, SearchAlone, PublisherIsNew, SettlesAlone, Writing, Publishing,
           Deleting, SettlementStays
  <1> QED
    BY <1>2, <1>3, <1>4 DEF Fencing

(* The publication is entered with the generation the document has: what the *)
(* ingestion was accepted after is every acknowledged deletion.              *)
LEMMA FenceEntered ==
    ASSUME Inv, Revalidate, Goto("merge"), Typed'
    PROVE  Fencing'
  <1> DEFINE i == worker.id
             d == ing[i].doc
  <1>1. i \in Ids /\ ~Stale(i) /\ CanWrite(d) /\ worker' = [worker EXCEPT !.pc = "merge"]
        /\ worker.pc = "publish"
    BY DEF Revalidate, Inv, Typed, WorkerTyped, Goto, WorkerFatal, Off, Loop, Lock
  <1>2. recs[i].status = "processing" /\ epochs[d].gen = ing[i].gen
    BY <1>1 DEF Stale, StillOwns
  <1>3. i < nextId /\ d \in Docs
    BY <1>1, <1>2 DEF Inv, Known
  <1>4. i > buried[d]
    <2>1. ~(i <= buried[d])
      <3>1. epochs[d].gen \in Nat
        BY <1>3 DEF Inv, Typed, EpochsTyped, EpochRecord
      <3> QED
        BY <1>1, <1>2, <1>3, <3>1 DEF Inv, Fencing, BuriedFenced, Born
    <2>2. i \in Nat /\ buried[d] \in Nat
      BY <1>1, <1>3 DEF Inv, Typed, RowsTyped, Ids
    <2> QED
      BY <2>1, <2>2
  <1>5. worker'.id = i
    BY <1>1 DEF Inv, Typed, WorkerTyped
  <1>6. ~Deleting /\ ~Settling /\ search = NoSearch
    BY <1>1 DEF CanWrite, CanRead, Writing
  <1>7. UNCHANGED <<rows, buried, ing, nextId, epochs, dEpochs, sub, del, search>>
    BY DEF Revalidate, created, epochal
  <1>8. Accepted' /\ BuriedFenced' /\ MemoryLagsFiles' /\ RowsBelong' /\ NoResurrection'
    BY <1>7 DEF Inv, Fencing, Accepted, BuriedFenced, MemoryLagsFiles, RowsBelong, NoResurrection,
                Born, Decided
  <1>9. DeletionFences' /\ SearchAlone' /\ SettlesAlone'
    <2>1. SettlementStays
      BY SettlementFrame DEF Revalidate, coord
    <2> QED
      BY <1>6, <1>7, <2>1 DEF DeletionFences, Deleting, SearchAlone, SettlesAlone, SettlementStays
  <1>10. PublisherIsNew'
    BY <1>3, <1>4, <1>5, <1>7 DEF PublisherIsNew, Born
  <1> QED
    BY <1>8, <1>9, <1>10 DEF Fencing

LEMMA FenceKeptByMerge ==
    ASSUME Inv, Merge, Typed'
    PROVE  Fencing'
  <1> DEFINE i == worker.id
             d == ing[i].doc
  <1>1. /\ Publishing /\ i \in Ids /\ d \in Docs /\ i < nextId /\ i > buried[d]
        /\ ~Deleting /\ ~Settling /\ search = NoSearch
    BY DEF Merge, Publishing, Inv, Typed, WorkerTyped, CallsTyped, Fencing, PublisherIsNew,
           DeletionFences, SearchAlone, SettlesAlone, Writing, Born
  <1>2. \A c \in Docs : rows'[c] = rows[c] \/ (c = d /\ rows'[c] = i)
    BY DEF Merge, Inv, Typed, RowsTyped
  <1>3. UNCHANGED <<buried, ing, nextId, epochs, dEpochs, sub, del, search>>
    BY DEF Merge, created, epochal
  <1>4. Accepted' /\ BuriedFenced' /\ MemoryLagsFiles'
    BY <1>3 DEF Inv, Fencing, Accepted, BuriedFenced, MemoryLagsFiles, Born, Decided
  <1>5. RowsBelong' /\ NoResurrection'
    BY <1>1, <1>2, <1>3 DEF Inv, Fencing, RowsBelong, NoResurrection, Born
  <1>6. DeletionFences' /\ SearchAlone' /\ SettlesAlone'
    <2>1. SettlementStays
      BY SettlementFrame DEF Merge
    <2> QED
      BY <1>1, <1>3, <2>1 DEF DeletionFences, Deleting, SearchAlone, SettlesAlone, SettlementStays
  <1>7. PublisherIsNew'
    <2>1. Publishing' => worker'.id = i
      BY DEF Merge, Goto, WorkerFatal, Off, Loop, Publishing, Inv, Typed, WorkerTyped
    <2> QED
      BY <1>1, <1>3, <2>1 DEF PublisherIsNew, Born
  <1> QED
    BY <1>4, <1>5, <1>6, <1>7 DEF Fencing

LEMMA FenceKeptByStart ==
    ASSUME Inv, Typed', InitialiseStep \/ Failure
    PROVE  Fencing'
  <1>a. epochs \in [Docs -> EpochRecord] /\ dEpochs \in [Docs -> EpochRecord]
    BY DEF Inv, Typed, EpochsTyped
  <1>b. \A d \in Docs : epochs[d].gen \in Nat /\ dEpochs[d].gen \in Nat
    BY <1>a DEF EpochRecord
  <1>1. CASE Load
    <2>1. GenerationsGrow /\ MemoryLagsFiles'
      BY <1>1, <1>b DEF Load, Inv, Fencing, MemoryLagsFiles, GenerationsGrow
    <2>2. SettlementStays
      BY <1>1 DEF Load, SettlementStays, Settling, Initialising
    <2> QED
      BY <1>1, <2>1, <2>2, FenceKept DEF Load, created, procs, StaysOrLeaves, Publishing, CallsStay
  <1>2. CASE InitIndex \/ LoadFails
    <2>1. SettlementStays
      <3>1. CASE init' = [init EXCEPT !.pc = "reconcile"]
        BY <3>1 DEF SettlementStays, Settling, Inv, Typed, CoordTyped
      <3> QED
        BY <1>2, <3>1, SettlementFrame DEF InitIndex, LoadFails
    <2> QED
      BY <1>2, <2>1, EpochsSame, FenceKept DEF InitIndex, LoadFails, created, procs, StaysOrLeaves,
                                               Publishing, CallsStay
  <1>3. CASE Finish
    <2>1. SettlementStays
      BY <1>3 DEF Finish, SettlementStays, Settling, NoInit, Initialising
    <2> QED
      BY <1>3, <2>1, EpochsSame, FenceKept DEF Finish, created, StaysOrLeaves, Publishing, Idle,
                                               Loop, CallsStay
  <1>4. ASSUME NEW d \in Docs, ReconcileDelete(d) \/ ReconcileDeleteFails(d)
        PROVE  Fencing'
    <2>1. GenerationsGrow /\ MemoryLagsFiles'
      <3>1. DeletedEpoch(d) \in EpochRecord /\ DeletedEpoch(d).gen = epochs[d].gen
        BY EpochsOfTyped DEF Inv, Typed, DeletedEpoch, Epoch
      <3>2. \/ UNCHANGED epochal
            \/ PutEpoch(d, DeletedEpoch(d)) \/ PutEpochFails(d, DeletedEpoch(d))
        BY <1>4 DEF ReconcileDelete, ReconcileDeleteFails
      <3> QED
        BY <1>b, <3>1, <3>2, EpochsSame, EpochWriteAdvances
    <2>2. /\ rows' \in {rows, [rows EXCEPT ![d] = 0]} /\ CanWrite(d)
          /\ UNCHANGED <<buried, ing, nextId, worker, sub, del, search>>
      BY <1>4 DEF ReconcileDelete, ReconcileDeleteFails, created, procs
    <2>3. SettlementStays
      <3>1. CASE init' = [init EXCEPT !.deletes = @ \ {d}]
        BY <1>4, <3>1 DEF ReconcileDelete, ReconcileDeleteFails, SettlementStays, Settling, Inv,
                          Typed, CoordTyped
      <3> QED
        BY <1>4, <3>1, SettlementFrame DEF ReconcileDelete, ReconcileDeleteFails
    <2>4. CASE rows' = rows
      BY <2>1, <2>2, <2>3, <2>4, FenceKept DEF StaysOrLeaves, Publishing, CallsStay
    <2>5. CASE rows' = [rows EXCEPT ![d] = 0]
      BY <2>1, <2>2, <2>3, <2>5, FenceKeptByRemoval DEF CanWrite, CanRead
    <2> QED
      BY <2>2, <2>4, <2>5
  <1>5. ASSUME NEW c \in init.recover, RecoverSkip(c)
        PROVE  Fencing'
    <2>1. SettlementStays
      BY <1>5 DEF RecoverSkip, Candidate, SettlementStays, Settling, Inv, Typed, CoordTyped
    <2> QED
      BY <1>5, <2>1, EpochsSame, FenceKept DEF RecoverSkip, created, procs, StaysOrLeaves,
                                               Publishing, CallsStay
  <1>6. ASSUME NEW c \in init.recover, RecoverLock(c)
        PROVE  Fencing'
    <2>1. c \in [id : Ids, rev : Nat] /\ recs[c.id].status = "processing"
      BY <1>6 DEF Inv, Typed, CoordTyped, RecoverLock, StillOwns
    <2>2. c.id < nextId /\ init'.held = c
      BY <1>6, <2>1 DEF Inv, Known, RecoverLock, Typed, CoordTyped
    <2>3. /\ ~Publishing /\ ~Deleting /\ search = NoSearch
          /\ UNCHANGED <<rows, buried, ing, nextId, epochs, dEpochs, worker, sub, del, search>>
      BY <1>6 DEF RecoverLock, CanWrite, CanRead, Writing, created, epochal, procs
    <2>4. Accepted' /\ BuriedFenced' /\ MemoryLagsFiles' /\ RowsBelong' /\ NoResurrection'
      BY <2>3 DEF Inv, Fencing, Accepted, BuriedFenced, MemoryLagsFiles, RowsBelong,
                  NoResurrection, Born, Decided
    <2>5. DeletionFences' /\ PublisherIsNew' /\ SearchAlone' /\ SettlesAlone'
      BY <2>2, <2>3 DEF DeletionFences, PublisherIsNew, SearchAlone, SettlesAlone, Deleting,
                        Publishing
    <2> QED
      BY <2>4, <2>5 DEF Fencing
  <1>7. CASE SettleImpossible \/ SettleRecord
    <2>1. SettlementStays
      <3>1. CASE Settled
        BY <3>1 DEF Settled, SettlementStays, Settling, Inv, Typed, CoordTyped
      <3> QED
        BY <1>7, <3>1, SettlementFrame DEF SettleImpossible, SettleRecord
    <2> QED
      BY <1>7, <2>1, EpochsSame, FenceKept DEF SettleImpossible, SettleRecord, created, procs,
                                               StaysOrLeaves, Publishing, CallsStay
  <1>8. CASE SettleEpoch
    <2> DEFINE i == init.held.id
               d == ing[i].doc
               e == ActiveEpoch(i)
    <2>1. i \in Ids /\ d \in Docs
      BY <1>8 DEF SettleEpoch, EpochBehind, Inv, Typed, CoordTyped, Fencing, SettlesAlone, Known
    <2>2. e \in EpochRecord /\ e.gen = ing[i].gen /\ epochs[d].gen = ing[i].gen
      BY <1>8, <2>1, EpochsOfTyped
         DEF Inv, Typed, ActiveEpoch, Epoch, SettleEpoch, EpochBehind, Impossible
    <2>3. PutEpoch(d, e) \/ PutEpochFails(d, e)
      BY <1>8 DEF SettleEpoch
    <2>4. SettlementStays
      BY <1>8, SettlementFrame DEF SettleEpoch
    <2>5. GenerationsGrow /\ MemoryLagsFiles'
      <3> HIDE DEF d, e, i
      <3>1. d \in Docs /\ e.gen >= epochs[d].gen
        BY <1>b, <2>1, <2>2
      <3> QED
        BY <2>2, <2>3, <3>1, EpochWriteAdvances
    <2> QED
      BY <1>8, <2>4, <2>5, FenceKept DEF SettleEpoch, created, procs, StaysOrLeaves, Publishing,
                                         CallsStay
  <1>9. CASE SettleRejected
    BY <1>9, FenceSurvivesDown DEF SettleRejected, created
  <1> QED
    BY <1>1, <1>2, <1>3, <1>4, <1>5, <1>6, <1>7, <1>8, <1>9 DEF InitialiseStep, Failure

LEMMA FenceKeptByWorker ==
    ASSUME Inv, Typed', WorkerStep
    PROVE  Fencing'
  <1>1. CASE Revalidate
    <2>1. CASE Goto("merge")
      BY <1>1, <2>1, FenceEntered
    <2>2. CASE ~Goto("merge")
      <3>1. ~Publishing'
        BY <1>1, <2>2 DEF Revalidate, Publishing, Goto, WorkerFatal, Off, Loop, Inv, Typed,
                          WorkerTyped
      <3> QED
        BY <1>1, <3>1, EpochsSame, FenceKept, SettlementFrame
           DEF Revalidate, created, StaysOrLeaves, CallsStay
    <2> QED
      BY <2>1, <2>2
  <1>2. CASE Merge
    BY <1>2, FenceKeptByMerge
  <1>3. CASE PublishEpoch
    <2>1. worker.id \in Ids /\ ing[worker.id].doc \in Docs
      BY <1>3 DEF PublishEpoch, Inv, Typed, WorkerTyped, Fencing, PublisherIsNew, Publishing
    <2> DEFINE d == ing[worker.id].doc
               e == ActiveEpoch(worker.id)
    <2>2. e \in EpochRecord /\ e.gen = ing[worker.id].gen /\ e.gen \in Nat
      BY <2>1, EpochsOfTyped DEF Inv, Typed, ActiveEpoch, Epoch, CreatedTyped, IngRecord
    <2>3. \/ UNCHANGED epochal
          \/ epochs[d].gen = e.gen /\ (PutEpoch(d, e) \/ PutEpochFails(d, e))
      BY <1>3, <2>2 DEF PublishEpoch
    <2>4. GenerationsGrow /\ MemoryLagsFiles'
      <3> HIDE DEF d, e
      <3>1. CASE epochs[d].gen = e.gen /\ (PutEpoch(d, e) \/ PutEpochFails(d, e))
        <4>1. d \in Docs /\ e.gen >= epochs[d].gen
          BY <2>1, <2>2, <3>1 DEF d
        <4> QED
          BY <2>2, <3>1, <4>1, EpochWriteAdvances
      <3> QED
        BY <2>3, <3>1, EpochsSame
    <2>5. StaysOrLeaves
      BY <1>3 DEF PublishEpoch, StaysOrLeaves, Publishing, Goto, WorkerFatal, Off, Loop, Inv, Typed,
                  WorkerTyped
    <2> QED
      BY <1>3, <2>4, <2>5, FenceKept, SettlementFrame DEF PublishEpoch, created, CallsStay
  <1>4. CASE \/ Pick \/ WorkerExit \/ Claim \/ ReadSnapshot \/ Embed \/ Abort
             \/ Complete \/ Requeue \/ Fail
    <2>1. ~Publishing' /\ UNCHANGED <<epochal, rows, buried, created, sub, del, search>>
      <3>1. CASE Pick \/ WorkerExit \/ Claim
        BY <3>1 DEF Pick, WorkerExit, Claim, Publishing, Loop, Off, WorkerFatal
      <3>2. CASE ReadSnapshot \/ Embed \/ Abort
        BY <3>2 DEF ReadSnapshot, Embed, Abort, Publishing, Goto, Inv, Typed, WorkerTyped
      <3>3. CASE Complete \/ Requeue \/ Fail
        BY <3>3 DEF Complete, Requeue, Fail, Leave, BackToLoop, WorkerFatal, Publishing, Loop, Off,
                    Idle
      <3> QED
        BY <1>4, <3>1, <3>2, <3>3
    <2>2. SettlementStays
      BY <1>4, SettlementFrame DEF Pick, WorkerExit, Claim, ReadSnapshot, Embed, Abort, Complete,
                                   Requeue, Fail, Leave, BackToLoop
    <2> QED
      BY <2>1, <2>2, EpochsSame, FenceKept DEF created, StaysOrLeaves, CallsStay
  <1> QED
    BY <1>1, <1>2, <1>3, <1>4 DEF WorkerStep

LEMMA FenceKeptByIntent ==
    ASSUME Inv, Typed', NEW d \in Docs, WriteIntent(d)
    PROVE  Fencing'
  <1>1. /\ epochs \in [Docs -> EpochRecord] /\ epochs[d].gen \in Nat
        /\ Intent(d) \in EpochRecord /\ Intent(d).gen = epochs[d].gen + 1
    BY EpochsOfTyped DEF Inv, Typed, EpochsTyped, EpochRecord, Intent, Epoch
  <1>2. GenerationsGrow /\ MemoryLagsFiles'
    <2>1. PutEpoch(d, Intent(d)) \/ PutEpochFails(d, Intent(d))
      BY DEF WriteIntent
    <2>2. Intent(d).gen >= epochs[d].gen
      BY <1>1
    <2> QED
      BY <1>1, <2>1, <2>2, EpochWriteAdvances
  <1>a. SettlementStays
    BY SettlementFrame DEF WriteIntent
  <1>3. CASE del' = NoWork
    BY <1>2, <1>3, <1>a, FenceKept, CallsFrame DEF WriteIntent, created, StaysOrLeaves, Publishing
  <1>4. CASE del' = Work("rows", d, None, Intent(d).gen)
    <2>1. /\ ~Writing /\ search = NoSearch /\ (Decided => sub.doc # d)
          /\ UNCHANGED <<rows, buried, ing, nextId, worker, sub, search>>
      BY DEF WriteIntent, MayDelete, CanWrite, CanRead, DocFree, created, Decided
    <2>2. /\ \A c \in Docs : epochs[c].gen \in Nat /\ epochs'[c].gen \in Nat
          /\ \A i \in Ids : ing[i].gen \in Nat
          /\ Decided => sub.doc \in Docs /\ sub.gen \in Nat
      BY DEF Inv, Typed, EpochsTyped, EpochRecord, CreatedTyped, IngRecord, CallsTyped
    <2>3. Accepted' /\ BuriedFenced'
      BY <1>2, <2>1, <2>2 DEF Inv, Fencing, Accepted, BuriedFenced, Born, GenerationsGrow, Decided
    <2>4. RowsBelong' /\ NoResurrection' /\ SearchAlone' /\ PublisherIsNew' /\ SettlesAlone'
      BY <1>a, <2>1 DEF Inv, Fencing, RowsBelong, NoResurrection, SearchAlone, PublisherIsNew,
                        Born, Writing, Publishing, SettlesAlone, SettlementStays
    <2>5. \A i \in Ids : Born(i, d) => ing[i].gen < epochs[d].gen + 1
      BY <1>1, <2>2 DEF Inv, Fencing, Accepted
    <2>6. /\ del'.pc = "rows" /\ del'.doc = d /\ del'.gen = epochs[d].gen + 1
      BY <1>1, <1>4 DEF Work
    <2>7. DeletionFences'
      BY <2>1, <2>5, <2>6 DEF DeletionFences, Writing, Publishing, Born, Decided
    <2> QED
      BY <1>2, <2>3, <2>4, <2>7 DEF Fencing
  <1> QED
    BY <1>3, <1>4 DEF WriteIntent

LEMMA FenceKeptByDeleteRows ==
    ASSUME Inv, Typed', DeleteRows
    PROVE  Fencing'
  <1>1. /\ del.doc \in Docs /\ del.pc = "rows" /\ search = NoSearch /\ ~Publishing
        /\ (Decided => del.doc # sub.doc) /\ ~Settling
    BY DEF DeleteRows, Inv, Typed, CallsTyped, Fencing, SearchAlone, Writing, DeletionFences,
           SettlesAlone, Deleting
  <1>2. /\ rows' \in {rows, [rows EXCEPT ![del.doc] = 0]}
        /\ UNCHANGED <<buried, ing, nextId, epochs, dEpochs, worker, sub, search>>
        /\ \/ del' = NoWork
           \/ del' = [del EXCEPT !.pc = "epoch"] /\ rows' = [rows EXCEPT ![del.doc] = 0]
    BY DEF DeleteRows, created, epochal
  <1>3. \A c \in Docs : rows'[c] = rows[c] \/ rows'[c] = 0
    BY <1>2 DEF Inv, Typed, RowsTyped
  <1>4. Accepted' /\ BuriedFenced' /\ MemoryLagsFiles'
    BY <1>2 DEF Inv, Fencing, Accepted, BuriedFenced, MemoryLagsFiles, Born, Decided
  <1>5. RowsBelong' /\ NoResurrection'
    BY <1>2, <1>3 DEF Inv, Fencing, RowsBelong, NoResurrection, Born
  <1>6. SearchAlone' /\ PublisherIsNew' /\ SettlesAlone'
    <2>1. SettlementStays
      BY SettlementFrame DEF DeleteRows
    <2> QED
      BY <1>1, <1>2, <2>1 DEF SearchAlone, PublisherIsNew, Publishing, SettlesAlone,
                              SettlementStays
  <1>7. DeletionFences'
    <2>1. CASE del' = NoWork
      BY <2>1 DEF DeletionFences, Deleting, NoWork, Work
    <2>2. CASE del' = [del EXCEPT !.pc = "epoch"] /\ rows' = [rows EXCEPT ![del.doc] = 0]
      <3>1. del'.doc = del.doc /\ del'.gen = del.gen
        BY <2>2 DEF Inv, Typed, CallsTyped
      <3>2. rows'[del.doc] = 0
        BY <1>1, <2>2 DEF Inv, Typed, RowsTyped
      <3>3. \A i \in Ids : Born(i, del.doc) => ing[i].gen < del.gen
        BY <1>1 DEF Inv, Fencing, DeletionFences, Deleting
      <3> QED
        BY <1>1, <1>2, <3>1, <3>2, <3>3 DEF DeletionFences, Publishing, Born, Decided
    <2> QED
      BY <1>2, <2>1, <2>2
  <1> QED
    BY <1>4, <1>5, <1>6, <1>7 DEF Fencing

LEMMA FenceKeptByAcknowledge ==
    ASSUME Inv, Typed', Acknowledge
    PROVE  Fencing'
  <1>1. /\ del.doc \in Docs /\ rows[del.doc] = 0 /\ search = NoSearch /\ ~Publishing
        /\ \A i \in Ids : Born(i, del.doc) => ing[i].gen < del.gen
    BY DEF Acknowledge, Inv, Typed, CallsTyped, Fencing, SearchAlone, Writing, DeletionFences,
           Deleting
  <1>2. /\ del' = NoWork /\ UNCHANGED <<rows, ing, nextId, worker, sub, search>>
        /\ \/ UNCHANGED buried
           \/ epochs[del.doc].gen = del.gen /\ buried' = [buried EXCEPT ![del.doc] = nextId - 1]
    BY DEF Acknowledge, created
  <1>3. GenerationsGrow /\ MemoryLagsFiles'
    <2>1. /\ DeletedEpoch(del.doc) \in EpochRecord
          /\ DeletedEpoch(del.doc).gen = epochs[del.doc].gen
      BY <1>1, EpochsOfTyped DEF Inv, Typed, DeletedEpoch, Epoch
    <2>2. PutEpoch(del.doc, DeletedEpoch(del.doc)) \/ PutEpochFails(del.doc, DeletedEpoch(del.doc))
      BY DEF Acknowledge
    <2>3. epochs[del.doc].gen \in Nat
      BY <1>1 DEF Inv, Typed, EpochsTyped, EpochRecord
    <2> QED
      BY <1>1, <2>1, <2>2, <2>3, EpochWriteAdvances
  <1>4. /\ \A c \in Docs : epochs[c].gen \in Nat /\ epochs'[c].gen \in Nat
        /\ \A i \in Ids : ing[i].gen \in Nat
        /\ Decided => sub.doc \in Docs /\ sub.gen \in Nat
        /\ nextId \in Nat /\ nextId # 0 /\ \A c \in Docs : buried[c] \in Nat
    BY DEF Inv, Typed, EpochsTyped, EpochRecord, CreatedTyped, IngRecord, CallsTyped, RowsTyped
  <1>5. \A c \in Docs : \/ buried'[c] = buried[c]
                        \/ /\ c = del.doc /\ epochs[c].gen = del.gen /\ buried'[c] = nextId - 1
    BY <1>2 DEF Inv, Typed, RowsTyped
  <1>6. Accepted'
    <2>1. \A c \in Docs : buried'[c] < nextId
      BY <1>4, <1>5 DEF Inv, Fencing, Accepted
    <2> QED
      BY <1>2, <1>3, <1>4, <2>1 DEF Inv, Fencing, Accepted, Born, GenerationsGrow, Decided
  <1>7. BuriedFenced'
    <2>1. ASSUME NEW c \in Docs, NEW i \in Ids, Born(i, c), i <= buried'[c]
          PROVE  ing[i].gen < epochs'[c].gen
      <3>1. ing[i].gen < epochs[c].gen
        BY <1>1, <1>5, <2>1 DEF Inv, Fencing, BuriedFenced
      <3> QED
        BY <1>3, <1>4, <3>1 DEF GenerationsGrow
    <2> QED
      BY <1>2, <2>1 DEF BuriedFenced, Born
  <1>8. RowsBelong' /\ SearchAlone' /\ PublisherIsNew' /\ DeletionFences' /\ SettlesAlone'
    <2>1. SettlementStays /\ ~Settling
      BY SettlementFrame DEF Acknowledge, Inv, Fencing, SettlesAlone, Deleting
    <2> QED
      BY <1>1, <1>2, <2>1 DEF Inv, Fencing, RowsBelong, SearchAlone, PublisherIsNew,
                              DeletionFences, Publishing, Born, NoWork, Work, Deleting,
                              SettlesAlone, SettlementStays
  <1>9. NoResurrection'
    BY <1>1, <1>2, <1>5 DEF Inv, Fencing, NoResurrection
  <1> QED
    BY <1>3, <1>6, <1>7, <1>8, <1>9 DEF Fencing

LEMMA FenceKeptByDecision ==
    ASSUME Inv, Typed', NEW d \in Docs, NEW v \in Versions,
           SubmitHit(d, v) \/ SubmitMiss(d, v)
    PROVE  Fencing'
  <1>1. /\ ~Writing /\ SettlementStays
        /\ UNCHANGED <<rows, buried, ing, nextId, epochs, dEpochs, worker, del, search>>
    BY SettlementFrame DEF SubmitHit, SubmitMiss, Deciding, CanRead, created, epochal
  <1>2. sub'.doc = d /\ sub'.gen <= epochs[d].gen
    <2>1. CASE SubmitMiss(d, v)
      <3>1. epochs[d].gen \in Nat
        BY DEF Inv, Typed, EpochsTyped, EpochRecord
      <3> QED
        BY <2>1, <3>1 DEF SubmitMiss, Work
    <2>2. CASE SubmitHit(d, v)
      <3>1. rows[d] \in Ids /\ Born(rows[d], d)
        BY <2>2 DEF SubmitHit, Hit, Shows, Inv, Typed, RowsTyped, Fencing, RowsBelong
      <3>2. ing[rows[d]].gen <= epochs[d].gen
        BY <3>1 DEF Inv, Fencing, Accepted
      <3> QED
        BY <2>2, <3>2 DEF SubmitHit, Work
    <2> QED
      BY <2>1, <2>2
  <1>3. Accepted'
    BY <1>1, <1>2 DEF Inv, Fencing, Accepted, Born
  <1>4. BuriedFenced' /\ MemoryLagsFiles' /\ RowsBelong' /\ NoResurrection'
    BY <1>1 DEF Inv, Fencing, BuriedFenced, MemoryLagsFiles, RowsBelong, NoResurrection, Born
  <1>5. DeletionFences' /\ SearchAlone' /\ PublisherIsNew' /\ SettlesAlone'
    BY <1>1 DEF Inv, Fencing, DeletionFences, SearchAlone, PublisherIsNew, SettlesAlone, Writing,
                Publishing, Deleting, SettlementStays
  <1> QED
    BY <1>3, <1>4, <1>5 DEF Fencing

LEMMA FenceKeptByClient ==
    ASSUME Inv, Typed', Client
    PROVE  Fencing'
  <1>1. CASE CreateQueued \/ CreateFails \/ CreateCompletedHit
    <2>1. /\ Decided /\ NewIngestion /\ UNCHANGED <<rows, buried, epochs>>
          /\ sub' = NoWork /\ UNCHANGED epochal
      BY <1>1 DEF CreateQueued, CreateFails, CreateCompletedHit, epochal, Decided
    <2>2. sub'.pc = "idle" /\ MemoryLagsFiles'
      BY <2>1, EpochsSame DEF NoWork, Work
    <2>3. StaysOrLeaves /\ UNCHANGED <<del, search>> /\ SettlementStays
      BY <1>1, SettlementFrame DEF CreateQueued, CreateFails, CreateCompletedHit, StaysOrLeaves,
                                   Publishing, Notified, Idle, Loop
    <2> QED
      BY <2>1, <2>2, <2>3, FenceKeptByCreation
  <1>2. ASSUME NEW d \in Docs,
               \/ \E v \in Versions : SubmitAnswered(d, v)
               \/ FindInconsistent(d) \/ DeleteRefused(d)
        PROVE  Fencing'
    <2>1. /\ SettlementStays /\ CallsStay /\ UNCHANGED epochal
          /\ UNCHANGED <<rows, buried, created, worker, search>>
      BY <1>2, SettlementFrame, CallsFrame DEF SubmitAnswered, FindInconsistent, DeleteRefused
    <2> QED
      BY <2>1, EpochsSame, FenceKept DEF created, StaysOrLeaves, Publishing
  <1>3. CASE SubmitAsk \/ DeleteAsk
    <2>1. /\ SettlementStays /\ CallsStay /\ UNCHANGED epochal
          /\ UNCHANGED <<rows, buried, created, worker, search>>
      BY <1>3, SettlementFrame, CallsFrame DEF SubmitAsk, DeleteAsk
    <2> QED
      BY <2>1, EpochsSame, FenceKept DEF created, StaysOrLeaves, Publishing
  <1>4. ASSUME NEW d \in Docs, SearchVector(d)
        PROVE  Fencing'
    <2>1. /\ ~Writing /\ search'.doc = d /\ search'.seen = rows[d] /\ SettlementStays
          /\ UNCHANGED <<rows, buried, ing, nextId, epochs, dEpochs, worker, sub, del>>
      BY <1>4, SettlementFrame DEF SearchVector, created, epochal
    <2>2. SearchAlone' /\ SettlesAlone'
      BY <2>1 DEF SearchAlone, Writing, Publishing, Deleting, SettlementStays, SettlesAlone
    <2>3. Accepted' /\ BuriedFenced' /\ MemoryLagsFiles' /\ RowsBelong' /\ NoResurrection'
      BY <2>1 DEF Inv, Fencing, Accepted, BuriedFenced, MemoryLagsFiles, RowsBelong,
                  NoResurrection, Born, Decided
    <2>4. DeletionFences' /\ PublisherIsNew'
      BY <2>1 DEF Inv, Fencing, DeletionFences, PublisherIsNew, Writing, Publishing, Deleting
    <2> QED
      BY <2>2, <2>3, <2>4 DEF Fencing
  <1>5. CASE SearchText
    <2>1. /\ search' = NoSearch /\ SettlementStays
          /\ UNCHANGED <<rows, buried, ing, nextId, epochs, dEpochs, worker, sub, del>>
      BY <1>5, SettlementFrame DEF SearchText, created, epochal
    <2>2. Accepted' /\ BuriedFenced' /\ MemoryLagsFiles' /\ RowsBelong' /\ NoResurrection'
      BY <2>1 DEF Inv, Fencing, Accepted, BuriedFenced, MemoryLagsFiles, RowsBelong,
                  NoResurrection, Born, Decided
    <2>3. DeletionFences' /\ PublisherIsNew' /\ SearchAlone' /\ SettlesAlone'
      BY <2>1 DEF Inv, Fencing, DeletionFences, PublisherIsNew, SearchAlone, SettlesAlone,
                  Publishing, Deleting, Decided, Born, SettlementStays
    <2> QED
      BY <2>2, <2>3 DEF Fencing
  <1> QED
    BY <1>1, <1>2, <1>3, <1>4, <1>5, FenceKeptByDecision, FenceKeptByIntent,
       FenceKeptByDeleteRows, FenceKeptByAcknowledge DEF Client

LEMMA FenceKeptByCrashInside ==
    ASSUME Inv, CrashInside
    PROVE  Fencing'
  <1>1. CASE CreateCut
    <2>1. /\ Decided /\ NewIngestion /\ UNCHANGED <<rows, buried, epochs>> /\ UNCHANGED epochal
          /\ sub' = NoWork /\ del' = NoWork /\ search' = NoSearch
      BY <1>1 DEF CreateCut, Down, epochal, Decided
    <2>2. sub'.pc = "idle" /\ MemoryLagsFiles' /\ ~Publishing'
      BY <1>1, <2>1, EpochsSame DEF NoWork, Work, CreateCut, Down, Publishing, Off, Loop
    <2>3. StaysOrLeaves /\ SettlementStays
      BY <1>1, <2>2, SettlementFrame DEF CreateCut, StaysOrLeaves
    <2> QED
      BY <2>1, <2>2, <2>3, FenceKeptByCreation
  <1>2. ASSUME \/ CrashInTransition \/ CrashInLoad
               \/ \E i \in Ids : CrashInSweep(i)
        PROVE  Fencing'
    BY <1>2, FenceSurvivesDown DEF CrashInTransition, CrashInLoad, CrashInSweep, created
  <1>3. ASSUME NEW d \in Docs, CrashInReconcile(d)
        PROVE  Fencing'
    <2>1. \A c \in Docs : rows'[c] = rows[c] \/ rows'[c] = 0
      BY <1>3 DEF CrashInReconcile, Inv, Typed, RowsTyped
    <2> QED
      BY <1>3, <2>1, FenceSurvivesDown DEF CrashInReconcile, created
  <1> QED
    BY <1>1, <1>2, <1>3 DEF CrashInside

LEMMA InvStep == Inv /\ [Next]_vars => Inv'
  <1> SUFFICES ASSUME Inv, [Next]_vars PROVE Inv'
    OBVIOUS
  <1>1. Typed' /\ Known'
    BY TypeStep, KnownStep DEF Inv
  <1>2. CASE Start \/ Stop \/ UNCHANGED vars
    <2>1. UNCHANGED init
      BY <1>2 DEF Start, Stop, vars, coord
    <2> QED
      BY <1>1, <1>2, <2>1, EpochsSame, FenceKept, SettlementFrame
         DEF Start, Stop, vars, created, procs, StaysOrLeaves, Publishing, Inv, CallsStay
  <1>3. CASE Crash \/ Exit
    BY <1>1, <1>3, FenceSurvivesDown DEF Crash, Exit, created, Inv
  <1>4. CASE Retention
    <2>1. UNCHANGED <<epochal, rows, buried, created, procs>> /\ SettlementStays
      BY <1>4, SettlementFrame DEF Retention, Expire, Sweep, SweepFails, SweepTombstone
    <2> QED
      BY <1>1, <2>1, EpochsSame, FenceKept DEF created, procs, StaysOrLeaves, Publishing, Inv,
                                               CallsStay
  <1> QED
    BY <1>1, <1>2, <1>3, <1>4, FenceKeptByStart, FenceKeptByWorker, FenceKeptByClient,
       FenceKeptByCrashInside DEF Next, Inv

THEOREM IndexInvariant == Spec => []Inv
  <1>1. Init => Inv
    BY TypeInit, KnownInit, FencingInit DEF Inv
  <1> QED
    BY <1>1, InvStep, PTL DEF Spec

(* rag-ingestion-worker.ts reads the owner and the generation again under    *)
(* the lock it publishes under, and rag-ingestion-coordinator.ts writes the  *)
(* intent of a deletion before it removes a row: whatever fails or crashes,  *)
(* no deletion that was acknowledged is undone by an older ingestion.        *)
THEOREM DeletionIsFinal == Spec => []NoResurrection
  <1>1. Inv => NoResurrection
    BY DEF Inv, Fencing
  <1> QED
    BY <1>1, IndexInvariant, PTL

(* The vector and the text candidates of a search are those of one version,  *)
(* because publications and deletions wait for its read lock.                *)
THEOREM SearchIsolated == Spec => []SearchReadsOneVersion
  <1>1. Inv => SearchReadsOneVersion
    BY DEF Inv, Fencing, SearchAlone, SearchReadsOneVersion
  <1> QED
    BY <1>1, IndexInvariant, PTL

----------------------------------------------------------------------------
(* The index implements the abstract shelf.                                  *)

LEMMA ShelfStep ==
    ASSUME Inv, [Next]_vars
    PROVE  [Shelf!Next]_<<nextId - 1, rows, buried>>
  <1> USE DEF Shelf!Next
  <1>1. CASE UNCHANGED <<nextId, rows, buried>>
    BY <1>1
  <1>2. CASE NewIngestion /\ UNCHANGED <<rows, buried>>
    <2>1. nextId' - 1 = (nextId - 1) + 1
      BY <1>2 DEF NewIngestion, Inv, Typed, CreatedTyped
    <2> QED
      BY <1>2, <2>1 DEF Shelf!Accept
  <1>3. ASSUME NEW d \in Docs, rows' \in {rows, [rows EXCEPT ![d] = 0]}, UNCHANGED <<nextId, buried>>
        PROVE  [Shelf!Next]_<<nextId - 1, rows, buried>>
    <2>1. CASE rows' = [rows EXCEPT ![d] = 0]
      BY <1>3, <2>1 DEF Shelf!Withdraw
    <2> QED
      BY <1>1, <1>3, <2>1
  <1>4. CASE Merge
    <2> DEFINE i == worker.id
               d == ing[i].doc
    <2>1. d \in Docs /\ i \in 1..(nextId - 1) /\ i > buried[d]
      BY <1>4 DEF Merge, Publishing, Inv, Typed, WorkerTyped, CreatedTyped, Fencing,
                  PublisherIsNew, Born, Ids
    <2>2. rows' \in {rows, [rows EXCEPT ![d] = i]} /\ UNCHANGED <<nextId, buried>>
      BY <1>4 DEF Merge, created
    <2>3. CASE rows' = [rows EXCEPT ![d] = i]
      <3>1. i <= nextId - 1
        BY <2>1
      <3> QED
        BY <2>1, <2>2, <2>3, <3>1 DEF Shelf!Publish
    <2> QED
      BY <1>1, <2>2, <2>3
  <1>5. CASE Acknowledge
    <2>1. /\ del.doc \in Docs /\ rows[del.doc] = 0 /\ UNCHANGED <<rows, nextId>>
          /\ buried' \in {buried, [buried EXCEPT ![del.doc] = nextId - 1]}
      BY <1>5 DEF Acknowledge, Inv, Typed, CallsTyped, Fencing, DeletionFences, Deleting, created
    <2>2. CASE buried' = [buried EXCEPT ![del.doc] = nextId - 1]
      BY <2>1, <2>2 DEF Shelf!Acknowledge
    <2> QED
      BY <1>1, <2>1, <2>2
  <1>6. CASE DeleteRows
    BY <1>3, <1>6 DEF DeleteRows, created, Inv, Typed, CallsTyped, Deleting
  <1>7. CASE Start \/ Crash \/ Stop \/ Exit \/ Retention \/ UNCHANGED vars
    BY <1>1, <1>7 DEF Start, Crash, Stop, Exit, Retention, Expire, Sweep, SweepFails,
                      SweepTombstone, vars, created
  <1>8. CASE InitialiseStep \/ Failure
    BY <1>1, <1>3, <1>8
       DEF InitialiseStep, Failure, Load, LoadFails, InitIndex, Finish, ReconcileDelete,
           ReconcileDeleteFails, RecoverSkip, RecoverLock, SettleImpossible, SettleEpoch,
           SettleRecord, SettleRejected, created
  <1>9. CASE WorkerStep
    BY <1>1, <1>4, <1>9 DEF WorkerStep, Pick, WorkerExit, Claim, ReadSnapshot, Embed, Abort,
                      Revalidate, PublishEpoch, Complete, Requeue, Fail, created
  <1>10. CASE Client
    BY <1>1, <1>2, <1>5, <1>6, <1>10
       DEF Client, SubmitAsk, SubmitHit, SubmitMiss, SubmitAnswered, FindInconsistent, DeleteAsk,
           DeleteRefused, WriteIntent, SearchVector, SearchText, CreateQueued, CreateFails,
           CreateCompletedHit, created
  <1>11. CASE CrashInside
    BY <1>1, <1>2, <1>3, <1>11
       DEF CrashInside, CreateCut, CrashInTransition, CrashInLoad, CrashInSweep, CrashInReconcile,
           created
  <1> QED
    BY <1>7, <1>8, <1>9, <1>10, <1>11 DEF Next

(* Whatever interleaves, fails or crashes, what a search is shown of a       *)
(* document changes as DocumentShelf says: rag-ingestion-worker.ts publishes *)
(* only what was accepted after the last acknowledged deletion, as a whole.  *)
THEOREM IndexImplementsShelf == Spec => ImplementsShelf
  <1>1. Init => Shelf!Init
    BY DEF Init, Shelf!Init
  <1>2. Inv /\ [Next]_vars => [Shelf!Next]_Shelf!vars
    BY ShelfStep DEF Shelf!vars
  <1> QED
    BY <1>1, <1>2, IndexInvariant, PTL DEF Spec, ImplementsShelf, Shelf!Spec

----------------------------------------------------------------------------
(* A snapshot is on the volume as long as it may be needed.  Without a       *)
(* failing operation, memory that is in use holds what the files hold of the *)
(* ingestions at work; a crash may leave behind a record that has ended, and *)
(* what is under a tombstone has ended.                                      *)

InUse == started \/ init # NoInit

RecordsRetained == \A i \in Ids :
    /\ InUse /\ recs[i].status \in Active => recs[i] = dRecs[i]
    /\ recs[i].status \in Terminal => dRecs[i].status \notin Active
    /\ dRecs[i].status \in Active => i \in snaps
    /\ i \in dTombs => i < nextId /\ dRecs[i].status \notin Active

WorkerStarted == worker.pc # "off" => started

Retained == faults = 0 => WorkerStarted /\ RecordsRetained

LEMMA FaultsGrow ==
    ASSUME [Next]_vars
    PROVE  Fault \/ UNCHANGED faults
  <1> USE DEF Put, PutFails, PutEpoch, PutEpochFails
  <1>1. CASE Start \/ Stop \/ Crash \/ Exit \/ UNCHANGED vars
    BY <1>1 DEF Start, Stop, Crash, Exit, vars
  <1>2. CASE InitialiseStep
    BY <1>2 DEF InitialiseStep, Load, InitIndex, Finish, ReconcileDelete, RecoverSkip, RecoverLock,
                SettleImpossible, SettleEpoch, SettleRecord, SettleRejected
  <1>3. CASE Failure
    BY <1>3 DEF Failure, LoadFails, ReconcileDeleteFails
  <1>4. CASE WorkerStep
    <2>1. CASE Pick \/ WorkerExit \/ Claim \/ ReadSnapshot \/ Embed \/ Abort \/ Revalidate
      BY <2>1 DEF Pick, WorkerExit, Claim, ReadSnapshot, Embed, Abort, Revalidate
    <2>2. CASE Merge \/ PublishEpoch
      BY <2>2 DEF Merge, PublishEpoch
    <2>3. CASE Complete \/ Requeue \/ Fail
      BY <2>3 DEF Complete, Requeue, Fail, Leave
    <2> QED BY <1>4, <2>1, <2>2, <2>3 DEF WorkerStep
  <1>5. CASE Client
    BY <1>5
       DEF Client, SubmitAsk, SubmitHit, SubmitMiss, SubmitAnswered, FindInconsistent, DeleteAsk,
           DeleteRefused, WriteIntent, SearchVector, SearchText, CreateQueued, CreateFails,
           CreateCompletedHit, DeleteRows, Acknowledge
  <1>6. CASE Retention
    BY <1>6 DEF Retention, Expire, Sweep, SweepFails, SweepTombstone
  <1>7. CASE CrashInside
    BY <1>7 DEF CrashInside, CreateCut, CrashInTransition, CrashInLoad, CrashInSweep,
                CrashInReconcile
  <1> QED BY <1>1, <1>2, <1>3, <1>4, <1>5, <1>6, <1>7 DEF Next

LEMMA FaultSeen ==
    ASSUME Typed
    PROVE  ~(Fault /\ faults' = 0) /\ (Fault => faults' # 0)
  BY DEF Typed, CountersTyped, Fault

LEMMA NothingFails ==
    ASSUME Typed, faults = 0, faults' = 0
    PROVE  /\ ~Fault /\ ~Failure /\ ~CreateFails /\ \A i \in Ids : ~SweepFails(i)
           /\ \A i, r : ~PutFails(i, r)
           /\ \A d, e : ~PutEpochFails(d, e)
  <1>1. ~Fault
    BY FaultSeen
  <1>2. ASSUME \/ LoadFails
               \/ \E d \in Docs : ReconcileDeleteFails(d)
        PROVE  FALSE
    BY <1>1, <1>2 DEF LoadFails, ReconcileDeleteFails, PutEpochFails
  <1> QED BY <1>1, <1>2 DEF Failure, CreateFails, SweepFails, PutFails, PutEpochFails

(* Memory comes into use by a load.                                          *)
LEMMA InUseEnters ==
    ASSUME [Next]_vars, ~Load
    PROVE  InUse' => InUse
  <1>1. (init' = init \/ init' = NoInit) /\ (started' => started) => (InUse' => InUse)
    BY DEF InUse
  <1>2. CASE Start \/ Stop \/ Crash \/ Exit \/ UNCHANGED vars
    BY <1>1, <1>2 DEF Start, Stop, Crash, Exit, Down, vars, coord
  <1>3. CASE InitialiseStep \/ Failure
    <2>1. CASE init.pc # "none"
      BY <2>1 DEF InUse, NoInit, Initialising
    <2>2. CASE LoadFails
      BY <1>1, <2>2 DEF LoadFails, Degraded
    <2> QED
      BY <1>3, <2>1, <2>2
         DEF InitialiseStep, Failure, InitIndex, Finish, ReconcileDelete, ReconcileDeleteFails,
             RecoverSkip, RecoverLock, Candidate, SettleImpossible, SettleEpoch, EpochBehind,
             SettleRecord, SettlesRecord, SettleRejected, Settling
  <1>4. CASE WorkerStep
    <2>1. CASE Pick \/ WorkerExit \/ Claim \/ ReadSnapshot \/ Embed \/ Abort \/ Revalidate
      BY <1>1, <2>1 DEF Pick, WorkerExit, Claim, ReadSnapshot, Embed, Abort, Revalidate,
                        WorkerFatal, coord
    <2>2. CASE Merge \/ PublishEpoch
      BY <1>1, <2>2 DEF Merge, PublishEpoch, WorkerFatal, coord
    <2>3. CASE Complete \/ Requeue \/ Fail
      BY <1>1, <2>3 DEF Complete, Requeue, Fail, Leave, BackToLoop, WorkerFatal, coord
    <2> QED
      BY <1>4, <2>1, <2>2, <2>3 DEF WorkerStep
  <1>5. CASE Client
    BY <1>1, <1>5
       DEF Client, SubmitAsk, SubmitHit, SubmitMiss, SubmitAnswered, FindInconsistent, DeleteAsk,
           DeleteRefused, WriteIntent, SearchVector, SearchText, CreateQueued, CreateFails,
           CreateCompletedHit, DeleteRows, Acknowledge, Degraded, coord
  <1>6. CASE Retention
    BY <1>1, <1>6 DEF Retention, Expire, Sweep, SweepFails, SweepTombstone, Degraded, coord
  <1>7. CASE CrashInside
    BY <1>1, <1>7 DEF CrashInside, CreateCut, CrashInTransition, CrashInLoad, CrashInSweep,
                      CrashInReconcile, Down
  <1> QED
    BY <1>2, <1>3, <1>4, <1>5, <1>6, <1>7 DEF Next

LEMMA WorkerStartedStep == WorkerStarted /\ [Next]_vars => WorkerStarted'
  <1> SUFFICES ASSUME WorkerStarted, [Next]_vars PROVE WorkerStarted'
    OBVIOUS
  <1>a. Down \/ WorkerFatal => WorkerStarted'
    BY DEF Down, WorkerFatal, WorkerStarted, Off, Loop
  <1>b. (worker.pc # "off" \/ worker'.pc = "off") /\ UNCHANGED started => WorkerStarted'
    BY DEF WorkerStarted
  <1>c. UNCHANGED <<worker, started>> => WorkerStarted'
    BY DEF WorkerStarted
  <1>1. CASE Start \/ Stop \/ Crash \/ Exit \/ CrashInside \/ UNCHANGED vars
    BY <1>1, <1>a, <1>c
       DEF Start, Stop, Crash, Exit, vars, coord, procs, CrashInside, CreateCut,
           CrashInTransition, CrashInLoad, CrashInSweep, CrashInReconcile
  <1>2. CASE InitialiseStep \/ Failure
    <2>1. CASE Finish
      BY <2>1 DEF Finish, WorkerStarted
    <2>2. CASE InitIndex \/ SettleImpossible \/ SettleEpoch \/ SettleRecord \/ SettleRejected
      BY <1>a, <1>c, <2>2 DEF InitIndex, SettleImpossible, SettleEpoch, SettleRecord,
                              SettleRejected, InitFailed, Settled, coord, procs
    <2> QED
      BY <1>2, <1>c, <2>1, <2>2
         DEF InitialiseStep, Failure, Load, LoadFails, Degraded, ReconcileDelete,
             ReconcileDeleteFails, InitFailed, RecoverSkip, RecoverLock, procs
  <1>3. CASE WorkerStep
    <2>1. worker.pc # "off"
      BY <1>3 DEF WorkerStep, Pick, WorkerExit, Claim, ReadSnapshot, Embed, Abort, Revalidate, Merge,
                  PublishEpoch, Complete, Requeue, Fail
    <2>2. WorkerFatal \/ UNCHANGED started
      <3>1. CASE Pick \/ WorkerExit \/ Claim \/ ReadSnapshot \/ Embed \/ Abort \/ Revalidate
        BY <3>1 DEF Pick, WorkerExit, Claim, ReadSnapshot, Embed, Abort, Revalidate, coord
      <3>2. CASE Merge \/ PublishEpoch
        BY <3>2 DEF Merge, PublishEpoch, coord
      <3>3. CASE Complete \/ Requeue \/ Fail
        BY <3>3 DEF Complete, Requeue, Fail, Leave, BackToLoop, coord
      <3> QED
        BY <1>3, <3>1, <3>2, <3>3 DEF WorkerStep
    <2> QED
      BY <1>a, <1>b, <2>1, <2>2
  <1>4. CASE Client
    <2>1. CASE CreateQueued
      BY <1>b, <1>c, <2>1 DEF CreateQueued, Notified, coord
    <2> QED
      BY <1>4, <1>c, <2>1
         DEF Client, SubmitAsk, SubmitHit, SubmitMiss, SubmitAnswered, FindInconsistent, DeleteAsk,
             DeleteRefused, WriteIntent, SearchVector, SearchText, CreateFails,
             CreateCompletedHit, DeleteRows, Acknowledge, Degraded, coord
  <1>5. CASE Retention
    BY <1>5, <1>c DEF Retention, Expire, Sweep, SweepFails, SweepTombstone, Degraded, coord, procs
  <1> QED
    BY <1>1, <1>2, <1>3, <1>4, <1>5 DEF Next

LEMMA RetainedByPut ==
    ASSUME Typed, RecordsRetained, InUse, NEW i \in Ids, recs[i].status \in Active,
           NEW r, r.status \in Active \cup Terminal, Put(i, r), UNCHANGED nextId
    PROVE  RecordsRetained'
  <1>1. /\ dRecs[i].status \in Active /\ i \in snaps /\ i \notin dTombs
        /\ \A j \in Ids : recs'[j] = (IF j = i THEN r ELSE recs[j])
                          /\ dRecs'[j] = (IF j = i THEN r ELSE dRecs[j])
        /\ dTombs' = dTombs
    BY DEF RecordsRetained, Put, Typed, RecordsTyped, Active
  <1>2. \A j \in Ids : dRecs'[j].status \in Active => j \in snaps'
    BY <1>1 DEF RecordsRetained, Put, Active, Terminal
  <1> QED
    BY <1>1, <1>2 DEF RecordsRetained, Active, Terminal

LEMMA RetainedFrame ==
    ASSUME RecordsRetained, UNCHANGED <<recs, dRecs, snaps, dTombs, nextId>>, InUse' => InUse
    PROVE  RecordsRetained'
  BY DEF RecordsRetained

LEMMA RetainedByLoad ==
    ASSUME Typed, RecordsRetained, Load
    PROVE  RecordsRetained'
  <1> SUFFICES ASSUME NEW i \in Ids
               PROVE  /\ recs'[i].status \in Active => recs'[i] = dRecs'[i]
                      /\ recs'[i].status \in Terminal => dRecs'[i].status \notin Active
                      /\ dRecs'[i].status \in Active => i \in snaps'
                      /\ i \in dTombs => i < nextId /\ dRecs'[i].status \notin Active
    BY DEF RecordsRetained, Load, created
  <1>1. /\ recs'[i] = IF i \in Duplicates THEN Rec("failed", Loaded[i].rev + 1) ELSE Loaded[i]
        /\ dRecs'[i] = IF i \in Duplicates THEN Rec("failed", dRecs[i].rev + 1) ELSE dRecs[i]
        /\ Loaded[i] = IF i \in dTombs THEN Gone ELSE dRecs[i]
        /\ i \in snaps' <=> i \in snaps /\ i \notin Duplicates /\ Loaded[i] # Gone
    BY DEF Load, Repair, Loaded, Unclaimed
  <1>2. i \in Duplicates => i \notin dTombs
    BY <1>1 DEF Duplicates, LoadedActive, Gone, Rec, Active
  <1>3. /\ dRecs[i].status \in Active => i \in snaps
        /\ i \in dTombs => i < nextId /\ dRecs[i].status \notin Active
    BY DEF RecordsRetained
  <1>4. CASE i \in Duplicates
    BY <1>1, <1>2, <1>4 DEF Rec, Active, Terminal
  <1>5. CASE i \notin Duplicates
    BY <1>1, <1>3, <1>5 DEF Gone, Rec, Active, Terminal
  <1> QED
    BY <1>4, <1>5

LEMMA RetainedByCreation ==
    ASSUME Typed, Known, RecordsRetained, InUse' => InUse, faults = 0, faults' = 0,
           \/ CreateQueued \/ CreateCompletedHit
           \/ CreateCut /\ ~InUse'
    PROVE  RecordsRetained'
  <1>1. /\ nextId \in Ids /\ nextId \in Nat /\ nextId' = nextId + 1 /\ dTombs' = dTombs
    BY DEF Typed, CallsTyped, CreatedTyped, CreateQueued, CreateCut, CreateCompletedHit,
           NewIngestion, Put, PutFails, Decided
  <1>2. PICK r \in {Rec("queued", 0), Rec("completed", 0)} :
          /\ \/ recs' = [recs EXCEPT ![nextId] = r] /\ dRecs' = [dRecs EXCEPT ![nextId] = r]
             \/ ~InUse' /\ recs' = recs /\ dRecs' \in {dRecs, [dRecs EXCEPT ![nextId] = r]}
          /\ snaps' = (IF r.status = "queued" THEN snaps \cup {nextId} ELSE snaps \ {nextId})
    <2>1. CASE CreateQueued
      BY <2>1 DEF CreateQueued, Rec
    <2>2. CASE CreateCompletedHit
      BY <2>2, NothingFails DEF CreateCompletedHit, Put, Rec, Terminal
    <2>3. CASE CreateCut /\ ~InUse'
      BY <2>3 DEF CreateCut, Rec
    <2> QED
      BY <2>1, <2>2, <2>3
  <1>3. recs[nextId].status = "absent" /\ dRecs[nextId].status = "absent" /\ nextId \notin dTombs
    BY <1>1 DEF Known, RecordsRetained
  <1>4. \A i \in Ids : i # nextId => /\ recs'[i] = recs[i] /\ dRecs'[i] = dRecs[i]
                                     /\ i \in snaps' <=> i \in snaps
    BY <1>1, <1>2 DEF Typed, RecordsTyped
  <1>5. /\ \/ recs'[nextId] = r /\ dRecs'[nextId] = r
           \/ ~InUse' /\ recs'[nextId].status = "absent"
        /\ dRecs'[nextId].status \in Active => nextId \in snaps'
    BY <1>1, <1>2, <1>3 DEF Rec, Active, Typed, RecordsTyped
  <1>6. \A i \in Ids : i < nextId => i < nextId'
    BY <1>1 DEF Ids
  <1>7. ASSUME NEW i \in Ids
        PROVE  /\ InUse' /\ recs'[i].status \in Active => recs'[i] = dRecs'[i]
               /\ recs'[i].status \in Terminal => dRecs'[i].status \notin Active
               /\ dRecs'[i].status \in Active => i \in snaps'
               /\ i \in dTombs' => i < nextId' /\ dRecs'[i].status \notin Active
    <2>1. CASE i = nextId
      BY <1>1, <1>3, <1>5, <2>1 DEF Active, Terminal
    <2>2. CASE i # nextId
      BY <1>1, <1>4, <1>6, <2>2 DEF RecordsRetained
    <2> QED
      BY <2>1, <2>2
  <1> QED
    BY <1>7 DEF RecordsRetained

(* A crash leaves of an operation that what is at work is still what it was. *)
LEMMA RetainedByCrash ==
    ASSUME Inv, RecordsRetained, ~InUse',
           CrashInTransition \/ CrashInLoad \/ \E i \in Ids : CrashInSweep(i)
    PROVE  RecordsRetained'
  <1>a. Typed /\ Known /\ UNCHANGED nextId
    BY DEF Inv, CrashInTransition, CrashInLoad, CrashInSweep, created
  <1>1. CASE CrashInTransition
    <2>1. PICK j \in Ids, s \in Terminal : dRecs' = [dRecs EXCEPT ![j] = Moved(j, s)]
                                           /\ recs[j].status = "processing"
      BY <1>1, <1>a DEF CrashInTransition, EndWritten, Holds, SettlesRecord, Unmoved, Rec, Typed,
                        WorkerTyped, CoordTyped
    <2>2. \A i \in Ids : dRecs'[i] = dRecs[i] \/ dRecs'[i].status \notin Active
      BY <1>a, <2>1 DEF Typed, RecordsTyped, Moved, Rec, Active, Terminal
    <2> QED
      BY <1>1, <1>a, <2>2 DEF CrashInTransition, RecordsRetained
  <1>2. CASE CrashInLoad
    <2>1. /\ \A i \in Ids : dRecs'[i] = dRecs[i] \/ dRecs'[i].status = "failed"
          /\ \A i \in snaps : \/ i \in snaps' \/ dRecs'[i].status = "failed"
                             \/ i \in dTombs \/ dRecs[i].status = "absent"
      BY <1>2, <1>a, HalfLoadedFiles DEF CrashInLoad, Typed
    <2>2. \A i \in Ids : dRecs'[i].status \in Active
                         => dRecs'[i] = dRecs[i] /\ (i \in snaps => i \in snaps')
      BY <2>1 DEF RecordsRetained, Active
    <2> QED
      BY <1>2, <1>a, <2>2 DEF CrashInLoad, RecordsRetained
  <1>3. ASSUME NEW j \in Ids, CrashInSweep(j)
        PROVE  RecordsRetained'
    <2>1. recs[j].status \in Terminal /\ j < nextId
      BY <1>3, <1>a DEF CrashInSweep, Swept, Terminal, Known
    <2> QED
      BY <1>3, <1>a, <2>1 DEF CrashInSweep, RecordsRetained
  <1> QED
    BY <1>1, <1>2, <1>3

LEMMA RetainedStep == Inv /\ Retained /\ [Next]_vars => Retained'
  <1> SUFFICES ASSUME Inv, Retained, [Next]_vars, faults' = 0
               PROVE  WorkerStarted' /\ RecordsRetained'
    BY DEF Retained
  <1>a. Typed /\ Known
    BY DEF Inv
  <1>b. faults = 0 /\ WorkerStarted /\ RecordsRetained
    BY <1>a, FaultsGrow, FaultSeen DEF Retained
  <1>c. ~Load => (InUse' => InUse)
    BY InUseEnters
  <1>d. Down => ~InUse'
    BY DEF Down, InUse
  <1>1. CASE (Start \/ Stop \/ Crash \/ Exit \/ UNCHANGED vars) /\ ~Load
    BY <1>1, <1>b, <1>c, WorkerStartedStep, RetainedFrame
       DEF Start, Stop, Crash, Exit, vars, records, created
  <1>2. CASE Load
    BY <1>2, <1>a, <1>b, WorkerStartedStep, RetainedByLoad
  <1>3. CASE InitialiseStep /\ ~Load
    <2>1. CASE \/ InitIndex \/ Finish \/ SettleImpossible \/ SettleEpoch \/ SettleRejected
               \/ \E d \in Docs : ReconcileDelete(d)
               \/ \E c \in init.recover : RecoverSkip(c) \/ RecoverLock(c)
      <3>1. UNCHANGED records /\ UNCHANGED nextId
        BY <2>1 DEF InitIndex, Finish, SettleImpossible, SettleEpoch, SettleRejected,
                    ReconcileDelete, RecoverSkip, RecoverLock, created
      <3> QED
        BY <1>3, <1>b, <1>c, <3>1, WorkerStartedStep, RetainedFrame DEF records
    <2>2. CASE SettleRecord
      <3> DEFINE i == init.held.id
                 r == Moved(i, Outcome(i))
      <3>1. i \in Ids /\ recs[i].status \in Active /\ UNCHANGED nextId /\ InUse
        BY <1>a, <2>2 DEF SettleRecord, SettlesRecord, Settling, Unmoved, Rec, Active, Typed,
                          CoordTyped, created, InUse, NoInit, Initialising
      <3>2. r.status \in Active \cup Terminal
        BY DEF Moved, Rec, Outcome, Active, Terminal
      <3>3. Put(i, r)
        BY <1>a, <1>b, <2>2, NothingFails DEF SettleRecord
      <3> HIDE DEF i, r
      <3> QED
        BY <1>a, <1>b, <3>1, <3>2, <3>3, WorkerStartedStep, RetainedByPut
    <2> QED
      BY <1>3, <2>1, <2>2 DEF InitialiseStep
  <1>4. CASE WorkerStep /\ ~Load
    <2>1. /\ UNCHANGED nextId /\ worker.pc # "off"
          /\ worker.pc \notin {"off", "idle", "waiting"} => worker.id \in Ids
      BY <1>4, <1>a DEF WorkerStep, Pick, WorkerExit, Claim, ReadSnapshot, Embed, Abort,
                        Revalidate, Merge, PublishEpoch, Complete, Requeue, Fail, created, Typed,
                        WorkerTyped
    <2>2. CASE Claim \/ Complete \/ Requeue \/ Fail
      <3>1. \/ UNCHANGED records
            \/ \E s \in {"processing", "completed", "queued", "failed"} :
                   /\ recs[worker.id].status \in Active
                   /\ Put(worker.id, Moved(worker.id, s))
        BY <2>2, <1>a, <1>b, NothingFails DEF Claim, Complete, Requeue, Fail, Leave, Holds, Rec,
                                              Active
      <3>2. worker.id \in Ids /\ InUse
        BY <1>b, <2>1, <2>2 DEF Claim, Complete, Requeue, Fail, InUse, WorkerStarted
      <3>3. \A s \in {"processing", "completed", "queued", "failed"} :
              Moved(worker.id, s).status \in Active \cup Terminal
        BY DEF Moved, Rec, Active, Terminal
      <3> QED
        BY <1>4, <1>a, <1>b, <1>c, <2>1, <3>1, <3>2, <3>3, WorkerStartedStep, RetainedByPut,
           RetainedFrame DEF records
    <2>3. CASE \/ Pick \/ WorkerExit \/ ReadSnapshot \/ Embed \/ Abort \/ Revalidate
               \/ Merge \/ PublishEpoch
      <3>1. UNCHANGED records
        BY <2>3 DEF Pick, WorkerExit, ReadSnapshot, Embed, Abort, Revalidate, Merge, PublishEpoch
      <3> QED
        BY <1>4, <1>b, <1>c, <2>1, <3>1, WorkerStartedStep, RetainedFrame DEF records
    <2> QED
      BY <1>4, <2>2, <2>3 DEF WorkerStep
  <1>5. CASE Client /\ ~Load
    <2>1. CASE CreateQueued \/ CreateCompletedHit
      BY <1>5, <1>a, <1>b, <1>c, <2>1, WorkerStartedStep, RetainedByCreation
    <2>2. CASE ~CreateQueued /\ ~CreateCompletedHit
      <3>1. UNCHANGED records /\ UNCHANGED nextId
        BY <1>5, <1>a, <1>b, <2>2, NothingFails
           DEF Client, SubmitAsk, SubmitHit, SubmitMiss, SubmitAnswered, FindInconsistent,
               DeleteAsk, DeleteRefused, WriteIntent, SearchVector, SearchText, DeleteRows,
               Acknowledge, created
      <3> QED
        BY <1>5, <1>b, <1>c, <3>1, WorkerStartedStep, RetainedFrame DEF records
    <2> QED
      BY <2>1, <2>2
  <1>6. ASSUME NEW i \in Ids, Expire(i) \/ SweepTombstone(i), ~Load
        PROVE  WorkerStarted' /\ RecordsRetained'
    <2>1. UNCHANGED <<recs, dRecs, snaps, nextId>> /\ dTombs' \subseteq dTombs
      BY <1>6 DEF Expire, SweepTombstone, created
    <2> QED
      BY <1>b, <1>c, <1>6, <2>1, WorkerStartedStep DEF RecordsRetained
  <1>7. ASSUME NEW i \in Ids, Sweep(i), ~Load
        PROVE  WorkerStarted' /\ RecordsRetained'
    <2>1. recs[i].status # "absent" /\ i < nextId
      BY <1>a, <1>7 DEF Sweep, Swept, Terminal, Known
    <2>2. /\ \A j \in Ids : j # i => recs'[j] = recs[j] /\ dRecs'[j] = dRecs[j]
          /\ recs'[i].status = "absent" /\ dRecs'[i].status = "absent"
          /\ dTombs' = dTombs \cup {i} /\ UNCHANGED <<snaps, nextId>>
      BY <1>a, <1>7 DEF Sweep, Typed, RecordsTyped, Gone, Rec, created
    <2> QED
      BY <1>b, <1>c, <1>7, <2>1, <2>2, WorkerStartedStep DEF RecordsRetained, Active, Terminal
  <1>8. CASE CrashInside
    <2>1. Down
      BY <1>8 DEF CrashInside, CreateCut, CrashInTransition, CrashInLoad, CrashInSweep,
                  CrashInReconcile
    <2>2. CASE \E d \in Docs : CrashInReconcile(d)
      BY <2>2, <1>b, <1>d, <2>1, WorkerStartedStep, RetainedFrame
         DEF CrashInReconcile, records, created
    <2>3. CASE CreateCut
      BY <1>a, <1>b, <1>d, <2>1, <2>3, WorkerStartedStep, RetainedByCreation
    <2> QED
      BY <1>8, <1>b, <1>d, <2>1, <2>2, <2>3, WorkerStartedStep, RetainedByCrash DEF CrashInside
  <1>9. ~Failure /\ \A i \in Ids : ~SweepFails(i)
    BY <1>a, <1>b, NothingFails
  <1> QED
    BY <1>1, <1>2, <1>3, <1>4, <1>5, <1>6, <1>7, <1>8, <1>9 DEF Next, Retention

LEMMA RetainedInvariant == Spec => []Retained
  <1>1. Init => Retained
    BY DEF Init, Retained, WorkerStarted, RecordsRetained, Off, Loop, Gone, Rec, Active, Terminal
  <1> QED BY <1>1, RetainedStep, IndexInvariant, PTL DEF Spec

(* file-rag-repository.ts publishes a snapshot before it writes the record   *)
(* and removes it after the record that ends the ingestion, and a start      *)
(* removes only those of no record: unless an operation fails, a crash at    *)
(* any step leaves every ingestion at work with what it is made from.        *)
THEOREM SnapshotStays == Spec => []SnapshotRetained
  <1>1. Retained => SnapshotRetained
    BY DEF Retained, RecordsRetained, SnapshotRetained
  <1> QED BY <1>1, RetainedInvariant, PTL

----------------------------------------------------------------------------
(* What a publication has written stands until its record is written.        *)

Standing ==
    LET i == worker.id
        d == ing[i].doc
    IN  /\ worker.pc \in {"epoch", "complete"} => rows[d] = i
        /\ worker.pc = "complete" => epochs[d] = ActiveEpoch(i) /\ dEpochs[d] = ActiveEpoch(i)

(* Nobody else writes the table or the epoch of the document meanwhile.      *)
LEMMA StandingKept ==
    ASSUME Inv, Standing, UNCHANGED worker,
           Publishing => /\ UNCHANGED <<rows, epochs, dEpochs>> \/ Load
                         /\ ing'[worker.id] = ing[worker.id]
    PROVE  Standing'
  <1>1. CASE ~Publishing
    BY <1>1 DEF Standing, Publishing
  <1>2. CASE Publishing
    <2>1. ing[worker.id].doc \in Docs
      BY <1>2 DEF Inv, Fencing, PublisherIsNew
    <2>2. CASE UNCHANGED <<rows, epochs, dEpochs>>
      BY <1>2, <2>2 DEF Standing, ActiveEpoch
    <2>3. CASE Load
      BY <1>2, <2>1, <2>3 DEF Standing, ActiveEpoch, Load
    <2> QED
      BY <1>2, <2>2, <2>3
  <1> QED
    BY <1>1, <1>2

LEMMA StandingStep == Inv /\ Standing /\ [Next]_vars => Standing'
  <1> SUFFICES ASSUME Inv, Standing, [Next]_vars
               PROVE  Standing'
    OBVIOUS
  <1>a. worker'.pc \notin {"epoch", "complete"} => Standing'
    BY DEF Standing
  <1>1. CASE Crash \/ Exit \/ CrashInside \/ SettleRejected
    BY <1>a, <1>1 DEF Crash, Exit, CrashInside, CreateCut, CrashInTransition, CrashInLoad,
                      CrashInSweep, CrashInReconcile, SettleRejected, Down, Off, Loop
  <1>2. CASE Start \/ Stop \/ Retention \/ UNCHANGED vars
    BY <1>2, StandingKept DEF Start, Stop, Retention, Expire, Sweep, SweepFails, SweepTombstone,
                              vars, procs, epochal, created
  <1>3. CASE InitialiseStep \/ Failure
    <2>1. CASE Finish
      <3>1. worker' = worker \/ worker' = Idle
        BY <2>1 DEF Finish
      <3> QED
        BY <1>a, <2>1, <3>1, StandingKept DEF Finish, Idle, Loop, epochal, created
    <2>2. CASE Load \/ LoadFails \/ InitIndex
      BY <2>2, StandingKept DEF Load, LoadFails, InitIndex, procs, epochal, created
    <2>3. ASSUME NEW d \in Docs, ReconcileDelete(d) \/ ReconcileDeleteFails(d)
          PROVE  Standing'
      BY <2>3, StandingKept DEF ReconcileDelete, ReconcileDeleteFails, CanWrite, CanRead, Writing,
                                procs
    <2>4. ASSUME NEW c \in init.recover, RecoverSkip(c) \/ RecoverLock(c)
          PROVE  Standing'
      BY <2>4, StandingKept DEF RecoverSkip, RecoverLock, procs, epochal, created
    <2>5. CASE SettleImpossible \/ SettleEpoch \/ SettleRecord
      <3>1. ~Publishing
        BY <2>5 DEF SettleImpossible, SettleEpoch, EpochBehind, SettleRecord, SettlesRecord, Inv,
                    Fencing, SettlesAlone
      <3> QED
        BY <2>5, <3>1, StandingKept DEF SettleImpossible, SettleEpoch, SettleRecord, procs
    <2> QED
      BY <1>1, <1>3, <2>1, <2>2, <2>3, <2>4, <2>5 DEF InitialiseStep, Failure
  <1>4. CASE Merge
    <2> DEFINE i == worker.id
               d == ing[i].doc
    <2>1. i \in Ids /\ d \in Docs /\ UNCHANGED ing
      BY <1>4 DEF Merge, Inv, Typed, WorkerTyped, Fencing, PublisherIsNew, Publishing, created
    <2>2. CASE WorkerFatal
      BY <1>a, <2>2 DEF WorkerFatal, Off, Loop
    <2>3. CASE rows' = [rows EXCEPT ![d] = i] /\ Goto("epoch")
      <3>1. worker'.id = i /\ worker'.pc = "epoch" /\ rows'[d] = i
        BY <2>1, <2>3 DEF Goto, Inv, Typed, WorkerTyped, RowsTyped
      <3> QED
        BY <2>1, <3>1 DEF Standing
    <2> QED
      BY <1>4, <2>2, <2>3 DEF Merge
  <1>5. CASE PublishEpoch
    <2> DEFINE i == worker.id
               d == ing[i].doc
    <2>1. i \in Ids /\ d \in Docs /\ UNCHANGED ing /\ UNCHANGED rows /\ rows[d] = i
      BY <1>5 DEF PublishEpoch, Inv, Typed, WorkerTyped, Fencing, PublisherIsNew, Publishing,
                  created, Standing
    <2>2. CASE WorkerFatal
      BY <1>a, <2>2 DEF WorkerFatal, Off, Loop
    <2>3. CASE PutEpoch(d, ActiveEpoch(i)) /\ Goto("complete")
      <3>1. /\ worker'.id = i /\ epochs'[d] = ActiveEpoch(i) /\ dEpochs'[d] = ActiveEpoch(i)
        BY <2>1, <2>3 DEF Goto, Inv, Typed, WorkerTyped, EpochsTyped, PutEpoch
      <3> QED
        BY <2>1, <3>1 DEF Standing, ActiveEpoch
    <2> QED
      BY <1>5, <2>2, <2>3 DEF PublishEpoch
  <1>6. CASE \/ Pick \/ WorkerExit \/ Claim \/ ReadSnapshot \/ Embed \/ Abort \/ Revalidate
             \/ Complete \/ Requeue \/ Fail
    <2>1. CASE Pick \/ WorkerExit \/ Claim
      BY <1>a, <2>1 DEF Pick, WorkerExit, Claim, Loop, Off, WorkerFatal
    <2>2. CASE ReadSnapshot \/ Embed \/ Abort \/ Revalidate
      BY <1>a, <2>2 DEF ReadSnapshot, Embed, Abort, Revalidate, Goto, WorkerFatal, Loop, Off,
                        Inv, Typed, WorkerTyped
    <2>3. CASE Complete \/ Requeue \/ Fail
      BY <1>a, <2>3 DEF Complete, Requeue, Fail, Leave, BackToLoop, WorkerFatal, Loop, Off, Idle
    <2> QED
      BY <1>6, <2>1, <2>2, <2>3
  <1>7. CASE Client
    <2>1. CASE CreateQueued \/ CreateFails \/ CreateCompletedHit
      <3>1. worker' = worker \/ worker' = Idle
        BY <2>1 DEF CreateQueued, CreateFails, CreateCompletedHit, Notified
      <3>2. UNCHANGED <<rows, epochs, dEpochs>> /\ NewIngestion
        BY <2>1 DEF CreateQueued, CreateFails, CreateCompletedHit, epochal
      <3>3. ASSUME Publishing
            PROVE  ing'[worker.id] = ing[worker.id]
        <4>1. worker.id \in Ids /\ worker.id < nextId /\ nextId \in Nat
          BY <3>3 DEF Publishing, Inv, Typed, WorkerTyped, CreatedTyped, Fencing, PublisherIsNew,
                      Born
        <4>2. worker.id # nextId
          BY <4>1 DEF Ids
        <4> QED
          BY <3>2, <4>1, <4>2 DEF NewIngestion, Inv, Typed, CreatedTyped
      <3> QED
        BY <1>a, <3>1, <3>2, <3>3, StandingKept DEF Idle, Loop
    <2>3. ASSUME NEW d \in Docs, WriteIntent(d)
          PROVE  Standing'
      BY <2>3, StandingKept DEF WriteIntent, MayDelete, CanWrite, CanRead, Writing
    <2>4. CASE DeleteRows \/ Acknowledge
      BY <2>4, StandingKept DEF DeleteRows, Acknowledge, Inv, Fencing, DeletionFences, Deleting
    <2>5. ASSUME NEW d \in Docs,
                 \/ \E v \in Versions :
                       SubmitHit(d, v) \/ SubmitMiss(d, v) \/ SubmitAnswered(d, v)
                 \/ FindInconsistent(d) \/ DeleteRefused(d) \/ SearchVector(d)
          PROVE  Standing'
      BY <2>5, StandingKept DEF SubmitHit, SubmitMiss, SubmitAnswered, FindInconsistent,
                                DeleteRefused, SearchVector, procs, epochal, created
    <2>6. CASE SubmitAsk \/ DeleteAsk \/ SearchText
      BY <2>6, StandingKept DEF SubmitAsk, DeleteAsk, SearchText, epochal, created
    <2> QED
      BY <1>7, <2>1, <2>3, <2>4, <2>5, <2>6 DEF Client
  <1> QED
    BY <1>1, <1>2, <1>3, <1>4, <1>5, <1>6, <1>7 DEF Next, WorkerStep

LEMMA StandingInvariant == Spec => []Standing
  <1>1. Init => Standing
    BY DEF Init, Standing, Off, Loop
  <1> QED BY <1>1, StandingStep, IndexInvariant, PTL DEF Spec

(* A record is written as completed by the worker at the end of a            *)
(* publication, by a recovery that found the rows, or at its creation.       *)
CompletesPublished == \A i \in Ids :
    dRecs[i].status \in Active /\ dRecs'[i].status = "completed"
    => rows'[ing[i].doc] = i /\ epochs'[ing[i].doc] = ActiveEpoch(i)

LEMMA CompletesNothing ==
    ASSUME \A i \in Ids : dRecs'[i] = dRecs[i] \/ dRecs'[i].status # "completed"
    PROVE  CompletesPublished
  BY DEF CompletesPublished, Active

LEMMA CompletesOne ==
    ASSUME Typed, NEW j \in Ids, NEW r, Put(j, r) \/ PutFails(j, r),
           r.status = "completed"
           => rows'[ing[j].doc] = j /\ epochs'[ing[j].doc] = ActiveEpoch(j)
    PROVE  CompletesPublished
  <1>1. \A i \in Ids : dRecs'[i] = dRecs[i] \/ (i = j /\ dRecs'[i] = r)
    BY DEF Typed, RecordsTyped, Put, PutFails
  <1> QED
    BY <1>1 DEF CompletesPublished, Active

(* A recovery that finds the rows looks at the epoch before it ends anything. *)
LEMMA SettledIsActive ==
    ASSUME Inv, SettlesRecord, Published(init.held.id)
    PROVE  epochs[ing[init.held.id].doc] = ActiveEpoch(init.held.id)
  <1> DEFINE i == init.held.id
             d == ing[i].doc
  <1>1. i \in Ids /\ d \in Docs
    BY DEF SettlesRecord, Inv, Typed, CoordTyped, Fencing, SettlesAlone, Known
  <1>2. Consistent(d) /\ rows[d] = i /\ i # 0 /\ epochs[d] \in EpochRecord
    BY <1>1 DEF SettlesRecord, EpochBehind, Published, Inv, Typed, EpochsTyped, Ids
  <1> QED
    BY <1>1, <1>2 DEF Consistent, Agree, ActiveEpoch, Epoch, EpochRecord

LEMMA CompletionStep == Inv /\ Standing /\ [Next]_vars => [CompletesPublished]_vars
  <1> SUFFICES ASSUME Inv, Standing, Next
               PROVE  CompletesPublished
    OBVIOUS
  <1>t. Inv
    OBVIOUS
  <1>a. Typed /\ Known
    BY DEF Inv
  <1>1. CASE Start \/ Stop \/ Crash \/ Exit
    BY <1>1, CompletesNothing DEF Start, Stop, Crash, Exit, records
  <1>2. CASE InitialiseStep \/ Failure
    <2>1. CASE Load
      BY <2>1, CompletesNothing DEF Load, Repair, Rec
    <2>2. CASE LoadFails
      <3>1. \A i \in Ids : dRecs'[i] = dRecs[i] \/ dRecs'[i].status = "failed"
        BY <1>a, <2>2, HalfLoadedFiles DEF LoadFails, Typed
      <3> QED
        BY <3>1, CompletesNothing
    <2>3. CASE InitIndex \/ Finish \/ SettleImpossible \/ SettleEpoch \/ SettleRejected
      BY <2>3, CompletesNothing DEF InitIndex, Finish, SettleImpossible, SettleEpoch,
                                    SettleRejected, records
    <2>4. ASSUME NEW d \in Docs, ReconcileDelete(d) \/ ReconcileDeleteFails(d)
          PROVE  CompletesPublished
      BY <2>4, CompletesNothing DEF ReconcileDelete, ReconcileDeleteFails, records
    <2>5. ASSUME NEW c \in init.recover, RecoverSkip(c) \/ RecoverLock(c)
          PROVE  CompletesPublished
      BY <2>5, CompletesNothing DEF RecoverSkip, RecoverLock, records
    <2>6. CASE SettleRecord
      <3> DEFINE i == init.held.id
                 d == ing[i].doc
                 r == Moved(i, Outcome(i))
      <3>1. i \in Ids
        BY <1>a, <2>6 DEF SettleRecord, SettlesRecord, Typed, CoordTyped
      <3>2. Put(i, r) \/ PutFails(i, r)
        BY <2>6 DEF SettleRecord
      <3>3. ASSUME r.status = "completed"
            PROVE  rows'[d] = i /\ epochs'[d] = ActiveEpoch(i)
        <4>1. rows[d] = i /\ SettlesRecord /\ UNCHANGED <<rows, epochs>>
          BY <2>6, <3>3 DEF Moved, Rec, Outcome, Published, SettleRecord, epochal
        <4> QED
          BY <1>t, <4>1, SettledIsActive DEF Published
      <3> QED
        BY <1>a, <3>1, <3>2, <3>3, CompletesOne
    <2> QED
      BY <1>2, <2>1, <2>2, <2>3, <2>4, <2>5, <2>6 DEF InitialiseStep, Failure
  <1>3. CASE Complete
    <2>1. worker.id \in Ids
      BY <1>a, <1>3 DEF Complete, Typed, WorkerTyped
    <2>2. /\ rows'[ing[worker.id].doc] = worker.id
          /\ epochs'[ing[worker.id].doc] = ActiveEpoch(worker.id)
      BY <1>3 DEF Complete, Standing, epochal
    <2>3. CASE UNCHANGED records
      BY <2>3, CompletesNothing DEF records
    <2>4. CASE \E r : Put(worker.id, r) \/ PutFails(worker.id, r)
      BY <1>a, <2>1, <2>2, <2>4, CompletesOne
    <2> QED
      BY <1>3, <2>3, <2>4 DEF Complete, Leave
  <1>4. CASE Claim \/ Requeue \/ Fail
    <2>1. worker.id \in Ids
      BY <1>a, <1>4 DEF Claim, Requeue, Fail, Typed, WorkerTyped
    <2>2. \/ UNCHANGED records
          \/ \E t \in {"processing", "queued", "failed"} :
                 Put(worker.id, Moved(worker.id, t)) \/ PutFails(worker.id, Moved(worker.id, t))
      BY <1>4 DEF Claim, Requeue, Fail, Leave
    <2>3. \A t \in {"processing", "queued", "failed"} : Moved(worker.id, t).status # "completed"
      BY DEF Moved, Rec
    <2>4. CASE UNCHANGED records
      BY <2>4, CompletesNothing DEF records
    <2> QED
      BY <1>a, <2>1, <2>2, <2>3, <2>4, CompletesOne
  <1>5. CASE \/ Pick \/ WorkerExit \/ ReadSnapshot \/ Embed \/ Abort \/ Revalidate
             \/ Merge \/ PublishEpoch
    BY <1>5, CompletesNothing DEF Pick, WorkerExit, ReadSnapshot, Embed, Abort, Revalidate, Merge,
                                  PublishEpoch, records
  <1>6. CASE Client
    <2>1. CASE CreateQueued \/ CreateFails
      <3>1. dRecs' \in {dRecs, [dRecs EXCEPT ![nextId] = Rec("queued", 0)]}
        BY <2>1 DEF CreateQueued, CreateFails
      <3>2. \A i \in Ids : dRecs'[i] = dRecs[i] \/ dRecs'[i].status # "completed"
        BY <1>a, <3>1 DEF Typed, RecordsTyped, Rec
      <3> QED
        BY <3>2, CompletesNothing
    <2>2. CASE CreateCompletedHit
      <3>1. nextId \in Ids /\ dRecs[nextId].status \notin Active
        BY <1>a, <2>2 DEF CreateCompletedHit, Typed, CallsTyped, Known, Ids, Active, Decided
      <3>2. \A i \in Ids : i # nextId => dRecs'[i] = dRecs[i]
        BY <1>a, <2>2, <3>1 DEF CreateCompletedHit, Put, PutFails, Typed, RecordsTyped
      <3> QED
        BY <3>1, <3>2 DEF CompletesPublished, Active
    <2>3. ASSUME NEW d \in Docs,
                 \/ \E v \in Versions :
                       SubmitHit(d, v) \/ SubmitMiss(d, v) \/ SubmitAnswered(d, v)
                 \/ FindInconsistent(d) \/ DeleteRefused(d) \/ WriteIntent(d) \/ SearchVector(d)
          PROVE  CompletesPublished
      BY <2>3, CompletesNothing DEF SubmitHit, SubmitMiss, SubmitAnswered, FindInconsistent,
                                    DeleteRefused, WriteIntent, SearchVector, records
    <2>4. CASE SubmitAsk \/ DeleteAsk \/ DeleteRows \/ Acknowledge \/ SearchText
      BY <2>4, CompletesNothing DEF SubmitAsk, DeleteAsk, DeleteRows, Acknowledge, SearchText,
                                    records
    <2> QED
      BY <1>6, <2>1, <2>2, <2>3, <2>4 DEF Client
  <1>7. ASSUME NEW i \in Ids, Expire(i) \/ Sweep(i) \/ SweepFails(i) \/ SweepTombstone(i)
        PROVE  CompletesPublished
    <2>1. dRecs' \in {dRecs, [dRecs EXCEPT ![i] = Gone]}
      BY <1>7 DEF Expire, Sweep, SweepFails, SweepTombstone
    <2>2. \A j \in Ids : dRecs'[j] = dRecs[j] \/ dRecs'[j].status # "completed"
      BY <1>a, <2>1 DEF Typed, RecordsTyped, Gone, Rec
    <2> QED
      BY <2>2, CompletesNothing
  <1>8. CASE CrashInside
    <2>1. CASE CreateCut
      <3>1. \A i \in Ids : dRecs'[i] = dRecs[i] \/ dRecs'[i].status # "completed"
        BY <1>a, <2>1 DEF CreateCut, Typed, RecordsTyped, Rec
      <3> QED
        BY <3>1, CompletesNothing
    <2>2. CASE CrashInTransition
      <3>1. PICK i \in Ids, s \in Terminal :
              /\ dRecs' = [dRecs EXCEPT ![i] = Moved(i, s)]
              /\ s = "completed" =>
                    \/ worker.pc = "complete" /\ i = worker.id
                    \/ SettlesRecord /\ i = init.held.id /\ Published(i)
        <4>1. (SettlesRecord => init.held.id \in Ids)
              /\ (worker.pc \in {"complete", "fail", "failfatal"} => worker.id \in Ids)
          BY <1>a DEF SettlesRecord, Typed, CoordTyped, WorkerTyped
        <4>2. Outcome(init.held.id) = "completed" => Published(init.held.id)
          BY DEF Outcome
        <4> QED
          BY <2>2, <4>1, <4>2 DEF CrashInTransition, EndWritten
      <3>2. \A j \in Ids : dRecs'[j] = dRecs[j] \/ (j = i /\ dRecs'[j].status = s)
        BY <1>a, <3>1 DEF Typed, RecordsTyped, Moved, Rec
      <3>3. ASSUME s = "completed"
            PROVE  rows'[ing[i].doc] = i /\ epochs'[ing[i].doc] = ActiveEpoch(i)
        <4>1. UNCHANGED <<rows, epochs>>
          BY <2>2 DEF CrashInTransition, epochal
        <4>2. CASE worker.pc = "complete" /\ i = worker.id
          BY <4>1, <4>2 DEF Standing
        <4>3. CASE SettlesRecord /\ i = init.held.id /\ Published(i)
          BY <1>t, <4>1, <4>3, SettledIsActive DEF Published
        <4> QED
          BY <3>1, <3>3, <4>2, <4>3
      <3> QED
        BY <3>2, <3>3 DEF CompletesPublished, Active
    <2>3. CASE CrashInLoad
      <3>1. \A i \in Ids : dRecs'[i] = dRecs[i] \/ dRecs'[i].status = "failed"
        BY <1>a, <2>3, HalfLoadedFiles DEF CrashInLoad, Typed
      <3> QED
        BY <3>1, CompletesNothing
    <2>4. CASE (\E i \in Ids : CrashInSweep(i)) \/ (\E d \in Docs : CrashInReconcile(d))
      BY <2>4, CompletesNothing DEF CrashInSweep, CrashInReconcile, records
    <2> QED
      BY <1>8, <2>1, <2>2, <2>3, <2>4 DEF CrashInside
  <1> QED
    BY <1>1, <1>2, <1>3, <1>4, <1>5, <1>6, <1>7, <1>8 DEF Next, WorkerStep, Retention

(* VER-08: rag-ingestion-worker.ts writes the record of a publication last,  *)
(* and its recovery calls completed only what the table shows: whatever      *)
(* fails or crashes, success is never inferred from half a publication.      *)
THEOREM CompletionIsPublication == Spec => CompletedIsPublished
  <1>1. [CompletesPublished]_vars =>
          [\A i \in Ids :
             dRecs[i].status \in Active /\ dRecs'[i].status = "completed"
             => rows'[ing[i].doc] = i /\ epochs'[ing[i].doc] = ActiveEpoch(i)]_vars
    BY DEF CompletesPublished
  <1> QED
    BY <1>1, CompletionStep, StandingInvariant, IndexInvariant, PTL
       DEF Spec, CompletedIsPublished

----------------------------------------------------------------------------
(* Without a failing operation the coordinator initialises once per life of  *)
(* the process, and every disagreement of an epoch and its rows is the       *)
(* unfinished work of somebody who will finish it.                           *)

RecordsLoaded == \A i \in Ids : dRecs[i].status \in Active => recs[i] = dRecs[i]

(* One initialisation, then the worker and the calls.                        *)
Lifetime ==
    /\ phase = "down" => ~started /\ init = NoInit
    /\ started => init = NoInit /\ ~retry
    /\ ~started => ~ready /\ worker.pc = "off" /\ sub = NoWork /\ del = NoWork

MemoryIsDisk == epochs = dEpochs /\ (started \/ init # NoInit => RecordsLoaded)

Pending(d) == epochs[d].state = "delete_pending"
AtWork == worker.pc \in {"snapshot", "embed", "publish", "merge", "epoch", "complete",
                         "retry", "fail"}

(* Nobody takes the claimed ingestion, nor fences off its publication.       *)
ClaimHeld ==
    /\ worker.pc # "failfatal"
    /\ AtWork => recs[worker.id] = Rec("processing", worker.rev)
    /\ Publishing => LET d == ing[worker.id].doc IN
                     epochs[d].gen = ing[worker.id].gen /\ ~Pending(d)

(* Of the ingestions of a document the files have one at work, and none when *)
(* a submission is about to create one.                                      *)
OneOnDisk ==
    /\ \A i, j \in Ids : dRecs[i].status \in Active /\ dRecs[j].status \in Active
                         /\ ing[i].doc = ing[j].doc => i = j
    /\ sub.pc = "create" => \A i \in Ids : dRecs[i].status \in Active => ing[i].doc # sub.doc

(* The rows are published and the epoch is not: the ingestion is at work.    *)
Half(d) == /\ rows[d] # 0 /\ ~Pending(d)
           /\ dRecs[rows[d]].status = "processing" /\ ing[rows[d]].gen = epochs[d].gen

(* A document whose epoch is not that of its rows is being deleted or        *)
(* published; after a crash the initialisation is going to settle it.        *)
Accounted(d) ==
    /\ Consistent(d) \/ Pending(d) \/ Half(d)
    /\ started => /\ Pending(d) <=> (Deleting /\ del.doc = d)
                  /\ Half(d) => Consistent(d) \/ (worker.pc = "epoch" /\ worker.id = rows[d])
    /\ init # NoInit =>
         /\ Pending(d) => d \in init.deletes
         /\ Half(d) => \/ Consistent(d)
                       \/ [id |-> rows[d], rev |-> recs[rows[d]].rev]
                          \in init.recover \cup {init.held}

Explained == \A d \in Docs : Accounted(d)

HeldOnlySettling == ~Settling => init.held = NoInit.held

QuietParts ==
    /\ Lifetime /\ MemoryIsDisk /\ ClaimHeld /\ OneOnDisk /\ Explained
    /\ HeldOnlySettling

Quiet == faults = 0 => QuietParts

(* What the worker does when nothing fails.                                  *)
WorkerMoves ==
    /\ UNCHANGED <<recs, dRecs, epochs, dEpochs, rows>>
    /\ \/ /\ worker.pc \in {"idle", "waiting", "claim"}
          /\ worker'.pc \in {"off", "idle", "waiting", "claim"}
       \/ /\ worker.pc \in {"snapshot", "embed", "publish"}
          /\ \E pc \in {"embed", "publish", "retry", "fail"} : Goto(pc)
       \/ worker.pc = "publish" /\ ~Stale(worker.id) /\ Goto("merge")

WorkerClaims ==
    /\ UNCHANGED <<epochs, dEpochs, rows>>
    /\ worker.pc = "claim" /\ recs[worker.id] = Rec("queued", worker.rev)
    /\ Put(worker.id, Moved(worker.id, "processing"))
    /\ worker' = Loop("snapshot", worker.id, worker.rev + 1)

WorkerMerges ==
    /\ UNCHANGED <<recs, dRecs, epochs, dEpochs>> /\ worker.pc = "merge" /\ Goto("epoch")
    /\ rows' = [rows EXCEPT ![ing[worker.id].doc] = worker.id]

WorkerPublishes ==
    /\ UNCHANGED <<recs, dRecs, rows>> /\ worker.pc = "epoch" /\ Goto("complete")
    /\ PutEpoch(ing[worker.id].doc, ActiveEpoch(worker.id))

WorkerEnds ==
    /\ UNCHANGED <<epochs, dEpochs, rows>> /\ worker.pc \in {"complete", "retry", "fail"}
    /\ worker' = Idle
    /\ \E t \in {"completed", "queued", "failed"} : Put(worker.id, Moved(worker.id, t))

LEMMA QuietWorker ==
    ASSUME Inv, Retained, faults = 0, faults' = 0, Lifetime, MemoryIsDisk, ClaimHeld, Explained,
           WorkerStep
    PROVE  /\ WorkerMoves \/ WorkerClaims \/ WorkerMerges \/ WorkerPublishes \/ WorkerEnds
           /\ UNCHANGED <<coord, ing, nextId, sub, del>> /\ worker.pc # "off"
  <1>t. Typed /\ Known /\ Fencing /\ ~Fault
    BY FaultSeen DEF Inv
  <1>w. worker.pc \notin {"off", "idle", "waiting"} => worker.id \in Ids
    BY <1>t DEF Typed, WorkerTyped
  <1>h. AtWork => recs[worker.id] = Rec("processing", worker.rev)
    BY DEF ClaimHeld
  <1>1. CASE Pick \/ WorkerExit
    BY <1>1 DEF Pick, WorkerExit, WorkerMoves, records, epochal, created, Loop, Off
  <1>2. CASE Claim
    BY <1>2, <1>t DEF Claim, PutFails, WorkerMoves, WorkerClaims, records, epochal, created, Loop
  <1>3. CASE ReadSnapshot
    <2>1. worker.id \in snaps
      <3>1. recs[worker.id].status = "processing" /\ worker.id \in Ids /\ InUse
        BY <1>3, <1>h, <1>w DEF ReadSnapshot, AtWork, Rec, Lifetime, InUse
      <3> QED BY <3>1 DEF Retained, RecordsRetained, Active
    <2> QED BY <1>3, <1>t, <2>1 DEF ReadSnapshot, WorkerMoves, records, epochal, created
  <1>4. CASE Embed \/ Abort
    BY <1>4, <1>t DEF Embed, Abort, WorkerMoves, records, epochal, created
  <1>5. CASE Revalidate
    <2>1. worker.id \in Ids /\ worker.pc = "publish" /\ worker.id < nextId
      BY <1>5, <1>h, <1>w, <1>t DEF Revalidate, AtWork, Rec, Known
    <2>2. ing[worker.id].doc \in Docs /\ started
      BY <1>t, <2>1 DEF Known, Lifetime
    <2>3. ~Stale(worker.id) => Consistent(ing[worker.id].doc)
      BY <2>1, <2>2 DEF Stale, Explained, Accounted, Pending
    <2> QED BY <1>5, <1>t, <2>1, <2>3 DEF Revalidate, WorkerMoves, records, epochal, created
  <1>6. CASE Merge
    BY <1>6, <1>t DEF Merge, WorkerMerges, records, epochal, created
  <1>7. CASE PublishEpoch
    <2>1. epochs[ing[worker.id].doc].gen = ing[worker.id].gen
      BY <1>7 DEF PublishEpoch, ClaimHeld, Publishing
    <2> QED BY <1>7, <1>t, <2>1 DEF PublishEpoch, PutEpochFails, WorkerPublishes, records, created
  <1>8. CASE Complete \/ Requeue \/ Fail
    <2>1. worker.pc \in {"complete", "retry", "fail"} /\ Holds
      BY <1>8, <1>h DEF Complete, Requeue, Fail, ClaimHeld, AtWork, Holds
    <2> QED
      BY <1>8, <1>t, <2>1
         DEF Complete, Requeue, Fail, Leave, PutFails, BackToLoop, WorkerEnds, epochal, created
  <1> QED BY <1>1, <1>2, <1>3, <1>4, <1>5, <1>6, <1>7, <1>8 DEF WorkerStep

(* What the initialisation, the calls and the sweep do when nothing fails.   *)
Halts ==
    /\ Down /\ UNCHANGED <<epochs, dEpochs>>
    /\ \/ UNCHANGED <<dRecs, ing, rows>>
       \/ CreateCut \/ CrashInTransition
       \/ \E d \in Docs : CrashInReconcile(d)

Settles ==
    /\ init # NoInit /\ UNCHANGED <<phase, records, epochs, dEpochs, rows, created, procs>>
    /\ \/ InitFailed
       \/ /\ init.pc = "index" /\ init' = [init EXCEPT !.pc = "reconcile"]
          /\ UNCHANGED <<ready, retry, started>>
       \/ \E c \in init.recover :
            /\ init.pc = "reconcile" /\ UNCHANGED <<ready, retry, started>>
            /\ \/ ~StillOwns(c.id, c.rev) /\ init' = [init EXCEPT !.recover = @ \ {c}]
               \/ init' = [init EXCEPT !.pc = "settle", !.recover = @ \ {c}, !.held = c]

SettlesEpoch ==
    /\ EpochBehind /\ UNCHANGED <<coord, records, rows, created, procs>>
    /\ PutEpoch(ing[init.held.id].doc, ActiveEpoch(init.held.id))

Completes ==
    /\ SettlesRecord /\ Unmoved /\ Settled
    /\ UNCHANGED <<epochs, dEpochs, rows, created, procs>>
    /\ Put(init.held.id, Moved(init.held.id, Outcome(init.held.id)))

Submits(d, v) ==
    /\ Deciding(d)
    /\ UNCHANGED <<coord, recs, dRecs, dTombs, epochs, dEpochs, rows, created, worker, del>>
    /\ \/ sub' = Work("hit", d, v, ing[rows[d]].gen)
       \/ OwnerIds(d) = {} /\ sub' = Work("create", d, v, epochs[d].gen)

(* A call that begins to wait, or that ends without an effect.               *)
Waits ==
    /\ started /\ UNCHANGED <<coord, recs, dRecs, epochs, dEpochs, rows, created, worker>>
    /\ sub' = sub \/ sub'.pc \in {"idle", "asked"}
    /\ del' = del \/ (~Deleting /\ ~Deleting')

Creates ==
    /\ Decided /\ NewIngestion /\ sub' = NoWork /\ worker' \in {worker, Notified}
    /\ UNCHANGED <<coord, epochs, dEpochs, rows, del>>
    /\ \E s \in {"queued", "completed"} :
         /\ recs' = [recs EXCEPT ![nextId] = Rec(s, 0)]
         /\ dRecs' = [dRecs EXCEPT ![nextId] = Rec(s, 0)]
         /\ s = "queued" => sub.pc = "create"

Deletes ==
    /\ UNCHANGED <<coord, recs, dRecs, created, worker, sub>>
    /\ \/ \E d \in Docs : /\ MayDelete(d) /\ PutEpoch(d, Intent(d)) /\ UNCHANGED rows
                          /\ del' = Work("rows", d, None, Intent(d).gen)
       \/ /\ del.pc = "rows" /\ rows' = [rows EXCEPT ![del.doc] = 0]
          /\ del' = [del EXCEPT !.pc = "epoch"] /\ UNCHANGED <<epochs, dEpochs>>
       \/ /\ del.pc = "epoch" /\ del' = NoWork /\ UNCHANGED rows
          /\ PutEpoch(del.doc, DeletedEpoch(del.doc))

Sweeps ==
    /\ UNCHANGED <<coord, epochs, dEpochs, rows, created, worker, sub, del>>
    /\ \/ UNCHANGED <<recs, dRecs>>
       \/ \E i \in Ids : /\ recs[i].status \in Terminal
                         /\ recs' = [recs EXCEPT ![i] = Gone] /\ dRecs' = [dRecs EXCEPT ![i] = Gone]

LEMMA UnderWay ==
    ASSUME init.pc \in {"index", "reconcile", "settle"}
    PROVE  init # NoInit
  BY DEF NoInit, Initialising

LEMMA QuietInitialise ==
    ASSUME Inv, QuietParts, faults = 0, faults' = 0, InitialiseStep
    PROVE  \/ Load \/ Finish \/ Settles \/ Halts \/ SettlesEpoch \/ Completes
           \/ \E d \in Docs : ReconcileDelete(d)
  <1>1. /\ ~Fault
        /\ \A i, r : ~PutFails(i, r)
        /\ \A d, e : ~PutEpochFails(d, e)
    BY NothingFails DEF Inv
  <1>2. CASE InitIndex
    BY <1>1, <1>2, UnderWay DEF InitIndex, Settles, epochal
  <1>3. ASSUME NEW c \in init.recover, RecoverSkip(c) \/ RecoverLock(c)
        PROVE  Settles
    <2>1. init # NoInit /\ init.pc = "reconcile"
      BY <1>3, UnderWay DEF RecoverSkip, RecoverLock, Candidate
    <2>2. UNCHANGED <<phase, records, epochs, dEpochs, rows, created, procs, ready, retry, started>>
      BY <1>3 DEF RecoverSkip, RecoverLock, epochal
    <2>3. \/ ~StillOwns(c.id, c.rev) /\ init' = [init EXCEPT !.recover = @ \ {c}]
          \/ init' = [init EXCEPT !.pc = "settle", !.recover = @ \ {c}, !.held = c]
      BY <1>3, Zenon DEF RecoverSkip, RecoverLock
    <2> QED BY <2>1, <2>2, <2>3, Zenon DEF Settles
  <1>4. CASE SettleImpossible
    BY <1>4, UnderWay DEF SettleImpossible, Settling, InitFailed, Settles, epochal
  <1>5. CASE SettleEpoch
    BY <1>1, <1>5 DEF SettleEpoch, SettlesEpoch
  <1>6. CASE SettleRecord
    BY <1>1, <1>6 DEF SettleRecord, Completes, epochal
  <1>7. CASE SettleRejected
    BY <1>7 DEF SettleRejected, Halts, records, epochal, created
  <1> QED BY <1>2, <1>3, <1>4, <1>5, <1>6, <1>7 DEF InitialiseStep

LEMMA StartedIsSettled ==
    ASSUME Inv, QuietParts, NEW d \in Docs, CanRead(d), started
    PROVE  Consistent(d) /\ ~Pending(d)
  <1>1. ~Pending(d)
    BY DEF QuietParts, Explained, Accounted, CanRead, DocFree
  <1>2. ~(worker.pc = "epoch" /\ worker.id = rows[d])
    BY DEF CanRead, Writing, Publishing
  <1> QED BY <1>1, <1>2 DEF QuietParts, Explained, Accounted

LEMMA QuietClient ==
    ASSUME Inv, QuietParts, faults = 0, faults' = 0, Client
    PROVE  \/ Creates \/ Deletes \/ Sweeps \/ Waits
           \/ \E d \in Docs, v \in Versions : Submits(d, v)
  <1> USE DEF epochal, records, created, coord
  <1>1. /\ ~Fault /\ ~CreateFails
        /\ \A i, r : ~PutFails(i, r)
        /\ \A d, e : ~PutEpochFails(d, e)
    BY NothingFails DEF Inv
  <1>s. Serving \/ sub # NoWork \/ del # NoWork => started
    BY DEF QuietParts, Lifetime, Serving
  <1>2. ASSUME NEW d \in Docs, NEW v \in Versions, SubmitHit(d, v) \/ SubmitMiss(d, v)
        PROVE  Submits(d, v)
    BY <1>2 DEF SubmitHit, SubmitMiss, Submits, Miss
  <1>3. ASSUME NEW d \in Docs, FindInconsistent(d)
        PROVE  FALSE
    <2>1. started /\ CanRead(d)
      BY <1>3, <1>s DEF FindInconsistent, Deciding, NoWork, Work
    <2> QED BY <1>3, <2>1, StartedIsSettled DEF FindInconsistent
  <1>4. ASSUME NEW d \in Docs, WriteIntent(d)
        PROVE  Deletes
    BY <1>4, <1>1 DEF WriteIntent, Deletes
  <1>5. CASE DeleteRows \/ Acknowledge
    BY <1>5, <1>1 DEF DeleteRows, Acknowledge, Deletes
  <1>6. ASSUME SearchText \/ \E d \in Docs : SearchVector(d)
        PROVE  Sweeps
    BY <1>6, <1>1 DEF SearchText, SearchVector, Sweeps
  <1>7. CASE CreateQueued
    <2>1. "queued" \in {"queued", "completed"}
      OBVIOUS
    <2> QED BY <1>7, <2>1, Zenon DEF CreateQueued, Creates, Decided
  <1>8. CASE CreateCompletedHit
    <2>1. "completed" \in {"queued", "completed"} /\ "completed" # "queued"
      OBVIOUS
    <2>2. Put(nextId, Rec("completed", 0)) /\ UNCHANGED coord
      BY <1>8, <1>1 DEF CreateCompletedHit
    <2>3. Decided
      BY <1>8 DEF CreateCompletedHit, Decided
    <2> QED BY <1>8, <2>1, <2>2, <2>3, Zenon DEF CreateCompletedHit, Creates, Put
  <1>9. CASE SubmitAsk \/ DeleteAsk
    <2>1. started
      BY <1>9, <1>s DEF SubmitAsk, DeleteAsk
    <2>2. CASE SubmitAsk
      BY <2>1, <2>2 DEF SubmitAsk, Waits, Work
    <2>3. CASE DeleteAsk
      <3>1. ~Deleting /\ ~Deleting'
        BY <2>3 DEF DeleteAsk, Deleting, NoWork, Work
      <3> QED BY <2>1, <2>3, <3>1 DEF DeleteAsk, Waits
    <2> QED BY <1>9, <2>2, <2>3
  <1>10. ASSUME NEW d \in Docs, NEW v \in Versions, SubmitAnswered(d, v)
         PROVE  Waits
    <2>1. started
      BY <1>10, <1>s DEF SubmitAnswered, Deciding, NoWork, Work
    <2> QED BY <1>10, <2>1 DEF SubmitAnswered, Waits, NoWork, Work
  <1>11. ASSUME NEW d \in Docs, DeleteRefused(d)
         PROVE  Waits
    <2>1. started /\ CanRead(d)
      BY <1>11, <1>s DEF DeleteRefused, MayDelete, CanWrite, NoWork, Work
    <2>2. UNCHANGED coord
      BY <1>11, <2>1, StartedIsSettled DEF DeleteRefused
    <2> QED
      BY <1>11, <2>1, <2>2 DEF DeleteRefused, MayDelete, Waits, Deleting, NoWork, Work
  <1> QED
    BY <1>1, <1>2, <1>3, <1>4, <1>5, <1>6, <1>7, <1>8, <1>9, <1>10, <1>11 DEF Client

(* The files have no duplicate for a load to repair.                         *)
LEMMA NoDuplicates ==
    ASSUME OneOnDisk
    PROVE  Duplicates = {}
  <1> SUFFICES ASSUME NEW i \in LoadedActive, NEW j \in LoadedActive, j < i,
                      ing[j].doc = ing[i].doc
               PROVE  FALSE
    BY DEF Duplicates
  <1>1. dRecs[i].status \in Active /\ dRecs[j].status \in Active /\ i \in Ids /\ j \in Ids
    BY DEF LoadedActive, Loaded, Gone, Rec, Active
  <1>2. i = j
    BY <1>1 DEF OneOnDisk
  <1> QED BY <1>1, <1>2 DEF Ids

LEMMA QuietCrash ==
    ASSUME Inv, QuietParts, CrashInside
    PROVE  Halts
  <1>1. CASE CreateCut \/ CrashInTransition
    BY <1>1 DEF CreateCut, CrashInTransition, Halts, epochal
  <1>2. CASE CrashInLoad
    <2>1. Duplicates = {}
      BY NoDuplicates DEF QuietParts
    <2>2. \A i \in Ids : dRecs'[i] = dRecs[i]
      BY <1>2, <2>1, HalfLoadedFiles DEF CrashInLoad, Inv, Typed
    <2>3. dRecs' \in [Ids -> RecRecord]
      BY <1>2, HalfLoadedFiles DEF CrashInLoad, Inv, Typed
    <2>4. dRecs' = dRecs
      BY <2>2, <2>3 DEF Inv, Typed, RecordsTyped
    <2> QED BY <1>2, <2>4 DEF CrashInLoad, Halts, epochal, created
  <1>3. ASSUME NEW i \in Ids, CrashInSweep(i)
        PROVE  Halts
    BY <1>3 DEF CrashInSweep, Halts, epochal, created
  <1>4. ASSUME NEW d \in Docs, CrashInReconcile(d)
        PROVE  Halts
    BY <1>4 DEF CrashInReconcile, Halts, epochal
  <1> QED BY <1>1, <1>2, <1>3, <1>4 DEF CrashInside

LEMMA QuietRetention ==
    ASSUME Inv, faults = 0, faults' = 0, Retention
    PROVE  Sweeps
  <1>1. ~Fault /\ \A i \in Ids : ~SweepFails(i)
    BY NothingFails DEF Inv
  <1> QED
    BY <1>1 DEF Retention, Expire, Sweep, Swept, SweepTombstone, Sweeps, epochal, procs

(* The steps of a quiet system, by what they do.                             *)
LEMMA QuietSteps ==
    ASSUME Inv, Retained, QuietParts, faults = 0, faults' = 0, [Next]_vars
    PROVE  \/ Start \/ Stop \/ Halts \/ Load \/ Finish \/ Settles \/ SettlesEpoch \/ Completes
           \/ WorkerStep \/ Creates \/ Deletes \/ Sweeps \/ Waits
           \/ \E d \in Docs : ReconcileDelete(d)
           \/ \E d \in Docs, v \in Versions : Submits(d, v)
  <1>1. CASE UNCHANGED vars
    BY <1>1 DEF vars, Sweeps, epochal, records, procs
  <1>2. CASE Crash \/ Exit
    BY <1>2 DEF Crash, Exit, Halts, epochal, records, created
  <1>3. ~Failure
    BY NothingFails DEF Inv
  <1> QED
    BY <1>1, <1>2, <1>3, QuietInitialise, QuietClient, QuietRetention, QuietCrash DEF Next

(* One conjunct of the quiet invariant after another.                        *)
LEMMA LifetimeKept ==
    ASSUME Inv, Retained, QuietParts, faults = 0, faults' = 0, [Next]_vars
    PROVE  Lifetime'
  <1> USE DEF QuietParts, Lifetime, coord
  <1>1. CASE Start \/ Stop \/ Load \/ Finish
    <2>1. CASE Start \/ Stop
      BY <2>1 DEF Start, Stop, procs
    <2>2. CASE Load
      <3>1. ~started /\ init = NoInit /\ phase' # "down" /\ started' = started
        BY <2>2 DEF Load, InitDue
      <3> QED BY <2>2, <3>1 DEF Load, procs
    <2>3. CASE Finish
      <3>1. ~started /\ phase # "down"
        BY <2>3, UnderWay DEF Finish
      <3> QED BY <2>3, <3>1 DEF Finish
    <2> QED BY <1>1, <2>1, <2>2, <2>3
  <1>2. CASE Halts
    BY <1>2 DEF Halts, Down, Off, Loop
  <1>3. ASSUME Settles \/ SettlesEpoch \/ Completes \/ \E d \in Docs : ReconcileDelete(d)
        PROVE  Lifetime'
    <2>1. init # NoInit
      BY <1>3, UnderWay DEF Settles, SettlesEpoch, EpochBehind, Completes, SettlesRecord, Settling,
                            ReconcileDelete
    <2> QED
      <3>1. ~started /\ phase # "down"
        BY <2>1
      <3>2. UNCHANGED <<phase, started, worker, sub, del>> /\ (ready' = ready \/ ~ready')
        BY <1>3 DEF Settles, InitFailed, SettlesEpoch, Completes, Settled, ReconcileDelete, procs
      <3> QED BY <3>1, <3>2
  <1>4. ASSUME Deletes \/ Sweeps \/ Creates \/ Waits
               \/ \E d \in Docs, v \in Versions : Submits(d, v)
        PROVE  Lifetime'
    <2>1. UNCHANGED coord
      BY <1>4 DEF Deletes, Sweeps, Creates, Submits, Waits
    <2>2. started \/ UNCHANGED <<worker, sub, del>>
      BY <1>4 DEF Deletes, Sweeps, Creates, Submits, Waits, Deciding, MayDelete, Decided, NoWork,
                  Work
    <2> QED BY <2>1, <2>2
  <1>5. CASE WorkerStep
    BY <1>5, QuietWorker
  <1> QED BY <1>1, <1>2, <1>3, <1>4, <1>5, QuietSteps

LEMMA MemoryIsDiskKept ==
    ASSUME Inv, Retained, QuietParts, faults = 0, faults' = 0, [Next]_vars
    PROVE  MemoryIsDisk'
  <1>q. MemoryIsDisk /\ Lifetime
    BY DEF QuietParts
  <1>t. recs \in [Ids -> RecRecord] /\ dRecs \in [Ids -> RecRecord]
    BY DEF Inv, Typed, RecordsTyped
  <1>1. epochs' = dEpochs'
    <2>1. ASSUME WorkerStep
          PROVE  epochs' = dEpochs'
      BY <1>q, <2>1, QuietWorker
         DEF MemoryIsDisk, WorkerMoves, WorkerClaims, WorkerMerges, WorkerPublishes, WorkerEnds,
             PutEpoch, QuietParts
    <2>2. CASE \/ Start \/ Stop \/ Halts \/ Load \/ Finish \/ Settles \/ Completes \/ Creates
              \/ Sweeps \/ Waits
      BY <1>q, <2>2
         DEF MemoryIsDisk, Start, Stop, Halts, Load, Finish, Settles, Completes, Creates, Sweeps,
             Waits, epochal
    <2>3. ASSUME \E d \in Docs, v \in Versions : Submits(d, v)
          PROVE  epochs' = dEpochs'
      BY <1>q, <2>3 DEF MemoryIsDisk, Submits
    <2>4. ASSUME Deletes \/ SettlesEpoch \/ \E d \in Docs : ReconcileDelete(d)
          PROVE  epochs' = dEpochs'
      BY <1>q, <2>4 DEF MemoryIsDisk, Deletes, ReconcileDelete, SettlesEpoch, PutEpoch, epochal
    <2> QED BY <2>1, <2>2, <2>3, <2>4, QuietSteps
  <1>2. ASSUME started' \/ init' # NoInit
        PROVE  RecordsLoaded'
    <2>1. ASSUME started \/ init # NoInit
          PROVE  RecordsLoaded
      BY <1>q, <2>1 DEF MemoryIsDisk
    <2>2. CASE UNCHANGED <<recs, dRecs, started, init>>
      BY <1>2, <2>1, <2>2 DEF RecordsLoaded
    <2>3. ASSUME NEW i \in Ids, NEW r, started \/ init # NoInit,
                 recs' = [recs EXCEPT ![i] = r] /\ dRecs' = [dRecs EXCEPT ![i] = r]
          PROVE  RecordsLoaded'
      BY <1>t, <2>1, <2>3 DEF RecordsLoaded
    <2>4. ASSUME started \/ init # NoInit, UNCHANGED <<recs, dRecs>>
          PROVE  RecordsLoaded'
      BY <2>1, <2>4 DEF RecordsLoaded
    <2>5. CASE Load
      <3> SUFFICES ASSUME NEW i \in Ids, dRecs'[i].status \in Active
                   PROVE  recs'[i] = dRecs'[i]
        BY DEF RecordsLoaded
      <3>1. /\ recs'[i] = IF i \in Duplicates THEN Rec("failed", Loaded[i].rev + 1) ELSE Loaded[i]
            /\ dRecs'[i] = IF i \in Duplicates THEN Rec("failed", dRecs[i].rev + 1) ELSE dRecs[i]
        BY <2>5 DEF Load, Repair
      <3>2. i \in dTombs => dRecs[i].status \notin Active /\ i \notin Duplicates
        <4>1. i \in dTombs => dRecs[i].status \notin Active
          BY DEF Retained, RecordsRetained
        <4>2. i \in dTombs => Loaded[i].status \notin Active
          BY DEF Loaded, Gone, Rec, Active
        <4> QED BY <4>1, <4>2 DEF Duplicates, LoadedActive
      <3>3. i \notin dTombs
        BY <3>1, <3>2
      <3>4. Loaded[i] = dRecs[i]
        BY <3>3 DEF Loaded
      <3> QED BY <3>1, <3>4
    <2>6. CASE Start \/ Stop \/ Halts \/ Sweeps
      <3>1. CASE Start \/ Stop
        BY <2>2, <3>1 DEF Start, Stop, records
      <3>2. CASE Halts
        BY <1>2, <3>2 DEF Halts, Down
      <3>3. CASE Sweeps
        <4>1. UNCHANGED <<started, init>>
          BY <3>3 DEF Sweeps, coord
        <4> QED BY <1>2, <2>2, <2>3, <3>3, <4>1 DEF Sweeps
      <3> QED BY <2>6, <3>1, <3>2, <3>3
    <2>7. CASE Finish \/ Settles \/ SettlesEpoch \/ \E d \in Docs : ReconcileDelete(d)
      <3>1. init # NoInit /\ UNCHANGED records
        BY <2>7, UnderWay DEF Finish, Settles, SettlesEpoch, EpochBehind, Settling, ReconcileDelete
      <3> QED BY <2>4, <3>1 DEF records
    <2>8. CASE Completes
      <3>1. init # NoInit /\ init.held.id \in Ids
        BY <2>8, UnderWay DEF Completes, SettlesRecord, Settling, Inv, Typed, CoordTyped
      <3> QED BY <2>3, <2>8, <3>1 DEF Completes, Put
    <2>9. CASE WorkerStep
      <3>1. started /\ UNCHANGED coord
        BY <1>q, <2>9, QuietWorker DEF Lifetime, QuietParts
      <3>2. worker.pc \notin {"off", "idle", "waiting"} => worker.id \in Ids
        BY DEF Inv, Typed, WorkerTyped
      <3>3. CASE WorkerClaims \/ WorkerEnds
        <4>1. worker.id \in Ids
          BY <3>2, <3>3 DEF WorkerClaims, WorkerEnds
        <4> QED BY <2>3, <3>1, <3>3, <4>1 DEF WorkerClaims, WorkerEnds, Put
      <3>4. CASE WorkerMoves \/ WorkerMerges \/ WorkerPublishes
        BY <2>4, <3>1, <3>4 DEF WorkerMoves, WorkerMerges, WorkerPublishes
      <3> QED BY <2>9, <3>3, <3>4, QuietWorker DEF QuietParts
    <2>10. CASE Creates
      <3>1. started /\ nextId \in Ids
        BY <1>q, <2>10 DEF Creates, Lifetime, Decided, NoWork, Work, Inv, Typed, CallsTyped
      <3> QED BY <2>3, <2>10, <3>1 DEF Creates
    <2>11. ASSUME Deletes \/ Waits \/ \E d \in Docs, v \in Versions : Submits(d, v)
           PROVE  RecordsLoaded'
      BY <2>2, <2>11 DEF Deletes, Waits, Submits, coord
    <2> QED
      BY <2>5, <2>6, <2>7, <2>8, <2>9, <2>10, <2>11, QuietSteps
  <1> QED BY <1>1, <1>2 DEF MemoryIsDisk

LEMMA ClaimFrame ==
    ASSUME ClaimHeld, worker' = worker \/ worker'.pc \in {"off", "idle", "waiting", "claim"},
           AtWork => recs'[worker.id] = recs[worker.id],
           Publishing => /\ epochs'[ing[worker.id].doc] = epochs[ing[worker.id].doc]
                         /\ ing'[worker.id] = ing[worker.id]
    PROVE  ClaimHeld'
  <1>1. CASE worker' = worker
    BY <1>1 DEF ClaimHeld, AtWork, Publishing, Pending
  <1>2. CASE worker'.pc \in {"off", "idle", "waiting", "claim"}
    BY <1>2 DEF ClaimHeld, AtWork, Publishing
  <1> QED BY <1>1, <1>2

LEMMA ClaimHeldKept ==
    ASSUME Inv, Retained, QuietParts, faults = 0, faults' = 0, [Next]_vars
    PROVE  ClaimHeld'
  <1>q. ClaimHeld /\ MemoryIsDisk /\ Lifetime
    BY DEF QuietParts
  <1>t. Typed /\ Known /\ Fencing
    BY DEF Inv
  <1>r. recs \in [Ids -> RecRecord]
    BY <1>t DEF Typed, RecordsTyped
  <1>a. AtWork => /\ worker.id \in Ids /\ recs[worker.id].status = "processing"
                  /\ worker.id < nextId /\ worker.id # nextId /\ started
    <2>1. AtWork => worker.id \in Ids /\ recs[worker.id].status = "processing" /\ started
      BY <1>q, <1>t DEF ClaimHeld, AtWork, Typed, WorkerTyped, Rec, Lifetime
    <2>2. AtWork => worker.id < nextId
      BY <2>1, <1>t DEF Known
    <2>3. \A i \in Ids : i < nextId => i # nextId
      BY <1>t DEF Ids, Typed, CreatedTyped
    <2> QED BY <2>1, <2>2, <2>3
  <1>p. Publishing => AtWork
    BY DEF Publishing, AtWork
  <1>1. ASSUME ~started, worker' = worker \/ worker'.pc \in {"off", "idle", "waiting", "claim"}
        PROVE  ClaimHeld'
    BY <1>1, <1>q, <1>a, <1>p, ClaimFrame
  <1>2. CASE Start \/ Stop
    BY <1>2, <1>q, ClaimFrame DEF Start, Stop, records, epochal, created, procs
  <1>3. CASE Halts
    BY <1>3, <1>q DEF Halts, Down, Off, Loop, ClaimHeld, AtWork, Publishing
  <1>4. CASE Load \/ Finish
    <2>1. ~started
      BY <1>4, <1>q, UnderWay DEF Load, InitDue, Finish, Lifetime
    <2>2. worker' = worker \/ worker'.pc \in {"off", "idle", "waiting", "claim"}
      BY <1>4 DEF Load, Finish, procs, Idle, Loop
    <2> QED BY <1>1, <2>1, <2>2
  <1>5. ASSUME Settles \/ SettlesEpoch \/ Completes \/ \E d \in Docs : ReconcileDelete(d)
        PROVE  ClaimHeld'
    <2>1. init # NoInit
      BY <1>5, UnderWay DEF Settles, SettlesEpoch, EpochBehind, Completes, SettlesRecord, Settling,
                            ReconcileDelete
    <2>2. ~started
      BY <2>1, <1>q DEF Lifetime
    <2>3. worker' = worker
      BY <1>5 DEF Settles, SettlesEpoch, ReconcileDelete, Completes, procs
    <2> QED BY <1>1, <2>2, <2>3
  <1>6. CASE Creates
    <2>1. worker' = worker \/ worker'.pc \in {"off", "idle", "waiting", "claim"}
      BY <1>6 DEF Creates, Notified, Idle, Loop
    <2>2. AtWork => recs'[worker.id] = recs[worker.id]
      BY <1>6, <1>a, <1>r DEF Creates
    <2>3. AtWork => ing'[worker.id] = ing[worker.id]
      BY <1>6, <1>a, <1>t DEF Creates, NewIngestion, Typed, CreatedTyped
    <2>4. epochs' = epochs
      BY <1>6 DEF Creates
    <2> QED BY <2>1, <2>2, <2>3, <2>4, <1>p, <1>q, ClaimFrame
  <1>7. CASE Deletes
    <2>1. ~Publishing
      <3>1. (\E d \in Docs : MayDelete(d)) => ~Publishing
        BY DEF MayDelete, CanWrite, CanRead, Writing
      <3>2. del.pc \in {"rows", "epoch"} => ~Publishing
        BY <1>t DEF Fencing, DeletionFences, Deleting
      <3> QED BY <1>7, <3>1, <3>2 DEF Deletes
    <2> QED BY <1>7, <2>1, <1>q, ClaimFrame DEF Deletes
  <1>8. CASE Sweeps
    <2>1. AtWork => recs'[worker.id] = recs[worker.id]
      BY <1>8, <1>a, <1>r DEF Sweeps, Terminal
    <2> QED BY <1>8, <2>1, <1>q, ClaimFrame DEF Sweeps, created
  <1>9. ASSUME Waits \/ \E d \in Docs, v \in Versions : Submits(d, v)
        PROVE  ClaimHeld'
    BY <1>9, <1>q, ClaimFrame DEF Waits, Submits, created
  <1>10. CASE WorkerStep
    <2>1. UNCHANGED ing
      BY <1>10, QuietWorker, <1>q DEF QuietParts
    <2>2. CASE WorkerMoves
      <3>1. worker \in [pc : {"off", "idle", "waiting", "claim", "snapshot", "embed", "publish",
                         "merge", "epoch", "complete", "retry", "fail", "failfatal"},
                   id : Ids \cup {0}, rev : Nat]
        BY <1>t DEF Typed, WorkerTyped
      <3>2. CASE worker'.pc \in {"off", "idle", "waiting", "claim"}
        BY <3>2 DEF ClaimHeld, AtWork, Publishing
      <3>3. ASSUME worker.pc \in {"snapshot", "embed", "publish"},
                   NEW pc \in {"embed", "publish", "retry", "fail"}, Goto(pc)
            PROVE  ClaimHeld'
        <4>1. worker'.pc = pc /\ worker'.id = worker.id /\ worker'.rev = worker.rev
          BY <3>1, <3>3 DEF Goto
        <4>2. AtWork /\ ~Publishing' /\ recs' = recs
          BY <2>2, <3>3, <4>1 DEF AtWork, Publishing, WorkerMoves
        <4>3. recs[worker.id] = Rec("processing", worker.rev)
          BY <4>2, <1>q DEF ClaimHeld
        <4> QED BY <4>1, <4>2, <4>3 DEF ClaimHeld
      <3>4. ASSUME worker.pc = "publish", ~Stale(worker.id), Goto("merge")
            PROVE  ClaimHeld'
        <4>1. worker'.pc = "merge" /\ worker'.id = worker.id /\ worker'.rev = worker.rev
          BY <3>1, <3>4 DEF Goto
        <4>2. AtWork /\ recs' = recs /\ epochs' = epochs
          BY <2>2, <3>4 DEF AtWork, WorkerMoves
        <4>3. recs[worker.id] = Rec("processing", worker.rev)
          BY <4>2, <1>q DEF ClaimHeld
        <4>4. /\ epochs[ing[worker.id].doc].gen = ing[worker.id].gen
              /\ ~Pending(ing[worker.id].doc)
          BY <3>4 DEF Stale, Pending
        <4> QED BY <4>1, <4>2, <4>3, <4>4, <2>1 DEF ClaimHeld, Pending
      <3> QED BY <2>2, <3>2, <3>3, <3>4 DEF WorkerMoves
    <2>3. CASE WorkerClaims
      <3>1. worker.id \in Ids /\ recs[worker.id].rev = worker.rev
        BY <2>3, <1>t DEF WorkerClaims, Typed, WorkerTyped, Rec
      <3>2. /\ worker'.pc = "snapshot" /\ worker'.id = worker.id
            /\ worker'.rev = worker.rev + 1
        BY <2>3 DEF WorkerClaims, Loop
      <3>3. recs'[worker.id] = Rec("processing", worker.rev + 1)
        BY <2>3, <3>1, <1>r DEF WorkerClaims, Put, Moved
      <3> QED BY <3>2, <3>3 DEF ClaimHeld, AtWork, Publishing
    <2>4. CASE WorkerMerges \/ WorkerPublishes
      <3>1. PICK pc \in {"epoch", "complete"} : Goto(pc)
        BY <2>4 DEF WorkerMerges, WorkerPublishes
      <3>2. worker'.pc = pc /\ worker'.id = worker.id /\ worker'.rev = worker.rev
        BY <3>1, <1>t DEF Goto, Typed, WorkerTyped
      <3>3. Publishing /\ AtWork /\ recs' = recs
        BY <2>4, <1>p DEF Publishing, WorkerMerges, WorkerPublishes
      <3>4. ing[worker.id].doc \in Docs
        BY <1>a, <1>t, <3>3 DEF Known
      <3>5. /\ epochs'[ing[worker.id].doc].gen = ing[worker.id].gen
            /\ epochs'[ing[worker.id].doc].state # "delete_pending"
        <4>1. CASE WorkerMerges
          BY <4>1, <3>3, <1>q DEF WorkerMerges, ClaimHeld, Pending
        <4>2. CASE WorkerPublishes
          BY <4>2, <3>4, <1>t
             DEF WorkerPublishes, PutEpoch, ActiveEpoch, Epoch, Typed, EpochsTyped
        <4> QED BY <2>4, <4>1, <4>2
      <3>6. recs[worker.id] = Rec("processing", worker.rev)
        BY <3>3, <1>q DEF ClaimHeld
      <3> QED BY <3>2, <3>3, <3>5, <3>6, <2>1 DEF ClaimHeld, Pending
    <2>5. CASE WorkerEnds
      BY <2>5 DEF WorkerEnds, Idle, Loop, ClaimHeld, AtWork, Publishing
    <2> QED BY <1>10, <2>2, <2>3, <2>4, <2>5, QuietWorker DEF QuietParts
  <1> QED
    BY <1>2, <1>3, <1>4, <1>5, <1>6, <1>7, <1>8, <1>9, <1>10, QuietSteps

LEMMA OneOnDiskShrinks ==
    ASSUME OneOnDisk, UNCHANGED ing, sub' = sub \/ sub'.pc # "create",
           \A i \in Ids : dRecs'[i].status \in Active => dRecs[i].status \in Active
    PROVE  OneOnDisk'
  BY DEF OneOnDisk

LEMMA PutShrinks ==
    ASSUME Typed, OneOnDisk, UNCHANGED <<ing, sub>>, NEW i \in Ids, NEW r, Put(i, r),
           r.status \in Active => dRecs[i].status \in Active
    PROVE  OneOnDisk'
  BY OneOnDiskShrinks DEF Put, Typed, RecordsTyped

LEMMA OneOnDiskKept ==
    ASSUME Inv, Retained, QuietParts, faults = 0, faults' = 0, [Next]_vars
    PROVE  OneOnDisk'
  <1>q. OneOnDisk /\ MemoryIsDisk /\ Lifetime /\ ClaimHeld
    BY DEF QuietParts
  <1>t. Typed /\ Known
    BY DEF Inv
  <1>r. /\ recs \in [Ids -> RecRecord] /\ dRecs \in [Ids -> RecRecord]
        /\ ing \in [Ids -> IngRecord]
    BY <1>t DEF Typed, RecordsTyped, CreatedTyped
  <1>m. InUse => \A i \in Ids : recs[i].status \in Active => recs[i] = dRecs[i]
    BY DEF Retained, RecordsRetained
  <1>1. ASSUME UNCHANGED <<dRecs, ing>>, sub' = sub \/ sub'.pc # "create"
        PROVE  OneOnDisk'
    BY <1>1, <1>q, OneOnDiskShrinks
  <1>2. CASE \/ Start \/ Stop \/ Finish \/ Settles \/ SettlesEpoch \/ Deletes
            \/ \E d \in Docs : ReconcileDelete(d)
    <2>1. UNCHANGED <<dRecs, ing, sub>>
      BY <1>2 DEF Start, Stop, Finish, Settles, SettlesEpoch, Deletes, ReconcileDelete, records,
                  created, procs
    <2> QED BY <1>1, <2>1
  <1>w. CASE Waits
    BY <1>w, <1>1 DEF Waits, created
  <1>n. ASSUME Decided, NewIngestion
        PROVE  /\ nextId \in Ids
               /\ \A i \in Ids : ing'[i] = IF i = nextId THEN Ing(sub.doc, sub.ver, sub.gen)
                                          ELSE ing[i]
               /\ dRecs[nextId].status = "absent"
    <2>1. nextId \in Ids
      BY <1>n, <1>t DEF Typed, CallsTyped
    <2>2. ~(nextId < nextId)
      BY <2>1 DEF Ids
    <2> QED BY <1>n, <2>1, <2>2, <1>t, <1>r DEF NewIngestion, Known
  <1>3. ASSUME Decided, NewIngestion, NEW s \in {"queued", "completed"},
               s = "queued" => sub.pc = "create", sub' = NoWork,
               dRecs' \in {dRecs, [dRecs EXCEPT ![nextId] = Rec(s, 0)]}
        PROVE  OneOnDisk'
    <2>1. sub'.pc # "create"
      BY <1>3 DEF NoWork, Work
    <2>2. \A i \in Ids : dRecs'[i].status \in Active
                         => \/ i # nextId /\ dRecs[i].status \in Active
                            \/ i = nextId /\ sub.pc = "create"
      BY <1>3, <1>n, <1>r DEF Rec, Active
    <2>3. /\ \A i \in Ids : i # nextId => ing'[i] = ing[i]
          /\ ing'[nextId].doc = sub.doc
      BY <1>3, <1>n DEF Ing
    <2>4. sub.pc = "create" => \A i \in Ids : dRecs[i].status \in Active => ing[i].doc # sub.doc
      BY <1>q DEF OneOnDisk
    <2> QED BY <2>1, <2>2, <2>3, <2>4, <1>q DEF OneOnDisk
  <1>4. CASE Halts
    <2>1. CASE CreateCut
      BY <2>1, <1>3 DEF CreateCut, Down, Decided
    <2>2. CASE UNCHANGED <<dRecs, ing>>
      BY <1>4, <2>2, <1>1 DEF Halts, Down, NoWork, Work
    <2>3. CASE CrashInTransition
      <3>1. \A i \in Ids : dRecs'[i].status \in Active => dRecs[i].status \in Active
        BY <2>3, <1>r DEF CrashInTransition, EndWritten, Moved, Rec, Active, Terminal
      <3> QED
        BY <2>3, <3>1, <1>q, OneOnDiskShrinks DEF CrashInTransition, Down, created, NoWork, Work
    <2>4. ASSUME NEW d \in Docs, CrashInReconcile(d)
          PROVE  OneOnDisk'
      BY <2>2, <2>4 DEF CrashInReconcile, records, created
    <2> QED BY <1>4, <2>1, <2>2, <2>3, <2>4 DEF Halts
  <1>5. CASE Creates
    BY <1>5, <1>3 DEF Creates
  <1>6. CASE Load
    <2>1. \A i \in Ids : dRecs'[i].status \in Active => dRecs[i].status \in Active
      BY <1>6, <1>r DEF Load, Repair, Rec, Active
    <2> QED BY <1>6, <2>1, <1>q, OneOnDiskShrinks DEF Load, created, procs
  <1>7. CASE Completes
    <2>1. init.held.id \in Ids /\ recs[init.held.id].status = "processing" /\ InUse
      BY <1>7, <1>t, UnderWay DEF Completes, Unmoved, SettlesRecord, Settling, Typed, CoordTyped,
                                  Rec, InUse
    <2>2. dRecs[init.held.id].status \in Active
      BY <2>1, <1>m DEF Active
    <2> QED BY <1>7, <2>1, <2>2, <1>q, <1>t, PutShrinks DEF Completes, created, procs
  <1>8. CASE WorkerStep
    <2>1. UNCHANGED <<ing, sub>>
      BY <1>8, QuietWorker, <1>q DEF QuietParts
    <2>2. CASE WorkerMoves \/ WorkerMerges \/ WorkerPublishes
      BY <2>1, <2>2, <1>1 DEF WorkerMoves, WorkerMerges, WorkerPublishes
    <2>3. CASE WorkerClaims \/ WorkerEnds
      <3>1. worker.id \in Ids /\ recs[worker.id].status \in Active /\ InUse
        BY <2>3, <1>t, <1>q
           DEF WorkerClaims, WorkerEnds, Typed, WorkerTyped, ClaimHeld, AtWork, Rec, Active,
               Lifetime, InUse
      <3>2. dRecs[worker.id].status \in Active
        BY <3>1, <1>m DEF Active
      <3>3. \E r : Put(worker.id, r)
        BY <2>3 DEF WorkerClaims, WorkerEnds
      <3> QED BY <3>1, <3>2, <3>3, <2>1, <1>q, <1>t, PutShrinks
    <2> QED BY <1>8, <2>2, <2>3, QuietWorker, <1>q DEF QuietParts
  <1>9. CASE Sweeps
    <2>1. \A i \in Ids : dRecs'[i].status \in Active => dRecs[i].status \in Active
      BY <1>9, <1>r DEF Sweeps, Gone, Rec, Active
    <2> QED BY <1>9, <2>1, <1>q, OneOnDiskShrinks DEF Sweeps, created
  <1>10. ASSUME NEW d \in Docs, NEW v \in Versions, Submits(d, v)
         PROVE  OneOnDisk'
    <2>1. UNCHANGED <<dRecs, ing>>
      BY <1>10 DEF Submits, created
    <2>2. CASE sub' = Work("hit", d, v, ing[rows[d]].gen)
      BY <2>1, <2>2, <1>1 DEF Work
    <2>3. CASE OwnerIds(d) = {} /\ sub' = Work("create", d, v, epochs[d].gen)
      <3>1. RecordsLoaded
        BY <1>10, <1>q DEF Submits, Deciding, NoWork, Work, Lifetime, MemoryIsDisk
      <3>2. \A i \in Ids : dRecs[i].status \in Active => ing[i].doc # d
        BY <2>3, <3>1 DEF RecordsLoaded, OwnerIds, Active
      <3>3. sub'.doc = d
        BY <2>3 DEF Work
      <3> QED BY <3>2, <3>3, <2>1, <1>q DEF OneOnDisk
    <2> QED BY <1>10, <2>2, <2>3 DEF Submits
  <1> QED
    BY <1>2, <1>w, <1>4, <1>5, <1>6, <1>7, <1>8, <1>9, <1>10, QuietSteps

LEMMA HeldKept ==
    ASSUME Inv, Retained, QuietParts, faults = 0, faults' = 0, [Next]_vars
    PROVE  HeldOnlySettling'
  <1>q. HeldOnlySettling
    BY DEF QuietParts
  <1>t. init \in [pc : {"none", "index", "reconcile", "settle"}, deletes : SUBSET Docs,
                 recover : SUBSET [id : Ids, rev : Nat], held : [id : Ids \cup {0}, rev : Nat]]
    BY DEF Inv, Typed, CoordTyped
  <1>1. CASE init' = init
    BY <1>1, <1>q DEF HeldOnlySettling, Settling
  <1>2. CASE Load \/ Finish \/ Halts
    BY <1>2 DEF Load, Finish, Halts, Down, NoInit, Initialising, HeldOnlySettling
  <1>3. CASE Settles
    BY <1>3, <1>q, <1>t DEF Settles, InitFailed, HeldOnlySettling, Settling
  <1>4. CASE Completes
    BY <1>4, <1>t DEF Completes, Settled, HeldOnlySettling
  <1>5. ASSUME NEW d \in Docs, ReconcileDelete(d)
        PROVE  HeldOnlySettling'
    BY <1>5, <1>q, <1>t DEF ReconcileDelete, HeldOnlySettling, Settling
  <1>6. ASSUME \/ Start \/ Stop \/ SettlesEpoch \/ Creates \/ Deletes \/ Sweeps \/ Waits
               \/ \E d \in Docs, v \in Versions : Submits(d, v)
        PROVE  init' = init
    BY <1>6 DEF Start, Stop, SettlesEpoch, Creates, Deletes, Sweeps, Waits, Submits, coord
  <1>7. ASSUME WorkerStep
        PROVE  init' = init
    BY <1>7, QuietWorker DEF QuietParts, coord
  <1> QED BY <1>1, <1>2, <1>3, <1>4, <1>5, <1>6, <1>7, QuietSteps

(* A document that is consistent, and is not being deleted, needs no reason; *)
(* neither does one whose deletion is known to whoever has to complete it.   *)
LEMMA ConsistentIsAccounted ==
    ASSUME NEW d, Consistent(d)', started' => ~(Deleting' /\ del'.doc = d)
    PROVE  Accounted(d)'
  <1>1. ~Pending(d)'
    BY DEF Consistent, Agree, Pending
  <1> QED BY <1>1 DEF Accounted

LEMMA PendingIsAccounted ==
    ASSUME NEW d, Pending(d)', started' => Deleting' /\ del'.doc = d,
           init' # NoInit => d \in init'.deletes
    PROVE  Accounted(d)'
  BY DEF Accounted, Half

(* While the worker is not between the rows and the epoch of a document, the *)
(* records may change: whoever serves finds it consistent or being deleted.  *)
LEMMA ServedIsAccounted ==
    ASSUME NEW d, Accounted(d), started, init' = NoInit,
           ~(worker.pc = "epoch" /\ worker.id = rows[d]),
           epochs'[d] = epochs[d], rows'[d] = rows[d],
           rows[d] # 0 => ing'[rows[d]] = ing[rows[d]],
           (Deleting' /\ del'.doc = d) <=> (Deleting /\ del.doc = d)
    PROVE  Accounted(d)'
  <1>1. CASE Pending(d)
    <2>1. Pending(d)'
      BY <1>1 DEF Pending
    <2>2. Deleting' /\ del'.doc = d
      BY <1>1 DEF Accounted
    <2> QED BY <2>1, <2>2, PendingIsAccounted
  <1>2. CASE ~Pending(d)
    <2>1. Consistent(d)
      BY <1>2 DEF Accounted
    <2>2. Consistent(d)'
      BY <2>1 DEF Consistent, Agree
    <2>3. ~(Deleting' /\ del'.doc = d)
      BY <1>2 DEF Accounted
    <2> QED BY <2>2, <2>3, ConsistentIsAccounted
  <1> QED BY <1>1, <1>2

(* Nothing that the account of the document reads has changed.               *)
LEMMA AccountedFrame ==
    ASSUME NEW d, Accounted(d), started' => started, init' \in {init, NoInit},
           started' => ((Deleting' /\ del'.doc = d) <=> (Deleting /\ del.doc = d)),
           worker' = worker \/ ~started' \/ worker.pc # "epoch",
           epochs'[d] = epochs[d], rows'[d] = rows[d],
           rows[d] # 0 => /\ ing'[rows[d]] = ing[rows[d]]
                          /\ dRecs'[rows[d]].status = dRecs[rows[d]].status
                          /\ recs'[rows[d]].rev = recs[rows[d]].rev \/ init' = NoInit
    PROVE  Accounted(d)'
  <1>1. Pending(d)' <=> Pending(d)
    BY DEF Pending
  <1>2. Consistent(d)' <=> Consistent(d)
    BY DEF Consistent, Agree
  <1>3. Half(d)' <=> Half(d)
    BY <1>1 DEF Half
  <1>4. Consistent(d)' \/ Pending(d)' \/ Half(d)'
    BY <1>1, <1>2, <1>3 DEF Accounted
  <1>5. ASSUME started'
        PROVE  /\ Pending(d)' <=> (Deleting' /\ del'.doc = d)
               /\ Half(d)' => Consistent(d)' \/ (worker'.pc = "epoch" /\ worker'.id = rows'[d])
    <2>1. started /\ (worker' = worker \/ worker.pc # "epoch")
      BY <1>5
    <2>2. Half(d) => Consistent(d) \/ (worker.pc = "epoch" /\ worker.id = rows[d])
      BY <2>1 DEF Accounted
    <2>3. Half(d)' => Consistent(d)' \/ (worker'.pc = "epoch" /\ worker'.id = rows'[d])
      BY <1>2, <1>3, <2>1, <2>2 DEF Half
    <2>4. Pending(d) <=> (Deleting /\ del.doc = d)
      BY <2>1 DEF Accounted
    <2>5. (Deleting' /\ del'.doc = d) <=> (Deleting /\ del.doc = d)
      BY <1>5
    <2> QED BY <1>1, <2>3, <2>4, <2>5
  <1>6. ASSUME init' # NoInit
        PROVE  /\ Pending(d)' => d \in init'.deletes
               /\ Half(d)' => \/ Consistent(d)'
                              \/ [id |-> rows'[d], rev |-> recs'[rows'[d]].rev]
                                 \in init'.recover \cup {init'.held}
    <2>1. init' = init
      BY <1>6
    <2>2. Half(d) => /\ rows'[d] = rows[d] /\ recs'[rows[d]].rev = recs[rows[d]].rev
      BY <1>6 DEF Half
    <2> QED BY <1>1, <1>2, <1>3, <1>6, <2>1, <2>2 DEF Accounted
  <1> QED BY <1>4, <1>5, <1>6 DEF Accounted

LEMMA ExplainedByLoad ==
    ASSUME Inv, Retained, QuietParts, faults = 0, Load
    PROVE  Explained'
  <1>q. Explained /\ OneOnDisk /\ MemoryIsDisk /\ Lifetime
    BY DEF QuietParts
  <1>s. ~started' /\ epochs' = epochs /\ rows' = rows /\ ing' = ing
    BY <1>q DEF Load, InitDue, Lifetime, MemoryIsDisk, created
  <1> SUFFICES ASSUME NEW d \in Docs
               PROVE  Accounted(d)'
    BY DEF Explained
  <1>1. Duplicates = {}
    BY <1>q, NoDuplicates
  <1>2. \A i \in Ids : dRecs'[i] = dRecs[i] /\ recs'[i] = Loaded[i]
    BY <1>1 DEF Load, Repair, Inv, Typed, RecordsTyped
  <1>3. rows[d] # 0 => rows[d] \in Ids
    BY DEF Inv, Typed, RowsTyped
  <1>4. (Consistent(d)' <=> Consistent(d)) /\ (Pending(d)' <=> Pending(d))
    BY <1>s DEF Consistent, Agree, Pending
  <1>5. Half(d)' <=> Half(d)
    BY <1>s, <1>2, <1>3, <1>4 DEF Half
  <1>6. /\ Pending(d) => d \in init'.deletes
        /\ Half(d) => [id |-> rows[d], rev |-> recs'[rows[d]].rev]
                      \in init'.recover \cup {init'.held}
    <2>1. /\ init'.deletes = {e \in Docs : dEpochs[e].state = "delete_pending"}
          /\ init'.recover = {[id |-> i, rev |-> Loaded[i].rev] : i \in Interrupted}
      BY DEF Load, Initialising
    <2>2. Pending(d) => d \in init'.deletes
      BY <2>1, <1>q DEF Pending, MemoryIsDisk
    <2>3. ASSUME Half(d)
          PROVE  rows[d] \in Interrupted
      <3>1. rows[d] \in Ids /\ dRecs[rows[d]].status = "processing"
        BY <2>3, <1>3 DEF Half
      <3>2. rows[d] \notin dTombs
        BY <3>1 DEF Retained, RecordsRetained, Active
      <3>3. Loaded[rows[d]].status = "processing"
        BY <3>1, <3>2 DEF Loaded
      <3> QED BY <3>1, <3>3, <1>1 DEF Interrupted, LoadedActive, Active
    <2> QED BY <2>1, <2>2, <2>3, <1>2, <1>3 DEF Half
  <1> QED BY <1>s, <1>4, <1>5, <1>6, <1>q DEF Accounted, Explained

LEMMA ExplainedByRecovery ==
    ASSUME Inv, QuietParts, SettlesEpoch \/ Completes
    PROVE  Explained'
  <1>q. Explained /\ Lifetime
    BY DEF QuietParts
  <1> DEFINE i == init.held.id
             e == ing[i].doc
  <1>t. /\ i \in Ids /\ init # NoInit /\ e \in Docs /\ recs \in [Ids -> RecRecord]
        /\ dRecs \in [Ids -> RecRecord] /\ epochs \in [Docs -> EpochRecord]
        /\ rows \in [Docs -> Ids \cup {0}] /\ i # 0
    <2>1. i \in Ids /\ init # NoInit /\ e \in Docs
      BY UnderWay DEF SettlesEpoch, EpochBehind, Completes, SettlesRecord, Settling, Inv, Typed,
                      CoordTyped, Fencing, SettlesAlone, Known
    <2> QED BY <2>1 DEF Inv, Typed, RecordsTyped, EpochsTyped, RowsTyped, Ids
  <1>s. /\ ~started /\ ~started' /\ rows' = rows /\ ing' = ing /\ del' = del
        /\ init'.deletes = init.deletes /\ init'.recover = init.recover
    <2>1. /\ UNCHANGED <<started, rows, ing, del>>
          /\ init' = init \/ init' = [init EXCEPT !.pc = "reconcile", !.held = NoInit.held]
      BY Zenon DEF SettlesEpoch, Completes, Settled, coord, created, procs
    <2>2. init'.deletes = init.deletes /\ init'.recover = init.recover
      BY <2>1 DEF Inv, Typed, CoordTyped
    <2> QED BY <1>q, <1>t, <2>1, <2>2 DEF Lifetime
  <1> SUFFICES ASSUME NEW d \in Docs
               PROVE  Accounted(d)'
    BY DEF Explained
  <1>d. rows[d] = i => d = e
    BY <1>t DEF Inv, Fencing, RowsBelong, Born
  <1>1. CASE SettlesEpoch /\ d = e
    <2>1. rows[d] = i
      BY <1>1 DEF SettlesEpoch, EpochBehind, Published
    <2>2. epochs'[d] = Epoch("active", ing[i].gen, i)
      BY <1>1, <1>t DEF SettlesEpoch, PutEpoch, ActiveEpoch
    <2>3. Consistent(d)'
      BY <2>1, <2>2, <1>s, <1>t DEF Consistent, Agree, Epoch
    <2> QED BY <2>3, <1>s, ConsistentIsAccounted
  <1>2. CASE SettlesEpoch /\ d # e
    <2>1. epochs'[d] = epochs[d] /\ init' = init /\ UNCHANGED <<recs, dRecs, rows, ing>>
      BY <1>2, <1>t DEF SettlesEpoch, PutEpoch, coord, records, created
    <2>2. Accounted(d)
      BY <1>q DEF Explained
    <2> QED BY <2>1, <2>2, <1>s, AccountedFrame
  <1>3. CASE Completes /\ rows[d] = i
    <2>1. Consistent(d)
      BY <1>3, <1>d DEF Completes, SettlesRecord, EpochBehind, Published
    <2>2. Consistent(d)'
      BY <1>3, <1>s, <2>1 DEF Completes, Consistent, Agree
    <2> QED BY <2>2, <1>s, ConsistentIsAccounted
  <1>4. CASE Completes /\ rows[d] # i
    <2>1. epochs'[d] = epochs[d]
      BY <1>4 DEF Completes
    <2>2. rows[d] # 0 => /\ ing'[rows[d]] = ing[rows[d]] /\ recs'[rows[d]] = recs[rows[d]]
                         /\ dRecs'[rows[d]] = dRecs[rows[d]]
      BY <1>4, <1>s, <1>t DEF Completes, Put
    <2>3. /\ Pending(d)' <=> Pending(d)
          /\ Consistent(d)' <=> Consistent(d)
      BY <2>1, <2>2, <1>s DEF Pending, Consistent, Agree
    <2>4. Half(d)' <=> Half(d)
      BY <2>1, <2>2, <2>3, <1>s DEF Half
    <2>5. [id |-> rows[d], rev |-> recs[rows[d]].rev] # init.held
      BY <1>4
    <2>6. Accounted(d)
      BY <1>q DEF Explained
    <2>7. Half(d) => /\ recs'[rows'[d]].rev = recs[rows[d]].rev /\ rows'[d] = rows[d]
      BY <2>2, <1>s DEF Half
    <2>8. Half(d)' => \/ Consistent(d)'
                      \/ [id |-> rows'[d], rev |-> recs'[rows'[d]].rev] \in init'.recover
      BY <2>3, <2>4, <2>5, <2>6, <2>7, <1>s, <1>t DEF Accounted
    <2> QED BY <2>3, <2>4, <2>6, <2>8, <1>s, <1>t DEF Accounted
  <1> QED BY <1>1, <1>2, <1>3, <1>4

LEMMA ExplainedByStart ==
    ASSUME Inv, Retained, QuietParts, faults = 0,
           Finish \/ Settles \/ \E d \in Docs : ReconcileDelete(d)
    PROVE  Explained'
  <1>q. Explained /\ OneOnDisk /\ MemoryIsDisk /\ Lifetime /\ HeldOnlySettling
    BY DEF QuietParts
  <1>n. init # NoInit /\ ~started /\ sub = NoWork /\ del = NoWork
    <2>1. init # NoInit
      BY UnderWay DEF Finish, Settles, ReconcileDelete
    <2> QED BY <2>1, <1>q DEF Lifetime
  <1>h. ASSUME ~Settling, NEW d \in Docs, Half(d)
        PROVE  [id |-> rows[d], rev |-> recs[rows[d]].rev] # init.held
    <2>1. init.held.id = 0
      BY <1>h, <1>q DEF HeldOnlySettling, NoInit, Initialising
    <2>2. rows[d] # 0
      BY <1>h DEF Half
    <2> QED BY <2>1, <2>2
  <1>1. CASE Finish
    <2> SUFFICES ASSUME NEW d \in Docs
                 PROVE  Accounted(d)'
      BY DEF Explained
    <2>1. Consistent(d)
      <3>1. init.deletes = {} /\ init.recover = {} /\ ~Settling
        BY <1>1 DEF Finish, Settling
      <3>2. Accounted(d)
        BY <1>q DEF Explained
      <3> QED BY <1>n, <1>h, <3>1, <3>2 DEF Accounted
    <2>2. Consistent(d)'
      BY <1>1, <2>1 DEF Finish, Consistent, Agree, created, epochal
    <2>3. ~Deleting'
      BY <1>1, <1>n DEF Finish, Deleting, NoWork, Work
    <2> QED BY <2>2, <2>3, ConsistentIsAccounted
  <1>2. CASE Settles
    <2> SUFFICES ASSUME NEW d \in Docs
                 PROVE  Accounted(d)'
      BY DEF Explained
    <2>s. /\ UNCHANGED <<recs, dRecs, epochs, rows, ing, del, worker>> /\ ~started'
      <3>1. UNCHANGED <<records, epochs, rows, created, procs>> /\ started' = started
        BY <1>2, Zenon DEF Settles, InitFailed
      <3> QED BY <1>n, <3>1 DEF records, created, procs
    <2>a. Accounted(d)
      BY <1>q DEF Explained
    <2>h. /\ Pending(d)' <=> Pending(d)
          /\ Consistent(d)' <=> Consistent(d)
          /\ Half(d)' <=> Half(d)
      <3>1. /\ Pending(d)' <=> Pending(d)
            /\ Consistent(d)' <=> Consistent(d)
        BY <2>s DEF Pending, Consistent, Agree
      <3> QED BY <2>s, <3>1 DEF Half
    <2>1. CASE InitFailed
      BY <2>s, <2>a, <2>1, AccountedFrame DEF InitFailed
    <2>2. ASSUME init'.deletes = init.deletes,
                 Half(d) /\ ~Consistent(d) => [id |-> rows[d], rev |-> recs[rows[d]].rev]
                                               \in init'.recover \cup {init'.held}
          PROVE  Accounted(d)'
      BY <2>s, <2>a, <2>h, <2>2, <1>n DEF Accounted
    <2>3. CASE init.pc = "index" /\ init' = [init EXCEPT !.pc = "reconcile"]
      <3>1. /\ init'.deletes = init.deletes /\ init'.recover = init.recover
            /\ init'.held = init.held
        BY <2>3 DEF Inv, Typed, CoordTyped
      <3> QED BY <2>2, <2>a, <3>1, <1>n DEF Accounted
    <2>4. ASSUME NEW c \in init.recover, init.pc = "reconcile", ~StillOwns(c.id, c.rev),
                 init' = [init EXCEPT !.recover = @ \ {c}]
          PROVE  Accounted(d)'
      <3>1. init'.deletes = init.deletes /\ init'.recover = init.recover \ {c}
        BY <2>4 DEF Inv, Typed, CoordTyped
      <3>2. Half(d) => [id |-> rows[d], rev |-> recs[rows[d]].rev] # c
        <4> SUFFICES ASSUME Half(d), [id |-> rows[d], rev |-> recs[rows[d]].rev] = c
                     PROVE  FALSE
          OBVIOUS
        <4> DEFINE i == rows[d]
        <4>1. i \in Ids /\ i = c.id /\ recs[i].rev = c.rev
          BY DEF Half, Inv, Typed, RowsTyped
        <4>2. recs[i].status = "processing"
          BY <4>1, <1>q, <1>n DEF Half, MemoryIsDisk, RecordsLoaded, Active
        <4>3. \A j \in OwnerIds(ing[i].doc) : j = i
          <5> SUFFICES ASSUME NEW j \in OwnerIds(ing[i].doc)
                       PROVE  j = i
            OBVIOUS
          <5>1. /\ j \in Ids /\ recs[j].status \in Active /\ ing[j].doc = ing[i].doc
                /\ recs[i].status \in Active
            BY <4>2 DEF OwnerIds, Active
          <5>2. recs[j] = dRecs[j] /\ recs[i] = dRecs[i]
            BY <4>1, <5>1, <1>n DEF Retained, RecordsRetained, InUse
          <5> QED BY <4>1, <5>1, <5>2, <1>q DEF OneOnDisk
        <4>4. i \in OwnerIds(ing[i].doc)
          BY <4>1, <4>2 DEF OwnerIds, Active
        <4>5. i <= i
          BY <4>1 DEF Ids
        <4> QED BY <2>4, <4>1, <4>2, <4>3, <4>4, <4>5 DEF StillOwns, IsOwner
      <3>3. Half(d) => [id |-> rows[d], rev |-> recs[rows[d]].rev] # init.held
        BY <2>4, <1>h DEF Settling
      <3> QED BY <2>2, <2>a, <3>1, <3>2, <3>3, <1>n DEF Accounted
    <2>5. ASSUME NEW c \in init.recover, init.pc = "reconcile",
                 init' = [init EXCEPT !.pc = "settle", !.recover = @ \ {c}, !.held = c]
          PROVE  Accounted(d)'
      <3>1. /\ init'.deletes = init.deletes /\ init'.recover = init.recover \ {c}
            /\ init'.held = c
        BY <2>5 DEF Inv, Typed, CoordTyped
      <3>2. Half(d) => [id |-> rows[d], rev |-> recs[rows[d]].rev] # init.held
        BY <2>5, <1>h DEF Settling
      <3> QED BY <2>2, <2>a, <3>1, <3>2, <1>n DEF Accounted
    <2> QED BY <1>2, <2>1, <2>3, <2>4, <2>5 DEF Settles
  <1>3. ASSUME NEW e \in Docs, ReconcileDelete(e)
        PROVE  Explained'
    <2> SUFFICES ASSUME NEW d \in Docs
                 PROVE  Accounted(d)'
      BY DEF Explained
    <2>s. UNCHANGED <<recs, dRecs, ing, del, worker>> /\ ~started'
      BY <1>3, <1>n DEF ReconcileDelete, records, created, procs
    <2>a. Accounted(d)
      BY <1>q DEF Explained
    <2>i. /\ init'.deletes = init.deletes \ {e} /\ init'.recover = init.recover
          /\ init'.held = init.held
      BY <1>3 DEF ReconcileDelete, Inv, Typed, CoordTyped
    <2>1. CASE d = e /\ Pending(e)
      <3>1. rows'[d] = 0 /\ epochs'[d].state = "deleted"
        BY <1>3, <2>1
           DEF ReconcileDelete, Pending, PutEpoch, DeletedEpoch, Epoch, Inv, Typed, EpochsTyped,
               RowsTyped
      <3>2. Consistent(d)'
        BY <3>1 DEF Consistent, Agree
      <3> QED BY <3>2, <2>s, ConsistentIsAccounted
    <2>2. CASE ~(d = e /\ Pending(e))
      <3>1. rows'[d] = rows[d] /\ epochs'[d] = epochs[d]
        BY <1>3, <2>2
           DEF ReconcileDelete, Pending, PutEpoch, epochal, Inv, Typed, EpochsTyped, RowsTyped
      <3>2. /\ Pending(d)' <=> Pending(d)
            /\ Consistent(d)' <=> Consistent(d)
        BY <2>s, <3>1 DEF Pending, Consistent, Agree
      <3>3. Half(d)' <=> Half(d)
        BY <2>s, <3>1, <3>2 DEF Half
      <3>4. Pending(d) => d \in init'.deletes
        BY <2>2, <2>a, <2>i, <1>n DEF Accounted
      <3> QED BY <2>s, <2>a, <2>i, <3>1, <3>2, <3>3, <3>4, <1>n DEF Accounted
    <2> QED BY <2>1, <2>2
  <1> QED BY <1>1, <1>2, <1>3

LEMMA ExplainedByWorker ==
    ASSUME Inv, Retained, Standing, QuietParts, faults = 0, faults' = 0, WorkerStep
    PROVE  Explained'
  <1>q. Explained /\ ClaimHeld /\ MemoryIsDisk /\ Lifetime
    BY DEF QuietParts
  <1>1. /\ WorkerMoves \/ WorkerClaims \/ WorkerMerges \/ WorkerPublishes \/ WorkerEnds
        /\ UNCHANGED <<started, init, ing, del>> /\ started
    BY QuietWorker, <1>q DEF coord, Lifetime
  <1>n. init' = NoInit /\ started'
    BY <1>1, <1>q DEF Lifetime
  <1> DEFINE i == worker.id
             e == ing[i].doc
  <1>b. Publishing => /\ i \in Ids /\ e \in Docs /\ i < nextId
                      /\ recs[i] = Rec("processing", worker.rev)
                      /\ epochs[e].gen = ing[i].gen /\ ~Pending(e)
    <2>1. Publishing => AtWork /\ i \in Ids
      BY DEF Publishing, AtWork, Inv, Typed, WorkerTyped
    <2>2. Publishing => recs[i] = Rec("processing", worker.rev)
      BY <2>1, <1>q DEF ClaimHeld
    <2>3. Publishing => i < nextId /\ e \in Docs
      BY <2>1, <2>2 DEF Inv, Known, Rec
    <2> QED BY <2>1, <2>2, <2>3, <1>q DEF ClaimHeld
  <1>c. ASSUME NEW d \in Docs, ~(worker.pc = "epoch" /\ i = rows[d]),
               epochs'[d] = epochs[d], rows'[d] = rows[d]
        PROVE  Accounted(d)'
    <2>1. Accounted(d)
      BY <1>q DEF Explained
    <2> QED BY <2>1, <1>c, <1>1, <1>n, ServedIsAccounted DEF Deleting
  <1> SUFFICES ASSUME NEW d \in Docs
               PROVE  Accounted(d)'
    BY DEF Explained
  <1>2. CASE WorkerMoves \/ WorkerClaims \/ WorkerEnds
    <2>1. worker.pc # "epoch" /\ epochs' = epochs /\ rows' = rows
      BY <1>2 DEF WorkerMoves, WorkerClaims, WorkerEnds
    <2> QED BY <2>1, <1>c
  <1>3. CASE WorkerMerges
    <2>1. Publishing /\ epochs' = epochs /\ dRecs' = dRecs /\ worker.pc # "epoch"
      BY <1>3 DEF WorkerMerges, Publishing
    <2>2. CASE d # e
      BY <2>1, <2>2, <1>3, <1>c DEF WorkerMerges, Inv, Typed, RowsTyped
    <2>3. CASE d = e
      <3>1. rows'[d] = i
        BY <2>3, <1>3 DEF WorkerMerges, Inv, Typed, RowsTyped
      <3>2. worker'.pc = "epoch" /\ worker'.id = i
        BY <1>3 DEF WorkerMerges, Goto, Inv, Typed, WorkerTyped
      <3>3. dRecs'[i].status = "processing"
        BY <1>1, <1>b, <2>1 DEF Retained, RecordsRetained, InUse, Active, Rec
      <3>4. ~Pending(d)' /\ ing'[i].gen = epochs'[d].gen
        BY <1>1, <1>b, <2>1, <2>3 DEF Pending
      <3>5. Half(d)'
        BY <1>b, <2>1, <3>1, <3>3, <3>4 DEF Half, Ids
      <3>6. ~(Deleting' /\ del'.doc = d)
        BY <1>1, <1>q, <1>b, <2>1, <2>3 DEF Explained, Accounted, Deleting
      <3> QED BY <3>1, <3>2, <3>4, <3>5, <3>6, <1>n DEF Accounted
    <2> QED BY <2>2, <2>3
  <1>4. CASE WorkerPublishes
    <2>1. Publishing /\ worker.pc = "epoch" /\ rows' = rows
      BY <1>4 DEF WorkerPublishes, Publishing
    <2>2. CASE d # e
      <3>1. rows[d] # i
        <4>1. rows[d] # 0 => ing[rows[d]].doc = d
          BY DEF Inv, Fencing, RowsBelong, Born
        <4> QED BY <4>1, <2>1, <2>2, <1>b DEF Ids
      <3>2. epochs'[d] = epochs[d]
        BY <2>2, <1>4 DEF WorkerPublishes, PutEpoch, Inv, Typed, EpochsTyped
      <3> QED BY <2>1, <3>1, <3>2, <1>c
    <2>3. CASE d = e
      <3>1. rows[d] = i
        BY <2>1, <2>3 DEF Standing
      <3>2. epochs'[d] = Epoch("active", ing[i].gen, i)
        BY <2>3, <1>4 DEF WorkerPublishes, PutEpoch, ActiveEpoch, Inv, Typed, EpochsTyped
      <3>3. Consistent(d)'
        BY <1>1, <1>b, <2>1, <3>1, <3>2 DEF Consistent, Agree, Epoch, Ids
      <3>4. ~(Deleting' /\ del'.doc = d)
        BY <1>1, <1>q, <1>b, <2>1, <2>3 DEF Explained, Accounted, Deleting
      <3> QED BY <3>3, <3>4, ConsistentIsAccounted
    <2> QED BY <2>2, <2>3
  <1> QED BY <1>1, <1>2, <1>3, <1>4

LEMMA ExplainedByDeletion ==
    ASSUME Inv, Retained, QuietParts, faults = 0, Deletes
    PROVE  Explained'
  <1>q. Explained /\ Lifetime
    BY DEF QuietParts
  <1>1. /\ UNCHANGED <<started, init, ing>> /\ (del.pc # "idle" => started)
        /\ ~Publishing
    <2>1. del.pc # "idle" => started
      BY <1>q DEF Lifetime, NoWork, Work
    <2>2. (\E d \in Docs : MayDelete(d)) => ~Publishing
      BY DEF MayDelete, CanWrite, CanRead, Writing
    <2>3. del.pc \in {"rows", "epoch"} => ~Publishing
      BY DEF Inv, Fencing, DeletionFences, Deleting
    <2> QED BY <2>1, <2>2, <2>3 DEF Deletes, coord, created
  <1>2. worker.pc # "epoch"
    BY <1>1 DEF Publishing
  <1>3. started /\ started' /\ init' = NoInit
    BY <1>1, <1>q DEF Deletes, Lifetime, MayDelete
  <1>c. ASSUME NEW d \in Docs, epochs'[d] = epochs[d], rows'[d] = rows[d],
               (Deleting' /\ del'.doc = d) <=> (Deleting /\ del.doc = d)
        PROVE  Accounted(d)'
    <2>1. Accounted(d)
      BY <1>q DEF Explained
    <2> QED BY <2>1, <1>c, <1>1, <1>2, <1>3, ServedIsAccounted
  <1> SUFFICES ASSUME NEW d \in Docs
               PROVE  Accounted(d)'
    BY DEF Explained
  <1>4. ASSUME NEW e \in Docs, MayDelete(e), PutEpoch(e, Intent(e)), UNCHANGED rows,
               del' = Work("rows", e, None, Intent(e).gen)
        PROVE  Accounted(d)'
    <2>1. ~Deleting /\ Deleting' /\ del'.doc = e
      BY <1>4 DEF MayDelete, Deleting, Work
    <2>2. CASE d = e
      <3>1. Pending(d)'
        BY <2>2, <1>4 DEF Pending, PutEpoch, Intent, Epoch, Inv, Typed, EpochsTyped
      <3> QED BY <3>1, <2>1, <2>2, <1>3, PendingIsAccounted
    <2>3. CASE d # e
      BY <2>1, <2>3, <1>4, <1>c DEF PutEpoch, Inv, Typed, EpochsTyped
    <2> QED BY <2>2, <2>3
  <1>5. CASE /\ del.pc = "rows" /\ rows' = [rows EXCEPT ![del.doc] = 0]
             /\ del' = [del EXCEPT !.pc = "epoch"] /\ UNCHANGED <<epochs, dEpochs>>
    <2>1. Deleting /\ Deleting' /\ del'.doc = del.doc
      BY <1>5 DEF Inv, Typed, CallsTyped, Deleting
    <2>2. CASE d = del.doc
      <3>1. Pending(d)'
        BY <2>1, <2>2, <1>5, <1>3, <1>q DEF Explained, Accounted, Pending
      <3> QED BY <3>1, <2>1, <2>2, <1>3, PendingIsAccounted
    <2>3. CASE d # del.doc
      BY <2>1, <2>3, <1>5, <1>c DEF Inv, Typed, RowsTyped
    <2> QED BY <2>2, <2>3
  <1>6. CASE /\ del.pc = "epoch" /\ del' = NoWork /\ UNCHANGED rows
             /\ PutEpoch(del.doc, DeletedEpoch(del.doc))
    <2>1. ~Deleting'
      BY <1>6 DEF Deleting, NoWork, Work
    <2>2. CASE d = del.doc
      <3>1. rows'[d] = 0
        BY <2>2, <1>6 DEF Inv, Fencing, DeletionFences, Deleting
      <3>2. epochs'[d].state = "deleted"
        BY <2>2, <1>6 DEF PutEpoch, DeletedEpoch, Epoch, Inv, Typed, EpochsTyped
      <3>3. Consistent(d)'
        BY <3>1, <3>2 DEF Consistent, Agree
      <3> QED BY <3>3, <2>1, ConsistentIsAccounted
    <2>3. CASE d # del.doc
      BY <2>1, <2>3, <1>6, <1>c DEF PutEpoch, Inv, Typed, EpochsTyped
    <2> QED BY <2>2, <2>3
  <1> QED BY <1>4, <1>5, <1>6 DEF Deletes

(* A crash that leaves an ended record behind: the ingestion was published,  *)
(* with its epoch, or its document does not show it.                         *)
LEMMA ExplainedByCrash ==
    ASSUME Inv, Explained, Lifetime, CrashInTransition
    PROVE  Explained'
  <1>t. /\ dRecs \in [Ids -> RecRecord]
        /\ worker.pc # "off" => started
    BY DEF Inv, Typed, RecordsTyped, Lifetime
  <1>s. ~started' /\ init' = NoInit /\ UNCHANGED <<epochs, rows, ing>>
    BY DEF CrashInTransition, Down, epochal, created
  <1>1. PICK i \in Ids : /\ \A j \in Ids : j # i => dRecs'[j] = dRecs[j]
                         /\ \/ i = worker.id /\ started /\ worker.pc # "epoch"
                            \/ i = init.held.id /\ SettlesRecord
    <2>1. worker.pc \in {"complete", "fail", "failfatal"} => worker.id \in Ids
      BY DEF Inv, Typed, WorkerTyped
    <2>2. SettlesRecord => init.held.id \in Ids
      BY DEF SettlesRecord, Inv, Typed, CoordTyped
    <2>3. ASSUME NEW k \in Ids, NEW s, EndWritten(k, s)
          PROVE  \A j \in Ids : j # k => dRecs'[j] = dRecs[j]
      BY <1>t, <2>3 DEF EndWritten
    <2>4. CASE worker.pc \in {"complete", "fail", "failfatal"} /\ \E s : EndWritten(worker.id, s)
      <3>1. started /\ worker.pc # "epoch" /\ worker.id \in Ids
        BY <1>t, <2>1, <2>4
      <3> QED BY <2>3, <2>4, <3>1
    <2>5. CASE SettlesRecord /\ \E s : EndWritten(init.held.id, s)
      BY <2>2, <2>3, <2>5
    <2> QED BY <2>4, <2>5 DEF CrashInTransition
  <1> SUFFICES ASSUME NEW d \in Docs
               PROVE  Accounted(d)'
    BY DEF Explained
  <1>a. Accounted(d)
    BY DEF Explained
  <1>2. CASE rows[d] # i
    <2>1. rows[d] # 0 => rows[d] \in Ids
      BY DEF Inv, Typed, RowsTyped
    <2>2. rows[d] # 0 => dRecs'[rows[d]] = dRecs[rows[d]]
      BY <1>1, <1>2, <1>t, <2>1
    <2> QED BY <1>a, <1>s, <2>2, AccountedFrame
  <1>3. CASE rows[d] = i
    <2>1. Consistent(d) \/ Pending(d)
      <3>1. CASE started /\ worker.pc # "epoch"
        BY <1>a, <3>1 DEF Accounted
      <3>2. CASE i = init.held.id /\ SettlesRecord
        <4>1. ing[i].doc = d
          BY <1>3 DEF Inv, Fencing, RowsBelong, Born, Ids
        <4> QED BY <1>3, <3>2, <4>1 DEF SettlesRecord, EpochBehind, Published
      <3> QED BY <1>1, <3>1, <3>2
    <2>2. Consistent(d)' \/ Pending(d)'
      BY <1>s, <2>1 DEF Consistent, Agree, Pending
    <2> QED BY <1>s, <2>2, ConsistentIsAccounted, PendingIsAccounted
  <1> QED BY <1>2, <1>3

LEMMA ExplainedKept ==
    ASSUME Inv, Retained, Standing, QuietParts, faults = 0, faults' = 0, [Next]_vars
    PROVE  Explained'
  <1>q. Explained /\ Lifetime
    BY DEF QuietParts
  <1>t. /\ recs \in [Ids -> RecRecord] /\ dRecs \in [Ids -> RecRecord]
        /\ rows \in [Docs -> Ids \cup {0}] /\ ing \in [Ids -> IngRecord]
    BY DEF Inv, Typed, RecordsTyped, RowsTyped, CreatedTyped
  <1>f. ASSUME started' => started, init' \in {init, NoInit},
               UNCHANGED del \/ ~started' \/ (~Deleting /\ ~Deleting'),
               worker' = worker \/ ~started' \/ worker.pc # "epoch",
               UNCHANGED <<epochs, rows>>,
               \A d \in Docs : rows[d] # 0 =>
                   /\ ing'[rows[d]] = ing[rows[d]]
                   /\ dRecs'[rows[d]].status = dRecs[rows[d]].status
                   /\ (recs'[rows[d]].rev = recs[rows[d]].rev \/ init' = NoInit)
        PROVE  Explained'
    <2> SUFFICES ASSUME NEW d \in Docs
                 PROVE  Accounted(d)'
      BY DEF Explained
    <2>1. Accounted(d)
      BY <1>q DEF Explained
    <2>2. epochs'[d] = epochs[d] /\ rows'[d] = rows[d]
      BY <1>f
    <2>3. rows[d] # 0 => /\ ing'[rows[d]] = ing[rows[d]]
                         /\ dRecs'[rows[d]].status = dRecs[rows[d]].status
                         /\ recs'[rows[d]].rev = recs[rows[d]].rev \/ init' = NoInit
      BY <1>f
    <2>4. /\ started' => started
          /\ init' \in {init, NoInit}
          /\ started' => ((Deleting' /\ del'.doc = d) <=> (Deleting /\ del.doc = d))
          /\ worker' = worker \/ ~started' \/ worker.pc # "epoch"
      BY <1>f DEF Deleting
    <2> QED BY <2>1, <2>2, <2>3, <2>4, AccountedFrame
  <1>n. ASSUME Decided, NewIngestion
        PROVE  \A d \in Docs : rows[d] # 0
                   => rows[d] \in Ids /\ rows[d] # nextId /\ ing'[rows[d]] = ing[rows[d]]
    <2>1. \A d \in Docs : rows[d] # 0 => rows[d] \in Ids /\ rows[d] < nextId
      BY <1>t DEF Inv, Fencing, RowsBelong, Born
    <2>2. nextId \in Ids
      BY <1>n DEF Inv, Typed, CallsTyped
    <2>3. \A d \in Docs : rows[d] # 0 => rows[d] # nextId
      BY <2>1, <2>2 DEF Ids
    <2> QED BY <2>1, <2>2, <2>3, <1>n, <1>t DEF NewIngestion
  <1>1. CASE Start \/ Stop
    BY <1>1, <1>f DEF Start, Stop, records, epochal, created, procs
  <1>2. CASE Halts
    <2>1. ~started' /\ init' = NoInit /\ epochs' = epochs
      BY <1>2 DEF Halts, Down
    <2>2. CASE UNCHANGED <<dRecs, ing, rows>>
      BY <2>1, <2>2, <1>f
    <2>3. CASE CreateCut
      <3>1. \A d \in Docs : rows[d] # 0 => /\ ing'[rows[d]] = ing[rows[d]]
                                           /\ dRecs'[rows[d]] = dRecs[rows[d]]
        BY <2>3, <1>n, <1>t DEF CreateCut, Decided
      <3>2. rows' = rows
        BY <2>3 DEF CreateCut
      <3> QED BY <2>1, <3>1, <3>2, <1>f
    <2>4. CASE CrashInTransition
      BY <1>q, <2>4, ExplainedByCrash
    <2>5. ASSUME NEW e \in Docs, CrashInReconcile(e)
          PROVE  Explained'
      <3> SUFFICES ASSUME NEW d \in Docs
                   PROVE  Accounted(d)'
        BY DEF Explained
      <3>1. CASE d = e
        <4>1. Pending(d)'
          BY <2>1, <2>5, <3>1 DEF CrashInReconcile, Pending
        <4> QED BY <2>1, <4>1, PendingIsAccounted
      <3>2. CASE d # e
        <4>1. rows'[d] = rows[d] /\ UNCHANGED <<recs, dRecs, ing>>
          BY <2>5, <3>2, <1>t DEF CrashInReconcile, records, created
        <4>2. Accounted(d)
          BY <1>q DEF Explained
        <4> QED BY <2>1, <4>1, <4>2, AccountedFrame
      <3> QED BY <3>1, <3>2
    <2> QED BY <1>2, <2>2, <2>3, <2>4, <2>5 DEF Halts
  <1>3. CASE Creates
    <2>1. \A d \in Docs : rows[d] # 0 => /\ ing'[rows[d]] = ing[rows[d]]
                                         /\ dRecs'[rows[d]] = dRecs[rows[d]]
                                         /\ recs'[rows[d]] = recs[rows[d]]
      BY <1>3, <1>n, <1>t DEF Creates
    <2>2. worker' = worker \/ worker.pc # "epoch"
      BY <1>3 DEF Creates, Notified
    <2> QED BY <1>3, <2>1, <2>2, <1>f DEF Creates, coord
  <1>4. CASE Sweeps
    <2>1. CASE UNCHANGED <<recs, dRecs>>
      BY <1>4, <2>1, <1>f DEF Sweeps, coord, created
    <2>2. ASSUME NEW i \in Ids, recs[i].status \in Terminal,
                 recs' = [recs EXCEPT ![i] = Gone], dRecs' = [dRecs EXCEPT ![i] = Gone]
          PROVE  Explained'
      <3>s. UNCHANGED <<started, init, del, worker, epochs, rows, ing>>
        BY <1>4 DEF Sweeps, coord, created
      <3> SUFFICES ASSUME NEW d \in Docs
                   PROVE  Accounted(d)'
        BY DEF Explained
      <3>a. Accounted(d)
        BY <1>q DEF Explained
      <3>1. dRecs[i].status # "processing" /\ dRecs'[i].status # "processing"
        BY <2>2, <1>t DEF Retained, RecordsRetained, Active, Gone, Rec
      <3>2. \A j \in Ids : j # i => dRecs'[j] = dRecs[j] /\ recs'[j] = recs[j]
        BY <2>2, <1>t
      <3>3. /\ Pending(d)' <=> Pending(d)
            /\ Consistent(d)' <=> Consistent(d)
        BY <3>s DEF Pending, Consistent, Agree
      <3>4. Half(d)' <=> Half(d)
        BY <3>s, <3>1, <3>2, <3>3, <1>t DEF Half
      <3>5. Half(d) => recs'[rows[d]] = recs[rows[d]]
        BY <3>1, <3>2, <1>t DEF Half
      <3>6. Half(d)' => [id |-> rows'[d], rev |-> recs'[rows'[d]].rev]
                        = [id |-> rows[d], rev |-> recs[rows[d]].rev]
        BY <3>s, <3>4, <3>5
      <3>7. started' => /\ Pending(d)' <=> (Deleting' /\ del'.doc = d)
                        /\ Half(d)' => \/ Consistent(d)'
                                       \/ worker'.pc = "epoch" /\ worker'.id = rows'[d]
        BY <3>s, <3>a, <3>3, <3>4 DEF Accounted, Deleting
      <3>8. init' # NoInit => /\ Pending(d)' => d \in init'.deletes
                              /\ Half(d)' =>
                                   \/ Consistent(d)'
                                   \/ [id |-> rows'[d], rev |-> recs'[rows'[d]].rev]
                                      \in init'.recover \cup {init'.held}
        BY <3>s, <3>a, <3>3, <3>4, <3>6 DEF Accounted
      <3>9. Consistent(d)' \/ Pending(d)' \/ Half(d)'
        BY <3>a, <3>3, <3>4 DEF Accounted
      <3> QED BY <3>7, <3>8, <3>9 DEF Accounted
    <2> QED BY <1>4, <2>1, <2>2 DEF Sweeps
  <1>5. ASSUME NEW d \in Docs, NEW v \in Versions, Submits(d, v)
        PROVE  Explained'
    BY <1>5, <1>f DEF Submits, coord, created
  <1>w. CASE Waits
    BY <1>w, <1>f DEF Waits, coord, created
  <1>6. ASSUME \/ Finish \/ Settles \/ SettlesEpoch \/ Completes \/ Load \/ Deletes
               \/ WorkerStep
               \/ \E d \in Docs : ReconcileDelete(d)
        PROVE  Explained'
    BY <1>6, ExplainedByLoad, ExplainedByRecovery, ExplainedByStart, ExplainedByWorker,
       ExplainedByDeletion
  <1> QED BY <1>1, <1>2, <1>3, <1>4, <1>5, <1>w, <1>6, QuietSteps

LEMMA QuietStep == Inv /\ Inv' /\ Retained /\ Standing /\ Quiet /\ [Next]_vars => Quiet'
  <1> SUFFICES ASSUME Inv, Inv', Retained, Standing, Quiet, [Next]_vars, faults' = 0
               PROVE  QuietParts'
    BY DEF Quiet
  <1>1. faults = 0
    BY FaultsGrow DEF Inv, Typed, CountersTyped, Fault
  <1> QED
    BY <1>1, LifetimeKept, MemoryIsDiskKept, ClaimHeldKept, OneOnDiskKept, ExplainedKept, HeldKept
       DEF Quiet, QuietParts

(* While nothing fails the coordinator initialises once per life of the      *)
(* process, memory and files agree, the claimed ingestion stays the worker's, *)
(* a document has one ingestion at work, and whatever its epoch and its rows *)
(* disagree about is the unfinished work of somebody who will finish it.     *)
THEOREM QuietInvariant == Spec => []Quiet
  <1>1. Init => Quiet
    <2> SUFFICES ASSUME Init
                 PROVE  QuietParts
      BY DEF Quiet
    <2>1. Lifetime /\ ClaimHeld /\ MemoryIsDisk
      BY DEF Init, Lifetime, ClaimHeld, MemoryIsDisk, AtWork, Publishing, Off, Loop
    <2>2. OneOnDisk
      BY DEF Init, OneOnDisk, Gone, Rec, Active, NoWork, Work
    <2>3. Explained
      BY DEF Init, Explained, Accounted, Consistent, Agree, Epoch, Half, Pending, Deleting,
             NoWork, Work
    <2>4. HeldOnlySettling
      BY DEF Init, HeldOnlySettling
    <2> QED BY <2>1, <2>2, <2>3, <2>4 DEF QuietParts
  <1> QED
    BY <1>1, QuietStep, IndexInvariant, RetainedInvariant, StandingInvariant, PTL DEF Spec

(* While the coordinator serves, the epoch of a document that nothing holds  *)
(* says what its rows are: the initialisation reconciles every document that *)
(* a crash left between the two before submissions and searches are admitted. *)
THEOREM EpochsFollow == Spec => []EpochFollowsTable
  <1>1. Inv /\ Quiet => EpochFollowsTable
    <2> SUFFICES ASSUME Inv, QuietParts, Serving, NEW d \in Docs, CanWrite(d)
                 PROVE  Consistent(d)
      BY DEF Quiet, EpochFollowsTable
    <2>1. started
      BY DEF QuietParts, Lifetime, Serving
    <2> QED BY <2>1, StartedIsSettled DEF CanWrite
  <1> QED BY <1>1, IndexInvariant, QuietInvariant, PTL

----------------------------------------------------------------------------
(* Why a document never has two ingestions at work.  A record that the files *)
(* have and memory has not is loaded behind the back of a submission only    *)
(* when an initialisation runs beside it, and that takes a second failure.   *)

AtWorkIn(rs) == {i \in Ids : rs[i].status \in Active}
Hidden == AtWorkIn(dRecs) \ AtWorkIn(recs)
Open   == ready \/ init # NoInit \/ sub.pc \in {"asked", "create"}

(* What has ended, or has a tombstone, is not at work in the files.          *)
Remains ==
    /\ \A i \in Ids : recs[i].status \in Terminal \/ i \in dTombs => dRecs[i].status \notin Active
    /\ \A i \in dTombs : i < nextId /\ recs[i].status \notin Active

HiddenTakesTwo == faults < 2 /\ Open => Hidden = {}
SubmitsAlone   == faults < 2 /\ sub.pc = "create" => OwnerIds(sub.doc) = {}

Sole == Remains /\ HiddenTakesTwo /\ SubmitsAlone /\ OneOwner

(* No ingestion is put to work, and none is hidden.                          *)
RecordsShrink ==
    /\ AtWorkIn(recs') \subseteq AtWorkIn(recs) /\ Hidden' \subseteq Hidden
    /\ Remains' /\ UNCHANGED ing

LEMMA ShrinkByPut ==
    ASSUME Typed, Remains, NEW i \in Ids, recs[i].status \in Active, NEW r,
           r.status \in Active \cup Terminal, Put(i, r) \/ PutFails(i, r), UNCHANGED created
    PROVE  RecordsShrink
  <1>1. recs \in [Ids -> RecRecord] /\ dRecs \in [Ids -> RecRecord]
    BY DEF Typed, RecordsTyped
  <1>2. /\ \A j \in Ids : j # i => recs'[j] = recs[j] /\ dRecs'[j] = dRecs[j]
        /\ \/ recs'[i] = r /\ dRecs'[i] = r
           \/ recs'[i] = recs[i]
        /\ UNCHANGED <<dTombs, ing, nextId>>
    BY <1>1 DEF Put, PutFails, created
  <1>3. i \notin dTombs
    BY DEF Remains
  <1>4. dTombs \subseteq Ids
    BY DEF Typed, RecordsTyped
  <1>5. Remains'
    BY <1>2, <1>3, <1>4 DEF Remains, Active, Terminal
  <1>6. AtWorkIn(recs') \subseteq AtWorkIn(recs)
    BY <1>2 DEF AtWorkIn
  <1>7. Hidden' \subseteq Hidden
    BY <1>2 DEF Hidden, AtWorkIn
  <1> QED BY <1>2, <1>5, <1>6, <1>7 DEF RecordsShrink

LEMMA ShrinkFrame ==
    ASSUME Typed, Remains, UNCHANGED <<recs, dRecs, created>>, dTombs' \subseteq dTombs
    PROVE  RecordsShrink
  BY DEF Typed, RecordsTyped, Remains, RecordsShrink, AtWorkIn, Hidden, created

LEMMA ShrinkByHalfLoad ==
    ASSUME Typed, Remains, HalfLoaded, UNCHANGED <<recs, dTombs, created>>
    PROVE  RecordsShrink
  <1>1. \A i \in Ids : dRecs'[i].status \in Active => dRecs[i].status \in Active
    BY HalfLoadedFiles DEF Typed, Active
  <1> QED
    BY <1>1 DEF Typed, RecordsTyped, Remains, RecordsShrink, AtWorkIn, Hidden, created

LEMMA ShrinkByInitialisation ==
    ASSUME Inv, Remains, InitialiseStep \/ Failure, ~Load
    PROVE  RecordsShrink
  <1>a. Typed
    BY DEF Inv
  <1>1. CASE InitIndex \/ Finish \/ SettleImpossible \/ SettleEpoch \/ SettleRejected
    BY <1>1, <1>a, ShrinkFrame DEF InitIndex, Finish, SettleImpossible, SettleEpoch,
                                   SettleRejected, records
  <1>2. ASSUME NEW d \in Docs, ReconcileDelete(d) \/ ReconcileDeleteFails(d)
        PROVE  RecordsShrink
    BY <1>2, <1>a, ShrinkFrame DEF ReconcileDelete, ReconcileDeleteFails, records
  <1>3. ASSUME NEW c \in init.recover, RecoverSkip(c) \/ RecoverLock(c)
        PROVE  RecordsShrink
    BY <1>3, <1>a, ShrinkFrame DEF RecoverSkip, RecoverLock, records
  <1>4. CASE SettleRecord
    <2> DEFINE i == init.held.id
               r == Moved(i, Outcome(i))
    <2>1. i \in Ids /\ recs[i].status \in Active
      BY <1>4, <1>a DEF SettleRecord, SettlesRecord, Unmoved, Typed, CoordTyped, Rec, Active
    <2>2. r.status \in Active \cup Terminal
      BY DEF Moved, Outcome, Rec, Active, Terminal
    <2>3. (Put(i, r) \/ PutFails(i, r)) /\ UNCHANGED created
      BY <1>4 DEF SettleRecord
    <2> QED BY <2>1, <2>2, <2>3, <1>a, ShrinkByPut
  <1>5. CASE LoadFails
    BY <1>5, <1>a, ShrinkByHalfLoad DEF LoadFails
  <1> QED BY <1>1, <1>2, <1>3, <1>4, <1>5 DEF InitialiseStep, Failure

LEMMA ShrinkByWorker ==
    ASSUME Inv, Remains, WorkerStep
    PROVE  RecordsShrink
  <1>a. Typed
    BY DEF Inv
  <1>c. UNCHANGED created
    BY DEF WorkerStep, Pick, WorkerExit, Claim, ReadSnapshot, Embed, Abort, Revalidate, Merge,
           PublishEpoch, Complete, Requeue, Fail
  <1>1. CASE UNCHANGED records
    BY <1>1, <1>a, <1>c, ShrinkFrame DEF records
  <1>2. ASSUME NEW r, NEW t \in {"processing", "completed", "queued", "failed"},
               worker.pc \in {"claim", "complete", "retry", "fail", "failfatal"},
               r = Moved(worker.id, t), recs[worker.id].status \in Active,
               Put(worker.id, r) \/ PutFails(worker.id, r)
        PROVE  RecordsShrink
    <2>1. worker.id \in Ids
      BY <1>2, <1>a DEF Typed, WorkerTyped
    <2>2. r.status \in Active \cup Terminal
      BY <1>2 DEF Moved, Rec, Active, Terminal
    <2> QED BY <1>2, <1>a, <1>c, <2>1, <2>2, ShrinkByPut
  <1>3. CASE Pick \/ WorkerExit \/ ReadSnapshot \/ Embed \/ Abort \/ Revalidate \/ Merge
             \/ PublishEpoch
    BY <1>1, <1>3
       DEF Pick, WorkerExit, ReadSnapshot, Embed, Abort, Revalidate, Merge, PublishEpoch
  <1>4. CASE Claim
    BY <1>1, <1>2, <1>4 DEF Claim, Rec, Active
  <1>5. CASE Complete \/ Requeue \/ Fail
    <2>1. PICK t \in {"completed", "queued", "failed"} :
             /\ worker.pc \in {"complete", "retry", "fail", "failfatal"}
             /\ \/ Holds /\ (Put(worker.id, Moved(worker.id, t))
                             \/ PutFails(worker.id, Moved(worker.id, t)))
                \/ UNCHANGED records
      BY <1>5 DEF Complete, Requeue, Fail, Leave
    <2>2. Holds => recs[worker.id].status \in Active
      BY DEF Holds, Rec, Active
    <2> QED BY <1>1, <1>2, <2>1, <2>2
  <1> QED BY <1>3, <1>4, <1>5 DEF WorkerStep

LEMMA ShrinkByRetention ==
    ASSUME Inv, Remains, Retention
    PROVE  RecordsShrink
  <1>a. Typed /\ Known
    BY DEF Inv
  <1>t. recs \in [Ids -> RecRecord] /\ dRecs \in [Ids -> RecRecord] /\ dTombs \subseteq Ids
    BY <1>a DEF Typed, RecordsTyped
  <1> SUFFICES ASSUME NEW i \in Ids, Expire(i) \/ Sweep(i) \/ SweepFails(i) \/ SweepTombstone(i)
               PROVE  RecordsShrink
    BY DEF Retention
  <1>1. CASE Expire(i) \/ SweepTombstone(i)
    BY <1>1, <1>a, <1>t, ShrinkFrame DEF Expire, SweepTombstone
  <1>2. CASE Sweep(i) \/ SweepFails(i)
    <2>1. /\ recs[i].status \in Terminal /\ UNCHANGED <<ing, nextId>>
          /\ dTombs' \in {dTombs, dTombs \cup {i}}
          /\ recs' \in {recs, [recs EXCEPT ![i] = Gone]}
          /\ dRecs' \in {dRecs, [dRecs EXCEPT ![i] = Gone]}
      BY <1>2 DEF Sweep, SweepFails, Swept, created
    <2>2. i < nextId /\ dRecs[i].status \notin Active
      BY <2>1, <1>a DEF Known, Remains, Terminal
    <2>3. /\ \A j \in Ids : j # i => recs'[j] = recs[j] /\ dRecs'[j] = dRecs[j]
          /\ recs'[i].status \notin Active /\ dRecs'[i].status \notin Active
      BY <2>1, <2>2, <1>t DEF Gone, Rec, Active, Terminal
    <2>4. Remains'
      BY <2>1, <2>2, <2>3, <1>t DEF Remains
    <2> QED BY <2>1, <2>3, <2>4 DEF RecordsShrink, AtWorkIn, Hidden
  <1> QED BY <1>1, <1>2

(* An initialisation loads what the files have at work, one ingestion of a   *)
(* document; nothing is hidden from it.                                      *)
LEMMA SoleByLoad ==
    ASSUME Inv, Sole, Load
    PROVE  Sole'
  <1>t. /\ recs \in [Ids -> RecRecord] /\ dRecs \in [Ids -> RecRecord] /\ dTombs \subseteq Ids
        /\ Duplicates \subseteq Ids
    BY DEF Inv, Typed, RecordsTyped, Duplicates, LoadedActive
  <1>1. /\ \A i \in Ids : recs'[i] = IF i \in Duplicates THEN Rec("failed", Loaded[i].rev + 1)
                                     ELSE Loaded[i]
        /\ \A i \in Ids : dRecs'[i] = IF i \in Duplicates THEN Rec("failed", dRecs[i].rev + 1)
                                      ELSE dRecs[i]
        /\ UNCHANGED <<dTombs, faults, ing, nextId, sub>>
    BY DEF Load, Repair, created, procs
  <1>2. \A i \in Ids : /\ i \in dTombs => Loaded[i] = Gone /\ dRecs[i].status \notin Active
                       /\ i \notin dTombs => Loaded[i] = dRecs[i]
    BY DEF Loaded, Sole, Remains
  <1>3. \A i \in Ids : i \in dTombs => i \notin Duplicates
    BY <1>2 DEF Duplicates, LoadedActive, Gone, Rec, Active
  <1>c. ASSUME NEW i \in Ids
        PROVE  \/ recs'[i].status = "failed" /\ dRecs'[i].status = "failed"
               \/ recs'[i].status = "absent" /\ dRecs'[i].status \notin Active
               \/ recs'[i] = dRecs[i] /\ dRecs'[i] = dRecs[i] /\ i \notin Duplicates
                  /\ Loaded[i] = dRecs[i]
    <2>1. CASE i \in Duplicates
      <3>1. /\ recs'[i] = Rec("failed", Loaded[i].rev + 1)
            /\ dRecs'[i] = Rec("failed", dRecs[i].rev + 1)
        BY <1>1, <2>1
      <3>2. recs'[i].status = "failed" /\ dRecs'[i].status = "failed"
        BY <3>1 DEF Rec
      <3> QED BY <3>2
    <2>2. CASE i \in dTombs
      <3>1. recs'[i] = Gone /\ dRecs'[i] = dRecs[i] /\ dRecs[i].status \notin Active
        BY <1>1, <1>2, <1>3, <2>2
      <3>2. recs'[i].status = "absent" /\ dRecs'[i].status \notin Active
        BY <3>1 DEF Gone, Rec
      <3> QED BY <3>2
    <2>3. CASE i \notin Duplicates /\ i \notin dTombs
      BY <1>1, <1>2, <2>3
    <2> QED BY <2>1, <2>2, <2>3
  <1>4. Remains'
    <2>1. \A i \in Ids : i \in dTombs => recs'[i] = Gone /\ dRecs'[i].status \notin Active
      BY <1>1, <1>2, <1>3
    <2>2. \A i \in Ids : recs'[i].status \in Terminal => dRecs'[i].status \notin Active
      BY <1>c DEF Active, Terminal
    <2>3. \A i \in dTombs : i < nextId
      BY DEF Sole, Remains
    <2> QED BY <1>1, <1>t, <2>1, <2>2, <2>3 DEF Remains, Gone, Rec, Active
  <1>5. Hidden' = {}
    BY <1>c DEF Hidden, AtWorkIn, Active
  <1>6. \A i \in Ids : recs'[i].status \in Active
                       => i \in LoadedActive \ Duplicates /\ dRecs[i].status \in Active
    BY <1>c DEF LoadedActive, Active
  <1>7. SubmitsAlone'
    <2> SUFFICES ASSUME faults < 2, sub.pc = "create", NEW i \in Ids,
                        recs'[i].status \in Active, ing[i].doc = sub.doc
                 PROVE  FALSE
      BY <1>1 DEF SubmitsAlone, OwnerIds
    <2>1. Hidden = {} /\ OwnerIds(sub.doc) = {}
      BY DEF Sole, HiddenTakesTwo, SubmitsAlone, Open
    <2> QED BY <1>6, <2>1 DEF Hidden, AtWorkIn, OwnerIds
  <1>8. OneOwner'
    <2> SUFFICES ASSUME NEW i \in Ids, NEW j \in Ids, recs'[i].status \in Active,
                        recs'[j].status \in Active, ing[i].doc = ing[j].doc
                 PROVE  i = j
      BY <1>1 DEF OneOwner
    <2>1. ~(i < j) /\ ~(j < i)
      BY <1>6 DEF Duplicates
    <2> QED BY <2>1 DEF Ids
  <1> QED BY <1>4, <1>5, <1>7, <1>8 DEF Sole, HiddenTakesTwo

LEMMA SoleByCreation ==
    ASSUME Inv, Quiet, Sole, CreateQueued \/ CreateFails \/ CreateCut \/ CreateCompletedHit
    PROVE  Sole'
  <1>t. /\ recs \in [Ids -> RecRecord] /\ dRecs \in [Ids -> RecRecord] /\ dTombs \subseteq Ids
        /\ ing \in [Ids -> IngRecord] /\ faults \in Nat
    BY DEF Inv, Typed, RecordsTyped, CreatedTyped, CountersTyped
  <1>n. /\ nextId \in Ids /\ nextId \in Nat /\ sub'.pc = "idle"
        /\ recs[nextId].status = "absent" /\ dRecs[nextId].status = "absent"
        /\ nextId \notin dTombs
    <2>1. nextId \in Ids /\ nextId \in Nat /\ sub'.pc = "idle"
      BY DEF CreateQueued, CreateFails, CreateCut, CreateCompletedHit, Down, NoWork, Work, Inv,
             Typed, CallsTyped, Decided, Ids
    <2>2. ~(nextId < nextId)
      BY <2>1
    <2> QED BY <2>1, <2>2 DEF Inv, Known, Sole, Remains
  <1>1. \A i \in Ids : ing'[i] = IF i = nextId THEN Ing(sub.doc, sub.ver, sub.gen) ELSE ing[i]
    BY <1>t DEF CreateQueued, CreateFails, CreateCut, CreateCompletedHit, NewIngestion
  <1>2. /\ nextId' = nextId + 1 /\ dTombs' = dTombs
        /\ faults' = faults \/ faults' = faults + 1
    BY DEF CreateQueued, CreateFails, CreateCut, CreateCompletedHit, NewIngestion, Put, PutFails,
           Fault
  <1>3. \A i \in Ids : i # nextId => recs'[i] = recs[i] /\ dRecs'[i] = dRecs[i]
    BY <1>t, <1>n DEF CreateQueued, CreateFails, CreateCut, CreateCompletedHit, Put, PutFails
  <1>4. \/ CreateQueued /\ recs'[nextId].status = "queued" /\ dRecs'[nextId].status = "queued"
        \/ CreateFails /\ recs'[nextId].status = "absent"
        \/ CreateCut /\ recs'[nextId].status = "absent"
        \/ CreateCompletedHit /\ recs'[nextId].status \notin Active
                              /\ dRecs'[nextId].status \notin Active
    BY <1>t, <1>n
       DEF CreateQueued, CreateFails, CreateCut, CreateCompletedHit, Put, PutFails, Rec, Active
  <1>5. Remains'
    <2>1. \A i \in Ids : recs'[i].status \in Terminal => dRecs'[i].status \notin Active
      <3>1. recs'[nextId].status \in Terminal => dRecs'[nextId].status \notin Active
        BY <1>4 DEF Terminal
      <3> QED BY <3>1, <1>3 DEF Sole, Remains
    <2>2. \A i \in dTombs : /\ i < nextId + 1 /\ recs'[i].status \notin Active
                            /\ dRecs'[i].status \notin Active
      <3> SUFFICES ASSUME NEW i \in dTombs
                   PROVE  /\ i < nextId + 1 /\ recs'[i].status \notin Active
                          /\ dRecs'[i].status \notin Active
        OBVIOUS
      <3>1. i \in Ids /\ i # nextId
        BY <1>t, <1>n
      <3>2. i < nextId /\ recs[i].status \notin Active /\ dRecs[i].status \notin Active
        BY <3>1 DEF Sole, Remains
      <3> QED BY <3>1, <3>2, <1>3, <1>n DEF Ids
    <2> QED BY <2>1, <2>2, <1>2 DEF Remains
  <1>f. faults' < 2 => faults < 2
    BY <1>t, <1>2
  <1>6. HiddenTakesTwo'
    <2>1. CASE CreateFails
      <3>1. faults' = faults + 1 /\ sub.pc = "create" /\ ~ready' /\ init' = init
        BY <2>1 DEF CreateFails, Fault, Degraded
      <3>2. faults = 0 => init = NoInit
        BY <3>1 DEF Quiet, QuietParts, Lifetime, NoWork, Work
      <3>3. faults' < 2 => faults = 0
        BY <3>1, <1>t
      <3> QED BY <3>1, <3>2, <3>3, <1>n DEF HiddenTakesTwo, Open
    <2>2. CASE CreateCut
      BY <2>2, <1>n DEF CreateCut, Down, HiddenTakesTwo, Open
    <2>3. CASE CreateQueued \/ CreateCompletedHit
      <3>1. recs'[nextId].status \in Active \/ dRecs'[nextId].status \notin Active
        BY <2>3, <1>t, <1>n DEF CreateQueued, CreateCompletedHit, Put, PutFails, Rec, Active
      <3>2. Hidden' \subseteq Hidden
        BY <3>1, <1>3 DEF Hidden, AtWorkIn
      <3>3. Open' => Open
        BY <2>3, <1>n DEF CreateQueued, CreateCompletedHit, Degraded, coord, Open
      <3> QED BY <3>2, <3>3, <1>f DEF Sole, HiddenTakesTwo
    <2> QED BY <2>1, <2>2, <2>3
  <1>7. OneOwner'
    <2> SUFFICES ASSUME faults < 2, NEW i \in Ids, NEW j \in Ids, recs'[i].status \in Active,
                        recs'[j].status \in Active, ing'[i].doc = ing'[j].doc
                 PROVE  i = j
      BY <1>f DEF OneOwner
    <2>1. ASSUME NEW k \in Ids, k # nextId, recs'[k].status \in Active,
                 recs'[nextId].status \in Active, ing'[k].doc = ing'[nextId].doc
          PROVE  FALSE
      <3>1. sub.pc = "create"
        BY <2>1, <1>4 DEF CreateQueued, Active
      <3>2. recs[k].status \in Active /\ ing[k].doc = sub.doc
        BY <2>1, <1>1, <1>3, <1>n DEF Ing
      <3>3. OwnerIds(sub.doc) = {}
        BY <3>1 DEF Sole, SubmitsAlone
      <3> QED BY <3>2, <3>3 DEF OwnerIds
    <2>2. CASE i # nextId /\ j # nextId
      BY <2>2, <1>1, <1>3 DEF Sole, OneOwner
    <2> QED BY <2>1, <2>2
  <1> QED BY <1>5, <1>6, <1>7, <1>n DEF Sole, SubmitsAlone

(* What neither loads nor creates keeps a document with its one ingestion.   *)
LEMMA SoleByShrinking ==
    ASSUME Inv, Sole, RecordsShrink, Open' => Open, faults' < 2 => faults < 2,
           sub'.pc = "create" => \/ sub' = sub
                                 \/ OwnerIds(sub'.doc) = {}
    PROVE  Sole'
  <1>1. \A i \in Ids : recs'[i].status \in Active => recs[i].status \in Active
    BY DEF RecordsShrink, AtWorkIn
  <1>2. HiddenTakesTwo'
    BY DEF RecordsShrink, Sole, HiddenTakesTwo
  <1>3. OneOwner'
    BY <1>1 DEF RecordsShrink, Sole, OneOwner
  <1>4. SubmitsAlone'
    <2> SUFFICES ASSUME faults < 2, sub'.pc = "create", NEW i \in Ids,
                        recs'[i].status \in Active, ing[i].doc = sub'.doc
                 PROVE  FALSE
      BY DEF SubmitsAlone, OwnerIds, RecordsShrink
    <2>1. recs[i].status \in Active
      BY <1>1
    <2> QED BY <2>1 DEF Sole, SubmitsAlone, OwnerIds
  <1> QED BY <1>2, <1>3, <1>4 DEF Sole, RecordsShrink

LEMMA OpenByCoordinator ==
    ASSUME Start \/ Crash \/ Stop \/ Exit \/ UNCHANGED vars \/ (InitialiseStep /\ ~Load)
           \/ Failure \/ Retention \/ WorkerStep
    PROVE  (Open' => Open) /\ (sub'.pc = "create" => sub' = sub)
  <1> USE DEF Open, coord, procs
  <1>1. CASE Start \/ Stop \/ UNCHANGED vars
    BY <1>1 DEF Start, Stop, vars
  <1>2. CASE Crash \/ Exit
    BY <1>2 DEF Crash, Exit, Down, NoWork, Work
  <1>3. CASE InitialiseStep /\ ~Load
    <2>1. init # NoInit
      BY <1>3, UnderWay
         DEF InitialiseStep, InitIndex, Finish, ReconcileDelete, RecoverSkip, RecoverLock,
             Candidate, SettleImpossible, SettleEpoch, EpochBehind, SettleRecord, SettleRejected,
             SettlesRecord, Settling
    <2>2. sub' = sub \/ Down
      BY <1>3
         DEF InitialiseStep, InitIndex, Finish, ReconcileDelete, RecoverSkip, RecoverLock,
             SettleImpossible, SettleEpoch, SettleRecord, SettleRejected
    <2> QED BY <2>1, <2>2 DEF Down, NoWork, Work
  <1>4. CASE Failure
    <2>1. CASE LoadFails
      BY <2>1 DEF LoadFails, Degraded
    <2>2. CASE ~LoadFails
      BY <1>4, <2>2 DEF Failure, ReconcileDeleteFails, InitFailed
    <2> QED BY <2>1, <2>2
  <1>5. CASE Retention
    BY <1>5 DEF Retention, Expire, Sweep, SweepFails, SweepTombstone, Degraded
  <1>6. CASE WorkerStep
    <2>1. sub' = sub
      BY <1>6
         DEF WorkerStep, Pick, WorkerExit, Claim, ReadSnapshot, Embed, Abort, Revalidate, Merge,
             PublishEpoch, Complete, Requeue, Fail
    <2>2. UNCHANGED coord \/ WorkerFatal
      BY <1>6
         DEF WorkerStep, Pick, WorkerExit, Claim, ReadSnapshot, Embed, Abort, Revalidate, Merge,
             PublishEpoch, Complete, Requeue, Fail, Leave, BackToLoop
    <2>3. init' = init /\ (ready' => ready)
      BY <2>2 DEF WorkerFatal
    <2> QED BY <2>1, <2>3
  <1> QED BY <1>1, <1>2, <1>3, <1>4, <1>5, <1>6

LEMMA SoleByClient ==
    ASSUME Inv, Quiet, Sole, Client, faults' < 2 => faults < 2
    PROVE  Sole'
  <1>a. Typed
    BY DEF Inv
  <1>1. CASE CreateQueued \/ CreateFails \/ CreateCompletedHit
    BY <1>1, SoleByCreation
  <1>2. ASSUME UNCHANGED <<records, created>>, sub' = sub \/ sub'.pc = "idle",
               UNCHANGED coord \/ Degraded
        PROVE  Sole'
    <2>1. RecordsShrink
      BY <1>a, <1>2, ShrinkFrame DEF records, Sole
    <2>2. Open' => Open
      BY <1>2 DEF coord, Degraded, Open
    <2> QED BY <1>2, <2>1, <2>2, SoleByShrinking
  <1>3. ASSUME NEW d \in Docs,
               \/ FindInconsistent(d) \/ DeleteRefused(d) \/ WriteIntent(d) \/ SearchVector(d)
               \/ \E v \in Versions : SubmitAnswered(d, v)
        PROVE  Sole'
    BY <1>2, <1>3 DEF FindInconsistent, DeleteRefused, WriteIntent, SearchVector, SubmitAnswered,
                      procs, NoWork, Work
  <1>4. CASE DeleteAsk \/ DeleteRows \/ Acknowledge \/ SearchText
    BY <1>2, <1>4 DEF DeleteAsk, DeleteRows, Acknowledge, SearchText
  <1>5. ASSUME \/ SubmitAsk
               \/ \E d \in Docs, v \in Versions : SubmitHit(d, v) \/ SubmitMiss(d, v)
        PROVE  Sole'
    <2>1. UNCHANGED <<records, created, coord>> /\ Open
      BY <1>5 DEF SubmitAsk, SubmitHit, SubmitMiss, Deciding, Serving, Open
    <2>2. RecordsShrink
      BY <1>a, <2>1, ShrinkFrame DEF records, Sole
    <2>3. sub'.pc = "create" => OwnerIds(sub'.doc) = {}
      BY <1>5 DEF SubmitAsk, SubmitHit, SubmitMiss, Miss, Work
    <2> QED BY <2>1, <2>2, <2>3, SoleByShrinking
  <1> QED BY <1>1, <1>3, <1>4, <1>5 DEF Client

LEMMA SoleByCrash ==
    ASSUME Inv, Quiet, Sole, CrashInside
    PROVE  Sole'
  <1>a. Typed /\ Known /\ Remains
    BY DEF Inv, Sole
  <1>t. recs \in [Ids -> RecRecord] /\ dRecs \in [Ids -> RecRecord] /\ dTombs \subseteq Ids
    BY <1>a DEF Typed, RecordsTyped
  <1>1. CASE CreateCut
    BY <1>1, SoleByCreation
  <1>2. ASSUME Down, RecordsShrink, UNCHANGED faults
        PROVE  Sole'
    <2>1. ~Open' /\ sub'.pc = "idle"
      BY <1>2 DEF Down, Open, NoWork, Work
    <2> QED BY <1>2, <2>1, SoleByShrinking
  <1>3. CASE CrashInTransition
    <2>1. PICK i \in Ids, s \in Terminal : /\ dRecs' = [dRecs EXCEPT ![i] = Moved(i, s)]
                                           /\ recs[i].status \in Active
      <3>1. worker.pc \in {"complete", "fail", "failfatal"} => worker.id \in Ids
        BY <1>a DEF Typed, WorkerTyped
      <3>2. SettlesRecord => init.held.id \in Ids
        BY <1>a DEF SettlesRecord, Typed, CoordTyped
      <3>3. /\ Holds => recs[worker.id].status \in Active
            /\ Unmoved => recs[init.held.id].status \in Active
        BY DEF Holds, Unmoved, Rec, Active
      <3>4. {"completed", "failed"} \subseteq Terminal
        BY DEF Terminal
      <3> QED BY <1>3, <3>1, <3>2, <3>3, <3>4 DEF CrashInTransition, EndWritten
    <2>2. /\ \A j \in Ids : j # i => dRecs'[j] = dRecs[j]
          /\ dRecs'[i].status \notin Active
      BY <2>1, <1>t DEF Moved, Rec, Active, Terminal
    <2>3. UNCHANGED <<recs, dTombs, ing, nextId, faults>> /\ Down
      BY <1>3 DEF CrashInTransition, created
    <2>4. RecordsShrink
      BY <2>2, <2>3, <1>a, <1>t DEF RecordsShrink, Remains, AtWorkIn, Hidden
    <2> QED BY <2>3, <2>4, <1>2
  <1>4. CASE CrashInLoad
    BY <1>2, <1>4, <1>a, ShrinkByHalfLoad DEF CrashInLoad
  <1>5. ASSUME NEW i \in Ids, CrashInSweep(i)
        PROVE  Sole'
    <2>1. /\ recs[i].status \in Terminal /\ dTombs' = dTombs \cup {i}
          /\ UNCHANGED <<recs, dRecs, ing, nextId, faults>> /\ Down
      BY <1>5 DEF CrashInSweep, Swept, created
    <2>2. i < nextId /\ dRecs[i].status \notin Active /\ recs[i].status \notin Active
      BY <2>1, <1>a DEF Known, Remains, Active, Terminal
    <2>3. RecordsShrink
      BY <2>1, <2>2, <1>a, <1>t DEF RecordsShrink, Remains, AtWorkIn, Hidden
    <2> QED BY <2>1, <2>3, <1>2
  <1>6. ASSUME NEW d \in Docs, CrashInReconcile(d)
        PROVE  Sole'
    <2>1. RecordsShrink
      BY <1>6, <1>a, ShrinkFrame DEF CrashInReconcile, records
    <2> QED BY <1>6, <2>1, <1>2 DEF CrashInReconcile
  <1> QED BY <1>1, <1>3, <1>4, <1>5, <1>6 DEF CrashInside

LEMMA SoleStep == Inv /\ Quiet /\ Sole /\ [Next]_vars => Sole'
  <1> SUFFICES ASSUME Inv, Quiet, Sole, [Next]_vars
               PROVE  Sole'
    OBVIOUS
  <1>a. Typed /\ Remains
    BY DEF Inv, Sole
  <1>f. faults' < 2 => faults < 2
    BY <1>a, FaultsGrow DEF Typed, CountersTyped, Fault
  <1>1. CASE Load
    BY <1>1, SoleByLoad
  <1>2. CASE Client
    BY <1>2, <1>f, SoleByClient
  <1>c. CASE CrashInside
    BY <1>c, SoleByCrash
  <1>3. CASE \/ Start \/ Crash \/ Stop \/ Exit \/ UNCHANGED vars \/ (InitialiseStep /\ ~Load)
             \/ Failure \/ Retention \/ WorkerStep
    <2>1. CASE Start \/ Crash \/ Stop \/ Exit \/ UNCHANGED vars
      <3>1. UNCHANGED <<recs, dRecs, dTombs, created>>
        BY <2>1 DEF Start, Crash, Stop, Exit, vars, records
      <3>2. RecordsShrink
        BY <1>a, <3>1, ShrinkFrame
      <3> QED BY <2>1, <3>2, <1>f, OpenByCoordinator, SoleByShrinking
    <2>2. CASE (InitialiseStep /\ ~Load) \/ Failure \/ Retention \/ WorkerStep
      <3>1. RecordsShrink
        <4>1. Failure => ~Load
          BY <1>a, UnderWay DEF Failure, Load, InitDue, LoadFails, ReconcileDeleteFails, Fault,
                                Typed, CountersTyped
        <4> QED
          BY <2>2, <4>1, <1>a, ShrinkByInitialisation, ShrinkByRetention, ShrinkByWorker
      <3> QED BY <2>2, <3>1, <1>f, OpenByCoordinator, SoleByShrinking
    <2> QED BY <1>3, <2>1, <2>2
  <1> QED BY <1>1, <1>2, <1>c, <1>3 DEF Next

(* VER-04: a document never has two ingestions at work.  A failed write that *)
(* leaves a record only the files know degrades the coordinator, and what    *)
(* initialises again loads at most one ingestion of each document; to load   *)
(* it beside a submission takes a second failure.                            *)
THEOREM OneOwnerHolds == Spec => []OneOwner
  <1>1. Init => Sole
    BY DEF Init, Sole, Remains, HiddenTakesTwo, SubmitsAlone, OneOwner, Hidden, AtWorkIn, Gone,
           Rec, Active, Terminal, NoWork, Work
  <1>2. Sole => OneOwner
    BY DEF Sole
  <1> QED
    BY <1>1, <1>2, SoleStep, IndexInvariant, QuietInvariant, PTL DEF Spec
=============================================================================
