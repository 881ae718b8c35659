---------------------------- MODULE ReadWriteLock ----------------------------
(***************************************************************************)
(* AsyncReadWriteLock: searches and submissions read, publications,         *)
(* deletions and maintenance write.  A method runs to its end before any    *)
(* other, #drain included, so each is one action; what interleaves is the   *)
(* order of calls, releases, aborts and the stop.  A caller asks for one    *)
(* lease at a time; a lease released again is none of its caller's (the     *)
(* flag "released" makes the second call empty).                            *)
(***************************************************************************)
EXTENDS Naturals, Sequences, Functions, SequencesExt

CONSTANTS Readers, Writers, NoCaller

ASSUME CallersAssumption ==
    Readers \cap Writers = {} /\ NoCaller \notin Readers \cup Writers

VARIABLES
    readers,    \* the callers holding read leases (#activeReaders of them)
    writer,     \* the caller holding the write lease (#writeLocked)
    readQueue,  \* #readWaiters
    writeQueue, \* #writeWaiters
    stopped     \* #stopped

vars == <<readers, writer, readQueue, writeQueue, stopped>>

Waiting(c) == c \in Range(readQueue) \cup Range(writeQueue)
Idle(c)    == c \notin readers /\ c # writer /\ ~Waiting(c)

(* Every variable has the type the code gives it.                           *)
TypeOK ==
    /\ readers \subseteq Readers /\ writer \in Writers \cup {NoCaller}
    /\ readQueue \in Seq(Readers) /\ writeQueue \in Seq(Writers)
    /\ stopped \in BOOLEAN

Init ==
    /\ readers = {} /\ writer = NoCaller
    /\ readQueue = <<>> /\ writeQueue = <<>> /\ stopped = FALSE

----------------------------------------------------------------------------
(* #drain, on what its caller left: nothing while a lease is out; else the  *)
(* first writer, or all the readers.                                        *)
Becomes(rs, w, rq, wq) ==
    readers' = rs /\ writer' = w /\ readQueue' = rq /\ writeQueue' = wq

Drain(rs, w, rq, wq) ==
    \/ /\ stopped \/ w # NoCaller \/ rs # {}
       /\ Becomes(rs, w, rq, wq)
    \/ /\ ~stopped /\ w = NoCaller /\ rs = {}
       /\ \/ wq # <<>> /\ Becomes({}, Head(wq), rq, Tail(wq))
          \/ wq = <<>> /\ Becomes(Range(rq), NoCaller, <<>>, <<>>)

\* seeded fault: a reader does not look at the writers that wait
CanReadAnyway == writer = NoCaller
CanRead  == writer = NoCaller /\ writeQueue = <<>>

\* seeded fault: a writer does not look at the readers
CanWriteAnyway == writer = NoCaller
CanWrite == writer = NoCaller /\ readers = {}

(* A caller whose signal is aborted, or that comes after the stop, is       *)
(* rejected, which changes nothing.                                         *)
AcquireRead(c) ==
    /\ ~stopped /\ Idle(c)
    /\ \/ CanRead /\ Becomes(readers \cup {c}, writer, readQueue, writeQueue)
       \/ ~CanRead /\ Becomes(readers, writer, Append(readQueue, c), writeQueue)
    /\ UNCHANGED stopped

AcquireWrite(c) ==
    /\ ~stopped /\ Idle(c)
    /\ \/ CanWrite /\ Becomes(readers, c, readQueue, writeQueue)
       \/ ~CanWrite /\ Becomes(readers, writer, readQueue, Append(writeQueue, c))
    /\ UNCHANGED stopped

ReleaseRead(c) ==
    /\ c \in readers
    /\ Drain(readers \ {c}, writer, readQueue, writeQueue)
    /\ UNCHANGED stopped

\* seeded fault: the writer leaves without letting anybody in
ReleaseWriteOnly(c) ==
    /\ c = writer
    /\ Becomes(readers, NoCaller, readQueue, writeQueue)
    /\ UNCHANGED stopped

ReleaseWrite(c) ==
    /\ c = writer
    /\ Drain(readers, NoCaller, readQueue, writeQueue)
    /\ UNCHANGED stopped

(* The signal of a waiting caller fires.                                    *)
AbortRead ==
    /\ \E i \in DOMAIN readQueue :
         Drain(readers, writer, RemoveAt(readQueue, i), writeQueue)
    /\ UNCHANGED stopped

AbortWrite ==
    /\ \E i \in DOMAIN writeQueue :
         Drain(readers, writer, readQueue, RemoveAt(writeQueue, i))
    /\ UNCHANGED stopped

(* Every waiter is rejected; the leases that are out stay valid.            *)
Stop ==
    /\ ~stopped /\ stopped' = TRUE
    /\ Becomes(readers, writer, <<>>, <<>>)

----------------------------------------------------------------------------
Next ==
    \/ \E c \in Readers : AcquireRead(c) \/ ReleaseRead(c)
    \/ \E c \in Writers : AcquireWrite(c) \/ ReleaseWrite(c)
    \/ AbortRead \/ AbortWrite \/ Stop

Spec == Init /\ [][Next]_vars

(* withRead and withWrite release in a finally block.                       *)
FairSpec ==
    /\ Spec
    /\ \A c \in Readers : WF_vars(ReleaseRead(c))
    /\ \A c \in Writers : WF_vars(ReleaseWrite(c))

----------------------------------------------------------------------------
(* A writer is alone, whatever aborts and releases cross (VER-06).          *)
Exclusion == writer # NoCaller => readers = {}

(* Nobody waits for a lock that nobody holds, nor after the stop: no abort, *)
(* release or stop forgets a waiter.                                        *)
NoForgottenWaiter ==
    readQueue # <<>> \/ writeQueue # <<>> =>
        ~stopped /\ (readers # {} \/ writer # NoCaller)

(* No reader gets in while a writer waits, and no writer passes a waiting   *)
(* one although acquireWrite does not look at the queue.                    *)
WriterPreferred ==
    [][/\ ~(readers' \subseteq readers) => writeQueue' = <<>>
       /\ writer' \notin {writer, NoCaller} =>
            writeQueue = <<>> \/ writer' = Head(writeQueue)]_vars

(* A waiting writer is admitted, aborted or stopped, however many readers   *)
(* keep coming: "new readers cannot starve a queued writer".                *)
WriterAdmitted ==
    \A c \in Writers : c \in Range(writeQueue) ~> c \notin Range(writeQueue)
=============================================================================
