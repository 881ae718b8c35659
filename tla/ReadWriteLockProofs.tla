------------------------ MODULE ReadWriteLockProofs ------------------------
(***************************************************************************)
(* The lock is safe for any number of callers.  Exclusion and               *)
(* NoForgottenWaiter are inductive together: that a drain which returns at  *)
(* once forgets nobody rests on a lease being out, and that an acquisition  *)
(* which does not look at a queue passes nobody rests on the queue being    *)
(* empty whenever no lease is.                                              *)
(***************************************************************************)
EXTENDS ReadWriteLock, SequenceTheorems, TLAPS

LockInv == TypeOK /\ Exclusion /\ NoForgottenWaiter

(* What is left of a queue when a waiter is taken out of it (splice).       *)
LEMMA RemoveAtIsSeq ==
    ASSUME NEW S, NEW q \in Seq(S), NEW i \in DOMAIN q
    PROVE  RemoveAt(q, i) \in Seq(S)
  <1>1. i \in 1..Len(q)
    OBVIOUS
  <1>2. SubSeq(q, 1, i - 1) \in Seq(S) /\ SubSeq(q, i + 1, Len(q)) \in Seq(S)
    BY <1>1
  <1> QED
    BY <1>2 DEF RemoveAt

LEMMA RangeIsSubset ==
    ASSUME NEW S, NEW q \in Seq(S)
    PROVE  Range(q) \subseteq S
  BY DEF Range

(* #drain keeps the lock safe, whatever lease or waiter was just taken      *)
(* away: when it returns at once a lease is out or the lock is stopped, and *)
(* a stopped lock has no waiter.                                            *)
LEMMA DrainSafe ==
    ASSUME NEW rs \in SUBSET Readers, NEW w \in Writers \cup {NoCaller},
           NEW rq \in Seq(Readers), NEW wq \in Seq(Writers),
           stopped \in BOOLEAN, stopped' = stopped,
           w # NoCaller => rs = {},
           stopped => rq = <<>> /\ wq = <<>>,
           Drain(rs, w, rq, wq)
    PROVE  LockInv'
  <1> USE DEF LockInv, TypeOK, Exclusion, NoForgottenWaiter, Becomes
  <1>1. CASE (stopped \/ w # NoCaller \/ rs # {}) /\ Becomes(rs, w, rq, wq)
    BY <1>1
  <1>2. CASE ~stopped /\ wq # <<>> /\ Becomes({}, Head(wq), rq, Tail(wq))
    <2>1. Head(wq) \in Writers /\ Tail(wq) \in Seq(Writers)
      BY <1>2
    <2>2. NoCaller \notin Writers
      BY CallersAssumption
    <2> QED
      BY <1>2, <2>1, <2>2
  <1>3. CASE ~stopped /\ wq = <<>> /\ Becomes(Range(rq), NoCaller, <<>>, <<>>)
    BY <1>3, RangeIsSubset
  <1> QED
    BY <1>1, <1>2, <1>3 DEF Drain

LEMMA NextSafe == LockInv /\ [Next]_vars => LockInv'
  <1> SUFFICES ASSUME LockInv, [Next]_vars PROVE LockInv'
    OBVIOUS
  <1> USE DEF LockInv, TypeOK, Exclusion, NoForgottenWaiter
  <1>1. ASSUME NEW c \in Readers, AcquireRead(c) PROVE LockInv'
    <2>1. Append(readQueue, c) \in Seq(Readers)
      OBVIOUS
    <2> QED
      BY <1>1, <2>1 DEF AcquireRead, CanRead, Becomes
  <1>2. ASSUME NEW c \in Writers, AcquireWrite(c) PROVE LockInv'
    <2>1. Append(writeQueue, c) \in Seq(Writers)
      OBVIOUS
    <2>2. c # NoCaller
      BY CallersAssumption
    <2> QED
      BY <1>2, <2>1, <2>2 DEF AcquireWrite, CanWrite, Becomes
  <1>3. ASSUME NEW c \in Readers, ReleaseRead(c) PROVE LockInv'
    BY <1>3, DrainSafe DEF ReleaseRead
  <1>4. ASSUME NEW c \in Writers, ReleaseWrite(c) PROVE LockInv'
    BY <1>4, DrainSafe DEF ReleaseWrite
  <1>5. CASE AbortRead
    <2>1. PICK i \in DOMAIN readQueue :
            Drain(readers, writer, RemoveAt(readQueue, i), writeQueue)
      BY <1>5 DEF AbortRead
    <2>2. RemoveAt(readQueue, i) \in Seq(Readers)
      BY RemoveAtIsSeq
    <2>3. ~stopped /\ stopped' = stopped
      BY <1>5 DEF AbortRead
    <2> QED
      BY <2>1, <2>2, <2>3, DrainSafe
  <1>6. CASE AbortWrite
    <2>1. PICK i \in DOMAIN writeQueue :
            Drain(readers, writer, readQueue, RemoveAt(writeQueue, i))
      BY <1>6 DEF AbortWrite
    <2>2. RemoveAt(writeQueue, i) \in Seq(Writers)
      BY RemoveAtIsSeq
    <2>3. ~stopped /\ stopped' = stopped
      BY <1>6 DEF AbortWrite
    <2> QED
      BY <2>1, <2>2, <2>3, DrainSafe
  <1>7. CASE Stop
    BY <1>7 DEF Stop, Becomes
  <1>8. CASE UNCHANGED vars
    BY <1>8 DEF vars
  <1> QED
    BY <1>1, <1>2, <1>3, <1>4, <1>5, <1>6, <1>7, <1>8 DEF Next

(* A writer is alone, and no waiter is forgotten, in every reachable state  *)
(* and for any callers.                                                     *)
THEOREM LockSafe == Spec => [](TypeOK /\ Exclusion /\ NoForgottenWaiter)
  <1>1. Init => LockInv
    BY EmptySeq DEF Init, LockInv, TypeOK, Exclusion, NoForgottenWaiter
  <1>2. LockInv /\ [Next]_vars => LockInv'
    BY NextSafe
  <1> QED
    BY <1>1, <1>2, PTL DEF Spec, LockInv

(* No caller waits for a lock that nobody holds, nor after the stop, for any *)
(* callers: releases, aborts and the stop forget nobody in the two queues.   *)
THEOREM NobodyIsForgotten == Spec => []NoForgottenWaiter
  BY LockSafe, PTL

(* No step lets a reader in while a writer waits, or a writer pass another. *)
LEMMA StepPrefersWriters ==
    ASSUME LockInv, [Next]_vars
    PROVE  /\ ~(readers' \subseteq readers) => writeQueue' = <<>>
           /\ writer' \notin {writer, NoCaller} =>
                writeQueue = <<>> \/ writer' = Head(writeQueue)
  <1> USE DEF LockInv, TypeOK, Exclusion, NoForgottenWaiter
  <1>1. ASSUME NEW c \in Readers, AcquireRead(c)
        PROVE  /\ ~(readers' \subseteq readers) => writeQueue' = <<>>
               /\ writer' = writer
    BY <1>1 DEF AcquireRead, CanRead, Becomes
  <1>2. ASSUME NEW c \in Writers, AcquireWrite(c)
        PROVE  /\ readers' = readers
               /\ writer' # writer => writeQueue = <<>>
    BY <1>2 DEF AcquireWrite, CanWrite, Becomes
  <1>3. ASSUME NEW rs \in SUBSET readers, NEW w \in {writer, NoCaller}, NEW rq,
               Drain(rs, w, rq, writeQueue)
        PROVE  /\ ~(readers' \subseteq readers) => writeQueue' = <<>>
               /\ writer' \notin {writer, NoCaller} => writer' = Head(writeQueue)
    BY <1>3 DEF Drain, Becomes
  <1>4. ASSUME NEW c \in Readers, ReleaseRead(c)
        PROVE  /\ ~(readers' \subseteq readers) => writeQueue' = <<>>
               /\ writer' \notin {writer, NoCaller} => writer' = Head(writeQueue)
    BY <1>3, <1>4 DEF ReleaseRead
  <1>5. ASSUME NEW c \in Writers, ReleaseWrite(c)
        PROVE  /\ ~(readers' \subseteq readers) => writeQueue' = <<>>
               /\ writer' \notin {writer, NoCaller} => writer' = Head(writeQueue)
    BY <1>3, <1>5 DEF ReleaseWrite
  <1>6. ASSUME AbortRead \/ AbortWrite
        PROVE  readers' = readers /\ writer' = writer
    BY <1>6 DEF AbortRead, AbortWrite, Drain, Becomes
  <1>7. ASSUME Stop
        PROVE  readers' = readers /\ writer' = writer
    BY <1>7 DEF Stop, Becomes
  <1>8. ASSUME UNCHANGED vars
        PROVE  readers' = readers /\ writer' = writer
    BY <1>8 DEF vars
  <1> QED
    BY <1>1, <1>2, <1>4, <1>5, <1>6, <1>7, <1>8 DEF Next

(* Writers are preferred and served in order, for any callers.              *)
THEOREM WritersFirst == Spec => WriterPreferred
  <1>1. LockInv /\ [Next]_vars =>
          [/\ ~(readers' \subseteq readers) => writeQueue' = <<>>
           /\ writer' \notin {writer, NoCaller} =>
                writeQueue = <<>> \/ writer' = Head(writeQueue)]_vars
    BY StepPrefersWriters
  <1>2. Spec => []LockInv
    BY LockSafe DEF LockInv
  <1> QED
    BY <1>1, <1>2, PTL DEF Spec, WriterPreferred
=============================================================================
