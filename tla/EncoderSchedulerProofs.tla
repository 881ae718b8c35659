----------------------- MODULE EncoderSchedulerProofs -----------------------
(***************************************************************************)
(* The encoder serves one task at a time, forgets nobody and lets at most   *)
(* four searches past a batch for each place in the queue, for any callers. *)
(* The bound is inductive in the form Paced: what a batch was passed by,    *)
(* what may still pass it in its place, and what the counter has already    *)
(* spent, never exceed what it was promised.                                *)
(***************************************************************************)
EXTENDS EncoderScheduler, SequenceTheorems, TLAPS

Paced(iq, p, pl, c) ==
    \A i \in 1..Len(iq) : p[iq[i]] + MaxSearches * i <= MaxSearches * pl[iq[i]] + c

SchedulerInv ==
    /\ TypeOK /\ OneCallback /\ NoForgottenTask
    /\ Paced(ingestionWaiters, passed, place, consecutive)

(* A waiter taken out of a queue (splice) leaves each other waiter at its   *)
(* place or one before it.                                                  *)
LEMMA RemoveAtIsSeq ==
    ASSUME NEW S, NEW q \in Seq(S), NEW i \in DOMAIN q
    PROVE  /\ RemoveAt(q, i) \in Seq(S)
           /\ Len(RemoveAt(q, i)) = Len(q) - 1
           /\ \A j \in 1..Len(RemoveAt(q, i)) :
                RemoveAt(q, i)[j] = IF j < i THEN q[j] ELSE q[j + 1]
  <1>1. i \in 1..Len(q) /\ Len(q) \in Nat
    OBVIOUS
  <1> DEFINE front == SubSeq(q, 1, i - 1)
             back  == SubSeq(q, i + 1, Len(q))
  <1>2. \A k \in 1..Len(q) : q[k] \in S
    BY ElementOfSeq
  <1>3. /\ front \in Seq(S) /\ Len(front) = i - 1
        /\ \A k \in 1..(i - 1) : front[k] = q[k]
    <2>1. \A k \in 1..(i - 1) : q[k] \in S
      BY <1>1, <1>2
    <2> QED
      BY <1>1, <2>1, SubSeqProperties
  <1>4. /\ back \in Seq(S) /\ Len(back) = Len(q) - i
        /\ \A k \in 1..(Len(q) - i) : back[k] = q[i + k]
    <2>1. \A k \in (i + 1)..Len(q) : q[k] \in S
      BY <1>1, <1>2
    <2> QED
      BY <1>1, <2>1, SubSeqProperties
  <1>5. RemoveAt(q, i) = front \o back
    BY DEF RemoveAt
  <1> HIDE DEF front, back
  <1>6. RemoveAt(q, i) \in Seq(S) /\ Len(RemoveAt(q, i)) = Len(q) - 1
    BY <1>1, <1>3, <1>4, <1>5, ConcatProperties
  <1>7. ASSUME NEW j \in 1..(Len(q) - 1)
        PROVE  RemoveAt(q, i)[j] = IF j < i THEN q[j] ELSE q[j + 1]
    <2>1. j \in 1..(Len(front) + Len(back))
      BY <1>1, <1>3, <1>4
    <2>2. (front \o back)[j] = IF j <= Len(front) THEN front[j] ELSE back[j - Len(front)]
      BY <1>3, <1>4, <2>1, ConcatProperties
    <2>3. CASE j < i
      BY <1>1, <1>3, <1>5, <2>2, <2>3
    <2>4. CASE ~(j < i)
      <3>1. j - Len(front) \in 1..(Len(q) - i) /\ i + (j - Len(front)) = j + 1
        BY <1>1, <1>3, <2>4
      <3>2. back[j - Len(front)] = q[j + 1]
        BY <1>4, <3>1
      <3> QED
        BY <1>1, <1>3, <1>5, <2>2, <2>4, <3>2
    <2> QED
      BY <2>3, <2>4
  <1> QED
    BY <1>6, <1>7

LEMMA RemovalKeepsPace ==
    ASSUME NEW iq \in Seq(Batches), NEW i \in DOMAIN iq, NEW c \in Nat,
           NEW p \in [Batches -> Nat], NEW pl \in [Batches -> Nat], Paced(iq, p, pl, c)
    PROVE  Paced(RemoveAt(iq, i), p, pl, c)
  <1> DEFINE r == RemoveAt(iq, i)
  <1>1. r \in Seq(Batches) /\ Len(r) = Len(iq) - 1 /\ Len(iq) \in Nat
    BY RemoveAtIsSeq
  <1>2. SUFFICES ASSUME NEW j \in 1..Len(r)
                 PROVE  p[r[j]] + MaxSearches * j <= MaxSearches * pl[r[j]] + c
    BY DEF Paced
  <1>3. r[j] = IF j < i THEN iq[j] ELSE iq[j + 1]
    BY RemoveAtIsSeq
  <1>4. PICK k \in {j, j + 1} : k \in 1..Len(iq) /\ r[j] = iq[k]
    BY <1>1, <1>2, <1>3
  <1>5. p[iq[k]] + MaxSearches * k <= MaxSearches * pl[iq[k]] + c
    BY <1>4 DEF Paced
  <1>6. iq[k] \in Batches
    BY <1>4
  <1>7. p[iq[k]] \in Nat /\ pl[iq[k]] \in Nat
    BY <1>6
  <1> QED
    BY <1>2, <1>4, <1>5, <1>7 DEF MaxSearches

LEMMA OneMore ==
    ASSUME NEW x \in Nat, NEW y \in Nat, NEW i \in Nat, NEW c \in Nat,
           x + MaxSearches * i <= MaxSearches * y + c
    PROVE  (x + 1) + MaxSearches * i <= MaxSearches * y + (c + 1)
  BY DEF MaxSearches

LEMMA SearchKeepsPace ==
    ASSUME NEW iq \in Seq(Batches), NEW c \in Nat,
           NEW p \in [Batches -> Nat], NEW pl \in [Batches -> Nat], Paced(iq, p, pl, c)
    PROVE  /\ Passing(iq, p) \in [Batches -> Nat]
           /\ Paced(iq, Passing(iq, p), pl, c + 1)
  <1>1. ASSUME NEW j \in 1..Len(iq)
        PROVE  Passing(iq, p)[iq[j]] + MaxSearches * j <= MaxSearches * pl[iq[j]] + (c + 1)
    <2>1. iq[j] \in Batches /\ iq[j] \in Range(iq)
      BY DEF Range
    <2>2. Passing(iq, p)[iq[j]] = p[iq[j]] + 1
      BY <2>1 DEF Passing
    <2>3. p[iq[j]] + MaxSearches * j <= MaxSearches * pl[iq[j]] + c
      BY DEF Paced
    <2>4. p[iq[j]] \in Nat /\ pl[iq[j]] \in Nat /\ j \in Nat
      BY <2>1
    <2> QED
      BY ONLY c \in Nat, <2>2, <2>3, <2>4, OneMore
  <1> QED
    BY <1>1 DEF Paced, Passing

LEMMA BatchKeepsPace ==
    ASSUME NEW iq \in Seq(Batches), iq # <<>>, NEW c \in 0..MaxSearches,
           NEW p \in [Batches -> Nat], NEW pl \in [Batches -> Nat], Paced(iq, p, pl, c)
    PROVE  Paced(Tail(iq), p, pl, 0)
  <1>1. SUFFICES ASSUME NEW j \in 1..Len(Tail(iq))
                 PROVE  p[Tail(iq)[j]] + MaxSearches * j <= MaxSearches * pl[Tail(iq)[j]] + 0
    BY DEF Paced
  <1>2. Tail(iq)[j] = iq[j + 1] /\ j + 1 \in 1..Len(iq) /\ j \in Nat
    OBVIOUS
  <1>3. p[iq[j + 1]] + MaxSearches * (j + 1) <= MaxSearches * pl[iq[j + 1]] + c
    BY <1>2 DEF Paced
  <1>4. iq[j + 1] \in Batches
    BY <1>2
  <1>5. p[iq[j + 1]] \in Nat /\ pl[iq[j + 1]] \in Nat
    BY <1>4
  <1> QED
    BY <1>2, <1>3, <1>5 DEF MaxSearches

(* #drain keeps the invariant, whoever calls it.                            *)
LEMMA DrainSafe ==
    ASSUME NEW sq \in Seq(Searches), NEW iq \in Seq(Batches), NEW isActive \in BOOLEAN,
           NEW p \in [Batches -> Nat], TypeOK, OneCallback,
           place' \in [Batches -> Nat], Paced(iq, p, place', consecutive),
           running # {} => isActive,
           stopped' = stopped, stopped => sq = <<>> /\ iq = <<>>,
           Drain(isActive, sq, iq, p)
    PROVE  SchedulerInv'
  <1> USE DEF TypeOK, OneCallback, NoForgottenTask, SchedulerInv, Start
  <1>1. CASE /\ Busy(isActive) \/ (sq = <<>> /\ iq = <<>>)
             /\ searchWaiters' = sq /\ ingestionWaiters' = iq
             /\ active' = isActive /\ passed' = p /\ UNCHANGED <<running, consecutive>>
    BY <1>1 DEF Busy
  <1>2. CASE ~Busy(isActive) /\ StartSearch(sq, iq, p)
    <2>1. running = {} /\ ~stopped
      BY <1>2 DEF Busy
    <2>2. sq # <<>> /\ Head(sq) \in Searches /\ Tail(sq) \in Seq(Searches)
      BY <1>2 DEF StartSearch, SearchFirst
    <2>3. Passing(iq, p) \in [Batches -> Nat] /\ Paced(iq, Passing(iq, p), place', consecutive + 1)
      <3>1. consecutive \in Nat
        BY DEF MaxSearches
      <3>2. \A pl \in [Batches -> Nat] : Paced(iq, p, pl, consecutive) =>
              /\ Passing(iq, p) \in [Batches -> Nat]
              /\ Paced(iq, Passing(iq, p), pl, consecutive + 1)
        BY <3>1, SearchKeepsPace
      <3> QED
        BY <3>2
    <2>4. consecutive' \in 0..MaxSearches
      BY <1>2 DEF StartSearch, SearchFirst, MaxSearches
    <2>5. Paced(iq, passed', place', consecutive')
      <3>1. CASE iq # <<>>
        BY <1>2, <2>3, <3>1 DEF StartSearch
      <3>2. CASE iq = <<>>
        BY <3>2 DEF Paced
      <3> QED
        BY <3>1, <3>2
    <2>6. running' = {Head(sq)} /\ active' = TRUE
      BY <1>2, <2>1 DEF StartSearch
    <2> QED
      BY <1>2, <2>1, <2>2, <2>3, <2>4, <2>5, <2>6 DEF StartSearch, Tasks
  <1>3. CASE ~Busy(isActive) /\ StartBatch(sq, iq, p)
    <2>1. running = {} /\ ~stopped
      BY <1>3 DEF Busy
    <2>2. iq # <<>> /\ Head(iq) \in Batches /\ Tail(iq) \in Seq(Batches)
      BY <1>3 DEF StartBatch
    <2>3. Paced(Tail(iq), p, place', 0)
      BY <2>2, BatchKeepsPace
    <2>4. running' = {Head(iq)} /\ active' = TRUE
      BY <1>3, <2>1 DEF StartBatch
    <2> QED
      BY <1>3, <2>1, <2>2, <2>3, <2>4 DEF StartBatch, Tasks, MaxSearches
  <1> QED
    BY <1>1, <1>2, <1>3 DEF Drain

LEMMA NextSafe == SchedulerInv /\ [Next]_vars => SchedulerInv'
  <1> SUFFICES ASSUME SchedulerInv, [Next]_vars PROVE SchedulerInv'
    OBVIOUS
  <1> USE DEF SchedulerInv, TypeOK, OneCallback, NoForgottenTask
  <1>1. ASSUME NEW s \in Searches, RunSearch(s) PROVE SchedulerInv'
    <2>1. Append(searchWaiters, s) \in Seq(Searches)
      OBVIOUS
    <2>2. /\ ~stopped /\ stopped' = stopped /\ place' = place
          /\ Drain(active, Append(searchWaiters, s), ingestionWaiters, passed)
      BY <1>1 DEF RunSearch
    <2> QED
      BY <2>1, <2>2, DrainSafe
  <1>2. ASSUME NEW b \in Batches, RunIngestionBatch(b) PROVE SchedulerInv'
    <2> DEFINE iq == Append(ingestionWaiters, b)
               p  == [passed EXCEPT ![b] = 0]
    <2>1. /\ iq \in Seq(Batches) /\ p \in [Batches -> Nat] /\ place' \in [Batches -> Nat]
          /\ Len(iq) = Len(ingestionWaiters) + 1 /\ Len(ingestionWaiters) \in Nat
      BY <1>2 DEF RunIngestionBatch
    <2>2. ASSUME NEW j \in 1..Len(iq)
          PROVE  p[iq[j]] + MaxSearches * j <= MaxSearches * place'[iq[j]] + consecutive
      <3>1. CASE j = Len(iq)
        <4>1. iq[j] = b /\ p[b] = 0 /\ place'[b] = j
          BY <1>2, <2>1, <3>1 DEF RunIngestionBatch
        <4>2. MaxSearches * j <= MaxSearches * j + consecutive
          BY <2>1 DEF MaxSearches
        <4> QED
          BY <2>1, <4>1, <4>2 DEF MaxSearches
      <3>2. CASE j # Len(iq)
        <4>1. j \in 1..Len(ingestionWaiters) /\ iq[j] = ingestionWaiters[j]
          BY <2>1, <3>2
        <4>2. ingestionWaiters[j] # b
          BY <1>2, <4>1 DEF RunIngestionBatch, Idle, Range
        <4>3. p[iq[j]] = passed[iq[j]] /\ place'[iq[j]] = place[iq[j]]
          BY <1>2, <4>1, <4>2 DEF RunIngestionBatch
        <4> QED
          BY <4>1, <4>3 DEF Paced
      <3> QED
        BY <3>1, <3>2
    <2>3. Paced(iq, p, place', consecutive)
      BY <2>2 DEF Paced
    <2>4. ~stopped /\ stopped' = stopped /\ Drain(active, searchWaiters, iq, p)
      BY <1>2 DEF RunIngestionBatch
    <2> HIDE DEF iq, p
    <2> QED
      BY <2>1, <2>3, <2>4, DrainSafe
  <1>3. ASSUME NEW t \in Tasks, Settle(t) PROVE SchedulerInv'
    BY <1>3 DEF Settle
  <1>4. CASE Free
    <2>1. running = {} /\ stopped' = stopped /\ place' = place
      BY <1>4 DEF Free
    <2>2. Drain(FALSE, searchWaiters, ingestionWaiters, passed)
      BY <1>4 DEF Free
    <2> QED
      BY <2>1, <2>2, DrainSafe
  <1>5. CASE Abort
    <2>1. CASE /\ \E i \in DOMAIN searchWaiters : searchWaiters' = RemoveAt(searchWaiters, i)
               /\ UNCHANGED ingestionWaiters
      <3>1. searchWaiters' \in Seq(Searches) /\ searchWaiters # <<>>
        BY <2>1, RemoveAtIsSeq
      <3> QED
        BY <1>5, <2>1, <3>1 DEF Abort
    <2>2. CASE /\ \E i \in DOMAIN ingestionWaiters :
                     ingestionWaiters' = RemoveAt(ingestionWaiters, i)
               /\ UNCHANGED searchWaiters
      <3>1. ingestionWaiters' \in Seq(Batches) /\ ingestionWaiters # <<>>
        BY <2>2, RemoveAtIsSeq
      <3>2. Paced(ingestionWaiters', passed, place, consecutive)
        BY <2>2, RemovalKeepsPace DEF MaxSearches
      <3> QED
        BY <1>5, <2>2, <3>1, <3>2 DEF Abort
    <2> QED
      BY <1>5, <2>1, <2>2 DEF Abort
  <1>6. CASE Stop
    BY <1>6, EmptySeq DEF Stop, Paced
  <1>7. CASE UNCHANGED vars
    BY <1>7 DEF vars
  <1> QED
    BY <1>1, <1>2, <1>3, <1>4, <1>5, <1>6, <1>7 DEF Next

LEMMA PacedIsBounded == SchedulerInv => BatchPassedAtMost
  <1> SUFFICES ASSUME SchedulerInv, NEW b \in Range(ingestionWaiters)
               PROVE  passed[b] <= MaxSearches * place[b]
    BY DEF BatchPassedAtMost
  <1> USE DEF SchedulerInv, TypeOK
  <1>1. PICK i \in 1..Len(ingestionWaiters) : b = ingestionWaiters[i]
    BY DEF Range
  <1>2. passed[b] + MaxSearches * i <= MaxSearches * place[b] + consecutive
    BY <1>1 DEF Paced
  <1>3. b \in Batches
    BY <1>1
  <1>4. passed[b] \in Nat /\ place[b] \in Nat /\ i \in Nat /\ i >= 1
    BY <1>1, <1>3
  <1> QED
    BY <1>2, <1>4 DEF MaxSearches

(* One callback at a time, nobody forgotten, and no batch passed by more    *)
(* than four searches for each place it had, for any callers.               *)
THEOREM SchedulerSafe ==
    Spec => [](TypeOK /\ OneCallback /\ NoForgottenTask /\ BatchPassedAtMost)
  <1>1. Init => SchedulerInv
    <2> SUFFICES ASSUME Init PROVE SchedulerInv
      OBVIOUS
    <2>1. TypeOK
      <3>1. searchWaiters \in Seq(Searches) /\ ingestionWaiters \in Seq(Batches)
        BY EmptySeq DEF Init
      <3>2. active \in BOOLEAN /\ stopped \in BOOLEAN /\ running \subseteq Tasks
        BY DEF Init
      <3>3. consecutive \in 0..MaxSearches
        BY DEF Init, MaxSearches
      <3>4. place \in [Batches -> Nat] /\ passed \in [Batches -> Nat]
        BY DEF Init
      <3> QED
        BY <3>1, <3>2, <3>3, <3>4 DEF TypeOK
    <2>2. OneCallback /\ NoForgottenTask
      BY DEF Init, OneCallback, NoForgottenTask
    <2>3. Paced(ingestionWaiters, passed, place, consecutive)
      BY EmptySeq DEF Init, Paced
    <2> QED
      BY <2>1, <2>2, <2>3 DEF SchedulerInv
  <1>2. SchedulerInv /\ [Next]_vars => SchedulerInv'
    BY NextSafe
  <1>3. SchedulerInv => TypeOK /\ OneCallback /\ NoForgottenTask /\ BatchPassedAtMost
    BY PacedIsBounded DEF SchedulerInv
  <1> QED
    BY <1>1, <1>2, <1>3, PTL DEF Spec

(* EMB-04: the encoder never runs two callbacks at once, for any callers: who *)
(* comes back between the end of a callback and the turn that clears "active" *)
(* waits for that turn, like everybody else in the queues.                    *)
THEOREM CallbacksAreAlone == Spec => []OneCallback
  BY SchedulerSafe, PTL
=============================================================================
