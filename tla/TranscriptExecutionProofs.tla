--------------------- MODULE TranscriptExecutionProofs ---------------------
(***************************************************************************)
(* The execution of transcripts is safe for any number of clients, of      *)
(* waiting workers, of permits and of chunks.  Two invariants carry it:    *)
(* the queue of waiters and the permits account for every task, and a tool *)
(* or a directory exists only at the awaits that will end or remove it.    *)
(***************************************************************************)
EXTENDS TranscriptExecution, SequenceTheorems, FiniteSetTheorems, TLAPS

(* The queue holds each waiter once, and only tasks that wait.              *)
PermitInv ==
    /\ ready \in BOOLEAN /\ active \subseteq Tasks /\ aborted \subseteq active
    /\ waiters \in Seq(Workers) /\ pc \in [Tasks -> Awaits \cup {"idle", "waiting"}]
    /\ IsFiniteSet(active) /\ Cardinality(active) <= MaxPermits
    /\ \A t \in Tasks : pc[t] \in Awaits <=> t \in active
    /\ \A i \in 1..Len(waiters) : pc[waiters[i]] = "waiting"
    /\ \A i, j \in 1..Len(waiters) : waiters[i] = waiters[j] => i = j
    /\ waiters # <<>> => ready /\ ~Free

WithDirectory == InTool \cup {"downloaded", "converted", "muse", "cleanup"}

(* A directory exists while the task works in it, or was left for good.      *)
WorkInv ==
    /\ dirs \subseteq Tasks
    /\ tool \in [Tasks -> {"none", "running"} \cup Reasons]
    /\ chunk \in [Tasks -> 0..Chunks]
    /\ result \in [Tasks -> {"none", "ok", "failed", "left"} \cup Reasons]
    /\ \A t \in Tasks : tool[t] # "none" => pc[t] \in InTool
    /\ \A t \in dirs : pc[t] \in WithDirectory \/ (pc[t] = "idle" /\ result[t] = "left")

ExecutionInv == PermitInv /\ WorkInv

----------------------------------------------------------------------------
(* The waiters that are let in are as many as their places in the queue.     *)
LEMMA FirstOfQueue ==
    ASSUME NEW q \in Seq(Workers), NEW k \in 0..Len(q),
           \A i, j \in 1..Len(q) : q[i] = q[j] => i = j
    PROVE  LET A == Range(SubSeq(q, 1, k))
           IN  /\ A = {q[i] : i \in 1..k} /\ IsFiniteSet(A) /\ Cardinality(A) = k
  <1> DEFINE A == Range(SubSeq(q, 1, k))
             f == [i \in 1..k |-> q[i]]
  <1>1. \A i \in 1..k : q[i] \in Workers
    OBVIOUS
  <1>2. /\ SubSeq(q, 1, k) \in Seq(Workers) /\ Len(SubSeq(q, 1, k)) = k
        /\ \A i \in 1..k : SubSeq(q, 1, k)[i] = q[i]
    BY <1>1
  <1>3. A = {q[i] : i \in 1..k}
    <2>1. DOMAIN SubSeq(q, 1, k) = 1..k
      BY <1>2
    <2>2. A = {SubSeq(q, 1, k)[i] : i \in 1..k}
      BY <2>1, Zenon DEF Range
    <2> QED
      BY <1>2, <2>2
  <1>4. f \in [1..k -> A]
    BY <1>3
  <1>5. f \in Bijection(1..k, A)
    <2>1. f \in Injection(1..k, A)
      BY <1>4 DEF Injection, IsInjective
    <2>2. f \in Surjection(1..k, A)
      BY <1>3, <1>4 DEF Surjection
    <2> QED
      BY <2>1, <2>2 DEF Bijection
  <1>6. IsFiniteSet(1..k) /\ Cardinality(1..k) = k
    BY FS_Interval
  <1> QED
    BY <1>3, <1>5, <1>6, FS_Bijection DEF ExistsBijection

(* What is left of the queue.                                               *)
LEMMA RestOfQueue ==
    ASSUME NEW q \in Seq(Workers), NEW k \in 0..Len(q)
    PROVE  LET s == SubSeq(q, k + 1, Len(q))
           IN  /\ s \in Seq(Workers) /\ Len(s) = Len(q) - k
               /\ \A i \in 1..Len(s) : s[i] = q[k + i]
  <1>1. \A i \in k + 1 .. Len(q) : q[i] \in Workers
    OBVIOUS
  <1> QED
    BY <1>1, SubSeqProperties

(* A task that goes from one await to another keeps its permit.             *)
LEMMA GoesPermit ==
    ASSUME PermitInv, NEW t \in active, NEW stage \in Awaits, Goes(t, stage)
    PROVE  PermitInv'
  <1> USE DEF PermitInv, Goes, permits
  <1>1. t \in Tasks /\ pc[t] \in Awaits
    OBVIOUS
  <1>2. "waiting" \notin Awaits
    BY DEF Awaits, InTool
  <1>3. pc' \in [Tasks -> Awaits \cup {"idle", "waiting"}]
    OBVIOUS
  <1>4. \A u \in Tasks : pc'[u] \in Awaits <=> u \in active'
    BY <1>1
  <1>5. \A i \in 1..Len(waiters') : pc'[waiters'[i]] = "waiting"
    BY <1>1, <1>2 DEF Tasks
  <1> QED
    BY <1>3, <1>4, <1>5 DEF Free

(* A task that ends gives its permit to the first waiter, when there is one. *)
LEMMA SettlePermit ==
    ASSUME PermitInv, NEW t \in active, NEW r, Settle(t, r)
    PROVE  PermitInv'
  <1> DEFINE k == Admits(t)
             F == active \ {t}
             A == Range(SubSeq(waiters, 1, k))
  <1>0. MaxPermits \in Nat \ {0} /\ Workers \subseteq Tasks /\ t \in Tasks
    BY ConstantsAssumption DEF Tasks, PermitInv
  <1>1. IsFiniteSet(F) /\ Cardinality(F) = Cardinality(active) - 1
        /\ Cardinality(F) \in Nat /\ Cardinality(active) \in Nat
    BY FS_RemoveElement, FS_CardinalityType DEF PermitInv
  <1>2. /\ k \in 0..Len(waiters) /\ k <= MaxPermits - Cardinality(F)
        /\ ready /\ k < Len(waiters) => k = MaxPermits - Cardinality(F)
    <2>1. Len(waiters) \in Nat
      BY DEF PermitInv
    <2> QED
      BY <1>0, <1>1, <2>1 DEF Admits, PermitInv
  <1>3. A = {waiters[i] : i \in 1..k} /\ IsFiniteSet(A) /\ Cardinality(A) = k
    BY <1>2, FirstOfQueue DEF PermitInv
  <1>4. /\ waiters' \in Seq(Workers) /\ Len(waiters') = Len(waiters) - k
        /\ \A i \in 1..Len(waiters') : waiters'[i] = waiters[k + i]
    BY <1>2, RestOfQueue DEF PermitInv, Settle
  <1>5. \A u \in A : u \in Tasks /\ pc[u] = "waiting" /\ u \notin active
    <2>1. "waiting" \notin Awaits
      BY DEF Awaits, InTool
    <2> QED
      BY <1>0, <1>2, <1>3, <2>1 DEF PermitInv
  <1>6. active' = F \cup A /\ F \cap A = {}
    BY <1>5 DEF Settle
  <1>7. IsFiniteSet(active') /\ Cardinality(active') = Cardinality(F) + k
    <2>1. Cardinality(F \cap A) = 0
      BY <1>6, FS_EmptySet
    <2>2. /\ IsFiniteSet(F \cup A)
          /\ Cardinality(F \cup A) = Cardinality(F) + Cardinality(A) - Cardinality(F \cap A)
      BY <1>1, <1>3, FS_Union
    <2> HIDE DEF F, A, k
    <2> QED
      BY <1>1, <1>2, <1>3, <1>6, <2>1, <2>2
  <1>8. /\ pc' = [u \in Tasks |-> IF u = t THEN "idle"
                                  ELSE IF u \in A THEN "granted" ELSE pc[u]]
        /\ aborted' = aborted \ {t} /\ ready' = ready
    BY DEF Settle
  <1>9. /\ "granted" \in Awaits /\ "idle" \notin Awaits /\ "waiting" \notin Awaits
    BY DEF Awaits, InTool
  <1>10. /\ pc' \in [Tasks -> Awaits \cup {"idle", "waiting"}]
         /\ \A u \in Tasks : pc'[u] \in Awaits <=> u \in active'
    BY <1>5, <1>6, <1>8, <1>9 DEF PermitInv
  <1>11. /\ ready' \in BOOLEAN /\ active' \subseteq Tasks /\ aborted' \subseteq active'
    BY <1>5, <1>6, <1>8 DEF PermitInv
  <1>12. \A i \in 1..Len(waiters') : pc'[waiters'[i]] = "waiting"
    <2> TAKE i \in 1..Len(waiters')
    <2>1. k + i \in 1..Len(waiters) /\ waiters'[i] = waiters[k + i]
      BY <1>2, <1>4
    <2>2. waiters[k + i] \in Tasks /\ pc[waiters[k + i]] = "waiting"
      BY <1>0, <2>1 DEF PermitInv
    <2>3. waiters[k + i] \notin A
      BY <1>2, <1>3, <2>1 DEF PermitInv
    <2>4. waiters[k + i] # t
      BY <1>0, <1>9, <2>2 DEF PermitInv
    <2> QED
      BY <1>8, <2>1, <2>2, <2>3, <2>4
  <1>13. \A i, j \in 1..Len(waiters') : waiters'[i] = waiters'[j] => i = j
    <2> SUFFICES ASSUME NEW i \in 1..Len(waiters'), NEW j \in 1..Len(waiters'),
                        waiters'[i] = waiters'[j]
                 PROVE  i = j
      OBVIOUS
    <2>1. k + i \in 1..Len(waiters) /\ k + j \in 1..Len(waiters)
      BY <1>2, <1>4
    <2>2. k + i = k + j
      BY <1>4, <2>1 DEF PermitInv
    <2> QED
      BY <1>2, <1>4, <2>2
  <1>14. waiters' # <<>> => ready' /\ ~Free'
    <2> SUFFICES ASSUME waiters' # <<>> PROVE ready' /\ ~Free'
      OBVIOUS
    <2>1. Len(waiters') # 0
      BY <1>4
    <2>2. ready /\ k < Len(waiters)
      BY <1>2, <1>4, <2>1 DEF PermitInv
    <2>3. Cardinality(active') = MaxPermits
      BY <1>0, <1>1, <1>2, <1>7, <2>2
    <2> QED
      BY <1>0, <1>8, <2>2, <2>3 DEF Free
  <1>15. Cardinality(active') <= MaxPermits
    BY <1>0, <1>1, <1>2, <1>7
  <1> QED
    BY <1>4, <1>7, <1>10, <1>11, <1>12, <1>13, <1>14, <1>15 DEF PermitInv

----------------------------------------------------------------------------
Results == {"none", "ok", "failed", "left"} \cup Reasons

(* What no step does: bring an aborted operation to its publication, or give *)
(* a tool that was told to stop another reason.                             *)
Careful ==
    /\ \A t \in aborted : pc[t] # "publish" => pc'[t] # "publish"
    /\ \A t \in Tasks : tool[t] \in Reasons =>
          tool'[t] = tool[t] \/ (tool'[t] = "none" /\ result'[t] = tool[t])

(* A step that leaves every await where it is.                              *)
LEMMA QuietIsCareful ==
    ASSUME UNCHANGED <<pc, tool>>
    PROVE  Careful
  BY DEF Careful

(* A task that goes to its next await.                                      *)
LEMMA GoesSafe ==
    ASSUME ExecutionInv, NEW t \in active, NEW stage \in Awaits, Goes(t, stage),
           stage = "publish" => t \notin aborted,
           tool' \in [Tasks -> {"none", "running"} \cup Reasons],
           result' \in [Tasks -> Results], chunk' \in [Tasks -> 0..Chunks],
           \A u \in Tasks \ {t} : tool'[u] = tool[u] /\ result'[u] = result[u],
           tool'[t] # "none" => stage \in InTool,
           tool[t] \in Reasons =>
              tool'[t] = tool[t] \/ (tool'[t] = "none" /\ result'[t] = tool[t]),
           dirs' \subseteq dirs \cup {t}, t \in dirs' => stage \in WithDirectory
    PROVE  ExecutionInv' /\ Careful
  <1>1. PermitInv'
    BY GoesPermit DEF ExecutionInv
  <1>2. t \in Tasks /\ pc \in [Tasks -> Awaits \cup {"idle", "waiting"}] /\ dirs \subseteq Tasks
    BY DEF ExecutionInv, PermitInv, WorkInv
  <1>3. pc'[t] = stage /\ \A u \in Tasks \ {t} : pc'[u] = pc[u]
    BY <1>2 DEF Goes
  <1>4. \A u \in Tasks : tool'[u] # "none" => pc'[u] \in InTool
    BY <1>3 DEF ExecutionInv, WorkInv
  <1>5. \A u \in dirs' : pc'[u] \in WithDirectory \/ (pc'[u] = "idle" /\ result'[u] = "left")
    BY <1>2, <1>3 DEF ExecutionInv, WorkInv
  <1>6. WorkInv'
    BY <1>2, <1>4, <1>5 DEF WorkInv, Results
  <1>7. Careful
    <2>1. aborted \subseteq Tasks
      BY DEF ExecutionInv, PermitInv
    <2> QED
      BY <1>3, <2>1 DEF Careful
  <1> QED
    BY <1>1, <1>6, <1>7 DEF ExecutionInv

(* A task that ends: its tool has ended, and its directory is gone unless    *)
(* the end says that it was left.                                           *)
LEMMA SettleSafe ==
    ASSUME ExecutionInv, NEW t \in active, NEW r \in Results, Settle(t, r),
           tool[t] = "none", UNCHANGED <<tool, chunk>>,
           dirs' \subseteq dirs, t \in dirs' => r = "left"
    PROVE  ExecutionInv' /\ Careful
  <1>1. PermitInv'
    BY SettlePermit DEF ExecutionInv
  <1>2. t \in Tasks /\ pc \in [Tasks -> Awaits \cup {"idle", "waiting"}]
        /\ waiters \in Seq(Workers) /\ dirs \subseteq Tasks /\ aborted \subseteq Tasks
        /\ result \in [Tasks -> Results]
    BY DEF ExecutionInv, PermitInv, WorkInv, Results
  <1>3. Admits(t) \in 0..Len(waiters)
    <2>1. IsFiniteSet(active \ {t})
      BY FS_RemoveElement DEF ExecutionInv, PermitInv
    <2>2. Cardinality(active \ {t}) \in Nat /\ Cardinality(active) \in Nat
          /\ Cardinality(active \ {t}) = Cardinality(active) - 1
      BY <2>1, FS_RemoveElement, FS_CardinalityType DEF ExecutionInv, PermitInv
    <2> QED
      BY <1>2, <2>2, ConstantsAssumption DEF Admits, ExecutionInv, PermitInv
  <1>4. Range(SubSeq(waiters, 1, Admits(t))) = {waiters[i] : i \in 1..Admits(t)}
    BY <1>2, <1>3, FirstOfQueue DEF ExecutionInv, PermitInv
  <1>5. \A u \in Tasks \ {t} : pc'[u] = pc[u] \/ (pc[u] = "waiting" /\ pc'[u] = "granted")
    BY <1>2, <1>3, <1>4 DEF Settle, ExecutionInv, PermitInv
  <1>6. pc'[t] = "idle" /\ result' = [result EXCEPT ![t] = r]
    BY <1>2 DEF Settle
  <1>7. "waiting" \notin InTool /\ "waiting" \notin WithDirectory
    BY DEF InTool, WithDirectory
  <1>8. \A u \in Tasks : tool'[u] # "none" => pc'[u] \in InTool
    BY <1>5, <1>7 DEF ExecutionInv, WorkInv
  <1>9. \A u \in dirs' : pc'[u] \in WithDirectory \/ (pc'[u] = "idle" /\ result'[u] = "left")
    BY <1>2, <1>5, <1>6, <1>7 DEF ExecutionInv, WorkInv
  <1>10. WorkInv'
    BY <1>2, <1>6, <1>8, <1>9 DEF ExecutionInv, WorkInv, Results
  <1>11. Careful
    BY <1>2, <1>5, <1>6 DEF Careful
  <1> QED
    BY <1>1, <1>10, <1>11 DEF ExecutionInv

(* A task ends a stage in which it has its directory.                       *)
LEMMA EndsSafe ==
    ASSUME ExecutionInv, NEW t \in active, NEW r \in Results, Ends(t, r),
           tool' \in [Tasks -> {"none", "running"} \cup Reasons],
           \A u \in Tasks \ {t} : tool'[u] = tool[u],
           tool'[t] = "none", tool[t] \in Reasons => r = tool[t],
           chunk' \in [Tasks -> 0..Chunks], dirs' \subseteq dirs \cup {t}
    PROVE  ExecutionInv' /\ Careful
  <1>1. Goes(t, "cleanup") /\ result' = [result EXCEPT ![t] = r]
    BY DEF Ends
  <1>2. "cleanup" \in Awaits /\ "cleanup" \in WithDirectory
    BY DEF Awaits, WithDirectory
  <1>3. t \in Tasks /\ result \in [Tasks -> Results]
    BY DEF ExecutionInv, PermitInv, WorkInv, Results
  <1> QED
    BY <1>1, <1>2, <1>3, GoesSafe

(* A task of the process holds a permit while it awaits a part of its work.  *)
LEMMA Holding ==
    ASSUME ExecutionInv, NEW t \in Tasks, pc[t] \in Awaits
    PROVE  /\ t \in active
           /\ pc[t] \notin InTool => tool[t] = "none"
           /\ t \in dirs => pc[t] \in WithDirectory
  <1>1. "idle" \notin Awaits
    BY DEF Awaits, InTool
  <1> QED
    BY <1>1 DEF ExecutionInv, PermitInv, WorkInv

(* The types that every step of a task starts from.                         *)
LEMMA Typed ==
    ASSUME ExecutionInv
    PROVE  /\ tool \in [Tasks -> {"none", "running"} \cup Reasons]
           /\ result \in [Tasks -> Results] /\ chunk \in [Tasks -> 0..Chunks]
           /\ dirs \subseteq Tasks /\ pc \in [Tasks -> Awaits \cup {"idle", "waiting"}]
  BY DEF ExecutionInv, PermitInv, WorkInv, Results

----------------------------------------------------------------------------
(* One lemma for each operation.                                            *)
LEMMA FreshSafe ==
    ASSUME ExecutionInv, NEW t \in Tasks, NEW stage \in {"captions", "granted", "waiting"},
           pc[t] = "idle", pc' = [pc EXCEPT ![t] = stage], Fresh(t),
           UNCHANGED <<aborted, tool, chunk>>
    PROVE  WorkInv' /\ Careful
  <1>1. "idle" \notin InTool
    BY DEF InTool
  <1>2. pc'[t] = stage /\ \A u \in Tasks \ {t} : pc'[u] = pc[u]
    BY Typed
  <1>3. /\ result' \in [Tasks -> Results] /\ dirs' = dirs \ {t}
        /\ \A u \in Tasks \ {t} : result'[u] = result[u]
    <2>1. "none" \in Results
      BY DEF Results
    <2> QED
      BY <2>1, Typed DEF Fresh
  <1>4. \A u \in Tasks : tool'[u] # "none" => pc'[u] \in InTool
    BY <1>1, <1>2 DEF ExecutionInv, WorkInv
  <1>5. \A u \in dirs' : pc'[u] \in WithDirectory \/ (pc'[u] = "idle" /\ result'[u] = "left")
    BY <1>2, <1>3, Typed DEF ExecutionInv, WorkInv
  <1>6. WorkInv'
    BY <1>3, <1>4, <1>5 DEF ExecutionInv, WorkInv, Results
  <1>7. Careful
    BY <1>2, Typed DEF Careful, ExecutionInv, PermitInv
  <1> QED
    BY <1>6, <1>7

LEMMA TryAcquireSafe ==
    ASSUME ExecutionInv, NEW r \in Requests, TryAcquire(r)
    PROVE  ExecutionInv' /\ Careful
  <1>1. r \in Tasks /\ "captions" \in Awaits /\ "idle" \notin Awaits
        /\ "captions" \notin InTool
    BY DEF Tasks, Awaits, InTool
  <1>2. /\ active' = active \cup {r} /\ pc' = [pc EXCEPT ![r] = "captions"]
        /\ pc[r] = "idle" /\ Free /\ r \notin active
        /\ UNCHANGED <<ready, waiters, aborted, tool, chunk>>
        /\ result' = [result EXCEPT ![r] = "none"] /\ dirs' = dirs \ {r}
    BY <1>1 DEF TryAcquire, Fresh, ExecutionInv, PermitInv
  <1>3. IsFiniteSet(active') /\ Cardinality(active') = Cardinality(active) + 1
        /\ Cardinality(active) \in Nat
    BY <1>2, FS_AddElement, FS_CardinalityType DEF ExecutionInv, PermitInv
  <1>4. MaxPermits \in Nat /\ Cardinality(active') <= MaxPermits
    BY <1>2, <1>3, ConstantsAssumption DEF Free
  <1>5. waiters = <<>>
    BY <1>2 DEF ExecutionInv, PermitInv
  <1>6. PermitInv'
    BY <1>1, <1>2, <1>3, <1>4, <1>5 DEF ExecutionInv, PermitInv
  <1>7. WorkInv' /\ Careful
    BY <1>1, <1>2, FreshSafe DEF TryAcquire
  <1> QED
    BY <1>6, <1>7 DEF ExecutionInv

LEMMA WaitForPermitSafe ==
    ASSUME ExecutionInv, NEW w \in Workers, WaitForPermit(w)
    PROVE  ExecutionInv' /\ Careful
  <1>1. w \in Tasks /\ "granted" \in Awaits /\ "idle" \notin Awaits /\ "waiting" \notin Awaits
        /\ "granted" \notin InTool /\ "waiting" \notin InTool /\ Workers \subseteq Tasks
    BY DEF Tasks, Awaits, InTool
  <1>2. /\ pc[w] = "idle" /\ ready /\ w \notin active
        /\ UNCHANGED <<ready, aborted, tool, chunk>>
        /\ result' = [result EXCEPT ![w] = "none"] /\ dirs' = dirs \ {w}
    BY <1>1 DEF WaitForPermit, Fresh, ExecutionInv, PermitInv
  <1>3. \A stage \in {"granted", "waiting"} : pc' = [pc EXCEPT ![w] = stage] => WorkInv' /\ Careful
    BY <1>1, <1>2, FreshSafe DEF WaitForPermit
  <1>4. CASE /\ Free /\ active' = active \cup {w} /\ pc' = [pc EXCEPT ![w] = "granted"]
             /\ UNCHANGED waiters
    <2>1. IsFiniteSet(active') /\ Cardinality(active') = Cardinality(active) + 1
          /\ Cardinality(active) \in Nat
      BY <1>2, <1>4, FS_AddElement, FS_CardinalityType DEF ExecutionInv, PermitInv
    <2>2. MaxPermits \in Nat /\ Cardinality(active') <= MaxPermits
      BY <1>4, <2>1, ConstantsAssumption DEF Free
    <2>3. waiters = <<>>
      BY <1>4 DEF ExecutionInv, PermitInv
    <2>4. PermitInv'
      BY <1>1, <1>2, <1>4, <2>1, <2>2, <2>3 DEF ExecutionInv, PermitInv
    <2> QED
      BY <1>3, <1>4, <2>4 DEF ExecutionInv
  <1>5. CASE /\ ~Free /\ waiters' = Append(waiters, w) /\ pc' = [pc EXCEPT ![w] = "waiting"]
             /\ UNCHANGED active
    <2>1. /\ waiters \in Seq(Workers) /\ waiters' \in Seq(Workers)
          /\ Len(waiters') = Len(waiters) + 1 /\ waiters'[Len(waiters) + 1] = w
          /\ \A i \in 1..Len(waiters) : waiters'[i] = waiters[i]
      BY <1>5 DEF ExecutionInv, PermitInv
    <2>2. \A i \in 1..Len(waiters) : waiters[i] # w /\ waiters[i] \in Tasks
      BY <1>1, <1>2, <2>1 DEF ExecutionInv, PermitInv
    <2>3. \A i \in 1..Len(waiters') : pc'[waiters'[i]] = "waiting"
      BY <1>1, <1>5, <2>1, <2>2 DEF ExecutionInv, PermitInv
    <2>4. \A i, j \in 1..Len(waiters') : waiters'[i] = waiters'[j] => i = j
      BY <2>1, <2>2 DEF ExecutionInv, PermitInv
    <2>5. \A t \in Tasks : pc'[t] \in Awaits <=> t \in active'
      BY <1>1, <1>2, <1>5 DEF ExecutionInv, PermitInv
    <2>6. PermitInv'
      BY <1>1, <1>2, <1>5, <2>1, <2>3, <2>4, <2>5 DEF ExecutionInv, PermitInv, Free
    <2> QED
      BY <1>3, <1>5, <2>6 DEF ExecutionInv
  <1> QED
    BY <1>4, <1>5 DEF WaitForPermit

(* An abort looks at nothing but the signals and the tools.                 *)
LEMMA AbortSafe ==
    ASSUME ExecutionInv, NEW ts, ts \subseteq active, AbortAll(ts)
    PROVE  /\ aborted' \subseteq active /\ tool' \in [Tasks -> {"none", "running"} \cup Reasons]
           /\ \A t \in Tasks : tool'[t] # "none" => pc[t] \in InTool
           /\ \A t \in Tasks : tool[t] \in Reasons => tool'[t] = tool[t]
  <1>1. "aborted" \in Reasons /\ "running" \notin Reasons
    BY DEF Reasons
  <1> QED
    BY <1>1 DEF AbortAll, Told, ExecutionInv, PermitInv, WorkInv

LEMMA ClientLeavesSafe ==
    ASSUME ExecutionInv, NEW r \in Requests, ClientLeaves(r)
    PROVE  ExecutionInv' /\ Careful
  <1>1. {r} \subseteq active /\ AbortAll({r})
        /\ UNCHANGED <<ready, active, waiters, pc, chunk, dirs, result>>
    BY DEF ClientLeaves, permits
  <1>2. /\ aborted' \subseteq active /\ tool' \in [Tasks -> {"none", "running"} \cup Reasons]
        /\ \A t \in Tasks : tool'[t] # "none" => pc[t] \in InTool
        /\ \A t \in Tasks : tool[t] \in Reasons => tool'[t] = tool[t]
    BY <1>1, AbortSafe
  <1>3. PermitInv'
    BY <1>1, <1>2 DEF ExecutionInv, PermitInv, Free
  <1>4. WorkInv'
    BY <1>1, <1>2 DEF ExecutionInv, WorkInv
  <1> QED
    BY <1>1, <1>2, <1>3, <1>4 DEF ExecutionInv, Careful

LEMMA BeginShutdownSafe ==
    ASSUME ExecutionInv, BeginShutdown
    PROVE  ExecutionInv' /\ Careful
  <1>1. /\ ready' = FALSE /\ AbortAll(active) /\ waiters' = <<>>
        /\ pc' = [t \in Tasks |-> IF pc[t] = "waiting" THEN "idle" ELSE pc[t]]
        /\ UNCHANGED <<active, chunk, dirs, result>>
    BY DEF BeginShutdown, WaitersSettled
  <1>2. /\ aborted' \subseteq active /\ tool' \in [Tasks -> {"none", "running"} \cup Reasons]
        /\ \A t \in Tasks : tool'[t] # "none" => pc[t] \in InTool
        /\ \A t \in Tasks : tool[t] \in Reasons => tool'[t] = tool[t]
    BY <1>1, AbortSafe
  <1>3. "waiting" \notin Awaits /\ "idle" \notin Awaits /\ "waiting" \notin InTool
        /\ "waiting" \notin WithDirectory
    BY DEF Awaits, InTool, WithDirectory
  <1>4. PermitInv'
    <2>1. /\ pc' \in [Tasks -> Awaits \cup {"idle", "waiting"}]
          /\ \A t \in Tasks : pc'[t] \in Awaits <=> t \in active'
      BY <1>1, <1>3 DEF ExecutionInv, PermitInv
    <2>2. waiters' \in Seq(Workers) /\ \A i \in 1..Len(waiters') : FALSE
      BY <1>1
    <2>3. /\ ready' \in BOOLEAN /\ active' \subseteq Tasks /\ aborted' \subseteq active'
          /\ IsFiniteSet(active') /\ Cardinality(active') <= MaxPermits
      BY <1>1, <1>2 DEF ExecutionInv, PermitInv
    <2> QED
      BY <1>1, <2>1, <2>2, <2>3 DEF PermitInv
  <1>5. WorkInv'
    <2>1. \A t \in Tasks : tool'[t] # "none" => pc'[t] \in InTool
      BY <1>1, <1>2, <1>3
    <2>2. \A t \in dirs' : pc'[t] \in WithDirectory \/ (pc'[t] = "idle" /\ result'[t] = "left")
      BY <1>1, <1>3, Typed DEF ExecutionInv, WorkInv
    <2> QED
      BY <1>1, <1>2, <2>1, <2>2 DEF ExecutionInv, WorkInv
  <1>6. Careful
    BY <1>1, <1>2 DEF Careful, ExecutionInv, PermitInv
  <1> QED
    BY <1>4, <1>5, <1>6 DEF ExecutionInv

(* run: a tool is started, or the stage ends before it.                     *)
LEMMA StartToolSafe ==
    ASSUME ExecutionInv, NEW t \in active, NEW stage \in InTool, StartTool(t, stage),
           pc[t] \notin InTool, dirs' \subseteq dirs \cup {t}, chunk' = chunk
    PROVE  ExecutionInv' /\ Careful
  <1>1. t \in Tasks /\ tool[t] = "none" /\ stage \in Awaits /\ stage \in WithDirectory
        /\ stage # "publish"
    BY DEF ExecutionInv, PermitInv, WorkInv, Awaits, WithDirectory, InTool
  <1>2. CASE t \notin aborted /\ On(t, stage) /\ tool' = [tool EXCEPT ![t] = "running"]
    <2>1. Goes(t, stage) /\ result' = result
      BY <1>2 DEF On
    <2> QED
      BY <1>1, <1>2, <2>1, Typed, GoesSafe DEF Reasons
  <1>3. CASE t \in aborted /\ Ends(t, "aborted") /\ UNCHANGED tool
    <2>1. "aborted" \in Results
      BY DEF Results, Reasons
    <2> QED
      BY <1>1, <1>3, <2>1, Typed, EndsSafe DEF Reasons
  <1> QED
    BY <1>2, <1>3 DEF StartTool

(* A task goes on to an await with no tool, or ends, and touches nothing of  *)
(* its work.                                                                *)
LEMMA OnSafe ==
    ASSUME ExecutionInv, NEW t \in active, NEW stage \in Awaits, On(t, stage),
           tool[t] = "none", UNCHANGED <<tool, dirs>>, chunk' \in [Tasks -> 0..Chunks],
           stage = "publish" => t \notin aborted, t \in dirs => stage \in WithDirectory
    PROVE  ExecutionInv' /\ Careful
  <1>1. Goes(t, stage) /\ result' = result
    BY DEF On
  <1>2. tool[t] \notin Reasons
    BY DEF Reasons
  <1>3. t \in Tasks
    BY DEF ExecutionInv, PermitInv
  <1> QED
    BY <1>1, <1>2, <1>3, Typed, GoesSafe

LEMMA BeginSafe ==
    ASSUME ExecutionInv, NEW w \in Workers, Begin(w)
    PROVE  ExecutionInv' /\ Careful
  <1>1. w \in Tasks /\ pc[w] = "granted" /\ UNCHANGED <<tool, chunk, dirs>>
    BY DEF Begin, work, Tasks
  <1>2. "granted" \in Awaits /\ "granted" \notin InTool /\ "granted" \notin WithDirectory
        /\ "captions" \in Awaits /\ {"failed", "aborted"} \subseteq Results
    BY DEF Awaits, InTool, WithDirectory, Results, Reasons
  <1>3. w \in active /\ tool[w] = "none" /\ w \notin dirs
    BY <1>1, <1>2, Holding
  <1>4. CASE On(w, "captions")
    BY <1>1, <1>2, <1>3, <1>4, Typed, OnSafe
  <1>5. ASSUME NEW r \in {"failed", "aborted"}, Settle(w, r) PROVE ExecutionInv' /\ Careful
    BY <1>1, <1>2, <1>3, <1>5, SettleSafe
  <1> QED
    BY <1>4, <1>5 DEF Begin

LEMMA CaptionsAnswerSafe ==
    ASSUME ExecutionInv, NEW t \in Tasks, CaptionsAnswer(t)
    PROVE  ExecutionInv' /\ Careful
  <1>1. pc[t] = "captions" /\ UNCHANGED <<tool, chunk, dirs>>
    BY DEF CaptionsAnswer, work
  <1>2. "captions" \in Awaits /\ "captions" \notin InTool /\ "captions" \notin WithDirectory
        /\ {"publish", "mkdir"} \subseteq Awaits /\ {"failed", "aborted"} \subseteq Results
    BY DEF Awaits, InTool, WithDirectory, Results, Reasons
  <1>3. t \in active /\ tool[t] = "none" /\ t \notin dirs
    BY <1>1, <1>2, Holding
  <1>4. ASSUME NEW stage \in {"publish", "mkdir"}, t \notin aborted, On(t, stage)
        PROVE  ExecutionInv' /\ Careful
    BY <1>1, <1>2, <1>3, <1>4, Typed, OnSafe
  <1>5. ASSUME NEW r \in {"failed", "aborted"}, Settle(t, r) PROVE ExecutionInv' /\ Careful
    BY <1>1, <1>2, <1>3, <1>5, SettleSafe
  <1> QED
    BY <1>4, <1>5 DEF CaptionsAnswer

LEMMA MakeDirectorySafe ==
    ASSUME ExecutionInv, NEW t \in Tasks, MakeDirectory(t)
    PROVE  ExecutionInv' /\ Careful
  <1>1. "mkdir" \in Awaits /\ "mkdir" \notin InTool /\ "mkdir" \notin WithDirectory
        /\ "download" \in InTool /\ "failed" \in Results /\ pc[t] = "mkdir" /\ chunk' = chunk
    BY DEF Awaits, InTool, WithDirectory, Results, MakeDirectory
  <1>2. t \in active /\ tool[t] = "none" /\ t \notin dirs
    BY <1>1, Holding
  <1>3. CASE dirs' = dirs \cup {t} /\ StartTool(t, "download")
    BY <1>1, <1>2, <1>3, StartToolSafe
  <1>4. CASE Settle(t, "failed") /\ UNCHANGED <<dirs, tool>>
    BY <1>1, <1>2, <1>4, SettleSafe
  <1> QED
    BY <1>3, <1>4 DEF MakeDirectory

LEMMA ToolClosesSafe ==
    ASSUME ExecutionInv, NEW t \in Tasks, ToolCloses(t)
    PROVE  ExecutionInv' /\ Careful
  <1>1. pc[t] \in InTool /\ tool' = [tool EXCEPT ![t] = "none"] /\ UNCHANGED <<chunk, dirs>>
    BY DEF ToolCloses
  <1>2. InTool \subseteq Awaits /\ {"downloaded", "converted"} \subseteq Awaits \cap WithDirectory
        /\ "failed" \in Results /\ Reasons \subseteq Results /\ "running" \notin Reasons
    BY DEF Awaits, InTool, WithDirectory, Results, Reasons
  <1>3. t \in active
    BY <1>1, <1>2, Holding
  <1>4. /\ tool' \in [Tasks -> {"none", "running"} \cup Reasons] /\ tool'[t] = "none"
        /\ \A u \in Tasks \ {t} : tool'[u] = tool[u]
    BY <1>1, Typed
  <1>5. ASSUME NEW stage \in {"downloaded", "converted"}, tool[t] = "running", On(t, stage)
        PROVE  ExecutionInv' /\ Careful
    <2>1. Goes(t, stage) /\ result' = result
      BY <1>5 DEF On
    <2> QED
      BY <1>1, <1>2, <1>3, <1>4, <1>5, <2>1, Typed, GoesSafe
  <1>6. CASE tool[t] = "running" /\ Ends(t, "failed")
    BY <1>1, <1>2, <1>3, <1>4, <1>6, Typed, EndsSafe
  <1>7. CASE tool[t] \in Reasons /\ Ends(t, tool[t])
    BY <1>1, <1>2, <1>3, <1>4, <1>7, Typed, EndsSafe
  <1> QED
    BY <1>5, <1>6, <1>7 DEF ToolCloses

LEMMA ToolTimesOutSafe ==
    ASSUME ExecutionInv, NEW t \in Tasks, ToolTimesOut(t)
    PROVE  ExecutionInv' /\ Careful
  <1>1. /\ pc[t] \in InTool /\ tool[t] = "running" /\ tool' = [tool EXCEPT ![t] = "timeout"]
        /\ UNCHANGED <<ready, active, waiters, pc, aborted, chunk, dirs, result>>
    BY DEF ToolTimesOut, Told, permits
  <1>2. "timeout" \in Reasons /\ "running" \notin Reasons
    BY DEF Reasons
  <1>3. PermitInv'
    BY <1>1 DEF ExecutionInv, PermitInv, Free
  <1>4. WorkInv'
    BY <1>1, <1>2 DEF ExecutionInv, WorkInv
  <1>5. Careful
    BY <1>1, <1>2, Typed DEF Careful
  <1> QED
    BY <1>3, <1>4, <1>5 DEF ExecutionInv

LEMMA ForceKillSafe ==
    ASSUME ExecutionInv, NEW t \in Tasks, ForceKill(t)
    PROVE  ExecutionInv' /\ Careful
  <1>1. /\ pc[t] \in InTool /\ tool[t] \in Reasons /\ Ends(t, tool[t])
        /\ tool' = [tool EXCEPT ![t] = "none"] /\ UNCHANGED <<chunk, dirs>>
    BY DEF ForceKill, Kills
  <1>2. InTool \subseteq Awaits /\ Reasons \subseteq Results
    BY DEF Awaits, Results
  <1>3. t \in active
    BY <1>1, <1>2, Holding
  <1> QED
    BY <1>1, <1>2, <1>3, Typed, EndsSafe

LEMMA DownloadedSafe ==
    ASSUME ExecutionInv, NEW t \in Tasks, Downloaded(t)
    PROVE  ExecutionInv' /\ Careful
  <1>1. "downloaded" \in Awaits /\ "downloaded" \notin InTool /\ "convert" \in InTool
        /\ "failed" \in Results /\ pc[t] = "downloaded" /\ UNCHANGED <<chunk, dirs>>
    BY DEF Awaits, InTool, Results, Downloaded
  <1>2. t \in active /\ tool[t] = "none"
    BY <1>1, Holding
  <1>3. CASE StartTool(t, "convert")
    BY <1>1, <1>2, <1>3, StartToolSafe
  <1>4. CASE Ends(t, "failed") /\ UNCHANGED tool
    BY <1>1, <1>2, <1>4, Typed, EndsSafe DEF Reasons
  <1> QED
    BY <1>3, <1>4 DEF Downloaded

LEMMA ConvertedSafe ==
    ASSUME ExecutionInv, NEW t \in Tasks, Converted(t)
    PROVE  ExecutionInv' /\ Careful
  <1>1. "converted" \in Awaits /\ "converted" \notin InTool /\ "muse" \in Awaits \cap WithDirectory
        /\ {"failed", "aborted"} \subseteq Results
        /\ pc[t] = "converted" /\ UNCHANGED <<tool, dirs>>
    BY DEF Awaits, InTool, WithDirectory, Results, Reasons, Converted
  <1>2. t \in active /\ tool[t] = "none"
    BY <1>1, Holding
  <1>3. CASE t \notin aborted /\ On(t, "muse") /\ chunk' = [chunk EXCEPT ![t] = 1]
    <2>1. chunk' \in [Tasks -> 0..Chunks]
      BY <1>3, Typed, ConstantsAssumption
    <2> QED
      BY <1>1, <1>2, <1>3, <2>1, OnSafe
  <1>4. ASSUME NEW r \in {"failed", "aborted"}, Ends(t, r), UNCHANGED chunk
        PROVE  ExecutionInv' /\ Careful
    BY <1>1, <1>2, <1>4, Typed, EndsSafe DEF Reasons
  <1> QED
    BY <1>3, <1>4 DEF Converted

LEMMA MuseEndsSafe ==
    ASSUME ExecutionInv, NEW t \in Tasks, NEW r \in Results, pc[t] = "muse", MuseEnds(t, r),
           UNCHANGED <<tool, dirs>>
    PROVE  ExecutionInv' /\ Careful
  <1>1. "muse" \in Awaits /\ "muse" \notin InTool
    BY DEF Awaits, InTool
  <1>2. t \in active /\ tool[t] = "none"
    BY <1>1, Holding
  <1>3. Ends(t, r) /\ chunk' \in [Tasks -> 0..Chunks]
    BY Typed, ConstantsAssumption DEF MuseEnds
  <1> QED
    BY <1>2, <1>3, Typed, EndsSafe DEF Reasons

LEMMA MuseAnswersSafe ==
    ASSUME ExecutionInv, NEW t \in Tasks, MuseAnswers(t)
    PROVE  ExecutionInv' /\ Careful
  <1>1. pc[t] = "muse" /\ UNCHANGED <<tool, dirs>> /\ "muse" \in Awaits \cap WithDirectory
        /\ "muse" \notin InTool /\ {"ok", "failed", "aborted"} \subseteq Results
    BY DEF Awaits, InTool, WithDirectory, Results, Reasons, MuseAnswers
  <1>2. CASE /\ t \notin aborted /\ chunk[t] < Chunks
             /\ On(t, "muse") /\ chunk' = [chunk EXCEPT ![t] = @ + 1]
    <2>1. chunk' \in [Tasks -> 0..Chunks]
      BY <1>2, Typed, ConstantsAssumption
    <2>2. t \in active /\ tool[t] = "none"
      BY <1>1, Holding
    <2> QED
      BY <1>1, <1>2, <2>1, <2>2, OnSafe
  <1>3. ASSUME NEW r \in {"ok", "failed", "aborted"}, MuseEnds(t, r)
        PROVE  ExecutionInv' /\ Careful
    BY <1>1, <1>3, MuseEndsSafe
  <1> QED
    BY <1>2, <1>3 DEF MuseAnswers

LEMMA MuseTimesOutSafe ==
    ASSUME ExecutionInv, NEW t \in Tasks, MuseTimesOut(t)
    PROVE  ExecutionInv' /\ Careful
  BY MuseEndsSafe DEF MuseTimesOut, Results, Reasons

LEMMA RemoveDirectorySafe ==
    ASSUME ExecutionInv, NEW t \in Tasks, RemoveDirectory(t)
    PROVE  ExecutionInv' /\ Careful
  <1>1. pc[t] = "cleanup" /\ dirs' = dirs \ {t} /\ UNCHANGED <<tool, chunk>>
        /\ {"cleanup", "publish"} \subseteq Awaits /\ "cleanup" \notin InTool
        /\ "publish" \notin InTool /\ "aborted" \in Results
    BY DEF Awaits, InTool, Results, Reasons, RemoveDirectory
  <1>2. t \in active /\ tool[t] = "none"
    BY <1>1, Holding
  <1>3. CASE ActiveAtLast(t) /\ On(t, "publish")
    <2>1. t \notin aborted /\ Goes(t, "publish") /\ result' = result
      BY <1>3 DEF ActiveAtLast, On
    <2> QED
      BY <1>1, <1>2, <2>1, Typed, GoesSafe DEF Reasons
  <1>4. ASSUME NEW r \in Results, Settle(t, r) PROVE ExecutionInv' /\ Careful
    BY <1>1, <1>2, <1>4, SettleSafe
  <1>5. result[t] \in Results
    BY Typed
  <1> QED
    BY <1>1, <1>3, <1>4, <1>5 DEF RemoveDirectory

LEMMA RemoveFailsSafe ==
    ASSUME ExecutionInv, NEW t \in Tasks, RemoveFails(t)
    PROVE  ExecutionInv' /\ Careful
  <1>1. pc[t] = "cleanup" /\ Settle(t, "left") /\ UNCHANGED <<tool, chunk, dirs>>
        /\ "cleanup" \in Awaits /\ "cleanup" \notin InTool /\ "left" \in Results
    BY DEF Awaits, InTool, Results, RemoveFails, work
  <1>2. t \in active /\ tool[t] = "none"
    BY <1>1, Holding
  <1> QED
    BY <1>1, <1>2, SettleSafe

LEMMA PublishSafe ==
    ASSUME ExecutionInv, NEW t \in Tasks, Publish(t)
    PROVE  ExecutionInv' /\ Careful
  <1>1. pc[t] = "publish" /\ UNCHANGED <<tool, chunk, dirs>> /\ "publish" \in Awaits
        /\ "publish" \notin InTool /\ "publish" \notin WithDirectory
        /\ {"ok", "failed"} \subseteq Results
    BY DEF Awaits, InTool, WithDirectory, Results, Publish, work
  <1>2. t \in active /\ tool[t] = "none" /\ t \notin dirs
    BY <1>1, Holding
  <1>3. ASSUME NEW r \in {"ok", "failed"}, Settle(t, r) PROVE ExecutionInv' /\ Careful
    BY <1>1, <1>2, <1>3, SettleSafe
  <1> QED
    BY <1>3 DEF Publish

----------------------------------------------------------------------------
LEMMA NextSafe ==
    ASSUME ExecutionInv, [Next]_vars
    PROVE  ExecutionInv' /\ Careful
  <1>1. CASE UNCHANGED vars
    BY <1>1, QuietIsCareful
       DEF vars, permits, work, ExecutionInv, PermitInv, WorkInv, Free
  <1>2. ASSUME NEW r \in Requests, TryAcquire(r) \/ ClientLeaves(r)
        PROVE  ExecutionInv' /\ Careful
    BY <1>2, TryAcquireSafe, ClientLeavesSafe
  <1>3. ASSUME NEW w \in Workers, WaitForPermit(w) \/ Begin(w)
        PROVE  ExecutionInv' /\ Careful
    BY <1>3, WaitForPermitSafe, BeginSafe
  <1>4. ASSUME NEW t \in Tasks, Step(t) PROVE ExecutionInv' /\ Careful
    BY <1>4, CaptionsAnswerSafe, MakeDirectorySafe, DownloadedSafe, ConvertedSafe,
       RemoveDirectorySafe, PublishSafe DEF Step
  <1>5. ASSUME NEW t \in Tasks, Timer(t) PROVE ExecutionInv' /\ Careful
    BY <1>5, ToolTimesOutSafe, ForceKillSafe, MuseTimesOutSafe DEF Timer
  <1>6. ASSUME NEW t \in Tasks, ToolCloses(t) \/ MuseAnswers(t) \/ RemoveFails(t)
        PROVE  ExecutionInv' /\ Careful
    BY <1>6, ToolClosesSafe, MuseAnswersSafe, RemoveFailsSafe
  <1> QED
    BY <1>1, <1>2, <1>3, <1>4, <1>5, <1>6, BeginShutdownSafe DEF Next

LEMMA InitSafe == Init => ExecutionInv
  <1> SUFFICES ASSUME Init PROVE ExecutionInv
    OBVIOUS
  <1>1. IsFiniteSet({}) /\ Cardinality({}) = 0
    BY FS_EmptySet
  <1>2. "idle" \notin Awaits
    BY DEF Awaits, InTool
  <1>3. waiters \in Seq(Workers) /\ Len(waiters) = 0 /\ \A i \in 1..Len(waiters) : FALSE
    BY DEF Init
  <1>4. PermitInv
    BY <1>1, <1>2, <1>3, ConstantsAssumption DEF Init, PermitInv
  <1>5. WorkInv
    BY ConstantsAssumption DEF Init, WorkInv
  <1> QED
    BY <1>4, <1>5 DEF ExecutionInv

(* The inductive invariant: permits, queue, tools and directories agree with *)
(* what every task awaits.                                                  *)
THEOREM ExecutionIsSafe == Spec => []ExecutionInv
  <1>1. ExecutionInv /\ [Next]_vars => ExecutionInv'
    BY NextSafe
  <1> QED
    BY InitSafe, <1>1, PTL DEF Spec

(* Every reachable state has the types of the code.                         *)
THEOREM TypeCorrect == Spec => []TypeOK
  <1>1. ExecutionInv => TypeOK
    BY DEF ExecutionInv, PermitInv, WorkInv, TypeOK
  <1> QED
    BY <1>1, ExecutionIsSafe, PTL

(* HARD-01 to HARD-03: the permits are never exceeded, lost or idle beside a *)
(* waiter, whatever clients, tools and shutdown do.                         *)
THEOREM PermitsStayAccounted == Spec => []PermitsAccounted
  <1>1. ExecutionInv => PermitsAccounted
    BY DEF ExecutionInv, PermitInv, WorkInv, PermitsAccounted
  <1> QED
    BY <1>1, ExecutionIsSafe, PTL

(* PROC-06, WORK-07: no end of an operation forgets its directory.          *)
THEOREM DirectoriesAreRemoved == Spec => []NothingLeftBehind
  <1>1. "idle" \notin WithDirectory /\ "waiting" \notin WithDirectory
    BY DEF WithDirectory, InTool
  <1>2. ExecutionInv => NothingLeftBehind
    BY <1>1 DEF ExecutionInv, WorkInv, NothingLeftBehind
  <1> QED
    BY <1>2, ExecutionIsSafe, PTL

(* PROC-02: an aborted operation does not come to store what it produced.   *)
THEOREM AbortedIsNotStored == Spec => NothingStoredAfterAbort
  <1>1. ExecutionInv /\ [Next]_vars
        => [\A t \in aborted : pc[t] # "publish" => pc'[t] # "publish"]_vars
    BY NextSafe DEF Careful
  <1> QED
    BY <1>1, ExecutionIsSafe, PTL DEF Spec, NothingStoredAfterAbort

(* PROC-04: the first reason to stop a tool is the one that is reported.    *)
THEOREM FirstReasonIsReported == Spec => FirstReasonWins
  <1>1. ExecutionInv /\ [Next]_vars
        => [\A t \in Tasks : tool[t] \in Reasons =>
              tool'[t] = tool[t] \/ (tool'[t] = "none" /\ result'[t] = tool[t])]_vars
    BY NextSafe DEF Careful
  <1> QED
    BY <1>1, ExecutionIsSafe, PTL DEF Spec, FirstReasonWins
=============================================================================
