------------------------ MODULE ChannelLibraryProofs ------------------------
(***************************************************************************)
(* A collection misses no video, a video is submitted again only after a   *)
(* life or a failure, and what is ready stays ready: for a channel of any  *)
(* length, pages of any size, and any failures, crashes and retries.       *)
(***************************************************************************)
EXTENDS ChannelLibrary, FiniteSetTheorems, TLAPS

Stages   == {"submit", "poll", "enrich"}
Statuses == {"none", "pending", "processing", "retry_wait", "retry_due"}
Rows     == [home : {"none", "alone", "channel"}, status : Pending \cup Settled,
             job : 0..MaxJobs, old : BOOLEAN, attempts : Nat,
             failure : {"none", "other", "timeout"}]
Runs     == [status : Statuses, token : Nat, cutoff : Nat, initial : BOOLEAN, seen : Nat,
             attempts : Nat]

(* Every variable has the type the code gives it.                           *)
Typed ==
    /\ published \in 0..MaxVideos /\ setup \in Nat
    /\ chan \in [known : BOOLEAN, done : BOOLEAN, checkpoint : Nat]
    /\ run \in Runs /\ vids \in [Videos -> Rows]
    /\ sources \subseteq Videos /\ attempts \subseteq Videos
    /\ chunks \in [Videos -> 0..Parts]
    /\ jobs \in [JobIds -> [video : 0..MaxVideos,
                            status : {"none", "queued", "completed", "failed"}]]
    /\ worker \in [pc : {"off", "idle", "list", "videos"} \cup Stages, video : 0..MaxVideos,
                   due : SUBSET Videos, pages : Nat]
    /\ phase \in {"down", "up", "stopping"}
    /\ enqueued \in Nat /\ faults \in Nat /\ lives \in Nat /\ retries \in Nat

(* The worker works on a video that is due, with the one active attempt, and *)
(* knows the job it asks for.                                               *)
WorkerInv ==
    /\ phase = "down" <=> worker.pc = "off"
    /\ worker.pc \in Stages => worker.video \in worker.due
    /\ phase # "down" => attempts = IF worker.pc \in Stages THEN {worker.video} ELSE {}
    /\ worker.pc = "submit" => vids[worker.video].job = 0
    /\ worker.pc = "poll" => vids[worker.video].job # 0
    /\ worker.pc \in {"videos"} \cup Stages => \A v \in worker.due :
          vids[v].status \in Pending /\ vids[v].home # "none"
    /\ \A v \in Videos : vids[v].home = "none" => vids[v] = Unknown

(* A collection has everything above the place it has come to.              *)
CollectInv ==
    /\ run.status = "none" <=> run = NoRun
    /\ worker.pc = "list" => RunActive
    /\ RunActive => run.cutoff <= published /\ (run.initial <=> ~chan.done)
    /\ ~chan.done => chan.checkpoint = 0
    /\ NothingMissed
    /\ RunActive /\ ~run.initial => \A v \in Videos :
          /\ setup < v /\ v <= run.cutoff
          /\ v + run.token > published /\ v + Overlap > chan.checkpoint
          => vids[v].home = "channel"

(* Without a failing provider no job fails and nothing waits for a retry.   *)
CauseInv ==
    /\ FailureHasCause
    /\ faults = 0 => \A j \in JobIds : jobs[j].status # "failed"

(* A submission to come is paid for by a life, or by a failure.             *)
Owed(v) ==
    \/ phase # "down" /\ vids[v].job = 0
    \/ vids[v].job # 0 /\ jobs[vids[v].job].status = "failed"
    \/ vids[v].status = "failed" /\ vids[v].failure # "timeout"

CountInv ==
    /\ \A v \in Videos : vids[v].job # 0 => jobs[vids[v].job].video = v
    /\ SubmittedOnce
    /\ \A v \in Videos : Owed(v) => Cardinality(JobsOf(v)) < lives + faults

----------------------------------------------------------------------------
(* What the updates of a record make.                                       *)
LEMMA FailedIs ==
    ASSUME NEW v, vids[v] \in Rows, NEW code, NEW retryable
    PROVE  Failed(v, code, retryable) =
             [home |-> vids[v].home,
              status |-> IF retryable /\ Again(Attempt(vids[v].attempts)) THEN "retry_wait"
                         ELSE "failed",
              job |-> vids[v].job, old |-> vids[v].old,
              attempts |-> Attempt(vids[v].attempts), failure |-> code]
  <1> DEFINE n == Attempt(vids[v].attempts)
             s == IF retryable /\ Again(n) THEN "retry_wait" ELSE "failed"
             a == [vids[v] EXCEPT !.attempts = n]
             b == [a EXCEPT !.failure = code]
             r == [b EXCEPT !.status = s]
  <1>1. Failed(v, code, retryable) = r
    BY Zenon DEF Failed
  <1> HIDE DEF n, s
  <1>2. a = [home |-> vids[v].home, status |-> vids[v].status, job |-> vids[v].job,
             old |-> vids[v].old, attempts |-> n, failure |-> vids[v].failure]
    BY DEF Rows
  <1> HIDE DEF a
  <1>3. b = [home |-> vids[v].home, status |-> vids[v].status, job |-> vids[v].job,
             old |-> vids[v].old, attempts |-> n, failure |-> code]
    BY <1>2
  <1> HIDE DEF b
  <1>4. r = [home |-> vids[v].home, status |-> s, job |-> vids[v].job,
             old |-> vids[v].old, attempts |-> n, failure |-> code]
    BY <1>3
  <1> HIDE DEF r
  <1> QED
    BY <1>1, <1>4, Zenon DEF n, s

----------------------------------------------------------------------------
(* The types.                                                               *)
LEMMA RowFacts ==
    /\ Unknown \in Rows /\ NoRun \in Runs /\ Videos \subseteq Nat /\ JobIds \subseteq Nat
    /\ \A v \in Videos : v \in 1..MaxVideos
    /\ \A j \in JobIds : j # 0 /\ j \in 0..MaxJobs
  BY ConstantsAssumption
     DEF Unknown, New, Rows, NoRun, Runs, Statuses, Videos, JobIds, Pending, Settled

LEMMA FailedRow ==
    ASSUME Typed, NEW v \in Videos, NEW code \in {"other", "timeout"}, NEW retryable \in BOOLEAN
    PROVE  LET r == Failed(v, code, retryable)
           IN  /\ r \in Rows /\ r.home = vids[v].home /\ r.job = vids[v].job
               /\ r.failure = code /\ r.status \in {"failed", "retry_wait"}
               /\ ~retryable => r.status = "failed"
  <1>1. vids[v] \in Rows /\ Attempt(vids[v].attempts) \in Nat
    BY DEF Typed, Rows, Attempt
  <1> QED
    BY <1>1, FailedIs DEF Rows, Pending, Settled

LEMMA RefusalRow ==
    ASSUME Typed, NEW v \in Videos, NEW r \in Refusals(v)
    PROVE  /\ r \in Rows /\ r.home = vids[v].home /\ r.job = vids[v].job
           /\ r.failure = "other" /\ r.status \in {"failed", "retry_wait"}
  <1>1. PICK retryable \in BOOLEAN : r = Failed(v, "other", retryable)
    BY DEF Refusals
  <1> QED
    BY <1>1, FailedRow

LEMMA LeftTyped ==
    ASSUME NEW S, S \subseteq Videos
    PROVE  /\ Left(S) \in [pc : {"off", "idle", "list", "videos"} \cup Stages, video : 0..MaxVideos,
                           due : SUBSET Videos, pages : Nat]
           /\ Left(S).pc \in {"idle", "videos"} /\ Left(S).due = S
  BY ConstantsAssumption DEF Left, Idle, At

LEMMA DueIsVideos == Due(vids) \subseteq Videos /\ Due(vids') \subseteq Videos
  BY ConstantsAssumption DEF Due, Videos

LEMMA NewRunTyped ==
    ASSUME Typed
    PROVE  /\ NewRun \in Runs /\ NewRun.status = "pending" /\ NewRun.token = 0
           /\ NewRun.cutoff = published /\ (NewRun.initial <=> ~chan.done)
  <1>1. /\ NewRun \in Runs /\ NewRun.status = "pending" /\ NewRun.token = 0
        /\ NewRun.cutoff = published /\ NewRun.initial = ~chan.done
    BY ConstantsAssumption DEF NewRun, Typed, Runs, Statuses
  <1>2. NewRun.initial <=> ~chan.done
    BY <1>1, Zenon
  <1> QED
    BY <1>1, <1>2

(* The page that arrives.                                                   *)
LEMMA EligibleTyped ==
    ASSUME Typed, NEW page \in SUBSET Videos
    PROVE  /\ Eligible(page) \subseteq page /\ Cardinality(Eligible(page)) \in Nat
           /\ \A t \in Nat : Next0(t) \in Nat
  <1>1. IsFiniteSet(Videos)
    BY FS_Interval, ConstantsAssumption DEF Videos
  <1>2. Eligible(page) \subseteq page
    BY DEF Eligible, Newest
  <1>3. IsFiniteSet(Eligible(page))
    BY <1>1, <1>2, FS_Subset
  <1>4. \A t \in Nat : Next0(t) \in Nat
    BY ConstantsAssumption DEF Next0, Typed
  <1> QED
    BY <1>2, <1>3, <1>4, FS_CardinalityType

(* One row changes, to q.                                                   *)
Changed(v, q) ==
    /\ vids' \in [Videos -> Rows] /\ vids'[v] = q
    /\ \A w \in Videos \ {v} : vids'[w] = vids[w]

LEMMA ChangedTyped ==
    ASSUME Typed, NEW v \in Videos, NEW q \in Rows, vids' = [vids EXCEPT ![v] = q]
    PROVE  Changed(v, q)
  BY DEF Changed, Typed

LEMMA AddVideoRow ==
    ASSUME Typed, NEW v \in Videos, AddVideo(v)
    PROVE  Changed(v, New("alone", 0))
  <1>1. New("alone", 0) \in Rows
    BY ConstantsAssumption DEF New, Rows, Pending
  <1> QED
    BY <1>1, ChangedTyped DEF AddVideo

LEMMA RetryRow ==
    ASSUME Typed, NEW v \in Videos, Retry(v)
    PROVE  \E q \in Rows : /\ Changed(v, q)
                           /\ q.home = vids[v].home /\ q.failure = "none"
                           /\ q.status \in {"enriching", "pending"}
                           /\ q.job = IF v \in sources THEN vids[v].job ELSE JobKept(v)
  <1>1. vids[v] \in Rows /\ JobKept(v) \in 0..MaxJobs
    BY ConstantsAssumption DEF Typed, Rows, JobKept
  <1>2. CASE v \in sources
    <2> DEFINE a == [vids[v] EXCEPT !.status = "enriching"]
               b == [a EXCEPT !.attempts = 0]
               q == [b EXCEPT !.failure = "none"]
    <2>1. vids' = [vids EXCEPT ![v] = q]
      BY <1>2, Zenon DEF Retry
    <2>2. a = [home |-> vids[v].home, status |-> "enriching", job |-> vids[v].job,
               old |-> vids[v].old, attempts |-> vids[v].attempts, failure |-> vids[v].failure]
      BY <1>1 DEF Rows
    <2> HIDE DEF a
    <2>3. b = [home |-> vids[v].home, status |-> "enriching", job |-> vids[v].job,
               old |-> vids[v].old, attempts |-> 0, failure |-> vids[v].failure]
      BY <2>2
    <2> HIDE DEF b
    <2>4. q = [home |-> vids[v].home, status |-> "enriching", job |-> vids[v].job,
               old |-> vids[v].old, attempts |-> 0, failure |-> "none"]
      BY <2>3
    <2> HIDE DEF q
    <2>5. q \in Rows
      BY <1>1, <2>4 DEF Rows, Pending
    <2>6. Changed(v, q)
      BY <2>1, <2>5, ChangedTyped
    <2> QED
      BY <1>2, <2>4, <2>5, <2>6
  <1>3. CASE v \notin sources
    <2> DEFINE q == New(vids[v].home, JobKept(v))
    <2>1. vids' = [vids EXCEPT ![v] = q]
      BY <1>3, Zenon DEF Retry
    <2>2. q \in Rows
      BY <1>1 DEF New, Rows, Pending
    <2>3. Changed(v, q)
      BY <2>1, <2>2, ChangedTyped
    <2>4. q.home = vids[v].home /\ q.failure = "none" /\ q.status = "pending" /\ q.job = JobKept(v)
      BY DEF New
    <2> HIDE DEF q
    <2> QED
      BY <1>3, <2>2, <2>3, <2>4
  <1> QED
    BY <1>2, <1>3

LEMMA ElapsesRow ==
    ASSUME Typed, NEW v \in Videos, NEW s \in {"retry_due", "transcribing", "enriching"},
           NEW f, f = [vids EXCEPT ![v].status = s]
    PROVE  LET q == [home |-> vids[v].home, status |-> s, job |-> vids[v].job,
                     old |-> vids[v].old, attempts |-> vids[v].attempts,
                     failure |-> vids[v].failure]
           IN  q \in Rows /\ f = [vids EXCEPT ![v] = q] /\ [vids[v] EXCEPT !.status = s] = q
  <1>1. vids[v] \in Rows
    BY DEF Typed
  <1> DEFINE q == [home |-> vids[v].home, status |-> s, job |-> vids[v].job,
                   old |-> vids[v].old, attempts |-> vids[v].attempts,
                   failure |-> vids[v].failure]
             a == [vids[v] EXCEPT !.status = s]
  <1>2. a = q
    BY <1>1 DEF Rows
  <1>3. f = [vids EXCEPT ![v] = a]
    BY Zenon
  <1>4. q \in Rows
    BY <1>1 DEF Rows, Pending
  <1> HIDE DEF a, q
  <1>5. f = [vids EXCEPT ![v] = q]
    BY <1>2, <1>3, Zenon
  <1> QED
    BY <1>2, <1>4, <1>5, Zenon DEF a, q

LEMMA VideoElapsesRow ==
    ASSUME Typed, NEW v \in Videos, VideoElapses(v)
    PROVE  \E q \in Rows : /\ Changed(v, q) /\ q.status = "retry_due" /\ q.home = vids[v].home
                           /\ q.job = vids[v].job /\ q.failure = vids[v].failure
  <1> DEFINE q == [home |-> vids[v].home, status |-> "retry_due", job |-> vids[v].job,
                   old |-> vids[v].old, attempts |-> vids[v].attempts,
                   failure |-> vids[v].failure]
  <1>1. vids' = [vids EXCEPT ![v].status = "retry_due"]
    BY DEF VideoElapses
  <1>2. q \in Rows /\ vids' = [vids EXCEPT ![v] = q]
    BY <1>1, ElapsesRow, Zenon
  <1>3. Changed(v, q)
    BY <1>2, ChangedTyped, Zenon
  <1> QED
    BY <1>2, <1>3

LEMMA SixHoursRow ==
    ASSUME Typed, NEW v \in Videos, SixHours(v)
    PROVE  \E q \in Rows : /\ Changed(v, q) /\ q.status = vids[v].status
                           /\ q.home = vids[v].home /\ q.job = vids[v].job
                           /\ q.failure = vids[v].failure
  <1>1. vids[v] \in Rows
    BY DEF Typed
  <1> DEFINE elapsed == TRUE
             a == [vids[v] EXCEPT !.old = elapsed]
  <1>2. vids' = [vids EXCEPT ![v] = a]
    BY Zenon DEF SixHours
  <1>0. elapsed \in BOOLEAN
    OBVIOUS
  <1> HIDE DEF elapsed
  <1>3. a = [home |-> vids[v].home, status |-> vids[v].status, job |-> vids[v].job,
             old |-> elapsed, attempts |-> vids[v].attempts, failure |-> vids[v].failure]
    BY <1>1 DEF Rows
  <1> HIDE DEF a
  <1>4. a \in Rows
    BY <1>0, <1>1, <1>3 DEF Rows
  <1>5. Changed(v, a)
    BY <1>2, <1>4, ChangedTyped
  <1> QED
    BY <1>3, <1>4, <1>5

LEMMA InsertedRows ==
    ASSUME Typed, NEW S \in SUBSET Videos, vids' = Inserted(S)
    PROVE  /\ vids' \in [Videos -> Rows]
           /\ \A v \in Videos : /\ vids'[v].home = IF v \in S THEN "channel" ELSE vids[v].home
                                /\ v \notin S => vids'[v] = vids[v]
                                /\ vids'[v].status = vids[v].status
                                /\ vids'[v].job = vids[v].job
                                /\ vids'[v].failure = vids[v].failure
  <1>1. \A v \in Videos : Attached(v) = [home |-> "channel", status |-> vids[v].status,
                              job |-> vids[v].job, old |-> vids[v].old,
                              attempts |-> vids[v].attempts, failure |-> vids[v].failure]
    BY DEF Typed, Rows, Attached
  <1>2. \A v \in Videos : Attached(v) \in Rows
    BY <1>1 DEF Typed, Rows
  <1>3. \A v \in Videos : vids'[v] = IF v \in S THEN Attached(v) ELSE vids[v]
    BY DEF Inserted
  <1>4. vids' \in [Videos -> Rows]
    BY <1>2 DEF Inserted, Typed
  <1> QED
    BY <1>1, <1>3, <1>4

LEMMA BegunRow ==
    ASSUME Typed, NEW v \in Videos, v \notin attempts
    PROVE  /\ Begun(v) \in Rows /\ Begun(v).home = vids[v].home /\ Begun(v).job = vids[v].job
           /\ \/ /\ Begun(v).status \in {"transcribing", "enriching"}
                 /\ Begun(v).failure = vids[v].failure
              \/ /\ Begun(v).status = "failed" /\ Begun(v).failure = "timeout"
                 /\ v \notin sources /\ TimedOut(v)
  <1> DEFINE row(s) == [home |-> vids[v].home, status |-> s, job |-> vids[v].job,
                        old |-> vids[v].old, attempts |-> vids[v].attempts,
                        failure |-> vids[v].failure]
  <1>1. \A s \in {"transcribing", "enriching"} :
           row(s) \in Rows /\ [vids[v] EXCEPT !.status = s] = row(s)
    BY ElapsesRow, Zenon
  <1>2. CASE v \in sources
    <2>1. Begun(v) = [vids[v] EXCEPT !.status = "enriching"]
      BY <1>2, Zenon DEF Begun
    <2>2. Begun(v) = row("enriching") /\ Begun(v) \in Rows
      BY <1>1, <2>1, Zenon
    <2> QED
      BY <2>2
  <1>3. CASE v \notin sources /\ TimedOut(v)
    <2>1. Begun(v) = Failed(v, "timeout", FALSE)
      BY <1>3, Zenon DEF Begun
    <2> QED
      BY <1>3, <2>1, FailedRow
  <1>4. CASE v \notin sources /\ ~TimedOut(v)
    <2>1. Begun(v) = [vids[v] EXCEPT !.status = "transcribing"]
      BY <1>4, Zenon DEF Begun
    <2>2. Begun(v) = row("transcribing") /\ Begun(v) \in Rows
      BY <1>1, <2>1, Zenon
    <2> QED
      BY <2>2
  <1> QED
    BY <1>2, <1>3, <1>4

LEMMA SubmittedRow ==
    ASSUME Typed, NEW v \in Videos, NEW j \in JobIds,
           vids' = [vids EXCEPT ![v].job = j, ![v].old = FALSE]
    PROVE  \E q \in Rows : /\ Changed(v, q) /\ q.status = vids[v].status
                           /\ q.home = vids[v].home /\ q.job = j
                           /\ q.failure = vids[v].failure
  <1> DEFINE new == FALSE
             a == [vids[v] EXCEPT !.job = j]
             f == [vids EXCEPT ![v] = a]
             q == [f[v] EXCEPT !.old = new]
  <1>1. vids' = [f EXCEPT ![v] = q]
    BY Zenon
  <1>2. new \in BOOLEAN /\ vids[v] \in Rows
    BY DEF Typed
  <1> HIDE DEF new
  <1>3. a = [home |-> vids[v].home, status |-> vids[v].status, job |-> j,
             old |-> vids[v].old, attempts |-> vids[v].attempts, failure |-> vids[v].failure]
    BY <1>2 DEF Rows
  <1> HIDE DEF a
  <1>4. f[v] = a
    BY DEF Typed
  <1>5. q = [home |-> vids[v].home, status |-> vids[v].status, job |-> j,
             old |-> new, attempts |-> vids[v].attempts, failure |-> vids[v].failure]
    BY <1>3, <1>4
  <1> HIDE DEF q
  <1>6. q \in Rows
    BY <1>2, <1>5, RowFacts DEF Rows
  <1>7. vids' = [vids EXCEPT ![v] = q]
    BY <1>1 DEF Typed
  <1>8. Changed(v, q)
    BY <1>6, <1>7, ChangedTyped
  <1> QED
    BY <1>5, <1>6, <1>8

LEMMA CompletedRow ==
    ASSUME Typed, NEW v \in Videos,
           vids' = [vids EXCEPT ![v].status = "enriching", ![v].attempts = 0]
    PROVE  \E q \in Rows : /\ Changed(v, q) /\ q.status = "enriching"
                           /\ q.home = vids[v].home /\ q.job = vids[v].job
                           /\ q.failure = vids[v].failure
  <1> DEFINE a == [vids[v] EXCEPT !.status = "enriching"]
             f == [vids EXCEPT ![v] = a]
             q == [f[v] EXCEPT !.attempts = 0]
  <1>1. vids' = [f EXCEPT ![v] = q]
    BY Zenon
  <1>2. vids[v] \in Rows
    BY DEF Typed
  <1>3. a = [home |-> vids[v].home, status |-> "enriching", job |-> vids[v].job,
             old |-> vids[v].old, attempts |-> vids[v].attempts, failure |-> vids[v].failure]
    BY <1>2 DEF Rows
  <1> HIDE DEF a
  <1>4. f[v] = a
    BY DEF Typed
  <1>5. q = [home |-> vids[v].home, status |-> "enriching", job |-> vids[v].job,
             old |-> vids[v].old, attempts |-> 0, failure |-> vids[v].failure]
    BY <1>3, <1>4
  <1> HIDE DEF q
  <1>6. q \in Rows
    BY <1>2, <1>5 DEF Rows, Pending
  <1>7. vids' = [vids EXCEPT ![v] = q]
    BY <1>1 DEF Typed
  <1>8. Changed(v, q)
    BY <1>6, <1>7, ChangedTyped
  <1> QED
    BY <1>5, <1>6, <1>8

LEMMA ReadyRow ==
    ASSUME Typed, NEW v \in Videos,
           vids' = [vids EXCEPT ![v].status = "ready", ![v].failure = "none"]
    PROVE  \E q \in Rows : /\ Changed(v, q) /\ q.status = "ready" /\ q.failure = "none"
                           /\ q.home = vids[v].home /\ q.job = vids[v].job
  <1> DEFINE a == [vids[v] EXCEPT !.status = "ready"]
             f == [vids EXCEPT ![v] = a]
             q == [f[v] EXCEPT !.failure = "none"]
  <1>1. vids' = [f EXCEPT ![v] = q]
    BY Zenon
  <1>2. vids[v] \in Rows
    BY DEF Typed
  <1>3. a = [home |-> vids[v].home, status |-> "ready", job |-> vids[v].job,
             old |-> vids[v].old, attempts |-> vids[v].attempts, failure |-> vids[v].failure]
    BY <1>2 DEF Rows
  <1> HIDE DEF a
  <1>4. f[v] = a
    BY DEF Typed
  <1>5. q = [home |-> vids[v].home, status |-> "ready", job |-> vids[v].job,
             old |-> vids[v].old, attempts |-> vids[v].attempts, failure |-> "none"]
    BY <1>3, <1>4
  <1> HIDE DEF q
  <1>6. q \in Rows
    BY <1>2, <1>5 DEF Rows, Settled
  <1>7. vids' = [vids EXCEPT ![v] = q]
    BY <1>1 DEF Typed
  <1>8. Changed(v, q)
    BY <1>6, <1>7, ChangedTyped
  <1> QED
    BY <1>5, <1>6, <1>8

(* The job of a video has failed: the video has none.                       *)
LEMMA JobFailedRow ==
    ASSUME Typed, NEW v \in Videos, NEW r \in Refusals(v),
           vids' = [vids EXCEPT ![v] = [r EXCEPT !.job = 0, !.old = FALSE]]
    PROVE  \E q \in Rows : /\ Changed(v, q) /\ q.status \in {"failed", "retry_wait"}
                           /\ q.home = vids[v].home /\ q.job = 0 /\ q.failure = "other"
  <1> DEFINE new == FALSE
             a == [r EXCEPT !.job = 0]
             q == [a EXCEPT !.old = new]
  <1>1. vids' = [vids EXCEPT ![v] = q]
    BY Zenon
  <1>2. new \in BOOLEAN /\ r \in Rows /\ r.home = vids[v].home /\ r.failure = "other"
        /\ r.status \in {"failed", "retry_wait"}
    BY RefusalRow
  <1> HIDE DEF new
  <1>3. a = [home |-> r.home, status |-> r.status, job |-> 0,
             old |-> r.old, attempts |-> r.attempts, failure |-> r.failure]
    BY <1>2 DEF Rows
  <1> HIDE DEF a
  <1>4. q = [home |-> r.home, status |-> r.status, job |-> 0,
             old |-> new, attempts |-> r.attempts, failure |-> r.failure]
    BY <1>3
  <1> HIDE DEF q
  <1>5. q \in Rows
    BY <1>2, <1>4, ConstantsAssumption DEF Rows
  <1>6. Changed(v, q)
    BY <1>1, <1>5, ChangedTyped
  <1> QED
    BY <1>2, <1>4, <1>5, <1>6

(* The row of the run.                                                      *)
LEMMA RunStatus ==
    ASSUME NEW r \in Runs, NEW s \in Statuses
    PROVE  LET q == [r EXCEPT !.status = s]
           IN  /\ q \in Runs /\ q.status = s /\ q.token = r.token /\ q.cutoff = r.cutoff
               /\ q.initial = r.initial
  <1> DEFINE q == [r EXCEPT !.status = s]
  <1>1. q = [status |-> s, token |-> r.token, cutoff |-> r.cutoff, initial |-> r.initial,
             seen |-> r.seen, attempts |-> r.attempts]
    BY DEF Runs
  <1> HIDE DEF q
  <1>2. /\ q \in Runs /\ q.status = s /\ q.token = r.token /\ q.cutoff = r.cutoff
        /\ q.initial = r.initial
    BY <1>1 DEF Runs
  <1> QED
    BY <1>2, Zenon DEF q

LEMMA ReadRun ==
    ASSUME Typed, NEW n \in Nat
    PROVE  LET q == [run EXCEPT !.seen = @ + n, !.token = Next0(@)]
           IN  /\ q \in Runs /\ q.status = run.status /\ q.token = Next0(run.token)
               /\ q.cutoff = run.cutoff /\ q.initial = run.initial
  <1> DEFINE m == run.seen + n
             t == Next0(run.token)
             a == [run EXCEPT !.seen = m]
             q == [a EXCEPT !.token = t]
  <1>1. m \in Nat /\ t \in Nat /\ run \in Runs
    BY EligibleTyped DEF Typed, Runs
  <1>2. a.token = run.token
    BY <1>1, Zenon DEF Runs
  <1>3. [run EXCEPT !.seen = @ + n, !.token = Next0(@)] = q
    BY <1>2, Zenon
  <1> HIDE DEF m, t
  <1>4. a = [status |-> run.status, token |-> run.token, cutoff |-> run.cutoff,
             initial |-> run.initial, seen |-> m, attempts |-> run.attempts]
    BY <1>1 DEF Runs
  <1> HIDE DEF a
  <1>5. q = [status |-> run.status, token |-> t, cutoff |-> run.cutoff,
             initial |-> run.initial, seen |-> m, attempts |-> run.attempts]
    BY <1>4
  <1> HIDE DEF q
  <1>6. /\ q \in Runs /\ q.status = run.status /\ q.token = t
        /\ q.cutoff = run.cutoff /\ q.initial = run.initial
    BY <1>1, <1>5 DEF Runs
  <1> QED
    BY <1>3, <1>6, Zenon DEF t

LEMMA RetriedRun ==
    ASSUME Typed, NEW n \in Nat
    PROVE  LET q == [run EXCEPT !.status = "retry_wait", !.attempts = n]
           IN  /\ q \in Runs /\ q.status = "retry_wait" /\ q.token = run.token
               /\ q.cutoff = run.cutoff /\ q.initial = run.initial
  <1> DEFINE a == [run EXCEPT !.status = "retry_wait"]
             q == [a EXCEPT !.attempts = n]
  <1>1. run \in Runs
    BY DEF Typed
  <1>2. a = [status |-> "retry_wait", token |-> run.token, cutoff |-> run.cutoff,
             initial |-> run.initial, seen |-> run.seen, attempts |-> run.attempts]
    BY <1>1 DEF Runs
  <1>3. [run EXCEPT !.status = "retry_wait", !.attempts = n] = q
    BY Zenon
  <1> HIDE DEF a
  <1>4. q = [status |-> "retry_wait", token |-> run.token, cutoff |-> run.cutoff,
             initial |-> run.initial, seen |-> run.seen, attempts |-> n]
    BY <1>2
  <1> HIDE DEF q
  <1>5. /\ q \in Runs /\ q.status = "retry_wait" /\ q.token = run.token
        /\ q.cutoff = run.cutoff /\ q.initial = run.initial
    BY <1>1, <1>4 DEF Runs, Statuses
  <1> QED
    BY <1>3, <1>5, Zenon

(* The worker goes on with its video, or with another, or with none.        *)
LEMMA DoingTyped ==
    ASSUME Typed, NEW pc \in Stages, Doing(pc)
    PROVE  /\ worker' \in [pc : {"off", "idle", "list", "videos"} \cup Stages,
                           video : 0..MaxVideos, due : SUBSET Videos, pages : Nat]
           /\ worker'.pc = pc /\ worker'.video = worker.video /\ worker'.due = worker.due
  BY DEF Typed, Doing

LEMMA DoneTyped ==
    ASSUME Typed, NEW v \in Videos, Done(v)
    PROVE  /\ worker' \in [pc : {"off", "idle", "list", "videos"} \cup Stages,
                           video : 0..MaxVideos, due : SUBSET Videos, pages : Nat]
           /\ worker'.pc \in {"idle", "videos"} /\ worker'.due = worker.due \ {v}
           /\ attempts' = attempts \ {v}
  <1>1. worker.due \ {v} \subseteq Videos
    BY DEF Typed
  <1> QED
    BY <1>1, LeftTyped DEF Done

(* What a page does to the collection.                                      *)
LEMMA PageStep ==
    ASSUME Typed, PageArrives
    PROVE  LET page == Page(run.token)
               S    == Eligible(page)
               past == ~run.initial /\ page # {}
                       /\ \A v \in page : v + Overlap <= chan.checkpoint
           IN  /\ worker.pc = "list" /\ S \in SUBSET Videos /\ S \subseteq page
               /\ vids' = Inserted(S)
               /\ UNCHANGED <<published, sources, chunks, attempts, jobs, counts>>
               /\ \/ /\ run' \in Runs /\ run'.token = Next0(run.token)
                     /\ run'.cutoff = run.cutoff /\ run'.initial = run.initial
                     /\ run'.status \in {run.status, "pending"}
                     /\ \/ Down /\ run'.status = run.status
                        \/ Gather(vids') /\ UNCHANGED phase
                        \/ /\ worker' = At("list", 0, {}, worker.pages + 1)
                           /\ run'.status = run.status /\ UNCHANGED phase
                     /\ UNCHANGED <<chan, setup>>
                  \/ /\ run' = NoRun /\ chan' = Collected
                     /\ setup' = IF run.initial THEN run.cutoff ELSE setup
                     /\ Gather(vids') /\ UNCHANGED phase
                     /\ run.initial \/ Next0(run.token) = 0 \/ past
  <1> DEFINE page == Page(run.token)
             S    == Eligible(page)
             n    == Cardinality(S)
             read == [run EXCEPT !.seen = @ + n, !.token = Next0(@)]
             past == ~run.initial /\ page # {} /\ \A v \in page : v + Overlap <= chan.checkpoint
             last == read.token = 0 \/ past \/ (run.initial /\ read.seen >= InitialLimit)
  <1>1. page \in SUBSET Videos
    BY DEF Page
  <1>2. S \subseteq page /\ n \in Nat /\ S \in SUBSET Videos
    BY <1>1, EligibleTyped
  <1>3. /\ worker.pc = "list" /\ vids' = Inserted(S)
        /\ \/ run' = read /\ Down /\ UNCHANGED <<chan, setup>>
           \/ /\ last /\ run' = NoRun
              /\ chan' = Collected /\ setup' = IF run.initial THEN run.cutoff ELSE setup
              /\ Gather(vids') /\ UNCHANGED phase
           \/ /\ run' = [read EXCEPT !.status = "pending"]
              /\ Gather(vids') /\ UNCHANGED <<chan, setup, phase>>
           \/ /\ run' = read /\ worker' = At("list", 0, {}, worker.pages + 1)
              /\ UNCHANGED <<chan, setup, phase>>
        /\ UNCHANGED <<published, sources, chunks, attempts, jobs, counts>>
    BY Zenon DEF PageArrives
  <1>4. /\ read \in Runs /\ read.status = run.status /\ read.token = Next0(run.token)
        /\ read.cutoff = run.cutoff /\ read.initial = run.initial
    <2> HIDE DEF n
    <2> QED
      BY <1>2, ReadRun, Zenon
  <1> HIDE DEF read, n
  <1>5. LET q == [read EXCEPT !.status = "pending"]
        IN  /\ q \in Runs /\ q.status = "pending" /\ q.token = read.token
            /\ q.cutoff = read.cutoff /\ q.initial = read.initial
    <2>1. "pending" \in Statuses
      BY DEF Statuses
    <2> QED
      BY <1>4, <2>1, RunStatus
  <1> HIDE DEF S, page
  <1>6. CASE run' = read /\ Down /\ UNCHANGED <<chan, setup>>
    BY <1>2, <1>3, <1>4, <1>6, Zenon DEF S, page
  <1>7. CASE /\ last /\ run' = NoRun
             /\ chan' = Collected /\ setup' = IF run.initial THEN run.cutoff ELSE setup
             /\ Gather(vids') /\ UNCHANGED phase
    <2>1. run.initial \/ Next0(run.token) = 0 \/ past
      BY <1>4, <1>7, Zenon
    <2> QED
      BY <1>2, <1>3, <1>7, <2>1, Zenon DEF S, page
  <1>8. CASE /\ run' = [read EXCEPT !.status = "pending"]
             /\ Gather(vids') /\ UNCHANGED <<chan, setup, phase>>
    <2> DEFINE q == [read EXCEPT !.status = "pending"]
    <2>1. /\ q \in Runs /\ q.status = "pending" /\ q.token = Next0(run.token)
          /\ q.cutoff = run.cutoff /\ q.initial = run.initial
      BY <1>4, <1>5, Zenon
    <2>2. run' = q
      BY <1>8, Zenon
    <2> HIDE DEF q
    <2>3. /\ run' \in Runs /\ run'.status = "pending" /\ run'.token = Next0(run.token)
          /\ run'.cutoff = run.cutoff /\ run'.initial = run.initial
      BY <2>1, <2>2
    <2> QED
      BY <1>2, <1>3, <1>8, <2>3, Zenon DEF S, page
  <1>9. CASE /\ run' = read /\ worker' = At("list", 0, {}, worker.pages + 1)
             /\ UNCHANGED <<chan, setup, phase>>
    BY <1>2, <1>3, <1>4, <1>9, Zenon DEF S, page
  <1> QED
    BY <1>3, <1>6, <1>7, <1>8, <1>9

WorkerRecord ==
    [pc : {"off", "idle", "list", "videos"} \cup Stages, video : 0..MaxVideos,
     due : SUBSET Videos, pages : Nat]
JobRecord == [video : 0..MaxVideos, status : {"none", "queued", "completed", "failed"}]

LEMMA OffTyped == Off \in WorkerRecord /\ Idle \in WorkerRecord
  BY ConstantsAssumption DEF Off, Idle, At, WorkerRecord

LEMMA AtTyped ==
    ASSUME NEW pc \in {"list"} \cup Stages, NEW v \in 0..MaxVideos, NEW S \in SUBSET Videos,
           NEW n \in Nat
    PROVE  /\ At(pc, v, S, n) \in WorkerRecord
           /\ At(pc, v, S, n).pc = pc /\ At(pc, v, S, n).video = v /\ At(pc, v, S, n).due = S
  BY DEF At, WorkerRecord

LEMMA GatherTyped ==
    /\ Gather(vids) => worker' \in WorkerRecord /\ worker'.pc \in {"idle", "videos"}
                       /\ worker'.due = Due(vids)
    /\ Gather(vids') => worker' \in WorkerRecord /\ worker'.pc \in {"idle", "videos"}
                        /\ worker'.due = Due(vids')
  BY DueIsVideos, LeftTyped DEF Gather, WorkerRecord

LEMMA FaultTyped ==
    ASSUME Typed, Fault
    PROVE  /\ faults' = faults + 1 /\ UNCHANGED <<enqueued, lives, retries>>
           /\ faults' \in Nat /\ enqueued' \in Nat /\ lives' \in Nat /\ retries' \in Nat
  BY DEF Typed, Fault

LEMMA WorkerVideo ==
    ASSUME Typed, WorkerInv, worker.pc \in Stages
    PROVE  worker.video \in Videos /\ worker.video \in worker.due /\ phase # "down"
  BY DEF Typed, WorkerInv, Stages

LEMMA NewJobTyped ==
    ASSUME Typed, NEW j \in JobIds, NewJob(j), worker.video \in Videos
    PROVE  /\ jobs' \in [JobIds -> JobRecord]
           /\ jobs'[j] = [video |-> worker.video, status |-> "queued"]
           /\ \A i \in JobIds \ {j} : jobs'[i] = jobs[i]
  BY ConstantsAssumption DEF Typed, NewJob, JobRecord, Videos

LEMMA FailVideoTyped ==
    ASSUME Typed, worker.video \in Videos, NEW r \in Refusals(worker.video), FailVideo(r)
    PROVE  /\ Changed(worker.video, r) /\ r \in Rows /\ worker' \in WorkerRecord
           /\ worker'.pc \in {"idle", "videos"} /\ worker'.due = worker.due \ {worker.video}
           /\ attempts' = attempts \ {worker.video}
  <1>1. r \in Rows
    BY RefusalRow
  <1>2. Changed(worker.video, r)
    BY <1>1, ChangedTyped DEF FailVideo
  <1> QED
    BY <1>1, <1>2, DoneTyped DEF FailVideo, WorkerRecord

----------------------------------------------------------------------------
(* The steps of the worker on a video, by what they change.                 *)
LEMMA BeginStep ==
    ASSUME Typed, WorkerInv, Begin
    PROVE  \E v \in worker.due :
             /\ worker.pc = "videos" /\ phase = "up" /\ v \in Videos /\ Changed(v, Begun(v))
             /\ Begun(v) \in Rows /\ Begun(v).home = vids[v].home /\ Begun(v).job = vids[v].job
             /\ \/ /\ Begun(v).status \in {"transcribing", "enriching"}
                   /\ Begun(v).failure = vids[v].failure
                   /\ attempts' = {v} /\ worker'.pc \in Stages /\ worker'.video = v
                   /\ worker'.due = worker.due
                   /\ worker'.pc = "submit" => vids[v].job = 0
                   /\ worker'.pc = "poll" => vids[v].job # 0
                \/ /\ Begun(v).status = "failed" /\ Begun(v).failure = "timeout"
                   /\ TimedOut(v) /\ attempts' = {} /\ worker'.pc \in {"idle", "videos"}
                   /\ worker'.due = worker.due \ {v}
             /\ worker' \in WorkerRecord
             /\ UNCHANGED <<published, chan, setup, run, sources, chunks, jobs, phase, counts>>
  <1>1. PICK v \in worker.due :
           LET pc == CASE v \in sources -> "enrich"
                       [] v \notin sources /\ vids[v].job = 0 -> "submit"
                       [] OTHER -> "poll"
           IN  /\ vids' = [vids EXCEPT ![v] = Begun(v)]
               /\ IF vids'[v].status \in {"failed", "retry_wait"}
                  THEN worker' = Left(worker.due \ {v}) /\ UNCHANGED attempts
                  ELSE worker' = At(pc, v, worker.due, 0) /\ attempts' = attempts \cup {v}
    BY DEF Begin
  <1>2. /\ worker.pc = "videos" /\ phase = "up" /\ attempts = {} /\ v \in Videos
        /\ worker.due \subseteq Videos /\ worker.due \ {v} \subseteq Videos
        /\ UNCHANGED <<published, chan, setup, run, sources, chunks, jobs, phase, counts>>
    BY DEF Begin, Typed, WorkerInv, Stages
  <1>3. /\ Begun(v) \in Rows /\ Begun(v).home = vids[v].home /\ Begun(v).job = vids[v].job
        /\ \/ /\ Begun(v).status \in {"transcribing", "enriching"}
              /\ Begun(v).failure = vids[v].failure
           \/ /\ Begun(v).status = "failed" /\ Begun(v).failure = "timeout"
              /\ v \notin sources /\ TimedOut(v)
    BY <1>2, BegunRow
  <1>4. Changed(v, Begun(v)) /\ vids'[v] = Begun(v)
    BY <1>1, <1>2, <1>3, ChangedTyped DEF Changed
  <1>5. CASE Begun(v).status \in {"transcribing", "enriching"}
    <2>1. PICK pc \in Stages : /\ worker' = At(pc, v, worker.due, 0)
                               /\ pc = "submit" => vids[v].job = 0
                               /\ pc = "poll" => vids[v].job # 0
      BY <1>1, <1>4, <1>5 DEF Stages
    <2>2. attempts' = {v}
      BY <1>1, <1>2, <1>4, <1>5
    <2>3. v \in 0..MaxVideos
      BY <1>2 DEF Videos
    <2>4. worker' \in WorkerRecord /\ worker'.pc = pc /\ worker'.video = v
          /\ worker'.due = worker.due
      <3>1. pc \in {"list"} \cup Stages /\ worker.due \in SUBSET Videos /\ 0 \in Nat
        BY <1>2, <2>1
      <3>2. LET w == At(pc, v, worker.due, 0)
            IN  w \in WorkerRecord /\ w.pc = pc /\ w.video = v /\ w.due = worker.due
        BY <2>3, <3>1, AtTyped
      <3> QED
        BY <2>1, <3>2, Zenon
    <2> QED
      BY <1>2, <1>3, <1>4, <1>5, <2>1, <2>2, <2>4
  <1>6. CASE Begun(v).status = "failed"
    <2>1. worker' = Left(worker.due \ {v}) /\ attempts' = {}
      BY <1>1, <1>2, <1>4, <1>6
    <2>2. worker' \in WorkerRecord /\ worker'.pc \in {"idle", "videos"}
          /\ worker'.due = worker.due \ {v}
      BY <1>2, <2>1, LeftTyped DEF WorkerRecord
    <2> QED
      BY <1>2, <1>3, <1>4, <1>6, <2>1, <2>2
  <1> QED
    BY <1>3, <1>5, <1>6

LEMMA EnrichingTyped ==
    ASSUME Typed, NEW v \in Videos, NEW n, Enriching(v, n)
    PROVE  /\ worker' \in WorkerRecord
           /\ \/ /\ worker'.pc = "enrich" /\ worker'.video = worker.video
                 /\ worker'.due = worker.due /\ attempts' = attempts
              \/ /\ worker'.pc \in {"idle", "videos"} /\ worker'.due = worker.due \ {v}
                 /\ attempts' = attempts \ {v}
  BY DoneTyped, DoingTyped DEF Enriching, Stages, WorkerRecord

LEMMA PollStep ==
    ASSUME Typed, WorkerInv, Poll
    PROVE  LET v == worker.video
               released == /\ worker'.pc \in {"idle", "videos"} /\ worker'.due = worker.due \ {v}
                           /\ attempts' = attempts \ {v}
           IN  /\ worker.pc = "poll" /\ v \in Videos /\ vids[v].job \in JobIds
               /\ worker' \in WorkerRecord
               /\ \/ UNCHANGED <<vids, sources>> /\ released
                  \/ /\ jobs[vids[v].job].status = "failed" /\ UNCHANGED sources /\ released
                     /\ \E q \in Rows : /\ Changed(v, q) /\ q.status \in {"failed", "retry_wait"}
                                        /\ q.home = vids[v].home /\ q.job = 0
                                        /\ q.failure = "other"
                  \/ /\ sources' = sources \cup {v}
                     /\ \E q \in Rows : /\ Changed(v, q) /\ q.status = "enriching"
                                        /\ q.home = vids[v].home /\ q.job = vids[v].job
                                        /\ q.failure = vids[v].failure
                     /\ \/ released
                        \/ /\ worker'.pc = "enrich" /\ worker'.video = v
                           /\ worker'.due = worker.due /\ attempts' = attempts
               /\ UNCHANGED <<published, chan, setup, run, chunks, jobs, phase, counts>>
  <1> DEFINE v == worker.video
             j == jobs[vids[v].job]
             released == /\ worker'.pc \in {"idle", "videos"} /\ worker'.due = worker.due \ {v}
                         /\ attempts' = attempts \ {v}
  <1>1. worker.pc = "poll"
        /\ UNCHANGED <<published, chan, setup, run, chunks, jobs, phase, counts>>
    BY DEF Poll
  <1>2. v \in Videos
    BY <1>1, WorkerVideo DEF Stages
  <1>3. vids[v].job \in JobIds
    BY <1>1, <1>2, ConstantsAssumption DEF WorkerInv, Typed, Rows, JobIds
  <1>4. \/ j.status = "queued" /\ Done(v) /\ UNCHANGED <<vids, sources>>
        \/ /\ j.status = "failed" /\ UNCHANGED sources
           /\ \E r \in Refusals(v) : FailVideo([r EXCEPT !.job = 0, !.old = FALSE])
        \/ /\ sources' = sources \cup {v}
           /\ vids' = [vids EXCEPT ![v].status = "enriching", ![v].attempts = 0]
           /\ Enriching(v, chunks[v])
    BY Zenon DEF Poll
  <1>5. Done(v) => worker' \in WorkerRecord /\ released
    BY <1>2, DoneTyped DEF WorkerRecord
  <1> HIDE DEF v, j, released
  <1>6. CASE j.status = "queued" /\ Done(v) /\ UNCHANGED <<vids, sources>>
    BY <1>1, <1>2, <1>3, <1>5, <1>6, Zenon DEF v, j, released
  <1>7. CASE /\ j.status = "failed" /\ UNCHANGED sources
             /\ \E r \in Refusals(v) : FailVideo([r EXCEPT !.job = 0, !.old = FALSE])
    <2>1. PICK r \in Refusals(v) : FailVideo([r EXCEPT !.job = 0, !.old = FALSE])
      BY <1>7
    <2>2. vids' = [vids EXCEPT ![v] = [r EXCEPT !.job = 0, !.old = FALSE]] /\ Done(v)
      BY <2>1, Zenon DEF FailVideo, v
    <2>3. \E q \in Rows : /\ Changed(v, q) /\ q.status \in {"failed", "retry_wait"}
                          /\ q.home = vids[v].home /\ q.job = 0 /\ q.failure = "other"
      BY <1>2, <2>2, JobFailedRow
    <2> QED
      BY <1>1, <1>2, <1>3, <1>5, <1>7, <2>2, <2>3, Zenon DEF v, j, released
  <1>8. CASE /\ sources' = sources \cup {v}
             /\ vids' = [vids EXCEPT ![v].status = "enriching", ![v].attempts = 0]
             /\ Enriching(v, chunks[v])
    <2>1. \E q \in Rows : /\ Changed(v, q) /\ q.status = "enriching"
                          /\ q.home = vids[v].home /\ q.job = vids[v].job
                          /\ q.failure = vids[v].failure
      BY <1>2, <1>8, CompletedRow, Zenon
    <2>2. /\ worker' \in WorkerRecord
          /\ \/ released
             \/ /\ worker'.pc = "enrich" /\ worker'.video = v
                /\ worker'.due = worker.due /\ attempts' = attempts
      BY <1>2, <1>8, EnrichingTyped, Zenon DEF v, released
    <2> QED
      BY <1>1, <1>2, <1>3, <1>8, <2>1, <2>2, Zenon DEF v, j, released
  <1> QED
    BY <1>4, <1>6, <1>7, <1>8

----------------------------------------------------------------------------
LibraryInv == Typed /\ WorkerInv /\ CollectInv /\ CauseInv /\ CountInv
ReadyStays == \A v \in Videos : vids[v].status = "ready" => vids'[v].status = "ready"

(* The invariants over steps that are not about them.                       *)
LEMMA CollectKept ==
    ASSUME CollectInv, UNCHANGED <<published, chan, setup>>,
           run'.status = "none" <=> run' = NoRun, worker'.pc = "list" => RunActive',
           RunActive' => /\ RunActive /\ run'.token = run.token /\ run'.cutoff = run.cutoff
                         /\ run'.initial = run.initial,
           \A v \in Videos : vids[v].home = "channel" => vids'[v].home = "channel"
    PROVE  CollectInv'
  <1>1. RunActive' => run'.cutoff <= published' /\ (run'.initial <=> ~chan'.done)
    <2> SUFFICES ASSUME RunActive' PROVE run'.cutoff <= published' /\ (run'.initial <=> ~chan'.done)
      OBVIOUS
    <2>1. run.cutoff <= published /\ (run.initial <=> ~chan.done)
      BY Zenon DEF CollectInv
    <2> QED
      BY <2>1, Zenon
  <1>2. ~chan'.done => chan'.checkpoint = 0
    BY Zenon DEF CollectInv
  <1>3. NothingMissed'
    BY DEF CollectInv, NothingMissed
  <1>4. RunActive' /\ ~run'.initial => \A v \in Videos :
          /\ setup' < v /\ v <= run'.cutoff
          /\ v + run'.token > published' /\ v + Overlap > chan'.checkpoint
          => vids'[v].home = "channel"
    <2> SUFFICES ASSUME RunActive', ~run'.initial, NEW v \in Videos,
                        setup' < v /\ v <= run'.cutoff,
                        v + run'.token > published' /\ v + Overlap > chan'.checkpoint
                 PROVE  vids'[v].home = "channel"
      OBVIOUS
    <2>1. RunActive /\ ~run.initial
      BY Zenon
    <2>2. /\ setup < v /\ v <= run.cutoff
          /\ v + run.token > published /\ v + Overlap > chan.checkpoint
      OBVIOUS
    <2>3. vids[v].home = "channel"
      BY <2>1, <2>2 DEF CollectInv
    <2> QED
      BY <2>3
  <1> QED
    BY <1>1, <1>2, <1>3, <1>4, Zenon DEF CollectInv

LEMMA CollectStays ==
    ASSUME CollectInv, UNCHANGED <<published, chan, setup, run>>,
           worker'.pc = "list" => worker.pc = "list",
           \A v \in Videos : vids[v].home = "channel" => vids'[v].home = "channel"
    PROVE  CollectInv'
  <1>1. /\ run'.status = "none" <=> run' = NoRun
        /\ worker'.pc = "list" => RunActive'
        /\ RunActive' <=> RunActive
    BY Zenon DEF CollectInv, RunActive
  <1> QED
    BY <1>1, CollectKept

LEMMA CauseKept ==
    ASSUME CauseInv, faults' = 0 => faults = 0,
           \A v \in Videos : \/ /\ vids'[v].status = vids[v].status
                                /\ vids'[v].failure = vids[v].failure
                             \/ vids'[v].status \notin {"retry_wait", "retry_due", "failed"}
                             \/ vids'[v].failure = "timeout" \/ faults' # 0
                             \/ /\ vids[v].status \in {"retry_wait", "retry_due", "failed"}
                                /\ vids'[v].failure = vids[v].failure,
           \A j \in JobIds : jobs'[j].status = "failed" => jobs[j].status = "failed" \/ faults' # 0
    PROVE  CauseInv'
  BY DEF CauseInv, FailureHasCause

LEMMA JobsCounted ==
    ASSUME NEW v
    PROVE  /\ JobsOf(v) \subseteq JobIds /\ IsFiniteSet(JobsOf(v))
           /\ Cardinality(JobsOf(v)) \in Nat
  <1>1. IsFiniteSet(JobIds) /\ JobsOf(v) \subseteq JobIds
    BY FS_Interval, ConstantsAssumption DEF JobIds, JobsOf
  <1>2. IsFiniteSet(JobsOf(v))
    BY <1>1, FS_Subset
  <1> QED
    BY <1>1, <1>2, FS_CardinalityType

LEMMA SumTyped ==
    ASSUME NEW a \in Nat, NEW b \in Nat
    PROVE  a + b \in Nat
  OBVIOUS

LEMMA CountKept ==
    ASSUME Typed, CountInv, lives' \in Nat, faults' \in Nat, lives' + faults' >= lives + faults,
           \A j \in JobIds : jobs'[j].video = jobs[j].video,
           \A v \in Videos : vids'[v].job = vids[v].job \/ vids'[v].job = 0,
           \A v \in Videos : Owed(v)' => Owed(v) \/ lives' + faults' > lives + faults
    PROVE  CountInv'
  <1>0. lives \in Nat /\ faults \in Nat
    BY DEF Typed
  <1> DEFINE n == [v \in Videos |-> Cardinality(JobsOf(v))]
             m == [v \in Videos |-> Cardinality(JobsOf(v)')]
             k == lives + faults
             l == lives' + faults'
  <1>1. \A v \in Videos : JobsOf(v)' = JobsOf(v)
    BY DEF JobsOf
  <1>2. m = n
    BY <1>1
  <1>3. k \in Nat /\ l \in Nat /\ l >= k
    BY <1>0, SumTyped, Zenon
  <1>4. \A v \in Videos : n[v] \in Nat /\ n[v] <= k /\ (Owed(v) => n[v] < k)
    BY JobsCounted DEF CountInv, SubmittedOnce
  <1>5. \A v \in Videos : vids'[v].job # 0 => jobs'[vids'[v].job].video = v
    <2> SUFFICES ASSUME NEW v \in Videos, vids'[v].job # 0
                 PROVE  jobs'[vids'[v].job].video = v
      OBVIOUS
    <2>0. vids'[v].job = vids[v].job /\ vids[v].job \in 0..MaxJobs
      BY DEF Typed, Rows
    <2>1. vids'[v].job = vids[v].job /\ vids[v].job \in JobIds
      BY <2>0, ConstantsAssumption DEF JobIds
    <2>2. jobs'[vids[v].job].video = jobs[vids[v].job].video
      BY <2>1
    <2>3. jobs[vids[v].job].video = v
      BY <2>1 DEF CountInv
    <2> QED
      BY <2>1, <2>2, <2>3
  <1>6. \A v \in Videos : Owed(v)' => Owed(v) \/ l > k
    OBVIOUS
  <1>7. \A v \in Videos : Cardinality(JobsOf(v)') = m[v]
    OBVIOUS
  <1> HIDE DEF n, m, k, l
  <1>8. \A v \in Videos : m[v] <= l /\ (Owed(v)' => m[v] < l)
    BY <1>2, <1>3, <1>4, <1>6
  <1>9. \A v \in Videos : Cardinality(JobsOf(v)') <= l /\ (Owed(v)' => Cardinality(JobsOf(v)') < l)
    BY <1>7, <1>8
  <1>10. SubmittedOnce'
    BY <1>9 DEF SubmittedOnce, l
  <1> QED
    BY <1>5, <1>9, <1>10 DEF CountInv, l

(* A step that leaves videos, jobs and the counts alone.                    *)
LEMMA VideosKept ==
    ASSUME LibraryInv, UNCHANGED <<vids, jobs, faults, lives>>, phase' # "down" => phase # "down"
    PROVE  CauseInv' /\ CountInv' /\ ReadyStays
  <1>1. CauseInv'
    BY CauseKept DEF LibraryInv
  <1>2. \A v \in Videos : Owed(v)' => Owed(v)
    BY DEF Owed
  <1>3. CountInv'
    BY <1>2, CountKept DEF LibraryInv, Typed
  <1> QED
    BY <1>1, <1>3 DEF ReadyStays

----------------------------------------------------------------------------
(* One lemma for each step.                                                 *)
LEMMA StartSafe == LibraryInv /\ Start => LibraryInv' /\ ReadyStays
  <1> SUFFICES ASSUME LibraryInv, Start PROVE LibraryInv' /\ ReadyStays
    OBVIOUS
  <1>1. /\ phase = "down" /\ phase' = "up" /\ worker' = Idle /\ lives' = lives + 1
        /\ attempts' = {}
        /\ UNCHANGED <<published, chan, setup, vids, sources, chunks, jobs, enqueued, faults,
                       retries>>
    BY DEF Start, AttemptsRecovered
  <1>2. /\ run' \in Runs /\ run'.token = run.token /\ run'.cutoff = run.cutoff
        /\ run'.initial = run.initial /\ (run'.status = "none" <=> run.status = "none")
        /\ run.status = "none" => run' = run
    <2>1. CASE run.status = "processing"
      <3>1. run' = [run EXCEPT !.status = "pending"]
        BY <2>1 DEF Start
      <3>2. run \in Runs /\ "pending" \in Statuses
        BY DEF LibraryInv, Typed, Statuses
      <3> QED
        BY <2>1, <3>1, <3>2, RunStatus
    <2>2. CASE run.status # "processing"
      BY <2>2 DEF Start, LibraryInv, Typed
    <2> QED
      BY <2>1, <2>2
  <1>3. Idle.pc = "idle" /\ Idle \in WorkerRecord
    BY OffTyped DEF Idle, At
  <1>4. Typed'
    BY <1>1, <1>2, <1>3 DEF LibraryInv, Typed, WorkerRecord
  <1>5. WorkerInv'
    BY <1>1, <1>3 DEF LibraryInv, WorkerInv, Stages
  <1>6. CollectInv'
    <2>1. run.status = "none" <=> run = NoRun
      BY Zenon DEF LibraryInv, CollectInv
    <2>2. NoRun.status = "none"
      BY DEF NoRun
    <2>3. run'.status = "none" <=> run' = NoRun
      BY <1>2, <2>1, <2>2, Zenon
    <2>4. RunActive' => RunActive
      BY <1>2, <2>1, <2>3, Zenon DEF RunActive
    <2>5. worker'.pc # "list"
      BY <1>1, <1>3
    <2> QED
      BY <1>1, <1>2, <2>3, <2>4, <2>5, CollectKept DEF LibraryInv
  <1>7. CauseInv'
    BY <1>1, CauseKept DEF LibraryInv
  <1>8. CountInv'
    <2>1. lives' + faults' > lives + faults /\ lives' \in Nat /\ faults' \in Nat
      BY <1>1 DEF LibraryInv, Typed
    <2>2. Typed /\ CountInv
      BY DEF LibraryInv
    <2>3. /\ \A j \in JobIds : jobs'[j].video = jobs[j].video
          /\ \A v \in Videos : vids'[v].job = vids[v].job \/ vids'[v].job = 0
      BY <1>1
    <2>4. lives' + faults' >= lives + faults
          /\ \A v \in Videos : Owed(v)' => Owed(v) \/ lives' + faults' > lives + faults
      <3>1. lives \in Nat /\ faults \in Nat
        BY DEF LibraryInv, Typed
      <3>2. lives' + faults' >= lives + faults
        BY <1>1, <3>1
      <3> QED
        BY <2>1, <3>2
    <2> QED
      BY <2>1, <2>2, <2>3, <2>4, CountKept
  <1> QED
    BY <1>1, <1>4, <1>5, <1>6, <1>7, <1>8 DEF LibraryInv, ReadyStays

LEMMA PhaseSafe ==
    ASSUME LibraryInv, Crash \/ Stop \/ Exit
    PROVE  LibraryInv' /\ ReadyStays
  <1>1. UNCHANGED <<published, chan, setup, run, vids, sources, chunks, attempts, jobs,
                    enqueued, faults, lives, retries>>
    BY DEF Crash, Stop, Exit, library, counts
  <1>2. \/ phase' = "down" /\ worker' = Off
        \/ phase = "up" /\ phase' = "stopping" /\ worker' = worker
    BY DEF Crash, Stop, Exit, Down
  <1>3. Off.pc = "off" /\ Off \in WorkerRecord
    BY OffTyped DEF Off, At
  <1>4. Typed'
    BY <1>1, <1>2, <1>3 DEF LibraryInv, Typed, WorkerRecord
  <1>5. WorkerInv'
    BY <1>1, <1>2, <1>3 DEF LibraryInv, WorkerInv, Stages
  <1>6. CollectInv'
    BY <1>1, <1>2, <1>3, CollectStays DEF LibraryInv
  <1>7. CauseInv' /\ CountInv' /\ ReadyStays
    BY <1>1, <1>2, VideosKept
  <1> QED
    BY <1>4, <1>5, <1>6, <1>7 DEF LibraryInv

(* A collection that begins has nothing to show yet.                        *)
LEMMA NewCollection ==
    ASSUME LibraryInv, UNCHANGED <<published, setup, vids>>,
           run' \in Runs, run'.status # "none", run'.token = 0, run'.cutoff = published,
           run'.initial <=> ~chan.done, chan'.done = chan.done, chan'.checkpoint = chan.checkpoint
    PROVE  CollectInv'
  <1>1. RunActive' /\ run' # NoRun
    BY DEF NoRun, RunActive
  <1>2. \A v \in Videos : ~(v <= run'.cutoff /\ v + run'.token > published')
    BY RowFacts DEF LibraryInv, Typed
  <1>3. run'.cutoff <= published'
    BY DEF LibraryInv, Typed
  <1>4. run'.initial <=> ~chan'.done
    BY Zenon
  <1>5. ~chan'.done => chan'.checkpoint = 0
    BY Zenon DEF LibraryInv, CollectInv
  <1>6. NothingMissed'
    BY DEF LibraryInv, CollectInv, NothingMissed
  <1>7. run'.status = "none" <=> run' = NoRun
    BY <1>1
  <1> QED
    BY <1>1, <1>2, <1>3, <1>4, <1>5, <1>6, <1>7, Zenon DEF CollectInv

LEMMA OwnerCollects ==
    ASSUME LibraryInv, AddChannel \/ Sync
    PROVE  LibraryInv' /\ ReadyStays
  <1>1. /\ run' = NewRun /\ enqueued' = enqueued + 1
        /\ UNCHANGED <<published, setup, vids, sources, chunks, attempts, jobs, worker, phase,
                       faults, lives, retries>>
    BY DEF AddChannel, Sync
  <1>2. /\ NewRun \in Runs /\ NewRun.status = "pending" /\ NewRun.token = 0
        /\ NewRun.cutoff = published /\ (NewRun.initial <=> ~chan.done)
    BY NewRunTyped DEF LibraryInv
  <1>3. /\ chan' \in [known : BOOLEAN, done : BOOLEAN, checkpoint : Nat]
        /\ chan'.done = chan.done /\ chan'.checkpoint = chan.checkpoint
    <2>1. chan' = [chan EXCEPT !.known = TRUE] \/ chan' = chan
      BY DEF AddChannel, Sync
    <2> QED
      BY <2>1 DEF LibraryInv, Typed
  <1>4. Typed'
    BY <1>1, <1>2, <1>3 DEF LibraryInv, Typed
  <1>5. WorkerInv'
    BY <1>1 DEF LibraryInv, WorkerInv
  <1>6. CollectInv'
    BY <1>1, <1>2, <1>3, NewCollection
  <1>7. CauseInv' /\ CountInv' /\ ReadyStays
    BY <1>1, VideosKept
  <1> QED
    BY <1>4, <1>5, <1>6, <1>7 DEF LibraryInv

----------------------------------------------------------------------------
(* One row changes while the worker stays where it is.                      *)
Waiting == {"retry_wait", "retry_due", "failed"}

LEMMA RowSafe ==
    ASSUME LibraryInv, NEW v \in Videos, NEW q \in Rows, Changed(v, q),
           UNCHANGED <<published, chan, setup, run, sources, chunks, attempts, jobs, worker,
                       phase, enqueued, faults, lives>>,
           retries' \in Nat,
           q.home # "none", vids[v].home = "channel" => q.home = "channel",
           \/ vids[v].home = "none" \/ vids[v].status \notin Pending
           \/ (q.status \in Pending /\ q.job = vids[v].job),
           \/ q.status \notin Waiting
           \/ vids[v].status \in Waiting /\ q.failure = vids[v].failure,
           q.job = vids[v].job \/ (q.job = 0 /\ Owed(v)),
           q.status = "failed" => vids[v].status = "failed" /\ q.failure = vids[v].failure,
           vids[v].status = "ready" => q.status = "ready"
    PROVE  LibraryInv' /\ ReadyStays
  <1>1. vids' \in [Videos -> Rows] /\ vids'[v] = q /\ \A w \in Videos \ {v} : vids'[w] = vids[w]
    BY DEF Changed
  <1>2. Typed'
    BY <1>1 DEF LibraryInv, Typed
  <1>3. WorkerInv'
    <2>1. \A w \in worker.due : worker.pc \in {"videos"} \cup Stages =>
             /\ w \in Videos /\ vids[w].status \in Pending /\ vids[w].home # "none"
             /\ vids'[w].status \in Pending /\ vids'[w].home # "none" /\ vids'[w].job = vids[w].job
      BY <1>1 DEF LibraryInv, WorkerInv, Typed
    <2>2. worker.pc \in Stages => worker.video \in worker.due
      BY DEF LibraryInv, WorkerInv
    <2>3. \A w \in Videos : vids'[w].home = "none" => vids'[w] = Unknown
      BY <1>1 DEF LibraryInv, WorkerInv
    <2> QED
      BY <2>1, <2>2, <2>3 DEF LibraryInv, WorkerInv, Stages
  <1>4. CollectInv'
    BY <1>1, CollectStays DEF LibraryInv
  <1>5. CauseInv'
    BY <1>1, CauseKept DEF LibraryInv, Waiting
  <1>6. CountInv'
    <2>1. \A w \in Videos : vids'[w].job = vids[w].job \/ vids'[w].job = 0
      BY <1>1
    <2>2. \A w \in Videos : Owed(w)' => Owed(w)
      <3>1. Owed(v)' => Owed(v)
        BY <1>1 DEF Owed
      <3>2. \A w \in Videos \ {v} : Owed(w)' => Owed(w)
        BY <1>1 DEF Owed
      <3> QED
        BY <3>1, <3>2
    <2>3. lives \in Nat /\ faults \in Nat /\ Typed /\ CountInv
      BY DEF LibraryInv, Typed
    <2> QED
      BY <2>1, <2>2, <2>3, CountKept
  <1>7. ReadyStays
    BY <1>1 DEF ReadyStays
  <1> QED
    BY <1>2, <1>3, <1>4, <1>5, <1>6, <1>7 DEF LibraryInv

LEMMA KnownRow ==
    ASSUME LibraryInv, NEW v \in Videos, vids[v].status # "pending" \/ vids[v].job # 0
    PROVE  vids[v].home # "none"
  BY DEF LibraryInv, WorkerInv, Unknown, New

LEMMA AddVideoSafe ==
    ASSUME LibraryInv, NEW v \in Videos, AddVideo(v)
    PROVE  LibraryInv' /\ ReadyStays
  <1> DEFINE q == New("alone", 0)
  <1>1. q \in Rows /\ q.home = "alone" /\ q.status = "pending" /\ q.job = 0
    BY ConstantsAssumption DEF New, Rows, Pending
  <1>2. Changed(v, q)
    BY AddVideoRow DEF LibraryInv
  <1>3. /\ vids[v].home = "none" /\ vids[v].job = 0 /\ vids[v].status = "pending"
        /\ UNCHANGED <<published, chan, setup, run, sources, chunks, attempts, jobs, worker,
                       phase, enqueued, faults, lives, retries>>
    BY DEF AddVideo, LibraryInv, WorkerInv, Unknown, New, counts
  <1>4. retries \in Nat
    BY DEF LibraryInv, Typed
  <1> HIDE DEF q
  <1> QED
    BY <1>1, <1>2, <1>3, <1>4, RowSafe DEF Waiting

LEMMA RetrySafe ==
    ASSUME LibraryInv, NEW v \in Videos, Retry(v)
    PROVE  LibraryInv' /\ ReadyStays
  <1>1. PICK q \in Rows : /\ Changed(v, q)
                          /\ q.home = vids[v].home /\ q.failure = "none"
                          /\ q.status \in {"enriching", "pending"}
                          /\ q.job = IF v \in sources THEN vids[v].job ELSE JobKept(v)
    BY RetryRow DEF LibraryInv
  <1>2. /\ phase # "down" /\ vids[v].status = "failed" /\ retries' = retries + 1
        /\ UNCHANGED <<published, chan, setup, run, sources, chunks, attempts, jobs, worker,
                       phase, enqueued, faults, lives>>
    BY DEF Retry, Serving
  <1>3. retries' \in Nat
    BY <1>2 DEF LibraryInv, Typed
  <1>4. vids[v].home # "none" /\ vids[v].status \notin Pending
    BY <1>2, KnownRow DEF Pending
  <1>5. q.job = vids[v].job \/ (q.job = 0 /\ Owed(v))
    BY <1>1, <1>2 DEF JobKept, Owed
  <1> QED
    BY <1>1, <1>2, <1>3, <1>4, <1>5, RowSafe DEF Waiting

LEMMA VideoElapsesSafe ==
    ASSUME LibraryInv, NEW v \in Videos, VideoElapses(v)
    PROVE  LibraryInv' /\ ReadyStays
  <1>1. PICK q \in Rows : /\ Changed(v, q) /\ q.status = "retry_due" /\ q.home = vids[v].home
                          /\ q.job = vids[v].job /\ q.failure = vids[v].failure
    BY VideoElapsesRow DEF LibraryInv
  <1>2. /\ vids[v].status = "retry_wait"
        /\ UNCHANGED <<published, chan, setup, run, sources, chunks, attempts, jobs, worker,
                       phase, enqueued, faults, lives, retries>>
    BY DEF VideoElapses, counts
  <1>3. retries \in Nat /\ vids[v].home # "none"
    BY <1>2, KnownRow DEF LibraryInv, Typed
  <1> QED
    BY <1>1, <1>2, <1>3, RowSafe DEF Waiting, Pending

LEMMA SixHoursSafe ==
    ASSUME LibraryInv, NEW v \in Videos, SixHours(v)
    PROVE  LibraryInv' /\ ReadyStays
  <1>1. PICK q \in Rows : /\ Changed(v, q) /\ q.status = vids[v].status
                          /\ q.home = vids[v].home /\ q.job = vids[v].job
                          /\ q.failure = vids[v].failure
    BY SixHoursRow DEF LibraryInv
  <1>2. /\ vids[v].job # 0
        /\ UNCHANGED <<published, chan, setup, run, sources, chunks, attempts, jobs, worker,
                       phase, enqueued, faults, lives, retries>>
    BY DEF SixHours, counts
  <1>3. retries \in Nat /\ vids[v].home # "none"
    BY <1>2, KnownRow DEF LibraryInv, Typed
  <1> QED
    BY <1>1, <1>2, <1>3, RowSafe

(* A video is published, and a waiting run becomes due.                     *)
LEMMA PublishSafe == LibraryInv /\ Publish => LibraryInv' /\ ReadyStays
  <1> SUFFICES ASSUME LibraryInv, Publish PROVE LibraryInv' /\ ReadyStays
    OBVIOUS
  <1>1. /\ published < MaxVideos /\ published' = published + 1
        /\ UNCHANGED <<chan, setup, run, vids, sources, chunks, attempts, jobs, worker, phase,
                       enqueued, faults, lives, retries>>
    BY DEF Publish, library, counts
  <1>2. published \in Nat /\ published' \in 0..MaxVideos
    BY <1>1, ConstantsAssumption DEF LibraryInv, Typed
  <1>3. Typed'
    BY <1>1, <1>2 DEF LibraryInv, Typed
  <1>4. WorkerInv'
    BY <1>1 DEF LibraryInv, WorkerInv
  <1>5. CollectInv'
    <2>1. run'.status = "none" <=> run' = NoRun
      BY <1>1, Zenon DEF LibraryInv, CollectInv
    <2>2. worker'.pc = "list" => RunActive'
      BY <1>1, Zenon DEF LibraryInv, CollectInv, RunActive
    <2>3. ~chan'.done => chan'.checkpoint = 0
      BY <1>1, Zenon DEF LibraryInv, CollectInv
    <2>4. NothingMissed'
      BY <1>1 DEF LibraryInv, CollectInv, NothingMissed
    <2>5. RunActive' => (run'.initial <=> ~chan'.done)
      BY <1>1, Zenon DEF LibraryInv, CollectInv, RunActive
    <2>6. RunActive' => run'.cutoff <= published'
      <3>1. run.cutoff \in Nat
        BY DEF LibraryInv, Typed, Runs
      <3> QED
        BY <1>1, <1>2, <3>1 DEF LibraryInv, CollectInv, RunActive
    <2>7. RunActive' /\ ~run'.initial => \A v \in Videos :
            /\ setup' < v /\ v <= run'.cutoff
            /\ v + run'.token > published' /\ v + Overlap > chan'.checkpoint
            => vids'[v].home = "channel"
      <3> SUFFICES ASSUME RunActive', ~run'.initial, NEW v \in Videos,
                          setup' < v /\ v <= run'.cutoff,
                          v + run'.token > published' /\ v + Overlap > chan'.checkpoint
                   PROVE  vids'[v].home = "channel"
        OBVIOUS
      <3>1. RunActive /\ ~run.initial
        BY <1>1, Zenon DEF RunActive
      <3>2. v \in Nat /\ run.token \in Nat
        BY RowFacts DEF LibraryInv, Typed, Runs
      <3>3. /\ setup < v /\ v <= run.cutoff
            /\ v + run.token > published /\ v + Overlap > chan.checkpoint
        BY <1>1, <1>2, <3>2
      <3>4. vids[v].home = "channel"
        BY <3>1, <3>3 DEF LibraryInv, CollectInv
      <3> QED
        BY <1>1, <3>4
    <2> QED
      BY <2>1, <2>2, <2>3, <2>4, <2>5, <2>6, <2>7, Zenon DEF CollectInv
  <1>6. CauseInv' /\ CountInv' /\ ReadyStays
    BY <1>1, VideosKept
  <1> QED
    BY <1>3, <1>4, <1>5, <1>6 DEF LibraryInv

LEMMA RunElapsesSafe == LibraryInv /\ RunElapses => LibraryInv' /\ ReadyStays
  <1> SUFFICES ASSUME LibraryInv, RunElapses PROVE LibraryInv' /\ ReadyStays
    OBVIOUS
  <1>1. /\ run.status = "retry_wait" /\ run' = [run EXCEPT !.status = "retry_due"]
        /\ UNCHANGED <<published, chan, setup, vids, sources, chunks, attempts, jobs, worker,
                       phase, enqueued, faults, lives, retries>>
    BY DEF RunElapses, counts
  <1>2. /\ run' \in Runs /\ run'.token = run.token /\ run'.cutoff = run.cutoff
        /\ run'.initial = run.initial /\ run'.status = "retry_due"
    <2>1. run \in Runs /\ "retry_due" \in Statuses
      BY DEF LibraryInv, Typed, Statuses
    <2> QED
      BY <1>1, <2>1, RunStatus
  <1>3. Typed'
    BY <1>1, <1>2 DEF LibraryInv, Typed
  <1>4. WorkerInv'
    BY <1>1 DEF LibraryInv, WorkerInv
  <1>5. CollectInv'
    <2>1. RunActive /\ RunActive' /\ run' # NoRun
      BY <1>1, <1>2 DEF RunActive, NoRun
    <2>2. run'.status = "none" <=> run' = NoRun
      BY <1>2, <2>1
    <2> QED
      BY <1>1, <1>2, <2>1, <2>2, CollectKept DEF LibraryInv
  <1>6. CauseInv' /\ CountInv' /\ ReadyStays
    BY <1>1, VideosKept
  <1> QED
    BY <1>3, <1>4, <1>5, <1>6 DEF LibraryInv

----------------------------------------------------------------------------
(* The job of a video is one that exists, and is the video's own.           *)
LEMMA JobOfVideo ==
    ASSUME LibraryInv, NEW v \in Videos, vids[v].job # 0
    PROVE  vids[v].job \in JobIds /\ jobs[vids[v].job].video = v
  <1>1. vids[v].job \in 0..MaxJobs
    BY DEF LibraryInv, Typed, Rows
  <1>2. vids[v].job \in JobIds
    BY <1>1, ConstantsAssumption DEF JobIds
  <1> QED
    BY <1>2 DEF LibraryInv, CountInv

(* A job of the service ends.                                               *)
LEMMA JobEndsSafe ==
    ASSUME LibraryInv, NEW j \in JobIds, JobEnds(j)
    PROVE  LibraryInv' /\ ReadyStays
  <1>1. /\ UNCHANGED <<published, chan, setup, run, vids, sources, chunks, attempts, worker,
                       phase, enqueued, lives, retries>>
        /\ \/ /\ jobs' = [jobs EXCEPT ![j].status = "completed"] /\ faults' = faults
           \/ /\ jobs' = [jobs EXCEPT ![j].status = "failed"] /\ faults' = faults + 1
    BY DEF JobEnds, Fault, library, counts
  <1>2. lives \in Nat /\ faults \in Nat /\ faults' \in Nat
    BY <1>1 DEF LibraryInv, Typed
  <1>3. /\ jobs' \in [JobIds -> JobRecord]
        /\ \A i \in JobIds : /\ jobs'[i].video = jobs[i].video
                             /\ jobs'[i].status = "failed" => jobs[i].status = "failed"
                                                              \/ faults' = faults + 1
    <2>1. jobs \in [JobIds -> JobRecord]
      BY DEF LibraryInv, Typed, JobRecord
    <2>2. CASE jobs' = [jobs EXCEPT ![j].status = "completed"]
      BY <2>1, <2>2 DEF JobRecord
    <2>3. CASE jobs' = [jobs EXCEPT ![j].status = "failed"] /\ faults' = faults + 1
      BY <2>1, <2>3 DEF JobRecord
    <2> QED
      BY <1>1, <2>2, <2>3
  <1>4. Typed'
    BY <1>1, <1>2, <1>3 DEF LibraryInv, Typed, JobRecord
  <1>5. WorkerInv'
    BY <1>1 DEF LibraryInv, WorkerInv
  <1>6. CollectInv'
    BY <1>1, CollectStays DEF LibraryInv
  <1>7. CauseInv'
    BY <1>1, <1>2, <1>3, CauseKept DEF LibraryInv
  <1>8. CountInv'
    <2>1. \A v \in Videos : Owed(v)' => Owed(v) \/ lives' + faults' > lives + faults
      <3>1. CASE faults' = faults + 1
        BY <1>1, <1>2, <3>1
      <3>2. CASE faults' = faults
        <4>1. \A v \in Videos : vids[v].job # 0 => vids[v].job \in JobIds
          BY JobOfVideo
        <4>2. \A i \in JobIds : jobs'[i].status = "failed" => jobs[i].status = "failed"
          BY <1>2, <1>3, <3>2
        <4> QED
          BY <1>1, <4>1, <4>2 DEF Owed
      <3> QED
        BY <1>1, <3>1, <3>2
    <2>2. lives' + faults' >= lives + faults /\ lives' \in Nat
      BY <1>1, <1>2
    <2> QED
      BY <1>1, <1>2, <1>3, <2>1, <2>2, CountKept DEF LibraryInv
  <1> QED
    BY <1>1, <1>4, <1>5, <1>6, <1>7, <1>8 DEF LibraryInv, ReadyStays

----------------------------------------------------------------------------
(* The steps of the worker on a video v that is due, whose row becomes q.   *)
LEMMA StepCount ==
    ASSUME LibraryInv, NEW v \in Videos, NEW q \in Rows, Changed(v, q),
           UNCHANGED <<jobs, lives>>, faults' \in {faults, faults + 1},
           phase' # "down" => phase # "down",
           q.job = vids[v].job \/ (q.job = 0 /\ Owed(v)),
           \/ q.status # "failed" \/ q.failure = "timeout" \/ faults' = faults + 1 \/ Owed(v)
    PROVE  CountInv'
  <1>1. vids'[v] = q /\ \A w \in Videos \ {v} : vids'[w] = vids[w]
    BY DEF Changed
  <1>2. lives \in Nat /\ faults \in Nat
    BY DEF LibraryInv, Typed
  <1>3. /\ faults' \in Nat /\ lives' \in Nat /\ lives' + faults' >= lives + faults
        /\ faults' = faults + 1 => lives' + faults' > lives + faults
    <2>1. lives' = lives
      OBVIOUS
    <2>2. CASE faults' = faults
      BY <1>2, <2>1, <2>2
    <2>3. CASE faults' = faults + 1
      BY <1>2, <2>1, <2>3
    <2> QED
      BY <2>2, <2>3
  <1>4. \A w \in Videos : vids'[w].job = vids[w].job \/ vids'[w].job = 0
    BY <1>1
  <1>5. \A w \in Videos : Owed(w)' => Owed(w) \/ lives' + faults' > lives + faults
    <2>1. Owed(v)' => Owed(v) \/ faults' = faults + 1
      BY <1>1 DEF Owed
    <2>2. \A w \in Videos \ {v} : Owed(w)' => Owed(w)
      BY <1>1 DEF Owed
    <2> QED
      BY <1>3, <2>1, <2>2
  <1>6. \A j \in JobIds : jobs'[j].video = jobs[j].video
    OBVIOUS
  <1> QED
    BY <1>3, <1>4, <1>5, <1>6, CountKept DEF LibraryInv

LEMMA NewJobCount ==
    ASSUME LibraryInv, NEW j \in NextJob, NewJob(j), NEW v \in Videos, worker.video = v,
           vids[v].job = 0, vids[v].status # "failed", phase # "down",
           \A w \in Videos \ {v} : vids'[w] = vids[w],
           lives' = lives, phase' # "down" => phase # "down",
           \/ /\ vids'[v].job = j /\ vids'[v].status # "failed"
              /\ faults' = faults
           \/ vids'[v] = vids[v] /\ phase' = "down" /\ faults' = faults
           \/ vids'[v].job = 0 /\ faults' = faults + 1
    PROVE  CountInv'
  <1> DEFINE k == lives + faults
             l == lives' + faults'
             c == Cardinality(JobsOf(v))
             d == Cardinality(JobsOf(v)')
  <1>1. j \in JobIds /\ jobs[j].video = 0 /\ j # 0
    BY RowFacts DEF NextJob, NoJob
  <1>2. /\ jobs'[j] = [video |-> v, status |-> "queued"]
        /\ \A i \in JobIds \ {j} : jobs'[i] = jobs[i]
    BY <1>1, NewJobTyped DEF LibraryInv
  <1>3. /\ \A w \in Videos : w # 0
        /\ jobs'[j].video = v /\ jobs'[j].status = "queued" /\ v # 0
    BY <1>2 DEF Videos
  <1>4. JobsOf(v)' = JobsOf(v) \cup {j} /\ j \notin JobsOf(v)
    <2>1. \A i \in JobIds \ {j} : jobs'[i].video = jobs[i].video
      BY <1>2
    <2> QED
      BY <1>1, <1>3, <2>1 DEF JobsOf
  <1>5. d = c + 1 /\ c \in Nat
    BY <1>4, JobsCounted, FS_AddElement
  <1>6. \A w \in Videos \ {v} : JobsOf(w)' = JobsOf(w)
    BY <1>1, <1>2, <1>3 DEF JobsOf
  <1>7. k \in Nat /\ l \in Nat /\ l >= k /\ (faults' = faults + 1 => l > k)
    BY DEF LibraryInv, Typed
  <1>8. Owed(v) /\ c < k
    BY DEF Owed, LibraryInv, CountInv
  <1>9. d <= l /\ (Owed(v)' => d < l)
    <2>1. Owed(v)' => l > k
      BY <1>1, <1>3, <1>7 DEF Owed
    <2> HIDE DEF c, d, k, l
    <2> QED
      BY <1>5, <1>7, <1>8, <2>1
  <1>10. \A w \in Videos : vids[w].job # 0 => vids[w].job \in JobIds \ {j}
    <2> SUFFICES ASSUME NEW w \in Videos, vids[w].job # 0 PROVE vids[w].job \in JobIds \ {j}
      OBVIOUS
    <2>1. vids[w].job \in JobIds /\ jobs[vids[w].job].video = w
      BY JobOfVideo
    <2> QED
      BY <1>1, <1>3, <2>1
  <1>11. \A w \in Videos \ {v} : Owed(w)' => Owed(w)
    BY <1>2, <1>10 DEF Owed
  <1>12. \A w \in Videos \ {v} : /\ Cardinality(JobsOf(w)) \in Nat /\ Cardinality(JobsOf(w)) <= k
                                 /\ Owed(w) => Cardinality(JobsOf(w)) < k
    BY JobsCounted DEF LibraryInv, CountInv, SubmittedOnce
  <1>13. \A w \in Videos \ {v} : /\ Cardinality(JobsOf(w)') <= l
                                 /\ Owed(w)' => Cardinality(JobsOf(w)') < l
    <2> SUFFICES ASSUME NEW w \in Videos \ {v}
                 PROVE  /\ Cardinality(JobsOf(w)') <= l
                        /\ Owed(w)' => Cardinality(JobsOf(w)') < l
      OBVIOUS
    <2> DEFINE m == Cardinality(JobsOf(w))
               n == Cardinality(JobsOf(w)')
    <2>1. m = n
      BY <1>6
    <2>2. m \in Nat /\ m <= k /\ (Owed(w)' => m < k)
      BY <1>11, <1>12
    <2> HIDE DEF m, n, k, l
    <2>3. n <= l /\ (Owed(w)' => n < l)
      BY <1>7, <2>1, <2>2
    <2> QED
      BY <2>3 DEF n
  <1>14. \A w \in Videos : vids'[w].job # 0 => jobs'[vids'[w].job].video = w
    <2>1. vids'[v].job # 0 => jobs'[vids'[v].job].video = v
      BY <1>2
    <2>2. \A w \in Videos \ {v} : vids'[w].job # 0 => jobs'[vids'[w].job].video = w
      BY <1>2, <1>10 DEF LibraryInv, CountInv
    <2> QED
      BY <2>1, <2>2
  <1>15. \A w \in Videos : /\ Cardinality(JobsOf(w)') <= l
                           /\ Owed(w)' => Cardinality(JobsOf(w)') < l
    <2>1. Cardinality(JobsOf(v)') <= l /\ (Owed(v)' => Cardinality(JobsOf(v)') < l)
      BY <1>9
    <2> HIDE DEF k, l, c, d
    <2> QED
      BY <1>13, <2>1
  <1>16. SubmittedOnce'
    BY <1>15 DEF SubmittedOnce
  <1> QED
    BY <1>14, <1>15, <1>16 DEF CountInv

LEMMA StepSafe ==
    ASSUME LibraryInv, worker.pc \in {"videos"} \cup Stages, NEW v \in worker.due, v \in Videos,
           NEW q \in Rows, Changed(v, q), q.home = vids[v].home,
           UNCHANGED <<published, chan, setup, run, enqueued, lives, retries>>,
           faults' \in {faults, faults + 1}, jobs' \in [JobIds -> JobRecord],
           \A j \in JobIds : jobs'[j].status = "failed" => jobs[j].status = "failed",
           sources' \subseteq Videos, chunks' \in [Videos -> 0..Parts],
           worker' \in WorkerRecord, CountInv',
           \/ /\ phase' = phase /\ worker'.pc \in {"idle", "videos"}
              /\ worker'.due = worker.due \ {v} /\ attempts' = {}
           \/ /\ phase' = phase /\ worker'.pc \in Stages /\ worker'.video = v
              /\ worker'.due = worker.due /\ attempts' = {v} /\ q.status \in Pending
              /\ (worker'.pc = "submit" => q.job = 0) /\ (worker'.pc = "poll" => q.job # 0)
           \/ phase' = "down" /\ worker'.pc = "off" /\ attempts' = attempts,
           q.status \in Waiting => \/ q.failure = "timeout" \/ faults' = faults + 1
                                   \/ \E j \in JobIds : jobs[j].status = "failed"
                                   \/ q.status = vids[v].status /\ q.failure = vids[v].failure
    PROVE  LibraryInv' /\ ReadyStays
  <1>1. vids' \in [Videos -> Rows] /\ vids'[v] = q /\ \A w \in Videos \ {v} : vids'[w] = vids[w]
    BY DEF Changed
  <1>2. /\ vids[v].status \in Pending /\ q.home # "none" /\ phase # "down"
        /\ worker.due \subseteq Videos
        /\ \A w \in worker.due : vids[w].status \in Pending /\ vids[w].home # "none"
    BY DEF LibraryInv, WorkerInv, Typed, Stages
  <1>3. faults' \in Nat /\ faults \in Nat /\ (faults' = 0 => faults = 0)
        /\ (faults' = faults + 1 => faults' # 0)
    BY DEF LibraryInv, Typed
  <1>4. Typed'
    <2>1. attempts' \subseteq Videos /\ phase' \in {"down", "up", "stopping"}
      BY DEF LibraryInv, Typed
    <2> QED
      BY <1>1, <1>3, <2>1 DEF LibraryInv, Typed, JobRecord, WorkerRecord
  <1>5. WorkerInv'
    <2>1. \A w \in Videos : vids'[w].home = "none" => vids'[w] = Unknown
      BY <1>1, <1>2 DEF LibraryInv, WorkerInv
    <2>2. /\ phase' = "down" <=> worker'.pc = "off"
          /\ worker'.pc \in Stages => worker'.video = v /\ v \in worker'.due
          /\ phase' # "down" => attempts' = IF worker'.pc \in Stages THEN {worker'.video} ELSE {}
          /\ worker'.pc = "submit" => vids'[worker'.video].job = 0
          /\ worker'.pc = "poll" => vids'[worker'.video].job # 0
      BY <1>1, <1>2 DEF Stages
    <2>3. worker'.pc \in {"videos"} \cup Stages => \A w \in worker'.due :
             vids'[w].status \in Pending /\ vids'[w].home # "none"
      BY <1>1, <1>2 DEF Stages
    <2> QED
      BY <2>1, <2>2, <2>3 DEF WorkerInv
  <1>6. CollectInv'
    <2>1. worker'.pc # "list"
      BY DEF Stages
    <2> QED
      BY <1>1, <2>1, CollectStays DEF LibraryInv
  <1>7. CauseInv'
    <2>1. (\E j \in JobIds : jobs[j].status = "failed") => faults' # 0
      BY <1>3 DEF LibraryInv, CauseInv
    <2> QED
      BY <1>1, <1>3, <2>1, CauseKept DEF LibraryInv, Waiting
  <1>8. ReadyStays
    BY <1>1, <1>2 DEF ReadyStays, Pending
  <1> QED
    BY <1>4, <1>5, <1>6, <1>7, <1>8 DEF LibraryInv

----------------------------------------------------------------------------
(* The worker and its videos.                                               *)
LEMMA LoopStopsSafe == LibraryInv /\ LoopStops => LibraryInv' /\ ReadyStays
  <1> SUFFICES ASSUME LibraryInv, LoopStops PROVE LibraryInv' /\ ReadyStays
    OBVIOUS
  <1>1. /\ worker.pc = "videos" /\ phase = "stopping" /\ worker' = Idle
        /\ UNCHANGED <<published, chan, setup, run, vids, sources, chunks, attempts, jobs, phase,
                       enqueued, faults, lives, retries>>
    BY DEF LoopStops, library, counts
  <1>2. Idle.pc = "idle" /\ Idle \in WorkerRecord
    BY OffTyped DEF Idle, At
  <1>3. Typed'
    BY <1>1, <1>2 DEF LibraryInv, Typed, WorkerRecord
  <1>4. WorkerInv'
    BY <1>1, <1>2 DEF LibraryInv, WorkerInv, Stages
  <1>5. CollectInv'
    BY <1>1, <1>2, CollectStays DEF LibraryInv
  <1>6. CauseInv' /\ CountInv' /\ ReadyStays
    BY <1>1, VideosKept
  <1> QED
    BY <1>3, <1>4, <1>5, <1>6 DEF LibraryInv

(* What the steps of the worker find.                                       *)
LEMMA StageFacts ==
    ASSUME LibraryInv, worker.pc \in Stages
    PROVE  /\ worker.video \in Videos /\ worker.video \in worker.due /\ phase # "down"
           /\ attempts = {worker.video} /\ vids[worker.video] \in Rows
           /\ vids[worker.video].status \in Pending
           /\ worker.pc = "submit" => vids[worker.video].job = 0
           /\ worker.pc = "poll" => vids[worker.video].job # 0
  BY WorkerVideo DEF LibraryInv, WorkerInv, Typed, Stages

LEMMA Unmoved ==
    ASSUME LibraryInv
    PROVE  /\ jobs \in [JobIds -> JobRecord] /\ chunks \in [Videos -> 0..Parts]
           /\ sources \subseteq Videos /\ lives \in Nat /\ faults \in Nat
  BY DEF LibraryInv, Typed, JobRecord

LEMMA BeginSafe == LibraryInv /\ Begin => LibraryInv' /\ ReadyStays
  <1> SUFFICES ASSUME LibraryInv, Begin PROVE LibraryInv' /\ ReadyStays
    OBVIOUS
  <1>1. PICK v \in worker.due :
             /\ worker.pc = "videos" /\ phase = "up" /\ v \in Videos /\ Changed(v, Begun(v))
             /\ Begun(v) \in Rows /\ Begun(v).home = vids[v].home /\ Begun(v).job = vids[v].job
             /\ \/ /\ Begun(v).status \in {"transcribing", "enriching"}
                   /\ Begun(v).failure = vids[v].failure
                   /\ attempts' = {v} /\ worker'.pc \in Stages /\ worker'.video = v
                   /\ worker'.due = worker.due
                   /\ worker'.pc = "submit" => vids[v].job = 0
                   /\ worker'.pc = "poll" => vids[v].job # 0
                \/ /\ Begun(v).status = "failed" /\ Begun(v).failure = "timeout"
                   /\ TimedOut(v) /\ attempts' = {} /\ worker'.pc \in {"idle", "videos"}
                   /\ worker'.due = worker.due \ {v}
             /\ worker' \in WorkerRecord
             /\ UNCHANGED <<published, chan, setup, run, sources, chunks, jobs, phase, counts>>
    BY BeginStep DEF LibraryInv
  <1>2. /\ UNCHANGED <<published, chan, setup, run, sources, chunks, jobs, phase, enqueued,
                       faults, lives, retries>>
    BY <1>1 DEF counts
  <1> DEFINE q == Begun(v)
  <1> HIDE DEF q
  <1>3. /\ q \in Rows /\ Changed(v, q) /\ q.home = vids[v].home /\ q.job = vids[v].job
        /\ \/ /\ q.status \in {"transcribing", "enriching"}
              /\ attempts' = {v} /\ worker'.pc \in Stages /\ worker'.video = v
              /\ worker'.due = worker.due
              /\ worker'.pc = "submit" => q.job = 0
              /\ worker'.pc = "poll" => q.job # 0
           \/ /\ q.status = "failed" /\ q.failure = "timeout"
              /\ attempts' = {} /\ worker'.pc \in {"idle", "videos"}
              /\ worker'.due = worker.due \ {v}
    BY <1>1, Zenon DEF q
  <1>4. CountInv'
    BY <1>1, <1>2, <1>3, StepCount
  <1> QED
    BY <1>1, <1>2, <1>3, <1>4, Unmoved, StepSafe DEF Pending, Waiting

(* A provider fails while the worker works on a video.                      *)
LEMMA RefusedSafe ==
    ASSUME LibraryInv, worker.pc \in Stages, NEW r \in Refusals(worker.video), FailVideo(r),
           Fault, UNCHANGED <<published, chan, setup, run, sources, chunks, phase>>,
           \/ UNCHANGED jobs
           \/ worker.pc = "submit" /\ \E j \in NextJob : NewJob(j)
    PROVE  LibraryInv' /\ ReadyStays
  <1> DEFINE v == worker.video
  <1>1. PICK u \in Videos : u = worker.video
    BY StageFacts
  <1>2. /\ u \in worker.due /\ phase # "down" /\ attempts = {u}
        /\ vids[u].status \in Pending
        /\ worker.pc = "submit" => vids[u].job = 0
    BY <1>1, StageFacts
  <1>3. /\ Changed(u, r) /\ r \in Rows /\ worker' \in WorkerRecord
        /\ worker'.pc \in {"idle", "videos"} /\ worker'.due = worker.due \ {u}
        /\ attempts' = {}
    BY <1>1, <1>2, FailVideoTyped DEF LibraryInv
  <1>4. /\ r.home = vids[u].home /\ r.job = vids[u].job
        /\ r.failure = "other" /\ r.status \in {"failed", "retry_wait"}
    BY <1>1, RefusalRow DEF LibraryInv
  <1>5. faults' = faults + 1 /\ UNCHANGED <<enqueued, lives, retries>>
    BY FaultTyped DEF LibraryInv
  <1>6. /\ jobs' \in [JobIds -> JobRecord] /\ CountInv'
        /\ \A j \in JobIds : jobs'[j].status = "failed" => jobs[j].status = "failed"
    <2>1. CASE UNCHANGED jobs
      <3>1. CountInv'
        BY <1>3, <1>4, <1>5, <2>1, StepCount
      <3> QED
        BY <2>1, <3>1, Unmoved
    <2>2. CASE worker.pc = "submit" /\ \E j \in NextJob : NewJob(j)
      <3>1. PICK j \in NextJob : NewJob(j)
        BY <2>2
      <3>2. j \in JobIds
        BY DEF NextJob
      <3>3. vids'[u] = r /\ \A w \in Videos \ {u} : vids'[w] = vids[w]
        BY <1>3 DEF Changed
      <3>4. vids[u].job = 0 /\ vids'[u].job = 0 /\ vids[u].status # "failed"
        BY <1>2, <1>4, <2>2, <3>3 DEF Pending
      <3>5. CountInv'
        BY <1>1, <1>2, <1>5, <3>1, <3>3, <3>4, NewJobCount
      <3>6. /\ jobs' \in [JobIds -> JobRecord] /\ jobs'[j].status = "queued"
            /\ \A i \in JobIds \ {j} : jobs'[i] = jobs[i]
        BY <1>1, <3>1, <3>2, NewJobTyped DEF LibraryInv
      <3> QED
        BY <3>5, <3>6
    <2> QED
      BY <2>1, <2>2
  <1> QED
    BY <1>2, <1>3, <1>4, <1>5, <1>6, Unmoved, StepSafe

LEMMA FailsSafe ==
    ASSUME LibraryInv, SubmitFails \/ PollFails \/ EnrichFails
    PROVE  LibraryInv' /\ ReadyStays
  <1>1. CASE SubmitFails
    BY <1>1, RefusedSafe DEF SubmitFails, Stages
  <1>2. CASE PollFails
    BY <1>2, RefusedSafe DEF PollFails, Stages
  <1>3. CASE EnrichFails
    BY <1>3, RefusedSafe DEF EnrichFails, Stages
  <1> QED
    BY <1>1, <1>2, <1>3

LEMMA SubmitSafe == LibraryInv /\ Submit => LibraryInv' /\ ReadyStays
  <1> SUFFICES ASSUME LibraryInv, Submit PROVE LibraryInv' /\ ReadyStays
    OBVIOUS
  <1>1. PICK j \in NextJob :
           /\ NewJob(j)
           /\ \/ /\ vids' = [vids EXCEPT ![worker.video].job = j, ![worker.video].old = FALSE]
                 /\ Doing("poll") /\ UNCHANGED phase
              \/ Down /\ UNCHANGED vids
    BY Zenon DEF Submit
  <1>2. /\ worker.pc = "submit"
        /\ UNCHANGED <<published, chan, setup, run, sources, chunks, attempts, enqueued, faults,
                       lives, retries>>
    BY DEF Submit, counts
  <1>3. PICK v \in Videos : v = worker.video
    BY <1>2, StageFacts DEF Stages
  <1>4. /\ v \in worker.due /\ phase # "down" /\ attempts = {v} /\ vids[v] \in Rows
        /\ vids[v].status \in Pending /\ vids[v].job = 0 /\ vids[v].status # "failed"
    BY <1>2, <1>3, StageFacts DEF Stages, Pending
  <1>5. j \in JobIds /\ j # 0
    BY RowFacts DEF NextJob
  <1>6. /\ jobs' \in [JobIds -> JobRecord] /\ jobs'[j].status = "queued"
        /\ \A i \in JobIds \ {j} : jobs'[i] = jobs[i]
    BY <1>1, <1>3, <1>5, NewJobTyped DEF LibraryInv
  <1>7. \A i \in JobIds : jobs'[i].status = "failed" => jobs[i].status = "failed"
    BY <1>6
  <1>8. CASE /\ vids' = [vids EXCEPT ![worker.video].job = j, ![worker.video].old = FALSE]
             /\ Doing("poll") /\ UNCHANGED phase
    <2>1. vids' = [vids EXCEPT ![v].job = j, ![v].old = FALSE]
      BY <1>3, <1>8, Zenon
    <2>2. PICK q \in Rows : /\ Changed(v, q) /\ q.status = vids[v].status
                            /\ q.home = vids[v].home /\ q.job = j
                            /\ q.failure = vids[v].failure
      BY <1>5, <2>1, SubmittedRow DEF LibraryInv
    <2>3. vids'[v] = q /\ \A w \in Videos \ {v} : vids'[w] = vids[w]
      BY <2>2 DEF Changed
    <2>4. CountInv'
      BY <1>1, <1>2, <1>3, <1>4, <1>8, <2>2, <2>3, NewJobCount
    <2>5. /\ worker' \in WorkerRecord /\ worker'.pc = "poll" /\ worker'.video = v
          /\ worker'.due = worker.due
      BY <1>3, <1>8, DoingTyped DEF LibraryInv, WorkerRecord, Stages
    <2> QED
      BY <1>2, <1>4, <1>5, <1>6, <1>7, <1>8, <2>2, <2>4, <2>5, Unmoved, StepSafe
         DEF Stages
  <1>9. CASE Down /\ UNCHANGED vids
    <2>1. phase' = "down" /\ worker' = Off /\ Off.pc = "off" /\ Off \in WorkerRecord
      BY <1>9, OffTyped DEF Down, Off, At
    <2>2. CountInv'
      BY <1>1, <1>2, <1>3, <1>4, <1>9, <2>1, NewJobCount
    <2>3. Typed'
      BY <1>2, <1>6, <1>9, <2>1 DEF LibraryInv, Typed, JobRecord, WorkerRecord
    <2>4. WorkerInv'
      BY <1>9, <2>1 DEF LibraryInv, WorkerInv, Stages
    <2>5. CollectInv'
      BY <1>2, <1>9, <2>1, CollectStays DEF LibraryInv
    <2>6. CauseInv'
      BY <1>2, <1>7, <1>9, CauseKept DEF LibraryInv
    <2> QED
      BY <1>9, <2>2, <2>3, <2>4, <2>5, <2>6 DEF LibraryInv, ReadyStays
  <1> QED
    BY <1>1, <1>8, <1>9

LEMMA PollSafe == LibraryInv /\ Poll => LibraryInv' /\ ReadyStays
  <1> SUFFICES ASSUME LibraryInv, Poll PROVE LibraryInv' /\ ReadyStays
    OBVIOUS
  <1>1. worker.pc = "poll" /\ worker' \in WorkerRecord /\ vids[worker.video].job \in JobIds
        /\ UNCHANGED <<published, chan, setup, run, chunks, jobs, phase, enqueued, faults, lives,
                       retries>>
    BY PollStep DEF LibraryInv, counts
  <1>2. PICK v \in Videos : v = worker.video
    BY <1>1, StageFacts DEF Stages
  <1>3. /\ v \in worker.due /\ phase # "down" /\ attempts = {v} /\ vids[v] \in Rows
        /\ vids[v].status \in Pending
    BY <1>1, <1>2, StageFacts DEF Stages
  <1> DEFINE released == /\ worker'.pc \in {"idle", "videos"} /\ worker'.due = worker.due \ {v}
                         /\ attempts' = {}
  <1>4. \/ UNCHANGED <<vids, sources>> /\ released
        \/ /\ jobs[vids[v].job].status = "failed" /\ UNCHANGED sources /\ released
           /\ \E q \in Rows : /\ Changed(v, q) /\ q.status \in {"failed", "retry_wait"}
                              /\ q.home = vids[v].home /\ q.job = 0 /\ q.failure = "other"
        \/ /\ sources' = sources \cup {v}
           /\ \E q \in Rows : /\ Changed(v, q) /\ q.status = "enriching"
                              /\ q.home = vids[v].home /\ q.job = vids[v].job
                              /\ q.failure = vids[v].failure
           /\ \/ released
              \/ /\ worker'.pc = "enrich" /\ worker'.video = v
                 /\ worker'.due = worker.due /\ attempts' = {v}
    <2>1. attempts \ {v} = {}
      BY <1>3
    <2> QED
      BY <1>2, <1>3, <2>1, PollStep, Zenon DEF LibraryInv
  <1>5. CASE UNCHANGED <<vids, sources>> /\ released
    <2> DEFINE q == vids[v]
    <2>1. Changed(v, q)
      BY <1>5 DEF Changed, LibraryInv, Typed
    <2>2. q \in Rows /\ q.status \in Pending /\ q.home = vids[v].home /\ q.job = vids[v].job
          /\ q.status = vids[v].status /\ q.failure = vids[v].failure /\ q.status # "failed"
      BY <1>3 DEF Pending
    <2> HIDE DEF q
    <2>3. CountInv'
      BY <1>1, <2>1, <2>2, StepCount
    <2> QED
      BY <1>1, <1>3, <1>5, <2>1, <2>2, <2>3, Unmoved, StepSafe DEF Stages
  <1>6. CASE /\ jobs[vids[v].job].status = "failed" /\ UNCHANGED sources /\ released
             /\ \E q \in Rows : /\ Changed(v, q) /\ q.status \in {"failed", "retry_wait"}
                                /\ q.home = vids[v].home /\ q.job = 0 /\ q.failure = "other"
    <2>1. PICK q \in Rows : /\ Changed(v, q) /\ q.status \in {"failed", "retry_wait"}
                            /\ q.home = vids[v].home /\ q.job = 0 /\ q.failure = "other"
      BY <1>6
    <2>2. Owed(v) /\ \E j \in JobIds : jobs[j].status = "failed"
      BY <1>1, <1>2, <1>6, RowFacts DEF Owed
    <2>3. CountInv'
      BY <1>1, <2>1, <2>2, StepCount
    <2> QED
      BY <1>1, <1>3, <1>6, <2>1, <2>2, <2>3, Unmoved, StepSafe DEF Stages
  <1>7. CASE /\ sources' = sources \cup {v}
             /\ \E q \in Rows : /\ Changed(v, q) /\ q.status = "enriching"
                                /\ q.home = vids[v].home /\ q.job = vids[v].job
                                /\ q.failure = vids[v].failure
             /\ \/ released
                \/ /\ worker'.pc = "enrich" /\ worker'.video = v
                   /\ worker'.due = worker.due /\ attempts' = {v}
    <2>1. PICK q \in Rows : /\ Changed(v, q) /\ q.status = "enriching"
                            /\ q.home = vids[v].home /\ q.job = vids[v].job
                            /\ q.failure = vids[v].failure
      BY <1>7
    <2>2. CountInv'
      BY <1>1, <2>1, StepCount
    <2>3. sources' \subseteq Videos
      BY <1>7, Unmoved
    <2> QED
      BY <1>1, <1>3, <1>7, <2>1, <2>2, <2>3, Unmoved, StepSafe DEF Stages, Pending, Waiting
  <1> QED
    BY <1>4, <1>5, <1>6, <1>7

LEMMA SavePartSafe == LibraryInv /\ SavePart => LibraryInv' /\ ReadyStays
  <1> SUFFICES ASSUME LibraryInv, SavePart PROVE LibraryInv' /\ ReadyStays
    OBVIOUS
  <1>1. /\ worker.pc = "enrich"
        /\ UNCHANGED <<published, chan, setup, run, vids, sources, jobs, phase, enqueued, faults,
                       lives, retries>>
    BY DEF SavePart, counts
  <1>2. PICK v \in Videos : v = worker.video
    BY <1>1, StageFacts DEF Stages
  <1>3. /\ v \in worker.due /\ phase # "down" /\ attempts = {v} /\ vids[v] \in Rows
        /\ vids[v].status \in Pending
    BY <1>1, <1>2, StageFacts DEF Stages
  <1>4. /\ chunks[v] < Parts /\ chunks' = [chunks EXCEPT ![v] = chunks[v] + 1]
        /\ Enriching(v, chunks'[v])
    BY <1>2, Zenon DEF SavePart
  <1>5. chunks' \in [Videos -> 0..Parts]
    <2>1. Parts \in Nat /\ chunks[v] \in 0..Parts
      BY Unmoved, ConstantsAssumption
    <2>2. chunks[v] + 1 \in 0..Parts
      BY <1>4, <2>1
    <2> QED
      BY <1>4, <2>2, Unmoved
  <1>6. /\ worker' \in WorkerRecord
        /\ \/ /\ worker'.pc = "enrich" /\ worker'.video = v
              /\ worker'.due = worker.due /\ attempts' = {v}
           \/ /\ worker'.pc \in {"idle", "videos"} /\ worker'.due = worker.due \ {v}
              /\ attempts' = {}
    BY <1>2, <1>3, <1>4, EnrichingTyped DEF LibraryInv
  <1> DEFINE q == vids[v]
  <1>7. Changed(v, q)
    BY <1>1 DEF Changed, LibraryInv, Typed
  <1>8. q \in Rows /\ q.status \in Pending /\ q.home = vids[v].home /\ q.job = vids[v].job
        /\ q.status = vids[v].status /\ q.failure = vids[v].failure /\ q.status # "failed"
    BY <1>3 DEF Pending
  <1> HIDE DEF q
  <1>9. CountInv'
    BY <1>1, <1>7, <1>8, StepCount
  <1> QED
    BY <1>1, <1>3, <1>5, <1>6, <1>7, <1>8, <1>9, Unmoved, StepSafe DEF Stages

LEMMA PublishesSafe == LibraryInv /\ Publishes => LibraryInv' /\ ReadyStays
  <1> SUFFICES ASSUME LibraryInv, Publishes PROVE LibraryInv' /\ ReadyStays
    OBVIOUS
  <1>1. /\ worker.pc = "enrich"
        /\ UNCHANGED <<published, chan, setup, run, sources, jobs, phase, enqueued, faults,
                       lives, retries>>
    BY DEF Publishes, counts
  <1>2. PICK v \in Videos : v = worker.video
    BY <1>1, StageFacts DEF Stages
  <1>3. /\ v \in worker.due /\ phase # "down" /\ attempts = {v} /\ vids[v] \in Rows
    BY <1>1, <1>2, StageFacts DEF Stages
  <1>4. /\ chunks' = [chunks EXCEPT ![v] = 0] /\ Done(v)
        /\ vids' = [vids EXCEPT ![v].status = "ready", ![v].failure = "none"]
    BY <1>2, Zenon DEF Publishes
  <1>5. chunks' \in [Videos -> 0..Parts]
    <2>1. 0 \in 0..Parts
      BY ConstantsAssumption
    <2> QED
      BY <1>4, <2>1, Unmoved
  <1>6. /\ worker' \in WorkerRecord
        /\ worker'.pc \in {"idle", "videos"} /\ worker'.due = worker.due \ {v}
        /\ attempts' = {}
    BY <1>3, <1>4, DoneTyped DEF LibraryInv, WorkerRecord
  <1>7. PICK q \in Rows : /\ Changed(v, q) /\ q.status = "ready" /\ q.failure = "none"
                          /\ q.home = vids[v].home /\ q.job = vids[v].job
    BY <1>4, ReadyRow DEF LibraryInv
  <1>8. CountInv'
    BY <1>1, <1>7, StepCount
  <1> QED
    BY <1>1, <1>3, <1>5, <1>6, <1>7, <1>8, Unmoved, StepSafe DEF Stages, Waiting

----------------------------------------------------------------------------
(* The worker and its collection.                                           *)
LEMMA GatherSafe ==
    ASSUME LibraryInv, phase # "down", worker.pc \notin Stages, phase' = phase,
           attempts' = attempts, worker'.pc \in {"idle", "videos"}, worker'.due = Due(vids'),
           \A v \in Videos : vids'[v].home = "none" => vids'[v] = Unknown
    PROVE  WorkerInv'
  <1>1. attempts' = {} /\ worker'.pc \notin Stages /\ worker'.pc # "off"
    BY DEF LibraryInv, WorkerInv, Stages
  <1>2. \A v \in worker'.due : vids'[v].status \in Pending /\ vids'[v].home # "none"
    BY DEF Due
  <1> QED
    BY <1>1, <1>2 DEF WorkerInv, Stages

LEMMA AtList ==
    ASSUME NEW n \in Nat
    PROVE  At("list", 0, {}, n) \in WorkerRecord /\ At("list", 0, {}, n).pc = "list"
  BY ConstantsAssumption DEF At, WorkerRecord

(* A collection goes on, or begins.                                         *)
LEMMA CollectingSafe ==
    ASSUME LibraryInv, phase = "up", worker.pc = "idle", NEW r \in Runs, Collecting(r),
           UNCHANGED <<published, chan, setup, vids, sources, chunks, attempts, jobs, phase,
                       faults, lives, retries>>,
           enqueued' \in Nat,
           \/ r = run /\ run.status # "none"
           \/ r = NewRun
    PROVE  LibraryInv' /\ ReadyStays
  <1>1. run' = [r EXCEPT !.status = "processing"] /\ worker' = At("list", 0, {}, 0)
    BY Zenon DEF Collecting
  <1>2. /\ run' \in Runs /\ run'.token = r.token /\ run'.cutoff = r.cutoff
        /\ run'.initial = r.initial /\ run'.status = "processing"
    <2>1. "processing" \in Statuses
      BY DEF Statuses
    <2> QED
      BY <1>1, <2>1, RunStatus
  <1>3. worker' \in WorkerRecord /\ worker'.pc = "list"
    BY <1>1, AtList
  <1>4. Typed'
    BY <1>2, <1>3 DEF LibraryInv, Typed, WorkerRecord
  <1>5. WorkerInv'
    BY <1>3 DEF LibraryInv, WorkerInv, Stages
  <1>6. RunActive' /\ run' # NoRun
    BY <1>2 DEF RunActive, NoRun
  <1>7. CollectInv'
    <2>1. CASE r = run /\ run.status # "none"
      <3>1. RunActive
        BY <2>1 DEF RunActive, NoRun
      <3>2. run'.status = "none" <=> run' = NoRun
        BY <1>2, <1>6
      <3> QED
        BY <1>2, <1>6, <2>1, <3>1, <3>2, CollectKept DEF LibraryInv
    <2>2. CASE r = NewRun
      <3>1. r.token = 0 /\ r.cutoff = published /\ (r.initial <=> ~chan.done)
        BY <2>2, NewRunTyped, Zenon DEF LibraryInv
      <3>2. /\ run'.token = 0 /\ run'.cutoff = published /\ (run'.initial <=> ~chan.done)
            /\ run'.status # "none" /\ chan'.done = chan.done
            /\ chan'.checkpoint = chan.checkpoint
        BY <1>2, <3>1, Zenon
      <3>3. UNCHANGED <<published, setup, vids>>
        OBVIOUS
      <3> QED
        BY <1>2, <3>2, <3>3, NewCollection, Zenon
    <2> QED
      BY <2>1, <2>2
  <1>8. CauseInv' /\ CountInv' /\ ReadyStays
    BY VideosKept
  <1> QED
    BY <1>4, <1>5, <1>7, <1>8 DEF LibraryInv

LEMMA TickSafe == LibraryInv /\ Tick => LibraryInv' /\ ReadyStays
  <1> SUFFICES ASSUME LibraryInv, Tick PROVE LibraryInv' /\ ReadyStays
    OBVIOUS
  <1>1. /\ phase = "up" /\ worker.pc = "idle"
        /\ UNCHANGED <<published, chan, setup, vids, sources, chunks, attempts, jobs, phase,
                       faults, lives, retries>>
    BY DEF Tick
  <1>2. run \in Runs /\ NewRun \in Runs /\ enqueued \in Nat
    BY NewRunTyped DEF LibraryInv, Typed
  <1>3. CASE /\ run.status \in {"pending", "processing", "retry_due"} /\ Collecting(run)
             /\ UNCHANGED enqueued
    BY <1>1, <1>2, <1>3, CollectingSafe
  <1>4. CASE Collecting(NewRun) /\ enqueued' = enqueued + 1
    BY <1>1, <1>2, <1>4, CollectingSafe
  <1>5. CASE Gather(vids) /\ UNCHANGED <<run, enqueued>>
    <2>1. worker' \in WorkerRecord /\ worker'.pc \in {"idle", "videos"} /\ worker'.due = Due(vids)
      BY <1>5, GatherTyped
    <2>2. vids' = vids /\ worker'.due = Due(vids')
      BY <1>1, <2>1
    <2>3. Typed'
      BY <1>1, <1>5, <2>1 DEF LibraryInv, Typed, WorkerRecord
    <2>4. \A v \in Videos : vids'[v].home = "none" => vids'[v] = Unknown
      BY <2>2 DEF LibraryInv, WorkerInv
    <2>5. WorkerInv'
      BY <1>1, <2>1, <2>2, <2>4, GatherSafe DEF Stages
    <2>6. CollectInv'
      BY <1>1, <1>5, <2>1, CollectStays DEF LibraryInv
    <2>7. CauseInv' /\ CountInv' /\ ReadyStays
      BY <1>1, VideosKept
    <2> QED
      BY <2>3, <2>5, <2>6, <2>7 DEF LibraryInv
  <1> QED
    BY <1>3, <1>4, <1>5 DEF Tick

LEMMA ListFailsSafe == LibraryInv /\ ListFails => LibraryInv' /\ ReadyStays
  <1> SUFFICES ASSUME LibraryInv, ListFails PROVE LibraryInv' /\ ReadyStays
    OBVIOUS
  <1>1. /\ worker.pc = "list" /\ Gather(vids)
        /\ UNCHANGED <<published, chan, setup, phase, vids, sources, chunks, attempts, jobs,
                       enqueued, faults, lives, retries>>
    BY DEF ListFails, counts
  <1> DEFINE n == Attempt(run.attempts)
  <1>2. run' = NoRun \/ run' = [run EXCEPT !.status = "retry_wait", !.attempts = n]
    BY Zenon DEF ListFails
  <1>3. n \in Nat
    BY DEF LibraryInv, Typed, Runs, Attempt
  <1>4. RunActive
    BY <1>1 DEF LibraryInv, CollectInv
  <1>5. /\ run' \in Runs /\ (run'.status = "none" <=> run' = NoRun)
        /\ RunActive' => /\ run'.token = run.token /\ run'.cutoff = run.cutoff
                         /\ run'.initial = run.initial
    <2>1. CASE run' = NoRun
      BY <2>1, RowFacts DEF NoRun, RunActive
    <2>2. CASE run' = [run EXCEPT !.status = "retry_wait", !.attempts = n]
      <3> HIDE DEF n
      <3>1. /\ run' \in Runs /\ run'.status = "retry_wait" /\ run'.token = run.token
            /\ run'.cutoff = run.cutoff /\ run'.initial = run.initial
        BY <1>3, <2>2, RetriedRun DEF LibraryInv
      <3>2. run' # NoRun
        BY <3>1 DEF NoRun
      <3> QED
        BY <3>1, <3>2
    <2> QED
      BY <1>2, <2>1, <2>2
  <1>6. worker' \in WorkerRecord /\ worker'.pc \in {"idle", "videos"} /\ worker'.due = Due(vids)
    BY <1>1, GatherTyped
  <1>7. vids' = vids /\ worker'.due = Due(vids')
    BY <1>1, <1>6
  <1>8. Typed'
    BY <1>1, <1>5, <1>6 DEF LibraryInv, Typed, WorkerRecord
  <1>9. WorkerInv'
    <2>1. \A v \in Videos : vids'[v].home = "none" => vids'[v] = Unknown
      BY <1>7 DEF LibraryInv, WorkerInv
    <2>2. phase # "down" /\ worker.pc \notin Stages
      BY <1>1 DEF LibraryInv, WorkerInv, Stages
    <2> QED
      BY <1>1, <1>6, <1>7, <2>1, <2>2, GatherSafe
  <1>10. CollectInv'
    BY <1>1, <1>4, <1>5, <1>6, CollectKept DEF LibraryInv
  <1>11. CauseInv' /\ CountInv' /\ ReadyStays
    BY <1>1, VideosKept
  <1> QED
    BY <1>8, <1>9, <1>10, <1>11 DEF LibraryInv

(* A page that does not end its collection has put what it had to into the   *)
(* library: the place the collection has come to may move behind it.        *)
LEMMA PageRead ==
    ASSUME LibraryInv, RunActive, ~run.initial, NEW v \in Videos,
           setup < v, v <= run.cutoff, v + Overlap > chan.checkpoint,
           NEW S, S = Eligible(Page(run.token)),
           v + run.token > published \/ published < v + run.token + PageSize
    PROVE  vids[v].home = "channel" \/ v \in S
  <1>1. /\ v \in Nat /\ run.token \in Nat /\ run.cutoff \in Nat /\ published \in Nat
        /\ run.cutoff <= published
    BY RowFacts DEF LibraryInv, Typed, Runs, CollectInv
  <1>2. CASE v + run.token > published
    BY <1>2 DEF LibraryInv, CollectInv
  <1>3. CASE v + run.token <= published /\ published < v + run.token + PageSize
    <2>1. v \in Page(run.token)
      BY <1>1, <1>3 DEF Page
    <2> QED
      BY <2>1, Zenon DEF Eligible
  <1> QED
    BY <1>1, <1>2, <1>3

LEMMA PageSafe == LibraryInv /\ PageArrives => LibraryInv' /\ ReadyStays
  <1> SUFFICES ASSUME LibraryInv, PageArrives PROVE LibraryInv' /\ ReadyStays
    OBVIOUS
  <1> DEFINE page == Page(run.token)
             S    == Eligible(page)
             past == ~run.initial /\ page # {} /\ \A v \in page : v + Overlap <= chan.checkpoint
             Continues ==
               /\ run' \in Runs /\ run'.token = Next0(run.token)
               /\ run'.cutoff = run.cutoff /\ run'.initial = run.initial
               /\ run'.status \in {run.status, "pending"}
               /\ \/ Down /\ run'.status = run.status
                  \/ Gather(vids') /\ UNCHANGED phase
                  \/ /\ worker' = At("list", 0, {}, worker.pages + 1)
                     /\ run'.status = run.status /\ UNCHANGED phase
               /\ UNCHANGED <<chan, setup>>
             Ends ==
               /\ run' = NoRun /\ chan' = Collected
               /\ setup' = IF run.initial THEN run.cutoff ELSE setup
               /\ Gather(vids') /\ UNCHANGED phase
               /\ run.initial \/ Next0(run.token) = 0 \/ past
  <1>1. /\ worker.pc = "list" /\ S \in SUBSET Videos /\ S \subseteq page
        /\ vids' = Inserted(S)
        /\ UNCHANGED <<published, sources, chunks, attempts, jobs, counts>>
        /\ Continues \/ Ends
    BY PageStep, Zenon DEF LibraryInv
  <1> HIDE DEF S, Continues, Ends
  <1>2. /\ vids' \in [Videos -> Rows]
        /\ \A v \in Videos : /\ vids'[v].home = IF v \in S THEN "channel" ELSE vids[v].home
                             /\ v \notin S => vids'[v] = vids[v]
                             /\ vids'[v].status = vids[v].status
                             /\ vids'[v].job = vids[v].job
                             /\ vids'[v].failure = vids[v].failure
    BY <1>1, InsertedRows DEF LibraryInv
  <1>3. UNCHANGED <<published, sources, chunks, attempts, jobs, enqueued, faults, lives, retries>>
    BY <1>1 DEF counts
  <1>4. /\ RunActive /\ run.status # "none" /\ phase # "down" /\ run \in Runs
        /\ worker.pages \in Nat
    BY <1>1 DEF LibraryInv, CollectInv, WorkerInv, Typed, RunActive
  <1>5. /\ run.cutoff \in Nat /\ run.token \in Nat /\ published \in Nat /\ setup \in Nat
        /\ run.cutoff <= published /\ Overlap \in Nat /\ PageSize \in Nat \ {0}
        /\ chan.checkpoint \in Nat /\ \A v \in Videos : v \in Nat /\ v > 0
    BY <1>4, ConstantsAssumption DEF LibraryInv, Typed, Runs, CollectInv, Videos
  <1>6. /\ \/ phase' = "down" /\ worker'.pc = "off"
           \/ /\ phase' = phase /\ worker'.pc \in {"idle", "videos"} /\ worker'.due = Due(vids')
           \/ /\ phase' = phase /\ worker'.pc = "list"
              /\ run'.status = run.status
        /\ worker' \in WorkerRecord
    <2>1. Down => phase' = "down" /\ worker'.pc = "off" /\ worker' \in WorkerRecord
      BY OffTyped DEF Down, Off, At
    <2>2. Gather(vids') => worker' \in WorkerRecord /\ worker'.pc \in {"idle", "videos"}
                           /\ worker'.due = Due(vids')
      BY GatherTyped
    <2>3. worker' = At("list", 0, {}, worker.pages + 1) =>
            worker' \in WorkerRecord /\ worker'.pc = "list"
      <3>1. worker.pages + 1 \in Nat
        BY <1>4
      <3> QED
        BY <3>1, AtList
    <2> QED
      BY <1>1, <2>1, <2>2, <2>3 DEF Continues, Ends
  <1>7. run' \in Runs /\ chan' \in [known : BOOLEAN, done : BOOLEAN, checkpoint : Nat]
        /\ setup' \in Nat
    <2>1. CASE Continues
      BY <2>1 DEF Continues, LibraryInv, Typed
    <2>2. CASE Ends
      <3> DEFINE yes == TRUE
                 a == [chan EXCEPT !.done = yes]
                 b == [a EXCEPT !.checkpoint = run.cutoff]
      <3>1. chan' = b
        BY <2>2, Zenon DEF Ends, Collected
      <3>2. yes \in BOOLEAN /\ chan \in [known : BOOLEAN, done : BOOLEAN, checkpoint : Nat]
        BY DEF LibraryInv, Typed
      <3> HIDE DEF yes
      <3>3. a \in [known : BOOLEAN, done : BOOLEAN, checkpoint : Nat]
        BY <3>2
      <3> HIDE DEF a
      <3>4. b \in [known : BOOLEAN, done : BOOLEAN, checkpoint : Nat]
        BY <1>5, <3>3
      <3> HIDE DEF b
      <3> QED
        BY <1>5, <2>2, <3>1, <3>4, RowFacts DEF Ends
    <2> QED
      BY <1>1, <2>1, <2>2
  <1>8. Typed'
    <2>1. phase' \in {"down", "up", "stopping"}
      BY <1>6 DEF LibraryInv, Typed
    <2> QED
      BY <1>2, <1>3, <1>6, <1>7, <2>1 DEF LibraryInv, Typed, WorkerRecord
  <1>9. WorkerInv'
    <2>1. \A v \in Videos : vids'[v].home = "none" => vids'[v] = Unknown
      BY <1>2 DEF LibraryInv, WorkerInv
    <2>2. CASE worker'.pc \in {"idle", "videos"}
      BY <1>1, <1>3, <1>4, <1>6, <2>1, <2>2, GatherSafe DEF Stages
    <2>3. CASE worker'.pc = "off" \/ worker'.pc = "list"
      BY <1>1, <1>3, <1>4, <1>6, <2>1, <2>3 DEF LibraryInv, WorkerInv, Stages
    <2> QED
      BY <1>6, <2>2, <2>3
  <1>10. \A v \in Videos : vids[v].home = "channel" \/ v \in S => vids'[v].home = "channel"
    BY <1>2
  <1>11. CollectInv'
    <2>1. CASE Continues
      <3>1. /\ run'.token = Next0(run.token) /\ run'.cutoff = run.cutoff
            /\ run'.initial = run.initial /\ chan' = chan /\ setup' = setup
            /\ run'.status # "none"
        BY <1>4, <2>1 DEF Continues
      <3>2. RunActive' /\ (run'.status = "none" <=> run' = NoRun)
        BY <3>1 DEF RunActive, NoRun
      <3>3. run'.initial <=> ~chan'.done
        BY <1>4, <3>1, Zenon DEF LibraryInv, CollectInv
      <3>4. ~chan'.done => chan'.checkpoint = 0
        BY <3>1, Zenon DEF LibraryInv, CollectInv
      <3>5. NothingMissed'
        BY <1>10, <3>1 DEF LibraryInv, CollectInv, NothingMissed
      <3>6. ~run'.initial => \A v \in Videos :
               /\ setup' < v /\ v <= run'.cutoff
               /\ v + run'.token > published' /\ v + Overlap > chan'.checkpoint
               => vids'[v].home = "channel"
        <4> SUFFICES ASSUME ~run'.initial, NEW v \in Videos, setup' < v, v <= run'.cutoff,
                            v + run'.token > published', v + Overlap > chan'.checkpoint
                     PROVE  vids'[v].home = "channel"
          OBVIOUS
        <4>1. /\ setup < v /\ v <= run.cutoff /\ v + Overlap > chan.checkpoint
              /\ v + Next0(run.token) > published
          BY <1>3, <3>1
        <4>2. ~run.initial
          BY <3>1, Zenon
        <4>3. published < v + run.token + PageSize
          BY <1>5, <4>1 DEF Next0
        <4>4. vids[v].home = "channel" \/ v \in S
          BY <1>4, <4>1, <4>2, <4>3, PageRead DEF S
        <4> QED
          BY <1>10, <4>4
      <3>7. run'.cutoff <= published'
        BY <1>3, <1>5, <3>1
      <3> QED
        BY <3>2, <3>3, <3>4, <3>5, <3>6, <3>7, Zenon DEF CollectInv
    <2>2. CASE Ends
      <3>1. /\ run' = NoRun /\ setup' = IF run.initial THEN run.cutoff ELSE setup
            /\ run.initial \/ Next0(run.token) = 0 \/ past
        BY <2>2 DEF Ends
      <3>2. chan'.done /\ chan'.checkpoint = run.cutoff
        <4> DEFINE yes == TRUE
                   a == [chan EXCEPT !.done = yes]
                   b == [a EXCEPT !.checkpoint = run.cutoff]
        <4>1. chan' = b
          BY <2>2, Zenon DEF Ends, Collected
        <4>2. chan \in [known : BOOLEAN, done : BOOLEAN, checkpoint : Nat]
          BY DEF LibraryInv, Typed
        <4> HIDE DEF yes
        <4>3. a = [known |-> chan.known, done |-> yes, checkpoint |-> chan.checkpoint]
          BY <4>2
        <4> HIDE DEF a
        <4>4. b = [known |-> chan.known, done |-> yes, checkpoint |-> run.cutoff]
          BY <4>3
        <4> HIDE DEF b
        <4>5. chan'.done = yes /\ chan'.checkpoint = run.cutoff
          BY <4>1, <4>4
        <4> QED
          BY <4>5, Zenon DEF yes
      <3>3. ~RunActive' /\ run'.status = "none" /\ worker'.pc # "list"
        BY <1>6, <3>1, <1>4 DEF RunActive, NoRun
      <3>4. NothingMissed'
        <4> SUFFICES ASSUME NEW v \in Videos, setup' < v, v <= chan'.checkpoint
                     PROVE  vids'[v].home = "channel"
          BY DEF NothingMissed
        <4>1. v <= run.cutoff
          BY <3>2
        <4>2. ~run.initial /\ setup < v
          BY <1>5, <3>1, <4>1
        <4>3. CASE v + Overlap <= chan.checkpoint
          <5>1. v <= chan.checkpoint
            BY <1>5, <4>3
          <5>2. vids[v].home = "channel"
            BY <4>2, <5>1 DEF LibraryInv, CollectInv, NothingMissed
          <5> QED
            BY <1>10, <5>2
        <4>4. CASE v + Overlap > chan.checkpoint
          <5>1. v + run.token > published \/ published < v + run.token + PageSize
            <6>1. CASE Next0(run.token) = 0
              BY <1>5, <6>1 DEF Next0
            <6>2. CASE past
              <7>1. PICK p \in page : p + Overlap <= chan.checkpoint
                BY <6>2
              <7>2. p \in Nat /\ published < p + run.token + PageSize
                BY <1>5, <7>1 DEF Page
              <7>3. p < v
                BY <1>5, <4>4, <7>1, <7>2
              <7> QED
                BY <1>5, <7>2, <7>3
            <6> QED
              BY <3>1, <4>2, <6>1, <6>2
          <5>2. vids[v].home = "channel" \/ v \in S
            BY <1>4, <4>1, <4>2, <4>4, <5>1, PageRead DEF S
          <5> QED
            BY <1>10, <5>2
        <4> QED
          BY <1>5, <4>3, <4>4
      <3> QED
        BY <3>1, <3>2, <3>3, <3>4, Zenon DEF CollectInv
    <2> QED
      BY <1>1, <2>1, <2>2
  <1>12. CauseInv'
    BY <1>2, <1>3, CauseKept DEF LibraryInv
  <1>13. CountInv'
    <2>1. \A v \in Videos : Owed(v)' => Owed(v)
      BY <1>2, <1>3, <1>4 DEF Owed
    <2>2. lives \in Nat /\ faults \in Nat
      BY Unmoved
    <2> QED
      BY <1>2, <1>3, <2>1, <2>2, CountKept DEF LibraryInv
  <1>14. ReadyStays
    BY <1>2 DEF ReadyStays
  <1> QED
    BY <1>8, <1>9, <1>11, <1>12, <1>13, <1>14 DEF LibraryInv

----------------------------------------------------------------------------
LEMMA InitSafe == Init => LibraryInv
  <1> SUFFICES ASSUME Init PROVE LibraryInv
    OBVIOUS
  <1>1. /\ NoChan \in [known : BOOLEAN, done : BOOLEAN, checkpoint : Nat]
        /\ NoChan.checkpoint = 0
    BY DEF NoChan
  <1>2. NoJob \in JobRecord /\ NoJob.video = 0 /\ NoJob.status = "none"
    BY ConstantsAssumption DEF NoJob, JobRecord
  <1>3. Unknown.status = "pending" /\ Unknown.job = 0 /\ Unknown.home = "none"
    BY DEF Unknown, New
  <1>4. Off.pc = "off" /\ Off \in WorkerRecord
    BY OffTyped DEF Off, At
  <1>5. /\ published = 0 /\ chan = NoChan /\ setup = 0 /\ run = NoRun
        /\ vids = [v \in Videos |-> Unknown] /\ sources = {} /\ attempts = {}
        /\ chunks = [v \in Videos |-> 0] /\ jobs = [j \in JobIds |-> NoJob]
        /\ worker = Off /\ phase = "down"
        /\ enqueued = 0 /\ faults = 0 /\ lives = 0 /\ retries = 0
    BY DEF Init
  <1>6. Typed
    <2>1. published \in 0..MaxVideos /\ 0 \in 0..Parts
      BY <1>5, ConstantsAssumption
    <2>2. vids \in [Videos -> Rows] /\ chunks \in [Videos -> 0..Parts]
          /\ jobs \in [JobIds -> JobRecord]
      BY <1>2, <1>5, <2>1, RowFacts
    <2> QED
      BY <1>1, <1>4, <1>5, <2>1, <2>2, RowFacts DEF Typed, JobRecord, WorkerRecord
  <1>7. WorkerInv
    BY <1>3, <1>4, <1>5 DEF WorkerInv, Stages
  <1>8. CollectInv
    <2>1. NoRun.status = "none"
      BY DEF NoRun
    <2>2. ~RunActive
      BY <1>5 DEF RunActive
    <2>3. \A v \in Videos : ~(v <= 0)
      BY ConstantsAssumption DEF Videos
    <2>4. NothingMissed
      BY <1>1, <1>5, <2>3 DEF NothingMissed
    <2> QED
      BY <1>1, <1>4, <1>5, <2>1, <2>2, <2>4 DEF CollectInv
  <1>9. CauseInv
    BY <1>2, <1>3, <1>5 DEF CauseInv, FailureHasCause
  <1>10. CountInv
    <2>1. \A v \in Videos : v # 0
      BY DEF Videos
    <2>2. \A v \in Videos : JobsOf(v) = {}
      BY <1>2, <1>5, <2>1 DEF JobsOf
    <2>3. \A v \in Videos : Cardinality(JobsOf(v)) = 0
      BY <2>2, FS_EmptySet
    <2>4. \A v \in Videos : ~Owed(v) /\ vids[v].job = 0
      BY <1>3, <1>5 DEF Owed
    <2> QED
      BY <1>5, <2>3, <2>4 DEF CountInv, SubmittedOnce
  <1> QED
    BY <1>6, <1>7, <1>8, <1>9, <1>10 DEF LibraryInv

LEMMA NextSafe == LibraryInv /\ [Next]_vars => LibraryInv' /\ ReadyStays
  <1> SUFFICES ASSUME LibraryInv, [Next]_vars PROVE LibraryInv' /\ ReadyStays
    OBVIOUS
  <1>1. CASE Start
    BY <1>1, StartSafe
  <1>2. CASE Crash \/ Stop \/ Exit
    BY <1>2, PhaseSafe
  <1>3. CASE WorkerStep
    BY <1>3, TickSafe, PageSafe, ListFailsSafe, LoopStopsSafe, BeginSafe, SubmitSafe, FailsSafe,
       PollSafe, SavePartSafe, PublishesSafe DEF WorkerStep
  <1>4. CASE Owner
    BY <1>4, OwnerCollects, AddVideoSafe, RetrySafe DEF Owner
  <1>5. CASE World
    BY <1>5, PublishSafe, RunElapsesSafe, VideoElapsesSafe, SixHoursSafe, JobEndsSafe DEF World
  <1>6. CASE UNCHANGED vars
    <2>1. UNCHANGED <<published, chan, setup, run, vids, sources, chunks, attempts, jobs, worker,
                      phase, enqueued, faults, lives, retries>>
      BY <1>6 DEF vars, library, counts
    <2>2. Typed' /\ WorkerInv'
      BY <2>1 DEF LibraryInv, Typed, WorkerInv
    <2>3. CollectInv'
      BY <2>1, CollectStays DEF LibraryInv
    <2> QED
      BY <2>1, <2>2, <2>3, VideosKept DEF LibraryInv
  <1> QED
    BY <1>1, <1>2, <1>3, <1>4, <1>5, <1>6 DEF Next

----------------------------------------------------------------------------
(* The library's invariant holds: its types, where the worker is, what the   *)
(* collection has, the causes of failures and the submissions still to come. *)
THEOREM LibraryIsSound == Spec => []LibraryInv
  BY InitSafe, NextSafe, PTL DEF Spec

(* Every row of the database, and all else, has the type the code gives it.  *)
THEOREM LibraryTyped == Spec => []Typed
  <1>1. LibraryInv => Typed
    BY DEF LibraryInv
  <1> QED
    BY <1>1, LibraryIsSound, PTL

(* Criteria 10 and 11: no collection moves the checkpoint past a video it    *)
(* did not put into the library, for pages, a limit of pages, a first limit  *)
(* and an overlap of any size, and any crashes and failures.                 *)
THEOREM CollectionsMissNothing == Spec => []NothingMissed
  <1>1. LibraryInv => NothingMissed
    BY DEF LibraryInv, CollectInv
  <1> QED
    BY <1>1, LibraryIsSound, PTL

(* Criterion 15: while no provider has failed, a video waits or fails for    *)
(* nothing but the time its job took, however often the process dies.        *)
THEOREM FailuresHaveCauses == Spec => []FailureHasCause
  <1>1. LibraryInv => FailureHasCause
    BY DEF LibraryInv, CauseInv
  <1> QED
    BY <1>1, LibraryIsSound, PTL

(* Criteria 15 and 24: a video has no more jobs than the lives of the        *)
(* process and the failures that could have cost it one.                     *)
THEOREM SubmissionsAreBounded == Spec => []SubmittedOnce
  <1>1. LibraryInv => SubmittedOnce
    BY DEF LibraryInv, CountInv
  <1> QED
    BY <1>1, LibraryIsSound, PTL

(* Criterion 12: a video that is ready stays ready.                          *)
THEOREM ReadyVideosStay == Spec => ReadyForGood
  <1>1. LibraryInv /\ [Next]_vars =>
          [\A v \in Videos : vids[v].status = "ready" => vids'[v].status = "ready"]_vars
    BY NextSafe DEF ReadyStays
  <1> QED
    BY <1>1, LibraryIsSound, PTL DEF Spec, ReadyForGood
=============================================================================
