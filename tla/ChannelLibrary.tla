--------------------------- MODULE ChannelLibrary ---------------------------
(***************************************************************************)
(* The channel library: one followed channel, its collection runs, the      *)
(* videos it finds, and the worker that turns each video into a transcript  *)
(* with corrected text.  Everything is kept in one SQLite file; a statement *)
(* or a transaction is one step.  The worker is a single loop that gives up *)
(* control only while it waits for a provider, so its steps are the calls   *)
(* to providers with all the code that follows them.                        *)
(*                                                                          *)
(* Videos are numbered in the order of their publication, and a time is the *)
(* number of videos published by then.                                      *)
(***************************************************************************)
EXTENDS Naturals, FiniteSets

CONSTANTS
    MaxVideos,    \* bound on the videos of the channel
    Processed,    \* bound: the videos the worker takes up; the others stay pending
    PageSize,     \* videos on a page of the channel's listing (50)
    InitialLimit, \* videos the first collection takes (10)
    PagesPerPass, \* pages a collection reads before it lets others go (100)
    Overlap,      \* how far before its checkpoint a collection looks (7 days)
    Parts,        \* parts a transcript is corrected in
    MaxAttempts,  \* attempts of a collection, or of a stage of a video (3)
    MaxJobs,      \* bound on the jobs of the transcript service
    MaxRuns,      \* bound on the collections
    MaxTroubles   \* bound on the lives of the process, failures and retries together

ASSUME ConstantsAssumption ==
    /\ {PageSize, InitialLimit, PagesPerPass, Parts, MaxAttempts} \subseteq Nat \ {0}
    /\ Processed \subseteq 1..MaxVideos
    /\ {MaxVideos, Overlap, MaxJobs, MaxRuns, MaxTroubles} \subseteq Nat

VARIABLES
    published, \* the channel's videos so far are 1..published
    chan,      \* the row of the channel
    setup,     \* history: the cutoff of the collection that set the channel up
    run,       \* the row of its last collection run
    vids,      \* the rows of the videos
    sources,   \* the videos whose original transcript is saved
    chunks,    \* how many parts of each video are saved
    attempts,  \* the videos with an active row in the table of attempts
    jobs,      \* external: the jobs of the transcript service
    worker,    \* where the worker's loop stands
    phase,     \* "down", "up" or "stopping"
    enqueued, faults, lives, retries

library == <<chan, setup, run, vids, sources, chunks, attempts>>
counts  == <<enqueued, faults, lives, retries>>
vars    == <<published, library, jobs, worker, phase, counts>>

----------------------------------------------------------------------------
Videos   == 1..MaxVideos
JobIds   == 1..MaxJobs
Settled  == {"ready", "failed"}
Pending  == {"pending", "transcribing", "enriching", "retry_wait", "retry_due"}

NoJob    == [video |-> 0, status |-> "none"]
NoRun    == [status |-> "none", token |-> 0, cutoff |-> 0, initial |-> FALSE, seen |-> 0,
             attempts |-> 0]  \* none, or the last one has ended
NoChan   == [known |-> FALSE, done |-> FALSE, checkpoint |-> 0]
New(home, job) == [home |-> home, status |-> "pending", job |-> job,
                   old |-> FALSE, attempts |-> 0, failure |-> "none"]
Unknown  == New("none", 0)
At(pc, v, due, pages) == [pc |-> pc, video |-> v, due |-> due, pages |-> pages]
Off      == At("off", 0, {}, 0)
Idle     == At("idle", 0, {}, 0)

RunActive == run # NoRun
Serving   == phase # "down"
JobsOf(v) == {j \in JobIds : jobs[j].video = v}
NextJob   == {j \in JobIds : jobs[j] = NoJob /\ \A i \in 1..(j - 1) : jobs[i] # NoJob}
Due(rows) == {v \in Processed : rows[v].home # "none" /\ rows[v].status \in Pending \ {"retry_wait"}}

Init ==
    /\ published = 0 /\ chan = NoChan /\ setup = 0 /\ run = NoRun
    /\ vids = [v \in Videos |-> Unknown] /\ sources = {} /\ attempts = {}
    /\ chunks = [v \in Videos |-> 0] /\ jobs = [j \in JobIds |-> NoJob]
    /\ worker = Off /\ phase = "down"
    /\ enqueued = 0 /\ faults = 0 /\ lives = 0 /\ retries = 0

Troubled == lives + faults + retries < MaxTroubles
Fault == Troubled /\ faults' = faults + 1 /\ UNCHANGED <<enqueued, lives, retries>>

----------------------------------------------------------------------------
(* The process.                                                              *)

\* seeded fault: a restart leaves the attempts of the last life active
AttemptsLeft == attempts
AttemptsRecovered == {}

Start ==
    /\ phase = "down" /\ phase' = "up" /\ worker' = Idle
    /\ Troubled /\ lives' = lives + 1
    /\ attempts' = AttemptsRecovered
    /\ run' = IF run.status = "processing" THEN [run EXCEPT !.status = "pending"] ELSE run
    /\ UNCHANGED <<published, chan, setup, vids, sources, chunks, jobs, enqueued, faults,
                   retries>>

Down == phase' = "down" /\ worker' = Off

Crash ==
    /\ phase # "down" /\ Down
    /\ UNCHANGED <<published, library, jobs, counts>>

Stop ==
    /\ phase = "up" /\ phase' = "stopping"
    /\ UNCHANGED <<published, library, jobs, worker, counts>>

Exit ==
    /\ phase = "stopping" /\ worker.pc = "idle" /\ Down
    /\ UNCHANGED <<published, library, jobs, counts>>

----------------------------------------------------------------------------
(* The owner, the world outside, and time.                                   *)

NewRun == [status |-> "pending", token |-> 0, cutoff |-> published, initial |-> ~chan.done,
           seen |-> 0, attempts |-> 0]

AddChannel ==
    /\ Serving /\ ~chan.known
    /\ chan' = [chan EXCEPT !.known = TRUE]
    /\ run' = NewRun /\ enqueued' = enqueued + 1
    /\ UNCHANGED <<published, setup, vids, sources, chunks, attempts, jobs, worker, phase,
                   faults, lives, retries>>

(* enqueue answers with the active run if there is one.                      *)
Sync ==
    /\ Serving /\ chan.known /\ ~RunActive
    /\ run' = NewRun /\ enqueued < MaxRuns /\ enqueued' = enqueued + 1
    /\ UNCHANGED <<published, chan, setup, vids, sources, chunks, attempts, jobs, worker, phase,
                   faults, lives, retries>>

AddVideo(v) ==
    /\ Serving /\ v \in Processed /\ v <= published /\ vids[v].home = "none"
    /\ vids' = [vids EXCEPT ![v] = New("alone", 0)]
    /\ UNCHANGED <<published, chan, setup, run, sources, chunks, attempts, jobs, worker, phase,
                   counts>>

(* A retry asks the job again that ran out of time, and no other job.        *)
\* seeded fault: the job that ran out of time is given up
KeptNever(v) == 0
JobKept(v) == IF vids[v].failure = "timeout" THEN vids[v].job ELSE 0

Retry(v) ==
    /\ Serving /\ vids[v].status = "failed"
    /\ Troubled /\ retries' = retries + 1
    /\ vids' = [vids EXCEPT ![v] =
         IF v \in sources
         THEN [@ EXCEPT !.status = "enriching", !.attempts = 0, !.failure = "none"]
         ELSE New(@.home, JobKept(v))]
    /\ UNCHANGED <<published, chan, setup, run, sources, chunks, attempts, jobs, worker, phase,
                   enqueued, faults, lives>>

Publish ==
    /\ published < MaxVideos /\ published' = published + 1
    /\ UNCHANGED <<library, jobs, worker, phase, counts>>

(* A status "retry_wait" whose time has come is "retry_due"; the shorter     *)
(* waits are no longer than the two seconds between the worker's rounds.     *)
(* SixHours: so much time has passed since the video's job was submitted.    *)
RunElapses ==
    /\ run.status = "retry_wait" /\ run' = [run EXCEPT !.status = "retry_due"]
    /\ UNCHANGED <<published, chan, setup, vids, sources, chunks, attempts, jobs, worker, phase,
                   counts>>

VideoElapses(v) ==
    /\ vids[v].status = "retry_wait"
    /\ vids' = [vids EXCEPT ![v].status = "retry_due"]
    /\ UNCHANGED <<published, chan, setup, run, sources, chunks, attempts, jobs, worker, phase,
                   counts>>

SixHours(v) ==
    /\ vids[v].job # 0 /\ ~vids[v].old /\ v \notin sources
    /\ vids' = [vids EXCEPT ![v].old = TRUE]
    /\ UNCHANGED <<published, chan, setup, run, sources, chunks, attempts, jobs, worker, phase,
                   counts>>

JobEnds(j) ==
    /\ jobs[j].status = "queued"
    /\ \/ jobs' = [jobs EXCEPT ![j].status = "completed"] /\ UNCHANGED counts
       \/ jobs' = [jobs EXCEPT ![j].status = "failed"] /\ Fault
    /\ UNCHANGED <<published, library, worker, phase>>

----------------------------------------------------------------------------
(* Worker.run: the schedule, then the run that is due, then the videos that  *)
(* are due once the run has ended.                                           *)
Left(S)      == IF S = {} THEN Idle ELSE At("videos", 0, S, 0)
Gather(rows) == worker' = Left(Due(rows))

(* schedule enqueues a collection if the channel's daily slot has come; a     *)
(* channel that is paused has no slot, and none is enqueued by hand.          *)
Collecting(r) ==
    /\ run' = [r EXCEPT !.status = "processing"] /\ worker' = At("list", 0, {}, 0)

Tick ==
    /\ phase = "up" /\ worker.pc = "idle"
    /\ \/ run.status \in {"pending", "processing", "retry_due"} /\ Collecting(run)
          /\ UNCHANGED enqueued
       \/ chan.known /\ ~RunActive /\ Collecting(NewRun)
          /\ enqueued < MaxRuns /\ enqueued' = enqueued + 1
       \/ run.status \in {"none", "retry_wait"} /\ Gather(vids)
          /\ UNCHANGED <<run, enqueued>>
    /\ UNCHANGED <<published, chan, setup, vids, sources, chunks, attempts, jobs, phase, faults,
                   lives, retries>>

(* The listing, newest first; a token counts the videos listed before.       *)
Page(token) ==
    {v \in Videos : v <= published /\ v + token <= published /\ published < v + token + PageSize}
Next0(token)   == IF published > token + PageSize THEN token + PageSize ELSE 0
Newest(S, n)   == {v \in S : Cardinality({w \in S : w > v}) < n}
Eligible(page) ==
    IF run.initial
    THEN IF run.seen >= InitialLimit THEN {} ELSE Newest(page, InitialLimit - run.seen)
    ELSE {v \in page : v + Overlap > chan.checkpoint}

(* insertVideos: a video that was added individually joins its channel and   *)
(* keeps its progress; one that is known to the channel is left alone.       *)
\* seeded fault: a video that joins its channel starts again
Restarted(v) == New("channel", 0)
Attached(v)  == [vids[v] EXCEPT !.home = "channel"]
Inserted(S)  == [v \in Videos |-> IF v \in S THEN Attached(v) ELSE vids[v]]

\* seeded fault: the checkpoint is the time the collection ends
CheckpointAtTheEnd == [chan EXCEPT !.done = TRUE, !.checkpoint = published]
Collected == [chan EXCEPT !.done = TRUE, !.checkpoint = run.cutoff]

(* The page and the cursor are one transaction, the completion is the next.  *)
PageArrives ==
    LET page == Page(run.token)
        S    == Eligible(page)
        read == [run EXCEPT !.seen = @ + Cardinality(S), !.token = Next0(@)]
        past == ~run.initial /\ page # {} /\ \A v \in page : v + Overlap <= chan.checkpoint
        last == read.token = 0 \/ past \/ (run.initial /\ read.seen >= InitialLimit)
    IN
    /\ worker.pc = "list" /\ vids' = Inserted(S)
    /\ \/ run' = read /\ Down /\ UNCHANGED <<chan, setup>>
       \/ /\ last
          /\ run' = NoRun
          /\ chan' = Collected /\ setup' = IF run.initial THEN run.cutoff ELSE setup
          /\ Gather(vids') /\ UNCHANGED phase
       \/ /\ ~last /\ worker.pages + 1 = PagesPerPass
          /\ run' = [read EXCEPT !.status = "pending"]
          /\ Gather(vids') /\ UNCHANGED <<chan, setup, phase>>
       \/ /\ ~last /\ worker.pages + 1 < PagesPerPass
          /\ IF phase = "stopping"
             THEN run' = [read EXCEPT !.status = "pending"] /\ Gather(vids')
             ELSE run' = read /\ worker' = At("list", 0, {}, worker.pages + 1)
          /\ UNCHANGED <<chan, setup, phase>>
    /\ UNCHANGED <<published, sources, chunks, attempts, jobs, counts>>

\* seeded fault: the attempts before the last one are forgotten
FirstAttempt(n) == 1
Attempt(n) == n + 1
Again(n) == n < MaxAttempts

ListFails ==
    /\ worker.pc = "list"
    /\ \E retryable \in BOOLEAN :
         LET n == Attempt(run.attempts)
             again == retryable /\ Again(n)
         IN
         /\ run' = IF again
                   THEN [run EXCEPT !.status = "retry_wait", !.attempts = n]
                   ELSE NoRun
    /\ Gather(vids)
    /\ UNCHANGED <<published, chan, setup, phase, vids, sources, chunks, attempts, jobs, counts>>

----------------------------------------------------------------------------
(* Worker.processVideo.                                                      *)

Doing(pc) == worker' = [worker EXCEPT !.pc = pc]

(* The end of processVideo, whatever its outcome.                            *)
Done(v) == worker' = Left(worker.due \ {v}) /\ attempts' = attempts \ {v}

Failed(v, code, retryable) ==
    LET n == Attempt(vids[v].attempts)
        again == retryable /\ Again(n)
    IN
    [vids[v] EXCEPT !.attempts = n, !.failure = code,
                    !.status = IF again THEN "retry_wait" ELSE "failed"]

FailVideo(r) ==
    vids' = [vids EXCEPT ![worker.video] = r] /\ Done(worker.video)

(* What a provider may have said: refused for now, or refused; a video that  *)
(* is not available is a refusal under another name.                         *)
Refusals(v) == {Failed(v, "other", TRUE), Failed(v, "other", FALSE)}

LoopStops ==
    /\ worker.pc = "videos" /\ phase = "stopping"
    /\ worker' = Idle
    /\ UNCHANGED <<published, library, jobs, phase, counts>>

\* seeded fault: the six hours are counted anew with every poll
NeverTimedOut(v) == FALSE
TimedOut(v) == vids[v].job # 0 /\ vids[v].old

(* startAttempt fails while an attempt of the video is active.               *)
Begun(v) ==
    CASE v \in attempts -> Failed(v, "other", TRUE)
      [] v \in sources \ attempts ->
             [vids[v] EXCEPT !.status = "enriching"]
      [] v \notin sources \cup attempts /\ TimedOut(v) -> Failed(v, "timeout", FALSE)
      [] OTHER -> [vids[v] EXCEPT !.status = "transcribing"]

Begin ==
    /\ worker.pc = "videos" /\ phase = "up"
    /\ \E v \in worker.due :
         LET pc == CASE v \in sources -> "enrich"
                     [] v \notin sources /\ vids[v].job = 0 -> "submit"
                     [] OTHER -> "poll"
         IN
         /\ vids' = [vids EXCEPT ![v] = Begun(v)]
         /\ IF vids'[v].status \in {"failed", "retry_wait"}
            THEN worker' = Left(worker.due \ {v}) /\ UNCHANGED attempts
            ELSE worker' = At(pc, v, worker.due, 0) /\ attempts' = attempts \cup {v}
    /\ UNCHANGED <<published, chan, setup, run, sources, chunks, jobs, phase, counts>>

(* The service is not assumed to answer a second submission with the same job. *)
NewJob(j) == jobs' = [jobs EXCEPT ![j] = [video |-> worker.video, status |-> "queued"]]

Submit ==
    /\ worker.pc = "submit"
    /\ \E j \in NextJob :
         /\ NewJob(j)
         /\ \/ /\ vids' = [vids EXCEPT ![worker.video].job = j, ![worker.video].old = FALSE]
               /\ Doing("poll") /\ UNCHANGED phase
            \/ Down /\ UNCHANGED vids
    /\ UNCHANGED <<published, chan, setup, run, sources, chunks, attempts, counts>>

(* The answer to a submission may be lost after the job was created.         *)
SubmitFails ==
    /\ worker.pc = "submit" /\ Fault
    /\ UNCHANGED jobs \/ \E j \in NextJob : NewJob(j)
    /\ \E r \in Refusals(worker.video) : FailVideo(r)
    /\ UNCHANGED <<published, chan, setup, run, sources, chunks, phase>>

(* Before each part the worker looks whether it has been stopped.            *)
Enriching(v, saved) ==
    IF phase = "stopping" /\ saved < Parts THEN Done(v) ELSE Doing("enrich") /\ UNCHANGED attempts

Poll ==
    LET v == worker.video
        j == jobs[vids[v].job]
    IN
    /\ worker.pc = "poll"
    /\ \/ /\ j.status = "queued"
          /\ Done(v) /\ UNCHANGED <<vids, sources>>
       \/ /\ j.status = "failed"
          /\ \E r \in Refusals(v) : FailVideo([r EXCEPT !.job = 0, !.old = FALSE])
          /\ UNCHANGED sources
       \/ /\ j.status = "completed"
          /\ sources' = sources \cup {v}
          /\ vids' = [vids EXCEPT ![v].status = "enriching", ![v].attempts = 0]
          /\ Enriching(v, chunks[v])
    /\ UNCHANGED <<published, chan, setup, run, chunks, jobs, phase, counts>>

PollFails ==
    /\ worker.pc = "poll" /\ Fault
    /\ \E r \in Refusals(worker.video) : FailVideo(r)
    /\ UNCHANGED <<published, chan, setup, run, sources, chunks, jobs, phase>>

SavePart ==
    LET v == worker.video IN
    /\ worker.pc = "enrich" /\ chunks[v] < Parts
    /\ chunks' = [chunks EXCEPT ![v] = @ + 1]
    /\ Enriching(v, chunks'[v])
    /\ UNCHANGED <<published, chan, setup, run, vids, sources, jobs, phase, counts>>

(* The summaries are reduced to one, and the result is saved.                *)
Publishes ==
    LET v == worker.video IN
    /\ worker.pc = "enrich" /\ chunks[v] = Parts
    /\ chunks' = [chunks EXCEPT ![v] = 0]
    /\ vids' = [vids EXCEPT ![v].status = "ready", ![v].failure = "none"]
    /\ Done(v)
    /\ UNCHANGED <<published, chan, setup, run, sources, jobs, phase, counts>>

EnrichFails ==
    /\ worker.pc = "enrich" /\ Fault
    /\ \E r \in Refusals(worker.video) : FailVideo(r)
    /\ UNCHANGED <<published, chan, setup, run, sources, chunks, jobs, phase>>

----------------------------------------------------------------------------
WorkerStep ==
    \/ Tick \/ PageArrives \/ ListFails \/ LoopStops \/ Begin
    \/ Submit \/ SubmitFails \/ Poll \/ PollFails \/ SavePart \/ Publishes \/ EnrichFails

Owner ==
    \/ AddChannel \/ Sync
    \/ \E v \in Videos : AddVideo(v) \/ Retry(v)

World ==
    \/ Publish \/ RunElapses
    \/ \E v \in Videos : VideoElapses(v) \/ SixHours(v)
    \/ \E j \in JobIds : JobEnds(j)

Next == Start \/ Crash \/ Stop \/ Exit \/ WorkerStep \/ Owner \/ World

Spec == Init /\ [][Next]_vars

(* Providers answer or time out, time passes, and the tick comes every two   *)
(* seconds; the transcript service need not ever finish a job.               *)
Fairness ==
    /\ WF_vars(WorkerStep) /\ WF_vars(RunElapses)
    /\ \A v \in Videos : WF_vars(VideoElapses(v)) /\ WF_vars(SixHours(v))

FairSpec == Spec /\ Fairness

----------------------------------------------------------------------------
(* Criteria 10 and 11: whatever fails, crashes or is published meanwhile,    *)
(* every video since the start of the collection that set the channel up is  *)
(* in the library up to the checkpoint: it never moves past an unread page.  *)
NothingMissed ==
    \A v \in Videos : setup < v /\ v <= chan.checkpoint => vids[v].home = "channel"

(* Criterion 15: a crash or a stop costs a video nothing: it fails or waits  *)
(* for a retry only after a provider failed or its job ran out of time.      *)
FailureHasCause ==
    faults = 0 => \A v \in Videos :
        \/ vids[v].status \notin {"retry_wait", "retry_due", "failed"}
        \/ vids[v].failure = "timeout"

(* Criteria 15 and 24: a video is submitted again only after a failure or a  *)
(* crash; a retry after the time limit asks for the job it has.              *)
SubmittedOnce == \A v \in Videos : Cardinality(JobsOf(v)) <= lives + faults

(* Criterion 12: a video that is ready to read stays so, also when its       *)
(* channel's collection finds it again.                                      *)
ReadyForGood ==
    [][\A v \in Videos : vids[v].status = "ready" => vids'[v].status = "ready"]_vars

(* Every video ends up ready or with a failure the owner can see, even if    *)
(* the transcript service never answers about its job: no retry loop, no     *)
(* poll without an end.                                                      *)
VideoEnds ==
    \A v \in Processed :
        (vids[v].home # "none" /\ vids[v].status \in Pending)
        ~> (vids[v].status \in Settled \/ phase # "up")

(* Every collection ends: failures are retried at most three times, and a    *)
(* long listing is read on where it was left.                                *)
CollectionEnds == RunActive ~> (~RunActive \/ phase # "up")
=============================================================================
