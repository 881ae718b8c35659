------------------------ MODULE TranscriptExecution ------------------------
(***************************************************************************)
(* The production of a transcript under an execution permit: captions, or   *)
(* else the audio is downloaded, converted and transcribed chunk by chunk   *)
(* in a temporary directory.  HTTP requests take a permit or are turned     *)
(* away with 429; the durable worker waits for one.  A client that leaves,  *)
(* a timeout, a tool that does not stop and a shutdown meet the production  *)
(* at any of its awaits.  What follows an await up to the next is one step. *)
(*                                                                          *)
(* A client that leaves while its request still looks for a cached          *)
(* artifact is never noticed: the listeners are added after that await.     *)
(***************************************************************************)
EXTENDS Naturals, Sequences, FiniteSets, SequencesExt

CONSTANTS Requests,   \* the clients of POST /v1/transcripts and its PDF
          Workers,    \* the durable worker's loop
          MaxPermits, \* MAX_CONCURRENT_TRANSCRIPTS
          Chunks      \* chunks of an audio

ASSUME ConstantsAssumption ==
    /\ Requests \cap Workers = {} /\ {MaxPermits, Chunks} \subseteq Nat \ {0}

VARIABLES
    ready,   \* #ready of the controller
    active,  \* the tasks that hold a permit (#active)
    waiters, \* the tasks that wait for one (#waiters)
    pc,      \* what each task awaits
    aborted, \* the tasks whose signal is aborted
    tool,    \* the tool a task awaits and the reason it was told to stop
    chunk,   \* the chunk at Muse, or 0
    dirs,    \* the tasks whose temporary directory exists
    result   \* how the task's operation ends, or ended

permits == <<ready, active, waiters>>
work    == <<tool, chunk, dirs>>
vars    == <<permits, pc, aborted, work, result>>

Tasks   == Requests \cup Workers
Reasons == {"timeout", "aborted"}
InTool  == {"download", "convert"}
Awaits  == InTool \cup {"granted", "captions", "mkdir", "downloaded", "converted", "muse",
                        "cleanup", "publish"}

(* Every variable has the type the code gives it.                            *)
TypeOK ==
    /\ ready \in BOOLEAN /\ active \subseteq Tasks /\ waiters \in Seq(Workers)
    /\ pc \in [Tasks -> Awaits \cup {"idle", "waiting"}]
    /\ aborted \subseteq active /\ dirs \subseteq Tasks
    /\ tool \in [Tasks -> {"none", "running"} \cup Reasons]
    /\ chunk \in [Tasks -> 0..Chunks]
    /\ result \in [Tasks -> {"none", "ok", "failed", "left"} \cup Reasons]

Init ==
    /\ ready = TRUE /\ active = {} /\ waiters = <<>> /\ aborted = {} /\ dirs = {}
    /\ pc = [t \in Tasks |-> "idle"] /\ tool = [t \in Tasks |-> "none"]
    /\ chunk = [t \in Tasks |-> 0] /\ result = [t \in Tasks |-> "none"]

----------------------------------------------------------------------------
(* The permits.                                                              *)
Free == Cardinality(active) < MaxPermits

(* A new operation; a directory an earlier one left is not followed further. *)
Fresh(t) == result' = [result EXCEPT ![t] = "none"] /\ dirs' = dirs \ {t}

(* tryAcquire; without a permit the answer is 429 and nothing changes.       *)
TryAcquire(r) ==
    /\ pc[r] = "idle" /\ ready /\ Free
    /\ active' = active \cup {r} /\ pc' = [pc EXCEPT ![r] = "captions"]
    /\ Fresh(r) /\ UNCHANGED <<ready, waiters, aborted, tool, chunk>>

WaitForPermit(w) ==
    /\ pc[w] = "idle" /\ ready /\ Fresh(w)
    /\ \/ /\ Free
          /\ active' = active \cup {w} /\ pc' = [pc EXCEPT ![w] = "granted"]
          /\ UNCHANGED waiters
       \/ /\ ~Free
          /\ waiters' = Append(waiters, w) /\ pc' = [pc EXCEPT ![w] = "waiting"]
          /\ UNCHANGED active
    /\ UNCHANGED <<ready, aborted, tool, chunk>>

(* #admitWaiters, once t has given its permit back: who is let in.           *)
\* seeded fault: release forgets the waiters
AdmitsNobody(t) == 0
Admits(t) ==
    LET free == MaxPermits - Cardinality(active \ {t})
    IN  IF ~ready THEN 0 ELSE IF free < Len(waiters) THEN free ELSE Len(waiters)

(* The operation of t ends: release.                                         *)
Settle(t, r) ==
    LET admitted == Range(SubSeq(waiters, 1, Admits(t)))
    IN  /\ active' = (active \ {t}) \cup admitted
        /\ waiters' = SubSeq(waiters, Admits(t) + 1, Len(waiters))
        /\ pc' = [u \in Tasks |-> IF u = t THEN "idle"
                                  ELSE IF u \in admitted THEN "granted" ELSE pc[u]]
        /\ aborted' = aborted \ {t} /\ result' = [result EXCEPT ![t] = r]
        /\ UNCHANGED ready

(* The signals of ts are aborted: a tool that runs is told to stop.          *)
\* seeded fault: a later reason replaces the first
ToldLate(t, why) == IF tool[t] = "none" THEN "none" ELSE why
Told(t, why) == IF tool[t] = "running" THEN why ELSE tool[t]

AbortAll(ts) ==
    /\ aborted' = aborted \cup ts
    /\ tool' = [t \in Tasks |-> IF t \in ts THEN Told(t, "aborted") ELSE tool[t]]

ClientLeaves(r) ==
    /\ r \in active \ aborted /\ AbortAll({r})
    /\ UNCHANGED <<permits, pc, chunk, dirs, result>>

(* beginShutdown.                                                            *)
\* seeded fault: a waiter is left without an answer
WaitersForgotten == pc
WaitersSettled == [t \in Tasks |-> IF pc[t] = "waiting" THEN "idle" ELSE pc[t]]

BeginShutdown ==
    /\ ready /\ ready' = FALSE
    /\ AbortAll(active) /\ waiters' = <<>> /\ pc' = WaitersSettled
    /\ UNCHANGED <<active, chunk, dirs, result>>

----------------------------------------------------------------------------
(* The production.                                                           *)
Goes(t, stage) == pc' = [pc EXCEPT ![t] = stage] /\ UNCHANGED <<permits, aborted>>
On(t, stage)   == Goes(t, stage) /\ UNCHANGED result

(* assertTranscriptOperationActive, after the directory was removed.         *)
\* seeded fault: the last check is missing
UncheckedAtLast(t) == TRUE
ActiveAtLast(t) == t \notin aborted

(* A stage with the directory ends; its removal is awaited next.             *)
\* seeded fault: a failure skips the removal
EndsUnclean(t, r) == IF r = "ok" THEN Goes(t, "cleanup") /\ result' = [result EXCEPT ![t] = r]
                                 ELSE Settle(t, r)
Ends(t, r) == Goes(t, "cleanup") /\ result' = [result EXCEPT ![t] = r]

(* run: an aborted signal is seen before the tool is started.                *)
StartTool(t, stage) ==
    \/ t \notin aborted /\ On(t, stage) /\ tool' = [tool EXCEPT ![t] = "running"]
    \/ t \in aborted /\ Ends(t, "aborted") /\ UNCHANGED tool

(* The worker's job may have moved on, or its claim fails.                   *)
Begin(w) ==
    /\ pc[w] = "granted" /\ UNCHANGED work
    /\ \/ w \notin aborted /\ On(w, "captions")
       \/ w \in aborted /\ Settle(w, "aborted")
       \/ Settle(w, "failed")

(* The captions come, are missing, or fail; there is no signal to stop them. *)
CaptionsAnswer(t) ==
    /\ pc[t] = "captions" /\ UNCHANGED work
    /\ \/ t \notin aborted /\ On(t, "publish")
       \/ t \notin aborted /\ On(t, "mkdir")
       \/ t \in aborted /\ Settle(t, "aborted")
       \/ Settle(t, "failed")

MakeDirectory(t) ==
    /\ pc[t] = "mkdir" /\ UNCHANGED chunk
    /\ \/ dirs' = dirs \cup {t} /\ StartTool(t, "download")
       \/ Settle(t, "failed") /\ UNCHANGED <<dirs, tool>>

(* The tool ends, by itself or after it was told to; "failed" is also a tool *)
(* that cannot be started.                                                   *)
ToolCloses(t) ==
    /\ pc[t] \in InTool /\ tool' = [tool EXCEPT ![t] = "none"] /\ UNCHANGED <<chunk, dirs>>
    /\ \/ tool[t] = "running" /\ pc[t] = "download" /\ On(t, "downloaded")
       \/ tool[t] = "running" /\ pc[t] = "convert" /\ On(t, "converted")
       \/ tool[t] = "running" /\ Ends(t, "failed")
       \/ tool[t] \in Reasons /\ Ends(t, tool[t])

ToolTimesOut(t) ==
    /\ pc[t] \in InTool /\ tool[t] = "running"
    /\ tool' = [tool EXCEPT ![t] = Told(t, "timeout")]
    /\ UNCHANGED <<permits, pc, aborted, chunk, dirs, result>>

(* The grace has passed: SIGKILL, and the tool is not waited for.            *)
\* seeded fault: the tool is waited for
KillsNever(t) == FALSE
Kills(t) == pc[t] \in InTool /\ tool[t] \in Reasons
ForceKill(t) ==
    /\ Kills(t) /\ Ends(t, tool[t])
    /\ tool' = [tool EXCEPT ![t] = "none"] /\ UNCHANGED <<chunk, dirs>>

(* The directory is read: the audio file, the chunks and their sizes.        *)
Downloaded(t) ==
    /\ pc[t] = "downloaded" /\ UNCHANGED <<chunk, dirs>>
    /\ StartTool(t, "convert") \/ (Ends(t, "failed") /\ UNCHANGED tool)

Converted(t) ==
    /\ pc[t] = "converted" /\ UNCHANGED <<tool, dirs>>
    /\ \/ t \notin aborted /\ On(t, "muse") /\ chunk' = [chunk EXCEPT ![t] = 1]
       \/ t \in aborted /\ Ends(t, "aborted") /\ UNCHANGED chunk
       \/ Ends(t, "failed") /\ UNCHANGED chunk

(* Muse answers for a chunk, refuses, or its request is given up.  An abort  *)
(* that meets the body of the answer is reported as an invalid response.     *)
MuseEnds(t, r) == Ends(t, r) /\ chunk' = [chunk EXCEPT ![t] = 0]

MuseAnswers(t) ==
    /\ pc[t] = "muse" /\ UNCHANGED <<tool, dirs>>
    /\ \/ /\ t \notin aborted /\ chunk[t] < Chunks
          /\ On(t, "muse") /\ chunk' = [chunk EXCEPT ![t] = @ + 1]
       \/ t \notin aborted /\ chunk[t] = Chunks /\ MuseEnds(t, "ok")
       \/ t \in aborted /\ MuseEnds(t, "aborted")
       \/ MuseEnds(t, "failed")

MuseTimesOut(t) == pc[t] = "muse" /\ MuseEnds(t, "timeout") /\ UNCHANGED <<tool, dirs>>

(* The removal of the directory; when it fails, its error replaces the end   *)
(* of the operation, be it a transcript.                                     *)
RemoveDirectory(t) ==
    /\ pc[t] = "cleanup" /\ dirs' = dirs \ {t} /\ UNCHANGED <<tool, chunk>>
    /\ \/ result[t] = "ok" /\ ActiveAtLast(t) /\ On(t, "publish")
       \/ result[t] = "ok" /\ ~ActiveAtLast(t) /\ Settle(t, "aborted")
       \/ result[t] # "ok" /\ Settle(t, result[t])

RemoveFails(t) == pc[t] = "cleanup" /\ Settle(t, "left") /\ UNCHANGED work

(* The PDF, the artifact and the answer, or the completion of the job; no    *)
(* signal is looked at any more.                                             *)
Publish(t) ==
    /\ pc[t] = "publish" /\ UNCHANGED work
    /\ Settle(t, "ok") \/ Settle(t, "failed")

Timer(t) == ToolTimesOut(t) \/ ForceKill(t) \/ MuseTimesOut(t)
Step(t)  == CaptionsAnswer(t) \/ MakeDirectory(t) \/ Downloaded(t) \/ Converted(t)
            \/ RemoveDirectory(t) \/ Publish(t)

Next ==
    \/ \E r \in Requests : TryAcquire(r) \/ ClientLeaves(r)
    \/ \E w \in Workers : WaitForPermit(w) \/ Begin(w)
    \/ \E t \in Tasks : Step(t) \/ Timer(t) \/ ToolCloses(t) \/ MuseAnswers(t) \/ RemoveFails(t)
    \/ BeginShutdown

(* Timers fire, files and the caption library answer, the worker runs on.    *)
(* Neither a tool nor Muse owes anything, and no client has to leave.        *)
Fairness ==
    /\ \A t \in Tasks : WF_vars(Step(t)) /\ WF_vars(Timer(t))
    /\ \A w \in Workers : WF_vars(Begin(w))

Spec     == Init /\ [][Next]_vars
FairSpec == Spec /\ Fairness

----------------------------------------------------------------------------
(* HARD-01 to HARD-03: a task works, and its tool runs, exactly while it     *)
(* holds one of the permits, and nobody waits beside a permit that is free.  *)
PermitsAccounted ==
    /\ Cardinality(active) <= MaxPermits
    /\ \A t \in Tasks : /\ pc[t] \in Awaits <=> t \in active
                        /\ tool[t] # "none" => pc[t] \in InTool
    /\ waiters # <<>> => ready /\ ~Free

(* PROC-06, WORK-07: whatever ended an operation, no temporary directory     *)
(* outlives it unless its removal was tried and failed.                      *)
NothingLeftBehind ==
    \A t \in dirs : pc[t] \in {"idle", "waiting"} => result[t] = "left"

(* PROC-02: what an aborted operation was waiting for is not stored,         *)
(* whichever await the abort met.                                            *)
NothingStoredAfterAbort ==
    [][\A t \in aborted : pc[t] # "publish" => pc'[t] # "publish"]_vars

(* PROC-04: a tool told to stop is reported by the first reason, whatever    *)
(* it still does: a second reason, an error, or an end as if all were well.  *)
FirstReasonWins ==
    [][\A t \in Tasks : tool[t] \in Reasons =>
        tool'[t] = tool[t] \/ (tool'[t] = "none" /\ result'[t] = tool[t])]_vars

(* WORK-02: the worker gets its permit in the end, or shutdown ends the      *)
(* wait, although requests keep coming and tools need not stop.              *)
WaiterServed == \A w \in Workers : pc[w] = "waiting" ~> pc[w] # "waiting"

(* WORK-05: after shutdown begins every operation ends and nothing waits.    *)
ShutdownDrains == ~ready ~> [](\A t \in Tasks : pc[t] = "idle")
=============================================================================
