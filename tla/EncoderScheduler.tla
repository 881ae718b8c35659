-------------------------- MODULE EncoderScheduler --------------------------
(***************************************************************************)
(* RagEncoderScheduler: searches and ingestion batches share one encoder.   *)
(* A call to the scheduler runs to its end before any other; a task that    *)
(* ends does so in two turns: its promise is settled, and one microtask     *)
(* later "active" is cleared and the next task started.  In between its     *)
(* caller, or any other, may already have come back with a new task.        *)
(***************************************************************************)
EXTENDS Naturals, Sequences, Functions, SequencesExt

CONSTANTS Searches, \* callers of runSearch
          Batches   \* callers of runIngestionBatch

ASSUME TasksAssumption == Searches \cap Batches = {}

VARIABLES
    searchWaiters,    \* #searchWaiters
    ingestionWaiters, \* #ingestionWaiters
    active,           \* #active
    running,          \* the tasks whose callback has been started and not ended
    consecutive,      \* #consecutiveWaitingSearches
    stopped,          \* #stopped
    place,            \* history: the place in its queue a batch was given
    passed            \* history: the searches started since a batch queued

vars == <<searchWaiters, ingestionWaiters, active, running, consecutive, stopped, place,
          passed>>

(* The searches let through before one waiting batch ("at most four").      *)
MaxSearches == 4

Tasks   == Searches \cup Batches
Idle(t) == t \notin running \cup Range(searchWaiters) \cup Range(ingestionWaiters)

(* Every variable has the type the code gives it.                           *)
TypeOK ==
    /\ searchWaiters \in Seq(Searches) /\ ingestionWaiters \in Seq(Batches)
    /\ active \in BOOLEAN /\ stopped \in BOOLEAN
    /\ running \subseteq Tasks /\ consecutive \in 0..MaxSearches
    /\ place \in [Batches -> Nat] /\ passed \in [Batches -> Nat]

Init ==
    /\ searchWaiters = <<>> /\ ingestionWaiters = <<>>
    /\ active = FALSE /\ running = {} /\ consecutive = 0 /\ stopped = FALSE
    /\ place = [b \in Batches |-> 0] /\ passed = [b \in Batches |-> 0]

----------------------------------------------------------------------------
(* #next: a search, unless four in a row were let past waiting batches.     *)
\* seeded fault: the fifth search still goes first
SearchFirstLate(sq, iq) == sq # <<>> /\ (iq = <<>> \/ consecutive <= MaxSearches)
SearchFirst(sq, iq) == sq # <<>> /\ (iq = <<>> \/ consecutive < MaxSearches)

Start(t) == active' = TRUE /\ running' = running \cup {t}

(* A search has passed every batch that waits.                              *)
Passing(iq, p) == [b \in Batches |-> IF b \in Range(iq) THEN p[b] + 1 ELSE p[b]]

StartSearch(sq, iq, p) ==
    /\ SearchFirst(sq, iq)
    /\ Start(Head(sq)) /\ searchWaiters' = Tail(sq) /\ ingestionWaiters' = iq
    /\ consecutive' = IF iq # <<>> THEN consecutive + 1 ELSE 0
    /\ passed' = Passing(iq, p)

StartBatch(sq, iq, p) ==
    /\ ~SearchFirst(sq, iq) /\ iq # <<>>
    /\ Start(Head(iq)) /\ searchWaiters' = sq /\ ingestionWaiters' = Tail(iq)
    /\ consecutive' = 0 /\ passed' = p

(* #drain, on the queues its caller left.                                   *)
\* seeded fault: the active task is not looked at
BusyIfStopped(isActive) == stopped
Busy(isActive) == isActive \/ stopped

Drain(isActive, sq, iq, p) ==
    \/ /\ Busy(isActive) \/ (sq = <<>> /\ iq = <<>>)
       /\ searchWaiters' = sq /\ ingestionWaiters' = iq
       /\ active' = isActive /\ passed' = p /\ UNCHANGED <<running, consecutive>>
    \/ /\ ~Busy(isActive)
       /\ StartSearch(sq, iq, p) \/ StartBatch(sq, iq, p)

(* #enqueue.  A caller whose signal is aborted, or that comes after the     *)
(* stop, is rejected, which changes nothing.                                *)
RunSearch(s) ==
    /\ ~stopped /\ Idle(s)
    /\ Drain(active, Append(searchWaiters, s), ingestionWaiters, passed)
    /\ UNCHANGED <<stopped, place>>

RunIngestionBatch(b) ==
    /\ ~stopped /\ Idle(b)
    /\ place' = [place EXCEPT ![b] = Len(ingestionWaiters) + 1]
    /\ Drain(active, searchWaiters, Append(ingestionWaiters, b), [passed EXCEPT ![b] = 0])
    /\ UNCHANGED stopped

(* The callback ends, with a value, an error or an abort seen too late to   *)
(* interrupt it.                                                            *)
Settle(t) ==
    /\ t \in running /\ running' = running \ {t}
    /\ UNCHANGED <<searchWaiters, ingestionWaiters, active, consecutive, stopped, place,
                   passed>>

\* seeded fault: the encoder is freed and nobody is called
FreeOnly ==
    /\ active /\ running = {} /\ active' = FALSE
    /\ UNCHANGED <<searchWaiters, ingestionWaiters, running, consecutive, stopped, place,
                   passed>>

Free ==
    /\ active /\ running = {}
    /\ Drain(FALSE, searchWaiters, ingestionWaiters, passed)
    /\ UNCHANGED <<stopped, place>>

(* #abortQueued.                                                            *)
Abort ==
    /\ \/ /\ \E i \in DOMAIN searchWaiters : searchWaiters' = RemoveAt(searchWaiters, i)
          /\ UNCHANGED ingestionWaiters
       \/ /\ \E i \in DOMAIN ingestionWaiters :
                 ingestionWaiters' = RemoveAt(ingestionWaiters, i)
          /\ UNCHANGED searchWaiters
    /\ UNCHANGED <<active, running, consecutive, stopped, place, passed>>

(* Every waiter is rejected; the running task goes on.                      *)
Stop ==
    /\ ~stopped /\ stopped' = TRUE
    /\ searchWaiters' = <<>> /\ ingestionWaiters' = <<>>
    /\ UNCHANGED <<active, running, consecutive, place, passed>>

----------------------------------------------------------------------------
Next ==
    \/ \E s \in Searches : RunSearch(s)
    \/ \E b \in Batches : RunIngestionBatch(b)
    \/ \E t \in Tasks : Settle(t)
    \/ Free \/ Abort \/ Stop

Spec == Init /\ [][Next]_vars

(* A call of the encoder returns, and the microtask after it runs.          *)
FairSpec == Spec /\ WF_vars(Free) /\ \A t \in Tasks : WF_vars(Settle(t))

----------------------------------------------------------------------------
(* One callback runs at a time (EMB-04), also when a caller comes back      *)
(* before "active" is cleared.                                              *)
OneCallback ==
    /\ \A s, t \in running : s = t
    /\ running # {} => active

(* Nobody waits for a free encoder, nor after the stop.                     *)
NoForgottenTask ==
    searchWaiters # <<>> \/ ingestionWaiters # <<>> => active /\ ~stopped

(* Of the searches, at most four pass a batch for each place the batch had  *)
(* in its queue, whatever was aborted and however the counter stood when it *)
(* came (SEARCH-08).                                                        *)
BatchPassedAtMost ==
    \A b \in Range(ingestionWaiters) : passed[b] <= MaxSearches * place[b]

(* A waiting batch is started, aborted or stopped, however many searches    *)
(* keep coming.                                                             *)
BatchStarted ==
    \A b \in Batches : b \in Range(ingestionWaiters) ~> b \notin Range(ingestionWaiters)
=============================================================================
