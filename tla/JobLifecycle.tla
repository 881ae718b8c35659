---------------------------- MODULE JobLifecycle ----------------------------
(***************************************************************************)
(* What the durable jobs promise to a client, whatever the storage, the     *)
(* worker and the restarts do: a job is accepted once, for a key without an *)
(* active job; jobs are claimed one at a time in the order they were        *)
(* accepted; a claimed job ends; an ended job only expires, and is then     *)
(* forgotten.                                                               *)
(*                                                                          *)
(* A restart of the process changes no active job.  An expiry that a crash  *)
(* cut short is done by the restart and leaves the record behind; it is     *)
(* hidden while the job is expired, and the first restart after the job was *)
(* forgotten brings the job back as it had ended.                           *)
(***************************************************************************)
EXTENDS Naturals, FiniteSets

CONSTANTS Keys, NoKey, Jobs, MaxQueuedJobs

VARIABLES
    status, key,
    residue  \* the record that a cut expiry has left behind

vars == <<status, key, residue>>

With(S) == {j \in Jobs : status[j] \in S}
Active  == With({"queued", "processing"})
Ended   == With({"completed", "failed"})

NoResidue == [status |-> "none", key |-> NoKey]

Init ==
    /\ status = [j \in Jobs |-> "unknown"] /\ key = [j \in Jobs |-> NoKey]
    /\ residue = [j \in Jobs |-> NoResidue]

Becomes(j, s, k) ==
    /\ status' = [status EXCEPT ![j] = s] /\ key' = [key EXCEPT ![j] = k]
    /\ UNCHANGED residue

(* A miss opens a job, unless the key has an active one or the queue is     *)
(* full; a hit opens a job that is already completed.                       *)
Miss(j, k) ==
    /\ status[j] = "unknown"
    /\ \A i \in Active : key[i] # k
    /\ Cardinality(Active) < MaxQueuedJobs
    /\ Becomes(j, "queued", k)

Hit(j, k) ==
    /\ status[j] = "unknown"
    /\ \A i \in Active : key[i] # k
    /\ Becomes(j, "completed", k)

Claim(j) ==
    /\ status[j] = "queued" /\ With({"processing"}) = {}
    /\ \A i \in With({"queued"}) : j <= i
    /\ Becomes(j, "processing", key[j])

Finish(j) ==
    /\ status[j] = "processing"
    /\ \E s \in {"completed", "failed"} : Becomes(j, s, key[j])

Expire(j) == j \in Ended /\ Becomes(j, "expired", NoKey)
Forget(j) == status[j] = "expired" /\ Becomes(j, "forgotten", NoKey)

(* The jobs whose expiry was cut, and those that come back.                 *)
Back == {j \in With({"forgotten"}) : residue[j] # NoResidue}

Restart(cut) ==
    /\ status' = [j \in Jobs |-> IF j \in cut THEN "expired"
                                ELSE IF j \in Back THEN residue[j].status ELSE status[j]]
    /\ key' = [j \in Jobs |-> IF j \in cut THEN NoKey
                             ELSE IF j \in Back THEN residue[j].key ELSE key[j]]
    /\ residue' = [j \in Jobs |-> IF j \in cut THEN [status |-> status[j], key |-> key[j]]
                                 ELSE IF j \in Back THEN NoResidue ELSE residue[j]]

Next ==
    \/ \E j \in Jobs :
        \/ \E k \in Keys : Miss(j, k) \/ Hit(j, k)
        \/ Claim(j) \/ Finish(j) \/ Expire(j) \/ Forget(j)
    \/ \E cut \in SUBSET Ended : Restart(cut)

Spec == Init /\ [][Next]_vars

(* A claimed job ends.                                                      *)
FairSpec == Spec /\ \A j \in Jobs : WF_vars(Finish(j))
=============================================================================
