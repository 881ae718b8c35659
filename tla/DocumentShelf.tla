--------------------------- MODULE DocumentShelf ---------------------------
(***************************************************************************)
(* What the retrieval index promises of its documents: the content a search *)
(* sees of a document is that of one ingestion, as a whole; it changes only *)
(* to an ingestion that was accepted after the last acknowledged deletion,  *)
(* and a deletion is acknowledged only when the content is gone.            *)
(***************************************************************************)
EXTENDS Naturals

CONSTANT Docs

VARIABLES
    accepted, \* the ingestions accepted so far are 1..accepted
    shown,    \* the ingestion whose content a document shows, 0 for none
    buried    \* the ingestions accepted when its last deletion was acknowledged

vars == <<accepted, shown, buried>>

Init ==
    /\ accepted = 0
    /\ shown = [d \in Docs |-> 0]
    /\ buried = [d \in Docs |-> 0]

Accept ==
    /\ accepted' = accepted + 1
    /\ UNCHANGED <<shown, buried>>

Publish(d, i) ==
    /\ i > buried[d] /\ i <= accepted
    /\ shown' = [shown EXCEPT ![d] = i]
    /\ UNCHANGED <<accepted, buried>>

(* The content goes at once, also when the deletion is then not acknowledged. *)
Withdraw(d) ==
    /\ shown' = [shown EXCEPT ![d] = 0]
    /\ UNCHANGED <<accepted, buried>>

Acknowledge(d) ==
    /\ shown[d] = 0
    /\ buried' = [buried EXCEPT ![d] = accepted]
    /\ UNCHANGED <<accepted, shown>>

Next ==
    \/ Accept
    \/ \E d \in Docs : Withdraw(d) \/ Acknowledge(d)
    \/ \E d \in Docs : \E i \in 1..accepted : Publish(d, i)

Spec == Init /\ [][Next]_vars
=============================================================================
