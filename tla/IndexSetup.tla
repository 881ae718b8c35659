----------------------------- MODULE IndexSetup -----------------------------
(***************************************************************************)
(* How lancedb-rag-index.ts makes its table: a manifest that says          *)
(* "creating", the table, its text index, a manifest that says "ready".    *)
(* A start may die after any of these steps; what a later one finds is the *)
(* volume: the manifest ("none" when missing, "other" when it is not the   *)
(* one this program writes), the table, its schema, its index and whether  *)
(* it has rows.                                                            *)
(***************************************************************************)
EXTENDS Naturals

Volumes ==
  [foreign : BOOLEAN,  \* a table of another name is there
   manifest : {"none", "creating", "ready", "other"},
   table : BOOLEAN, exact : BOOLEAN, index : {"none", "text", "other"}, rows : BOOLEAN]

Empty ==
  [foreign |-> FALSE, manifest |-> "none", table |-> FALSE, exact |-> FALSE,
   index |-> "none", rows |-> FALSE]

\* What a start refuses to touch.
Refused(v) ==
  \/ v.foreign \/ v.manifest = "other"
  \/ ~ v.table /\ v.manifest = "ready"
  \/ v.table /\ (v.manifest = "none" \/ ~ v.exact \/ v.index = "other")
  \/ v.table /\ v.manifest = "creating" /\ v.rows
  \/ v.table /\ v.manifest = "ready" /\ v.index = "none"

\* The next thing a start writes; the same volume when there is nothing left.
Advanced(v) ==
  CASE ~ v.table /\ v.manifest = "none" -> [v EXCEPT !.manifest = "creating"]
    [] ~ v.table /\ v.manifest # "none" ->
         [v EXCEPT !.table = TRUE, !.exact = TRUE, !.index = "none", !.rows = FALSE]
    [] v.table /\ v.manifest = "creating" /\ v.index = "none" -> [v EXCEPT !.index = "text"]
    [] v.table /\ v.manifest = "creating" /\ v.index # "none" ->
         [v EXCEPT !.manifest = "ready"]
    [] v.table /\ v.manifest # "creating" -> v

\* The volume after n writes of one start.
After(v, n) == LET w[k \in 0 .. n] == IF k = 0 THEN v ELSE Advanced(w[k - 1]) IN w[n]

Ready(v) ==
  v.table /\ v.exact /\ v.index = "text" /\ v.manifest = "ready" /\ ~ v.foreign

Initialized(v) == After(v, 4)
=============================================================================
