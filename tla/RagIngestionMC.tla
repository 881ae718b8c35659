--------------------------- MODULE RagIngestionMC ---------------------------
(* RagIngestion for TLC: the versions are interchangeable.                   *)
EXTENDS RagIngestion, TLC

VersionSymmetry == Permutations(Versions)
=============================================================================
