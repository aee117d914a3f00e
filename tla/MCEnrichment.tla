---------------------------- MODULE MCEnrichment ----------------------------
(* Small instances of Enrichment for TLC. *)
EXTENDS Enrichment, TLC

\* Worker slots are interchangeable; used by safety runs only.
Symmetry == Permutations(Workers)
=============================================================================
