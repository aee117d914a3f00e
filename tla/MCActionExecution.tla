------------------------- MODULE MCActionExecution -------------------------
(* Small instances of ActionExecution for TLC. *)
EXTENDS ActionExecution, TLC

\* Slots, requests and media are interchangeable; used by safety runs only.
Symmetry == Permutations(Workers) \cup Permutations(Requests)
=============================================================================
