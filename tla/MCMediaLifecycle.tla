-------------------------- MODULE MCMediaLifecycle --------------------------
(* Small instances of MediaLifecycle for TLC. *)
EXTENDS MediaLifecycle, TLC

\* Requests and runs of one kind are interchangeable.
Symmetry == Permutations(Writers) \cup Permutations(Deletes) \cup Permutations(Cleaners)

\* Cleanup runs and thumbnails are explored with one moment, beside a capture and
\* a deletion at a time; two moments, or two deletions at once, without them.
Bounded ==
  \/ /\ \A c \in Cleaners : CleanerAt(c, "idle")
     /\ \A k \in Stored : k[2] = "full"
  \/ /\ \E m \in Moments : moment[m] = "none"
     /\ \E d \in Deletes : \A e \in Deletes \ {d} : DeleteAt(e, "idle")
=============================================================================
