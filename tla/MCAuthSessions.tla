--------------------------- MODULE MCAuthSessions ---------------------------
(* Bounded instance of AuthSessions for TLC.                                  *)
EXTENDS AuthSessions, TLC

Symmetry == Permutations(Sessions) \cup Permutations(Reqs)
=============================================================================
