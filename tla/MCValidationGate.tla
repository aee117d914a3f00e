-------------------------- MODULE MCValidationGate --------------------------
(* ValidationGate with the lists a caller injects: three checks, each of a *)
(* kind computeOutcome tells apart.                                        *)
EXTENDS ValidationGate

Kinds ==
  {P0("check"), Always(P0("check")), [P0("check") EXCEPT !.severity = "P2"],
   [P0("check") EXCEPT !.severity = "P2", !.required = FALSE],
   [P0("check") EXCEPT !.severity = "P3", !.required = FALSE],
   [P0("check") EXCEPT !.severity = "P3"],
   Protected([P0("check") EXCEPT !.severity = "P3", !.required = FALSE])}

Lists == {<<a, b, c>> : a, b, c \in Kinds}
=============================================================================
