----------------------------- MODULE MCDLSolve -----------------------------
(***************************************************************************)
(* Rule pools for checking DLSolve.  Two atoms a and b are literals        *)
(* 0..3: an even index is the positive literal, the odd one after it its   *)
(* complement.                                                             *)
(***************************************************************************)
EXTENDS DLSolve

r(k, h, b) == [kind |-> k, head |-> h, body |-> b]
A == 0
NotA == 1
B == 2
NotB == 3

\* Conflicts over two atoms, team against team, and the rules that feed them:
\* support cycles of one and two literals, definite ones, and an attack on a
\* cycle that reads the cycle.
ConflictPool ==
  { r(DL_DEFEASIBLE, A, {}), r(DL_DEFEASIBLE, A, {A}),
    r(DL_DEFEASIBLE, NotA, {}), r(DL_DEFEATER, NotA, {}),
    r(DL_STRICT, NotA, {}), r(DL_STRICT, A, {B}), r(DL_STRICT, B, {A}),
    r(DL_DEFEASIBLE, B, {A}), r(DL_DEFEASIBLE, NotB, {A}) }

Triples == UNION {[1 .. n -> ConflictPool] : n \in 0 .. 3}
=============================================================================
