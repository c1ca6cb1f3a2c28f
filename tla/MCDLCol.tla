------------------------------- MODULE MCDLCol -------------------------------
(* Small families for checking DLCol: literals 0..5 are a, ~a, b, ~b, c, ~c. *)
EXTENDS DLCol

R(x, h, b) == [kind |-> x, head |-> h, body |-> b]

\* The static rules, and what a re-ground puts above the watermark: loops,
\* chains and attacks.
Static == << R(DL_DEFEASIBLE, 0, {2}), R(DL_DEFEASIBLE, 1, {}) >>
Suffix ==
  << R(DL_DEFEASIBLE, 2, {0}), R(DL_STRICT, 4, {4}), R(DL_DEFEATER, 3, {4}),
     R(DL_DEFEASIBLE, 4, {2}) >>

MCRules == Range(Static) \cup Range(Suffix)
MCLists == {SubSeq(Static, 1, n) : n \in 0 .. 2}
             \cup {Static \o <<r>> : r \in Range(Suffix)}
             \cup {Static \o <<Suffix[p[1]], Suffix[p[2]]>> : p \in {x \in (1 .. 4) \X (1 .. 4) : x[1] < x[2]}}
MCSups  == {<<1, 2>>}
MCFacts == {<<4, 0>>}
MCOpen  == {<<2, 1>>}
=============================================================================
