---------------------------- MODULE MCDLDrivers ----------------------------
(* Rule pools for checking DLDrivers: literals 0..5 are a, ~a, b, ~b, c, ~c. *)
EXTENDS DLDrivers

Rotate(s, k) == SubSeq(s, k + 1, Len(s)) \o SubSeq(s, 1, k)

R(k, h, b) == [kind |-> k, head |-> h, body |-> b]

\* A chain against index order, a support loop, a conflict whose attacker reads
\* the end of the chain, and a cycle that runs only through an attack.
Pool ==
  { R(DL_STRICT, 4, {}), R(DL_DEFEASIBLE, 2, {4}), R(DL_STRICT, 0, {2}),
    R(DL_DEFEASIBLE, 2, {0}), R(DL_DEFEASIBLE, 5, {0}),
    R(DL_DEFEASIBLE, 1, {3}) }

\* A stalled loop (C) attacks what another loop (A) reads: the order in which
\* the two are completed decides whether A is provable.
Chain == << R(DL_DEFEASIBLE, 0, {0}), R(DL_DEFEASIBLE, 0, {2}), R(DL_DEFEASIBLE, 2, {}),
            R(DL_DEFEATER, 3, {4}), R(DL_DEFEASIBLE, 4, {4}) >>

AllRules == Pool \cup ToSet(Chain)

\* Any four rules of the pool, and the chain in every rotation.
Lists ==
  UNION {[1 .. n -> Pool] : n \in 0 .. 4}
    \cup UNION {{SubSeq(Rotate(Chain, k), 1, n) : n \in 0 .. 5} : k \in 0 .. 4}
=============================================================================
