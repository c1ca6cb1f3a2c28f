------------------------------ MODULE DLSchedule ------------------------------
(***************************************************************************)
(* The order in which a schedule walks a theory's literals, shared by the  *)
(* drivers of dl.c and the columnar solver of dl_col.c: components of a    *)
(* graph, numbered in reverse topological order, members by index.         *)
(***************************************************************************)
EXTENDS DLTheory, SequencesExt

\* The components of a component function in reverse topological order: each is
\* a sink of the graph the earlier ones leave. Of all such numberings two are
\* used, the one that prefers low and the one that prefers high literals.
Numbering(comps, succ, high) ==
  LET parts == {comps[q] : q \in Lits}
      Sinks(rest) == {c \in rest : \A u \in c : succ[u] \subseteq c \cup (Lits \ UNION rest)}
      Pick(cs) == CHOOSE c \in cs : (IF high THEN Max(UNION cs) ELSE Min(UNION cs)) \in c
      F[rest \in SUBSET parts] ==
        IF rest = {} THEN <<>>
        ELSE LET c == Pick(Sinks(rest)) IN <<c>> \o F[rest \ {c}]
  IN  F[parts]

\* dl_group_by_comp lists the members of a component by ascending index: the
\* i-th has i - 1 smaller ones.
ByIndex(c) ==
  [i \in 1 .. Cardinality(c) |-> CHOOSE x \in c : Cardinality({y \in c : y < x}) = i - 1]

DependSccs(t) ==
  LET reach == [q \in Lits |-> DependReach(t, {q})]
  IN  [q \in Lits |-> {x \in reach[q] : q \in reach[x]}]

\* The two numberings the compiled form keeps: of the support graph for the
\* cycle rule (build_scc), of the dependency graph for the sweep (build_dep).
SupportNumbering(t, high) ==
  Numbering(SupportSccs(t), [q \in Lits |-> SupportSucc(t, q)], high)

Schedule(t, high) ==
  LET s == Numbering(DependSccs(t), [q \in Lits |-> DependSucc(t, q)], high)
  IN  [i \in DOMAIN s |-> ByIndex(s[i])]
=============================================================================
