------------------------------ MODULE MCStratify ----------------------------
(* Rule lists over two numeric and two boolean fluents.                    *)
EXTENDS Stratify

R(g, b, l, wn, wb) == [guards |-> g, preads |-> b, loads |-> l, wnum |-> wn, wbool |-> wb]

MCNums  == {"hp", "gold"}
MCBools == {"dead", "sad"}

\* Rules with at most one primed read and at most one effect.
OneRead == {R({n}, {}, {}, wn, wb) : n \in MCNums, wn \in {{}} \cup {{m} : m \in MCNums},
                                     wb \in {{}} \cup {{c} : c \in MCBools}}
OneBool == {R({}, {b}, {}, wn, wb) : b \in MCBools, wn \in {{}} \cup {{m} : m \in MCNums},
                                     wb \in {{}} \cup {{c} : c \in MCBools}}
OneLoad == {R({}, {}, {n}, {m}, {}) : n, m \in MCNums}
NoRead  == {R({}, {}, {}, {m}, {}) : m \in MCNums}

One(S) == {r \in S : Cardinality(r.wnum) + Cardinality(r.wbool) = 1}
MCPool == One(OneRead) \cup One(OneBool) \cup OneLoad \cup NoRead

MCPrograms  == UNION {[1 .. k -> MCPool] : k \in 1 .. 3}

\* Every source order of one acyclic program: a blow lowers hp, hp' kills, the
\* dead are mourned, and mourners are sad (three links of one primed chain).
Strike == R({}, {}, {}, {"hp"}, {})
Dies   == R({"hp"}, {}, {}, {}, {"dead"})
Grief  == R({}, {"dead"}, {}, {}, {"sad"})
Fades  == R({}, {"sad"}, {}, {"gold"}, {})

MCOrders ==
  {p \in [1 .. 4 -> {Strike, Dies, Grief, Fades}] :
            \A j, k \in 1 .. 4 : p[j] = p[k] => j = k}
=============================================================================
