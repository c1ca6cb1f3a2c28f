----------------------------- MODULE MCDLTarjan -----------------------------
(* Every graph on N nodes with at most two edges out of a node, listed by    *)
(* ascending target.                                                         *)
EXTENDS DLTarjan

ShortLists ==
  {<<>>} \cup {<<v>> : v \in Nodes}
    \cup {e \in {<<u, v>> : u, v \in Nodes} : e[1] < e[2]}
=============================================================================
