----------------------------- MODULE LaneFamilies ----------------------------
(***************************************************************************)
(* The lane families the compiler derives from a story (the last section   *)
(* of src/lang/story.c): one columnar theory solved for every entity of a  *)
(* sort at once, in place of one ground rule per entity.  A family's atoms *)
(* are its locals, a predicate at an argument pattern; a local, an         *)
(* iteration and a lane name one ground atom.                              *)
(*                                                                         *)
(* A lane column is its own small theory (module DLCol shows that solving  *)
(* the columns together solves each of them), so a family is kept as one   *)
(* symbolic theory and solved per lane.  Left out: the limits of the       *)
(* compiler's tables (MAX_PREDS, MAX_LANE_TESTS), kinds and value layers,  *)
(* and the names and provenance of traces.                                 *)
(***************************************************************************)
EXTENDS StoryCheck, DLTheory

Defeasible(head, body) == [kind |-> DL_DEFEASIBLE, head |-> head, body |-> body]

-----------------------------------------------------------------------------
(* A theory over symbolic atoms, numbered for DLTheory.                    *)

AtomsIn(rules) ==
  UNION {{l.atom : l \in {rules[r].head} \cup rules[r].body} : r \in DOMAIN rules}

InSequence(A) ==
  LET F[R \in SUBSET A] ==
        IF R = {} THEN <<>> ELSE LET a == CHOOSE x \in R : TRUE IN Append(F[R \ {a}], a)
  IN  F[A]

Code(of, l) == 2 * of[l.atom] + (IF l.neg THEN 1 ELSE 0)

Coded(of, rules, sups) ==
  [rules |-> [r \in DOMAIN rules |->
                [kind |-> rules[r].kind, head |-> Code(of, rules[r].head),
                 body |-> {Code(of, l) : l \in rules[r].body}]],
   sups |-> sups, facts |-> {}]

\* The value of an expression, worked out once.
One(X) == CHOOSE x \in X : x = x

\* The rules numbered; per literal, those that decide it: the rules for it and
\* for its complement.  loops: the components the cycle rule may complete.
\* more: atoms no rule mentions.
Built(rules, sups, more) ==
  LET A   == AtomsIn(rules) \cup more
      seq == One({InSequence(A)})
      of  == One({[a \in A |-> (CHOOSE i \in DOMAIN seq : seq[i] = a) - 1]})
      t   == One({Coded(of, rules, sups)})
      by  == One({[q \in Lits |-> RulesFor(t, q)]})
      near(q) == LET is == by[q] \cup by[Compl(q)]
                 IN  [rules |-> [r \in is |-> t.rules[r]], sups |-> t.sups \cap (is \X is), facts |-> {}]
  IN  One({[of |-> of, t |-> t, near |-> [q \in Lits |-> near(q)],
            loops |-> {c \in Range(SupportSccs(t)) : CyclicScc(t, c) /\ ~ AttackedScc(t, c)}]})

\* A layer of a solve, as in DLTheory: a sweep of every undecided literal, or
\* when it decides nothing the completion of every component it may complete.
Layer(c, Eval(_, _), strictOnly) ==
  LET F[st \in Status] ==
        One({IF next = st THEN st ELSE F[next] : next \in
          {One({IF swept # st THEN swept
                ELSE Completion(st, UNION {l \in c.loops : Completes(c.t, st, l, strictOnly)}) : swept \in
             {[q \in Lits |-> IF st[q] = DL_UNDECIDED THEN Eval(st, q) ELSE st[q]]}})}})
  IN  F[Unsolved]

\* The definite layer under facts; those about atoms the theory lacks are ignored.
Definite(c, facts) ==
  LET known == {Code(c.of, l) : l \in {x \in facts : x.atom \in DOMAIN c.of}}
  IN  One({Layer(c, LAMBDA e, q : EvalDelta([c.near[q] EXCEPT !.facts = known], e, q), TRUE)})

\* The verdicts under facts.
Solved(c, facts) ==
  One({Layer(c, LAMBDA p, q : EvalPart(c.near[q], d, p, q), FALSE) : d \in {Definite(c, facts)}})

Verdictof(c, st, l) == IF l.atom \in DOMAIN c.of THEN st[Code(c.of, l)] ELSE DL_REFUTED

-----------------------------------------------------------------------------
(* Locals and their cells.                                                 *)

LANE == <<"lane", "">>

\* An argument is the lane variable, an iterated variable or a named entity.
Role(vs, x) ==
  IF x = vs[1][1] THEN LANE ELSE IF x \in Names(vs) THEN <<"iter", x>> ELSE <<"const", x>>

\* lane_local_of: the predicate at its argument pattern.
Local(a, vs) == <<a.pred, [k \in DOMAIN a.args |-> Role(vs, a.args[k])], <<>>>>

LocalLit(a, vs) == Lit(Local(a, vs), a.neg)

Entity(role, it, e) ==
  CASE role[1] = "lane" -> e [] role[1] = "iter" -> it[role[2]] [] role[1] = "const" -> role[2]

\* lane_cell_atom: the ground atom of a local in iteration it and lane e.
Cell(l, it, e) == <<l[1], [k \in DOMAIN l[2] |-> Entity(l[2][k], it, e)], l[3]>>

-----------------------------------------------------------------------------
(* Judgment families: which rules may lane.                                *)

ArgSort(s, p, k) == s.decl[p].sorts[k]

\* lane_atom_ok and join_atom_ok: every argument is a variable (over the
\* predicate's own sort, when there is only one) or an entity of that sort; a
\* head concludes and names a variable.
LaneAtomOk(s, a, vs, head) ==
  /\ a.form = "bool"
  /\ IsA(s, a.pred, "fluent") \/ IsA(s, a.pred, "provider") \/ IsA(s, a.pred, "derived")
  /\ Len(a.args) = Len(s.decl[a.pred].sorts)
  /\ \A k \in DOMAIN a.args :
       \/ a.args[k] \in Names(vs) /\ (Len(vs) = 1 => SortOf(vs, a.args[k]) = ArgSort(s, a.pred, k))
       \/ a.args[k] \in Entities(ArgSort(s, a.pred, k))
  /\ head => /\ ~ IsA(s, a.pred, "provider")
             /\ \E k \in DOMAIN a.args : a.args[k] \in Names(vs)

Reads(r) == Range(r.body) \cup UNION {Range(r.unless[u]) : u \in DOMAIN r.unless}

AtomsOk(s, r) ==
  LaneAtomOk(s, r.head, r.vars, TRUE) /\ \A a \in Reads(r) : LaneAtomOk(s, a, r.vars, FALSE)

\* rule_eligible.
Eligible(s, r) == Len(r.vars) = 1 /\ AtomsOk(s, r)

\* compute_taint: predicates concluded by a rule that cannot lane or that reads
\* a tainted conclusion, and both ends of an edge one of which is tainted.
Tainted(s) ==
  LET Concl(i) == s.rules[i].head.pred
      F[T \in SUBSET RuleHeads(s)] ==
        LET more == T \cup {Concl(i) : i \in {x \in DOMAIN s.rules :
                              \/ ~ Eligible(s, s.rules[x])
                              \/ \E a \in Reads(s.rules[x]) : a.pred \in T}}
                      \cup UNION {{Concl(e[1]), Concl(e[2])} : e \in {x \in RuleEdges(s) :
                              Concl(x[1]) \in T \/ Concl(x[2]) \in T}}
        IN  IF more = T THEN T ELSE F[more]
  IN  F[{}]

-----------------------------------------------------------------------------
(* Judgment families: construction.                                        *)

Kind(s, l) == s.decl[l[1]].is

LaneIds(s, is) ==
  {<<i, "rule">> : i \in is} \cup {<<i, "unless">> : i \in {x \in is : s.rules[x].unless # <<>>}}

\* One schema rule, and the defeater of its `unless`, over the locals.
LaneRule(s, id) ==
  LET r    == s.rules[id[1]]
      head == LocalLit(r.head, r.vars)
  IN  IF id[2] = "rule"
        THEN [kind |-> r.kind, head |-> head, body |-> {LocalLit(a, r.vars) : a \in Range(r.body)}]
        ELSE [kind |-> DL_DEFEATER, head |-> Opposite(head),
              body |-> {LocalLit(a, r.vars) : a \in Range(r.unless[1])}]

LaneSups(s, is) ==
  {<<<<e[1], "rule">>, <<e[2], "rule">>>> : e \in {x \in RuleEdges(s) : x[1] \in is /\ x[2] \in is}}

\* A family: its lane sort, the variables it iterates, a kind for every local;
\* a derived local of imported is concluded elsewhere.
Family(s, sort, iters, is, imported) ==
  LET rules == One({[id \in LaneIds(s, is) |-> LaneRule(s, id)]})
  IN  [lane |-> sort, iters |-> iters,
       kinds |-> [l \in AtomsIn(rules) |->
                    IF Kind(s, l) = "derived" /\ l \in imported THEN "import" ELSE Kind(s, l)],
       theory |-> Built(rules, LaneSups(s, is), {})]

\* emit_sort_lanes: the untainted rules whose one variable is over the sort.
SortRules(s, sort) ==
  {i \in DOMAIN s.rules :
     /\ s.rules[i].head.pred \notin Tainted(s)
     /\ Len(s.rules[i].vars) = 1 /\ s.rules[i].vars[1][2] = sort}

SortFamilies(s) ==
  LET sorts == SelectSeq(s.sorts, LAMBDA S : Domain[S] # <<>> /\ SortRules(s, S) # {})
  IN  [k \in DOMAIN sorts |-> Family(s, sorts[k], <<>>, SortRules(s, sorts[k]), {})]

\* pred_feeds: the predicates the derivation of p reads.
Feeds(s, p) ==
  LET F[Q \in SUBSET (DOMAIN s.decl \cup {"in"})] ==
        LET more == Q \cup UNION {{a.pred : a \in Reads(s.rules[i])} :
                                    i \in {x \in DOMAIN s.rules : s.rules[x].head.pred \in Q}}
        IN  IF more = Q THEN Q ELSE F[more]
  IN  F[{p}]

\* emit_join_family: the rule is all there is to its head, and not recursive.
Joins(s, i) ==
  LET r == s.rules[i]
  IN  /\ Len(r.vars) >= 2 /\ Bindings(r.vars) # {} /\ AtomsOk(s, r)
      /\ \A j \in DOMAIN s.rules : j # i => s.rules[j].head.pred # r.head.pred
      /\ \A a \in Reads(r) : r.head.pred \notin Feeds(s, a.pred)

\* The first variable is the lane; what is derived elsewhere is imported.
JoinFamilies(s) ==
  LET is == SelectSeq([i \in DOMAIN s.rules |-> i], LAMBDA i : Joins(s, i))
  IN  [k \in DOMAIN is |->
         LET r == s.rules[is[k]]
         IN  Family(s, r.vars[1][2], Tail(r.vars), {is[k]},
                    {Local(a, r.vars) : a \in Reads(r)} \ {Local(r.head, r.vars)})]

\* build_lane_families: a story with actions has only step lanes.
JudgmentLanes(s) == IF s.actions # <<>> THEN <<>> ELSE SortFamilies(s) \o JoinFamilies(s)

\* The cells of a family, and the ground atoms world_add_lane_family routes to
\* it: concluded here or a stored fluent, and in one cell only.
Cells(f) == {<<l, it, e>> : l \in DOMAIN f.kinds, it \in Bindings(f.iters), e \in Entities(f.lane)}

CellAtom(c) == Cell(c[1], c[2], c[3])

Routable(f) ==
  LET at == One({[c \in Cells(f) |-> CellAtom(c)]})
  IN  {c \in Cells(f) : /\ f.kinds[c[1]] \in {"fluent", "derived"}
                        /\ \A d \in Cells(f) : at[d] = at[c] => d = c}

\* lane_map: the first family that claims an atom keeps it.
Routes(fs) ==
  LET at(k) == One({[c \in Routable(fs[k]) |-> CellAtom(c)]})
      claim == One({[k \in DOMAIN fs |-> at(k)]})
  IN  [a \in UNION {Range(claim[k]) : k \in DOMAIN fs} |->
         LET k == CHOOSE x \in DOMAIN fs : a \in Range(claim[x]) /\ \A y \in 1 .. (x - 1) : a \notin Range(claim[y])
         IN  <<k, CHOOSE c \in DOMAIN claim[k] : claim[k][c] = a>>]
=============================================================================
