------------------------------ MODULE StepLanes ------------------------------
(***************************************************************************)
(* The transition as a theory: the scalar (N=1) step family of a story,    *)
(* and the step lane families of src/lang/story.c, which solve the same    *)
(* transition for every entity of one sort at once.                        *)
(*                                                                         *)
(* Without a split fluent there is one family or none: one construct that  *)
(* cannot lane keeps the whole story scalar.  With a split fluent there is *)
(* one family per value, holding the actions that lane under it; the rest  *)
(* is the residue, solved by the scalar family without those actions.      *)
(***************************************************************************)
EXTENDS LaneFamilies

-----------------------------------------------------------------------------
(* A transition over any atoms: inertia for the managed fluents, and one   *)
(* causal rule per effect, superior to the inertia it conflicts with.      *)

\* Rule identifiers: <<"on", f>>, <<"off", f>>, <<"causal", <<id, effect>>>>.
Inertia(F) ==
  [id \in {"on", "off"} \X F |->
     LET now == Lit(id[2], id[1] = "off") IN Defeasible(PrimedOf(now), {now})]

StepBody(r) == r.conds \cup (IF r.act = NoTrigger THEN {} ELSE {Lit(r.act, FALSE)})

Causal(rules) ==
  [id \in {"causal"} \X UNION {{<<i, l>> : l \in rules[i].eff} : i \in DOMAIN rules} |->
     Defeasible(PrimedOf(id[2][2]), StepBody(rules[id[2][1]]))]

CausalSups(rules) ==
  {<<id, <<IF id[2][2].neg THEN "on" ELSE "off", id[2][2].atom>>>> : id \in DOMAIN Causal(rules)}

-----------------------------------------------------------------------------
(* The scalar step family.                                                 *)

\* The grounded rules, and the ground rules a host added to the world.
JudgmentRules(s) ==
  LET g == One({GroundRules(s)})
  IN  [id \in ({"judgment"} \X DOMAIN g) \cup ({"host"} \X DOMAIN s.host) |->
         IF id[1] = "host" THEN s.host[id[2]] ELSE g[id[2]]]

JudgmentSups(s) == {<<<<"judgment", e[1]>>, <<"judgment", e[2]>>>> : e \in GroundSups(s)}

StepAtoms(s) == GroundFluents(s) \cup {Primed(f) : f \in GroundFluents(s)}

\* build_step_family over the step rules ids and the fluents flw.
StepFamily(s, ids, flw) ==
  LET rules   == One({[id \in ids |-> GroundStep(s, id)]})
      judges  == One({JudgmentRules(s)})
      persist == One({Inertia(flw)})
      causes  == One({Causal(rules)})
      all     == [id \in DOMAIN judges \cup DOMAIN persist \cup DOMAIN causes |->
                    CASE id[1] \in {"on", "off"} -> persist[id]
                      [] id[1] = "causal"        -> causes[id]
                      [] OTHER                   -> judges[id]]
  IN  [steps |-> rules, flw |-> flw,
       theory |-> Built(One({all}), JudgmentSups(s) \cup CausalSups(rules), StepAtoms(s))]

-----------------------------------------------------------------------------
(* Which constructs may lane.                                              *)

OnVar(s, a, S, x) == s.decl[a.pred].sorts = <<S>> /\ a.args = <<x>>

\* step_atom_ok for a read: a fluent of the lane entity, or a global.
ReadOk(s, a, S, x) ==
  /\ a.form = "bool" /\ IsA(s, a.pred, "fluent")
  /\ s.decl[a.pred].sorts = <<>> \/ OnVar(s, a, S, x)

\* step_import_ok: a judgment about the lane entity, read in the current state.
ImportOk(s, a, S, x) ==
  a.form = "bool" /\ ~ a.primed /\ IsA(s, a.pred, "derived") /\ OnVar(s, a, S, x)

\* step_guard_ok: a comparison of a number of the lane entity.
GuardOk(s, a, S, x) ==
  a.form = "guard" /\ ~ a.primed /\ ~ a.neg /\ IsA(s, a.pred, "num") /\ OnVar(s, a, S, x)

RequiresOk(s, a, S, x) == ReadOk(s, a, S, x) \/ ImportOk(s, a, S, x) \/ GuardOk(s, a, S, x)

\* step_atom_ok for an effect: a fluent of the lane entity.
FluentEffectOk(s, e, S, x) ==
  e.form = "bool" /\ IsA(s, e.pred, "fluent") /\ OnVar(s, e, S, x)

\* num_eff_ok: a constant, or a table over tests of the entity's own fluents.
NumEffectOk(s, e, S, x) ==
  /\ e.form = "num" /\ IsA(s, e.pred, "num") /\ OnVar(s, e, S, x)
  /\ RHS(e).loads = <<>>
  /\ \A k \in DOMAIN RHS(e).tests :
       LET t == RHS(e).tests[k].test IN IsA(s, t.pred, "fluent") /\ OnVar(s, t, S, x)

\* A `for each` action: one binder over the lane sort, and nothing of its own.
BinderOk(s, a, S) ==
  /\ a.effects = <<>> /\ a.requires = <<>> /\ Len(a.vars) <= 1 /\ Len(a.binders) = 1
  /\ Len(a.binders[1].vars) = 1 /\ a.binders[1].vars[1][2] = S
  /\ LET bnd == a.binders[1]
         x   == bnd.vars[1][1]
         On(c) == ReadOk(s, c, S, x) /\ OnVar(s, c, S, x)
     IN  /\ \A c \in Range(bnd.where) : On(c)
         /\ \A k \in DOMAIN bnd.items :
              /\ NumEffectOk(s, bnd.items[k].eff, S, x) /\ Folds(RHS(bnd.items[k].eff))
              /\ \A c \in Range(bnd.items[k].when) : On(c)

PerLaneOk(s, a, S) ==
  /\ Len(a.vars) = 1 /\ a.vars[1][2] = S
  /\ LET x == a.vars[1][1]
     IN  /\ \A c \in Range(a.requires) : RequiresOk(s, c, S, x)
         /\ \A e \in Range(a.effects) : NumEffectOk(s, e, S, x) \/ FluentEffectOk(s, e, S, x)

\* The sorts every fluent and number of the story agrees on.
LaneSorts(s) ==
  {S \in Range(s.sorts) :
     /\ Domain[S] # <<>>
     /\ Preds(s, "mv") = {}
     /\ \A p \in Preds(s, "num") : s.decl[p].sorts = <<S>>
     /\ \A p \in Preds(s, "fluent") : s.decl[p].sorts \in {<<>>, <<S>>}
     /\ \E p \in Preds(s, "num") \cup Preds(s, "fluent") : s.decl[p].sorts = <<S>>}

\* emit_step_lanes: everything lanes, or nothing does.
LanesWhole(s, S) ==
  \A i \in DOMAIN s.actions :
    IF s.actions[i].binders # <<>> THEN BinderOk(s, s.actions[i], S) ELSE PerLaneOk(s, s.actions[i], S)

-----------------------------------------------------------------------------
(* Locals and rules of a step family.                                      *)

Here(p)       == <<p, <<LANE>>, <<>>>>
Cast(a)       == <<a.name, <<>>, <<"cast", 0>>>>
Marker(a, k)  == <<a.name, <<>>, <<"fired", k>>>>

\* A global has one local, whether it is read now or next.
StepLocal(a) ==
  CASE a.args = <<>>      -> <<a.pred, <<>>, <<>>>>
    [] a.form = "guard"   -> <<a.pred, <<LANE>>, a.val>>
    [] OTHER              -> IF a.primed THEN Primed(Here(a.pred)) ELSE Here(a.pred)

LaneCond(a) == Lit(StepLocal(a), a.neg)

LaneConds(s, as) == {LaneCond(a) : a \in {x \in Range(as) : x.pred # s.split}}

LaneTrigger(a) == IF a.ramif THEN NoTrigger ELSE Here(a.name)

\* An action of the family as a step rule over the locals.
LaneStep(s, a) ==
  [act |-> LaneTrigger(a), conds |-> LaneConds(s, a.requires),
   eff |-> {Lit(Here(e.pred), e.neg) : e \in {x \in Range(a.effects) : x.form = "bool"}}]

HasNum(a) == \E e \in Range(a.effects) : e.form = "num"

\* What makes a marker fire: the action's own conditions, or the cast with the
\* target's conditions and the item's.
MarkerBody(s, a, k) ==
  IF k = 0 THEN StepBody(LaneStep(s, a))
  ELSE {Lit(Cast(a), FALSE)} \cup LaneConds(s, a.binders[1].where)
         \cup LaneConds(s, a.binders[1].items[k].when)

Markers(s, is) ==
  {<<i, 0>> : i \in {x \in is : HasNum(s.actions[x])}}
    \cup UNION {{<<i, k>> : k \in DOMAIN s.actions[i].binders[1].items} :
                  i \in {x \in is : s.actions[x].binders # <<>>}}

MarkerRules(s, is) ==
  [id \in {"marker"} \X Markers(s, is) |->
     LET a == s.actions[id[2][1]]
     IN  Defeasible(Lit(Marker(a, id[2][2]), FALSE), MarkerBody(s, a, id[2][2]))]

LaneRHS(r) ==
  [base |-> r.base,
   tests |-> [k \in DOMAIN r.tests |-> [cond |-> LaneCond(r.tests[k].test), add |-> r.tests[k].add]]]

NumSpec(m, e) == [marker |-> m, pred |-> e.pred, op |-> Op(e), rhs |-> LaneRHS(RHS(e))]

\* The numeric effects of the family, each under its marker; numbered, for two
\* effects may be the same.
NumSpecs(s, is) ==
  UNION {{<<i, 0, k, NumSpec(Marker(s.actions[i], 0), s.actions[i].effects[k])>> :
            k \in {x \in DOMAIN s.actions[i].effects : s.actions[i].effects[x].form = "num"}} : i \in is}
    \cup
  UNION {{<<i, k, 0, NumSpec(Marker(s.actions[i], k), s.actions[i].binders[1].items[k].eff)>> :
            k \in DOMAIN s.actions[i].binders[1].items} :
           i \in {x \in is : s.actions[x].binders # <<>>}}

\* A step lane family: the fluents with a next state, and the actions in it.
StepLanes(s, S, fps, is, value) ==
  LET own   == {i \in is : s.actions[i].binders = <<>>}
      steps == [i \in own |-> LaneStep(s, s.actions[i])]
      here  == {Here(p) : p \in fps}
      marks == One({MarkerRules(s, is)})
      rules == [id \in DOMAIN Inertia(here) \cup DOMAIN Causal(steps) \cup DOMAIN marks |->
                  CASE id[1] = "marker" -> marks[id]
                    [] id[1] = "causal" -> Causal(steps)[id]
                    [] OTHER            -> Inertia(here)[id]]
  IN  [sort |-> S, fluents |-> fps, is |-> is, value |-> value, specs |-> NumSpecs(s, is),
       theory |-> Built(One({rules}), CausalSups(steps), {})]

-----------------------------------------------------------------------------
(* A split story: what lanes under which value (emit_step_lanes_split).    *)

SplitValues(s) == s.decl[s.split].values

\* The lane sort: that of the first boolean fluent of one argument.
SplitSorts(s) ==
  LET unary == SelectSeq(s.order, LAMBDA p : IsA(s, p, "fluent") /\ Len(s.decl[p].sorts) = 1)
  IN  IF unary = <<>> \/ Preds(s, "mv") # {s.split} \/ Cardinality(SplitValues(s)) < 2 THEN {}
      ELSE {s.decl[unary[1]].sorts[1]}

Selector(s, c) == c.pred = s.split /\ c.form = "mv" /\ ~ c.neg /\ ~ c.primed

\* The action is boolean over the lane entity, its selectors aside.
SplitLanes(s, a, S) ==
  /\ a.binders = <<>> /\ Len(a.vars) = 1 /\ a.vars[1][2] = S
  /\ \A c \in Range(a.requires) : Selector(s, c) \/ (c.pred # s.split /\ ReadOk(s, c, S, a.vars[1][1]))
  /\ \A e \in Range(a.effects) : FluentEffectOk(s, e, S, a.vars[1][1])

\* The values an action that lanes is live under; none if its selectors disagree.
LaneValues(s, a) ==
  {v \in SplitValues(s) : \A c \in Range(a.requires) : c.pred = s.split => c.val[1] = v}

\* Mutant: a residue action may write what a family manages.
StraddlesNever(s, a, S) == FALSE

\* The action writes a fluent of the lane sort.
Straddles(s, a, S) ==
  \E e \in Range(a.effects)
           \cup UNION {{a.binders[j].items[k].eff : k \in DOMAIN a.binders[j].items} : j \in DOMAIN a.binders} :
    e.form = "bool" /\ IsA(s, e.pred, "fluent") /\ s.decl[e.pred].sorts = <<S>>

LanedUnder(s, S, v) ==
  {i \in DOMAIN s.actions : SplitLanes(s, s.actions[i], S) /\ v \in LaneValues(s, s.actions[i])}

\* The fluents of the entity the covered actions touch.
Touched(s, is) ==
  UNION {{c.pred : c \in {x \in Range(s.actions[i].requires) \cup Range(s.actions[i].effects) :
                            x.pred # s.split /\ x.args # <<>>}} : i \in is}

SplitFamilies(s) ==
  {StepLanes(s, S, Touched(s, LanedUnder(s, S, v)), LanedUnder(s, S, v), v) :
     <<S, v>> \in {x \in SplitSorts(s) \X SplitValues(s) :
        /\ Domain[x[1]] # <<>>
        /\ \A i \in DOMAIN s.actions :
             ~ SplitLanes(s, s.actions[i], x[1]) => ~ Straddles(s, s.actions[i], x[1])
        /\ LanedUnder(s, x[1], x[2]) # {}}}

WholeFamilies(s) ==
  {StepLanes(s, S, {p \in Preds(s, "fluent") : s.decl[p].sorts = <<S>>}, DOMAIN s.actions, "any") :
     S \in {x \in LaneSorts(s) : LanesWhole(s, x)}}

\* A number read in the next state: the step is stratified and stays scalar.
HasPGuards(s) ==
  \E a \in Range(s.actions) :
    \/ \E c \in Range(a.requires) : c.form = "guard" /\ c.primed
    \/ \E e \in Range(a.effects) : e.form = "num" /\ \E l \in Range(RHS(e).loads) : l.primed

\* build_lane_families for a story with actions.
StepFamilies(s) ==
  IF s.actions = <<>> \/ HasPGuards(s) THEN {} ELSE IF s.split = "none" THEN WholeFamilies(s) ELSE SplitFamilies(s)

-----------------------------------------------------------------------------
(* The residue under a split value.                                        *)

\* srule_split_value: the values a grounded rule demands, read now.
Demanded(s, id) ==
  {c.atom[3][1] : c \in {x \in GroundStep(s, id).conds :
                           x.atom[1] = s.split /\ ~ x.neg /\ Len(x.atom) = 3}}

LiveUnder(s, v) == {id \in StepIds(s) : Demanded(s, id) \subseteq {v}}

\* The fluents the rules write or read in the next state.
WriteSet(s, ids) ==
  {f \in GroundFluents(s) :
     \E id \in ids : \/ \E l \in GroundStep(s, id).eff : l.atom = f
                     \/ \E c \in GroundStep(s, id).conds : c.atom = Primed(f)}

\* build_step_family_sparse: live and not covered by the lane family.
Residue(s, v, f) ==
  LET ids == {id \in LiveUnder(s, v) : id[1] \notin f.is} IN StepFamily(s, ids, WriteSet(s, ids))
=============================================================================
