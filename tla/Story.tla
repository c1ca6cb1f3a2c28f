-------------------------------- MODULE Story --------------------------------
(***************************************************************************)
(* What the story compiler (src/lang/story.c) makes of a parsed story: the *)
(* ground world.  A schema construct over typed variables becomes one      *)
(* ground construct per binding of its variables; a superiority edge, an   *)
(* exclusivity group and a priority band are expanded over those.          *)
(*                                                                         *)
(* A story is a record                                                     *)
(*   sorts   sequence of sort names;  order  fluents as declared           *)
(*   decl    predicate -> [is, sorts, values, merge, min, max], is one of  *)
(*           "fluent", "mv", "num", "provider", "derived" (what rules      *)
(*           conclude)                                                     *)
(*   rules   sequence of [label, kind, vars, head, body, unless, band]     *)
(*           (unless: a sequence of conjunctions, at most one)             *)
(*   sups    sequence of <<winner label, loser label>>                     *)
(*   ladders sequence of sequences of bands, lowest first                  *)
(*   actions sequence of [name, ramif, vars, requires, effects, binders],  *)
(*           a binder [vars, where, items] with items [when, eff]          *)
(*   excl    sequence of groups, a group a sequence of [action, keys] with *)
(*           one key (or "_") per argument                                 *)
(*   init    sequence of atoms;  split: the split fluent or "none"         *)
(*   host    ground rules the host adds to the world after the compile     *)
(* Variables are sequences of <<name, sort>>.  Text, kinds, value layers   *)
(* and roll sites are abstracted: a right-hand side is a base constant,    *)
(* what each true test adds to it, and the numbers it loads.               *)
(***************************************************************************)
EXTENDS Integers, Sequences, FiniteSets, SequencesExt

CONSTANTS Domain,         \* the entities of every sort, in declaration order
          MaxInstances    \* MAX_INSTANCES: the cap on one construct's bindings

-----------------------------------------------------------------------------
(* Atoms of the schema.                                                    *)

\* form: "bool" p(..), "mv" f(..) = v, "guard" n(..) cmp t, "member" X in {..},
\* "num" an effect n(..) op rhs.  val holds the value, comparison or list.
Atom(form, p, as, neg, primed, val) ==
  [form |-> form, pred |-> p, args |-> as, neg |-> neg, primed |-> primed, val |-> val]

Bool(p, as)       == Atom("bool", p, as, FALSE, FALSE, <<>>)
Not(a)            == [a EXCEPT !.neg = TRUE]
After(a)          == [a EXCEPT !.primed = TRUE]
Is(p, as, v)      == Atom("mv", p, as, FALSE, FALSE, <<v>>)
Cmp(p, as, op, t) == Atom("guard", p, as, FALSE, FALSE, <<op, t>>)
OneOf(x, es)      == Atom("member", "in", <<x>>, FALSE, FALSE, es)
Num(p, as, op, r) == Atom("num", p, as, FALSE, FALSE, <<op, r>>)

Names(vs) == {vs[i][1] : i \in DOMAIN vs}
SortOf(vs, x) == vs[CHOOSE i \in DOMAIN vs : vs[i][1] = x][2]

IsA(s, p, kind) == p \in DOMAIN s.decl /\ s.decl[p].is = kind
Preds(s, kind)  == {p \in DOMAIN s.decl : IsA(s, p, kind)}

-----------------------------------------------------------------------------
(* Bindings: the odometer of instance_count and decode_binding.            *)

Entities(sort) == Range(Domain[sort])

Count(vs) == FoldLeft(LAMBDA n, v : n * Len(Domain[v[2]]), 1, vs)

OverCap(vs) == Count(vs) > MaxInstances

\* Every binding of the variables; none when a sort is empty or the product
\* is over the cap.
Bindings(vs) ==
  IF OverCap(vs) THEN {}
  ELSE {b \in [Names(vs) -> UNION {Entities(vs[i][2]) : i \in DOMAIN vs}] :
          \A i \in DOMAIN vs : b[vs[i][1]] \in Entities(vs[i][2])}

Resolve(b, x) == IF x \in DOMAIN b THEN b[x] ELSE x

OnlyOf(b, vs) == [x \in Names(vs) |-> b[x]]

\* members_ok: the membership conjuncts are decided per instance.
MembersOk(as, b) ==
  \A i \in DOMAIN as :
    as[i].form = "member" =>
      (Resolve(b, as[i].args[1]) \in Range(as[i].val)) # as[i].neg

\* The conjuncts left of a body once its memberships are decided.
Conjuncts(as) == {as[i] : i \in {j \in DOMAIN as : as[j].form # "member"}}

-----------------------------------------------------------------------------
(* Ground atoms <<predicate, entities, suffix>> and literals.              *)

GroundAtom(a, b) ==
  <<a.pred, [k \in DOMAIN a.args |-> Resolve(b, a.args[k])],
    IF a.form = "mv" THEN <<Resolve(b, a.val[1])>>
    ELSE IF a.form = "guard" THEN a.val ELSE <<>>>>

ActionAtom(a, b) == <<a.name, [k \in DOMAIN a.vars |-> b[a.vars[k][1]]], <<>>>>

Lit(atom, neg) == [atom |-> atom, neg |-> neg]
Opposite(l)    == [l EXCEPT !.neg = ~ @]
GroundLit(a, b) == Lit(GroundAtom(a, b), a.neg)

\* The next-state twin of an atom.
Primed(atom) == <<atom[1], atom[2], atom[3], "'">>
PrimedOf(l)  == Lit(Primed(l.atom), l.neg)

Cond(a, b) == IF a.primed THEN PrimedOf(GroundLit(a, b)) ELSE GroundLit(a, b)

-----------------------------------------------------------------------------
(* declare_ground_fluents and ground_inits.                                *)

ArgVars(sorts) == [k \in DOMAIN sorts |-> <<k, sorts[k]>>]

Tuples(sorts) == {[k \in DOMAIN sorts |-> b[k]] : b \in Bindings(ArgVars(sorts))}

Slots(s, kind) ==
  UNION {{<<p, as, <<>>>> : as \in Tuples(s.decl[p].sorts)} : p \in Preds(s, kind)}

ValueAtoms(s, p, as) == {<<p, as, <<v>>>> : v \in s.decl[p].values}

GroundFluents(s) ==
  Slots(s, "fluent")
    \cup UNION {UNION {ValueAtoms(s, p, as) : as \in Tuples(s.decl[p].sorts)} :
                  p \in Preds(s, "mv")}

GroundNums(s) == Slots(s, "num")

\* A fluent too large to declare stops the compile.
FluentsOverCap(s) ==
  \E p \in Preds(s, "fluent") \cup Preds(s, "mv") \cup Preds(s, "num") :
    OverCap(ArgVars(s.decl[p].sorts))

NoBinding == <<>>

InitVals(s) ==
  [f \in GroundFluents(s) |->
     \E i \in DOMAIN s.init : s.init[i].form # "num" /\ GroundAtom(s.init[i], NoBinding) = f]

InitNums(s) ==
  [n \in GroundNums(s) |->
     LET set == {i \in DOMAIN s.init : s.init[i].form = "num" /\ GroundAtom(s.init[i], NoBinding) = n}
     IN  IF set = {} THEN 0 ELSE s.init[CHOOSE i \in set : \A j \in set : j <= i].val[2].base]

-----------------------------------------------------------------------------
(* ground_rule: <<label, binding, "rule">>, and for an `unless` clause the *)
(* defeater <<label, binding, "unless">> against the head.                 *)

RuleIds(s) ==
  UNION {{<<i, b, "rule">> : b \in {x \in Bindings(s.rules[i].vars) : MembersOk(s.rules[i].body, x)}} :
           i \in DOMAIN s.rules}

UnlessIds(s) ==
  {<<id[1], id[2], "unless">> :
     id \in {x \in RuleIds(s) : \E u \in Range(s.rules[x[1]].unless) : MembersOk(u, x[2])}}

Ground(as, b) == {GroundLit(a, b) : a \in Conjuncts(as)}

GroundRule(s, id) ==
  LET r    == s.rules[id[1]]
      head == GroundLit(r.head, id[2])
  IN  IF id[3] = "rule"
        THEN [kind |-> r.kind, head |-> head, body |-> Ground(r.body, id[2])]
        ELSE [kind |-> "defeater", head |-> Opposite(head), body |-> Ground(r.unless[1], id[2])]

GroundRules(s) == [id \in RuleIds(s) \cup UnlessIds(s) |-> GroundRule(s, id)]

-----------------------------------------------------------------------------
(* Superiority: bands first, then every edge over its instances.           *)

Band(s, r, k) == r.band # "none" /\ \E j \in DOMAIN s.ladders[k] : s.ladders[k][j] = r.band
Rank(s, r, k) == CHOOSE j \in DOMAIN s.ladders[k] : s.ladders[k][j] = r.band

HeadsConflict(a, b) ==
  /\ a.head.pred = b.head.pred
  /\ a.head.form = "bool" /\ b.head.form = "bool"
  /\ a.head.neg # b.head.neg

\* desugar_bands: of two conflicting rules of one ladder the higher band wins.
BandPairs(s) ==
  {p \in (DOMAIN s.rules) \X (DOMAIN s.rules) :
     /\ HeadsConflict(s.rules[p[1]], s.rules[p[2]])
     /\ \E k \in DOMAIN s.ladders :
          /\ Band(s, s.rules[p[1]], k) /\ Band(s, s.rules[p[2]], k)
          /\ Rank(s, s.rules[p[1]], k) > Rank(s, s.rules[p[2]], k)}

Labelled(s, l) == CHOOSE i \in DOMAIN s.rules : s.rules[i].label = l

\* The edges between rules: declared and from bands.
RuleEdges(s) ==
  {<<Labelled(s, s.sups[e][1]), Labelled(s, s.sups[e][2])>> : e \in DOMAIN s.sups} \cup BandPairs(s)

\* The variables of both rules, shared by name.
UnionVars(a, b) ==
  a.vars \o SelectSeq(b.vars, LAMBDA v : v[1] \notin Names(a.vars))

\* emit_sup_edges: instances that agree on the shared variables, if both are
\* there; over the cap there are no edges at all.
GroundSups(s) ==
  UNION {LET a == s.rules[e[1]]
             b == s.rules[e[2]]
         IN  {<<<<e[1], OnlyOf(u, a.vars), "rule">>, <<e[2], OnlyOf(u, b.vars), "rule">>>> :
                u \in Bindings(UnionVars(a, b))}
         : e \in RuleEdges(s)}
    \cap (RuleIds(s) \X RuleIds(s))

-----------------------------------------------------------------------------
(* ground_action: one step rule per binding, and one more per binder item  *)
(* and inner binding.  Over the cap an action is left out with a warning.  *)

NoTrigger == <<"none", <<>>, <<>>>>

Trigger(a, b) == IF a.ramif THEN NoTrigger ELSE ActionAtom(a, b)

\* The literals an effect concludes: a multi-valued assignment denies the
\* sibling values.
EffectLits(s, e, b) ==
  CASE e.form = "num"  -> {}
    [] e.form = "bool" -> {GroundLit(e, b)}
    [] e.form = "mv"   ->
         LET g == GroundAtom(e, b)
         IN  {Lit(v, v # g) : v \in ValueAtoms(s, g[1], g[2])}

\* A grounded right-hand side: the base, what each test adds, and the loads.
GroundRHS(r, b) ==
  [base  |-> r.base,
   tests |-> [k \in DOMAIN r.tests |-> [cond |-> GroundLit(r.tests[k].test, b), add |-> r.tests[k].add]],
   loads |-> [k \in DOMAIN r.loads |-> GroundAtom(r.loads[k], b)]]

NumEffects(es, b) ==
  LET ns == SelectSeq(es, LAMBDA e : e.form = "num")
  IN  [k \in DOMAIN ns |-> [num |-> GroundAtom(ns[k], b), op |-> ns[k].val[1],
                            rhs |-> GroundRHS(ns[k].val[2], b)]]

Conds(as, b) == {Cond(a, b) : a \in Conjuncts(as)}

Unprimed(as) == [k \in DOMAIN as |-> [as[k] EXCEPT !.primed = FALSE]]

\* <<action, binding, binder, item, inner binding>>, binder 0 for the action itself.
BaseStepIds(s) ==
  UNION {{<<i, b, 0, 0, NoBinding>> :
            b \in {x \in Bindings(s.actions[i].vars) : MembersOk(s.actions[i].requires, x)}} :
           i \in DOMAIN s.actions}

Joined(b, c) == [x \in DOMAIN b \cup DOMAIN c |-> IF x \in DOMAIN c THEN c[x] ELSE b[x]]

BinderStepIds(s) ==
  UNION {UNION {UNION {
    LET bnd == s.actions[id[1]].binders[j]
    IN  {<<id[1], id[2], j, k, c>> :
           c \in {x \in Bindings(bnd.vars) :
                    /\ MembersOk(bnd.where, Joined(id[2], x))
                    /\ MembersOk(bnd.items[k].when, Joined(id[2], x))}}
    : k \in DOMAIN s.actions[id[1]].binders[j].items}
    : j \in DOMAIN s.actions[id[1]].binders}
    : id \in BaseStepIds(s)}

StepIds(s) == BaseStepIds(s) \cup BinderStepIds(s)

GroundStep(s, id) ==
  LET a == s.actions[id[1]]
      b == id[2]
  IN  IF id[3] = 0
        THEN [act |-> Trigger(a, b), conds |-> Conds(a.requires, b),
              eff |-> UNION {EffectLits(s, a.effects[k], b) : k \in DOMAIN a.effects},
              neffs |-> NumEffects(a.effects, b)]
        ELSE LET bnd  == a.binders[id[3]]
                 item == bnd.items[id[4]]
                 c    == Joined(b, id[5])
             IN  [act |-> Trigger(a, b),
                  conds |-> Conds(a.requires, b) \cup Conds(Unprimed(bnd.where), c)
                              \cup Conds(Unprimed(item.when), c),
                  eff |-> EffectLits(s, item.eff, c), neffs |-> NumEffects(<<item.eff>>, c)]

-----------------------------------------------------------------------------
(* ground_exclusives: memberships <<group, key, action atom>>.             *)

ActionNamed(s, n) == s.actions[CHOOSE i \in DOMAIN s.actions : s.actions[i].name = n]

Named(m) == {k \in DOMAIN m.keys : m.keys[k] # "_"}

\* The named keys of a group with their sorts.
KeyVars(s, g) ==
  UNION {{<<g[m].keys[k], ActionNamed(s, g[m].action).vars[k][2]>> : k \in Named(g[m])} :
           m \in DOMAIN g}

\* A group whose keys range over too many entities stops the compile.
KeysOverCap(s) == \E e \in DOMAIN s.excl : OverCap(SetToSeq(KeyVars(s, s.excl[e])))

\* The entity each key variable has in one action instance.
KeyOf(s, g, m, b) ==
  LET a == ActionNamed(s, g[m].action)
  IN  [v \in {kv[1] : kv \in KeyVars(s, g)} |->
         b[a.vars[CHOOSE k \in DOMAIN g[m].keys : g[m].keys[k] = v][1]]]

GroundExclusives(s) ==
  UNION {UNION {LET a == ActionNamed(s, s.excl[e][m].action)
                IN  {<<e, KeyOf(s, s.excl[e], m, b), ActionAtom(a, b)>> : b \in Bindings(a.vars)}
                : m \in DOMAIN s.excl[e]} : e \in DOMAIN s.excl}

\* check_exclusives: a key is named in every member, at one sort and once.
ExclusivesWellFormed(s) ==
  \A e \in DOMAIN s.excl : \A m \in DOMAIN s.excl[e] :
    LET g == s.excl[e]
        named(i) == {g[i].keys[k] : k \in Named(g[i])}
    IN  /\ \E i \in DOMAIN s.actions : s.actions[i].name = g[m].action /\ ~ s.actions[i].ramif
        /\ Len(g[m].keys) = Len(ActionNamed(s, g[m].action).vars)
        /\ \A i \in DOMAIN g : i # m => g[i].action # g[m].action
        /\ \A kv \in KeyVars(s, g) : kv[1] \in named(m)
        /\ \A v \in named(m) : Cardinality({k \in DOMAIN g[m].keys : g[m].keys[k] = v}) = 1
        /\ \A x \in KeyVars(s, g), y \in KeyVars(s, g) : x[1] = y[1] => x = y
=============================================================================
