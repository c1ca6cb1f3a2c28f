----------------------------- MODULE StoryCheck ------------------------------
(***************************************************************************)
(* The compile-time answer to contested steps and silent nulls (#98, #160  *)
(* in src/lang/story.c): pairs of effects, and pairs of judgment rules,    *)
(* that can land on one ground atom with conflicting content and whose     *)
(* conditions do not exclude each other.  The check works on the schema:   *)
(* argument lists are unified with variables as wildcards.                 *)
(***************************************************************************)
EXTENDS Story

-----------------------------------------------------------------------------
(* Unification.  A term is <<side, name>>: side 0 and 1 the variables of   *)
(* the two constructs, side 2 a constant.  A unifier is a set of equations. *)

Term(vs, side, x) == <<IF x \in Names(vs) THEN side ELSE 2, x>>

Equations(as, va, bs, vb) ==
  {{Term(va, 0, as[k]), Term(vb, 1, bs[k])} : k \in DOMAIN as}

\* The class of a term under the equations.
Class(u, t) ==
  LET F[T \in SUBSET (UNION u \cup {t})] ==
        LET near == T \cup UNION {q \in u : q \cap T # {}}
        IN  IF near = T THEN T ELSE F[near]
  IN  F[{t}]

\* No class holds two constants.
Consistent(u) ==
  \A t \in UNION u : Cardinality({x \in Class(u, t) : x[1] = 2}) <= 1

SameTerm(u, va, x, vb, y) == Term(vb, 1, y) \in Class(u, Term(va, 0, x))

SameArgs(u, va, a, vb, b) ==
  /\ Len(a.args) = Len(b.args)
  /\ \A k \in DOMAIN a.args : SameTerm(u, va, a.args[k], vb, b.args[k])

-----------------------------------------------------------------------------
(* Conditions that cannot hold together (cp_conds_exclusive).              *)

\* The least and greatest number a comparison admits; thresholds are small.
Least(c)    == CASE c[1] \in {"le", "lt"} -> -1000 [] c[1] = "gt" -> c[2] + 1 [] OTHER -> c[2]
Greatest(c) == CASE c[1] \in {"ge", "gt"} -> 1000 [] c[1] = "lt" -> c[2] - 1 [] OTHER -> c[2]

Disjoint(c, d) == Greatest(c) < Least(d) \/ Greatest(d) < Least(c)

CondsExclusive(u, ca, va, cb, vb) ==
  /\ ca.form = cb.form
  /\ SameArgs(u, va, ca, vb, cb)
  /\ \/ /\ ca.form = "member"
        /\ ~ ca.neg /\ ~ cb.neg
        /\ Range(ca.val) \cap Range(cb.val) = {}
     \/ /\ ca.form # "member"
        /\ ca.pred = cb.pred /\ ca.primed = cb.primed
        /\ CASE ca.form = "guard" -> Disjoint(ca.val, cb.val)
             [] ca.form = "mv"    -> /\ ~ ca.neg /\ ~ cb.neg
                                     /\ ca.val[1] \notin Names(va) /\ cb.val[1] \notin Names(vb)
                                     /\ ca.val # cb.val
             [] ca.form = "bool"  -> ca.neg # cb.neg
             [] OTHER             -> FALSE

GroupsExclusive(u, as, va, bs, vb) ==
  \E i \in DOMAIN as, j \in DOMAIN bs : CondsExclusive(u, as[i], va, bs[j], vb)

-----------------------------------------------------------------------------
(* Effect writers (cp_collect_writer): an effect with the variables and    *)
(* the conditions it stands under.                                         *)

Writer(i, a, vs, cs, eff) ==
  [owner |-> i, action |-> a.name, ramif |-> a.ramif, params |-> a.vars,
   vars |-> vs, conds |-> cs, eff |-> eff]

WritersOf(i, a) ==
  [k \in DOMAIN a.effects |-> Writer(i, a, a.vars, a.requires, a.effects[k])]
    \o FlattenSeq([j \in DOMAIN a.binders |->
         LET bnd == a.binders[j]
         IN  [k \in DOMAIN bnd.items |->
                Writer(i, a, a.vars \o bnd.vars, a.requires \o bnd.where \o bnd.items[k].when,
                       bnd.items[k].eff)]])

Writers(s) == FlattenSeq([i \in DOMAIN s.actions |-> WritersOf(i, s.actions[i])])

\* The variables of a writer its effect's arguments determine.
Covered(w) == Names(w.vars) \cap Range(w.eff.args)

Folds(r) == r.tests = <<>> /\ r.loads = <<>>

\* cp_expr_varies: the expression reads a variable outside the covered ones.
Varies(w, r) ==
  \E at \in {r.tests[k].test : k \in DOMAIN r.tests} \cup Range(r.loads) :
    \E k \in DOMAIN at.args : at.args[k] \in Names(w.vars) \ Covered(w)

Member(g, n) == CHOOSE m \in DOMAIN g : g[m].action = n
HasMember(g, n) == \E m \in DOMAIN g : g[m].action = n

\* Mutant: two members of a group are apart whatever their keys are.
ExclCoversAnyKey(s, u, a, b) ==
  /\ ~ a.ramif /\ ~ b.ramif /\ a.owner # b.owner
  /\ \E e \in DOMAIN s.excl : HasMember(s.excl[e], a.action) /\ HasMember(s.excl[e], b.action)

\* cp_excl_covers_pair: one group has both actions, and colliding instances
\* are forced to share its key.
ExclCoversPair(s, u, a, b) ==
  /\ ~ a.ramif /\ ~ b.ramif /\ a.owner # b.owner
  /\ \E e \in DOMAIN s.excl :
       /\ HasMember(s.excl[e], a.action) /\ HasMember(s.excl[e], b.action)
       /\ LET ma == s.excl[e][Member(s.excl[e], a.action)]
              mb == s.excl[e][Member(s.excl[e], b.action)]
          IN  \A k \in Named(ma) : \E j \in Named(mb) :
                /\ mb.keys[j] = ma.keys[k]
                /\ SameTerm(u, a.vars, a.params[k][1], b.vars, b.params[j][1])

\* cp_excl_covers_self: every binder variable and every key is in the effect's
\* arguments.
ExclCoversSelf(s, w) ==
  /\ ~ w.ramif
  /\ Names(w.vars) \ Names(w.params) \subseteq Covered(w)
  /\ \E e \in DOMAIN s.excl :
       /\ HasMember(s.excl[e], w.action)
       /\ LET m == s.excl[e][Member(s.excl[e], w.action)]
          IN  \A k \in Named(m) : w.params[k][1] \in Covered(w)

Op(e)  == e.val[1]
RHS(e) == e.val[2]
Merged(s, e) == s.decl[e.pred].merge # "register"

\* The two effects disagree wherever they meet.
ContentConflicts(s, u, a, b) ==
  LET ea == a.eff
      eb == b.eff
  IN  /\ ea.pred = eb.pred /\ ea.form = eb.form
      /\ CASE ea.form = "num"  -> /\ Op(ea) = "assign" /\ Op(eb) = "assign"
                                  /\ ~ Merged(s, ea)
                                  /\ ~ (Folds(RHS(ea)) /\ Folds(RHS(eb)) /\ RHS(ea).base = RHS(eb).base)
           [] ea.form = "mv"   -> ~ SameTerm(u, a.vars, ea.val[1], b.vars, eb.val[1])
           [] ea.form = "bool" -> ea.neg # eb.neg

\* cp_check_writer_pair reports the pair.
PairContests(s, a, b) ==
  /\ a.eff.pred = b.eff.pred /\ Len(a.eff.args) = Len(b.eff.args)
  /\ LET u == Equations(a.eff.args, a.vars, b.eff.args, b.vars)
     IN  /\ Consistent(u)
         /\ ContentConflicts(s, u, a, b)
         /\ ~ GroupsExclusive(u, a.conds, a.vars, b.conds, b.vars)
         /\ ~ ExclCoversPair(s, u, a, b)

\* cp_check_writer_self reports the writer: bindings that meet on one atom can
\* give it different values.
SelfContests(s, w) ==
  /\ Names(w.vars) \ Covered(w) # {}
  /\ ~ ExclCoversSelf(s, w)
  /\ CASE w.eff.form = "num"  -> Op(w.eff) = "assign" /\ ~ Merged(s, w.eff) /\ Varies(w, RHS(w.eff))
       [] w.eff.form = "mv"   -> w.eff.val[1] \in Names(w.vars) \ Covered(w)
       [] w.eff.form = "bool" -> FALSE

\* The step side: an error.
StepContests(s) ==
  LET ws == Writers(s)
  IN  \E i \in DOMAIN ws : \/ SelfContests(s, ws[i])
                           \/ \E j \in DOMAIN ws : j > i /\ PairContests(s, ws[i], ws[j])

-----------------------------------------------------------------------------
(* Judgment rules: a warning.                                              *)

Concludes(r) == r.kind # "defeater" /\ r.head.form = "bool"

\* Mutant: any edge between two rules for the two heads orders them.
TeamCoversEitherWay(s, a, b) ==
  \E e \in RuleEdges(s) :
    s.rules[e[1]].head.pred = a.head.pred /\ s.rules[e[2]].head.pred = b.head.pred

\* cp_team_covers: some defeasible rule for the head of a beats b.
TeamCovers(s, a, b) ==
  \E e \in RuleEdges(s) :
    LET t == s.rules[e[1]]
    IN  /\ Concludes(t) /\ t.kind # "strict"
        /\ t.head.pred = a.head.pred /\ t.head.neg = a.head.neg
        /\ s.rules[e[2]].label = b.label

\* cp_check_rule_pair: complementary heads that may meet, bodies that do not
\* exclude each other, both strict or nothing that orders them.
RulePairWarned(s, a, b) ==
  /\ Concludes(a) /\ Concludes(b)
  /\ a.head.pred = b.head.pred /\ a.head.neg # b.head.neg
  /\ Len(a.head.args) = Len(b.head.args)
  /\ LET u == Equations(a.head.args, a.vars, b.head.args, b.vars)
     IN  Consistent(u) /\ ~ GroupsExclusive(u, a.body, a.vars, b.body, b.vars)
  /\ \/ a.kind = "strict" /\ b.kind = "strict"
     \/ /\ a.kind # "strict" /\ b.kind # "strict"
        /\ ~ TeamCovers(s, a, b) /\ ~ TeamCovers(s, b, a)

\* The pairs of rules warned of.
ContestedPairs(s) ==
  {p \in (DOMAIN s.rules) \X (DOMAIN s.rules) :
     p[1] < p[2] /\ RulePairWarned(s, s.rules[p[1]], s.rules[p[2]])}

\* check_orphans: a condition nothing can ever make true.
RuleHeads(s) == {s.rules[i].head.pred : i \in DOMAIN s.rules}

ConditionLists(s) ==
  UNION {{s.rules[i].body} \cup Range(s.rules[i].unless) : i \in DOMAIN s.rules}
    \cup UNION {{s.actions[i].requires}
                  \cup UNION {{bnd.where} \cup {bnd.items[k].when : k \in DOMAIN bnd.items} :
                                 bnd \in Range(s.actions[i].binders)} : i \in DOMAIN s.actions}

Orphaned(s) ==
  \E at \in UNION {Conjuncts(as) : as \in ConditionLists(s)} :
    at.pred \notin RuleHeads(s) \cup {p \in DOMAIN s.decl : s.decl[p].is # "derived"}

\* What stops a compile, and what it only warns of.
Rejected(s) ==
  \/ StepContests(s)
  \/ ~ ExclusivesWellFormed(s) \/ KeysOverCap(s)
  \/ FluentsOverCap(s)
  \/ \E i \in DOMAIN s.rules : OverCap(s.rules[i].vars)

Warned(s) ==
  \/ ContestedPairs(s) # {} \/ Orphaned(s)
  \/ \E i \in DOMAIN s.actions : OverCap(s.actions[i].vars)
=============================================================================
