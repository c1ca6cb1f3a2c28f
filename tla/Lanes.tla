-------------------------------- MODULE Lanes --------------------------------
(***************************************************************************)
(* A compiled world behind its two evaluators (src/state/world.c): a query *)
(* or a step goes through the lane families when they cover it and are     *)
(* current, and through the scalar (N=1) families otherwise; with a split  *)
(* fluent one step goes through both.  Which path answers must not show;   *)
(* StepIsTheScalarStep names the two kinds of step where it does.          *)
(*                                                                         *)
(* The scalar judgment family is kept as a function of the store (module   *)
(* WorldCache has its cache); the lane families keep theirs, one solved    *)
(* iteration each.  Left out: subscriptions, receipts, emissions, strata   *)
(* (modules WorldStep and Stratify) and lazily matched rules.              *)
(***************************************************************************)
EXTENDS StepLanes

CONSTANTS Progs,      \* the programs: [id, story, and what a host tries with it]
          MaxEdits    \* bound: host edits and steps of one world

VARIABLES prog,       \* the program
          worlds,     \* what the compile makes of the story, and of it with the late rules
          phase,      \* "source", "ready" or "rejected"
          lanes_ok,   \* the lane families reflect the rules
          late,       \* rules the host added after the compile
          vals, nums, \* the store
          holds,      \* the provider atoms that hold
          lanes,      \* per judgment family: solved, cur_it and its fact columns
          answer,     \* the last query and its verdict, none once the store moves
          last,       \* the last step: its input, its path and its outcome
          edits       \* host edits and steps so far

vars == <<prog, worlds, phase, lanes_ok, late, vals, nums, holds, lanes, answer, last, edits>>

-----------------------------------------------------------------------------
(* What the compile leaves in the world.                                   *)

\* world_attacked_cycle: a rule attacks a literal of a support cycle.
AttackedCycle(c) == \E x \in Range(SupportSccs(c.t)) : CyclicScc(c.t, x) /\ AttackedScc(c.t, x)

\* The story as the lane actions is read it: a global only in the current state.
ReadNow(s, is) ==
  [s EXCEPT !.actions = [i \in DOMAIN s.actions |->
     IF i \notin is THEN s.actions[i]
     ELSE [s.actions[i] EXCEPT !.requires =
             [k \in DOMAIN @ |-> IF @[k].args = <<>> THEN [@[k] EXCEPT !.primed = FALSE] ELSE @[k]]]]]

\* readnow is what the property of the step compares with, not a part of the world.
World(s) ==
  LET fams   == JudgmentLanes(s)
      judged == One({Built(JudgmentRules(s), JudgmentSups(s), GroundFluents(s) \cup Slots(s, "provider"))})
  IN  [rejected |-> Rejected(s) \/ AttackedCycle(judged),
       warned |-> Warned(s), contested |-> ContestedPairs(s), sides |-> JudgmentRules(s),
       judgments |-> judged,
       families |-> fams, routes |-> Routes(fams),
       steps |-> StepFamilies(s), full |-> StepFamily(s, StepIds(s), GroundFluents(s)),
       readnow |-> [v \in {f.value : f \in StepFamilies(s)} |->
                      StepFamily(ReadNow(s, One({f \in StepFamilies(s) : f.value = v}).is),
                                 StepIds(s), GroundFluents(s))],
       narrowed |-> IF s.split = "none" THEN <<>>
                    ELSE [v \in SplitValues(s) |-> StepFamily(s, LiveUnder(s, v), WriteSet(s, LiveUnder(s, v)))],
       residues |-> [v \in {f.value : f \in StepFamilies(s)} \ {"any"} |->
                       Residue(s, v, One({f \in StepFamilies(s) : f.value = v}))],
       groups |-> GroundExclusives(s)]

\* The story with the rules a host adds to the world later.
Extended(p) == [p.story EXCEPT !.host = p.late]

\* The world, now and with the rules added later.
WorldsOf(p) ==
  One({[added \in {FALSE, p.late # <<>>} |-> World(IF added THEN Extended(p) ELSE p.story)]})

Src == prog.story
W == worlds[late]

-----------------------------------------------------------------------------
(* Facts: the store, the host's providers and the numeric guards.          *)

FluentFacts(v) == {Lit(f, ~ v[f]) : f \in DOMAIN v}

Provided(s, hs) == {Lit(a, a \notin hs) : a \in Slots(s, "provider")}

Compare(c, n) ==
  CASE c[1] = "le" -> n <= c[2] [] c[1] = "lt" -> n < c[2] [] c[1] = "ge" -> n >= c[2]
    [] c[1] = "gt" -> n > c[2] [] c[1] = "eq" -> n = c[2]

NumOf(a) == <<a[1], a[2], <<>>>>

GuardFacts(s, c, n) ==
  {Lit(a, ~ Compare(a[3], n[NumOf(a)])) : a \in {x \in DOMAIN c.of : IsA(s, x[1], "num")}}

-----------------------------------------------------------------------------
(* Queries.                                                                *)

\* query_jfam.
Scalar(v, q) ==
  Verdictof(W.judgments, Solved(W.judgments, FluentFacts(v) \cup Provided(Src, holds)), q)

Column(f, facts, l) == Verdictof(f.theory, Solved(f.theory, facts), l)

\* What an imported verdict puts into the column: only what is proved.
Imported(l, pos, neg) ==
  IF pos = DL_PROVED THEN {Lit(l, FALSE)} ELSE IF neg = DL_PROVED THEN {Lit(l, TRUE)} ELSE {}

\* A stored or provided cell of lane e.
Loaded(f, l, it, e) ==
  CASE f.kinds[l] = "fluent"   -> {Lit(l, ~ vals[Cell(l, it, e)])}
    [] f.kinds[l] = "provider" -> {Lit(l, Cell(l, it, e) \notin holds)}
    [] OTHER                   -> {}

\* What a family imports: its locals concluded elsewhere, per lane.
Imports(f) == {l \in DOMAIN f.kinds : f.kinds[l] = "import"} \X Entities(f.lane)

\* solve_lane_iter: the columns of iteration it, every lane; got holds what the
\* imports were worth.
Columns(f, it, got) ==
  [solved |-> TRUE, it |-> it,
   facts |-> [e \in Entities(f.lane) |->
                UNION {Loaded(f, l, it, e) : l \in DOMAIN f.kinds} \cup {g[2] : g \in {x \in got : x[1] = e}}]]

RECURSIVE Ask(_, _)

\* world_query: the caches it leaves and the verdict.  A family not solved for the
\* iteration asks for its imports first, true and then false.
Ask(L, q) ==
  IF ~ (lanes_ok /\ q.atom \in DOMAIN W.routes) THEN [caches |-> L, v |-> Scalar(vals, q)]
  ELSE
    LET k    == W.routes[q.atom][1]
        c    == W.routes[q.atom][2]
        f    == W.families[k]
        asks == InSequence(Imports(f))
        load[i \in 0 .. 2 * Len(asks)] ==
          IF i = 0 THEN [caches |-> L, got |-> {}]
          ELSE LET r == load[i - 1]
                   x == asks[(i + 1) \div 2]
                   l == Lit(x[1], i % 2 = 0)
               IN  IF <<x[2], Opposite(l)>> \in r.got THEN r
                   ELSE One({[caches |-> a.caches,
                              got |-> IF a.v = DL_PROVED THEN r.got \cup {<<x[2], l>>} ELSE r.got]
                             : a \in {Ask(r.caches, Lit(Cell(x[1], c[2], x[2]), l.neg))}})
    IN  One({[caches |-> M, v |-> Column(f, M[k].facts[c[3]], Lit(c[1], q.neg))]
             : M \in {IF L[k].solved /\ L[k].it = c[2] THEN L
                      ELSE One({[r.caches EXCEPT ![k] = Columns(f, c[2], r.got)]
                                : r \in {load[2 * Len(asks)]}})}})

-----------------------------------------------------------------------------
(* Numbers.                                                                *)

SumOf(f) ==
  LET F[D \in SUBSET DOMAIN f] == IF D = {} THEN 0 ELSE LET x == CHOOSE y \in D : TRUE IN f[x] + F[D \ {x}]
  IN  F[DOMAIN f]

Clamp(d, n) == IF n < d.min THEN d.min ELSE IF n > d.max THEN d.max ELSE n

\* The next value of a number from its contributions [id -> <<op, amount>>]:
\* num_join over the assignments, the deltas, the declared range.
NextNum(d, now, C) ==
  LET given == {C[id][2] : id \in {x \in DOMAIN C : C[x][1] = "assign"}}
      base  == IF given = {} THEN now
               ELSE IF d.merge = "max" THEN CHOOSE x \in given : \A y \in given : y <= x
               ELSE CHOOSE x \in given : \A y \in given : x <= y
      delta == [id \in {x \in DOMAIN C : C[x][1] # "assign"} |->
                  IF C[id][1] = "add" THEN C[id][2] ELSE - C[id][2]]
  IN  [clash |-> d.merge = "register" /\ Cardinality(given) > 1,
       to    |-> Clamp(d, base + SumOf(delta))]

Refused == "refused"
Outcome(rc, v, n) == [rc |-> rc, vals |-> v, nums |-> n]

\* A step settles when every fluent has a next value and no number clashes.
Settle(v, n, next, contribs) ==
  LET to == [x \in DOMAIN n |-> NextNum(Src.decl[x[1]], n[x], contribs[x])]
  IN  IF (\E f \in DOMAIN v : next[f] = "contested") \/ (\E x \in DOMAIN n : to[x].clash)
        THEN Outcome("contested", v, n)
        ELSE Outcome("ok", [f \in DOMAIN v |-> next[f] = "true"], [x \in DOMAIN n |-> to[x].to])

Next2(pos, neg) == IF pos = DL_PROVED THEN "true" ELSE IF neg = DL_PROVED THEN "false" ELSE "contested"

Told(b) == IF b THEN "true" ELSE "false"

-----------------------------------------------------------------------------
(* The scalar step, and the residue of a mixed one: mixed is the next      *)
(* value of every fluent the lane half manages.                            *)

Managed(mixed) == DOMAIN mixed

SolveStep(fam, v, n, acts, mixed) ==
  Solved(fam.theory,
         FluentFacts(v) \cup {Lit(a, FALSE) : a \in acts} \cup Provided(Src, holds)
           \cup GuardFacts(Src, fam.theory, n)
           \cup {Lit(Primed(f), ~ mixed[f]) : f \in Managed(mixed) \cap fam.flw})

\* srule_fired.
Fired(fam, st, acts, id) ==
  LET r == fam.steps[id]
  IN  (r.act # NoTrigger => r.act \in acts) /\ \A c \in r.conds : Verdictof(fam.theory, st, c) = DL_PROVED

\* lit_solved_proved: fluents and providers from their source, the rest from the solve.
Tests(fam, st, v, l) ==
  IF l.atom \in DOMAIN v THEN v[l.atom] # l.neg
  ELSE IF l.atom \in Slots(Src, "provider") THEN (l.atom \in holds) # l.neg
  ELSE Verdictof(fam.theory, st, l) = DL_PROVED

Value(fam, st, v, n, r) ==
  r.base + SumOf([k \in {x \in DOMAIN r.tests : Tests(fam, st, v, r.tests[x].cond)} |-> r.tests[k].add])
         + SumOf([k \in DOMAIN r.loads |-> n[r.loads[k]]])

ScalarStep(fam, v, n, acts, mixed) ==
  One({LET fired == {id \in DOMAIN fam.steps : Fired(fam, st, acts, id)}
           next  == [f \in DOMAIN v |->
                       IF f \in Managed(mixed) THEN Told(mixed[f])
                       ELSE IF f \notin fam.flw THEN Told(v[f])
                       ELSE Next2(Verdictof(fam.theory, st, Lit(Primed(f), FALSE)),
                                  Verdictof(fam.theory, st, Lit(Primed(f), TRUE)))]
           effs(x) == UNION {{<<id, k>> : k \in {y \in DOMAIN fam.steps[id].neffs :
                                                   fam.steps[id].neffs[y].num = x}} : id \in fired}
       IN  Settle(v, n, next,
                  [x \in DOMAIN n |-> [c \in effs(x) |->
                     LET e == fam.steps[c[1]].neffs[c[2]] IN <<e.op, Value(fam, st, v, n, e.rhs)>>]])
       : st \in {SolveStep(fam, v, n, acts, mixed)}})

-----------------------------------------------------------------------------
(* The step lanes.                                                         *)

\* solve_step_lane_family: the fact of one local in lane e.
LaneFact(l, e, v, n, acts) ==
  LET at == Cell(l, <<>>, e)
  IN  IF Len(l) = 4 \/ (l[3] # <<>> /\ l[3][1] = "fired") THEN {}
      ELSE IF IsA(Src, l[1], "fluent") THEN {Lit(l, ~ v[at])}
      ELSE IF IsA(Src, l[1], "num") THEN {Lit(l, ~ Compare(l[3], n[NumOf(at)]))}
      ELSE IF IsA(Src, l[1], "derived")
             THEN Imported(l, Scalar(v, Lit(at, FALSE)), Scalar(v, Lit(at, TRUE)))
      ELSE IF l[3] # <<>> THEN {Lit(l, \A a \in acts : a[1] # l[1])}
      ELSE {Lit(l, at \notin acts)}

\* Every lane of a step family, solved.
SolveLanes(f, v, n, acts) ==
  [e \in Entities(f.sort) |->
     Solved(f.theory, UNION {LaneFact(l, e, v, n, acts) : l \in DOMAIN f.theory.of})]

\* The next value of each fluent a family manages.
LaneNext(f, sol) ==
  [x \in {Cell(Here(p), <<>>, e) : p \in f.fluents, e \in Entities(f.sort)} |->
     LET st == sol[x[2][1]]
     IN  Next2(Verdictof(f.theory, st, Lit(Primed(Here(x[1])), FALSE)),
               Verdictof(f.theory, st, Lit(Primed(Here(x[1])), TRUE)))]

TableValue(f, st, r) ==
  r.base + SumOf([k \in {x \in DOMAIN r.tests :
                           Verdictof(f.theory, st, r.tests[x].cond) = DL_PROVED} |-> r.tests[k].add])

\* compute_step_lane_numerics: every effect whose marker is proved in the lane.
LaneContribs(f, sol, x) ==
  LET st == sol[x[2][1]]
      on == {c \in f.specs : c[4].pred = x[1] /\ Verdictof(f.theory, st, Lit(c[4].marker, FALSE)) = DL_PROVED}
  IN  [c \in on |-> <<c[4].op, TableValue(f, st, c[4].rhs)>>]

\* world_step_lanes.
LaneStepOutcome(f, v, n, acts) ==
  One({LET next == LaneNext(f, sol)
       IN  Settle(v, n, [x \in DOMAIN v |-> IF x \in DOMAIN next THEN next[x] ELSE Told(v[x])],
                  [x \in DOMAIN n |-> LaneContribs(f, sol, x)])
       : sol \in {SolveLanes(f, v, n, acts)}})

\* The mixed branch of world_step: the lane half first, the residue over it.
MixedOutcome(f, v, n, acts) ==
  One({IF \E x \in DOMAIN next : next[x] = "contested" THEN Outcome("contested", v, n)
       ELSE ScalarStep(W.residues[f.value], v, n, acts, [x \in DOMAIN next |-> next[x] = "true"])
       : next \in {LaneNext(f, SolveLanes(f, v, n, acts))}})

-----------------------------------------------------------------------------
(* A step.                                                                 *)

NoValue == "none"

\* split_cur_value.
CurSplit(v) ==
  LET true == {x \in SplitValues(Src) : v[<<Src.split, <<>>, <<x>>>>]}
  IN  IF Src.split # "none" /\ Cardinality(true) = 1 THEN One(true) ELSE NoValue

TriggeredBy(a) == {id \in StepIds(Src) : GroundStep(Src, id).act = a}

\* The refusals before the solve: an unknown action, one with no live rule under
\* the split value, two members of one exclusive group under one key.
StepRefused(acts) ==
  \/ \E a \in acts : TriggeredBy(a) = {}
  \/ CurSplit(vals) # NoValue /\ \E a \in acts : TriggeredBy(a) \cap LiveUnder(Src, CurSplit(vals)) = {}
  \/ \E m \in W.groups, o \in W.groups :
       m[3] \in acts /\ o[3] \in acts /\ m[3] # o[3] /\ m[1] = o[1] /\ m[2] = o[2]

\* The family that takes the whole step, if one does.
WholeStep == {f \in W.steps : lanes_ok /\ f.value = "any" /\ Preds(Src, "emit") = {}}

\* The family that takes the lane half, if one does.
LaneHalf == {f \in W.steps : lanes_ok /\ f.value = CurSplit(vals) /\ Preds(Src, "emit") = {}}

Path ==
  IF WholeStep # {} THEN "lanes" ELSE IF LaneHalf # {} THEN "mixed" ELSE "scalar"

StepOutcome(acts) ==
  CASE Path = "lanes" -> LaneStepOutcome(One(WholeStep), vals, nums, acts)
    [] Path = "mixed" -> MixedOutcome(One(LaneHalf), vals, nums, acts)
    [] OTHER          -> ScalarStep(IF CurSplit(vals) = NoValue THEN W.full ELSE W.narrowed[CurSplit(vals)],
                                    vals, nums, acts, <<>>)

-----------------------------------------------------------------------------
(* The world.                                                              *)

NoAnswer == [lit |-> Lit(NoTrigger, FALSE), v |-> "none"]
NoStep   == [acts |-> {}, vals |-> <<>>, nums |-> <<>>, path |-> "none", out |-> Outcome("none", <<>>, <<>>)]

Init ==
  /\ prog \in Range(Progs) /\ worlds = <<>>
  /\ phase = "source" /\ lanes_ok = FALSE /\ late = FALSE
  /\ vals = <<>> /\ nums = <<>> /\ holds = {} /\ lanes = <<>>
  /\ answer = NoAnswer /\ last = NoStep /\ edits = 0

\* compile_impl: rejected, or a world with its families.
Compile ==
  /\ phase = "source"
  /\ worlds' = WorldsOf(prog)
  /\ IF worlds'[FALSE].rejected
       THEN phase' = "rejected" /\ UNCHANGED <<lanes_ok, vals, nums, holds, lanes>>
       ELSE /\ phase' = "ready"
            /\ vals' = InitVals(Src) /\ nums' = InitNums(Src)
            /\ holds' \in prog.hosts
            /\ lanes_ok' = (worlds'[FALSE].families # <<>> \/ worlds'[FALSE].steps # {})
            /\ lanes' = [k \in DOMAIN worlds'[FALSE].families |-> [solved |-> FALSE, it |-> <<>>, facts |-> <<>>]]
  /\ UNCHANGED <<prog, late, answer, last, edits>>

Query(q) ==
  /\ phase = "ready"
  /\ \E r \in {Ask(lanes, q)} : lanes' = r.caches /\ answer' = [lit |-> q, v |-> r.v]
  /\ last' = NoStep
  /\ UNCHANGED <<prog, worlds, phase, lanes_ok, late, vals, nums, holds, edits>>

\* Mutant: the lane families stay solved.
InvalidatedNot(L) == L

\* invalidate_state_solved.
Invalidated(L) == [k \in DOMAIN L |-> [L[k] EXCEPT !.solved = FALSE]]

\* world_set of a boolean fluent.
SetFluent(f) ==
  /\ phase = "ready" /\ edits < MaxEdits
  /\ vals' = [vals EXCEPT ![f] = ~ @]
  /\ lanes' = Invalidated(lanes)
  /\ answer' = NoAnswer /\ last' = NoStep /\ edits' = edits + 1
  /\ UNCHANGED <<prog, worlds, phase, lanes_ok, late, nums, holds>>

\* world_add_rule after the compile: the lane families are out of date for good.
HostRule ==
  /\ phase = "ready" /\ ~ late /\ prog.late # <<>>
  /\ late' = TRUE /\ lanes_ok' = FALSE /\ answer' = NoAnswer /\ last' = NoStep
  /\ UNCHANGED <<prog, worlds, phase, vals, nums, holds, lanes, edits>>

\* world_step.
Step(acts) ==
  /\ phase = "ready" /\ edits < MaxEdits
  /\ edits' = edits + 1
  /\ \E out \in {IF StepRefused(acts) THEN Outcome(Refused, vals, nums) ELSE StepOutcome(acts)} :
       /\ last' = [acts |-> acts, vals |-> vals, nums |-> nums, path |-> Path, out |-> out]
       /\ vals' = out.vals /\ nums' = out.nums
       /\ IF out.rc = "ok" THEN lanes' = Invalidated(lanes) /\ answer' = NoAnswer
          ELSE UNCHANGED <<lanes, answer>>
  /\ UNCHANGED <<prog, worlds, phase, lanes_ok, late, holds>>

Next ==
  \/ Compile
  \/ HostRule
  \/ \E q \in prog.asks : Query(q)
  \/ \E f \in prog.sets : SetFluent(f)
  \/ \E acts \in prog.plays : Step(acts)

Spec == Init /\ [][Next]_vars

-----------------------------------------------------------------------------
(* Properties.                                                             *)

\* A query answered from a lane family, its cached columns and its imports says
\* what the scalar family says, after any edits and queries in any order
\* (world_query; world.h calls world_lanes_check the differential pin).
RoutedQueryIsScalar ==
  answer.v # "none" => answer.v = Scalar(vals, answer.lit)

\* The lane family that took the last step, whole or as its lane half.
Took == One({f \in W.steps : f.value = "any" \/ f.value = CurSplit(last.vals)})

\* A lane action reads in the next state a global the step changes to out.
ReadsMovedGlobal(f, out) ==
  \E c \in UNION {Range(Src.actions[i].requires) : i \in f.is} :
    c.primed /\ c.args = <<>> /\ out.vals[GroundAtom(c, NoBinding)] # last.vals[GroundAtom(c, NoBinding)]

\* The `for each` actions of a family, and a step's actions with one cast of each.
ForEachs(f) == {Src.actions[i].name : i \in {x \in f.is : Src.actions[x].binders # <<>>}}
CastOnce(f, acts) == {a \in acts : a[1] \in ForEachs(f) => a = One({b \in acts : b[1] = a[1]})}

\* Whatever path a step takes, lanes, lanes and residue, or a narrowed schema,
\* its outcome is that of the full scalar family: the same next state, the same
\* numbers, the same rejections (world_step, compute_step_lane_numerics).  Two
\* steps are excepted, and only those: a lane action reads in the next state a
\* global this step changes, for the lanes keep one column for both (glob_local in
\* story.c); and one `for each` action is cast by two entities, for a cast is one
\* column that is set or not.  There the lanes take the scalar step of the story
\* that reads such globals now, with one of the casts.
StepIsTheScalarStep ==
  last.path # "none" /\ last.out.rc # Refused =>
    LET whole == ScalarStep(W.full, last.vals, last.nums, last.acts, <<>>)
    IN  IF last.path = "scalar" THEN last.out = whole
        ELSE /\ last.out = ScalarStep(W.readnow[Took.value], last.vals, last.nums,
                                      CastOnce(Took, last.acts), <<>>)
             /\ \/ last.out = whole
                \/ ReadsMovedGlobal(Took, whole)
                \/ CastOnce(Took, last.acts) # last.acts

\* No step of a story the compiler accepts is contested: what the pair checks
\* let through never writes two values at once (check_conflictable_pairs).
AcceptedNeverContests == last.out.rc # "contested"

\* The rules and defeaters about an atom, and the schema rule of one.
Sides(at) == {id \in DOMAIN W.sides : W.sides[id].head.atom = at}
RuleOf(id) == id[2][1]

\* The check took a pair as ordered by a rule that beats y for the predicate of x,
\* about this entity or another, applicable or not; x itself does not beat y.
OrderedByAnother(x, y) ==
  /\ <<x, y>> \notin W.judgments.t.sups
  /\ \E e \in RuleEdges(Src) :
       /\ e[2] = RuleOf(y)
       /\ Src.rules[e[1]].kind = DL_DEFEASIBLE
       /\ Src.rules[e[1]].head.pred = W.sides[x].head.atom[1]
       /\ Src.rules[e[1]].head.neg = W.sides[x].head.neg

\* The check took a pair as decided because x is strict and y is not; but what x
\* reads holds by default only, and then a strict rule is a rule like any other.
StrictByDefault(x, y, d) ==
  /\ W.sides[x].kind = DL_STRICT /\ W.sides[y].kind # DL_STRICT
  /\ \E b \in W.sides[x].body : Verdictof(W.judgments, d, b) # DL_PROVED

\* Of the rules about an atom two apply, one that concludes it and one that denies
\* it: one side is proved, or the compiler warned of the pair (cp_check_rule_pair,
\* the silent null of #160).  Two pairs are excepted, and only those: the order the
\* check found is another rule's, which is about another entity or does not apply
\* (cp_team_covers compares predicate and sign); and the strict one of the two has
\* a body that holds by default only ("strict wins: decided").
SilentNullIsWarned ==
  phase = "ready" /\ ~ late =>
    LET facts == FluentFacts(vals) \cup Provided(Src, holds)
    IN  \E st \in {Solved(W.judgments, facts)}, d \in {Definite(W.judgments, facts)} :
          \A at \in Slots(Src, "derived") :
            LET on == {id \in Sides(at) : \A b \in W.sides[id].body :
                                            Verdictof(W.judgments, st, b) = DL_PROVED}
            IN  \A x \in on, y \in on :
                  (/\ on = {x, y} /\ ~ W.sides[x].head.neg /\ W.sides[y].head.neg
                   /\ DL_DEFEATER \notin {W.sides[x].kind, W.sides[y].kind})
                  => \/ \E neg \in BOOLEAN : Verdictof(W.judgments, st, Lit(at, neg)) = DL_PROVED
                     \/ /\ W.warned
                        /\ {<<RuleOf(x), RuleOf(y)>>, <<RuleOf(y), RuleOf(x)>>} \cap W.contested # {}
                     \/ OrderedByAnother(x, y) \/ OrderedByAnother(y, x)
                     \/ StrictByDefault(x, y, d) \/ StrictByDefault(y, x, d)
=============================================================================
