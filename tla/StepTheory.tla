----------------------------- MODULE StepTheory -----------------------------
(***************************************************************************)
(* The theories src/state/world.c builds and solves: the judgment family a *)
(* query reads, and the step family one transition reads (judgment rules,  *)
(* generated inertia, and one causal rule per effect of a step rule).      *)
(*                                                                         *)
(* A rule of a family is identified by where it comes from: <<"judgment",  *)
(* j>>, <<"inertia", q>> for the inertia of the fluent literal q, and      *)
(* <<"causal", s, e>> for effect e of step rule s.  Every atom is its own  *)
(* location; lanes are left out, and so are names and provenance.          *)
(***************************************************************************)
EXTENDS DLTheory, SequencesExt

CONSTANTS Fluents,    \* declared boolean fluents (atoms)
          Emits,      \* declared burst cues (atoms)
          Actions,    \* action atoms
          PrimedOf,   \* the atom f' of every fluent and cue
          Nums,       \* declared numeric fluents
          Guards,     \* guard atom -> comparison of a current value
          PGuards,    \* primed guard atom -> comparison of a next value
          Excl,       \* exclusivity groups: <<group, key, action>>
          Programs    \* the rule sets a world may hold

Atoms == 0 .. (NAtoms - 1)

NoAction == -1               \* INTERN_NONE: a ramification
NoSplit  == -1               \* the full schema
NumOp    == {"ASSIGN", "ADD", "SUB"}
Merge    == {"REGISTER", "MIN", "MAX"}

\* The right-hand side of an effect: a constant, a current value (EXPR_LOAD) or
\* a next value (EXPR_LOADN).
RHS       == [kind : {"const"}, arg : Int] \cup [kind : {"load", "loadn"}, arg : Nums]
NumEffect == [num : Nums, op : NumOp, rhs : RHS]

\* srule: body conditions on the current state (now) and on the next (nxt).
StepRule  == [action : Actions \cup {NoAction}, now : SUBSET Lits, nxt : SUBSET Lits,
              effects : SUBSET Lits, neffs : Seq(NumEffect), stratum : Nat]
\* A program: its rules, the value atoms of its split fluent (or none), and the
\* declared range and merge algebra of every number.
NumDecl   == [min : Int, max : Int, ranged : BOOLEAN, merge : Merge]
Program   == [jrules : Seq(Rule), jsups : SUBSET (Nat \X Nat), srules : Seq(StepRule),
              splits : SUBSET Fluents, decl : [Nums -> NumDecl]]

ASSUME WorldAssumption ==
  /\ Fluents \subseteq Atoms /\ Emits \subseteq Atoms /\ Actions \subseteq Atoms
  /\ PrimedOf \in [Fluents \cup Emits -> Atoms]
  /\ Programs \subseteq Program

AtomOf(q)    == q \div 2
Pos(a)       == 2 * a
Neg(a)       == 2 * a + 1
IsNeg(q)     == q % 2 = 1
PrimedLit(q) == 2 * PrimedOf[AtomOf(q)] + (q % 2)
LitsOf(A)    == {q \in Lits : AtomOf(q) \in A}

\* The rule has a primed guard among its conditions.
ReadsGuard(r, g) == Pos(g) \in r.now \/ Neg(g) \in r.now

\* The rule has an effect on number n.
Writes(r, n) == \E e \in DOMAIN r.neffs : r.neffs[e].num = n

Compare(op, v, t) ==
  \/ op = "LE" /\ v <= t
  \/ op = "GE" /\ v >= t
  \/ op = "EQ" /\ v = t

\* A guard compares a declared number; a primed condition reads a declared fluent
\* (check_atom), and an effect is about a declared fluent or cue (the #92 tripwire
\* of build_step_family).
ASSUME RuleAssumption ==
  /\ DOMAIN Guards \subseteq Atoms
  /\ DOMAIN PGuards \subseteq Atoms
  /\ \A g \in DOMAIN PGuards : PGuards[g].num \in Nums
  /\ \A p \in Programs : \A s \in DOMAIN p.srules :
       /\ p.srules[s].nxt \subseteq LitsOf(Fluents)
       /\ p.srules[s].effects \subseteq LitsOf(Fluents \cup Emits)

-----------------------------------------------------------------------------
(* Split values (#121).                                                    *)

\* srule_split_value: the values a rule's unprimed positive conditions demand.
ValuesDemanded(p, r) == {v \in p.splits : Pos(v) \in r.now}

\* The rule may fire while the split fluent has value v.
LiveUnder(p, r, v) == v = NoSplit \/ ValuesDemanded(p, r) \subseteq {v}

\* split_cur_value: the unique true value atom, or no narrowing at all.
CurSplit(p, vals) ==
  IF \E v \in p.splits : {x \in p.splits : vals[x]} = {v}
    THEN CHOOSE v \in p.splits : vals[v]
    ELSE NoSplit

LiveRules(p, v) == {s \in DOMAIN p.srules : LiveUnder(p, p.srules[s], v)}

\* Mutant: a primed read does not put its fluent into the write-set.
WriteSetOfEffects(p, v) ==
  IF v = NoSplit THEN Fluents
  ELSE {f \in Fluents : \E s \in LiveRules(p, v) :
          \E q \in p.srules[s].effects : AtomOf(q) = f}

\* flw: the fluents a live rule writes or reads primed.
WriteSet(p, v) ==
  IF v = NoSplit THEN Fluents
  ELSE {f \in Fluents : \E s \in LiveRules(p, v) :
          \E q \in p.srules[s].effects \cup p.srules[s].nxt : AtomOf(q) = f}

\* numw: the numeric fluents a live rule writes.
NumWriteSet(p, v) ==
  IF v = NoSplit THEN Nums
  ELSE {n \in Nums : \E s \in LiveRules(p, v) : Writes(p.srules[s], n)}

-----------------------------------------------------------------------------
(* The families.                                                           *)

JudgmentRules(p) == {<<"judgment", j>> : j \in DOMAIN p.jrules}
InertiaRules(F)  == {<<"inertia", q>> : q \in LitsOf(F)}
CausalRules(p, S) == {<<"causal", s, e>> : s \in S, e \in Lits}

\* Mutant: the action is no condition of its own effects.
CausalBodyUntriggered(r) == r.now \cup {PrimedLit(q) : q \in r.nxt}

\* The body of step rule s: primed conditions through the twins, and its action.
CausalBody(r) ==
  r.now \cup {PrimedLit(q) : q \in r.nxt}
        \cup (IF r.action = NoAction THEN {} ELSE {Pos(r.action)})

FamilyRule(p, id) ==
  CASE id[1] = "judgment" -> p.jrules[id[2]]
    [] id[1] = "inertia"  -> [kind |-> DL_DEFEASIBLE, head |-> PrimedLit(id[2]), body |-> {id[2]}]
    [] id[1] = "causal"   -> [kind |-> DL_DEFEASIBLE, head |-> PrimedLit(id[3]),
                              body |-> CausalBody(p.srules[id[2]])]

JudgmentSups(p) == {<<<<"judgment", x[1]>>, <<"judgment", x[2]>>>> : x \in p.jsups}

\* A causal rule is superior to the inertia it conflicts with; a cue has none.
CausalSups(ids) ==
  {<<id, <<"inertia", Compl(id[3])>>>> :
     id \in {x \in ids : x[1] = "causal" /\ AtomOf(x[3]) \in Fluents}}

\* build_step_family for split value v: rules dead under v and the inertia of
\* fluents outside the write-set are left out.
StepFamily(p, v) ==
  LET causal == {id \in CausalRules(p, LiveRules(p, v)) : id[3] \in p.srules[id[2]].effects}
      ids    == JudgmentRules(p) \cup InertiaRules(WriteSet(p, v)) \cup causal
  IN  [rules |-> [id \in ids |-> FamilyRule(p, id)],
       sups  |-> JudgmentSups(p) \cup CausalSups(causal),
       facts |-> {}]

\* emit_judgment_family: the judgment rules alone.
JudgmentFamily(p) ==
  [rules |-> [id \in JudgmentRules(p) |-> FamilyRule(p, id)],
   sups  |-> JudgmentSups(p),
   facts |-> {}]

-----------------------------------------------------------------------------
(* Facts and solves.                                                       *)

FluentFacts(vals) == {IF vals[f] THEN Pos(f) ELSE Neg(f) : f \in Fluents}

GuardHolds(g, nums) == Compare(Guards[g].op, nums[Guards[g].num], Guards[g].thr)

GuardFacts(nums) ==
  {IF GuardHolds(g, nums) THEN Pos(g) ELSE Neg(g) : g \in DOMAIN Guards}

\* pg: the primed guards minted so far and their truth.
MintedFacts(pg) == {IF pg[g] THEN Pos(g) ELSE Neg(g) : g \in DOMAIN pg}

\* The families of every program with their components, built once.
Built(t) == [thy |-> t, sccs |-> SupportSccs(t)]

StepFamilies ==
  [p \in Programs |-> [v \in p.splits \cup {NoSplit} |-> Built(StepFamily(p, v))]]

JudgmentFamilies == [p \in Programs |-> Built(JudgmentFamily(p))]

SolveFamily(fam, facts) == Verdicts([fam.thy EXCEPT !.facts = facts], fam.sccs)

\* solve_step_family_vals: the current state, the actions and the minted guards.
SolveStep(p, v, vals, nums, acts, pg) ==
  SolveFamily(StepFamilies[p][v],
              FluentFacts(vals) \cup {Pos(a) : a \in acts} \cup GuardFacts(nums)
                \cup MintedFacts(pg))

\* srule_fired: submitted, and every body literal proved.
RuleFired(r, acts, st) ==
  /\ r.action # NoAction => r.action \in acts
  /\ \A q \in r.now : st[q] = DL_PROVED
  /\ \A q \in r.nxt : st[PrimedLit(q)] = DL_PROVED

\* The atoms the judgment family locates, and those only step rules locate.
JudgmentAtoms(p) ==
  UNION {{AtomOf(p.jrules[j].head)} \cup {AtomOf(b) : b \in p.jrules[j].body} :
           j \in DOMAIN p.jrules}

StepAtoms(p) ==
  {PrimedOf[f] : f \in Fluents \cup Emits}
    \cup UNION {{AtomOf(q) : q \in CausalBody(p.srules[s])} : s \in DOMAIN p.srules}

\* Mutant: the judgment family is loaded with the guards but not the fluents.
SolveJudgmentsOnGuards(p, vals, nums) ==
  SolveFamily(JudgmentFamilies[p], {q \in GuardFacts(nums) : AtomOf(q) \in JudgmentAtoms(p)})

\* solve_judgment_family, then the column of q.
SolveJudgments(p, vals, nums) ==
  SolveFamily(JudgmentFamilies[p],
              {q \in FluentFacts(vals) \cup GuardFacts(nums) : AtomOf(q) \in JudgmentAtoms(p)})

HoldsVerdict(q, b) == IF b # IsNeg(q) THEN DL_PROVED ELSE DL_REFUTED

\* world_query for a literal outside the lanes: the judgment family answers for
\* its own atoms, lazy_judgment_verdict for every other.
Query(p, vals, nums, q) ==
  LET a == AtomOf(q)
  IN  IF a \in JudgmentAtoms(p) THEN SolveJudgments(p, vals, nums)[q]
      ELSE IF a \in Fluents THEN HoldsVerdict(q, vals[a])
      ELSE IF a \notin StepAtoms(p) THEN DL_UNDECIDED
      ELSE IF a \in DOMAIN Guards THEN HoldsVerdict(q, GuardHolds(a, nums))
      ELSE DL_REFUTED

-----------------------------------------------------------------------------
(* What a client may offer: world_action_status_of.                        *)

TriggeredBy(p, a) == {s \in DOMAIN p.srules : p.srules[s].action = a}

ActionStatus(p, vals, nums, a) ==
  LET current == {s \in TriggeredBy(p, a) : p.srules[s].nxt = {}}
      met(s)  == \A q \in p.srules[s].now : Query(p, vals, nums, q) = DL_PROVED
  IN  IF TriggeredBy(p, a) = {} THEN "UNKNOWN"
      ELSE IF \E s \in current : met(s) THEN "APPLIES"
      ELSE IF current # {} THEN "BLOCKED" ELSE "SPECULATIVE"

-----------------------------------------------------------------------------
(* The vocabulary of a program.  The compiler keeps primed atoms and guards *)
(* apart from everything an author writes and lets no judgment conclude a  *)
(* guard; a judgment or a state that shares its name with an action shares *)
(* its atom, and nothing refuses it.                                       *)

PrimedAtoms == {PrimedOf[f] : f \in Fluents \cup Emits}

\* Atoms some judgment of p concludes, and those a strict one concludes.
Concluded(p) == {AtomOf(p.jrules[j].head) : j \in DOMAIN p.jrules}
ConcludedStrictly(p) ==
  {AtomOf(p.jrules[j].head) : j \in {x \in DOMAIN p.jrules : p.jrules[x].kind = DL_STRICT}}

\* Every atom of p plays one part.
Separate(p) ==
  /\ \A f, g \in Fluents \cup Emits : PrimedOf[f] = PrimedOf[g] => f = g
  /\ PrimedAtoms \cap (Fluents \cup Actions \cup DOMAIN Guards \cup DOMAIN PGuards) = {}
  /\ Fluents \cap (Actions \cup DOMAIN Guards \cup DOMAIN PGuards) = {}
  /\ Actions \cap (DOMAIN Guards \cup DOMAIN PGuards) = {}
  /\ DOMAIN Guards \cap DOMAIN PGuards = {}
  /\ JudgmentAtoms(p) \cap (Actions \cup PrimedAtoms \cup DOMAIN PGuards) = {}
  /\ \A s \in DOMAIN p.srules : \A q \in p.srules[s].now : AtomOf(q) \notin PrimedAtoms
  /\ Concluded(p) \cap DOMAIN Guards = {}
  /\ ConcludedStrictly(p) \cap Fluents = {}

\* A rule that reads a primed guard stands strictly above the writers of the number
\* it compares (module Stratify); above nothing, when no rule writes it.
GuardsStratified(p) ==
  \A s, w \in DOMAIN p.srules, g \in DOMAIN PGuards :
    ReadsGuard(p.srules[s], g) /\ Writes(p.srules[w], PGuards[g].num)
      => p.srules[w].stratum < p.srules[s].stratum

\* The order of the strata: so does a rule whose effect reads a next value, and a rule
\* that reads a boolean's next value stands no lower than the rules that write it.
Stratified(p) ==
  /\ GuardsStratified(p)
  /\ \A s, w \in DOMAIN p.srules :
       /\ \A e \in DOMAIN p.srules[s].neffs :
            LET rhs == p.srules[s].neffs[e].rhs
            IN  rhs.kind = "loadn" /\ Writes(p.srules[w], rhs.arg)
                  => p.srules[w].stratum < p.srules[s].stratum
       /\ (\E q \in p.srules[s].nxt, e \in p.srules[w].effects : AtomOf(q) = AtomOf(e))
            => p.srules[w].stratum <= p.srules[s].stratum

\* Every ranged number of ns lies in the range p declares for it.
InRange(p, ns) == \A n \in Nums : p.decl[n].ranged => ns[n] \in p.decl[n].min .. p.decl[n].max
=============================================================================
