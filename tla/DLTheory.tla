------------------------------ MODULE DLTheory ------------------------------
(***************************************************************************)
(* Propositional defeasible theories and the per-literal evaluation rules  *)
(* of src/logic/dl.c.  Everything here is a pure operator on a theory      *)
(*                                                                         *)
(*     t = [rules |-> sequence of rules, sups |-> set of <<winner, loser>>,*)
(*          facts |-> set of literals]                                     *)
(*                                                                         *)
(* and on status functions [Lits -> Verdict].  A literal is the dense      *)
(* index atom*2 + neg the compiled form uses, so a complement is idx ^ 1.  *)
(* The C evaluators compute three-valued numbers (-1, 0, +1); the model    *)
(* states the +1 and the -1 outcome of each as a predicate of its own.     *)
(***************************************************************************)
EXTENDS Integers, Sequences, FiniteSets

CONSTANT NAtoms          \* intern_count(syms): atoms of the symbol table

ASSUME NAtomsAssumption == NAtoms \in Nat

DL_STRICT     == "strict"
DL_DEFEASIBLE == "defeasible"
DL_DEFEATER   == "defeater"
RuleKind      == {DL_STRICT, DL_DEFEASIBLE, DL_DEFEATER}

DL_UNDECIDED == "undecided"
DL_PROVED    == "proved"
DL_REFUTED   == "refuted"
Verdict      == {DL_UNDECIDED, DL_PROVED, DL_REFUTED}

\* Dense literal indices and the complement idx ^ 1.
Lits == 0 .. (2 * NAtoms - 1)
Compl(q) == IF q % 2 = 0 THEN q + 1 ELSE q - 1

Rule   == [kind : RuleKind, head : Lits, body : SUBSET Lits]
Theory == [rules : Seq(Rule), sups : SUBSET (Nat \X Nat), facts : SUBSET Lits]
Status == [Lits -> Verdict]

Unsolved == [q \in Lits |-> DL_UNDECIDED]

-----------------------------------------------------------------------------
(* One head literal's rules (the compiled head_off ranges) and the reverse *)
(* superiority index.                                                      *)

RulesFor(t, q)      == {r \in DOMAIN t.rules : t.rules[r].head = q}
SupportersOf(t, q)  == {r \in RulesFor(t, q) : t.rules[r].kind # DL_DEFEATER}
StrictFor(t, q)     == {r \in RulesFor(t, q) : t.rules[r].kind = DL_STRICT}
Attacked(t, q)      == RulesFor(t, Compl(q)) # {}

\* Rules beating attacker s on behalf of q: winners over s, non-defeater, for q.
Defenders(t, s, q) == {r \in SupportersOf(t, q) : <<r, s>> \in t.sups}

-----------------------------------------------------------------------------
(* The definite layer: eval_delta.                                         *)

BodyAll(t, r, st, v)  == \A b \in t.rules[r].body : st[b] = v
BodySome(t, r, st, v) == \E b \in t.rules[r].body : st[b] = v

\* Mutant: supports the definite layer by rules of every kind.
DeltaProvesByAnyRule(t, d, q) ==
  q \in t.facts \/ \E r \in RulesFor(t, q) : BodyAll(t, r, d, DL_PROVED)

DeltaProves(t, d, q) ==
  q \in t.facts \/ \E r \in StrictFor(t, q) : BodyAll(t, r, d, DL_PROVED)

\* No strict rule is still alive: each has a refuted body literal.
DeltaRefutes(t, d, q) ==
  /\ ~ DeltaProves(t, d, q)
  /\ \A r \in StrictFor(t, q) : BodySome(t, r, d, DL_REFUTED)

\* The status eval_delta leaves on an undecided literal.
EvalDelta(t, d, q) ==
  IF DeltaProves(t, d, q) THEN DL_PROVED
  ELSE IF DeltaRefutes(t, d, q) THEN DL_REFUTED ELSE DL_UNDECIDED

-----------------------------------------------------------------------------
(* The defeasible layer: eval_part over the final definite statuses.       *)

Applicable(t, p, r) == BodyAll(t, r, p, DL_PROVED)        \* ts_applicable = +1
Discarded(t, p, r)  == BodySome(t, r, p, DL_REFUTED)      \* ts_applicable = -1

Supported(t, p, q)    == \E r \in SupportersOf(t, q) : Applicable(t, p, r)
NotSupported(t, p, q) == \A r \in SupportersOf(t, q) : Discarded(t, p, r)

\* Mutant: an attacker not yet known to apply counts as countered.
CounteredUnlessApplicable(t, p, s, q) ==
  ~ Applicable(t, p, s) \/ \E r \in Defenders(t, s, q) : Applicable(t, p, r)

\* Attacker s of q is inapplicable, or some applicable rule for q beats it.
Countered(t, p, s, q) ==
  Discarded(t, p, s) \/ \E r \in Defenders(t, s, q) : Applicable(t, p, r)

AllAttackersCountered(t, p, q) ==
  \A s \in RulesFor(t, Compl(q)) : Countered(t, p, s, q)

AttackerUncountered(t, p, q) ==
  \E s \in RulesFor(t, Compl(q)) :
    Applicable(t, p, s) /\ \A r \in Defenders(t, s, q) : Discarded(t, p, r)

\* Mutant: the complement's definite status is not consulted.
PartProvesDespiteComplement(t, d, p, q) ==
  \/ d[q] = DL_PROVED
  \/ Supported(t, p, q) /\ AllAttackersCountered(t, p, q)

PartProves(t, d, p, q) ==
  \/ d[q] = DL_PROVED
  \/ /\ d[Compl(q)] = DL_REFUTED
     /\ Supported(t, p, q)
     /\ AllAttackersCountered(t, p, q)

PartRefutes(t, d, p, q) ==
  /\ d[q] = DL_REFUTED
  /\ \/ d[Compl(q)] = DL_PROVED
     \/ NotSupported(t, p, q)
     \/ AttackerUncountered(t, p, q)

\* The status eval_part leaves on an undecided literal.
EvalPart(t, d, p, q) ==
  IF PartProves(t, d, p, q) THEN DL_PROVED
  ELSE IF PartRefutes(t, d, p, q) THEN DL_REFUTED ELSE DL_UNDECIDED

-----------------------------------------------------------------------------
(* The support graph of the cycle rule (build_scc): body -> head for every *)
(* strict and defeasible rule; defeaters never support.                    *)

SupportSucc(t, q) ==
  {t.rules[r].head : r \in {x \in DOMAIN t.rules :
      t.rules[x].kind # DL_DEFEATER /\ q \in t.rules[x].body}}

\* Everything a path of the support graph reaches from q, q included.
SupportReach(t, q) ==
  LET R[S \in SUBSET Lits] ==
        LET near == S \cup UNION {SupportSucc(t, x) : x \in S}
        IN  IF near = S THEN S ELSE R[near]
  IN  R[{q}]

\* The strongly connected component of every literal: the compiled scc[].
SupportSccs(t) ==
  LET reach == [q \in Lits |-> SupportReach(t, q)]
  IN  [q \in Lits |-> {x \in Lits : x \in reach[q] /\ q \in reach[x]}]

\* Mutant: a self-loop is not a cycle.
CyclicSccBySize(t, c) == Cardinality(c) > 1

\* scc_cyclic: more than one member, or a self-loop.
CyclicScc(t, c) == Cardinality(c) > 1 \/ \E x \in c : x \in SupportSucc(t, x)

\* scc_attacked: some rule of any kind concludes a member's complement.
AttackedScc(t, c) == \E x \in c : Attacked(t, x)

\* Mutant: both layers look at the strict rules only.
LayerSupportStrict(t, q, strictOnly) == StrictFor(t, q)

\* The rules that support q in a layer: only strict ones in the definite layer.
LayerSupport(t, q, strictOnly) ==
  IF strictOnly THEN StrictFor(t, q) ELSE SupportersOf(t, q)

\* Some rule for a member reads an undecided literal outside the component.
BlockedScc(t, st, c, strictOnly) ==
  \E m \in c : \E r \in LayerSupport(t, m, strictOnly) :
    \E b \in t.rules[r].body : b \notin c /\ st[b] = DL_UNDECIDED

\* complete_pass completes component c: cyclic, unattacked, stalled, unblocked.
Completes(t, st, c, strictOnly) ==
  /\ CyclicScc(t, c)
  /\ ~ AttackedScc(t, c)
  /\ \E m \in c : st[m] = DL_UNDECIDED
  /\ ~ BlockedScc(t, st, c, strictOnly)

\* The statuses after completing component c.
Completion(st, c) ==
  [q \in Lits |-> IF q \in c /\ st[q] = DL_UNDECIDED THEN DL_REFUTED ELSE st[q]]

-----------------------------------------------------------------------------
(* The dependency graph (build_dep): what a decision on q can change, the  *)
(* heads of the rules that read q and their complements.                   *)

\* Mutant: a decision is propagated to the heads it supports only.
DependSuccHeads(t, q) ==
  {t.rules[r].head : r \in {x \in DOMAIN t.rules : q \in t.rules[x].body}}

DependSucc(t, q) ==
  UNION {{t.rules[r].head, Compl(t.rules[r].head)} :
            r \in {x \in DOMAIN t.rules : q \in t.rules[x].body}}

DependReach(t, S) ==
  LET R[Q \in SUBSET Lits] ==
        LET near == Q \cup UNION {DependSucc(t, x) : x \in Q}
        IN  IF near = Q THEN Q ELSE R[near]
  IN  R[S]

-----------------------------------------------------------------------------
(* A whole solve as one function: what dl_solve and dlcol_solve return.    *)
(* DLSolve checks that every order of evaluation ends here.                *)

\* One round that decides every decidable literal at once or, when there is
\* none, completes every completable component at once.
DeltaRound(t, sccs, d) ==
  LET swept == [q \in Lits |-> IF d[q] = DL_UNDECIDED THEN EvalDelta(t, d, q) ELSE d[q]]
      loops == UNION {sccs[q] : q \in {x \in Lits : Completes(t, d, sccs[x], TRUE)}}
  IN  IF swept # d THEN swept ELSE Completion(d, loops)

PartRound(t, sccs, d, p) ==
  LET swept == [q \in Lits |-> IF p[q] = DL_UNDECIDED THEN EvalPart(t, d, p, q) ELSE p[q]]
      loops == UNION {sccs[q] : q \in {x \in Lits : Completes(t, p, sccs[x], FALSE)}}
  IN  IF swept # p THEN swept ELSE Completion(p, loops)

\* Rounds until one changes nothing; each other round decides a literal.
RefDelta(t, sccs) ==
  LET F[d \in Status] ==
        LET next == DeltaRound(t, sccs, d) IN IF next = d THEN d ELSE F[next]
  IN  F[Unsolved]

RefPart(t, sccs, d) ==
  LET F[p \in Status] ==
        LET next == PartRound(t, sccs, d, p) IN IF next = p THEN p ELSE F[next]
  IN  F[Unsolved]

\* The defeasible statuses of a theory whose components are sccs.
Verdicts(t, sccs) == RefPart(t, sccs, RefDelta(t, sccs))

-----------------------------------------------------------------------------
(* Reference definitions, written from dl.h's description of the logic and *)
(* not from the evaluators.                                                *)

\* The definite conclusions: the least set of literals that holds the facts and
\* is closed under the strict rules.
ClosedUnderStrict(t, S) ==
  /\ t.facts \subseteq S
  /\ \A r \in DOMAIN t.rules :
       t.rules[r].kind = DL_STRICT /\ t.rules[r].body \subseteq S => t.rules[r].head \in S

LeastModel(t) ==
  {q \in Lits : \A S \in SUBSET Lits : ClosedUnderStrict(t, S) => q \in S}

OnDependCycle(t, q) == q \in DependReach(t, DependSucc(t, q))

\* The superiority relation among the rules of a theory has no cycle.
SupAcyclic(t) ==
  \A S \in SUBSET DOMAIN t.rules :
    S # {} => \E r \in S : \A x \in S : <<x, r>> \notin t.sups
=============================================================================
