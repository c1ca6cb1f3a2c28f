--------------------------- MODULE WorldStepProofs ---------------------------
(***************************************************************************)
(* Theorems about WorldStep for every program, store, submission and host  *)
(* edit, with their proofs.                                                *)
(***************************************************************************)
EXTENDS WorldStep, DLTheoryProofs

USE DEF DL_UNDECIDED, DL_PROVED, DL_REFUTED, DL_STRICT, DL_DEFEASIBLE, DL_DEFEATER

-----------------------------------------------------------------------------
(* Atoms and literals.                                                     *)

\* The two literals of an atom.
LEMMA LitsOfAtom ==
  ASSUME NEW a \in Atoms
  PROVE  /\ Pos(a) \in Lits /\ Neg(a) \in Lits
         /\ AtomOf(Pos(a)) = a /\ AtomOf(Neg(a)) = a
         /\ ~ IsNeg(Pos(a)) /\ IsNeg(Neg(a))
         /\ Compl(Pos(a)) = Neg(a) /\ Compl(Neg(a)) = Pos(a)
<1>1. NAtoms \in Nat
  BY NAtomsAssumption
<1>2. a \in Int /\ 0 <= a /\ a <= NAtoms - 1
  BY <1>1 DEF Atoms
<1>3. (2 * a) % 2 = 0 /\ (2 * a + 1) % 2 = 1 /\ (2 * a) \div 2 = a /\ (2 * a + 1) \div 2 = a
  BY <1>2
<1>4. 2 * a \in Lits /\ 2 * a + 1 \in Lits
  BY <1>1, <1>2 DEF Lits
<1> QED
  BY <1>2, <1>3, <1>4 DEF Pos, Neg, AtomOf, IsNeg, Compl

\* Every literal is one of the two literals of its atom.
LEMMA AtomOfLit ==
  ASSUME NEW q \in Lits
  PROVE  AtomOf(q) \in Atoms /\ q = IF IsNeg(q) THEN Neg(AtomOf(q)) ELSE Pos(AtomOf(q))
<1>1. NAtoms \in Nat
  BY NAtomsAssumption
<1>2. q \in Int /\ 0 <= q /\ q <= 2 * NAtoms - 1
  BY <1>1 DEF Lits
<1>3. PICK k \in Int : q = 2 * k \/ q = 2 * k + 1
  <2>1. \A x \in Int : \E k \in Int : x = 2 * k \/ x = 2 * k + 1
    <3>1. ASSUME NEW x \in Int PROVE x = 2 * (x \div 2) \/ x = 2 * (x \div 2) + 1
      OBVIOUS
    <3>2. \A x \in Int : x \div 2 \in Int
      OBVIOUS
    <3> QED
      BY <3>1, <3>2
  <2> QED
    BY <1>2, <2>1
<1>4. CASE q = 2 * k
  <2>1. q \div 2 = k /\ q % 2 = 0
    BY <1>3, <1>4
  <2>2. k \in Atoms
    BY <1>1, <1>2, <1>3, <1>4 DEF Atoms
  <2> QED
    BY <1>3, <1>4, <2>1, <2>2 DEF AtomOf, IsNeg, Pos
<1>5. CASE q = 2 * k + 1
  <2>1. q \div 2 = k /\ q % 2 = 1
    BY <1>3, <1>5
  <2>2. k \in Atoms
    BY <1>1, <1>2, <1>3, <1>5 DEF Atoms
  <2> QED
    BY <1>3, <1>5, <2>1, <2>2 DEF AtomOf, IsNeg, Neg
<1> QED
  BY <1>3, <1>4, <1>5

\* Literals of an atom are its positive and its negative one, complements of each
\* other.
LEMMA LitsByAtom ==
  ASSUME NEW q \in Lits, NEW x \in Lits, AtomOf(x) = AtomOf(q)
  PROVE  x = q \/ x = Compl(q)
<1>1. AtomOf(q) \in Atoms
  BY AtomOfLit
<1>2. q \in {Pos(AtomOf(q)), Neg(AtomOf(q))} /\ x \in {Pos(AtomOf(q)), Neg(AtomOf(q))}
  BY AtomOfLit
<1> QED
  BY <1>1, <1>2, LitsOfAtom

\* The complement is a literal of the same atom, of the other polarity.
LEMMA ComplAtom ==
  ASSUME NEW q \in Lits
  PROVE  AtomOf(Compl(q)) = AtomOf(q) /\ (IsNeg(Compl(q)) <=> ~ IsNeg(q)) /\ Compl(q) # q
<1>1. AtomOf(q) \in Atoms
  BY AtomOfLit
<1>2. CASE IsNeg(q)
  <2>1. q = Neg(AtomOf(q))
    BY <1>2, AtomOfLit
  <2> QED
    BY <1>1, <1>2, <2>1, LitsOfAtom
<1>3. CASE ~ IsNeg(q)
  <2>1. q = Pos(AtomOf(q))
    BY <1>3, AtomOfLit
  <2> QED
    BY <1>1, <1>3, <2>1, LitsOfAtom
<1> QED
  BY <1>2, <1>3

\* The primed twin of a literal about a fluent or a cue.
LEMMA PrimedTwin ==
  ASSUME NEW q \in LitsOf(Fluents \cup Emits)
  PROVE  /\ PrimedLit(q) \in Lits
         /\ AtomOf(PrimedLit(q)) = PrimedOf[AtomOf(q)]
         /\ AtomOf(PrimedLit(q)) \in PrimedAtoms
         /\ PrimedLit(q) = IF IsNeg(q) THEN Neg(PrimedOf[AtomOf(q)]) ELSE Pos(PrimedOf[AtomOf(q)])
         /\ IsNeg(PrimedLit(q)) <=> IsNeg(q)
         /\ Compl(PrimedLit(q)) = PrimedLit(Compl(q))
<1> DEFINE a == PrimedOf[AtomOf(q)]
<1>1. q \in Lits /\ AtomOf(q) \in Fluents \cup Emits
  BY DEF LitsOf
<1>2. a \in Atoms /\ a \in PrimedAtoms
  BY <1>1, WorldAssumption DEF PrimedAtoms
<1>3. AtomOf(Compl(q)) = AtomOf(q) /\ (IsNeg(Compl(q)) <=> ~ IsNeg(q)) /\ Compl(q) \in Lits
  BY <1>1, ComplAtom, ComplLits
<1>4. \A x \in Lits : x % 2 = IF IsNeg(x) THEN 1 ELSE 0
  <2>1. \A x \in Lits : x \in Int
    BY DEF Lits
  <2>2. \A x \in Int : x % 2 \in {0, 1}
    OBVIOUS
  <2> QED
    BY <2>1, <2>2 DEF IsNeg
<1>5. a \in Int
  BY <1>2 DEF Atoms
<1>6. PrimedLit(q) = IF IsNeg(q) THEN Neg(a) ELSE Pos(a)
  BY <1>1, <1>4, <1>5 DEF PrimedLit, Pos, Neg
<1>7. PrimedLit(Compl(q)) = IF IsNeg(q) THEN Pos(a) ELSE Neg(a)
  BY <1>3, <1>4, <1>5 DEF PrimedLit, Pos, Neg
<1> HIDE DEF a
<1> QED
  BY <1>2, <1>6, <1>7, LitsOfAtom DEF a

-----------------------------------------------------------------------------
(* The step family, rule by rule.                                          *)

Causal(p, v)    == {id \in CausalRules(p, LiveRules(p, v)) : id[3] \in p.srules[id[2]].effects}
FamilyIds(p, v) == JudgmentRules(p) \cup InertiaRules(WriteSet(p, v)) \cup Causal(p, v)

\* The components of a program.
LEMMA ProgramType ==
  ASSUME NEW p \in Programs
  PROVE  /\ p.jrules \in Seq(Rule) /\ p.srules \in Seq(StepRule)
         /\ \A j \in DOMAIN p.jrules : p.jrules[j] \in Rule
         /\ \A s \in DOMAIN p.srules : p.srules[s] \in StepRule
<1>1. p \in Program
  BY WorldAssumption
<1>2. p.jrules \in Seq(Rule) /\ p.srules \in Seq(StepRule)
  BY <1>1 DEF Program
<1> QED
  BY <1>2

\* The rules of a family by their identity.
LEMMA FamilyRules ==
  ASSUME NEW p
  PROVE  /\ \A j : FamilyRule(p, <<"judgment", j>>) = p.jrules[j]
         /\ \A q : FamilyRule(p, <<"inertia", q>>)
                    = [kind |-> DL_DEFEASIBLE, head |-> PrimedLit(q), body |-> {q}]
         /\ \A s, e : FamilyRule(p, <<"causal", s, e>>)
                    = [kind |-> DL_DEFEASIBLE, head |-> PrimedLit(e), body |-> CausalBody(p.srules[s])]
<1>1. ASSUME NEW j PROVE FamilyRule(p, <<"judgment", j>>) = p.jrules[j]
  BY DEF FamilyRule
<1>2. ASSUME NEW q
      PROVE  FamilyRule(p, <<"inertia", q>>)
               = [kind |-> DL_DEFEASIBLE, head |-> PrimedLit(q), body |-> {q}]
  BY DEF FamilyRule
<1>3. ASSUME NEW s, NEW e
      PROVE  FamilyRule(p, <<"causal", s, e>>)
               = [kind |-> DL_DEFEASIBLE, head |-> PrimedLit(e), body |-> CausalBody(p.srules[s])]
  BY DEF FamilyRule
<1> QED
  BY <1>1, <1>2, <1>3

\* The rules of the step family: every judgment, the inertia of the write-set, and
\* one causal rule per effect of a live rule; nothing beats a causal rule.
LEMMA FamilyReading ==
  ASSUME NEW p \in Programs, NEW v
  PROVE  /\ DOMAIN StepFamily(p, v).rules = FamilyIds(p, v)
         /\ \A r \in FamilyIds(p, v) : StepFamily(p, v).rules[r] = FamilyRule(p, r)
         /\ \A r, s, e : <<r, <<"causal", s, e>>>> \notin StepFamily(p, v).sups
<1>1. StepFamily(p, v).rules = [id \in FamilyIds(p, v) |-> FamilyRule(p, id)]
  BY DEF StepFamily, FamilyIds, Causal
<1>2. StepFamily(p, v).sups = JudgmentSups(p) \cup CausalSups(Causal(p, v))
  BY DEF StepFamily, Causal
<1>3. \A r, s, e : <<r, <<"causal", s, e>>>> \notin JudgmentSups(p)
  <2>1. \A j, s, e : <<"causal", s, e>> # <<"judgment", j>>
    OBVIOUS
  <2> QED
    BY <2>1 DEF JudgmentSups
<1>4. \A r, s, e : <<r, <<"causal", s, e>>>> \notin CausalSups(Causal(p, v))
  <2>1. \A q, s, e : <<"causal", s, e>> # <<"inertia", q>>
    OBVIOUS
  <2> QED
    BY <2>1 DEF CausalSups
<1> QED
  BY <1>1, <1>2, <1>3, <1>4

\* The identities of a family are of three kinds.
LEMMA IdsByKind ==
  ASSUME NEW p \in Programs, NEW v, NEW r \in FamilyIds(p, v)
  PROVE  \/ \E j \in DOMAIN p.jrules : r = <<"judgment", j>>
         \/ \E q \in LitsOf(WriteSet(p, v)) : r = <<"inertia", q>>
         \/ \E s \in LiveRules(p, v) : \E e \in p.srules[s].effects : r = <<"causal", s, e>>
<1>1. CASE r \in JudgmentRules(p)
  BY <1>1 DEF JudgmentRules
<1>2. CASE r \in InertiaRules(WriteSet(p, v))
  BY <1>2 DEF InertiaRules
<1>3. CASE r \in Causal(p, v)
  <2>1. r \in CausalRules(p, LiveRules(p, v)) /\ r[3] \in p.srules[r[2]].effects
    BY <1>3 DEF Causal
  <2>2. PICK s \in LiveRules(p, v), e \in Lits : r = <<"causal", s, e>>
    BY <2>1 DEF CausalRules
  <2>3. r[2] = s /\ r[3] = e
    BY <2>2
  <2> QED
    BY <2>1, <2>2, <2>3
<1> QED
  BY <1>1, <1>2, <1>3 DEF FamilyIds

\* The identities a family holds.
LEMMA IdsHeld ==
  ASSUME NEW p \in Programs, NEW v
  PROVE  /\ \A j \in DOMAIN p.jrules : <<"judgment", j>> \in FamilyIds(p, v)
         /\ \A q \in LitsOf(WriteSet(p, v)) : <<"inertia", q>> \in FamilyIds(p, v)
         /\ \A s \in LiveRules(p, v) : \A e \in p.srules[s].effects :
              <<"causal", s, e>> \in FamilyIds(p, v)
<1>1. ASSUME NEW j \in DOMAIN p.jrules PROVE <<"judgment", j>> \in FamilyIds(p, v)
  BY DEF FamilyIds, JudgmentRules
<1>2. ASSUME NEW q \in LitsOf(WriteSet(p, v)) PROVE <<"inertia", q>> \in FamilyIds(p, v)
  BY DEF FamilyIds, InertiaRules
<1>3. ASSUME NEW s \in LiveRules(p, v), NEW e \in p.srules[s].effects
      PROVE  <<"causal", s, e>> \in FamilyIds(p, v)
  <2>1. s \in DOMAIN p.srules
    BY DEF LiveRules
  <2>2. e \in Lits
    BY <2>1, RuleAssumption DEF LitsOf
  <2>3. <<"causal", s, e>> \in CausalRules(p, LiveRules(p, v))
    BY <2>2 DEF CausalRules
  <2> QED
    BY <2>3 DEF FamilyIds, Causal
<1> QED
  BY <1>1, <1>2, <1>3

\* The fluents and cues whose next value a family concludes.
LEMMA WriteSetFluents ==
  ASSUME NEW p, NEW v
  PROVE  WriteSet(p, v) \subseteq Fluents /\ LitsOf(WriteSet(p, v)) \subseteq LitsOf(Fluents \cup Emits)
BY DEF WriteSet, LitsOf

\* A family's rules read and conclude literals.
LEMMA FamilyLits ==
  ASSUME NEW p \in Programs, NEW v, NEW r \in FamilyIds(p, v)
  PROVE  FamilyRule(p, r).body \subseteq Lits /\ FamilyRule(p, r).head \in Lits
<1>1. CASE \E j \in DOMAIN p.jrules : r = <<"judgment", j>>
  BY <1>1, ProgramType, FamilyRules DEF Rule
<1>2. CASE \E q \in LitsOf(WriteSet(p, v)) : r = <<"inertia", q>>
  <2>1. PICK q \in LitsOf(WriteSet(p, v)) : r = <<"inertia", q>>
    BY <1>2
  <2>2. q \in LitsOf(Fluents \cup Emits) /\ q \in Lits
    BY WriteSetFluents DEF LitsOf
  <2>3. FamilyRule(p, r) = [kind |-> DL_DEFEASIBLE, head |-> PrimedLit(q), body |-> {q}]
    BY <2>1, FamilyRules
  <2> QED
    BY <2>2, <2>3, PrimedTwin
<1>3. CASE \E s \in LiveRules(p, v) : \E e \in p.srules[s].effects : r = <<"causal", s, e>>
  <2>1. PICK s \in LiveRules(p, v) : \E e \in p.srules[s].effects : r = <<"causal", s, e>>
    BY <1>3
  <2>2. PICK e \in p.srules[s].effects : r = <<"causal", s, e>>
    BY <2>1
  <2>3. s \in DOMAIN p.srules
    BY DEF LiveRules
  <2>4. FamilyRule(p, r) = [kind |-> DL_DEFEASIBLE, head |-> PrimedLit(e), body |-> CausalBody(p.srules[s])]
    BY <2>2, FamilyRules
  <2>5. PrimedLit(e) \in Lits
    BY <2>3, RuleAssumption, PrimedTwin
  <2>6. p.srules[s].now \subseteq Lits /\ p.srules[s].action \in Actions \cup {NoAction}
    BY <2>3, ProgramType DEF StepRule
  <2>7. \A q \in p.srules[s].nxt : PrimedLit(q) \in Lits
    <3>1. p.srules[s].nxt \subseteq LitsOf(Fluents \cup Emits)
      BY <2>3, RuleAssumption DEF LitsOf
    <3> QED
      BY <3>1, PrimedTwin
  <2>8. p.srules[s].action # NoAction => Pos(p.srules[s].action) \in Lits
    BY <2>6, WorldAssumption, LitsOfAtom
  <2>9. CausalBody(p.srules[s]) \subseteq Lits
    BY <2>6, <2>7, <2>8 DEF CausalBody
  <2> QED
    BY <2>4, <2>5, <2>9
<1> QED
  BY <1>1, <1>2, <1>3, IdsByKind

-----------------------------------------------------------------------------
(* One solve of the step family.                                           *)

\* The theory a step solves, with facts F, its components and its columns.
StepThy(p, v, F) == [StepFamily(p, v) EXCEPT !.facts = F]
StepSccs(p, v)   == SupportSccs(StepFamily(p, v))
Columns(p, v, F) == Verdicts(StepThy(p, v, F), StepSccs(p, v))

\* The facts of a step: the state, the actions, the guards and the minted guards.
StepFacts(vs, ns, as, M) == FluentFacts(vs) \cup {Pos(a) : a \in as} \cup GuardFacts(ns) \cup M
PGuardLits == {Pos(g) : g \in DOMAIN PGuards} \cup {Neg(g) : g \in DOMAIN PGuards}

\* SolveStep solves that theory.
LEMMA SolveStepReading ==
  ASSUME NEW p \in Programs, NEW v \in p.splits \cup {NoSplit},
         NEW vs, NEW ns, NEW as, NEW g
  PROVE  SolveStep(p, v, vs, ns, as, g) = Columns(p, v, StepFacts(vs, ns, as, MintedFacts(g)))
<1>1. StepFamilies[p][v] = Built(StepFamily(p, v))
  BY DEF StepFamilies
<1>2. Built(StepFamily(p, v)).thy = StepFamily(p, v)
      /\ Built(StepFamily(p, v)).sccs = SupportSccs(StepFamily(p, v))
  BY DEF Built
<1> QED
  BY <1>1, <1>2 DEF SolveStep, SolveFamily, Columns, StepThy, StepSccs, StepFacts

\* The rules, superiorities and facts of that theory.
LEMMA StepThyReading ==
  ASSUME NEW p \in Programs, NEW v, NEW F
  PROVE  /\ StepThy(p, v, F).rules = StepFamily(p, v).rules
         /\ StepThy(p, v, F).sups = StepFamily(p, v).sups
         /\ StepThy(p, v, F).facts = F
BY DEF StepThy, StepFamily

\* It is a theory of literals, with components.
LEMMA StepThyLits ==
  ASSUME NEW p \in Programs, NEW v, NEW F \in SUBSET Lits
  PROVE  TheoryLits(StepThy(p, v, F)) /\ AreSccs(StepSccs(p, v))
<1>1. \A r \in DOMAIN StepThy(p, v, F).rules :
        /\ StepThy(p, v, F).rules[r].body \subseteq Lits
        /\ StepThy(p, v, F).rules[r].head \in Lits
  BY StepThyReading, FamilyReading, FamilyLits
<1>2. AreSccs(StepSccs(p, v))
  BY SccsType DEF AreSccs, StepSccs
<1> QED
  BY <1>1, <1>2, StepThyReading DEF TheoryLits

\* The components of a step's theory are those of its family: facts play no part.
LEMMA StepSccsOf ==
  ASSUME NEW p \in Programs, NEW v, NEW F \in SUBSET Lits
  PROVE  SupportSccs(StepThy(p, v, F)) = StepSccs(p, v)
<1> DEFINE t == StepThy(p, v, F)
           u == StepFamily(p, v)
<1>1. TheoryLits(t)
  BY StepThyLits
<1>2. t.rules = u.rules /\ u.facts = {}
  BY DEF StepThy, StepFamily
<1>3. StepSccs(p, v) = SupportSccs(u)
  BY DEF StepSccs
<1> HIDE DEF t, u
<1>4. TheoryLits(u)
  BY <1>1, <1>2 DEF TheoryLits
<1>5. SupportSccs(t) = SupportSccs(u)
  BY <1>1, <1>2, <1>4, SccsByRules
<1> QED
  BY <1>3, <1>5 DEF t

\* The rules for a literal, by kind.
LEMMA RulesByKind ==
  ASSUME NEW p \in Programs, NEW v, NEW F, NEW q, NEW r \in RulesFor(StepThy(p, v, F), q)
  PROVE  /\ StepThy(p, v, F).rules[r] = FamilyRule(p, r)
         /\ \/ \E j \in DOMAIN p.jrules : r = <<"judgment", j>> /\ p.jrules[j].head = q
            \/ \E x \in LitsOf(WriteSet(p, v)) : r = <<"inertia", x>> /\ PrimedLit(x) = q
            \/ \E s \in LiveRules(p, v) : \E e \in p.srules[s].effects :
                 r = <<"causal", s, e>> /\ PrimedLit(e) = q
<1>1. r \in FamilyIds(p, v) /\ StepThy(p, v, F).rules[r] = FamilyRule(p, r)
      /\ FamilyRule(p, r).head = q
  BY StepThyReading, FamilyReading DEF RulesFor
<1>2. CASE \E j \in DOMAIN p.jrules : r = <<"judgment", j>>
  <2>1. PICK j \in DOMAIN p.jrules : r = <<"judgment", j>>
    BY <1>2
  <2>2. FamilyRule(p, r).head = p.jrules[j].head
    BY <2>1, FamilyRules
  <2> QED
    BY <1>1, <2>1, <2>2
<1>3. CASE \E x \in LitsOf(WriteSet(p, v)) : r = <<"inertia", x>>
  <2>1. PICK x \in LitsOf(WriteSet(p, v)) : r = <<"inertia", x>>
    BY <1>3
  <2>2. FamilyRule(p, r) = [kind |-> DL_DEFEASIBLE, head |-> PrimedLit(x), body |-> {x}]
    BY <2>1, FamilyRules
  <2> QED
    BY <1>1, <2>1, <2>2
<1>4. CASE \E s \in LiveRules(p, v) : \E e \in p.srules[s].effects : r = <<"causal", s, e>>
  <2>1. PICK s \in LiveRules(p, v) : \E e \in p.srules[s].effects : r = <<"causal", s, e>>
    BY <1>4
  <2>2. PICK e \in p.srules[s].effects : r = <<"causal", s, e>>
    BY <2>1
  <2>3. FamilyRule(p, r) = [kind |-> DL_DEFEASIBLE, head |-> PrimedLit(e), body |-> CausalBody(p.srules[s])]
    BY <2>2, FamilyRules
  <2> QED
    BY <1>1, <2>2, <2>3
<1> QED
  BY <1>1, <1>2, <1>3, <1>4, IdsByKind

\* Inertia and causal rules conclude primed atoms, and only judgments are strict.
LEMMA ConcludedAtoms ==
  ASSUME NEW p \in Programs, NEW v, NEW F, NEW q \in Lits
  PROVE  /\ AtomOf(q) \notin Concluded(p) \cup PrimedAtoms => RulesFor(StepThy(p, v, F), q) = {}
         /\ AtomOf(q) \notin ConcludedStrictly(p) => StrictFor(StepThy(p, v, F), q) = {}
<1> DEFINE t == StepThy(p, v, F)
<1>1. \A x \in LitsOf(WriteSet(p, v)) : AtomOf(PrimedLit(x)) \in PrimedAtoms
  BY WriteSetFluents, PrimedTwin
<1>2. \A s \in LiveRules(p, v) : \A e \in p.srules[s].effects : AtomOf(PrimedLit(e)) \in PrimedAtoms
  BY RuleAssumption, PrimedTwin DEF LiveRules
<1>3. ASSUME NEW r \in RulesFor(t, q) PROVE AtomOf(q) \in Concluded(p) \cup PrimedAtoms
  <2>1. CASE \E j \in DOMAIN p.jrules : r = <<"judgment", j>> /\ p.jrules[j].head = q
    BY <2>1 DEF Concluded
  <2> QED
    BY <1>1, <1>2, <1>3, <2>1, RulesByKind
<1>4. ASSUME NEW r \in StrictFor(t, q) PROVE AtomOf(q) \in ConcludedStrictly(p)
  <2>1. r \in RulesFor(t, q) /\ t.rules[r].kind = DL_STRICT
    BY <1>4 DEF StrictFor
  <2>2. t.rules[r] = FamilyRule(p, r)
    BY <2>1, RulesByKind
  <2>3. CASE \E j \in DOMAIN p.jrules : r = <<"judgment", j>> /\ p.jrules[j].head = q
    <3>1. PICK j \in DOMAIN p.jrules : r = <<"judgment", j>> /\ p.jrules[j].head = q
      BY <2>3
    <3>2. p.jrules[j].kind = DL_STRICT
      BY <2>1, <2>2, <3>1, FamilyRules
    <3> QED
      BY <3>1, <3>2 DEF ConcludedStrictly
  <2>4. CASE \E x \in LitsOf(WriteSet(p, v)) : r = <<"inertia", x>>
    <3>1. PICK x \in LitsOf(WriteSet(p, v)) : r = <<"inertia", x>>
      BY <2>4
    <3>2. FamilyRule(p, r) = [kind |-> DL_DEFEASIBLE, head |-> PrimedLit(x), body |-> {x}]
      BY <3>1, FamilyRules
    <3> QED
      BY <2>1, <2>2, <3>2
  <2>5. CASE \E s \in LiveRules(p, v) : \E e \in p.srules[s].effects : r = <<"causal", s, e>>
    <3>1. PICK s \in LiveRules(p, v) : \E e \in p.srules[s].effects : r = <<"causal", s, e>>
      BY <2>5
    <3>2. \E e : FamilyRule(p, r)
             = [kind |-> DL_DEFEASIBLE, head |-> PrimedLit(e), body |-> CausalBody(p.srules[s])]
      BY <3>1, FamilyRules
    <3> QED
      BY <2>1, <2>2, <3>2
  <2> QED
    BY <2>1, <2>3, <2>4, <2>5, RulesByKind
<1> QED
  BY <1>3, <1>4

\* What a step may be solved with.
FactsOK(vs, as, M) == vs \in [Fluents -> BOOLEAN] /\ as \subseteq Actions /\ M \subseteq PGuardLits

\* The facts of a step are literals, each of one of the four parts.
LEMMA FactsByPart ==
  ASSUME NEW vs, NEW ns, NEW as, NEW M, FactsOK(vs, as, M)
  PROVE  /\ StepFacts(vs, ns, as, M) \subseteq Lits
         /\ \A q \in FluentFacts(vs) : AtomOf(q) \in Fluents /\ vs[AtomOf(q)] = ~ IsNeg(q)
         /\ \A a \in as : AtomOf(Pos(a)) = a /\ a \in Actions
         /\ \A q \in GuardFacts(ns) : AtomOf(q) \in DOMAIN Guards
         /\ \A q \in M : AtomOf(q) \in DOMAIN PGuards
<1>1. ASSUME NEW q \in FluentFacts(vs)
      PROVE  q \in Lits /\ AtomOf(q) \in Fluents /\ vs[AtomOf(q)] = ~ IsNeg(q)
  <2>1. PICK f \in Fluents : q = IF vs[f] THEN Pos(f) ELSE Neg(f)
    BY DEF FluentFacts
  <2>2. f \in Atoms /\ vs[f] \in BOOLEAN
    BY WorldAssumption DEF FactsOK
  <2> QED
    BY <2>1, <2>2, LitsOfAtom
<1>2. ASSUME NEW a \in as PROVE Pos(a) \in Lits /\ AtomOf(Pos(a)) = a /\ a \in Actions
  BY WorldAssumption, LitsOfAtom DEF FactsOK
<1>3. ASSUME NEW q \in GuardFacts(ns) PROVE q \in Lits /\ AtomOf(q) \in DOMAIN Guards
  <2>1. PICK g \in DOMAIN Guards : q = IF GuardHolds(g, ns) THEN Pos(g) ELSE Neg(g)
    BY DEF GuardFacts
  <2>2. g \in Atoms
    BY RuleAssumption
  <2> QED
    BY <2>1, <2>2, LitsOfAtom
<1>4. ASSUME NEW q \in M PROVE q \in Lits /\ AtomOf(q) \in DOMAIN PGuards
  <2>1. q \in PGuardLits
    BY DEF FactsOK
  <2>2. PICK g \in DOMAIN PGuards : q = Pos(g) \/ q = Neg(g)
    BY <2>1 DEF PGuardLits
  <2>3. g \in Atoms
    BY RuleAssumption
  <2> QED
    BY <2>2, <2>3, LitsOfAtom
<1> QED
  BY <1>1, <1>2, <1>3, <1>4 DEF StepFacts

\* A column decided by a fact: the literal is proved and its complement is not.
LEMMA DecidedColumn ==
  ASSUME NEW p \in Programs, NEW v, NEW F \in SUBSET Lits, NEW q \in F,
         Compl(q) \notin F, AtomOf(q) \notin ConcludedStrictly(p)
  PROVE  Columns(p, v, F)[q] = DL_PROVED /\ Columns(p, v, F)[Compl(q)] # DL_PROVED
<1> DEFINE t == StepThy(p, v, F)
           c == Compl(q)
<1>1. TheoryLits(t) /\ AreSccs(StepSccs(p, v)) /\ t.facts = F
  BY StepThyLits, StepThyReading
<1>2. c \in Lits /\ Compl(c) = q /\ AtomOf(c) = AtomOf(q)
  BY ComplLits, ComplAtom
<1>3. StrictFor(t, c) = {}
  BY <1>2, ConcludedAtoms
<1>4. Columns(p, v, F)[q] = DL_PROVED
  BY <1>1, FactProved DEF Columns
<1> HIDE DEF t
<1>5. ASSUME Verdicts(t, StepSccs(p, v))[c] = DL_PROVED PROVE FALSE
  <2> HIDE DEF c
  <2>1. Compl(c) \notin t.facts
    BY <1>1, <1>2, <1>3, <1>5, ProvedByRule DEF c
  <2> QED
    BY <1>1, <1>2, <2>1
<1> QED
  BY <1>4, <1>5 DEF t, c, Columns

\* A column no fact and no judgment concludes is proved only by a rule that applies.
LEMMA UnstatedColumn ==
  ASSUME NEW p \in Programs, NEW v, NEW F \in SUBSET Lits, NEW q \in Lits, q \notin F,
         AtomOf(q) \notin Concluded(p), Columns(p, v, F)[q] = DL_PROVED
  PROVE  \/ \E x \in LitsOf(WriteSet(p, v)) : PrimedLit(x) = q /\ Columns(p, v, F)[x] = DL_PROVED
         \/ \E s \in LiveRules(p, v) : \E e \in p.srules[s].effects :
              /\ PrimedLit(e) = q
              /\ \A b \in CausalBody(p.srules[s]) : Columns(p, v, F)[b] = DL_PROVED
<1> DEFINE t == StepThy(p, v, F)
           cols == Columns(p, v, F)
<1>1. TheoryLits(t) /\ AreSccs(StepSccs(p, v)) /\ t.facts = F
  BY StepThyLits, StepThyReading
<1>2. ConcludedStrictly(p) \subseteq Concluded(p)
  BY DEF ConcludedStrictly, Concluded
<1>3. StrictFor(t, q) = {}
  BY <1>2, ConcludedAtoms
<1>4. cols = Verdicts(t, StepSccs(p, v))
  BY DEF Columns
<1>5. Supported(t, cols, q)
  <2> HIDE DEF t, cols
  <2> QED
    BY <1>1, <1>3, <1>4, ProvedByRule DEF cols
<1>6. PICK r \in RulesFor(t, q) : Applicable(t, cols, r)
  BY <1>5 DEF Supported, SupportersOf
<1>7. t.rules[r] = FamilyRule(p, r) /\ \A b \in FamilyRule(p, r).body : cols[b] = DL_PROVED
  <2>1. t.rules[r] = FamilyRule(p, r)
    BY RulesByKind
  <2> HIDE DEF t, cols
  <2> QED
    BY <1>6, <2>1 DEF Applicable, BodyAll
<1> HIDE DEF cols
<1>8. CASE \E x \in LitsOf(WriteSet(p, v)) : r = <<"inertia", x>> /\ PrimedLit(x) = q
  <2>1. PICK x \in LitsOf(WriteSet(p, v)) : r = <<"inertia", x>> /\ PrimedLit(x) = q
    BY <1>8
  <2>2. FamilyRule(p, r) = [kind |-> DL_DEFEASIBLE, head |-> PrimedLit(x), body |-> {x}]
    BY <2>1, FamilyRules
  <2>3. cols[x] = DL_PROVED
    BY <1>7, <2>2
  <2> QED
    BY <2>1, <2>3 DEF cols
<1>9. CASE \E s \in LiveRules(p, v) : \E e \in p.srules[s].effects :
             r = <<"causal", s, e>> /\ PrimedLit(e) = q
  <2>1. PICK s \in LiveRules(p, v) : \E e \in p.srules[s].effects :
             r = <<"causal", s, e>> /\ PrimedLit(e) = q
    BY <1>9
  <2>2. PICK e \in p.srules[s].effects : r = <<"causal", s, e>> /\ PrimedLit(e) = q
    BY <2>1
  <2>3. FamilyRule(p, r) = [kind |-> DL_DEFEASIBLE, head |-> PrimedLit(e), body |-> CausalBody(p.srules[s])]
    BY <2>2, FamilyRules
  <2>4. \A b \in CausalBody(p.srules[s]) : cols[b] = DL_PROVED
    BY <1>7, <2>3
  <2> QED
    BY <2>2, <2>4 DEF cols
<1>10. ~ (\E j \in DOMAIN p.jrules : r = <<"judgment", j>> /\ p.jrules[j].head = q)
  BY DEF Concluded
<1> QED
  BY <1>8, <1>9, <1>10, RulesByKind

-----------------------------------------------------------------------------
(* What the columns of one solve say, for a program that names its parts   *)
(* apart.                                                                  *)

\* Where the atoms of a program may and may not come up.
LEMMA SeparateReading ==
  ASSUME NEW p, Separate(p)
  PROVE  /\ Concluded(p) \subseteq JudgmentAtoms(p) /\ ConcludedStrictly(p) \subseteq Concluded(p)
         /\ \A a \in Fluents : a \notin Actions /\ a \notin DOMAIN Guards /\ a \notin DOMAIN PGuards
                                /\ a \notin PrimedAtoms /\ a \notin ConcludedStrictly(p)
         /\ \A a \in Actions : a \notin DOMAIN Guards /\ a \notin DOMAIN PGuards
                                /\ a \notin PrimedAtoms /\ a \notin Concluded(p)
         /\ \A a \in PrimedAtoms : a \notin DOMAIN Guards /\ a \notin DOMAIN PGuards
                                    /\ a \notin Concluded(p)
         /\ \A a \in DOMAIN PGuards : a \notin DOMAIN Guards /\ a \notin Concluded(p)
<1>1. Concluded(p) \subseteq JudgmentAtoms(p)
  <2>1. ASSUME NEW j \in DOMAIN p.jrules PROVE AtomOf(p.jrules[j].head) \in JudgmentAtoms(p)
    BY DEF JudgmentAtoms
  <2> QED
    BY <2>1 DEF Concluded
<1>2. ConcludedStrictly(p) \subseteq Concluded(p)
  BY DEF ConcludedStrictly, Concluded
<1>3. JudgmentAtoms(p) \cap (Actions \cup PrimedAtoms \cup DOMAIN PGuards) = {}
      /\ ConcludedStrictly(p) \cap Fluents = {}
  BY DEF Separate
<1>4. /\ PrimedAtoms \cap (Fluents \cup Actions \cup DOMAIN Guards \cup DOMAIN PGuards) = {}
      /\ Fluents \cap (Actions \cup DOMAIN Guards \cup DOMAIN PGuards) = {}
      /\ Actions \cap (DOMAIN Guards \cup DOMAIN PGuards) = {}
      /\ DOMAIN Guards \cap DOMAIN PGuards = {}
  BY DEF Separate
<1> HIDE DEF JudgmentAtoms, Concluded, ConcludedStrictly, PrimedAtoms
<1> QED
  BY <1>1, <1>2, <1>3, <1>4

\* The literal q about a fluent holds in a state.
HoldsIn(vs, q) == vs[AtomOf(q)] = ~ IsNeg(q)

\* A fluent's column is its value.
LEMMA FluentColumn ==
  ASSUME NEW p \in Programs, Separate(p), NEW v, NEW vs, NEW ns, NEW as, NEW M, FactsOK(vs, as, M),
         NEW q \in LitsOf(Fluents)
  PROVE  Columns(p, v, StepFacts(vs, ns, as, M))[q] = DL_PROVED <=> HoldsIn(vs, q)
<1> DEFINE F == StepFacts(vs, ns, as, M)
           a == AtomOf(q)
           x == IF vs[a] THEN Pos(a) ELSE Neg(a)
<1>1. q \in Lits /\ a \in Fluents /\ a \in Atoms
  BY WorldAssumption DEF LitsOf
<1>2. vs[a] \in BOOLEAN
  BY <1>1 DEF FactsOK
<1>3. x \in F /\ x \in FluentFacts(vs)
  BY <1>1 DEF FluentFacts, StepFacts
<1>4. x \in Lits /\ AtomOf(x) = a /\ (IsNeg(x) <=> ~ vs[a])
  BY <1>1, <1>2, LitsOfAtom
<1>5. Compl(x) \in Lits /\ AtomOf(Compl(x)) = a /\ (IsNeg(Compl(x)) <=> vs[a])
  BY <1>4, ComplAtom, ComplLits
<1>6. F \in SUBSET Lits
  BY FactsByPart
<1> HIDE DEF x, a
<1>7. Compl(x) \notin F
  <2>1. Compl(x) \notin FluentFacts(vs)
    BY <1>2, <1>5, FactsByPart
  <2>2. /\ \A b \in as : AtomOf(Pos(b)) \in Actions
        /\ \A y \in GuardFacts(ns) : AtomOf(y) \in DOMAIN Guards
        /\ \A y \in M : AtomOf(y) \in DOMAIN PGuards
    BY FactsByPart
  <2>3. a \notin Actions /\ a \notin DOMAIN Guards /\ a \notin DOMAIN PGuards
    BY <1>1, SeparateReading
  <2>4. Compl(x) \notin {Pos(b) : b \in as} /\ Compl(x) \notin GuardFacts(ns) /\ Compl(x) \notin M
    BY <1>5, <2>2, <2>3
  <2> QED
    BY <2>1, <2>4 DEF StepFacts
<1>8. AtomOf(x) \notin ConcludedStrictly(p)
  BY <1>1, <1>4, SeparateReading
<1> HIDE DEF F
<1>9. Columns(p, v, F)[x] = DL_PROVED /\ Columns(p, v, F)[Compl(x)] # DL_PROVED
  BY <1>3, <1>6, <1>7, <1>8, DecidedColumn
<1>10. q = x \/ q = Compl(x)
  BY <1>1, <1>4, LitsByAtom DEF a
<1> QED
  BY <1>2, <1>4, <1>5, <1>9, <1>10 DEF F, a, HoldsIn

\* Only a submitted action is proved.
LEMMA ActionColumn ==
  ASSUME NEW p \in Programs, Separate(p), NEW v, NEW vs, NEW ns, NEW as, NEW M, FactsOK(vs, as, M),
         NEW a \in Actions, Columns(p, v, StepFacts(vs, ns, as, M))[Pos(a)] = DL_PROVED
  PROVE  a \in as
<1> DEFINE F == StepFacts(vs, ns, as, M)
<1> SUFFICES ASSUME a \notin as PROVE FALSE
  OBVIOUS
<1>1. F \in SUBSET Lits
  BY FactsByPart
<1>2. a \in Atoms
  BY WorldAssumption
<1>3. Pos(a) \in Lits /\ AtomOf(Pos(a)) = a
  BY <1>2, LitsOfAtom
<1>4. Pos(a) \notin F
  <2>1. Pos(a) \notin {Pos(b) : b \in as}
    BY <1>3, FactsByPart
  <2>2. /\ \A y \in FluentFacts(vs) : AtomOf(y) \in Fluents
        /\ \A y \in GuardFacts(ns) : AtomOf(y) \in DOMAIN Guards
        /\ \A y \in M : AtomOf(y) \in DOMAIN PGuards
    BY FactsByPart
  <2>3. a \notin Fluents /\ a \notin DOMAIN Guards /\ a \notin DOMAIN PGuards
    BY SeparateReading
  <2>4. Pos(a) \notin FluentFacts(vs) /\ Pos(a) \notin GuardFacts(ns) /\ Pos(a) \notin M
    BY <1>3, <2>2, <2>3
  <2> QED
    BY <2>1, <2>4 DEF StepFacts
<1>5. AtomOf(Pos(a)) \notin Concluded(p)
  BY <1>3, SeparateReading
<1>c. Columns(p, v, F)[Pos(a)] = DL_PROVED
  OBVIOUS
<1> HIDE DEF F
<1>6. \/ \E x \in LitsOf(WriteSet(p, v)) : PrimedLit(x) = Pos(a)
      \/ \E s \in LiveRules(p, v) : \E e \in p.srules[s].effects : PrimedLit(e) = Pos(a)
  BY <1>1, <1>3, <1>4, <1>5, <1>c, UnstatedColumn
<1>7. \A x \in LitsOf(WriteSet(p, v)) : AtomOf(PrimedLit(x)) \in PrimedAtoms
  BY WriteSetFluents, PrimedTwin
<1>8. \A s \in LiveRules(p, v) : \A e \in p.srules[s].effects : AtomOf(PrimedLit(e)) \in PrimedAtoms
  BY RuleAssumption, PrimedTwin DEF LiveRules
<1> QED
  BY <1>3, <1>6, <1>7, <1>8, SeparateReading

\* No fact and no judgment is about a primed atom.
LEMMA PrimedUnstated ==
  ASSUME NEW p \in Programs, Separate(p), NEW vs, NEW ns, NEW as, NEW M, FactsOK(vs, as, M),
         NEW q \in Lits, AtomOf(q) \in PrimedAtoms
  PROVE  q \notin StepFacts(vs, ns, as, M) /\ AtomOf(q) \notin Concluded(p)
<1>1. AtomOf(q) \notin Fluents /\ AtomOf(q) \notin Actions
      /\ AtomOf(q) \notin DOMAIN Guards /\ AtomOf(q) \notin DOMAIN PGuards
  BY SeparateReading
<1>2. q \notin FluentFacts(vs) /\ q \notin {Pos(a) : a \in as} /\ q \notin GuardFacts(ns) /\ q \notin M
  BY <1>1, FactsByPart
<1> QED
  BY <1>2, SeparateReading DEF StepFacts

\* A proved next value is inherited, or an effect of a rule that fired.
LEMMA ProvedNext ==
  ASSUME NEW p \in Programs, Separate(p), NEW v, NEW vs, NEW ns, NEW as, NEW M, FactsOK(vs, as, M),
         NEW e \in LitsOf(Fluents \cup Emits),
         Columns(p, v, StepFacts(vs, ns, as, M))[PrimedLit(e)] = DL_PROVED
  PROVE  \/ e \in LitsOf(Fluents) /\ HoldsIn(vs, e)
         \/ \E s \in LiveRules(p, v) : e \in p.srules[s].effects
              /\ RuleFired(p.srules[s], as, Columns(p, v, StepFacts(vs, ns, as, M)))
<1> DEFINE F == StepFacts(vs, ns, as, M)
           cols == Columns(p, v, F)
<1>1. F \in SUBSET Lits
  BY FactsByPart
<1>2. PrimedLit(e) \in Lits /\ AtomOf(PrimedLit(e)) \in PrimedAtoms
  BY PrimedTwin
<1>3. PrimedLit(e) \notin F /\ AtomOf(PrimedLit(e)) \notin Concluded(p)
  BY <1>2, PrimedUnstated
<1>4. \A x \in LitsOf(Fluents \cup Emits) : PrimedLit(x) = PrimedLit(e) => x = e
  <2> SUFFICES ASSUME NEW x \in LitsOf(Fluents \cup Emits), PrimedLit(x) = PrimedLit(e)
               PROVE  x = e
    OBVIOUS
  <2>1. PrimedOf[AtomOf(x)] = PrimedOf[AtomOf(e)] /\ (IsNeg(x) <=> IsNeg(e))
    BY PrimedTwin
  <2>2. x \in Lits /\ e \in Lits /\ AtomOf(x) \in Fluents \cup Emits /\ AtomOf(e) \in Fluents \cup Emits
    BY DEF LitsOf
  <2>3. AtomOf(x) = AtomOf(e)
    BY <2>1, <2>2 DEF Separate
  <2> QED
    BY <2>1, <2>2, <2>3, LitsByAtom, ComplAtom
<1>c. cols[PrimedLit(e)] = DL_PROVED
  OBVIOUS
<1>d. ASSUME NEW y \in LitsOf(Fluents)
      PROVE  cols[y] = DL_PROVED <=> HoldsIn(vs, y)
  BY FluentColumn
<1> HIDE DEF F
<1>5. CASE \E x \in LitsOf(WriteSet(p, v)) : PrimedLit(x) = PrimedLit(e) /\ cols[x] = DL_PROVED
  <2>1. PICK x \in LitsOf(WriteSet(p, v)) : PrimedLit(x) = PrimedLit(e) /\ cols[x] = DL_PROVED
    BY <1>5
  <2>2. x = e /\ x \in LitsOf(Fluents)
    BY <1>4, <2>1, WriteSetFluents DEF LitsOf
  <2> QED
    BY <1>d, <2>1, <2>2
<1>6. CASE \E s \in LiveRules(p, v) : \E y \in p.srules[s].effects :
              /\ PrimedLit(y) = PrimedLit(e)
              /\ \A b \in CausalBody(p.srules[s]) : cols[b] = DL_PROVED
  <2>1. PICK s \in LiveRules(p, v) : \E y \in p.srules[s].effects :
              /\ PrimedLit(y) = PrimedLit(e)
              /\ \A b \in CausalBody(p.srules[s]) : cols[b] = DL_PROVED
    BY <1>6
  <2>2. s \in DOMAIN p.srules
    BY DEF LiveRules
  <2>3. e \in p.srules[s].effects
    BY <1>4, <2>1, <2>2, RuleAssumption
  <2>4. p.srules[s].action \in Actions \cup {NoAction}
    BY <2>2, ProgramType DEF StepRule
  <2>5. p.srules[s].action # NoAction => p.srules[s].action \in as
    <3> SUFFICES ASSUME p.srules[s].action # NoAction PROVE p.srules[s].action \in as
      OBVIOUS
    <3>1. cols[Pos(p.srules[s].action)] = DL_PROVED
      BY <2>1 DEF CausalBody
    <3> QED
      BY <2>4, <3>1, ActionColumn DEF F
  <2>6. RuleFired(p.srules[s], as, cols)
    BY <2>1, <2>5 DEF RuleFired, CausalBody
  <2> QED
    BY <2>3, <2>6 DEF F
<1>7. \/ \E x \in LitsOf(WriteSet(p, v)) : PrimedLit(x) = PrimedLit(e) /\ cols[x] = DL_PROVED
      \/ \E s \in LiveRules(p, v) : \E y \in p.srules[s].effects :
              /\ PrimedLit(y) = PrimedLit(e)
              /\ \A b \in CausalBody(p.srules[s]) : cols[b] = DL_PROVED
  <2> DEFINE q == PrimedLit(e)
  <2>1. q \in Lits /\ q \notin F /\ AtomOf(q) \notin Concluded(p) /\ cols[q] = DL_PROVED
    BY <1>2, <1>3, <1>c
  <2> HIDE DEF q
  <2>2. \/ \E x \in LitsOf(WriteSet(p, v)) : PrimedLit(x) = q /\ cols[x] = DL_PROVED
        \/ \E s \in LiveRules(p, v) : \E y \in p.srules[s].effects :
              /\ PrimedLit(y) = q
              /\ \A b \in CausalBody(p.srules[s]) : cols[b] = DL_PROVED
    BY <1>1, <2>1, UnstatedColumn
  <2> QED
    BY <2>2 DEF q
<1> QED
  BY <1>5, <1>6, <1>7

\* The split value a state selects is its only true value atom.
LEMMA CurSplitReading ==
  ASSUME NEW p \in Programs, NEW vs
  PROVE  /\ CurSplit(p, vs) \in p.splits \cup {NoSplit}
         /\ CurSplit(p, vs) # NoSplit => \A x \in p.splits : vs[x] => x = CurSplit(p, vs)
<1>1. CASE \E v \in p.splits : {x \in p.splits : vs[x]} = {v}
  <2>1. PICK v \in p.splits : {x \in p.splits : vs[x]} = {v}
    BY <1>1
  <2>2. CurSplit(p, vs) = CHOOSE x \in p.splits : vs[x]
    BY <1>1 DEF CurSplit
  <2>3. \A x \in p.splits : vs[x] <=> x = v
    BY <2>1
  <2>4. CurSplit(p, vs) = v
    BY <2>2, <2>3
  <2> QED
    BY <2>3, <2>4
<1>2. CASE ~ (\E v \in p.splits : {x \in p.splits : vs[x]} = {v})
  BY <1>2 DEF CurSplit
<1> QED
  BY <1>1, <1>2

\* A rule that fires is in the family the state selects: a value atom it demands
\* is proved, so it is true, so it is the split value.
LEMMA FiredIsLive ==
  ASSUME NEW p \in Programs, Separate(p), NEW vs, NEW ns, NEW as, NEW M, FactsOK(vs, as, M),
         NEW s \in DOMAIN p.srules,
         RuleFired(p.srules[s], as, Columns(p, CurSplit(p, vs), StepFacts(vs, ns, as, M)))
  PROVE  s \in LiveRules(p, CurSplit(p, vs))
<1> DEFINE v == CurSplit(p, vs)
           cols == Columns(p, v, StepFacts(vs, ns, as, M))
<1>1. \A q \in p.srules[s].now : cols[q] = DL_PROVED
  BY DEF RuleFired
<1>2. p.splits \subseteq Fluents
  <2>1. p \in Program
    BY WorldAssumption
  <2> QED
    BY <2>1 DEF Program
<1>3. ASSUME v # NoSplit, NEW x \in ValuesDemanded(p, p.srules[s]) PROVE x = v
  <2>1. x \in p.splits /\ Pos(x) \in p.srules[s].now
    BY DEF ValuesDemanded
  <2>2. x \in Fluents /\ x \in Atoms
    BY <1>2, <2>1, WorldAssumption
  <2>3. Pos(x) \in LitsOf(Fluents) /\ AtomOf(Pos(x)) = x /\ ~ IsNeg(Pos(x))
    BY <2>2, LitsOfAtom DEF LitsOf
  <2>4. HoldsIn(vs, Pos(x))
    BY <1>1, <2>1, <2>3, FluentColumn
  <2>5. vs[x]
    BY <2>3, <2>4 DEF HoldsIn
  <2> QED
    BY <1>3, <2>1, <2>5, CurSplitReading
<1> QED
  BY <1>3 DEF LiveRules, LiveUnder

\* An effect of a rule that fires keeps the opposite next value unproved: its
\* causal rule applies, and nothing beats it.
LEMMA FiredEffect ==
  ASSUME NEW p \in Programs, Separate(p), NEW v, NEW vs, NEW ns, NEW as, NEW M, FactsOK(vs, as, M),
         NEW s \in LiveRules(p, v), NEW e \in p.srules[s].effects,
         RuleFired(p.srules[s], as, Columns(p, v, StepFacts(vs, ns, as, M)))
  PROVE  Columns(p, v, StepFacts(vs, ns, as, M))[PrimedLit(Compl(e))] # DL_PROVED
<1> DEFINE F == StepFacts(vs, ns, as, M)
           t == StepThy(p, v, F)
           cols == Columns(p, v, F)
           id == <<"causal", s, e>>
           q == PrimedLit(Compl(e))
<1>1. s \in DOMAIN p.srules /\ e \in LitsOf(Fluents \cup Emits)
  BY RuleAssumption DEF LiveRules
<1>2. Compl(e) \in LitsOf(Fluents \cup Emits) /\ Compl(Compl(e)) = e
  BY <1>1, ComplLits, ComplAtom DEF LitsOf
<1>3. q \in Lits /\ AtomOf(q) \in PrimedAtoms /\ Compl(q) = PrimedLit(e)
  BY <1>2, PrimedTwin
<1>4. q \notin F /\ AtomOf(q) \notin Concluded(p)
  BY <1>3, PrimedUnstated
<1>5. F \in SUBSET Lits
  BY FactsByPart
<1> HIDE DEF F
<1>6. TheoryLits(t) /\ AreSccs(StepSccs(p, v)) /\ t.facts = F
  BY <1>5, StepThyLits, StepThyReading
<1>7. StrictFor(t, q) = {}
  BY <1>3, <1>4, ConcludedAtoms DEF ConcludedStrictly, Concluded
<1>8. id \in DOMAIN t.rules /\ t.rules[id] = [kind |-> DL_DEFEASIBLE, head |-> PrimedLit(e),
                                             body |-> CausalBody(p.srules[s])]
  BY IdsHeld, StepThyReading, FamilyReading, FamilyRules
<1>9. \A r : <<r, id>> \notin t.sups
  BY StepThyReading, FamilyReading
<1>10. \A b \in CausalBody(p.srules[s]) : cols[b] = DL_PROVED
  <2>1. RuleFired(p.srules[s], as, cols)
    BY DEF F
  <2>2. p.srules[s].action # NoAction => cols[Pos(p.srules[s].action)] = DL_PROVED
    <3> SUFFICES ASSUME p.srules[s].action # NoAction
                 PROVE  cols[Pos(p.srules[s].action)] = DL_PROVED
      OBVIOUS
    <3>1. p.srules[s].action \in as
      BY <2>1 DEF RuleFired
    <3>2. Pos(p.srules[s].action) \in F
      BY <3>1 DEF F, StepFacts
    <3> HIDE DEF t
    <3>3. Verdicts(t, StepSccs(p, v))[Pos(p.srules[s].action)] = DL_PROVED
      BY <1>6, <3>2, FactProved
    <3> QED
      BY <3>3 DEF Columns, t
  <2> HIDE DEF cols
  <2> QED
    BY <2>1, <2>2 DEF CausalBody, RuleFired
<1>11. id \in RulesFor(t, Compl(q)) /\ Applicable(t, cols, id)
  BY <1>3, <1>8, <1>10 DEF RulesFor, Applicable, BodyAll
<1>12. cols = Verdicts(t, StepSccs(p, v))
  BY DEF Columns
<1> HIDE DEF t, cols, id, q
<1>13. cols[q] # DL_PROVED
  BY <1>3, <1>4, <1>6, <1>7, <1>9, <1>11, <1>12, AttackedNotProved
<1> QED
  BY <1>13 DEF cols, q, F

\* The next value of fluent f under the columns cols.
NextValue(p, v, vs, cols, f) ==
  IF f \in WriteSet(p, v) THEN cols[PrimedLit(Pos(f))] = DL_PROVED ELSE vs[f]

\* A decided next value is what the effects of the rules that fire say, and the
\* old value when none of them is about it.
LEMMA NextFluent ==
  ASSUME NEW p \in Programs, Separate(p), NEW vs, NEW ns, NEW as, NEW M, FactsOK(vs, as, M),
         NEW cols, cols = Columns(p, CurSplit(p, vs), StepFacts(vs, ns, as, M)),
         NEW f \in Fluents,
         f \in WriteSet(p, CurSplit(p, vs)) =>
           cols[PrimedLit(Pos(f))] = DL_PROVED \/ cols[PrimedLit(Neg(f))] = DL_PROVED
  PROVE  /\ \A s \in DOMAIN p.srules : \A e \in p.srules[s].effects :
              RuleFired(p.srules[s], as, cols) /\ AtomOf(e) = f
                => NextValue(p, CurSplit(p, vs), vs, cols, f) # IsNeg(e)
         /\ (\A s \in DOMAIN p.srules : \A e \in p.srules[s].effects :
              ~ (RuleFired(p.srules[s], as, cols) /\ AtomOf(e) = f))
                => NextValue(p, CurSplit(p, vs), vs, cols, f) = vs[f]
<1> DEFINE v == CurSplit(p, vs)
           nv == NextValue(p, v, vs, cols, f)
<1>1. f \in Atoms /\ vs[f] \in BOOLEAN
  BY WorldAssumption DEF FactsOK
<1>2. /\ Pos(f) \in LitsOf(Fluents \cup Emits) /\ Neg(f) \in LitsOf(Fluents \cup Emits)
      /\ AtomOf(Pos(f)) = f /\ AtomOf(Neg(f)) = f /\ ~ IsNeg(Pos(f)) /\ IsNeg(Neg(f))
      /\ Compl(Pos(f)) = Neg(f) /\ Compl(Neg(f)) = Pos(f)
  BY <1>1, LitsOfAtom DEF LitsOf
<1>3. nv \in BOOLEAN
  BY <1>1 DEF NextValue
<1>4. ASSUME NEW s \in DOMAIN p.srules, NEW e \in p.srules[s].effects,
             RuleFired(p.srules[s], as, cols), AtomOf(e) = f
      PROVE  nv # IsNeg(e)
  <2>1. s \in LiveRules(p, v)
    BY <1>4, FiredIsLive
  <2>2. e \in Lits
    BY RuleAssumption DEF LitsOf
  <2>3. f \in WriteSet(p, v)
    BY <1>4, <2>1 DEF WriteSet
  <2>4. cols[PrimedLit(Compl(e))] # DL_PROVED
    BY <1>4, <2>1, FiredEffect
  <2>5. e = IF IsNeg(e) THEN Neg(f) ELSE Pos(f)
    BY <1>4, <2>2, AtomOfLit
  <2>6. CASE IsNeg(e)
    <3>1. Compl(e) = Pos(f)
      BY <1>2, <2>5, <2>6
    <3>2. ~ nv
      BY <2>3, <2>4, <3>1 DEF NextValue
    <3> QED
      BY <1>3, <2>6, <3>2
  <2>7. CASE ~ IsNeg(e)
    <3>1. Compl(e) = Neg(f)
      BY <1>2, <2>5, <2>7
    <3>2. cols[PrimedLit(Pos(f))] = DL_PROVED
      BY <2>3, <2>4, <3>1
    <3>3. nv
      BY <2>3, <3>2 DEF NextValue
    <3> QED
      BY <1>3, <2>7, <3>3
  <2> QED
    BY <2>6, <2>7
<1>5. ASSUME \A s \in DOMAIN p.srules : \A e \in p.srules[s].effects :
              ~ (RuleFired(p.srules[s], as, cols) /\ AtomOf(e) = f)
      PROVE  nv = vs[f]
  <2>1. CASE f \notin WriteSet(p, v)
    BY <2>1 DEF NextValue
  <2>2. CASE f \in WriteSet(p, v)
    <3>1. ASSUME NEW e \in {Pos(f), Neg(f)}, cols[PrimedLit(e)] = DL_PROVED
          PROVE  HoldsIn(vs, e)
      <4>1. e \in LitsOf(Fluents \cup Emits) /\ AtomOf(e) = f
        BY <1>2
      <4>2. ~ (\E s \in LiveRules(p, v) : e \in p.srules[s].effects /\ RuleFired(p.srules[s], as, cols))
        BY <1>5, <4>1 DEF LiveRules
      <4> HIDE DEF v
      <4>3. cols = Columns(p, v, StepFacts(vs, ns, as, M))
        BY DEF v
      <4> QED
        BY <3>1, <4>1, <4>2, <4>3, ProvedNext
    <3>2. nv = (cols[PrimedLit(Pos(f))] = DL_PROVED)
      BY <2>2 DEF NextValue
    <3>3. CASE vs[f]
      <4>1. ~ HoldsIn(vs, Neg(f))
        BY <1>1, <1>2, <3>3 DEF HoldsIn
      <4>2. cols[PrimedLit(Pos(f))] = DL_PROVED
        BY <2>2, <3>1, <4>1
      <4> QED
        BY <1>1, <3>2, <3>3, <4>2
    <3>4. CASE ~ vs[f]
      <4>1. ~ HoldsIn(vs, Pos(f))
        BY <1>1, <1>2, <3>4 DEF HoldsIn
      <4>2. cols[PrimedLit(Pos(f))] # DL_PROVED
        BY <3>1, <4>1
      <4> QED
        BY <1>1, <3>2, <3>4, <4>2
    <3> QED
      BY <3>3, <3>4
  <2> QED
    BY <2>1, <2>2
<1> QED
  BY <1>4, <1>5

-----------------------------------------------------------------------------
(* Strata.                                                                 *)

\* Some member of a finite set has a least part, whatever parts are named.
LEMMA LeastPart ==
  ASSUME NEW S, IsFiniteSet(S), S # {}, NEW part \in [S -> SUBSET S]
  PROVE  \E x \in S : \A y \in S : part[y] \subseteq part[x] => part[y] = part[x]
<1> DEFINE T == {part[x] : x \in S}
<1>1. T \in SUBSET (SUBSET S) /\ T # {}
  OBVIOUS
<1>2. \E X \in T : \A Y \in T : Y \subseteq X => Y = X
  <2> HIDE DEF T
  <2> QED
    BY <1>1, SmallestSet
<1> QED
  BY <1>2

\* A finite set of naturals has its maximum.
LEMMA MaxOfNats ==
  ASSUME NEW S, \A x \in S : x \in Nat, IsFiniteSet(S), S # {}
  PROVE  Max(S) \in S /\ \A y \in S : y <= Max(S)
<1> DEFINE above == [x \in S |-> {y \in S : y > x}]
<1>1. above \in [S -> SUBSET S]
  OBVIOUS
<1>2. PICK x \in S : \A y \in S : above[y] \subseteq above[x] => above[y] = above[x]
  <2> HIDE DEF above
  <2> QED
    BY <1>1, LeastPart
<1>3. ASSUME NEW y \in S PROVE y <= x
  <2>1. x \in Nat /\ y \in Nat /\ \A z \in S : z \in Nat
    OBVIOUS
  <2>2. ASSUME y > x PROVE FALSE
    <3>1. ASSUME NEW z \in above[y] PROVE z \in above[x]
      <4>1. z \in S /\ z > y
        OBVIOUS
      <4> QED
        BY <2>1, <2>2, <4>1
    <3>2. y \in above[x] /\ y \notin above[y]
      BY <2>1, <2>2
    <3> HIDE DEF above
    <3> QED
      BY <1>2, <3>1, <3>2
  <2> QED
    BY <2>1, <2>2
<1>4. Max(S) = CHOOSE z \in S : \A y \in S : z >= y
  BY DEF Max
<1>5. x \in S /\ \A y \in S : x >= y
  BY <1>3
<1>6. Max(S) \in S /\ \A y \in S : Max(S) >= y
  BY <1>4, <1>5
<1> QED
  BY <1>6

\* The strata of some rules of the program.
LEMMA StrataFinite ==
  ASSUME prog \in Programs, NEW W \in SUBSET DOMAIN prog.srules
  PROVE  /\ {0} \cup {prog.srules[s].stratum : s \in W} \in SUBSET Nat
         /\ IsFiniteSet({0} \cup {prog.srules[s].stratum : s \in W})
<1>1. prog.srules \in Seq(StepRule)
  BY ProgramType
<1>2. \A s \in DOMAIN prog.srules : prog.srules[s].stratum \in Nat
  BY ProgramType DEF StepRule
<1>3. IsFiniteSet(DOMAIN prog.srules)
  <2>1. DOMAIN prog.srules = 1 .. Len(prog.srules) /\ Len(prog.srules) \in Nat
    BY <1>1
  <2> QED
    BY <2>1, FS_Interval
<1>4. IsFiniteSet(W)
  BY <1>3, FS_Subset
<1>5. IsFiniteSet({prog.srules[s].stratum : s \in W})
  <2> DEFINE g == [s \in W |-> prog.srules[s].stratum]
  <2>1. g \in [W -> Nat]
    BY <1>2
  <2>2. {prog.srules[s].stratum : s \in W} = {g[s] : s \in W}
    OBVIOUS
  <2> HIDE DEF g
  <2> DEFINE R == {g[s] : s \in W}
  <2>3. g \in Surjection(W, R)
    BY <2>1 DEF Surjection
  <2>4. IsFiniteSet(R)
    <3> HIDE DEF R
    <3> QED
      BY <1>4, <2>3, FS_Surjection
  <2> QED
    BY <2>2, <2>4
<1>6. IsFiniteSet({0})
  BY FS_Singleton
<1>7. IsFiniteSet({0} \cup {prog.srules[s].stratum : s \in W})
  <2> DEFINE R == {prog.srules[s].stratum : s \in W}
  <2>1. IsFiniteSet(R)
    BY <1>5
  <2> HIDE DEF R
  <2>2. IsFiniteSet({0} \cup R)
    BY <1>6, <2>1, FS_Union
  <2> QED
    BY <2>2 DEF R
<1>8. {prog.srules[s].stratum : s \in W} \in SUBSET Nat
  BY <1>2
<1> QED
  BY <1>7, <1>8

\* A number settles in a stratum no writer of it is above; there is a last stratum.
LEMMA Strata ==
  ASSUME prog \in Programs
  PROVE  /\ \A n \in Nums : NumStratum(n) \in Nat
         /\ \A n \in Nums : NumStratum(n) = 0
                \/ \E s \in Writers(n) : NumStratum(n) = prog.srules[s].stratum
         /\ NStrata \in Nat /\ NStrata > 0
         /\ \A s \in DOMAIN prog.srules : prog.srules[s].stratum \in Nat /\ prog.srules[s].stratum < NStrata
<1>1. ASSUME NEW n \in Nums
      PROVE  /\ NumStratum(n) \in Nat
             /\ NumStratum(n) = 0 \/ \E s \in Writers(n) : NumStratum(n) = prog.srules[s].stratum
  <2> DEFINE S == {0} \cup {prog.srules[s].stratum : s \in Writers(n)}
  <2>1. Writers(n) \in SUBSET DOMAIN prog.srules
    BY DEF Writers, Writes
  <2>2. S \in SUBSET Nat /\ IsFiniteSet(S) /\ S # {}
    BY <2>1, StrataFinite
  <2>3. Max(S) \in S
    <3> HIDE DEF S
    <3> QED
      BY <2>2, MaxOfNats
  <2> QED
    BY <2>2, <2>3 DEF NumStratum
<1>2. /\ NStrata \in Nat /\ NStrata > 0
      /\ \A s \in DOMAIN prog.srules : prog.srules[s].stratum \in Nat /\ prog.srules[s].stratum < NStrata
  <2> DEFINE S == {0} \cup {prog.srules[s].stratum : s \in DOMAIN prog.srules}
  <2>1. S \in SUBSET Nat /\ IsFiniteSet(S) /\ S # {}
    BY StrataFinite
  <2>2. Max(S) \in S /\ \A y \in S : y <= Max(S)
    <3> HIDE DEF S
    <3> QED
      BY <2>1, MaxOfNats
  <2>3. NStrata = Max(S) + 1 /\ Max(S) \in Nat
    BY <2>1, <2>2 DEF NStrata
  <2>4. \A s \in DOMAIN prog.srules : prog.srules[s].stratum \in S
    OBVIOUS
  <2>5. ASSUME NEW s \in DOMAIN prog.srules
        PROVE  prog.srules[s].stratum \in Nat /\ prog.srules[s].stratum < NStrata
    <3>1. prog.srules[s].stratum \in S
      BY <2>4
    <3> HIDE DEF S
    <3>2. prog.srules[s].stratum \in Nat /\ prog.srules[s].stratum <= Max(S)
      BY <2>1, <2>2, <3>1
    <3> QED
      BY <2>3, <3>2
  <2>6. NStrata \in Nat /\ NStrata > 0
    BY <2>3
  <2> QED
    BY <2>5, <2>6
<1> QED
  BY <1>1, <1>2

-----------------------------------------------------------------------------
(* Queries.                                                                *)

\* The theory a query solves, with facts F, and its columns.
JudgmentThy(p, F)     == [JudgmentFamily(p) EXCEPT !.facts = F]
JudgmentSccs(p)       == SupportSccs(JudgmentFamily(p))
JudgmentColumns(p, F) == Verdicts(JudgmentThy(p, F), JudgmentSccs(p))

\* The facts of a query: the state and the guards, as far as judgments read them.
QueryFacts(p, vs, ns) == {q \in FluentFacts(vs) \cup GuardFacts(ns) : AtomOf(q) \in JudgmentAtoms(p)}

\* SolveJudgments solves that theory.
LEMMA SolveJudgmentsReading ==
  ASSUME NEW p \in Programs, NEW vs, NEW ns
  PROVE  SolveJudgments(p, vs, ns) = JudgmentColumns(p, QueryFacts(p, vs, ns))
<1>1. JudgmentFamilies[p] = Built(JudgmentFamily(p))
  BY DEF JudgmentFamilies
<1>2. Built(JudgmentFamily(p)).thy = JudgmentFamily(p)
      /\ Built(JudgmentFamily(p)).sccs = SupportSccs(JudgmentFamily(p))
  BY DEF Built
<1> QED
  BY <1>1, <1>2 DEF SolveJudgments, SolveFamily, JudgmentColumns, JudgmentThy, JudgmentSccs, QueryFacts

\* The rules, superiorities and facts of that theory.
LEMMA JudgmentThyReading ==
  ASSUME NEW p \in Programs, NEW F
  PROVE  /\ DOMAIN JudgmentThy(p, F).rules = JudgmentRules(p)
         /\ \A r \in JudgmentRules(p) : JudgmentThy(p, F).rules[r] = FamilyRule(p, r)
         /\ JudgmentThy(p, F).sups = JudgmentSups(p)
         /\ JudgmentThy(p, F).facts = F
BY DEF JudgmentThy, JudgmentFamily

\* It is a theory of literals, with components.
LEMMA JudgmentThyLits ==
  ASSUME NEW p \in Programs, NEW F \in SUBSET Lits
  PROVE  TheoryLits(JudgmentThy(p, F)) /\ AreSccs(JudgmentSccs(p))
<1>1. ASSUME NEW r \in JudgmentRules(p)
      PROVE  FamilyRule(p, r).body \subseteq Lits /\ FamilyRule(p, r).head \in Lits
  <2>1. PICK j \in DOMAIN p.jrules : r = <<"judgment", j>>
    BY DEF JudgmentRules
  <2> QED
    BY <2>1, ProgramType, FamilyRules DEF Rule
<1>2. AreSccs(JudgmentSccs(p))
  BY SccsType DEF AreSccs, JudgmentSccs
<1> QED
  BY <1>1, <1>2, JudgmentThyReading DEF TheoryLits

\* The facts of a query are literals.
LEMMA QueryFactsLits ==
  ASSUME NEW p, NEW vs \in [Fluents -> BOOLEAN], NEW ns
  PROVE  QueryFacts(p, vs, ns) \in SUBSET Lits
<1>1. FactsOK(vs, {}, {})
  BY DEF FactsOK
<1>2. StepFacts(vs, ns, {}, {}) \subseteq Lits
  BY <1>1, FactsByPart
<1> QED
  BY <1>2 DEF QueryFacts, StepFacts

\* A query answers with a verdict.
LEMMA QueryType ==
  ASSUME NEW p \in Programs, NEW vs \in [Fluents -> BOOLEAN], NEW ns, NEW q \in Lits
  PROVE  Query(p, vs, ns, q) \in Verdict
<1> DEFINE F == QueryFacts(p, vs, ns)
<1>1. F \in SUBSET Lits
  BY QueryFactsLits
<1> HIDE DEF F
<1>2. TheoryLits(JudgmentThy(p, F)) /\ AreSccs(JudgmentSccs(p))
  BY <1>1, JudgmentThyLits
<1>3. JudgmentColumns(p, F) \in Status
  BY <1>2, SolvedLayers DEF JudgmentColumns, PartFine
<1>4. SolveJudgments(p, vs, ns)[q] \in Verdict
  BY <1>3, SolveJudgmentsReading DEF F, Status
<1>5. \A b : HoldsVerdict(q, b) \in Verdict
  BY DEF HoldsVerdict, Verdict
<1> QED
  BY <1>4, <1>5 DEF Query, Verdict

-----------------------------------------------------------------------------
(* The inductive invariant.                                                *)

SubRecord == [lit : SubLits, last : Verdict, live : BOOLEAN]

\* The part of the state a host sees.
WorldType ==
  /\ prog \in Programs
  /\ vals \in [Fluents -> BOOLEAN]
  /\ pc \in {"idle", "strata"}
  /\ subs \in Seq(SubRecord)

\* The primed guards of the numbers settled below stratum k, as facts.
SettledGuards(k) == {g \in DOMAIN PGuards : NumStratum(PGuards[g].num) < k}
GuardTruth(g)    == Compare(PGuards[g].op, nextnum[PGuards[g].num], PGuards[g].thr)
MintedBelow(k)   == {IF GuardTruth(g) THEN Pos(g) ELSE Neg(g) : g \in SettledGuards(k)}

\* Within a step: the world is still the one it found, and the last solve was made
\* with the guards of the strata below it.
StepInv ==
  pc = "strata" =>
    /\ Store = pre
    /\ rc = "none"
    /\ emitbuf = {} /\ bdelta = {} /\ ndelta = {} /\ sedge = {}
    /\ split = CurSplit(prog, vals)
    /\ st \in Nat
    /\ ActSet \subseteq Actions
    /\ DOMAIN pg = SettledGuards(st)
    /\ \A g \in SettledGuards(st) : pg[g] = GuardTruth(g)
    /\ st > 0 => solved = Columns(prog, split, StepFacts(vals, nums, ActSet, MintedBelow(st - 1)))

WorldInv == WorldType /\ StepInv

\* What a step is solved with is as it should be.
LEMMA MintedOK ==
  ASSUME WorldType, NEW k, ActSet \subseteq Actions
  PROVE  FactsOK(vals, ActSet, MintedBelow(k))
<1>1. ASSUME NEW q \in MintedBelow(k) PROVE q \in PGuardLits
  <2>1. PICK g \in SettledGuards(k) : q = IF GuardTruth(g) THEN Pos(g) ELSE Neg(g)
    BY DEF MintedBelow
  <2>2. g \in DOMAIN PGuards
    BY DEF SettledGuards
  <2> QED
    BY <2>1, <2>2 DEF PGuardLits
<1> QED
  BY <1>1 DEF FactsOK, WorldType

\* The invariant holds at first.
LEMMA WorldInvInit == Init => WorldInv
<1> SUFFICES ASSUME Init PROVE WorldInv
  OBVIOUS
<1>1. prog \in Programs /\ pc = "idle" /\ subs = <<>>
  BY DEF Init
<1>2. vals \in [Fluents -> BOOLEAN]
  <2>1. PICK s \in Stores(prog) : vals = s[1] /\ nums = s[2]
    BY DEF Init
  <2>2. s \in [Fluents -> BOOLEAN] \X [Nums -> Int]
    BY <1>1, HostAssumption
  <2> QED
    BY <2>1, <2>2
<1>3. subs \in Seq(SubRecord)
  BY <1>1
<1> QED
  BY <1>1, <1>2, <1>3 DEF WorldInv, WorldType, StepInv

\* A call of the host between steps keeps it.
LEMMA HostCalls ==
  ASSUME WorldInv,
         \/ \E f \in HostFluents, b \in BOOLEAN : SetFluent(f, b)
         \/ \E n \in Nums, v \in HostEdits : SetNum(n, v)
         \/ \E q \in SubLits : Subscribe(q)
         \/ \E h \in DOMAIN subs : Unsubscribe(h)
         \/ \E as \in ActionSeqs : RefuseStep(as)
  PROVE  WorldInv' /\ rc' # "ok" /\ pc' = "idle"
<1> USE DEF WorldInv
<1>1. ASSUME NEW f \in HostFluents, NEW b \in BOOLEAN, SetFluent(f, b)
      PROVE  WorldInv' /\ rc' # "ok" /\ pc' = "idle"
  BY <1>1 DEF SetFluent, WorldType, StepInv
<1>2. ASSUME NEW n \in Nums, NEW v \in HostEdits, SetNum(n, v)
      PROVE  WorldInv' /\ rc' # "ok" /\ pc' = "idle"
  BY <1>2 DEF SetNum, WorldType, StepInv
<1>3. ASSUME NEW q \in SubLits, Subscribe(q)
      PROVE  WorldInv' /\ rc' # "ok" /\ pc' = "idle"
  <2> DEFINE r == [lit |-> q, last |-> Query(prog, vals, nums, q), live |-> TRUE]
  <2>1. r \in SubRecord
    BY HostAssumption, QueryType DEF WorldType, SubRecord
  <2>2. subs' = Append(subs, r)
    BY <1>3 DEF Subscribe
  <2> HIDE DEF r
  <2>3. subs' \in Seq(SubRecord)
    BY <2>1, <2>2 DEF WorldType
  <2> QED
    BY <1>3, <2>3 DEF Subscribe, WorldType, StepInv
<1>4. ASSUME NEW h \in DOMAIN subs, Unsubscribe(h)
      PROVE  WorldInv' /\ rc' # "ok" /\ pc' = "idle"
  <2>1. [subs[h] EXCEPT !.live = FALSE] \in SubRecord
    <3>1. subs[h] \in SubRecord
      BY DEF WorldType
    <3> QED
      BY <3>1 DEF SubRecord
  <2>2. subs' = [subs EXCEPT ![h] = [subs[h] EXCEPT !.live = FALSE]]
    BY <1>4 DEF Unsubscribe
  <2>3. subs' \in Seq(SubRecord)
    <3>1. subs \in [1 .. Len(subs) -> SubRecord] /\ Len(subs) \in Nat /\ DOMAIN subs = 1 .. Len(subs)
      BY DEF WorldType
    <3>2. subs' \in [1 .. Len(subs) -> SubRecord]
      BY <2>1, <2>2, <3>1
    <3> QED
      BY <3>1, <3>2
  <2> QED
    BY <1>4, <2>3 DEF Unsubscribe, WorldType, StepInv
<1>5. ASSUME NEW as \in ActionSeqs, RefuseStep(as)
      PROVE  WorldInv' /\ rc' # "ok" /\ pc' = "idle"
  BY <1>5 DEF RefuseStep, world, WorldType, StepInv
<1> QED
  BY <1>1, <1>2, <1>3, <1>4, <1>5

\* The elements of a sequence.
LEMMA SeqElements ==
  ASSUME NEW S, NEW s \in Seq(S), NEW k \in DOMAIN s
  PROVE  s[k] \in S
OBVIOUS

\* A step begins in the world it found, with nothing minted.
LEMMA BeginKeeps ==
  ASSUME WorldInv, NEW as \in ActionSeqs, BeginStep(as)
  PROVE  WorldInv' /\ rc' # "ok"
<1> USE DEF WorldInv
<1>1. /\ pre' = Store /\ acts' = as /\ split' = CurSplit(prog, vals) /\ st' = 0 /\ pg' = <<>>
      /\ pc' = "strata" /\ rc' = "none" /\ UNCHANGED world
      /\ emitbuf' = {} /\ bdelta' = {} /\ ndelta' = {} /\ sedge' = {}
  BY DEF BeginStep, ClearReport
<1>2. WorldType'
  BY <1>1 DEF WorldType, world
<1>3. Store' = pre' /\ split' = CurSplit(prog', vals')
  BY <1>1 DEF Store, world
<1>4. ActSet' \subseteq Actions
  <2>1. as \in Seq(Actions)
    BY HostAssumption
  <2>2. ASSUME NEW k \in DOMAIN as PROVE as[k] \in Actions
    BY <2>1, SeqElements
  <2> QED
    BY <1>1, <2>2 DEF ActSet
<1>5. \A n \in Nums : NumStratum(n)' \in Nat
  <2>1. prog' = prog
    BY <1>1 DEF world
  <2>2. \A n \in Nums : NumStratum(n)' = NumStratum(n)
    BY <2>1 DEF NumStratum, Writers, Writes
  <2>3. \A n \in Nums : NumStratum(n) \in Nat
    BY Strata DEF WorldType
  <2> QED
    BY <2>2, <2>3
<1>6. SettledGuards(0)' = {}
  BY <1>5, RuleAssumption DEF SettledGuards
<1>7. DOMAIN pg' = {}
  BY <1>1
<1>8. DOMAIN pg' = SettledGuards(st)' /\ \A g \in SettledGuards(st)' : pg'[g] = GuardTruth(g)'
  <2>1. SettledGuards(st)' = SettledGuards(0)'
    BY <1>1 DEF SettledGuards
  <2> QED
    BY <1>6, <1>7, <2>1
<1> QED
  BY <1>1, <1>2, <1>3, <1>4, <1>8 DEF StepInv

\* The minted guards of a step as the facts they are.
LEMMA MintedReading ==
  ASSUME DOMAIN pg = SettledGuards(st), \A g \in SettledGuards(st) : pg[g] = GuardTruth(g)
  PROVE  MintedFacts(pg) = MintedBelow(st)
BY DEF MintedFacts, MintedBelow

\* The solve of the present stratum.
LEMMA SolveNowReading ==
  ASSUME WorldInv, pc = "strata"
  PROVE  SolveNow = Columns(prog, split, StepFacts(vals, nums, ActSet, MintedBelow(st)))
<1>1. split \in prog.splits \cup {NoSplit}
  BY CurSplitReading DEF WorldInv, WorldType, StepInv
<1>2. MintedFacts(pg) = MintedBelow(st)
  BY MintedReading DEF WorldInv, StepInv
<1> QED
  BY <1>1, <1>2, SolveStepReading DEF SolveNow, WorldInv, WorldType

\* A stratum mints the guards of the numbers it settles; those below keep theirs.
LEMMA SettleKeeps ==
  ASSUME WorldInv, SettleStratum
  PROVE  WorldInv' /\ rc' # "ok"
<1> USE DEF WorldInv
<1>1. /\ pc = "strata" /\ pc' = pc /\ st' = st + 1 /\ UNCHANGED <<world, acts, split, report, rc, pre>>
      /\ solved' = SolveNow
  BY DEF SettleStratum
<1>2. \A n \in Nums \ Owned : nextnum'[n] = nextnum[n]
  <2>1. PICK s \in {SolveNow}, acc \in {[n \in Owned |-> Accumulate(n, SolveNow)]} :
          nextnum' = [n \in Nums |-> IF n \notin Owned THEN nextnum[n]
                                     ELSE IF n \in CopiedThrough THEN nums[n]
                                     ELSE Commit(n, acc[n])]
    BY DEF SettleStratum
  <2> QED
    BY <2>1
<1>3. pg' = [g \in DOMAIN pg \cup {x \in DOMAIN PGuards : PGuards[x].num \in Owned} |->
              IF g \in DOMAIN pg THEN pg[g]
              ELSE Compare(PGuards[g].op, nextnum'[PGuards[g].num], PGuards[g].thr)]
  BY DEF SettleStratum
<1>4. WorldType'
  BY <1>1 DEF WorldType, world
<1>5. \A n \in Nums : NumStratum(n) \in Nat /\ NumStratum(n)' = NumStratum(n)
  BY <1>1, Strata DEF NumStratum, Writers, Writes, world, WorldType
<1>6. st \in Nat /\ DOMAIN pg = SettledGuards(st) /\ \A g \in SettledGuards(st) : pg[g] = GuardTruth(g)
  BY <1>1 DEF StepInv
<1>7. SettledGuards(st)' = SettledGuards(st) \cup {x \in DOMAIN PGuards : PGuards[x].num \in Owned}
  <2>1. ASSUME NEW x \in DOMAIN PGuards
        PROVE  NumStratum(PGuards[x].num)' < st' <=> NumStratum(PGuards[x].num) < st \/ PGuards[x].num \in Owned
    <3>1. PGuards[x].num \in Nums
      BY RuleAssumption
    <3> QED
      BY <1>1, <1>5, <1>6, <3>1 DEF Owned
  <2> QED
    BY <2>1 DEF SettledGuards
<1>8. \A g \in SettledGuards(st) : PGuards[g].num \notin Owned /\ GuardTruth(g)' = GuardTruth(g)
  <2> SUFFICES ASSUME NEW g \in SettledGuards(st)
               PROVE  PGuards[g].num \notin Owned /\ GuardTruth(g)' = GuardTruth(g)
    OBVIOUS
  <2>1. PGuards[g].num \in Nums /\ NumStratum(PGuards[g].num) < st
    BY RuleAssumption DEF SettledGuards
  <2>2. PGuards[g].num \notin Owned
    BY <1>5, <1>6, <2>1 DEF Owned
  <2> QED
    BY <1>2, <2>1, <2>2 DEF GuardTruth
<1>9. DOMAIN pg' = SettledGuards(st)'
  BY <1>3, <1>6, <1>7
<1>10. ASSUME NEW g \in SettledGuards(st)' PROVE pg'[g] = GuardTruth(g)'
  <2>1. pg'[g] = IF g \in DOMAIN pg THEN pg[g]
                ELSE Compare(PGuards[g].op, nextnum'[PGuards[g].num], PGuards[g].thr)
    BY <1>3, <1>6, <1>7
  <2> QED
    BY <1>6, <1>8, <2>1 DEF GuardTruth
<1>11. solved' = Columns(prog', split', StepFacts(vals', nums', ActSet', MintedBelow(st - 1)'))
  <2>1. solved' = Columns(prog, split, StepFacts(vals, nums, ActSet, MintedBelow(st)))
    BY <1>1, SolveNowReading
  <2>2. SettledGuards(st - 1)' = SettledGuards(st)
    <3>1. st' - 1 = st
      BY <1>1, <1>6
    <3>2. \A x \in DOMAIN PGuards : NumStratum(PGuards[x].num)' = NumStratum(PGuards[x].num)
      BY <1>5, RuleAssumption
    <3> QED
      BY <3>1, <3>2 DEF SettledGuards
  <2>3. MintedBelow(st - 1)' = MintedBelow(st)
    BY <1>8, <2>2 DEF MintedBelow
  <2>4. ActSet' = ActSet /\ prog' = prog /\ split' = split /\ vals' = vals /\ nums' = nums
    BY <1>1 DEF ActSet, world
  <2> QED
    BY <2>1, <2>3, <2>4
<1>12. Store' = pre' /\ split' = CurSplit(prog', vals') /\ ActSet' \subseteq Actions
  BY <1>1 DEF StepInv, Store, world, ActSet
<1> QED
  BY <1>1, <1>4, <1>6, <1>9, <1>10, <1>11, <1>12 DEF StepInv, report

\* A rejected step hands back the world it found.
LEMMA RejectedKeeps ==
  ASSUME WorldInv, ContestedNumber \/ ContestedFluent
  PROVE  WorldInv' /\ rc' # "ok"
BY DEF WorldInv, WorldType, StepInv, ContestedNumber, ContestedFluent, world

\* The subscriptions stay typed when they are re-read.
LEMMA RefreshedType ==
  ASSUME WorldType, NEW v \in [Fluents -> BOOLEAN], NEW n
  PROVE  /\ Refreshed(v, n) \in Seq(SubRecord) /\ DOMAIN Refreshed(v, n) = DOMAIN subs
         /\ \A h \in DOMAIN subs :
              /\ Refreshed(v, n)[h].lit = subs[h].lit /\ Refreshed(v, n)[h].live = subs[h].live
              /\ subs[h].live => Refreshed(v, n)[h].last = Query(prog, v, n, subs[h].lit)
              /\ ~ subs[h].live => Refreshed(v, n)[h].last = subs[h].last
<1>1. subs \in [1 .. Len(subs) -> SubRecord] /\ Len(subs) \in Nat /\ DOMAIN subs = 1 .. Len(subs)
  BY DEF WorldType
<1>2. ASSUME NEW h \in DOMAIN subs
      PROVE  /\ Refreshed(v, n)[h] \in SubRecord
             /\ Refreshed(v, n)[h].lit = subs[h].lit /\ Refreshed(v, n)[h].live = subs[h].live
             /\ subs[h].live => Refreshed(v, n)[h].last = Query(prog, v, n, subs[h].lit)
             /\ ~ subs[h].live => Refreshed(v, n)[h].last = subs[h].last
  <2> DEFINE r == subs[h]
  <2>1. r \in SubRecord
    BY <1>1
  <2>2. Query(prog, v, n, r.lit) \in Verdict
    BY <2>1, HostAssumption, QueryType DEF SubRecord, WorldType
  <2>3. Refreshed(v, n)[h] = IF r.live THEN [r EXCEPT !.last = Query(prog, v, n, r.lit)] ELSE r
    BY DEF Refreshed
  <2> HIDE DEF r
  <2>4. [r EXCEPT !.last = Query(prog, v, n, r.lit)]
          = [lit |-> r.lit, last |-> Query(prog, v, n, r.lit), live |-> r.live]
    BY <2>1 DEF SubRecord
  <2>5. r.live \in BOOLEAN /\ r.lit \in SubLits
    BY <2>1 DEF SubRecord
  <2>6. CASE r.live
    <3>1. Refreshed(v, n)[h] = [lit |-> r.lit, last |-> Query(prog, v, n, r.lit), live |-> r.live]
      BY <2>3, <2>4, <2>6
    <3>2. Refreshed(v, n)[h] \in SubRecord
      BY <2>2, <2>5, <3>1 DEF SubRecord
    <3> QED
      BY <2>6, <3>1, <3>2 DEF r
  <2>7. CASE ~ r.live
    <3>1. Refreshed(v, n)[h] = r
      BY <2>3, <2>7
    <3> QED
      BY <2>1, <2>7, <3>1 DEF r
  <2> QED
    BY <2>5, <2>6, <2>7
<1>3. DOMAIN Refreshed(v, n) = DOMAIN subs
  BY DEF Refreshed
<1>4. Refreshed(v, n) \in [1 .. Len(subs) -> SubRecord]
  <2>1. Refreshed(v, n) = [h \in DOMAIN subs |-> Refreshed(v, n)[h]]
    BY DEF Refreshed
  <2> QED
    BY <1>1, <1>2, <2>1
<1>5. Refreshed(v, n) \in Seq(SubRecord)
  BY <1>1, <1>4
<1> QED
  BY <1>2, <1>3, <1>5

\* A commit leaves a typed world.
LEMMA CommitKeeps ==
  ASSUME WorldInv, CommitStep
  PROVE  WorldInv'
<1> USE DEF WorldInv
<1>1. pc' = "idle" /\ prog' = prog /\ vals' = NextVals /\ subs' = Refreshed(vals', nextnum)
  BY DEF CommitStep
<1>2. NextVals \in [Fluents -> BOOLEAN]
  <2>1. \A f \in Fluents : NextProved(f, TRUE) \in BOOLEAN /\ vals[f] \in BOOLEAN
    BY DEF NextProved, WorldType
  <2> QED
    BY <2>1 DEF NextVals
<1>3. subs' \in Seq(SubRecord)
  BY <1>1, <1>2, RefreshedType
<1> QED
  BY <1>1, <1>2, <1>3 DEF WorldType, StepInv

\* Every step keeps the invariant, and only a commit reports success.
LEMMA WorldInvStep ==
  ASSUME WorldInv, [Next]_vars
  PROVE  WorldInv' /\ (CommitStep \/ UNCHANGED vars \/ rc' # "ok")
<1>1. CASE UNCHANGED vars
  <2>1. /\ UNCHANGED <<prog, vals, nums, tick, subs, pc, acts, split, st, pg, nextnum, solved>>
        /\ UNCHANGED <<emitbuf, bdelta, ndelta, sedge, rc, pre>>
    BY <1>1 DEF vars, world, call, report
  <2>2. \A k : MintedBelow(k)' = MintedBelow(k)
    BY <2>1 DEF MintedBelow, SettledGuards, GuardTruth, NumStratum, Writers, Writes
  <2>3. WorldType'
    BY <2>1 DEF WorldInv, WorldType
  <2>4. SettledGuards(st)' = SettledGuards(st) /\ \A g : GuardTruth(g)' = GuardTruth(g)
    BY <2>1 DEF SettledGuards, GuardTruth, NumStratum, Writers, Writes
  <2>5. Store' = Store /\ ActSet' = ActSet /\ MintedBelow(st - 1)' = MintedBelow(st - 1)
    BY <2>1 DEF Store, ActSet, MintedBelow, SettledGuards, GuardTruth, NumStratum, Writers, Writes
  <2>6. StepInv'
    BY <2>1, <2>4, <2>5 DEF WorldInv, StepInv
  <2> QED
    BY <1>1, <2>3, <2>6 DEF WorldInv
<1>2. CASE Next
  <2>1. CASE \E as \in ActionSeqs : BeginStep(as)
    BY <2>1, BeginKeeps
  <2>2. CASE SettleStratum
    BY <2>2, SettleKeeps
  <2>3. CASE ContestedNumber \/ ContestedFluent
    BY <2>3, RejectedKeeps
  <2>4. CASE CommitStep
    BY <2>4, CommitKeeps
  <2>5. CASE \/ \E f \in HostFluents, b \in BOOLEAN : SetFluent(f, b)
             \/ \E n \in Nums, v \in HostEdits : SetNum(n, v)
             \/ \E q \in SubLits : Subscribe(q)
             \/ \E h \in DOMAIN subs : Unsubscribe(h)
             \/ \E as \in ActionSeqs : RefuseStep(as)
    BY <2>5, HostCalls
  <2> QED
    BY <1>2, <2>1, <2>2, <2>3, <2>4, <2>5 DEF Next, Host, Running
<1> QED
  BY <1>1, <1>2

-----------------------------------------------------------------------------
(* What every step keeps, reports and reads.                               *)

\* The world's types and the state of a step under way: the solve of a stratum is
\* that of the world the step found, with the guards of the strata below.
THEOREM StepsAreSolves == Spec => []WorldInv
<1>1. WorldInv /\ [Next]_vars => WorldInv'
  BY WorldInvStep
<1> QED
  BY <1>1, WorldInvInit, PTL DEF Spec

\* (RejectedStepChangesNothing) A step that returns -1 left the world it found and
\* reports nothing, for every program and every submission.
THEOREM RejectionIsInert == Spec => []RejectedStepChangesNothing
<1>1. Init => RejectedStepChangesNothing
  BY DEF Init, RejectedStepChangesNothing
<1>2. ASSUME WorldInv, RejectedStepChangesNothing, [Next]_vars PROVE RejectedStepChangesNothing'
  <2>1. CASE UNCHANGED vars
    BY <1>2, <2>1 DEF RejectedStepChangesNothing, vars, world, report, Store
  <2>2. CASE Next
    <3>1. CASE \E as \in ActionSeqs : RefuseStep(as)
      BY <3>1 DEF RefuseStep, ClearReport, RejectedStepChangesNothing, Store, world
    <3>2. CASE ContestedNumber \/ ContestedFluent
      BY <1>2, <3>2 DEF ContestedNumber, ContestedFluent, RejectedStepChangesNothing, WorldInv,
           StepInv, Store, world, report
    <3>3. CASE SettleStratum
      BY <3>3 DEF SettleStratum, RejectedStepChangesNothing
    <3>4. CASE \/ \E f \in HostFluents, b \in BOOLEAN : SetFluent(f, b)
               \/ \E n \in Nums, v \in HostEdits : SetNum(n, v)
               \/ \E q \in SubLits : Subscribe(q)
               \/ \E h \in DOMAIN subs : Unsubscribe(h)
               \/ \E as \in ActionSeqs : BeginStep(as)
               \/ CommitStep
      BY <3>4 DEF SetFluent, SetNum, Subscribe, Unsubscribe, BeginStep, CommitStep,
           RejectedStepChangesNothing
    <3> QED
      BY <2>2, <3>1, <3>2, <3>3, <3>4 DEF Next, Host, Running
  <2> QED
    BY <1>2, <2>1, <2>2
<1>3. WorldInv /\ [Next]_vars => WorldInv'
  BY WorldInvStep
<1> QED
  BY <1>1, <1>2, <1>3, WorldInvInit, PTL DEF Spec

\* A commit re-reads every live subscription in the state it stores, and reports
\* the flips since the levels it found.
LEMMA CommitSubscribes ==
  ASSUME WorldInv, CommitStep
  PROVE  SubscriptionsFollowTheState'
<1>1. /\ pc = "strata" /\ prog' = prog /\ vals' = NextVals /\ nums' = nextnum
      /\ subs' = Refreshed(vals', nextnum) /\ sedge' = Edges(subs, subs') /\ pre' = pre
  BY DEF CommitStep
<1>2. WorldType /\ pre.subs = subs
  BY <1>1 DEF WorldInv, StepInv, Store
<1>3. vals' \in [Fluents -> BOOLEAN]
  BY CommitKeeps DEF WorldInv, WorldType
<1>4. /\ DOMAIN subs' = DOMAIN subs
      /\ \A h \in DOMAIN subs :
           /\ subs'[h].lit = subs[h].lit /\ subs'[h].live = subs[h].live
           /\ subs[h].live => subs'[h].last = Query(prog, vals', nextnum, subs[h].lit)
           /\ ~ subs[h].live => subs'[h].last = subs[h].last
  <2> DEFINE w == vals'
  <2>1. w \in [Fluents -> BOOLEAN]
    BY <1>3
  <2>2. subs' = Refreshed(w, nextnum)
    BY <1>1
  <2> HIDE DEF w
  <2>3. /\ DOMAIN subs' = DOMAIN subs
        /\ \A h \in DOMAIN subs :
             /\ subs'[h].lit = subs[h].lit /\ subs'[h].live = subs[h].live
             /\ subs[h].live => subs'[h].last = Query(prog, w, nextnum, subs[h].lit)
             /\ ~ subs[h].live => subs'[h].last = subs[h].last
    BY <1>2, <2>1, <2>2, RefreshedType
  <2> QED
    BY <2>3 DEF w
<1>5. sedge' = {<<h, subs[h].last, subs'[h].last>> : h \in {x \in DOMAIN subs : subs[x].last # subs'[x].last}}
  BY <1>1 DEF Edges
<1> QED
  BY <1>1, <1>2, <1>4, <1>5 DEF SubscriptionsFollowTheState

\* (SubscriptionsFollowTheState) After every committed step each live subscription
\* holds the verdict of the committed state, and the edges are the flips.
THEOREM SubscriptionsFollow == Spec => []SubscriptionsFollowTheState
<1>1. Init => SubscriptionsFollowTheState
  BY DEF Init, SubscriptionsFollowTheState, Committed
<1>2. ASSUME WorldInv, SubscriptionsFollowTheState, [Next]_vars PROVE SubscriptionsFollowTheState'
  <2>1. CASE UNCHANGED vars
    BY <1>2, <2>1 DEF SubscriptionsFollowTheState, Committed, vars, world, report
  <2>2. CASE CommitStep
    BY <1>2, <2>2, CommitSubscribes
  <2>3. CASE rc' # "ok"
    BY <2>3 DEF SubscriptionsFollowTheState, Committed
  <2> QED
    BY <1>2, <2>1, <2>2, <2>3, WorldInvStep
<1>3. WorldInv /\ [Next]_vars => WorldInv'
  BY WorldInvStep
<1> QED
  BY <1>1, <1>2, <1>3, WorldInvInit, PTL DEF Spec

\* What a commit stores, in terms of the last solve.
LEMMA CommitReading ==
  ASSUME WorldInv, CommitStep
  PROVE  /\ prog \in Programs /\ NStrata > 0
         /\ FactsOK(vals, ActSet, MintedBelow(NStrata - 1))
         /\ solved = Columns(prog, CurSplit(prog, vals), StepFacts(vals, nums, ActSet, MintedBelow(NStrata - 1)))
         /\ vals' = [f \in Fluents |-> NextValue(prog, CurSplit(prog, vals), vals, solved, f)]
         /\ \A f \in WriteSet(prog, CurSplit(prog, vals)) :
              solved[PrimedLit(Pos(f))] = DL_PROVED \/ solved[PrimedLit(Neg(f))] = DL_PROVED
         /\ nums' = nextnum /\ pre' = pre /\ pre.vals = vals /\ pre.nums = nums
         /\ prog' = prog /\ solved' = solved /\ acts' = acts /\ ActSet' = ActSet
<1>1. /\ pc = "strata" /\ st = NStrata /\ Contested = {} /\ vals' = NextVals /\ nums' = nextnum
      /\ pre' = pre /\ prog' = prog /\ solved' = solved /\ acts' = acts
  BY DEF CommitStep, call
<1>2. prog \in Programs /\ NStrata > 0
  BY Strata DEF WorldInv, WorldType
<1>3. /\ Store = pre /\ split = CurSplit(prog, vals) /\ ActSet \subseteq Actions
      /\ solved = Columns(prog, split, StepFacts(vals, nums, ActSet, MintedBelow(NStrata - 1)))
  BY <1>1, <1>2 DEF WorldInv, StepInv
<1>4. FactsOK(vals, ActSet, MintedBelow(NStrata - 1))
  BY <1>3, MintedOK DEF WorldInv
<1>5. vals' = [f \in Fluents |-> NextValue(prog, CurSplit(prog, vals), vals, solved, f)]
  <2>1. \A f \in Fluents : NextProved(f, TRUE) = (solved[PrimedLit(Pos(f))] = DL_PROVED)
    BY DEF NextProved
  <2> QED
    BY <1>1, <1>3, <2>1 DEF NextVals, NextValue
<1>6. \A f \in WriteSet(prog, CurSplit(prog, vals)) :
        solved[PrimedLit(Pos(f))] = DL_PROVED \/ solved[PrimedLit(Neg(f))] = DL_PROVED
  BY <1>1, <1>3 DEF Contested, NextProved
<1>7. ActSet' = ActSet
  BY <1>1 DEF ActSet
<1> QED
  BY <1>1, <1>2, <1>3, <1>4, <1>5, <1>6, <1>7 DEF Store

\* A commit establishes what it owes about the fluents.
LEMMA CommitFluents ==
  ASSUME WorldInv, CommitStep, Separate(prog)
  PROVE  FluentsFollowTheFirings'
<1> DEFINE v == CurSplit(prog, vals)
           M == MintedBelow(NStrata - 1)
<1>1. /\ prog \in Programs /\ FactsOK(vals, ActSet, M)
      /\ solved = Columns(prog, v, StepFacts(vals, nums, ActSet, M))
      /\ \A f \in Fluents : vals'[f] = NextValue(prog, v, vals, solved, f)
      /\ \A f \in WriteSet(prog, v) :
           solved[PrimedLit(Pos(f))] = DL_PROVED \/ solved[PrimedLit(Neg(f))] = DL_PROVED
  BY CommitReading
<1>2. pre'.vals = vals /\ prog' = prog /\ solved' = solved /\ ActSet' = ActSet
  BY CommitReading
<1> HIDE DEF M
<1>3. ASSUME NEW f \in Fluents
      PROVE  /\ \A s \in DOMAIN prog.srules : \A e \in prog.srules[s].effects :
                  RuleFired(prog.srules[s], ActSet, solved) /\ AtomOf(e) = f => vals'[f] # IsNeg(e)
             /\ (\A s \in DOMAIN prog.srules : \A e \in prog.srules[s].effects :
                  ~ (RuleFired(prog.srules[s], ActSet, solved) /\ AtomOf(e) = f))
                    => vals'[f] = vals[f]
  BY <1>1, NextFluent
<1>4. \A s : Fired(s)' <=> RuleFired(prog.srules[s], ActSet, solved)
  BY <1>2 DEF Fired, FiredUnder
<1>5. \A f \in Fluents :
        LET said == {q \in UNION {prog.srules[s].effects :
                                    s \in {x \in DOMAIN prog.srules : RuleFired(prog.srules[x], ActSet, solved)}} :
                       AtomOf(q) = f}
        IN  /\ \A q \in said : vals'[f] # IsNeg(q)
            /\ said = {} => vals'[f] = vals[f]
  BY <1>3
<1> QED
  BY <1>2, <1>4, <1>5 DEF FluentsFollowTheFirings

\* (FluentsFollowTheFirings) A committed fluent is what the effects of the rules
\* that fired say, and its old value when none speaks of it: inertia and effects
\* neither lose nor invent a value, whatever the judgments, the split and the strata.
THEOREM FluentsFollow == Spec => [](Separate(prog) => FluentsFollowTheFirings)
<1> DEFINE P == Separate(prog) => FluentsFollowTheFirings
<1>1. Init => P
  BY DEF Init, FluentsFollowTheFirings, Committed
<1>2. ASSUME WorldInv, P, [Next]_vars PROVE P'
  <2>1. CASE UNCHANGED vars
    <3>1. prog' = prog /\ vals' = vals /\ solved' = solved /\ pre' = pre /\ rc' = rc /\ ActSet' = ActSet
      BY <2>1 DEF vars, world, call, ActSet
    <3>2. \A s : Fired(s)' <=> Fired(s)
      BY <3>1 DEF Fired, FiredUnder
    <3> QED
      BY <1>2, <3>1, <3>2 DEF FluentsFollowTheFirings, Committed
  <2>2. CASE CommitStep
    <3>1. prog' = prog
      BY <2>2 DEF CommitStep
    <3> QED
      BY <1>2, <2>2, <3>1, CommitFluents
  <2>3. CASE rc' # "ok"
    BY <2>3 DEF FluentsFollowTheFirings, Committed
  <2> QED
    BY <1>2, <2>1, <2>2, <2>3, WorldInvStep
<1>3. WorldInv /\ [Next]_vars => WorldInv'
  BY WorldInvStep
<1> QED
  BY <1>1, <1>2, <1>3, WorldInvInit, PTL DEF Spec

\* A minted guard's column is its truth.
LEMMA MintedColumn ==
  ASSUME NEW p \in Programs, Separate(p), NEW v, NEW vs, NEW ns, NEW as, NEW M, FactsOK(vs, as, M),
         NEW q \in M, Compl(q) \notin M
  PROVE  /\ Columns(p, v, StepFacts(vs, ns, as, M))[q] = DL_PROVED
         /\ Columns(p, v, StepFacts(vs, ns, as, M))[Compl(q)] # DL_PROVED
<1> DEFINE F == StepFacts(vs, ns, as, M)
<1>1. F \in SUBSET Lits /\ q \in F
  BY FactsByPart DEF StepFacts
<1>2. AtomOf(q) \in DOMAIN PGuards /\ AtomOf(Compl(q)) = AtomOf(q) /\ Compl(q) \in Lits
  BY <1>1, FactsByPart, ComplAtom, ComplLits
<1>3. AtomOf(q) \notin Fluents /\ AtomOf(q) \notin Actions /\ AtomOf(q) \notin DOMAIN Guards
      /\ AtomOf(q) \notin ConcludedStrictly(p)
  BY <1>2, SeparateReading
<1>4. /\ \A y \in FluentFacts(vs) : AtomOf(y) \in Fluents
      /\ \A b \in as : AtomOf(Pos(b)) \in Actions
      /\ \A y \in GuardFacts(ns) : AtomOf(y) \in DOMAIN Guards
  BY FactsByPart
<1>5. Compl(q) \notin F
  <2>1. Compl(q) \notin FluentFacts(vs) /\ Compl(q) \notin {Pos(b) : b \in as} /\ Compl(q) \notin GuardFacts(ns)
    BY <1>2, <1>3, <1>4
  <2> QED
    BY <2>1 DEF StepFacts
<1> HIDE DEF F
<1>6. Columns(p, v, F)[q] = DL_PROVED /\ Columns(p, v, F)[Compl(q)] # DL_PROVED
  BY <1>1, <1>3, <1>5, DecidedColumn
<1> QED
  BY <1>6 DEF F

\* A column no fact decides and no judgment concludes is not proved: nothing else is
\* about a guard.
LEMMA OpenGuard ==
  ASSUME NEW p \in Programs, Separate(p), NEW v, NEW vs, NEW ns, NEW as, NEW M, FactsOK(vs, as, M),
         NEW q \in Lits, AtomOf(q) \in DOMAIN PGuards, q \notin M
  PROVE  Columns(p, v, StepFacts(vs, ns, as, M))[q] # DL_PROVED
<1> DEFINE F == StepFacts(vs, ns, as, M)
<1>1. F \in SUBSET Lits
  BY FactsByPart
<1>2. AtomOf(q) \notin Fluents /\ AtomOf(q) \notin Actions /\ AtomOf(q) \notin DOMAIN Guards
  BY SeparateReading
<1>3. /\ \A y \in FluentFacts(vs) : AtomOf(y) \in Fluents
      /\ \A b \in as : AtomOf(Pos(b)) \in Actions
      /\ \A y \in GuardFacts(ns) : AtomOf(y) \in DOMAIN Guards
  BY FactsByPart
<1>4. q \notin F
  BY <1>2, <1>3 DEF StepFacts
<1> HIDE DEF F
<1>5. ASSUME Columns(p, v, F)[q] = DL_PROVED PROVE FALSE
  <2>1. AtomOf(q) \notin Concluded(p) /\ AtomOf(q) \notin PrimedAtoms
    BY SeparateReading
  <2>2. \E x \in LitsOf(Fluents \cup Emits) : PrimedLit(x) = q
    <3>1. LitsOf(WriteSet(p, v)) \subseteq LitsOf(Fluents \cup Emits)
      BY WriteSetFluents
    <3>2. \A s \in LiveRules(p, v) : p.srules[s].effects \subseteq LitsOf(Fluents \cup Emits)
      BY RuleAssumption DEF LiveRules
    <3>3. \/ \E x \in LitsOf(WriteSet(p, v)) : PrimedLit(x) = q /\ Columns(p, v, F)[x] = DL_PROVED
          \/ \E s \in LiveRules(p, v) : \E e \in p.srules[s].effects :
               PrimedLit(e) = q /\ \A b \in CausalBody(p.srules[s]) : Columns(p, v, F)[b] = DL_PROVED
      BY <1>1, <1>4, <1>5, <2>1, UnstatedColumn
    <3> QED
      BY Zenon, <3>1, <3>2, <3>3
  <2> QED
    BY <2>1, <2>2, PrimedTwin
<1> QED
  BY <1>5 DEF F

\* In a stratified program the guards a rule reads are minted before the last solve,
\* unless the last solve is the first and no rule writes their number.
LEMMA GuardsSettled ==
  ASSUME prog \in Programs, GuardsStratified(prog), NEW s \in DOMAIN prog.srules, NEW g \in DOMAIN PGuards,
         ReadsGuard(prog.srules[s], g)
  PROVE  g \in SettledGuards(NStrata - 1) <=> ~ MintedTooLate(g)
<1> DEFINE n == PGuards[g].num
<1>1. n \in Nums
  BY RuleAssumption
<1>2. \A w \in Writers(n) : prog.srules[w].stratum < prog.srules[s].stratum
  BY DEF GuardsStratified, Writers
<1>3. /\ NumStratum(n) \in Nat /\ NStrata \in Nat /\ NStrata > 0
      /\ NumStratum(n) = 0 \/ \E w \in Writers(n) : NumStratum(n) = prog.srules[w].stratum
      /\ prog.srules[s].stratum \in Nat /\ prog.srules[s].stratum < NStrata
  BY <1>1, Strata
<1>4. CASE Writers(n) = {}
  <2>1. NumStratum(n) = 0
    BY <1>3, <1>4
  <2>2. NumStratum(n) < NStrata - 1 <=> NStrata # 1
    BY <1>3, <2>1
  <2> QED
    BY <1>4, <2>2 DEF SettledGuards, MintedTooLate
<1>5. CASE Writers(n) # {}
  <2>1. NumStratum(n) < prog.srules[s].stratum
    <3>1. PICK w \in Writers(n) : TRUE
      BY <1>5
    <3>2. w \in DOMAIN prog.srules
      BY DEF Writers
    <3>3. prog.srules[w].stratum \in Nat
      BY <3>2, Strata
    <3>4. prog.srules[s].stratum > 0
      BY <1>2, <1>3, <3>1, <3>3
    <3> QED
      BY <1>2, <1>3, <3>4
  <2>2. NumStratum(n) < NStrata - 1
    BY <1>3, <2>1
  <2> QED
    BY <1>5, <2>2 DEF SettledGuards, MintedTooLate
<1> QED
  BY <1>4, <1>5

\* A commit establishes what it owes about the primed guards.
LEMMA CommitGuards ==
  ASSUME WorldInv, CommitStep, Separate(prog), GuardsStratified(prog)
  PROVE  PrimedGuardsReadTheCommit'
<1> DEFINE v == CurSplit(prog, vals)
           M == MintedBelow(NStrata - 1)
<1>1. /\ prog \in Programs /\ FactsOK(vals, ActSet, M)
      /\ solved = Columns(prog, v, StepFacts(vals, nums, ActSet, M))
      /\ nums' = nextnum /\ prog' = prog /\ solved' = solved
  BY CommitReading
<1>2. ASSUME NEW g \in DOMAIN PGuards
      PROVE  /\ Pos(g) \in M <=> g \in SettledGuards(NStrata - 1) /\ GuardTruth(g)
             /\ Neg(g) \in M <=> g \in SettledGuards(NStrata - 1) /\ ~ GuardTruth(g)
  <2>1. g \in Atoms /\ \A h \in SettledGuards(NStrata - 1) : h \in Atoms
    BY RuleAssumption DEF SettledGuards
  <2>2. \A x \in Atoms : AtomOf(Pos(x)) = x /\ AtomOf(Neg(x)) = x /\ Pos(x) # Neg(x)
    <3> SUFFICES ASSUME NEW x \in Atoms PROVE AtomOf(Pos(x)) = x /\ AtomOf(Neg(x)) = x /\ Pos(x) # Neg(x)
      OBVIOUS
    <3>1. AtomOf(Pos(x)) = x /\ AtomOf(Neg(x)) = x /\ ~ IsNeg(Pos(x)) /\ IsNeg(Neg(x))
      BY LitsOfAtom
    <3> QED
      BY <3>1
  <2>3. \A h \in SettledGuards(NStrata - 1) : h # g => Pos(h) # Pos(g) /\ Neg(h) # Neg(g)
                                                       /\ Pos(h) # Neg(g) /\ Neg(h) # Pos(g)
    BY <2>1, <2>2
  <2> QED
    BY <2>1, <2>2, <2>3 DEF MintedBelow
<1> HIDE DEF M
<1>3. ASSUME NEW s \in DOMAIN prog.srules, NEW g \in DOMAIN PGuards, ReadsGuard(prog.srules[s], g)
      PROVE  /\ (solved[Pos(g)] = DL_PROVED) = (GuardTruth(g) /\ ~ MintedTooLate(g))
             /\ (solved[Neg(g)] = DL_PROVED) = (~ GuardTruth(g) /\ ~ MintedTooLate(g))
  <2>1. /\ Pos(g) \in M <=> ~ MintedTooLate(g) /\ GuardTruth(g)
        /\ Neg(g) \in M <=> ~ MintedTooLate(g) /\ ~ GuardTruth(g)
    BY <1>1, <1>2, <1>3, GuardsSettled
  <2>2. /\ Pos(g) \in Lits /\ Neg(g) \in Lits /\ AtomOf(Pos(g)) = g /\ AtomOf(Neg(g)) = g
        /\ Compl(Pos(g)) = Neg(g) /\ Compl(Neg(g)) = Pos(g)
    <3>1. g \in Atoms
      BY RuleAssumption
    <3> QED
      BY <3>1, LitsOfAtom
  <2>3. Pos(g) \in M => solved[Pos(g)] = DL_PROVED
    BY <1>1, <2>1, <2>2, MintedColumn
  <2>4. Neg(g) \in M => solved[Neg(g)] = DL_PROVED
    BY <1>1, <2>1, <2>2, MintedColumn
  <2>5. Pos(g) \notin M => solved[Pos(g)] # DL_PROVED
    BY <1>1, <2>2, OpenGuard
  <2>6. Neg(g) \notin M => solved[Neg(g)] # DL_PROVED
    BY <1>1, <2>2, OpenGuard
  <2>7. (solved[Pos(g)] = DL_PROVED) <=> (GuardTruth(g) /\ ~ MintedTooLate(g))
    BY <2>1, <2>3, <2>5
  <2>8. (solved[Neg(g)] = DL_PROVED) <=> (~ GuardTruth(g) /\ ~ MintedTooLate(g))
    BY <2>1, <2>4, <2>6
  <2> QED
    BY <2>7, <2>8
<1>4. \A g : MintedTooLate(g)' <=> MintedTooLate(g)
  BY <1>1 DEF MintedTooLate, NStrata, Writers
<1> QED
  BY <1>1, <1>3, <1>4 DEF PrimedGuardsReadTheCommit, GuardTruth

\* (PrimedGuardsReadTheCommit) In a program stratified by the compiler's pass the final
\* solve reads, in every primed guard a rule depends on, the comparison of the number
\* committed; exactly the guards of an unwritten number in a program of one stratum are
\* open both ways instead (the minting loop of world_step).
THEOREM PrimedGuardsRead ==
  Spec => [](Separate(prog) /\ GuardsStratified(prog) => PrimedGuardsReadTheCommit)
<1> DEFINE P == Separate(prog) /\ GuardsStratified(prog) => PrimedGuardsReadTheCommit
<1>1. Init => P
  BY DEF Init, PrimedGuardsReadTheCommit, Committed
<1>2. ASSUME WorldInv, P, [Next]_vars PROVE P'
  <2>1. CASE UNCHANGED vars
    <3>1. prog' = prog /\ nums' = nums /\ solved' = solved /\ rc' = rc
      BY <2>1 DEF vars, world, call
    <3>2. \A g : MintedTooLate(g)' <=> MintedTooLate(g)
      BY <3>1 DEF MintedTooLate, NStrata, Writers
    <3> QED
      BY <1>2, <3>1, <3>2 DEF PrimedGuardsReadTheCommit, Committed
  <2>2. CASE CommitStep
    <3>1. prog' = prog
      BY <2>2 DEF CommitStep
    <3> QED
      BY <1>2, <2>2, <3>1, CommitGuards
  <2>3. CASE rc' # "ok"
    BY <2>3 DEF PrimedGuardsReadTheCommit, Committed
  <2> QED
    BY <1>2, <2>1, <2>2, <2>3, WorldInvStep
<1>3. WorldInv /\ [Next]_vars => WorldInv'
  BY WorldInvStep
<1> QED
  BY <1>1, <1>2, <1>3, WorldInvInit, PTL DEF Spec

-----------------------------------------------------------------------------
(* A query and a step read the judgments alike.                            *)

\* The rules of the step family about an unprimed atom are judgments.
LEMMA CurrentRules ==
  ASSUME NEW p \in Programs, NEW v, NEW F, NEW q, AtomOf(q) \notin PrimedAtoms, NEW r
  PROVE  /\ r \in RulesFor(StepThy(p, v, F), q)
              <=> \E j \in DOMAIN p.jrules : r = <<"judgment", j>> /\ p.jrules[j].head = q
         /\ r \in RulesFor(StepThy(p, v, F), q) =>
              StepThy(p, v, F).rules[r] = FamilyRule(p, r) /\ r \in JudgmentRules(p)
<1> DEFINE t == StepThy(p, v, F)
<1>1. \A x \in LitsOf(WriteSet(p, v)) : AtomOf(PrimedLit(x)) \in PrimedAtoms
  BY WriteSetFluents, PrimedTwin
<1>2. \A s \in LiveRules(p, v) : \A e \in p.srules[s].effects : AtomOf(PrimedLit(e)) \in PrimedAtoms
  BY RuleAssumption, PrimedTwin DEF LiveRules
<1>3. ASSUME r \in RulesFor(t, q)
      PROVE  /\ \E j \in DOMAIN p.jrules : r = <<"judgment", j>> /\ p.jrules[j].head = q
             /\ t.rules[r] = FamilyRule(p, r)
  <2>1. /\ t.rules[r] = FamilyRule(p, r)
        /\ \/ \E j \in DOMAIN p.jrules : r = <<"judgment", j>> /\ p.jrules[j].head = q
           \/ \E x \in LitsOf(WriteSet(p, v)) : r = <<"inertia", x>> /\ PrimedLit(x) = q
           \/ \E s \in LiveRules(p, v) : \E e \in p.srules[s].effects :
                r = <<"causal", s, e>> /\ PrimedLit(e) = q
    BY <1>3, RulesByKind
  <2> QED
    BY <1>1, <1>2, <2>1
<1>4. ASSUME NEW j \in DOMAIN p.jrules, r = <<"judgment", j>>, p.jrules[j].head = q
      PROVE  r \in RulesFor(t, q)
  <2>1. r \in FamilyIds(p, v) /\ FamilyRule(p, r).head = q
    BY <1>4, IdsHeld, FamilyRules
  <2>2. t.rules = StepFamily(p, v).rules
    BY StepThyReading
  <2> HIDE DEF t
  <2> QED
    BY <2>1, <2>2, FamilyReading DEF RulesFor
<1>5. \A j \in DOMAIN p.jrules : <<"judgment", j>> \in JudgmentRules(p)
  BY DEF JudgmentRules
<1> QED
  BY <1>3, <1>4, <1>5

\* A judgment reads atoms of judgments.
LEMMA JudgmentBody ==
  ASSUME NEW p \in Programs, NEW r \in JudgmentRules(p)
  PROVE  /\ FamilyRule(p, r).body \subseteq LitsOf(JudgmentAtoms(p))
         /\ FamilyRule(p, r).head \in LitsOf(JudgmentAtoms(p))
<1>1. PICK j \in DOMAIN p.jrules : r = <<"judgment", j>>
  BY DEF JudgmentRules
<1>2. FamilyRule(p, r) = p.jrules[j] /\ p.jrules[j].body \subseteq Lits /\ p.jrules[j].head \in Lits
  BY <1>1, FamilyRules, ProgramType DEF Rule
<1>3. (\A b \in p.jrules[j].body : AtomOf(b) \in JudgmentAtoms(p)) /\ AtomOf(p.jrules[j].head) \in JudgmentAtoms(p)
  BY DEF JudgmentAtoms
<1> QED
  BY <1>2, <1>3 DEF LitsOf

\* What is superior to a judgment is a judgment.
LEMMA JudgmentSupsAlone ==
  ASSUME NEW p \in Programs, NEW v, NEW F, NEW r, NEW s \in JudgmentRules(p)
  PROVE  <<r, s>> \in StepThy(p, v, F).sups <=> <<r, s>> \in JudgmentSups(p)
<1>1. StepThy(p, v, F).sups = JudgmentSups(p) \cup CausalSups(Causal(p, v))
  <2>1. StepThy(p, v, F).sups = StepFamily(p, v).sups
    BY StepThyReading
  <2>2. StepFamily(p, v).sups = JudgmentSups(p) \cup CausalSups(Causal(p, v))
    BY DEF StepFamily, Causal
  <2> QED
    BY <2>1, <2>2
<1>2. PICK j : s = <<"judgment", j>>
  BY DEF JudgmentRules
<1>3. \A x : s # <<"inertia", x>>
  BY <1>2
<1>4. <<r, s>> \notin CausalSups(Causal(p, v))
  BY <1>3 DEF CausalSups
<1> QED
  BY <1>1, <1>4

\* The judgments of the step family are those of the judgment family.
LEMMA JudgmentsAlike ==
  ASSUME NEW p \in Programs, Separate(p), NEW v, NEW vs, NEW ns, NEW as, NEW M, FactsOK(vs, as, M)
  PROVE  SameOn(StepThy(p, v, StepFacts(vs, ns, as, M)), JudgmentThy(p, QueryFacts(p, vs, ns)),
                LitsOf(JudgmentAtoms(p)))
<1> DEFINE F == StepFacts(vs, ns, as, M)
           G == QueryFacts(p, vs, ns)
           t1 == StepThy(p, v, F)
           t2 == JudgmentThy(p, G)
           J == LitsOf(JudgmentAtoms(p))
<1>1. J \in SUBSET Lits /\ \A q \in J : q \in Lits /\ AtomOf(q) \in JudgmentAtoms(p)
  BY DEF LitsOf
<1>2. \A q \in J : Compl(q) \in J
  BY <1>1, ComplLits, ComplAtom DEF LitsOf
<1>3. JudgmentAtoms(p) \cap (Actions \cup PrimedAtoms \cup DOMAIN PGuards) = {}
  BY DEF Separate
<1>4. ASSUME NEW q \in J PROVE q \in F <=> q \in G
  <2>1. AtomOf(q) \in JudgmentAtoms(p) /\ AtomOf(q) \notin Actions /\ AtomOf(q) \notin DOMAIN PGuards
    BY <1>1, <1>3
  <2>2. q \notin {Pos(a) : a \in as} /\ q \notin M
    BY <2>1, FactsByPart
  <2> QED
    BY <2>1, <2>2 DEF StepFacts, QueryFacts
<1> HIDE DEF F, G
<1>5. t1.facts = F /\ t2.facts = G /\ t2.sups = JudgmentSups(p)
  BY StepThyReading, JudgmentThyReading
<1>6. ASSUME NEW q \in J, NEW r
      PROVE  /\ r \in RulesFor(t1, q) <=> r \in RulesFor(t2, q)
             /\ r \in RulesFor(t1, q) =>
                  r \in JudgmentRules(p) /\ t1.rules[r] = t2.rules[r] /\ t1.rules[r].body \subseteq J
  <2>1. AtomOf(q) \notin PrimedAtoms
    BY <1>1, <1>3
  <2>2. /\ r \in RulesFor(t1, q)
              <=> \E j \in DOMAIN p.jrules : r = <<"judgment", j>> /\ p.jrules[j].head = q
        /\ r \in RulesFor(t1, q) => t1.rules[r] = FamilyRule(p, r) /\ r \in JudgmentRules(p)
    BY <2>1, CurrentRules
  <2>3. DOMAIN t2.rules = JudgmentRules(p) /\ \A x \in JudgmentRules(p) : t2.rules[x] = FamilyRule(p, x)
    BY JudgmentThyReading
  <2> HIDE DEF t1, t2
  <2>4. r \in RulesFor(t2, q) <=> r \in JudgmentRules(p) /\ FamilyRule(p, r).head = q
    BY <2>3 DEF RulesFor
  <2>5. r \in JudgmentRules(p) /\ FamilyRule(p, r).head = q
          <=> \E j \in DOMAIN p.jrules : r = <<"judgment", j>> /\ p.jrules[j].head = q
    BY FamilyRules DEF JudgmentRules
  <2> QED
    BY <2>2, <2>3, <2>4, <2>5, JudgmentBody
<1>7. \A r : \A s \in JudgmentRules(p) : <<r, s>> \in t1.sups <=> <<r, s>> \in t2.sups
  BY <1>5, JudgmentSupsAlone
<1> HIDE DEF t1, t2, J
<1>8. \A q \in J : RulesFor(t1, q) = RulesFor(t2, q)
  BY <1>6
<1>9. \A q \in J : \A r \in RulesFor(t1, q) :
         r \in JudgmentRules(p) /\ t1.rules[r] = t2.rules[r] /\ t1.rules[r].body \subseteq J
  BY <1>6
<1>10. SameOn(t1, t2, J)
  BY <1>1, <1>2, <1>4, <1>5, <1>7, <1>8, <1>9 DEF SameOn
<1> QED
  BY <1>10 DEF t1, t2, J, F, G

\* A judgment's literal is proved in the step exactly when a query finds it proved.
LEMMA JudgmentColumn ==
  ASSUME NEW p \in Programs, Separate(p), NEW v, NEW vs, NEW ns, NEW as, NEW M, FactsOK(vs, as, M),
         NEW q \in LitsOf(JudgmentAtoms(p))
  PROVE  Columns(p, v, StepFacts(vs, ns, as, M))[q] = DL_PROVED
           <=> JudgmentColumns(p, QueryFacts(p, vs, ns))[q] = DL_PROVED
<1> DEFINE t1 == StepThy(p, v, StepFacts(vs, ns, as, M))
           t2 == JudgmentThy(p, QueryFacts(p, vs, ns))
           u1 == StepFamily(p, v)
           u2 == JudgmentFamily(p)
<1>1. TheoryLits(t1) /\ TheoryLits(t2)
  BY FactsByPart, StepThyLits, QueryFactsLits, JudgmentThyLits DEF FactsOK
<1>2. t1.rules = u1.rules /\ u1.facts = {} /\ t2.rules = u2.rules /\ u2.facts = {}
  BY DEF StepThy, StepFamily, JudgmentThy, JudgmentFamily
<1>3. SameOn(t1, t2, LitsOf(JudgmentAtoms(p)))
  BY JudgmentsAlike
<1>c. /\ Columns(p, v, StepFacts(vs, ns, as, M)) = Verdicts(t1, SupportSccs(u1))
      /\ JudgmentColumns(p, QueryFacts(p, vs, ns)) = Verdicts(t2, SupportSccs(u2))
  BY DEF Columns, StepSccs, JudgmentColumns, JudgmentSccs
<1> HIDE DEF t1, t2, u1, u2
<1>4. TheoryLits(u1) /\ TheoryLits(u2)
  BY <1>1, <1>2 DEF TheoryLits
<1>5. SupportSccs(t1) = SupportSccs(u1) /\ SupportSccs(t2) = SupportSccs(u2)
  BY <1>1, <1>2, <1>4, SccsByRules
<1>6. Verdicts(t1, SupportSccs(t1))[q] = Verdicts(t2, SupportSccs(t2))[q]
  BY <1>1, <1>3, SameVerdicts
<1> QED
  BY <1>5, <1>6, <1>c

\* What a query finds proved, the step finds proved.
LEMMA QueriedColumn ==
  ASSUME NEW p \in Programs, Separate(p), NEW v, NEW vs, NEW ns, NEW as, NEW M, FactsOK(vs, as, M),
         NEW q \in Lits, Query(p, vs, ns, q) = DL_PROVED
  PROVE  Columns(p, v, StepFacts(vs, ns, as, M))[q] = DL_PROVED
<1> DEFINE a == AtomOf(q)
           F == StepFacts(vs, ns, as, M)
<1>0. ASSUME NEW y \in LitsOf(JudgmentAtoms(p))
      PROVE  Columns(p, v, F)[y] = DL_PROVED
               <=> JudgmentColumns(p, QueryFacts(p, vs, ns))[y] = DL_PROVED
  BY JudgmentColumn
<1>1. \A b : HoldsVerdict(q, b) = DL_PROVED => b # IsNeg(q)
  BY DEF HoldsVerdict
<1>2. CASE a \in JudgmentAtoms(p)
  <2>1. Query(p, vs, ns, q) = SolveJudgments(p, vs, ns)[q]
    BY <1>2 DEF Query
  <2>2. q \in LitsOf(JudgmentAtoms(p))
    BY <1>2 DEF LitsOf
  <2>3. Columns(p, v, F)[q] = DL_PROVED <=> JudgmentColumns(p, QueryFacts(p, vs, ns))[q] = DL_PROVED
    BY <1>0, <2>2
  <2>4. SolveJudgments(p, vs, ns) = JudgmentColumns(p, QueryFacts(p, vs, ns))
    BY SolveJudgmentsReading
  <2> HIDE DEF F
  <2>5. Columns(p, v, F)[q] = DL_PROVED
    BY <2>1, <2>3, <2>4
  <2> QED
    BY <2>5 DEF F
<1>3. CASE a \notin JudgmentAtoms(p) /\ a \in Fluents
  <2>1. Query(p, vs, ns, q) = HoldsVerdict(q, vs[a])
    BY <1>3 DEF Query
  <2>2. vs[a] \in BOOLEAN /\ q \in LitsOf(Fluents)
    BY <1>3 DEF FactsOK, LitsOf
  <2>3. HoldsIn(vs, q)
    BY <1>1, <2>1, <2>2 DEF HoldsIn, IsNeg
  <2> QED
    BY <2>2, <2>3, FluentColumn
<1>4. CASE a \notin JudgmentAtoms(p) /\ a \notin Fluents
  <2>1. a \in DOMAIN Guards /\ Query(p, vs, ns, q) = HoldsVerdict(q, GuardHolds(a, ns))
    BY <1>4 DEF Query
  <2>2. q = IF IsNeg(q) THEN Neg(a) ELSE Pos(a)
    BY AtomOfLit
  <2>3. GuardHolds(a, ns) # IsNeg(q) /\ GuardHolds(a, ns) \in BOOLEAN /\ IsNeg(q) \in BOOLEAN
    BY <1>1, <2>1 DEF GuardHolds, Compare, IsNeg
  <2>4. q = IF GuardHolds(a, ns) THEN Pos(a) ELSE Neg(a)
    BY <2>2, <2>3
  <2>5. q \in F
    BY <2>1, <2>4 DEF StepFacts, GuardFacts
  <2>6. F \in SUBSET Lits
    BY FactsByPart
  <2> HIDE DEF F
  <2>7. TheoryLits(StepThy(p, v, F)) /\ AreSccs(StepSccs(p, v)) /\ StepThy(p, v, F).facts = F
    BY <2>6, StepThyLits, StepThyReading
  <2>8. Columns(p, v, F)[q] = DL_PROVED
    BY <2>5, <2>7, FactProved DEF Columns
  <2> QED
    BY <2>8 DEF F
<1> QED
  BY <1>2, <1>3, <1>4

\* A commit establishes what it owes to the actions offered.
LEMMA CommitActions ==
  ASSUME WorldInv, CommitStep, Separate(prog)
  PROVE  ApplicableActionsFire'
<1> DEFINE M == MintedBelow(NStrata - 1)
<1>1. /\ prog \in Programs /\ FactsOK(vals, ActSet, M)
      /\ solved = Columns(prog, CurSplit(prog, vals), StepFacts(vals, nums, ActSet, M))
      /\ pre'.vals = vals /\ pre'.nums = nums /\ prog' = prog /\ solved' = solved /\ ActSet' = ActSet
  BY CommitReading
<1> HIDE DEF M
<1>2. ASSUME NEW a \in ActSet, ActionStatus(prog, vals, nums, a) = "APPLIES"
      PROVE  \E s \in TriggeredBy(prog, a) : RuleFired(prog.srules[s], ActSet, solved)
  <2>1. PICK s \in TriggeredBy(prog, a) :
          /\ prog.srules[s].nxt = {}
          /\ \A q \in prog.srules[s].now : Query(prog, vals, nums, q) = DL_PROVED
    BY <1>2 DEF ActionStatus
  <2>2. s \in DOMAIN prog.srules /\ prog.srules[s].action = a
    BY DEF TriggeredBy
  <2>3. prog.srules[s].now \subseteq Lits
    BY <1>1, <2>2, ProgramType DEF StepRule
  <2>4. \A q \in prog.srules[s].now : solved[q] = DL_PROVED
    BY <1>1, <2>1, <2>3, QueriedColumn
  <2> QED
    BY <2>1, <2>2, <2>4 DEF RuleFired
<1>3. \A s : Fired(s)' <=> RuleFired(prog.srules[s], ActSet, solved)
  BY <1>1 DEF Fired, FiredUnder
<1> QED
  BY <1>1, <1>2, <1>3 DEF ApplicableActionsFire

\* (ApplicableActionsFire) An action a client is told applies fires one of its rules
\* in every step that commits, whatever is submitted with it: the verdicts a query
\* reads off the judgment family are those of the step family.
THEOREM ActionsFire == Spec => [](Separate(prog) => ApplicableActionsFire)
<1> DEFINE P == Separate(prog) => ApplicableActionsFire
<1>1. Init => P
  BY DEF Init, ApplicableActionsFire, Committed
<1>2. ASSUME WorldInv, P, [Next]_vars PROVE P'
  <2>1. CASE UNCHANGED vars
    <3>1. prog' = prog /\ solved' = solved /\ pre' = pre /\ rc' = rc /\ ActSet' = ActSet
      BY <2>1 DEF vars, world, call, ActSet
    <3>2. \A s : Fired(s)' <=> Fired(s)
      BY <3>1 DEF Fired, FiredUnder
    <3> QED
      BY <1>2, <3>1, <3>2 DEF ApplicableActionsFire, Committed
  <2>2. CASE CommitStep
    <3>1. prog' = prog
      BY <2>2 DEF CommitStep
    <3> QED
      BY <1>2, <2>2, <3>1, CommitActions
  <2>3. CASE rc' # "ok"
    BY <2>3 DEF ApplicableActionsFire, Committed
  <2> QED
    BY <1>2, <2>1, <2>2, <2>3, WorldInvStep
<1>3. WorldInv /\ [Next]_vars => WorldInv'
  BY WorldInvStep
<1> QED
  BY <1>1, <1>2, <1>3, WorldInvInit, PTL DEF Spec

-----------------------------------------------------------------------------
(* Sums of functions.                                                      *)

Chosen(S)    == [s \in SUBSET S |-> CHOOSE x \in s : TRUE]
Adding(f, S) == [p \in S \X Int |-> f[p[1]] + p[2]]

\* h sums the values of f over the subsets of S.
IsSum(h, f, S) ==
  IsFold(h, S, Chosen(S), 0, Adding(f, S)) /\ \A s \in SUBSET S : h[s] \in Int

LEMMA ChosenChooses ==
  ASSUME NEW S, NEW R, R \subseteq S
  PROVE  Chooses(Chosen(S), R)
BY DEF Chooses, Chosen

\* SumFunction is a fold of the additions.
LEMMA SumIsFold ==
  ASSUME NEW S, IsFiniteSet(S), NEW f, f \in [S -> Int]
  PROVE  \E h : IsSum(h, f, S) /\ SumFunction(f) = h[S]
<1> DEFINE Ch(s) == CHOOSE x \in s : TRUE
           Sol(h) == h = [s \in SUBSET S |-> IF s = {} THEN 0 ELSE f[Ch(s)] + h[s \ {Ch(s)}]]
           F == CHOOSE h : Sol(h)
<1>1. SumFunction(f) = F[S]
  BY DEF SumFunction, SumFunctionOnSet, FoldFunctionOnSet, MapThenFoldSet
<1>2. Chooses(Chosen(S), S)
  BY ChosenChooses
<1>3. Adding(f, S) \in [S \X Int -> Int]
  BY DEF Adding
<1>4. PICK h : IsFold(h, S, Chosen(S), 0, Adding(f, S))
  BY <1>2, FoldExists
<1>5. \A s \in SUBSET S : h[s] \in Int
  <2> DEFINE c == Chosen(S)
             step == Adding(f, S)
  <2>1. Chooses(c, S) /\ IsFold(h, S, c, 0, step) /\ step \in [S \X Int -> Int] /\ 0 \in Int
    BY <1>2, <1>3, <1>4
  <2> HIDE DEF c, step
  <2> QED
    BY <2>1, FoldType
<1>6. ASSUME NEW s \in SUBSET S, s # {} PROVE Ch(s) \in s /\ Ch(s) \in S /\ Chosen(S)[s] = Ch(s)
  BY <1>6 DEF Chosen
<1> HIDE DEF Ch
<1>7. Sol(h)
  <2>1. ASSUME NEW s \in SUBSET S PROVE h[s] = IF s = {} THEN 0 ELSE f[Ch(s)] + h[s \ {Ch(s)}]
    <3>1. CASE s = {}
      BY <1>4, <3>1 DEF IsFold
    <3>2. CASE s # {}
      <4>1. h[s] = Adding(f, S)[<<Ch(s), h[s \ {Ch(s)}]>>]
        BY <1>4, <1>6, <3>2 DEF IsFold
      <4>2. Ch(s) \in S /\ h[s \ {Ch(s)}] \in Int
        BY <1>5, <1>6, <3>2
      <4> QED
        BY <3>2, <4>1, <4>2 DEF Adding
    <3> QED
      BY <3>1, <3>2
  <2>2. h = [s \in SUBSET S |-> h[s]]
    BY <1>4, <1>5 DEF IsFold
  <2> QED
    BY <2>1, <2>2
<1>8. Sol(F)
  BY <1>7
<1>9. \A s \in SUBSET S : F[s] = IF s = {} THEN 0 ELSE f[Ch(s)] + F[s \ {Ch(s)}]
  BY <1>8
<1>10. \A s \in SUBSET S : h[s] = IF s = {} THEN 0 ELSE f[Ch(s)] + h[s \ {Ch(s)}]
  BY <1>7
<1> HIDE DEF F, Sol
<1>11. \A s \in SUBSET S : F[s] = h[s]
  <2> DEFINE T == {s \in SUBSET S : F[s] = h[s]}
  <2>1. {} \in T
    BY <1>9, <1>10
  <2>2. ASSUME NEW s \in SUBSET S, s # {} PROVE \E x \in s : s \ {x} \in T => s \in T
    BY <1>6, <1>9, <1>10, <2>2
  <2>3. \A s \in SUBSET S : s \in T
    <3> HIDE DEF T
    <3> QED
      BY <2>1, <2>2, SubsetInduction
  <2> QED
    BY <2>3
<1> QED
  BY <1>1, <1>4, <1>5, <1>11 DEF IsSum

\* Any element may be added last.
AnyLast(h, f, S) == \A s \in SUBSET S : \A x \in s : h[s] = f[x] + h[s \ {x}]

LEMMA AddedLast ==
  ASSUME NEW S, IsFiniteSet(S), NEW f, f \in [S -> Int], NEW h, IsSum(h, f, S)
  PROVE  AnyLast(h, f, S)
<1> DEFINE Bad == {s \in SUBSET S : \E x \in s : h[s] # f[x] + h[s \ {x}]}
<1>1. SUFFICES ASSUME Bad # {} PROVE FALSE
  BY DEF AnyLast
<1>2. PICK s \in Bad : \A y \in Bad : y \subseteq s => y = s
  <2>1. Bad \in SUBSET (SUBSET S)
    OBVIOUS
  <2> HIDE DEF Bad
  <2> QED
    BY <1>1, <2>1, SmallestSet
<1>3. s \in SUBSET S
  OBVIOUS
<1>4. PICK x \in s : h[s] # f[x] + h[s \ {x}]
  OBVIOUS
<1> DEFINE y == Chosen(S)[s]
<1>5. y \in s
  <2>1. Chooses(Chosen(S), S)
    BY ChosenChooses
  <2> QED
    BY <1>3, <1>4, <2>1 DEF Chooses
<1>6. \A u \in SUBSET S : u \subseteq s /\ u # s => \A z \in u : h[u] = f[z] + h[u \ {z}]
  BY <1>2
<1> HIDE DEF Bad, y
<1>7. h[s] = f[y] + h[s \ {y}]
  <2>1. h[s] = Adding(f, S)[<<y, h[s \ {y}]>>]
    BY <1>3, <1>4 DEF IsSum, IsFold, y
  <2>2. y \in S /\ h[s \ {y}] \in Int
    BY <1>3, <1>5 DEF IsSum
  <2> QED
    BY <2>1, <2>2 DEF Adding
<1>8. x # y
  BY <1>4, <1>7
<1>9. h[s \ {y}] = f[x] + h[(s \ {y}) \ {x}]
  <2>1. s \ {y} \in SUBSET S /\ s \ {y} \subseteq s /\ s \ {y} # s /\ x \in s \ {y}
    BY <1>3, <1>5, <1>8
  <2> QED
    BY <1>6, <2>1
<1>10. h[s \ {x}] = f[y] + h[(s \ {x}) \ {y}]
  <2>1. s \ {x} \in SUBSET S /\ s \ {x} \subseteq s /\ s \ {x} # s /\ y \in s \ {x}
    BY <1>3, <1>4, <1>5, <1>8
  <2> QED
    BY <1>6, <2>1
<1>11. (s \ {y}) \ {x} = (s \ {x}) \ {y}
  OBVIOUS
<1>12. f[x] \in Int /\ f[y] \in Int /\ h[(s \ {x}) \ {y}] \in Int
  BY <1>3, <1>5 DEF IsSum
<1>13. h[s] = f[y] + (f[x] + h[(s \ {x}) \ {y}])
  BY <1>7, <1>9, <1>11
<1>14. f[x] + h[s \ {x}] = f[x] + (f[y] + h[(s \ {x}) \ {y}])
  BY <1>10
<1>15. h[s] = f[x] + h[s \ {x}]
  BY <1>12, <1>13, <1>14
<1> QED
  BY <1>4, <1>15

\* The sum of nothing.
LEMMA SumOfNothing ==
  ASSUME NEW f \in [{} -> Int]
  PROVE  SumFunction(f) = 0
<1>1. IsFiniteSet({}) /\ {} \in SUBSET {}
  BY FS_EmptySet
<1>2. PICK h : IsSum(h, f, {}) /\ SumFunction(f) = h[{}]
  BY <1>1, SumIsFold
<1> QED
  BY <1>1, <1>2 DEF IsSum, IsFold

\* R has x besides the elements of S; f and g are alike on S.
OneMore(R, S, x)  == x \notin S /\ \A y : y \in R <=> y \in S \/ y = x
AgreeOn(S, f, g) == \A y \in S : f[y] = g[y]

\* One more term is added to the sum.
LEMMA SumGrows ==
  ASSUME NEW S, IsFiniteSet(S), NEW x, NEW R, OneMore(R, S, x),
         NEW f, f \in [R -> Int], NEW g, g \in [S -> Int], AgreeOn(S, f, g)
  PROVE  SumFunction(g) \in Int /\ SumFunction(f) = SumFunction(g) + f[x]
<1>1. IsFiniteSet(R) /\ S \subseteq R
  <2>1. R = S \cup {x}
    BY DEF OneMore
  <2> QED
    BY <2>1, FS_AddElement
<1>2. f \in [R -> Int]
  OBVIOUS
<1>3. PICK h : IsSum(h, f, R) /\ SumFunction(f) = h[R]
  BY <1>1, <1>2, SumIsFold
<1>4. PICK k : IsSum(k, g, S) /\ SumFunction(g) = k[S]
  BY SumIsFold
<1>5. AnyLast(h, f, R)
  BY <1>1, <1>2, <1>3, AddedLast
<1>6. AnyLast(k, g, S)
  BY <1>4, AddedLast
<1>7. \A s \in SUBSET S : h[s] = k[s]
  <2> DEFINE T == {s \in SUBSET S : h[s] = k[s]}
  <2>1. {} \in T
    <3>1. {} \in SUBSET R /\ {} \in SUBSET S
      OBVIOUS
    <3> QED
      BY <1>3, <1>4, <3>1 DEF IsSum, IsFold
  <2>2. ASSUME NEW s \in SUBSET S, s # {} PROVE \E y \in s : s \ {y} \in T => s \in T
    <3>1. PICK y \in s : TRUE
      BY <2>2
    <3>2. h[s] = f[y] + h[s \ {y}] /\ k[s] = g[y] + k[s \ {y}] /\ f[y] = g[y]
      BY <1>1, <1>5, <1>6 DEF AnyLast, AgreeOn
    <3> QED
      BY <3>2
  <2>3. \A s \in SUBSET S : s \in T
    <3> HIDE DEF T
    <3> QED
      BY <2>1, <2>2, SubsetInduction
  <2> QED
    BY <2>3
<1>8. h[R] = f[x] + h[S]
  <2>1. R \in SUBSET R /\ x \in R
    BY DEF OneMore
  <2>2. R \ {x} = S
    BY DEF OneMore
  <2>3. h[R] = f[x] + h[R \ {x}]
    BY <1>5, <2>1 DEF AnyLast
  <2> QED
    BY <2>2, <2>3
<1>9. f[x] \in Int /\ k[S] \in Int /\ h[S] = k[S]
  BY <1>4, <1>7 DEF IsSum, OneMore
<1>10. h[R] = k[S] + f[x]
  BY <1>8, <1>9
<1> QED
  BY <1>3, <1>4, <1>9, <1>10

-----------------------------------------------------------------------------
(* Scans: folds over the positions of a sequence.                          *)

\* The last of k positions is their maximum.
LEMMA TopOfPositions ==
  ASSUME NEW n \in Nat, NEW k \in 1 .. n
  PROVE  1 .. k \in SUBSET (1 .. n) /\ 1 .. k # {} /\ Max(1 .. k) = k /\ (1 .. k) \ {k} = 1 .. (k - 1)
<1>1. k \in 1 .. k /\ k \in Nat /\ 1 .. k \subseteq 1 .. n
  OBVIOUS
<1>2. Max(1 .. k) \in 1 .. k /\ Max(1 .. k) >= k
  <2> DEFINE s == 1 .. k
  <2>1. s \subseteq 1 .. k /\ k \in s /\ s # {}
    BY <1>1
  <2> HIDE DEF s
  <2>2. Max(s) \in s /\ \A x \in s : Max(s) >= x
    BY <1>1, <2>1, MaxOfPositions
  <2> QED
    BY <2>1, <2>2 DEF s
<1>3. Max(1 .. k) = k
  BY <1>1, <1>2
<1>4. (1 .. k) \ {k} = 1 .. (k - 1)
  BY <1>1
<1> QED
  BY <1>1, <1>3, <1>4

Tops(n) == [s \in SUBSET (1 .. n) |-> Max(s)]

\* g is the course of a scan of n positions.
IsScan(g, n, base, step) ==
  g[0] = base /\ \A k \in 1 .. n : g[k] = step[<<k, g[k - 1]>>]

\* h folds the positions, the greatest last, and g is the course of the scan.
Scans(h, g, n, V, base, step) ==
  /\ IsFold(h, 1 .. n, Tops(n), base, step)
  /\ \A s \in SUBSET (1 .. n) : h[s] \in V
  /\ g \in [0 .. n -> V] /\ IsScan(g, n, base, step)
  /\ h[1 .. n] = g[n]

\* A fold that takes the greatest position last is a scan of the positions.
LEMMA PositionsScanned ==
  ASSUME NEW n \in Nat, NEW V, NEW base \in V, NEW step \in [(1 .. n) \X V -> V]
  PROVE  \E h, g : Scans(h, g, n, V, base, step)
<1>1. IsFiniteSet(1 .. n)
  BY FS_Interval
<1>2. \A s \in SUBSET (1 .. n) : s # {} => Max(s) \in s
  BY MaxOfPositions
<1>3. Chooses(Tops(n), 1 .. n)
  BY <1>2 DEF Chooses, Tops
<1>4. PICK h : IsFold(h, 1 .. n, Tops(n), base, step)
  BY <1>1, <1>3, FoldExists
<1>5. \A s \in SUBSET (1 .. n) : h[s] \in V
  BY <1>1, <1>3, <1>4, FoldType
<1> DEFINE g == [k \in 0 .. n |-> h[1 .. k]]
<1>6. g \in [0 .. n -> V]
  <2>1. \A k \in 0 .. n : 1 .. k \in SUBSET (1 .. n)
    OBVIOUS
  <2> QED
    BY <1>5, <2>1
<1>7. g[0] = base
  <2>1. 1 .. 0 = {} /\ {} \in SUBSET (1 .. n) /\ 0 \in 0 .. n
    OBVIOUS
  <2>2. h[{}] = base
    BY <1>4, <2>1 DEF IsFold
  <2> QED
    BY <2>1, <2>2
<1>8. ASSUME NEW k \in 1 .. n PROVE g[k] = step[<<k, g[k - 1]>>]
  <2>1. /\ 1 .. k \in SUBSET (1 .. n) /\ 1 .. k # {} /\ Max(1 .. k) = k
        /\ (1 .. k) \ {k} = 1 .. (k - 1)
    BY TopOfPositions
  <2> DEFINE s == 1 .. k
             r == 1 .. (k - 1)
  <2>2. g[k] = h[s] /\ g[k - 1] = h[r]
    OBVIOUS
  <2>3. s \in SUBSET (1 .. n) /\ s # {} /\ Max(s) = k /\ s \ {k} = r
    BY <2>1
  <2> HIDE DEF g, s, r
  <2>4. Tops(n)[s] = k
    BY <2>3 DEF Tops
  <2>5. h[s] = step[<<k, h[s \ {k}]>>]
    BY <1>4, <2>3, <2>4 DEF IsFold
  <2>6. h[s \ {k}] = h[r]
    BY <2>3
  <2> QED
    BY <2>2, <2>5, <2>6
<1>9. h[1 .. n] = g[n]
  OBVIOUS
<1>10. IsScan(g, n, base, step)
  <2> HIDE DEF g
  <2> QED
    BY <1>7, <1>8 DEF IsScan
<1> HIDE DEF g
<1> QED
  BY <1>4, <1>5, <1>6, <1>9, <1>10 DEF Scans

-----------------------------------------------------------------------------
(* The scan of the rules.                                                  *)

\* What an accumulator is, and a line of a receipt.
ReceiptLine == [rule : Nat, op : NumOp, amount : Int, defeated : BOOLEAN]
Accumulator == [have : BOOLEAN, val : Int, conflict : BOOLEAN, delta : Int, items : Seq(ReceiptLine)]

\* The L effects of rule s, and the L rules, each take an accumulator to one.
EffectsTyped(n, cols, s, L) ==
  /\ DOMAIN prog.srules[s].neffs = 1 .. L
  /\ \A b \in Accumulator, e \in 1 .. L : Contribute(b, n, cols, s, e) \in Accumulator

RulesTyped(n, cols, L) ==
  /\ DOMAIN prog.srules = 1 .. L
  /\ \A b \in Accumulator, s \in 1 .. L : ContributeAll(b, n, cols, s) \in Accumulator

\* g is the course of the scan of the effects of rule s, and of the rules.
EffectsCourse(g, a, n, cols, s, L) ==
  /\ g \in [0 .. L -> Accumulator]
  /\ g[0] = a
  /\ \A e \in 1 .. L : g[e] = Contribute(g[e - 1], n, cols, s, e)
  /\ ContributeAll(a, n, cols, s) = g[L]

RulesCourse(g, n, cols, L) ==
  /\ g \in [0 .. L -> Accumulator]
  /\ g[0] = NoContribution
  /\ \A s \in 1 .. L : g[s] = ContributeAll(g[s - 1], n, cols, s)
  /\ Accumulate(n, cols) = g[L]

\* The effects of one rule are scanned in their order.
LEMMA EffectsScanned ==
  ASSUME NEW n, NEW cols, NEW s, NEW L \in Nat, NEW a \in Accumulator, EffectsTyped(n, cols, s, L)
  PROVE  \E g : EffectsCourse(g, a, n, cols, s, L)
<1>0. /\ DOMAIN prog.srules[s].neffs = 1 .. L
      /\ \A b \in Accumulator, e \in 1 .. L : Contribute(b, n, cols, s, e) \in Accumulator
  BY DEF EffectsTyped
<1> DEFINE P == 1 .. L
           at == [i \in P |-> i]
           Sol(h) == h = [u \in SUBSET P |->
                            IF u = {} THEN a ELSE Contribute(h[u \ {Max(u)}], n, cols, s, at[Max(u)])]
           F == CHOOSE h : Sol(h)
           step == [p \in P \X Accumulator |-> Contribute(p[2], n, cols, s, p[1])]
<1>1. ContributeAll(a, n, cols, s) = F[P]
  <2>1. DOMAIN [i \in P |-> i] = P
    OBVIOUS
  <2> QED
    BY <1>0, <2>1 DEF ContributeAll, FoldLeftDomain, FoldLeft, MapThenFoldSet
<1>2. step \in [P \X Accumulator -> Accumulator]
  BY <1>0
<1>2a. \A e \in P, b \in Accumulator : step[<<e, b>>] = Contribute(b, n, cols, s, e)
  OBVIOUS
<1> HIDE DEF step
<1>3a. PICK h, g : Scans(h, g, L, Accumulator, a, step)
  BY <1>2, PositionsScanned
<1>3. /\ IsFold(h, P, Tops(L), a, step)
      /\ \A u \in SUBSET P : h[u] \in Accumulator
      /\ g \in [0 .. L -> Accumulator] /\ IsScan(g, L, a, step)
      /\ h[P] = g[L]
  BY <1>3a DEF Scans
<1>4. ASSUME NEW u \in SUBSET P, u # {}
      PROVE  Max(u) \in u /\ Max(u) \in P /\ Tops(L)[u] = Max(u) /\ at[Max(u)] = Max(u)
  <2>1. Max(u) \in u
    BY <1>4, MaxOfPositions
  <2> QED
    BY <2>1 DEF Tops
<1> HIDE DEF at
<1>5. ASSUME NEW u \in SUBSET P
      PROVE  h[u] = IF u = {} THEN a ELSE Contribute(h[u \ {Max(u)}], n, cols, s, at[Max(u)])
  <2>1. CASE u = {}
    BY <1>3, <2>1 DEF IsFold
  <2>2. CASE u # {}
    <3>1. h[u] = step[<<Max(u), h[u \ {Max(u)}]>>]
      BY <1>3, <1>4, <2>2 DEF IsFold
    <3>2. Max(u) \in P /\ h[u \ {Max(u)}] \in Accumulator
      BY <1>3, <1>4, <2>2
    <3> QED
      BY <1>2a, <1>4, <2>2, <3>1, <3>2
  <2> QED
    BY <2>1, <2>2
<1>6. Sol(h)
  <2>1. h = [u \in SUBSET P |-> h[u]]
    BY <1>3 DEF IsFold
  <2> QED
    BY <1>5, <2>1
<1>7. Sol(F)
  BY <1>6
<1>8. \A u \in SUBSET P : F[u] = IF u = {} THEN a ELSE Contribute(F[u \ {Max(u)}], n, cols, s, at[Max(u)])
  BY <1>7
<1> HIDE DEF F, Sol
<1>9. \A u \in SUBSET P : F[u] = h[u]
  <2> DEFINE T == {u \in SUBSET P : F[u] = h[u]}
  <2>1. {} \in T
    BY <1>5, <1>8
  <2>2. ASSUME NEW u \in SUBSET P, u # {} PROVE \E x \in u : u \ {x} \in T => u \in T
    <3>1. Max(u) \in u /\ u \ {Max(u)} \in SUBSET P
      BY <1>4, <2>2
    <3>2. F[u] = Contribute(F[u \ {Max(u)}], n, cols, s, at[Max(u)])
      BY <1>8, <2>2
    <3>3. h[u] = Contribute(h[u \ {Max(u)}], n, cols, s, at[Max(u)])
      BY <1>5, <2>2
    <3> QED
      BY <3>1, <3>2, <3>3
  <2>3. IsFiniteSet(P)
    BY FS_Interval
  <2>4. \A u \in SUBSET P : u \in T
    <3> HIDE DEF T, P
    <3> QED
      BY <2>1, <2>2, <2>3, SubsetInduction
  <2> QED
    BY <2>4
<1>10. F[P] = g[L]
  BY <1>3, <1>9
<1>11. ASSUME NEW e \in 1 .. L PROVE g[e] = Contribute(g[e - 1], n, cols, s, e)
  <2>1. g[e] = step[<<e, g[e - 1]>>]
    BY <1>3 DEF IsScan
  <2>2. e - 1 \in 0 .. L
    OBVIOUS
  <2>3. g[e - 1] \in Accumulator
    BY <1>3, <2>2
  <2> QED
    BY <1>2a, <2>1, <2>3
<1>12. g[0] = a
  BY <1>3 DEF IsScan
<1> QED
  BY <1>1, <1>3, <1>10, <1>11, <1>12 DEF EffectsCourse

\* The rules are scanned in their order.
LEMMA RulesScanned ==
  ASSUME NEW n, NEW cols, NEW L \in Nat, NoContribution \in Accumulator, RulesTyped(n, cols, L)
  PROVE  \E g : RulesCourse(g, n, cols, L)
<1>0. /\ DOMAIN prog.srules = 1 .. L
      /\ \A b \in Accumulator, s \in 1 .. L : ContributeAll(b, n, cols, s) \in Accumulator
  BY DEF RulesTyped
<1> DEFINE P == 1 .. L
           at == [i \in P |-> i]
           a == NoContribution
           Sol(h) == h = [u \in SUBSET P |->
                            IF u = {} THEN a ELSE ContributeAll(h[u \ {Max(u)}], n, cols, at[Max(u)])]
           F == CHOOSE h : Sol(h)
           step == [p \in P \X Accumulator |-> ContributeAll(p[2], n, cols, p[1])]
<1>1. Accumulate(n, cols) = F[P]
  <2>1. DOMAIN [i \in P |-> i] = P
    OBVIOUS
  <2> QED
    BY <1>0, <2>1 DEF Accumulate, FoldLeftDomain, FoldLeft, MapThenFoldSet
<1> HIDE DEF a
<1>2. step \in [P \X Accumulator -> Accumulator] /\ a \in Accumulator
  BY <1>0 DEF a
<1>2a. \A e \in P, b \in Accumulator : step[<<e, b>>] = ContributeAll(b, n, cols, e)
  OBVIOUS
<1> HIDE DEF step
<1>3a. PICK h, g : Scans(h, g, L, Accumulator, a, step)
  BY <1>2, PositionsScanned
<1>3. /\ IsFold(h, P, Tops(L), a, step)
      /\ \A u \in SUBSET P : h[u] \in Accumulator
      /\ g \in [0 .. L -> Accumulator] /\ IsScan(g, L, a, step)
      /\ h[P] = g[L]
  BY <1>3a DEF Scans
<1>4. ASSUME NEW u \in SUBSET P, u # {}
      PROVE  Max(u) \in u /\ Max(u) \in P /\ Tops(L)[u] = Max(u) /\ at[Max(u)] = Max(u)
  <2>1. Max(u) \in u
    BY <1>4, MaxOfPositions
  <2> QED
    BY <2>1 DEF Tops
<1> HIDE DEF at
<1>5. ASSUME NEW u \in SUBSET P
      PROVE  h[u] = IF u = {} THEN a ELSE ContributeAll(h[u \ {Max(u)}], n, cols, at[Max(u)])
  <2>1. CASE u = {}
    BY <1>3, <2>1 DEF IsFold
  <2>2. CASE u # {}
    <3>1. h[u] = step[<<Max(u), h[u \ {Max(u)}]>>]
      BY <1>3, <1>4, <2>2 DEF IsFold
    <3>2. Max(u) \in P /\ h[u \ {Max(u)}] \in Accumulator
      BY <1>3, <1>4, <2>2
    <3> QED
      BY <1>2a, <1>4, <2>2, <3>1, <3>2
  <2> QED
    BY <2>1, <2>2
<1>6. Sol(h)
  <2>1. h = [u \in SUBSET P |-> h[u]]
    BY <1>3 DEF IsFold
  <2> QED
    BY <1>5, <2>1
<1>7. Sol(F)
  BY <1>6
<1>8. \A u \in SUBSET P : F[u] = IF u = {} THEN a ELSE ContributeAll(F[u \ {Max(u)}], n, cols, at[Max(u)])
  BY <1>7
<1> HIDE DEF F, Sol
<1>9. \A u \in SUBSET P : F[u] = h[u]
  <2> DEFINE T == {u \in SUBSET P : F[u] = h[u]}
  <2>1. {} \in T
    BY <1>5, <1>8
  <2>2. ASSUME NEW u \in SUBSET P, u # {} PROVE \E x \in u : u \ {x} \in T => u \in T
    <3>1. Max(u) \in u /\ u \ {Max(u)} \in SUBSET P
      BY <1>4, <2>2
    <3>2. F[u] = ContributeAll(F[u \ {Max(u)}], n, cols, at[Max(u)])
      BY <1>8, <2>2
    <3>3. h[u] = ContributeAll(h[u \ {Max(u)}], n, cols, at[Max(u)])
      BY <1>5, <2>2
    <3> QED
      BY <3>1, <3>2, <3>3
  <2>3. IsFiniteSet(P)
    BY FS_Interval
  <2>4. \A u \in SUBSET P : u \in T
    <3> HIDE DEF T, P
    <3> QED
      BY <2>1, <2>2, <2>3, SubsetInduction
  <2> QED
    BY <2>4
<1>10. F[P] = g[L]
  BY <1>3, <1>9
<1>11. ASSUME NEW e \in 1 .. L PROVE g[e] = ContributeAll(g[e - 1], n, cols, e)
  <2>1. g[e] = step[<<e, g[e - 1]>>]
    BY <1>3 DEF IsScan
  <2>2. e - 1 \in 0 .. L
    OBVIOUS
  <2>3. g[e - 1] \in Accumulator
    BY <1>3, <2>2
  <2> QED
    BY <1>2a, <2>1, <2>3
<1>12. g[0] = NoContribution
  BY <1>3 DEF IsScan, a
<1> QED
  BY <1>1, <1>3, <1>10, <1>11, <1>12 DEF RulesCourse

-----------------------------------------------------------------------------
(* Receipts.                                                               *)

\* One more line in a receipt.
LEMMA OneLineMore ==
  ASSUME NEW items \in Seq(ReceiptLine), NEW it \in ReceiptLine
  PROVE  /\ SumOfKept(items) \in Int
         /\ ~ it.defeated /\ it.op # "ASSIGN" => SumOfKept(Append(items, it)) = SumOfKept(items) + it.amount
         /\ it.defeated \/ it.op = "ASSIGN" => SumOfKept(Append(items, it)) = SumOfKept(items)
<1> DEFINE more == Append(items, it)
           L == Len(items)
           K == Kept(items)
           f == [k \in K |-> items[k].amount]
           g == [k \in Kept(more) |-> more[k].amount]
<1>1. /\ L \in Nat /\ DOMAIN items = 1 .. L /\ DOMAIN more = 1 .. (L + 1) /\ more[L + 1] = it
      /\ \A k \in 1 .. L : more[k] = items[k] /\ items[k] \in ReceiptLine
  OBVIOUS
<1> HIDE DEF more, L
<1>2. K \subseteq 1 .. L /\ L + 1 \notin K
  BY <1>1 DEF Kept
<1>3. IsFiniteSet(K)
  <2>1. IsFiniteSet(1 .. L)
    BY <1>1, FS_Interval
  <2> HIDE DEF K
  <2> QED
    BY <1>2, <2>1, FS_Subset
<1>4. ASSUME NEW k PROVE k \in Kept(more) <=> k \in K \/ (k = L + 1 /\ ~ it.defeated /\ it.op # "ASSIGN")
  <2>1. k \in Kept(more) <=> k \in 1 .. (L + 1) /\ ~ more[k].defeated /\ more[k].op # "ASSIGN"
    BY <1>1 DEF Kept
  <2>2. k \in K <=> k \in 1 .. L /\ ~ items[k].defeated /\ items[k].op # "ASSIGN"
    BY <1>1 DEF Kept
  <2>3. k \in 1 .. (L + 1) <=> k \in 1 .. L \/ k = L + 1
    BY <1>1
  <2> QED
    BY <1>1, <2>1, <2>2, <2>3
<1>5. f \in [K -> Int]
  <2>1. \A k \in K : items[k].amount \in Int
    BY <1>1, <1>2 DEF ReceiptLine
  <2> QED
    BY <2>1
<1>6. SumOfKept(items) = SumFunction(f) /\ SumOfKept(more) = SumFunction(g)
  BY DEF SumOfKept
<1> HIDE DEF K
<1>7. SumFunction(f) \in Int
  <2>1. PICK h : IsSum(h, f, K) /\ SumFunction(f) = h[K]
    <3> HIDE DEF f
    <3> QED
      BY <1>3, <1>5, SumIsFold
  <2> QED
    BY <2>1 DEF IsSum
<1>8. ASSUME ~ it.defeated, it.op # "ASSIGN" PROVE SumFunction(g) = SumFunction(f) + it.amount
  <2>1. Kept(more) = K \cup {L + 1}
    BY <1>4, <1>8
  <2>2. g \in [Kept(more) -> Int] /\ g[L + 1] = it.amount /\ AgreeOn(K, g, f)
    <3>1. \A k \in K \cup {L + 1} : more[k] \in ReceiptLine
      BY <1>1, <1>2
    <3>2. \A k \in K \cup {L + 1} : more[k].amount \in Int
      BY <3>1 DEF ReceiptLine
    <3>3. \A k \in K : more[k] = items[k]
      BY <1>1, <1>2
    <3> QED
      BY <1>1, <2>1, <3>2, <3>3 DEF AgreeOn
  <2>4. OneMore(Kept(more), K, L + 1)
    BY <1>2, <2>1 DEF OneMore
  <2> DEFINE x == L + 1
             R == Kept(more)
  <2>5. OneMore(R, K, x) /\ g \in [R -> Int] /\ AgreeOn(K, g, f)
    BY <2>2, <2>4
  <2> HIDE DEF f, g, x, R
  <2>6. SumFunction(f) \in Int /\ SumFunction(g) = SumFunction(f) + g[x]
    BY <1>3, <1>5, <2>5, SumGrows
  <2>3. SumFunction(f) \in Int /\ SumFunction(g) = SumFunction(f) + g[L + 1]
    BY <2>6 DEF x
  <2> QED
    BY <2>2, <2>3
<1>9. ASSUME it.defeated \/ it.op = "ASSIGN" PROVE g = f
  <2>1. Kept(more) = K
    BY <1>4, <1>9
  <2>2. \A k \in K : more[k] = items[k]
    BY <1>1, <1>2
  <2> QED
    BY <2>1, <2>2
<1> HIDE DEF f, g
<1> QED
  BY <1>6, <1>7, <1>8, <1>9 DEF more

\* A receipt without lines.
LEMMA NoLines == SumOfKept(<<>>) = 0
<1>1. Kept(<<>>) = {}
  BY DEF Kept
<1> DEFINE f == [k \in Kept(<<>>) |-> <<>>[k].amount]
<1>2. f \in [{} -> Int]
  BY <1>1
<1>3. SumOfKept(<<>>) = SumFunction(f)
  BY DEF SumOfKept
<1> HIDE DEF f
<1> QED
  BY <1>2, <1>3, SumOfNothing

\* What may stand before the lines of the scan: nothing, or an assignment.
Heads == {<<>>} \cup {<<Item(0, "ASSIGN", v, FALSE)>> : v \in Int}

\* The contributions kept are the same whatever stands before them.
LEMMA LinesAfterHead ==
  ASSUME NEW P \in Heads, NEW items \in Seq(ReceiptLine), NEW it \in ReceiptLine
  PROVE  /\ P \o items \in Seq(ReceiptLine)
         /\ P \o Append(items, it) = Append(P \o items, it)
<1>1. P \in Seq(ReceiptLine)
  <2>1. ASSUME NEW v \in Int PROVE <<Item(0, "ASSIGN", v, FALSE)>> \in Seq(ReceiptLine)
    <3>1. Item(0, "ASSIGN", v, FALSE) \in ReceiptLine
      BY DEF Item, ReceiptLine, NumOp
    <3>2. \A x \in ReceiptLine : <<x>> \in Seq(ReceiptLine)
      OBVIOUS
    <3> QED
      BY <3>1, <3>2, Zenon
  <2>2. <<>> \in Seq(ReceiptLine)
    OBVIOUS
  <2> QED
    BY <2>1, <2>2 DEF Heads
<1> QED
  BY <1>1

LEMMA HeadAlone ==
  ASSUME NEW P \in Heads
  PROVE  SumOfKept(P \o <<>>) = 0
<1>1. ASSUME NEW v \in Int PROVE SumOfKept(<<Item(0, "ASSIGN", v, FALSE)>>) = 0
  <2> DEFINE it == Item(0, "ASSIGN", v, FALSE)
  <2>1. it \in ReceiptLine /\ it.op = "ASSIGN" /\ <<>> \in Seq(ReceiptLine)
    BY DEF Item, ReceiptLine, NumOp
  <2>2. Append(<<>>, it) = <<it>>
    OBVIOUS
  <2> HIDE DEF it
  <2>3. SumOfKept(Append(<<>>, it)) = SumOfKept(<<>>)
    BY <2>1, OneLineMore
  <2> QED
    BY <2>2, <2>3, NoLines DEF it
<1>2. \A v \in Int : <<Item(0, "ASSIGN", v, FALSE)>> \o <<>> = <<Item(0, "ASSIGN", v, FALSE)>>
  OBVIOUS
<1>3. SumOfKept(<<>> \o <<>>) = 0
  <2>1. <<>> \o <<>> = <<>>
    OBVIOUS
  <2> QED
    BY <2>1, NoLines
<1>4. CASE P = <<>>
  BY <1>3, <1>4, Zenon
<1>5. ASSUME NEW v \in Int, P = <<Item(0, "ASSIGN", v, FALSE)>> PROVE SumOfKept(P \o <<>>) = 0
  BY <1>1, <1>2, <1>5, Zenon
<1> QED
  BY <1>4, <1>5, Zenon DEF Heads

-----------------------------------------------------------------------------
(* The accumulator.                                                        *)

\* What the effects X add up to, as they are read during the scan.
ValueNow(c) == EvalRHS(Effect(c).rhs)
DeltaNow(c) == Signed(Effect(c).op, ValueNow(c))
Given(X)    == {ValueNow(c) : c \in {x \in X : Effect(x).op = "ASSIGN"}}
Added(X)    == {x \in X : Effect(x).op # "ASSIGN"}
SumNow(X)   == SumFunction([c \in Added(X) |-> DeltaNow(c)])

Effects == UNION {{<<s, e>> : e \in DOMAIN prog.srules[s].neffs} : s \in DOMAIN prog.srules}

\* a is what the fired effects X on n make of an empty accumulator, under cols: the
\* join of the values assigned, the sum of the deltas, and receipt lines that show
\* that sum and, as defeated, only writers that did not fire.
JoinOf(a, n, V) ==
  /\ a.have <=> V # {}
  /\ a.have => a.val \in V
  /\ prog.decl[n].merge = "MAX" => \A v \in V : v <= a.val
  /\ prog.decl[n].merge = "MIN" => \A v \in V : a.val <= v
  /\ prog.decl[n].merge = "REGISTER" /\ ~ a.conflict => \A v \in V : v = a.val

LinesOf(items, n, cols, sum) ==
  /\ \A P \in Heads : SumOfKept(P \o items) = sum
  /\ \A k \in DOMAIN items : items[k].defeated => items[k].rule \in Writers(n) /\ ~ FiredUnder(cols, items[k].rule)

AccumulatorOf(a, n, cols, X) ==
  /\ a \in Accumulator
  /\ X \subseteq Effects /\ IsFiniteSet(X)
  /\ JoinOf(a, n, Given(X))
  /\ a.delta = SumNow(X)
  /\ LinesOf(a.items, n, cols, a.delta)

\* The stores hold numbers.
Readable == prog \in Programs /\ nums \in [Nums -> Int] /\ nextnum \in [Nums -> Int]

\* Every effect reads a number.
LEMMA EffectType ==
  ASSUME Readable, NEW s \in DOMAIN prog.srules, NEW e \in DOMAIN prog.srules[s].neffs
  PROVE  /\ s \in Nat /\ Effect(<<s, e>>) = prog.srules[s].neffs[e]
         /\ Effect(<<s, e>>) \in NumEffect /\ <<s, e>> \in Effects
         /\ ValueNow(<<s, e>>) \in Int /\ DeltaNow(<<s, e>>) \in Int
<1>1. prog.srules \in Seq(StepRule) /\ prog.srules[s] \in StepRule
  BY ProgramType DEF Readable
<1>2. s \in Nat
  BY <1>1
<1>3. prog.srules[s].neffs \in Seq(NumEffect)
  BY <1>1 DEF StepRule
<1>4. Effect(<<s, e>>) = prog.srules[s].neffs[e]
  BY DEF Effect
<1>5. Effect(<<s, e>>) \in NumEffect
  BY <1>3, <1>4
<1>6. ASSUME NEW rhs \in RHS PROVE EvalRHS(rhs) \in Int
  <2>1. CASE rhs.kind = "const"
    BY <2>1 DEF EvalRHS, RHS
  <2>2. CASE rhs.kind = "load"
    <3>1. rhs.arg \in Nums
      BY <2>2 DEF RHS
    <3>2. EvalRHS(rhs) = nums[rhs.arg]
      BY <2>2 DEF EvalRHS
    <3> QED
      BY <3>1, <3>2 DEF Readable
  <2>3. CASE rhs.kind = "loadn"
    <3>1. rhs.arg \in Nums
      BY <2>3 DEF RHS
    <3>2. EvalRHS(rhs) = nums[rhs.arg] \/ EvalRHS(rhs) = nextnum[rhs.arg]
      BY <2>3 DEF EvalRHS
    <3> QED
      BY <3>1, <3>2 DEF Readable
  <2> QED
    BY <2>1, <2>2, <2>3 DEF RHS
<1>7. ValueNow(<<s, e>>) \in Int
  BY <1>5, <1>6 DEF ValueNow, NumEffect
<1>8. DeltaNow(<<s, e>>) \in Int
  BY <1>7 DEF DeltaNow, Signed
<1>9. <<s, e>> \in Effects
  BY DEF Effects
<1> QED
  BY <1>2, <1>4, <1>5, <1>7, <1>8, <1>9

LEMMA EffectsType ==
  ASSUME Readable, NEW c \in Effects
  PROVE  ValueNow(c) \in Int /\ DeltaNow(c) \in Int
<1>1. PICK s \in DOMAIN prog.srules : \E e \in DOMAIN prog.srules[s].neffs : c = <<s, e>>
  BY DEF Effects
<1> QED
  BY <1>1, EffectType

\* Nothing has been scanned.
LEMMA AccumulatorOfNothing ==
  ASSUME NEW n, NEW cols
  PROVE  AccumulatorOf(NoContribution, n, cols, {})
<1>1. NoContribution \in Accumulator
  BY DEF NoContribution, Accumulator
<1>2. IsFiniteSet({})
  BY FS_EmptySet
<1>3. Given({}) = {} /\ Added({}) = {}
  BY DEF Given, Added
<1>4. SumNow({}) = 0
  <2> DEFINE f == [c \in Added({}) |-> DeltaNow(c)]
  <2>1. f \in [{} -> Int]
    BY <1>3
  <2>2. SumNow({}) = SumFunction(f)
    BY DEF SumNow
  <2> HIDE DEF f
  <2> QED
    BY <2>1, <2>2, SumOfNothing
<1>5. JoinOf(NoContribution, n, {})
  BY DEF JoinOf, NoContribution
<1>6. LinesOf(<<>>, n, cols, 0)
  BY HeadAlone DEF LinesOf
<1>7. NoContribution.delta = 0 /\ NoContribution.items = <<>>
  BY DEF NoContribution
<1> QED
  BY <1>1, <1>2, <1>3, <1>4, <1>5, <1>6, <1>7 DEF AccumulatorOf

\* One more line keeps what the lines say.
LEMMA LineAdded ==
  ASSUME NEW items \in Seq(ReceiptLine), NEW n, NEW cols, NEW sum, LinesOf(items, n, cols, sum),
         NEW it \in ReceiptLine,
         it.defeated => it.rule \in Writers(n) /\ ~ FiredUnder(cols, it.rule)
  PROVE  /\ ~ it.defeated /\ it.op # "ASSIGN" => LinesOf(Append(items, it), n, cols, sum + it.amount)
         /\ it.defeated => LinesOf(Append(items, it), n, cols, sum)
<1>1. ASSUME NEW P \in Heads
      PROVE  /\ ~ it.defeated /\ it.op # "ASSIGN" => SumOfKept(P \o Append(items, it)) = sum + it.amount
             /\ it.defeated => SumOfKept(P \o Append(items, it)) = sum
  <2> DEFINE all == P \o items
  <2>1. all \in Seq(ReceiptLine) /\ P \o Append(items, it) = Append(all, it)
    BY LinesAfterHead
  <2>2. SumOfKept(all) = sum
    BY DEF LinesOf
  <2> HIDE DEF all
  <2>3. /\ ~ it.defeated /\ it.op # "ASSIGN" => SumOfKept(Append(all, it)) = SumOfKept(all) + it.amount
        /\ it.defeated \/ it.op = "ASSIGN" => SumOfKept(Append(all, it)) = SumOfKept(all)
    BY <2>1, OneLineMore
  <2> QED
    BY <2>1, <2>2, <2>3
<1>2. ASSUME NEW k \in DOMAIN Append(items, it)
      PROVE  Append(items, it)[k] = it \/ (k \in DOMAIN items /\ Append(items, it)[k] = items[k])
  OBVIOUS
<1>3. \A k \in DOMAIN Append(items, it) :
        Append(items, it)[k].defeated =>
          Append(items, it)[k].rule \in Writers(n) /\ ~ FiredUnder(cols, Append(items, it)[k].rule)
  BY <1>2 DEF LinesOf
<1> QED
  BY <1>1, <1>3 DEF LinesOf

\* A number that is the greatest, or the least, of a set of numbers.
LEMMA GreatestIsMax ==
  ASSUME NEW S, S \subseteq Int, NEW m \in S
  PROVE  /\ (\A x \in S : x <= m) => Max(S) = m
         /\ (\A x \in S : m <= x) => Min(S) = m
<1>1. ASSUME \A x \in S : x <= m PROVE Max(S) = m
  <2>1. \A z \in S : (\A y \in S : z >= y) => z = m
    BY <1>1
  <2>2. \A y \in S : m >= y
    BY <1>1
  <2> QED
    BY <2>1, <2>2 DEF Max
<1>2. ASSUME \A x \in S : m <= x PROVE Min(S) = m
  <2>1. \A z \in S : (\A y \in S : z <= y) => z = m
    BY <1>2
  <2>2. \A y \in S : m <= y
    BY <1>2
  <2> QED
    BY <2>1, <2>2 DEF Min
<1> QED
  BY <1>1, <1>2

LEMMA OfTwo ==
  ASSUME NEW x \in Int, NEW y \in Int
  PROVE  /\ Max({x, y}) = IF x >= y THEN x ELSE y
         /\ Min({x, y}) = IF x <= y THEN x ELSE y
<1> DEFINE S == {x, y}
<1>1. S \subseteq Int /\ x \in S /\ y \in S /\ \A z \in S : z = x \/ z = y
  OBVIOUS
<1>2. x >= y => \A z \in S : z <= x
  OBVIOUS
<1>3. ~ (x >= y) => \A z \in S : z <= y
  OBVIOUS
<1>4. x <= y => \A z \in S : x <= z
  OBVIOUS
<1>5. ~ (x <= y) => \A z \in S : y <= z
  OBVIOUS
<1> HIDE DEF S
<1>6. /\ (\A z \in S : z <= x) => Max(S) = x
      /\ (\A z \in S : z <= y) => Max(S) = y
      /\ (\A z \in S : x <= z) => Min(S) = x
      /\ (\A z \in S : y <= z) => Min(S) = y
  BY <1>1, GreatestIsMax
<1> QED
  BY <1>2, <1>3, <1>4, <1>5, <1>6 DEF S

LEMMA DeclType ==
  ASSUME prog \in Programs, NEW n \in Nums
  PROVE  /\ prog.decl[n].merge \in Merge /\ prog.decl[n].ranged \in BOOLEAN
         /\ prog.decl[n].min \in Int /\ prog.decl[n].max \in Int
<1>1. prog \in Program
  BY WorldAssumption
<1>2. prog.decl \in [Nums -> NumDecl]
  BY <1>1 DEF Program
<1>3. prog.decl[n] \in NumDecl
  BY <1>2
<1> QED
  BY <1>3 DEF NumDecl

\* One more value is joined.
LEMMA ValueJoined ==
  ASSUME prog \in Programs, NEW n \in Nums, NEW a \in Accumulator, NEW V, V \subseteq Int, NEW v \in Int,
         JoinOf(a, n, V), NEW W, OneMore(W, V, v) \/ (v \in V /\ W = V)
  PROVE  /\ Join(prog.decl[n].merge, a, v) \in Accumulator
         /\ JoinOf(Join(prog.decl[n].merge, a, v), n, W)
         /\ Join(prog.decl[n].merge, a, v).delta = a.delta
         /\ Join(prog.decl[n].merge, a, v).items = a.items
<1> DEFINE m == prog.decl[n].merge
           b == Join(m, a, v)
<1>1. m \in Merge
  BY DeclType
<1>2. \A y : y \in W <=> y \in V \/ y = v
  BY DEF OneMore
<1>3. /\ a.have \in BOOLEAN /\ a.val \in Int /\ a.conflict \in BOOLEAN /\ a.delta \in Int
      /\ a.items \in Seq(ReceiptLine)
  BY DEF Accumulator
<1> HIDE DEF m
<1>4. CASE ~ a.have
  <2>1. b = [a EXCEPT !.have = TRUE, !.val = v]
    BY <1>4 DEF Join
  <2>2. b \in Accumulator /\ b.have = TRUE /\ b.val = v /\ b.delta = a.delta /\ b.items = a.items
    BY <1>3, <2>1 DEF Accumulator
  <2>3. \A y : y \in W <=> y = v
    BY <1>2, <1>4 DEF JoinOf
  <2> HIDE DEF b
  <2>4. JoinOf(b, n, W)
    BY <2>2, <2>3 DEF JoinOf
  <2> QED
    BY <2>2, <2>4 DEF b, m
<1>5. CASE a.have /\ m = "MIN"
  <2>1. b = [a EXCEPT !.val = Min({a.val, v})]
    BY <1>5 DEF Join
  <2>2. Min({a.val, v}) = IF a.val <= v THEN a.val ELSE v
    BY <1>3, OfTwo
  <2>3. b \in Accumulator /\ b.have = TRUE /\ b.delta = a.delta /\ b.items = a.items
        /\ b.val = IF a.val <= v THEN a.val ELSE v
    BY <1>3, <1>5, <2>1, <2>2 DEF Accumulator
  <2>4. a.val \in V /\ \A y \in V : a.val <= y /\ y \in Int
    BY <1>5 DEF JoinOf, m
  <2> HIDE DEF b
  <2>7. ASSUME a.val <= v PROVE b.val \in W /\ \A y \in W : b.val <= y
    <3>1. b.val = a.val /\ a.val \in Int
      BY <1>3, <2>3, <2>7
    <3>2. \A y \in W : b.val <= y
      BY <1>2, <2>4, <2>7, <3>1
    <3> QED
      BY <1>2, <2>4, <3>1, <3>2
  <2>8. ASSUME ~ (a.val <= v) PROVE b.val \in W /\ \A y \in W : b.val <= y
    <3>1. b.val = v /\ a.val \in Int
      BY <1>3, <2>3, <2>8
    <3>3. v < a.val
      BY <2>8, <3>1
    <3>4. ASSUME NEW y \in V PROVE v <= y
      <4>1. a.val <= y /\ y \in Int
        BY <2>4
      <4> QED
        BY <3>1, <3>3, <4>1
    <3>2. ASSUME NEW y \in W PROVE b.val <= y
      <4>1. y = v => b.val <= y
        BY <3>1
      <4>2. y \in V => y \in Int /\ b.val <= y
        BY <3>1, <3>4
      <4> QED
        BY <1>2, <4>1, <4>2
    <3> QED
      BY <1>2, <3>1, <3>2
  <2>5. b.val \in W /\ \A y \in W : b.val <= y
    BY <2>7, <2>8
  <2>6. JoinOf(b, n, W)
    BY <1>5, <2>3, <2>5 DEF JoinOf, m
  <2> QED
    BY <2>3, <2>6 DEF b, m
<1>6. CASE a.have /\ m = "MAX"
  <2>1. b = [a EXCEPT !.val = Max({a.val, v})]
    BY <1>6 DEF Join
  <2>2. Max({a.val, v}) = IF a.val >= v THEN a.val ELSE v
    BY <1>3, OfTwo
  <2>3. b \in Accumulator /\ b.have = TRUE /\ b.delta = a.delta /\ b.items = a.items
        /\ b.val = IF a.val >= v THEN a.val ELSE v
    BY <1>3, <1>6, <2>1, <2>2 DEF Accumulator
  <2>4. a.val \in V /\ \A y \in V : y <= a.val /\ y \in Int
    BY <1>6 DEF JoinOf, m
  <2> HIDE DEF b
  <2>7. ASSUME a.val >= v PROVE b.val \in W /\ \A y \in W : y <= b.val
    <3>1. b.val = a.val /\ a.val \in Int
      BY <1>3, <2>3, <2>7
    <3>2. \A y \in W : y <= b.val
      BY <1>2, <2>4, <2>7, <3>1
    <3> QED
      BY <1>2, <2>4, <3>1, <3>2
  <2>8. ASSUME ~ (a.val >= v) PROVE b.val \in W /\ \A y \in W : y <= b.val
    <3>1. b.val = v /\ a.val \in Int
      BY <1>3, <2>3, <2>8
    <3>3. a.val < v
      BY <2>8, <3>1
    <3>4. ASSUME NEW y \in V PROVE y <= v
      <4>1. y <= a.val /\ y \in Int
        BY <2>4
      <4> QED
        BY <3>1, <3>3, <4>1
    <3>2. ASSUME NEW y \in W PROVE y <= b.val
      <4>1. y = v => y <= b.val
        BY <3>1
      <4>2. y \in V => y \in Int /\ y <= b.val
        BY <3>1, <3>4
      <4> QED
        BY <1>2, <4>1, <4>2
    <3> QED
      BY <1>2, <3>1, <3>2
  <2>5. b.val \in W /\ \A y \in W : y <= b.val
    BY <2>7, <2>8
  <2>6. JoinOf(b, n, W)
    BY <1>6, <2>3, <2>5 DEF JoinOf, m
  <2> QED
    BY <2>3, <2>6 DEF b, m
<1>7. CASE a.have /\ m = "REGISTER"
  <2>1. b = [a EXCEPT !.conflict = a.conflict \/ v # a.val]
    BY <1>7 DEF Join
  <2>2. b \in Accumulator /\ b.have = TRUE /\ b.delta = a.delta /\ b.items = a.items
        /\ b.val = a.val /\ (b.conflict <=> a.conflict \/ v # a.val)
    BY <1>3, <1>7, <2>1 DEF Accumulator
  <2>3. a.val \in V /\ (~ a.conflict => \A y \in V : y = a.val)
    BY <1>7 DEF JoinOf, m
  <2> HIDE DEF b
  <2>4. b.val \in W /\ (~ b.conflict => \A y \in W : y = b.val)
    BY <1>2, <2>2, <2>3
  <2>5. JoinOf(b, n, W)
    BY <1>7, <2>2, <2>4 DEF JoinOf, m
  <2> QED
    BY <2>2, <2>5 DEF b, m
<1> QED
  BY <1>1, <1>4, <1>5, <1>6, <1>7 DEF Merge

\* What the effect <<s, e>> counts for in the scan for n.
Counted(n, cols, s, e) ==
  IF Effect(<<s, e>>).num = n /\ FiredUnder(cols, s) THEN {<<s, e>>} ELSE {}

\* One more effect among those scanned is one more value given, or one more delta.
LEMMA OneEffectMore ==
  ASSUME Readable, NEW X, X \subseteq Effects, IsFiniteSet(X), NEW c \in Effects, c \notin X
  PROVE  /\ IsFiniteSet(X \cup {c}) /\ X \cup {c} \subseteq Effects
         /\ Given(X) \subseteq Int
         /\ Effect(c).op = "ASSIGN" =>
              /\ OneMore(Given(X \cup {c}), Given(X), ValueNow(c))
                   \/ (ValueNow(c) \in Given(X) /\ Given(X \cup {c}) = Given(X))
              /\ SumNow(X \cup {c}) = SumNow(X)
         /\ Effect(c).op # "ASSIGN" =>
              /\ Given(X \cup {c}) = Given(X)
              /\ SumNow(X \cup {c}) = SumNow(X) + DeltaNow(c)
<1> DEFINE Y == X \cup {c}
<1>1. IsFiniteSet(Y) /\ Y \subseteq Effects
  BY FS_AddElement
<1>2. \A y : y \in Y <=> y \in X \/ y = c
  OBVIOUS
<1> HIDE DEF Y
<1>3. \A v : v \in Given(X) <=> \E x \in X : Effect(x).op = "ASSIGN" /\ v = ValueNow(x)
  BY DEF Given
<1>4. \A v : v \in Given(Y) <=> \E x \in Y : Effect(x).op = "ASSIGN" /\ v = ValueNow(x)
  BY DEF Given
<1>5. Given(X) \subseteq Int
  BY <1>3, EffectsType
<1>6. ASSUME Effect(c).op = "ASSIGN"
      PROVE  \A v : v \in Given(Y) <=> v \in Given(X) \/ v = ValueNow(c)
  BY <1>2, <1>3, <1>4, <1>6
<1>7. ASSUME Effect(c).op # "ASSIGN" PROVE Given(Y) = Given(X)
  BY <1>2, <1>3, <1>4, <1>7
<1> DEFINE f == [x \in Added(X) |-> DeltaNow(x)]
           g == [x \in Added(Y) |-> DeltaNow(x)]
<1>8. SumNow(X) = SumFunction(f) /\ SumNow(Y) = SumFunction(g)
  BY DEF SumNow
<1>9. Added(X) \subseteq X /\ Added(Y) \subseteq Y
  BY DEF Added
<1>10. f \in [Added(X) -> Int] /\ g \in [Added(Y) -> Int]
  <2>1. (\A x \in Added(X) : DeltaNow(x) \in Int) /\ (\A x \in Added(Y) : DeltaNow(x) \in Int)
    BY <1>1, <1>9, EffectsType
  <2> QED
    BY <2>1
<1>11. ASSUME Effect(c).op = "ASSIGN" PROVE SumNow(Y) = SumNow(X)
  <2>1. Added(Y) = Added(X)
    BY <1>2, <1>11 DEF Added
  <2> QED
    BY <2>1 DEF SumNow
<1>12. ASSUME Effect(c).op # "ASSIGN" PROVE SumNow(Y) = SumNow(X) + DeltaNow(c)
  <2>1. OneMore(Added(Y), Added(X), c)
    BY <1>2, <1>12 DEF Added, OneMore
  <2>2. AgreeOn(Added(X), g, f) /\ g[c] = DeltaNow(c)
    BY <2>1 DEF AgreeOn, OneMore
  <2>3. IsFiniteSet(Added(X))
    BY <1>9, FS_Subset
  <2> HIDE DEF f, g
  <2> DEFINE A == Added(X)
             B == Added(Y)
  <2>4. IsFiniteSet(A) /\ OneMore(B, A, c) /\ g \in [B -> Int] /\ f \in [A -> Int] /\ AgreeOn(A, g, f)
    BY <1>10, <2>1, <2>2, <2>3
  <2> HIDE DEF A, B
  <2>5. SumFunction(f) \in Int /\ SumFunction(g) = SumFunction(f) + g[c]
    BY <2>4, SumGrows
  <2> QED
    BY <1>8, <2>2, <2>5
<1>13. Effect(c).op = "ASSIGN" =>
         OneMore(Given(Y), Given(X), ValueNow(c)) \/ (ValueNow(c) \in Given(X) /\ Given(Y) = Given(X))
  <2>1. SUFFICES ASSUME Effect(c).op = "ASSIGN"
                 PROVE  OneMore(Given(Y), Given(X), ValueNow(c))
                          \/ (ValueNow(c) \in Given(X) /\ Given(Y) = Given(X))
    OBVIOUS
  <2>2. \A v : v \in Given(Y) <=> v \in Given(X) \/ v = ValueNow(c)
    BY <1>6, <2>1
  <2>3. CASE ValueNow(c) \in Given(X)
    <3>1. Given(Y) = Given(X)
      BY <2>2, <2>3
    <3> QED
      BY <2>3, <3>1
  <2>4. CASE ValueNow(c) \notin Given(X)
    BY <2>2, <2>4 DEF OneMore
  <2> QED
    BY <2>3, <2>4
<1> HIDE DEF f, g
<1> QED
  BY <1>1, <1>5, <1>7, <1>11, <1>12, <1>13 DEF Y

\* The scan of one effect.
LEMMA EffectScanned ==
  ASSUME Readable, NEW n \in Nums, NEW cols, NEW s \in DOMAIN prog.srules,
         NEW e \in DOMAIN prog.srules[s].neffs, NEW a, NEW X, AccumulatorOf(a, n, cols, X), <<s, e>> \notin X
  PROVE  AccumulatorOf(Contribute(a, n, cols, s, e), n, cols, X \cup Counted(n, cols, s, e))
<1> DEFINE c  == <<s, e>>
           r  == prog.srules[s]
           ef == Effect(c)
           b  == Contribute(a, n, cols, s, e)
           Y  == X \cup {c}
<1>1. /\ s \in Nat /\ ef = r.neffs[e] /\ ef \in NumEffect /\ c \in Effects
      /\ ValueNow(c) \in Int /\ DeltaNow(c) \in Int
  BY EffectType
<1>2. /\ a \in Accumulator /\ X \subseteq Effects /\ IsFiniteSet(X) /\ JoinOf(a, n, Given(X))
      /\ a.delta = SumNow(X) /\ LinesOf(a.items, n, cols, a.delta)
  BY DEF AccumulatorOf
<1>3. /\ a.have \in BOOLEAN /\ a.val \in Int /\ a.conflict \in BOOLEAN /\ a.delta \in Int
      /\ a.items \in Seq(ReceiptLine)
  BY <1>2 DEF Accumulator
<1>4. FiredUnder(cols, s) <=> RuleFired(r, ActSet, cols)
  BY DEF FiredUnder
<1>5. ef.op \in NumOp
  BY <1>1 DEF NumEffect
<1>6. \A d \in BOOLEAN : /\ Item(s, ef.op, DeltaNow(c), d) \in ReceiptLine
                         /\ Item(s, ef.op, DeltaNow(c), d).defeated = d
                         /\ Item(s, ef.op, DeltaNow(c), d).op = ef.op
                         /\ Item(s, ef.op, DeltaNow(c), d).rule = s
                         /\ Item(s, ef.op, DeltaNow(c), d).amount = DeltaNow(c)
  BY <1>1, <1>5 DEF Item, ReceiptLine
<1>7. ef.num = n => s \in Writers(n)
  BY <1>1 DEF Writers, Writes
<1>8. b = IF ef.num # n THEN a
          ELSE IF FiredUnder(cols, s)
            THEN IF ef.op = "ASSIGN" THEN Join(prog.decl[n].merge, a, ValueNow(c))
                 ELSE [a EXCEPT !.delta = @ + DeltaNow(c), !.items = Append(@, Item(s, ef.op, DeltaNow(c), FALSE))]
          ELSE IF r.action # NoAction /\ r.action \in ActSet
            THEN [a EXCEPT !.items = Append(@, Item(s, ef.op, DeltaNow(c), TRUE))]
          ELSE a
  BY <1>1, <1>4 DEF Contribute, ValueNow, DeltaNow
<1>9. /\ IsFiniteSet(Y) /\ Y \subseteq Effects /\ Given(X) \subseteq Int
      /\ ef.op = "ASSIGN" =>
           /\ OneMore(Given(Y), Given(X), ValueNow(c)) \/ (ValueNow(c) \in Given(X) /\ Given(Y) = Given(X))
           /\ SumNow(Y) = SumNow(X)
      /\ ef.op # "ASSIGN" => Given(Y) = Given(X) /\ SumNow(Y) = SumNow(X) + DeltaNow(c)
  BY <1>1, <1>2, OneEffectMore
<1>10. Counted(n, cols, s, e) = IF ef.num = n /\ FiredUnder(cols, s) THEN {c} ELSE {}
  BY DEF Counted
<1>11. X \cup {} = X
  OBVIOUS
<1>y. X \cup {c} = Y
  OBVIOUS
<1>pr. prog \in Programs
  BY DEF Readable
<1> HIDE DEF b, ef, c, r, Y
<1>12. CASE ef.num # n \/ (~ FiredUnder(cols, s) /\ ~ (r.action # NoAction /\ r.action \in ActSet))
  <2>1. b = a /\ Counted(n, cols, s, e) = {}
    BY <1>8, <1>10, <1>12
  <2> QED
    BY <1>11, <2>1 DEF b
<1>13. CASE ef.num = n /\ FiredUnder(cols, s) /\ ef.op = "ASSIGN"
  <2>1. b = Join(prog.decl[n].merge, a, ValueNow(c)) /\ Counted(n, cols, s, e) = {c}
    BY <1>8, <1>10, <1>13
  <2> DEFINE V == Given(X)
             W == Given(Y)
             v == ValueNow(c)
  <2>2. /\ V \subseteq Int /\ v \in Int /\ JoinOf(a, n, V)
        /\ OneMore(W, V, v) \/ (v \in V /\ W = V)
    BY <1>1, <1>2, <1>9, <1>13
  <2>3. /\ b \in Accumulator /\ JoinOf(b, n, W) /\ b.delta = a.delta /\ b.items = a.items
    <3> HIDE DEF V, W, v
    <3>1. b = Join(prog.decl[n].merge, a, v)
      BY <2>1 DEF v
    <3> QED
      BY <1>2, <1>pr, <2>2, <3>1, ValueJoined
  <2>4. AccumulatorOf(b, n, cols, Y)
    BY <1>2, <1>9, <1>13, <2>3 DEF AccumulatorOf
  <2> QED
    BY <1>y, <2>1, <2>4 DEF b
<1>14. CASE ef.num = n /\ FiredUnder(cols, s) /\ ef.op # "ASSIGN"
  <2> DEFINE it == Item(s, ef.op, DeltaNow(c), FALSE)
  <2>1. b = [a EXCEPT !.delta = @ + DeltaNow(c), !.items = Append(@, it)] /\ Counted(n, cols, s, e) = {c}
    BY <1>8, <1>10, <1>14
  <2>2. it \in ReceiptLine /\ it.defeated = FALSE /\ it.op # "ASSIGN" /\ it.amount = DeltaNow(c)
    BY <1>6, <1>14
  <2> HIDE DEF it
  <2>3. Append(a.items, it) \in Seq(ReceiptLine) /\ a.delta + DeltaNow(c) \in Int
    BY <1>1, <1>3, <2>2
  <2>4. /\ b \in Accumulator /\ b.have = a.have /\ b.val = a.val /\ b.conflict = a.conflict
        /\ b.delta = a.delta + DeltaNow(c) /\ b.items = Append(a.items, it)
    BY <1>2, <1>3, <2>1, <2>3 DEF Accumulator
  <2>5. LinesOf(Append(a.items, it), n, cols, a.delta + it.amount)
    BY <1>2, <1>3, <2>2, LineAdded
  <2>6. JoinOf(b, n, Given(Y))
    BY <1>2, <1>9, <1>14, <2>4 DEF JoinOf
  <2>7. AccumulatorOf(b, n, cols, Y)
    BY <1>2, <1>9, <1>14, <2>2, <2>4, <2>5, <2>6 DEF AccumulatorOf
  <2> QED
    BY <1>y, <2>1, <2>7 DEF b
<1>15. CASE ef.num = n /\ ~ FiredUnder(cols, s) /\ r.action # NoAction /\ r.action \in ActSet
  <2> DEFINE it == Item(s, ef.op, DeltaNow(c), TRUE)
  <2>1. b = [a EXCEPT !.items = Append(@, it)] /\ Counted(n, cols, s, e) = {}
    BY <1>8, <1>10, <1>15
  <2>2. it \in ReceiptLine /\ it.defeated = TRUE /\ it.rule = s /\ s \in Writers(n)
    BY <1>6, <1>7, <1>15
  <2> HIDE DEF it
  <2>3. Append(a.items, it) \in Seq(ReceiptLine)
    BY <1>3, <2>2
  <2>4. /\ b \in Accumulator /\ b.have = a.have /\ b.val = a.val /\ b.conflict = a.conflict
        /\ b.delta = a.delta /\ b.items = Append(a.items, it)
    BY <1>2, <1>3, <2>1, <2>3 DEF Accumulator
  <2>5. LinesOf(Append(a.items, it), n, cols, a.delta)
    BY <1>2, <1>3, <1>15, <2>2, LineAdded
  <2>6. JoinOf(b, n, Given(X))
    BY <1>2, <2>4 DEF JoinOf
  <2>7. AccumulatorOf(b, n, cols, X)
    BY <1>2, <2>4, <2>5, <2>6 DEF AccumulatorOf
  <2> QED
    BY <1>11, <2>1, <2>7 DEF b
<1> QED
  BY <1>12, <1>13, <1>14, <1>15

\* What holds before the first position, and at each position once it holds at the
\* one before, holds at every position.
LEMMA ByPositions ==
  ASSUME NEW n \in Nat, NEW T, 0 \in T, \A k \in 1 .. n : k - 1 \in T => k \in T
  PROVE  \A k \in 0 .. n : k \in T
<1> DEFINE Bad == {k \in 0 .. n : k \notin T}
<1>1. SUFFICES ASSUME Bad # {} PROVE FALSE
  OBVIOUS
<1>2. PICK k \in Bad : \A m \in Bad : k <= m
  <2>1. Bad \subseteq Nat
    OBVIOUS
  <2> HIDE DEF Bad
  <2> QED
    BY <1>1, <2>1, LeastNumber
<1>3. k \in 1 .. n /\ k - 1 \in 0 .. n
  OBVIOUS
<1>4. k - 1 \in T
  <2>1. k - 1 \notin Bad
    BY <1>2, <1>3
  <2> QED
    BY <1>3, <2>1
<1> QED
  BY <1>3, <1>4

LEMMA JoinType ==
  ASSUME NEW m \in Merge, NEW a \in Accumulator, NEW v \in Int
  PROVE  Join(m, a, v) \in Accumulator
<1>1. /\ a.have \in BOOLEAN /\ a.val \in Int /\ a.conflict \in BOOLEAN /\ a.delta \in Int
      /\ a.items \in Seq(ReceiptLine)
  BY DEF Accumulator
<1>2. Max({a.val, v}) \in Int /\ Min({a.val, v}) \in Int
  BY <1>1, OfTwo
<1>3. CASE ~ a.have
  BY <1>1, <1>3 DEF Join, Accumulator
<1>4. CASE a.have /\ m = "MIN"
  BY <1>1, <1>2, <1>4 DEF Join, Accumulator
<1>5. CASE a.have /\ m = "MAX"
  BY <1>1, <1>2, <1>5 DEF Join, Accumulator
<1>6. CASE a.have /\ m = "REGISTER"
  BY <1>1, <1>6 DEF Join, Accumulator
<1> QED
  BY <1>1, <1>3, <1>4, <1>5, <1>6 DEF Merge

LEMMA ContributeType ==
  ASSUME Readable, NEW n \in Nums, NEW cols, NEW s \in DOMAIN prog.srules,
         NEW e \in DOMAIN prog.srules[s].neffs, NEW a \in Accumulator
  PROVE  Contribute(a, n, cols, s, e) \in Accumulator
<1> DEFINE c  == <<s, e>>
           r  == prog.srules[s]
           ef == Effect(c)
           b  == Contribute(a, n, cols, s, e)
<1>1. /\ s \in Nat /\ ef = r.neffs[e] /\ ef \in NumEffect /\ ValueNow(c) \in Int /\ DeltaNow(c) \in Int
  BY EffectType
<1>2. /\ a.have \in BOOLEAN /\ a.val \in Int /\ a.conflict \in BOOLEAN /\ a.delta \in Int
      /\ a.items \in Seq(ReceiptLine)
  BY DEF Accumulator
<1>3. \A d \in BOOLEAN : Item(s, ef.op, DeltaNow(c), d) \in ReceiptLine
  BY <1>1 DEF Item, ReceiptLine, NumEffect
<1>4. Join(prog.decl[n].merge, a, ValueNow(c)) \in Accumulator
  BY <1>1, DeclType, JoinType DEF Readable
<1>5. \/ b = a \/ b = Join(prog.decl[n].merge, a, ValueNow(c))
      \/ b = [a EXCEPT !.delta = @ + DeltaNow(c), !.items = Append(@, Item(s, ef.op, DeltaNow(c), FALSE))]
      \/ b = [a EXCEPT !.items = Append(@, Item(s, ef.op, DeltaNow(c), TRUE))]
  BY <1>1 DEF Contribute, ValueNow, DeltaNow
<1>6. ASSUME NEW d \in BOOLEAN PROVE Append(a.items, Item(s, ef.op, DeltaNow(c), d)) \in Seq(ReceiptLine)
  BY <1>2, <1>3
<1>7. a.delta + DeltaNow(c) \in Int
  BY <1>1, <1>2
<1> HIDE DEF b, ef, c, r
<1>8. [a EXCEPT !.delta = @ + DeltaNow(c), !.items = Append(@, Item(s, ef.op, DeltaNow(c), FALSE))] \in Accumulator
  BY <1>2, <1>6, <1>7 DEF Accumulator
<1>9. [a EXCEPT !.items = Append(@, Item(s, ef.op, DeltaNow(c), TRUE))] \in Accumulator
  BY <1>2, <1>6 DEF Accumulator
<1> QED
  BY <1>4, <1>5, <1>8, <1>9 DEF b

\* What the first k effects of rule s count for, and all effects of the first k rules.
CountedTo(n, cols, s, k) == UNION {Counted(n, cols, s, e) : e \in 1 .. k}
ScannedTo(n, cols, k) == UNION {CountedTo(n, cols, s, Len(prog.srules[s].neffs)) : s \in 1 .. k}

LEMMA CountedReading ==
  ASSUME NEW n, NEW cols, NEW s
  PROVE  \A k : \A c : c \in CountedTo(n, cols, s, k) <=> \E e \in 1 .. k : c \in Counted(n, cols, s, e)
BY DEF CountedTo

LEMMA ScannedReading ==
  ASSUME NEW n, NEW cols
  PROVE  \A k : \A c : c \in ScannedTo(n, cols, k)
                         <=> \E s \in 1 .. k : c \in CountedTo(n, cols, s, Len(prog.srules[s].neffs))
BY DEF ScannedTo

\* The scan of one rule.
LEMMA RuleScanned ==
  ASSUME Readable, NEW n \in Nums, NEW cols, NEW s \in DOMAIN prog.srules,
         NEW a, NEW X, AccumulatorOf(a, n, cols, X), \A e : <<s, e>> \notin X
  PROVE  AccumulatorOf(ContributeAll(a, n, cols, s), n, cols,
                       X \cup CountedTo(n, cols, s, Len(prog.srules[s].neffs)))
<1> DEFINE L == Len(prog.srules[s].neffs)
<1>1. L \in Nat /\ DOMAIN prog.srules[s].neffs = 1 .. L
  <2>1. prog.srules[s].neffs \in Seq(NumEffect)
    BY ProgramType DEF Readable, StepRule
  <2> QED
    BY <2>1
<1>2. a \in Accumulator
  BY DEF AccumulatorOf
<1>3. \A b \in Accumulator, e \in 1 .. L : Contribute(b, n, cols, s, e) \in Accumulator
  BY <1>1, ContributeType
<1> HIDE DEF L
<1>4a. PICK g : EffectsCourse(g, a, n, cols, s, L)
  <2>1. EffectsTyped(n, cols, s, L)
    BY <1>1, <1>3 DEF EffectsTyped
  <2> QED
    BY <1>1, <1>2, <2>1, EffectsScanned
<1>4. /\ g \in [0 .. L -> Accumulator]
      /\ g[0] = a
      /\ \A e \in 1 .. L : g[e] = Contribute(g[e - 1], n, cols, s, e)
      /\ ContributeAll(a, n, cols, s) = g[L]
  BY <1>4a DEF EffectsCourse
<1> DEFINE S(k) == X \cup CountedTo(n, cols, s, k)
           T == {k \in 0 .. L : AccumulatorOf(g[k], n, cols, S(k))}
<1>5. 0 \in T
  <2>1. \A c : c \notin CountedTo(n, cols, s, 0)
    <3>1. \A e : e \notin 1 .. 0
      OBVIOUS
    <3> QED
      BY <3>1, CountedReading
  <2>2. S(0) = X
    BY <2>1
  <2>3. 0 \in 0 .. L
    BY <1>1
  <2> QED
    BY <1>4, <2>2, <2>3
<1>6. ASSUME NEW k \in 1 .. L, k - 1 \in T PROVE k \in T
  <2>1. AccumulatorOf(g[k - 1], n, cols, S(k - 1))
    BY <1>6
  <2>2. <<s, k>> \notin S(k - 1)
    <3>1. \A e \in 1 .. (k - 1) : e # k
      BY <1>1
    <3>2. \A e \in 1 .. (k - 1) : <<s, k>> \notin Counted(n, cols, s, e)
      BY <3>1 DEF Counted
    <3>3. <<s, k>> \notin CountedTo(n, cols, s, k - 1)
      BY <3>2, CountedReading
    <3> QED
      BY <3>3
  <2>3. S(k) = S(k - 1) \cup Counted(n, cols, s, k)
    <3>1. \A e : e \in 1 .. k <=> e \in 1 .. (k - 1) \/ e = k
      BY <1>1
    <3>2. \A c : c \in CountedTo(n, cols, s, k)
                   <=> c \in CountedTo(n, cols, s, k - 1) \/ c \in Counted(n, cols, s, k)
      BY <3>1, CountedReading
    <3> QED
      BY <3>2
  <2>4. k \in DOMAIN prog.srules[s].neffs /\ k \in 0 .. L
    BY <1>1
  <2> HIDE DEF S
  <2>5. AccumulatorOf(Contribute(g[k - 1], n, cols, s, k), n, cols, S(k - 1) \cup Counted(n, cols, s, k))
    BY <2>1, <2>2, <2>4, EffectScanned
  <2>6. AccumulatorOf(g[k], n, cols, S(k))
    BY <1>4, <2>3, <2>5
  <2> QED
    BY <2>4, <2>6
<1>7. \A k \in 0 .. L : k \in T
  <2> HIDE DEF T
  <2> QED
    BY <1>1, <1>5, <1>6, ByPositions
<1>8. L \in 0 .. L
  BY <1>1
<1>9. AccumulatorOf(g[L], n, cols, S(L))
  BY <1>7, <1>8
<1> QED
  BY <1>4, <1>9 DEF L

LEMMA ContributeAllType ==
  ASSUME Readable, NEW n \in Nums, NEW cols, NEW s \in DOMAIN prog.srules, NEW a \in Accumulator
  PROVE  ContributeAll(a, n, cols, s) \in Accumulator
<1> DEFINE L == Len(prog.srules[s].neffs)
<1>1. L \in Nat /\ DOMAIN prog.srules[s].neffs = 1 .. L
  <2>1. prog.srules[s].neffs \in Seq(NumEffect)
    BY ProgramType DEF Readable, StepRule
  <2> QED
    BY <2>1
<1>3. \A b \in Accumulator, e \in 1 .. L : Contribute(b, n, cols, s, e) \in Accumulator
  BY <1>1, ContributeType
<1> HIDE DEF L
<1>4a. PICK g : EffectsCourse(g, a, n, cols, s, L)
  <2>1. EffectsTyped(n, cols, s, L)
    BY <1>1, <1>3 DEF EffectsTyped
  <2> QED
    BY <1>1, <2>1, EffectsScanned
<1>4. g \in [0 .. L -> Accumulator] /\ ContributeAll(a, n, cols, s) = g[L]
  BY <1>4a DEF EffectsCourse
<1> QED
  BY <1>1, <1>4

\* The scan accumulates exactly the fired effects.
LEMMA ScanAccumulates ==
  ASSUME Readable, NEW n \in Nums, NEW cols
  PROVE  AccumulatorOf(Accumulate(n, cols), n, cols, FiredEffects(cols, n))
<1> DEFINE L == Len(prog.srules)
<1>1. L \in Nat /\ DOMAIN prog.srules = 1 .. L
  <2>1. prog.srules \in Seq(StepRule)
    BY ProgramType DEF Readable
  <2> QED
    BY <2>1
<1>2. NoContribution \in Accumulator
  BY AccumulatorOfNothing DEF AccumulatorOf
<1>3. \A b \in Accumulator, s \in 1 .. L : ContributeAll(b, n, cols, s) \in Accumulator
  BY <1>1, ContributeAllType
<1> HIDE DEF L
<1>4a. PICK g : RulesCourse(g, n, cols, L)
  <2>1. RulesTyped(n, cols, L)
    BY <1>1, <1>3 DEF RulesTyped
  <2> QED
    BY <1>1, <1>2, <2>1, RulesScanned
<1>4. /\ g \in [0 .. L -> Accumulator]
      /\ g[0] = NoContribution
      /\ \A s \in 1 .. L : g[s] = ContributeAll(g[s - 1], n, cols, s)
      /\ Accumulate(n, cols) = g[L]
  BY <1>4a DEF RulesCourse
<1> DEFINE S(k) == ScannedTo(n, cols, k)
           T == {k \in 0 .. L : AccumulatorOf(g[k], n, cols, S(k))}
<1>5. 0 \in T
  <2>1. \A c : c \notin S(0)
    <3>1. \A e : e \notin 1 .. 0
      OBVIOUS
    <3> QED
      BY <3>1, ScannedReading
  <2>2. S(0) = {}
    BY <2>1
  <2>3. 0 \in 0 .. L
    BY <1>1
  <2> QED
    BY <1>4, <2>2, <2>3, AccumulatorOfNothing
<1>6. ASSUME NEW k \in 1 .. L, k - 1 \in T PROVE k \in T
  <2> DEFINE C(s) == CountedTo(n, cols, s, Len(prog.srules[s].neffs))
  <2>1. AccumulatorOf(g[k - 1], n, cols, S(k - 1))
    BY <1>6
  <2>2. \A e : <<k, e>> \notin S(k - 1)
    <3>1. \A s \in 1 .. (k - 1) : s # k
      BY <1>1
    <3>2. \A s, e, x : <<k, e>> \in Counted(n, cols, s, x) => s = k
      BY DEF Counted
    <3>3. \A s, e : <<k, e>> \in C(s) => s = k
      BY <3>2, CountedReading
    <3>4. \A c : c \in S(k - 1) => \E s \in 1 .. (k - 1) : c \in C(s)
      BY ScannedReading
    <3> HIDE DEF S, C
    <3> QED
      BY <3>1, <3>3, <3>4
  <2>3. S(k) = S(k - 1) \cup C(k)
    <3>1. \A e : e \in 1 .. k <=> e \in 1 .. (k - 1) \/ e = k
      BY <1>1
    <3>2. \A c : c \in S(k) <=> c \in S(k - 1) \/ c \in C(k)
      BY <3>1, ScannedReading
    <3> QED
      BY <3>2
  <2>4. k \in DOMAIN prog.srules /\ k \in 0 .. L
    BY <1>1
  <2> HIDE DEF S
  <2>5. AccumulatorOf(ContributeAll(g[k - 1], n, cols, k), n, cols, S(k - 1) \cup C(k))
    BY <2>1, <2>2, <2>4, RuleScanned
  <2>6. AccumulatorOf(g[k], n, cols, S(k))
    BY <1>4, <2>3, <2>5
  <2> QED
    BY <2>4, <2>6
<1>7. \A k \in 0 .. L : k \in T
  <2> HIDE DEF T
  <2> QED
    BY <1>1, <1>5, <1>6, ByPositions
<1>8. L \in 0 .. L
  BY <1>1
<1>9. AccumulatorOf(g[L], n, cols, S(L))
  BY <1>7, <1>8
<1>10. S(L) = FiredEffects(cols, n)
  <2>1. ASSUME NEW s \in 1 .. L PROVE DOMAIN prog.srules[s].neffs = 1 .. Len(prog.srules[s].neffs)
    <3>1. prog.srules[s].neffs \in Seq(NumEffect)
      BY <1>1, ProgramType DEF Readable, StepRule
    <3> QED
      BY <3>1
  <2>2. ASSUME NEW c
        PROVE  c \in S(L) <=> \E s \in 1 .. L : \E e \in DOMAIN prog.srules[s].neffs :
                                 c = <<s, e>> /\ Effect(<<s, e>>).num = n /\ FiredUnder(cols, s)
    <3>1. \A s, e : c \in Counted(n, cols, s, e)
                      <=> c = <<s, e>> /\ Effect(<<s, e>>).num = n /\ FiredUnder(cols, s)
      BY DEF Counted
    <3>2. c \in S(L) <=> \E s \in 1 .. L : c \in CountedTo(n, cols, s, Len(prog.srules[s].neffs))
      BY ScannedReading
    <3>3. ASSUME NEW s \in 1 .. L
          PROVE  c \in CountedTo(n, cols, s, Len(prog.srules[s].neffs))
                   <=> \E e \in DOMAIN prog.srules[s].neffs : c \in Counted(n, cols, s, e)
      <4>1. DOMAIN prog.srules[s].neffs = 1 .. Len(prog.srules[s].neffs)
        BY <2>1
      <4> QED
        BY <4>1, CountedReading
    <3> HIDE DEF S
    <3> QED
      BY <3>1, <3>2, <3>3
  <2>3. ASSUME NEW c
        PROVE  c \in FiredEffects(cols, n) <=> \E s \in 1 .. L : \E e \in DOMAIN prog.srules[s].neffs :
                                 c = <<s, e>> /\ Effect(<<s, e>>).num = n /\ FiredUnder(cols, s)
    <3>1. c \in FiredEffects(cols, n) <=> c \in Effects /\ Effect(c).num = n /\ FiredUnder(cols, c[1])
      BY DEF FiredEffects, Effects
    <3>2. c \in Effects <=> \E s \in 1 .. L : \E e \in DOMAIN prog.srules[s].neffs : c = <<s, e>>
      BY <1>1 DEF Effects
    <3>3. \A s, e : <<s, e>>[1] = s
      OBVIOUS
    <3> QED
      BY <3>1, <3>2, <3>3
  <2> QED
    BY <2>2, <2>3
<1> QED
  BY <1>4, <1>9, <1>10

-----------------------------------------------------------------------------
(* A rule fires in the solve of its stratum as it does in every later one. *)

\* A number settles no lower than the rules that write it.
LEMMA WriterBelow ==
  ASSUME prog \in Programs, NEW n \in Nums, NEW s \in Writers(n)
  PROVE  s \in DOMAIN prog.srules /\ prog.srules[s].stratum <= NumStratum(n)
<1> DEFINE S == {0} \cup {prog.srules[w].stratum : w \in Writers(n)}
<1>1. Writers(n) \in SUBSET DOMAIN prog.srules
  BY DEF Writers
<1>2. S \in SUBSET Nat /\ IsFiniteSet(S) /\ S # {}
  BY <1>1, StrataFinite
<1>3. \A y \in S : y <= Max(S)
  <2> HIDE DEF S
  <2> QED
    BY <1>2, MaxOfNats
<1>4. prog.srules[s].stratum \in S
  OBVIOUS
<1> QED
  BY <1>1, <1>3, <1>4 DEF NumStratum

\* What is decided once the strata up to k are settled: everything about the current
\* state, the guards minted below k, and the next values no rule above k writes.
NextUpTo(k) ==
  {f \in Fluents \cup Emits :
     \A s \in DOMAIN prog.srules : \A e \in prog.srules[s].effects :
       AtomOf(e) = f => prog.srules[s].stratum <= k}

EarlyAtoms(k) ==
  (Atoms \ (PrimedAtoms \cup DOMAIN PGuards)) \cup SettledGuards(k) \cup {PrimedOf[f] : f \in NextUpTo(k)}

EarlyLits(k) == LitsOf(EarlyAtoms(k))

\* The guards the rules up to stratum k read are minted below it.
InTime(k) == k > 0 \/ ReadsAhead = {}

\* A rule of those strata reads only that.
LEMMA EarlyReads ==
  ASSUME prog \in Programs, Separate(prog), Stratified(prog), NEW k \in Nat, InTime(k),
         NEW s \in DOMAIN prog.srules, prog.srules[s].stratum <= k
  PROVE  CausalBody(prog.srules[s]) \subseteq EarlyLits(k)
<1> DEFINE r == prog.srules[s]
<1>1. r \in StepRule /\ r.stratum \in Nat
  BY ProgramType, Strata
<1>2. r.now \subseteq Lits /\ r.action \in Actions \cup {NoAction} /\ r.stratum <= k
  BY <1>1 DEF StepRule
<1>3. ASSUME NEW q \in r.now PROVE q \in EarlyLits(k)
  <2>1. q \in Lits /\ AtomOf(q) \in Atoms /\ AtomOf(q) \notin PrimedAtoms
    BY <1>2, AtomOfLit DEF Separate
  <2>2. CASE AtomOf(q) \in DOMAIN PGuards
    <3> DEFINE g == AtomOf(q)
               n == PGuards[g].num
    <3>1. ReadsGuard(r, g)
      BY <2>1, AtomOfLit DEF ReadsGuard
    <3>2. n \in Nums
      BY <2>2, RuleAssumption
    <3>3. \A w \in Writers(n) : prog.srules[w].stratum < r.stratum
      BY <2>2, <3>1 DEF Stratified, GuardsStratified, Writers
    <3>4. NumStratum(n) \in Nat /\ (NumStratum(n) = 0 \/ \E w \in Writers(n) : NumStratum(n) = prog.srules[w].stratum)
      BY <3>2, Strata
    <3>a. k > 0
      <4>1. r.stratum = 0 => ReadsAhead # {}
        BY <2>2, <3>1 DEF ReadsAhead
      <4> QED
        BY <1>1, <1>2, <4>1 DEF InTime
    <3>5. NumStratum(n) < k
      BY <1>1, <1>2, <3>3, <3>4, <3>a
    <3> QED
      BY <2>1, <2>2, <3>5 DEF SettledGuards, EarlyAtoms, EarlyLits, LitsOf
  <2>3. CASE AtomOf(q) \notin DOMAIN PGuards
    BY <2>1, <2>3 DEF EarlyAtoms, EarlyLits, LitsOf
  <2> QED
    BY <2>2, <2>3
<1>4. ASSUME NEW q \in r.nxt PROVE PrimedLit(q) \in EarlyLits(k)
  <2>1. q \in LitsOf(Fluents)
    BY RuleAssumption
  <2>2. q \in LitsOf(Fluents \cup Emits) /\ AtomOf(q) \in Fluents
    BY <2>1 DEF LitsOf
  <2>3. PrimedLit(q) \in Lits /\ AtomOf(PrimedLit(q)) = PrimedOf[AtomOf(q)]
    BY <2>2, PrimedTwin
  <2>4. AtomOf(q) \in NextUpTo(k)
    <3>1. ASSUME NEW w \in DOMAIN prog.srules, NEW e \in prog.srules[w].effects, AtomOf(e) = AtomOf(q)
          PROVE  prog.srules[w].stratum <= k
      <4>1. prog.srules[w].stratum <= r.stratum
        BY <3>1 DEF Stratified
      <4>2. prog.srules[w].stratum \in Nat
        BY Strata
      <4> QED
        BY <1>1, <1>2, <4>1, <4>2
    <3> QED
      BY <2>2, <3>1 DEF NextUpTo
  <2> QED
    BY <2>3, <2>4 DEF EarlyAtoms, EarlyLits, LitsOf
<1>5. ASSUME r.action # NoAction PROVE Pos(r.action) \in EarlyLits(k)
  <2>1. r.action \in Actions /\ r.action \in Atoms
    BY <1>2, <1>5, WorldAssumption
  <2>2. Pos(r.action) \in Lits /\ AtomOf(Pos(r.action)) = r.action
    BY <2>1, LitsOfAtom
  <2>3. r.action \notin PrimedAtoms /\ r.action \notin DOMAIN PGuards
    BY <2>1, SeparateReading
  <2> QED
    BY <2>1, <2>2, <2>3 DEF EarlyAtoms, EarlyLits, LitsOf
<1>6. CausalBody(r) = r.now \cup {PrimedLit(q) : q \in r.nxt} \cup (IF r.action = NoAction THEN {} ELSE {Pos(r.action)})
  BY DEF CausalBody
<1> HIDE DEF r
<1> QED
  BY <1>3, <1>4, <1>5, <1>6 DEF r

\* So does every rule about it.
LEMMA EarlyRules ==
  ASSUME prog \in Programs, Separate(prog), Stratified(prog), NEW k \in Nat, InTime(k), NEW v, NEW F,
         NEW q \in EarlyLits(k), NEW r \in RulesFor(StepThy(prog, v, F), q)
  PROVE  FamilyRule(prog, r).body \subseteq EarlyLits(k)
<1>1. LitsOf(JudgmentAtoms(prog)) \subseteq EarlyLits(k)
  <2>1. JudgmentAtoms(prog) \cap (PrimedAtoms \cup DOMAIN PGuards) = {}
    BY DEF Separate
  <2> QED
    BY <2>1, AtomOfLit DEF EarlyLits, EarlyAtoms, LitsOf
<1>2. CASE \E j \in DOMAIN prog.jrules : r = <<"judgment", j>> /\ prog.jrules[j].head = q
  <2>1. r \in JudgmentRules(prog)
    BY <1>2 DEF JudgmentRules
  <2> QED
    BY <1>1, <2>1, JudgmentBody
<1>3. CASE \E x \in LitsOf(WriteSet(prog, v)) : r = <<"inertia", x>> /\ PrimedLit(x) = q
  <2>1. PICK x \in LitsOf(WriteSet(prog, v)) : r = <<"inertia", x>>
    BY <1>3
  <2>2. x \in Lits /\ AtomOf(x) \in Fluents /\ AtomOf(x) \in Atoms
    BY WriteSetFluents, WorldAssumption DEF LitsOf
  <2>3. AtomOf(x) \notin PrimedAtoms /\ AtomOf(x) \notin DOMAIN PGuards
    BY <2>2, SeparateReading
  <2>4. FamilyRule(prog, r) = [kind |-> DL_DEFEASIBLE, head |-> PrimedLit(x), body |-> {x}]
    BY <2>1, FamilyRules
  <2> QED
    BY <2>2, <2>3, <2>4 DEF EarlyLits, EarlyAtoms, LitsOf
<1>4. CASE \E s \in LiveRules(prog, v) : \E e \in prog.srules[s].effects :
             r = <<"causal", s, e>> /\ PrimedLit(e) = q
  <2>a. PICK s \in LiveRules(prog, v) : \E e \in prog.srules[s].effects :
               r = <<"causal", s, e>> /\ PrimedLit(e) = q
    BY <1>4
  <2>1. PICK e \in prog.srules[s].effects : r = <<"causal", s, e>> /\ PrimedLit(e) = q
    BY <2>a
  <2>2. s \in DOMAIN prog.srules /\ e \in LitsOf(Fluents \cup Emits)
    BY RuleAssumption DEF LiveRules
  <2>3. AtomOf(q) = PrimedOf[AtomOf(e)] /\ AtomOf(q) \in PrimedAtoms /\ AtomOf(e) \in Fluents \cup Emits
    BY <2>1, <2>2, PrimedTwin DEF LitsOf
  <2>4. AtomOf(q) \notin DOMAIN PGuards
    BY <2>3, SeparateReading
  <2>5. PICK f \in NextUpTo(k) : AtomOf(q) = PrimedOf[f]
    BY <2>3, <2>4 DEF EarlyLits, EarlyAtoms, LitsOf, SettledGuards
  <2>6. f = AtomOf(e)
    BY <2>3, <2>5 DEF Separate, NextUpTo
  <2>7. prog.srules[s].stratum <= k
    BY <2>2, <2>6 DEF NextUpTo
  <2>8. FamilyRule(prog, r) = [kind |-> DL_DEFEASIBLE, head |-> PrimedLit(e), body |-> CausalBody(prog.srules[s])]
    BY <2>1, FamilyRules
  <2> QED
    BY <2>2, <2>7, <2>8, EarlyReads
<1> QED
  BY <1>2, <1>3, <1>4, RulesByKind

\* Later strata mint nothing about it.
LEMMA EarlyMinted ==
  ASSUME prog \in Programs, Separate(prog), NEW k \in Nat, NEW m \in Nat, k <= m, NEW q \in EarlyLits(k)
  PROVE  q \in MintedBelow(k) <=> q \in MintedBelow(m)
<1> DEFINE x(g) == IF GuardTruth(g) THEN Pos(g) ELSE Neg(g)
<1>1. ASSUME NEW g \in DOMAIN PGuards PROVE AtomOf(x(g)) = g /\ NumStratum(PGuards[g].num) \in Nat
  <2>1. g \in Atoms /\ PGuards[g].num \in Nums
    BY RuleAssumption
  <2> QED
    BY <2>1, LitsOfAtom, Strata
<1>2. \A j : MintedBelow(j) = {x(g) : g \in SettledGuards(j)}
  BY DEF MintedBelow
<1>3. SettledGuards(k) \subseteq SettledGuards(m) /\ SettledGuards(m) \subseteq DOMAIN PGuards
  BY <1>1 DEF SettledGuards
<1> HIDE DEF x
<1>4. q \in MintedBelow(k) => q \in MintedBelow(m)
  BY <1>2, <1>3
<1>5. ASSUME q \in MintedBelow(m) PROVE q \in MintedBelow(k)
  <2>1. PICK g \in SettledGuards(m) : q = x(g)
    BY <1>2, <1>5
  <2>2. AtomOf(q) = g /\ g \in DOMAIN PGuards
    BY <1>1, <1>3, <2>1
  <2>3. g \notin PrimedAtoms
    BY <2>2, SeparateReading
  <2>4. g \in SettledGuards(k)
    BY <2>2, <2>3 DEF EarlyLits, EarlyAtoms, LitsOf, NextUpTo, PrimedAtoms
  <2> QED
    BY <1>2, <2>1, <2>4
<1> QED
  BY <1>4, <1>5

\* Two solves of one step, in stratum k and a later one, have the same facts and the
\* same rules about what is decided by stratum k.
LEMMA EarlyAlike ==
  ASSUME prog \in Programs, Separate(prog), Stratified(prog), NEW k \in Nat, NEW m \in Nat, k <= m, InTime(k),
         NEW v, NEW vs, NEW ns, NEW as, FactsOK(vs, as, MintedBelow(k)), FactsOK(vs, as, MintedBelow(m))
  PROVE  SameOn(StepThy(prog, v, StepFacts(vs, ns, as, MintedBelow(k))),
                StepThy(prog, v, StepFacts(vs, ns, as, MintedBelow(m))), EarlyLits(k))
<1> DEFINE F1 == StepFacts(vs, ns, as, MintedBelow(k))
           F2 == StepFacts(vs, ns, as, MintedBelow(m))
           t1 == StepThy(prog, v, F1)
           t2 == StepThy(prog, v, F2)
           J  == EarlyLits(k)
<1>1. J \in SUBSET Lits /\ \A q \in J : q \in Lits
  BY DEF EarlyLits, LitsOf
<1>2. \A q \in J : Compl(q) \in J
  BY <1>1, ComplLits, ComplAtom DEF EarlyLits, LitsOf
<1>3. \A q \in J : q \in F1 <=> q \in F2
  BY EarlyMinted DEF StepFacts
<1> HIDE DEF F1, F2, J
<1>4. /\ t1.rules = StepFamily(prog, v).rules /\ t2.rules = StepFamily(prog, v).rules
      /\ t1.sups = StepFamily(prog, v).sups /\ t2.sups = StepFamily(prog, v).sups
      /\ t1.facts = F1 /\ t2.facts = F2
  BY StepThyReading
<1>5. ASSUME NEW q \in J, NEW r \in RulesFor(t1, q) PROVE t1.rules[r].body \subseteq J
  <2>1. t1.rules[r] = FamilyRule(prog, r)
    BY RulesByKind
  <2>2. FamilyRule(prog, r).body \subseteq EarlyLits(k)
    BY EarlyRules DEF J
  <2> QED
    BY <2>1, <2>2 DEF J
<1> HIDE DEF t1, t2
<1>6. \A q : RulesFor(t1, q) = RulesFor(t2, q)
  BY <1>4 DEF RulesFor
<1>7. SameOn(t1, t2, J)
  BY <1>1, <1>2, <1>3, <1>4, <1>5, <1>6 DEF SameOn
<1> QED
  BY <1>7 DEF F1, F2, t1, t2, J

\* A rule of stratum k or below fires in the solve of stratum k exactly when it fires
\* in every later one.
LEMMA EarlyFirings ==
  ASSUME prog \in Programs, Separate(prog), Stratified(prog), NEW k \in Nat, NEW m \in Nat, k <= m, InTime(k),
         NEW v, NEW vs, NEW ns, NEW as, FactsOK(vs, as, MintedBelow(k)), FactsOK(vs, as, MintedBelow(m)),
         NEW s \in DOMAIN prog.srules, prog.srules[s].stratum <= k
  PROVE  RuleFired(prog.srules[s], as, Columns(prog, v, StepFacts(vs, ns, as, MintedBelow(k))))
           <=> RuleFired(prog.srules[s], as, Columns(prog, v, StepFacts(vs, ns, as, MintedBelow(m))))
<1> DEFINE F1 == StepFacts(vs, ns, as, MintedBelow(k))
           F2 == StepFacts(vs, ns, as, MintedBelow(m))
           t1 == StepThy(prog, v, F1)
           t2 == StepThy(prog, v, F2)
           J  == EarlyLits(k)
           c1 == Columns(prog, v, F1)
           c2 == Columns(prog, v, F2)
<1>1. F1 \in SUBSET Lits /\ F2 \in SUBSET Lits
  BY FactsByPart
<1>2. SameOn(t1, t2, J)
  BY EarlyAlike
<1>3. CausalBody(prog.srules[s]) \subseteq J
  BY EarlyReads
<1>4. c1 = Verdicts(t1, StepSccs(prog, v)) /\ c2 = Verdicts(t2, StepSccs(prog, v))
  BY DEF Columns
<1> HIDE DEF F1, F2, J
<1>5. /\ TheoryLits(t1) /\ TheoryLits(t2)
      /\ SupportSccs(t1) = StepSccs(prog, v) /\ SupportSccs(t2) = StepSccs(prog, v)
  BY <1>1, StepThyLits, StepSccsOf
<1> HIDE DEF t1, t2, c1, c2
<1>6. \A x \in J : c1[x] = c2[x]
  <2>1. \A x \in J : Verdicts(t1, SupportSccs(t1))[x] = Verdicts(t2, SupportSccs(t2))[x]
    BY <1>2, <1>5, SameVerdicts
  <2> QED
    BY <1>4, <1>5, <2>1
<1>7. /\ \A q \in prog.srules[s].now : q \in J
      /\ \A q \in prog.srules[s].nxt : PrimedLit(q) \in J
  BY <1>3 DEF CausalBody
<1>8. RuleFired(prog.srules[s], as, c1) <=> RuleFired(prog.srules[s], as, c2)
  <2> DEFINE r == prog.srules[s]
  <2>1. (\A q \in r.now : c1[q] = DL_PROVED) <=> (\A q \in r.now : c2[q] = DL_PROVED)
    BY <1>6, <1>7
  <2>2. (\A q \in r.nxt : c1[PrimedLit(q)] = DL_PROVED) <=> (\A q \in r.nxt : c2[PrimedLit(q)] = DL_PROVED)
    <3> HIDE DEF J
    <3> QED
      BY <1>6, <1>7
  <2> HIDE DEF r
  <2>3. RuleFired(r, as, c1) <=> RuleFired(r, as, c2)
    BY <2>1, <2>2 DEF RuleFired
  <2> QED
    BY <2>3 DEF r
<1> QED
  BY <1>8 DEF c1, c2, F1, F2

-----------------------------------------------------------------------------
(* The numbers.                                                            *)

\* What the effects S assign, and the order-free value of n they make, with all
\* that is read named.
RHSFrom(ns, now, rhs) ==
  CASE rhs.kind = "const" -> rhs.arg
    [] rhs.kind = "load"  -> now.nums[rhs.arg]
    [] rhs.kind = "loadn" -> ns[rhs.arg]

AssignedFrom(p, ns, now, S) ==
  {RHSFrom(ns, now, p.srules[c[1]].neffs[c[2]].rhs) :
     c \in {x \in S : p.srules[x[1]].neffs[x[2]].op = "ASSIGN"}}

DeltasFrom(p, ns, now, S) ==
  SumFunction([c \in {x \in S : p.srules[x[1]].neffs[x[2]].op # "ASSIGN"} |->
                 Signed(p.srules[c[1]].neffs[c[2]].op,
                        RHSFrom(ns, now, p.srules[c[1]].neffs[c[2]].rhs))])

RetractFrom(p, n, v) ==
  IF ~ p.decl[n].ranged \/ v \in p.decl[n].min .. p.decl[n].max THEN v
  ELSE IF v < p.decl[n].min THEN p.decl[n].min ELSE p.decl[n].max

BaseFrom(p, now, n, A) ==
  CASE A = {} -> now.nums[n]
    [] A # {} /\ p.decl[n].merge = "MAX" -> Max(A)
    [] A # {} /\ p.decl[n].merge # "MAX" -> Min(A)

ValueFrom(p, ns, now, n, S) ==
  RetractFrom(p, n, BaseFrom(p, now, n, AssignedFrom(p, ns, now, S)) + DeltasFrom(p, ns, now, S))

\* The effects on n of the rules of p that fire under the columns cols.
FiredFrom(p, as, cols, n) ==
  {c \in UNION {{<<s, e>> : e \in DOMAIN p.srules[s].neffs} : s \in DOMAIN p.srules} :
     p.srules[c[1]].neffs[c[2]].num = n /\ RuleFired(p.srules[c[1]], as, cols)}

WritersFrom(p, n) == {s \in DOMAIN p.srules : Writes(p.srules[s], n)}

\* The receipt line r accounts for the next value of n; and under the next values ns
\* both are what the rules that fire under cols make them.
AddsUp(p, ns, r, n) ==
  r.applied = ns[n] /\ ns[n] = RetractFrom(p, n, r.raw) /\ r.raw = r.base + SumOfKept(r.items)

SettledAs(p, as, now, ns, r, n, cols) ==
  /\ ns[n] = ValueFrom(p, ns, now, n, FiredFrom(p, as, cols, n))
  /\ p.decl[n].merge = "REGISTER" => Cardinality(AssignedFrom(p, ns, now, FiredFrom(p, as, cols, n))) <= 1
  /\ r.applied = ns[n] /\ ns[n] = RetractFrom(p, n, r.raw) /\ r.raw = r.base + SumOfKept(r.items)
  /\ \A k \in DOMAIN r.items :
       r.items[k].defeated => r.items[k].rule \in WritersFrom(p, n) /\ ~ RuleFired(p.srules[r.items[k].rule], as, cols)

\* The solve of stratum k.
ColumnsAt(k) == Columns(prog, split, StepFacts(vals, nums, ActSet, MintedBelow(k)))

\* What is asked of a program, and of the store a step starts from.
Orderly == Separate(prog) /\ Stratified(prog) /\ InRange(prog, pre.nums)

\* The stores hold numbers; within a step every number settled is what the rules that
\* fire in its own stratum make it, the next values they read being settled too.
NumType == nums \in [Nums -> Int] /\ nextnum \in [Nums -> Int]

NumInv ==
  /\ NumType
  /\ pc = "strata" /\ Orderly => \A n \in Nums : NumStratum(n) < st =>
       SettledAs(prog, ActSet, pre, nextnum, rcpt[n], n, ColumnsAt(NumStratum(n)))

\* ns are the numbers stratum st leaves behind, when it is solved as cols.
NextOf(ns, cols) ==
  /\ ns \in [Nums -> Int]
  /\ \A m \in Nums : ns[m] = IF m \notin Owned THEN nextnum[m]
                             ELSE IF m \in CopiedThrough THEN nums[m]
                             ELSE Commit(m, Accumulate(m, cols))

\* The numbers the effects read are those the accumulator read.
LEMMA ReadsNow ==
  ASSUME NEW ns, NEW X, \A c \in X : ValueNow(c) = RHSFrom(ns, pre, Effect(c).rhs)
  PROVE  Given(X) = AssignedFrom(prog, ns, pre, X) /\ SumNow(X) = DeltasFrom(prog, ns, pre, X)
<1> DEFINE A == {x \in X : Effect(x).op = "ASSIGN"}
           D == {x \in X : Effect(x).op # "ASSIGN"}
<1>1. /\ Given(X) = {ValueNow(c) : c \in A}
      /\ AssignedFrom(prog, ns, pre, X) = {RHSFrom(ns, pre, Effect(c).rhs) : c \in A}
  BY DEF Given, AssignedFrom, Effect
<1>2. \A c \in A : ValueNow(c) = RHSFrom(ns, pre, Effect(c).rhs)
  OBVIOUS
<1>3. Given(X) = AssignedFrom(prog, ns, pre, X)
  <2> HIDE DEF A
  <2> QED
    BY <1>1, <1>2
<1>4. /\ SumNow(X) = SumFunction([c \in D |-> DeltaNow(c)])
      /\ DeltasFrom(prog, ns, pre, X) = SumFunction([c \in D |-> Signed(Effect(c).op, RHSFrom(ns, pre, Effect(c).rhs))])
  BY DEF SumNow, Added, DeltasFrom, Effect
<1>5. \A c \in D : DeltaNow(c) = Signed(Effect(c).op, RHSFrom(ns, pre, Effect(c).rhs))
  BY DEF DeltaNow
<1>6. [c \in D |-> DeltaNow(c)] = [c \in D |-> Signed(Effect(c).op, RHSFrom(ns, pre, Effect(c).rhs))]
  <2> HIDE DEF D
  <2> QED
    BY <1>5
<1> QED
  BY <1>3, <1>4, <1>6

\* Two readings that agree on what the effects load make the same of them.
LEMMA ReadsAlike ==
  ASSUME NEW p, NEW now, NEW ns1, NEW ns2, NEW X,
         \A c \in X : RHSFrom(ns1, now, p.srules[c[1]].neffs[c[2]].rhs) = RHSFrom(ns2, now, p.srules[c[1]].neffs[c[2]].rhs)
  PROVE  /\ AssignedFrom(p, ns1, now, X) = AssignedFrom(p, ns2, now, X)
         /\ DeltasFrom(p, ns1, now, X) = DeltasFrom(p, ns2, now, X)
<1> DEFINE A == {x \in X : p.srules[x[1]].neffs[x[2]].op = "ASSIGN"}
           D == {x \in X : p.srules[x[1]].neffs[x[2]].op # "ASSIGN"}
           rhs(c) == p.srules[c[1]].neffs[c[2]].rhs
           op(c)  == p.srules[c[1]].neffs[c[2]].op
<1>1. /\ AssignedFrom(p, ns1, now, X) = {RHSFrom(ns1, now, rhs(c)) : c \in A}
      /\ AssignedFrom(p, ns2, now, X) = {RHSFrom(ns2, now, rhs(c)) : c \in A}
      /\ DeltasFrom(p, ns1, now, X) = SumFunction([c \in D |-> Signed(op(c), RHSFrom(ns1, now, rhs(c)))])
      /\ DeltasFrom(p, ns2, now, X) = SumFunction([c \in D |-> Signed(op(c), RHSFrom(ns2, now, rhs(c)))])
  BY DEF AssignedFrom, DeltasFrom
<1>2. (\A c \in A : RHSFrom(ns1, now, rhs(c)) = RHSFrom(ns2, now, rhs(c)))
      /\ (\A c \in D : RHSFrom(ns1, now, rhs(c)) = RHSFrom(ns2, now, rhs(c)))
  OBVIOUS
<1> HIDE DEF A, D, rhs, op
<1>3. [c \in D |-> Signed(op(c), RHSFrom(ns1, now, rhs(c)))] = [c \in D |-> Signed(op(c), RHSFrom(ns2, now, rhs(c)))]
  BY <1>2
<1>4. {RHSFrom(ns1, now, rhs(c)) : c \in A} = {RHSFrom(ns2, now, rhs(c)) : c \in A}
  BY <1>2
<1> QED
  BY <1>1, <1>3, <1>4

\* The clamp is the retraction onto the range.
LEMMA ClampRetracts ==
  ASSUME prog \in Programs, NEW n \in Nums, nums \in [Nums -> Int], InRange(prog, nums), NEW v \in Int
  PROVE  Clamp(n, v) = RetractFrom(prog, n, v) /\ RetractFrom(prog, n, nums[n]) = nums[n]
<1> DEFINE d == prog.decl[n]
<1>1. d.ranged \in BOOLEAN /\ d.min \in Int /\ d.max \in Int
  BY DeclType
<1>2. d.ranged => nums[n] \in d.min .. d.max
  BY DEF InRange
<1>3. nums[n] \in Int
  OBVIOUS
<1>4. Max({v, d.min}) = IF v >= d.min THEN v ELSE d.min
  BY <1>1, OfTwo
<1> DEFINE lo == Max({v, d.min})
<1>5. lo \in Int
  BY <1>1, <1>4
<1>6. Min({lo, d.max}) = IF lo <= d.max THEN lo ELSE d.max
  <2> HIDE DEF lo
  <2> QED
    BY <1>1, <1>5, OfTwo
<1>7. Clamp(n, v) = IF ~ d.ranged THEN v ELSE Min({lo, d.max})
  BY DEF Clamp
<1>8. \A x : RetractFrom(prog, n, x) = IF ~ d.ranged \/ x \in d.min .. d.max THEN x ELSE IF x < d.min THEN d.min ELSE d.max
  BY DEF RetractFrom
<1> HIDE DEF d
<1>9. CASE ~ d.ranged
  BY <1>7, <1>8, <1>9
<1>10. CASE d.ranged
  <2>1. d.min <= d.max
    BY <1>1, <1>2, <1>3, <1>10
  <2>2. Clamp(n, v) = IF lo <= d.max THEN lo ELSE d.max
    BY <1>6, <1>7, <1>10
  <2>3. lo = IF v >= d.min THEN v ELSE d.min
    BY <1>4
  <2> HIDE DEF lo
  <2>4. Clamp(n, v) = RetractFrom(prog, n, v)
    BY <1>1, <1>8, <1>10, <2>1, <2>2, <2>3
  <2> QED
    BY <1>2, <1>8, <1>10, <2>4
<1> QED
  BY <1>1, <1>9, <1>10

\* An uncontested join is the base of the order-free value.
LEMMA JoinedBase ==
  ASSUME prog \in Programs, NEW n \in Nums, NEW a \in Accumulator, NEW V, V \subseteq Int, JoinOf(a, n, V),
         ~ a.conflict, nums[n] \in Int, NEW now, now.nums[n] = nums[n]
  PROVE  /\ (IF a.have THEN a.val ELSE nums[n]) = BaseFrom(prog, now, n, V)
         /\ BaseFrom(prog, now, n, V) \in Int
         /\ prog.decl[n].merge = "REGISTER" => Cardinality(V) <= 1
<1> DEFINE m == prog.decl[n].merge
<1>1. m \in Merge
  BY DeclType
<1>2. /\ a.have <=> V # {}
      /\ a.have => a.val \in V
      /\ m = "MAX" => \A v \in V : v <= a.val
      /\ m = "MIN" => \A v \in V : a.val <= v
      /\ m = "REGISTER" => \A v \in V : v = a.val
  BY DEF JoinOf
<1>3. a.have \in BOOLEAN /\ a.val \in Int
  BY DEF Accumulator
<1>4. BaseFrom(prog, now, n, V) = IF V = {} THEN nums[n] ELSE IF m = "MAX" THEN Max(V) ELSE Min(V)
  BY Zenon DEF BaseFrom
<1> HIDE DEF m
<1>5. ASSUME V = {} PROVE Cardinality(V) <= 1
  BY <1>5, FS_EmptySet
<1>6. CASE V = {}
  BY <1>2, <1>3, <1>4, <1>5, <1>6 DEF m
<1>7. CASE V # {} /\ m = "MAX"
  <2>1. Max(V) = a.val
    BY <1>2, <1>7, GreatestIsMax
  <2> QED
    BY <1>2, <1>3, <1>4, <1>7, <2>1 DEF m
<1>8. CASE V # {} /\ m = "MIN"
  <2>1. Min(V) = a.val
    BY <1>2, <1>8, GreatestIsMax
  <2> QED
    BY <1>2, <1>3, <1>4, <1>8, <2>1 DEF m
<1>9. CASE V # {} /\ m = "REGISTER"
  <2>1. \A v \in V : a.val <= v
    BY <1>2, <1>3, <1>9
  <2>2. Min(V) = a.val
    BY <1>2, <1>9, <2>1, GreatestIsMax
  <2>3. V = {a.val}
    BY <1>2, <1>9
  <2>4. Cardinality(V) = 1
    BY <2>3, FS_Singleton
  <2> QED
    BY <1>2, <1>3, <1>4, <1>9, <2>2, <2>4
<1> QED
  BY <1>1, <1>6, <1>7, <1>8, <1>9 DEF Merge

\* The fired effects and the writers, with the program named.
LEMMA FiredReading ==
  ASSUME NEW cols, NEW n
  PROVE  /\ FiredEffects(cols, n) = FiredFrom(prog, ActSet, cols, n)
         /\ Writers(n) = WritersFrom(prog, n)
         /\ \A s : FiredUnder(cols, s) <=> RuleFired(prog.srules[s], ActSet, cols)
BY DEF FiredEffects, FiredFrom, FiredUnder, Effect, Writers, WritersFrom

\* A fired effect on n is an effect on n of a writer that fired.
LEMMA FiredIsWriter ==
  ASSUME NEW cols, NEW n, NEW c \in FiredEffects(cols, n)
  PROVE  \E s \in DOMAIN prog.srules : \E e \in DOMAIN prog.srules[s].neffs :
           c = <<s, e>> /\ Effect(<<s, e>>).num = n /\ s \in Writers(n) /\ FiredUnder(cols, s)
<1>1. PICK s \in DOMAIN prog.srules : \E e \in DOMAIN prog.srules[s].neffs : c = <<s, e>>
  BY DEF FiredEffects
<1>2. PICK e \in DOMAIN prog.srules[s].neffs : c = <<s, e>>
  BY <1>1
<1>3. Effect(c).num = n /\ FiredUnder(cols, c[1])
  BY DEF FiredEffects
<1>4. c[1] = s /\ Effect(<<s, e>>) = prog.srules[s].neffs[e]
  BY <1>2 DEF Effect
<1>5. s \in Writers(n)
  BY <1>2, <1>3, <1>4 DEF Writers, Writes
<1> QED
  BY <1>2, <1>3, <1>4, <1>5

\* Where nothing fires nothing is accumulated, and the number is carried over.
LEMMA QuietNumber ==
  ASSUME Readable, InRange(prog, nums), NEW n \in Nums, NEW cols, FiredEffects(cols, n) = {}
  PROVE  /\ ~ Accumulate(n, cols).have /\ Accumulate(n, cols).delta = 0
         /\ Commit(n, Accumulate(n, cols)) = nums[n]
         /\ \A k \in DOMAIN Accumulate(n, cols).items :
              Accumulate(n, cols).items[k].defeated =>
                Accumulate(n, cols).items[k].rule \in Writers(n) /\ ~ FiredUnder(cols, Accumulate(n, cols).items[k].rule)
         /\ SumOfKept(Accumulate(n, cols).items) = 0
<1> DEFINE a == Accumulate(n, cols)
<1>1. AccumulatorOf(a, n, cols, {})
  BY ScanAccumulates
<1> HIDE DEF a
<1>2. AccumulatorOf(NoContribution, n, cols, {}) /\ NoContribution.delta = 0
  BY AccumulatorOfNothing DEF NoContribution
<1>3. a.delta = 0
  BY <1>1, <1>2 DEF AccumulatorOf
<1>4. ~ a.have
  <2>1. Given({}) = {}
    BY DEF Given
  <2> QED
    BY <1>1, <2>1 DEF AccumulatorOf, JoinOf
<1>5. a.items \in Seq(ReceiptLine)
  BY <1>1 DEF AccumulatorOf, Accumulator
<1>6. \A P \in Heads : SumOfKept(P \o a.items) = 0
  BY <1>1, <1>3 DEF AccumulatorOf, LinesOf
<1>7. <<>> \o a.items = a.items /\ <<>> \in Heads
  BY <1>5 DEF Heads
<1>8. SumOfKept(a.items) = 0
  BY <1>6, <1>7
<1>9. \A k \in DOMAIN a.items :
        a.items[k].defeated => a.items[k].rule \in Writers(n) /\ ~ FiredUnder(cols, a.items[k].rule)
  BY <1>1 DEF AccumulatorOf, LinesOf
<1>10. Commit(n, a) = nums[n]
  <2>1. nums \in [Nums -> Int] /\ prog \in Programs /\ nums[n] \in Int
    BY DEF Readable
  <2>2. Commit(n, a) = Clamp(n, nums[n] + 0)
    BY <1>3, <1>4 DEF Commit
  <2>3. nums[n] + 0 = nums[n]
    BY <2>1
  <2> QED
    BY <2>1, <2>2, <2>3, ClampRetracts
<1> QED
  BY <1>3, <1>4, <1>8, <1>9, <1>10 DEF a

\* What the effects on a number of this stratum read is settled when they are scanned.
LEMMA ArgSettled ==
  ASSUME Readable, InRange(prog, nums), Stratified(prog), pre.nums = nums, st \in Nat, NEW ns, NEW cols,
         NextOf(ns, cols), NEW n \in Owned, NEW s \in DOMAIN prog.srules, NEW e \in DOMAIN prog.srules[s].neffs,
         Effect(<<s, e>>).num = n
  PROVE  ValueNow(<<s, e>>) = RHSFrom(ns, pre, Effect(<<s, e>>).rhs)
<1> DEFINE c   == <<s, e>>
           rhs == Effect(c).rhs
           m   == rhs.arg
<1>1. /\ prog \in Programs /\ nums \in [Nums -> Int]
      /\ n \in Nums /\ NumStratum(n) = st
  BY DEF Readable, Owned
<1>2. Effect(c) = prog.srules[s].neffs[e] /\ Effect(c) \in NumEffect
  BY EffectType
<1>3. rhs \in RHS
  BY <1>2 DEF NumEffect
<1>4. ValueNow(c) = EvalRHS(rhs)
  BY DEF ValueNow
<1>5. s \in Writers(n)
  BY <1>2 DEF Writers, Writes
<1>6. prog.srules[s].stratum <= st
  BY <1>1, <1>5, WriterBelow
<1>7. CASE rhs.kind = "const"
  BY <1>4, <1>7 DEF EvalRHS, RHSFrom
<1>8. CASE rhs.kind = "load"
  BY <1>4, <1>8 DEF EvalRHS, RHSFrom
<1>9. CASE rhs.kind = "loadn"
  <2>1. m \in Nums
    BY <1>3, <1>9 DEF RHS
  <2>2. EvalRHS(rhs) = IF NumStratum(m) < st THEN nextnum[m] ELSE nums[m]
    BY <1>9 DEF EvalRHS
  <2>3. RHSFrom(ns, pre, rhs) = ns[m]
    BY <1>9 DEF RHSFrom
  <2>4. \A w \in Writers(m) : prog.srules[w].stratum < prog.srules[s].stratum
    BY <1>2, <1>9 DEF Stratified, Writers
  <2>5. /\ NumStratum(m) \in Nat
        /\ NumStratum(m) = 0 \/ \E w \in Writers(m) : NumStratum(m) = prog.srules[w].stratum
        /\ \A w \in DOMAIN prog.srules : prog.srules[w].stratum \in Nat
    BY <1>1, <2>1, Strata
  <2>6. \A w \in Writers(m) : w \in DOMAIN prog.srules
    BY DEF Writers
  <2> HIDE DEF c, rhs, m
  <2>7. CASE NumStratum(m) < st
    <3>1. m \notin Owned
      BY <2>5, <2>7 DEF Owned
    <3> QED
      BY <1>4, <2>1, <2>2, <2>3, <2>7, <3>1 DEF NextOf, c, rhs
  <2>8. CASE ~ NumStratum(m) < st
    <3>1. NumStratum(m) = 0 /\ st = 0
      BY <1>6, <2>4, <2>5, <2>6, <2>8
    <3>2. m \in Owned
      BY <2>1, <3>1 DEF Owned
    <3>3. Writers(m) = {}
      BY <1>6, <2>4, <2>5, <2>6, <3>1
    <3>4. FiredEffects(cols, m) = {}
      BY <3>3, FiredIsWriter
    <3>5. Commit(m, Accumulate(m, cols)) = nums[m]
      BY <2>1, <3>4, QuietNumber
    <3>6. ns[m] = nums[m]
      BY <2>1, <3>2, <3>5 DEF NextOf
    <3> QED
      BY <1>4, <2>2, <2>3, <2>8, <3>6 DEF c, rhs
  <2> QED
    BY <2>7, <2>8 DEF c, rhs
<1> QED
  BY <1>3, <1>7, <1>8, <1>9 DEF RHS

\* The receipt a stratum writes for a number it owns.
LineOf(n, cols) ==
  IF n \in CopiedThrough THEN [CarriedReceipt(n) EXCEPT !.items = Accumulate(n, cols).items]
  ELSE Receipt(n, Accumulate(n, cols))

\* No rule that fires is left out by the split.
FiredLive(cols) == \A s \in DOMAIN prog.srules : FiredUnder(cols, s) => s \in LiveRules(prog, split)

\* A number copied through is one no fired rule writes.
LEMMA CopiedQuiet ==
  ASSUME NEW cols, FiredLive(cols), NEW n \in CopiedThrough
  PROVE  FiredEffects(cols, n) = {}
<1> SUFFICES ASSUME NEW c \in FiredEffects(cols, n) PROVE FALSE
  OBVIOUS
<1>1. PICK s \in DOMAIN prog.srules : s \in Writers(n) /\ FiredUnder(cols, s)
  BY FiredIsWriter
<1>2. s \in LiveRules(prog, split) /\ Writes(prog.srules[s], n)
  BY <1>1 DEF FiredLive, Writers
<1>3. n \in Nums /\ n \notin NumWriteSet(prog, split)
  BY DEF CopiedThrough, Owned
<1> QED
  BY <1>2, <1>3 DEF NumWriteSet

\* A number of this stratum is settled by its solve.
LEMMA NumberSettles ==
  ASSUME Readable, InRange(prog, nums), Stratified(prog), pre.nums = nums, st \in Nat, NEW ns, NEW cols,
         NextOf(ns, cols), FiredLive(cols), NEW n \in Owned,
         n \in CopiedThrough \/ ~ Accumulate(n, cols).conflict
  PROVE  SettledAs(prog, ActSet, pre, ns, LineOf(n, cols), n, cols)
<1> DEFINE a == Accumulate(n, cols)
           X == FiredEffects(cols, n)
           V == AssignedFrom(prog, ns, pre, X)
           D == DeltasFrom(prog, ns, pre, X)
           r == LineOf(n, cols)
<1>1. prog \in Programs /\ nums \in [Nums -> Int] /\ n \in Nums /\ nums[n] \in Int
  BY DEF Readable, Owned
<1>2. AccumulatorOf(a, n, cols, X)
  BY <1>1, ScanAccumulates
<1>3. Given(X) = V /\ SumNow(X) = D
  <2>1. ASSUME NEW c \in X PROVE ValueNow(c) = RHSFrom(ns, pre, Effect(c).rhs)
    <3>1. PICK s \in DOMAIN prog.srules : \E e \in DOMAIN prog.srules[s].neffs : c = <<s, e>> /\ Effect(<<s, e>>).num = n
      BY FiredIsWriter
    <3>2. PICK e \in DOMAIN prog.srules[s].neffs : c = <<s, e>> /\ Effect(<<s, e>>).num = n
      BY <3>1
    <3> QED
      BY <3>2, ArgSettled
  <2> HIDE DEF X
  <2> QED
    BY <2>1, ReadsNow
<1>4. /\ X = FiredFrom(prog, ActSet, cols, n) /\ Writers(n) = WritersFrom(prog, n)
      /\ \A s : FiredUnder(cols, s) <=> RuleFired(prog.srules[s], ActSet, cols)
  BY FiredReading
<1>5. ns[n] = IF n \in CopiedThrough THEN nums[n] ELSE Commit(n, a)
  BY <1>1 DEF NextOf
<1>6. V \subseteq Int /\ X \subseteq Effects
  <2>1. X \subseteq Effects
    BY <1>2 DEF AccumulatorOf
  <2>2. \A v \in Given(X) : \E c \in X : v = ValueNow(c)
    BY DEF Given
  <2> HIDE DEF X, V
  <2> QED
    BY <1>3, <2>1, <2>2, EffectsType
<1>7. ValueFrom(prog, ns, pre, n, X) = RetractFrom(prog, n, BaseFrom(prog, pre, n, V) + D)
  BY DEF ValueFrom
<1>8. /\ a.have \in BOOLEAN /\ a.val \in Int /\ a.delta \in Int /\ a.items \in Seq(ReceiptLine) /\ a \in Accumulator
      /\ JoinOf(a, n, V) /\ a.delta = D /\ LinesOf(a.items, n, cols, a.delta)
  BY <1>2, <1>3 DEF AccumulatorOf, Accumulator
<1>9. a.items = <<>> \o a.items /\ <<>> \in Heads
  BY <1>8 DEF Heads
<1>10. CASE n \in CopiedThrough
  <2>1. X = {}
    BY <1>10, CopiedQuiet
  <2>2. ~ a.have /\ a.delta = 0 /\ SumOfKept(a.items) = 0
    BY <1>1, <2>1, QuietNumber
  <2>3. r = [CarriedReceipt(n) EXCEPT !.items = a.items]
    BY <1>10 DEF LineOf
  <2> HIDE DEF a, X, V, D, r
  <2>4. V = {}
    BY <1>8, <2>2 DEF JoinOf
  <2>5. BaseFrom(prog, pre, n, V) = nums[n] /\ Cardinality(V) <= 1
    BY <2>4, FS_EmptySet DEF BaseFrom
  <2>6. ns[n] = nums[n] /\ RetractFrom(prog, n, nums[n]) = nums[n]
    BY <1>1, <1>5, <1>10, ClampRetracts
  <2>7. nums[n] + D = nums[n]
    BY <1>1, <1>8, <2>2
  <2>8. r.base = nums[n] /\ r.raw = nums[n] /\ r.applied = nums[n] /\ r.items = a.items
    BY <2>3 DEF CarriedReceipt
  <2>9. ns[n] = ValueFrom(prog, ns, pre, n, X)
    BY <1>7, <2>5, <2>6, <2>7
  <2>10. r.raw = r.base + SumOfKept(r.items)
    BY <1>1, <2>2, <2>8
  <2>11. \A k \in DOMAIN r.items :
           r.items[k].defeated => r.items[k].rule \in Writers(n) /\ ~ FiredUnder(cols, r.items[k].rule)
    BY <1>8, <2>8 DEF LinesOf
  <2>12. SettledAs(prog, ActSet, pre, ns, r, n, cols)
    BY <1>4, <2>5, <2>6, <2>8, <2>9, <2>10, <2>11 DEF SettledAs, V
  <2> QED
    BY <2>12 DEF r
<1>11. CASE n \notin CopiedThrough
  <2> DEFINE base == IF a.have THEN a.val ELSE nums[n]
             head == IF a.have THEN <<Item(0, "ASSIGN", a.val, FALSE)>> ELSE <<>>
  <2>1. ~ a.conflict
    BY <1>11
  <2>2. ns[n] = Clamp(n, base + a.delta)
    BY <1>5, <1>11 DEF Commit
  <2>3. r.base = base /\ r.raw = base + a.delta /\ r.applied = Commit(n, a) /\ r.items = head \o a.items
    BY <1>11 DEF LineOf, Receipt
  <2>4. head \in Heads
    BY <1>8 DEF Heads
  <2> HIDE DEF a, X, V, D, r
  <2>5. /\ base = BaseFrom(prog, pre, n, V) /\ BaseFrom(prog, pre, n, V) \in Int
        /\ prog.decl[n].merge = "REGISTER" => Cardinality(V) <= 1
    BY <1>1, <1>6, <1>8, <2>1, JoinedBase
  <2> HIDE DEF base
  <2>6. base + a.delta \in Int
    BY <1>8, <2>5
  <2>7. Clamp(n, base + a.delta) = RetractFrom(prog, n, base + a.delta)
    <3> DEFINE x == base + a.delta
    <3> HIDE DEF x
    <3>1. x \in Int => Clamp(n, x) = RetractFrom(prog, n, x)
      BY <1>1, ClampRetracts
    <3> QED
      BY <2>6, <3>1 DEF x
  <2>8. ns[n] = ValueFrom(prog, ns, pre, n, X) /\ ns[n] = RetractFrom(prog, n, r.raw) /\ r.applied = ns[n]
    BY <1>5, <1>7, <1>8, <1>11, <2>2, <2>3, <2>5, <2>7
  <2>9. SumOfKept(r.items) = a.delta
    BY <1>8, <2>3, <2>4 DEF LinesOf
  <2>10. ASSUME NEW k \in DOMAIN r.items, r.items[k].defeated
         PROVE  r.items[k].rule \in Writers(n) /\ ~ FiredUnder(cols, r.items[k].rule)
    <3>1. \E j \in DOMAIN a.items : r.items[k] = a.items[j]
      <4>1. CASE ~ a.have
        <5>1. r.items = <<>> \o a.items
          BY <2>3, <4>1
        <5> QED
          BY <1>8, <5>1
      <4>2. CASE a.have
        <5> DEFINE it == Item(0, "ASSIGN", a.val, FALSE)
        <5>1. r.items = <<it>> \o a.items
          BY <2>3, <4>2
        <5>2. it.defeated = FALSE
          BY DEF Item
        <5> HIDE DEF it
        <5>3. k = 1 => r.items[k] = it
          BY <1>8, <5>1
        <5>4. k # 1
          BY <2>10, <5>2, <5>3
        <5>5. k - 1 \in DOMAIN a.items /\ r.items[k] = a.items[k - 1]
          BY <1>8, <5>1, <5>4
        <5> QED
          BY <5>5
      <4> QED
        BY <1>8, <4>1, <4>2
    <3> QED
      BY <1>8, <2>10, <3>1 DEF LinesOf
  <2>11. r.raw = r.base + SumOfKept(r.items)
    BY <2>3, <2>9
  <2>12. SettledAs(prog, ActSet, pre, ns, r, n, cols)
    BY <1>4, <2>5, <2>8, <2>10, <2>11 DEF SettledAs, V
  <2> QED
    BY <2>12 DEF r
<1> QED
  BY <1>10, <1>11

\* A settled number stays settled while the numbers of its stratum and below stay.
LEMMA SettledStays ==
  ASSUME prog \in Programs, Stratified(prog), NEW n \in Nums, NEW ns1, NEW ns2, NEW now, NEW r, NEW cols,
         \A m \in Nums : NumStratum(m) <= NumStratum(n) => ns1[m] = ns2[m],
         SettledAs(prog, ActSet, now, ns1, r, n, cols)
  PROVE  SettledAs(prog, ActSet, now, ns2, r, n, cols)
<1> DEFINE X == FiredFrom(prog, ActSet, cols, n)
<1>1. NumStratum(n) \in Nat /\ ns1[n] = ns2[n]
  BY Strata
<1>2. ASSUME NEW c \in X
      PROVE  RHSFrom(ns1, now, prog.srules[c[1]].neffs[c[2]].rhs) = RHSFrom(ns2, now, prog.srules[c[1]].neffs[c[2]].rhs)
  <2>1. c \in FiredEffects(cols, n)
    BY FiredReading
  <2>a. \E s \in DOMAIN prog.srules : \E e \in DOMAIN prog.srules[s].neffs :
           c = <<s, e>> /\ Effect(<<s, e>>).num = n /\ s \in Writers(n) /\ FiredUnder(cols, s)
    BY <2>1, FiredIsWriter
  <2>2. PICK s \in DOMAIN prog.srules : s \in Writers(n) /\ \E e \in DOMAIN prog.srules[s].neffs : c = <<s, e>>
    BY <2>a
  <2>3. PICK e \in DOMAIN prog.srules[s].neffs : c = <<s, e>>
    BY <2>2
  <2> DEFINE rhs == prog.srules[s].neffs[e].rhs
  <2>4. rhs \in RHS
    <3>1. prog.srules[s] \in StepRule
      BY ProgramType
    <3>2. prog.srules[s].neffs \in Seq(NumEffect)
      BY <3>1 DEF StepRule
    <3>3. prog.srules[s].neffs[e] \in NumEffect
      BY <3>2
    <3> QED
      BY <3>3 DEF NumEffect
  <2>5. CASE rhs.kind = "loadn"
    <3> DEFINE m == rhs.arg
    <3>1. m \in Nums
      BY <2>4, <2>5 DEF RHS
    <3>2. \A w \in Writers(m) : prog.srules[w].stratum < prog.srules[s].stratum
      BY <2>5 DEF Stratified, Writers
    <3>3. prog.srules[s].stratum <= NumStratum(n)
      BY <2>2, WriterBelow
    <3>4. /\ NumStratum(m) \in Nat
          /\ NumStratum(m) = 0 \/ \E w \in Writers(m) : NumStratum(m) = prog.srules[w].stratum
          /\ \A w \in DOMAIN prog.srules : prog.srules[w].stratum \in Nat
      BY <3>1, Strata
    <3>5. \A w \in Writers(m) : w \in DOMAIN prog.srules
      BY DEF Writers
    <3>6. NumStratum(m) <= NumStratum(n)
      <4> HIDE DEF m
      <4> QED
        BY <1>1, <3>2, <3>3, <3>4, <3>5
    <3>7. ns1[m] = ns2[m]
      BY <3>1, <3>6
    <3>8. RHSFrom(ns1, now, rhs) = ns1[m] /\ RHSFrom(ns2, now, rhs) = ns2[m]
      BY <2>5 DEF RHSFrom
    <3> QED
      BY <2>3, <3>7, <3>8
  <2>6. CASE rhs.kind # "loadn"
    <3>1. RHSFrom(ns1, now, rhs) = RHSFrom(ns2, now, rhs)
      BY <2>4, <2>6 DEF RHSFrom, RHS
    <3> QED
      BY <2>3, <3>1
  <2> QED
    BY <2>5, <2>6
<1> HIDE DEF X
<1>3. /\ AssignedFrom(prog, ns1, now, X) = AssignedFrom(prog, ns2, now, X)
      /\ DeltasFrom(prog, ns1, now, X) = DeltasFrom(prog, ns2, now, X)
  BY <1>2, ReadsAlike
<1>4. ValueFrom(prog, ns1, now, n, X) = ValueFrom(prog, ns2, now, n, X)
  BY <1>3 DEF ValueFrom
<1> QED
  BY <1>1, <1>3, <1>4 DEF SettledAs, X

\* What a stratum does to the numbers.
LEMMA SettleReading ==
  ASSUME SettleStratum
  PROVE  /\ pc = "strata" /\ st' = st + 1 /\ pc' = pc
         /\ UNCHANGED <<prog, vals, nums, acts, split, pre>>
         /\ \A n \in Owned : n \in CopiedThrough \/ ~ Accumulate(n, SolveNow).conflict
         /\ nextnum' = [n \in Nums |-> IF n \notin Owned THEN nextnum[n]
                                       ELSE IF n \in CopiedThrough THEN nums[n]
                                       ELSE Commit(n, Accumulate(n, SolveNow))]
         /\ \A n \in Nums : rcpt'[n] = IF n \notin Owned THEN rcpt[n] ELSE LineOf(n, SolveNow)
<1>1. PICK s \in {SolveNow} : \E acc \in {[n \in Owned |-> Accumulate(n, s)]} :
         /\ \A n \in Owned \ CopiedThrough : ~ acc[n].conflict
         /\ nextnum' = [n \in Nums |-> IF n \notin Owned THEN nextnum[n]
                                       ELSE IF n \in CopiedThrough THEN nums[n]
                                       ELSE Commit(n, acc[n])]
         /\ rcpt' = [n \in Nums |-> IF n \notin Owned THEN rcpt[n]
                                    ELSE IF n \in CopiedThrough THEN [CarriedReceipt(n) EXCEPT !.items = acc[n].items]
                                    ELSE Receipt(n, acc[n])]
  BY DEF SettleStratum
<1>2. s = SolveNow
  OBVIOUS
<1> DEFINE acc == [n \in Owned |-> Accumulate(n, SolveNow)]
<1>3. /\ \A n \in Owned \ CopiedThrough : ~ acc[n].conflict
      /\ nextnum' = [n \in Nums |-> IF n \notin Owned THEN nextnum[n]
                                    ELSE IF n \in CopiedThrough THEN nums[n]
                                    ELSE Commit(n, acc[n])]
      /\ rcpt' = [n \in Nums |-> IF n \notin Owned THEN rcpt[n]
                                 ELSE IF n \in CopiedThrough THEN [CarriedReceipt(n) EXCEPT !.items = acc[n].items]
                                 ELSE Receipt(n, acc[n])]
  BY <1>1, <1>2
<1>4. \A n \in Owned : acc[n] = Accumulate(n, SolveNow)
  OBVIOUS
<1> HIDE DEF acc
<1>5. \A n \in Owned : n \in CopiedThrough \/ ~ Accumulate(n, SolveNow).conflict
  BY <1>3, <1>4
<1>6. nextnum' = [n \in Nums |-> IF n \notin Owned THEN nextnum[n]
                                 ELSE IF n \in CopiedThrough THEN nums[n]
                                 ELSE Commit(n, Accumulate(n, SolveNow))]
  BY <1>3, <1>4
<1>7. \A n \in Nums : rcpt'[n] = IF n \notin Owned THEN rcpt[n] ELSE LineOf(n, SolveNow)
  BY <1>3, <1>4 DEF LineOf
<1>8. /\ pc = "strata" /\ st' = st + 1 /\ pc' = pc
      /\ UNCHANGED <<prog, vals, nums, acts, split, pre>>
  BY DEF SettleStratum, world
<1> QED
  BY <1>5, <1>6, <1>7, <1>8

\* The next numbers are numbers.
LEMMA NextType ==
  ASSUME Readable, NEW ns, NEW cols,
         ns = [n \in Nums |-> IF n \notin Owned THEN nextnum[n]
                              ELSE IF n \in CopiedThrough THEN nums[n]
                              ELSE Commit(n, Accumulate(n, cols))]
  PROVE  NextOf(ns, cols)
<1>1. ASSUME NEW n \in Nums PROVE Commit(n, Accumulate(n, cols)) \in Int
  <2> DEFINE a == Accumulate(n, cols)
             d == prog.decl[n]
  <2>1. AccumulatorOf(a, n, cols, FiredEffects(cols, n))
    BY ScanAccumulates
  <2>2. a.have \in BOOLEAN /\ a.val \in Int /\ a.delta \in Int
    BY <2>1 DEF AccumulatorOf, Accumulator
  <2>3. d.ranged \in BOOLEAN /\ d.min \in Int /\ d.max \in Int
    BY DeclType DEF Readable
  <2>4. nums[n] \in Int
    BY DEF Readable
  <2> HIDE DEF a, d
  <2> DEFINE v == (IF a.have THEN a.val ELSE nums[n]) + a.delta
  <2>5. v \in Int
    BY <2>2, <2>4
  <2> HIDE DEF v
  <2> DEFINE lo == Max({v, d.min})
  <2>6. lo \in Int
    BY <2>3, <2>5, OfTwo
  <2> HIDE DEF lo
  <2>7. Min({lo, d.max}) \in Int
    BY <2>3, <2>6, OfTwo
  <2>8. Clamp(n, v) = IF ~ d.ranged THEN v ELSE Min({lo, d.max})
    BY DEF Clamp, d, lo
  <2>9. Commit(n, a) = Clamp(n, v)
    BY DEF Commit, v
  <2> QED
    BY <2>3, <2>5, <2>7, <2>8, <2>9 DEF a
<1>2. \A n \in Nums : nums[n] \in Int /\ nextnum[n] \in Int
  BY DEF Readable
<1> QED
  BY <1>1, <1>2 DEF NextOf

\* A stratum settles its numbers and keeps those below.
LEMMA SettleNumbers ==
  ASSUME WorldInv, NumInv, SettleStratum
  PROVE  NumInv'
<1> DEFINE cols == SolveNow
           ns   == nextnum'
<1>1. /\ pc = "strata" /\ st' = st + 1 /\ pc' = pc
      /\ UNCHANGED <<prog, vals, nums, acts, split, pre>>
      /\ \A n \in Owned : n \in CopiedThrough \/ ~ Accumulate(n, cols).conflict
      /\ ns = [n \in Nums |-> IF n \notin Owned THEN nextnum[n]
                              ELSE IF n \in CopiedThrough THEN nums[n]
                              ELSE Commit(n, Accumulate(n, cols))]
      /\ \A n \in Nums : rcpt'[n] = IF n \notin Owned THEN rcpt[n] ELSE LineOf(n, cols)
  BY SettleReading
<1>2. /\ prog \in Programs /\ Readable /\ st \in Nat /\ pre.nums = nums /\ split = CurSplit(prog, vals)
      /\ ActSet \subseteq Actions
  BY <1>1 DEF WorldInv, WorldType, StepInv, NumInv, NumType, Readable, Store
<1>3. cols = ColumnsAt(st)
  BY <1>1, SolveNowReading DEF ColumnsAt
<1>4. NextOf(ns, cols)
  <2> HIDE DEF cols, ns
  <2> QED
    BY <1>1, <1>2, NextType
<1>5. NumType'
  BY <1>1, <1>2, <1>4 DEF NumType, NextOf, Readable
<1>6. ActSet' = ActSet
  BY <1>1 DEF ActSet
<1>7. \A n \in Nums : NumStratum(n) \in Nat /\ NumStratum(n)' = NumStratum(n)
  BY <1>1, <1>2, Strata DEF NumStratum, Writers, Writes
<1>8. ASSUME NEW n \in Nums, NumStratum(n) <= st
      PROVE  ColumnsAt(NumStratum(n))' = ColumnsAt(NumStratum(n))
  <2>1. SettledGuards(NumStratum(n))' = SettledGuards(NumStratum(n))
    <3>1. \A x \in DOMAIN PGuards : NumStratum(PGuards[x].num)' = NumStratum(PGuards[x].num)
      BY <1>7, RuleAssumption
    <3> QED
      BY <1>7, <3>1 DEF SettledGuards
  <2>2. ASSUME NEW g \in SettledGuards(NumStratum(n)) PROVE GuardTruth(g)' = GuardTruth(g)
    <3>1. PGuards[g].num \in Nums /\ NumStratum(PGuards[g].num) < NumStratum(n)
      BY RuleAssumption DEF SettledGuards
    <3>2. PGuards[g].num \notin Owned
      BY <1>2, <1>7, <1>8, <3>1 DEF Owned
    <3>3. nextnum'[PGuards[g].num] = nextnum[PGuards[g].num]
      BY <1>1, <3>1, <3>2
    <3> QED
      BY <3>3 DEF GuardTruth
  <2>3. MintedBelow(NumStratum(n))' = MintedBelow(NumStratum(n))
    BY <2>1, <2>2 DEF MintedBelow
  <2> QED
    BY <1>1, <1>6, <2>3 DEF ColumnsAt
<1>9. ASSUME Orderly, NEW n \in Nums, NumStratum(n) < st + 1
      PROVE  SettledAs(prog, ActSet, pre, ns, rcpt'[n], n, ColumnsAt(NumStratum(n)))
  <2>1. Separate(prog) /\ Stratified(prog) /\ InRange(prog, nums)
    BY <1>2, <1>9 DEF Orderly
  <2>2. CASE NumStratum(n) = st
    <3>1. n \in Owned
      BY <2>2 DEF Owned
    <3>2. FiredLive(cols)
      <4>1. FactsOK(vals, ActSet, MintedBelow(st))
        BY <1>2, MintedOK DEF WorldInv
      <4>2. cols = Columns(prog, CurSplit(prog, vals), StepFacts(vals, nums, ActSet, MintedBelow(st)))
        BY <1>2, <1>3 DEF ColumnsAt
      <4> HIDE DEF cols
      <4>3. ASSUME NEW s \in DOMAIN prog.srules, RuleFired(prog.srules[s], ActSet, cols)
            PROVE  s \in LiveRules(prog, CurSplit(prog, vals))
        BY <1>2, <2>1, <4>1, <4>2, <4>3, FiredIsLive
      <4> QED
        BY <1>2, <4>3 DEF FiredLive, FiredUnder
    <3>3. n \in CopiedThrough \/ ~ Accumulate(n, cols).conflict
      BY <1>1, <3>1
    <3>4. rcpt'[n] = LineOf(n, cols)
      BY <1>1, <3>1
    <3> HIDE DEF ns, cols
    <3>5. SettledAs(prog, ActSet, pre, ns, LineOf(n, cols), n, cols)
      BY <1>2, <1>4, <2>1, <3>1, <3>2, <3>3, NumberSettles
    <3> QED
      BY <1>3, <2>2, <3>4, <3>5
  <2>3. CASE NumStratum(n) # st
    <3>1. NumStratum(n) < st
      BY <1>2, <1>7, <1>9, <2>3
    <3>2. n \notin Owned
      BY <2>3 DEF Owned
    <3>3. SettledAs(prog, ActSet, pre, nextnum, rcpt[n], n, ColumnsAt(NumStratum(n)))
      BY <1>1, <1>9, <3>1 DEF NumInv
    <3>4. rcpt'[n] = rcpt[n]
      BY <1>1, <3>2
    <3>5. ASSUME NEW m \in Nums, NumStratum(m) <= NumStratum(n) PROVE nextnum[m] = ns[m]
      <4>1. m \notin Owned
        BY <1>2, <1>7, <3>1, <3>5 DEF Owned
      <4> QED
        BY <1>1, <4>1
    <3> DEFINE c == ColumnsAt(NumStratum(n))
               r == rcpt[n]
    <3> HIDE DEF ns, c, r
    <3>6. SettledAs(prog, ActSet, pre, nextnum, r, n, c)
      BY <3>3 DEF c, r
    <3>7. SettledAs(prog, ActSet, pre, ns, r, n, c)
      BY <1>2, <2>1, <3>5, <3>6, SettledStays
    <3> QED
      BY <3>4, <3>7 DEF c, r
  <2> QED
    BY <2>2, <2>3
<1>10. Orderly' <=> Orderly
  BY <1>1 DEF Orderly
<1>11. ASSUME Orderly', NEW n \in Nums, NumStratum(n)' < st'
       PROVE  SettledAs(prog, ActSet, pre, nextnum, rcpt[n], n, ColumnsAt(NumStratum(n)))'
  <2>1. Orderly /\ NumStratum(n) < st + 1
    BY <1>1, <1>7, <1>10, <1>11
  <2>2. SettledAs(prog, ActSet, pre, nextnum', rcpt'[n], n, ColumnsAt(NumStratum(n)))
    BY <1>9, <2>1
  <2>3. NumStratum(n) <= st
    BY <1>2, <1>7, <2>1
  <2>4. ColumnsAt(NumStratum(n))' = ColumnsAt(NumStratum(n))
    BY <1>8, <2>3
  <2> QED
    BY <1>1, <1>6, <2>2, <2>4
<1> QED
  BY <1>5, <1>11 DEF NumInv

\* The numbers of the store a world starts from.
LEMMA NumInvInit == Init => NumInv
<1> SUFFICES ASSUME Init PROVE NumInv
  OBVIOUS
<1>1. prog \in Programs /\ pc = "idle" /\ nextnum = [n \in Nums |-> 0]
  BY DEF Init
<1>2. nums \in [Nums -> Int]
  <2>1. PICK s \in Stores(prog) : vals = s[1] /\ nums = s[2]
    BY DEF Init
  <2>2. s \in [Fluents -> BOOLEAN] \X [Nums -> Int]
    BY <1>1, HostAssumption
  <2> QED
    BY <2>1, <2>2
<1>3. nextnum \in [Nums -> Int]
  BY <1>1
<1> QED
  BY <1>1, <1>2, <1>3 DEF NumInv, NumType

\* Between steps there is nothing to settle.
LEMMA IdleNumbers ==
  ASSUME WorldInv, NumInv,
         \/ \E f \in HostFluents, b \in BOOLEAN : SetFluent(f, b)
         \/ \E n \in Nums, v \in HostEdits : SetNum(n, v)
         \/ \E q \in SubLits : Subscribe(q)
         \/ \E h \in DOMAIN subs : Unsubscribe(h)
         \/ \E as \in ActionSeqs : RefuseStep(as)
         \/ ContestedNumber \/ ContestedFluent \/ CommitStep
  PROVE  NumInv'
<1>1. ASSUME NEW n \in Nums, NEW v \in HostEdits, SetNum(n, v) PROVE NumType' /\ pc' = "idle"
  <2>1. v \in Int /\ nums \in [Nums -> Int]
    BY HostAssumption DEF NumInv, NumType
  <2>2. nums' = [nums EXCEPT ![n] = v] /\ nextnum' = nextnum /\ pc' = "idle"
    BY <1>1 DEF SetNum, call
  <2>3. nums' \in [Nums -> Int]
    BY <2>1, <2>2
  <2> QED
    BY <2>2, <2>3 DEF NumInv, NumType
<1>2. ASSUME \/ \E f \in HostFluents, b \in BOOLEAN : SetFluent(f, b)
             \/ \E q \in SubLits : Subscribe(q)
             \/ \E h \in DOMAIN subs : Unsubscribe(h)
             \/ \E as \in ActionSeqs : RefuseStep(as)
             \/ ContestedNumber \/ ContestedFluent
      PROVE  NumType' /\ pc' = "idle"
  <2>1. nums' = nums /\ nextnum' = nextnum /\ pc' = "idle"
    BY <1>2 DEF SetFluent, Subscribe, Unsubscribe, RefuseStep, ContestedNumber, ContestedFluent, world, call
  <2> QED
    BY <2>1 DEF NumInv, NumType
<1>3. ASSUME CommitStep PROVE NumType' /\ pc' = "idle"
  <2>1. nums' = nextnum /\ nextnum' = nextnum /\ pc' = "idle"
    BY <1>3 DEF CommitStep, call
  <2> QED
    BY <2>1 DEF NumInv, NumType
<1>4. NumType' /\ pc' = "idle"
  BY <1>1, <1>2, <1>3
<1> QED
  BY <1>4 DEF NumInv

\* A step begins with nothing settled.
LEMMA BeginNumbers ==
  ASSUME WorldInv, NumInv, NEW as, BeginStep(as)
  PROVE  NumInv'
<1>1. prog' = prog /\ nums' = nums /\ st' = 0 /\ nextnum' = [n \in Nums |-> 0]
  BY DEF BeginStep, world
<1>2. NumType'
  BY <1>1 DEF NumInv, NumType
<1>3. ASSUME NEW n \in Nums PROVE ~ (NumStratum(n)' < st')
  <2>1. NumStratum(n) \in Nat /\ NumStratum(n)' = NumStratum(n)
    BY <1>1, Strata DEF WorldInv, WorldType, NumStratum, Writers
  <2> QED
    BY <1>1, <2>1
<1> QED
  BY <1>2, <1>3 DEF NumInv

\* What is settled is kept with what it is read from.
LEMMA StillNumbers ==
  ASSUME NumInv, UNCHANGED vars
  PROVE  NumInv'
<1>1. /\ prog' = prog /\ vals' = vals /\ nums' = nums /\ pc' = pc /\ acts' = acts /\ split' = split /\ st' = st
      /\ nextnum' = nextnum /\ rcpt' = rcpt /\ pre' = pre
  BY DEF vars, world, call
<1>2. NumType' /\ (Orderly' <=> Orderly)
  BY <1>1 DEF NumInv, NumType, Orderly
<1>3. ActSet' = ActSet /\ \A n : NumStratum(n)' = NumStratum(n)
  BY <1>1 DEF ActSet, NumStratum, Writers
<1>4. \A k : MintedBelow(k)' = MintedBelow(k)
  BY <1>1, <1>3 DEF MintedBelow, SettledGuards, GuardTruth
<1>5. \A k : ColumnsAt(k)' = ColumnsAt(k)
  BY <1>1, <1>3, <1>4 DEF ColumnsAt
<1>6. \A n : ColumnsAt(NumStratum(n))' = ColumnsAt(NumStratum(n))
  BY <1>1, <1>3, <1>4 DEF ColumnsAt, MintedBelow, SettledGuards, GuardTruth, NumStratum, Writers
<1> QED
  BY <1>1, <1>2, <1>3, <1>6 DEF NumInv

\* Every step keeps what is settled settled.
LEMMA NumInvStep ==
  ASSUME WorldInv, NumInv, [Next]_vars
  PROVE  NumInv'
<1>1. CASE \E as \in ActionSeqs : BeginStep(as)
  BY <1>1, BeginNumbers
<1>2. CASE SettleStratum
  BY <1>2, SettleNumbers
<1>3. CASE UNCHANGED vars
  BY <1>3, StillNumbers
<1>4. CASE \/ \E f \in HostFluents, b \in BOOLEAN : SetFluent(f, b)
           \/ \E n \in Nums, v \in HostEdits : SetNum(n, v)
           \/ \E q \in SubLits : Subscribe(q)
           \/ \E h \in DOMAIN subs : Unsubscribe(h)
           \/ \E as \in ActionSeqs : RefuseStep(as)
           \/ ContestedNumber \/ ContestedFluent \/ CommitStep
  BY <1>4, IdleNumbers
<1> QED
  BY <1>1, <1>2, <1>3, <1>4 DEF Next, Host, Running

\* Rules that fire alike settle a number alike.
LEMMA SettledAlike ==
  ASSUME NEW p, NEW as, NEW now, NEW ns, NEW r, NEW n, NEW c1, NEW c2,
         \A s \in WritersFrom(p, n) : RuleFired(p.srules[s], as, c1) <=> RuleFired(p.srules[s], as, c2),
         SettledAs(p, as, now, ns, r, n, c1)
  PROVE  SettledAs(p, as, now, ns, r, n, c2)
<1> DEFINE Effs == UNION {{<<s, e>> : e \in DOMAIN p.srules[s].neffs} : s \in DOMAIN p.srules}
<1>1. ASSUME NEW c \in Effs, p.srules[c[1]].neffs[c[2]].num = n PROVE c[1] \in WritersFrom(p, n)
  <2>1. PICK s \in DOMAIN p.srules : c \in {<<s, e>> : e \in DOMAIN p.srules[s].neffs}
    OBVIOUS
  <2>2. PICK e \in DOMAIN p.srules[s].neffs : c = <<s, e>>
    BY <2>1
  <2> QED
    BY <1>1, <2>2 DEF WritersFrom, Writes
<1>2. \A c : FiredFrom(p, as, c, n) = {x \in Effs : p.srules[x[1]].neffs[x[2]].num = n /\ RuleFired(p.srules[x[1]], as, c)}
  BY DEF FiredFrom
<1> HIDE DEF Effs
<1>3. FiredFrom(p, as, c1, n) = FiredFrom(p, as, c2, n)
  BY <1>1, <1>2
<1> QED
  BY <1>3 DEF SettledAs

\* The numbers and the receipts of a commit: every receipt adds up, and those settled
\* in time are as the final solve has them.
NumbersSettled ==
  Committed => \A n \in Nums :
    /\ AddsUp(prog, nums, rcpt[n], n)
    /\ SettlesInTime(n) => SettledAs(prog, ActSet, pre, nums, rcpt[n], n, solved)

\* At the commit every number is settled, by the final solve as by its own.
LEMMA CommitNumbers ==
  ASSUME WorldInv, NumInv, CommitStep, Orderly
  PROVE  NumbersSettled'
<1> DEFINE m == NStrata - 1
<1>1. /\ prog \in Programs /\ NStrata \in Nat /\ NStrata > 0 /\ m \in Nat
      /\ FactsOK(vals, ActSet, MintedBelow(m))
      /\ solved = Columns(prog, CurSplit(prog, vals), StepFacts(vals, nums, ActSet, MintedBelow(m)))
      /\ nums' = nextnum /\ pre' = pre /\ prog' = prog /\ solved' = solved /\ ActSet' = ActSet
  BY CommitReading, Strata
<1>2. pc = "strata" /\ st = NStrata /\ rcpt' = rcpt
  BY DEF CommitStep
<1>3. split = CurSplit(prog, vals) /\ ActSet \subseteq Actions /\ WorldType
  BY <1>2 DEF WorldInv, StepInv
<1>4. Separate(prog) /\ Stratified(prog)
  BY DEF Orderly
<1>5. ASSUME NEW n \in Nums
      PROVE  /\ AddsUp(prog, nextnum, rcpt[n], n)
             /\ SettlesInTime(n) => SettledAs(prog, ActSet, pre, nextnum, rcpt[n], n, solved)
  <2> DEFINE k == NumStratum(n)
  <2>1. k \in Nat /\ k < NStrata
    <3>1. /\ k \in Nat
          /\ k = 0 \/ \E s \in Writers(n) : k = prog.srules[s].stratum
          /\ \A s \in DOMAIN prog.srules : prog.srules[s].stratum < NStrata
      BY <1>1, Strata
    <3>2. Writers(n) \subseteq DOMAIN prog.srules
      BY DEF Writers
    <3> HIDE DEF k
    <3> QED
      BY <1>1, <3>1, <3>2
  <2>2. SettledAs(prog, ActSet, pre, nextnum, rcpt[n], n, ColumnsAt(k))
    BY <1>2, <2>1 DEF NumInv
  <2>3. ColumnsAt(k) = Columns(prog, CurSplit(prog, vals), StepFacts(vals, nums, ActSet, MintedBelow(k)))
    BY <1>3 DEF ColumnsAt
  <2>4. FactsOK(vals, ActSet, MintedBelow(k))
    BY <1>3, MintedOK
  <2>5. k <= m
    BY <1>1, <2>1
  <2>6. \A s \in WritersFrom(prog, n) : s \in DOMAIN prog.srules /\ prog.srules[s].stratum <= k
    BY <1>1, WriterBelow DEF Writers, WritersFrom
  <2>a. AddsUp(prog, nextnum, rcpt[n], n)
    BY <2>2 DEF SettledAs, AddsUp
  <2>b. SettlesInTime(n) => InTime(k) \/ k = m
    <3>1. NStrata = 1 => k = m
      BY <1>1, <2>1
    <3> QED
      BY <2>1, <3>1 DEF SettlesInTime, InTime
  <2> HIDE DEF k, m
  <2>7. ASSUME InTime(k), NEW s \in WritersFrom(prog, n)
        PROVE  RuleFired(prog.srules[s], ActSet, ColumnsAt(k)) <=> RuleFired(prog.srules[s], ActSet, solved)
    BY <1>1, <1>4, <2>1, <2>3, <2>4, <2>5, <2>6, <2>7, EarlyFirings
  <2>8. CASE InTime(k)
    BY <2>2, <2>7, <2>8, <2>a, SettledAlike DEF k
  <2>9. CASE k = m
    <3>1. ColumnsAt(k) = solved
      BY <1>1, <2>3, <2>9
    <3> QED
      BY <2>2, <2>a, <3>1
  <2>10. CASE ~ SettlesInTime(n)
    BY <2>a, <2>10
  <2> QED
    BY <2>b, <2>8, <2>9, <2>10
<1>6. \A n : SettlesInTime(n)' <=> SettlesInTime(n)
  BY <1>1 DEF SettlesInTime, NumStratum, NStrata, Writers, ReadsAhead
<1> QED
  BY <1>1, <1>2, <1>5, <1>6 DEF NumbersSettled

\* The order-free value, read with all it reads named.
LEMMA NumbersRead ==
  ASSUME NEW cs, NEW n
  PROVE  /\ OrderFreeValue(cs, n) = ValueFrom(prog, nums, pre, n, FiredEffects(cs, n))
         /\ Assigned(cs, n) = AssignedFrom(prog, nums, pre, FiredEffects(cs, n))
         /\ \A v : Retract(n, v) = RetractFrom(prog, n, v)
<1>1. Assigned(cs, n) = AssignedFrom(prog, nums, pre, FiredEffects(cs, n))
  BY Zenon DEF Assigned, AssignedFrom, Effect, RHSValue, RHSFrom
<1>2. DeltaSum(cs, n) = DeltasFrom(prog, nums, pre, FiredEffects(cs, n))
  BY Zenon DEF DeltaSum, Deltas, DeltasFrom, Effect, RHSValue, RHSFrom
<1>3. \A v : Retract(n, v) = RetractFrom(prog, n, v)
  BY DEF Retract, RetractFrom
<1>4. OrderFreeValue(cs, n) = ValueFrom(prog, nums, pre, n, FiredEffects(cs, n))
  BY <1>1, <1>2, <1>3 DEF OrderFreeValue, ValueFrom, BaseFrom
<1> QED
  BY <1>1, <1>3, <1>4

\* Numbers so settled are what the two numeric properties ask.
LEMMA SettledFollow == NumbersSettled => NumbersFollowFinalFirings /\ ReceiptsReconcile
<1> SUFFICES ASSUME NumbersSettled, Committed, NEW n \in Nums
             PROVE  /\ rcpt[n].applied = nums[n]
                    /\ nums[n] = Retract(n, rcpt[n].raw)
                    /\ rcpt[n].raw = rcpt[n].base + SumOfKept(rcpt[n].items)
                    /\ SettlesInTime(n) =>
                         /\ nums[n] = OrderFreeValue(solved, n)
                         /\ prog.decl[n].merge = "REGISTER" => Cardinality(Assigned(solved, n)) <= 1
                         /\ \A k \in DOMAIN rcpt[n].items :
                              rcpt[n].items[k].defeated => ~ Fired(rcpt[n].items[k].rule)
  BY DEF NumbersFollowFinalFirings, ReceiptsReconcile
<1>1. /\ AddsUp(prog, nums, rcpt[n], n)
      /\ SettlesInTime(n) => SettledAs(prog, ActSet, pre, nums, rcpt[n], n, solved)
  BY DEF NumbersSettled
<1>2. FiredEffects(solved, n) = FiredFrom(prog, ActSet, solved, n)
      /\ \A s : Fired(s) <=> RuleFired(prog.srules[s], ActSet, solved)
  BY FiredReading DEF Fired
<1>3. /\ OrderFreeValue(solved, n) = ValueFrom(prog, nums, pre, n, FiredEffects(solved, n))
      /\ Assigned(solved, n) = AssignedFrom(prog, nums, pre, FiredEffects(solved, n))
      /\ \A v : Retract(n, v) = RetractFrom(prog, n, v)
  BY NumbersRead
<1> QED
  BY <1>1, <1>2, <1>3 DEF SettledAs, AddsUp

\* Within a step every number settled is what its own stratum makes it; every number
\* committed that settled in time, and its receipt, is what the final solve makes it
\* (the strata loop).
THEOREM NumbersSettle == Spec => [](NumInv /\ (Orderly => NumbersSettled))
<1> DEFINE P == Orderly => NumbersSettled
<1>1. Init => P
  BY DEF Init, NumbersSettled, Committed
<1>2. ASSUME WorldInv, NumInv, P, [Next]_vars PROVE P'
  <2>1. CASE UNCHANGED vars
    <3>1. /\ prog' = prog /\ nums' = nums /\ pre' = pre /\ solved' = solved /\ acts' = acts /\ rc' = rc
          /\ rcpt' = rcpt
      BY <2>1 DEF vars, world, call
    <3>2. ActSet' = ActSet /\ (Committed' <=> Committed) /\ (Orderly' <=> Orderly)
      BY <3>1 DEF ActSet, Committed, Orderly
    <3>3. \A n : SettlesInTime(n)' <=> SettlesInTime(n)
      BY <3>1 DEF SettlesInTime, NumStratum, NStrata, Writers, ReadsAhead
    <3> QED
      BY <1>2, <3>1, <3>2, <3>3 DEF NumbersSettled
  <2>2. CASE CommitStep
    <3>1. prog' = prog /\ pre' = pre
      BY <2>2 DEF CommitStep
    <3>2. Orderly' <=> Orderly
      BY <3>1 DEF Orderly
    <3> QED
      BY <1>2, <2>2, <3>2, CommitNumbers
  <2>3. CASE rc' # "ok"
    BY <2>3 DEF NumbersSettled, Committed
  <2> QED
    BY <1>2, <2>1, <2>2, <2>3, WorldInvStep
<1>3. WorldInv /\ [Next]_vars => WorldInv'
  BY WorldInvStep
<1>4. WorldInv /\ NumInv /\ [Next]_vars => NumInv'
  BY NumInvStep
<1> HIDE DEF P
<1>5. Spec => [](NumInv /\ P)
  BY <1>1, <1>2, <1>3, <1>4, WorldInvInit, NumInvInit, PTL DEF Spec
<1> QED
  BY <1>5 DEF P

\* (NumbersFollowFinalFirings) In a stratified program every committed number that
\* settled in time is the order-free value of the effects of the rules that fire in the
\* final solve, whichever stratum computed it, and no register took two values (the
\* strata loop of world_step).
THEOREM NumbersFollow ==
  Spec => [](Separate(prog) /\ Stratified(prog) /\ InRange(prog, pre.nums) => NumbersFollowFinalFirings)
<1>1. NumInv /\ (Orderly => NumbersSettled)
        => (Separate(prog) /\ Stratified(prog) /\ InRange(prog, pre.nums) => NumbersFollowFinalFirings)
  BY SettledFollow DEF Orderly
<1> QED
  BY <1>1, NumbersSettle, PTL

\* (ReceiptsReconcile) Each receipt adds up to the committed number, and a line marked
\* defeated, of a number settled in time, is an attempt of a rule that does not fire in
\* the final solve (world_num_receipt).
THEOREM ReceiptsAddUp ==
  Spec => [](Separate(prog) /\ Stratified(prog) /\ InRange(prog, pre.nums) => ReceiptsReconcile)
<1>1. NumInv /\ (Orderly => NumbersSettled)
        => (Separate(prog) /\ Stratified(prog) /\ InRange(prog, pre.nums) => ReceiptsReconcile)
  BY SettledFollow DEF Orderly
<1> QED
  BY <1>1, NumbersSettle, PTL

-----------------------------------------------------------------------------
(* The value split.                                                        *)

\* A rule of p that cannot fire in state vs: it demands another split value.
DeadUnder(p, vs, s) == s \in DOMAIN p.srules /\ s \notin LiveRules(p, CurSplit(p, vs))

\* Such a rule reads a value atom that is false.
LEMMA DeadReads ==
  ASSUME NEW p \in Programs, NEW vs, NEW s, DeadUnder(p, vs, s)
  PROVE  \E x \in Fluents : Pos(x) \in p.srules[s].now /\ ~ vs[x]
<1> DEFINE v == CurSplit(p, vs)
<1>1. v # NoSplit /\ ~ (ValuesDemanded(p, p.srules[s]) \subseteq {v})
  BY DEF DeadUnder, LiveRules, LiveUnder
<1>2. PICK x \in ValuesDemanded(p, p.srules[s]) : x # v
  BY <1>1
<1>3. x \in p.splits /\ Pos(x) \in p.srules[s].now
  BY DEF ValuesDemanded
<1>4. ~ vs[x]
  BY <1>1, <1>2, <1>3, CurSplitReading
<1>5. p.splits \subseteq Fluents
  <2>1. p \in Program
    BY WorldAssumption
  <2> QED
    BY <2>1 DEF Program
<1> QED
  BY <1>3, <1>4, <1>5

\* The false literal of a fluent is refuted.
LEMMA FluentRefuted ==
  ASSUME NEW p \in Programs, Separate(p), NEW v, NEW vs, NEW ns, NEW as, NEW M, FactsOK(vs, as, M),
         NEW q \in LitsOf(Fluents), ~ HoldsIn(vs, q)
  PROVE  Columns(p, v, StepFacts(vs, ns, as, M))[q] = DL_REFUTED
<1> DEFINE F == StepFacts(vs, ns, as, M)
           a == AtomOf(q)
           x == IF vs[a] THEN Pos(a) ELSE Neg(a)
<1>1. q \in Lits /\ a \in Fluents /\ a \in Atoms /\ vs[a] \in BOOLEAN
  BY WorldAssumption DEF LitsOf, FactsOK
<1>2. x \in F /\ x \in Lits /\ AtomOf(x) = a /\ (IsNeg(x) <=> ~ vs[a])
  BY <1>1, LitsOfAtom DEF FluentFacts, StepFacts
<1>3. (IsNeg(q) <=> vs[a]) /\ AtomOf(q) = a
  BY <1>1 DEF HoldsIn, IsNeg
<1>4. F \in SUBSET Lits
  BY FactsByPart
<1>5. q \notin F
  <2>1. q \notin FluentFacts(vs)
    <3>1. vs[AtomOf(q)] # ~ IsNeg(q)
      BY <1>1, <1>3
    <3> QED
      BY <3>1, FactsByPart
  <2>2. /\ \A b \in as : AtomOf(Pos(b)) \in Actions
        /\ \A y \in GuardFacts(ns) : AtomOf(y) \in DOMAIN Guards
        /\ \A y \in M : AtomOf(y) \in DOMAIN PGuards
    BY FactsByPart
  <2>3. AtomOf(q) \notin Actions /\ AtomOf(q) \notin DOMAIN Guards /\ AtomOf(q) \notin DOMAIN PGuards
    BY <1>1, SeparateReading
  <2>4. q \notin {Pos(b) : b \in as} /\ q \notin GuardFacts(ns) /\ q \notin M
    BY <2>2, <2>3
  <2> QED
    BY <2>1, <2>4 DEF StepFacts
<1> HIDE DEF F
<1>6. Compl(q) = x
  <2> HIDE DEF x, a
  <2>1. x = q \/ x = Compl(q)
    BY <1>1, <1>2, <1>3, LitsByAtom
  <2> QED
    BY <1>2, <1>3, <2>1
<1>7. StrictFor(StepThy(p, v, F), q) = {}
  BY <1>1, SeparateReading, ConcludedAtoms
<1>8. TheoryLits(StepThy(p, v, F)) /\ AreSccs(StepSccs(p, v)) /\ StepThy(p, v, F).facts = F
  BY <1>4, StepThyLits, StepThyReading
<1>9. Compl(q) \in F
  BY <1>2, <1>6
<1>10. Columns(p, v, F)[q] = DL_REFUTED
  BY <1>1, <1>5, <1>7, <1>8, <1>9, ComplementOfFact DEF Columns
<1> QED
  BY <1>10 DEF F

\* The causal rules of a dead rule have a refuted condition on the current state.
DeadEnds(p, vs, P) ==
  \A s : DeadUnder(p, vs, s) =>
    \E b \in CausalBody(p.srules[s]) : b \in LitsOf(Fluents) /\ P[b] = DL_REFUTED

\* They have, in every family, and so a dead rule fires in none.
LEMMA DeadNeverFires ==
  ASSUME NEW p \in Programs, Separate(p), NEW v, NEW vs, NEW ns, NEW as, NEW M, FactsOK(vs, as, M)
  PROVE  /\ DeadEnds(p, vs, Columns(p, v, StepFacts(vs, ns, as, M)))
         /\ \A s : DeadUnder(p, vs, s) =>
              ~ RuleFired(p.srules[s], as, Columns(p, v, StepFacts(vs, ns, as, M)))
<1> DEFINE cols == Columns(p, v, StepFacts(vs, ns, as, M))
<1>1. ASSUME NEW s, DeadUnder(p, vs, s)
      PROVE  /\ ~ RuleFired(p.srules[s], as, cols)
             /\ \E b \in CausalBody(p.srules[s]) : b \in LitsOf(Fluents) /\ cols[b] = DL_REFUTED
  <2>1. PICK x \in Fluents : Pos(x) \in p.srules[s].now /\ ~ vs[x]
    BY <1>1, DeadReads
  <2>2. x \in Atoms
    BY WorldAssumption
  <2>3. Pos(x) \in LitsOf(Fluents) /\ AtomOf(Pos(x)) = x /\ ~ IsNeg(Pos(x))
    BY <2>2, LitsOfAtom DEF LitsOf
  <2>4. ~ HoldsIn(vs, Pos(x))
    BY <2>1, <2>3 DEF HoldsIn
  <2>5. cols[Pos(x)] = DL_REFUTED
    BY <2>3, <2>4, FluentRefuted
  <2> HIDE DEF cols
  <2>6. ~ RuleFired(p.srules[s], as, cols)
    BY <2>1, <2>5 DEF RuleFired
  <2>7. Pos(x) \in CausalBody(p.srules[s])
    BY <2>1 DEF CausalBody
  <2> QED
    BY <2>3, <2>5, <2>6, <2>7
<1> HIDE DEF cols
<1>2. DeadEnds(p, vs, cols)
  BY <1>1 DEF DeadEnds
<1> QED
  BY <1>1, <1>2 DEF cols

\* The primed guards some rule of p reads, and the atoms of the current state.
GuardsRead(p) ==
  {g \in DOMAIN PGuards : \E s \in DOMAIN p.srules : Pos(g) \in p.srules[s].now \/ Neg(g) \in p.srules[s].now}
CurrentLits(p) == LitsOf(Atoms \ (PrimedAtoms \cup (DOMAIN PGuards \ GuardsRead(p))))

\* The literals a split step and a step on the full schema share.
SharedNext(p, vs) == LitsOf({PrimedOf[f] : f \in WriteSet(p, CurSplit(p, vs))})
SharedLits(p, vs) == CurrentLits(p) \cup SharedNext(p, vs)

\* Minted guards alike on those read.
AlikeGuards(p, M1, M2) == \A q \in LitsOf(GuardsRead(p)) : q \in M1 <=> q \in M2

\* The full schema only adds dead rules and inertia.
LEMMA FullerFamily ==
  ASSUME NEW p \in Programs, NEW vs, NEW v, v = CurSplit(p, vs) \/ v = NoSplit
  PROVE  /\ LiveRules(p, CurSplit(p, vs)) \subseteq LiveRules(p, v)
         /\ WriteSet(p, CurSplit(p, vs)) \subseteq WriteSet(p, v)
         /\ \A s \in LiveRules(p, v) \ LiveRules(p, CurSplit(p, vs)) : DeadUnder(p, vs, s)
<1>1. LiveRules(p, CurSplit(p, vs)) \subseteq LiveRules(p, v)
  BY DEF LiveRules, LiveUnder
<1>2. WriteSet(p, CurSplit(p, vs)) \subseteq WriteSet(p, v)
  BY DEF WriteSet
<1>3. \A s \in LiveRules(p, v) : s \in DOMAIN p.srules
  BY DEF LiveRules
<1> QED
  BY <1>1, <1>2, <1>3 DEF DeadUnder

\* What a live rule reads is shared.
LEMMA LiveReadsShared ==
  ASSUME NEW p \in Programs, Separate(p), NEW vs, NEW s \in LiveRules(p, CurSplit(p, vs))
  PROVE  CausalBody(p.srules[s]) \subseteq SharedLits(p, vs)
<1> DEFINE r == p.srules[s]
           v == CurSplit(p, vs)
<1>1. s \in DOMAIN p.srules /\ r.now \subseteq Lits /\ r.action \in Actions \cup {NoAction}
      /\ r.nxt \subseteq LitsOf(Fluents)
  BY ProgramType, RuleAssumption DEF LiveRules, StepRule
<1>2. ASSUME NEW q \in r.now PROVE q \in CurrentLits(p)
  <2>1. q \in Lits /\ AtomOf(q) \in Atoms /\ q = IF IsNeg(q) THEN Neg(AtomOf(q)) ELSE Pos(AtomOf(q))
    BY <1>1, AtomOfLit
  <2>2. AtomOf(q) \notin PrimedAtoms
    BY <1>1 DEF Separate
  <2>3. AtomOf(q) \in DOMAIN PGuards => AtomOf(q) \in GuardsRead(p)
    BY <1>1, <2>1 DEF GuardsRead
  <2> QED
    BY <2>1, <2>2, <2>3 DEF CurrentLits, LitsOf
<1>3. ASSUME NEW q \in r.nxt PROVE PrimedLit(q) \in SharedNext(p, vs)
  <2>1. q \in LitsOf(Fluents \cup Emits) /\ AtomOf(q) \in Fluents
    BY <1>1 DEF LitsOf
  <2>2. AtomOf(q) \in WriteSet(p, v)
    BY <2>1 DEF WriteSet
  <2>3. PrimedLit(q) \in Lits /\ AtomOf(PrimedLit(q)) = PrimedOf[AtomOf(q)]
    BY <2>1, PrimedTwin
  <2> QED
    BY <2>2, <2>3 DEF SharedNext, LitsOf
<1>4. ASSUME r.action # NoAction PROVE Pos(r.action) \in CurrentLits(p)
  <2>1. r.action \in Actions /\ r.action \in Atoms
    BY <1>1, <1>4, WorldAssumption
  <2>2. Pos(r.action) \in Lits /\ AtomOf(Pos(r.action)) = r.action
    BY <2>1, LitsOfAtom
  <2>3. r.action \notin PrimedAtoms /\ r.action \notin DOMAIN PGuards
    BY <2>1, SeparateReading
  <2> QED
    BY <2>1, <2>2, <2>3 DEF CurrentLits, LitsOf
<1> HIDE DEF r
<1>5. CausalBody(r) \subseteq CurrentLits(p) \cup SharedNext(p, vs)
  BY <1>2, <1>3, <1>4 DEF CausalBody
<1> QED
  BY <1>5 DEF r, SharedLits

\* Rule r is about the shared next value q under v: its inertia, or a live rule.
AboutNext(p, vs, v, q, r) ==
  \/ \E x \in LitsOf(WriteSet(p, CurSplit(p, vs))) : r = <<"inertia", x>> /\ PrimedLit(x) = q
  \/ \E s \in LiveRules(p, v) : \E e \in p.srules[s].effects : r = <<"causal", s, e>> /\ PrimedLit(e) = q

\* The family has those rules about it and no other.
LEMMA NextRules ==
  ASSUME NEW p \in Programs, Separate(p), NEW vs, NEW v, v = CurSplit(p, vs) \/ v = NoSplit, NEW F,
         NEW q \in SharedNext(p, vs), NEW r
  PROVE  r \in RulesFor(StepThy(p, v, F), q) <=> AboutNext(p, vs, v, q, r)
<1> DEFINE w == CurSplit(p, vs)
           t == StepThy(p, v, F)
<1>1. PICK f \in WriteSet(p, w) : q \in Lits /\ AtomOf(q) = PrimedOf[f]
  BY DEF SharedNext, LitsOf
<1>2. f \in Fluents /\ AtomOf(q) \in PrimedAtoms
  BY <1>1, WriteSetFluents DEF PrimedAtoms
<1>3. WriteSet(p, w) \subseteq WriteSet(p, v) /\ WriteSet(p, v) \subseteq Fluents
  BY FullerFamily, WriteSetFluents
<1>4. ASSUME r \in RulesFor(t, q)
      PROVE  \/ \E x \in LitsOf(WriteSet(p, w)) : r = <<"inertia", x>> /\ PrimedLit(x) = q
             \/ \E s \in LiveRules(p, v) : \E e \in p.srules[s].effects :
                  r = <<"causal", s, e>> /\ PrimedLit(e) = q
  <2>1. \A j \in DOMAIN p.jrules : p.jrules[j].head # q
    BY <1>2, SeparateReading DEF Concluded
  <2>2. ASSUME NEW x \in LitsOf(WriteSet(p, v)), PrimedLit(x) = q PROVE x \in LitsOf(WriteSet(p, w))
    <3>1. x \in LitsOf(Fluents \cup Emits) /\ x \in Lits /\ AtomOf(x) \in Fluents
      BY <1>3 DEF LitsOf
    <3>2. PrimedOf[AtomOf(x)] = PrimedOf[f]
      BY <1>1, <2>2, <3>1, PrimedTwin
    <3>3. AtomOf(x) = f
      BY <1>2, <3>1, <3>2 DEF Separate
    <3> QED
      BY <3>1, <3>3 DEF LitsOf
  <2> HIDE DEF w
  <2> QED
    BY <1>4, <2>1, <2>2, RulesByKind
<1>c. r \in FamilyIds(p, v) => r \in DOMAIN t.rules /\ t.rules[r] = FamilyRule(p, r)
  <2>1. t.rules = StepFamily(p, v).rules
    BY StepThyReading
  <2> HIDE DEF t
  <2> QED
    BY <2>1, FamilyReading
<1>5. ASSUME NEW x \in LitsOf(WriteSet(p, w)), r = <<"inertia", x>>, PrimedLit(x) = q
      PROVE  r \in RulesFor(t, q)
  <2>1. x \in LitsOf(WriteSet(p, v))
    BY <1>3 DEF LitsOf
  <2>2. r \in FamilyIds(p, v) /\ FamilyRule(p, r) = [kind |-> DL_DEFEASIBLE, head |-> PrimedLit(x), body |-> {x}]
    BY <1>5, <2>1, IdsHeld, FamilyRules
  <2>3. r \in DOMAIN t.rules /\ t.rules[r] = FamilyRule(p, r)
    BY <1>c, <2>2
  <2> HIDE DEF t
  <2> QED
    BY <1>5, <2>2, <2>3 DEF RulesFor
<1>6. ASSUME NEW s \in LiveRules(p, v), NEW e \in p.srules[s].effects,
             r = <<"causal", s, e>>, PrimedLit(e) = q
      PROVE  r \in RulesFor(t, q)
  <2>2. r \in FamilyIds(p, v)
        /\ FamilyRule(p, r) = [kind |-> DL_DEFEASIBLE, head |-> PrimedLit(e), body |-> CausalBody(p.srules[s])]
    BY <1>6, IdsHeld, FamilyRules
  <2>3. r \in DOMAIN t.rules /\ t.rules[r] = FamilyRule(p, r)
    BY <1>c, <2>2
  <2> HIDE DEF t
  <2> QED
    BY <1>6, <2>2, <2>3 DEF RulesFor
<1> QED
  BY <1>4, <1>5, <1>6 DEF AboutNext
\* Two steps from one state, by the split or not, with the guards read minted alike.
TwoSteps(p, vs, ns, as, v1, M1, v2, M2) ==
  /\ FactsOK(vs, as, M1) /\ FactsOK(vs, as, M2) /\ AlikeGuards(p, M1, M2)
  /\ v1 = CurSplit(p, vs) \/ v1 = NoSplit
  /\ v2 = CurSplit(p, vs) \/ v2 = NoSplit

\* Both have the same facts and the same rules about the current state.
LEMMA CurrentAlike ==
  ASSUME NEW p \in Programs, Separate(p), NEW vs, NEW ns, NEW as, NEW v1, NEW M1, NEW v2, NEW M2,
         TwoSteps(p, vs, ns, as, v1, M1, v2, M2)
  PROVE  SameOn(StepThy(p, v1, StepFacts(vs, ns, as, M1)), StepThy(p, v2, StepFacts(vs, ns, as, M2)),
                CurrentLits(p))
<1> DEFINE F1 == StepFacts(vs, ns, as, M1)
           F2 == StepFacts(vs, ns, as, M2)
           t1 == StepThy(p, v1, F1)
           t2 == StepThy(p, v2, F2)
           J == CurrentLits(p)
<1>1. J \in SUBSET Lits /\ \A q \in J : q \in Lits /\ AtomOf(q) \in Atoms /\ AtomOf(q) \notin PrimedAtoms
                                          /\ (AtomOf(q) \in DOMAIN PGuards => AtomOf(q) \in GuardsRead(p))
  BY DEF CurrentLits, LitsOf
<1>2. \A q \in J : Compl(q) \in J
  BY <1>1, ComplLits, ComplAtom DEF CurrentLits, LitsOf
<1>3. LitsOf(JudgmentAtoms(p)) \subseteq J
  <2>1. JudgmentAtoms(p) \cap (PrimedAtoms \cup DOMAIN PGuards) = {}
    BY DEF Separate
  <2> QED
    BY <2>1, AtomOfLit DEF CurrentLits, LitsOf
<1>4. FactsOK(vs, as, M1) /\ FactsOK(vs, as, M2) /\ AlikeGuards(p, M1, M2)
  BY DEF TwoSteps
<1>5. ASSUME NEW q \in J PROVE q \in F1 <=> q \in F2
  <2>1. q \in M1 => q \in M2
    <3>1. q \in M1 => AtomOf(q) \in DOMAIN PGuards
      BY <1>4, FactsByPart
    <3> QED
      BY <1>1, <1>4, <3>1 DEF AlikeGuards, LitsOf
  <2>2. q \in M2 => q \in M1
    <3>1. q \in M2 => AtomOf(q) \in DOMAIN PGuards
      BY <1>4, FactsByPart
    <3> QED
      BY <1>1, <1>4, <3>1 DEF AlikeGuards, LitsOf
  <2> QED
    BY <2>1, <2>2 DEF StepFacts
<1> HIDE DEF F1, F2
<1>6. ASSUME NEW q \in J, NEW r
      PROVE  /\ r \in RulesFor(t1, q) <=> r \in RulesFor(t2, q)
             /\ r \in RulesFor(t1, q) =>
                  r \in JudgmentRules(p) /\ t1.rules[r] = t2.rules[r] /\ t1.rules[r].body \subseteq J
  <2>1. AtomOf(q) \notin PrimedAtoms
    BY <1>1
  <2>2. /\ r \in RulesFor(t1, q)
              <=> \E j \in DOMAIN p.jrules : r = <<"judgment", j>> /\ p.jrules[j].head = q
        /\ r \in RulesFor(t1, q) => t1.rules[r] = FamilyRule(p, r) /\ r \in JudgmentRules(p)
    BY <2>1, CurrentRules
  <2>3. /\ r \in RulesFor(t2, q)
              <=> \E j \in DOMAIN p.jrules : r = <<"judgment", j>> /\ p.jrules[j].head = q
        /\ r \in RulesFor(t2, q) => t2.rules[r] = FamilyRule(p, r) /\ r \in JudgmentRules(p)
    BY <2>1, CurrentRules
  <2> HIDE DEF t1, t2, J
  <2>4. r \in JudgmentRules(p) => FamilyRule(p, r).body \subseteq J
    BY <1>3, JudgmentBody
  <2> QED
    BY <2>2, <2>3, <2>4
<1>7. \A r : \A s \in JudgmentRules(p) : <<r, s>> \in t1.sups <=> <<r, s>> \in t2.sups
  BY JudgmentSupsAlone
<1>8. t1.facts = F1 /\ t2.facts = F2
  BY StepThyReading
<1> HIDE DEF t1, t2, J
<1>9. \A q \in J : RulesFor(t1, q) = RulesFor(t2, q)
  BY <1>6
<1>10. \A q \in J : \A r \in RulesFor(t1, q) :
         r \in JudgmentRules(p) /\ t1.rules[r] = t2.rules[r] /\ t1.rules[r].body \subseteq J
  BY <1>6
<1>11. SameOn(t1, t2, J)
  BY <1>1, <1>2, <1>5, <1>7, <1>8, <1>9, <1>10 DEF SameOn
<1> QED
  BY <1>11 DEF t1, t2, J, F1, F2

\* A causal rule is superior to the same inertia in both.
LEMMA CausalSupsAlike ==
  ASSUME NEW p \in Programs, Separate(p), NEW vs, NEW v1, NEW F1, NEW v2, NEW F2,
         v1 = CurSplit(p, vs) \/ v1 = NoSplit, v2 = CurSplit(p, vs) \/ v2 = NoSplit,
         NEW q \in SharedNext(p, vs),
         NEW r \in RulesFor(StepThy(p, v1, F1), q) \cap RulesFor(StepThy(p, v2, F2), q), NEW s
  PROVE  <<r, s>> \in StepThy(p, v1, F1).sups <=> <<r, s>> \in StepThy(p, v2, F2).sups
<1>1. ASSUME NEW v, NEW F PROVE StepThy(p, v, F).sups = JudgmentSups(p) \cup CausalSups(Causal(p, v))
  <2>1. StepThy(p, v, F).sups = StepFamily(p, v).sups
    BY StepThyReading
  <2>2. StepFamily(p, v).sups = JudgmentSups(p) \cup CausalSups(Causal(p, v))
    BY DEF StepFamily, Causal
  <2> QED
    BY <2>1, <2>2
<1>2. ASSUME NEW v, NEW F, v = CurSplit(p, vs) \/ v = NoSplit, r \in RulesFor(StepThy(p, v, F), q), r[1] = "causal"
      PROVE  r \in Causal(p, v)
  <2>1. AboutNext(p, vs, v, q, r)
    BY <1>2, NextRules
  <2>2. PICK z \in LiveRules(p, v) : \E e \in p.srules[z].effects : r = <<"causal", z, e>>
    BY <1>2, <2>1 DEF AboutNext
  <2>3. PICK e \in p.srules[z].effects : r = <<"causal", z, e>>
    BY <2>2
  <2>4. e \in Lits
    BY RuleAssumption DEF LiveRules, LitsOf
  <2>5. r \in CausalRules(p, LiveRules(p, v)) /\ r[2] = z /\ r[3] = e
    BY <2>3, <2>4 DEF CausalRules
  <2> QED
    BY <2>3, <2>5 DEF Causal
<1>3. ASSUME NEW v, NEW F, v = CurSplit(p, vs) \/ v = NoSplit, r \in RulesFor(StepThy(p, v, F), q)
      PROVE  <<r, s>> \in CausalSups(Causal(p, v))
               <=> r[1] = "causal" /\ AtomOf(r[3]) \in Fluents /\ s = <<"inertia", Compl(r[3])>>
  <2>1. r[1] = "causal" => r \in Causal(p, v)
    BY <1>2, <1>3
  <2>2. \A id \in Causal(p, v) : id[1] = "causal"
    BY DEF Causal, CausalRules
  <2> QED
    BY <2>1, <2>2 DEF CausalSups
<1>4. /\ <<r, s>> \in CausalSups(Causal(p, v1))
           <=> r[1] = "causal" /\ AtomOf(r[3]) \in Fluents /\ s = <<"inertia", Compl(r[3])>>
      /\ <<r, s>> \in CausalSups(Causal(p, v2))
           <=> r[1] = "causal" /\ AtomOf(r[3]) \in Fluents /\ s = <<"inertia", Compl(r[3])>>
  BY <1>3
<1> QED
  BY <1>1, <1>4

\* Both have the same facts and, dead ones apart, the same rules about what they
\* share.
LEMMA SplitAlike ==
  ASSUME NEW p \in Programs, Separate(p), NEW vs, NEW ns, NEW as, NEW v1, NEW M1, NEW v2, NEW M2,
         TwoSteps(p, vs, ns, as, v1, M1, v2, M2), v1 = CurSplit(p, vs) \/ v2 = CurSplit(p, vs),
         NEW P, DeadEnds(p, vs, P)
  PROVE  AlikeOn(StepThy(p, v1, StepFacts(vs, ns, as, M1)), StepThy(p, v2, StepFacts(vs, ns, as, M2)),
                 SharedLits(p, vs), P)
<1> DEFINE F1 == StepFacts(vs, ns, as, M1)
           F2 == StepFacts(vs, ns, as, M2)
           t1 == StepThy(p, v1, F1)
           t2 == StepThy(p, v2, F2)
           w == CurSplit(p, vs)
           J == CurrentLits(p)
           N == SharedNext(p, vs)
           B == SharedLits(p, vs)
<1>1. SameOn(t1, t2, J)
  BY CurrentAlike
<1>2. FactsOK(vs, as, M1) /\ FactsOK(vs, as, M2) /\ (v1 = w \/ v1 = NoSplit) /\ (v2 = w \/ v2 = NoSplit)
      /\ (v1 = w \/ v2 = w)
  BY DEF TwoSteps
<1>3. \A q \in N : q \in Lits /\ Compl(q) \in N /\ AtomOf(q) \in PrimedAtoms
  <2>1. \A f \in WriteSet(p, w) : PrimedOf[f] \in PrimedAtoms
    BY WriteSetFluents DEF PrimedAtoms
  <2>2. \A q \in N : q \in Lits /\ AtomOf(q) \in {PrimedOf[f] : f \in WriteSet(p, w)}
    BY DEF SharedNext, LitsOf
  <2>3. \A q \in N : Compl(q) \in Lits /\ AtomOf(Compl(q)) = AtomOf(q)
    BY <2>2, ComplLits, ComplAtom
  <2> QED
    BY <2>1, <2>2, <2>3 DEF SharedNext, LitsOf
<1>4. \A q \in N : q \notin F1 /\ q \notin F2
  BY <1>2, <1>3, PrimedUnstated
<1>6. B = J \cup N /\ B \in SUBSET Lits
  <2>1. J \subseteq Lits
    BY DEF CurrentLits, LitsOf
  <2> QED
    BY <1>3, <2>1 DEF SharedLits
<1>7. LitsOf(Fluents) \subseteq B
  <2>1. \A f \in Fluents : f \in Atoms /\ f \notin PrimedAtoms /\ f \notin DOMAIN PGuards
    BY SeparateReading, WorldAssumption
  <2>2. LitsOf(Fluents) \subseteq J
    BY <2>1 DEF CurrentLits, LitsOf
  <2> QED
    BY <1>6, <2>2
<1> HIDE DEF F1, F2, J, N, B
<1>5. t1.facts = F1 /\ t2.facts = F2
  BY StepThyReading
<1>8. ASSUME NEW q \in N, NEW r, AboutNext(p, vs, w, q, r)
      PROVE  FamilyRule(p, r).body \subseteq B
  <2>1. ASSUME NEW x \in LitsOf(WriteSet(p, w)), r = <<"inertia", x>> PROVE FamilyRule(p, r).body \subseteq B
    <3>1. FamilyRule(p, r) = [kind |-> DL_DEFEASIBLE, head |-> PrimedLit(x), body |-> {x}]
      BY <2>1, FamilyRules
    <3>2. x \in LitsOf(Fluents)
      BY WriteSetFluents DEF LitsOf
    <3> QED
      BY <1>7, <3>1, <3>2
  <2>2. ASSUME NEW s \in LiveRules(p, w), NEW e, r = <<"causal", s, e>> PROVE FamilyRule(p, r).body \subseteq B
    <3>1. FamilyRule(p, r) = [kind |-> DL_DEFEASIBLE, head |-> PrimedLit(e), body |-> CausalBody(p.srules[s])]
      BY <2>2, FamilyRules
    <3> QED
      BY <3>1, LiveReadsShared DEF B
  <2> QED
    BY <1>8, <2>1, <2>2 DEF AboutNext
<1>9. ASSUME NEW q \in N, NEW r, NEW v, v = w \/ v = NoSplit, NEW F, r \in RulesFor(StepThy(p, v, F), q)
      PROVE  /\ StepThy(p, v, F).rules[r] = FamilyRule(p, r)
             /\ AboutNext(p, vs, w, q, r) \/ (v = NoSplit /\ DeadRule(StepThy(p, v, F), r, B, P))
  <2>1. StepThy(p, v, F).rules[r] = FamilyRule(p, r)
    BY <1>9, RulesByKind
  <2>2. AboutNext(p, vs, v, q, r)
    BY <1>9, NextRules DEF N
  <2>3. ASSUME NEW s \in LiveRules(p, v) \ LiveRules(p, w), NEW e, r = <<"causal", s, e>>
        PROVE  v = NoSplit /\ DeadRule(StepThy(p, v, F), r, B, P)
    <3>1. DeadUnder(p, vs, s)
      BY <1>9, FullerFamily
    <3>2. PICK b \in CausalBody(p.srules[s]) : b \in LitsOf(Fluents) /\ P[b] = DL_REFUTED
      BY <3>1 DEF DeadEnds
    <3>3. FamilyRule(p, r) = [kind |-> DL_DEFEASIBLE, head |-> PrimedLit(e), body |-> CausalBody(p.srules[s])]
      BY <2>3, FamilyRules
    <3>4. b \in FamilyRule(p, r).body /\ FamilyRule(p, r).kind # DL_STRICT
      BY <3>3
    <3>5. v = NoSplit
      BY <1>9, <2>3
    <3> QED
      BY <1>7, <2>1, <3>2, <3>4, <3>5 DEF DeadRule
  <2>4. ASSUME NEW s \in LiveRules(p, v), NEW e \in p.srules[s].effects, r = <<"causal", s, e>>, PrimedLit(e) = q
        PROVE  AboutNext(p, vs, w, q, r) \/ (v = NoSplit /\ DeadRule(StepThy(p, v, F), r, B, P))
    <3>0. \E y \in p.srules[s].effects : r = <<"causal", s, y>> /\ PrimedLit(y) = q
      BY <2>4
    <3>1. CASE s \in LiveRules(p, w)
      <4> HIDE DEF w
      <4>1. \E z \in LiveRules(p, w) : \E y \in p.srules[z].effects : r = <<"causal", z, y>> /\ PrimedLit(y) = q
        BY <3>0, <3>1
      <4> QED
        BY <4>1 DEF AboutNext
    <3> QED
      BY <2>3, <2>4, <3>1
  <2>5. ASSUME NEW x \in LitsOf(WriteSet(p, w)), r = <<"inertia", x>>, PrimedLit(x) = q
        PROVE  AboutNext(p, vs, w, q, r)
    BY <2>5 DEF AboutNext
  <2>6. CASE \E x \in LitsOf(WriteSet(p, w)) : r = <<"inertia", x>> /\ PrimedLit(x) = q
    BY <2>1, <2>5, <2>6
  <2>7. CASE \E s \in LiveRules(p, v) : \E e \in p.srules[s].effects : r = <<"causal", s, e>> /\ PrimedLit(e) = q
    <3> HIDE DEF w
    <3>1. PICK s \in LiveRules(p, v) : \E e \in p.srules[s].effects : r = <<"causal", s, e>> /\ PrimedLit(e) = q
      BY <2>7
    <3>2. PICK e \in p.srules[s].effects : r = <<"causal", s, e>> /\ PrimedLit(e) = q
      BY <3>1
    <3>3. AboutNext(p, vs, w, q, r) \/ (v = NoSplit /\ DeadRule(StepThy(p, v, F), r, B, P))
      BY <2>4, <3>2
    <3> QED
      BY <2>1, <3>3
  <2> QED
    BY <2>2, <2>6, <2>7 DEF AboutNext
<1>10. ASSUME NEW q \in N
       PROVE  /\ \A r \in RulesFor(t1, q) \cap RulesFor(t2, q) :
                   t1.rules[r] = t2.rules[r] /\ t1.rules[r].body \subseteq B
              /\ \A r \in RulesFor(t1, q) \ RulesFor(t2, q) : DeadRule(t1, r, B, P)
              /\ \A r \in RulesFor(t2, q) \ RulesFor(t1, q) : DeadRule(t2, r, B, P)
  <2>0. q \in SharedNext(p, vs)
    BY DEF N
  <2>1. ASSUME NEW v, v = w \/ v = NoSplit, NEW F, NEW r, AboutNext(p, vs, w, q, r)
        PROVE  r \in RulesFor(StepThy(p, v, F), q)
    <3>1. LiveRules(p, w) \subseteq LiveRules(p, v)
      BY <2>1, FullerFamily
    <3>2. AboutNext(p, vs, v, q, r)
      BY <2>1, <3>1 DEF AboutNext
    <3> QED
      BY <2>0, <2>1, <3>2, NextRules
  <2>2. ASSUME NEW r \in RulesFor(t1, q) PROVE r \in RulesFor(t2, q) \/ DeadRule(t1, r, B, P)
    BY <1>2, <1>9, <2>1
  <2>3. ASSUME NEW r \in RulesFor(t2, q) PROVE r \in RulesFor(t1, q) \/ DeadRule(t2, r, B, P)
    BY <1>2, <1>9, <2>1
  <2>4. ASSUME NEW r \in RulesFor(t1, q), r \in RulesFor(t2, q)
        PROVE  t1.rules[r] = t2.rules[r] /\ t1.rules[r].body \subseteq B
    <3>1. t1.rules[r] = FamilyRule(p, r) /\ t2.rules[r] = FamilyRule(p, r)
      BY <1>2, <1>9, <2>4
    <3>2. AboutNext(p, vs, v1, q, r) /\ AboutNext(p, vs, v2, q, r)
      BY <1>2, <2>0, <2>4, NextRules
    <3>3. AboutNext(p, vs, w, q, r)
      BY <1>2, <3>2
    <3> QED
      BY <1>8, <3>1, <3>3
  <2> QED
    BY <2>2, <2>3, <2>4
<1>11. ASSUME NEW q \in N, NEW r \in RulesFor(t1, q) \cap RulesFor(t2, q), NEW s
       PROVE  <<r, s>> \in t1.sups <=> <<r, s>> \in t2.sups
  BY <1>2, <1>11, CausalSupsAlike DEF N
<1> HIDE DEF t1, t2, w
<1>12. ASSUME NEW q \in B
       PROVE  /\ Compl(q) \in B
              /\ q \in t1.facts <=> q \in t2.facts
              /\ \A r \in RulesFor(t1, q) \cap RulesFor(t2, q) :
                   t1.rules[r] = t2.rules[r] /\ t1.rules[r].body \subseteq B
              /\ \A r \in RulesFor(t1, q) \ RulesFor(t2, q) : DeadRule(t1, r, B, P)
              /\ \A r \in RulesFor(t2, q) \ RulesFor(t1, q) : DeadRule(t2, r, B, P)
              /\ \A r \in RulesFor(t1, q) \cap RulesFor(t2, q),
                    s \in RulesFor(t1, Compl(q)) \cap RulesFor(t2, Compl(q)) :
                   <<r, s>> \in t1.sups <=> <<r, s>> \in t2.sups
  <2>1. CASE q \in J
    <3>1. /\ Compl(q) \in J /\ (q \in t1.facts <=> q \in t2.facts) /\ RulesFor(t1, q) = RulesFor(t2, q)
          /\ \A r \in RulesFor(t1, q) : t1.rules[r] = t2.rules[r] /\ t1.rules[r].body \subseteq J
          /\ \A r \in RulesFor(t1, q), s \in RulesFor(t1, Compl(q)) :
               <<r, s>> \in t1.sups <=> <<r, s>> \in t2.sups
      BY <1>1, <2>1 DEF SameOn
    <3> QED
      BY <1>6, <3>1
  <2>2. CASE q \in N
    <3>1. Compl(q) \in B /\ (q \in t1.facts <=> q \in t2.facts)
      BY <1>3, <1>4, <1>5, <1>6, <2>2
    <3> QED
      BY <1>10, <1>11, <2>2, <3>1
  <2> QED
    BY <1>6, <2>1, <2>2
<1>13. AlikeOn(t1, t2, B, P)
  BY <1>6, <1>12 DEF AlikeOn
<1> QED
  BY <1>13 DEF t1, t2, B, F1, F2

\* A shared next value is attacked by the inertia of its complement.
LEMMA NextAttacked ==
  ASSUME NEW p \in Programs, Separate(p), NEW vs, NEW v, v = CurSplit(p, vs) \/ v = NoSplit, NEW F,
         NEW q \in SharedNext(p, vs)
  PROVE  Attacked(StepThy(p, v, F), q)
<1> DEFINE w == CurSplit(p, vs)
<1>1. PICK f \in WriteSet(p, w) : q \in Lits /\ AtomOf(q) = PrimedOf[f]
  BY DEF SharedNext, LitsOf
<1>2. f \in Fluents /\ f \in Atoms /\ PrimedOf[f] \in Atoms
  BY <1>1, WriteSetFluents, WorldAssumption
<1>3. Compl(q) \in Lits /\ AtomOf(Compl(q)) = PrimedOf[f]
  BY <1>1, ComplLits, ComplAtom
<1>4. Compl(q) \in SharedNext(p, vs)
  BY <1>1, <1>3 DEF SharedNext, LitsOf
<1>5. PICK y \in {Pos(f), Neg(f)} : IsNeg(y) <=> IsNeg(Compl(q))
  BY <1>2, LitsOfAtom
<1>6. y \in LitsOf(WriteSet(p, w)) /\ y \in LitsOf(Fluents \cup Emits) /\ AtomOf(y) = f
  BY <1>1, <1>2, LitsOfAtom DEF LitsOf
<1>7. PrimedLit(y) = Compl(q)
  <2>1. PrimedLit(y) = IF IsNeg(y) THEN Neg(PrimedOf[f]) ELSE Pos(PrimedOf[f])
    BY <1>6, PrimedTwin
  <2>2. Compl(q) = IF IsNeg(Compl(q)) THEN Neg(PrimedOf[f]) ELSE Pos(PrimedOf[f])
    BY <1>3, AtomOfLit
  <2> QED
    BY <1>5, <2>1, <2>2
<1>8. <<"inertia", y>> \in RulesFor(StepThy(p, v, F), Compl(q))
  <2>1. AboutNext(p, vs, v, Compl(q), <<"inertia", y>>)
    BY <1>6, <1>7 DEF AboutNext
  <2> QED
    BY <1>4, <2>1, NextRules
<1> QED
  BY <1>8 DEF Attacked

\* A split step and a step on the full schema mirror each other.
LEMMA SplitMirrored ==
  ASSUME NEW p \in Programs, Separate(p), NEW vs, NEW ns, NEW as, NEW v1, NEW M1, NEW v2, NEW M2,
         TwoSteps(p, vs, ns, as, v1, M1, v2, M2), v1 = CurSplit(p, vs) \/ v2 = CurSplit(p, vs)
  PROVE  Mirrored(StepThy(p, v1, StepFacts(vs, ns, as, M1)), StepSccs(p, v1),
                  StepThy(p, v2, StepFacts(vs, ns, as, M2)), StepSccs(p, v2),
                  SharedLits(p, vs), CurrentLits(p), Columns(p, v2, StepFacts(vs, ns, as, M2)))
<1> DEFINE F1 == StepFacts(vs, ns, as, M1)
           F2 == StepFacts(vs, ns, as, M2)
           t1 == StepThy(p, v1, F1)
           t2 == StepThy(p, v2, F2)
           J == CurrentLits(p)
           B == SharedLits(p, vs)
           P == Columns(p, v2, F2)
<1>1. SameOn(t1, t2, J)
  BY CurrentAlike
<1>2. FactsOK(vs, as, M1) /\ FactsOK(vs, as, M2) /\ (v1 = CurSplit(p, vs) \/ v1 = NoSplit)
  BY DEF TwoSteps
<1>3. DeadEnds(p, vs, P)
  BY <1>2, DeadNeverFires
<1>4. AlikeOn(t1, t2, B, P)
  <2> HIDE DEF P
  <2> QED
    BY <1>3, SplitAlike
<1>5. F1 \in SUBSET Lits /\ F2 \in SUBSET Lits
  BY <1>2, FactsByPart
<1> HIDE DEF F1, F2
<1>6. /\ TheoryLits(t1) /\ AreSccs(StepSccs(p, v1)) /\ TheoryLits(t2) /\ AreSccs(StepSccs(p, v2))
      /\ SupportSccs(t1) = StepSccs(p, v1) /\ SupportSccs(t2) = StepSccs(p, v2)
  BY <1>5, StepThyLits, StepSccsOf
<1>7. \A q \in SharedNext(p, vs) : Attacked(t1, q)
  BY <1>2, NextAttacked
<1> HIDE DEF t1, t2, P
<1>8. /\ \A z \in J : SupportSccs(t1)[z] \subseteq J /\ SupportSccs(t2)[z] = SupportSccs(t1)[z]
      /\ \A z \in Lits : (\E x \in SupportSccs(t1)[z] : x \in J) => z \in J
  BY <1>1, <1>6, SameSccs
<1>9. \A z \in Lits : (\E x \in SupportSccs(t1)[z] : x \in B) =>
        AttackedScc(t1, SupportSccs(t1)[z]) \/ z \in J
  BY <1>7, <1>8 DEF AttackedScc, SharedLits
<1>10. SameLoops(t1, StepSccs(p, v1), StepSccs(p, v2), B, J)
  BY <1>6, <1>8, <1>9 DEF SameLoops
<1>11. J \subseteq B
  BY DEF SharedLits
<1> HIDE DEF J, B
<1>12. Mirrored(t1, StepSccs(p, v1), t2, StepSccs(p, v2), B, J, P)
  BY <1>1, <1>4, <1>6, <1>10, <1>11 DEF Mirrored
<1> QED
  BY <1>12 DEF t1, t2, B, J, P, F1, F2

\* They reach the same verdicts on what they share.
LEMMA SplitColumns ==
  ASSUME NEW p \in Programs, Separate(p), NEW vs, NEW ns, NEW as, NEW M1, NEW M2,
         FactsOK(vs, as, M1), FactsOK(vs, as, M2), AlikeGuards(p, M1, M2)
  PROVE  AgreeOn(SharedLits(p, vs), Columns(p, CurSplit(p, vs), StepFacts(vs, ns, as, M1)),
                 Columns(p, NoSplit, StepFacts(vs, ns, as, M2)))
<1> DEFINE v == CurSplit(p, vs)
           t1 == StepThy(p, v, StepFacts(vs, ns, as, M1))
           t2 == StepThy(p, NoSplit, StepFacts(vs, ns, as, M2))
<1>1. TwoSteps(p, vs, ns, as, v, M1, NoSplit, M2) /\ TwoSteps(p, vs, ns, as, NoSplit, M2, v, M1)
  BY DEF TwoSteps, AlikeGuards
<1>2. Columns(p, v, StepFacts(vs, ns, as, M1)) = Verdicts(t1, StepSccs(p, v))
      /\ Columns(p, NoSplit, StepFacts(vs, ns, as, M2)) = Verdicts(t2, StepSccs(p, NoSplit))
  BY DEF Columns
<1>3. Mirrored(t1, StepSccs(p, v), t2, StepSccs(p, NoSplit), SharedLits(p, vs), CurrentLits(p),
               Columns(p, NoSplit, StepFacts(vs, ns, as, M2)))
  BY <1>1, SplitMirrored
<1>4. Mirrored(t2, StepSccs(p, NoSplit), t1, StepSccs(p, v), SharedLits(p, vs), CurrentLits(p),
               Columns(p, v, StepFacts(vs, ns, as, M1)))
  BY <1>1, SplitMirrored
<1> HIDE DEF t1, t2, v
<1>5. \A q \in SharedLits(p, vs) : Verdicts(t1, StepSccs(p, v))[q] = Verdicts(t2, StepSccs(p, NoSplit))[q]
  BY <1>2, <1>3, <1>4, LocalVerdicts
<1> QED
  BY <1>2, <1>5 DEF v, AgreeOn

\* A fluent or cue literal is known by its primed twin.
LEMMA PrimedOne ==
  ASSUME NEW p \in Programs, Separate(p), NEW x \in LitsOf(Fluents \cup Emits),
         NEW y \in LitsOf(Fluents \cup Emits), PrimedLit(x) = PrimedLit(y)
  PROVE  x = y
<1>1. PrimedOf[AtomOf(x)] = PrimedOf[AtomOf(y)] /\ (IsNeg(x) <=> IsNeg(y))
  BY PrimedTwin
<1>2. x \in Lits /\ y \in Lits /\ AtomOf(x) \in Fluents \cup Emits /\ AtomOf(y) \in Fluents \cup Emits
  BY DEF LitsOf
<1>3. AtomOf(x) = AtomOf(y)
  BY <1>1, <1>2 DEF Separate
<1> QED
  BY <1>1, <1>2, <1>3, LitsByAtom, ComplAtom

\* On the full schema a fluent the split leaves out keeps its value by inertia:
\* everything that could contradict it is discarded.
LEMMA LeftOutKept ==
  ASSUME NEW p \in Programs, Separate(p), NEW vs, NEW ns, NEW as, NEW M, FactsOK(vs, as, M),
         NEW f \in Fluents, f \notin WriteSet(p, CurSplit(p, vs)), vs[f]
  PROVE  Columns(p, NoSplit, StepFacts(vs, ns, as, M))[PrimedLit(Pos(f))] = DL_PROVED
<1> DEFINE F == StepFacts(vs, ns, as, M)
           t == StepThy(p, NoSplit, F)
           cols == Columns(p, NoSplit, F)
           q == PrimedLit(Pos(f))
           c == PrimedLit(Neg(f))
<1>1. /\ Pos(f) \in LitsOf(Fluents \cup Emits) /\ Neg(f) \in LitsOf(Fluents \cup Emits)
      /\ Pos(f) \in LitsOf(Fluents) /\ Neg(f) \in LitsOf(Fluents)
      /\ AtomOf(Pos(f)) = f /\ AtomOf(Neg(f)) = f /\ ~ IsNeg(Pos(f)) /\ IsNeg(Neg(f))
      /\ Compl(Pos(f)) = Neg(f)
  <2>1. f \in Atoms
    BY WorldAssumption
  <2> QED
    BY <2>1, LitsOfAtom DEF LitsOf
<1>2. q \in Lits /\ c \in Lits /\ Compl(q) = c /\ AtomOf(c) \in PrimedAtoms
  BY <1>1, PrimedTwin
<1>3. c \notin F /\ AtomOf(c) \notin Concluded(p)
  BY <1>2, PrimedUnstated
<1>4. F \in SUBSET Lits
  BY FactsByPart
<1>5. cols[Pos(f)] = DL_PROVED /\ cols[Neg(f)] = DL_REFUTED
  <2>1. HoldsIn(vs, Pos(f)) /\ ~ HoldsIn(vs, Neg(f))
    BY <1>1 DEF HoldsIn
  <2>2. ASSUME NEW y \in LitsOf(Fluents), HoldsIn(vs, y) PROVE cols[y] = DL_PROVED
    BY <2>2, FluentColumn
  <2>3. ASSUME NEW y \in LitsOf(Fluents), ~ HoldsIn(vs, y) PROVE cols[y] = DL_REFUTED
    BY <2>3, FluentRefuted
  <2> HIDE DEF cols
  <2> QED
    BY <1>1, <2>1, <2>2, <2>3
<1>6. DeadEnds(p, vs, cols)
  BY DeadNeverFires
<1> HIDE DEF F
<1>7. TheoryLits(t) /\ AreSccs(StepSccs(p, NoSplit)) /\ t.facts = F
  BY <1>4, StepThyLits, StepThyReading
<1>8. StrictFor(t, c) = {}
  BY <1>2, <1>3, ConcludedAtoms DEF ConcludedStrictly, Concluded
<1>9. <<"inertia", Pos(f)>> \in SupportersOf(t, q) /\ Applicable(t, cols, <<"inertia", Pos(f)>>)
  <2>1. f \in WriteSet(p, NoSplit)
    BY DEF WriteSet
  <2>2. <<"inertia", Pos(f)>> \in FamilyIds(p, NoSplit)
    BY <1>1, <2>1, IdsHeld DEF LitsOf
  <2>3. t.rules = StepFamily(p, NoSplit).rules
    BY StepThyReading
  <2>4. FamilyRule(p, <<"inertia", Pos(f)>>) = [kind |-> DL_DEFEASIBLE, head |-> q, body |-> {Pos(f)}]
    BY FamilyRules
  <2> HIDE DEF t, cols, q
  <2>5. <<"inertia", Pos(f)>> \in DOMAIN t.rules
        /\ t.rules[<<"inertia", Pos(f)>>] = FamilyRule(p, <<"inertia", Pos(f)>>)
    BY <2>2, <2>3, FamilyReading
  <2> QED
    BY <1>5, <2>4, <2>5 DEF SupportersOf, RulesFor, Applicable, BodyAll, DL_DEFEASIBLE, DL_DEFEATER
<1>10. ASSUME NEW r \in RulesFor(t, c) PROVE Discarded(t, cols, r)
  <2>1. t.rules[r] = FamilyRule(p, r)
    BY RulesByKind
  <2>2. ASSUME NEW x \in LitsOf(WriteSet(p, NoSplit)), r = <<"inertia", x>>, PrimedLit(x) = c
        PROVE  \E b \in FamilyRule(p, r).body : cols[b] = DL_REFUTED
    <3>1. x = Neg(f)
      BY <1>1, <2>2, PrimedOne, WriteSetFluents
    <3>2. FamilyRule(p, r) = [kind |-> DL_DEFEASIBLE, head |-> PrimedLit(x), body |-> {x}]
      BY <2>2, FamilyRules
    <3> HIDE DEF cols
    <3> QED
      BY <1>5, <3>1, <3>2
  <2>3. ASSUME NEW s \in LiveRules(p, NoSplit), NEW e \in p.srules[s].effects,
               r = <<"causal", s, e>>, PrimedLit(e) = c
        PROVE  \E b \in FamilyRule(p, r).body : cols[b] = DL_REFUTED
    <3>1. e \in LitsOf(Fluents \cup Emits)
      BY RuleAssumption DEF LiveRules
    <3>2. e = Neg(f)
      BY <1>1, <2>3, <3>1, PrimedOne
    <3>3. s \notin LiveRules(p, CurSplit(p, vs))
      BY <1>1, <3>2 DEF WriteSet
    <3>4. DeadUnder(p, vs, s)
      BY <3>3, FullerFamily
    <3> HIDE DEF cols
    <3>5. \E b \in CausalBody(p.srules[s]) : cols[b] = DL_REFUTED
      BY <1>6, <3>4 DEF DeadEnds
    <3>6. FamilyRule(p, r) = [kind |-> DL_DEFEASIBLE, head |-> PrimedLit(e), body |-> CausalBody(p.srules[s])]
      BY <2>3, FamilyRules
    <3> QED
      BY <3>5, <3>6
  <2>4. ~ (\E j \in DOMAIN p.jrules : r = <<"judgment", j>> /\ p.jrules[j].head = c)
    BY <1>3 DEF Concluded
  <2> HIDE DEF cols
  <2>5. \E b \in FamilyRule(p, r).body : cols[b] = DL_REFUTED
    BY <2>2, <2>3, <2>4, RulesByKind
  <2> QED
    BY <2>1, <2>5 DEF Discarded, BodySome
<1>11. cols = Verdicts(t, StepSccs(p, NoSplit))
  BY DEF Columns
<1> HIDE DEF t, cols, q, c
<1>12. Supported(t, cols, q)
  BY <1>9 DEF Supported
<1>13. cols[q] = DL_PROVED
  BY <1>2, <1>3, <1>7, <1>8, <1>10, <1>11, <1>12, UndefeatedProved
<1> QED
  BY <1>13 DEF cols, q, F

\* The split step fires the same rules and reads the same next state.
LEMMA SplitNext ==
  ASSUME NEW p \in Programs, Separate(p), NEW vs, NEW ns, NEW as, NEW M1, NEW M2,
         FactsOK(vs, as, M1), FactsOK(vs, as, M2), AlikeGuards(p, M1, M2),
         NEW cols, cols = Columns(p, CurSplit(p, vs), StepFacts(vs, ns, as, M1)),
         NEW full, full = Columns(p, NoSplit, StepFacts(vs, ns, as, M2))
  PROVE  /\ \A s \in DOMAIN p.srules : RuleFired(p.srules[s], as, cols) <=> RuleFired(p.srules[s], as, full)
         /\ \A f \in Fluents : NextValue(p, CurSplit(p, vs), vs, cols, f) <=> full[PrimedLit(Pos(f))] = DL_PROVED
<1> DEFINE w == CurSplit(p, vs)
<1>1. \A q \in SharedLits(p, vs) : cols[q] = full[q]
  <2>1. AgreeOn(SharedLits(p, vs), cols, full)
    BY SplitColumns
  <2> QED
    BY <2>1 DEF AgreeOn
<1>2. ASSUME NEW s, DeadUnder(p, vs, s)
      PROVE  ~ RuleFired(p.srules[s], as, cols) /\ ~ RuleFired(p.srules[s], as, full)
  BY <1>2, DeadNeverFires
<1>3. ASSUME NEW s \in DOMAIN p.srules
      PROVE  RuleFired(p.srules[s], as, cols) <=> RuleFired(p.srules[s], as, full)
  <2>1. CASE s \in LiveRules(p, w)
    <3>1. \A q \in CausalBody(p.srules[s]) : cols[q] = full[q]
      BY <1>1, <2>1, LiveReadsShared
    <3> QED
      BY <3>1 DEF RuleFired, CausalBody
  <2>2. CASE s \notin LiveRules(p, w)
    BY <1>2, <2>2 DEF DeadUnder
  <2> QED
    BY <2>1, <2>2
<1>4. ASSUME NEW f \in Fluents, f \in WriteSet(p, w)
      PROVE  NextValue(p, w, vs, cols, f) <=> full[PrimedLit(Pos(f))] = DL_PROVED
  <2>1. f \in Atoms
    BY WorldAssumption
  <2>2. Pos(f) \in LitsOf(Fluents \cup Emits) /\ AtomOf(Pos(f)) = f
    BY <2>1, LitsOfAtom DEF LitsOf
  <2>3. PrimedLit(Pos(f)) \in Lits /\ AtomOf(PrimedLit(Pos(f))) = PrimedOf[f]
    BY <2>2, PrimedTwin
  <2>4. PrimedLit(Pos(f)) \in SharedLits(p, vs)
    BY <1>4, <2>3 DEF SharedLits, SharedNext, LitsOf
  <2>5. cols[PrimedLit(Pos(f))] = full[PrimedLit(Pos(f))]
    BY <1>1, <2>4
  <2> QED
    BY <1>4, <2>5 DEF NextValue
<1>5. ASSUME NEW f \in Fluents, f \notin WriteSet(p, w)
      PROVE  NextValue(p, w, vs, cols, f) <=> full[PrimedLit(Pos(f))] = DL_PROVED
  <2>1. f \in Atoms /\ vs[f] \in BOOLEAN
    BY WorldAssumption DEF FactsOK
  <2>2. Pos(f) \in LitsOf(Fluents \cup Emits) /\ AtomOf(Pos(f)) = f /\ ~ IsNeg(Pos(f))
    BY <2>1, LitsOfAtom DEF LitsOf
  <2>3. ASSUME vs[f] PROVE full[PrimedLit(Pos(f))] = DL_PROVED
    BY <1>5, <2>3, LeftOutKept
  <2>4. ASSUME full[PrimedLit(Pos(f))] = DL_PROVED PROVE vs[f]
    <3>1. \/ HoldsIn(vs, Pos(f))
          \/ \E s \in LiveRules(p, NoSplit) : Pos(f) \in p.srules[s].effects
               /\ RuleFired(p.srules[s], as, full)
      BY <2>2, <2>4, ProvedNext
    <3>2. ASSUME NEW s \in LiveRules(p, NoSplit), Pos(f) \in p.srules[s].effects,
                 RuleFired(p.srules[s], as, full)
          PROVE  FALSE
      <4>1. s \notin LiveRules(p, w)
        BY <1>5, <2>2, <3>2 DEF WriteSet
      <4>2. DeadUnder(p, vs, s)
        BY <4>1, FullerFamily
      <4> QED
        BY <1>2, <3>2, <4>2
    <3> QED
      BY <2>2, <3>1, <3>2 DEF HoldsIn
  <2> QED
    BY <1>5, <2>1, <2>3, <2>4 DEF NextValue
<1> QED
  BY <1>3, <1>4, <1>5

\* The guards the full schema is solved with again are those the last solve read.
LEMMA MintedAgain ==
  ASSUME WorldInv, pc = "strata", st = NStrata
  PROVE  MintedFacts(MintedInTime) = MintedBelow(NStrata - 1)
<1> DEFINE D == {g \in DOMAIN pg : NumStratum(PGuards[g].num) < NStrata - 1}
<1>1. DOMAIN pg = SettledGuards(NStrata) /\ \A g \in SettledGuards(NStrata) : pg[g] = GuardTruth(g)
  BY DEF WorldInv, StepInv
<1>2. prog \in Programs /\ NStrata \in Nat
  BY Strata DEF WorldInv, WorldType
<1>3. ASSUME NEW g \in DOMAIN PGuards PROVE NumStratum(PGuards[g].num) \in Nat
  <2>1. PGuards[g].num \in Nums
    BY RuleAssumption
  <2> QED
    BY <1>2, <2>1, Strata
<1>4. D = SettledGuards(NStrata - 1) /\ D \subseteq SettledGuards(NStrata)
  BY <1>1, <1>2, <1>3 DEF SettledGuards
<1>5. MintedInTime = [g \in D |-> pg[g]]
  BY DEF MintedInTime, Restrict
<1> HIDE DEF D
<1>6. DOMAIN MintedInTime = D /\ \A g \in D : MintedInTime[g] = GuardTruth(g)
  BY <1>1, <1>4, <1>5
<1> QED
  BY <1>4, <1>6 DEF MintedFacts, MintedBelow

\* Columns under which the same rules fire make the same numbers.
LEMMA NumbersOfFirings ==
  (\A s \in DOMAIN prog.srules : Fired(s) <=> FiredUnder(FullSchema, s))
    => \A n \in Nums : OrderFreeValue(solved, n) = OrderFreeValue(FullSchema, n)
<1> SUFFICES ASSUME \A s \in DOMAIN prog.srules : FiredUnder(solved, s) <=> FiredUnder(FullSchema, s),
                    NEW n \in Nums
             PROVE  OrderFreeValue(solved, n) = OrderFreeValue(FullSchema, n)
  BY DEF Fired
<1> DEFINE X == FullSchema
           Effs == UNION {{<<s, e>> : e \in DOMAIN prog.srules[s].neffs} : s \in DOMAIN prog.srules}
<1>1. \A c \in Effs : c[1] \in DOMAIN prog.srules
  <2> SUFFICES ASSUME NEW s \in DOMAIN prog.srules, NEW e PROVE <<s, e>>[1] \in DOMAIN prog.srules
    OBVIOUS
  <2> QED
    OBVIOUS
<1>2. FiredEffects(solved, n) = FiredEffects(X, n)
  <2> HIDE DEF X, Effs
  <2>1. \A cs : FiredEffects(cs, n) = {c \in Effs : Effect(c).num = n /\ FiredUnder(cs, c[1])}
    BY DEF FiredEffects, Effs
  <2>2. \A c \in Effs : FiredUnder(solved, c[1]) <=> FiredUnder(X, c[1])
    BY <1>1 DEF X
  <2> QED
    BY <2>1, <2>2
<1> HIDE DEF X
<1>3. /\ OrderFreeValue(solved, n) = ValueFrom(prog, nums, pre, n, FiredEffects(solved, n))
      /\ OrderFreeValue(X, n) = ValueFrom(prog, nums, pre, n, FiredEffects(X, n))
  BY NumbersRead
<1> QED
  BY <1>2, <1>3 DEF X

\* A commit establishes what it owes about the split, given its numbers.
LEMMA CommitSplit ==
  ASSUME WorldInv, CommitStep, Separate(prog), NumbersFollowFinalFirings'
  PROVE  SplitIsOnlyAHint'
<1> DEFINE v == CurSplit(prog, vals)
           M1 == MintedBelow(NStrata - 1)
           full == Columns(prog, NoSplit, StepFacts(vals, nums, ActSet, M1))
<1>1. /\ prog \in Programs /\ FactsOK(vals, ActSet, M1)
      /\ solved = Columns(prog, v, StepFacts(vals, nums, ActSet, M1))
      /\ \A f \in Fluents : vals'[f] = NextValue(prog, v, vals, solved, f)
      /\ pre'.vals = vals /\ pre'.nums = nums /\ prog' = prog /\ solved' = solved /\ ActSet' = ActSet
      /\ nums' = nextnum
  BY CommitReading
<1>2. pc = "strata" /\ st = NStrata /\ pg' = pg
  BY DEF CommitStep, call
<1>4. MintedFacts(MintedInTime) = M1
  BY <1>2, MintedAgain
<1>5. FullSchema' = full
  <2>a. MintedInTime' = MintedInTime
    BY <1>1, <1>2 DEF MintedInTime, NumStratum, NStrata, Writers
  <2>1. FullSchema' = SolveStep(prog, NoSplit, vals, nums, ActSet, MintedInTime)
    BY <1>1, <2>a DEF FullSchema
  <2>2. NoSplit \in prog.splits \cup {NoSplit}
    OBVIOUS
  <2> QED
    BY <1>1, <1>4, <2>1, <2>2, SolveStepReading
<1>6. AlikeGuards(prog, M1, M1)
  BY DEF AlikeGuards
<1>c. full = Columns(prog, NoSplit, StepFacts(vals, nums, ActSet, M1))
  OBVIOUS
<1> HIDE DEF M1, full
<1>7. /\ \A s \in DOMAIN prog.srules : RuleFired(prog.srules[s], ActSet, solved) <=> RuleFired(prog.srules[s], ActSet, full)
      /\ \A f \in Fluents : NextValue(prog, v, vals, solved, f) <=> full[PrimedLit(Pos(f))] = DL_PROVED
  BY <1>1, <1>6, <1>c, SplitNext
<1>8. \A s : (FiredUnder(FullSchema, s)' <=> RuleFired(prog.srules[s], ActSet, full))
             /\ (Fired(s)' <=> RuleFired(prog.srules[s], ActSet, solved))
  BY <1>1, <1>5 DEF FiredUnder, Fired
<1>9. /\ \A f \in Fluents : vals'[f] <=> full[PrimedLit(Pos(f))] = DL_PROVED
      /\ \A f \in Fluents : vals'[f] \in BOOLEAN
  <2>1. WorldInv'
    BY WorldInvStep DEF Next, Running
  <2> QED
    BY <1>1, <1>7, <2>1 DEF WorldInv, WorldType
<1>10. \A s \in DOMAIN prog'.srules : Fired(s)' <=> FiredUnder(FullSchema, s)'
  BY <1>1, <1>7, <1>8
<1>11. \A n \in Nums : OrderFreeValue(solved, n)' = OrderFreeValue(FullSchema, n)'
  <2>1. (\A s \in DOMAIN prog.srules : Fired(s) <=> FiredUnder(FullSchema, s))'
          => (\A n \in Nums : OrderFreeValue(solved, n) = OrderFreeValue(FullSchema, n))'
    BY NumbersOfFirings, PTL
  <2> QED
    BY <1>10, <2>1
<1>12. Committed' => \A n \in Nums : SettlesInTime(n)' => nums'[n] = OrderFreeValue(solved, n)'
  BY DEF NumbersFollowFinalFirings
<1>13. \A s \in DOMAIN prog'.srules : (Fired(s) = FiredUnder(FullSchema, s))'
  BY <1>10 DEF Fired, FiredUnder, RuleFired
<1>14. Committed' => \A n \in Nums : SettlesInTime(n)' => nums'[n] = OrderFreeValue(FullSchema, n)'
  BY <1>11, <1>12
<1>15. \A f \in Fluents : (vals[f] = (FullSchema[PrimedLit(Pos(f))] = DL_PROVED))'
  BY <1>5, <1>9
<1> QED
  BY <1>13, <1>14, <1>15 DEF SplitIsOnlyAHint

\* So for the two columns the properties speak of.
LEMMA NumbersReadHere ==
  \A n : /\ OrderFreeValue(solved, n) = ValueFrom(prog, nums, pre, n, FiredEffects(solved, n))
         /\ OrderFreeValue(FullSchema, n) = ValueFrom(prog, nums, pre, n, FiredEffects(FullSchema, n))
         /\ Assigned(solved, n) = AssignedFrom(prog, nums, pre, FiredEffects(solved, n))
BY NumbersRead

\* What the numeric and the split clause say changes only with what they read.
LEMMA UnreadNumbers ==
  ASSUME prog' = prog, nums' = nums, pre' = pre, solved' = solved, acts' = acts, pg' = pg, rc' = rc,
         vals' = vals
  PROVE  /\ NumbersFollowFinalFirings' <=> NumbersFollowFinalFirings
         /\ SplitIsOnlyAHint' <=> SplitIsOnlyAHint
<1>1. ActSet' = ActSet /\ (Committed' <=> Committed)
  BY DEF ActSet, Committed
<1>2. FullSchema' = FullSchema
  <2>1. MintedInTime' = MintedInTime
    BY DEF MintedInTime, NumStratum, NStrata, Writers
  <2> QED
    BY <1>1, <2>1 DEF FullSchema
<1>3. \A n : SettlesInTime(n)' <=> SettlesInTime(n)
  BY DEF SettlesInTime, NumStratum, NStrata, Writers, ReadsAhead
<1>4. \A s : FiredUnder(solved, s)' = FiredUnder(solved, s) /\ FiredUnder(FullSchema, s)' = FiredUnder(FullSchema, s)
  BY <1>1, <1>2 DEF FiredUnder
<1>5. \A n : /\ FiredEffects(solved, n)' = FiredEffects(solved, n)
             /\ FiredEffects(FullSchema, n)' = FiredEffects(FullSchema, n)
  BY <1>4 DEF FiredEffects, Effect
<1>6. \A n : /\ OrderFreeValue(solved, n)' = ValueFrom(prog', nums', pre', n, FiredEffects(solved, n)')
             /\ OrderFreeValue(FullSchema, n)' = ValueFrom(prog', nums', pre', n, FiredEffects(FullSchema, n)')
             /\ Assigned(solved, n)' = AssignedFrom(prog', nums', pre', FiredEffects(solved, n)')
  <2>1. (\A n : /\ OrderFreeValue(solved, n) = ValueFrom(prog, nums, pre, n, FiredEffects(solved, n))
                /\ OrderFreeValue(FullSchema, n) = ValueFrom(prog, nums, pre, n, FiredEffects(FullSchema, n))
                /\ Assigned(solved, n) = AssignedFrom(prog, nums, pre, FiredEffects(solved, n)))'
    BY NumbersReadHere, PTL
  <2> QED
    BY <2>1
<1>7. \A n : /\ OrderFreeValue(solved, n) = ValueFrom(prog, nums, pre, n, FiredEffects(solved, n))
             /\ OrderFreeValue(FullSchema, n) = ValueFrom(prog, nums, pre, n, FiredEffects(FullSchema, n))
             /\ Assigned(solved, n) = AssignedFrom(prog, nums, pre, FiredEffects(solved, n))
  BY NumbersReadHere
<1>8. \A n : /\ OrderFreeValue(solved, n)' = OrderFreeValue(solved, n)
             /\ OrderFreeValue(FullSchema, n)' = OrderFreeValue(FullSchema, n)
             /\ Assigned(solved, n)' = Assigned(solved, n)
  BY <1>5, <1>6, <1>7
<1>9. NumbersFollowFinalFirings' <=> NumbersFollowFinalFirings
  BY <1>1, <1>3, <1>8 DEF NumbersFollowFinalFirings
<1>10. SplitIsOnlyAHint' <=> SplitIsOnlyAHint
  BY <1>1, <1>2, <1>3, <1>4, <1>8 DEF SplitIsOnlyAHint, Fired
<1> QED
  BY <1>9, <1>10

\* A commit whose numbers are the order-free ones is the same on the full schema.
LEMMA SplitGivenNumbers ==
  Spec => [](Separate(prog) /\ NumbersFollowFinalFirings => SplitIsOnlyAHint)
<1> DEFINE P == Separate(prog) /\ NumbersFollowFinalFirings => SplitIsOnlyAHint
<1>1. Init => P
  BY DEF Init, SplitIsOnlyAHint, Committed
<1>2. ASSUME WorldInv, P, [Next]_vars PROVE P'
  <2>1. CASE UNCHANGED vars
    <3>1. prog' = prog /\ nums' = nums /\ pre' = pre /\ solved' = solved /\ acts' = acts /\ pg' = pg
          /\ rc' = rc /\ vals' = vals
      BY <2>1 DEF vars, world, call
    <3>2. (NumbersFollowFinalFirings' <=> NumbersFollowFinalFirings) /\ (SplitIsOnlyAHint' <=> SplitIsOnlyAHint)
      BY <3>1, UnreadNumbers
    <3> QED
      BY <1>2, <3>1, <3>2
  <2>2. CASE CommitStep
    <3>1. prog' = prog
      BY <2>2 DEF CommitStep
    <3> QED
      BY <1>2, <2>2, <3>1, CommitSplit
  <2>3. CASE rc' # "ok"
    BY <2>3 DEF SplitIsOnlyAHint, Committed
  <2> QED
    BY <1>2, <2>1, <2>2, <2>3, WorldInvStep
<1>3. WorldInv /\ [Next]_vars => WorldInv'
  BY WorldInvStep
<1> QED
  BY <1>1, <1>2, <1>3, WorldInvInit, PTL DEF Spec

\* (SplitIsOnlyAHint) The value split has no semantic content: solved again on the
\* full schema, every step that commits fires the same rules, reads the same next
\* state and makes the same numbers, of those settled in time (world_set_split).
THEOREM SplitIsAHint ==
  Spec => [](Separate(prog) /\ Stratified(prog) /\ InRange(prog, pre.nums) => SplitIsOnlyAHint)
BY SplitGivenNumbers, NumbersFollow, PTL
=============================================================================
