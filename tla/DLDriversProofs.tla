--------------------------- MODULE DLDriversProofs ---------------------------
(***************************************************************************)
(* Theorems about DLSolve for every number of atoms, every rule pool and   *)
(* every theory built from it; then two things its schedules in dl.c rely  *)
(* on: the worklist never outgrows its array, and neither the rescanning   *)
(* sweep nor the worklist stops while a literal could still be decided.    *)
(***************************************************************************)
EXTENDS DLDrivers, DLTheoryProofs

USE DEF DL_UNDECIDED, DL_PROVED, DL_REFUTED, DL_STRICT, DL_DEFEASIBLE, DL_DEFEATER

-----------------------------------------------------------------------------
(* Type correctness.                                                       *)

\* Every step of the builder and of the solver keeps the types.
\* The initial theory, components and statuses are typed.
LEMMA InitType == Init => TypeOK
<1>1. <<>> \in Seq(Rule)
  OBVIOUS
<1>2. NoTheory \in Theory
  BY <1>1 DEF NoTheory, Theory
<1>3. NoSccs \in [Lits -> SUBSET Lits] /\ Unsolved \in Status
  BY DEF NoSccs, Unsolved, Status, Verdict
<1> QED
  BY <1>2, <1>3 DEF Init, TypeOK

\* Each builder call and each solver step keeps the types.
LEMMA TypeStep == TypeOK /\ [Next]_vars => TypeOK'
<1> SUFFICES ASSUME TypeOK, [Next]_vars PROVE TypeOK'
  OBVIOUS
<1> USE DEF TypeOK
<1>1. ASSUME NEW r \in RulePool, AddRule(r) PROVE TypeOK'
  <2>1. r \in Rule
    BY PoolAssumption
  <2>2. Append(thy.rules, r) \in Seq(Rule)
    BY <2>1 DEF Theory
  <2> QED
    BY <1>1, <2>2 DEF AddRule, Theory, resultVars
<1>2. ASSUME NEW w \in DOMAIN thy.rules, NEW l \in DOMAIN thy.rules, AddSup(w, l)
      PROVE  TypeOK'
  <2>1. DOMAIN thy.rules \subseteq Nat
    BY DEF Theory
  <2> QED
    BY SMTT(30), <1>2, <2>1 DEF AddSup, Theory, resultVars
<1>3. ASSUME NEW q \in FactPool, AddFact(q) PROVE TypeOK'
  <2>1. q \in Lits
    BY PoolAssumption
  <2> QED
    BY <1>3, <2>1 DEF AddFact, Theory, resultVars
<1>4. CASE Compile
  BY <1>4, SccsType DEF Compile, Unsolved, Status, Verdict
<1>5. ASSUME NEW q \in Lits, DecideDelta(q) PROVE TypeOK'
  BY <1>5, EvalVerdict DEF DecideDelta, Status
<1>6. ASSUME NEW q \in Lits, DecidePart(q) PROVE TypeOK'
  BY <1>6, EvalVerdict DEF DecidePart, Status
<1>7. CASE SweepEnds
  BY <1>7 DEF SweepEnds, resultVars
<1>8. ASSUME NEW q \in Lits, CompleteDelta(q) PROVE TypeOK'
  BY <1>8, CompletionType DEF CompleteDelta
<1>9. ASSUME NEW q \in Lits, CompletePart(q) PROVE TypeOK'
  BY <1>9, CompletionType DEF CompletePart
<1>10. CASE SweepAgain
  BY <1>10 DEF SweepAgain, resultVars
<1>11. CASE DeltaEnds
  BY <1>11 DEF DeltaEnds, resultVars
<1>12. CASE PartEnds
  BY <1>12 DEF PartEnds, resultVars
<1>13. CASE ResultFree
  BY <1>13 DEF ResultFree, NoSccs, Unsolved, Status, Verdict
<1>14. CASE UNCHANGED vars
  BY <1>14 DEF vars
<1> QED
  BY <1>1, <1>2, <1>3, <1>4, <1>5, <1>6, <1>7, <1>8, <1>9, <1>10, <1>11, <1>12, <1>13, <1>14
     DEF Next, Build, Solve, Sweep, Complete

\* Every step of the builder and of the solver keeps the types.
THEOREM TypeCorrect == Spec => []TypeOK
BY InitType, TypeStep, PTL DEF Spec

-----------------------------------------------------------------------------
(* Proofs stay justified.                                                  *)

\* The inductive strengthening: before the defeasible layer starts nothing is
\* defeasibly decided, so the definite layer cannot disturb a proof.
JInv ==
  /\ TypeOK
  /\ phase \in {"build", "delta"} => part = Unsolved
  /\ ProofsStayJustified

\* JInv is inductive; only eval_part and the part completion touch a proof.
LEMMA JustifiedStep == JInv /\ [Next]_vars => JInv'
<1> SUFFICES ASSUME JInv, [Next]_vars PROVE JInv'
  OBVIOUS
<1>0. TypeOK /\ TypeOK'
  BY TypeStep DEF JInv
<1>a. ASSUME part = Unsolved PROVE ~ \E q \in Lits : part[q] = DL_PROVED
  BY <1>a DEF Unsolved
<1>b. ASSUME part' = Unsolved PROVE ~ \E q \in Lits : part'[q] = DL_PROVED
  BY <1>b DEF Unsolved
<1>1. ASSUME NEW r \in RulePool, AddRule(r) PROVE JInv'
  BY <1>0, <1>1, <1>b DEF JInv, AddRule, resultVars, ProofsStayJustified
<1>2. ASSUME NEW w, NEW l, AddSup(w, l) PROVE JInv'
  BY <1>0, <1>2, <1>b DEF JInv, AddSup, resultVars, ProofsStayJustified
<1>3. ASSUME NEW q, AddFact(q) PROVE JInv'
  BY <1>0, <1>3, <1>b DEF JInv, AddFact, resultVars, ProofsStayJustified
<1>4. CASE Compile
  BY <1>0, <1>4, <1>b DEF JInv, Compile, ProofsStayJustified
<1>5. ASSUME NEW q \in Lits, DecideDelta(q) PROVE JInv'
  BY <1>0, <1>5, <1>b DEF JInv, DecideDelta, ProofsStayJustified
<1>6. ASSUME NEW q \in Lits, DecidePart(q) PROVE JInv'
  <2>1. Extends(part, part')
    BY <1>0, <1>6 DEF Extends, DecidePart, TypeOK, Status
  <2>2. part'[q] = DL_PROVED => PartProves(thy, delta, part, q)
    BY <1>0, <1>6 DEF DecidePart, TypeOK, Status, EvalPart
  <2>3. ASSUME NEW x \in Lits, part'[x] = DL_PROVED
        PROVE  PartProves(thy, delta, part, x)
    BY <1>0, <1>6, <2>2, <2>3 DEF JInv, ProofsStayJustified, DecidePart, TypeOK, Status
  <2>4. ASSUME NEW x \in Lits, part'[x] = DL_PROVED
        PROVE  PartProves(thy, delta, part', x)
    BY <1>0, <2>1, <2>3, <2>4, PartProvesMonotone, TheoryLitsOK DEF TypeOK
  <2> QED
    BY <1>0, <1>6, <2>4 DEF JInv, DecidePart, ProofsStayJustified
<1>7. CASE SweepEnds
  BY <1>0, <1>7 DEF JInv, SweepEnds, resultVars, ProofsStayJustified
<1>8. ASSUME NEW q \in Lits, CompleteDelta(q) PROVE JInv'
  BY <1>0, <1>8, <1>b DEF JInv, CompleteDelta, ProofsStayJustified
<1>9. ASSUME NEW q \in Lits, CompletePart(q) PROVE JInv'
  <2>1. Extends(part, part')
    BY <1>0, <1>9, CompletionExtends DEF CompletePart, TypeOK
  <2>2. ASSUME NEW x \in Lits, part'[x] = DL_PROVED
        PROVE  PartProves(thy, delta, part, x)
    BY <1>0, <1>9, <2>2 DEF JInv, ProofsStayJustified, CompletePart, Completion
  <2>3. ASSUME NEW x \in Lits, part'[x] = DL_PROVED
        PROVE  PartProves(thy, delta, part', x)
    BY <1>0, <2>1, <2>2, <2>3, PartProvesMonotone, TheoryLitsOK DEF TypeOK
  <2> QED
    BY <1>0, <1>9, <2>3 DEF JInv, CompletePart, ProofsStayJustified
<1>10. CASE SweepAgain
  BY <1>0, <1>10 DEF JInv, SweepAgain, resultVars, ProofsStayJustified
<1>11. CASE DeltaEnds
  BY <1>0, <1>11 DEF JInv, DeltaEnds, resultVars, ProofsStayJustified
<1>12. CASE PartEnds
  BY <1>0, <1>12 DEF JInv, PartEnds, resultVars, ProofsStayJustified
<1>13. CASE ResultFree
  BY <1>0, <1>13, <1>b DEF JInv, ResultFree, ProofsStayJustified
<1>14. CASE UNCHANGED vars
  BY <1>0, <1>14 DEF JInv, vars, ProofsStayJustified
<1> QED
  BY <1>1, <1>2, <1>3, <1>4, <1>5, <1>6, <1>7, <1>8, <1>9, <1>10, <1>11, <1>12, <1>13, <1>14
     DEF Next, Build, Solve, Sweep, Complete

\* JInv holds throughout every behaviour.
LEMMA JustifiedAlways == Spec => []JInv
<1>1. Init => JInv
  BY InitType DEF Init, JInv, ProofsStayJustified, Unsolved
<1> QED
  BY <1>1, JustifiedStep, PTL DEF Spec

\* A defeasible proof stays valid for the rest of the solve, for every theory and
\* every order of evaluation.
THEOREM ProofsJustified == Spec => []ProofsStayJustified
<1>1. JInv => ProofsStayJustified
  BY DEF JInv
<1> QED
  BY <1>1, JustifiedAlways, PTL

-----------------------------------------------------------------------------
(* Coherence.                                                              *)

\* The team-defeat argument: among the applicable rules for a literal and for its
\* complement some rule is beaten by none of the others, and the side it attacks
\* cannot have countered it.
LEMMA JustifiedCoherent == JInv => Coherence
<1> SUFFICES ASSUME JInv, SupAcyclic(thy), NEW q \in Lits,
                    part[q] = DL_PROVED, part[Compl(q)] = DL_PROVED
             PROVE  delta[q] = DL_PROVED /\ delta[Compl(q)] = DL_PROVED
  BY DEF Coherence
<1> DEFINE nq == Compl(q)
<1>1. nq \in Lits /\ Compl(nq) = q
  BY ComplLits
<1>2. PartProves(thy, delta, part, q) /\ PartProves(thy, delta, part, nq)
  BY <1>1 DEF JInv, ProofsStayJustified
<1>3. CASE delta[q] = DL_PROVED \/ delta[nq] = DL_PROVED
  BY <1>1, <1>2, <1>3 DEF PartProves
<1>4. CASE delta[q] # DL_PROVED /\ delta[nq] # DL_PROVED
  <2> DEFINE S == {r \in SupportersOf(thy, q) \cup SupportersOf(thy, nq) :
                     Applicable(thy, part, r)}
  <2>1. /\ Supported(thy, part, q)
        /\ AllAttackersCountered(thy, part, q)
        /\ AllAttackersCountered(thy, part, nq)
    BY <1>2, <1>4 DEF PartProves
  <2>2. S # {} /\ S \subseteq DOMAIN thy.rules
    BY <2>1 DEF Supported, SupportersOf, RulesFor
  <2>3. PICK r \in S : \A x \in S : <<x, r>> \notin thy.sups
    BY <2>2 DEF SupAcyclic
  <2>4. Applicable(thy, part, r) /\ ~ Discarded(thy, part, r)
    BY <2>3, BodyConsistent DEF Applicable, Discarded
  <2>5. CASE r \in SupportersOf(thy, q)
    <3>1. r \in RulesFor(thy, Compl(nq))
      BY <1>1, <2>5 DEF SupportersOf
    <3>2. PICK x \in Defenders(thy, r, nq) : Applicable(thy, part, x)
      BY <2>1, <2>4, <3>1 DEF AllAttackersCountered, Countered
    <3> QED
      BY <2>3, <3>2 DEF Defenders
  <2>6. CASE r \in SupportersOf(thy, nq)
    <3>1. r \in RulesFor(thy, nq)
      BY <2>6 DEF SupportersOf
    <3>2. PICK x \in Defenders(thy, r, q) : Applicable(thy, part, x)
      BY <2>1, <2>4, <3>1 DEF AllAttackersCountered, Countered
    <3> QED
      BY <2>3, <3>2 DEF Defenders
  <2> QED
    BY <2>3, <2>5, <2>6
<1> QED
  BY <1>3, <1>4

\* No theory with acyclic superiority proves a literal and its complement, unless
\* its strict rules already do.
THEOREM Coherent == Spec => []Coherence
BY JustifiedAlways, JustifiedCoherent, PTL

-----------------------------------------------------------------------------
(* The definite layer is the least model of the strict rules.              *)

\* Why a definite status is right: a proof has a fact or an applicable strict
\* rule, a refutation has a refuted literal in every strict rule.
DeltaSound ==
  \A q \in Lits :
    /\ delta[q] = DL_PROVED => DeltaProves(thy, delta, q)
    /\ delta[q] = DL_REFUTED =>
         /\ q \notin thy.facts
         /\ \A r \in StrictFor(thy, q) : BodySome(thy, r, delta, DL_REFUTED)

\* Once the first sweep is over no undecided literal has a proof.
DeltaComplete ==
  (phase = "delta" /\ pass = "complete") \/ phase \in {"part", "done"} =>
    \A q \in Lits : delta[q] = DL_UNDECIDED => ~ DeltaProves(thy, delta, q)

\* Whatever is proved belongs to every set closed under the strict rules.
DeltaWithinModels ==
  \A S \in SUBSET Lits : ClosedUnderStrict(thy, S) =>
    \A q \in Lits : delta[q] = DL_PROVED => q \in S

DInv ==
  /\ TypeOK
  /\ phase = "build" => delta = Unsolved
  /\ DeltaSound
  /\ DeltaComplete
  /\ DeltaWithinModels

\* With nothing decided there is nothing to justify.
LEMMA UnsolvedDelta ==
  ASSUME delta = Unsolved
  PROVE  DeltaSound /\ DeltaWithinModels
BY DEF Unsolved, DeltaSound, DeltaWithinModels

\* The new statuses keep every earlier reason.
LEMMA DeltaExtends ==
  ASSUME TypeOK, TypeOK', thy' = thy, Extends(delta, delta'), NEW q \in Lits
  PROVE  /\ DeltaProves(thy, delta, q) => DeltaProves(thy', delta', q)
         /\ (\A r \in StrictFor(thy, q) : BodySome(thy, r, delta, DL_REFUTED))
              => \A r \in StrictFor(thy', q) : BodySome(thy', r, delta', DL_REFUTED)
<1>1. \A r \in DOMAIN thy.rules :
        /\ BodyAll(thy, r, delta, DL_PROVED) => BodyAll(thy, r, delta', DL_PROVED)
        /\ BodySome(thy, r, delta, DL_REFUTED) => BodySome(thy, r, delta', DL_REFUTED)
  BY BodyMonotone, TheoryLitsOK DEF TypeOK
<1> QED
  BY <1>1 DEF DeltaProves, StrictFor, RulesFor

\* A decision of eval_delta keeps DInv: it has the reason it was made for.
LEMMA DInvDecide ==
  ASSUME DInv, TypeOK', NEW q \in Lits, DecideDelta(q)
  PROVE  DInv'
<1> USE DEF DInv
<1>1. Extends(delta, delta') /\ thy' = thy
  BY DEF DecideDelta, TypeOK, Status, Extends
<1>2. ASSUME NEW x \in Lits, x # q PROVE delta'[x] = delta[x]
  BY <1>2 DEF DecideDelta, TypeOK, Status
<1>3. delta'[q] = EvalDelta(thy, delta, q)
  BY DEF DecideDelta, TypeOK, Status
<1>4. DeltaSound'
  <2> SUFFICES ASSUME NEW x \in Lits
      PROVE  /\ delta'[x] = DL_PROVED => DeltaProves(thy, delta, x)
             /\ delta'[x] = DL_REFUTED =>
                  /\ x \notin thy.facts
                  /\ \A r \in StrictFor(thy, x) : BodySome(thy, r, delta, DL_REFUTED)
    BY <1>1, DeltaExtends DEF DeltaSound
  <2>1. CASE x = q
    BY <1>3, <2>1 DEF EvalDelta, DeltaRefutes, DeltaProves
  <2>2. CASE x # q
    BY <1>2, <2>2 DEF DeltaSound
  <2> QED
    BY <2>1, <2>2
<1>5. DeltaWithinModels'
  <2> SUFFICES ASSUME NEW S \in SUBSET Lits, ClosedUnderStrict(thy, S),
                      NEW x \in Lits, delta'[x] = DL_PROVED
               PROVE  x \in S
    BY <1>1 DEF DeltaWithinModels
  <2>1. \A b \in Lits : delta[b] = DL_PROVED => b \in S
    BY DEF DeltaWithinModels
  <2>2. CASE x # q
    BY <1>2, <2>1, <2>2
  <2>3. CASE x = q
    <3>1. DeltaProves(thy, delta, q)
      BY <1>3, <2>3 DEF EvalDelta
    <3>2. CASE q \in thy.facts
      BY <2>3, <3>2 DEF ClosedUnderStrict
    <3>3. ASSUME NEW r \in StrictFor(thy, q), BodyAll(thy, r, delta, DL_PROVED)
          PROVE  q \in S
      <4>1. r \in DOMAIN thy.rules /\ thy.rules[r].kind = DL_STRICT /\ thy.rules[r].head = q
        BY <3>3 DEF StrictFor, RulesFor
      <4>2. thy.rules[r].body \subseteq S
        BY <2>1, <3>3, <4>1, TheoryLitsOK DEF TypeOK, TheoryLits, BodyAll
      <4> QED
        BY <4>1, <4>2 DEF ClosedUnderStrict
    <3> QED
      BY <2>3, <3>1, <3>2, <3>3 DEF DeltaProves
  <2> QED
    BY <2>2, <2>3
<1>6. DeltaComplete' /\ (phase = "build" => delta = Unsolved)'
  BY DEF DeltaComplete, DecideDelta
<1> QED
  BY <1>4, <1>5, <1>6

\* The cycle rule adds refutations only, and only where nothing was provable: an
\* undecided body literal of a member is in the component, so it is refuted too.
LEMMA DInvComplete ==
  ASSUME DInv, TypeOK', NEW q \in Lits, CompleteDelta(q)
  PROVE  DInv'
<1> USE DEF DInv
<1> DEFINE c == scc[q]
<1>1. Extends(delta, delta') /\ thy' = thy /\ delta' = Completion(delta, c)
  BY CompletionExtends DEF CompleteDelta, TypeOK
<1>2. \A x \in Lits : delta'[x] = IF x \in c /\ delta[x] = DL_UNDECIDED
                                 THEN DL_REFUTED ELSE delta[x]
  BY <1>1 DEF Completion
<1>3. \A x \in Lits : delta[x] = DL_UNDECIDED => ~ DeltaProves(thy, delta, x)
  BY DEF DeltaComplete, CompleteDelta
<1>4. ASSUME NEW r \in DOMAIN thy.rules
      PROVE  BodyAll(thy, r, delta', DL_PROVED) <=> BodyAll(thy, r, delta, DL_PROVED)
  BY <1>2, TheoryLitsOK DEF TheoryLits, BodyAll, TypeOK
<1>5. \A x \in Lits : DeltaProves(thy, delta', x) <=> DeltaProves(thy, delta, x)
  BY <1>4 DEF DeltaProves, StrictFor, RulesFor
<1>6. ASSUME NEW x \in Lits, x \in c, delta[x] = DL_UNDECIDED,
             NEW r \in StrictFor(thy, x)
      PROVE  BodySome(thy, r, delta', DL_REFUTED)
  <2>1. r \in DOMAIN thy.rules /\ ~ BodyAll(thy, r, delta, DL_PROVED)
    BY <1>3, <1>6 DEF DeltaProves, StrictFor, RulesFor
  <2>2. PICK b \in thy.rules[r].body : delta[b] # DL_PROVED
    BY <2>1 DEF BodyAll
  <2>3. b \in Lits
    BY <2>1, TheoryLitsOK DEF TheoryLits, TypeOK
  <2>4. CASE delta[b] = DL_UNDECIDED
    <3>1. ~ BlockedScc(thy, delta, c, TRUE)
      BY DEF CompleteDelta, Completes
    <3>2. r \in LayerSupport(thy, x, TRUE)
      BY DEF LayerSupport
    <3>3. b \in c
      BY <1>6, <2>2, <2>4, <3>1, <3>2 DEF BlockedScc
    <3> QED
      BY <1>2, <2>2, <2>3, <2>4, <3>3 DEF BodySome
  <2>5. CASE delta[b] = DL_REFUTED
    BY <1>2, <2>2, <2>3, <2>5 DEF BodySome
  <2> QED
    BY <2>2, <2>3, <2>4, <2>5 DEF TypeOK, Status, Verdict
<1>7. DeltaSound'
  <2> SUFFICES ASSUME NEW x \in Lits
      PROVE  /\ delta'[x] = DL_PROVED => DeltaProves(thy, delta', x)
             /\ delta'[x] = DL_REFUTED =>
                  /\ x \notin thy.facts
                  /\ \A r \in StrictFor(thy, x) : BodySome(thy, r, delta', DL_REFUTED)
    BY <1>1 DEF DeltaSound
  <2>1. CASE x \in c /\ delta[x] = DL_UNDECIDED
    BY <1>2, <1>3, <1>6, <2>1 DEF DeltaProves
  <2>2. CASE ~ (x \in c /\ delta[x] = DL_UNDECIDED)
    <3>1. delta'[x] = delta[x]
      BY <1>2, <2>2
    <3> QED
      BY <1>1, <1>5, <3>1, DeltaExtends DEF DeltaSound
  <2> QED
    BY <2>1, <2>2
<1>8. DeltaWithinModels'
  BY <1>1, <1>2 DEF DeltaWithinModels
<1>9. DeltaComplete'
  BY <1>1, <1>2, <1>3, <1>5 DEF DeltaComplete
<1>10. (phase = "build" => delta = Unsolved)'
  BY DEF CompleteDelta
<1> QED
  BY <1>7, <1>8, <1>9, <1>10

\* DInv is inductive.
LEMMA DefiniteStep == DInv /\ [Next]_vars => DInv'
<1> SUFFICES ASSUME DInv, [Next]_vars PROVE DInv'
  OBVIOUS
<1>0. TypeOK /\ TypeOK'
  BY TypeStep DEF DInv
<1>b. ASSUME delta' = Unsolved PROVE DeltaSound' /\ DeltaWithinModels'
  BY <1>b DEF Unsolved, DeltaSound, DeltaWithinModels
<1>s. ASSUME UNCHANGED <<thy, delta>> PROVE DeltaSound' /\ DeltaWithinModels'
  BY <1>s DEF DInv, DeltaSound, DeltaWithinModels
<1>1. ASSUME NEW r \in RulePool, AddRule(r) PROVE DInv'
  BY <1>0, <1>1, <1>b DEF DInv, AddRule, resultVars, DeltaComplete
<1>2. ASSUME NEW w, NEW l, AddSup(w, l) PROVE DInv'
  BY <1>0, <1>2, <1>b DEF DInv, AddSup, resultVars, DeltaComplete
<1>3. ASSUME NEW q, AddFact(q) PROVE DInv'
  BY <1>0, <1>3, <1>b DEF DInv, AddFact, resultVars, DeltaComplete
<1>4. CASE Compile
  BY <1>0, <1>4, <1>b DEF DInv, Compile, DeltaComplete
<1>5. ASSUME NEW q \in Lits, DecideDelta(q) PROVE DInv'
  BY <1>0, <1>5, DInvDecide
<1>6. ASSUME NEW q \in Lits, DecidePart(q) PROVE DInv'
  BY <1>0, <1>6, <1>s DEF DInv, DecidePart, DeltaComplete
<1>7. CASE SweepEnds
  <2>1. \A q \in Lits : EvalDelta(thy, delta, q) = DL_UNDECIDED => ~ DeltaProves(thy, delta, q)
    BY DEF EvalDelta
  <2>2. DeltaComplete'
    BY <1>7, <2>1 DEF DInv, SweepEnds, DeltaSettled, DeltaComplete, resultVars
  <2> QED
    BY <1>0, <1>7, <1>s, <2>2 DEF DInv, SweepEnds, resultVars
<1>8. ASSUME NEW q \in Lits, CompleteDelta(q) PROVE DInv'
  BY <1>0, <1>8, DInvComplete
<1>9. ASSUME NEW q \in Lits, CompletePart(q) PROVE DInv'
  BY <1>0, <1>9, <1>s DEF DInv, CompletePart, DeltaComplete
<1>10. CASE SweepAgain
  BY <1>0, <1>10, <1>s DEF DInv, SweepAgain, resultVars, DeltaComplete
<1>11. CASE DeltaEnds
  BY <1>0, <1>11, <1>s DEF DInv, DeltaEnds, resultVars, DeltaComplete
<1>12. CASE PartEnds
  BY <1>0, <1>12, <1>s DEF DInv, PartEnds, resultVars, DeltaComplete
<1>13. CASE ResultFree
  BY <1>0, <1>13, <1>b DEF DInv, ResultFree, DeltaComplete
<1>14. CASE UNCHANGED vars
  BY <1>0, <1>14, <1>s DEF DInv, vars, DeltaComplete
<1> QED
  BY <1>1, <1>2, <1>3, <1>4, <1>5, <1>6, <1>7, <1>8, <1>9, <1>10, <1>11, <1>12, <1>13, <1>14
     DEF Next, Build, Solve, Sweep, Complete

\* DInv holds throughout every behaviour.
LEMMA DefiniteAlways == Spec => []DInv
<1>1. Init => DInv
  BY InitType, UnsolvedDelta DEF Init, DInv, DeltaComplete
<1> QED
  BY <1>1, DefiniteStep, PTL DEF Spec

\* After the definite layer the proved literals are themselves closed under the
\* strict rules, so they are the least such set.
LEMMA DefiniteLeast == DInv => DefiniteIsLeastModel
<1> SUFFICES ASSUME DInv, phase \in {"part", "done"}
             PROVE  {q \in Lits : delta[q] = DL_PROVED} = LeastModel(thy)
  BY DEF DefiniteIsLeastModel
<1> DEFINE P == {q \in Lits : delta[q] = DL_PROVED}
<1>1. ASSUME NEW q \in Lits, DeltaProves(thy, delta, q) PROVE q \in P
  <2>1. delta[q] # DL_UNDECIDED
    BY <1>1 DEF DInv, DeltaComplete
  <2>2. delta[q] # DL_REFUTED
    BY <1>1, BodyConsistent DEF DInv, DeltaSound, DeltaProves
  <2> QED
    BY <2>1, <2>2 DEF DInv, TypeOK, Status, Verdict
<1>2. ClosedUnderStrict(thy, P)
  <2>1. thy.facts \subseteq P
    BY <1>1 DEF DInv, TypeOK, Theory, DeltaProves
  <2>2. ASSUME NEW r \in DOMAIN thy.rules, thy.rules[r].kind = DL_STRICT,
               thy.rules[r].body \subseteq P
        PROVE  thy.rules[r].head \in P
    <3>1. thy.rules[r].head \in Lits
      BY TheoryLitsOK DEF DInv, TypeOK, TheoryLits
    <3>2. r \in StrictFor(thy, thy.rules[r].head) /\ BodyAll(thy, r, delta, DL_PROVED)
      BY <2>2 DEF StrictFor, RulesFor, BodyAll
    <3> QED
      BY <1>1, <3>1, <3>2 DEF DeltaProves
  <2> QED
    BY <2>1, <2>2 DEF ClosedUnderStrict
<1>3. P \subseteq LeastModel(thy)
  BY DEF LeastModel, DInv, DeltaWithinModels
<1>4. LeastModel(thy) \subseteq P
  BY <1>2 DEF LeastModel
<1> QED
  BY <1>3, <1>4

\* For every theory, order of evaluation and set of completed loops, the definite
\* layer proves the least model of the strict rules and facts, and nothing else.
THEOREM DefiniteLeastModel == Spec => []DefiniteIsLeastModel
BY DefiniteAlways, DefiniteLeast, PTL

-----------------------------------------------------------------------------
(* What the cycle rule refutes is unfounded.                               *)

\* Past the first sweep a literal left undecided in the definite layer has a
\* strict rule: without one it is decided by the facts alone.
DeltaHasRule ==
  (phase = "delta" /\ pass = "complete") \/ phase \in {"part", "done"} =>
    \A q \in Lits : delta[q] = DL_UNDECIDED => StrictFor(thy, q) # {}

\* Why a defeasible refutation is right.
PartSound ==
  \A q \in Lits : part[q] = DL_REFUTED =>
    \/ delta[Compl(q)] = DL_PROVED
    \/ NotSupported(thy, part, q)
    \/ AttackerUncountered(thy, part, q)

\* While complete_pass runs no undecided literal without attackers has a proof.
PartStalled ==
  phase = "part" /\ pass = "complete" =>
    \A q \in Lits : part[q] = DL_UNDECIDED /\ ~ Attacked(thy, q)
                    => ~ PartProves(thy, delta, part, q)

\* The cycle rule keeps to unattacked components.
CompletedUnattacked == \A q \in completed : ~ Attacked(thy, q)

UInv ==
  /\ DInv
  /\ phase \in {"build", "delta"} => part = Unsolved
  /\ phase = "build" => completed = {}
  /\ DeltaHasRule
  /\ PartSound
  /\ PartStalled
  /\ CompletedUnattacked

\* With nothing decided defeasibly there is nothing to justify.
LEMMA UnsolvedPart ==
  ASSUME NEW t, NEW d, NEW q \in Lits
  PROVE  Unsolved[q] # DL_REFUTED
BY DEF Unsolved

\* A decision of eval_part keeps UInv.
LEMMA UInvDecide ==
  ASSUME UInv, DInv', NEW q \in Lits, DecidePart(q)
  PROVE  UInv'
<1>0. TypeOK /\ TypeOK'
  BY DEF UInv, DInv
<1>1. Extends(part, part') /\ thy' = thy /\ delta' = delta
  BY <1>0 DEF DecidePart, TypeOK, Status, Extends
<1>2. \A x \in Lits : x # q => part'[x] = part[x]
  BY <1>0 DEF DecidePart, TypeOK, Status
<1>3. part'[q] = EvalPart(thy, delta, part, q)
  BY <1>0 DEF DecidePart, TypeOK, Status
<1>4. PartSound'
  <2> SUFFICES ASSUME NEW x \in Lits, part'[x] = DL_REFUTED
               PROVE  \/ delta[Compl(x)] = DL_PROVED
                      \/ NotSupported(thy, part, x)
                      \/ AttackerUncountered(thy, part, x)
    <3>1. TheoryLits(thy) /\ part \in Status /\ part' \in Status
      BY <1>0, TheoryLitsOK DEF TypeOK
    <3> QED
      BY <1>1, <3>1, PartSoundMonotone DEF PartSound
  <2>1. CASE x = q
    BY <1>3, <2>1 DEF EvalPart, PartRefutes
  <2>2. CASE x # q
    BY <1>2, <2>2 DEF UInv, PartSound
  <2> QED
    BY <2>1, <2>2
<1>5. PartStalled' /\ DeltaHasRule' /\ CompletedUnattacked'
  BY <1>1 DEF UInv, PartStalled, DeltaHasRule, CompletedUnattacked, DecidePart
<1> QED
  BY <1>4, <1>5 DEF UInv, DecidePart

\* The cycle rule keeps UInv.  A rule for a refuted member cannot apply: the
\* complement has no rules, so it is decided definitely, and unless it is proved
\* an applicable rule would have proved the member in the sweep before.
LEMMA UInvComplete ==
  ASSUME UInv, DInv', NEW q \in Lits, CompletePart(q)
  PROVE  UInv'
<1>0. TypeOK /\ TypeOK'
  BY DEF UInv, DInv
<1> DEFINE c == scc[q]
<1>1. Extends(part, part') /\ thy' = thy /\ delta' = delta /\ part' = Completion(part, c)
  BY <1>0, CompletionExtends DEF CompletePart, TypeOK
<1>2. \A x \in Lits : part'[x] = IF x \in c /\ part[x] = DL_UNDECIDED
                                THEN DL_REFUTED ELSE part[x]
  BY <1>1 DEF Completion
<1>3. ~ AttackedScc(thy, c) /\ ~ BlockedScc(thy, part, c, FALSE)
  BY DEF CompletePart, Completes
<1>4. TheoryLits(thy)
  BY <1>0, TheoryLitsOK DEF TypeOK
<1>5. ASSUME NEW r \in DOMAIN thy.rules
      PROVE  Applicable(thy, part', r) <=> Applicable(thy, part, r)
  BY <1>2, <1>4 DEF TheoryLits, BodyAll, Applicable
<1>6. ASSUME NEW x \in Lits, ~ Attacked(thy, x)
      PROVE  PartProves(thy, delta, part', x) <=> PartProves(thy, delta, part, x)
  <2>1. Supported(thy, part', x) <=> Supported(thy, part, x)
    BY <1>5 DEF Supported, SupportersOf, RulesFor
  <2>2. AllAttackersCountered(thy, part', x) /\ AllAttackersCountered(thy, part, x)
    BY <1>6 DEF AllAttackersCountered, Attacked
  <2> QED
    BY <2>1, <2>2 DEF PartProves
<1>7. ASSUME NEW x \in Lits, x \in c, part[x] = DL_UNDECIDED
      PROVE  delta[Compl(x)] = DL_PROVED \/ NotSupported(thy, part', x)
  <2>1. Compl(x) \in Lits
    BY ComplLits
  <2>2. ~ Attacked(thy, x)
    BY <1>3, <1>7 DEF AttackedScc
  <2>3. ~ PartProves(thy, delta, part, x)
    BY <1>7, <2>2 DEF UInv, PartStalled, CompletePart
  <2>4. delta[Compl(x)] # DL_UNDECIDED
    <3>1. StrictFor(thy, Compl(x)) = {}
      BY <2>2 DEF Attacked, StrictFor
    <3> QED
      BY <2>1, <3>1 DEF UInv, DeltaHasRule, CompletePart
  <2>5. CASE delta[Compl(x)] = DL_REFUTED
    <3> SUFFICES ASSUME NEW r \in SupportersOf(thy, x) PROVE Discarded(thy, part', r)
      BY DEF NotSupported
    <3>1. AllAttackersCountered(thy, part, x)
      BY <2>2 DEF AllAttackersCountered, Attacked
    <3>2. ~ Applicable(thy, part, r)
      BY <2>3, <2>5, <3>1 DEF PartProves, Supported
    <3>3. PICK b \in thy.rules[r].body : part[b] # DL_PROVED
      BY <3>2 DEF Applicable, BodyAll
    <3>4. b \in Lits
      BY <1>4 DEF TheoryLits, SupportersOf, RulesFor
    <3>5. part'[b] = DL_REFUTED
      <4>1. CASE part[b] = DL_UNDECIDED
        <5>1. r \in LayerSupport(thy, x, FALSE)
          BY DEF LayerSupport
        <5>2. b \in c
          BY <1>3, <1>7, <3>3, <4>1, <5>1 DEF BlockedScc
        <5> QED
          BY <1>2, <3>4, <4>1, <5>2
      <4>2. CASE part[b] = DL_REFUTED
        BY <1>2, <3>4, <4>2
      <4>3. part[b] \in Verdict
        BY <1>0, <3>4 DEF TypeOK, Status
      <4> QED
        BY <3>3, <4>1, <4>2, <4>3 DEF Verdict
    <3> QED
      BY <3>5 DEF Discarded, BodySome
  <2>6. delta[Compl(x)] \in Verdict
    BY <1>0, <2>1 DEF TypeOK, Status
  <2> QED
    BY <2>4, <2>5, <2>6 DEF Verdict
<1>8. PartSound'
  <2> SUFFICES ASSUME NEW x \in Lits, part'[x] = DL_REFUTED
               PROVE  \/ delta[Compl(x)] = DL_PROVED
                      \/ NotSupported(thy, part', x)
                      \/ AttackerUncountered(thy, part', x)
    BY <1>1 DEF PartSound
  <2>1. CASE x \in c /\ part[x] = DL_UNDECIDED
    BY <1>7, <2>1
  <2>2. CASE ~ (x \in c /\ part[x] = DL_UNDECIDED)
    <3>1. part[x] = DL_REFUTED
      BY <1>2, <2>2
    <3>2. TheoryLits(thy) /\ part \in Status /\ part' \in Status
      BY <1>0, TheoryLitsOK DEF TypeOK
    <3> QED
      BY <1>1, <3>1, <3>2, PartSoundMonotone DEF UInv, PartSound
  <2> QED
    BY <2>1, <2>2
<1>9. PartStalled'
  BY <1>1, <1>2, <1>6 DEF UInv, PartStalled, CompletePart
<1>10. CompletedUnattacked'
  BY <1>1, <1>3 DEF UInv, CompletedUnattacked, CompletePart, AttackedScc
<1>11. DeltaHasRule'
  BY <1>1 DEF UInv, DeltaHasRule, CompletePart
<1> QED
  BY <1>8, <1>9, <1>10, <1>11 DEF UInv, CompletePart

\* UInv is inductive.
LEMMA UnfoundedStep == UInv /\ [Next]_vars => UInv'
<1> SUFFICES ASSUME UInv, [Next]_vars PROVE UInv'
  OBVIOUS
<1>0. TypeOK /\ TypeOK' /\ DInv /\ DInv'
  BY DefiniteStep DEF UInv, DInv
<1>b. ASSUME part' = Unsolved PROVE PartSound'
  BY <1>b DEF Unsolved, PartSound
<1>c. ASSUME completed' = {} PROVE CompletedUnattacked'
  BY <1>c DEF CompletedUnattacked
<1>s. ASSUME UNCHANGED <<thy, delta, part, completed>>
      PROVE  PartSound' /\ CompletedUnattacked'
  BY <1>s DEF UInv, PartSound, CompletedUnattacked
<1>1. ASSUME NEW r \in RulePool, AddRule(r) PROVE UInv'
  BY <1>0, <1>1, <1>b, <1>c DEF UInv, AddRule, resultVars, DeltaHasRule, PartStalled
<1>2. ASSUME NEW w, NEW l, AddSup(w, l) PROVE UInv'
  BY <1>0, <1>2, <1>b, <1>c DEF UInv, AddSup, resultVars, DeltaHasRule, PartStalled
<1>3. ASSUME NEW q, AddFact(q) PROVE UInv'
  BY <1>0, <1>3, <1>b, <1>c DEF UInv, AddFact, resultVars, DeltaHasRule, PartStalled
<1>4. CASE Compile
  BY <1>0, <1>4, <1>b, <1>c DEF UInv, Compile, DeltaHasRule, PartStalled
<1>5. ASSUME NEW q \in Lits, DecideDelta(q) PROVE UInv'
  BY <1>0, <1>5, <1>b DEF UInv, DecideDelta, DeltaHasRule, PartStalled, CompletedUnattacked
<1>6. ASSUME NEW q \in Lits, DecidePart(q) PROVE UInv'
  BY <1>0, <1>6, UInvDecide
<1>7. CASE SweepEnds
  <2>1. \A q \in Lits : EvalDelta(thy, delta, q) = DL_UNDECIDED => StrictFor(thy, q) # {}
    BY DEF EvalDelta, DeltaRefutes
  <2>2. DeltaHasRule'
    BY <1>7, <2>1 DEF UInv, SweepEnds, DeltaSettled, DeltaHasRule, resultVars
  <2>3. \A q \in Lits : EvalPart(thy, delta, part, q) = DL_UNDECIDED
                        => ~ PartProves(thy, delta, part, q)
    BY DEF EvalPart
  <2>4. PartStalled'
    BY <1>7, <2>3 DEF SweepEnds, PartSettled, PartStalled, resultVars
  <2> QED
    BY <1>0, <1>7, <1>s, <2>2, <2>4 DEF UInv, SweepEnds, resultVars
<1>8. ASSUME NEW q \in Lits, CompleteDelta(q) PROVE UInv'
  <2>1. DeltaHasRule'
    BY <1>8 DEF UInv, CompleteDelta, Completion, DeltaHasRule
  <2>2. CompletedUnattacked'
    BY <1>8 DEF UInv, CompleteDelta, Completes, AttackedScc, CompletedUnattacked
  <2> QED
    BY <1>0, <1>8, <1>b, <2>1, <2>2 DEF UInv, CompleteDelta, PartStalled
<1>9. ASSUME NEW q \in Lits, CompletePart(q) PROVE UInv'
  BY <1>0, <1>9, UInvComplete
<1>10. CASE SweepAgain
  BY <1>0, <1>10, <1>s DEF UInv, SweepAgain, resultVars, DeltaHasRule, PartStalled
<1>11. CASE DeltaEnds
  BY <1>0, <1>11, <1>s DEF UInv, DeltaEnds, resultVars, DeltaHasRule, PartStalled
<1>12. CASE PartEnds
  BY <1>0, <1>12, <1>s DEF UInv, PartEnds, resultVars, DeltaHasRule, PartStalled
<1>13. CASE ResultFree
  BY <1>0, <1>13, <1>b, <1>c DEF UInv, ResultFree, DeltaHasRule, PartStalled
<1>14. CASE UNCHANGED vars
  BY <1>0, <1>14, <1>s DEF UInv, vars, DeltaHasRule, PartStalled
<1> QED
  BY <1>1, <1>2, <1>3, <1>4, <1>5, <1>6, <1>7, <1>8, <1>9, <1>10, <1>11, <1>12, <1>13, <1>14
     DEF Next, Build, Solve, Sweep, Complete

\* Every literal the cycle rule refuted, in either layer and for every theory and
\* order of evaluation, ends unfounded: each of its rules has a refuted body
\* literal, or its complement holds definitely.
THEOREM CompletionUnfounded == Spec => []CompletionIsUnfounded
<1>1. Init => UInv
  <2>1. Init => DInv
    BY InitType, UnsolvedDelta DEF Init, DInv, DeltaComplete
  <2> QED
    BY <2>1 DEF Init, UInv, DeltaHasRule, PartSound, PartStalled, CompletedUnattacked, Unsolved
<1>2. UInv => CompletionIsUnfounded
  <2> SUFFICES ASSUME UInv, NEW q \in completed
               PROVE  /\ part[q] = DL_REFUTED =>
                           NotSupported(thy, part, q) \/ delta[Compl(q)] = DL_PROVED
                      /\ delta[q] = DL_REFUTED =>
                           \A r \in StrictFor(thy, q) : BodySome(thy, r, delta, DL_REFUTED)
    BY DEF CompletionIsUnfounded
  <2>1. q \in Lits /\ ~ Attacked(thy, q)
    BY DEF UInv, DInv, TypeOK, CompletedUnattacked
  <2>2. ~ AttackerUncountered(thy, part, q)
    BY <2>1 DEF Attacked, AttackerUncountered
  <2> QED
    BY <2>1, <2>2 DEF UInv, DInv, DeltaSound, PartSound
<1> QED
  BY <1>1, <1>2, UnfoundedStep, PTL DEF Spec

-----------------------------------------------------------------------------
(* The order of evaluation is invisible.                                   *)

\* An undisturbed completion pass runs over a settled layer.
StillSettled ==
  pass = "complete" /\ ~ any => (phase = "delta" => DeltaSettled) /\ (phase = "part" => PartSettled)

\* Whatever the solver has decided, the reference decides alike.
BelowReference ==
  /\ phase = "delta" => Extends(delta, RefDelta(thy, scc))
  /\ phase \in {"part", "done"} => delta = RefDelta(thy, scc)
  /\ phase = "part" => Extends(part, RefPart(thy, scc, delta))
  /\ phase = "done" => part = RefPart(thy, scc, delta)

\* The defeasible statuses stay well founded, and nothing definite is refuted.
PartWellFounded ==
  phase = "part" =>
    /\ PartFounded(thy, delta, part)
    /\ \A q \in Lits : part[q] = DL_REFUTED => delta[q] # DL_PROVED

CInv == UInv /\ JInv /\ StillSettled /\ BelowReference /\ PartWellFounded

\* What the invariants of the two layers say, as facts about their statuses.
LEMMA InvFine ==
  ASSUME CInv
  PROVE  /\ TheoryLits(thy) /\ AreSccs(scc) /\ delta \in Status /\ part \in Status
         /\ DeltaFine(thy, delta)
         /\ phase = "part" => PartFine(thy, delta, part)
<1>1. TheoryLits(thy) /\ AreSccs(scc) /\ delta \in Status /\ part \in Status
  BY TheoryLitsOK DEF CInv, JInv, TypeOK, AreSccs
<1>2. DeltaFine(thy, delta)
  BY <1>1 DEF CInv, UInv, DInv, DeltaSound, DeltaWithinModels, DeltaFine
<1>3. ASSUME phase = "part" PROVE PartFine(thy, delta, part)
  <2>1. \A q \in Lits : part[q] = DL_REFUTED => CannotProve(thy, delta, part, q)
    BY <1>3 DEF CInv, UInv, PartSound, PartWellFounded, CannotProve
  <2>2. \A q \in Lits : part[q] = DL_PROVED => PartProves(thy, delta, part, q)
    BY DEF CInv, JInv, ProofsStayJustified
  <2> QED
    BY <1>1, <1>3, <2>1, <2>2 DEF PartFine, CInv, PartWellFounded
<1> QED
  BY <1>1, <1>2, <1>3

\* Every decision of eval_delta is the reference's.
LEMMA ConfDecideDelta ==
  ASSUME CInv, NEW q \in Lits, DecideDelta(q)
  PROVE  Extends(delta', RefDelta(thy, scc))
<1>1. TheoryLits(thy) /\ AreSccs(scc) /\ delta \in Status
  BY InvFine
<1>2. DeltaFine(thy, RefDelta(thy, scc)) /\ DeltaStops(thy, scc, RefDelta(thy, scc))
  BY <1>1, RefDeltaLimit
<1>3. Extends(delta, RefDelta(thy, scc))
  BY DEF CInv, BelowReference, DecideDelta
<1>4. EvalDelta(thy, delta, q) # DL_UNDECIDED
  BY DEF DecideDelta
<1>5. RefDelta(thy, scc)[q] = EvalDelta(thy, delta, q)
  BY <1>1, <1>2, <1>3, <1>4, DeltaDecisionAgrees
<1>6. \A x \in Lits : delta'[x] = IF x = q THEN EvalDelta(thy, delta, q) ELSE delta[x]
  BY <1>1 DEF DecideDelta, Status
<1> QED
  BY <1>3, <1>5, <1>6 DEF Extends

\* Every refutation of the cycle rule in the definite layer is the reference's.
LEMMA ConfCompleteDelta ==
  ASSUME CInv, NEW q \in Lits, CompleteDelta(q)
  PROVE  Extends(delta', RefDelta(thy, scc))
<1>1. TheoryLits(thy) /\ AreSccs(scc) /\ delta \in Status
  BY InvFine
<1>2. DeltaFine(thy, RefDelta(thy, scc)) /\ DeltaStops(thy, scc, RefDelta(thy, scc))
  BY <1>1, RefDeltaLimit
<1>3. Extends(delta, RefDelta(thy, scc))
  BY DEF CInv, BelowReference, CompleteDelta
<1>4. NoDeltaProof(thy, delta)
  BY DEF CInv, UInv, DInv, DeltaComplete, CompleteDelta, NoDeltaProof
<1>5. \A z, y \in Lits :
        DeltaCompletes(thy, delta, scc[z]) /\ y \in scc[z] /\ delta[y] = DL_UNDECIDED
          => RefDelta(thy, scc)[y] = DL_REFUTED
  BY <1>1, <1>2, <1>3, <1>4, DeltaStopsSettled, DeltaCompletionAgrees
<1>6. DeltaCompletes(thy, delta, scc[q])
  BY DEF CompleteDelta, DeltaCompletes
<1>7. \A x \in Lits : delta'[x] = IF x \in scc[q] /\ delta[x] = DL_UNDECIDED
                                 THEN DL_REFUTED ELSE delta[x]
  BY DEF CompleteDelta, Completion
<1> QED
  BY <1>3, <1>5, <1>6, <1>7 DEF Extends

\* The definite layer ends in the reference's statuses.
LEMMA ConfDeltaEnds ==
  ASSUME CInv, DeltaEnds
  PROVE  delta = RefDelta(thy, scc)
<1>1. TheoryLits(thy) /\ AreSccs(scc) /\ delta \in Status /\ DeltaFine(thy, delta)
  BY InvFine
<1>2. DeltaStops(thy, scc, delta)
  BY DEF CInv, StillSettled, DeltaEnds, DeltaSettled, DeltaStops
<1>3. Extends(RefDelta(thy, scc), delta) /\ RefDelta(thy, scc) \in Status
  BY <1>1, <1>2, RefDeltaLimit DEF DeltaFine
<1>4. Extends(delta, RefDelta(thy, scc))
  BY DEF CInv, BelowReference, DeltaEnds
<1> QED
  BY <1>1, <1>3, <1>4, ExtendsBothWays

\* Every decision of eval_part is the reference's.
LEMMA ConfDecidePart ==
  ASSUME CInv, NEW q \in Lits, DecidePart(q)
  PROVE  /\ Extends(part', RefPart(thy, scc, delta))
         /\ PartFounded(thy, delta, part')
         /\ \A x \in Lits : part'[x] = DL_REFUTED => delta[x] # DL_PROVED
<1> DEFINE P == RefPart(thy, scc, delta)
<1>1. /\ TheoryLits(thy) /\ AreSccs(scc) /\ delta \in Status /\ part \in Status
      /\ PartFine(thy, delta, part)
  BY InvFine DEF DecidePart
<1>2. PartFine(thy, delta, P) /\ PartStops(thy, scc, delta, P)
  BY <1>1, RefPartLimit
<1>3. Extends(part, P)
  BY DEF CInv, BelowReference, DecidePart
<1> HIDE DEF P
<1>4. EvalPart(thy, delta, part, q) # DL_UNDECIDED
  BY DEF DecidePart
<1>5. P[q] = EvalPart(thy, delta, part, q)
  BY <1>1, <1>2, <1>3, <1>4, PartDecisionAgrees
<1>6. \A x \in Lits : part'[x] = IF x = q THEN EvalPart(thy, delta, part, q) ELSE part[x]
  BY <1>1 DEF DecidePart, Status
<1>7. Extends(part', P)
  BY <1>3, <1>5, <1>6 DEF Extends
<1>8. part' \in Status /\ Extends(part, part')
  BY <1>1, EvalVerdict DEF DecidePart, Status, Extends
<1>9. part'[q] = DL_REFUTED => CannotProve(thy, delta, part, q)
  BY <1>6 DEF EvalPart, PartRefutes, CannotProve
<1>10. part'[q] = DL_REFUTED => CannotProve(thy, delta, part', q)
  BY <1>1, <1>8, <1>9, CannotProveMonotone
<1>11. part'[q] = DL_PROVED => PartProves(thy, delta, part, q)
  BY <1>6 DEF EvalPart
<1>12. PartMove(thy, delta, part, part')
  BY <1>6, <1>8, <1>10, <1>11 DEF PartMove
<1>13. PartFine(thy, delta, part')
  BY <1>1, <1>12, PartMoveFine
<1> QED
  BY <1>7, <1>13 DEF PartFine, CannotProve, P

\* Every refutation of the cycle rule in the defeasible layer is the reference's.
LEMMA ConfCompletePart ==
  ASSUME CInv, NEW q \in Lits, CompletePart(q)
  PROVE  /\ Extends(part', RefPart(thy, scc, delta))
         /\ PartFounded(thy, delta, part')
         /\ \A x \in Lits : part'[x] = DL_REFUTED => delta[x] # DL_PROVED
<1> DEFINE P == RefPart(thy, scc, delta)
<1>1. /\ TheoryLits(thy) /\ AreSccs(scc) /\ delta \in Status /\ part \in Status
      /\ PartFine(thy, delta, part)
  BY InvFine DEF CompletePart
<1>2. PartFine(thy, delta, P) /\ PartStops(thy, scc, delta, P)
  BY <1>1, RefPartLimit
<1>3. Extends(part, P)
  BY DEF CInv, BelowReference, CompletePart
<1> HIDE DEF P
<1>4. NoPartProof(thy, delta, part)
  BY DEF CInv, UInv, PartStalled, CompletePart, NoPartProof
<1>5. \A z, y \in Lits :
        PartCompletes(thy, part, scc[z]) /\ y \in scc[z] /\ part[y] = DL_UNDECIDED
          => P[y] = DL_REFUTED
  BY <1>1, <1>2, <1>3, <1>4, PartCompletionAgrees
<1>6. PartCompletes(thy, part, scc[q])
  BY DEF CompletePart, PartCompletes
<1>7. \A x \in Lits : part'[x] = IF x \in scc[q] /\ part[x] = DL_UNDECIDED
                                THEN DL_REFUTED ELSE part[x]
  BY DEF CompletePart, Completion
<1>8. Extends(part', P)
  BY <1>3, <1>5, <1>6, <1>7 DEF Extends
<1>9. part' \in Status /\ Extends(part, part')
  BY <1>1, CompletionType, CompletionExtends DEF CompletePart
<1>10. ~ AttackedScc(thy, scc[q]) /\ ~ BlockedScc(thy, part, scc[q], FALSE)
  BY DEF CompletePart, Completes
<1>11. ASSUME NEW x \in Lits, part[x] = DL_UNDECIDED, part'[x] = DL_REFUTED
       PROVE  CannotProve(thy, delta, part', x)
  <2>1. /\ \A m \in Lits : part[m] = DL_REFUTED => part'[m] = DL_REFUTED
        /\ \A m \in Lits : m \in scc[q] /\ part[m] = DL_UNDECIDED => part'[m] = DL_REFUTED
    BY <1>7
  <2>2. x \in scc[q]
    BY <1>7, <1>11
  <2> QED
    BY <1>1, <1>4, <1>9, <1>10, <1>11, <2>1, <2>2, PartCompletionReason
<1>12. PartMove(thy, delta, part, part')
  BY <1>7, <1>9, <1>11 DEF PartMove
<1>13. PartFine(thy, delta, part')
  BY <1>1, <1>12, PartMoveFine
<1> QED
  BY <1>8, <1>13 DEF PartFine, CannotProve, P

\* The defeasible layer ends in the reference's statuses.
LEMMA ConfPartEnds ==
  ASSUME CInv, PartEnds
  PROVE  part = RefPart(thy, scc, delta)
<1> DEFINE P == RefPart(thy, scc, delta)
<1>1. /\ TheoryLits(thy) /\ AreSccs(scc) /\ delta \in Status /\ part \in Status
      /\ PartFine(thy, delta, part)
  BY InvFine DEF PartEnds
<1>2. PartStops(thy, scc, delta, part)
  BY DEF CInv, StillSettled, PartEnds, PartSettled, PartStops
<1>3. Extends(P, part) /\ P \in Status
  BY <1>1, <1>2, RefPartLimit DEF PartFine
<1>4. Extends(part, P)
  BY DEF CInv, BelowReference, PartEnds
<1> QED
  BY <1>1, <1>3, <1>4, ExtendsBothWays

\* With nothing decided every reference is above.
LEMMA UnsolvedBelow ==
  ASSUME NEW p, NEW t, NEW d
  PROVE  /\ Extends(Unsolved, p)
         /\ PartFounded(t, d, Unsolved)
         /\ \A q \in Lits : Unsolved[q] # DL_REFUTED
BY DEF Extends, Unsolved, PartFounded

\* CInv is inductive.
LEMMA ConfStep == CInv /\ [Next]_vars => CInv'
<1> SUFFICES ASSUME CInv, [Next]_vars PROVE CInv'
  OBVIOUS
<1> DEFINE Rest == StillSettled /\ BelowReference /\ PartWellFounded
<1>0. UInv /\ JInv /\ Rest /\ UInv' /\ JInv'
  BY UnfoundedStep, JustifiedStep DEF CInv
<1> SUFFICES Rest'
  BY <1>0 DEF CInv
<1>1. ASSUME NEW r \in RulePool, AddRule(r) PROVE Rest'
  BY <1>0, <1>1 DEF AddRule, resultVars, StillSettled, BelowReference, PartWellFounded
<1>2. ASSUME NEW w, NEW l, AddSup(w, l) PROVE Rest'
  BY <1>0, <1>2 DEF AddSup, resultVars, StillSettled, BelowReference, PartWellFounded
<1>3. ASSUME NEW q, AddFact(q) PROVE Rest'
  BY <1>0, <1>3 DEF AddFact, resultVars, StillSettled, BelowReference, PartWellFounded
<1>4. CASE Compile
  <2>1. Extends(delta', RefDelta(thy', scc'))
    BY <1>4, UnsolvedBelow DEF Compile
  <2> QED
    BY <1>4, <2>1 DEF Compile, StillSettled, BelowReference, PartWellFounded
<1>5. ASSUME NEW q \in Lits, DecideDelta(q) PROVE Rest'
  <2>1. Extends(delta', RefDelta(thy, scc))
    BY <1>5, ConfDecideDelta
  <2> QED
    BY <1>5, <2>1 DEF DecideDelta, StillSettled, BelowReference, PartWellFounded
<1>6. ASSUME NEW q \in Lits, DecidePart(q) PROVE Rest'
  <2>1. /\ Extends(part', RefPart(thy, scc, delta))
        /\ PartFounded(thy, delta, part')
        /\ \A x \in Lits : part'[x] = DL_REFUTED => delta[x] # DL_PROVED
    BY <1>6, ConfDecidePart
  <2> QED
    BY <1>0, <1>6, <2>1 DEF DecidePart, StillSettled, BelowReference, PartWellFounded
<1>7. CASE SweepEnds
  <2>1. StillSettled'
    BY <1>7 DEF SweepEnds, StillSettled, DeltaSettled, PartSettled, resultVars
  <2> QED
    BY <1>0, <1>7, <2>1 DEF SweepEnds, BelowReference, PartWellFounded, resultVars
<1>8. ASSUME NEW q \in Lits, CompleteDelta(q) PROVE Rest'
  <2>1. Extends(delta', RefDelta(thy, scc))
    BY <1>8, ConfCompleteDelta
  <2> QED
    BY <1>8, <2>1 DEF CompleteDelta, StillSettled, BelowReference, PartWellFounded
<1>9. ASSUME NEW q \in Lits, CompletePart(q) PROVE Rest'
  <2>1. /\ Extends(part', RefPart(thy, scc, delta))
        /\ PartFounded(thy, delta, part')
        /\ \A x \in Lits : part'[x] = DL_REFUTED => delta[x] # DL_PROVED
    BY <1>9, ConfCompletePart
  <2> QED
    BY <1>0, <1>9, <2>1 DEF CompletePart, StillSettled, BelowReference, PartWellFounded
<1>10. CASE SweepAgain
  BY <1>0, <1>10 DEF SweepAgain, resultVars, StillSettled, BelowReference, PartWellFounded
<1>11. CASE DeltaEnds
  <2>1. delta = RefDelta(thy, scc)
    BY <1>11, ConfDeltaEnds
  <2>2. part = Unsolved
    BY <1>0, <1>11 DEF UInv, DeltaEnds
  <2>3. /\ Extends(part, RefPart(thy, scc, delta))
        /\ PartFounded(thy, delta, part)
        /\ \A x \in Lits : part[x] # DL_REFUTED
    BY <2>2, UnsolvedBelow
  <2> QED
    BY <1>11, <2>1, <2>3 DEF DeltaEnds, resultVars, StillSettled, BelowReference, PartWellFounded
<1>12. CASE PartEnds
  <2>1. part = RefPart(thy, scc, delta)
    BY <1>12, ConfPartEnds
  <2> QED
    BY <1>0, <1>12, <2>1 DEF PartEnds, resultVars, StillSettled, BelowReference, PartWellFounded
<1>13. CASE ResultFree
  BY <1>13 DEF ResultFree, StillSettled, BelowReference, PartWellFounded
<1>14. CASE UNCHANGED vars
  BY <1>0, <1>14 DEF vars, StillSettled, BelowReference, PartWellFounded, DeltaSettled, PartSettled
<1> QED
  BY <1>1, <1>2, <1>3, <1>4, <1>5, <1>6, <1>7, <1>8, <1>9, <1>10, <1>11, <1>12, <1>13, <1>14
     DEF Next, Build, Solve, Sweep, Complete

\* CInv holds initially.
LEMMA ConfInit == Init => CInv
<1>1. Init => DInv
  BY InitType, UnsolvedDelta DEF Init, DInv, DeltaComplete
<1>2. Init => JInv
  BY InitType DEF Init, JInv, ProofsStayJustified, Unsolved
<1>3. Init => UInv
  BY <1>1 DEF Init, UInv, DeltaHasRule, PartSound, PartStalled, CompletedUnattacked, Unsolved
<1> QED
  BY <1>2, <1>3 DEF Init, CInv, StillSettled, BelowReference, PartWellFounded

\* Every order of deciding literals and completing components, for every theory,
\* ends in the statuses of the round-based reference.
THEOREM OrderInvisible == Spec => []Confluence
<1>1. CInv => Confluence
  BY DEF CInv, BelowReference, Confluence
<1> QED
  BY <1>1, ConfInit, ConfStep, PTL DEF Spec

-----------------------------------------------------------------------------
(* Stalls.                                                                 *)

\* The components in use are those of the theory being solved.
SccsOfTheory == phase # "build" => scc = SupportSccs(thy)

\* SccsOfTheory is inductive.
LEMMA SccsStep == SccsOfTheory /\ [Next]_vars => SccsOfTheory'
BY DEF SccsOfTheory, Next, vars, resultVars, Build, AddRule, AddSup, AddFact, Compile, Solve, Sweep,
       Complete, DecideDelta, DecidePart, SweepEnds, CompleteDelta, CompletePart, SweepAgain,
       DeltaEnds, PartEnds, ResultFree

\* A finished solve leaves nothing to decide and nothing to complete.
LEMMA DoneStops ==
  ASSUME CInv, SccsOfTheory, phase = "done"
  PROVE  /\ TheoryLits(thy) /\ delta \in Status /\ part \in Status
         /\ DeltaStops(thy, SupportSccs(thy), delta)
         /\ PartStops(thy, SupportSccs(thy), delta, part)
<1>1. scc = SupportSccs(thy) /\ delta = RefDelta(thy, scc) /\ part = RefPart(thy, scc, delta)
  BY DEF SccsOfTheory, CInv, BelowReference
<1>2. TheoryLits(thy) /\ AreSccs(scc) /\ delta \in Status /\ part \in Status
  BY InvFine
<1>3. DeltaStops(thy, scc, RefDelta(thy, scc))
  BY <1>2, RefDeltaLimit
<1>4. PartStops(thy, scc, delta, RefPart(thy, scc, delta))
  BY <1>2, RefPartLimit
<1> QED
  BY <1>1, <1>2, <1>3, <1>4

\* A literal a finished solve leaves undecided, in either layer and for every
\* theory, is led to by an attacked cycle of the dependency graph: recursion
\* without defeat always decides.
THEOREM StallsExplained == Spec => []StallsComeFromAttackedCycles
<1>1. Init => SccsOfTheory
  BY DEF Init, SccsOfTheory
<1>2. CInv /\ SccsOfTheory => StallsComeFromAttackedCycles
  <2> SUFFICES ASSUME CInv, SccsOfTheory, phase = "done",
                      NEW q \in Lits, delta[q] = DL_UNDECIDED \/ part[q] = DL_UNDECIDED
               PROVE  AttackedCycle(thy, q)
    BY DEF StallsComeFromAttackedCycles, AttackedCycle
  <2> QED
    BY DoneStops, DeltaStallReason, PartStallReason
<1> QED
  BY <1>1, <1>2, ConfInit, ConfStep, SccsStep, PTL DEF Spec

-----------------------------------------------------------------------------
(* Sequences without repetition.                                           *)

\* Taking the last element off leaves the others.
LEMMA PopLemma ==
  ASSUME NEW S, NEW s \in Seq(S), s # <<>>, IsInjective(s)
  PROVE  /\ Last(s) \in S /\ Front(s) \in Seq(S) /\ IsInjective(Front(s))
         /\ Range(Front(s)) = Range(s) \ {Last(s)}
<1> DEFINE n == Len(s)
           f == Front(s)
<1>1. n \in Nat \ {0} /\ s \in [1 .. n -> S] /\ DOMAIN s = 1 .. n
  OBVIOUS
<1>2. f \in Seq(S) /\ Len(f) = n - 1 /\ \A k \in 1 .. n - 1 : f[k] = s[k]
  BY <1>1 DEF Front
<1>3. Last(s) = s[n] /\ DOMAIN f = 1 .. n - 1
  BY <1>1, <1>2 DEF Last
<1> HIDE DEF n, f
<1>4. \A a, b \in 1 .. n : s[a] = s[b] => a = b
  BY <1>1 DEF IsInjective
<1>5. IsInjective(f)
  BY <1>1, <1>2, <1>3, <1>4 DEF IsInjective
<1>6. Range(f) = Range(s) \ {Last(s)}
  <2>1. Range(f) = {s[k] : k \in 1 .. n - 1}
    BY <1>2, <1>3 DEF Range
  <2>2. Range(s) = {s[k] : k \in 1 .. n}
    BY <1>1 DEF Range
  <2>3. \A k \in 1 .. n : k \in 1 .. n - 1 \/ k = n
    BY <1>1
  <2>4. \A k \in 1 .. n - 1 : k \in 1 .. n /\ n \in 1 .. n /\ k # n
    BY <1>1
  <2> QED
    BY <1>3, <1>4, <2>1, <2>2, <2>3, <2>4
<1> QED
  BY <1>1, <1>2, <1>3, <1>5, <1>6 DEF f

\* Disjoint sequences are put one after the other.
LEMMA PushLemma ==
  ASSUME NEW S, NEW s \in Seq(S), NEW t \in Seq(S), IsInjective(s), IsInjective(t),
         Range(s) \cap Range(t) = {}
  PROVE  /\ s \o t \in Seq(S) /\ IsInjective(s \o t)
         /\ Range(s \o t) = Range(s) \cup Range(t)
<1> DEFINE n == Len(s)
           m == Len(t)
           c == s \o t
<1>1. n \in Nat /\ m \in Nat /\ DOMAIN s = 1 .. n /\ DOMAIN t = 1 .. m
  OBVIOUS
<1>2. /\ c \in Seq(S) /\ DOMAIN c = 1 .. n + m
      /\ \A k \in 1 .. n : c[k] = s[k]
      /\ \A k \in n + 1 .. n + m : c[k] = t[k - n]
  BY <1>1
<1> HIDE DEF n, m, c
<1>3. \A k \in 1 .. n + m : k \in 1 .. n \/ (k \in n + 1 .. n + m /\ k - n \in 1 .. m)
  BY <1>1
<1>4. \A k \in 1 .. m : k + n \in n + 1 .. n + m /\ c[k + n] = t[k]
  BY <1>1, <1>2
<1>5. \A k \in 1 .. n : s[k] \in Range(s)
  BY <1>1 DEF Range
<1>6. \A k \in 1 .. m : t[k] \in Range(t)
  BY <1>1 DEF Range
<1>7. IsInjective(c)
  <2> SUFFICES ASSUME NEW a \in 1 .. n + m, NEW b \in 1 .. n + m, c[a] = c[b] PROVE a = b
    BY <1>2 DEF IsInjective
  <2>1. CASE a \in 1 .. n /\ b \in 1 .. n
    BY <2>1, <1>1, <1>2 DEF IsInjective
  <2>2. CASE a \in n + 1 .. n + m /\ b \in n + 1 .. n + m
    <3>1. a - n \in 1 .. m /\ b - n \in 1 .. m /\ t[a - n] = t[b - n]
      BY <2>2, <1>1, <1>2
    <3>2. a - n = b - n
      BY <3>1, <1>1 DEF IsInjective
    <3> QED
      BY <3>2, <1>1
  <2>3. CASE a \in 1 .. n /\ b \in n + 1 .. n + m
    BY <2>3, <1>1, <1>2, <1>3, <1>5, <1>6
  <2>4. CASE b \in 1 .. n /\ a \in n + 1 .. n + m
    BY <2>4, <1>1, <1>2, <1>3, <1>5, <1>6
  <2> QED
    BY <1>3, <2>1, <2>2, <2>3, <2>4
<1>8. Range(c) = Range(s) \cup Range(t)
  <2>1. ASSUME NEW x \in Range(c) PROVE x \in Range(s) \cup Range(t)
    <3>1. PICK k \in 1 .. n + m : x = c[k]
      BY <1>2 DEF Range
    <3> QED
      BY <3>1, <1>2, <1>3, <1>5, <1>6
  <2>2. ASSUME NEW x \in Range(s) PROVE x \in Range(c)
    <3>1. PICK k \in 1 .. n : x = s[k]
      BY <1>1 DEF Range
    <3>2. k \in DOMAIN c /\ c[k] = x
      BY <3>1, <1>1, <1>2
    <3> QED
      BY <3>2 DEF Range
  <2>3. ASSUME NEW x \in Range(t) PROVE x \in Range(c)
    <3>1. PICK k \in 1 .. m : x = t[k]
      BY <1>1 DEF Range
    <3>2. k + n \in DOMAIN c /\ c[k + n] = x
      BY <3>1, <1>1, <1>2, <1>4
    <3> QED
      BY <3>2 DEF Range
  <2> QED
    BY <2>1, <2>2, <2>3
<1> QED
  BY <1>2, <1>7, <1>8 DEF c

\* An initial segment has as many members as it is long.
LEMMA SegmentLemma ==
  ASSUME NEW n \in Nat
  PROVE  IsFiniteSet(1 .. n) /\ Cardinality(1 .. n) = n
<1>1. IsFiniteSet(1 .. n) /\ Cardinality(1 .. n) = IF 1 > n THEN 0 ELSE n - 1 + 1
  BY FS_Interval
<1> QED
  BY <1>1

\* An enumeration of a finite set repeats nothing and leaves nothing out.
LEMMA EnumerationLemma ==
  ASSUME NEW S, IsFiniteSet(S), NEW s \in SetToSeqs(S)
  PROVE  s \in Seq(S) /\ IsInjective(s) /\ Range(s) = S
<1>1. Cardinality(S) \in Nat
  BY FS_CardinalityType
<1> DEFINE n == Cardinality(S)
<1>2. s \in [1 .. n -> S] /\ \A i, j \in 1 .. n : i # j => s[i] # s[j]
  BY DEF SetToSeqs
<1> HIDE DEF n
<1>3. n \in Nat
  BY <1>1 DEF n
<1>4. s \in Seq(S)
  BY <1>2, <1>3
<1>5. IsInjective(s)
  BY <1>2 DEF IsInjective
<1>6. s \in Injection(1 .. n, S)
  BY <1>2, <1>5 DEF Injection
<1>7. Cardinality(1 .. n) = Cardinality(S)
  BY <1>3, SegmentLemma DEF n
<1>8. s \in Surjection(1 .. n, S)
  BY <1>6, <1>7, FS_Injection
<1>9. Range(s) = S
  BY <1>8 DEF Surjection, Range
<1> QED
  BY <1>4, <1>5, <1>9

\* A sequence of literals without repetition is no longer than there are literals.
LEMMA FitsLemma ==
  ASSUME NEW s \in Seq(Lits), IsInjective(s)
  PROVE  Len(s) <= 2 * NAtoms
<1>1. NAtoms \in Nat /\ Len(s) \in Nat
  BY NAtomsAssumption
<1>2. IsFiniteSet(Lits) /\ Cardinality(Lits) = 2 * NAtoms
  BY <1>1, FS_Interval DEF Lits
<1>3. s \in Injection(1 .. Len(s), Lits)
  BY DEF Injection, IsInjective
<1>4. Cardinality(1 .. Len(s)) <= Cardinality(Lits)
  BY <1>2, <1>3, FS_Injection
<1>5. Cardinality(1 .. Len(s)) = Len(s)
  BY <1>1, SegmentLemma
<1> QED
  BY <1>1, <1>2, <1>4, <1>5

-----------------------------------------------------------------------------
(* What a decision can change.                                             *)

\* The heads that read a literal, and their complements, are literals.
LEMMA DependSuccLits ==
  ASSUME NEW t \in Theory, NEW q \in Lits
  PROVE  DependSucc(t, q) \subseteq Lits /\ IsFiniteSet(DependSucc(t, q))
<1>1. \A r \in DOMAIN t.rules : t.rules[r].head \in Lits /\ Compl(t.rules[r].head) \in Lits
  BY TheoryLitsOK, ComplLits DEF TheoryLits
<1>2. DependSucc(t, q) \subseteq Lits
  BY <1>1 DEF DependSucc
<1>3. IsFiniteSet(Lits)
  BY NAtomsAssumption, FS_Interval DEF Lits
<1> QED
  BY <1>2, <1>3, FS_Subset

-----------------------------------------------------------------------------
(* The inductive invariant.                                                *)

DTyped ==
  /\ thy \in Theory /\ delta \in Status /\ part \in Status
  /\ at \in Nat

StackOK ==
  /\ stack \in Seq(Lits)
  /\ inq = Range(stack)
  /\ IsInjective(stack)

\* Off the stack nothing is left to decide.
WorkOK ==
  InSweep /\ driver = "worklist" => \A x \in Lits \ inq : ~ Decides(x)

\* Behind a scan that changed nothing, nothing is left to decide.
ScanOK ==
  InSweep /\ driver = "sweep" /\ ~ changed => \A x \in Lits : x < at => ~ Decides(x)

SInv == DTyped /\ StackOK /\ WorkOK /\ ScanOK

\* The empty stack is a stack.
LEMMA EmptyStack == <<>> \in Seq(Lits) /\ Range(<<>>) = {} /\ IsInjective(<<>>)
<1>1. <<>> \in Seq(Lits) /\ DOMAIN <<>> = {}
  OBVIOUS
<1> QED
  BY <1>1 DEF Range, IsInjective

\* run_worklist starts from every literal, once.
LEMMA FullStack ==
  ASSUME NEW s, s = [i \in 1 .. 2 * NAtoms |-> i - 1]
  PROVE  s \in Seq(Lits) /\ Range(s) = Lits /\ IsInjective(s)
<1>1. NAtoms \in Nat /\ 2 * NAtoms \in Nat
  BY NAtomsAssumption
<1>2. \A i \in 1 .. 2 * NAtoms : i - 1 \in Lits /\ s[i] = i - 1
  BY <1>1 DEF Lits
<1>3. \A x \in Lits : x + 1 \in 1 .. 2 * NAtoms /\ s[x + 1] = x
  BY <1>1 DEF Lits
<1>4. s \in [1 .. 2 * NAtoms -> Lits]
  BY <1>2
<1>5. s \in Seq(Lits)
  BY <1>1, <1>4
<1>6. IsInjective(s)
  BY <1>1, <1>2 DEF IsInjective
<1>7. Range(s) = Lits
  BY <1>2, <1>3 DEF Range
<1> QED
  BY <1>5, <1>6, <1>7

\* Entering a sweep sets its control state up.
LEMMA StartStep ==
  ASSUME StartSweep
  PROVE  /\ at' \in Nat /\ StackOK'
         /\ driver' = "worklist" => inq' = Lits
         /\ driver' = "sweep" => at' = 0
<1>1. CASE driver' = "worklist"
  BY <1>1, FullStack DEF StartSweep, StackOK
<1>2. CASE driver' # "worklist"
  BY <1>2, EmptyStack DEF StartSweep, StackOK
<1> QED
  BY <1>1, <1>2

\* A sweep that has just been entered has everything ahead of it.
LEMMA StartOK ==
  ASSUME StartSweep, DTyped'
  PROVE  WorkOK' /\ ScanOK'
<1>1. WorkOK'
  BY StartStep DEF WorkOK
<1>2. \A x \in Lits : ~ (x < 0)
  BY NAtomsAssumption DEF Lits
<1>3. ScanOK'
  BY <1>2, StartStep DEF ScanOK
<1> QED
  BY <1>1, <1>3

\* Visiting a literal keeps the types.
LEMMA VisitTyped ==
  ASSUME DTyped, NEW q, Visit(q)
  PROVE  /\ thy' = thy /\ phase' = phase /\ pass' = pass
         /\ delta' \in Status /\ part' \in Status
<1>1. CASE DecideDelta(q)
  BY <1>1, EvalVerdict DEF DTyped, DecideDelta, Status
<1>2. CASE DecidePart(q)
  BY <1>2, EvalVerdict DEF DTyped, DecidePart, Status
<1>3. CASE UNCHANGED vars
  BY <1>3 DEF DTyped, vars
<1> QED
  BY <1>1, <1>2, <1>3 DEF Visit

\* A visit that decides nothing leaves what can be decided alone.
LEMMA VisitIdle ==
  ASSUME UNCHANGED vars
  PROVE  (InSweep' <=> InSweep) /\ \A x : Decides(x)' <=> Decides(x)
BY DEF vars, InSweep, Decides, status

\* After a decision on q a literal can be decided only if it could be before, or
\* it is an undecided dependent of q; q itself cannot.
LEMMA VisitLocal ==
  ASSUME DTyped, InSweep, NEW q \in Lits, Decides(q), Visit(q),
         NEW x \in Lits, Decides(x)'
  PROVE  x # q /\ status[x] = DL_UNDECIDED /\ (Decides(x) \/ x \in DependSucc(thy, q))
<1>1. CASE DecideDelta(q)
  <2> DEFINE v == EvalDelta(thy, delta, q)
  <2>1. /\ phase = "delta" /\ phase' = "delta" /\ thy' = thy
        /\ v # DL_UNDECIDED /\ v \in Verdict
        /\ delta' = [delta EXCEPT ![q] = v]
    BY <1>1, EvalVerdict DEF DecideDelta
  <2> HIDE DEF v
  <2>2. delta'[x] = DL_UNDECIDED /\ EvalDelta(thy, delta', x) # DL_UNDECIDED
    BY <2>1 DEF Decides, status
  <2>3. x # q /\ delta[x] = DL_UNDECIDED
    BY <2>1, <2>2 DEF DTyped, Status
  <2>4. CASE x \notin DependSucc(thy, q)
    <3>1. TheoryLits(thy) /\ delta \in Status
      BY TheoryLitsOK DEF DTyped
    <3>2. EvalDelta(thy, [delta EXCEPT ![q] = v], x) = EvalDelta(thy, delta, x)
      BY ONLY <3>1, <2>4, q \in Lits, x \in Lits, DeltaLocal
    <3>3. EvalDelta(thy, delta, x) # DL_UNDECIDED
      BY <2>1, <2>2, <3>2
    <3> QED
      BY <3>3, <2>1, <2>3 DEF Decides, status
  <2> QED
    BY <2>1, <2>3, <2>4 DEF status
<1>2. CASE DecidePart(q)
  <2> DEFINE v == EvalPart(thy, delta, part, q)
  <2>1. /\ phase = "part" /\ phase' = "part" /\ thy' = thy /\ delta' = delta
        /\ v # DL_UNDECIDED /\ v \in Verdict
        /\ part' = [part EXCEPT ![q] = v]
    BY <1>2, EvalVerdict DEF DecidePart
  <2> HIDE DEF v
  <2>2. part'[x] = DL_UNDECIDED /\ EvalPart(thy, delta, part', x) # DL_UNDECIDED
    BY <2>1 DEF Decides, status
  <2>3. x # q /\ part[x] = DL_UNDECIDED
    BY <2>1, <2>2 DEF DTyped, Status
  <2>4. CASE x \notin DependSucc(thy, q)
    <3>1. thy \in Theory /\ delta \in Status /\ part \in Status
      BY DEF DTyped
    <3>4. q \in Lits /\ v \in Verdict /\ x \in Lits /\ x \notin DependSucc(thy, q)
      BY <2>1, <2>4
    <3>2. EvalPart(thy, delta, [part EXCEPT ![q] = v], x) = EvalPart(thy, delta, part, x)
      BY ONLY <3>1, <3>4, PartLocal, TheoryLitsOK
    <3>3. EvalPart(thy, delta, part, x) # DL_UNDECIDED
      BY <2>1, <2>2, <3>2
    <3> QED
      BY <3>3, <2>1, <2>3 DEF Decides, status
  <2> QED
    BY <2>1, <2>3, <2>4 DEF status
<1> QED
  BY <1>1, <1>2 DEF Visit

\* Popping a literal keeps the stack a list of distinct literals and leaves
\* nothing to decide off it.
LEMMA PopStep ==
  ASSUME SInv, WorklistPop
  PROVE  StackOK' /\ WorkOK'
<1> DEFINE q == Last(stack)
<1>1. /\ q \in Lits /\ Front(stack) \in Seq(Lits) /\ IsInjective(Front(stack))
      /\ Range(Front(stack)) = inq \ {q}
  BY PopLemma DEF SInv, StackOK, WorklistPop
<1>2. InSweep /\ driver = "worklist" /\ driver' = driver /\ Visit(q)
  BY DEF WorklistPop
<1>3. \A x \in Lits \ inq : ~ Decides(x)
  BY <1>2 DEF SInv, WorkOK
<1>4. CASE Decides(q)
  <2>1. PICK s \in SetToSeqs(Requeued(q)) :
          stack' = Front(stack) \o s /\ inq' = (inq \ {q}) \cup Range(s)
    BY <1>4 DEF WorklistPop
  <2>2. Requeued(q) \subseteq Lits /\ IsFiniteSet(Requeued(q)) /\ Requeued(q) \cap inq = {}
    <3>1. DependSucc(thy, q) \subseteq Lits /\ IsFiniteSet(DependSucc(thy, q))
      BY <1>1, DependSuccLits DEF SInv, DTyped
    <3>2. Requeued(q) \subseteq DependSucc(thy, q)
      BY DEF Requeued
    <3>3. IsFiniteSet(Requeued(q))
      BY <3>1, <3>2, FS_Subset
    <3> QED
      BY <3>1, <3>2, <3>3 DEF Requeued
  <2>3. s \in Seq(Lits) /\ IsInjective(s) /\ Range(s) = Requeued(q)
    BY <2>1, <2>2, EnumerationLemma
  <2>4. StackOK'
    BY <1>1, <2>1, <2>2, <2>3, PushLemma DEF StackOK
  <2>5. ASSUME NEW x \in Lits, Decides(x)' PROVE x \in inq'
    <3>1. x # q /\ status[x] = DL_UNDECIDED /\ (Decides(x) \/ x \in DependSucc(thy, q))
      BY <1>1, <1>2, <1>4, <2>5, VisitLocal DEF SInv
    <3>2. CASE x \in inq
      BY <3>1, <3>2, <2>1
    <3>3. CASE x \notin inq
      <4>1. x \in Requeued(q)
        BY <1>3, <3>1, <3>3 DEF Requeued
      <4> QED
        BY <4>1, <2>1, <2>3
    <3> QED
      BY <3>2, <3>3
  <2> QED
    BY <2>4, <2>5 DEF WorkOK
<1>5. CASE ~ Decides(q)
  <2>1. stack' = Front(stack) /\ inq' = inq \ {q} /\ UNCHANGED vars
    BY <1>2, <1>5 DEF WorklistPop, Visit
  <2>2. StackOK'
    BY <1>1, <2>1 DEF StackOK
  <2>3. \A x \in Lits \ inq' : ~ Decides(x)'
    BY <1>3, <1>5, <2>1, VisitIdle
  <2> QED
    BY <2>2, <2>3 DEF WorkOK
<1> QED
  BY <1>4, <1>5

\* The other steps of a rescanning sweep: a literal behind the scan stays settled
\* as long as the scan has changed nothing.
LEMMA ScanStep ==
  ASSUME SInv, SweepVisit \/ SweepRescan
  PROVE  ScanOK'
<1>1. CASE SweepVisit
  <2>1. CASE Decides(at)
    BY <1>1, <2>1 DEF SweepVisit, ScanOK
  <2>2. CASE ~ Decides(at)
    <3>1. UNCHANGED vars /\ at' = at + 1 /\ driver' = driver /\ InSweep /\ driver = "sweep"
      BY <1>1, <2>2 DEF SweepVisit, Visit
    <3>2. ~ changed' => ~ changed
      BY <1>1, <2>2 DEF SweepVisit
    <3>3. ASSUME ~ changed, NEW x \in Lits, x < at + 1 PROVE ~ Decides(x)
      <4>1. x < at \/ x = at
        BY <3>3, NAtomsAssumption DEF SInv, DTyped, Lits
      <4> QED
        BY <4>1, <3>1, <3>3, <2>2 DEF SInv, ScanOK
    <3> QED
      BY <3>1, <3>2, <3>3, VisitIdle DEF ScanOK
  <2> QED
    BY <1>1, <2>1, <2>2 DEF SweepVisit
<1>2. CASE SweepRescan
  <2>1. \A x \in Lits : ~ (x < 0)
    BY NAtomsAssumption DEF Lits
  <2> QED
    BY <1>2, <2>1 DEF SweepRescan, ScanOK
<1> QED
  BY <1>1, <1>2

\* A step that ends outside a sweep and leaves the stack alone keeps the
\* invariants of the schedules.
LEMMA OutsideStep ==
  ASSUME SInv, stack' = stack, inq' = inq,
         ~ InSweep'
  PROVE  StackOK' /\ WorkOK' /\ ScanOK'
BY DEF SInv, StackOK, WorkOK, ScanOK

\* The builder keeps the theory typed and stays outside a sweep.
LEMMA BuildStep ==
  ASSUME SInv, DBuild
  PROVE  DTyped' /\ ~ InSweep'
<1>0. UNCHANGED <<phase, pass, delta, part, at>> /\ phase = "build"
  BY DEF DBuild, Build, AddRule, AddSup, AddFact, control, resultVars
<1>1. ASSUME NEW r \in RulePool, AddRule(r) PROVE thy' \in Theory
  <2>1. Append(thy.rules, r) \in Seq(Rule)
    BY PoolAssumption DEF SInv, DTyped, Theory
  <2> QED
    BY <1>1, <2>1 DEF AddRule, SInv, DTyped, Theory
<1>2. ASSUME NEW w \in DOMAIN thy.rules, NEW l \in DOMAIN thy.rules, AddSup(w, l)
      PROVE  thy' \in Theory
  <2>1. DOMAIN thy.rules \subseteq Nat
    BY DEF SInv, DTyped, Theory
  <2> QED
    BY SMTT(30), <1>2, <2>1 DEF AddSup, SInv, DTyped, Theory
<1>3. ASSUME NEW q \in FactPool, AddFact(q) PROVE thy' \in Theory
  <2>1. q \in Lits
    BY PoolAssumption
  <2> QED
    BY <1>3, <2>1 DEF AddFact, SInv, DTyped, Theory
<1>4. thy' \in Theory
  BY <1>1, <1>2, <1>3 DEF DBuild, Build
<1> QED
  BY <1>0, <1>4 DEF SInv, DTyped, InSweep

\* A step of the completion pass keeps the types and stays in the pass.
LEMMA PassStep ==
  ASSUME SInv, PassVisit
  PROVE  DTyped' /\ ~ InSweep'
<1>1. at' \in Nat /\ pass = "complete"
  BY DEF PassVisit, InPass, SInv, DTyped
<1>2. ASSUME NEW q, CompleteDelta(q)
      PROVE  thy' = thy /\ pass' = pass /\ delta' \in Status /\ part' \in Status
  BY <1>2, CompletionType DEF CompleteDelta, SInv, DTyped
<1>3. ASSUME NEW q, CompletePart(q)
      PROVE  thy' = thy /\ pass' = pass /\ delta' \in Status /\ part' \in Status
  BY <1>3, CompletionType DEF CompletePart, SInv, DTyped
<1>4. CASE UNCHANGED vars
  BY <1>1, <1>4 DEF vars, SInv, DTyped, InSweep
<1>5. CASE ~ UNCHANGED vars
  <2>1. PICK q : CompleteDelta(q) \/ CompletePart(q)
    BY <1>5 DEF PassVisit
  <2> QED
    BY <1>1, <1>2, <1>3, <2>1 DEF SInv, DTyped, InSweep
<1> QED
  BY <1>4, <1>5

\* The initial state.
LEMMA SInvInit == DInit => SInv
<1> SUFFICES ASSUME DInit PROVE SInv
  OBVIOUS
<1>1. thy \in Theory /\ delta \in Status /\ part \in Status
  BY InitType DEF DInit, TypeOK
<1>2. at \in Nat /\ stack = <<>> /\ inq = {} /\ ~ InSweep
  BY DEF DInit, Init, InSweep
<1> QED
  BY <1>1, <1>2, EmptyStack DEF SInv, DTyped, StackOK, WorkOK, ScanOK

\* Every step of the three schedules keeps the invariant.
LEMMA SInvStep == SInv /\ [DNext]_dvars => SInv'
<1> SUFFICES ASSUME SInv, [DNext]_dvars PROVE SInv'
  OBVIOUS
<1> USE DEF SInv
<1>1. CASE DBuild
  BY <1>1, BuildStep, OutsideStep DEF DBuild, control
<1>2. ASSUME NEW d \in {"sweep", "scc", "worklist"}, DCompile(d) PROVE SInv'
  <2>1. StartSweep /\ thy' = thy /\ delta' = Unsolved /\ part' = Unsolved
    BY <1>2 DEF DCompile, Compile
  <2>2. Unsolved \in Status
    BY DEF Unsolved, Status, Verdict
  <2>3. DTyped'
    BY <2>1, <2>2, StartStep DEF DTyped
  <2> QED
    BY <2>1, <2>3, StartStep, StartOK
<1>3. CASE SweepVisit
  <2>1. Visit(at) /\ at' = at + 1
    BY <1>3 DEF SweepVisit
  <2>2. DTyped'
    BY <2>1, VisitTyped DEF DTyped
  <2>3. StackOK' /\ WorkOK'
    BY <1>3 DEF SweepVisit, StackOK, WorkOK
  <2> QED
    BY <1>3, <2>2, <2>3, ScanStep
<1>4. CASE SweepRescan
  <2>1. DTyped' /\ StackOK' /\ WorkOK'
    BY <1>4 DEF SweepRescan, vars, DTyped, StackOK, WorkOK
  <2> QED
    BY <1>4, <2>1, ScanStep
<1>5. CASE SccVisit
  <2>1. PICK q : Visit(q)
    BY <1>5 DEF SccVisit
  <2>2. DTyped'
    BY <1>5, <2>1, VisitTyped DEF SccVisit, DTyped
  <2> QED
    BY <1>5, <2>2 DEF SccVisit, StackOK, WorkOK, ScanOK
<1>6. CASE SccNext
  BY <1>6 DEF SccNext, vars, DTyped, StackOK, WorkOK, ScanOK
<1>7. CASE WorklistPop
  <2>1. PICK q : Visit(q)
    BY <1>7 DEF WorklistPop
  <2>2. DTyped'
    BY <1>7, <2>1, VisitTyped DEF WorklistPop, DTyped
  <2>3. ScanOK'
    BY <1>7 DEF WorklistPop, ScanOK
  <2> QED
    BY <1>7, <2>2, <2>3, PopStep
<1>8. CASE SweepDone
  <2>1. DTyped' /\ ~ InSweep' /\ stack' = stack /\ inq' = inq
    BY <1>8 DEF SweepDone, resultVars, DTyped, InSweep
  <2> QED
    BY <2>1, OutsideStep
<1>9. CASE PassVisit
  BY <1>9, PassStep, OutsideStep DEF PassVisit
<1>10. CASE PassDone
  <2>1. StartSweep /\ thy' = thy /\ delta' = delta /\ part' = part
    BY <1>10 DEF PassDone, resultVars
  <2>2. DTyped'
    BY <2>1, StartStep DEF DTyped
  <2> QED
    BY <2>1, <2>2, StartStep, StartOK
<1>11. CASE DResultFree
  <2>1. /\ thy' = thy /\ delta' = Unsolved /\ part' = Unsolved /\ phase' = "build"
        /\ at' = 0 /\ stack' = <<>> /\ inq' = {}
    BY <1>11 DEF DResultFree, ResultFree
  <2>2. Unsolved \in Status
    BY DEF Unsolved, Status, Verdict
  <2> QED
    BY <2>1, <2>2, EmptyStack DEF DTyped, StackOK, WorkOK, ScanOK, InSweep
<1>12. CASE UNCHANGED dvars
  BY <1>12 DEF dvars, vars, control, DTyped, StackOK, WorkOK, ScanOK, InSweep, Decides, status
<1> QED
  BY <1>1, <1>2, <1>3, <1>4, <1>5, <1>6, <1>7, <1>8, <1>9, <1>10, <1>11, <1>12 DEF DNext, DSolve

-----------------------------------------------------------------------------
(* Theorems.                                                               *)

\* The invariant implies the bound: distinct literals fit the array.
LEMMA SInvFits == SInv => StackFits
BY FitsLemma DEF SInv, StackOK, StackFits

\* The array dl_solve_wl allocates, one slot per literal, never runs over, in any
\* theory and whatever order the dependents are pushed in.
THEOREM StackNeverOverflows == DSpec => []StackFits
BY SInvInit, SInvStep, SInvFits, PTL DEF DSpec

\* When a sweep over literals or the worklist stops, nothing is left to decide.
LEMMA DoneSettled ==
  ASSUME SInv, SweepDone, driver \in {"sweep", "worklist"}
  PROVE  SweepEnds
<1>1. InSweep
  BY DEF SweepDone
<1>2. \A x \in Lits : ~ Decides(x)
  <2>1. CASE driver = "sweep"
    <3>1. at = 2 * NAtoms /\ ~ changed
      BY <2>1 DEF SweepDone
    <3>2. \A x \in Lits : x < at
      BY <3>1, NAtomsAssumption DEF Lits
    <3> QED
      BY <1>1, <2>1, <3>1, <3>2 DEF SInv, ScanOK
  <2>2. CASE driver = "worklist"
    <3>1. inq = {}
      BY <2>2, EmptyStack DEF SweepDone, SInv, StackOK
    <3> QED
      BY <1>1, <2>2, <3>1 DEF SInv, WorkOK
  <2> QED
    BY <2>1, <2>2
<1>3. (phase = "delta" /\ DeltaSettled) \/ (phase = "part" /\ PartSettled)
  BY <1>1, <1>2 DEF InSweep, Decides, status, DeltaSettled, PartSettled
<1> QED
  BY <1>1, <1>3 DEF SweepDone, SweepEnds, InSweep

\* Neither sweep() nor run_worklist() stops early: the step that leaves one is the
\* step of the open solver that requires a fixpoint of the layer.  The worklist
\* queues the dependents of a decision only, so this is where a dependency missing
\* from build_dep would show.
THEOREM SchedulesMissNothing ==
  DSpec => [][SweepDone /\ driver \in {"sweep", "worklist"} => SweepEnds]_dvars
<1>1. SInv /\ [DNext]_dvars
        => [SweepDone /\ driver \in {"sweep", "worklist"} => SweepEnds]_dvars
  BY DoneSettled
<1> QED
  BY <1>1, SInvInit, SInvStep, PTL DEF DSpec

-----------------------------------------------------------------------------
(* The schedules implement the solver.                                     *)

\* The compiled form belongs to the theory that is solved.
CompiledOK ==
  phase \in {"delta", "part"} =>
    /\ \E high : numbering = SupportNumbering(thy, high)
    /\ driver = "scc" => \E high : sched = Schedule(thy, high)

\* sweep_scc: what can still be decided lies in a component not yet left, and in
\* the one being walked not behind a round that changed nothing; a component of
\* one literal needs no second round.
SccOK ==
  InSweep /\ driver = "scc" =>
    /\ comp \in 0 .. Len(sched) /\ at >= 1
    /\ \A x \in Lits : Decides(x) => \E j \in 1 .. comp : x \in Range(sched[j])
    /\ comp > 0 /\ (Len(sched[comp]) <= 1 \/ ~ changed) =>
         \A i \in DOMAIN sched[comp] : i < at => ~ Decides(sched[comp][i])

\* complete_pass: while it has completed nothing, no component behind it completes.
PassOK ==
  InPass =>
    /\ at >= 1
    /\ ~ any => \A i \in DOMAIN numbering :
                  i < at => ~ Completes(thy, status, numbering[i], phase = "delta")

RInv ==
  /\ SInv /\ TypeOK /\ SccsOfTheory
  /\ driver \in {"sweep", "scc", "worklist"}
  /\ CompiledOK /\ SccOK /\ PassOK

\* A typed theory is a theory over the literals.
LEMMA TypedTheory == ASSUME SInv PROVE TheoryLits(thy)
BY TheoryLitsOK DEF SInv, DTyped

\* Leaving a sweep, under any of the schedules, is leaving it at a fixpoint.
LEMMA SweepLeft ==
  ASSUME RInv, SweepDone
  PROVE  SweepEnds
<1>1. CASE driver \in {"sweep", "worklist"}
  BY <1>1, DoneSettled DEF RInv
<1>2. CASE driver = "scc"
  <2>1. InSweep /\ comp = 0
    BY <1>2 DEF SweepDone
  <2>2. \A x \in Lits : ~ Decides(x)
    <3>1. \A j : j \notin 1 .. 0
      OBVIOUS
    <3> QED
      BY <1>2, <2>1, <3>1 DEF RInv, SccOK
  <2>3. (phase = "delta" /\ DeltaSettled) \/ (phase = "part" /\ PartSettled)
    BY <2>1, <2>2 DEF InSweep, Decides, status, DeltaSettled, PartSettled
  <2> QED
    BY <2>1, <2>3 DEF SweepDone, SweepEnds, InSweep
<1> QED
  BY <1>1, <1>2 DEF RInv

\* A pass that ends has looked at the component of every literal.
LEMMA PassLeft ==
  ASSUME RInv, PassDone
  PROVE  SweepAgain \/ DeltaEnds \/ PartEnds
<1>1. /\ InPass /\ at > Len(numbering) /\ pass' = "sweep" /\ any' = FALSE
      /\ phase' = IF any THEN phase ELSE IF phase = "delta" THEN "part" ELSE "done"
      /\ UNCHANGED <<thy, resultVars>>
  BY DEF PassDone
<1>2. any \in BOOLEAN
  BY DEF RInv, TypeOK
<1>3. CASE any
  BY <1>1, <1>3 DEF SweepAgain, InPass
<1>4. CASE ~ any
  <2>1. any' = any
    BY <1>1, <1>2, <1>4
  <2>2. scc = SupportSccs(thy)
    BY <1>1 DEF RInv, SccsOfTheory, InPass
  <2>3. \A q \in Lits : ~ Completes(thy, status, scc[q], phase = "delta")
    <3> SUFFICES ASSUME NEW q \in Lits PROVE ~ Completes(thy, status, scc[q], phase = "delta")
      OBVIOUS
    <3>1. PICK high : numbering = SupportNumbering(thy, high)
      BY <1>1 DEF RInv, CompiledOK, InPass
    <3>2. TheoryLits(thy)
      BY TypedTheory DEF RInv
    <3>3. /\ \E n \in Nat : DOMAIN numbering = 1 .. n /\ Len(numbering) = n
          /\ \E i \in DOMAIN numbering : numbering[i] = SupportSccs(thy)[q]
      BY <3>1, <3>2, SupportNumberingLists
    <3>4. PICK i \in DOMAIN numbering : numbering[i] = scc[q]
      BY <2>2, <3>3
    <3>5. i < at
      <4>1. at \in Nat
        BY DEF RInv, SInv, DTyped
      <4> QED
        BY <1>1, <3>3, <4>1
    <3> QED
      BY <1>1, <1>4, <3>4, <3>5 DEF RInv, PassOK
  <2>4. CASE phase = "delta"
    <3>1. \A q \in Lits : ~ Completes(thy, delta, scc[q], TRUE)
      BY <2>3, <2>4 DEF status
    <3> QED
      BY <1>1, <1>4, <2>1, <2>4, <3>1 DEF DeltaEnds, InPass
  <2>5. CASE phase = "part"
    <3>1. \A q \in Lits : ~ Completes(thy, part, scc[q], FALSE)
      BY <2>3, <2>5 DEF status
    <3> QED
      BY <1>1, <1>4, <2>1, <2>5, <3>1 DEF PartEnds, InPass
  <2> QED
    BY <1>1, <2>4, <2>5 DEF InPass
<1> QED
  BY <1>3, <1>4

\* The literal a schedule visits is a literal.
LEMMA VisitedLit ==
  ASSUME RInv
  PROVE  /\ SweepVisit => at \in Lits
         /\ SccVisit => sched[comp][at] \in Lits /\ comp \in DOMAIN sched /\ at \in DOMAIN sched[comp]
         /\ WorklistPop => Last(stack) \in Lits
<1>1. SweepVisit => at \in Lits
  BY NAtomsAssumption DEF RInv, SInv, DTyped, SweepVisit, Lits
<1>2. ASSUME SccVisit
      PROVE  sched[comp][at] \in Lits /\ comp \in DOMAIN sched /\ at \in DOMAIN sched[comp]
  <2>1. InSweep /\ driver = "scc" /\ comp > 0 /\ at <= Len(sched[comp])
    BY <1>2 DEF SccVisit
  <2>2. PICK high : sched = Schedule(thy, high)
    BY <2>1 DEF RInv, CompiledOK, InSweep
  <2>3. sched \in Seq(Seq(Lits))
    BY <2>2, TypedTheory, ScheduleLists DEF RInv
  <2>4. comp \in 0 .. Len(sched) /\ at >= 1 /\ at \in Nat
    BY <2>1 DEF RInv, SccOK, SInv, DTyped
  <2>5. comp \in DOMAIN sched /\ sched[comp] \in Seq(Lits)
    BY <2>1, <2>3, <2>4
  <2> QED
    BY <2>1, <2>4, <2>5
<1>3. WorklistPop => Last(stack) \in Lits
  BY PopLemma DEF RInv, SInv, StackOK, WorklistPop
<1> QED
  BY <1>1, <1>2, <1>3

\* Every step of a schedule is a step of the open solver or changes nothing of it.
LEMMA StepImplements == RInv /\ [DNext]_dvars => [Next]_vars
<1> SUFFICES ASSUME RInv, [DNext]_dvars PROVE [Next]_vars
  OBVIOUS
<1>0. ASSUME NEW q \in Lits, Visit(q) PROVE [Next]_vars
  BY <1>0 DEF Visit, Next, Solve, Sweep
<1>1. CASE DBuild
  BY <1>1 DEF DBuild, Next
<1>2. ASSUME NEW d \in {"sweep", "scc", "worklist"}, DCompile(d) PROVE [Next]_vars
  BY <1>2 DEF DCompile, Next
<1>3. CASE SweepVisit
  BY <1>0, <1>3, VisitedLit DEF SweepVisit
<1>4. CASE SweepRescan \/ SccNext
  BY <1>4 DEF SweepRescan, SccNext
<1>5. CASE SccVisit
  BY <1>0, <1>5, VisitedLit DEF SccVisit
<1>6. CASE WorklistPop
  BY <1>0, <1>6, VisitedLit DEF WorklistPop
<1>7. CASE SweepDone
  BY <1>7, SweepLeft DEF Next, Solve
<1>8. CASE PassVisit
  <2>1. CASE UNCHANGED vars
    BY <2>1
  <2>2. CASE ~ UNCHANGED vars
    <3>1. InPass /\ at \in Nat /\ at <= Len(numbering)
      BY <1>8 DEF PassVisit, RInv, SInv, DTyped
    <3>2. PICK q \in numbering[at] : CompleteDelta(q) \/ CompletePart(q)
      BY <1>8, <2>2 DEF PassVisit
    <3>3. q \in Lits
      <4>1. at >= 1
        BY <3>1 DEF RInv, PassOK
      <4>2. PICK high : numbering = SupportNumbering(thy, high)
        BY <3>1 DEF RInv, CompiledOK, InPass
      <4>3. /\ \E n \in Nat : DOMAIN numbering = 1 .. n /\ Len(numbering) = n
            /\ \A i \in DOMAIN numbering : \E x \in Lits : numbering[i] = SupportSccs(thy)[x]
        BY <4>2, TypedTheory, SupportNumberingLists DEF RInv
      <4>4. PICK x \in Lits : numbering[at] = SupportSccs(thy)[x]
        BY <3>1, <4>1, <4>3
      <4> QED
        BY <3>2, <4>4, SccsType
    <3> QED
      BY <3>2, <3>3 DEF Next, Solve, Complete
  <2> QED
    BY <2>1, <2>2
<1>9. CASE PassDone
  BY <1>9, PassLeft DEF Next, Solve
<1>10. CASE DResultFree
  BY <1>10 DEF DResultFree, Next
<1>11. CASE UNCHANGED dvars
  BY <1>11 DEF dvars
<1> QED
  BY <1>1, <1>2, <1>3, <1>4, <1>5, <1>6, <1>7, <1>8, <1>9, <1>10, <1>11 DEF DNext, DSolve

\* A walk that has just been entered has every component ahead of it.
LEMMA SccStart ==
  ASSUME StartSweep, CompiledOK', SInv'
  PROVE  SccOK'
<1> SUFFICES ASSUME InSweep', driver' = "scc" PROVE SccOK'
  BY DEF SccOK
<1>1. at' = 1 /\ comp' = Len(sched')
  BY DEF StartSweep
<1>2. PICK high : sched' = Schedule(thy', high)
  BY DEF CompiledOK, InSweep
<1>3. TheoryLits(thy')
  BY TheoryLitsOK DEF SInv, DTyped
<1>4. sched' \in Seq(Seq(Lits)) /\ \A q \in Lits : \E i \in DOMAIN sched' : q \in Range(sched'[i])
  BY <1>2, <1>3, ScheduleLists
<1>5. Len(sched') \in Nat /\ DOMAIN sched' = 1 .. Len(sched')
  BY <1>4
<1>6. comp' \in 0 .. Len(sched') /\ at' >= 1
  BY <1>1, <1>5
<1>7. \A x \in Lits : \E j \in 1 .. comp' : x \in Range(sched'[j])
  BY <1>1, <1>4, <1>5
<1>8. ASSUME comp' > 0 PROVE \A i \in DOMAIN sched'[comp'] : ~ (i < at')
  <2>1. comp' \in DOMAIN sched'
    BY <1>1, <1>5, <1>8
  <2>2. sched'[comp'] \in Seq(Lits)
    BY <1>4, <2>1
  <2>3. \A i \in DOMAIN sched'[comp'] : i >= 1
    BY <2>2
  <2> QED
    BY <1>1, <2>2, <2>3
<1> QED
  BY <1>6, <1>7, <1>8 DEF SccOK

\* What a walk knows of the schedule it walks.
LEMMA SccFacts ==
  ASSUME RInv, InSweep, driver = "scc"
  PROVE  /\ sched \in Seq(Seq(Lits)) /\ comp \in 0 .. Len(sched) /\ at \in Nat /\ at >= 1
         /\ \A i \in DOMAIN sched : \A u \in Range(sched[i]) : \A v \in DependSucc(thy, u) :
              \E j \in 1 .. i : v \in Range(sched[j])
<1>1. PICK high : sched = Schedule(thy, high)
  BY DEF RInv, CompiledOK, InSweep
<1>2. TheoryLits(thy)
  BY TypedTheory DEF RInv
<1>3. /\ sched \in Seq(Seq(Lits))
      /\ \A i \in DOMAIN sched : \A u \in Range(sched[i]) : \A v \in DependSucc(thy, u) :
           \E j \in 1 .. i : v \in Range(sched[j])
  BY <1>1, <1>2, ScheduleLists
<1>4. comp \in 0 .. Len(sched) /\ at \in Nat /\ at >= 1
  BY DEF RInv, SccOK, SInv, DTyped
<1> QED
  BY <1>3, <1>4

\* Visiting a member of a component disturbs that component and later ones only.
LEMMA SccVisitStep ==
  ASSUME RInv, SccVisit
  PROVE  SccOK'
<1>0. PICK q, members : q = sched[comp][at] /\ members = sched[comp]
  OBVIOUS
<1>1. InSweep /\ driver = "scc" /\ comp > 0 /\ at <= Len(members) /\ Visit(q)
  BY <1>0 DEF SccVisit
<1>2. /\ at' = at + 1 /\ changed' = (changed \/ Decides(q))
      /\ UNCHANGED <<driver, numbering, sched, comp, stack, inq>>
  BY <1>0 DEF SccVisit
<1>3. q \in Lits /\ comp \in DOMAIN sched /\ at \in DOMAIN members
  BY <1>0, VisitedLit
<1>4. /\ sched \in Seq(Seq(Lits)) /\ comp \in 0 .. Len(sched) /\ at \in Nat /\ at >= 1
      /\ \A i \in DOMAIN sched : \A u \in Range(sched[i]) : \A v \in DependSucc(thy, u) :
           \E j \in 1 .. i : v \in Range(sched[j])
  BY <1>1, SccFacts
<1>5. members \in Seq(Lits)
  BY <1>0, <1>3, <1>4
<1>6. /\ \A x \in Lits : Decides(x) => \E j \in 1 .. comp : x \in Range(sched[j])
      /\ Len(members) <= 1 \/ ~ changed => \A i \in DOMAIN members : i < at => ~ Decides(members[i])
  BY <1>0, <1>1 DEF RInv, SccOK
<1>7. q \in Range(members)
  BY <1>0, <1>3 DEF Range
<1>8. ASSUME Decides(q)
      PROVE  \A x \in Lits : Decides(x)' => x # q /\ (Decides(x) \/ x \in DependSucc(thy, q))
  BY <1>1, <1>3, <1>8, VisitLocal DEF RInv, SInv
<1>9. ASSUME ~ Decides(q)
      PROVE  \A x : Decides(x)' <=> Decides(x)
  BY <1>1, <1>9, VisitIdle DEF Visit
<1>10. ASSUME NEW x \in Lits, Decides(x)' PROVE \E j \in 1 .. comp : x \in Range(sched[j])
  <2>1. CASE x \in DependSucc(thy, q)
    <3>1. q \in Range(sched[comp])
      BY <1>0, <1>7
    <3> QED
      BY <1>3, <1>4, <2>1, <3>1
  <2>2. CASE Decides(x)
    BY <1>6, <2>2
  <2> QED
    BY <1>8, <1>9, <1>10, <2>1, <2>2
<1>11. ASSUME Len(members) <= 1 \/ ~ changed', NEW i \in DOMAIN members, i < at + 1
       PROVE  ~ Decides(members[i])'
  <2>0. i \in 1 .. Len(members) /\ members[i] \in Lits /\ Len(members) \in Nat
    BY <1>5
  <2>1. CASE Decides(q)
    <3>0. changed'
      BY <1>2, <2>1, Zenon
    <3>a. Len(members) <= 1
      BY <1>11, <3>0, Zenon
    <3>b. at <= Len(members) /\ at \in Nat /\ at >= 1 /\ Len(members) \in Nat
      BY <1>1, <1>4, <2>0, Zenon
    <3>1. Len(members) = 1 /\ at = 1
      BY ONLY <3>a, <3>b
    <3>2. members[i] = q
      BY <1>0, <2>0, <3>1
    <3> QED
      BY <1>3, <1>8, <2>1, <3>2
  <2>2. CASE ~ Decides(q)
    <3>1. i < at \/ i = at
      BY <1>4, <1>11, <2>0
    <3>2. CASE i < at
      <4>1. Len(members) <= 1 \/ ~ changed
        BY <1>2, <1>11, <2>2, Zenon
      <4> QED
        BY <1>6, <1>9, <1>11, <2>2, <3>2, <4>1
    <3>3. CASE i = at
      BY <1>0, <1>9, <2>2, <3>3
    <3> QED
      BY <3>1, <3>2, <3>3
  <2> QED
    BY <2>1, <2>2
<1>12. sched'[comp'] = members /\ comp' = comp /\ sched' = sched /\ at' = at + 1
  BY <1>0, <1>2
<1>13. /\ comp' \in 0 .. Len(sched') /\ at' >= 1
       /\ \A x \in Lits : Decides(x)' => \E j \in 1 .. comp' : x \in Range(sched'[j])
  BY <1>4, <1>10, <1>12
<1>14. ASSUME NEW m, m = sched'[comp'], Len(m) <= 1 \/ ~ changed'
       PROVE  \A i \in DOMAIN m : i < at' => ~ Decides(m[i])'
  BY <1>11, <1>12, <1>14
<1> QED
  BY <1>13, <1>14 DEF SccOK

\* A component is left when nothing of it can be decided.
LEMMA SccNextStep ==
  ASSUME RInv, SccNext
  PROVE  SccOK'
<1>1. /\ InSweep /\ driver = "scc" /\ comp > 0 /\ at > Len(sched[comp])
      /\ comp' = (IF Revisit THEN comp ELSE comp - 1) /\ at' = 1 /\ sched' = sched /\ UNCHANGED vars
      /\ driver' = driver
  BY DEF SccNext
<1>2. /\ sched \in Seq(Seq(Lits)) /\ comp \in 0 .. Len(sched) /\ at \in Nat
  BY <1>1, SccFacts
<1>3. comp \in DOMAIN sched /\ sched[comp] \in Seq(Lits)
  BY <1>1, <1>2
<1>4. \A x : Decides(x)' <=> Decides(x)
  BY <1>1, VisitIdle
<1>5. \A x \in Lits : Decides(x) => \E j \in 1 .. comp : x \in Range(sched[j])
  BY <1>1 DEF RInv, SccOK
<1>6. ASSUME ~ Revisit, NEW x \in Lits, Decides(x)
      PROVE  \E j \in 1 .. comp - 1 : x \in Range(sched[j])
  <2>1. PICK j \in 1 .. comp : x \in Range(sched[j])
    BY <1>5, <1>6
  <2>2. ~ changed \/ Len(sched[comp]) <= 1
    BY <1>3, <1>6 DEF Revisit
  <2>3. \A i \in DOMAIN sched[comp] : ~ Decides(sched[comp][i])
    <3>1. \A i \in DOMAIN sched[comp] : i < at
      BY <1>1, <1>2, <1>3
    <3> QED
      BY <1>1, <2>2, <3>1 DEF RInv, SccOK
  <2>4. j # comp
    BY <1>6, <2>1, <2>3 DEF Range
  <2> QED
    BY <1>2, <2>1, <2>4
<1>7. \A x \in Lits : Decides(x)' => \E j \in 1 .. comp' : x \in Range(sched'[j])
  BY <1>1, <1>4, <1>5, <1>6
<1>8. comp' \in 0 .. Len(sched')
  BY <1>1, <1>2
<1>9. comp' > 0 => \A i \in DOMAIN sched'[comp'] : ~ (i < at')
  <2> SUFFICES ASSUME comp' > 0 PROVE \A i \in DOMAIN sched'[comp'] : ~ (i < at')
    OBVIOUS
  <2>1. comp' \in DOMAIN sched
    BY <1>1, <1>2
  <2>2. sched[comp'] \in Seq(Lits)
    BY <1>2, <2>1
  <2>3. \A i \in DOMAIN sched[comp'] : i >= 1 /\ i \in Nat
    BY <2>2
  <2> QED
    BY <1>1, <2>3
<1> QED
  BY <1>1, <1>7, <1>8, <1>9 DEF SccOK

\* Looking at a component leaves the completion pass knowing it.
LEMMA PassVisitStep ==
  ASSUME RInv, PassVisit
  PROVE  PassOK'
<1>1. /\ InPass /\ at' = at + 1 /\ UNCHANGED numbering /\ at \in Nat /\ at >= 1
  BY DEF PassVisit, RInv, PassOK, SInv, DTyped
<1>2. CASE Completes(thy, status, numbering[at], phase = "delta")
  <2>1. PICK q : CompleteDelta(q) \/ CompletePart(q)
    BY <1>2 DEF PassVisit
  <2>2. any'
    BY <2>1 DEF CompleteDelta, CompletePart
  <2> QED
    BY <1>1, <2>2 DEF PassOK
<1>3. CASE ~ Completes(thy, status, numbering[at], phase = "delta")
  <2>1. UNCHANGED vars
    BY <1>3 DEF PassVisit
  <2>2. UNCHANGED <<thy, phase, any, delta, part>> /\ status' = status
    BY <2>1 DEF vars, status
  <2>3. ASSUME NEW i \in DOMAIN numbering, i < at + 1, ~ any
        PROVE  ~ Completes(thy, status, numbering[i], phase = "delta")
    <3>1. CASE i < at
      BY <1>1, <2>3, <3>1 DEF RInv, PassOK
    <3>2. CASE i = at
      BY <1>3, <3>2
    <3>3. PICK high : numbering = SupportNumbering(thy, high)
      BY <1>1 DEF RInv, CompiledOK, InPass
    <3>4. TheoryLits(thy)
      BY TypedTheory DEF RInv
    <3>5. \E n \in Nat : DOMAIN numbering = 1 .. n
      BY <3>3, <3>4, SupportNumberingLists
    <3> QED
      BY <1>1, <2>3, <3>1, <3>2, <3>5
  <2> QED
    BY <1>1, <2>2, <2>3 DEF PassOK
<1> QED
  BY <1>2, <1>3

\* The compiled form stays that of the theory.
LEMMA CompiledStep ==
  ASSUME RInv, DNext
  PROVE  CompiledOK'
<1>1. CASE UNCHANGED <<thy, driver, numbering, sched>> /\ (phase' \in {"delta", "part"} => phase \in {"delta", "part"})
  BY <1>1 DEF RInv, CompiledOK
<1>2. CASE DBuild
  BY <1>2 DEF DBuild, Build, AddRule, AddSup, AddFact, CompiledOK
<1>3. ASSUME NEW d \in {"sweep", "scc", "worklist"}, DCompile(d) PROVE CompiledOK'
  <2>1. thy' = thy /\ driver' = d
    BY <1>3 DEF DCompile, Compile
  <2>2. PICK high \in BOOLEAN :
          /\ numbering' = SupportNumbering(thy, high)
          /\ sched' = IF d = "scc" THEN Schedule(thy, high) ELSE <<>>
    BY <1>3 DEF DCompile
  <2> QED
    BY <2>1, <2>2 DEF CompiledOK
<1>4. CASE SweepRescan \/ SccNext \/ SweepDone
  <2>1. UNCHANGED <<thy, driver, numbering, sched, phase>>
    BY <1>4 DEF SweepRescan, SccNext, SweepDone, vars
  <2> QED
    BY <1>1, <2>1
<1>5. CASE SweepVisit \/ SccVisit \/ WorklistPop
  <2>1. PICK q : Visit(q)
    BY <1>5 DEF SweepVisit, SccVisit, WorklistPop
  <2>2. thy' = thy /\ phase' = phase
    BY <2>1, VisitTyped DEF RInv, SInv
  <2>3. UNCHANGED <<driver, numbering, sched>>
    BY <1>5 DEF SweepVisit, SccVisit, WorklistPop
  <2> QED
    BY <1>1, <2>2, <2>3
<1>6. CASE PassVisit
  <2>1. UNCHANGED <<driver, numbering, sched>>
    BY <1>6 DEF PassVisit
  <2>2. (\E q : CompleteDelta(q) \/ CompletePart(q)) \/ UNCHANGED vars
    BY <1>6 DEF PassVisit
  <2>3. thy' = thy /\ phase' = phase
    BY <2>2 DEF CompleteDelta, CompletePart, vars
  <2> QED
    BY <1>1, <2>1, <2>3
<1>7. CASE PassDone
  <2>1. UNCHANGED <<thy, driver, numbering, sched>> /\ phase \in {"delta", "part"}
    BY <1>7 DEF PassDone, InPass
  <2> QED
    BY <1>1, <2>1
<1>8. CASE DResultFree
  BY <1>8 DEF DResultFree, ResultFree, CompiledOK
<1> QED
  BY <1>2, <1>3, <1>4, <1>5, <1>6, <1>7, <1>8 DEF DNext, DSolve

\* Every step of the schedules keeps the invariant.
LEMMA RInvStep == RInv /\ [DNext]_dvars => RInv'
<1> SUFFICES ASSUME RInv, [DNext]_dvars PROVE RInv'
  OBVIOUS
<1>0. SInv' /\ TypeOK' /\ SccsOfTheory'
  <2>1. [Next]_vars
    BY StepImplements
  <2> QED
    BY <2>1, SInvStep, TypeStep, SccsStep DEF RInv
<1>1. CASE DBuild
  <2>1. ~ InSweep' /\ ~ InPass' /\ driver' = driver
    BY <1>1, BuildStep DEF RInv, DBuild, Build, AddRule, AddSup, AddFact, control, InPass
  <2>2. CompiledOK'
    BY <1>1, CompiledStep DEF DNext
  <2> QED
    BY <1>0, <2>1, <2>2 DEF RInv, SccOK, PassOK
<1>2. ASSUME NEW d \in {"sweep", "scc", "worklist"}, DCompile(d) PROVE RInv'
  <2>1. StartSweep /\ driver' = d /\ ~ InPass'
    BY <1>2 DEF DCompile, Compile, InPass
  <2>2. CompiledOK'
    BY <1>2, CompiledStep DEF DNext
  <2>3. SccOK'
    BY <1>0, <2>1, <2>2, SccStart
  <2> QED
    BY <1>0, <2>1, <2>2, <2>3 DEF RInv, PassOK
<1>3. CASE DSolve
  <2>0. CompiledOK'
    BY <1>3, CompiledStep DEF DNext
  <2>1. driver' = driver
    BY <1>3 DEF DSolve, SweepVisit, SweepRescan, SccVisit, SccNext, WorklistPop, SweepDone, PassVisit, PassDone
  <2>2. CASE SweepVisit \/ SweepRescan \/ SccVisit \/ SccNext \/ WorklistPop
    <3>1. (\E q : Visit(q)) \/ UNCHANGED vars
      BY <2>2 DEF SweepVisit, SweepRescan, SccVisit, SccNext, WorklistPop
    <3>2. pass' = pass
      BY <3>1, VisitTyped DEF RInv, SInv, vars
    <3>3. ~ InPass'
      BY <2>2, <3>2 DEF SweepVisit, SweepRescan, SccVisit, SccNext, WorklistPop, InSweep, InPass
    <3>4. SccOK'
      <4>1. CASE SccVisit
        BY <4>1, SccVisitStep
      <4>2. CASE SccNext
        BY <4>2, SccNextStep
      <4>3. CASE SweepVisit \/ SweepRescan \/ WorklistPop
        BY <2>1, <4>3 DEF SweepVisit, SweepRescan, WorklistPop, SccOK
      <4> QED
        BY <2>2, <4>1, <4>2, <4>3
    <3> QED
      BY <1>0, <2>0, <2>1, <3>3, <3>4 DEF RInv, PassOK
  <2>3. CASE SweepDone
    <3>1. at' = 1 /\ ~ InSweep'
      BY <2>3 DEF SweepDone, InSweep
    <3>2. \A i \in DOMAIN numbering' : ~ (i < 1)
      <4>1. InSweep /\ UNCHANGED <<numbering, thy>>
        BY <2>3 DEF SweepDone
      <4>2. PICK high : numbering = SupportNumbering(thy, high)
        BY <4>1 DEF RInv, CompiledOK, InSweep
      <4>3. TheoryLits(thy)
        BY TypedTheory DEF RInv
      <4>4. \E n \in Nat : DOMAIN numbering = 1 .. n
        BY <4>2, <4>3, SupportNumberingLists
      <4> QED
        BY <4>1, <4>4
    <3> QED
      BY <1>0, <2>0, <2>1, <3>1, <3>2 DEF RInv, SccOK, PassOK
  <2>4. CASE PassVisit
    <3>1. ~ InSweep'
      BY <2>4, PassStep DEF RInv
    <3>2. PassOK'
      BY <2>4, PassVisitStep
    <3> QED
      BY <1>0, <2>0, <2>1, <3>1, <3>2 DEF RInv, SccOK
  <2>5. CASE PassDone
    <3>1. StartSweep /\ ~ InPass'
      BY <2>5 DEF PassDone, InPass
    <3>2. SccOK'
      BY <1>0, <2>0, <3>1, SccStart
    <3> QED
      BY <1>0, <2>0, <2>1, <3>1, <3>2 DEF RInv, PassOK
  <2> QED
    BY <1>3, <2>2, <2>3, <2>4, <2>5 DEF DSolve
<1>4. CASE DResultFree
  <2>1. phase' = "build" /\ driver' = "sweep"
    BY <1>4 DEF DResultFree, ResultFree
  <2> QED
    BY <1>0, <2>1 DEF RInv, CompiledOK, SccOK, PassOK, InSweep, InPass
<1>5. CASE UNCHANGED dvars
  <2>1. UNCHANGED vars /\ UNCHANGED <<driver, numbering, sched, at, comp, changed>>
    BY <1>5 DEF dvars, control
  <2>2. (InSweep' <=> InSweep) /\ \A x : Decides(x)' <=> Decides(x)
    BY <2>1, VisitIdle
  <2>3. CompiledOK'
    BY <2>1 DEF RInv, CompiledOK, vars
  <2>4. SccOK'
    BY <2>1, <2>2 DEF RInv, SccOK
  <2>5. PassOK'
    BY <2>1 DEF RInv, PassOK, vars, InPass, status
  <2> QED
    BY <1>0, <2>1, <2>3, <2>4, <2>5 DEF RInv
<1> QED
  BY <1>1, <1>2, <1>3, <1>4, <1>5 DEF DNext

\* The invariant holds at the start.
LEMMA RInvInit == DInit => RInv
<1> SUFFICES ASSUME DInit PROVE RInv
  OBVIOUS
<1>1. phase = "build" /\ driver = "sweep" /\ Init
  BY DEF DInit, Init
<1> QED
  BY <1>1, SInvInit, InitType
     DEF RInv, SccsOfTheory, CompiledOK, SccOK, PassOK, InSweep, InPass

\* dl_solve, dl_solve_scc and dl_solve_wl, with complete_pass as the loop it is,
\* take only steps the open solver may take: each decision is one it may take, a
\* sweep is left at a fixpoint, a layer when nothing more can be completed.
THEOREM SchedulesAreTheSolver == DSpec => Init /\ [][Next]_vars
<1>1. DInit => Init
  BY DEF DInit
<1> QED
  BY <1>1, RInvInit, RInvStep, StepImplements, PTL DEF DSpec

\* So whichever of the three is called, the result is that of the reference.
THEOREM DriversAgree == DSpec => []Confluence
<1>1. CInv => Confluence
  BY DEF CInv, BelowReference, Confluence
<1> QED
  BY <1>1, ConfInit, ConfStep, SchedulesAreTheSolver, PTL
=============================================================================
