---------------------------- MODULE DLTheoryProofs ----------------------------
(***************************************************************************)
(* Facts about the operators of DLTheory, for every theory, every status   *)
(* and every number of atoms: what the solver proofs and the world proofs  *)
(* rest on.                                                                *)
(*                                                                         *)
(* The reference functions of DLTheory iterate a round until it changes    *)
(* nothing.  Such a limit exists and is reached: a round that changes      *)
(* anything shrinks the finite set of undecided literals, so a start from  *)
(* which it is not reached would leave a smallest counterexample.  Layer   *)
(* by layer the limit of the rounds is sound, final, and below every sound *)
(* and final status (RefDeltaLimit, RefPartLimit).  Read along the         *)
(* dependency graph, a literal that final statuses leave undecided is led  *)
(* to by an attacked cycle (DeltaStallReason, PartStallReason).            *)
(***************************************************************************)
EXTENDS DLSchedule, FiniteSetTheorems, WellFoundedInduction, TLAPS

USE DEF DL_UNDECIDED, DL_PROVED, DL_REFUTED, DL_STRICT, DL_DEFEASIBLE, DL_DEFEATER

-----------------------------------------------------------------------------
(* Literals and evaluation.                                                *)

\* idx ^ 1 stays inside the literal range and undoes itself.
LEMMA ComplLits ==
  ASSUME NEW q \in Lits
  PROVE  Compl(q) \in Lits /\ Compl(Compl(q)) = q
<1>1. NAtoms \in Nat
  BY NAtomsAssumption
<1>2. q \in Int /\ 0 <= q /\ q <= 2 * NAtoms - 1
  BY <1>1 DEF Lits
<1>3. CASE q % 2 = 0
  <2>1. PICK k \in Int : q = 2 * k
    BY <1>2, <1>3
  <2>2. q + 1 \in Lits /\ (q + 1) % 2 = 1
    BY <1>1, <1>2, <2>1 DEF Lits
  <2> QED
    BY <1>2, <1>3, <2>2 DEF Compl
<1>4. CASE q % 2 # 0
  <2>1. PICK k \in Int : q = 2 * k + 1
    BY <1>2, <1>4
  <2>2. q - 1 \in Lits /\ (q - 1) % 2 = 0
    BY <1>1, <1>2, <2>1 DEF Lits
  <2> QED
    BY <1>2, <1>4, <2>2 DEF Compl
<1> QED
  BY <1>3, <1>4

\* The evaluators return verdicts.
LEMMA EvalVerdict ==
  ASSUME NEW t, NEW d, NEW p, NEW q
  PROVE  EvalDelta(t, d, q) \in Verdict /\ EvalPart(t, d, p, q) \in Verdict
BY DEF EvalDelta, EvalPart, Verdict

\* The components of the support graph are sets of literals.
LEMMA SccsType ==
  ASSUME NEW t
  PROVE  SupportSccs(t) \in [Lits -> SUBSET Lits]
BY DEF SupportSccs

\* Completing a component yields statuses.
LEMMA CompletionType ==
  ASSUME NEW st \in Status, NEW c
  PROVE  Completion(st, c) \in Status
BY DEF Completion, Status, Verdict

-----------------------------------------------------------------------------
(* Monotonicity.  q extends p when everything p decided is decided alike.  *)

Extends(p, q) == \A x \in Lits : p[x] # DL_UNDECIDED => q[x] = p[x]

\* The rules and the facts of t are about literals.
TheoryLits(t) ==
  /\ t.facts \subseteq Lits
  /\ \A r \in DOMAIN t.rules : t.rules[r].body \subseteq Lits /\ t.rules[r].head \in Lits

\* The rules of a theory read and conclude literals.
LEMMA TheoryLitsOK ==
  ASSUME NEW t \in Theory
  PROVE  TheoryLits(t)
<1>1. t.rules \in Seq(Rule) /\ t.facts \subseteq Lits
  BY DEF Theory
<1>2. \A r \in DOMAIN t.rules : t.rules[r] \in Rule
  BY <1>1
<1>3. \A x \in Rule : x.body \subseteq Lits /\ x.head \in Lits
  BY DEF Rule
<1> QED
  BY <1>1, <1>2, <1>3 DEF TheoryLits

\* Completing a component changes undecided literals only.
LEMMA CompletionExtends ==
  ASSUME NEW st \in Status, NEW c
  PROVE  Extends(st, Completion(st, c))
BY DEF Extends, Completion

\* A rule that applies, or is discarded, stays so under every extension.
LEMMA BodyMonotone ==
  ASSUME NEW t, TheoryLits(t), NEW p \in Status, NEW q \in Status, Extends(p, q),
         NEW r \in DOMAIN t.rules
  PROVE  /\ BodyAll(t, r, p, DL_PROVED) => BodyAll(t, r, q, DL_PROVED)
         /\ BodySome(t, r, p, DL_REFUTED) => BodySome(t, r, q, DL_REFUTED)
BY DEF TheoryLits, BodyAll, BodySome, Extends

\* A valid reason to prove a literal stays valid under every extension.
LEMMA PartProvesMonotone ==
  ASSUME NEW t, TheoryLits(t), NEW d, NEW p \in Status, NEW p2 \in Status, Extends(p, p2),
         NEW q \in Lits, PartProves(t, d, p, q)
  PROVE  PartProves(t, d, p2, q)
<1>1. \A r \in DOMAIN t.rules :
        /\ Applicable(t, p, r) => Applicable(t, p2, r)
        /\ Discarded(t, p, r) => Discarded(t, p2, r)
  BY BodyMonotone DEF Applicable, Discarded
<1>2. Supported(t, p, q) => Supported(t, p2, q)
  BY <1>1 DEF Supported, SupportersOf, RulesFor
<1>3. AllAttackersCountered(t, p, q) => AllAttackersCountered(t, p2, q)
  BY <1>1 DEF AllAttackersCountered, Countered, Defenders, SupportersOf, RulesFor
<1> QED
  BY <1>2, <1>3 DEF PartProves

\* A set body cannot be all proved and have a refuted member.
LEMMA BodyConsistent ==
  ASSUME NEW t, NEW r, NEW p
  PROVE  ~ (BodyAll(t, r, p, DL_PROVED) /\ BodySome(t, r, p, DL_REFUTED))
BY DEF BodyAll, BodySome

\* A valid reason to refute a literal stays valid under every extension.
LEMMA PartSoundMonotone ==
  ASSUME NEW t, TheoryLits(t), NEW p \in Status, NEW p2 \in Status, Extends(p, p2),
         NEW q \in Lits
  PROVE  /\ NotSupported(t, p, q) => NotSupported(t, p2, q)
         /\ AttackerUncountered(t, p, q) => AttackerUncountered(t, p2, q)
<1>1. \A r \in DOMAIN t.rules :
        /\ Applicable(t, p, r) => Applicable(t, p2, r)
        /\ Discarded(t, p, r) => Discarded(t, p2, r)
  BY BodyMonotone DEF Applicable, Discarded
<1>2. NotSupported(t, p, q) => NotSupported(t, p2, q)
  BY <1>1 DEF NotSupported, SupportersOf, RulesFor
<1>3. AttackerUncountered(t, p, q) => AttackerUncountered(t, p2, q)
  BY <1>1 DEF AttackerUncountered, Defenders, SupportersOf, RulesFor
<1> QED
  BY <1>2, <1>3

-----------------------------------------------------------------------------
(* Induction over finite sets and numbers.                                 *)

\* There are finitely many literals.
LEMMA LitsFinite == IsFiniteSet(Lits)
<1>1. 0 \in Int /\ 2 * NAtoms - 1 \in Int
  BY NAtomsAssumption
<1> QED
  BY <1>1, FS_Interval DEF Lits

\* A nonempty family of subsets of a finite set has a least member.
LEMMA SmallestSet ==
  ASSUME NEW S, IsFiniteSet(S), NEW T \in SUBSET (SUBSET S), T # {}
  PROVE  \E X \in T : \A Y \in T : Y \subseteq X => Y = X
<1>1. IsWellFoundedOn(StrictSubsetOrdering(S), SUBSET S)
  BY FS_StrictSubsetOrderingWellFounded, FS_FiniteSubsetsOfFinite
<1>2. PICK X \in T : \A Y \in T : ~ (<<Y, X>> \in StrictSubsetOrdering(S))
  BY <1>1, WFMin
<1> QED
  BY <1>2 DEF StrictSubsetOrdering

\* A nonempty set of numbers has a least element.
LEMMA LeastNumber ==
  ASSUME NEW T, T \subseteq Nat, T # {}
  PROVE  \E n \in T : \A m \in T : n <= m
<1>1. PICK n \in T : \A m \in T : ~ (<<m, n>> \in OpToRel(<, Nat))
  BY NatLessThanWellFounded, WFMin
<1>2. \A m \in T : ~ (m < n)
  BY <1>1 DEF OpToRel
<1> QED
  BY <1>2

\* A nonempty set of positions has a greatest element, and it is Max.
LEMMA MaxOfPositions ==
  ASSUME NEW n \in Nat, NEW s, s \subseteq 1 .. n, s # {}
  PROVE  Max(s) \in s /\ \A x \in s : Max(s) >= x
<1> DEFINE T == {k \in Nat : \A x \in s : x <= k}
<1>1. PICK k \in T : \A m \in T : k <= m
  <2>1. n \in T
    OBVIOUS
  <2> QED
    BY <2>1, LeastNumber
<1>2. k \in s
  <2>1. SUFFICES ASSUME k \notin s PROVE FALSE
    OBVIOUS
  <2>2. PICK x \in s : TRUE
    OBVIOUS
  <2>3. k >= 1
    BY <2>2
  <2>4. k - 1 \in T
    BY <2>1, <2>3
  <2> QED
    BY <2>4, <1>1
<1>3. \E x \in s : \A y \in s : x >= y
  BY <1>2
<1> QED
  BY <1>3 DEF Max

-----------------------------------------------------------------------------
(* Folds over finite sets.                                                 *)

\* What holds of the empty set, and of a set once it holds without some element of
\* it, holds of every subset of a finite set.
LEMMA SubsetInduction ==
  ASSUME NEW S, IsFiniteSet(S), NEW T, {} \in T,
         \A s \in SUBSET S : s # {} => \E x \in s : s \ {x} \in T => s \in T
  PROVE  \A s \in SUBSET S : s \in T
<1> DEFINE Bad == {s \in SUBSET S : s \notin T}
<1>1. SUFFICES ASSUME Bad # {} PROVE FALSE
  OBVIOUS
<1>2. PICK s \in Bad : \A y \in Bad : y \subseteq s => y = s
  <2>1. Bad \in SUBSET (SUBSET S)
    OBVIOUS
  <2> HIDE DEF Bad
  <2> QED
    BY <1>1, <2>1, SmallestSet
<1>3. s \in SUBSET S /\ s # {} /\ s \notin T
  OBVIOUS
<1>4. PICK x \in s : s \ {x} \in T => s \in T
  BY <1>3
<1>5. s \ {x} \in SUBSET S /\ s \ {x} \subseteq s /\ s \ {x} # s
  BY <1>3
<1>6. s \ {x} \in Bad
  BY <1>3, <1>4, <1>5
<1> QED
  BY <1>2, <1>5, <1>6

\* h folds step over the subsets of S, taking the element c chooses last.
IsFold(h, S, c, base, step) ==
  /\ h = [s \in SUBSET S |-> h[s]]
  /\ \A s \in SUBSET S : h[s] = IF s = {} THEN base ELSE step[<<c[s], h[s \ {c[s]}]>>]

\* c chooses an element of every nonempty subset of S.
Chooses(c, S) == \A s \in SUBSET S : s # {} => c[s] \in s

\* Two folds agree where they are both defined.
LEMMA FoldsAgree ==
  ASSUME NEW S, NEW S1, NEW S2, IsFiniteSet(S), S \subseteq S1, S \subseteq S2, NEW c, Chooses(c, S),
         NEW base, NEW step, NEW h1, IsFold(h1, S1, c, base, step), NEW h2, IsFold(h2, S2, c, base, step)
  PROVE  \A s \in SUBSET S : h1[s] = h2[s]
<1> DEFINE T == {s \in SUBSET S : h1[s] = h2[s]}
<1>1. {} \in T
  BY DEF IsFold
<1>2. ASSUME NEW s \in SUBSET S, s # {} PROVE \E x \in s : s \ {x} \in T => s \in T
  <2>1. c[s] \in s
    BY <1>2 DEF Chooses
  <2>2. h1[s] = step[<<c[s], h1[s \ {c[s]}]>>] /\ h2[s] = step[<<c[s], h2[s \ {c[s]}]>>]
    BY <1>2 DEF IsFold
  <2> QED
    BY <2>1, <2>2
<1>3. \A s \in SUBSET S : s \in T
  <2> HIDE DEF T
  <2> QED
    BY <1>1, <1>2, SubsetInduction
<1> QED
  BY <1>3

\* So do a fold over a set and the one over a part of it.
LEMMA FoldsMeet ==
  ASSUME NEW s, NEW u, u \subseteq s, IsFiniteSet(u), NEW c, Chooses(c, u), NEW base, NEW step,
         NEW h, IsFold(h, s, c, base, step), NEW g, IsFold(g, u, c, base, step)
  PROVE  h[u] = g[u]
<1>1. u \subseteq u
  OBVIOUS
<1> QED
  BY <1>1, FoldsAgree

\* A fold stays where its base and its steps are.
LEMMA FoldType ==
  ASSUME NEW S, IsFiniteSet(S), NEW c, Chooses(c, S), NEW V, NEW base \in V, NEW step \in [S \X V -> V],
         NEW h, IsFold(h, S, c, base, step)
  PROVE  \A s \in SUBSET S : h[s] \in V
<1> DEFINE T == {s \in SUBSET S : h[s] \in V}
<1>1. {} \in T
  BY DEF IsFold
<1>2. ASSUME NEW s \in SUBSET S, s # {} PROVE \E x \in s : s \ {x} \in T => s \in T
  <2>1. c[s] \in s /\ c[s] \in S
    BY <1>2 DEF Chooses
  <2>2. h[s] = step[<<c[s], h[s \ {c[s]}]>>]
    BY <1>2 DEF IsFold
  <2> QED
    BY <2>1, <2>2
<1>3. \A s \in SUBSET S : s \in T
  <2> HIDE DEF T
  <2> QED
    BY <1>1, <1>2, SubsetInduction
<1> QED
  BY <1>3

\* There is a fold over every finite set.
LEMMA FoldExists ==
  ASSUME NEW S0, IsFiniteSet(S0), NEW c, Chooses(c, S0), NEW base, NEW step
  PROVE  \E h : IsFold(h, S0, c, base, step)
<1> DEFINE Bad == {S \in SUBSET S0 : ~ \E h : IsFold(h, S, c, base, step)}
<1>1. SUFFICES ASSUME Bad # {} PROVE FALSE
  OBVIOUS
<1>2. PICK S \in Bad : \A y \in Bad : y \subseteq S => y = S
  <2>1. Bad \in SUBSET (SUBSET S0)
    OBVIOUS
  <2> HIDE DEF Bad
  <2> QED
    BY <1>1, <2>1, SmallestSet
<1>3. S \in SUBSET S0 /\ ~ \E h : IsFold(h, S, c, base, step)
  OBVIOUS
<1> DEFINE Sub(s) == CHOOSE h : IsFold(h, s, c, base, step)
           F == [s \in SUBSET S |-> IF s = {} THEN base ELSE step[<<c[s], Sub(s \ {c[s]})[s \ {c[s]}]>>]]
<1>4. ASSUME NEW s \in SUBSET S, s # S PROVE IsFold(Sub(s), s, c, base, step)
  <2>1. s \notin Bad
    BY <1>2, <1>4
  <2>2. \E h : IsFold(h, s, c, base, step)
    BY <2>1, <1>3
  <2> QED
    BY <2>2
<1> HIDE DEF Bad
<1>5. ASSUME NEW s \in SUBSET S, s # S PROVE Sub(s)[s] = F[s]
  <2>1. IsFold(Sub(s), s, c, base, step)
    BY <1>4, <1>5
  <2> HIDE DEF Sub
  <2>2. Sub(s)[s] = IF s = {} THEN base ELSE step[<<c[s], Sub(s)[s \ {c[s]}]>>]
    BY <2>1 DEF IsFold
  <2>3. CASE s = {}
    BY <2>2, <2>3
  <2>4. CASE s # {}
    <3> DEFINE u == s \ {c[s]}
    <3>1. c[s] \in s
      BY <1>3, <2>4 DEF Chooses
    <3>2. u \in SUBSET S /\ u # S /\ u \subseteq s
      BY <3>1
    <3>3. IsFold(Sub(u), u, c, base, step)
      BY <1>4, <3>2 DEF Sub
    <3>4. IsFiniteSet(u) /\ Chooses(c, u)
      BY <1>3, <3>2, FS_Subset DEF Chooses
    <3> HIDE DEF Sub, u
    <3>5. Sub(s)[u] = Sub(u)[u]
      BY <2>1, <3>2, <3>3, <3>4, FoldsMeet
    <3> QED
      BY <2>2, <2>4, <3>5 DEF u
  <2> QED
    BY <2>3, <2>4
<1>6. IsFold(F, S, c, base, step)
  <2>1. F = [s \in SUBSET S |-> F[s]]
    OBVIOUS
  <2>2. ASSUME NEW s \in SUBSET S, s # {} PROVE F[s] = step[<<c[s], F[s \ {c[s]}]>>]
    <3>1. c[s] \in s
      BY <1>3, <2>2 DEF Chooses
    <3>2. s \ {c[s]} \in SUBSET S /\ s \ {c[s]} # S
      BY <3>1
    <3>3. Sub(s \ {c[s]})[s \ {c[s]}] = F[s \ {c[s]}]
      BY <1>5, <3>2
    <3>4. F[s] = step[<<c[s], Sub(s \ {c[s]})[s \ {c[s]}]>>]
      BY <2>2
    <3> QED
      BY <3>3, <3>4
  <2>3. F[{}] = base
    OBVIOUS
  <2> HIDE DEF F
  <2> QED
    BY <2>1, <2>2, <2>3 DEF IsFold
<1> QED
  BY <1>3, <1>6

-----------------------------------------------------------------------------
(* Rounds.  The reference functions iterate a round until it changes       *)
(* nothing; a round that changes anything decides a literal, so they stop. *)

\* A set closed under one iteration of nx.
ClosedUnderRound(nx, S) == \A x \in S : nx[x] \in S

\* The elements of D that iterating nx leads to from d.
Iterates(D, nx, d) ==
  {v \in D : \A S \in SUBSET D : d \in S /\ ClosedUnderRound(nx, S) => v \in S}

\* G iterates nx until it changes nothing.
IsLimit(D, nx, G) == G = [d \in D |-> IF nx[d] = d THEN d ELSE G[nx[d]]]

\* Where iterations lead from d, or from one iteration later.
LEMMA IteratesUnfold ==
  ASSUME NEW D, NEW nx \in [D -> D], NEW d \in D
  PROVE  Iterates(D, nx, d) = {d} \cup Iterates(D, nx, nx[d])
<1>1. d \in Iterates(D, nx, d)
  BY DEF Iterates
<1>2. Iterates(D, nx, nx[d]) \subseteq Iterates(D, nx, d)
  BY DEF Iterates, ClosedUnderRound
<1>3. ASSUME NEW v \in Iterates(D, nx, d) PROVE v \in {d} \cup Iterates(D, nx, nx[d])
  <2> DEFINE S == {d} \cup Iterates(D, nx, nx[d])
  <2>1. nx[d] \in D
    OBVIOUS
  <2>2. S \in SUBSET D /\ d \in S
    BY DEF Iterates
  <2>3. nx[d] \in Iterates(D, nx, nx[d])
    BY <2>1 DEF Iterates
  <2>4. \A x \in Iterates(D, nx, nx[d]) : nx[x] \in Iterates(D, nx, nx[d])
    BY DEF Iterates, ClosedUnderRound
  <2>5. ClosedUnderRound(nx, S)
    BY <2>3, <2>4 DEF ClosedUnderRound
  <2> QED
    BY <2>2, <2>5 DEF Iterates
<1> QED
  BY <1>1, <1>2, <1>3

\* A limit function exists for every nx.
LEMMA LimitExists ==
  ASSUME NEW D, NEW nx \in [D -> D]
  PROVE  \E G : IsLimit(D, nx, G)
<1> DEFINE Fix(d) == {v \in Iterates(D, nx, d) : nx[v] = v}
<1> DEFINE G == [d \in D |-> CHOOSE v : v \in Fix(d)]
<1>1. ASSUME NEW d \in D
      PROVE  G[d] = IF nx[d] = d THEN d ELSE G[nx[d]]
  <2>1. nx[d] \in D
    OBVIOUS
  <2>2. Iterates(D, nx, d) = {d} \cup Iterates(D, nx, nx[d])
    BY IteratesUnfold
  <2>3. CASE nx[d] = d
    <3>1. {d} \in SUBSET D /\ ClosedUnderRound(nx, {d})
      BY <2>3 DEF ClosedUnderRound
    <3>2. Iterates(D, nx, d) \subseteq {d}
      BY <3>1 DEF Iterates
    <3>3. Fix(d) = {d}
      BY <2>2, <2>3, <3>2
    <3>4. G[d] = CHOOSE v : v \in {d}
      BY <3>3
    <3> QED
      BY <2>3, <3>4
  <2>4. CASE nx[d] # d
    <3>1. Fix(d) = Fix(nx[d])
      BY <2>2, <2>4
    <3> QED
      BY <2>1, <2>4, <3>1
  <2> QED
    BY <2>3, <2>4
<1> HIDE DEF Fix
<1>2. G = [d \in D |-> IF nx[d] = d THEN d ELSE G[nx[d]]]
  <2> DEFINE H == [d \in D |-> IF nx[d] = d THEN d ELSE G[nx[d]]]
  <2>1. \A d \in D : G[d] = H[d]
    BY <1>1
  <2>2. G = [d \in D |-> G[d]] /\ H = [d \in D |-> H[d]]
    OBVIOUS
  <2> QED
    BY <2>1, <2>2
<1> QED
  BY <1>2 DEF IsLimit

\* When every iteration that changes anything shrinks a finite measure, the limit
\* is reached, and no iteration changes it.
LEMMA LimitReached ==
  ASSUME NEW D, NEW nx \in [D -> D], NEW S, IsFiniteSet(S), NEW m \in [D -> SUBSET S],
         \A d \in D : m[nx[d]] \subseteq m[d] /\ (m[nx[d]] = m[d] => nx[d] = d),
         NEW G, IsLimit(D, nx, G), NEW d0 \in D
  PROVE  G[d0] \in Iterates(D, nx, d0) /\ nx[G[d0]] = G[d0]
<1> DEFINE Good(d) == G[d] \in Iterates(D, nx, d) /\ nx[G[d]] = G[d]
<1> DEFINE Bad == {d \in D : ~ Good(d)}
<1> DEFINE T == {m[d] : d \in Bad}
<1> SUFFICES ASSUME Bad # {} PROVE FALSE
  OBVIOUS
<1> HIDE DEF Good
<1>1. T \in SUBSET (SUBSET S) /\ T # {}
  <2>1. \A d \in Bad : m[d] \in SUBSET S
    OBVIOUS
  <2> HIDE DEF Bad
  <2>2. PICK d \in Bad : TRUE
    OBVIOUS
  <2>3. m[d] \in T
    OBVIOUS
  <2> QED
    BY <2>1, <2>3
<1>2. \E X \in T : \A Y \in T : Y \subseteq X => Y = X
  <2> HIDE DEF T
  <2> QED
    BY <1>1, SmallestSet
<1>3. PICK d \in Bad : \A Y \in T : Y \subseteq m[d] => Y = m[d]
  <2>1. PICK X \in T : \A Y \in T : Y \subseteq X => Y = X
    BY <1>2
  <2> HIDE DEF Bad
  <2>2. PICK d \in Bad : X = m[d]
    OBVIOUS
  <2> QED
    BY <2>1, <2>2
<1>4. d \in D /\ ~ Good(d)
  BY <1>3
<1>5. G[d] = IF nx[d] = d THEN d ELSE G[nx[d]]
  BY <1>4 DEF IsLimit
<1>6. Iterates(D, nx, d) = {d} \cup Iterates(D, nx, nx[d])
  BY <1>4, IteratesUnfold
<1>7. nx[d] # d
  BY <1>4, <1>5, <1>6 DEF Good
<1>8. nx[d] \in D
  BY <1>4
<1>9. ~ Good(nx[d])
  BY <1>4, <1>5, <1>6, <1>7 DEF Good
<1>10. m[nx[d]] \in T
  BY <1>8, <1>9
<1> QED
  BY <1>3, <1>4, <1>7, <1>10

UndecidedIn(d) == {q \in Lits : d[q] = DL_UNDECIDED}

\* A round that only decides undecided literals is iterated to a status no round
\* changes: the undecided literals cannot shrink for ever.
LEMMA StatusLimit ==
  ASSUME NEW nx \in [Status -> Status], \A d \in Status : Extends(d, nx[d]),
         NEW G, IsLimit(Status, nx, G), NEW d0 \in Status
  PROVE  G[d0] \in Iterates(Status, nx, d0) /\ nx[G[d0]] = G[d0]
<1> DEFINE m == [d \in Status |-> UndecidedIn(d)]
<1>1. m \in [Status -> SUBSET Lits]
  BY DEF UndecidedIn
<1>2. ASSUME NEW d \in Status
      PROVE  m[nx[d]] \subseteq m[d] /\ (m[nx[d]] = m[d] => nx[d] = d)
  <2>1. nx[d] \in Status /\ Extends(d, nx[d])
    OBVIOUS
  <2>2. UndecidedIn(nx[d]) \subseteq UndecidedIn(d)
    BY <2>1 DEF UndecidedIn, Extends
  <2>3. ASSUME UndecidedIn(nx[d]) = UndecidedIn(d) PROVE nx[d] = d
    <3>1. \A x \in Lits : nx[d][x] = d[x]
      BY <2>1, <2>3 DEF UndecidedIn, Extends
    <3>2. d \in [Lits -> Verdict] /\ nx[d] \in [Lits -> Verdict]
      BY <2>1 DEF Status
    <3> QED
      BY <3>1, <3>2
  <2> QED
    BY <2>1, <2>2, <2>3
<1> HIDE DEF m
<1> QED
  BY <1>1, <1>2, LitsFinite, LimitReached

-----------------------------------------------------------------------------
(* The definite layer, for any theory and any statuses.                    *)

\* Sound definite statuses: what DInv says of delta.
DeltaFine(t, d) ==
  /\ d \in Status
  /\ \A q \in Lits : d[q] = DL_PROVED => DeltaProves(t, d, q)
  /\ \A q \in Lits : d[q] = DL_REFUTED =>
       q \notin t.facts /\ \A r \in StrictFor(t, q) : BodySome(t, r, d, DL_REFUTED)
  /\ \A S \in SUBSET Lits : ClosedUnderStrict(t, S) =>
       \A q \in Lits : d[q] = DL_PROVED => q \in S

NoDeltaProof(t, d) == \A q \in Lits : d[q] = DL_UNDECIDED => ~ DeltaProves(t, d, q)

\* Nothing can be decided and no component completed.
DeltaStops(t, sccs, d) ==
  /\ \A q \in Lits : d[q] = DL_UNDECIDED => EvalDelta(t, d, q) = DL_UNDECIDED
  /\ \A q \in Lits : ~ Completes(t, d, sccs[q], TRUE)

\* One step: what it decides it has a reason for.
DeltaMove(t, d, d2) ==
  /\ d2 \in Status
  /\ Extends(d, d2)
  /\ \A q \in Lits : d[q] = DL_UNDECIDED =>
       /\ d2[q] = DL_PROVED => DeltaProves(t, d, q)
       /\ d2[q] = DL_REFUTED =>
            q \notin t.facts /\ \A r \in StrictFor(t, q) : BodySome(t, r, d2, DL_REFUTED)

\* Reasons in the definite layer survive an extension.
LEMMA DeltaReasonsKept ==
  ASSUME NEW t, TheoryLits(t), NEW d \in Status, NEW d2 \in Status, Extends(d, d2), NEW q \in Lits
  PROVE  /\ DeltaProves(t, d, q) => DeltaProves(t, d2, q)
         /\ (\A r \in StrictFor(t, q) : BodySome(t, r, d, DL_REFUTED))
              => \A r \in StrictFor(t, q) : BodySome(t, r, d2, DL_REFUTED)
<1>1. \A r \in DOMAIN t.rules :
        /\ BodyAll(t, r, d, DL_PROVED) => BodyAll(t, r, d2, DL_PROVED)
        /\ BodySome(t, r, d, DL_REFUTED) => BodySome(t, r, d2, DL_REFUTED)
  BY BodyMonotone
<1> QED
  BY <1>1 DEF DeltaProves, StrictFor, RulesFor

\* A step keeps definite statuses sound.
LEMMA DeltaMoveFine ==
  ASSUME NEW t, TheoryLits(t), NEW d, NEW d2, DeltaFine(t, d), DeltaMove(t, d, d2)
  PROVE  DeltaFine(t, d2)
<1>0. d \in Status /\ d2 \in Status /\ Extends(d, d2)
  BY DEF DeltaFine, DeltaMove
<1>1. \A q \in Lits : d[q] # DL_UNDECIDED => d2[q] = d[q]
  BY <1>0 DEF Extends
<1>2. ASSUME NEW q \in Lits, d2[q] = DL_PROVED PROVE DeltaProves(t, d, q)
  BY <1>1, <1>2 DEF DeltaFine, DeltaMove
<1>3. ASSUME NEW q \in Lits, d2[q] = DL_PROVED PROVE DeltaProves(t, d2, q)
  BY <1>0, <1>2, <1>3, DeltaReasonsKept
<1>4. ASSUME NEW q \in Lits, d2[q] = DL_REFUTED
      PROVE  q \notin t.facts /\ \A r \in StrictFor(t, q) : BodySome(t, r, d2, DL_REFUTED)
  <2>1. CASE d[q] = DL_UNDECIDED
    BY <1>4, <2>1 DEF DeltaMove
  <2>2. CASE d[q] # DL_UNDECIDED
    BY <1>0, <1>1, <1>4, <2>2, DeltaReasonsKept DEF DeltaFine
  <2> QED
    BY <2>1, <2>2
<1>5. ASSUME NEW S \in SUBSET Lits, ClosedUnderStrict(t, S), NEW q \in Lits, d2[q] = DL_PROVED
      PROVE  q \in S
  <2>1. DeltaProves(t, d, q)
    BY <1>2, <1>5
  <2>2. \A b \in Lits : d[b] = DL_PROVED => b \in S
    BY <1>5 DEF DeltaFine
  <2>3. CASE q \in t.facts
    BY <1>5, <2>3 DEF ClosedUnderStrict
  <2>4. ASSUME NEW r \in StrictFor(t, q), BodyAll(t, r, d, DL_PROVED) PROVE q \in S
    <3>1. r \in DOMAIN t.rules /\ t.rules[r].kind = DL_STRICT /\ t.rules[r].head = q
      BY <2>4 DEF StrictFor, RulesFor
    <3>2. t.rules[r].body \subseteq S
      BY <2>2, <2>4, <3>1 DEF TheoryLits, BodyAll
    <3> QED
      BY <1>5, <3>1, <3>2 DEF ClosedUnderStrict
  <2> QED
    BY <2>1, <2>3, <2>4 DEF DeltaProves
<1> QED
  BY <1>0, <1>3, <1>4, <1>5 DEF DeltaFine

\* In an unblocked component of a settled layer every rule of an undecided member
\* reads a literal that is refuted already or refuted with it.
LEMMA DeltaLoopReason ==
  ASSUME NEW t, TheoryLits(t), NEW d \in Status, NoDeltaProof(t, d),
         NEW c, ~ BlockedScc(t, d, c, TRUE),
         NEW x \in Lits, x \in c, d[x] = DL_UNDECIDED, NEW r \in StrictFor(t, x)
  PROVE  \E b \in t.rules[r].body :
           b \in Lits /\ (d[b] = DL_REFUTED \/ (d[b] = DL_UNDECIDED /\ b \in c))
<1>1. r \in DOMAIN t.rules /\ ~ BodyAll(t, r, d, DL_PROVED)
  BY DEF NoDeltaProof, DeltaProves, StrictFor, RulesFor
<1>2. PICK b \in t.rules[r].body : d[b] # DL_PROVED
  BY <1>1 DEF BodyAll
<1>3. b \in Lits
  BY <1>1 DEF TheoryLits
<1>4. r \in LayerSupport(t, x, TRUE)
  BY DEF LayerSupport
<1>5. d[b] = DL_UNDECIDED => b \in c
  BY <1>2, <1>4 DEF BlockedScc
<1>6. d[b] \in Verdict
  BY <1>3 DEF Status
<1> QED
  BY <1>2, <1>3, <1>5, <1>6 DEF Verdict

\* One set of literals for every literal.
AreSccs(sccs) == sccs \in [Lits -> SUBSET Lits]

DeltaCompletes(t, d, c) == Completes(t, d, c, TRUE)

DeltaSwept(t, d) == [q \in Lits |-> IF d[q] = DL_UNDECIDED THEN EvalDelta(t, d, q) ELSE d[q]]
DeltaLoops(t, sccs, d) == UNION {sccs[q] : q \in {x \in Lits : Completes(t, d, sccs[x], TRUE)}}

\* A round yields statuses and keeps what was decided.
LEMMA DeltaRoundExtends ==
  ASSUME NEW t, NEW sccs, NEW d \in Status
  PROVE  DeltaRound(t, sccs, d) \in Status /\ Extends(d, DeltaRound(t, sccs, d))
<1>1. DeltaSwept(t, d) \in Status /\ Extends(d, DeltaSwept(t, d))
  BY EvalVerdict DEF DeltaSwept, Status, Extends
<1>2. \A c : Completion(d, c) \in Status /\ Extends(d, Completion(d, c))
  BY CompletionType, CompletionExtends
<1>3. DeltaRound(t, sccs, d) \in {DeltaSwept(t, d), Completion(d, DeltaLoops(t, sccs, d))}
  BY DEF DeltaRound, DeltaSwept, DeltaLoops
<1> QED
  BY <1>1, <1>2, <1>3

\* A round that completes components did so over a settled layer.
LEMMA DeltaRoundCases ==
  ASSUME NEW t, NEW sccs, NEW d \in Status
  PROVE  \/ DeltaRound(t, sccs, d) = DeltaSwept(t, d)
         \/ /\ DeltaRound(t, sccs, d) = Completion(d, DeltaLoops(t, sccs, d))
            /\ \A q \in Lits : d[q] = DL_UNDECIDED => EvalDelta(t, d, q) = DL_UNDECIDED
<1>1. CASE DeltaSwept(t, d) # d
  BY <1>1 DEF DeltaRound, DeltaSwept
<1>2. CASE DeltaSwept(t, d) = d
  <2>1. DeltaRound(t, sccs, d) = Completion(d, DeltaLoops(t, sccs, d))
    BY <1>2 DEF DeltaRound, DeltaSwept, DeltaLoops
  <2>2. \A q \in Lits : d[q] = IF d[q] = DL_UNDECIDED THEN EvalDelta(t, d, q) ELSE d[q]
    BY <1>2 DEF DeltaSwept
  <2> QED
    BY <2>1, <2>2
<1> QED
  BY <1>1, <1>2

\* A status no round changes leaves nothing to do.
LEMMA DeltaRoundStops ==
  ASSUME NEW t, NEW sccs, AreSccs(sccs), NEW d \in Status, DeltaRound(t, sccs, d) = d
  PROVE  DeltaStops(t, sccs, d)
<1>1. DeltaSwept(t, d) = d
  BY DEF DeltaRound, DeltaSwept
<1>2. \A q \in Lits : d[q] = IF d[q] = DL_UNDECIDED THEN EvalDelta(t, d, q) ELSE d[q]
  BY <1>1 DEF DeltaSwept
<1>3. Completion(d, DeltaLoops(t, sccs, d)) = d
  BY <1>1 DEF DeltaRound, DeltaSwept, DeltaLoops
<1>4. ASSUME NEW q \in Lits, Completes(t, d, sccs[q], TRUE) PROVE FALSE
  <2>1. PICK m \in sccs[q] : d[m] = DL_UNDECIDED
    BY <1>4 DEF Completes
  <2>2. m \in Lits /\ m \in DeltaLoops(t, sccs, d)
    BY <1>4, <2>1 DEF DeltaLoops, AreSccs
  <2>3. Completion(d, DeltaLoops(t, sccs, d))[m] = DL_REFUTED
    BY <2>1, <2>2 DEF Completion
  <2> QED
    BY <1>3, <2>1, <2>3
<1> QED
  BY <1>2, <1>4 DEF DeltaStops

\* A round is a step with reasons.
LEMMA DeltaRoundMoves ==
  ASSUME NEW t, TheoryLits(t), NEW sccs, NEW d \in Status
  PROVE  DeltaMove(t, d, DeltaRound(t, sccs, d))
<1> DEFINE d2 == DeltaRound(t, sccs, d)
<1>1. d2 \in Status /\ Extends(d, d2)
  BY DeltaRoundExtends
<1>2. CASE d2 = DeltaSwept(t, d)
  <2> SUFFICES ASSUME NEW q \in Lits, d[q] = DL_UNDECIDED
      PROVE  /\ d2[q] = DL_PROVED => DeltaProves(t, d, q)
             /\ d2[q] = DL_REFUTED =>
                  q \notin t.facts /\ \A r \in StrictFor(t, q) : BodySome(t, r, d2, DL_REFUTED)
    BY <1>1 DEF DeltaMove
  <2>1. d2[q] = EvalDelta(t, d, q)
    BY <1>2 DEF DeltaSwept
  <2> HIDE DEF d2
  <2>2. d2[q] = DL_REFUTED =>
          q \notin t.facts /\ \A r \in StrictFor(t, q) : BodySome(t, r, d, DL_REFUTED)
    BY <2>1 DEF EvalDelta, DeltaRefutes, DeltaProves
  <2>3. d2[q] = DL_PROVED => DeltaProves(t, d, q)
    BY <2>1 DEF EvalDelta
  <2> QED
    BY <1>1, <2>2, <2>3, DeltaReasonsKept
<1>3. CASE /\ d2 = Completion(d, DeltaLoops(t, sccs, d))
           /\ \A q \in Lits : d[q] = DL_UNDECIDED => EvalDelta(t, d, q) = DL_UNDECIDED
  <2>1. NoDeltaProof(t, d)
    BY <1>3 DEF NoDeltaProof, EvalDelta
  <2>2. \A q \in Lits : d2[q] = IF q \in DeltaLoops(t, sccs, d) /\ d[q] = DL_UNDECIDED
                               THEN DL_REFUTED ELSE d[q]
    BY <1>3 DEF Completion
  <2> HIDE DEF d2
  <2> SUFFICES ASSUME NEW q \in Lits, d[q] = DL_UNDECIDED, d2[q] = DL_REFUTED
      PROVE  q \notin t.facts /\ \A r \in StrictFor(t, q) : BodySome(t, r, d2, DL_REFUTED)
    BY <1>1, <2>2 DEF DeltaMove, d2
  <2>3. PICK x \in Lits : Completes(t, d, sccs[x], TRUE) /\ q \in sccs[x]
    BY <2>2 DEF DeltaLoops
  <2>4. q \notin t.facts
    BY <2>1 DEF NoDeltaProof, DeltaProves
  <2>5. ASSUME NEW r \in StrictFor(t, q) PROVE BodySome(t, r, d2, DL_REFUTED)
    <3>1. ~ BlockedScc(t, d, sccs[x], TRUE)
      BY <2>3 DEF Completes
    <3>2. PICK b \in t.rules[r].body :
            b \in Lits /\ (d[b] = DL_REFUTED \/ (d[b] = DL_UNDECIDED /\ b \in sccs[x]))
      BY <2>1, <2>3, <3>1, DeltaLoopReason
    <3>3. b \in sccs[x] => b \in DeltaLoops(t, sccs, d)
      BY <2>3 DEF DeltaLoops
    <3>4. d2[b] = DL_REFUTED
      BY <2>2, <3>2, <3>3
    <3> QED
      BY <3>4 DEF BodySome
  <2> QED
    BY <2>4, <2>5
<1> QED
  BY <1>2, <1>3, DeltaRoundCases

\* A literal decided by evaluation below a final status has that verdict in it.
LEMMA DeltaDecisionAgrees ==
  ASSUME NEW t, TheoryLits(t), NEW sccs, NEW d \in Status, NEW D, DeltaFine(t, D),
         DeltaStops(t, sccs, D), Extends(d, D), NEW q \in Lits,
         EvalDelta(t, d, q) # DL_UNDECIDED
  PROVE  D[q] = EvalDelta(t, d, q)
<1>0. D \in Status
  BY DEF DeltaFine
<1>1. DeltaProves(t, d, q) => DeltaProves(t, D, q)
  BY <1>0, DeltaReasonsKept
<1>2. (\A r \in StrictFor(t, q) : BodySome(t, r, d, DL_REFUTED))
        => \A r \in StrictFor(t, q) : BodySome(t, r, D, DL_REFUTED)
  BY <1>0, DeltaReasonsKept
<1>3. (\A r \in StrictFor(t, q) : BodySome(t, r, D, DL_REFUTED)) /\ q \notin t.facts
        => ~ DeltaProves(t, D, q)
  BY BodyConsistent DEF DeltaProves
<1>4. D[q] \in Verdict
  BY <1>0 DEF Status
<1>5. CASE DeltaProves(t, d, q)
  <2>1. EvalDelta(t, d, q) = DL_PROVED /\ EvalDelta(t, D, q) = DL_PROVED
    BY <1>1, <1>5 DEF EvalDelta
  <2>2. D[q] # DL_UNDECIDED
    BY <2>1 DEF DeltaStops
  <2>3. D[q] # DL_REFUTED
    BY <1>1, <1>3, <1>5 DEF DeltaFine
  <2> QED
    BY <1>4, <2>1, <2>2, <2>3 DEF Verdict
<1>6. CASE ~ DeltaProves(t, d, q) /\ DeltaRefutes(t, d, q)
  <2>1. EvalDelta(t, d, q) = DL_REFUTED
    BY <1>6 DEF EvalDelta
  <2>2. q \notin t.facts /\ \A r \in StrictFor(t, q) : BodySome(t, r, D, DL_REFUTED)
    BY <1>2, <1>6 DEF DeltaRefutes, DeltaProves
  <2>3. D[q] # DL_PROVED
    BY <1>3, <2>2 DEF DeltaFine
  <2>4. EvalDelta(t, D, q) = DL_REFUTED
    BY <1>3, <2>2 DEF EvalDelta, DeltaRefutes
  <2>5. D[q] # DL_UNDECIDED
    BY <2>4 DEF DeltaStops
  <2> QED
    BY <1>4, <2>1, <2>3, <2>5 DEF Verdict
<1> QED
  BY <1>5, <1>6 DEF EvalDelta

\* A final status is one the completion of components finds settled.
LEMMA DeltaStopsSettled ==
  ASSUME NEW t, NEW sccs, NEW D, DeltaStops(t, sccs, D)
  PROVE  NoDeltaProof(t, D) /\ \A q \in Lits : ~ DeltaCompletes(t, D, sccs[q])
BY DEF DeltaStops, NoDeltaProof, EvalDelta, DeltaCompletes

\* A member completed below a final status is refuted in it: were some members
\* proved, what is proved without them would still be closed under the strict
\* rules, and the final status proves no more than any closed set holds.
LEMMA DeltaCompletionAgrees ==
  ASSUME NEW t, TheoryLits(t), NEW sccs, AreSccs(sccs), NEW d \in Status, NEW D,
         DeltaFine(t, D), NoDeltaProof(t, D), \A q \in Lits : ~ DeltaCompletes(t, D, sccs[q]),
         Extends(d, D), NoDeltaProof(t, d)
  PROVE  \A q, x \in Lits :
           DeltaCompletes(t, d, sccs[q]) /\ x \in sccs[q] /\ d[x] = DL_UNDECIDED
             => D[x] = DL_REFUTED
<1> SUFFICES ASSUME NEW q \in Lits, NEW x \in Lits, Completes(t, d, sccs[q], TRUE),
                    x \in sccs[q], d[x] = DL_UNDECIDED
             PROVE  D[x] = DL_REFUTED
  BY DEF DeltaCompletes
<1> DEFINE c == sccs[q]
<1>0. D \in Status /\ c \in SUBSET Lits /\ x \in Lits /\ TheoryLits(t)
  BY TheoryLitsOK DEF DeltaFine, AreSccs
<1>1. CyclicScc(t, c) /\ ~ AttackedScc(t, c) /\ ~ BlockedScc(t, d, c, TRUE)
  BY DEF Completes
<1>2. ~ BlockedScc(t, D, c, TRUE)
  <2> SUFFICES ASSUME NEW m \in c, NEW r \in LayerSupport(t, m, TRUE),
                      NEW b \in t.rules[r].body, b \notin c, D[b] = DL_UNDECIDED
               PROVE  FALSE
    BY DEF BlockedScc
  <2>1. b \in Lits
    BY <1>0 DEF LayerSupport, StrictFor, RulesFor, TheoryLits
  <2>2. d[b] = DL_UNDECIDED
    BY <2>1 DEF Extends
  <2> QED
    BY <1>1, <2>2 DEF BlockedScc
<1>3. \A m \in c : D[m] # DL_UNDECIDED
  BY <1>1, <1>2 DEF DeltaCompletes, Completes
<1> DEFINE X == {m \in c : d[m] = DL_UNDECIDED /\ D[m] = DL_PROVED}
<1> DEFINE S == {m \in Lits : D[m] = DL_PROVED /\ m \notin X}
<1>4. \A m \in Lits : DeltaProves(t, D, m) => D[m] = DL_PROVED
  <2> TAKE m \in Lits
  <2>1. D[m] = DL_UNDECIDED => ~ DeltaProves(t, D, m)
    BY DEF NoDeltaProof
  <2>2. D[m] = DL_REFUTED => ~ DeltaProves(t, D, m)
    BY BodyConsistent DEF DeltaFine, DeltaProves
  <2>3. D[m] \in Verdict
    BY <1>0 DEF Status
  <2> QED
    BY <2>1, <2>2, <2>3 DEF Verdict
<1>5. t.facts \subseteq S
  <2> SUFFICES ASSUME NEW f \in t.facts PROVE f \in S
    OBVIOUS
  <2>1. f \in Lits
    BY <1>0 DEF TheoryLits
  <2>2. DeltaProves(t, D, f) /\ DeltaProves(t, d, f)
    BY DEF DeltaProves
  <2> QED
    BY <1>4, <2>1, <2>2 DEF NoDeltaProof
<1>6. ASSUME NEW r \in DOMAIN t.rules, t.rules[r].kind = DL_STRICT, t.rules[r].body \subseteq S
      PROVE  t.rules[r].head \in S
  <2> DEFINE h == t.rules[r].head
  <2>1. h \in Lits /\ r \in StrictFor(t, h)
    BY <1>0, <1>6 DEF TheoryLits, StrictFor, RulesFor
  <2>2. D[h] = DL_PROVED
    BY <1>4, <1>6, <2>1 DEF DeltaProves, BodyAll
  <2>3. ASSUME h \in X PROVE FALSE
    <3>1. PICK b \in t.rules[r].body :
            b \in Lits /\ (d[b] = DL_REFUTED \/ (d[b] = DL_UNDECIDED /\ b \in c))
      BY <1>1, <2>1, <2>3, DeltaLoopReason
    <3>2. D[b] = DL_PROVED /\ b \notin X
      BY <1>6
    <3> QED
      BY <3>1, <3>2 DEF Extends
  <2> QED
    BY <2>1, <2>2, <2>3
<1>7. ClosedUnderStrict(t, S)
  BY <1>5, <1>6 DEF ClosedUnderStrict
<1>8. D[x] # DL_PROVED
  BY <1>0, <1>7 DEF DeltaFine
<1>9. D[x] \in Verdict
  BY <1>0 DEF Status
<1> QED
  BY <1>3, <1>8, <1>9 DEF Verdict

\* A round below a final status stays below it.
LEMMA DeltaRoundBelow ==
  ASSUME NEW t, TheoryLits(t), NEW sccs, AreSccs(sccs), NEW d \in Status, NEW D,
         DeltaFine(t, D), DeltaStops(t, sccs, D), Extends(d, D)
  PROVE  Extends(DeltaRound(t, sccs, d), D)
<1> DEFINE d2 == DeltaRound(t, sccs, d)
<1> SUFFICES ASSUME NEW x \in Lits, d2[x] # DL_UNDECIDED PROVE D[x] = d2[x]
  BY DEF Extends
<1>1. CASE d2 = DeltaSwept(t, d)
  <2>1. d2[x] = IF d[x] = DL_UNDECIDED THEN EvalDelta(t, d, x) ELSE d[x]
    BY <1>1 DEF DeltaSwept
  <2>2. CASE d[x] = DL_UNDECIDED
    <3>1. d2[x] = EvalDelta(t, d, x)
      BY <2>1, <2>2
    <3> HIDE DEF d2
    <3> QED
      BY <3>1, DeltaDecisionAgrees
  <2>3. CASE d[x] # DL_UNDECIDED
    BY <2>1, <2>3 DEF Extends
  <2> QED
    BY <2>2, <2>3
<1>2. CASE /\ d2 = Completion(d, DeltaLoops(t, sccs, d))
           /\ \A q \in Lits : d[q] = DL_UNDECIDED => EvalDelta(t, d, q) = DL_UNDECIDED
  <2>1. NoDeltaProof(t, d)
    BY <1>2 DEF NoDeltaProof, EvalDelta
  <2>2. d2[x] = IF x \in DeltaLoops(t, sccs, d) /\ d[x] = DL_UNDECIDED
                  THEN DL_REFUTED ELSE d[x]
    BY <1>2 DEF Completion
  <2> HIDE DEF d2
  <2>3. CASE x \in DeltaLoops(t, sccs, d) /\ d[x] = DL_UNDECIDED
    <3>1. PICK q \in Lits : Completes(t, d, sccs[q], TRUE) /\ x \in sccs[q]
      BY <2>3 DEF DeltaLoops
    <3>2. DeltaCompletes(t, d, sccs[q]) /\ x \in sccs[q] /\ d[x] = DL_UNDECIDED
      BY <2>3, <3>1 DEF DeltaCompletes
    <3>3. \A z, y \in Lits :
            DeltaCompletes(t, d, sccs[z]) /\ y \in sccs[z] /\ d[y] = DL_UNDECIDED
              => D[y] = DL_REFUTED
      BY <2>1, DeltaStopsSettled, DeltaCompletionAgrees
    <3>4. D[x] = DL_REFUTED
      BY <3>2, <3>3
    <3> QED
      BY <2>2, <2>3, <3>4
  <2>4. CASE ~ (x \in DeltaLoops(t, sccs, d) /\ d[x] = DL_UNDECIDED)
    BY <2>2, <2>4 DEF Extends
  <2> QED
    BY <2>3, <2>4
<1> QED
  BY <1>1, <1>2, DeltaRoundCases

\* The reference value is a status no round changes, and has every property the
\* rounds keep.
LEMMA RefDeltaReached ==
  ASSUME NEW t, NEW sccs, NEW S \in SUBSET Status, Unsolved \in S,
         \A d \in S : DeltaRound(t, sccs, d) \in S
  PROVE  RefDelta(t, sccs) \in S /\ DeltaRound(t, sccs, RefDelta(t, sccs)) = RefDelta(t, sccs)
<1> DEFINE nx == [d \in Status |-> DeltaRound(t, sccs, d)]
<1> DEFINE F == CHOOSE f : f = [d \in Status |-> IF DeltaRound(t, sccs, d) = d THEN d
                                                 ELSE f[DeltaRound(t, sccs, d)]]
<1>1. nx \in [Status -> Status] /\ \A d \in Status : Extends(d, nx[d])
  BY DeltaRoundExtends
<1>2. \A G : IsLimit(Status, nx, G) <=> G = [d \in Status |-> IF DeltaRound(t, sccs, d) = d THEN d
                                                     ELSE G[DeltaRound(t, sccs, d)]]
  <2>1. ASSUME NEW G
        PROVE  [d \in Status |-> IF nx[d] = d THEN d ELSE G[nx[d]]]
                 = [d \in Status |-> IF DeltaRound(t, sccs, d) = d THEN d
                                     ELSE G[DeltaRound(t, sccs, d)]]
    OBVIOUS
  <2> QED
    BY <2>1 DEF IsLimit
<1>3. nx[F[Unsolved]] = DeltaRound(t, sccs, F[Unsolved]) \/ F[Unsolved] \notin Status
  OBVIOUS
<1>4. \A d \in S : nx[d] \in S
  OBVIOUS
<1> HIDE DEF nx
<1>5. \E G : IsLimit(Status, nx, G)
  BY <1>1, LimitExists
<1>6. IsLimit(Status, nx, F)
  BY <1>2, <1>5
<1>7. RefDelta(t, sccs) = F[Unsolved]
  BY DEF RefDelta
<1> HIDE DEF F
<1>8. F[Unsolved] \in Iterates(Status, nx, Unsolved) /\ nx[F[Unsolved]] = F[Unsolved]
  BY <1>1, <1>6, StatusLimit
<1>9. F[Unsolved] \in S
  BY <1>4, <1>8 DEF Iterates, ClosedUnderRound
<1> QED
  BY <1>3, <1>7, <1>8, <1>9

\* The reference value of the definite layer: sound, final, and below every sound
\* final status.
LEMMA RefDeltaLimit ==
  ASSUME NEW t, TheoryLits(t), NEW sccs, AreSccs(sccs)
  PROVE  /\ DeltaFine(t, RefDelta(t, sccs))
         /\ DeltaStops(t, sccs, RefDelta(t, sccs))
         /\ \A D \in Status : DeltaFine(t, D) /\ DeltaStops(t, sccs, D)
                              => Extends(RefDelta(t, sccs), D)
<1> DEFINE S == {d \in Status : DeltaFine(t, d)}
<1>1. Unsolved \in Status
  BY DEF Unsolved, Status, Verdict
<1>2. DeltaFine(t, Unsolved)
  BY <1>1 DEF DeltaFine, Unsolved
<1>3. ASSUME NEW d \in S PROVE DeltaRound(t, sccs, d) \in S
  <2>1. DeltaMove(t, d, DeltaRound(t, sccs, d))
    BY DeltaRoundMoves
  <2>2. DeltaRound(t, sccs, d) \in Status
    BY DeltaRoundExtends
  <2> QED
    BY <2>1, <2>2, DeltaMoveFine
<1>4. RefDelta(t, sccs) \in S /\ DeltaRound(t, sccs, RefDelta(t, sccs)) = RefDelta(t, sccs)
  BY <1>1, <1>2, <1>3, RefDeltaReached
<1>5. DeltaStops(t, sccs, RefDelta(t, sccs))
  BY <1>4, DeltaRoundStops
<1>6. ASSUME NEW D \in Status, DeltaFine(t, D), DeltaStops(t, sccs, D)
      PROVE  Extends(RefDelta(t, sccs), D)
  <2> DEFINE B == {d \in Status : Extends(d, D)}
  <2>1. Unsolved \in B
    BY <1>1 DEF Extends, Unsolved
  <2>2. ASSUME NEW d \in B PROVE DeltaRound(t, sccs, d) \in B
    <3>1. Extends(DeltaRound(t, sccs, d), D)
      BY <1>6, DeltaRoundBelow
    <3> QED
      BY <3>1, DeltaRoundExtends
  <2>3. RefDelta(t, sccs) \in B
    BY <2>1, <2>2, RefDeltaReached
  <2> QED
    BY <2>3
<1> QED
  BY <1>4, <1>5, <1>6

-----------------------------------------------------------------------------
(* The defeasible layer, for any theory and any statuses, over the definite *)
(* statuses d.                                                              *)

\* A reason no extension can lose for refuting q.
CannotProve(t, d, p, q) ==
  /\ d[q] # DL_PROVED
  /\ d[Compl(q)] # DL_REFUTED \/ NotSupported(t, p, q) \/ AttackerUncountered(t, p, q)

\* Proofs do not rest on each other in a circle: every set of proved literals has
\* a member that is proved definitely or from literals outside the set.
PartFounded(t, d, p) ==
  \A X \in SUBSET {q \in Lits : p[q] = DL_PROVED} : X # {} =>
    \E m \in X : \/ d[m] = DL_PROVED
                 \/ \E r \in SupportersOf(t, m) :
                      \A b \in t.rules[r].body : p[b] = DL_PROVED /\ b \notin X

\* Sound defeasible statuses.
PartFine(t, d, p) ==
  /\ p \in Status
  /\ \A q \in Lits : p[q] = DL_PROVED => PartProves(t, d, p, q)
  /\ \A q \in Lits : p[q] = DL_REFUTED => CannotProve(t, d, p, q)
  /\ PartFounded(t, d, p)

NoPartProof(t, d, p) ==
  \A q \in Lits : p[q] = DL_UNDECIDED /\ ~ Attacked(t, q) => ~ PartProves(t, d, p, q)

PartStops(t, sccs, d, p) ==
  /\ \A q \in Lits : p[q] = DL_UNDECIDED => EvalPart(t, d, p, q) = DL_UNDECIDED
  /\ \A q \in Lits : ~ Completes(t, p, sccs[q], FALSE)

PartMove(t, d, p, p2) ==
  /\ p2 \in Status
  /\ Extends(p, p2)
  /\ \A q \in Lits : p[q] = DL_UNDECIDED =>
       /\ p2[q] = DL_PROVED => PartProves(t, d, p, q)
       /\ p2[q] = DL_REFUTED => CannotProve(t, d, p2, q)

\* A reason to refute survives an extension.
LEMMA CannotProveMonotone ==
  ASSUME NEW t, TheoryLits(t), NEW d, NEW p \in Status, NEW p2 \in Status, Extends(p, p2),
         NEW q \in Lits, CannotProve(t, d, p, q)
  PROVE  CannotProve(t, d, p2, q)
BY PartSoundMonotone DEF CannotProve

\* A reason to refute excludes every reason to prove.
LEMMA CannotProveBoth ==
  ASSUME NEW t, TheoryLits(t), NEW d, NEW p, NEW q \in Lits, CannotProve(t, d, p, q)
  PROVE  ~ PartProves(t, d, p, q)
<1>1. \A r : ~ (Applicable(t, p, r) /\ Discarded(t, p, r))
  BY BodyConsistent DEF Applicable, Discarded
<1>2. NotSupported(t, p, q) => ~ Supported(t, p, q)
  BY <1>1 DEF NotSupported, Supported
<1>3. AttackerUncountered(t, p, q) => ~ AllAttackersCountered(t, p, q)
  BY <1>1 DEF AttackerUncountered, AllAttackersCountered, Countered
<1> QED
  BY <1>2, <1>3 DEF CannotProve, PartProves

\* A step keeps defeasible statuses sound.
LEMMA PartMoveFine ==
  ASSUME NEW t, TheoryLits(t), NEW d, NEW p, NEW p2, PartFine(t, d, p), PartMove(t, d, p, p2)
  PROVE  PartFine(t, d, p2)
<1>0. p \in Status /\ p2 \in Status /\ Extends(p, p2) /\ TheoryLits(t)
  BY TheoryLitsOK DEF PartFine, PartMove
<1>1. \A q \in Lits : p[q] # DL_UNDECIDED => p2[q] = p[q]
  BY <1>0 DEF Extends
<1>2. ASSUME NEW q \in Lits, p2[q] = DL_PROVED PROVE PartProves(t, d, p, q)
  BY <1>1, <1>2 DEF PartFine, PartMove
<1>3. ASSUME NEW q \in Lits, p2[q] = DL_PROVED PROVE PartProves(t, d, p2, q)
  BY <1>0, <1>2, <1>3, PartProvesMonotone
<1>4. ASSUME NEW q \in Lits, p2[q] = DL_REFUTED PROVE CannotProve(t, d, p2, q)
  <2>1. CASE p[q] = DL_UNDECIDED
    BY <1>4, <2>1 DEF PartMove
  <2>2. CASE p[q] # DL_UNDECIDED
    <3>1. CannotProve(t, d, p, q)
      BY <1>1, <1>4, <2>2 DEF PartFine
    <3> QED
      BY <1>0, <3>1, CannotProveMonotone
  <2> QED
    BY <2>1, <2>2
<1>5. PartFounded(t, d, p2)
  <2> SUFFICES ASSUME NEW X \in SUBSET {q \in Lits : p2[q] = DL_PROVED}, X # {}
      PROVE  \E m \in X : \/ d[m] = DL_PROVED
                          \/ \E r \in SupportersOf(t, m) :
                               \A b \in t.rules[r].body : p2[b] = DL_PROVED /\ b \notin X
    BY DEF PartFounded
  <2> DEFINE old == {m \in X : p[m] = DL_PROVED}
  <2>1. \A m, r : r \in SupportersOf(t, m) => t.rules[r].body \subseteq Lits
    BY <1>0 DEF SupportersOf, RulesFor, TheoryLits
  <2>2. CASE old # {}
    <3>1. old \in SUBSET {q \in Lits : p[q] = DL_PROVED}
      OBVIOUS
    <3>2. PICK m \in old : \/ d[m] = DL_PROVED
                           \/ \E r \in SupportersOf(t, m) :
                                \A b \in t.rules[r].body : p[b] = DL_PROVED /\ b \notin old
      BY <2>2, <3>1 DEF PartFine, PartFounded
    <3>3. CASE d[m] = DL_PROVED
      BY <3>3
    <3>4. ASSUME NEW r \in SupportersOf(t, m),
                 \A b \in t.rules[r].body : p[b] = DL_PROVED /\ b \notin old
          PROVE  \A b \in t.rules[r].body : p2[b] = DL_PROVED /\ b \notin X
      BY <1>1, <2>1, <3>4
    <3> QED
      BY <3>2, <3>3, <3>4
  <2>3. CASE old = {}
    <3>1. PICK m \in X : TRUE
      OBVIOUS
    <3>2. m \in Lits /\ PartProves(t, d, p, m)
      BY <1>2
    <3>3. CASE d[m] = DL_PROVED
      BY <3>3
    <3>4. ASSUME NEW r \in SupportersOf(t, m), Applicable(t, p, r)
          PROVE  \A b \in t.rules[r].body : p2[b] = DL_PROVED /\ b \notin X
      BY <1>1, <2>1, <2>3, <3>4 DEF Applicable, BodyAll
    <3> QED
      BY <3>2, <3>3, <3>4 DEF PartProves, Supported
  <2> QED
    BY <2>2, <2>3
<1> QED
  BY <1>0, <1>3, <1>4, <1>5 DEF PartFine

\* In an unblocked component every rule of an undecided member that cannot apply
\* reads a literal that is refuted already or refuted with it.
LEMMA PartLoopReason ==
  ASSUME NEW t, TheoryLits(t), NEW p \in Status,
         NEW c, ~ BlockedScc(t, p, c, FALSE),
         NEW x \in c, NEW r \in SupportersOf(t, x), ~ Applicable(t, p, r)
  PROVE  \E b \in t.rules[r].body :
           b \in Lits /\ (p[b] = DL_REFUTED \/ (p[b] = DL_UNDECIDED /\ b \in c))
<1>1. PICK b \in t.rules[r].body : p[b] # DL_PROVED
  BY DEF Applicable, BodyAll
<1>2. b \in Lits
  BY DEF TheoryLits, SupportersOf, RulesFor
<1>3. r \in LayerSupport(t, x, FALSE)
  BY DEF LayerSupport
<1>4. p[b] = DL_UNDECIDED => b \in c
  BY <1>1, <1>3 DEF BlockedScc
<1>5. p[b] \in Verdict
  BY <1>2 DEF Status
<1> QED
  BY <1>1, <1>2, <1>4, <1>5 DEF Verdict

\* An unattacked literal with an applicable rule is proved, if its complement is
\* refuted definitely.
LEMMA UnattackedProves ==
  ASSUME NEW t, NEW d, NEW p, NEW x \in Lits, ~ Attacked(t, x), d[Compl(x)] = DL_REFUTED,
         NEW r \in SupportersOf(t, x), Applicable(t, p, r)
  PROVE  PartProves(t, d, p, x)
BY DEF PartProves, AllAttackersCountered, Attacked, Supported

PartCompletes(t, p, c) == Completes(t, p, c, FALSE)

PartSwept(t, d, p) ==
  [q \in Lits |-> IF p[q] = DL_UNDECIDED THEN EvalPart(t, d, p, q) ELSE p[q]]
PartLoops(t, sccs, p) == UNION {sccs[q] : q \in {x \in Lits : Completes(t, p, sccs[x], FALSE)}}

\* A round yields statuses and keeps what was decided.
LEMMA PartRoundExtends ==
  ASSUME NEW t, NEW sccs, NEW d, NEW p \in Status
  PROVE  PartRound(t, sccs, d, p) \in Status /\ Extends(p, PartRound(t, sccs, d, p))
<1>1. PartSwept(t, d, p) \in Status /\ Extends(p, PartSwept(t, d, p))
  BY EvalVerdict DEF PartSwept, Status, Extends
<1>2. \A c : Completion(p, c) \in Status /\ Extends(p, Completion(p, c))
  BY CompletionType, CompletionExtends
<1>3. PartRound(t, sccs, d, p) \in {PartSwept(t, d, p), Completion(p, PartLoops(t, sccs, p))}
  BY DEF PartRound, PartSwept, PartLoops
<1> QED
  BY <1>1, <1>2, <1>3

\* A round that completes components did so over a settled layer.
LEMMA PartRoundCases ==
  ASSUME NEW t, NEW sccs, NEW d, NEW p \in Status
  PROVE  \/ PartRound(t, sccs, d, p) = PartSwept(t, d, p)
         \/ /\ PartRound(t, sccs, d, p) = Completion(p, PartLoops(t, sccs, p))
            /\ \A q \in Lits : p[q] = DL_UNDECIDED => EvalPart(t, d, p, q) = DL_UNDECIDED
<1>1. CASE PartSwept(t, d, p) # p
  BY <1>1 DEF PartRound, PartSwept
<1>2. CASE PartSwept(t, d, p) = p
  <2>1. PartRound(t, sccs, d, p) = Completion(p, PartLoops(t, sccs, p))
    BY <1>2 DEF PartRound, PartSwept, PartLoops
  <2>2. \A q \in Lits : p[q] = IF p[q] = DL_UNDECIDED THEN EvalPart(t, d, p, q) ELSE p[q]
    BY <1>2 DEF PartSwept
  <2> QED
    BY <2>1, <2>2
<1> QED
  BY <1>1, <1>2

\* A status no round changes leaves nothing to do.
LEMMA PartRoundStops ==
  ASSUME NEW t, NEW sccs, AreSccs(sccs), NEW d, NEW p \in Status,
         PartRound(t, sccs, d, p) = p
  PROVE  PartStops(t, sccs, d, p)
<1>1. PartSwept(t, d, p) = p
  BY DEF PartRound, PartSwept
<1>2. \A q \in Lits : p[q] = IF p[q] = DL_UNDECIDED THEN EvalPart(t, d, p, q) ELSE p[q]
  BY <1>1 DEF PartSwept
<1>3. Completion(p, PartLoops(t, sccs, p)) = p
  BY <1>1 DEF PartRound, PartSwept, PartLoops
<1>4. ASSUME NEW q \in Lits, Completes(t, p, sccs[q], FALSE) PROVE FALSE
  <2>1. PICK m \in sccs[q] : p[m] = DL_UNDECIDED
    BY <1>4 DEF Completes
  <2>2. m \in Lits /\ m \in PartLoops(t, sccs, p)
    BY <1>4, <2>1 DEF PartLoops, AreSccs
  <2>3. Completion(p, PartLoops(t, sccs, p))[m] = DL_REFUTED
    BY <2>1, <2>2 DEF Completion
  <2> QED
    BY <1>3, <2>1, <2>3
<1> QED
  BY <1>2, <1>4 DEF PartStops

\* Completing unblocked, unattacked components of a settled layer gives every
\* refuted member a reason.
LEMMA PartCompletionReason ==
  ASSUME NEW t, TheoryLits(t), NEW d, NEW p \in Status, NoPartProof(t, d, p), NEW p2 \in Status,
         NEW c, ~ AttackedScc(t, c), ~ BlockedScc(t, p, c, FALSE),
         \A m \in Lits : p[m] = DL_REFUTED => p2[m] = DL_REFUTED,
         \A m \in Lits : m \in c /\ p[m] = DL_UNDECIDED => p2[m] = DL_REFUTED,
         NEW x \in Lits, x \in c, p[x] = DL_UNDECIDED
  PROVE  CannotProve(t, d, p2, x)
<1>1. ~ Attacked(t, x) /\ ~ PartProves(t, d, p, x)
  BY DEF AttackedScc, NoPartProof
<1>2. d[x] # DL_PROVED
  BY <1>1 DEF PartProves
<1>3. CASE d[Compl(x)] = DL_REFUTED
  <2>1. ASSUME NEW r \in SupportersOf(t, x) PROVE Discarded(t, p2, r)
    <3>1. ~ Applicable(t, p, r)
      BY <1>1, <1>3, UnattackedProves
    <3>2. PICK b \in t.rules[r].body :
            b \in Lits /\ (p[b] = DL_REFUTED \/ (p[b] = DL_UNDECIDED /\ b \in c))
      BY <3>1, PartLoopReason
    <3> QED
      BY <3>2 DEF Discarded, BodySome
  <2> QED
    BY <1>2, <2>1 DEF CannotProve, NotSupported
<1> QED
  BY <1>2, <1>3 DEF CannotProve

\* A round is a step with reasons.
LEMMA PartRoundMoves ==
  ASSUME NEW t, TheoryLits(t), NEW sccs, NEW d, NEW p \in Status
  PROVE  PartMove(t, d, p, PartRound(t, sccs, d, p))
<1> DEFINE p2 == PartRound(t, sccs, d, p)
<1>1. p2 \in Status /\ Extends(p, p2)
  BY PartRoundExtends
<1>2. CASE p2 = PartSwept(t, d, p)
  <2> SUFFICES ASSUME NEW q \in Lits, p[q] = DL_UNDECIDED
      PROVE  /\ p2[q] = DL_PROVED => PartProves(t, d, p, q)
             /\ p2[q] = DL_REFUTED => CannotProve(t, d, p2, q)
    BY <1>1 DEF PartMove
  <2>1. p2[q] = EvalPart(t, d, p, q)
    BY <1>2 DEF PartSwept
  <2> HIDE DEF p2
  <2>2. p2[q] = DL_REFUTED => CannotProve(t, d, p, q)
    BY <2>1 DEF EvalPart, PartRefutes, CannotProve
  <2>3. p2[q] = DL_PROVED => PartProves(t, d, p, q)
    BY <2>1 DEF EvalPart
  <2> QED
    BY <1>1, <2>2, <2>3, CannotProveMonotone
<1>3. CASE /\ p2 = Completion(p, PartLoops(t, sccs, p))
           /\ \A q \in Lits : p[q] = DL_UNDECIDED => EvalPart(t, d, p, q) = DL_UNDECIDED
  <2>1. NoPartProof(t, d, p)
    BY <1>3 DEF NoPartProof, EvalPart
  <2>2. \A q \in Lits : p2[q] = IF q \in PartLoops(t, sccs, p) /\ p[q] = DL_UNDECIDED
                               THEN DL_REFUTED ELSE p[q]
    BY <1>3 DEF Completion
  <2> HIDE DEF p2
  <2> SUFFICES ASSUME NEW q \in Lits, p[q] = DL_UNDECIDED, p2[q] = DL_REFUTED
      PROVE  CannotProve(t, d, p2, q)
    BY <1>1, <2>2 DEF PartMove, p2
  <2>3. PICK x \in Lits : Completes(t, p, sccs[x], FALSE) /\ q \in sccs[x]
    BY <2>2 DEF PartLoops
  <2>4. ~ AttackedScc(t, sccs[x]) /\ ~ BlockedScc(t, p, sccs[x], FALSE)
    BY <2>3 DEF Completes
  <2>5. /\ \A m \in Lits : p[m] = DL_REFUTED => p2[m] = DL_REFUTED
        /\ \A m \in Lits : m \in sccs[x] /\ p[m] = DL_UNDECIDED => p2[m] = DL_REFUTED
    BY <2>2, <2>3 DEF PartLoops
  <2> QED
    BY <1>1, <2>1, <2>3, <2>4, <2>5, PartCompletionReason
<1> QED
  BY <1>2, <1>3, PartRoundCases

\* A literal decided by evaluation below a final status has that verdict in it.
LEMMA PartDecisionAgrees ==
  ASSUME NEW t, TheoryLits(t), NEW sccs, NEW d, NEW p \in Status, NEW P, PartFine(t, d, P),
         PartStops(t, sccs, d, P), Extends(p, P), NEW q \in Lits,
         EvalPart(t, d, p, q) # DL_UNDECIDED
  PROVE  P[q] = EvalPart(t, d, p, q)
<1>0. P \in Status
  BY DEF PartFine
<1>1. PartProves(t, d, p, q) => PartProves(t, d, P, q)
  BY <1>0, PartProvesMonotone
<1>2. CannotProve(t, d, p, q) => CannotProve(t, d, P, q)
  BY <1>0, CannotProveMonotone
<1>3. ~ (CannotProve(t, d, P, q) /\ PartProves(t, d, P, q))
  BY CannotProveBoth
<1>4. P[q] \in Verdict
  BY <1>0 DEF Status
<1>5. CASE PartProves(t, d, p, q)
  <2>1. EvalPart(t, d, p, q) = DL_PROVED /\ EvalPart(t, d, P, q) = DL_PROVED
    BY <1>1, <1>5 DEF EvalPart
  <2>2. P[q] # DL_UNDECIDED
    BY <2>1 DEF PartStops
  <2>3. P[q] # DL_REFUTED
    BY <1>1, <1>3, <1>5 DEF PartFine
  <2> QED
    BY <1>4, <2>1, <2>2, <2>3 DEF Verdict
<1>6. CASE ~ PartProves(t, d, p, q) /\ PartRefutes(t, d, p, q)
  <2>1. EvalPart(t, d, p, q) = DL_REFUTED
    BY <1>6 DEF EvalPart
  <2>2. PartRefutes(t, d, P, q) /\ CannotProve(t, d, P, q)
    BY <1>0, <1>6, PartSoundMonotone DEF PartRefutes, CannotProve
  <2>3. ~ PartProves(t, d, P, q)
    BY <1>3, <2>2
  <2>4. P[q] # DL_PROVED
    BY <2>3 DEF PartFine
  <2>5. EvalPart(t, d, P, q) = DL_REFUTED
    BY <2>2, <2>3 DEF EvalPart
  <2>6. P[q] # DL_UNDECIDED
    BY <2>5 DEF PartStops
  <2> QED
    BY <1>4, <2>1, <2>4, <2>6 DEF Verdict
<1> QED
  BY <1>5, <1>6 DEF EvalPart

\* A member completed below a final status is refuted in it: a set of members
\* proved there would have one proved from outside the set, hence from literals
\* proved already, and the sweep before would have proved it.
LEMMA PartCompletionAgrees ==
  ASSUME NEW t, TheoryLits(t), NEW sccs, AreSccs(sccs), NEW d,
         NEW p \in Status, NEW P,
         PartFine(t, d, P), PartStops(t, sccs, d, P), Extends(p, P), NoPartProof(t, d, p)
  PROVE  \A q, x \in Lits :
           PartCompletes(t, p, sccs[q]) /\ x \in sccs[q] /\ p[x] = DL_UNDECIDED
             => P[x] = DL_REFUTED
<1> SUFFICES ASSUME NEW q \in Lits, NEW x \in Lits, Completes(t, p, sccs[q], FALSE),
                    x \in sccs[q], p[x] = DL_UNDECIDED
             PROVE  P[x] = DL_REFUTED
  BY DEF PartCompletes
<1> DEFINE c == sccs[q]
<1>0. P \in Status /\ c \in SUBSET Lits /\ x \in Lits /\ TheoryLits(t)
  BY TheoryLitsOK DEF PartFine, AreSccs
<1>1. CyclicScc(t, c) /\ ~ AttackedScc(t, c) /\ ~ BlockedScc(t, p, c, FALSE)
  BY DEF Completes
<1>2. ~ BlockedScc(t, P, c, FALSE)
  <2> SUFFICES ASSUME NEW m \in c, NEW r \in LayerSupport(t, m, FALSE),
                      NEW b \in t.rules[r].body, b \notin c, P[b] = DL_UNDECIDED
               PROVE  FALSE
    BY DEF BlockedScc
  <2>1. b \in Lits
    BY <1>0 DEF LayerSupport, SupportersOf, RulesFor, TheoryLits
  <2>2. p[b] = DL_UNDECIDED
    BY <2>1 DEF Extends
  <2> QED
    BY <1>1, <2>2 DEF BlockedScc
<1>3. \A m \in c : P[m] # DL_UNDECIDED
  BY <1>1, <1>2 DEF PartStops, Completes
<1> DEFINE X == {m \in c : p[m] = DL_UNDECIDED /\ P[m] = DL_PROVED}
<1>4. X = {}
  <2> SUFFICES ASSUME X # {} PROVE FALSE
    OBVIOUS
  <2>1. X \in SUBSET {m \in Lits : P[m] = DL_PROVED}
    BY <1>0
  <2>2. PICK m \in X : \/ d[m] = DL_PROVED
                       \/ \E r \in SupportersOf(t, m) :
                            \A b \in t.rules[r].body : P[b] = DL_PROVED /\ b \notin X
    BY <2>1 DEF PartFine, PartFounded
  <2>3. m \in Lits /\ m \in c /\ p[m] = DL_UNDECIDED /\ P[m] = DL_PROVED
    BY <1>0
  <2>4. ~ Attacked(t, m)
    BY <1>1, <2>3 DEF AttackedScc
  <2>5. ~ PartProves(t, d, p, m)
    BY <2>3, <2>4 DEF NoPartProof
  <2>6. d[m] # DL_PROVED
    BY <2>5 DEF PartProves
  <2>7. PICK r \in SupportersOf(t, m) : \A b \in t.rules[r].body : P[b] = DL_PROVED /\ b \notin X
    BY <2>2, <2>6
  <2>8. d[Compl(m)] = DL_REFUTED
    <3>1. PartProves(t, d, P, m)
      BY <2>3 DEF PartFine
    <3> QED
      BY <2>6, <3>1 DEF PartProves
  <2>9. ~ Applicable(t, p, r)
    BY <2>3, <2>4, <2>5, <2>8, UnattackedProves
  <2>10. PICK b \in t.rules[r].body :
           b \in Lits /\ (p[b] = DL_REFUTED \/ (p[b] = DL_UNDECIDED /\ b \in c))
    BY <1>1, <2>3, <2>9, PartLoopReason
  <2>11. P[b] = DL_PROVED /\ b \notin X
    BY <2>7
  <2> QED
    BY <2>10, <2>11 DEF Extends
<1>5. P[x] # DL_PROVED
  BY <1>4
<1>6. P[x] \in Verdict
  BY <1>0 DEF Status
<1> QED
  BY <1>3, <1>5, <1>6 DEF Verdict

\* A round below a final status stays below it.
LEMMA PartRoundBelow ==
  ASSUME NEW t, TheoryLits(t), NEW sccs, AreSccs(sccs), NEW d,
         NEW p \in Status, NEW P,
         PartFine(t, d, P), PartStops(t, sccs, d, P), Extends(p, P)
  PROVE  Extends(PartRound(t, sccs, d, p), P)
<1> DEFINE p2 == PartRound(t, sccs, d, p)
<1> SUFFICES ASSUME NEW x \in Lits, p2[x] # DL_UNDECIDED PROVE P[x] = p2[x]
  BY DEF Extends
<1>1. CASE p2 = PartSwept(t, d, p)
  <2>1. p2[x] = IF p[x] = DL_UNDECIDED THEN EvalPart(t, d, p, x) ELSE p[x]
    BY <1>1 DEF PartSwept
  <2>2. CASE p[x] = DL_UNDECIDED
    <3>1. p2[x] = EvalPart(t, d, p, x)
      BY <2>1, <2>2
    <3> HIDE DEF p2
    <3> QED
      BY <3>1, PartDecisionAgrees
  <2>3. CASE p[x] # DL_UNDECIDED
    BY <2>1, <2>3 DEF Extends
  <2> QED
    BY <2>2, <2>3
<1>2. CASE /\ p2 = Completion(p, PartLoops(t, sccs, p))
           /\ \A q \in Lits : p[q] = DL_UNDECIDED => EvalPart(t, d, p, q) = DL_UNDECIDED
  <2>1. NoPartProof(t, d, p)
    BY <1>2 DEF NoPartProof, EvalPart
  <2>2. p2[x] = IF x \in PartLoops(t, sccs, p) /\ p[x] = DL_UNDECIDED
                  THEN DL_REFUTED ELSE p[x]
    BY <1>2 DEF Completion
  <2> HIDE DEF p2
  <2>3. CASE x \in PartLoops(t, sccs, p) /\ p[x] = DL_UNDECIDED
    <3>1. PICK q \in Lits : Completes(t, p, sccs[q], FALSE) /\ x \in sccs[q]
      BY <2>3 DEF PartLoops
    <3>2. PartCompletes(t, p, sccs[q]) /\ x \in sccs[q] /\ p[x] = DL_UNDECIDED
      BY <2>3, <3>1 DEF PartCompletes
    <3>3. \A z, y \in Lits :
            PartCompletes(t, p, sccs[z]) /\ y \in sccs[z] /\ p[y] = DL_UNDECIDED
              => P[y] = DL_REFUTED
      BY <2>1, PartCompletionAgrees
    <3>4. P[x] = DL_REFUTED
      BY <3>2, <3>3
    <3> QED
      BY <2>2, <2>3, <3>4
  <2>4. CASE ~ (x \in PartLoops(t, sccs, p) /\ p[x] = DL_UNDECIDED)
    BY <2>2, <2>4 DEF Extends
  <2> QED
    BY <2>3, <2>4
<1> QED
  BY <1>1, <1>2, PartRoundCases

\* The reference value is a status no round changes, and has every property the
\* rounds keep.
LEMMA RefPartReached ==
  ASSUME NEW t, NEW sccs, NEW d, NEW S \in SUBSET Status, Unsolved \in S,
         \A p \in S : PartRound(t, sccs, d, p) \in S
  PROVE  RefPart(t, sccs, d) \in S /\ PartRound(t, sccs, d, RefPart(t, sccs, d)) = RefPart(t, sccs, d)
<1> DEFINE nx == [p \in Status |-> PartRound(t, sccs, d, p)]
<1> DEFINE F == CHOOSE f : f = [p \in Status |-> IF PartRound(t, sccs, d, p) = p THEN p
                                                 ELSE f[PartRound(t, sccs, d, p)]]
<1>1. nx \in [Status -> Status] /\ \A p \in Status : Extends(p, nx[p])
  BY PartRoundExtends
<1>2. \A G : IsLimit(Status, nx, G) <=> G = [p \in Status |-> IF PartRound(t, sccs, d, p) = p THEN p
                                                     ELSE G[PartRound(t, sccs, d, p)]]
  <2>1. ASSUME NEW G
        PROVE  [p \in Status |-> IF nx[p] = p THEN p ELSE G[nx[p]]]
                 = [p \in Status |-> IF PartRound(t, sccs, d, p) = p THEN p
                                     ELSE G[PartRound(t, sccs, d, p)]]
    OBVIOUS
  <2> QED
    BY <2>1 DEF IsLimit
<1>3. nx[F[Unsolved]] = PartRound(t, sccs, d, F[Unsolved]) \/ F[Unsolved] \notin Status
  OBVIOUS
<1>4. \A p \in S : nx[p] \in S
  OBVIOUS
<1> HIDE DEF nx
<1>5. \E G : IsLimit(Status, nx, G)
  BY <1>1, LimitExists
<1>6. IsLimit(Status, nx, F)
  BY <1>2, <1>5
<1>7. RefPart(t, sccs, d) = F[Unsolved]
  BY DEF RefPart
<1> HIDE DEF F
<1>8. F[Unsolved] \in Iterates(Status, nx, Unsolved) /\ nx[F[Unsolved]] = F[Unsolved]
  BY <1>1, <1>6, StatusLimit
<1>9. F[Unsolved] \in S
  BY <1>4, <1>8 DEF Iterates, ClosedUnderRound
<1> QED
  BY <1>3, <1>7, <1>8, <1>9

\* The reference value of the defeasible layer: sound, final, and below every
\* sound final status.
LEMMA RefPartLimit ==
  ASSUME NEW t, TheoryLits(t), NEW sccs, AreSccs(sccs), NEW d
  PROVE  /\ PartFine(t, d, RefPart(t, sccs, d))
         /\ PartStops(t, sccs, d, RefPart(t, sccs, d))
         /\ \A P \in Status : PartFine(t, d, P) /\ PartStops(t, sccs, d, P)
                              => Extends(RefPart(t, sccs, d), P)
<1> DEFINE S == {p \in Status : PartFine(t, d, p)}
<1>1. Unsolved \in Status
  BY DEF Unsolved, Status, Verdict
<1>2. PartFine(t, d, Unsolved)
  BY <1>1 DEF PartFine, PartFounded, Unsolved
<1>3. ASSUME NEW p \in S PROVE PartRound(t, sccs, d, p) \in S
  <2>1. PartMove(t, d, p, PartRound(t, sccs, d, p))
    BY PartRoundMoves
  <2>2. PartRound(t, sccs, d, p) \in Status
    BY PartRoundExtends
  <2> QED
    BY <2>1, <2>2, PartMoveFine
<1>4. RefPart(t, sccs, d) \in S /\ PartRound(t, sccs, d, RefPart(t, sccs, d)) = RefPart(t, sccs, d)
  BY <1>1, <1>2, <1>3, RefPartReached
<1>5. PartStops(t, sccs, d, RefPart(t, sccs, d))
  BY <1>4, PartRoundStops
<1>6. ASSUME NEW P \in Status, PartFine(t, d, P), PartStops(t, sccs, d, P)
      PROVE  Extends(RefPart(t, sccs, d), P)
  <2> DEFINE B == {p \in Status : Extends(p, P)}
  <2>1. Unsolved \in B
    BY <1>1 DEF Extends, Unsolved
  <2>2. ASSUME NEW p \in B PROVE PartRound(t, sccs, d, p) \in B
    <3>1. Extends(PartRound(t, sccs, d, p), P)
      BY <1>6, PartRoundBelow
    <3> QED
      BY <3>1, PartRoundExtends
  <2>3. RefPart(t, sccs, d) \in B
    BY <2>1, <2>2, RefPartReached
  <2> QED
    BY <2>3
<1> QED
  BY <1>4, <1>5, <1>6

\* Statuses below each other are equal.
LEMMA ExtendsBothWays ==
  ASSUME NEW p \in Status, NEW q \in Status, Extends(p, q), Extends(q, p)
  PROVE  p = q
<1>1. \A x \in Lits : p[x] = q[x]
  BY DEF Extends
<1> QED
  BY <1>1 DEF Status

-----------------------------------------------------------------------------
(* Reachability.                                                           *)

\* The least set that holds S and is closed under the successor function.
Closure(succ, S) ==
  {v \in Lits : \A Q \in SUBSET Lits : S \subseteq Q /\ (\A x \in Q : succ[x] \subseteq Q) => v \in Q}

\* The closure holds its start, is closed and is contained in every such set.
LEMMA ClosureFacts ==
  ASSUME NEW succ \in [Lits -> SUBSET Lits], NEW S \in SUBSET Lits
  PROVE  /\ S \subseteq Closure(succ, S)
         /\ Closure(succ, S) \in SUBSET Lits
         /\ \A x \in Closure(succ, S) : succ[x] \subseteq Closure(succ, S)
         /\ \A Q \in SUBSET Lits :
              S \subseteq Q /\ (\A x \in Q : succ[x] \subseteq Q) => Closure(succ, S) \subseteq Q
<1>1. S \subseteq Closure(succ, S) /\ Closure(succ, S) \in SUBSET Lits
  BY DEF Closure
<1>2. ASSUME NEW x \in Closure(succ, S), NEW y \in succ[x] PROVE y \in Closure(succ, S)
  <2>1. x \in Lits /\ y \in Lits
    BY DEF Closure
  <2> SUFFICES ASSUME NEW Q \in SUBSET Lits, S \subseteq Q, \A z \in Q : succ[z] \subseteq Q
               PROVE  y \in Q
    BY <2>1 DEF Closure
  <2>2. x \in Q
    BY DEF Closure
  <2> QED
    BY <2>2
<1>3. \A Q \in SUBSET Lits :
        S \subseteq Q /\ (\A x \in Q : succ[x] \subseteq Q) => Closure(succ, S) \subseteq Q
  BY DEF Closure
<1> QED
  BY <1>1, <1>2, <1>3

\* Reachability is transitive.
LEMMA ClosureTransitive ==
  ASSUME NEW succ \in [Lits -> SUBSET Lits], NEW x \in Lits,
         NEW y \in Closure(succ, {x}), NEW z \in Closure(succ, {y})
  PROVE  z \in Closure(succ, {x})
<1>1. y \in Lits /\ {x} \in SUBSET Lits
  BY DEF Closure
<1>2. /\ Closure(succ, {x}) \in SUBSET Lits
      /\ \A v \in Closure(succ, {x}) : succ[v] \subseteq Closure(succ, {x})
  BY <1>1, ClosureFacts
<1>3. Closure(succ, {y}) \subseteq Closure(succ, {x})
  BY <1>1, <1>2, ClosureFacts
<1> QED
  BY <1>3

\* A literal reaches itself and its successors.
LEMMA ClosureStep ==
  ASSUME NEW succ \in [Lits -> SUBSET Lits], NEW x \in Lits
  PROVE  x \in Closure(succ, {x}) /\ succ[x] \subseteq Closure(succ, {x})
<1>1. {x} \in SUBSET Lits
  OBVIOUS
<1> QED
  BY <1>1, ClosureFacts

\* More successors reach more.
LEMMA ClosureMonotone ==
  ASSUME NEW succ \in [Lits -> SUBSET Lits], NEW succ2 \in [Lits -> SUBSET Lits],
         \A x \in Lits : succ[x] \subseteq succ2[x], NEW x \in Lits
  PROVE  Closure(succ, {x}) \subseteq Closure(succ2, {x})
<1>1. {x} \in SUBSET Lits
  OBVIOUS
<1>2. /\ {x} \subseteq Closure(succ2, {x})
      /\ Closure(succ2, {x}) \in SUBSET Lits
      /\ \A y \in Closure(succ2, {x}) : succ2[y] \subseteq Closure(succ2, {x})
  BY <1>1, ClosureFacts
<1>3. \A y \in Closure(succ2, {x}) : succ[y] \subseteq Closure(succ2, {x})
  BY <1>2
<1> QED
  BY <1>1, <1>2, <1>3, ClosureFacts

\* What x reaches is x itself or reached from one of its successors.
LEMMA ClosureFirstStep ==
  ASSUME NEW succ \in [Lits -> SUBSET Lits], NEW x \in Lits, NEW y \in Closure(succ, {x})
  PROVE  y = x \/ y \in Closure(succ, succ[x])
<1> DEFINE Q == {x} \cup Closure(succ, succ[x])
<1>1. {x} \in SUBSET Lits /\ succ[x] \in SUBSET Lits
  OBVIOUS
<1>2. /\ succ[x] \subseteq Closure(succ, succ[x])
      /\ Closure(succ, succ[x]) \in SUBSET Lits
      /\ \A v \in Closure(succ, succ[x]) : succ[v] \subseteq Closure(succ, succ[x])
  BY <1>1, ClosureFacts
<1>3. Q \in SUBSET Lits /\ {x} \subseteq Q /\ \A v \in Q : succ[v] \subseteq Q
  BY <1>2
<1>4. Closure(succ, {x}) \subseteq Q
  <2> HIDE DEF Q
  <2> QED
    BY <1>1, <1>3, ClosureFacts
<1> QED
  BY <1>4

\* A literal with a predecessor it reaches is on a cycle.
LEMMA ClosureCycle ==
  ASSUME NEW succ \in [Lits -> SUBSET Lits], NEW x \in Lits,
         NEW b \in Closure(succ, {x}), x \in succ[b]
  PROVE  x \in Closure(succ, succ[x])
<1>1. succ[x] \in SUBSET Lits
  OBVIOUS
<1>2. /\ succ[x] \subseteq Closure(succ, succ[x])
      /\ \A v \in Closure(succ, succ[x]) : succ[v] \subseteq Closure(succ, succ[x])
  BY <1>1, ClosureFacts
<1>3. CASE b = x
  BY <1>2, <1>3
<1>4. CASE b \in Closure(succ, succ[x])
  BY <1>2, <1>4
<1> QED
  BY <1>3, <1>4, ClosureFirstStep

\* A literal on a cycle has a predecessor it reaches.
LEMMA CyclePredecessor ==
  ASSUME NEW succ \in [Lits -> SUBSET Lits], NEW x \in Lits, x \in Closure(succ, succ[x])
  PROVE  \E b \in Closure(succ, {x}) : x \in succ[b]
<1> SUFFICES ASSUME \A b \in Closure(succ, {x}) : x \notin succ[b] PROVE FALSE
  OBVIOUS
<1>1. {x} \in SUBSET Lits /\ succ[x] \in SUBSET Lits
  OBVIOUS
<1> DEFINE Q == Closure(succ, {x}) \ {x}
<1>2. /\ {x} \subseteq Closure(succ, {x})
      /\ Closure(succ, {x}) \in SUBSET Lits
      /\ \A v \in Closure(succ, {x}) : succ[v] \subseteq Closure(succ, {x})
  BY <1>1, ClosureFacts
<1>3. Q \in SUBSET Lits /\ succ[x] \subseteq Q /\ \A v \in Q : succ[v] \subseteq Q
  BY <1>2
<1>4. x \notin Q
  OBVIOUS
<1> HIDE DEF Q
<1>5. Closure(succ, succ[x]) \subseteq Q
  BY <1>1, <1>3, ClosureFacts
<1> QED
  BY <1>4, <1>5

\* Going back as far as possible: some literal of U leads to q, and every literal
\* of U that leads to it is reached from it in turn.
LEMMA FurthestBack ==
  ASSUME NEW succ \in [Lits -> SUBSET Lits], NEW U \in SUBSET Lits, NEW q \in U
  PROVE  \E x \in U : /\ q \in Closure(succ, {x})
                      /\ \A y \in U : x \in Closure(succ, {y}) => y \in Closure(succ, {x})
<1> DEFINE Back(x) == {y \in U : x \in Closure(succ, {y})}
<1> DEFINE A == {x \in U : q \in Closure(succ, {x})}
<1> DEFINE T == {Back(x) : x \in A}
<1>1. q \in A
  BY ClosureStep
<1>2. T \in SUBSET (SUBSET Lits) /\ T # {}
  <2>1. \A x : Back(x) \in SUBSET Lits
    OBVIOUS
  <2> HIDE DEF Back, A
  <2>2. Back(q) \in T
    BY <1>1
  <2> QED
    BY <2>1, <2>2
<1>3. \E X \in T : \A Y \in T : Y \subseteq X => Y = X
  <2> HIDE DEF T
  <2> QED
    BY <1>2, LitsFinite, SmallestSet
<1>4. PICK x \in A : \A Y \in T : Y \subseteq Back(x) => Y = Back(x)
  BY <1>3
<1>5. ASSUME NEW y \in U, x \in Closure(succ, {y}) PROVE y \in Closure(succ, {x})
  <2>1. x \in Lits /\ y \in Lits /\ q \in Closure(succ, {x})
    BY <1>4
  <2>2. q \in Closure(succ, {y})
    BY <1>5, <2>1, ClosureTransitive
  <2>3. Back(y) \subseteq Back(x)
    BY <1>5, <2>1, ClosureTransitive
  <2>4. Back(y) \in T
    BY <1>5, <2>2
  <2>5. Back(y) = Back(x)
    BY <1>4, <2>3, <2>4
  <2>6. x \in Back(x)
    BY <1>4, <2>1, ClosureStep
  <2> QED
    BY <2>5, <2>6
<1> QED
  BY <1>4, <1>5

\* Growing a set by successors until nothing is added ends in the closure.
LEMMA GrowthIsClosure ==
  ASSUME NEW succ \in [Lits -> SUBSET Lits], NEW nx \in [SUBSET Lits -> SUBSET Lits],
         \A S \in SUBSET Lits : nx[S] = S \cup UNION {succ[x] : x \in S},
         NEW G, IsLimit(SUBSET Lits, nx, G), NEW S0 \in SUBSET Lits
  PROVE  G[S0] = Closure(succ, S0)
<1> DEFINE m == [S \in SUBSET Lits |-> Lits \ S]
<1>1. m \in [SUBSET Lits -> SUBSET Lits]
  OBVIOUS
<1>2. ASSUME NEW S \in SUBSET Lits
      PROVE  m[nx[S]] \subseteq m[S] /\ (m[nx[S]] = m[S] => nx[S] = S)
  <2>1. nx[S] \in SUBSET Lits /\ S \subseteq nx[S]
    OBVIOUS
  <2>2. m[nx[S]] = Lits \ nx[S] /\ m[S] = Lits \ S
    BY <2>1
  <2>3. Lits \ nx[S] = Lits \ S => nx[S] \subseteq S
    BY <2>1
  <2> QED
    BY <2>1, <2>2, <2>3
<1>3. G[S0] \in Iterates(SUBSET Lits, nx, S0) /\ nx[G[S0]] = G[S0]
  <2> DEFINE D == SUBSET Lits
  <2>1. /\ nx \in [D -> D] /\ m \in [D -> SUBSET Lits] /\ IsLimit(D, nx, G) /\ S0 \in D
        /\ \A d \in D : m[nx[d]] \subseteq m[d] /\ (m[nx[d]] = m[d] => nx[d] = d)
    BY <1>1, <1>2
  <2> HIDE DEF D, m
  <2>2. G[S0] \in Iterates(D, nx, S0) /\ nx[G[S0]] = G[S0]
    BY <2>1, LitsFinite, LimitReached
  <2> QED
    BY <2>2 DEF D
<1> HIDE DEF m
<1>4. G[S0] \in SUBSET Lits
  BY <1>3 DEF Iterates
<1>5. \A x \in G[S0] : succ[x] \subseteq G[S0]
  <2>1. G[S0] = G[S0] \cup UNION {succ[x] : x \in G[S0]}
    BY <1>3, <1>4
  <2>2. UNION {succ[x] : x \in G[S0]} \subseteq G[S0]
    BY <2>1
  <2> QED
    BY <2>2
<1> DEFINE B == {S \in SUBSET Lits : S0 \subseteq S /\ S \subseteq Closure(succ, S0)}
<1>6. S0 \in B
  BY ClosureFacts
<1>7. ASSUME NEW S \in B PROVE nx[S] \in B
  <2>1. nx[S] = S \cup UNION {succ[x] : x \in S} /\ nx[S] \in SUBSET Lits
    OBVIOUS
  <2>2. \A x \in S : succ[x] \subseteq Closure(succ, S0)
    BY ClosureFacts
  <2> QED
    BY <2>1, <2>2
<1>8. B \in SUBSET (SUBSET Lits) /\ ClosedUnderRound(nx, B)
  BY <1>7 DEF ClosedUnderRound
<1>9. G[S0] \in B
  BY <1>3, <1>6, <1>8 DEF Iterates
<1>10. S0 \subseteq G[S0] /\ G[S0] \subseteq Closure(succ, S0)
  BY <1>9
<1>11. Closure(succ, S0) \subseteq G[S0]
  BY <1>4, <1>5, <1>10 DEF Closure
<1> QED
  BY <1>10, <1>11

\* The successor functions of the two graphs of a theory.
Supports(t) == [q \in Lits |-> SupportSucc(t, q)]
Depends(t)  == [q \in Lits |-> DependSucc(t, q)]

\* Both graphs are graphs on the literals, and a supporting edge is a dependency.
LEMMA GraphsOnLits ==
  ASSUME NEW t, TheoryLits(t)
  PROVE  /\ Supports(t) \in [Lits -> SUBSET Lits]
         /\ Depends(t) \in [Lits -> SUBSET Lits]
         /\ \A q \in Lits : Supports(t)[q] \subseteq Depends(t)[q]
<1>1. \A r \in DOMAIN t.rules : t.rules[r].head \in Lits /\ Compl(t.rules[r].head) \in Lits
  BY ComplLits DEF TheoryLits
<1>2. \A q : SupportSucc(t, q) \in SUBSET Lits
  BY <1>1 DEF SupportSucc
<1>3. \A q : DependSucc(t, q) \in SUBSET Lits
  BY <1>1 DEF DependSucc
<1>4. \A q : SupportSucc(t, q) \subseteq DependSucc(t, q)
  BY DEF SupportSucc, DependSucc
<1> QED
  BY <1>2, <1>3, <1>4 DEF Supports, Depends

\* SupportReach computes the closure of the support graph.
LEMMA SupportReachClosure ==
  ASSUME NEW t, TheoryLits(t), NEW q \in Lits
  PROVE  SupportReach(t, q) = Closure(Supports(t), {q})
<1> DEFINE near(S) == S \cup UNION {SupportSucc(t, x) : x \in S}
<1> DEFINE nx == [S \in SUBSET Lits |-> near(S)]
<1> DEFINE F == CHOOSE f : f = [S \in SUBSET Lits |-> IF near(S) = S THEN S ELSE f[near(S)]]
<1>0. Supports(t) \in [Lits -> SUBSET Lits]
  BY GraphsOnLits
<1>1. ASSUME NEW S \in SUBSET Lits PROVE near(S) = S \cup UNION {Supports(t)[x] : x \in S}
  BY DEF Supports
<1>2. nx \in [SUBSET Lits -> SUBSET Lits]
  BY <1>0, <1>1
<1>3. \A G : IsLimit(SUBSET Lits, nx, G)
               <=> G = [S \in SUBSET Lits |-> IF near(S) = S THEN S ELSE G[near(S)]]
  <2>1. ASSUME NEW G
        PROVE  [S \in SUBSET Lits |-> IF nx[S] = S THEN S ELSE G[nx[S]]]
                 = [S \in SUBSET Lits |-> IF near(S) = S THEN S ELSE G[near(S)]]
    OBVIOUS
  <2> QED
    BY <2>1 DEF IsLimit
<1>4. SupportReach(t, q) = F[{q}]
  BY DEF SupportReach
<1>5. \A S \in SUBSET Lits : nx[S] = S \cup UNION {Supports(t)[x] : x \in S}
  BY <1>1
<1> HIDE DEF near, nx
<1>6. \E G : IsLimit(SUBSET Lits, nx, G)
  BY <1>2, LimitExists
<1>7. IsLimit(SUBSET Lits, nx, F)
  BY <1>3, <1>6
<1> HIDE DEF F
<1>8. {q} \in SUBSET Lits
  OBVIOUS
<1>9. F[{q}] = Closure(Supports(t), {q})
  BY <1>0, <1>2, <1>5, <1>7, <1>8, GrowthIsClosure
<1> QED
  BY <1>4, <1>9

\* DependReach computes the closure of the dependency graph.
LEMMA DependReachClosure ==
  ASSUME NEW t, TheoryLits(t), NEW S0 \in SUBSET Lits
  PROVE  DependReach(t, S0) = Closure(Depends(t), S0)
<1> DEFINE near(S) == S \cup UNION {DependSucc(t, x) : x \in S}
<1> DEFINE nx == [S \in SUBSET Lits |-> near(S)]
<1> DEFINE F == CHOOSE f : f = [S \in SUBSET Lits |-> IF near(S) = S THEN S ELSE f[near(S)]]
<1>0. Depends(t) \in [Lits -> SUBSET Lits]
  BY GraphsOnLits
<1>1. ASSUME NEW S \in SUBSET Lits PROVE near(S) = S \cup UNION {Depends(t)[x] : x \in S}
  BY DEF Depends
<1>2. nx \in [SUBSET Lits -> SUBSET Lits]
  BY <1>0, <1>1
<1>3. \A G : IsLimit(SUBSET Lits, nx, G)
               <=> G = [S \in SUBSET Lits |-> IF near(S) = S THEN S ELSE G[near(S)]]
  <2>1. ASSUME NEW G
        PROVE  [S \in SUBSET Lits |-> IF nx[S] = S THEN S ELSE G[nx[S]]]
                 = [S \in SUBSET Lits |-> IF near(S) = S THEN S ELSE G[near(S)]]
    OBVIOUS
  <2> QED
    BY <2>1 DEF IsLimit
<1>4. DependReach(t, S0) = F[S0]
  BY DEF DependReach
<1>5. \A S \in SUBSET Lits : nx[S] = S \cup UNION {Depends(t)[x] : x \in S}
  BY <1>1
<1> HIDE DEF near, nx
<1>6. \E G : IsLimit(SUBSET Lits, nx, G)
  BY <1>2, LimitExists
<1>7. IsLimit(SUBSET Lits, nx, F)
  BY <1>3, <1>6
<1> HIDE DEF F
<1>9. F[S0] = Closure(Depends(t), S0)
  BY <1>0, <1>2, <1>5, <1>7, GrowthIsClosure
<1> QED
  BY <1>4, <1>9

-----------------------------------------------------------------------------
(* Stalls.                                                                 *)

\* The two closures, as the attacked cycle of the property reads them.
LEMMA CycleReading ==
  ASSUME NEW t, TheoryLits(t), NEW x \in Lits
  PROVE  /\ OnDependCycle(t, x) <=> x \in Closure(Depends(t), Depends(t)[x])
         /\ DependReach(t, {x}) = Closure(Depends(t), {x})
<1>1. Depends(t)[x] = DependSucc(t, x) /\ DependSucc(t, x) \in SUBSET Lits /\ {x} \in SUBSET Lits
  BY GraphsOnLits DEF Depends
<1>2. DependReach(t, DependSucc(t, x)) = Closure(Depends(t), DependSucc(t, x))
  BY <1>1, DependReachClosure
<1>3. DependReach(t, {x}) = Closure(Depends(t), {x})
  BY <1>1, DependReachClosure
<1> QED
  BY <1>1, <1>2, <1>3 DEF OnDependCycle

\* An edge of the dependency graph to a literal has one to its complement beside it.
LEMMA DependsComplement ==
  ASSUME NEW t, TheoryLits(t), NEW b \in Lits, NEW v \in Depends(t)[b]
  PROVE  Compl(v) \in Depends(t)[b]
<1>1. PICK r \in DOMAIN t.rules : b \in t.rules[r].body
                                 /\ v \in {t.rules[r].head, Compl(t.rules[r].head)}
  BY DEF Depends, DependSucc
<1>2. t.rules[r].head \in Lits
  BY DEF TheoryLits
<1>3. Compl(v) \in {t.rules[r].head, Compl(t.rules[r].head)}
  BY <1>1, <1>2, ComplLits
<1> QED
  BY <1>1, <1>3 DEF Depends, DependSucc

\* What a cycle of the dependency graph leads to, it leads to with its complement.
LEMMA CycleReachesBoth ==
  ASSUME NEW t, TheoryLits(t), NEW x \in Lits, x \in Closure(Depends(t), Depends(t)[x]),
         NEW y \in Closure(Depends(t), {x})
  PROVE  Compl(y) \in Closure(Depends(t), {x})
<1> DEFINE C == Closure(Depends(t), {x})
<1> DEFINE Q == {v \in C : Compl(v) \in C}
<1>0. Depends(t) \in [Lits -> SUBSET Lits] /\ {x} \in SUBSET Lits
  BY GraphsOnLits
<1>1. C \in SUBSET Lits /\ x \in C /\ \A v \in C : Depends(t)[v] \subseteq C
  BY <1>0, ClosureFacts
<1>2. PICK b \in C : x \in Depends(t)[b]
  BY <1>0, CyclePredecessor
<1>3. x \in Q
  BY <1>1, <1>2, DependsComplement
<1>4. \A v \in Q : Depends(t)[v] \subseteq Q
  BY <1>1, DependsComplement
<1>5. Q \in SUBSET Lits /\ {x} \subseteq Q
  BY <1>1, <1>3
<1>6. C \subseteq Q
  <2> HIDE DEF Q
  <2> QED
    BY <1>0, <1>4, <1>5, ClosureFacts
<1> QED
  BY <1>6

\* A literal that reaches a cycle and is reached from it is on a cycle.
LEMMA CycleShared ==
  ASSUME NEW succ \in [Lits -> SUBSET Lits], NEW x \in Lits, NEW a \in Lits,
         x \in Closure(succ, succ[x]), a \in Closure(succ, {x}), x \in Closure(succ, {a})
  PROVE  a \in Closure(succ, succ[a])
<1>1. CASE a = x
  BY <1>1
<1>2. CASE a # x
  <2>1. x \in Closure(succ, succ[a])
    BY <1>2, ClosureFirstStep
  <2>2. succ[a] \in SUBSET Lits /\ {x} \in SUBSET Lits
    OBVIOUS
  <2>3. /\ Closure(succ, succ[a]) \in SUBSET Lits
        /\ \A v \in Closure(succ, succ[a]) : succ[v] \subseteq Closure(succ, succ[a])
    BY <2>2, ClosureFacts
  <2>4. {x} \subseteq Closure(succ, succ[a])
    BY <2>1
  <2>5. Closure(succ, {x}) \subseteq Closure(succ, succ[a])
    BY <2>2, <2>3, <2>4, ClosureFacts
  <2> QED
    BY <2>5
<1> QED
  BY <1>1, <1>2

\* The support component of a literal: what it reaches and is reached from.
LEMMA SccReading ==
  ASSUME NEW t, TheoryLits(t), NEW x \in Lits
  PROVE  \A y : y \in SupportSccs(t)[x]
                 <=> /\ y \in Lits
                     /\ y \in Closure(Supports(t), {x})
                     /\ x \in Closure(Supports(t), {y})
<1>1. SupportSccs(t)[x] = {y \in Lits : y \in SupportReach(t, x) /\ x \in SupportReach(t, y)}
  BY DEF SupportSccs
<1> QED
  BY <1>1, SupportReachClosure

\* A component that holds an edge is cyclic.
LEMMA CyclicByEdge ==
  ASSUME NEW t, TheoryLits(t), NEW c \in SUBSET Lits, NEW x \in c, NEW b \in c,
         x \in Supports(t)[b]
  PROVE  CyclicScc(t, c)
<1>1. CASE b = x
  BY <1>1 DEF CyclicScc, Supports
<1>2. CASE b # x
  <2>1. IsFiniteSet(c) /\ IsFiniteSet({x})
    BY LitsFinite, FS_Subset, FS_Singleton
  <2>2. Cardinality(c) \in Nat /\ Cardinality({x}) = 1
    BY <2>1, FS_CardinalityType, FS_Singleton
  <2>3. Cardinality({x}) <= Cardinality(c) /\ (Cardinality({x}) = Cardinality(c) => {x} = c)
    BY <2>1, FS_Subset
  <2>4. {x} # c
    BY <1>2
  <2>5. Cardinality(c) > 1
    BY <2>2, <2>3, <2>4
  <2> QED
    BY <2>5 DEF CyclicScc
<1> QED
  BY <1>1, <1>2

\* The reason found: an attacked literal on a dependency cycle that leads to q.
AttackedCycle(t, q) ==
  \E x \in Lits : /\ OnDependCycle(t, x)
                  /\ Attacked(t, x)
                  /\ q \in DependReach(t, {x})

\* The reason for a literal is a reason for all it leads to.
LEMMA ReasonPassedOn ==
  ASSUME NEW t, TheoryLits(t), NEW v \in Lits, AttackedCycle(t, v),
         NEW q \in Closure(Depends(t), {v})
  PROVE  AttackedCycle(t, q)
<1>1. PICK x \in Lits : /\ OnDependCycle(t, x)
                        /\ Attacked(t, x)
                        /\ v \in DependReach(t, {x})
  BY DEF AttackedCycle
<1>2. Depends(t) \in [Lits -> SUBSET Lits]
  BY GraphsOnLits
<1>3. v \in Closure(Depends(t), {x})
  BY <1>1, CycleReading
<1>4. q \in Closure(Depends(t), {x})
  BY <1>2, <1>3, ClosureTransitive
<1> QED
  BY <1>1, <1>4, CycleReading DEF AttackedCycle

\* A reason for the complement is a reason.
LEMMA ReasonForBoth ==
  ASSUME NEW t, TheoryLits(t), NEW v \in Lits, AttackedCycle(t, Compl(v))
  PROVE  AttackedCycle(t, v)
<1>1. PICK x \in Lits : /\ OnDependCycle(t, x)
                        /\ Attacked(t, x)
                        /\ Compl(v) \in DependReach(t, {x})
  BY DEF AttackedCycle
<1>2. x \in Closure(Depends(t), Depends(t)[x]) /\ Compl(v) \in Closure(Depends(t), {x})
  BY <1>1, CycleReading
<1>3. Compl(Compl(v)) \in Closure(Depends(t), {x})
  BY <1>2, CycleReachesBoth
<1>4. Compl(Compl(v)) = v
  BY ComplLits
<1> QED
  BY <1>1, <1>3, <1>4, CycleReading DEF AttackedCycle

\* A rule that supports in either layer makes edges of the support graph.
LEMMA SupportEdge ==
  ASSUME NEW t, TheoryLits(t), NEW v \in Lits, NEW strictOnly,
         NEW r \in LayerSupport(t, v, strictOnly), NEW b \in t.rules[r].body
  PROVE  b \in Lits /\ v \in Supports(t)[b] /\ v \in Closure(Supports(t), {b})
<1>1. r \in DOMAIN t.rules /\ t.rules[r].head = v /\ t.rules[r].kind # DL_DEFEATER
  BY DEF LayerSupport, StrictFor, SupportersOf, RulesFor
<1>2. b \in Lits
  BY <1>1 DEF TheoryLits
<1>3. v \in Supports(t)[b]
  BY <1>1, <1>2 DEF Supports, SupportSucc
<1> QED
  BY <1>2, <1>3, GraphsOnLits, ClosureStep

StalledLayer(t, st, strictOnly) == \A q \in Lits : ~ Completes(t, st, SupportSccs(t)[q], strictOnly)

\* Undecided literals that all wait for one another, in a layer where nothing can
\* be completed, wait for a component some member of which is attacked.
LEMMA WaitingIsAttacked ==
  ASSUME NEW t, TheoryLits(t), NEW st \in Status, NEW strictOnly, StalledLayer(t, st, strictOnly),
         NEW V \in SUBSET UndecidedIn(st), NEW q \in V,
         \A v \in V, y \in UndecidedIn(st) : v \in Closure(Supports(t), {y}) => y \in V,
         \A v \in V : \E b \in V : v \in Supports(t)[b]
  PROVE  AttackedCycle(t, q)
<1>0. /\ Supports(t) \in [Lits -> SUBSET Lits] /\ Depends(t) \in [Lits -> SUBSET Lits]
      /\ \A y \in Lits : Supports(t)[y] \subseteq Depends(t)[y]
      /\ V \in SUBSET Lits
  BY GraphsOnLits DEF UndecidedIn
<1>1. PICK x \in V : /\ q \in Closure(Supports(t), {x})
                     /\ \A y \in V : x \in Closure(Supports(t), {y})
                                     => y \in Closure(Supports(t), {x})
  BY <1>0, FurthestBack
<1>2. x \in Lits /\ st[x] = DL_UNDECIDED
  BY DEF UndecidedIn
<1> DEFINE c == SupportSccs(t)[x]
<1>3. \A y : y \in c <=> /\ y \in Lits
                         /\ y \in Closure(Supports(t), {x})
                         /\ x \in Closure(Supports(t), {y})
  BY <1>2, SccReading
<1>4. c \in SUBSET Lits /\ x \in c
  BY <1>0, <1>2, <1>3, ClosureStep
<1>5. PICK b \in V : x \in Supports(t)[b]
  OBVIOUS
<1>6. b \in Lits /\ b \in Closure(Supports(t), {x}) /\ x \in Closure(Supports(t), {b})
  BY <1>0, <1>1, <1>5, ClosureStep
<1>7. b \in c
  BY <1>3, <1>6
<1> HIDE DEF c
<1>8. CyclicScc(t, c)
  BY <1>4, <1>5, <1>7, CyclicByEdge
<1>9. ~ BlockedScc(t, st, c, strictOnly)
  <2> SUFFICES ASSUME NEW m \in c, NEW r \in LayerSupport(t, m, strictOnly),
                      NEW y \in t.rules[r].body, st[y] = DL_UNDECIDED
               PROVE  y \in c
    BY DEF BlockedScc
  <2>1. m \in Lits /\ x \in Closure(Supports(t), {m})
    BY <1>3
  <2>2. y \in Lits /\ m \in Closure(Supports(t), {y})
    BY <2>1, SupportEdge
  <2>3. x \in Closure(Supports(t), {y})
    BY <1>0, <2>1, <2>2, ClosureTransitive
  <2>4. y \in V
    BY <2>2, <2>3 DEF UndecidedIn
  <2> QED
    BY <1>1, <1>3, <2>2, <2>3, <2>4
<1>10. AttackedScc(t, c)
  BY <1>2, <1>4, <1>8, <1>9 DEF StalledLayer, Completes, c
<1>11. PICK a \in c : Attacked(t, a)
  BY <1>10 DEF AttackedScc
<1>12. a \in Lits /\ a \in Closure(Supports(t), {x}) /\ x \in Closure(Supports(t), {a})
  BY <1>3
<1>13. \A y \in Lits : Closure(Supports(t), {y}) \subseteq Closure(Depends(t), {y})
  BY <1>0, ClosureMonotone
<1>14. x \in Closure(Depends(t), Depends(t)[x])
  <2>1. b \in Closure(Depends(t), {x}) /\ x \in Depends(t)[b]
    BY <1>0, <1>2, <1>5, <1>6, <1>13
  <2> QED
    BY <1>0, <1>2, <2>1, ClosureCycle
<1>15. a \in Closure(Depends(t), {x}) /\ x \in Closure(Depends(t), {a})
  BY <1>2, <1>12, <1>13
<1>16. a \in Closure(Depends(t), Depends(t)[a])
  BY <1>0, <1>2, <1>12, <1>14, <1>15, CycleShared
<1>17. q \in Closure(Depends(t), {x})
  BY <1>1, <1>2, <1>13
<1>18. AttackedCycle(t, x)
  BY <1>11, <1>12, <1>15, <1>16, CycleReading DEF AttackedCycle
<1> QED
  BY <1>2, <1>17, <1>18, ReasonPassedOn

\* A literal left undecided in the definite layer has a reason.
LEMMA DeltaStallReason ==
  ASSUME NEW t, TheoryLits(t), NEW d \in Status, DeltaStops(t, SupportSccs(t), d),
         NEW q \in Lits, d[q] = DL_UNDECIDED
  PROVE  AttackedCycle(t, q)
<1> DEFINE U == UndecidedIn(d)
<1>1. ASSUME NEW v \in U PROVE \E b \in U : v \in Supports(t)[b]
  <2>1. v \in Lits /\ EvalDelta(t, d, v) = DL_UNDECIDED
    BY DEF UndecidedIn, DeltaStops
  <2>2. ~ DeltaProves(t, d, v) /\ ~ DeltaRefutes(t, d, v)
    BY <2>1 DEF EvalDelta
  <2>3. PICK r \in StrictFor(t, v) : ~ BodySome(t, r, d, DL_REFUTED)
    BY <2>2 DEF DeltaRefutes
  <2>4. ~ BodyAll(t, r, d, DL_PROVED)
    BY <2>2, <2>3 DEF DeltaProves
  <2>5. PICK b \in t.rules[r].body : d[b] # DL_PROVED
    BY <2>4 DEF BodyAll
  <2>6. r \in LayerSupport(t, v, TRUE)
    BY <2>3 DEF LayerSupport
  <2>7. b \in Lits /\ v \in Supports(t)[b]
    BY <2>1, <2>5, <2>6, SupportEdge
  <2>8. d[b] # DL_REFUTED /\ d[b] \in Verdict
    BY <2>3, <2>5, <2>7 DEF BodySome, Status
  <2>9. b \in U
    BY <2>5, <2>7, <2>8 DEF Verdict, UndecidedIn
  <2> QED
    BY <2>7, <2>9
<1>2. StalledLayer(t, d, TRUE)
  BY DEF DeltaStops, StalledLayer
<1>3. U \in SUBSET UndecidedIn(d) /\ q \in U /\ \A y \in UndecidedIn(d) : y \in U
  BY DEF UndecidedIn
<1> HIDE DEF U
<1>4. \A v \in U, y \in UndecidedIn(d) : v \in Closure(Supports(t), {y}) => y \in U
  BY <1>3
<1>5. \A v \in U : \E b \in U : v \in Supports(t)[b]
  BY <1>1
<1> QED
  BY <1>2, <1>3, <1>4, <1>5, WaitingIsAttacked

\* A rule neither applicable nor discarded reads an undecided literal.
LEMMA OpenRule ==
  ASSUME NEW t, TheoryLits(t), NEW p \in Status, NEW r \in DOMAIN t.rules,
         ~ Applicable(t, p, r), ~ Discarded(t, p, r)
  PROVE  \E b \in UndecidedIn(p) : b \in t.rules[r].body
<1>1. PICK b \in t.rules[r].body : p[b] # DL_PROVED
  BY DEF Applicable, BodyAll
<1>2. b \in Lits /\ p[b] # DL_REFUTED
  BY DEF TheoryLits, Discarded, BodySome
<1>3. p[b] \in Verdict
  BY <1>2 DEF Status
<1> QED
  BY <1>1, <1>2, <1>3 DEF Verdict, UndecidedIn

\* A literal the defeasible layer cannot decide, with its definite layer decided,
\* depends on an undecided one; if it is unattacked, through a supporting rule.
LEMMA PartWaits ==
  ASSUME NEW t, TheoryLits(t), NEW d \in Status, NEW p \in Status, NEW v \in Lits,
         EvalPart(t, d, p, v) = DL_UNDECIDED,
         d[v] # DL_UNDECIDED, d[Compl(v)] # DL_UNDECIDED
  PROVE  /\ \E b \in UndecidedIn(p) : v \in Depends(t)[b]
         /\ ~ Attacked(t, v) => \E b \in UndecidedIn(p) : v \in Supports(t)[b]
<1>0. Compl(v) \in Lits /\ Compl(Compl(v)) = v /\ UndecidedIn(p) \in SUBSET Lits
  BY ComplLits DEF UndecidedIn
<1>1. ~ PartProves(t, d, p, v) /\ ~ PartRefutes(t, d, p, v)
  BY DEF EvalPart
<1>2. d[v] \in Verdict /\ d[Compl(v)] \in Verdict
  BY <1>0 DEF Status
<1>3. d[v] = DL_REFUTED
  BY <1>1, <1>2 DEF Verdict, PartProves
<1>4. d[Compl(v)] = DL_REFUTED
  BY <1>1, <1>2, <1>3 DEF Verdict, PartRefutes
<1>5. ~ NotSupported(t, p, v) /\ ~ AttackerUncountered(t, p, v)
  BY <1>1, <1>3 DEF PartRefutes
<1>6. ~ (Supported(t, p, v) /\ AllAttackersCountered(t, p, v))
  BY <1>1, <1>4 DEF PartProves
<1>7. ASSUME NEW r \in SupportersOf(t, v), ~ Applicable(t, p, r), ~ Discarded(t, p, r)
      PROVE  \E b \in UndecidedIn(p) : v \in Supports(t)[b] /\ v \in Depends(t)[b]
  <2>1. r \in DOMAIN t.rules /\ t.rules[r].kind # DL_DEFEATER /\ t.rules[r].head = v
    BY DEF SupportersOf, RulesFor
  <2>2. PICK b \in UndecidedIn(p) : b \in t.rules[r].body
    BY <1>7, <2>1, OpenRule
  <2>3. v \in SupportSucc(t, b) /\ v \in DependSucc(t, b)
    BY <2>1, <2>2 DEF SupportSucc, DependSucc
  <2> QED
    BY <1>0, <2>2, <2>3 DEF Supports, Depends
<1>8. ASSUME NEW s \in RulesFor(t, Compl(v)), ~ Applicable(t, p, s), ~ Discarded(t, p, s)
      PROVE  \E b \in UndecidedIn(p) : v \in Depends(t)[b]
  <2>1. s \in DOMAIN t.rules /\ Compl(t.rules[s].head) = v
    BY <1>0 DEF RulesFor
  <2>2. PICK b \in UndecidedIn(p) : b \in t.rules[s].body
    BY <1>8, <2>1, OpenRule
  <2>3. v \in DependSucc(t, b)
    BY <2>1, <2>2 DEF DependSucc
  <2> QED
    BY <1>0, <2>2, <2>3 DEF Depends
<1>9. CASE ~ Supported(t, p, v)
  <2>1. PICK r \in SupportersOf(t, v) : ~ Discarded(t, p, r)
    BY <1>5 DEF NotSupported
  <2>2. ~ Applicable(t, p, r)
    BY <1>9, <2>1 DEF Supported
  <2> QED
    BY <1>7, <2>1, <2>2
<1>10. CASE Supported(t, p, v)
  <2>1. PICK s \in RulesFor(t, Compl(v)) : ~ Countered(t, p, s, v)
    BY <1>6, <1>10 DEF AllAttackersCountered
  <2>2. ~ Discarded(t, p, s) /\ \A r \in Defenders(t, s, v) : ~ Applicable(t, p, r)
    BY <2>1 DEF Countered
  <2>3. CASE ~ Applicable(t, p, s)
    BY <1>8, <2>1, <2>2, <2>3 DEF Attacked
  <2>4. CASE Applicable(t, p, s)
    <3>1. PICK r \in Defenders(t, s, v) : ~ Discarded(t, p, r)
      BY <1>5, <2>1, <2>4 DEF AttackerUncountered
    <3>2. r \in SupportersOf(t, v) /\ ~ Applicable(t, p, r)
      BY <2>2, <3>1 DEF Defenders
    <3> QED
      BY <1>7, <3>1, <3>2
  <2> QED
    BY <2>3, <2>4, <2>1 DEF Attacked
<1> QED
  BY <1>9, <1>10

\* A literal left undecided in the defeasible layer has a reason.
LEMMA PartStallReason ==
  ASSUME NEW t, TheoryLits(t), NEW d \in Status, NEW p \in Status,
         DeltaStops(t, SupportSccs(t), d), PartStops(t, SupportSccs(t), d, p),
         NEW q \in Lits, p[q] = DL_UNDECIDED
  PROVE  AttackedCycle(t, q)
<1> DEFINE U == UndecidedIn(p)
<1>0. /\ Supports(t) \in [Lits -> SUBSET Lits] /\ Depends(t) \in [Lits -> SUBSET Lits]
      /\ U \in SUBSET Lits /\ q \in U
  BY GraphsOnLits DEF UndecidedIn
<1>m. \A y \in Lits : Closure(Supports(t), {y}) \subseteq Closure(Depends(t), {y})
  BY GraphsOnLits, ClosureMonotone
<1>1. PICK x \in U : /\ q \in Closure(Depends(t), {x})
                     /\ \A y \in U : x \in Closure(Depends(t), {y})
                                     => y \in Closure(Depends(t), {x})
  <2> HIDE DEF U
  <2> QED
    BY <1>0, FurthestBack
<1> DEFINE V == {y \in U : x \in Closure(Depends(t), {y})}
<1>2. x \in V /\ V \in SUBSET U /\ V \in SUBSET Lits
  BY <1>0, ClosureStep
<1>3. ASSUME NEW v \in V, AttackedCycle(t, v) PROVE AttackedCycle(t, q)
  <2>1. x \in Closure(Depends(t), {v}) /\ v \in Lits
    BY <1>2
  <2>2. AttackedCycle(t, x)
    BY <1>3, <2>1, ReasonPassedOn
  <2> QED
    BY <1>1, <1>2, <2>2, ReasonPassedOn
<1>4. \A v \in V, y \in U : v \in Closure(Depends(t), {y}) => y \in V
  BY <1>0, <1>2, ClosureTransitive
<1>5. CASE \E v \in V : d[v] = DL_UNDECIDED \/ d[Compl(v)] = DL_UNDECIDED
  <2>1. PICK v \in V : d[v] = DL_UNDECIDED \/ d[Compl(v)] = DL_UNDECIDED
    BY <1>5
  <2>2. v \in Lits /\ Compl(v) \in Lits
    BY <1>2, ComplLits
  <2>3. AttackedCycle(t, v) \/ AttackedCycle(t, Compl(v))
    BY <2>1, <2>2, DeltaStallReason
  <2>4. AttackedCycle(t, v)
    BY <2>2, <2>3, ReasonForBoth
  <2> QED
    BY <1>3, <2>4
<1>6. CASE \A v \in V : d[v] # DL_UNDECIDED /\ d[Compl(v)] # DL_UNDECIDED
  <2>1. ASSUME NEW v \in V
        PROVE  /\ \E b \in V : v \in Depends(t)[b]
               /\ ~ Attacked(t, v) => \E b \in V : v \in Supports(t)[b]
    <3>1. v \in Lits /\ p[v] = DL_UNDECIDED
      BY <1>2 DEF UndecidedIn
    <3>2. EvalPart(t, d, p, v) = DL_UNDECIDED
      BY <3>1 DEF PartStops
    <3>3. /\ \E b \in U : v \in Depends(t)[b]
          /\ ~ Attacked(t, v) => \E b \in U : v \in Supports(t)[b]
      BY <1>6, <3>1, <3>2, PartWaits
    <3>4. ASSUME NEW b \in U, v \in Depends(t)[b] \/ v \in Supports(t)[b] PROVE b \in V
      <4>1. v \in Closure(Depends(t), {b})
        BY <1>0, <3>4, GraphsOnLits, ClosureStep
      <4> QED
        BY <1>4, <4>1
    <3> HIDE DEF U, V
    <3> QED
      BY <3>3, <3>4
  <2>2. CASE \E v \in V : Attacked(t, v)
    <3>1. PICK v \in V : Attacked(t, v)
      BY <2>2
    <3>2. PICK b \in V : v \in Depends(t)[b]
      BY <2>1
    <3>3. v \in Lits /\ b \in Lits /\ x \in Lits
      BY <1>2
    <3>4. b \in Closure(Depends(t), {x}) /\ x \in Closure(Depends(t), {v})
      BY <1>1
    <3>5. b \in Closure(Depends(t), {v})
      BY <1>0, <3>3, <3>4, ClosureTransitive
    <3>6. v \in Closure(Depends(t), Depends(t)[v]) /\ v \in Closure(Depends(t), {v})
      BY <1>0, <3>2, <3>3, <3>5, ClosureCycle, ClosureStep
    <3>7. AttackedCycle(t, v)
      BY <3>1, <3>3, <3>6, CycleReading DEF AttackedCycle
    <3> QED
      BY <1>3, <3>7
  <2>3. CASE \A v \in V : ~ Attacked(t, v)
    <3>1. \A v \in V : \E b \in V : v \in Supports(t)[b]
      BY <2>1, <2>3
    <3>2. \A v \in V, y \in UndecidedIn(p) : v \in Closure(Supports(t), {y}) => y \in V
      BY <1>0, <1>4, <1>m
    <3>3. StalledLayer(t, p, FALSE)
      BY DEF PartStops, StalledLayer
    <3>4. V \in SUBSET UndecidedIn(p)
      OBVIOUS
    <3> HIDE DEF U, V
    <3>5. AttackedCycle(t, x)
      BY <1>2, <3>1, <3>2, <3>3, <3>4, WaitingIsAttacked
    <3> QED
      BY <1>2, <1>3, <3>5
  <2> QED
    BY <2>2, <2>3
<1> QED
  BY <1>5, <1>6

-----------------------------------------------------------------------------
(* One whole solve, read literal by literal.                               *)

\* The two layers of a solve are sound and final.
LEMMA SolvedLayers ==
  ASSUME NEW t, TheoryLits(t), NEW sccs, AreSccs(sccs)
  PROVE  /\ DeltaFine(t, RefDelta(t, sccs))
         /\ DeltaStops(t, sccs, RefDelta(t, sccs))
         /\ PartFine(t, RefDelta(t, sccs), Verdicts(t, sccs))
         /\ PartStops(t, sccs, RefDelta(t, sccs), Verdicts(t, sccs))
<1> DEFINE d == RefDelta(t, sccs)
<1>1. DeltaFine(t, d) /\ DeltaStops(t, sccs, d)
  BY RefDeltaLimit
<1>2. d \in Status
  BY <1>1 DEF DeltaFine
<1> HIDE DEF d
<1>4. PartFine(t, d, RefPart(t, sccs, d)) /\ PartStops(t, sccs, d, RefPart(t, sccs, d))
  BY <1>2, RefPartLimit
<1> QED
  BY <1>1, <1>4 DEF d, Verdicts

\* A fact is proved, in both layers.
LEMMA FactProved ==
  ASSUME NEW t, TheoryLits(t), NEW sccs, AreSccs(sccs), NEW q \in t.facts
  PROVE  RefDelta(t, sccs)[q] = DL_PROVED /\ Verdicts(t, sccs)[q] = DL_PROVED
<1> DEFINE d == RefDelta(t, sccs)
           p == Verdicts(t, sccs)
<1>1. DeltaFine(t, d) /\ DeltaStops(t, sccs, d) /\ PartFine(t, d, p) /\ PartStops(t, sccs, d, p)
  BY SolvedLayers
<1> HIDE DEF d, p
<1>2. q \in Lits /\ d[q] \in Verdict /\ p[q] \in Verdict
  BY <1>1 DEF TheoryLits, DeltaFine, PartFine, Status
<1>3. d[q] # DL_REFUTED
  BY <1>1, <1>2 DEF DeltaFine
<1>4. d[q] # DL_UNDECIDED
  BY <1>1, <1>2 DEF DeltaStops, EvalDelta, DeltaProves
<1>5. d[q] = DL_PROVED
  BY <1>2, <1>3, <1>4 DEF Verdict
<1>6. p[q] # DL_REFUTED
  BY <1>1, <1>2, <1>5 DEF PartFine, CannotProve
<1>7. p[q] # DL_UNDECIDED
  BY <1>1, <1>2, <1>5 DEF PartStops, EvalPart, PartProves
<1> QED
  BY <1>2, <1>5, <1>6, <1>7 DEF d, p, Verdict

\* What is neither a fact nor strictly concluded is proved only by a rule that
\* applies, against an undefeated complement, with every attacker countered.
LEMMA ProvedByRule ==
  ASSUME NEW t, TheoryLits(t), NEW sccs, AreSccs(sccs), NEW q \in Lits,
         q \notin t.facts, StrictFor(t, q) = {}, Verdicts(t, sccs)[q] = DL_PROVED
  PROVE  /\ Compl(q) \notin t.facts
         /\ Supported(t, Verdicts(t, sccs), q)
         /\ AllAttackersCountered(t, Verdicts(t, sccs), q)
<1> DEFINE d == RefDelta(t, sccs)
           p == Verdicts(t, sccs)
<1>1. DeltaFine(t, d) /\ PartFine(t, d, p)
  BY SolvedLayers
<1>2. ASSUME Compl(q) \in t.facts PROVE d[Compl(q)] = DL_PROVED
  BY <1>2, FactProved
<1>3. p[q] = DL_PROVED
  OBVIOUS
<1> HIDE DEF d, p
<1>4. d[q] # DL_PROVED
  BY <1>1 DEF DeltaFine, DeltaProves
<1>5. PartProves(t, d, p, q)
  BY <1>1, <1>3 DEF PartFine
<1>6. d[Compl(q)] = DL_REFUTED /\ Supported(t, p, q) /\ AllAttackersCountered(t, p, q)
  BY <1>4, <1>5 DEF PartProves
<1> QED
  BY <1>2, <1>6 DEF p

\* An attacker that applies and that nothing beats keeps a literal unproved.
LEMMA AttackedNotProved ==
  ASSUME NEW t, TheoryLits(t), NEW sccs, AreSccs(sccs), NEW q \in Lits,
         q \notin t.facts, StrictFor(t, q) = {}, NEW s \in RulesFor(t, Compl(q)),
         Applicable(t, Verdicts(t, sccs), s), \A r : <<r, s>> \notin t.sups
  PROVE  Verdicts(t, sccs)[q] # DL_PROVED
<1> SUFFICES ASSUME Verdicts(t, sccs)[q] = DL_PROVED PROVE FALSE
  OBVIOUS
<1> DEFINE p == Verdicts(t, sccs)
<1>1. AllAttackersCountered(t, p, q) /\ Applicable(t, p, s)
  BY ProvedByRule
<1> HIDE DEF p
<1>2. Countered(t, p, s, q)
  BY <1>1 DEF AllAttackersCountered
<1>3. Discarded(t, p, s)
  BY <1>2 DEF Countered, Defenders
<1> QED
  BY <1>1, <1>3, BodyConsistent DEF Applicable, Discarded
-----------------------------------------------------------------------------
(* Two theories alike on some literals.                                    *)

\* What p decided on B, P decides alike.
BelowOn(B, p, P) == \A x \in B : p[x] # DL_UNDECIDED => P[x] = p[x]

\* p on B, P elsewhere.
Mix(B, p, P) == [x \in Lits |-> IF x \in B THEN p[x] ELSE P[x]]

\* The same facts, rules and superiorities about the literals of J, which read
\* nothing but literals of J.
SameOn(t1, t2, J) ==
  /\ J \in SUBSET Lits
  /\ \A q \in J : /\ Compl(q) \in J
                  /\ q \in t1.facts <=> q \in t2.facts
                  /\ RulesFor(t1, q) = RulesFor(t2, q)
                  /\ \A r \in RulesFor(t1, q) :
                       t1.rules[r] = t2.rules[r] /\ t1.rules[r].body \subseteq J
                  /\ \A r \in RulesFor(t1, q), s \in RulesFor(t1, Compl(q)) :
                       <<r, s>> \in t1.sups <=> <<r, s>> \in t2.sups

\* A rule that can never apply under P: it reads a literal of B that P refutes.
DeadRule(t, r, B, P) ==
  t.rules[r].kind # DL_STRICT /\ \E b \in t.rules[r].body : b \in B /\ P[b] = DL_REFUTED

\* The same facts about the literals of B, and the same rules but for dead ones.
AlikeOn(t1, t2, B, P) ==
  /\ B \in SUBSET Lits
  /\ \A q \in B :
       /\ Compl(q) \in B
       /\ q \in t1.facts <=> q \in t2.facts
       /\ \A r \in RulesFor(t1, q) \cap RulesFor(t2, q) :
            t1.rules[r] = t2.rules[r] /\ t1.rules[r].body \subseteq B
       /\ \A r \in RulesFor(t1, q) \ RulesFor(t2, q) : DeadRule(t1, r, B, P)
       /\ \A r \in RulesFor(t2, q) \ RulesFor(t1, q) : DeadRule(t2, r, B, P)
       /\ \A r \in RulesFor(t1, q) \cap RulesFor(t2, q),
             s \in RulesFor(t1, Compl(q)) \cap RulesFor(t2, Compl(q)) :
            <<r, s>> \in t1.sups <=> <<r, s>> \in t2.sups

\* What the cycle rule may complete with a member in B lies in J, where the
\* components of the two theories are the same.
SameLoops(t1, sccs1, sccs2, B, J) ==
  /\ \A z \in Lits : (\E x \in sccs1[z] : x \in B) =>
       ~ CyclicScc(t1, sccs1[z]) \/ AttackedScc(t1, sccs1[z]) \/ z \in J
  /\ \A z \in J : sccs1[z] \subseteq J /\ sccs2[z] = sccs1[z]

\* Everything t1 decides on B, t2 decides too, if P is what t2 decides.
Mirrored(t1, sccs1, t2, sccs2, B, J, P) ==
  /\ TheoryLits(t1) /\ AreSccs(sccs1) /\ TheoryLits(t2) /\ AreSccs(sccs2)
  /\ AlikeOn(t1, t2, B, P)
  /\ SameOn(t1, t2, J)
  /\ J \subseteq B
  /\ SameLoops(t1, sccs1, sccs2, B, J)

\* Mixed statuses lie below the one they are completed from.
LEMMA MixBelow ==
  ASSUME NEW p \in Status, NEW P \in Status, NEW B, BelowOn(B, p, P)
  PROVE  /\ Mix(B, p, P) \in Status /\ Extends(Mix(B, p, P), P)
         /\ \A x \in Lits : Mix(B, p, P)[x] = IF x \in B THEN p[x] ELSE P[x]
BY DEF Mix, Status, Extends, BelowOn

\* A component within J is completed in both theories or in neither.
LEMMA SameCompletes ==
  ASSUME NEW t1, NEW t2, NEW J, SameOn(t1, t2, J), NEW c, c \subseteq J,
         NEW p1, NEW p2, \A x \in J : p1[x] = p2[x], NEW layer, Completes(t1, p1, c, layer)
  PROVE  Completes(t2, p2, c, layer)
<1>1. \A x \in c : /\ Compl(x) \in J /\ RulesFor(t1, x) = RulesFor(t2, x)
                   /\ \A r \in RulesFor(t1, x) : t1.rules[r] = t2.rules[r] /\ t1.rules[r].body \subseteq J
  BY DEF SameOn
<1>2. CyclicScc(t2, c)
  <2>1. ASSUME NEW x \in c, x \in SupportSucc(t1, x) PROVE x \in SupportSucc(t2, x)
    <3>1. PICK r \in DOMAIN t1.rules :
            t1.rules[r].kind # DL_DEFEATER /\ x \in t1.rules[r].body /\ x = t1.rules[r].head
      BY <2>1 DEF SupportSucc
    <3>2. r \in RulesFor(t1, x)
      BY <3>1 DEF RulesFor
    <3>3. r \in DOMAIN t2.rules /\ t2.rules[r] = t1.rules[r]
      BY <1>1, <3>2 DEF RulesFor
    <3> QED
      BY <3>1, <3>3 DEF SupportSucc
  <2>2. CyclicScc(t1, c)
    BY DEF Completes
  <2> QED
    BY <2>1, <2>2 DEF CyclicScc
<1>3. ~ AttackedScc(t2, c)
  <2>1. \A x \in c : RulesFor(t1, Compl(x)) = RulesFor(t2, Compl(x))
    BY DEF SameOn
  <2>2. ~ AttackedScc(t1, c)
    BY DEF Completes
  <2> QED
    BY <2>1, <2>2 DEF AttackedScc, Attacked
<1>4. \E m \in c : p2[m] = DL_UNDECIDED
  BY DEF Completes
<1>5. ~ BlockedScc(t2, p2, c, layer)
  <2> SUFFICES ASSUME NEW m \in c, NEW r \in LayerSupport(t2, m, layer), NEW b \in t2.rules[r].body,
                      b \notin c, p2[b] = DL_UNDECIDED
               PROVE  FALSE
    BY DEF BlockedScc
  <2>1. r \in RulesFor(t2, m)
    BY DEF LayerSupport, StrictFor, SupportersOf
  <2>2. t1.rules[r] = t2.rules[r] /\ b \in J /\ r \in RulesFor(t1, m)
    BY <1>1, <2>1
  <2>3. r \in LayerSupport(t1, m, layer)
    BY <2>2 DEF LayerSupport, StrictFor, SupportersOf
  <2>4. BlockedScc(t1, p1, c, layer)
    BY <2>2, <2>3 DEF BlockedScc
  <2> QED
    BY <2>4 DEF Completes
<1> QED
  BY <1>2, <1>3, <1>4, <1>5 DEF Completes

\* Both theories have the same strict rules for the literals of B.
LEMMA SameStrict ==
  ASSUME NEW t1, NEW t2, NEW B, NEW P, AlikeOn(t1, t2, B, P), NEW q \in B
  PROVE  /\ StrictFor(t1, q) = StrictFor(t2, q)
         /\ \A r \in StrictFor(t1, q) : t1.rules[r] = t2.rules[r] /\ t1.rules[r].body \subseteq B
<1>1. /\ \A r \in RulesFor(t1, q) \cap RulesFor(t2, q) :
           t1.rules[r] = t2.rules[r] /\ t1.rules[r].body \subseteq B
      /\ \A r \in RulesFor(t1, q) \ RulesFor(t2, q) : t1.rules[r].kind # DL_STRICT
      /\ \A r \in RulesFor(t2, q) \ RulesFor(t1, q) : t2.rules[r].kind # DL_STRICT
  BY DEF AlikeOn, DeadRule
<1> QED
  BY <1>1 DEF StrictFor

\* They decide those literals alike in the definite layer, from the same statuses.
LEMMA SameDeltaEval ==
  ASSUME NEW t1, NEW t2, NEW B, NEW P, AlikeOn(t1, t2, B, P),
         NEW d1, NEW d2, \A x \in B : d1[x] = d2[x], NEW q \in B
  PROVE  EvalDelta(t1, d1, q) = EvalDelta(t2, d2, q)
<1>1. /\ StrictFor(t1, q) = StrictFor(t2, q)
      /\ \A r \in StrictFor(t1, q) : t1.rules[r] = t2.rules[r] /\ t1.rules[r].body \subseteq B
  BY SameStrict
<1>2. \A r \in StrictFor(t1, q) :
        /\ BodyAll(t1, r, d1, DL_PROVED) <=> BodyAll(t2, r, d2, DL_PROVED)
        /\ BodySome(t1, r, d1, DL_REFUTED) <=> BodySome(t2, r, d2, DL_REFUTED)
  BY <1>1 DEF BodyAll, BodySome
<1>3. q \in t1.facts <=> q \in t2.facts
  BY DEF AlikeOn
<1>4. DeltaProves(t1, d1, q) <=> DeltaProves(t2, d2, q)
  BY <1>1, <1>2, <1>3 DEF DeltaProves
<1>5. DeltaRefutes(t1, d1, q) <=> DeltaRefutes(t2, d2, q)
  BY <1>1, <1>2, <1>4 DEF DeltaRefutes
<1> QED
  BY <1>4, <1>5 DEF EvalDelta

\* A theory is alike itself where it is the same.
LEMMA SameIsAlike ==
  ASSUME NEW t1, NEW t2, NEW J, SameOn(t1, t2, J), NEW P
  PROVE  AlikeOn(t1, t2, J, P)
BY DEF SameOn, AlikeOn
\* What the rounds of t1 complete, t2 has refuted.
LEMMA DeltaLoopsMirrored ==
  ASSUME NEW t1, NEW sccs1, NEW t2, NEW sccs2, NEW B, NEW J, NEW P,
         Mirrored(t1, sccs1, t2, sccs2, B, J, P),
         NEW D, DeltaFine(t2, D), DeltaStops(t2, sccs2, D),
         NEW d \in Status, BelowOn(B, d, D),
         \A q \in Lits : d[q] = DL_UNDECIDED => EvalDelta(t1, d, q) = DL_UNDECIDED,
         NEW x \in B, x \in DeltaLoops(t1, sccs1, d), d[x] = DL_UNDECIDED
  PROVE  D[x] = DL_REFUTED
<1> DEFINE h == Mix(J, d, D)
<1>0. D \in Status /\ TheoryLits(t2) /\ AreSccs(sccs2) /\ AreSccs(sccs1) /\ SameOn(t1, t2, J)
      /\ SameLoops(t1, sccs1, sccs2, B, J)
  BY DEF DeltaFine, Mirrored
<1>1. h \in Status /\ Extends(h, D) /\ \A y \in Lits : h[y] = IF y \in J THEN d[y] ELSE D[y]
  <2>1. BelowOn(J, d, D)
    BY DEF BelowOn, Mirrored
  <2> QED
    BY <1>0, <2>1, MixBelow
<1>j. J \in SUBSET Lits
  BY <1>0 DEF SameOn
<1> HIDE DEF h
<1>2. PICK z \in Lits : Completes(t1, d, sccs1[z], TRUE) /\ x \in sccs1[z]
  BY DEF DeltaLoops
<1>3. z \in J /\ sccs1[z] \subseteq J /\ sccs2[z] = sccs1[z]
  BY <1>0, <1>2 DEF SameLoops, Completes
<1>4. DeltaCompletes(t2, h, sccs2[z])
  <2> DEFINE layer == TRUE
  <2> HIDE DEF layer
  <2>1. Completes(t1, d, sccs1[z], layer)
    BY <1>2 DEF layer
  <2>2. \A y \in J : d[y] = h[y]
    BY <1>j, <1>1
  <2>3. Completes(t2, h, sccs1[z], layer)
    BY <1>0, <1>3, <2>1, <2>2, SameCompletes
  <2> QED
    BY <1>3, <2>3 DEF layer, DeltaCompletes
<1>5. NoDeltaProof(t2, h)
  <2> SUFFICES ASSUME NEW q \in Lits, h[q] = DL_UNDECIDED PROVE ~ DeltaProves(t2, h, q)
    BY DEF NoDeltaProof
  <2>1. CASE q \in J
    <3>1. AlikeOn(t1, t2, J, P)
      BY <1>0, SameIsAlike
    <3>2. \A y \in J : d[y] = h[y]
      BY <1>j, <1>1
    <3>3. EvalDelta(t1, d, q) = EvalDelta(t2, h, q)
      BY <2>1, <3>1, <3>2, SameDeltaEval
    <3>4. EvalDelta(t1, d, q) = DL_UNDECIDED
      BY <2>1, <3>2
    <3> QED
      BY <3>3, <3>4 DEF EvalDelta
  <2>2. CASE q \notin J
    <3>1. D[q] = DL_UNDECIDED
      BY <1>1, <2>2
    <3>2. ~ DeltaProves(t2, D, q)
      BY <3>1 DEF DeltaStops, EvalDelta
    <3> QED
      BY <1>0, <1>1, <3>2, DeltaReasonsKept
  <2> QED
    BY <2>1, <2>2
<1>6. x \in J /\ x \in Lits /\ h[x] = DL_UNDECIDED
  BY <1>j, <1>1, <1>2, <1>3
<1>7. \A y, w \in Lits : DeltaCompletes(t2, h, sccs2[y]) /\ w \in sccs2[y] /\ h[w] = DL_UNDECIDED
                          => D[w] = DL_REFUTED
  BY <1>0, <1>1, <1>5, DeltaStopsSettled, DeltaCompletionAgrees
<1> QED
  BY <1>2, <1>3, <1>4, <1>6, <1>7

\* A round of t1 stays below what t2 decides.
LEMMA DeltaRoundMirrored ==
  ASSUME NEW t1, NEW sccs1, NEW t2, NEW sccs2, NEW B, NEW J, NEW P,
         Mirrored(t1, sccs1, t2, sccs2, B, J, P),
         NEW D, DeltaFine(t2, D), DeltaStops(t2, sccs2, D),
         NEW d \in Status, BelowOn(B, d, D)
  PROVE  BelowOn(B, DeltaRound(t1, sccs1, d), D)
<1> DEFINE d2 == DeltaRound(t1, sccs1, d)
<1> SUFFICES ASSUME NEW x \in B, d2[x] # DL_UNDECIDED PROVE D[x] = d2[x]
  BY DEF BelowOn
<1>0. x \in Lits /\ D \in Status /\ B \in SUBSET Lits /\ AlikeOn(t1, t2, B, P) /\ TheoryLits(t2)
  BY DEF DeltaFine, Mirrored, AlikeOn
<1>1. CASE d2 = DeltaSwept(t1, d)
  <2>1. d2[x] = IF d[x] = DL_UNDECIDED THEN EvalDelta(t1, d, x) ELSE d[x]
    BY <1>0, <1>1 DEF DeltaSwept
  <2>2. CASE d[x] = DL_UNDECIDED
    <3> DEFINE h == Mix(B, d, D)
    <3>1. h \in Status /\ Extends(h, D) /\ \A y \in Lits : h[y] = IF y \in B THEN d[y] ELSE D[y]
      BY <1>0, MixBelow
    <3> HIDE DEF h, d2
    <3>2. \A y \in B : d[y] = h[y]
      BY <1>0, <3>1
    <3>3. EvalDelta(t1, d, x) = EvalDelta(t2, h, x)
      BY <1>0, <3>2, SameDeltaEval
    <3>4. EvalDelta(t2, h, x) # DL_UNDECIDED
      BY <2>1, <2>2, <3>3
    <3>5. D[x] = EvalDelta(t2, h, x)
      BY <1>0, <3>1, <3>4, DeltaDecisionAgrees
    <3> QED
      BY <2>1, <2>2, <3>3, <3>5
  <2>3. CASE d[x] # DL_UNDECIDED
    BY <2>1, <2>3 DEF BelowOn
  <2> QED
    BY <2>2, <2>3
<1>2. CASE /\ d2 = Completion(d, DeltaLoops(t1, sccs1, d))
           /\ \A q \in Lits : d[q] = DL_UNDECIDED => EvalDelta(t1, d, q) = DL_UNDECIDED
  <2>1. d2[x] = IF x \in DeltaLoops(t1, sccs1, d) /\ d[x] = DL_UNDECIDED THEN DL_REFUTED ELSE d[x]
    BY <1>0, <1>2 DEF Completion
  <2> HIDE DEF d2
  <2>2. CASE x \in DeltaLoops(t1, sccs1, d) /\ d[x] = DL_UNDECIDED
    <3>1. D[x] = DL_REFUTED
      BY <1>2, <2>2, DeltaLoopsMirrored
    <3> QED
      BY <2>1, <2>2, <3>1
  <2>3. CASE ~ (x \in DeltaLoops(t1, sccs1, d) /\ d[x] = DL_UNDECIDED)
    BY <2>1, <2>3 DEF BelowOn
  <2> QED
    BY <2>2, <2>3
<1> QED
  BY <1>1, <1>2, DeltaRoundCases

\* What the definite layer of t1 decides on B, that of t2 decides alike.
LEMMA DeltaMirrored ==
  ASSUME NEW t1, NEW sccs1, NEW t2, NEW sccs2, NEW B, NEW J, NEW P,
         Mirrored(t1, sccs1, t2, sccs2, B, J, P)
  PROVE  BelowOn(B, RefDelta(t1, sccs1), RefDelta(t2, sccs2))
<1> DEFINE D == RefDelta(t2, sccs2)
           S == {d \in Status : BelowOn(B, d, D)}
<1>1. DeltaFine(t2, D) /\ DeltaStops(t2, sccs2, D)
  BY SolvedLayers DEF Mirrored
<1>2. B \in SUBSET Lits
  BY DEF Mirrored, AlikeOn
<1> HIDE DEF D
<1>3. Unsolved \in S
  BY <1>2 DEF BelowOn, Unsolved, Status, Verdict
<1>4. ASSUME NEW d \in S PROVE DeltaRound(t1, sccs1, d) \in S
  <2>1. BelowOn(B, DeltaRound(t1, sccs1, d), D)
    BY <1>1, DeltaRoundMirrored
  <2> QED
    BY <2>1, DeltaRoundExtends
<1>5. RefDelta(t1, sccs1) \in S
  BY <1>3, <1>4, RefDeltaReached
<1> QED
  BY <1>5 DEF D
\* A final status has decided what it has a reason to decide.
LEMMA FinalPart ==
  ASSUME NEW t, TheoryLits(t), NEW sccs, NEW d, NEW P, PartFine(t, d, P), PartStops(t, sccs, d, P),
         NEW q \in Lits
  PROVE  /\ PartProves(t, d, P, q) => P[q] = DL_PROVED
         /\ PartRefutes(t, d, P, q) => P[q] = DL_REFUTED
<1>1. P[q] \in Verdict
  BY DEF PartFine, Status
<1>2. ~ (CannotProve(t, d, P, q) /\ PartProves(t, d, P, q))
  BY CannotProveBoth
<1>3. ASSUME PartProves(t, d, P, q) PROVE P[q] = DL_PROVED
  <2>1. P[q] # DL_UNDECIDED
    BY <1>3 DEF PartStops, EvalPart
  <2>2. P[q] # DL_REFUTED
    BY <1>2, <1>3 DEF PartFine
  <2> QED
    BY <1>1, <2>1, <2>2 DEF Verdict
<1>4. ASSUME PartRefutes(t, d, P, q) PROVE P[q] = DL_REFUTED
  <2>1. ~ PartProves(t, d, P, q)
    BY <1>2, <1>4 DEF PartRefutes, CannotProve
  <2>3. EvalPart(t, d, P, q) = DL_REFUTED
    BY <1>4, <2>1 DEF EvalPart
  <2>4. P[q] # DL_UNDECIDED
    BY <2>3 DEF PartStops
  <2>5. P[q] # DL_PROVED
    BY <2>1 DEF PartFine
  <2> QED
    BY <1>1, <2>4, <2>5 DEF Verdict
<1> QED
  BY <1>3, <1>4

\* A rule for a literal of B that applies or is discarded in t1 does the same in t2,
\* and a rule only t2 has is discarded.
LEMMA RuleMirrored ==
  ASSUME NEW t1, NEW t2, NEW B, NEW P, AlikeOn(t1, t2, B, P), NEW p, BelowOn(B, p, P), NEW q \in B
  PROVE  /\ \A r \in RulesFor(t1, q) :
              /\ Applicable(t1, p, r) => /\ r \in RulesFor(t2, q) /\ t1.rules[r] = t2.rules[r]
                                         /\ Applicable(t2, P, r)
              /\ r \in RulesFor(t2, q) => /\ t1.rules[r] = t2.rules[r]
                                          /\ Discarded(t1, p, r) => Discarded(t2, P, r)
         /\ \A r \in RulesFor(t2, q) : r \notin RulesFor(t1, q) => Discarded(t2, P, r)
<1>1. ASSUME NEW r \in RulesFor(t1, q), r \in RulesFor(t2, q)
      PROVE  /\ t1.rules[r] = t2.rules[r]
             /\ Applicable(t1, p, r) => Applicable(t2, P, r)
             /\ Discarded(t1, p, r) => Discarded(t2, P, r)
  <2>1. t1.rules[r] = t2.rules[r] /\ t1.rules[r].body \subseteq B
    BY <1>1 DEF AlikeOn
  <2> QED
    BY <2>1 DEF Applicable, Discarded, BodyAll, BodySome, BelowOn
<1>2. ASSUME NEW r \in RulesFor(t1, q), r \notin RulesFor(t2, q), Applicable(t1, p, r) PROVE FALSE
  <2>1. PICK b \in t1.rules[r].body : b \in B /\ P[b] = DL_REFUTED
    BY <1>2 DEF AlikeOn, DeadRule
  <2>2. p[b] = DL_PROVED
    BY <1>2, <2>1 DEF Applicable, BodyAll
  <2> QED
    BY <2>1, <2>2 DEF BelowOn
<1>3. ASSUME NEW r \in RulesFor(t2, q), r \notin RulesFor(t1, q) PROVE Discarded(t2, P, r)
  BY <1>3 DEF AlikeOn, DeadRule, Discarded, BodySome
<1> QED
  BY <1>1, <1>2, <1>3

\* A reason of t1 is one of t2.
LEMMA ReasonMirrored ==
  ASSUME NEW t1, NEW t2, NEW B, NEW P, AlikeOn(t1, t2, B, P), NEW p, BelowOn(B, p, P),
         NEW d1, NEW d2, \A x \in B : d1[x] = d2[x], NEW q \in B
  PROVE  /\ PartProves(t1, d1, p, q) => PartProves(t2, d2, P, q)
         /\ PartRefutes(t1, d1, p, q) => PartRefutes(t2, d2, P, q)
<1> DEFINE c == Compl(q)
<1>1. c \in B /\ d1[q] = d2[q] /\ d1[c] = d2[c]
  BY DEF AlikeOn
<1>2. /\ \A r \in RulesFor(t1, q) :
           /\ Applicable(t1, p, r) => /\ r \in RulesFor(t2, q) /\ t1.rules[r] = t2.rules[r]
                                      /\ Applicable(t2, P, r)
           /\ r \in RulesFor(t2, q) => /\ t1.rules[r] = t2.rules[r]
                                       /\ Discarded(t1, p, r) => Discarded(t2, P, r)
      /\ \A r \in RulesFor(t2, q) : r \notin RulesFor(t1, q) => Discarded(t2, P, r)
  BY RuleMirrored
<1>3. /\ \A r \in RulesFor(t1, c) :
           /\ Applicable(t1, p, r) => /\ r \in RulesFor(t2, c) /\ t1.rules[r] = t2.rules[r]
                                      /\ Applicable(t2, P, r)
           /\ r \in RulesFor(t2, c) => /\ t1.rules[r] = t2.rules[r]
                                       /\ Discarded(t1, p, r) => Discarded(t2, P, r)
      /\ \A r \in RulesFor(t2, c) : r \notin RulesFor(t1, c) => Discarded(t2, P, r)
  <2> HIDE DEF c
  <2> QED
    BY <1>1, RuleMirrored
<1>4. \A r \in RulesFor(t1, q) \cap RulesFor(t2, q), s \in RulesFor(t1, c) \cap RulesFor(t2, c) :
        <<r, s>> \in t1.sups <=> <<r, s>> \in t2.sups
  BY DEF AlikeOn
<1>5. Supported(t1, p, q) => Supported(t2, P, q)
  BY <1>2 DEF Supported, SupportersOf
<1>6. NotSupported(t1, p, q) => NotSupported(t2, P, q)
  BY <1>2 DEF NotSupported, SupportersOf
<1>7. AllAttackersCountered(t1, p, q) => AllAttackersCountered(t2, P, q)
  <2> SUFFICES ASSUME AllAttackersCountered(t1, p, q), NEW s \in RulesFor(t2, c)
               PROVE  Countered(t2, P, s, q)
    BY DEF AllAttackersCountered
  <2>1. CASE s \notin RulesFor(t1, c)
    BY <1>3, <2>1 DEF Countered
  <2>2. CASE s \in RulesFor(t1, c)
    <3>1. Countered(t1, p, s, q)
      BY <2>2 DEF AllAttackersCountered
    <3>2. CASE Discarded(t1, p, s)
      BY <1>3, <2>2, <3>2 DEF Countered
    <3>3. CASE \E r \in Defenders(t1, s, q) : Applicable(t1, p, r)
      <4>1. PICK r \in RulesFor(t1, q) : /\ t1.rules[r].kind # DL_DEFEATER /\ <<r, s>> \in t1.sups
                                         /\ Applicable(t1, p, r)
        BY <3>3 DEF Defenders, SupportersOf
      <4>2. r \in RulesFor(t2, q) /\ t1.rules[r] = t2.rules[r] /\ Applicable(t2, P, r)
        BY <1>2, <4>1
      <4>3. <<r, s>> \in t2.sups
        BY <1>4, <2>2, <4>1, <4>2
      <4> QED
        BY <4>1, <4>2, <4>3 DEF Countered, Defenders, SupportersOf
    <3> QED
      BY <3>1, <3>2, <3>3 DEF Countered
  <2> QED
    BY <2>1, <2>2
<1>8. AttackerUncountered(t1, p, q) => AttackerUncountered(t2, P, q)
  <2> SUFFICES ASSUME AttackerUncountered(t1, p, q) PROVE AttackerUncountered(t2, P, q)
    OBVIOUS
  <2>1. PICK s \in RulesFor(t1, c) : Applicable(t1, p, s) /\ \A r \in Defenders(t1, s, q) : Discarded(t1, p, r)
    BY DEF AttackerUncountered
  <2>2. s \in RulesFor(t2, c) /\ Applicable(t2, P, s)
    BY <1>3, <2>1
  <2>3. ASSUME NEW r \in Defenders(t2, s, q) PROVE Discarded(t2, P, r)
    <3>1. r \in RulesFor(t2, q) /\ t2.rules[r].kind # DL_DEFEATER /\ <<r, s>> \in t2.sups
      BY DEF Defenders, SupportersOf
    <3>2. CASE r \notin RulesFor(t1, q)
      BY <1>2, <3>1, <3>2
    <3>3. CASE r \in RulesFor(t1, q)
      <4>1. t1.rules[r] = t2.rules[r] /\ <<r, s>> \in t1.sups
        BY <1>2, <1>4, <2>2, <3>1, <3>3
      <4>2. r \in Defenders(t1, s, q)
        BY <3>1, <3>3, <4>1 DEF Defenders, SupportersOf
      <4> QED
        BY <1>2, <2>1, <3>1, <3>3, <4>2
    <3> QED
      BY <3>2, <3>3
  <2> QED
    BY <2>2, <2>3 DEF AttackerUncountered
<1>9. PartProves(t1, d1, p, q) => PartProves(t2, d2, P, q)
  BY <1>1, <1>5, <1>7 DEF PartProves
<1>10. PartRefutes(t1, d1, p, q) => PartRefutes(t2, d2, P, q)
  BY <1>1, <1>6, <1>8 DEF PartRefutes
<1> QED
  BY <1>9, <1>10

\* Where the theories are the same, they prove the same from the same statuses.
LEMMA SamePartProves ==
  ASSUME NEW t1, NEW t2, NEW J, SameOn(t1, t2, J), NEW p1, NEW p2, \A x \in J : p1[x] = p2[x],
         NEW d1, NEW d2, \A x \in J : d1[x] = d2[x], NEW q \in J, PartProves(t2, d2, p2, q)
  PROVE  PartProves(t1, d1, p1, q)
<1>1. AlikeOn(t2, t1, J, p1)
  <2>1. SameOn(t2, t1, J)
    BY DEF SameOn
  <2> QED
    BY <2>1, SameIsAlike
<1>2. BelowOn(J, p2, p1)
  BY DEF BelowOn
<1> QED
  BY <1>1, <1>2, ReasonMirrored
\* What the rounds of t1 complete, t2 has refuted.
LEMMA PartLoopsMirrored ==
  ASSUME NEW t1, NEW sccs1, NEW t2, NEW sccs2, NEW B, NEW J, NEW P,
         Mirrored(t1, sccs1, t2, sccs2, B, J, P),
         NEW d1, NEW d2, \A y \in B : d1[y] = d2[y],
         PartFine(t2, d2, P), PartStops(t2, sccs2, d2, P),
         NEW p \in Status, BelowOn(B, p, P),
         \A q \in Lits : p[q] = DL_UNDECIDED => EvalPart(t1, d1, p, q) = DL_UNDECIDED,
         NEW x \in B, x \in PartLoops(t1, sccs1, p), p[x] = DL_UNDECIDED
  PROVE  P[x] = DL_REFUTED
<1> DEFINE h == Mix(J, p, P)
<1>0. P \in Status /\ TheoryLits(t2) /\ AreSccs(sccs2) /\ AreSccs(sccs1) /\ SameOn(t1, t2, J)
      /\ SameLoops(t1, sccs1, sccs2, B, J)
  BY DEF PartFine, Mirrored
<1>1. h \in Status /\ Extends(h, P) /\ \A y \in Lits : h[y] = IF y \in J THEN p[y] ELSE P[y]
  <2>1. BelowOn(J, p, P)
    BY DEF BelowOn, Mirrored
  <2> QED
    BY <1>0, <2>1, MixBelow
<1>j. J \in SUBSET Lits /\ J \subseteq B
  BY <1>0 DEF SameOn, Mirrored
<1> HIDE DEF h
<1>2. PICK z \in Lits : Completes(t1, p, sccs1[z], FALSE) /\ x \in sccs1[z]
  BY DEF PartLoops
<1>3. z \in J /\ sccs1[z] \subseteq J /\ sccs2[z] = sccs1[z]
  BY <1>0, <1>2 DEF SameLoops, Completes
<1>4. PartCompletes(t2, h, sccs2[z])
  <2> DEFINE layer == FALSE
  <2> HIDE DEF layer
  <2>1. Completes(t1, p, sccs1[z], layer)
    BY <1>2 DEF layer
  <2>2. \A y \in J : p[y] = h[y]
    BY <1>j, <1>1
  <2>3. Completes(t2, h, sccs1[z], layer)
    BY <1>0, <1>3, <2>1, <2>2, SameCompletes
  <2> QED
    BY <1>3, <2>3 DEF layer, PartCompletes
<1>5. NoPartProof(t2, d2, h)
  <2> SUFFICES ASSUME NEW q \in Lits, h[q] = DL_UNDECIDED PROVE ~ PartProves(t2, d2, h, q)
    BY DEF NoPartProof
  <2>1. CASE q \in J
    <3>1. \A y \in J : p[y] = h[y]
      BY <1>j, <1>1
    <3>2. \A y \in J : d1[y] = d2[y]
      BY <1>j
    <3>3. PartProves(t2, d2, h, q) => PartProves(t1, d1, p, q)
      BY <1>0, <2>1, <3>1, <3>2, SamePartProves
    <3>4. EvalPart(t1, d1, p, q) = DL_UNDECIDED
      BY <2>1, <3>1
    <3> QED
      BY <3>3, <3>4 DEF EvalPart
  <2>2. CASE q \notin J
    <3>1. P[q] = DL_UNDECIDED
      BY <1>1, <2>2
    <3>2. ~ PartProves(t2, d2, P, q)
      BY <3>1 DEF PartStops, EvalPart
    <3> QED
      BY <1>0, <1>1, <3>2, PartProvesMonotone
  <2> QED
    BY <2>1, <2>2
<1>6. x \in J /\ x \in Lits /\ h[x] = DL_UNDECIDED
  BY <1>j, <1>1, <1>2, <1>3
<1>7. \A y, w \in Lits : PartCompletes(t2, h, sccs2[y]) /\ w \in sccs2[y] /\ h[w] = DL_UNDECIDED
                          => P[w] = DL_REFUTED
  BY <1>0, <1>1, <1>5, PartCompletionAgrees
<1> QED
  BY <1>2, <1>3, <1>4, <1>6, <1>7

\* A round of t1 stays below what t2 decides.
LEMMA PartRoundMirrored ==
  ASSUME NEW t1, NEW sccs1, NEW t2, NEW sccs2, NEW B, NEW J, NEW P,
         Mirrored(t1, sccs1, t2, sccs2, B, J, P),
         NEW d1, NEW d2, \A y \in B : d1[y] = d2[y],
         PartFine(t2, d2, P), PartStops(t2, sccs2, d2, P),
         NEW p \in Status, BelowOn(B, p, P)
  PROVE  BelowOn(B, PartRound(t1, sccs1, d1, p), P)
<1> DEFINE p2 == PartRound(t1, sccs1, d1, p)
<1> SUFFICES ASSUME NEW x \in B, p2[x] # DL_UNDECIDED PROVE P[x] = p2[x]
  BY DEF BelowOn
<1>0. x \in Lits /\ AlikeOn(t1, t2, B, P) /\ TheoryLits(t2)
  BY DEF Mirrored, AlikeOn
<1>1. CASE p2 = PartSwept(t1, d1, p)
  <2>1. p2[x] = IF p[x] = DL_UNDECIDED THEN EvalPart(t1, d1, p, x) ELSE p[x]
    BY <1>0, <1>1 DEF PartSwept
  <2> HIDE DEF p2
  <2>2. CASE p[x] = DL_UNDECIDED
    <3>1. /\ PartProves(t1, d1, p, x) => PartProves(t2, d2, P, x)
          /\ PartRefutes(t1, d1, p, x) => PartRefutes(t2, d2, P, x)
      BY <1>0, ReasonMirrored
    <3>2. /\ PartProves(t2, d2, P, x) => P[x] = DL_PROVED
          /\ PartRefutes(t2, d2, P, x) => P[x] = DL_REFUTED
      BY <1>0, FinalPart
    <3>3. p2[x] = EvalPart(t1, d1, p, x)
      BY <2>1, <2>2
    <3> QED
      BY <3>1, <3>2, <3>3 DEF EvalPart
  <2>3. CASE p[x] # DL_UNDECIDED
    BY <2>1, <2>3 DEF BelowOn
  <2> QED
    BY <2>2, <2>3
<1>2. CASE /\ p2 = Completion(p, PartLoops(t1, sccs1, p))
           /\ \A q \in Lits : p[q] = DL_UNDECIDED => EvalPart(t1, d1, p, q) = DL_UNDECIDED
  <2>1. p2[x] = IF x \in PartLoops(t1, sccs1, p) /\ p[x] = DL_UNDECIDED THEN DL_REFUTED ELSE p[x]
    BY <1>0, <1>2 DEF Completion
  <2> HIDE DEF p2
  <2>2. CASE x \in PartLoops(t1, sccs1, p) /\ p[x] = DL_UNDECIDED
    <3>1. P[x] = DL_REFUTED
      BY <1>2, <2>2, PartLoopsMirrored
    <3> QED
      BY <2>1, <2>2, <3>1
  <2>3. CASE ~ (x \in PartLoops(t1, sccs1, p) /\ p[x] = DL_UNDECIDED)
    BY <2>1, <2>3 DEF BelowOn
  <2> QED
    BY <2>2, <2>3
<1> QED
  BY <1>1, <1>2, PartRoundCases

\* Statuses below each other on B are equal there.
LEMMA BelowBothWays ==
  ASSUME NEW B, NEW p, NEW q, BelowOn(B, p, q), BelowOn(B, q, p)
  PROVE  \A x \in B : p[x] = q[x]
BY DEF BelowOn

\* Two theories that mirror each other on B reach the same verdicts there: the
\* rules, the facts and the dead rules elsewhere play no part.
LEMMA LocalVerdicts ==
  ASSUME NEW t1, NEW sccs1, NEW t2, NEW sccs2, NEW B, NEW J,
         Mirrored(t1, sccs1, t2, sccs2, B, J, Verdicts(t2, sccs2)),
         Mirrored(t2, sccs2, t1, sccs1, B, J, Verdicts(t1, sccs1))
  PROVE  \A x \in B : Verdicts(t1, sccs1)[x] = Verdicts(t2, sccs2)[x]
<1> DEFINE d1 == RefDelta(t1, sccs1)
           d2 == RefDelta(t2, sccs2)
           V1 == Verdicts(t1, sccs1)
           V2 == Verdicts(t2, sccs2)
<1>1. /\ TheoryLits(t1) /\ AreSccs(sccs1) /\ TheoryLits(t2) /\ AreSccs(sccs2)
      /\ Mirrored(t1, sccs1, t2, sccs2, B, J, V2) /\ Mirrored(t2, sccs2, t1, sccs1, B, J, V1)
  BY DEF Mirrored
<1>2. /\ DeltaFine(t1, d1) /\ DeltaStops(t1, sccs1, d1) /\ PartFine(t1, d1, V1) /\ PartStops(t1, sccs1, d1, V1)
      /\ DeltaFine(t2, d2) /\ DeltaStops(t2, sccs2, d2) /\ PartFine(t2, d2, V2) /\ PartStops(t2, sccs2, d2, V2)
  BY <1>1, SolvedLayers
<1>4. BelowOn(B, d1, d2) /\ BelowOn(B, d2, d1)
  BY <1>1, DeltaMirrored
<1>5. (\A x \in B : d1[x] = d2[x]) /\ (\A x \in B : d2[x] = d1[x])
  BY <1>4 DEF BelowOn
<1>6. B \in SUBSET Lits /\ Unsolved \in Status
  BY <1>1 DEF Mirrored, AlikeOn, Unsolved, Status, Verdict
<1>7. V1 = RefPart(t1, sccs1, d1) /\ V2 = RefPart(t2, sccs2, d2)
  BY DEF Verdicts
<1> HIDE DEF d1, d2, V1, V2
<1>8. BelowOn(B, V1, V2)
  <2> DEFINE S == {p \in Status : BelowOn(B, p, V2)}
  <2>1. Unsolved \in S
    BY <1>6 DEF BelowOn, Unsolved
  <2>2. ASSUME NEW p \in S PROVE PartRound(t1, sccs1, d1, p) \in S
    <3>1. BelowOn(B, PartRound(t1, sccs1, d1, p), V2)
      BY <1>1, <1>2, <1>5, PartRoundMirrored
    <3> QED
      BY <3>1, PartRoundExtends
  <2>3. RefPart(t1, sccs1, d1) \in S
    BY <2>1, <2>2, RefPartReached
  <2> QED
    BY <1>7, <2>3
<1>9. BelowOn(B, V2, V1)
  <2> DEFINE S == {p \in Status : BelowOn(B, p, V1)}
  <2>1. Unsolved \in S
    BY <1>6 DEF BelowOn, Unsolved
  <2>2. ASSUME NEW p \in S PROVE PartRound(t2, sccs2, d2, p) \in S
    <3>1. BelowOn(B, PartRound(t2, sccs2, d2, p), V1)
      BY <1>1, <1>2, <1>5, PartRoundMirrored
    <3> QED
      BY <3>1, PartRoundExtends
  <2>3. RefPart(t2, sccs2, d2) \in S
    BY <2>1, <2>2, RefPartReached
  <2> QED
    BY <1>7, <2>3
<1>10. \A x \in B : V1[x] = V2[x]
  BY <1>8, <1>9, BelowBothWays
<1> QED
  BY <1>10 DEF V1, V2

\* Verdicts(t)[q] is refuted when its complement is a fact and it is not concluded
\* strictly.
LEMMA ComplementOfFact ==
  ASSUME NEW t, TheoryLits(t), NEW sccs, AreSccs(sccs), NEW q \in Lits,
         q \notin t.facts, Compl(q) \in t.facts, StrictFor(t, q) = {}
  PROVE  Verdicts(t, sccs)[q] = DL_REFUTED
<1> DEFINE d == RefDelta(t, sccs)
           p == Verdicts(t, sccs)
<1>1. DeltaFine(t, d) /\ DeltaStops(t, sccs, d) /\ PartFine(t, d, p) /\ PartStops(t, sccs, d, p)
  BY SolvedLayers
<1>2. d[Compl(q)] = DL_PROVED
  BY FactProved
<1> HIDE DEF d, p
<1>3. ~ DeltaProves(t, d, q) /\ DeltaRefutes(t, d, q)
  BY DEF DeltaProves, DeltaRefutes
<1>4. d[q] \in Verdict
  BY <1>1 DEF DeltaFine, Status
<1>5. d[q] = DL_REFUTED
  BY <1>1, <1>3, <1>4 DEF DeltaFine, DeltaStops, EvalDelta, Verdict
<1>6. PartRefutes(t, d, p, q)
  BY <1>2, <1>5 DEF PartRefutes
<1> QED
  BY <1>1, <1>5, <1>6, FinalPart DEF p

\* An undefeated rule proves its head: the complement is neither a fact nor concluded
\* strictly, and every attacker is discarded.
LEMMA UndefeatedProved ==
  ASSUME NEW t, TheoryLits(t), NEW sccs, AreSccs(sccs), NEW q \in Lits,
         Compl(q) \notin t.facts, StrictFor(t, Compl(q)) = {},
         Supported(t, Verdicts(t, sccs), q),
         \A s \in RulesFor(t, Compl(q)) : Discarded(t, Verdicts(t, sccs), s)
  PROVE  Verdicts(t, sccs)[q] = DL_PROVED
<1> DEFINE d == RefDelta(t, sccs)
           p == Verdicts(t, sccs)
           c == Compl(q)
<1>1. DeltaFine(t, d) /\ DeltaStops(t, sccs, d) /\ PartFine(t, d, p) /\ PartStops(t, sccs, d, p)
  BY SolvedLayers
<1>2. AllAttackersCountered(t, p, q)
  BY DEF AllAttackersCountered, Countered
<1>c. c \in Lits
  BY ComplLits
<1> HIDE DEF d, p, c
<1>3. ~ DeltaProves(t, d, c) /\ DeltaRefutes(t, d, c)
  BY DEF DeltaProves, DeltaRefutes, c
<1>4. d[c] \in Verdict
  BY <1>1, <1>c DEF DeltaFine, Status
<1>5. d[c] = DL_REFUTED
  BY <1>1, <1>3, <1>4, <1>c DEF DeltaFine, DeltaStops, EvalDelta, Verdict
<1>6. PartProves(t, d, p, q)
  BY <1>2, <1>5 DEF PartProves, p, c
<1> QED
  BY <1>1, <1>6, FinalPart DEF p

\* An edge into J comes from J, and is in both support graphs.
LEMMA SupportsInto ==
  ASSUME NEW t1, TheoryLits(t1), NEW t2, TheoryLits(t2), NEW J, SameOn(t1, t2, J),
         NEW x \in Lits, NEW y \in J, y \in Supports(t1)[x]
  PROVE  x \in J /\ y \in Supports(t2)[x]
<1>1. y \in SupportSucc(t1, x)
  BY DEF Supports
<1>2. PICK r \in DOMAIN t1.rules :
        t1.rules[r].kind # DL_DEFEATER /\ x \in t1.rules[r].body /\ y = t1.rules[r].head
  BY <1>1 DEF SupportSucc
<1>3. r \in RulesFor(t1, y)
  BY <1>2 DEF RulesFor
<1>4. r \in RulesFor(t2, y) /\ t1.rules[r] = t2.rules[r] /\ x \in J
  BY <1>2, <1>3 DEF SameOn
<1>5. y \in SupportSucc(t2, x)
  BY <1>2, <1>4 DEF SupportSucc, RulesFor
<1> QED
  BY <1>4, <1>5 DEF Supports

\* What reaches a literal of J is in J, and reaches it in both support graphs.
LEMMA ReachInto ==
  ASSUME NEW t1, TheoryLits(t1), NEW t2, TheoryLits(t2), NEW J, SameOn(t1, t2, J),
         NEW z \in Lits, NEW y \in J, y \in Closure(Supports(t1), {z})
  PROVE  z \in J /\ y \in Closure(Supports(t2), {z})
<1> DEFINE s1 == Supports(t1)
           s2 == Supports(t2)
<1>1. s1 \in [Lits -> SUBSET Lits] /\ s2 \in [Lits -> SUBSET Lits] /\ J \in SUBSET Lits
  BY GraphsOnLits DEF SameOn
<1>2. \A x \in Lits, w \in J : w \in s1[x] => x \in J /\ w \in s2[x]
  BY SupportsInto
<1> HIDE DEF s1, s2
<1>3. z \in J
  <2> SUFFICES ASSUME z \notin J PROVE FALSE
    OBVIOUS
  <2> DEFINE Q == Lits \ J
  <2>1. {z} \subseteq Q /\ Q \in SUBSET Lits
    OBVIOUS
  <2>2. \A x \in Q : s1[x] \subseteq Q
    BY <1>1, <1>2
  <2> HIDE DEF Q
  <2>3. {z} \in SUBSET Lits
    OBVIOUS
  <2>4. Closure(s1, {z}) \subseteq Q
    BY <1>1, <2>1, <2>2, <2>3, ClosureFacts
  <2> QED
    BY <2>4 DEF Q, s1
<1>4. y \in Closure(s2, {z})
  <2> DEFINE Q == (Lits \ J) \cup Closure(s2, {z})
  <2>1. {z} \in SUBSET Lits
    OBVIOUS
  <2>2. /\ z \in Closure(s2, {z}) /\ Closure(s2, {z}) \in SUBSET Lits
        /\ \A x \in Closure(s2, {z}) : s2[x] \subseteq Closure(s2, {z})
    BY <1>1, <2>1, ClosureFacts
  <2>3. \A x \in Q : s1[x] \subseteq Q
    BY <1>1, <1>2, <2>2
  <2>4. {z} \subseteq Q /\ Q \in SUBSET Lits
    BY <1>1, <2>2
  <2> HIDE DEF Q
  <2>5. Closure(s1, {z}) \subseteq Q
    BY <1>1, <2>1, <2>3, <2>4, ClosureFacts
  <2>6. y \in Q
    BY <2>5 DEF s1
  <2> QED
    BY <2>6 DEF Q
<1> QED
  BY <1>3, <1>4 DEF s2

\* The components of the literals of J are the same, and within J.
LEMMA SameSccs ==
  ASSUME NEW t1, TheoryLits(t1), NEW t2, TheoryLits(t2), NEW J, SameOn(t1, t2, J)
  PROVE  /\ \A z \in J : SupportSccs(t1)[z] \subseteq J /\ SupportSccs(t2)[z] = SupportSccs(t1)[z]
         /\ \A z \in Lits : (\E x \in SupportSccs(t1)[z] : x \in J) => z \in J
<1>1. J \in SUBSET Lits /\ SameOn(t2, t1, J)
  BY DEF SameOn
<1>2. ASSUME NEW u1, TheoryLits(u1), NEW u2, TheoryLits(u2), SameOn(u1, u2, J),
             NEW z \in Lits, NEW x \in SupportSccs(u1)[z], z \in J \/ x \in J
      PROVE  z \in J /\ x \in J /\ x \in SupportSccs(u2)[z]
  <2>1. x \in Lits /\ x \in Closure(Supports(u1), {z}) /\ z \in Closure(Supports(u1), {x})
    BY <1>2, SccReading
  <2>2. z \in J /\ x \in J
    BY <1>2, <2>1, ReachInto
  <2>3. x \in Closure(Supports(u2), {z}) /\ z \in Closure(Supports(u2), {x})
    BY <1>2, <2>1, <2>2, ReachInto
  <2> QED
    BY <1>2, <2>1, <2>2, <2>3, SccReading
<1>3. ASSUME NEW z \in J
      PROVE  SupportSccs(t1)[z] \subseteq J /\ SupportSccs(t2)[z] = SupportSccs(t1)[z]
  <2>1. z \in Lits
    BY <1>1
  <2>2. \A x \in SupportSccs(t1)[z] : x \in J /\ x \in SupportSccs(t2)[z]
    BY <1>2, <2>1
  <2>3. \A x \in SupportSccs(t2)[z] : x \in SupportSccs(t1)[z]
    BY <1>1, <1>2, <2>1
  <2> QED
    BY <2>2, <2>3
<1>4. \A z \in Lits : (\E x \in SupportSccs(t1)[z] : x \in J) => z \in J
  BY <1>2
<1> QED
  BY <1>3, <1>4

\* The components depend on the rules alone.
LEMMA SccsByRules ==
  ASSUME NEW t1, TheoryLits(t1), NEW t2, TheoryLits(t2), t1.rules = t2.rules
  PROVE  SupportSccs(t1) = SupportSccs(t2)
<1>1. Supports(t1) = Supports(t2)
  BY DEF Supports, SupportSucc
<1>2. \A z \in Lits : \A y : y \in SupportSccs(t1)[z] <=> y \in SupportSccs(t2)[z]
  BY <1>1, SccReading
<1>3. SupportSccs(t1) \in [Lits -> SUBSET Lits] /\ SupportSccs(t2) \in [Lits -> SUBSET Lits]
  BY SccsType
<1> QED
  BY <1>2, <1>3

\* Nothing reads q: its component is no cycle.
LEMMA DeadEndScc ==
  ASSUME NEW t, TheoryLits(t), NEW q \in Lits, Supports(t)[q] = {},
         NEW z \in Lits, q \in SupportSccs(t)[z]
  PROVE  ~ CyclicScc(t, SupportSccs(t)[z])
<1>1. Supports(t) \in [Lits -> SUBSET Lits]
  BY GraphsOnLits
<1>2. {q} \in SUBSET Lits
  OBVIOUS
<1>3. Closure(Supports(t), {q}) \subseteq {q}
  BY <1>1, <1>2, ClosureFacts
<1>4. z = q
  BY <1>3, SccReading
<1>5. SupportSccs(t)[q] = {q}
  <2>1. \A y \in SupportSccs(t)[q] : y = q
    BY <1>3, SccReading
  <2> QED
    BY <1>4, <2>1
<1>6. Cardinality({q}) = 1
  BY FS_Singleton
<1>7. SupportSucc(t, q) = {}
  BY DEF Supports
<1> QED
  BY <1>4, <1>5, <1>6, <1>7 DEF CyclicScc

\* Two theories that are the same on J reach the same verdicts there.
LEMMA SameVerdicts ==
  ASSUME NEW t1, TheoryLits(t1), NEW t2, TheoryLits(t2), NEW J, SameOn(t1, t2, J)
  PROVE  \A x \in J : Verdicts(t1, SupportSccs(t1))[x] = Verdicts(t2, SupportSccs(t2))[x]
<1>1. ASSUME NEW u1, TheoryLits(u1), NEW u2, TheoryLits(u2), SameOn(u1, u2, J)
      PROVE  Mirrored(u1, SupportSccs(u1), u2, SupportSccs(u2), J, J, Verdicts(u2, SupportSccs(u2)))
  <2>1. AreSccs(SupportSccs(u1)) /\ AreSccs(SupportSccs(u2))
    BY SccsType DEF AreSccs
  <2>2. AlikeOn(u1, u2, J, Verdicts(u2, SupportSccs(u2)))
    BY <1>1, SameIsAlike
  <2>3. SameLoops(u1, SupportSccs(u1), SupportSccs(u2), J, J)
    BY <1>1, SameSccs DEF SameLoops
  <2> QED
    BY <1>1, <2>1, <2>2, <2>3 DEF Mirrored
<1>2. SameOn(t2, t1, J)
  BY DEF SameOn
<1>3. /\ Mirrored(t1, SupportSccs(t1), t2, SupportSccs(t2), J, J, Verdicts(t2, SupportSccs(t2)))
      /\ Mirrored(t2, SupportSccs(t2), t1, SupportSccs(t1), J, J, Verdicts(t1, SupportSccs(t1)))
  BY <1>1, <1>2
<1> QED
  BY <1>3, LocalVerdicts

-----------------------------------------------------------------------------
(* What a decision can change.                                             *)

\* A rule for a literal, or for its complement, that reads q makes the literal a
\* dependent of q.
LEMMA ReadersAreDependents ==
  ASSUME NEW t, NEW q \in Lits, NEW x \in Lits, x \notin DependSucc(t, q)
  PROVE  \A r \in RulesFor(t, x) \cup RulesFor(t, Compl(x)) : q \notin t.rules[r].body
<1> SUFFICES ASSUME NEW r \in RulesFor(t, x) \cup RulesFor(t, Compl(x)), q \in t.rules[r].body
             PROVE  FALSE
  OBVIOUS
<1>1. r \in DOMAIN t.rules /\ (t.rules[r].head = x \/ t.rules[r].head = Compl(x))
  BY DEF RulesFor
<1>2. x \in {t.rules[r].head, Compl(t.rules[r].head)}
  BY <1>1, ComplLits
<1> QED
  BY <1>1, <1>2 DEF DependSucc

\* Two statuses that differ at q only agree on the bodies that do not read q.
LEMMA BodyLocal ==
  ASSUME NEW t, TheoryLits(t), NEW s \in Status, NEW q \in Lits, NEW v,
         NEW r \in DOMAIN t.rules, q \notin t.rules[r].body, NEW w
  PROVE  /\ BodyAll(t, r, [s EXCEPT ![q] = v], w) <=> BodyAll(t, r, s, w)
         /\ BodySome(t, r, [s EXCEPT ![q] = v], w) <=> BodySome(t, r, s, w)
<1>1. t.rules[r].body \subseteq Lits
  BY DEF TheoryLits
<1>2. \A b \in t.rules[r].body : [s EXCEPT ![q] = v][b] = s[b]
  BY <1>1 DEF Status
<1> QED
  BY <1>2 DEF BodyAll, BodySome

\* A definite decision on q changes the evaluation of q's dependents only.
LEMMA DeltaLocal ==
  ASSUME NEW t, TheoryLits(t), NEW d \in Status, NEW q \in Lits, NEW v,
         NEW x \in Lits, x \notin DependSucc(t, q)
  PROVE  EvalDelta(t, [d EXCEPT ![q] = v], x) = EvalDelta(t, d, x)
<1> DEFINE e == [d EXCEPT ![q] = v]
<1>1. \A r \in StrictFor(t, x) : r \in DOMAIN t.rules /\ q \notin t.rules[r].body
  BY ReadersAreDependents DEF StrictFor, RulesFor
<1>2. \A r \in StrictFor(t, x) :
        /\ BodyAll(t, r, e, DL_PROVED) <=> BodyAll(t, r, d, DL_PROVED)
        /\ BodySome(t, r, e, DL_REFUTED) <=> BodySome(t, r, d, DL_REFUTED)
  BY <1>1, BodyLocal
<1> HIDE DEF e
<1>3. DeltaProves(t, e, x) <=> DeltaProves(t, d, x)
  BY <1>2 DEF DeltaProves
<1>4. DeltaRefutes(t, e, x) <=> DeltaRefutes(t, d, x)
  BY <1>2, <1>3 DEF DeltaRefutes
<1>5. EvalDelta(t, e, x) = EvalDelta(t, d, x)
  BY <1>3, <1>4 DEF EvalDelta
<1> QED
  BY <1>5 DEF e

\* A defeasible decision on q changes the evaluation of q's dependents only.
LEMMA PartLocal ==
  ASSUME NEW t, TheoryLits(t), NEW d, NEW p \in Status, NEW q \in Lits, NEW v,
         NEW x \in Lits, x \notin DependSucc(t, q)
  PROVE  EvalPart(t, d, [p EXCEPT ![q] = v], x) = EvalPart(t, d, p, x)
<1> DEFINE e == [p EXCEPT ![q] = v]
<1>1. \A r \in RulesFor(t, x) \cup RulesFor(t, Compl(x)) :
        r \in DOMAIN t.rules /\ q \notin t.rules[r].body
  BY ReadersAreDependents DEF RulesFor
<1>2. \A r \in RulesFor(t, x) \cup RulesFor(t, Compl(x)) :
        /\ Applicable(t, e, r) <=> Applicable(t, p, r)
        /\ Discarded(t, e, r) <=> Discarded(t, p, r)
  BY <1>1, BodyLocal DEF Applicable, Discarded
<1> HIDE DEF e
<1>3. SupportersOf(t, x) \subseteq RulesFor(t, x)
  BY DEF SupportersOf
<1>4. \A s : Defenders(t, s, x) \subseteq RulesFor(t, x)
  BY <1>3 DEF Defenders
<1>5. Supported(t, e, x) <=> Supported(t, p, x)
  BY <1>2, <1>3 DEF Supported
<1>6. NotSupported(t, e, x) <=> NotSupported(t, p, x)
  BY <1>2, <1>3 DEF NotSupported
<1>7. AllAttackersCountered(t, e, x) <=> AllAttackersCountered(t, p, x)
  BY <1>2, <1>4 DEF AllAttackersCountered, Countered
<1>8. AttackerUncountered(t, e, x) <=> AttackerUncountered(t, p, x)
  BY <1>2, <1>4 DEF AttackerUncountered
<1>9. PartProves(t, d, e, x) <=> PartProves(t, d, p, x)
  BY <1>5, <1>7 DEF PartProves
<1>10. PartRefutes(t, d, e, x) <=> PartRefutes(t, d, p, x)
  BY <1>6, <1>8 DEF PartRefutes
<1>11. EvalPart(t, d, e, x) = EvalPart(t, d, p, x)
  BY <1>9, <1>10 DEF EvalPart
<1> QED
  BY <1>11 DEF e

-----------------------------------------------------------------------------
(* Schedules.                                                              *)

\* ByIndex lists a set of literals: each of its members once.
LEMMA ByIndexLists ==
  ASSUME NEW c \in SUBSET Lits
  PROVE  ByIndex(c) \in Seq(c) /\ Range(ByIndex(c)) = c
<1> DEFINE n == Cardinality(c)
           Below(x) == {y \in c : y < x}
           rank == [x \in c |-> Cardinality(Below(x))]
<1>1. IsFiniteSet(c) /\ n \in Nat /\ c \subseteq Int
  <2>1. IsFiniteSet(c)
    BY LitsFinite, FS_Subset
  <2>2. c \subseteq Int
    BY NAtomsAssumption DEF Lits
  <2> QED
    BY <2>1, <2>2, FS_CardinalityType
<1>2. ASSUME NEW x \in c
      PROVE  IsFiniteSet(Below(x)) /\ Cardinality(Below(x)) \in 0 .. n - 1
  <2>1. Below(x) \in SUBSET c /\ Below(x) # c
    BY <1>1
  <2> HIDE DEF Below
  <2>2. IsFiniteSet(Below(x)) /\ Cardinality(Below(x)) <= n /\ Cardinality(Below(x)) # n
    BY <1>1, <2>1, FS_Subset
  <2>3. Cardinality(Below(x)) \in Nat
    BY <2>2, FS_CardinalityType
  <2> HIDE DEF n
  <2> QED
    BY <1>1, <2>2, <2>3
<1>3. ASSUME NEW x \in c, NEW z \in c, x < z PROVE rank[x] # rank[z]
  <2>a. \A y \in c : (y < x => y < z) /\ ~ (x < x)
    BY <1>1, <1>3
  <2>1. Below(x) \in SUBSET Below(z) /\ x \in Below(z) /\ x \notin Below(x)
    BY <2>a, <1>3
  <2>2. IsFiniteSet(Below(z))
    BY <1>2
  <2> HIDE DEF Below
  <2>3. Cardinality(Below(z)) # Cardinality(Below(x))
    BY <2>1, <2>2, FS_Subset
  <2> QED
    BY <2>3
<1>4. rank \in [c -> 0 .. n - 1]
  BY <1>2
<1> HIDE DEF rank
<1>5. rank \in Injection(c, 0 .. n - 1)
  <2>1. \A x, z \in c : rank[x] = rank[z] => x = z
    <3> SUFFICES ASSUME NEW x \in c, NEW z \in c, x # z PROVE rank[x] # rank[z]
      OBVIOUS
    <3>1. x < z \/ z < x
      BY <1>1
    <3> QED
      BY <1>3, <3>1
  <2> QED
    BY <1>4, <2>1 DEF Injection, IsInjective
<1> HIDE DEF n
<1>6. IsFiniteSet(0 .. n - 1) /\ Cardinality(0 .. n - 1) = n
  <2>1. 0 \in Int /\ n - 1 \in Int
    BY <1>1
  <2> QED
    BY <1>1, <2>1, FS_Interval
<1>7. \A i \in 0 .. n - 1 : \E x \in c : rank[x] = i
  <2>1. rank \in Surjection(c, 0 .. n - 1)
    BY <1>5, <1>6, FS_Injection DEF n
  <2> QED
    BY <2>1 DEF Surjection
<1>8. ASSUME NEW i \in 1 .. n PROVE ByIndex(c)[i] \in c /\ rank[ByIndex(c)[i]] = i - 1
  <2>1. i - 1 \in 0 .. n - 1
    BY <1>1
  <2>2. \E x \in c : Cardinality({y \in c : y < x}) = i - 1
    BY <1>7, <2>1 DEF rank
  <2>3. ByIndex(c)[i] = CHOOSE x \in c : Cardinality({y \in c : y < x}) = i - 1
    BY DEF ByIndex, n
  <2> QED
    BY <2>2, <2>3 DEF rank
<1>9. ByIndex(c) = [i \in 1 .. n |-> ByIndex(c)[i]]
  <2> DEFINE member(i) == CHOOSE x \in c : Cardinality({y \in c : y < x}) = i - 1
  <2>1. ByIndex(c) = [i \in 1 .. n |-> member(i)]
    BY DEF ByIndex, n
  <2> HIDE DEF member
  <2> QED
    BY <2>1
<1>10. ByIndex(c) \in Seq(c) /\ DOMAIN ByIndex(c) = 1 .. n
  BY <1>1, <1>8, <1>9
<1>11. ASSUME NEW x \in c PROVE \E i \in 1 .. n : ByIndex(c)[i] = x
  <2>1. rank[x] \in 0 .. n - 1
    BY <1>4
  <2>2. rank[x] + 1 \in 1 .. n /\ (rank[x] + 1) - 1 = rank[x]
    BY <1>1, <2>1
  <2>3. ByIndex(c)[rank[x] + 1] \in c /\ rank[ByIndex(c)[rank[x] + 1]] = rank[x]
    BY <1>8, <2>2
  <2>4. ByIndex(c)[rank[x] + 1] = x
    BY <1>5, <2>3 DEF Injection, IsInjective
  <2> QED
    BY <2>2, <2>4
<1> QED
  BY <1>8, <1>10, <1>11 DEF Range

-----------------------------------------------------------------------------
(* Numberings.                                                             *)

\* comps names the strongly connected component of every literal.
AreComponents(succ, comps) ==
  /\ comps \in [Lits -> SUBSET Lits]
  /\ \A q \in Lits : \A y : y \in comps[q] <=> /\ y \in Lits
                                               /\ y \in Closure(succ, {q})
                                               /\ q \in Closure(succ, {y})

\* A literal is in its component, and so is what shares one with it.
LEMMA ComponentsMeet ==
  ASSUME NEW succ \in [Lits -> SUBSET Lits], NEW comps, AreComponents(succ, comps),
         NEW q \in Lits
  PROVE  q \in comps[q] /\ \A y \in comps[q] : comps[y] = comps[q]
<1>1. q \in comps[q]
  BY ClosureStep DEF AreComponents
<1>2. ASSUME NEW y \in comps[q] PROVE comps[y] = comps[q]
  <2>1. y \in Lits /\ y \in Closure(succ, {q}) /\ q \in Closure(succ, {y})
    BY DEF AreComponents
  <2>2. ASSUME NEW z \in Lits PROVE z \in Closure(succ, {q}) <=> z \in Closure(succ, {y})
    BY <2>1, ClosureTransitive
  <2>3. ASSUME NEW z \in Lits PROVE q \in Closure(succ, {z}) <=> y \in Closure(succ, {z})
    BY <2>1, ClosureTransitive
  <2>4. \A z : z \in comps[y] <=> z \in comps[q]
    BY <2>1, <2>2, <2>3 DEF AreComponents
  <2>5. comps[y] \in SUBSET Lits /\ comps[q] \in SUBSET Lits
    BY <2>1 DEF AreComponents
  <2> QED
    BY <2>4, <2>5
<1> QED
  BY <1>1, <1>2

\* What no edge leaves for another of the components rest.
IsSink(succ, rest, c) == \A u \in c : succ[u] \subseteq c \cup (Lits \ UNION rest)

\* Among any components there is one that no edge leaves for another of them.
LEMMA SinkExists ==
  ASSUME NEW succ \in [Lits -> SUBSET Lits], NEW comps, AreComponents(succ, comps),
         NEW rest, rest # {}, \A c \in rest : \E q \in Lits : c = comps[q]
  PROVE  \E c \in rest : IsSink(succ, rest, c)
<1> DEFINE reach(q) == Closure(succ, {q})
           T == {reach(q) : q \in UNION rest}
<1>0. UNION rest \subseteq Lits /\ \A c \in rest : \A u \in c : u \in Lits /\ c = comps[u] /\ u \in UNION rest
  <2>1. ASSUME NEW c \in rest, NEW u \in c PROVE u \in Lits /\ c = comps[u] /\ u \in UNION rest
    <3>1. PICK q \in Lits : c = comps[q]
      OBVIOUS
    <3>2. u \in Lits
      BY <3>1 DEF AreComponents
    <3> QED
      BY <3>1, <3>2, ComponentsMeet
  <2> QED
    BY <2>1
<1>1. T \in SUBSET (SUBSET Lits) /\ T # {}
  <2>1. \A q \in Lits : reach(q) \in SUBSET Lits
    BY DEF Closure
  <2>2. PICK c \in rest : TRUE
    OBVIOUS
  <2>3. PICK q \in Lits : c = comps[q]
    OBVIOUS
  <2>4. q \in UNION rest
    BY <2>2, <2>3, ComponentsMeet
  <2> HIDE DEF reach
  <2> QED
    BY <1>0, <2>1, <2>4
<1>2. PICK X \in T : \A Y \in T : Y \subseteq X => Y = X
  <2> HIDE DEF T
  <2> QED
    BY <1>1, LitsFinite, SmallestSet
<1>3. PICK q \in UNION rest : X = reach(q)
  OBVIOUS
<1>4. PICK c \in rest : q \in c
  BY <1>3
<1>5. q \in Lits /\ c = comps[q]
  BY <1>0, <1>4
<1>6. ASSUME NEW u \in c, NEW v \in succ[u], v \in UNION rest PROVE v \in c
  <2>1. u \in Lits /\ c = comps[u] /\ v \in Lits
    BY <1>0, <1>4, <1>6
  <2>2. u \in reach(q) /\ q \in reach(u)
    BY <1>5 DEF AreComponents
  <2>3. v \in reach(u)
    BY <2>1, ClosureStep
  <2>4. v \in reach(q)
    BY <1>5, <2>1, <2>2, <2>3, ClosureTransitive
  <2>5. reach(v) \subseteq reach(q)
    BY <1>5, <2>1, <2>4, ClosureTransitive
  <2>6. reach(v) \in T
    BY <1>6
  <2>7. reach(v) = reach(q)
    BY <1>2, <1>3, <2>5, <2>6
  <2>8. q \in reach(v)
    BY <1>5, <2>7, ClosureStep
  <2>9. v \in comps[q] <=> v \in Lits /\ v \in reach(q) /\ q \in reach(v)
    BY <1>5 DEF AreComponents
  <2> QED
    BY <1>5, <2>1, <2>4, <2>8, <2>9
<1>7. \A u \in c : succ[u] \subseteq Lits
  BY <1>0, <1>4
<1> HIDE DEF T
<1>8. IsSink(succ, rest, c)
  BY <1>6, <1>7 DEF IsSink
<1> QED
  BY <1>4, <1>8

\* The least and the greatest of some literals are among them.
LEMMA ExtremeLits ==
  ASSUME NEW s \in SUBSET Lits, s # {}
  PROVE  Min(s) \in s /\ Max(s) \in s
<1>1. NAtoms \in Nat /\ \A x \in s : x \in Nat /\ 2 * NAtoms - x \in Nat
  BY NAtomsAssumption DEF Lits
<1>2. \E x \in s : \A y \in s : x <= y
  <2>1. s \subseteq Nat
    BY <1>1
  <2> QED
    BY <2>1, LeastNumber
<1>3. \E x \in s : \A y \in s : x >= y
  <2> DEFINE T == {2 * NAtoms - x : x \in s}
  <2>1. T \subseteq Nat /\ T # {}
    BY <1>1
  <2>2. \E n \in T : \A m \in T : n <= m
    <3> HIDE DEF T
    <3> QED
      BY <2>1, LeastNumber
  <2>3. PICK x \in s : \A m \in T : 2 * NAtoms - x <= m
    BY <2>2
  <2>4. \A y \in s : 2 * NAtoms - x <= 2 * NAtoms - y
    BY <2>3
  <2> QED
    BY <1>1, <2>4
<1> QED
  BY <1>2, <1>3 DEF Min, Max

\* In s each literal of a component leads, inside rest, to that component or to
\* earlier ones only.
Ordered(succ, rest, s) ==
  \A i \in DOMAIN s : \A u \in s[i] : \A v \in succ[u] :
    v \in UNION rest => \E j \in 1 .. i : v \in s[j]

\* A sink put before an ordered list of the other components.
LEMMA SinkFirst ==
  ASSUME NEW succ \in [Lits -> SUBSET Lits], NEW rest \in SUBSET (SUBSET Lits), NEW c \in rest,
         IsSink(succ, rest, c),
         NEW s \in Seq(rest \ {c}), Range(s) = rest \ {c}, Ordered(succ, rest \ {c}, s)
  PROVE  <<c>> \o s \in Seq(rest) /\ Range(<<c>> \o s) = rest /\ Ordered(succ, rest, <<c>> \o s)
<1> DEFINE n == Len(s)
           z == <<c>> \o s
<1>1. n \in Nat /\ DOMAIN s = 1 .. n /\ \A i \in 1 .. n : s[i] \in rest
  OBVIOUS
<1>2. z \in Seq(rest) /\ Len(z) = n + 1 /\ DOMAIN z = 1 .. n + 1
  <2>1. <<c>> \in Seq(rest) /\ s \in Seq(rest)
    BY <1>1
  <2> QED
    BY <2>1
<1>3. z[1] = c /\ \A i \in 2 .. n + 1 : z[i] = s[i - 1]
  OBVIOUS
<1> HIDE DEF z
<1>4. Range(z) = rest
  <2>1. \A x \in Range(z) : x \in rest
    BY <1>2 DEF Range
  <2>2. ASSUME NEW x \in rest PROVE x \in Range(z)
    <3>1. CASE x = c
      <4>1. 1 \in DOMAIN z
        BY <1>1, <1>2
      <4> QED
        BY <3>1, <4>1, <1>3 DEF Range
    <3>2. CASE x # c
      <4>1. PICK i \in 1 .. n : s[i] = x
        BY <3>2, <1>1 DEF Range
      <4>2. i + 1 \in DOMAIN z /\ i + 1 \in 2 .. n + 1 /\ (i + 1) - 1 = i
        BY <1>1, <1>2
      <4>3. z[i + 1] = x
        BY <1>3, <4>1, <4>2
      <4> QED
        BY <4>2, <4>3 DEF Range
    <3> QED
      BY <3>1, <3>2
  <2> QED
    BY <2>1, <2>2
<1>5. ASSUME NEW i \in 1 .. n + 1, NEW u \in z[i], NEW v \in succ[u], v \in UNION rest
      PROVE  \E j \in 1 .. i : v \in z[j]
  <2>0. 1 \in 1 .. i
    BY <1>1
  <2>1. CASE v \in c
    BY <2>0, <2>1, <1>3
  <2>2. CASE v \notin c
    <3>1. i # 1
      BY <1>3, <1>5, <2>2 DEF IsSink
    <3>2. i \in 2 .. n + 1 /\ i - 1 \in 1 .. n
      BY <3>1, <1>1
    <3>3. u \in s[i - 1] /\ v \in UNION (rest \ {c})
      BY <3>2, <1>3, <1>5, <2>2
    <3>4. PICK j \in 1 .. i - 1 : v \in s[j]
      BY <1>1, <3>2, <3>3 DEF Ordered
    <3>5. j + 1 \in 1 .. i /\ j + 1 \in 2 .. n + 1 /\ (j + 1) - 1 = j
      BY <3>2, <1>1
    <3>6. v \in z[j + 1]
      BY <1>3, <3>4, <3>5
    <3> QED
      BY <3>5, <3>6
  <2> QED
    BY <2>1, <2>2
<1>6. Ordered(succ, rest, z)
  BY <1>2, <1>5 DEF Ordered
<1> QED
  BY <1>2, <1>4, <1>6 DEF z

\* A numbering lists every component, and edges lead to earlier ones only.
LEMMA NumberingFacts ==
  ASSUME NEW succ \in [Lits -> SUBSET Lits], NEW comps, AreComponents(succ, comps),
         NEW high, NEW s, s = Numbering(comps, succ, high)
  PROVE  LET parts == {comps[q] : q \in Lits}
         IN  s \in Seq(parts) /\ Range(s) = parts /\ Ordered(succ, parts, s)
<1> DEFINE parts == {comps[q] : q \in Lits}
           Sinks(rest) == {c \in rest : \A u \in c : succ[u] \subseteq c \cup (Lits \ UNION rest)}
           Pick(cs) == CHOOSE c \in cs : (IF high THEN Max(UNION cs) ELSE Min(UNION cs)) \in c
           F == CHOOSE f : f = [rest \in SUBSET parts |->
                                  IF rest = {} THEN <<>>
                                  ELSE LET c == Pick(Sinks(rest)) IN <<c>> \o f[rest \ {c}]]
           pick == [rest \in SUBSET parts |-> Pick(Sinks(rest))]
           V == Seq(parts)
           step == [x \in parts \X V |-> <<x[1]>> \o x[2]]
<1>1. s = F[parts]
  BY DEF Numbering
<1>2. ASSUME NEW rest \in SUBSET parts, rest # {}
      PROVE  Pick(Sinks(rest)) \in Sinks(rest)
  <2>1. \E c \in rest : IsSink(succ, rest, c)
    <3>1. \A c \in rest : \E q \in Lits : c = comps[q]
      OBVIOUS
    <3> QED
      BY <1>2, <3>1, SinkExists
  <2>2. Sinks(rest) # {} /\ Sinks(rest) \subseteq rest
    BY <2>1 DEF IsSink
  <2>3. \A c \in rest : c # {} /\ c \in SUBSET Lits
    <3>1. \A q \in Lits : comps[q] # {} /\ comps[q] \in SUBSET Lits
      BY ComponentsMeet DEF AreComponents
    <3> QED
      BY <3>1
  <2> DEFINE cs == Sinks(rest)
             all == UNION cs
  <2>4. cs # {} /\ \A c \in cs : c # {} /\ c \in SUBSET Lits
    BY <2>2, <2>3
  <2> HIDE DEF cs
  <2>5. all \in SUBSET Lits /\ all # {}
    BY <2>4
  <2>6. Min(all) \in all /\ Max(all) \in all
    <3> HIDE DEF all
    <3> QED
      BY <2>5, ExtremeLits
  <2>7. \E c \in cs : (IF high THEN Max(all) ELSE Min(all)) \in c
    BY <2>6
  <2>8. Pick(cs) \in cs
    BY <2>7
  <2> QED
    BY <2>8 DEF cs
<1>3. ASSUME NEW rest \in SUBSET parts, rest # {}
      PROVE  pick[rest] = Pick(Sinks(rest)) /\ pick[rest] \in rest
  BY <1>2, <1>3
<1> HIDE DEF Pick
<1>4. IsFiniteSet(parts) /\ parts \in SUBSET (SUBSET Lits)
  <2>1. parts \in SUBSET (SUBSET Lits)
    BY DEF AreComponents
  <2>2. IsFiniteSet(SUBSET Lits)
    BY LitsFinite, FS_SUBSET
  <2> QED
    BY <2>1, <2>2, FS_Subset
<1> HIDE DEF parts
<1>5. \E f : /\ f = [rest \in SUBSET parts |-> f[rest]]
             /\ \A rest \in SUBSET parts :
                  f[rest] = IF rest = {} THEN <<>> ELSE <<Pick(Sinks(rest))>> \o f[rest \ {Pick(Sinks(rest))}]
  <2>1. Chooses(pick, parts)
    BY <1>3 DEF Chooses
  <2>2. step \in [parts \X V -> V] /\ <<>> \in V
    <3>1. \A x \in parts \X V : <<x[1]>> \o x[2] \in V
      OBVIOUS
    <3> QED
      BY <3>1
  <2>3. \A c \in parts, z \in V : step[<<c, z>>] = <<c>> \o z
    OBVIOUS
  <2> HIDE DEF pick, step, V, Sinks
  <2>4. PICK f : IsFold(f, parts, pick, <<>>, step)
    BY <1>4, <2>1, FoldExists
  <2>5. \A rest \in SUBSET parts : f[rest] \in V
    BY <1>4, <2>1, <2>2, <2>4, FoldType
  <2>6. ASSUME NEW rest \in SUBSET parts
        PROVE  f[rest] = IF rest = {} THEN <<>> ELSE <<Pick(Sinks(rest))>> \o f[rest \ {Pick(Sinks(rest))}]
    <3>1. CASE rest = {}
      BY <2>4, <3>1 DEF IsFold
    <3>2. CASE rest # {}
      <4> DEFINE c == Pick(Sinks(rest))
      <4>1. c = pick[rest] /\ c \in rest /\ c \in parts
        BY <1>3, <3>2
      <4> HIDE DEF c
      <4>2. f[rest] = step[<<c, f[rest \ {c}]>>]
        BY <2>4, <3>2, <4>1 DEF IsFold
      <4>3. f[rest \ {c}] \in V
        BY <2>5
      <4>4. f[rest] = <<c>> \o f[rest \ {c}]
        BY <2>3, <4>1, <4>2, <4>3
      <4> QED
        BY <3>2, <4>4 DEF c
    <3> QED
      BY <3>1, <3>2
  <2>7. f = [rest \in SUBSET parts |-> f[rest]]
    BY <2>4 DEF IsFold
  <2> QED
    BY <2>6, <2>7
<1>6. \E f : f = [rest \in SUBSET parts |->
                   IF rest = {} THEN <<>> ELSE LET c == Pick(Sinks(rest)) IN <<c>> \o f[rest \ {c}]]
  <2> HIDE DEF Sinks
  <2> QED
    BY <1>5
<1>7. \A rest \in SUBSET parts :
        F[rest] = IF rest = {} THEN <<>> ELSE <<Pick(Sinks(rest))>> \o F[rest \ {Pick(Sinks(rest))}]
  <2> HIDE DEF Sinks
  <2>1. F = [rest \in SUBSET parts |->
               IF rest = {} THEN <<>> ELSE LET c == Pick(Sinks(rest)) IN <<c>> \o F[rest \ {c}]]
    BY <1>6
  <2> HIDE DEF F
  <2> QED
    BY <2>1
<1> HIDE DEF F
<1> DEFINE T == {rest \in SUBSET parts : F[rest] \in Seq(rest) /\ Range(F[rest]) = rest /\ Ordered(succ, rest, F[rest])}
<1>8. {} \in T
  <2>1. F[{}] = <<>>
    BY <1>7
  <2>2. <<>> \in Seq({}) /\ DOMAIN <<>> = {}
    OBVIOUS
  <2>3. F[{}] \in Seq({}) /\ Range(F[{}]) = {} /\ Ordered(succ, {}, F[{}])
    BY <2>1, <2>2 DEF Range, Ordered
  <2> QED
    BY <2>3
<1>9. ASSUME NEW rest \in SUBSET parts, rest # {}
      PROVE  \E x \in rest : rest \ {x} \in T => rest \in T
  <2> DEFINE c == Pick(Sinks(rest))
  <2>1. c \in Sinks(rest)
    BY <1>2, <1>9
  <2>2. c \in rest /\ IsSink(succ, rest, c)
    BY <2>1 DEF IsSink
  <2>3. F[rest] = <<c>> \o F[rest \ {c}]
    BY <1>7, <1>9
  <2> HIDE DEF c, Sinks
  <2>4. ASSUME rest \ {c} \in T PROVE rest \in T
    <3> DEFINE z == F[rest \ {c}]
    <3>1. rest \in SUBSET (SUBSET Lits)
      BY <1>4
    <3>2. z \in Seq(rest \ {c}) /\ Range(z) = rest \ {c} /\ Ordered(succ, rest \ {c}, z)
      BY <2>4
    <3> HIDE DEF z
    <3>3. <<c>> \o z \in Seq(rest) /\ Range(<<c>> \o z) = rest /\ Ordered(succ, rest, <<c>> \o z)
      BY <2>2, <3>1, <3>2, SinkFirst
    <3>4. F[rest] = <<c>> \o z
      BY <2>3 DEF z
    <3> QED
      BY <3>3, <3>4
  <2> QED
    BY <2>2, <2>4
<1>10. parts \in T
  <2> HIDE DEF T
  <2>1. \A rest \in SUBSET parts : rest \in T
    BY <1>4, <1>8, <1>9, SubsetInduction
  <2> QED
    BY <2>1
<1> QED
  BY <1>1, <1>10 DEF parts

\* The components of the two graphs of a theory.
LEMMA TheoryComponents ==
  ASSUME NEW t, TheoryLits(t)
  PROVE  AreComponents(Supports(t), SupportSccs(t)) /\ AreComponents(Depends(t), DependSccs(t))
<1>1. AreComponents(Supports(t), SupportSccs(t))
  BY SccsType, SccReading DEF AreComponents
<1> DEFINE reach == [q \in Lits |-> DependReach(t, {q})]
<1>2. \A q \in Lits : reach[q] = Closure(Depends(t), {q})
  BY CycleReading
<1>3. \A q \in Lits : Closure(Depends(t), {q}) \subseteq Lits
  BY DEF Closure
<1>4. DependSccs(t) = [q \in Lits |-> {x \in reach[q] : q \in reach[x]}]
  BY DEF DependSccs
<1> HIDE DEF reach
<1>5. ASSUME NEW q \in Lits
      PROVE  DependSccs(t)[q] = {x \in Lits : /\ x \in Closure(Depends(t), {q})
                                             /\ q \in Closure(Depends(t), {x})}
  <2>1. DependSccs(t)[q] = {x \in reach[q] : q \in reach[x]}
    BY <1>4
  <2>2. reach[q] \subseteq Lits
    BY <1>2, <1>3
  <2>3. \A x \in Lits : reach[x] = Closure(Depends(t), {x})
    BY <1>2
  <2> QED
    BY <2>1, <2>2, <2>3
<1>6. DependSccs(t) \in [Lits -> SUBSET Lits]
  <2>1. \A q \in Lits : {x \in reach[q] : q \in reach[x]} \in SUBSET Lits
    BY <1>2, <1>3
  <2> QED
    BY <1>4, <2>1
<1>7. AreComponents(Depends(t), DependSccs(t))
  BY <1>5, <1>6 DEF AreComponents
<1> QED
  BY <1>1, <1>7

\* The numbering of the completion pass lists the support components.
LEMMA SupportNumberingLists ==
  ASSUME NEW t, TheoryLits(t), NEW high, NEW s, s = SupportNumbering(t, high)
  PROVE  /\ \E n \in Nat : DOMAIN s = 1 .. n /\ Len(s) = n
         /\ \A i \in DOMAIN s : \E q \in Lits : s[i] = SupportSccs(t)[q]
         /\ \A q \in Lits : \E i \in DOMAIN s : s[i] = SupportSccs(t)[q]
<1> DEFINE parts == {SupportSccs(t)[q] : q \in Lits}
<1>1. s = Numbering(SupportSccs(t), Supports(t), high)
  BY DEF SupportNumbering, Supports
<1>2. s \in Seq(parts) /\ Range(s) = parts
  BY <1>1, GraphsOnLits, TheoryComponents, NumberingFacts
<1>3. \A q \in Lits : SupportSccs(t)[q] \in Range(s)
  BY <1>2
<1>4. \A x \in parts : \E q \in Lits : x = SupportSccs(t)[q]
  OBVIOUS
<1> HIDE DEF parts
<1>5. \A i \in DOMAIN s : s[i] \in parts
  BY <1>2
<1> QED
  BY <1>2, <1>3, <1>4, <1>5 DEF Range

\* The schedule of the condensation visits every literal, and the dependents of a
\* literal in its component or in earlier ones.
LEMMA ScheduleLists ==
  ASSUME NEW t, TheoryLits(t), NEW high, NEW s, s = Schedule(t, high)
  PROVE  /\ s \in Seq(Seq(Lits))
         /\ \A q \in Lits : \E i \in DOMAIN s : q \in Range(s[i])
         /\ \A i \in DOMAIN s : \A u \in Range(s[i]) : \A v \in DependSucc(t, u) :
              \E j \in 1 .. i : v \in Range(s[j])
         /\ \A i \in DOMAIN s : s[i] # <<>>
<1> DEFINE parts == {DependSccs(t)[q] : q \in Lits}
           z == Numbering(DependSccs(t), Depends(t), high)
<1>1. s = [i \in DOMAIN z |-> ByIndex(z[i])]
  BY DEF Schedule, Depends
<1>2. z \in Seq(parts) /\ Range(z) = parts /\ Ordered(Depends(t), parts, z)
  BY GraphsOnLits, TheoryComponents, NumberingFacts
<1>3. parts \in SUBSET (SUBSET Lits) /\ (\A q \in Lits : q \in UNION parts) /\ {} \notin parts
  <2>1. \A q \in Lits : q \in DependSccs(t)[q] /\ DependSccs(t)[q] \in SUBSET Lits
    BY GraphsOnLits, TheoryComponents, ComponentsMeet DEF AreComponents
  <2> QED
    BY <2>1
<1> HIDE DEF parts, z
<1>4. PICK n \in Nat : DOMAIN z = 1 .. n /\ \A i \in 1 .. n : z[i] \in SUBSET Lits
  BY <1>2, <1>3
<1>5. \A i \in 1 .. n : s[i] \in Seq(z[i]) /\ Range(s[i]) = z[i]
  BY <1>1, <1>4, ByIndexLists
<1>6. \A i \in 1 .. n : s[i] \in Seq(Lits)
  BY <1>4, <1>5
<1>7. s \in Seq(Seq(Lits)) /\ DOMAIN s = 1 .. n
  BY <1>1, <1>4, <1>6
<1>8. ASSUME NEW q \in Lits PROVE \E i \in DOMAIN s : q \in Range(s[i])
  <2>1. PICK c \in Range(z) : q \in c
    BY <1>2, <1>3
  <2>2. PICK i \in 1 .. n : z[i] = c
    BY <1>4 DEF Range
  <2> QED
    BY <2>1, <2>2, <1>5, <1>7
<1>9. ASSUME NEW i \in DOMAIN s, NEW u \in Range(s[i]), NEW v \in DependSucc(t, u)
      PROVE  \E j \in 1 .. i : v \in Range(s[j])
  <2>1. u \in z[i] /\ u \in Lits /\ i \in 1 .. n
    BY <1>4, <1>5, <1>7
  <2>2. v \in Depends(t)[u] /\ v \in Lits
    BY <2>1, GraphsOnLits DEF Depends
  <2>3. PICK j \in 1 .. i : v \in z[j]
    BY <1>2, <1>3, <1>4, <2>1, <2>2 DEF Ordered
  <2>4. j \in 1 .. n
    BY <2>1
  <2> QED
    BY <1>5, <2>3, <2>4
<1>10. \A i \in DOMAIN s : s[i] # <<>>
  <2> SUFFICES ASSUME NEW i \in 1 .. n, s[i] = <<>> PROVE FALSE
    BY <1>7
  <2>1. Range(s[i]) = {}
    BY DEF Range
  <2>2. z[i] \in parts
    BY <1>2, <1>4
  <2> QED
    BY <1>3, <1>5, <2>1, <2>2
<1> QED
  BY <1>7, <1>8, <1>9, <1>10
=============================================================================
