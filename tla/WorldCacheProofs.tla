--------------------------- MODULE WorldCacheProofs --------------------------
(***************************************************************************)
(* The caches of a world are right for every set of rules, fluents and     *)
(* islands: the invariants of WorldCache from one inductive invariant,     *)
(* stated of a cache so that it can be carried through the functions that  *)
(* refresh one.                                                            *)
(***************************************************************************)
EXTENDS WorldCache, FiniteSetTheorems, TLAPS

Snapshots == [Fluents -> BOOLEAN] \X BOOLEAN
Counts    == [Fluents -> Int]
Marks     == [Islands -> Nat \cup {-1}]

Caches == [struct : Nat, static : Nat, stale : BOOLEAN,
           jfam : Family, solved : BOOLEAN, facts : Snapshots,
           fam : Family, suffix : SUBSET Matchable, index : Counts,
           vseq : Nat, vmark : Marks, vmat : Marks]

Mat(c)  == {m \in Islands : c.vmat[m] = c.vseq /\ c.vmat[m] >= 0}
Rows(c) == {m \in Islands : c.vmark[m] = c.vseq}

\* The index is that of the state, whether or not the layer above is stale.
IndexGood(c) == c.index = NoIndex \/ c.index = IndexOf(vals)

\* Generations never run ahead of the counter, and the islands among the rules
\* are those traced in this generation.
ViewsGood(c) ==
  /\ \A m \in Islands : c.vmark[m] <= c.vseq /\ c.vmat[m] <= c.vseq
  /\ c.suffix \cap Islands = Mat(c)
  /\ Mat(c) \subseteq Rows(c)

LayerGood(c) ==
  /\ ~ hooks => c.suffix = {} /\ \A m \in Islands : c.vmark[m] = -1
  /\ hooks /\ ~ c.stale => c.suffix \ Islands = FreshRules /\ Rows(c) = FreshRows

\* A family with the present version holds the present rules, stale layer or not.
JfamGood(c) ==
  /\ c.jfam.ver <= c.struct /\ c.jfam.static <= c.static
  /\ c.jfam # None /\ c.jfam.static = c.static => c.jfam.kept = Prefix /\ c.jfam.sups = sups
  /\ c.jfam # None /\ c.jfam.ver = c.struct =>
       c.jfam.rules = statics \cup c.suffix /\ c.jfam.sups = sups
  /\ c.solved => c.facts = <<vals, gval>>

FamGood(c) ==
  /\ c.fam.ver <= c.struct
  /\ c.fam # None /\ c.fam.ver = c.struct =>
       c.fam.rules = statics \cup c.suffix /\ c.fam.sups = sups

Unused(c) == inMatched /\ ~ hooks => c.jfam = None /\ c.fam = None

Good(c) == /\ c \in Caches
           /\ IndexGood(c) /\ ViewsGood(c) /\ LayerGood(c)
           /\ JfamGood(c) /\ FamGood(c) /\ Unused(c)

StateTyped ==
  /\ vals \in [Fluents -> BOOLEAN] /\ gval \in BOOLEAN
  /\ statics \subseteq StaticPool /\ sups \subseteq SupPool
  /\ inMatched \in BOOLEAN /\ hooks \in BOOLEAN /\ (hooks => inMatched)

CInv == StateTyped /\ Good(cache)

-----------------------------------------------------------------------------
(* Re-deriving the matched layer.                                          *)

\* With a right index the join finds the matches of the state.
LEMMA IndexFinds ==
  ASSUME StateTyped
  PROVE  /\ IndexOf(vals) \in Counts
         /\ {f \in Fluents : IndexOf(vals)[f] > 0} = TrueFluents
BY DEF StateTyped, IndexOf, TrueFluents, Counts

\* Taking the matched layer off is an edit only if there was one.
LEMMA ResetGood ==
  ASSUME NEW c \in Caches
  PROVE  /\ MatchedReset(c) \in Caches
         /\ MatchedReset(c).suffix = {}
         /\ MatchedReset(c).struct = IF c.suffix = {} THEN c.struct ELSE c.struct + 1
         /\ MatchedReset(c).static = c.static /\ MatchedReset(c).jfam = c.jfam
         /\ MatchedReset(c).solved = c.solved /\ MatchedReset(c).facts = c.facts
         /\ MatchedReset(c).fam = c.fam
         /\ MatchedReset(c).vmat = c.vmat /\ MatchedReset(c).vmark = c.vmark
<1>1. CASE c.suffix = {}
  BY <1>1 DEF MatchedReset
<1>2. CASE c.suffix # {}
  <2>1. MatchedReset(c) = [c EXCEPT !.suffix = {}, !.struct = @ + 1]
    BY <1>2 DEF MatchedReset
  <2>2. {} \in SUBSET Matchable /\ c.struct + 1 \in Nat
    BY DEF Caches
  <2> QED
    BY <1>2, <2>1, <2>2 DEF Caches
<1> QED
  BY <1>1, <1>2

\* A re-ground leaves a right layer, and a family that was current stays so
\* only if neither layer of rules had anything in it.
LEMMA RegroundGood ==
  ASSUME StateTyped, hooks, NEW c, Good(c)
  PROVE  Good(Reground(c)) /\ ~ Reground(c).stale
<1> DEFINE ix == IF c.index = NoIndex THEN IndexOf(vals) ELSE c.index
           found == MatchesIn({f \in Fluents : ix[f] > 0})
           rows == {m \in found \cap Islands : m \in Guarded => gval}
           gen == c.vseq + 1
           base == MatchedReset(c)
           d == Reground(c)
<1>0. c \in Caches
  BY DEF Good
<1>1. ix = IndexOf(vals) /\ ix \in Counts
  BY IndexFinds DEF Good, IndexGood
<1>2. found = MatchesIn(TrueFluents)
  <2>1. {f \in Fluents : ix[f] > 0} = TrueFluents
    BY <1>1, IndexFinds
  <2> QED
    BY <2>1
<1>3. found \ Islands = FreshRules /\ rows = FreshRows
  BY <1>2 DEF FreshRules, FreshRows
<1>4. found \subseteq Matchable /\ Cardinality(found \ Islands) \in Nat
  <2>1. found \subseteq Matchable
    BY DEF MatchesIn
  <2>2. IsFiniteSet(found \ Islands)
    BY <2>1, FS_Subset, CacheAssumption
  <2> QED
    BY <2>1, <2>2, FS_CardinalityType
<1>5. found \ Islands # {} => Cardinality(found \ Islands) > 0
  <2>1. IsFiniteSet(found \ Islands)
    BY <1>4, FS_Subset, CacheAssumption
  <2>2. Cardinality(found \ Islands) = 0 => found \ Islands = {}
    BY <2>1, FS_EmptySet
  <2> HIDE DEF found
  <2> QED
    BY <2>2, <1>4
<1> HIDE DEF ix, found
<1>b. /\ base \in Caches /\ base.suffix = {}
      /\ base.struct = IF c.suffix = {} THEN c.struct ELSE c.struct + 1
      /\ base.static = c.static /\ base.jfam = c.jfam /\ base.solved = c.solved
      /\ base.facts = c.facts /\ base.fam = c.fam /\ base.vmat = c.vmat /\ base.vmark = c.vmark
  BY <1>0, ResetGood
<1> HIDE DEF base
<1>d. d = [base EXCEPT !.index = ix,
                   !.suffix = @ \cup (found \ Islands),
                   !.struct = @ + Cardinality(found \ Islands),
                   !.vseq = gen,
                   !.vmark = [m \in Islands |-> IF m \in rows THEN gen ELSE @[m]],
                   !.stale = FALSE]
  BY DEF Reground, ix, found, base
<1>v. gen \in Nat /\ [m \in Islands |-> IF m \in rows THEN gen ELSE base.vmark[m]] \in Marks
  BY <1>0, <1>b DEF Caches, Marks
<1>6. d \in Caches
  <2> DEFINE marks == [m \in Islands |-> IF m \in rows THEN gen ELSE base.vmark[m]]
  <2>1. gen \in Nat /\ marks \in Marks
    BY <1>v
  <2>2. base.suffix \cup (found \ Islands) \in SUBSET Matchable
    BY <1>b, <1>4
  <2>3. base.struct + Cardinality(found \ Islands) \in Nat
    BY <1>b, <1>4 DEF Caches
  <2>4. d = [base EXCEPT !.index = ix, !.suffix = base.suffix \cup (found \ Islands),
                         !.struct = base.struct + Cardinality(found \ Islands),
                         !.vseq = gen, !.vmark = marks, !.stale = FALSE]
    BY <1>d, <1>b DEF Caches
  <2> HIDE DEF marks, gen, d
  <2> QED
    BY <2>1, <2>2, <2>3, <2>4, <1>b, <1>1 DEF Caches
<1>7. /\ d.suffix = FreshRules /\ d.index = IndexOf(vals) /\ d.stale = FALSE
      /\ d.vseq = gen /\ d.vmat = c.vmat
      /\ d.vmark = [m \in Islands |-> IF m \in rows THEN gen ELSE c.vmark[m]]
      /\ d.jfam = c.jfam /\ d.fam = c.fam /\ d.solved = c.solved /\ d.facts = c.facts
      /\ d.static = c.static
      /\ d.struct = base.struct + Cardinality(found \ Islands)
  BY <1>d, <1>b, <1>1, <1>3 DEF Caches
<1>8. d.struct >= c.struct
  BY <1>7, <1>b, <1>4, <1>0 DEF Caches
<1>9. d.struct = c.struct => c.suffix = {} /\ d.suffix = {}
  BY <1>7, <1>b, <1>4, <1>5, <1>3, <1>0 DEF Caches
<1> HIDE DEF d
<1>10. Mat(d) = {} /\ Rows(d) = FreshRows
  <2>1. \A m \in Islands : c.vmark[m] <= c.vseq /\ c.vmat[m] <= c.vseq
    BY DEF Good, ViewsGood
  <2>2. \A m \in Islands : c.vmark[m] \in Int /\ c.vmat[m] \in Int /\ c.vseq \in Nat
    BY <1>0 DEF Caches, Marks
  <2>3. \A m \in Islands : d.vmark[m] = gen <=> m \in rows
    BY <1>7, <2>1, <2>2
  <2>4. rows \subseteq Islands
    OBVIOUS
  <2> QED
    BY <1>7, <2>1, <2>2, <2>3, <2>4, <1>3 DEF Mat, Rows
<1>11. IndexGood(d) /\ LayerGood(d)
  BY <1>7, <1>10 DEF IndexGood, LayerGood, FreshRules
<1>12. ViewsGood(d)
  <2>1. \A m \in Islands : d.vmark[m] <= d.vseq /\ d.vmat[m] <= d.vseq
    BY <1>7, <1>0 DEF Good, ViewsGood, Caches, Marks
  <2>2. d.suffix \cap Islands = {}
    BY <1>7 DEF FreshRules
  <2> QED
    BY <2>1, <2>2, <1>10 DEF ViewsGood
<1>13. JfamGood(d) /\ FamGood(d)
  <2>1. c.jfam.ver \in Int /\ c.fam.ver \in Int /\ c.struct \in Nat /\ d.struct \in Nat
    BY <1>0, <1>6 DEF Caches, Family
  <2>2. JfamGood(c) /\ FamGood(c)
    BY DEF Good
  <2> QED
    BY <2>1, <2>2, <1>7, <1>8, <1>9 DEF JfamGood, FamGood
<1>14. Unused(d)
  BY DEF Unused
<1> QED
  BY <1>6, <1>7, <1>11, <1>12, <1>13, <1>14 DEF Good, d

\* After a refresh the layer is right and not stale.
LEMMA RefreshGood ==
  ASSUME StateTyped, NEW c, Good(c)
  PROVE  Good(RefreshMatched(c)) /\ ~ (hooks /\ RefreshMatched(c).stale)
BY RegroundGood DEF RefreshMatched

-----------------------------------------------------------------------------
(* The families.                                                           *)

\* Emitting cuts back a family only when the rules below its watermark are
\* those of now; either way it ends up with the present rules.
LEMMA EmitGood ==
  ASSUME StateTyped, Serving, NEW c, Good(c)
  PROVE  /\ Good(EmitFamily(c))
         /\ EmitFamily(c).jfam # None /\ EmitFamily(c).jfam.ver = EmitFamily(c).struct
         /\ EmitFamily(c).stale = c.stale
<1> DEFINE above == c.suffix \cup (statics \ Prefix)
           reuse == c.jfam # None /\ c.jfam.static = c.static
           kept == IF reuse THEN c.jfam.kept ELSE Prefix
           above2 == IF reuse THEN c.jfam.sups ELSE sups
           j == [ver |-> c.struct, static |-> c.static, kept |-> kept,
                 rules |-> kept \cup above, sups |-> above2]
           d == EmitFamily(c)
<1>0. c \in Caches
  BY DEF Good
<1>1. kept = Prefix /\ above2 = sups
  BY DEF Good, JfamGood
<1>2. Prefix \subseteq statics
  BY DEF Prefix
<1>3. kept \cup above = statics \cup c.suffix
  BY <1>1, <1>2
<1>4. j = [ver |-> c.struct, static |-> c.static, kept |-> Prefix,
           rules |-> statics \cup c.suffix, sups |-> sups]
  BY <1>1, <1>3
<1>5. j \in Family
  <2>1. c.struct \in Nat /\ c.static \in Nat /\ c.suffix \subseteq Matchable
    BY <1>0 DEF Caches
  <2> QED
    BY <1>4, <1>2, <2>1 DEF Family, StateTyped
<1>6. d = [c EXCEPT !.jfam = j, !.solved = FALSE]
  BY <1>0 DEF EmitFamily, Caches
<1> HIDE DEF j, d
<1>7. /\ d \in Caches /\ d.jfam = j /\ d.solved = FALSE
      /\ d.struct = c.struct /\ d.static = c.static /\ d.stale = c.stale
      /\ d.fam = c.fam /\ d.suffix = c.suffix /\ d.index = c.index
      /\ d.vseq = c.vseq /\ d.vmark = c.vmark /\ d.vmat = c.vmat
  BY <1>0, <1>5, <1>6 DEF Caches
<1>8. IndexGood(d) /\ ViewsGood(d) /\ LayerGood(d) /\ FamGood(d)
  BY <1>7 DEF Good, IndexGood, ViewsGood, LayerGood, FamGood, Mat, Rows
<1>9. c.struct \in Nat /\ c.static \in Nat
  BY <1>0 DEF Caches
<1>10. JfamGood(d)
  BY <1>4, <1>7, <1>9 DEF JfamGood
<1>11. Unused(d)
  BY DEF Unused, Serving
<1>12. j # None /\ j.ver = c.struct
  BY <1>4, <1>9 DEF None
<1> QED
  BY <1>7, <1>8, <1>10, <1>11, <1>12 DEF Good, d

\* A query leaves a right cache, with the layer up to date.
LEMMA EnsureJfamGood ==
  ASSUME StateTyped, Serving, NEW c, Good(c)
  PROVE  Good(EnsureJfam(c)) /\ ~ (hooks /\ EnsureJfam(c).stale)
<1> DEFINE r == RefreshMatched(c)
<1>1. Good(r) /\ ~ (hooks /\ r.stale)
  BY RefreshGood
<1>2. EnsureJfam(c) = IF r.jfam # None /\ r.jfam.ver = r.struct THEN r ELSE EmitFamily(r)
  BY DEF EnsureJfam
<1> HIDE DEF r
<1>3. Good(EmitFamily(r)) /\ EmitFamily(r).stale = r.stale
  BY <1>1, EmitGood
<1> QED
  BY <1>1, <1>2, <1>3

\* Solving records the facts it solved over.
LEMMA SolveGood ==
  ASSUME StateTyped, NEW c, Good(c)
  PROVE  Good(SolveJudgments(c))
<1> DEFINE d == [c EXCEPT !.solved = TRUE, !.facts = <<vals, gval>>]
<1>0. c \in Caches
  BY DEF Good
<1>1. <<vals, gval>> \in Snapshots
  BY DEF StateTyped, Snapshots
<1>2. /\ d \in Caches /\ d.facts = <<vals, gval>>
      /\ d.struct = c.struct /\ d.static = c.static /\ d.stale = c.stale
      /\ d.jfam = c.jfam /\ d.fam = c.fam /\ d.suffix = c.suffix /\ d.index = c.index
      /\ d.vseq = c.vseq /\ d.vmark = c.vmark /\ d.vmat = c.vmat
  BY <1>0, <1>1 DEF Caches
<1>3. SolveJudgments(c) = IF c.solved THEN c ELSE d
  BY DEF SolveJudgments
<1> HIDE DEF d
<1>4. Good(d)
  BY <1>2 DEF Good, IndexGood, ViewsGood, LayerGood, JfamGood, FamGood, Unused, Mat, Rows
<1> QED
  BY <1>3, <1>4

\* Forgetting a solution owes nothing.
LEMMA UnsolvedGood ==
  ASSUME NEW c, Good(c)
  PROVE  Good([c EXCEPT !.solved = FALSE])
<1> DEFINE d == [c EXCEPT !.solved = FALSE]
<1>0. c \in Caches
  BY DEF Good
<1>2. /\ d \in Caches /\ d.facts = c.facts /\ d.solved = FALSE
      /\ d.struct = c.struct /\ d.static = c.static /\ d.stale = c.stale
      /\ d.jfam = c.jfam /\ d.fam = c.fam /\ d.suffix = c.suffix /\ d.index = c.index
      /\ d.vseq = c.vseq /\ d.vmark = c.vmark /\ d.vmat = c.vmat
  BY <1>0 DEF Caches
<1> HIDE DEF d
<1>4. Good(d)
  BY <1>2 DEF Good, IndexGood, ViewsGood, LayerGood, JfamGood, FamGood, Unused, Mat, Rows
<1> QED
  BY <1>4 DEF d

\* The family a step is solved over holds the present rules.
LEMMA EnsureFamGood ==
  ASSUME StateTyped, Serving, NEW c, Good(c)
  PROVE  /\ Good(EnsureFam(c)) /\ ~ (hooks /\ EnsureFam(c).stale)
         /\ EnsureFam(c).fam.rules = statics \cup EnsureFam(c).suffix
         /\ EnsureFam(c).fam.sups = sups
<1> DEFINE r == RefreshMatched(c)
           n == [None EXCEPT !.ver = r.struct, !.rules = statics \cup r.suffix, !.sups = sups]
           d == [r EXCEPT !.fam = n]
<1>1. Good(r) /\ ~ (hooks /\ r.stale)
  BY RefreshGood
<1>2. EnsureFam(c) = IF r.fam # None /\ r.fam.ver = r.struct THEN r ELSE d
  BY DEF EnsureFam
<1> HIDE DEF r
<1>3. r \in Caches
  BY <1>1 DEF Good
<1>4. r.struct \in Nat /\ r.suffix \subseteq Matchable
  BY <1>3 DEF Caches
<1>5. None \in Family
  BY DEF None, Family
<1>6. n \in Family /\ n.ver = r.struct /\ n.rules = statics \cup r.suffix /\ n.sups = sups
  <2>1. statics \cup r.suffix \in SUBSET (StaticPool \cup Matchable) /\ sups \in SUBSET SupPool
    BY <1>4 DEF StateTyped
  <2>2. r.struct \in Int
    BY <1>4
  <2> QED
    BY <1>5, <2>1, <2>2 DEF Family
<1> HIDE DEF n
<1>7. /\ d \in Caches /\ d.fam = n
      /\ d.struct = r.struct /\ d.static = r.static /\ d.stale = r.stale
      /\ d.jfam = r.jfam /\ d.solved = r.solved /\ d.facts = r.facts
      /\ d.suffix = r.suffix /\ d.index = r.index
      /\ d.vseq = r.vseq /\ d.vmark = r.vmark /\ d.vmat = r.vmat
  BY <1>3, <1>6 DEF Caches
<1> HIDE DEF d
<1>8. IndexGood(d) /\ ViewsGood(d) /\ LayerGood(d) /\ JfamGood(d)
  BY <1>1, <1>7 DEF Good, IndexGood, ViewsGood, LayerGood, JfamGood, Mat, Rows
<1>9. FamGood(d)
  BY <1>4, <1>6, <1>7 DEF FamGood
<1>10. Unused(d)
  BY DEF Unused, Serving
<1>11. Good(d)
  BY <1>7, <1>8, <1>9, <1>10 DEF Good
<1>12. CASE r.fam # None /\ r.fam.ver = r.struct
  BY <1>1, <1>2, <1>12 DEF Good, FamGood
<1>13. CASE ~ (r.fam # None /\ r.fam.ver = r.struct)
  BY <1>1, <1>2, <1>6, <1>7, <1>11, <1>13
<1> QED
  BY <1>12, <1>13

\* Declaring a fluent is a structural edit and nothing else.
LEMMA DeclaringGood ==
  ASSUME StateTyped, NEW c, Good(c), NEW f
  PROVE  Good(Declaring(c, f))
<1> DEFINE d == [c EXCEPT !.struct = @ + 1]
<1>0. c \in Caches
  BY DEF Good
<1>1. c.struct \in Nat /\ c.jfam.ver \in Int /\ c.fam.ver \in Int
  BY <1>0 DEF Caches, Family
<1>2. /\ d \in Caches /\ d.struct = c.struct + 1
      /\ d.static = c.static /\ d.stale = c.stale /\ d.facts = c.facts /\ d.solved = c.solved
      /\ d.jfam = c.jfam /\ d.fam = c.fam /\ d.suffix = c.suffix /\ d.index = c.index
      /\ d.vseq = c.vseq /\ d.vmark = c.vmark /\ d.vmat = c.vmat
  BY <1>0, <1>1 DEF Caches
<1>3. Declaring(c, f) = IF f \in declared THEN c ELSE d
  BY DEF Declaring
<1> HIDE DEF d
<1>4. IndexGood(d) /\ ViewsGood(d) /\ LayerGood(d) /\ Unused(d)
  BY <1>2 DEF Good, IndexGood, ViewsGood, LayerGood, Unused, Mat, Rows
<1>5. JfamGood(d) /\ FamGood(d)
  BY <1>1, <1>2 DEF Good, JfamGood, FamGood
<1> QED
  BY <1>2, <1>3, <1>4, <1>5 DEF Good

\* A why-trace turns a row of this generation into a rule.
LEMMA MaterializeGood ==
  ASSUME StateTyped, Serving, NEW c, Good(c), NEW m, ~ (hooks /\ c.stale)
  PROVE  Good(Materialize(c, m))
<1> DEFINE d == [c EXCEPT !.suffix = @ \cup {m}, !.struct = @ + 1, !.vmat[m] = c.vseq]
           present == m \in Islands /\ c.vmark[m] = c.vseq /\ c.vmark[m] >= 0 /\ c.vmat[m] # c.vseq
<1>0. c \in Caches
  BY DEF Good
<1>1. SUFFICES ASSUME present PROVE Good(d)
  <2>1. present => Good(EnsureJfam(d))
    BY <1>1, EnsureJfamGood
  <2> QED
    BY <2>1 DEF Materialize
<1>2. m \in Islands /\ c.vmark[m] = c.vseq /\ c.vmark[m] >= 0
  BY <1>1
<1>3. hooks
  BY <1>2 DEF Good, LayerGood
<1>4. /\ c.struct \in Nat /\ c.vseq \in Nat /\ c.jfam.ver \in Int /\ c.fam.ver \in Int
      /\ c.suffix \subseteq Matchable /\ c.vmat \in [Islands -> Int]
  BY <1>0 DEF Caches, Family, Marks
<1>5. [c.vmat EXCEPT ![m] = c.vseq] \in Marks
  <2>1. c.vseq \in Nat \cup {-1} /\ c.vmat \in Marks
    BY <1>0, <1>4 DEF Caches
  <2> QED
    BY <2>1 DEF Marks
<1>6. d = [c EXCEPT !.suffix = c.suffix \cup {m}, !.struct = c.struct + 1,
                    !.vmat = [c.vmat EXCEPT ![m] = c.vseq]]
  BY <1>0 DEF Caches
<1>7. c.suffix \cup {m} \in SUBSET Matchable /\ c.struct + 1 \in Nat
  BY <1>2, <1>4, CacheAssumption
<1> HIDE DEF d
<1>8. /\ d \in Caches /\ d.struct = c.struct + 1 /\ d.suffix = c.suffix \cup {m}
      /\ d.vmat = [c.vmat EXCEPT ![m] = c.vseq]
      /\ d.static = c.static /\ d.stale = c.stale /\ d.facts = c.facts /\ d.solved = c.solved
      /\ d.jfam = c.jfam /\ d.fam = c.fam /\ d.index = c.index
      /\ d.vseq = c.vseq /\ d.vmark = c.vmark
  BY <1>0, <1>5, <1>6, <1>7 DEF Caches
<1>9. Mat(d) = Mat(c) \cup {m} /\ Rows(d) = Rows(c)
  BY <1>2, <1>4, <1>8 DEF Mat, Rows
<1>10. ViewsGood(d)
  <2>1. \A k \in Islands : d.vmark[k] <= d.vseq /\ d.vmat[k] <= d.vseq
    BY <1>4, <1>8 DEF Good, ViewsGood
  <2>2. m \in Rows(c)
    BY <1>2 DEF Rows
  <2> QED
    BY <1>2, <1>8, <1>9, <2>1, <2>2 DEF Good, ViewsGood
<1>11. LayerGood(d)
  BY <1>2, <1>3, <1>8, <1>9 DEF Good, LayerGood
<1>12. IndexGood(d) /\ Unused(d)
  BY <1>3, <1>8 DEF Good, IndexGood, Unused
<1>13. JfamGood(d) /\ FamGood(d)
  BY <1>4, <1>8 DEF Good, JfamGood, FamGood
<1> QED
  BY <1>8, <1>10, <1>11, <1>12, <1>13 DEF Good

-----------------------------------------------------------------------------
(* The invariant holds initially and every action keeps it.                *)

\* An empty world has right caches.
LEMMA InitGood == Init => CInv
<1> SUFFICES ASSUME Init PROVE CInv
  OBVIOUS
<1>1. StateTyped
  BY DEF Init, StateTyped
<1>2. /\ cache.struct = 0 /\ cache.static = 0 /\ cache.stale = FALSE
      /\ cache.jfam = None /\ cache.solved = FALSE /\ cache.facts = <<vals, gval>>
      /\ cache.fam = None /\ cache.suffix = {} /\ cache.index = NoIndex
      /\ cache.vseq = 0 /\ cache.vmark = [m \in Islands |-> -1]
      /\ cache.vmat = [m \in Islands |-> -1]
      /\ hooks = FALSE
  BY DEF Init
<1>3. None \in Family /\ None.ver = -1 /\ None.static = -1
  BY DEF None, Family
<1>4. <<vals, gval>> \in Snapshots
  BY <1>1 DEF StateTyped, Snapshots
<1>5. NoIndex \in Counts /\ [m \in Islands |-> -1] \in Marks
  BY DEF NoIndex, Counts, Marks
<1>6. cache \in Caches
  <2>1. cache = [struct |-> 0, static |-> 0, stale |-> FALSE,
                 jfam |-> None, solved |-> FALSE, facts |-> <<vals, gval>>, fam |-> None,
                 suffix |-> {}, index |-> NoIndex,
                 vseq |-> 0, vmark |-> [m \in Islands |-> -1], vmat |-> [m \in Islands |-> -1]]
    BY DEF Init
  <2> QED
    BY <2>1, <1>3, <1>4, <1>5 DEF Caches
<1>7. Mat(cache) = {}
  BY <1>2 DEF Mat
<1>8. IndexGood(cache) /\ ViewsGood(cache) /\ LayerGood(cache)
  BY <1>2, <1>7 DEF IndexGood, ViewsGood, LayerGood
<1>9. JfamGood(cache) /\ FamGood(cache) /\ Unused(cache)
  BY <1>2, <1>3 DEF JfamGood, FamGood, Unused
<1> QED
  BY <1>1, <1>6, <1>8, <1>9 DEF CInv, Good

\* A cache that is right of a state is right of any other with the same facts
\* and program.
LEMMA GoodCarries ==
  ASSUME StateTyped, NEW d, Good(d), cache' = d, UNCHANGED <<vals, gval, program>>
  PROVE  CInv'
<1>1. /\ vals' = vals /\ gval' = gval /\ statics' = statics /\ sups' = sups
      /\ inMatched' = inMatched /\ hooks' = hooks
  BY DEF program
<1>2. StateTyped'
  BY <1>1 DEF StateTyped
<1>3. cache' \in Caches
  BY DEF Good
<1>4. FreshRules' = FreshRules /\ FreshRows' = FreshRows /\ Prefix' = Prefix
      /\ IndexOf(vals)' = IndexOf(vals)
  BY <1>1 DEF FreshRules, FreshRows, TrueFluents, MatchesIn, Prefix, IndexOf
<1>5. Mat(cache)' = Mat(d) /\ Rows(cache)' = Rows(d)
  BY DEF Mat, Rows
<1>6. IndexGood(cache)' /\ ViewsGood(cache)' /\ LayerGood(cache)'
  BY <1>1, <1>4, <1>5 DEF Good, IndexGood, ViewsGood, LayerGood
<1>7. JfamGood(cache)' /\ FamGood(cache)' /\ Unused(cache)'
  BY <1>1, <1>4 DEF Good, JfamGood, FamGood, Unused
<1> QED
  BY <1>2, <1>3, <1>6, <1>7 DEF CInv, Good

\* A rule added to a plain world makes both families old.
LEMMA AddRuleGood ==
  ASSUME CInv, NEW r \in StaticPool, AddRule(r)
  PROVE  CInv'
<1> DEFINE n == cache.struct + 1
           k == cache.static + 1
           d == [cache EXCEPT !.struct = n, !.static = k]
<1>0. cache \in Caches /\ StateTyped
  BY DEF CInv, Good
<1>1. /\ cache.struct \in Nat /\ cache.static \in Nat
      /\ cache.jfam.ver \in Int /\ cache.jfam.static \in Int /\ cache.fam.ver \in Int
  BY <1>0 DEF Caches, Family
<1>2. cache' = d /\ vals' = vals /\ gval' = gval /\ sups' = sups /\ hooks' = hooks
      /\ inMatched' = inMatched /\ ~ inMatched /\ statics' = statics \cup {r}
  BY <1>0 DEF AddRule, Caches
<1>3. /\ d \in Caches /\ d.struct = cache.struct + 1 /\ d.static = cache.static + 1
      /\ d.stale = cache.stale /\ d.facts = cache.facts /\ d.solved = cache.solved
      /\ d.jfam = cache.jfam /\ d.fam = cache.fam /\ d.suffix = cache.suffix
      /\ d.index = cache.index
      /\ d.vseq = cache.vseq /\ d.vmark = cache.vmark /\ d.vmat = cache.vmat
  <2>1. n \in Nat /\ k \in Nat
    BY <1>1
  <2>2. n = cache.struct + 1 /\ k = cache.static + 1
    OBVIOUS
  <2>4. d = [cache EXCEPT !.struct = n, !.static = k]
    OBVIOUS
  <2> HIDE DEF n, k, d
  <2>3. d \in Caches /\ d.struct = n /\ d.static = k
        /\ d.stale = cache.stale /\ d.facts = cache.facts /\ d.solved = cache.solved
        /\ d.jfam = cache.jfam /\ d.fam = cache.fam /\ d.suffix = cache.suffix
        /\ d.index = cache.index
        /\ d.vseq = cache.vseq /\ d.vmark = cache.vmark /\ d.vmat = cache.vmat
    BY <1>0, <2>1, <2>4 DEF Caches
  <2> QED
    BY <2>2, <2>3
<1> HIDE DEF d
<1>4. StateTyped'
  BY <1>0, <1>2 DEF StateTyped
<1>5. Mat(cache)' = Mat(cache) /\ Rows(cache)' = Rows(cache) /\ FreshRules' = FreshRules
      /\ FreshRows' = FreshRows /\ IndexOf(vals)' = IndexOf(vals)
  BY <1>2, <1>3 DEF Mat, Rows, FreshRules, FreshRows, TrueFluents, MatchesIn, IndexOf
<1>6. IndexGood(cache)' /\ ViewsGood(cache)' /\ LayerGood(cache)' /\ Unused(cache)'
  BY <1>2, <1>3, <1>5 DEF CInv, Good, IndexGood, ViewsGood, LayerGood, Unused
<1>7. JfamGood(cache)' /\ FamGood(cache)'
  BY <1>1, <1>2, <1>3 DEF CInv, Good, JfamGood, FamGood
<1> QED
  BY <1>2, <1>3, <1>4, <1>6, <1>7 DEF CInv, Good

\* So does a superiority; under a matcher there is no family yet.
LEMMA AddSupGood ==
  ASSUME CInv, NEW s \in SupPool, AddSup(s)
  PROVE  CInv'
<1> DEFINE k == IF inMatched THEN cache.static ELSE cache.static + 1
           n == cache.struct + 1
           d == [cache EXCEPT !.struct = n, !.static = k]
<1>0. cache \in Caches /\ StateTyped
  BY DEF CInv, Good
<1>1. /\ cache.struct \in Nat /\ cache.static \in Nat
      /\ cache.jfam.ver \in Int /\ cache.jfam.static \in Int /\ cache.fam.ver \in Int
  BY <1>0 DEF Caches, Family
<1>2. cache' = d /\ vals' = vals /\ gval' = gval /\ sups' = sups \cup {s} /\ hooks' = hooks
      /\ inMatched' = inMatched /\ ~ hooks /\ statics' = statics
  BY <1>0 DEF AddSup, Caches
<1>3. /\ d \in Caches /\ d.struct = cache.struct + 1
      /\ d.static = IF inMatched THEN cache.static ELSE cache.static + 1
      /\ d.stale = cache.stale /\ d.facts = cache.facts /\ d.solved = cache.solved
      /\ d.jfam = cache.jfam /\ d.fam = cache.fam /\ d.suffix = cache.suffix
      /\ d.index = cache.index
      /\ d.vseq = cache.vseq /\ d.vmark = cache.vmark /\ d.vmat = cache.vmat
  <2>1. n \in Nat /\ k \in Nat
    BY <1>1
  <2>2. n = cache.struct + 1 /\ k = IF inMatched THEN cache.static ELSE cache.static + 1
    OBVIOUS
  <2>4. d = [cache EXCEPT !.struct = n, !.static = k]
    OBVIOUS
  <2> HIDE DEF n, k, d
  <2>3. d \in Caches /\ d.struct = n /\ d.static = k
        /\ d.stale = cache.stale /\ d.facts = cache.facts /\ d.solved = cache.solved
        /\ d.jfam = cache.jfam /\ d.fam = cache.fam /\ d.suffix = cache.suffix
        /\ d.index = cache.index
        /\ d.vseq = cache.vseq /\ d.vmark = cache.vmark /\ d.vmat = cache.vmat
    BY <1>0, <2>1, <2>4 DEF Caches
  <2> QED
    BY <2>2, <2>3
<1> HIDE DEF d
<1>4. StateTyped'
  BY <1>0, <1>2 DEF StateTyped
<1>5. Mat(cache)' = Mat(cache) /\ Rows(cache)' = Rows(cache) /\ FreshRules' = FreshRules
      /\ FreshRows' = FreshRows /\ IndexOf(vals)' = IndexOf(vals)
  BY <1>2, <1>3 DEF Mat, Rows, FreshRules, FreshRows, TrueFluents, MatchesIn, IndexOf
<1>6. IndexGood(cache)' /\ ViewsGood(cache)' /\ LayerGood(cache)' /\ Unused(cache)'
  BY <1>2, <1>3, <1>5 DEF CInv, Good, IndexGood, ViewsGood, LayerGood, Unused
<1>7. FamGood(cache)'
  BY <1>1, <1>2, <1>3 DEF CInv, Good, FamGood
<1>8. JfamGood(cache)'
  <2>1. inMatched => cache.jfam = None
    BY <1>2 DEF CInv, Good, Unused
  <2>2. cache.jfam.ver <= cache.struct /\ cache.jfam.static <= cache.static
        /\ (cache.solved => cache.facts = <<vals, gval>>)
    BY DEF CInv, Good, JfamGood
  <2> QED
    BY <2>1, <2>2, <1>1, <1>2, <1>3 DEF JfamGood
<1> QED
  BY <1>2, <1>3, <1>4, <1>6, <1>7, <1>8 DEF CInv, Good

\* The checkpoint moves the watermark while there is no family.
LEMMA CheckpointGood ==
  ASSUME CInv, MatchedCheckpoint
  PROVE  CInv'
<1>1. /\ UNCHANGED <<vals, gval, statics, sups, hooks, cache>> /\ inMatched' = TRUE
      /\ cache.jfam = None /\ cache.fam = None
  BY DEF MatchedCheckpoint
<1>2. StateTyped'
  BY <1>1 DEF CInv, StateTyped
<1>3. FreshRules' = FreshRules /\ FreshRows' = FreshRows /\ IndexOf(vals)' = IndexOf(vals)
      /\ Mat(cache)' = Mat(cache) /\ Rows(cache)' = Rows(cache)
  BY <1>1 DEF FreshRules, FreshRows, TrueFluents, MatchesIn, IndexOf, Mat, Rows
<1>4. IndexGood(cache)' /\ ViewsGood(cache)' /\ LayerGood(cache)'
  BY <1>1, <1>3 DEF CInv, Good, IndexGood, ViewsGood, LayerGood
<1>5. JfamGood(cache)' /\ FamGood(cache)' /\ Unused(cache)'
  BY <1>1 DEF CInv, Good, JfamGood, FamGood, Unused
<1> QED
  BY <1>1, <1>2, <1>4, <1>5 DEF CInv, Good

\* The layer is right when the callbacks arrive because it is marked stale.
LEMMA SetRegroundFnGood ==
  ASSUME CInv, SetRegroundFn
  PROVE  CInv'
<1> DEFINE d == [cache EXCEPT !.stale = TRUE]
<1>0. cache \in Caches
  BY DEF CInv, Good
<1>1. /\ vals' = vals /\ gval' = gval /\ statics' = statics /\ sups' = sups
      /\ inMatched' = inMatched /\ inMatched /\ hooks' = TRUE /\ ~ hooks /\ cache' = d
  BY DEF SetRegroundFn
<1>2. StateTyped'
  BY <1>1 DEF CInv, StateTyped
<1>3. /\ d \in Caches /\ d.struct = cache.struct /\ d.static = cache.static
      /\ d.stale = TRUE /\ d.facts = cache.facts /\ d.solved = cache.solved
      /\ d.jfam = cache.jfam /\ d.fam = cache.fam /\ d.suffix = cache.suffix
      /\ d.index = cache.index
      /\ d.vseq = cache.vseq /\ d.vmark = cache.vmark /\ d.vmat = cache.vmat
  BY <1>0 DEF Caches
<1> HIDE DEF d
<1>4. Mat(cache)' = Mat(cache) /\ Rows(cache)' = Rows(cache) /\ IndexOf(vals)' = IndexOf(vals)
      /\ Prefix' = Prefix
  BY <1>1, <1>3 DEF Mat, Rows, IndexOf, Prefix
<1>5. IndexGood(cache)' /\ ViewsGood(cache)' /\ LayerGood(cache)' /\ Unused(cache)'
  BY <1>1, <1>3, <1>4 DEF CInv, Good, IndexGood, ViewsGood, LayerGood, Unused
<1>6. JfamGood(cache)' /\ FamGood(cache)'
  BY <1>1, <1>3, <1>4 DEF CInv, Good, JfamGood, FamGood
<1> QED
  BY <1>1, <1>2, <1>3, <1>5, <1>6 DEF CInv, Good
\* One fluent moved: the index moves with it, and a layer no matchable rule of
\* which reads the fluent is the same before and after.
LEMMA MatchesUnmoved ==
  ASSUME StateTyped, NEW f \in Fluents \ Watched, NEW v \in BOOLEAN,
         vals' = [vals EXCEPT ![f] = v]
  PROVE  MatchesIn(TrueFluents') = MatchesIn(TrueFluents)
<1>1. \A g \in Fluents \ {f} : vals'[g] = vals[g]
  BY DEF StateTyped
<1>2. \A g \in Fluents \ {f} : g \in TrueFluents' <=> g \in TrueFluents
  BY <1>1 DEF TrueFluents
<1>3. \A m \in Matchable : f \notin PosOf[m] /\ f \notin NegOf[m]
  BY DEF Watched
<1>4. \A m \in Matchable : PosOf[m] \subseteq Fluents /\ NegOf[m] \subseteq Fluents
  BY CacheAssumption
<1>5. \A m \in Matchable : PosOf[m] \subseteq TrueFluents' <=> PosOf[m] \subseteq TrueFluents
  BY <1>2, <1>3, <1>4
<1>6. \A m \in Matchable : NegOf[m] \cap TrueFluents' = {} <=> NegOf[m] \cap TrueFluents = {}
  BY <1>2, <1>3, <1>4
<1> QED
  BY <1>5, <1>6 DEF MatchesIn

\* What setting f to v makes of the index.
IndexSet(ix, f, v) == IF vals[f] # v THEN FidxUpdate(ix, f, v) ELSE ix

\* The index of the state before becomes the index of the state after.
LEMMA IndexMoves ==
  ASSUME StateTyped, NEW ix, ix = NoIndex \/ ix = IndexOf(vals),
         NEW f \in Fluents, NEW v \in BOOLEAN, vals' = [vals EXCEPT ![f] = v]
  PROVE  /\ IndexSet(ix, f, v) = NoIndex \/ IndexSet(ix, f, v) = IndexOf(vals)'
         /\ IndexSet(ix, f, v) \in Counts
<1> DEFINE now == IndexSet(ix, f, v)
<1>0. now = IF vals[f] # v THEN FidxUpdate(ix, f, v) ELSE ix
  BY DEF IndexSet
<1> SUFFICES (now = NoIndex \/ now = IndexOf(vals)') /\ now \in Counts
  OBVIOUS
<1> HIDE DEF now
<1>1. CASE ix = NoIndex
  <2>1. now = NoIndex
    BY <1>0, <1>1 DEF FidxUpdate
  <2> QED
    BY <2>1 DEF NoIndex, Counts
<1>2. CASE ix # NoIndex
  <2>1. ix = IndexOf(vals)
    BY <1>2
  <2>2. ix = [g \in Fluents |-> IF vals[g] THEN 1 ELSE 0]
    BY <2>1 DEF IndexOf
  <2>3. \A g \in Fluents : vals[g] \in BOOLEAN /\ vals'[g] = IF g = f THEN v ELSE vals[g]
    BY DEF StateTyped
  <2>4. now = [g \in Fluents |-> IF vals'[g] THEN 1 ELSE 0]
    <3>1. CASE vals[f] = v
      <4>1. \A g \in Fluents : vals'[g] = vals[g]
        BY <3>1, <2>3
      <4> QED
        BY <1>0, <3>1, <4>1, <2>2
    <3>2. CASE vals[f] # v
      <4> DEFINE moved == IF v THEN ix[f] + 1 ELSE IF ix[f] > 0 THEN ix[f] - 1 ELSE ix[f]
      <4>1. now = [ix EXCEPT ![f] = moved]
        BY <1>0, <3>2, <1>2 DEF FidxUpdate
      <4>2. CASE v
        <5>1. vals[f] = FALSE /\ ix[f] = 0
          BY <4>2, <3>2, <2>2, <2>3
        <5>3. moved = 1
          BY <4>2, <5>1
        <5> HIDE DEF moved
        <5>2. now = [ix EXCEPT ![f] = 1]
          BY <4>1, <5>3
        <5> QED
          BY <5>2, <4>2, <2>2, <2>3
      <4>3. CASE ~ v
        <5>1. vals[f] = TRUE /\ ix[f] = 1
          BY <4>3, <3>2, <2>2, <2>3
        <5>3. moved = 0
          BY <4>3, <5>1
        <5> HIDE DEF moved
        <5>2. now = [ix EXCEPT ![f] = 0]
          BY <4>1, <5>3
        <5> QED
          BY <5>2, <4>3, <2>2, <2>3
      <4> QED
        BY <4>2, <4>3
    <3> QED
      BY <3>1, <3>2
  <2> QED
    BY <2>4 DEF IndexOf, Counts
<1> QED
  BY <1>1, <1>2

\* Setting a fluent leaves a layer that is not marked stale right.
LEMMA SetFluentGood ==
  ASSUME CInv, NEW f \in Fluents, NEW v \in BOOLEAN, SetFluent(f, v)
  PROVE  CInv'
<1> DEFINE e == Declaring(cache, f)
           now == IndexSet(e.index, f, v)
           late == e.stale \/ ~ inMatched \/ f \in Watched
           d == [e EXCEPT !.index = now, !.solved = FALSE, !.stale = late]
<1>0. StateTyped /\ Good(cache)
  BY DEF CInv
<1>1. Good(e)
  BY <1>0, DeclaringGood
<1>2. e \in Caches
  BY <1>1 DEF Good
<1>3. /\ vals' = [vals EXCEPT ![f] = v] /\ gval' = gval /\ statics' = statics /\ sups' = sups
      /\ inMatched' = inMatched /\ hooks' = hooks
      /\ cache' = InvalidateOf([e EXCEPT !.index = IF vals[f] # v THEN FidxUpdate(@, f, v) ELSE @], f)
  BY DEF SetFluent, program
<1>4. cache' = d
  BY <1>3, <1>2 DEF InvalidateOf, IndexSet, Caches
<1>5. (now = NoIndex \/ now = IndexOf(vals)') /\ now \in Counts
  <2>1. e.index = NoIndex \/ e.index = IndexOf(vals)
    BY <1>1 DEF Good, IndexGood
  <2> HIDE DEF e
  <2> QED
    BY <2>1, <1>0, <1>3, IndexMoves
<1>6. late \in BOOLEAN /\ (~ late => ~ e.stale /\ inMatched /\ f \notin Watched)
  BY <1>2 DEF Caches
<1> HIDE DEF e, now, late
<1>7. /\ d \in Caches /\ d.index = now /\ d.solved = FALSE /\ d.stale = late
      /\ d.struct = e.struct /\ d.static = e.static /\ d.facts = e.facts
      /\ d.jfam = e.jfam /\ d.fam = e.fam /\ d.suffix = e.suffix
      /\ d.vseq = e.vseq /\ d.vmark = e.vmark /\ d.vmat = e.vmat
  BY <1>2, <1>5, <1>6 DEF Caches
<1> HIDE DEF d
<1>8. StateTyped'
  BY <1>0, <1>3 DEF StateTyped
<1>9. Mat(cache)' = Mat(e) /\ Rows(cache)' = Rows(e)
  BY <1>4, <1>7 DEF Mat, Rows
<1>10. ~ late => FreshRules' = FreshRules /\ FreshRows' = FreshRows
  BY <1>0, <1>3, <1>6, MatchesUnmoved DEF FreshRules, FreshRows
<1>11. IndexGood(cache)' /\ ViewsGood(cache)'
  BY <1>1, <1>3, <1>4, <1>5, <1>7, <1>9 DEF Good, IndexGood, ViewsGood
<1>12. LayerGood(cache)' /\ Unused(cache)'
  BY <1>1, <1>3, <1>4, <1>6, <1>7, <1>9, <1>10 DEF Good, LayerGood, Unused
<1>13. JfamGood(cache)' /\ FamGood(cache)'
  BY <1>1, <1>3, <1>4, <1>7 DEF Good, JfamGood, FamGood, Prefix
<1> QED
  BY <1>4, <1>7, <1>8, <1>11, <1>12, <1>13 DEF CInv, Good

\* A cache marked stale and unsolved owes the state nothing but its index.
LEMMA InvalidateGood ==
  ASSUME StateTyped, NEW c, Good(c), StateTyped', NEW ix, ix \in Counts,
         ix = NoIndex \/ ix = IndexOf(vals)',
         UNCHANGED program, cache' = Invalidate([c EXCEPT !.index = ix])
  PROVE  CInv'
<1> DEFINE d == [c EXCEPT !.index = ix, !.solved = FALSE, !.stale = TRUE]
<1>1. c \in Caches
  BY DEF Good
<1>2. cache' = d
  BY <1>1 DEF Invalidate, Caches
<1>3. /\ d \in Caches /\ d.index = ix /\ d.solved = FALSE /\ d.stale = TRUE
      /\ d.struct = c.struct /\ d.static = c.static /\ d.facts = c.facts
      /\ d.jfam = c.jfam /\ d.fam = c.fam /\ d.suffix = c.suffix
      /\ d.vseq = c.vseq /\ d.vmark = c.vmark /\ d.vmat = c.vmat
  BY <1>1 DEF Caches
<1> HIDE DEF d
<1>4. statics' = statics /\ sups' = sups /\ inMatched' = inMatched /\ hooks' = hooks
  BY DEF program
<1>5. Mat(cache)' = Mat(c) /\ Rows(cache)' = Rows(c)
  BY <1>2, <1>3 DEF Mat, Rows
<1>6. IndexGood(cache)' /\ ViewsGood(cache)' /\ LayerGood(cache)' /\ Unused(cache)'
  BY <1>2, <1>3, <1>4, <1>5 DEF Good, IndexGood, ViewsGood, LayerGood, Unused
<1>7. JfamGood(cache)' /\ FamGood(cache)'
  BY <1>2, <1>3, <1>4 DEF Good, JfamGood, FamGood, Prefix
<1> QED
  BY <1>2, <1>3, <1>6, <1>7 DEF CInv, Good

\* A number may move a guard: the layer is always marked stale.
LEMMA SetNumGood ==
  ASSUME CInv, NEW g \in BOOLEAN, SetNum(g)
  PROVE  CInv'
<1>1. cache \in Caches /\ Good(cache) /\ StateTyped
  BY DEF CInv, Good
<1>2. gval' = g /\ vals' = vals /\ UNCHANGED program /\ cache' = Invalidate(cache)
  BY DEF SetNum
<1>3. StateTyped'
  BY <1>1, <1>2 DEF StateTyped, program
<1>4. cache.index \in Counts /\ (cache.index = NoIndex \/ cache.index = IndexOf(vals)')
  BY <1>1, <1>2 DEF Good, IndexGood, Caches, IndexOf
<1>5. cache' = Invalidate([cache EXCEPT !.index = cache.index])
  BY <1>1, <1>2 DEF Caches
<1> QED
  BY <1>1, <1>2, <1>3, <1>4, <1>5, InvalidateGood

\* reindex_commit moves exactly the fluents that moved.
LEMMA ReindexedGood ==
  ASSUME StateTyped, NEW ix, ix = NoIndex \/ ix = IndexOf(vals),
         NEW next \in [Fluents -> BOOLEAN], vals' = next
  PROVE  /\ Reindexed(ix, next) = NoIndex \/ Reindexed(ix, next) = IndexOf(vals)'
         /\ Reindexed(ix, next) \in Counts
<1>1. CASE ix = NoIndex
  BY <1>1 DEF Reindexed, NoIndex, Counts
<1>2. CASE ix # NoIndex
  <2>1. ix = [g \in Fluents |-> IF vals[g] THEN 1 ELSE 0]
    BY <1>2 DEF IndexOf
  <2>2. ASSUME NEW g \in Fluents
        PROVE  (IF next[g] = vals[g] THEN ix[g] ELSE FidxUpdate(ix, g, next[g])[g])
                 = IF next[g] THEN 1 ELSE 0
    <3>1. vals[g] \in BOOLEAN /\ next[g] \in BOOLEAN /\ ix[g] = IF vals[g] THEN 1 ELSE 0
      BY <2>1 DEF StateTyped
    <3>2. FidxUpdate(ix, g, next[g])[g]
            = IF next[g] THEN ix[g] + 1 ELSE IF ix[g] > 0 THEN ix[g] - 1 ELSE ix[g]
      BY <1>2, <2>1 DEF FidxUpdate
    <3>3. CASE next[g] = vals[g]
      BY <3>1, <3>3
    <3>4. CASE next[g] /\ ~ vals[g]
      <4>1. next[g] # vals[g]
        BY <3>4
      <4>2. ix[g] = 0 /\ FidxUpdate(ix, g, next[g])[g] = 1
        BY <3>1, <3>2, <3>4
      <4> QED
        BY <3>4, <4>1, <4>2
    <3>5. CASE ~ next[g] /\ vals[g]
      <4>1. next[g] # vals[g]
        BY <3>5
      <4>2. ix[g] = 1 /\ FidxUpdate(ix, g, next[g])[g] = 0
        BY <3>1, <3>2, <3>5
      <4> QED
        BY <3>5, <4>1, <4>2
    <3> QED
      BY <3>1, <3>3, <3>4, <3>5
  <2>3. Reindexed(ix, next)
          = [g \in Fluents |-> IF next[g] = vals[g] THEN ix[g] ELSE FidxUpdate(ix, g, next[g])[g]]
    BY <1>2 DEF Reindexed
  <2>4. Reindexed(ix, next) = [g \in Fluents |-> IF next[g] THEN 1 ELSE 0]
    BY <2>2, <2>3
  <2> QED
    BY <2>4 DEF IndexOf, Counts
<1> QED
  BY <1>1, <1>2

\* A commit moves the index and marks the rest stale.
LEMMA CommitStepGood ==
  ASSUME CInv, NEW next \in [Fluents -> BOOLEAN], NEW g \in BOOLEAN, CommitStep(next, g)
  PROVE  CInv'
<1> DEFINE c == EnsureFam(cache)
<1>1. Good(cache) /\ StateTyped /\ Serving
  BY DEF CInv, CommitStep
<1>2. Good(c)
  BY <1>1, EnsureFamGood
<1>3. /\ vals' = next /\ gval' = g /\ UNCHANGED program
      /\ cache' = Invalidate([c EXCEPT !.index = Reindexed(@, next)])
  BY DEF CommitStep
<1> HIDE DEF c
<1>4. c \in Caches /\ (c.index = NoIndex \/ c.index = IndexOf(vals))
  BY <1>2 DEF Good, IndexGood
<1>5. cache' = Invalidate([c EXCEPT !.index = Reindexed(c.index, next)])
  BY <1>3, <1>4 DEF Caches
<1>6. StateTyped'
  BY <1>1, <1>3 DEF StateTyped, program
<1>7. /\ Reindexed(c.index, next) = NoIndex \/ Reindexed(c.index, next) = IndexOf(vals)'
      /\ Reindexed(c.index, next) \in Counts
  BY <1>1, <1>3, <1>4, ReindexedGood
<1> QED
  BY <1>1, <1>2, <1>3, <1>5, <1>6, <1>7, InvalidateGood

\* A rejected step only refreshes.
LEMMA RejectStepGood ==
  ASSUME CInv, RejectStep
  PROVE  CInv'
<1>1. Good(cache) /\ StateTyped /\ Serving
  BY DEF CInv, RejectStep
<1>2. Good(EnsureFam(cache))
  BY <1>1, EnsureFamGood
<1>3. cache' = EnsureFam(cache) /\ UNCHANGED <<vals, gval, program>>
  BY DEF RejectStep
<1> QED
  BY <1>1, <1>2, <1>3, GoodCarries

\* A query refreshes, and solves what the rows do not answer.
LEMMA QueryGood ==
  ASSUME CInv, NEW x, Query(x)
  PROVE  CInv'
<1> DEFINE c == EnsureJfam(cache)
           d == IF Seen(c, x) THEN c ELSE SolveJudgments(c)
<1>1. Good(cache) /\ StateTyped /\ Serving
  BY DEF CInv, Query
<1>2. Good(c)
  BY <1>1, EnsureJfamGood
<1>3. cache' = d /\ UNCHANGED <<vals, gval, program>>
  BY DEF Query
<1> HIDE DEF c
<1>4. Good(SolveJudgments(c))
  BY <1>1, <1>2, SolveGood
<1>5. Good(d)
  BY <1>2, <1>4
<1> HIDE DEF d
<1> QED
  BY <1>1, <1>3, <1>5, GoodCarries

\* A why-trace declares, refreshes, adds the rule of its row and solves.
LEMMA WhyGood ==
  ASSUME CInv, NEW x, NEW located \in BOOLEAN, Why(x, located)
  PROVE  CInv'
<1> DEFINE first == IF x \in Fluents /\ hooks THEN Declaring(cache, x) ELSE cache
           c == EnsureJfam(first)
           shown == Materialize(c, x)
           base == IF located THEN shown ELSE [shown EXCEPT !.solved = FALSE]
           d == SolveJudgments(base)
<1>1. Good(cache) /\ StateTyped /\ Serving
  BY DEF CInv, Why
<1>2. Good(Declaring(cache, x))
  BY <1>1, DeclaringGood
<1>3. Good(first)
  BY <1>1, <1>2
<1>4. cache' = d /\ UNCHANGED <<vals, gval, program>>
  BY DEF Why
<1> HIDE DEF first
<1>5. Good(c) /\ ~ (hooks /\ c.stale)
  BY <1>1, <1>3, EnsureJfamGood
<1> HIDE DEF c
<1>6. Good(shown)
  BY <1>1, <1>5, MaterializeGood
<1> HIDE DEF shown
<1>7. Good([shown EXCEPT !.solved = FALSE])
  BY <1>6, UnsolvedGood
<1>8. Good(base)
  BY <1>6, <1>7
<1> HIDE DEF base
<1>9. Good(d)
  BY <1>1, <1>8, SolveGood
<1> HIDE DEF d
<1> QED
  BY <1>1, <1>4, <1>9, GoodCarries

-----------------------------------------------------------------------------
(* The theorems.                                                           *)

\* Every action keeps the invariant.
LEMMA StepGood == CInv /\ [Next]_vars => CInv'
<1> SUFFICES ASSUME CInv, [Next]_vars PROVE CInv'
  OBVIOUS
<1>1. CASE \E r \in StaticPool : AddRule(r)
  BY <1>1, AddRuleGood
<1>2. CASE \E s \in SupPool : AddSup(s)
  BY <1>2, AddSupGood
<1>3. CASE MatchedCheckpoint
  BY <1>3, CheckpointGood
<1>4. CASE SetRegroundFn
  BY <1>4, SetRegroundFnGood
<1>5. CASE Host
  BY <1>5, SetFluentGood, SetNumGood DEF Host
<1>6. CASE \E x \in StaticPool \cup Islands : Query(x)
  BY <1>6, QueryGood
<1>7. CASE \E x \in Fluents \cup Islands, located \in BOOLEAN : Why(x, located)
  BY <1>7, WhyGood
<1>8. CASE RejectStep
  BY <1>8, RejectStepGood
<1>9. CASE \E next \in [Fluents -> BOOLEAN], g \in BOOLEAN : CommitStep(next, g)
  BY <1>9, CommitStepGood
<1>10. CASE UNCHANGED vars
  <2>1. Good(cache) /\ StateTyped
    BY DEF CInv
  <2>2. cache' = cache /\ UNCHANGED <<vals, gval, program>>
    BY <1>10 DEF vars, program
  <2> QED
    BY <2>1, <2>2, GoodCarries
<1> QED
  BY <1>1, <1>2, <1>3, <1>4, <1>5, <1>6, <1>7, <1>8, <1>9, <1>10 DEF Next

\* The caches are right in every reachable state.
LEMMA CachesStayGood == Spec => []CInv
<1>1. Init => CInv
  BY InitGood
<1>2. CInv /\ [Next]_vars => CInv'
  BY StepGood
<1> QED
  BY <1>1, <1>2, PTL DEF Spec

\* The fact index, never rebuilt, is the set of the true fluents in every world.
THEOREM IndexIsRight == Spec => []IndexMirrorsTheState
<1>1. CInv => IndexMirrorsTheState
  BY DEF CInv, Good, IndexGood, IndexMirrorsTheState
<1> QED
  BY <1>1, CachesStayGood, PTL

\* An edit that does not mark the matched layer stale has not changed it,
\* whatever the rules read.
THEOREM MatchedLayerIsRight == Spec => []MatchedLayerFollowsTheState
<1>1. CInv => MatchedLayerFollowsTheState
  BY DEF CInv, Good, LayerGood, Rows, MatchedLayerFollowsTheState
<1> QED
  BY <1>1, CachesStayGood, PTL

\* The rules a why-trace added explain rows of the present generation.
THEOREM TraceRulesAreRight == Spec => []TraceRulesExplainCurrentRows
<1>1. CInv => TraceRulesExplainCurrentRows
  BY DEF CInv, Good, ViewsGood, Mat, Rows, Materialized, TraceRulesExplainCurrentRows
<1> QED
  BY <1>1, CachesStayGood, PTL

\* A judgment family answered from without a rebuild holds exactly the rules,
\* superiorities and facts of the present world.
THEOREM JudgmentsAreRight == Spec => []JudgmentsAreCurrent
<1>1. ASSUME CInv PROVE JudgmentsAreCurrent
  <2> SUFFICES ASSUME UpToDate, cache.jfam # None, cache.jfam.ver = cache.struct
               PROVE  /\ cache.jfam.rules
                           = statics \cup (IF hooks THEN FreshRules \cup Materialized ELSE {})
                      /\ cache.jfam.sups = sups
                      /\ cache.solved => cache.facts = <<vals, gval>>
    BY DEF JudgmentsAreCurrent
  <2>1. cache.jfam.rules = statics \cup cache.suffix /\ cache.jfam.sups = sups
        /\ (cache.solved => cache.facts = <<vals, gval>>)
    BY <1>1 DEF CInv, Good, JfamGood
  <2>2. CASE hooks
    <3>1. cache.suffix \ Islands = FreshRules
      BY <1>1, <2>2 DEF CInv, Good, LayerGood, UpToDate
    <3>2. cache.suffix \cap Islands = Materialized
      BY <1>1 DEF CInv, Good, ViewsGood, Mat, Materialized
    <3>3. cache.suffix = FreshRules \cup Materialized
      BY <3>1, <3>2
    <3> QED
      BY <2>1, <2>2, <3>3
  <2>3. CASE ~ hooks
    <3>1. cache.suffix = {}
      BY <1>1, <2>3 DEF CInv, Good, LayerGood
    <3> QED
      BY <2>1, <2>3, <3>1
  <2> QED
    BY <2>2, <2>3
<1> QED
  BY <1>1, CachesStayGood, PTL

\* Every step, decided either way, is solved over the rules of the state it
\* starts from.
THEOREM StepsAreRight == Spec => StepsUseTheCurrentRules
<1> DEFINE Stepped == RejectStep \/ (\E next \in [Fluents -> BOOLEAN], g \in BOOLEAN : CommitStep(next, g))
           Current == /\ cache'.fam.rules \ Islands = statics \cup (IF hooks THEN FreshRules ELSE {})
                      /\ cache'.fam.sups = sups
<1>1. ASSUME CInv, Stepped PROVE Current
  <2> DEFINE c == EnsureFam(cache)
  <2>1. Good(cache) /\ StateTyped
    BY <1>1 DEF CInv
  <2>2. Serving
    BY <1>1 DEF RejectStep, CommitStep
  <2>3. /\ Good(c) /\ ~ (hooks /\ c.stale)
        /\ c.fam.rules = statics \cup c.suffix /\ c.fam.sups = sups
    BY <2>1, <2>2, EnsureFamGood
  <2>4. c \in Caches
    BY <2>3 DEF Good
  <2>5. cache'.fam = c.fam
    <3>1. CASE RejectStep
      BY <3>1 DEF RejectStep
    <3>2. CASE \E next \in [Fluents -> BOOLEAN], g \in BOOLEAN : CommitStep(next, g)
      <4>1. PICK next, g : CommitStep(next, g)
        BY <3>2
      <4>2. cache' = Invalidate([c EXCEPT !.index = Reindexed(@, next)])
        BY <4>1 DEF CommitStep
      <4> HIDE DEF c
      <4> QED
        BY <2>4, <4>2 DEF Invalidate, Caches
    <3> QED
      BY <1>1, <3>1, <3>2
  <2> HIDE DEF c
  <2>6. statics \cap Islands = {}
    BY <2>1, CacheAssumption DEF StateTyped
  <2>7. c.suffix \ Islands = IF hooks THEN FreshRules ELSE {}
    BY <2>3 DEF Good, LayerGood
  <2>8. cache'.fam.rules \ Islands = (statics \ Islands) \cup (c.suffix \ Islands)
    BY <2>3, <2>5
  <2> QED
    BY <2>3, <2>5, <2>6, <2>7, <2>8
<1>2. CInv /\ [Next]_vars => [Stepped => Current]_vars
  BY <1>1
<1> HIDE DEF Stepped, Current
<1>3. Spec => [][Stepped => Current]_vars
  BY <1>2, CachesStayGood, PTL DEF Spec
<1> QED
  BY <1>3 DEF StepsUseTheCurrentRules, Stepped, Current

-----------------------------------------------------------------------------
(* Types.                                                                  *)

\* Every call counts itself and none is made beyond the bound.
LEMMA CallsCounted == Spec => [](calls \in 0 .. MaxCalls)
<1>1. Init => calls \in 0 .. MaxCalls
  BY CacheAssumption DEF Init
<1>2. calls \in 0 .. MaxCalls /\ [Next]_vars => (calls \in 0 .. MaxCalls)'
  <2> SUFFICES ASSUME calls \in 0 .. MaxCalls, [Next]_vars
               PROVE  calls' \in 0 .. MaxCalls
    OBVIOUS
  <2>1. CASE Next
    <3>1. Call
      BY <2>1, Zenon DEF Next, Host, AddRule, AddSup, MatchedCheckpoint, SetRegroundFn, SetFluent,
                  SetNum, Query, Why, RejectStep, CommitStep
    <3> QED
      BY <3>1, CacheAssumption DEF Call
  <2>2. CASE UNCHANGED vars
    BY <2>2 DEF vars
  <2> QED
    BY <2>1, <2>2
<1> QED
  BY <1>1, <1>2, PTL DEF Spec

\* Fluents are only ever declared from the schema.
LEMMA DeclaredKnown == Spec => [](declared \subseteq Fluents)
<1>1. Init => declared \subseteq Fluents
  BY CacheAssumption DEF Init
<1>2. declared \subseteq Fluents /\ [Next]_vars => (declared \subseteq Fluents)'
  <2> SUFFICES ASSUME declared \subseteq Fluents, [Next]_vars
               PROVE  declared' \subseteq Fluents
    OBVIOUS
  <2>1. declared' = declared \/ \E f \in Fluents : declared' = declared \cup {f}
    BY Zenon DEF Next, vars, program, Host, AddRule, AddSup, MatchedCheckpoint, SetRegroundFn, SetFluent,
            SetNum, Query, Why, RejectStep, CommitStep
  <2> QED
    BY <2>1
<1> QED
  BY <1>1, <1>2, PTL DEF Spec

\* The caches keep their types; the index is a multiset without repeated
\* members, and no island is marked with a generation that has not been.
THEOREM TypeCorrect == Spec => []TypeOK
<1>1. CInv /\ calls \in 0 .. MaxCalls /\ declared \subseteq Fluents => TypeOK
  <2> SUFFICES ASSUME CInv, calls \in 0 .. MaxCalls, declared \subseteq Fluents PROVE TypeOK
    OBVIOUS
  <2>1. cache \in Caches /\ StateTyped
    BY DEF CInv, Good
  <2>2. cache.index = NoIndex \/ cache.index \in [Fluents -> 0 .. 1]
    BY <2>1 DEF CInv, Good, IndexGood, IndexOf, StateTyped
  <2>3. cache.vmark \in [Islands -> -1 .. cache.vseq] /\ cache.vmat \in [Islands -> -1 .. cache.vseq]
    <3>1. \A m \in Islands : cache.vmark[m] <= cache.vseq /\ cache.vmat[m] <= cache.vseq
      BY DEF CInv, Good, ViewsGood
    <3>2. cache.vmark \in Marks /\ cache.vmat \in Marks /\ cache.vseq \in Nat
      BY <2>1 DEF Caches
    <3> QED
      BY <3>1, <3>2 DEF Marks
  <2> QED
    BY <2>1, <2>2, <2>3 DEF TypeOK, Caches, Snapshots, StateTyped
<1> QED
  BY <1>1, CachesStayGood, CallsCounted, DeclaredKnown, PTL
=============================================================================
