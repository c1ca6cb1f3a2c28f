----------------------------- MODULE WorldCache -----------------------------
(***************************************************************************)
(* The caches of src/state/world.c.  A world answers queries from a cached *)
(* judgment family (jfam) and steps on a cached step family (fam0).  In a  *)
(* world compiled with a tick-time matcher part of the rules is a matched  *)
(* layer, re-derived from the fact index whenever an edit made it stale;   *)
(* islands (views) keep their matches as rows instead of rules, and a      *)
(* why-trace turns the rows of one atom back into rules.  Version counters *)
(* and flags say which cache is behind; the fact index is never rebuilt,   *)
(* only updated with each change.                                          *)
(*                                                                         *)
(* A family is abstracted to what it was built from: the rules,            *)
(* superiorities and facts in it.  What is derived from them is DLSolve's  *)
(* business.  The lanes and the split variants of the step family are not  *)
(* modelled: a compiled matcher turns the lanes off.                       *)
(***************************************************************************)
EXTENDS Naturals, Integers, FiniteSets

CONSTANTS
  Fluents,      \* base fluents the schema knows
  Declared,     \* those declared at compile time
  StaticPool,   \* judgment rules grounded at compile time
  SupPool,      \* superiorities between them
  Matchable,    \* instances of matchable rules
  Islands,      \* the instances kept as view rows
  Guarded,      \* the islands with a numeric guard in the body
  PosOf,        \* instance -> fluents that must be true
  NegOf,        \* instance -> fluents that must not be
  MaxCalls      \* bound on the calls of one behaviour

\* A static rule and an instance of a matched rule are never the same rule.
ASSUME CacheAssumption ==
  /\ Declared \subseteq Fluents
  /\ IsFiniteSet(Matchable) /\ StaticPool \cap Matchable = {}
  /\ Islands \subseteq Matchable /\ Guarded \subseteq Islands
  /\ PosOf \in [Matchable -> SUBSET Fluents]
  /\ NegOf \in [Matchable -> SUBSET Fluents]
  /\ MaxCalls \in Nat

VARIABLES
  vals,         \* fluent -> value
  declared,     \* fluents with a slot in the store
  gval,         \* truth of the numeric guard the islands read
  statics,      \* judgment rules below the checkpoint
  sups,         \* superiority pairs
  inMatched,    \* in_matched: the checkpoint was taken
  hooks,        \* the matcher's callbacks are installed
  cache,        \* every derived structure, see Cache
  calls         \* calls so far

vars == <<vals, declared, gval, statics, sups, inMatched, hooks, cache, calls>>
program == <<statics, sups, inMatched, hooks>>

None == [ver |-> -1, static |-> -1, kept |-> {}, rules |-> {}, sups |-> {}]
NoIndex == [f \in Fluents |-> -1]

Init ==
  /\ vals = [f \in Fluents |-> FALSE]
  /\ declared = Declared
  /\ gval = FALSE
  /\ statics = {} /\ sups = {}
  /\ inMatched = FALSE /\ hooks = FALSE
  /\ calls = 0
  /\ cache = [struct |-> 0, static |-> 0, stale |-> FALSE,
              jfam |-> None, solved |-> FALSE, facts |-> <<vals, gval>>,
              fam |-> None,
              suffix |-> {}, index |-> NoIndex,
              vseq |-> 0, vmark |-> [m \in Islands |-> -1], vmat |-> [m \in Islands |-> -1]]

-----------------------------------------------------------------------------
(* The fact index: how often each fluent occurs in its extension.          *)

IndexOf(v) == [f \in Fluents |-> IF v[f] THEN 1 ELSE 0]

\* factindex_add appends, factindex_remove drops one occurrence if there is one.
FidxUpdate(ix, f, now) ==
  IF ix = NoIndex THEN ix
  ELSE [ix EXCEPT ![f] = IF now THEN @ + 1 ELSE IF @ > 0 THEN @ - 1 ELSE @]

\* The instances a join over the index finds.
MatchesIn(present) ==
  {m \in Matchable : PosOf[m] \subseteq present /\ NegOf[m] \cap present = {}}

-----------------------------------------------------------------------------
(* Invalidation.                                                           *)

\* Fluents some matchable rule reads: every body atom is registered.
Watched == UNION {PosOf[m] \cup NegOf[m] : m \in Matchable}

Invalidate(c) == [c EXCEPT !.solved = FALSE, !.stale = TRUE]

\* Mutant: negated body atoms are not registered.
InvalidateOfPositive(c, f) ==
  [c EXCEPT !.solved = FALSE, !.stale = @ \/ ~ inMatched \/ f \in UNION {PosOf[m] : m \in Matchable}]

\* Before a matcher registers anything, every edit counts as watched.
InvalidateOf(c, f) ==
  [c EXCEPT !.solved = FALSE, !.stale = @ \/ ~ inMatched \/ f \in Watched]

-----------------------------------------------------------------------------
(* The matched layer.                                                      *)

\* Mutant: the rules a why-trace added survive the reset.
MatchedResetKeepingTraces(c) ==
  IF c.suffix \subseteq Islands THEN c
  ELSE [c EXCEPT !.suffix = @ \cap Islands, !.struct = @ + 1]

\* An empty suffix is no edit.
MatchedReset(c) ==
  IF c.suffix = {} THEN c ELSE [c EXCEPT !.suffix = {}, !.struct = @ + 1]

\* Reset both layers, index the state if there is no index yet, join again: a
\* plain match becomes a rule, an island match a row of the new generation.
Reground(c) ==
  LET ix    == IF c.index = NoIndex THEN IndexOf(vals) ELSE c.index
      found == MatchesIn({f \in Fluents : ix[f] > 0})
      rows  == {m \in found \cap Islands : m \in Guarded => gval}
      gen   == c.vseq + 1
      base  == MatchedReset(c)
  IN  [base EXCEPT !.index = ix,
                   !.suffix = @ \cup (found \ Islands),
                   !.struct = @ + Cardinality(found \ Islands),
                   !.vseq = gen,
                   !.vmark = [m \in Islands |-> IF m \in rows THEN gen ELSE @[m]],
                   !.stale = FALSE]

RefreshMatched(c) == IF hooks /\ c.stale THEN Reground(c) ELSE c

-----------------------------------------------------------------------------
(* The families.                                                           *)

\* Rules below the checkpoint are emitted once and kept; without a checkpoint
\* the watermark is 0 and every rule is above it.
Prefix == IF inMatched THEN statics ELSE {}

\* With the static rules unchanged the cached family is cut back to its
\* watermark and only the suffix is emitted again.
EmitFamily(c) ==
  LET above == c.suffix \cup (statics \ Prefix)
      reuse == c.jfam # None /\ c.jfam.static = c.static
      kept  == IF reuse THEN c.jfam.kept ELSE Prefix
  IN  [c EXCEPT !.jfam = [ver    |-> c.struct,
                          static |-> c.static,
                          kept   |-> kept,
                          rules  |-> kept \cup above,
                          sups   |-> IF reuse THEN @.sups ELSE sups],
                !.solved = FALSE]

EnsureJfam(c) ==
  LET r == RefreshMatched(c)
  IN  IF r.jfam # None /\ r.jfam.ver = r.struct THEN r ELSE EmitFamily(r)

SolveJudgments(c) ==
  IF c.solved THEN c ELSE [c EXCEPT !.solved = TRUE, !.facts = <<vals, gval>>]

\* Mutant: a step does not look at the matched layer first.
EnsureFamUnrefreshed(c) ==
  IF c.fam # None /\ c.fam.ver = c.struct THEN c
  ELSE [c EXCEPT !.fam = [None EXCEPT !.ver = c.struct, !.rules = statics \cup c.suffix, !.sups = sups]]

EnsureFam(c) ==
  LET r == RefreshMatched(c)
  IN  IF r.fam # None /\ r.fam.ver = r.struct THEN r
      ELSE [r EXCEPT !.fam = [None EXCEPT !.ver = r.struct, !.rules = statics \cup r.suffix,
                                          !.sups = sups]]

-----------------------------------------------------------------------------
(* Building a world.  A plain world is edited through the API at any time; *)
(* the compiler of a matcher adds the static rules, takes the checkpoint,  *)
(* adds superiorities, installs the callbacks and hands the world over.    *)

Call == calls < MaxCalls /\ calls' = calls + 1

\* A world under compilation takes its initial facts but answers nothing.
Serving == inMatched => hooks

AddRule(r) ==
  /\ Call
  /\ ~ inMatched
  /\ r \notin statics
  /\ statics' = statics \cup {r}
  /\ cache' = [cache EXCEPT !.struct = @ + 1, !.static = @ + 1]
  /\ UNCHANGED <<vals, declared, gval, sups, inMatched, hooks>>

\* Mutant: a superiority does not count as a static edit.
AddSupQuietly(s) ==
  /\ Call
  /\ ~ hooks
  /\ s \notin sups
  /\ sups' = sups \cup {s}
  /\ cache' = [cache EXCEPT !.struct = @ + 1]
  /\ UNCHANGED <<vals, declared, gval, statics, inMatched, hooks>>

AddSup(s) ==
  /\ Call
  /\ ~ hooks
  /\ s \notin sups
  /\ sups' = sups \cup {s}
  /\ cache' = [cache EXCEPT !.struct = @ + 1, !.static = IF inMatched THEN @ ELSE @ + 1]
  /\ UNCHANGED <<vals, declared, gval, statics, inMatched, hooks>>

\* The compiler takes it before anything is answered.
MatchedCheckpoint ==
  /\ Call
  /\ ~ inMatched
  /\ cache.jfam = None /\ cache.fam = None
  /\ inMatched' = TRUE
  /\ UNCHANGED <<vals, declared, gval, statics, sups, hooks, cache>>

SetRegroundFn ==
  /\ Call
  /\ inMatched /\ ~ hooks
  /\ hooks' = TRUE
  /\ cache' = [cache EXCEPT !.stale = TRUE]
  /\ UNCHANGED <<vals, declared, gval, statics, sups, inMatched>>

-----------------------------------------------------------------------------
(* Serving.                                                                *)

\* The first touch of a fluent the schema knows declares it, with its structure.
Declaring(c, f) == IF f \in declared THEN c ELSE [c EXCEPT !.struct = @ + 1]

SetFluent(f, v) ==
  /\ Call
  /\ f \in declared \/ hooks
  /\ declared' = declared \cup {f}
  /\ vals' = [vals EXCEPT ![f] = v]
  /\ cache' = InvalidateOf([Declaring(cache, f) EXCEPT
                              !.index = IF vals[f] # v THEN FidxUpdate(@, f, v) ELSE @], f)
  /\ UNCHANGED <<gval, program>>

SetNum(g) ==
  /\ Call
  /\ gval' = g
  /\ cache' = Invalidate(cache)
  /\ UNCHANGED <<vals, declared, program>>

\* A query: an atom some generation matched as an island is answered from the
\* rows, with no solve.
Seen(c, m) == m \in Islands /\ c.vmark[m] >= 0

Query(x) ==
  /\ Call
  /\ Serving
  /\ cache' = LET c == EnsureJfam(cache) IN IF Seen(c, x) THEN c ELSE SolveJudgments(c)
  /\ UNCHANGED <<vals, declared, gval, program>>

\* The rows of a present island atom become rules, once per generation.
Materialize(c, m) ==
  IF m \in Islands /\ c.vmark[m] = c.vseq /\ c.vmark[m] >= 0 /\ c.vmat[m] # c.vseq
  THEN EnsureJfam([c EXCEPT !.suffix = @ \cup {m}, !.struct = @ + 1, !.vmat[m] = c.vseq])
  ELSE c

\* A why-trace: it may declare its fluent, and give its atom a column (located),
\* after which the family is solved again.
Why(x, located) ==
  /\ Call
  /\ Serving
  /\ LET known == x \in Fluents /\ hooks
         first == IF known THEN Declaring(cache, x) ELSE cache
         shown == Materialize(EnsureJfam(first), x)
     IN  /\ cache' = SolveJudgments(IF located THEN shown ELSE [shown EXCEPT !.solved = FALSE])
         /\ declared' = IF known THEN declared \cup {x} ELSE declared
  /\ UNCHANGED <<vals, gval, program>>

-----------------------------------------------------------------------------
(* A step, whatever it decides.                                            *)

\* Mutant: every fluent that ends up true is added again.
ReindexedAll(ix, next) ==
  IF ix = NoIndex THEN ix ELSE [f \in Fluents |-> FidxUpdate(ix, f, next[f])[f]]

\* reindex_commit: only the fluents that moved.
Reindexed(ix, next) ==
  IF ix = NoIndex THEN ix
  ELSE [f \in Fluents |-> IF next[f] = vals[f] THEN ix[f] ELSE FidxUpdate(ix, f, next[f])[f]]

RejectStep ==
  /\ Call
  /\ Serving
  /\ cache' = EnsureFam(cache)
  /\ UNCHANGED <<vals, declared, gval, program>>

CommitStep(next, g) ==
  /\ Call
  /\ Serving
  /\ \A f \in Fluents \ declared : ~ next[f]
  /\ vals' = next
  /\ gval' = g
  /\ cache' = LET c == EnsureFam(cache)
              IN  Invalidate([c EXCEPT !.index = Reindexed(@, next)])
  /\ UNCHANGED <<declared, program>>

Host == \/ \E f \in Fluents, v \in BOOLEAN : SetFluent(f, v)
        \/ \E g \in BOOLEAN : SetNum(g)

Next ==
  \/ \E r \in StaticPool : AddRule(r)
  \/ \E s \in SupPool : AddSup(s)
  \/ MatchedCheckpoint
  \/ SetRegroundFn
  \/ Host
  \/ \E x \in StaticPool \cup Islands : Query(x)
  \/ \E x \in Fluents \cup Islands, located \in BOOLEAN : Why(x, located)
  \/ RejectStep
  \/ \E next \in [Fluents -> BOOLEAN], g \in BOOLEAN : CommitStep(next, g)

Spec == Init /\ [][Next]_vars
-----------------------------------------------------------------------------
Family == [ver : Int, static : Int, kept : SUBSET StaticPool,
           rules : SUBSET (StaticPool \cup Matchable), sups : SUBSET SupPool]

\* Every variable has its type; index counts are never negative once it exists.
TypeOK ==
  /\ vals \in [Fluents -> BOOLEAN] /\ declared \subseteq Fluents /\ gval \in BOOLEAN
  /\ statics \subseteq StaticPool /\ sups \subseteq SupPool
  /\ inMatched \in BOOLEAN /\ hooks \in BOOLEAN /\ (hooks => inMatched)
  /\ calls \in 0 .. MaxCalls
  /\ cache.struct \in Nat /\ cache.static \in Nat /\ cache.vseq \in Nat
  /\ cache.stale \in BOOLEAN /\ cache.solved \in BOOLEAN
  /\ cache.jfam \in Family /\ cache.fam \in Family
  /\ cache.facts \in [Fluents -> BOOLEAN] \X BOOLEAN
  /\ cache.suffix \subseteq Matchable
  /\ cache.index = NoIndex \/ cache.index \in [Fluents -> 0 .. 1]
  /\ cache.vmark \in [Islands -> -1 .. cache.vseq]
  /\ cache.vmat \in [Islands -> -1 .. cache.vseq]

\* What a world built from scratch would derive from the present state.
TrueFluents  == {f \in Fluents : vals[f]}
FreshRules   == MatchesIn(TrueFluents) \ Islands
FreshRows    == {m \in MatchesIn(TrueFluents) \cap Islands : m \in Guarded => gval}
Materialized == {m \in Islands : cache.vmat[m] = cache.vseq /\ cache.vmat[m] >= 0}
UpToDate     == ~ (hooks /\ cache.stale)

\* The index, never rebuilt, is the set of the true fluents (fidx_update and
\* reindex_commit are its only maintenance).
IndexMirrorsTheState == cache.index # NoIndex => cache.index = IndexOf(vals)

\* An edit that leaves the matched layer alone cannot have changed it: while the
\* layer is not stale its rules and rows are those of the present state
\* (matcher_watches, invalidate_state_solved_of).
MatchedLayerFollowsTheState ==
  hooks /\ ~ cache.stale =>
    /\ cache.suffix \ Islands = FreshRules
    /\ {m \in Islands : cache.vmark[m] = cache.vseq} = FreshRows

\* A judgment family that will be answered from without a rebuild holds exactly
\* the rules, superiorities and facts of the present world (ensure_jfam).
JudgmentsAreCurrent ==
  UpToDate /\ cache.jfam # None /\ cache.jfam.ver = cache.struct =>
    /\ cache.jfam.rules = statics \cup (IF hooks THEN FreshRules \cup Materialized ELSE {})
    /\ cache.jfam.sups = sups
    /\ cache.solved => cache.facts = <<vals, gval>>

\* The rules a why-trace added explain rows that are there now; none outlives
\* its generation (world_why, world_matched_reset).
TraceRulesExplainCurrentRows ==
  UpToDate => /\ cache.suffix \cap Islands = Materialized
              /\ Materialized \subseteq {m \in Islands : cache.vmark[m] = cache.vseq}

\* A step is solved over the rules of the state it starts from (ensure_fam).
StepsUseTheCurrentRules ==
  [][RejectStep \/ (\E next \in [Fluents -> BOOLEAN], g \in BOOLEAN : CommitStep(next, g))
       => /\ cache'.fam.rules \ Islands = statics \cup (IF hooks THEN FreshRules ELSE {})
          /\ cache'.fam.sups = sups]_vars
=============================================================================
