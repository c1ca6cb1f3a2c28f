------------------------------ MODULE Stratify ------------------------------
(***************************************************************************)
(* stratify_steps of src/lang/story.c: the compiler's assignment of step   *)
(* rules to strata.  A rule that reads the NEXT value of a numeric fluent  *)
(* (a primed guard `hp' <= 0` in its requires, or a primed load in a       *)
(* numeric effect) has to sit above every writer of that fluent; a primed  *)
(* boolean read only has to sit as high as the writers of the boolean.     *)
(* The pass sweeps the rules in source order until a sweep changes nothing *)
(* or a number of rounds is used up, and then rejects the program.         *)
(***************************************************************************)
EXTENDS Integers, Sequences, FiniteSets

CONSTANTS Nums,       \* numeric fluent predicates
          Bools,      \* boolean and multi-valued fluent predicates
          Programs    \* the step-rule lists (p->actions) that may be compiled

\* What the pass looks at in one ast_action: primed guards and primed boolean
\* reads of its requires, primed loads of its numeric effects, and its effects,
\* those of its binders included.
StepRule == [guards : SUBSET Nums, preads : SUBSET Bools, loads : SUBSET Nums,
             wnum : SUBSET Nums, wbool : SUBSET Bools]

ASSUME ProgramsAssumption == Programs \subseteq Seq(StepRule) /\ IsFiniteSet(Nums)

VARIABLES prog,      \* p->actions
          strata,    \* a->stratum of every rule
          i,         \* the rule the sweep is at
          rounds,    \* sweeps left
          changed,   \* this sweep raised a stratum
          pc,        \* where the pass is
          named      \* the fluent a rejection names, or NoFluent

NoFluent == "none"
Unnamed  == "fallback"

vars == <<prog, strata, i, rounds, changed, pc, named>>

Rules == DOMAIN prog

\* The distinct numeric fluents read primed: pg[] and npgf.
PrimedNums == UNION {prog[r].guards \cup prog[r].loads : r \in Rules}

WritersOfNum(n)  == {r \in Rules : n \in prog[r].wnum}
WritersOfBool(b) == {r \in Rules : b \in prog[r].wbool}

-----------------------------------------------------------------------------
(* The constraints of one rule, under the current strata of the others.    *)

NumFloors(r) ==
  UNION {{strata[j] + 1 : j \in WritersOfNum(n)} : n \in prog[r].guards \cup prog[r].loads}

\* Mutant: a primed boolean read lifts its reader above the writers.
BoolFloorsAbove(r) ==
  UNION {{strata[j] + 1 : j \in WritersOfBool(b)} : b \in prog[r].preads}

BoolFloors(r) ==
  UNION {{strata[j] : j \in WritersOfBool(b)} : b \in prog[r].preads}

Floors(r) == {strata[r]} \cup NumFloors(r) \cup BoolFloors(r)

-----------------------------------------------------------------------------
Init ==
  /\ prog \in Programs
  /\ strata = [r \in Rules |-> 0]
  /\ i = 1
  /\ rounds = 0
  /\ changed = TRUE
  /\ pc = "count"
  /\ named = NoFluent

\* Counting the primed fluents: none means a single stratum and nothing to do.
Count ==
  /\ pc = "count"
  /\ IF PrimedNums = {}
       THEN pc' = "accepted" /\ UNCHANGED rounds
       ELSE pc' = "test" /\ rounds' = Cardinality(PrimedNums) + 2
  /\ UNCHANGED <<prog, strata, i, changed, named>>

\* while (changed && rounds-- > 0)
StartRound ==
  /\ pc = "test"
  /\ changed
  /\ rounds > 0
  /\ rounds' = rounds - 1
  /\ changed' = FALSE
  /\ i' = 1
  /\ pc' = "sweep"
  /\ UNCHANGED <<prog, strata, named>>

\* Mutant: the sweep forgets that it changed something.
RaiseRuleQuietly ==
  /\ pc = "sweep"
  /\ i \in Rules
  /\ \E ns \in Floors(i) :
       /\ \A m \in Floors(i) : m <= ns
       /\ strata' = [strata EXCEPT ![i] = ns]
       /\ changed' = (ns > strata[i])
  /\ i' = i + 1
  /\ UNCHANGED <<prog, rounds, pc, named>>

\* One rule of a sweep: its stratum becomes the highest floor it has.
RaiseRule ==
  /\ pc = "sweep"
  /\ i \in Rules
  /\ \E ns \in Floors(i) :
       /\ \A m \in Floors(i) : m <= ns
       /\ strata' = [strata EXCEPT ![i] = ns]
       /\ changed' = (changed \/ ns > strata[i])
  /\ i' = i + 1
  /\ UNCHANGED <<prog, rounds, pc, named>>

EndRound ==
  /\ pc = "sweep"
  /\ i \notin Rules
  /\ pc' = "test"
  /\ UNCHANGED <<prog, strata, i, rounds, changed, named>>

Accept ==
  /\ pc = "test"
  /\ ~ changed
  /\ pc' = "accepted"
  /\ UNCHANGED <<prog, strata, i, rounds, changed, named>>

\* A writer of n has moved past the bound of an acyclic program.
PastBound(n) == \E j \in WritersOfNum(n) : strata[j] > Cardinality(PrimedNums)

\* Still moving when the rounds are used up: the first rule in source order
\* with a primed guard past the bound names its fluent, else the first with
\* such a primed load, else the rejection names nothing.
Reject ==
  LET over(f) == {r \in Rules : \E n \in f[r] : PastBound(n)}
      guards  == [r \in Rules |-> prog[r].guards]
      loads   == [r \in Rules |-> prog[r].loads]
      first(f) == \E r \in over(f) : /\ \A s \in over(f) : r <= s
                                     /\ \E n \in f[r] : PastBound(n) /\ named' = n
  IN  /\ pc = "test"
      /\ changed
      /\ rounds = 0
      /\ \/ over(guards) # {} /\ first(guards)
         \/ over(guards) = {} /\ over(loads) # {} /\ first(loads)
         \/ over(guards) = {} /\ over(loads) = {} /\ named' = Unnamed
      /\ pc' = "rejected"
      /\ UNCHANGED <<prog, strata, i, rounds, changed>>

Returned == pc \in {"accepted", "rejected"} /\ UNCHANGED vars

Next == Count \/ StartRound \/ RaiseRule \/ EndRound \/ Accept \/ Reject \/ Returned

Spec == Init /\ [][Next]_vars

-----------------------------------------------------------------------------
(* Reference definitions: the constraint system, and its dependency graph. *)

\* s satisfies the constraints the comment above stratify_steps states.
Stratified(s) ==
  \A r \in Rules :
    /\ \A n \in prog[r].guards \cup prog[r].loads :
         \A j \in WritersOfNum(n) : s[r] >= s[j] + 1
    /\ \A b \in prog[r].preads : \A j \in WritersOfBool(b) : s[r] >= s[j]

\* j has to settle before r: r reads primed what j writes.
ReadsNumOf(r, j)  == \E n \in prog[r].guards \cup prog[r].loads : j \in WritersOfNum(n)
ReadsBoolOf(r, j) == \E b \in prog[r].preads : j \in WritersOfBool(b)

\* Every rule whose effects can reach r through primed reads.
Feeders(r) ==
  LET step(S) == S \cup {j \in Rules : \E k \in S : ReadsNumOf(k, j) \/ ReadsBoolOf(k, j)}
      F[n \in Nat] == IF n = 0 THEN {r} ELSE step(F[n-1])
  IN  F[Len(prog)]

\* The next value of n depends on itself: a rule that reads n' feeds a writer.
SelfDependent(n) ==
  \E r \in Rules : /\ n \in prog[r].guards \cup prog[r].loads
                   /\ \E j \in WritersOfNum(n) : r \in Feeders(j)

-----------------------------------------------------------------------------
(* Properties.                                                             *)

TypeOK ==
  /\ prog \in Programs
  /\ strata \in [Rules -> Nat]
  /\ i \in Nat \ {0}
  /\ rounds \in Nat
  /\ changed \in BOOLEAN
  /\ pc \in {"count", "test", "sweep", "accepted", "rejected"}
  /\ named \in Nums \cup {NoFluent, Unnamed}

\* A program stratify_steps lets through satisfies every constraint: no rule
\* reads a next value that has not settled below it.
AcceptedIsStratified == pc = "accepted" => Stratified(strata)

\* No rule is ever lifted higher than the constraints demand, so a tick of an
\* accepted program runs the fewest solves it can.
StrataAreLeast ==
  \A s \in [Rules -> 0 .. Len(prog)] :
    Stratified(s) => \A r \in Rules : strata[r] <= s[r]

\* Only such programs are rejected: "a program still moving past that bound has
\* a primed-numeric cycle" (story.c, the comment above stratify_steps).
OnlyCyclesAreRejected == pc = "rejected" => \E n \in PrimedNums : SelfDependent(n)

=============================================================================
