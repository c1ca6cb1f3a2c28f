------------------------------- MODULE DLSolve -------------------------------
(***************************************************************************)
(* What every solver driver of src/logic/dl.c promises, with the order of  *)
(* evaluation left open.  A theory is built through dl_add_rule,           *)
(* dl_add_sup and dl_add_fact, then solved: the definite layer first, the  *)
(* defeasible one over its final statuses.  In each layer undecided        *)
(* literals are decided in any order until none can be; then the cycle     *)
(* rule completes stalled unattacked support cycles, and if it completed   *)
(* anything the layer sweeps again.                                        *)
(*                                                                         *)
(* dl_solve, dl_solve_scc and dl_solve_wl are three schedules of this      *)
(* specification (module DLDrivers).                                       *)
(***************************************************************************)
EXTENDS DLTheory

CONSTANTS RulePool,      \* rules a caller may submit
          FactPool,      \* literals a caller may assert
          RuleLists,     \* bound: the rule lists a theory may grow into
          MaxSups,       \* bound on superiority pairs
          MaxFacts       \* bound on facts

ASSUME PoolAssumption ==
  /\ RulePool \subseteq Rule
  /\ FactPool \subseteq Lits
  /\ MaxSups \in Nat /\ MaxFacts \in Nat

VARIABLES
  thy,        \* the dl_theory under construction, then compiled
  phase,      \* "build", "delta", "part" (inside dl_solve), "done" (a result)
  pass,       \* "sweep" or "complete" inside a layer
  any,        \* complete_pass has refuted something in this pass
  scc,        \* compiled support components, one set of members per literal
  delta,      \* definite statuses
  part,       \* defeasible statuses
  completed   \* literals refuted by the cycle rule, in either layer

vars == <<thy, phase, pass, any, scc, delta, part, completed>>
resultVars == <<scc, delta, part, completed>>

NoTheory == [rules |-> <<>>, sups |-> {}, facts |-> {}]
NoSccs   == [q \in Lits |-> {}]

Init ==
  /\ thy = NoTheory
  /\ phase = "build"
  /\ pass = "sweep"
  /\ any = FALSE
  /\ scc = NoSccs
  /\ delta = Unsolved
  /\ part = Unsolved
  /\ completed = {}

-----------------------------------------------------------------------------
(* The builder API.                                                        *)

AddRule(r) ==
  /\ phase = "build"
  /\ Append(thy.rules, r) \in RuleLists
  /\ thy' = [thy EXCEPT !.rules = Append(@, r)]
  /\ UNCHANGED <<phase, pass, any, resultVars>>

\* Rule ids come from dl_add_rule; nothing checks that winner and loser conflict
\* or that the relation is acyclic.
AddSup(winner, loser) ==
  /\ phase = "build"
  /\ Cardinality(thy.sups) < MaxSups
  /\ thy' = [thy EXCEPT !.sups = @ \cup {<<winner, loser>>}]
  /\ UNCHANGED <<phase, pass, any, resultVars>>

AddFact(q) ==
  /\ phase = "build"
  /\ Cardinality(thy.facts) < MaxFacts
  /\ thy' = [thy EXCEPT !.facts = @ \cup {q}]
  /\ UNCHANGED <<phase, pass, any, resultVars>>

-----------------------------------------------------------------------------
(* Solving.                                                                *)

\* result_new, compile and build_scc: a fresh result, everything undecided.
Compile ==
  /\ phase = "build"
  /\ phase' = "delta"
  /\ pass' = "sweep"
  /\ any' = FALSE
  /\ scc' = SupportSccs(thy)
  /\ delta' = Unsolved
  /\ part' = Unsolved
  /\ completed' = {}
  /\ UNCHANGED thy

DecideDelta(q) ==
  /\ phase = "delta" /\ pass = "sweep"
  /\ delta[q] = DL_UNDECIDED
  /\ EvalDelta(thy, delta, q) # DL_UNDECIDED
  /\ delta' = [delta EXCEPT ![q] = EvalDelta(thy, delta, q)]
  /\ UNCHANGED <<thy, phase, pass, any, scc, part, completed>>

DecidePart(q) ==
  /\ phase = "part" /\ pass = "sweep"
  /\ part[q] = DL_UNDECIDED
  /\ EvalPart(thy, delta, part, q) # DL_UNDECIDED
  /\ part' = [part EXCEPT ![q] = EvalPart(thy, delta, part, q)]
  /\ UNCHANGED <<thy, phase, pass, any, scc, delta, completed>>

DeltaSettled ==
  \A q \in Lits : delta[q] = DL_UNDECIDED => EvalDelta(thy, delta, q) = DL_UNDECIDED
PartSettled ==
  \A q \in Lits : part[q] = DL_UNDECIDED => EvalPart(thy, delta, part, q) = DL_UNDECIDED

\* The sweep stops only at a fixpoint of its layer; complete_pass follows.
SweepEnds ==
  /\ pass = "sweep"
  /\ \/ phase = "delta" /\ DeltaSettled
     \/ phase = "part" /\ PartSettled
  /\ pass' = "complete"
  /\ any' = FALSE
  /\ UNCHANGED <<thy, phase, resultVars>>

CompleteDelta(q) ==
  /\ phase = "delta" /\ pass = "complete"
  /\ Completes(thy, delta, scc[q], TRUE)
  /\ delta' = Completion(delta, scc[q])
  /\ completed' = completed \cup {m \in scc[q] : delta[m] = DL_UNDECIDED}
  /\ any' = TRUE
  /\ UNCHANGED <<thy, phase, pass, scc, part>>

CompletePart(q) ==
  /\ phase = "part" /\ pass = "complete"
  /\ Completes(thy, part, scc[q], FALSE)
  /\ part' = Completion(part, scc[q])
  /\ completed' = completed \cup {m \in scc[q] : part[m] = DL_UNDECIDED}
  /\ any' = TRUE
  /\ UNCHANGED <<thy, phase, pass, scc, delta>>

\* while (complete_pass(...)): a pass that refuted something sweeps again.
SweepAgain ==
  /\ phase \in {"delta", "part"} /\ pass = "complete"
  /\ any
  /\ pass' = "sweep"
  /\ any' = FALSE
  /\ UNCHANGED <<thy, phase, resultVars>>

\* A pass that refuted nothing ends the layer.
DeltaEnds ==
  /\ phase = "delta" /\ pass = "complete"
  /\ ~ any
  /\ \A q \in Lits : ~ Completes(thy, delta, scc[q], TRUE)
  /\ phase' = "part"
  /\ pass' = "sweep"
  /\ UNCHANGED <<thy, any, resultVars>>

PartEnds ==
  /\ phase = "part" /\ pass = "complete"
  /\ ~ any
  /\ \A q \in Lits : ~ Completes(thy, part, scc[q], FALSE)
  /\ phase' = "done"
  /\ pass' = "sweep"
  /\ UNCHANGED <<thy, any, resultVars>>

\* The caller is through with the result; the theory may grow and be re-solved.
ResultFree ==
  /\ phase = "done"
  /\ phase' = "build"
  /\ scc' = NoSccs
  /\ delta' = Unsolved
  /\ part' = Unsolved
  /\ completed' = {}
  /\ UNCHANGED <<thy, pass, any>>

Build ==
  \/ \E r \in RulePool : AddRule(r)
  \/ \E w, l \in DOMAIN thy.rules : AddSup(w, l)
  \/ \E q \in FactPool : AddFact(q)

Sweep    == \E q \in Lits : DecideDelta(q) \/ DecidePart(q)
Complete == \E q \in Lits : CompleteDelta(q) \/ CompletePart(q)

Solve == Sweep \/ SweepEnds \/ Complete \/ SweepAgain \/ DeltaEnds \/ PartEnds

Next == Build \/ Compile \/ Solve \/ ResultFree

\* dl_solve is a synchronous call: once entered it runs to its return.
Spec == Init /\ [][Next]_vars /\ WF_vars(Solve)

-----------------------------------------------------------------------------
(* Properties.                                                             *)

\* Every variable of the solver has its type (dl_theory and dl_result fields).
TypeOK ==
  /\ thy \in Theory
  /\ phase \in {"build", "delta", "part", "done"}
  /\ pass \in {"sweep", "complete"}
  /\ any \in BOOLEAN
  /\ scc \in [Lits -> SUBSET Lits]
  /\ delta \in Status
  /\ part \in Status
  /\ completed \subseteq Lits

\* The definite layer proves exactly the least model of the strict rules,
\* whatever order the literals were decided in and whatever the cycle rule
\* refuted on the way (eval_delta and complete_pass with strict_only).
DefiniteIsLeastModel ==
  phase \in {"part", "done"} => {q \in Lits : delta[q] = DL_PROVED} = LeastModel(thy)

\* The order of evaluation is invisible: every schedule of eval_delta,
\* eval_part and complete_pass ends in the statuses of the round-based reference.
Confluence ==
  phase = "done" =>
    /\ delta = RefDelta(thy, scc)
    /\ part = RefPart(thy, scc, delta)

\* A literal and its complement are never both defeasibly proved, unless the
\* strict part of the theory already proves both (team defeat in eval_part).
\* Superiority cycles are the caller's error and are excluded.
Coherence ==
  SupAcyclic(thy) =>
    \A q \in Lits : part[q] = DL_PROVED /\ part[Compl(q)] = DL_PROVED
                    => delta[q] = DL_PROVED /\ delta[Compl(q)] = DL_PROVED

\* A defeasible proof stays valid while the solver goes on: nothing decided
\* later, by a sweep or by the cycle rule, takes away the reason a literal was
\* proved for.
ProofsStayJustified ==
  \A q \in Lits : part[q] = DL_PROVED => PartProves(thy, delta, part, q)

\* What the cycle rule refuted was unfounded: in the final statuses every rule
\* for such a literal has a refuted body literal, or its complement holds
\* definitely, so no later decision could have supported it.
CompletionIsUnfounded ==
  phase = "done" =>
    \A q \in completed :
      /\ part[q] = DL_REFUTED =>
           NotSupported(thy, part, q) \/ delta[Compl(q)] = DL_PROVED
      /\ delta[q] = DL_REFUTED =>
           \A r \in StrictFor(thy, q) : BodySome(thy, r, delta, DL_REFUTED)

\* A literal left undecided has a reason: an attacked cycle of the dependency
\* graph leads to it. Recursion without defeat always decides (dl.h, the cycle
\* rule).
StallsComeFromAttackedCycles ==
  phase = "done" =>
    \A q \in Lits : (delta[q] = DL_UNDECIDED \/ part[q] = DL_UNDECIDED) =>
      \E x \in Lits : /\ OnDependCycle(thy, x)
                      /\ Attacked(thy, x)
                      /\ q \in DependReach(thy, {x})

=============================================================================
