------------------------------ MODULE DLDrivers ------------------------------
(***************************************************************************)
(* The three schedules of src/logic/dl.c, each as its own control state    *)
(* over the statuses of DLSolve:                                           *)
(*                                                                         *)
(*   "sweep"     dl_solve: rescan every literal until a pass is quiet      *)
(*   "scc"       dl_solve_scc: walk the condensation of the dependency     *)
(*               graph, iterating only inside a component                  *)
(*   "worklist"  dl_solve_wl: a stack of literals, a decision queues its   *)
(*               dependents                                                *)
(*                                                                         *)
(* and complete_pass as the loop over components it is.  Component         *)
(* numberings come from dl_tarjan, of which only its contract is used: the *)
(* numbering is reverse topological (checked in module DLTarjan).          *)
(***************************************************************************)
EXTENDS DLSolve, DLSchedule

VARIABLES
  driver,     \* which of dl_solve, dl_solve_scc, dl_solve_wl is running
  numbering,  \* support components in id order (scc_off / scc_lit)
  sched,      \* dependency components in id order, members by index
  at,         \* literal, component member or component the loop is at
  comp,       \* sweep_scc: components still to visit
  changed,    \* the loop's changed flag
  stack,      \* run_worklist: the stack, its top last
  inq         \* run_worklist: literals flagged as queued

control == <<numbering, sched, at, comp, changed, stack, inq>>
dvars   == <<vars, driver, control>>

\* Control state on entering a sweep of the running driver.
StartSweep ==
  /\ at' = IF driver' = "sweep" THEN 0 ELSE 1
  /\ comp' = Len(sched')
  /\ changed' = FALSE
  /\ stack' = IF driver' = "worklist" THEN [i \in 1 .. 2 * NAtoms |-> i - 1] ELSE <<>>
  /\ inq' = IF driver' = "worklist" THEN Lits ELSE {}

DInit ==
  /\ Init
  /\ driver = "sweep"
  /\ numbering = <<>> /\ sched = <<>>
  /\ at = 0 /\ comp = 0 /\ changed = FALSE
  /\ stack = <<>> /\ inq = {}

DBuild == Build /\ UNCHANGED <<driver, control>>

\* A caller enters one of the three solve functions.
DCompile(d) ==
  /\ Compile
  /\ driver' = d
  /\ \E high \in BOOLEAN :
       /\ numbering' = SupportNumbering(thy, high)
       /\ sched' = IF d = "scc" THEN Schedule(thy, high) ELSE <<>>
  /\ StartSweep

-----------------------------------------------------------------------------
(* The literal a loop visits: eval_delta or eval_part on it.               *)

status == IF phase = "delta" THEN delta ELSE part

InSweep == phase \in {"delta", "part"} /\ pass = "sweep"
InPass  == phase \in {"delta", "part"} /\ pass = "complete"

Decides(q) ==
  /\ status[q] = DL_UNDECIDED
  /\ (IF phase = "delta" THEN EvalDelta(thy, delta, q)
                         ELSE EvalPart(thy, delta, part, q)) # DL_UNDECIDED

Visit(q) ==
  IF Decides(q) THEN DecideDelta(q) \/ DecidePart(q) ELSE UNCHANGED vars

\* sweep(): every literal in index order, again while a scan changed something.
SweepVisit ==
  /\ InSweep /\ driver = "sweep" /\ at < 2 * NAtoms
  /\ Visit(at)
  /\ at' = at + 1
  /\ changed' = (changed \/ Decides(at))
  /\ UNCHANGED <<driver, numbering, sched, comp, stack, inq>>

SweepRescan ==
  /\ InSweep /\ driver = "sweep" /\ at = 2 * NAtoms /\ changed
  /\ at' = 0
  /\ changed' = FALSE
  /\ UNCHANGED <<vars, driver, numbering, sched, comp, stack, inq>>

\* sweep_scc(): a component is left when a round over it changed nothing; a
\* singleton is evaluated once.
SccVisit ==
  /\ InSweep /\ driver = "scc" /\ comp > 0 /\ at <= Len(sched[comp])
  /\ Visit(sched[comp][at])
  /\ at' = at + 1
  /\ changed' = (changed \/ Decides(sched[comp][at]))
  /\ UNCHANGED <<driver, numbering, sched, comp, stack, inq>>

\* Mutant: every component is walked once.
RevisitNever == FALSE

Revisit == changed /\ Len(sched[comp]) > 1

SccNext ==
  /\ InSweep /\ driver = "scc" /\ comp > 0 /\ at > Len(sched[comp])
  /\ comp' = IF Revisit THEN comp ELSE comp - 1
  /\ at' = 1
  /\ changed' = FALSE
  /\ UNCHANGED <<vars, driver, numbering, sched, stack, inq>>

\* run_worklist(): pop, evaluate, queue the undecided dependents not yet queued.
\* dep_to lists the heads of the rules that read a literal and their complements
\* in rule order; any order is allowed here.
\* Mutant: the inq flag is not tested.
RequeuedAgain(q) == {x \in DependSucc(thy, q) : status[x] = DL_UNDECIDED /\ x # q}

Requeued(q) ==
  {x \in DependSucc(thy, q) : status[x] = DL_UNDECIDED /\ x # q /\ x \notin inq}

WorklistPop ==
  /\ InSweep /\ driver = "worklist" /\ stack # <<>>
  /\ LET q == Last(stack)
     IN  /\ Visit(q)
         /\ IF Decides(q)
            THEN \E s \in SetToSeqs(Requeued(q)) :
                   /\ stack' = Front(stack) \o s
                   /\ inq' = (inq \ {q}) \cup Range(s)
            ELSE stack' = Front(stack) /\ inq' = inq \ {q}
  /\ UNCHANGED <<driver, numbering, sched, at, comp, changed>>

SweepDone ==
  /\ InSweep
  /\ CASE driver = "sweep"    -> at = 2 * NAtoms /\ ~ changed
       [] driver = "scc"      -> comp = 0
       [] driver = "worklist" -> stack = <<>>
  /\ pass' = "complete"
  /\ any' = FALSE
  /\ at' = 1
  /\ UNCHANGED <<thy, phase, resultVars, driver, numbering, sched, comp, changed, stack, inq>>

-----------------------------------------------------------------------------
(* complete_pass(): components in id order, each looked at once.           *)

PassVisit ==
  /\ InPass /\ at <= Len(numbering)
  /\ LET c == numbering[at] IN
       IF Completes(thy, status, c, phase = "delta")
       THEN \E q \in c : CompleteDelta(q) \/ CompletePart(q)
       ELSE UNCHANGED vars
  /\ at' = at + 1
  /\ UNCHANGED <<driver, numbering, sched, comp, changed, stack, inq>>

\* The pass returns any: sweep again, or go on to the next layer.
PassDone ==
  /\ InPass /\ at > Len(numbering)
  /\ pass' = "sweep"
  /\ any' = FALSE
  /\ phase' = IF any THEN phase ELSE IF phase = "delta" THEN "part" ELSE "done"
  /\ UNCHANGED <<thy, resultVars, driver, numbering, sched>>
  /\ StartSweep

DResultFree ==
  /\ ResultFree
  /\ driver' = "sweep" /\ numbering' = <<>> /\ sched' = <<>>
  /\ at' = 0 /\ comp' = 0 /\ changed' = FALSE /\ stack' = <<>> /\ inq' = {}

DSolve == SweepVisit \/ SweepRescan \/ SccVisit \/ SccNext \/ WorklistPop
            \/ SweepDone \/ PassVisit \/ PassDone

DNext == DBuild \/ (\E d \in {"sweep", "scc", "worklist"} : DCompile(d))
           \/ DSolve \/ DResultFree

\* Each solve function is a synchronous call.
DSpec == DInit /\ [][DNext]_dvars /\ WF_dvars(DSolve)

-----------------------------------------------------------------------------
(* Properties.                                                             *)

\* Every schedule is a schedule of the open solver: each decision is one it may
\* take, a sweep is left only when nothing more can be decided, a layer only when
\* nothing more can be completed, and the call returns.
Solver == INSTANCE DLSolve WITH thy <- thy, delta <- delta, part <- part
ImplementsDLSolve == Solver!Spec

\* dl_solve_wl allocates one stack slot per literal, and run_worklist queues a
\* literal at most once: the stack never runs over.
StackFits ==
  /\ Len(stack) <= 2 * NAtoms
  /\ inq = Range(stack)
  /\ IsInjective(stack)

=============================================================================
