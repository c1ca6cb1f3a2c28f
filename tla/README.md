# infeasible, verified

A TLA+ verification development kept beside the `infeasible` engine. The engine
runs narrative games as logic databases: a world of fluents, rules of defeasible
logic that say what follows and what changes, and a step function that turns
submitted actions into the next state. Source paths below are relative to
`src/src/`.

## 1. Inventory: the system and its parts

| part | code | state it keeps | operations |
|---|---|---|---|
| Defeasible solver | `logic/dl.c` | theory (rules, superiority, facts); result (definite and defeasible statuses, support components) | add rule / superiority / fact, `dl_solve`, `dl_solve_scc`, `dl_solve_wl` |
| Graph helpers | `logic/dl_graph.c` | Tarjan's index, low-link, stacks | `dl_tarjan`, `dl_group_by_comp` |
| Why-trace | `logic/dl_trace.c` | none | render a proof |
| Columnar solver | `logic/dl_col.c` | bit columns per literal, cached applicability rows, dirty flag | incremental add / truncate, solve all entities at once |
| World store and caches | `state/world.c` | fluents, numbers, guards, judgment rules, matched layer, views, judgment and step families with version counters | declare, set, query, why, checkpoint, re-ground |
| World step | `state/world.c` | step rules, strata, next values, receipts, changeset, cues, subscriptions | `world_step`, subscribe, action status |
| Lanes and mixed routing | `state/world.c`, `lang/story.c` (emission) | per-sort columnar families, routes, the cached iteration of each | query through a family, solve a step for all entities of a sort, split one step in a lane half and a residue |
| Fact index | `state/factindex.c` | true ground facts by predicate | add, remove, scan |
| Stratification | `lang/story.c` (`stratify_steps`) | stratum per step rule | one pass of the compiler |
| Story compiler | `lang/` | AST, symbol tables, matcher plan | parse, check and ground a story into a world |
| Record and replay | `runtime/runtime.c` | log of the steps taken, feed of a loaded log | step, render, save, load |
| Scenes, interface, pure carts | `runtime/` | menu, slots, targets, floating words | rebuild, draw, resolve a hit, propose |
| Platform and player | `platform/`, `player/` | focus, pointer, targets, confirmed id | sample input, declare targets, frames, save file |
| Stock grid | `stock/grid.c` | grid geometry | relation provider |
| Core containers | `core/` | arena, intern table | allocate, intern |
| Language server | `lsp/` | open documents, their spans | JSON-RPC: synchronise, diagnose, navigate |
| Web and wasm bindings | `wasm/`, `web/` | handles | forwarding |

How they interact: everything but the editor's pipe is synchronous calls in one
thread. The compiler builds a world through the `world_*` API; a world builds
theories for the solver (columnar in production, scalar as its reference) and caches
them; the compiler's matcher is called back by the world before a solve when the
matched layer is stale; hosts set facts, query, and step. The runtime joins a world, a
platform and a cart: a tick samples input, lets the cart propose, steps the world or
feeds a recorded line, and a frame draws. The language server is a process at the end
of two ordered pipes.

What is hard, and what makes each part correct:

- *The solver* decides literals in an order nobody specifies (index order,
  components, worklist), skips re-evaluation on purpose, and refutes whole support
  cycles at once. It is correct if the verdicts do not depend on the order, proofs
  stay justified, the definite layer is the least model, contradictions are not
  proved, and it returns.
- *The step* solves several times (strata), settles numbers before the last solve,
  and may reject after any of them. It is correct if a rejection leaves nothing
  behind, the numbers are those of the rules that fire in the end, every change has
  a reason, and the hints (split) change nothing.
- *The caches* answer from structures guarded by five counters and flags. They are
  correct if what is answered is what a world built afresh would answer.
- *Lanes* answer from columns shared by all entities of a sort what the scalar
  families answer atom by atom. They are correct if which path answered never shows.
- *The compiler's checks* let a story pass. They are right if what passes is never
  contested, and never undecided without a warning (section 3 says where they are not).
- *The player* is right if the log is the history, a load restores a save, and what is
  clicked is what is shown; *the language server*, if its answers are places on the
  editor's screen for the text the editor has now.
- *Stratification* is a fixpoint with a round bound that doubles as cycle
  detection: right if it accepts exactly the programs without a primed cycle.

The hazards behind these sentences, each at its line and with the property that
watches it, are listed in `PROJECT.json`.

## 2. Modules

| module | models | notes |
|---|---|---|
| `DLTheory` | rules, evaluation and completion of `dl.c` | pure operators; also the round-based reference `RefDelta`, `RefPart` |
| `DLSolve` | builder API and solver with the order of evaluation left open | the abstract specification of the solver |
| `DLDrivers` | `dl_solve`, `dl_solve_scc`, `dl_solve_wl`, `complete_pass` as loops | implements `DLSolve` |
| `DLSchedule` | the component order a schedule is built from | shared by `DLDrivers` and `DLCol` |
| `DLTarjan` | `dl_tarjan` frame by frame, `dl_group_by_comp` | the contract `DLSchedule` relies on |
| `DLFamily` | what a columnar family promises each entity | the abstract specification of `DLCol` |
| `DLCol` | `dl_col.c`: flat bodies, watermarks, indices, bit rows, applicability rows | implements `DLFamily` |
| `DLTheoryProofs` | lemmas about evaluation, completion, dependency, the limits of the rounds, and two theories that agree on part of their atoms | no theorem of its own; the base of the solver's and the step's proofs |
| `DLDriversProofs`, `DLTarjanProofs`, `DLColProofs` | theorems about `DLSolve` and the schedules of `DLDrivers`, about `DLTarjan`, about `DLCol` | |
| `Stratify`, `StratifyProofs` | `stratify_steps` and theorems about it | |
| `StepTheory` | the theory one step is solved on, guards, split narrowing, action status | pure operators over `DLTheory` |
| `WorldStep`, `WorldStepProofs` | `world_step` on the scalar path, host edits and subscriptions between steps, and theorems about them | |
| `WorldCache`, `WorldCacheProofs` | judgment and step families, matched layer, views, fact index upkeep, and theorems about them | families abstracted to their inputs |
| `Story` | what the compiler grounds a story to: rules, actions, binders, superiorities, bands, exclusivity | pure operators |
| `StoryCheck` | the compiler's conflict checks, orphans and caps | schema-level unification, not grounding |
| `LaneFamilies`, `StepLanes` | the lane families the compiler emits, for judgments and for whole steps, per split value | symbolic theories over `DLTheory` |
| `Lanes` | a compiled world: queries and steps through lanes, mixed or scalar | composes the four above |
| `Scene`, `Platform` | `scene.c`, `iface.c`; `platform.c`, `spec.c` | pure operators over a scene and a platform record |
| `Session`, `SessionProofs` | `runtime.c`, `purecart.c`, the player's loop and save file, and theorems about them | composes `Scene` and `Platform` over a world seen from outside |
| `Json`, `Lsp` | JSON strings; the language server and an editor over two pipes | |
| `MC*` | small instances for TLC | |

**Solver.** A literal is a number, `2 * atom + neg` as in the code; a theory is a
sequence of rules, a set of superiority pairs and a set of facts. `DLSolve` has the
phases of `dl_solve` (`build`, `delta`, `part`, `done`) and inside a layer the
alternation of `sweep` and `complete`. `DecideDelta` and `DecidePart` are one
successful call of `eval_delta` / `eval_part`; `CompleteDelta` and `CompletePart`
one component refuted by `complete_pass`. `DLDrivers` adds the loop variables of the
three drivers, the explicit stack with its `inq` flags included; its steps map to
`DLSolve` steps or stutter, checked as the property `ImplementsDLSolve`.
Component numberings are taken from the contract of `dl_tarjan` (reverse
topological), which `DLTarjan` checks against the code's explicit-stack version.

**Columns.** `DLFamily` has the caller's operations and one atomic solve that gives every
entity the verdicts a theory of its own would get. `DLCol` keeps what the code
keeps: rule bodies as slices of one array that end where the next begins, a
watermark of three counts, indices compiled under the dirty flag, a status as two
bit rows over entities and the unused tail of the last word, and rows of
applicability that are trusted once decided for everyone. One step is one literal
visited in a sweep or one component in a completion. `ImplementsFamily` is the
refinement, with the rules decoded from the flat array.

**Step.** `StepTheory` builds the theory the way `build_step_family` does: judgment
rules, inertia for each written fluent, a causal rule per effect with the generated
superiorities, facts for fluents and guards, minted facts for primed guards.
`WorldStep` cuts `world_step` where it can reject: `RefuseStep` (unknown action,
dead under the split, exclusive actions), `BeginStep`, one `SettleStratum` per
stratum, `ContestedNumber`, `ContestedFluent`, `CommitStep`. The history variable
`pre` is the world the call found. Numbers accumulate item by item in source order
with receipts, as the code does; the properties compare them with the order-free
value.

**Caches.** In `WorldCache` a cached family is the set of rules, the superiorities and
the facts it was built from, with the versions it was built at. `RefreshMatched`,
`EnsureJfam`, `EnsureFam` and `EmitFamily` are the functions of the same names,
composed in the actions in the order the code calls them. Plain worlds may be edited at any
time; in a world with a matcher the building calls come in the compiler's order.

**Stories and lanes.** A story is a parsed one: declarations, rules, superiority pairs,
bands, actions with binders, exclusivity groups. `Story` grounds it as the compiler
does; `LaneFamilies` and `StepLanes` emit the symbolic theories the compiler emits in its
last section, with the marking that decides what lanes (`lane_mark`, the joins, the
per-value halves and the residue). In `Lanes` a family holds the columns of the one
iteration solved last (`solved`, `it`), loads them, asks other families for what it
imports, and is invalidated by edits and steps; a step takes the path `world_step`
would take, and its outcome is compared with the scalar family over the full schema.
`Lanes` takes columns as independent theories, which is what `DLFamily` promises and
`DLCol` is shown to keep.

**Player.** `Session` has one action per call of the player's loop: `Tick` is `rt_step`
(sample, declare targets, propose, dispose or feed, step, log, rebuild), `Frame`
`rt_render`, `Load` `rt_load`, `Quit` the end of a process with or without `rt_save`
and the start of the next. The world is an operator, `StepOf`. `Scene` and `Platform`
are the functions those calls run: menus, labels, slots, targets, hits, letterbox,
focus.

**Language server.** `Serve` is one frame read and dispatched; documents are byte
strings, positions are converted both ways, the span model and the two call walks are
those of the code. The editor is the other process: it edits, asks, and receives
in any order the two pipes allow. `Json` does the two passes over a string (size, then
fill).

**Stratification.** `Stratify` is the sweep, rule by rule and round by round, with
the bound `npgf + 2` and the choice of the fluent the error names. The reference
`Stratified` is written from the requirement (a reader is above every writer of a
number it reads primed, level with a boolean's), not from the loop.

## 3. Runs

| run | question | instance |
|---|---|---|
| `dl_conflicts` | are definite results the least model, is nothing contradictory proved, do proofs stay justified, does only an attacked cycle stall? | 2 atoms, any 3 of 9 rules, 2 superiorities of any shape, 1 fact |
| `dl_drivers` | do the three drivers implement the open solver within their arrays, and does the order of completions show? | 3 atoms, any 4 of 6 rules, and 5 rules with two loops feeding each other, in any rotation; two numberings |
| `dl_tarjan` | are components mutual reachability in reverse topological order? | all graphs on 4 nodes with out-degree at most 2 |
| `dl_col` | does a family edited between solves keep its promise to every entity? | 2 entities, 1 tail bit, 3 atoms, 2 static rules, up to 2 of 4 above the watermark, 2 solves |
| `stratify` | is an accepted program stratified, and minimally? | all lists of up to 3 rules over 2 numbers and 2 booleans |
| `stratify_order` | are only cycles rejected? (no) | the orders of one acyclic program of 4 rules |
| `step` | inertia and effects, strata, receipts, atomic rejection, action status, the split as a hint, subscriptions, minted guards | 4 of 10 rules over one to three strata, a guard over a number nothing writes among what they read; 3 of 8 rules under a split; two steps with host edits and 1 subscription |
| `world_cache` | are cached answers those of a fresh world? | 2 fluents, 1 static rule, 1 superiority, 1 matched rule, 2 islands, any 8 calls |
| `lanes` | when does it show which path answered? is an accepted story ever contested, and when silently undecided? | 20 stories of two persons, 3 edits or steps each, any queries between them |
| `lanes_const` | the same with a conclusion about a named person in a body (no) | one story of two rules |
| `session` | is the log the history, does a load restore, is what is shown offered, hit and applicable? | pure and scripted cart, 3 ticks, 2 runs of the player, frames up to 2 ticks late, three window sizes |
| `lsp` | are answers places on the screen, calls symmetric, texts whole, squiggles settled? | 2 documents, 2 texts with characters of two and four bytes, 3 messages (`MaxMessages`), pipes of 2 |

Why these bounds suffice to be interesting: three rules are the least with which team
defeat, an attacker and a defender differ; five rules are what two loops reading each
other through an attack need, and four nodes the least with nested cycles that merge
on return. A step program of four rules can have a writer, a reader of the
next value and a clash in different strata. Eight calls are enough to build, answer,
edit, trace and answer again on either kind of world. Two entities and a tail bit
separate a row, its complement and its mask; two solves are the least with
something left over from one. Two persons make a join, an import and an iteration
that is not the cached one, and every pair of argument patterns that unify or not. Two
runs of the player are a save and a load; three messages put a change or a close
between a request and its answer.

Bounds of the models that the code does not have: `MaxSups`, `MaxFacts`, `MaxTick`,
`MaxSubs`, `MaxCalls`, `MaxSolves`, `MaxEdits`, `MaxTicks`, `MaxRuns`, `MaxLag`,
`MaxMessages`, `MaxQueue`, and the `RuleLists` a theory may hold. `MaxInstances`,
`MaxTargets`, `MaxSlots`, `MaxMenu`, `MaxActions`, `MaxFx` and `MaxDiags` are caps of the
code at small values. `Lanes` is checked up to a `VIEW` without `worlds`, a function of the program
and the late rules. Deadlock is off where a run simply ends (a returned pass, a spent
bound).

Fairness: inside the engine there is one thread, and a call once entered runs to its
return, so `WF(Solve)`, `WF(DSolve)`, `WF(Running)` and the fairness of `DLTarjan` say
no more than that the thread keeps executing the function; nothing is assumed of the
caller, who may never solve or step again. In `Session` the player's loop keeps
ticking and drawing (`WF(Play)`, `WF(Frame)`); loading and quitting are up to the user.
In `Lsp` the server's loop reads while it is up and there is something to read
(`WF(ReadFrame)`, the part of `Serve` that takes a message), and so does the editor.
`ImplementsDLSolve` and `ImplementsFamily` include that a solve returns, and
`SquigglesSettle` is the liveness of the language server: if the editor stops typing,
what it shows becomes the diagnostics of its last text.

### Disagreements found

Two runs end in a violation, each of a sentence in the repository:

- `stratify_order`: an acyclic program is rejected when primed reads run through
  several booleans and the rules are written consumers first. The round bound
  counts primed numeric guards only (`lang/story.c:5310`).
- `lanes_const`: a body atom with a constant argument over a predicate that rules
  conclude gets a column marked as concluded in its family, but no rule of the family
  concludes it: the lane answer is refuted where the scalar one is proved
  (`lang/story.c:9660`, against `state/world.h:655`).

Three more are part of what passing runs check: the property says what the code does
there, the instance has the case, and without the exception the run fails.

- *A primed guard over a number no rule writes* (`PrimedGuardsReadTheCommit`, run `step`).
  Such a guard floors nothing in `stratify_steps` (`primed_read_floor`), so its reader may stand in
  the first stratum; but the guards of a stratum are minted after its solve
  (`state/world.c:4473-4485`, where the comment says that every reader "is above it by
  construction"). With one stratum no solve follows: the guard stays open both ways and the
  reader never fires, whatever the number is (`MintedTooLate`). With more, the reader misses
  the solve of its own stratum, which settles its numbers, and may fire in the last one:
  `NumbersFollowFinalFirings`, `ReceiptsReconcile` and `SplitIsOnlyAHint` speak of the numbers
  that settle in time (`SettlesInTime`).
- *A split step, or a `for each` cast twice* (`StepIsTheScalarStep`, run `lanes`). A lane action
  that reads the next value of a global gets its current one (`lang/story.c:11084-11087`), though
  the residue may write it in the same step; `tests/test_split.c:1-3` calls the split a hint
  with "ZERO semantic content" (`ReadsMovedGlobal`, story `Toll`). Two entities casting one `for
  each` action in one step apply it once through a routed family, whose cast is one column
  (`state/world.c:2709`), and twice in the scalar step (`CastOnce`, story `Camp`). The property says that every
  other step is the scalar one, and that these two are the scalar step of the story that reads such
  globals now, with one of the casts.
- *A silent null* (`SilentNullIsWarned`, run `lanes`). `cp_team_covers` asks whether some rule with
  the head's predicate and sign beats the other side (`lang/story.c:9386`), not whether it is about
  the same entity or applies: with `c > b`, `c` about bob only, `a` and `b` about ann are both refuted and nobody
  is told (`OrderedByAnother`, story `Distant`). And a pair with one strict rule counts
  as decided (`lang/story.c:9423`, "strict wins: decided"), though a strict rule whose body holds by default
  only has no priority in the solver (`StrictByDefault`, story `Sworn`; with a body of facts it
  does win, story `Lawful`).

Others met while modelling, which no run shows:

- *Solver and step.* A strict loop can be completed in the defeasible layer while its definite
  status is undecided (`logic/dl.c:443`). In a columnar family the marks a
  definite completion leaves make a trace say "no support" of a literal that was
  proved (`logic/dl_col.c:421`, `:864`; the scalar solver clears them, `logic/dl.c:444`).
  After a genuine cycle the error may name a fluent only downstream of it
  (`lang/story.c:5347`). A numeric effect
  added to a rule after a first step is ignored, since nothing invalidates the step
  scaffold (`state/world.c:1956`, `:4308`). An initial value outside its range is left alone
  under `split` and clamped without it. An action with a failing current-state rule and a rule on
  the next state is reported `BLOCKED` and may fire (`state/world.c:2176`).
- *Stories and lanes.* Superiority edges over the cap are dropped without a
  word (`lang/story.c:8625-8630`), where `lang/story.c:7501-7505` promises loud failures. A ramification that
  denies what it reads in the next state contests every step it applies in; the pair checks look at two effects, not at
  an effect and its own condition, and no story of the `lanes` run has one. The comment at `state/world.c:4068` says a routed numeric step builds no receipts; it does.
- *Player.* Two ticks without a frame leave entities out of the targets (`runtime/scene.c:562`;
  `ChoicesAreReachable` speaks of a scene just drawn, so no property watches this), and a cue sounds again on every tick that takes no step (`runtime/purecart.c:118`). A log has one line
  per step that was taken and not, as `runtime/runtime.c:124` says, one per tick. Two loads
  at tick 0 append one history to the other. After a feed has run out the input stays
  ignored. Ids are cut at 48 bytes and targets at 64. `scene_say` strips prefixes, which
  can make two labels equal. Stopping one sound stops all voices of the SDL backend, whose mixer
  reads the voice table without a lock (`platform/backends/sdl3.c:339`).
- *Language server.* The end of input after `shutdown` exits 0 without `exit`. Arguments of an atom carry
  the id of the rule, where the header says -1. Rule labels and action names have no
  declaration to go to.

## 4. Proofs

Proved by TLAPS, for every value of the constants:

| theorem | statement |
|---|---|
| `TypeCorrect` (three modules) | `DLSolve`, `Stratify` and `WorldCache` keep their types |
| `ProofsJustified` | `ProofsStayJustified` |
| `Coherent` | `Coherence` |
| `DefiniteLeastModel` | `DefiniteIsLeastModel` |
| `CompletionUnfounded` | `CompletionIsUnfounded`: what the cycle rule refutes ends without support |
| `OrderInvisible` | `Confluence`: a finished solve shows the verdicts of the round-based reference, whatever the order of decisions and completions |
| `StallsExplained` | `StallsComeFromAttackedCycles` |
| `EdgesGoDown`, `ComponentsExact` | `ReverseTopological`, `ComponentsAreMutualReach` |
| `StackNeverOverflows` | `StackFits`: the worklist of `dl_solve_wl` fits its array |
| `SchedulesMissNothing` | the sweep and the worklist stop only at a fixpoint of the layer: `SweepDone` of `DLDrivers` is `SweepEnds` of `DLSolve` |
| `SchedulesAreTheSolver` | the safety half of `ImplementsDLSolve`: all steps of the three schedules and of the completion pass are steps of `DLSolve` or stutter |
| `DriversAgree` | `Confluence` again, of `DLDrivers`: whichever schedule runs, the answers are the reference's |
| `AppRowsStaySound` | `AppRowsSound`: an applicability row is never ahead of the columns |
| `ColumnsAreTheFamily` | the safety half of `ImplementsFamily`: every step of `DLCol` is a step of `DLFamily` or a stutter, so a solve gives each entity the verdicts of a theory of its own |
| `AcceptedStratified` | `AcceptedIsStratified` |
| `LeastStrata` | `StrataAreLeast`, in the strength of all natural-number solutions |
| `IndexIsRight`, `MatchedLayerIsRight` | `IndexMirrorsTheState`, `MatchedLayerFollowsTheState` |
| `TraceRulesAreRight`, `JudgmentsAreRight` | `TraceRulesExplainCurrentRows`, `JudgmentsAreCurrent` |
| `StepsAreRight` | `StepsUseTheCurrentRules` |
| `StepsAreSolves` | the types of `WorldStep`, and what the solve at hand is at every point of a step (`WorldInv`) |
| `RejectionIsInert` | `RejectedStepChangesNothing` |
| `SubscriptionsFollow` | `SubscriptionsFollowTheState` |
| `FluentsFollow`, `ActionsFire` | `FluentsFollowTheFirings`, `ApplicableActionsFire`, of a separate program |
| `PrimedGuardsRead` | `PrimedGuardsReadTheCommit`, of a separate program whose guards are stratified: a guard in time is the comparison on the committed number, one minted too late is never proved |
| `NumbersFollow`, `ReceiptsAddUp` | `NumbersFollowFinalFirings`, `ReceiptsReconcile`, of a separate and stratified program, from a store in its declared ranges; of the numbers that settle in time, where the properties say so |
| `SplitIsAHint` | `SplitIsOnlyAHint`, under the same hypotheses |
| `LogTellsAll` | `LogIsTheHistory` |
| `SavesLoad` | `LoadRestoresTheSave` |
| `SubmissionsApply` | `SubmitsWhatApplies` |

*Solver.* `ProofsStayJustified` is not inductive: a proof uses definite statuses, so
they must no longer change once defeasible statuses exist. `JInv` adds the types and
that `part` is unsolved before phase `part`. A step extends a status (`Extends`),
and what proves a literal is monotone in it (`PartProvesMonotone`). Coherence then
needs no induction: among the applicable rules for and against a literal, an
acyclic superiority relation has an undefeated one. For the least model `DInv` has
three parts: what is proved belongs to every closed set (`DeltaWithinModels`), every
status has its reason (`DeltaSound`: a refuted literal has a refuted literal in each
of its strict rules), and after the first sweep no undecided literal has a proof
(`DeltaComplete`). The last two survive a completion because it only refutes; at the
end of the layer they make the proved literals a closed set, the first makes it the
least. `UInv` adds to `DInv` that the defeasible refutations have their reasons too, that
while a completion runs no undecided and unattacked literal has a proof, and that only
unattacked literals are completed; `CInv` adds that
every status is one of the reference's (`BelowReference`): a completion refutes only
what the limit of the rounds leaves undecided within its component, and a sweep
decides nothing the rounds do not. The reference is a recursive function, which TLAPS
does not unfold by itself: `DLTheoryProofs` finds its limits by the least round (the
least counterexample) and shows them to be fixpoints that contain every sound set of
statuses. At the end a literal still undecided has, by the same invariant, an
undecided component that depends on itself and is attacked.

*Schedules.* The worklist is a sequence of distinct literals with `inq` its range; a
popped literal is taken off both and only literals outside `inq` are pushed, so the
stack is an injection of its indices into the literals. That the worklist misses
nothing is `WorkOK`: off the stack nothing can be decided. A decision on `q` changes
the evaluation of the dependents of `q` only (`DeltaLocal`, `PartLocal`: a rule for a
literal or its complement that reads `q` makes it one), and those are queued unless
they already are, or are decided. `ScanOK` says the same of the literals behind a scan
that changed nothing.

The component schedule does not look at a literal again once its component is behind it, so
it rests on what the scaffold was built from. `RInv` adds to the types that the cached
components are those of the present theory while a solve runs (`CompiledOK`, `SccsOfTheory`),
that the literals of the components behind the schedule, and the listed ones of the component at hand,
have no verdict (`SccOK`), and that the components a completion pass has passed without
refuting anything still cannot be completed (`PassOK`). A decision on `q` leaves the earlier
components alone because what reads `q` is in the component of `q` or in a later one, which is the
contract of `dl_tarjan`; `ScheduleLists` says that the lists cover every literal, and the section
on numberings that such a numbering of components exists for every theory: every set of
components has one that depends on no other in the set, so components can be taken off one by one.
What leaves a sweep or a layer is then at a fixpoint, and `SchedulesAreTheSolver` maps every step.
Since the steps are those of `DLSolve`, its theorems hold of the schedules; `DriversAgree` draws that
conclusion for `Confluence`. That a schedule ends is liveness and left to TLC.

*Columns.* `AppRowsSound` needs to know what the rows are computed from. `Shape` describes the
flat store: bodies lie one after the other (`Slices`), the watermark between two rules cuts it between
their bodies (`Watermark`), and every literal named has a row (`Roomy`); every operation of the
caller keeps it, the rewind and the growth of the status included. `Columns` says that what a column holds stays
within the bits of the family, and `AppRows` that rules compiled under the dirty flag are the ones
whose rows are trusted, that a row is only ever set for entities whose columns carry it, and that no solve begins with rows of the
last one. A step of the solver only adds to the columns (an entity decided stays decided), so a
sound row stays sound; an edit marks the family dirty, and the next solve clears the rows.

`ColumnsAreTheFamily` reads off the columns what one entity sees. Looked at through the bits of one
entity, the compiled indices are those of the theory the flat store decodes to, a visit of
a literal decides for the entity what `DLTheory` evaluates to (the rows it may take a cached answer
from being sound), and a look at a component refutes for it what the cycle rule does. `SolveInv` adds
to the invariant above that the indices are those of the rules unless the family is dirty
(`IndexOK`); that literals without a row hold no bits; that a layer in work is sound and below the
limit of the reference's rounds at every entity (`Layers`); that no literal behind a sweep that
changed nothing awaits a decision at any entity (`SweepOK`); and that no component behind a
completion pass that refuted nothing completes at any (`PassOK`). A decision for some
entities leaves the literals of earlier components alone, as in the schedules above. A layer that
stops is then at its limit at every entity (the same lemmas as `Confluence`), which is what the
one step of `DLFamily` writes; `FamilyInside`, `FamilyReturn` and `FamilyEdit` map the steps within a
solve, the one that ends it, and the caller's. That a solve does end is
liveness and left to TLC. TLC checked `SolveInv` on the instance of the `DLCol` run before it was
proved.

*Components.* `WalkInv` follows the explicit stack of `dl_tarjan`: numbers are given in
order (`Numbering`), the frames are a path of the graph and their nodes lie on the
node stack in that order (`FramesInv`, `FramesReach`), a low-link names a node that is
reached and still stacked (`Links`), every edge a frame has passed leads to a finished
component or is counted in a low-link (`EdgesSeen`), and a finished component is
connected (`ComponentsConnected`) and below every component that reaches it
(`ReverseTopological`). Reachability is stated by closed sets, so that no path has to
be built. A frame whose low-link is its own number then has no way down the stack, and
what lies above it is one component. `GroupInv` says that the grouping pass has laid
out the members so far in the order of components and of nodes.

*Stratification.* `SInv` holds the types and, for rules already visited in a quiet
round, that their constraints are met; a quiet full round therefore leaves a
stratified assignment. `LeastStrata` carries the invariant that no stratum exceeds
any solution, which every raise preserves.

*Caches.* None of the five is inductive. `CInv` says of the cache that the index is the
state's even while the layer above it is stale (a re-ground reuses it), that a family
with the present version holds the rules that are in the world now, stale or not (so a
refresh that finds nothing to do may keep it), that a kept prefix with the present
static version is the present prefix, and that no family exists between the
checkpoint and the callbacks. It is stated of a cache value (`Good(c)`), because a
call pushes one through several functions (`world_why`: declare, refresh, emit,
materialise, emit, solve); each function has its lemma, each action one that chains
them.

*Step.* `WorldInv` holds the types and what the call has done so far: the split is the
current value's, the minted guards are those of the settled strata with the truth of the
numbers settled then, and the last columns are the solve of the family on the state
found, the actions and the guards minted below the stratum at hand. Everything about
solves goes through two lemmas. `LocalVerdicts`, from the
lemmas about the rounds, says that two theories give the same verdicts on a set of
literals when they mirror each other there: the same rules, superiorities and facts, up
to rules that cannot fire, and the same loops; `SameVerdicts` is the case of a set closed
under dependency. From them follow that the columns of a query are the
columns of the step on the atoms of judgments (`ActionsFire`), that the columns of a
fluent's two next literals mirror the causal rules of that fluent and its inertia
(`FluentsFollow`), and that leaving out what is dead under the current split value changes
no column a live rule reads (`SplitIsAHint`).

The numbers need a second invariant, `NumInv`: within a step every number of a stratum
already settled is `SettledAs` the rules make it that fire in the solve of *its own*
stratum, the next values its effects read being settled too, and so is its receipt
(`NumbersSettle`). `SettleNumbers` shows that a stratum establishes it. It unfolds the two
folds of `Accumulate` position by position (`PositionsScanned`, `ByPositions`): after each
effect the accumulator holds the join of the values given so far, the sum of the deltas and
a receipt whose kept lines add up to it (`AccumulatorOf`), whatever the order; `SumGrows` and
`AddedLast` say what one more term does to a sum over a finite set. A number copied through
because of the split is one no rule that fires writes. At the commit `EarlyFirings` closes the
gap between the solve of the stratum and the final one: a rule of stratum k reads only
literals whose loops, rules and facts are alike in every later solve, so it fires in all of
them or in none. The one exception is a rule of the first stratum that reads a guard over a
number nothing writes, minted after the first solve: numbers of that stratum are claimed
only where there is no such rule or no later solve (`InTime` in the lemmas, `SettlesInTime` in the properties).
That a guard minted too late is never proved is `OpenGuard`: no fact states it and no rule concludes it.

Three hypotheses are stated, two on the program and one on the store. `Separate`: every atom
plays one part, no judgment concludes a guard, and no strict one a fluent. The compiler builds
primed atoms and guards under names an author cannot write; but a judgment, or a state, that
has the name of an action shares its atom (`lang/story.c:8369` interns the action's name), and
then a judgment decides the action's own column. `Stratified`: a reader of a primed guard
(`GuardsStratified`) or of a next value in an effect is above every writer of the number, and a
reader of a boolean's next value no lower than its writers; `AcceptedStratified` proves this, and
no more, of the compiler's pass. In particular it does not put the reader of a number that nothing
writes above the first stratum, and the theorems do not suppose it. `InRange`: the numbers the step found lie in their declared ranges. A
commit clamps, `world_set_num` does not, so a host edit can leave a number outside. A step that owns it then clamps it, but one under a split that
does not write it copies it through as it is, where the comment says "the stored value is
already clamped" (`state/world.c:4438`): there the split would show. `MCWorldStep` checks by
an assumption that every program, store and edit of its run satisfies the three, so no theorem speaks of worlds the run does not have.

*Session.* `LogInv` says that the world is the fold of the log over the initial world. `DiskInv` says the same of
the saved file and the world it was saved from, `FeedInv` that while the saved
lines are fed the log is the part fed so far. The fold of a log is unfolded line by line in
`HistoryOfOneMore`, again by a least counterexample. `MenuInv` says that the scene of a pure
cart has a menu each of whose rows, if it submits anything, submits an action that applied in the
world the scene was built over (`MenuHonest`), and that this is the world it is shown with: a tick rebuilds the scene after the
step it commits. `BuildMenuHonest` follows the rows through `Distinct`, `VerbRows` and `BuildMenu`; what a region
off the menu submits, `PickAction` takes from the actions that apply.

The assumptions are the named ones in the modules: `NAtoms` is a natural number, pools
are sets of rules over its literals, programs are finite sequences of rules whose
effects and primed conditions are about declared fluents, a
cart's actions are a finite list and its menu has a natural number of rows, a host submits and sets
declared atoms and sets numbers to integers, a world has finitely many matchable instances and none of them is a
static rule, a graph has at least one node.

Only model-checked: liveness (termination of `DLDrivers`, `DLCol` and `Lsp`, the fair
halves of `ImplementsDLSolve` and `ImplementsFamily`); `ChoicesAreReachable` and `ClicksHitWhatIsShown` of
`Session`, which need what a fold over boxes or labels computes; `Lsp`; and the modules of
stories and lanes, which use recursive operators, where the prover loses its arithmetic.
What a recursive function or a fold computes is within reach where one recursion step
at a time is enough (the rounds of the reference, the fold of a log, the scan of the
rules); in general induction over data is not. The types of `DLSolve`, `Stratify` and `WorldCache` are
proved and not repeated in a run.

## 5. Not modelled, and the plan

Left out of the modelled parts: `dl_solve_multi`; the text of traces; dynamic bounds,
relation providers in a step, expression guards and draws; the receipts of a rejected
step; number declarations and atom-to-column maps in the caches; lexing, parsing, kinds, value
layers, roll sites and lazily matched rules in stories; the limits of the lane
emission's tables and a lane setup that fails half way (`state/world.c:3909`); parsing the interface
artifact, gauges, word wrapping and drawing; JSON objects and the Content-Length framing. Numbers
are mathematical integers: the code's `long` sums have no overflow check and overflow
would be undefined. `WorldStep` answers queries from the state, `WorldCache` shows
that is what the caches do; `Session` takes the step as an operator, which `WorldStep`
details.

Not modelled at all: the why-trace (it renders and changes nothing), stock grid and core
containers (below), bindings, editors, examples and tests.

Order of the work left:

1. The matcher's join (`m_match_rec`) against all substitutions; the fact index with its
   buckets and swap-remove.
2. Core containers (intern table with its probe and rehash), the stock grid against a
   reference distance.
3. Proofs: the properties of `Lsp`, in a module of their own; `ChoicesAreReachable` and
   `ClicksHitWhatIsShown`, with lemmas about the folds that lay out a scene.
