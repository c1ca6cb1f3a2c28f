------------------------------ MODULE WorldStep -----------------------------
(***************************************************************************)
(* One transition of a world: world_step of src/state/world.c on the N=1   *)
(* path, with the value split and the strata, the numeric commit pipeline, *)
(* burst cues, the changeset, receipts and subscriptions.                  *)
(*                                                                         *)
(* world_step is one call, but it rejects at five points: the actions of   *)
(* this module are the stretches between them, so that what a rejection    *)
(* leaves behind can be looked at.  Lanes, dynamic clamp bounds, providers *)
(* and expression guards are left out.                                     *)
(***************************************************************************)
EXTENDS StepTheory

CONSTANTS Stores(_),  \* the stores <<vals, nums>> a world of a program starts from
          Sessions,   \* programs a host edits, subscribes to and steps repeatedly
          ActionSeqs, \* what a host may submit to one step
          HostFluents,\* fluents world_set is called on between steps
          HostEdits,  \* values world_set_num is called with
          SubLits,    \* literals a host may subscribe to
          MaxSubs,    \* bound on subscriptions
          MaxTick     \* bound on the committed steps of a session; else one

\* What a store holds, what a host may submit and what it may set: world_step and
\* world_set take declared atoms only.
ASSUME HostAssumption ==
  /\ \A p \in Programs : Stores(p) \subseteq [Fluents -> BOOLEAN] \X [Nums -> Int]
  /\ Sessions \subseteq Programs
  /\ ActionSeqs \subseteq Seq(Actions)
  /\ HostFluents \subseteq Fluents
  /\ HostEdits \subseteq Int
  /\ SubLits \subseteq Lits

VARIABLES prog,     \* the rules: jrules, jsups, srules
          vals,     \* w->vals
          nums,     \* w->nums[].value
          tick,     \* w->tick
          subs,     \* w->subs: [lit, last, live]
          pc,       \* where world_step is, "idle" between calls
          acts,     \* the submitted actions
          split,    \* the split value the step runs under
          st,       \* cur_stratum
          pg,       \* w->pg_cur: minted primed guards
          nextnum,  \* scratch next values
          rcpt,     \* w->rcpt
          solved,   \* the columns of the last solve
          emitbuf, bdelta, ndelta, sedge,  \* what the step reports
          rc,       \* the last call's result
          pre       \* history: the world as world_step found it

world  == <<prog, vals, nums, tick, subs>>
call   == <<acts, split, st, pg, nextnum, solved>>
report == <<emitbuf, bdelta, ndelta, sedge>>
vars   == <<world, pc, call, rcpt, report, rc, pre>>

TickBound == IF prog \in Sessions THEN MaxTick ELSE 1
ActSet == {acts[k] : k \in DOMAIN acts}
Store  == [vals |-> vals, nums |-> nums, tick |-> tick, subs |-> subs]

-----------------------------------------------------------------------------
(* Checks before the solve.                                                *)

\* The trigger map (#119), and its narrowing by the split value (#121).
HasTrigger(p, a) == TriggeredBy(p, a) # {}

HasLiveTrigger(p, v, a) == \E s \in TriggeredBy(p, a) : LiveUnder(p, p.srules[s], v)

\* The (group, key) memberships of an action, tagged with it: one chain of excl_of.
Memberships(a) == {<<x[1], x[2], a>> : x \in {y \in Excl : y[3] = a}}

Clashes(seen, m) == \E x \in seen : x[1] = m[1] /\ x[2] = m[2] /\ x[3] # m[3]

\* The scan over the submitted actions: a membership already seen with another
\* action refuses the step; the same action twice is one action.
Conflicts(as) ==
  LET look(s, a) ==
        [seen |-> s.seen \cup Memberships(a),
         found |-> s.found \/ \E m \in Memberships(a) : Clashes(s.seen, m)]
  IN  FoldLeft(look, [seen |-> {}, found |-> FALSE], as).found

Refused(as) ==
  \/ \E k \in DOMAIN as : ~ HasTrigger(prog, as[k])
  \/ \E k \in DOMAIN as : ~ HasLiveTrigger(prog, CurSplit(prog, vals), as[k])
  \/ Conflicts(as)

-----------------------------------------------------------------------------
(* The numeric tier.                                                       *)

Writers(n) == {s \in DOMAIN prog.srules : Writes(prog.srules[s], n)}

\* Mutant: a fluent settles with its lowest writer.
NumStratumOfLowest(n) ==
  IF Writers(n) = {} THEN 0 ELSE Min({prog.srules[s].stratum : s \in Writers(n)})

\* num_stratum: the highest stratum of a writer.
NumStratum(n) == Max({0} \cup {prog.srules[s].stratum : s \in Writers(n)})

NStrata == Max({0} \cup {prog.srules[s].stratum : s \in DOMAIN prog.srules}) + 1

\* eval_expr on the pre-step store; EXPR_LOADN sees settled lower strata.
EvalRHS(rhs) ==
  CASE rhs.kind = "const" -> rhs.arg
    [] rhs.kind = "load"  -> nums[rhs.arg]
    [] rhs.kind = "loadn" -> IF NumStratum(rhs.arg) < st THEN nextnum[rhs.arg]
                             ELSE nums[rhs.arg]

Signed(op, v) == IF op = "SUB" THEN -v ELSE v

\* num_join: the winning constant and whether the register is contested.
Join(mode, a, v) ==
  CASE ~ a.have                     -> [a EXCEPT !.have = TRUE, !.val = v]
    [] a.have /\ mode = "MIN"       -> [a EXCEPT !.val = Min({a.val, v})]
    [] a.have /\ mode = "MAX"       -> [a EXCEPT !.val = Max({a.val, v})]
    [] a.have /\ mode = "REGISTER"  -> [a EXCEPT !.conflict = a.conflict \/ v # a.val]

Item(s, op, v, defeated) == [rule |-> s, op |-> op, amount |-> v, defeated |-> defeated]

NoContribution == [have |-> FALSE, val |-> 0, conflict |-> FALSE, delta |-> 0, items |-> <<>>]

\* What effect e of rule s does to the accumulator a of fluent n, under the columns
\* cols: it counts if its rule fired, and is recorded as defeated if only its action
\* was submitted.
Contribute(a, n, cols, s, e) ==
  LET r  == prog.srules[s]
      ef == r.neffs[e]
      v  == EvalRHS(ef.rhs)
  IN  IF ef.num # n THEN a
      ELSE IF RuleFired(r, ActSet, cols)
        THEN IF ef.op = "ASSIGN" THEN Join(prog.decl[n].merge, a, v)
             ELSE [a EXCEPT !.delta = @ + Signed(ef.op, v),
                            !.items = Append(@, Item(s, ef.op, Signed(ef.op, v), FALSE))]
      ELSE IF r.action # NoAction /\ r.action \in ActSet
        THEN [a EXCEPT !.items = Append(@, Item(s, ef.op, Signed(ef.op, v), TRUE))]
      ELSE a

\* The effects of one rule, in its order.
ContributeAll(a, n, cols, s) ==
  FoldLeftDomain(LAMBDA b, e : Contribute(b, n, cols, s, e), a, prog.srules[s].neffs)

\* The scan of one stratum, in the order of the rules, as it concerns fluent n.
Accumulate(n, cols) ==
  FoldLeftDomain(LAMBDA a, s : ContributeAll(a, n, cols, s), NoContribution, prog.srules)

\* The retraction onto the declared range, low bound first.
Clamp(n, v) ==
  IF ~ prog.decl[n].ranged THEN v
  ELSE LET lo == Max({v, prog.decl[n].min}) IN Min({lo, prog.decl[n].max})

\* num_commit: base, deltas, clamp.
Commit(n, a) == Clamp(n, (IF a.have THEN a.val ELSE nums[n]) + a.delta)

\* Mutant: the receipt starts from the old value although the fluent was assigned.
ReceiptOfOldBase(n, a) ==
  [base |-> nums[n], raw |-> nums[n] + a.delta, applied |-> Commit(n, a),
   items |-> (IF a.have THEN <<Item(0, "ASSIGN", a.val, FALSE)>> ELSE <<>>) \o a.items]

\* The receipt of n: the assignment first, then the contributions in scan order.
Receipt(n, a) ==
  LET base == IF a.have THEN a.val ELSE nums[n]
  IN  [base |-> base, raw |-> base + a.delta, applied |-> Commit(n, a),
       items |-> (IF a.have THEN <<Item(0, "ASSIGN", a.val, FALSE)>> ELSE <<>>) \o a.items]

CarriedReceipt(n) == [base |-> nums[n], raw |-> nums[n], applied |-> nums[n], items |-> <<>>]

-----------------------------------------------------------------------------
Init ==
  /\ prog \in Programs
  /\ \E s \in Stores(prog) : vals = s[1] /\ nums = s[2]
  /\ tick = 0
  /\ subs = <<>>
  /\ pc = "idle"
  /\ acts = <<>> /\ split = NoSplit /\ st = 0 /\ pg = <<>>
  /\ nextnum = [n \in Nums |-> 0]
  /\ rcpt = [n \in Nums |-> CarriedReceipt(n)]
  /\ solved = Unsolved
  /\ emitbuf = {} /\ bdelta = {} /\ ndelta = {} /\ sedge = {}
  /\ rc = "none"
  /\ pre = Store

\* world_set and world_set_num between steps; numeric edits are not clamped.
SetFluent(f, b) ==
  /\ pc = "idle"
  /\ vals[f] # b
  /\ vals' = [vals EXCEPT ![f] = b]
  /\ rc' = "none"
  /\ UNCHANGED <<prog, nums, tick, subs, pc, call, rcpt, report, pre>>

SetNum(n, v) ==
  /\ pc = "idle"
  /\ nums[n] # v
  /\ nums' = [nums EXCEPT ![n] = v]
  /\ rc' = "none"
  /\ UNCHANGED <<prog, vals, tick, subs, pc, call, rcpt, report, pre>>

\* world_subscribe: the level is read at once.
Subscribe(q) ==
  /\ pc = "idle"
  /\ Len(subs) < MaxSubs
  /\ subs' = Append(subs, [lit |-> q, last |-> Query(prog, vals, nums, q), live |-> TRUE])
  /\ rc' = "none"
  /\ UNCHANGED <<prog, vals, nums, tick, pc, call, rcpt, report, pre>>

\* world_unsubscribe: the slot stays.
Unsubscribe(h) ==
  /\ pc = "idle"
  /\ subs[h].live
  /\ subs' = [subs EXCEPT ![h].live = FALSE]
  /\ rc' = "none"
  /\ UNCHANGED <<prog, vals, nums, tick, pc, call, rcpt, report, pre>>

\* Every call first drops what the last step reported.
ClearReport == emitbuf' = {} /\ bdelta' = {} /\ ndelta' = {} /\ sedge' = {}

\* Rejected before any solve: an action without a (live) trigger, or two
\* actions of one exclusivity group.
RefuseStep(as) ==
  /\ pc = "idle"
  /\ Refused(as)
  /\ pre' = Store
  /\ acts' = as
  /\ ClearReport
  /\ rc' = "rejected"
  /\ UNCHANGED <<world, pc, split, st, pg, nextnum, solved, rcpt>>

\* Mutant: the minted guards of the last step are still there.
BeginStepStaleGuards(as) ==
  /\ pc = "idle"
  /\ tick < TickBound
  /\ ~ Refused(as)
  /\ pre' = Store
  /\ acts' = as
  /\ split' = CurSplit(prog, vals)
  /\ ClearReport
  /\ st' = 0
  /\ nextnum' = [n \in Nums |-> 0]
  /\ rcpt' = [n \in Nums |-> CarriedReceipt(n)]
  /\ solved' = Unsolved
  /\ pc' = "strata"
  /\ rc' = "none"
  /\ UNCHANGED <<world, pg>>

\* ensure_fam selects the family, npg_cur is reset, the receipts start afresh.
BeginStep(as) ==
  /\ pc = "idle"
  /\ tick < TickBound
  /\ ~ Refused(as)
  /\ pre' = Store
  /\ acts' = as
  /\ split' = CurSplit(prog, vals)
  /\ ClearReport
  /\ st' = 0
  /\ pg' = <<>>
  /\ nextnum' = [n \in Nums |-> 0]
  /\ rcpt' = [n \in Nums |-> CarriedReceipt(n)]
  /\ solved' = Unsolved
  /\ pc' = "strata"
  /\ rc' = "none"
  /\ UNCHANGED world

Owned == {n \in Nums : NumStratum(n) = st}

\* Outside the split's numeric write-set the stored value is copied through.
CopiedThrough == Owned \ NumWriteSet(prog, split)

SolveNow == SolveStep(prog, split, vals, nums, ActSet, pg)

\* One stratum: solve, run the pipeline of the fluents it owns, mint their
\* primed guards.
SettleStratum ==
  /\ pc = "strata"
  /\ st < NStrata
  /\ \E s \in {SolveNow} :
       \E acc \in {[n \in Owned |-> Accumulate(n, s)]} :
         /\ \A n \in Owned \ CopiedThrough : ~ acc[n].conflict
         /\ solved' = s
         /\ nextnum' = [n \in Nums |-> IF n \notin Owned THEN nextnum[n]
                                       ELSE IF n \in CopiedThrough THEN nums[n]
                                       ELSE Commit(n, acc[n])]
         /\ rcpt' = [n \in Nums |-> IF n \notin Owned THEN rcpt[n]
                                    ELSE IF n \in CopiedThrough THEN [CarriedReceipt(n) EXCEPT !.items = acc[n].items]
                                    ELSE Receipt(n, acc[n])]
  /\ pg' = [g \in DOMAIN pg \cup {x \in DOMAIN PGuards : PGuards[x].num \in Owned} |->
              IF g \in DOMAIN pg THEN pg[g]
              ELSE Compare(PGuards[g].op, nextnum'[PGuards[g].num], PGuards[g].thr)]
  /\ st' = st + 1
  /\ UNCHANGED <<world, pc, acts, split, report, rc, pre>>

\* Two rules assign one register different constants: the step is off (what its
\* receipts then show is left out).
ContestedNumber ==
  /\ pc = "strata"
  /\ st < NStrata
  /\ \E s \in {SolveNow} :
       /\ \E n \in Owned \ CopiedThrough : Accumulate(n, s).conflict
       /\ solved' = s
  /\ pc' = "idle"
  /\ rc' = "rejected"
  /\ UNCHANGED <<world, acts, split, st, pg, nextnum, rcpt, report, pre>>

NextProved(f, b) == solved[PrimedLit(IF b THEN Pos(f) ELSE Neg(f))] = DL_PROVED

\* Fluents whose next value the final solve left open, in either polarity.
Contested ==
  {f \in WriteSet(prog, split) : ~ NextProved(f, TRUE) /\ ~ NextProved(f, FALSE)}

\* The boolean next state; outside the split's write-set the value is copied.
NextVals ==
  [f \in Fluents |-> IF f \in WriteSet(prog, split) THEN NextProved(f, TRUE) ELSE vals[f]]

\* The burst cues of the final solve; one nothing concluded is simply absent.
Cues == {e \in Emits : solved[PrimedLit(Pos(e))] = DL_PROVED}

\* Mutant: the numbers are stored before the booleans are known to settle.
ContestedFluentAfterNumbers ==
  /\ pc = "strata"
  /\ st = NStrata
  /\ Contested # {}
  /\ nums' = nextnum
  /\ pc' = "idle"
  /\ rc' = "rejected"
  /\ UNCHANGED <<prog, vals, tick, subs, call, rcpt, report, pre>>

\* A fluent without a proved next value: nothing is written.
ContestedFluent ==
  /\ pc = "strata"
  /\ st = NStrata
  /\ Contested # {}
  /\ pc' = "idle"
  /\ rc' = "rejected"
  /\ UNCHANGED <<world, call, rcpt, report, pre>>

\* refresh_subs against a store: the edges and the new levels.
Refreshed(v, n) ==
  [h \in DOMAIN subs |-> IF subs[h].live
                         THEN [subs[h] EXCEPT !.last = Query(prog, v, n, subs[h].lit)]
                         ELSE subs[h]]

Edges(old, new) ==
  {<<h, old[h].last, new[h].last>> : h \in {x \in DOMAIN old : old[x].last # new[x].last}}

\* Mutant: the subscriptions are read before the commit.
CommitStepEarlyRefresh ==
  /\ pc = "strata"
  /\ st = NStrata
  /\ Contested = {}
  /\ vals' = NextVals
  /\ bdelta' = {<<f, NextVals[f]>> : f \in {x \in Fluents : NextVals[x] # vals[x]}}
  /\ subs' = Refreshed(vals, nums)
  /\ nums' = nextnum
  /\ ndelta' = {<<n, nums[n], nextnum[n]>> : n \in {x \in Nums : nextnum[x] # nums[x]}}
  /\ emitbuf' = Cues
  /\ sedge' = Edges(subs, subs')
  /\ tick' = tick + 1
  /\ pc' = "idle"
  /\ rc' = "ok"
  /\ UNCHANGED <<prog, call, rcpt, pre>>

\* Every next value is known: cues and changeset are recorded, the store moves,
\* the tick advances and the subscriptions are re-read.
CommitStep ==
  /\ pc = "strata"
  /\ st = NStrata
  /\ Contested = {}
  /\ vals' = NextVals
  /\ bdelta' = {<<f, NextVals[f]>> : f \in {x \in Fluents : NextVals[x] # vals[x]}}
  /\ subs' = Refreshed(vals', nextnum)
  /\ nums' = nextnum
  /\ ndelta' = {<<n, nums[n], nextnum[n]>> : n \in {x \in Nums : nextnum[x] # nums[x]}}
  /\ emitbuf' = Cues
  /\ sedge' = Edges(subs, subs')
  /\ tick' = tick + 1
  /\ pc' = "idle"
  /\ rc' = "ok"
  /\ UNCHANGED <<prog, call, rcpt, pre>>

Host ==
  \/ /\ prog \in Sessions
     /\ \/ \E f \in HostFluents, b \in BOOLEAN : SetFluent(f, b)
        \/ \E n \in Nums, v \in HostEdits : SetNum(n, v)
        \/ \E q \in SubLits : Subscribe(q)
  \/ \E h \in DOMAIN subs : Unsubscribe(h)
  \/ \E as \in ActionSeqs : RefuseStep(as) \/ BeginStep(as)

Running == SettleStratum \/ ContestedNumber \/ ContestedFluent \/ CommitStep

Next == Host \/ Running

\* world_step is a synchronous call: once begun it runs to its return.
Spec == Init /\ [][Next]_vars /\ WF_vars(Running)

-----------------------------------------------------------------------------
(* What a committed step owes its caller, stated on its two ends: the store *)
(* it found (pre), the store it left, and the columns of its final solve.   *)

Committed == rc = "ok"

FiredUnder(cols, s) == RuleFired(prog.srules[s], ActSet, cols)
Fired(s) == FiredUnder(solved, s)

\* A right-hand side, next values read from the committed store.
RHSValue(rhs) ==
  CASE rhs.kind = "const" -> rhs.arg
    [] rhs.kind = "load"  -> pre.nums[rhs.arg]
    [] rhs.kind = "loadn" -> nums[rhs.arg]

Effect(c) == prog.srules[c[1]].neffs[c[2]]

\* The effects on n, as <<rule, position>>, of the rules that fire under the columns cols.
FiredEffects(cols, n) ==
  {c \in UNION {{<<s, e>> : e \in DOMAIN prog.srules[s].neffs} : s \in DOMAIN prog.srules} :
     Effect(c).num = n /\ FiredUnder(cols, c[1])}

Assigned(cols, n) ==
  {RHSValue(Effect(c).rhs) : c \in {x \in FiredEffects(cols, n) : Effect(x).op = "ASSIGN"}}

Deltas(cols, n) == {c \in FiredEffects(cols, n) : Effect(c).op # "ASSIGN"}

DeltaSum(cols, n) ==
  SumFunction([c \in Deltas(cols, n) |-> Signed(Effect(c).op, RHSValue(Effect(c).rhs))])

\* v on the declared range of n.
Retract(n, v) ==
  IF ~ prog.decl[n].ranged \/ v \in prog.decl[n].min .. prog.decl[n].max THEN v
  ELSE IF v < prog.decl[n].min THEN prog.decl[n].min ELSE prog.decl[n].max

\* The order-free value of n: the join of the assignments, or the value carried
\* over, plus every delta, retracted onto the range.
OrderFreeValue(cols, n) ==
  LET A == Assigned(cols, n)
      base == CASE A = {} -> pre.nums[n]
                [] A # {} /\ prog.decl[n].merge = "MAX" -> Max(A)
                [] A # {} /\ prog.decl[n].merge # "MAX" -> Min(A)
  IN  Retract(n, base + DeltaSum(cols, n))

\* The contributions in a receipt's lines.
Kept(items)      == {k \in DOMAIN items : ~ items[k].defeated /\ items[k].op # "ASSIGN"}
SumOfKept(items) == SumFunction([k \in Kept(items) |-> items[k].amount])

\* The guards the final solve reads: those of the numbers settled below it.
MintedInTime == Restrict(pg, {g \in DOMAIN pg : NumStratum(PGuards[g].num) < NStrata - 1})

\* The final solve redone on the full schema.
FullSchema == SolveStep(prog, NoSplit, pre.vals, pre.nums, ActSet, MintedInTime)

\* A number no rule writes settles with the first stratum, and its guards are minted
\* after that stratum is solved.  In a program of one stratum no solve follows ...
MintedTooLate(g) == NStrata = 1 /\ Writers(PGuards[g].num) = {}

\* ... and in a longer one a rule of the first stratum that reads such a guard does
\* not fire in the solve of its own stratum and may fire in the later ones.
ReadsAhead ==
  {s \in DOMAIN prog.srules :
     prog.srules[s].stratum = 0 /\ \E g \in DOMAIN PGuards : ReadsGuard(prog.srules[s], g)}

\* The solve that settles n is final, or no rule reads more in the final one.
SettlesInTime(n) == NStrata = 1 \/ NumStratum(n) > 0 \/ ReadsAhead = {}

-----------------------------------------------------------------------------
(* Properties.                                                             *)

\* A step that returns -1 has moved nothing, wherever it was rejected, and
\* reports nothing (world_step: "state untouched").
RejectedStepChangesNothing ==
  rc = "rejected" /\ pc = "idle" =>
    /\ Store = pre
    /\ emitbuf = {} /\ bdelta = {} /\ ndelta = {} /\ sedge = {}

\* Inertia and effects: a committed fluent is what the effects of the rules
\* firing in the final solve say, all of them, and what it was when none speaks
\* of it; the solve neither loses nor invents a value (build_step_family).
FluentsFollowTheFirings ==
  Committed => \A f \in Fluents :
    LET said == {q \in UNION {prog.srules[s].effects : s \in {x \in DOMAIN prog.srules : Fired(x)}} :
                   AtomOf(q) = f}
    IN  /\ \A q \in said : vals[f] # IsNeg(q)
        /\ said = {} => vals[f] = pre.vals[f]

\* Stratified evaluation is exact: every number is what the rules firing in the
\* FINAL solve make it, although it was computed strata earlier; the order of
\* the rules plays no part, and no register took two values (the strata loop).
\* Not claimed, and not so: a number of the first stratum, when a rule of that stratum
\* reads a guard minted after it (the minting loop).
NumbersFollowFinalFirings ==
  Committed => \A n \in {x \in Nums : SettlesInTime(x)} :
    /\ nums[n] = OrderFreeValue(solved, n)
    /\ prog.decl[n].merge = "REGISTER" => Cardinality(Assigned(solved, n)) <= 1

\* A primed guard a rule reads has, in the final solve, the truth value of the
\* comparison on the committed number; one minted too late is open both ways, so
\* that the rule cannot fire whatever the number is (the minting loop).
PrimedGuardsReadTheCommit ==
  Committed => \A s \in DOMAIN prog.srules, g \in DOMAIN PGuards :
    ReadsGuard(prog.srules[s], g) =>
      LET holds == Compare(PGuards[g].op, nums[PGuards[g].num], PGuards[g].thr)
      IN  /\ (solved[Pos(g)] = DL_PROVED) = (holds /\ ~ MintedTooLate(g))
          /\ (solved[Neg(g)] = DL_PROVED) = (~ holds /\ ~ MintedTooLate(g))

\* A receipt accounts for the committed number: base plus the contributions
\* that were not defeated, clamped; and a defeated line of a number settled in time
\* is an attempt whose rule did not fire in the end (world_num_receipt).
ReceiptsReconcile ==
  Committed => \A n \in Nums :
    /\ rcpt[n].applied = nums[n]
    /\ nums[n] = Retract(n, rcpt[n].raw)
    /\ rcpt[n].raw = rcpt[n].base + SumOfKept(rcpt[n].items)
    /\ SettlesInTime(n) =>
         \A k \in DOMAIN rcpt[n].items : rcpt[n].items[k].defeated => ~ Fired(rcpt[n].items[k].rule)

\* The value split has no semantic content: on the full schema the same step
\* fires the same rules, reads the same next state and makes the same numbers, of
\* those settled in time ("changes time, never meaning"; world_set_split).
SplitIsOnlyAHint ==
  Committed =>
    /\ \A f \in Fluents : vals[f] = (FullSchema[PrimedLit(Pos(f))] = DL_PROVED)
    /\ \A s \in DOMAIN prog.srules : Fired(s) = FiredUnder(FullSchema, s)
    /\ \A n \in {x \in Nums : SettlesInTime(x)} : nums[n] = OrderFreeValue(FullSchema, n)

\* The status a client is offered agrees with the step: an action that applies
\* fires one of its rules when it is submitted, whatever is submitted with it
\* (world_action_status_of).
ApplicableActionsFire ==
  Committed => \A a \in ActSet :
    ActionStatus(prog, pre.vals, pre.nums, a) = "APPLIES" =>
      \E s \in TriggeredBy(prog, a) : Fired(s)

\* After a step every live subscription holds the verdict of the state the step
\* produced, and its edges are the flips since the level last known
\* (refresh_subs, after the commit).
SubscriptionsFollowTheState ==
  Committed =>
    /\ \A h \in DOMAIN subs :
         subs[h].live => subs[h].last = Query(prog, vals, nums, subs[h].lit)
    /\ sedge = {<<h, pre.subs[h].last, subs[h].last>> :
                   h \in {x \in DOMAIN subs : pre.subs[x].last # subs[x].last}}
    /\ \A h \in DOMAIN subs : ~ subs[h].live => subs[h].last = pre.subs[h].last
=============================================================================
