-------------------------------- MODULE DLCol --------------------------------
(***************************************************************************)
(* The columnar family of src/logic/dl_col.c.  A status of a literal is a  *)
(* pair of bit rows over the entities; a row is the set of its bits.  The  *)
(* rows have more bits than entities (the tail of the last word), masked   *)
(* where a status is stored and not where it is computed.  Rule bodies are *)
(* slices of one flat array, each ending where the next rule's begins.     *)
(*                                                                         *)
(* Indices compiled from the rules, and the applicability rows, outlive a  *)
(* solve: the dirty flag and the resets of dlcol_solve keep them true.     *)
(***************************************************************************)
EXTENDS DLSchedule

CONSTANTS Ents, RulePool, RuleLists, SupPool, FactPool, OpenPool, Statics, Sizes, MaxSolves,
          Bits      \* bits of a row: the entities and the tail

ASSUME FamilyAssumption ==
  /\ RulePool \subseteq Rule
  /\ Sizes \subseteq 1 .. NAtoms
  /\ FactPool \subseteq Lits \X Ents /\ OpenPool \subseteq Lits \X Ents
  /\ Ents \subseteq Bits

VARIABLES
  rules,    \* f->rules: [kind, head, off]
  body,     \* f->body: the flat bodies
  sups,     \* f->sups
  natoms,   \* f->natoms
  mark,     \* the caller's watermark: rules, body literals, pairs
  dirty,    \* f->dirty
  idx,      \* head_off, beat_off, scc_*, sched_*: the compiled indices
  fact, open, dt, df, pt, pf, completed,   \* the columns
  at, af,   \* app_t, app_f: applicability rows by rule
  phase,    \* "idle", or the layer dlcol_solve is in
  pass,     \* "sweep" or "complete"
  comp, k, changed,   \* sweep_sched: component, member, changed flag
  cid, any, \* complete_cols: component, something was refuted
  solves

theory  == <<rules, body, sups, natoms, mark>>
columns == <<dt, df, pt, pf, completed>>
apps    == <<at, af>>
control == <<phase, pass, comp, k, changed, cid, any>>
vars    == <<theory, dirty, idx, fact, open, columns, apps, control, solves>>

NoRow    == [q \in Lits |-> {}]
Located  == {q \in Lits : q < 2 * natoms}
NoIndex  == [heads |-> [q \in Lits |-> {}], beats |-> <<>>, scc |-> <<>>, sched |-> <<>>]

\* body_end_c: a body ends where the next rule's starts, the last at nbody.
BodyEnd(r) == IF r < Len(rules) THEN rules[r + 1].off ELSE Len(body)
BodyOf(r)  == {body[i] : i \in (rules[r].off + 1) .. BodyEnd(r)}

\* The rules as their bodies decode.
Decoded == [r \in DOMAIN rules |->
              [kind |-> rules[r].kind, head |-> rules[r].head, body |-> BodyOf(r)]]

Init ==
  /\ rules = <<>> /\ body = <<>> /\ sups = <<>> /\ mark = <<0, 0, 0>>
  /\ natoms \in Sizes
  /\ dirty = TRUE /\ idx = NoIndex
  /\ fact = NoRow /\ open = NoRow
  /\ dt = NoRow /\ df = NoRow /\ pt = NoRow /\ pf = NoRow /\ completed = NoRow
  /\ at = <<>> /\ af = <<>>
  /\ phase = "idle" /\ pass = "sweep" /\ comp = 0 /\ k = 1 /\ changed = FALSE
  /\ cid = 1 /\ any = FALSE
  /\ solves = 0

-----------------------------------------------------------------------------
(* The caller's edits (emit_judgment_family, solve_judgment_family).       *)

AddRule(r) ==
  /\ phase = "idle"
  /\ {r.head} \cup r.body \subseteq Located
  /\ Append(Decoded, r) \in RuleLists
  /\ rules' = Append(rules, [kind |-> r.kind, head |-> r.head, off |-> Len(body)])
  /\ body' = body \o ByIndex(r.body)
  /\ dirty' = TRUE
  /\ UNCHANGED <<sups, natoms, mark, idx, fact, open, columns, apps, control, solves>>

AddSup(p) ==
  /\ phase = "idle"
  /\ p[1] \in DOMAIN rules /\ p[2] \in DOMAIN rules /\ p \notin Range(sups)
  /\ sups' = Append(sups, p)
  /\ dirty' = TRUE
  /\ UNCHANGED <<rules, body, natoms, mark, idx, fact, open, columns, apps, control, solves>>

\* dlcol_rule_count, dlcol_body_count, dlcol_sup_count after the static rules.
Mark ==
  /\ phase = "idle"
  /\ mark = <<0, 0, 0>> /\ Len(rules) = Statics
  /\ mark' = <<Len(rules), Len(body), Len(sups)>>
  /\ UNCHANGED <<rules, body, sups, natoms, dirty, idx, fact, open, columns, apps, control, solves>>

\* Mutant: the flat bodies are not cut back.
TruncateRulesOnly ==
  /\ phase = "idle"
  /\ mark # <<0, 0, 0>>
  /\ rules' = SubSeq(rules, 1, mark[1])
  /\ sups' = SubSeq(sups, 1, mark[3])
  /\ dirty' = TRUE
  /\ UNCHANGED <<body, natoms, mark, idx, fact, open, columns, apps, control, solves>>

\* dlcol_truncate_rules to the watermark.
Truncate ==
  /\ phase = "idle"
  /\ mark # <<0, 0, 0>>
  /\ rules' = SubSeq(rules, 1, mark[1])
  /\ body' = SubSeq(body, 1, mark[2])
  /\ sups' = SubSeq(sups, 1, mark[3])
  /\ dirty' = TRUE
  /\ UNCHANGED <<natoms, mark, idx, fact, open, columns, apps, control, solves>>

\* The rows of the new atoms are zeroed, the others stay where they are.
EnsureAtoms(n) ==
  /\ phase = "idle"
  /\ n > natoms
  /\ natoms' = n
  /\ dirty' = TRUE
  /\ UNCHANGED <<rules, body, sups, mark, idx, fact, open, columns, apps, control, solves>>

ClearFacts ==
  /\ phase = "idle"
  /\ fact' = NoRow /\ open' = NoRow
  /\ UNCHANGED <<theory, dirty, idx, columns, apps, control, solves>>

AddFact(q, e) ==
  /\ phase = "idle" /\ q \in Located
  /\ fact' = [fact EXCEPT ![q] = @ \cup {e}]
  /\ UNCHANGED <<theory, dirty, idx, open, columns, apps, control, solves>>

SetOpen(q, e) ==
  /\ phase = "idle" /\ q \in Located
  /\ open' = [open EXCEPT ![q] = @ \cup {e}]
  /\ UNCHANGED <<theory, dirty, idx, fact, columns, apps, control, solves>>

-----------------------------------------------------------------------------
(* dlcol_solve.                                                            *)

\* compile_indices: rules by head, winners by loser, the components of the cycle
\* rule with their flags, and the sweep's schedule.
Compiled(high) ==
  LET t == [rules |-> Decoded, sups |-> Range(sups), facts |-> {}]
      n == SupportNumbering(t, high)
  IN  [heads |-> [q \in Lits |-> RulesFor(t, q)],
       beats |-> [s \in DOMAIN rules |-> {r \in DOMAIN rules : <<r, s>> \in t.sups}],
       scc   |-> [i \in DOMAIN n |->
                    [members |-> n[i], cyclic |-> CyclicScc(t, n[i]), attacked |-> AttackedScc(t, n[i])]],
       sched |-> Schedule(t, high)]

StartSweep == pass' = "sweep" /\ comp' = Len(idx'.sched) /\ k' = 1 /\ changed' = FALSE

\* Mutant: the applicability rows of the last solve are kept.
SolveKeepingApps ==
  /\ phase = "idle" /\ solves < MaxSolves
  /\ IF dirty THEN /\ \E high \in BOOLEAN : idx' = Compiled(high)
                   /\ at' = [r \in DOMAIN rules |-> {}] /\ af' = [r \in DOMAIN rules |-> {}]
              ELSE UNCHANGED <<idx, apps>>
  /\ dirty' = FALSE
  /\ dt' = NoRow /\ df' = NoRow /\ pt' = NoRow /\ pf' = NoRow /\ completed' = NoRow
  /\ phase' = "delta" /\ cid' = 1 /\ any' = FALSE
  /\ StartSweep
  /\ solves' = solves + 1
  /\ UNCHANGED <<theory, fact, open>>

\* A dirty family is compiled first; every column and applicability row is reset.
Solve ==
  /\ phase = "idle" /\ solves < MaxSolves
  /\ IF dirty THEN \E high \in BOOLEAN : idx' = Compiled(high) ELSE UNCHANGED idx
  /\ dirty' = FALSE
  /\ dt' = NoRow /\ df' = NoRow /\ pt' = NoRow /\ pf' = NoRow /\ completed' = NoRow
  /\ at' = [r \in DOMAIN rules |-> {}] /\ af' = [r \in DOMAIN rules |-> {}]
  /\ phase' = "delta" /\ cid' = 1 /\ any' = FALSE
  /\ StartSweep
  /\ solves' = solves + 1
  /\ UNCHANGED <<theory, fact, open>>

\* Bits undecided among the entities: what a skip test looks at.
Undecided(t, f) == Ents \ (t \cup f)

And(rows) == {b \in Bits : \A x \in rows : b \in x}

\* eval_delta_col: the new bits of q's rows. Nothing is masked before the store.
DeltaBits(q) ==
  LET strict == {r \in idx.heads[q] : rules[r].kind = DL_STRICT}
      prove  == fact[q] \cup UNION {And({dt[b] : b \in BodyOf(r)}) : r \in strict}
      dead   == And({UNION {df[b] : b \in BodyOf(r)} : r \in strict})
      nt     == (prove \ (df[q] \cup dt[q])) \cap Ents
      nf     == (dead \ (fact[q] \cup open[q] \cup dt[q] \cup nt \cup df[q])) \cap Ents
  IN  [t |-> nt, f |-> nf]

\* refresh_rule: a row decided for every entity is trusted as it is.
Refreshed(r) ==
  IF Undecided(at[r], af[r]) = {} THEN [t |-> at[r], f |-> af[r]]
  ELSE [t |-> And({pt[b] : b \in BodyOf(r)}), f |-> UNION {pf[b] : b \in BodyOf(r)}]

\* eval_part_col over the applicability rows app: the new bits of q's rows.
PartBits(q, app) ==
  LET nq        == Compl(q)
      support   == {r \in idx.heads[q] : rules[r].kind # DL_DEFEATER}
      beaters(s) == idx.beats[s] \cap support
      supported == UNION {app[r].t : r \in support}
      unsupported == And({app[r].f : r \in support})
      countered == And({app[s].f \cup UNION {app[r].t : r \in beaters(s)} : s \in idx.heads[nq]})
      exposed   == UNION {app[s].t \cap And({app[r].f : r \in beaters(s)}) : s \in idx.heads[nq]}
      pos       == dt[q] \cup (df[nq] \cap supported \cap countered)
      neg       == df[q] \cap (dt[nq] \cup unsupported \cup exposed)
      nt        == (pos \ (pf[q] \cup pt[q])) \cap Ents
      nf        == (neg \ (pt[q] \cup nt \cup pf[q])) \cap Ents
  IN  [t |-> nt, f |-> nf]

InSweep == phase \in {"delta", "part"} /\ pass = "sweep"
Cur     == idx.sched[comp]
Moves(b) == b.t \cup b.f # {}

\* A singleton is visited once; a larger component until a round moves nothing.
\* Rows the family has no room for are not there to visit.
SweepNext(moved) ==
  IF k < Len(Cur) THEN k' = k + 1 /\ changed' = (changed \/ moved) /\ UNCHANGED comp
  ELSE /\ k' = 1 /\ changed' = FALSE
       /\ comp' = IF Len(Cur) > 1 /\ (changed \/ moved) THEN comp ELSE comp - 1

\* One literal is decided for every entity at once.
VisitDelta ==
  /\ InSweep /\ phase = "delta" /\ comp > 0
  /\ LET q == Cur[k]
         b == IF q \in Located THEN DeltaBits(q) ELSE [t |-> {}, f |-> {}]
     IN  /\ dt' = [dt EXCEPT ![q] = @ \cup b.t]
         /\ df' = [df EXCEPT ![q] = @ \cup b.f]
         /\ SweepNext(Moves(b))
  /\ UNCHANGED <<theory, dirty, idx, fact, open, pt, pf, completed, apps, phase, pass, cid, any, solves>>

\* eval_part_col: a literal decided everywhere is skipped, its rules' rows with it.
VisitPart ==
  /\ InSweep /\ phase = "part" /\ comp > 0
  /\ LET q    == Cur[k]
         read == IF q \in Located /\ Undecided(pt[q], pf[q]) # {}
                 THEN idx.heads[q] \cup idx.heads[Compl(q)] ELSE {}
         app  == [r \in DOMAIN rules |-> IF r \in read THEN Refreshed(r) ELSE [t |-> at[r], f |-> af[r]]]
         b    == IF q \in Located /\ Undecided(pt[q], pf[q]) # {}
                 THEN PartBits(q, app) ELSE [t |-> {}, f |-> {}]
     IN  /\ at' = [r \in DOMAIN rules |-> app[r].t]
         /\ af' = [r \in DOMAIN rules |-> app[r].f]
         /\ pt' = [pt EXCEPT ![q] = @ \cup b.t]
         /\ pf' = [pf EXCEPT ![q] = @ \cup b.f]
         /\ SweepNext(Moves(b))
  /\ UNCHANGED <<theory, dirty, idx, fact, open, dt, df, completed, phase, pass, cid, any, solves>>

SweepDone ==
  /\ InSweep /\ comp = 0
  /\ pass' = "complete" /\ cid' = 1 /\ any' = FALSE
  /\ UNCHANGED <<theory, dirty, idx, fact, open, columns, apps, phase, comp, k, changed, solves>>

\* Entities at which an input outside the component c is undecided: bad.
BadBits(c, t, f) ==
  UNION {Bits \ (t[b] \cup f[b]) :
           b \in {x \in Located \ c :
                    \E m \in c : \E r \in idx.heads[m] :
                      /\ rules[r].kind \in (IF phase = "delta" THEN {DL_STRICT} ELSE {DL_STRICT, DL_DEFEASIBLE})
                      /\ x \in BodyOf(r)}}

\* The refutations complete_cols makes in component c of a layer.
Refutes(c, t, f) ==
  [q \in Lits |-> IF q \in c.members \cap Located /\ c.cyclic /\ ~ c.attacked
                  THEN (Ents \ (t[q] \cup f[q])) \ BadBits(c.members, t, f) ELSE {}]

\* complete_cols, one component; its refutations count for the next one.
CompleteVisit ==
  /\ phase \in {"delta", "part"} /\ pass = "complete" /\ cid <= Len(idx.scc)
  /\ LET new == IF phase = "delta" THEN Refutes(idx.scc[cid], dt, df)
                                   ELSE Refutes(idx.scc[cid], pt, pf)
         With(col) == [q \in Lits |-> col[q] \cup new[q]]
     IN  /\ IF phase = "delta" THEN df' = With(df) /\ UNCHANGED pf
                               ELSE pf' = With(pf) /\ UNCHANGED df
         /\ completed' = With(completed)
         /\ any' = (any \/ \E q \in Lits : new[q] # {})
  /\ cid' = cid + 1
  /\ UNCHANGED <<theory, dirty, idx, fact, open, dt, pt, apps, phase, pass, comp, k, changed, solves>>

\* A pass that refuted something sweeps the layer again; else the next layer, or
\* the caller.
CompleteDone ==
  /\ phase \in {"delta", "part"} /\ pass = "complete" /\ cid > Len(idx.scc)
  /\ phase' = IF any THEN phase ELSE IF phase = "delta" THEN "part" ELSE "idle"
  /\ cid' = 1 /\ any' = FALSE
  /\ UNCHANGED idx /\ StartSweep
  /\ UNCHANGED <<theory, dirty, fact, open, columns, apps, solves>>

Running == VisitDelta \/ VisitPart \/ SweepDone \/ CompleteVisit \/ CompleteDone

Edit ==
  \/ \E r \in RulePool : AddRule(r)
  \/ \E p \in SupPool : AddSup(p)
  \/ Mark \/ Truncate \/ ClearFacts
  \/ \E n \in Sizes : EnsureAtoms(n)
  \/ \E x \in FactPool : AddFact(x[1], x[2])
  \/ \E x \in OpenPool : SetOpen(x[1], x[2])

Next == Edit \/ Solve \/ Running

\* dlcol_solve is a synchronous call.
Spec == Init /\ [][Next]_vars /\ WF_vars(Running)

-----------------------------------------------------------------------------
(* Properties.                                                             *)

\* verdict_at.
StatusOf(t, f, e) ==
  [q \in Lits |-> IF e \in t[q] THEN DL_PROVED ELSE IF e \in f[q] THEN DL_REFUTED ELSE DL_UNDECIDED]

Answer(t, f) == [e \in Ents |-> IF phase = "idle" THEN StatusOf(t, f, e) ELSE Unsolved]

\* Whatever was added, cut back, grown, asserted and withdrawn between two
\* solves, every entity reads what a theory of its own would have been solved
\* to, old answers stay readable until the next solve, and the solve returns
\* (dlcol_solve, dlcol_truncate_rules, dlcol_ensure_atoms).
Family ==
  INSTANCE DLFamily WITH
    rules    <- Decoded,
    mark     <- <<mark[1], mark[3]>>,
    busy     <- phase # "idle",
    definite <- Answer(dt, df),
    verdict  <- Answer(pt, pf)

ImplementsFamily == Family!FSpec

\* An applicability row is never ahead of the columns it was computed from, so a
\* row decided for every entity may be trusted without recomputing it
\* (refresh_rule; "app rows must not survive a solve").
AppRowsSound ==
  phase = "part" => \A r \in DOMAIN rules :
    /\ \A e \in at[r] \cap Ents : \A b \in BodyOf(r) : e \in pt[b]
    /\ \A e \in af[r] \cap Ents : \E b \in BodyOf(r) : e \in pf[b]

=============================================================================
