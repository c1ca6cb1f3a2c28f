------------------------------- MODULE DLFamily -------------------------------
(***************************************************************************)
(* What a columnar family (src/logic/dl_col.h) promises its caller: one    *)
(* rule set over many entities, edited between solves, and after a solve   *)
(* every entity has the verdicts a theory of its own would have given it.  *)
(***************************************************************************)
EXTENDS DLTheory

CONSTANTS Ents,       \* entities 0 .. nents-1
          RulePool,   \* rules a caller may add
          RuleLists,  \* bound: the rule lists a family may hold
          SupPool,    \* superiority pairs a caller may add
          FactPool,   \* <<literal, entity>> a caller may assert
          OpenPool,   \* <<literal, entity>> a caller may leave open
          Statics,    \* rules below the watermark
          Sizes,      \* atom counts a family may have
          MaxSolves   \* bound on solves

VARIABLES
  rules,     \* the rules, their ids the positions
  sups,      \* superiority pairs in the order they were added
  natoms,    \* atoms the family has room for
  mark,      \* the caller's watermark: rules and pairs a re-ground keeps
  fact,      \* asserted: [Lits -> SUBSET Ents]
  open,      \* literals that are not closed-world (#116)
  busy,      \* inside dlcol_solve
  definite, verdict,  \* what dlcol_definite and dlcol_defeasible answer
  solves     \* solves so far

theory == <<rules, sups, natoms, mark>>
facts  == <<fact, open>>
fvars  == <<theory, facts, busy, definite, verdict, solves>>

Rows     == [Lits -> SUBSET Ents]
NoRow    == [q \in Lits |-> {}]
NoAnswer == [e \in Ents |-> Unsolved]

Located == {q \in Lits : q < 2 * natoms}
Sups(s) == {s[i] : i \in DOMAIN s}

-----------------------------------------------------------------------------
(* One entity's theory, and the solve of it: an open literal is never       *)
(* refuted for want of a rule.                                              *)

TheoryOf(rs, ss, f, e) ==
  [rules |-> rs, sups |-> Sups(ss), facts |-> {q \in Lits : e \in f[q]}]

OpenOf(o, e) == {q \in Lits : e \in o[q]}

EvalDeltaOpen(t, o, d, q) ==
  LET v == EvalDelta(t, d, q)
  IN  IF v = DL_REFUTED /\ q \in o THEN DL_UNDECIDED ELSE v

DeltaRoundOpen(t, o, sccs, d) ==
  LET swept == [q \in Lits |-> IF d[q] = DL_UNDECIDED THEN EvalDeltaOpen(t, o, d, q) ELSE d[q]]
      loops == UNION {sccs[q] : q \in {x \in Lits : Completes(t, d, sccs[x], TRUE)}}
  IN  IF swept # d THEN swept ELSE Completion(d, loops)

DefiniteOf(t, o, sccs) ==
  LET F[d \in Status] ==
        LET next == DeltaRoundOpen(t, o, sccs, d) IN IF next = d THEN d ELSE F[next]
  IN  F[Unsolved]

\* The two answers for every entity; a literal the family has no row for stays
\* undecided.
Answers(rs, ss, f, o) ==
  [e \in Ents |->
     LET t    == TheoryOf(rs, ss, f, e)
         sccs == SupportSccs(t)
         d    == DefiniteOf(t, OpenOf(o, e), sccs)
     IN  [definite |-> d, verdict |-> RefPart(t, sccs, d)]]

InLocated(st) == [q \in Lits |-> IF q \in Located THEN st[q] ELSE DL_UNDECIDED]

-----------------------------------------------------------------------------
FInit ==
  /\ rules = <<>> /\ sups = <<>> /\ mark = <<0, 0>>
  /\ natoms \in Sizes
  /\ fact = NoRow /\ open = NoRow
  /\ busy = FALSE
  /\ definite = NoAnswer /\ verdict = NoAnswer
  /\ solves = 0

LitsOfRule(r) == {r.head} \cup r.body

FAddRule(r) ==
  /\ ~ busy
  /\ LitsOfRule(r) \subseteq Located
  /\ Append(rules, r) \in RuleLists
  /\ rules' = Append(rules, r)
  /\ UNCHANGED <<sups, natoms, mark, facts, busy, definite, verdict, solves>>

FAddSup(p) ==
  /\ ~ busy
  /\ p[1] \in DOMAIN rules /\ p[2] \in DOMAIN rules /\ p \notin Sups(sups)
  /\ sups' = Append(sups, p)
  /\ UNCHANGED <<rules, natoms, mark, facts, busy, definite, verdict, solves>>

\* The caller remembers the counts of its static rules before it adds the rules
\* a re-ground replaces.
FMark ==
  /\ ~ busy
  /\ mark = <<0, 0>> /\ Len(rules) = Statics
  /\ mark' = <<Len(rules), Len(sups)>>
  /\ UNCHANGED <<rules, sups, natoms, facts, busy, definite, verdict, solves>>

\* A re-ground drops exactly what was added after the watermark.
FTruncate ==
  /\ ~ busy
  /\ mark # <<0, 0>>
  /\ rules' = SubSeq(rules, 1, mark[1])
  /\ sups' = SubSeq(sups, 1, mark[2])
  /\ UNCHANGED <<natoms, mark, facts, busy, definite, verdict, solves>>

\* Room for more atoms moves no fact and no answer.
FEnsureAtoms(n) ==
  /\ ~ busy
  /\ n > natoms
  /\ natoms' = n
  /\ UNCHANGED <<rules, sups, mark, facts, busy, definite, verdict, solves>>

FClearFacts ==
  /\ ~ busy
  /\ fact' = NoRow /\ open' = NoRow
  /\ UNCHANGED <<theory, busy, definite, verdict, solves>>

FAddFact(q, e) ==
  /\ ~ busy /\ q \in Located
  /\ fact' = [fact EXCEPT ![q] = @ \cup {e}]
  /\ UNCHANGED <<theory, open, busy, definite, verdict, solves>>

FSetOpen(q, e) ==
  /\ ~ busy /\ q \in Located
  /\ open' = [open EXCEPT ![q] = @ \cup {e}]
  /\ UNCHANGED <<theory, fact, busy, definite, verdict, solves>>

FSolve ==
  /\ ~ busy /\ solves < MaxSolves
  /\ busy' = TRUE
  /\ definite' = NoAnswer /\ verdict' = NoAnswer
  /\ solves' = solves + 1
  /\ UNCHANGED <<theory, facts>>

FReturn ==
  /\ busy
  /\ busy' = FALSE
  /\ LET a == Answers(rules, sups, fact, open)
     IN  /\ definite' = [e \in Ents |-> InLocated(a[e].definite)]
         /\ verdict'  = [e \in Ents |-> InLocated(a[e].verdict)]
  /\ UNCHANGED <<theory, facts, solves>>

FNext ==
  \/ \E r \in RulePool : FAddRule(r)
  \/ \E p \in SupPool : FAddSup(p)
  \/ FMark \/ FTruncate \/ FClearFacts
  \/ \E n \in Sizes : FEnsureAtoms(n)
  \/ \E x \in FactPool : FAddFact(x[1], x[2])
  \/ \E x \in OpenPool : FSetOpen(x[1], x[2])
  \/ FSolve \/ FReturn

\* A solve is a synchronous call: it returns, time and again.
FSpec == FInit /\ [][FNext]_fvars /\ []<>(~ busy)
=============================================================================
