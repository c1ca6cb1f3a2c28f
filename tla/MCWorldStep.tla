----------------------------- MODULE MCWorldStep ----------------------------
(***************************************************************************)
(* Small worlds for checking WorldStep.  Atoms are numbers, a literal is   *)
(* Pos(atom) or Neg(atom).                                                 *)
(***************************************************************************)
EXTENDS WorldStep

CONSTANTS hp, gold

S(a, now, nxt, effs, neffs) ==
  [action |-> a, now |-> now, nxt |-> nxt, effects |-> effs, neffs |-> neffs, stratum |-> 0]
Const(n, op, v) == [num |-> n, op |-> op, rhs |-> [kind |-> "const", arg |-> v]]
Load(n, op, m)  == [num |-> n, op |-> op, rhs |-> [kind |-> "load", arg |-> m]]
LoadN(n, op, m) == [num |-> n, op |-> op, rhs |-> [kind |-> "loadn", arg |-> m]]
Defeasibly(h, b) == [kind |-> DL_DEFEASIBLE, head |-> h, body |-> b]

\* The least strata of a rule list, as the compiler assigns them: above the
\* writers of a number read primed, level with the writers of a boolean.
WithStrata(rs) ==
  LET D == DOMAIN rs
      numsOf(s) == {PGuards[g].num : g \in {x \in DOMAIN PGuards : ReadsGuard(rs[s], x)}}
                     \cup {rs[s].neffs[e].rhs.arg :
                             e \in {x \in DOMAIN rs[s].neffs : rs[s].neffs[x].rhs.kind = "loadn"}}
      writes(s) == {rs[s].neffs[e].num : e \in DOMAIN rs[s].neffs}
      above(s)  == {j \in D : writes(j) \cap numsOf(s) # {}}
      level(s)  == {j \in D : {AtomOf(q) : q \in rs[j].effects} \cap {AtomOf(q) : q \in rs[s].nxt} # {}}
      F[k \in Nat] ==
        IF k = 0 THEN [s \in D |-> 0]
        ELSE LET prev == F[k-1]
             IN  [s \in D |-> Max({0} \cup {prev[j] + 1 : j \in above(s)} \cup {prev[j] : j \in level(s)})]
      fin == F[Len(rs) + 1]
  IN  [s \in D |-> [rs[s] EXCEPT !.stratum = fin[s]]]

-----------------------------------------------------------------------------
(* Strata: hp is hit and healed, its next value kills, and gold follows.   *)

Dead == 0
Shield == 1
Ding == 2
Hit == 3
Heal == 4
Low == 8
Fatal == 9
Weak == 10
Rich == 14

Taunt == 11
Mark == 12

MCPrimedOf == (Dead :> 5) @@ (Shield :> 6) @@ (Ding :> 7) @@ (Mark :> 13)
MCGuards   == Low :> [num |-> hp, op |-> "LE", thr |-> 1]
MCPGuards  == Fatal :> [num |-> hp, op |-> "LE", thr |-> 0] @@ Rich :> [num |-> gold, op |-> "GE", thr |-> 3]
MCDecl     == (hp :> [min |-> 0, max |-> 3, ranged |-> TRUE, merge |-> "REGISTER"])
                @@ (gold :> [min |-> 0, max |-> 0, ranged |-> FALSE, merge |-> "MAX"])
AnyDecl    == (hp :> [min |-> 0, max |-> 2, ranged |-> TRUE, merge |-> "MIN"]) @@ MCDecl

Hurts    == S(Hit, {Neg(Shield)}, {}, {}, <<Const(hp, "SUB", 2), Load(gold, "ADD", hp)>>)
Fells    == S(Hit, {Pos(Low)}, {}, {Neg(Shield)}, <<Const(hp, "ASSIGN", 0)>>)
Mends    == S(Heal, {}, {}, {}, <<Const(hp, "ASSIGN", 1), Const(hp, "ADD", 3)>>)
Dies     == S(NoAction, {Pos(Fatal)}, {}, {Pos(Dead), Pos(Ding)}, <<>>)
Revives  == S(NoAction, {Neg(Fatal)}, {}, {Neg(Dead)}, <<>>)
Guards2  == S(Heal, {Pos(Weak)}, {}, {Pos(Shield)}, <<>>)
Loots    == S(NoAction, {}, {Pos(Dead)}, {}, <<Const(gold, "ADD", 1), Const(gold, "ASSIGN", 1)>>)
Banks    == S(NoAction, {}, {Neg(Dead)}, {}, <<LoadN(gold, "ASSIGN", hp)>>)

Pays     == S(Hit, {Neg(Fatal)}, {}, {}, <<Const(gold, "ADD", 1)>>)
Retires  == S(NoAction, {Pos(Rich)}, {}, {Pos(Mark)}, <<>>)

\* Without Hurts, Fells and Mends no rule writes hp, and what reads Fatal stands in the
\* first stratum: the only one, or with Retires and a writer of gold below another.
StrataPool == {Hurts, Fells, Mends, Dies, Revives, Guards2, Loots, Banks, Pays, Retires}

\* weak if low, overruled by a shield.
MCJRules == <<Defeasibly(Pos(Weak), {Pos(Low)}), Defeasibly(Neg(Weak), {Pos(Shield)})>>
MCJSups  == {<<2, 1>>}

WithJudgments(rs) == [jrules |-> MCJRules, jsups |-> MCJSups, srules |-> WithStrata(rs),
                      splits |-> {}, decl |-> MCDecl]

StrataPrograms  == {WithJudgments(SetToSeq(R)) : R \in kSubset(4, StrataPool)}
StrataStores    == {<<Dead :> d @@ Shield :> s @@ Mark :> FALSE, hp :> v @@ gold :> 2>> :
                      d, s \in BOOLEAN, v \in {1, 2}}

-----------------------------------------------------------------------------
(* Split: two phases whose rules write each other, one fluent beside them. *)

Phase0 == Dead
Phase1 == Shield
Act    == Hit
Pass   == Heal

Advance == S(Act, {Pos(Phase0)}, {}, {Neg(Phase0), Pos(Phase1)}, <<>>)
Return  == S(Act, {Pos(Phase1)}, {}, {Pos(Phase0), Neg(Phase1)}, <<Const(hp, "ASSIGN", 2)>>)
Drain   == S(Act, {Pos(Phase0), Pos(Low)}, {}, {}, <<Const(hp, "SUB", 2)>>)
Set     == S(Act, {}, {}, {Pos(Mark)}, <<Load(hp, "ASSIGN", hp)>>)
Clear   == S(Pass, {Neg(Phase0)}, {}, {Neg(Mark)}, <<>>)
Never   == S(Pass, {Pos(Phase0), Pos(Phase1)}, {}, {Pos(Mark)}, <<Const(hp, "ADD", 1)>>)
Echo    == S(NoAction, {Pos(Phase1)}, {Pos(Mark)}, {}, <<Const(hp, "ADD", 1)>>)
Follow  == S(NoAction, {}, {Pos(Phase1)}, {Pos(Mark)}, <<>>)

SplitPool     == {Advance, Return, Drain, Set, Clear, Never, Echo, Follow}
SplitPrograms == {[jrules |-> <<>>, jsups |-> {}, srules |-> WithStrata(SetToSeq(R)),
                   splits |-> {Phase0, Phase1}, decl |-> AnyDecl] : R \in kSubset(3, SplitPool)}
SplitStores   == [{Phase0, Phase1, Mark} -> BOOLEAN] \X {hp :> v @@ gold :> 2 : v \in {1, 2}}

-----------------------------------------------------------------------------
(* A session: host edits, subscriptions and two steps of one program, with *)
(* two actions that may not be submitted together.                         *)

SessionExcl == {<<"move", "hero", Hit>>, <<"move", "hero", Taunt>>, <<"move", "foe", Heal>>}

Dares == S(Taunt, {}, {}, {Neg(Shield)}, <<>>)

SessionPrograms == {WithJudgments(<<Hurts, Guards2, Dares, Dies>>)}
SessionStores   == {<<Dead :> FALSE @@ Shield :> FALSE @@ Mark :> FALSE, hp :> 2 @@ gold :> 2>>}
SessionSubs     == {Pos(Weak), Neg(Dead)}

-----------------------------------------------------------------------------
MCPrograms == StrataPrograms \cup SplitPrograms \cup SessionPrograms
MCStores(p) == CASE p \in SessionPrograms -> SessionStores
                 [] p \in SplitPrograms   -> SplitStores
                 [] OTHER                 -> StrataStores
MCActions  == {<<Hit>>, <<Heal>>, <<Hit, Heal>>, <<Hit, Heal, Taunt>>}

\* The programs checked name every part apart and are stratified, and the numbers of
\* their stores and edits lie in the declared ranges.
ASSUME \A p \in MCPrograms :
  /\ Separate(p) /\ Stratified(p)
  /\ \A s \in MCStores(p) : InRange(p, s[2])
  /\ \A v \in HostEdits : InRange(p, [n \in Nums |-> v])
=============================================================================
