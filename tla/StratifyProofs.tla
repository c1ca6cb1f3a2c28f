--------------------------- MODULE StratifyProofs ---------------------------
(***************************************************************************)
(* What the stratification pass guarantees for every rule list: a program  *)
(* it accepts satisfies every constraint, and no rule was lifted higher    *)
(* than any solution of the constraints lifts it.                          *)
(***************************************************************************)
EXTENDS Stratify, FiniteSetTheorems, TLAPS

\* The floors of a rule are natural numbers.
LEMMA FloorsAreNat ==
  ASSUME strata \in [Rules -> Nat], NEW r \in Rules
  PROVE  Floors(r) \subseteq Nat
  BY DEF Floors, NumFloors, BoolFloors, WritersOfNum, WritersOfBool

\* Types, the part the other invariants need: the rule list never changes and
\* every rule has a stratum.
Typed ==
  /\ prog \in Seq(StepRule)
  /\ strata \in [Rules -> Nat]
  /\ i \in Nat \ {0}
  /\ changed \in BOOLEAN

\* A sweep that has changed nothing so far has checked every rule before i; a
\* sweep that ended without a change has checked them all.
Settled(r) == \A m \in Floors(r) : m <= strata[r]

Checked ==
  /\ (pc = "sweep" /\ ~ changed) => \A r \in Rules : r < i => Settled(r)
  /\ (pc = "test" /\ ~ changed) => \A r \in Rules : Settled(r)
  /\ (pc = "count") => changed /\ strata = [r \in Rules |-> 0]
  /\ (pc = "accepted") => \/ \A r \in Rules : Settled(r)
                          \/ PrimedNums = {} /\ strata = [r \in Rules |-> 0]

SInv == Typed /\ Checked

\* A settled stratum meets every constraint of its rule.
LEMMA SettledIsStratified ==
  ASSUME Typed, \A r \in Rules : Settled(r)
  PROVE  Stratified(strata)
<1> SUFFICES ASSUME NEW r \in Rules
    PROVE /\ \A n \in prog[r].guards \cup prog[r].loads :
               \A j \in WritersOfNum(n) : strata[r] >= strata[j] + 1
          /\ \A b \in prog[r].preads :
               \A j \in WritersOfBool(b) : strata[r] >= strata[j]
  BY DEF Stratified
<1>1. \A m \in Floors(r) : m <= strata[r]
  BY DEF Settled
<1>2. ASSUME NEW n \in prog[r].guards \cup prog[r].loads, NEW j \in WritersOfNum(n)
      PROVE  strata[r] >= strata[j] + 1
  <2>1. strata[j] + 1 \in Floors(r)
    BY DEF Floors, NumFloors
  <2>2. strata[j] \in Nat /\ strata[r] \in Nat
    BY DEF Typed, WritersOfNum
  <2> QED BY <1>1, <2>1, <2>2
<1>3. ASSUME NEW b \in prog[r].preads, NEW j \in WritersOfBool(b)
      PROVE  strata[r] >= strata[j]
  <2>1. strata[j] \in Floors(r)
    BY DEF Floors, BoolFloors
  <2>2. strata[j] \in Nat /\ strata[r] \in Nat
    BY DEF Typed, WritersOfBool
  <2> QED BY <1>1, <2>1, <2>2
<1> QED BY <1>2, <1>3

\* All rules at stratum 0 is a solution when nothing is read primed.
LEMMA FlatIsStratified ==
  ASSUME Typed, PrimedNums = {}, strata = [r \in Rules |-> 0]
  PROVE  Stratified(strata)
<1>1. ASSUME NEW r \in Rules PROVE prog[r].guards \cup prog[r].loads = {}
  BY DEF PrimedNums
<1>2. ASSUME NEW r \in Rules, NEW b \in prog[r].preads, NEW j \in WritersOfBool(b)
      PROVE  strata[r] >= strata[j]
  BY DEF WritersOfBool
<1> QED BY <1>1, <1>2 DEF Stratified

\* The invariant holds before the first pass.
LEMMA InitSInv == Init => SInv
<1> SUFFICES ASSUME Init PROVE SInv
  OBVIOUS
<1>1. Typed
  BY ProgramsAssumption DEF Init, Typed, Rules
<1>2. Checked
  BY DEF Init, Checked
<1> QED BY <1>1, <1>2 DEF SInv

\* Every step keeps the types.
LEMMA TypedStep == SInv /\ [Next]_vars => Typed'
<1> SUFFICES ASSUME SInv, [Next]_vars PROVE Typed'
  OBVIOUS
<1> USE DEF SInv
<1>1. CASE RaiseRule
  <2>1. PICK ns \in Floors(i) : /\ strata' = [strata EXCEPT ![i] = ns]
                                /\ changed' = (changed \/ ns > strata[i])
    BY <1>1 DEF RaiseRule
  <2>2. i \in Rules /\ i' = i + 1 /\ prog' = prog
    BY <1>1 DEF RaiseRule
  <2>3. ns \in Nat
    BY <2>2, FloorsAreNat DEF Typed
  <2>4. strata' \in [Rules -> Nat]
    BY <2>1, <2>2, <2>3 DEF Typed
  <2>5. changed' \in BOOLEAN
    BY <2>1
  <2> QED BY <2>2, <2>4, <2>5 DEF Typed, Rules
<1>2. CASE StartRound
  <2>1. prog' = prog /\ strata' = strata /\ i' = 1
    BY <1>2 DEF StartRound
  <2>2. changed' \in BOOLEAN
    BY <1>2 DEF StartRound
  <2> QED BY <2>1, <2>2 DEF Typed, Rules
<1>3. CASE Count \/ EndRound \/ Accept \/ Returned \/ UNCHANGED vars
  BY <1>3 DEF Count, EndRound, Accept, Returned, vars, Typed, Rules
<1>4. CASE Reject
  <2>1. UNCHANGED <<prog, strata, i, changed>>
    BY <1>4 DEF Reject
  <2> QED BY <2>1 DEF Typed, Rules
<1> QED BY <1>1, <1>2, <1>3, <1>4 DEF Next

\* Every step keeps what the current pass has checked so far.
LEMMA CheckedStep == SInv /\ [Next]_vars => Checked'
<1> SUFFICES ASSUME SInv, [Next]_vars PROVE Checked'
  OBVIOUS
<1> USE DEF SInv
<1>1. CASE Count
  <2>1. pc = "count" /\ pc' \in {"accepted", "test"} /\ UNCHANGED <<prog, strata, i, changed>>
    BY <1>1 DEF Count
  <2>2. pc' = "accepted" => PrimedNums = {}
    BY <1>1 DEF Count
  <2> QED BY <2>1, <2>2 DEF Checked, PrimedNums, Rules
<1>2. CASE StartRound
  <2>1. pc' = "sweep" /\ i' = 1 /\ prog' = prog
    BY <1>2 DEF StartRound
  <2>2. \A r \in Rules' : ~ (r < i')
    BY <2>1 DEF Typed, Rules
  <2> QED BY <2>1, <2>2 DEF Checked
<1>3. CASE RaiseRule
  <2>1. PICK ns \in Floors(i) :
          /\ \A m \in Floors(i) : m <= ns
          /\ strata' = [strata EXCEPT ![i] = ns]
          /\ changed' = (changed \/ ns > strata[i])
    BY <1>3 DEF RaiseRule
  <2>2. i \in Rules /\ i' = i + 1 /\ prog' = prog /\ pc = "sweep" /\ pc' = "sweep"
    BY <1>3 DEF RaiseRule
  <2>3. ns \in Nat /\ strata[i] \in Nat /\ strata[i] \in Floors(i)
    BY <2>2, FloorsAreNat DEF Typed, Floors
  <2>4. ASSUME ~ changed' PROVE ~ changed /\ strata' = strata /\ ns = strata[i]
    <3>0. ~ (changed \/ ns > strata[i])
      BY <2>1, <2>4, Zenon
    <3>1. ~ changed /\ ns = strata[i]
      BY <2>1, <2>3, <3>0
    <3> QED BY <2>1, <2>2, <3>1 DEF Typed
  <2>5. ASSUME ~ changed', NEW r \in Rules', r < i' PROVE Settled(r)'
    <3>1. ~ changed /\ strata' = strata /\ ns = strata[i]
      BY <2>4, <2>5
    <3>2. r \in Rules /\ r \in Nat /\ i \in Nat
      BY <2>2, <2>5 DEF Typed, Rules
    <3>3. Settled(r)
      <4>1. CASE r = i
        BY <2>1, <3>1, <4>1 DEF Settled
      <4>2. CASE r < i
        BY <2>2, <3>1, <3>2, <4>2 DEF Checked
      <4> QED BY <2>2, <2>5, <3>2, <4>1, <4>2
    <3> QED BY <2>2, <3>1, <3>3
            DEF Settled, Floors, NumFloors, BoolFloors, WritersOfNum, WritersOfBool, Rules
  <2> QED BY <2>2, <2>5 DEF Checked
<1>4. CASE EndRound
  <2>1. pc = "sweep" /\ pc' = "test" /\ i \notin Rules /\ UNCHANGED <<prog, strata, i, changed>>
    BY <1>4 DEF EndRound
  <2>2. ASSUME ~ changed', NEW r \in Rules' PROVE Settled(r)'
    <3>1. r \in Rules /\ ~ changed
      BY <2>1, <2>2 DEF Rules
    <3>2. Settled(r)
      <4>1. CASE r < i
        BY <2>1, <3>1, <4>1 DEF Checked
      <4>2. CASE ~ (r < i)
        <5>1. Rules = 1 .. Len(prog) /\ Len(prog) \in Nat
          BY DEF Typed, Rules
        <5>2. i \in 1 .. Len(prog)
          BY <3>1, <4>2, <5>1 DEF Typed
        <5> QED BY <2>1, <5>1, <5>2
      <4> QED BY <4>1, <4>2
    <3> QED BY <2>1, <3>2
            DEF Settled, Floors, NumFloors, BoolFloors, WritersOfNum, WritersOfBool, Rules
  <2> QED BY <2>1, <2>2 DEF Checked
<1>5. CASE Accept
  <2>1. pc' = "accepted" /\ pc = "test" /\ ~ changed /\ UNCHANGED <<prog, strata>>
    BY <1>5 DEF Accept
  <2>2. \A r \in Rules : Settled(r)
    BY <2>1 DEF Checked
  <2>3. (\A r \in Rules : Settled(r))'
    BY <2>1, <2>2
       DEF Settled, Floors, NumFloors, BoolFloors, WritersOfNum, WritersOfBool, Rules
  <2> QED BY <2>1, <2>3 DEF Checked
<1>6. CASE Reject
  BY <1>6 DEF Reject, Checked
<1>7. CASE Returned \/ UNCHANGED vars
  <2>1. UNCHANGED vars
    BY <1>7 DEF Returned
  <2> QED BY <2>1 DEF vars, Checked, Settled, Floors, NumFloors, BoolFloors,
                      WritersOfNum, WritersOfBool, Rules, PrimedNums
<1> QED BY <1>1, <1>2, <1>3, <1>4, <1>5, <1>6, <1>7 DEF Next

\* The inductive invariant of the pass.
THEOREM SweepsCheck == Spec => []SInv
<1>1. SInv /\ [Next]_vars => SInv'
  BY TypedStep, CheckedStep DEF SInv
<1> QED BY InitSInv, <1>1, PTL DEF Spec

\* A program the compiler accepts satisfies every stratification constraint:
\* no rule reads a next value that has not settled in a lower stratum.
THEOREM AcceptedStratified == Spec => []AcceptedIsStratified
<1>1. SInv => AcceptedIsStratified
  <2> SUFFICES ASSUME SInv, pc = "accepted" PROVE Stratified(strata)
    BY DEF AcceptedIsStratified
  <2>1. CASE \A r \in Rules : Settled(r)
    BY <2>1, SettledIsStratified DEF SInv
  <2>2. CASE PrimedNums = {} /\ strata = [r \in Rules |-> 0]
    BY <2>2, FlatIsStratified DEF SInv
  <2> QED BY <2>1, <2>2 DEF SInv, Checked
<1> QED BY SweepsCheck, <1>1, PTL

\* Below every solution, whatever its bound.
Least ==
  \A s \in [Rules -> Nat] : Stratified(s) => \A r \in Rules : strata[r] <= s[r]

\* Every floor of a rule is one that any solution above the current strata has
\* to respect.
LEMMA FloorsBelowSolutions ==
  ASSUME Typed, NEW s \in [Rules -> Nat], Stratified(s),
         \A r \in Rules : strata[r] <= s[r],
         NEW k \in Rules, NEW m \in Floors(k)
  PROVE  m <= s[k]
<1>1. CASE m = strata[k]
  BY <1>1
<1>2. CASE m \in NumFloors(k)
  <2>1. PICK n \in prog[k].guards \cup prog[k].loads :
          \E j \in WritersOfNum(n) : m = strata[j] + 1
    BY <1>2 DEF NumFloors
  <2>2. PICK j \in WritersOfNum(n) : m = strata[j] + 1
    BY <2>1
  <2>3. s[k] >= s[j] + 1 /\ j \in Rules
    BY DEF Stratified, WritersOfNum
  <2> QED BY <2>2, <2>3 DEF Typed
<1>3. CASE m \in BoolFloors(k)
  <2>1. PICK b \in prog[k].preads : \E j \in WritersOfBool(b) : m = strata[j]
    BY <1>3 DEF BoolFloors
  <2>2. PICK j \in WritersOfBool(b) : m = strata[j]
    BY <2>1
  <2>3. s[k] >= s[j] /\ j \in Rules
    BY DEF Stratified, WritersOfBool
  <2> QED BY <2>2, <2>3 DEF Typed
<1> QED BY <1>1, <1>2, <1>3 DEF Floors

\* Every step keeps every stratum at most the least solution's.
LEMMA LeastStep == SInv /\ Least /\ [Next]_vars => Least'
<1> SUFFICES ASSUME SInv, Least, [Next]_vars,
                    NEW s \in [Rules' -> Nat], Stratified(s)',
                    NEW r \in Rules'
             PROVE  strata'[r] <= s[r]
  BY DEF Least
<1>1. prog' = prog
  BY DEF Next, vars, Count, StartRound, RaiseRule, EndRound, Accept, Reject, Returned
<1>2. s \in [Rules -> Nat] /\ Stratified(s) /\ r \in Rules
  BY <1>1 DEF Rules, Stratified, WritersOfNum, WritersOfBool
<1>3. \A k \in Rules : strata[k] <= s[k]
  BY <1>2 DEF Least
<1>4. CASE RaiseRule
  <2>1. PICK ns \in Floors(i) : strata' = [strata EXCEPT ![i] = ns]
    BY <1>4 DEF RaiseRule
  <2>2. i \in Rules
    BY <1>4 DEF RaiseRule
  <2>3. ns <= s[i]
    BY <1>2, <1>3, <2>1, <2>2, FloorsBelowSolutions DEF SInv
  <2> QED BY <1>2, <1>3, <2>1, <2>2, <2>3 DEF SInv, Typed
<1>5. CASE ~ RaiseRule
  <2>1. strata' = strata
    BY <1>5 DEF Next, vars, Count, StartRound, EndRound, Accept, Reject, Returned
  <2> QED BY <1>2, <1>3, <2>1
<1> QED BY <1>4, <1>5

\* The pass never lifts a rule higher than any solution of the constraints does:
\* it computes the least stratification.
THEOREM LeastStrata == Spec => []StrataAreLeast
<1>1. Init => Least
  <2> SUFFICES ASSUME Init, NEW s \in [Rules -> Nat], NEW r \in Rules
               PROVE  strata[r] <= s[r]
    BY DEF Least
  <2> QED BY DEF Init
<1>2. Least => StrataAreLeast
  <2> SUFFICES ASSUME Least, NEW s \in [Rules -> 0 .. Len(prog)], Stratified(s),
                      NEW r \in Rules
               PROVE  strata[r] <= s[r]
    BY DEF StrataAreLeast
  <2>1. s \in [Rules -> Nat]
    OBVIOUS
  <2> QED BY <2>1 DEF Least
<1> QED BY SweepsCheck, <1>1, <1>2, LeastStep, PTL DEF Spec

-----------------------------------------------------------------------------
(* Types.                                                                  *)

\* What a rule reads primed is numeric.
LEMMA ReadsAreNums ==
  ASSUME Typed, NEW r \in Rules
  PROVE  prog[r].guards \cup prog[r].loads \subseteq Nums
<1>1. prog[r] \in StepRule
  BY DEF Typed, Rules
<1> QED
  BY <1>1 DEF StepRule

\* The fluents counted are finitely many.
LEMMA PrimedNumsFinite ==
  ASSUME Typed
  PROVE  Cardinality(PrimedNums) \in Nat
<1>1. PrimedNums \subseteq Nums
  BY ReadsAreNums DEF PrimedNums
<1>2. IsFiniteSet(PrimedNums)
  BY <1>1, ProgramsAssumption, FS_Subset
<1> QED
  BY <1>2, FS_CardinalityType

\* A step keeps the rest of the types.
LEMMA TypesStep == TypeOK /\ SInv /\ [Next]_vars => TypeOK'
<1> SUFFICES ASSUME TypeOK, SInv, [Next]_vars PROVE TypeOK'
  OBVIOUS
<1>0. /\ strata' \in [Rules -> Nat]'
      /\ i' \in Nat \ {0}
      /\ changed' \in BOOLEAN
  BY TypedStep DEF Typed
<1>1. CASE Count
  <2>1. Cardinality(PrimedNums) + 2 \in Nat
    BY PrimedNumsFinite DEF SInv
  <2>2. rounds' \in Nat /\ pc' \in {"accepted", "test"} /\ prog' = prog /\ named' = named
    BY <1>1, <2>1 DEF Count, TypeOK
  <2> QED
    BY <1>0, <2>2 DEF TypeOK
<1>2. CASE StartRound
  BY <1>0, <1>2 DEF StartRound, TypeOK
<1>3. CASE RaiseRule
  BY <1>0, <1>3 DEF RaiseRule, TypeOK
<1>4. CASE EndRound \/ Accept
  BY <1>0, <1>4 DEF EndRound, Accept, TypeOK
<1>5. CASE Reject
  <2>1. /\ UNCHANGED <<prog, rounds>> /\ pc' = "rejected"
        /\ \/ named' = Unnamed
           \/ \E r \in Rules : \E n \in prog[r].guards \cup prog[r].loads : named' = n
    BY <1>5 DEF Reject
  <2>2. \A r \in Rules : prog[r].guards \cup prog[r].loads \subseteq Nums
    BY ReadsAreNums DEF SInv
  <2>3. named' \in Nums \cup {NoFluent, Unnamed}
    BY <2>1, <2>2
  <2> QED
    BY <1>0, <2>1, <2>3 DEF TypeOK
<1>6. CASE Returned \/ UNCHANGED vars
  BY <1>0, <1>6 DEF Returned, vars, TypeOK
<1> QED
  BY <1>1, <1>2, <1>3, <1>4, <1>5, <1>6 DEF Next

\* The pass keeps the types of its state, and what it names in a rejection is a
\* numeric fluent of the program or nothing.
THEOREM TypeCorrect == Spec => []TypeOK
<1>1. Init => TypeOK
  BY DEF Init, TypeOK
<1> QED
  BY SweepsCheck, <1>1, TypesStep, PTL DEF Spec
=============================================================================
