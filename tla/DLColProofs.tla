----------------------------- MODULE DLColProofs -----------------------------
(***************************************************************************)
(* Theorems about the columnar family of dl_col.c, for every number of     *)
(* atoms, entities and bits and every family its caller builds.            *)
(***************************************************************************)
EXTENDS DLCol, DLTheoryProofs

-----------------------------------------------------------------------------
(* The flat bodies.  A body ends where the next one starts, the watermark  *)
(* between two rules lies between their bodies, and rules are about        *)
(* literals the family has room for.                                       *)

FlatRule == [kind : RuleKind, head : Lits, off : Nat]

Slices ==
  /\ rules \in Seq(FlatRule) /\ body \in Seq(Lits) /\ sups \in Seq(SupPool)
  /\ \A r \in DOMAIN rules : rules[r].off <= Len(body)
  /\ \A r, s \in DOMAIN rules : r <= s => rules[r].off <= rules[s].off
  /\ BodyEnd(0) = 0

Watermark ==
  /\ mark \in Nat \X Nat \X Nat
  /\ mark[1] <= Len(rules) /\ mark[2] <= Len(body) /\ mark[3] <= Len(sups)
  /\ BodyEnd(mark[1]) = mark[2]

Roomy ==
  /\ natoms \in Sizes
  /\ \A r \in DOMAIN rules : rules[r].head \in Located
  /\ \A i \in DOMAIN body : body[i] \in Located

Shape == Slices /\ Watermark /\ Roomy

\* An empty family.
LEMMA ShapeInit == Init => Shape
<1> SUFFICES ASSUME Init PROVE Shape
  OBVIOUS
<1>1. rules = <<>> /\ body = <<>> /\ sups = <<>> /\ mark = <<0, 0, 0>> /\ natoms \in Sizes
  BY DEF Init
<1>2. Len(rules) = 0 /\ Len(body) = 0 /\ Len(sups) = 0 /\ DOMAIN rules = {} /\ DOMAIN body = {}
  BY <1>1
<1>3. BodyEnd(0) = 0
  BY <1>2 DEF BodyEnd
<1>4. rules \in Seq(FlatRule) /\ body \in Seq(Lits) /\ sups \in Seq(SupPool)
  BY <1>1
<1>5. Slices
  BY <1>2, <1>3, <1>4 DEF Slices
<1>6. Watermark
  BY <1>1, <1>2, <1>3 DEF Watermark
<1>7. Roomy
  BY <1>1, <1>2 DEF Roomy
<1> QED
  BY <1>5, <1>6, <1>7 DEF Shape

\* The bodies lie one after the other in the flat array.
LEMMA BodyEndBounds ==
  ASSUME Slices
  PROVE  /\ Len(rules) \in Nat /\ Len(body) \in Nat
         /\ \A r \in 0 .. Len(rules) : BodyEnd(r) \in Nat /\ BodyEnd(r) <= Len(body)
         /\ \A r \in DOMAIN rules : rules[r].off \in Nat /\ rules[r].off <= BodyEnd(r)
         /\ \A r \in DOMAIN rules : \A i \in (rules[r].off + 1) .. BodyEnd(r) : i \in DOMAIN body
<1>1. rules \in Seq(FlatRule) /\ body \in Seq(Lits)
  BY DEF Slices
<1>2. Len(rules) \in Nat /\ Len(body) \in Nat /\ DOMAIN rules = 1 .. Len(rules)
      /\ DOMAIN body = 1 .. Len(body)
  BY <1>1
<1>3. \A r \in DOMAIN rules : rules[r] \in FlatRule
  BY <1>1
<1>4. \A r \in DOMAIN rules : rules[r].off \in Nat
  BY <1>3 DEF FlatRule
<1>5. \A r \in 0 .. Len(rules) : r < Len(rules) => r + 1 \in DOMAIN rules
  BY <1>2
<1>6. \A r \in 0 .. Len(rules) : BodyEnd(r) \in Nat /\ BodyEnd(r) <= Len(body)
  BY <1>2, <1>4, <1>5 DEF BodyEnd, Slices
<1>7. ASSUME NEW r \in DOMAIN rules PROVE rules[r].off <= BodyEnd(r)
  <2>1. CASE r < Len(rules)
    <3>1. r \in 0 .. Len(rules) /\ r \in Nat /\ r <= r + 1
      BY <1>2
    <3>2. r + 1 \in DOMAIN rules
      BY <1>5, <2>1, <3>1
    <3>3. rules[r].off <= rules[r + 1].off
      BY <3>1, <3>2 DEF Slices
    <3> QED
      BY <2>1, <3>3 DEF BodyEnd
  <2>2. CASE ~ (r < Len(rules))
    BY <2>2 DEF BodyEnd, Slices
  <2> QED
    BY <2>1, <2>2
<1>8. ASSUME NEW r \in DOMAIN rules, NEW i \in (rules[r].off + 1) .. BodyEnd(r) PROVE i \in DOMAIN body
  <2>1. r \in 0 .. Len(rules)
    BY <1>2
  <2>2. BodyEnd(r) \in Nat /\ BodyEnd(r) <= Len(body) /\ rules[r].off \in Nat
    BY <1>4, <1>6, <2>1
  <2> QED
    BY <1>2, <2>2
<1> QED
  BY <1>2, <1>4, <1>6, <1>7, <1>8

\* Rules decode to rules of a theory, about literals there is room for.
LEMMA DecodedRules ==
  ASSUME Shape
  PROVE  /\ DOMAIN Decoded = DOMAIN rules
         /\ \A r \in DOMAIN rules : BodyOf(r) \subseteq Lits /\ BodyOf(r) \subseteq Located
         /\ Decoded \in Seq(Rule)
<1>1. rules \in Seq(FlatRule) /\ body \in Seq(Lits)
  BY DEF Shape, Slices
<1>2. \A r \in DOMAIN rules : rules[r].kind \in RuleKind /\ rules[r].head \in Lits
  <2>1. \A r \in DOMAIN rules : rules[r] \in FlatRule
    BY <1>1
  <2> QED
    BY <2>1 DEF FlatRule
<1>3. \A r \in DOMAIN rules : BodyOf(r) \subseteq Lits /\ BodyOf(r) \subseteq Located
  BY <1>1, BodyEndBounds DEF BodyOf, Shape, Roomy
<1>4. \A r \in DOMAIN rules : Decoded[r] \in Rule
  BY <1>2, <1>3 DEF Decoded, Rule
<1>5. Len(rules) \in Nat /\ DOMAIN rules = 1 .. Len(rules)
  BY <1>1
<1>6. DOMAIN Decoded = DOMAIN rules
  BY DEF Decoded
<1>7. Decoded = [r \in 1 .. Len(rules) |-> Decoded[r]]
  <2> DEFINE e(r) == [kind |-> rules[r].kind, head |-> rules[r].head, body |-> BodyOf(r)]
  <2>1. Decoded = [r \in 1 .. Len(rules) |-> e(r)]
    BY <1>5 DEF Decoded
  <2> HIDE DEF e
  <2> QED
    BY <2>1
<1> QED
  BY <1>3, <1>4, <1>5, <1>6, <1>7
\* A rule added at the end reads the literals put after the flat bodies.
LEMMA AddedRule ==
  ASSUME Shape, NEW r \in RulePool, AddRule(r)
  PROVE  Shape' /\ Decoded' = Append(Decoded, r)
<1>n. PICK n, m : n = Len(rules) /\ m = Len(body)
  OBVIOUS
<1> DEFINE b == ByIndex(r.body)
           x == [kind |-> r.kind, head |-> r.head, off |-> m]
<1>1. /\ rules \in Seq(FlatRule) /\ body \in Seq(Lits) /\ sups \in Seq(SupPool)
      /\ DOMAIN rules = 1 .. n /\ DOMAIN body = 1 .. m /\ n \in Nat /\ m \in Nat
  BY <1>n DEF Shape, Slices
<1>2. r \in Rule /\ r.kind \in RuleKind /\ r.head \in Lits /\ r.body \in SUBSET Lits
  BY FamilyAssumption DEF Rule
<1>3. b \in Seq(Lits) /\ Range(b) = r.body /\ Len(b) \in Nat /\ DOMAIN b = 1 .. Len(b)
  <2>1. b \in Seq(r.body) /\ Range(b) = r.body
    BY <1>2, ByIndexLists
  <2> HIDE DEF b
  <2> QED
    BY <1>2, <2>1
<1>4. rules' = Append(rules, x) /\ body' = body \o b /\ UNCHANGED <<sups, natoms, mark>>
  BY <1>n DEF AddRule
<1>5. {r.head} \cup r.body \subseteq Located
  BY DEF AddRule
<1>x. x \in FlatRule /\ x.kind = r.kind /\ x.head = r.head /\ x.off = m
  BY <1>1, <1>2 DEF FlatRule
<1> HIDE DEF b, x
<1>6. /\ rules' \in Seq(FlatRule) /\ Len(rules') = n + 1 /\ DOMAIN rules' = 1 .. n + 1
      /\ \A s \in 1 .. n : rules'[s] = rules[s]
      /\ rules'[n + 1] = x
  BY <1>n, <1>1, <1>4, <1>x
<1>7. /\ body' \in Seq(Lits) /\ Len(body') = m + Len(b) /\ DOMAIN body' = 1 .. m + Len(b)
      /\ \A i \in 1 .. m : body'[i] = body[i]
      /\ \A i \in m + 1 .. m + Len(b) : body'[i] = b[i - m]
  BY <1>n, <1>1, <1>3, <1>4
<1>8. \A s \in 0 .. n : BodyEnd(s)' = BodyEnd(s) /\ BodyEnd(s) \in Nat /\ BodyEnd(s) <= m
  <2>1. \A s \in 0 .. n : BodyEnd(s) \in Nat /\ BodyEnd(s) <= m
    BY <1>n, BodyEndBounds DEF Shape
  <2>2. ASSUME NEW s \in 0 .. n PROVE BodyEnd(s)' = BodyEnd(s)
    <3>1. BodyEnd(s)' = IF s < n + 1 THEN rules'[s + 1].off ELSE m + Len(b)
      BY <1>6, <1>7 DEF BodyEnd
    <3>2. BodyEnd(s) = IF s < n THEN rules[s + 1].off ELSE m
      BY <1>n DEF BodyEnd
    <3>3. CASE s < n
      <4>1. s + 1 \in 1 .. n /\ s < n + 1
        BY <1>1, <3>3
      <4> QED
        BY <1>6, <3>1, <3>2, <3>3, <4>1
    <3>4. CASE ~ (s < n)
      <4>1. s = n /\ s < n + 1
        BY <1>1, <3>4
      <4> QED
        BY <1>6, <1>x, <3>1, <3>2, <3>4, <4>1
    <3> QED
      BY <3>3, <3>4
  <2> QED
    BY <2>1, <2>2
<1>9. BodyEnd(n + 1)' = m + Len(b)
  BY <1>1, <1>6, <1>7 DEF BodyEnd
<1>10. Slices'
  <2>1. \A s \in DOMAIN rules' : rules'[s].off <= Len(body')
    <3> SUFFICES ASSUME NEW s \in 1 .. n + 1 PROVE rules'[s].off <= m + Len(b)
      BY <1>6, <1>7
    <3>1. CASE s \in 1 .. n
      <4>1. rules[s].off \in Nat /\ rules[s].off <= m
        BY <1>n, <1>1, <3>1, BodyEndBounds DEF Shape, Slices
      <4> QED
        BY <1>1, <1>3, <1>6, <3>1, <4>1
    <3>2. CASE s = n + 1
      BY <1>1, <1>3, <1>6, <1>x, <3>2
    <3> QED
      BY <1>1, <3>1, <3>2
  <2>2. \A s, u \in DOMAIN rules' : s <= u => rules'[s].off <= rules'[u].off
    <3> SUFFICES ASSUME NEW s \in 1 .. n + 1, NEW u \in 1 .. n + 1, s <= u
                 PROVE  rules'[s].off <= rules'[u].off
      BY <1>6
    <3>1. CASE u \in 1 .. n
      <4>1. s \in 1 .. n
        BY <1>1, <3>1
      <4>2. rules[s].off <= rules[u].off
        BY <1>1, <3>1, <4>1 DEF Shape, Slices
      <4> QED
        BY <1>6, <3>1, <4>1, <4>2
    <3>2. CASE s \in 1 .. n /\ u = n + 1
      <4>1. rules[s].off <= m
        BY <1>n, <1>1, <3>2 DEF Shape, Slices
      <4> QED
        BY <1>6, <1>x, <3>2, <4>1
    <3>3. CASE s = n + 1 /\ u = n + 1
      BY <1>1, <1>6, <1>x, <3>3
    <3> QED
      BY <1>1, <3>1, <3>2, <3>3
  <2>3. BodyEnd(0)' = 0
    <3>1. 0 \in 0 .. n
      BY <1>1
    <3> QED
      BY <1>8, <3>1 DEF Shape, Slices
  <2> QED
    BY <1>1, <1>4, <1>6, <1>7, <2>1, <2>2, <2>3 DEF Slices
<1>11. Watermark'
  <2>1. mark[1] \in Nat /\ mark[2] \in Nat /\ mark[1] <= n /\ mark[2] <= m /\ mark[3] <= Len(sups)
        /\ BodyEnd(mark[1]) = mark[2] /\ mark \in Nat \X Nat \X Nat
    BY <1>n DEF Shape, Watermark
  <2>2. mark[1] \in 0 .. n /\ mark[1] <= n + 1 /\ mark[2] <= m + Len(b)
    BY <1>1, <1>3, <2>1
  <2> QED
    BY <1>4, <1>6, <1>7, <1>8, <2>1, <2>2 DEF Watermark
<1>12. Roomy'
  <2>1. natoms' \in Sizes /\ Located' = Located
    BY <1>4 DEF Shape, Roomy, Located
  <2>2. \A s \in 1 .. n + 1 : rules'[s].head \in Located
    <3>1. \A s \in 1 .. n : rules[s].head \in Located
      BY <1>1 DEF Shape, Roomy
    <3>2. \A s \in 1 .. n + 1 : s \in 1 .. n \/ s = n + 1
      BY <1>1
    <3> QED
      BY <1>5, <1>6, <1>x, <3>1, <3>2
  <2>3. ASSUME NEW i \in 1 .. m + Len(b) PROVE body'[i] \in Located
    <3>1. CASE i \in 1 .. m
      BY <1>1, <1>7, <3>1 DEF Shape, Roomy
    <3>2. CASE i \in m + 1 .. m + Len(b)
      <4>1. i - m \in 1 .. Len(b)
        BY <1>1, <1>3, <3>2
      <4>2. b[i - m] \in r.body
        BY <1>3, <4>1 DEF Range
      <4> QED
        BY <1>5, <1>7, <3>2, <4>2
    <3> QED
      BY <1>1, <1>3, <3>1, <3>2
  <2> QED
    BY <1>6, <1>7, <2>1, <2>2, <2>3 DEF Roomy
<1>13. ASSUME NEW s \in 1 .. n PROVE BodyOf(s)' = BodyOf(s)
  <2>1. rules'[s].off = rules[s].off /\ BodyEnd(s)' = BodyEnd(s)
    <3>1. s \in 0 .. n
      BY <1>1
    <3> QED
      BY <1>6, <1>8, <3>1
  <2>2. \A i \in (rules[s].off + 1) .. BodyEnd(s) : body'[i] = body[i]
    BY <1>1, <1>7, BodyEndBounds DEF Shape
  <2> QED
    BY <2>1, <2>2 DEF BodyOf
<1>14. BodyOf(n + 1)' = r.body
  <2>1. BodyOf(n + 1)' = {body'[i] : i \in m + 1 .. m + Len(b)}
    BY <1>6, <1>9, <1>x DEF BodyOf
  <2>2. \A i \in m + 1 .. m + Len(b) : i - m \in 1 .. Len(b) /\ body'[i] = b[i - m]
    BY <1>1, <1>3, <1>7
  <2>3. \A i \in 1 .. Len(b) : i + m \in m + 1 .. m + Len(b) /\ body'[i + m] = b[i]
    <3>1. \A i \in 1 .. Len(b) : i + m \in m + 1 .. m + Len(b) /\ (i + m) - m = i
      BY <1>1, <1>3
    <3> QED
      BY <2>2, <3>1
  <2>4. r.body = {b[i] : i \in 1 .. Len(b)}
    BY <1>3 DEF Range
  <2> QED
    BY <2>1, <2>2, <2>3, <2>4
<1>15. Decoded' = Append(Decoded, r)
  <2> DEFINE D == Append(Decoded, r)
  <2>0. Decoded \in Seq(Rule) /\ Len(Decoded) = n
    <3>1. Decoded \in Seq(Rule) /\ DOMAIN Decoded = 1 .. n
      BY <1>1, DecodedRules
    <3> QED
      BY <1>1, <3>1
  <2>1. D \in Seq(Rule) /\ DOMAIN D = 1 .. n + 1 /\ D[n + 1] = r /\ \A s \in 1 .. n : D[s] = Decoded[s]
    BY <1>1, <1>2, <2>0
  <2>2. Decoded' = [s \in 1 .. n + 1 |-> [kind |-> rules'[s].kind, head |-> rules'[s].head, body |-> BodyOf(s)']]
    BY <1>6 DEF Decoded
  <2>3. \A s \in 1 .. n + 1 : Decoded'[s] = D[s]
    <3> SUFFICES ASSUME NEW s \in 1 .. n + 1 PROVE Decoded'[s] = D[s]
      OBVIOUS
    <3>1. Decoded'[s] = [kind |-> rules'[s].kind, head |-> rules'[s].head, body |-> BodyOf(s)']
      BY <2>2
    <3>2. CASE s \in 1 .. n
      <4>1. Decoded[s] = [kind |-> rules[s].kind, head |-> rules[s].head, body |-> BodyOf(s)]
        BY <1>1, <3>2 DEF Decoded
      <4> HIDE DEF D
      <4> QED
        BY <1>6, <1>13, <2>1, <3>1, <3>2, <4>1
    <3>3. CASE s = n + 1
      <4>1. r = [kind |-> r.kind, head |-> r.head, body |-> r.body]
        BY <1>2 DEF Rule
      <4> HIDE DEF D
      <4> QED
        BY <1>6, <1>x, <1>14, <2>1, <3>1, <3>3, <4>1
    <3>4. s \in 1 .. n \/ s = n + 1
      BY <1>1
    <3> QED
      BY <3>2, <3>3, <3>4
  <2> HIDE DEF D
  <2>4. Decoded' = [s \in 1 .. n + 1 |-> Decoded'[s]]
    BY <2>2
  <2>5. D = [s \in 1 .. n + 1 |-> D[s]]
    BY <2>1
  <2> QED
    BY <2>3, <2>4, <2>5 DEF D
<1> QED
  BY <1>10, <1>11, <1>12, <1>15 DEF Shape

\* The first w elements of a sequence.
LEMMA FirstOf ==
  ASSUME NEW S, NEW s \in Seq(S), NEW w \in Nat, w <= Len(s)
  PROVE  /\ SubSeq(s, 1, w) \in Seq(S) /\ Len(SubSeq(s, 1, w)) = w /\ DOMAIN SubSeq(s, 1, w) = 1 .. w
         /\ \A i \in 1 .. w : SubSeq(s, 1, w)[i] = s[i] /\ i \in DOMAIN s
<1>1. Len(s) \in Nat /\ DOMAIN s = 1 .. Len(s) /\ \A i \in 1 .. Len(s) : s[i] \in S
  OBVIOUS
<1>2. \A i \in 1 .. w : i \in 1 .. Len(s)
  BY <1>1
<1>3. SubSeq(s, 1, w) = [i \in 1 .. w |-> s[i]]
  BY <1>1
<1> QED
  BY <1>1, <1>2, <1>3

\* Cutting back to the watermark leaves the rules before it as they were.
LEMMA TruncatedRules ==
  ASSUME Shape, Truncate
  PROVE  Shape' /\ Decoded' = SubSeq(Decoded, 1, mark[1])
<1>n. PICK n, m, w, v, p : n = Len(rules) /\ m = Len(body) /\ w = mark[1] /\ v = mark[2] /\ p = mark[3]
  OBVIOUS
<1>1. /\ rules \in Seq(FlatRule) /\ body \in Seq(Lits) /\ sups \in Seq(SupPool)
      /\ DOMAIN rules = 1 .. n /\ DOMAIN body = 1 .. m /\ n \in Nat /\ m \in Nat
  BY <1>n DEF Shape, Slices
<1>2. /\ mark \in Nat \X Nat \X Nat /\ w \in Nat /\ v \in Nat /\ p \in Nat
      /\ w <= n /\ v <= m /\ p <= Len(sups) /\ BodyEnd(w) = v
  BY <1>n DEF Shape, Watermark
<1>3. /\ rules' = SubSeq(rules, 1, w) /\ body' = SubSeq(body, 1, v) /\ sups' = SubSeq(sups, 1, p)
      /\ UNCHANGED <<natoms, mark>>
  BY <1>n DEF Truncate
<1>4. /\ rules' \in Seq(FlatRule) /\ Len(rules') = w /\ DOMAIN rules' = 1 .. w
      /\ \A r \in 1 .. w : rules'[r] = rules[r] /\ r \in 1 .. n
  <2>1. w <= Len(rules)
    BY <1>n, <1>2
  <2>2. rules \in Seq(FlatRule) /\ w \in Nat /\ DOMAIN rules = 1 .. n
    BY <1>1, <1>2
  <2> QED
    BY ONLY <1>3, <2>1, <2>2, FirstOf
<1>5. /\ body' \in Seq(Lits) /\ Len(body') = v /\ DOMAIN body' = 1 .. v
      /\ \A i \in 1 .. v : body'[i] = body[i] /\ i \in 1 .. m
  <2>1. v <= Len(body)
    BY <1>n, <1>2
  <2>2. body \in Seq(Lits) /\ v \in Nat /\ DOMAIN body = 1 .. m
    BY <1>1, <1>2
  <2> QED
    BY ONLY <1>3, <2>1, <2>2, FirstOf
<1>6. sups' \in Seq(SupPool) /\ Len(sups') = p
  BY <1>1, <1>2, <1>3
<1>7. \A r \in 1 .. w : BodyEnd(r) \in Nat /\ BodyEnd(r) <= v
  <2> SUFFICES ASSUME NEW r \in 1 .. w PROVE BodyEnd(r) \in Nat /\ BodyEnd(r) <= v
    OBVIOUS
  <2>1. r \in 0 .. n /\ w \in 0 .. n
    BY <1>1, <1>2
  <2>2. BodyEnd(r) \in Nat /\ BodyEnd(r) <= m
    BY <1>n, <2>1, BodyEndBounds DEF Shape
  <2>3. CASE r = w
    BY <1>2, <2>2, <2>3
  <2>4. CASE r < w /\ w < n
    <3>1. r + 1 \in 1 .. n /\ w + 1 \in 1 .. n /\ r + 1 <= w + 1 /\ r < n
      BY <1>1, <1>2, <2>4
    <3>2. rules[r + 1].off <= rules[w + 1].off
      BY <1>1, <3>1 DEF Shape, Slices
    <3>3. BodyEnd(r) = rules[r + 1].off /\ BodyEnd(w) = rules[w + 1].off
      BY <1>n, <2>4, <3>1 DEF BodyEnd
    <3> QED
      BY <1>2, <2>2, <3>2, <3>3
  <2>5. CASE w = n
    <3>1. v = m
      BY <1>n, <1>2, <1>1, <2>5 DEF BodyEnd
    <3> QED
      BY <2>2, <3>1
  <2> QED
    BY <1>1, <1>2, <2>3, <2>4, <2>5
<1>8. \A r \in 0 .. w : BodyEnd(r)' = BodyEnd(r)
  <2> SUFFICES ASSUME NEW r \in 0 .. w PROVE BodyEnd(r)' = BodyEnd(r)
    OBVIOUS
  <2>1. BodyEnd(r)' = IF r < w THEN rules'[r + 1].off ELSE v
    BY <1>4, <1>5 DEF BodyEnd
  <2>2. CASE r < w
    <3>1. r + 1 \in 1 .. w /\ r < n
      BY <1>1, <1>2, <2>2
    <3> QED
      BY <1>n, <1>4, <2>1, <2>2, <3>1 DEF BodyEnd
  <2>3. CASE ~ (r < w)
    <3>1. r = w
      BY <1>2, <2>3
    <3> QED
      BY <1>2, <2>1, <2>3, <3>1
  <2> QED
    BY <2>2, <2>3
<1>9. ASSUME NEW r \in 1 .. w
      PROVE  /\ rules[r].off \in Nat /\ rules[r].off <= BodyEnd(r) /\ BodyEnd(r) <= v
             /\ BodyEnd(r) \in Nat /\ BodyEnd(r)' = BodyEnd(r)
  <2>1. r \in DOMAIN rules /\ r \in 0 .. w
    BY <1>1, <1>4
  <2> QED
    BY <1>7, <1>8, <2>1, BodyEndBounds DEF Shape
<1>10. Slices'
  <2>1. \A r \in DOMAIN rules' : rules'[r].off <= Len(body')
    <3>1. \A r \in 1 .. w : rules[r].off <= v
      BY <1>2, <1>9
    <3> QED
      BY <1>4, <1>5, <3>1
  <2>2. \A r, s \in DOMAIN rules' : r <= s => rules'[r].off <= rules'[s].off
    BY <1>1, <1>4 DEF Shape, Slices
  <2>3. BodyEnd(0)' = 0
    <3>1. 0 \in 0 .. w
      BY <1>2
    <3> QED
      BY <1>8, <3>1 DEF Shape, Slices
  <2> QED
    BY <1>4, <1>5, <1>6, <2>1, <2>2, <2>3 DEF Slices
<1>11. Watermark'
  <2>1. w \in 0 .. w
    BY <1>2
  <2>2. BodyEnd(w)' = v
    BY <1>2, <1>8, <2>1
  <2>3. mark' = mark
    BY <1>3
  <2> QED
    BY <1>n, <1>2, <1>4, <1>5, <1>6, <2>2, <2>3 DEF Watermark
<1>12. Roomy'
  <2>1. natoms' \in Sizes /\ Located' = Located
    BY <1>3 DEF Shape, Roomy, Located
  <2> QED
    BY <1>1, <1>4, <1>5, <2>1 DEF Shape, Roomy
<1>13. ASSUME NEW r \in 1 .. w PROVE BodyOf(r)' = BodyOf(r)
  <2>1. rules'[r].off = rules[r].off /\ BodyEnd(r)' = BodyEnd(r)
    BY <1>4, <1>9
  <2>2. \A i \in (rules[r].off + 1) .. BodyEnd(r) : body'[i] = body[i]
    BY <1>2, <1>5, <1>9
  <2> QED
    BY <2>1, <2>2 DEF BodyOf
<1>14. Decoded' = SubSeq(Decoded, 1, w)
  <2> DEFINE D == SubSeq(Decoded, 1, w)
  <2>0. Decoded \in Seq(Rule) /\ Len(Decoded) = n
    <3>1. Decoded \in Seq(Rule) /\ DOMAIN Decoded = 1 .. n
      BY <1>1, DecodedRules
    <3> QED
      BY <1>1, <3>1
  <2>1. D \in Seq(Rule) /\ DOMAIN D = 1 .. w /\ \A s \in 1 .. w : D[s] = Decoded[s]
    BY <1>1, <1>2, <2>0
  <2> HIDE DEF D
  <2>2. Decoded' = [s \in 1 .. w |-> [kind |-> rules'[s].kind, head |-> rules'[s].head, body |-> BodyOf(s)']]
    BY <1>4 DEF Decoded
  <2>3. \A s \in 1 .. w : Decoded'[s] = D[s]
    <3> SUFFICES ASSUME NEW s \in 1 .. w PROVE Decoded'[s] = D[s]
      OBVIOUS
    <3>1. Decoded'[s] = [kind |-> rules'[s].kind, head |-> rules'[s].head, body |-> BodyOf(s)']
      BY <2>2
    <3>2. Decoded[s] = [kind |-> rules[s].kind, head |-> rules[s].head, body |-> BodyOf(s)]
      BY <1>1, <1>4 DEF Decoded
    <3> QED
      BY <1>4, <1>13, <2>1, <3>1, <3>2
  <2>4. Decoded' = [s \in 1 .. w |-> Decoded'[s]]
    BY <2>2
  <2>5. D = [s \in 1 .. w |-> D[s]]
    BY <2>1
  <2> QED
    BY <2>3, <2>4, <2>5 DEF D
<1> QED
  BY <1>n, <1>10, <1>11, <1>12, <1>14 DEF Shape

\* Nothing else changes what the rules say.
LEMMA SameRules ==
  ASSUME UNCHANGED <<rules, body>>
  PROVE  /\ Decoded' = Decoded
         /\ \A r : BodyOf(r)' = BodyOf(r) /\ BodyEnd(r)' = BodyEnd(r)
BY DEF Decoded, BodyOf, BodyEnd

\* Every step keeps the shape of the family.
LEMMA ShapeStep == Shape /\ [Next]_vars => Shape'
<1> SUFFICES ASSUME Shape, [Next]_vars PROVE Shape'
  OBVIOUS
<1>1. CASE UNCHANGED theory
  <2>1. BodyEnd(0)' = BodyEnd(0) /\ BodyEnd(mark[1])' = BodyEnd(mark[1]) /\ UNCHANGED mark
    BY <1>1, SameRules DEF theory
  <2> QED
    BY <1>1, <2>1 DEF theory, Shape, Slices, Watermark, Roomy, Located
<1>2. ASSUME NEW r \in RulePool, AddRule(r) PROVE Shape'
  BY <1>2, AddedRule
<1>3. ASSUME NEW p \in SupPool, AddSup(p) PROVE Shape'
  <2>1. UNCHANGED <<rules, body, natoms, mark>> /\ sups' = Append(sups, p)
    BY <1>3 DEF AddSup
  <2>2. BodyEnd(0)' = BodyEnd(0) /\ BodyEnd(mark[1])' = BodyEnd(mark[1])
    BY <2>1, SameRules
  <2>3. sups \in Seq(SupPool) /\ mark[3] \in Nat /\ mark[3] <= Len(sups)
    BY DEF Shape, Slices, Watermark
  <2>4. sups' \in Seq(SupPool) /\ mark[3] <= Len(sups')
    BY <2>1, <2>3
  <2> QED
    BY <2>1, <2>2, <2>4 DEF Shape, Slices, Watermark, Roomy, Located
<1>4. CASE Mark
  <2>1. UNCHANGED <<rules, body, sups, natoms>> /\ mark' = <<Len(rules), Len(body), Len(sups)>>
    BY <1>4 DEF Mark
  <2>2. BodyEnd(0)' = BodyEnd(0) /\ BodyEnd(Len(rules)) = Len(body)
    <3>1. Len(rules) \in Nat
      BY DEF Shape, Slices
    <3> QED
      BY <2>1, <3>1, SameRules DEF BodyEnd
  <2>3. Len(rules) \in Nat /\ Len(body) \in Nat /\ Len(sups) \in Nat
    BY DEF Shape, Slices
  <2>4. mark'[1] = Len(rules) /\ mark'[2] = Len(body) /\ mark'[3] = Len(sups)
        /\ BodyEnd(mark[1])' = Len(body)
    <3>1. mark'[1] = Len(rules) /\ mark'[2] = Len(body) /\ mark'[3] = Len(sups)
      BY <2>1
    <3>2. BodyEnd(mark[1])' = IF mark'[1] < Len(rules') THEN rules'[mark'[1] + 1].off ELSE Len(body')
      BY DEF BodyEnd
    <3> QED
      BY <2>1, <2>3, <3>1, <3>2
  <2>5. Watermark'
    BY <2>1, <2>3, <2>4 DEF Watermark
  <2>6. Slices' /\ Roomy'
    BY <2>1, <2>2 DEF Shape, Slices, Roomy, Located
  <2> QED
    BY <2>5, <2>6 DEF Shape
<1>5. CASE Truncate
  BY <1>5, TruncatedRules
<1>6. ASSUME NEW n \in Sizes, EnsureAtoms(n) PROVE Shape'
  <2>1. UNCHANGED <<rules, body, sups, mark>> /\ natoms' = n /\ n > natoms
    BY <1>6 DEF EnsureAtoms
  <2>2. BodyEnd(0)' = BodyEnd(0) /\ BodyEnd(mark[1])' = BodyEnd(mark[1])
    BY <2>1, SameRules
  <2>3. natoms \in Int /\ n \in Int
    <3>1. \A x \in Sizes : x \in Int
      BY FamilyAssumption, NAtomsAssumption
    <3> QED
      BY <3>1 DEF Shape, Roomy
  <2>4. \A q \in Located : q \in Located'
    <3> SUFFICES ASSUME NEW q \in Lits, q < 2 * natoms PROVE q < 2 * n
      BY <2>1 DEF Located
    <3>1. q \in Int
      BY NAtomsAssumption DEF Lits
    <3> QED
      BY <2>1, <2>3, <3>1
  <2>5. Roomy'
    BY <2>1, <2>4 DEF Shape, Roomy
  <2> QED
    BY <2>1, <2>2, <2>5 DEF Shape, Slices, Watermark
<1>7. CASE ClearFacts
  BY <1>1, <1>7 DEF ClearFacts
<1>8. ASSUME NEW x \in FactPool, AddFact(x[1], x[2]) PROVE Shape'
  BY <1>1, <1>8 DEF AddFact
<1>9. ASSUME NEW x \in OpenPool, SetOpen(x[1], x[2]) PROVE Shape'
  BY <1>1, <1>9 DEF SetOpen
<1>10. CASE Solve
  BY <1>1, <1>10 DEF Solve
<1>11. CASE Running
  <2>1. UNCHANGED theory
    BY <1>11 DEF Running, VisitDelta, VisitPart, SweepDone, CompleteVisit, CompleteDone
  <2> QED
    BY <1>1, <2>1
<1>12. CASE UNCHANGED vars
  BY <1>1, <1>12 DEF vars
<1> QED
  BY <1>2, <1>3, <1>4, <1>5, <1>6, <1>7, <1>8, <1>9, <1>10, <1>11, <1>12 DEF Next, Edit

-----------------------------------------------------------------------------
(* The columns.                                                            *)

EntRows == [Lits -> SUBSET Ents]

Columns ==
  /\ fact \in EntRows /\ open \in EntRows
  /\ dt \in EntRows /\ df \in EntRows /\ pt \in EntRows /\ pf \in EntRows
  /\ completed \in EntRows

\* Rows without bits are rows over the entities.
LEMMA NoRowType == NoRow \in EntRows
BY DEF NoRow, EntRows

\* Bits over the entities are added to one row of a column.
LEMMA RowGrows ==
  ASSUME NEW col \in EntRows, NEW q, NEW new \in SUBSET Ents
  PROVE  /\ [col EXCEPT ![q] = @ \cup new] \in EntRows
         /\ \A b \in Lits : col[b] \subseteq [col EXCEPT ![q] = @ \cup new][b]
<1>1. CASE q \in Lits
  BY <1>1 DEF EntRows
<1>2. CASE q \notin Lits
  BY <1>2 DEF EntRows
<1> QED
  BY <1>1, <1>2

\* What a visit decides, and what a component's completion refutes, is about entities.
LEMMA NewBits ==
  /\ \A q : DeltaBits(q).t \in SUBSET Ents /\ DeltaBits(q).f \in SUBSET Ents
  /\ \A q, app : PartBits(q, app).t \in SUBSET Ents /\ PartBits(q, app).f \in SUBSET Ents
  /\ \A c, t, f : \A q \in Lits : Refutes(c, t, f)[q] \in SUBSET Ents
<1>1. ASSUME NEW q PROVE DeltaBits(q).t \in SUBSET Ents /\ DeltaBits(q).f \in SUBSET Ents
  BY DEF DeltaBits
<1>2. ASSUME NEW q, NEW app PROVE PartBits(q, app).t \in SUBSET Ents /\ PartBits(q, app).f \in SUBSET Ents
  BY DEF PartBits
<1>3. ASSUME NEW c, NEW t, NEW f, NEW q \in Lits PROVE Refutes(c, t, f)[q] \in SUBSET Ents
  BY DEF Refutes
<1> QED
  BY <1>1, <1>2, <1>3

\* Facts and open literals of the pools are about entities.
LEMMA PoolBits ==
  ASSUME NEW x \in FactPool \cup OpenPool
  PROVE  x[1] \in Lits /\ x[2] \in Ents
<1>1. x \in Lits \X Ents
  BY FamilyAssumption
<1> QED
  BY <1>1

\* The columns hold rows over the entities, tail bits never reach them.
LEMMA ColumnsInit == Init => Columns
BY NoRowType DEF Init, Columns

LEMMA ColumnsStep == Columns /\ [Next]_vars => Columns'
<1> SUFFICES ASSUME Columns, [Next]_vars PROVE Columns'
  OBVIOUS
<1>1. CASE UNCHANGED <<fact, open, columns>>
  BY <1>1 DEF columns, Columns
<1>2. CASE ClearFacts
  BY <1>2, NoRowType DEF ClearFacts, Columns, columns
<1>3. ASSUME NEW x \in FactPool, AddFact(x[1], x[2]) PROVE Columns'
  <2>1. fact' = [fact EXCEPT ![x[1]] = @ \cup {x[2]}] /\ {x[2]} \in SUBSET Ents
    BY <1>3, PoolBits DEF AddFact
  <2>2. fact' \in EntRows
    BY <2>1, RowGrows DEF Columns
  <2> QED
    BY <1>3, <2>2 DEF AddFact, Columns, columns
<1>4. ASSUME NEW x \in OpenPool, SetOpen(x[1], x[2]) PROVE Columns'
  <2>1. open' = [open EXCEPT ![x[1]] = @ \cup {x[2]}] /\ {x[2]} \in SUBSET Ents
    BY <1>4, PoolBits DEF SetOpen
  <2>2. open' \in EntRows
    BY <2>1, RowGrows DEF Columns
  <2> QED
    BY <1>4, <2>2 DEF SetOpen, Columns, columns
<1>5. CASE Solve
  BY <1>5, NoRowType DEF Solve, Columns
<1>6. CASE VisitDelta
  <2>1. PICK q, b : /\ b.t \in SUBSET Ents /\ b.f \in SUBSET Ents
                    /\ dt' = [dt EXCEPT ![q] = @ \cup b.t]
                    /\ df' = [df EXCEPT ![q] = @ \cup b.f]
    <3> DEFINE q == Cur[k]
               b == IF q \in Located THEN DeltaBits(q) ELSE [t |-> {}, f |-> {}]
    <3>1. b.t \in SUBSET Ents /\ b.f \in SUBSET Ents
      BY NewBits
    <3>2. dt' = [dt EXCEPT ![q] = @ \cup b.t] /\ df' = [df EXCEPT ![q] = @ \cup b.f]
      BY <1>6 DEF VisitDelta
    <3> HIDE DEF q, b
    <3> QED
      BY <3>1, <3>2
  <2>2. dt' \in EntRows /\ df' \in EntRows
    BY <2>1, RowGrows DEF Columns
  <2> QED
    BY <1>6, <2>2 DEF VisitDelta, Columns
<1>7. CASE VisitPart
  <2>1. PICK q, b : /\ b.t \in SUBSET Ents /\ b.f \in SUBSET Ents
                    /\ pt' = [pt EXCEPT ![q] = @ \cup b.t]
                    /\ pf' = [pf EXCEPT ![q] = @ \cup b.f]
    <3> DEFINE q == Cur[k]
               read == IF q \in Located /\ Undecided(pt[q], pf[q]) # {}
                       THEN idx.heads[q] \cup idx.heads[Compl(q)] ELSE {}
               app == [r \in DOMAIN rules |->
                         IF r \in read THEN Refreshed(r) ELSE [t |-> at[r], f |-> af[r]]]
               b == IF q \in Located /\ Undecided(pt[q], pf[q]) # {}
                    THEN PartBits(q, app) ELSE [t |-> {}, f |-> {}]
    <3>2. pt' = [pt EXCEPT ![q] = @ \cup b.t] /\ pf' = [pf EXCEPT ![q] = @ \cup b.f]
      BY <1>7 DEF VisitPart
    <3> HIDE DEF app
    <3>1. b.t \in SUBSET Ents /\ b.f \in SUBSET Ents
      BY NewBits
    <3> HIDE DEF q, b
    <3> QED
      BY <3>1, <3>2
  <2>2. pt' \in EntRows /\ pf' \in EntRows
    BY <2>1, RowGrows DEF Columns
  <2> QED
    BY <1>7, <2>2 DEF VisitPart, Columns
<1>8. CASE SweepDone
  BY <1>1, <1>8 DEF SweepDone
<1>9. CASE CompleteVisit
  <2>1. PICK new : /\ \A q \in Lits : new[q] \in SUBSET Ents
                   /\ \/ df' = [q \in Lits |-> df[q] \cup new[q]] /\ UNCHANGED pf
                      \/ pf' = [q \in Lits |-> pf[q] \cup new[q]] /\ UNCHANGED df
                   /\ completed' = [q \in Lits |-> completed[q] \cup new[q]]
    <3> DEFINE new == IF phase = "delta" THEN Refutes(idx.scc[cid], dt, df)
                                         ELSE Refutes(idx.scc[cid], pt, pf)
    <3>1. \A q \in Lits : new[q] \in SUBSET Ents
      BY NewBits
    <3>2. /\ \/ df' = [q \in Lits |-> df[q] \cup new[q]] /\ UNCHANGED pf
             \/ pf' = [q \in Lits |-> pf[q] \cup new[q]] /\ UNCHANGED df
          /\ completed' = [q \in Lits |-> completed[q] \cup new[q]]
      BY <1>9 DEF CompleteVisit
    <3> HIDE DEF new
    <3> QED
      BY <3>1, <3>2
  <2>2. df' \in EntRows /\ pf' \in EntRows /\ completed' \in EntRows
    BY <2>1 DEF Columns, EntRows
  <2> QED
    BY <1>9, <2>2 DEF CompleteVisit, Columns
<1>10. CASE CompleteDone
  BY <1>1, <1>10 DEF CompleteDone
<1>11. ASSUME NEW r \in RulePool, AddRule(r) PROVE Columns'
  BY <1>1, <1>11 DEF AddRule
<1>12. ASSUME NEW p \in SupPool, AddSup(p) PROVE Columns'
  BY <1>1, <1>12 DEF AddSup
<1>13. CASE Mark
  BY <1>1, <1>13 DEF Mark
<1>14. CASE Truncate
  BY <1>1, <1>14 DEF Truncate
<1>15. ASSUME NEW n \in Sizes, EnsureAtoms(n) PROVE Columns'
  BY <1>1, <1>15 DEF EnsureAtoms
<1>16. CASE UNCHANGED vars
  BY <1>1, <1>16 DEF vars
<1> QED
  BY <1>2, <1>3, <1>4, <1>5, <1>6, <1>7, <1>8, <1>9, <1>10, <1>11, <1>12, <1>13, <1>14, <1>15,
     <1>16 DEF Next, Edit, Running

-----------------------------------------------------------------------------
(* The applicability rows.                                                 *)

\* The rows of rule r are no further than the columns they were computed from.
RowSound(r, t, f, p, n, B) ==
  /\ \A e \in t[r] : \A b \in B : e \in p[b]
  /\ \A e \in f[r] : \E b \in B : e \in n[b]

\* They are empty until the layer that fills them, which only adds to the columns.
AppRows ==
  /\ phase \in {"idle", "delta", "part"}
  /\ phase = "delta" => \A r \in DOMAIN rules : at[r] = {} /\ af[r] = {}
  /\ phase = "part" => \A r \in DOMAIN rules : RowSound(r, at, af, pt, pf, BodyOf(r))

\* Columns that grow keep the rows sound.
LEMMA RowSoundGrows ==
  ASSUME NEW r, NEW t, NEW f, NEW p, NEW n, NEW p2, NEW n2, NEW B,
         \A b \in B : p[b] \subseteq p2[b] /\ n[b] \subseteq n2[b],
         RowSound(r, t, f, p, n, B)
  PROVE  RowSound(r, t, f, p2, n2, B)
BY DEF RowSound

\* A refreshed row is sound, recomputed or trusted.
LEMMA RefreshedSound ==
  ASSUME NEW r, RowSound(r, at, af, pt, pf, BodyOf(r))
  PROVE  /\ \A e \in Refreshed(r).t : \A b \in BodyOf(r) : e \in pt[b]
         /\ \A e \in Refreshed(r).f : \E b \in BodyOf(r) : e \in pf[b]
BY DEF Refreshed, RowSound, And

\* Every step keeps the applicability rows sound.
LEMMA AppRowsStep == Shape /\ Columns /\ AppRows /\ [Next]_vars => AppRows'
<1> SUFFICES ASSUME Shape, Columns, AppRows, [Next]_vars PROVE AppRows'
  OBVIOUS
<1>0. \A r \in DOMAIN rules : BodyOf(r) \subseteq Lits
  BY DecodedRules
<1>1. CASE UNCHANGED <<rules, body, apps, pt, pf, phase>>
  <2>1. \A r : BodyOf(r)' = BodyOf(r)
    BY <1>1, SameRules
  <2> QED
    BY <1>1, <2>1 DEF apps, AppRows
<1>2. CASE phase = "idle" /\ UNCHANGED phase
  BY <1>2 DEF AppRows
<1>3. CASE Solve
  <2>1. phase' = "delta" /\ rules' = rules /\ at' = [r \in DOMAIN rules |-> {}] /\ af' = [r \in DOMAIN rules |-> {}]
    BY <1>3 DEF Solve, theory
  <2>2. \A r \in DOMAIN rules' : at'[r] = {} /\ af'[r] = {}
    BY <2>1
  <2> QED
    BY <2>1, <2>2 DEF AppRows
<1>4. CASE VisitDelta
  BY <1>1, <1>4 DEF VisitDelta, theory
<1>5. CASE VisitPart
  <2> DEFINE q == Cur[k]
             read == IF q \in Located /\ Undecided(pt[q], pf[q]) # {}
                     THEN idx.heads[q] \cup idx.heads[Compl(q)] ELSE {}
             app == [r \in DOMAIN rules |->
                       IF r \in read THEN Refreshed(r) ELSE [t |-> at[r], f |-> af[r]]]
             b == IF q \in Located /\ Undecided(pt[q], pf[q]) # {}
                  THEN PartBits(q, app) ELSE [t |-> {}, f |-> {}]
  <2>1. /\ at' = [r \in DOMAIN rules |-> app[r].t] /\ af' = [r \in DOMAIN rules |-> app[r].f]
        /\ pt' = [pt EXCEPT ![q] = @ \cup b.t] /\ pf' = [pf EXCEPT ![q] = @ \cup b.f]
        /\ UNCHANGED <<rules, body, phase>> /\ phase = "part"
    BY <1>5 DEF VisitPart, theory
  <2> HIDE DEF read
  <2>2. \A r \in DOMAIN rules : app[r] = Refreshed(r) \/ app[r] = [t |-> at[r], f |-> af[r]]
    OBVIOUS
  <2> HIDE DEF app
  <2>3. b.t \in SUBSET Ents /\ b.f \in SUBSET Ents
    BY NewBits
  <2> HIDE DEF q, b
  <2>4. \A x \in Lits : pt[x] \subseteq pt'[x] /\ pf[x] \subseteq pf'[x]
    BY <2>1, <2>3, RowGrows DEF Columns
  <2>5. ASSUME NEW r \in DOMAIN rules PROVE RowSound(r, at', af', pt, pf, BodyOf(r))
    <3>1. RowSound(r, at, af, pt, pf, BodyOf(r))
      BY <2>1 DEF AppRows
    <3>2. /\ \A e \in app[r].t : \A x \in BodyOf(r) : e \in pt[x]
          /\ \A e \in app[r].f : \E x \in BodyOf(r) : e \in pf[x]
      <4>1. CASE app[r] = Refreshed(r)
        BY <3>1, <4>1, RefreshedSound
      <4>2. CASE app[r] = [t |-> at[r], f |-> af[r]]
        BY <3>1, <4>2 DEF RowSound
      <4> QED
        BY <2>2, <4>1, <4>2
    <3>3. at'[r] = app[r].t /\ af'[r] = app[r].f
      BY <2>1
    <3> QED
      BY <3>2, <3>3 DEF RowSound
  <2>6. ASSUME NEW r \in DOMAIN rules PROVE RowSound(r, at', af', pt', pf', BodyOf(r)')
    <3>1. BodyOf(r)' = BodyOf(r)
      BY <2>1, SameRules
    <3>2. \A x \in BodyOf(r) : pt[x] \subseteq pt'[x] /\ pf[x] \subseteq pf'[x]
      BY <1>0, <2>4
    <3> QED
      BY <2>5, <3>1, <3>2, RowSoundGrows
  <2> QED
    BY <2>1, <2>6 DEF AppRows
<1>6. CASE SweepDone
  BY <1>1, <1>6 DEF SweepDone, theory, columns
<1>7. CASE CompleteVisit
  <2>1. UNCHANGED <<rules, body, at, af, pt, phase>>
    BY <1>7 DEF CompleteVisit, theory, apps
  <2>2. \A x \in Lits : pf[x] \subseteq pf'[x]
    <3> DEFINE new == IF phase = "delta" THEN Refutes(idx.scc[cid], dt, df)
                                         ELSE Refutes(idx.scc[cid], pt, pf)
    <3>1. pf' = [x \in Lits |-> pf[x] \cup new[x]] \/ pf' = pf
      BY <1>7 DEF CompleteVisit
    <3> HIDE DEF new
    <3> QED
      BY <3>1
  <2>3. ASSUME NEW r \in DOMAIN rules, phase = "part"
        PROVE  RowSound(r, at', af', pt', pf', BodyOf(r)')
    <3>1. BodyOf(r)' = BodyOf(r) /\ RowSound(r, at, af, pt, pf, BodyOf(r))
      BY <2>1, <2>3, SameRules DEF AppRows
    <3>2. \A x \in BodyOf(r) : pt[x] \subseteq pt'[x] /\ pf[x] \subseteq pf'[x]
      BY <1>0, <2>1, <2>2
    <3> QED
      BY <2>1, <3>1, <3>2, RowSoundGrows
  <2> QED
    BY <2>1, <2>3 DEF AppRows
<1>8. CASE CompleteDone
  <2>1. UNCHANGED <<rules, body, at, af, pt, pf>> /\ phase' \in {phase, IF phase = "delta" THEN "part" ELSE "idle"}
    BY <1>8 DEF CompleteDone, theory, apps, columns
  <2>2. CASE phase' = phase
    BY <1>1, <2>1, <2>2 DEF apps
  <2>3. CASE phase = "delta" /\ phase' = "part"
    <3>1. \A r : BodyOf(r)' = BodyOf(r)
      BY <2>1, SameRules
    <3>2. \A r \in DOMAIN rules : at[r] = {} /\ af[r] = {}
      BY <2>3 DEF AppRows
    <3> QED
      BY <2>1, <2>3, <3>1, <3>2 DEF AppRows, RowSound
  <2>4. CASE phase' = "idle"
    BY <2>4 DEF AppRows
  <2> QED
    BY <1>8, <2>1, <2>2, <2>3, <2>4 DEF CompleteDone
<1>9. CASE Edit
  <2>1. phase = "idle" /\ UNCHANGED phase
    BY <1>9 DEF Edit, AddRule, AddSup, Mark, Truncate, EnsureAtoms, ClearFacts, AddFact, SetOpen, control
  <2> QED
    BY <1>2, <2>1
<1>10. CASE UNCHANGED vars
  BY <1>1, <1>10 DEF vars, theory, columns, control
<1> QED
  BY <1>3, <1>4, <1>5, <1>6, <1>7, <1>8, <1>9, <1>10 DEF Next, Running

\* An applicability row is never ahead of the columns it was computed from, so a row
\* decided for every entity may be trusted without recomputing it (refresh_rule).
THEOREM AppRowsStaySound == Spec => []AppRowsSound
<1>1. Init => Shape /\ Columns /\ AppRows
  <2>1. Init => AppRows
    BY DEF Init, AppRows
  <2> QED
    BY <2>1, ShapeInit, ColumnsInit
<1>2. Shape /\ Columns /\ AppRows /\ [Next]_vars => (Shape /\ Columns /\ AppRows)'
  BY ShapeStep, ColumnsStep, AppRowsStep
<1>3. AppRows => AppRowsSound
  BY DEF AppRows, AppRowsSound, RowSound
<1> QED
  BY <1>1, <1>2, <1>3, PTL DEF Spec

-----------------------------------------------------------------------------
(* The abstract family reads a theory as the solver does: the operators it *)
(* brings along from DLTheory are the operators of DLTheory.               *)

\* Literals, verdicts and statuses.
LEMMA FamilyStatus ==
  /\ Family!Lits = Lits /\ Family!Status = Status /\ Family!Unsolved = Unsolved
  /\ Family!DL_PROVED = DL_PROVED /\ Family!DL_REFUTED = DL_REFUTED
  /\ Family!DL_UNDECIDED = DL_UNDECIDED
BY DEF Family!Lits, Lits, Family!Status, Status, Family!Verdict, Verdict, Family!Unsolved, Unsolved,
       Family!DL_PROVED, DL_PROVED, Family!DL_REFUTED, DL_REFUTED, Family!DL_UNDECIDED, DL_UNDECIDED

\* The rules for and against a literal.
LEMMA FamilyRules ==
  \A t, q :
    /\ Family!Compl(q) = Compl(q) /\ Family!RulesFor(t, q) = RulesFor(t, q)
    /\ Family!SupportersOf(t, q) = SupportersOf(t, q) /\ Family!StrictFor(t, q) = StrictFor(t, q)
    /\ \A s : Family!Defenders(t, s, q) = Defenders(t, s, q)
    /\ \A s : Family!LayerSupport(t, q, s) = LayerSupport(t, q, s)
<1>1. \A t, q : Family!Compl(q) = Compl(q) /\ Family!RulesFor(t, q) = RulesFor(t, q)
  BY Zenon DEF Family!Compl, Compl, Family!RulesFor, RulesFor
<1>2. \A t, q : Family!SupportersOf(t, q) = SupportersOf(t, q)
  BY Zenon DEF Family!SupportersOf, SupportersOf, Family!RulesFor, RulesFor,
               Family!DL_DEFEATER, DL_DEFEATER
<1>3. \A t, q : Family!StrictFor(t, q) = StrictFor(t, q)
  BY Zenon DEF Family!StrictFor, StrictFor, Family!RulesFor, RulesFor, Family!DL_STRICT, DL_STRICT
<1>4. \A t, s, q : Family!Defenders(t, s, q) = Defenders(t, s, q)
  BY Zenon DEF Family!Defenders, Defenders, Family!SupportersOf, SupportersOf,
               Family!RulesFor, RulesFor, Family!DL_DEFEATER, DL_DEFEATER
<1>5. \A t, q, s : Family!LayerSupport(t, q, s) = LayerSupport(t, q, s)
  BY <1>2, <1>3, Zenon DEF Family!LayerSupport, LayerSupport
<1> QED
  BY <1>1, <1>2, <1>3, <1>4, <1>5

\* Bodies.
LEMMA FamilyBodies ==
  \A t, r, st :
    /\ \A v : (Family!BodyAll(t, r, st, v) <=> BodyAll(t, r, st, v))
    /\ \A v : (Family!BodySome(t, r, st, v) <=> BodySome(t, r, st, v))
    /\ Family!Applicable(t, st, r) <=> Applicable(t, st, r)
    /\ Family!Discarded(t, st, r) <=> Discarded(t, st, r)
<1>1. \A t, r, st, v : (Family!BodyAll(t, r, st, v) <=> BodyAll(t, r, st, v))
                       /\ (Family!BodySome(t, r, st, v) <=> BodySome(t, r, st, v))
  BY Zenon DEF Family!BodyAll, BodyAll, Family!BodySome, BodySome
<1>2. \A t, r, st : (Family!Applicable(t, st, r) <=> Applicable(t, st, r))
                    /\ (Family!Discarded(t, st, r) <=> Discarded(t, st, r))
  BY <1>1, FamilyStatus, Zenon DEF Family!Applicable, Applicable, Family!Discarded, Discarded
<1> QED
  BY <1>1, <1>2, Zenon

\* The definite layer's evaluation.
LEMMA FamilyEvalDelta == \A t, d, q : Family!EvalDelta(t, d, q) = EvalDelta(t, d, q)
<1>1. \A t, d, q : Family!DeltaProves(t, d, q) <=> DeltaProves(t, d, q)
  BY FamilyRules, FamilyBodies, FamilyStatus DEF Family!DeltaProves, DeltaProves
<1>2. \A t, d, q : Family!DeltaRefutes(t, d, q) <=> DeltaRefutes(t, d, q)
  BY <1>1, FamilyRules, FamilyBodies, FamilyStatus DEF Family!DeltaRefutes, DeltaRefutes
<1> QED
  BY <1>1, <1>2, FamilyStatus DEF Family!EvalDelta, EvalDelta

\* The defeasible layer's evaluation.
LEMMA FamilyEvalPart == \A t, d, p, q : Family!EvalPart(t, d, p, q) = EvalPart(t, d, p, q)
<1>1. \A t, p, q : /\ Family!Supported(t, p, q) <=> Supported(t, p, q)
                   /\ Family!NotSupported(t, p, q) <=> NotSupported(t, p, q)
  BY FamilyRules, FamilyBodies DEF Family!Supported, Supported, Family!NotSupported, NotSupported
<1>2. \A t, p, q : /\ Family!AllAttackersCountered(t, p, q) <=> AllAttackersCountered(t, p, q)
                   /\ Family!AttackerUncountered(t, p, q) <=> AttackerUncountered(t, p, q)
  BY FamilyRules, FamilyBodies
     DEF Family!AllAttackersCountered, AllAttackersCountered, Family!AttackerUncountered,
         AttackerUncountered, Family!Countered, Countered
<1>3. \A t, d, p, q : /\ Family!PartProves(t, d, p, q) <=> PartProves(t, d, p, q)
                      /\ Family!PartRefutes(t, d, p, q) <=> PartRefutes(t, d, p, q)
  BY <1>1, <1>2, FamilyRules, FamilyStatus DEF Family!PartProves, PartProves, Family!PartRefutes, PartRefutes
<1> QED
  BY <1>3, FamilyStatus DEF Family!EvalPart, EvalPart

\* The cycle rule.
LEMMA FamilyCompletes ==
  /\ \A t, st, c, s : Family!Completes(t, st, c, s) <=> Completes(t, st, c, s)
  /\ \A st, c : Family!Completion(st, c) = Completion(st, c)
  /\ \A t : Family!SupportSccs(t) = SupportSccs(t)
<1>0. \A t, q : Family!SupportSucc(t, q) = SupportSucc(t, q)
  BY Zenon DEF Family!SupportSucc, SupportSucc, Family!DL_DEFEATER, DL_DEFEATER
<1>1. \A t, c : Family!CyclicScc(t, c) <=> CyclicScc(t, c)
  <2>1. \A c : Family!Cardinality(c) = Cardinality(c)
    BY Zenon DEF Family!Cardinality, Cardinality
  <2> QED
    BY <1>0, <2>1 DEF Family!CyclicScc, CyclicScc
<1>2. \A t, c : Family!AttackedScc(t, c) <=> AttackedScc(t, c)
  BY FamilyRules DEF Family!AttackedScc, AttackedScc, Family!Attacked, Attacked
<1>3. ASSUME NEW t, NEW st, NEW c, NEW s
      PROVE  Family!Completes(t, st, c, s) <=> Completes(t, st, c, s)
  <2>1. Family!BlockedScc(t, st, c, s) <=> BlockedScc(t, st, c, s)
    BY FamilyRules, FamilyStatus DEF Family!BlockedScc, BlockedScc
  <2> QED
    BY <1>1, <1>2, <2>1, FamilyStatus DEF Family!Completes, Completes
<1>4. \A st, c : Family!Completion(st, c) = Completion(st, c)
  BY FamilyStatus DEF Family!Completion, Completion
<1>5. \A t : Family!SupportSccs(t) = SupportSccs(t)
  BY Zenon DEF Family!SupportSccs, SupportSccs, Family!SupportReach, SupportReach,
               Family!SupportSucc, SupportSucc, Family!Lits, Lits, Family!DL_DEFEATER, DL_DEFEATER
<1> QED
  BY <1>3, <1>4, <1>5

\* A round, and a whole solve of the defeasible layer.
LEMMA FamilyPartRound ==
  ASSUME NEW t, NEW sccs, NEW d, NEW p
  PROVE  Family!PartRound(t, sccs, d, p) = PartRound(t, sccs, d, p)
<1> DEFINE swept == [q \in Lits |-> IF p[q] = DL_UNDECIDED THEN EvalPart(t, d, p, q) ELSE p[q]]
           fswept == [q \in Family!Lits |-> IF p[q] = Family!DL_UNDECIDED
                                            THEN Family!EvalPart(t, d, p, q) ELSE p[q]]
           loops == UNION {sccs[q] : q \in {x \in Lits : Completes(t, p, sccs[x], FALSE)}}
           floops == UNION {sccs[q] : q \in {x \in Family!Lits : Family!Completes(t, p, sccs[x], FALSE)}}
<1>1. swept = fswept
  BY FamilyStatus, FamilyEvalPart
<1>2. loops = floops
  BY FamilyStatus, FamilyCompletes
<1>3. Family!PartRound(t, sccs, d, p) = IF fswept # p THEN fswept ELSE Family!Completion(p, floops)
  BY DEF Family!PartRound
<1>4. PartRound(t, sccs, d, p) = IF swept # p THEN swept ELSE Completion(p, loops)
  BY DEF PartRound
<1> HIDE DEF swept, fswept, loops, floops
<1> QED
  BY <1>1, <1>2, <1>3, <1>4, FamilyCompletes

-----------------------------------------------------------------------------
(* The definite layer with open literals o: they are not refuted for want  *)
(* of a rule, and may be refuted by the cycle rule.                        *)

OpenEval(t, o, d, q) ==
  IF EvalDelta(t, d, q) = DL_REFUTED /\ q \in o THEN DL_UNDECIDED ELSE EvalDelta(t, d, q)

OpenSwept(t, o, d) == [q \in Lits |-> IF d[q] = DL_UNDECIDED THEN OpenEval(t, o, d, q) ELSE d[q]]

OpenRound(t, o, sccs, d) ==
  IF OpenSwept(t, o, d) # d THEN OpenSwept(t, o, d) ELSE Completion(d, DeltaLoops(t, sccs, d))

\* Nothing can be decided and no component completed.
OpenStops(t, o, sccs, d) ==
  /\ \A q \in Lits : d[q] = DL_UNDECIDED => OpenEval(t, o, d, q) = DL_UNDECIDED
  /\ \A q \in Lits : ~ DeltaCompletes(t, d, sccs[q])

\* The family's rounds.
LEMMA FamilyOpenRound ==
  ASSUME NEW t, NEW o, NEW sccs, NEW d
  PROVE  Family!DeltaRoundOpen(t, o, sccs, d) = OpenRound(t, o, sccs, d)
<1> DEFINE swept == [q \in Family!Lits |-> IF d[q] = Family!DL_UNDECIDED
                                           THEN Family!EvalDeltaOpen(t, o, d, q) ELSE d[q]]
           loops == UNION {sccs[q] : q \in {x \in Family!Lits : Family!Completes(t, d, sccs[x], TRUE)}}
<1>1. \A q : Family!EvalDeltaOpen(t, o, d, q) = OpenEval(t, o, d, q)
  BY FamilyStatus, FamilyEvalDelta DEF Family!EvalDeltaOpen, OpenEval
<1>2. swept = OpenSwept(t, o, d)
  BY <1>1, FamilyStatus DEF OpenSwept
<1>3. loops = DeltaLoops(t, sccs, d)
  BY FamilyStatus, FamilyCompletes DEF DeltaLoops
<1>4. Family!DeltaRoundOpen(t, o, sccs, d) = IF swept # d THEN swept ELSE Family!Completion(d, loops)
  BY DEF Family!DeltaRoundOpen
<1> HIDE DEF swept, loops
<1> QED
  BY <1>2, <1>3, <1>4, FamilyCompletes DEF OpenRound

\* An evaluation yields a verdict; what it decides the closed evaluation decides.
LEMMA OpenEvalFacts ==
  ASSUME NEW t, NEW o, NEW d, NEW q
  PROVE  /\ OpenEval(t, o, d, q) \in Verdict
         /\ (OpenEval(t, o, d, q) = DL_PROVED <=> DeltaProves(t, d, q))
         /\ (OpenEval(t, o, d, q) = DL_REFUTED <=> DeltaRefutes(t, d, q) /\ q \notin o)
<1>1. DL_PROVED # DL_REFUTED /\ DL_PROVED # DL_UNDECIDED /\ DL_REFUTED # DL_UNDECIDED
  BY DEF DL_PROVED, DL_REFUTED, DL_UNDECIDED
<1>2. DeltaRefutes(t, d, q) => ~ DeltaProves(t, d, q)
  BY DEF DeltaRefutes
<1> QED
  BY <1>1, <1>2 DEF OpenEval, EvalDelta, Verdict

\* A round yields statuses and keeps what was decided.
LEMMA OpenRoundExtends ==
  ASSUME NEW t, NEW o, NEW sccs, NEW d \in Status
  PROVE  OpenRound(t, o, sccs, d) \in Status /\ Extends(d, OpenRound(t, o, sccs, d))
<1>1. OpenSwept(t, o, d) \in Status /\ Extends(d, OpenSwept(t, o, d))
  BY OpenEvalFacts DEF OpenSwept, Status, Extends
<1>2. \A c : Completion(d, c) \in Status /\ Extends(d, Completion(d, c))
  BY CompletionType, CompletionExtends
<1>3. OpenRound(t, o, sccs, d) \in {OpenSwept(t, o, d), Completion(d, DeltaLoops(t, sccs, d))}
  BY DEF OpenRound
<1> QED
  BY <1>1, <1>2, <1>3

\* A settled layer holds no proof that was not made.
LEMMA OpenNoProof ==
  ASSUME NEW t, NEW o, NEW d,
         \A q \in Lits : d[q] = DL_UNDECIDED => OpenEval(t, o, d, q) = DL_UNDECIDED
  PROVE  NoDeltaProof(t, d)
BY OpenEvalFacts DEF NoDeltaProof, DL_PROVED, DL_UNDECIDED

\* A round that completes components did so over a settled layer.
LEMMA OpenRoundCases ==
  ASSUME NEW t, NEW o, NEW sccs, NEW d \in Status
  PROVE  \/ OpenRound(t, o, sccs, d) = OpenSwept(t, o, d)
         \/ /\ OpenRound(t, o, sccs, d) = Completion(d, DeltaLoops(t, sccs, d))
            /\ \A q \in Lits : d[q] = DL_UNDECIDED => OpenEval(t, o, d, q) = DL_UNDECIDED
<1>1. CASE OpenSwept(t, o, d) # d
  BY <1>1 DEF OpenRound
<1>2. CASE OpenSwept(t, o, d) = d
  <2>1. OpenRound(t, o, sccs, d) = Completion(d, DeltaLoops(t, sccs, d))
    BY <1>2 DEF OpenRound
  <2>2. \A q \in Lits : d[q] = IF d[q] = DL_UNDECIDED THEN OpenEval(t, o, d, q) ELSE d[q]
    BY <1>2 DEF OpenSwept
  <2> QED
    BY <2>1, <2>2
<1> QED
  BY <1>1, <1>2

\* A status no round changes leaves nothing to do.
LEMMA OpenRoundStops ==
  ASSUME NEW t, NEW o, NEW sccs, AreSccs(sccs), NEW d \in Status, OpenRound(t, o, sccs, d) = d
  PROVE  OpenStops(t, o, sccs, d)
<1>1. OpenSwept(t, o, d) = d
  BY DEF OpenRound
<1>2. \A q \in Lits : d[q] = IF d[q] = DL_UNDECIDED THEN OpenEval(t, o, d, q) ELSE d[q]
  BY <1>1 DEF OpenSwept
<1>3. Completion(d, DeltaLoops(t, sccs, d)) = d
  BY <1>1 DEF OpenRound
<1>4. ASSUME NEW q \in Lits, DeltaCompletes(t, d, sccs[q]) PROVE FALSE
  <2>1. PICK m \in sccs[q] : d[m] = DL_UNDECIDED
    BY <1>4 DEF DeltaCompletes, Completes
  <2>2. m \in Lits /\ m \in DeltaLoops(t, sccs, d)
    BY <1>4, <2>1 DEF DeltaCompletes, DeltaLoops, AreSccs
  <2>3. Completion(d, DeltaLoops(t, sccs, d))[m] = DL_REFUTED
    BY <2>1, <2>2 DEF Completion
  <2> QED
    BY <1>3, <2>1, <2>3 DEF DL_REFUTED, DL_UNDECIDED
<1> QED
  BY <1>2, <1>4 DEF OpenStops

\* Completing unblocked components of a settled layer is a step with reasons.
LEMMA OpenCompletionMoves ==
  ASSUME NEW t, TheoryLits(t), NEW d \in Status, NoDeltaProof(t, d), NEW cs, NEW loops,
         loops = UNION cs, \A c \in cs : ~ BlockedScc(t, d, c, TRUE)
  PROVE  DeltaMove(t, d, Completion(d, loops))
<1> DEFINE d2 == Completion(d, loops)
<1>1. d2 \in Status /\ Extends(d, d2)
  BY CompletionType, CompletionExtends
<1>2. \A q \in Lits : d2[q] = IF q \in loops /\ d[q] = DL_UNDECIDED THEN DL_REFUTED ELSE d[q]
  BY DEF Completion
<1> HIDE DEF d2
<1> SUFFICES ASSUME NEW q \in Lits, d[q] = DL_UNDECIDED, d2[q] = DL_REFUTED
    PROVE  q \notin t.facts /\ \A r \in StrictFor(t, q) : BodySome(t, r, d2, DL_REFUTED)
  BY <1>1, <1>2 DEF DeltaMove, d2, DL_PROVED, DL_REFUTED, DL_UNDECIDED
<1>3. PICK c \in cs : q \in c
  <2>1. q \in loops
    BY <1>2 DEF DL_REFUTED, DL_UNDECIDED
  <2> QED
    BY <2>1
<1>4. q \notin t.facts
  BY DEF NoDeltaProof, DeltaProves
<1>5. ASSUME NEW r \in StrictFor(t, q) PROVE BodySome(t, r, d2, DL_REFUTED)
  <2>1. ~ BlockedScc(t, d, c, TRUE)
    OBVIOUS
  <2>2. PICK b \in t.rules[r].body : b \in Lits /\ (d[b] = DL_REFUTED \/ (d[b] = DL_UNDECIDED /\ b \in c))
    BY <1>3, <2>1, DeltaLoopReason
  <2>3. b \in c => b \in loops
    OBVIOUS
  <2>4. d2[b] = DL_REFUTED
    BY <1>2, <2>2, <2>3
  <2> QED
    BY <2>4 DEF BodySome
<1> QED
  BY <1>4, <1>5

\* A decision by evaluation is a step with reasons.
LEMMA OpenDecisionMoves ==
  ASSUME NEW t, TheoryLits(t), NEW o, NEW d \in Status, NEW d2 \in Status,
         \A q \in Lits : d2[q] = d[q] \/ (d[q] = DL_UNDECIDED /\ d2[q] = OpenEval(t, o, d, q))
  PROVE  DeltaMove(t, d, d2)
<1>1. Extends(d, d2)
  BY DEF Extends
<1> SUFFICES ASSUME NEW q \in Lits, d[q] = DL_UNDECIDED
    PROVE  /\ d2[q] = DL_PROVED => DeltaProves(t, d, q)
           /\ d2[q] = DL_REFUTED =>
                q \notin t.facts /\ \A r \in StrictFor(t, q) : BodySome(t, r, d2, DL_REFUTED)
  BY <1>1 DEF DeltaMove
<1>0. d2[q] = d[q] \/ d2[q] = OpenEval(t, o, d, q)
  OBVIOUS
<1>2. d2[q] = DL_PROVED => DeltaProves(t, d, q)
  BY <1>0, OpenEvalFacts DEF DL_PROVED, DL_UNDECIDED
<1>3. d2[q] = DL_REFUTED => DeltaRefutes(t, d, q)
  BY <1>0, OpenEvalFacts DEF DL_REFUTED, DL_UNDECIDED
<1>4. d2[q] = DL_REFUTED =>
        q \notin t.facts /\ \A r \in StrictFor(t, q) : BodySome(t, r, d, DL_REFUTED)
  BY <1>3 DEF DeltaRefutes, DeltaProves
<1> QED
  BY <1>1, <1>2, <1>4, DeltaReasonsKept

\* A round is a step with reasons.
LEMMA OpenRoundMoves ==
  ASSUME NEW t, TheoryLits(t), NEW o, NEW sccs, NEW d \in Status
  PROVE  DeltaMove(t, d, OpenRound(t, o, sccs, d))
<1>1. OpenRound(t, o, sccs, d) \in Status
  BY OpenRoundExtends
<1>2. CASE OpenRound(t, o, sccs, d) = OpenSwept(t, o, d)
  <2>1. \A q \in Lits : \/ OpenSwept(t, o, d)[q] = d[q]
                        \/ d[q] = DL_UNDECIDED /\ OpenSwept(t, o, d)[q] = OpenEval(t, o, d, q)
    BY DEF OpenSwept
  <2> QED
    BY <1>1, <1>2, <2>1, OpenDecisionMoves
<1>3. CASE /\ OpenRound(t, o, sccs, d) = Completion(d, DeltaLoops(t, sccs, d))
           /\ \A q \in Lits : d[q] = DL_UNDECIDED => OpenEval(t, o, d, q) = DL_UNDECIDED
  <2> DEFINE cs == {sccs[q] : q \in {x \in Lits : Completes(t, d, sccs[x], TRUE)}}
  <2>1. \A c \in cs : ~ BlockedScc(t, d, c, TRUE)
    BY DEF Completes
  <2>2. DeltaLoops(t, sccs, d) = UNION cs
    BY DEF DeltaLoops
  <2>3. NoDeltaProof(t, d)
    BY <1>3, OpenNoProof
  <2> HIDE DEF cs
  <2> QED
    BY <1>3, <2>1, <2>2, <2>3, OpenCompletionMoves
<1> QED
  BY <1>2, <1>3, OpenRoundCases

\* A literal decided by evaluation below a final status has that verdict in it.
LEMMA OpenDecisionAgrees ==
  ASSUME NEW t, TheoryLits(t), NEW o, NEW sccs, NEW d \in Status, NEW D, DeltaFine(t, D),
         OpenStops(t, o, sccs, D), Extends(d, D), NEW q \in Lits,
         OpenEval(t, o, d, q) # DL_UNDECIDED
  PROVE  D[q] = OpenEval(t, o, d, q)
<1>0. D \in Status /\ D[q] \in Verdict
  BY DEF DeltaFine, Status
<1>1. DeltaProves(t, d, q) => DeltaProves(t, D, q)
  BY <1>0, DeltaReasonsKept
<1>2. (\A r \in StrictFor(t, q) : BodySome(t, r, d, DL_REFUTED))
        => \A r \in StrictFor(t, q) : BodySome(t, r, D, DL_REFUTED)
  BY <1>0, DeltaReasonsKept
<1>3. (\A r \in StrictFor(t, q) : BodySome(t, r, D, DL_REFUTED)) /\ q \notin t.facts
        => ~ DeltaProves(t, D, q)
  BY BodyConsistent DEF DeltaProves
<1>4. OpenEval(t, o, d, q) \in {DL_PROVED, DL_REFUTED}
  BY OpenEvalFacts DEF Verdict
<1>5. CASE OpenEval(t, o, d, q) = DL_PROVED
  <2>1. DeltaProves(t, D, q)
    BY <1>1, <1>5, OpenEvalFacts
  <2>2. OpenEval(t, o, D, q) = DL_PROVED
    BY <2>1, OpenEvalFacts
  <2>3. D[q] # DL_UNDECIDED
    BY <2>2 DEF OpenStops, DL_PROVED, DL_UNDECIDED
  <2>4. D[q] # DL_REFUTED
    BY <1>3, <2>1 DEF DeltaFine
  <2> QED
    BY <1>0, <1>5, <2>3, <2>4 DEF Verdict
<1>6. CASE OpenEval(t, o, d, q) = DL_REFUTED
  <2>1. DeltaRefutes(t, d, q) /\ q \notin o
    BY <1>6, OpenEvalFacts
  <2>2. q \notin t.facts /\ \A r \in StrictFor(t, q) : BodySome(t, r, D, DL_REFUTED)
    BY <1>2, <2>1 DEF DeltaRefutes, DeltaProves
  <2>3. OpenEval(t, o, D, q) = DL_REFUTED
    BY <1>3, <2>1, <2>2, OpenEvalFacts DEF DeltaRefutes
  <2>4. D[q] # DL_PROVED
    BY <1>3, <2>2 DEF DeltaFine
  <2>5. D[q] # DL_UNDECIDED
    BY <2>3 DEF OpenStops, DL_REFUTED, DL_UNDECIDED
  <2> QED
    BY <1>0, <1>6, <2>4, <2>5 DEF Verdict
<1> QED
  BY <1>4, <1>5, <1>6

\* So does a literal completed below it.
LEMMA OpenCompletionAgrees ==
  ASSUME NEW t, TheoryLits(t), NEW o, NEW sccs, AreSccs(sccs), NEW d \in Status, NEW D,
         DeltaFine(t, D), OpenStops(t, o, sccs, D), Extends(d, D), NoDeltaProof(t, d)
  PROVE  \A q, x \in Lits :
           DeltaCompletes(t, d, sccs[q]) /\ x \in sccs[q] /\ d[x] = DL_UNDECIDED
             => D[x] = DL_REFUTED
<1>1. NoDeltaProof(t, D)
  BY OpenNoProof DEF OpenStops
<1>2. \A q \in Lits : ~ DeltaCompletes(t, D, sccs[q])
  BY DEF OpenStops
<1> QED
  BY <1>1, <1>2, DeltaCompletionAgrees

\* A round below a final status stays below it.
LEMMA OpenRoundBelow ==
  ASSUME NEW t, TheoryLits(t), NEW o, NEW sccs, AreSccs(sccs), NEW d \in Status, NEW D,
         DeltaFine(t, D), OpenStops(t, o, sccs, D), Extends(d, D)
  PROVE  Extends(OpenRound(t, o, sccs, d), D)
<1> DEFINE d2 == OpenRound(t, o, sccs, d)
<1> SUFFICES ASSUME NEW x \in Lits, d2[x] # DL_UNDECIDED PROVE D[x] = d2[x]
  BY DEF Extends
<1>1. CASE d2 = OpenSwept(t, o, d)
  <2>1. d2[x] = IF d[x] = DL_UNDECIDED THEN OpenEval(t, o, d, x) ELSE d[x]
    BY <1>1 DEF OpenSwept
  <2> HIDE DEF d2
  <2>2. CASE d[x] = DL_UNDECIDED
    <3>1. d2[x] = OpenEval(t, o, d, x)
      BY <2>1, <2>2
    <3> QED
      BY <3>1, OpenDecisionAgrees
  <2>3. CASE d[x] # DL_UNDECIDED
    BY <2>1, <2>3 DEF Extends
  <2> QED
    BY <2>2, <2>3
<1>2. CASE /\ d2 = Completion(d, DeltaLoops(t, sccs, d))
           /\ \A q \in Lits : d[q] = DL_UNDECIDED => OpenEval(t, o, d, q) = DL_UNDECIDED
  <2>1. NoDeltaProof(t, d)
    BY <1>2, OpenNoProof
  <2>2. d2[x] = IF x \in DeltaLoops(t, sccs, d) /\ d[x] = DL_UNDECIDED
                  THEN DL_REFUTED ELSE d[x]
    BY <1>2 DEF Completion
  <2> HIDE DEF d2
  <2>3. CASE x \in DeltaLoops(t, sccs, d) /\ d[x] = DL_UNDECIDED
    <3>1. PICK q \in Lits : Completes(t, d, sccs[q], TRUE) /\ x \in sccs[q]
      BY <2>3 DEF DeltaLoops
    <3>2. DeltaCompletes(t, d, sccs[q]) /\ x \in sccs[q] /\ d[x] = DL_UNDECIDED
      BY <2>3, <3>1 DEF DeltaCompletes
    <3>3. D[x] = DL_REFUTED
      BY <2>1, <3>2, OpenCompletionAgrees
    <3> QED
      BY <2>2, <2>3, <3>3
  <2>4. CASE ~ (x \in DeltaLoops(t, sccs, d) /\ d[x] = DL_UNDECIDED)
    BY <2>2, <2>4 DEF Extends
  <2> QED
    BY <2>3, <2>4
<1> QED
  BY <1>1, <1>2, OpenRoundCases

\* What the family's recursion over a round of statuses computes.
LEMMA RecursionReached ==
  ASSUME NEW nx \in [Status -> Status], \A d \in Status : Extends(d, nx[d]),
         NEW F, F = (CHOOSE f : f = [d \in Status |-> IF nx[d] = d THEN d ELSE f[nx[d]]]),
         NEW S \in SUBSET Status, Unsolved \in S, \A d \in S : nx[d] \in S
  PROVE  F[Unsolved] \in S /\ nx[F[Unsolved]] = F[Unsolved]
<1>1. \E G : IsLimit(Status, nx, G)
  BY LimitExists
<1>2. IsLimit(Status, nx, F)
  BY <1>1 DEF IsLimit
<1>3. Unsolved \in Status
  OBVIOUS
<1>4. F[Unsolved] \in Iterates(Status, nx, Unsolved) /\ nx[F[Unsolved]] = F[Unsolved]
  BY <1>2, <1>3, StatusLimit
<1>5. F[Unsolved] \in S
  BY <1>4 DEF Iterates, ClosedUnderRound
<1> QED
  BY <1>4, <1>5

\* The family's definite answers are reached by rounds, and no round changes them.
LEMMA DefiniteReached ==
  ASSUME NEW t, NEW o, NEW sccs, NEW S \in SUBSET Status, Unsolved \in S,
         \A d \in S : OpenRound(t, o, sccs, d) \in S
  PROVE  /\ Family!DefiniteOf(t, o, sccs) \in S
         /\ OpenRound(t, o, sccs, Family!DefiniteOf(t, o, sccs)) = Family!DefiniteOf(t, o, sccs)
<1> DEFINE nx == [d \in Status |-> OpenRound(t, o, sccs, d)]
           F  == CHOOSE f : f = [d \in Family!Status |->
                                   IF Family!DeltaRoundOpen(t, o, sccs, d) = d THEN d
                                   ELSE f[Family!DeltaRoundOpen(t, o, sccs, d)]]
           G  == CHOOSE f : f = [d \in Status |-> IF nx[d] = d THEN d ELSE f[nx[d]]]
<1>1. nx \in [Status -> Status] /\ \A d \in Status : Extends(d, nx[d])
  BY OpenRoundExtends
<1>2. \A f : [d \in Family!Status |-> IF Family!DeltaRoundOpen(t, o, sccs, d) = d THEN d
                                      ELSE f[Family!DeltaRoundOpen(t, o, sccs, d)]]
               = [d \in Status |-> IF nx[d] = d THEN d ELSE f[nx[d]]]
  BY FamilyStatus, FamilyOpenRound
<1>3. F = G
  BY <1>2
<1>4. Family!DefiniteOf(t, o, sccs) = F[Unsolved]
  BY FamilyStatus DEF Family!DefiniteOf
<1>5. \A d \in S : nx[d] \in S
  OBVIOUS
<1>6. \A d \in Status : nx[d] = OpenRound(t, o, sccs, d)
  OBVIOUS
<1> HIDE DEF nx, F
<1>7. G[Unsolved] \in S /\ nx[G[Unsolved]] = G[Unsolved]
  <2>1. G = CHOOSE f : f = [d \in Status |-> IF nx[d] = d THEN d ELSE f[nx[d]]]
    OBVIOUS
  <2> HIDE DEF G
  <2> QED
    BY <1>1, <1>5, <2>1, RecursionReached
<1> HIDE DEF G
<1> QED
  BY <1>3, <1>4, <1>6, <1>7

\* They are sound, final, and below every sound final status.
LEMMA DefiniteLimit ==
  ASSUME NEW t, TheoryLits(t), NEW o, NEW sccs, AreSccs(sccs)
  PROVE  /\ DeltaFine(t, Family!DefiniteOf(t, o, sccs))
         /\ OpenStops(t, o, sccs, Family!DefiniteOf(t, o, sccs))
         /\ \A D \in Status : DeltaFine(t, D) /\ OpenStops(t, o, sccs, D)
                              => Extends(Family!DefiniteOf(t, o, sccs), D)
<1> DEFINE S == {d \in Status : DeltaFine(t, d)}
           R == Family!DefiniteOf(t, o, sccs)
<1>1. Unsolved \in Status
  BY DEF Unsolved, Status, Verdict
<1>2. DeltaFine(t, Unsolved)
  BY <1>1 DEF DeltaFine, Unsolved, DL_PROVED, DL_REFUTED, DL_UNDECIDED
<1>3. ASSUME NEW d \in S PROVE OpenRound(t, o, sccs, d) \in S
  <2>1. DeltaMove(t, d, OpenRound(t, o, sccs, d))
    BY OpenRoundMoves
  <2>2. OpenRound(t, o, sccs, d) \in Status
    BY OpenRoundExtends
  <2> QED
    BY <2>1, <2>2, DeltaMoveFine
<1>4. R \in S /\ OpenRound(t, o, sccs, R) = R
  <2>1. S \in SUBSET Status /\ Unsolved \in S
    BY <1>1, <1>2
  <2> HIDE DEF S
  <2> QED
    BY <1>3, <2>1, DefiniteReached
<1> HIDE DEF R
<1>5. OpenStops(t, o, sccs, R)
  BY <1>4, OpenRoundStops
<1>6. ASSUME NEW D \in Status, DeltaFine(t, D), OpenStops(t, o, sccs, D) PROVE Extends(R, D)
  <2> DEFINE B == {d \in Status : Extends(d, D)}
  <2>1. Unsolved \in B
    BY <1>1 DEF Extends, Unsolved
  <2>2. ASSUME NEW d \in B PROVE OpenRound(t, o, sccs, d) \in B
    <3>1. Extends(OpenRound(t, o, sccs, d), D)
      BY <1>6, OpenRoundBelow
    <3> QED
      BY <3>1, OpenRoundExtends
  <2>3. B \in SUBSET Status
    OBVIOUS
  <2> HIDE DEF B
  <2>4. R \in B
    BY <2>1, <2>2, <2>3, DefiniteReached DEF R
  <2> QED
    BY <2>4 DEF B
<1> QED
  BY <1>4, <1>5, <1>6 DEF R

\* The family's defeasible answers are the solver's.
LEMMA FamilyRefPart ==
  ASSUME NEW t, NEW sccs, NEW d
  PROVE  Family!RefPart(t, sccs, d) = RefPart(t, sccs, d)
<1> DEFINE F == CHOOSE f : f = [p \in Family!Status |->
                                  IF Family!PartRound(t, sccs, d, p) = p THEN p
                                  ELSE f[Family!PartRound(t, sccs, d, p)]]
           G == CHOOSE f : f = [p \in Status |-> IF PartRound(t, sccs, d, p) = p THEN p
                                                 ELSE f[PartRound(t, sccs, d, p)]]
<1>1. F = G
  BY FamilyStatus, FamilyPartRound
<1>2. Family!RefPart(t, sccs, d) = F[Unsolved] /\ RefPart(t, sccs, d) = G[Unsolved]
  BY FamilyStatus DEF Family!RefPart, RefPart
<1> QED
  BY <1>1, <1>2

-----------------------------------------------------------------------------
(* One entity's view of the family.                                        *)

\* Its theory, its open literals, and its statuses: a literal without a row is
\* one without rules and facts.
TheoryAt(e) == [rules |-> Decoded, sups |-> Range(sups), facts |-> {q \in Lits : e \in fact[q]}]
OpenAt(e)   == {q \in Lits : e \in open[q]}

View(t, f, e) == [q \in Lits |-> IF q \in Located THEN StatusOf(t, f, e)[q] ELSE DL_REFUTED]

\* No bit says two things.
Apart(t, f) == \A q \in Lits : t[q] \cap f[q] = {}

\* Literals without a row have no bits.
InRoom(row) == \A q \in Lits \ Located : row[q] = {}

\* The indices are compiled from the present rules.
Compiles == \E high \in BOOLEAN : idx = Compiled(high)

\* The three verdicts.
LEMMA VerdictsDiffer ==
  DL_PROVED # DL_REFUTED /\ DL_PROVED # DL_UNDECIDED /\ DL_REFUTED # DL_UNDECIDED
BY DEF DL_PROVED, DL_REFUTED, DL_UNDECIDED

\* It is the theory the abstract family solves for it.
LEMMA TheoryAtFamily ==
  ASSUME NEW e
  PROVE  Family!TheoryOf(Decoded, sups, fact, e) = TheoryAt(e) /\ Family!OpenOf(open, e) = OpenAt(e)
BY FamilyStatus DEF Family!TheoryOf, TheoryAt, Family!Sups, Range, Family!OpenOf, OpenAt

\* An entity's rules, and that its theory is one.
LEMMA TheoryAtFacts ==
  ASSUME Shape, NEW e
  PROVE  /\ TheoryLits(TheoryAt(e)) /\ DOMAIN TheoryAt(e).rules = DOMAIN rules
         /\ TheoryAt(e).rules = Decoded /\ TheoryAt(e).sups = Range(sups)
         /\ TheoryAt(e).facts = {q \in Lits : e \in fact[q]}
         /\ \A r \in DOMAIN rules :
              /\ TheoryAt(e).rules[r].body = BodyOf(r) /\ TheoryAt(e).rules[r].kind = rules[r].kind
              /\ TheoryAt(e).rules[r].head = rules[r].head
              /\ rules[r].head \in Lits /\ rules[r].head \in Located
              /\ rules[r].kind \in RuleKind
              /\ BodyOf(r) \subseteq Lits /\ BodyOf(r) \subseteq Located
<1>1. TheoryAt(e).rules = Decoded /\ TheoryAt(e).sups = Range(sups)
      /\ TheoryAt(e).facts = {q \in Lits : e \in fact[q]}
  BY DEF TheoryAt
<1>2. \A r \in DOMAIN rules : rules[r] \in FlatRule /\ rules[r].head \in Located
  BY DEF Shape, Slices, Roomy
<1>3. \A r \in DOMAIN rules : rules[r].head \in Lits /\ rules[r].kind \in RuleKind
  BY <1>2 DEF FlatRule
<1>4. DOMAIN Decoded = DOMAIN rules /\ \A r \in DOMAIN rules :
        Decoded[r].body = BodyOf(r) /\ Decoded[r].kind = rules[r].kind /\ Decoded[r].head = rules[r].head
  BY DEF Decoded
<1>5. \A r \in DOMAIN rules : BodyOf(r) \subseteq Lits /\ BodyOf(r) \subseteq Located
  BY DecodedRules
<1>6. TheoryLits(TheoryAt(e))
  BY <1>1, <1>3, <1>4, <1>5 DEF TheoryLits
<1> QED
  BY <1>1, <1>2, <1>3, <1>4, <1>5, <1>6

\* A complement has a row when the literal has.
LEMMA LocatedCompl ==
  ASSUME Shape, NEW q \in Located
  PROVE  q \in Lits /\ Compl(q) \in Lits /\ Compl(q) \in Located
<1>1. natoms \in Nat /\ natoms >= 1
  BY FamilyAssumption DEF Shape, Roomy
<1>2. q \in Lits /\ q < 2 * natoms /\ q \in Int /\ q >= 0
  BY NAtomsAssumption DEF Located, Lits
<1>3. Compl(q) \in Lits
  BY <1>2, ComplLits
<1>4. Compl(q) < 2 * natoms
  <2>1. CASE q % 2 = 0
    <3>1. PICK m \in Int : q = 2 * m
      BY <1>2, <2>1
    <3>2. q + 1 < 2 * natoms
      BY <1>1, <1>2, <3>1
    <3> QED
      BY <2>1, <3>2 DEF Compl
  <2>2. CASE q % 2 # 0
    BY <1>1, <1>2, <2>2 DEF Compl
  <2> QED
    BY <2>1, <2>2
<1> QED
  BY <1>2, <1>3, <1>4 DEF Located

\* A view is a status; where there is a row it tells what the bits say.
LEMMA ViewFacts ==
  ASSUME NEW t \in EntRows, NEW f \in EntRows, Apart(t, f), NEW e
  PROVE  /\ View(t, f, e) \in Status
         /\ \A q \in Lits : q \notin Located => View(t, f, e)[q] = DL_REFUTED
         /\ \A q \in Located : /\ View(t, f, e)[q] = StatusOf(t, f, e)[q]
                               /\ (View(t, f, e)[q] = DL_PROVED <=> e \in t[q])
                               /\ (View(t, f, e)[q] = DL_REFUTED <=> e \in f[q])
                               /\ (View(t, f, e)[q] = DL_UNDECIDED <=> e \notin t[q] /\ e \notin f[q])
<1>1. \A q \in Lits : StatusOf(t, f, e)[q] =
        IF e \in t[q] THEN DL_PROVED ELSE IF e \in f[q] THEN DL_REFUTED ELSE DL_UNDECIDED
  BY DEF StatusOf
<1>2. \A q \in Lits : View(t, f, e)[q] = IF q \in Located THEN StatusOf(t, f, e)[q] ELSE DL_REFUTED
  BY DEF View
<1>3. View(t, f, e) \in Status
  BY <1>1, <1>2 DEF View, Status, Verdict
<1>4. \A q \in Located : q \in Lits
  BY DEF Located
<1>5. \A q \in Lits : ~ (e \in t[q] /\ e \in f[q])
  BY DEF Apart
<1> QED
  BY <1>1, <1>2, <1>3, <1>4, <1>5, VerdictsDiffer

\* What an entity reads in a body.
LEMMA BodyView ==
  ASSUME Shape, NEW t \in EntRows, NEW f \in EntRows, Apart(t, f), NEW e, NEW r \in DOMAIN rules
  PROVE  /\ BodyAll(TheoryAt(e), r, View(t, f, e), DL_PROVED) <=> \A b \in BodyOf(r) : e \in t[b]
         /\ BodySome(TheoryAt(e), r, View(t, f, e), DL_REFUTED) <=> \E b \in BodyOf(r) : e \in f[b]
<1>1. TheoryAt(e).rules[r].body = BodyOf(r) /\ BodyOf(r) \subseteq Located
  BY TheoryAtFacts
<1>2. \A q \in Located : /\ (View(t, f, e)[q] = DL_PROVED <=> e \in t[q])
                         /\ (View(t, f, e)[q] = DL_REFUTED <=> e \in f[q])
  BY ViewFacts
<1> QED
  BY <1>1, <1>2 DEF BodyAll, BodySome

\* The compiled indices are the rules for a literal and the superiorities.
LEMMA IndexReads ==
  ASSUME Shape, Compiles, NEW e
  PROVE  /\ \A q \in Lits : idx.heads[q] = RulesFor(TheoryAt(e), q)
         /\ \A q \in Lits : {r \in idx.heads[q] : rules[r].kind = DL_STRICT} = StrictFor(TheoryAt(e), q)
         /\ \A q \in Lits : {r \in idx.heads[q] : rules[r].kind # DL_DEFEATER} = SupportersOf(TheoryAt(e), q)
         /\ \A q \in Lits : \A s \in DOMAIN rules :
              idx.beats[s] \cap SupportersOf(TheoryAt(e), q) = Defenders(TheoryAt(e), s, q)
<1>1. PICK high \in BOOLEAN : idx = Compiled(high)
  BY DEF Compiles
<1> DEFINE t0 == [rules |-> Decoded, sups |-> Range(sups), facts |-> {}]
           T == TheoryAt(e)
<1>2. \A q \in Lits : idx.heads[q] = RulesFor(t0, q)
  BY <1>1 DEF Compiled
<1>3. \A s \in DOMAIN rules : idx.beats[s] = {r \in DOMAIN rules : <<r, s>> \in Range(sups)}
  BY <1>1 DEF Compiled
<1>4. T.rules = Decoded /\ T.sups = Range(sups) /\ DOMAIN T.rules = DOMAIN rules
      /\ \A r \in DOMAIN rules : T.rules[r].kind = rules[r].kind
  BY TheoryAtFacts
<1>5. t0.rules = Decoded
  OBVIOUS
<1> HIDE DEF T, t0
<1>6. \A q : RulesFor(t0, q) = RulesFor(T, q)
  BY <1>4, <1>5 DEF RulesFor
<1>7. \A q \in Lits : \A r \in idx.heads[q] : r \in DOMAIN rules
  BY <1>2, <1>4, <1>6 DEF RulesFor
<1>8. \A q \in Lits : {r \in idx.heads[q] : rules[r].kind = DL_STRICT} = StrictFor(T, q)
  BY <1>2, <1>4, <1>6, <1>7 DEF StrictFor
<1>9. \A q \in Lits : {r \in idx.heads[q] : rules[r].kind # DL_DEFEATER} = SupportersOf(T, q)
  BY <1>2, <1>4, <1>6, <1>7 DEF SupportersOf
<1>10. \A q \in Lits : \A s \in DOMAIN rules :
              idx.beats[s] \cap SupportersOf(T, q) = Defenders(T, s, q)
  <2> SUFFICES ASSUME NEW q \in Lits, NEW s \in DOMAIN rules
      PROVE idx.beats[s] \cap SupportersOf(T, q) = Defenders(T, s, q)
    OBVIOUS
  <2>1. SupportersOf(T, q) \subseteq DOMAIN rules
    BY <1>4 DEF SupportersOf, RulesFor
  <2> QED
    BY <1>3, <1>4, <2>1 DEF Defenders
<1> QED
  BY <1>2, <1>6, <1>8, <1>9, <1>10 DEF T

-----------------------------------------------------------------------------
(* The bits of a row are the verdicts of the entities.                     *)

\* eval_delta_col decides for every entity what eval_delta decides.
LEMMA DeltaBitsView ==
  ASSUME Shape, Columns, Apart(dt, df), Compiles, NEW q \in Located, NEW e \in Ents
  PROVE  /\ e \in DeltaBits(q).t <=> /\ View(dt, df, e)[q] = DL_UNDECIDED
                                     /\ OpenEval(TheoryAt(e), OpenAt(e), View(dt, df, e), q) = DL_PROVED
         /\ e \in DeltaBits(q).f <=> /\ View(dt, df, e)[q] = DL_UNDECIDED
                                     /\ OpenEval(TheoryAt(e), OpenAt(e), View(dt, df, e), q) = DL_REFUTED
<1> DEFINE T == TheoryAt(e)
           d == View(dt, df, e)
           strict == {r \in idx.heads[q] : rules[r].kind = DL_STRICT}
           prove  == fact[q] \cup UNION {And({dt[b] : b \in BodyOf(r)}) : r \in strict}
           dead   == And({UNION {df[b] : b \in BodyOf(r)} : r \in strict})
           nt     == (prove \ (df[q] \cup dt[q])) \cap Ents
           nf     == (dead \ (fact[q] \cup open[q] \cup dt[q] \cup nt \cup df[q])) \cap Ents
<1>1. DeltaBits(q).t = nt /\ DeltaBits(q).f = nf
  BY DEF DeltaBits
<1>2. q \in Lits /\ strict = StrictFor(T, q)
  BY LocatedCompl, IndexReads
<1>3. strict \subseteq DOMAIN rules
  BY <1>2, TheoryAtFacts DEF StrictFor, RulesFor
<1>4. dt \in EntRows /\ df \in EntRows
  BY DEF Columns
<1>5. \A r \in strict : /\ BodyAll(T, r, d, DL_PROVED) <=> \A b \in BodyOf(r) : e \in dt[b]
                        /\ BodySome(T, r, d, DL_REFUTED) <=> \E b \in BodyOf(r) : e \in df[b]
  BY <1>3, <1>4, BodyView
<1>6. e \in Bits
  BY FamilyAssumption
<1>7. q \in T.facts <=> e \in fact[q]
  BY <1>2, TheoryAtFacts
<1>8. q \in OpenAt(e) <=> e \in open[q]
  BY <1>2 DEF OpenAt
<1>9. d[q] = DL_UNDECIDED <=> e \notin dt[q] /\ e \notin df[q]
  BY <1>4, ViewFacts
<1> HIDE DEF T, d, strict
<1>10. e \in prove <=> DeltaProves(T, d, q)
  <2>1. e \in prove <=> e \in fact[q] \/ \E r \in strict : e \in And({dt[b] : b \in BodyOf(r)})
    OBVIOUS
  <2>2. \A r \in strict : e \in And({dt[b] : b \in BodyOf(r)}) <=> BodyAll(T, r, d, DL_PROVED)
    BY <1>5, <1>6 DEF And
  <2> QED
    BY <1>2, <1>7, <2>1, <2>2 DEF DeltaProves
<1>11. e \in dead <=> \A r \in StrictFor(T, q) : BodySome(T, r, d, DL_REFUTED)
  <2>1. \A r \in strict : e \in UNION {df[b] : b \in BodyOf(r)} <=> BodySome(T, r, d, DL_REFUTED)
    BY <1>5
  <2>2. e \in dead <=> \A r \in strict : e \in UNION {df[b] : b \in BodyOf(r)}
    BY <1>6 DEF And
  <2> QED
    BY <1>2, <2>1, <2>2
<1> HIDE DEF prove, dead
<1>12. e \in nt <=> d[q] = DL_UNDECIDED /\ DeltaProves(T, d, q)
  BY <1>9, <1>10
<1>13. e \in nf <=> e \in dead /\ e \notin fact[q] /\ e \notin open[q] /\ e \notin dt[q] /\ e \notin nt
                    /\ e \notin df[q]
  OBVIOUS
<1> HIDE DEF nt, nf
<1>14. e \in nf <=> d[q] = DL_UNDECIDED /\ DeltaRefutes(T, d, q) /\ q \notin OpenAt(e)
  <2>1. DeltaRefutes(T, d, q) <=> ~ DeltaProves(T, d, q) /\ e \in dead
    BY <1>11 DEF DeltaRefutes
  <2>2. e \in fact[q] => DeltaProves(T, d, q)
    BY <1>7 DEF DeltaProves
  <2> QED
    BY <1>8, <1>9, <1>12, <1>13, <2>1, <2>2
<1>15. /\ OpenEval(T, OpenAt(e), d, q) = DL_PROVED <=> DeltaProves(T, d, q)
       /\ OpenEval(T, OpenAt(e), d, q) = DL_REFUTED <=> DeltaRefutes(T, d, q) /\ q \notin OpenAt(e)
  BY OpenEvalFacts
<1> QED
  BY <1>1, <1>12, <1>14, <1>15 DEF T, d

\* The applicability rows tell for every entity which rules apply.
AppRight(app, r, e) ==
  /\ e \in app[r].t <=> Applicable(TheoryAt(e), View(pt, pf, e), r)
  /\ e \in app[r].f <=> Discarded(TheoryAt(e), View(pt, pf, e), r)

\* A refreshed row does: one that is trusted decided every entity, soundly.
LEMMA RefreshedRight ==
  ASSUME Shape, Columns, Apart(pt, pf), NEW r \in DOMAIN rules, NEW e \in Ents,
         RowSound(r, at, af, pt, pf, BodyOf(r)), NEW app, app[r] = Refreshed(r)
  PROVE  AppRight(app, r, e)
<1>1. /\ Applicable(TheoryAt(e), View(pt, pf, e), r) <=> \A b \in BodyOf(r) : e \in pt[b]
      /\ Discarded(TheoryAt(e), View(pt, pf, e), r) <=> \E b \in BodyOf(r) : e \in pf[b]
  BY BodyView DEF Columns, Applicable, Discarded
<1>2. BodyOf(r) \subseteq Lits
  BY TheoryAtFacts
<1>3. ~ ((\A b \in BodyOf(r) : e \in pt[b]) /\ (\E b \in BodyOf(r) : e \in pf[b]))
  BY <1>2 DEF Apart
<1>4. e \in Bits
  BY FamilyAssumption
<1>5. CASE Undecided(at[r], af[r]) = {}
  <2>1. app[r].t = at[r] /\ app[r].f = af[r]
    BY <1>5 DEF Refreshed
  <2>2. e \in at[r] \/ e \in af[r]
    BY <1>5 DEF Undecided
  <2> QED
    BY <1>1, <1>3, <2>1, <2>2 DEF RowSound, AppRight
<1>6. CASE Undecided(at[r], af[r]) # {}
  <2>1. app[r].t = And({pt[b] : b \in BodyOf(r)}) /\ app[r].f = UNION {pf[b] : b \in BodyOf(r)}
    BY <1>6 DEF Refreshed
  <2>2. e \in app[r].t <=> \A b \in BodyOf(r) : e \in pt[b]
    BY <1>4, <2>1 DEF And
  <2>3. e \in app[r].f <=> \E b \in BodyOf(r) : e \in pf[b]
    BY <2>1
  <2> QED
    BY <1>1, <2>2, <2>3 DEF AppRight
<1> QED
  BY <1>5, <1>6

\* eval_part_col decides for every entity what eval_part decides.
LEMMA PartBitsView ==
  ASSUME Shape, Columns, Apart(dt, df), Apart(pt, pf), Compiles, NEW q \in Located, NEW e \in Ents,
         NEW app, \A r \in idx.heads[q] \cup idx.heads[Compl(q)] : AppRight(app, r, e)
  PROVE  /\ e \in PartBits(q, app).t
              <=> /\ View(pt, pf, e)[q] = DL_UNDECIDED
                  /\ EvalPart(TheoryAt(e), View(dt, df, e), View(pt, pf, e), q) = DL_PROVED
         /\ e \in PartBits(q, app).f
              <=> /\ View(pt, pf, e)[q] = DL_UNDECIDED
                  /\ EvalPart(TheoryAt(e), View(dt, df, e), View(pt, pf, e), q) = DL_REFUTED
<1> DEFINE T == TheoryAt(e)
           d == View(dt, df, e)
           p == View(pt, pf, e)
           nq == Compl(q)
           support == {r \in idx.heads[q] : rules[r].kind # DL_DEFEATER}
           beaters(s) == idx.beats[s] \cap support
           supported == UNION {app[r].t : r \in support}
           unsupported == And({app[r].f : r \in support})
           countered == And({app[s].f \cup UNION {app[r].t : r \in beaters(s)} : s \in idx.heads[nq]})
           exposed == UNION {app[s].t \cap And({app[r].f : r \in beaters(s)}) : s \in idx.heads[nq]}
           pos == dt[q] \cup (df[nq] \cap supported \cap countered)
           neg == df[q] \cap (dt[nq] \cup unsupported \cup exposed)
           nt == (pos \ (pf[q] \cup pt[q])) \cap Ents
           nf == (neg \ (pt[q] \cup nt \cup pf[q])) \cap Ents
<1>1. PartBits(q, app).t = nt /\ PartBits(q, app).f = nf
  BY DEF PartBits
<1>2. q \in Lits /\ nq \in Lits /\ nq \in Located
  BY LocatedCompl
<1>3. support = SupportersOf(T, q) /\ idx.heads[nq] = RulesFor(T, nq) /\ idx.heads[q] = RulesFor(T, q)
  BY <1>2, IndexReads
<1>4. \A s \in idx.heads[nq] : beaters(s) = Defenders(T, s, q)
  <2>1. \A s \in idx.heads[nq] : s \in DOMAIN rules
    BY <1>3, TheoryAtFacts DEF RulesFor
  <2> QED
    BY <1>2, <1>3, <2>1, IndexReads
<1>5. \A r \in support \cup idx.heads[nq] : /\ e \in app[r].t <=> Applicable(T, p, r)
                                            /\ e \in app[r].f <=> Discarded(T, p, r)
  BY DEF AppRight
<1>6. e \in Bits
  BY FamilyAssumption
<1>7. /\ d[q] = DL_PROVED <=> e \in dt[q]
      /\ d[q] = DL_REFUTED <=> e \in df[q]
      /\ d[nq] = DL_PROVED <=> e \in dt[nq]
      /\ d[nq] = DL_REFUTED <=> e \in df[nq]
      /\ p[q] = DL_UNDECIDED <=> e \notin pt[q] /\ e \notin pf[q]
  <2>1. dt \in EntRows /\ df \in EntRows /\ pt \in EntRows /\ pf \in EntRows
    BY DEF Columns
  <2> QED
    BY <1>2, <2>1, ViewFacts
<1> HIDE DEF T, d, p, support, nq
<1>8. e \in supported <=> Supported(T, p, q)
  <2>1. e \in supported <=> \E r \in support : e \in app[r].t
    OBVIOUS
  <2> QED
    BY <1>3, <1>5, <2>1 DEF Supported
<1>9. e \in unsupported <=> NotSupported(T, p, q)
  <2>1. e \in unsupported <=> \A r \in support : e \in app[r].f
    BY <1>6 DEF And
  <2> QED
    BY <1>3, <1>5, <2>1 DEF NotSupported
<1>10. \A s \in idx.heads[nq] : beaters(s) \subseteq support
  OBVIOUS
<1> HIDE DEF beaters
<1>11. e \in countered <=> AllAttackersCountered(T, p, q)
  <2>1. e \in countered <=> \A s \in idx.heads[nq] : e \in app[s].f \/ \E r \in beaters(s) : e \in app[r].t
    <3> DEFINE row(s) == app[s].f \cup UNION {app[r].t : r \in beaters(s)}
    <3>1. \A s \in idx.heads[nq] : e \in row(s) <=> (e \in app[s].f \/ \E r \in beaters(s) : e \in app[r].t)
      OBVIOUS
    <3>2. countered = And({row(s) : s \in idx.heads[nq]})
      OBVIOUS
    <3> HIDE DEF row, countered
    <3>3. e \in countered <=> \A s \in idx.heads[nq] : e \in row(s)
      BY <1>6, <3>2 DEF And
    <3> QED
      BY <3>1, <3>3
  <2>2. \A s \in idx.heads[nq] : (e \in app[s].f \/ \E r \in beaters(s) : e \in app[r].t) <=> Countered(T, p, s, q)
    BY <1>4, <1>5, <1>10 DEF Countered
  <2> QED
    BY <1>3, <2>1, <2>2 DEF AllAttackersCountered, nq
<1>12. e \in exposed <=> AttackerUncountered(T, p, q)
  <2>1. e \in exposed <=> \E s \in idx.heads[nq] : e \in app[s].t /\ \A r \in beaters(s) : e \in app[r].f
    BY <1>6 DEF And
  <2>2. \A s \in idx.heads[nq] : (e \in app[s].t /\ \A r \in beaters(s) : e \in app[r].f)
          <=> (Applicable(T, p, s) /\ \A r \in Defenders(T, s, q) : Discarded(T, p, r))
    BY <1>4, <1>5, <1>10
  <2> QED
    BY <1>3, <2>1, <2>2 DEF AttackerUncountered, nq
<1> HIDE DEF supported, unsupported, countered, exposed
<1>13. e \in pos <=> PartProves(T, d, p, q)
  <2>1. e \in pos <=> e \in dt[q] \/ (e \in df[nq] /\ e \in supported /\ e \in countered)
    OBVIOUS
  <2>2. PartProves(T, d, p, q) <=> \/ d[q] = DL_PROVED
                                   \/ d[nq] = DL_REFUTED /\ Supported(T, p, q) /\ AllAttackersCountered(T, p, q)
    BY DEF PartProves, nq
  <2> QED
    BY <1>7, <1>8, <1>11, <2>1, <2>2
<1>14. e \in neg <=> PartRefutes(T, d, p, q)
  <2>1. e \in neg <=> e \in df[q] /\ (e \in dt[nq] \/ e \in unsupported \/ e \in exposed)
    OBVIOUS
  <2>2. PartRefutes(T, d, p, q) <=> /\ d[q] = DL_REFUTED
                                    /\ d[nq] = DL_PROVED \/ NotSupported(T, p, q) \/ AttackerUncountered(T, p, q)
    BY DEF PartRefutes, nq
  <2> QED
    BY <1>7, <1>9, <1>12, <2>1, <2>2
<1> HIDE DEF pos, neg
<1>15. e \in nt <=> p[q] = DL_UNDECIDED /\ PartProves(T, d, p, q)
  BY <1>7, <1>13
<1>16. e \in nf <=> e \in neg /\ e \notin pt[q] /\ e \notin nt /\ e \notin pf[q]
  OBVIOUS
<1> HIDE DEF nt, nf
<1>17. e \in nf <=> p[q] = DL_UNDECIDED /\ PartRefutes(T, d, p, q) /\ ~ PartProves(T, d, p, q)
  BY <1>7, <1>14, <1>15, <1>16
<1>18. /\ EvalPart(T, d, p, q) = DL_PROVED <=> PartProves(T, d, p, q)
       /\ EvalPart(T, d, p, q) = DL_REFUTED <=> PartRefutes(T, d, p, q) /\ ~ PartProves(T, d, p, q)
  BY VerdictsDiffer DEF EvalPart
<1> QED
  BY <1>1, <1>15, <1>17, <1>18 DEF T, d, p

-----------------------------------------------------------------------------
(* What a visit decides.                                                   *)

\* The statuses of the layer in work, what an evaluation there yields, and whether
\* it would decide something.
NowAt(e) == IF phase = "delta" THEN View(dt, df, e) ELSE View(pt, pf, e)
EvalAt(e, q) ==
  IF phase = "delta" THEN OpenEval(TheoryAt(e), OpenAt(e), View(dt, df, e), q)
                     ELSE EvalPart(TheoryAt(e), View(dt, df, e), View(pt, pf, e), q)
Awaits(e, q) == NowAt(e)[q] = DL_UNDECIDED /\ EvalAt(e, q) # DL_UNDECIDED

\* An evaluation yields a verdict.
LEMMA EvalAtVerdict ==
  ASSUME NEW e, NEW q
  PROVE  EvalAt(e, q) \in Verdict
BY OpenEvalFacts, EvalVerdict DEF EvalAt

\* One literal decided, one row grown, and the verdict new bits give an entity.
Decided(st, q, v) == [st EXCEPT ![q] = v]
Grown(col, q, new) == [col EXCEPT ![q] = @ \cup new]
BitVerdict(e, bt, bf, v) == IF e \in bt THEN DL_PROVED ELSE IF e \in bf THEN DL_REFUTED ELSE v

\* New bits of one row decide its literal for their entities.
LEMMA VisitView ==
  ASSUME NEW t \in EntRows, NEW f \in EntRows, Apart(t, f), NEW q \in Lits, q \in Located,
         NEW bt \in SUBSET Ents, NEW bf \in SUBSET Ents,
         \A e \in bt : e \notin t[q] /\ e \notin f[q],
         \A e \in bf : e \notin t[q] /\ e \notin f[q] /\ e \notin bt,
         NEW t2, t2 = Grown(t, q, bt), NEW f2, f2 = Grown(f, q, bf)
  PROVE  /\ Apart(t2, f2)
         /\ \A e : View(t2, f2, e) = Decided(View(t, f, e), q, BitVerdict(e, bt, bf, View(t, f, e)[q]))
<1>1. /\ \A x \in Lits : t2[x] = (IF x = q THEN t[q] \cup bt ELSE t[x])
      /\ \A x \in Lits : f2[x] = (IF x = q THEN f[q] \cup bf ELSE f[x])
  BY DEF EntRows, Grown
<1>2. Apart(t2, f2)
  <2> SUFFICES ASSUME NEW x \in Lits PROVE t2[x] \cap f2[x] = {}
    BY DEF Apart
  <2>1. t[x] \cap f[x] = {}
    BY DEF Apart
  <2>2. CASE x # q
    BY <1>1, <2>1, <2>2
  <2>3. CASE x = q
    BY <1>1, <2>1, <2>3
  <2> QED
    BY <2>2, <2>3
<1>3. ASSUME NEW e
      PROVE  View(t2, f2, e) = Decided(View(t, f, e), q, BitVerdict(e, bt, bf, View(t, f, e)[q]))
  <2> DEFINE now(x) == IF e \in t[x] THEN DL_PROVED ELSE IF e \in f[x] THEN DL_REFUTED ELSE DL_UNDECIDED
             then(x) == IF e \in t2[x] THEN DL_PROVED ELSE IF e \in f2[x] THEN DL_REFUTED ELSE DL_UNDECIDED
  <2>1. /\ View(t, f, e) = [x \in Lits |-> IF x \in Located THEN now(x) ELSE DL_REFUTED]
        /\ View(t2, f2, e) = [x \in Lits |-> IF x \in Located THEN then(x) ELSE DL_REFUTED]
    BY DEF View, StatusOf
  <2>2. \A x \in Lits : x # q => then(x) = now(x)
    BY <1>1
  <2>3. then(q) = IF e \in bt THEN DL_PROVED ELSE IF e \in bf THEN DL_REFUTED ELSE now(q)
    <3>1. e \in t2[q] <=> e \in t[q] \/ e \in bt
      BY <1>1
    <3>2. e \in f2[q] <=> e \in f[q] \/ e \in bf
      BY <1>1
    <3> QED
      BY <3>1, <3>2
  <2> HIDE DEF now, then
  <2>4. Decided(View(t, f, e), q, BitVerdict(e, bt, bf, View(t, f, e)[q]))
          = [x \in Lits |-> IF x = q THEN (IF e \in bt THEN DL_PROVED ELSE IF e \in bf THEN DL_REFUTED ELSE now(q))
                            ELSE IF x \in Located THEN now(x) ELSE DL_REFUTED]
    BY <2>1 DEF Decided, BitVerdict
  <2> QED
    BY <2>1, <2>2, <2>3, <2>4
<1> QED
  BY <1>2, <1>3

\* The theories of the entities, and what is open in them, do not change in a solve.
LEMMA TheoriesKept ==
  ASSUME UNCHANGED <<rules, body, sups, natoms, fact, open>>
  PROVE  /\ \A e : TheoryAt(e)' = TheoryAt(e) /\ OpenAt(e)' = OpenAt(e)
         /\ \A e : View(dt, df, e)' = View(dt', df', e) /\ View(pt, pf, e)' = View(pt', pf', e)
         /\ Located' = Located
<1>1. Decoded' = Decoded /\ Located' = Located
  BY SameRules DEF Located
<1> QED
  BY <1>1 DEF TheoryAt, OpenAt, View, StatusOf

\* While a solve runs no bit says two things and no literal without a row has bits.
Rowed ==
  /\ Apart(dt, df) /\ Apart(pt, pf)
  /\ InRoom(dt) /\ InRoom(df) /\ InRoom(pt) /\ InRoom(pf)

Ready == Shape /\ Columns /\ AppRows /\ Compiles /\ Rowed

\* A visit decides its literal for the entities it can be decided for.
Visited(q) ==
  /\ UNCHANGED <<phase, pass, idx, dirty, theory, fact, open, cid, any>>
  /\ \A e \in Ents : NowAt(e)' = IF Awaits(e, q) THEN Decided(NowAt(e), q, EvalAt(e, q)) ELSE NowAt(e)
  /\ phase = "delta" => UNCHANGED <<pt, pf>>
  /\ phase = "part" => UNCHANGED <<dt, df>>
  /\ \E moved \in BOOLEAN : (moved <=> \E e \in Ents : Awaits(e, q)) /\ SweepNext(moved)
  /\ Rowed'

\* New bits keep the rows where there is room.
LEMMA RoomKept ==
  ASSUME NEW col \in EntRows, InRoom(col), NEW q \in Lits, NEW new \in SUBSET Ents,
         q \notin Located => new = {}
  PROVE  InRoom(Grown(col, q, new))
<1> SUFFICES ASSUME NEW x \in Lits \ Located PROVE Grown(col, q, new)[x] = {}
  BY DEF InRoom
<1>1. col[x] = {}
  BY DEF InRoom
<1> QED
  BY <1>1 DEF EntRows, Grown

\* The new bits of a row are the decisions of the entities' evaluations.
LEMMA BitsView ==
  ASSUME NEW t \in EntRows, NEW f \in EntRows, Apart(t, f), InRoom(t), InRoom(f),
         \A e \in Ents : NowAt(e) = View(t, f, e),
         NEW q \in Lits, NEW bt \in SUBSET Ents, NEW bf \in SUBSET Ents,
         q \notin Located => bt = {} /\ bf = {},
         \A e \in Ents : e \in bt <=> NowAt(e)[q] = DL_UNDECIDED /\ EvalAt(e, q) = DL_PROVED,
         \A e \in Ents : e \in bf <=> NowAt(e)[q] = DL_UNDECIDED /\ EvalAt(e, q) = DL_REFUTED,
         NEW t2, t2 = Grown(t, q, bt), NEW f2, f2 = Grown(f, q, bf)
  PROVE  /\ Apart(t2, f2) /\ InRoom(t2) /\ InRoom(f2)
         /\ \A e \in Ents : View(t2, f2, e) =
              IF Awaits(e, q) THEN Decided(NowAt(e), q, EvalAt(e, q)) ELSE NowAt(e)
         /\ \A e \in Ents : (e \in bt \/ e \in bf) <=> Awaits(e, q)
<1>1. ASSUME NEW e \in Ents
      PROVE  /\ Decided(View(t, f, e), q, BitVerdict(e, bt, bf, View(t, f, e)[q]))
                  = IF Awaits(e, q) THEN Decided(NowAt(e), q, EvalAt(e, q)) ELSE NowAt(e)
             /\ (e \in bt \/ e \in bf) <=> Awaits(e, q)
  <2>1. View(t, f, e) \in Status /\ NowAt(e) = View(t, f, e)
    BY ViewFacts
  <2>2. EvalAt(e, q) \in {DL_UNDECIDED, DL_PROVED, DL_REFUTED}
    BY EvalAtVerdict DEF Verdict
  <2>3. Awaits(e, q) <=> NowAt(e)[q] = DL_UNDECIDED /\ EvalAt(e, q) # DL_UNDECIDED
    BY DEF Awaits
  <2>4. (e \in bt \/ e \in bf) <=> Awaits(e, q)
    BY <2>2, <2>3, VerdictsDiffer
  <2>5. Decided(View(t, f, e), q, View(t, f, e)[q]) = View(t, f, e)
    BY <2>1 DEF Decided, Status
  <2>6. Awaits(e, q) => BitVerdict(e, bt, bf, View(t, f, e)[q]) = EvalAt(e, q)
    BY <2>2, <2>3, VerdictsDiffer DEF BitVerdict
  <2>7. ~ Awaits(e, q) => BitVerdict(e, bt, bf, View(t, f, e)[q]) = View(t, f, e)[q]
    BY <2>4 DEF BitVerdict
  <2>8. CASE Awaits(e, q)
    BY <2>1, <2>4, <2>6, <2>8
  <2>9. CASE ~ Awaits(e, q)
    BY <2>1, <2>4, <2>5, <2>7, <2>9
  <2> QED
    BY <2>8, <2>9
<1>2. CASE q \in Located
  <2>1. \A e \in Ents : NowAt(e)[q] = DL_UNDECIDED => e \notin t[q] /\ e \notin f[q]
    BY <1>2, ViewFacts
  <2>2. \A e \in bt : e \notin t[q] /\ e \notin f[q]
    BY <2>1
  <2>3. \A e \in bf : e \notin t[q] /\ e \notin f[q] /\ e \notin bt
    BY <2>1, VerdictsDiffer
  <2>4. Apart(t2, f2) /\ \A e : View(t2, f2, e) = Decided(View(t, f, e), q, BitVerdict(e, bt, bf, View(t, f, e)[q]))
    BY <1>2, <2>2, <2>3, VisitView
  <2>5. InRoom(t2) /\ InRoom(f2)
    BY <1>2, RoomKept
  <2> QED
    BY <1>1, <2>4, <2>5
<1>3. CASE q \notin Located
  <2>1. t[q] \cup bt = t[q] /\ f[q] \cup bf = f[q]
    BY <1>3
  <2>2. [t EXCEPT ![q] = t[q]] = t /\ [f EXCEPT ![q] = f[q]] = f
    BY DEF EntRows
  <2>3. t2 = t /\ f2 = f
    BY <2>1, <2>2 DEF Grown
  <2>4. \A e \in Ents : ~ Awaits(e, q)
    BY <1>1, <1>3
  <2> QED
    BY <1>1, <2>3, <2>4
<1> QED
  BY <1>2, <1>3

\* A visit of the definite layer.
LEMMA DeltaVisited ==
  ASSUME Ready, VisitDelta, NEW q \in Lits, q = Cur[k]
  PROVE  Visited(q)
<1>0. PICK b, bt, bf : /\ b = IF q \in Located THEN DeltaBits(q) ELSE [t |-> {}, f |-> {}]
                       /\ bt = b.t /\ bf = b.f
  OBVIOUS
<1>1. /\ phase = "delta" /\ dt' = Grown(dt, q, bt) /\ df' = Grown(df, q, bf) /\ SweepNext(Moves(b))
      /\ UNCHANGED <<theory, dirty, idx, fact, open, pt, pf, completed, apps, phase, pass, cid, any, solves>>
  BY <1>0 DEF VisitDelta, Grown
<1>2. UNCHANGED <<rules, body, sups, natoms, fact, open>>
  BY <1>1 DEF theory
<1>3. /\ dt \in EntRows /\ df \in EntRows /\ Apart(dt, df) /\ InRoom(dt) /\ InRoom(df)
      /\ Apart(pt, pf) /\ InRoom(pt) /\ InRoom(pf)
  BY DEF Ready, Rowed, Columns
<1>4. bt \in SUBSET Ents /\ bf \in SUBSET Ents
  BY <1>0, NewBits
<1>5. \A e : NowAt(e) = View(dt, df, e) /\ NowAt(e)' = View(dt', df', e)
  BY <1>1, <1>2, TheoriesKept DEF NowAt
<1>6. ASSUME NEW e \in Ents
      PROVE  /\ e \in bt <=> NowAt(e)[q] = DL_UNDECIDED /\ EvalAt(e, q) = DL_PROVED
             /\ e \in bf <=> NowAt(e)[q] = DL_UNDECIDED /\ EvalAt(e, q) = DL_REFUTED
  <2>1. CASE q \in Located
    BY <1>0, <1>1, <1>5, <2>1, DeltaBitsView DEF Ready, Rowed, EvalAt
  <2>2. CASE q \notin Located
    <3>1. View(dt, df, e)[q] = DL_REFUTED
      BY <1>3, <2>2, ViewFacts
    <3>2. e \notin bt /\ e \notin bf
      BY <1>0, <2>2
    <3> QED
      BY <1>5, <3>1, <3>2, VerdictsDiffer
  <2> QED
    BY <2>1, <2>2
<1>7. PICK t2, f2 : t2 = Grown(dt, q, bt) /\ f2 = Grown(df, q, bf)
  OBVIOUS
<1>8. q \notin Located => bt = {} /\ bf = {}
  BY <1>0
<1>9. /\ Apart(t2, f2) /\ InRoom(t2) /\ InRoom(f2)
      /\ \A e \in Ents : View(t2, f2, e) = IF Awaits(e, q) THEN Decided(NowAt(e), q, EvalAt(e, q)) ELSE NowAt(e)
      /\ \A e \in Ents : (e \in bt \/ e \in bf) <=> Awaits(e, q)
  BY ONLY <1>3, <1>4, <1>5, <1>6, <1>7, <1>8, q \in Lits, BitsView
<1>10. \A e \in Ents : NowAt(e)' = IF Awaits(e, q) THEN Decided(NowAt(e), q, EvalAt(e, q)) ELSE NowAt(e)
  BY <1>1, <1>5, <1>7, <1>9
<1>11. Rowed'
  <2>1. Located' = Located
    BY <1>2, TheoriesKept
  <2> QED
    BY <1>1, <1>3, <1>7, <1>9, <2>1 DEF Rowed, InRoom, Apart
<1>12. Moves(b) \in BOOLEAN /\ (Moves(b) <=> \E e \in Ents : Awaits(e, q))
  BY <1>0, <1>4, <1>9 DEF Moves
<1> QED
  BY <1>1, <1>10, <1>11, <1>12 DEF Visited

\* A visit of the defeasible layer.
LEMMA PartVisited ==
  ASSUME Ready, VisitPart, NEW q \in Lits, q = Cur[k]
  PROVE  Visited(q)
<1> DEFINE reads == q \in Located /\ Undecided(pt[q], pf[q]) # {}
           read0 == IF reads THEN idx.heads[q] \cup idx.heads[Compl(q)] ELSE {}
           app0  == [r \in DOMAIN rules |-> IF r \in read0 THEN Refreshed(r) ELSE [t |-> at[r], f |-> af[r]]]
           b0    == IF reads THEN PartBits(q, app0) ELSE [t |-> {}, f |-> {}]
<1>0. PICK app, b, bt, bf : app = app0 /\ b = b0 /\ bt = b.t /\ bf = b.f
  OBVIOUS
<1>1. /\ phase = "part" /\ pt' = Grown(pt, q, bt) /\ pf' = Grown(pf, q, bf) /\ SweepNext(Moves(b))
      /\ UNCHANGED <<theory, dirty, idx, fact, open, dt, df, completed, phase, pass, cid, any, solves>>
  BY <1>0 DEF VisitPart, Grown
<1>a. b = IF reads THEN PartBits(q, app) ELSE [t |-> {}, f |-> {}]
  BY <1>0
<1>b. reads => \A r \in idx.heads[q] \cup idx.heads[Compl(q)] : r \in DOMAIN rules => app[r] = Refreshed(r)
  BY <1>0
<1> HIDE DEF app0, b0, read0
<1>2. UNCHANGED <<rules, body, sups, natoms, fact, open>>
  BY <1>1 DEF theory
<1>3. /\ pt \in EntRows /\ pf \in EntRows /\ Apart(pt, pf) /\ InRoom(pt) /\ InRoom(pf)
      /\ Apart(dt, df) /\ InRoom(dt) /\ InRoom(df)
  BY DEF Ready, Rowed, Columns
<1>4. bt \in SUBSET Ents /\ bf \in SUBSET Ents
  BY <1>0, <1>a, NewBits
<1>5. \A e : NowAt(e) = View(pt, pf, e) /\ NowAt(e)' = View(pt', pf', e)
  BY <1>1, <1>2, TheoriesKept DEF NowAt
<1>6. ASSUME NEW e \in Ents
      PROVE  /\ e \in bt <=> NowAt(e)[q] = DL_UNDECIDED /\ EvalAt(e, q) = DL_PROVED
             /\ e \in bf <=> NowAt(e)[q] = DL_UNDECIDED /\ EvalAt(e, q) = DL_REFUTED
  <2>1. CASE reads
    <3>1. \A r \in idx.heads[q] \cup idx.heads[Compl(q)] : r \in DOMAIN rules
      <4>1. Compl(q) \in Lits
        BY ComplLits
      <4> QED
        BY <4>1, IndexReads, TheoryAtFacts DEF Ready, RulesFor
    <3>2. \A r \in idx.heads[q] \cup idx.heads[Compl(q)] : AppRight(app, r, e)
      <4> SUFFICES ASSUME NEW r \in DOMAIN rules, app[r] = Refreshed(r) PROVE AppRight(app, r, e)
        BY <1>b, <2>1, <3>1
      <4>1. RowSound(r, at, af, pt, pf, BodyOf(r))
        BY <1>1 DEF Ready, AppRows
      <4> QED
        BY <4>1, RefreshedRight DEF Ready, Rowed
    <3> QED
      BY <1>0, <1>1, <1>5, <1>a, <2>1, <3>2, PartBitsView DEF Ready, Rowed, EvalAt
  <2>2. CASE ~ reads
    <3>1. View(pt, pf, e)[q] # DL_UNDECIDED
      BY <1>3, <2>2, ViewFacts, VerdictsDiffer DEF Undecided
    <3>2. e \notin bt /\ e \notin bf
      BY <1>0, <1>a, <2>2
    <3> QED
      BY <1>5, <3>1, <3>2
  <2> QED
    BY <2>1, <2>2
<1>7. PICK t2, f2 : t2 = Grown(pt, q, bt) /\ f2 = Grown(pf, q, bf)
  OBVIOUS
<1>8. q \notin Located => bt = {} /\ bf = {}
  BY <1>0, <1>a
<1>9. /\ Apart(t2, f2) /\ InRoom(t2) /\ InRoom(f2)
      /\ \A e \in Ents : View(t2, f2, e) = IF Awaits(e, q) THEN Decided(NowAt(e), q, EvalAt(e, q)) ELSE NowAt(e)
      /\ \A e \in Ents : (e \in bt \/ e \in bf) <=> Awaits(e, q)
  BY ONLY <1>3, <1>4, <1>5, <1>6, <1>7, <1>8, q \in Lits, BitsView
<1>10. \A e \in Ents : NowAt(e)' = IF Awaits(e, q) THEN Decided(NowAt(e), q, EvalAt(e, q)) ELSE NowAt(e)
  BY <1>1, <1>5, <1>7, <1>9
<1>11. Rowed'
  <2>1. Located' = Located
    BY <1>2, TheoriesKept
  <2> QED
    BY <1>1, <1>3, <1>7, <1>9, <2>1 DEF Rowed, InRoom, Apart
<1>12. Moves(b) \in BOOLEAN /\ (Moves(b) <=> \E e \in Ents : Awaits(e, q))
  BY <1>0, <1>4, <1>9 DEF Moves
<1> QED
  BY <1>1, <1>10, <1>11, <1>12 DEF Visited

-----------------------------------------------------------------------------
(* Every decision is one of the limit's, and a layer that stops is there.  *)

\* A decision of the definite layer is sound and the limit's.
LEMMA DeltaDecided ==
  ASSUME NEW t, TheoryLits(t), NEW o, NEW sccs, AreSccs(sccs),
         NEW D, D = Family!DefiniteOf(t, o, sccs),
         NEW d, DeltaFine(t, d), Extends(d, D), NEW q \in Lits, d[q] = DL_UNDECIDED,
         NEW v, v = OpenEval(t, o, d, q), v # DL_UNDECIDED, NEW d2, d2 = Decided(d, q, v)
  PROVE  DeltaFine(t, d2) /\ Extends(d2, D)
<1>1. DeltaFine(t, D) /\ OpenStops(t, o, sccs, D)
  BY DefiniteLimit
<1>2. d \in Status
  BY DEF DeltaFine
<1>3. D[q] = v
  BY <1>1, <1>2, OpenDecisionAgrees
<1>4. v \in Verdict
  BY OpenEvalFacts
<1>5. d2 \in Status /\ \A x \in Lits : d2[x] = IF x = q THEN v ELSE d[x]
  BY <1>2, <1>4 DEF Decided, Status
<1>6. \A x \in Lits : d2[x] = d[x] \/ (d[x] = DL_UNDECIDED /\ d2[x] = OpenEval(t, o, d, x))
  BY <1>5
<1>7. DeltaMove(t, d, d2)
  BY <1>2, <1>5, <1>6, OpenDecisionMoves
<1>8. DeltaFine(t, d2)
  BY <1>7, DeltaMoveFine
<1>9. Extends(d2, D)
  BY <1>3, <1>5 DEF Extends
<1> QED
  BY <1>8, <1>9

\* So is the completion of a component of a settled layer, which stays settled.
LEMMA DeltaLooped ==
  ASSUME NEW t, TheoryLits(t), NEW o, NEW sccs, AreSccs(sccs),
         NEW D, D = Family!DefiniteOf(t, o, sccs),
         NEW d, DeltaFine(t, d), Extends(d, D), NoDeltaProof(t, d),
         NEW z \in Lits, NEW c, c = sccs[z], Completes(t, d, c, TRUE), NEW d2, d2 = Completion(d, c)
  PROVE  DeltaFine(t, d2) /\ Extends(d2, D) /\ NoDeltaProof(t, d2)
<1>1. DeltaFine(t, D) /\ OpenStops(t, o, sccs, D)
  BY DefiniteLimit
<1>2. d \in Status
  BY DEF DeltaFine
<1>3. DeltaCompletes(t, d, sccs[z])
  BY DEF DeltaCompletes
<1>4. \A x \in Lits : x \in c /\ d[x] = DL_UNDECIDED => D[x] = DL_REFUTED
  BY <1>1, <1>2, <1>3, OpenCompletionAgrees
<1>5. DeltaMove(t, d, d2)
  <2>1. \A y \in {c} : ~ BlockedScc(t, d, y, TRUE)
    BY DEF Completes
  <2>2. c = UNION {c}
    OBVIOUS
  <2>3. PICK cs : cs = {c}
    OBVIOUS
  <2>4. c = UNION cs /\ \A y \in cs : ~ BlockedScc(t, d, y, TRUE)
    BY <2>1, <2>2, <2>3
  <2>5. DeltaMove(t, d, Completion(d, c))
    BY <1>2, <2>4, OpenCompletionMoves
  <2> QED
    BY <2>5
<1>6. d2 \in Status /\ \A x \in Lits : d2[x] = IF x \in c /\ d[x] = DL_UNDECIDED THEN DL_REFUTED ELSE d[x]
  BY <1>2, CompletionType DEF Completion
<1>7. Extends(d2, D)
  BY <1>4, <1>6 DEF Extends
<1>8. NoDeltaProof(t, d2)
  <2> SUFFICES ASSUME NEW x \in Lits, d2[x] = DL_UNDECIDED, DeltaProves(t, d2, x) PROVE FALSE
    BY DEF NoDeltaProof
  <2>1. d[x] = DL_UNDECIDED
    BY <1>6, VerdictsDiffer
  <2>2. \A r \in StrictFor(t, x) : BodyAll(t, r, d2, DL_PROVED) => BodyAll(t, r, d, DL_PROVED)
    <3>1. \A r \in StrictFor(t, x) : t.rules[r].body \subseteq Lits
      BY DEF StrictFor, RulesFor, TheoryLits
    <3> QED
      BY <1>6, <3>1, VerdictsDiffer DEF BodyAll
  <2>3. DeltaProves(t, d, x)
    BY <2>2 DEF DeltaProves
  <2> QED
    BY <2>1, <2>3 DEF NoDeltaProof
<1> QED
  BY <1>5, <1>7, <1>8, DeltaMoveFine

\* A definite layer that stops holds its limit.
LEMMA DeltaLimitReached ==
  ASSUME NEW t, TheoryLits(t), NEW o, NEW sccs, AreSccs(sccs),
         NEW D, D = Family!DefiniteOf(t, o, sccs),
         NEW d, DeltaFine(t, d), Extends(d, D), OpenStops(t, o, sccs, d)
  PROVE  d = D
<1>1. d \in Status /\ D \in Status
  BY DefiniteLimit DEF DeltaFine
<1>2. Extends(D, d)
  BY <1>1, DefiniteLimit
<1> QED
  BY <1>1, <1>2, ExtendsBothWays

\* A decision of the defeasible layer is sound and the limit's.
LEMMA PartDecided ==
  ASSUME NEW t, TheoryLits(t), NEW sccs, AreSccs(sccs), NEW d, NEW P, P = RefPart(t, sccs, d),
         NEW p, PartFine(t, d, p), Extends(p, P), NEW q \in Lits, p[q] = DL_UNDECIDED,
         NEW v, v = EvalPart(t, d, p, q), v # DL_UNDECIDED, NEW p2, p2 = Decided(p, q, v)
  PROVE  PartFine(t, d, p2) /\ Extends(p2, P)
<1>1. PartFine(t, d, P) /\ PartStops(t, sccs, d, P)
  BY RefPartLimit
<1>2. p \in Status
  BY DEF PartFine
<1>3. P[q] = v
  BY <1>1, <1>2, PartDecisionAgrees
<1>4. v \in Verdict
  BY EvalVerdict
<1>5. p2 \in Status /\ \A x \in Lits : p2[x] = IF x = q THEN v ELSE p[x]
  BY <1>2, <1>4 DEF Decided, Status
<1>6. Extends(p, p2)
  BY <1>5 DEF Extends
<1>7. PartMove(t, d, p, p2)
  <2>1. ASSUME NEW x \in Lits, p[x] = DL_UNDECIDED, p2[x] = DL_PROVED PROVE PartProves(t, d, p, x)
    <3>1. x = q /\ v = DL_PROVED
      BY <1>5, <2>1, VerdictsDiffer
    <3> QED
      BY <3>1, VerdictsDiffer DEF EvalPart
  <2>2. ASSUME NEW x \in Lits, p[x] = DL_UNDECIDED, p2[x] = DL_REFUTED PROVE CannotProve(t, d, p2, x)
    <3>1. x = q /\ v = DL_REFUTED
      BY <1>5, <2>2, VerdictsDiffer
    <3>2. PartRefutes(t, d, p, x)
      BY <3>1, VerdictsDiffer DEF EvalPart
    <3>3. CannotProve(t, d, p, x)
      BY <3>2, VerdictsDiffer DEF PartRefutes, CannotProve
    <3> QED
      BY <1>2, <1>5, <1>6, <3>3, CannotProveMonotone
  <2> QED
    BY <1>5, <1>6, <2>1, <2>2 DEF PartMove
<1>8. PartFine(t, d, p2)
  BY <1>7, PartMoveFine
<1>9. Extends(p2, P)
  BY <1>3, <1>5 DEF Extends
<1> QED
  BY <1>8, <1>9

\* So is the completion of a component.
LEMMA PartLooped ==
  ASSUME NEW t, TheoryLits(t), NEW sccs, AreSccs(sccs), NEW d, NEW P, P = RefPart(t, sccs, d),
         NEW p, PartFine(t, d, p), Extends(p, P), NoPartProof(t, d, p),
         NEW z \in Lits, NEW c, c = sccs[z], Completes(t, p, c, FALSE), NEW p2, p2 = Completion(p, c)
  PROVE  PartFine(t, d, p2) /\ Extends(p2, P) /\ NoPartProof(t, d, p2)
<1>1. PartFine(t, d, P) /\ PartStops(t, sccs, d, P)
  BY RefPartLimit
<1>2. p \in Status
  BY DEF PartFine
<1>3. PartCompletes(t, p, sccs[z])
  BY DEF PartCompletes
<1>4. \A x \in Lits : x \in c /\ p[x] = DL_UNDECIDED => P[x] = DL_REFUTED
  BY <1>1, <1>2, <1>3, PartCompletionAgrees
<1>5. p2 \in Status /\ Extends(p, p2)
  BY <1>2, CompletionType, CompletionExtends
<1>6. \A x \in Lits : p2[x] = IF x \in c /\ p[x] = DL_UNDECIDED THEN DL_REFUTED ELSE p[x]
  BY DEF Completion
<1>7. ~ AttackedScc(t, c) /\ ~ BlockedScc(t, p, c, FALSE)
  BY DEF Completes
<1>8. PartMove(t, d, p, p2)
  <2>1. ASSUME NEW x \in Lits, p[x] = DL_UNDECIDED PROVE p2[x] # DL_PROVED
    BY <1>6, <2>1, VerdictsDiffer
  <2>2. ASSUME NEW x \in Lits, p[x] = DL_UNDECIDED, p2[x] = DL_REFUTED PROVE CannotProve(t, d, p2, x)
    <3>1. x \in c
      BY <1>6, <2>2, VerdictsDiffer
    <3>2. \A m \in Lits : p[m] = DL_REFUTED => p2[m] = DL_REFUTED
      BY <1>6
    <3>3. \A m \in Lits : m \in c /\ p[m] = DL_UNDECIDED => p2[m] = DL_REFUTED
      BY <1>6
    <3> QED
      BY <1>2, <1>5, <1>7, <2>2, <3>1, <3>2, <3>3, PartCompletionReason
  <2> QED
    BY <1>5, <2>1, <2>2 DEF PartMove
<1>9. Extends(p2, P)
  BY <1>4, <1>6 DEF Extends
<1>10. NoPartProof(t, d, p2)
  <2> SUFFICES ASSUME NEW x \in Lits, p2[x] = DL_UNDECIDED, ~ Attacked(t, x), PartProves(t, d, p2, x)
      PROVE FALSE
    BY DEF NoPartProof
  <2>1. p[x] = DL_UNDECIDED
    BY <1>6, VerdictsDiffer
  <2>2. \A r \in SupportersOf(t, x) : Applicable(t, p2, r) => Applicable(t, p, r)
    <3>1. \A r \in SupportersOf(t, x) : t.rules[r].body \subseteq Lits
      BY DEF SupportersOf, RulesFor, TheoryLits
    <3> QED
      BY <1>6, <3>1, VerdictsDiffer DEF Applicable, BodyAll
  <2>3. Supported(t, p2, x) => Supported(t, p, x)
    BY <2>2 DEF Supported
  <2>4. AllAttackersCountered(t, p, x)
    BY DEF AllAttackersCountered, Attacked
  <2>5. PartProves(t, d, p, x)
    BY <2>3, <2>4 DEF PartProves
  <2> QED
    BY <2>1, <2>5 DEF NoPartProof
<1> QED
  BY <1>8, <1>9, <1>10, PartMoveFine

\* A defeasible layer that stops holds its limit.
LEMMA PartLimitReached ==
  ASSUME NEW t, TheoryLits(t), NEW sccs, AreSccs(sccs), NEW d, NEW P, P = RefPart(t, sccs, d),
         NEW p, PartFine(t, d, p), Extends(p, P), PartStops(t, sccs, d, p)
  PROVE  p = P
<1>1. p \in Status /\ P \in Status
  BY RefPartLimit DEF PartFine
<1>2. Extends(P, p)
  BY <1>1, RefPartLimit
<1> QED
  BY <1>1, <1>2, ExtendsBothWays

\* Nothing left to decide leaves no proof that was not made.
LEMMA PartNoProof ==
  ASSUME NEW t, NEW d, NEW p, \A q \in Lits : p[q] = DL_UNDECIDED => EvalPart(t, d, p, q) = DL_UNDECIDED
  PROVE  NoPartProof(t, d, p)
BY VerdictsDiffer DEF NoPartProof, EvalPart

-----------------------------------------------------------------------------
(* The compiled components, and what their completion refutes.             *)

\* The compiled components are the support components of every entity's theory,
\* with the flags of the cycle rule.
LEMMA IndexComponents ==
  ASSUME Shape, Compiles, NEW e
  PROVE  /\ \E n \in Nat : DOMAIN idx.scc = 1 .. n /\ Len(idx.scc) = n
         /\ \A i \in DOMAIN idx.scc :
              /\ \E z \in Lits : idx.scc[i].members = SupportSccs(TheoryAt(e))[z]
              /\ idx.scc[i].cyclic <=> CyclicScc(TheoryAt(e), idx.scc[i].members)
              /\ idx.scc[i].attacked <=> AttackedScc(TheoryAt(e), idx.scc[i].members)
         /\ \A q \in Lits : \E i \in DOMAIN idx.scc : idx.scc[i].members = SupportSccs(TheoryAt(e))[q]
<1>1. PICK high \in BOOLEAN : idx = Compiled(high)
  BY DEF Compiles
<1>2. PICK t0, n : t0 = [rules |-> Decoded, sups |-> Range(sups), facts |-> {}]
                   /\ n = SupportNumbering(t0, high)
  OBVIOUS
<1>3. idx.scc = [i \in DOMAIN n |->
                    [members |-> n[i], cyclic |-> CyclicScc(t0, n[i]), attacked |-> AttackedScc(t0, n[i])]]
  BY <1>1, <1>2 DEF Compiled
<1>4. PICK T : T = TheoryAt(e)
  OBVIOUS
<1>5. T.rules = t0.rules /\ TheoryLits(T) /\ TheoryLits(t0)
  <2>1. TheoryLits(T) /\ T.rules = Decoded
    BY <1>4, TheoryAtFacts
  <2>2. t0.rules = Decoded /\ t0.facts = {}
    BY <1>2
  <2> QED
    BY <2>1, <2>2 DEF TheoryLits
<1>6. SupportSccs(T) = SupportSccs(t0)
  BY <1>5, SccsByRules
<1>7. \A c : (CyclicScc(T, c) <=> CyclicScc(t0, c)) /\ (AttackedScc(T, c) <=> AttackedScc(t0, c))
  BY <1>5 DEF CyclicScc, AttackedScc, SupportSucc, Attacked, RulesFor
<1>8. /\ \E m \in Nat : DOMAIN n = 1 .. m /\ Len(n) = m
      /\ \A i \in DOMAIN n : \E q \in Lits : n[i] = SupportSccs(t0)[q]
      /\ \A q \in Lits : \E i \in DOMAIN n : n[i] = SupportSccs(t0)[q]
  <2>1. n = SupportNumbering(t0, high) /\ TheoryLits(t0)
    BY <1>2, <1>5
  <2> QED
    BY ONLY <2>1, SupportNumberingLists
<1>9. /\ DOMAIN idx.scc = DOMAIN n
      /\ \A i \in DOMAIN n : /\ idx.scc[i].members = n[i]
                             /\ idx.scc[i].cyclic = CyclicScc(t0, n[i])
                             /\ idx.scc[i].attacked = AttackedScc(t0, n[i])
  BY <1>3
<1>10. \E m \in Nat : DOMAIN idx.scc = 1 .. m /\ Len(idx.scc) = m
  BY <1>3, <1>8
<1> QED
  BY <1>4, <1>6, <1>7, <1>8, <1>9, <1>10

\* The entities a component's inputs block.
LEMMA BadBitsView ==
  ASSUME Shape, Compiles, NEW t \in EntRows, NEW f \in EntRows, Apart(t, f), Ents \subseteq Bits,
         NEW c \in SUBSET Lits, NEW e \in Ents
  PROVE  e \in BadBits(c, t, f) <=> BlockedScc(TheoryAt(e), View(t, f, e), c, phase = "delta")
<1> DEFINE kinds == IF phase = "delta" THEN {DL_STRICT} ELSE {DL_STRICT, DL_DEFEASIBLE}
<1>1. PICK T, v : T = TheoryAt(e) /\ v = View(t, f, e)
  OBVIOUS
<1>2. \A q \in Lits : idx.heads[q] = RulesFor(T, q)
  BY <1>1, IndexReads
<1>3. /\ DOMAIN T.rules = DOMAIN rules
      /\ \A r \in DOMAIN rules : /\ T.rules[r].body = BodyOf(r) /\ T.rules[r].kind = rules[r].kind
                                 /\ rules[r].kind \in RuleKind
                                 /\ BodyOf(r) \subseteq Lits /\ BodyOf(r) \subseteq Located
  BY <1>1, TheoryAtFacts
<1>4. \A m \in c : \A r : r \in LayerSupport(T, m, phase = "delta")
                             <=> r \in idx.heads[m] /\ rules[r].kind \in kinds
  <2>1. \A m \in c : \A r \in idx.heads[m] : r \in DOMAIN rules
    BY <1>2, <1>3 DEF RulesFor
  <2>2. CASE phase = "delta"
    BY <1>2, <1>3, <2>1, <2>2 DEF LayerSupport, StrictFor
  <2>3. CASE phase # "delta"
    BY <1>2, <1>3, <2>1, <2>3 DEF LayerSupport, SupportersOf, RuleKind, DL_STRICT, DL_DEFEASIBLE, DL_DEFEATER
  <2> QED
    BY <2>2, <2>3
<1>5. \A x \in Located : v[x] = DL_UNDECIDED <=> e \notin t[x] /\ e \notin f[x]
  BY <1>1, ViewFacts
<1>6. e \in BadBits(c, t, f) <=>
        \E x \in Located \ c : /\ \E m \in c : \E r \in idx.heads[m] : rules[r].kind \in kinds /\ x \in BodyOf(r)
                               /\ e \notin t[x] /\ e \notin f[x]
  BY DEF BadBits
<1> HIDE DEF kinds
<1>7. ASSUME NEW m \in c, NEW r \in LayerSupport(T, m, phase = "delta"), NEW b \in T.rules[r].body,
             b \notin c, v[b] = DL_UNDECIDED
      PROVE  e \in BadBits(c, t, f)
  <2>1. r \in idx.heads[m] /\ rules[r].kind \in kinds /\ r \in DOMAIN rules
    BY <1>2, <1>3, <1>4 DEF RulesFor
  <2>2. b \in BodyOf(r) /\ b \in Located
    BY <1>3, <2>1
  <2>3. e \notin t[b] /\ e \notin f[b]
    BY <1>5, <1>7, <2>2
  <2> QED
    BY <1>6, <1>7, <2>1, <2>2, <2>3
<1>8. ASSUME e \in BadBits(c, t, f)
      PROVE  BlockedScc(T, v, c, phase = "delta")
  <2>0. PICK x \in Located \ c, m \in c : /\ e \notin t[x] /\ e \notin f[x]
                                        /\ \E r \in idx.heads[m] : rules[r].kind \in kinds /\ x \in BodyOf(r)
    BY <1>6, <1>8
  <2>1. PICK r \in idx.heads[m] : rules[r].kind \in kinds /\ x \in BodyOf(r)
    BY <2>0
  <2>2. r \in LayerSupport(T, m, phase = "delta") /\ r \in DOMAIN rules
    BY <1>2, <1>3, <1>4, <2>1 DEF RulesFor
  <2>3. x \in T.rules[r].body /\ v[x] = DL_UNDECIDED
    BY <1>3, <1>5, <2>0, <2>1, <2>2
  <2> QED
    BY <2>1, <2>2, <2>3 DEF BlockedScc
<1> QED
  BY <1>1, <1>7, <1>8 DEF BlockedScc

\* Completing a compiled component refutes, for every entity whose theory completes
\* it, its undecided members.
LEMMA RefutesView ==
  ASSUME Shape, Compiles, NEW t \in EntRows, NEW f \in EntRows, Apart(t, f),
         NEW i \in DOMAIN idx.scc, NEW e \in Ents, NEW q \in Lits
  PROVE  e \in Refutes(idx.scc[i], t, f)[q] <=>
           /\ q \in idx.scc[i].members /\ View(t, f, e)[q] = DL_UNDECIDED
           /\ Completes(TheoryAt(e), View(t, f, e), idx.scc[i].members, phase = "delta")
<1>1. PICK T, v, x, c : T = TheoryAt(e) /\ v = View(t, f, e) /\ x = idx.scc[i] /\ c = x.members
  OBVIOUS
<1>2. /\ \E z \in Lits : c = SupportSccs(T)[z]
      /\ x.cyclic <=> CyclicScc(T, c)
      /\ x.attacked <=> AttackedScc(T, c)
  BY <1>1, IndexComponents
<1>3. c \in SUBSET Lits
  BY <1>2, SccsType
<1>4. e \in BadBits(c, t, f) <=> BlockedScc(T, v, c, phase = "delta")
  BY <1>1, <1>3, BadBitsView, FamilyAssumption
<1>5. e \in Refutes(x, t, f)[q] <=>
        /\ q \in c /\ q \in Located /\ x.cyclic /\ ~ x.attacked
        /\ e \notin t[q] /\ e \notin f[q] /\ e \notin BadBits(c, t, f)
  BY <1>1 DEF Refutes
<1>6. v[q] = DL_UNDECIDED <=> q \in Located /\ e \notin t[q] /\ e \notin f[q]
  BY <1>1, ViewFacts, VerdictsDiffer
<1>7. Completes(T, v, c, phase = "delta") <=>
        /\ CyclicScc(T, c) /\ ~ AttackedScc(T, c)
        /\ \E m \in c : v[m] = DL_UNDECIDED
        /\ ~ BlockedScc(T, v, c, phase = "delta")
  BY DEF Completes
<1> QED
  BY <1>1, <1>2, <1>4, <1>5, <1>6, <1>7

\* A column grown in all rows at once.
Joined(col, new) == [q \in Lits |-> col[q] \cup new[q]]

\* The view v of an entity after those in loops completed component c.
Looped(v, c, completes) == IF completes THEN Completion(v, c) ELSE v

\* Refutations of the undecided members of c for the entities in loops.
LEMMA LoopView ==
  ASSUME NEW t \in EntRows, NEW f \in EntRows, Apart(t, f), InRoom(f), NEW new \in EntRows,
         NEW c, NEW loops \in SUBSET Ents,
         \A e \in Ents : \A q \in Lits :
           e \in new[q] <=> q \in c /\ View(t, f, e)[q] = DL_UNDECIDED /\ e \in loops,
         \A e \in loops : \E m \in Lits : m \in c /\ View(t, f, e)[m] = DL_UNDECIDED,
         NEW f2, f2 = Joined(f, new)
  PROVE  /\ Apart(t, f2) /\ InRoom(f2)
         /\ \A e \in Ents : View(t, f2, e) = Looped(View(t, f, e), c, e \in loops)
         /\ (\E q \in Lits : new[q] # {}) <=> (\E e \in Ents : e \in loops)
<1>1. \A q \in Lits : f2[q] = f[q] \cup new[q]
  BY DEF Joined
<1>2. \A q \in Lits : new[q] \subseteq Ents
  BY DEF EntRows
<1>3. ASSUME NEW e \in Ents, NEW q \in Lits, e \in new[q]
      PROVE  q \in Located /\ e \notin t[q] /\ e \notin f[q]
  <2>1. View(t, f, e)[q] = DL_UNDECIDED
    BY <1>3
  <2> QED
    BY <2>1, ViewFacts, VerdictsDiffer
<1>4. Apart(t, f2)
  <2> SUFFICES ASSUME NEW q \in Lits, NEW e \in t[q], e \in f2[q] PROVE FALSE
    BY DEF Apart
  <2>1. e \notin f[q] /\ e \in Ents
    BY DEF Apart, EntRows
  <2> QED
    BY <1>1, <1>3, <2>1
<1>5. InRoom(f2)
  <2> SUFFICES ASSUME NEW q \in Lits \ Located, NEW e \in f2[q] PROVE FALSE
    BY DEF InRoom
  <2>1. e \in new[q]
    BY <1>1 DEF InRoom
  <2> QED
    BY <1>2, <1>3, <2>1
<1>6. ASSUME NEW e \in Ents
      PROVE  View(t, f2, e) = Looped(View(t, f, e), c, e \in loops)
  <2> DEFINE now(x) == IF x \in Located
                       THEN IF e \in t[x] THEN DL_PROVED ELSE IF e \in f[x] THEN DL_REFUTED ELSE DL_UNDECIDED
                       ELSE DL_REFUTED
             then(x) == IF x \in Located
                        THEN IF e \in t[x] THEN DL_PROVED ELSE IF e \in f2[x] THEN DL_REFUTED ELSE DL_UNDECIDED
                        ELSE DL_REFUTED
  <2>1. View(t, f, e) = [x \in Lits |-> now(x)] /\ View(t, f2, e) = [x \in Lits |-> then(x)]
    BY DEF View, StatusOf
  <2>2. ASSUME NEW x \in Lits
        PROVE  then(x) = IF x \in c /\ now(x) = DL_UNDECIDED /\ e \in loops THEN DL_REFUTED ELSE now(x)
    <3>1. e \in f2[x] <=> e \in f[x] \/ e \in new[x]
      BY <1>1
    <3>2. e \in new[x] <=> x \in c /\ now(x) = DL_UNDECIDED /\ e \in loops
      <4>1. View(t, f, e)[x] = now(x)
        BY <2>1
      <4> HIDE DEF now
      <4> QED
        BY <4>1
    <3>3. e \in new[x] => x \in Located /\ e \notin t[x] /\ e \notin f[x]
      BY <1>3
    <3> QED
      BY <3>1, <3>2, <3>3, VerdictsDiffer
  <2> HIDE DEF now, then
  <2>3. Completion(View(t, f, e), c)
          = [x \in Lits |-> IF x \in c /\ now(x) = DL_UNDECIDED THEN DL_REFUTED ELSE now(x)]
    BY <2>1 DEF Completion
  <2>4. CASE e \in loops
    BY <2>1, <2>2, <2>3, <2>4 DEF Looped
  <2>5. CASE e \notin loops
    BY <2>1, <2>2, <2>5 DEF Looped
  <2> QED
    BY <2>4, <2>5
<1>7. (\E q \in Lits : new[q] # {}) => (\E e \in Ents : e \in loops)
  <2> SUFFICES ASSUME NEW q \in Lits, NEW e \in new[q] PROVE \E x \in Ents : x \in loops
    OBVIOUS
  <2> QED
    BY <1>2
<1>8. (\E e \in Ents : e \in loops) => (\E q \in Lits : new[q] # {})
  OBVIOUS
<1> QED
  BY <1>4, <1>5, <1>6, <1>7, <1>8

\* The theory of e completes c in the layer in work.
Completing(e, c) == Completes(TheoryAt(e), NowAt(e), c, phase = "delta")

\* A look at component c completes it for the entities whose theory completes it.
Looked(c) ==
  /\ UNCHANGED <<phase, pass, idx, dirty, theory, fact, open, comp, k, changed>>
  /\ \A e \in Ents : NowAt(e)' = Looped(NowAt(e), c, Completing(e, c))
  /\ phase = "delta" => UNCHANGED <<pt, pf>>
  /\ phase = "part" => UNCHANGED <<dt, df>>
  /\ \E found \in BOOLEAN : (found <=> \E e \in Ents : Completing(e, c)) /\ any' = (any \/ found)
  /\ cid' = cid + 1
  /\ Rowed'

\* The columns t, f2 after the refutations new are those of a look at c.
LoopsRight(t, f2, new, c) ==
  /\ Apart(t, f2) /\ InRoom(f2)
  /\ \A e \in Ents : View(t, f2, e) = Looped(NowAt(e), c, Completing(e, c))
  /\ (\E q \in Lits : new[q] # {}) <=> (\E e \in Ents : Completing(e, c))

\* What complete_cols refutes in a component of a layer with columns t, f.
LEMMA LoopsView ==
  ASSUME Shape, Compiles, NEW t \in EntRows, NEW f \in EntRows, Apart(t, f), InRoom(f),
         \A e \in Ents : NowAt(e) = View(t, f, e),
         NEW i \in DOMAIN idx.scc, NEW c, c = idx.scc[i].members,
         NEW new, new = Refutes(idx.scc[i], t, f), NEW f2, f2 = Joined(f, new)
  PROVE  LoopsRight(t, f2, new, c)
<1>1. PICK loops \in SUBSET Ents : \A e \in Ents : e \in loops <=> Completing(e, c)
  <2>1. {e \in Ents : Completing(e, c)} \in SUBSET Ents
    OBVIOUS
  <2> QED
    BY <2>1
<1>2. ASSUME NEW e \in Ents, NEW q \in Lits
      PROVE  e \in new[q] <=> q \in c /\ View(t, f, e)[q] = DL_UNDECIDED /\ e \in loops
  <2>1. Completing(e, c) <=> Completes(TheoryAt(e), View(t, f, e), c, phase = "delta")
    BY DEF Completing
  <2>2. e \in Refutes(idx.scc[i], t, f)[q] <=>
           /\ q \in idx.scc[i].members /\ View(t, f, e)[q] = DL_UNDECIDED
           /\ Completes(TheoryAt(e), View(t, f, e), idx.scc[i].members, phase = "delta")
    BY RefutesView
  <2> QED
    BY <1>1, <2>1, <2>2
<1>3. new \in EntRows
  <2>1. new = [q \in Lits |-> new[q]]
    BY DEF Refutes
  <2>2. \A q \in Lits : new[q] \in SUBSET Ents
    BY NewBits
  <2> QED
    BY <2>1, <2>2 DEF EntRows
<1>4. ASSUME NEW e \in loops
      PROVE  \E m \in Lits : m \in c /\ View(t, f, e)[m] = DL_UNDECIDED
  <2>1. Completing(e, c) /\ NowAt(e) = View(t, f, e)
    BY <1>1
  <2>2. PICK m \in c : View(t, f, e)[m] = DL_UNDECIDED
    BY <2>1 DEF Completing, Completes
  <2>3. \E z \in Lits : c = SupportSccs(TheoryAt(e))[z]
    BY IndexComponents
  <2>4. m \in Lits
    BY <2>2, <2>3, SccsType
  <2> QED
    BY <2>2, <2>4
<1>5. \A e \in Ents : \A q \in Lits :
           e \in new[q] <=> q \in c /\ View(t, f, e)[q] = DL_UNDECIDED /\ e \in loops
  BY <1>2
<1>6. \A e \in loops : \E m \in Lits : m \in c /\ View(t, f, e)[m] = DL_UNDECIDED
  BY <1>4
<1>7. /\ Apart(t, f2) /\ InRoom(f2)
      /\ \A e \in Ents : View(t, f2, e) = Looped(View(t, f, e), c, e \in loops)
      /\ (\E q \in Lits : new[q] # {}) <=> (\E e \in Ents : e \in loops)
  BY ONLY <1>3, <1>5, <1>6, loops \in SUBSET Ents, t \in EntRows, f \in EntRows, Apart(t, f),
          InRoom(f), f2 = Joined(f, new), LoopView
<1>8. ASSUME NEW e \in Ents
      PROVE  View(t, f2, e) = Looped(NowAt(e), c, Completing(e, c))
  BY <1>1, <1>7 DEF Looped
<1> QED
  BY <1>1, <1>7, <1>8 DEF LoopsRight

\* A look of the completion pass.
LEMMA PassLooked ==
  ASSUME Ready, CompleteVisit, cid \in DOMAIN idx.scc, NEW c, c = idx.scc[cid].members
  PROVE  Looked(c)
<1>1. phase \in {"delta", "part"} /\ cid' = cid + 1
      /\ UNCHANGED <<theory, dirty, idx, fact, open, dt, pt, apps, phase, pass, comp, k, changed, solves>>
  BY DEF CompleteVisit
<1>2. UNCHANGED <<rules, body, sups, natoms, fact, open>>
  BY <1>1 DEF theory
<1>3. /\ dt \in EntRows /\ df \in EntRows /\ Apart(dt, df) /\ InRoom(dt) /\ InRoom(df)
      /\ pt \in EntRows /\ pf \in EntRows /\ Apart(pt, pf) /\ InRoom(pt) /\ InRoom(pf)
      /\ Shape /\ Compiles
  BY DEF Ready, Rowed, Columns
<1>4. /\ \A e : View(dt, df, e)' = View(dt', df', e) /\ View(pt, pf, e)' = View(pt', pf', e)
      /\ Located' = Located
  BY <1>2, TheoriesKept
<1>5. CASE phase = "delta"
  <2>1. PICK new, f2 : new = Refutes(idx.scc[cid], dt, df) /\ f2 = Joined(df, new)
    OBVIOUS
  <2>2. df' = f2 /\ pf' = pf /\ any' = (any \/ \E q \in Lits : new[q] # {})
    BY <1>5, <2>1 DEF CompleteVisit, Joined
  <2>3. \A e \in Ents : NowAt(e) = View(dt, df, e)
    BY <1>5 DEF NowAt
  <2>4. /\ Apart(dt, f2) /\ InRoom(f2)
        /\ \A e \in Ents : View(dt, f2, e) = Looped(NowAt(e), c, Completing(e, c))
        /\ (\E q \in Lits : new[q] # {}) <=> (\E e \in Ents : Completing(e, c))
    <3>1. LoopsRight(dt, f2, new, c)
      BY ONLY <1>3, <2>1, <2>3, cid \in DOMAIN idx.scc, c = idx.scc[cid].members, LoopsView
    <3> QED
      BY <3>1 DEF LoopsRight
  <2>5. \A e \in Ents : NowAt(e)' = View(dt, f2, e)
    BY <1>1, <1>4, <1>5, <2>2 DEF NowAt
  <2>6. Rowed'
    BY <1>1, <1>3, <1>4, <2>2, <2>4 DEF Rowed, InRoom, Apart
  <2>7. \A e \in Ents : NowAt(e)' = Looped(NowAt(e), c, Completing(e, c))
    BY <2>4, <2>5
  <2>8. (\E q \in Lits : new[q] # {}) \in BOOLEAN
    OBVIOUS
  <2> QED
    BY <1>1, <1>5, <2>2, <2>4, <2>6, <2>7, <2>8 DEF Looked
<1>6. CASE phase = "part"
  <2>1. PICK new, f2 : new = Refutes(idx.scc[cid], pt, pf) /\ f2 = Joined(pf, new)
    OBVIOUS
  <2>2. pf' = f2 /\ df' = df /\ any' = (any \/ \E q \in Lits : new[q] # {})
    BY <1>6, <2>1 DEF CompleteVisit, Joined
  <2>3. \A e \in Ents : NowAt(e) = View(pt, pf, e)
    BY <1>6 DEF NowAt
  <2>4. /\ Apart(pt, f2) /\ InRoom(f2)
        /\ \A e \in Ents : View(pt, f2, e) = Looped(NowAt(e), c, Completing(e, c))
        /\ (\E q \in Lits : new[q] # {}) <=> (\E e \in Ents : Completing(e, c))
    <3>1. LoopsRight(pt, f2, new, c)
      BY ONLY <1>3, <2>1, <2>3, cid \in DOMAIN idx.scc, c = idx.scc[cid].members, LoopsView
    <3> QED
      BY <3>1 DEF LoopsRight
  <2>5. \A e \in Ents : NowAt(e)' = View(pt, f2, e)
    BY <1>1, <1>4, <1>6, <2>2 DEF NowAt
  <2>6. Rowed'
    BY <1>1, <1>3, <1>4, <2>2, <2>4 DEF Rowed, InRoom, Apart
  <2>7. \A e \in Ents : NowAt(e)' = Looped(NowAt(e), c, Completing(e, c))
    BY <2>4, <2>5
  <2>8. (\E q \in Lits : new[q] # {}) \in BOOLEAN
    OBVIOUS
  <2> QED
    BY <1>1, <1>6, <2>2, <2>4, <2>6, <2>7, <2>8 DEF Looked
<1> QED
  BY <1>1, <1>5, <1>6

-----------------------------------------------------------------------------
(* Where a layer starts.                                                   *)

\* The definite layer starts with nothing decided where there is a row; without a row
\* a literal has no fact, no rule and is not open, and is refuted in the limit.
LEMMA DeltaStart ==
  ASSUME Shape, InRoom(fact), InRoom(open), NEW e, NEW t, t = TheoryAt(e), NEW o, o = OpenAt(e),
         NEW sccs, AreSccs(sccs), NEW D, D = Family!DefiniteOf(t, o, sccs),
         NEW v, v = View(NoRow, NoRow, e)
  PROVE  /\ DeltaFine(t, v) /\ Extends(v, D)
         /\ \A q \in Lits \ Located : D[q] = DL_REFUTED
<1>1. v = [q \in Lits |-> IF q \in Located THEN DL_UNDECIDED ELSE DL_REFUTED]
  BY DEF View, NoRow, StatusOf
<1>2. v \in Status
  BY <1>1 DEF Status, Verdict
<1>3. /\ TheoryLits(t) /\ DOMAIN t.rules = DOMAIN rules /\ t.facts = {q \in Lits : e \in fact[q]}
      /\ \A r \in DOMAIN rules : t.rules[r].head = rules[r].head /\ rules[r].head \in Located
  BY TheoryAtFacts
<1>4. ASSUME NEW q \in Lits \ Located
      PROVE  q \notin t.facts /\ q \notin o /\ StrictFor(t, q) = {}
  <2>1. fact[q] = {} /\ open[q] = {}
    BY DEF InRoom
  <2>2. q \notin t.facts /\ q \notin o
    BY <1>3, <2>1 DEF OpenAt
  <2>3. StrictFor(t, q) = {}
    BY <1>3 DEF StrictFor, RulesFor
  <2> QED
    BY <2>2, <2>3
<1>5. \A q \in Lits : v[q] # DL_PROVED /\ (v[q] = DL_REFUTED => q \in Lits \ Located)
  BY <1>1, VerdictsDiffer
<1>6. DeltaFine(t, v)
  BY <1>2, <1>4, <1>5 DEF DeltaFine
<1>7. DeltaFine(t, D) /\ OpenStops(t, o, sccs, D)
  BY <1>3, DefiniteLimit
<1>8. ASSUME NEW q \in Lits \ Located PROVE D[q] = DL_REFUTED
  <2>1. ~ DeltaProves(t, D, q)
    BY <1>4 DEF DeltaProves
  <2>2. DeltaRefutes(t, D, q)
    BY <1>4, <2>1 DEF DeltaRefutes
  <2>3. OpenEval(t, o, D, q) = DL_REFUTED
    BY <1>4, <2>2, OpenEvalFacts
  <2>4. D[q] # DL_UNDECIDED
    BY <1>7, <2>3, VerdictsDiffer DEF OpenStops
  <2>5. D[q] # DL_PROVED /\ D[q] \in Verdict
    BY <1>7, <2>1 DEF DeltaFine, Status
  <2> QED
    BY <2>4, <2>5 DEF Verdict
<1>9. Extends(v, D)
  BY <1>1, <1>8 DEF Extends
<1> QED
  BY <1>6, <1>8, <1>9

\* So does the defeasible layer.
LEMMA PartStart ==
  ASSUME Shape, NEW e, NEW t, t = TheoryAt(e), NEW sccs, AreSccs(sccs),
         NEW d \in Status, \A q \in Lits \ Located : d[q] = DL_REFUTED,
         NEW P, P = RefPart(t, sccs, d), NEW v, v = View(NoRow, NoRow, e)
  PROVE  PartFine(t, d, v) /\ Extends(v, P) /\ \A q \in Lits \ Located : P[q] = DL_REFUTED
<1>1. v = [q \in Lits |-> IF q \in Located THEN DL_UNDECIDED ELSE DL_REFUTED]
  BY DEF View, NoRow, StatusOf
<1>2. v \in Status
  BY <1>1 DEF Status, Verdict
<1>3. /\ TheoryLits(t) /\ DOMAIN t.rules = DOMAIN rules
      /\ \A r \in DOMAIN rules : t.rules[r].head = rules[r].head /\ rules[r].head \in Located
  BY TheoryAtFacts
<1>4. ASSUME NEW q \in Lits \ Located
      PROVE  d[q] = DL_REFUTED /\ SupportersOf(t, q) = {}
  BY <1>3 DEF SupportersOf, RulesFor
<1>5. \A q \in Lits : v[q] # DL_PROVED /\ (v[q] = DL_REFUTED => q \in Lits \ Located)
  BY <1>1, VerdictsDiffer
<1>6. PartFine(t, d, v)
  <2>1. \A q \in Lits : v[q] = DL_REFUTED => CannotProve(t, d, v, q)
    BY <1>4, <1>5, VerdictsDiffer DEF CannotProve, NotSupported
  <2>2. PartFounded(t, d, v)
    BY <1>5 DEF PartFounded
  <2> QED
    BY <1>2, <1>5, <2>1, <2>2 DEF PartFine
<1>7. PartFine(t, d, P) /\ PartStops(t, sccs, d, P)
  BY <1>3, RefPartLimit
<1>8. ASSUME NEW q \in Lits \ Located PROVE P[q] = DL_REFUTED
  <2>1. ~ PartProves(t, d, P, q)
    BY <1>4, VerdictsDiffer DEF PartProves, Supported
  <2>2. PartRefutes(t, d, P, q)
    BY <1>4 DEF PartRefutes, NotSupported
  <2>3. EvalPart(t, d, P, q) # DL_UNDECIDED
    BY <2>1, <2>2, VerdictsDiffer DEF EvalPart
  <2>4. P[q] # DL_UNDECIDED
    BY <1>7, <2>3 DEF PartStops
  <2>5. P[q] # DL_PROVED /\ P[q] \in Verdict
    BY <1>7, <2>1 DEF PartFine, Status
  <2> QED
    BY <2>4, <2>5 DEF Verdict
<1>9. Extends(v, P)
  BY <1>1, <1>8 DEF Extends
<1> QED
  BY <1>6, <1>8, <1>9

-----------------------------------------------------------------------------
(* What a decision lets be decided.                                        *)

\* An evaluation on statuses st of the layer in work.
EvalOn(e, st, x) ==
  IF phase = "delta" THEN OpenEval(TheoryAt(e), OpenAt(e), st, x)
                     ELSE EvalPart(TheoryAt(e), View(dt, df, e), st, x)

\* A step of a layer changes an evaluation through the layer's statuses only.
LEMMA EvalKept ==
  ASSUME UNCHANGED <<phase, theory, fact, open>>, phase \in {"delta", "part"},
         phase = "part" => UNCHANGED <<dt, df>>, NEW e, NEW x
  PROVE  EvalAt(e, x) = EvalOn(e, NowAt(e), x) /\ EvalAt(e, x)' = EvalOn(e, NowAt(e)', x)
<1>1. /\ TheoryAt(e)' = TheoryAt(e) /\ OpenAt(e)' = OpenAt(e)
      /\ View(dt, df, e)' = View(dt', df', e) /\ View(pt, pf, e)' = View(pt', pf', e)
  BY TheoriesKept DEF theory
<1>2. CASE phase = "delta"
  BY <1>1, <1>2 DEF EvalAt, EvalOn, NowAt
<1>3. CASE phase = "part"
  BY <1>1, <1>3 DEF EvalAt, EvalOn, NowAt
<1> QED
  BY <1>2, <1>3

\* A decision on q changes the evaluation of its dependents only.
LEMMA EvalLocal ==
  ASSUME Shape, NEW e, NEW st \in Status, NEW q \in Lits, NEW v, NEW x \in Lits,
         x \notin DependSucc(TheoryAt(e), q)
  PROVE  EvalOn(e, Decided(st, q, v), x) = EvalOn(e, st, x)
<1>1. TheoryLits(TheoryAt(e))
  BY TheoryAtFacts
<1>2. EvalDelta(TheoryAt(e), Decided(st, q, v), x) = EvalDelta(TheoryAt(e), st, x)
  BY <1>1, DeltaLocal DEF Decided
<1>3. EvalPart(TheoryAt(e), View(dt, df, e), Decided(st, q, v), x) = EvalPart(TheoryAt(e), View(dt, df, e), st, x)
  BY <1>1, PartLocal DEF Decided
<1> QED
  BY <1>2, <1>3 DEF EvalOn, OpenEval

\* The statuses of the layer in work are statuses.
LEMMA NowStatus ==
  ASSUME Columns, Rowed, NEW e
  PROVE  NowAt(e) \in Status
BY ViewFacts DEF NowAt, Columns, Rowed

\* After a visit of q a literal can be decided for an entity only if it could be
\* before, or it is a dependent of q that was decided for it; q itself cannot.
LEMMA AwaitsLocal ==
  ASSUME Ready, phase \in {"delta", "part"}, NEW q \in Lits, Visited(q),
         NEW e \in Ents, NEW x \in Lits, Awaits(e, x)'
  PROVE  x # q /\ (Awaits(e, x) \/ (Awaits(e, q) /\ x \in DependSucc(TheoryAt(e), q)))
<1>1. UNCHANGED <<phase, theory, fact, open>> /\ (phase = "part" => UNCHANGED <<dt, df>>)
  BY DEF Visited
<1>2. PICK st, st2, v : st = NowAt(e) /\ st2 = NowAt(e)' /\ v = EvalAt(e, q)
  OBVIOUS
<1>3. st \in Status
  BY <1>2, NowStatus DEF Ready
<1>4. /\ EvalAt(e, x) = EvalOn(e, st, x) /\ EvalAt(e, x)' = EvalOn(e, st2, x)
      /\ EvalAt(e, q) = EvalOn(e, st, q) /\ EvalAt(e, q)' = EvalOn(e, st2, q)
  BY <1>1, <1>2, EvalKept
<1>5. /\ Awaits(e, x)' <=> st2[x] = DL_UNDECIDED /\ EvalAt(e, x)' # DL_UNDECIDED
      /\ Awaits(e, x) <=> st[x] = DL_UNDECIDED /\ EvalAt(e, x) # DL_UNDECIDED
      /\ Awaits(e, q) <=> st[q] = DL_UNDECIDED /\ v # DL_UNDECIDED
  BY <1>2 DEF Awaits, DL_UNDECIDED
<1>6. st2 = IF Awaits(e, q) THEN Decided(st, q, v) ELSE st
  BY <1>2 DEF Visited
<1>7. CASE Awaits(e, q)
  <2>1. st2 = Decided(st, q, v) /\ st2[q] = v
    BY <1>3, <1>6, <1>7 DEF Decided, Status
  <2>2. x # q
    BY <1>5, <1>7, <2>1
  <2>3. st2[x] = st[x]
    BY <1>3, <2>1, <2>2 DEF Decided, Status
  <2>4. x \notin DependSucc(TheoryAt(e), q) => EvalOn(e, st2, x) = EvalOn(e, st, x)
    BY <1>3, <2>1, EvalLocal DEF Ready
  <2> QED
    BY <1>4, <1>5, <1>7, <2>2, <2>3, <2>4
<1>8. CASE ~ Awaits(e, q)
  <2>1. st2 = st
    BY <1>6, <1>8
  <2>2. Awaits(e, x)
    BY <1>4, <1>5, <2>1
  <2>3. x # q
    BY <1>8, <2>2
  <2> QED
    BY <2>2, <2>3
<1> QED
  BY <1>7, <1>8

\* A compiled schedule visits every literal, and for every entity the dependents of a
\* literal in its component or in earlier ones.
LEMMA CompiledSchedule ==
  ASSUME Shape, NEW high \in BOOLEAN, NEW x, x = Compiled(high)
  PROVE  /\ x.sched \in Seq(Seq(Lits))
         /\ \A q \in Lits : \E i \in DOMAIN x.sched : q \in Range(x.sched[i])
         /\ \A e : \A i \in DOMAIN x.sched : \A u \in Range(x.sched[i]) :
              \A v \in DependSucc(TheoryAt(e), u) : \E j \in 1 .. i : v \in Range(x.sched[j])
         /\ \A i \in DOMAIN x.sched : x.sched[i] # <<>>
<1>2. PICK t0, s : t0 = [rules |-> Decoded, sups |-> Range(sups), facts |-> {}] /\ s = Schedule(t0, high)
  OBVIOUS
<1>3. x.sched = s
  BY <1>2 DEF Compiled
<1>4. TheoryLits(t0) /\ t0.rules = Decoded
  <2>1. t0.rules = Decoded /\ t0.facts = {}
    BY <1>2
  <2>2. TheoryLits(TheoryAt(0)) /\ TheoryAt(0).rules = Decoded
    BY TheoryAtFacts
  <2> QED
    BY <2>1, <2>2 DEF TheoryLits
<1>5. /\ s \in Seq(Seq(Lits))
      /\ \A q \in Lits : \E i \in DOMAIN s : q \in Range(s[i])
      /\ \A i \in DOMAIN s : \A u \in Range(s[i]) : \A v \in DependSucc(t0, u) :
           \E j \in 1 .. i : v \in Range(s[j])
      /\ \A i \in DOMAIN s : s[i] # <<>>
  <2>1. s = Schedule(t0, high)
    BY <1>2
  <2> QED
    BY ONLY <1>4, <2>1, ScheduleLists
<1>6. \A e : \A u : DependSucc(TheoryAt(e), u) = DependSucc(t0, u)
  <2>1. \A e : TheoryAt(e).rules = t0.rules
    BY <1>4, TheoryAtFacts
  <2> QED
    BY <2>1 DEF DependSucc
<1> QED
  BY <1>3, <1>5, <1>6

\* So does the schedule of a family that is not dirty.
LEMMA IndexSchedule ==
  ASSUME Shape, Compiles
  PROVE  /\ idx.sched \in Seq(Seq(Lits))
         /\ \A q \in Lits : \E i \in DOMAIN idx.sched : q \in Range(idx.sched[i])
         /\ \A e : \A i \in DOMAIN idx.sched : \A u \in Range(idx.sched[i]) :
              \A v \in DependSucc(TheoryAt(e), u) : \E j \in 1 .. i : v \in Range(idx.sched[j])
         /\ \A i \in DOMAIN idx.sched : idx.sched[i] # <<>>
<1>1. PICK high \in BOOLEAN : idx = Compiled(high)
  BY DEF Compiles
<1> QED
  BY <1>1, CompiledSchedule

-----------------------------------------------------------------------------
(* The inductive invariant of a solve.                                     *)

\* The components of e's theory, and the limits of its two layers.
SccsAt(e) == SupportSccs(TheoryAt(e))
DefAt(e)  == Family!DefiniteOf(TheoryAt(e), OpenAt(e), SccsAt(e))
RefAt(e)  == RefPart(TheoryAt(e), SccsAt(e), DefAt(e))

Solving == phase \in {"delta", "part"}

\* What e was told in the layer in work is sound, and the limit's.
LayerOK(e) ==
  /\ phase = "delta" => DeltaFine(TheoryAt(e), NowAt(e)) /\ Extends(NowAt(e), DefAt(e))
  /\ phase = "part" => /\ View(dt, df, e) = DefAt(e)
                       /\ PartFine(TheoryAt(e), DefAt(e), NowAt(e))
                       /\ Extends(NowAt(e), RefAt(e))

Layers ==
  Solving =>
    /\ Rowed
    /\ phase = "delta" => pt = NoRow /\ pf = NoRow
    /\ \A e \in Ents : LayerOK(e)

\* sweep_sched: what can still be decided for some entity lies in a component not yet
\* left, and in the one being walked not behind a round that changed nothing.
SweepOK ==
  InSweep =>
    /\ comp \in 0 .. Len(idx.sched)
    /\ comp > 0 => k \in DOMAIN Cur
    /\ \A e \in Ents : \A x \in Lits : Awaits(e, x) => \E j \in 1 .. comp : x \in Range(idx.sched[j])
    /\ comp > 0 /\ ~ changed => \A i \in DOMAIN Cur : i < k => \A e \in Ents : ~ Awaits(e, Cur[i])

\* No proof of the layer in work was left unmade for e.
NoProofAt(e) ==
  /\ phase = "delta" => NoDeltaProof(TheoryAt(e), NowAt(e))
  /\ phase = "part" => NoPartProof(TheoryAt(e), DefAt(e), NowAt(e))

\* Nothing can be decided for e, and no component before the i-th completed.
Settled(e, i) ==
  /\ \A x \in Lits : ~ Awaits(e, x)
  /\ \A j \in DOMAIN idx.scc : j < i => ~ Completing(e, idx.scc[j].members)

\* complete_cols: the layer stays settled, and while nothing was refuted no component
\* behind it completes for any entity.
PassOK ==
  Solving /\ pass = "complete" =>
    /\ cid \in 1 .. (Len(idx.scc) + 1)
    /\ \A e \in Ents : NoProofAt(e)
    /\ ~ any => \A e \in Ents : Settled(e, cid)

\* The indices are those of the rules unless the family is dirty, and a solve runs on
\* a family that is not.
IndexOK ==
  /\ dirty \in BOOLEAN
  /\ ~ dirty => Compiles
  /\ phase # "idle" => ~ dirty

SolveInv ==
  /\ Shape /\ Columns /\ AppRows
  /\ pass \in {"sweep", "complete"} /\ changed \in BOOLEAN /\ any \in BOOLEAN
  /\ IndexOK
  /\ InRoom(fact) /\ InRoom(open)
  /\ Layers /\ SweepOK /\ PassOK

\* A sweep that has just been entered has every component ahead of it.
LEMMA SweepStart ==
  ASSUME Shape, NEW high \in BOOLEAN, idx' = Compiled(high), StartSweep
  PROVE  SweepOK'
<1>1. PICK s : s = idx'.sched
  OBVIOUS
<1>2. comp' = Len(s) /\ k' = 1 /\ changed' = FALSE
  BY <1>1 DEF StartSweep
<1>3. /\ s \in Seq(Seq(Lits)) /\ \A q \in Lits : \E i \in DOMAIN s : q \in Range(s[i])
      /\ \A i \in DOMAIN s : s[i] # <<>>
  BY <1>1, CompiledSchedule
<1>4. Len(s) \in Nat /\ DOMAIN s = 1 .. Len(s)
  BY <1>3
<1>5. comp' \in 0 .. Len(s)
  BY <1>2, <1>4
<1>6. ASSUME comp' > 0 PROVE k' \in DOMAIN s[comp'] /\ \A i \in DOMAIN s[comp'] : ~ (i < k')
  <2>1. s[comp'] \in Seq(Lits) /\ s[comp'] # <<>>
    BY <1>2, <1>3, <1>4, <1>6
  <2>2. DOMAIN s[comp'] = 1 .. Len(s[comp']) /\ Len(s[comp']) \in Nat /\ Len(s[comp']) # 0
    BY <2>1
  <2> QED
    BY <1>2, <2>2
<1>7. \A x \in Lits : \E j \in 1 .. comp' : x \in Range(s[j])
  BY <1>2, <1>3, <1>4
<1> QED
  BY <1>1, <1>5, <1>6, <1>7 DEF SweepOK, Cur

\* The literal a sweep visits.
LEMMA VisitsLit ==
  ASSUME SolveInv, InSweep, comp > 0
  PROVE  /\ comp \in DOMAIN idx.sched /\ k \in DOMAIN Cur /\ Cur \in Seq(Lits)
         /\ Cur[k] \in Lits /\ Cur[k] \in Range(idx.sched[comp])
         /\ k \in Nat /\ k >= 1 /\ k <= Len(Cur) /\ Len(Cur) \in Nat /\ DOMAIN Cur = 1 .. Len(Cur)
<1>1. Shape /\ Compiles /\ comp \in 0 .. Len(idx.sched) /\ k \in DOMAIN Cur
  BY DEF SolveInv, SweepOK, IndexOK, InSweep
<1>2. idx.sched \in Seq(Seq(Lits))
  BY <1>1, IndexSchedule
<1>3. comp \in DOMAIN idx.sched
  BY <1>1, <1>2
<1>4. Cur \in Seq(Lits) /\ Cur = idx.sched[comp]
  BY <1>2, <1>3 DEF Cur
<1>5. DOMAIN Cur = 1 .. Len(Cur) /\ Len(Cur) \in Nat
  BY <1>4
<1>6. Cur[k] \in Lits /\ Cur[k] \in Range(idx.sched[comp])
  BY <1>1, <1>4 DEF Range
<1>7. k \in 1 .. Len(Cur)
  BY <1>1, <1>5
<1> QED
  BY <1>1, <1>3, <1>4, <1>5, <1>6, <1>7

\* While a solve runs everything a visit rests on is there.
LEMMA SolveReady ==
  ASSUME SolveInv, Solving
  PROVE  Ready
BY DEF SolveInv, IndexOK, Layers, Solving, Ready

\* A visit decides one literal for every entity it can be decided for.
LEMMA SweepVisited ==
  ASSUME SolveInv, VisitDelta \/ VisitPart
  PROVE  /\ Solving /\ InSweep /\ comp > 0 /\ Ready
         /\ \E q \in Lits : q = Cur[k] /\ Visited(q)
<1>1. InSweep /\ comp > 0 /\ Solving
  BY DEF VisitDelta, VisitPart, InSweep, Solving
<1>2. Ready /\ Cur[k] \in Lits
  BY <1>1, SolveReady, VisitsLit
<1>3. Visited(Cur[k])
  BY <1>2, DeltaVisited, PartVisited
<1> QED
  BY <1>1, <1>2, <1>3

\* It disturbs its component and later ones only.
LEMMA SweepVisitStep ==
  ASSUME SolveInv, VisitDelta \/ VisitPart
  PROVE  SweepOK'
<1>1. Solving /\ InSweep /\ comp > 0 /\ Ready
  BY SweepVisited
<1>2. PICK q \in Lits : q = Cur[k] /\ Visited(q)
  BY SweepVisited
<1>3. PICK moved \in BOOLEAN : (moved <=> \E e \in Ents : Awaits(e, q)) /\ SweepNext(moved)
  BY <1>2 DEF Visited
<1>4. /\ comp \in DOMAIN idx.sched /\ k \in DOMAIN Cur /\ Cur \in Seq(Lits) /\ Cur = idx.sched[comp]
      /\ q \in Range(idx.sched[comp])
      /\ k \in Nat /\ k >= 1 /\ k <= Len(Cur) /\ Len(Cur) \in Nat /\ DOMAIN Cur = 1 .. Len(Cur)
  BY <1>1, <1>2, VisitsLit DEF Cur
<1>5. /\ idx.sched \in Seq(Seq(Lits))
      /\ \A e : \A i \in DOMAIN idx.sched : \A u \in Range(idx.sched[i]) :
           \A v \in DependSucc(TheoryAt(e), u) : \E j \in 1 .. i : v \in Range(idx.sched[j])
      /\ \A i \in DOMAIN idx.sched : idx.sched[i] # <<>>
  BY <1>1, IndexSchedule DEF Ready
<1>6. idx' = idx /\ phase' = phase /\ pass' = pass
  BY <1>2 DEF Visited
<1>7. /\ comp \in Nat /\ comp \in 0 .. Len(idx.sched) /\ DOMAIN idx.sched = 1 .. Len(idx.sched)
      /\ Len(idx.sched) \in Nat /\ changed \in BOOLEAN
      /\ \A e \in Ents : \A x \in Lits : Awaits(e, x) => \E j \in 1 .. comp : x \in Range(idx.sched[j])
      /\ ~ changed => \A i \in DOMAIN Cur : i < k => \A e \in Ents : ~ Awaits(e, Cur[i])
  BY <1>1, <1>4, <1>5 DEF SolveInv, SweepOK
<1>8. ASSUME NEW e \in Ents, NEW x \in Lits, Awaits(e, x)'
      PROVE  x # q /\ (Awaits(e, x) \/ (Awaits(e, q) /\ x \in DependSucc(TheoryAt(e), q)))
  BY <1>1, <1>2, <1>8, AwaitsLocal DEF Solving
<1>9. ASSUME NEW e \in Ents, NEW x \in Lits, Awaits(e, x)' PROVE \E j \in 1 .. comp : x \in Range(idx.sched[j])
  <2>1. CASE Awaits(e, x)
    BY <1>7, <2>1
  <2>2. CASE x \in DependSucc(TheoryAt(e), q)
    BY <1>4, <1>5, <2>2
  <2> QED
    BY <1>8, <1>9, <2>1, <2>2
<1>10. PICK s : s = Cur
  OBVIOUS
<1>11. ASSUME ~ changed, ~ moved, NEW i \in DOMAIN s, i <= k, NEW e \in Ents PROVE ~ Awaits(e, s[i])'
  <2> SUFFICES ASSUME Awaits(e, s[i])' PROVE FALSE
    OBVIOUS
  <2>1. s[i] \in Lits /\ i \in Nat
    BY <1>4, <1>10
  <2>2. s[i] # q /\ ~ Awaits(e, q)
    BY <1>3, <1>8, <1>11, <2>1
  <2>3. Awaits(e, s[i])
    BY <1>8, <2>1, <2>2
  <2>4. i # k
    BY <1>2, <1>10, <2>2
  <2>5. i < k
    BY <1>4, <1>11, <2>1, <2>4
  <2> QED
    BY <1>7, <1>10, <1>11, <2>3, <2>5
<1>12. CASE k < Len(s)
  <2>1. k' = k + 1 /\ changed' = (changed \/ moved) /\ comp' = comp
    BY <1>3, <1>10, <1>12 DEF SweepNext
  <2>2. k' \in DOMAIN s
    BY <1>4, <1>10, <1>12, <2>1
  <2>3. ~ changed' => \A i \in DOMAIN s : i < k' => \A e \in Ents : ~ Awaits(e, s[i])'
    <3> SUFFICES ASSUME ~ changed', NEW i \in DOMAIN s, i < k', NEW e \in Ents PROVE ~ Awaits(e, s[i])'
      OBVIOUS
    <3>1. i <= k
      BY <1>4, <1>10, <2>1
    <3> QED
      BY <1>11, <2>1, <3>1
  <2>4. idx'.sched[comp'] = s
    BY <1>4, <1>6, <1>10, <2>1
  <2> QED
    BY <1>6, <1>7, <1>9, <2>1, <2>2, <2>3, <2>4 DEF SweepOK, Cur
<1>13. CASE ~ (k < Len(s)) /\ Len(s) > 1 /\ (changed \/ moved)
  <2>1. k' = 1 /\ changed' = FALSE /\ comp' = comp
    BY <1>3, <1>10, <1>13 DEF SweepNext
  <2>2. k' \in DOMAIN s /\ \A i \in DOMAIN s : ~ (i < k')
    BY <1>4, <1>10, <1>13, <2>1
  <2>3. idx'.sched[comp'] = s
    BY <1>4, <1>6, <1>10, <2>1
  <2> QED
    BY <1>6, <1>7, <1>9, <2>1, <2>2, <2>3 DEF SweepOK, Cur
<1>14. CASE ~ (k < Len(s)) /\ ~ (Len(s) > 1 /\ (changed \/ moved))
  <2>1. k' = 1 /\ changed' = FALSE /\ comp' = comp - 1
    BY <1>3, <1>10, <1>14 DEF SweepNext
  <2>2. ASSUME NEW e \in Ents, NEW x \in Range(s), Awaits(e, x)' PROVE FALSE
    <3>1. PICK i \in DOMAIN s : x = s[i]
      BY DEF Range
    <3>2. x \in Lits /\ i \in Nat /\ i >= 1 /\ i <= Len(s)
      BY <1>4, <1>10, <3>1
    <3>3. CASE Len(s) > 1
      BY <1>4, <1>10, <1>11, <1>14, <2>2, <3>1, <3>2, <3>3
    <3>4. CASE ~ (Len(s) > 1)
      <4>1. i = k
        BY <1>4, <1>10, <3>2, <3>4
      <4> QED
        BY <1>2, <1>8, <1>10, <2>2, <3>1, <3>2, <4>1
    <3> QED
      BY <3>3, <3>4
  <2>3. \A e \in Ents : \A x \in Lits : Awaits(e, x)' => \E j \in 1 .. comp' : x \in Range(idx.sched[j])
    <3> SUFFICES ASSUME NEW e \in Ents, NEW x \in Lits, Awaits(e, x)'
        PROVE \E j \in 1 .. comp' : x \in Range(idx.sched[j])
      OBVIOUS
    <3>1. PICK j \in 1 .. comp : x \in Range(idx.sched[j])
      BY <1>9
    <3>2. j # comp
      BY <1>4, <1>10, <2>2, <3>1
    <3>3. j \in 1 .. comp'
      BY <1>7, <2>1, <3>1, <3>2
    <3> QED
      BY <3>1, <3>3
  <2>4. comp' \in 0 .. Len(idx.sched)
    BY <1>4, <1>7, <2>1
  <2>5. ASSUME comp' > 0 PROVE k' \in DOMAIN idx.sched[comp'] /\ \A i \in DOMAIN idx.sched[comp'] : ~ (i < k')
    <3>1. comp' \in DOMAIN idx.sched
      BY <1>7, <2>4, <2>5
    <3>2. PICK u : u = idx.sched[comp'] /\ u \in Seq(Lits) /\ u # <<>>
      BY <1>5, <3>1
    <3>3. DOMAIN u = 1 .. Len(u) /\ Len(u) \in Nat /\ Len(u) # 0
      BY <3>2
    <3> QED
      BY <2>1, <3>2, <3>3
  <2> QED
    BY <1>6, <2>1, <2>3, <2>4, <2>5 DEF SweepOK, Cur
<1> QED
  BY <1>12, <1>13, <1>14
\* The limits of the layers do not change in a solve.
LEMMA LimitsKept ==
  ASSUME UNCHANGED <<theory, fact, open>>, NEW e
  PROVE  /\ TheoryAt(e)' = TheoryAt(e) /\ OpenAt(e)' = OpenAt(e) /\ SccsAt(e)' = SccsAt(e)
         /\ DefAt(e)' = DefAt(e) /\ RefAt(e)' = RefAt(e)
         /\ View(dt, df, e)' = View(dt', df', e) /\ View(pt, pf, e)' = View(pt', pf', e)
<1>1. /\ TheoryAt(e)' = TheoryAt(e) /\ OpenAt(e)' = OpenAt(e)
      /\ View(dt, df, e)' = View(dt', df', e) /\ View(pt, pf, e)' = View(pt', pf', e)
  BY TheoriesKept DEF theory
<1>2. SccsAt(e)' = SccsAt(e)
  BY <1>1 DEF SccsAt
<1>3. DefAt(e)' = DefAt(e)
  BY <1>1, <1>2 DEF DefAt
<1>4. RefAt(e)' = RefAt(e)
  BY <1>1, <1>2, <1>3 DEF RefAt
<1> QED
  BY <1>1, <1>2, <1>3, <1>4

\* Theories have components.
LEMMA SccsAtFacts == \A e : AreSccs(SccsAt(e))
BY SccsType DEF AreSccs, SccsAt

\* What a visit decides for an entity is sound and the limit's.
LEMMA SweepVisitLayers ==
  ASSUME SolveInv, VisitDelta \/ VisitPart
  PROVE  Layers' /\ PassOK'
<1>1. Solving /\ InSweep /\ Ready
  BY SweepVisited
<1>2. PICK q \in Lits : Visited(q)
  BY SweepVisited
<1>3. /\ UNCHANGED <<theory, fact, open>> /\ phase' = phase /\ pass' = pass /\ pass = "sweep" /\ Rowed'
      /\ phase = "delta" => UNCHANGED <<pt, pf>>
      /\ phase = "part" => UNCHANGED <<dt, df>>
      /\ phase \in {"delta", "part"}
  BY <1>1, <1>2 DEF Visited, InSweep
<1>4. Layers
  BY DEF SolveInv
<1>5. ASSUME NEW e \in Ents PROVE LayerOK(e)'
  <2>1. /\ TheoryAt(e)' = TheoryAt(e) /\ DefAt(e)' = DefAt(e) /\ RefAt(e)' = RefAt(e)
        /\ View(dt, df, e)' = View(dt', df', e)
    BY <1>3, LimitsKept
  <2>2. PICK st, st2, v, t : st = NowAt(e) /\ st2 = NowAt(e)' /\ v = EvalAt(e, q) /\ t = TheoryAt(e)
    OBVIOUS
  <2>3. st2 = IF Awaits(e, q) THEN Decided(st, q, v) ELSE st
    BY <1>2, <2>2 DEF Visited
  <2>4. Awaits(e, q) <=> st[q] = DL_UNDECIDED /\ v # DL_UNDECIDED
    BY <2>2 DEF Awaits
  <2>5. TheoryLits(t) /\ AreSccs(SccsAt(e)) /\ LayerOK(e)
    BY <1>1, <1>4, <2>2, TheoryAtFacts, SccsAtFacts DEF Layers, Ready
  <2>6. CASE phase = "delta"
    <3>1. DeltaFine(t, st) /\ Extends(st, DefAt(e))
      BY <2>2, <2>5, <2>6 DEF LayerOK
    <3>2. v = OpenEval(t, OpenAt(e), st, q)
      BY <2>2, <2>6 DEF EvalAt, NowAt
    <3>3. DeltaFine(t, st2) /\ Extends(st2, DefAt(e))
      <4>1. CASE Awaits(e, q)
        <5>1. st2 = Decided(st, q, v) /\ st[q] = DL_UNDECIDED /\ v # DL_UNDECIDED
          BY <2>3, <2>4, <4>1
        <5>2. PICK D : D = DefAt(e) /\ D = Family!DefiniteOf(t, OpenAt(e), SccsAt(e))
          BY <2>2 DEF DefAt
        <5> QED
          BY <2>5, <3>1, <3>2, <5>1, <5>2, DeltaDecided
      <4>2. CASE ~ Awaits(e, q)
        BY <2>3, <3>1, <4>2
      <4> QED
        BY <4>1, <4>2
    <3> QED
      BY <1>3, <2>1, <2>2, <2>6, <3>3 DEF LayerOK
  <2>7. CASE phase = "part"
    <3>1. View(dt, df, e) = DefAt(e) /\ PartFine(t, DefAt(e), st) /\ Extends(st, RefAt(e))
      BY <2>2, <2>5, <2>7 DEF LayerOK
    <3>2. v = EvalPart(t, DefAt(e), st, q)
      BY <2>2, <2>7, <3>1 DEF EvalAt, NowAt
    <3>3. PartFine(t, DefAt(e), st2) /\ Extends(st2, RefAt(e))
      <4>1. CASE Awaits(e, q)
        <5>1. st2 = Decided(st, q, v) /\ st[q] = DL_UNDECIDED /\ v # DL_UNDECIDED
          BY <2>3, <2>4, <4>1
        <5>2. PICK P : P = RefAt(e) /\ P = RefPart(t, SccsAt(e), DefAt(e))
          BY <2>2 DEF RefAt
        <5> QED
          BY <2>5, <3>1, <3>2, <5>1, <5>2, PartDecided
      <4>2. CASE ~ Awaits(e, q)
        BY <2>3, <3>1, <4>2
      <4> QED
        BY <4>1, <4>2
    <3>4. View(dt, df, e)' = View(dt, df, e)
      BY <1>3, <2>1, <2>7
    <3> QED
      BY <1>3, <2>1, <2>2, <2>7, <3>1, <3>3, <3>4 DEF LayerOK
  <2> QED
    BY <1>3, <2>6, <2>7
<1>6. phase' = "delta" => pt' = NoRow /\ pf' = NoRow
  BY <1>1, <1>3, <1>4 DEF Layers
<1> QED
  BY <1>3, <1>5, <1>6 DEF Layers, PassOK

\* A step that leaves the layer as it is.
LEMMA LayerKept ==
  ASSUME UNCHANGED <<theory, fact, open, dt, df, pt, pf, phase>>, NEW e
  PROVE  /\ NowAt(e)' = NowAt(e)
         /\ \A x : EvalAt(e, x)' = EvalAt(e, x)
         /\ \A x : Awaits(e, x)' <=> Awaits(e, x)
         /\ \A c : Completing(e, c)' <=> Completing(e, c)
         /\ LayerOK(e)' <=> LayerOK(e)
         /\ NoProofAt(e)' <=> NoProofAt(e)
         /\ Rowed' <=> Rowed
<1>1. /\ TheoryAt(e)' = TheoryAt(e) /\ OpenAt(e)' = OpenAt(e)
      /\ DefAt(e)' = DefAt(e) /\ RefAt(e)' = RefAt(e)
      /\ View(dt, df, e)' = View(dt, df, e) /\ View(pt, pf, e)' = View(pt, pf, e)
  BY LimitsKept
<1>2. Located' = Located
  BY TheoriesKept DEF theory
<1>3. NowAt(e)' = NowAt(e)
  BY <1>1 DEF NowAt
<1>4. \A x : EvalAt(e, x)' = EvalAt(e, x)
  BY <1>1 DEF EvalAt
<1>5. \A x : Awaits(e, x)' <=> Awaits(e, x)
  BY <1>3, <1>4 DEF Awaits
<1>6. \A c : Completing(e, c)' <=> Completing(e, c)
  BY <1>1, <1>3 DEF Completing
<1>7. (LayerOK(e)' <=> LayerOK(e)) /\ (NoProofAt(e)' <=> NoProofAt(e))
  BY <1>1, <1>3 DEF LayerOK, NoProofAt
<1>8. Rowed' <=> Rowed
  BY <1>2 DEF Rowed, InRoom, Apart
<1> QED
  BY <1>3, <1>4, <1>5, <1>6, <1>7, <1>8

\* A literal nothing is left to decide of has no proof that was not made.
LEMMA SettledNoProof ==
  ASSUME phase \in {"delta", "part"}, NEW e, \A x \in Lits : ~ Awaits(e, x), LayerOK(e)
  PROVE  NoProofAt(e)
<1>1. \A x \in Lits : NowAt(e)[x] = DL_UNDECIDED => EvalAt(e, x) = DL_UNDECIDED
  BY DEF Awaits
<1>2. CASE phase = "delta"
  <2>1. \A x \in Lits : NowAt(e)[x] = DL_UNDECIDED =>
          OpenEval(TheoryAt(e), OpenAt(e), NowAt(e), x) = DL_UNDECIDED
    BY <1>1, <1>2 DEF EvalAt, NowAt
  <2>2. NoDeltaProof(TheoryAt(e), NowAt(e))
    BY <2>1, OpenNoProof
  <2> QED
    BY <1>2, <2>2 DEF NoProofAt
<1>3. CASE phase = "part"
  <2>1. \A x \in Lits : NowAt(e)[x] = DL_UNDECIDED =>
          EvalPart(TheoryAt(e), DefAt(e), NowAt(e), x) = DL_UNDECIDED
    BY <1>1, <1>3 DEF EvalAt, NowAt, LayerOK
  <2>2. NoPartProof(TheoryAt(e), DefAt(e), NowAt(e))
    BY <2>1, PartNoProof
  <2> QED
    BY <1>3, <2>2 DEF NoProofAt
<1> QED
  BY <1>2, <1>3

\* The sweep is left when nothing can be decided for any entity.
LEMMA SweepDoneStep ==
  ASSUME SolveInv, SweepDone
  PROVE  Layers' /\ SweepOK' /\ PassOK'
<1>1. /\ Solving /\ InSweep /\ comp = 0 /\ pass' = "complete" /\ cid' = 1 /\ any' = FALSE
      /\ phase \in {"delta", "part"}
      /\ UNCHANGED <<theory, dirty, idx, fact, open, dt, df, pt, pf, phase>>
  BY DEF SweepDone, InSweep, Solving, columns
<1>2. Shape /\ Compiles /\ Layers /\ SweepOK
  BY <1>1 DEF SolveInv, IndexOK, Solving
<1>3. \A e \in Ents : \A x \in Lits : ~ Awaits(e, x)
  BY <1>1, <1>2 DEF SweepOK
<1>4. \A e \in Ents : LayerOK(e) /\ NoProofAt(e)
  BY <1>1, <1>2, <1>3, SettledNoProof DEF Layers
<1>5. Layers'
  BY <1>1, <1>2, LayerKept DEF Layers, Solving
<1>6. SweepOK'
  BY <1>1 DEF SweepOK, InSweep
<1>7. PICK n \in Nat : DOMAIN idx.scc = 1 .. n /\ Len(idx.scc) = n
  BY <1>2, IndexComponents
<1>8. \A e \in Ents : NoProofAt(e)' /\ \A x \in Lits : ~ Awaits(e, x)'
  BY <1>1, <1>3, <1>4, LayerKept
<1>9. cid' \in 1 .. (Len(idx'.scc) + 1) /\ \A j \in DOMAIN idx'.scc : ~ (j < cid')
  BY <1>1, <1>7
<1> QED
  BY <1>5, <1>6, <1>8, <1>9 DEF PassOK, Settled

\* Looking at a component leaves the completion pass knowing it.
LEMMA CompleteVisitStep ==
  ASSUME SolveInv, CompleteVisit
  PROVE  Layers' /\ SweepOK' /\ PassOK'
<1>1. Solving /\ pass = "complete" /\ cid <= Len(idx.scc) /\ phase \in {"delta", "part"}
  BY DEF CompleteVisit, Solving
<1>2. Ready /\ Layers /\ PassOK /\ any \in BOOLEAN
  BY <1>1, SolveReady DEF SolveInv
<1>3. PICK n \in Nat : DOMAIN idx.scc = 1 .. n /\ Len(idx.scc) = n
  BY <1>2, IndexComponents DEF Ready
<1>4. cid \in DOMAIN idx.scc /\ cid \in Nat
  BY <1>1, <1>2, <1>3 DEF PassOK
<1>5. PICK c : c = idx.scc[cid].members
  OBVIOUS
<1>6. Looked(c)
  BY <1>2, <1>4, <1>5, PassLooked
<1>7. /\ UNCHANGED <<theory, fact, open>> /\ idx' = idx /\ phase' = phase /\ pass' = pass /\ Rowed'
      /\ phase = "delta" => UNCHANGED <<pt, pf>>
      /\ phase = "part" => UNCHANGED <<dt, df>>
      /\ cid' = cid + 1
  BY <1>6 DEF Looked
<1>8. ASSUME NEW e \in Ents PROVE LayerOK(e)' /\ NoProofAt(e)'
  <2>1. /\ TheoryAt(e)' = TheoryAt(e) /\ DefAt(e)' = DefAt(e) /\ RefAt(e)' = RefAt(e)
        /\ View(dt, df, e)' = View(dt', df', e)
    BY <1>7, LimitsKept
  <2>2. PICK st, st2, t : st = NowAt(e) /\ st2 = NowAt(e)' /\ t = TheoryAt(e)
    OBVIOUS
  <2>3. st2 = Looped(st, c, Completing(e, c))
    BY <1>6, <2>2 DEF Looked
  <2>4. Completing(e, c) <=> Completes(t, st, c, phase = "delta")
    BY <2>2 DEF Completing
  <2>5. TheoryLits(t) /\ AreSccs(SccsAt(e)) /\ LayerOK(e) /\ NoProofAt(e)
    BY <1>1, <1>2, <2>2, TheoryAtFacts, SccsAtFacts DEF Layers, Ready, PassOK
  <2>6. PICK z \in Lits : c = SccsAt(e)[z]
    BY <1>2, <1>4, <1>5, IndexComponents DEF Ready, SccsAt
  <2>7. CASE phase = "delta"
    <3>1. DeltaFine(t, st) /\ Extends(st, DefAt(e)) /\ NoDeltaProof(t, st)
      BY <2>2, <2>5, <2>7 DEF LayerOK, NoProofAt
    <3>2. DeltaFine(t, st2) /\ Extends(st2, DefAt(e)) /\ NoDeltaProof(t, st2)
      <4>1. CASE Completing(e, c)
        <5>1. st2 = Completion(st, c) /\ Completes(t, st, c, TRUE)
          BY <2>3, <2>4, <2>7, <4>1 DEF Looped
        <5>2. PICK D : D = DefAt(e) /\ D = Family!DefiniteOf(t, OpenAt(e), SccsAt(e))
          BY <2>2 DEF DefAt
        <5> QED
          BY <2>5, <2>6, <3>1, <5>1, <5>2, DeltaLooped
      <4>2. CASE ~ Completing(e, c)
        BY <2>3, <3>1, <4>2 DEF Looped
      <4> QED
        BY <4>1, <4>2
    <3> QED
      BY <1>7, <2>1, <2>2, <2>7, <3>2 DEF LayerOK, NoProofAt
  <2>8. CASE phase = "part"
    <3>1. View(dt, df, e) = DefAt(e) /\ PartFine(t, DefAt(e), st) /\ Extends(st, RefAt(e))
          /\ NoPartProof(t, DefAt(e), st)
      BY <2>2, <2>5, <2>8 DEF LayerOK, NoProofAt
    <3>2. PartFine(t, DefAt(e), st2) /\ Extends(st2, RefAt(e)) /\ NoPartProof(t, DefAt(e), st2)
      <4>1. CASE Completing(e, c)
        <5>1. st2 = Completion(st, c) /\ Completes(t, st, c, FALSE)
          BY <2>3, <2>4, <2>8, <4>1 DEF Looped
        <5>2. PICK P : P = RefAt(e) /\ P = RefPart(t, SccsAt(e), DefAt(e))
          BY <2>2 DEF RefAt
        <5> QED
          BY <2>5, <2>6, <3>1, <5>1, <5>2, PartLooped
      <4>2. CASE ~ Completing(e, c)
        BY <2>3, <3>1, <4>2 DEF Looped
      <4> QED
        BY <4>1, <4>2
    <3>3. View(dt, df, e)' = View(dt, df, e)
      BY <1>7, <2>1, <2>8
    <3> QED
      BY <1>7, <2>1, <2>2, <2>8, <3>1, <3>2, <3>3 DEF LayerOK, NoProofAt
  <2> QED
    BY <1>1, <2>7, <2>8
<1>9. Layers'
  BY <1>1, <1>2, <1>7, <1>8 DEF Layers, Solving
<1>10. SweepOK'
  BY <1>1, <1>7 DEF SweepOK, InSweep
<1>11. ASSUME ~ any', NEW e \in Ents PROVE Settled(e, cid)'
  <2>1. PICK found \in BOOLEAN : (found <=> \E x \in Ents : Completing(x, c)) /\ any' = (any \/ found)
    BY <1>6 DEF Looked
  <2>2. ~ any /\ ~ Completing(e, c)
    BY <1>11, <2>1
  <2>3. NowAt(e)' = NowAt(e)
    BY <1>6, <2>2 DEF Looked, Looped
  <2>4. \A x : EvalAt(e, x)' = EvalAt(e, x)
    BY <1>1, <1>7, <2>3, EvalKept
  <2>5. \A x : Awaits(e, x)' <=> Awaits(e, x)
    BY <2>3, <2>4 DEF Awaits
  <2>6. \A x : Completing(e, x)' <=> Completing(e, x)
    BY <1>7, <2>3, LimitsKept DEF Completing
  <2>7. Settled(e, cid)
    BY <1>1, <1>2, <2>2 DEF PassOK
  <2>8. \A j \in DOMAIN idx.scc : j < cid + 1 => ~ Completing(e, idx.scc[j].members)
    <3> SUFFICES ASSUME NEW j \in DOMAIN idx.scc, j < cid + 1 PROVE ~ Completing(e, idx.scc[j].members)
      OBVIOUS
    <3>1. j < cid \/ j = cid
      BY <1>3, <1>4
    <3> QED
      BY <1>5, <2>2, <2>7, <3>1 DEF Settled
  <2> QED
    BY <1>7, <2>5, <2>6, <2>7, <2>8 DEF Settled
<1>12. cid' \in 1 .. (Len(idx'.scc) + 1)
  BY <1>1, <1>3, <1>4, <1>7
<1> QED
  BY <1>8, <1>9, <1>10, <1>11, <1>12 DEF PassOK

\* A pass that refuted nothing ends a layer at its limit.
LEMMA LayerEnds ==
  ASSUME SolveInv, phase \in {"delta", "part"}, pass = "complete", cid > Len(idx.scc), ~ any, NEW e \in Ents
  PROVE  /\ phase = "delta" => View(dt, df, e) = DefAt(e)
         /\ phase = "part" => View(dt, df, e) = DefAt(e) /\ View(pt, pf, e) = RefAt(e)
<1>1. Ready /\ Layers /\ PassOK
  BY SolveReady DEF SolveInv, Solving
<1>2. PICK st, t : st = NowAt(e) /\ t = TheoryAt(e)
  OBVIOUS
<1>3. TheoryLits(t) /\ AreSccs(SccsAt(e)) /\ LayerOK(e) /\ Settled(e, cid)
  BY <1>1, <1>2, TheoryAtFacts, SccsAtFacts DEF Layers, Ready, PassOK, Solving
<1>4. ASSUME NEW q \in Lits PROVE ~ Completes(t, st, SccsAt(e)[q], phase = "delta")
  <2>1. PICK n \in Nat : DOMAIN idx.scc = 1 .. n /\ Len(idx.scc) = n
    BY <1>1, IndexComponents DEF Ready
  <2>2. PICK i \in DOMAIN idx.scc : idx.scc[i].members = SccsAt(e)[q]
    BY <1>1, IndexComponents DEF Ready, SccsAt
  <2>3. cid \in 1 .. (Len(idx.scc) + 1)
    BY <1>1 DEF PassOK, Solving
  <2>4. i < cid
    BY <2>1, <2>2, <2>3
  <2>5. ~ Completing(e, SccsAt(e)[q])
    BY <1>3, <2>2, <2>4 DEF Settled
  <2> QED
    BY <1>2, <2>5 DEF Completing
<1>5. CASE phase = "delta"
  <2>1. DeltaFine(t, st) /\ Extends(st, DefAt(e)) /\ st = View(dt, df, e)
    BY <1>2, <1>3, <1>5 DEF LayerOK, NowAt
  <2>2. OpenStops(t, OpenAt(e), SccsAt(e), st)
    <3>1. \A x \in Lits : st[x] = DL_UNDECIDED => OpenEval(t, OpenAt(e), st, x) = DL_UNDECIDED
      BY <1>2, <1>3, <1>5 DEF Settled, Awaits, EvalAt, NowAt
    <3>2. \A q \in Lits : ~ DeltaCompletes(t, st, SccsAt(e)[q])
      BY <1>4, <1>5 DEF DeltaCompletes
    <3> QED
      BY <3>1, <3>2 DEF OpenStops
  <2>3. PICK D : D = DefAt(e) /\ D = Family!DefiniteOf(t, OpenAt(e), SccsAt(e))
    BY <1>2 DEF DefAt
  <2>4. st = D
    BY <1>3, <2>1, <2>2, <2>3, DeltaLimitReached
  <2> QED
    BY <1>5, <2>1, <2>3, <2>4
<1>6. CASE phase = "part"
  <2>1. View(dt, df, e) = DefAt(e) /\ PartFine(t, DefAt(e), st) /\ Extends(st, RefAt(e)) /\ st = View(pt, pf, e)
    BY <1>2, <1>3, <1>6 DEF LayerOK, NowAt
  <2>2. PartStops(t, SccsAt(e), DefAt(e), st)
    <3>1. \A x \in Lits : st[x] = DL_UNDECIDED => EvalPart(t, DefAt(e), st, x) = DL_UNDECIDED
      BY <1>2, <1>3, <1>6, <2>1 DEF Settled, Awaits, EvalAt, NowAt
    <3>2. \A q \in Lits : ~ Completes(t, st, SccsAt(e)[q], FALSE)
      BY <1>4, <1>6
    <3> QED
      BY <3>1, <3>2 DEF PartStops
  <2>3. PICK P : P = RefAt(e) /\ P = RefPart(t, SccsAt(e), DefAt(e))
    BY <1>2 DEF RefAt
  <2>4. st = P
    BY <1>3, <2>1, <2>2, <2>3, PartLimitReached
  <2> QED
    BY <1>6, <2>1, <2>3, <2>4
<1> QED
  BY <1>5, <1>6

\* Rows without bits say nothing twice and need no room.
LEMMA NoRowApart == Apart(NoRow, NoRow) /\ InRoom(NoRow)
BY DEF Apart, InRoom, NoRow

\* The next layer, another sweep of this one, or the caller.
LEMMA CompleteDoneStep ==
  ASSUME SolveInv, CompleteDone
  PROVE  Layers' /\ SweepOK' /\ PassOK'
<1>1. /\ Solving /\ phase \in {"delta", "part"} /\ pass = "complete" /\ cid > Len(idx.scc)
      /\ phase' = (IF any THEN phase ELSE IF phase = "delta" THEN "part" ELSE "idle")
      /\ UNCHANGED <<theory, dirty, idx, fact, open, dt, df, pt, pf>> /\ StartSweep
  BY DEF CompleteDone, Solving, columns
<1>2. Ready /\ Layers
  BY <1>1, SolveReady DEF SolveInv
<1>3. SweepOK'
  <2>1. PICK high \in BOOLEAN : idx' = Compiled(high)
    BY <1>1, <1>2 DEF Ready, Compiles
  <2> QED
    BY <1>1, <1>2, <2>1, SweepStart DEF Ready
<1>4. PassOK'
  BY <1>1 DEF PassOK, StartSweep
<1>5. CASE any
  <2>1. UNCHANGED phase
    BY <1>1, <1>5
  <2>2. Layers'
    BY <1>1, <1>2, <2>1, LayerKept DEF Layers, Solving
  <2> QED
    BY <1>3, <1>4, <2>2
<1>6. CASE ~ any /\ phase = "delta"
  <2>1. phase' = "part" /\ pt = NoRow /\ pf = NoRow
    BY <1>1, <1>2, <1>6 DEF Layers
  <2>2. ASSUME NEW e \in Ents PROVE LayerOK(e)'
    <3>1. /\ TheoryAt(e)' = TheoryAt(e) /\ DefAt(e)' = DefAt(e) /\ RefAt(e)' = RefAt(e)
          /\ View(dt, df, e)' = View(dt, df, e) /\ View(pt, pf, e)' = View(NoRow, NoRow, e)
      BY <1>1, <2>1, LimitsKept
    <3>2. View(dt, df, e) = DefAt(e)
      BY <1>1, <1>6, LayerEnds
    <3>3. PICK v, t, d, P : /\ v = View(NoRow, NoRow, e) /\ t = TheoryAt(e) /\ d = DefAt(e)
                            /\ P = RefAt(e) /\ P = RefPart(t, SccsAt(e), d)
      BY DEF RefAt
    <3>4. d \in Status /\ \A q \in Lits \ Located : d[q] = DL_REFUTED
      BY <1>2, <3>2, <3>3, ViewFacts DEF Ready, Rowed, Columns
    <3>5. PartFine(t, d, v) /\ Extends(v, P)
      BY <1>2, <3>3, <3>4, PartStart, SccsAtFacts DEF Ready
    <3>6. NowAt(e)' = v
      BY <2>1, <3>1, <3>3 DEF NowAt
    <3> QED
      BY <2>1, <3>1, <3>2, <3>3, <3>5, <3>6 DEF LayerOK
  <2>3. Rowed'
    <3>1. Located' = Located
      BY <1>1, TheoriesKept DEF theory
    <3> QED
      BY <1>1, <1>2, <3>1 DEF Ready, Rowed, InRoom, Apart
  <2>4. Layers'
    BY <2>1, <2>2, <2>3 DEF Layers
  <2> QED
    BY <1>3, <1>4, <2>4
<1>7. CASE ~ any /\ phase = "part"
  BY <1>1, <1>3, <1>4, <1>7 DEF Layers, Solving
<1> QED
  BY <1>1, <1>5, <1>6, <1>7

\* A solve starts on indices of the present rules, with nothing decided.
LEMMA SolveStep ==
  ASSUME SolveInv, Solve
  PROVE  Layers' /\ SweepOK' /\ PassOK' /\ IndexOK'
<1>1. /\ dirty' = FALSE /\ phase' = "delta" /\ UNCHANGED <<theory, fact, open>> /\ StartSweep
      /\ dt' = NoRow /\ df' = NoRow /\ pt' = NoRow /\ pf' = NoRow
      /\ Shape /\ InRoom(fact) /\ InRoom(open)
  BY DEF Solve, SolveInv
<1>2. PICK high \in BOOLEAN : idx' = Compiled(high)
  <2>1. CASE dirty
    BY <2>1 DEF Solve
  <2>2. CASE ~ dirty
    BY <2>2 DEF Solve, SolveInv, IndexOK, Compiles
  <2> QED
    BY <2>1, <2>2 DEF SolveInv, IndexOK
<1>3. SweepOK'
  BY <1>1, <1>2, SweepStart
<1>4. PassOK'
  BY <1>1 DEF PassOK, StartSweep
<1>5. Compiles'
  <2>1. Decoded' = Decoded /\ rules' = rules /\ sups' = sups
    BY <1>1, SameRules DEF theory
  <2>2. Compiled(high)' = Compiled(high)
    BY <2>1 DEF Compiled
  <2> QED
    BY <1>2, <2>2 DEF Compiles
<1>6. IndexOK'
  BY <1>1, <1>5 DEF IndexOK
<1>7. Rowed'
  <2>1. Located' = Located
    BY <1>1, TheoriesKept DEF theory
  <2> QED
    BY <1>1, <2>1, NoRowApart DEF Rowed, InRoom, Apart
<1>8. ASSUME NEW e \in Ents PROVE LayerOK(e)'
  <2>1. /\ TheoryAt(e)' = TheoryAt(e) /\ DefAt(e)' = DefAt(e)
        /\ View(dt, df, e)' = View(NoRow, NoRow, e)
    BY <1>1, LimitsKept
  <2>2. PICK v, t, D : /\ v = View(NoRow, NoRow, e) /\ t = TheoryAt(e)
                       /\ D = DefAt(e) /\ D = Family!DefiniteOf(t, OpenAt(e), SccsAt(e))
    BY DEF DefAt
  <2>3. DeltaFine(t, v) /\ Extends(v, D)
    BY <1>1, <2>2, DeltaStart, SccsAtFacts
  <2>4. NowAt(e)' = v
    BY <1>1, <2>1, <2>2 DEF NowAt
  <2> QED
    BY <1>1, <2>1, <2>2, <2>3, <2>4 DEF LayerOK
<1> QED
  BY <1>1, <1>3, <1>4, <1>6, <1>7, <1>8 DEF Layers

-----------------------------------------------------------------------------
(* The invariant is inductive.                                             *)

\* The indices stay those of the rules as long as the rules stay.
LEMMA IndexKept ==
  ASSUME IndexOK, UNCHANGED <<rules, body, sups, idx, dirty>>, phase' # "idle" => phase # "idle"
  PROVE  IndexOK'
<1>1. Decoded' = Decoded
  BY SameRules
<1>2. \A high : Compiled(high)' = Compiled(high)
  BY <1>1 DEF Compiled
<1>3. Compiles => Compiles'
  BY <1>2 DEF Compiles
<1> QED
  BY <1>3 DEF IndexOK

\* An edit outside a solve keeps the invariant of a solve.
LEMMA EditKept ==
  ASSUME SolveInv, Edit
  PROVE  /\ phase' = "idle" /\ IndexOK' /\ InRoom(fact)' /\ InRoom(open)'
         /\ pass' = pass /\ changed' = changed /\ any' = any
<1>0. IndexOK /\ InRoom(fact) /\ InRoom(open) /\ fact \in EntRows /\ open \in EntRows /\ natoms \in Nat
  BY FamilyAssumption DEF SolveInv, Columns, Shape, Roomy
<1>1. ASSUME NEW r \in RulePool, AddRule(r)
      PROVE  /\ phase' = "idle" /\ IndexOK' /\ InRoom(fact)' /\ InRoom(open)'
             /\ pass' = pass /\ changed' = changed /\ any' = any
  BY <1>0, <1>1 DEF AddRule, control, IndexOK, InRoom, Located
<1>2. ASSUME NEW p \in SupPool, AddSup(p)
      PROVE  /\ phase' = "idle" /\ IndexOK' /\ InRoom(fact)' /\ InRoom(open)'
             /\ pass' = pass /\ changed' = changed /\ any' = any
  BY <1>0, <1>2 DEF AddSup, control, IndexOK, InRoom, Located
<1>3. CASE Mark
  <2>1. IndexOK'
    BY <1>0, <1>3, IndexKept DEF Mark, control
  <2> QED
    BY <1>0, <1>3, <2>1 DEF Mark, control, InRoom, Located
<1>4. CASE Truncate
  BY <1>0, <1>4 DEF Truncate, control, IndexOK, InRoom, Located
<1>5. CASE ClearFacts
  <2>1. IndexOK'
    BY <1>0, <1>5, IndexKept DEF ClearFacts, control, theory
  <2>2. InRoom(fact)' /\ InRoom(open)'
    BY <1>5 DEF ClearFacts, InRoom, NoRow
  <2> QED
    BY <1>5, <2>1, <2>2 DEF ClearFacts, control
<1>6. ASSUME NEW n \in Sizes, EnsureAtoms(n)
      PROVE  /\ phase' = "idle" /\ IndexOK' /\ InRoom(fact)' /\ InRoom(open)'
             /\ pass' = pass /\ changed' = changed /\ any' = any
  <2>1. n > natoms /\ natoms' = n /\ n \in Nat /\ fact' = fact /\ open' = open
    BY <1>6, FamilyAssumption DEF EnsureAtoms
  <2>2. Lits \ Located' \subseteq Lits \ Located
    BY <1>0, <2>1, NAtomsAssumption DEF Located, Lits
  <2>3. InRoom(fact)' /\ InRoom(open)'
    BY <1>0, <2>1, <2>2 DEF InRoom
  <2> QED
    BY <1>0, <1>6, <2>3 DEF EnsureAtoms, control, IndexOK
<1>7. ASSUME NEW x \in FactPool, AddFact(x[1], x[2])
      PROVE  /\ phase' = "idle" /\ IndexOK' /\ InRoom(fact)' /\ InRoom(open)'
             /\ pass' = pass /\ changed' = changed /\ any' = any
  <2>1. IndexOK'
    BY <1>0, <1>7, IndexKept DEF AddFact, control, theory
  <2>2. Located' = Located
    BY <1>7 DEF AddFact, theory, Located
  <2>3. InRoom(fact)' /\ InRoom(open)'
    BY <1>0, <1>7, <2>2 DEF AddFact, InRoom, EntRows
  <2> QED
    BY <1>7, <2>1, <2>3 DEF AddFact, control
<1>8. ASSUME NEW x \in OpenPool, SetOpen(x[1], x[2])
      PROVE  /\ phase' = "idle" /\ IndexOK' /\ InRoom(fact)' /\ InRoom(open)'
             /\ pass' = pass /\ changed' = changed /\ any' = any
  <2>1. IndexOK'
    BY <1>0, <1>8, IndexKept DEF SetOpen, control, theory
  <2>2. Located' = Located
    BY <1>8 DEF SetOpen, theory, Located
  <2>3. InRoom(fact)' /\ InRoom(open)'
    BY <1>0, <1>8, <2>2 DEF SetOpen, InRoom, EntRows
  <2> QED
    BY <1>8, <2>1, <2>3 DEF SetOpen, control
<1> QED
  BY <1>1, <1>2, <1>3, <1>4, <1>5, <1>6, <1>7, <1>8 DEF Edit

\* The steps of a solve keep the indices, the facts, and the control state typed.
LEMMA RunKept ==
  ASSUME SolveInv, Running
  PROVE  /\ IndexOK' /\ InRoom(fact)' /\ InRoom(open)'
         /\ pass' \in {"sweep", "complete"} /\ changed' \in BOOLEAN /\ any' \in BOOLEAN
<1>1. /\ UNCHANGED <<theory, dirty, idx, fact, open>> /\ (phase' # "idle" => phase # "idle")
  BY DEF Running, VisitDelta, VisitPart, SweepDone, CompleteVisit, CompleteDone, InSweep
<1>2. IndexOK /\ pass \in {"sweep", "complete"} /\ changed \in BOOLEAN /\ any \in BOOLEAN
      /\ InRoom(fact) /\ InRoom(open)
  BY DEF SolveInv
<1>3. IndexOK'
  BY <1>1, <1>2, IndexKept DEF theory
<1>4. InRoom(fact)' /\ InRoom(open)'
  BY <1>1, <1>2 DEF InRoom, Located, theory
<1>5. CASE VisitDelta \/ VisitPart
  <2>1. PICK q \in Lits : Visited(q)
    BY <1>5, SweepVisited
  <2>2. changed' \in BOOLEAN
    BY <1>2, <2>1 DEF Visited, SweepNext
  <2> QED
    BY <1>2, <1>3, <1>4, <2>1, <2>2 DEF Visited
<1>6. CASE SweepDone
  BY <1>2, <1>3, <1>4, <1>6 DEF SweepDone
<1>7. CASE CompleteVisit
  <2>1. any' \in BOOLEAN /\ pass' = pass /\ changed' = changed
    BY <1>2, <1>7 DEF CompleteVisit
  <2> QED
    BY <1>2, <1>3, <1>4, <2>1
<1>8. CASE CompleteDone
  BY <1>3, <1>4, <1>8 DEF CompleteDone, StartSweep
<1> QED
  BY <1>5, <1>6, <1>7, <1>8 DEF Running

\* The invariant holds of a new family, and every step keeps it.
LEMMA SolveInvInit == Init => SolveInv
<1> SUFFICES ASSUME Init PROVE SolveInv
  OBVIOUS
<1>1. Shape /\ Columns
  BY ShapeInit, ColumnsInit
<1>2. AppRows
  BY DEF Init, AppRows
<1>3. InRoom(fact) /\ InRoom(open)
  BY NoRowApart DEF Init
<1> QED
  BY <1>1, <1>2, <1>3 DEF Init, SolveInv, IndexOK, Layers, Solving, SweepOK, InSweep, PassOK

LEMMA SolveInvStep == SolveInv /\ [Next]_vars => SolveInv'
<1> SUFFICES ASSUME SolveInv, [Next]_vars PROVE SolveInv'
  OBVIOUS
<1>1. Shape' /\ Columns' /\ AppRows'
  BY ShapeStep, ColumnsStep, AppRowsStep DEF SolveInv
<1>2. CASE Edit
  BY <1>1, <1>2, EditKept DEF SolveInv, Layers, Solving, SweepOK, InSweep, PassOK
<1>3. CASE Solve
  <2>1. Layers' /\ SweepOK' /\ PassOK' /\ IndexOK'
    BY <1>3, SolveStep
  <2>2. InRoom(fact)' /\ InRoom(open)'
    BY <1>3 DEF Solve, SolveInv, InRoom, Located, theory
  <2> QED
    BY <1>1, <1>3, <2>1, <2>2 DEF Solve, StartSweep, SolveInv
<1>4. CASE Running
  <2>1. Layers' /\ SweepOK' /\ PassOK'
    <3>1. CASE VisitDelta \/ VisitPart
      BY <3>1, SweepVisitStep, SweepVisitLayers
    <3> QED
      BY <1>4, <3>1, SweepDoneStep, CompleteVisitStep, CompleteDoneStep DEF Running
  <2> QED
    BY <1>1, <1>4, <2>1, RunKept DEF SolveInv
<1>5. CASE UNCHANGED vars
  <2>1. UNCHANGED <<theory, dirty, idx, fact, open, dt, df, pt, pf>> /\ UNCHANGED <<phase, pass, comp, k, changed, cid, any>>
    BY <1>5 DEF vars, columns, control
  <2>2. IndexOK' /\ InRoom(fact)' /\ InRoom(open)'
    <3>1. IndexOK'
      BY <2>1, IndexKept DEF SolveInv, theory
    <3> QED
      BY <2>1, <3>1 DEF SolveInv, InRoom, Located, theory
  <2>3. Layers'
    BY <2>1, LayerKept DEF SolveInv, Layers, Solving
  <2>4. SweepOK'
    BY <2>1, LayerKept DEF SolveInv, SweepOK, InSweep, Cur
  <2>5. PassOK'
    BY <2>1, LayerKept DEF SolveInv, PassOK, Solving, Settled
  <2> QED
    BY <1>1, <2>1, <2>2, <2>3, <2>4, <2>5 DEF SolveInv
<1> QED
  BY <1>2, <1>3, <1>4, <1>5 DEF Next

-----------------------------------------------------------------------------
(* The columnar family implements the abstract one.                        *)

\* Names of the abstract family.
LEMMA FamilyNames ==
  /\ Family!Located = Located /\ Family!NoRow = NoRow
  /\ Family!NoAnswer = [e \in Ents |-> Unsolved]
  /\ \A s : Family!Sups(s) = Range(s)
BY FamilyStatus DEF Family!Located, Located, Family!NoRow, NoRow, Family!NoAnswer, Family!Sups, Range

\* The answers between two solves, and during one.
LEMMA AnswerFacts ==
  ASSUME NEW t, NEW f
  PROVE  /\ phase = "idle" => Answer(t, f) = [e \in Ents |-> StatusOf(t, f, e)]
         /\ phase # "idle" => Answer(t, f) = [e \in Ents |-> Unsolved]
BY DEF Answer

\* A step that leaves the columns and the phase leaves the answers.
LEMMA AnswersKept ==
  ASSUME UNCHANGED <<phase, dt, df, pt, pf>>
  PROVE  Answer(dt, df)' = Answer(dt, df) /\ Answer(pt, pf)' = Answer(pt, pf)
BY DEF Answer, StatusOf

\* What the family reads at the end of a solve.
LEMMA AnswerView ==
  ASSUME NEW t, NEW f, InRoom(t), InRoom(f), NEW e, NEW D, View(t, f, e) = D
  PROVE  Family!InLocated(D) = StatusOf(t, f, e)
<1> DEFINE now(q) == IF e \in t[q] THEN DL_PROVED ELSE IF e \in f[q] THEN DL_REFUTED ELSE DL_UNDECIDED
<1>1. D = [q \in Lits |-> IF q \in Located THEN now(q) ELSE DL_REFUTED]
  BY DEF View, StatusOf
<1>2. StatusOf(t, f, e) = [q \in Lits |-> now(q)]
  BY DEF StatusOf
<1>3. \A q \in Lits : q \notin Located => now(q) = DL_UNDECIDED
  BY DEF InRoom
<1>4. Family!InLocated(D) = [q \in Lits |-> IF q \in Located THEN D[q] ELSE DL_UNDECIDED]
  BY FamilyStatus, FamilyNames DEF Family!InLocated
<1> HIDE DEF now
<1> QED
  BY <1>1, <1>2, <1>3, <1>4

\* The answers the abstract family gives for an entity are the limits of its layers.
LEMMA FamilyAnswers ==
  ASSUME NEW e \in Ents
  PROVE  /\ Family!Answers(Decoded, sups, fact, open)[e].definite = DefAt(e)
         /\ Family!Answers(Decoded, sups, fact, open)[e].verdict = RefAt(e)
<1>1. Family!TheoryOf(Decoded, sups, fact, e) = TheoryAt(e) /\ Family!OpenOf(open, e) = OpenAt(e)
  BY TheoryAtFamily
<1>2. Family!SupportSccs(TheoryAt(e)) = SccsAt(e)
  BY FamilyCompletes DEF SccsAt
<1>3. Family!RefPart(TheoryAt(e), SccsAt(e), DefAt(e)) = RefAt(e)
  BY FamilyRefPart DEF RefAt
<1>4. Family!Answers(Decoded, sups, fact, open)[e] =
        [definite |-> DefAt(e), verdict |-> Family!RefPart(TheoryAt(e), SccsAt(e), DefAt(e))]
  BY <1>1, <1>2 DEF Family!Answers, DefAt
<1> QED
  BY <1>3, <1>4

\* A new family.
LEMMA FamilyInit == Init => Family!FInit
<1> SUFFICES ASSUME Init PROVE Family!FInit
  OBVIOUS
<1>1. Decoded = <<>>
  BY DEF Init, Decoded
<1>2. Answer(dt, df) = [e \in Ents |-> Unsolved] /\ Answer(pt, pf) = [e \in Ents |-> Unsolved]
  BY DEF Init, Answer, StatusOf, NoRow, Unsolved
<1>3. <<mark[1], mark[3]>> = <<0, 0>>
  BY DEF Init
<1> QED
  BY <1>1, <1>2, <1>3, FamilyNames DEF Init, Family!FInit

\* A solve begins: nothing is answered before it returns.
LEMMA FamilySolve ==
  ASSUME Solve
  PROVE  Family!FSolve
<1>1. Decoded' = Decoded
  BY SameRules DEF Solve, theory
<1>2. Answer(dt, df)' = [e \in Ents |-> Unsolved] /\ Answer(pt, pf)' = [e \in Ents |-> Unsolved]
  BY DEF Solve, Answer
<1> QED
  BY <1>1, <1>2, FamilyNames DEF Solve, theory, Family!FSolve, Family!theory, Family!facts

\* A solve returns the limits of the two layers for every entity.
LEMMA FamilyReturn ==
  ASSUME SolveInv, CompleteDone, phase = "part", ~ any
  PROVE  Family!FReturn
<1>1. /\ pass = "complete" /\ cid > Len(idx.scc) /\ phase' = "idle"
      /\ UNCHANGED <<theory, fact, open, dt, df, pt, pf, solves>>
  BY DEF CompleteDone, columns
<1>2. Rowed
  BY SolveReady DEF Solving, Ready
<1>3. ASSUME NEW e \in Ents
      PROVE  /\ Family!InLocated(Family!Answers(Decoded, sups, fact, open)[e].definite) = StatusOf(dt, df, e)
             /\ Family!InLocated(Family!Answers(Decoded, sups, fact, open)[e].verdict) = StatusOf(pt, pf, e)
  <2>1. View(dt, df, e) = DefAt(e) /\ View(pt, pf, e) = RefAt(e)
    BY <1>1, LayerEnds
  <2> QED
    BY <1>2, <2>1, AnswerView, FamilyAnswers DEF Rowed
<1>4. /\ Answer(dt, df)' = [e \in Ents |-> StatusOf(dt, df, e)]
      /\ Answer(pt, pf)' = [e \in Ents |-> StatusOf(pt, pf, e)]
  BY <1>1 DEF Answer, StatusOf
<1>5. Decoded' = Decoded
  BY <1>1, SameRules DEF theory
<1> QED
  BY <1>1, <1>3, <1>4, <1>5 DEF Family!FReturn, Family!theory, Family!facts, theory

\* A step inside a solve is not seen.
LEMMA FamilyInside ==
  ASSUME UNCHANGED <<theory, fact, open, solves>>, phase # "idle", phase' # "idle"
  PROVE  UNCHANGED Family!fvars
<1>1. Decoded' = Decoded
  BY SameRules DEF theory
<1>2. Answer(dt, df)' = Answer(dt, df) /\ Answer(pt, pf)' = Answer(pt, pf)
  BY DEF Answer
<1> QED
  BY <1>1, <1>2 DEF Family!fvars, Family!theory, Family!facts, theory

\* The edits are the abstract family's.
LEMMA FamilyEdit ==
  ASSUME SolveInv, Edit
  PROVE  Family!FNext
<1>0. Shape /\ DOMAIN Decoded = DOMAIN rules
  BY DecodedRules DEF SolveInv
<1>1. ASSUME NEW r \in RulePool, AddRule(r) PROVE Family!FNext
  <2>1. Decoded' = Append(Decoded, r)
    BY <1>0, <1>1, AddedRule
  <2>2. Answer(dt, df)' = Answer(dt, df) /\ Answer(pt, pf)' = Answer(pt, pf)
    BY <1>1, AnswersKept DEF AddRule, columns, control
  <2>3. Family!FAddRule(r)
    BY <1>1, <2>1, <2>2, FamilyNames DEF AddRule, columns, control, Family!FAddRule, Family!LitsOfRule, Family!facts
  <2> QED
    BY <2>3 DEF Family!FNext
<1>2. ASSUME NEW p \in SupPool, AddSup(p) PROVE Family!FNext
  <2>1. Decoded' = Decoded
    BY <1>2, SameRules DEF AddSup
  <2>2. Answer(dt, df)' = Answer(dt, df) /\ Answer(pt, pf)' = Answer(pt, pf)
    BY <1>2, AnswersKept DEF AddSup, columns, control
  <2>3. Family!FAddSup(p)
    BY <1>0, <1>2, <2>1, <2>2, FamilyNames DEF AddSup, columns, control, Family!FAddSup, Family!facts
  <2> QED
    BY <2>3 DEF Family!FNext
<1>3. CASE Mark
  <2>1. Decoded' = Decoded
    BY <1>3, SameRules DEF Mark
  <2>2. Answer(dt, df)' = Answer(dt, df) /\ Answer(pt, pf)' = Answer(pt, pf)
    BY <1>3, AnswersKept DEF Mark, columns, control
  <2>3. Len(Decoded) = Len(rules)
    BY <1>0, DecodedRules DEF Shape, Slices
  <2>4. Family!FMark
    BY <1>3, <2>1, <2>2, <2>3 DEF Mark, columns, control, Family!FMark, Family!facts
  <2> QED
    BY <2>4 DEF Family!FNext
<1>4. CASE Truncate
  <2>1. Decoded' = SubSeq(Decoded, 1, mark[1])
    BY <1>0, <1>4, TruncatedRules
  <2>2. Answer(dt, df)' = Answer(dt, df) /\ Answer(pt, pf)' = Answer(pt, pf)
    BY <1>4, AnswersKept DEF Truncate, columns, control
  <2>3. <<mark[1], mark[3]>> # <<0, 0>>
    BY <1>0, <1>4 DEF Truncate, Shape, Slices, Watermark
  <2>4. Family!FTruncate
    BY <1>4, <2>1, <2>2, <2>3 DEF Truncate, columns, control, Family!FTruncate, Family!facts
  <2> QED
    BY <2>4 DEF Family!FNext
<1>5. CASE ClearFacts
  <2>1. Decoded' = Decoded
    BY <1>5, SameRules DEF ClearFacts, theory
  <2>2. Answer(dt, df)' = Answer(dt, df) /\ Answer(pt, pf)' = Answer(pt, pf)
    BY <1>5, AnswersKept DEF ClearFacts, columns, control
  <2>3. Family!FClearFacts
    BY <1>5, <2>1, <2>2, FamilyNames DEF ClearFacts, columns, control, theory, Family!FClearFacts, Family!theory
  <2> QED
    BY <2>3 DEF Family!FNext
<1>6. ASSUME NEW n \in Sizes, EnsureAtoms(n) PROVE Family!FNext
  <2>1. Decoded' = Decoded
    BY <1>6, SameRules DEF EnsureAtoms
  <2>2. Answer(dt, df)' = Answer(dt, df) /\ Answer(pt, pf)' = Answer(pt, pf)
    BY <1>6, AnswersKept DEF EnsureAtoms, columns, control
  <2>3. Family!FEnsureAtoms(n)
    BY <1>6, <2>1, <2>2 DEF EnsureAtoms, columns, control, Family!FEnsureAtoms, Family!facts
  <2> QED
    BY <2>3 DEF Family!FNext
<1>7. ASSUME NEW x \in FactPool, AddFact(x[1], x[2]) PROVE Family!FNext
  <2>1. Decoded' = Decoded
    BY <1>7, SameRules DEF AddFact, theory
  <2>2. Answer(dt, df)' = Answer(dt, df) /\ Answer(pt, pf)' = Answer(pt, pf)
    BY <1>7, AnswersKept DEF AddFact, columns, control
  <2>3. Family!FAddFact(x[1], x[2])
    BY <1>7, <2>1, <2>2, FamilyNames DEF AddFact, columns, control, theory, Family!FAddFact, Family!theory
  <2> QED
    BY <2>3 DEF Family!FNext
<1>8. ASSUME NEW x \in OpenPool, SetOpen(x[1], x[2]) PROVE Family!FNext
  <2>1. Decoded' = Decoded
    BY <1>8, SameRules DEF SetOpen, theory
  <2>2. Answer(dt, df)' = Answer(dt, df) /\ Answer(pt, pf)' = Answer(pt, pf)
    BY <1>8, AnswersKept DEF SetOpen, columns, control
  <2>3. Family!FSetOpen(x[1], x[2])
    BY <1>8, <2>1, <2>2, FamilyNames DEF SetOpen, columns, control, theory, Family!FSetOpen, Family!theory
  <2> QED
    BY <2>3 DEF Family!FNext
<1> QED
  BY <1>1, <1>2, <1>3, <1>4, <1>5, <1>6, <1>7, <1>8 DEF Edit

\* Every step is one of the abstract family's, or is not seen.
LEMMA FamilyStep ==
  ASSUME SolveInv, [Next]_vars
  PROVE  [Family!FNext]_(Family!fvars)
<1>1. CASE Edit
  BY <1>1, FamilyEdit
<1>2. CASE Solve
  BY <1>2, FamilySolve DEF Family!FNext
<1>3. CASE Running
  <2>1. UNCHANGED <<theory, fact, open, solves>> /\ phase # "idle"
    BY <1>3 DEF Running, VisitDelta, VisitPart, SweepDone, CompleteVisit, CompleteDone, InSweep
  <2>2. CASE phase' # "idle"
    BY <2>1, <2>2, FamilyInside
  <2>3. CASE phase' = "idle"
    <3>1. CompleteDone /\ phase = "part" /\ ~ any
      BY <1>3, <2>1, <2>3 DEF Running, VisitDelta, VisitPart, SweepDone, CompleteVisit, CompleteDone, InSweep
    <3> QED
      BY <3>1, FamilyReturn DEF Family!FNext
  <2> QED
    BY <2>2, <2>3
<1>4. CASE UNCHANGED vars
  <2>1. UNCHANGED <<theory, fact, open, solves, phase, dt, df, pt, pf>>
    BY <1>4 DEF vars, columns, control
  <2>2. Decoded' = Decoded
    BY <2>1, SameRules DEF theory
  <2>3. Answer(dt, df)' = Answer(dt, df) /\ Answer(pt, pf)' = Answer(pt, pf)
    BY <2>1, AnswersKept
  <2> QED
    BY <2>1, <2>2, <2>3 DEF Family!fvars, Family!theory, Family!facts, theory
<1> QED
  BY <1>1, <1>2, <1>3, <1>4 DEF Next

\* Whatever was added, cut back, grown, asserted and withdrawn between two solves,
\* every entity reads what a theory of its own would have been solved to: the safety
\* half of the promise of dlcol_solve, dlcol_truncate_rules and dlcol_ensure_atoms.
THEOREM ColumnsAreTheFamily == Spec => Family!FInit /\ [][Family!FNext]_(Family!fvars)
<1>1. Init => SolveInv
  BY SolveInvInit
<1>2. SolveInv /\ [Next]_vars => SolveInv'
  BY SolveInvStep
<1>3. Init => Family!FInit
  BY FamilyInit
<1>4. SolveInv /\ [Next]_vars => [Family!FNext]_(Family!fvars)
  BY FamilyStep
<1> QED
  BY <1>1, <1>2, <1>3, <1>4, PTL DEF Spec

=============================================================================
