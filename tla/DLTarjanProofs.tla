--------------------------- MODULE DLTarjanProofs ---------------------------
(***************************************************************************)
(* Proofs about dl_tarjan and dl_group_by_comp, for every number of nodes  *)
(* and every graph.                                                        *)
(*                                                                         *)
(* The argument is the usual one, with the explicit frames in the place of *)
(* the recursion: a frame reaches everything numbered since it was opened, *)
(* everything on the stack reaches some frame no later than itself, and no *)
(* edge taken leads further down the stack than the low link of the frame  *)
(* it was taken under says.  When the top frame's link is its own number,  *)
(* the part of the stack from it on is therefore one component, and no     *)
(* edge leaves it but into finished ones.                                  *)
(***************************************************************************)
EXTENDS DLTarjan, FiniteSetTheorems, TLAPS

-----------------------------------------------------------------------------
(* The invariant.                                                          *)

TypeOK ==
  /\ adj \in [Nodes -> Seq(Nodes)]
  /\ pc \in {"roots", "walk", "group", "done"}
  /\ root \in 0 .. N
  /\ idx \in [Nodes -> Int] /\ low \in [Nodes -> Int] /\ counter \in Nat
  /\ stk \in Seq(Nodes) /\ onstk \in SUBSET Nodes
  /\ frames \in Seq([v : Nodes, e : Nat \ {0}])
  /\ comp \in [Nodes -> Int] /\ ncomp \in Nat

\* Nodes are numbered in the order they are discovered; a numbered node is on
\* the stack until its component is assigned, and the stack is in that order.
Numbering ==
  /\ \A v \in Nodes : idx[v] >= -1 /\ idx[v] < counter
  /\ \A u, v \in Nodes : idx[u] >= 0 /\ idx[u] = idx[v] => u = v
  /\ \A v \in Nodes : v \in onstk <=> idx[v] >= 0 /\ comp[v] = -1
  /\ \A v \in Nodes : comp[v] # -1 => idx[v] >= 0 /\ comp[v] \in 0 .. ncomp - 1
  /\ onstk = {stk[i] : i \in DOMAIN stk}
  /\ \A i, j \in DOMAIN stk : i < j => idx[stk[i]] < idx[stk[j]]

\* The frames are nodes of the stack, in its order.
FramesInv ==
  /\ \A k \in DOMAIN frames : frames[k].v \in onstk
  /\ \A j, k \in DOMAIN frames : j < k => idx[frames[j].v] < idx[frames[k].v]

\* What is numbered when.
Walking ==
  /\ pc # "walk" => frames = <<>>
  /\ pc = "walk" => root < N /\ idx[root] >= 0
  /\ \A v \in Nodes : v < root => idx[v] >= 0
  /\ pc \in {"group", "done"} => root = N

\* A low link is the number of a node of the stack the node reaches.
Links ==
  \A v \in onstk : low[v] <= idx[v] /\ \E x \in onstk : low[v] = idx[x] /\ x \in Reach(v)

\* A frame reaches every node numbered since it was opened.
FramesReach ==
  \A u \in onstk : \A k \in DOMAIN frames :
    idx[frames[k].v] <= idx[u] => u \in Reach(frames[k].v)

\* Every node of the stack reaches a frame no later than itself.
ReachesFrame ==
  \A u \in onstk : \E k \in DOMAIN frames :
    idx[frames[k].v] <= idx[u] /\ frames[k].v \in Reach(u)

\* The frame a node of the stack was discovered under: the last not after it.
Owner(k, u) ==
  /\ k \in DOMAIN frames /\ idx[frames[k].v] <= idx[u]
  /\ \A j \in DOMAIN frames : idx[frames[j].v] <= idx[u] => j <= k

\* The i-th edge of u is still to be taken.
Pending(u, i) == \E k \in DOMAIN frames : frames[k].v = u /\ frames[k].e <= i

\* An edge taken from a node of the stack leads to a finished component, or back
\* to the stack no further down than its owner's low link says.
EdgesSeen ==
  \A u \in onstk : \A i \in DOMAIN adj[u] :
    \/ Pending(u, i)
    \/ comp[adj[u][i]] # -1
    \/ /\ adj[u][i] \in onstk
       /\ \A k \in DOMAIN frames : Owner(k, u) => low[frames[k].v] <= idx[adj[u][i]]

\* Nodes of one finished component reach each other.
ComponentsConnected ==
  \A u, v \in Nodes : comp[u] # -1 /\ comp[u] = comp[v] => v \in Reach(u)

WalkInv ==
  /\ TypeOK /\ Numbering /\ FramesInv /\ Walking /\ Links /\ FramesReach /\ ReachesFrame
  /\ EdgesSeen /\ ComponentsConnected /\ ReverseTopological

-----------------------------------------------------------------------------
(* Reachability.                                                           *)

\* A node reaches itself.
LEMMA ReachRefl == ASSUME NEW v \in Nodes PROVE v \in Reach(v)
BY DEF Reach

\* Reaching is transitive.
LEMMA ReachTrans ==
  ASSUME NEW u \in Nodes, NEW v \in Reach(u), NEW w \in Reach(v)
  PROVE  w \in Reach(u)
BY DEF Reach

\* A node reaches where its edges lead.
LEMMA ReachEdge ==
  ASSUME NEW v \in Nodes, NEW i \in DOMAIN adj[v], adj[v][i] \in Nodes
  PROVE  adj[v][i] \in Reach(v)
BY DEF Reach, Closed

\* A step that leaves the graph alone leaves what reaches what.
LEMMA ReachSame ==
  ASSUME UNCHANGED adj
  PROVE  \A v : Reach(v)' = Reach(v)
BY DEF Reach, Closed

\* A closed set with u in it holds all that u reaches.
LEMMA ReachClosed ==
  ASSUME NEW u \in Nodes, NEW C \in SUBSET Nodes, u \in C, Closed(C)
  PROVE  Reach(u) \subseteq C
BY DEF Reach

\* The node an edge of a well-typed graph leads to.
LEMMA EdgeTyped ==
  ASSUME TypeOK, NEW u \in Nodes, NEW i \in DOMAIN adj[u]
  PROVE  adj[u][i] \in Nodes
BY DEF TypeOK

-----------------------------------------------------------------------------
(* Discovering a node.                                                     *)

\* The node discovered is numbered last and is on top of the stack.
LEMMA Discovered ==
  ASSUME TypeOK, Numbering, NEW w \in Nodes, idx[w] < 0, Discover(w), UNCHANGED <<comp, ncomp>>
  PROVE  /\ idx' \in [Nodes -> Int] /\ low' \in [Nodes -> Int] /\ counter' \in Nat
         /\ stk' \in Seq(Nodes) /\ onstk' \in SUBSET Nodes
         /\ w \notin onstk /\ onstk' = onstk \cup {w}
         /\ idx'[w] = counter /\ low'[w] = counter /\ comp[w] = -1
         /\ \A v \in Nodes : v # w => idx'[v] = idx[v] /\ low'[v] = low[v]
         /\ \A v \in onstk : v # w /\ idx'[v] = idx[v] /\ low'[v] = low[v] /\ idx[v] < counter
         /\ Numbering'
<1>1. /\ idx' \in [Nodes -> Int] /\ low' \in [Nodes -> Int] /\ counter' \in Nat
      /\ stk' \in Seq(Nodes) /\ onstk' \in SUBSET Nodes
      /\ onstk' = onstk \cup {w}
      /\ idx'[w] = counter /\ low'[w] = counter
      /\ \A v \in Nodes : v # w => idx'[v] = idx[v] /\ low'[v] = low[v]
  BY DEF TypeOK, Discover
<1>0. counter \in Nat /\ counter' = counter + 1 /\ idx \in [Nodes -> Int] /\ UNCHANGED <<comp, ncomp>>
  BY DEF TypeOK, Discover
<1>2. w \notin onstk /\ comp[w] = -1
  BY DEF TypeOK, Numbering
<1>3. \A v \in onstk : v # w /\ idx'[v] = idx[v] /\ low'[v] = low[v] /\ idx[v] < counter
  BY <1>1, <1>2 DEF TypeOK, Numbering
<1>4. Numbering'
  <2>1. \A v \in Nodes : idx'[v] >= -1 /\ idx'[v] < counter'
    <3>1. ASSUME NEW v \in Nodes PROVE idx'[v] >= -1 /\ idx'[v] < counter'
      <4>1. CASE v = w
        BY <1>0, <1>1, <4>1
      <4>2. CASE v # w
        <5>1. idx[v] \in Int /\ idx[v] >= -1 /\ idx[v] < counter /\ idx'[v] = idx[v]
          BY <1>0, <1>1, <4>2 DEF Numbering
        <5> QED
          BY <5>1, <1>0
      <4> QED
        BY <4>1, <4>2
    <3> QED
      BY <3>1
  <2>2. \A u, v \in Nodes : idx'[u] >= 0 /\ idx'[u] = idx'[v] => u = v
    BY <1>0, <1>1 DEF Numbering
  <2>3. \A v \in Nodes : v \in onstk' <=> idx'[v] >= 0 /\ comp'[v] = -1
    BY <1>0, <1>1, <1>2 DEF Numbering
  <2>4. \A v \in Nodes : comp'[v] # -1 => idx'[v] >= 0 /\ comp'[v] \in 0 .. ncomp' - 1
    BY <1>0, <1>1, <1>2 DEF Numbering
  <2>5. /\ Len(stk') = Len(stk) + 1 /\ stk'[Len(stk) + 1] = w
        /\ \A i \in 1 .. Len(stk) : stk'[i] = stk[i]
        /\ Len(stk) \in Nat /\ DOMAIN stk = 1 .. Len(stk) /\ DOMAIN stk' = 1 .. Len(stk) + 1
    BY DEF TypeOK, Discover
  <2>6. onstk' = {stk'[i] : i \in DOMAIN stk'}
    <3>1. onstk = {stk[i] : i \in DOMAIN stk}
      BY DEF Numbering
    <3>2. ASSUME NEW x \in onstk' PROVE \E i \in DOMAIN stk' : x = stk'[i]
      BY <1>1, <2>5, <3>1
    <3>3. ASSUME NEW i \in DOMAIN stk' PROVE stk'[i] \in onstk'
      BY <1>1, <2>5, <3>1
    <3> QED
      BY <3>2, <3>3
  <2>7. ASSUME NEW i \in DOMAIN stk', NEW j \in DOMAIN stk', i < j
        PROVE  idx'[stk'[i]] < idx'[stk'[j]]
    <3>1. i \in 1 .. Len(stk) /\ stk'[i] = stk[i] /\ stk[i] \in onstk
      BY <2>5, <2>7 DEF Numbering
    <3>2. CASE j = Len(stk) + 1
      BY <1>0, <1>1, <1>3, <2>5, <3>1, <3>2
    <3>3. CASE j \in 1 .. Len(stk)
      <4>1. stk'[j] = stk[j] /\ stk[j] \in onstk
        BY <2>5, <3>3 DEF Numbering
      <4> QED
        BY <1>3, <2>5, <2>7, <3>1, <3>3, <4>1 DEF Numbering
    <3> QED
      BY <2>5, <3>2, <3>3
  <2> QED
    BY <2>1, <2>2, <2>3, <2>4, <2>6, <2>7 DEF Numbering
<1> QED
  BY <1>1, <1>2, <1>3, <1>4

\* Opening a frame for the node discovered, reached from the frame below, keeps
\* what is known of the frames, the links and the edges.
LEMMA Opened ==
  ASSUME TypeOK, Numbering, FramesInv, Links, FramesReach, ReachesFrame, EdgesSeen,
         NEW w \in Nodes, idx[w] < 0, Discover(w), UNCHANGED <<adj, comp, ncomp>>,
         DOMAIN frames = 1 .. Len(frames), Len(frames) \in Nat,
         DOMAIN frames' = 1 .. Len(frames) + 1,
         frames'[Len(frames) + 1] = [v |-> w, e |-> 1],
         \A k \in DOMAIN frames : frames'[k].v = frames[k].v,
         frames # <<>> => w \in Reach(frames[Len(frames)].v),
         \A u \in onstk : \A i \in DOMAIN adj[u] :
           Pending(u, i) => Pending(u, i)' \/ adj[u][i] = w
  PROVE  FramesInv' /\ Links' /\ FramesReach' /\ ReachesFrame' /\ EdgesSeen'
<1> DEFINE n == Len(frames)  f(k) == frames[k].v
<1>1. /\ w \notin onstk /\ onstk' = onstk \cup {w}
      /\ idx'[w] = counter /\ low'[w] = counter /\ comp[w] = -1
      /\ \A v \in onstk : v # w /\ idx'[v] = idx[v] /\ low'[v] = low[v] /\ idx[v] < counter
      /\ onstk \in SUBSET Nodes
  BY Discovered DEF TypeOK
<1>2. /\ \A k \in 1 .. n : frames'[k].v = f(k) /\ f(k) \in onstk
      /\ frames'[n + 1].v = w
      /\ n \in Nat
      /\ DOMAIN frames' = 1 .. n + 1 /\ DOMAIN frames = 1 .. n
  BY DEF FramesInv
<1>3. \A v : Reach(v)' = Reach(v)
  BY ReachSame
<1>4. counter \in Nat /\ idx \in [Nodes -> Int] /\ low \in [Nodes -> Int]
  BY DEF TypeOK
<1>5. ASSUME NEW k \in DOMAIN frames' PROVE k \in 1 .. n \/ (k = n + 1 /\ k \notin 1 .. n)
  BY <1>2
<1>6. FramesInv'
  <2>1. ASSUME NEW k \in DOMAIN frames' PROVE frames'[k].v \in onstk'
    BY <1>1, <1>2, <1>5
  <2>2. ASSUME NEW j \in DOMAIN frames', NEW k \in DOMAIN frames', j < k
        PROVE  idx'[frames'[j].v] < idx'[frames'[k].v]
    <3>1. j \in 1 .. n
      BY <1>2, <2>2
    <3>2. CASE k = n + 1
      BY <1>1, <1>2, <3>1, <3>2
    <3>3. CASE k \in 1 .. n
      <4>1. idx[f(j)] < idx[f(k)]
        BY <1>2, <2>2, <3>1, <3>3 DEF FramesInv
      <4> QED
        BY <4>1, <1>1, <1>2, <3>1, <3>3
    <3> QED
      BY <1>5, <3>2, <3>3
  <2> QED
    BY <2>1, <2>2 DEF FramesInv
<1>7. Links'
  <2>1. ASSUME NEW v \in onstk'
        PROVE  low'[v] <= idx'[v] /\ \E x \in onstk' : low'[v] = idx'[x] /\ x \in Reach(v)
    <3>1. CASE v = w
      BY <1>1, <1>4, <3>1, ReachRefl
    <3>2. CASE v \in onstk
      <4>1. PICK x \in onstk : low[v] = idx[x] /\ x \in Reach(v)
        BY <3>2 DEF Links
      <4>2. low[v] <= idx[v]
        BY <3>2 DEF Links
      <4> QED
        BY <1>1, <3>2, <4>1, <4>2
    <3> QED
      BY <1>1, <3>1, <3>2
  <2> QED
    BY <2>1, <1>3 DEF Links
<1>8. FramesReach'
  <2>1. ASSUME NEW u \in onstk', NEW k \in DOMAIN frames', idx'[frames'[k].v] <= idx'[u]
        PROVE  u \in Reach(frames'[k].v)
    <3>1. CASE k \in 1 .. n /\ u \in onstk
      <4>1. idx[f(k)] <= idx[u]
        BY <1>1, <1>2, <2>1, <3>1
      <4>2. u \in Reach(f(k))
        BY <1>2, <3>1, <4>1 DEF FramesReach
      <4> QED
        BY <1>2, <3>1, <4>2
    <3>2. CASE k \in 1 .. n /\ u = w
      <4>1. frames # <<>> /\ n \in 1 .. n /\ f(n) \in onstk /\ f(k) \in onstk
        BY <1>2, <3>2
      <4>2. k = n \/ k < n
        BY <1>2, <3>2
      <4>3. idx[f(k)] <= idx[f(n)]
        <5>1. f(n) \in Nodes /\ idx[f(n)] \in Int /\ idx[f(k)] \in Int
          BY <1>1, <1>4, <4>1
        <5>2. CASE k = n
          BY <5>1, <5>2
        <5>3. CASE k < n
          <6>1. idx[f(k)] < idx[f(n)]
            BY <1>2, <3>2, <4>1, <5>3 DEF FramesInv
          <6> QED
            BY <5>1, <6>1
        <5> QED
          BY <4>2, <5>2, <5>3
      <4>4. f(n) \in Reach(f(k))
        BY <1>2, <3>2, <4>1, <4>3 DEF FramesReach
      <4>5. w \in Reach(f(n))
        BY <4>1
      <4> QED
        BY <1>1, <1>2, <3>2, <4>1, <4>4, <4>5, ReachTrans
    <3>3. CASE k = n + 1
      <4>1. u = w
        BY <1>1, <1>2, <1>4, <2>1, <3>3
      <4> QED
        BY <4>1, <1>2, <3>3, ReachRefl
    <3> QED
      BY <1>1, <1>5, <3>1, <3>2, <3>3
  <2> QED
    BY <2>1, <1>3 DEF FramesReach
<1>9. ReachesFrame'
  <2>1. ASSUME NEW u \in onstk'
        PROVE  \E k \in DOMAIN frames' : idx'[frames'[k].v] <= idx'[u] /\ frames'[k].v \in Reach(u)
    <3>1. CASE u = w
      <4>1. n + 1 \in DOMAIN frames' /\ idx'[frames'[n + 1].v] <= idx'[u]
        BY <1>1, <1>2, <1>4, <3>1
      <4>2. frames'[n + 1].v \in Reach(u)
        BY <1>2, <3>1, ReachRefl
      <4> QED
        BY <4>1, <4>2
    <3>2. CASE u \in onstk
      <4>1. PICK k \in DOMAIN frames : idx[f(k)] <= idx[u] /\ f(k) \in Reach(u)
        BY <3>2 DEF ReachesFrame
      <4>2. k \in 1 .. n /\ k \in 1 .. n + 1
        BY <1>2
      <4> QED
        BY <1>1, <1>2, <3>2, <4>1, <4>2
    <3> QED
      BY <1>1, <3>1, <3>2
  <2> QED
    BY <2>1, <1>3 DEF ReachesFrame
<1>10. EdgesSeen'
  <2>1. ASSUME NEW u \in onstk', NEW i \in DOMAIN adj[u]
        PROVE  \/ Pending(u, i)'
               \/ comp[adj[u][i]] # -1
               \/ /\ adj[u][i] \in onstk'
                  /\ \A k \in DOMAIN frames' : Owner(k, u)' => low'[frames'[k].v] <= idx'[adj[u][i]]
    <3>1. CASE u = w
      <4>0. adj[w] \in Seq(Nodes)
        BY DEF TypeOK
      <4>1. i >= 1
        BY <3>1, <4>0
      <4>2. n + 1 \in DOMAIN frames' /\ frames'[n + 1].v = u /\ frames'[n + 1].e <= i
        BY <1>2, <3>1, <4>0, <4>1
      <4> QED
        BY <4>2 DEF Pending
    <3>2. CASE u \in onstk
      <4>1. ASSUME NEW k \in DOMAIN frames', Owner(k, u)'
            PROVE  k \in 1 .. n /\ Owner(k, u) /\ low'[frames'[k].v] = low[f(k)]
        <5>1. idx'[frames'[k].v] <= idx'[u]
          BY <4>1 DEF Owner
        <5>2. k \in 1 .. n
          BY <1>1, <1>2, <1>4, <1>5, <3>2, <5>1
        <5>3. idx[f(k)] <= idx[u]
          BY <1>1, <1>2, <3>2, <5>1, <5>2
        <5>4. ASSUME NEW j \in DOMAIN frames, idx[f(j)] <= idx[u] PROVE j <= k
          <6>1. j \in 1 .. n /\ j \in DOMAIN frames'
            BY <1>2
          <6>2. idx'[frames'[j].v] <= idx'[u]
            BY <1>1, <1>2, <3>2, <5>4, <6>1
          <6> QED
            BY <4>1, <6>1, <6>2 DEF Owner
        <5> QED
          BY <1>1, <1>2, <5>2, <5>3, <5>4 DEF Owner
      <4>2. CASE Pending(u, i) /\ adj[u][i] = w
        <5>1. ASSUME NEW k \in DOMAIN frames', Owner(k, u)' PROVE low'[frames'[k].v] <= idx'[w]
          <6>1. k \in 1 .. n /\ low'[frames'[k].v] = low[f(k)] /\ f(k) \in onstk
            BY <4>1, <5>1, <1>2
          <6>2. low[f(k)] <= idx[f(k)] /\ idx[f(k)] < counter
            BY <6>1, <1>1 DEF Links
          <6> QED
            BY <6>1, <6>2, <1>1, <1>4
        <5> QED
          BY <4>2, <5>1, <1>1
      <4>3. CASE Pending(u, i)'
        BY <4>3
      <4>4. CASE comp[adj[u][i]] # -1
        BY <4>4
      <4>5. CASE /\ adj[u][i] \in onstk
                 /\ \A k \in DOMAIN frames : Owner(k, u) => low[f(k)] <= idx[adj[u][i]]
        <5>1. ASSUME NEW k \in DOMAIN frames', Owner(k, u)'
              PROVE  low'[frames'[k].v] <= idx'[adj[u][i]]
          BY <4>1, <4>5, <5>1, <1>1, <1>2
        <5> QED
          BY <4>5, <5>1, <1>1
      <4> QED
        BY <3>2, <4>2, <4>3, <4>4, <4>5 DEF EdgesSeen
    <3> QED
      BY <1>1, <3>1, <3>2
  <2> QED
    BY <2>1 DEF EdgesSeen
<1> QED
  BY <1>6, <1>7, <1>8, <1>9, <1>10
-----------------------------------------------------------------------------
(* The steps of the walk.                                                  *)

\* What a step that assigns no component leaves of the finished part.
LEMMA NothingFinished ==
  ASSUME ComponentsConnected, ReverseTopological, UNCHANGED <<adj, comp>>
  PROVE  ComponentsConnected' /\ ReverseTopological'
<1>1. \A v : Reach(v)' = Reach(v)
  BY ReachSame
<1> QED
  BY <1>1 DEF ComponentsConnected, ReverseTopological

\* The invariant holds before the first root.
LEMMA InitWalk == Init => WalkInv
<1> SUFFICES ASSUME Init PROVE WalkInv
  OBVIOUS
<1> USE DEF Init
<1>1. TypeOK
  BY GraphAssumption DEF TypeOK, Nodes
<1>2. Numbering
  BY DEF Numbering
<1>3. FramesInv /\ Walking /\ Links /\ FramesReach /\ ReachesFrame /\ EdgesSeen
  BY GraphAssumption DEF FramesInv, Walking, Links, FramesReach, ReachesFrame, EdgesSeen, Nodes
<1>4. ComponentsConnected /\ ReverseTopological
  BY DEF ComponentsConnected, ReverseTopological
<1> QED
  BY <1>1, <1>2, <1>3, <1>4 DEF WalkInv

\* With no frame open nothing is on the stack.
LEMMA NoFrameNoStack ==
  ASSUME ReachesFrame, frames = <<>>
  PROVE  onstk = {}
<1>1. DOMAIN frames = {}
  OBVIOUS
<1> QED
  BY <1>1 DEF ReachesFrame

\* Taking the next root, discovered or not, keeps the invariant.
LEMMA NextRootInv == WalkInv /\ NextRoot => WalkInv'
<1> SUFFICES ASSUME WalkInv, NextRoot PROVE WalkInv'
  OBVIOUS
<1>0. /\ TypeOK /\ Numbering /\ FramesInv /\ Walking /\ Links /\ FramesReach /\ ReachesFrame
      /\ EdgesSeen /\ ComponentsConnected /\ ReverseTopological
  BY DEF WalkInv
<1>1. /\ pc = "roots" /\ root \in Nodes /\ root \in Int /\ N \in Nat /\ frames = <<>>
      /\ UNCHANGED <<adj, comp, ncomp, groupVars>>
  BY <1>0, GraphAssumption DEF NextRoot, TypeOK, Nodes, Walking
<1>2. ComponentsConnected' /\ ReverseTopological'
  BY <1>0, <1>1, NothingFinished
<1>3. CASE idx[root] >= 0
  <2>1. root' = root + 1 /\ UNCHANGED <<pc, idx, low, counter, stk, onstk, frames>>
    BY <1>3 DEF NextRoot
  <2>2. TypeOK'
    BY <1>0, <1>1, <2>1 DEF TypeOK, Nodes
  <2>3. Numbering' /\ FramesInv'
    BY <1>0, <1>1, <2>1 DEF Numbering, FramesInv
  <2>4. Walking'
    <3>1. \A v \in Nodes : v < root' => idx[v] >= 0
      BY <1>0, <1>1, <1>3, <2>1 DEF Walking, Nodes
    <3> QED
      BY <1>1, <2>1, <3>1 DEF Walking
  <2>5. onstk = {} /\ onstk' = {}
    BY <1>0, <1>1, <2>1, NoFrameNoStack
  <2>6. Links' /\ FramesReach' /\ ReachesFrame' /\ EdgesSeen'
    BY <2>5 DEF Links, FramesReach, ReachesFrame, EdgesSeen
  <2> QED
    BY <1>2, <2>2, <2>3, <2>4, <2>6 DEF WalkInv
<1>4. CASE ~ (idx[root] >= 0)
  <2>1. /\ Discover(root) /\ frames' = <<[v |-> root, e |-> 1]>> /\ pc' = "walk" /\ root' = root
    BY <1>4 DEF NextRoot
  <2>2. idx[root] < 0
    BY <1>0, <1>1, <1>4 DEF TypeOK
  <2>3. /\ idx' \in [Nodes -> Int] /\ low' \in [Nodes -> Int] /\ counter' \in Nat
        /\ stk' \in Seq(Nodes) /\ onstk' \in SUBSET Nodes
        /\ \A v \in Nodes : v # root => idx'[v] = idx[v]
        /\ idx'[root] = counter
        /\ Numbering'
    BY <1>0, <1>1, <2>1, <2>2, Discovered
  <2>4. TypeOK'
    <3>1. frames' \in Seq([v : Nodes, e : Nat \ {0}])
      BY <1>1, <2>1
    <3> QED
      BY <1>0, <1>1, <2>1, <2>3, <3>1 DEF TypeOK
  <2>5. Walking'
    <3>1. idx'[root] >= 0
      BY <1>0, <2>3 DEF TypeOK
    <3>2. \A v \in Nodes : v < root' => idx'[v] >= 0
      BY <1>0, <1>1, <2>1, <2>3 DEF Walking
    <3> QED
      BY <1>0, <1>1, <2>1, <3>1, <3>2 DEF Walking, NextRoot
  <2>6. onstk = {}
    BY <1>0, <1>1, NoFrameNoStack
  <2>7. /\ DOMAIN frames = 1 .. Len(frames) /\ Len(frames) \in Nat /\ Len(frames) = 0
        /\ DOMAIN frames' = 1 .. Len(frames) + 1
        /\ frames'[Len(frames) + 1] = [v |-> root, e |-> 1]
        /\ \A k \in DOMAIN frames : frames'[k].v = frames[k].v
    BY <1>1, <2>1
  <2>8. FramesInv' /\ Links' /\ FramesReach' /\ ReachesFrame' /\ EdgesSeen'
    BY <1>0, <1>1, <2>1, <2>2, <2>6, <2>7, Opened
  <2> QED
    BY <1>2, <2>3, <2>4, <2>5, <2>8 DEF WalkInv
<1> QED
  BY <1>3, <1>4

\* The top frame of a walk.
LEMMA TopFrame ==
  ASSUME TypeOK, FramesInv, frames # <<>>
  PROVE  /\ DOMAIN frames = 1 .. Len(frames) /\ Len(frames) \in Nat \ {0}
         /\ Len(frames) \in DOMAIN frames
         /\ top.v \in onstk /\ top.v \in Nodes /\ top.e \in Nat \ {0}
         /\ \A k \in DOMAIN frames : frames[k] \in [v : Nodes, e : Nat \ {0}]
<1>1. DOMAIN frames = 1 .. Len(frames) /\ Len(frames) \in Nat \ {0}
  BY DEF TypeOK
<1>2. \A k \in DOMAIN frames : frames[k] \in [v : Nodes, e : Nat \ {0}]
  <2> DEFINE F == [v : Nodes, e : Nat \ {0}]
  <2>1. frames \in Seq(F)
    BY DEF TypeOK
  <2> HIDE DEF F
  <2>2. \A k \in DOMAIN frames : frames[k] \in F
    BY <2>1
  <2> QED
    BY <2>2 DEF F
<1> QED
  BY <1>1, <1>2 DEF FramesInv, top

\* frame_e[fp]++ changes the next edge of the top frame, and nothing else.
LEMMA Advanced ==
  ASSUME TypeOK, FramesInv, frames # <<>>
  PROVE  /\ Advance \in Seq([v : Nodes, e : Nat \ {0}]) /\ Len(Advance) = Len(frames)
         /\ \A k \in DOMAIN frames :
              /\ Advance[k].v = frames[k].v
              /\ Advance[k].e = IF k = Len(frames) THEN frames[k].e + 1 ELSE frames[k].e
<1> DEFINE n == Len(frames)  F == [v : Nodes, e : Nat \ {0}]
<1>1. /\ n \in DOMAIN frames /\ DOMAIN frames = 1 .. n /\ n \in Nat \ {0}
      /\ \A k \in DOMAIN frames : frames[k] \in F
  BY TopFrame
<1>2. Advance = [k \in 1 .. n |-> IF k = n THEN [frames[n] EXCEPT !.e = @ + 1] ELSE frames[k]]
  BY <1>1 DEF Advance, TypeOK
<1>3. [frames[n] EXCEPT !.e = @ + 1] \in F
  BY <1>1
<1>4. [frames[n] EXCEPT !.e = @ + 1].v = frames[n].v /\ [frames[n] EXCEPT !.e = @ + 1].e = frames[n].e + 1
  BY <1>1
<1>5. \A k \in 1 .. n : Advance[k] \in F
  BY <1>1, <1>2, <1>3
<1>6. Advance \in Seq(F) /\ Len(Advance) = n
  BY <1>1, <1>2, <1>5
<1> QED
  BY <1>1, <1>2, <1>4, <1>6
\* An edge to a node not yet seen opens a frame for it.
LEMMA TreeEdgeInv ==
  ASSUME WalkInv, TakeEdge, idx[adj[top.v][top.e]] < 0
  PROVE  WalkInv'
<1> DEFINE v == top.v  w == adj[v][top.e]  n == Len(frames)  F == [v : Nodes, e : Nat \ {0}]
<1>0. /\ TypeOK /\ Numbering /\ FramesInv /\ Walking /\ Links /\ FramesReach /\ ReachesFrame
      /\ EdgesSeen /\ ComponentsConnected /\ ReverseTopological
  BY DEF WalkInv
<1>1. /\ pc = "walk" /\ frames # <<>> /\ top.e <= Len(adj[v])
      /\ Discover(w) /\ frames' = Append(Advance, [v |-> w, e |-> 1])
      /\ UNCHANGED <<adj, pc, root, comp, ncomp>>
  BY DEF TakeEdge
<1>2. /\ DOMAIN frames = 1 .. n /\ n \in Nat \ {0} /\ n \in DOMAIN frames
      /\ v \in onstk /\ v \in Nodes /\ top.e \in Nat \ {0} /\ top = frames[n]
      /\ \A k \in DOMAIN frames : frames[k].e \in Nat
  BY <1>0, <1>1, TopFrame DEF top
<1>3. top.e \in DOMAIN adj[v] /\ w \in Nodes
  <2>1. adj[v] \in Seq(Nodes)
    BY <1>0, <1>2 DEF TypeOK
  <2> QED
    BY <2>1, <1>1, <1>2
<1>4. w \in Reach(v)
  BY <1>2, <1>3, ReachEdge
<1>5. /\ Advance \in Seq(F) /\ Len(Advance) = n
      /\ \A k \in DOMAIN frames :
           /\ Advance[k].v = frames[k].v
           /\ Advance[k].e = IF k = n THEN frames[k].e + 1 ELSE frames[k].e
  BY <1>0, <1>1, Advanced
<1>6. /\ idx' \in [Nodes -> Int] /\ low' \in [Nodes -> Int] /\ counter' \in Nat
      /\ stk' \in Seq(Nodes) /\ onstk' \in SUBSET Nodes
      /\ \A x \in Nodes : x # w => idx'[x] = idx[x]
      /\ idx'[w] = counter
      /\ Numbering'
  BY <1>0, <1>1, <1>3, Discovered
<1>7. [v |-> w, e |-> 1] \in F
  BY <1>3
<1>8. /\ frames' \in Seq(F) /\ DOMAIN frames' = 1 .. n + 1
      /\ frames'[n + 1] = [v |-> w, e |-> 1]
      /\ \A k \in 1 .. n : frames'[k] = Advance[k]
  <2> HIDE DEF F, n
  <2> QED
    BY <1>1, <1>2, <1>5, <1>7
<1>9. TypeOK'
  BY <1>0, <1>1, <1>6, <1>8 DEF TypeOK
<1>10. Walking'
  <2>0. counter \in Nat
    BY <1>0 DEF TypeOK
  <2>1. ASSUME NEW x \in Nodes, idx[x] >= 0 PROVE idx'[x] >= 0
    <3>1. CASE x = w
      BY <1>6, <2>0, <3>1
    <3>2. CASE x # w
      BY <1>6, <2>1, <3>2
    <3> QED
      BY <3>1, <3>2
  <2>2. root \in Nodes
    <3>1. root < N /\ root \in 0 .. N /\ N \in Nat
      BY <1>0, <1>1, GraphAssumption DEF Walking, TypeOK
    <3> QED
      BY <3>1 DEF Nodes
  <2> QED
    BY <1>0, <1>1, <2>1, <2>2 DEF Walking
<1>11. ASSUME NEW u \in onstk, NEW i \in DOMAIN adj[u], Pending(u, i)
       PROVE  Pending(u, i)' \/ adj[u][i] = w
  <2>1. PICK k \in DOMAIN frames : frames[k].v = u /\ frames[k].e <= i
    BY <1>11 DEF Pending
  <2>2. k \in DOMAIN frames' /\ frames'[k].v = u
    BY SMTT(30), <1>2, <1>5, <1>8, <2>1
  <2>3. CASE k = n /\ frames[k].e = i
    BY <1>2, <2>1, <2>3
  <2>4. CASE ~ (k = n /\ frames[k].e = i)
    <3>1. i \in Int
      <4>1. adj[u] \in Seq(Nodes)
        BY <1>0 DEF TypeOK
      <4> QED
        BY <4>1
    <3>2. frames'[k].e <= i
      <4>1. frames'[k].e = IF k = n THEN frames[k].e + 1 ELSE frames[k].e
        BY <1>2, <1>5, <1>8
      <4>2. frames[k].e \in Nat /\ (k = n => frames[k].e # i)
        BY <1>2, <2>4
      <4> QED
        BY <2>1, <3>1, <4>1, <4>2
    <3> QED
      BY <2>2, <3>2 DEF Pending
  <2> QED
    BY <2>3, <2>4
<1>12. FramesInv' /\ Links' /\ FramesReach' /\ ReachesFrame' /\ EdgesSeen'
  <2>1. /\ DOMAIN frames = 1 .. Len(frames) /\ Len(frames) \in Nat
        /\ DOMAIN frames' = 1 .. Len(frames) + 1
        /\ frames'[Len(frames) + 1] = [v |-> w, e |-> 1]
        /\ \A k \in DOMAIN frames : frames'[k].v = frames[k].v
        /\ w \in Reach(frames[Len(frames)].v)
    BY <1>2, <1>4, <1>5, <1>8
  <2>2. \A u \in onstk : \A i \in DOMAIN adj[u] : Pending(u, i) => Pending(u, i)' \/ adj[u][i] = w
    BY <1>11
  <2> HIDE DEF w
  <2>3. idx[w] < 0
    BY DEF w
  <2> QED
    BY <1>0, <1>1, <1>3, <2>1, <2>2, <2>3, Opened
<1>13. ComponentsConnected' /\ ReverseTopological'
  BY <1>0, <1>1, NothingFinished
<1> QED
  BY <1>6, <1>9, <1>10, <1>12, <1>13 DEF WalkInv

\* An edge to a node seen before may lower the link of the top frame.
LEMMA OtherEdgeInv ==
  ASSUME WalkInv, TakeEdge, ~ (idx[adj[top.v][top.e]] < 0)
  PROVE  WalkInv'
<1> DEFINE v == top.v  w == adj[v][top.e]  n == Len(frames)  F == [v : Nodes, e : Nat \ {0}]
<1>0. /\ TypeOK /\ Numbering /\ FramesInv /\ Walking /\ Links /\ FramesReach /\ ReachesFrame
      /\ EdgesSeen /\ ComponentsConnected /\ ReverseTopological
  BY DEF WalkInv
<1>1. /\ pc = "walk" /\ frames # <<>> /\ top.e <= Len(adj[v]) /\ frames' = Advance
      /\ low' = IF LowersLink(w, v) THEN [low EXCEPT ![v] = idx[w]] ELSE low
      /\ UNCHANGED <<adj, pc, root, idx, counter, stk, onstk, comp, ncomp>>
  BY DEF TakeEdge
<1>2. /\ DOMAIN frames = 1 .. n /\ n \in Nat \ {0} /\ n \in DOMAIN frames
      /\ v \in onstk /\ v \in Nodes /\ top.e \in Nat \ {0} /\ top = frames[n]
      /\ \A k \in DOMAIN frames : frames[k].e \in Nat /\ frames[k].v \in Nodes
  BY <1>0, <1>1, TopFrame DEF top
<1>3. top.e \in DOMAIN adj[v] /\ w \in Nodes
  <2>1. adj[v] \in Seq(Nodes)
    BY <1>0, <1>2 DEF TypeOK
  <2> QED
    BY <2>1, <1>1, <1>2
<1>4. w \in Reach(v)
  BY <1>2, <1>3, ReachEdge
<1>5. /\ frames' \in Seq(F) /\ DOMAIN frames' = 1 .. n
      /\ \A k \in DOMAIN frames :
           /\ frames'[k].v = frames[k].v
           /\ frames'[k].e = IF k = n THEN frames[k].e + 1 ELSE frames[k].e
  <2>1. /\ Advance \in Seq(F) /\ Len(Advance) = n
        /\ \A k \in DOMAIN frames :
           /\ Advance[k].v = frames[k].v
           /\ Advance[k].e = IF k = n THEN frames[k].e + 1 ELSE frames[k].e
    BY <1>0, <1>1, Advanced
  <2> HIDE DEF F
  <2> QED
    BY <1>1, <2>1
<1>6. idx \in [Nodes -> Int] /\ low \in [Nodes -> Int] /\ onstk \in SUBSET Nodes
  BY <1>0 DEF TypeOK
<1>7. /\ low' \in [Nodes -> Int]
      /\ \A x \in Nodes : low'[x] <= low[x] /\ (x # v => low'[x] = low[x])
      /\ w \in onstk => low'[v] <= idx[w]
      /\ low'[v] = low[v] \/ (w \in onstk /\ low'[v] = idx[w])
  <2>1. CASE LowersLink(w, v)
    <3>1. low' = [low EXCEPT ![v] = idx[w]]
      BY <1>1, <2>1
    <3>2. w \in onstk /\ idx[w] < low[v] /\ idx[w] \in Int /\ low[v] \in Int
      BY <1>2, <1>3, <1>6, <2>1 DEF LowersLink
    <3> HIDE DEF v, w
    <3>3. v \in Nodes /\ low \in [Nodes -> Int]
      BY <1>2, <1>6
    <3>4. low'[v] = idx[w] /\ low' \in [Nodes -> Int] /\ \A x \in Nodes : x # v => low'[x] = low[x]
      BY <3>1, <3>2, <3>3
    <3>5. \A x \in Nodes : low'[x] <= low[x]
      BY <3>2, <3>3, <3>4
    <3> QED
      BY <3>2, <3>3, <3>4, <3>5
  <2>2. CASE ~ LowersLink(w, v)
    <3>1. low' = low
      BY <1>1, <2>2
    <3>2. idx[w] \in Int /\ low[v] \in Int
      BY <1>2, <1>3, <1>6
    <3>3. w \in onstk => low[v] <= idx[w]
      BY <2>2, <3>2 DEF LowersLink
    <3> QED
      BY <1>6, <3>1, <3>3
  <2> QED
    BY <2>1, <2>2
<1>8. TypeOK' /\ Numbering' /\ Walking'
  <2>1. TypeOK'
    BY <1>0, <1>1, <1>5, <1>7 DEF TypeOK
  <2>2. Numbering'
    BY <1>0, <1>1 DEF Numbering
  <2>3. Walking'
    BY <1>0, <1>1 DEF Walking
  <2> QED
    BY <2>1, <2>2, <2>3
<1>9. \A x : Reach(x)' = Reach(x)
  BY <1>1, ReachSame
<1>10. FramesInv'
  BY SMTT(30), <1>0, <1>1, <1>2, <1>5 DEF FramesInv
<1>11. Links'
  <2>1. ASSUME NEW x \in onstk
        PROVE  low'[x] <= idx[x] /\ \E y \in onstk : low'[x] = idx[y] /\ y \in Reach(x)
    <3>1. low[x] <= idx[x] /\ \E y \in onstk : low[x] = idx[y] /\ y \in Reach(x)
      BY <1>0 DEF Links
    <3>2. x \in Nodes
      BY <1>6
    <3>3. low'[x] <= idx[x]
      BY <1>6, <1>7, <3>1, <3>2
    <3>4. CASE low'[x] = low[x]
      BY <3>1, <3>3, <3>4
    <3>5. CASE low'[x] # low[x]
      BY <1>4, <1>7, <3>2, <3>3, <3>5
    <3> QED
      BY <3>4, <3>5
  <2> QED
    BY <2>1, <1>1, <1>9 DEF Links
<1>12. FramesReach' /\ ReachesFrame'
  BY <1>0, <1>1, <1>2, <1>5, <1>9 DEF FramesReach, ReachesFrame
<1>13. EdgesSeen'
  <2>1. \A k, u : Owner(k, u)' <=> Owner(k, u)
    BY <1>1, <1>2, <1>5 DEF Owner
  <2>2. ASSUME NEW u \in onstk, NEW i \in DOMAIN adj[u]
        PROVE  \/ Pending(u, i)'
               \/ comp[adj[u][i]] # -1
               \/ /\ adj[u][i] \in onstk
                  /\ \A k \in DOMAIN frames : Owner(k, u) => low'[frames[k].v] <= idx[adj[u][i]]
    <3>1. CASE Pending(u, i)
      <4>1. PICK k \in DOMAIN frames : frames[k].v = u /\ frames[k].e <= i
        BY <3>1 DEF Pending
      <4>2. CASE k = n /\ frames[k].e = i
        <5>1. u = v /\ adj[u][i] = w
          BY <1>2, <4>1, <4>2
        <5>2. CASE w \in onstk
          <6>1. ASSUME NEW j \in DOMAIN frames, Owner(j, u) PROVE frames[j].v = v
            <7>0. frames[n].v = u /\ idx[u] \in Int
              BY <1>2, <1>6, <5>1
            <7>1. n <= j /\ j <= n
              BY <1>2, <6>1, <7>0 DEF Owner
            <7> QED
              BY <7>1, <1>2
          <6> QED
            BY <1>7, <5>1, <5>2, <6>1
        <5>3. CASE w \notin onstk
          <6>1. idx[w] >= 0
            BY <1>3, <1>6
          <6> QED
            BY <1>0, <1>3, <5>1, <5>3, <6>1 DEF Numbering
        <5> QED
          BY <5>2, <5>3
      <4>3. CASE ~ (k = n /\ frames[k].e = i)
        <5>1. i \in Int
          <6>1. adj[u] \in Seq(Nodes)
            BY <1>0 DEF TypeOK
          <6> QED
            BY <6>1
        <5>2. k \in DOMAIN frames' /\ frames'[k].v = u /\ frames'[k].e <= i
          BY <1>2, <1>5, <4>1, <4>3, <5>1
        <5> QED
          BY <5>2 DEF Pending
      <4> QED
        BY <4>2, <4>3
    <3>2. CASE comp[adj[u][i]] # -1
      BY <3>2
    <3>3. CASE /\ adj[u][i] \in onstk
               /\ \A k \in DOMAIN frames : Owner(k, u) => low[frames[k].v] <= idx[adj[u][i]]
      <4>1. ASSUME NEW k \in DOMAIN frames, Owner(k, u)
            PROVE  low'[frames[k].v] <= idx[adj[u][i]]
        <5>1. low[frames[k].v] <= idx[adj[u][i]] /\ low'[frames[k].v] <= low[frames[k].v]
          BY <1>2, <1>7, <3>3, <4>1
        <5>2. low[frames[k].v] \in Int /\ low'[frames[k].v] \in Int /\ idx[adj[u][i]] \in Int
          BY <1>2, <1>6, <1>7, <3>3
        <5> QED
          BY <5>1, <5>2
      <4> QED
        BY <3>3, <4>1
    <3> QED
      BY <1>0, <3>1, <3>2, <3>3 DEF EdgesSeen
  <2>3. DOMAIN frames' = DOMAIN frames /\ \A k \in DOMAIN frames : frames'[k].v = frames[k].v
    BY <1>2, <1>5
  <2> QED
    BY <2>1, <2>2, <2>3, <1>1 DEF EdgesSeen
<1>14. ComponentsConnected' /\ ReverseTopological'
  BY <1>0, <1>1, NothingFinished
<1> QED
  BY <1>8, <1>10, <1>11, <1>12, <1>13, <1>14 DEF WalkInv
\* What the n-th and last frame, of node v, leaves behind when it runs out of
\* edges, component or not; b is the node of the frame below, if there is one.
ClosesAt(v, n, b) ==
  /\ DOMAIN frames = 1 .. n /\ n \in Nat \ {0} /\ n \in 1 .. n /\ frames # <<>>
  /\ v = frames[n].v /\ v \in onstk /\ v \in Nodes /\ frames[n].e > Len(adj[v])
  /\ \A k \in 1 .. n : frames[k].v \in onstk /\ frames[k].v \in Nodes /\ frames[k].e \in Nat
  /\ \A k \in 1 .. n : k # n => idx[frames[k].v] < idx[v]
  /\ frames' \in Seq([v : Nodes, e : Nat \ {0}])
  /\ DOMAIN frames' = 1 .. n - 1 /\ \A k \in 1 .. n - 1 : frames'[k] = frames[k] /\ k \in 1 .. n
  /\ low' \in [Nodes -> Int] /\ \A x \in Nodes : low'[x] <= low[x]
  /\ n > 1 => b = frames[n - 1].v /\ low'[b] <= low[v]
  /\ \A x \in Nodes : low'[x] = low[x] \/ (n > 1 /\ x = b /\ low'[x] = low[v] /\ low[v] < low[b])

\* Closing the top frame is such a close.
LEMMA Closing ==
  ASSUME WalkInv, CloseFrame
  PROVE  ClosesAt(top.v, Len(frames), frames[Len(frames) - 1].v)
<1> DEFINE v == top.v  n == Len(frames)  b == frames[n - 1].v  F == [v : Nodes, e : Nat \ {0}]
<1> SUFFICES ClosesAt(v, n, b)
  OBVIOUS
<1>0. TypeOK /\ FramesInv /\ frames # <<>> /\ top.e > Len(adj[v]) /\ frames' = pop(frames)
      /\ low' = Inherit(v, pop(frames))
  BY DEF WalkInv, CloseFrame
<1>1. /\ DOMAIN frames = 1 .. n /\ n \in Nat \ {0} /\ n \in DOMAIN frames
      /\ v = frames[n].v /\ v \in onstk /\ v \in Nodes /\ frames[n].e > Len(adj[v])
      /\ \A k \in 1 .. n : frames[k].v \in Nodes /\ frames[k].e \in Nat
  BY <1>0, TopFrame DEF top
<1>2. \A k \in 1 .. n : frames[k].v \in onstk
  BY <1>0, <1>1 DEF FramesInv
<1>3. ASSUME NEW k \in 1 .. n, k # n PROVE idx[frames[k].v] < idx[v]
  <2>1. k < n
    BY <1>1, <1>3
  <2> QED
    BY <2>1, <1>0, <1>1 DEF FramesInv
<1>4. /\ frames' \in Seq(F) /\ DOMAIN frames' = 1 .. n - 1 /\ Len(pop(frames)) = n - 1
      /\ \A k \in 1 .. n - 1 : frames'[k] = frames[k]
      /\ pop(frames) # <<>> <=> n > 1
  <2>1. frames \in Seq(F)
    BY <1>0 DEF TypeOK
  <2> HIDE DEF F
  <2>2. n - 1 \in Nat /\ n - 1 <= Len(frames)
    BY <1>1
  <2> DEFINE m == n - 1
  <2>3. frames' = SubSeq(frames, 1, m) /\ pop(frames) = frames'
    BY <1>0 DEF pop
  <2> HIDE DEF m, n
  <2>4. m \in Nat /\ m <= Len(frames)
    BY <2>2 DEF m
  <2>5. SubSeq(frames, 1, m) \in Seq(F) /\ Len(SubSeq(frames, 1, m)) = m
    BY <2>1, <2>4
  <2>6. \A k \in 1 .. m : SubSeq(frames, 1, m)[k] = frames[k]
    BY <2>1, <2>4
  <2>7. DOMAIN SubSeq(frames, 1, m) = 1 .. m
    BY <2>5
  <2>8. SubSeq(frames, 1, m) # <<>> <=> m > 0
    BY <2>4, <2>5
  <2>9. m > 0 <=> n > 1
    BY <1>1 DEF m
  <2> QED
    BY <2>3, <2>5, <2>6, <2>7, <2>8, <2>9 DEF m
<1>41. \A k \in 1 .. n - 1 : k \in 1 .. n
  BY <1>1
<1>42. n \in 1 .. n
  BY <1>1
<1>5. low \in [Nodes -> Int]
  BY <1>0 DEF TypeOK
<1>6. CASE n > 1 /\ low[v] < low[b]
  <2>1. n - 1 \in 1 .. n - 1 /\ n - 1 \in 1 .. n
    BY <1>1, <1>6
  <2>2. pop(frames)[Len(pop(frames))].v = b /\ b \in Nodes
    BY <2>1, <1>0, <1>1, <1>4
  <2>3. low' = [low EXCEPT ![b] = low[v]]
    BY <2>2, <1>0, <1>4, <1>6 DEF Inherit
  <2>4. /\ low' \in [Nodes -> Int] /\ \A x \in Nodes : low'[x] <= low[x]
        /\ low'[b] = low[v] /\ low[v] \in Int /\ \A x \in Nodes : x # b => low'[x] = low[x]
    BY <2>2, <2>3, <1>1, <1>5, <1>6
  <2> QED
    <3>1. n > 1 => b = frames[n - 1].v /\ low'[b] <= low[v]
      BY <2>4
    <3>2. \A x \in Nodes : low'[x] = low[x] \/ (n > 1 /\ x = b /\ low'[x] = low[v] /\ low[v] < low[b])
      BY <2>4, <1>6
    <3> HIDE DEF n, v, b
    <3> QED
      BY <2>4, <3>1, <3>2, <1>0, <1>1, <1>2, <1>3, <1>4, <1>41, <1>42 DEF ClosesAt
<1>7. CASE ~ (n > 1 /\ low[v] < low[b])
  <2>1. low' = low
    <3>1. CASE n > 1
      <4>1. n - 1 \in 1 .. n - 1
        BY <1>1, <3>1
      <4>2. pop(frames)[Len(pop(frames))].v = b
        BY <4>1, <1>0, <1>4
      <4> QED
        BY <4>2, <3>1, <1>0, <1>7 DEF Inherit
    <3>2. CASE ~ (n > 1)
      BY <3>2, <1>0, <1>4 DEF Inherit
    <3> QED
      BY <3>1, <3>2
  <2>2. n > 1 => low[b] <= low[v]
    <3>1. SUFFICES ASSUME n > 1 PROVE low[b] <= low[v]
      OBVIOUS
    <3>2. n - 1 \in 1 .. n
      BY <1>1, <3>1
    <3>3. low[b] \in Int /\ low[v] \in Int
      BY <3>2, <1>1, <1>5
    <3> QED
      BY <3>1, <3>3, <1>7
  <2>3. \A x \in Nodes : low'[x] <= low[x]
    BY <2>1, <1>5
  <2> QED
    <3>1. n > 1 => b = frames[n - 1].v
      OBVIOUS
    <3> HIDE DEF n, v, b
    <3> QED
      BY <2>1, <2>2, <2>3, <3>1, <1>0, <1>1, <1>2, <1>3, <1>4, <1>41, <1>42, <1>5 DEF ClosesAt
<1> QED
  BY <1>6, <1>7

\* A frame that closes no component leaves its nodes to the frame below.
LEMMA InnerCloseInv ==
  ASSUME WalkInv, CloseFrame, low[top.v] # idx[top.v]
  PROVE  WalkInv'
<1> DEFINE v == top.v  n == Len(frames)  b == frames[n - 1].v
<1>0. /\ TypeOK /\ Numbering /\ FramesInv /\ Walking /\ Links /\ FramesReach /\ ReachesFrame
      /\ EdgesSeen /\ ComponentsConnected /\ ReverseTopological
  BY DEF WalkInv
<1>1. /\ pc = "walk" /\ UNCHANGED <<adj, pc, root, idx, counter, stk, onstk, comp, ncomp>>
  BY DEF CloseFrame
<1>21. ClosesAt(v, n, b)
  BY Closing
<1> HIDE DEF n, v, b
<1>2. /\ DOMAIN frames = 1 .. n /\ n \in Nat \ {0} /\ n \in 1 .. n
      /\ v = frames[n].v /\ v \in onstk /\ v \in Nodes /\ frames[n].e > Len(adj[v])
      /\ \A k \in 1 .. n : frames[k].v \in onstk /\ frames[k].v \in Nodes /\ frames[k].e \in Nat
      /\ \A k \in 1 .. n : k # n => idx[frames[k].v] < idx[v]
  BY <1>21 DEF ClosesAt
<1>3. /\ frames' \in Seq([v : Nodes, e : Nat \ {0}])
      /\ DOMAIN frames' = 1 .. n - 1 /\ \A k \in 1 .. n - 1 : frames'[k] = frames[k] /\ k \in 1 .. n
      /\ low' \in [Nodes -> Int] /\ \A x \in Nodes : low'[x] <= low[x]
      /\ n > 1 => b = frames[n - 1].v /\ low'[b] <= low[v]
      /\ \A x \in Nodes : low'[x] = low[x] \/ (n > 1 /\ x = b /\ low'[x] = low[v] /\ low[v] < low[b])
  BY <1>21 DEF ClosesAt
<1>4. idx \in [Nodes -> Int] /\ low \in [Nodes -> Int] /\ onstk \in SUBSET Nodes
  BY <1>0 DEF TypeOK
<1>5. PICK x0 \in onstk : low[v] = idx[x0] /\ x0 \in Reach(v)
  BY <1>0, <1>2 DEF Links
<1>6. idx[x0] < idx[v]
  <2>1. low[v] <= idx[v] /\ low[v] # idx[v]
    BY <1>0, <1>2 DEF Links, v
  <2> QED
    BY <2>1, <1>2, <1>4, <1>5
<1>7. PICK k0 \in 1 .. n - 1 : idx[frames[k0].v] <= idx[x0] /\ frames[k0].v \in Reach(x0)
  <2>1. PICK k \in DOMAIN frames : idx[frames[k].v] <= idx[x0] /\ frames[k].v \in Reach(x0)
    BY <1>0 DEF ReachesFrame
  <2>2. k # n
    BY <2>1, <1>2, <1>4, <1>6
  <2>3. k \in 1 .. n - 1
    BY <2>1, <2>2, <1>2
  <2> QED
    BY <2>1, <2>3
<1>8. n > 1 /\ n - 1 \in 1 .. n - 1
  BY <1>2, <1>7
<1>9. b = frames[n - 1].v /\ b \in onstk /\ b \in Nodes /\ idx[b] < idx[v]
  <2>1. n - 1 \in 1 .. n /\ n - 1 # n
    BY <1>2, <1>8
  <2> QED
    BY <2>1, <1>2, <1>3, <1>8
<1>10. \A x : Reach(x)' = Reach(x)
  BY <1>1, ReachSame
<1>11. TypeOK' /\ Numbering' /\ Walking'
  <2>1. TypeOK'
    BY <1>0, <1>1, <1>3 DEF TypeOK
  <2>2. Numbering'
    BY <1>0, <1>1 DEF Numbering
  <2>3. Walking'
    BY <1>0, <1>1 DEF Walking
  <2> QED
    BY <2>1, <2>2, <2>3
<1>12. FramesInv'
  BY <1>0, <1>1, <1>2, <1>3 DEF FramesInv
<1>13. FramesReach'
  BY <1>0, <1>1, <1>2, <1>3, <1>10 DEF FramesReach
<1>14. ReachesFrame'
  <2>1. ASSUME NEW u \in onstk
        PROVE  \E k \in 1 .. n - 1 : idx[frames[k].v] <= idx[u] /\ frames[k].v \in Reach(u)
    <3>1. PICK k \in 1 .. n : idx[frames[k].v] <= idx[u] /\ frames[k].v \in Reach(u)
      BY <1>0, <1>2 DEF ReachesFrame
    <3>2. CASE k = n
      <4>1. frames[k0].v \in Nodes /\ u \in Nodes /\ x0 \in Nodes
        BY <1>2, <1>3, <1>4
      <4>2. idx[frames[k0].v] <= idx[u]
        BY <4>1, <1>2, <1>4, <1>6, <1>7, <3>1, <3>2
      <4>3. x0 \in Reach(u)
        BY <4>1, <1>2, <1>5, <3>1, <3>2, ReachTrans
      <4>4. frames[k0].v \in Reach(u)
        BY <4>1, <4>3, <1>7, ReachTrans
      <4> QED
        BY <4>2, <4>4
    <3>3. CASE k # n
      <4>1. k \in 1 .. n - 1
        BY <1>2, <3>3
      <4> QED
        BY <4>1, <3>1
    <3> QED
      BY <3>2, <3>3
  <2> QED
    BY <2>1, <1>1, <1>3, <1>10 DEF ReachesFrame
<1>15. Links'
  <2>1. ASSUME NEW x \in onstk
        PROVE  low'[x] <= idx[x] /\ \E y \in onstk : low'[x] = idx[y] /\ y \in Reach(x)
    <3>1. low[x] <= idx[x] /\ \E y \in onstk : low[x] = idx[y] /\ y \in Reach(x)
      BY <1>0 DEF Links
    <3>2. x \in Nodes /\ idx[x] \in Int /\ low[x] \in Int /\ low'[x] \in Int
      BY <1>3, <1>4
    <3>3. low'[x] <= idx[x]
      BY <1>3, <3>1, <3>2
    <3>4. CASE low'[x] = low[x]
      BY <3>1, <3>3, <3>4
    <3>5. CASE x = b /\ low'[x] = low[v]
      <4>1. v \in Reach(b)
        <5>1. idx[frames[n - 1].v] <= idx[v] /\ n - 1 \in DOMAIN frames
          <6>1. n - 1 \in 1 .. n /\ idx[b] \in Int /\ idx[v] \in Int
            BY <1>2, <1>4, <1>8, <1>9
          <6> QED
            BY <6>1, <1>2, <1>9
        <5> QED
          BY <5>1, <1>0, <1>2, <1>9 DEF FramesReach
      <4>2. x0 \in Reach(b)
        BY <4>1, <1>5, <1>9, ReachTrans
      <4> QED
        BY <4>2, <1>5, <3>3, <3>5
    <3> QED
      BY <1>3, <3>2, <3>4, <3>5
  <2> QED
    BY <2>1, <1>1, <1>10 DEF Links
<1>16. EdgesSeen'
  <2>1. ASSUME NEW u \in onstk, NEW i \in DOMAIN adj[u]
        PROVE  \/ Pending(u, i)'
               \/ comp[adj[u][i]] # -1
               \/ /\ adj[u][i] \in onstk
                  /\ \A k \in 1 .. n - 1 : Owner(k, u)' => low'[frames[k].v] <= idx[adj[u][i]]
    <3>0. i \in 1 .. Len(adj[u]) /\ Len(adj[u]) \in Nat /\ u \in Nodes /\ adj[u][i] \in Nodes
      <4>1. adj[u] \in Seq(Nodes) /\ u \in Nodes
        BY <1>0, <1>4 DEF TypeOK
      <4> QED
        BY <4>1
    <3>1. CASE Pending(u, i)
      <4>1. PICK k \in 1 .. n : frames[k].v = u /\ frames[k].e <= i
        BY <1>2, <3>1 DEF Pending
      <4>2. k # n
        BY <1>2, <3>0, <4>1
      <4>3. k \in 1 .. n - 1
        BY <1>2, <4>2
      <4>4. k \in DOMAIN frames' /\ frames'[k].v = u /\ frames'[k].e <= i
        BY <1>3, <4>1, <4>3
      <4> QED
        BY <4>4 DEF Pending
    <3>2. CASE comp[adj[u][i]] # -1
      BY <3>2
    <3>3. CASE /\ adj[u][i] \in onstk
               /\ \A k \in DOMAIN frames : Owner(k, u) => low[frames[k].v] <= idx[adj[u][i]]
      <4>1. ASSUME NEW k \in 1 .. n - 1, Owner(k, u)'
            PROVE  low'[frames[k].v] <= idx[adj[u][i]]
        <5>0. /\ frames[k].v \in Nodes /\ idx[frames[k].v] <= idx[u] /\ k \in 1 .. n
              /\ \A j \in 1 .. n - 1 : idx[frames[j].v] <= idx[u] => j <= k
          BY <1>1, <1>2, <1>3, <4>1 DEF Owner
        <5>1. CASE idx[v] <= idx[u]
          <6>1. Owner(n, u)
            BY <1>2, <5>1 DEF Owner
          <6>2. low[v] <= idx[adj[u][i]]
            BY <6>1, <1>2, <3>3
          <6>3. idx[frames[n - 1].v] <= idx[u]
            BY SMTT(30), <1>4, <1>9, <3>0, <5>1, <1>2
          <6>4. k = n - 1
            BY <6>3, <5>0, <1>8, <1>2
          <6>5. low'[frames[k].v] <= low[v]
            BY <6>4, <1>3, <1>8, <1>9
          <6>6. low'[frames[k].v] \in Int /\ low[v] \in Int /\ idx[adj[u][i]] \in Int
            BY <5>0, <3>0, <1>2, <1>3, <1>4
          <6> QED
            BY <6>2, <6>5, <6>6
        <5>2. CASE ~ (idx[v] <= idx[u])
          <6>1. ASSUME NEW j \in 1 .. n, idx[frames[j].v] <= idx[u] PROVE j <= k
            <7>1. j # n
              BY <6>1, <5>2, <1>2
            <7>2. j \in 1 .. n - 1
              BY <7>1, <1>2
            <7> QED
              BY <7>2, <6>1, <5>0
          <6>2. Owner(k, u)
            BY <6>1, <5>0, <1>2 DEF Owner
          <6>3. low[frames[k].v] <= idx[adj[u][i]] /\ low'[frames[k].v] <= low[frames[k].v]
            BY <6>2, <5>0, <1>2, <1>3, <3>3
          <6>4. low'[frames[k].v] \in Int /\ low[frames[k].v] \in Int /\ idx[adj[u][i]] \in Int
            BY <5>0, <3>0, <1>3, <1>4
          <6> QED
            BY <6>3, <6>4
        <5> QED
          BY <5>1, <5>2
      <4> QED
        BY <3>3, <4>1
    <3> QED
      BY <1>0, <3>1, <3>2, <3>3 DEF EdgesSeen
  <2> QED
    BY SMTT(30), <2>1, <1>1, <1>3 DEF EdgesSeen
<1>17. ComponentsConnected' /\ ReverseTopological'
  BY <1>0, <1>1, NothingFinished
<1> QED
  BY <1>11, <1>12, <1>13, <1>14, <1>15, <1>16, <1>17 DEF WalkInv
\* Where a node is on the stack, and what is above it.
LEMMA StackPart ==
  ASSUME TypeOK, Numbering, NEW v \in onstk, NEW cut, cut = CHOOSE i \in DOMAIN stk : stk[i] = v
  PROVE  /\ cut \in DOMAIN stk /\ DOMAIN stk = 1 .. Len(stk) /\ Len(stk) \in Nat
         /\ {stk[i] : i \in cut .. Len(stk)} = {u \in onstk : idx[u] >= idx[v]}
         /\ \A i \in DOMAIN stk : i < cut <=> idx[stk[i]] < idx[v]
<1>1. /\ DOMAIN stk = 1 .. Len(stk) /\ Len(stk) \in Nat /\ onstk = {stk[i] : i \in DOMAIN stk}
      /\ \A i \in DOMAIN stk : stk[i] \in Nodes /\ idx[stk[i]] \in Int
      /\ \A i, j \in DOMAIN stk : i < j => idx[stk[i]] < idx[stk[j]]
  <2>1. stk \in Seq(Nodes) /\ idx \in [Nodes -> Int]
    BY DEF TypeOK
  <2>2. DOMAIN stk = 1 .. Len(stk) /\ Len(stk) \in Nat /\ \A i \in DOMAIN stk : stk[i] \in Nodes
    BY <2>1
  <2>3. \A u \in Nodes : idx[u] \in Int
    BY <2>1
  <2>4. onstk = {stk[i] : i \in DOMAIN stk} /\ \A i, j \in DOMAIN stk : i < j => idx[stk[i]] < idx[stk[j]]
    BY DEF Numbering
  <2> QED
    BY <2>2, <2>3, <2>4
<1>2. cut \in DOMAIN stk /\ stk[cut] = v
  BY <1>1
<1>3. ASSUME NEW i \in DOMAIN stk PROVE i < cut <=> idx[stk[i]] < idx[v]
  <2>1. i \in Int /\ cut \in Int /\ idx[stk[i]] \in Int /\ idx[v] \in Int
    BY <1>1, <1>2
  <2>2. CASE i < cut
    BY <2>2, <1>1, <1>2
  <2>3. CASE i = cut
    BY <2>1, <2>3, <1>2
  <2>4. CASE cut < i
    <3>1. idx[v] < idx[stk[i]]
      BY <2>4, <1>1, <1>2
    <3> QED
      BY <3>1, <2>1, <2>4
  <2> QED
    BY <2>1, <2>2, <2>3, <2>4
<1>4. {stk[i] : i \in cut .. Len(stk)} = {u \in onstk : idx[u] >= idx[v]}
  <2>1. ASSUME NEW i \in cut .. Len(stk) PROVE stk[i] \in onstk /\ idx[stk[i]] >= idx[v]
    <3>1. i \in DOMAIN stk /\ ~ (i < cut) /\ v \in Nodes /\ idx[v] \in Int
      BY <1>1, <1>2
    <3> QED
      BY <3>1, <1>1, <1>3
  <2>2. ASSUME NEW u \in onstk, idx[u] >= idx[v] PROVE \E i \in cut .. Len(stk) : u = stk[i]
    <3>1. PICK i \in DOMAIN stk : u = stk[i]
      BY <1>1
    <3>2. ~ (i < cut)
      BY <3>1, <1>1, <1>2, <1>3, <2>2
    <3>3. i \in cut .. Len(stk)
      BY <3>2, <1>1, <1>2
    <3> QED
      BY <3>1, <3>3
  <2> DEFINE A == {stk[i] : i \in cut .. Len(stk)}  B == {u \in onstk : idx[u] >= idx[v]}
  <2>3. A \subseteq B
    BY <2>1
  <2>4. ASSUME NEW u \in B PROVE u \in A
    <3>1. u \in onstk /\ idx[u] >= idx[v]
      OBVIOUS
    <3>2. PICK i \in cut .. Len(stk) : u = stk[i]
      BY <2>2, <3>1
    <3> QED
      BY <3>2
  <2> HIDE DEF A, B
  <2>5. A = B
    BY <2>3, <2>4
  <2> QED
    BY <2>5 DEF A, B
<1> QED
  BY <1>1, <1>2, <1>3, <1>4

\* A frame whose link is its own number closes a component: the stack from its
\* node on is popped, and is all of it.
LEMMA RootCloseInv ==
  ASSUME WalkInv, CloseFrame, low[top.v] = idx[top.v]
  PROVE  WalkInv'
<1> DEFINE v == top.v  n == Len(frames)  b == frames[n - 1].v
           cut == CHOOSE i \in DOMAIN stk : stk[i] = v
           M == {u \in onstk : idx[u] >= idx[v]}
<1>0. /\ TypeOK /\ Numbering /\ FramesInv /\ Walking /\ Links /\ FramesReach /\ ReachesFrame
      /\ EdgesSeen /\ ComponentsConnected /\ ReverseTopological
  BY DEF WalkInv
<1>1. pc = "walk" /\ UNCHANGED <<adj, pc, root, idx, counter>>
  BY DEF CloseFrame
<1>2. ClosesAt(v, n, b)
  BY Closing
<1>3. v \in onstk
  BY <1>2 DEF ClosesAt
<1>4. /\ cut \in DOMAIN stk /\ DOMAIN stk = 1 .. Len(stk) /\ Len(stk) \in Nat
      /\ {stk[i] : i \in cut .. Len(stk)} = M
      /\ \A i \in DOMAIN stk : i < cut <=> idx[stk[i]] < idx[v]
  BY <1>0, <1>3, StackPart
<1>5. /\ stk' = SubSeq(stk, 1, cut - 1) /\ onstk' = onstk \ M
      /\ comp' = [x \in Nodes |-> IF x \in M THEN ncomp ELSE comp[x]]
      /\ ncomp' = ncomp + 1
  BY <1>4 DEF CloseFrame
<1>6. low[v] = idx[v]
  OBVIOUS
<1> HIDE DEF v, n, b, cut
<1>7. /\ DOMAIN frames = 1 .. n /\ n \in Nat \ {0} /\ n \in 1 .. n
      /\ v = frames[n].v /\ v \in onstk /\ v \in Nodes /\ frames[n].e > Len(adj[v])
      /\ \A k \in 1 .. n : frames[k].v \in onstk /\ frames[k].v \in Nodes /\ frames[k].e \in Nat
      /\ \A k \in 1 .. n : k # n => idx[frames[k].v] < idx[v]
  BY <1>2 DEF ClosesAt
<1>8. /\ frames' \in Seq([v : Nodes, e : Nat \ {0}])
      /\ DOMAIN frames' = 1 .. n - 1 /\ \A k \in 1 .. n - 1 : frames'[k] = frames[k] /\ k \in 1 .. n
      /\ \A k \in 1 .. n - 1 : k # n
  BY <1>2 DEF ClosesAt
<1>9. /\ idx \in [Nodes -> Int] /\ low \in [Nodes -> Int] /\ onstk \in SUBSET Nodes
      /\ comp \in [Nodes -> Int] /\ ncomp \in Nat /\ stk \in Seq(Nodes)
  BY <1>0 DEF TypeOK
<1>10. \A x : Reach(x)' = Reach(x)
  BY <1>1, ReachSame
<1>11. onstk' = {u \in onstk : idx[u] < idx[v]} /\ \A x \in onstk : x \in Nodes
  BY <1>5, <1>7, <1>9
\* The frame below keeps its link: it is below the component already.
<1>12. low' = low
  <2>1. ASSUME NEW x \in Nodes PROVE low'[x] = low[x]
    <3>1. SUFFICES ASSUME n > 1, x = b, low[v] < low[b] PROVE FALSE
      BY <1>2 DEF ClosesAt
    <3>2. b = frames[n - 1].v /\ n - 1 \in 1 .. n /\ n - 1 # n
      BY <3>1, <1>2, <1>7 DEF ClosesAt
    <3>3. b \in onstk /\ idx[b] < idx[v] /\ b \in Nodes
      BY <3>2, <1>7
    <3>4. low[b] <= idx[b]
      BY <3>3, <1>0 DEF Links
    <3> QED
      BY <3>1, <3>3, <3>4, <1>6, <1>7, <1>9
  <2>2. low' \in [Nodes -> Int]
    BY <1>2 DEF ClosesAt
  <2> QED
    BY <2>1, <2>2, <1>9
<1>13. /\ \A x \in M : comp'[x] = ncomp /\ comp[x] = -1 /\ x \in Nodes /\ x \in onstk
       /\ \A x \in Nodes : x \notin M => comp'[x] = comp[x]
       /\ \A x \in Nodes : comp[x] # -1 => comp[x] \in 0 .. ncomp - 1 /\ x \notin M
       /\ comp' \in [Nodes -> Int] /\ ncomp' \in Nat
  BY <1>0, <1>5, <1>9 DEF Numbering
<1>14. TypeOK'
  <2>1. stk' \in Seq(Nodes)
    <3>1. cut - 1 \in Nat /\ cut - 1 <= Len(stk)
      BY <1>4
    <3> QED
      BY <3>1, <1>5, <1>9
  <2>2. onstk' \in SUBSET Nodes
    BY <1>9, <1>11
  <2> QED
    BY <2>1, <2>2, <1>0, <1>1, <1>8, <1>9, <1>12, <1>13 DEF TypeOK
<1>15. Numbering'
  <2>1. \A x \in Nodes : x \in onstk' <=> idx[x] >= 0 /\ comp'[x] = -1
    <3>1. \A x \in Nodes : x \in onstk <=> idx[x] >= 0 /\ comp[x] = -1
      BY <1>0 DEF Numbering
    <3>2. ncomp # -1
      BY <1>9
    <3> QED
      BY <3>1, <3>2, <1>5, <1>13
  <2>2. ASSUME NEW x \in Nodes, comp'[x] # -1 PROVE idx[x] >= 0 /\ comp'[x] \in 0 .. ncomp' - 1
    <3>1. CASE x \in M
      BY <3>1, <1>0, <1>5, <1>9, <1>13 DEF Numbering
    <3>2. CASE x \notin M
      BY <3>2, <2>2, <1>0, <1>5, <1>9, <1>13 DEF Numbering
    <3> QED
      BY <3>1, <3>2
  <2>3. /\ DOMAIN stk' = 1 .. cut - 1 /\ \A i \in 1 .. cut - 1 : stk'[i] = stk[i] /\ i \in DOMAIN stk /\ i < cut
        /\ \A i \in DOMAIN stk : i < cut => i \in 1 .. cut - 1
    <3>1. cut - 1 \in Nat /\ cut - 1 <= Len(stk)
      BY <1>4
    <3>2. DOMAIN stk' = 1 .. cut - 1 /\ \A i \in 1 .. cut - 1 : stk'[i] = stk[i]
      <4> DEFINE m == cut - 1
      <4>1. m \in Nat /\ m <= Len(stk) /\ stk' = SubSeq(stk, 1, m) /\ stk \in Seq(Nodes)
        BY <3>1, <1>5, <1>9
      <4> HIDE DEF m
      <4>2. DOMAIN stk' = 1 .. m /\ \A i \in 1 .. m : stk'[i] = stk[i]
        BY <4>1
      <4> QED
        BY <4>2 DEF m
    <3> QED
      BY <3>1, <3>2, <1>4
  <2>4. onstk' = {stk'[i] : i \in DOMAIN stk'}
    <3>1. onstk = {stk[i] : i \in DOMAIN stk}
      BY <1>0 DEF Numbering
    <3>2. ASSUME NEW x \in onstk' PROVE \E i \in DOMAIN stk' : x = stk'[i]
      <4>1. PICK i \in DOMAIN stk : x = stk[i]
        BY <3>1, <1>11
      <4>2. i \in 1 .. cut - 1
        BY <4>1, <1>4, <1>11, <2>3
      <4> QED
        BY <4>1, <4>2, <2>3
    <3>3. ASSUME NEW i \in DOMAIN stk' PROVE stk'[i] \in onstk'
      BY <3>1, <1>4, <1>11, <2>3
    <3> QED
      BY <3>2, <3>3
  <2>5. ASSUME NEW i \in DOMAIN stk', NEW j \in DOMAIN stk', i < j PROVE idx[stk'[i]] < idx[stk'[j]]
    BY <2>3, <2>5, <1>0 DEF Numbering
  <2>6. \A x \in Nodes : idx[x] >= -1 /\ idx[x] < counter
    BY <1>0 DEF Numbering
  <2>7. \A x, y \in Nodes : idx[x] >= 0 /\ idx[x] = idx[y] => x = y
    BY <1>0 DEF Numbering
  <2> QED
    BY <2>1, <2>2, <2>4, <2>5, <2>6, <2>7, <1>1 DEF Numbering
<1>16. FramesInv'
  <2>1. ASSUME NEW k \in 1 .. n - 1 PROVE frames'[k].v \in onstk'
    BY <1>7, <1>8, <1>11
  <2>2. ASSUME NEW j \in 1 .. n - 1, NEW k \in 1 .. n - 1, j < k
        PROVE  idx[frames'[j].v] < idx[frames'[k].v]
    BY <1>0, <1>7, <1>8, <2>2 DEF FramesInv
  <2> QED
    BY <2>1, <2>2, <1>1, <1>8 DEF FramesInv
<1>17. Walking'
  BY <1>0, <1>1 DEF Walking
<1>18. Links'
  <2>1. ASSUME NEW x \in onstk'
        PROVE  low[x] <= idx[x] /\ \E y \in onstk' : low[x] = idx[y] /\ y \in Reach(x)
    <3>1. x \in onstk /\ idx[x] < idx[v] /\ x \in Nodes
      BY <1>11
    <3>2. low[x] <= idx[x]
      BY <3>1, <1>0 DEF Links
    <3>3. PICK y \in onstk : low[x] = idx[y] /\ y \in Reach(x)
      BY <3>1, <1>0 DEF Links
    <3>4. idx[y] < idx[v]
      BY <3>1, <3>2, <3>3, <1>7, <1>9
    <3> QED
      BY <3>2, <3>3, <3>4, <1>11
  <2> QED
    BY <2>1, <1>1, <1>10, <1>12 DEF Links
<1>19. FramesReach'
  BY <1>0, <1>1, <1>7, <1>8, <1>10, <1>11 DEF FramesReach
<1>20. ReachesFrame'
  <2>1. ASSUME NEW u \in onstk'
        PROVE  \E k \in 1 .. n - 1 : idx[frames[k].v] <= idx[u] /\ frames[k].v \in Reach(u)
    <3>1. u \in onstk /\ idx[u] < idx[v] /\ u \in Nodes
      BY <1>11
    <3>2. PICK k \in 1 .. n : idx[frames[k].v] <= idx[u] /\ frames[k].v \in Reach(u)
      BY <3>1, <1>0, <1>7 DEF ReachesFrame
    <3>3. k # n
      BY <3>1, <3>2, <1>7, <1>9
    <3>4. k \in 1 .. n - 1
      BY <3>3, <1>7
    <3> QED
      BY <3>2, <3>4
  <2> QED
    BY <2>1, <1>1, <1>8, <1>10 DEF ReachesFrame

\* What an edge of the stack seen before says, at the closing of the component.
<1>21. ASSUME NEW u \in onstk, NEW i \in DOMAIN adj[u]
       PROVE  /\ i \in 1 .. Len(adj[u]) /\ Len(adj[u]) \in Nat /\ u \in Nodes /\ adj[u][i] \in Nodes
              /\ Pending(u, i) => \E k \in 1 .. n - 1 : frames[k].v = u /\ frames[k].e <= i
  <2>1. i \in 1 .. Len(adj[u]) /\ Len(adj[u]) \in Nat /\ u \in Nodes /\ adj[u][i] \in Nodes
    <3>1. adj[u] \in Seq(Nodes) /\ u \in Nodes
      BY <1>0, <1>9 DEF TypeOK
    <3> QED
      BY <3>1
  <2>2. ASSUME Pending(u, i) PROVE \E k \in 1 .. n - 1 : frames[k].v = u /\ frames[k].e <= i
    <3>1. PICK k \in 1 .. n : frames[k].v = u /\ frames[k].e <= i
      BY <2>2, <1>7 DEF Pending
    <3>2. k # n
      BY <3>1, <2>1, <1>7
    <3>3. k \in 1 .. n - 1
      BY <3>2, <1>7
    <3> QED
      BY <3>1, <3>3
  <2> QED
    BY <2>1, <2>2
<1>22. EdgesSeen'
  <2>1. ASSUME NEW u \in onstk', NEW i \in DOMAIN adj[u]
        PROVE  \/ Pending(u, i)'
               \/ comp'[adj[u][i]] # -1
               \/ /\ adj[u][i] \in onstk'
                  /\ \A k \in 1 .. n - 1 : Owner(k, u)' => low[frames[k].v] <= idx[adj[u][i]]
    <3>1. u \in onstk /\ idx[u] < idx[v] /\ u \in Nodes
      BY <1>11
    <3>2. adj[u][i] \in Nodes
      BY <3>1, <1>21
    <3>3. CASE Pending(u, i)
      <4>1. PICK k \in 1 .. n - 1 : frames[k].v = u /\ frames[k].e <= i
        BY <3>1, <3>3, <1>21
      <4>2. k \in DOMAIN frames' /\ frames'[k].v = u /\ frames'[k].e <= i
        BY <4>1, <1>8
      <4> QED
        BY <4>2 DEF Pending
    <3>4. CASE comp[adj[u][i]] # -1
      BY <3>2, <3>4, <1>13
    <3>5. CASE adj[u][i] \in M
      <4>1. ncomp # -1
        BY <1>9
      <4> QED
        BY <3>5, <4>1, <1>13
    <3>6. CASE /\ adj[u][i] \in onstk \ M
               /\ \A k \in DOMAIN frames : Owner(k, u) => low[frames[k].v] <= idx[adj[u][i]]
      <4>1. ASSUME NEW k \in 1 .. n - 1, Owner(k, u)' PROVE low[frames[k].v] <= idx[adj[u][i]]
        <5>0. /\ idx[frames[k].v] <= idx[u] /\ k \in 1 .. n
              /\ \A j \in 1 .. n - 1 : idx[frames[j].v] <= idx[u] => j <= k
          BY <1>1, <1>8, <4>1 DEF Owner
        <5>1. ASSUME NEW j \in 1 .. n, idx[frames[j].v] <= idx[u] PROVE j <= k
          <6>1. j # n
            BY <3>1, <5>1, <1>7, <1>9
          <6>2. j \in 1 .. n - 1
            BY <6>1, <1>7
          <6> QED
            BY <6>2, <5>0, <5>1
        <5>2. Owner(k, u)
          BY <5>0, <5>1, <1>7 DEF Owner
        <5> QED
          BY <5>0, <5>2, <3>6, <1>7
      <4> QED
        BY <3>6, <4>1, <1>5
    <3> QED
      BY <3>1, <3>3, <3>4, <3>5, <3>6, <1>0 DEF EdgesSeen
  <2> QED
    BY <2>1, <1>1, <1>8, <1>12 DEF EdgesSeen
<1>23. ComponentsConnected'
  <2>1. ASSUME NEW u \in M, NEW w \in M PROVE w \in Reach(u)
    <3>1. u \in Nodes /\ w \in Nodes /\ u \in onstk /\ w \in onstk /\ idx[w] >= idx[v]
      BY <1>13
    <3>2. w \in Reach(v)
      BY <3>1, <1>0, <1>7, <1>9 DEF FramesReach
    <3>3. PICK k \in 1 .. n : frames[k].v \in Reach(u)
      BY <3>1, <1>0, <1>7 DEF ReachesFrame
    <3>4. idx[frames[k].v] <= idx[v]
      <4>1. idx[frames[k].v] \in Int /\ idx[v] \in Int
        BY <1>7, <1>9
      <4>2. k = n => idx[frames[k].v] = idx[v]
        BY <1>7
      <4>3. k # n => idx[frames[k].v] < idx[v]
        BY <1>7
      <4> QED
        BY <4>1, <4>2, <4>3
    <3>5. v \in Reach(frames[k].v)
      BY <3>4, <1>0, <1>7 DEF FramesReach
    <3>6. v \in Reach(u)
      BY <3>1, <3>3, <3>5, ReachTrans
    <3> QED
      BY <3>1, <3>2, <3>6, ReachTrans
  <2>2. ASSUME NEW u \in Nodes, NEW w \in Nodes, comp'[u] # -1, comp'[u] = comp'[w]
        PROVE  w \in Reach(u)
    <3>1. CASE u \in M /\ w \in M
      BY <2>1, <3>1
    <3>2. CASE u \notin M /\ w \notin M
      BY <2>2, <3>2, <1>0, <1>13 DEF ComponentsConnected
    <3>3. \A x \in Nodes : x \notin M /\ comp'[x] = ncomp => FALSE
      <4>1. ncomp # -1 /\ ncomp \notin 0 .. ncomp - 1
        BY <1>9
      <4> QED
        BY <4>1, <1>13
    <3> QED
      BY <2>2, <3>1, <3>2, <3>3, <1>13
  <2> QED
    BY <2>2, <1>10 DEF ComponentsConnected
<1>24. ReverseTopological'
  <2>1. ASSUME NEW u \in Nodes, comp'[u] # -1, NEW i \in DOMAIN adj[u]
        PROVE  comp'[adj[u][i]] # -1 /\ comp'[adj[u][i]] <= comp'[u]
    <3>0. ncomp # -1 /\ ncomp \in Nat
      BY <1>9
    <3>1. CASE u \in M
      <4>1. u \in onstk /\ idx[u] >= idx[v] /\ comp'[u] = ncomp
        BY <3>1, <1>13
      <4>2. adj[u][i] \in Nodes
        BY <4>1, <1>21
      <4>3. ~ Pending(u, i)
        <5>1. SUFFICES ASSUME NEW k \in 1 .. n - 1, frames[k].v = u PROVE FALSE
          BY <4>1, <1>21
        <5>2. idx[u] < idx[v]
          BY <5>1, <1>7, <1>8
        <5> QED
          BY <4>1, <5>2, <1>7, <1>9
      <4>4. CASE comp[adj[u][i]] # -1
        <5>1. comp'[adj[u][i]] = comp[adj[u][i]] /\ comp[adj[u][i]] \in 0 .. ncomp - 1
          BY <4>2, <4>4, <1>13
        <5> QED
          BY <5>1, <4>1, <4>4, <3>0
      <4>5. CASE /\ adj[u][i] \in onstk
                 /\ \A k \in DOMAIN frames : Owner(k, u) => low[frames[k].v] <= idx[adj[u][i]]
        <5>1. Owner(n, u)
          <6>1. idx[frames[n].v] <= idx[u]
            BY <4>1, <1>7, <1>9
          <6> QED
            BY <6>1, <1>7 DEF Owner
        <5>2. idx[v] <= idx[adj[u][i]]
          BY <5>1, <4>5, <1>6, <1>7
        <5>3. adj[u][i] \in M
          BY <5>2, <4>2, <4>5, <1>7, <1>9
        <5> QED
          BY <5>3, <4>1, <1>13, <3>0
      <4> QED
        BY <4>1, <4>3, <4>4, <4>5, <1>0 DEF EdgesSeen
    <3>2. CASE u \notin M
      <4>1. comp[u] # -1 /\ comp'[u] = comp[u]
        BY <2>1, <3>2, <1>13
      <4>2. comp[adj[u][i]] # -1 /\ comp[adj[u][i]] <= comp[u]
        BY <4>1, <1>0 DEF ReverseTopological
      <4>3. adj[u][i] \in Nodes
        BY <1>0, EdgeTyped
      <4> QED
        BY <4>1, <4>2, <4>3, <1>13
    <3> QED
      BY <3>1, <3>2
  <2> QED
    BY <2>1, <1>1 DEF ReverseTopological
<1> QED
  BY <1>14, <1>15, <1>16, <1>17, <1>18, <1>19, <1>20, <1>22, <1>23, <1>24 DEF WalkInv
\* The steps that discover and close nothing leave the walk as it is.
LEMMA QuietInv ==
  ASSUME WalkInv, UNCHANGED <<adj, idx, low, counter, stk, onstk, frames, comp, ncomp>>,
         Walking', pc' \in {"roots", "walk", "group", "done"}, root' \in 0 .. N
  PROVE  WalkInv'
<1>1. \A v : Reach(v)' = Reach(v)
  BY ReachSame
<1>2. TypeOK'
  BY DEF WalkInv, TypeOK
<1>3. Numbering' /\ FramesInv'
  BY DEF WalkInv, Numbering, FramesInv
<1>4. Links' /\ FramesReach' /\ ReachesFrame' /\ ComponentsConnected'
  BY <1>1 DEF WalkInv, Links, FramesReach, ReachesFrame, ComponentsConnected
<1>5. EdgesSeen'
  BY DEF WalkInv, EdgesSeen, Pending, Owner
<1>6. ReverseTopological'
  BY DEF WalkInv, ReverseTopological
<1> QED
  BY <1>2, <1>3, <1>4, <1>5, <1>6 DEF WalkInv

\* The steps around the walk: the end of one root's, and the grouping.
LEMMA AroundInv ==
  ASSUME WalkInv, WalkEnds \/ StartGroup \/ PlaceNode \/ Finish
  PROVE  WalkInv'
<1>0. /\ Walking /\ root \in 0 .. N /\ N \in Nat
      /\ pc \in {"roots", "walk", "group", "done"} /\ idx \in [Nodes -> Int]
  BY GraphAssumption DEF WalkInv, TypeOK
<1>1. CASE WalkEnds
  <2>1. /\ pc = "walk" /\ frames = <<>> /\ pc' = "roots" /\ root' = root + 1
        /\ UNCHANGED <<adj, idx, low, counter, stk, onstk, frames, comp, ncomp>>
    BY <1>1 DEF WalkEnds
  <2>2. root < N /\ idx[root] >= 0 /\ \A v \in Nodes : v < root => idx[v] >= 0
    BY <1>0, <2>1 DEF Walking
  <2>3. ASSUME NEW v \in Nodes, v < root + 1 PROVE idx[v] >= 0
    BY <1>0, <2>2, <2>3 DEF Nodes
  <2>4. Walking'
    BY <2>1, <2>3 DEF Walking
  <2>5. root' \in 0 .. N
    BY <1>0, <2>1, <2>2
  <2> QED
    BY <2>1, <2>4, <2>5, QuietInv
<1>2. CASE StartGroup
  <2>1. Walking'
    BY <1>0, <1>2 DEF Walking, StartGroup
  <2> QED
    BY <1>0, <1>2, <2>1, QuietInv DEF StartGroup
<1>3. CASE PlaceNode
  <2>1. Walking'
    BY <1>0, <1>3 DEF Walking, PlaceNode
  <2> QED
    BY <1>0, <1>3, <2>1, QuietInv DEF PlaceNode
<1>4. CASE Finish
  <2>1. Walking'
    BY <1>0, <1>4 DEF Walking, Finish
  <2> QED
    BY <1>0, <1>4, <2>1, QuietInv DEF Finish
<1> QED
  BY <1>1, <1>2, <1>3, <1>4

\* Every step keeps the invariant of the walk.
LEMMA WalkStep == WalkInv /\ [Next]_vars => WalkInv'
<1> SUFFICES ASSUME WalkInv, [Next]_vars PROVE WalkInv'
  OBVIOUS
<1>1. CASE NextRoot
  BY <1>1, NextRootInv
<1>2. CASE TakeEdge
  <2>1. CASE idx[adj[top.v][top.e]] < 0
    BY <1>2, <2>1, TreeEdgeInv
  <2>2. CASE ~ idx[adj[top.v][top.e]] < 0
    BY <1>2, <2>2, OtherEdgeInv
  <2> QED
    BY <2>1, <2>2
<1>3. CASE CloseFrame
  <2>1. CASE low[top.v] # idx[top.v]
    BY <1>3, <2>1, InnerCloseInv
  <2>2. CASE low[top.v] = idx[top.v]
    BY <1>3, <2>2, RootCloseInv
  <2> QED
    BY <2>1, <2>2
<1>4. CASE WalkEnds \/ StartGroup \/ PlaceNode \/ Finish
  BY <1>4, AroundInv
<1>5. CASE UNCHANGED vars
  <2>1. Walking' /\ UNCHANGED <<adj, idx, low, counter, stk, onstk, frames, comp, ncomp>>
    BY <1>5 DEF vars, Walking, WalkInv
  <2>2. pc' \in {"roots", "walk", "group", "done"} /\ root' \in 0 .. N
    BY <1>5 DEF vars, WalkInv, TypeOK
  <2> QED
    BY <2>1, <2>2, QuietInv
<1> QED
  BY <1>1, <1>2, <1>3, <1>4, <1>5 DEF Next

\* The walk's invariant holds throughout.
LEMMA WalkInvariant == Spec => []WalkInv
<1>1. WalkInv /\ [Next]_vars => WalkInv'
  BY WalkStep
<1> QED
  BY InitWalk, <1>1, PTL DEF Spec

\* The numbering the schedule and the stratifier walk by: from the moment a
\* component is numbered, no edge of its nodes leads to a higher number or to a
\* node without one.
THEOREM EdgesGoDown == Spec => []ReverseTopological
<1>1. WalkInv => ReverseTopological
  BY DEF WalkInv
<1> QED
  BY WalkInvariant, <1>1, PTL
-----------------------------------------------------------------------------
(* The grouping.                                                           *)

\* u comes before v when the components are laid out one after the other.
Before(u, v) == comp[u] < comp[v] \/ (comp[u] = comp[v] /\ u < v)

\* Where dl_group_by_comp puts a node.
Place(v) == Cardinality({u \in Nodes : Before(u, v)})

\* Where it puts the next of component c, when the nodes before g are placed.
Cursor(c, g) == Cardinality({u \in Nodes : comp[u] < c \/ (comp[u] = c /\ u < g)})

GroupInv ==
  /\ pc \in {"roots", "walk"} => grp = 0
  /\ pc \in {"group", "done"} =>
       /\ grp \in 0 .. N /\ (pc = "done" => grp = N)
       /\ lit \in [Nodes -> Int]
       /\ fill = [c \in 0 .. ncomp - 1 |-> Cursor(c, grp)]
       /\ \A v \in Nodes : v < grp => lit[Place(v)] = v

\* The nodes are finitely many, and so are any of them.
LEMMA NodesFinite ==
  /\ IsFiniteSet(Nodes) /\ Cardinality(Nodes) = N
  /\ \A S \in SUBSET Nodes : IsFiniteSet(S) /\ Cardinality(S) \in 0 .. N
<1>1. N \in Nat \ {0}
  BY GraphAssumption
<1>2. IsFiniteSet(Nodes) /\ Cardinality(Nodes) = N
  BY <1>1, FS_Interval DEF Nodes
<1>3. ASSUME NEW S \in SUBSET Nodes PROVE IsFiniteSet(S) /\ Cardinality(S) \in 0 .. N
  <2>1. IsFiniteSet(S) /\ Cardinality(S) <= N
    BY <1>2, FS_Subset
  <2>2. Cardinality(S) \in Nat
    BY <2>1, FS_CardinalityType
  <2> QED
    BY <1>1, <2>1, <2>2
<1> QED
  BY <1>2, <1>3

\* Once every root is taken, every node has a component.
LEMMA AllNumbered ==
  ASSUME WalkInv, pc # "walk", root = N
  PROVE  \A v \in Nodes : comp[v] \in 0 .. ncomp - 1
<1>1. onstk = {}
  BY NoFrameNoStack DEF WalkInv, Walking
<1>2. ASSUME NEW v \in Nodes PROVE comp[v] \in 0 .. ncomp - 1
  <2>1. N \in Nat /\ v < N
    BY GraphAssumption DEF Nodes
  <2>2. idx[v] >= 0
    BY <2>1 DEF WalkInv, Walking
  <2>3. comp[v] # -1
    BY <1>1, <2>2 DEF WalkInv, Numbering
  <2> QED
    BY <2>3 DEF WalkInv, Numbering
<1> QED
  BY <1>2

\* A node's place is one of the N, and nodes that come later are placed higher.
LEMMA PlaceOrder ==
  ASSUME comp \in [Nodes -> Int]
  PROVE  /\ \A v \in Nodes : Place(v) \in Nodes
         /\ \A u, v \in Nodes : Before(u, v) => Place(u) < Place(v)
<1>0. N \in Nat \ {0} /\ Nodes \subseteq Int
  BY GraphAssumption DEF Nodes
<1>1. ASSUME NEW v \in Nodes PROVE Place(v) \in Nodes
  <2> DEFINE S == {u \in Nodes : Before(u, v)}
  <2>1. S \in SUBSET Nodes /\ v \notin S
    BY <1>0 DEF Before
  <2>2. Place(v) = Cardinality(S)
    BY DEF Place
  <2> HIDE DEF S
  <2>3. IsFiniteSet(S) /\ Cardinality(S) \in 0 .. N
    BY <2>1, NodesFinite
  <2>4. Cardinality(S) # N
    <3>1. Cardinality(Nodes) = Cardinality(S) => Nodes = S
      BY <2>1, NodesFinite, FS_Subset
    <3> QED
      BY <2>1, <3>1, NodesFinite
  <2> QED
    BY <1>0, <2>2, <2>3, <2>4 DEF Nodes
<1>2. ASSUME NEW u \in Nodes, NEW v \in Nodes, Before(u, v) PROVE Place(u) < Place(v)
  <2> DEFINE S == {x \in Nodes : Before(x, u)}
             T == {x \in Nodes : Before(x, v)}
  <2>0. comp[u] \in Int /\ comp[v] \in Int /\ u \in Int /\ v \in Int
    BY <1>0
  <2>1. ASSUME NEW x \in S PROVE x \in T
    <3>1. comp[x] \in Int /\ x \in Int /\ x \in Nodes
      BY <1>0
    <3> QED
      BY <1>2, <2>0, <3>1 DEF Before
  <2>2. u \in T /\ u \notin S
    BY <1>2, <2>0 DEF Before
  <2>3. T \in SUBSET Nodes /\ S \in SUBSET T
    BY <2>1
  <2>4. Place(u) = Cardinality(S) /\ Place(v) = Cardinality(T)
    BY DEF Place
  <2> HIDE DEF S, T
  <2>5. IsFiniteSet(T) /\ Cardinality(T) \in 0 .. N
    BY <2>3, NodesFinite
  <2>6. S \in SUBSET Nodes
    BY <2>3
  <2>7. Cardinality(S) \in 0 .. N
    BY <2>6, NodesFinite
  <2>8. Cardinality(S) <= Cardinality(T) /\ (Cardinality(T) = Cardinality(S) => T = S)
    BY <2>3, <2>5, FS_Subset
  <2> QED
    BY <1>0, <2>2, <2>4, <2>5, <2>7, <2>8
<1> QED
  BY <1>1, <1>2

\* Two nodes have two places.
LEMMA PlaceInjective ==
  ASSUME comp \in [Nodes -> Int], NEW u \in Nodes, NEW v \in Nodes, u # v
  PROVE  Place(u) # Place(v)
<1>1. comp[u] \in Int /\ comp[v] \in Int /\ u \in Int /\ v \in Int
  BY GraphAssumption DEF Nodes
<1>2. Before(u, v) \/ Before(v, u)
  BY <1>1 DEF Before
<1>3. Place(u) \in Int /\ Place(v) \in Int
  <2>1. Place(u) \in Nodes /\ Place(v) \in Nodes
    BY PlaceOrder
  <2> QED
    BY <2>1, GraphAssumption DEF Nodes
<1>4. Place(u) < Place(v) \/ Place(v) < Place(u)
  BY <1>2, PlaceOrder
<1> QED
  BY <1>3, <1>4

\* Every place is taken.
LEMMA PlaceOnto ==
  ASSUME comp \in [Nodes -> Int]
  PROVE  \A i \in Nodes : \E v \in Nodes : i = Place(v)
<1> DEFINE f == [v \in Nodes |-> Place(v)]
<1>1. f \in [Nodes -> Nodes]
  BY PlaceOrder
<1>2. \A u, v \in Nodes : f[u] = f[v] => u = v
  BY PlaceInjective
<1>3. \A v \in Nodes : f[v] = Place(v)
  OBVIOUS
<1> HIDE DEF f
<1>4. f \in Injection(Nodes, Nodes)
  BY <1>1, <1>2 DEF Injection, IsInjective
<1>5. f \in Surjection(Nodes, Nodes)
  BY <1>4, NodesFinite, FS_Injection
<1> QED
  BY <1>3, <1>5 DEF Surjection
\* The cursor of a component moves past a node placed in it, and no other does.
LEMMA CursorMoves ==
  ASSUME comp \in [Nodes -> Int], NEW g \in Nodes, NEW c \in Int
  PROVE  /\ Cursor(comp[g], g) = Place(g)
         /\ Cursor(comp[g], g + 1) = Place(g) + 1
         /\ c # comp[g] => Cursor(c, g + 1) = Cursor(c, g)
<1> DEFINE S(k, h) == {u \in Nodes : comp[u] < k \/ (comp[u] = k /\ u < h)}
           P == {u \in Nodes : Before(u, g)}
<1>0. Nodes \subseteq Int /\ g \in Int /\ comp[g] \in Int
  BY GraphAssumption DEF Nodes
<1>1. S(comp[g], g) = P
  BY DEF Before
<1>2. P \in SUBSET Nodes /\ g \notin P /\ Place(g) = Cardinality(P)
  BY <1>0 DEF Before, Place
<1>3. S(comp[g], g + 1) = P \cup {g}
  <2>1. ASSUME NEW u \in Nodes PROVE u \in S(comp[g], g + 1) <=> u \in P \cup {g}
    <3>1. u \in Int /\ comp[u] \in Int
      BY <1>0
    <3> QED
      BY <1>0, <3>1 DEF Before
  <2> QED
    BY <2>1, <1>2
<1>4. Cardinality(P \cup {g}) = Cardinality(P) + 1
  <2> HIDE DEF P
  <2>1. IsFiniteSet(P)
    BY <1>2, NodesFinite
  <2> QED
    BY <1>2, <2>1, FS_AddElement
<1>5. ASSUME c # comp[g] PROVE S(c, g + 1) = S(c, g)
  <2>1. ASSUME NEW u \in Nodes PROVE u \in S(c, g + 1) <=> u \in S(c, g)
    <3>1. u \in Int /\ comp[u] \in Int
      BY <1>0
    <3>2. comp[u] = c => u # g
      BY <1>5
    <3> QED
      BY <1>0, <3>1, <3>2
  <2> QED
    BY <2>1
<1> QED
  BY <1>1, <1>2, <1>3, <1>4, <1>5 DEF Cursor

\* Placing a node: it goes to its own place, which no node placed before has.
LEMMA PlaceNodeInv ==
  ASSUME WalkInv, GroupInv, PlaceNode
  PROVE  GroupInv'
<1>1. /\ pc = "group" /\ grp < N /\ UNCHANGED <<pc, comp, ncomp>> /\ grp' = grp + 1
      /\ lit' = [lit EXCEPT ![fill[comp[grp]]] = grp]
      /\ fill' = [fill EXCEPT ![comp[grp]] = @ + 1]
  BY DEF PlaceNode
<1>2. /\ grp \in 0 .. N /\ lit \in [Nodes -> Int]
      /\ fill = [c \in 0 .. ncomp - 1 |-> Cursor(c, grp)]
      /\ \A v \in Nodes : v < grp => lit[Place(v)] = v
  BY <1>1 DEF GroupInv
<1>3. N \in Nat \ {0} /\ grp \in Nodes /\ grp \in Int
  BY <1>1, <1>2, GraphAssumption DEF Nodes
<1>4. comp \in [Nodes -> Int] /\ ncomp \in Nat
  BY DEF WalkInv, TypeOK
<1>5. comp[grp] \in 0 .. ncomp - 1
  BY <1>1, <1>3, AllNumbered DEF WalkInv, Walking
<1>6. fill[comp[grp]] = Place(grp) /\ Place(grp) \in Nodes
  BY <1>2, <1>3, <1>4, <1>5, CursorMoves, PlaceOrder
<1>7. lit' \in [Nodes -> Int]
  BY <1>1, <1>2, <1>3
<1>8. \A v : Place(v)' = Place(v)
  BY <1>1 DEF Place, Before
<1>9. ASSUME NEW v \in Nodes, v < grp + 1 PROVE lit'[Place(v)] = v
  <2>1. Place(v) \in Nodes
    BY <1>4, PlaceOrder
  <2>2. CASE v = grp
    BY <1>1, <1>2, <1>6, <2>2
  <2>3. CASE v # grp
    <3>1. v < grp
      BY <1>3, <1>9, <2>3 DEF Nodes
    <3>2. Place(v) # Place(grp)
      BY <1>3, <1>4, <2>3, PlaceInjective
    <3> QED
      BY <1>1, <1>2, <1>6, <2>1, <3>1, <3>2
  <2> QED
    BY <2>2, <2>3
<1>10. fill' = [c \in 0 .. ncomp - 1 |-> Cursor(c, grp + 1)]
  <2>1. DOMAIN fill' = 0 .. ncomp - 1 /\ fill' = [c \in 0 .. ncomp - 1 |-> fill'[c]]
    BY <1>1, <1>2
  <2>2. ASSUME NEW c \in 0 .. ncomp - 1 PROVE fill'[c] = Cursor(c, grp + 1)
    <3>1. c \in Int /\ fill[c] = Cursor(c, grp)
      BY <1>2, <1>4
    <3>2. CASE c = comp[grp]
      <4>1. fill'[c] = Place(grp) + 1
        BY <1>1, <1>2, <1>5, <1>6, <3>2
      <4>2. Cursor(comp[grp], grp + 1) = Place(grp) + 1
        BY <1>3, <1>4, <3>1, CursorMoves
      <4> QED
        BY <3>2, <4>1, <4>2
    <3>3. CASE c # comp[grp]
      <4>1. fill'[c] = fill[c]
        BY <1>1, <1>2, <3>3
      <4>2. Cursor(c, grp + 1) = Cursor(c, grp)
        BY <1>3, <1>4, <3>1, <3>3, CursorMoves
      <4> QED
        BY <3>1, <4>1, <4>2
    <3> QED
      BY <3>2, <3>3
  <2> QED
    BY <2>1, <2>2
<1>11. \A c, g : Cursor(c, g)' = Cursor(c, g)
  BY <1>1 DEF Cursor
<1>12. grp' \in 0 .. N
  BY <1>1, <1>2, <1>3
<1> QED
  BY <1>1, <1>7, <1>8, <1>9, <1>10, <1>11, <1>12 DEF GroupInv

\* Starting the grouping: a cursor stands at its component's first place.
LEMMA StartGroupInv ==
  ASSUME WalkInv, GroupInv, StartGroup
  PROVE  GroupInv'
<1>1. /\ pc = "roots" /\ pc' = "group" /\ UNCHANGED <<comp, ncomp, grp>>
      /\ fill' = [c \in 0 .. ncomp - 1 |-> Offset(c)] /\ lit' = [i \in Nodes |-> -1]
  BY DEF StartGroup
<1>2. grp = 0 /\ N \in Nat \ {0} /\ grp' = 0
  BY <1>1, GraphAssumption DEF GroupInv
<1>3. \A c : Offset(c) = Cursor(c, 0)
  <2>1. ASSUME NEW c PROVE {v \in Nodes : comp[v] < c}
                           = {u \in Nodes : comp[u] < c \/ (comp[u] = c /\ u < 0)}
    BY <1>2 DEF Nodes
  <2> QED
    BY <2>1 DEF Offset, Cursor
<1>4. \A c : Cursor(c, 0)' = Cursor(c, 0)
  BY <1>1 DEF Cursor
<1>5. fill' = [c \in 0 .. ncomp' - 1 |-> Cursor(c, grp)']
  BY <1>1, <1>2, <1>3, <1>4
<1>6. \A v \in Nodes : ~ v < 0
  BY <1>2 DEF Nodes
<1>7. lit' \in [Nodes -> Int] /\ grp' \in 0 .. N
  BY <1>1, <1>2
<1> QED
  BY <1>1, <1>2, <1>5, <1>6, <1>7 DEF GroupInv

\* Every step keeps the invariant of the grouping.
LEMMA GroupStep == WalkInv /\ GroupInv /\ [Next]_vars => GroupInv'
<1> SUFFICES ASSUME WalkInv, GroupInv, [Next]_vars PROVE GroupInv'
  OBVIOUS
<1>1. CASE NextRoot
  BY <1>1 DEF NextRoot, groupVars, GroupInv
<1>2. CASE TakeEdge
  BY <1>2 DEF TakeEdge, groupVars, GroupInv
<1>3. CASE CloseFrame
  BY <1>3 DEF CloseFrame, groupVars, GroupInv
<1>4. CASE WalkEnds
  BY <1>4 DEF WalkEnds, groupVars, GroupInv
<1>5. CASE StartGroup
  BY <1>5, StartGroupInv
<1>6. CASE PlaceNode
  BY <1>6, PlaceNodeInv
<1>7. CASE Finish
  BY <1>7 DEF Finish, groupVars, GroupInv, Place, Before, Cursor
<1>8. CASE UNCHANGED vars
  BY <1>8 DEF vars, GroupInv, Place, Before, Cursor
<1> QED
  BY <1>1, <1>2, <1>3, <1>4, <1>5, <1>6, <1>7, <1>8 DEF Next

\* A node's component is reached only from nodes of components no lower.
LEMMA ReachGoesDown ==
  ASSUME WalkInv, NEW u \in Nodes, NEW v \in Reach(u), comp[u] # -1
  PROVE  comp[v] <= comp[u]
<1> DEFINE C == {x \in Nodes : comp[x] # -1 /\ comp[x] <= comp[u]}
<1>1. comp \in [Nodes -> Int] /\ TypeOK /\ ReverseTopological
  BY DEF WalkInv, TypeOK
<1>2. u \in C /\ C \in SUBSET Nodes
  BY <1>1
<1>3. Closed(C)
  <2>1. ASSUME NEW x \in C, NEW i \in DOMAIN adj[x] PROVE adj[x][i] \in C
    <3>1. adj[x][i] \in Nodes
      BY <1>1, EdgeTyped
    <3>2. comp[adj[x][i]] # -1 /\ comp[adj[x][i]] <= comp[x] /\ comp[x] <= comp[u]
      BY <1>1 DEF ReverseTopological
    <3>3. comp[adj[x][i]] \in Int /\ comp[x] \in Int /\ comp[u] \in Int
      BY <1>1, <3>1
    <3> QED
      BY <3>1, <3>2, <3>3
  <2> QED
    BY <2>1 DEF Closed
<1> HIDE DEF C
<1>4. v \in C
  BY <1>2, <1>3, ReachClosed
<1> QED
  BY <1>4 DEF C

\* At the end the walk and the grouping have found the components: nodes share
\* an id exactly when each reaches the other, and the members lie in slices, by
\* ascending id and within a slice by ascending index (dl_tarjan and
\* dl_group_by_comp, which both callers index their schedules by).
THEOREM ComponentsExact == Spec => []ComponentsAreMutualReach
<1>1. Init => GroupInv
  BY DEF Init, GroupInv
<1>2. WalkInv /\ GroupInv /\ [Next]_vars => GroupInv'
  BY GroupStep
<1>3. WalkInv /\ GroupInv => ComponentsAreMutualReach
  <2> SUFFICES ASSUME WalkInv, GroupInv, pc = "done" PROVE ComponentsAreMutualReach
    BY DEF ComponentsAreMutualReach
  <2>1. \A v \in Nodes : comp[v] \in 0 .. ncomp - 1
    BY AllNumbered DEF WalkInv, Walking
  <2>2. comp \in [Nodes -> Int] /\ N \in Nat \ {0} /\ ncomp \in Nat
    BY GraphAssumption DEF WalkInv, TypeOK
  <2>3. ASSUME NEW u \in Nodes, NEW v \in Nodes
        PROVE  comp[u] = comp[v] <=> (u \in Reach(v) /\ v \in Reach(u))
    <3>1. comp[u] # -1 /\ comp[v] # -1 /\ comp[u] \in Int /\ comp[v] \in Int
      BY <2>1, <2>2
    <3>2. ASSUME comp[u] = comp[v] PROVE u \in Reach(v) /\ v \in Reach(u)
      BY <3>1, <3>2 DEF WalkInv, ComponentsConnected
    <3>3. ASSUME u \in Reach(v), v \in Reach(u) PROVE comp[u] = comp[v]
      <4>1. comp[u] <= comp[v] /\ comp[v] <= comp[u]
        BY <3>1, <3>3, ReachGoesDown
      <4> QED
        BY <3>1, <4>1
    <3> QED
      BY <3>2, <3>3
  <2>4. \A v \in Nodes : lit[Place(v)] = v
    BY <2>2 DEF GroupInv, Nodes
  <2>5. \A i \in Nodes : \E v \in Nodes : i = Place(v) /\ lit[i] = v
    BY <2>2, <2>4, PlaceOnto
  <2>6. {lit[i] : i \in Nodes} = Nodes
    BY <2>2, <2>4, <2>5, PlaceOrder
  <2>7. ASSUME NEW i \in Nodes, NEW j \in Nodes, i < j
        PROVE  Before(lit[i], lit[j])
    <3>1. PICK u \in Nodes : i = Place(u) /\ lit[i] = u
      BY <2>5
    <3>2. PICK v \in Nodes : j = Place(v) /\ lit[j] = v
      BY <2>5
    <3>3. comp[u] \in Int /\ comp[v] \in Int /\ u \in Int /\ v \in Int /\ i \in Int /\ j \in Int
      BY <2>2 DEF Nodes
    <3>4. u # v
      BY <2>7, <3>1, <3>2, <3>3
    <3>5. ~ Before(v, u)
      <4>1. Before(v, u) => Place(v) < Place(u)
        BY <2>2, PlaceOrder
      <4> QED
        BY <2>7, <3>1, <3>2, <3>3, <4>1
    <3> QED
      BY <3>1, <3>2, <3>3, <3>4, <3>5 DEF Before
  <2> QED
    BY <2>3, <2>6, <2>7 DEF ComponentsAreMutualReach, Before
<1> QED
  BY <1>1, <1>2, <1>3, WalkInvariant, PTL DEF Spec
=============================================================================
