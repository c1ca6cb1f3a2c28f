------------------------------ MODULE DLTarjan ------------------------------
(***************************************************************************)
(* src/logic/dl_graph.c: dl_tarjan, the iterative strongly-connected-      *)
(* components pass over explicit frames, followed by dl_group_by_comp.     *)
(* One action per iteration of the loops; the graph is arbitrary.          *)
(***************************************************************************)
EXTENDS Integers, Sequences, FiniteSets

CONSTANTS N,            \* number of nodes
          EdgeLists     \* adjacency lists a node may have (aoff / ato slices)

Nodes == 0 .. N - 1

ASSUME GraphAssumption == N \in Nat \ {0} /\ EdgeLists \subseteq Seq(Nodes)

VARIABLES
  adj,      \* [node -> its slice of ato]
  pc,       \* "roots", "walk", "group", "done"
  root,     \* the outer loop's root
  idx, low, \* discovery index (-1 before) and low link
  counter,
  stk,      \* component stack, top last; onstk is membership in it
  onstk,
  frames,   \* explicit recursion frames [v, e]: node and next edge position
  comp,     \* component id of every node, -1 until assigned
  ncomp,
  grp,      \* dl_group_by_comp: next node to place
  fill, lit \* its fill cursors and the grouped members

vars == <<adj, pc, root, idx, low, counter, stk, onstk, frames, comp, ncomp, grp, fill, lit>>
groupVars == <<grp, fill, lit>>

Init ==
  /\ adj \in [Nodes -> EdgeLists]
  /\ pc = "roots" /\ root = 0
  /\ idx = [v \in Nodes |-> -1] /\ low = [v \in Nodes |-> -1] /\ counter = 0
  /\ stk = <<>> /\ onstk = {} /\ frames = <<>>
  /\ comp = [v \in Nodes |-> -1] /\ ncomp = 0
  /\ grp = 0 /\ fill = <<>> /\ lit = <<>>

top  == frames[Len(frames)]
pop(s) == SubSeq(s, 1, Len(s) - 1)

\* idx[v] = low[v] = counter++, push v, open a frame for it.
Discover(v) ==
  /\ idx' = [idx EXCEPT ![v] = counter]
  /\ low' = [low EXCEPT ![v] = counter]
  /\ counter' = counter + 1
  /\ stk' = Append(stk, v)
  /\ onstk' = onstk \cup {v}

\* The outer loop: the next undiscovered root starts a walk.
NextRoot ==
  /\ pc = "roots" /\ root < N
  /\ IF idx[root] >= 0
     THEN /\ root' = root + 1
          /\ UNCHANGED <<pc, idx, low, counter, stk, onstk, frames>>
     ELSE /\ Discover(root)
          /\ frames' = <<[v |-> root, e |-> 1]>>
          /\ pc' = "walk"
          /\ UNCHANGED root
  /\ UNCHANGED <<adj, comp, ncomp, groupVars>>

\* frame_e[fp]++
Advance == [frames EXCEPT ![Len(frames)].e = @ + 1]

\* onstk[w] && idx[w] < low[v] (mutant: back edges are not looked at).
LowersLinkNever(w, v) == FALSE
LowersLink(w, v) == w \in onstk /\ idx[w] < low[v]

\* The top frame takes its next edge: a tree edge opens a frame, an edge to a
\* node on the stack may lower the link, any other edge is skipped.
TakeEdge ==
  /\ pc = "walk" /\ frames # <<>>
  /\ top.e <= Len(adj[top.v])
  /\ LET w == adj[top.v][top.e]
     IN  IF idx[w] < 0
         THEN /\ Discover(w)
              /\ frames' = Append(Advance, [v |-> w, e |-> 1])
         ELSE /\ frames' = Advance
              /\ low' = IF LowersLink(w, top.v)
                        THEN [low EXCEPT ![top.v] = idx[w]] ELSE low
              /\ UNCHANGED <<idx, counter, stk, onstk>>
  /\ UNCHANGED <<adj, pc, root, comp, ncomp, groupVars>>

\* The frame below takes over a smaller link (mutant: it keeps its own).
InheritNot(v, below) == low
Inherit(v, below) ==
  IF below # <<>> /\ low[v] < low[below[Len(below)].v]
  THEN [low EXCEPT ![below[Len(below)].v] = low[v]] ELSE low

\* The top frame is out of edges: a root of a component pops it off the stack,
\* and the frame below inherits the low link.
CloseFrame ==
  /\ pc = "walk" /\ frames # <<>>
  /\ top.e > Len(adj[top.v])
  /\ LET v == top.v
         below == pop(frames)
         cut == CHOOSE i \in DOMAIN stk : stk[i] = v
         members == {stk[i] : i \in cut .. Len(stk)}
     IN  /\ IF low[v] = idx[v]
            THEN /\ stk' = SubSeq(stk, 1, cut - 1)
                 /\ onstk' = onstk \ members
                 /\ comp' = [x \in Nodes |-> IF x \in members THEN ncomp ELSE comp[x]]
                 /\ ncomp' = ncomp + 1
            ELSE UNCHANGED <<stk, onstk, comp, ncomp>>
         /\ frames' = below
         /\ low' = Inherit(v, below)
  /\ UNCHANGED <<adj, pc, root, idx, counter, groupVars>>

WalkEnds ==
  /\ pc = "walk" /\ frames = <<>>
  /\ pc' = "roots"
  /\ root' = root + 1
  /\ UNCHANGED <<adj, idx, low, counter, stk, onstk, frames, comp, ncomp, groupVars>>

\* dl_group_by_comp: offsets are prefix sums of the component sizes.
Offset(c) == Cardinality({v \in Nodes : comp[v] < c})

StartGroup ==
  /\ pc = "roots" /\ root = N
  /\ pc' = "group"
  /\ fill' = [c \in 0 .. ncomp - 1 |-> Offset(c)]
  /\ lit' = [i \in Nodes |-> -1]
  /\ UNCHANGED <<adj, root, idx, low, counter, stk, onstk, frames, comp, ncomp, grp>>

\* (*lit)[fill[comp[i]]++] = i
PlaceNode ==
  /\ pc = "group" /\ grp < N
  /\ lit' = [lit EXCEPT ![fill[comp[grp]]] = grp]
  /\ fill' = [fill EXCEPT ![comp[grp]] = @ + 1]
  /\ grp' = grp + 1
  /\ UNCHANGED <<adj, pc, root, idx, low, counter, stk, onstk, frames, comp, ncomp>>

Finish ==
  /\ pc = "group" /\ grp = N
  /\ pc' = "done"
  /\ UNCHANGED <<adj, root, idx, low, counter, stk, onstk, frames, comp, ncomp, groupVars>>

Next == NextRoot \/ TakeEdge \/ CloseFrame \/ WalkEnds \/ StartGroup \/ PlaceNode \/ Finish

Spec == Init /\ [][Next]_vars /\ WF_vars(Next)

-----------------------------------------------------------------------------
(* Reference: reachability.                                                *)

\* A set no edge leaves.
Closed(C) == \A v \in C : \A i \in DOMAIN adj[v] : adj[v][i] \in C

\* What a walk along edges from v can reach: what no closed set with v misses.
Reach(v) == {w \in Nodes : \A C \in SUBSET Nodes : v \in C /\ Closed(C) => w \in C}

-----------------------------------------------------------------------------
(* Properties.                                                             *)

\* Two nodes share a component exactly when each reaches the other, and the
\* members of a component are one contiguous slice, by ascending index (the two
\* halves of dl_tarjan and dl_group_by_comp).
ComponentsAreMutualReach ==
  pc = "done" =>
    /\ \A u, v \in Nodes : comp[u] = comp[v] <=> (u \in Reach(v) /\ v \in Reach(u))
    /\ {lit[i] : i \in Nodes} = Nodes
    /\ \A i, j \in Nodes : i < j =>
         \/ comp[lit[i]] < comp[lit[j]]
         \/ comp[lit[i]] = comp[lit[j]] /\ lit[i] < lit[j]

\* The numbering both callers rely on: an edge never leads to a higher id, so
\* descending ids visit a literal after everything it reads (build_sched). It
\* holds from the moment a component is numbered.
ReverseTopological ==
  \A u \in Nodes : comp[u] # -1 =>
    \A i \in DOMAIN adj[u] : comp[adj[u][i]] # -1 /\ comp[adj[u][i]] <= comp[u]

=============================================================================
