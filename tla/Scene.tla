-------------------------------- MODULE Scene -------------------------------
(***************************************************************************)
(* The renderer that has never heard of the game: src/runtime/scene.c and  *)
(* the lookups of src/runtime/iface.c it crosses domains with.             *)
(*                                                                         *)
(* A scene is what the world proved of the blessed vocabulary at the last  *)
(* rebuild: the occupants of the regions in order, the subject and what a  *)
(* command is aimed at, and the menu.  A ground action is the tuple of its *)
(* name and arguments; a target's id says whether it is a command or an    *)
(* entity.  The world is asked through the CONSTANT operators, which stand *)
(* for world_query, world_get_value, world_action_status_of and            *)
(* world_action_blockers.                                                  *)
(***************************************************************************)
EXTENDS Integers, Sequences, SequencesExt, FiniteSetsExt

CONSTANTS Domains,      \* Seq([name, union, items]): the artifact's domains in order
          Judgments,    \* judgment -> sequence of the domains of its arguments
          ActionList,   \* world_actions: the ground actions, in order
          ClickNames,   \* entity -> its pick_ and aim_ actions
          Proved(_, _, _),   \* (world, judgment, arguments)
          Applies(_, _),     \* (world, action): WORLD_ACTION_APPLIES
          Blockers(_, _),    \* (world, action): the guards that do not hold
          BoxOf(_, _),       \* (world, anchor): ax, ay, aw, ah as derived values
          MaxSlots,     \* S_MAXSLOTS
          MaxMenu       \* S_MAXMENU

ASSUME ActionListAssumption == ActionList \in Seq(ToSet(ActionList))
ASSUME MaxMenuAssumption == MaxMenu \in Nat

None == <<>>

\* The elements of s at the positions at, in order.
Keep(s, at) == FlattenSeq([k \in DOMAIN s |-> IF k \in at THEN <<s[k]>> ELSE <<>>])

-----------------------------------------------------------------------------
(* The interface artifact.                                                 *)

\* find_dom: the items of a domain, none if the artifact does not name it.
DomainItems(name) ==
  LET at == {i \in DOMAIN Domains : Domains[i].name = name}
  IN  IF at = {} THEN <<>> ELSE Domains[Min(at)].items

\* iface_sort_of: the domain that declared an entity, never a cover.
SortOf(e) ==
  LET at == {i \in DOMAIN Domains : ~ Domains[i].union /\ Contains(Domains[i].items, e)}
  IN  IF at = {} THEN "" ELSE Domains[Min(at)].name

\* enumerate: the proved instances of a judgment of arity 1 or 2, crossing its
\* argument domains in declaration order, at most cap of them.
Enumerate(w, name, cap) ==
  IF name \notin DOMAIN Judgments \/ Len(Judgments[name]) \notin 1 .. 2 THEN <<>>
  ELSE LET doms  == [k \in DOMAIN Judgments[name] |-> DomainItems(Judgments[name][k])]
           cross == IF Len(doms) = 1 THEN [i \in DOMAIN doms[1] |-> <<doms[1][i]>>]
                    ELSE FlattenSeq([i \in DOMAIN doms[1] |->
                           [j \in DOMAIN doms[2] |-> <<doms[1][i], doms[2][j]>>]])
           found == SelectSeq(cross, LAMBDA args : Proved(w, name, args))
       IN  SubSeq(found, 1, Min({cap, Len(found)}))

-----------------------------------------------------------------------------
(* The menu.                                                               *)

NameOf(t) == Head(t)
ArgsOf(t) == Tail(t)

Clickable == UNION {ToSet(ClickNames[e]) : e \in DOMAIN ClickNames}

\* offerable: exactly one guard refuses it, and that guard is a judgment.
Offerable(w, t) ==
  Cardinality(Blockers(w, t)) = 1 /\ \A b \in Blockers(w, t) : NameOf(b) \in DOMAIN Judgments

\* mine: hide a row naming something of the subject's kind that is neither the
\* subject nor what it is aimed at.
Mine(t, kin, subjects) ==
  kin # "" /\ \A k \in DOMAIN ArgsOf(t) :
                SortOf(ArgsOf(t)[k]) = kin => ArgsOf(t)[k] \in subjects

Distinct(s) == Keep(s, {k \in DOMAIN s : \A j \in 1 .. k - 1 : s[j] # s[k]})

OkRow(t) == [term |-> t, ok |-> TRUE, blocker |-> None]

\* The rows of one verb: every applicable instance, or one refused instance.
VerbRows(w, terms) ==
  LET applicable == Keep(terms, {k \in DOMAIN terms : Applies(w, terms[k])})
      refused    == {k \in DOMAIN terms : Offerable(w, terms[k])}
      refusal(t) == [term |-> t, ok |-> FALSE, blocker |-> CHOOSE b \in Blockers(w, t) : TRUE]
  IN  IF applicable # <<>> THEN [k \in DOMAIN applicable |-> OkRow(applicable[k])]
      ELSE IF refused # {} THEN <<refusal(terms[Min(refused)])>> ELSE <<>>

\* Mutant: a label compares an argument with the next row's only.
LabelOfNeighbour(rows, i) ==
  LET args == ArgsOf(rows[i].term)
      peer == {j \in {i + 1} \cap DOMAIN rows : NameOf(rows[j].term) = NameOf(rows[i].term)}
      differs(k) == \E j \in peer : k \in DOMAIN ArgsOf(rows[j].term) /\ ArgsOf(rows[j].term)[k] # args[k]
  IN  <<NameOf(rows[i].term)>> \o [n \in 1 .. Cardinality({k \in DOMAIN args : differs(k)}) |->
         args[SetToSortSeq({k \in DOMAIN args : differs(k)}, <)[n]]]

\* A row is labelled by its verb and the arguments that tell it from its peers.
LabelOf(rows, i) ==
  LET args  == ArgsOf(rows[i].term)
      peers == {j \in DOMAIN rows \ {i} : NameOf(rows[j].term) = NameOf(rows[i].term)}
      differs(k) == \E j \in peers : k \in DOMAIN ArgsOf(rows[j].term) /\ ArgsOf(rows[j].term)[k] # args[k]
      shown == SetToSortSeq({k \in DOMAIN args : differs(k)}, <)
  IN  <<NameOf(rows[i].term)>> \o [n \in DOMAIN shown |-> args[shown[n]]]

\* build_menu: the subject's verbs in order, their rows, labels and boxes.
BuildMenu(w, picked, aimed) ==
  LET kin   == IF picked = None THEN "" ELSE SortOf(picked[1])
      mine  == Keep(ActionList, {k \in DOMAIN ActionList :
                 /\ ActionList[k] \notin Clickable
                 /\ Mine(ActionList[k], kin, ToSet(picked) \cup ToSet(aimed))})
      names == Distinct([k \in DOMAIN mine |-> NameOf(mine[k])])
      verbs == SubSeq(names, 1, Min({MaxMenu, Len(names)}))
      all   == FlattenSeq([v \in DOMAIN verbs |->
                 VerbRows(w, Keep(mine, {k \in DOMAIN mine : NameOf(mine[k]) = verbs[v]}))])
      rows  == SubSeq(all, 1, Min({MaxMenu, Len(all)}))
      box   == BoxOf(w, "a_menu")
  IN  [i \in DOMAIN rows |->
         [term |-> rows[i].term, ok |-> rows[i].ok, blocker |-> rows[i].blocker,
          label |-> LabelOf(rows, i), x |-> box.x, y |-> box.y + (i - 1) * (box.h + 3),
          w |-> box.w, h |-> box.h]]

-----------------------------------------------------------------------------
(* The model and its drawing.                                              *)

Occupants(w) ==
  LET all == Enumerate(w, "in_anchor", MaxSlots) \o Enumerate(w, "prop_in", MaxSlots)
  IN  SubSeq(all, 1, Min({MaxSlots, Len(all)}))

First(s) == IF s = <<>> THEN None ELSE Head(s)

\* scene_rebuild: everything re-derived; nothing is drawn yet.
Rebuild(w) ==
  LET picked == First(Enumerate(w, "picked", 4))
      aimed  == First(Enumerate(w, "aimed", 4))
      occ    == Occupants(w)
  IN  [slots  |-> [i \in DOMAIN occ |-> [e |-> occ[i][1], anchor |-> occ[i][2],
                                         x |-> 0, y |-> 0, drawn |-> FALSE]],
       picked |-> picked, aimed |-> aimed, menu |-> BuildMenu(w, picked, aimed)]

\* scene_new: an empty model.
EmptyScene == [slots |-> <<>>, picked |-> None, aimed |-> None, menu |-> <<>>]

\* Where a region packs its k-th occupant.
SlotAt(w, slots, i) ==
  LET k == Cardinality({j \in 1 .. i - 1 : slots[j].anchor = slots[i].anchor})
      b == BoxOf(w, slots[i].anchor)
  IN  <<b.x + 24 + (k % 4) * 40, b.y + 28 + (k \div 4) * 44>>

\* scene_draw: every occupant gets its place, and has been drawn.
Drawn(w, s) ==
  [s EXCEPT !.slots = [i \in DOMAIN s.slots |->
     [s.slots[i] EXCEPT !.x = SlotAt(w, s.slots, i)[1], !.y = SlotAt(w, s.slots, i)[2],
                        !.drawn = TRUE]]]

-----------------------------------------------------------------------------
(* Input.                                                                  *)

CommandId(t) == <<"cmd">> \o t
EntityId(e)  == <<"ent", e>>

\* scene_targets: menu commands first, then the entities drawn, at most cap.
SceneTargets(s, cap) ==
  LET cmds == [i \in DOMAIN s.menu |->
                 [id |-> CommandId(s.menu[i].term), x |-> s.menu[i].x, y |-> s.menu[i].y,
                  w |-> s.menu[i].w, h |-> s.menu[i].h]]
      there == SelectSeq(s.slots, LAMBDA o : o.drawn)
      ents == [i \in DOMAIN there |->
                 [id |-> EntityId(there[i].e), x |-> there[i].x - 3, y |-> there[i].y - 3,
                  w |-> 22, h |-> 22]]
      all  == cmds \o ents
  IN  SubSeq(all, 1, Min({cap, Len(all)}))

\* scene_target: the row or the entity a confirmed id stands for.
RowOf(s, id)    == {i \in DOMAIN s.menu : CommandId(s.menu[i].term) = id}
EntityOf(s, id) == {i \in DOMAIN s.slots : EntityId(s.slots[i].e) = id}

\* scene_pick_action: the applicable pick_ or aim_ action of an entity.
PickAction(w, e) ==
  Keep(ActionList, {k \in DOMAIN ActionList :
    /\ e \in DOMAIN ClickNames /\ Contains(ClickNames[e], ActionList[k])
    /\ Applies(w, ActionList[k])})
=============================================================================
