------------------------------ MODULE MCSession -----------------------------
(***************************************************************************)
(* A small story for Session: two heroes of whom one is the subject, a foe *)
(* to aim at, two items lying in a room or carried, and a command refused  *)
(* for want of a torch.                                                    *)
(***************************************************************************)
EXTENDS Session

MCDomains ==
  << [name |-> "actor",  union |-> FALSE, items |-> <<"hero", "squire", "foe">>],
     [name |-> "drawn",  union |-> TRUE,  items |-> <<"hero", "squire", "foe", "torch", "key">>],
     [name |-> "item",   union |-> FALSE, items |-> <<"torch", "key">>],
     [name |-> "anchor", union |-> FALSE, items |-> <<"hall", "cellar">>],
     [name |-> "cue",    union |-> FALSE, items |-> <<"q_thrown", "q_taken">>],
     [name |-> "sound",  union |-> FALSE, items |-> <<"snd_crash">>],
     [name |-> "word",   union |-> FALSE, items |-> <<"crash", "mine">>] >>

MCJudgments ==
  [in_anchor |-> <<"actor", "anchor">>, prop_in |-> <<"item", "anchor">>, picked |-> <<"actor">>,
   aimed |-> <<"actor">>, armed |-> <<"actor">>, cue_sound |-> <<"cue", "sound">>,
   cue_word |-> <<"cue", "word">>]

Throws == <<<<"throw", "torch", "hall">>, <<"throw", "torch", "cellar">>,
            <<"throw", "key", "hall">>, <<"throw", "key", "cellar">>>>

MCActionList == Throws \o
  <<<<"take", "torch">>, <<"take", "key">>, <<"strike", "hero", "foe">>,
    <<"strike", "squire", "foe">>, <<"pick_hero">>, <<"pick_squire">>, <<"aim_foe">>>>

MCClickNames == [hero |-> <<<<"pick_hero">>, <<"aim_hero">>>>,
                 squire |-> <<<<"pick_squire">>, <<"aim_squire">>>>,
                 foe |-> <<<<"pick_foe">>, <<"aim_foe">>>>]

\* A world: who is the subject, whether the foe is aimed at, where the items are.
MCGenesis == [sel |-> "hero", aim |-> TRUE, item |-> [torch |-> "hall", key |-> "hero"]]

MCProved(w, name, args) ==
  CASE name = "in_anchor" -> args[2] = IF args[1] = "foe" THEN "cellar" ELSE "hall"
    [] name = "prop_in"   -> w.item[args[1]] = args[2]
    [] name = "picked"    -> w.sel = args[1]
    [] name = "aimed"     -> w.aim /\ args[1] = "foe"
    [] name = "armed"     -> args[1] = "hero" /\ w.item["torch"] = "hero"
    [] name = "cue_sound" -> args = <<"q_thrown", "snd_crash">>
    [] name = "cue_word"  -> args \in {<<"q_thrown", "crash">>, <<"q_taken", "mine">>}

MCBlockers(w, t) ==
  CASE t[1] = "throw"  -> IF w.item[t[2]] = "hero" THEN {} ELSE {<<"carried", t[2]>>}
    [] t[1] = "take"   -> IF w.item[t[2]] = "hero" THEN {<<"lying", t[2]>>} ELSE {}
    [] t[1] = "strike" -> IF MCProved(w, "armed", <<t[2]>>) THEN {} ELSE {<<"armed", t[2]>>}
    [] t[1] = "pick_hero"   -> IF w.sel = "hero" THEN {<<"unpicked">>} ELSE {}
    [] t[1] = "pick_squire" -> IF w.sel = "squire" THEN {<<"unpicked">>} ELSE {}
    [] t[1] = "aim_foe"     -> IF w.aim THEN {<<"unaimed">>} ELSE {}

MCApplies(w, t) == MCBlockers(w, t) = {}

Effect(w, t) ==
  CASE t[1] = "throw" -> [w EXCEPT !.item[t[2]] = t[3]]
    [] t[1] = "take"  -> [w EXCEPT !.item[t[2]] = "hero"]
    [] t[1] = "strike" -> [w EXCEPT !.aim = FALSE]
    [] t[1] = "pick_hero"   -> [w EXCEPT !.sel = "hero"]
    [] t[1] = "pick_squire" -> [w EXCEPT !.sel = "squire"]
    [] t[1] = "aim_foe"     -> [w EXCEPT !.aim = TRUE]

\* Actions that do not apply spend the turn; two throws of one thing clash.
MCStepOf(w, acts) ==
  LET live  == SelectSeq(acts, LAMBDA t : MCApplies(w, t))
      clash == \E i, j \in DOMAIN live : live[i][1] = "throw" /\ live[j][1] = "throw"
                                          /\ live[i][2] = live[j][2] /\ live[i] # live[j]
      cue(t) == IF t[1] = "throw" THEN <<"thrown">> ELSE IF t[1] = "take" THEN <<"taken">> ELSE <<>>
  IN  IF clash THEN [ok |-> FALSE, world |-> w, emits |-> <<>>]
      ELSE [ok |-> TRUE, world |-> FoldLeft(Effect, w, live),
            emits |-> FlattenSeq([k \in DOMAIN live |-> cue(live[k])])]

MCCueOf(e) == IF e = "thrown" THEN "q_thrown" ELSE "q_taken"

MCBoxOf(w, anchor) ==
  CASE anchor = "a_menu" -> [x |-> 8, y |-> 244, w |-> 176, h |-> 12]
    [] anchor = "hall"   -> [x |-> 200, y |-> 40, w |-> 200, h |-> 100]
    [] anchor = "cellar" -> [x |-> 200, y |-> 200, w |-> 200, h |-> 100]

MCStoredId(id) == id

Device(pad, left, confirm) ==
  [keys |-> {}, pad |-> pad, left |-> left, confirm |-> confirm, cancel |-> FALSE]

\* Nothing; a d-pad press; a confirm; a click on the third or the fourth row, on
\* the squire, on the foe.
MCInputs ==
  {RawInput(Device({}, FALSE, FALSE), <<0, 0>>),
   RawInput(Device({"down"}, FALSE, FALSE), <<0, 0>>),
   RawInput(Device({}, FALSE, TRUE), <<0, 0>>)}
  \cup {RawInput(Device({}, TRUE, FALSE), at) : at \in {<<10, 276>>, <<10, 291>>, <<266, 70>>, <<226, 230>>}}

MCScripts == {<<>>, <<Throws[3], Throws[4]>>, <<<<"take", "torch">>, Throws[3], <<"aim_foe">>>>}

MCForeign == {[story |-> "other", lines |-> <<<<Throws[3]>>>>],
              [story |-> "", lines |-> <<<<Throws[3], Throws[4]>>, <<>>,
                                         <<<<"take", "torch">>, Throws[3], Throws[4]>>>>]}

MCWindows == {[w |-> 1300, h |-> 740], [w |-> 640, h |-> 360], [w |-> 611, h |-> 333]}
=============================================================================
