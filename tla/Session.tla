------------------------------- MODULE Session ------------------------------
(***************************************************************************)
(* Playing a story: the loop of src/runtime/runtime.c joining a world, a   *)
(* platform and a cart, the pure cart of src/runtime/purecart.c, and the   *)
(* player of src/player/main.c that owns the clock and the save file.      *)
(*                                                                         *)
(* Tick is one rt_step, Frame one rt_render, and any number of ticks may   *)
(* pass between frames.  The world is seen from outside: StepOf stands for *)
(* world_step (WorldStep models it) and the questions of Scene for the     *)
(* queries.  A scripted cart proposes anything, as a native cart may.      *)
(***************************************************************************)
EXTENDS Platform, Scene

CONSTANTS Genesis,      \* the world a freshly compiled story starts from
          StepOf(_, _), \* (world, actions) -> [ok, world, emits]
          CueOf(_),     \* an emission's row in the cue tables
          Carts,        \* subset of {"pure", "script"}
          Scripts,      \* what a scripted cart may propose in a tick
          Inputs,       \* what a device may report at a sample
          Story,        \* the story this player runs
          Foreign,      \* save files from elsewhere: [story, lines]
          MaxActions,   \* RT_MAX_ACTIONS
          MaxFx,        \* PC_MAXFX
          Life,         \* frames a floating word lives
          MaxTicks,     \* bound on the ticks of one run of the player
          MaxRuns,      \* bound on the runs of the player, of which all but the first load
          MaxLag        \* bound on the ticks between two frames

VARIABLES run,       \* which run of the player this is
          cart,      \* the cart it plays
          world,     \* the world
          emits,     \* world_emits: the cues of the last step
          rt,        \* [tick, rejected, log, feed, atfeed, replaying]
          plat,      \* the platform
          scene,     \* the pure cart's scene
          why,       \* the refused guard whose trace is on show, or None
          fx,        \* the floating words: <<word, life>>
          played,    \* the sounds of the last tick
          frame,     \* what the last frame showed: [boxes, lag]
          disk,      \* the save file on disk, if any
          saved      \* history: the world the file on disk was saved from

rtvars == <<world, emits, rt>>
pcvars == <<scene, why, fx, played>>
vars   == <<run, cart, rtvars, plat, pcvars, frame, disk, saved>>

NoFile == [story |-> "", lines |-> <<>>]

FreshRuntime == [tick |-> 0, rejected |-> FALSE, log |-> <<>>, feed |-> <<>>, atfeed |-> 0,
                 replaying |-> FALSE]

NoFrame == [boxes |-> {}, lag |-> 0]

\* main, rt_open and pc_init: a world compiled afresh and its first scene.
Init ==
  /\ run = 1
  /\ cart \in Carts
  /\ world = Genesis
  /\ emits = <<>>
  /\ rt = FreshRuntime
  /\ plat = OpenPlatform
  /\ scene = IF cart = "pure" THEN Rebuild(Genesis) ELSE EmptyScene
  /\ why = None /\ fx = <<>> /\ played = <<>>
  /\ frame = NoFrame
  /\ disk = NoFile
  /\ saved = Genesis

-----------------------------------------------------------------------------
(* The pure cart.                                                          *)

\* Mutant: a refused row is submitted like any other.
ProposalOfAny(w, s, id) ==
  CASE RowOf(s, id) # {}    -> <<s.menu[Min(RowOf(s, id))].term>>
    [] EntityOf(s, id) # {} -> SubSeq(PickAction(w, id[2]), 1, Min({1, Len(PickAction(w, id[2]))}))
    [] OTHER                -> <<>>

\* pc_tick: the command confirmed, if it applies, or the click action of the
\* entity confirmed.
ProposalOf(w, s, id) ==
  CASE RowOf(s, id) # {} ->
         LET row == s.menu[Min(RowOf(s, id))] IN IF row.ok THEN <<row.term>> ELSE <<>>
    [] RowOf(s, id) = {} /\ EntityOf(s, id) # {} ->
         SubSeq(PickAction(w, id[2]), 1, Min({1, Len(PickAction(w, id[2]))}))
    [] OTHER -> <<>>

\* A refused command shows the guard that refused it; any other confirmation
\* clears the trace.
WhyAfter(s, id, old) ==
  IF id = NoId THEN old
  ELSE IF RowOf(s, id) # {} /\ ~ s.menu[Min(RowOf(s, id))].ok THEN s.menu[Min(RowOf(s, id))].blocker
  ELSE None

\* pc_after, the cues: every row of the two tables a cue of this tick matches.
CueRows(w, table, cues) ==
  FlattenSeq([i \in DOMAIN cues |->
    SelectSeq(Enumerate(w, table, 64), LAMBDA row : row[1] = CueOf(cues[i]))])

FloatersAfter(w, cues, old) ==
  LET words == CueRows(w, "cue_word", cues)
      all   == old \o [i \in DOMAIN words |-> <<words[i][2], Life>>]
  IN  SubSeq(all, 1, Max({Len(old), Min({MaxFx, Len(all)})}))

-----------------------------------------------------------------------------
(* The loop.                                                               *)

\* Mutant: the log is fed only while the cart proposes nothing.
DisposedCartFirst(proposal) ==
  LET cut == SubSeq(proposal, 1, Min({MaxActions, Len(proposal)}))
  IN  IF ~ rt.replaying \/ cut # <<>> THEN cut
      ELSE IF rt.atfeed < Len(rt.feed) THEN rt.feed[rt.atfeed + 1] ELSE <<>>

\* Who decides: live the cart's proposal, replaying the log's next entry, and
\* nothing once it has run out.
Disposed(proposal) ==
  LET cut == SubSeq(proposal, 1, Min({MaxActions, Len(proposal)}))
  IN  IF ~ rt.replaying THEN cut
      ELSE IF rt.atfeed < Len(rt.feed) THEN rt.feed[rt.atfeed + 1] ELSE <<>>

\* Mutant: a step fed from a log is not logged again.
LogAfterLive(acts, ok) == IF acts = <<>> \/ ~ ok \/ rt.replaying THEN rt.log ELSE Append(rt.log, acts)

\* log_push: only a step the world took.
LogAfter(acts, ok) == IF acts = <<>> \/ ~ ok THEN rt.log ELSE Append(rt.log, acts)

\* world_step as its caller sees it: a refused step leaves the world as it was
\* and has reported nothing (WorldStep's RejectedStepChangesNothing).
Take(w, acts) ==
  LET s == StepOf(w, acts) IN IF s.ok THEN s ELSE [ok |-> FALSE, world |-> w, emits |-> <<>>]

\* rt_step with the input sample raw.
Tick(raw) ==
  /\ rt.tick < MaxTicks /\ frame.lag < MaxLag
  /\ run = 1 \/ rt.replaying
  /\ LET sampled  == SampleInput(plat, raw)
         declared == IF cart = "pure" THEN FocusTargets(sampled, SceneTargets(scene, MaxTargets))
                     ELSE sampled
         id       == declared.confirmed
     IN \E proposal \in (IF cart = "pure" THEN {ProposalOf(world, scene, id)} ELSE Scripts) :
          LET acts == Disposed(proposal)
              took == IF acts = <<>> THEN [ok |-> TRUE, world |-> world, emits |-> emits]
                      ELSE Take(world, acts)
          IN  /\ world' = took.world
              /\ emits' = took.emits
              /\ rt' = [rt EXCEPT !.tick = @ + 1, !.rejected = ~ took.ok,
                                  !.log = LogAfter(acts, took.ok),
                                  !.atfeed = Min({@ + 1, Len(rt.feed)})]
              /\ plat' = declared
              /\ IF cart = "pure"
                   THEN /\ why' = WhyAfter(scene, id, why)
                        /\ played' = CueRows(world', "cue_sound", emits')
                        /\ fx' = FloatersAfter(world', emits', fx)
                        /\ scene' = Rebuild(world')
                   ELSE UNCHANGED pcvars
  /\ frame' = [frame EXCEPT !.lag = @ + 1]
  /\ UNCHANGED <<run, cart, disk, saved>>

\* What a frame puts on the screen, back to front: rows and occupants.
BoxesShown(s) ==
  {[id |-> CommandId(s.menu[i].term), x |-> s.menu[i].x, y |-> s.menu[i].y,
    w |-> s.menu[i].w, h |-> s.menu[i].h] : i \in DOMAIN s.menu}
    \cup {[id |-> EntityId(s.slots[i].e), x |-> s.slots[i].x - 3, y |-> s.slots[i].y - 3,
           w |-> 22, h |-> 22] : i \in DOMAIN s.slots}

\* rt_render: pc_draw draws the scene and ages the floating words.
Frame ==
  /\ frame.lag > 0
  /\ IF cart = "pure"
       THEN /\ scene' = Drawn(world, scene)
            /\ fx' = SelectSeq([i \in DOMAIN fx |-> <<fx[i][1], fx[i][2] - 1>>],
                               LAMBDA f : f[2] > 0)
            /\ frame' = [boxes |-> BoxesShown(scene'), lag |-> 0]
       ELSE UNCHANGED <<scene, fx>> /\ frame' = [frame EXCEPT !.lag = 0]
  /\ UNCHANGED <<run, cart, rtvars, plat, why, played, disk, saved>>

-----------------------------------------------------------------------------
(* The save file.                                                          *)

Cut(line) == SubSeq(line, 1, Min({MaxActions, Len(line)}))

\* rt_load: refused in a played world, and for another story's file; else the
\* file is the feed, blank lines left out and lines cut to RT_MAX_ACTIONS.
\* main loads once, before the first tick.
Load(file) ==
  /\ rt.tick = 0 /\ rt.log = <<>>
  /\ ~ rt.replaying
  /\ file # NoFile
  /\ file.story \in {"", Story}
  /\ LET lines == SelectSeq(file.lines, LAMBDA l : l # <<>>)
     IN  rt' = [rt EXCEPT !.feed = [k \in DOMAIN lines |-> Cut(lines[k])],
                          !.atfeed = 0, !.replaying = TRUE]
  /\ UNCHANGED <<run, cart, world, emits, plat, pcvars, frame, disk, saved>>

\* The player ends, writing the log to disk if it was asked to (rt_save), and
\* another is started on the same story.
Quit(save) ==
  /\ run < MaxRuns
  /\ run' = run + 1
  /\ disk' = IF save THEN [story |-> Story, lines |-> rt.log] ELSE disk
  /\ saved' = IF save THEN world ELSE saved
  /\ cart' \in Carts
  /\ world' = Genesis /\ emits' = <<>> /\ rt' = FreshRuntime /\ plat' = OpenPlatform
  /\ scene' = IF cart' = "pure" THEN Rebuild(Genesis) ELSE EmptyScene
  /\ why' = None /\ fx' = <<>> /\ played' = <<>> /\ frame' = NoFrame

Play == \E raw \in Inputs : Tick(raw)

Next == Play \/ Frame \/ (\E file \in {disk} \cup Foreign : Load(file))
          \/ (\E save \in BOOLEAN : Quit(save))

\* The player's loop keeps stepping and drawing.
Spec == Init /\ [][Next]_vars /\ WF_vars(Play) /\ WF_vars(Frame)

-----------------------------------------------------------------------------
(* Properties.                                                             *)

CONSTANTS Windows  \* sizes of the window a player may see the frame in

\* The world a log leads to, over a freshly compiled one.
HistoryOf(log) == FoldLeft(LAMBDA w, acts : StepOf(w, acts).world, Genesis, log)

\* The action log is the whole history: folding it over a fresh world gives the
\* world, whatever was proposed, refused or replayed (runtime.h, "the action log
\* and the resulting state are a pure function of each other").
LogIsTheHistory == world = HistoryOf(rt.log)

\* A save loads: when the saved log has been fed, the world is the one that was
\* saved and the log is the one on disk, whichever cart drives (rt_load).
LoadRestoresTheSave ==
  rt.replaying /\ disk # NoFile /\ rt.feed = disk.lines /\ rt.atfeed = Len(rt.feed)
    => world = saved /\ rt.log = disk.lines

\* The platform after a tick's declaration with the input raw.
Declared(raw, s) == FocusTargets(SampleInput(plat, raw), SceneTargets(s, MaxTargets))

\* Whatever the player does next, what the pure cart submits applies to the
\* world it is submitted to (pc_tick).
SubmitsWhatApplies ==
  cart = "pure" => \A raw \in Inputs :
    LET acts == ProposalOf(world, scene, Declared(raw, scene).confirmed)
    IN  acts # <<>> => Applies(world, acts[1])

\* Every choice the engine offers can be told from the others and taken: no two
\* rows of a menu read the same, and an applicable action that is
\* nobody else's business is what some focusable region submits, once the scene
\* is drawn (build_menu, scene_pick_action, scene_targets, pc_tick).
ChoicesAreReachable ==
  /\ \A i, j \in DOMAIN scene.menu : scene.menu[i].label = scene.menu[j].label => i = j
  /\ cart = "pure" /\ frame.lag = 0 /\ frame.boxes # {} =>
    LET subjects == ToSet(scene.picked) \cup ToSet(scene.aimed)
        kin      == SortOf(scene.picked[1])
        submits  == {ProposalOf(world, scene, StoredId(b.id)) : b \in ToSet(SceneTargets(scene, MaxTargets))}
    IN  \A t \in ToSet(ActionList) :
          Applies(world, t) /\ (t \in Clickable \/ Mine(t, kin, subjects)) => <<t>> \in submits

\* The first and the last window pixel of a box of the frame, where on screen.
CornersOnScreen(b, box, win) ==
  {px \in {<<box.x + b.x * box.scale, box.y + b.y * box.scale>>,
           <<box.x + (b.x + b.w) * box.scale - 1, box.y + (b.y + b.h) * box.scale - 1>>} :
     px[1] \in 0 .. win.w - 1 /\ px[2] \in 0 .. win.h - 1}

\* A fresh click at a pixel of the window.
ClickAt(px, win) ==
  RawInput([keys |-> {}, pad |-> {}, left |-> TRUE, confirm |-> FALSE, cancel |-> FALSE],
           ToInternal(px[1], px[2], Letterbox(win.w, win.h, 640, 360), 640, 360))

\* What is clicked is what is seen: on a frame that is up to date, a click on
\* the picture of a row or an occupant, in any window, confirms that row or
\* occupant (spec_to_internal, scene_targets, focus_resolve).
ClicksHitWhatIsShown ==
  cart = "pure" /\ frame.lag = 0 /\ ~ plat.cur.left =>
    \A win \in Windows : \A b \in frame.boxes :
      \A px \in CornersOnScreen(b, Letterbox(win.w, win.h, 640, 360), win) :
        Declared(ClickAt(px, win), scene).confirmed = StoredId(b.id)

=============================================================================
