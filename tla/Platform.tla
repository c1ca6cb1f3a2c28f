------------------------------ MODULE Platform ------------------------------
(***************************************************************************)
(* The cart-facing platform: src/platform/platform.c over a backend, and   *)
(* the letterbox of src/platform/spec.c.                                   *)
(*                                                                         *)
(* The platform is a record p: the input sample of this tick and of the    *)
(* one before, the focusable targets a cart declared, and the focus.       *)
(* Colours, fonts, sheets and sounds are data the backend is handed and    *)
(* are left out; so is the error text.                                     *)
(***************************************************************************)
EXTENDS Integers, Sequences, SequencesExt, FiniteSetsExt

CONSTANTS MaxTargets,  \* PLAT_MAX_TARGETS
          StoredId(_)  \* what PLAT_MAX_ID bytes keep of a target's id

NoId == <<>>

\* spec_nav, in the order of SPEC_NAV_DIRS.
NavDirs == <<"left", "right", "up", "down">>

-----------------------------------------------------------------------------
(* The letterbox and its inverse.                                          *)

FloorDiv(a, b) == a \div b

\* spec_letterbox: the largest integer scale that fits, at least 1, centred.
Letterbox(dw, dh, iw, ih) ==
  LET scale == Max({1, Min({dw \div iw, dh \div ih})})
      half(d) == IF d >= 0 THEN d \div 2 ELSE -((1 - d) \div 2)
  IN  [scale |-> scale, w |-> iw * scale, h |-> ih * scale,
       x |-> half(dw - iw * scale), y |-> half(dh - ih * scale)]

Clamp(v, hi) == Max({0, Min({v, hi})})

\* Mutant: division that truncates towards the bars' edge, without the offset.
ToInternalUnboxed(px, py, box, iw, ih) ==
  <<Clamp(FloorDiv(px, box.scale), iw - 1), Clamp(FloorDiv(py, box.scale), ih - 1)>>

\* spec_to_internal: a display point as an internal pixel, clamped to the surface.
ToInternal(px, py, box, iw, ih) ==
  <<Clamp(FloorDiv(px - box.x, box.scale), iw - 1),
    Clamp(FloorDiv(py - box.y, box.scale), ih - 1)>>

-----------------------------------------------------------------------------
(* Input.                                                                  *)

\* What a device holds down: read_input maps arrows onto nav, enter and space
\* onto confirm, escape onto cancel, beside the pad's own.
RawInput(dev, at) ==
  [x |-> at[1], y |-> at[2], left |-> dev.left,
   nav |-> dev.pad \cup (dev.keys \cap ToSet(NavDirs)),
   confirm |-> dev.confirm \/ dev.keys \cap {"enter", "space"} # {},
   cancel |-> dev.cancel \/ "escape" \in dev.keys]

NoInput == [x |-> 0, y |-> 0, left |-> FALSE, nav |-> {}, confirm |-> FALSE, cancel |-> FALSE]

\* plat_open: no input seen, no target declared, no focus.
OpenPlatform ==
  [cur |-> NoInput, prev |-> NoInput, resolved |-> TRUE, targets |-> <<>>,
   current |-> NoId, confirmed |-> NoId, cancelled |-> FALSE, complaint |-> FALSE]

\* plat_sample_input: one sample a tick; the generation makes focus unresolved.
SampleInput(p, raw) == [p EXCEPT !.prev = p.cur, !.cur = raw, !.resolved = FALSE]

Moved(p) == p.cur.x # p.prev.x \/ p.cur.y # p.prev.y

-----------------------------------------------------------------------------
(* Focus.                                                                  *)

TargetIndex(ts, id) ==
  LET at == {i \in DOMAIN ts : ts[i].id = id} IN IF at = {} THEN 0 ELSE Min(at)

\* How far a rectangle extends in a direction.
Extent(t, dir) ==
  CASE dir = "left"  -> Max({-t.x, -(t.x + t.w)})
    [] dir = "right" -> Max({t.x, t.x + t.w})
    [] dir = "up"    -> Max({-t.y, -(t.y + t.h)})
    [] dir = "down"  -> Max({t.y, t.y + t.h})

\* The squared distance between two rectangles.
Gap(f, t) ==
  LET gx == Max({0, f.x - (t.x + t.w), t.x - (f.x + f.w)})
      gy == Max({0, f.y - (t.y + t.h), t.y - (f.y + f.h)})
  IN  gx * gx + gy * gy

\* navigate: the nearest target lying that way, declaration order breaking a
\* tie; nothing that way stays put; no focus takes the first target.
Navigate(ts, from, dir) ==
  LET beyond  == {i \in DOMAIN ts : i # from /\ Extent(ts[i], dir) > Extent(ts[from], dir)}
      nearest == {i \in beyond : \A j \in beyond : Gap(ts[from], ts[i]) <= Gap(ts[from], ts[j])}
  IN  IF from = 0 THEN Min({1, Len(ts)})
      ELSE IF beyond = {} THEN from ELSE Min(nearest)

Inside(t, x, y) == x >= t.x /\ x < t.x + t.w /\ y >= t.y /\ y < t.y + t.h

\* The first target under the pointer, or none.
Over(ts, x, y) ==
  LET at == {i \in DOMAIN ts : Inside(ts[i], x, y)} IN IF at = {} THEN 0 ELSE Min(at)

IdAt(ts, i) == IF i = 0 THEN NoId ELSE ts[i].id

\* One resolution: d-pad edges move the focus, a pointer only when it moves, a
\* click confirms what it hits, a confirm press what has focus.
Resolve(p, confirming) ==
  LET ts      == p.targets
      pressed == p.cur.nav \ p.prev.nav
      step(c, d) == IF d \in pressed THEN Navigate(ts, c, d) ELSE c
      walked  == FoldLeft(step, TargetIndex(ts, p.current), NavDirs)
      over    == Over(ts, p.cur.x, p.cur.y)
      clicked == p.cur.left /\ ~ p.prev.left
      pointed == IF over # 0 /\ (Moved(p) \/ clicked) THEN over ELSE walked
      chosen  == IF clicked THEN over ELSE IF confirming THEN pointed ELSE 0
  IN  [p EXCEPT !.resolved = TRUE, !.current = IdAt(ts, pointed),
                !.confirmed = IdAt(ts, chosen),
                !.cancelled = p.cur.cancel /\ ~ p.prev.cancel]

\* focus_resolve: once per input sample, however often a cart declares.
FocusResolve(p) ==
  IF p.resolved THEN p ELSE Resolve(p, p.cur.confirm /\ ~ p.prev.confirm)

\* A focused thing that stopped existing hands the focus to the first target.
KeepFocus(p) ==
  IF TargetIndex(p.targets, p.current) # 0 THEN p
  ELSE [p EXCEPT !.current = IdAt(p.targets, Min({1, Len(p.targets)}))]

\* plat_focus_targets: the list is copied, ids cut to what is stored, and the
\* focus resolved against it; too many targets is a complaint.
FocusTargets(p, list) ==
  LET kept == SubSeq(list, 1, Min({MaxTargets, Len(list)}))
      copy == [i \in DOMAIN kept |-> [kept[i] EXCEPT !.id = StoredId(kept[i].id)]]
  IN  FocusResolve(KeepFocus([p EXCEPT !.targets = copy,
                                       !.complaint = p.complaint \/ Len(list) > MaxTargets]))
=============================================================================
