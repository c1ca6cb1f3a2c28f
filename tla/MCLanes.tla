------------------------------- MODULE MCLanes -------------------------------
(* Lanes over small stories, two persons each.                             *)
EXTENDS Lanes

MCDomain == [person |-> <<"ann", "bob">>]

P == <<"person">>
X == <<<<"X", "person">>>>
XY == X \o <<<<"Y", "person">>>>
XYZ == XY \o <<<<"Z", "person">>>>

Decl(kind, sorts) == [is |-> kind, sorts |-> sorts, values |-> {}, merge |-> "register", min |-> -9, max |-> 9]
Fluent(sorts)   == Decl("fluent", sorts)
Derived(sorts)  == Decl("derived", sorts)
Provider(sorts) == Decl("provider", sorts)
Number          == Decl("num", P)

R(label, vs, body, head) ==
  [label |-> label, kind |-> DL_DEFEASIBLE, vars |-> vs, head |-> head, body |-> body,
   unless |-> <<>>, band |-> "none"]
Unless(r, guard) == [r EXCEPT !.unless = <<guard>>]

A(name, vs, requires, effects) ==
  [name |-> name, ramif |-> FALSE, vars |-> vs, requires |-> requires, effects |-> effects, binders |-> <<>>]
Ramif(name, vs, requires, effects) == [A(name, vs, requires, effects) EXCEPT !.ramif = TRUE]
ForEach(name, vs, bvs, where, items) ==
  [A(name, vs, <<>>, <<>>) EXCEPT !.binders = <<[vars |-> bvs, where |-> where, items |-> items]>>]

Const(k)  == [base |-> k, tests |-> <<>>, loads |-> <<>>]
Plus(k, t, j) == [base |-> k, tests |-> <<[test |-> t, add |-> j]>>, loads |-> <<>>]

B(p, x)  == Bool(p, <<x>>)
Ground1(p, e) == <<p, <<e>>, <<>>>>
Ground2(p, e, f) == <<p, <<e, f>>, <<>>>>
Both(ats) == {Lit(a, n) : a \in ats, n \in BOOLEAN}

Blank ==
  [sorts |-> <<"person">>, order |-> <<>>, decl |-> <<>>, rules |-> <<>>, sups |-> <<>>, ladders |-> <<>>,
   actions |-> <<>>, excl |-> <<>>, init |-> <<>>, split |-> "none", host |-> <<>>]
Try == [hosts |-> {{}}, asks |-> {}, sets |-> {}, plays |-> {}, late |-> <<>>]

-----------------------------------------------------------------------------
(* Judgments of one variable: superiority, an exception, a provider, a     *)
(* constant argument, and a rule a host adds later.                        *)

Moods ==
  [Blank EXCEPT
     !.decl = [hungry |-> Fluent(P), safe |-> Fluent(P), lit |-> Provider(P),
               upset |-> Derived(P), calm |-> Derived(P), seen |-> Derived(P)],
     !.rules = <<R("r1", X, <<B("hungry", "X")>>, B("upset", "X")),
                 R("r2", X, <<B("safe", "X")>>, Not(B("upset", "X"))),
                 Unless(R("r3", X, <<Not(B("upset", "X"))>>, B("calm", "X")), <<B("lit", "X")>>),
                 R("r4", X, <<B("lit", "ann"), B("calm", "X")>>, B("seen", "X"))>>,
     !.sups = <<<<"r2", "r1">>>>]

MoodsTry ==
  [Try EXCEPT
     !.hosts = {{}, {Ground1("lit", "ann")}, {Ground1("lit", "bob")}},
     !.asks = Both({Ground1("upset", "ann"), Ground1("calm", "bob"), Ground1("seen", "bob"), Ground1("hungry", "ann")}),
     !.sets = {Ground1("hungry", "ann"), Ground1("safe", "ann"), Ground1("safe", "bob")},
     !.late = <<[kind |-> DL_DEFEASIBLE, head |-> Lit(Ground1("upset", "ann"), FALSE),
                 body |-> {Lit(Ground1("safe", "bob"), FALSE)}]>>]

-----------------------------------------------------------------------------
(* Relations: joins that import, one predicate at two patterns, and a      *)
(* recursive relation that stays scalar with what reads it.                *)

Kin ==
  [Blank EXCEPT
     !.decl = [hungry |-> Fluent(P), near |-> Fluent(P \o P), upset |-> Derived(P),
               avoids |-> Derived(P \o P), flees |-> Derived(P \o P), pair |-> Derived(P \o P)],
     !.rules = <<R("r1", X, <<B("hungry", "X")>>, B("upset", "X")),
                 R("r0", X, <<Not(B("hungry", "X"))>>, Not(B("upset", "X"))),
                 R("r2", XY, <<Bool("near", <<"X", "Y">>), B("upset", "Y")>>, Bool("avoids", <<"X", "Y">>)),
                 R("r3", XY, <<Bool("avoids", <<"X", "Y">>), Not(B("upset", "X"))>>, Bool("flees", <<"X", "Y">>)),
                 R("r4", XY, <<Bool("near", <<"X", "Y">>), Bool("near", <<"Y", "X">>)>>, Bool("pair", <<"X", "Y">>))>>]

KinTry ==
  [Try EXCEPT
     !.asks = {Lit(Ground2(p, "ann", "bob"), FALSE) : p \in {"flees", "pair", "near"}}
                \cup Both({Ground1("upset", "ann"), Ground2("avoids", "bob", "ann")}),
     !.sets = {Ground1("hungry", "bob"), Ground2("near", "ann", "bob"), Ground2("near", "bob", "ann")}]

Reach ==
  [Blank EXCEPT
     !.decl = [link |-> Fluent(P \o P), reach |-> Derived(P \o P), famous |-> Derived(P)],
     !.rules = <<R("base", XY, <<Bool("link", <<"X", "Y">>)>>, Bool("reach", <<"X", "Y">>)),
                 R("more", XYZ, <<Bool("link", <<"X", "Y">>), Bool("reach", <<"Y", "Z">>)>>,
                   Bool("reach", <<"X", "Z">>)),
                 R("star", X, <<Bool("reach", <<"X", "ann">>)>>, B("famous", "X"))>>]

\* Reach with an exception: the compiler refuses it, an attack on a cycle.
Barred ==
  [Reach EXCEPT !.rules = Append(@, R("bar", XY, <<Bool("link", <<"Y", "X">>)>>, Not(Bool("reach", <<"X", "Y">>))))]

ReachTry ==
  [Try EXCEPT
     !.asks = {Lit(Ground2("reach", "ann", "ann"), FALSE), Lit(Ground2("reach", "bob", "bob"), TRUE),
               Lit(Ground1("famous", "ann"), FALSE)},
     !.sets = {Ground2("link", "ann", "bob"), Ground2("link", "bob", "ann"), Ground2("link", "ann", "ann")}]

-----------------------------------------------------------------------------
(* A story whose whole transition lanes: conditions on judgments, globals, *)
(* numbers and the next state, a cast over everyone, and an exclusive pair. *)

Act1(a, e) == <<a, <<e>>, <<>>>>
Act0(a)    == <<a, <<>>, <<>>>>

Camp ==
  [Blank EXCEPT
     !.order = <<"awake", "hurt", "alarm", "hp">>,
     !.decl = [awake |-> Fluent(P), hurt |-> Fluent(P), alarm |-> Fluent(<<>>),
               hp |-> [Number EXCEPT !.min = 0, !.max = 5], weary |-> Derived(P)],
     !.rules = <<R("w1", X, <<B("awake", "X"), B("hurt", "X")>>, B("weary", "X"))>>,
     !.actions =
       <<A("rouse", X, <<Not(B("awake", "X"))>>, <<B("awake", "X"), Num("hp", <<"X">>, "sub", Const(1))>>),
         A("rest", X, <<B("awake", "X"), B("weary", "X"), Cmp("hp", <<"X">>, "ge", 1)>>,
           <<Not(B("awake", "X")), Num("hp", <<"X">>, "add", Plus(1, Not(B("hurt", "X")), 2))>>),
         A("wound", X, <<Bool("alarm", <<>>)>>, <<B("hurt", "X"), Num("hp", <<"X">>, "assign", Plus(2, B("awake", "X"), 1))>>),
         ForEach("storm", X, <<<<"T", "person">>>>, <<B("awake", "T")>>,
                 <<[when |-> <<B("hurt", "T")>>, eff |-> Num("hp", <<"T">>, "sub", Const(2))],
                   [when |-> <<>>, eff |-> Num("hp", <<"T">>, "sub", Const(1))]>>),
         Ramif("faint", X, <<B("awake", "X"), After(B("hurt", "X"))>>, <<Not(B("awake", "X"))>>),
         Ramif("panic", X, <<After(Bool("alarm", <<>>)), Not(B("awake", "X")), Not(After(B("hurt", "X")))>>,
               <<B("awake", "X")>>)>>,
     !.excl = <<<<[action |-> "rouse", keys |-> <<"K">>], [action |-> "wound", keys |-> <<"K">>]>>>>,
     !.init = <<Bool("alarm", <<>>), Num("hp", <<"ann">>, "assign", Const(2))>>]

CampTry ==
  [Try EXCEPT
     !.asks = {Lit(Ground1("weary", "ann"), FALSE)},
     !.sets = {Ground1("awake", "ann"), Ground1("hurt", "bob"), <<"alarm", <<>>, <<>>>>},
     !.plays = {{Act1("rouse", "ann"), Act1("rest", "bob")}, {Act1("wound", "ann"), Act1("rouse", "bob")},
                {Act1("storm", "ann"), Act1("wound", "bob")}, {Act1("storm", "ann"), Act1("storm", "bob")}, {Act1("wound", "ann"), Act1("rouse", "ann")},
                {Act1("rest", "ann")}, {Act0("nothing")}},
     !.late = <<[kind |-> DL_DEFEASIBLE, head |-> Lit(Ground1("weary", "ann"), TRUE), body |-> {}]>>]

-----------------------------------------------------------------------------
(* A split story: two lane halves and a residue that reads their next      *)
(* state, writes the split fluent and counts.                              *)

Phase(v) == Is("phase", <<>>, v)
PhaseDecl == [Decl("mv", <<>>) EXCEPT !.values = {"day", "night"}]

Watch ==
  [Blank EXCEPT
     !.order = <<"phase", "on", "asleep", "bell", "score">>,
     !.decl = [phase |-> PhaseDecl, on |-> Fluent(P), asleep |-> Fluent(P), bell |-> Fluent(<<>>),
               score |-> [Number EXCEPT !.max = 2]],
     !.actions =
       <<A("stand", X, <<Phase("day")>>, <<B("on", "X")>>),
         A("sleep", X, <<Phase("night"), Not(B("on", "X")), Not(B("asleep", "X"))>>, <<B("asleep", "X")>>),
         Ramif("wake", X, <<Bool("bell", <<>>), B("asleep", "X")>>, <<Not(B("asleep", "X"))>>),
         A("ring", <<>>, <<Not(Bool("bell", <<>>))>>, <<Bool("bell", <<>>)>>),
         A("dusk", <<>>, <<Phase("day")>>, <<Phase("night")>>),
         A("tally", X, <<After(B("on", "X"))>>, <<Num("score", <<"X">>, "add", Const(1))>>),
         Ramif("hush", <<>>, <<Bool("bell", <<>>), After(B("on", "ann"))>>, <<Not(Bool("bell", <<>>))>>)>>,
     !.split = "phase",
     !.init = <<Phase("day")>>]

WatchTry ==
  [Try EXCEPT
     !.sets = {Ground1("asleep", "bob"), <<"bell", <<>>, <<>>>>},
     !.plays = {{Act1("stand", "ann"), Act1("tally", "ann")}, {Act0("dusk"), Act0("ring")}, {Act1("sleep", "bob")},
                {Act1("tally", "bob"), Act0("ring")}, {}},
     !.late = <<[kind |-> DL_DEFEASIBLE, head |-> Lit(Ground1("tired", "ann"), FALSE), body |-> {}]>>]

\* A lane action reads in the next state a global the residue writes.
Toll ==
  [Watch EXCEPT
     !.actions = SubSeq(@, 1, 4) \o
       <<A("join", X, <<After(Bool("bell", <<>>))>>, <<B("on", "X")>>),
         A("mute", <<>>, <<Bool("bell", <<>>)>>, <<Not(Bool("bell", <<>>))>>)>>]

TollTry ==
  [Try EXCEPT
     !.sets = {Ground1("asleep", "bob"), <<"bell", <<>>, <<>>>>},
     !.plays = {{Act0("ring"), Act1("join", "ann")}, {Act0("mute"), Act1("join", "bob")}, {Act1("join", "ann")}}]

\* The residue writes what a family would manage, so nothing lanes.
Gale ==
  [Watch EXCEPT
     !.actions = SubSeq(@, 1, 2) \o
       <<ForEach("gale", <<>>, <<<<"T", "person">>>>, <<Phase("night")>>,
                 <<[when |-> <<>>, eff |-> Not(B("on", "T"))]>>)>>,
     !.init = <<Phase("night"), B("on", "ann")>>]

GaleTry ==
  [Try EXCEPT !.sets = {Ground1("on", "ann"), <<"phase", <<>>, <<"day">>>>, <<"phase", <<>>, <<"night">>>>},
              !.plays = {{Act0("gale"), Act1("sleep", "bob")}, {Act1("stand", "bob")}}]

-----------------------------------------------------------------------------
(* Pairs of effects the compiler has to judge: apart by a shared key, by    *)
(* one condition, or not at all.                                           *)

Pair(ra, ea, rb, eb, excl) ==
  [Blank EXCEPT
     !.decl = [up |-> Fluent(P), ok |-> Fluent(P), flag |-> Fluent(<<>>),
               owner |-> [Decl("mv", P) EXCEPT !.values = {"ann", "bob"}]],
     !.actions = <<A("lift", XY, ra, ea), A("drop", XY, rb, eb)>>,
     !.excl = excl,
     !.init = <<B("ok", "ann"), Is("owner", <<"ann">>, "bob"), Is("owner", <<"bob">>, "bob")>>]

Flag == Bool("flag", <<>>)
Keyed == <<<<[action |-> "lift", keys |-> <<"K", "_">>], [action |-> "drop", keys |-> <<"K", "_">>]>>>>

Pairs ==
  <<Pair(<<>>, <<B("up", "X")>>, <<>>, <<Not(B("up", "X"))>>, Keyed),
    Pair(<<>>, <<B("up", "X")>>, <<>>, <<Not(B("up", "Y"))>>, Keyed),
    Pair(<<B("ok", "X")>>, <<B("up", "X")>>, <<Not(B("ok", "Y"))>>, <<Not(B("up", "Y"))>>, <<>>),
    Pair(<<B("ok", "X")>>, <<Flag>>, <<Not(B("ok", "Y"))>>, <<Not(Flag)>>, <<>>),
    Pair(<<>>, <<Is("owner", <<"X">>, "Y")>>, <<>>, <<Flag>>, <<>>),
    Pair(<<OneOf("X", <<"ann">>)>>, <<Is("owner", <<"X">>, "ann")>>, <<OneOf("X", <<"bob">>)>>,
         <<Is("owner", <<"X">>, "bob")>>, <<>>)>>

PairTry ==
  [Try EXCEPT
     !.sets = {Ground1("ok", "bob"), Ground1("up", "ann")},
     !.plays = {{<<"lift", <<e, f>>, <<>>>>, <<"drop", <<g, h>>, <<>>>>} :
                  e \in {"ann", "bob"}, f \in {"ann"}, g \in {"ann", "bob"}, h \in {"ann", "bob"}}
                 \cup {{<<"lift", <<"ann", "ann">>, <<>>>>, <<"lift", <<"ann", "bob">>, <<>>>>}}]

-----------------------------------------------------------------------------
(* Conflicting judgments: ordered by a ladder, by an edge, or by nothing.  *)

Claims(rules, sups, ladders) ==
  [Blank EXCEPT
     !.decl = [p |-> Fluent(P), r |-> Fluent(P), q |-> Derived(P)],
     !.rules = rules, !.sups = sups, !.ladders = ladders]

For(l, vs, x)     == R(l, vs, <<B("p", x)>>, B("q", x))
Against(l, vs, x) == R(l, vs, <<B("r", x)>>, Not(B("q", x)))

Bands ==
  Claims(<<[For("a", X, "X") EXCEPT !.band = "custom"], [Against("b", X, "X") EXCEPT !.band = "law"]>>,
         <<>>, <<<<"custom", "law">>>>)

Apart == Claims(<<R("a", X, <<B("p", "X"), B("r", "X")>>, B("q", "X")),
                  R("b", X, <<B("p", "X"), Not(B("r", "X"))>>, Not(B("q", "X")))>>, <<>>, <<>>)

Loose ==
  Claims(<<For("a", X, "X"), Against("b", X, "X"), For("c", <<>>, "bob"), Against("d", <<>>, "bob")>>,
         <<<<"c", "d">>>>, <<>>)

\* The edge over b is c's, which is about bob and does not apply where b does.
Distant ==
  Claims(<<For("a", X, "X"), Against("b", X, "X"), R("c", <<>>, <<Not(B("r", "bob"))>>, B("q", "bob"))>>,
         <<<<"c", "b">>>>, <<>>)

Strict(r) == [r EXCEPT !.kind = DL_STRICT]

\* A strict side over facts, and one over what holds by default.
Lawful == Claims(<<Strict(For("a", X, "X")), Against("b", X, "X")>>, <<>>, <<>>)
Sworn ==
  [Claims(<<R("m", X, <<B("p", "X")>>, B("w", "X")), Strict(R("a", X, <<B("w", "X")>>, B("q", "X"))),
            Against("b", X, "X")>>, <<>>, <<>>)
     EXCEPT !.decl = @ @@ [w |-> Derived(P)]]

ClaimTry ==
  [Try EXCEPT !.asks = Both({Ground1("q", "ann"), Ground1("q", "bob")}),
              !.sets = {Ground1("p", "ann"), Ground1("r", "ann"), Ground1("p", "bob"), Ground1("r", "bob")}]

-----------------------------------------------------------------------------

Programs(stories, tries) ==
  [k \in DOMAIN stories |->
     [id |-> k, story |-> stories[k], hosts |-> tries[k].hosts, asks |-> tries[k].asks,
      sets |-> tries[k].sets, plays |-> tries[k].plays, late |-> tries[k].late]]

MCProgs ==
  Programs(<<Moods, Kin, Reach, Barred, Camp, Watch, Toll, Gale,
             Bands, Apart, Loose, Distant, Lawful, Sworn>> \o Pairs,
        <<MoodsTry, KinTry, ReachTry, ReachTry, CampTry, WatchTry, TollTry, GaleTry>>
          \o [k \in 1 .. 6 |-> ClaimTry]
          \o [k \in DOMAIN Pairs |-> PairTry])

\* A rule that reads a conclusion about one named person.
Fed ==
  [Blank EXCEPT
     !.decl = [fed |-> Fluent(P), happy |-> Derived(P), calm |-> Derived(P)],
     !.rules = <<R("h", X, <<B("fed", "X")>>, B("happy", "X")), R("s", X, <<B("happy", "bob")>>, B("calm", "X"))>>]

FedTry == [Try EXCEPT !.asks = {Lit(Ground1("calm", "ann"), FALSE)}, !.sets = {Ground1("fed", "bob")}]

MCFed == Programs(<<Fed>>, <<FedTry>>)

\* The worlds follow from the program and the late rules.
MCView == <<prog.id, phase, lanes_ok, late, vals, nums, holds, lanes, answer, last, edits>>
=============================================================================
