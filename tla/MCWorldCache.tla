---------------------------- MODULE MCWorldCache ----------------------------
(***************************************************************************)
(* Two fluents, one declared at compile time and one known to the schema   *)
(* only; a matched rule on a fluent and the absence of the other, and two  *)
(* islands, one of them guarded by a number.                               *)
(***************************************************************************)
EXTENDS WorldCache, TLC

MCFluents   == {"open", "lit"}
MCMatchable == {"m1", "view1", "view2"}
MCPosOf == ("m1" :> {"open"}) @@ ("view1" :> {"open"}) @@ ("view2" :> {"open"})
MCNegOf == ("m1" :> {"lit"}) @@ ("view1" :> {}) @@ ("view2" :> {})
=============================================================================
