------------------------------ MODULE MCDrawState ------------------------------
(***************************************************************************)
(* Three scenes for TLC that share the node r.                             *)
(***************************************************************************)
EXTENDS DrawState

CONSTANTS
  r,            \* a Render
  r1, r2, r3,   \* scenes
  g1, g2, c1, c2, c3, f1, f2, m1, m2, k1, h1, h2, tex

KindOf ==
  (r :> "render") @@
  [n \in {r1, r2, r3} |-> "group"] @@
  [n \in {g1, g2} |-> "group"] @@
  [n \in {c1, c2, c3} |-> "config"] @@
  [n \in {f1, f2} |-> "rtt"] @@
  [n \in {m1, m2} |-> "transform"] @@
  (k1 :> "camera") @@
  [n \in {h1, h2} |-> "hud"]

(* r1: a config in a config, one of them also on its own, around renders.  *)
(* r2: rtts in one another, and configs inside and outside of them.        *)
(* r3: a camera below a transform, with an rtt between two huds.           *)
KidsOf ==
  (r :> <<>>) @@
  (r1 :> <<r, c1, r, c2>>) @@ (c1 :> <<g1>>) @@ (g1 :> <<r, c2, r>>) @@ (c2 :> <<r>>) @@
  (r2 :> <<c3, f1, r>>) @@ (c3 :> <<f2>>) @@ (f1 :> <<g2>>) @@ (g2 :> <<f2, r>>) @@ (f2 :> <<c2>>) @@
  (r3 :> <<h1, r>>) @@ (h1 :> <<m1>>) @@ (m1 :> <<k1>>) @@ (k1 :> <<m2>>) @@ (m2 :> <<h2>>) @@ (h2 :> <<f1>>)

SetBy ==
  (c1 :> [blend |-> 1, test |-> TRUE, box |-> 8]) @@
  (c2 :> [test |-> TRUE, box |-> 9]) @@
  (c3 :> [blend |-> 2])

Chain == k1 :> <<m2, m1>>

(* Configs that turn the scissor test on without a box, or set a box       *)
(* without the test.                                                       *)
SetByParts ==
  (c1 :> [test |-> TRUE]) @@
  (c2 :> [box |-> 9]) @@
  (c3 :> [blend |-> 2])

==============================================================================
