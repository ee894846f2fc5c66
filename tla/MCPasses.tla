------------------------------ MODULE MCPasses ------------------------------
(***************************************************************************)
(* Three passes for TLC: a Compute that stores to the field of a block,    *)
(* a Render that reads it as an attribute, and a second Render.  The       *)
(* Renders share a block, a vertex buffer and a texture.                   *)
(***************************************************************************)
EXTENDS Passes, TLC

CONSTANTS c, p1, p2, u, a, ab, s, v, w, b1, b2, wb, x, k, g

PassOrder  == <<c, p1, p2>>
BlockFields == (b1 :> <<u, a, s>>) @@ (b2 :> <<w>>)
BufferBlock == wb :> b2
Stamps     == s :> <<1, 2>>

Params ==
  (c  :> [program |-> k, indices |-> <<>>, attributes |-> <<>>,
          uniforms |-> <<s>>, textures |-> <<>>, blocks |-> <<b2>>]) @@
  (p1 :> [program |-> g, indices |-> <<>>, attributes |-> <<v, wb>>,
          uniforms |-> <<u, ab>>, textures |-> <<x>>, blocks |-> <<b1>>]) @@
  (p2 :> [program |-> Default, indices |-> <<v>>, attributes |-> <<v, ab>>,
          uniforms |-> <<s>>, textures |-> <<x>>, blocks |-> <<b1, b2>>])

Names(S, layouts) == [names |-> S, layouts |-> x :> layouts]

(* The shaders of p1 and p2 leave out a uniform and a block of theirs.     *)
Shaders ==
  (c  :> Names({b2, s}, {})) @@
  (p1 :> Names({v, wb, u, x, b1}, {"default"})) @@
  (p2 :> Names({v, ab, s, x, b1}, {"default", "nv12"}))

ComputeWrites  == c :> {<<b2, 1>>}
Native   == x :> "nv12"

=============================================================================
