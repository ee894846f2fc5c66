----------------------------- MODULE MCPipelines -----------------------------
(***************************************************************************)
(* Pipelines for TLC: two Renders that share a program and give the name   *)
(* of its texture to different textures, a Render with another program     *)
(* whose instanced attribute is at a location of the first, and a Compute  *)
(* that has a texture as a storage image next to one it samples, and a     *)
(* Render whose texture has no size.                                       *)
(***************************************************************************)
EXTENDS Pipelines

CONSTANTS p1, p2, p3, p4, c, g, h, k, u, v, x, y, z, w, b1, b2, b3

Programs == (p1 :> g) @@ (p2 :> g) @@ (p3 :> h) @@ (p4 :> h) @@ (c :> k)

Function(pairsOf) == [n \in {pairsOf[i][1] : i \in DOMAIN pairsOf} |->
                        pairsOf[CHOOSE i \in DOMAIN pairsOf : pairsOf[i][1] = n][2]]
None == [n \in {} |-> 0]

Declarations ==
  (g :> [uniforms   |-> Function(<< <<<<"ngl", "modelview_matrix">>, "mat4">>, <<<<"", "color">>, "bool">>,
                                    <<<<"tex", "sampling_mode">>, "int">>, <<<<"tex", "dimensions">>, "vec2">> >>),
         samplers   |-> {<<"tex", "sampler">>, <<"tex", "y_sampler">>, <<"tex", "uv_sampler">>},
         images     |-> None,
         attributes |-> Function(<< <<"position", 0>>, <<"uvcoord", 1>> >>),
         blocks     |-> Function(<< <<"blk", <<"uniform", 0>>>> >>)]) @@
  (h :> [uniforms   |-> None,
         samplers   |-> {},
         images     |-> None,
         attributes |-> Function(<< <<"position", 1>>, <<"offset", 0>> >>),
         blocks     |-> None]) @@
  (k :> [uniforms   |-> None,
         samplers   |-> {<<"src", "sampler">>, <<"dst", "sampler">>},
         images     |-> Function(<< <<<<"dst", "sampler">>, 0>> >>),
         attributes |-> None,
         blocks     |-> Function(<< <<"blk", <<"storage", 0>>>> >>)])

Array(b, rate) == [buffer |-> b, rate |-> rate]

Parameters ==
  (p1 :> [uniforms |-> Function(<< <<<<"", "color">>, u>> >>), textures |-> << <<"tex", x>> >>,
          attributes |-> Function(<< <<"position", Array(b1, 0)>>, <<"uvcoord", Array(b2, 0)>> >>),
          blocks |-> Function(<< <<"blk", b3>> >>), indices |-> Null, instances |-> 0]) @@
  (p2 :> [uniforms |-> Function(<< <<<<"", "color">>, v>> >>), textures |-> << <<"tex", y>> >>,
          attributes |-> Function(<< <<"position", Array(b2, 0)>> >>),
          blocks |-> Function(<< <<"blk", b1>> >>), indices |-> b3, instances |-> 0]) @@
  (p3 :> [uniforms |-> None, textures |-> <<>>,
          attributes |-> Function(<< <<"position", Array(b1, 0)>>, <<"offset", Array(b2, 1)>> >>),
          blocks |-> None, indices |-> Null, instances |-> 2]) @@
  (p4 :> [uniforms |-> None, textures |-> << <<"tex", w>> >>, attributes |-> None, blocks |-> None,
          indices |-> Null, instances |-> 0]) @@
  (c  :> [uniforms |-> None, textures |-> << <<"src", x>>, <<"dst", z>> >>,
          attributes |-> None, blocks |-> Function(<< <<"blk", b2>> >>), indices |-> Null, instances |-> 0])

Types   == (u :> "int") @@ (v :> "bool")
Sources == (x :> "media") @@ (y :> "animated") @@ (z :> "none") @@ (w :> "none")
Sizes   == (x :> Params2d(0, 0, 4)) @@ (y :> [Params2d(3, 2, 1) EXCEPT !.dimensions = 3, !.depth = 2]) @@
           (z :> Params2d(2, 2, 4)) @@ (w :> Params2d(0, 2, 4))
Counts  == (x :> 0) @@ (y :> 12) @@ (z :> 0) @@ (w :> 0)

Rgba(width, height, ls) == [layout |-> "default", width |-> width, height |-> height, linesize |-> ls]
OneFrameOfEach == {Rgba(2, 2, 3), [layout |-> "nv12", width |-> 2, height |-> 2, linesize |-> 2]}
All == {"vertex_array_object", "instanced_array", "draw_instanced", "compute_shader_all", "row_length"}
SomeFeatures == {All, {"instanced_array", "draw_instanced"}}
=============================================================================
