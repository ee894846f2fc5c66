----------------------------- MODULE MCHwUpload -----------------------------
(***************************************************************************)
(* Small streams for TLC: what the player hands out on each platform, in   *)
(* two sizes, with enough frames for every holder to have one.             *)
(***************************************************************************)
EXTENDS HwUpload, TLC

CONSTANTS x1, x2, m1, m2

(* The textures share a media, or have one each.                           *)
Sources == {(x1 :> m1) @@ (x2 :> m1), (x1 :> m1) @@ (x2 :> m2)}

FramesOf(class, sizes, many) == {class} \X sizes \X (1 .. many)

Software   == FramesOf("common", {1}, 3)
Linux      == FramesOf("vaapi", {1, 2}, 2) \union FramesOf("unsupported", {1}, 1)
AndroidOS  == FramesOf("mediacodec", {1, 2}, 2)
Ios        == FramesOf("vt_ios", {1, 2}, 2)
Platforms  == {Software, Linux, AndroidOS, Ios}

AllFrames  == UNION Platforms
FrameKinds == [f \in AllFrames |-> [class |-> f[1], size |-> f[2]]]

=============================================================================
