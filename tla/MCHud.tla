--------------------------------- MODULE MCHud ---------------------------------
(***************************************************************************)
(* A scene of two huds for TLC, one of them also below the other and a     *)
(* switch, with widgets of a few columns.                                  *)
(***************************************************************************)
EXTENDS Hud, TLC

CONSTANTS root, g1, s1, h1, h2, c1, f1, r1, r2, k1, tex, med, buf, vtx, blk

KindOf ==
  [n \in {root, g1} |-> "group"] @@ (s1 :> "switch") @@ [n \in {h1, h2} |-> "hud"] @@
  (c1 :> "config") @@ (f1 :> "rtt") @@ [n \in {r1, r2} |-> "render"] @@ (k1 :> "compute") @@
  (tex :> "texture") @@ (med :> "media") @@ [n \in {buf, vtx} |-> "buffer"] @@ (blk :> "block")

(* h1 draws r2 on its own, below c1, and through h2.                       *)
KidsOf ==
  (root :> <<h1, h2>>) @@ (h1 :> <<g1>>) @@ (g1 :> <<r1, c1, s1>>) @@ (s1 :> <<h2>>) @@
  (h2 :> <<f1>>) @@ (f1 :> <<k1, r2, r2>>) @@ (c1 :> <<r2>>) @@
  (r1 :> <<tex, buf>>) @@ (tex :> <<med>>) @@ (r2 :> <<vtx>>) @@ (k1 :> <<blk>>) @@
  [n \in {med, buf, vtx, blk} |-> <<>>]

SizeOf == [n \in Node |-> CASE n = tex -> 4 [] n = buf -> 2 [] n = blk -> 1 [] OTHER -> 3]

WindowOf   == (h1 :> 2) @@ (h2 :> 3)
IntervalOf == (h1 :> 2) @@ (h2 :> 0)

Ratios == {<<0, 0>>, <<1, 1>>, <<16, 9>>, <<9, 16>>, <<1, 3>>, <<21, 1>>, <<100, 7>>}

Cols  == [latency |-> 3, memory |-> 2, activity |-> 2, drawcall |-> 2]
Rows  == [latency |-> 6, memory |-> 5, activity |-> 2, drawcall |-> 2]
Width == [latency |-> 3, memory |-> 0, activity |-> 0, drawcall |-> 0]
Height == [latency |-> 0, memory |-> 5, activity |-> 4, drawcall |-> 4]

=============================================================================
