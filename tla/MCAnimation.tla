------------------------------ MODULE MCAnimation ------------------------------
(***************************************************************************)
(* Small animations for TLC: k2 and k3 share a time.                       *)
(***************************************************************************)
EXTENDS Animation, TLC

CONSTANTS m1, m2, k1, k2, k3, k4

Times == (k1 :> 1) @@ (k2 :> 3) @@ (k3 :> 3) @@ (k4 :> 5)

(* m2 has all the key frames of m1, so they are set and reset together.    *)
Included == (m1 :> <<k1, k3, k4>>) @@ (m2 :> <<k1, k2, k3, k4>>)

(* m2 ends with the key frame m1 starts with.                              *)
Overlapping == (m1 :> <<k2, k4>>) @@ (m2 :> <<k1, k2>>)

=============================================================================
