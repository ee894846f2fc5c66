-------------------------------- MODULE MCHmap --------------------------------
(***************************************************************************)
(* Four keys for TLC: those of a bucket of the smaller map part, or stay   *)
(* together, when the map doubles.                                         *)
(***************************************************************************)
EXTENDS Hmap, TLC

CONSTANTS k1, k2, k3, k4

Crc == (k1 :> 0) @@ (k2 :> 2) @@ (k3 :> 4) @@ (k4 :> 1)

=============================================================================
