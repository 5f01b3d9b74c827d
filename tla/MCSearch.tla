-------------------------------- MODULE MCSearch --------------------------------
(* Small instances of Search for TLC. *)
EXTENDS Search, TLC

CONSTANTS w1, w2, i1, i2, a, b, c

Workers == i1 :> w1 @@ i2 :> w2
Found == i1 :> {a} @@ i2 :> {a, b}
=============================================================================
