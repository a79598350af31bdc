---------------------------- MODULE MCOpenHashMap ----------------------------
(* Model-checking instance of OpenHashMap: five keys. Three of them have one *)
(* hash and are interchangeable; a fourth collides with them in the smallest *)
(* table only, where their probing wraps around its end.                     *)
EXTENDS OpenHashMap, TLC

CONSTANTS k1, k2, k3, k4, k5

MCKeys == {k1, k2, k3, k4, k5}
MCHash == k1 :> 3 @@ k2 :> 3 @@ k3 :> 3 @@ k4 :> 7 @@ k5 :> 4
SameHash == Permutations({k1, k2, k3})
=============================================================================
