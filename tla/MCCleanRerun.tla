---------------------------- MODULE MCCleanRerun ----------------------------
(* Instances of CleanRerun for TLC. *)
EXTENDS CleanRerun, TLC
CONSTANTS c1, c2, b1

CellSymmetry == Permutations({c1, c2})

SharedBoot == (c1 :> b1) @@ (c2 :> b1)
=============================================================================
