------------------------------ MODULE StationsMC ------------------------------
(***************************************************************************)
(* Small instances of DispatchLeases: a helper on the flight line and the  *)
(* flight director, each with a device.                                    *)
(***************************************************************************)
EXTENDS DispatchLeases, TLC

CONSTANTS d1, d2, o1, o2

MCOperatorOf == d1 :> o1 @@ d2 :> o2

GroupSymmetry == Permutations(Groups) \cup Permutations(Aircraft) \cup Permutations(Rotations) \cup Permutations(Asks)
===============================================================================
