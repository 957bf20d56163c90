---------------------------- MODULE InstallationMC ----------------------------
(***************************************************************************)
(* A small instance of FactoryReset and of the claims it deletes: two      *)
(* accounts on a device each, and the first and the last of the five       *)
(* phases.                                                                 *)
(***************************************************************************)
EXTENDS FactoryReset, TLC

CONSTANTS d1, d2, o1, o2

MCOperatorOf == d1 :> o1 @@ d2 :> o2

MCPhases == <<"support-history", "operational-data">>

\* The accounts change places, each with its device.
SwapStations == d1 :> d2 @@ d2 :> d1 @@ o1 :> o2 @@ o2 :> o1

InstallationSymmetry ==
  Permutations(Resets) \cup Permutations(Browsers) \cup {SwapStations}
===============================================================================
