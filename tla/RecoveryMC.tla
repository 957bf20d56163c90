----------------------------- MODULE RecoveryMC -----------------------------
(***************************************************************************)
(* Small instances of OutageRecovery for TLC: two single passengers.       *)
(***************************************************************************)
EXTENDS OutageRecovery, TLC

CONSTANTS a1, a2, p1, p2, gA, gB, t1, t2, admin, deputy

MCGroupOf == t1 :> gA @@ t2 :> gB
OneSeat == [a \in Aircraft |-> 1]
TwoAdmins == admin :> "ADMIN" @@ deputy :> "ADMIN"

\* A sale alone, a call, a call with the take-off, the end of a flight.
ShortRuns == {<<>>, <<"CALLED">>, <<"CALLED", "IN_FLIGHT">>, <<"LANDED", "COMPLETED">>}

LiveCommands ==
  {"SELL_TICKET_GROUP", "ASSIGN_AIRCRAFT_PILOT", "CALL_NEXT", "MARK_OFF_BLOCK",
   "MARK_ON_BLOCK", "COMPLETE_TURNAROUND", "REVOKE_CALL"}
FlightOnly == LiveCommands \ {"SELL_TICKET_GROUP", "REVOKE_CALL"}

RecoverySymmetry ==
  Permutations(Aircraft) \cup Permutations(Pilots) \cup Permutations({admin, deputy})
=============================================================================
