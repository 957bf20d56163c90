------------------------------- MODULE QueueMC -------------------------------
(***************************************************************************)
(* Small instances of QueueOrder: three single passengers, each a booking  *)
(* group of its own.                                                       *)
(***************************************************************************)
EXTENDS QueueOrder, TLC

CONSTANTS a1, p1, gA, gB, gC, t1, t2, t3

MCGroupOf == t1 :> gA @@ t2 :> gB @@ t3 :> gC

TwoSeats == [a \in Aircraft |-> 2]

QueueRunCommands ==
  {"SELL_TICKET_GROUP", "DEFER_TICKET_GROUP", "ASSIGN_AIRCRAFT_PILOT", "CALL_NEXT",
   "MARK_OFF_BLOCK", "SET_AIRCRAFT_OPERATIONAL_STATE", "SET_TICKET_GROUP_ATTENDANCE",
   "ABORT_ROTATION", "ABORT_ROTATION_TO_QUEUE_AND_MARK_AIRCRAFT_UNAVAILABLE"}

\* Exchanging two passengers exchanges their groups.
QueueSymmetry ==
  {s @@ (gA :> MCGroupOf[s[t1]] @@ gB :> MCGroupOf[s[t2]] @@ gC :> MCGroupOf[s[t3]]) :
     s \in Permutations({t1, t2, t3})}
=============================================================================
