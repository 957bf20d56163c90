----------------------------- MODULE FlightOpsMC -----------------------------
(***************************************************************************)
(* Small instances of FlightOps for TLC.                                   *)
(***************************************************************************)
EXTENDS FlightOps, TLC

CONSTANTS a1, a2, p1, p2, gA, gB, t1, t2, t3, t4

\* A couple, t1 and t2, and a single passenger.
MCGroupOf == t1 :> gA @@ t2 :> gA @@ t3 :> gB

\* A family of three, too many for two seats, and a single passenger.
FamilyGroupOf == t1 :> gA @@ t2 :> gA @@ t3 :> gA @@ t4 :> gB

TwoSeats == [a \in Aircraft |-> 2]
\* a1 takes everybody, a2 a single passenger.
BigAndSmall == [a \in Aircraft |-> IF a = a1 THEN 3 ELSE 1]

FlightCommands ==
  {"CALL_NEXT", "MARK_OFF_BLOCK", "MARK_ON_BLOCK", "COMPLETE_TURNAROUND"}
RecoveryCommands ==
  {"REVOKE_CALL", "ABORT_ROTATION", "ABORT_ROTATION_TO_QUEUE_AND_MARK_AIRCRAFT_UNAVAILABLE"}
GroupCommands ==
  {"SELL_TICKET_GROUP", "CANCEL_TICKET_GROUP", "DEFER_TICKET_GROUP", "MARK_NO_SHOW"}
AttendanceCommands ==
  {"SET_TICKET_ATTENDANCE", "SET_TICKET_GROUP_ATTENDANCE", "MARK_TICKET_NO_SHOW"}
PresenceCommands == {"MARK_TICKET_GROUP_MISSING", "RESTORE_TICKET_GROUP_TO_QUEUE"}
FleetCommands ==
  {"SET_AIRCRAFT_OPERATIONAL_STATE", "SET_PILOT_PAUSE", "ASSIGN_AIRCRAFT_PILOT"}

\* Fleet, crew and cabin: everything that binds and frees aircraft and pilots.
FleetRunCommands == FlightCommands \cup RecoveryCommands \cup FleetCommands \cup
  {"SELL_TICKET_GROUP", "CANCEL_TICKET_GROUP", "MARK_TICKET_NO_SHOW", "MOVE_TICKET_GROUP"}

\* Passengers: everything that moves tickets between rotations.
PassengerRunCommands == FlightCommands \cup GroupCommands \cup
  {"REVOKE_CALL", "SET_ROTATION_CAPACITY", "MOVE_TICKET_GROUP", "CORRECT_ROTATION_MANIFEST",
   "ASSIGN_AIRCRAFT_PILOT", "SET_HALTED"}

\* Boarding: everything that records who is there, and the rotation canceled at the gate.
BoardingRunCommands == FlightCommands \cup AttendanceCommands \cup PresenceCommands \cup
  RecoveryCommands \cup {"SELL_TICKET_GROUP", "ASSIGN_AIRCRAFT_PILOT", "CANCEL_ROTATION"}

CoupleSymmetry == Permutations({t1, t2})
FamilySymmetry == Permutations({t1, t2, t3})
CrewSymmetry   == Permutations({p1, p2}) \cup CoupleSymmetry
PlaneSymmetry  == Permutations({a1, a2}) \cup CoupleSymmetry
=============================================================================
