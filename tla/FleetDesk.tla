------------------------------ MODULE FleetDesk ------------------------------
(***************************************************************************)
(* SET_AIRCRAFT_OPERATIONAL_STATE and SET_PILOT_PAUSE                      *)
(* (FleetAdministrationMutationPlanner), ASSIGN_AIRCRAFT_PILOT             *)
(* (PilotAssignmentCommandService), and the switches that stop new sales   *)
(* and calls.                                                              *)
(***************************************************************************)
EXTENDS FlightRows

\* The rows of allowedAircraftTransitions fleet control may start from.
IdleSuccessors(s) ==
  CASE s = "AVAILABLE" -> {"REFUELING", "PAUSED", "INACTIVE"}
    [] s = "REFUELING" -> {"AVAILABLE", "PAUSED"}
    [] s = "PAUSED"    -> {"AVAILABLE", "INACTIVE"}
    [] s = "INACTIVE"  -> {"AVAILABLE"}

\* Refused with AIRCRAFT_LIFECYCLE_ACTIVE while a rotation holds the aircraft.
FleetMayTurn(s) == s \in IdleStates

SetAircraftOperationalState(a, next) ==
  /\ "SET_AIRCRAFT_OPERATIONAL_STATE" \in Commands
  /\ FleetMayTurn(aircraftState[a])
  /\ next \in IdleSuccessors(aircraftState[a])
  /\ aircraftState' = [aircraftState EXCEPT ![a] = next]
  /\ UNCHANGED <<rotationVars, assignmentVars, ticketVars, groupVars, currentPilot, paused, halted>>

\* Mutant: a pilot may be paused in the middle of a flight.
PilotBusyNever(p) == FALSE

PilotBusy(p) == \E r \in Rotations : Active(r) /\ pilotOf[r] = p

SetPilotPause(p, pause) ==
  /\ "SET_PILOT_PAUSE" \in Commands
  /\ pause => ~PilotBusy(p)
  /\ paused' = IF pause THEN paused \cup {p} ELSE paused \ {p}
  /\ UNCHANGED <<rotationVars, assignmentVars, ticketVars, groupVars, aircraftState, currentPilot, halted>>

-----------------------------------------------------------------------------
\* The rotation the handler finds for the aircraft, at most one; NONE if none.
ActiveRotationOf(a) ==
  LET mine == {r \in Rotations : Active(r) /\ aircraftOf[r] = a}
  IN  IF mine = {} THEN {NONE} ELSE mine

\* r is that rotation.
AssignmentAllowed(a, p, r) ==
  /\ r # NONE => rotationState[r] = "CALLED"
  /\ p \notin paused
  /\ \A q \in Rotations : Active(q) /\ pilotOf[q] = p => q = r
  /\ \A b \in Aircraft \ {a} : currentPilot[b] = p => ActiveRotationOf(b) = {NONE}

\* A pilot who holds another aircraft is taken off it ("reassign").
AssignAircraftPilot(a, p, r) ==
  /\ "ASSIGN_AIRCRAFT_PILOT" \in Commands
  /\ AssignmentAllowed(a, p, r)
  /\ currentPilot' = [b \in Aircraft |-> IF b = a THEN p
                                         ELSE IF currentPilot[b] = p THEN NONE
                                         ELSE currentPilot[b]]
  /\ pilotOf' = [q \in Rotations |-> IF q = r THEN p ELSE pilotOf[q]]
  /\ UNCHANGED <<rotationState, aircraftOf, wasCalled, usable, assignmentVars,
                 ticketVars, groupVars, aircraftState, paused, halted>>

\* Emergency mode, interruption, event or resource-group status.
SetHalted ==
  /\ "SET_HALTED" \in Commands
  /\ halted' = ~halted
  /\ UNCHANGED <<rotationVars, assignmentVars, ticketVars, groupVars, fleetVars>>

-----------------------------------------------------------------------------
FleetStep ==
  \/ \E a \in Aircraft, s \in IdleStates : SetAircraftOperationalState(a, s)
  \/ \E p \in Pilots, pause \in BOOLEAN : SetPilotPause(p, pause)
  \/ \E a \in Aircraft, p \in Pilots : \E r \in ActiveRotationOf(a) : AssignAircraftPilot(a, p, r)
  \/ SetHalted
=============================================================================
