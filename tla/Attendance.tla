----------------------------- MODULE Attendance -----------------------------
(***************************************************************************)
(* SET_TICKET_ATTENDANCE, SET_TICKET_GROUP_ATTENDANCE,                     *)
(* MARK_TICKET_GROUP_MISSING, RESTORE_TICKET_GROUP_TO_QUEUE (and its       *)
(* legacy name RECALL_TICKET_GROUP) and MARK_TICKET_NO_SHOW:               *)
(* AttendanceCommandService.  CONFIRM_ATTENDANCE_DECISION writes only the  *)
(* audit log.                                                              *)
(***************************************************************************)
EXTENDS FlightRows

\* ticketStatusForAttendance and ticketGroupStatusForAttendance: the latter is
\* only reached with DRAFT or CALLED, where the two agree.
StatusForAttendance(isIn, state) ==
  IF isIn THEN (IF state = "CALLED" THEN "BOARDING" ELSE "CHECKED_IN")
          ELSE (IF state = "CALLED" THEN "CALLED" ELSE "QUEUED")

\* Mutant: attendance may be recorded in flight.
AttendanceOpenInFlight(r) == rotationState[r] \in {"DRAFT", "CALLED", "IN_FLIGHT"}

AttendanceOpen(r) == rotationState[r] \in {"DRAFT", "CALLED"}

Record(T, isIn) == checkedIn' = IF isIn THEN checkedIn \cup T ELSE checkedIn \ T

SetTicketAttendance(t, isIn) ==
  /\ "SET_TICKET_ATTENDANCE" \in Commands
  /\ seat[t] # NONE
  /\ AttendanceOpen(seat[t])
  /\ Record({t}, isIn)
  /\ ticketState' = [ticketState EXCEPT ![t] = StatusForAttendance(isIn, rotationState[seat[t]])]
  /\ UNCHANGED <<rotationVars, assignmentVars, groupVars, fleetVars, halted>>

\* The handler reads the state of one arbitrary segment r of the group (LIMIT 1
\* without ORDER BY) and writes all the group's tickets.
SetTicketGroupAttendance(g, r, isIn) ==
  /\ "SET_TICKET_GROUP_ATTENDANCE" \in Commands
  /\ r \in RotationsOf(g)
  /\ AttendanceOpen(r)
  /\ groupState' = [groupState EXCEPT ![g] = IF isIn THEN "PRESENT" ELSE "QUEUED"]
  /\ Record(TicketsOf(g), isIn)
  /\ ticketState' = [t \in Tickets |-> IF GroupOf[t] = g
                                         THEN StatusForAttendance(isIn, rotationState[r])
                                         ELSE ticketState[t]]
  /\ UNCHANGED <<rotationVars, assignmentVars, deferrals, fleetVars, halted>>

\* No status is refused.
MarkTicketGroupMissing(g) ==
  /\ "MARK_TICKET_GROUP_MISSING" \in Commands
  /\ groupState[g] # "UNSOLD"
  /\ groupState' = [groupState EXCEPT ![g] = "MISSING"]
  /\ UNCHANGED <<rotationVars, assignmentVars, ticketVars, deferrals, fleetVars, halted>>

RestoreTicketGroupToQueue(g) ==
  /\ "RESTORE_TICKET_GROUP_TO_QUEUE" \in Commands
  /\ groupState[g] = "MISSING"
  /\ groupState' = [groupState EXCEPT ![g] = "QUEUED"]
  /\ UNCHANGED <<rotationVars, assignmentVars, ticketVars, deferrals, fleetVars, halted>>

-----------------------------------------------------------------------------
\* Mutant: the state of the rotation is not looked at.
TicketNoShowAllowedLate(t) ==
  /\ seat[t] # NONE
  /\ seat[t] \in wasCalled
  /\ t \notin checkedIn

\* assertTicketNoShowAllowed, the deadline left out.
TicketNoShowAllowed(t) ==
  /\ seat[t] # NONE
  /\ rotationState[seat[t]] = "CALLED" /\ seat[t] \in wasCalled
  /\ t \notin checkedIn

GroupEmptiedBy(t) == \A u \in TicketsOf(GroupOf[t]) \ {t} : seat[u] = NONE

\* Mutant: the rotation is never seen to be empty.
RotationEmptiedByNever(t) == FALSE

RotationEmptiedBy(t) == Aboard(seat[t]) = {t}

MarkTicketNoShow(t) ==
  /\ "MARK_TICKET_NO_SHOW" \in Commands
  /\ TicketNoShowAllowed(t)
  /\ Release({t})
  /\ seat' = [seat EXCEPT ![t] = NONE]
  /\ ticketState' = [ticketState EXCEPT ![t] = "NO_SHOW"]
  /\ groupState' = [g \in Groups |-> IF g = GroupOf[t] /\ GroupEmptiedBy(t)
                                       THEN "NO_SHOW" ELSE groupState[g]]
  /\ rotationState' = [r \in Rotations |-> IF r = seat[t] /\ RotationEmptiedBy(t)
                                             THEN "CANCELED" ELSE rotationState[r]]
  /\ aircraftState' = FreeAircraftOf(IF RotationEmptiedBy(t) THEN {seat[t]} ELSE {})
  /\ UNCHANGED <<aircraftOf, pilotOf, wasCalled, usable, checkedIn, deferrals,
                 currentPilot, paused, halted>>

-----------------------------------------------------------------------------
AttendanceStep ==
  \/ \E t \in Tickets, isIn \in BOOLEAN : SetTicketAttendance(t, isIn)
  \/ \E g \in Groups, r \in Rotations, isIn \in BOOLEAN : SetTicketGroupAttendance(g, r, isIn)
  \/ \E g \in Groups : MarkTicketGroupMissing(g)
  \/ \E g \in Groups : RestoreTicketGroupToQueue(g)
  \/ \E t \in Tickets : MarkTicketNoShow(t)
=============================================================================
