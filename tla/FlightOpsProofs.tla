--------------------------- MODULE FlightOpsProofs ---------------------------
(***************************************************************************)
(* What FlightOps guarantees for every number of aircraft, pilots, groups, *)
(* tickets and rotations.                                                  *)
(***************************************************************************)
EXTENDS FlightOps, TLAPS

USE SeatsAssumption, PopulationAssumption, BoundAssumption, NoneAssumption

-----------------------------------------------------------------------------
\* What the pieces of the batches return.

LEMMA NewRowsType ==
  ASSUME NEW k PROVE NewRows(k) \subseteq {r \in Rotations : rotationState[r] = "FREE"}
  BY DEF NewRows

LEMMA SlottingsType ==
  ASSUME NEW g \in Groups, NEW capacity, NEW slots \in Slottings(g, capacity)
  PROVE  /\ slots \in [TicketsOf(g) -> Rotations]
         /\ \A t \in TicketsOf(g) : rotationState[slots[t]] = "FREE"
<1> DEFINE parts == Parts(Cardinality(TicketsOf(g)), capacity)
<1>1. slots \in [TicketsOf(g) -> NewRows(parts)]
  BY DEF Slottings
<1> QED  BY <1>1, NewRowsType

LEMMA OwnRowsType ==
  ASSUME NEW E, NEW row \in OwnRows(E)
  PROVE  /\ row \in [E -> Rotations]
         /\ \A g \in E : rotationState[row[g]] = "FREE"
<1>1. row \in [E -> NewRows(Cardinality(E))]
  BY DEF OwnRows
<1> QED  BY <1>1, NewRowsType

LEMMA ReleaseType ==
  ASSUME TypeOK, NEW T, Release(T)
  PROVE  released' \in [Tickets -> SUBSET Rotations]
  BY DEF TypeOK, Release

LEMMA FreeAircraftType ==
  ASSUME TypeOK, NEW R
  PROVE  FreeAircraftOf(R) \in [Aircraft -> AircraftStates]
  BY DEF TypeOK, FreeAircraftOf, AircraftStates, IdleStates

LEMMA WaitingTypes ==
  /\ \A t : WaitingState(t) \in {"CHECKED_IN", "QUEUED"}
  /\ \A g : ReturnedState(g) \in {"PRESENT", "QUEUED"}
  BY DEF WaitingState, ReturnedState

LEMMA DerivedType ==
  ASSUME TypeOK, NEW g \in Groups
  PROVE  DerivedGroupState(g) \in GroupStates
  BY DEF TypeOK, DerivedGroupState, GroupStates

-----------------------------------------------------------------------------
\* Type correctness, one lemma per service.

LEMMA TransitionTyped ==
  ASSUME TypeOK, TransitionStep
  PROVE  TypeOK'
<1> USE DerivedType
<1>1. ASSUME NEW G \in SUBSET Groups \ {{}}, NEW segment \in Segments(G), NEW primary \in G,
             NEW a \in Aircraft, NEW p \in Pilots, CallNext(G, segment, primary, a, p)
      PROVE  TypeOK'
  <2>1. segment[primary] \in Rotations
    BY DEF Segments
  <2>2. released' \in [Tickets -> SUBSET Rotations]
    BY <1>1, ReleaseType DEF CallNext
  <2> QED
    BY <1>1, <2>1, <2>2 DEF CallNext, TypeOK, DeriveGroups, RotationStates, TicketStates,
       AircraftStates
<1>2. ASSUME NEW r \in Rotations, NEW to \in RotationStates, NEW craft \in AircraftStates,
             NEW passenger \in TicketStates, Transition(r, to, craft, passenger)
      PROVE  TypeOK'
  BY <1>2 DEF Transition, TypeOK, DeriveGroups, assignmentVars
<1>3. ASSUME NEW r \in Rotations, MarkOffBlock(r) PROVE TypeOK'
  BY <1>3, <1>2 DEF MarkOffBlock, RotationStates, AircraftStates, TicketStates
<1>4. ASSUME NEW r \in Rotations, MarkOnBlock(r) PROVE TypeOK'
  BY <1>4, <1>2 DEF MarkOnBlock, RotationStates, AircraftStates, TicketStates
<1>5. ASSUME NEW r \in Rotations, NEW s \in IdleStates, CompleteTurnaround(r, s) PROVE TypeOK'
  BY <1>5, <1>2 DEF CompleteTurnaround, RotationStates, AircraftStates, TicketStates
<1>6. ASSUME NEW r \in Rotations, CancelRotation(r) PROVE TypeOK'
  BY <1>6, <1>2 DEF CancelRotation, RotationStates, AircraftStates, IdleStates, TicketStates
<1> QED  BY <1>1, <1>3, <1>4, <1>5, <1>6 DEF TransitionStep

LEMMA RecoveryTyped ==
  ASSUME TypeOK, RecoveryStep
  PROVE  TypeOK'
<1>1. ASSUME NEW r \in Rotations, NEW craft \in IdleStates, ReturnToQueue(r, craft),
             wasCalled' \subseteq wasCalled
      PROVE  TypeOK'
  BY <1>1, WaitingTypes
  DEF ReturnToQueue, TypeOK, assignmentVars, RotationStates, TicketStates, GroupStates,
      AircraftStates
<1>2. ASSUME NEW r \in Rotations, RevokeCall(r) \/ AbortRotation(r) \/ TechnicalAbort(r)
      PROVE  TypeOK'
  BY <1>2, <1>1 DEF RevokeCall, AbortRotation, TechnicalAbort, IdleStates
<1> QED  BY <1>2 DEF RecoveryStep

LEMMA SeatTyped ==
  ASSUME TypeOK, NEW g \in Groups, NEW capacity, NEW slots \in Slottings(g, capacity),
         NEW emptied, SeatInNewRotations(g, slots, emptied)
  PROVE  /\ rotationState' \in [Rotations -> RotationStates]
         /\ seat' \in [Tickets -> Rotations \cup {NONE}]
<1>1. slots \in [TicketsOf(g) -> Rotations]
  BY SlottingsType
<1>2. rotationState' \in [Rotations -> RotationStates]
  BY DEF SeatInNewRotations, TypeOK, RotationStates
<1>3. seat' \in [Tickets -> Rotations \cup {NONE}]
  BY <1>1 DEF SeatInNewRotations, TypeOK, TicketsOf
<1> QED  BY <1>2, <1>3

LEMMA EndGroupTyped ==
  ASSUME TypeOK, NEW g \in Groups, NEW status \in ExceptionStates, EndGroup(g, status)
  PROVE  /\ rotationState' \in [Rotations -> RotationStates]
         /\ seat' \in [Tickets -> Rotations \cup {NONE}]
         /\ released' \in [Tickets -> SUBSET Rotations]
         /\ ticketState' \in [Tickets -> TicketStates]
         /\ groupState' \in [Groups -> GroupStates]
         /\ aircraftState' \in [Aircraft -> AircraftStates]
<1>1. released' \in [Tickets -> SUBSET Rotations]
  BY ReleaseType DEF EndGroup, LeaveRotations
<1>2. aircraftState' \in [Aircraft -> AircraftStates]
  BY FreeAircraftType DEF EndGroup, LeaveRotations
<1>3. rotationState' \in [Rotations -> RotationStates]
  BY DEF EndGroup, TypeOK, RotationStates
<1>4. seat' \in [Tickets -> Rotations \cup {NONE}]
  BY DEF EndGroup, TypeOK
<1>5. /\ ticketState' \in [Tickets -> TicketStates]
      /\ groupState' \in [Groups -> GroupStates]
  BY DEF EndGroup, SetGroupAndTickets, TypeOK, ExceptionStates, TicketStates, GroupStates
<1> QED  BY <1>1, <1>2, <1>3, <1>4, <1>5

LEMMA TicketDeskTyped ==
  ASSUME TypeOK, TicketDeskStep
  PROVE  TypeOK'
<1>1. ASSUME NEW g \in Groups, NEW slots \in Slottings(g, EffectiveGroupCapacity),
             SellTicketGroup(g, slots)
      PROVE  TypeOK'
  <2>1. SeatInNewRotations(g, slots, {}) /\ SetGroupAndTickets(g, "QUEUED", "QUEUED")
    BY <1>1 DEF SellTicketGroup
  <2>2. /\ rotationState' \in [Rotations -> RotationStates]
        /\ seat' \in [Tickets -> Rotations \cup {NONE}]
    BY <2>1, SeatTyped
  <2> QED
    BY <1>1, <2>1, <2>2
    DEF SellTicketGroup, SetGroupAndTickets, TypeOK, fleetVars, TicketStates, GroupStates
<1>2. ASSUME NEW g \in Groups, CancelTicketGroup(g) PROVE TypeOK'
  BY <1>2, EndGroupTyped DEF CancelTicketGroup, TypeOK, ExceptionStates
<1>3. ASSUME NEW g \in Groups, MarkNoShow(g) PROVE TypeOK'
  BY <1>3, EndGroupTyped DEF MarkNoShow, TypeOK, ExceptionStates
<1>4. ASSUME NEW g \in Groups, DeferTicketGroup(g) PROVE TypeOK'
  <2>1. deferrals' \in [Groups -> Nat]
    BY <1>4 DEF DeferTicketGroup, TypeOK
  <2>2. CASE EndGroup(g, "CLARIFICATION")
    BY <1>4, <2>1, <2>2, EndGroupTyped DEF DeferTicketGroup, TypeOK, ExceptionStates
  <2>3. ASSUME NEW slots \in Slottings(g, ReferenceCapacity), LeaveRotations(g),
               SeatInNewRotations(g, slots, EmptiedBy(g)), SetGroupAndTickets(g, "QUEUED", "QUEUED")
        PROVE  TypeOK'
    <3>1. /\ rotationState' \in [Rotations -> RotationStates]
          /\ seat' \in [Tickets -> Rotations \cup {NONE}]
      BY <2>3, SeatTyped
    <3>2. released' \in [Tickets -> SUBSET Rotations]
      BY <2>3, ReleaseType DEF LeaveRotations
    <3>3. aircraftState' \in [Aircraft -> AircraftStates]
      BY <2>3, FreeAircraftType DEF LeaveRotations
    <3>4. /\ ticketState' \in [Tickets -> TicketStates]
          /\ groupState' \in [Groups -> GroupStates]
      BY <2>3 DEF SetGroupAndTickets, TypeOK, TicketStates, GroupStates
    <3> QED  BY <1>4, <2>1, <3>1, <3>2, <3>3, <3>4 DEF DeferTicketGroup, TypeOK
  <2> QED  BY <1>4, <2>2, <2>3 DEF DeferTicketGroup
<1> QED  BY <1>1, <1>2, <1>3, <1>4 DEF TicketDeskStep

LEMMA AttendanceTyped ==
  ASSUME TypeOK, AttendanceStep
  PROVE  TypeOK'
<1>1. \A isIn, s : StatusForAttendance(isIn, s) \in TicketStates
  BY DEF StatusForAttendance, TicketStates
<1>2. ASSUME NEW t \in Tickets, NEW isIn \in BOOLEAN, SetTicketAttendance(t, isIn) PROVE TypeOK'
  BY <1>1, <1>2
  DEF SetTicketAttendance, Record, TypeOK, rotationVars, assignmentVars, groupVars, fleetVars
<1>3. ASSUME NEW g \in Groups, NEW r \in Rotations, NEW isIn \in BOOLEAN,
             SetTicketGroupAttendance(g, r, isIn)
      PROVE  TypeOK'
  BY <1>1, <1>3
  DEF SetTicketGroupAttendance, Record, TypeOK, rotationVars, assignmentVars, fleetVars,
      TicketsOf, GroupStates
<1>4. ASSUME NEW g \in Groups, MarkTicketGroupMissing(g) \/ RestoreTicketGroupToQueue(g)
      PROVE  TypeOK'
  BY <1>4
  DEF MarkTicketGroupMissing, RestoreTicketGroupToQueue, TypeOK, rotationVars, assignmentVars,
      ticketVars, fleetVars, GroupStates
<1>5. ASSUME NEW t \in Tickets, MarkTicketNoShow(t) PROVE TypeOK'
  <2>1. released' \in [Tickets -> SUBSET Rotations]
    BY <1>5, ReleaseType DEF MarkTicketNoShow
  <2>2. aircraftState' \in [Aircraft -> AircraftStates]
    BY <1>5, FreeAircraftType DEF MarkTicketNoShow
  <2> QED
    BY <1>5, <2>1, <2>2
    DEF MarkTicketNoShow, TypeOK, RotationStates, TicketStates, GroupStates
<1> QED  BY <1>2, <1>3, <1>4, <1>5 DEF AttendanceStep

LEMMA CorrectionTyped ==
  ASSUME TypeOK, CorrectionStep
  PROVE  TypeOK'
<1>1. ASSUME NEW r \in Rotations, NEW capacity \in 1..BaselineCapacity(r),
             NEW K \in SUBSET GroupsAboard(r), NEW row \in OwnRows(GroupsAboard(r) \ K),
             SetRotationCapacity(r, capacity, K, row)
      PROVE  TypeOK'
  <2> DEFINE leaving == {t \in Aboard(r) : GroupOf[t] \in GroupsAboard(r) \ K}
  <2>1. released' \in [Tickets -> SUBSET Rotations]
    <3>1. Release(leaving)
      BY <1>1 DEF SetRotationCapacity
    <3> QED  BY <3>1, ReleaseType
  <2>2. aircraftState' \in [Aircraft -> AircraftStates]
    BY <1>1, FreeAircraftType DEF SetRotationCapacity
  <2>3. usable' \in [Rotations -> Nat]
    <3>1. capacity \in Nat
      OBVIOUS
    <3> QED  BY <1>1, <3>1 DEF SetRotationCapacity, TypeOK
  <2>4. seat' \in [Tickets -> Rotations \cup {NONE}]
    <3>1. row \in [GroupsAboard(r) \ K -> Rotations]
      BY OwnRowsType
    <3> QED  BY <1>1, <3>1 DEF SetRotationCapacity, TypeOK
  <2>5. rotationState' \in [Rotations -> RotationStates]
    BY <1>1 DEF SetRotationCapacity, TypeOK, RotationStates
  <2>6. /\ ticketState' \in [Tickets -> TicketStates]
        /\ groupState' \in [Groups -> GroupStates]
    BY <1>1 DEF SetRotationCapacity, TypeOK, TicketStates, GroupStates
  <2> QED
    BY <1>1, <2>1, <2>2, <2>3, <2>4, <2>5, <2>6 DEF SetRotationCapacity, TypeOK
<1>2. ASSUME NEW g \in Groups, NEW r \in Rotations, MoveTicketGroup(g, r) PROVE TypeOK'
  <2>1. released' \in [Tickets -> SUBSET Rotations]
    BY <1>2, ReleaseType DEF MoveTicketGroup
  <2>2. aircraftState' \in [Aircraft -> AircraftStates]
    BY <1>2, FreeAircraftType DEF MoveTicketGroup
  <2>3. \A t : MovedState(t, r) \in TicketStates
    BY WaitingTypes DEF MovedState, TicketStates
  <2> QED
    BY <1>2, <2>1, <2>2, <2>3 DEF MoveTicketGroup, TypeOK, RotationStates, GroupStates
<1>3. ASSUME NEW g \in Groups, NEW r \in Rotations, CorrectRotationManifest(g, r) PROVE TypeOK'
  <2>1. released' \in [Tickets -> SUBSET Rotations]
    <3>1. ASSUME NEW t \in Tickets, GroupOf[t] = g
          PROVE  (released[t] \cup {seat[t]}) \ {r} \in SUBSET Rotations
      BY <1>3, <3>1 DEF CorrectRotationManifest, TypeOK, TicketsOf
    <3> QED  BY <1>3, <3>1 DEF CorrectRotationManifest, TypeOK
  <2> QED
    BY <1>3, <2>1
    DEF CorrectRotationManifest, TypeOK, rotationVars, fleetVars, DepartedStates, TicketStates,
        GroupStates
<1> QED  BY <1>1, <1>2, <1>3 DEF CorrectionStep

LEMMA FleetTyped ==
  ASSUME TypeOK, FleetStep
  PROVE  TypeOK'
<1>1. ASSUME NEW a \in Aircraft, NEW s \in IdleStates, SetAircraftOperationalState(a, s)
      PROVE  TypeOK'
  BY <1>1
  DEF SetAircraftOperationalState, TypeOK, rotationVars, assignmentVars, ticketVars, groupVars,
      AircraftStates
<1>2. ASSUME NEW p \in Pilots, NEW pause \in BOOLEAN, SetPilotPause(p, pause) PROVE TypeOK'
  BY <1>2 DEF SetPilotPause, TypeOK, rotationVars, assignmentVars, ticketVars, groupVars
<1>3. ASSUME NEW a \in Aircraft, NEW p \in Pilots, NEW r, AssignAircraftPilot(a, p, r)
      PROVE  TypeOK'
  BY <1>3 DEF AssignAircraftPilot, TypeOK, assignmentVars, ticketVars, groupVars
<1>4. ASSUME SetHalted PROVE TypeOK'
  BY <1>4
  DEF SetHalted, TypeOK, rotationVars, assignmentVars, ticketVars, groupVars, fleetVars
<1> QED  BY <1>1, <1>2, <1>3, <1>4 DEF FleetStep

LEMMA StutterTyped ==
  ASSUME TypeOK, UNCHANGED vars
  PROVE  TypeOK'
BY DEF TypeOK, vars, rotationVars, assignmentVars, ticketVars, groupVars, fleetVars

LEMMA InitTyped == Init => TypeOK
<1> SUFFICES ASSUME Init PROVE TypeOK
  OBVIOUS
<1>1. released \in [Tickets -> SUBSET Rotations]
  BY Zenon DEF Init
<1>2. usable \in [Rotations -> Nat] /\ deferrals \in [Groups -> Nat]
  BY DEF Init
<1> QED
  BY <1>1, <1>2
  DEF Init, TypeOK, RotationStates, TicketStates, GroupStates, AircraftStates, IdleStates

LEMMA NextTyped == TypeOK /\ [Next]_vars => TypeOK'
BY TransitionTyped, RecoveryTyped, TicketDeskTyped, AttendanceTyped, CorrectionTyped,
   FleetTyped, StutterTyped DEF Next

\* Every reachable state of every event keeps each row within the values of its
\* columns: no handler stores a status, an id or a number its column does not
\* allow.
THEOREM TypeCorrect == Spec => []TypeOK
BY InitTyped, NextTyped, PTL DEF Spec

-----------------------------------------------------------------------------
\* Who was not sold has no seat.

UnsoldSeatless ==
  \A t \in Tickets : groupState[GroupOf[t]] = "UNSOLD" => seat[t] = NONE

LEMMA DerivedSold ==
  ASSUME NEW g, groupState[g] # "UNSOLD"
  PROVE  DerivedGroupState(g) # "UNSOLD"
  BY DEF DerivedGroupState

LEMMA SoldForGood ==
  ASSUME TypeOK, [Next]_vars, NEW g \in Groups, groupState[g] # "UNSOLD"
  PROVE  groupState'[g] # "UNSOLD"
<1>1. CASE groupState' = groupState
  BY <1>1
<1>2. ASSUME NEW G, DeriveGroups(G) PROVE groupState'[g] # "UNSOLD"
  BY <1>2, DerivedSold DEF DeriveGroups
<1>3. CASE TransitionStep
  <2>1. ASSUME NEW G, NEW segment, NEW primary, NEW a, NEW p, CallNext(G, segment, primary, a, p)
        PROVE  groupState'[g] # "UNSOLD"
    BY <1>2, <2>1 DEF CallNext
  <2>2. ASSUME NEW r, NEW to, NEW craft, NEW passenger, Transition(r, to, craft, passenger)
        PROVE  groupState'[g] # "UNSOLD"
    BY <1>2, <2>2 DEF Transition
  <2> QED
    BY <1>3, <2>1, <2>2 DEF TransitionStep, MarkOffBlock, MarkOnBlock, CompleteTurnaround,
       CancelRotation
<1>4. CASE RecoveryStep
  BY <1>4, WaitingTypes DEF RecoveryStep, RevokeCall, AbortRotation, TechnicalAbort, ReturnToQueue
<1>5. ASSUME NEW h, NEW group, NEW ticket, SetGroupAndTickets(h, group, ticket),
             group \in {"QUEUED"} \cup ExceptionStates
      PROVE  groupState'[g] # "UNSOLD"
  BY <1>5 DEF SetGroupAndTickets, ExceptionStates, TypeOK
<1>6. CASE TicketDeskStep
  BY <1>5, <1>6 DEF TicketDeskStep, SellTicketGroup, CancelTicketGroup, DeferTicketGroup,
     MarkNoShow, EndGroup, ExceptionStates
<1>7. CASE AttendanceStep
  BY <1>7 DEF AttendanceStep, SetTicketAttendance, SetTicketGroupAttendance, groupVars,
     MarkTicketGroupMissing, RestoreTicketGroupToQueue, MarkTicketNoShow, TypeOK
<1>8. CASE CorrectionStep
  BY <1>8 DEF CorrectionStep, SetRotationCapacity, MoveTicketGroup, CorrectRotationManifest,
     DepartedStates, TypeOK
<1>9. CASE FleetStep
  BY <1>1, <1>9 DEF FleetStep, SetAircraftOperationalState, SetPilotPause, AssignAircraftPilot,
     SetHalted, groupVars
<1>10. CASE UNCHANGED vars
  BY <1>1, <1>10 DEF vars, groupVars
<1> QED  BY <1>3, <1>4, <1>6, <1>7, <1>8, <1>9, <1>10 DEF Next

\* Only a sale and a deferral seat a group that had no seat at all.
LEMMA SeatsComeFromSeats ==
  ASSUME TypeOK, [Next]_vars, NEW t \in Tickets, seat'[t] # NONE
  PROVE  \/ \E u \in Tickets : GroupOf[u] = GroupOf[t] /\ seat[u] # NONE
         \/ groupState'[GroupOf[t]] = "QUEUED"
<1>1. CASE seat'[t] = seat[t]
  BY <1>1
<1>2. ASSUME NEW G \in SUBSET Groups \ {{}}, NEW segment \in Segments(G), NEW primary \in G,
             NEW a \in Aircraft, NEW p \in Pilots, CallNext(G, segment, primary, a, p)
      PROVE  seat'[t] = seat[t] \/ seat[t] # NONE
  <2>1. \A g \in G : segment[g] # NONE
    BY DEF Segments, Rotations
  <2>2. t \in Passengers(G, segment) => seat[t] # NONE
    BY <2>1 DEF Passengers
  <2> QED  BY <1>2, <2>2 DEF CallNext
<1>3. ASSUME NEW r \in Rotations,
             MarkOffBlock(r) \/ MarkOnBlock(r) \/ CancelRotation(r)
               \/ \E s \in IdleStates : CompleteTurnaround(r, s)
      PROVE  seat' = seat
  BY <1>3 DEF MarkOffBlock, MarkOnBlock, CancelRotation, CompleteTurnaround, Transition,
     assignmentVars
<1>4. TransitionStep => seat'[t] = seat[t] \/ seat[t] # NONE
  BY <1>2, <1>3 DEF TransitionStep
<1>5. RecoveryStep => seat' = seat
  BY DEF RecoveryStep, RevokeCall, AbortRotation, TechnicalAbort, ReturnToQueue, assignmentVars
<1>6. ASSUME NEW g \in Groups, NEW status, EndGroup(g, status) PROVE seat'[t] = seat[t]
  BY <1>6 DEF EndGroup
<1>7. ASSUME NEW g \in Groups, NEW slots, NEW emptied, SeatInNewRotations(g, slots, emptied),
             SetGroupAndTickets(g, "QUEUED", "QUEUED")
      PROVE  seat'[t] = seat[t] \/ groupState'[GroupOf[t]] = "QUEUED"
  BY <1>7 DEF SeatInNewRotations, SetGroupAndTickets, TypeOK
<1>8. TicketDeskStep => seat'[t] = seat[t] \/ groupState'[GroupOf[t]] = "QUEUED"
  BY <1>6, <1>7 DEF TicketDeskStep, SellTicketGroup, CancelTicketGroup, DeferTicketGroup,
     MarkNoShow
<1>9. AttendanceStep => seat'[t] = seat[t]
  BY DEF AttendanceStep, SetTicketAttendance, SetTicketGroupAttendance, MarkTicketGroupMissing,
     RestoreTicketGroupToQueue, MarkTicketNoShow, assignmentVars, TypeOK
<1>10. ASSUME CorrectionStep PROVE \E u \in Tickets : GroupOf[u] = GroupOf[t] /\ seat[u] # NONE
  <2>1. ASSUME NEW r \in Rotations, NEW capacity, NEW K \in SUBSET GroupsAboard(r),
               NEW row \in OwnRows(GroupsAboard(r) \ K), SetRotationCapacity(r, capacity, K, row)
        PROVE  seat'[t] = seat[t] \/ seat[t] # NONE
    BY <2>1 DEF SetRotationCapacity, Aboard, Rotations
  <2>2. ASSUME NEW g \in Groups, NEW r \in Rotations, MoveTicketGroup(g, r)
        PROVE  seat'[t] = seat[t] \/ \E u \in Tickets : GroupOf[u] = GroupOf[t] /\ seat[u] # NONE
    <3>1. \E u \in TicketsOf(g) : seat[u] # NONE
      BY <2>2 DEF MoveTicketGroup, MoveAllowed, RotationsOf
    <3> QED  BY <2>2, <3>1 DEF MoveTicketGroup, TicketsOf
  <2>3. ASSUME NEW g \in Groups, NEW r \in Rotations, CorrectRotationManifest(g, r)
        PROVE  seat'[t] = seat[t] \/ seat[t] # NONE
    BY <2>3 DEF CorrectRotationManifest, TicketsOf
  <2> QED  BY <1>10, <1>1, <2>1, <2>2, <2>3 DEF CorrectionStep
<1>11. FleetStep \/ UNCHANGED vars => seat' = seat
  BY DEF FleetStep, SetAircraftOperationalState, SetPilotPause, AssignAircraftPilot, SetHalted,
     assignmentVars, vars
<1> QED  BY <1>1, <1>4, <1>5, <1>8, <1>9, <1>10, <1>11 DEF Next

LEMMA UnsoldStaySeatless ==
  ASSUME TypeOK, UnsoldSeatless, [Next]_vars
  PROVE  UnsoldSeatless'
<1> SUFFICES ASSUME NEW t \in Tickets, groupState'[GroupOf[t]] = "UNSOLD", seat'[t] # NONE
             PROVE  FALSE
  BY DEF UnsoldSeatless
<1>1. GroupOf[t] \in Groups
  OBVIOUS
<1>2. groupState[GroupOf[t]] = "UNSOLD"
  BY <1>1, SoldForGood
<1> QED  BY <1>2, SeatsComeFromSeats DEF UnsoldSeatless

-----------------------------------------------------------------------------
\* What one command may do to one ticket.

WaitingTicketStates == {"QUEUED", "CHECKED_IN", "CALLED", "BOARDING"}

KeepsSeat(t) == seat'[t] = seat[t] /\ (t \in checkedIn' <=> t \in checkedIn)

\* The step is not about the ticket, at most its rotation waits in another state.
Rests(t) ==
  /\ KeepsSeat(t) /\ ticketState'[t] = ticketState[t]
  /\ seat[t] # NONE => \/ rotationState'[seat[t]] = rotationState[seat[t]]
                       \/ /\ rotationState[seat[t]] \notin DepartedStates
                          /\ rotationState'[seat[t]] \notin DepartedStates

\* The rotation moves and the ticket with it.
Rides(t) ==
  /\ KeepsSeat(t) /\ seat[t] # NONE
  /\ IF rotationState'[seat[t]] \in DepartedStates
     THEN ticketState'[t] = rotationState'[seat[t]]
     ELSE ticketState'[t] \in WaitingTicketStates

\* Attendance is recorded before off-block.
Checked(t) ==
  /\ seat'[t] = seat[t] /\ seat[t] # NONE
  /\ rotationState[seat[t]] \notin DepartedStates /\ rotationState' = rotationState
  /\ ticketState'[t] \in WaitingTicketStates

\* The booking ends without a flight.
Leaves(t) ==
  /\ seat[t] # NONE => rotationState[seat[t]] \notin DepartedStates
  /\ seat'[t] = NONE
  /\ ticketState'[t] \in ExceptionStates

\* The ticket gets a seat in a rotation that waits, from another one or after the sale.
Boards(t) ==
  /\ seat[t] # NONE => rotationState[seat[t]] \notin DepartedStates
  /\ seat'[t] # NONE
  /\ rotationState[seat'[t]] \notin DepartedStates
  /\ rotationState'[seat'[t]] \notin {"FREE"} \cup DepartedStates
  /\ ticketState'[t] \in WaitingTicketStates

\* CORRECT_ROTATION_MANIFEST.
Corrected(t) ==
  /\ "CORRECT_ROTATION_MANIFEST" \in Commands
  /\ seat[t] # NONE /\ seat'[t] # NONE
  /\ rotationState' = rotationState /\ rotationState[seat'[t]] \in DepartedStates
  /\ ticketState'[t] = rotationState[seat'[t]]

\* SET_TICKET_GROUP_ATTENDANCE, which looks at one segment and writes all.
CheckedWithGroup(t) ==
  /\ "SET_TICKET_GROUP_ATTENDANCE" \in Commands
  /\ seat'[t] = seat[t] /\ rotationState' = rotationState

TicketStep(t) ==
  \/ Rests(t) \/ Rides(t) \/ Checked(t) \/ Leaves(t) \/ Boards(t)
  \/ Corrected(t) \/ CheckedWithGroup(t)

LEMMA CallMovesTickets ==
  ASSUME TypeOK, NEW G \in SUBSET Groups \ {{}}, NEW segment \in Segments(G),
         NEW primary \in G, NEW a \in Aircraft, NEW p \in Pilots,
         CallNext(G, segment, primary, a, p), NEW t \in Tickets
  PROVE  TicketStep(t)
<1> DEFINE r == segment[primary]
           moved == {u \in Passengers(G, segment) : seat[u] # r}
           deserted == {q \in {segment[g] : g \in G} \ {r} : Aboard(q) \subseteq moved}
<1>1. /\ r \in Rotations /\ r # NONE /\ rotationState[r] = "DRAFT"
      /\ \A u \in moved : seat[u] # NONE /\ rotationState[seat[u]] = "DRAFT"
      /\ \A q \in deserted : rotationState[q] = "DRAFT"
  BY DEF Segments, Passengers, Rotations
<1>2. /\ seat' = [u \in Tickets |-> IF u \in moved THEN r ELSE seat[u]]
      /\ rotationState' = [q \in Rotations |-> IF q = r THEN "CALLED"
                                               ELSE IF q \in deserted THEN "CANCELED"
                                               ELSE rotationState[q]]
      /\ ticketState' = [u \in Tickets |->
                           IF u \in Aboard(r) \cup moved THEN "BOARDING" ELSE ticketState[u]]
      /\ checkedIn' = checkedIn
  BY DEF CallNext
<1>3. seat[t] \in Rotations \cup {NONE}
  BY DEF TypeOK
<1> HIDE DEF moved, deserted
<1>4. CASE t \in moved
  BY <1>1, <1>2, <1>4 DEF TicketStep, Boards, DepartedStates, WaitingTicketStates
<1>5. CASE t \in Aboard(r) \ moved
  <2>1. seat[t] = r
    BY <1>5 DEF Aboard
  <2> QED
    BY <1>1, <1>2, <1>5, <2>1 DEF TicketStep, Rides, KeepsSeat, DepartedStates, WaitingTicketStates
<1>6. CASE t \notin Aboard(r) \cup moved
  <2>1. seat[t] # r /\ seat'[t] = seat[t] /\ ticketState'[t] = ticketState[t]
    BY <1>2, <1>6 DEF Aboard
  <2> QED
    BY <1>1, <1>2, <1>3, <2>1 DEF TicketStep, Rests, KeepsSeat, DepartedStates
<1> QED  BY <1>4, <1>5, <1>6

LEMMA TransitionMovesTickets ==
  ASSUME TypeOK, NEW r \in Rotations, NEW to, NEW craft, NEW passenger,
         Transition(r, to, craft, passenger),
         IF to \in DepartedStates THEN passenger = to ELSE passenger \in WaitingTicketStates,
         NEW t \in Tickets
  PROVE  TicketStep(t)
<1>1. /\ seat' = seat /\ checkedIn' = checkedIn
      /\ rotationState' = [rotationState EXCEPT ![r] = to]
      /\ ticketState' = [u \in Tickets |-> IF u \in Aboard(r) THEN passenger ELSE ticketState[u]]
  BY DEF Transition, assignmentVars
<1>2. rotationState \in [Rotations -> RotationStates] /\ r # NONE
  BY DEF TypeOK, Rotations
<1>3. CASE seat[t] = r
  BY <1>1, <1>2, <1>3 DEF TicketStep, Rides, KeepsSeat, Aboard
<1>4. CASE seat[t] # r
  <2>1. ticketState'[t] = ticketState[t] /\ seat[t] \in Rotations \cup {NONE}
    BY <1>1, <1>4 DEF Aboard, TypeOK
  <2> QED  BY <1>1, <1>2, <1>4, <2>1 DEF TicketStep, Rests, KeepsSeat
<1> QED  BY <1>3, <1>4

LEMMA ReturnMovesTickets ==
  ASSUME TypeOK, NEW r \in Rotations, NEW craft, ReturnToQueue(r, craft), NEW t \in Tickets
  PROVE  TicketStep(t)
<1>1. /\ seat' = seat /\ checkedIn' = checkedIn
      /\ rotationState' = [rotationState EXCEPT ![r] = "DRAFT"]
      /\ ticketState' = [u \in Tickets |-> IF u \in Aboard(r) THEN WaitingState(u) ELSE ticketState[u]]
  BY DEF ReturnToQueue, assignmentVars
<1>2. rotationState \in [Rotations -> RotationStates] /\ r # NONE
  BY DEF TypeOK, Rotations
<1>3. CASE seat[t] = r
  <2>1. ticketState'[t] \in WaitingTicketStates
    BY <1>1, <1>3, WaitingTypes DEF Aboard, WaitingTicketStates
  <2> QED  BY <1>1, <1>2, <1>3, <2>1 DEF TicketStep, Rides, KeepsSeat, DepartedStates
<1>4. CASE seat[t] # r
  <2>1. ticketState'[t] = ticketState[t] /\ seat[t] \in Rotations \cup {NONE}
    BY <1>1, <1>4 DEF Aboard, TypeOK
  <2> QED  BY <1>1, <1>2, <1>4, <2>1 DEF TicketStep, Rests, KeepsSeat
<1> QED  BY <1>3, <1>4

LEMMA ReseatMovesTickets ==
  ASSUME TypeOK, NEW g \in Groups, NEW capacity, NEW slots \in Slottings(g, capacity),
         NEW emptied \in SUBSET RotationsOf(g), SeatInNewRotations(g, slots, emptied),
         SetGroupAndTickets(g, "QUEUED", "QUEUED"), checkedIn' = checkedIn,
         \A r \in RotationsOf(g) : rotationState[r] \notin DepartedStates,
         NEW t \in Tickets
  PROVE  TicketStep(t)
<1>1. /\ \A u \in TicketsOf(g) : slots[u] \in Rotations /\ rotationState[slots[u]] = "FREE"
      /\ rotationState' = [r \in Rotations |->
           IF \E u \in TicketsOf(g) : slots[u] = r THEN "DRAFT"
           ELSE IF r \in emptied THEN "CANCELED" ELSE rotationState[r]]
      /\ seat' = [u \in Tickets |-> IF GroupOf[u] = g THEN slots[u] ELSE seat[u]]
      /\ ticketState' = [u \in Tickets |-> IF GroupOf[u] = g THEN "QUEUED" ELSE ticketState[u]]
      /\ seat[t] \in Rotations \cup {NONE}
  BY SlottingsType DEF SeatInNewRotations, SetGroupAndTickets, TypeOK
<1>2. CASE GroupOf[t] = g
  <2>1. t \in TicketsOf(g) /\ (seat[t] # NONE => seat[t] \in RotationsOf(g))
    BY <1>2 DEF TicketsOf, RotationsOf
  <2>2. rotationState'[slots[t]] = "DRAFT" /\ slots[t] # NONE
    BY <1>1, <2>1 DEF Rotations
  <2> QED
    BY <1>1, <1>2, <2>1, <2>2 DEF TicketStep, Boards, DepartedStates, WaitingTicketStates
<1>3. CASE GroupOf[t] # g
  <2>1. ASSUME seat[t] # NONE
        PROVE  \/ rotationState'[seat[t]] = rotationState[seat[t]]
               \/ /\ rotationState[seat[t]] \notin DepartedStates
                  /\ rotationState'[seat[t]] \notin DepartedStates
    <3>1. CASE \E u \in TicketsOf(g) : slots[u] = seat[t]
      BY <1>1, <2>1, <3>1 DEF DepartedStates
    <3>2. CASE ~ \E u \in TicketsOf(g) : slots[u] = seat[t]
      BY <1>1, <2>1, <3>2 DEF DepartedStates
    <3> QED  BY <3>1, <3>2
  <2>2. seat'[t] = seat[t] /\ ticketState'[t] = ticketState[t]
    BY <1>1, <1>3
  <2> QED  BY <2>1, <2>2 DEF TicketStep, Rests, KeepsSeat
<1> QED  BY <1>2, <1>3

LEMMA EndGroupMovesTickets ==
  ASSUME TypeOK, NEW g \in Groups, NEW status \in ExceptionStates, MutationAllowed(g),
         EndGroup(g, status), checkedIn' = checkedIn, NEW t \in Tickets
  PROVE  TicketStep(t)
<1>1. /\ rotationState' = [r \in Rotations |-> IF r \in EmptiedBy(g) THEN "CANCELED"
                                                                    ELSE rotationState[r]]
      /\ seat' = [u \in Tickets |-> IF GroupOf[u] = g THEN NONE ELSE seat[u]]
      /\ ticketState' = [u \in Tickets |-> IF GroupOf[u] = g THEN status ELSE ticketState[u]]
      /\ \A r \in RotationsOf(g) : rotationState[r] \notin DepartedStates
      /\ seat[t] \in Rotations \cup {NONE}
  BY DEF EndGroup, SetGroupAndTickets, MutationAllowed, TypeOK
<1>2. CASE GroupOf[t] = g
  <2>1. seat[t] # NONE => seat[t] \in RotationsOf(g)
    BY <1>2 DEF RotationsOf, TicketsOf
  <2> QED  BY <1>1, <1>2, <2>1 DEF TicketStep, Leaves
<1>3. CASE GroupOf[t] # g
  <2>1. EmptiedBy(g) \subseteq RotationsOf(g)
    BY DEF EmptiedBy
  <2>2. seat'[t] = seat[t] /\ ticketState'[t] = ticketState[t]
    BY <1>1, <1>3
  <2> QED  BY <1>1, <2>1, <2>2 DEF TicketStep, Rests, KeepsSeat, DepartedStates
<1> QED  BY <1>2, <1>3

LEMMA TicketDeskMovesTickets ==
  ASSUME TypeOK, UnsoldSeatless, TicketDeskStep, NEW t \in Tickets
  PROVE  TicketStep(t)
<1>1. ASSUME NEW g \in Groups, NEW slots \in Slottings(g, EffectiveGroupCapacity),
             SellTicketGroup(g, slots)
      PROVE  TicketStep(t)
  <2>1. RotationsOf(g) = {}
    BY <1>1 DEF SellTicketGroup, UnsoldSeatless, RotationsOf, TicketsOf
  <2> QED  BY <1>1, <2>1, ReseatMovesTickets DEF SellTicketGroup
<1>2. ASSUME NEW g \in Groups, CancelTicketGroup(g) PROVE TicketStep(t)
  BY <1>2, EndGroupMovesTickets DEF CancelTicketGroup, ExceptionStates
<1>3. ASSUME NEW g \in Groups, MarkNoShow(g) PROVE TicketStep(t)
  BY <1>3, EndGroupMovesTickets DEF MarkNoShow, ExceptionStates
<1>4. ASSUME NEW g \in Groups, DeferTicketGroup(g) PROVE TicketStep(t)
  <2>1. CASE EndGroup(g, "CLARIFICATION")
    BY <1>4, <2>1, EndGroupMovesTickets DEF DeferTicketGroup, ExceptionStates
  <2>2. ASSUME NEW slots \in Slottings(g, ReferenceCapacity),
               SeatInNewRotations(g, slots, EmptiedBy(g)), SetGroupAndTickets(g, "QUEUED", "QUEUED")
        PROVE  TicketStep(t)
    <3>1. EmptiedBy(g) \in SUBSET RotationsOf(g)
      BY DEF EmptiedBy
    <3> QED  BY <1>4, <2>2, <3>1, ReseatMovesTickets DEF DeferTicketGroup, MutationAllowed
  <2> QED  BY <1>4, <2>1, <2>2 DEF DeferTicketGroup
<1> QED  BY <1>1, <1>2, <1>3, <1>4 DEF TicketDeskStep

LEMMA NoShowMovesTickets ==
  ASSUME TypeOK, NEW u \in Tickets, MarkTicketNoShow(u), NEW t \in Tickets
  PROVE  TicketStep(t)
<1>1. /\ seat' = [seat EXCEPT ![u] = NONE] /\ checkedIn' = checkedIn
      /\ ticketState' = [ticketState EXCEPT ![u] = "NO_SHOW"]
      /\ rotationState' = [r \in Rotations |-> IF r = seat[u] /\ RotationEmptiedBy(u)
                                               THEN "CANCELED" ELSE rotationState[r]]
      /\ rotationState[seat[u]] = "CALLED"
      /\ seat \in [Tickets -> Rotations \cup {NONE}]
      /\ ticketState \in [Tickets -> TicketStates]
  BY DEF MarkTicketNoShow, TicketNoShowAllowed, TypeOK
<1>2. CASE t = u
  BY <1>1, <1>2 DEF TicketStep, Leaves, DepartedStates, ExceptionStates
<1>3. CASE t # u
  <2>1. seat'[t] = seat[t] /\ ticketState'[t] = ticketState[t]
    BY <1>1, <1>3
  <2> QED  BY <1>1, <2>1 DEF TicketStep, Rests, KeepsSeat, DepartedStates
<1> QED  BY <1>2, <1>3

\* A step that leaves rotations, seats, tickets and attendance alone.
LEMMA TicketsUntouched ==
  ASSUME UNCHANGED <<rotationState, seat, ticketState, checkedIn>>, NEW t \in Tickets
  PROVE  TicketStep(t)
BY DEF TicketStep, Rests, KeepsSeat

LEMMA AttendanceMovesTickets ==
  ASSUME TypeOK, AttendanceStep, NEW t \in Tickets
  PROVE  TicketStep(t)
<1>1. ASSUME NEW u \in Tickets, NEW isIn \in BOOLEAN, SetTicketAttendance(u, isIn)
      PROVE  TicketStep(t)
  <2>1. /\ rotationState' = rotationState /\ seat' = seat
        /\ seat[u] # NONE /\ rotationState[seat[u]] \notin DepartedStates
    BY <1>1 DEF SetTicketAttendance, AttendanceOpen, rotationVars, assignmentVars, DepartedStates
  <2>2. CASE t = u
    <3>1. ticketState'[t] \in WaitingTicketStates
      BY <1>1, <2>2 DEF SetTicketAttendance, StatusForAttendance, WaitingTicketStates, TypeOK
    <3> QED  BY <2>1, <2>2, <3>1 DEF TicketStep, Checked
  <2>3. CASE t # u
    <3>1. ticketState'[t] = ticketState[t] /\ (t \in checkedIn' <=> t \in checkedIn)
      BY <1>1, <2>3 DEF SetTicketAttendance, Record, TypeOK
    <3> QED  BY <2>1, <3>1 DEF TicketStep, Rests, KeepsSeat
  <2> QED  BY <2>2, <2>3
<1>2. ASSUME NEW g \in Groups, NEW r \in Rotations, NEW isIn \in BOOLEAN,
             SetTicketGroupAttendance(g, r, isIn)
      PROVE  TicketStep(t)
  BY <1>2 DEF SetTicketGroupAttendance, rotationVars, assignmentVars, TicketStep, CheckedWithGroup
<1>3. ASSUME NEW g \in Groups, MarkTicketGroupMissing(g) \/ RestoreTicketGroupToQueue(g)
      PROVE  TicketStep(t)
  BY <1>3, TicketsUntouched DEF MarkTicketGroupMissing, RestoreTicketGroupToQueue, rotationVars,
     assignmentVars, ticketVars
<1> QED  BY <1>1, <1>2, <1>3, NoShowMovesTickets DEF AttendanceStep

LEMMA CapacityMovesTickets ==
  ASSUME TypeOK, NEW r \in Rotations, NEW capacity, NEW K \in SUBSET GroupsAboard(r),
         NEW row \in OwnRows(GroupsAboard(r) \ K), SetRotationCapacity(r, capacity, K, row),
         NEW t \in Tickets
  PROVE  TicketStep(t)
<1> DEFINE evicted == GroupsAboard(r) \ K
           leaving == {u \in Aboard(r) : GroupOf[u] \in evicted}
<1>1. \A g \in evicted : row[g] \in Rotations /\ rotationState[row[g]] = "FREE"
  BY OwnRowsType
<1>2. /\ rotationState' = [q \in Rotations |-> IF \E g \in evicted : row[g] = q THEN "DRAFT"
                                               ELSE IF q = r /\ K = {} THEN "CANCELED"
                                               ELSE rotationState[q]]
      /\ seat' = [u \in Tickets |-> IF u \in leaving THEN row[GroupOf[u]] ELSE seat[u]]
      /\ ticketState' = [u \in Tickets |-> IF u \in leaving THEN "QUEUED" ELSE ticketState[u]]
      /\ checkedIn' = checkedIn
      /\ rotationState[r] = "DRAFT"
  BY DEF SetRotationCapacity, CapacityChangeAllowed
<1>3. seat[t] \in Rotations \cup {NONE}
  BY DEF TypeOK
<1>4. CASE t \in leaving
  <2>1. GroupOf[t] \in evicted /\ seat[t] = r
    BY <1>4 DEF Aboard
  <2> HIDE DEF evicted, leaving
  <2>2. /\ row[GroupOf[t]] \in Rotations /\ rotationState[row[GroupOf[t]]] = "FREE"
        /\ rotationState'[row[GroupOf[t]]] = "DRAFT" /\ row[GroupOf[t]] # NONE
    BY <1>1, <1>2, <2>1 DEF Rotations
  <2> QED
    BY <1>2, <1>4, <2>1, <2>2 DEF TicketStep, Boards, DepartedStates, WaitingTicketStates
<1>5. CASE t \notin leaving
  <2> HIDE DEF evicted, leaving
  <2>1. seat'[t] = seat[t] /\ ticketState'[t] = ticketState[t]
    BY <1>2, <1>5
  <2>2. ASSUME seat[t] # NONE
        PROVE  \/ rotationState'[seat[t]] = rotationState[seat[t]]
               \/ /\ rotationState[seat[t]] \notin DepartedStates
                  /\ rotationState'[seat[t]] \notin DepartedStates
    <3>1. CASE \E g \in evicted : row[g] = seat[t]
      BY <1>1, <1>2, <1>3, <2>2, <3>1 DEF DepartedStates
    <3>2. CASE ~ \E g \in evicted : row[g] = seat[t]
      BY <1>2, <1>3, <2>2, <3>2 DEF DepartedStates
    <3> QED  BY <3>1, <3>2
  <2> QED  BY <1>2, <2>1, <2>2 DEF TicketStep, Rests, KeepsSeat
<1> QED  BY <1>4, <1>5

LEMMA MoveMovesTickets ==
  ASSUME TypeOK, NEW g \in Groups, NEW target \in Rotations, MoveTicketGroup(g, target),
         NEW t \in Tickets
  PROVE  TicketStep(t)
<1>1. /\ rotationState' = [r \in Rotations |-> IF r \in EmptiedBy(g) \ {target} THEN "CANCELED"
                                               ELSE rotationState[r]]
      /\ seat' = [u \in Tickets |-> IF GroupOf[u] = g THEN target ELSE seat[u]]
      /\ ticketState' = [u \in Tickets |-> IF GroupOf[u] = g THEN MovedState(u, target)
                                                             ELSE ticketState[u]]
      /\ checkedIn' = checkedIn /\ target # NONE
      /\ \A r \in RotationsOf(g) : rotationState[r] \notin DepartedStates
      /\ rotationState[target] \notin {"FREE"} \cup DepartedStates
      /\ seat[t] \in Rotations \cup {NONE}
  BY DEF MoveTicketGroup, MoveAllowed, TypeOK, Rotations, DepartedStates
<1>2. CASE GroupOf[t] = g
  <2>1. seat[t] # NONE => seat[t] \in RotationsOf(g)
    BY <1>2 DEF RotationsOf, TicketsOf
  <2>2. MovedState(t, target) \in WaitingTicketStates
    BY WaitingTypes DEF MovedState, WaitingTicketStates
  <2> QED  BY <1>1, <1>2, <2>1, <2>2 DEF TicketStep, Boards
<1>3. CASE GroupOf[t] # g
  <2>1. EmptiedBy(g) \subseteq RotationsOf(g)
    BY DEF EmptiedBy
  <2>2. seat'[t] = seat[t] /\ ticketState'[t] = ticketState[t]
    BY <1>1, <1>3
  <2> QED  BY <1>1, <2>1, <2>2 DEF TicketStep, Rests, KeepsSeat, DepartedStates
<1> QED  BY <1>2, <1>3

LEMMA ManifestMovesTickets ==
  ASSUME TypeOK, NEW g \in Groups, NEW target \in Rotations, CorrectRotationManifest(g, target),
         NEW t \in Tickets
  PROVE  TicketStep(t)
<1>1. /\ rotationState' = rotationState /\ checkedIn' = checkedIn
      /\ "CORRECT_ROTATION_MANIFEST" \in Commands
      /\ rotationState[target] \in DepartedStates /\ target # NONE
      /\ \A u \in TicketsOf(g) : seat[u] # NONE
      /\ seat' = [u \in Tickets |-> IF GroupOf[u] = g THEN target ELSE seat[u]]
      /\ ticketState' = [u \in Tickets |-> IF GroupOf[u] = g THEN rotationState[target]
                                                             ELSE ticketState[u]]
  BY DEF CorrectRotationManifest, rotationVars, Rotations
<1>2. CASE GroupOf[t] = g
  BY <1>1, <1>2 DEF TicketStep, Corrected, TicketsOf
<1>3. CASE GroupOf[t] # g
  BY <1>1, <1>3 DEF TicketStep, Rests, KeepsSeat
<1> QED  BY <1>2, <1>3

LEMMA NextMovesTickets ==
  ASSUME TypeOK, UnsoldSeatless, [Next]_vars, NEW t \in Tickets
  PROVE  TicketStep(t)
<1>1. ASSUME NEW r \in Rotations, MarkOffBlock(r) PROVE TicketStep(t)
  BY <1>1, TransitionMovesTickets DEF MarkOffBlock, DepartedStates
<1>2. ASSUME NEW r \in Rotations, MarkOnBlock(r) PROVE TicketStep(t)
  BY <1>2, TransitionMovesTickets DEF MarkOnBlock, DepartedStates
<1>3. ASSUME NEW r \in Rotations, NEW s \in IdleStates, CompleteTurnaround(r, s)
      PROVE  TicketStep(t)
  BY <1>3, TransitionMovesTickets DEF CompleteTurnaround, DepartedStates
<1>4. ASSUME NEW r \in Rotations, CancelRotation(r) PROVE TicketStep(t)
  BY <1>4, TransitionMovesTickets DEF CancelRotation, DepartedStates, WaitingTicketStates
<1>5. TransitionStep => TicketStep(t)
  BY <1>1, <1>2, <1>3, <1>4, CallMovesTickets DEF TransitionStep
<1>6. RecoveryStep => TicketStep(t)
  BY ReturnMovesTickets DEF RecoveryStep, RevokeCall, AbortRotation, TechnicalAbort
<1>7. TicketDeskStep => TicketStep(t)
  BY TicketDeskMovesTickets
<1>8. AttendanceStep => TicketStep(t)
  BY AttendanceMovesTickets
<1>9. CorrectionStep => TicketStep(t)
  BY CapacityMovesTickets, MoveMovesTickets, ManifestMovesTickets DEF CorrectionStep
<1>10. FleetStep \/ UNCHANGED vars => TicketStep(t)
  BY TicketsUntouched DEF FleetStep, SetAircraftOperationalState, SetPilotPause,
     AssignAircraftPilot, SetHalted, rotationVars, assignmentVars, ticketVars, vars
<1> QED  BY <1>5, <1>6, <1>7, <1>8, <1>9, <1>10 DEF Next

LEMMA SoldInvariant == Spec => [](TypeOK /\ UnsoldSeatless)
<1>1. Init => TypeOK /\ UnsoldSeatless
  BY InitTyped DEF Init, UnsoldSeatless
<1>2. TypeOK /\ UnsoldSeatless /\ [Next]_vars => TypeOK' /\ UnsoldSeatless'
  BY NextTyped, UnsoldStaySeatless
<1> QED  BY <1>1, <1>2, PTL DEF Spec

-----------------------------------------------------------------------------
\* What follows for the tickets.

\* SET_TICKET_GROUP_ATTENDANCE is left out of the next two theorems: it writes every ticket of
\* the group, whatever became of the ticket since.
PassengerInv == TypeOK /\ UnsoldSeatless /\ NobodyLost /\ TicketsFollowRotation

LEMMA NextKeepsPassengers ==
  ASSUME "SET_TICKET_GROUP_ATTENDANCE" \notin Commands, PassengerInv, [Next]_vars
  PROVE  PassengerInv'
<1>1. TypeOK /\ UnsoldSeatless
  BY DEF PassengerInv
<1>2. TypeOK' /\ UnsoldSeatless'
  BY <1>1, NextTyped, UnsoldStaySeatless
<1>3. ASSUME NEW t \in Tickets
      PROVE  /\ (seat'[t] = NONE) <=> (ticketState'[t] \in {"UNSOLD"} \cup ExceptionStates)
             /\ seat'[t] # NONE /\ rotationState'[seat'[t]] \in DepartedStates
                  => ticketState'[t] = rotationState'[seat'[t]]
             /\ ticketState'[t] \in DepartedStates
                  => seat'[t] # NONE /\ ticketState'[t] = rotationState'[seat'[t]]
  <2> DEFINE Goal ==
        /\ (seat'[t] = NONE) <=> (ticketState'[t] \in {"UNSOLD"} \cup ExceptionStates)
        /\ seat'[t] # NONE /\ rotationState'[seat'[t]] \in DepartedStates
             => ticketState'[t] = rotationState'[seat'[t]]
        /\ ticketState'[t] \in DepartedStates
             => seat'[t] # NONE /\ ticketState'[t] = rotationState'[seat'[t]]
  <2>1. /\ (seat[t] = NONE) <=> (ticketState[t] \in {"UNSOLD"} \cup ExceptionStates)
        /\ seat[t] # NONE /\ rotationState[seat[t]] \in DepartedStates
             => ticketState[t] = rotationState[seat[t]]
        /\ ticketState[t] \in DepartedStates
             => seat[t] # NONE /\ ticketState[t] = rotationState[seat[t]]
    BY DEF PassengerInv, NobodyLost, TicketsFollowRotation
  <2>2. /\ WaitingTicketStates \cap (DepartedStates \cup {"UNSOLD"} \cup ExceptionStates) = {}
        /\ DepartedStates \cap ({"UNSOLD"} \cup ExceptionStates) = {}
    BY DEF WaitingTicketStates, DepartedStates, ExceptionStates
  <2>3. CASE Rests(t)
    BY <2>1, <2>2, <2>3 DEF Rests, KeepsSeat
  <2>4. CASE Rides(t)
    BY <2>2, <2>4 DEF Rides, KeepsSeat
  <2>5. CASE Checked(t)
    BY <2>2, <2>5 DEF Checked
  <2>6. CASE Leaves(t)
    BY <2>2, <2>6 DEF Leaves
  <2>7. CASE Boards(t)
    BY <2>2, <2>7 DEF Boards
  <2>8. CASE Corrected(t)
    BY <2>2, <2>8 DEF Corrected
  <2> QED
    BY <1>1, <2>3, <2>4, <2>5, <2>6, <2>7, <2>8, NextMovesTickets DEF TicketStep, CheckedWithGroup
<1>4. NobodyLost' /\ TicketsFollowRotation'
  BY <1>3 DEF NobodyLost, TicketsFollowRotation
<1> QED  BY <1>2, <1>4 DEF PassengerInv

LEMMA InitPassengers == Init => PassengerInv
<1> SUFFICES ASSUME Init PROVE PassengerInv
  OBVIOUS
<1>1. TypeOK
  BY InitTyped
<1>2. \A t \in Tickets : seat[t] = NONE /\ ticketState[t] = "UNSOLD"
  BY DEF Init
<1> QED
  BY <1>1, <1>2 DEF PassengerInv, UnsoldSeatless, NobodyLost, TicketsFollowRotation, DepartedStates

LEMMA PassengerInvariant ==
  ASSUME "SET_TICKET_GROUP_ATTENDANCE" \notin Commands
  PROVE  Spec => []PassengerInv
<1>1. PassengerInv /\ [Next]_vars => PassengerInv'
  BY NextKeepsPassengers
<1> QED  BY <1>1, InitPassengers, PTL DEF Spec

\* Every ticket sold keeps a seat until it ends as a no-show, in clarification or canceled,
\* whatever moves, deferrals, aborts and corrections do, for events of every size.
THEOREM NobodyGetsLost ==
  ASSUME "SET_TICKET_GROUP_ATTENDANCE" \notin Commands
  PROVE  Spec => []NobodyLost
<1>1. PassengerInv => NobodyLost
  BY DEF PassengerInv
<1> QED  BY <1>1, PassengerInvariant, PTL

\* A ticket is IN_FLIGHT, LANDED or COMPLETED exactly when its rotation is, for events of
\* every size.
THEOREM TicketsFollow ==
  ASSUME "SET_TICKET_GROUP_ATTENDANCE" \notin Commands
  PROVE  Spec => []TicketsFollowRotation
<1>1. PassengerInv => TicketsFollowRotation
  BY DEF PassengerInv
<1> QED  BY <1>1, PassengerInvariant, PTL

\* From off-block on neither who is aboard nor who is checked in changes, unless the flight
\* is called off, or the administrator corrects the manifest.
THEOREM ManifestIsLocked ==
  ASSUME Commands \cap {"SET_TICKET_GROUP_ATTENDANCE", "CORRECT_ROTATION_MANIFEST"} = {}
  PROVE  Spec => ManifestLocked
<1>1. ASSUME PassengerInv, [Next]_vars, NEW r \in Rotations,
             rotationState[r] \in DepartedStates, rotationState'[r] \in DepartedStates
      PROVE  /\ {t \in Tickets : seat'[t] = r} = Aboard(r)
             /\ \A t \in Aboard(r) : t \in checkedIn' <=> t \in checkedIn
             /\ \A t \in Aboard(r) : ticketState'[t] \in DepartedStates
  <2>1. PassengerInv'
    BY <1>1, NextKeepsPassengers
  <2>2. r # NONE
    BY DEF Rotations
  <2>3. ASSUME NEW t \in Tickets
        PROVE  /\ seat'[t] = r <=> seat[t] = r
               /\ seat[t] = r => (t \in checkedIn' <=> t \in checkedIn)
    <3>1. TicketStep(t)
      BY <1>1, NextMovesTickets DEF PassengerInv
    <3>2. CASE Rests(t) \/ Rides(t)
      BY <3>2 DEF Rests, Rides, KeepsSeat
    <3>3. CASE Checked(t) \/ Leaves(t) \/ Boards(t)
      BY <1>1, <2>2, <3>3 DEF Checked, Leaves, Boards
    <3> QED  BY <3>1, <3>2, <3>3 DEF TicketStep, Corrected, CheckedWithGroup
  <2>4. ASSUME NEW t \in Tickets, seat[t] = r PROVE ticketState'[t] \in DepartedStates
    <3>1. seat'[t] = r
      BY <2>3, <2>4
    <3> QED  BY <1>1, <2>1, <2>2, <3>1 DEF PassengerInv, TicketsFollowRotation
  <2> QED  BY <2>3, <2>4 DEF Aboard
<1>2. PassengerInv /\ [Next]_vars =>
        [\A r \in Rotations :
           rotationState[r] \in DepartedStates /\ rotationState'[r] \in DepartedStates =>
             /\ {t \in Tickets : seat'[t] = r} = Aboard(r)
             /\ \A t \in Aboard(r) : t \in checkedIn' <=> t \in checkedIn
             /\ \A t \in Aboard(r) : ticketState'[t] \in DepartedStates]_vars
  BY <1>1
<1>3. Spec => []PassengerInv
  BY PassengerInvariant
<1> QED  BY <1>2, <1>3, PTL DEF Spec, ManifestLocked

-----------------------------------------------------------------------------
\* What has ended.

\* No command takes a rotation back that has ended.
LEMMA EndedRotationsStay ==
  ASSUME TypeOK, [Next]_vars, NEW r \in Rotations, rotationState[r] \in {"COMPLETED", "CANCELED"}
  PROVE  rotationState'[r] = rotationState[r]
<1>0. rotationState \in [Rotations -> RotationStates]
  BY DEF TypeOK
<1>1. CASE rotationState' = rotationState
  BY <1>1
<1>2. ASSUME NEW G \in SUBSET Groups \ {{}}, NEW segment \in Segments(G), NEW primary \in G,
             NEW a \in Aircraft, NEW p \in Pilots, CallNext(G, segment, primary, a, p)
      PROVE  rotationState'[r] = rotationState[r]
  <2>1. \A g \in G : rotationState[segment[g]] = "DRAFT"
    BY DEF Segments
  <2> QED  BY <1>2, <2>1 DEF CallNext
<1>3. ASSUME NEW q \in Rotations, NEW to, NEW craft, NEW passenger,
             Transition(q, to, craft, passenger)
      PROVE  rotationState'[r] = rotationState[r]
  BY <1>0, <1>3 DEF Transition, MayTurn
<1>4. CASE TransitionStep
  BY <1>2, <1>3, <1>4 DEF TransitionStep, MarkOffBlock, MarkOnBlock, CompleteTurnaround,
     CancelRotation
<1>5. ASSUME NEW q \in Rotations, NEW craft, ReturnToQueue(q, craft),
             rotationState[q] \in {"CALLED", "IN_FLIGHT"}
      PROVE  rotationState'[r] = rotationState[r]
  BY <1>0, <1>5 DEF ReturnToQueue
<1>6. CASE RecoveryStep
  BY <1>5, <1>6 DEF RecoveryStep, RevokeCall, AbortRotation, TechnicalAbort
<1>7. ASSUME NEW g \in Groups, NEW capacity, NEW slots \in Slottings(g, capacity), NEW emptied,
             SeatInNewRotations(g, slots, emptied),
             \A q \in emptied : rotationState[q] \notin DepartedStates
      PROVE  rotationState'[r] = rotationState[r]
  BY <1>7, SlottingsType DEF SeatInNewRotations, DepartedStates
<1>8. ASSUME NEW g \in Groups, NEW status, EndGroup(g, status), MutationAllowed(g)
      PROVE  rotationState'[r] = rotationState[r]
  BY <1>8 DEF EndGroup, MutationAllowed, EmptiedBy, DepartedStates
<1>9. CASE TicketDeskStep
  <2>1. ASSUME NEW g \in Groups, DeferTicketGroup(g) PROVE rotationState'[r] = rotationState[r]
    <3>1. MutationAllowed(g) /\ \A q \in EmptiedBy(g) : rotationState[q] \notin DepartedStates
      BY <2>1 DEF DeferTicketGroup, MutationAllowed, EmptiedBy
    <3> QED  BY <1>7, <1>8, <2>1, <3>1 DEF DeferTicketGroup
  <2> QED
    BY <1>7, <1>8, <1>9, <2>1 DEF TicketDeskStep, SellTicketGroup, CancelTicketGroup, MarkNoShow
<1>10. CASE AttendanceStep
  BY <1>10 DEF AttendanceStep, SetTicketAttendance, SetTicketGroupAttendance, rotationVars,
     MarkTicketGroupMissing, RestoreTicketGroupToQueue, MarkTicketNoShow, TicketNoShowAllowed
<1>11. ASSUME NEW q \in Rotations, NEW capacity, NEW K \in SUBSET GroupsAboard(q),
              NEW row \in OwnRows(GroupsAboard(q) \ K), SetRotationCapacity(q, capacity, K, row)
       PROVE  rotationState'[r] = rotationState[r]
  <2>1. \A g \in GroupsAboard(q) \ K : rotationState[row[g]] = "FREE"
    BY OwnRowsType
  <2> QED  BY <1>11, <2>1 DEF SetRotationCapacity, CapacityChangeAllowed
<1>12. ASSUME NEW g \in Groups, NEW target \in Rotations, MoveTicketGroup(g, target)
       PROVE  rotationState'[r] = rotationState[r]
  BY <1>12 DEF MoveTicketGroup, MoveAllowed, EmptiedBy, DepartedStates
<1>13. CASE CorrectionStep
  BY <1>11, <1>12, <1>13 DEF CorrectionStep, CorrectRotationManifest, rotationVars
<1>14. CASE FleetStep \/ UNCHANGED vars
  BY <1>14 DEF FleetStep, SetAircraftOperationalState, SetPilotPause, AssignAircraftPilot,
     SetHalted, rotationVars, vars
<1> QED  BY <1>4, <1>6, <1>9, <1>10, <1>13, <1>14 DEF Next

\* A row of rotations, once created, exists for good.
LEMMA RowsStay ==
  ASSUME TypeOK, [Next]_vars, NEW r \in Rotations, rotationState[r] # "FREE"
  PROVE  rotationState'[r] # "FREE"
<1>0. rotationState \in [Rotations -> RotationStates]
  BY DEF TypeOK
<1>1. ASSUME NEW G, NEW segment, NEW primary, NEW a, NEW p, CallNext(G, segment, primary, a, p)
      PROVE  rotationState'[r] # "FREE"
  BY <1>1 DEF CallNext
<1>2. ASSUME NEW q, NEW to, NEW craft, NEW passenger, Transition(q, to, craft, passenger)
      PROVE  rotationState'[r] # "FREE"
  BY <1>0, <1>2 DEF Transition, MayTurn
<1>3. CASE TransitionStep
  BY <1>1, <1>2, <1>3 DEF TransitionStep, MarkOffBlock, MarkOnBlock, CompleteTurnaround,
     CancelRotation
<1>4. CASE RecoveryStep
  BY <1>0, <1>4 DEF RecoveryStep, RevokeCall, AbortRotation, TechnicalAbort, ReturnToQueue
<1>5. CASE TicketDeskStep
  BY <1>5 DEF TicketDeskStep, SellTicketGroup, CancelTicketGroup, DeferTicketGroup, MarkNoShow,
     EndGroup, SeatInNewRotations
<1>6. CASE AttendanceStep
  BY <1>6 DEF AttendanceStep, SetTicketAttendance, SetTicketGroupAttendance, rotationVars,
     MarkTicketGroupMissing, RestoreTicketGroupToQueue, MarkTicketNoShow
<1>7. CASE CorrectionStep
  BY <1>7 DEF CorrectionStep, SetRotationCapacity, MoveTicketGroup, CorrectRotationManifest,
     rotationVars
<1>8. CASE FleetStep \/ UNCHANGED vars
  BY <1>8 DEF FleetStep, SetAircraftOperationalState, SetPilotPause, AssignAircraftPilot,
     SetHalted, rotationVars, vars
<1> QED  BY <1>3, <1>4, <1>5, <1>6, <1>7, <1>8 DEF Next

SeatsExist == \A t \in Tickets : seat[t] # NONE => rotationState[seat[t]] # "FREE"

LEMMA SeatsKeepExisting ==
  ASSUME TypeOK, UnsoldSeatless, SeatsExist, [Next]_vars
  PROVE  SeatsExist'
<1> SUFFICES ASSUME NEW t \in Tickets, seat'[t] # NONE PROVE rotationState'[seat'[t]] # "FREE"
  BY DEF SeatsExist
<1>1. TicketStep(t)
  BY NextMovesTickets
<1>2. ASSUME seat'[t] = seat[t] PROVE rotationState'[seat'[t]] # "FREE"
  <2>1. seat[t] \in Rotations
    BY <1>2 DEF TypeOK
  <2> QED  BY <1>2, <2>1, RowsStay DEF SeatsExist
<1> QED
  BY <1>1, <1>2 DEF TicketStep, Rests, Rides, KeepsSeat, Checked, Leaves, Boards, Corrected,
     CheckedWithGroup, DepartedStates

\* Nobody flies twice on one ticket: a rotation that has ended stays as it is, and a ticket of
\* a completed one keeps a seat in a rotation that has departed, with every command.
THEOREM WhatEndedStays == Spec => EndedForGood
<1>1. ASSUME TypeOK, UnsoldSeatless, [Next]_vars, NEW t \in Tickets,
             seat[t] # NONE, rotationState[seat[t]] = "COMPLETED"
      PROVE  seat'[t] # NONE /\ rotationState[seat'[t]] \in DepartedStates
  <2>1. rotationState[seat[t]] \in DepartedStates
    BY <1>1 DEF DepartedStates
  <2> QED
    BY <1>1, <2>1, NextMovesTickets
    DEF TicketStep, Rests, Rides, KeepsSeat, Checked, Leaves, Boards, Corrected, CheckedWithGroup
<1>2. TypeOK /\ UnsoldSeatless /\ [Next]_vars =>
        [/\ \A r \in Rotations : rotationState[r] \in {"COMPLETED", "CANCELED"}
              => rotationState'[r] = rotationState[r]
         /\ \A t \in Tickets : seat[t] # NONE /\ rotationState[seat[t]] = "COMPLETED"
              => seat'[t] # NONE /\ rotationState[seat'[t]] \in DepartedStates]_vars
  BY <1>1, EndedRotationsStay
<1> QED  BY <1>2, SoldInvariant, PTL DEF Spec, EndedForGood

-----------------------------------------------------------------------------
\* Who is bound to a rotation.

\* A rotation without a call holds no aircraft and no pilot.
Unbound ==
  \A r \in Rotations : rotationState[r] \in {"FREE", "DRAFT"} => aircraftOf[r] = NONE /\ pilotOf[r] = NONE

Occupied == \A r \in Rotations : Active(r) => Aboard(r) # {}

LEMMA UnboundStays ==
  ASSUME TypeOK, Unbound, [Next]_vars
  PROVE  Unbound'
<1>1. ASSUME aircraftOf' = aircraftOf, pilotOf' = pilotOf,
             \A r \in Rotations : rotationState'[r] \in {"FREE", "DRAFT"} => rotationState[r] \in {"FREE", "DRAFT"}
      PROVE  Unbound'
  BY <1>1 DEF Unbound
<1>2. /\ rotationState \in [Rotations -> RotationStates]
      /\ aircraftOf \in [Rotations -> Aircraft \cup {NONE}]
      /\ pilotOf \in [Rotations -> Pilots \cup {NONE}]
  BY DEF TypeOK
<1>3. ASSUME NEW G \in SUBSET Groups \ {{}}, NEW segment \in Segments(G), NEW primary \in G,
             NEW a \in Aircraft, NEW p \in Pilots, CallNext(G, segment, primary, a, p)
      PROVE  Unbound'
  BY <1>2, <1>3 DEF CallNext, Unbound
<1>4. ASSUME NEW r \in Rotations, NEW to \in {"IN_FLIGHT", "LANDED", "COMPLETED", "CANCELED"},
             NEW craft, NEW passenger, Transition(r, to, craft, passenger)
      PROVE  Unbound'
  BY <1>1, <1>2, <1>4 DEF Transition
<1>5. CASE TransitionStep
  BY <1>3, <1>4, <1>5 DEF TransitionStep, MarkOffBlock, MarkOnBlock, CompleteTurnaround,
     CancelRotation
<1>6. ASSUME NEW r \in Rotations, NEW craft, ReturnToQueue(r, craft) PROVE Unbound'
  BY <1>2, <1>6 DEF ReturnToQueue, Unbound
<1>7. CASE RecoveryStep
  BY <1>6, <1>7 DEF RecoveryStep, RevokeCall, AbortRotation, TechnicalAbort
<1>8. ASSUME NEW g \in Groups, NEW capacity, NEW slots \in Slottings(g, capacity), NEW emptied,
             SeatInNewRotations(g, slots, emptied), aircraftOf' = aircraftOf, pilotOf' = pilotOf
      PROVE  Unbound'
  BY <1>1, <1>8, SlottingsType DEF SeatInNewRotations
<1>9. ASSUME NEW g \in Groups, NEW status, EndGroup(g, status), aircraftOf' = aircraftOf,
             pilotOf' = pilotOf
      PROVE  Unbound'
  BY <1>1, <1>9 DEF EndGroup
<1>10. CASE TicketDeskStep
  BY <1>8, <1>9, <1>10 DEF TicketDeskStep, SellTicketGroup, CancelTicketGroup, DeferTicketGroup,
     MarkNoShow
<1>11. CASE AttendanceStep
  BY <1>1, <1>11 DEF AttendanceStep, SetTicketAttendance, SetTicketGroupAttendance, rotationVars,
     MarkTicketGroupMissing, RestoreTicketGroupToQueue, MarkTicketNoShow
<1>12. ASSUME NEW r \in Rotations, NEW capacity, NEW K \in SUBSET GroupsAboard(r),
              NEW row \in OwnRows(GroupsAboard(r) \ K), SetRotationCapacity(r, capacity, K, row)
       PROVE  Unbound'
  BY <1>1, <1>12, OwnRowsType DEF SetRotationCapacity
<1>13. CASE CorrectionStep
  BY <1>1, <1>12, <1>13 DEF CorrectionStep, MoveTicketGroup, CorrectRotationManifest, rotationVars
<1>14. ASSUME NEW a \in Aircraft, NEW p \in Pilots, NEW r \in ActiveRotationOf(a),
              AssignAircraftPilot(a, p, r)
       PROVE  Unbound'
  <2>1. \A q \in Rotations : rotationState[q] \in {"FREE", "DRAFT"} => q # r
    BY <1>14 DEF AssignAircraftPilot, AssignmentAllowed, Rotations
  <2> QED  BY <1>14, <2>1 DEF AssignAircraftPilot, Unbound
<1>15. CASE FleetStep \/ UNCHANGED vars
  BY <1>1, <1>14, <1>15 DEF FleetStep, SetAircraftOperationalState, SetPilotPause, SetHalted,
     rotationVars, vars
<1> QED  BY <1>5, <1>7, <1>10, <1>11, <1>13, <1>15 DEF Next

LEMMA OccupiedStays ==
  ASSUME TypeOK, UnsoldSeatless, Occupied, "CORRECT_ROTATION_MANIFEST" \notin Commands, [Next]_vars
  PROVE  Occupied'
<1>1. ASSUME NEW r \in Rotations, Active(r) PROVE \E t \in Tickets : seat[t] = r
  BY <1>1 DEF Occupied, Aboard
<1>2. ASSUME \A r \in Rotations : rotationState'[r] \in ActiveStates => \E t \in Tickets : seat'[t] = r
      PROVE  Occupied'
  BY <1>2 DEF Occupied, Aboard, Active
<1>3. ASSUME seat' = seat, \A r \in Rotations : rotationState'[r] \in ActiveStates => Active(r)
      PROVE  Occupied'
  BY <1>1, <1>2, <1>3
<1>4. rotationState \in [Rotations -> RotationStates] /\ seat \in [Tickets -> Rotations \cup {NONE}]
  BY DEF TypeOK
<1>5. ASSUME NEW G \in SUBSET Groups \ {{}}, NEW segment \in Segments(G), NEW primary \in G,
             NEW a \in Aircraft, NEW p \in Pilots, CallNext(G, segment, primary, a, p)
      PROVE  Occupied'
  <2> DEFINE r == segment[primary]
             moved == {t \in Passengers(G, segment) : seat[t] # r}
  <2>1. /\ \A g \in G : rotationState[segment[g]] = "DRAFT"
        /\ \E t \in Tickets : seat[t] = r
    BY DEF Segments, RotationsOf, TicketsOf
  <2>2. \A t \in moved : seat[t] # r /\ rotationState[seat[t]] = "DRAFT"
    BY <2>1 DEF Passengers
  <2>3. /\ seat' = [t \in Tickets |-> IF t \in moved THEN r ELSE seat[t]]
        /\ \A q \in Rotations : rotationState'[q] \in ActiveStates => q = r \/ Active(q)
    BY <1>5 DEF CallNext, Active, ActiveStates
  <2> HIDE DEF moved
  <2>4. ASSUME NEW q \in Rotations, rotationState'[q] \in ActiveStates
        PROVE  \E t \in Tickets : seat'[t] = q
    BY <1>1, <2>1, <2>2, <2>3, <2>4 DEF Active, ActiveStates
  <2> QED  BY <1>2, <2>4
<1>6. ASSUME NEW r \in Rotations, NEW to, NEW craft, NEW passenger,
             Transition(r, to, craft, passenger), to # "CALLED"
      PROVE  Occupied'
  BY <1>3, <1>4, <1>6 DEF Transition, MayTurn, assignmentVars, Active, ActiveStates
<1>7. CASE TransitionStep
  <2>1. ASSUME NEW r \in Rotations, MarkOffBlock(r) \/ MarkOnBlock(r) \/ CancelRotation(r)
                 \/ \E s \in IdleStates : CompleteTurnaround(r, s)
        PROVE  Occupied'
    BY <1>6, <2>1 DEF MarkOffBlock, MarkOnBlock, CompleteTurnaround, CancelRotation
  <2> QED  BY <1>5, <1>7, <2>1 DEF TransitionStep
<1>8. CASE RecoveryStep
  BY <1>3, <1>4, <1>8 DEF RecoveryStep, RevokeCall, AbortRotation, TechnicalAbort, ReturnToQueue,
     assignmentVars, Active, ActiveStates
<1>9. ASSUME NEW g \in Groups, NEW E,
             \A r \in Rotations : rotationState'[r] \in ActiveStates => Active(r) /\ r \notin E,
             \A t \in Tickets : GroupOf[t] # g => seat'[t] = seat[t],
             EmptiedBy(g) \subseteq E
      PROVE  Occupied'
  <2>1. ASSUME NEW r \in Rotations, rotationState'[r] \in ActiveStates
        PROVE  \E t \in Tickets : seat'[t] = r
    <3>1. PICK u \in Tickets : seat[u] = r
      BY <1>1, <1>9, <2>1
    <3>2. GroupsAboard(r) # {g} \/ r \notin RotationsOf(g)
      BY <1>9, <2>1 DEF EmptiedBy
    <3>3. GroupOf[u] # g => seat'[u] = r
      BY <1>9, <3>1
    <3>4. ASSUME GroupOf[u] = g PROVE \E t \in Tickets : seat[t] = r /\ GroupOf[t] # g
      <4>1. r \in RotationsOf(g) /\ g \in GroupsAboard(r)
        BY <3>1, <3>4 DEF RotationsOf, TicketsOf, GroupsAboard, Aboard, Rotations
      <4> QED  BY <3>2, <4>1 DEF GroupsAboard, Aboard
    <3> QED  BY <1>9, <3>1, <3>3, <3>4
  <2> QED  BY <1>2, <2>1
<1>10. ASSUME NEW g \in Groups, NEW status, EndGroup(g, status) PROVE Occupied'
  <2>1. /\ \A r \in Rotations : rotationState'[r] \in ActiveStates => Active(r) /\ r \notin EmptiedBy(g)
        /\ \A t \in Tickets : GroupOf[t] # g => seat'[t] = seat[t]
    BY <1>10 DEF EndGroup, Active, ActiveStates
  <2> QED  BY <1>9, <2>1
<1>11. CASE TicketDeskStep
  <2>1. ASSUME NEW g \in Groups, NEW slots, SellTicketGroup(g, slots) PROVE Occupied'
    <3>1. \A t \in Tickets : GroupOf[t] = g => seat[t] = NONE
      BY <2>1 DEF SellTicketGroup, UnsoldSeatless
    <3>2. /\ \A r \in Rotations : rotationState'[r] \in ActiveStates => Active(r)
          /\ \A t \in Tickets : GroupOf[t] # g => seat'[t] = seat[t]
      BY <2>1 DEF SellTicketGroup, SeatInNewRotations, Active, ActiveStates
    <3>3. EmptiedBy(g) = {}
      BY <3>1 DEF EmptiedBy, RotationsOf, TicketsOf
    <3> QED  BY <1>9, <3>2, <3>3
  <2>2. ASSUME NEW g \in Groups, NEW slots, SeatInNewRotations(g, slots, EmptiedBy(g)) PROVE Occupied'
    <3>1. /\ \A r \in Rotations : rotationState'[r] \in ActiveStates => Active(r) /\ r \notin EmptiedBy(g)
          /\ \A t \in Tickets : GroupOf[t] # g => seat'[t] = seat[t]
      BY <2>2 DEF SeatInNewRotations, Active, ActiveStates
    <3> QED  BY <1>9, <3>1
  <2> QED  BY <1>10, <1>11, <2>1, <2>2 DEF TicketDeskStep, CancelTicketGroup, DeferTicketGroup, MarkNoShow
<1>12. ASSUME NEW t \in Tickets, MarkTicketNoShow(t) PROVE Occupied'
  <2>1. /\ seat[t] # NONE /\ seat' = [seat EXCEPT ![t] = NONE]
        /\ \A r \in Rotations : rotationState'[r] \in ActiveStates
             => Active(r) /\ ~ (r = seat[t] /\ RotationEmptiedBy(t))
    BY <1>12 DEF MarkTicketNoShow, TicketNoShowAllowed, Active, ActiveStates
  <2>2. ASSUME NEW r \in Rotations, rotationState'[r] \in ActiveStates
        PROVE  \E u \in Tickets : seat'[u] = r
    <3>1. CASE r = seat[t]
      BY <1>4, <2>1, <2>2, <3>1 DEF RotationEmptiedBy, Aboard
    <3>2. CASE r # seat[t]
      BY <1>1, <1>4, <2>1, <2>2, <3>2
    <3> QED  BY <3>1, <3>2
  <2> QED  BY <1>2, <2>2
<1>13. CASE AttendanceStep
  BY <1>3, <1>12, <1>13 DEF AttendanceStep, SetTicketAttendance, SetTicketGroupAttendance, Active,
     MarkTicketGroupMissing, RestoreTicketGroupToQueue, rotationVars, assignmentVars
<1>14. ASSUME NEW r \in Rotations, NEW capacity, NEW K \in SUBSET GroupsAboard(r),
              NEW row \in OwnRows(GroupsAboard(r) \ K), SetRotationCapacity(r, capacity, K, row)
       PROVE  Occupied'
  <2>1. /\ \A q \in Rotations : rotationState'[q] \in ActiveStates => Active(q) /\ q # r
        /\ \A t \in Tickets : seat[t] # r => seat'[t] = seat[t]
    BY <1>14 DEF SetRotationCapacity, CapacityChangeAllowed, Active, ActiveStates, Aboard
  <2> QED  BY <1>1, <1>2, <2>1
<1>15. ASSUME NEW g \in Groups, NEW target \in Rotations, MoveTicketGroup(g, target)
       PROVE  Occupied'
  <2>1. /\ \A r \in Rotations : rotationState'[r] \in ActiveStates
              => Active(r) /\ r \notin EmptiedBy(g) \ {target}
        /\ seat' = [t \in Tickets |-> IF GroupOf[t] = g THEN target ELSE seat[t]]
        /\ RotationsOf(g) # {}
    BY <1>15 DEF MoveTicketGroup, MoveAllowed, Active, ActiveStates
  <2>2. \E t \in Tickets : seat'[t] = target
    BY <2>1 DEF RotationsOf, TicketsOf
  <2>3. ASSUME NEW r \in Rotations, r # target, rotationState'[r] \in ActiveStates
        PROVE  \E t \in Tickets : seat'[t] = r
    <3>1. PICK u \in Tickets : seat[u] = r
      BY <1>1, <2>1, <2>3
    <3>2. r \in RotationsOf(g) => GroupsAboard(r) # {g}
      BY <2>1, <2>3 DEF EmptiedBy
    <3>3. ASSUME GroupOf[u] = g PROVE \E t \in Tickets : seat[t] = r /\ GroupOf[t] # g
      <4>1. r \in RotationsOf(g) /\ g \in GroupsAboard(r)
        BY <3>1, <3>3 DEF RotationsOf, TicketsOf, GroupsAboard, Aboard, Rotations
      <4> QED  BY <3>2, <4>1 DEF GroupsAboard, Aboard
    <3> QED  BY <2>1, <3>1, <3>3
  <2> QED  BY <1>2, <2>2, <2>3
<1>16. CASE CorrectionStep
  BY <1>14, <1>15, <1>16 DEF CorrectionStep, CorrectRotationManifest
<1>17. CASE FleetStep \/ UNCHANGED vars
  BY <1>3, <1>17 DEF FleetStep, SetAircraftOperationalState, SetPilotPause, AssignAircraftPilot,
     SetHalted, rotationVars, assignmentVars, vars, Active
<1> QED  BY <1>7, <1>8, <1>11, <1>13, <1>16, <1>17 DEF Next

\* For events of every size: a rotation that waits, or went back to wait, has neither aircraft
\* nor pilot, and a called one has somebody aboard.  CORRECT_ROTATION_MANIFEST is left out: it
\* may take the last passengers of a rotation without looking at the rotation they leave.
THEOREM CallsBind ==
  ASSUME "CORRECT_ROTATION_MANIFEST" \notin Commands
  PROVE  Spec => []BindingFollowsCall
<1> DEFINE Inv == TypeOK /\ UnsoldSeatless /\ Unbound /\ Occupied
<1>1. Init => Inv
  <2> SUFFICES ASSUME Init PROVE Inv
    OBVIOUS
  <2>1. TypeOK
    BY InitTyped
  <2> QED  BY <2>1 DEF Init, UnsoldSeatless, Unbound, Occupied, Active, ActiveStates
<1>2. Inv /\ [Next]_vars => Inv'
  BY NextTyped, UnsoldStaySeatless, UnboundStays, OccupiedStays
<1>3. Inv => BindingFollowsCall
  BY DEF Unbound, Occupied, BindingFollowsCall
<1> QED  BY <1>1, <1>2, <1>3, PTL DEF Spec
=============================================================================
