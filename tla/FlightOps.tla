------------------------------ MODULE FlightOps ------------------------------
(***************************************************************************)
(* All commands that change the rows of FlightRows, interleaved in any     *)
(* order the operators of an event may issue them, and what the rows must  *)
(* satisfy between any two commands.                                       *)
(***************************************************************************)
EXTENDS RotationTransitions, RotationRecovery, TicketDesk, Attendance,
        RotationCorrections, FleetDesk

Next ==
  \/ TransitionStep
  \/ RecoveryStep
  \/ TicketDeskStep
  \/ AttendanceStep
  \/ CorrectionStep
  \/ FleetStep

Spec == Init /\ [][Next]_vars

-----------------------------------------------------------------------------
\* Every row holds values its column allows.
TypeOK ==
  /\ rotationState \in [Rotations -> RotationStates]
  /\ aircraftOf \in [Rotations -> Aircraft \cup {NONE}]
  /\ pilotOf \in [Rotations -> Pilots \cup {NONE}]
  /\ wasCalled \subseteq Rotations
  /\ usable \in [Rotations -> Nat]
  /\ seat \in [Tickets -> Rotations \cup {NONE}]
  /\ released \in [Tickets -> SUBSET Rotations]
  /\ ticketState \in [Tickets -> TicketStates]
  /\ checkedIn \subseteq Tickets
  /\ groupState \in [Groups -> GroupStates]
  /\ deferrals \in [Groups -> Nat]
  /\ aircraftState \in [Aircraft -> AircraftStates]
  /\ currentPilot \in [Aircraft -> Pilots \cup {NONE}]
  /\ paused \subseteq Pilots
  /\ halted \in BOOLEAN

\* The state of an aircraft while a rotation in state s holds it.
CraftStateFor(s) == IF s = "CALLED" THEN "BOARDING" ELSE s

\* An aircraft is in the middle of a flight exactly while one rotation, and no
\* other, holds it: it is BOARDING, IN_FLIGHT or LANDED with that rotation, and
\* neither fleet control nor the end of another group's booking makes it
\* AVAILABLE before the turnaround is completed.
AircraftFollowsRotation ==
  /\ \A r \in Rotations : Active(r) =>
       /\ aircraftOf[r] # NONE
       /\ aircraftState[aircraftOf[r]] = CraftStateFor(rotationState[r])
       /\ \A q \in Rotations : Active(q) /\ aircraftOf[q] = aircraftOf[r] => q = r
  /\ \A a \in Aircraft : aircraftState[a] \notin IdleStates =>
       \E r \in Rotations : Active(r) /\ aircraftOf[r] = a

\* The aircraft of an active rotation is assigned to the rotation's pilot, who
\* is not paused, and no pilot is assigned to two aircraft: so no pilot is in
\* two rotations, whatever ASSIGN_AIRCRAFT_PILOT and SET_PILOT_PAUSE do between
\* a call and the turnaround.
CrewConsistent ==
  /\ \A r \in Rotations : Active(r) =>
       /\ pilotOf[r] # NONE
       /\ currentPilot[aircraftOf[r]] = pilotOf[r]
       /\ pilotOf[r] \notin paused
  /\ \A a, b \in Aircraft : currentPilot[a] = currentPilot[b] /\ a # b => currentPilot[a] = NONE

\* A rotation that is not called has neither aircraft nor pilot (revoking and
\* aborting dissolve the binding CALL_NEXT confirmed), and one that is active
\* has somebody aboard: the last passenger to leave cancels it.
BindingFollowsCall ==
  \A r \in Rotations :
    /\ rotationState[r] \in {"FREE", "DRAFT"} => aircraftOf[r] = NONE /\ pilotOf[r] = NONE
    /\ Active(r) => Aboard(r) # {}

\* No ticket is left on a rotation that will not fly.
SeatedInLiveRotation ==
  \A t \in Tickets : seat[t] # NONE => rotationState[seat[t]] \notin {"FREE", "CANCELED"}

\* A ticket said to be in the air, on the stand or flown has its seat in a
\* rotation in that very state, and everybody with a seat there is said to be.
TicketsFollowRotation ==
  \A t \in Tickets :
    /\ seat[t] # NONE /\ rotationState[seat[t]] \in DepartedStates
         => ticketState[t] = rotationState[seat[t]]
    /\ ticketState[t] \in DepartedStates
         => seat[t] # NONE /\ ticketState[t] = rotationState[seat[t]]

\* A booking group said to be in the air, on the stand or flown has a segment in
\* that state and none that still waits or boards.
GroupsFollowRotations ==
  \A g \in Groups : groupState[g] \in DepartedStates =>
    /\ \E r \in RotationsOf(g) : rotationState[r] = groupState[g]
    /\ \A r \in RotationsOf(g) : rotationState[r] \in DepartedStates

\* How a booking may end without a flight.
ExceptionStates == {"NO_SHOW", "CLARIFICATION", "CANCELED"}

\* Every ticket sold holds a seat in the queue or in a flight until the cashier
\* has to deal with it: no-show, clarification and cancellation, and nothing
\* else, take the seat away.
NobodyLost ==
  \A t \in Tickets : (seat[t] = NONE) <=> (ticketState[t] \in {"UNSOLD"} \cup ExceptionStates)

\* A booking group is never separated more than its size asks for, not by a
\* deferral, a move, a shared call or a reduced capacity; who fits stays together.
GroupsTogether ==
  \A g \in Groups : Cardinality(RotationsOf(g)) <= Parts(Cardinality(TicketsOf(g)), ReferenceCapacity)

-----------------------------------------------------------------------------
\* Nobody flies twice on one ticket: no command takes a rotation that has ended
\* back, and who sits in a COMPLETED one goes at most to another that has departed,
\* by the administrator's correction of the manifest.
EndedForGood ==
  [][/\ \A r \in Rotations : rotationState[r] \in {"COMPLETED", "CANCELED"}
          => rotationState'[r] = rotationState[r]
     /\ \A t \in Tickets : seat[t] # NONE /\ rotationState[seat[t]] = "COMPLETED"
          => seat'[t] # NONE /\ rotationState[seat'[t]] \in DepartedStates]_vars

\* No command brings a group back that ended as a no-show, in clarification or
\* canceled.
ExceptionIsFinal ==
  [][\A g \in Groups : groupState[g] \in ExceptionStates => groupState'[g] = groupState[g]]_vars

\* Off-block locks occupancy and attendance: from then on neither who is aboard
\* nor who is checked in changes, unless a technical abort calls the flight off.
ManifestLocked ==
  [][\A r \in Rotations :
       rotationState[r] \in DepartedStates /\ rotationState'[r] \in DepartedStates =>
         /\ {t \in Tickets : seat'[t] = r} = Aboard(r)
         /\ \A t \in Aboard(r) : t \in checkedIn' <=> t \in checkedIn
         /\ \A t \in Aboard(r) : ticketState'[t] \in DepartedStates]_vars

-----------------------------------------------------------------------------
\* The pilot of an aircraft on duty: the one of the active rotation that holds it.
Holders(a) == {r \in Rotations : Active(r) /\ aircraftOf[r] = a}
CrewOf == [a \in Aircraft |-> IF Holders(a) = {} THEN NONE
                              ELSE pilotOf[CHOOSE r \in Holders(a) : TRUE]]
Duty == INSTANCE FlightDuty WITH duty <- aircraftState, crew <- CrewOf

\* The rows keep the promise of FlightDuty: every command moves an aircraft and
\* its pilot together, as one step of it, or leaves both as they were.
ImplementsDuty == Duty!Spec
=============================================================================
