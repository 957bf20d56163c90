----------------------------- MODULE TicketDesk -----------------------------
(***************************************************************************)
(* SELL_TICKET_GROUP (TicketSalesCommandService) and CANCEL_TICKET_GROUP,  *)
(* DEFER_TICKET_GROUP, MARK_NO_SHOW (TicketGroupMutationCommandService).   *)
(***************************************************************************)
EXTENDS FlightRows

\* effective_group_capacity: the largest aircraft of the resource group.
EffectiveGroupCapacity ==
  CHOOSE n \in {Seats[a] : a \in Aircraft} : \A a \in Aircraft : Seats[a] <= n

\* INSERT the rotations of "slots" and seat each ticket of g in its own; the
\* rotations of "emptied" are CANCELED.
SeatInNewRotations(g, slots, emptied) ==
  /\ rotationState' = [r \in Rotations |->
       IF \E t \in TicketsOf(g) : slots[t] = r THEN "DRAFT"
       ELSE IF r \in emptied THEN "CANCELED" ELSE rotationState[r]]
  /\ seat' = [t \in Tickets |-> IF GroupOf[t] = g THEN slots[t] ELSE seat[t]]

\* Set the status of the group and of every one of its tickets.
SetGroupAndTickets(g, group, ticket) ==
  /\ groupState' = [groupState EXCEPT ![g] = group]
  /\ ticketState' = [t \in Tickets |-> IF GroupOf[t] = g THEN ticket ELSE ticketState[t]]

SellTicketGroup(g, slots) ==
  /\ "SELL_TICKET_GROUP" \in Commands
  /\ ~halted
  /\ groupState[g] = "UNSOLD"
  /\ TicketsOf(g) # {}
  /\ SeatInNewRotations(g, slots, {})
  /\ SetGroupAndTickets(g, "QUEUED", "QUEUED")
  /\ UNCHANGED <<aircraftOf, pilotOf, wasCalled, usable, released, checkedIn,
                 deferrals, fleetVars, halted>>

-----------------------------------------------------------------------------
\* Mutants: a COMPLETED flight, or a group without rotations, is let through.
MutationAllowedCompleted(g) ==
  /\ RotationsOf(g) # {}
  /\ \A r \in RotationsOf(g) : rotationState[r] \notin DepartedStates \ {"COMPLETED"}
MutationAllowedUnseated(g) ==
  /\ groupState[g] # "UNSOLD"
  /\ \A r \in RotationsOf(g) : rotationState[r] \notin DepartedStates

\* validateRotationMutation; a rotation of CANCELED state passes it.
MutationAllowed(g) ==
  /\ RotationsOf(g) # {}
  /\ \A r \in RotationsOf(g) : rotationState[r] \notin DepartedStates

\* Mutant: the aircraft of shared rotations are freed too.
LeaveRotationsShared(g) ==
  /\ Release(TicketsOf(g))
  /\ aircraftState' = FreeAircraftOf(RotationsOf(g))

\* Every assignment of the group is released, the rotations this empties are
\* CANCELED and their aircraft, if any, AVAILABLE.
LeaveRotations(g) ==
  /\ Release(TicketsOf(g))
  /\ aircraftState' = FreeAircraftOf(EmptiedBy(g))

\* Mutant: the assignments stay.
EndGroupSeated(g, status) ==
  /\ aircraftState' = FreeAircraftOf(EmptiedBy(g))
  /\ rotationState' = [r \in Rotations |-> IF r \in EmptiedBy(g) THEN "CANCELED" ELSE rotationState[r]]
  /\ UNCHANGED assignmentVars
  /\ SetGroupAndTickets(g, status, status)

EndGroup(g, status) ==
  /\ LeaveRotations(g)
  /\ rotationState' = [r \in Rotations |-> IF r \in EmptiedBy(g) THEN "CANCELED" ELSE rotationState[r]]
  /\ seat' = [t \in Tickets |-> IF GroupOf[t] = g THEN NONE ELSE seat[t]]
  /\ SetGroupAndTickets(g, status, status)

CancelTicketGroup(g) ==
  /\ "CANCEL_TICKET_GROUP" \in Commands
  /\ MutationAllowed(g)
  /\ EndGroup(g, "CANCELED")
  /\ UNCHANGED <<aircraftOf, pilotOf, wasCalled, usable, checkedIn, deferrals,
                 currentPilot, paused, halted>>

\* All segments called, each past the no-show deadline (clock left out).
MarkNoShow(g) ==
  /\ "MARK_NO_SHOW" \in Commands
  /\ MutationAllowed(g)
  /\ \A r \in RotationsOf(g) : rotationState[r] = "CALLED" /\ r \in wasCalled
  /\ EndGroup(g, "NO_SHOW")
  /\ UNCHANGED <<aircraftOf, pilotOf, wasCalled, usable, checkedIn, deferrals,
                 currentPilot, paused, halted>>

NeedsClarification(g) == deferrals[g] + 1 >= MaxDeferrals

DeferTicketGroup(g) ==
  /\ "DEFER_TICKET_GROUP" \in Commands
  /\ deferrals[g] <= MaxDeferrals    \* bound: the counter of a group that came back
  /\ MutationAllowed(g)
  /\ deferrals' = [deferrals EXCEPT ![g] = @ + 1]
  /\ \/ /\ NeedsClarification(g)
        /\ EndGroup(g, "CLARIFICATION")
     \/ /\ ~NeedsClarification(g)
        /\ LeaveRotations(g)
        /\ \E slots \in Slottings(g, ReferenceCapacity) : SeatInNewRotations(g, slots, EmptiedBy(g))
        /\ SetGroupAndTickets(g, "QUEUED", "QUEUED")
  /\ UNCHANGED <<aircraftOf, pilotOf, wasCalled, usable, checkedIn, currentPilot, paused, halted>>

-----------------------------------------------------------------------------
TicketDeskStep ==
  \/ \E g \in Groups : \E slots \in Slottings(g, EffectiveGroupCapacity) : SellTicketGroup(g, slots)
  \/ \E g \in Groups : CancelTicketGroup(g)
  \/ \E g \in Groups : DeferTicketGroup(g)
  \/ \E g \in Groups : MarkNoShow(g)
=============================================================================
