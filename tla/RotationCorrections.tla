------------------------ MODULE RotationCorrections ------------------------
(***************************************************************************)
(* SET_ROTATION_CAPACITY, MOVE_TICKET_GROUP and CORRECT_ROTATION_MANIFEST: *)
(* RotationCorrectionCommandService with the rules of the domain's         *)
(* queue.ts.                                                               *)
(***************************************************************************)
EXTENDS FlightRows

\* baseline_capacity: the aircraft's seats, else the reference capacity.
BaselineCapacity(r) == IF aircraftOf[r] = NONE THEN ReferenceCapacity ELSE Seats[aircraftOf[r]]
TargetCapacity(r)   == IF usable[r] # 0 THEN usable[r] ELSE BaselineCapacity(r)

SegmentSize(g, r) == Cardinality(TicketsOf(g) \cap Aboard(r))
Load(K, r)        == Cardinality({t \in Aboard(r) : GroupOf[t] \in K})

\* planRotationCapacityReduction: some order of the groups aboard (the queue
\* order) keeps K and cuts at the first group that no longer fits.
Keeps(K, r, capacity) ==
  /\ K \subseteq GroupsAboard(r)
  /\ Load(K, r) <= capacity
  /\ \/ K = GroupsAboard(r)
     \/ \E g \in GroupsAboard(r) \ K : Load(K, r) + SegmentSize(g, r) > capacity

CapacityChangeAllowed(r, capacity) ==
  /\ rotationState[r] = "DRAFT" /\ r \notin wasCalled
  /\ capacity \in 1..BaselineCapacity(r)
  /\ usable[r] # capacity

\* Each evicted group gets a DRAFT rotation of its own, row[g].
SetRotationCapacity(r, capacity, K, row) ==
  LET evicted == GroupsAboard(r) \ K
      leaving == {t \in Aboard(r) : GroupOf[t] \in evicted}
  IN
  /\ "SET_ROTATION_CAPACITY" \in Commands
  /\ CapacityChangeAllowed(r, capacity)
  /\ Keeps(K, r, capacity)
  /\ usable' = [usable EXCEPT ![r] = capacity]
  /\ rotationState' = [q \in Rotations |-> IF \E g \in evicted : row[g] = q THEN "DRAFT"
                                           ELSE IF q = r /\ K = {} THEN "CANCELED"
                                           ELSE rotationState[q]]
  /\ aircraftState' = FreeAircraftOf(IF K = {} THEN {r} ELSE {})
  /\ Release(leaving)
  /\ seat' = [t \in Tickets |-> IF t \in leaving THEN row[GroupOf[t]] ELSE seat[t]]
  /\ ticketState' = [t \in Tickets |-> IF t \in leaving THEN "QUEUED" ELSE ticketState[t]]
  /\ groupState' = [g \in Groups |-> IF g \in evicted THEN "QUEUED" ELSE groupState[g]]
  /\ UNCHANGED <<aircraftOf, pilotOf, wasCalled, checkedIn, deferrals, currentPilot, paused, halted>>

\* One new row per evicted group; none when the bound MaxRotations is reached.
OwnRows(evicted) ==
  LET rows == NewRows(Cardinality(evicted))
  IN  {row \in [evicted -> rows] : \A g, h \in evicted : row[g] = row[h] => g = h}

-----------------------------------------------------------------------------
\* assertManualGroupMoveAllowed and the checks before it.  The whole group must
\* fit beside the other groups of the target.
MoveAllowed(g, target) ==
  /\ RotationsOf(g) \notin {{}, {target}}
  /\ rotationState[target] \notin {"FREE", "CANCELED"} \cup DepartedStates
  /\ \A r \in RotationsOf(g) : rotationState[r] \notin DepartedStates
  /\ Cardinality({t \in Aboard(target) : GroupOf[t] # g}) + Cardinality(TicketsOf(g))
       <= TargetCapacity(target)

\* Plain INSERT of all tickets of the group.
MoveCommits(g, target) == \A t \in TicketsOf(g) : Insertable(t, target)

MovedState(t, target) ==
  IF rotationState[target] = "CALLED"
    THEN IF t \in checkedIn THEN "BOARDING" ELSE "CALLED"
    ELSE WaitingState(t)

MoveTicketGroup(g, target) ==
  /\ "MOVE_TICKET_GROUP" \in Commands
  /\ MoveAllowed(g, target)
  /\ MoveCommits(g, target)
  /\ Release(TicketsOf(g))
  /\ seat' = [t \in Tickets |-> IF GroupOf[t] = g THEN target ELSE seat[t]]
  /\ ticketState' = [t \in Tickets |-> IF GroupOf[t] = g THEN MovedState(t, target) ELSE ticketState[t]]
  /\ groupState' = [groupState EXCEPT ![g] =
                      IF rotationState[target] = "CALLED" THEN "CALLED" ELSE "QUEUED"]
  /\ rotationState' = [r \in Rotations |-> IF r \in EmptiedBy(g) \ {target} THEN "CANCELED"
                                                                  ELSE rotationState[r]]
  /\ aircraftState' = FreeAircraftOf(EmptiedBy(g) \ {target})
  /\ UNCHANGED <<aircraftOf, pilotOf, wasCalled, usable, checkedIn, deferrals,
                 currentPilot, paused, halted>>

-----------------------------------------------------------------------------
\* The administrator's correction after off-block: capacity is not enforced and
\* the rotations the group leaves are not touched.
CorrectRotationManifest(g, target) ==
  /\ "CORRECT_ROTATION_MANIFEST" \in Commands
  /\ TicketsOf(g) # {} /\ \A t \in TicketsOf(g) : seat[t] # NONE
  /\ RotationsOf(g) # {target}
  /\ rotationState[target] \in DepartedStates
  /\ seat' = [t \in Tickets |-> IF GroupOf[t] = g THEN target ELSE seat[t]]
  /\ released' = [t \in Tickets |-> IF GroupOf[t] = g
                                      THEN (released[t] \cup {seat[t]}) \ {target}
                                      ELSE released[t]]
  /\ ticketState' = [t \in Tickets |-> IF GroupOf[t] = g THEN rotationState[target] ELSE ticketState[t]]
  /\ groupState' = [groupState EXCEPT ![g] = rotationState[target]]
  /\ UNCHANGED <<rotationVars, checkedIn, deferrals, fleetVars, halted>>

-----------------------------------------------------------------------------
CorrectionStep ==
  \/ \E r \in Rotations : \E capacity \in 1..BaselineCapacity(r), K \in SUBSET GroupsAboard(r) :
       \E row \in OwnRows(GroupsAboard(r) \ K) : SetRotationCapacity(r, capacity, K, row)
  \/ \E g \in Groups, r \in Rotations : MoveTicketGroup(g, r)
  \/ \E g \in Groups, r \in Rotations : CorrectRotationManifest(g, r)
=============================================================================
