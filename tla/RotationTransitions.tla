------------------------ MODULE RotationTransitions ------------------------
(***************************************************************************)
(* CALL_NEXT, MARK_OFF_BLOCK, MARK_ON_BLOCK, COMPLETE_TURNAROUND and       *)
(* CANCEL_ROTATION: RotationTransitionCommandService and the checks of     *)
(* rotation-call-preparation.ts.                                           *)
(***************************************************************************)
EXTENDS FlightRows

\* Mutant: the landing may be skipped.
MayTurnShort(from, to) ==
  \/ from = "DRAFT"     /\ to = "CALLED"
  \/ from = "CALLED"    /\ to \in {"IN_FLIGHT", "DRAFT", "CANCELED"}
  \/ from = "IN_FLIGHT" /\ to \in {"LANDED", "COMPLETED"}
  \/ from = "LANDED"    /\ to = "COMPLETED"

\* transitionRotation of the domain package.
MayTurn(from, to) ==
  \/ from = "DRAFT"     /\ to = "CALLED"
  \/ from = "CALLED"    /\ to \in {"IN_FLIGHT", "DRAFT", "CANCELED"}
  \/ from = "IN_FLIGHT" /\ to = "LANDED"
  \/ from = "LANDED"    /\ to = "COMPLETED"

\* Mutant: segments that still wait are forgotten.
DerivedGroupStateOfFlight(g) ==
  LET segments == {rotationState'[seat'[t]] : t \in {u \in TicketsOf(g) : seat'[u] # NONE}}
  IN  IF groupState[g] \in {"MISSING", "CLARIFICATION"} THEN groupState[g]
      ELSE IF "CALLED" \in segments        THEN "BOARDING"
      ELSE IF "IN_FLIGHT" \in segments     THEN "IN_FLIGHT"
      ELSE IF "LANDED" \in segments        THEN "LANDED"
      ELSE IF "COMPLETED" \in segments     THEN "COMPLETED"
      ELSE "CANCELED"

\* The CASE that derives ticket_groups.status from the group's segments, as the
\* batch leaves them.
DerivedGroupState(g) ==
  LET segments == {rotationState'[seat'[t]] : t \in {u \in TicketsOf(g) : seat'[u] # NONE}}
      pending  == {t \in TicketsOf(g) : seat'[t] # NONE /\ rotationState'[seat'[t]] = "DRAFT"}
  IN  IF groupState[g] \in {"MISSING", "CLARIFICATION"} THEN groupState[g]
      ELSE IF pending \cap checkedIn # {}  THEN "PRESENT"
      ELSE IF pending # {}                 THEN "QUEUED"
      ELSE IF "CALLED" \in segments        THEN "BOARDING"
      ELSE IF "IN_FLIGHT" \in segments     THEN "IN_FLIGHT"
      ELSE IF "LANDED" \in segments        THEN "LANDED"
      ELSE IF "COMPLETED" \in segments     THEN "COMPLETED"
      ELSE "CANCELED"

DeriveGroups(G) ==
  groupState' = [g \in Groups |-> IF g \in G THEN DerivedGroupState(g) ELSE groupState[g]]

-----------------------------------------------------------------------------
\* loadSelectedGroups: each selected group waits, and one DRAFT segment of it
\* is taken (the code takes the first in queue order).
Segments(G) ==
  {s \in [G -> Rotations] :
     \A g \in G : s[g] \in RotationsOf(g) /\ rotationState[s[g]] = "DRAFT"}
Passengers(G, segment) ==
  UNION {{t \in TicketsOf(g) : seat[t] = segment[g]} : g \in G}

\* "p.active = 1 AND p.paused = 0 AND NOT EXISTS active rotation".
PilotFree(p) == p \notin paused /\ \A r \in Rotations : Active(r) => pilotOf[r] # p

\* validateAircraftAndPilot.
AircraftReady(a, load) == aircraftState[a] = "AVAILABLE" /\ load <= Seats[a]
CrewReady(a, p) == currentPilot[a] = p /\ PilotFree(p)

CallAllowed(G, segment, a, p) ==
  /\ ~halted
  /\ \A g \in G : groupState[g] \in {"QUEUED", "PRESENT"}
  /\ AircraftReady(a, Cardinality(Passengers(G, segment)))
  /\ CrewReady(a, p)

\* The groups selected with the primary one move into its rotation by a plain
\* INSERT.
CallCommits(G, segment, primary) ==
  \A t \in Passengers(G \ {primary}, segment) :
    seat[t] # segment[primary] => Insertable(t, segment[primary])

CallNext(G, segment, primary, a, p) ==
  LET r        == segment[primary]
      moved    == {t \in Passengers(G, segment) : seat[t] # r}
      crewed   == Aboard(r) \cup moved
      deserted == {q \in {segment[g] : g \in G} \ {r} : Aboard(q) \subseteq moved}
  IN
  /\ "CALL_NEXT" \in Commands
  /\ CallAllowed(G, segment, a, p)
  /\ CallCommits(G, segment, primary)
  /\ Release(moved)
  /\ seat' = [t \in Tickets |-> IF t \in moved THEN r ELSE seat[t]]
  /\ rotationState' = [q \in Rotations |-> IF q = r THEN "CALLED"
                                           ELSE IF q \in deserted THEN "CANCELED"
                                           ELSE rotationState[q]]
  /\ aircraftOf' = [aircraftOf EXCEPT ![r] = a]
  /\ pilotOf' = [pilotOf EXCEPT ![r] = p]
  /\ wasCalled' = wasCalled \cup {r}
  /\ aircraftState' = [aircraftState EXCEPT ![a] = "BOARDING"]
  /\ ticketState' = [t \in Tickets |-> IF t \in crewed THEN "BOARDING" ELSE ticketState[t]]
  /\ DeriveGroups({GroupOf[t] : t \in crewed})
  /\ UNCHANGED <<usable, checkedIn, deferrals, currentPilot, paused, halted>>

\* The other transitions: the rotation moves to the state "to", its aircraft to
\* "craft", its tickets to "passenger"; aircraft_id and pilot_id must be set and
\* stay, the state of the aircraft is not looked at.
Transition(r, to, craft, passenger) ==
  /\ MayTurn(rotationState[r], to)
  /\ aircraftOf[r] # NONE
  /\ pilotOf[r] # NONE
  /\ rotationState' = [rotationState EXCEPT ![r] = to]
  /\ aircraftState' = [aircraftState EXCEPT ![aircraftOf[r]] = craft]
  /\ ticketState' = [t \in Tickets |-> IF t \in Aboard(r) THEN passenger ELSE ticketState[t]]
  /\ UNCHANGED <<aircraftOf, pilotOf, wasCalled, usable, assignmentVars, checkedIn,
                 deferrals, currentPilot, paused, halted>>
  /\ DeriveGroups(GroupsAboard(r))

MarkOffBlock(r) ==
  /\ "MARK_OFF_BLOCK" \in Commands
  /\ Transition(r, "IN_FLIGHT", "IN_FLIGHT", "IN_FLIGHT")

MarkOnBlock(r) ==
  /\ "MARK_ON_BLOCK" \in Commands
  /\ Transition(r, "LANDED", "LANDED", "LANDED")

CompleteTurnaround(r, nextAircraftState) ==
  /\ "COMPLETE_TURNAROUND" \in Commands
  /\ Transition(r, "COMPLETED", nextAircraftState, "COMPLETED")

CancelRotation(r) ==
  /\ "CANCEL_ROTATION" \in Commands
  /\ Transition(r, "CANCELED", "AVAILABLE", "QUEUED")

-----------------------------------------------------------------------------
TransitionStep ==
  \/ \E G \in SUBSET Groups \ {{}} : \E segment \in Segments(G), primary \in G :
       \E a \in Aircraft, p \in Pilots : CallNext(G, segment, primary, a, p)
  \/ \E r \in Rotations : MarkOffBlock(r)
  \/ \E r \in Rotations : MarkOnBlock(r)
  \/ \E r \in Rotations, s \in IdleStates : CompleteTurnaround(r, s)
  \/ \E r \in Rotations : CancelRotation(r)
=============================================================================
