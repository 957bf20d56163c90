-------------------------- MODULE FleetSafetyProofs --------------------------
(***************************************************************************)
(* AircraftFollowsRotation, SeatedInLiveRotation, CrewConsistent and the   *)
(* promise of FlightDuty, and GroupsFollowRotations and ExceptionIsFinal,  *)
(* for every number of aircraft, pilots, groups, tickets and rotations, as *)
(* long as no rotation is canceled with CANCEL_ROTATION.  A canceled       *)
(* rotation keeps its aircraft and its passengers: a group which leaves it *)
(* frees that aircraft, and one which stays may end with its seats.        *)
(* GroupsTogether, at the end, holds with every command.                   *)
(***************************************************************************)
EXTENDS FlightOpsProofs, FiniteSetTheorems, WellFoundedInduction

USE SeatsAssumption, PopulationAssumption, BoundAssumption, NoneAssumption

Held == \A r \in Rotations : Active(r) => aircraftOf[r] # NONE

\* What the moves below rest on.  Unbound is there because a group that leaves its
\* waiting rotation could otherwise free the aircraft of another one.
RowsInv == TypeOK /\ Unbound /\ Held /\ SeatedInLiveRotation

FleetInv == TypeOK /\ Unbound /\ AircraftFollowsRotation /\ SeatedInLiveRotation

-----------------------------------------------------------------------------
\* What one command may do to rotations, aircraft and pilots.

\* No rotation outside R becomes active or moves while it is.
OthersRest(R) ==
  \A q \in Rotations \ R : IF Active(q) THEN rotationState'[q] = rotationState[q]
                                       ELSE rotationState'[q] \notin ActiveStates

CallsUp(r, a, p) ==
  /\ rotationState[r] = "DRAFT" /\ aircraftState[a] = "AVAILABLE" /\ CrewReady(a, p)
  /\ rotationState'[r] = "CALLED" /\ OthersRest({r})
  /\ aircraftOf' = [aircraftOf EXCEPT ![r] = a]
  /\ pilotOf' = [pilotOf EXCEPT ![r] = p]
  /\ aircraftState' = [aircraftState EXCEPT ![a] = "BOARDING"]
  /\ UNCHANGED <<currentPilot, paused>>

\* From one state to the next, and with which state of the aircraft.
Turns == {<<"CALLED", "IN_FLIGHT", "IN_FLIGHT">>, <<"IN_FLIGHT", "LANDED", "LANDED">>}
         \cup {<<"LANDED", "COMPLETED", s>> : s \in IdleStates}

TurnsTo(r, to, craft) ==
  /\ <<rotationState[r], to, craft>> \in Turns
  /\ rotationState' = [rotationState EXCEPT ![r] = to]
  /\ aircraftState' = [aircraftState EXCEPT ![aircraftOf[r]] = craft]
  /\ UNCHANGED <<aircraftOf, pilotOf, currentPilot, paused>>

\* Revoked or aborted.
GoesBack(r, craft) ==
  /\ <<rotationState[r], craft>> \in
       {<<"CALLED", "AVAILABLE">>, <<"CALLED", "INACTIVE">>, <<"IN_FLIGHT", "INACTIVE">>}
  /\ rotationState' = [rotationState EXCEPT ![r] = "DRAFT"]
  /\ aircraftOf' = [aircraftOf EXCEPT ![r] = NONE]
  /\ pilotOf' = [pilotOf EXCEPT ![r] = NONE]
  /\ aircraftState' = [aircraftState EXCEPT ![aircraftOf[r]] = craft]
  /\ UNCHANGED <<currentPilot, paused>>

\* The rotations of C end before off-block, which makes their aircraft
\* AVAILABLE; with C = {} none does.
StandsDown(C) ==
  /\ \A r \in C : rotationState[r] \in {"DRAFT", "CALLED"} /\ rotationState'[r] = "CANCELED"
  /\ OthersRest(C)
  /\ aircraftState' = FreeAircraftOf(C)
  /\ UNCHANGED <<aircraftOf, pilotOf, currentPilot, paused>>

Services(a, s) ==
  /\ aircraftState[a] \in IdleStates
  /\ aircraftState' = [aircraftState EXCEPT ![a] = s]
  /\ UNCHANGED <<rotationState, aircraftOf, pilotOf, currentPilot, paused>>

Crews(a, p, r) ==
  /\ AssignmentAllowed(a, p, r)
  /\ currentPilot' = [b \in Aircraft |-> IF b = a THEN p
                                         ELSE IF currentPilot[b] = p THEN NONE
                                         ELSE currentPilot[b]]
  /\ pilotOf' = [q \in Rotations |-> IF q = r THEN p ELSE pilotOf[q]]
  /\ UNCHANGED <<rotationState, aircraftOf, aircraftState, paused>>

Pauses ==
  /\ \A p \in paused' : p \in paused \/ ~PilotBusy(p)
  /\ UNCHANGED <<rotationState, aircraftOf, pilotOf, aircraftState, currentPilot>>

RotationMove ==
  \/ \E r \in Rotations, a \in Aircraft, p \in Pilots : CallsUp(r, a, p)
  \/ \E r \in Rotations, to \in DepartedStates, craft \in AircraftStates : TurnsTo(r, to, craft)
  \/ \E r \in Rotations, craft \in IdleStates : GoesBack(r, craft)
  \/ \E C \in SUBSET Rotations : StandsDown(C)
  \/ \E a \in Aircraft, s \in IdleStates : Services(a, s)
  \/ \E a \in Aircraft, p \in Pilots : \E r \in ActiveRotationOf(a) : Crews(a, p, r)
  \/ Pauses

-----------------------------------------------------------------------------
\* The moves keep each aircraft with its rotation.

LEMMA CallFollows ==
  ASSUME FleetInv, NEW r \in Rotations, NEW a \in Aircraft, NEW p \in Pilots, CallsUp(r, a, p)
  PROVE  AircraftFollowsRotation'
<1> USE DEF FleetInv
<1>1. \A q \in Rotations : Active(q) => aircraftOf[q] # a
  BY DEF CallsUp, AircraftFollowsRotation, CraftStateFor, Active, ActiveStates
<1>2. /\ \A q \in Rotations : rotationState'[q] \in ActiveStates <=> q = r \/ Active(q)
      /\ \A q \in Rotations \ {r} : Active(q) => rotationState'[q] = rotationState[q]
      /\ ~Active(r) /\ rotationState'[r] = "CALLED"
  BY DEF CallsUp, OthersRest, Active, ActiveStates
<1>3. aircraftOf'[r] = a /\ \A q \in Rotations \ {r} : aircraftOf'[q] = aircraftOf[q]
  BY DEF CallsUp, TypeOK
<1>4. aircraftState'[a] = "BOARDING" /\ \A b \in Aircraft \ {a} : aircraftState'[b] = aircraftState[b]
  BY DEF CallsUp, TypeOK
<1>5. ASSUME NEW q \in Rotations, rotationState'[q] \in ActiveStates
      PROVE  /\ aircraftOf'[q] # NONE
             /\ aircraftState'[aircraftOf'[q]] = CraftStateFor(rotationState'[q])
  <2>1. CASE q = r
    BY <1>2, <1>3, <1>4, <2>1 DEF CraftStateFor
  <2>2. CASE q # r
    <3>1. Active(q) /\ aircraftOf[q] \in Aircraft \ {a}
      BY <1>1, <1>2, <1>5, <2>2 DEF AircraftFollowsRotation, TypeOK
    <3> QED  BY <1>2, <1>3, <1>4, <2>2, <3>1 DEF AircraftFollowsRotation
  <2> QED  BY <2>1, <2>2
<1>6. ASSUME NEW q \in Rotations, NEW o \in Rotations, aircraftOf'[q] = aircraftOf'[o],
             rotationState'[q] \in ActiveStates, rotationState'[o] \in ActiveStates
      PROVE  q = o
  BY <1>1, <1>2, <1>3, <1>6 DEF AircraftFollowsRotation
<1>7. ASSUME NEW b \in Aircraft, aircraftState'[b] \notin IdleStates
      PROVE  \E q \in Rotations : rotationState'[q] \in ActiveStates /\ aircraftOf'[q] = b
  <2>1. CASE b = a
    BY <1>2, <1>3, <2>1
  <2>2. CASE b # a
    <3>1. PICK q \in Rotations : Active(q) /\ aircraftOf[q] = b
      BY <1>4, <1>7, <2>2 DEF AircraftFollowsRotation
    <3> QED  BY <1>2, <1>3, <3>1
  <2> QED  BY <2>1, <2>2
<1> QED  BY <1>5, <1>6, <1>7 DEF AircraftFollowsRotation, Active

LEMMA TurnFollows ==
  ASSUME FleetInv, NEW r \in Rotations, NEW to, NEW craft, TurnsTo(r, to, craft)
  PROVE  AircraftFollowsRotation'
<1> USE DEF FleetInv
<1>1. /\ Active(r)
      /\ IF to = "COMPLETED" THEN craft \in IdleStates ELSE to \in {"IN_FLIGHT", "LANDED"} /\ craft = to
  BY DEF TurnsTo, Turns, Active, ActiveStates
<1>2. aircraftOf[r] \in Aircraft /\ aircraftOf' = aircraftOf
  BY <1>1 DEF TurnsTo, AircraftFollowsRotation, TypeOK
<1>3. /\ aircraftState'[aircraftOf[r]] = craft
      /\ \A b \in Aircraft \ {aircraftOf[r]} : aircraftState'[b] = aircraftState[b]
      /\ rotationState'[r] = to
      /\ \A q \in Rotations \ {r} : rotationState'[q] = rotationState[q]
  BY <1>2 DEF TurnsTo, TypeOK
<1>4. \A q \in Rotations : rotationState'[q] \in ActiveStates
                             <=> Active(q) /\ ~(q = r /\ to = "COMPLETED")
  BY <1>1, <1>3 DEF Active, ActiveStates
<1>5. \A q \in Rotations \ {r} : Active(q) => aircraftOf[q] # aircraftOf[r] /\ aircraftOf[q] \in Aircraft
  BY <1>1 DEF AircraftFollowsRotation, TypeOK
<1>6. ASSUME NEW q \in Rotations, rotationState'[q] \in ActiveStates
      PROVE  aircraftState'[aircraftOf[q]] = CraftStateFor(rotationState'[q])
  <2>1. CASE q = r
    BY <1>1, <1>3, <1>4, <1>6, <2>1 DEF CraftStateFor
  <2>2. CASE q # r
    BY <1>3, <1>4, <1>5, <1>6, <2>2 DEF AircraftFollowsRotation
  <2> QED  BY <2>1, <2>2
<1>7. ASSUME NEW a \in Aircraft, aircraftState'[a] \notin IdleStates
      PROVE  \E q \in Rotations : rotationState'[q] \in ActiveStates /\ aircraftOf[q] = a
  <2>1. CASE a = aircraftOf[r]
    BY <1>1, <1>3, <1>4, <1>7, <2>1
  <2>2. CASE a # aircraftOf[r]
    <3>1. PICK q \in Rotations : Active(q) /\ aircraftOf[q] = a
      BY <1>3, <1>7, <2>2 DEF AircraftFollowsRotation
    <3> QED  BY <1>4, <2>2, <3>1
  <2> QED  BY <2>1, <2>2
<1> QED  BY <1>2, <1>4, <1>6, <1>7 DEF AircraftFollowsRotation, Active

LEMMA BackFollows ==
  ASSUME FleetInv, NEW r \in Rotations, NEW craft \in IdleStates, GoesBack(r, craft)
  PROVE  AircraftFollowsRotation'
<1> USE DEF FleetInv
<1>1. Active(r) /\ aircraftOf[r] \in Aircraft
  BY DEF GoesBack, AircraftFollowsRotation, TypeOK, Active, ActiveStates
<1>2. /\ aircraftState'[aircraftOf[r]] = craft
      /\ \A b \in Aircraft \ {aircraftOf[r]} : aircraftState'[b] = aircraftState[b]
  BY <1>1 DEF GoesBack, TypeOK
<1>3. \A q \in Rotations : rotationState'[q] \in ActiveStates <=> Active(q) /\ q # r
  BY DEF GoesBack, Active, ActiveStates, TypeOK
<1>4. \A q \in Rotations \ {r} : /\ Active(q) => aircraftOf[q] # aircraftOf[r]
                                 /\ aircraftOf'[q] = aircraftOf[q]
                                 /\ rotationState'[q] = rotationState[q]
  BY <1>1 DEF GoesBack, AircraftFollowsRotation, TypeOK
<1>5. ASSUME NEW q \in Rotations, rotationState'[q] \in ActiveStates
      PROVE  /\ aircraftOf'[q] # NONE
             /\ aircraftState'[aircraftOf'[q]] = CraftStateFor(rotationState'[q])
  <2>1. q # r /\ Active(q) /\ aircraftOf[q] \in Aircraft
    BY <1>3, <1>5 DEF AircraftFollowsRotation, TypeOK
  <2> QED  BY <1>2, <1>4, <2>1 DEF AircraftFollowsRotation
<1>6. ASSUME NEW a \in Aircraft, aircraftState'[a] \notin IdleStates
      PROVE  \E q \in Rotations : rotationState'[q] \in ActiveStates /\ aircraftOf'[q] = a
  <2>1. a # aircraftOf[r] /\ aircraftState[a] \notin IdleStates
    BY <1>2, <1>6
  <2>2. PICK q \in Rotations : Active(q) /\ aircraftOf[q] = a
    BY <2>1 DEF AircraftFollowsRotation
  <2> QED  BY <1>3, <1>4, <2>1, <2>2
<1> QED  BY <1>3, <1>4, <1>5, <1>6 DEF AircraftFollowsRotation, Active

LEMMA StandDownFollows ==
  ASSUME FleetInv, NEW C \in SUBSET Rotations, StandsDown(C)
  PROVE  AircraftFollowsRotation'
<1> USE DEF FleetInv
<1>1. ASSUME NEW r \in Rotations, rotationState'[r] \in ActiveStates
      PROVE  Active(r) /\ r \notin C /\ rotationState'[r] = rotationState[r]
  BY <1>1 DEF StandsDown, OthersRest, ActiveStates
<1>2. ASSUME NEW r \in Rotations \ C, Active(r), NEW c \in C
      PROVE  aircraftOf[c] # aircraftOf[r]
  BY <1>2 DEF StandsDown, Unbound, AircraftFollowsRotation, Active, ActiveStates
<1>3. ASSUME NEW r \in Rotations \ C, Active(r)
      PROVE  aircraftState'[aircraftOf[r]] = aircraftState[aircraftOf[r]]
  BY <1>2, <1>3 DEF StandsDown, FreeAircraftOf, AircraftFollowsRotation, TypeOK
<1>4. ASSUME NEW a \in Aircraft, aircraftState'[a] \notin IdleStates
      PROVE  \E r \in Rotations : rotationState'[r] \in ActiveStates /\ aircraftOf'[r] = a
  <2>1. aircraftState[a] \notin IdleStates /\ \A c \in C : aircraftOf[c] # a
    BY <1>4 DEF StandsDown, FreeAircraftOf, IdleStates
  <2>2. PICK r \in Rotations : Active(r) /\ aircraftOf[r] = a
    BY <2>1 DEF AircraftFollowsRotation
  <2> QED  BY <2>1, <2>2 DEF StandsDown, OthersRest, Active
<1>5. ASSUME NEW r \in Rotations, rotationState'[r] \in ActiveStates
      PROVE  /\ aircraftOf'[r] # NONE
             /\ aircraftState'[aircraftOf'[r]] = CraftStateFor(rotationState'[r])
             /\ \A q \in Rotations : rotationState'[q] \in ActiveStates /\ aircraftOf'[q] = aircraftOf'[r]
                  => q = r
  BY <1>1, <1>3, <1>5 DEF StandsDown, AircraftFollowsRotation
<1> QED  BY <1>4, <1>5 DEF AircraftFollowsRotation, Active

LEMMA MoveFollows ==
  ASSUME FleetInv, RotationMove
  PROVE  AircraftFollowsRotation'
<1>1. ASSUME NEW a \in Aircraft, NEW s \in IdleStates, Services(a, s) PROVE AircraftFollowsRotation'
  <2>1. \A r \in Rotations : Active(r) => aircraftOf[r] # a
    BY <1>1 DEF Services, FleetInv, AircraftFollowsRotation, CraftStateFor, Active, ActiveStates,
       IdleStates
  <2> QED  BY <1>1, <2>1 DEF Services, FleetInv, AircraftFollowsRotation, Active, TypeOK
<1>2. ASSUME UNCHANGED <<rotationState, aircraftOf, aircraftState>> PROVE AircraftFollowsRotation'
  BY <1>2 DEF FleetInv, AircraftFollowsRotation, Active
<1> QED
  BY <1>1, <1>2, CallFollows, TurnFollows, BackFollows, StandDownFollows
  DEF RotationMove, Crews, Pauses

-----------------------------------------------------------------------------
\* Every command is one of the moves.

\* The rotations a group empties by leaving are waiting or called, provided none
\* of its rotations has departed.
LEMMA EmptiedWait ==
  ASSUME RowsInv, NEW g \in Groups,
         \A r \in RotationsOf(g) : rotationState[r] \notin DepartedStates
  PROVE  /\ EmptiedBy(g) \in SUBSET Rotations
         /\ \A r \in EmptiedBy(g) : rotationState[r] \in {"DRAFT", "CALLED"}
         /\ \A r \in EmptiedBy(g) : \A t \in Tickets : seat[t] = r => GroupOf[t] = g
<1>1. \A r \in RotationsOf(g) : r \in Rotations /\ rotationState[r] \in {"DRAFT", "CALLED"}
  BY DEF RowsInv, SeatedInLiveRotation, RotationsOf, TicketsOf, TypeOK, DepartedStates,
     RotationStates
<1>2. \A r \in EmptiedBy(g) : \A t \in Tickets : seat[t] = r => GroupOf[t] = g
  BY DEF EmptiedBy, GroupsAboard, Aboard
<1> QED  BY <1>1, <1>2 DEF EmptiedBy

\* A command that moves no rotation and no aircraft.
LEMMA NothingMoves ==
  ASSUME TypeOK, UNCHANGED <<rotationState, aircraftOf, pilotOf, aircraftState, currentPilot, paused>>
  PROVE  RotationMove
<1>1. aircraftState' = FreeAircraftOf({})
  BY DEF FreeAircraftOf, TypeOK
<1>2. StandsDown({})
  BY <1>1 DEF StandsDown, OthersRest, Active
<1> QED  BY <1>2 DEF RotationMove

LEMMA CallMoves ==
  ASSUME RowsInv, NEW G \in SUBSET Groups, NEW segment \in Segments(G), NEW primary \in G,
         NEW a \in Aircraft, NEW p \in Pilots, CallNext(G, segment, primary, a, p)
  PROVE  RotationMove /\ SeatedInLiveRotation'
<1> USE DEF RowsInv
<1> DEFINE r == segment[primary]
           moved == {t \in Passengers(G, segment) : seat[t] # r}
           deserted == {q \in {segment[g] : g \in G} \ {r} : Aboard(q) \subseteq moved}
<1>1. /\ r \in Rotations /\ rotationState[r] = "DRAFT"
      /\ \A q \in deserted : q \in Rotations /\ q # r /\ rotationState[q] = "DRAFT"
  BY DEF Segments
<1>2. /\ seat' = [t \in Tickets |-> IF t \in moved THEN r ELSE seat[t]]
      /\ rotationState' = [q \in Rotations |-> IF q = r THEN "CALLED"
                                               ELSE IF q \in deserted THEN "CANCELED"
                                               ELSE rotationState[q]]
  BY DEF CallNext
<1>3. CallsUp(r, a, p)
  <2>1. OthersRest({r})
    BY <1>1, <1>2 DEF OthersRest, Active, ActiveStates
  <2> QED  BY <1>1, <1>2, <2>1 DEF CallsUp, CallNext, CallAllowed, AircraftReady
<1>4. SeatedInLiveRotation'
  <2> SUFFICES ASSUME NEW t \in Tickets, seat'[t] # NONE
               PROVE  rotationState'[seat'[t]] \notin {"FREE", "CANCELED"}
    BY DEF SeatedInLiveRotation
  <2>1. CASE t \in moved
    BY <1>1, <1>2, <2>1
  <2>2. CASE t \notin moved
    <3>1. seat'[t] = seat[t] /\ seat[t] \in Rotations /\ seat[t] \notin deserted
      BY <1>2, <2>2 DEF TypeOK, Aboard
    <3> QED  BY <1>2, <3>1 DEF SeatedInLiveRotation
  <2> QED  BY <2>1, <2>2
<1> QED  BY <1>1, <1>3, <1>4 DEF RotationMove

LEMMA TransitionMoves ==
  ASSUME RowsInv, "CANCEL_ROTATION" \notin Commands, TransitionStep
  PROVE  RotationMove /\ SeatedInLiveRotation'
<1> USE DEF RowsInv
<1>1. ASSUME NEW r \in Rotations, NEW to \in DepartedStates, NEW craft \in AircraftStates,
             NEW passenger, Transition(r, to, craft, passenger),
             IF to = "COMPLETED" THEN craft \in IdleStates ELSE craft = to
      PROVE  RotationMove /\ SeatedInLiveRotation'
  <2>1. <<rotationState[r], to, craft>> \in Turns
    BY <1>1 DEF Transition, MayTurn, Turns, DepartedStates
  <2>2. TurnsTo(r, to, craft)
    BY <1>1, <2>1 DEF Transition, TurnsTo
  <2>3. SeatedInLiveRotation'
    BY <1>1 DEF Transition, SeatedInLiveRotation, TypeOK, DepartedStates, assignmentVars
  <2> QED  BY <2>2, <2>3 DEF RotationMove
<1>2. IdleStates \subseteq AircraftStates /\ {"IN_FLIGHT", "LANDED"} \subseteq AircraftStates
  BY DEF AircraftStates
<1>3. ASSUME NEW r \in Rotations, MarkOffBlock(r) PROVE RotationMove /\ SeatedInLiveRotation'
  BY <1>1, <1>2, <1>3 DEF MarkOffBlock, DepartedStates
<1>4. ASSUME NEW r \in Rotations, MarkOnBlock(r) PROVE RotationMove /\ SeatedInLiveRotation'
  BY <1>1, <1>2, <1>4 DEF MarkOnBlock, DepartedStates
<1>5. ASSUME NEW r \in Rotations, NEW s \in IdleStates, CompleteTurnaround(r, s)
      PROVE  RotationMove /\ SeatedInLiveRotation'
  BY <1>1, <1>2, <1>5 DEF CompleteTurnaround, DepartedStates
<1> QED
  BY <1>3, <1>4, <1>5, CallMoves DEF TransitionStep, CancelRotation

LEMMA RecoveryMoves ==
  ASSUME RowsInv, RecoveryStep
  PROVE  RotationMove /\ SeatedInLiveRotation'
<1> USE DEF RowsInv
<1>1. ASSUME NEW r \in Rotations, NEW craft \in IdleStates, ReturnToQueue(r, craft),
             <<rotationState[r], craft>> \in
               {<<"CALLED", "AVAILABLE">>, <<"CALLED", "INACTIVE">>, <<"IN_FLIGHT", "INACTIVE">>}
      PROVE  RotationMove /\ SeatedInLiveRotation'
  <2>1. aircraftOf[r] \in Aircraft
    BY <1>1 DEF Held, TypeOK, Active, ActiveStates
  <2>2. aircraftState' = [aircraftState EXCEPT ![aircraftOf[r]] = craft]
    BY <1>1, <2>1 DEF ReturnToQueue, TypeOK
  <2>3. GoesBack(r, craft)
    BY <1>1, <2>2 DEF ReturnToQueue, GoesBack
  <2>4. SeatedInLiveRotation'
    BY <1>1 DEF ReturnToQueue, SeatedInLiveRotation, TypeOK, assignmentVars
  <2> QED  BY <2>3, <2>4 DEF RotationMove
<1> QED
  BY <1>1 DEF RecoveryStep, RevokeCall, AbortRotation, TechnicalAbort, IdleStates

\* A group is seated in rows that were free, and the rotations it empties end.
LEMMA ReseatMoves ==
  ASSUME RowsInv, NEW g \in Groups, NEW capacity, NEW slots \in Slottings(g, capacity),
         NEW C \in SUBSET Rotations, SeatInNewRotations(g, slots, C),
         \A r \in C : /\ rotationState[r] \in {"DRAFT", "CALLED"}
                      /\ \A t \in Tickets : seat[t] = r => GroupOf[t] = g,
         aircraftState' = FreeAircraftOf(C),
         UNCHANGED <<aircraftOf, pilotOf, currentPilot, paused>>
  PROVE  RotationMove /\ SeatedInLiveRotation'
<1> USE DEF RowsInv
<1> DEFINE new == {slots[t] : t \in TicketsOf(g)}
<1>1. /\ slots \in [TicketsOf(g) -> Rotations]
      /\ \A r \in new : r \in Rotations /\ rotationState[r] = "FREE" /\ r \notin C
  BY SlottingsType
<1>2. /\ rotationState' = [r \in Rotations |-> IF r \in new THEN "DRAFT"
                                               ELSE IF r \in C THEN "CANCELED"
                                               ELSE rotationState[r]]
      /\ seat' = [t \in Tickets |-> IF GroupOf[t] = g THEN slots[t] ELSE seat[t]]
  BY DEF SeatInNewRotations
<1>3. StandsDown(C)
  <2>1. OthersRest(C)
    BY <1>1, <1>2 DEF OthersRest, Active, ActiveStates
  <2> QED  BY <1>1, <1>2, <2>1 DEF StandsDown
<1>4. SeatedInLiveRotation'
  <2> SUFFICES ASSUME NEW t \in Tickets, seat'[t] # NONE
               PROVE  rotationState'[seat'[t]] \notin {"FREE", "CANCELED"}
    BY DEF SeatedInLiveRotation
  <2>1. CASE GroupOf[t] = g
    BY <1>1, <1>2, <2>1 DEF TicketsOf
  <2>2. CASE GroupOf[t] # g
    <3>1. seat'[t] = seat[t] /\ seat[t] \in Rotations \ C
      BY <1>2, <2>2 DEF TypeOK
    <3> QED  BY <1>2, <3>1 DEF SeatedInLiveRotation
  <2> QED  BY <2>1, <2>2
<1> QED  BY <1>3, <1>4 DEF RotationMove

\* A group that keeps no seat.
LEMMA EndGroupMoves ==
  ASSUME RowsInv, NEW g \in Groups, NEW status, MutationAllowed(g), EndGroup(g, status),
         UNCHANGED <<aircraftOf, pilotOf, currentPilot, paused>>
  PROVE  RotationMove /\ SeatedInLiveRotation'
<1> USE DEF RowsInv
<1>1. /\ EmptiedBy(g) \in SUBSET Rotations
      /\ \A r \in EmptiedBy(g) : rotationState[r] \in {"DRAFT", "CALLED"}
      /\ \A r \in EmptiedBy(g) : \A t \in Tickets : seat[t] = r => GroupOf[t] = g
  BY EmptiedWait DEF MutationAllowed
<1>2. /\ rotationState' = [r \in Rotations |-> IF r \in EmptiedBy(g) THEN "CANCELED"
                                               ELSE rotationState[r]]
      /\ seat' = [t \in Tickets |-> IF GroupOf[t] = g THEN NONE ELSE seat[t]]
      /\ aircraftState' = FreeAircraftOf(EmptiedBy(g))
  BY DEF EndGroup, LeaveRotations
<1>3. StandsDown(EmptiedBy(g))
  <2>1. OthersRest(EmptiedBy(g))
    BY <1>2 DEF OthersRest, Active
  <2> QED  BY <1>1, <1>2, <2>1 DEF StandsDown
<1>4. SeatedInLiveRotation'
  BY <1>1, <1>2 DEF SeatedInLiveRotation, TypeOK
<1> QED  BY <1>1, <1>3, <1>4 DEF RotationMove

LEMMA TicketDeskMoves ==
  ASSUME RowsInv, TicketDeskStep
  PROVE  RotationMove /\ SeatedInLiveRotation'
<1>1. ASSUME NEW g \in Groups, NEW slots \in Slottings(g, EffectiveGroupCapacity),
             SellTicketGroup(g, slots)
      PROVE  RotationMove /\ SeatedInLiveRotation'
  <2>1. aircraftState' = FreeAircraftOf({})
    BY <1>1 DEF SellTicketGroup, fleetVars, FreeAircraftOf, RowsInv, TypeOK
  <2> QED
    BY <1>1, <2>1, ReseatMoves DEF SellTicketGroup, fleetVars
<1>2. ASSUME NEW g \in Groups, CancelTicketGroup(g) PROVE RotationMove /\ SeatedInLiveRotation'
  BY <1>2, EndGroupMoves DEF CancelTicketGroup
<1>3. ASSUME NEW g \in Groups, MarkNoShow(g) PROVE RotationMove /\ SeatedInLiveRotation'
  BY <1>3, EndGroupMoves DEF MarkNoShow
<1>4. ASSUME NEW g \in Groups, DeferTicketGroup(g) PROVE RotationMove /\ SeatedInLiveRotation'
  <2>1. CASE EndGroup(g, "CLARIFICATION")
    BY <1>4, <2>1, EndGroupMoves DEF DeferTicketGroup
  <2>2. ASSUME LeaveRotations(g), NEW slots \in Slottings(g, ReferenceCapacity),
               SeatInNewRotations(g, slots, EmptiedBy(g))
        PROVE  RotationMove /\ SeatedInLiveRotation'
    <3>1. /\ EmptiedBy(g) \in SUBSET Rotations
          /\ \A r \in EmptiedBy(g) : rotationState[r] \in {"DRAFT", "CALLED"}
          /\ \A r \in EmptiedBy(g) : \A t \in Tickets : seat[t] = r => GroupOf[t] = g
      BY <1>4, EmptiedWait DEF DeferTicketGroup, MutationAllowed
    <3> QED
      BY <1>4, <2>2, <3>1, ReseatMoves DEF DeferTicketGroup, LeaveRotations
  <2> QED  BY <1>4, <2>1, <2>2 DEF DeferTicketGroup
<1> QED  BY <1>1, <1>2, <1>3, <1>4 DEF TicketDeskStep

LEMMA AttendanceMoves ==
  ASSUME RowsInv, AttendanceStep
  PROVE  RotationMove /\ SeatedInLiveRotation'
<1> USE DEF RowsInv
<1>1. ASSUME NEW t \in Tickets, MarkTicketNoShow(t) PROVE RotationMove /\ SeatedInLiveRotation'
  <2> DEFINE C == IF RotationEmptiedBy(t) THEN {seat[t]} ELSE {}
  <2>1. /\ C \in SUBSET Rotations
        /\ \A r \in C : rotationState[r] = "CALLED"
        /\ \A u \in Tickets : seat[u] \in C => u = t
    BY <1>1 DEF MarkTicketNoShow, TicketNoShowAllowed, RotationEmptiedBy, Aboard, TypeOK
  <2>2. /\ rotationState' = [r \in Rotations |-> IF r \in C THEN "CANCELED" ELSE rotationState[r]]
        /\ seat' = [seat EXCEPT ![t] = NONE]
        /\ aircraftState' = FreeAircraftOf(C)
        /\ UNCHANGED <<aircraftOf, pilotOf, currentPilot, paused>>
    BY <1>1 DEF MarkTicketNoShow
  <2>3. SeatedInLiveRotation'
    BY <2>1, <2>2 DEF SeatedInLiveRotation, TypeOK
  <2> HIDE DEF C
  <2>4. OthersRest(C)
    BY <2>2 DEF OthersRest, Active
  <2>5. StandsDown(C)
    BY <2>1, <2>2, <2>4 DEF StandsDown
  <2> QED  BY <2>1, <2>3, <2>5 DEF RotationMove
<1>2. ASSUME UNCHANGED <<rotationVars, assignmentVars, fleetVars>>
      PROVE  RotationMove /\ SeatedInLiveRotation'
  BY <1>2, NothingMoves DEF rotationVars, assignmentVars, fleetVars, SeatedInLiveRotation
<1> QED
  BY <1>1, <1>2
  DEF AttendanceStep, SetTicketAttendance, SetTicketGroupAttendance, MarkTicketGroupMissing,
      RestoreTicketGroupToQueue

LEMMA CapacityMoves ==
  ASSUME RowsInv, NEW r \in Rotations, NEW capacity, NEW K \in SUBSET GroupsAboard(r),
         NEW row \in OwnRows(GroupsAboard(r) \ K), SetRotationCapacity(r, capacity, K, row)
  PROVE  RotationMove /\ SeatedInLiveRotation'
<1> USE DEF RowsInv
<1> DEFINE evicted == GroupsAboard(r) \ K
           new == {row[g] : g \in evicted}
           leaving == {t \in Aboard(r) : GroupOf[t] \in evicted}
           C == IF K = {} THEN {r} ELSE {}
<1>1. \A q \in new : q \in Rotations /\ rotationState[q] = "FREE"
  BY OwnRowsType
<1>2. rotationState[r] = "DRAFT"
  BY DEF SetRotationCapacity, CapacityChangeAllowed
<1>3. /\ rotationState' = [q \in Rotations |-> IF q \in new THEN "DRAFT"
                                               ELSE IF q \in C THEN "CANCELED"
                                               ELSE rotationState[q]]
      /\ seat' = [t \in Tickets |-> IF t \in leaving THEN row[GroupOf[t]] ELSE seat[t]]
      /\ aircraftState' = FreeAircraftOf(C)
      /\ UNCHANGED <<aircraftOf, pilotOf, currentPilot, paused>>
  BY DEF SetRotationCapacity
<1>4. /\ C \in SUBSET Rotations
      /\ \A q \in C : q = r /\ \A t \in Tickets : seat[t] = q => t \in leaving
  BY DEF Aboard, GroupsAboard
<1>5. StandsDown(C)
  <2>1. \A q \in C : rotationState[q] \in {"DRAFT", "CALLED"} /\ rotationState'[q] = "CANCELED"
    BY <1>1, <1>2, <1>3, <1>4
  <2>2. OthersRest(C)
    BY <1>1, <1>3 DEF OthersRest, Active, ActiveStates
  <2> HIDE DEF C
  <2> QED  BY <1>3, <2>1, <2>2 DEF StandsDown
<1>6. SeatedInLiveRotation'
  <2> SUFFICES ASSUME NEW t \in Tickets, seat'[t] # NONE
               PROVE  rotationState'[seat'[t]] \notin {"FREE", "CANCELED"}
    BY DEF SeatedInLiveRotation
  <2>1. CASE t \in leaving
    BY <1>1, <1>3, <2>1
  <2>2. CASE t \notin leaving
    <3>1. seat'[t] = seat[t] /\ seat[t] \in Rotations \ C
      BY <1>3, <1>4, <2>2 DEF TypeOK
    <3> QED  BY <1>3, <3>1 DEF SeatedInLiveRotation
  <2> QED  BY <2>1, <2>2
<1> HIDE DEF C
<1> QED  BY <1>4, <1>5, <1>6 DEF RotationMove

LEMMA ManualMoveMoves ==
  ASSUME RowsInv, NEW g \in Groups, NEW target \in Rotations, MoveTicketGroup(g, target)
  PROVE  RotationMove /\ SeatedInLiveRotation'
<1> USE DEF RowsInv
<1> DEFINE C == EmptiedBy(g) \ {target}
<1>1. /\ C \in SUBSET Rotations
      /\ \A r \in C : rotationState[r] \in {"DRAFT", "CALLED"}
      /\ \A r \in C : \A t \in Tickets : seat[t] = r => GroupOf[t] = g
  BY EmptiedWait DEF MoveTicketGroup, MoveAllowed
<1>2. /\ rotationState' = [r \in Rotations |-> IF r \in C THEN "CANCELED" ELSE rotationState[r]]
      /\ seat' = [t \in Tickets |-> IF GroupOf[t] = g THEN target ELSE seat[t]]
      /\ aircraftState' = FreeAircraftOf(C)
      /\ UNCHANGED <<aircraftOf, pilotOf, currentPilot, paused>>
      /\ rotationState[target] \notin {"FREE", "CANCELED"}
  BY DEF MoveTicketGroup, MoveAllowed
<1>3. StandsDown(C)
  <2>1. OthersRest(C)
    BY <1>2 DEF OthersRest, Active
  <2> HIDE DEF C
  <2> QED  BY <1>1, <1>2, <2>1 DEF StandsDown
<1>4. SeatedInLiveRotation'
  BY <1>1, <1>2 DEF SeatedInLiveRotation, TypeOK
<1> HIDE DEF C
<1> QED  BY <1>1, <1>3, <1>4 DEF RotationMove

LEMMA CorrectionMoves ==
  ASSUME RowsInv, CorrectionStep
  PROVE  RotationMove /\ SeatedInLiveRotation'
<1>1. ASSUME NEW g \in Groups, NEW r \in Rotations, CorrectRotationManifest(g, r)
      PROVE  RotationMove /\ SeatedInLiveRotation'
  <2>1. RotationMove
    BY <1>1, NothingMoves DEF CorrectRotationManifest, rotationVars, fleetVars, RowsInv
  <2>2. SeatedInLiveRotation'
    BY <1>1 DEF CorrectRotationManifest, rotationVars, DepartedStates, RowsInv, SeatedInLiveRotation
  <2> QED  BY <2>1, <2>2
<1> QED  BY <1>1, CapacityMoves, ManualMoveMoves DEF CorrectionStep

LEMMA FleetControlMoves ==
  ASSUME RowsInv, FleetStep
  PROVE  RotationMove /\ SeatedInLiveRotation'
<1>1. SeatedInLiveRotation'
  BY DEF RowsInv, SeatedInLiveRotation, FleetStep, SetAircraftOperationalState, SetPilotPause,
     AssignAircraftPilot, SetHalted, rotationVars, assignmentVars
<1>2. ASSUME NEW a \in Aircraft, NEW s \in IdleStates, SetAircraftOperationalState(a, s)
      PROVE  Services(a, s)
  BY <1>2 DEF SetAircraftOperationalState, FleetMayTurn, Services, rotationVars
<1>3. ASSUME NEW p \in Pilots, NEW pause \in BOOLEAN, SetPilotPause(p, pause) PROVE Pauses
  BY <1>3 DEF SetPilotPause, Pauses, rotationVars
<1>4. ASSUME NEW a \in Aircraft, NEW p \in Pilots, NEW r, AssignAircraftPilot(a, p, r)
      PROVE  Crews(a, p, r)
  BY <1>4 DEF AssignAircraftPilot, Crews
<1>5. SetHalted => RotationMove
  BY NothingMoves DEF SetHalted, rotationVars, fleetVars, RowsInv
<1> QED  BY <1>1, <1>2, <1>3, <1>4, <1>5 DEF FleetStep, RotationMove

LEMMA NextIsMove ==
  ASSUME "CANCEL_ROTATION" \notin Commands, RowsInv, [Next]_vars
  PROVE  RotationMove /\ TypeOK' /\ Unbound' /\ SeatedInLiveRotation'
<1>1. ASSUME UNCHANGED vars PROVE RotationMove /\ SeatedInLiveRotation'
  BY <1>1, NothingMoves DEF vars, rotationVars, assignmentVars, fleetVars, RowsInv,
     SeatedInLiveRotation
<1>2. RotationMove /\ SeatedInLiveRotation'
  BY <1>1, TransitionMoves, RecoveryMoves, TicketDeskMoves, AttendanceMoves, CorrectionMoves,
     FleetControlMoves DEF Next
<1>3. TypeOK' /\ Unbound'
  BY NextTyped, UnboundStays DEF RowsInv
<1> QED  BY <1>2, <1>3

LEMMA NextMovesRotations ==
  ASSUME "CANCEL_ROTATION" \notin Commands, FleetInv, [Next]_vars
  PROVE  RotationMove /\ FleetInv'
<1>1. RowsInv
  BY DEF FleetInv, RowsInv, Held, AircraftFollowsRotation
<1>2. RotationMove /\ TypeOK' /\ Unbound' /\ SeatedInLiveRotation'
  BY <1>1, NextIsMove
<1> QED  BY <1>2, MoveFollows DEF FleetInv

LEMMA InitFleet == Init => FleetInv
<1>1. Init => TypeOK
  BY InitTyped
<1> QED
  BY <1>1
  DEF FleetInv, Init, Unbound, AircraftFollowsRotation, SeatedInLiveRotation, Active,
      ActiveStates, IdleStates

LEMMA FleetInvariant ==
  ASSUME "CANCEL_ROTATION" \notin Commands
  PROVE  Spec => []FleetInv
<1>1. FleetInv /\ [Next]_vars => FleetInv'
  BY NextMovesRotations
<1> QED  BY <1>1, InitFleet, PTL DEF Spec

-----------------------------------------------------------------------------
\* For events of every size: between any two commands an aircraft is BOARDING,
\* IN_FLIGHT or LANDED exactly while one rotation in that state holds it.
THEOREM FleetSafe ==
  ASSUME "CANCEL_ROTATION" \notin Commands
  PROVE  Spec => []AircraftFollowsRotation
<1>1. FleetInv => AircraftFollowsRotation
  BY DEF FleetInv
<1> QED  BY <1>1, FleetInvariant, PTL

\* For events of every size: no ticket keeps its seat in a rotation that does not
\* exist or was canceled, whoever leaves a rotation, moves or shares one.
THEOREM SeatsAreLive ==
  ASSUME "CANCEL_ROTATION" \notin Commands
  PROVE  Spec => []SeatedInLiveRotation
<1>1. FleetInv => SeatedInLiveRotation
  BY DEF FleetInv
<1> QED  BY <1>1, FleetInvariant, PTL

-----------------------------------------------------------------------------
\* Crews.

LEMMA MoveKeepsCrews ==
  ASSUME FleetInv, CrewConsistent, RotationMove
  PROVE  CrewConsistent'
<1>0. /\ currentPilot \in [Aircraft -> Pilots \cup {NONE}]
      /\ pilotOf \in [Rotations -> Pilots \cup {NONE}]
      /\ aircraftOf \in [Rotations -> Aircraft \cup {NONE}]
      /\ \A r \in Rotations : Active(r) => aircraftOf[r] \in Aircraft
  BY DEF FleetInv, TypeOK, AircraftFollowsRotation
<1>1. ASSUME UNCHANGED <<currentPilot, paused>>,
             \A r \in Rotations : rotationState'[r] \in ActiveStates
               => Active(r) /\ aircraftOf'[r] = aircraftOf[r] /\ pilotOf'[r] = pilotOf[r]
      PROVE  CrewConsistent'
  BY <1>1 DEF CrewConsistent, Active
<1>2. ASSUME NEW r \in Rotations, NEW a \in Aircraft, NEW p \in Pilots, CallsUp(r, a, p)
      PROVE  CrewConsistent'
  <2>1. /\ UNCHANGED <<currentPilot, paused>>
        /\ currentPilot[a] = p /\ p \notin paused /\ p # NONE
        /\ aircraftOf'[r] = a /\ pilotOf'[r] = p
    BY <1>0, <1>2 DEF CallsUp, CrewReady, PilotFree
  <2>2. ASSUME NEW q \in Rotations \ {r}, rotationState'[q] \in ActiveStates
        PROVE  Active(q) /\ aircraftOf'[q] = aircraftOf[q] /\ pilotOf'[q] = pilotOf[q]
    BY <1>0, <1>2, <2>2 DEF CallsUp, OthersRest
  <2> QED  BY <2>1, <2>2 DEF CrewConsistent, Active
<1>3. ASSUME NEW r \in Rotations, NEW to, NEW craft, TurnsTo(r, to, craft) PROVE CrewConsistent'
  <2>1. \A q \in Rotations : rotationState'[q] \in ActiveStates => Active(q)
    BY <1>3 DEF TurnsTo, Turns, Active, ActiveStates, FleetInv, TypeOK
  <2> QED  BY <1>1, <1>3, <2>1 DEF TurnsTo
<1>4. ASSUME NEW r \in Rotations, NEW craft, GoesBack(r, craft) PROVE CrewConsistent'
  <2>1. \A q \in Rotations : rotationState'[q] \in ActiveStates => Active(q) /\ q # r
    BY <1>4 DEF GoesBack, Active, ActiveStates, FleetInv, TypeOK
  <2> QED  BY <1>0, <1>1, <1>4, <2>1 DEF GoesBack
<1>5. ASSUME NEW C \in SUBSET Rotations, StandsDown(C) PROVE CrewConsistent'
  <2>1. \A q \in Rotations : rotationState'[q] \in ActiveStates => Active(q)
    BY <1>5 DEF StandsDown, OthersRest, ActiveStates
  <2> QED  BY <1>1, <1>5, <2>1 DEF StandsDown
<1>6. ASSUME NEW a \in Aircraft, NEW s, Services(a, s) PROVE CrewConsistent'
  BY <1>1, <1>6 DEF Services, Active
<1>7. ASSUME NEW a \in Aircraft, NEW p \in Pilots, NEW r \in ActiveRotationOf(a), Crews(a, p, r)
      PROVE  CrewConsistent'
  <2>1. /\ \A b \in Aircraft : currentPilot'[b] = IF b = a THEN p
                                                  ELSE IF currentPilot[b] = p THEN NONE
                                                  ELSE currentPilot[b]
        /\ \A q \in Rotations : pilotOf'[q] = IF q = r THEN p ELSE pilotOf[q]
        /\ UNCHANGED <<rotationState, aircraftOf, paused>>
        /\ p \notin paused /\ p # NONE
    BY <1>7 DEF Crews, AssignmentAllowed
  <2>2. ASSUME NEW q \in Rotations, Active(q)
        PROVE  (q = r <=> aircraftOf[q] = a) /\ (pilotOf[q] = p => q = r)
    BY <1>7, <2>2 DEF ActiveRotationOf, Crews, AssignmentAllowed, FleetInv, AircraftFollowsRotation,
       Rotations
  <2>3. ASSUME NEW q \in Rotations, Active(q)
        PROVE  /\ pilotOf'[q] # NONE
               /\ currentPilot'[aircraftOf[q]] = pilotOf'[q]
               /\ pilotOf'[q] \notin paused
    <3>1. CASE q = r
      BY <1>0, <2>1, <2>2, <2>3, <3>1
    <3>2. CASE q # r
      <4>1. aircraftOf[q] # a /\ pilotOf'[q] = pilotOf[q] /\ pilotOf[q] # p
        BY <2>1, <2>2, <2>3, <3>2
      <4>2. currentPilot[aircraftOf[q]] = pilotOf[q] /\ pilotOf[q] # NONE /\ pilotOf[q] \notin paused
        BY <2>3 DEF CrewConsistent
      <4> QED  BY <1>0, <2>1, <2>3, <4>1, <4>2
    <3> QED  BY <3>1, <3>2
  <2>4. \A b, c \in Aircraft : currentPilot'[b] = currentPilot'[c] /\ b # c => currentPilot'[b] = NONE
    BY <2>1 DEF CrewConsistent
  <2> QED  BY <2>1, <2>3, <2>4 DEF CrewConsistent, Active
<1>8. ASSUME Pauses PROVE CrewConsistent'
  <2>1. \A r \in Rotations : Active(r) => pilotOf[r] \notin paused'
    BY <1>8 DEF Pauses, PilotBusy, CrewConsistent
  <2> QED  BY <1>8, <2>1 DEF Pauses, CrewConsistent, Active
<1> QED  BY <1>2, <1>3, <1>4, <1>5, <1>6, <1>7, <1>8 DEF RotationMove

\* For events of every size: who flies an active rotation is the pilot its
\* aircraft is assigned to, not paused, and assigned to no second aircraft,
\* however ASSIGN_AIRCRAFT_PILOT, SET_PILOT_PAUSE and the calls interleave.
THEOREM CrewStaysTogether ==
  ASSUME "CANCEL_ROTATION" \notin Commands
  PROVE  Spec => []CrewConsistent
<1>1. Init => FleetInv /\ CrewConsistent
  BY InitFleet DEF Init, CrewConsistent, Active, ActiveStates
<1>2. FleetInv /\ CrewConsistent /\ [Next]_vars => FleetInv' /\ CrewConsistent'
  BY NextMovesRotations, MoveKeepsCrews
<1> QED  BY <1>1, <1>2, PTL DEF Spec

-----------------------------------------------------------------------------
\* Duty.

\* The pilot FlightDuty sees on an aircraft is the one of the rotation that holds it.
LEMMA CrewIs ==
  ASSUME AircraftFollowsRotation
  PROVE  /\ CrewOf = [a \in Aircraft |-> CrewOf[a]]
         /\ \A r \in Rotations : Active(r) /\ aircraftOf[r] \in Aircraft
              => CrewOf[aircraftOf[r]] = pilotOf[r]
         /\ \A a \in Aircraft : (\A r \in Rotations : Active(r) => aircraftOf[r] # a) => CrewOf[a] = NONE
<1>1. \A r \in Rotations : Active(r) => Holders(aircraftOf[r]) = {r}
  BY DEF AircraftFollowsRotation, Holders
<1>2. \A a \in Aircraft : (\A r \in Rotations : Active(r) => aircraftOf[r] # a) => Holders(a) = {}
  BY DEF Holders
<1> QED  BY <1>1, <1>2 DEF CrewOf

LEMMA CrewWillBe ==
  ASSUME AircraftFollowsRotation'
  PROVE  /\ CrewOf' = [a \in Aircraft |-> CrewOf'[a]]
         /\ \A r \in Rotations : rotationState'[r] \in ActiveStates /\ aircraftOf'[r] \in Aircraft
              => CrewOf'[aircraftOf'[r]] = pilotOf'[r]
         /\ \A a \in Aircraft : (\A r \in Rotations : rotationState'[r] \in ActiveStates
                                                          => aircraftOf'[r] # a) => CrewOf'[a] = NONE
<1> DEFINE Hold(a) == {r \in Rotations : rotationState'[r] \in ActiveStates /\ aircraftOf'[r] = a}
<1>1. CrewOf' = [a \in Aircraft |-> IF Hold(a) = {} THEN NONE
                                    ELSE pilotOf'[CHOOSE r \in Hold(a) : TRUE]]
  BY DEF CrewOf, Holders, Active
<1>2. \A r \in Rotations : rotationState'[r] \in ActiveStates => Hold(aircraftOf'[r]) = {r}
  BY DEF AircraftFollowsRotation, Active
<1>3. \A a \in Aircraft : (\A r \in Rotations : rotationState'[r] \in ActiveStates => aircraftOf'[r] # a)
                           => Hold(a) = {}
  OBVIOUS
<1> HIDE DEF Hold
<1> QED  BY <1>1, <1>2, <1>3

\* An aircraft that keeps its rotation, or stays without one, keeps its crew.
LEMMA CrewKept ==
  ASSUME FleetInv, FleetInv', NEW a \in Aircraft,
         \A r \in Rotations : (Active(r) /\ aircraftOf[r] = a)
                                <=> (rotationState'[r] \in ActiveStates /\ aircraftOf'[r] = a),
         \A r \in Rotations : Active(r) /\ aircraftOf[r] = a => pilotOf'[r] = pilotOf[r]
  PROVE  CrewOf'[a] = CrewOf[a]
<1>1. AircraftFollowsRotation /\ AircraftFollowsRotation'
  BY DEF FleetInv
<1>2. CASE \E r \in Rotations : Active(r) /\ aircraftOf[r] = a
  BY <1>1, <1>2, CrewIs, CrewWillBe
<1>3. CASE \A r \in Rotations : Active(r) => aircraftOf[r] # a
  BY <1>1, <1>3, CrewIs, CrewWillBe
<1> QED  BY <1>2, <1>3

LEMMA CallBoards ==
  ASSUME FleetInv, FleetInv', NEW r \in Rotations, NEW a \in Aircraft, NEW p \in Pilots,
         CallsUp(r, a, p)
  PROVE  Duty!Board(a, p)
<1>1. AircraftFollowsRotation /\ AircraftFollowsRotation' /\ aircraftOf \in [Rotations -> Aircraft \cup {NONE}]
      /\ pilotOf \in [Rotations -> Pilots \cup {NONE}] /\ p # NONE
  BY DEF FleetInv, TypeOK
<1>2. \A q \in Rotations : Active(q) => aircraftOf[q] # a /\ pilotOf[q] # p
  BY <1>1 DEF CallsUp, CrewReady, PilotFree, AircraftFollowsRotation, CraftStateFor, Active,
     ActiveStates
<1>3. /\ aircraftOf'[r] = a /\ pilotOf'[r] = p
      /\ rotationState'[r] \in ActiveStates
      /\ \A q \in Rotations \ {r} : aircraftOf'[q] = aircraftOf[q] /\ pilotOf'[q] = pilotOf[q]
      /\ \A q \in Rotations : rotationState'[q] \in ActiveStates <=> q = r \/ Active(q)
      /\ ~Active(r)
  BY <1>1 DEF CallsUp, OthersRest, Active, ActiveStates
<1>4. \A b \in Aircraft : CrewOf[b] # p
  <2> SUFFICES ASSUME NEW b \in Aircraft PROVE CrewOf[b] # p
    OBVIOUS
  <2>1. CASE \E q \in Rotations : Active(q) /\ aircraftOf[q] = b
    BY <1>1, <1>2, <2>1, CrewIs
  <2>2. CASE \A q \in Rotations : Active(q) => aircraftOf[q] # b
    BY <1>1, <2>2, CrewIs
  <2> QED  BY <2>1, <2>2
<1>5. CrewOf'[a] = p
  BY <1>1, <1>3, CrewWillBe
<1>6. \A b \in Aircraft \ {a} : CrewOf'[b] = CrewOf[b]
  BY <1>3, CrewKept
<1>7. CrewOf' = [CrewOf EXCEPT ![a] = p]
  BY <1>1, <1>5, <1>6, CrewIs, CrewWillBe
<1> QED  BY <1>4, <1>7 DEF Duty!Board, Duty!Unassigned, CallsUp

\* Every crew stays when no rotation becomes or ceases to be active.
LEMMA CrewsStay ==
  ASSUME FleetInv, FleetInv', UNCHANGED <<aircraftOf, pilotOf>>,
         \A r \in Rotations : rotationState'[r] \in ActiveStates <=> Active(r)
  PROVE  CrewOf' = CrewOf
<1>1. \A a \in Aircraft : CrewOf'[a] = CrewOf[a]
  BY CrewKept
<1> QED  BY <1>1, CrewIs, CrewWillBe DEF FleetInv

LEMMA TurnProceeds ==
  ASSUME FleetInv, FleetInv', NEW r \in Rotations, NEW to, NEW craft, TurnsTo(r, to, craft)
  PROVE  Duty!Next
<1> DEFINE a == aircraftOf[r]
<1>1. /\ AircraftFollowsRotation /\ AircraftFollowsRotation'
      /\ rotationState \in [Rotations -> RotationStates]
  BY DEF FleetInv, TypeOK
<1>2. /\ Active(r) /\ a \in Aircraft
      /\ aircraftState[a] = CraftStateFor(rotationState[r])
      /\ \A q \in Rotations : Active(q) /\ aircraftOf[q] = a => q = r
  BY DEF TurnsTo, Turns, FleetInv, AircraftFollowsRotation, TypeOK, Active, ActiveStates
<1>3. /\ rotationState'[r] = to
      /\ \A q \in Rotations \ {r} : rotationState'[q] = rotationState[q]
      /\ UNCHANGED <<aircraftOf, pilotOf>>
      /\ aircraftState' = [aircraftState EXCEPT ![a] = craft]
  BY <1>1 DEF TurnsTo
<1> HIDE DEF a
<1>4. CASE to # "COMPLETED"
  <2>1. \/ rotationState[r] = "CALLED" /\ to = "IN_FLIGHT" /\ craft = "IN_FLIGHT"
        \/ rotationState[r] = "IN_FLIGHT" /\ to = "LANDED" /\ craft = "LANDED"
    BY <1>4 DEF TurnsTo, Turns
  <2>2. CrewOf' = CrewOf
    BY <1>2, <1>3, <2>1, CrewsStay DEF Active, ActiveStates
  <2> QED  BY <1>2, <1>3, <2>1, <2>2 DEF Duty!Next, Duty!Proceed, CraftStateFor
<1>5. CASE to = "COMPLETED"
  <2>1. rotationState[r] = "LANDED" /\ craft \in IdleStates
    BY <1>5 DEF TurnsTo, Turns
  <2>2. \A q \in Rotations : rotationState'[q] \in ActiveStates <=> Active(q) /\ q # r
    BY <1>3, <1>5 DEF Active, ActiveStates
  <2>3. CrewOf'[a] = NONE
    BY <1>1, <1>2, <1>3, <2>2, CrewWillBe
  <2>4. \A b \in Aircraft \ {a} : CrewOf'[b] = CrewOf[b]
    <3> SUFFICES ASSUME NEW b \in Aircraft \ {a} PROVE CrewOf'[b] = CrewOf[b]
      OBVIOUS
    <3> QED  BY <1>3, <2>2, CrewKept DEF a
  <2>5. CrewOf' = [CrewOf EXCEPT ![a] = NONE]
    BY <1>1, <2>3, <2>4, CrewIs, CrewWillBe
  <2>6. Duty!Complete(a, craft)
    BY <1>2, <1>3, <2>1, <2>5 DEF Duty!Complete, CraftStateFor
  <2> QED  BY <1>2, <2>1, <2>6 DEF Duty!Next
<1> QED  BY <1>4, <1>5

LEMMA BackStandsDown ==
  ASSUME FleetInv, FleetInv', NEW r \in Rotations, NEW craft \in IdleStates, GoesBack(r, craft)
  PROVE  Duty!Next
<1> DEFINE a == aircraftOf[r]
<1>1. /\ AircraftFollowsRotation /\ AircraftFollowsRotation'
      /\ rotationState \in [Rotations -> RotationStates]
      /\ aircraftOf \in [Rotations -> Aircraft \cup {NONE}]
      /\ pilotOf \in [Rotations -> Pilots \cup {NONE}]
      /\ aircraftState \in [Aircraft -> AircraftStates]
  BY DEF FleetInv, TypeOK
<1>2. /\ Active(r) /\ a \in Aircraft
      /\ aircraftState[a] = CraftStateFor(rotationState[r])
      /\ \A q \in Rotations : Active(q) /\ aircraftOf[q] = a => q = r
  BY <1>1 DEF GoesBack, AircraftFollowsRotation, Active, ActiveStates
<1>3. /\ \A q \in Rotations : rotationState'[q] \in ActiveStates <=> Active(q) /\ q # r
      /\ \A q \in Rotations \ {r} : aircraftOf'[q] = aircraftOf[q] /\ pilotOf'[q] = pilotOf[q]
      /\ aircraftState' = [aircraftState EXCEPT ![a] = craft]
  BY <1>1 DEF GoesBack, Active, ActiveStates
<1> HIDE DEF a
<1>4. CrewOf'[a] = NONE
  BY <1>1, <1>2, <1>3, CrewWillBe
<1>5. ASSUME NEW b \in Aircraft \ {a} PROVE CrewOf'[b] = CrewOf[b]
  BY <1>3, CrewKept DEF a
<1>6. CASE craft = "INACTIVE"
  <2>1. aircraftState[a] \in {"BOARDING", "IN_FLIGHT"}
    BY <1>2 DEF GoesBack, CraftStateFor
  <2>2. CrewOf' = [CrewOf EXCEPT ![a] = NONE]
    BY <1>1, <1>4, <1>5, CrewIs, CrewWillBe
  <2>3. Duty!Ground(a)
    BY <1>3, <1>6, <2>1, <2>2 DEF Duty!Ground
  <2> QED  BY <1>2, <2>3 DEF Duty!Next
<1>7. CASE craft = "AVAILABLE"
  <2>1. aircraftState[a] = "BOARDING"
    BY <1>2, <1>7 DEF GoesBack, CraftStateFor
  <2>2. CrewOf' = [b \in Aircraft |-> IF b \in {a} THEN NONE ELSE CrewOf[b]]
    BY <1>1, <1>4, <1>5, CrewWillBe
  <2>3. aircraftState' = [b \in Aircraft |-> IF b \in {a} THEN "AVAILABLE" ELSE aircraftState[b]]
    BY <1>1, <1>3, <1>7
  <2>4. Duty!StandDown({a})
    BY <2>1, <2>2, <2>3 DEF Duty!StandDown
  <2> QED  BY <1>2, <2>4 DEF Duty!Next
<1> QED  BY <1>6, <1>7 DEF GoesBack

LEMMA StandDownIsOne ==
  ASSUME FleetInv, FleetInv', NEW C \in SUBSET Rotations, StandsDown(C)
  PROVE  Duty!Next
<1> DEFINE freed == {aircraftOf[c] : c \in C}
           A == freed \cap Aircraft
<1>1. /\ AircraftFollowsRotation /\ AircraftFollowsRotation' /\ Unbound
      /\ UNCHANGED <<aircraftOf, pilotOf>>
  BY DEF FleetInv, StandsDown
<1>2. \A q \in Rotations : rotationState'[q] \in ActiveStates <=> Active(q) /\ q \notin C
  BY DEF StandsDown, OthersRest, Active, ActiveStates
<1>3. ASSUME NEW c \in C, aircraftOf[c] \in Aircraft PROVE Active(c) /\ rotationState[c] = "CALLED"
  BY <1>1, <1>3 DEF StandsDown, Unbound, Active, ActiveStates
<1>4. ASSUME NEW a \in A
      PROVE  /\ aircraftState[a] = "BOARDING"
             /\ \A q \in Rotations : Active(q) /\ aircraftOf[q] = a => q \in C
  <2>1. PICK c \in C : aircraftOf[c] = a
    OBVIOUS
  <2> QED  BY <1>1, <1>3, <2>1 DEF AircraftFollowsRotation, CraftStateFor
<1>5. ASSUME NEW a \in A PROVE CrewOf'[a] = NONE
  BY <1>1, <1>2, <1>4, CrewWillBe
<1>6. ASSUME NEW a \in Aircraft \ A PROVE CrewOf'[a] = CrewOf[a]
  BY <1>1, <1>2, CrewKept
<1>7. CrewOf' = [a \in Aircraft |-> IF a \in A THEN NONE ELSE CrewOf[a]]
  BY <1>1, <1>5, <1>6, CrewWillBe
<1>8. aircraftState' = [a \in Aircraft |-> IF a \in A THEN "AVAILABLE" ELSE aircraftState[a]]
  BY DEF StandsDown, FreeAircraftOf
<1> HIDE DEF A
<1>9. Duty!StandDown(A)
  BY <1>4, <1>7, <1>8 DEF Duty!StandDown
<1>10. A \in SUBSET Aircraft
  BY DEF A
<1> QED  BY <1>9, <1>10 DEF Duty!Next

LEMMA AssignmentChangesPilot ==
  ASSUME FleetInv, FleetInv', NEW a \in Aircraft, NEW p \in Pilots, NEW r \in ActiveRotationOf(a),
         Crews(a, p, r)
  PROVE  Duty!Next \/ (CrewOf' = CrewOf /\ aircraftState' = aircraftState)
<1>1. /\ AircraftFollowsRotation /\ AircraftFollowsRotation' /\ p # NONE
      /\ UNCHANGED <<rotationState, aircraftOf, aircraftState>>
      /\ pilotOf' = [q \in Rotations |-> IF q = r THEN p ELSE pilotOf[q]]
      /\ r # NONE => rotationState[r] = "CALLED"
      /\ \A q \in Rotations : Active(q) /\ pilotOf[q] = p => q = r
  BY DEF FleetInv, Crews, AssignmentAllowed
<1>2. ASSUME NEW b \in Aircraft, b # a PROVE CrewOf'[b] = CrewOf[b]
  <2>1. \A q \in Rotations : Active(q) /\ aircraftOf[q] = b => q # r
    BY <1>2 DEF ActiveRotationOf, Rotations
  <2> QED  BY <1>1, <2>1, CrewKept DEF Active
<1>3. CASE r = NONE
  <2>1. \A q \in Rotations : Active(q) => aircraftOf[q] # a
    BY <1>3 DEF ActiveRotationOf, Rotations
  <2>2. CrewOf'[a] = CrewOf[a]
    BY <1>1, <2>1, CrewKept DEF Active
  <2> QED  BY <1>1, <1>2, <2>2, CrewIs, CrewWillBe
<1>4. CASE r # NONE
  <2>1. r \in Rotations /\ Active(r) /\ aircraftOf[r] = a
    BY <1>4 DEF ActiveRotationOf
  <2>2. aircraftState[a] = "BOARDING" /\ CrewOf[a] = pilotOf[r]
    BY <1>1, <1>4, <2>1, CrewIs DEF AircraftFollowsRotation, CraftStateFor
  <2>3. CrewOf'[a] = p
    BY <1>1, <2>1, CrewWillBe DEF Active
  <2>4. CASE pilotOf[r] = p
    BY <1>1, <1>2, <2>2, <2>3, <2>4, CrewIs, CrewWillBe
  <2>5. CASE pilotOf[r] # p
    <3>1. ASSUME NEW b \in Aircraft PROVE CrewOf[b] # p
      <4>1. CASE \E q \in Rotations : Active(q) /\ aircraftOf[q] = b
        BY <1>1, <2>5, <4>1, CrewIs
      <4>2. CASE \A q \in Rotations : Active(q) => aircraftOf[q] # b
        BY <1>1, <4>2, CrewIs
      <4> QED  BY <4>1, <4>2
    <3>2. CrewOf' = [CrewOf EXCEPT ![a] = p]
      BY <1>1, <1>2, <2>3, CrewIs, CrewWillBe
    <3>3. Duty!ChangePilot(a, p)
      BY <1>1, <2>2, <3>1, <3>2 DEF Duty!ChangePilot, Duty!Unassigned
    <3> QED  BY <3>3 DEF Duty!Next
  <2> QED  BY <2>4, <2>5
<1> QED  BY <1>3, <1>4

LEMMA MoveIsDuty ==
  ASSUME FleetInv, FleetInv', RotationMove
  PROVE  [Duty!Next]_<<aircraftState, CrewOf>>
<1>1. ASSUME NEW r \in Rotations, NEW a \in Aircraft, NEW p \in Pilots, CallsUp(r, a, p)
      PROVE  Duty!Next
  BY <1>1, CallBoards DEF Duty!Next
<1>2. ASSUME NEW a \in Aircraft, NEW s \in IdleStates, Services(a, s) PROVE Duty!Next
  <2>1. CrewOf' = CrewOf
    BY <1>2, CrewsStay DEF Services, Active
  <2>2. Duty!Service(a, s)
    BY <1>2, <2>1 DEF Services, Duty!Service
  <2> QED  BY <2>2 DEF Duty!Next
<1>3. Pauses => CrewOf' = CrewOf /\ aircraftState' = aircraftState
  BY CrewsStay DEF Pauses, Active
<1> QED
  BY <1>1, <1>2, <1>3, TurnProceeds, BackStandsDown, StandDownIsOne, AssignmentChangesPilot
  DEF RotationMove

\* The flight line implements FlightDuty for events of every size: whatever command runs, an
\* aircraft and its pilot move together, through boarding, flight, stand and turnaround, and
\* nobody is put on a second aircraft.
THEOREM DutyKept ==
  ASSUME "CANCEL_ROTATION" \notin Commands
  PROVE  Spec => ImplementsDuty
<1>1. Init => Duty!Init
  <2> SUFFICES ASSUME Init PROVE Duty!Init
    OBVIOUS
  <2>1. AircraftFollowsRotation /\ \A r \in Rotations : ~Active(r)
    BY InitFleet DEF FleetInv, Init, Active, ActiveStates
  <2>2. CrewOf = [a \in Aircraft |-> NONE]
    BY <2>1, CrewIs
  <2> QED  BY <2>2 DEF Init, Duty!Init, IdleStates
<1>2. FleetInv /\ FleetInv' /\ [Next]_vars => [Duty!Next]_<<aircraftState, CrewOf>>
  BY NextMovesRotations, MoveIsDuty
<1>3. Spec => []FleetInv
  BY FleetInvariant
<1> QED  BY <1>1, <1>2, <1>3, PTL DEF Spec, ImplementsDuty, Duty!Spec, Duty!vars

-----------------------------------------------------------------------------
\* What one command may do to one booking group.

Seated(g) == \E t \in Tickets : GroupOf[t] = g /\ seat[t] # NONE

\* At most a ticket that has not departed loses its seat.
Unmoved(g) ==
  /\ groupState'[g] = groupState[g]
  /\ \A t \in Tickets : GroupOf[t] = g =>
       /\ seat'[t] # seat[t] => /\ seat'[t] = NONE
                              /\ seat[t] # NONE /\ rotationState[seat[t]] \notin DepartedStates
       /\ seat[t] # NONE /\ rotationState[seat[t]] \in DepartedStates
            => rotationState'[seat[t]] = rotationState[seat[t]]

\* The group has a segment in the rotation that moves.
Derived(g) ==
  /\ Seated(g)
  /\ groupState'[g] = DerivedGroupState(g)
  /\ \E t \in Tickets : /\ GroupOf[t] = g /\ seat'[t] # NONE
                        /\ rotationState'[seat'[t]] \in {"CALLED"} \cup DepartedStates

Requeued(g) ==
  /\ Seated(g) \/ groupState[g] \in {"UNSOLD", "MISSING"}
  /\ groupState'[g] \in {"QUEUED", "PRESENT", "CALLED"}

Ended(g) ==
  /\ Seated(g)
  /\ groupState'[g] \in ExceptionStates
  /\ \A t \in Tickets : GroupOf[t] = g => seat'[t] = NONE

Transferred(g) ==
  \E r \in Rotations :
    /\ Seated(g)
    /\ rotationState' = rotationState /\ rotationState[r] \in DepartedStates
    /\ groupState'[g] = rotationState[r]
    /\ \A t \in Tickets : GroupOf[t] = g => seat'[t] = r

Missed(g) == "MARK_TICKET_GROUP_MISSING" \in Commands /\ groupState'[g] = "MISSING"

GroupStep(g) ==
  Unmoved(g) \/ Derived(g) \/ Requeued(g) \/ Ended(g) \/ Transferred(g) \/ Missed(g)

\* No ticket changes its seat, no rotation its state.
LEMMA GroupsRest ==
  ASSUME NEW g, groupState'[g] = groupState[g], UNCHANGED <<rotationState, seat>>
  PROVE  GroupStep(g)
BY DEF GroupStep, Unmoved

LEMMA SeatedIs == \A g \in Groups : Seated(g) <=> RotationsOf(g) # {}
BY DEF Seated, RotationsOf, TicketsOf

LEMMA TransitionMovesGroups ==
  ASSUME TypeOK, "CANCEL_ROTATION" \notin Commands, TransitionStep, NEW h \in Groups
  PROVE  GroupStep(h)
<1>1. ASSUME NEW G \in SUBSET Groups \ {{}}, NEW segment \in Segments(G), NEW primary \in G,
             NEW a \in Aircraft, NEW p \in Pilots, CallNext(G, segment, primary, a, p)
      PROVE  GroupStep(h)
  <2> DEFINE r == segment[primary]
             moved == {t \in Passengers(G, segment) : seat[t] # r}
             crewed == Aboard(r) \cup moved
             deserted == {q \in {segment[g] : g \in G} \ {r} : Aboard(q) \subseteq moved}
  <2>1. /\ r \in Rotations /\ r # NONE /\ rotationState[r] = "DRAFT"
        /\ \A q \in deserted : rotationState[q] = "DRAFT"
        /\ \A t \in crewed : t \in Tickets /\ seat[t] # NONE
        /\ \A t \in Tickets : seat[t] = r => t \in crewed
    BY DEF Segments, Passengers, Aboard, TicketsOf, Rotations
  <2>2. /\ seat' = [t \in Tickets |-> IF t \in moved THEN r ELSE seat[t]]
        /\ rotationState' = [q \in Rotations |-> IF q = r THEN "CALLED"
                                                 ELSE IF q \in deserted THEN "CANCELED"
                                                 ELSE rotationState[q]]
        /\ groupState' = [g \in Groups |-> IF g \in {GroupOf[t] : t \in crewed}
                                            THEN DerivedGroupState(g) ELSE groupState[g]]
    BY <1>1 DEF CallNext, DeriveGroups
  <2>3. \A t \in crewed : seat'[t] = r
    BY <2>1, <2>2 DEF Aboard
  <2>4. \A t \in Tickets : seat[t] \in Rotations \cup {NONE} /\ (t \in moved => t \in crewed)
    BY DEF TypeOK
  <2> HIDE DEF moved, crewed, deserted, r
  <2>5. CASE \E t \in crewed : GroupOf[t] = h
    <3>1. PICK t \in crewed : GroupOf[t] = h
      BY <2>5
    <3> QED  BY <2>1, <2>2, <2>3, <3>1 DEF GroupStep, Derived, Seated
  <2>6. CASE \A t \in crewed : GroupOf[t] # h
    <3>1. \A t \in Tickets : GroupOf[t] = h => seat'[t] = seat[t] /\ seat[t] # r
      BY <2>1, <2>2, <2>4, <2>6
    <3>2. \A q \in Rotations \ {r} : rotationState[q] \in DepartedStates
                                      => rotationState'[q] = rotationState[q]
      BY <2>1, <2>2 DEF DepartedStates
    <3>3. groupState'[h] = groupState[h]
      BY <2>2, <2>6
    <3> QED  BY <2>4, <3>1, <3>2, <3>3 DEF GroupStep, Unmoved
  <2> QED  BY <2>5, <2>6
<1>2. ASSUME NEW r \in Rotations, NEW to \in DepartedStates, NEW craft, NEW passenger,
             Transition(r, to, craft, passenger)
      PROVE  GroupStep(h)
  <2>1. /\ seat' = seat
        /\ \A q \in Rotations : rotationState'[q] = IF q = r THEN to ELSE rotationState[q]
        /\ groupState' = [g \in Groups |-> IF g \in GroupsAboard(r) THEN DerivedGroupState(g)
                                                                  ELSE groupState[g]]
        /\ \A t \in Tickets : seat[t] \in Rotations \cup {NONE}
        /\ r # NONE
    BY <1>2 DEF Transition, DeriveGroups, assignmentVars, TypeOK, Rotations
  <2>2. CASE h \in GroupsAboard(r)
    <3>1. PICK t \in Tickets : GroupOf[t] = h /\ seat[t] = r
      BY <2>2 DEF GroupsAboard, Aboard
    <3> QED  BY <2>1, <2>2, <3>1 DEF GroupStep, Derived, Seated
  <2>3. CASE h \notin GroupsAboard(r)
    <3>1. \A t \in Tickets : GroupOf[t] = h => seat[t] # r
      BY <2>3 DEF GroupsAboard, Aboard
    <3> QED  BY <2>1, <2>3, <3>1 DEF GroupStep, Unmoved
  <2> QED  BY <2>2, <2>3
<1> QED
  BY <1>1, <1>2
  DEF TransitionStep, MarkOffBlock, MarkOnBlock, CompleteTurnaround, CancelRotation, DepartedStates

LEMMA RecoveryMovesGroups ==
  ASSUME TypeOK, RecoveryStep, NEW h \in Groups
  PROVE  GroupStep(h)
<1>1. ASSUME NEW r \in Rotations, NEW craft, ReturnToQueue(r, craft)
      PROVE  GroupStep(h)
  <2>1. /\ seat' = seat
        /\ \A q \in Rotations \ {r} : rotationState'[q] = rotationState[q]
        /\ groupState'[h] = IF h \in GroupsAboard(r) THEN ReturnedState(h) ELSE groupState[h]
        /\ \A t \in Tickets : seat[t] \in Rotations \cup {NONE}
        /\ r # NONE
    BY <1>1 DEF ReturnToQueue, assignmentVars, TypeOK, Rotations
  <2>2. CASE h \in GroupsAboard(r)
    <3>1. Seated(h)
      BY <2>1, <2>2 DEF GroupsAboard, Aboard, Seated
    <3> QED  BY <2>1, <2>2, <3>1, WaitingTypes DEF GroupStep, Requeued
  <2>3. CASE h \notin GroupsAboard(r)
    <3>1. \A t \in Tickets : GroupOf[t] = h => seat[t] # r
      BY <2>3 DEF GroupsAboard, Aboard
    <3> QED  BY <2>1, <2>3, <3>1 DEF GroupStep, Unmoved
  <2> QED  BY <2>2, <2>3
<1> QED  BY <1>1 DEF RecoveryStep, RevokeCall, AbortRotation, TechnicalAbort

\* Another group than the one that leaves, when no departed rotation is emptied.
LEMMA OthersUnmoved ==
  ASSUME TypeOK, NEW h \in Groups, groupState'[h] = groupState[h],
         \A t \in Tickets : GroupOf[t] = h => seat'[t] = seat[t],
         \A r \in Rotations : rotationState[r] \in DepartedStates => rotationState'[r] = rotationState[r]
  PROVE  GroupStep(h)
BY DEF TypeOK, GroupStep, Unmoved

LEMMA TicketDeskMovesGroups ==
  ASSUME TypeOK, TicketDeskStep, NEW h \in Groups
  PROVE  GroupStep(h)
<1>1. ASSUME NEW g \in Groups, NEW capacity, NEW slots \in Slottings(g, capacity), NEW emptied,
             SeatInNewRotations(g, slots, emptied), SetGroupAndTickets(g, "QUEUED", "QUEUED"),
             \A r \in emptied : rotationState[r] \notin DepartedStates,
             Seated(g) \/ groupState[g] = "UNSOLD"
      PROVE  GroupStep(h)
  <2>1. \A t \in TicketsOf(g) : rotationState[slots[t]] = "FREE"
    BY SlottingsType
  <2>2. CASE h = g
    BY <1>1, <2>2 DEF SetGroupAndTickets, TypeOK, GroupStep, Requeued
  <2>3. CASE h # g
    <3>1. /\ groupState'[h] = groupState[h]
          /\ \A t \in Tickets : GroupOf[t] = h => seat'[t] = seat[t]
      BY <1>1, <2>3 DEF SetGroupAndTickets, SeatInNewRotations, TypeOK
    <3>2. \A r \in Rotations : rotationState[r] \in DepartedStates => rotationState'[r] = rotationState[r]
      BY <1>1, <2>1 DEF SeatInNewRotations, DepartedStates
    <3> QED  BY <3>1, <3>2, OthersUnmoved
  <2> QED  BY <2>2, <2>3
<1>2. ASSUME NEW g \in Groups, NEW status \in ExceptionStates, EndGroup(g, status), MutationAllowed(g)
      PROVE  GroupStep(h)
  <2>1. /\ \A r \in Rotations : rotationState[r] \in DepartedStates => rotationState'[r] = rotationState[r]
        /\ Seated(g)
    BY <1>2, SeatedIs DEF EndGroup, MutationAllowed, EmptiedBy
  <2>2. /\ seat' = [t \in Tickets |-> IF GroupOf[t] = g THEN NONE ELSE seat[t]]
        /\ groupState' = [groupState EXCEPT ![g] = status]
        /\ groupState \in [Groups -> GroupStates]
    BY <1>2 DEF EndGroup, SetGroupAndTickets, TypeOK
  <2>3. CASE h = g
    BY <2>1, <2>2, <2>3 DEF GroupStep, Ended
  <2>4. CASE h # g
    BY <2>1, <2>2, <2>4, OthersUnmoved
  <2> QED  BY <2>3, <2>4
<1>3. ASSUME NEW g \in Groups, DeferTicketGroup(g) PROVE GroupStep(h)
  <2>1. /\ MutationAllowed(g) /\ Seated(g)
        /\ \A q \in EmptiedBy(g) : rotationState[q] \notin DepartedStates
    BY <1>3, SeatedIs DEF DeferTicketGroup, MutationAllowed, EmptiedBy
  <2> QED  BY <1>1, <1>2, <1>3, <2>1 DEF DeferTicketGroup, ExceptionStates
<1> QED
  BY <1>1, <1>2, <1>3 DEF TicketDeskStep, SellTicketGroup, CancelTicketGroup, MarkNoShow, ExceptionStates

LEMMA AttendanceMovesGroups ==
  ASSUME TypeOK, AttendanceStep, NEW h \in Groups
  PROVE  GroupStep(h)
<1>0. groupState \in [Groups -> GroupStates]
  BY DEF TypeOK
<1>1. ASSUME NEW t \in Tickets, NEW isIn, SetTicketAttendance(t, isIn) PROVE GroupStep(h)
  BY <1>1, GroupsRest DEF SetTicketAttendance, rotationVars, assignmentVars, groupVars
<1>2. ASSUME NEW g \in Groups, NEW r, NEW isIn, SetTicketGroupAttendance(g, r, isIn)
      PROVE  GroupStep(h)
  <2>1. /\ Seated(g) /\ UNCHANGED <<rotationState, seat>>
        /\ groupState'[g] \in {"PRESENT", "QUEUED"}
        /\ h # g => groupState'[h] = groupState[h]
    BY <1>0, <1>2, SeatedIs DEF SetTicketGroupAttendance, rotationVars, assignmentVars
  <2> QED  BY <2>1, GroupsRest DEF GroupStep, Requeued
<1>3. ASSUME NEW g \in Groups, MarkTicketGroupMissing(g) PROVE GroupStep(h)
  <2>1. /\ "MARK_TICKET_GROUP_MISSING" \in Commands /\ UNCHANGED <<rotationState, seat>>
        /\ groupState'[g] = "MISSING"
        /\ h # g => groupState'[h] = groupState[h]
    BY <1>0, <1>3 DEF MarkTicketGroupMissing, rotationVars, assignmentVars
  <2> QED  BY <2>1, GroupsRest DEF GroupStep, Missed
<1>4. ASSUME NEW g \in Groups, RestoreTicketGroupToQueue(g) PROVE GroupStep(h)
  <2>1. /\ groupState[g] = "MISSING" /\ UNCHANGED <<rotationState, seat>>
        /\ groupState'[g] = "QUEUED"
        /\ h # g => groupState'[h] = groupState[h]
    BY <1>0, <1>4 DEF RestoreTicketGroupToQueue, rotationVars, assignmentVars
  <2> QED  BY <2>1, GroupsRest DEF GroupStep, Requeued
<1>5. ASSUME NEW t \in Tickets, MarkTicketNoShow(t) PROVE GroupStep(h)
  <2>1. /\ seat[t] # NONE /\ rotationState[seat[t]] = "CALLED"
        /\ seat' = [seat EXCEPT ![t] = NONE]
        /\ groupState'[h] = IF h = GroupOf[t] /\ GroupEmptiedBy(t) THEN "NO_SHOW" ELSE groupState[h]
        /\ \A r \in Rotations : rotationState'[r] = rotationState[r] \/ r = seat[t]
        /\ \A u \in Tickets : seat[u] \in Rotations \cup {NONE}
        /\ seat \in [Tickets -> Rotations \cup {NONE}]
    BY <1>5 DEF MarkTicketNoShow, TicketNoShowAllowed, TypeOK
  <2>2. CASE h = GroupOf[t] /\ GroupEmptiedBy(t)
    <3>1. \A u \in Tickets : GroupOf[u] = h => seat'[u] = NONE
      BY <2>1, <2>2 DEF GroupEmptiedBy, TicketsOf
    <3> QED  BY <2>1, <2>2, <3>1 DEF GroupStep, Ended, Seated, ExceptionStates
  <2>3. CASE ~ (h = GroupOf[t] /\ GroupEmptiedBy(t))
    <3>1. \A r \in Rotations : rotationState[r] \in DepartedStates => rotationState'[r] = rotationState[r]
      BY <2>1 DEF DepartedStates
    <3>2. \A u \in Tickets : seat'[u] # seat[u] => /\ seat'[u] = NONE /\ seat[u] # NONE
                                                 /\ rotationState[seat[u]] \notin DepartedStates
      BY <2>1 DEF DepartedStates
    <3> QED  BY <2>1, <2>3, <3>1, <3>2 DEF GroupStep, Unmoved
  <2> QED  BY <2>2, <2>3
<1> QED  BY <1>1, <1>2, <1>3, <1>4, <1>5 DEF AttendanceStep

LEMMA CorrectionMovesGroups ==
  ASSUME TypeOK, CorrectionStep, NEW h \in Groups
  PROVE  GroupStep(h)
<1>0. groupState \in [Groups -> GroupStates]
  BY DEF TypeOK
<1>1. ASSUME NEW r \in Rotations, NEW capacity, NEW K \in SUBSET GroupsAboard(r),
             NEW row \in OwnRows(GroupsAboard(r) \ K), SetRotationCapacity(r, capacity, K, row)
      PROVE  GroupStep(h)
  <2>1. \A g \in GroupsAboard(r) \ K : rotationState[row[g]] = "FREE"
    BY OwnRowsType
  <2>2. \A q \in Rotations : rotationState[q] \in DepartedStates => rotationState'[q] = rotationState[q]
    BY <1>1, <2>1 DEF SetRotationCapacity, CapacityChangeAllowed, DepartedStates
  <2>3. CASE h \in GroupsAboard(r) \ K
    <3>1. Seated(h)
      BY <2>3 DEF GroupsAboard, Aboard, Seated, Rotations
    <3>2. groupState'[h] = "QUEUED"
      BY <1>1, <2>3 DEF SetRotationCapacity
    <3> QED  BY <3>1, <3>2 DEF GroupStep, Requeued
  <2>4. CASE h \notin GroupsAboard(r) \ K
    <3>1. groupState'[h] = groupState[h] /\ \A t \in Tickets : GroupOf[t] = h => seat'[t] = seat[t]
      BY <1>1, <2>4 DEF SetRotationCapacity
    <3> QED  BY <2>2, <3>1, OthersUnmoved
  <2> QED  BY <2>3, <2>4
<1>2. ASSUME NEW g \in Groups, NEW target \in Rotations, MoveTicketGroup(g, target)
      PROVE  GroupStep(h)
  <2>1. /\ Seated(g)
        /\ groupState'[g] \in {"CALLED", "QUEUED"}
        /\ h # g => groupState'[h] = groupState[h]
    BY <1>0, <1>2, SeatedIs DEF MoveTicketGroup, MoveAllowed
  <2>2. \A r \in Rotations : rotationState[r] \in DepartedStates => rotationState'[r] = rotationState[r]
    BY <1>2 DEF MoveTicketGroup, MoveAllowed, EmptiedBy
  <2>3. h # g => \A t \in Tickets : GroupOf[t] = h => seat'[t] = seat[t]
    BY <1>2 DEF MoveTicketGroup
  <2> QED  BY <2>1, <2>2, <2>3, OthersUnmoved DEF GroupStep, Requeued
<1>3. ASSUME NEW g \in Groups, NEW target \in Rotations, CorrectRotationManifest(g, target)
      PROVE  GroupStep(h)
  <2>1. /\ Seated(g) /\ rotationState' = rotationState /\ rotationState[target] \in DepartedStates
        /\ groupState' = [groupState EXCEPT ![g] = rotationState[target]]
        /\ seat' = [t \in Tickets |-> IF GroupOf[t] = g THEN target ELSE seat[t]]
    BY <1>3 DEF CorrectRotationManifest, rotationVars, Seated, TicketsOf
  <2>2. CASE h = g
    BY <1>0, <2>1, <2>2 DEF GroupStep, Transferred
  <2>3. CASE h # g
    BY <1>0, <2>1, <2>3, OthersUnmoved
  <2> QED  BY <2>2, <2>3
<1> QED  BY <1>1, <1>2, <1>3 DEF CorrectionStep

LEMMA NextMovesGroups ==
  ASSUME TypeOK, "CANCEL_ROTATION" \notin Commands, [Next]_vars, NEW h \in Groups
  PROVE  GroupStep(h)
<1>1. CASE FleetStep \/ UNCHANGED vars
  BY <1>1, GroupsRest
  DEF FleetStep, SetAircraftOperationalState, SetPilotPause, AssignAircraftPilot, SetHalted,
      rotationVars, assignmentVars, groupVars, vars
<1> QED
  BY <1>1, TransitionMovesGroups, RecoveryMovesGroups, TicketDeskMovesGroups,
     AttendanceMovesGroups, CorrectionMovesGroups DEF Next

-----------------------------------------------------------------------------
\* What follows for the booking groups.

\* Who ended without a flight holds no seat.
EndedSeatless ==
  \A g \in Groups : groupState[g] \in ExceptionStates => ~Seated(g)

\* A group that has just derived its state from a rotation that was called or departed is
\* waiting for none of its segments.
LEMMA DerivedStates ==
  ASSUME NEW g, Derived(g)
  PROVE  \/ /\ groupState[g] \in {"MISSING", "CLARIFICATION"}
            /\ groupState'[g] = groupState[g]
         \/ groupState'[g] \in {"PRESENT", "QUEUED", "BOARDING"}
         \/ /\ groupState'[g] \in DepartedStates
            /\ \E t \in TicketsOf(g) : seat'[t] # NONE /\ rotationState'[seat'[t]] = groupState'[g]
            /\ \A t \in TicketsOf(g) : seat'[t] # NONE => rotationState'[seat'[t]] \notin {"DRAFT", "CALLED"}
<1> DEFINE segments == {rotationState'[seat'[t]] : t \in {u \in TicketsOf(g) : seat'[u] # NONE}}
           pending == {t \in TicketsOf(g) : seat'[t] # NONE /\ rotationState'[seat'[t]] = "DRAFT"}
<1>1. \E s \in segments : s \in {"CALLED"} \cup DepartedStates
  BY DEF Derived, TicketsOf
<1>2. groupState'[g] = IF groupState[g] \in {"MISSING", "CLARIFICATION"} THEN groupState[g]
                       ELSE IF pending \cap checkedIn # {}  THEN "PRESENT"
                       ELSE IF pending # {}                 THEN "QUEUED"
                       ELSE IF "CALLED" \in segments        THEN "BOARDING"
                       ELSE IF "IN_FLIGHT" \in segments     THEN "IN_FLIGHT"
                       ELSE IF "LANDED" \in segments        THEN "LANDED"
                       ELSE IF "COMPLETED" \in segments     THEN "COMPLETED"
                       ELSE "CANCELED"
  BY DEF Derived, DerivedGroupState
<1>3. CASE groupState[g] \in {"MISSING", "CLARIFICATION"} \/ pending # {} \/ "CALLED" \in segments
  BY <1>2, <1>3
<1>4. CASE groupState[g] \notin {"MISSING", "CLARIFICATION"} /\ pending = {} /\ "CALLED" \notin segments
  <2>1. groupState'[g] \in DepartedStates /\ groupState'[g] \in segments
    <3> HIDE DEF segments, pending
    <3> QED  BY <1>1, <1>2, <1>4 DEF DepartedStates
  <2>2. \A t \in TicketsOf(g) : seat'[t] # NONE => rotationState'[seat'[t]] \notin {"DRAFT", "CALLED"}
    BY <1>4
  <2> QED  BY <2>1, <2>2
<1> QED  BY <1>3, <1>4

LEMMA EndedStaySeatless ==
  ASSUME TypeOK, EndedSeatless, "CANCEL_ROTATION" \notin Commands, [Next]_vars, NEW g \in Groups
  PROVE  /\ groupState'[g] \in ExceptionStates => \A t \in Tickets : GroupOf[t] = g => seat'[t] = NONE
         /\ groupState[g] \in ExceptionStates /\ "MARK_TICKET_GROUP_MISSING" \notin Commands
              => groupState'[g] = groupState[g]
<1> DEFINE Goal ==
      /\ groupState'[g] \in ExceptionStates => \A t \in Tickets : GroupOf[t] = g => seat'[t] = NONE
      /\ groupState[g] \in ExceptionStates /\ "MARK_TICKET_GROUP_MISSING" \notin Commands
           => groupState'[g] = groupState[g]
<1>1. GroupStep(g) /\ (groupState[g] \in ExceptionStates => ~Seated(g))
  BY NextMovesGroups DEF EndedSeatless
<1>2. CASE Unmoved(g)
  BY <1>1, <1>2 DEF Unmoved, Seated
<1>3. CASE Derived(g)
  <2>1. groupState[g] \notin ExceptionStates
    BY <1>1, <1>3 DEF Derived
  <2>2. groupState'[g] \notin ExceptionStates
    BY <1>3, <2>1, DerivedStates DEF ExceptionStates, DepartedStates
  <2> QED  BY <2>1, <2>2
<1>4. CASE Requeued(g)
  BY <1>1, <1>4 DEF Requeued, ExceptionStates
<1>5. CASE Ended(g)
  BY <1>1, <1>5 DEF Ended
<1>6. CASE Transferred(g)
  BY <1>1, <1>6 DEF Transferred, ExceptionStates, DepartedStates
<1>7. CASE Missed(g)
  BY <1>7 DEF Missed, ExceptionStates
<1> QED  BY <1>1, <1>2, <1>3, <1>4, <1>5, <1>6, <1>7 DEF GroupStep

LEMMA EndedInvariant ==
  ASSUME "CANCEL_ROTATION" \notin Commands
  PROVE  Spec => [](TypeOK /\ EndedSeatless)
<1>1. Init => TypeOK /\ EndedSeatless
  BY InitTyped DEF Init, EndedSeatless, Seated
<1>2. TypeOK /\ EndedSeatless /\ [Next]_vars => TypeOK' /\ EndedSeatless'
  <2> SUFFICES ASSUME TypeOK, EndedSeatless, [Next]_vars PROVE TypeOK' /\ EndedSeatless'
    OBVIOUS
  <2>1. EndedSeatless'
    BY EndedStaySeatless DEF EndedSeatless, Seated
  <2> QED  BY <2>1, NextTyped
<1> QED  BY <1>1, <1>2, PTL DEF Spec

\* For events of every size no command brings a booking group back that ended as a no-show, in
\* clarification or canceled: it holds no seat, so that no handler finds it again.
\* MARK_TICKET_GROUP_MISSING is left out because it refuses no status.
THEOREM EndedStayEnded ==
  ASSUME Commands \cap {"CANCEL_ROTATION", "MARK_TICKET_GROUP_MISSING"} = {}
  PROVE  Spec => ExceptionIsFinal
<1>1. TypeOK /\ EndedSeatless /\ [Next]_vars =>
        [\A g \in Groups : groupState[g] \in ExceptionStates => groupState'[g] = groupState[g]]_vars
  BY EndedStaySeatless
<1>2. Spec => [](TypeOK /\ EndedSeatless)
  BY EndedInvariant
<1> QED  BY <1>1, <1>2, PTL DEF Spec, ExceptionIsFinal

LEMMA GroupsKeepFollowing ==
  ASSUME FleetInv, FleetInv', GroupsFollowRotations, "CANCEL_ROTATION" \notin Commands, [Next]_vars
  PROVE  GroupsFollowRotations'
<1>1. SUFFICES ASSUME NEW g \in Groups, groupState'[g] \in DepartedStates
      PROVE  /\ \E t \in TicketsOf(g) : seat'[t] # NONE /\ rotationState'[seat'[t]] = groupState'[g]
             /\ \A t \in TicketsOf(g) : seat'[t] # NONE => rotationState'[seat'[t]] \in DepartedStates
  BY DEF GroupsFollowRotations, RotationsOf, TicketsOf
<1>2. TypeOK /\ GroupStep(g)
  BY NextMovesGroups DEF FleetInv
<1>3. CASE Unmoved(g)
  <2>1. groupState'[g] = groupState[g]
    BY <1>3 DEF Unmoved
  <2>2. /\ \E t \in TicketsOf(g) : seat[t] # NONE /\ rotationState[seat[t]] = groupState[g]
        /\ \A t \in TicketsOf(g) : seat[t] # NONE => rotationState[seat[t]] \in DepartedStates
    BY <1>1, <2>1 DEF GroupsFollowRotations, RotationsOf
  <2>3. \A t \in TicketsOf(g) :
          seat'[t] = seat[t] /\ (seat[t] # NONE => rotationState'[seat[t]] = rotationState[seat[t]])
    BY <1>3, <2>2 DEF Unmoved, TicketsOf
  <2> QED  BY <2>1, <2>2, <2>3
<1>4. CASE Derived(g)
  <2>1. \A t \in TicketsOf(g) : seat'[t] # NONE =>
          rotationState'[seat'[t]] \in RotationStates \ {"FREE", "CANCELED"}
    BY DEF FleetInv, TypeOK, SeatedInLiveRotation, TicketsOf
  <2>2. /\ \E t \in TicketsOf(g) : seat'[t] # NONE /\ rotationState'[seat'[t]] = groupState'[g]
        /\ \A t \in TicketsOf(g) : seat'[t] # NONE => rotationState'[seat'[t]] \notin {"DRAFT", "CALLED"}
    BY <1>1, <1>4, DerivedStates DEF DepartedStates
  <2> QED  BY <2>1, <2>2 DEF RotationStates, DepartedStates
<1>5. CASE Requeued(g) \/ Ended(g) \/ Missed(g)
  BY <1>1, <1>5 DEF Requeued, Ended, Missed, ExceptionStates, DepartedStates
<1>6. CASE Transferred(g)
  BY <1>1, <1>6 DEF Transferred, Seated, TicketsOf, Rotations
<1> QED  BY <1>2, <1>3, <1>4, <1>5, <1>6 DEF GroupStep

\* For events of every size: a booking group said to be in the air, on the stand or flown has a
\* segment in that state and none that still waits or boards, however its segments are called,
\* flown, moved and aborted.
THEOREM GroupsFollow ==
  ASSUME "CANCEL_ROTATION" \notin Commands
  PROVE  Spec => []GroupsFollowRotations
<1>1. Init => FleetInv /\ GroupsFollowRotations
  BY InitFleet DEF Init, GroupsFollowRotations, DepartedStates
<1>2. FleetInv /\ GroupsFollowRotations /\ [Next]_vars => FleetInv' /\ GroupsFollowRotations'
  BY NextMovesRotations, GroupsKeepFollowing
<1> QED  BY <1>1, <1>2, PTL DEF Spec

-----------------------------------------------------------------------------
\* How many rotations a booking group is spread over.

\* The largest aircraft exists: no set of aircraft above it is smaller.
LEMMA LargestAircraft ==
  /\ EffectiveGroupCapacity \in Nat \ {0}
  /\ \A a \in Aircraft : Seats[a] <= EffectiveGroupCapacity
<1> DEFINE Above(a) == {b \in Aircraft : Seats[b] > Seats[a]}
           Sets == {Above(a) : a \in Aircraft}
<1>1. IsWellFoundedOn(StrictSubsetOrdering(Aircraft), FiniteSubsetsOf(Aircraft))
  BY FS_StrictSubsetOrderingWellFounded
<1>2. Sets \subseteq FiniteSubsetsOf(Aircraft) /\ Sets # {}
  <2>1. ASSUME NEW a \in Aircraft PROVE IsFiniteSet(Above(a))
    <3>1. Above(a) \in SUBSET Aircraft
      OBVIOUS
    <3> QED  BY <3>1, FS_Subset
  <2>2. \A a \in Aircraft : Above(a) \in FiniteSubsetsOf(Aircraft)
    BY <2>1 DEF FiniteSubsetsOf
  <2> HIDE DEF Above
  <2> QED  BY <2>2
<1> HIDE DEF Sets
<1>3. PICK A \in Sets : \A B \in Sets : <<B, A>> \notin StrictSubsetOrdering(Aircraft)
  BY <1>1, <1>2, WFMin
<1>4. PICK a \in Aircraft : A = Above(a)
  BY <1>3 DEF Sets
<1>5. ASSUME NEW b \in Aircraft, Seats[b] > Seats[a] PROVE FALSE
  <2>1. Above(b) \subseteq Above(a) /\ b \in Above(a) /\ b \notin Above(b)
    BY <1>5
  <2>2. <<Above(b), Above(a)>> \in StrictSubsetOrdering(Aircraft)
    BY <2>1 DEF StrictSubsetOrdering
  <2> QED  BY <1>3, <1>4, <2>2 DEF Sets
<1>6. \E n \in {Seats[b] : b \in Aircraft} : \A b \in Aircraft : Seats[b] <= n
  BY <1>5
<1> QED  BY <1>6 DEF EffectiveGroupCapacity

\* A larger aircraft does not need more flights, nor does nobody.
LEMMA PartsFall ==
  ASSUME NEW n \in Nat, NEW c \in Nat \ {0}, NEW d \in Nat \ {0}, c <= d
  PROVE  Parts(n, c) \in Nat /\ Parts(n, d) <= Parts(n, c)
<1> DEFINE p == Parts(n, c)
           q == Parts(n, d)
<1>1. p \in Nat /\ p * c >= n
  BY DEF Parts
<1>2. q \in Nat /\ q * d <= n + d - 1
  BY DEF Parts
<1> HIDE DEF p, q
<1>3. ASSUME p < q PROVE FALSE
  <2>1. p * c <= p * d
    BY <1>1
  <2>2. (p + 1) * d <= q * d
    BY <1>1, <1>2, <1>3
  <2>3. (p + 1) * d = p * d + d
    BY <1>1
  <2>4. p * c \in Nat /\ p * d \in Nat /\ q * d \in Nat
    BY <1>1, <1>2
  <2> QED  BY <1>1, <1>2, <2>1, <2>2, <2>3, <2>4
<1>4. p \in Nat /\ q <= p
  BY <1>1, <1>2, <1>3
<1> QED  BY <1>4 DEF p, q

LEMMA GroupSizes ==
  ASSUME NEW g
  PROVE  /\ Cardinality(TicketsOf(g)) \in Nat
         /\ \A c \in Nat \ {0} : Parts(Cardinality(TicketsOf(g)), c) \in Nat
<1>1. TicketsOf(g) \in SUBSET Tickets
  BY DEF TicketsOf
<1>2. IsFiniteSet(TicketsOf(g))
  BY <1>1, FS_Subset
<1>3. Cardinality(TicketsOf(g)) \in Nat
  BY <1>2, FS_CardinalityType
<1>4. ASSUME NEW c \in Nat \ {0} PROVE Parts(Cardinality(TicketsOf(g)), c) \in Nat
  <2>1. c <= c
    OBVIOUS
  <2> QED  BY <1>3, <2>1, PartsFall
<1> QED  BY <1>3, <1>4

\* The rows that exist are the first ones, so that a group gets exactly the rows its split asks for.
RowsInOrder ==
  \E n \in 0..MaxRotations : \A r \in Rotations : rotationState[r] # "FREE" <=> r <= n

LEMMA NewRowsCounted ==
  ASSUME RowsInOrder, NEW k \in Nat
  PROVE  /\ IsFiniteSet(NewRows(k)) /\ Cardinality(NewRows(k)) <= k
         /\ k <= Cardinality(NewRows(k)) =>
              \E n \in 0..MaxRotations :
                \A r \in Rotations : rotationState[r] # "FREE" \/ r \in NewRows(k) <=> r <= n
<1>1. PICK n \in 0..MaxRotations : \A r \in Rotations : rotationState[r] # "FREE" <=> r <= n
  BY DEF RowsInOrder
<1> DEFINE m == IF n + k <= MaxRotations THEN n + k ELSE MaxRotations
<1>2. {r \in Rotations : rotationState[r] # "FREE"} = 1..n
  BY <1>1 DEF Rotations
<1>3. Cardinality(1..n) = n
  BY FS_Interval
<1>4. NewRows(k) = (n + 1)..m
  <2>1. NewRows(k) = {r \in Rotations \ 1..n : r <= n + k}
    BY <1>2, <1>3 DEF NewRows
  <2> QED  BY <2>1 DEF Rotations
<1>5. IsFiniteSet((n + 1)..m) /\ Cardinality((n + 1)..m) = m - n
  <2>1. m \in Nat /\ n \in Nat /\ n <= m
    OBVIOUS
  <2> HIDE DEF m
  <2>2. n + 1 \in Int /\ m \in Int
    BY <2>1
  <2>3. /\ IsFiniteSet((n + 1)..m)
        /\ Cardinality((n + 1)..m) = IF n + 1 > m THEN 0 ELSE m - (n + 1) + 1
    BY <2>2, FS_Interval
  <2> QED  BY <2>1, <2>3
<1>6. m \in 0..MaxRotations /\ \A r \in Rotations : rotationState[r] # "FREE" \/ r \in NewRows(k) <=> r <= m
  BY <1>1, <1>4 DEF Rotations
<1> QED  BY <1>4, <1>5, <1>6

LEMMA SlottingsFill ==
  ASSUME RowsInOrder, NEW g \in Groups, NEW capacity \in Nat \ {0},
         NEW slots \in Slottings(g, capacity), NEW rows, rows = {slots[t] : t \in TicketsOf(g)}
  PROVE  /\ IsFiniteSet(rows)
         /\ Cardinality(rows) <= Parts(Cardinality(TicketsOf(g)), capacity)
         /\ \E n \in 0..MaxRotations :
              \A r \in Rotations : rotationState[r] # "FREE" \/ r \in rows <=> r <= n
<1> DEFINE k == Parts(Cardinality(TicketsOf(g)), capacity)
<1>1. k \in Nat
  BY GroupSizes
<1>2. /\ slots \in [TicketsOf(g) -> NewRows(k)]
      /\ ~(Cardinality(NewRows(k)) < k)
      /\ \A r \in NewRows(k) : Cardinality({t \in TicketsOf(g) : slots[t] = r}) \in 1..capacity
  BY DEF Slottings
<1>3. \A r \in NewRows(k) : {t \in TicketsOf(g) : slots[t] = r} # {}
  BY <1>2, FS_EmptySet
<1>4. rows = NewRows(k)
  BY <1>2, <1>3
<1> HIDE DEF k
<1>5. IsFiniteSet(NewRows(k)) /\ Cardinality(NewRows(k)) \in Nat
  BY <1>1, NewRowsCounted, FS_CardinalityType
<1>6. k <= Cardinality(NewRows(k))
  BY <1>1, <1>2, <1>5
<1>7. /\ IsFiniteSet(rows) /\ Cardinality(rows) <= k
      /\ \E n \in 0..MaxRotations :
           \A r \in Rotations : rotationState[r] # "FREE" \/ r \in rows <=> r <= n
  BY <1>1, <1>4, <1>6, NewRowsCounted
<1> QED  BY <1>7 DEF k

LEMMA OwnRowsFill ==
  ASSUME RowsInOrder, NEW E, IsFiniteSet(E), NEW row \in OwnRows(E)
  PROVE  \E n \in 0..MaxRotations :
           \A r \in Rotations : rotationState[r] # "FREE" \/ (\E g \in E : row[g] = r) <=> r <= n
<1> DEFINE k == Cardinality(E)
<1>1. k \in Nat
  BY FS_CardinalityType
<1>2. row \in Injection(E, NewRows(k))
  BY DEF OwnRows, Injection, IsInjective
<1> HIDE DEF k
<1>3. /\ IsFiniteSet(NewRows(k)) /\ Cardinality(NewRows(k)) <= k
      /\ k <= Cardinality(NewRows(k)) =>
           \E n \in 0..MaxRotations :
             \A r \in Rotations : rotationState[r] # "FREE" \/ r \in NewRows(k) <=> r <= n
  BY <1>1, NewRowsCounted
<1>4. /\ k <= Cardinality(NewRows(k))
      /\ k = Cardinality(NewRows(k)) <=> row \in Surjection(E, NewRows(k))
  BY <1>2, <1>3, FS_Injection DEF k
<1>5. Cardinality(NewRows(k)) \in Nat
  BY <1>3, FS_CardinalityType
<1>6. row \in Surjection(E, NewRows(k))
  BY <1>1, <1>3, <1>4, <1>5
<1>7. \A r : r \in NewRows(k) <=> \E g \in E : row[g] = r
  BY <1>6 DEF Surjection
<1> QED  BY <1>3, <1>4, <1>7
\* A command that seats a group again moves each of its segments as a whole: where the
\* segment was says where it goes.
Regroups(g) ==
  \E f : \A t \in TicketsOf(g) :
    seat'[t] # NONE => \E q \in RotationsOf(g) : seat'[t] = f[q]

\* A sale or a deferral splits it anew.
Splits(g) ==
  \E capacity \in {EffectiveGroupCapacity, ReferenceCapacity} :
    \E slots \in Slottings(g, capacity) : \A t \in TicketsOf(g) : seat'[t] = slots[t]

LEMMA StaysGrouped ==
  ASSUME NEW h, \A t \in TicketsOf(h) : seat'[t] = seat[t] \/ seat'[t] = NONE,
         TypeOK
  PROVE  Regroups(h)
<1> DEFINE f == [q \in Rotations |-> q]
<1>1. ASSUME NEW t \in TicketsOf(h), seat'[t] # NONE
      PROVE  seat[t] \in RotationsOf(h) /\ seat'[t] = f[seat[t]]
  BY <1>1 DEF TypeOK, RotationsOf, TicketsOf
<1> HIDE DEF f
<1> QED  BY <1>1 DEF Regroups

LEMMA CallRegroups ==
  ASSUME TypeOK, NEW G \in SUBSET Groups \ {{}}, NEW segment \in Segments(G),
         NEW primary \in G, NEW a, NEW p, CallNext(G, segment, primary, a, p), NEW h \in Groups
  PROVE  Regroups(h)
<1> DEFINE r == segment[primary]
           moved == {t \in Passengers(G, segment) : seat[t] # r}
           f == [q \in Rotations |-> IF h \in G /\ q = segment[h] THEN r ELSE q]
<1>1. seat' = [t \in Tickets |-> IF t \in moved THEN r ELSE seat[t]]
  BY DEF CallNext
<1>2. ASSUME NEW t \in TicketsOf(h)
      PROVE  t \in moved <=> h \in G /\ seat[t] = segment[h] /\ seat[t] # r
  BY DEF Passengers, TicketsOf
<1>3. r \in Rotations /\ r # NONE /\ \A g \in G : segment[g] \in Rotations
  BY DEF Segments, Rotations
<1> HIDE DEF moved, r
<1>4. ASSUME NEW t \in TicketsOf(h), seat'[t] # NONE
      PROVE  seat[t] \in RotationsOf(h) /\ seat'[t] = f[seat[t]]
  <2>1. t \in Tickets /\ seat'[t] = IF t \in moved THEN r ELSE seat[t]
    BY <1>1 DEF TicketsOf
  <2>2. seat[t] \in Rotations
    BY <1>2, <1>3, <1>4, <2>1 DEF TypeOK
  <2>3. seat[t] \in RotationsOf(h)
    BY <2>2 DEF RotationsOf, Rotations
  <2> QED  BY <1>2, <2>1, <2>2, <2>3
<1> HIDE DEF f
<1> QED  BY <1>4 DEF Regroups

LEMMA CapacityRegroups ==
  ASSUME TypeOK, NEW r \in Rotations, NEW capacity, NEW K, NEW row,
         SetRotationCapacity(r, capacity, K, row), NEW h \in Groups
  PROVE  Regroups(h)
<1> DEFINE evicted == GroupsAboard(r) \ K
           leaving == {t \in Aboard(r) : GroupOf[t] \in evicted}
           f == [q \in Rotations |-> IF h \in evicted /\ q = r THEN row[h] ELSE q]
<1>1. seat' = [t \in Tickets |-> IF t \in leaving THEN row[GroupOf[t]] ELSE seat[t]]
  BY DEF SetRotationCapacity
<1>2. ASSUME NEW t \in TicketsOf(h) PROVE t \in leaving <=> h \in evicted /\ seat[t] = r
  BY DEF Aboard, TicketsOf
<1>3. r # NONE
  BY DEF Rotations
<1> HIDE DEF leaving, evicted
<1>4. ASSUME NEW t \in TicketsOf(h), seat'[t] # NONE
      PROVE  seat[t] \in RotationsOf(h) /\ seat'[t] = f[seat[t]]
  BY <1>1, <1>2, <1>3, <1>4 DEF TypeOK, RotationsOf, TicketsOf
<1> HIDE DEF f
<1> QED  BY <1>4 DEF Regroups

\* MOVE_TICKET_GROUP and CORRECT_ROTATION_MANIFEST bring all of a group together.
LEMMA MoveRegroups ==
  ASSUME TypeOK, NEW g \in Groups, NEW target \in Rotations, RotationsOf(g) # {},
         seat' = [t \in Tickets |-> IF GroupOf[t] = g THEN target ELSE seat[t]], NEW h \in Groups
  PROVE  Regroups(h)
<1>1. CASE h = g
  <2> DEFINE f == [q \in Rotations |-> target]
  <2>1. PICK q \in RotationsOf(g) : q \in Rotations
    BY DEF TypeOK, RotationsOf, TicketsOf
  <2>2. \A t \in TicketsOf(h) : seat'[t] = f[q]
    BY <1>1, <2>1 DEF TicketsOf
  <2> HIDE DEF f
  <2> QED  BY <1>1, <2>1, <2>2 DEF Regroups
<1>2. CASE h # g
  <2>1. \A t \in TicketsOf(h) : seat'[t] = seat[t]
    BY <1>2 DEF TicketsOf
  <2> QED  BY <2>1, StaysGrouped
<1> QED  BY <1>1, <1>2

LEMMA NewSeatsSplit ==
  ASSUME TypeOK, NEW g \in Groups, NEW capacity \in {EffectiveGroupCapacity, ReferenceCapacity},
         NEW slots \in Slottings(g, capacity), NEW emptied, SeatInNewRotations(g, slots, emptied),
         NEW h \in Groups
  PROVE  Regroups(h) \/ Splits(h)
<1>1. CASE h = g
  <2>1. \A t \in TicketsOf(h) : seat'[t] = slots[t]
    BY <1>1 DEF SeatInNewRotations, TicketsOf
  <2> QED  BY <1>1, <2>1 DEF Splits
<1>2. CASE h # g
  <2>1. \A t \in TicketsOf(h) : seat'[t] = seat[t]
    BY <1>2 DEF SeatInNewRotations, TicketsOf
  <2> QED  BY <2>1, StaysGrouped
<1> QED  BY <1>1, <1>2

LEMMA NextRegroups ==
  ASSUME TypeOK, [Next]_vars, NEW h \in Groups
  PROVE  Regroups(h) \/ Splits(h)
<1>1. CASE seat' = seat
  BY <1>1, StaysGrouped
<1>2. CASE TransitionStep
  <2>1. ASSUME NEW r, NEW to, NEW craft, NEW passenger, Transition(r, to, craft, passenger)
        PROVE  seat' = seat
    BY <2>1 DEF Transition, assignmentVars
  <2> QED
    BY <1>1, <1>2, <2>1, CallRegroups DEF TransitionStep, MarkOffBlock, MarkOnBlock,
       CompleteTurnaround, CancelRotation
<1>3. CASE RecoveryStep
  BY <1>1, <1>3 DEF RecoveryStep, RevokeCall, AbortRotation, TechnicalAbort, ReturnToQueue,
     assignmentVars
<1>4. CASE TicketDeskStep
  <2>1. ASSUME NEW g \in Groups, NEW status, EndGroup(g, status) PROVE Regroups(h)
    <3>1. \A t \in TicketsOf(h) : seat'[t] = seat[t] \/ seat'[t] = NONE
      BY <2>1 DEF EndGroup, TicketsOf
    <3> QED  BY <3>1, StaysGrouped
  <2> QED
    BY <1>4, <2>1, NewSeatsSplit DEF TicketDeskStep, SellTicketGroup, CancelTicketGroup,
       DeferTicketGroup, MarkNoShow
<1>5. CASE AttendanceStep
  <2>1. ASSUME NEW u \in Tickets, MarkTicketNoShow(u) PROVE Regroups(h)
    <3>1. \A t \in TicketsOf(h) : seat'[t] = seat[t] \/ seat'[t] = NONE
      BY <2>1 DEF MarkTicketNoShow, TicketsOf, TypeOK
    <3> QED  BY <3>1, StaysGrouped
  <2> QED
    BY <1>1, <1>5, <2>1 DEF AttendanceStep, SetTicketAttendance, SetTicketGroupAttendance,
       assignmentVars, MarkTicketGroupMissing, RestoreTicketGroupToQueue
<1>6. CASE CorrectionStep
  <2>1. ASSUME NEW g \in Groups, NEW r \in Rotations, MoveTicketGroup(g, r) PROVE Regroups(h)
    BY <2>1, MoveRegroups DEF MoveTicketGroup, MoveAllowed
  <2>2. ASSUME NEW g \in Groups, NEW r \in Rotations, CorrectRotationManifest(g, r) PROVE Regroups(h)
    <3>1. RotationsOf(g) # {}
      BY <2>2 DEF CorrectRotationManifest, RotationsOf
    <3> QED  BY <2>2, <3>1, MoveRegroups DEF CorrectRotationManifest
  <2> QED  BY <1>6, <2>1, <2>2, CapacityRegroups DEF CorrectionStep
<1>7. CASE FleetStep \/ UNCHANGED vars
  BY <1>1, <1>7 DEF FleetStep, SetAircraftOperationalState, SetPilotPause, AssignAircraftPilot,
     SetHalted, assignmentVars, vars
<1> QED  BY <1>2, <1>3, <1>4, <1>5, <1>6, <1>7 DEF Next

LEMMA RegroupKeeps ==
  ASSUME TypeOK, NEW g, Regroups(g)
  PROVE  /\ Cardinality(RotationsOf(g)') <= Cardinality(RotationsOf(g))
         /\ Cardinality(RotationsOf(g)') \in Nat /\ Cardinality(RotationsOf(g)) \in Nat
<1> DEFINE S == RotationsOf(g)
<1>1. PICK f : \A t \in TicketsOf(g) : seat'[t] # NONE => \E q \in S : seat'[t] = f[q]
  BY DEF Regroups
<1> DEFINE T == {f[q] : q \in S}
           moves == [q \in S |-> f[q]]
<1>2. IsFiniteSet(S)
  <2>1. S \in SUBSET Rotations
    BY DEF TypeOK, RotationsOf, TicketsOf
  <2>2. IsFiniteSet(Rotations)
    BY FS_Interval DEF Rotations
  <2> QED  BY <2>1, <2>2, FS_Subset
<1>3. S' \in SUBSET T
  BY <1>1 DEF RotationsOf, TicketsOf
<1> HIDE DEF S
<1>4. moves \in Surjection(S, T)
  BY DEF Surjection
<1> HIDE DEF moves, T
<1>5. IsFiniteSet(T) /\ Cardinality(T) <= Cardinality(S)
  BY <1>2, <1>4, FS_Surjection
<1>6. IsFiniteSet(S') /\ Cardinality(S') <= Cardinality(T)
  BY <1>3, <1>5, FS_Subset
<1>7. Cardinality(S) \in Nat /\ Cardinality(T) \in Nat /\ Cardinality(S') \in Nat
  BY <1>2, <1>5, <1>6, FS_CardinalityType
<1> QED  BY <1>5, <1>6, <1>7 DEF S

LEMMA RowsStayInOrder ==
  ASSUME TypeOK, SeatsExist, RowsInOrder, [Next]_vars
  PROVE  RowsInOrder'
<1>0. \A r \in Rotations : rotationState[r] # "FREE" => rotationState'[r] # "FREE"
  BY RowsStay
<1>1. ASSUME \A r \in Rotations : rotationState'[r] # "FREE" => rotationState[r] # "FREE"
      PROVE  RowsInOrder'
  BY <1>0, <1>1 DEF RowsInOrder, Rotations
<1>2. ASSUME NEW R, \A r \in Rotations : rotationState'[r] # "FREE" <=> rotationState[r] # "FREE" \/ r \in R,
             \E n \in 0..MaxRotations : \A r \in Rotations : rotationState[r] # "FREE" \/ r \in R <=> r <= n
      PROVE  RowsInOrder'
  BY <1>2 DEF RowsInOrder, Rotations
<1>3. rotationState \in [Rotations -> RotationStates]
  BY DEF TypeOK
<1>4. ASSUME NEW g \in Groups PROVE \A r \in EmptiedBy(g) : rotationState[r] # "FREE"
  BY DEF EmptiedBy, RotationsOf, TicketsOf, SeatsExist
<1>5. CASE TransitionStep
  <2>1. ASSUME NEW G \in SUBSET Groups \ {{}}, NEW segment \in Segments(G), NEW primary \in G, NEW a,
               NEW p, CallNext(G, segment, primary, a, p)
        PROVE  RowsInOrder'
    <3>1. \A g \in G : rotationState[segment[g]] # "FREE"
      BY DEF Segments
    <3> QED  BY <1>1, <2>1, <3>1 DEF CallNext
  <2>2. ASSUME NEW r, NEW to, NEW craft, NEW passenger, Transition(r, to, craft, passenger)
        PROVE  RowsInOrder'
    BY <1>1, <1>3, <2>2 DEF Transition, MayTurn
  <2> QED
    BY <1>5, <2>1, <2>2 DEF TransitionStep, MarkOffBlock, MarkOnBlock, CompleteTurnaround,
       CancelRotation
<1>6. CASE RecoveryStep
  BY <1>1, <1>3, <1>6 DEF RecoveryStep, RevokeCall, AbortRotation, TechnicalAbort, ReturnToQueue,
     Active, ActiveStates
<1>7. CASE TicketDeskStep
  <2>1. ASSUME NEW g \in Groups, NEW status, EndGroup(g, status) PROVE RowsInOrder'
    BY <1>1, <1>4, <2>1 DEF EndGroup
  <2>2. ASSUME NEW g \in Groups, NEW capacity \in Nat \ {0}, NEW slots \in Slottings(g, capacity),
               NEW emptied, SeatInNewRotations(g, slots, emptied),
               \A r \in emptied : rotationState[r] # "FREE"
        PROVE  RowsInOrder'
    <3>0. PICK R : R = {slots[t] : t \in TicketsOf(g)}
      OBVIOUS
    <3>1. \A r \in Rotations : rotationState'[r] # "FREE" <=> rotationState[r] # "FREE" \/ r \in R
      BY <2>2, <3>0 DEF SeatInNewRotations
    <3>2. \E n \in 0..MaxRotations : \A r \in Rotations : rotationState[r] # "FREE" \/ r \in R <=> r <= n
      BY <3>0, SlottingsFill
    <3> QED  BY <1>2, <3>1, <3>2
  <2> QED
    BY <1>4, <1>7, <2>1, <2>2, LargestAircraft DEF TicketDeskStep, SellTicketGroup,
       CancelTicketGroup, DeferTicketGroup, MarkNoShow
<1>8. CASE AttendanceStep
  <2>1. ASSUME NEW t \in Tickets, MarkTicketNoShow(t) PROVE RowsInOrder'
    BY <1>1, <2>1 DEF MarkTicketNoShow, TicketNoShowAllowed
  <2> QED
    BY <1>1, <1>8, <2>1 DEF AttendanceStep, SetTicketAttendance, SetTicketGroupAttendance,
       rotationVars, MarkTicketGroupMissing, RestoreTicketGroupToQueue
<1>9. CASE CorrectionStep
  <2>1. ASSUME NEW r \in Rotations, NEW capacity, NEW K \in SUBSET GroupsAboard(r),
               NEW row \in OwnRows(GroupsAboard(r) \ K), SetRotationCapacity(r, capacity, K, row)
        PROVE  RowsInOrder'
    <3> DEFINE E == GroupsAboard(r) \ K
               R == {row[g] : g \in E}
    <3>1. IsFiniteSet(E)
      <4>1. Aboard(r) \in SUBSET Tickets
        BY DEF Aboard
      <4>2. IsFiniteSet(Aboard(r))
        BY <4>1, FS_Subset
      <4> DEFINE of == [t \in Aboard(r) |-> GroupOf[t]]
      <4>3. of \in Surjection(Aboard(r), GroupsAboard(r))
        BY DEF Surjection, GroupsAboard
      <4> HIDE DEF of
      <4>4. IsFiniteSet(GroupsAboard(r))
        BY <4>2, <4>3, FS_Surjection
      <4>5. E \in SUBSET GroupsAboard(r)
        OBVIOUS
      <4> QED  BY <4>4, <4>5, FS_Subset
    <3>2. /\ rotationState' = [q \in Rotations |-> IF \E g \in E : row[g] = q THEN "DRAFT"
                                                  ELSE IF q = r /\ K = {} THEN "CANCELED"
                                                  ELSE rotationState[q]]
          /\ rotationState[r] = "DRAFT"
      BY <2>1 DEF SetRotationCapacity, CapacityChangeAllowed
    <3> HIDE DEF E
    <3>3. \E n \in 0..MaxRotations :
            \A q \in Rotations : rotationState[q] # "FREE" \/ (\E g \in E : row[g] = q) <=> q <= n
      BY <3>1, OwnRowsFill DEF E
    <3>4. \E n \in 0..MaxRotations : \A q \in Rotations : rotationState[q] # "FREE" \/ q \in R <=> q <= n
      BY <3>3
    <3>5. \A q \in Rotations : rotationState'[q] # "FREE" <=> rotationState[q] # "FREE" \/ q \in R
      BY <3>2
    <3> HIDE DEF R
    <3> QED  BY <1>2, <3>4, <3>5
  <2>2. ASSUME NEW g \in Groups, NEW r \in Rotations, MoveTicketGroup(g, r) PROVE RowsInOrder'
    BY <1>1, <1>4, <2>2 DEF MoveTicketGroup
  <2>3. ASSUME NEW g \in Groups, NEW r \in Rotations, CorrectRotationManifest(g, r) PROVE RowsInOrder'
    BY <1>1, <2>3 DEF CorrectRotationManifest, rotationVars
  <2> QED  BY <1>9, <2>1, <2>2, <2>3 DEF CorrectionStep
<1>10. CASE FleetStep \/ UNCHANGED vars
  BY <1>1, <1>10 DEF FleetStep, SetAircraftOperationalState, SetPilotPause, AssignAircraftPilot,
     SetHalted, rotationVars, vars
<1> QED  BY <1>5, <1>6, <1>7, <1>8, <1>9, <1>10 DEF Next

LEMMA SplitsFit ==
  ASSUME RowsInOrder, NEW g \in Groups, Splits(g), \E a \in Aircraft : Seats[a] >= ReferenceCapacity
  PROVE  Cardinality(RotationsOf(g)') <= Parts(Cardinality(TicketsOf(g)), ReferenceCapacity)
<1> DEFINE n == Cardinality(TicketsOf(g))
<1>0. PICK capacity \in {EffectiveGroupCapacity, ReferenceCapacity} :
        \E slots \in Slottings(g, capacity) : \A t \in TicketsOf(g) : seat'[t] = slots[t]
  BY DEF Splits
<1>1. PICK slots \in Slottings(g, capacity) : \A t \in TicketsOf(g) : seat'[t] = slots[t]
  BY <1>0
<1>2. capacity \in Nat \ {0} /\ ReferenceCapacity <= capacity
  BY LargestAircraft
<1> DEFINE rows == {slots[t] : t \in TicketsOf(g)}
<1>3. IsFiniteSet(rows) /\ Cardinality(rows) <= Parts(n, capacity)
  BY <1>2, SlottingsFill
<1>5. RotationsOf(g)' \in SUBSET rows
  BY <1>1 DEF RotationsOf, TicketsOf
<1> HIDE DEF rows, n
<1>6. IsFiniteSet(RotationsOf(g)') /\ Cardinality(RotationsOf(g)') <= Cardinality(rows)
  BY <1>3, <1>5, FS_Subset
<1>7. Cardinality(rows) \in Nat /\ Cardinality(RotationsOf(g)') \in Nat
  BY <1>3, <1>6, FS_CardinalityType
<1>8. Parts(n, capacity) \in Nat /\ Parts(n, ReferenceCapacity) \in Nat
  BY <1>2, GroupSizes DEF n
<1>9. Parts(n, capacity) <= Parts(n, ReferenceCapacity)
  BY <1>2, GroupSizes, PartsFall DEF n
<1>10. Cardinality(RotationsOf(g)') <= Parts(n, ReferenceCapacity)
  BY <1>3, <1>6, <1>7, <1>8, <1>9
<1> QED  BY <1>10 DEF n

\* A booking group is never spread over more rotations than its size asks for, with every
\* command and for groups of every size, as long as one aircraft has the seats the product is
\* planned with: a sale splits by the largest aircraft there is, a deferral by the product.
THEOREM GroupsStayTogether ==
  ASSUME \E a \in Aircraft : Seats[a] >= ReferenceCapacity
  PROVE  Spec => []GroupsTogether
<1> DEFINE Inv == TypeOK /\ UnsoldSeatless /\ SeatsExist /\ RowsInOrder /\ GroupsTogether
<1>1. Init => Inv
  <2> SUFFICES ASSUME Init PROVE Inv
    OBVIOUS
  <2>1. TypeOK /\ \A t \in Tickets : seat[t] = NONE
    BY InitTyped DEF Init
  <2>2. UnsoldSeatless /\ SeatsExist
    BY <2>1 DEF UnsoldSeatless, SeatsExist
  <2>3. RowsInOrder
    <3>1. 0 \in 0..MaxRotations /\ \A r \in Rotations : rotationState[r] = "FREE" /\ ~(r <= 0)
      BY DEF Init, Rotations
    <3> QED  BY <3>1 DEF RowsInOrder
  <2>4. ASSUME NEW g \in Groups
        PROVE  Cardinality(RotationsOf(g)) <= Parts(Cardinality(TicketsOf(g)), ReferenceCapacity)
    <3>1. RotationsOf(g) = {}
      BY <2>1 DEF RotationsOf, TicketsOf
    <3> QED  BY <3>1, GroupSizes, FS_EmptySet
  <2> QED  BY <2>1, <2>2, <2>3, <2>4 DEF GroupsTogether
<1>2. Inv /\ [Next]_vars => Inv'
  <2> SUFFICES ASSUME Inv, [Next]_vars PROVE Inv'
    OBVIOUS
  <2>1. TypeOK' /\ UnsoldSeatless' /\ SeatsExist' /\ RowsInOrder'
    BY NextTyped, UnsoldStaySeatless, SeatsKeepExisting, RowsStayInOrder
  <2>2. ASSUME NEW g \in Groups
        PROVE  Cardinality(RotationsOf(g)') <= Parts(Cardinality(TicketsOf(g)), ReferenceCapacity)
    <3>1. CASE Splits(g)
      BY <3>1, SplitsFit
    <3>2. CASE Regroups(g)
      BY <3>2, RegroupKeeps, GroupSizes DEF GroupsTogether
    <3> QED  BY <3>1, <3>2, NextRegroups
  <2> QED  BY <2>1, <2>2 DEF GroupsTogether, RotationsOf, TicketsOf
<1>3. Inv => GroupsTogether
  OBVIOUS
<1> QED  BY <1>1, <1>2, <1>3, PTL DEF Spec
=============================================================================
