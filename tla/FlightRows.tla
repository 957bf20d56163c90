----------------------------- MODULE FlightRows -----------------------------
(***************************************************************************)
(* The D1 rows the flight-line commands of one event read and write        *)
(* (apps/worker/migrations/0001_v1_12_baseline.sql), for one product and   *)
(* one resource group: rotations, rotation_tickets, tickets, ticket_groups,*)
(* aircraft with their membership, and pilots.                             *)
(*                                                                         *)
(* Every command handler of the event coordinator reads these rows,        *)
(* decides, and writes them in ONE D1 batch, with the next handler queued  *)
(* behind it; so each handler is one action.  A batch that would break a   *)
(* database constraint is rolled back as a whole, which is no step.        *)
(***************************************************************************)
EXTENDS Integers, FiniteSets

CONSTANTS
  Commands,          \* the command types issued in this model, as strings
  Aircraft, Pilots,
  Seats,             \* aircraft.passenger_seats
  Groups, Tickets,   \* booking groups and their tickets
  GroupOf,           \* tickets.ticket_group_id
  MaxRotations,      \* bound: rotation rows one behaviour may create
  ReferenceCapacity, \* products.reference_capacity
  MaxDeferrals,      \* operation_days.max_ticket_deferrals
  NONE               \* SQL NULL

ASSUME SeatsAssumption ==
  /\ Seats \in [Aircraft -> Nat \ {0}]
  /\ ReferenceCapacity \in Nat \ {0}
ASSUME PopulationAssumption ==
  /\ IsFiniteSet(Aircraft) /\ IsFiniteSet(Pilots) /\ IsFiniteSet(Tickets)
  /\ Aircraft # {}
  /\ GroupOf \in [Tickets -> Groups]
ASSUME BoundAssumption == MaxRotations \in Nat /\ MaxDeferrals \in Nat
ASSUME NoneAssumption ==
  NONE \notin (Aircraft \cup Pilots \cup (1..MaxRotations))

VARIABLES
  rotationState,  \* rotations.status; "FREE" is a row that does not exist yet
  aircraftOf,     \* rotations.aircraft_id
  pilotOf,        \* rotations.pilot_id
  wasCalled,      \* rotations whose called_at is set
  usable,         \* rotations.usable_capacity, 0 for NULL
  seat,           \* rotation of the ticket's rotation_tickets row not released
  released,       \* rotations a released rotation_tickets row still names
  ticketState,    \* tickets.status; "UNSOLD" before the sale
  checkedIn,      \* tickets with attendance_status = 'CHECKED_IN'
  groupState,     \* ticket_groups.status; "UNSOLD" before the sale
  deferrals,      \* ticket_groups.deferral_count
  aircraftState,  \* aircraft.operational_state
  currentPilot,   \* resource_group_memberships.current_pilot_id
  paused,         \* pilots that are paused
  halted          \* event not ACTIVE, in emergency mode or interrupted

rotationVars   == <<rotationState, aircraftOf, pilotOf, wasCalled, usable>>
assignmentVars == <<seat, released>>
ticketVars     == <<ticketState, checkedIn>>
groupVars      == <<groupState, deferrals>>
fleetVars      == <<aircraftState, currentPilot, paused>>
vars == <<rotationVars, assignmentVars, ticketVars, groupVars, fleetVars, halted>>

-----------------------------------------------------------------------------
Rotations == 1..MaxRotations

RotationStates ==
  {"FREE", "DRAFT", "CALLED", "IN_FLIGHT", "LANDED", "COMPLETED", "CANCELED"}
TicketStates ==
  {"UNSOLD", "QUEUED", "CHECKED_IN", "CALLED", "BOARDING", "IN_FLIGHT",
   "LANDED", "COMPLETED", "NO_SHOW", "CLARIFICATION", "CANCELED"}
GroupStates ==
  {"UNSOLD", "QUEUED", "PRESENT", "MISSING", "CALLED", "BOARDING", "IN_FLIGHT",
   "LANDED", "COMPLETED", "NO_SHOW", "CLARIFICATION", "CANCELED"}
IdleStates     == {"AVAILABLE", "REFUELING", "PAUSED", "INACTIVE"}
AircraftStates == IdleStates \cup {"BOARDING", "IN_FLIGHT", "LANDED", "TURNAROUND"}

\* The statuses the handlers look for in "an active rotation".
ActiveStates   == {"CALLED", "IN_FLIGHT", "LANDED"}
DepartedStates == {"IN_FLIGHT", "LANDED", "COMPLETED"}

Active(r)      == rotationState[r] \in ActiveStates
TicketsOf(g)   == {t \in Tickets : GroupOf[t] = g}
Aboard(r)      == {t \in Tickets : seat[t] = r}
GroupsAboard(r) == {GroupOf[t] : t \in Aboard(r)}
RotationsOf(g) == {seat[t] : t \in TicketsOf(g)} \ {NONE}

\* Mutant: rotation_group_count is not looked at.
EmptiedByAny(g) == RotationsOf(g)

\* Rotations that hold no group but g: releasing g empties them.
EmptiedBy(g) == {r \in RotationsOf(g) : GroupsAboard(r) = {g}}

-----------------------------------------------------------------------------
\* Pieces of the batches that several handlers share.

\* The next k rotation rows, for INSERT INTO rotations.
NewRows(k) ==
  LET existing == {r \in Rotations : rotationState[r] # "FREE"}
  IN  {r \in Rotations \ existing : r <= Cardinality(existing) + k}

\* planBookingGroupSplit: a group of n fills ceil(n / capacity) rows, every row
\* but the last up to the capacity.
Parts(n, capacity) == (n + capacity - 1) \div capacity

\* Mutant: one seat of every row is kept free.
SlottingsShort(g, capacity) ==
  LET parts == Parts(Cardinality(TicketsOf(g)), capacity - 1)
      rows  == NewRows(parts)
      Load(s, r) == Cardinality({t \in TicketsOf(g) : s[t] = r})
  IN  IF Cardinality(rows) < parts THEN {}
      ELSE {s \in [TicketsOf(g) -> rows] :
              /\ \A r \in rows : Load(s, r) \in 1..(capacity - 1)
              /\ \A r, q \in rows : r < q => Load(s, r) = capacity - 1}

Slottings(g, capacity) ==
  LET parts == Parts(Cardinality(TicketsOf(g)), capacity)
      rows  == NewRows(parts)
      Load(s, r) == Cardinality({t \in TicketsOf(g) : s[t] = r})
  IN  IF Cardinality(rows) < parts THEN {}   \* bound: MaxRotations
      ELSE {s \in [TicketsOf(g) -> rows] :
              /\ \A r \in rows : Load(s, r) \in 1..capacity
              /\ \A r, q \in rows : r < q => Load(s, r) = capacity}

\* UPDATE aircraft SET operational_state = 'AVAILABLE' for the aircraft_id of
\* each rotation of R that has one.
FreeAircraftOf(R) ==
  LET freed == {aircraftOf[r] : r \in R}
  IN  [a \in Aircraft |-> IF a \in freed THEN "AVAILABLE" ELSE aircraftState[a]]

\* tickets.status of a ticket put back before its rotation was called.
WaitingState(t) == IF t \in checkedIn THEN "CHECKED_IN" ELSE "QUEUED"

\* Mutant: the status of a ticket is written to the group.
ReturnedStateOfTicket(g) ==
  IF TicketsOf(g) \cap checkedIn # {} THEN "CHECKED_IN" ELSE "QUEUED"

\* ticket_groups.status of a group that leaves a call: PRESENT as soon as one
\* of ALL its tickets is checked in.
ReturnedState(g) ==
  IF TicketsOf(g) \cap checkedIn # {} THEN "PRESENT" ELSE "QUEUED"

\* INSERT INTO rotation_tickets (rotation r, ticket t) meets no row with that
\* primary key; the row of a released assignment still counts.
Insertable(t, r) == r # seat[t] /\ r \notin released[t]

\* UPDATE rotation_tickets SET released_at for the tickets of T.
Release(T) ==
  released' = [t \in Tickets |->
                 IF t \in T /\ seat[t] # NONE THEN released[t] \cup {seat[t]}
                                              ELSE released[t]]

-----------------------------------------------------------------------------
\* A prepared event: aircraft and pilots exist, nothing is sold yet.
Init ==
  /\ rotationState = [r \in Rotations |-> "FREE"]
  /\ aircraftOf = [r \in Rotations |-> NONE]
  /\ pilotOf = [r \in Rotations |-> NONE]
  /\ wasCalled = {}
  /\ usable = [r \in Rotations |-> 0]
  /\ seat = [t \in Tickets |-> NONE]
  /\ released = [t \in Tickets |-> {}]
  /\ ticketState = [t \in Tickets |-> "UNSOLD"]
  /\ checkedIn = {}
  /\ groupState = [g \in Groups |-> "UNSOLD"]
  /\ deferrals = [g \in Groups |-> 0]
  /\ aircraftState = [a \in Aircraft |-> "AVAILABLE"]
  /\ currentPilot = [a \in Aircraft |-> NONE]
  /\ paused = {}
  /\ halted = FALSE
=============================================================================
