----------------------------- MODULE FlightDuty -----------------------------
(***************************************************************************)
(* What the operators of an event are promised of aircraft and pilots, with*)
(* no word of rotations, tickets or groups: an aircraft that is called     *)
(* stays with one pilot until it is back on the stand and its turnaround is*)
(* confirmed, and nobody flies two aircraft.                               *)
(***************************************************************************)
CONSTANTS Aircraft, Pilots, IdleStates, NONE

VARIABLES
  duty,   \* state of each aircraft
  crew    \* pilot of each aircraft on duty

vars == <<duty, crew>>

Unassigned(p) == \A a \in Aircraft : crew[a] # p

Init ==
  /\ duty \in [Aircraft -> IdleStates]
  /\ crew = [a \in Aircraft |-> NONE]

Board(a, p) ==
  /\ duty[a] = "AVAILABLE"
  /\ Unassigned(p)
  /\ duty' = [duty EXCEPT ![a] = "BOARDING"]
  /\ crew' = [crew EXCEPT ![a] = p]

ChangePilot(a, p) ==
  /\ duty[a] = "BOARDING"
  /\ Unassigned(p)
  /\ crew' = [crew EXCEPT ![a] = p]
  /\ UNCHANGED duty

Proceed(a, from, to) ==
  /\ duty[a] = from
  /\ duty' = [duty EXCEPT ![a] = to]
  /\ UNCHANGED crew

\* The turnaround is confirmed and the aircraft goes to one of the idle states.
Complete(a, s) ==
  /\ duty[a] = "LANDED"
  /\ duty' = [duty EXCEPT ![a] = s]
  /\ crew' = [crew EXCEPT ![a] = NONE]

\* Boarding ends without a flight, on every aircraft the passengers who leave
\* were boarding.
StandDown(A) ==
  /\ \A a \in A : duty[a] = "BOARDING"
  /\ duty' = [a \in Aircraft |-> IF a \in A THEN "AVAILABLE" ELSE duty[a]]
  /\ crew' = [a \in Aircraft |-> IF a \in A THEN NONE ELSE crew[a]]

\* Technical abort: out of service from boarding or from the air.
Ground(a) ==
  /\ duty[a] \in {"BOARDING", "IN_FLIGHT"}
  /\ duty' = [duty EXCEPT ![a] = "INACTIVE"]
  /\ crew' = [crew EXCEPT ![a] = NONE]

\* Fleet control moves an aircraft that is not on duty.
Service(a, s) ==
  /\ duty[a] \in IdleStates
  /\ duty' = [duty EXCEPT ![a] = s]
  /\ UNCHANGED crew

Next ==
  \/ \E a \in Aircraft, p \in Pilots : Board(a, p) \/ ChangePilot(a, p)
  \/ \E a \in Aircraft : Proceed(a, "BOARDING", "IN_FLIGHT") \/ Proceed(a, "IN_FLIGHT", "LANDED")
  \/ \E a \in Aircraft, s \in IdleStates : Complete(a, s) \/ Service(a, s)
  \/ \E A \in SUBSET Aircraft : StandDown(A)
  \/ \E a \in Aircraft : Ground(a)

Spec == Init /\ [][Next]_vars
=============================================================================
