-------------------------- MODULE RotationRecovery --------------------------
(***************************************************************************)
(* REVOKE_CALL, ABORT_ROTATION and                                         *)
(* ABORT_ROTATION_TO_QUEUE_AND_MARK_AIRCRAFT_UNAVAILABLE:                  *)
(* RotationRecoveryCommandService.  What the two aborts do to              *)
(* queue_sequence, and when that fails, is in QueueOrder.                  *)
(***************************************************************************)
EXTENDS FlightRows

\* Back to DRAFT with no aircraft and no pilot; the tickets and groups aboard
\* wait again and the aircraft goes to the state "craft".
ReturnToQueue(r, craft) ==
  /\ rotationState' = [rotationState EXCEPT ![r] = "DRAFT"]
  /\ aircraftOf' = [aircraftOf EXCEPT ![r] = NONE]
  /\ pilotOf' = [pilotOf EXCEPT ![r] = NONE]
  /\ ticketState' = [t \in Tickets |-> IF t \in Aboard(r) THEN WaitingState(t) ELSE ticketState[t]]
  /\ groupState' = [g \in Groups |-> IF g \in GroupsAboard(r) THEN ReturnedState(g) ELSE groupState[g]]
  /\ aircraftState' = [a \in Aircraft |-> IF a = aircraftOf[r] THEN craft ELSE aircraftState[a]]
  /\ UNCHANGED <<usable, assignmentVars, checkedIn, deferrals, currentPilot, paused, halted>>

\* Mutant: the state of the rotation is not looked at.
RevokeCallAnyTime(r) ==
  /\ "REVOKE_CALL" \in Commands
  /\ Active(r) /\ r \in wasCalled
  /\ ReturnToQueue(r, "AVAILABLE")
  /\ UNCHANGED wasCalled

\* Within ten seconds of called_at, which stays set.  The clock is left out: the
\* window may be open or closed.
RevokeCall(r) ==
  /\ "REVOKE_CALL" \in Commands
  /\ rotationState[r] = "CALLED" /\ r \in wasCalled
  /\ ReturnToQueue(r, "AVAILABLE")
  /\ UNCHANGED wasCalled

\* Its row is found by an inner join with the tickets aboard.
AbortRotation(r) ==
  /\ "ABORT_ROTATION" \in Commands
  /\ rotationState[r] = "CALLED" /\ Aboard(r) # {}
  /\ ReturnToQueue(r, "AVAILABLE")
  /\ wasCalled' = wasCalled \ {r}

TechnicalAbort(r) ==
  /\ "ABORT_ROTATION_TO_QUEUE_AND_MARK_AIRCRAFT_UNAVAILABLE" \in Commands
  /\ rotationState[r] \in {"CALLED", "IN_FLIGHT"}
  /\ aircraftOf[r] # NONE /\ Aboard(r) # {}
  /\ ReturnToQueue(r, "INACTIVE")
  /\ wasCalled' = wasCalled \ {r}

-----------------------------------------------------------------------------
RecoveryStep ==
  \/ \E r \in Rotations : RevokeCall(r)
  \/ \E r \in Rotations : AbortRotation(r)
  \/ \E r \in Rotations : TechnicalAbort(r)
=============================================================================
