----------------------------- MODULE QueueOrder -----------------------------
(***************************************************************************)
(* ticket_groups.queue_sequence, the place of a booking group in the queue *)
(* of its resource group, added to the rows of FlightOps.  Four handlers   *)
(* write it: a sale and a deferral append, the two aborts renumber so that *)
(* the groups they return come first.  UNIQUE (operation_day_id,           *)
(* product_id, queue_sequence) is checked row by row, and a batch that     *)
(* breaks it is rolled back.  One product.                                 *)
(***************************************************************************)
EXTENDS FlightOps

CONSTANT MaxSequence  \* bound: technical aborts push every number up for ever

ASSUME MaxSequenceAssumption == MaxSequence \in Nat

VARIABLE queueSequence  \* ticket_groups.queue_sequence, 0 before the sale

queueVars == <<vars, queueSequence>>

Sold == {g \in Groups : queueSequence[g] # 0}

\* Mutant: the table has no such constraint.
CommitsAlways(old, new) == TRUE

\* An UPDATE from "old" to "new" meets UNIQUE in whatever order it takes the
\* rows: a new number is neither that of a row to come nor of one already done.
Commits(old, new) ==
  \A g, h \in Sold : g # h => new[g] # old[h] /\ new[g] # new[h]

Write(new) ==
  /\ queueSequence' = new
  /\ \A g \in Groups : new[g] <= MaxSequence

\* Mutant: groups that do not wait are forgotten.
LastSequenceWaiting ==
  LET rows == {g \in Groups : groupState[g] \in {"QUEUED", "PRESENT"}}
  IN  CHOOSE n \in {queueSequence[g] : g \in rows} \cup {0} :
        \A g \in rows : queueSequence[g] <= n

\* COALESCE(MAX(queue_sequence), 0) of the resource group.
LastSequence ==
  CHOOSE n \in {queueSequence[g] : g \in Groups} \cup {0} :
    \A g \in Groups : queueSequence[g] <= n

AtEnd(g) == [queueSequence EXCEPT ![g] = LastSequence + 1]

\* No other row of the table has the number the group is given.
EndIsFree(g) == \A h \in Sold \ {g} : queueSequence[h] # AtEnd(g)[g]

-----------------------------------------------------------------------------
\* ABORT_ROTATION.  "front" is the one group its query (LIMIT 1) returns.

Offset == 100000

\* The groups the two shifting statements address.
MovesUp(front) == {g \in Sold \ {front} : groupState[g] = "QUEUED"}

Parked(front) ==
  [g \in Groups |-> IF g \in MovesUp(front) THEN queueSequence[g] + Offset ELSE queueSequence[g]]
Fronted(front) == [Parked(front) EXCEPT ![front] = 1]
Restored(front) ==
  [g \in Groups |-> IF g \in MovesUp(front) /\ Fronted(front)[g] >= Offset
                      THEN Fronted(front)[g] - (Offset - 1) ELSE Fronted(front)[g]]

AbortCommits(front) ==
  /\ Commits(queueSequence, Parked(front))
  /\ Commits(Parked(front), Fronted(front))
  /\ Commits(Fronted(front), Restored(front))
-----------------------------------------------------------------------------
\* ABORT_ROTATION_TO_QUEUE_AND_MARK_AIRCRAFT_UNAVAILABLE: everything is parked
\* above the highest number, the groups not in R come back n places lower, those
\* in R take 1..n in the order they had (planTechnicalRotationAbortQueueBlock).

ParkingOffset(R) == LastSequence + Cardinality(R) + 1

AllParked(R) ==
  [g \in Groups |-> IF g \in Sold THEN queueSequence[g] + ParkingOffset(R) ELSE queueSequence[g]]

OthersBack(R) ==
  [g \in Groups |-> IF g \in Sold \ R THEN AllParked(R)[g] - (ParkingOffset(R) - Cardinality(R))
                                       ELSE AllParked(R)[g]]

\* Mutant: the block is sorted the other way round.
RankReversed(R, g) == Cardinality({h \in R : queueSequence[h] >= queueSequence[g]})

Rank(R, g) == Cardinality({h \in R : queueSequence[h] <= queueSequence[g]})
BlockFirst(R) == [g \in Groups |-> IF g \in R THEN Rank(R, g) ELSE OthersBack(R)[g]]

TechnicalAbortCommits(R) ==
  /\ Commits(queueSequence, AllParked(R))
  /\ Commits(AllParked(R), OthersBack(R))
  /\ Commits(OthersBack(R), BlockFirst(R))

-----------------------------------------------------------------------------
QueueInit == Init /\ queueSequence = [g \in Groups |-> 0]

QueuedSale(g, slots) ==
  /\ SellTicketGroup(g, slots)
  /\ EndIsFree(g)
  /\ Write(AtEnd(g))

\* A group that needs clarification keeps its number.
QueuedDeferral(g) ==
  /\ DeferTicketGroup(g)
  /\ IF NeedsClarification(g) THEN UNCHANGED queueSequence
                             ELSE EndIsFree(g) /\ Write(AtEnd(g))

QueuedAbort(r, front) ==
  /\ AbortRotation(r)
  /\ AbortCommits(front)
  /\ Write(Restored(front))

QueuedTechnicalAbort(r) ==
  /\ TechnicalAbort(r)
  /\ TechnicalAbortCommits(GroupsAboard(r))
  /\ Write(BlockFirst(GroupsAboard(r)))

\* No other handler writes queue_sequence.
NumberKept ==
  /\ \/ TransitionStep
     \/ \E r \in Rotations : RevokeCall(r)
     \/ \E g \in Groups : CancelTicketGroup(g) \/ MarkNoShow(g)
     \/ AttendanceStep
     \/ CorrectionStep
     \/ FleetStep
  /\ UNCHANGED queueSequence

QueueNext ==
  \/ \E g \in Groups : \E slots \in Slottings(g, EffectiveGroupCapacity) : QueuedSale(g, slots)
  \/ \E g \in Groups : QueuedDeferral(g)
  \/ \E r \in Rotations : \E front \in GroupsAboard(r) : QueuedAbort(r, front)
  \/ \E r \in Rotations : QueuedTechnicalAbort(r)
  \/ NumberKept

QueueSpec == QueueInit /\ [][QueueNext]_queueVars

-----------------------------------------------------------------------------
\* Queue numbers are numbers.
QueueTypeOK == queueSequence \in [Groups -> Nat]

\* A group that waits for its first call: no part of it is called or in flight.
Waiting(g) ==
  /\ groupState[g] \in {"QUEUED", "PRESENT"}
  /\ \A r \in RotationsOf(g) : ~Active(r)

\* No sale, deferral or technical abort is ever rolled back by the UNIQUE
\* constraint on queue_sequence, whatever commands came before and in whatever
\* order the database takes the rows.
NumbersAlwaysFree ==
  /\ \A g \in Groups : EndIsFree(g)
  /\ \A r \in Rotations : rotationState[r] \in {"CALLED", "IN_FLIGHT"} =>
       TechnicalAbortCommits(GroupsAboard(r))

\* First come, first served: of two groups that wait before and after a command,
\* the later one does not overtake the earlier one, unless the earlier one was
\* deferred.
NoOvertaking ==
  [][\A g, h \in Groups :
       /\ Waiting(g) /\ Waiting(h) /\ queueSequence[g] < queueSequence[h]
       /\ Waiting(g)' /\ Waiting(h)' /\ deferrals'[g] = deferrals[g]
       => queueSequence'[g] < queueSequence'[h]]_queueVars

\* Nobody pays for a broken aircraft with their turn: all groups of a rotation
\* that is aborted technically precede every other group, in the order they had.
AbortedGoFirst ==
  [][\A r \in Rotations : TechnicalAbort(r) =>
       /\ \A g \in GroupsAboard(r), h \in Sold \ GroupsAboard(r) :
            queueSequence'[g] < queueSequence'[h]
       /\ \A g, h \in GroupsAboard(r) :
            queueSequence[g] < queueSequence[h] => queueSequence'[g] < queueSequence'[h]]_queueVars
=============================================================================
