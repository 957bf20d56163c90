-------------------------- MODULE QueueOrderProofs --------------------------
(***************************************************************************)
(* What QueueOrder guarantees for every number of groups and for every     *)
(* length of a day: queue_sequence never stops a command other than the    *)
(* plain abort, and the queue stays first come, first served.              *)
(***************************************************************************)
EXTENDS QueueOrder, FlightOpsProofs, FiniteSetTheorems, WellFoundedInduction

USE SeatsAssumption, PopulationAssumption, BoundAssumption, NoneAssumption, MaxSequenceAssumption

\* No two groups have the same number.
Distinct ==
  \A g, h \in Groups : g # h /\ queueSequence[g] = queueSequence[h] => queueSequence[g] = 0
\* Who has a seat was sold.
SeatedSold == \A t \in Tickets : seat[t] # NONE => queueSequence[GroupOf[t]] # 0
Bounded == \A g \in Groups : queueSequence[g] <= MaxSequence

QueueInv == TypeOK /\ QueueTypeOK /\ Distinct /\ SeatedSold /\ Bounded

-----------------------------------------------------------------------------
\* The operators.

LEMMA LastSequenceIsMaximum ==
  ASSUME QueueTypeOK, Bounded
  PROVE  LastSequence \in Nat /\ \A g \in Groups : queueSequence[g] <= LastSequence
<1> DEFINE bounds == {n \in Nat : \A g \in Groups : queueSequence[g] <= n}
           numbers == {queueSequence[g] : g \in Groups} \cup {0}
<1>1. MaxSequence \in bounds
  BY DEF Bounded
<1>2. PICK least \in bounds : \A n \in bounds : ~ (<<n, least>> \in OpToRel(<, Nat))
  BY <1>1, NatLessThanWellFounded, WFMin
<1>3. \A n \in Nat : n < least => n \notin bounds
  <2>1. ASSUME NEW n \in Nat, n < least PROVE <<n, least>> \in OpToRel(<, Nat)
    BY <2>1 DEF OpToRel
  <2> QED  BY <1>2, <2>1
<1>4. least \in numbers
  <2>1. CASE least = 0
    BY <2>1
  <2>2. CASE least # 0
    <3>1. least - 1 \in Nat /\ least - 1 < least
      BY <2>2
    <3>2. PICK g \in Groups : ~ (queueSequence[g] <= least - 1)
      BY <1>3, <3>1
    <3>3. queueSequence[g] = least
      BY <3>1, <3>2 DEF QueueTypeOK
    <3> QED  BY <3>3
  <2> QED  BY <2>1, <2>2
<1>5. \E n \in numbers : \A g \in Groups : queueSequence[g] <= n
  BY <1>4
<1>6. LastSequence \in numbers /\ \A g \in Groups : queueSequence[g] <= LastSequence
  BY <1>5 DEF LastSequence
<1> QED  BY <1>6 DEF QueueTypeOK

LEMMA AboardIsFinite ==
  ASSUME NEW r
  PROVE  /\ GroupsAboard(r) \subseteq Groups
         /\ IsFiniteSet(GroupsAboard(r))
         /\ Cardinality(GroupsAboard(r)) \in Nat
<1> DEFINE group == [t \in Aboard(r) |-> GroupOf[t]]
<1>1. IsFiniteSet(Aboard(r))
  BY FS_Subset DEF Aboard
<1>2. group \in Surjection(Aboard(r), GroupsAboard(r))
  BY DEF Surjection, GroupsAboard
<1>3. IsFiniteSet(GroupsAboard(r))
  BY <1>1, <1>2, FS_Surjection
<1>4. GroupsAboard(r) \subseteq Groups
  BY DEF GroupsAboard, Aboard
<1>5. Cardinality(GroupsAboard(r)) \in Nat
  BY <1>3, FS_CardinalityType
<1> QED  BY <1>3, <1>4, <1>5

\* The ranks of a set of groups are 1..n, in the order of their numbers.
LEMMA RankOrders ==
  ASSUME QueueTypeOK, NEW R \in SUBSET Groups, IsFiniteSet(R)
  PROVE  /\ \A g \in R : Rank(R, g) \in 1..Cardinality(R)
         /\ \A g, h \in R : queueSequence[g] < queueSequence[h] => Rank(R, g) < Rank(R, h)
<1> DEFINE upTo(g) == {h \in R : queueSequence[h] <= queueSequence[g]}
<1>1. ASSUME NEW g \in R
      PROVE  /\ g \in upTo(g) /\ IsFiniteSet(upTo(g))
             /\ Rank(R, g) \in Nat /\ Rank(R, g) <= Cardinality(R) /\ Rank(R, g) # 0
  <2>1. g \in upTo(g) /\ upTo(g) \in SUBSET R
    BY <1>1 DEF QueueTypeOK
  <2>2. IsFiniteSet(upTo(g)) /\ Cardinality(upTo(g)) <= Cardinality(R)
    BY <2>1, FS_Subset
  <2>3. Cardinality(upTo(g)) \in Nat /\ Cardinality(upTo(g)) # 0
    BY <2>1, <2>2, FS_CardinalityType, FS_EmptySet
  <2> QED  BY <2>1, <2>2, <2>3 DEF Rank
<1>2. ASSUME NEW g \in R, NEW h \in R, queueSequence[g] < queueSequence[h]
      PROVE  Rank(R, g) < Rank(R, h)
  <2>1. upTo(g) \in SUBSET upTo(h) /\ h \notin upTo(g)
    BY <1>2 DEF QueueTypeOK
  <2>2. Cardinality(upTo(g)) <= Cardinality(upTo(h)) /\ Cardinality(upTo(g)) # Cardinality(upTo(h))
    BY <1>1, <2>1, FS_Subset
  <2> QED  BY <1>1, <2>2 DEF Rank
<1>3. Cardinality(R) \in Nat
  BY FS_CardinalityType
<1>4. \A g \in R : Rank(R, g) \in 1..Cardinality(R)
  <2> HIDE DEF upTo
  <2> QED  BY <1>1, <1>3
<1> QED  BY <1>2, <1>4

\* What the three statements of the technical abort make of each number.
LEMMA TechnicalNumbers ==
  ASSUME QueueTypeOK, Bounded, NEW R \in SUBSET Sold, Cardinality(R) \in Nat, NEW g \in Sold
  PROVE  /\ AllParked(R)[g] = queueSequence[g] + LastSequence + Cardinality(R) + 1
         /\ g \in R => OthersBack(R)[g] = AllParked(R)[g] /\ BlockFirst(R)[g] = Rank(R, g)
         /\ g \notin R => /\ OthersBack(R)[g] = queueSequence[g] + Cardinality(R)
                          /\ BlockFirst(R)[g] = queueSequence[g] + Cardinality(R)
         /\ queueSequence[g] \in Nat \ {0} /\ queueSequence[g] <= LastSequence
<1>1. LastSequence \in Nat /\ queueSequence[g] \in Nat \ {0} /\ queueSequence[g] <= LastSequence
  BY LastSequenceIsMaximum DEF QueueTypeOK, Sold
<1> HIDE DEF Rank
<1> QED  BY <1>1 DEF AllParked, OthersBack, BlockFirst, ParkingOffset, Sold

LEMMA TechnicalAbortNeverFails ==
  ASSUME QueueTypeOK, Bounded, Distinct, NEW R \in SUBSET Sold, IsFiniteSet(R)
  PROVE  TechnicalAbortCommits(R)
<1> DEFINE n == Cardinality(R)
           P == LastSequence + n + 1
<1>1. n \in Nat /\ LastSequence \in Nat
  BY FS_CardinalityType, LastSequenceIsMaximum
<1>2. \A g \in R : Rank(R, g) \in 1..n
  BY RankOrders DEF Sold
<1>3. ASSUME NEW g \in Sold, NEW h \in Sold, g # h
      PROVE  /\ queueSequence[g] # queueSequence[h]
             /\ g \in R /\ h \in R => Rank(R, g) # Rank(R, h)
  <2>1. queueSequence[g] # queueSequence[h]
    BY <1>3 DEF Distinct, Sold
  <2>2. CASE g \in R /\ h \in R
    <3>1. queueSequence[g] < queueSequence[h] \/ queueSequence[h] < queueSequence[g]
      BY <2>1 DEF QueueTypeOK, Sold
    <3> QED  BY <1>2, <2>1, <2>2, <3>1, RankOrders DEF Sold
  <2> QED  BY <2>1, <2>2
<1>4. Commits(queueSequence, AllParked(R))
  BY <1>1, <1>3, TechnicalNumbers DEF Commits
<1>5. Commits(AllParked(R), OthersBack(R))
  <2> SUFFICES ASSUME NEW g \in Sold, NEW h \in Sold, g # h
               PROVE  OthersBack(R)[g] # AllParked(R)[h] /\ OthersBack(R)[g] # OthersBack(R)[h]
    BY DEF Commits
  <2> QED  BY <1>1, <1>3, TechnicalNumbers
<1>6. Commits(OthersBack(R), BlockFirst(R))
  <2> SUFFICES ASSUME NEW g \in Sold, NEW h \in Sold, g # h
               PROVE  BlockFirst(R)[g] # OthersBack(R)[h] /\ BlockFirst(R)[g] # BlockFirst(R)[h]
    BY DEF Commits
  <2> QED  BY <1>1, <1>2, <1>3, TechnicalNumbers
<1> QED  BY <1>4, <1>5, <1>6 DEF TechnicalAbortCommits
\* What ABORT_ROTATION makes of each number.
LEMMA AbortNumbers ==
  ASSUME QueueTypeOK, NEW front \in Sold, NEW g \in Groups
  PROVE  /\ g = front => Restored(front)[g] = 1
         /\ g # front /\ g \in Sold /\ groupState[g] = "QUEUED"
              => Restored(front)[g] = queueSequence[g] + 1
         /\ g # front /\ ~(g \in Sold /\ groupState[g] = "QUEUED")
              => Restored(front)[g] = queueSequence[g]
         /\ Restored(front)[g] \in Nat
<1>1. queueSequence[g] \in Nat /\ front \in Groups
  BY DEF QueueTypeOK, Sold
<1> QED  BY <1>1 DEF Restored, Fronted, Parked, MovesUp, Offset

-----------------------------------------------------------------------------
\* The steps.

LEMMA QueueNextIsNext ==
  QueueNext => Next
<1>1. NumberKept => Next
  BY DEF NumberKept, Next, RecoveryStep, TicketDeskStep
<1>2. ASSUME NEW g \in Groups, NEW slots \in Slottings(g, EffectiveGroupCapacity),
             QueuedSale(g, slots)
      PROVE  Next
  BY <1>2 DEF QueuedSale, Next, TicketDeskStep
<1>3. ASSUME NEW g \in Groups, QueuedDeferral(g) PROVE Next
  BY <1>3 DEF QueuedDeferral, Next, TicketDeskStep
<1>4. ASSUME NEW r \in Rotations, NEW front \in GroupsAboard(r), QueuedAbort(r, front) PROVE Next
  BY <1>4 DEF QueuedAbort, Next, RecoveryStep
<1>5. ASSUME NEW r \in Rotations, QueuedTechnicalAbort(r) PROVE Next
  BY <1>5 DEF QueuedTechnicalAbort, Next, RecoveryStep
<1> QED  BY <1>1, <1>2, <1>3, <1>4, <1>5 DEF QueueNext

\* Only a sale and a deferral seat a group that had no seat at all.
LEMMA NumberKeptSeats ==
  ASSUME TypeOK, NumberKept, NEW t \in Tickets, seat'[t] # NONE
  PROVE  \E u \in Tickets : GroupOf[u] = GroupOf[t] /\ seat[u] # NONE
<1>1. CASE seat'[t] = seat[t]
  BY <1>1
<1>2. ASSUME NEW G \in SUBSET Groups \ {{}}, NEW segment \in Segments(G), NEW primary \in G,
             NEW a \in Aircraft, NEW p \in Pilots, CallNext(G, segment, primary, a, p)
      PROVE  seat'[t] = seat[t] \/ seat[t] # NONE
  <2>1. \A g \in G : segment[g] # NONE
    BY DEF Segments, Rotations
  <2>2. t \in Passengers(G, segment) => seat[t] # NONE
    BY <2>1 DEF Passengers
  <2> QED  BY <1>2, <2>2 DEF CallNext
<1>3. ASSUME NEW r \in Rotations,
             MarkOffBlock(r) \/ MarkOnBlock(r) \/ CancelRotation(r)
               \/ \E s \in IdleStates : CompleteTurnaround(r, s)
      PROVE  seat' = seat
  BY <1>3 DEF MarkOffBlock, MarkOnBlock, CancelRotation, CompleteTurnaround, Transition,
     assignmentVars
<1>4. TransitionStep => seat'[t] = seat[t] \/ seat[t] # NONE
  BY <1>2, <1>3 DEF TransitionStep
<1>5. ASSUME NEW r \in Rotations, RevokeCall(r) PROVE seat' = seat
  BY <1>5 DEF RevokeCall, ReturnToQueue, assignmentVars
<1>6. ASSUME NEW g \in Groups, CancelTicketGroup(g) \/ MarkNoShow(g) PROVE seat'[t] = seat[t]
  BY <1>6 DEF CancelTicketGroup, MarkNoShow, EndGroup
<1>7. AttendanceStep => seat'[t] = seat[t]
  BY DEF AttendanceStep, SetTicketAttendance, SetTicketGroupAttendance, MarkTicketGroupMissing,
     RestoreTicketGroupToQueue, MarkTicketNoShow, assignmentVars, TypeOK
<1>8. ASSUME CorrectionStep PROVE \E u \in Tickets : GroupOf[u] = GroupOf[t] /\ seat[u] # NONE
  <2>1. ASSUME NEW r \in Rotations, NEW capacity, NEW K \in SUBSET GroupsAboard(r),
               NEW row \in OwnRows(GroupsAboard(r) \ K), SetRotationCapacity(r, capacity, K, row)
        PROVE  seat'[t] = seat[t] \/ seat[t] # NONE
    BY <2>1 DEF SetRotationCapacity, Aboard, Rotations
  <2>2. ASSUME NEW g \in Groups, NEW r \in Rotations, MoveTicketGroup(g, r)
        PROVE  seat'[t] = seat[t] \/ \E u \in Tickets : GroupOf[u] = GroupOf[t] /\ seat[u] # NONE
    <3>1. \E u \in TicketsOf(g) : seat[u] # NONE
      BY <2>2 DEF MoveTicketGroup, MoveAllowed, RotationsOf
    <3> QED  BY <2>2, <3>1 DEF MoveTicketGroup, TicketsOf
  <2>3. ASSUME NEW g \in Groups, NEW r \in Rotations, CorrectRotationManifest(g, r)
        PROVE  seat'[t] = seat[t] \/ seat[t] # NONE
    BY <2>3 DEF CorrectRotationManifest, TicketsOf
  <2> QED  BY <1>8, <1>1, <2>1, <2>2, <2>3 DEF CorrectionStep
<1>9. FleetStep => seat' = seat
  BY DEF FleetStep, SetAircraftOperationalState, SetPilotPause, AssignAircraftPilot, SetHalted,
     assignmentVars
<1> QED  BY <1>1, <1>4, <1>5, <1>6, <1>7, <1>8, <1>9 DEF NumberKept
-----------------------------------------------------------------------------
\* The invariant.

\* The numbers after a step, as far as the invariant needs them.
NumbersKeepShape ==
  /\ QueueTypeOK' /\ Distinct'
  /\ \A g \in Sold : queueSequence'[g] # 0

LEMMA AppendKeepsShape ==
  ASSUME QueueInv, NEW g \in Groups, Write(AtEnd(g))
  PROVE  NumbersKeepShape /\ queueSequence'[g] # 0
<1>1. LastSequence \in Nat /\ \A h \in Groups : queueSequence[h] <= LastSequence
  BY LastSequenceIsMaximum DEF QueueInv
<1>2. queueSequence' = [queueSequence EXCEPT ![g] = LastSequence + 1]
  BY DEF Write, AtEnd
<1>3. QueueTypeOK'
  BY <1>1, <1>2 DEF QueueInv, QueueTypeOK
<1>4. Distinct'
  BY <1>1, <1>2 DEF QueueInv, QueueTypeOK, Distinct
<1> QED  BY <1>1, <1>2, <1>3, <1>4 DEF NumbersKeepShape, QueueInv, QueueTypeOK, Sold

LEMMA AbortKeepsShape ==
  ASSUME QueueInv, NEW front \in Sold, AbortCommits(front), Write(Restored(front))
  PROVE  NumbersKeepShape
<1>1. queueSequence' = Restored(front) /\ Restored(front) = [g \in Groups |-> Restored(front)[g]]
  BY DEF Write, Restored
<1>2. QueueTypeOK'
  BY <1>1, AbortNumbers DEF QueueInv, QueueTypeOK
<1>3. ASSUME NEW g \in Groups, g \notin Sold PROVE queueSequence'[g] = 0
  BY <1>1, <1>3, AbortNumbers DEF QueueInv, Sold
<1>4. ASSUME NEW g \in Sold PROVE queueSequence'[g] # 0
  <2>1. g \in Groups /\ queueSequence[g] \in Nat \ {0}
    BY DEF Sold, QueueInv, QueueTypeOK
  <2>2. Restored(front)[g] \in {1, queueSequence[g] + 1, queueSequence[g]}
    BY <2>1, AbortNumbers DEF QueueInv
  <2> QED  BY <1>1, <2>1, <2>2
<1>5. \A g, h \in Sold : g # h => queueSequence'[g] # queueSequence'[h]
  BY <1>1 DEF AbortCommits, Commits
<1> QED  BY <1>2, <1>3, <1>4, <1>5 DEF NumbersKeepShape, Distinct

LEMMA AboardAreSold ==
  ASSUME QueueInv, NEW r \in Rotations
  PROVE  GroupsAboard(r) \in SUBSET Sold
<1>1. r # NONE
  BY DEF Rotations
<1> QED  BY <1>1 DEF QueueInv, SeatedSold, GroupsAboard, Aboard, Sold

LEMMA TechnicalAbortKeepsShape ==
  ASSUME QueueInv, NEW r \in Rotations, TechnicalAbortCommits(GroupsAboard(r)),
         Write(BlockFirst(GroupsAboard(r)))
  PROVE  NumbersKeepShape
<1> DEFINE R == GroupsAboard(r)
<1>1. R \in SUBSET Sold /\ IsFiniteSet(R) /\ Cardinality(R) \in Nat
  BY AboardAreSold, AboardIsFinite
<1> HIDE DEF R
<1>2. queueSequence' = BlockFirst(R) /\ BlockFirst(R) = [g \in Groups |-> BlockFirst(R)[g]]
  BY DEF Write, BlockFirst, R
<1>3. ASSUME NEW g \in Groups, g \notin Sold PROVE queueSequence'[g] = 0
  BY <1>1, <1>2, <1>3 DEF BlockFirst, OthersBack, AllParked, Sold
<1>4. ASSUME NEW g \in Sold PROVE queueSequence'[g] \in Nat \ {0}
  <2>1. CASE g \in R
    <3>1. Rank(R, g) \in 1..Cardinality(R)
      BY <1>1, <2>1, RankOrders DEF QueueInv, Sold
    <3> QED  BY <1>1, <1>2, <2>1, <3>1, TechnicalNumbers DEF QueueInv
  <2>2. CASE g \notin R
    BY <1>1, <1>2, <2>2, TechnicalNumbers DEF QueueInv
  <2> QED  BY <2>1, <2>2
<1>5. \A g, h \in Sold : g # h => queueSequence'[g] # queueSequence'[h]
  BY <1>2 DEF TechnicalAbortCommits, Commits, R
<1>6. QueueTypeOK'
  BY <1>2, <1>3, <1>4 DEF QueueTypeOK
<1> QED  BY <1>3, <1>4, <1>5, <1>6 DEF NumbersKeepShape, Distinct

LEMMA SeatedStaySold ==
  ASSUME QueueInv, QueueNext
  PROVE  NumbersKeepShape /\ SeatedSold' /\ Bounded'
<1>1. ASSUME NumbersKeepShape, NEW g \in Groups, queueSequence'[g] # 0,
             \A t \in Tickets : GroupOf[t] # g => seat'[t] = seat[t]
      PROVE  SeatedSold'
  BY <1>1 DEF NumbersKeepShape, SeatedSold, Sold, QueueInv
<1>2. ASSUME NumbersKeepShape, seat' = seat PROVE SeatedSold'
  BY <1>2 DEF NumbersKeepShape, SeatedSold, Sold, QueueInv
<1>3. ASSUME NEW new, Write(new) PROVE Bounded'
  BY <1>3 DEF Write, Bounded
<1>4. ASSUME NEW g \in Groups, NEW slots \in Slottings(g, EffectiveGroupCapacity),
             QueuedSale(g, slots)
      PROVE  NumbersKeepShape /\ SeatedSold' /\ Bounded'
  <2>1. NumbersKeepShape /\ queueSequence'[g] # 0
    BY <1>4, AppendKeepsShape DEF QueuedSale
  <2>2. \A t \in Tickets : GroupOf[t] # g => seat'[t] = seat[t]
    BY <1>4 DEF QueuedSale, SellTicketGroup, SeatInNewRotations
  <2> QED  BY <1>1, <1>3, <1>4, <2>1, <2>2 DEF QueuedSale
<1>5. ASSUME UNCHANGED queueSequence PROVE NumbersKeepShape /\ Bounded'
  BY <1>5 DEF NumbersKeepShape, QueueInv, QueueTypeOK, Distinct, Bounded, Sold
<1>6. ASSUME NEW g \in Groups, QueuedDeferral(g)
      PROVE  NumbersKeepShape /\ SeatedSold' /\ Bounded'
  <2>1. CASE NeedsClarification(g)
    <3>1. UNCHANGED queueSequence /\ EndGroup(g, "CLARIFICATION")
      BY <1>6, <2>1 DEF QueuedDeferral, DeferTicketGroup
    <3>2. \A t \in Tickets : seat'[t] = seat[t] \/ seat'[t] = NONE
      BY <3>1 DEF EndGroup
    <3> QED  BY <1>5, <3>1, <3>2 DEF SeatedSold, QueueInv
  <2>2. CASE ~NeedsClarification(g)
    <3>1. Write(AtEnd(g))
      BY <1>6, <2>2 DEF QueuedDeferral
    <3>2. \A t \in Tickets : GroupOf[t] # g => seat'[t] = seat[t]
      BY <1>6, <2>2 DEF QueuedDeferral, DeferTicketGroup, SeatInNewRotations
    <3> QED  BY <1>1, <1>3, <3>1, <3>2, AppendKeepsShape
  <2> QED  BY <2>1, <2>2
<1>7. ASSUME NEW r \in Rotations, NEW front \in GroupsAboard(r), QueuedAbort(r, front)
      PROVE  NumbersKeepShape /\ SeatedSold' /\ Bounded'
  <2>1. NumbersKeepShape
    BY <1>7, AboardAreSold, AbortKeepsShape DEF QueuedAbort
  <2>2. seat' = seat
    BY <1>7 DEF QueuedAbort, AbortRotation, ReturnToQueue, assignmentVars
  <2> QED  BY <1>2, <1>3, <1>7, <2>1, <2>2 DEF QueuedAbort
<1>8. ASSUME NEW r \in Rotations, QueuedTechnicalAbort(r)
      PROVE  NumbersKeepShape /\ SeatedSold' /\ Bounded'
  <2>1. NumbersKeepShape
    BY <1>8, TechnicalAbortKeepsShape DEF QueuedTechnicalAbort
  <2>2. seat' = seat
    BY <1>8 DEF QueuedTechnicalAbort, TechnicalAbort, ReturnToQueue, assignmentVars
  <2> QED  BY <1>2, <1>3, <1>8, <2>1, <2>2 DEF QueuedTechnicalAbort
<1>9. ASSUME NumberKept PROVE NumbersKeepShape /\ SeatedSold' /\ Bounded'
  <2>1. UNCHANGED queueSequence
    BY <1>9 DEF NumberKept
  <2>2. \A t \in Tickets : seat'[t] # NONE => queueSequence[GroupOf[t]] # 0
    BY <1>9, NumberKeptSeats DEF QueueInv, SeatedSold
  <2> QED  BY <1>5, <2>1, <2>2 DEF SeatedSold
<1> QED  BY <1>4, <1>6, <1>7, <1>8, <1>9 DEF QueueNext

LEMMA QueueInvHolds == QueueSpec => []QueueInv
<1>1. QueueInit => QueueInv
  <2> SUFFICES ASSUME QueueInit PROVE QueueInv
    OBVIOUS
  <2>1. \A t \in Tickets : seat[t] = NONE
    BY DEF QueueInit, Init
  <2>2. \A g \in Groups : queueSequence[g] = 0
    BY DEF QueueInit
  <2>3. QueueTypeOK
    BY DEF QueueInit, QueueTypeOK
  <2> QED
    BY <2>1, <2>2, <2>3, InitTyped DEF QueueInit, QueueInv, Distinct, SeatedSold, Bounded
<1>2. QueueInv /\ [QueueNext]_queueVars => QueueInv'
  <2>1. QueueInv /\ QueueNext => QueueInv'
    BY QueueNextIsNext, NextTyped, SeatedStaySold DEF QueueInv, NumbersKeepShape
  <2>2. QueueInv /\ UNCHANGED queueVars => QueueInv'
    <3> SUFFICES ASSUME QueueInv, UNCHANGED queueVars PROVE QueueInv'
      OBVIOUS
    <3>1. TypeOK'
      BY StutterTyped DEF QueueInv, queueVars
    <3>2. seat' = seat /\ queueSequence' = queueSequence
      BY DEF queueVars, vars, assignmentVars
    <3> QED  BY <3>1, <3>2 DEF QueueInv, QueueTypeOK, Distinct, SeatedSold, Bounded
  <2> QED  BY <2>1, <2>2
<1> QED  BY <1>1, <1>2, PTL DEF QueueSpec

-----------------------------------------------------------------------------
\* Numbers are only added to the flight line: every behaviour of QueueOrder is
\* one of FlightOps, and what is proved of FlightOps holds for it.
THEOREM QueueRefinesFlightOps == QueueSpec => Spec
<1>1. QueueInit => Init
  BY DEF QueueInit
<1>2. [QueueNext]_queueVars => [Next]_vars
  BY QueueNextIsNext DEF queueVars
<1> QED  BY <1>1, <1>2, PTL DEF QueueSpec, Spec

\* The UNIQUE constraint on queue_sequence never stops a sale, a deferral or a
\* technical abort, for any number of groups and after any commands.
THEOREM NumbersNeverClash == QueueSpec => []NumbersAlwaysFree
<1>1. QueueInv => NumbersAlwaysFree
  <2> SUFFICES ASSUME QueueInv PROVE NumbersAlwaysFree
    OBVIOUS
  <2>1. ASSUME NEW g \in Groups PROVE EndIsFree(g)
    <3>1. LastSequence \in Nat /\ \A h \in Groups : queueSequence[h] <= LastSequence
      BY LastSequenceIsMaximum DEF QueueInv
    <3>2. AtEnd(g)[g] = LastSequence + 1
      BY DEF AtEnd, QueueInv, QueueTypeOK
    <3> QED  BY <3>1, <3>2 DEF EndIsFree, Sold, QueueInv, QueueTypeOK
  <2>2. ASSUME NEW r \in Rotations PROVE TechnicalAbortCommits(GroupsAboard(r))
    BY AboardAreSold, AboardIsFinite, TechnicalAbortNeverFails DEF QueueInv
  <2> QED  BY <2>1, <2>2 DEF NumbersAlwaysFree
<1> QED  BY <1>1, QueueInvHolds, PTL
\* Whatever is called, canceled, deferred, aborted or recorded: a group that
\* waits is not overtaken by another, for any number of groups.
THEOREM FirstComeFirstServed == QueueSpec => NoOvertaking
<1> DEFINE Kept(g, h) ==
             /\ Waiting(g) /\ Waiting(h) /\ queueSequence[g] < queueSequence[h]
             /\ Waiting(g)' /\ Waiting(h)' /\ deferrals'[g] = deferrals[g]
             => queueSequence'[g] < queueSequence'[h]
<1>1. ASSUME QueueInv, QueueNext, NEW g \in Groups, NEW h \in Groups,
             Waiting(g), Waiting(h), queueSequence[g] < queueSequence[h],
             deferrals'[g] = deferrals[g]
      PROVE  queueSequence'[g] < queueSequence'[h]
  <2>1. ASSUME NEW k \in Groups, NEW slots \in Slottings(k, EffectiveGroupCapacity),
               QueuedSale(k, slots)
        PROVE  queueSequence'[g] < queueSequence'[h]
    <3>1. g # k /\ h # k
      BY <1>1, <2>1 DEF QueuedSale, SellTicketGroup, Waiting
    <3> QED  BY <1>1, <2>1, <3>1 DEF QueuedSale, Write, AtEnd, QueueInv, QueueTypeOK
  <2>2. ASSUME NEW k \in Groups, QueuedDeferral(k)
        PROVE  queueSequence'[g] < queueSequence'[h]
    <3>1. g # k
      BY <1>1, <2>2 DEF QueuedDeferral, DeferTicketGroup, QueueInv, TypeOK
    <3>2. LastSequence \in Nat /\ queueSequence[g] \in Nat /\ queueSequence[g] <= LastSequence
      BY LastSequenceIsMaximum, <1>1 DEF QueueInv, QueueTypeOK
    <3>3. queueSequence' = queueSequence \/ queueSequence' = AtEnd(k)
      BY <2>2 DEF QueuedDeferral, Write
    <3> QED  BY <1>1, <3>1, <3>2, <3>3 DEF AtEnd, QueueInv, QueueTypeOK
  <2>3. ASSUME NEW r \in Rotations, NEW front \in GroupsAboard(r), QueuedAbort(r, front)
        PROVE  queueSequence'[g] < queueSequence'[h]
    <3>1. front \in Sold /\ g \in Sold \cup {g} /\ h \in Sold
      BY <1>1, AboardAreSold DEF QueueInv, QueueTypeOK, Sold
    <3>2. r \in RotationsOf(front) /\ Active(r)
      BY <2>3
      DEF QueuedAbort, AbortRotation, Active, ActiveStates, RotationsOf, TicketsOf, GroupsAboard,
          Aboard, Rotations
    <3>3. g # front /\ h # front
      BY <1>1, <3>2 DEF Waiting
    <3>4. queueSequence' = Restored(front)
      BY <2>3 DEF QueuedAbort, Write
    <3>5. CASE g \in Sold
      <4>1. queueSequence'[g] # queueSequence'[h]
        BY <1>1, <2>3, <3>1, <3>4, <3>5 DEF QueuedAbort, AbortCommits, Commits, QueueInv, QueueTypeOK
      <4>2. queueSequence'[g] \in {queueSequence[g], queueSequence[g] + 1}
        BY <1>1, <3>1, <3>3, <3>4, AbortNumbers DEF QueueInv
      <4>3. queueSequence'[h] \in {queueSequence[h], queueSequence[h] + 1}
        BY <1>1, <3>1, <3>3, <3>4, AbortNumbers DEF QueueInv
      <4> QED  BY <1>1, <4>1, <4>2, <4>3 DEF QueueInv, QueueTypeOK
    <3>6. CASE g \notin Sold
      BY <1>1, <3>1, <3>3, <3>4, <3>6, AbortNumbers DEF QueueInv, QueueTypeOK, Sold
    <3> QED  BY <3>5, <3>6
  <2>4. ASSUME NEW r \in Rotations, QueuedTechnicalAbort(r)
        PROVE  queueSequence'[g] < queueSequence'[h]
    <3> DEFINE R == GroupsAboard(r)
    <3>1. R \in SUBSET Sold /\ Cardinality(R) \in Nat
      BY <1>1, AboardAreSold, AboardIsFinite
    <3>2. Active(r)
      BY <2>4 DEF QueuedTechnicalAbort, TechnicalAbort, Active, ActiveStates
    <3>3. g \notin R /\ h \notin R
      BY <1>1, <3>2 DEF Waiting, RotationsOf, TicketsOf, GroupsAboard, Aboard, Rotations
    <3>4. queueSequence' = BlockFirst(R)
      BY <2>4 DEF QueuedTechnicalAbort, Write
    <3> HIDE DEF R
    <3>5. h \in Sold /\ queueSequence'[h] = queueSequence[h] + Cardinality(R)
      <4>1. h \in Sold
        BY <1>1 DEF QueueInv, QueueTypeOK, Sold
      <4> QED  BY <1>1, <3>1, <3>3, <3>4, <4>1, TechnicalNumbers DEF QueueInv
    <3>6. CASE g \in Sold
      <4>1. queueSequence'[g] = queueSequence[g] + Cardinality(R)
        BY <1>1, <3>1, <3>3, <3>4, <3>6, TechnicalNumbers DEF QueueInv
      <4> QED  BY <1>1, <3>1, <3>5, <4>1 DEF QueueInv, QueueTypeOK
    <3>7. CASE g \notin Sold
      <4>1. queueSequence'[g] = 0
        BY <3>3, <3>4, <3>7 DEF BlockFirst, OthersBack, AllParked, Sold
      <4> QED  BY <1>1, <3>1, <3>5, <4>1 DEF QueueInv, QueueTypeOK, Sold
    <3> QED  BY <3>6, <3>7
  <2>5. CASE NumberKept
    BY <1>1, <2>5 DEF NumberKept
  <2> QED  BY <1>1, <2>1, <2>2, <2>3, <2>4, <2>5 DEF QueueNext
<1>2. QueueInv /\ [QueueNext]_queueVars =>
        [\A g, h \in Groups : Kept(g, h)]_queueVars
  BY <1>1
<1> QED  BY <1>2, QueueInvHolds, PTL DEF QueueSpec, NoOvertaking

\* Only the three recoveries put a rotation that was called back to DRAFT.
LEMMA BackToDraft ==
  ASSUME TypeOK, QueueNext, NEW r \in Rotations,
         rotationState[r] \in {"CALLED", "IN_FLIGHT"}, rotationState'[r] = "DRAFT"
  PROVE  \/ RevokeCall(r) \/ AbortRotation(r) \/ QueuedTechnicalAbort(r)
<1>1. ASSUME NEW g \in Groups, NEW capacity, NEW slots \in Slottings(g, capacity), NEW emptied,
             SeatInNewRotations(g, slots, emptied)
      PROVE  FALSE
  BY <1>1, SlottingsType DEF SeatInNewRotations
<1>2. ASSUME NEW g \in Groups, NEW status, EndGroup(g, status) PROVE FALSE
  BY <1>2 DEF EndGroup
<1>3. ASSUME NEW g \in Groups, NEW slots \in Slottings(g, EffectiveGroupCapacity),
             QueuedSale(g, slots)
      PROVE  FALSE
  BY <1>1, <1>3 DEF QueuedSale, SellTicketGroup
<1>4. ASSUME NEW g \in Groups, DeferTicketGroup(g) PROVE FALSE
  BY <1>1, <1>2, <1>4 DEF DeferTicketGroup
<1>5. ASSUME NEW q \in Rotations, NEW craft, ReturnToQueue(q, craft) PROVE q = r
  BY <1>5 DEF ReturnToQueue
<1>6. ~TransitionStep
  <2>1. ASSUME NEW G \in SUBSET Groups \ {{}}, NEW segment \in Segments(G), NEW primary \in G,
               NEW a \in Aircraft, NEW p \in Pilots, CallNext(G, segment, primary, a, p)
        PROVE  FALSE
    BY <2>1 DEF CallNext
  <2>2. ASSUME NEW q \in Rotations, NEW to \in RotationStates \ {"DRAFT"}, NEW craft, NEW passenger,
               Transition(q, to, craft, passenger)
        PROVE  FALSE
    BY <2>2 DEF Transition, TypeOK
  <2> QED
    BY <2>1, <2>2
    DEF TransitionStep, MarkOffBlock, MarkOnBlock, CompleteTurnaround, CancelRotation, RotationStates
<1>7. ASSUME NEW g \in Groups, CancelTicketGroup(g) \/ MarkNoShow(g) PROVE FALSE
  BY <1>2, <1>7 DEF CancelTicketGroup, MarkNoShow
<1>8. ~AttendanceStep
  BY DEF AttendanceStep, SetTicketAttendance, SetTicketGroupAttendance, MarkTicketGroupMissing,
     RestoreTicketGroupToQueue, MarkTicketNoShow, rotationVars
<1>9. ~CorrectionStep
  <2>1. ASSUME NEW q \in Rotations, NEW capacity, NEW K \in SUBSET GroupsAboard(q),
               NEW row \in OwnRows(GroupsAboard(q) \ K), SetRotationCapacity(q, capacity, K, row)
        PROVE  FALSE
    BY <2>1, OwnRowsType DEF SetRotationCapacity
  <2>2. ASSUME NEW g \in Groups, NEW q \in Rotations,
               MoveTicketGroup(g, q) \/ CorrectRotationManifest(g, q)
        PROVE  FALSE
    BY <2>2 DEF MoveTicketGroup, CorrectRotationManifest, rotationVars
  <2> QED  BY <2>1, <2>2 DEF CorrectionStep
<1>10. ~FleetStep
  BY DEF FleetStep, SetAircraftOperationalState, SetPilotPause, AssignAircraftPilot, SetHalted,
     rotationVars
<1>11. ASSUME NumberKept PROVE RevokeCall(r)
  <2>1. PICK q \in Rotations : RevokeCall(q)
    BY <1>6, <1>7, <1>8, <1>9, <1>10, <1>11 DEF NumberKept
  <2> QED  BY <1>5, <2>1 DEF RevokeCall
<1>12. ASSUME NEW q \in Rotations, NEW front \in GroupsAboard(q), QueuedAbort(q, front)
       PROVE  AbortRotation(r)
  BY <1>5, <1>12 DEF QueuedAbort, AbortRotation
<1>13. ASSUME NEW q \in Rotations, QueuedTechnicalAbort(q) PROVE QueuedTechnicalAbort(r)
  BY <1>5, <1>13 DEF QueuedTechnicalAbort, TechnicalAbort
<1> QED  BY <1>3, <1>4, <1>11, <1>12, <1>13 DEF QueueNext, QueuedDeferral

\* Those whose aircraft breaks down fly next, for any number of groups.
THEOREM AbortedFlyNext == QueueSpec => AbortedGoFirst
<1> DEFINE First(r) ==
             TechnicalAbort(r) =>
               /\ \A g \in GroupsAboard(r), h \in Sold \ GroupsAboard(r) :
                    queueSequence'[g] < queueSequence'[h]
               /\ \A g, h \in GroupsAboard(r) :
                    queueSequence[g] < queueSequence[h] => queueSequence'[g] < queueSequence'[h]
<1>1. ASSUME QueueInv, NEW r \in Rotations, QueuedTechnicalAbort(r) PROVE First(r)
  <2> DEFINE R == GroupsAboard(r)
  <2>1. R \in SUBSET Sold /\ R \in SUBSET Groups /\ IsFiniteSet(R) /\ Cardinality(R) \in Nat
    BY <1>1, AboardAreSold, AboardIsFinite
  <2>2. queueSequence' = BlockFirst(R)
    BY <1>1 DEF QueuedTechnicalAbort, Write
  <2> HIDE DEF R
  <2>3. \A g \in R : Rank(R, g) \in 1..Cardinality(R) /\ queueSequence'[g] = Rank(R, g)
    BY <1>1, <2>1, <2>2, RankOrders, TechnicalNumbers DEF QueueInv
  <2>4. \A h \in Sold \ R : queueSequence'[h] = queueSequence[h] + Cardinality(R)
                           /\ queueSequence[h] \in Nat \ {0}
    BY <1>1, <2>1, <2>2, TechnicalNumbers DEF QueueInv
  <2>5. \A g \in R, h \in Sold \ R : queueSequence'[g] < queueSequence'[h]
    BY <2>1, <2>3, <2>4
  <2>6. \A g, h \in R : queueSequence[g] < queueSequence[h] => queueSequence'[g] < queueSequence'[h]
    BY <1>1, <2>1, <2>3, RankOrders DEF QueueInv
  <2> QED  BY <2>5, <2>6 DEF R
<1>2. ASSUME QueueInv, QueueNext, NEW r \in Rotations, TechnicalAbort(r)
      PROVE  QueuedTechnicalAbort(r)
  <2>1. rotationState[r] \in {"CALLED", "IN_FLIGHT"} /\ rotationState'[r] = "DRAFT"
    BY <1>2 DEF TechnicalAbort, ReturnToQueue, QueueInv, TypeOK
  <2>2. aircraftOf[r] \in Aircraft /\ aircraftState'[aircraftOf[r]] = "INACTIVE"
    BY <1>2 DEF TechnicalAbort, ReturnToQueue, QueueInv, TypeOK
  <2>3. ~RevokeCall(r) /\ ~AbortRotation(r)
    BY <2>2 DEF RevokeCall, AbortRotation, ReturnToQueue
  <2> QED  BY <1>2, <2>1, <2>3, BackToDraft DEF QueueInv
<1>3. QueueInv /\ [QueueNext]_queueVars => [\A r \in Rotations : First(r)]_queueVars
  <2> SUFFICES ASSUME QueueInv, QueueNext, NEW r \in Rotations PROVE First(r)
    BY Zenon
  <2> QED  BY <1>1, <1>2
<1> QED  BY <1>3, QueueInvHolds, PTL DEF QueueSpec, AbortedGoFirst
=============================================================================
