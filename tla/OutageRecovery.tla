--------------------------- MODULE OutageRecovery ---------------------------
(***************************************************************************)
(* STAGE_, APPROVE_ and APPLY_OUTAGE_RECOVERY: the paper records of an     *)
(* outage are simulated as one batch, approved by a second device and      *)
(* applied, while the other commands of the event go on.                   *)
(*                                                                         *)
(* outage_recovery_references keeps a life cycle of its own beside that of *)
(* the rotation it names; only this module writes it.  Every paper         *)
(* reference belongs to one booking group, so the group stands for it, and *)
(* its ticket codes for its tickets.                                       *)
(***************************************************************************)
EXTENDS FlightOps, Sequences

CONSTANTS
  Devices, RoleOf,   \* paired devices that handle paper records, and their roles
  MaxBatches,        \* bound: batches staged in one behaviour
  Runs               \* bound: stretches of the life cycle one batch records

VARIABLES
  batch,      \* outage_recovery_batches with their entries
  recorded,   \* references in the entries of any batch, whatever became of it
  reference   \* outage_recovery_references; NONE for no row

recoveryVars == <<batch, recorded, reference>>
allVars == <<vars, recoveryVars>>

ASSUME NoReferenceAssumption ==
  NONE \notin RotationStates \cup [state : RotationStates, rotation : 1..MaxRotations]

-----------------------------------------------------------------------------
\* In the order of their creation.
Batches == 1..MaxBatches

\* Entries ROTATION_CALLED to ROTATION_COMPLETED of one reference, in the order
\* of their original times.
LifeCycle == <<"CALLED", "IN_FLIGHT", "LANDED", "COMPLETED">>
ASSUME RunsAssumption ==
  Runs \subseteq {SubSeq(LifeCycle, i, j) : i \in 1..4, j \in 0..4}

\* What a batch says of one reference: the sale, some rotation events or both;
\* only the call names aircraft and pilot.
Calls(line) == line.run # <<>> /\ line.run[1] = "CALLED"
Lines ==
  {l \in [sale : BOOLEAN, run : Runs, aircraft : Aircraft \cup {NONE}, pilot : Pilots \cup {NONE}] :
     /\ l.sale \/ l.run # <<>>
     /\ IF Calls(l) THEN l.aircraft # NONE /\ l.pilot # NONE
                    ELSE l.aircraft = NONE /\ l.pilot = NONE}
Papers == UNION {[G -> Lines] : G \in SUBSET Groups \ {{}}}
NoPaper == [g \in {} |-> NONE]

NoBatch == [status |-> "FREE", by |-> NONE, behind |-> 0, paper |-> NoPaper]

Sold(paper)  == {g \in DOMAIN paper : paper[g].sale}
Moving(paper) == {g \in DOMAIN paper : paper[g].run # <<>>}

\* behind: current version of the event minus simulated_against_version.  A
\* batch that is 3 behind stays refused; of it, as of one in conflict or applied,
\* only the status is told apart.
Closed(status) == [NoBatch EXCEPT !.status = status]

Overtaken ==
  [b \in Batches |->
     IF batch[b].behind = 0 THEN batch[b]
     ELSE IF batch[b].behind = 2 THEN Closed("STALE")
     ELSE [batch[b] EXCEPT !.behind = @ + 1]]

-----------------------------------------------------------------------------
\* The state a rotation event of reference g starts from.
StateBefore(g, paper) ==
  IF paper[g].sale THEN "DRAFT" ELSE IF reference[g] = NONE THEN NONE ELSE reference[g].state

\* Mutant: any event of a reference that is known.
RunFollowsKnown(g, paper) == g \in Moving(paper) => StateBefore(g, paper) # NONE

\* transitionRotation of every rotation event; within a run each one follows.
RunFollows(g, paper) ==
  g \in Moving(paper) => MayTurn(StateBefore(g, paper), paper[g].run[1])

\* assertMayStageOutageRecoveryEntry for every entry.
MayStage(d, paper) ==
  \/ RoleOf[d] = "ADMIN"
  \/ RoleOf[d] = "CASHIER" /\ Moving(paper) = {}
  \/ RoleOf[d] = "FLIGHT_DIRECTOR" /\ Sold(paper) = {}

\* simulateOutageRecovery: references already recorded, ticket codes already
\* sold and events out of order.
CanCommit(paper) ==
  /\ \A g \in Sold(paper) : g \notin recorded /\ groupState[g] = "UNSOLD"
  /\ \A g \in DOMAIN paper : RunFollows(g, paper)

NextBatch ==
  {b \in Batches : \A c \in 1..b : batch[c].status = "FREE" <=> c = b}

\* A new batch with its entries; one in conflict only matters by the references
\* it records.
Stage(b, new, references) ==
  /\ batch' = [Overtaken EXCEPT ![b] = new]
  /\ recorded' = recorded \cup references
  /\ UNCHANGED <<vars, reference>>

StageOutageRecovery(b, d, paper) ==
  /\ CanCommit(paper)
  /\ MayStage(d, paper)
  /\ Stage(b, [status |-> "STAGED", by |-> d, behind |-> 1, paper |-> paper], DOMAIN paper)

\* The simulation may find fault with any paper: if nothing else, a time in the
\* future or a number used twice.
StageConflicted(b, references) == Stage(b, Closed("CONFLICTED"), references)

\* assertOutageRecoveryApproval.
MayApprove(b, d) ==
  /\ batch[b].status = "STAGED"
  /\ batch[b].by # d
  /\ batch[b].behind = 1

ApproveOutageRecovery(b, d) ==
  /\ RoleOf[d] = "ADMIN"
  /\ MayApprove(b, d)
  /\ batch' = [Overtaken EXCEPT ![b].status = "APPROVED"]
  /\ UNCHANGED <<vars, recorded, reference>>

-----------------------------------------------------------------------------
\* OutageRecoveryApplication, for the paper of batch b; rows gives the new
\* rotation row of each sale.

\* assertOutageRecoveryApplication.
MayApply(b) == batch[b].status = "APPROVED" /\ batch[b].behind = 2

NewRowsOf(paper) ==
  {rows \in [Sold(paper) -> NewRows(Cardinality(Sold(paper)))] :
     \A g, h \in Sold(paper) : rows[g] = rows[h] => g = h}

\* The working references, sales included, as the entries leave them: the state
\* of each, its rotation, and the aircraft and pilot of a recorded call or else
\* of the rotation's row.
Working(paper, rows) ==
  [g \in {h \in Groups : reference[h] # NONE} \cup Sold(paper) |->
     LET r == IF g \in Sold(paper) THEN rows[g] ELSE reference[g].rotation
         moves == g \in Moving(paper)
     IN  [rotation |-> r,
          state    |-> IF moves THEN paper[g].run[Len(paper[g].run)]
                       ELSE IF g \in Sold(paper) THEN "DRAFT" ELSE reference[g].state,
          aircraft |-> IF moves /\ Calls(paper[g]) THEN paper[g].aircraft ELSE aircraftOf[r],
          pilot    |-> IF moves /\ Calls(paper[g]) THEN paper[g].pilot ELSE pilotOf[r],
          aboard   |-> IF g \in Sold(paper) THEN TicketsOf(g) ELSE Aboard(r)]]

\* applyTransitionAssignment and assertReferenceAssignment.
AssignmentFits(line, ref) ==
  /\ ref.aircraft # NONE
  /\ ref.pilot # NONE
  /\ Calls(line) => Cardinality(ref.aboard) <= Seats[ref.aircraft]

\* References appendActiveAircraftStatements takes for rotations under way.
UnderWay(working) ==
  {g \in DOMAIN working : /\ working[g].state \notin {"DRAFT", "COMPLETED"}
                          /\ working[g].aircraft # NONE
                          /\ working[g].pilot # NONE}

\* Mutant: the references of the batch are not compared with each other.
AssignmentAvailableSingly(g, working) ==
  LET live == {r \in Rotations : Active(r)} \ {working[h].rotation : h \in UnderWay(working)}
  IN
  /\ \A r \in live : aircraftOf[r] # working[g].aircraft /\ pilotOf[r] # working[g].pilot
  /\ Active(working[g].rotation) \/ aircraftState[working[g].aircraft] = "AVAILABLE"
  /\ working[g].pilot \notin paused

\* assertRecoveredAssignmentAvailable: no other rotation under way, live or
\* recovered, has the aircraft or the pilot.
AssignmentAvailable(g, working) ==
  LET live == {r \in Rotations : Active(r)} \ {working[h].rotation : h \in UnderWay(working)}
  IN
  /\ \A r \in live : aircraftOf[r] # working[g].aircraft /\ pilotOf[r] # working[g].pilot
  /\ \A h \in UnderWay(working) \ {g} :
       working[h].aircraft # working[g].aircraft /\ working[h].pilot # working[g].pilot
  /\ Active(working[g].rotation) \/ aircraftState[working[g].aircraft] = "AVAILABLE"
  /\ working[g].pilot \notin paused

RecoveredAircraftState(s) == IF s = "CALLED" THEN "BOARDING" ELSE s

\* Mutant: the tickets of a rotation recorded before are left alone.
CarriedBySale(g, paper) == IF g \in Sold(paper) THEN TicketsOf(g) ELSE {}

\* The tickets a rotation event of reference g writes to.
Carried(g, paper) ==
  IF g \in Sold(paper) THEN TicketsOf(g) ELSE Aboard(reference[g].rotation)

\* One batch: versions, entries, rows.  A rotation event writes rotation and
\* tickets but not the group; a completed one leaves the state of its aircraft,
\* only the references under way write theirs.
ApplyOutageRecovery(b, rows) ==
  LET paper   == batch[b].paper
      working == Working(paper, rows)
      moving  == Moving(paper)
      moved   == {working[g].rotation : g \in moving}
      RefOf(r) == working[CHOOSE g \in moving : working[g].rotation = r]
      flying  == UnderWay(working)
  IN
  /\ MayApply(b)
  /\ \A g \in Sold(paper) : reference[g] = NONE /\ groupState[g] = "UNSOLD"
  /\ \A g \in moving : RunFollows(g, paper) /\ AssignmentFits(paper[g], working[g])
  /\ \A g \in flying : AssignmentAvailable(g, working)
  /\ rotationState' = [r \in Rotations |->
       IF r \in moved THEN RefOf(r).state
       ELSE IF \E g \in Sold(paper) : rows[g] = r THEN "DRAFT" ELSE rotationState[r]]
  /\ aircraftOf' = [r \in Rotations |-> IF r \in moved THEN RefOf(r).aircraft ELSE aircraftOf[r]]
  /\ pilotOf' = [r \in Rotations |-> IF r \in moved THEN RefOf(r).pilot ELSE pilotOf[r]]
  /\ wasCalled' = wasCalled \cup {working[g].rotation : g \in {h \in moving : Calls(paper[h])}}
  /\ seat' = [t \in Tickets |-> IF GroupOf[t] \in Sold(paper) THEN rows[GroupOf[t]] ELSE seat[t]]
  /\ ticketState' = [t \in Tickets |->
       IF \E g \in moving : t \in Carried(g, paper)
         THEN working[CHOOSE g \in moving : t \in Carried(g, paper)].state
       ELSE IF GroupOf[t] \in Sold(paper) THEN "QUEUED" ELSE ticketState[t]]
  /\ groupState' = [g \in Groups |-> IF g \in Sold(paper) THEN "QUEUED" ELSE groupState[g]]
  /\ aircraftState' = [a \in Aircraft |->
       IF \E g \in flying : working[g].aircraft = a
         THEN RecoveredAircraftState(working[CHOOSE g \in flying : working[g].aircraft = a].state)
       ELSE aircraftState[a]]
  /\ reference' = [g \in Groups |->
       IF g \in DOMAIN paper THEN [state |-> working[g].state, rotation |-> working[g].rotation]
                             ELSE reference[g]]
  /\ batch' = [Overtaken EXCEPT ![b] = Closed("APPLIED")]
  /\ UNCHANGED <<usable, released, checkedIn, deferrals, currentPilot, paused, halted, recorded>>

-----------------------------------------------------------------------------
RecoveryInit ==
  /\ Init
  /\ batch = [b \in Batches |-> NoBatch]
  /\ recorded = {}
  /\ reference = [g \in Groups |-> NONE]

\* Mutant: a command leaves the version alone.
LiveStepSilently ==
  /\ Next
  /\ UNCHANGED recoveryVars

\* Every other command of the event raises the version as well.
LiveStep ==
  /\ Next
  /\ batch' = Overtaken
  /\ UNCHANGED <<recorded, reference>>

PaperStep ==
  \/ \E b \in NextBatch : \E d \in Devices, paper \in Papers : StageOutageRecovery(b, d, paper)
  \/ \E b \in NextBatch, references \in SUBSET Groups \ {{}} : StageConflicted(b, references)
  \/ \E b \in Batches, d \in Devices : ApproveOutageRecovery(b, d)
  \/ \E b \in Batches : \E rows \in NewRowsOf(batch[b].paper) : ApplyOutageRecovery(b, rows)

RecoveryNext == LiveStep \/ PaperStep
RecoverySpec == RecoveryInit /\ [][RecoveryNext]_allVars

-----------------------------------------------------------------------------
\* Whatever the flight line does while paper is recovered, live and recovered
\* calls never share an aircraft or a pilot, and the aircraft of a rotation
\* under way is never offered for another call.
OneHolder ==
  \A r \in Rotations : Active(r) =>
    /\ aircraftOf[r] # NONE /\ pilotOf[r] # NONE
    /\ aircraftState[aircraftOf[r]] \notin IdleStates
    /\ \A q \in Rotations \ {r} : Active(q) =>
         aircraftOf[q] # aircraftOf[r] /\ pilotOf[q] # pilotOf[r]

\* As long as the coordinator would still approve or apply a batch, its simulation
\* still holds: no sale and no flight accepted since has touched what it found free
\* of conflicts.
VerdictStands ==
  \A b \in Batches : MayApply(b) \/ (\E d \in Devices : MayApprove(b, d)) =>
    LET paper == batch[b].paper
    IN  /\ \A g \in Sold(paper) : reference[g] = NONE /\ groupState[g] = "UNSOLD"
        /\ \A g \in Moving(paper) : MayTurn(StateBefore(g, paper), paper[g].run[1])

Progress(ref) ==
  IF ref = NONE THEN 0
  ELSE CHOOSE n \in 1..5 : (<<"DRAFT">> \o LifeCycle)[n] = ref.state

\* The paper record of a booking only moves on: no batch, however many are
\* staged side by side, enters a sale or an event of the same reference twice,
\* takes one back or gives the reference another rotation.
PaperMovesOn ==
  [][\A g \in Groups : reference[g] # NONE /\ reference'[g] # reference[g] =>
       /\ reference'[g] # NONE
       /\ reference'[g].rotation = reference[g].rotation
       /\ Progress(reference'[g]) > Progress(reference[g])]_allVars

\* The state diagram of a rotation: an aircraft turns to BOARDING as its rotation
\* is called, not in the air and not without one.
NoPhantomBoarding ==
  [][\A a \in Aircraft : aircraftState[a] # "BOARDING" /\ aircraftState'[a] = "BOARDING" =>
       \E r \in Rotations : rotationState'[r] = "CALLED" /\ aircraftOf'[r] = a]_allVars
=============================================================================
