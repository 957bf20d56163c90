--------------------------- MODULE RecoveryProofs ---------------------------
(***************************************************************************)
(* What OutageRecovery guarantees for every number of batches, references, *)
(* devices and stretches of the life cycle: VerdictStands and PaperMovesOn *)
(* with every set of commands, OneHolder as long as no rotation is         *)
(* canceled with CANCEL_ROTATION, and TicketsFollowRotation and NobodyLost *)
(* as long as no attendance is set with SET_TICKET_GROUP_ATTENDANCE.       *)
(***************************************************************************)
EXTENDS OutageRecovery, FleetSafetyProofs, SequenceTheorems

-----------------------------------------------------------------------------
\* The rows of the recovery.

Events == {"CALLED", "IN_FLIGHT", "LANDED", "COMPLETED"}
References == [state : {"DRAFT"} \cup Events, rotation : Rotations]
BatchStates == {"FREE", "STAGED", "APPROVED", "STALE", "CONFLICTED", "APPLIED"}
BatchRecords ==
  [status : BatchStates, by : Devices \cup {NONE}, behind : 0..2, paper : Papers \cup {NoPaper}]

ReferencesTyped == reference \in [Groups -> References \cup {NONE}]
BatchesTyped == batch \in [Batches -> BatchRecords]

LEMMA NoneIsNoReference == NONE \notin References \cup {"DRAFT"} \cup Events
<1>1. References \subseteq [state : RotationStates, rotation : 1..MaxRotations]
  BY DEF References, Events, RotationStates, Rotations
<1>2. {"DRAFT"} \cup Events \subseteq RotationStates
  BY DEF Events, RotationStates
<1> QED  BY <1>1, <1>2, NoReferenceAssumption

\* A line has the events from its i-th to its j-th.
LEMMA RunsAreStretches ==
  ASSUME NEW run \in Runs, run # <<>>
  PROVE  \E i, j \in 1..4 : i <= j /\ run[1] = LifeCycle[i] /\ run[Len(run)] = LifeCycle[j]
<1>1. PICK i \in 1..4, j \in 0..4 : run = SubSeq(LifeCycle, i, j)
  BY RunsAssumption
<1>2. i <= j
  BY <1>1, SubSeqEmpty
<1>3. \A k \in i..j : LifeCycle[k] \in Events
  BY DEF LifeCycle, Events
<1>4. Len(run) = j - i + 1 /\ \A k \in 1..(j - i + 1) : run[k] = LifeCycle[i + k - 1]
  BY <1>1, <1>2, <1>3, SubSeqProperties
<1>5. run[1] = LifeCycle[i] /\ run[Len(run)] = LifeCycle[j]
  BY <1>2, <1>4
<1> QED  BY <1>2, <1>5

LEMMA RunsAreEvents ==
  ASSUME NEW run \in Runs, run # <<>>
  PROVE  run[1] \in Events /\ run[Len(run)] \in Events
<1>1. \A i \in 1..4 : LifeCycle[i] \in Events
  BY DEF LifeCycle, Events
<1> QED  BY <1>1, RunsAreStretches

LEMMA PapersAre ==
  ASSUME NEW paper \in Papers \cup {NoPaper}
  PROVE  /\ DOMAIN paper \subseteq Groups
         /\ Sold(paper) \subseteq DOMAIN paper /\ Moving(paper) \subseteq DOMAIN paper
         /\ DOMAIN paper = Sold(paper) \cup Moving(paper)
         /\ \A g \in Moving(paper) :
              /\ paper[g].run \in Runs /\ paper[g].run # <<>>
              /\ Calls(paper[g]) => paper[g].aircraft \in Aircraft /\ paper[g].pilot \in Pilots
<1>1. ASSUME paper \in Papers
      PROVE  DOMAIN paper \subseteq Groups /\ \A g \in DOMAIN paper : paper[g] \in Lines
  BY <1>1 DEF Papers
<1>2. ASSUME paper = NoPaper PROVE DOMAIN paper = {}
  BY <1>2 DEF NoPaper
<1>3. /\ DOMAIN paper \subseteq Groups
      /\ \A g \in DOMAIN paper : paper[g] \in Lines
  BY <1>1, <1>2
<1>4. \A line \in Lines : /\ line.sale \/ line.run # <<>>
                          /\ line.run \in Runs
                          /\ Calls(line) => line.aircraft \in Aircraft /\ line.pilot \in Pilots
  BY DEF Lines
<1> QED  BY <1>3, <1>4 DEF Sold, Moving
-----------------------------------------------------------------------------
\* The approval window.

\* An approved batch is applied right after its approval or not at all, and nobody
\* enters what some batch has entered.
BatchShape ==
  /\ BatchesTyped
  /\ \A b \in Batches : batch[b].status = "APPROVED" => batch[b].behind = 2
  /\ \A b \in Batches : DOMAIN batch[b].paper \subseteq recorded
  /\ \A g \in Groups : reference[g] # NONE => g \in recorded

LEMMA ClosedIs ==
  ASSUME NEW s \in BatchStates
  PROVE  /\ Closed(s) \in BatchRecords
         /\ Closed(s).status = s /\ Closed(s).behind = 0 /\ Closed(s).paper = NoPaper
<1>1. NoBatch \in BatchRecords /\ NoBatch.behind = 0 /\ NoBatch.paper = NoPaper
  BY DEF NoBatch, BatchRecords, BatchStates
<1> QED  BY <1>1 DEF Closed, BatchRecords

\* A step of the event leaves no batch the coordinator would approve or apply.
LEMMA OvertakenIs ==
  ASSUME BatchShape
  PROVE  /\ Overtaken \in [Batches -> BatchRecords]
         /\ \A b \in Batches :
              /\ Overtaken[b].behind # 1
              /\ Overtaken[b].status # "APPROVED"
              /\ DOMAIN Overtaken[b].paper \subseteq recorded
              /\ batch[b].behind = 1 => Overtaken[b] = [batch[b] EXCEPT !.behind = 2]
<1> SUFFICES ASSUME NEW b \in Batches
             PROVE  LET o == Overtaken[b] IN
                    /\ o \in BatchRecords /\ o.behind # 1 /\ o.status # "APPROVED"
                    /\ DOMAIN o.paper \subseteq recorded
                    /\ batch[b].behind = 1 => o = [batch[b] EXCEPT !.behind = 2]
  BY DEF Overtaken
<1> DEFINE o == Overtaken[b]
<1>1. /\ batch[b] \in BatchRecords
      /\ batch[b].status = "APPROVED" => batch[b].behind = 2
      /\ DOMAIN batch[b].paper \subseteq recorded
  BY DEF BatchShape, BatchesTyped
<1>2. batch[b].behind \in {0, 1, 2}
  BY <1>1 DEF BatchRecords
<1>3. CASE batch[b].behind = 0
  <2>1. o = batch[b]
    BY <1>3 DEF Overtaken
  <2> QED  BY <1>1, <1>3, <2>1
<1>4. CASE batch[b].behind = 1
  <2>1. o = [batch[b] EXCEPT !.behind = 2]
    BY <1>4 DEF Overtaken
  <2>2. o \in BatchRecords /\ o.behind = 2 /\ o.status = batch[b].status /\ o.paper = batch[b].paper
    BY <1>1, <2>1 DEF BatchRecords
  <2> QED  BY <1>1, <1>4, <2>1, <2>2
<1>5. CASE batch[b].behind = 2
  <2>1. o = Closed("STALE")
    BY <1>5 DEF Overtaken
  <2>2. DOMAIN NoPaper = {}
    BY DEF NoPaper
  <2> QED  BY <1>5, <2>1, <2>2, ClosedIs DEF BatchStates
<1> QED  BY <1>2, <1>3, <1>4, <1>5

VerdictHolds(b) ==
  LET paper == batch[b].paper
  IN  /\ \A g \in Sold(paper) : reference[g] = NONE /\ groupState[g] = "UNSOLD"
      /\ \A g \in Moving(paper) : MayTurn(StateBefore(g, paper), paper[g].run[1])

LEMMA VerdictStandsIs ==
  VerdictStands <=> \A b \in Batches : MayApply(b) \/ (\E d \in Devices : MayApprove(b, d))
                                         => VerdictHolds(b)
  BY DEF VerdictStands, VerdictHolds

\* What a step leaves of the batches when it stages, approves and applies none.
LEMMA OvertakenShape ==
  ASSUME BatchShape, NEW b, NEW new \in BatchRecords, batch' = [Overtaken EXCEPT ![b] = new],
         new.status # "APPROVED", DOMAIN new.paper \subseteq recorded', recorded \subseteq recorded',
         \A g \in Groups : reference'[g] # NONE => g \in recorded'
  PROVE  /\ BatchShape'
         /\ \A c \in Batches \ {b} : batch'[c].behind # 1 /\ batch'[c].status # "APPROVED"
<1>1. Overtaken \in [Batches -> BatchRecords]
  BY OvertakenIs
<1>2. \A c \in Batches : batch'[c] = IF c = b THEN new ELSE Overtaken[c]
  BY <1>1
<1>3. BatchesTyped'
  BY <1>1 DEF BatchesTyped
<1>4. \A c \in Batches : batch'[c].status # "APPROVED" /\ DOMAIN batch'[c].paper \subseteq recorded'
  BY <1>2, OvertakenIs
<1>5. \A c \in Batches \ {b} : batch'[c].behind # 1 /\ batch'[c].status # "APPROVED"
  BY <1>2, OvertakenIs
<1> QED  BY <1>3, <1>4, <1>5 DEF BatchShape

LEMMA LiveStepShape ==
  ASSUME BatchShape, LiveStep
  PROVE  BatchShape' /\ VerdictStands'
<1>1. batch' = Overtaken /\ UNCHANGED <<recorded, reference>>
  BY DEF LiveStep
<1>2. BatchShape'
  BY <1>1, OvertakenIs DEF BatchShape, BatchesTyped
<1>3. \A b \in Batches : batch'[b].status # "APPROVED" /\ batch'[b].behind # 1
  BY <1>1, OvertakenIs
<1> QED  BY <1>2, <1>3 DEF VerdictStands, MayApply, MayApprove

LEMMA StagedVerdict ==
  ASSUME BatchShape, NEW b \in Batches, NEW d \in Devices, NEW paper \in Papers,
         StageOutageRecovery(b, d, paper)
  PROVE  BatchShape' /\ VerdictStands'
<1> DEFINE new == [status |-> "STAGED", by |-> d, behind |-> 1, paper |-> paper]
<1>1. /\ CanCommit(paper)
      /\ batch' = [Overtaken EXCEPT ![b] = new]
      /\ recorded' = recorded \cup DOMAIN paper
      /\ UNCHANGED <<vars, reference>>
  BY DEF StageOutageRecovery, Stage
<1>2. new \in BatchRecords
  BY DEF BatchRecords, BatchStates
<1>3. new.status = "STAGED" /\ new.paper = paper
  OBVIOUS
<1> HIDE DEF new
<1>4. BatchShape' /\ \A c \in Batches \ {b} : batch'[c].behind # 1 /\ batch'[c].status # "APPROVED"
  <2>1. \A g \in Groups : reference'[g] # NONE => g \in recorded'
    BY <1>1 DEF BatchShape
  <2> QED  BY <1>1, <1>2, <1>3, <2>1, OvertakenShape
<1>5. batch'[b].paper = paper
  BY <1>1, <1>3, OvertakenIs
<1>6. VerdictHolds(b)'
  <2>1. \A g \in Sold(paper) : reference[g] = NONE /\ groupState[g] = "UNSOLD"
    <3>1. \A g \in Sold(paper) : g \notin recorded /\ groupState[g] = "UNSOLD" /\ g \in Groups
      BY <1>1, PapersAre DEF CanCommit
    <3> QED  BY <3>1 DEF BatchShape
  <2>2. \A g \in Moving(paper) : MayTurn(StateBefore(g, paper), paper[g].run[1])
    BY <1>1, PapersAre DEF CanCommit, RunFollows
  <2>3. UNCHANGED <<reference, groupState>>
    BY <1>1 DEF vars, groupVars
  <2>4. \A g : StateBefore(g, paper)' = StateBefore(g, paper)
    BY <2>3 DEF StateBefore
  <2> QED  BY <1>5, <2>1, <2>2, <2>3, <2>4 DEF VerdictHolds, MayTurn, StateBefore
<1>7. ASSUME NEW c \in Batches, (MayApply(c) \/ \E e \in Devices : MayApprove(c, e))'
      PROVE  VerdictHolds(c)'
  BY <1>4, <1>6, <1>7 DEF MayApply, MayApprove
<1>8. VerdictStands'
  BY <1>7 DEF VerdictStands, VerdictHolds
<1> QED  BY <1>4, <1>8

LEMMA ConflictedShape ==
  ASSUME BatchShape, NEW b \in Batches, NEW refs, StageConflicted(b, refs)
  PROVE  BatchShape' /\ VerdictStands'
<1>1. /\ batch' = [Overtaken EXCEPT ![b] = Closed("CONFLICTED")]
      /\ recorded' = recorded \cup refs
      /\ UNCHANGED reference
  BY DEF StageConflicted, Stage
<1>2. /\ Closed("CONFLICTED") \in BatchRecords
      /\ Closed("CONFLICTED").status = "CONFLICTED" /\ Closed("CONFLICTED").behind = 0
      /\ DOMAIN Closed("CONFLICTED").paper = {}
  BY ClosedIs DEF BatchStates, NoPaper
<1>3. BatchShape' /\ \A c \in Batches \ {b} : batch'[c].behind # 1 /\ batch'[c].status # "APPROVED"
  <2>1. \A g \in Groups : reference'[g] # NONE => g \in recorded'
    BY <1>1 DEF BatchShape
  <2> QED  BY <1>1, <1>2, <2>1, OvertakenShape
<1>4. batch'[b].status = "CONFLICTED"
  BY <1>1, <1>2, OvertakenIs
<1> QED  BY <1>3, <1>4 DEF VerdictStands, MayApply, MayApprove

LEMMA ApprovedShape ==
  ASSUME BatchShape, NEW b \in Batches, NEW d \in Devices, ApproveOutageRecovery(b, d)
  PROVE  /\ BatchShape'
         /\ batch'[b].paper = batch[b].paper
         /\ \A c \in Batches \ {b} : batch'[c].behind # 1 /\ batch'[c].status # "APPROVED"
<1>1. /\ batch' = [Overtaken EXCEPT ![b].status = "APPROVED"]
      /\ UNCHANGED <<vars, recorded, reference>>
      /\ batch[b].behind = 1 /\ MayApprove(b, d)
  BY DEF ApproveOutageRecovery, MayApprove
<1>2. /\ Overtaken \in [Batches -> BatchRecords]
      /\ batch[b] \in BatchRecords
      /\ Overtaken[b] = [batch[b] EXCEPT !.behind = 2]
  BY <1>1, OvertakenIs DEF BatchShape, BatchesTyped
<1> DEFINE new == [batch[b] EXCEPT !.behind = 2, !.status = "APPROVED"]
<1>3. new \in BatchRecords /\ new.status = "APPROVED" /\ new.behind = 2 /\ new.paper = batch[b].paper
  BY <1>2 DEF BatchRecords, BatchStates
<1>4. batch' = [Overtaken EXCEPT ![b] = new]
  <2>1. [Overtaken[b] EXCEPT !.status = "APPROVED"] = new
    BY <1>2 DEF BatchRecords
  <2> QED  BY <1>1, <1>2, <2>1
<1> HIDE DEF new
<1>5. \A c \in Batches : batch'[c] = IF c = b THEN new ELSE Overtaken[c]
  BY <1>2, <1>4
<1>6. /\ batch'[b].status = "APPROVED" /\ batch'[b].behind = 2 /\ batch'[b].paper = batch[b].paper
      /\ \A c \in Batches \ {b} : batch'[c].behind # 1 /\ batch'[c].status # "APPROVED"
  BY <1>3, <1>5, OvertakenIs
<1>7. BatchShape'
  <2>1. BatchesTyped'
    BY <1>2, <1>3, <1>4 DEF BatchesTyped
  <2>2. \A c \in Batches : DOMAIN batch'[c].paper \subseteq recorded
    BY <1>5, <1>6, OvertakenIs DEF BatchShape
  <2> QED  BY <1>1, <1>6, <2>1, <2>2 DEF BatchShape
<1> QED  BY <1>6, <1>7

LEMMA ApprovedVerdict ==
  ASSUME BatchShape, VerdictStands, NEW b \in Batches, NEW d \in Devices,
         ApproveOutageRecovery(b, d)
  PROVE  VerdictStands'
<1>1. MayApprove(b, d) /\ UNCHANGED <<vars, reference>>
  BY DEF ApproveOutageRecovery
<1>2. /\ batch'[b].paper = batch[b].paper
      /\ \A c \in Batches \ {b} : batch'[c].behind # 1 /\ batch'[c].status # "APPROVED"
  BY ApprovedShape
<1>3. VerdictHolds(b)
  BY <1>1, VerdictStandsIs
<1>4. VerdictHolds(b)'
  <2>1. UNCHANGED <<reference, groupState>>
    BY <1>1 DEF vars, groupVars
  <2>2. \A g, paper : StateBefore(g, paper)' = StateBefore(g, paper)
    BY <2>1 DEF StateBefore
  <2> QED  BY <1>2, <1>3, <2>1, <2>2 DEF VerdictHolds, MayTurn, StateBefore
<1>5. ASSUME NEW c \in Batches, (MayApply(c) \/ \E e \in Devices : MayApprove(c, e))'
       PROVE  VerdictHolds(c)'
  BY <1>2, <1>4, <1>5 DEF MayApply, MayApprove
<1> QED  BY <1>5 DEF VerdictStands, VerdictHolds

LEMMA AppliedShape ==
  ASSUME BatchShape, NEW b \in Batches, NEW rows, ApplyOutageRecovery(b, rows)
  PROVE  BatchShape' /\ VerdictStands'
<1>1. /\ batch' = [Overtaken EXCEPT ![b] = Closed("APPLIED")]
      /\ recorded' = recorded
      /\ \A g \in Groups : reference'[g] = reference[g] \/ g \in DOMAIN batch[b].paper
  BY DEF ApplyOutageRecovery
<1>2. /\ Closed("APPLIED") \in BatchRecords
      /\ Closed("APPLIED").status = "APPLIED" /\ Closed("APPLIED").behind = 0
      /\ DOMAIN Closed("APPLIED").paper = {}
  BY ClosedIs DEF BatchStates, NoPaper
<1>3. BatchShape' /\ \A c \in Batches \ {b} : batch'[c].behind # 1 /\ batch'[c].status # "APPROVED"
  <2>1. \A g \in Groups : reference'[g] # NONE => g \in recorded'
    BY <1>1 DEF BatchShape
  <2> QED  BY <1>1, <1>2, <2>1, OvertakenShape
<1>4. batch'[b].status = "APPLIED"
  BY <1>1, <1>2, OvertakenIs
<1> QED  BY <1>3, <1>4 DEF VerdictStands, MayApply, MayApprove

\* What the coordinator would still approve or apply has been simulated one or two
\* commands ago, with only the approval in between.
LEMMA WindowStays ==
  ASSUME BatchShape, VerdictStands, [RecoveryNext]_allVars
  PROVE  BatchShape' /\ VerdictStands'
<1>1. CASE RecoveryNext
  <2>1. NextBatch \subseteq Batches
    BY DEF NextBatch
  <2> QED
    BY <1>1, <2>1, LiveStepShape, StagedVerdict, ConflictedShape, ApprovedShape, ApprovedVerdict,
       AppliedShape
    DEF RecoveryNext, PaperStep
<1>2. CASE UNCHANGED allVars
  <2>1. UNCHANGED <<batch, recorded, reference, groupState>>
    BY <1>2 DEF allVars, recoveryVars, vars, groupVars
  <2>2. BatchShape'
    BY <2>1 DEF BatchShape, BatchesTyped
  <2>3. \A g, paper : StateBefore(g, paper)' = StateBefore(g, paper)
    BY <2>1 DEF StateBefore
  <2>4. ASSUME NEW c \in Batches, (MayApply(c) \/ \E e \in Devices : MayApprove(c, e))'
        PROVE  VerdictHolds(c)'
    <3>1. VerdictHolds(c)
      BY <2>1, <2>4, VerdictStandsIs DEF MayApply, MayApprove
    <3> QED  BY <2>1, <2>3, <3>1 DEF VerdictHolds, MayTurn, StateBefore
  <2>5. VerdictStands'
    BY <2>4 DEF VerdictStands, VerdictHolds
  <2> QED  BY <2>2, <2>5
<1> QED  BY <1>1, <1>2

LEMMA WindowInit == RecoveryInit => BatchShape /\ VerdictStands
<1> SUFFICES ASSUME RecoveryInit PROVE BatchShape /\ VerdictStands
  OBVIOUS
<1>1. NoBatch \in BatchRecords /\ NoBatch.status = "FREE" /\ DOMAIN NoBatch.paper = {}
  BY DEF NoBatch, BatchRecords, BatchStates, NoPaper
<1>2. BatchShape
  BY <1>1 DEF RecoveryInit, BatchShape, BatchesTyped
<1> QED  BY <1>1, <1>2 DEF RecoveryInit, VerdictStands, MayApply, MayApprove

\* Whatever is sold, flown, staged and applied around it: a batch that
\* APPROVE_ or APPLY_OUTAGE_RECOVERY would accept is still free of the conflicts
\* its simulation looked for.
THEOREM ApprovedBatchesFit == RecoverySpec => []VerdictStands
<1>1. BatchShape /\ VerdictStands /\ [RecoveryNext]_allVars => BatchShape' /\ VerdictStands'
  BY WindowStays
<1> QED  BY <1>1, WindowInit, PTL DEF RecoverySpec

-----------------------------------------------------------------------------
\* The references.

Rank(s) == CASE s = "DRAFT" -> 1 [] s = "CALLED" -> 2 [] s = "IN_FLIGHT" -> 3
             [] s = "LANDED" -> 4 [] OTHER -> 5

LEMMA ProgressIs ==
  ASSUME NEW ref \in References
  PROVE  Progress(ref) = Rank(ref.state)
<1> DEFINE Path == <<"DRAFT">> \o LifeCycle
<1>1. /\ Path[1] = "DRAFT" /\ Path[2] = "CALLED" /\ Path[3] = "IN_FLIGHT"
      /\ Path[4] = "LANDED" /\ Path[5] = "COMPLETED"
  <2>1. <<"DRAFT">> \in Seq({"DRAFT"} \cup Events) /\ LifeCycle \in Seq({"DRAFT"} \cup Events)
    BY DEF LifeCycle, Events
  <2>2. Len(<<"DRAFT">>) = 1 /\ Len(LifeCycle) = 4
    BY DEF LifeCycle
  <2>3. \A n \in 1..5 : Path[n] = IF n <= 1 THEN <<"DRAFT">>[n] ELSE LifeCycle[n - 1]
    BY <2>1, <2>2, ConcatProperties
  <2> QED  BY <2>3 DEF LifeCycle
<1>2. ref.state \in {"DRAFT"} \cup Events /\ ref # NONE
  BY NoneIsNoReference DEF References
<1> HIDE DEF Path
<1>3. \A n \in 1..5 : Path[n] = ref.state <=> n = Rank(ref.state)
  <2>1. \A n \in 1..5 : n = 1 \/ n = 2 \/ n = 3 \/ n = 4 \/ n = 5
    OBVIOUS
  <2> QED  BY <1>1, <1>2, <2>1 DEF Rank, Events
<1>4. Rank(ref.state) \in 1..5
  BY DEF Rank
<1>5. (CHOOSE n \in 1..5 : Path[n] = ref.state) = Rank(ref.state)
  BY <1>3, <1>4
<1> QED  BY <1>2, <1>5 DEF Progress, Path

\* The last event of a line which follows a reference is beyond it.
LEMMA RunsMoveOn ==
  ASSUME NEW run \in Runs, run # <<>>, NEW s \in {"DRAFT"} \cup Events, MayTurn(s, run[1])
  PROVE  Rank(run[Len(run)]) > Rank(s)
<1>1. PICK i \in 1..4, j \in 1..4 : i <= j /\ run[1] = LifeCycle[i] /\ run[Len(run)] = LifeCycle[j]
  BY RunsAreStretches
<1>2. \A n \in 1..4 : Rank(LifeCycle[n]) = n + 1
  <2>1. \A n \in 1..4 : n = 1 \/ n = 2 \/ n = 3 \/ n = 4
    OBVIOUS
  <2> QED  BY <2>1 DEF LifeCycle, Rank
<1>3. run[1] \in Events
  BY RunsAreEvents
<1>4. Rank(run[1]) = Rank(s) + 1
  BY <1>3 DEF MayTurn, Rank, Events
<1>5. Rank(s) \in Int
  BY DEF Rank
<1> QED  BY <1>1, <1>2, <1>4, <1>5

\* The working references of a batch that may be applied.
LEMMA WorkingIs ==
  ASSUME ReferencesTyped, NEW paper \in Papers \cup {NoPaper}, NEW rows \in NewRowsOf(paper),
         \A g \in Moving(paper) : RunFollows(g, paper)
  PROVE  LET working == Working(paper, rows) IN
         /\ \A g \in Sold(paper) : rows[g] \in Rotations /\ rotationState[rows[g]] = "FREE"
         /\ DOMAIN paper \subseteq DOMAIN working
         /\ DOMAIN working \subseteq Groups
         /\ \A g \in DOMAIN working :
              /\ working[g].rotation = IF g \in Sold(paper) THEN rows[g] ELSE reference[g].rotation
              /\ working[g].rotation \in Rotations
              /\ working[g].state \in {"DRAFT"} \cup Events
              /\ g \notin Sold(paper) => reference[g] \in References
         /\ \A g \in Moving(paper) :
              /\ working[g].state = paper[g].run[Len(paper[g].run)]
              /\ working[g].state \in Events
<1> DEFINE working == Working(paper, rows)
           known == {h \in Groups : reference[h] # NONE}
<1>1. \A g \in Sold(paper) : rows[g] \in Rotations /\ rotationState[rows[g]] = "FREE"
  BY DEF NewRowsOf, NewRows
<1>2. \A g \in known : reference[g] \in References
  BY DEF ReferencesTyped
<1>3. \A ref \in References : ref.state \in {"DRAFT"} \cup Events /\ ref.rotation \in Rotations
  BY DEF References
<1>4. DOMAIN working = known \cup Sold(paper)
  BY DEF Working
<1>5. \A g \in Moving(paper) : g \in Sold(paper) \/ g \in known
  <2> SUFFICES ASSUME NEW g \in Moving(paper), g \notin Sold(paper), reference[g] = NONE PROVE FALSE
    BY <1>4, PapersAre
  <2>1. StateBefore(g, paper) = NONE
    <3>1. ~paper[g].sale
      BY PapersAre DEF Sold
    <3> QED  BY <3>1 DEF StateBefore
  <2>2. MayTurn(NONE, paper[g].run[1])
    BY <2>1 DEF RunFollows
  <2> QED  BY <2>2, NoneIsNoReference DEF MayTurn, Events
<1>6. DOMAIN paper \subseteq DOMAIN working /\ DOMAIN working \subseteq Groups
  BY <1>4, <1>5, PapersAre
<1>7. ASSUME NEW g \in DOMAIN working
      PROVE  /\ working[g].rotation = IF g \in Sold(paper) THEN rows[g] ELSE reference[g].rotation
             /\ working[g].state = IF g \in Moving(paper) THEN paper[g].run[Len(paper[g].run)]
                                   ELSE IF g \in Sold(paper) THEN "DRAFT" ELSE reference[g].state
  BY <1>4, <1>7 DEF Working
<1>8. \A g \in Moving(paper) : paper[g].run[Len(paper[g].run)] \in Events
  BY PapersAre, RunsAreEvents
<1> HIDE DEF working
<1>9. \A g \in DOMAIN working :
        /\ working[g].rotation \in Rotations
        /\ working[g].state \in {"DRAFT"} \cup Events
        /\ g \notin Sold(paper) => reference[g] \in References
  BY <1>1, <1>2, <1>3, <1>4, <1>7, <1>8
<1>10. \A g \in Moving(paper) : /\ working[g].state = paper[g].run[Len(paper[g].run)]
                                /\ working[g].state \in Events
  BY <1>6, <1>7, <1>8, PapersAre
<1> QED  BY <1>1, <1>6, <1>7, <1>9, <1>10 DEF working

LEMMA AppliedReferences ==
  ASSUME ReferencesTyped, BatchesTyped, NEW b \in Batches, NEW rows \in NewRowsOf(batch[b].paper),
         ApplyOutageRecovery(b, rows)
  PROVE  /\ ReferencesTyped'
         /\ \A g \in Groups : reference[g] # NONE /\ reference'[g] # reference[g] =>
              /\ reference'[g] # NONE
              /\ reference'[g].rotation = reference[g].rotation
              /\ Progress(reference'[g]) > Progress(reference[g])
<1> DEFINE paper == batch[b].paper
           working == Working(paper, rows)
<1>1. paper \in Papers \cup {NoPaper}
  BY DEF BatchesTyped, BatchRecords
<1>2. /\ \A g \in Sold(paper) : reference[g] = NONE
      /\ \A g \in Moving(paper) : RunFollows(g, paper)
      /\ reference' = [g \in Groups |->
           IF g \in DOMAIN paper THEN [state |-> working[g].state, rotation |-> working[g].rotation]
                                 ELSE reference[g]]
  BY DEF ApplyOutageRecovery
<1>3. /\ DOMAIN paper \subseteq DOMAIN working
      /\ \A g \in DOMAIN working :
           /\ working[g].rotation = IF g \in Sold(paper) THEN rows[g] ELSE reference[g].rotation
           /\ working[g].rotation \in Rotations
           /\ working[g].state \in {"DRAFT"} \cup Events
           /\ g \notin Sold(paper) => reference[g] \in References
      /\ \A g \in Moving(paper) : working[g].state = paper[g].run[Len(paper[g].run)]
  BY <1>1, <1>2, WorkingIs
<1>4. /\ DOMAIN paper = Sold(paper) \cup Moving(paper)
      /\ \A g \in Moving(paper) : paper[g].run \in Runs /\ paper[g].run # <<>>
  BY <1>1, PapersAre
<1> HIDE DEF working, paper
<1>5. \A g \in DOMAIN paper : [state |-> working[g].state, rotation |-> working[g].rotation] \in References
  BY <1>3 DEF References
<1>6. ReferencesTyped'
  BY <1>2, <1>5 DEF ReferencesTyped
<1>7. ASSUME NEW g \in Groups, reference[g] # NONE, reference'[g] # reference[g]
      PROVE  /\ reference'[g] # NONE
             /\ reference'[g].rotation = reference[g].rotation
             /\ Progress(reference'[g]) > Progress(reference[g])
  <2>1. g \in DOMAIN paper /\ g \notin Sold(paper) /\ g \in Moving(paper)
    BY <1>2, <1>4, <1>7
  <2>2. /\ reference[g] \in References /\ reference'[g] \in References
        /\ reference'[g].rotation = reference[g].rotation
        /\ reference'[g].state = paper[g].run[Len(paper[g].run)]
    BY <1>2, <1>3, <1>5, <2>1
  <2>3. MayTurn(reference[g].state, paper[g].run[1])
    <3>1. StateBefore(g, paper) = reference[g].state
      BY <1>4, <1>7, <2>1 DEF StateBefore, Sold
    <3> QED  BY <1>2, <2>1, <3>1 DEF RunFollows
  <2>4. reference[g].state \in {"DRAFT"} \cup Events
    BY <2>2 DEF References
  <2>5. Rank(reference'[g].state) > Rank(reference[g].state)
    BY <1>4, <2>1, <2>2, <2>3, <2>4, RunsMoveOn
  <2> QED  BY <2>2, <2>5, ProgressIs, NoneIsNoReference
<1> QED  BY <1>6, <1>7

RowsOfPaper == BatchShape /\ ReferencesTyped

\* Any other step of the recovery leaves the references alone, and the rows of the
\* event too unless it is a command of the event.
LEMMA OtherSteps ==
  ASSUME [RecoveryNext]_allVars,
         ~\E b \in Batches : \E rows \in NewRowsOf(batch[b].paper) : ApplyOutageRecovery(b, rows)
  PROVE  [Next]_vars /\ UNCHANGED reference
  BY DEF RecoveryNext, LiveStep, PaperStep, StageOutageRecovery, StageConflicted, Stage,
     ApproveOutageRecovery, allVars, recoveryVars

LEMMA ReferencesMove ==
  ASSUME RowsOfPaper, RecoveryNext
  PROVE  /\ RowsOfPaper'
         /\ \A g \in Groups : reference[g] # NONE /\ reference'[g] # reference[g] =>
              /\ reference'[g] # NONE
              /\ reference'[g].rotation = reference[g].rotation
              /\ Progress(reference'[g]) > Progress(reference[g])
<1> USE DEF RowsOfPaper
<1>1. BatchShape'
  <2>1. NextBatch \subseteq Batches
    BY DEF NextBatch
  <2>2. ASSUME NEW b \in Batches, NEW d \in Devices, ApproveOutageRecovery(b, d) PROVE BatchShape'
    BY <2>2, ApprovedShape
  <2> QED
    BY <2>1, <2>2, LiveStepShape, StagedVerdict, ConflictedShape, AppliedShape
    DEF RecoveryNext, PaperStep
<1>2. CASE \E b \in Batches : \E rows \in NewRowsOf(batch[b].paper) : ApplyOutageRecovery(b, rows)
  BY <1>1, <1>2, AppliedReferences DEF BatchShape
<1>3. CASE ~\E b \in Batches : \E rows \in NewRowsOf(batch[b].paper) : ApplyOutageRecovery(b, rows)
  <2>1. UNCHANGED reference
    BY <1>3, OtherSteps
  <2> QED  BY <1>1, <2>1 DEF ReferencesTyped
<1> QED  BY <1>2, <1>3

LEMMA RowsOfPaperInit == RecoveryInit => RowsOfPaper
<1>1. RecoveryInit => BatchShape
  BY WindowInit
<1> QED  BY <1>1 DEF RowsOfPaper, RecoveryInit, ReferencesTyped

LEMMA RowsOfPaperStay == RowsOfPaper /\ [RecoveryNext]_allVars => RowsOfPaper'
<1>1. RowsOfPaper /\ UNCHANGED allVars => RowsOfPaper'
  BY DEF RowsOfPaper, allVars, recoveryVars, BatchShape, BatchesTyped, ReferencesTyped
<1> QED  BY <1>1, ReferencesMove

\* However many batches are staged side by side: nothing but an applied batch
\* writes the paper record of a booking, and that only moves it forward.
THEOREM PaperOnlyMovesOn == RecoverySpec => PaperMovesOn
<1>1. RowsOfPaper /\ [RecoveryNext]_allVars =>
        [\A g \in Groups : reference[g] # NONE /\ reference'[g] # reference[g] =>
           /\ reference'[g] # NONE
           /\ reference'[g].rotation = reference[g].rotation
           /\ Progress(reference'[g]) > Progress(reference[g])]_allVars
  BY ReferencesMove
<1>2. RecoverySpec => []RowsOfPaper
  BY RowsOfPaperInit, RowsOfPaperStay, PTL DEF RecoverySpec
<1> QED  BY <1>1, <1>2, PTL DEF RecoverySpec, PaperMovesOn

-----------------------------------------------------------------------------
\* Who holds aircraft and pilots.  The commands of the event come first.

HolderInv == TypeOK /\ Unbound /\ SeatedInLiveRotation /\ OneHolder

LEMMA CallHolds ==
  ASSUME HolderInv, NEW r \in Rotations, NEW a \in Aircraft, NEW p \in Pilots, CallsUp(r, a, p)
  PROVE  OneHolder'
<1> USE DEF HolderInv
<1>1. /\ ~Active(r) /\ aircraftState[a] \in IdleStates /\ PilotFree(p)
      /\ OthersRest({r})
      /\ aircraftOf' = [aircraftOf EXCEPT ![r] = a]
      /\ pilotOf' = [pilotOf EXCEPT ![r] = p]
      /\ aircraftState' = [aircraftState EXCEPT ![a] = "BOARDING"]
  BY DEF CallsUp, CrewReady, Active, ActiveStates, IdleStates
<1>2. aircraftOf'[r] = a /\ pilotOf'[r] = p /\ aircraftState'[a] = "BOARDING"
  BY <1>1 DEF TypeOK
<1>3. \A q \in Rotations \ {r} : aircraftOf'[q] = aircraftOf[q] /\ pilotOf'[q] = pilotOf[q]
  BY <1>1 DEF TypeOK
<1>4. ASSUME NEW q \in Rotations \ {r}, rotationState'[q] \in ActiveStates
      PROVE  /\ Active(q) /\ aircraftOf[q] \in Aircraft \ {a} /\ pilotOf[q] # NONE /\ pilotOf[q] # p
             /\ aircraftState'[aircraftOf[q]] \notin IdleStates
  <2>1. Active(q)
    BY <1>1, <1>4 DEF OthersRest, Active
  <2>2. aircraftOf[q] \in Aircraft /\ pilotOf[q] # NONE /\ aircraftState[aircraftOf[q]] \notin IdleStates
    BY <2>1 DEF OneHolder, TypeOK
  <2>3. aircraftOf[q] # a /\ pilotOf[q] # p
    BY <1>1, <2>1, <2>2 DEF PilotFree
  <2> QED  BY <1>1, <2>1, <2>2, <2>3 DEF TypeOK
<1>5. "BOARDING" \notin IdleStates /\ a # NONE /\ p # NONE
  BY NoneAssumption DEF IdleStates
<1>6. ASSUME NEW q \in Rotations, rotationState'[q] \in ActiveStates
      PROVE  /\ aircraftOf'[q] # NONE /\ pilotOf'[q] # NONE
             /\ aircraftState'[aircraftOf'[q]] \notin IdleStates
             /\ \A o \in Rotations \ {q} : rotationState'[o] \in ActiveStates =>
                  aircraftOf'[o] # aircraftOf'[q] /\ pilotOf'[o] # pilotOf'[q]
  <2>1. CASE q = r
    BY <1>2, <1>3, <1>4, <1>5, <2>1
  <2>2. CASE q # r
    <3>1. /\ aircraftOf'[q] # NONE /\ pilotOf'[q] # NONE
          /\ aircraftState'[aircraftOf'[q]] \notin IdleStates
      BY <1>3, <1>4, <1>6, <2>2, NoneAssumption
    <3>2. ASSUME NEW o \in Rotations \ {q}, rotationState'[o] \in ActiveStates
          PROVE  aircraftOf'[o] # aircraftOf'[q] /\ pilotOf'[o] # pilotOf'[q]
      <4>1. CASE o = r
        BY <1>2, <1>3, <1>4, <1>6, <2>2, <4>1
      <4>2. CASE o # r
        <5>1. Active(o) /\ Active(q)
          BY <1>4, <1>6, <2>2, <3>2, <4>2
        <5> QED  BY <1>3, <2>2, <3>2, <4>2, <5>1 DEF OneHolder
      <4> QED  BY <4>1, <4>2
    <3> QED  BY <3>1, <3>2
  <2> QED  BY <2>1, <2>2
<1> QED  BY <1>6 DEF OneHolder, Active

\* When nobody becomes active and those who stay keep aircraft and pilot, only the
\* state of an aircraft is at stake.
LEMMA NobodyNewHolds ==
  ASSUME HolderInv,
         \A q \in Rotations : rotationState'[q] \in ActiveStates =>
           /\ Active(q) /\ aircraftOf'[q] = aircraftOf[q] /\ pilotOf'[q] = pilotOf[q]
           /\ aircraftState'[aircraftOf[q]] \notin IdleStates
  PROVE  OneHolder'
  BY DEF HolderInv, OneHolder, Active

LEMMA TurnHolds ==
  ASSUME HolderInv, NEW r \in Rotations, NEW to, NEW craft, TurnsTo(r, to, craft)
  PROVE  OneHolder'
<1> USE DEF HolderInv
<1>1. /\ Active(r)
      /\ to = "COMPLETED" \/ craft \notin IdleStates
      /\ rotationState' = [rotationState EXCEPT ![r] = to]
      /\ aircraftState' = [aircraftState EXCEPT ![aircraftOf[r]] = craft]
      /\ UNCHANGED <<aircraftOf, pilotOf>>
  BY DEF TurnsTo, Turns, Active, ActiveStates, IdleStates
<1>2. /\ \A q \in Rotations \ {r} : rotationState'[q] = rotationState[q]
      /\ rotationState'[r] = to
      /\ \A a \in Aircraft : aircraftState'[a] = IF a = aircraftOf[r] THEN craft ELSE aircraftState[a]
  BY <1>1 DEF TypeOK
<1>3. \A q \in Rotations : Active(q) =>
        aircraftOf[q] \in Aircraft /\ aircraftState[aircraftOf[q]] \notin IdleStates
  BY DEF OneHolder, TypeOK
<1>4. \A q \in Rotations \ {r} : Active(q) => aircraftOf[q] # aircraftOf[r]
  BY <1>1 DEF OneHolder
<1>5. "COMPLETED" \notin ActiveStates
  BY DEF ActiveStates
<1>6. ASSUME NEW q \in Rotations, rotationState'[q] \in ActiveStates
      PROVE  /\ Active(q) /\ aircraftOf'[q] = aircraftOf[q] /\ pilotOf'[q] = pilotOf[q]
             /\ aircraftState'[aircraftOf[q]] \notin IdleStates
  <2>1. CASE q = r
    BY <1>1, <1>2, <1>3, <1>5, <1>6, <2>1
  <2>2. CASE q # r
    <3>1. Active(q)
      BY <1>2, <1>6, <2>2 DEF Active
    <3> QED  BY <1>1, <1>2, <1>3, <1>4, <2>2, <3>1
  <2> QED  BY <2>1, <2>2
<1> QED  BY <1>6, NobodyNewHolds

LEMMA BackHolds ==
  ASSUME HolderInv, NEW r \in Rotations, NEW craft, GoesBack(r, craft)
  PROVE  OneHolder'
<1> USE DEF HolderInv
<1>1. /\ Active(r)
      /\ rotationState' = [rotationState EXCEPT ![r] = "DRAFT"]
      /\ aircraftOf' = [aircraftOf EXCEPT ![r] = NONE]
      /\ pilotOf' = [pilotOf EXCEPT ![r] = NONE]
      /\ aircraftState' = [aircraftState EXCEPT ![aircraftOf[r]] = craft]
  BY DEF GoesBack, Active, ActiveStates
<1>2. /\ rotationState'[r] = "DRAFT"
      /\ \A q \in Rotations \ {r} : /\ rotationState'[q] = rotationState[q]
                                    /\ aircraftOf'[q] = aircraftOf[q] /\ pilotOf'[q] = pilotOf[q]
      /\ \A a \in Aircraft \ {aircraftOf[r]} : aircraftState'[a] = aircraftState[a]
  BY <1>1 DEF TypeOK
<1>3. \A q \in Rotations \ {r} : Active(q) =>
        aircraftOf[q] \in Aircraft \ {aircraftOf[r]} /\ aircraftState[aircraftOf[q]] \notin IdleStates
  BY <1>1 DEF OneHolder, TypeOK
<1>4. ASSUME NEW q \in Rotations, rotationState'[q] \in ActiveStates PROVE q # r /\ Active(q)
  BY <1>2, <1>4 DEF ActiveStates, Active
<1> QED  BY <1>2, <1>3, <1>4, NobodyNewHolds

LEMMA StandDownHolds ==
  ASSUME HolderInv, NEW C \in SUBSET Rotations, StandsDown(C)
  PROVE  OneHolder'
<1> USE DEF HolderInv
<1>1. ASSUME NEW q \in Rotations, rotationState'[q] \in ActiveStates PROVE Active(q) /\ q \notin C
  BY <1>1 DEF StandsDown, OthersRest, Active, ActiveStates
<1>2. ASSUME NEW q \in Rotations \ C, Active(q), NEW c \in C PROVE aircraftOf[c] # aircraftOf[q]
  <2>1. CASE Active(c)
    BY <1>2, <2>1 DEF OneHolder
  <2>2. CASE ~Active(c)
    BY <1>2, <2>2 DEF StandsDown, Unbound, OneHolder, Active, ActiveStates
  <2> QED  BY <2>1, <2>2
<1>3. ASSUME NEW q \in Rotations \ C, Active(q)
      PROVE  aircraftState'[aircraftOf[q]] \notin IdleStates
  <2>1. aircraftOf[q] \in Aircraft /\ aircraftState[aircraftOf[q]] \notin IdleStates
    BY <1>3 DEF OneHolder, TypeOK
  <2>2. aircraftOf[q] \notin {aircraftOf[c] : c \in C}
    BY <1>2, <1>3
  <2> QED  BY <2>1, <2>2 DEF StandsDown, FreeAircraftOf
<1>4. UNCHANGED <<aircraftOf, pilotOf>>
  BY DEF StandsDown
<1> QED  BY <1>1, <1>3, <1>4, NobodyNewHolds

LEMMA CrewHolds ==
  ASSUME HolderInv, NEW a \in Aircraft, NEW p \in Pilots, NEW r \in ActiveRotationOf(a), Crews(a, p, r)
  PROVE  OneHolder'
<1> USE DEF HolderInv
<1>1. /\ UNCHANGED <<rotationState, aircraftOf, aircraftState>>
      /\ \A q \in Rotations : pilotOf'[q] = IF q = r THEN p ELSE pilotOf[q]
      /\ \A q \in Rotations : Active(q) /\ pilotOf[q] = p => q = r
  BY DEF Crews, AssignmentAllowed
<1>2. p # NONE
  BY NoneAssumption
<1>3. \A q \in Rotations : Active(q) =>
        /\ aircraftOf[q] # NONE /\ pilotOf[q] # NONE /\ aircraftState[aircraftOf[q]] \notin IdleStates
        /\ \A o \in Rotations \ {q} : Active(o) =>
             aircraftOf[o] # aircraftOf[q] /\ pilotOf[o] # pilotOf[q]
  BY DEF OneHolder
<1>4. ASSUME NEW q \in Rotations, Active(q), NEW o \in Rotations \ {q}, Active(o)
      PROVE  pilotOf'[o] # pilotOf'[q]
  <2>1. CASE q = r
    BY <1>1, <1>4, <2>1
  <2>2. CASE o = r
    BY <1>1, <1>4, <2>2
  <2>3. CASE q # r /\ o # r
    BY <1>1, <1>3, <1>4, <2>3
  <2> QED  BY <2>1, <2>2, <2>3
<1> QED  BY <1>1, <1>2, <1>3, <1>4 DEF OneHolder, Active

LEMMA MoveHolds ==
  ASSUME HolderInv, RotationMove
  PROVE  OneHolder'
<1>1. ASSUME NEW a \in Aircraft, NEW s, Services(a, s) PROVE OneHolder'
  <2>1. ASSUME NEW q \in Rotations, Active(q)
        PROVE  aircraftState'[aircraftOf[q]] \notin IdleStates
    <3>1. aircraftOf[q] \in Aircraft /\ aircraftState[aircraftOf[q]] \notin IdleStates
      BY <2>1 DEF HolderInv, OneHolder, TypeOK
    <3> QED  BY <1>1, <3>1 DEF Services, HolderInv, TypeOK
  <2> QED  BY <1>1, <2>1, NobodyNewHolds DEF Services, Active
<1>2. ASSUME Pauses PROVE OneHolder'
  BY <1>2 DEF Pauses, HolderInv, OneHolder, Active
<1> QED
  BY <1>1, <1>2, CallHolds, TurnHolds, BackHolds, StandDownHolds, CrewHolds DEF RotationMove

LEMMA LiveStepHolds ==
  ASSUME "CANCEL_ROTATION" \notin Commands, HolderInv, [Next]_vars
  PROVE  HolderInv'
<1>1. RowsInv
  BY DEF HolderInv, RowsInv, Held, OneHolder
<1> QED  BY <1>1, NextIsMove, MoveHolds DEF HolderInv

-----------------------------------------------------------------------------
\* A batch of paper, which comes next.

PaperOf(b) == batch[b].paper
WorkingOf(b, rows) == Working(PaperOf(b), rows)
MovedBy(b, rows) == {WorkingOf(b, rows)[g].rotation : g \in Moving(PaperOf(b))}
MoverOf(b, rows, r) == CHOOSE g \in Moving(PaperOf(b)) : WorkingOf(b, rows)[g].rotation = r
FlierOf(b, rows, a) ==
  CHOOSE g \in UnderWay(WorkingOf(b, rows)) : WorkingOf(b, rows)[g].aircraft = a

\* The rows of rotations and aircraft a batch writes.
LEMMA ApplyIs ==
  ASSUME NEW b, NEW rows, ApplyOutageRecovery(b, rows)
  PROVE  LET paper == PaperOf(b)
             working == WorkingOf(b, rows)
             moved == MovedBy(b, rows)
         IN
         /\ \A g \in Moving(paper) : RunFollows(g, paper) /\ AssignmentFits(paper[g], working[g])
         /\ \A g \in UnderWay(working) : AssignmentAvailable(g, working)
         /\ rotationState' = [r \in Rotations |->
              IF r \in moved THEN working[MoverOf(b, rows, r)].state
              ELSE IF \E g \in Sold(paper) : rows[g] = r THEN "DRAFT" ELSE rotationState[r]]
         /\ aircraftOf' = [r \in Rotations |->
              IF r \in moved THEN working[MoverOf(b, rows, r)].aircraft ELSE aircraftOf[r]]
         /\ pilotOf' = [r \in Rotations |->
              IF r \in moved THEN working[MoverOf(b, rows, r)].pilot ELSE pilotOf[r]]
         /\ seat' = [t \in Tickets |-> IF GroupOf[t] \in Sold(paper) THEN rows[GroupOf[t]] ELSE seat[t]]
         /\ aircraftState' = [a \in Aircraft |->
              IF \E g \in UnderWay(working) : working[g].aircraft = a
                THEN RecoveredAircraftState(working[FlierOf(b, rows, a)].state)
              ELSE aircraftState[a]]
  BY DEF ApplyOutageRecovery, PaperOf, WorkingOf, MovedBy, MoverOf, FlierOf

LEMMA WorkingCrews ==
  ASSUME TypeOK, ReferencesTyped, NEW paper \in Papers \cup {NoPaper}, NEW rows \in NewRowsOf(paper),
         \A g \in Moving(paper) : RunFollows(g, paper), NEW g \in DOMAIN Working(paper, rows)
  PROVE  LET working == Working(paper, rows) IN
         /\ working[g].aircraft \in Aircraft \cup {NONE}
         /\ working[g].pilot \in Pilots \cup {NONE}
         /\ g \notin Moving(paper) => /\ working[g].aircraft = aircraftOf[working[g].rotation]
                                      /\ working[g].pilot = pilotOf[working[g].rotation]
<1> DEFINE working == Working(paper, rows)
           called == g \in Moving(paper) /\ Calls(paper[g])
<1>1. working[g].rotation \in Rotations
  BY WorkingIs
<1>2. working[g].rotation = IF g \in Sold(paper) THEN rows[g] ELSE reference[g].rotation
  BY WorkingIs
<1>3. /\ working[g].aircraft = IF called THEN paper[g].aircraft ELSE aircraftOf[working[g].rotation]
      /\ working[g].pilot = IF called THEN paper[g].pilot ELSE pilotOf[working[g].rotation]
  BY <1>2 DEF Working
<1>4. called => paper[g].aircraft \in Aircraft /\ paper[g].pilot \in Pilots
  BY PapersAre
<1>5. /\ aircraftOf[working[g].rotation] \in Aircraft \cup {NONE}
      /\ pilotOf[working[g].rotation] \in Pilots \cup {NONE}
  BY <1>1 DEF TypeOK
<1> HIDE DEF working
<1> QED  BY <1>3, <1>4, <1>5 DEF working

\* A rotation the batch moves has one of its references behind it ...
LEMMA MovedRotations ==
  ASSUME TypeOK, ReferencesTyped, BatchesTyped, NEW b \in Batches, NEW rows \in NewRowsOf(PaperOf(b)),
         ApplyOutageRecovery(b, rows), NEW r \in MovedBy(b, rows)
  PROVE  LET g == MoverOf(b, rows, r)
             ref == WorkingOf(b, rows)[g]
         IN  /\ g \in Moving(PaperOf(b)) /\ g \in DOMAIN WorkingOf(b, rows)
             /\ r \in Rotations /\ ref.rotation = r
             /\ ref.state \in Events /\ ref.aircraft \in Aircraft /\ ref.pilot \in Pilots
             /\ rotationState'[r] = ref.state /\ aircraftOf'[r] = ref.aircraft /\ pilotOf'[r] = ref.pilot
             /\ ref.state # "COMPLETED" => g \in UnderWay(WorkingOf(b, rows))
<1> DEFINE g == MoverOf(b, rows, r)
           working == WorkingOf(b, rows)
           paper == PaperOf(b)
<1>1. g \in Moving(paper) /\ working[g].rotation = r
  BY DEF MovedBy, MoverOf
<1>2. paper \in Papers \cup {NoPaper}
  BY DEF BatchesTyped, BatchRecords, PaperOf
<1>3. \A h \in Moving(paper) : RunFollows(h, paper) /\ AssignmentFits(paper[h], working[h])
  BY ApplyIs
<1>4. g \in DOMAIN working /\ working[g].rotation \in Rotations /\ working[g].state \in Events
  <2>1. g \in DOMAIN paper
    BY <1>1, <1>2, PapersAre
  <2> QED  BY <1>1, <1>2, <1>3, <2>1, WorkingIs DEF WorkingOf
<1>5. working[g].aircraft \in Aircraft \cup {NONE} /\ working[g].pilot \in Pilots \cup {NONE}
  BY <1>2, <1>3, <1>4, WorkingCrews DEF WorkingOf
<1>6. working[g].aircraft # NONE /\ working[g].pilot # NONE
  BY <1>1, <1>3 DEF AssignmentFits
<1>7. /\ rotationState'[r] = working[g].state
      /\ aircraftOf'[r] = working[g].aircraft /\ pilotOf'[r] = working[g].pilot
  BY <1>1, <1>4, ApplyIs
<1>8. working[g].state # "COMPLETED" => g \in UnderWay(working)
  BY <1>4, <1>6 DEF UnderWay, Events
<1> QED  BY <1>1, <1>4, <1>5, <1>6, <1>7, <1>8

\* ... and any other keeps its row, unless a sale has created it.
LEMMA UnmovedRotations ==
  ASSUME ReferencesTyped, BatchesTyped, NEW b \in Batches, NEW rows \in NewRowsOf(PaperOf(b)),
         ApplyOutageRecovery(b, rows), NEW r \in Rotations \ MovedBy(b, rows)
  PROVE  /\ aircraftOf'[r] = aircraftOf[r] /\ pilotOf'[r] = pilotOf[r]
         /\ IF \E g \in Sold(PaperOf(b)) : rows[g] = r
            THEN rotationState[r] = "FREE" /\ rotationState'[r] = "DRAFT"
            ELSE rotationState'[r] = rotationState[r]
<1>1. PaperOf(b) \in Papers \cup {NoPaper}
  BY DEF BatchesTyped, BatchRecords, PaperOf
<1>2. \A g \in Sold(PaperOf(b)) : rotationState[rows[g]] = "FREE"
  BY <1>1, ApplyIs, WorkingIs
<1> QED  BY <1>2, ApplyIs

LEMMA ApplyTypes ==
  ASSUME TypeOK, ReferencesTyped, BatchesTyped, NEW b \in Batches, NEW rows \in NewRowsOf(PaperOf(b)),
         ApplyOutageRecovery(b, rows)
  PROVE  TypeOK'
<1> DEFINE working == WorkingOf(b, rows)
           paper == PaperOf(b)
<1>1. /\ paper \in Papers \cup {NoPaper}
      /\ \A g \in Moving(paper) : RunFollows(g, paper)
  BY ApplyIs DEF BatchesTyped, BatchRecords, PaperOf
<1>2. \A g \in Sold(paper) : rows[g] \in Rotations
  BY <1>1, WorkingIs
<1>3. \A g \in Moving(paper) : working[g].rotation \in Rotations /\ working[g].state \in Events
  <2>1. \A g \in Moving(paper) : g \in DOMAIN paper
    BY <1>1, PapersAre
  <2> QED  BY <1>1, <2>1, WorkingIs DEF WorkingOf
<1>4. \A g \in DOMAIN working : working[g].state \in {"DRAFT"} \cup Events
  BY <1>1, WorkingIs DEF WorkingOf
<1> HIDE DEF working, paper
<1>5. /\ rotationState' \in [Rotations -> RotationStates]
      /\ aircraftOf' \in [Rotations -> Aircraft \cup {NONE}]
      /\ pilotOf' \in [Rotations -> Pilots \cup {NONE}]
  <2>1. ASSUME NEW r \in Rotations
        PROVE  /\ rotationState'[r] \in RotationStates
               /\ aircraftOf'[r] \in Aircraft \cup {NONE} /\ pilotOf'[r] \in Pilots \cup {NONE}
    <3>1. CASE r \in MovedBy(b, rows)
      BY <3>1, MovedRotations DEF Events, RotationStates
    <3>2. CASE r \notin MovedBy(b, rows)
      <4>1. /\ rotationState'[r] \in {"DRAFT", rotationState[r]}
            /\ aircraftOf'[r] = aircraftOf[r] /\ pilotOf'[r] = pilotOf[r]
        BY <3>2, UnmovedRotations
      <4> QED  BY <4>1 DEF TypeOK, RotationStates
    <3> QED  BY <3>1, <3>2
  <2>2. /\ rotationState' = [r \in Rotations |-> rotationState'[r]]
        /\ aircraftOf' = [r \in Rotations |-> aircraftOf'[r]]
        /\ pilotOf' = [r \in Rotations |-> pilotOf'[r]]
    BY ApplyIs
  <2> QED  BY <2>1, <2>2
<1>6. wasCalled' \subseteq Rotations
  <2>1. wasCalled' = wasCalled \cup {working[g].rotation : g \in {h \in Moving(paper) : Calls(paper[h])}}
    BY DEF ApplyOutageRecovery, working, WorkingOf, paper, PaperOf
  <2> QED  BY <1>3, <2>1 DEF TypeOK
<1>7. seat' \in [Tickets -> Rotations \cup {NONE}]
  BY <1>2, ApplyIs DEF TypeOK, paper
<1>8. ticketState' \in [Tickets -> TicketStates]
  <2>1. ticketState' = [t \in Tickets |->
          IF \E g \in Moving(paper) : t \in Carried(g, paper)
            THEN working[CHOOSE g \in Moving(paper) : t \in Carried(g, paper)].state
          ELSE IF GroupOf[t] \in Sold(paper) THEN "QUEUED" ELSE ticketState[t]]
    BY DEF ApplyOutageRecovery, working, WorkingOf, paper, PaperOf
  <2>2. \A t \in Tickets : (\E g \in Moving(paper) : t \in Carried(g, paper))
          => working[CHOOSE g \in Moving(paper) : t \in Carried(g, paper)].state \in Events
    BY <1>3
  <2>3. Events \subseteq TicketStates /\ "QUEUED" \in TicketStates
    BY DEF Events, TicketStates
  <2> QED  BY <2>1, <2>2, <2>3 DEF TypeOK
<1>9. groupState' \in [Groups -> GroupStates]
  <2>1. groupState' = [g \in Groups |-> IF g \in Sold(paper) THEN "QUEUED" ELSE groupState[g]]
    BY DEF ApplyOutageRecovery, paper, PaperOf
  <2> QED  BY <2>1 DEF TypeOK, GroupStates
<1>10. aircraftState' \in [Aircraft -> AircraftStates]
  <2>1. ASSUME NEW a \in Aircraft, \E g \in UnderWay(working) : working[g].aircraft = a
        PROVE  RecoveredAircraftState(working[FlierOf(b, rows, a)].state) \in AircraftStates
    <3>1. FlierOf(b, rows, a) \in UnderWay(working)
      BY <2>1 DEF FlierOf, working
    <3>2. working[FlierOf(b, rows, a)].state \in {"CALLED", "IN_FLIGHT", "LANDED"}
      BY <1>4, <3>1 DEF UnderWay, Events
    <3> QED  BY <3>2 DEF RecoveredAircraftState, AircraftStates
  <2>2. aircraftState \in [Aircraft -> AircraftStates]
    BY DEF TypeOK
  <2> QED  BY <2>1, <2>2, ApplyIs DEF working
<1>11. UNCHANGED <<usable, released, checkedIn, deferrals, currentPilot, paused, halted>>
  BY DEF ApplyOutageRecovery
<1> QED  BY <1>5, <1>6, <1>7, <1>8, <1>9, <1>10, <1>11 DEF TypeOK

\* Each row of the event, of the references and of the batches keeps a value its
\* column allows, with every command and any paper.
THEOREM RowsAreTyped == RecoverySpec => [](TypeOK /\ RowsOfPaper)
<1>1. RecoveryInit => TypeOK
  BY InitTyped DEF RecoveryInit
<1>2. ASSUME TypeOK, RowsOfPaper, NEW b \in Batches, NEW rows \in NewRowsOf(batch[b].paper),
             ApplyOutageRecovery(b, rows)
      PROVE  TypeOK'
  <2>1. ReferencesTyped /\ BatchesTyped /\ rows \in NewRowsOf(PaperOf(b))
    BY <1>2 DEF RowsOfPaper, BatchShape, PaperOf
  <2> QED  BY <1>2, <2>1, ApplyTypes
<1>3. TypeOK /\ RowsOfPaper /\ [RecoveryNext]_allVars => TypeOK'
  <2> SUFFICES ASSUME TypeOK, RowsOfPaper, [RecoveryNext]_allVars PROVE TypeOK'
    OBVIOUS
  <2>1. CASE \E b \in Batches : \E rows \in NewRowsOf(batch[b].paper) : ApplyOutageRecovery(b, rows)
    BY <1>2, <2>1
  <2>2. CASE ~\E b \in Batches : \E rows \in NewRowsOf(batch[b].paper) : ApplyOutageRecovery(b, rows)
    BY <2>2, OtherSteps, NextTyped
  <2> QED  BY <2>1, <2>2
<1> QED  BY <1>1, <1>3, RowsOfPaperInit, RowsOfPaperStay, PTL DEF RecoverySpec

LEMMA ApplySeats ==
  ASSUME TypeOK, Unbound, SeatedInLiveRotation, ReferencesTyped, BatchesTyped,
         NEW b \in Batches, NEW rows \in NewRowsOf(PaperOf(b)), ApplyOutageRecovery(b, rows)
  PROVE  Unbound' /\ SeatedInLiveRotation'
<1>1. ASSUME NEW r \in MovedBy(b, rows) PROVE rotationState'[r] \notin {"FREE", "DRAFT", "CANCELED"}
  BY <1>1, MovedRotations DEF Events
<1>2. ASSUME NEW r \in Rotations \ MovedBy(b, rows)
      PROVE  /\ aircraftOf'[r] = aircraftOf[r] /\ pilotOf'[r] = pilotOf[r]
             /\ rotationState'[r] \in {"FREE", "DRAFT"} => rotationState[r] \in {"FREE", "DRAFT"}
             /\ rotationState'[r] \in {"FREE", "CANCELED"} => rotationState'[r] = rotationState[r]
             /\ (\E g \in Sold(PaperOf(b)) : rows[g] = r) => rotationState'[r] = "DRAFT"
  BY <1>2, UnmovedRotations
<1>3. Unbound'
  BY <1>1, <1>2 DEF Unbound
<1>4. PaperOf(b) \in Papers \cup {NoPaper} /\ \A g \in Moving(PaperOf(b)) : RunFollows(g, PaperOf(b))
  BY ApplyIs DEF BatchesTyped, BatchRecords, PaperOf
<1>5. ASSUME NEW t \in Tickets, seat'[t] # NONE
      PROVE  rotationState'[seat'[t]] \notin {"FREE", "CANCELED"}
  <2>1. CASE GroupOf[t] \in Sold(PaperOf(b))
    <3>1. seat'[t] = rows[GroupOf[t]] /\ seat'[t] \in Rotations
      BY <1>4, <2>1, ApplyIs, WorkingIs
    <3> QED  BY <1>1, <1>2, <2>1, <3>1
  <2>2. CASE GroupOf[t] \notin Sold(PaperOf(b))
    <3>1. seat'[t] = seat[t] /\ seat[t] \in Rotations
      BY <1>5, <2>2, ApplyIs DEF TypeOK
    <3>2. rotationState[seat[t]] \notin {"FREE", "CANCELED"}
      BY <1>5, <3>1 DEF SeatedInLiveRotation
    <3> QED  BY <1>1, <1>2, <3>1, <3>2
  <2> QED  BY <2>1, <2>2
<1> QED  BY <1>3, <1>5 DEF SeatedInLiveRotation

LEMMA ApplyHolds ==
  ASSUME HolderInv, ReferencesTyped, BatchesTyped,
         NEW b \in Batches, NEW rows \in NewRowsOf(PaperOf(b)), ApplyOutageRecovery(b, rows)
  PROVE  OneHolder'
<1> USE DEF HolderInv
<1> DEFINE working == WorkingOf(b, rows)
           moved == MovedBy(b, rows)
           mover(r) == MoverOf(b, rows, r)
           flying == UnderWay(working)
           WillFly(r) == rotationState'[r] \in ActiveStates
\* Moved or not, the references under way keep other rotations off their crews.
<1>1. ASSUME NEW r \in moved, WillFly(r)
      PROVE  /\ mover(r) \in flying /\ working[mover(r)].rotation = r
             /\ aircraftOf'[r] = working[mover(r)].aircraft /\ aircraftOf'[r] \in Aircraft
             /\ pilotOf'[r] = working[mover(r)].pilot /\ pilotOf'[r] \in Pilots
  BY <1>1, MovedRotations DEF ActiveStates
<1>2. ASSUME NEW r \in Rotations \ moved, WillFly(r)
      PROVE  /\ Active(r) /\ aircraftOf'[r] = aircraftOf[r] /\ pilotOf'[r] = pilotOf[r]
             /\ aircraftOf[r] \in Aircraft /\ pilotOf[r] # NONE
             /\ aircraftState[aircraftOf[r]] \notin IdleStates
  <2>1. Active(r) /\ aircraftOf'[r] = aircraftOf[r] /\ pilotOf'[r] = pilotOf[r]
    BY <1>2, UnmovedRotations DEF Active, ActiveStates
  <2> QED  BY <2>1 DEF OneHolder, TypeOK
<1>3. ASSUME NEW g \in flying
      PROVE  /\ \A r \in {q \in Rotations : Active(q)} \ {working[h].rotation : h \in flying} :
                  aircraftOf[r] # working[g].aircraft /\ pilotOf[r] # working[g].pilot
             /\ \A h \in flying \ {g} :
                  working[h].aircraft # working[g].aircraft /\ working[h].pilot # working[g].pilot
  BY <1>3, ApplyIs DEF AssignmentAvailable
<1>4. ASSUME NEW h \in flying, working[h].rotation \in Rotations \ moved
      PROVE  /\ working[h].aircraft = aircraftOf[working[h].rotation]
             /\ working[h].pilot = pilotOf[working[h].rotation]
  <2>1. PaperOf(b) \in Papers \cup {NoPaper} /\ \A g \in Moving(PaperOf(b)) : RunFollows(g, PaperOf(b))
    BY ApplyIs DEF BatchesTyped, BatchRecords, PaperOf
  <2>2. h \notin Moving(PaperOf(b)) /\ h \in DOMAIN working
    BY <1>4 DEF MovedBy, UnderWay
  <2> QED  BY <2>1, <2>2, WorkingCrews DEF WorkingOf
<1>5. \A a \in Aircraft : aircraftState'[a] \in IdleStates =>
        aircraftState'[a] = aircraftState[a] /\ \A g \in flying : working[g].aircraft # a
  <2> SUFFICES ASSUME NEW a \in Aircraft, aircraftState'[a] \in IdleStates,
                      aircraftState'[a] # aircraftState[a] \/ \E g \in flying : working[g].aircraft = a
               PROVE  FALSE
    OBVIOUS
  <2>1. \E g \in flying : working[g].aircraft = a
    BY ApplyIs
  <2>2. FlierOf(b, rows, a) \in flying
    BY <2>1 DEF FlierOf
  <2>3. aircraftState'[a] = RecoveredAircraftState(working[FlierOf(b, rows, a)].state)
    BY <2>1, ApplyIs
  <2>4. working[FlierOf(b, rows, a)].state \in {"CALLED", "IN_FLIGHT", "LANDED"}
    <3>1. PaperOf(b) \in Papers \cup {NoPaper} /\ \A g \in Moving(PaperOf(b)) : RunFollows(g, PaperOf(b))
      BY ApplyIs DEF BatchesTyped, BatchRecords, PaperOf
    <3>2. working[FlierOf(b, rows, a)].state \in {"DRAFT"} \cup Events
      BY <2>2, <3>1, WorkingIs DEF WorkingOf, UnderWay
    <3> QED  BY <2>2, <3>2 DEF UnderWay, Events
  <2> QED  BY <2>3, <2>4 DEF RecoveredAircraftState, IdleStates
<1> HIDE DEF working, moved, mover, flying
<1>6. ASSUME NEW r \in Rotations, WillFly(r)
      PROVE  /\ aircraftOf'[r] # NONE /\ pilotOf'[r] # NONE
             /\ aircraftState'[aircraftOf'[r]] \notin IdleStates
  <2>1. CASE r \in moved
    BY <1>1, <1>5, <1>6, <2>1, NoneAssumption
  <2>2. CASE r \notin moved
    <3>1. aircraftOf[r] # NONE
      BY <1>2, <1>6, <2>2, NoneAssumption
    <3> QED  BY <1>2, <1>5, <1>6, <2>2, <3>1
  <2> QED  BY <2>1, <2>2
<1>7. ASSUME NEW r \in moved \cap Rotations, WillFly(r), NEW q \in Rotations \ moved, WillFly(q)
      PROVE  aircraftOf'[q] # aircraftOf'[r] /\ pilotOf'[q] # pilotOf'[r]
  <2>1. CASE \E h \in flying : working[h].rotation = q
    <3>1. PICK h \in flying : working[h].rotation = q
      BY <2>1
    <3>2. h # mover(r)
      BY <1>1, <1>7, <3>1
    <3> QED  BY <1>1, <1>2, <1>3, <1>4, <1>7, <3>1, <3>2
  <2>2. CASE ~\E h \in flying : working[h].rotation = q
    <3>1. q \in {o \in Rotations : Active(o)} \ {working[h].rotation : h \in flying}
      BY <1>2, <1>7, <2>2
    <3> QED  BY <1>1, <1>2, <1>3, <1>7, <3>1
  <2> QED  BY <2>1, <2>2
<1>8. ASSUME NEW r \in Rotations, WillFly(r), NEW q \in Rotations \ {r}, WillFly(q)
      PROVE  aircraftOf'[q] # aircraftOf'[r] /\ pilotOf'[q] # pilotOf'[r]
  <2>1. CASE r \in moved /\ q \in moved
    <3>1. mover(q) # mover(r)
      BY <1>1, <1>8, <2>1
    <3> QED  BY <1>1, <1>3, <1>8, <2>1, <3>1
  <2>2. CASE r \notin moved /\ q \notin moved
    <3>1. Active(r) /\ Active(q)
      BY <1>2, <1>8, <2>2
    <3>2. aircraftOf[q] # aircraftOf[r] /\ pilotOf[q] # pilotOf[r]
      BY <1>8, <3>1 DEF OneHolder
    <3> QED  BY <1>2, <1>8, <2>2, <3>2
  <2> QED  BY <1>7, <1>8, <2>1, <2>2
<1> QED  BY <1>6, <1>8 DEF OneHolder, Active

\* Rotations of the flight line and rotations recovered from paper never share an
\* aircraft or a pilot, for every fleet and every number of batches.
THEOREM OneHolderAlways ==
  ASSUME "CANCEL_ROTATION" \notin Commands
  PROVE  RecoverySpec => []OneHolder
<1>1. RecoveryInit => HolderInv
  BY InitFleet DEF RecoveryInit, FleetInv, HolderInv, OneHolder, Init, Active, ActiveStates
<1>2. ASSUME HolderInv, RowsOfPaper, NEW b \in Batches, NEW rows \in NewRowsOf(batch[b].paper),
             ApplyOutageRecovery(b, rows)
      PROVE  HolderInv'
  <2>1. ReferencesTyped /\ BatchesTyped /\ rows \in NewRowsOf(PaperOf(b))
    BY <1>2 DEF RowsOfPaper, BatchShape, PaperOf
  <2> QED  BY <1>2, <2>1, ApplyTypes, ApplySeats, ApplyHolds DEF HolderInv
<1>3. HolderInv /\ RowsOfPaper /\ [RecoveryNext]_allVars => HolderInv'
  <2> SUFFICES ASSUME HolderInv, RowsOfPaper, [RecoveryNext]_allVars PROVE HolderInv'
    OBVIOUS
  <2>1. CASE \E b \in Batches : \E rows \in NewRowsOf(batch[b].paper) : ApplyOutageRecovery(b, rows)
    BY <1>2, <2>1
  <2>2. CASE ~\E b \in Batches : \E rows \in NewRowsOf(batch[b].paper) : ApplyOutageRecovery(b, rows)
    <3>1. [Next]_vars
      BY <2>2, OtherSteps
    <3> QED  BY <3>1, LiveStepHolds
  <2> QED  BY <2>1, <2>2
<1>4. HolderInv => OneHolder
  BY DEF HolderInv
<1>5. RecoverySpec => [](HolderInv /\ RowsOfPaper)
  BY <1>1, <1>3, RowsOfPaperInit, RowsOfPaperStay, PTL DEF RecoverySpec
<1> QED  BY <1>4, <1>5, PTL

-----------------------------------------------------------------------------
\* What paper does to the passengers.

\* Each paper record has a rotation of its own.
ReferencesOwn ==
  \A g \in Groups : reference[g] # NONE =>
    /\ rotationState[reference[g].rotation] # "FREE"
    /\ \A h \in Groups \ {g} : reference[h] # NONE => reference[h].rotation # reference[g].rotation

AboardInv == PassengerInv /\ SeatsExist /\ ReferencesOwn

LEMMA WorkingRotations ==
  ASSUME ReferencesTyped, BatchesTyped, ReferencesOwn,
         NEW b \in Batches, NEW rows \in NewRowsOf(PaperOf(b)), ApplyOutageRecovery(b, rows)
  PROVE  LET working == WorkingOf(b, rows) IN
         /\ DOMAIN PaperOf(b) = Sold(PaperOf(b)) \cup Moving(PaperOf(b))
         /\ DOMAIN PaperOf(b) \subseteq DOMAIN working /\ DOMAIN working \subseteq Groups
         /\ \A g \in DOMAIN working :
              /\ working[g].rotation \in Rotations
              /\ IF g \in Sold(PaperOf(b))
                 THEN working[g].rotation = rows[g] /\ rotationState[rows[g]] = "FREE"
                 ELSE /\ reference[g] # NONE /\ working[g].rotation = reference[g].rotation
                      /\ rotationState[working[g].rotation] # "FREE"
              /\ \A h \in DOMAIN working : working[h].rotation = working[g].rotation => h = g
<1> DEFINE working == WorkingOf(b, rows)
           paper == PaperOf(b)
<1>1. paper \in Papers \cup {NoPaper} /\ \A g \in Moving(paper) : RunFollows(g, paper)
  BY ApplyIs DEF BatchesTyped, BatchRecords, PaperOf
<1>2. DOMAIN paper = Sold(paper) \cup Moving(paper)
  BY <1>1, PapersAre
<1>3. /\ DOMAIN paper \subseteq DOMAIN working /\ DOMAIN working \subseteq Groups
      /\ \A g \in DOMAIN working :
           /\ working[g].rotation = IF g \in Sold(paper) THEN rows[g] ELSE reference[g].rotation
           /\ working[g].rotation \in Rotations
           /\ g \notin Sold(paper) => reference[g] \in References
      /\ \A g \in Sold(paper) : rotationState[rows[g]] = "FREE"
  BY <1>1, WorkingIs DEF WorkingOf
<1>4. \A g, h \in Sold(paper) : rows[g] = rows[h] => g = h
  BY DEF NewRowsOf
<1> HIDE DEF working, paper
<1>5. ASSUME NEW g \in DOMAIN working
      PROVE  IF g \in Sold(paper)
             THEN working[g].rotation = rows[g] /\ rotationState[rows[g]] = "FREE"
             ELSE /\ reference[g] # NONE /\ working[g].rotation = reference[g].rotation
                  /\ rotationState[working[g].rotation] # "FREE"
  BY <1>3, <1>5, NoneIsNoReference DEF ReferencesOwn
<1>6. ASSUME NEW g \in DOMAIN working, NEW h \in DOMAIN working,
             working[h].rotation = working[g].rotation
      PROVE  h = g
  <2>1. CASE g \in Sold(paper) /\ h \in Sold(paper)
    BY <1>4, <1>5, <1>6, <2>1
  <2>2. CASE g \notin Sold(paper) /\ h \notin Sold(paper)
    <3>1. g \in Groups /\ h \in Groups
      BY <1>3
    <3> QED  BY <1>5, <1>6, <2>2, <3>1 DEF ReferencesOwn
  <2> QED  BY <1>5, <1>6, <2>1, <2>2
<1> QED  BY <1>2, <1>3, <1>5, <1>6 DEF working, paper

\* A rotation event reaches exactly those who sit in its rotation.
LEMMA CarriedAre ==
  ASSUME AboardInv, ReferencesTyped, BatchesTyped,
         NEW b \in Batches, NEW rows \in NewRowsOf(PaperOf(b)), ApplyOutageRecovery(b, rows),
         NEW t \in Tickets
  PROVE  /\ \A h \in Moving(PaperOf(b)) :
              t \in Carried(h, PaperOf(b)) => seat'[t] = WorkingOf(b, rows)[h].rotation
         /\ seat'[t] \in MovedBy(b, rows) =>
              \E h \in Moving(PaperOf(b)) : t \in Carried(h, PaperOf(b))
<1> DEFINE working == WorkingOf(b, rows)
           paper == PaperOf(b)
           mine == GroupOf[t]
<1>1. /\ \A g \in DOMAIN working :
           IF g \in Sold(paper)
           THEN working[g].rotation = rows[g] /\ rotationState[rows[g]] = "FREE"
           ELSE /\ reference[g] # NONE /\ working[g].rotation = reference[g].rotation
                /\ rotationState[working[g].rotation] # "FREE"
      /\ \A g, h \in DOMAIN working : working[h].rotation = working[g].rotation => h = g
      /\ \A g \in Moving(paper) \cup Sold(paper) : g \in DOMAIN working
      /\ \A g \in DOMAIN working : working[g].rotation \in Rotations
  BY WorkingRotations DEF AboardInv
<1>2. seat'[t] = IF mine \in Sold(paper) THEN rows[mine] ELSE seat[t]
  BY ApplyIs
<1>3. mine \in Sold(paper) => seat[t] = NONE
  BY DEF ApplyOutageRecovery, PaperOf, AboardInv, PassengerInv, UnsoldSeatless
<1>4. \A r \in Rotations : r # NONE
  BY NoneAssumption DEF Rotations
<1> HIDE DEF working, paper, mine
<1>5. ASSUME NEW h \in Moving(paper)
      PROVE  t \in Carried(h, paper) <=> IF h \in Sold(paper) THEN mine = h
                                         ELSE seat[t] = reference[h].rotation
  BY DEF Carried, TicketsOf, Aboard, mine
<1>6. ASSUME NEW h \in Moving(paper), t \in Carried(h, paper)
      PROVE  seat'[t] = working[h].rotation
  <2>1. CASE h \in Sold(paper)
    BY <1>1, <1>2, <1>5, <1>6, <2>1
  <2>2. CASE h \notin Sold(paper)
    <3>1. seat[t] = working[h].rotation /\ seat[t] # NONE
      BY <1>1, <1>4, <1>5, <1>6, <2>2
    <3> QED  BY <1>2, <1>3, <3>1
  <2> QED  BY <2>1, <2>2
<1>7. ASSUME seat'[t] \in MovedBy(b, rows) PROVE \E h \in Moving(paper) : t \in Carried(h, paper)
  <2>1. PICK h \in Moving(paper) : working[h].rotation = seat'[t]
    BY <1>7 DEF MovedBy, working, paper
  <2>2. CASE mine \in Sold(paper)
    <3>1. mine = h
      BY <1>1, <1>2, <2>1, <2>2
    <3> QED  BY <1>5, <2>1, <2>2, <3>1
  <2>3. CASE mine \notin Sold(paper)
    <3>1. seat[t] = working[h].rotation /\ seat[t] # NONE
      BY <1>1, <1>2, <1>4, <2>1, <2>3
    <3>2. rotationState[seat[t]] # "FREE"
      BY <3>1 DEF AboardInv, SeatsExist
    <3>3. h \notin Sold(paper)
      BY <1>1, <2>1, <3>1, <3>2
    <3> QED  BY <1>1, <1>5, <2>1, <3>1, <3>3
  <2> QED  BY <2>2, <2>3
<1> QED  BY <1>6, <1>7 DEF working, paper

LEMMA ApplyTickets ==
  ASSUME AboardInv, ReferencesTyped, BatchesTyped,
         NEW b \in Batches, NEW rows \in NewRowsOf(PaperOf(b)), ApplyOutageRecovery(b, rows),
         NEW t \in Tickets
  PROVE  \/ /\ seat'[t] \in MovedBy(b, rows) /\ ticketState'[t] = rotationState'[seat'[t]]
            /\ ticketState'[t] \in Events
         \/ /\ seat'[t] \in Rotations \ MovedBy(b, rows) /\ GroupOf[t] \in Sold(PaperOf(b))
            /\ rotationState'[seat'[t]] = "DRAFT" /\ ticketState'[t] = "QUEUED"
         \/ /\ seat'[t] = seat[t] /\ ticketState'[t] = ticketState[t]
            /\ seat[t] # NONE => rotationState'[seat[t]] = rotationState[seat[t]]
<1> DEFINE working == WorkingOf(b, rows)
           paper == PaperOf(b)
           moved == MovedBy(b, rows)
           carrier == CHOOSE g \in Moving(paper) : t \in Carried(g, paper)
<1>0. TypeOK /\ SeatsExist /\ ReferencesOwn
  BY DEF AboardInv, PassengerInv
<1>1. ticketState'[t] = IF \E g \in Moving(paper) : t \in Carried(g, paper) THEN working[carrier].state
                        ELSE IF GroupOf[t] \in Sold(paper) THEN "QUEUED" ELSE ticketState[t]
  BY DEF ApplyOutageRecovery, WorkingOf, PaperOf
<1>2. CASE \E g \in Moving(paper) : t \in Carried(g, paper)
  <2>1. carrier \in Moving(paper) /\ t \in Carried(carrier, paper)
    BY <1>2
  <2>2. seat'[t] = working[carrier].rotation /\ seat'[t] \in moved
    BY <2>1, CarriedAre DEF MovedBy
  <2>3. LET g == MoverOf(b, rows, seat'[t]) IN
        /\ g \in Moving(paper) /\ g \in DOMAIN working /\ working[g].rotation = seat'[t]
        /\ working[g].state \in Events /\ rotationState'[seat'[t]] = working[g].state
    BY <1>0, <2>2, MovedRotations
  <2>4. MoverOf(b, rows, seat'[t]) = carrier
    <3>1. /\ Moving(paper) \subseteq DOMAIN working
          /\ \A g, h \in DOMAIN working : working[h].rotation = working[g].rotation => h = g
      BY <1>0, WorkingRotations
    <3> HIDE DEF working, carrier, paper
    <3> QED  BY <2>1, <2>2, <2>3, <3>1
  <2> QED  BY <1>1, <1>2, <2>2, <2>3, <2>4
<1>3. CASE ~\E g \in Moving(paper) : t \in Carried(g, paper)
  <2>1. seat'[t] \notin moved
    BY <1>3, CarriedAre
  <2>2. CASE GroupOf[t] \in Sold(paper)
    <3>1. seat'[t] = rows[GroupOf[t]] /\ ticketState'[t] = "QUEUED"
      BY <1>1, <1>3, <2>2, ApplyIs
    <3>2. seat'[t] \in Rotations
      BY <1>0, <2>2, <3>1, WorkingRotations
    <3>3. rotationState'[seat'[t]] = "DRAFT"
      BY <2>1, <2>2, <3>1, <3>2, UnmovedRotations
    <3> QED  BY <2>1, <2>2, <3>1, <3>2, <3>3
  <2>3. CASE GroupOf[t] \notin Sold(paper)
    <3>1. seat'[t] = seat[t] /\ ticketState'[t] = ticketState[t]
      BY <1>1, <1>3, <2>3, ApplyIs
    <3>2. ASSUME seat[t] # NONE PROVE rotationState'[seat[t]] = rotationState[seat[t]]
      <4>1. seat[t] \in Rotations \ moved /\ rotationState[seat[t]] # "FREE"
        BY <1>0, <2>1, <3>1, <3>2 DEF SeatsExist, TypeOK
      <4> QED  BY <4>1, UnmovedRotations
    <3> QED  BY <3>1, <3>2
  <2> QED  BY <2>2, <2>3
<1> QED  BY <1>2, <1>3

LEMMA ApplyPassengers ==
  ASSUME AboardInv, ReferencesTyped, BatchesTyped,
         NEW b \in Batches, NEW rows \in NewRowsOf(PaperOf(b)), ApplyOutageRecovery(b, rows)
  PROVE  AboardInv'
<1>0. TypeOK /\ UnsoldSeatless /\ SeatsExist /\ ReferencesOwn
  BY DEF AboardInv, PassengerInv
<1>1. TypeOK'
  BY <1>0, ApplyTypes
<1>2. UnsoldSeatless'
  <2>1. /\ groupState' = [g \in Groups |-> IF g \in Sold(PaperOf(b)) THEN "QUEUED" ELSE groupState[g]]
        /\ seat' = [t \in Tickets |-> IF GroupOf[t] \in Sold(PaperOf(b)) THEN rows[GroupOf[t]] ELSE seat[t]]
    BY DEF ApplyOutageRecovery, PaperOf
  <2>2. \A t \in Tickets : GroupOf[t] \in Groups
    BY PopulationAssumption
  <2> QED  BY <1>0, <2>1, <2>2 DEF UnsoldSeatless
<1>3. \A r \in MovedBy(b, rows) : r \in Rotations /\ rotationState'[r] \in Events
  BY <1>0, MovedRotations
<1>4. /\ Events \cap ({"UNSOLD", "FREE"} \cup ExceptionStates) = {}
      /\ {"QUEUED", "DRAFT"} \cap (DepartedStates \cup {"UNSOLD", "FREE"} \cup ExceptionStates) = {}
  BY DEF Events, ExceptionStates, DepartedStates
<1>5. \A r \in Rotations : r # NONE
  BY NoneAssumption DEF Rotations
<1>6. ASSUME NEW t \in Tickets
      PROVE  /\ (seat'[t] = NONE) <=> (ticketState'[t] \in {"UNSOLD"} \cup ExceptionStates)
             /\ seat'[t] # NONE /\ rotationState'[seat'[t]] \in DepartedStates
                  => ticketState'[t] = rotationState'[seat'[t]]
             /\ ticketState'[t] \in DepartedStates
                  => seat'[t] # NONE /\ ticketState'[t] = rotationState'[seat'[t]]
             /\ seat'[t] # NONE => rotationState'[seat'[t]] # "FREE"
  <2>1. /\ (seat[t] = NONE) <=> (ticketState[t] \in {"UNSOLD"} \cup ExceptionStates)
        /\ seat[t] # NONE /\ rotationState[seat[t]] \in DepartedStates
             => ticketState[t] = rotationState[seat[t]]
        /\ ticketState[t] \in DepartedStates
             => seat[t] # NONE /\ ticketState[t] = rotationState[seat[t]]
        /\ seat[t] # NONE => rotationState[seat[t]] # "FREE"
    BY DEF AboardInv, PassengerInv, NobodyLost, TicketsFollowRotation, SeatsExist
  <2>2. CASE /\ seat'[t] \in MovedBy(b, rows) /\ ticketState'[t] = rotationState'[seat'[t]]
             /\ ticketState'[t] \in Events
    BY <1>3, <1>4, <1>5, <2>2
  <2>3. CASE /\ seat'[t] \in Rotations \ MovedBy(b, rows) /\ GroupOf[t] \in Sold(PaperOf(b))
             /\ rotationState'[seat'[t]] = "DRAFT" /\ ticketState'[t] = "QUEUED"
    BY <1>4, <1>5, <2>3
  <2>4. CASE /\ seat'[t] = seat[t] /\ ticketState'[t] = ticketState[t]
             /\ seat[t] # NONE => rotationState'[seat[t]] = rotationState[seat[t]]
    BY <2>1, <2>4
  <2> QED  BY <2>2, <2>3, <2>4, ApplyTickets
<1>7. NobodyLost' /\ TicketsFollowRotation' /\ SeatsExist'
  BY <1>6 DEF NobodyLost, TicketsFollowRotation, SeatsExist
<1>8. ReferencesOwn'
  <2> DEFINE working == WorkingOf(b, rows)
             paper == PaperOf(b)
  <2>1. reference' = [g \in Groups |->
          IF g \in DOMAIN paper THEN [state |-> working[g].state, rotation |-> working[g].rotation]
                                ELSE reference[g]]
    BY DEF ApplyOutageRecovery, WorkingOf, PaperOf
  <2>2. /\ DOMAIN paper = Sold(paper) \cup Moving(paper)
        /\ DOMAIN paper \subseteq DOMAIN working /\ DOMAIN working \subseteq Groups
        /\ \A g \in DOMAIN working :
             /\ working[g].rotation \in Rotations
             /\ IF g \in Sold(paper)
                THEN working[g].rotation = rows[g] /\ rotationState[rows[g]] = "FREE"
                ELSE /\ reference[g] # NONE /\ working[g].rotation = reference[g].rotation
                     /\ rotationState[working[g].rotation] # "FREE"
             /\ \A h \in DOMAIN working : working[h].rotation = working[g].rotation => h = g
    BY <1>0, WorkingRotations
  <2>3. {g \in Groups : reference[g] # NONE} \subseteq DOMAIN working
    BY DEF WorkingOf, Working
  <2> HIDE DEF working, paper
  <2>4. ASSUME NEW g \in Groups, reference'[g] # NONE
        PROVE  g \in DOMAIN working /\ reference'[g].rotation = working[g].rotation
    <3>1. CASE g \in DOMAIN paper
      BY <2>1, <2>2, <3>1
    <3>2. CASE g \notin DOMAIN paper
      <4>1. reference'[g] = reference[g] /\ g \in DOMAIN working /\ g \notin Sold(paper)
        BY <2>1, <2>2, <2>3, <2>4, <3>2
      <4> QED  BY <2>2, <4>1
    <3> QED  BY <3>1, <3>2
  <2>5. ASSUME NEW g \in DOMAIN working PROVE rotationState'[working[g].rotation] # "FREE"
    <3>1. CASE working[g].rotation \in MovedBy(b, rows)
      BY <1>3, <1>4, <3>1
    <3>2. CASE working[g].rotation \notin MovedBy(b, rows)
      <4>1. g \in Sold(paper) => rotationState'[working[g].rotation] = "DRAFT"
        BY <2>2, <3>2, UnmovedRotations DEF paper
      <4>2. g \notin Sold(paper) => rotationState'[working[g].rotation] = rotationState[working[g].rotation]
        BY <2>2, <3>2, UnmovedRotations DEF paper
      <4> QED  BY <2>2, <4>1, <4>2
    <3> QED  BY <3>1, <3>2
  <2> QED  BY <2>2, <2>4, <2>5 DEF ReferencesOwn
<1> QED  BY <1>1, <1>2, <1>7, <1>8 DEF AboardInv, PassengerInv

LEMMA StepKeepsAboard ==
  ASSUME "SET_TICKET_GROUP_ATTENDANCE" \notin Commands, AboardInv, ReferencesTyped,
         [Next]_vars, UNCHANGED reference
  PROVE  AboardInv'
<1>1. PassengerInv' /\ SeatsExist'
  BY NextKeepsPassengers, SeatsKeepExisting DEF AboardInv, PassengerInv
<1>2. ReferencesOwn'
  <2>1. ASSUME NEW g \in Groups, reference[g] # NONE
        PROVE  rotationState'[reference[g].rotation] # "FREE"
    <3>1. reference[g].rotation \in Rotations
      BY <2>1 DEF ReferencesTyped, References
    <3> QED  BY <2>1, <3>1, RowsStay DEF AboardInv, PassengerInv, ReferencesOwn
  <2> QED  BY <2>1 DEF AboardInv, ReferencesOwn
<1> QED  BY <1>1, <1>2 DEF AboardInv

LEMMA AboardInvariant ==
  ASSUME "SET_TICKET_GROUP_ATTENDANCE" \notin Commands
  PROVE  RecoverySpec => [](AboardInv /\ RowsOfPaper)
<1>1. RecoveryInit => AboardInv
  BY InitPassengers DEF RecoveryInit, AboardInv, SeatsExist, Init, ReferencesOwn
<1>2. ASSUME AboardInv, RowsOfPaper, NEW b \in Batches, NEW rows \in NewRowsOf(batch[b].paper),
             ApplyOutageRecovery(b, rows)
      PROVE  AboardInv'
  <2>1. ReferencesTyped /\ BatchesTyped /\ rows \in NewRowsOf(PaperOf(b))
    BY <1>2 DEF RowsOfPaper, BatchShape, PaperOf
  <2> QED  BY <1>2, <2>1, ApplyPassengers
<1>3. AboardInv /\ RowsOfPaper /\ [RecoveryNext]_allVars => AboardInv'
  <2> SUFFICES ASSUME AboardInv, RowsOfPaper, [RecoveryNext]_allVars PROVE AboardInv'
    OBVIOUS
  <2>1. CASE \E b \in Batches : \E rows \in NewRowsOf(batch[b].paper) : ApplyOutageRecovery(b, rows)
    BY <1>2, <2>1
  <2>2. CASE ~\E b \in Batches : \E rows \in NewRowsOf(batch[b].paper) : ApplyOutageRecovery(b, rows)
    <3>1. [Next]_vars /\ UNCHANGED reference
      BY <2>2, OtherSteps
    <3> QED  BY <3>1, StepKeepsAboard DEF RowsOfPaper
  <2> QED  BY <2>1, <2>2
<1> QED  BY <1>1, <1>3, RowsOfPaperInit, RowsOfPaperStay, PTL DEF RecoverySpec

\* The tickets of a flight recorded on paper are where their rotation is, whatever
\* the flight line has done to either in the meantime.
THEOREM RecoveredTicketsFollow ==
  ASSUME "SET_TICKET_GROUP_ATTENDANCE" \notin Commands
  PROVE  RecoverySpec => []TicketsFollowRotation
<1>1. AboardInv => TicketsFollowRotation
  BY DEF AboardInv, PassengerInv
<1> QED  BY <1>1, AboardInvariant, PTL

\* Nor does the recovery lose anybody: who was sold a ticket has a seat or an end.
THEOREM RecoveryLosesNobody ==
  ASSUME "SET_TICKET_GROUP_ATTENDANCE" \notin Commands
  PROVE  RecoverySpec => []NobodyLost
<1>1. AboardInv => NobodyLost
  BY DEF AboardInv, PassengerInv
<1> QED  BY <1>1, AboardInvariant, PTL

=============================================================================
