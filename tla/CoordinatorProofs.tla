-------------------------- MODULE CoordinatorProofs --------------------------
(***************************************************************************)
(* What Coordinator guarantees for every number of commands, groups and    *)
(* snapshots, and for any number of failures and restarts.                 *)
(***************************************************************************)
EXTENDS Coordinator, SequenceTheorems, TLAPS

-----------------------------------------------------------------------------
\* The pieces of the actions.

LEMMA RequestsTyped ==
  /\ AlarmRequest \in Requests /\ LeaseRequest \in Requests
  /\ \A c \in Commands, n \in 1..MaxAttempts : CommandRequest(c, n) \in Requests
  BY CoordinatorConstants DEF Requests

LEMMA NextRequestTyped ==
  ASSUME TypeOK, tail # <<>>, NextRequest
  PROVE  tail' \in Seq(Requests) /\ step' \in Steps
<1>1. tail' \in Seq(Requests)
  BY HeadTailProperties DEF NextRequest, TypeOK
<1>2. step' \in Steps
  BY DEF NextRequest, Idle, Steps, Stages
<1> QED  BY <1>1, <1>2

LEMMA StageTyped ==
  ASSUME TypeOK, NEW stage \in Stages
  PROVE  /\ [step EXCEPT !.stage = stage] \in Steps
         /\ [stage |-> stage, seen |-> version, active |-> active] \in Steps
<1>1. step \in Steps /\ version \in Nat /\ active \in BOOLEAN
  BY DEF TypeOK
<1> QED  BY <1>1 DEF Steps

LEMMA ToldTyped ==
  ASSUME TypeOK, NEW c \in Commands, NEW answer \in {"accepted", "rejected", "unknown"}
  PROVE  Told(c, answer) \in [Commands -> Clients]
<1>1. client \in [Commands -> Clients]
  BY DEF TypeOK
<1>2. [client EXCEPT ![c].state = answer] \in [Commands -> Clients]
  BY <1>1 DEF Clients
<1> QED  BY <1>1, <1>2 DEF Told

LEMMA ReportsTyped ==
  ASSUME TypeOK, NEW by \in Commands \cup {"ALARM", "LOGO"}, Reports(by)
  PROVE  ledger' \in Seq(Changes)
<1>1. ledger \in Seq(Changes) /\ [by |-> by, version |-> step.seen + 1] \in Changes
  BY DEF TypeOK, Steps, Changes
<1> QED  BY <1>1, AppendProperties DEF Reports

LEMMA RecallEffectTyped ==
  ASSUME TypeOK, NEW c \in Commands, RecallEffect(c)
  PROVE  /\ recall' \in [Groups -> Recalls]
         /\ closures' \in [Groups -> Seq(Reasons)]
<1> DEFINE g == envelope[c].group
           r == recall[g]
<1>1. recall \in [Groups -> Recalls] /\ closures \in [Groups -> Seq(Reasons)]
  BY DEF TypeOK
<1>2. ASSUME NEW reason \in Reasons, EndRecall(g, reason)
      PROVE  closures' \in [Groups -> Seq(Reasons)]
  <2>1. \A h \in Groups : Append(closures[h], reason) \in Seq(Reasons)
    BY <1>1, AppendProperties
  <2> QED  BY <1>1, <1>2, <2>1 DEF EndRecall
<1>3. CASE envelope[c].type = "START_TICKET_GROUP_RECALL"
  <2>1. recall' = [recall EXCEPT ![g] = [state |-> "open", sequence |-> r.sequence + 1]]
    BY <1>3 DEF RecallEffect
  <2>2. EndRecall(g, "EXPIRED") \/ UNCHANGED closures
    BY <1>3 DEF RecallEffect
  <2> HIDE DEF g
  <2>3. g \in Groups => [state |-> "open", sequence |-> r.sequence + 1] \in Recalls
    BY <1>1 DEF Recalls
  <2>4. recall' \in [Groups -> Recalls]
    BY <1>1, <2>1, <2>3
  <2> QED  BY <1>1, <1>2, <2>2, <2>4 DEF Reasons
<1>4. CASE envelope[c].type # "START_TICKET_GROUP_RECALL"
  <2>1. recall' = [recall EXCEPT ![g].state = "none"] \/ UNCHANGED recall
    BY <1>4 DEF RecallEffect
  <2>2. EndRecall(g, "MANUAL") \/ EndRecall(g, "CALLED") \/ UNCHANGED closures
    BY <1>4 DEF RecallEffect
  <2> HIDE DEF g
  <2>3. recall' \in [Groups -> Recalls]
    BY <1>1, <2>1 DEF Recalls
  <2> QED  BY <1>1, <1>2, <2>2, <2>3 DEF Reasons
<1> QED  BY <1>3, <1>4

LEMMA LoopTyped ==
  ASSUME TypeOK, StartLoop
  PROVE  loops' \subseteq Loops
  BY DEF StartLoop, AtHead, Loops, TypeOK

-----------------------------------------------------------------------------
\* Type correctness, one lemma per actor.

LEMMA ClientTyped ==
  ASSUME TypeOK, NEW c \in Commands, Send(c) \/ LoseConnection(c) \/ Resend(c)
  PROVE  TypeOK'
<1> USE DEF stored, memory, external
<1>0. client \in [Commands -> Clients] /\ tail \in Seq(Requests)
  BY DEF TypeOK
<1>1. ASSUME Send(c) PROVE TypeOK'
  <2>1. tail' \in Seq(Requests)
    BY <1>0, <1>1, RequestsTyped, AppendProperties, CoordinatorConstants DEF Send
  <2>2. client' \in [Commands -> Clients]
    BY <1>0, <1>1 DEF Send, Clients
  <2>3. envelope' \in [Commands -> {NONE} \cup Envelopes]
    BY <1>1 DEF Send, TypeOK, Envelopes
  <2> QED  BY <1>1, <2>1, <2>2, <2>3 DEF Send, TypeOK
<1>2. ASSUME LoseConnection(c) PROVE TypeOK'
  <2>1. client' \in [Commands -> Clients]
    BY <1>0, <1>2 DEF LoseConnection, Clients
  <2> QED  BY <1>2, <2>1 DEF LoseConnection, TypeOK
<1>3. ASSUME Resend(c) PROVE TypeOK'
  <2>1. client[c].attempt + 1 \in 1..MaxAttempts
    BY <1>0, <1>3, CoordinatorConstants DEF Resend, Clients
  <2>2. tail' \in Seq(Requests)
    BY <1>0, <1>3, <2>1, RequestsTyped, AppendProperties DEF Resend
  <2>3. client' \in [Commands -> Clients]
    BY <1>0, <1>3 DEF Resend, Clients
  <2> QED  BY <1>3, <2>2, <2>3 DEF Resend, TypeOK
<1> QED  BY <1>1, <1>2, <1>3

LEMMA CommandTyped ==
  ASSUME TypeOK, NEW c \in Commands, RunCommand(c) \/ FailCommand(c)
  PROVE  TypeOK'
<1> USE DEF stored, memory, external
<1>1. ASSUME Preflight(c) PROVE TypeOK'
  <2>1. CASE tail' = tail /\ client' = client /\ step' \in Steps
    BY <1>1, <2>1 DEF Preflight, TypeOK
  <2>2. CASE NextRequest /\ client' \in [Commands -> Clients]
    BY <1>1, <2>2, NextRequestTyped DEF Preflight, CommandTurn, TypeOK
  <2> QED  BY <1>1, <2>1, <2>2, StageTyped, ToldTyped DEF Preflight, Stages
<1>2. ASSUME Refuse(c) PROVE TypeOK'
  BY <1>2, NextRequestTyped, ToldTyped DEF Refuse, CommandTurn, TypeOK
<1>3. ASSUME Execute(c) PROVE TypeOK'
  <2>1. ledger' \in Seq(Changes)
    BY <1>3, ReportsTyped DEF Execute
  <2>2. /\ recall' \in [Groups -> Recalls]
        /\ closures' \in [Groups -> Seq(Reasons)]
    BY <1>3, RecallEffectTyped DEF Execute
  <2>3. step' \in Steps
    BY <1>3, StageTyped DEF Execute, Stages
  <2>4. version' \in Nat /\ note' \in Commands \cup {NONE} /\ row' \in Nat
    BY <1>3 DEF Execute, Advance, TypeOK
  <2>5. active' \in BOOLEAN
    BY <1>3 DEF Execute, TypeOK
  <2> QED  BY <1>3, <2>1, <2>2, <2>3, <2>4, <2>5 DEF Execute, TypeOK
<1>4. ASSUME Answer(c) PROVE TypeOK'
  BY <1>4, NextRequestTyped, ToldTyped, LoopTyped
  DEF Answer, CommandTurn, Broadcast, ScheduleForecast, TypeOK
<1>5. ASSUME FailCommand(c) PROVE TypeOK'
  BY <1>5, NextRequestTyped, ToldTyped DEF FailCommand, CommandTurn, TypeOK
<1> QED  BY <1>1, <1>2, <1>3, <1>4, <1>5 DEF RunCommand

LEMMA AlarmTyped ==
  ASSUME TypeOK, Ring \/ RunAlarm \/ FailTick \/ RetryAlarm \/ OpenWebSocket
  PROVE  TypeOK'
<1> USE DEF stored, memory, external
<1>1. ASSUME Ring PROVE TypeOK'
  <2>1. tail' \in Seq(Requests)
    BY <1>1, RequestsTyped, AppendProperties DEF Ring, TypeOK
  <2> QED  BY <1>1, <2>1 DEF Ring, TypeOK
<1>2. ASSUME BeginTick PROVE TypeOK'
  BY <1>2, StageTyped DEF BeginTick, TypeOK, Stages
<1>3. ASSUME ExpireRecalls PROVE TypeOK'
  <2>1. PICK D \in Ended :
          /\ recall' = [g \in Groups |-> IF g \in D THEN [recall[g] EXCEPT !.state = "none"]
                                         ELSE recall[g]]
          /\ closures' = [g \in Groups |-> IF g \in D THEN Append(closures[g], "EXPIRED")
                                           ELSE closures[g]]
    BY <1>3 DEF ExpireRecalls
  <2>2. recall \in [Groups -> Recalls] /\ closures \in [Groups -> Seq(Reasons)]
    BY DEF TypeOK
  <2>3. recall' \in [Groups -> Recalls]
    BY <2>1, <2>2 DEF Recalls
  <2>4. \A g \in Groups : Append(closures[g], "EXPIRED") \in Seq(Reasons)
    BY <2>2, AppendProperties DEF Reasons
  <2>5. closures' \in [Groups -> Seq(Reasons)]
    BY <2>1, <2>2, <2>4
  <2>6. ledger' \in Seq(Changes)
    BY <1>3, ReportsTyped DEF ExpireRecalls
  <2>7. step' \in Steps
    BY <1>3, StageTyped DEF ExpireRecalls, Stages
  <2>8. version' \in Nat
    BY <1>3 DEF ExpireRecalls, Advance, TypeOK
  <2> QED  BY <1>3, <2>3, <2>5, <2>6, <2>7, <2>8 DEF ExpireRecalls, TypeOK
<1>4. ASSUME PlanTick PROVE TypeOK'
  <2>1. loops' \subseteq Loops /\ pending' \in BOOLEAN
    BY <1>4, LoopTyped DEF PlanTick, ScheduleForecast, TypeOK
  <2>2. step' \in Steps
    BY <1>4, StageTyped DEF PlanTick, Stages
  <2> QED  BY <1>4, <2>1, <2>2 DEF PlanTick, TypeOK
<1>5. ASSUME RenewAlarm PROVE TypeOK'
  BY <1>5, NextRequestTyped DEF RenewAlarm, Turn, Needed, TypeOK
<1>6. ASSUME FailTick PROVE TypeOK'
  BY <1>6, StageTyped DEF FailTick, TypeOK, Stages
<1>7. ASSUME RetryAlarm PROVE TypeOK'
  <2>1. tail' \in Seq(Requests) /\ step' \in Steps
    BY <1>7, NextRequestTyped DEF RetryAlarm, Turn
  <2>2. alarm' \in BOOLEAN /\ ringing' \in BOOLEAN
    BY <1>7 DEF RetryAlarm
  <2>3. faults' \in Nat
    BY <1>7 DEF RetryAlarm, TypeOK
  <2> QED  BY <1>7, <2>1, <2>2, <2>3 DEF RetryAlarm, TypeOK
<1>8. ASSUME OpenWebSocket PROVE TypeOK'
  BY <1>8 DEF OpenWebSocket, TypeOK
<1> QED  BY <1>1, <1>2, <1>3, <1>4, <1>5, <1>6, <1>7, <1>8 DEF RunAlarm

LEMMA MovedTyped ==
  ASSUME TypeOK, NEW l \in loops
  PROVE  /\ l \in Loops
         /\ Moved(l, AtHead) \subseteq Loops
         /\ \A id \in Captures \cup {NONE} : Moved(l, Taken(id)) \subseteq Loops
         /\ Moved(l, [l EXCEPT !.stage = "loaded", !.seen = version]) \subseteq Loops
<1>1. loops \subseteq Loops /\ version \in Nat
  BY DEF TypeOK
<1>2. [l EXCEPT !.stage = "loaded", !.seen = version] \in Loops
  BY <1>1 DEF Loops
<1>3. AtHead \in Loops /\ \A id \in Captures \cup {NONE} : Taken(id) \in Loops
  BY DEF AtHead, Taken, Loops
<1> QED  BY <1>1, <1>2, <1>3 DEF Moved

LEMMA SnapshotTyped ==
  ASSUME TypeOK, NEW k, NEW answer \in {"captured", "stale", "failed"}
  PROVE  [capture EXCEPT ![k].state = answer] \in [Captures -> Snapshots]
<1>1. capture \in [Captures -> Snapshots]
  BY DEF TypeOK
<1> QED  BY <1>1 DEF Snapshots

LEMMA ForecastTyped ==
  ASSUME TypeOK, NEW l \in loops, RunLoop(l) \/ FailPlan(l)
  PROVE  TypeOK'
<1> USE DEF stored, memory, external
<1>0. l \in Loops /\ l.seen \in Nat /\ l.id \in Captures \cup {NONE}
  BY MovedTyped DEF Loops
<1> capture \in [Captures -> Snapshots]
  BY DEF TypeOK
<1>1. ASSUME TakeRequest(l) PROVE TypeOK'
  <2>1. manual # <<>> => Head(manual) \in Captures /\ Tail(manual) \in Seq(Captures)
    BY HeadTailProperties DEF TypeOK
  <2>2. loops' \subseteq Loops
    BY <1>1, <2>1, MovedTyped DEF TakeRequest
  <2> QED  BY <1>1, <2>1, <2>2 DEF TakeRequest, TypeOK
<1>2. ASSUME LoadPlan(l) PROVE TypeOK'
  <2>1. loops' \subseteq Loops
    BY <1>2, MovedTyped DEF LoadPlan
  <2>2. capture' \in [Captures -> Snapshots]
    <3>1. capture' = [capture EXCEPT ![l.id].state = "stale"] \/ capture' = capture
      BY <1>2 DEF LoadPlan
    <3> QED  BY <3>1, SnapshotTyped
  <2> QED  BY <1>2, <2>1, <2>2 DEF LoadPlan, TypeOK
<1>3. ASSUME PersistPlan(l) PROVE TypeOK'
  <2>1. loops' \subseteq Loops /\ capture' \in [Captures -> Snapshots] /\ planned' \in Nat
    BY <1>0, <1>3, MovedTyped, SnapshotTyped DEF PersistPlan, Finish
  <2> QED  BY <1>3, <2>1 DEF PersistPlan, TypeOK
<1>4. ASSUME FailPlan(l) PROVE TypeOK'
  <2>1. loops' \subseteq Loops
    BY <1>4, MovedTyped DEF FailPlan, Finish
  <2>2. capture' \in [Captures -> Snapshots]
    BY <1>4, SnapshotTyped DEF FailPlan, Finish
  <2> QED  BY <1>4, <2>1, <2>2 DEF FailPlan, TypeOK
<1>5. ASSUME EndLoop(l) PROVE TypeOK'
  <2>1. step' \in Steps
    BY <1>5, StageTyped DEF EndLoop, Stages, TypeOK
  <2> QED  BY <1>5, <2>1 DEF EndLoop, TypeOK
<1> QED  BY <1>1, <1>2, <1>3, <1>4, <1>5 DEF RunLoop

LEMMA CaptureTyped ==
  ASSUME TypeOK, NEW k \in Captures, RequestCapture(k)
  PROVE  TypeOK'
<1> USE DEF stored, memory, external
<1>1. capture' \in [Captures -> Snapshots]
  BY DEF RequestCapture, TypeOK, Snapshots
<1>2. manual' \in Seq(Captures)
  BY AppendProperties DEF RequestCapture, TypeOK
<1> QED  BY <1>1, <1>2, LoopTyped DEF RequestCapture, TypeOK

LEMMA LeaseTyped ==
  ASSUME TypeOK, AskLease \/ RunLease \/ FailLease
  PROVE  TypeOK'
<1> USE DEF stored, memory, external
<1>1. ASSUME AskLease PROVE TypeOK'
  <2>1. tail' \in Seq(Requests)
    BY <1>1, RequestsTyped, AppendProperties DEF AskLease, TypeOK
  <2> QED  BY <1>1, <2>1 DEF AskLease, TypeOK
<1>2. ASSUME BeginLease PROVE TypeOK'
  <2>1. step' \in Steps
    BY <1>2, StageTyped DEF BeginLease, Stages
  <2> QED  BY <1>2, <2>1 DEF BeginLease, TypeOK
<1>3. ASSUME DecideLease PROVE TypeOK'
  <2>1. CASE step' = [step EXCEPT !.stage = "replanning"] /\ UNCHANGED <<tail, pending, loops>>
    BY <1>3, <2>1, StageTyped DEF DecideLease, Stages, TypeOK
  <2>2. CASE NextRequest /\ (ScheduleForecast \/ UNCHANGED <<pending, loops>>)
    BY <1>3, <2>2, NextRequestTyped, LoopTyped DEF DecideLease, ScheduleForecast, Turn, TypeOK
  <2> QED  BY <1>3, <2>1, <2>2 DEF DecideLease
<1>4. ASSUME PersistReplan PROVE TypeOK'
  BY <1>4, NextRequestTyped, LoopTyped
  DEF PersistReplan, ScheduleForecast, Turn, TypeOK, Steps
<1>5. ASSUME FailLease PROVE TypeOK'
  BY <1>5, NextRequestTyped DEF FailLease, Turn, TypeOK
<1> QED  BY <1>1, <1>2, <1>3, <1>4, <1>5 DEF RunLease

LEMMA OutsideTyped ==
  ASSUME TypeOK, (\E g \in Groups : RecallFallsDue(g)) \/ BeginLogo \/ CommitLogo \/ Restart
  PROVE  TypeOK'
<1> USE DEF stored, memory, external
<1>1. ASSUME NEW g \in Groups, RecallFallsDue(g) PROVE TypeOK'
  <2>1. recall' \in [Groups -> Recalls]
    BY <1>1 DEF RecallFallsDue, TypeOK, Recalls
  <2> QED  BY <1>1, <2>1 DEF RecallFallsDue, TypeOK
<1>2. ASSUME BeginLogo PROVE TypeOK'
  BY <1>2 DEF BeginLogo, TypeOK, Logos
<1>3. ASSUME CommitLogo PROVE TypeOK'
  <2>1. [by |-> "LOGO", version |-> version + 1] \in Changes
    BY DEF TypeOK, Changes
  <2>2. ledger' \in Seq(Changes)
    <3>1. ledger \in Seq(Changes)
      BY DEF TypeOK
    <3> QED  BY <1>3, <2>1, <3>1, AppendProperties DEF CommitLogo
  <2>3. version' \in Nat
    <3>1. version' = version + 1 \/ version' = version
      BY <1>3 DEF CommitLogo
    <3> QED  BY <3>1 DEF TypeOK
  <2> QED  BY <1>3, <2>2, <2>3 DEF CommitLogo, TypeOK, Logos
<1>4. ASSUME Restart PROVE TypeOK'
  <2>1. client' \in [Commands -> Clients]
    BY <1>4 DEF Restart, TypeOK, Clients
  <2>2. capture' \in [Captures -> Snapshots]
    BY <1>4 DEF Restart, TypeOK, Snapshots
  <2>3. tail' \in Seq(Requests) /\ manual' \in Seq(Captures)
    BY <1>4, EmptySeq DEF Restart
  <2>4. step' \in Steps
    BY <1>4 DEF Restart, Idle, Steps, Stages
  <2>5. alarm' \in BOOLEAN /\ faults' \in Nat /\ loops' \subseteq Loops
    BY <1>4 DEF Restart, TypeOK
  <2> QED  BY <1>4, <2>1, <2>2, <2>3, <2>4, <2>5 DEF Restart, TypeOK
<1> QED  BY <1>1, <1>2, <1>3, <1>4

LEMMA InitTyped ==
  ASSUME Init
  PROVE  TypeOK
<1>1. recall \in [Groups -> Recalls] /\ client \in [Commands -> Clients]
  BY DEF Init, Recalls, Clients
<1>2. capture \in [Captures -> Snapshots] /\ logo \in Logos /\ step \in Steps
  BY DEF Init, Snapshots, Logos, Steps, Stages, Idle
<1>3. /\ ledger \in Seq(Changes) /\ tail \in Seq(Requests) /\ manual \in Seq(Captures)
      /\ closures \in [Groups -> Seq(Reasons)]
  BY EmptySeq DEF Init
<1> QED  BY <1>1, <1>2, <1>3 DEF Init, TypeOK

LEMMA NextTyped ==
  ASSUME TypeOK, [Next]_vars
  PROVE  TypeOK'
<1>1. CASE UNCHANGED vars
  BY <1>1 DEF vars, stored, memory, external, TypeOK
<1> QED
  BY <1>1, ClientTyped, CommandTyped, AlarmTyped, ForecastTyped, CaptureTyped, LeaseTyped,
     OutsideTyped DEF Next

\* Every variable of the coordinator, in D1, in its storage and in its memory, holds
\* what the code may store in it.
THEOREM TypeCorrect == Spec => []TypeOK
<1>1. Init => TypeOK
  BY InitTyped
<1>2. TypeOK /\ [Next]_vars => TypeOK'
  BY NextTyped
<1> QED  BY <1>1, <1>2, PTL DEF Spec

-----------------------------------------------------------------------------
\* The recalls.

LEMMA OthersLeaveRecalls ==
  ASSUME [Next]_vars,
         \A c \in Commands : ~Execute(c),
         ~ExpireRecalls,
         \A g \in Groups : ~RecallFallsDue(g)
  PROVE  UNCHANGED <<recall, closures>>
<1> USE DEF stored
<1>1. CASE UNCHANGED vars
  BY <1>1 DEF vars
<1>2. ASSUME NEW c \in Commands, Send(c) \/ LoseConnection(c) \/ Resend(c) \/ RunCommand(c) \/ FailCommand(c)
      PROVE  UNCHANGED <<recall, closures>>
  BY <1>2 DEF Send, LoseConnection, Resend, RunCommand, Preflight, Refuse, Answer, FailCommand
<1>3. CASE AskLease \/ RunLease \/ FailLease
  BY <1>3 DEF AskLease, RunLease, BeginLease, DecideLease, PersistReplan, FailLease
<1>4. CASE Ring \/ RunAlarm \/ FailTick \/ RetryAlarm \/ OpenWebSocket
  BY <1>4 DEF Ring, RunAlarm, BeginTick, PlanTick, RenewAlarm, FailTick, RetryAlarm, OpenWebSocket
<1>5. ASSUME NEW l \in loops, RunLoop(l) \/ FailPlan(l)
      PROVE  UNCHANGED <<recall, closures>>
  BY <1>5 DEF RunLoop, TakeRequest, LoadPlan, PersistPlan, EndLoop, FailPlan
<1>6. ASSUME NEW k \in Captures, RequestCapture(k)
      PROVE  UNCHANGED <<recall, closures>>
  BY <1>6 DEF RequestCapture
<1>7. CASE BeginLogo \/ CommitLogo \/ Restart
  BY <1>7 DEF BeginLogo, CommitLogo, Restart
<1> QED  BY <1>1, <1>2, <1>3, <1>4, <1>5, <1>6, <1>7 DEF Next

LEMMA RecallsStayCounted ==
  ASSUME TypeOK, RecallsClosedOnce, [Next]_vars
  PROVE  RecallsClosedOnce'
<1> DEFINE Closed(h) == Len(closures[h]) =
             recall[h].sequence - (IF recall[h].state = "none" THEN 0 ELSE 1)
<1>1. /\ recall \in [Groups -> Recalls]
      /\ closures \in [Groups -> Seq(Reasons)]
      /\ \A h \in Groups : Closed(h)
  BY DEF TypeOK, RecallsClosedOnce
<1>2. \A h \in Groups, reason \in Reasons : Len(Append(closures[h], reason)) = Len(closures[h]) + 1
  BY <1>1, AppendProperties
<1>3. SUFFICES ASSUME NEW h \in Groups PROVE Closed(h)'
  BY DEF RecallsClosedOnce
<1>4. recall[h].state \in {"none", "open", "due"} /\ recall[h].sequence \in Nat
      /\ Len(closures[h]) \in Nat
  BY <1>1, LenProperties DEF Recalls
<1>5. ASSUME NEW c \in Commands, Execute(c) PROVE Closed(h)'
  <2> DEFINE g == envelope[c].group
  <2>1. CASE g # h \/ UNCHANGED <<recall, closures>>
    <3>1. recall'[h] = recall[h] /\ closures'[h] = closures[h]
      BY <1>1, <1>5, <2>1 DEF Execute, RecallEffect, EndRecall
    <3> QED  BY <1>1, <3>1
  <2>2. CASE g = h /\ envelope[c].type = "START_TICKET_GROUP_RECALL"
    <3>1. recall[h].state # "open"
      BY <1>5, <2>2 DEF Execute, Permitted
    <3>2. recall'[h] = [state |-> "open", sequence |-> recall[h].sequence + 1]
      BY <1>1, <1>5, <2>2 DEF Execute, RecallEffect
    <3>3. closures'[h] = IF recall[h].state = "due" THEN Append(closures[h], "EXPIRED")
                         ELSE closures[h]
      BY <1>1, <1>5, <2>2 DEF Execute, RecallEffect, EndRecall
    <3> QED  BY <1>1, <1>2, <1>4, <3>1, <3>2, <3>3 DEF Reasons
  <2>3. CASE /\ g = h /\ recall[h].state = "open"
             /\ recall' = [recall EXCEPT ![h].state = "none"]
             /\ EndRecall(h, "MANUAL") \/ EndRecall(h, "CALLED")
    <3>1. recall'[h].state = "none" /\ recall'[h].sequence = recall[h].sequence
      BY <1>1, <2>3 DEF Recalls
    <3>2. Len(closures'[h]) = Len(closures[h]) + 1
      BY <1>1, <1>2, <2>3 DEF EndRecall, Reasons
    <3>3. Len(closures[h]) = recall[h].sequence - 1
      BY <1>1, <2>3
    <3> QED  BY <1>4, <3>1, <3>2, <3>3
  <2>4. CASE g = h /\ envelope[c].type # "START_TICKET_GROUP_RECALL"
    <3>1. envelope[c].type = "CLEAR_TICKET_GROUP_RECALL" => recall[h].state = "open"
      BY <1>5, <2>4 DEF Execute, Permitted
    <3>2. \/ UNCHANGED <<recall, closures>>
          \/ /\ recall[h].state = "open"
             /\ recall' = [recall EXCEPT ![h].state = "none"]
             /\ EndRecall(h, "MANUAL") \/ EndRecall(h, "CALLED")
      BY <1>5, <2>4, <3>1 DEF Execute, RecallEffect
    <3> QED  BY <2>1, <2>3, <2>4, <3>2
  <2> QED  BY <2>1, <2>2, <2>4
<1>6. ASSUME ExpireRecalls PROVE Closed(h)'
  <2>1. PICK D \in SUBSET DueRecalls :
          /\ recall' = [g \in Groups |-> IF g \in D THEN [recall[g] EXCEPT !.state = "none"]
                                         ELSE recall[g]]
          /\ closures' = [g \in Groups |-> IF g \in D THEN Append(closures[g], "EXPIRED")
                                           ELSE closures[g]]
    BY <1>6 DEF ExpireRecalls, Ended
  <2>2. CASE h \notin D
    BY <1>1, <2>1, <2>2
  <2>3. CASE h \in D
    <3>1. recall[h].state = "due"
      BY <2>1, <2>3 DEF DueRecalls
    <3>2. recall'[h].state = "none" /\ recall'[h].sequence = recall[h].sequence
      BY <1>1, <2>1, <2>3 DEF Recalls
    <3>3. Len(closures'[h]) = Len(closures[h]) + 1
      BY <1>2, <2>1, <2>3 DEF Reasons
    <3> QED  BY <1>1, <1>4, <3>1, <3>2, <3>3
  <2> QED  BY <2>2, <2>3
<1>7. ASSUME NEW g \in Groups, RecallFallsDue(g) PROVE Closed(h)'
  <2>1. /\ recall'[h].sequence = recall[h].sequence
        /\ recall'[h].state = "none" <=> recall[h].state = "none"
        /\ closures' = closures
    BY <1>1, <1>7 DEF RecallFallsDue, Recalls
  <2> QED  BY <1>1, <1>4, <2>1
<1>8. CASE UNCHANGED <<recall, closures>>
  BY <1>1, <1>8
<1> QED  BY <1>5, <1>6, <1>7, <1>8, OthersLeaveRecalls

\* A recall that is over was ended exactly once and left one audit row, however many
\* groups are recalled and whatever fails.
THEOREM EveryRecallEndsOnce == Spec => []RecallsClosedOnce
<1>1. Init => RecallsClosedOnce
  BY EmptySeq DEF Init, RecallsClosedOnce
<1>2. TypeOK /\ RecallsClosedOnce /\ [Next]_vars => RecallsClosedOnce'
  BY RecallsStayCounted
<1> QED  BY <1>1, <1>2, TypeCorrect, PTL DEF Spec

-----------------------------------------------------------------------------
\* The alarm.

LEMMA TickingStep ==
  ASSUME [Next]_vars
  PROVE  [Ticking /\ ~Ticking' => ~Needed']_vars
<1>1. CASE UNCHANGED vars
  BY <1>1
<1>2. CASE alarm' \/ ringing'
  BY <1>2 DEF Ticking
<1>3. CASE UNCHANGED <<alarm, ringing>>
  BY <1>3 DEF Ticking
<1>4. CASE RenewAlarm
  BY <1>4 DEF RenewAlarm, Needed, Ticking, stored
<1>5. CASE Restart
  BY <1>5 DEF Restart, Ticking
<1>6. ASSUME NEW c \in Commands, Send(c) \/ LoseConnection(c) \/ Resend(c) \/ RunCommand(c) \/ FailCommand(c)
      PROVE  UNCHANGED <<alarm, ringing>> \/ alarm'
  BY <1>6 DEF Send, LoseConnection, Resend, RunCommand, Preflight, Refuse, Execute, Answer,
     FailCommand, Broadcast
<1>7. ASSUME AskLease \/ RunLease \/ FailLease PROVE UNCHANGED <<alarm, ringing>>
  BY <1>7 DEF AskLease, RunLease, BeginLease, DecideLease, PersistReplan, FailLease
<1>8. ASSUME Ring \/ RunAlarm \/ FailTick \/ RetryAlarm \/ OpenWebSocket
      PROVE  UNCHANGED <<alarm, ringing>> \/ alarm' \/ ringing' \/ RenewAlarm
  BY <1>8 DEF Ring, RunAlarm, BeginTick, ExpireRecalls, PlanTick, FailTick, RetryAlarm, OpenWebSocket
<1>9. ASSUME NEW l \in loops, RunLoop(l) \/ FailPlan(l) PROVE UNCHANGED <<alarm, ringing>>
  BY <1>9 DEF RunLoop, TakeRequest, LoadPlan, PersistPlan, EndLoop, FailPlan
<1>10. ASSUME NEW k \in Captures, RequestCapture(k) PROVE UNCHANGED <<alarm, ringing>>
  BY <1>10 DEF RequestCapture
<1>11. ASSUME (\E g \in Groups : RecallFallsDue(g)) \/ BeginLogo \/ CommitLogo
       PROVE  UNCHANGED <<alarm, ringing>>
  BY <1>11 DEF RecallFallsDue, BeginLogo, CommitLogo
<1> QED
  BY <1>1, <1>2, <1>3, <1>4, <1>5, <1>6, <1>7, <1>8, <1>9, <1>10, <1>11 DEF Next

\* The alarm stops only when nothing needs it, through every failure and restart.
THEOREM AlarmKeepsTicking == Spec => TickingKept
<1>1. [Next]_vars => [Ticking /\ ~Ticking' => ~Needed']_vars
  BY TickingStep
<1> QED  BY <1>1, PTL DEF Spec, TickingKept

-----------------------------------------------------------------------------
\* The tail: whose turn it is and how far that turn has come.

Disciplined ==
  /\ step.stage # "idle" => tail # <<>>
  /\ step.stage = "committed" => Head(tail).type # "LEASE"
  /\ step.stage = "awaiting" => Head(tail).type # "COMMAND"
  /\ step.stage = "renewing" => Head(tail).type = "ALARM"
  /\ step.stage = "replanning" => Head(tail).type = "LEASE"
  /\ step.seen <= version

\* The turn stands still: others may queue up behind it.
TurnKept == step' = step /\ (tail # <<>> => tail' # <<>> /\ Head(tail') = Head(tail))

LEMMA QueuedBehind ==
  ASSUME TypeOK, NEW r \in Requests, tail' = Append(tail, r), UNCHANGED step
  PROVE  TurnKept
<1>1. tail \in Seq(Requests)
  BY DEF TypeOK
<1> QED  BY <1>1, HeadTailAppend, AppendProperties DEF TurnKept

LEMMA TurnTypes ==
  /\ \A c : CommandTurn(c) => tail # <<>> /\ Head(tail).type = "COMMAND"
  /\ Turn(AlarmRequest) => tail # <<>> /\ Head(tail).type = "ALARM"
  /\ Turn(LeaseRequest) => tail # <<>> /\ Head(tail).type = "LEASE"
  BY DEF CommandTurn, Turn, AlarmRequest, LeaseRequest

\* What is neither a step of a turn nor its end leaves the turn alone.
LEMMA Turns ==
  ASSUME TypeOK, [Next]_vars
  PROVE  \/ step' = Idle
         \/ TurnKept
         \/ \E c \in Commands : Preflight(c) \/ Execute(c)
         \/ BeginTick \/ ExpireRecalls \/ PlanTick \/ FailTick
         \/ BeginLease \/ DecideLease
         \/ \E l \in loops : EndLoop(l)
<1>1. CASE UNCHANGED vars
  BY <1>1 DEF vars, TurnKept
<1>2. CASE UNCHANGED <<tail, step>>
  BY <1>2 DEF TurnKept
<1>3. ASSUME NEW c \in Commands, Send(c) PROVE TurnKept
  <2>1. CommandRequest(c, 1) \in Requests
    BY RequestsTyped, CoordinatorConstants
  <2> QED  BY <1>3, <2>1, QueuedBehind DEF Send
<1>4. ASSUME NEW c \in Commands, Resend(c) PROVE TurnKept
  <2>1. client[c].attempt + 1 \in 1..MaxAttempts
    <3>1. client[c].attempt \in Nat
      BY DEF TypeOK, Clients
    <3> QED  BY <1>4, <3>1, CoordinatorConstants DEF Resend
  <2> QED  BY <1>4, <2>1, RequestsTyped, QueuedBehind DEF Resend
<1>5. ASSUME AskLease \/ Ring PROVE TurnKept
  BY <1>5, RequestsTyped, QueuedBehind DEF AskLease, Ring
<1>6. ASSUME NEW c \in Commands,
             LoseConnection(c) \/ Refuse(c) \/ Answer(c) \/ FailCommand(c)
      PROVE  UNCHANGED <<tail, step>> \/ step' = Idle
  BY <1>6 DEF LoseConnection, Refuse, Answer, FailCommand, NextRequest
<1>7. ASSUME RenewAlarm \/ RetryAlarm \/ OpenWebSocket \/ PersistReplan \/ FailLease
      PROVE  UNCHANGED <<tail, step>> \/ step' = Idle
  BY <1>7 DEF RenewAlarm, RetryAlarm, OpenWebSocket, PersistReplan, FailLease, NextRequest
<1>8. ASSUME NEW l \in loops, TakeRequest(l) \/ LoadPlan(l) \/ PersistPlan(l) \/ FailPlan(l)
      PROVE  UNCHANGED <<tail, step>>
  BY <1>8 DEF TakeRequest, LoadPlan, PersistPlan, FailPlan
<1>9. ASSUME \/ \E k \in Captures : RequestCapture(k)
             \/ \E g \in Groups : RecallFallsDue(g)
             \/ BeginLogo \/ CommitLogo \/ Restart
      PROVE  UNCHANGED <<tail, step>> \/ step' = Idle
  BY <1>9 DEF RequestCapture, RecallFallsDue, BeginLogo, CommitLogo, Restart
<1> QED
  BY <1>1, <1>2, <1>3, <1>4, <1>5, <1>6, <1>7, <1>8, <1>9
  DEF Next, RunCommand, RunAlarm, RunLease, RunLoop

\* Only the batches of a turn and the upload of a logo move the version and the ledger.
LEMMA Movers ==
  ASSUME [Next]_vars
  PROVE  \/ UNCHANGED <<version, ledger>>
         \/ \E c \in Commands : Execute(c)
         \/ ExpireRecalls \/ CommitLogo
<1> USE DEF stored
<1>1. CASE UNCHANGED vars
  BY <1>1 DEF vars
<1>2. ASSUME NEW c \in Commands,
             Send(c) \/ LoseConnection(c) \/ Resend(c) \/ RunCommand(c) \/ FailCommand(c)
      PROVE  UNCHANGED <<version, ledger>> \/ Execute(c)
  BY <1>2 DEF Send, LoseConnection, Resend, RunCommand, Preflight, Refuse, Answer, FailCommand
<1>3. CASE AskLease \/ RunLease \/ FailLease
  BY <1>3 DEF AskLease, RunLease, BeginLease, DecideLease, PersistReplan, FailLease
<1>4. CASE Ring \/ RunAlarm \/ FailTick \/ RetryAlarm \/ OpenWebSocket
  BY <1>4 DEF Ring, RunAlarm, BeginTick, PlanTick, RenewAlarm, FailTick, RetryAlarm, OpenWebSocket
<1>5. ASSUME NEW l \in loops, RunLoop(l) \/ FailPlan(l)
      PROVE  UNCHANGED <<version, ledger>>
  BY <1>5 DEF RunLoop, TakeRequest, LoadPlan, PersistPlan, EndLoop, FailPlan
<1>6. ASSUME \/ \E k \in Captures : RequestCapture(k)
             \/ \E g \in Groups : RecallFallsDue(g)
             \/ BeginLogo \/ Restart
      PROVE  UNCHANGED <<version, ledger>>
  BY <1>6 DEF RequestCapture, RecallFallsDue, BeginLogo, Restart
<1> QED  BY <1>1, <1>2, <1>3, <1>4, <1>5, <1>6 DEF Next

LEMMA VersionRises ==
  ASSUME TypeOK, [Next]_vars
  PROVE  version' \in Nat /\ version <= version'
<1>1. version \in Nat /\ version' \in Nat
  BY NextTyped DEF TypeOK
<1>2. version' = version \/ version' = version + 1
  BY Movers DEF Execute, ExpireRecalls, CommitLogo, Advance
<1> QED  BY <1>1, <1>2

LEMMA DisciplineKept ==
  ASSUME TypeOK, Disciplined, [Next]_vars
  PROVE  Disciplined'
<1>1. /\ version \in Nat /\ version' \in Nat /\ version <= version'
      /\ step \in Steps /\ step.seen \in Nat
  BY VersionRises DEF TypeOK, Steps
<1>2. CASE step' = Idle
  BY <1>1, <1>2 DEF Disciplined, Idle
<1>3. CASE TurnKept
  BY <1>1, <1>3 DEF Disciplined, TurnKept
<1>4. ASSUME tail # <<>>, UNCHANGED tail, step'.seen \in {step.seen, version},
             step'.stage \in {"idle", "loaded"}
      PROVE  Disciplined'
  BY <1>1, <1>4 DEF Disciplined
<1>5. ASSUME NEW c \in Commands, Preflight(c) PROVE Disciplined'
  BY <1>2, <1>4, <1>5, TurnTypes DEF Preflight, NextRequest
<1>6. ASSUME NEW stage \in Stages, step' = [step EXCEPT !.stage = stage]
      PROVE  step'.stage = stage /\ step'.seen = step.seen
  BY <1>1, <1>6 DEF Steps
<1>7. ASSUME NEW c \in Commands, Execute(c) PROVE Disciplined'
  <2>1. step'.stage = "committed" /\ step'.seen = step.seen /\ tail' = tail
    BY <1>6, <1>7 DEF Execute, Stages
  <2> QED  BY <1>1, <1>7, <2>1, TurnTypes DEF Disciplined, Execute
<1>8. CASE BeginTick
  BY <1>4, <1>8, TurnTypes DEF BeginTick
<1>9. CASE ExpireRecalls
  <2>1. step'.stage = "committed" /\ step'.seen = step.seen /\ tail' = tail
    BY <1>6, <1>9 DEF ExpireRecalls, Stages
  <2> QED  BY <1>1, <1>9, <2>1, TurnTypes DEF Disciplined, ExpireRecalls
<1>10. CASE PlanTick \/ FailTick
  <2>1. step'.stage \in {"awaiting", "renewing"} /\ step'.seen = step.seen /\ tail' = tail
    BY <1>6, <1>10 DEF PlanTick, FailTick, Stages
  <2>2. tail # <<>> /\ Head(tail).type = "ALARM"
    BY <1>10, TurnTypes DEF PlanTick, FailTick
  <2> QED  BY <1>1, <2>1, <2>2 DEF Disciplined
<1>11. CASE BeginLease
  <2>1. step'.stage \in {"loaded", "awaiting"} /\ step'.seen = version /\ tail' = tail
    BY <1>11 DEF BeginLease
  <2> QED  BY <1>1, <1>11, <2>1, TurnTypes DEF Disciplined, BeginLease
<1>12. CASE DecideLease
  <2>1. CASE step' = [step EXCEPT !.stage = "replanning"] /\ tail' = tail
    BY <1>1, <1>6, <1>12, <2>1, TurnTypes DEF Disciplined, DecideLease, Stages
  <2> QED  BY <1>2, <1>12, <2>1 DEF DecideLease, NextRequest
<1>13. ASSUME NEW l \in loops, EndLoop(l) PROVE Disciplined'
  <2>1. CASE step.stage # "awaiting"
    BY <1>3, <1>13, <2>1 DEF EndLoop, TurnKept
  <2>2. CASE step.stage = "awaiting"
    <3>1. step'.stage = (IF Head(tail).type = "ALARM" THEN "renewing" ELSE "loaded")
          /\ step'.seen = step.seen /\ tail' = tail
      BY <1>6, <1>13, <2>2 DEF EndLoop, Stages
    <3> QED  BY <1>1, <2>2, <3>1 DEF Disciplined
  <2> QED  BY <2>1, <2>2
<1> QED  BY <1>2, <1>3, <1>5, <1>7, <1>8, <1>9, <1>10, <1>11, <1>12, <1>13, Turns

-----------------------------------------------------------------------------
\* The versions along the tail.

Settled(n) == \A i \in DOMAIN ledger : ledger[i].by # "LOGO" => ledger[i].version <= n

VersionInv ==
  /\ Settled(version)
  \* Nothing of the tail has been written since the request at its head has read.
  /\ step.stage = "loaded" /\ Head(tail).type # "LEASE" => Settled(step.seen)
  /\ TailVersionsRise

LEMMA LedgerGrows ==
  ASSUME TypeOK, NEW e \in Changes, ledger' = Append(ledger, e)
  PROVE  /\ Len(ledger) \in Nat
         /\ DOMAIN ledger = 1..Len(ledger)
         /\ DOMAIN ledger' = 1..(Len(ledger) + 1)
         /\ \A i \in DOMAIN ledger : ledger'[i] = ledger[i]
         /\ ledger'[Len(ledger) + 1] = e
<1>1. ledger \in Seq(Changes)
  BY DEF TypeOK
<1>2. Len(ledger) \in Nat /\ DOMAIN ledger = 1..Len(ledger)
  BY <1>1, LenProperties
<1>3. /\ ledger' \in Seq(Changes) /\ Len(ledger') = Len(ledger) + 1
      /\ \A i \in 1..Len(ledger) : ledger'[i] = ledger[i]
      /\ ledger'[Len(ledger) + 1] = e
  BY <1>1, AppendProperties
<1>4. DOMAIN ledger' = 1..Len(ledger')
  BY <1>3, LenProperties
<1> QED  BY <1>2, <1>3, <1>4

LEMMA LedgerTypes ==
  ASSUME TypeOK
  PROVE  /\ version \in Nat /\ step.seen \in Nat
         /\ \A i \in DOMAIN ledger : ledger[i] \in Changes /\ ledger[i].version \in Nat
<1>1. ledger \in Seq(Changes)
  BY DEF TypeOK
<1>2. \A i \in DOMAIN ledger : ledger[i] \in Changes
  BY <1>1, LenProperties, ElementOfSeq
<1>3. version \in Nat /\ step.seen \in Nat
  BY DEF TypeOK, Steps
<1> QED  BY <1>2, <1>3 DEF Changes

LEMMA HeadTypes ==
  ASSUME TypeOK, tail # <<>>
  PROVE  /\ Head(tail) \in Requests
         /\ Head(tail).type \in {"COMMAND", "ALARM", "LEASE"}
<1>1. Head(tail) \in Requests
  BY HeadTailProperties DEF TypeOK
<1> QED  BY <1>1 DEF Requests, CommandRequest, AlarmRequest, LeaseRequest

\* The batch of a turn, a command's or the alarm's.
LEMMA BatchKeepsVersions ==
  ASSUME TypeOK, Disciplined, VersionInv, NEW by \in Commands \cup {"ALARM"},
         tail # <<>>, step.stage = "loaded", Head(tail).type # "LEASE",
         Advance, Reports(by), step'.stage = "committed"
  PROVE  VersionInv'
<1> DEFINE e == [by |-> by, version |-> step.seen + 1]
<1>1. e \in Changes /\ ledger' = Append(ledger, e)
  BY LedgerTypes DEF Changes, Reports
<1>2. version' \in Nat /\ version <= version' /\ step.seen + 1 <= version'
  BY LedgerTypes DEF Advance, Unmoved, Disciplined
<1>3. Settled(step.seen)
  BY DEF VersionInv
<1> HIDE DEF e
<1>4. /\ Len(ledger) \in Nat /\ DOMAIN ledger = 1..Len(ledger)
      /\ DOMAIN ledger' = 1..(Len(ledger) + 1)
      /\ \A i \in DOMAIN ledger : ledger'[i] = ledger[i]
      /\ ledger'[Len(ledger) + 1] = e
  BY <1>1, LedgerGrows
<1>5. e.by = by /\ e.version = step.seen + 1
  BY DEF e
<1>6. Settled(version)'
  BY <1>2, <1>4, <1>5, LedgerTypes DEF VersionInv, Settled
<1>7. TailVersionsRise'
  <2> SUFFICES ASSUME NEW i \in DOMAIN ledger', NEW j \in DOMAIN ledger',
                      i < j, "LOGO" \notin {ledger'[i].by, ledger'[j].by}
               PROVE  ledger'[i].version < ledger'[j].version
    BY DEF TailVersionsRise
  <2>1. CASE j \in DOMAIN ledger
    BY <1>4, <2>1 DEF VersionInv, TailVersionsRise
  <2>2. CASE j \notin DOMAIN ledger
    <3>1. j = Len(ledger) + 1 /\ i \in DOMAIN ledger
      BY <1>4, <2>2
    <3>2. ledger'[i].version <= step.seen
      BY <1>3, <1>4, <3>1 DEF Settled
    <3> QED  BY <1>4, <1>5, <3>1, <3>2, LedgerTypes
  <2> QED  BY <2>1, <2>2
<1> QED  BY <1>6, <1>7 DEF VersionInv

LEMMA LogoKeepsVersions ==
  ASSUME TypeOK, VersionInv, CommitLogo
  PROVE  VersionInv'
<1>1. CASE UNCHANGED <<version, ledger>>
  BY <1>1 DEF VersionInv, Settled, TailVersionsRise, CommitLogo
<1>2. CASE ~UNCHANGED <<version, ledger>>
  <2> DEFINE e == [by |-> "LOGO", version |-> version + 1]
  <2>1. ledger' = Append(ledger, e) /\ version' = version + 1 /\ UNCHANGED <<tail, step>>
    BY <1>2 DEF CommitLogo
  <2>2. e \in Changes /\ e.by = "LOGO"
    BY LedgerTypes DEF Changes
  <2> HIDE DEF e
  <2>3. /\ Len(ledger) \in Nat /\ DOMAIN ledger = 1..Len(ledger)
        /\ DOMAIN ledger' = 1..(Len(ledger) + 1)
        /\ \A i \in DOMAIN ledger : ledger'[i] = ledger[i]
        /\ ledger'[Len(ledger) + 1] = e
    BY <2>1, <2>2, LedgerGrows
  <2>4. \A i \in DOMAIN ledger' : ledger'[i].by # "LOGO" => i \in DOMAIN ledger
    BY <2>2, <2>3
  <2>5. Settled(version)' /\ (Settled(step.seen) => Settled(step.seen)')
    BY <2>1, <2>3, <2>4, LedgerTypes DEF VersionInv, Settled
  <2>6. TailVersionsRise'
    BY <2>3, <2>4 DEF VersionInv, TailVersionsRise
  <2> QED  BY <2>1, <2>5, <2>6 DEF VersionInv
<1> QED  BY <1>1, <1>2

LEMMA VersionsKept ==
  ASSUME TypeOK, Disciplined, VersionInv, [Next]_vars
  PROVE  VersionInv'
<1> USE DEF stored
<1>1. ASSUME NEW c \in Commands, Execute(c) PROVE VersionInv'
  <2>1. step'.stage = "committed"
    BY <1>1 DEF Execute, TypeOK, Steps
  <2> QED  BY <1>1, <2>1, BatchKeepsVersions, TurnTypes DEF Execute
<1>2. CASE ExpireRecalls
  <2>1. step'.stage = "committed"
    BY <1>2 DEF ExpireRecalls, TypeOK, Steps
  <2> QED  BY <1>2, <2>1, BatchKeepsVersions, TurnTypes DEF ExpireRecalls
<1>3. CASE CommitLogo
  BY <1>3, LogoKeepsVersions
<1>4. CASE UNCHANGED <<version, ledger>>
  <2>1. ASSUME step'.stage = "loaded" /\ Head(tail').type # "LEASE" => Settled(step'.seen)
        PROVE  VersionInv'
    BY <1>4, <2>1 DEF VersionInv, Settled, TailVersionsRise
  <2>2. CASE step' = Idle
    BY <2>1, <2>2 DEF Idle
  <2>3. CASE TurnKept
    BY <2>1, <2>3 DEF VersionInv, Disciplined, TurnKept
  <2>4. CASE step' = [stage |-> "loaded", seen |-> version, active |-> active]
    BY <2>1, <2>4 DEF VersionInv
  <2>5. CASE step'.stage \notin {"loaded"}
    BY <2>1, <2>5
  <2>6. ASSUME tail # <<>>, Head(tail).type = "LEASE", tail' = tail PROVE VersionInv'
    BY <2>1, <2>6
  <2>7. ASSUME NEW c \in Commands, Preflight(c) PROVE VersionInv'
    BY <2>2, <2>4, <2>7 DEF Preflight, NextRequest
  <2>8. CASE BeginTick \/ PlanTick \/ FailTick
    BY <2>4, <2>5, <2>8 DEF BeginTick, PlanTick, FailTick, TypeOK, Steps
  <2>9. CASE BeginLease \/ DecideLease
    BY <2>2, <2>6, <2>9, TurnTypes DEF BeginLease, DecideLease, NextRequest
  <2>10. ASSUME NEW l \in loops, EndLoop(l) PROVE VersionInv'
    <3>1. CASE step.stage # "awaiting"
      BY <2>3, <2>10, <3>1 DEF EndLoop, TurnKept
    <3>2. CASE step.stage = "awaiting" /\ Head(tail).type = "ALARM"
      BY <2>5, <2>10, <3>2 DEF EndLoop, TypeOK, Steps
    <3>3. CASE step.stage = "awaiting" /\ Head(tail).type # "ALARM"
      BY <2>6, <2>10, <3>3, HeadTypes DEF EndLoop, Disciplined
    <3> QED  BY <3>1, <3>2, <3>3
  <2> QED  BY <1>1, <1>2, <2>2, <2>3, <2>7, <2>8, <2>9, <2>10, Turns
<1> QED  BY <1>1, <1>2, <1>3, <1>4, Movers

\* Who went through the tail never decided on a state another one of the tail was about
\* to replace: the versions in the ledger rise, logo uploads or not.
THEOREM VersionsRise == Spec => []TailVersionsRise
<1>1. Init => Disciplined /\ VersionInv
  <2> SUFFICES ASSUME Init PROVE Disciplined /\ VersionInv
    OBVIOUS
  <2>1. DOMAIN ledger = {}
    BY EmptySeq DEF Init
  <2> QED  BY <2>1 DEF Init, Idle, Disciplined, VersionInv, Settled, TailVersionsRise
<1>2. TypeOK /\ Disciplined /\ VersionInv /\ [Next]_vars => Disciplined' /\ VersionInv'
  BY DisciplineKept, VersionsKept
<1>3. VersionInv => TailVersionsRise
  BY DEF VersionInv
<1> QED  BY <1>1, <1>2, <1>3, TypeCorrect, PTL DEF Spec

-----------------------------------------------------------------------------
\* The forecast loop.

\* What the lease at the head has read is no newer than what a running forecast has read.
LeaseBehind == \A l \in loops : l.stage = "loaded" => step.seen <= l.seen

LoopInv ==
  /\ \A l, m \in loops : l = m
  /\ planned <= version
  /\ \A l \in loops : l.stage = "loaded" => planned <= l.seen /\ l.seen <= version
  /\ step.stage \in {"loaded", "replanning"} /\ Head(tail).type = "LEASE" => LeaseBehind

\* Outside its own steps the loop is started, or lost with the memory of the object.
LEMMA LoopMovers ==
  ASSUME [Next]_vars
  PROVE  \/ UNCHANGED planned /\ (UNCHANGED loops \/ StartLoop \/ loops' = {})
         \/ PersistReplan
         \/ \E l \in loops : RunLoop(l) \/ FailPlan(l)
<1> USE DEF memory
<1>1. CASE UNCHANGED vars
  BY <1>1 DEF vars
<1>2. ASSUME NEW c \in Commands,
             Send(c) \/ LoseConnection(c) \/ Resend(c) \/ RunCommand(c) \/ FailCommand(c)
      PROVE  UNCHANGED planned /\ (UNCHANGED loops \/ StartLoop)
  BY <1>2 DEF Send, LoseConnection, Resend, RunCommand, Preflight, Refuse, Execute, Answer,
     FailCommand, Broadcast, ScheduleForecast
<1>3. ASSUME AskLease \/ RunLease \/ FailLease
      PROVE  \/ UNCHANGED planned /\ (UNCHANGED loops \/ StartLoop)
             \/ PersistReplan
  BY <1>3 DEF AskLease, RunLease, BeginLease, DecideLease, FailLease, ScheduleForecast
<1>4. ASSUME Ring \/ RunAlarm \/ FailTick \/ RetryAlarm \/ OpenWebSocket
      PROVE  UNCHANGED planned /\ (UNCHANGED loops \/ StartLoop)
  BY <1>4 DEF Ring, RunAlarm, BeginTick, ExpireRecalls, PlanTick, RenewAlarm, FailTick, RetryAlarm,
     OpenWebSocket, ScheduleForecast
<1>5. ASSUME \/ \E k \in Captures : RequestCapture(k)
             \/ \E g \in Groups : RecallFallsDue(g)
             \/ BeginLogo \/ CommitLogo \/ Restart
      PROVE  UNCHANGED planned /\ (UNCHANGED loops \/ StartLoop \/ loops' = {})
  BY <1>5 DEF RequestCapture, RecallFallsDue, BeginLogo, CommitLogo, Restart
<1> QED  BY <1>1, <1>2, <1>3, <1>4, <1>5 DEF Next

LEMMA ForecastTypes ==
  ASSUME TypeOK
  PROVE  /\ version \in Nat /\ planned \in Nat /\ step.seen \in Nat
         /\ \A l \in loops : l \in Loops /\ l.seen \in Nat
  BY DEF TypeOK, Steps, Loops

\* The steps of the loop itself.
LEMMA RunKeepsLoop ==
  ASSUME TypeOK, Disciplined, LoopInv, NEW l \in loops, RunLoop(l) \/ FailPlan(l)
  PROVE  LoopInv' /\ planned <= planned'
<1> USE DEF stored, memory
<1>1. /\ loops = {l} /\ l \in Loops /\ l.seen \in Nat
      /\ version \in Nat /\ planned \in Nat /\ step.seen \in Nat /\ step.seen <= version
  BY ForecastTypes DEF LoopInv, Disciplined
<1>2. AtHead.stage = "next" /\ \A id : Taken(id).stage = "taken"
  BY DEF AtHead, Taken
<1>3. ASSUME TakeRequest(l) PROVE LoopInv' /\ planned <= planned'
  <2>1. \E id : loops' = {Taken(id)}
    BY <1>1, <1>3 DEF TakeRequest, Moved
  <2> QED  BY <1>1, <1>2, <1>3, <2>1 DEF TakeRequest, LoopInv, LeaseBehind
<1>4. ASSUME LoadPlan(l) PROVE LoopInv' /\ planned <= planned'
  <2>1. CASE loops' = {AtHead}
    BY <1>1, <1>2, <1>4, <2>1 DEF LoadPlan, LoopInv, LeaseBehind
  <2>2. CASE loops' = {[l EXCEPT !.stage = "loaded", !.seen = version]}
    <3>1. \A m \in loops' : m.seen = version
      BY <1>1, <2>2 DEF Loops
    <3> QED  BY <1>1, <1>4, <2>2, <3>1 DEF LoadPlan, LoopInv, LeaseBehind
  <2> QED  BY <1>1, <1>4, <2>1, <2>2 DEF LoadPlan, Moved
<1>5. ASSUME PersistPlan(l) PROVE LoopInv' /\ planned <= planned'
  <2>1. loops' = {AtHead} /\ planned' = l.seen
    BY <1>1, <1>5 DEF PersistPlan, Finish, Moved
  <2>2. planned <= l.seen /\ l.seen <= version
    BY <1>1, <1>5 DEF PersistPlan, LoopInv
  <2> QED  BY <1>1, <1>2, <1>5, <2>1, <2>2 DEF PersistPlan, LoopInv, LeaseBehind
<1>6. ASSUME FailPlan(l) PROVE LoopInv' /\ planned <= planned'
  <2>1. loops' = {AtHead}
    BY <1>1, <1>6 DEF FailPlan, Finish, Moved
  <2> QED  BY <1>1, <1>2, <1>6, <2>1 DEF FailPlan, LoopInv, LeaseBehind
<1>7. ASSUME EndLoop(l) PROVE LoopInv' /\ planned <= planned'
  <2>1. loops' = {}
    BY <1>1, <1>7 DEF EndLoop
  <2> QED  BY <1>1, <1>7, <2>1 DEF EndLoop, LoopInv, LeaseBehind
<1> QED  BY <1>3, <1>4, <1>5, <1>6, <1>7 DEF RunLoop

\* Everyone else.
LEMMA OthersKeepLoop ==
  ASSUME TypeOK, Disciplined, LoopInv, [Next]_vars,
         UNCHANGED loops \/ StartLoop \/ loops' = {},
         planned' \in Nat, planned' <= version,
         \A l \in loops : l.stage = "loaded" => planned' <= l.seen,
         ~ \E l \in loops : RunLoop(l) \/ FailPlan(l)
  PROVE  LoopInv'
<1>1. version \in Nat /\ version' \in Nat /\ version <= version' /\ step.seen \in Nat
  BY VersionRises, ForecastTypes
<1>2. \A l \in loops' : l.stage = "loaded" => l \in loops
  BY DEF StartLoop, AtHead
<1>3. \A l, m \in loops' : l = m
  BY DEF LoopInv, StartLoop
<1>4. \A l \in loops' : l.stage = "loaded" => planned' <= l.seen /\ l.seen <= version'
  BY <1>1, <1>2, ForecastTypes DEF LoopInv
<1>5. ASSUME step'.stage \in {"loaded", "replanning"} /\ Head(tail').type = "LEASE" => LeaseBehind'
      PROVE  LoopInv'
  BY <1>1, <1>3, <1>4, <1>5 DEF LoopInv
<1>6. CASE step' = Idle
  BY <1>5, <1>6 DEF Idle
<1>7. CASE TurnKept
  BY <1>2, <1>5, <1>7 DEF TurnKept, LoopInv, LeaseBehind, Disciplined
<1>8. ASSUME tail' = tail, tail # <<>>, Head(tail).type # "LEASE" PROVE LoopInv'
  BY <1>5, <1>8
<1>9. ASSUME NEW c \in Commands, Preflight(c) \/ Execute(c) PROVE LoopInv'
  BY <1>6, <1>8, <1>9, TurnTypes DEF Preflight, Execute, NextRequest
<1>10. CASE BeginTick \/ ExpireRecalls \/ PlanTick \/ FailTick
  BY <1>8, <1>10, TurnTypes DEF BeginTick, ExpireRecalls, PlanTick, FailTick
<1>11. CASE BeginLease
  <2>1. CASE loops = {}
    BY <1>5, <1>11, <2>1 DEF BeginLease, LeaseBehind, memory
  <2>2. CASE loops # {}
    BY <1>5, <1>11, <2>2 DEF BeginLease
  <2> QED  BY <2>1, <2>2
<1>12. CASE DecideLease
  <2>1. CASE step' = [step EXCEPT !.stage = "replanning"] /\ UNCHANGED <<tail, loops>>
    <3>1. LeaseBehind /\ step'.seen = step.seen
      BY <1>12, <2>1, TurnTypes DEF DecideLease, LoopInv, TypeOK, Steps
    <3> QED  BY <1>5, <2>1, <3>1 DEF LeaseBehind
  <2> QED  BY <1>6, <1>12, <2>1 DEF DecideLease, NextRequest
<1> QED  BY <1>6, <1>7, <1>9, <1>10, <1>11, <1>12, Turns DEF RunLoop

LEMMA LoopKept ==
  ASSUME TypeOK, Disciplined, LoopInv, [Next]_vars
  PROVE  /\ LoopInv'
         /\ planned' < planned => step.stage = "replanning"
<1>1. planned \in Nat /\ planned' \in Nat
  BY NextTyped DEF TypeOK
<1>2. ASSUME NEW l \in loops, RunLoop(l) \/ FailPlan(l)
      PROVE  LoopInv' /\ planned <= planned'
  BY <1>2, RunKeepsLoop
<1>3. CASE ~ \E l \in loops : RunLoop(l) \/ FailPlan(l)
  <2>1. CASE PersistReplan
    <3>1. planned' = step.seen /\ StartLoop /\ step.stage = "replanning" /\ LeaseBehind
      BY <2>1, TurnTypes DEF PersistReplan, ScheduleForecast, LoopInv
    <3>2. LoopInv'
      BY <1>1, <1>3, <3>1, OthersKeepLoop DEF LeaseBehind, Disciplined
    <3> QED  BY <3>1, <3>2
  <2>2. CASE UNCHANGED planned /\ (UNCHANGED loops \/ StartLoop \/ loops' = {})
    BY <1>1, <1>3, <2>2, OthersKeepLoop DEF LoopInv
  <2> QED  BY <1>3, <2>1, <2>2, LoopMovers
<1> QED  BY <1>1, <1>2, <1>3

\* A run of the forecast loop never replaces a newer forecast, however many snapshots,
\* triggers and uploads come in between.
THEOREM LoopOnlyAdvances == Spec => LoopNeverGoesBack
<1>1. Init => Disciplined /\ LoopInv
  BY DEF Init, Idle, Disciplined, LoopInv
<1>2. TypeOK /\ Disciplined /\ LoopInv /\ [Next]_vars =>
        Disciplined' /\ LoopInv' /\ [planned' < planned => step.stage = "replanning"]_vars
  BY DisciplineKept, LoopKept
<1> QED  BY <1>1, <1>2, TypeCorrect, PTL DEF Spec, LoopNeverGoesBack

-----------------------------------------------------------------------------
\* The coordinator is a command log to its clients.

\* The requests of a command that wait or run.
Asks(c) == {i \in DOMAIN tail : tail[i].type = "COMMAND" /\ tail[i].id = c}

\* Requests of a command are numbered as they were sent, and while one is left the
\* client has no answer: an answer goes to the last of them only.
Asked ==
  \A c \in Commands :
    /\ \A i \in Asks(c) : /\ client[c].state \in {"waiting", "unknown"}
                          /\ tail[i].attempt <= client[c].attempt
    /\ \A i, j \in Asks(c) : i < j => tail[i].attempt < tail[j].attempt

\* A turn that has passed the preflight knows whether there is a receipt.
Received ==
  \A c \in Commands : CommandTurn(c) =>
    /\ step.stage = "loaded" => ~Applied(c)
    /\ step.stage = "committed" => Applied(c)

LEMMA AskTypes ==
  ASSUME TypeOK
  PROVE  /\ Len(tail) \in Nat /\ DOMAIN tail = 1..Len(tail)
         /\ \A i \in DOMAIN tail : tail[i] \in Requests /\ tail[i].attempt \in Nat
         /\ \A c \in Commands : client[c] \in Clients /\ client[c].attempt \in Nat
<1>1. tail \in Seq(Requests) /\ client \in [Commands -> Clients]
  BY DEF TypeOK
<1>2. Len(tail) \in Nat /\ DOMAIN tail = 1..Len(tail) /\ \A i \in DOMAIN tail : tail[i] \in Requests
  BY <1>1, LenProperties, ElementOfSeq
<1>3. \A r \in Requests : r.attempt \in Nat
  BY CoordinatorConstants DEF Requests, CommandRequest, AlarmRequest, LeaseRequest
<1> QED  BY <1>1, <1>2, <1>3 DEF Clients

LEMMA QueueGrows ==
  ASSUME TypeOK, NEW r \in Requests, tail' = Append(tail, r)
  PROVE  /\ \A c : Asks(c)' \subseteq Asks(c) \cup {Len(tail) + 1}
         /\ \A c : Len(tail) + 1 \in Asks(c)' => r.type = "COMMAND" /\ r.id = c
         /\ \A i \in DOMAIN tail : tail'[i] = tail[i] /\ i < Len(tail) + 1
         /\ tail'[Len(tail) + 1] = r
<1>1. tail \in Seq(Requests)
  BY DEF TypeOK
<1>2. /\ tail' \in Seq(Requests) /\ Len(tail') = Len(tail) + 1
      /\ \A i \in 1..Len(tail) : tail'[i] = tail[i]
      /\ tail'[Len(tail) + 1] = r
  BY <1>1, AppendProperties
<1>3. DOMAIN tail' = 1..Len(tail') /\ DOMAIN tail = 1..Len(tail) /\ Len(tail) \in Nat
  BY <1>1, <1>2, LenProperties
<1> QED  BY <1>2, <1>3 DEF Asks

LEMMA QueueMovesUp ==
  ASSUME TypeOK, tail # <<>>, NextRequest
  PROVE  /\ \A c : \A i \in Asks(c)' : i + 1 \in Asks(c) /\ i \in Nat /\ 1 < i + 1 /\ tail'[i] = tail[i + 1]
         /\ 1 \in DOMAIN tail /\ Head(tail) = tail[1]
<1>1. tail \in Seq(Requests) /\ tail' = Tail(tail)
  BY DEF TypeOK, NextRequest
<1>2. /\ tail' \in Seq(Requests) /\ Len(tail') = Len(tail) - 1
      /\ \A i \in 1..Len(tail') : tail'[i] = tail[i + 1]
  BY <1>1, HeadTailProperties
<1>3. /\ DOMAIN tail' = 1..Len(tail') /\ DOMAIN tail = 1..Len(tail)
      /\ Len(tail) \in Nat \ {0} /\ Len(tail') \in Nat
  BY <1>1, <1>2, LenProperties, EmptySeq
<1>4. Head(tail) = tail[1]
  BY <1>1
<1>5. \A i \in 1..Len(tail') : i + 1 \in 1..Len(tail) /\ i \in Nat /\ 1 < i + 1
  BY <1>2, <1>3
<1> QED  BY <1>2, <1>3, <1>4, <1>5 DEF Asks

\* The client whose command ran hears of it, and the next request has its turn.
LEMMA TellKeepsAsked ==
  ASSUME TypeOK, Asked, NEW c \in Commands, CommandTurn(c), NextRequest,
         NEW answer \in {"accepted", "rejected", "unknown"}, client' = Told(c, answer)
  PROVE  Asked'
<1>1. /\ tail # <<>> /\ client \in [Commands -> Clients]
      /\ Head(tail).type = "COMMAND" /\ Head(tail).id = c
  BY DEF CommandTurn, TypeOK
<1>2. /\ \A d : \A i \in Asks(d)' : i + 1 \in Asks(d) /\ i \in Nat /\ 1 < i + 1 /\ tail'[i] = tail[i + 1]
      /\ 1 \in Asks(c) /\ Head(tail) = tail[1]
  BY <1>1, QueueMovesUp DEF Asks
<1>3. ASSUME NEW d \in Commands, client'[d] = client[d]
      PROVE  /\ \A i \in Asks(d)' : /\ client'[d].state \in {"waiting", "unknown"}
                                    /\ tail'[i].attempt <= client'[d].attempt
             /\ \A i, j \in Asks(d)' : i < j => tail'[i].attempt < tail'[j].attempt
  <2>1. \A i, j \in Asks(d)' : i < j => i + 1 < j + 1
    BY <1>2
  <2> QED  BY <1>2, <1>3, <2>1 DEF Asked
<1>4. CASE client[c].state = "waiting" /\ client[c].attempt = Head(tail).attempt
  <2>1. Asks(c)' = {}
    <3> SUFFICES ASSUME NEW i \in Asks(c)' PROVE FALSE
      OBVIOUS
    <3>1. tail[1].attempt < tail[i + 1].attempt /\ tail[i + 1].attempt <= client[c].attempt
      BY <1>2 DEF Asked
    <3>2. tail[1].attempt \in Nat /\ tail[i + 1].attempt \in Nat
      BY <1>2, AskTypes DEF Asks
    <3> QED  BY <1>2, <1>4, <3>1, <3>2
  <2>2. \A d \in Commands : d # c => client'[d] = client[d]
    BY <1>1, <1>4 DEF Told
  <2> HIDE DEF Asks
  <2> QED  BY <1>3, <2>1, <2>2 DEF Asked
<1>5. CASE ~(client[c].state = "waiting" /\ client[c].attempt = Head(tail).attempt)
  BY <1>3, <1>5 DEF Asked, Told
<1> QED  BY <1>4, <1>5

LEMMA SendKeepsAsked ==
  ASSUME TypeOK, Asked, NEW c \in Commands, Send(c) \/ Resend(c)
  PROVE  Asked'
<1> DEFINE n == IF client[c].state = "idle" THEN 1 ELSE client[c].attempt + 1
           r == CommandRequest(c, n)
<1>1. /\ client \in [Commands -> Clients] /\ client[c].attempt \in Nat
      /\ \A i \in DOMAIN tail : tail[i].attempt \in Nat
  BY AskTypes DEF TypeOK
<1>2. n \in 1..MaxAttempts
  BY <1>1, CoordinatorConstants DEF Send, Resend
<1>3. tail' = Append(tail, r) /\ r \in Requests
  BY <1>2, RequestsTyped DEF Send, Resend
<1>4. r.type = "COMMAND" /\ r.id = c /\ r.attempt = n
  BY DEF CommandRequest
<1>5. /\ client'[c].state = "waiting" /\ client'[c].attempt = n
      /\ \A d \in Commands : d # c => client'[d] = client[d]
  BY <1>1 DEF Send, Resend, Clients
<1>6. \A i \in Asks(c) : tail[i].attempt <= client[c].attempt /\ tail[i].attempt < n
  BY <1>1, <1>2 DEF Asked, Asks, Send, Resend
<1> HIDE DEF n, r
<1>7. /\ \A d : Asks(d)' \subseteq Asks(d) \cup {Len(tail) + 1}
      /\ \A d : Len(tail) + 1 \in Asks(d)' => d = c
      /\ \A i \in DOMAIN tail : tail'[i] = tail[i] /\ i < Len(tail) + 1
      /\ tail'[Len(tail) + 1] = r
  BY <1>3, <1>4, QueueGrows
<1>8. ASSUME NEW d \in Commands, d # c
      PROVE  /\ \A i \in Asks(d)' : /\ client'[d].state \in {"waiting", "unknown"}
                                    /\ tail'[i].attempt <= client'[d].attempt
             /\ \A i, j \in Asks(d)' : i < j => tail'[i].attempt < tail'[j].attempt
  <2>1. Asks(d)' \subseteq Asks(d) /\ Asks(d) \subseteq DOMAIN tail
    BY <1>7, <1>8 DEF Asks
  <2> QED  BY <1>5, <1>7, <1>8, <2>1 DEF Asked
<1>9. /\ \A i \in Asks(c)' : /\ client'[c].state \in {"waiting", "unknown"}
                             /\ tail'[i].attempt <= client'[c].attempt
      /\ \A i, j \in Asks(c)' : i < j => tail'[i].attempt < tail'[j].attempt
  <2>1. Asks(c) \subseteq DOMAIN tail
    BY DEF Asks
  <2>2. ASSUME NEW i \in Asks(c)' PROVE tail'[i].attempt <= n
    BY <1>1, <1>2, <1>4, <1>6, <1>7, <2>1
  <2>3. ASSUME NEW i \in Asks(c)', NEW j \in Asks(c)', i < j
        PROVE  tail'[i].attempt < tail'[j].attempt
    <3>1. Len(tail) \in Nat /\ DOMAIN tail = 1..Len(tail)
      BY AskTypes
    <3>2. i \in Asks(c)
      BY <1>7, <2>1, <2>3, <3>1
    <3> QED  BY <1>4, <1>6, <1>7, <2>1, <2>3, <3>2 DEF Asked
  <2> QED  BY <1>5, <2>2, <2>3
<1> QED  BY <1>8, <1>9 DEF Asked

LEMMA AskedKept ==
  ASSUME TypeOK, Asked, [Next]_vars
  PROVE  Asked'
<1>1. ASSUME UNCHANGED <<tail, client>> PROVE Asked'
  BY <1>1 DEF Asked, Asks
<1>2. CASE UNCHANGED vars
  BY <1>1, <1>2 DEF vars
<1>3. ASSUME NEW r \in {AlarmRequest, LeaseRequest}, tail' = Append(tail, r), client' = client
      PROVE  Asked'
  <2>1. r \in Requests /\ r.type # "COMMAND"
    BY <1>3, RequestsTyped DEF AlarmRequest, LeaseRequest
  <2>2. /\ \A c : Asks(c)' \subseteq Asks(c) /\ Asks(c) \subseteq DOMAIN tail
        /\ \A i \in DOMAIN tail : tail'[i] = tail[i]
    BY <1>3, <2>1, QueueGrows DEF Asks
  <2> QED  BY <1>3, <2>2 DEF Asked
<1>4. ASSUME tail # <<>>, NextRequest, client' = client PROVE Asked'
  <2>1. \A d : \A i \in Asks(d)' : i + 1 \in Asks(d) /\ i \in Nat /\ tail'[i] = tail[i + 1]
    BY <1>4, QueueMovesUp
  <2>2. \A d : \A i, j \in Asks(d)' : i < j => i + 1 < j + 1
    BY <2>1
  <2> QED  BY <1>4, <2>1, <2>2 DEF Asked
<1>5. ASSUME NEW c \in Commands,
             Send(c) \/ LoseConnection(c) \/ Resend(c) \/ RunCommand(c) \/ FailCommand(c)
      PROVE  Asked'
  <2>1. CASE LoseConnection(c)
    <3>1. /\ tail' = tail
          /\ \A d \in Commands : /\ client'[d].attempt = client[d].attempt
                                 /\ client'[d].state = client[d].state \/ client'[d].state = "unknown"
      BY <2>1 DEF LoseConnection, TypeOK, Clients
    <3> QED  BY <3>1 DEF Asked, Asks
  <2>2. ASSUME NEW answer \in {"accepted", "rejected", "unknown"},
               CommandTurn(c), NextRequest, client' = Told(c, answer)
        PROVE  Asked'
    BY <2>2, TellKeepsAsked
  <2>3. CASE Preflight(c) \/ Refuse(c) \/ Answer(c) \/ FailCommand(c)
    BY <1>1, <2>2, <2>3 DEF Preflight, Refuse, Answer, FailCommand
  <2>4. CASE Execute(c)
    BY <1>1, <2>4 DEF Execute
  <2> QED  BY <1>5, <2>1, <2>3, <2>4, SendKeepsAsked DEF RunCommand
<1>6. CASE AskLease \/ Ring
  BY <1>3, <1>6 DEF AskLease, Ring
<1>7. CASE RunLease \/ FailLease
  BY <1>1, <1>4, <1>7, TurnTypes DEF RunLease, BeginLease, DecideLease, PersistReplan, FailLease
<1>8. CASE RunAlarm \/ FailTick \/ RetryAlarm \/ OpenWebSocket
  BY <1>1, <1>4, <1>8, TurnTypes
  DEF RunAlarm, BeginTick, ExpireRecalls, PlanTick, RenewAlarm, FailTick, RetryAlarm, OpenWebSocket
<1>9. ASSUME NEW l \in loops, RunLoop(l) \/ FailPlan(l) PROVE Asked'
  BY <1>1, <1>9 DEF RunLoop, TakeRequest, LoadPlan, PersistPlan, EndLoop, FailPlan
<1>10. ASSUME \/ \E k \in Captures : RequestCapture(k)
              \/ \E g \in Groups : RecallFallsDue(g)
              \/ BeginLogo \/ CommitLogo
       PROVE  Asked'
  BY <1>1, <1>10 DEF RequestCapture, RecallFallsDue, BeginLogo, CommitLogo
<1>11. CASE Restart
  <2>1. \A c : Asks(c)' = {}
    BY <1>11, EmptySeq DEF Restart, Asks
  <2> QED  BY <2>1 DEF Asked
<1> QED  BY <1>2, <1>5, <1>6, <1>7, <1>8, <1>9, <1>10, <1>11 DEF Next

LEMMA ReceivedKept ==
  ASSUME TypeOK, Disciplined, Received, [Next]_vars
  PROVE  Received'
<1>1. ASSUME NEW c \in Commands, Execute(c) PROVE Received'
  <2>1. [by |-> c, version |-> step.seen + 1] \in Changes
    BY LedgerTypes DEF Changes
  <2>2. Len(ledger) + 1 \in DOMAIN ledger' /\ ledger'[Len(ledger) + 1].by = c
    BY <1>1, <2>1, LedgerGrows DEF Execute, Reports
  <2>3. Applied(c)'
    BY <2>2 DEF Applied
  <2>4. step'.stage = "committed" /\ tail' = tail /\ CommandTurn(c)
    BY <1>1 DEF Execute, TypeOK, Steps
  <2>5. \A d \in Commands : CommandTurn(d)' => d = c
    BY <2>4 DEF CommandTurn
  <2> QED  BY <2>3, <2>4, <2>5 DEF Received
<1>2. ASSUME tail' = tail, tail # <<>>, Head(tail).type # "COMMAND" PROVE Received'
  BY <1>2 DEF Received, CommandTurn
<1>3. CASE ExpireRecalls
  BY <1>2, <1>3, TurnTypes DEF ExpireRecalls
<1>4. CASE CommitLogo
  <2>1. [by |-> "LOGO", version |-> version + 1] \in Changes
    BY LedgerTypes DEF Changes
  <2>2. ASSUME NEW c \in Commands PROVE Applied(c)' <=> Applied(c)
    <3>1. CASE ledger' = ledger
      BY <3>1 DEF Applied
    <3>2. CASE ledger' = Append(ledger, [by |-> "LOGO", version |-> version + 1])
      <4>1. /\ Len(ledger) \in Nat /\ DOMAIN ledger = 1..Len(ledger)
            /\ DOMAIN ledger' = 1..(Len(ledger) + 1)
            /\ \A i \in DOMAIN ledger : ledger'[i] = ledger[i]
            /\ ledger'[Len(ledger) + 1].by = "LOGO"
        BY <2>1, <3>2, LedgerGrows
      <4>2. c # "LOGO"
        BY CoordinatorConstants
      <4>3. DOMAIN ledger \subseteq DOMAIN ledger'
        BY <4>1
      <4>4. \A i \in DOMAIN ledger' : i \in DOMAIN ledger \/ i = Len(ledger) + 1
        BY <4>1
      <4> QED  BY <4>1, <4>2, <4>3, <4>4 DEF Applied
    <3> QED  BY <1>4, <3>1, <3>2 DEF CommitLogo
  <2> QED  BY <1>4, <2>2 DEF CommitLogo, Received, CommandTurn
<1>5. CASE UNCHANGED <<version, ledger>>
  <2>1. \A c : Applied(c)' <=> Applied(c)
    BY <1>5 DEF Applied
  <2>2. CASE step' = Idle
    BY <2>2 DEF Received, Idle
  <2>3. CASE TurnKept
    BY <2>1, <2>3 DEF TurnKept, Received, CommandTurn, Disciplined
  <2>4. ASSUME NEW c \in Commands, Preflight(c) PROVE Received'
    <3>1. CASE step'.stage = "loaded" /\ tail' = tail /\ ~Applied(c)
      <4>1. \A d \in Commands : CommandTurn(d)' => d = c
        BY <2>4, <3>1 DEF Preflight, CommandTurn
      <4> QED  BY <2>1, <3>1, <4>1 DEF Received
    <3> QED  BY <2>2, <2>4, <3>1 DEF Preflight, NextRequest
  <2>5. CASE BeginTick \/ PlanTick \/ FailTick
    BY <1>2, <2>5, TurnTypes DEF BeginTick, PlanTick, FailTick
  <2>6. CASE BeginLease \/ DecideLease
    BY <1>2, <2>2, <2>6, TurnTypes DEF BeginLease, DecideLease, NextRequest
  <2>7. ASSUME NEW l \in loops, EndLoop(l) PROVE Received'
    <3>1. CASE step.stage # "awaiting"
      BY <2>3, <2>7, <3>1 DEF EndLoop, TurnKept
    <3>2. CASE step.stage = "awaiting"
      BY <1>2, <2>7, <3>2 DEF EndLoop, Disciplined
    <3> QED  BY <3>1, <3>2
  <2> QED  BY <1>1, <1>3, <2>2, <2>3, <2>4, <2>5, <2>6, <2>7, Turns
<1> QED  BY <1>1, <1>3, <1>4, <1>5, Movers

-----------------------------------------------------------------------------
\* The step simulation.

changes == [i \in DOMAIN ledger |-> ledger[i].by]
answers == [c \in Commands |-> Answered(c)]

LEMMA ChangesGrow ==
  ASSUME TypeOK, NEW e \in Changes, ledger' = Append(ledger, e)
  PROVE  changes' = Append(changes, e.by)
<1> DEFINE n == Len(ledger)
           S == Commands \cup {"ALARM", "LOGO"}
<1>1. /\ n \in Nat /\ DOMAIN ledger = 1..n /\ DOMAIN ledger' = 1..(n + 1)
      /\ \A i \in DOMAIN ledger : ledger'[i] = ledger[i]
      /\ ledger'[n + 1] = e
  BY LedgerGrows
<1>2. e.by \in S /\ \A i \in DOMAIN ledger : ledger[i].by \in S
  BY LedgerTypes DEF Changes
<1> HIDE DEF n, S
<1>3. changes \in [1..n -> S] /\ changes' \in [1..(n + 1) -> S]
  BY <1>1, <1>2 DEF changes
<1>4. changes \in Seq(S) /\ changes' \in Seq(S)
  BY <1>1, <1>3, SeqDef
<1>5. Len(changes) = n /\ Len(changes') = n + 1
  BY <1>1, <1>3, <1>4, LenProperties
<1>6. /\ Append(changes, e.by) \in Seq(S) /\ Len(Append(changes, e.by)) = n + 1
      /\ \A i \in 1..n : Append(changes, e.by)[i] = changes[i]
      /\ Append(changes, e.by)[n + 1] = e.by
  BY <1>2, <1>4, <1>5, AppendProperties
<1>7. \A i \in 1..(n + 1) : changes'[i] = Append(changes, e.by)[i]
  BY <1>1, <1>6 DEF changes
<1> QED  BY <1>4, <1>5, <1>6, <1>7, SeqEqual

LEMMA ToldAnswers ==
  ASSUME TypeOK, NEW c \in Commands, NEW answer \in {"accepted", "rejected", "unknown"},
         client' = Told(c, answer)
  PROVE  \/ answers' = answers
         \/ /\ answer # "unknown" /\ answers[c] = "none"
            /\ answers' = [answers EXCEPT ![c] = answer]
<1>1. client \in [Commands -> Clients]
  BY DEF TypeOK
<1>2. CASE client' = client
  BY <1>2 DEF answers, Answered
<1>3. CASE client[c].state = "waiting" /\ client' = [client EXCEPT ![c].state = answer]
  <2>1. /\ client'[c].state = answer
        /\ \A d \in Commands : d # c => client'[d] = client[d]
    BY <1>1, <1>3 DEF Clients
  <2>2. \A d \in Commands : d # c => Answered(d)' = Answered(d)
    BY <2>1 DEF Answered
  <2>3. Answered(c) = "none" /\ Answered(c)' = IF answer = "unknown" THEN "none" ELSE answer
    BY <1>3, <2>1 DEF Answered
  <2> HIDE DEF Answered
  <2>4. CASE answer = "unknown"
    BY <2>2, <2>3, <2>4 DEF answers
  <2>5. CASE answer # "unknown"
    BY <2>2, <2>3, <2>5 DEF answers
  <2> QED  BY <2>4, <2>5
<1> QED  BY <1>2, <1>3 DEF Told

\* Nobody but the turn of a command answers its client.
LEMMA Speakers ==
  ASSUME TypeOK, Asked, [Next]_vars
  PROVE  \/ answers' = answers
         \/ \E c \in Commands : Preflight(c) \/ Refuse(c) \/ Answer(c)
<1> USE DEF stored, memory, external
<1>1. ASSUME client' = client PROVE answers' = answers
  BY <1>1 DEF answers, Answered
<1>2. ASSUME \A c \in Commands : Answered(c)' = Answered(c) PROVE answers' = answers
  BY <1>2 DEF answers
<1>3. CASE UNCHANGED vars
  BY <1>1, <1>3 DEF vars
<1>4. ASSUME NEW c \in Commands, Send(c) \/ LoseConnection(c) \/ Resend(c) \/ FailCommand(c)
      PROVE  answers' = answers
  <2>1. CASE FailCommand(c)
    BY <2>1, ToldAnswers DEF FailCommand
  <2>2. CASE Send(c) \/ LoseConnection(c) \/ Resend(c)
    <3>1. /\ client[c].state \in {"idle", "waiting", "unknown"}
          /\ client'[c].state \in {"waiting", "unknown"}
          /\ \A d \in Commands : d # c => client'[d] = client[d]
      BY <2>2 DEF Send, LoseConnection, Resend, TypeOK, Clients
    <3> QED  BY <1>2, <3>1 DEF Answered
  <2> QED  BY <1>4, <2>1, <2>2
<1>5. ASSUME Restart PROVE answers' = answers
  <2>1. \A c \in Commands : \/ client'[c] = client[c]
                            \/ client[c].state = "waiting" /\ client'[c].state = "unknown"
    BY <1>5 DEF Restart, TypeOK, Clients
  <2> QED  BY <1>2, <2>1 DEF Answered
<1>6. ASSUME NEW c \in Commands, Execute(c) PROVE client' = client
  BY <1>6 DEF Execute
<1>7. ASSUME AskLease \/ RunLease \/ FailLease PROVE client' = client
  BY <1>7 DEF AskLease, RunLease, BeginLease, DecideLease, PersistReplan, FailLease
<1>8. ASSUME Ring \/ RunAlarm \/ FailTick \/ RetryAlarm \/ OpenWebSocket PROVE client' = client
  BY <1>8 DEF Ring, RunAlarm, BeginTick, ExpireRecalls, PlanTick, RenewAlarm, FailTick, RetryAlarm,
     OpenWebSocket
<1>9. ASSUME NEW l \in loops, RunLoop(l) \/ FailPlan(l) PROVE client' = client
  BY <1>9 DEF RunLoop, TakeRequest, LoadPlan, PersistPlan, EndLoop, FailPlan
<1>10. ASSUME \/ \E k \in Captures : RequestCapture(k)
              \/ \E g \in Groups : RecallFallsDue(g)
              \/ BeginLogo \/ CommitLogo
       PROVE  client' = client
  BY <1>10 DEF RequestCapture, RecallFallsDue, BeginLogo, CommitLogo
<1> QED
  BY <1>1, <1>3, <1>4, <1>5, <1>6, <1>7, <1>8, <1>9, <1>10 DEF Next, RunCommand

LEMMA AppliedChanges ==
  ASSUME NEW c
  PROVE  Log!IsApplied(c) <=> Applied(c)
  BY DEF Log!IsApplied, Applied

\* Every step of the coordinator is a step of the log or none.
LEMMA LogStep ==
  ASSUME TypeOK, Disciplined, Asked, Received, [Next]_vars
  PROVE  [Log!Next]_(Log!vars)
<1> USE DEF stored, memory, external
<1>1. ASSUME changes' = changes, answers' = answers PROVE [Log!Next]_(Log!vars)
  BY <1>1 DEF changes, answers, Log!vars
<1>2. ASSUME NEW c \in Commands, Preflight(c) \/ Refuse(c) \/ Answer(c)
      PROVE  [Log!Next]_(Log!vars)
  <2>1. PICK answer \in {"accepted", "rejected"} :
          /\ client' = client \/ client' = Told(c, answer)
          /\ answer = "accepted" => Applied(c)
          /\ answer = "rejected" => ~Applied(c)
    BY <1>2 DEF Preflight, Refuse, Answer, Received
  <2>2. changes' = changes
    BY <1>2 DEF Preflight, Refuse, Answer, changes
  <2>3. CASE answers' = answers
    BY <1>1, <2>2, <2>3
  <2>4. CASE answers' # answers
    <3>1. client' # client
      BY <2>4 DEF answers, Answered
    <3>2. answers[c] = "none" /\ answers' = [answers EXCEPT ![c] = answer]
      BY <2>1, <2>4, <3>1, ToldAnswers
    <3>3. Log!Accept(c) \/ Log!Reject(c)
      BY <2>1, <2>2, <3>2, AppliedChanges DEF Log!Accept, Log!Reject, changes, answers
    <3> QED  BY <3>3 DEF Log!Next
  <2> QED  BY <2>3, <2>4
<1>3. ASSUME NEW c \in Commands, Execute(c) PROVE [Log!Next]_(Log!vars)
  <2>1. answers[c] = "none"
    <3>1. tail \in Seq(Requests) /\ tail # <<>> /\ CommandTurn(c)
      BY <1>3 DEF Execute, CommandTurn, TypeOK
    <3>2. 1 \in DOMAIN tail /\ Head(tail) = tail[1]
      BY <3>1, LenProperties, EmptySeq
    <3>3. 1 \in Asks(c)
      BY <3>1, <3>2 DEF Asks, CommandTurn
    <3> QED  BY <3>3 DEF Asked, answers, Answered
  <2>2. answers' = answers
    BY <1>3 DEF Execute, answers, Answered
  <2>3. changes' = Append(changes, c)
    <3>1. [by |-> c, version |-> step.seen + 1] \in Changes
      BY LedgerTypes DEF Changes
    <3> QED  BY <1>3, <3>1, ChangesGrow DEF Execute, Reports
  <2>4. Log!Apply(c)
    BY <1>3, <2>1, <2>2, <2>3, AppliedChanges DEF Execute, Log!Apply, changes, answers
  <2> QED  BY <2>4 DEF Log!Next
<1>4. ASSUME NEW o \in {"ALARM", "LOGO"}, changes' = Append(changes, o), answers' = answers
      PROVE  [Log!Next]_(Log!vars)
  <2>1. Log!ApplyOther(o)
    BY <1>4 DEF Log!ApplyOther, changes, answers
  <2> QED  BY <1>4, <2>1 DEF Log!Next
<1>5. CASE ExpireRecalls
  <2>1. [by |-> "ALARM", version |-> step.seen + 1] \in Changes
    BY LedgerTypes DEF Changes
  <2>2. changes' = Append(changes, "ALARM")
    BY <1>5, <2>1, ChangesGrow DEF ExpireRecalls, Reports
  <2>3. answers' = answers
    BY <1>5 DEF ExpireRecalls, answers, Answered
  <2> QED  BY <1>4, <2>2, <2>3
<1>6. CASE CommitLogo
  <2>1. [by |-> "LOGO", version |-> version + 1] \in Changes
    BY LedgerTypes DEF Changes
  <2>2. answers' = answers
    BY <1>6 DEF CommitLogo, answers, Answered
  <2>3. changes' = changes \/ changes' = Append(changes, "LOGO")
    <3>1. CASE ledger' = ledger
      BY <3>1 DEF changes
    <3>2. CASE ledger' = Append(ledger, [by |-> "LOGO", version |-> version + 1])
      BY <2>1, <3>2, ChangesGrow
    <3> QED  BY <1>6, <3>1, <3>2 DEF CommitLogo
  <2> QED  BY <1>1, <1>4, <2>2, <2>3
<1>7. CASE UNCHANGED <<version, ledger>>
  <2>1. changes' = changes
    BY <1>7 DEF changes
  <2> QED  BY <1>1, <1>2, <2>1, Speakers
<1> QED  BY <1>3, <1>5, <1>6, <1>7, Movers

\* To its clients the coordinator is the command log, for any number of commands and of
\* repetitions: each takes effect once at most, and every answer says what happened.
THEOREM CoordinatorIsCommandLog == Spec => ImplementsCommandLog
<1>1. Init => Disciplined /\ Asked /\ Received /\ Log!Init
  <2> SUFFICES ASSUME Init PROVE Disciplined /\ Asked /\ Received /\ Log!Init
    OBVIOUS
  <2>1. Disciplined /\ Received
    BY DEF Init, Idle, Disciplined, Received
  <2>2. DOMAIN tail = {} /\ DOMAIN ledger = {}
    BY EmptySeq DEF Init
  <2>3. Asked
    BY <2>2 DEF Asked, Asks
  <2>4. [i \in DOMAIN ledger |-> ledger[i].by] = <<>>
    BY <2>2
  <2>5. [c \in Commands |-> Answered(c)] = [c \in Commands |-> "none"]
    BY DEF Init, Answered
  <2> QED  BY <2>1, <2>3, <2>4, <2>5 DEF Log!Init
<1>2. TypeOK /\ Disciplined /\ Asked /\ Received /\ [Next]_vars =>
        Disciplined' /\ Asked' /\ Received' /\ [Log!Next]_(Log!vars)
  BY DisciplineKept, AskedKept, ReceivedKept, LogStep
<1> QED  BY <1>1, <1>2, TypeCorrect, PTL DEF Spec, ImplementsCommandLog, Log!Spec

=============================================================================
