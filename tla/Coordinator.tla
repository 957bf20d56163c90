----------------------------- MODULE Coordinator -----------------------------
(***************************************************************************)
(* The Durable Object of one event, EventCoordinator: every writing        *)
(* request waits its turn in commandTail, each is several awaits long, and *)
(* next to the tail run the forecast loop, the alarm the platform rings,   *)
(* the capture of analysis snapshots and, in the Worker, the upload of a   *)
(* logo, which writes the event's version without going through the tail.  *)
(*                                                                         *)
(* D1 and the object's storage survive a restart; the tail, the step in    *)
(* progress, the pending forecast and the loop do not.  Payloads are       *)
(* abstracted to what tells one request from another: a command type       *)
(* stands for every command with the same footprint on this state.         *)
(***************************************************************************)
EXTENDS Naturals, Sequences, FiniteSets

CONSTANTS Commands,       \* command ids
          Groups,         \* booking groups that may be recalled
          Captures,       \* request ids of analysis snapshots
          NONE,           \* nothing
          Types,          \* the command types the clients use
          RecallBatch,    \* recalls one alarm ends at most (20 in the code)
          MaxAttempts,    \* bound: how often a client sends one command
          MaxAsks,        \* bound: lease requests
          MaxLogos,       \* bound: logo uploads
          MaxFaults       \* bound: failed calls to D1 and restarts

ASSUME CoordinatorConstants ==
  /\ RecallBatch \in Nat \ {0} /\ MaxAttempts \in Nat \ {0}
  /\ {MaxAsks, MaxLogos, MaxFaults} \subseteq Nat
  /\ NONE \notin Commands \cup Captures
  /\ {"ALARM", "LOGO"} \cap Commands = {}  \* command ids are UUIDs

VARIABLES
  version, active, note, row, recall, \* D1: the event, one rotation, the recalls
  ledger,        \* D1: the changes in the order of their batches, with the version each reports
  closures,      \* D1: the audit rows that end the recalls of a group
  planned,       \* D1: the event version of the forecast last persisted
  alarm,         \* storage of the object: an alarm is set
  ringing,       \* platform: the alarm handler has been called and has not returned
  tail, step,    \* memory: the requests in order, and the state of the first one
  pending, loops, manual, \* memory: pendingAutomaticForecast, forecastWork, manualForecastQueue
  client, envelope, capture, logo, \* who waits for an answer, and what the command says
  asks, logos, faults     \* counters of the bounds

stored   == <<version, active, note, row, recall, ledger, closures>>
memory   == <<pending, loops, manual>>
external == <<capture, logo, logos, asks>>
vars     == <<stored, planned, alarm, ringing, tail, step, memory, client, envelope, external, faults>>

AllTypes == {"SET_OPERATIONAL_NOTE", "SET_EVENT_LIFECYCLE", "CALL_NEXT", "MARK_OFF_BLOCK",
             "START_TICKET_GROUP_RECALL", "CLEAR_TICKET_GROUP_RECALL"}

\* Commands that name the version of their rotation or aircraft instead of the event's.
ScopedTypes == {"MARK_OFF_BLOCK"}

Idle == [stage |-> "idle", seen |-> 0, active |-> FALSE]

CommandRequest(c, n) == [type |-> "COMMAND", id |-> c, attempt |-> n]
AlarmRequest == [type |-> "ALARM", id |-> NONE, attempt |-> 0]
LeaseRequest == [type |-> "LEASE", id |-> NONE, attempt |-> 0]

\* Mutant: one receipt is kept for the event, that of its last command.
AppliedLast(c) == ledger # <<>> /\ ledger[Len(ledger)].by = c
\* The receipt of the command.
Applied(c) == \E i \in DOMAIN ledger : ledger[i].by = c

Init ==
  /\ version = 1 /\ active \in BOOLEAN /\ note = NONE /\ row = 1
  /\ recall = [g \in Groups |-> [state |-> "none", sequence |-> 0]]
  /\ ledger = <<>> /\ closures = [g \in Groups |-> <<>>]
  /\ planned = 0
  /\ alarm \in BOOLEAN /\ ringing = FALSE
  /\ tail = <<>> /\ step = Idle
  /\ pending = FALSE /\ loops = {} /\ manual = <<>>
  /\ client = [c \in Commands |-> [state |-> "idle", attempt |-> 0]]
  /\ envelope = [c \in Commands |-> NONE]
  /\ capture = [k \in Captures |-> [state |-> "idle", expected |-> 0]]
  /\ logo = [state |-> "idle", expected |-> 0]
  /\ asks = 0 /\ logos = 0 /\ faults = 0

(***************************************************************************)
(* Clients                                                                 *)
(***************************************************************************)

\* A command names the version its client saw, of the event or of its rotation.
Send(c) == \E t \in Types, g \in Groups :
  /\ client[c].state = "idle"
  /\ client' = [client EXCEPT ![c] = [state |-> "waiting", attempt |-> 1]]
  /\ envelope' = [envelope EXCEPT ![c] =
       [type |-> t, group |-> g, expected |-> IF t \in ScopedTypes THEN row ELSE version]]
  /\ tail' = Append(tail, CommandRequest(c, 1))
  /\ UNCHANGED <<stored, planned, alarm, ringing, step, memory, external, faults>>

\* The connection breaks while the request waits or runs; the request goes on.
LoseConnection(c) ==
  /\ client[c].state = "waiting"
  /\ client[c].attempt < MaxAttempts
  /\ client' = [client EXCEPT ![c].state = "unknown"]
  /\ UNCHANGED <<stored, planned, alarm, ringing, tail, step, memory, envelope, external, faults>>

\* Not knowing what became of it, the client repeats the same command id.
Resend(c) ==
  /\ client[c].state = "unknown"
  /\ client[c].attempt < MaxAttempts
  /\ client' = [client EXCEPT ![c].state = "waiting", ![c].attempt = @ + 1]
  /\ tail' = Append(tail, CommandRequest(c, client[c].attempt + 1))
  /\ UNCHANGED <<stored, planned, alarm, ringing, step, memory, envelope, external, faults>>

AskLease ==
  /\ asks < MaxAsks
  /\ asks' = asks + 1
  /\ tail' = Append(tail, LeaseRequest)
  /\ UNCHANGED <<stored, planned, alarm, ringing, step, memory, client, envelope,
                 capture, logo, logos, faults>>

\* Mutant: the answer replaces what the client knows of its command.
ToldAll(c, answer) ==
  IF client[c].state = "waiting" /\ client[c].attempt = Head(tail).attempt
  THEN [client EXCEPT ![c] = [state |-> answer]] ELSE client

\* The answer reaches the client only over the connection that asked.
Told(c, answer) ==
  IF client[c].state = "waiting" /\ client[c].attempt = Head(tail).attempt
  THEN [client EXCEPT ![c].state = answer] ELSE client

(***************************************************************************)
(* The command tail                                                        *)
(***************************************************************************)

Turn(r) == tail # <<>> /\ Head(tail) = r
CommandTurn(c) == tail # <<>> /\ Head(tail).type = "COMMAND" /\ Head(tail).id = c

NextRequest == tail' = Tail(tail) /\ step' = Idle

\* scheduleForecastRecalculation: one slot, and a loop unless one is running.
AtHead == [stage |-> "next", seen |-> 0, id |-> NONE]
\* Mutant: every trigger starts a loop.
StartAnother == loops' = loops \cup {AtHead}
StartLoop == loops' = IF loops = {} THEN {AtHead} ELSE loops
ScheduleForecast == pending' = TRUE /\ StartLoop

\* broadcast: the alarm is set if none is, a forecast is due.
Broadcast == alarm' = TRUE /\ ScheduleForecast

FreshVersion(c) ==
  envelope[c].expected = IF envelope[c].type \in ScopedTypes THEN row ELSE version

\* One batch reads the receipt, the event and the row the command names.
Preflight(c) ==
  /\ CommandTurn(c)
  /\ step.stage = "idle"
  /\ IF Applied(c)
     THEN client' = Told(c, "accepted") /\ NextRequest
     ELSE IF ~FreshVersion(c)
     THEN client' = Told(c, "rejected") /\ NextRequest
     ELSE /\ step' = [stage |-> "loaded", seen |-> version, active |-> active]
          /\ UNCHANGED <<client, tail>>
  /\ UNCHANGED <<stored, planned, alarm, ringing, memory, envelope, external, faults>>

\* The rules of the handler, for the types that have some here.  The version named
\* is current, so the recall and the status are those the client saw.
Permitted(c) ==
  LET e == envelope[c]  r == recall[e.group] IN
  CASE e.type = "START_TICKET_GROUP_RECALL" -> step.active /\ r.state # "open"
    [] e.type = "CLEAR_TICKET_GROUP_RECALL" -> r.state = "open"
    [] OTHER -> TRUE

Refuse(c) ==
  /\ CommandTurn(c)
  /\ step.stage = "loaded"
  /\ ~Permitted(c)
  /\ client' = Told(c, "rejected")
  /\ NextRequest
  /\ UNCHANGED <<stored, planned, alarm, ringing, memory, envelope, external, faults>>

\* The row of the event is written only WHERE version is the one read, ...
Unmoved == version = step.seen
\* Mutant: what concerns one rotation leaves the version of the event alone.
EventAdvance == version' =
  IF Unmoved /\ \A c \in Commands : CommandTurn(c) => envelope[c].type \notin ScopedTypes
  THEN version + 1 ELSE version
Advance == version' = IF Unmoved THEN version + 1 ELSE version
\* ... the audit row, the receipt and the rows of the command always.
Reports(by) == ledger' = Append(ledger, [by |-> by, version |-> step.seen + 1])

EndRecall(g, reason) == closures' = [closures EXCEPT ![g] = Append(@, reason)]

\* What the batch does to the recall of the command's group.
RecallEffect(c) ==
  LET e == envelope[c]  g == e.group  r == recall[g] IN
  CASE e.type = "START_TICKET_GROUP_RECALL" ->
         /\ recall' = [recall EXCEPT ![g] = [state |-> "open", sequence |-> r.sequence + 1]]
         /\ IF r.state = "due" THEN EndRecall(g, "EXPIRED") ELSE UNCHANGED closures
    [] e.type = "CLEAR_TICKET_GROUP_RECALL" ->
         /\ recall' = [recall EXCEPT ![g].state = "none"]
         /\ EndRecall(g, "MANUAL")
    [] e.type = "CALL_NEXT" /\ r.state = "open" ->
         /\ recall' = [recall EXCEPT ![g].state = "none"]
         /\ EndRecall(g, "CALLED")
    [] OTHER -> UNCHANGED <<recall, closures>>

\* The batch of the handler.
Execute(c) ==
  /\ CommandTurn(c)
  /\ step.stage = "loaded"
  /\ Permitted(c)
  /\ ~Applied(c)
  /\ Advance
  /\ note' = IF Unmoved /\ envelope[c].type = "SET_OPERATIONAL_NOTE" THEN c ELSE note
  /\ active' = IF Unmoved /\ envelope[c].type = "SET_EVENT_LIFECYCLE"
               THEN ~step.active ELSE active
  /\ row' = IF envelope[c].type = "MARK_OFF_BLOCK" THEN row + 1 ELSE row
  /\ RecallEffect(c)
  /\ Reports(c)
  /\ step' = [step EXCEPT !.stage = "committed"]
  /\ UNCHANGED <<planned, alarm, ringing, tail, memory, client, envelope, external, faults>>

\* Back from the batch, the handler broadcasts and answers.
Answer(c) ==
  /\ CommandTurn(c)
  /\ step.stage = "committed"
  /\ Broadcast
  /\ client' = Told(c, "accepted")
  /\ NextRequest
  /\ UNCHANGED <<stored, planned, ringing, manual, envelope, external, faults>>

\* Mutant: a rejected command is never waited for again, the tail stands still.
FailAndBlock(c) ==
  /\ CommandTurn(c)
  /\ faults < MaxFaults
  /\ faults' = faults + 1
  /\ client' = Told(c, "unknown")
  /\ step' = [step EXCEPT !.stage = "awaiting"]
  /\ UNCHANGED <<stored, planned, alarm, ringing, tail, memory, envelope, external>>

\* A call to D1 fails, before or after the batch took effect; the answer is an error.
FailCommand(c) ==
  /\ CommandTurn(c)
  /\ faults < MaxFaults
  /\ faults' = faults + 1
  /\ client' = Told(c, "unknown")
  /\ NextRequest
  /\ UNCHANGED <<stored, planned, alarm, ringing, memory, envelope, external>>

(***************************************************************************)
(* The alarm                                                               *)
(***************************************************************************)

\* The platform calls alarm(), which waits its turn in the tail.
Ring ==
  /\ alarm /\ ~ringing
  /\ alarm' = FALSE
  /\ ringing' = TRUE
  /\ tail' = Append(tail, AlarmRequest)
  /\ UNCHANGED <<stored, planned, step, memory, client, envelope, external, faults>>

BeginTick ==
  /\ Turn(AlarmRequest)
  /\ step.stage = "idle"
  /\ step' = [stage |-> "loaded", seen |-> version, active |-> active]
  /\ UNCHANGED <<stored, planned, alarm, ringing, tail, memory, client, envelope, external, faults>>

\* Mutant: recalls that are over are found again.
EverRecalled == {g \in Groups : recall[g].sequence > 0 /\ recall[g].state # "open"}
DueRecalls == {g \in Groups : recall[g].state = "due"}

\* The recalls one alarm ends: the oldest, at most RecallBatch of them.
Ended == {D \in SUBSET DueRecalls :
            \/ Cardinality(D) = RecallBatch
            \/ D = DueRecalls /\ Cardinality(D) < RecallBatch}

ExpireRecalls ==
  /\ Turn(AlarmRequest)
  /\ step.stage = "loaded"
  /\ \E D \in Ended :
       /\ D # {}
       /\ recall' = [g \in Groups |-> IF g \in D THEN [recall[g] EXCEPT !.state = "none"]
                                      ELSE recall[g]]
       /\ closures' = [g \in Groups |-> IF g \in D THEN Append(closures[g], "EXPIRED")
                                        ELSE closures[g]]
  /\ Advance
  /\ Reports("ALARM")
  /\ step' = [step EXCEPT !.stage = "committed"]
  /\ UNCHANGED <<active, note, row, planned, alarm, ringing, tail, memory, client, envelope,
                 external, faults>>

\* A tick in an active event asks for a forecast and waits for the loop.
PlanTick ==
  /\ Turn(AlarmRequest)
  /\ \/ step.stage = "committed" /\ alarm' = TRUE
     \/ step.stage = "loaded" /\ DueRecalls = {} /\ UNCHANGED alarm
  /\ IF step.stage = "committed" \/ step.active THEN ScheduleForecast ELSE UNCHANGED <<pending, loops>>
  /\ step' = [step EXCEPT !.stage = IF step.active THEN "awaiting" ELSE "renewing"]
  /\ UNCHANGED <<stored, planned, ringing, tail, manual, client, envelope, external, faults>>

\* Mutant: what fails inside the tick ends the alarm.
FailAndStop ==
  /\ Turn(AlarmRequest)
  /\ step.stage \in {"idle", "loaded", "committed"}
  /\ faults < MaxFaults
  /\ faults' = faults + 1
  /\ ringing' = FALSE
  /\ NextRequest
  /\ UNCHANGED <<stored, planned, alarm, memory, client, envelope, external>>

\* What fails inside the tick is logged.
FailTick ==
  /\ Turn(AlarmRequest)
  /\ step.stage \in {"idle", "loaded", "committed"}
  /\ faults < MaxFaults
  /\ faults' = faults + 1
  /\ step' = [step EXCEPT !.stage = "renewing"]
  /\ UNCHANGED <<stored, planned, alarm, ringing, tail, memory, client, envelope, external>>

Needed == active \/ \E g \in Groups : recall[g].state # "none"

\* Mutant: the alarm is set again for an active event only.
RenewIfActive ==
  /\ Turn(AlarmRequest)
  /\ step.stage = "renewing"
  /\ alarm' = (alarm \/ active)
  /\ ringing' = FALSE
  /\ NextRequest
  /\ UNCHANGED <<stored, planned, memory, client, envelope, external, faults>>

RenewAlarm ==
  /\ Turn(AlarmRequest)
  /\ step.stage = "renewing"
  /\ alarm' = (alarm \/ Needed)
  /\ ringing' = FALSE
  /\ NextRequest
  /\ UNCHANGED <<stored, planned, memory, client, envelope, external, faults>>

\* The query that decides about the next alarm fails: alarm() is called again.
RetryAlarm ==
  /\ Turn(AlarmRequest)
  /\ step.stage = "renewing"
  /\ faults < MaxFaults
  /\ faults' = faults + 1
  /\ alarm' = TRUE
  /\ ringing' = FALSE
  /\ NextRequest
  /\ UNCHANGED <<stored, planned, memory, client, envelope, external>>

\* A browser opens its WebSocket.
OpenWebSocket ==
  /\ alarm' = TRUE
  /\ UNCHANGED <<stored, planned, ringing, tail, step, memory, client, envelope, external, faults>>

\* The five minutes of a recall are over.
RecallFallsDue(g) ==
  /\ recall[g].state = "open"
  /\ recall' = [recall EXCEPT ![g].state = "due"]
  /\ UNCHANGED <<version, active, note, row, ledger, closures, planned, alarm, ringing, tail, step,
                 memory, client, envelope, external, faults>>

(***************************************************************************)
(* The forecast loop, and the two others who ask for a forecast            *)
(***************************************************************************)

Moved(l, to) == (loops \ {l}) \cup {to}
Taken(id) == [stage |-> "taken", seen |-> 0, id |-> id]

\* Snapshots asked for by hand come first, the pending automatic forecast next.
TakeRequest(l) ==
  /\ l.stage = "next"
  /\ \/ /\ manual # <<>>
        /\ loops' = Moved(l, Taken(Head(manual)))
        /\ manual' = Tail(manual)
        /\ UNCHANGED pending
     \/ /\ manual = <<>> /\ pending
        /\ pending' = FALSE
        /\ loops' = Moved(l, Taken(NONE))
        /\ UNCHANGED manual
  /\ UNCHANGED <<stored, planned, alarm, ringing, tail, step, client, envelope, external, faults>>

\* The snapshot of a version the event has left is refused; any other run loads the event.
LoadPlan(l) ==
  /\ l.stage = "taken"
  /\ IF l.id # NONE /\ capture[l.id].expected # version
     THEN /\ capture' = [capture EXCEPT ![l.id].state = "stale"]
          /\ loops' = Moved(l, AtHead)
     ELSE /\ loops' = Moved(l, [l EXCEPT !.stage = "loaded", !.seen = version])
          /\ UNCHANGED capture
  /\ UNCHANGED <<stored, planned, alarm, ringing, tail, step, pending, manual, client, envelope,
                 logo, logos, asks, faults>>

Finish(l, answer) ==
  /\ loops' = Moved(l, AtHead)
  /\ capture' = IF l.id = NONE THEN capture ELSE [capture EXCEPT ![l.id].state = answer]

PersistPlan(l) ==
  /\ l.stage = "loaded"
  /\ planned' = l.seen
  /\ Finish(l, "captured")
  /\ UNCHANGED <<stored, alarm, ringing, tail, step, pending, manual, client, envelope,
                 logo, logos, asks, faults>>

\* A failed run is logged and its request dropped.
FailPlan(l) ==
  /\ l.stage \in {"taken", "loaded"}
  /\ faults < MaxFaults
  /\ faults' = faults + 1
  /\ Finish(l, "failed")
  /\ UNCHANGED <<stored, planned, alarm, ringing, tail, step, pending, manual, client, envelope,
                 logo, logos, asks>>

\* Mutant: the work ends with the last automatic forecast.
EndWhenNoneIsPending(l) ==
  /\ l.stage = "next"
  /\ ~pending
  /\ loops' = loops \ {l}
  /\ step' = IF step.stage # "awaiting" THEN step
             ELSE [step EXCEPT !.stage = IF Head(tail).type = "ALARM" THEN "renewing" ELSE "loaded"]
  /\ UNCHANGED <<stored, planned, alarm, ringing, tail, pending, manual, client, envelope,
                 external, faults>>

\* The work ends when nothing is asked for; who awaits it goes on.
EndLoop(l) ==
  /\ l.stage = "next"
  /\ manual = <<>> /\ ~pending
  /\ loops' = loops \ {l}
  /\ step' = IF step.stage # "awaiting" THEN step
             ELSE [step EXCEPT !.stage = IF Head(tail).type = "ALARM" THEN "renewing" ELSE "loaded"]
  /\ UNCHANGED <<stored, planned, alarm, ringing, tail, pending, manual, client, envelope,
                 external, faults>>

\* captureAnalysisSnapshot is called past the tail.
RequestCapture(k) ==
  /\ capture[k].state = "idle"
  /\ capture' = [capture EXCEPT ![k] = [state |-> "waiting", expected |-> version]]
  /\ manual' = Append(manual, k)
  /\ StartLoop
  /\ UNCHANGED <<stored, planned, alarm, ringing, tail, step, pending, client, envelope,
                 logo, logos, asks, faults>>

\* A lease request waits for the forecast work in its turn ...
BeginLease ==
  /\ Turn(LeaseRequest)
  /\ step.stage = "idle"
  /\ step' = [stage |-> IF loops = {} THEN "loaded" ELSE "awaiting", seen |-> version,
              active |-> active]
  /\ UNCHANGED <<stored, planned, alarm, ringing, tail, memory, client, envelope, external, faults>>

\* ... and plans itself when the plan is not of its version.
DecideLease ==
  /\ Turn(LeaseRequest)
  /\ step.stage = "loaded"
  /\ IF planned # step.seen /\ version = step.seen
     THEN /\ step' = [step EXCEPT !.stage = "replanning"]
          /\ UNCHANGED <<tail, pending, loops>>
     ELSE /\ NextRequest
          /\ IF planned = step.seen THEN ScheduleForecast ELSE UNCHANGED <<pending, loops>>
  /\ UNCHANGED <<stored, planned, alarm, ringing, manual, client, envelope, external, faults>>

PersistReplan ==
  /\ Turn(LeaseRequest)
  /\ step.stage = "replanning"
  /\ planned' = step.seen
  /\ ScheduleForecast
  /\ NextRequest
  /\ UNCHANGED <<stored, alarm, ringing, manual, client, envelope, external, faults>>

FailLease ==
  /\ Turn(LeaseRequest)
  /\ faults < MaxFaults
  /\ faults' = faults + 1
  /\ NextRequest
  /\ UNCHANGED <<stored, planned, alarm, ringing, memory, client, envelope, external>>

(***************************************************************************)
(* The Worker uploads a logo past the tail: read, upload, guarded batch    *)
(***************************************************************************)

BeginLogo ==
  /\ logo.state = "idle"
  /\ logos < MaxLogos
  /\ logo' = [state |-> "uploading", expected |-> version]
  /\ logos' = logos + 1
  /\ UNCHANGED <<stored, planned, alarm, ringing, tail, step, memory, client, envelope, capture,
                 asks, faults>>

CommitLogo ==
  /\ logo.state = "uploading"
  /\ logo' = [state |-> "idle", expected |-> 0]
  /\ IF version = logo.expected
     THEN /\ version' = version + 1
          /\ ledger' = Append(ledger, [by |-> "LOGO", version |-> version + 1])
     ELSE UNCHANGED <<version, ledger>>
  /\ UNCHANGED <<active, note, row, recall, closures, planned, alarm, ringing, tail, step, memory,
                 client, envelope, capture, logos, asks, faults>>

(***************************************************************************)
(* The object is restarted: its memory is gone, the platform calls the     *)
(* alarm handler it had not heard back from again                          *)
(***************************************************************************)

Restart ==
  /\ faults < MaxFaults
  /\ faults' = faults + 1
  /\ tail' = <<>> /\ step' = Idle
  /\ pending' = FALSE /\ loops' = {} /\ manual' = <<>>
  /\ alarm' = (alarm \/ ringing) /\ ringing' = FALSE
  /\ client' = [c \in Commands |-> IF client[c].state # "waiting" THEN client[c]
                                   ELSE [client[c] EXCEPT !.state = "unknown"]]
  /\ capture' = [k \in Captures |-> IF capture[k].state # "waiting" THEN capture[k]
                                    ELSE [capture[k] EXCEPT !.state = "failed"]]
  /\ UNCHANGED <<stored, planned, envelope, logo, logos, asks>>

(***************************************************************************)
(* The specification                                                       *)
(***************************************************************************)

RunCommand(c) == Preflight(c) \/ Refuse(c) \/ Execute(c) \/ Answer(c)
RunAlarm == BeginTick \/ ExpireRecalls \/ PlanTick \/ RenewAlarm
RunLease == BeginLease \/ DecideLease \/ PersistReplan
RunLoop(l) == TakeRequest(l) \/ LoadPlan(l) \/ PersistPlan(l) \/ EndLoop(l)

Next ==
  \/ \E c \in Commands : Send(c) \/ LoseConnection(c) \/ Resend(c) \/ RunCommand(c) \/ FailCommand(c)
  \/ AskLease \/ RunLease \/ FailLease
  \/ Ring \/ RunAlarm \/ FailTick \/ RetryAlarm \/ OpenWebSocket
  \/ \E g \in Groups : RecallFallsDue(g)
  \/ \E l \in loops : RunLoop(l) \/ FailPlan(l)
  \/ \E k \in Captures : RequestCapture(k)
  \/ BeginLogo \/ CommitLogo
  \/ Restart

\* The event loop runs what is ready, D1 answers and the platform rings; users promise nothing.
RunTail == RunAlarm \/ RunLease \/ \E c \in Commands : RunCommand(c)
Work == \E l \in loops : RunLoop(l)
Fairness == WF_vars(RunTail) /\ WF_vars(Ring) /\ WF_vars(Work)

Spec == Init /\ [][Next]_vars
FairSpec == Spec /\ Fairness

(***************************************************************************)
(* Properties                                                              *)
(***************************************************************************)

Stages == {"idle", "loaded", "committed", "awaiting", "renewing", "replanning"}
Steps == [stage : Stages, seen : Nat, active : BOOLEAN]
Loops == [stage : {"next", "taken", "loaded"}, seen : Nat, id : Captures \cup {NONE}]
Requests == {AlarmRequest, LeaseRequest} \cup
            {CommandRequest(c, n) : c \in Commands, n \in 1..MaxAttempts}
Changes == [by : Commands \cup {"ALARM", "LOGO"}, version : Nat]
Recalls == [state : {"none", "open", "due"}, sequence : Nat]
Reasons == {"EXPIRED", "MANUAL", "CALLED"}
Clients == [state : {"idle", "waiting", "unknown", "accepted", "rejected"}, attempt : Nat]
Envelopes == [type : Types, group : Groups, expected : Nat]
Snapshots == [state : {"idle", "waiting", "captured", "stale", "failed"}, expected : Nat]
Logos == [state : {"idle", "uploading"}, expected : Nat]

\* Every variable holds what the code may store in it.
TypeOK ==
  /\ version \in Nat /\ active \in BOOLEAN /\ note \in Commands \cup {NONE} /\ row \in Nat
  /\ recall \in [Groups -> Recalls]
  /\ ledger \in Seq(Changes)
  /\ closures \in [Groups -> Seq(Reasons)]
  /\ planned \in Nat /\ alarm \in BOOLEAN /\ ringing \in BOOLEAN
  /\ tail \in Seq(Requests) /\ step \in Steps
  /\ pending \in BOOLEAN /\ loops \subseteq Loops /\ manual \in Seq(Captures)
  /\ client \in [Commands -> Clients]
  /\ envelope \in [Commands -> {NONE} \cup Envelopes]
  /\ capture \in [Captures -> Snapshots]
  /\ logo \in Logos
  /\ asks \in Nat /\ logos \in Nat /\ faults \in Nat

\* Along the ledger the versions of what went through the tail rise, whoever writes
\* next to it: no two of those changes were decided on the same state (commandTail).
TailVersionsRise ==
  \A i, j \in DOMAIN ledger :
    i < j /\ "LOGO" \notin {ledger[i].by, ledger[j].by} => ledger[i].version < ledger[j].version

\* A recall that is over was ended exactly once and left one audit row, whether a
\* user, a call, a newer recall or the alarm was faster (closureStatements, expire).
RecallsClosedOnce ==
  \A g \in Groups :
    Len(closures[g]) = recall[g].sequence - (IF recall[g].state = "none" THEN 0 ELSE 1)

\* A coordinator whose alarm is set keeps setting it as long as the event is active
\* or a recall is open, through failures and restarts (handleAlarm).
Ticking == alarm \/ ringing
TickingKept == [][Ticking /\ ~Ticking' => ~Needed']_vars

\* A run of the forecast loop never replaces a forecast of a newer state with one of an
\* older state: the loop runs alone and loads after it took the request (forecastWork).
LoopNeverGoesBack == [][planned' < planned => step.stage = "replanning"]_vars

\* Every command gets its answer, unless the connection or the object dies first.
CommandsAnswered ==
  \A c \in Commands : client[c].state = "waiting" ~> client[c].state # "waiting"

\* Every snapshot asked for is answered.
CapturesAnswered ==
  \A k \in Captures : capture[k].state = "waiting" ~> capture[k].state # "waiting"

\* Once the alarm of an active event is set, the forecast catches up with every change,
\* although triggers share one slot, a failed run is dropped and a logo triggers none.
PlanCatchesUp == (Ticking /\ active) ~> (planned = version \/ ~active)

\* The alarm ends every recall that falls due and that nobody else ends.
DueRecallsEnd ==
  \A g \in Groups : (Ticking /\ recall[g].state = "due") ~> recall[g].state # "due"

\* To its clients the coordinator is the command log: nothing is applied twice, an
\* answer says what happened (duplicateReceipt, idempotency_receipts).
Answered(c) == IF client[c].state \in {"accepted", "rejected"} THEN client[c].state ELSE "none"
Log == INSTANCE CommandLog WITH
         Others <- {"ALARM", "LOGO"},
         applied <- [i \in DOMAIN ledger |-> ledger[i].by],
         answer <- [c \in Commands |-> Answered(c)]
ImplementsCommandLog == Log!Spec

\* An accepted note is the note of the event until the next one is accepted.
Notes == {i \in DOMAIN ledger : ledger[i].by \in Commands /\
            envelope[ledger[i].by].type = "SET_OPERATIONAL_NOTE"}
AcceptedNoteStored ==
  \A i \in Notes : (\A j \in Notes : j <= i) => note = ledger[i].by
=============================================================================
