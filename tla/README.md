# Rundflug-Leitstand in TLA+

The repository runs the flight desk of a sight-seeing-flight day: tickets are sold in booking
groups, groups are called to an aircraft with a pilot, fly, land and are done. This directory holds
the TLA+ modules that model the operational core of that system, its coordinator, the claims and
leases of the flight line, the recovery from paper records and the factory reset, the TLC
configurations that check them on small instances, and TLAPS proofs for instances of any size.

Paths below are relative to the repository; `W/` is `apps/worker/src/`, `D/` is
`packages/domain/src/`, `08` is `docs/architecture/arc42/08-querschnittliche-konzepte.md`.

## 1. Inventory of the system

| Part | State it keeps | Operations | Hard part |
| --- | --- | --- | --- |
| **Event coordinator** `W/event-coordinator.ts`: one Durable Object per event | `commandTail`, `forecastWork`, `pendingAutomaticForecast`, `manualForecastQueue`, alarm | queues a command behind the previous one: receipt lookup, authorisation, version check, claim, dispatch; alarm every 30 s; forecast loop beside the tail | serialisation rests on one promise chain; lost answers and repeats; restarts that forget the tail; one slot for the pending forecast; the dispatched promise is returned without `await`; the upload of a logo writes past the tail |
| **Flight-line commands** (below) | D1 rows: rotations, rotation_tickets, tickets, ticket_groups, aircraft, memberships, pilots | each handler reads, decides and writes in one `DB.batch` | commands of many devices in any order; one command has to keep five tables consistent |
| Dispatch leases `W/dispatch-recommendation-lease-service.ts` | lease rows with expiry | propose, repeat, release; consumed or overridden by `CALL_NEXT`; a request waits for the forecast in its turn | expiry between proposal and call; groups that move under a lease |
| Assist claims `W/assist-claim-service.ts` | claim rows with expiry and revision | claim, renew, take over, release: two D1 calls each, not on the tail | take-over races |
| Group recalls `W/ticket-group-recall-persistence-service.ts` | recall rows, audit rows | start, end by hand, by a call, by a newer recall; expire by alarm, at most 20 at a time | manual end against expiry |
| Outage recovery `W/outage-recovery-*.ts`, `D/outage-recovery.ts` | batches, entries, references | stage (simulate), approve (second device), apply | replay against an event that moved on; a reference keeps a state of its own beside its rotation |
| Factory reset and first setup `W/factory-reset*.ts`, `W/setup-routes.ts` | all rows, one receipt, the setup grant | deletes phase by phase, repeats, opens the setup | crash between two phases; requests that write behind them; two browsers |
| Planned operations and recurring rules | plans, rules, progress | plan, activate, finish, complete with a flight | soft plans against hard states |
| Event life cycle, master data, product sales | operation_days, products, memberships | activate, close, archive, clone, delete | closing with rotations open |
| Dispatch plan and forecast `D/dispatch-plan.ts`, `D/forecast*.ts`, `D/precall.ts` | none (pure), results stored | plan the next rotations, predict, precall | capacity, fairness and overtaking arithmetic |
| Planning history, web push, accounts | own tables, R2 | multi-step jobs with retry | crash between two steps |
| Read side, web client, contracts | none of their own | projections | not modelled |

The flight-line commands and what makes each part correct:

| Part | Commands | Must hold |
| --- | --- | --- |
| Rotation life cycle `W/rotation-transition-command-service.ts`, `W/rotation-call-preparation.ts`, `D/rotation-state.ts` | `CALL_NEXT`, `MARK_OFF_BLOCK`, `MARK_ON_BLOCK`, `COMPLETE_TURNAROUND`, `CANCEL_ROTATION` | an aircraft and a pilot are in at most one flight; nobody boards a cabin that is too small; who is aboard is locked at off-block |
| Recovery `W/rotation-recovery-command-service.ts` | `REVOKE_CALL`, `ABORT_ROTATION`, technical abort | everything the call bound is released, in one step |
| Cash desk `W/ticket-sales-*`, `W/ticket-group-mutation-*`, `D/queue.ts` | `SELL_TICKET_GROUP`, `CANCEL_TICKET_GROUP`, `DEFER_TICKET_GROUP`, `MARK_NO_SHOW` | nobody loses the seat; a group stays together; a finished booking stays finished |
| Attendance `W/attendance-command-service.ts` | `SET_TICKET_ATTENDANCE`, `SET_TICKET_GROUP_ATTENDANCE`, `MARK_TICKET_GROUP_MISSING`, `RESTORE_TICKET_GROUP_TO_QUEUE`, `MARK_TICKET_NO_SHOW` | recorded for the people still on the ground only; the last one to leave releases the aircraft |
| Corrections `W/rotation-correction-command-service.ts` | `SET_ROTATION_CAPACITY`, `MOVE_TICKET_GROUP`, `CORRECT_ROTATION_MANIFEST` | whole groups move, and all find a seat |
| Fleet `W/fleet-administration-mutation-planner.ts`, `W/pilot-assignment-command-service.ts` | `SET_AIRCRAFT_OPERATIONAL_STATE`, `SET_PILOT_PAUSE`, `ASSIGN_AIRCRAFT_PILOT` | crew and aircraft of a flight do not change behind its back |

`PROJECT.json` lists every component with its sources, and under `hazards` every place where a test
would hardly reach what can go wrong.

## 2. Modules

| Module | Models |
| --- | --- |
| `FlightRows` | constants, the rows as variables, the pieces of SQL several handlers share, the initial rows |
| `RotationTransitions`, `RotationRecovery`, `TicketDesk`, `Attendance`, `RotationCorrections`, `FleetDesk` | one module per command service, one action per command |
| `FlightOps` | all commands interleaved (`Next`, `Spec`), the type invariant and the properties |
| `QueueOrder` | `FlightOps` with `queue_sequence` added: what a sale, a deferral and the two aborts do to it, statement by statement; every other command keeps it |
| `FlightDuty` | the abstract promise about aircraft and pilots: an aircraft boards with a free pilot, flies, lands and is released, step by step |
| `Coordinator` | the Durable Object: command tail, receipts, versions, alarm and recalls, forecast loop, snapshots, lease requests, logo upload, connections that break, D1 calls that fail, restarts |
| `CommandLog` | the abstract promise of the coordinator: a command takes effect at most once, and its answer is true |
| `AssistClaims` | claims of the flight line, each request a read and a later write |
| `DispatchLeases` | `AssistClaims` with leases and `CALL_NEXT` |
| `OutageRecovery` | `FlightOps` with the three commands for paper records |
| `FactoryReset` | `AssistClaims` with the reset and the setup |
| `FlightOpsMC`, `QueueMC`, `CoordinatorMC`, `StationsMC`, `RecoveryMC`, `InstallationMC` | constants for TLC: who is in which group, seats, which commands a run issues, who is signed in where |
| `FlightOpsProofs`, `FleetSafetyProofs`, `QueueOrderProofs` | theorems about `FlightOps` and `QueueOrder`, with proofs |
| `CoordinatorProofs` | theorems about `Coordinator`, with its refinement of `CommandLog` |
| `ClaimProofs`, `InstallationProofs`, `LeaseProofs` | lemmas about `AssistClaims`, and the theorems about `FactoryReset` and `DispatchLeases` that rest on them |
| `RecoveryProofs` | theorems about `OutageRecovery` |

**Rows and variables.** `rotationState[r]` is `rotations.status`, with `FREE` for a row not yet
inserted; `aircraftOf`, `pilotOf`, `usable` are `aircraft_id`, `pilot_id`, `usable_capacity`;
`wasCalled` is `called_at IS NOT NULL`. `seat[t]` is the rotation of the ticket's one
`rotation_tickets` row without `released_at` (the unique index of the schema allows one), and
`released[t]` the rotations its released rows still name: they matter because the primary key counts
them (`Insertable`). `ticketState`, `checkedIn`, `groupState`, `deferrals`, `aircraftState`,
`currentPilot`, `paused` are the columns of the same meaning. `halted` stands for everything that
stops sales and calls: emergency mode, interruption, event or resource group not active.

**Why one action per command.** The coordinator chains every command on `commandTail`, and each
handler writes its rows in one D1 batch, so no other command sees a state between its reads and its
writes, and a batch that breaks a constraint leaves no trace. The guards of an action are the early
returns of the handler and, where the batch can hit a constraint, the condition that it does not
(`CallCommits`, `MoveCommits`). That the coordinator keeps this promise is what `Coordinator` shows
(`TailVersionsRise`).

**Abstractions.** Time is left out: a deadline that must have passed (no-show, revocation window) is
a choice, so an action may happen whenever the clock could allow it. One product and one resource
group; memberships do not change. `loadSelectedGroups` takes the first `DRAFT` segment of a group
in dispatch order, the model any of them. Leases, recalls, prices, weights and receipts are left
out; in `FlightOps` the batch of `ABORT_ROTATION` always succeeds, in `QueueOrder` only when the
renumbering commits. The
reference capacities of product and resource group are one constant. The flag `active` of a pilot is
left out: the handler that sets it (`UPSERT_PILOT`) does not look at rotations.

**The queue.** `queueSequence[g]` is 0 until the sale inserts the row. `Commits(old, new)` is what
SQLite asks of an `UPDATE` under a `UNIQUE` constraint, which it checks row by row in an order nobody
chooses: no new number may be that of another row, moved already or not. The actions of `QueueOrder`
are those of `FlightOps` with a second conjunct for the numbers, so that each of its behaviours is
one of `FlightOps`. Numbers are unique per product and appended per resource group; with one product
the two are the same. `flight_groups.queue_position`, a display order, and the sale of paper records
in outage recovery, which appends as a sale does, are left out.

**The coordinator.** `tail` is the chain of requests, `step` what the first of them has read: each
`await` on D1 that matters ends an action, so that the alarm, the forecast loop, captures, the logo
upload and other clients run in between. `ledger` is the sequence of committed changes with the
version each reports, receipts included; `loops` is a set because two loops at once are what the
code has to prevent. A command type stands for all commands with the same footprint here
(`SET_OPERATIONAL_NOTE` for every command that writes the event's row, `MARK_OFF_BLOCK` for those
that name the version of their rotation). `tail`, `step`, `pending`, `loops` and `manual` are memory
and gone after `Restart`; a client whose connection breaks repeats the same command id, and what it
is told goes to the connection that asked (`Told`). A D1 call may fail before or after the batch
took effect. The refinement to `CommandLog` reads the ledger as the commands applied, and the
clients' final answers as its answers.

**Leases and claims.** Time is two facts: a claim (30 minutes) and a lease (90 seconds) may be
`expired`; a request goes by the time it arrived, which is why a request carries the set of rows
that were over by then (`over`). A claim request reads and writes in two actions; lease requests and
calls hold the turn of the tail (`turn`) from their first read to their last write. The batch a
lease proposes is any set of open rotations, so the properties do not depend on the plan.

**Paper records.** A batch gives each reference a sale, a stretch of the rotation's life cycle, or
both. `reference[g]` is the row of `outage_recovery_references`; its state is not the state of the
rotation, and only these commands write it. `behind` counts the versions since the simulation: the
code compares versions for equality, and more than three of them are the same as three.

**Reset and setup.** `root` is the installation whose events and accounts exist, `rows` the
installations with rows in the tables of each phase. Every phase is one transaction, the last one
deletes what foreign keys name. Claims are the example of requests that read before a phase and
write after it. A phase whose rows another phase still names fails in D1: that is `FailReset`, which
may happen at any point. `bucket` says of which installations R2 still holds objects that were stored
while they were set up; emptying it and recording that in the receipt are two steps (`backups` of the
receipt is `r2_cleanup_pending` or, once that is 0, `r2BackupsDeleted` of the stored answer). What a
backup or archive that began before stores after the accounts are gone may come after the cleanup;
it is not counted, and `DeletedMeansGone` promises nothing about it.

## 3. Runs

Deadlock is not checked: a day may end with everything flown, and every user may stop. Every run
explores all interleavings of its instance within its bounds.

| Run | Instance | Question |
| --- | --- | --- |
| `fleet` | 2 aircraft (3 seats and 1), 2 pilots, a couple and a single passenger, 2 rotations | Is an aircraft in the middle of a flight exactly while one rotation holds it (`AircraftFollowsRotation`)? Is its pilot nowhere else and not paused (`CrewConsistent`)? Does a rotation that is not called hold nothing and an active one somebody (`BindingFollowsCall`)? Does every command move aircraft and pilot by one step of `FlightDuty` (`ImplementsDuty`)? |
| `passengers` | 1 aircraft of 2 seats, reference capacity 2, a family of three and a single passenger, 3 rotations | Has everybody a seat until the cashier takes over (`NobodyLost`, `SeatedInLiveRotation`)? Is a group separated no more than its size asks for (`GroupsTogether`), and does its status follow its parts (`GroupsFollowRotations`)? Does what ended stay ended (`EndedForGood`, `ExceptionIsFinal`)? |
| `boarding` | 2 aircraft of 2 seats, 1 pilot, a couple and a single passenger, 2 rotations | Do tickets say what their rotation says (`TicketsFollowRotation`), is the manifest locked at off-block (`ManifestLocked`), with attendance recorded at any time and flights called off in every way? Do the rows keep their types (`TypeOK`) and the aircraft `FlightDuty`? |
| `queue` | 1 aircraft of 2 seats, 3 groups of one, 3 rotations, numbers up to 5; `QueueSpec` | Does a sale, a deferral or a technical abort ever meet the `UNIQUE` constraint (`NumbersAlwaysFree`)? Is a waiting group overtaken (`NoOvertaking`)? Do those whose aircraft breaks down go first (`AbortedGoFirst`)? |
| `commandlog` | 2 commands, each sent at most twice, 1 logo, 1 fault | Are no two changes through the tail decided on the same state (`TailVersionsRise`)? Do the clients see a command log (`ImplementsCommandLog`)? |
| `alarm` | 2 commands, 2 groups with recalls, one recall ended per alarm, 1 fault; `FairSpec` | Is a recall ended exactly once, whoever is faster (`RecallsClosedOnce`), and in the end (`DueRecallsEnd`)? Does the alarm go on (`TickingKept`)? Is every command answered (`CommandsAnswered`)? |
| `planning` | 1 command, 1 snapshot, 1 lease request, 1 logo, 1 fault; `FairSpec` | Does the forecast catch up (`PlanCatchesUp`), never go back by the loop (`LoopNeverGoesBack`), and is every snapshot answered (`CapturesAnswered`)? |
| `leases` | 2 devices (a helper, a director), 2 aircraft, 2 groups, 2 rotations, 2 lease requests, 1 claim request, 2 commands | Do two places ever prepare the same flight (`LeasesDisjoint`)? Is a lease kept until it runs out, is given back or no longer fits (`LeaseKept`)? Does a call leave a lease on its groups (`CallsEndLeases`)? |
| `recovery` | 2 aircraft of 1 seat, 2 pilots, 2 single passengers, 2 batches of up to two references, four stretches of the life cycle | Do live and recovered flights share an aircraft or a pilot (`OneHolder`)? Does the verdict of the simulation hold when a batch is approved or applied (`VerdictStands`)? Is a record entered twice or taken back (`PaperMovesOn`)? |
| `installation` | claims: 2 accounts on a device each, 1 aircraft, 3 requests; 2 resets, 2 browsers, 2 installations, the first and the last of the five phases | Does a row or a claim outlive its installation (`NothingOutlivesTheRoots`), is somebody locked out (`NobodyLockedOut`), does a setup start on rests (`SetupStartsClean`)? Does a receipt report backups deleted that are still there (`DeletedMeansGone`)? Does a claim change hands by accident (`ClaimsChangeHands`)? |
| `notelost`, `phantom` | the smallest that show it | see section 4 |

A run issues a part of the commands (`Commands`), because all of them together on two aircraft
exceed what TLC can explore; between them the runs issue every command. `MaxRotations` bounds the
rows a behaviour may create: a command that would exceed it is not issued, so it cuts behaviours
short but adds none. With 3 rotations in `passengers` a family that has sold its two can be deferred
only while the single passenger is not sold; the single passenger's deferral is reached beside it.
`MaxDeferrals` is a setting of the event (default 2); the extra guard in `DeferTicketGroup` stops
the counter of groups that came back. `MaxSequence` stops the numbers of the queue, which every
technical abort pushes up; two technical aborts in a row fit below it.

`MaxFaults` 1: one failed call or one restart, at any point, which each of these components must
survive alone; `MaxAttempts` 2: the first request may still be in the tail, running or committed
when the second arrives. `RecallBatch` 1 for two recalls that fall due together is the limit of 20
reached. Two lease requests suffice for a proposal and a competing one, and two commands for a group
moved under a lease and a call. Two batches suffice for one that overtakes the other, and `Runs`
lets a batch continue, start or end what the other recorded. Of the five phases of the reset, two
are enough for rows written behind a phase that is done and before one that is not; claims are those
of the first installation, and one of them survives the phase that does not delete them. Two resets
and two installations are what a late cleanup needs to meet the receipt of another reset, and the
backups of another installation. Three claim requests are a claim, the conflict shown to the other
account, and its takeover. That an account holds one aircraft only needs a second one:
`AssistClaims` alone was also explored with two aircraft, three devices, two of them of the same
account, and five requests, and `recovery` with `CANCEL_TICKET_GROUP` and the technical abort; all
hold, the latter takes longer than the runs here.

**Symmetry** is used where the values of a set are interchangeable and no liveness is checked.

**Fairness.** Only in `alarm` and `planning`: the event loop runs a request, a tick or a forecast that
is ready (`WF` of `RunTail` and `Work`), and the platform rings an alarm that is set (`WF` of `Ring`).
The order of requests is that of the tail, so a weak condition on the whole tail is enough. Users,
connections, D1 errors, restarts and the end of a recall's five minutes have no fairness: what is
shown holds although nobody sends another command. `PlanCatchesUp` needs an alarm that is set once,
which every command, WebSocket and recall does.

**Where a property is checked without some command.** Three commands break a property, in sequences
described in section 5, and the property is checked for all others: `AircraftFollowsRotation` with
`CANCEL_TICKET_GROUP` but without `CANCEL_ROTATION` (`fleet`), and `ImplementsDuty` the other way
round in `boarding`; `NobodyLost` without group attendance; `ManifestLocked` for groups that are
not split. `ExceptionIsFinal` is checked without `MARK_TICKET_GROUP_MISSING`, which takes a group in
any status, so that a canceled group can be restored to the queue without seats. `recovery` has no
abort and no cancellation (see above), and both of its devices are administrators: the other roles
of `MayStage` may do less. `GroupsTogether` compares with the reference capacity; a group sold
whole for a larger aircraft is re-split by it when it is deferred.

## 4. Disagreements with the documents that a run shows

| Run | Shortest story |
| --- | --- |
| `notelost` | A command for the operational note has read the event; a logo upload, which does not wait in the tail, raises its version; the guarded `UPDATE` of the command matches no row, yet its audit row, its receipt and its answer say accepted. The note is lost, and a repeat of the command is answered by the receipt. ADR-0002 forbids every writer beside the coordinator. |
| `phantom` | A paper batch records a call; the rotation takes off by a live command; another batch, with a paper sale only, is applied: it writes the aircraft of every reference whose recorded state is under way, and the airborne aircraft is `BOARDING` again. |

## 5. Other limits of the code met while modelling

They have no run of their own; the guards and instances above say where the models keep away.

* A called rotation is canceled: its aircraft is free and takes another group, but the canceled
  rotation keeps seats and aircraft, so `CANCEL_TICKET_GROUP` or `DEFER_TICKET_GROUP` of its group
  makes the aircraft `AVAILABLE` in mid-flight (`W/ticket-group-mutation-command-service.ts:130`,
  against 08:54-55).
* One of a couple is a no-show; the attendance of the group is recorded; the no-show is
  `CHECKED_IN` again, without a seat (`W/attendance-command-service.ts:188`, 08:64,69).
* Half of a split group is in the air; recording the attendance of the other half rewrites
  attendance and status of those in the air (`W/attendance-command-service.ts:138`, 08:53).
* Two groups are called together and the call is revoked: they share a `DRAFT` rotation. One of them
  is called into a small aircraft: the check counts that group only, and all board
  (`W/rotation-call-preparation.ts:665`, ADR-0014:18-19).
* A deferred group cannot be called into, or moved to, a rotation it once shared: the `INSERT` meets
  its own released row (`W/rotation-transition-command-service.ts:131`,
  `W/rotation-correction-command-service.ts:393`).
* `ABORT_ROTATION` moves only `QUEUED` groups out of the way before it gives a group of the rotation
  the number 1, so the batch is rolled back as soon as number 1 belongs to a group that has checked
  in or flown; when it succeeds, only one group of the rotation comes first
  (`W/rotation-recovery-command-service.ts:340`, requirements-v1.12.0.yaml:384).
* Two devices that acquire a free aircraft at once are both told they hold it
  (`W/assist-claim-service.ts:233`, whose result is not looked at), against
  `docs/operations/migration-0033-flight-line-assist-claims.md:22-23`. A takeover confirmed for
  revision 1 also hits a claim made after a release, which starts at 1 again.
* A lease request that plans itself may persist its older plan after the loop's newer one, against
  the single flight of ADR-0025:33-35.
* A lease on a group that rides along with a call, because it shares the called rotation, stays
  live. The 90 seconds of a lease count from the arrival of its request; after a long wait in the
  tail it may be over when it is granted.
* A recovered call or landing overwrites a rotation that live commands moved on or ended, because
  the simulation looks at the reference only; a completion recovered in a later batch leaves its
  aircraft `LANDED` (08:55).
* A batch that went stale or was in conflict keeps its references recorded, so that the same paper
  sale cannot be staged without a conflict again (`docs/operations/paper-fallback.md:32` asks for a new simulation).
* Two resets at once: the later one may go on into the installation set up after the first and
  delete it. The cleanup of a reset, when it is late or replayed, empties the whole bucket, with the
  objects of the installation set up in between and the recovery backup another reset was told to keep
  (`W/factory-reset.ts:226`). When another reset replaces a receipt whose cleanup is still pending,
  the cleanup can no longer be repeated.

## 6. Proofs

TLC shows a property for three tickets and two aircraft; the theorems show it for every finite
fleet, every number of groups, tickets, commands, devices, batches and faults. Every safety and
action property of a passing run is a theorem. Each rests on an inductive invariant, which is the
property with what it depends on:

**Flight line** (`FlightOpsProofs`, `FleetSafetyProofs`). `TypeOK` is inductive by itself. For the
rest, every command is first put into one of a few kinds of step, and the properties are proved for
the kinds, not for two dozen commands each.

| Theorem | States | Inductive invariant, and why |
| --- | --- | --- |
| `TypeCorrect` | `TypeOK` | itself |
| `NobodyGetsLost`, `TicketsFollow` | `NobodyLost`, `TicketsFollowRotation` | `PassengerInv`: both, and `UnsoldSeatless`, because a sale would otherwise empty rotations. A step of a ticket is one of `TicketStep`: it rests, rides, is checked in, leaves, boards or is corrected. |
| `ManifestIsLocked` | `ManifestLocked` | `PassengerInv` |
| `WhatEndedStays` | `EndedForGood` | `TypeOK`, `UnsoldSeatless`; every command |
| `CallsBind` | `BindingFollowsCall` | its halves `Unbound` and `Occupied`, with `UnsoldSeatless` |
| `FleetSafe`, `SeatsAreLive` | `AircraftFollowsRotation`, `SeatedInLiveRotation` | `FleetInv`: both depend on each other. An aircraft is freed by the end of a booking only through a rotation where somebody sits, and that rotation still holds the aircraft because nobody sits in one that has been canceled. `Unbound` says that rows not yet used and rotations in `DRAFT` name no aircraft, so calling or cancelling them touches no other flight. |
| `CrewStaysTogether` | `CrewConsistent` | `FleetInv` with it |
| `DutyKept` | `ImplementsDuty` | `FleetInv`. A command is one `RotationMove` (a call, a turn to the next state, a return, a stand-down, fleet service, crew change, pause), and each of these is a step of `FlightDuty` or leaves `CrewOf` alone. |
| `GroupsFollow` | `GroupsFollowRotations` | `FleetInv` with it, over the kinds of `GroupStep` |
| `EndedStayEnded` | `ExceptionIsFinal` | `EndedSeatless`: a group that ended without a flight has no seat, so no later derivation of its status reaches it |
| `GroupsStayTogether` | `GroupsTogether` | `RowsInOrder`: the rows that exist are the first ones, so a split gets exactly the rows it asks for; and every other command moves a segment as a whole (`Regroups`). Every command. It assumes an aircraft with at least the seats of the reference capacity, since a sale splits by the largest aircraft. |

**Queue** (`QueueOrderProofs`). `QueueRefinesFlightOps` (`QueueSpec => Spec`) carries the theorems
above over to the queue. `NumbersNeverClash`, `FirstComeFirstServed` and `AbortedFlyNext` rest on
`QueueInv`: numbers are distinct and bounded (so `MAX` exists), and whoever has a seat was sold,
which needs every command that moves a seat: the technical abort numbers the groups aboard, and an
unsold one among them would break the order. The plain abort overtakes nobody only because its batch
is rolled back whenever it would: the proof uses `AbortCommits` at that place.

**Coordinator** (`CoordinatorProofs`). `TypeCorrect` and `EveryRecallEndsOnce` are inductive by
themselves, the latter because closures are counted against the sequence of the recall;
`AlarmKeepsTicking` holds of every step. The other three share `Disciplined`: which stage the request
at the head of the tail may be in. `VersionsRise` needs that nothing of the tail was written since
the head has read (`VersionInv`); the logo upload, which writes beside the tail, is why that is about
versions *of the tail* and not about all. `LoopOnlyAdvances` needs that there is one loop, and that a
lease request which plans has not read more than the loop (`LoopInv`). `CoordinatorIsCommandLog` shows that every step is one of `CommandLog` or a stutter: it
needs that the requests of a command in the tail are those its client waits for or gave up, in the
order of their attempts (`Asked`), and that a turn past the preflight knows whether there is a
receipt (`Received`); else a lost answer could be contradicted by a later one.

**Claims, reset, leases.** `InstallationProofs`: `ResetLeavesNothing`, `SomebodyGetsIn`,
`OneSetupAtATime`, `DeletedBackupsAreGone`, `ClaimsPassByTakeover`, all from `InstallationInv`: rows
belong to the present installation, claims to the first one, and without roots there is no row,
whatever crashes between phases. Its part `BucketInv` says when a cleanup may record itself: between
emptying R2 and the update, the receipt can only be that of the cleanup's own reset while nothing of
an earlier installation is stored (`EmptiedBeforeReceipt`), because whatever leaves something behind
afterwards is a reset that ends, and it replaces the receipt. `LeaseProofs`: `LeasesTyped`,
`LeasesStayDisjoint`, `NoLeaseOutlivesTheCall`, `LeasesAreStable`. Disjointness needs `TurnIsFree`:
between its first read and its last write a lease request keeps device and aircraft to itself,
except for the leases that were over when it arrived. `ClaimProofs` holds the lemmas both use: a
module that extends `AssistClaims` takes its steps as they are.

**Paper records** (`RecoveryProofs`). `RowsAreTyped`; `ApprovedBatchesFit` (`VerdictStands`; its
invariant adds that an approved batch is exactly two versions old and that what a batch names is
recorded); `PaperOnlyMovesOn`; `OneHolderAlways` (`HolderInv`: `Unbound` and live seats as above, but
nothing of the state of an aircraft, which a batch may change, see section 4); `RecoveredTicketsFollow` and
`RecoveryLosesNobody` (`AboardInv`: `PassengerInv`, and every reference names a rotation of its own
that exists, so that a replay moves the tickets of one group only).

**Hypotheses.** Constants satisfy the named assumptions of `FlightRows`, `QueueOrder`, `Coordinator`,
`AssistClaims`, `DispatchLeases`, `FactoryReset` and `OutageRecovery` (finite sets, positive seats
and capacities, `NONE` no value of the column), which TLC evaluates in every run. Some theorems
assume that a command is not issued, and section 5 says what it does instead:

| Not issued | In | Because |
| --- | --- | --- |
| `CANCEL_ROTATION` | the theorems of `FleetSafetyProofs` except `GroupsStayTogether`; `OneHolderAlways` | the canceled rotation keeps seats and aircraft |
| `SET_TICKET_GROUP_ATTENDANCE` | `NobodyGetsLost`, `TicketsFollow`, `ManifestIsLocked`, `RecoveredTicketsFollow`, `RecoveryLosesNobody` | it writes tickets that have no seat or are in the air |
| `CORRECT_ROTATION_MANIFEST` | `ManifestIsLocked`, `CallsBind` | changing who was aboard is what it is for; it may leave a rotation empty |
| `MARK_TICKET_GROUP_MISSING` | `EndedStayEnded` | it takes a group in any status |

**Only model-checked**: liveness (`CommandsAnswered`, `CapturesAnswered`, `PlanCatchesUp`,
`DueRecallsEnd`), which needs `ENABLED`; and the two disagreements of section 4, which are refuted.
Out of the prover's reach are also induction over data and recursive operators; no proof here needs
them. The one sum the split of a group asks for is avoided by counting rows (`RowsInOrder`).

## 7. Plan

1. *(done)* the flight line: `FlightRows` to `FlightOps`, `FlightDuty`, first theorems.
2. *(done)* `QueueOrder` with theorems. Left: two products in one resource group.
3. *(done)* `Coordinator` and `CommandLog`, with recalls; liveness.
4. *(done)* `AssistClaims` and `DispatchLeases`. Left: two segments of one group.
5. *(done)* `OutageRecovery`. *(done)* `FactoryReset`.
6. Left: `PlannedOperations` and recurring rules, `EventLifecycle`, planning-history compaction,
   web push, the login lockout; pure algorithms (next-rotation planning, overtakes, precall) against
   reference definitions.
7. *(done)* theorems for the safety and action properties of every passing run. Left: the converse
   of `FleetSafe`, with `CANCEL_ROTATION` and without the ends of bookings that free an aircraft
   (`boarding` checks it); that everything proved of `FlightOps` without recovery commands, but for
   the phantom of section 4, also holds of `OutageRecovery`.

## 8. Not modelled, and why

Most of the repository's lines are the web client, the contracts, the read side (boards, public
status, reports) and the numeric forecast: they compute or show what the rows say and keep no
authoritative state, so the share of lines the modules stand for is small although the commands of
the flight line are all there. `D/dispatch-plan.ts` and the forecast are arithmetic over whole
schedules, which a model would have to repeat line by line; where their result matters, the models
leave it open (any batch, any plan of a version). Cryptography, rate limits, WebSocket payloads and
the objects in R2, other than whether any is left of an installation, are outside the models. `event_deletion_receipts` names no event by a foreign
key and is left out of `FactoryReset`; the maintenance row of the planning history may hold up its
first phase, which is one of the failures of `FailReset`. Planned operations, event life cycle,
compaction, web push and accounts are not modelled yet (section 7).
