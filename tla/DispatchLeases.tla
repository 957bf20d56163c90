---------------------------- MODULE DispatchLeases ----------------------------
(***************************************************************************)
(* The 90 seconds a device has to confirm the batch it was proposed for an *)
(* aircraft: DispatchRecommendationLeaseService, and what CALL_NEXT does   *)
(* with leases and claims.  Both hold the turn of the command tail from    *)
(* their first read of D1 to their last write (Coordinator shows that      *)
(* nobody else does); next to it claims, time and forecasts go on.         *)
(*                                                                         *)
(* A batch is any set of open rotations: which one the plan proposes, and  *)
(* whether it fits the aircraft, is left open.  Of a group only its first  *)
(* open segment is modelled.                                               *)
(***************************************************************************)
EXTENDS AssistClaims

CONSTANTS Helpers,    \* devices of the role FLIGHT_LINE; the others need no claim
          Groups, Rotations,
          Asks,       \* ids of lease requests, acquire_command_id
          MaxCommands \* bound: commands

LeaseStates == {"ACTIVE", "RELEASED", "EXPIRED", "CONSUMED", "INVALIDATED"}
Leases == [device : Devices, aircraft : Aircraft, rotations : SUBSET Rotations,
           groups : SUBSET Groups, status : LeaseStates, expired : BOOLEAN]

ASSUME LeaseConstants ==
  /\ Helpers \subseteq Devices /\ MaxCommands \in Nat
  /\ NONE \notin Leases

VARIABLES
  lease,         \* D1: the lease each request was granted
  groupState,    \* D1: what a booking group does: waiting, boarding, away
  slot,          \* D1: the rotation of its first open segment
  aircraftState, \* D1: AVAILABLE or BUSY
  turn,          \* the request whose turn it is in the tail
  shown,         \* per device, the lease of its dialog
  commands       \* counter of the bound

queueRows == <<groupState, slot, aircraftState>>
leaseVars == <<lease, queueRows, turn, shown, commands>>
vars      == <<leaseVars, claimVars>>

Granted(k) == lease[k] # NONE
IsActive(k) == Granted(k) /\ lease[k].status = "ACTIVE"
Live(k) == IsActive(k) /\ ~lease[k].expired
LiveNow == {k \in Asks : Live(k)}
OwnedBy(k, d) == Granted(k) /\ lease[k].device = d

\* The request goes by its own time: what runs out while it waits is not over for it.
LiveFor(k) == IsActive(k) /\ k \notin turn.over
DueNow == {k \in Asks : IsActive(k) /\ lease[k].expired}

Waiting(r) == {g \in Groups : slot[g] = r /\ groupState[g] = "waiting"}
Ended(K, status) == [k \in Asks |-> IF k \in K THEN [lease[k] EXCEPT !.status = status] ELSE lease[k]]

Init ==
  /\ ClaimInit
  /\ lease = [k \in Asks |-> NONE]
  /\ groupState = [g \in Groups |-> "waiting"]
  /\ slot \in [Groups -> Rotations]
  /\ aircraftState = [a \in Aircraft |-> "AVAILABLE"]
  /\ turn = NONE
  /\ shown = [d \in Devices |-> NONE]
  /\ commands = 0

(***************************************************************************)
(* Lease requests                                                          *)
(***************************************************************************)

\* dispatchRecommendationLeaseIsRelevant.
Relevant(k) ==
  /\ aircraftState[lease[k].aircraft] = "AVAILABLE"
  /\ \A g \in lease[k].groups : groupState[g] = "waiting"
  /\ {slot[g] : g \in lease[k].groups} = lease[k].rotations

\* loadEligibleAircraft.
Eligible(d, a) == aircraftState[a] = "AVAILABLE" /\ (d \in Helpers => OwnLive(a, d))

\* The request of a dialog is repeated: the lease it was granted, or that it is over.
RepeatAsk(d, k) ==
  /\ turn = NONE
  /\ OwnedBy(k, d)
  /\ shown' = [shown EXCEPT ![d] = IF Live(k) THEN k ELSE NONE]
  /\ UNCHANGED <<lease, queueRows, turn, commands, claimVars>>

\* The device holds a lease of this aircraft that still fits: the same lease again.
ShowOwned(d, a, k) ==
  /\ turn = NONE
  /\ Eligible(d, a)
  /\ OwnedBy(k, d) /\ Live(k) /\ lease[k].aircraft = a /\ Relevant(k)
  /\ shown' = [shown EXCEPT ![d] = k]
  /\ UNCHANGED <<lease, queueRows, turn, commands, claimVars>>

\* An own lease that does not fit any more is ended first; the request then goes on, if
\* nobody else prepares the aircraft, to wait for the forecast work.
AskLease(d, a, k) ==
  LET own == {j \in LiveNow : OwnedBy(j, d)} IN
  /\ turn = NONE
  /\ ~Granted(k)
  /\ Eligible(d, a)
  /\ \A j \in own : lease[j].aircraft = a /\ ~Relevant(j)
  /\ lease' = Ended(own, "INVALIDATED")
  /\ turn' = IF \E j \in LiveNow \ own : lease[j].aircraft = a THEN NONE
             ELSE [kind |-> "LEASE", device |-> d, aircraft |-> a, ask |-> k, over |-> DueNow]
  /\ UNCHANGED <<queueRows, shown, commands, claimVars>>

\* Mutant: only the rotations of a lease are reserved, not its groups.
ReservedByRotation(r) == \E j \in Asks : LiveFor(j) /\ r \in lease[j].rotations
\* reserved_by_active_lease.
Reserved(r) ==
  \E j \in Asks : LiveFor(j) /\ (r \in lease[j].rotations \/ Waiting(r) \cap lease[j].groups # {})

\* selectReusableDispatchBatch: every row of the batch is free and has all its groups.
Batches == {B \in SUBSET Rotations \ {{}} : \A r \in B : ~Reserved(r) /\ Waiting(r) # {}}

\* Mutant: the batch ends every lease, not only those that ran out.
EveryActive == {k \in Asks : IsActive(k)}
RunOut == {k \in Asks : IsActive(k) /\ k \in turn.over}

\* One batch ends the leases that ran out and grants the new one, for 90 seconds from
\* the arrival of the request: after a long wait they may be over already.
GrantLease(B) ==
  LET new == [device |-> turn.device, aircraft |-> turn.aircraft, rotations |-> B,
              groups |-> UNION {Waiting(r) : r \in B}, status |-> "ACTIVE", expired |-> FALSE] IN
  /\ turn # NONE /\ turn.kind = "LEASE"
  /\ B \in Batches
  /\ \E late \in BOOLEAN :
       lease' = [Ended(RunOut, "EXPIRED") EXCEPT ![turn.ask] = [new EXCEPT !.expired = late]]
  /\ shown' = [shown EXCEPT ![turn.device] = turn.ask]
  /\ turn' = NONE
  /\ UNCHANGED <<queueRows, commands, claimVars>>

\* No batch is left, or a call to D1 fails; what was ended before stays ended.
GiveUp ==
  /\ turn # NONE
  /\ turn' = NONE
  /\ UNCHANGED <<lease, queueRows, shown, commands, claimVars>>

\* Closing the dialog, choosing by hand or reloading gives the lease back.
ReleaseLease(d, k) ==
  /\ turn = NONE
  /\ OwnedBy(k, d) /\ IsActive(k)
  /\ lease' = Ended({k}, IF lease[k].expired THEN "EXPIRED" ELSE "RELEASED")
  /\ shown' = [shown EXCEPT ![d] = NONE]
  /\ UNCHANGED <<queueRows, turn, commands, claimVars>>

(***************************************************************************)
(* CALL_NEXT                                                               *)
(***************************************************************************)

\* The preflight reads the claim of the account; a helper must have that of the aircraft.
BeginCall(d, a, G, k) ==
  /\ turn = NONE
  /\ commands < MaxCommands
  /\ commands' = commands + 1
  /\ d \in Helpers => OwnLive(a, d)
  /\ k # NONE => shown[d] = k
  /\ turn' = [kind |-> "CALL", device |-> d, aircraft |-> a, groups |-> G, ask |-> k,
              revision |-> {claim[b].revision : b \in {c \in Aircraft : OwnLive(c, d)}},
              renewed |-> FALSE]
  /\ UNCHANGED <<lease, queueRows, shown, claimVars>>

\* renewActiveClaim: whichever claim of the account has the revision read.
RenewClaim ==
  LET kept == {b \in Aircraft : OwnLive(b, turn.device) /\ claim[b].revision \in turn.revision} IN
  /\ turn # NONE /\ turn.kind = "CALL" /\ ~turn.renewed
  /\ turn' = [turn EXCEPT !.renewed = TRUE]
  /\ claim' = [b \in Aircraft |-> IF b \in kept THEN [claim[b] EXCEPT !.revision = @ + 1] ELSE claim[b]]
  /\ UNCHANGED <<lease, queueRows, shown, commands, request, conflict, holds, claimAsks>>

\* validateRecommendationLease: all that the lease says must still be so.
LeaseConfirms(k) ==
  /\ Live(k) /\ OwnedBy(k, turn.device) /\ lease[k].aircraft = turn.aircraft
  /\ turn.groups = lease[k].groups
  /\ {slot[g] : g \in turn.groups} = lease[k].rotations

\* Mutant: only leases of other aircraft are in the way.
OverriddenElsewhere(G) ==
  {k \in LiveNow : lease[k].groups \cap G # {} /\ lease[k].aircraft # turn.aircraft}
\* loadManualOverride: the leases, the own ones too, that share a selected group.
Overridden(G) == {k \in LiveNow : lease[k].groups \cap G # {}}

\* The groups move into the rotation of the first; who waits there flies with them.
Call(primary) ==
  LET G == turn.groups  r == slot[primary] IN
  /\ turn # NONE /\ turn.kind = "CALL" /\ turn.renewed
  /\ primary \in G
  /\ aircraftState[turn.aircraft] = "AVAILABLE"
  /\ \A g \in G : groupState[g] = "waiting"
  /\ IF turn.ask # NONE
     THEN LeaseConfirms(turn.ask) /\ lease' = Ended({turn.ask}, "CONSUMED")
     ELSE lease' = Ended(Overridden(G), "INVALIDATED")
  /\ groupState' = [g \in Groups |-> IF g \in G \cup Waiting(r) THEN "boarding" ELSE groupState[g]]
  /\ slot' = [g \in Groups |-> IF g \in G THEN r ELSE slot[g]]
  /\ aircraftState' = [aircraftState EXCEPT ![turn.aircraft] = "BUSY"]
  /\ turn' = NONE
  /\ UNCHANGED <<shown, commands, claimVars>>

(***************************************************************************)
(* What other commands do to groups and aircraft, and time                 *)
(***************************************************************************)

Command ==
  /\ turn = NONE
  /\ commands < MaxCommands
  /\ commands' = commands + 1
  /\ UNCHANGED <<lease, turn, shown, claimVars>>

\* A sale, a deferral, a move, a return to the queue or an aborted call.
Queue(g, r) ==
  /\ Command
  /\ groupState' = [groupState EXCEPT ![g] = "waiting"]
  /\ slot' = [slot EXCEPT ![g] = r]
  /\ UNCHANGED aircraftState

\* Missing, canceled, no-show, or landed.
LeaveQueue(g) ==
  /\ Command
  /\ groupState[g] # "away"
  /\ groupState' = [groupState EXCEPT ![g] = "away"]
  /\ UNCHANGED <<slot, aircraftState>>

\* The fleet desk, a turnaround or an aborted call.
SetAircraft(a) ==
  /\ Command
  /\ aircraftState' = [aircraftState EXCEPT ![a] = IF @ = "BUSY" THEN "AVAILABLE" ELSE "BUSY"]
  /\ UNCHANGED <<groupState, slot>>

\* Ninety seconds after the request for it arrived.
LeaseTimesOut(k) ==
  /\ Live(k)
  /\ lease' = [lease EXCEPT ![k].expired = TRUE]
  /\ UNCHANGED <<queueRows, turn, shown, commands, claimVars>>

(***************************************************************************)
(* The specification                                                       *)
(***************************************************************************)

Next ==
  \/ \E d \in Devices, k \in Asks : RepeatAsk(d, k) \/ ReleaseLease(d, k)
  \/ \E d \in Devices, a \in Aircraft, k \in Asks : ShowOwned(d, a, k) \/ AskLease(d, a, k)
  \/ \E B \in SUBSET Rotations : GrantLease(B)
  \/ GiveUp
  \/ \E d \in Devices, a \in Aircraft, G \in SUBSET Groups \ {{}}, k \in Asks \cup {NONE} :
       BeginCall(d, a, G, k)
  \/ RenewClaim
  \/ \E g \in Groups : Call(g) \/ LeaveQueue(g)
  \/ \E g \in Groups, r \in Rotations : Queue(g, r)
  \/ \E a \in Aircraft : SetAircraft(a)
  \/ \E k \in Asks : LeaseTimesOut(k)
  \/ ClaimStep /\ UNCHANGED leaseVars

Spec == Init /\ [][Next]_vars

(***************************************************************************)
(* Properties                                                              *)
(***************************************************************************)

\* Every variable holds what the code may store in it.
TypeOK ==
  /\ ClaimTypeOK
  /\ lease \in [Asks -> Leases \cup {NONE}]
  /\ groupState \in [Groups -> {"waiting", "boarding", "away"}]
  /\ slot \in [Groups -> Rotations]
  /\ aircraftState \in [Aircraft -> {"AVAILABLE", "BUSY"}]
  /\ turn \in {NONE} \cup
       [kind : {"LEASE"}, device : Devices, aircraft : Aircraft, ask : Asks, over : SUBSET Asks] \cup
       [kind : {"CALL"}, device : Devices, aircraft : Aircraft, groups : SUBSET Groups,
        ask : Asks \cup {NONE}, revision : SUBSET (Nat \ {0}), renewed : BOOLEAN]
  /\ shown \in [Devices -> Asks \cup {NONE}]
  /\ commands \in Nat

\* Two places never prepare the same flight: leases that are live share no group and no
\* rotation, however groups were moved since, and no index of D1 ever fails a grant.
LeasesDisjoint ==
  \A j, k \in Asks : j # k /\ IsActive(j) /\ IsActive(k) =>
    /\ lease[j].device # lease[k].device
    /\ lease[j].aircraft # lease[k].aircraft
    /\ Live(j) /\ Live(k) => /\ lease[j].groups \cap lease[k].groups = {}
                             /\ lease[j].rotations \cap lease[k].rotations = {}

\* A call leaves no live lease, its own or another's, on a group it names (ADR-0035:
\* consumed or overridden atomically with the successful CALL_NEXT).
CallsEndLeases ==
  [][\A primary \in Groups : Call(primary) =>
       \A k \in Asks : Live(k)' => lease[k].groups \cap turn.groups = {}]_vars

\* A lease is stable: until it runs out only its device ends it, a call that names one
\* of its groups, or its own aircraft and groups that no longer fit.
LeaseKept ==
  [][\A k \in Asks : Live(k) /\ ~Live(k)' =>
       \/ lease'[k].expired
       \/ lease'[k].status = "RELEASED" /\ shown'[lease[k].device] = NONE
       \/ lease'[k].status = "INVALIDATED" /\ ~Relevant(k)
       \/ turn # NONE /\ turn.kind = "CALL" /\ lease[k].groups \cap turn.groups # {}]_vars
===============================================================================
