------------------------------ MODULE LeaseProofs ------------------------------
(***************************************************************************)
(* What DispatchLeases guarantees for every number of devices, aircraft,   *)
(* groups, rotations and requests.                                         *)
(***************************************************************************)
EXTENDS DispatchLeases, ClaimProofs

-----------------------------------------------------------------------------
\* Type correctness.

LeaseTurns ==
  [kind : {"LEASE"}, device : Devices, aircraft : Aircraft, ask : Asks, over : SUBSET Asks]
CallTurns ==
  [kind : {"CALL"}, device : Devices, aircraft : Aircraft, groups : SUBSET Groups,
   ask : Asks \cup {NONE}, revision : SUBSET (Nat \ {0}), renewed : BOOLEAN]

LEMMA TurnTypes ==
  ASSUME TypeOK, turn # NONE
  PROVE  /\ turn.kind = "LEASE" => turn \in LeaseTurns
         /\ turn.kind = "CALL" => turn \in CallTurns
  BY DEF TypeOK, LeaseTurns, CallTurns

LEMMA LeaseTypes ==
  ASSUME TypeOK
  PROVE  /\ lease \in [Asks -> Leases \cup {NONE}]
         /\ \A k \in Asks : Granted(k) => lease[k] \in Leases
  BY DEF TypeOK, Granted

\* Ending leases changes their status and nothing else.
LEMMA EndedTyped ==
  ASSUME TypeOK, NEW K \in SUBSET Asks, \A k \in K : Granted(k), NEW status \in LeaseStates
  PROVE  /\ Ended(K, status) \in [Asks -> Leases \cup {NONE}]
         /\ \A k \in Asks \ K : Ended(K, status)[k] = lease[k]
         /\ \A k \in K : /\ Ended(K, status)[k] \in Leases
                         /\ Ended(K, status)[k].status = status
                         /\ Ended(K, status)[k].expired = lease[k].expired
<1>1. \A k \in K : /\ [lease[k] EXCEPT !.status = status] \in Leases
                   /\ [lease[k] EXCEPT !.status = status].status = status
                   /\ [lease[k] EXCEPT !.status = status].expired = lease[k].expired
  BY LeaseTypes DEF Leases
<1> QED  BY <1>1, LeaseTypes DEF Ended

LEMMA GrantTyped ==
  ASSUME TypeOK, NEW B \in SUBSET Rotations, GrantLease(B)
  PROVE  TypeOK'
<1>1. turn \in LeaseTurns
  BY TurnTypes DEF GrantLease
<1>2. turn.device \in Devices /\ turn.aircraft \in Aircraft /\ turn.ask \in Asks
  BY <1>1 DEF LeaseTurns
<1> DEFINE new(late) == [[device |-> turn.device, aircraft |-> turn.aircraft, rotations |-> B,
                          groups |-> UNION {Waiting(r) : r \in B}, status |-> "ACTIVE",
                          expired |-> FALSE] EXCEPT !.expired = late]
<1>3. \A late \in BOOLEAN : new(late) \in Leases
  BY <1>2 DEF Leases, LeaseStates, Waiting
<1>4. RunOut \in SUBSET Asks /\ \A k \in RunOut : Granted(k)
  BY DEF RunOut, IsActive
<1>5. Ended(RunOut, "EXPIRED") \in [Asks -> Leases \cup {NONE}]
  BY <1>4, EndedTyped DEF LeaseStates
<1>6. PICK late \in BOOLEAN : lease' = [Ended(RunOut, "EXPIRED") EXCEPT ![turn.ask] = new(late)]
  BY DEF GrantLease
<1> HIDE DEF new
<1>7. lease' \in [Asks -> Leases \cup {NONE}]
  BY <1>2, <1>3, <1>5, <1>6
<1>8. shown' \in [Devices -> Asks \cup {NONE}]
  BY <1>2 DEF GrantLease, TypeOK
<1> QED  BY <1>7, <1>8 DEF GrantLease, TypeOK, ClaimTypeOK, queueRows, claimVars

LEMMA AskTyped ==
  ASSUME TypeOK, NEW d \in Devices, NEW a \in Aircraft, NEW k \in Asks, AskLease(d, a, k)
  PROVE  TypeOK'
<1> DEFINE own == {j \in LiveNow : OwnedBy(j, d)}
<1>1. own \in SUBSET Asks /\ \A j \in own : Granted(j)
  BY DEF LiveNow, Live, IsActive
<1>2. lease' = Ended(own, "INVALIDATED")
  BY DEF AskLease
<1>3. \/ turn' = NONE
      \/ turn' = [kind |-> "LEASE", device |-> d, aircraft |-> a, ask |-> k, over |-> DueNow]
  BY DEF AskLease
<1> HIDE DEF own
<1>4. lease' \in [Asks -> Leases \cup {NONE}]
  BY <1>1, <1>2, EndedTyped DEF LeaseStates
<1>5. turn' \in {NONE} \cup LeaseTurns
  BY <1>3 DEF LeaseTurns, DueNow
<1> QED
  BY <1>4, <1>5 DEF AskLease, TypeOK, ClaimTypeOK, queueRows, claimVars, LeaseTurns

LEMMA CallTyped ==
  ASSUME TypeOK, NEW primary \in Groups, Call(primary)
  PROVE  TypeOK'
<1>1. turn \in CallTurns
  BY TurnTypes DEF Call
<1>2. lease' \in [Asks -> Leases \cup {NONE}]
  <2>1. CASE turn.ask # NONE
    <3>1. lease' = Ended({turn.ask}, "CONSUMED") /\ Granted(turn.ask) /\ turn.ask \in Asks
      BY <1>1, <2>1 DEF Call, LeaseConfirms, Live, IsActive, CallTurns
    <3> QED  BY <3>1, EndedTyped DEF LeaseStates
  <2>2. CASE turn.ask = NONE
    <3>1. lease' = Ended(Overridden(turn.groups), "INVALIDATED")
      BY <2>2 DEF Call
    <3>2. /\ Overridden(turn.groups) \in SUBSET Asks
          /\ \A k \in Overridden(turn.groups) : Granted(k)
      BY DEF Overridden, LiveNow, Live, IsActive
    <3> QED  BY <3>1, <3>2, EndedTyped DEF LeaseStates
  <2> QED  BY <2>1, <2>2
<1>3. /\ groupState' \in [Groups -> {"waiting", "boarding", "away"}]
      /\ slot' \in [Groups -> Rotations]
      /\ aircraftState' \in [Aircraft -> {"AVAILABLE", "BUSY"}]
  BY DEF Call, TypeOK
<1> QED  BY <1>2, <1>3 DEF Call, TypeOK, ClaimTypeOK, claimVars

LEMMA BeginCallTyped ==
  ASSUME TypeOK, NEW d \in Devices, NEW a \in Aircraft, NEW G \in SUBSET Groups \ {{}},
         NEW k \in Asks \cup {NONE}, BeginCall(d, a, G, k)
  PROVE  TypeOK'
<1>1. \A b \in Aircraft : HasClaim(b) => claim[b].revision \in Nat \ {0}
  BY DEF TypeOK, ClaimTypeOK, HasClaim, Rows
<1>2. {claim[b].revision : b \in {c \in Aircraft : OwnLive(c, d)}} \in SUBSET (Nat \ {0})
  BY <1>1 DEF OwnLive, OwnerIs
<1>3. turn' \in CallTurns
  BY <1>2 DEF BeginCall, CallTurns
<1> QED
  BY <1>3 DEF BeginCall, TypeOK, ClaimTypeOK, queueRows, claimVars, CallTurns

LEMMA RenewClaimTyped ==
  ASSUME TypeOK, RenewClaim
  PROVE  TypeOK'
<1>1. turn \in CallTurns
  BY TurnTypes DEF RenewClaim
<1>2. turn' \in CallTurns
  BY <1>1 DEF RenewClaim, CallTurns
<1>3. claim \in [Aircraft -> Rows \cup {NONE}]
  BY DEF TypeOK, ClaimTypeOK
<1>4. \A b \in Aircraft : HasClaim(b) => [claim[b] EXCEPT !.revision = @ + 1] \in Rows
  BY <1>3 DEF HasClaim, Rows
<1>5. claim' \in [Aircraft -> Rows \cup {NONE}]
  BY <1>3, <1>4 DEF RenewClaim, OwnLive, OwnerIs
<1> QED
  BY <1>2, <1>5 DEF RenewClaim, TypeOK, ClaimTypeOK, queueRows, CallTurns

LEMMA NextTyped ==
  ASSUME TypeOK, [Next]_vars
  PROVE  TypeOK'
<1> USE DEF queueRows
<1>1. CASE UNCHANGED vars
  BY <1>1 DEF vars, leaseVars, claimVars, TypeOK, ClaimTypeOK
<1>2. ASSUME NEW d \in Devices, NEW k \in Asks, RepeatAsk(d, k) PROVE TypeOK'
  <2>1. shown' \in [Devices -> Asks \cup {NONE}]
    BY <1>2 DEF RepeatAsk, TypeOK
  <2> QED  BY <1>2, <2>1 DEF RepeatAsk, TypeOK, ClaimTypeOK, claimVars
<1>3. ASSUME NEW d \in Devices, NEW k \in Asks, ReleaseLease(d, k) PROVE TypeOK'
  <2>1. lease' \in [Asks -> Leases \cup {NONE}]
    <3>1. Granted(k)
      BY <1>3 DEF ReleaseLease, IsActive
    <3>2. \E status \in LeaseStates : lease' = Ended({k}, status)
      BY <1>3 DEF ReleaseLease, LeaseStates
    <3> QED  BY <3>1, <3>2, EndedTyped
  <2>2. shown' \in [Devices -> Asks \cup {NONE}]
    BY <1>3 DEF ReleaseLease, TypeOK
  <2> QED  BY <1>3, <2>1, <2>2 DEF ReleaseLease, TypeOK, ClaimTypeOK, claimVars
<1>4. ASSUME NEW d \in Devices, NEW a \in Aircraft, NEW k \in Asks, ShowOwned(d, a, k)
      PROVE  TypeOK'
  BY <1>4 DEF ShowOwned, TypeOK, ClaimTypeOK, claimVars
<1>5. CASE GiveUp
  BY <1>5 DEF GiveUp, TypeOK, ClaimTypeOK, claimVars
<1>6. ASSUME NEW g \in Groups, LeaveQueue(g) PROVE TypeOK'
  BY <1>6 DEF LeaveQueue, Command, TypeOK, ClaimTypeOK, claimVars
<1>7. ASSUME NEW g \in Groups, NEW r \in Rotations, Queue(g, r) PROVE TypeOK'
  BY <1>7 DEF Queue, Command, TypeOK, ClaimTypeOK, claimVars
<1>8. ASSUME NEW a \in Aircraft, SetAircraft(a) PROVE TypeOK'
  BY <1>8 DEF SetAircraft, Command, TypeOK, ClaimTypeOK, claimVars
<1>9. ASSUME NEW k \in Asks, LeaseTimesOut(k) PROVE TypeOK'
  <2>1. lease[k] \in Leases
    BY <1>9, LeaseTypes DEF LeaseTimesOut, Live, IsActive
  <2>2. [lease[k] EXCEPT !.expired = TRUE] \in Leases
    BY <2>1 DEF Leases
  <2>3. lease' \in [Asks -> Leases \cup {NONE}]
    BY <1>9, <2>2, LeaseTypes DEF LeaseTimesOut
  <2> QED  BY <1>9, <2>3 DEF LeaseTimesOut, TypeOK, ClaimTypeOK, claimVars
<1>10. CASE ClaimStep /\ UNCHANGED leaseVars
  <2>1. ClaimTypeOK'
    BY <1>10, ClaimStepTyped DEF TypeOK
  <2> QED  BY <1>10, <2>1 DEF leaseVars, TypeOK
<1> QED
  BY <1>1, <1>2, <1>3, <1>4, <1>5, <1>6, <1>7, <1>8, <1>9, <1>10,
     AskTyped, GrantTyped, BeginCallTyped, RenewClaimTyped, CallTyped DEF Next

LEMMA InitTyped ==
  ASSUME Init
  PROVE  TypeOK
<1>1. ClaimTypeOK
  BY DEF Init, ClaimInit, ClaimTypeOK
<1> QED  BY <1>1 DEF Init, TypeOK

\* Leases, turns and dialogs hold what the code stores in them, with the claims that
\* change next to them.
THEOREM LeasesTyped == Spec => []TypeOK
<1>1. Init => TypeOK
  BY InitTyped
<1>2. TypeOK /\ [Next]_vars => TypeOK'
  BY NextTyped
<1> QED  BY <1>1, <1>2, PTL DEF Spec

-----------------------------------------------------------------------------
\* The inductive invariant.

\* While a lease request has its turn, which includes the wait for the forecast work,
\* nobody else was granted anything: every lease that is still active either had run out
\* when the request arrived or is of another device and another aircraft.
TurnIsFree ==
  turn # NONE /\ turn.kind = "LEASE" =>
    /\ ~Granted(turn.ask)
    /\ \A j \in Asks : IsActive(j) =>
         IF j \in turn.over THEN lease[j].expired
         ELSE lease[j].device # turn.device /\ lease[j].aircraft # turn.aircraft

LeaseInv == TypeOK /\ LeasesDisjoint /\ TurnIsFree

\* A step that only ends leases or lets them run out.
OnlyEnds ==
  \A k \in Asks :
    \/ lease'[k] = lease[k]
    \/ /\ Granted(k) /\ lease'[k] \in Leases
       /\ lease'[k].status # "ACTIVE" \/ lease'[k] = [lease[k] EXCEPT !.expired = TRUE]

LEMMA EndingKeepsDisjoint ==
  ASSUME TypeOK, LeasesDisjoint, OnlyEnds
  PROVE  /\ LeasesDisjoint'
         /\ \A k \in Asks : /\ Granted(k)' <=> Granted(k)
                            /\ IsActive(k)' => /\ IsActive(k)
                                               /\ lease'[k].device = lease[k].device
                                               /\ lease'[k].aircraft = lease[k].aircraft
                                               /\ lease[k].expired => lease'[k].expired
<1>1. ASSUME NEW k \in Asks
      PROVE  /\ Granted(k)' <=> Granted(k)
             /\ IsActive(k)' => /\ IsActive(k)
                                /\ lease'[k].device = lease[k].device
                                /\ lease'[k].aircraft = lease[k].aircraft
                                /\ lease'[k].groups = lease[k].groups
                                /\ lease'[k].rotations = lease[k].rotations
                                /\ lease[k].expired => lease'[k].expired
  <2>1. CASE lease'[k] = lease[k]
    BY <2>1 DEF Granted, IsActive
  <2>2. CASE Granted(k) /\ lease'[k] \in Leases /\ lease'[k].status # "ACTIVE"
    BY <2>2, LeaseConstants DEF Granted, IsActive
  <2>3. CASE Granted(k) /\ lease'[k] \in Leases /\ lease'[k] = [lease[k] EXCEPT !.expired = TRUE]
    <3>1. lease[k] \in Leases
      BY <2>3, LeaseTypes
    <3>2. /\ lease'[k].status = lease[k].status /\ lease'[k].expired
          /\ lease'[k].device = lease[k].device /\ lease'[k].aircraft = lease[k].aircraft
          /\ lease'[k].groups = lease[k].groups /\ lease'[k].rotations = lease[k].rotations
      BY <2>3, <3>1 DEF Leases
    <3> QED  BY <2>3, <3>2, LeaseConstants DEF Granted, IsActive
  <2> QED  BY <2>1, <2>2, <2>3 DEF OnlyEnds
<1>2. \A k \in Asks : Live(k)' => Live(k)
  BY <1>1 DEF Live
<1>3. LeasesDisjoint'
  BY <1>1, <1>2 DEF LeasesDisjoint
<1> QED  BY <1>1, <1>3

\* Which steps only end leases, and what they do to the turn.
LEMMA EndedOnlyEnds ==
  ASSUME TypeOK, NEW K \in SUBSET Asks, \A k \in K : Granted(k),
         NEW status \in LeaseStates \ {"ACTIVE"}, lease' = Ended(K, status)
  PROVE  /\ OnlyEnds
         /\ \A k \in Asks \ K : lease'[k] = lease[k]
         /\ \A k \in K : lease'[k].status = status
<1>1. status \in LeaseStates /\ status # "ACTIVE"
  OBVIOUS
<1>2. \A k \in K : Ended(K, status)[k] \in Leases /\ Ended(K, status)[k].status = status
  BY <1>1, EndedTyped
<1>3. \A k \in Asks \ K : Ended(K, status)[k] = lease[k]
  BY <1>1, EndedTyped
<1> QED  BY <1>1, <1>2, <1>3 DEF OnlyEnds

LEMMA AskKeepsLeases ==
  ASSUME LeaseInv, NEW d \in Devices, NEW a \in Aircraft, NEW k \in Asks, AskLease(d, a, k)
  PROVE  LeasesDisjoint' /\ TurnIsFree'
<1> DEFINE own == {j \in LiveNow : OwnedBy(j, d)}
<1>0. TypeOK /\ LeasesDisjoint
  BY DEF LeaseInv
<1>1. own \in SUBSET Asks /\ \A j \in own : Granted(j)
  BY DEF LiveNow, Live, IsActive
<1>2. lease' = Ended(own, "INVALIDATED")
  BY DEF AskLease
<1>3. OnlyEnds
  BY <1>0, <1>1, <1>2, EndedOnlyEnds DEF LeaseStates
<1>4. \A j \in own : ~IsActive(j)'
  BY <1>0, <1>1, <1>2, EndedTyped DEF LeaseStates, IsActive
<1>5. CASE turn' = NONE
  BY <1>0, <1>3, <1>5, EndingKeepsDisjoint DEF TurnIsFree
<1>6. CASE turn' = [kind |-> "LEASE", device |-> d, aircraft |-> a, ask |-> k, over |-> DueNow]
  <2>1. CASE \E j \in LiveNow \ own : lease[j].aircraft = a
    BY <1>5, <2>1 DEF AskLease
  <2>2. CASE \A j \in LiveNow \ own : lease[j].aircraft # a
    <3>1. ASSUME NEW j \in Asks, IsActive(j)'
          PROVE  IF j \in DueNow THEN lease'[j].expired
                 ELSE lease'[j].device # d /\ lease'[j].aircraft # a
      <4>1. IsActive(j) /\ j \notin own /\ lease'[j] = lease[j]
        BY <1>0, <1>1, <1>2, <1>3, <1>4, <3>1, EndingKeepsDisjoint, EndedTyped DEF LeaseStates
      <4>2. j \notin DueNow => j \in LiveNow \ own
        BY <4>1 DEF DueNow, LiveNow, Live
      <4>3. j \notin DueNow => lease[j].device # d /\ lease[j].aircraft # a
        BY <2>2, <4>1, <4>2 DEF OwnedBy, IsActive
      <4> QED  BY <4>1, <4>3 DEF DueNow
    <3>2. ~Granted(k)'
      BY <1>0, <1>3, EndingKeepsDisjoint DEF AskLease
    <3>3. TurnIsFree'
      BY <1>6, <3>1, <3>2 DEF TurnIsFree
    <3> QED  BY <1>0, <1>3, <3>3, EndingKeepsDisjoint
  <2> QED  BY <2>1, <2>2
<1> QED  BY <1>5, <1>6 DEF AskLease

\* What the grant writes: one new lease, disjoint from all that stay active.
LEMMA Granting ==
  ASSUME LeaseInv, NEW B \in SUBSET Rotations, GrantLease(B)
  PROVE  /\ turn \in LeaseTurns /\ ~Granted(turn.ask)
         /\ lease'[turn.ask].device = turn.device /\ lease'[turn.ask].aircraft = turn.aircraft
         /\ lease'[turn.ask].rotations = B
         /\ lease'[turn.ask].groups = UNION {Waiting(r) : r \in B}
         /\ \A k \in Asks \ {turn.ask} :
              \/ lease'[k] = lease[k] /\ ~(IsActive(k) /\ k \in turn.over)
              \/ IsActive(k) /\ k \in turn.over /\ lease[k].expired /\ ~IsActive(k)'
<1>0. TypeOK /\ turn # NONE /\ turn.kind = "LEASE"
  BY DEF LeaseInv, GrantLease
<1>1. turn \in LeaseTurns
  BY <1>0, TurnTypes
<1>2. ~Granted(turn.ask) /\ \A j \in Asks : IsActive(j) /\ j \in turn.over => lease[j].expired
  BY <1>0 DEF LeaseInv, TurnIsFree
<1> DEFINE new(late) == [[device |-> turn.device, aircraft |-> turn.aircraft, rotations |-> B,
                          groups |-> UNION {Waiting(r) : r \in B}, status |-> "ACTIVE",
                          expired |-> FALSE] EXCEPT !.expired = late]
<1>3. \A late : /\ new(late).device = turn.device /\ new(late).aircraft = turn.aircraft
                /\ new(late).rotations = B /\ new(late).groups = UNION {Waiting(r) : r \in B}
  OBVIOUS
<1>4. RunOut \in SUBSET Asks /\ \A k \in RunOut : Granted(k)
  BY DEF RunOut, IsActive
<1>5. PICK late \in BOOLEAN : lease' = [Ended(RunOut, "EXPIRED") EXCEPT ![turn.ask] = new(late)]
  BY DEF GrantLease
<1> HIDE DEF new
<1>6. /\ Ended(RunOut, "EXPIRED") \in [Asks -> Leases \cup {NONE}]
      /\ \A k \in Asks \ RunOut : Ended(RunOut, "EXPIRED")[k] = lease[k]
      /\ \A k \in RunOut : Ended(RunOut, "EXPIRED")[k].status = "EXPIRED"
  BY <1>0, <1>4, EndedTyped DEF LeaseStates
<1>7. turn.ask \in Asks /\ lease'[turn.ask] = new(late)
  BY <1>1, <1>5, <1>6 DEF LeaseTurns
<1>8. \A k \in Asks \ {turn.ask} : lease'[k] = Ended(RunOut, "EXPIRED")[k]
  BY <1>5, <1>6
<1>9. ASSUME NEW k \in Asks \ {turn.ask}
      PROVE  \/ lease'[k] = lease[k] /\ ~(IsActive(k) /\ k \in turn.over)
             \/ IsActive(k) /\ k \in turn.over /\ lease[k].expired /\ ~IsActive(k)'
  <2>1. CASE k \in RunOut
    BY <1>2, <1>6, <1>8, <2>1 DEF RunOut, IsActive
  <2>2. CASE k \notin RunOut
    BY <1>6, <1>8, <2>2 DEF RunOut
  <2> QED  BY <2>1, <2>2
<1> QED  BY <1>1, <1>2, <1>3, <1>7, <1>9

LEMMA GrantKeepsLeases ==
  ASSUME LeaseInv, NEW B \in SUBSET Rotations, GrantLease(B)
  PROVE  LeasesDisjoint' /\ TurnIsFree'
<1> DEFINE ask == turn.ask
<1>1. /\ turn \in LeaseTurns /\ ask \in Asks
      /\ lease'[ask].device = turn.device /\ lease'[ask].aircraft = turn.aircraft
      /\ lease'[ask].rotations = B /\ lease'[ask].groups = UNION {Waiting(r) : r \in B}
      /\ \A k \in Asks \ {ask} :
           \/ lease'[k] = lease[k] /\ ~(IsActive(k) /\ k \in turn.over)
           \/ IsActive(k) /\ k \in turn.over /\ lease[k].expired /\ ~IsActive(k)'
  BY Granting DEF LeaseTurns
<1>2. \A r \in B : ~Reserved(r)
  BY DEF GrantLease, Batches
<1> HIDE DEF ask
<1>3. ASSUME NEW k \in Asks \ {ask}, IsActive(k)'
      PROVE  /\ IsActive(k) /\ lease'[k] = lease[k] /\ (Live(k)' <=> Live(k))
             /\ k \notin turn.over
             /\ lease[k].device # turn.device /\ lease[k].aircraft # turn.aircraft
             /\ lease[k].groups \cap UNION {Waiting(r) : r \in B} = {}
             /\ lease[k].rotations \cap B = {}
  <2>1. lease'[k] = lease[k] /\ IsActive(k) /\ k \notin turn.over
    BY <1>1, <1>3 DEF IsActive, Granted
  <2>2. lease[k].device # turn.device /\ lease[k].aircraft # turn.aircraft
    BY <2>1 DEF LeaseInv, TurnIsFree, GrantLease
  <2>3. \A r \in B : r \notin lease[k].rotations /\ Waiting(r) \cap lease[k].groups = {}
    BY <1>2, <2>1 DEF Reserved, LiveFor
  <2> QED  BY <2>1, <2>2, <2>3 DEF Live, IsActive, Granted
<1>4. LeasesDisjoint'
  <2> SUFFICES ASSUME NEW j \in Asks, NEW k \in Asks, j # k, IsActive(j)', IsActive(k)'
               PROVE  /\ lease'[j].device # lease'[k].device
                      /\ lease'[j].aircraft # lease'[k].aircraft
                      /\ Live(j)' /\ Live(k)' =>
                           /\ lease'[j].groups \cap lease'[k].groups = {}
                           /\ lease'[j].rotations \cap lease'[k].rotations = {}
    BY DEF LeasesDisjoint
  <2>1. CASE j # ask /\ k # ask
    <3>1. /\ IsActive(j) /\ lease'[j] = lease[j] /\ (Live(j)' <=> Live(j))
          /\ IsActive(k) /\ lease'[k] = lease[k] /\ (Live(k)' <=> Live(k))
      BY <1>3, <2>1
    <3> QED  BY <3>1 DEF LeaseInv, LeasesDisjoint
  <2>2. CASE j = ask
    BY <1>1, <1>3, <2>2
  <2>3. CASE k = ask
    BY <1>1, <1>3, <2>3
  <2> QED  BY <2>1, <2>2, <2>3
<1>5. TurnIsFree'
  BY DEF GrantLease, TurnIsFree
<1> QED  BY <1>4, <1>5

\* What the call does to leases: the one it confirms is consumed, or those it overrides end.
LEMMA Calling ==
  ASSUME TypeOK, NEW primary \in Groups, Call(primary)
  PROVE  /\ OnlyEnds /\ turn' = NONE
         /\ turn \in CallTurns /\ turn # NONE
         /\ turn.ask # NONE =>
              LeaseConfirms(turn.ask) /\ turn.ask \in Asks /\ lease' = Ended({turn.ask}, "CONSUMED")
         /\ turn.ask = NONE =>
              \A k \in Asks : Live(k)' => lease[k].groups \cap turn.groups = {}
<1>1. turn \in CallTurns /\ turn # NONE
  BY TurnTypes DEF Call
<1>2. CASE turn.ask # NONE
  <2>1. LeaseConfirms(turn.ask) /\ turn.ask \in Asks /\ lease' = Ended({turn.ask}, "CONSUMED")
    BY <1>1, <1>2 DEF Call, CallTurns
  <2>2. {turn.ask} \in SUBSET Asks /\ \A k \in {turn.ask} : Granted(k)
    BY <2>1 DEF LeaseConfirms, Live, IsActive
  <2>3. OnlyEnds
    BY <2>1, <2>2, EndedOnlyEnds DEF LeaseStates
  <2> QED  BY <1>1, <1>2, <2>1, <2>3 DEF Call
<1>3. CASE turn.ask = NONE
  <2> DEFINE K == Overridden(turn.groups)
  <2>1. lease' = Ended(K, "INVALIDATED")
    BY <1>3 DEF Call
  <2>2. K \in SUBSET Asks /\ \A k \in K : Granted(k)
    BY DEF Overridden, LiveNow, Live, IsActive
  <2>3. \A k \in LiveNow \ K : lease[k].groups \cap turn.groups = {}
    BY DEF Overridden
  <2> HIDE DEF K
  <2>4. OnlyEnds
    BY <2>1, <2>2, EndedOnlyEnds DEF LeaseStates
  <2>5. ASSUME NEW k \in Asks, Live(k)'
        PROVE  lease[k].groups \cap turn.groups = {}
    <3>1. lease'[k].status = "ACTIVE"
      BY <2>5 DEF Live, IsActive
    <3>2. k \notin K
      BY <2>1, <2>2, <3>1, EndedTyped DEF LeaseStates
    <3>3. lease'[k] = lease[k]
      BY <2>1, <2>2, <3>2, EndedTyped DEF LeaseStates
    <3>4. Live(k)
      BY <2>5, <3>3 DEF Live, IsActive, Granted
    <3> QED  BY <2>3, <3>2, <3>4 DEF LiveNow
  <2> QED  BY <1>1, <1>3, <2>4, <2>5 DEF Call
<1> QED  BY <1>2, <1>3

LEMMA Releasing ==
  ASSUME TypeOK, NEW d \in Devices, NEW k \in Asks, ReleaseLease(d, k)
  PROVE  /\ OnlyEnds
         /\ \A j \in Asks \ {k} : lease'[j] = lease[j]
         /\ lease'[k].status = IF lease[k].expired THEN "EXPIRED" ELSE "RELEASED"
<1> DEFINE status == IF lease[k].expired THEN "EXPIRED" ELSE "RELEASED"
<1>1. {k} \in SUBSET Asks /\ \A j \in {k} : Granted(j)
  BY DEF ReleaseLease, IsActive
<1>2. lease' = Ended({k}, status)
  BY DEF ReleaseLease
<1>3. status \in LeaseStates \ {"ACTIVE"}
  BY DEF LeaseStates
<1> HIDE DEF status
<1>4. OnlyEnds
  BY <1>1, <1>2, <1>3, EndedOnlyEnds
<1>5. (\A j \in Asks \ {k} : lease'[j] = lease[j]) /\ lease'[k].status = status
  BY <1>1, <1>2, <1>3, EndedOnlyEnds
<1> QED  BY <1>4, <1>5 DEF status

LEMMA TimingOut ==
  ASSUME TypeOK, NEW k \in Asks, LeaseTimesOut(k)
  PROVE  /\ OnlyEnds /\ turn' = turn
         /\ \A j \in Asks \ {k} : lease'[j] = lease[j]
         /\ lease'[k].expired
<1>1. Granted(k) /\ lease[k] \in Leases
  BY LeaseTypes DEF LeaseTimesOut, Live, IsActive
<1>2. /\ [lease[k] EXCEPT !.expired = TRUE] \in Leases
      /\ [lease[k] EXCEPT !.expired = TRUE].expired
  BY <1>1 DEF Leases
<1>3. /\ lease'[k] = [lease[k] EXCEPT !.expired = TRUE]
      /\ \A j \in Asks \ {k} : lease'[j] = lease[j]
  BY LeaseTypes DEF LeaseTimesOut
<1>4. OnlyEnds
  BY <1>1, <1>2, <1>3 DEF OnlyEnds
<1> QED  BY <1>2, <1>3, <1>4 DEF LeaseTimesOut

\* The steps that leave every lease alone and give nobody the turn of a lease request.
Aside == lease' = lease /\ (turn' = turn \/ turn' = NONE \/ turn'.kind = "CALL")

LEMMA AsideKeepsLeases ==
  ASSUME LeasesDisjoint, TurnIsFree, Aside
  PROVE  LeasesDisjoint' /\ TurnIsFree'
<1>1. \A k \in Asks : (Granted(k)' <=> Granted(k)) /\ (IsActive(k)' <=> IsActive(k))
                      /\ (Live(k)' <=> Live(k))
  BY DEF Aside, Granted, IsActive, Live
<1>2. LeasesDisjoint'
  BY <1>1 DEF LeasesDisjoint, Aside
<1>3. TurnIsFree'
  <2>1. CASE turn' = turn
    BY <2>1 DEF TurnIsFree, Aside, Granted, IsActive
  <2>2. CASE turn' = NONE
    BY <2>2 DEF TurnIsFree
  <2>3. CASE turn'.kind = "CALL"
    BY <2>3 DEF TurnIsFree
  <2> QED  BY <2>1, <2>2, <2>3 DEF Aside
<1> QED  BY <1>2, <1>3

LEMMA NextEnds ==
  ASSUME TypeOK, [Next]_vars
  PROVE  \/ \E d \in Devices, a \in Aircraft, k \in Asks : AskLease(d, a, k)
         \/ \E B \in SUBSET Rotations : GrantLease(B)
         \/ \E d \in Devices, k \in Asks : ReleaseLease(d, k)
         \/ \E primary \in Groups : Call(primary)
         \/ \E k \in Asks : LeaseTimesOut(k)
         \/ Aside
<1>1. CASE UNCHANGED vars
  BY <1>1 DEF vars, leaseVars, Aside
<1>2. ASSUME NEW d \in Devices, NEW k \in Asks, RepeatAsk(d, k) PROVE Aside
  BY <1>2 DEF RepeatAsk, Aside
<1>3. ASSUME NEW d \in Devices, NEW a \in Aircraft, NEW k \in Asks, ShowOwned(d, a, k)
      PROVE  Aside
  BY <1>3 DEF ShowOwned, Aside
<1>4. CASE GiveUp
  BY <1>4 DEF GiveUp, Aside
<1>5. ASSUME NEW d \in Devices, NEW a \in Aircraft, NEW G \in SUBSET Groups \ {{}},
             NEW k \in Asks \cup {NONE}, BeginCall(d, a, G, k)
      PROVE  Aside
  BY <1>5 DEF BeginCall, Aside
<1>6. CASE RenewClaim
  <2>1. turn \in CallTurns
    BY <1>6, TurnTypes DEF RenewClaim
  <2>2. turn'.kind = "CALL"
    BY <1>6, <2>1 DEF RenewClaim, CallTurns
  <2> QED  BY <1>6, <2>2 DEF RenewClaim, Aside
<1>7. ASSUME NEW g \in Groups, LeaveQueue(g) PROVE Aside
  BY <1>7 DEF LeaveQueue, Command, Aside
<1>8. ASSUME NEW g \in Groups, NEW r \in Rotations, Queue(g, r) PROVE Aside
  BY <1>8 DEF Queue, Command, Aside
<1>9. ASSUME NEW a \in Aircraft, SetAircraft(a) PROVE Aside
  BY <1>9 DEF SetAircraft, Command, Aside
<1>10. CASE ClaimStep /\ UNCHANGED leaseVars
  BY <1>10 DEF leaseVars, Aside
<1> QED
  BY <1>1, <1>2, <1>3, <1>4, <1>5, <1>6, <1>7, <1>8, <1>9, <1>10 DEF Next

LEMMA NextKeepsLeases ==
  ASSUME LeaseInv, [Next]_vars
  PROVE  LeaseInv'
<1>0. TypeOK /\ LeasesDisjoint /\ TurnIsFree
  BY DEF LeaseInv
<1>1. ASSUME OnlyEnds, turn' = NONE \/ turn' = turn
      PROVE  LeasesDisjoint' /\ TurnIsFree'
  <2>1. LeasesDisjoint'
    BY <1>0, <1>1, EndingKeepsDisjoint
  <2>2. CASE turn' = NONE
    BY <2>1, <2>2 DEF TurnIsFree
  <2>3. CASE turn' = turn /\ turn # NONE /\ turn.kind = "LEASE"
    <3>1. turn.ask \in Asks
      BY <1>0, <2>3, TurnTypes DEF LeaseTurns
    <3>2. ~Granted(turn.ask)'
      BY <1>0, <1>1, <2>3, <3>1, EndingKeepsDisjoint DEF TurnIsFree
    <3>3. ASSUME NEW j \in Asks, IsActive(j)'
          PROVE  IF j \in turn.over THEN lease'[j].expired
                 ELSE lease'[j].device # turn.device /\ lease'[j].aircraft # turn.aircraft
      <4>1. /\ IsActive(j) /\ lease'[j].device = lease[j].device
            /\ lease'[j].aircraft = lease[j].aircraft
            /\ lease[j].expired => lease'[j].expired
        BY <1>0, <1>1, <3>3, EndingKeepsDisjoint
      <4> QED  BY <1>0, <2>3, <4>1 DEF TurnIsFree
    <3> QED  BY <2>1, <2>3, <3>2, <3>3 DEF TurnIsFree, Granted
  <2>4. CASE turn' = turn /\ ~(turn # NONE /\ turn.kind = "LEASE")
    BY <2>1, <2>4 DEF TurnIsFree
  <2> QED  BY <1>1, <2>2, <2>3, <2>4
<1>2. ASSUME NEW d \in Devices, NEW k \in Asks, ReleaseLease(d, k)
      PROVE  LeasesDisjoint' /\ TurnIsFree'
  <2>1. OnlyEnds /\ turn' = turn
    BY <1>0, <1>2, Releasing DEF ReleaseLease
  <2> QED  BY <1>1, <2>1
<1>3. ASSUME NEW primary \in Groups, Call(primary)
      PROVE  LeasesDisjoint' /\ TurnIsFree'
  BY <1>0, <1>1, <1>3, Calling
<1>4. ASSUME NEW k \in Asks, LeaseTimesOut(k)
      PROVE  LeasesDisjoint' /\ TurnIsFree'
  BY <1>0, <1>1, <1>4, TimingOut
<1>5. LeasesDisjoint' /\ TurnIsFree'
  BY <1>0, <1>2, <1>3, <1>4, NextEnds, AskKeepsLeases, GrantKeepsLeases, AsideKeepsLeases
<1> QED  BY <1>0, <1>5, NextTyped DEF LeaseInv

LEMMA LeaseInvariant == Spec => []LeaseInv
<1>1. Init => LeaseInv
  <2> SUFFICES ASSUME Init PROVE LeaseInv
    OBVIOUS
  <2>1. \A k \in Asks : ~Granted(k)
    BY DEF Init, Granted
  <2>2. LeasesDisjoint
    BY <2>1 DEF LeasesDisjoint, IsActive
  <2>3. TurnIsFree
    BY DEF Init, TurnIsFree
  <2> QED  BY <2>2, <2>3, InitTyped DEF LeaseInv
<1>2. LeaseInv /\ [Next]_vars => LeaseInv'
  BY NextKeepsLeases
<1> QED  BY <1>1, <1>2, PTL DEF Spec

-----------------------------------------------------------------------------
\* What the invariant gives.

\* Two places never prepare the same flight: no two active leases are of one device or one
\* aircraft, and those that are live share no group and no rotation, however long a request
\* waits for the forecast and whatever other commands do to groups and aircraft meanwhile.
THEOREM LeasesStayDisjoint == Spec => []LeasesDisjoint
<1>1. LeaseInv => LeasesDisjoint
  BY DEF LeaseInv
<1> QED  BY <1>1, LeaseInvariant, PTL

LEMMA CallEndsLeases ==
  ASSUME LeaseInv, NEW primary \in Groups, Call(primary), NEW k \in Asks, Live(k)'
  PROVE  lease[k].groups \cap turn.groups = {}
<1>0. TypeOK /\ LeasesDisjoint
  BY DEF LeaseInv
<1>1. CASE turn.ask = NONE
  BY <1>0, <1>1, Calling
<1>2. CASE turn.ask # NONE
  <2>1. LeaseConfirms(turn.ask) /\ turn.ask \in Asks /\ lease' = Ended({turn.ask}, "CONSUMED")
    BY <1>0, <1>2, Calling
  <2>2. Live(turn.ask) /\ turn.groups = lease[turn.ask].groups
    BY <2>1 DEF LeaseConfirms
  <2>3. {turn.ask} \in SUBSET Asks /\ \A j \in {turn.ask} : Granted(j)
    BY <2>1, <2>2 DEF Live, IsActive
  <2>4. lease'[k].status = "ACTIVE"
    BY DEF Live, IsActive
  <2>5. k # turn.ask /\ lease'[k] = lease[k]
    BY <1>0, <2>1, <2>3, <2>4, EndedOnlyEnds DEF LeaseStates
  <2>6. Live(k)
    BY <2>5 DEF Live, IsActive, Granted
  <2>7. lease[k].groups \cap lease[turn.ask].groups = {}
    BY <1>0, <2>1, <2>2, <2>5, <2>6 DEF LeasesDisjoint, Live
  <2> QED  BY <2>2, <2>7
<1> QED  BY <1>1, <1>2

\* A successful call leaves no live lease, the one it confirmed or any other, on a group it
\* named.
THEOREM NoLeaseOutlivesTheCall == Spec => CallsEndLeases
<1>1. LeaseInv /\ [Next]_vars =>
        [\A primary \in Groups : Call(primary) =>
           \A k \in Asks : Live(k)' => lease[k].groups \cap turn.groups = {}]_vars
  BY CallEndsLeases
<1> QED  BY <1>1, LeaseInvariant, PTL DEF Spec, CallsEndLeases

\* What may end a live lease.
MayEnd(k) ==
  \/ lease'[k].expired
  \/ lease'[k].status = "RELEASED" /\ shown'[lease[k].device] = NONE
  \/ lease'[k].status = "INVALIDATED" /\ ~Relevant(k)
  \/ turn # NONE /\ turn.kind = "CALL" /\ lease[k].groups \cap turn.groups # {}

LEMMA LiveKept ==
  ASSUME LeaseInv, [Next]_vars, NEW k \in Asks, Live(k), ~Live(k)'
  PROVE  MayEnd(k)
<1>0. TypeOK /\ lease'[k] # lease[k]
  BY DEF LeaseInv, Live, IsActive, Granted
<1>1. ASSUME NEW d \in Devices, NEW a \in Aircraft, NEW q \in Asks, AskLease(d, a, q)
      PROVE  MayEnd(k)
  <2> DEFINE own == {j \in LiveNow : OwnedBy(j, d)}
  <2>1. own \in SUBSET Asks /\ \A j \in own : Granted(j)
    BY DEF LiveNow, Live, IsActive
  <2>2. lease' = Ended(own, "INVALIDATED") /\ \A j \in own : ~Relevant(j)
    BY <1>1 DEF AskLease
  <2> HIDE DEF own
  <2>3. k \in own /\ lease'[k].status = "INVALIDATED"
    BY <1>0, <2>1, <2>2, EndedOnlyEnds DEF LeaseStates
  <2> QED  BY <2>2, <2>3 DEF MayEnd
<1>2. ASSUME NEW B \in SUBSET Rotations, GrantLease(B)
      PROVE  MayEnd(k)
  <2>1. turn \in LeaseTurns /\ ~Granted(turn.ask)
    BY <1>2, Granting
  <2>2. turn.kind = "LEASE" /\ turn # NONE /\ turn.ask \in Asks /\ k # turn.ask
    BY <1>2, <2>1 DEF LeaseTurns, GrantLease, Live, IsActive
  <2>3. k \in turn.over => lease[k].expired
    BY <2>2 DEF LeaseInv, TurnIsFree, Live
  <2>4. k \notin RunOut
    BY <2>3 DEF RunOut, Live
  <2>5. RunOut \in SUBSET Asks /\ \A j \in RunOut : Granted(j)
    BY DEF RunOut, IsActive
  <2>6. Ended(RunOut, "EXPIRED")[k] = lease[k]
    BY <1>0, <2>4, <2>5, EndedTyped DEF LeaseStates
  <2>7. lease'[k] = lease[k]
    BY <1>2, <2>2, <2>6 DEF GrantLease, Ended
  <2> QED  BY <1>0, <2>7
<1>3. ASSUME NEW d \in Devices, NEW q \in Asks, ReleaseLease(d, q)
      PROVE  MayEnd(k)
  <2>1. k = q /\ lease'[k].status = "RELEASED"
    BY <1>0, <1>3, Releasing DEF Live
  <2>2. shown'[d] = NONE /\ lease[k].device = d
    BY <1>0, <1>3, <2>1 DEF ReleaseLease, OwnedBy, TypeOK
  <2> QED  BY <2>1, <2>2 DEF MayEnd
<1>4. ASSUME NEW primary \in Groups, Call(primary)
      PROVE  MayEnd(k)
  <2>1. turn # NONE /\ turn.kind = "CALL" /\ primary \in turn.groups
    BY <1>4 DEF Call
  <2>2. CASE turn.ask # NONE
    <3>1. LeaseConfirms(turn.ask) /\ turn.ask \in Asks /\ lease' = Ended({turn.ask}, "CONSUMED")
      BY <1>0, <1>4, <2>2, Calling
    <3>2. turn.groups = lease[turn.ask].groups
      BY <3>1 DEF LeaseConfirms
    <3>3. k = turn.ask
      BY <1>0, <3>1 DEF Ended
    <3> QED  BY <2>1, <3>2, <3>3 DEF MayEnd
  <2>3. CASE turn.ask = NONE
    <3>1. lease' = Ended(Overridden(turn.groups), "INVALIDATED")
      BY <1>4, <2>3 DEF Call
    <3>2. k \in Overridden(turn.groups)
      BY <1>0, <3>1 DEF Ended
    <3> QED  BY <2>1, <3>2 DEF MayEnd, Overridden
  <2> QED  BY <2>2, <2>3
<1>5. ASSUME NEW q \in Asks, LeaseTimesOut(q)
      PROVE  MayEnd(k)
  BY <1>0, <1>5, TimingOut DEF MayEnd
<1>6. ~Aside
  BY <1>0 DEF Aside
<1> QED  BY <1>0, <1>1, <1>2, <1>3, <1>4, <1>5, <1>6, NextEnds

\* A proposal is stable: until it runs out, a lease is ended only by its own device, by a
\* call that names one of its groups, or because its aircraft or groups no longer fit it.
THEOREM LeasesAreStable == Spec => LeaseKept
<1>1. LeaseInv /\ [Next]_vars =>
        [\A k \in Asks : Live(k) /\ ~Live(k)' =>
           \/ lease'[k].expired
           \/ lease'[k].status = "RELEASED" /\ shown'[lease[k].device] = NONE
           \/ lease'[k].status = "INVALIDATED" /\ ~Relevant(k)
           \/ turn # NONE /\ turn.kind = "CALL" /\ lease[k].groups \cap turn.groups # {}]_vars
  BY LiveKept DEF MayEnd
<1> QED  BY <1>1, LeaseInvariant, PTL DEF Spec, LeaseKept

===============================================================================
