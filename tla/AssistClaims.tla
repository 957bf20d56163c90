----------------------------- MODULE AssistClaims -----------------------------
(***************************************************************************)
(* Who looks after which aircraft on the flight line: AssistClaimService.  *)
(* A request does not wait in the command tail; it reads the claim of the  *)
(* aircraft and writes it in a later call to D1, so that the requests of   *)
(* several devices interleave between the two.  A claim lasts 30 minutes;  *)
(* a request takes less, and goes by the time at which it arrived.         *)
(***************************************************************************)
EXTENDS Naturals, FiniteSets

CONSTANTS Devices,      \* signed-in devices ...
          OperatorOf,   \* ... and the account each is signed in with
          Aircraft,
          NONE,         \* nothing
          MaxClaimAsks  \* bound: claim requests

Rows == [owner : {OperatorOf[d] : d \in Devices}, revision : Nat \ {0}, expired : BOOLEAN]

ASSUME ClaimConstants == MaxClaimAsks \in Nat /\ NONE \notin Rows

VARIABLES
  claim,     \* D1: the row of each aircraft
  request,   \* per device, the claim request under way
  conflict,  \* per device, the claim of another the last answer showed
  holds,     \* per device, the aircraft the last answer said it looks after
  claimAsks  \* counter of the bound

claimVars == <<claim, request, conflict, holds, claimAsks>>

NoRequest == [stage |-> "none"]
HasClaim(a) == claim[a] # NONE
OwnerIs(a, d) == HasClaim(a) /\ claim[a].owner = OperatorOf[d]
OwnLive(a, d) == OwnerIs(a, d) /\ ~claim[a].expired

ClaimInit ==
  /\ claim = [a \in Aircraft |-> NONE]
  /\ request = [d \in Devices |-> NoRequest]
  /\ conflict = [d \in Devices |-> NONE]
  /\ holds = [d \in Devices |-> NONE]
  /\ claimAsks = 0

\* A tap on "Übernehmen", the confirmed takeover of the claim shown, or a release.
AskClaim(d) ==
  /\ request[d].stage = "none"
  /\ claimAsks < MaxClaimAsks
  /\ claimAsks' = claimAsks + 1
  /\ \E a \in Aircraft, kind \in {"ACQUIRE_OR_RENEW", "TAKEOVER", "RELEASE"} :
       /\ kind = "TAKEOVER" => conflict[d] # NONE /\ conflict[d].aircraft = a
       /\ request' = [request EXCEPT ![d] =
            [stage |-> "asked", kind |-> kind, aircraft |-> a,
             expected |-> IF kind = "TAKEOVER" THEN conflict[d].revision ELSE 0]]
  /\ UNCHANGED <<claim, conflict, holds>>

\* The first call to D1: the row as it is, and which rows are over by now.
ReadClaim(d) ==
  LET r == request[d]  row == claim[r.aircraft] IN
  /\ r.stage = "asked"
  /\ request' = [request EXCEPT ![d] =
       [stage |-> "read", kind |-> r.kind, aircraft |-> r.aircraft, expected |-> r.expected,
        row |-> row,
        over |-> {a \in Aircraft : HasClaim(a) /\ claim[a].expired}]]
  /\ UNCHANGED <<claim, conflict, holds, claimAsks>>

Active(r) == r.row # NONE /\ ~r.row.expired
Mine(d) == Active(request[d]) /\ request[d].row.owner = OperatorOf[d]

\* The row the request read is still the one in the table.
SameRevision(r) == HasClaim(r.aircraft) /\ claim[r.aircraft].revision = r.row.revision

\* Mutant: the claim belongs to the device, not to the account.
RowOfDevice(d, revision) == [owner |-> d, revision |-> revision, expired |-> FALSE]
Row(d, revision) == [owner |-> OperatorOf[d], revision |-> revision, expired |-> FALSE]
Told(d, a) == holds' = [holds EXCEPT ![d] = a] /\ conflict' = [conflict EXCEPT ![d] = NONE]
Done(d) == request' = [request EXCEPT ![d] = NoRequest]

\* DELETE by the owner; anybody else is answered as if nothing had been there.
Release(d) ==
  LET r == request[d]  a == r.aircraft IN
  /\ r.stage = "read" /\ r.kind = "RELEASE"
  /\ claim' = IF Mine(d) /\ SameRevision(r) /\ OwnerIs(a, d)
              THEN [claim EXCEPT ![a] = NONE] ELSE claim
  /\ Told(d, NONE) /\ Done(d)
  /\ UNCHANGED claimAsks

\* The owner asks again: the claim lasts longer, under the revision read.
Renew(d) ==
  LET r == request[d]  a == r.aircraft IN
  /\ r.stage = "read" /\ r.kind # "RELEASE" /\ Mine(d)
  /\ claim' = IF SameRevision(r) /\ OwnerIs(a, d)
              THEN [claim EXCEPT ![a] = Row(d, r.row.revision + 1)] ELSE claim
  /\ Told(d, a) /\ Done(d)
  /\ UNCHANGED claimAsks

\* Another one holds it: only a takeover of the very revision read goes on.
Confirmed(r) == r.kind = "TAKEOVER" /\ r.expected = r.row.revision

ShowConflict(d) ==
  LET r == request[d]  a == r.aircraft IN
  /\ r.stage = "read" /\ r.kind # "RELEASE" /\ Active(r) /\ ~Mine(d) /\ ~Confirmed(r)
  /\ conflict' = [conflict EXCEPT ![d] = [aircraft |-> a, revision |-> r.row.revision]]
  /\ holds' = [holds EXCEPT ![d] = NONE]
  /\ Done(d)
  /\ UNCHANGED <<claim, claimAsks>>

\* UNIQUE (operation_day_id, operator_account_id).
HoldsAnother(d, a, rows) == \E b \in Aircraft \ {a} : rows[b] # NONE /\ rows[b].owner = OperatorOf[d]

TakeOver(d) ==
  LET r == request[d]  a == r.aircraft IN
  /\ r.stage = "read" /\ Active(r) /\ ~Mine(d) /\ Confirmed(r)
  /\ ~(SameRevision(r) /\ HoldsAnother(d, a, claim))
  /\ claim' = IF SameRevision(r) THEN [claim EXCEPT ![a] = Row(d, r.row.revision + 1)] ELSE claim
  /\ Told(d, a) /\ Done(d)
  /\ UNCHANGED claimAsks

\* Nobody held it: the own rows that are over go, a row is inserted or, when there is
\* one that is over, replaced.  A row written in between stays, and the answer is yes.
Over(r, a) == a \in r.over /\ claim[a].expired
Cleared(d) == [b \in Aircraft |-> IF OwnerIs(b, d) /\ Over(request[d], b) THEN NONE ELSE claim[b]]
\* Mutant: the upsert has lost its WHERE.
AlwaysWritable(rows, r) == TRUE
Writable(rows, r) == rows[r.aircraft] = NONE \/ Over(r, r.aircraft)

Acquire(d) ==
  LET r == request[d]  a == r.aircraft  rows == Cleared(d) IN
  /\ r.stage = "read" /\ r.kind # "RELEASE" /\ ~Active(r)
  /\ Writable(rows, r) => ~HoldsAnother(d, a, rows)
  /\ claim' = IF Writable(rows, r)
              THEN [rows EXCEPT ![a] = Row(d, IF r.row = NONE THEN 1 ELSE r.row.revision + 1)]
              ELSE rows
  /\ Told(d, a) /\ Done(d)
  /\ UNCHANGED claimAsks

\* The batch fails on the account's other claim, or the call to D1 is lost.
FailClaim(d) ==
  /\ request[d].stage = "read"
  /\ Done(d)
  /\ UNCHANGED <<claim, conflict, holds, claimAsks>>

\* Thirty minutes without a sign of the owner.
ClaimTimesOut(a) ==
  /\ HasClaim(a) /\ ~claim[a].expired
  /\ claim' = [claim EXCEPT ![a].expired = TRUE]
  /\ UNCHANGED <<request, conflict, holds, claimAsks>>

ClaimStep ==
  \/ \E d \in Devices :
       \/ AskClaim(d) \/ ReadClaim(d) \/ Release(d) \/ Renew(d) \/ ShowConflict(d)
       \/ TakeOver(d) \/ Acquire(d) \/ FailClaim(d)
  \/ \E a \in Aircraft : ClaimTimesOut(a)

ClaimSpec == ClaimInit /\ [][ClaimStep]_claimVars

(***************************************************************************)
(* Properties                                                              *)
(***************************************************************************)

\* Every variable holds what the code may store in it.
Kinds == {"ACQUIRE_OR_RENEW", "TAKEOVER", "RELEASE"}
ClaimTypeOK ==
  /\ claim \in [Aircraft -> Rows \cup {NONE}]
  /\ request \in [Devices -> {NoRequest} \cup
       [stage : {"asked"}, kind : Kinds, aircraft : Aircraft, expected : Nat] \cup
       [stage : {"read"}, kind : Kinds, aircraft : Aircraft, expected : Nat,
        row : Rows \cup {NONE}, over : SUBSET Aircraft]]
  /\ conflict \in [Devices -> {NONE} \cup [aircraft : Aircraft, revision : Nat \ {0}]]
  /\ holds \in [Devices -> Aircraft \cup {NONE}]
  /\ claimAsks \in Nat

\* Nobody loses an aircraft by accident: a claim that is not over passes to another
\* account only by a takeover of its revision, and ends only by its own account, or
\* with all others when no request does anything: then the installation is reset.
ClaimsChangeHands ==
  [][\A a \in Aircraft : HasClaim(a) /\ ~claim[a].expired =>
       \/ request' = request /\ claim' = [b \in Aircraft |-> NONE]
       \/ claim'[a] # NONE /\ claim'[a].owner = claim[a].owner
       \/ \E d \in Devices :
            /\ request[d] # NoRequest /\ request'[d] = NoRequest /\ request[d].aircraft = a
            /\ IF claim'[a] = NONE
               THEN request[d].kind = "RELEASE" /\ OperatorOf[d] = claim[a].owner
               ELSE request[d].kind = "TAKEOVER" /\ request[d].expected = claim[a].revision]_claimVars
===============================================================================
