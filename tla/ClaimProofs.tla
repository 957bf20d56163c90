------------------------------ MODULE ClaimProofs ------------------------------
(***************************************************************************)
(* What one step of AssistClaims preserves, for every number of devices    *)
(* and aircraft.  InstallationProofs and LeaseProofs build on it: the      *)
(* claims run inside both.                                                 *)
(***************************************************************************)
EXTENDS AssistClaims, TLAPS

-----------------------------------------------------------------------------
\* The claims.

AskedRequests == [stage : {"asked"}, kind : Kinds, aircraft : Aircraft, expected : Nat]
ReadRequests == [stage : {"read"}, kind : Kinds, aircraft : Aircraft, expected : Nat,
                 row : Rows \cup {NONE}, over : SUBSET Aircraft]
Requests == {NoRequest} \cup AskedRequests \cup ReadRequests
Conflicts == [aircraft : Aircraft, revision : Nat \ {0}]

LEMMA ClaimTypes ==
  ClaimTypeOK <=>
    /\ claim \in [Aircraft -> Rows \cup {NONE}]
    /\ request \in [Devices -> Requests]
    /\ conflict \in [Devices -> {NONE} \cup Conflicts]
    /\ holds \in [Devices -> Aircraft \cup {NONE}]
    /\ claimAsks \in Nat
  BY DEF ClaimTypeOK, Requests, AskedRequests, ReadRequests, Conflicts

LEMMA StageTypes ==
  ASSUME NEW r \in Requests
  PROVE  /\ r.stage = "asked" => r \in AskedRequests
         /\ r.stage = "read" => r \in ReadRequests
         /\ r # NoRequest <=> r.stage # "none"
  BY DEF Requests, AskedRequests, ReadRequests, NoRequest

LEMMA RowTypes ==
  ASSUME NEW d \in Devices, NEW n \in Nat \ {0}
  PROVE  /\ Row(d, n) \in Rows /\ Row(d, n) # NONE
         /\ Row(d, n).owner = OperatorOf[d]
<1>1. Row(d, n) \in Rows /\ Row(d, n).owner = OperatorOf[d]
  BY DEF Row, Rows
<1> QED  BY <1>1, ClaimConstants

LEMMA DoneTyped ==
  ASSUME ClaimTypeOK, NEW d \in Devices, Done(d)
  PROVE  request' \in [Devices -> Requests] /\ request'[d] = NoRequest
  BY ClaimTypes DEF Done, Requests

LEMMA ToldTyped ==
  ASSUME ClaimTypeOK, NEW d \in Devices, NEW a \in Aircraft \cup {NONE}, Told(d, a)
  PROVE  /\ conflict' \in [Devices -> {NONE} \cup Conflicts]
         /\ holds' \in [Devices -> Aircraft \cup {NONE}]
  BY ClaimTypes DEF Told

\* What the request has read, once it has.
LEMMA ReadTypes ==
  ASSUME ClaimTypeOK, NEW d \in Devices, request[d].stage = "read"
  PROVE  /\ request[d] \in ReadRequests /\ request[d] # NoRequest
         /\ request[d].aircraft \in Aircraft /\ request[d].kind \in Kinds
         /\ request[d].row \in Rows \cup {NONE}
         /\ request[d].row # NONE => request[d].row.revision \in Nat \ {0}
<1>1. request[d] \in ReadRequests /\ request[d] # NoRequest
  BY ClaimTypes, StageTypes
<1> QED  BY <1>1 DEF ReadRequests, Rows

LEMMA ClaimStepTyped ==
  ASSUME ClaimTypeOK, ClaimStep
  PROVE  ClaimTypeOK'
<1>0. /\ claim \in [Aircraft -> Rows \cup {NONE}]
      /\ request \in [Devices -> Requests]
      /\ conflict \in [Devices -> {NONE} \cup Conflicts]
      /\ holds \in [Devices -> Aircraft \cup {NONE}]
      /\ claimAsks \in Nat
  BY ClaimTypes
<1>1. ASSUME /\ claim' \in [Aircraft -> Rows \cup {NONE}]
             /\ request' \in [Devices -> Requests]
             /\ conflict' \in [Devices -> {NONE} \cup Conflicts]
             /\ holds' \in [Devices -> Aircraft \cup {NONE}]
             /\ claimAsks' \in Nat
      PROVE  ClaimTypeOK'
  BY <1>1 DEF ClaimTypeOK, Requests, AskedRequests, ReadRequests, Conflicts
<1>2. ASSUME NEW d \in Devices, AskClaim(d) PROVE ClaimTypeOK'
  <2>1. PICK a \in Aircraft, kind \in Kinds :
          /\ kind = "TAKEOVER" => conflict[d] # NONE /\ conflict[d].aircraft = a
          /\ request' = [request EXCEPT ![d] =
               [stage |-> "asked", kind |-> kind, aircraft |-> a,
                expected |-> IF kind = "TAKEOVER" THEN conflict[d].revision ELSE 0]]
    BY <1>2 DEF AskClaim, Kinds
  <2>2. kind = "TAKEOVER" => conflict[d].revision \in Nat
    BY <1>0, <2>1 DEF Conflicts
  <2>3. request' \in [Devices -> Requests]
    BY <1>0, <2>1, <2>2 DEF Requests, AskedRequests
  <2> QED  BY <1>0, <1>1, <1>2, <2>3 DEF AskClaim
<1>3. ASSUME NEW d \in Devices, ReadClaim(d) PROVE ClaimTypeOK'
  <2> DEFINE q == [stage |-> "read", kind |-> request[d].kind, aircraft |-> request[d].aircraft,
                   expected |-> request[d].expected, row |-> claim[request[d].aircraft],
                   over |-> {a \in Aircraft : HasClaim(a) /\ claim[a].expired}]
  <2>1. request[d] \in AskedRequests
    BY <1>0, <1>3, StageTypes DEF ReadClaim
  <2>2. q \in ReadRequests
    BY <1>0, <2>1 DEF AskedRequests, ReadRequests
  <2>3. request' = [request EXCEPT ![d] = q]
    BY <1>3 DEF ReadClaim
  <2> HIDE DEF q
  <2>4. request' \in [Devices -> Requests]
    BY <1>0, <2>2, <2>3 DEF Requests
  <2> QED  BY <1>0, <1>1, <1>3, <2>4 DEF ReadClaim
<1>4. ASSUME NEW d \in Devices, Release(d) PROVE ClaimTypeOK'
  <2>1. claim' \in [Aircraft -> Rows \cup {NONE}]
    BY <1>0, <1>4 DEF Release
  <2> QED  BY <1>0, <1>1, <1>4, <2>1, DoneTyped, ToldTyped DEF Release
<1>5. ASSUME NEW d \in Devices, Renew(d) PROVE ClaimTypeOK'
  <2>1. request[d].aircraft \in Aircraft /\ request[d].row.revision + 1 \in Nat \ {0}
    BY <1>5, ReadTypes DEF Renew, Mine, Active
  <2>2. Row(d, request[d].row.revision + 1) \in Rows
    BY <2>1, RowTypes
  <2>3. claim' \in [Aircraft -> Rows \cup {NONE}]
    BY <1>0, <1>5, <2>1, <2>2 DEF Renew
  <2> QED  BY <1>0, <1>1, <1>5, <2>1, <2>3, DoneTyped, ToldTyped DEF Renew
<1>6. ASSUME NEW d \in Devices, ShowConflict(d) PROVE ClaimTypeOK'
  <2>1. [aircraft |-> request[d].aircraft, revision |-> request[d].row.revision] \in Conflicts
    BY <1>6, ReadTypes DEF ShowConflict, Active, Conflicts
  <2>2. conflict' \in [Devices -> {NONE} \cup Conflicts]
    BY <1>0, <1>6, <2>1 DEF ShowConflict
  <2>3. holds' \in [Devices -> Aircraft \cup {NONE}]
    BY <1>0, <1>6 DEF ShowConflict
  <2> QED  BY <1>0, <1>1, <1>6, <2>2, <2>3, DoneTyped DEF ShowConflict
<1>7. ASSUME NEW d \in Devices, TakeOver(d) PROVE ClaimTypeOK'
  <2>1. request[d].aircraft \in Aircraft /\ request[d].row.revision + 1 \in Nat \ {0}
    BY <1>7, ReadTypes DEF TakeOver, Active
  <2>2. Row(d, request[d].row.revision + 1) \in Rows
    BY <2>1, RowTypes
  <2>3. claim' \in [Aircraft -> Rows \cup {NONE}]
    BY <1>0, <1>7, <2>1, <2>2 DEF TakeOver
  <2> QED  BY <1>0, <1>1, <1>7, <2>1, <2>3, DoneTyped, ToldTyped DEF TakeOver
<1>8. ASSUME NEW d \in Devices, Acquire(d) PROVE ClaimTypeOK'
  <2> DEFINE n == IF request[d].row = NONE THEN 1 ELSE request[d].row.revision + 1
  <2>1. request[d].aircraft \in Aircraft /\ n \in Nat \ {0}
    BY <1>8, ReadTypes DEF Acquire
  <2>2. Row(d, n) \in Rows
    BY <2>1, RowTypes
  <2>3. Cleared(d) \in [Aircraft -> Rows \cup {NONE}]
    BY <1>0 DEF Cleared
  <2>4. \/ claim' = [Cleared(d) EXCEPT ![request[d].aircraft] = Row(d, n)]
        \/ claim' = Cleared(d)
    BY <1>8 DEF Acquire
  <2> HIDE DEF n
  <2>5. claim' \in [Aircraft -> Rows \cup {NONE}]
    BY <2>2, <2>3, <2>4
  <2> QED  BY <1>0, <1>1, <1>8, <2>1, <2>5, DoneTyped, ToldTyped DEF Acquire
<1>9. ASSUME NEW d \in Devices, FailClaim(d) PROVE ClaimTypeOK'
  BY <1>0, <1>1, <1>9, DoneTyped DEF FailClaim
<1>10. ASSUME NEW a \in Aircraft, ClaimTimesOut(a) PROVE ClaimTypeOK'
  <2>1. claim[a] \in Rows
    BY <1>0, <1>10 DEF ClaimTimesOut, HasClaim
  <2>2. [claim[a] EXCEPT !.expired = TRUE] \in Rows
    BY <2>1 DEF Rows
  <2>3. claim' \in [Aircraft -> Rows \cup {NONE}]
    BY <1>0, <1>10, <2>2 DEF ClaimTimesOut
  <2> QED  BY <1>0, <1>1, <1>10, <2>3 DEF ClaimTimesOut
<1> QED
  BY <1>2, <1>3, <1>4, <1>5, <1>6, <1>7, <1>8, <1>9, <1>10 DEF ClaimStep

\* A claim changes hands as the screens say.
Passed(a) ==
  HasClaim(a) /\ ~claim[a].expired =>
    \/ request' = request /\ claim' = [b \in Aircraft |-> NONE]
    \/ claim'[a] # NONE /\ claim'[a].owner = claim[a].owner
    \/ \E d \in Devices :
         /\ request[d] # NoRequest /\ request'[d] = NoRequest /\ request[d].aircraft = a
         /\ IF claim'[a] = NONE
            THEN request[d].kind = "RELEASE" /\ OperatorOf[d] = claim[a].owner
            ELSE request[d].kind = "TAKEOVER" /\ request[d].expected = claim[a].revision

LEMMA ClaimStepPasses ==
  ASSUME ClaimTypeOK, ClaimStep, NEW a \in Aircraft
  PROVE  Passed(a)
<1>0. claim \in [Aircraft -> Rows \cup {NONE}]
  BY ClaimTypes
<1>1. SUFFICES ASSUME claim[a] # NONE, ~claim[a].expired
               PROVE  \/ claim'[a] # NONE /\ claim'[a].owner = claim[a].owner
                      \/ \E d \in Devices :
                           /\ request[d] # NoRequest /\ request'[d] = NoRequest
                           /\ request[d].aircraft = a
                           /\ IF claim'[a] = NONE
                              THEN request[d].kind = "RELEASE" /\ OperatorOf[d] = claim[a].owner
                              ELSE /\ request[d].kind = "TAKEOVER"
                                   /\ request[d].expected = claim[a].revision
  BY DEF Passed, HasClaim
<1>2. CASE claim'[a] = claim[a]
  BY <1>1, <1>2
<1>3. ASSUME NEW d \in Devices, Release(d), claim'[a] # claim[a]
      PROVE  /\ request[d] # NoRequest /\ request'[d] = NoRequest /\ request[d].aircraft = a
             /\ claim'[a] = NONE /\ request[d].kind = "RELEASE" /\ OperatorOf[d] = claim[a].owner
  <2>1. request[d] # NoRequest /\ request'[d] = NoRequest
    BY <1>3, ReadTypes, DoneTyped DEF Release
  <2>2. /\ claim' = [claim EXCEPT ![request[d].aircraft] = NONE]
        /\ OwnerIs(request[d].aircraft, d) /\ request[d].kind = "RELEASE"
    BY <1>3 DEF Release
  <2>3. request[d].aircraft = a /\ claim'[a] = NONE
    BY <1>0, <1>3, <2>2
  <2> QED  BY <2>1, <2>2, <2>3 DEF OwnerIs
<1>4. ASSUME NEW d \in Devices, Renew(d), claim'[a] # claim[a]
      PROVE  claim'[a] # NONE /\ claim'[a].owner = claim[a].owner
  <2>1. request[d].row.revision + 1 \in Nat \ {0}
    BY <1>4, ReadTypes DEF Renew, Mine, Active
  <2>2. /\ claim' = [claim EXCEPT ![request[d].aircraft] = Row(d, request[d].row.revision + 1)]
        /\ OwnerIs(request[d].aircraft, d)
    BY <1>4 DEF Renew
  <2>3. request[d].aircraft = a /\ claim'[a] = Row(d, request[d].row.revision + 1)
    BY <1>0, <1>4, <2>2
  <2> QED  BY <2>1, <2>2, <2>3, RowTypes DEF OwnerIs
<1>5. ASSUME NEW d \in Devices, TakeOver(d), claim'[a] # claim[a]
      PROVE  /\ request[d] # NoRequest /\ request'[d] = NoRequest /\ request[d].aircraft = a
             /\ claim'[a] # NONE
             /\ request[d].kind = "TAKEOVER" /\ request[d].expected = claim[a].revision
  <2>1. /\ request[d] # NoRequest /\ request'[d] = NoRequest
        /\ request[d].row.revision + 1 \in Nat \ {0}
    BY <1>5, ReadTypes, DoneTyped DEF TakeOver, Active
  <2>2. /\ claim' = [claim EXCEPT ![request[d].aircraft] = Row(d, request[d].row.revision + 1)]
        /\ SameRevision(request[d]) /\ Confirmed(request[d])
    BY <1>5 DEF TakeOver
  <2>3. request[d].aircraft = a /\ claim'[a] = Row(d, request[d].row.revision + 1)
    BY <1>0, <1>5, <2>2
  <2> QED  BY <2>1, <2>2, <2>3, RowTypes DEF SameRevision, Confirmed
<1>6. ASSUME NEW d \in Devices, Acquire(d) PROVE claim'[a] = claim[a]
  <2>1. Cleared(d)[a] = claim[a] /\ Cleared(d) \in [Aircraft -> Rows \cup {NONE}]
    BY <1>0, <1>1 DEF Cleared, Over
  <2>2. request[d].aircraft = a => ~Writable(Cleared(d), request[d])
    BY <1>1, <2>1 DEF Writable, Over
  <2> QED  BY <1>6, <2>1, <2>2 DEF Acquire
<1>7. ASSUME NEW b \in Aircraft, ClaimTimesOut(b)
      PROVE  claim'[a] # NONE /\ claim'[a].owner = claim[a].owner
  <2>1. claim[a] \in Rows
    BY <1>0, <1>1
  <2>2. claim'[a] = claim[a] \/ claim'[a] = [claim[a] EXCEPT !.expired = TRUE]
    BY <1>0, <1>7 DEF ClaimTimesOut
  <2>3. claim'[a] \in Rows /\ claim'[a].owner = claim[a].owner
    BY <2>1, <2>2 DEF Rows
  <2> QED  BY <2>3, ClaimConstants
<1>8. ASSUME NEW d \in Devices, AskClaim(d) \/ ReadClaim(d) \/ ShowConflict(d) \/ FailClaim(d)
      PROVE  claim'[a] = claim[a]
  BY <1>8 DEF AskClaim, ReadClaim, ShowConflict, FailClaim
<1> QED  BY <1>2, <1>3, <1>4, <1>5, <1>6, <1>7, <1>8 DEF ClaimStep

===============================================================================
