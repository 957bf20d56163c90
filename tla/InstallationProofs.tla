------------------------- MODULE InstallationProofs -------------------------
(***************************************************************************)
(* What FactoryReset and the claims of the flight line guarantee for every *)
(* number of devices, aircraft, phases, resets and browsers.               *)
(***************************************************************************)
EXTENDS FactoryReset, ClaimProofs

-----------------------------------------------------------------------------
\* The reset and the setup.

Running ==
  {NoReset, [stage |-> "cleanup"], [stage |-> "emptied"]} \cup
  [stage : {"deleting"}, next : Nat, all : BOOLEAN]

\* Nothing of an earlier installation is in the bucket ...
OnlyPresent == \A n \in bucket : n = root

\* ... since a cleanup has emptied it, while the receipt is the one of its reset: what
\* another reset leaves behind comes with another receipt.
EmptiedBeforeReceipt == \A c \in Resets : HasReceipt(c) /\ reset[c].stage = "emptied" => OnlyPresent

BucketInv == bucket \subseteq Nat \ {0} /\ EmptiedBeforeReceipt /\ DeletedMeansGone

InstallationInv ==
  /\ ClaimTypeOK
  /\ root \in Nat /\ born \in Nat
  /\ rows \in [PhaseNames -> SUBSET Nat]
  /\ reset \in [Resets -> Running]
  /\ receipt \in Receipts \cup {NONE}
  \* Without roots there is no row at all.
  /\ \A p \in PhaseNames : rows[p] \subseteq {root} \ {0}
  /\ claim # NoClaims => root = 1
  /\ NobodyLockedOut
  /\ BucketInv

LEMMA NoClaimsTyped == NoClaims \in [Aircraft -> Rows \cup {NONE}]
  BY DEF NoClaims

LEMMA DeletingTypes ==
  ASSUME InstallationInv, NEW c \in Resets, reset[c].stage = "deleting"
  PROVE  /\ reset[c].next \in Nat /\ reset[c].all \in BOOLEAN
         /\ [reset[c] EXCEPT !.next = @ + 1] \in Running
<1>1. reset[c] \in [stage : {"deleting"}, next : Nat, all : BOOLEAN]
  BY DEF InstallationInv, Running, NoReset
<1> QED  BY <1>1 DEF Running

\* A step that leaves root, bucket and receipt alone and takes no reset to "emptied".
LEMMA BucketRests ==
  ASSUME BucketInv, UNCHANGED <<root, bucket, receipt>>,
         \A c \in Resets : reset'[c].stage = "emptied" => reset[c].stage = "emptied"
  PROVE  BucketInv'
  BY DEF BucketInv, EmptiedBeforeReceipt, OnlyPresent, DeletedMeansGone, HasReceipt

\* One reset moves, and it does not become "emptied".
LEMMA ResetMoves ==
  ASSUME InstallationInv, NEW c \in Resets, NEW r, r.stage # "emptied",
         reset' = [reset EXCEPT ![c] = r], UNCHANGED <<root, bucket, receipt>>
  PROVE  BucketInv'
<1>1. \A d \in Resets : reset'[d].stage = "emptied" => reset[d].stage = "emptied"
  BY DEF InstallationInv
<1> QED  BY <1>1, BucketRests DEF InstallationInv

LEMMA ResetKeepsInstallation ==
  ASSUME InstallationInv, NEW c \in Resets,
         \/ \E deleteAllBackups \in BOOLEAN : BeginReset(c, deleteAllBackups)
         \/ DeletePhase(c) \/ FailReset(c) \/ FinishReset(c)
         \/ EmptyBackupBucket(c) \/ FinishR2Cleanup(c) \/ ReplayReset(c)
  PROVE  InstallationInv'
<1> USE DEF claimVars
<1>0. /\ reset \in [Resets -> Running] /\ receipt \in Receipts \cup {NONE}
      /\ rows \in [PhaseNames -> SUBSET Nat]
  BY DEF InstallationInv
<1>1. ASSUME NEW deleteAllBackups \in BOOLEAN, BeginReset(c, deleteAllBackups)
      PROVE  InstallationInv'
  <2>1. reset' \in [Resets -> Running]
    BY <1>0, <1>1 DEF BeginReset, Running
  <2>2. BucketInv'
    BY <1>1, ResetMoves DEF BeginReset
  <2> QED
    BY <1>1, <2>1, <2>2 DEF BeginReset, InstallationInv, ClaimTypeOK, NobodyLockedOut
<1>2. ASSUME DeletePhase(c) PROVE InstallationInv'
  <2>1. reset' \in [Resets -> Running]
    BY <1>0, <1>2, DeletingTypes DEF DeletePhase
  <2>2. /\ rows' \in [PhaseNames -> SUBSET Nat]
        /\ \A p \in PhaseNames : rows'[p] \subseteq rows[p]
    BY <1>0, <1>2 DEF DeletePhase
  <2>3. claim' = claim \/ claim' = NoClaims
    BY <1>2 DEF DeletePhase
  <2>4. ClaimTypeOK'
    BY <1>2, <2>3, NoClaimsTyped DEF DeletePhase, InstallationInv, ClaimTypeOK
  <2>5. \A p \in PhaseNames : rows'[p] \subseteq {root} \ {0}
    BY <2>2 DEF InstallationInv
  <2>6. BucketInv'
    <3>1. [reset[c] EXCEPT !.next = @ + 1].stage # "emptied"
      BY <1>2, DeletingTypes DEF DeletePhase, Running, NoReset
    <3> QED  BY <1>2, <3>1, ResetMoves DEF DeletePhase
  <2> QED
    BY <1>2, <2>1, <2>2, <2>3, <2>4, <2>5, <2>6
    DEF DeletePhase, InstallationInv, NobodyLockedOut, NoClaims
<1>3. ASSUME FailReset(c) PROVE InstallationInv'
  <2>1. reset' \in [Resets -> Running]
    BY <1>0, <1>3 DEF FailReset, Running
  <2>2. BucketInv'
    BY <1>3, ResetMoves DEF FailReset, NoReset
  <2> QED  BY <1>3, <2>1, <2>2 DEF FailReset, InstallationInv, ClaimTypeOK, NobodyLockedOut
<1>4. ASSUME FinishReset(c) PROVE InstallationInv'
  <2>1. receipt' \in Receipts
    BY <1>4, DeletingTypes DEF FinishReset, Receipts
  <2>2. reset' \in [Resets -> Running]
    BY <1>0, <1>4 DEF FinishReset, Running
  <2>3. \A p \in PhaseNames : rows'[p] = {}
    BY <1>4 DEF FinishReset, NoRowsHoldTheRoots
  <2>4. ClaimTypeOK'
    BY <1>4, NoClaimsTyped DEF FinishReset, InstallationInv, ClaimTypeOK
  <2>5. NobodyLockedOut'
    BY <2>1, ReceiptConstants DEF NobodyLockedOut
  <2>6. BucketInv'
    <3>1. /\ bucket' = bucket /\ receipt'.backups # "deleted" /\ receipt'.command = c
          /\ reset'[c].stage # "emptied"
      BY <1>0, <1>4 DEF FinishReset, NoReset
    <3> QED
      BY <3>1 DEF InstallationInv, BucketInv, EmptiedBeforeReceipt, DeletedMeansGone, HasReceipt
  <2> QED
    BY <1>4, <2>1, <2>2, <2>3, <2>4, <2>5, <2>6 DEF FinishReset, InstallationInv, NoClaims
<1>5. ASSUME EmptyBackupBucket(c) PROVE InstallationInv'
  <2>1. reset' \in [Resets -> Running]
    BY <1>0, <1>5 DEF EmptyBackupBucket, Running
  <2>2. BucketInv'
    BY <1>5 DEF EmptyBackupBucket, BucketInv, EmptiedBeforeReceipt, OnlyPresent, DeletedMeansGone
  <2> QED
    BY <1>5, <2>1, <2>2 DEF EmptyBackupBucket, InstallationInv, ClaimTypeOK, NobodyLockedOut
<1>6. ASSUME FinishR2Cleanup(c) PROVE InstallationInv'
  <2>1. reset' \in [Resets -> Running]
    BY <1>0, <1>6 DEF FinishR2Cleanup, Running
  <2>2. /\ receipt' \in Receipts \cup {NONE}
        /\ receipt # NONE => receipt' # NONE
    BY <1>0, <1>6, ReceiptConstants DEF FinishR2Cleanup, ReceiptToUpdate, HasReceipt, Receipts
  <2>3. BucketInv'
    <3>1. CASE HasReceipt(c)
      <4>1. OnlyPresent
        BY <1>6, <3>1 DEF FinishR2Cleanup, InstallationInv, BucketInv, EmptiedBeforeReceipt
      <4> QED
        BY <1>6, <4>1
        DEF FinishR2Cleanup, InstallationInv, BucketInv, EmptiedBeforeReceipt, OnlyPresent,
            DeletedMeansGone
    <3>2. CASE ~HasReceipt(c)
      BY <1>6, <3>2, ResetMoves DEF FinishR2Cleanup, ReceiptToUpdate, NoReset
    <3> QED  BY <3>1, <3>2
  <2> QED
    BY <1>6, <2>1, <2>2, <2>3 DEF FinishR2Cleanup, InstallationInv, ClaimTypeOK, NobodyLockedOut
<1>7. ASSUME ReplayReset(c) PROVE InstallationInv'
  <2>1. reset' \in [Resets -> Running]
    BY <1>0, <1>7 DEF ReplayReset, Running
  <2>2. BucketInv'
    BY <1>7, ResetMoves DEF ReplayReset
  <2> QED  BY <1>7, <2>1, <2>2 DEF ReplayReset, InstallationInv, ClaimTypeOK, NobodyLockedOut
<1> QED  BY <1>1, <1>2, <1>3, <1>4, <1>5, <1>6, <1>7

LEMMA SetupKeepsInstallation ==
  ASSUME InstallationInv, NEW b \in Browsers,
         \/ \E byGrant \in BOOLEAN : ReadSetup(b, byGrant)
         \/ CommitSetup(b) \/ FailSetup(b)
  PROVE  InstallationInv'
<1> USE DEF claimVars
<1>1. ASSUME NEW byGrant \in BOOLEAN, ReadSetup(b, byGrant) PROVE InstallationInv'
  BY <1>1, BucketRests DEF ReadSetup, InstallationInv, ClaimTypeOK, NobodyLockedOut
<1>2. ASSUME CommitSetup(b) PROVE InstallationInv'
  <2>1. root = 0 /\ root' = born + 1 /\ born' = born + 1 /\ claim' = claim /\ claim = NoClaims
    BY <1>2 DEF CommitSetup, SetupFree, InstallationInv
  <2>2. root' \in Nat /\ born' \in Nat /\ root' # 0
    BY <2>1 DEF InstallationInv
  <2>3. \A p \in PhaseNames : rows[p] = {}
    BY <2>1 DEF InstallationInv
  <2>4. /\ rows' \in [PhaseNames -> SUBSET Nat]
        /\ \A p \in PhaseNames : rows'[p] \subseteq {root'} \ {0}
    BY <1>2, <2>2, <2>3 DEF CommitSetup
  <2>5. receipt' \in Receipts \cup {NONE}
    BY <1>2, ReceiptConstants DEF CommitSetup, InstallationInv, HasReceipt, Receipts
  <2>6. claim' = [a \in Aircraft |-> NONE]
    BY <2>1 DEF NoClaims
  <2>7. BucketInv'
    \* What is left is of the present installation, and there is none: nothing is left.
    <3>1. /\ bucket' = bucket /\ reset' = reset
          /\ receipt' # NONE => receipt # NONE /\ receipt'.command = receipt.command
                                              /\ receipt'.backups = receipt.backups
      BY <1>2, ReceiptConstants DEF CommitSetup, InstallationInv, HasReceipt, Receipts
    <3>2. OnlyPresent => bucket = {}
      BY <2>1 DEF InstallationInv, BucketInv, OnlyPresent
    <3> QED
      BY <3>1, <3>2
      DEF InstallationInv, BucketInv, EmptiedBeforeReceipt, OnlyPresent, DeletedMeansGone, HasReceipt
  <2> QED
    BY <1>2, <2>2, <2>4, <2>5, <2>6, <2>7
    DEF CommitSetup, InstallationInv, ClaimTypeOK, NobodyLockedOut, NoClaims
<1>3. ASSUME FailSetup(b) PROVE InstallationInv'
  BY <1>3, BucketRests DEF FailSetup, InstallationInv, ClaimTypeOK, NobodyLockedOut
<1> QED  BY <1>1, <1>2, <1>3

LEMMA UseKeepsInstallation ==
  ASSUME InstallationInv,
         UseClaims \/ UseBucket \/ GrantRunsOut \/ \E p \in PhaseNames : WriteRows(p)
  PROVE  InstallationInv'
<1>1. ASSUME UseClaims PROVE InstallationInv'
  <2>1. ClaimTypeOK'
    BY <1>1, ClaimStepTyped DEF UseClaims, InstallationInv
  <2>2. claim' # NoClaims => root' = 1
    BY <1>1 DEF UseClaims, resetVars
  <2>3. BucketInv'
    BY <1>1, BucketRests DEF UseClaims, resetVars, InstallationInv
  <2> QED
    BY <1>1, <2>1, <2>2, <2>3 DEF UseClaims, resetVars, InstallationInv, NobodyLockedOut, NoClaims
<1>2. ASSUME GrantRunsOut PROVE InstallationInv'
  <2>1. receipt' \in Receipts
    BY <1>2 DEF GrantRunsOut, InstallationInv, Receipts
  <2>2. receipt' # NONE
    BY <2>1, ReceiptConstants
  <2>3. BucketInv'
    <3>1. /\ receipt # NONE /\ UNCHANGED <<root, bucket, reset>>
          /\ receipt'.command = receipt.command /\ receipt'.backups = receipt.backups
      BY <1>2, ReceiptConstants DEF GrantRunsOut, InstallationInv, Receipts
    <3> QED
      BY <3>1
      DEF InstallationInv, BucketInv, EmptiedBeforeReceipt, OnlyPresent, DeletedMeansGone, HasReceipt
  <2> QED
    BY <1>2, <2>1, <2>2, <2>3 DEF GrantRunsOut, claimVars, InstallationInv, ClaimTypeOK, NobodyLockedOut
<1>3. ASSUME NEW p \in PhaseNames, WriteRows(p) PROVE InstallationInv'
  <2>1. /\ rows' \in [PhaseNames -> SUBSET Nat]
        /\ \A q \in PhaseNames : rows'[q] \subseteq {root} \ {0}
    BY <1>3 DEF WriteRows, InstallationInv
  <2>2. BucketInv'
    BY <1>3, BucketRests DEF WriteRows, InstallationInv
  <2> QED
    BY <1>3, <2>1, <2>2 DEF WriteRows, claimVars, InstallationInv, ClaimTypeOK, NobodyLockedOut
<1>4. ASSUME UseBucket PROVE InstallationInv'
  <2>1. /\ bucket' \subseteq bucket \cup ({root} \ {0})
        /\ UNCHANGED <<claimVars, root, born, rows, reset, receipt, setup>>
    BY <1>4 DEF UseBucket
  <2>2. BucketInv'
    BY <2>1
    DEF InstallationInv, BucketInv, EmptiedBeforeReceipt, OnlyPresent, DeletedMeansGone, HasReceipt
  <2> QED
    BY <2>1, <2>2 DEF claimVars, InstallationInv, ClaimTypeOK, NobodyLockedOut, NoClaims
<1> QED  BY <1>1, <1>2, <1>3, <1>4

LEMMA InstallationStarts ==
  ASSUME InstallationInit
  PROVE  InstallationInv
<1> USE DEF InstallationInit, ClaimInit
<1>1. ClaimTypeOK
  BY DEF ClaimTypeOK
<1>2. reset \in [Resets -> Running]
  BY DEF Running
<1>3. BucketInv
  BY ReceiptConstants DEF BucketInv, EmptiedBeforeReceipt, DeletedMeansGone, HasReceipt
<1> QED  BY <1>1, <1>2, <1>3 DEF InstallationInv, NobodyLockedOut, NoClaims

LEMMA InstallationKept ==
  ASSUME InstallationInv, [InstallationNext]_installationVars
  PROVE  InstallationInv'
<1>1. CASE UNCHANGED installationVars
  <2>1. BucketInv'
    BY <1>1, BucketRests DEF installationVars, resetVars, InstallationInv
  <2> QED
    BY <1>1, <2>1
    DEF installationVars, claimVars, resetVars, InstallationInv, ClaimTypeOK, NobodyLockedOut, NoClaims
<1> QED
  BY <1>1, ResetKeepsInstallation, SetupKeepsInstallation, UseKeepsInstallation
  DEF InstallationNext

LEMMA InstallationHolds == InstallationSpec => []InstallationInv
<1>1. InstallationInit => InstallationInv
  BY InstallationStarts
<1>2. InstallationInv /\ [InstallationNext]_installationVars => InstallationInv'
  BY InstallationKept
<1> QED  BY <1>1, <1>2, PTL DEF InstallationSpec

-----------------------------------------------------------------------------
\* However many requests write between the phases of however many resets, no row and no
\* claim outlives its installation.
THEOREM ResetLeavesNothing == InstallationSpec => []NothingOutlivesTheRoots
<1>1. InstallationInv => NothingOutlivesTheRoots
  BY DEF InstallationInv, NothingOutlivesTheRoots
<1> QED  BY <1>1, InstallationHolds, PTL

\* After every failure of every reset there are accounts or a receipt.
THEOREM SomebodyGetsIn == InstallationSpec => []NobodyLockedOut
<1>1. InstallationInv => NobodyLockedOut
  BY DEF InstallationInv
<1> QED  BY <1>1, InstallationHolds, PTL

\* Whatever resets and cleanups run side by side, crash and are repeated: when the receipt
\* says that the backups are deleted, those of every earlier installation are.
THEOREM DeletedBackupsAreGone == InstallationSpec => []DeletedMeansGone
<1>1. InstallationInv => DeletedMeansGone
  BY DEF InstallationInv, BucketInv
<1> QED  BY <1>1, InstallationHolds, PTL

\* However many browsers show the setup page, an installation is set up only where none
\* is, and without a row or a claim of another.
THEOREM OneSetupAtATime == InstallationSpec => SetupStartsClean
<1> DEFINE Clean == root' # root /\ root' # 0 =>
                      /\ root = 0
                      /\ \A p \in PhaseNames : rows'[p] \subseteq {root'}
                      /\ claim' = NoClaims
<1>1. InstallationInv /\ [InstallationNext]_installationVars => [Clean]_installationVars
  <2> SUFFICES ASSUME InstallationInv, InstallationNext, root' # root, root' # 0
               PROVE  /\ root = 0
                      /\ \A p \in PhaseNames : rows'[p] \subseteq {root'}
                      /\ claim' = NoClaims
    OBVIOUS
  <2>1. PICK b \in Browsers : CommitSetup(b)
    BY DEF InstallationNext, UseClaims, UseBucket, WriteRows, resetVars, BeginReset, DeletePhase, FailReset,
       FinishReset, EmptyBackupBucket, FinishR2Cleanup, ReplayReset, GrantRunsOut, ReadSetup, FailSetup
  <2>2. root = 0 /\ claim' = claim /\ claim = NoClaims
    BY <2>1 DEF CommitSetup, SetupFree, claimVars, InstallationInv
  <2>3. \A p \in PhaseNames : rows'[p] \subseteq {root'}
    BY InstallationKept DEF InstallationInv
  <2> QED  BY <2>2, <2>3
<1> QED  BY <1>1, InstallationHolds, PTL DEF InstallationSpec, SetupStartsClean

\* A claim that is not over changes its owner only by a takeover of the revision the
\* screen showed, for every number of devices and aircraft.
THEOREM ClaimsPassByTakeover == InstallationSpec => ClaimsChangeHands
<1>1. InstallationInv /\ [InstallationNext]_installationVars => [\A a \in Aircraft : Passed(a)]_claimVars
  <2> SUFFICES ASSUME InstallationInv, InstallationNext, claimVars' # claimVars,
                      NEW a \in Aircraft
               PROVE  Passed(a)
    BY DEF installationVars
  <2>1. CASE UseClaims
    BY <2>1, ClaimStepPasses DEF UseClaims, InstallationInv
  <2>2. CASE request' = request /\ (claim' = NoClaims \/ claim' = claim)
    BY <2>2 DEF Passed, NoClaims, HasClaim
  <2>3. ~UseClaims => request' = request /\ (claim' = NoClaims \/ claim' = claim)
    BY DEF InstallationNext, claimVars, WriteRows, UseBucket, BeginReset, DeletePhase, FailReset,
       FinishReset, EmptyBackupBucket, FinishR2Cleanup, ReplayReset, GrantRunsOut, ReadSetup,
       CommitSetup, FailSetup
  <2> QED  BY <2>1, <2>2, <2>3
<1>2. [\A a \in Aircraft : Passed(a)]_claimVars =>
        [\A a \in Aircraft : HasClaim(a) /\ ~claim[a].expired =>
           \/ request' = request /\ claim' = [b \in Aircraft |-> NONE]
           \/ claim'[a] # NONE /\ claim'[a].owner = claim[a].owner
           \/ \E d \in Devices :
                /\ request[d] # NoRequest /\ request'[d] = NoRequest /\ request[d].aircraft = a
                /\ IF claim'[a] = NONE
                   THEN request[d].kind = "RELEASE" /\ OperatorOf[d] = claim[a].owner
                   ELSE request[d].kind = "TAKEOVER" /\ request[d].expected = claim[a].revision]_claimVars
  BY DEF Passed
<1> QED  BY <1>1, <1>2, InstallationHolds, PTL DEF InstallationSpec, ClaimsChangeHands

=============================================================================
