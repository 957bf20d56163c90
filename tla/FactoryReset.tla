----------------------------- MODULE FactoryReset -----------------------------
(***************************************************************************)
(* The factory reset and the first setup after it, beside the requests     *)
(* that still use the installation: rows are deleted phase by phase, each  *)
(* a transaction of its own, and only the last one takes the accounts, the *)
(* events and everything else a foreign key may name.  The reset runs in   *)
(* the Worker, past the command tail; claims stand for the requests that   *)
(* read before a phase and write after it.                                 *)
(***************************************************************************)
EXTENDS AssistClaims, Sequences

CONSTANTS Phases,           \* FACTORY_RESET_BULK_DELETE_PHASES, in order
          Resets,           \* command ids of the resets administrators ask for
          Browsers,         \* browsers that show the setup page
          MaxInstallations  \* bound: installations set up

\* backups: r2_cleanup_pending, or what the stored answer says of the backups.
Receipts == [command : Resets, backups : {"kept", "pending", "deleted"},
             grant : {"open", "over", "used"}]

ASSUME ReceiptConstants == NONE \notin Receipts

VARIABLES
  root,     \* the installation whose events, accounts and app_bootstrap exist; 0: none
  born,     \* installations set up so far; none at first
  rows,     \* per phase, the installations with rows in its tables
  bucket,   \* R2: the installations of which objects are left, see UseBucket
  reset,    \* per command id, the request under way
  receipt,  \* system_reset_receipts, at most one row
  setup     \* per browser, the setup request under way

resetVars == <<root, born, rows, bucket, reset, receipt, setup>>
installationVars == <<claimVars, resetVars>>

PhaseNames == {Phases[i] : i \in 1..Len(Phases)}
NoReset == [stage |-> "none"]
NoSetup == [stage |-> "none"]
NoClaims == [a \in Aircraft |-> NONE]

InstallationInit ==
  /\ ClaimInit
  /\ root = 0 /\ born = 0
  /\ rows = [p \in PhaseNames |-> {}]
  /\ bucket = {}
  /\ reset = [c \in Resets |-> NoReset]
  /\ receipt = NONE
  /\ setup = [b \in Browsers |-> NoSetup]

-----------------------------------------------------------------------------
\* What goes on meanwhile.

\* A command, a forecast or an archive run writes rows of a phase: each names the
\* event (event_deletion_receipts alone does not), so none is written without it.
WriteRows(p) ==
  /\ root # 0
  /\ rows' = [rows EXCEPT ![p] = @ \cup {root}]
  /\ UNCHANGED <<claimVars, root, born, bucket, reset, receipt, setup>>

\* A backup, a logo or an archive is stored, or the last object of an installation is
\* removed.  What is stored when the accounts are gone, by a run that began before, is
\* not counted.
UseBucket ==
  /\ \/ root # 0 /\ bucket' = bucket \cup {root}
     \/ \E n \in bucket : bucket' = bucket \ {n}
  /\ UNCHANGED <<claimVars, root, born, rows, reset, receipt, setup>>

\* Accounts and aircraft are those of the first installation.  Without them no
\* session asks for a claim and no claim is inserted; what was read before is
\* still answered.
UseClaims ==
  /\ ClaimStep
  /\ root = 1 \/ (claimAsks' = claimAsks /\ claim' = NoClaims)
  /\ UNCHANGED resetVars

-----------------------------------------------------------------------------
\* The reset.

HasReceipt(c) == receipt # NONE /\ receipt.command = c

\* Checks, backup and clearing the coordinators; each may fail, which leaves D1
\* as it was.
BeginReset(c, deleteAllBackups) ==
  /\ reset[c] = NoReset
  /\ ~HasReceipt(c)
  /\ root # 0
  /\ reset' = [reset EXCEPT ![c] = [stage |-> "deleting", next |-> 1, all |-> deleteAllBackups]]
  /\ UNCHANGED <<claimVars, root, born, rows, bucket, receipt, setup>>

\* Mutant: the accounts go with the first phase.
DeletePhaseAndAccounts(c) ==
  LET p == Phases[reset[c].next] IN
  /\ reset[c].stage = "deleting" /\ reset[c].next <= Len(Phases)
  /\ rows' = [rows EXCEPT ![p] = {}]
  /\ claim' = NoClaims
  /\ root' = 0
  /\ reset' = [reset EXCEPT ![c].next = @ + 1]
  /\ UNCHANGED <<request, conflict, holds, claimAsks, born, bucket, receipt, setup>>

\* The transaction of a phase; FailReset is the one whose rows a later phase still names.
DeletePhase(c) ==
  LET p == Phases[reset[c].next] IN
  /\ reset[c].stage = "deleting" /\ reset[c].next <= Len(Phases)
  /\ rows' = [rows EXCEPT ![p] = {}]
  /\ claim' = IF p = "support-history" THEN NoClaims ELSE claim
  /\ reset' = [reset EXCEPT ![c].next = @ + 1]
  /\ UNCHANGED <<request, conflict, holds, claimAsks, root, born, bucket, receipt, setup>>

\* A call to D1 or R2 fails, or the Worker is gone; the request may be repeated.
FailReset(c) ==
  /\ reset[c] # NoReset
  /\ reset' = [reset EXCEPT ![c] = NoReset]
  /\ UNCHANGED <<claimVars, root, born, rows, bucket, receipt, setup>>

\* Mutant: rows written behind a phase are not noticed.
NoRowsHoldAnything == TRUE

\* ON DELETE RESTRICT: one row written behind its phase fails the transaction.
NoRowsHoldTheRoots == \A p \in PhaseNames : rows[p] = {}

\* The roots, claims by cascade, and every earlier receipt go; a new one comes.
FinishReset(c) ==
  /\ reset[c].stage = "deleting" /\ reset[c].next = Len(Phases) + 1
  /\ NoRowsHoldTheRoots
  /\ root' = 0
  /\ claim' = NoClaims
  /\ receipt' = [command |-> c, grant |-> "open",
                 backups |-> IF reset[c].all THEN "pending" ELSE "kept"]
  /\ reset' = [reset EXCEPT ![c] = IF reset[c].all THEN [stage |-> "cleanup"] ELSE NoReset]
  /\ UNCHANGED <<request, conflict, holds, claimAsks, born, rows, bucket, setup>>

\* R2 is emptied, whatever it holds by now ...
EmptyBackupBucket(c) ==
  /\ reset[c].stage = "cleanup"
  /\ bucket' = {}
  /\ reset' = [reset EXCEPT ![c] = [stage |-> "emptied"]]
  /\ UNCHANGED <<claimVars, root, born, rows, receipt, setup>>

\* Mutant: the UPDATE has lost its WHERE command_id.
AnyReceipt(c) == receipt # NONE

ReceiptToUpdate(c) == HasReceipt(c)

\* ... and then the receipt of this reset, if it is still there, says so.
FinishR2Cleanup(c) ==
  /\ reset[c].stage = "emptied"
  /\ receipt' = IF ReceiptToUpdate(c) THEN [receipt EXCEPT !.backups = "deleted"] ELSE receipt
  /\ reset' = [reset EXCEPT ![c] = NoReset]
  /\ UNCHANGED <<claimVars, root, born, rows, bucket, setup>>

\* The browser repeats a reset that has its receipt: only R2 is left to empty.
ReplayReset(c) ==
  /\ reset[c] = NoReset
  /\ HasReceipt(c)
  /\ receipt.backups = "pending"
  /\ reset' = [reset EXCEPT ![c] = [stage |-> "cleanup"]]
  /\ UNCHANGED <<claimVars, root, born, rows, bucket, receipt, setup>>

-----------------------------------------------------------------------------
\* The setup.

\* The thirty minutes of the grant are over.
GrantRunsOut ==
  /\ receipt # NONE /\ receipt.grant = "open"
  /\ receipt' = [receipt EXCEPT !.grant = "over"]
  /\ UNCHANGED <<claimVars, root, born, rows, bucket, reset, setup>>

\* Nothing is set up, and the cookie of an open grant or the recovery code
\* authorises the browser.
ReadSetup(b, byGrant) ==
  /\ setup[b] = NoSetup
  /\ root = 0
  /\ byGrant => receipt # NONE /\ receipt.grant = "open"
  /\ setup' = [setup EXCEPT ![b] =
       [stage |-> "read", grant |-> IF byGrant THEN receipt.command ELSE NONE]]
  /\ UNCHANGED <<claimVars, root, born, rows, bucket, reset, receipt>>

\* Mutant: nothing keeps a second browser out.
SetupFreeAlways == TRUE

\* The single row of app_bootstrap is not there.
SetupFree == root = 0

CommitSetup(b) ==
  /\ setup[b].stage = "read"
  /\ SetupFree
  /\ born < MaxInstallations
  /\ root' = born + 1
  /\ born' = born + 1
  /\ rows' = [p \in PhaseNames |->
       IF p = "operational-data" THEN rows[p] \cup {root'} ELSE rows[p]]
  /\ receipt' = IF setup[b].grant # NONE /\ HasReceipt(setup[b].grant) /\ receipt.grant = "open"
                THEN [receipt EXCEPT !.grant = "used"] ELSE receipt
  /\ setup' = [setup EXCEPT ![b] = NoSetup]
  /\ UNCHANGED <<claimVars, bucket, reset>>

FailSetup(b) ==
  /\ setup[b] # NoSetup
  /\ setup' = [setup EXCEPT ![b] = NoSetup]
  /\ UNCHANGED <<claimVars, root, born, rows, bucket, reset, receipt>>

-----------------------------------------------------------------------------
InstallationNext ==
  \/ UseClaims
  \/ \E p \in PhaseNames : WriteRows(p)
  \/ UseBucket
  \/ \E c \in Resets :
       \/ \E deleteAllBackups \in BOOLEAN : BeginReset(c, deleteAllBackups)
       \/ DeletePhase(c) \/ FailReset(c) \/ FinishReset(c)
       \/ EmptyBackupBucket(c) \/ FinishR2Cleanup(c) \/ ReplayReset(c)
  \/ GrantRunsOut
  \/ \E b \in Browsers :
       \/ \E byGrant \in BOOLEAN : ReadSetup(b, byGrant)
       \/ CommitSetup(b) \/ FailSetup(b)

InstallationSpec == InstallationInit /\ [][InstallationNext]_installationVars

(***************************************************************************)
(* Properties                                                              *)
(***************************************************************************)

\* A reset ends with nothing: whatever was written while it deleted, by requests
\* that had read before, no row and no claim outlives its installation.
NothingOutlivesTheRoots ==
  /\ \A p \in PhaseNames : rows[p] \subseteq {root}
  /\ claim # NoClaims => root = 1

\* A reset that fails at any point, or is never repeated, locks nobody out: there
\* are accounts to repeat it with, or the receipt that opens the setup.
NobodyLockedOut == born # 0 => root # 0 \/ receipt # NONE

\* A receipt says that the backups are deleted only when they are: whatever resets and
\* cleanups run side by side, fail and are repeated, nothing is left of what an
\* installation other than the present one stored while it was set up.
DeletedMeansGone ==
  receipt # NONE /\ receipt.backups = "deleted" => \A n \in bucket : n = root

\* However many browsers show the setup page, and whatever resets still run, an
\* installation is set up only where there is none, and starts without a row or a
\* claim of another.
SetupStartsClean ==
  [][root' # root /\ root' # 0 =>
       /\ root = 0
       /\ \A p \in PhaseNames : rows'[p] \subseteq {root'}
       /\ claim' = NoClaims]_installationVars
===============================================================================
