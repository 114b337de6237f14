------------------------- MODULE DurableTransaction -------------------------
(***************************************************************************)
(* DurableTransaction (dae-product-persistence, lib.rs): a file replaced     *)
(* together with a database row, through a staged candidate, a backup of the *)
(* old file and a journal that names both until the outcome is settled.      *)
(*                                                                         *)
(* One atomic step is one file-system operation: a create, a rename, a       *)
(* remove or a sync.  Each may fail, as long as the fault budget lasts, and  *)
(* the process may die between any two of them.  A file holds the generation *)
(* it was written for; absent files hold None.  The candidate and the backup *)
(* carry the generation in their names, so each generation has its own.      *)
(* A killed process loses nothing it wrote: the loss of unsynced writes in a *)
(* power failure is outside the model, and a sync is a step that can fail.   *)
(*                                                                         *)
(* at is the operation under way inside a call, and "ready" when control is  *)
(* back with the caller, who reads the outcome in ret.                       *)
(***************************************************************************)
EXTENDS Naturals

CONSTANTS MaxGeneration,  \* transactions begun in a behaviour
          MaxFaults       \* I/O failures in a behaviour

ASSUME GenerationAssumption == MaxGeneration \in Nat
ASSUME FaultsAssumption == MaxFaults \in Nat

\* Identities of the transactions, in the order of their use.
Generations == 1 .. MaxGeneration

None == 0
Contents == Generations \union {None}

VARIABLES
    target,     \* the file the transaction replaces
    staged,     \* generations whose candidate file exists
    backup,     \* what the backup file of each generation holds
    journal,    \* the journal file: the artifacts it names
    next,       \* the journal.next file exists
    artifacts,  \* the DurableArtifactSet of the call under way
    tx,         \* the DurableTransaction in memory
    at, op, ret,
    step,       \* the next file cleanup_transaction_artifacts removes
    failed,     \* an error of the call under way has been collected
    faults

files == <<target, staged, backup, journal, next>>
callVars == <<artifacts, tx, at, op, ret, step, failed>>
durableVars == <<files, callVars, faults>>

ArtifactSets == [gen : Generations, backup : BOOLEAN]
NoJournal == [gen |-> None, backup |-> FALSE]

Phases == {"None", "Prepared", "IntentWritten", "Activated", "DatabaseCommitted"}
Ops == {"none", "write_intent", "activate", "finish", "rollback", "drop", "recover"}
Steps == {"ready", "next", "publish", "intent_sync", "unnext", "rename", "rename_sync",
          "restore", "restore_sync", "cleanup"}

\* No transaction in memory.  finish and rollback end the life of the transaction
\* whatever their outcome: the phases RecoveryRequired and Cleaned and the flags that
\* keep Drop from acting a second time are never read again.
NoTransaction == [phase |-> "None", activated |-> FALSE]

\* DurableTransaction::new.
NewTransaction == [NoTransaction EXCEPT !.phase = "Prepared"]

DurableTypeOK ==
    /\ target \in Contents
    /\ staged \subseteq Generations
    /\ backup \in [Generations -> Contents]
    /\ journal \in ArtifactSets \union {NoJournal}
    /\ next \in BOOLEAN
    /\ artifacts \in ArtifactSets \union {NoJournal}
    /\ tx \in [phase : Phases, activated : BOOLEAN]
    /\ at \in Steps
    /\ op \in Ops
    /\ ret \in {"ok", "err"}
    /\ step \in 1 .. 5
    /\ failed \in BOOLEAN
    /\ faults \in 0 .. MaxFaults

DurableInit ==
    /\ target = None
    /\ staged = {}
    /\ backup = [g \in Generations |-> None]
    /\ journal = NoJournal
    /\ next = FALSE
    /\ artifacts = NoJournal
    /\ tx = NoTransaction
    /\ at = "ready" /\ op = "none" /\ ret = "ok"
    /\ step = 1
    /\ failed = FALSE
    /\ faults = 0

-----------------------------------------------------------------------------
(* Control of a call. *)

\* An I/O failure.
Fault == faults < MaxFaults /\ faults' = faults + 1

NoFault == faults' = faults

GoTo(label) == at' = label

Return(outcome) ==
    /\ at' = "ready"
    /\ op' = "none"
    /\ ret' = outcome
    /\ failed' = FALSE

\* Entering cleanup_transaction_artifacts.
StartCleanup(err) ==
    /\ at' = "cleanup"
    /\ step' = 1
    /\ failed' = err

\* An activated transaction first puts the old file back.
Undo(activated) ==
    IF activated THEN /\ GoTo("restore")
                      /\ failed' = FALSE
                      /\ UNCHANGED step
                 ELSE StartCleanup(FALSE)

-----------------------------------------------------------------------------
(* write_intent: write_json_journal creates journal.next, renames it over the *)
(* journal and syncs; on an error it removes journal.next, and the caller    *)
(* drops the transaction.                                                    *)

WriteIntent(a) ==
    /\ at = "ready"
    /\ artifacts' = a
    /\ tx' = NewTransaction
    /\ op' = "write_intent"
    /\ GoTo("next")

\* create_synced_file opens with create_new: a journal.next left behind is an error.
CreateNext ==
    /\ at = "next"
    /\ \/ /\ ~next
          /\ next' = TRUE
          /\ GoTo("publish")
          /\ NoFault
       \/ /\ next
          /\ GoTo("unnext")
          /\ NoFault
          /\ UNCHANGED next
       \/ /\ Fault
          /\ next' \in BOOLEAN
          /\ GoTo("unnext")
    /\ UNCHANGED <<target, staged, backup, journal, artifacts, tx, op, ret, step, failed>>

PublishIntent ==
    /\ at = "publish"
    /\ \/ /\ journal' = artifacts
          /\ next' = FALSE
          /\ GoTo("intent_sync")
          /\ NoFault
       \/ /\ Fault
          /\ GoTo("unnext")
          /\ UNCHANGED <<journal, next>>
    /\ UNCHANGED <<target, staged, backup, artifacts, tx, op, ret, step, failed>>

SyncIntent ==
    /\ at = "intent_sync"
    /\ \/ /\ tx' = [tx EXCEPT !.phase = "IntentWritten"]
          /\ Return("ok")
          /\ NoFault
       \/ /\ Fault
          /\ GoTo("unnext")
          /\ UNCHANGED <<tx, op, ret, failed>>
    /\ UNCHANGED <<files, artifacts, step>>

\* The best-effort removal of journal.next, then Drop of a transaction that never
\* got past Prepared.
DropUnwrittenIntent ==
    /\ at = "unnext"
    /\ \/ next' = FALSE /\ NoFault
       \/ Fault /\ UNCHANGED next
    /\ op' = "drop"
    /\ StartCleanup(FALSE)
    /\ UNCHANGED <<target, staged, backup, journal, artifacts, tx, ret>>

-----------------------------------------------------------------------------
(* activate. *)

Activate ==
    /\ at = "ready"
    /\ tx.phase = "IntentWritten"
    /\ op' = "activate"
    /\ GoTo("rename")
    /\ UNCHANGED <<files, artifacts, tx, ret, step, failed, faults>>

RenameCandidate ==
    /\ at = "rename"
    /\ \/ /\ artifacts.gen \in staged
          /\ target' = artifacts.gen
          /\ staged' = staged \ {artifacts.gen}
          /\ tx' = [tx EXCEPT !.activated = TRUE, !.phase = "Activated"]
          /\ GoTo("rename_sync")
          /\ NoFault
          /\ UNCHANGED <<op, ret, failed>>
       \/ /\ Fault
          /\ Return("err")
          /\ UNCHANGED <<target, staged, tx>>
    /\ UNCHANGED <<backup, journal, next, artifacts, step>>

SyncActivation ==
    /\ at = "rename_sync"
    /\ \/ Return("ok") /\ NoFault
       \/ Fault /\ Return("err")
    /\ UNCHANGED <<files, artifacts, tx, step>>

-----------------------------------------------------------------------------
(* commit_database, finish, rollback, drop, recover. *)

\* commit_database after its callback has run.
CommitDatabase(committed) ==
    tx' = IF committed THEN [tx EXCEPT !.phase = "DatabaseCommitted"] ELSE tx

Finish ==
    /\ at = "ready"
    /\ tx.phase = "DatabaseCommitted"
    /\ op' = "finish"
    /\ StartCleanup(FALSE)
    /\ UNCHANGED <<files, artifacts, tx, ret, faults>>

\* Defect: the rollback takes an activated target for an untouched one.
RollbackWithoutRestore ==
    /\ at = "ready"
    /\ tx.phase # "None"
    /\ op' = "rollback"
    /\ StartCleanup(FALSE)
    /\ UNCHANGED <<files, artifacts, tx, ret, faults>>

Rollback ==
    /\ at = "ready"
    /\ tx.phase # "None"
    /\ op' = "rollback"
    /\ Undo(tx.activated)
    /\ UNCHANGED <<files, artifacts, tx, ret, faults>>

\* Defect: the recovery puts the old file back although the rows were committed.
RecoverUndoing(committed) ==
    /\ artifacts' = journal
    /\ op' = "recover"
    /\ Undo(TRUE)
    /\ UNCHANGED <<files, tx, faults, ret>>

\* reconcile: a committed transaction must still have its target, an uncommitted
\* one gets the old file back.
Recover(committed) ==
    /\ artifacts' = journal
    /\ IF committed /\ target = None
       THEN Return("err") /\ UNCHANGED step
       ELSE /\ op' = "recover"
            /\ Undo(~committed)
            /\ UNCHANGED ret
    /\ UNCHANGED <<files, tx, faults>>

\* What follows the restore in each call: rollback goes on to clean up and keeps
\* the backup when the restore failed, recover returns the error.
AfterRestore(ok) ==
    /\ tx' = IF ok /\ op = "rollback" THEN [tx EXCEPT !.activated = FALSE] ELSE tx
    /\ IF ok \/ op = "rollback"
       THEN StartCleanup(~ok) /\ UNCHANGED <<op, ret>>
       ELSE Return("err") /\ UNCHANGED step

\* restore_transaction_target: the rename of the backup, or the removal of a file
\* that did not exist before.
RestoreTarget ==
    /\ at = "restore"
    /\ LET g == artifacts.gen IN
       \/ /\ artifacts.backup => backup[g] # None
          /\ target' = IF artifacts.backup THEN backup[g] ELSE None
          /\ backup' = [backup EXCEPT ![g] = None]
          /\ GoTo("restore_sync")
          /\ NoFault
          /\ UNCHANGED <<tx, op, ret, step, failed>>
       \/ /\ \/ artifacts.backup /\ backup[g] = None /\ NoFault
             \/ Fault
          /\ AfterRestore(FALSE)
          /\ UNCHANGED <<target, backup>>
    /\ UNCHANGED <<staged, journal, next, artifacts>>

SyncRestore ==
    /\ at = "restore_sync"
    /\ \/ NoFault /\ AfterRestore(TRUE)
       \/ Fault /\ AfterRestore(FALSE)
    /\ UNCHANGED <<files, artifacts>>

-----------------------------------------------------------------------------
(* cleanup_transaction_artifacts: the journal goes first, the backup last and *)
(* only when the target needs it no longer.  A removal that fails is          *)
(* collected and the others still run.                                        *)

RemoveFile(k) ==
    /\ journal' = IF k = 1 THEN NoJournal ELSE journal
    /\ next' = (IF k = 2 THEN FALSE ELSE next)
    /\ staged' = IF k = 3 THEN staged \ {artifacts.gen} ELSE staged
    /\ backup' = IF k = 4 /\ artifacts.backup
                 THEN [backup EXCEPT ![artifacts.gen] = None] ELSE backup

\* remove_backup is false when the restore failed.
KeepsBackup == op = "rollback" /\ tx.activated

CleanupRemove ==
    /\ at = "cleanup"
    /\ step < 5
    /\ step' = step + 1
    /\ \/ /\ IF step = 4 /\ KeepsBackup
             THEN UNCHANGED <<staged, backup, journal, next>>
             ELSE RemoveFile(step)
          /\ NoFault
          /\ UNCHANGED failed
       \/ /\ Fault
          /\ failed' = TRUE
          /\ UNCHANGED <<staged, backup, journal, next>>
    /\ UNCHANGED <<target, artifacts, tx, at, op, ret>>

\* The directory is synced when every removal succeeded.
CleanupReturn ==
    /\ at = "cleanup"
    /\ step = 5
    /\ \E ok \in BOOLEAN :
          /\ \/ ok /\ ~failed /\ NoFault
             \/ ~ok /\ failed /\ NoFault
             \/ ~ok /\ ~failed /\ Fault
          /\ tx' = NoTransaction
          /\ Return(IF ok /\ op # "drop" THEN "ok" ELSE "err")
    /\ UNCHANGED <<files, artifacts, step>>

DurableStep ==
    \/ CreateNext \/ PublishIntent \/ SyncIntent \/ DropUnwrittenIntent
    \/ RenameCandidate \/ SyncActivation
    \/ RestoreTarget \/ SyncRestore \/ CleanupRemove \/ CleanupReturn

\* The process dies: what it held in memory is gone.
Forget ==
    /\ artifacts' = NoJournal
    /\ tx' = NoTransaction
    /\ at' = "ready" /\ op' = "none" /\ ret' = "ok"
    /\ step' = 1
    /\ failed' = FALSE
=============================================================================
