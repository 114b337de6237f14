------------------------- MODULE RuntimeApplyProofs -------------------------
(* Proofs about RuntimeApply and the DurableTransaction it runs, for any       *)
(* number of applies, I/O failures and crashes: types, that the files hold what *)
(* the committed rows need, that an apply reports what it has left behind, and  *)
(* that a recovery does not undo a commit.                                      *)
EXTENDS RuntimeApply, TLAPS

\* TypeOK in parts: the flags, the files, the call under way and the apply.
FlagsOK == next \in BOOLEAN /\ failed \in BOOLEAN /\ errors \in BOOLEAN
FilesOK ==
    /\ target \in Contents
    /\ staged \subseteq Generations
    /\ backup \in [Generations -> Contents]
    /\ journal \in ArtifactSets \union {NoJournal}
    /\ artifacts \in ArtifactSets \union {NoJournal}
    /\ rollbackTmp \subseteq Generations
CallOK ==
    /\ tx \in [phase : Phases, activated : BOOLEAN]
    /\ at \in Steps
    /\ op \in Ops
    /\ ret \in {"ok", "err"}
    /\ step \in 1 .. 5
    /\ faults \in 0 .. MaxFaults
ApplyOK ==
    /\ pc \in Labels
    /\ db \in Contents
    /\ running \in Contents
    /\ candidate \in [gen : Contents, path : BOOLEAN, previous : Contents, rows : Contents]
    /\ snapshot \in Contents
    /\ apply \in [phase : {"none", "prepare", "commit", "activate", "committed", "rolled-back", "reconcile"},
                  reconcile : BOOLEAN]
    /\ used \in Contents
    /\ before \in [file : Contents, rows : Contents, running : Contents]
    /\ startup \in {"up", "error"}
    /\ crashes \in 0 .. MaxCrashes

\* Where an apply has its candidate.
UndoingFile == {"undo_stage", "undo_write", "undo_rename", "undo_sync"}
UndoingRest == {"undo_runtime", "undo_db", "undo_policy", "undone"}
Committing == {"backup", "intent", "activate", "commit", "finish", "policy"}
Applying == {"start", "undo_file"} \union Committing \union UndoingFile \union UndoingRest

\* The caller of a library call, and the steps of each call.
Calling == {"intent", "activate", "policy", "undo_file", "recovering"}
Fresh == [phase |-> "IntentWritten", activated |-> FALSE]
Renamed == [phase |-> "Activated", activated |-> TRUE]

Control ==
    /\ pc \notin Calling => at = "ready"
    /\ pc = "intent" =>
         /\ at \in {"ready", "next", "publish", "intent_sync", "unnext", "cleanup"}
         /\ at \in {"next", "publish", "intent_sync", "unnext"} => tx = NewTransaction
         /\ at = "cleanup" => op = "drop"
         /\ at = "ready" /\ ret = "ok" => tx = Fresh
    /\ pc = "activate" =>
         /\ at \in {"ready", "rename", "rename_sync"}
         /\ at = "rename" => tx = Fresh
         /\ at = "rename_sync" => tx = Renamed
         /\ at = "ready" => tx = Renamed \/ (ret = "err" /\ tx = Fresh)
    /\ pc = "commit" => tx = Renamed
    /\ pc = "policy" => at \in {"ready", "cleanup"} /\ (at = "cleanup" => op = "finish")
    /\ pc = "undo_file" =>
         /\ at \in {"ready", "restore", "restore_sync", "cleanup"}
         /\ at # "ready" => op = "rollback"
         /\ at \in {"restore", "restore_sync"} => tx.activated /\ tx.phase # "None"
         /\ at = "ready" => tx \in {Fresh, Renamed} \/ tx.phase = "None"
    /\ pc = "recovering" =>
         /\ at \in {"ready", "restore", "restore_sync", "cleanup"}
         /\ at # "ready" => op = "recover"

\* The old state an apply goes back to is of earlier generations.
Candidate ==
    /\ target <= used /\ db <= used /\ journal.gen <= used
    /\ pc \in {"prepare", "start"} => before = [file |-> target, rows |-> db, running |-> running]
    /\ pc \in {"prepare", "start", "backup"} => journal.gen < used
    /\ pc \in {"prepare"} \union Applying => used \in Generations /\ before.file < used /\ before.rows < used
    /\ pc \in Applying =>
         candidate.previous = before.file /\ candidate.rows = before.rows /\ snapshot = before.running

\* So are the backups.
Backups == \A g \in Generations : backup[g] <= used

\* The transaction of the apply under way is on disk, and can be undone.
Published ==
    \/ pc = "intent" /\ (at = "intent_sync" \/ (at = "ready" /\ ret = "ok"))
    \/ pc \in {"activate", "commit", "finish"}
    \/ pc = "undo_file" /\ (at \in {"restore", "restore_sync"} \/ (at = "ready" /\ tx.phase # "None"))

Own == [gen |-> used, backup |-> before.file # None]

\* File, rows, runtime and backup at each step of an apply.
Progress ==
    /\ pc \in {"undo_file", "undo_runtime"} \union Committing \union UndoingFile => running = used
    /\ pc \in {"backup", "intent"} => target = before.file
    /\ pc \in {"backup", "intent", "activate", "commit", "undo_file"} => db = before.rows
    /\ pc \in {"commit", "finish", "policy"} => target = used
    /\ pc \in {"finish", "policy"} => db = used
    /\ pc = "activate" => target = IF tx.activated THEN used ELSE before.file
    /\ pc \in {"intent", "activate", "commit", "finish", "policy", "undo_file"} => artifacts = Own
    /\ pc = "intent" /\ at \in {"next", "publish"} => backup[used] = before.file
    /\ Published => journal = Own
    /\ Published /\ ~(pc = "undo_file" /\ at = "restore_sync") => backup[used] = before.file

\* The rollback, up to what its errors say.
Undoing ==
    /\ pc = "undo_file" =>
         /\ target \in {used, before.file}
         /\ at = "ready" /\ tx.phase # "None" => target = IF tx.activated THEN used ELSE before.file
         /\ at = "ready" /\ tx.phase = "None" /\ ret = "ok" => target = before.file
         /\ at = "restore" => target = used
         /\ at = "restore_sync" => target = before.file
         /\ at = "cleanup" /\ ~failed => target = before.file
    /\ pc \in UndoingFile => target \in {used, before.file} /\ db \in {used, before.rows}
    /\ pc = "undo_sync" => target = before.file
    /\ pc \in UndoingRest /\ ~errors => target = before.file
    /\ pc \in {"undo_db", "undo_policy", "undone"} /\ ~errors => running = before.running
    /\ pc \in {"undo_policy", "undone"} /\ ~errors => db = before.rows

\* Whatever failed: a journal whose generation is not the target's names the backup of
\* the file that is there, or no backup and no file.
JournalInv ==
    journal # NoJournal =>
        LET g == journal.gen IN
        /\ target # g => IF journal.backup THEN target # None /\ backup[g] \in {None, target}
                                           ELSE target = None
        /\ pc \in Applying /\ g = used => journal.backup = (before.file # None) /\ backup[g] \in {None, before.file}
        /\ pc \in UndoingFile \union {"policy"} /\ g # used => target = before.file

\* A recovery works on the journal, and puts a file back only if the rows were not committed.
Recovering ==
    /\ pc \in {"down", "recover", "recovering", "orphans"} => apply.phase = "none"
    /\ pc = "orphans" => journal = NoJournal
    /\ pc = "recovering" =>
         /\ at # "ready" => artifacts \in ArtifactSets
         /\ at \in {"restore", "restore_sync"} => artifacts = journal /\ db # journal.gen

\* While nothing has failed.
Faultless ==
    /\ pc \in {"idle", "prepare", "start", "backup", "orphans"} => journal = NoJournal /\ target = db
    /\ pc \in Applying => before.file = before.rows
    /\ pc = "intent" /\ ~Published => journal = NoJournal
    /\ pc = "activate" /\ at = "ready" => ret = "ok"
    /\ pc = "policy" =>
         /\ at = "ready" => journal = NoJournal /\ ret = "ok"
         /\ at = "cleanup" => ~failed /\ (step > 1 => journal = NoJournal)
    /\ pc = "undo_file" =>
         /\ at = "cleanup" => ~failed /\ target = before.file /\ (step > 1 => journal = NoJournal)
         /\ at = "cleanup" /\ step = 1 => journal = Own
         /\ at = "ready" /\ tx.phase = "None" => ret = "ok" /\ target = before.file /\ journal = NoJournal
    /\ pc \in UndoingFile \union UndoingRest => target = before.file /\ db = before.rows /\ journal = NoJournal
    /\ pc = "recovering" =>
         /\ at \in {"restore_sync", "cleanup"} => target = db
         /\ at = "cleanup" /\ step > 1 => journal = NoJournal
         /\ at = "ready" /\ ret = "ok" => journal = NoJournal /\ target = db
    /\ pc \notin {"undo_db", "undo_policy", "undone"} => ~errors
    /\ pc \in {"undo_db", "undo_policy", "undone"} /\ errors => before.running = None /\ running = used
    /\ Recoverable

IInv ==
    /\ TypeOK
    /\ Control
    /\ Candidate
    /\ Backups
    /\ Progress
    /\ Undoing
    /\ JournalInv
    /\ Recovering
    /\ ApplyOutcome
    /\ faults = 0 => Faultless

-----------------------------------------------------------------------------
(* The case split. *)

CommitFrame == UNCHANGED <<running, rollbackTmp, snapshot, errors, apply, used, before, startup, crashes>>
UndoFrame == UNCHANGED <<db, running, snapshot, apply, used, before, startup, crashes>>
RecoveryFrame == UNCHANGED <<db, running, applyVars, apply, used, before, crashes>>
CallFrame == UNCHANGED <<pc, db, running, rollbackTmp, applyVars, apply, used, before, startup, crashes>>

PrepareGroup == Begin \/ Prepare \/ PrepareFails \/ Start \/ StartFails
BackupGroup == CommitFrame /\ UNCHANGED <<db, candidate>> /\ (CreateBackup \/ CreateBackupFails)
FinishGroup == CommitFrame /\ UNCHANGED <<db, candidate>> /\ (CallFinish \/ AfterFinish \/ PolicyFails)
CallerGroup == CommitFrame /\ UNCHANGED db /\ (AfterIntent \/ AfterActivate)
RowsGroup == CommitFrame /\ UNCHANGED candidate /\ \E ok \in BOOLEAN : CommitRows(ok)
UndoFileGroup ==
    UndoFrame /\ (CallRollback \/ AfterRollback \/ UndoStage \/ UndoWrite \/ UndoRename \/ UndoSync)
OutcomeGroup == Succeed \/ UndoRuntime \/ UndoDatabase \/ UndoPolicy \/ Undone
RestartGroup ==
    RecoveryFrame /\ UNCHANGED <<rollbackTmp, startup>> /\ (Restart \/ RecoverJournal \/ RecoverOrphans)
RecoverGroup == RecoveryFrame /\ (RemoveOrphan \/ OrphansDone \/ RecoverDone)
IntentGroup == CallFrame /\ (CreateNext \/ PublishIntent \/ SyncIntent \/ DropUnwrittenIntent)
ActivateGroup == CallFrame /\ (RenameCandidate \/ SyncActivation)
RestoreGroup == CallFrame /\ (RestoreTarget \/ SyncRestore)

\* What a removal of cleanup_transaction_artifacts may change.
RemoveGroup ==
    /\ CallFrame
    /\ UNCHANGED <<target, artifacts, tx, at, op, ret>>
    /\ at = "cleanup"
    /\ step < 5
    /\ step' = step + 1
    /\ next' \in BOOLEAN
    /\ staged' \subseteq staged
    /\ journal' = journal \/ (step = 1 /\ journal' = NoJournal)
    /\ step = 1 /\ faults' = faults => journal' = NoJournal
    /\ backup' = backup \/ backup' = [backup EXCEPT ![artifacts.gen] = None]
    /\ faults' = faults \/ (faults < MaxFaults /\ faults' = faults + 1)
    /\ failed' \in BOOLEAN
    /\ failed => failed'
    /\ failed' => failed \/ faults' # faults
ReturnGroup == CallFrame /\ CleanupReturn

\* A removal of the cleanup, whatever failed in it.
LEMMA RemoveCases == ASSUME TypeOK, CallFrame, CleanupRemove PROVE RemoveGroup
<1> USE DEF CleanupRemove, TypeOK, DurableTypeOK
<1>1. CASE Fault /\ failed' = TRUE /\ UNCHANGED <<staged, backup, journal, next>>
  <2>1. faults' # faults /\ faults < MaxFaults /\ faults' = faults + 1
    BY <1>1 DEF Fault
  <2>2. failed' /\ next' \in BOOLEAN
    BY <1>1, Zenon
  <2> QED BY <1>1, <2>1, <2>2 DEF RemoveGroup
<1>2. CASE NoFault /\ UNCHANGED failed /\ step = 4 /\ UNCHANGED <<staged, backup, journal, next>>
  <2>1. faults' = faults
    BY <1>2 DEF NoFault
  <2>2. next' \in BOOLEAN /\ failed' \in BOOLEAN /\ (failed <=> failed')
    BY <1>2, Zenon
  <2> QED BY <1>2, <2>1, <2>2 DEF RemoveGroup
<1>3. CASE NoFault /\ UNCHANGED failed /\ RemoveFile(step)
  <2>1. faults' = faults
    BY <1>3 DEF NoFault
  <2>2. failed' \in BOOLEAN /\ (failed <=> failed')
    BY <1>3, Zenon
  <2>3. next' \in BOOLEAN
    BY <1>3, Zenon DEF RemoveFile
  <2>4. journal' = IF step = 1 THEN NoJournal ELSE journal
    BY <1>3, Zenon DEF RemoveFile
  <2>5. staged' = IF step = 3 THEN staged \ {artifacts.gen} ELSE staged
    BY <1>3, Zenon DEF RemoveFile
  <2>6. backup' = IF step = 4 /\ artifacts.backup THEN [backup EXCEPT ![artifacts.gen] = None] ELSE backup
    BY <1>3, Zenon DEF RemoveFile
  <2> HIDE DEF TypeOK, DurableTypeOK
  <2>7. staged' \subseteq staged
    BY <2>5
  <2> QED BY <2>1, <2>2, <2>3, <2>4, <2>6, <2>7 DEF RemoveGroup
<1> QED BY <1>1, <1>2, <1>3

\* Every step is one of the groups.
LEMMA StepCases ==
    ASSUME TypeOK, [Next]_vars
    PROVE  \/ PrepareGroup \/ BackupGroup \/ FinishGroup \/ CallerGroup \/ RowsGroup
           \/ UndoFileGroup \/ OutcomeGroup \/ Crash \/ RestartGroup \/ RecoverGroup
           \/ IntentGroup \/ ActivateGroup \/ RestoreGroup \/ RemoveGroup \/ ReturnGroup
           \/ UNCHANGED vars
<1>1. CommitStep => BackupGroup \/ FinishGroup \/ CallerGroup \/ RowsGroup
  BY DEF CommitStep, CommitFrame, BackupGroup, FinishGroup, CallerGroup, RowsGroup
<1>2. UndoFileStep => UndoFileGroup
  BY DEF UndoFileStep, UndoFrame, UndoFileGroup
<1>3. RecoveryStep => RestartGroup \/ RecoverGroup
  BY DEF RecoveryStep, RecoveryFrame, RestartGroup, RecoverGroup
<1>4. CallStep => IntentGroup \/ ActivateGroup \/ RestoreGroup \/ RemoveGroup \/ ReturnGroup
  BY RemoveCases DEF CallStep, DurableStep, CallFrame, IntentGroup, ActivateGroup, RestoreGroup, ReturnGroup
<1> QED BY <1>1, <1>2, <1>3, <1>4 DEF Next, PrepareGroup, OutcomeGroup

\* What a file can hold.
LEMMA ContentsType == None \in Contents /\ Generations \subseteq Contents
BY DEF Contents


\* The phases a transaction goes through.
Transactions == [phase : Phases, activated : BOOLEAN]

\* The phases a transaction is moved to.
LEMMA TransactionTypes ==
    /\ NoTransaction \in Transactions /\ NewTransaction \in Transactions
    /\ \A x \in Transactions :
         /\ [x EXCEPT !.phase = "IntentWritten"] \in Transactions
         /\ [x EXCEPT !.phase = "DatabaseCommitted"] \in Transactions
         /\ [x EXCEPT !.activated = FALSE] \in Transactions
<1>1. NoTransaction \in Transactions
  BY DEF NoTransaction, Transactions, Phases
<1>2. NewTransaction \in Transactions
  BY <1>1 DEF NewTransaction, Transactions, Phases
<1>3. ASSUME NEW x \in Transactions
      PROVE  /\ [x EXCEPT !.phase = "IntentWritten"] \in Transactions
             /\ [x EXCEPT !.phase = "DatabaseCommitted"] \in Transactions
             /\ [x EXCEPT !.activated = FALSE] \in Transactions
  BY DEF Transactions, Phases
<1> QED BY <1>1, <1>2, <1>3

\* The rename of the configuration leaves one transaction, whatever it was before.
LEMMA RenamedType ==
    ASSUME NEW x \in Transactions
    PROVE  /\ [x EXCEPT !.activated = TRUE, !.phase = "Activated"] = Renamed
           /\ Renamed \in Transactions
<1> DEFINE y == [x EXCEPT !.activated = TRUE, !.phase = "Activated"]
<1>1. y \in Transactions /\ y.phase = "Activated" /\ y.activated = TRUE
  BY DEF Transactions, Phases
<1> HIDE DEF y
<1>2. y = Renamed
  BY <1>1 DEF Transactions, Renamed
<1> QED BY <1>1, <1>2 DEF y

\* The flags stay Boolean.
LEMMA FlagsTypeStep == ASSUME IInv, [Next]_vars PROVE FlagsOK'
<1> USE DEF IInv, FlagsOK, TypeOK, DurableTypeOK, files, callVars, durableVars, applyVars
<1>1. CASE PrepareGroup
  BY <1>1 DEF PrepareGroup, Begin, Prepare, PrepareFails, Start, StartFails, FinishApply,
     DropCandidate, Fault, NoFault
<1>2. CASE BackupGroup
  BY <1>2 DEF BackupGroup, CommitFrame, CreateBackup, CreateBackupFails, WriteIntent, GoTo, HasBackup,
     Fault
<1>3. CASE FinishGroup
  BY <1>3 DEF FinishGroup, CommitFrame, CallFinish, AfterFinish, PolicyFails, Finish, StartCleanup,
     Fault
<1>4. CASE CallerGroup
  BY <1>4 DEF CallerGroup, CommitFrame, AfterIntent, AfterActivate, Activate, GoTo
<1>5. CASE RowsGroup
  BY <1>5 DEF RowsGroup, CommitFrame, CommitRows, CommitDatabase
<1>6. CASE UndoFileGroup
  BY <1>6 DEF UndoFileGroup, UndoFrame, CallRollback, AfterRollback, UndoStage, UndoWrite, UndoRename,
     UndoSync, Rollback, Undo, GoTo, StartCleanup, UndoFails, HasBackup, Fault, NoFault
<1>7. CASE OutcomeGroup
  BY <1>7 DEF OutcomeGroup, Succeed, UndoRuntime, UndoDatabase, UndoPolicy, Undone, FinishApply,
     DropCandidate, Fault, NoFault
<1>8. CASE Crash
  BY <1>8 DEF Crash, Forget
<1>9. CASE RestartGroup
  BY <1>9 DEF RestartGroup, RecoveryFrame, Restart, RecoverJournal, RecoverOrphans, Recover, Undo,
     GoTo, StartCleanup, Return
<1>10. CASE RecoverGroup
  BY <1>10 DEF RecoverGroup, RecoveryFrame, RemoveOrphan, OrphansDone, RecoverDone, Up, Fault, NoFault
<1>11. CASE IntentGroup
  BY <1>11 DEF IntentGroup, CallFrame, CreateNext, PublishIntent, SyncIntent, DropUnwrittenIntent,
     StartCleanup, GoTo, Return, Fault, NoFault
<1>12. CASE ActivateGroup
  BY <1>12 DEF ActivateGroup, CallFrame, RenameCandidate, SyncActivation, GoTo, Return, Fault, NoFault
<1>13. CASE RestoreGroup
  BY <1>13 DEF RestoreGroup, CallFrame, RestoreTarget, SyncRestore, AfterRestore, StartCleanup, GoTo,
     Return, Fault, NoFault
<1>14. CASE RemoveGroup
  BY <1>14 DEF RemoveGroup, CallFrame
<1>15. CASE ReturnGroup
  BY <1>15 DEF ReturnGroup, CallFrame, CleanupReturn, Return, Fault, NoFault
<1>16. CASE UNCHANGED vars
  BY <1>16 DEF vars
<1>0. TypeOK
  BY DEF IInv
<1> HIDE DEF IInv, FlagsOK, TypeOK, DurableTypeOK, files, callVars, durableVars, applyVars
<1> QED BY <1>0, <1>1, <1>2, <1>3, <1>4, <1>5, <1>6, <1>7, <1>8, <1>9, <1>10, <1>11, <1>12, <1>13,
  <1>14, <1>15, <1>16, StepCases

\* The files keep their types.
LEMMA FilesTypeStep == ASSUME IInv, [Next]_vars PROVE FilesOK'
<1> USE ContentsType DEF IInv, FilesOK, TypeOK, DurableTypeOK, ArtifactSets, Control, Candidate,
    Progress, Recovering, Own, files, callVars, durableVars, applyVars, UndoingFile, UndoingRest,
    Committing, Applying, Calling
<1>1. CASE PrepareGroup
  BY <1>1 DEF PrepareGroup, Begin, Prepare, PrepareFails, Start, StartFails, FinishApply,
     DropCandidate, Fault, NoFault
<1>2. CASE BackupGroup
  <2>1. CASE CreateBackup
    <3>1. used \in Generations /\ candidate.previous \in Contents
      BY <2>1 DEF CreateBackup
    <3>2. [gen |-> used, backup |-> HasBackup] \in ArtifactSets
      BY <3>1 DEF HasBackup
    <3>3. [backup EXCEPT ![used] = candidate.previous] \in [Generations -> Contents]
      BY <3>1
    <3> QED BY <1>2, <2>1, <3>2, <3>3 DEF BackupGroup, CommitFrame, CreateBackup, WriteIntent
  <2>2. CASE CreateBackupFails
    <3>1. candidate.previous \in Contents
      OBVIOUS
    <3>2. [backup EXCEPT ![used] = candidate.previous] \in [Generations -> Contents]
      BY <3>1
    <3> QED BY <1>2, <2>2, <3>2 DEF BackupGroup, CommitFrame, CreateBackupFails
  <2> QED BY <1>2, <2>1, <2>2 DEF BackupGroup
<1>3. CASE FinishGroup
  BY <1>3 DEF FinishGroup, CommitFrame, CallFinish, AfterFinish, PolicyFails, Finish, StartCleanup,
     Fault
<1>4. CASE CallerGroup
  BY <1>4 DEF CallerGroup, CommitFrame, AfterIntent, AfterActivate, Activate, GoTo
<1>5. CASE RowsGroup
  BY <1>5 DEF RowsGroup, CommitFrame, CommitRows, CommitDatabase
<1>6. CASE UndoFileGroup
  BY <1>6 DEF UndoFileGroup, UndoFrame, CallRollback, AfterRollback, UndoStage, UndoWrite, UndoRename,
     UndoSync, Rollback, Undo, GoTo, StartCleanup, UndoFails, HasBackup, Fault, NoFault
<1>7. CASE OutcomeGroup
  BY <1>7 DEF OutcomeGroup, Succeed, UndoRuntime, UndoDatabase, UndoPolicy, Undone, FinishApply,
     DropCandidate, Fault, NoFault
<1>8. CASE Crash
  BY <1>8 DEF Crash, Forget
<1>9. CASE RestartGroup
  BY <1>9 DEF RestartGroup, RecoveryFrame, Restart, RecoverJournal, RecoverOrphans, Recover, Undo,
     GoTo, StartCleanup, Return
<1>10. CASE RecoverGroup
  BY <1>10 DEF RecoverGroup, RecoveryFrame, RemoveOrphan, OrphansDone, RecoverDone, Up, Fault, NoFault
<1>11. CASE IntentGroup
  BY <1>11 DEF IntentGroup, CallFrame, CreateNext, PublishIntent, SyncIntent, DropUnwrittenIntent,
     StartCleanup, GoTo, Return, Fault, NoFault
<1>12. CASE ActivateGroup
  BY <1>12 DEF ActivateGroup, CallFrame, RenameCandidate, SyncActivation, GoTo, Return, Fault, NoFault
<1>13. CASE RestoreGroup
  BY <1>13 DEF RestoreGroup, CallFrame, RestoreTarget, SyncRestore, AfterRestore, StartCleanup, GoTo,
     Return, Fault, NoFault
<1>14. CASE RemoveGroup
  BY <1>14 DEF RemoveGroup, CallFrame
<1>15. CASE ReturnGroup
  BY <1>15 DEF ReturnGroup, CallFrame, CleanupReturn, Return, Fault, NoFault
<1>16. CASE UNCHANGED vars
  BY <1>16 DEF vars
<1>0. TypeOK
  BY DEF IInv
<1> HIDE DEF IInv, FilesOK, TypeOK, DurableTypeOK, ArtifactSets, Control, Candidate, Progress,
    Recovering, Own, files, callVars, durableVars, applyVars, UndoingFile, UndoingRest, Committing,
    Applying, Calling
<1> QED BY <1>0, <1>1, <1>2, <1>3, <1>4, <1>5, <1>6, <1>7, <1>8, <1>9, <1>10, <1>11, <1>12, <1>13,
  <1>14, <1>15, <1>16, StepCases

\* The call under way keeps its types.
LEMMA CallTypeStep == ASSUME IInv, [Next]_vars PROVE CallOK'
<1> USE FaultsAssumption DEF IInv, CallOK, TypeOK, DurableTypeOK, Steps, Ops, Phases,
    NewTransaction, NoTransaction, files, callVars, durableVars, applyVars
<1>1. CASE PrepareGroup
  BY <1>1 DEF PrepareGroup, Begin, Prepare, PrepareFails, Start, StartFails, FinishApply,
     DropCandidate, Fault, NoFault
<1>2. CASE BackupGroup
  <2>1. CASE CreateBackup
    BY <1>2, <2>1, TransactionTypes DEF BackupGroup, CommitFrame, CreateBackup, WriteIntent, GoTo, Transactions
  <2>2. CASE CreateBackupFails
    BY <1>2, <2>2 DEF BackupGroup, CommitFrame, CreateBackupFails, Fault
  <2> QED BY <1>2, <2>1, <2>2 DEF BackupGroup
<1>3. CASE FinishGroup
  BY <1>3 DEF FinishGroup, CommitFrame, CallFinish, AfterFinish, PolicyFails, Finish, StartCleanup,
     Fault
<1>4. CASE CallerGroup
  BY <1>4 DEF CallerGroup, CommitFrame, AfterIntent, AfterActivate, Activate, GoTo
<1>5. CASE RowsGroup
  BY <1>5 DEF RowsGroup, CommitFrame, CommitRows, CommitDatabase
<1>6. CASE UndoFileGroup
  BY <1>6 DEF UndoFileGroup, UndoFrame, CallRollback, AfterRollback, UndoStage, UndoWrite, UndoRename,
     UndoSync, Rollback, Undo, GoTo, StartCleanup, UndoFails, HasBackup, Fault, NoFault
<1>7. CASE OutcomeGroup
  BY <1>7 DEF OutcomeGroup, Succeed, UndoRuntime, UndoDatabase, UndoPolicy, Undone, FinishApply,
     DropCandidate, Fault, NoFault
<1>8. CASE Crash
  BY <1>8 DEF Crash, Forget
<1>9. CASE RestartGroup
  BY <1>9 DEF RestartGroup, RecoveryFrame, Restart, RecoverJournal, RecoverOrphans, Recover, Undo,
     GoTo, StartCleanup, Return
<1>10. CASE RecoverGroup
  BY <1>10 DEF RecoverGroup, RecoveryFrame, RemoveOrphan, OrphansDone, RecoverDone, Up, Fault, NoFault
<1>11. CASE IntentGroup
  BY <1>11 DEF IntentGroup, CallFrame, CreateNext, PublishIntent, SyncIntent, DropUnwrittenIntent,
     StartCleanup, GoTo, Return, Fault, NoFault
<1>12. CASE ActivateGroup
  <2>1. tx \in Transactions
    BY DEF Transactions
  <2>2. CASE RenameCandidate
    <3>1. tx' = [tx EXCEPT !.activated = TRUE, !.phase = "Activated"] \/ tx' = tx
      BY <2>2 DEF RenameCandidate
    <3>3. tx' \in Transactions
      BY <2>1, <3>1, RenamedType
    <3> QED BY <1>12, <2>2, <3>3
        DEF ActivateGroup, CallFrame, RenameCandidate, GoTo, Return, Fault, NoFault, Transactions
  <2>3. CASE SyncActivation
    BY <1>12, <2>3 DEF ActivateGroup, CallFrame, SyncActivation, Return, Fault, NoFault
  <2> QED BY <1>12, <2>2, <2>3 DEF ActivateGroup
<1>13. CASE RestoreGroup
  <2>1. tx \in Transactions
    BY DEF Transactions
  <2>5. tx' = tx \/ tx' = [tx EXCEPT !.activated = FALSE]
    <3>1. CASE RestoreTarget
      BY <3>1 DEF RestoreTarget, AfterRestore
    <3>2. CASE SyncRestore
      BY <3>2 DEF SyncRestore, AfterRestore
    <3> QED BY <1>13, <3>1, <3>2 DEF RestoreGroup
  <2>2. tx' \in Transactions
    BY ONLY <2>1, <2>5, TransactionTypes
  <2>3. CASE RestoreTarget
    BY <1>13, <2>2, <2>3 DEF CallFrame, RestoreGroup, RestoreTarget, AfterRestore, StartCleanup,
       GoTo, Return, Fault, NoFault, Transactions
  <2>4. CASE SyncRestore
    BY <1>13, <2>2, <2>4 DEF CallFrame, RestoreGroup, SyncRestore, AfterRestore, StartCleanup,
       GoTo, Return, Fault, NoFault, Transactions
  <2> QED BY <1>13, <2>3, <2>4 DEF RestoreGroup
<1>14. CASE RemoveGroup
  BY <1>14 DEF RemoveGroup, CallFrame
<1>15. CASE ReturnGroup
  BY <1>15 DEF ReturnGroup, CallFrame, CleanupReturn, Return, Fault, NoFault
<1>16. CASE UNCHANGED vars
  BY <1>16 DEF vars
<1>0. TypeOK
  BY DEF IInv
<1> HIDE DEF IInv, CallOK, TypeOK, DurableTypeOK, Steps, Ops, Phases, NewTransaction, NoTransaction,
    files, callVars, durableVars, applyVars
<1> QED BY <1>0, <1>1, <1>2, <1>3, <1>4, <1>5, <1>6, <1>7, <1>8, <1>9, <1>10, <1>11, <1>12, <1>13,
  <1>14, <1>15, <1>16, StepCases

\* The apply keeps its types.
LEMMA ApplyTypeStep == ASSUME IInv, [Next]_vars PROVE ApplyOK'
<1> USE ContentsType, CrashesAssumption DEF IInv, ApplyOK, TypeOK, DurableTypeOK, Labels,
    NoCandidate, files, callVars, durableVars, applyVars
<1>1. CASE PrepareGroup
  <2>1. CASE Begin
    BY <2>1 DEF Begin
  <2>2. CASE Prepare
    BY <2>2 DEF Prepare
  <2>3. CASE PrepareFails
    BY <2>3 DEF PrepareFails, FinishApply
  <2>4. CASE Start
    BY <2>4 DEF Start
  <2>5. CASE StartFails
    BY <2>5 DEF StartFails, FinishApply
  <2> QED BY <1>1, <2>1, <2>2, <2>3, <2>4, <2>5 DEF PrepareGroup
<1>2. CASE BackupGroup
  BY <1>2 DEF BackupGroup, CommitFrame, CreateBackup, CreateBackupFails, WriteIntent, GoTo, HasBackup,
     Fault
<1>3. CASE FinishGroup
  BY <1>3 DEF FinishGroup, CommitFrame, CallFinish, AfterFinish, PolicyFails, Finish, StartCleanup,
     Fault
<1>4. CASE CallerGroup
  BY <1>4 DEF CallerGroup, CommitFrame, AfterIntent, AfterActivate, Activate, GoTo
<1>5. CASE RowsGroup
  BY <1>5 DEF RowsGroup, CommitFrame, CommitRows, CommitDatabase
<1>6. CASE UndoFileGroup
  BY <1>6 DEF UndoFileGroup, UndoFrame, CallRollback, AfterRollback, UndoStage, UndoWrite, UndoRename,
     UndoSync, Rollback, Undo, GoTo, StartCleanup, UndoFails, HasBackup, Fault, NoFault
<1>7. CASE OutcomeGroup
  <2>1. CASE Succeed
    BY <2>1 DEF Succeed, FinishApply
  <2>2. CASE UndoRuntime \/ UndoDatabase \/ UndoPolicy
    BY <2>2 DEF UndoRuntime, UndoDatabase, UndoPolicy
  <2>3. CASE Undone
    BY <2>3 DEF Undone, FinishApply
  <2> QED BY <1>7, <2>1, <2>2, <2>3 DEF OutcomeGroup
<1>8. CASE Crash
  BY <1>8 DEF Crash, Forget
<1>9. CASE RestartGroup
  BY <1>9 DEF RestartGroup, RecoveryFrame, Restart, RecoverJournal, RecoverOrphans, Recover, Undo,
     GoTo, StartCleanup, Return
<1>10. CASE RecoverGroup
  BY <1>10 DEF RecoverGroup, RecoveryFrame, RemoveOrphan, OrphansDone, RecoverDone, Up, Fault, NoFault
<1>11. CASE IntentGroup
  BY <1>11 DEF IntentGroup, CallFrame, CreateNext, PublishIntent, SyncIntent, DropUnwrittenIntent,
     StartCleanup, GoTo, Return, Fault, NoFault
<1>12. CASE ActivateGroup
  BY <1>12 DEF ActivateGroup, CallFrame, RenameCandidate, SyncActivation, GoTo, Return, Fault, NoFault
<1>13. CASE RestoreGroup
  BY <1>13 DEF RestoreGroup, CallFrame, RestoreTarget, SyncRestore, AfterRestore, StartCleanup, GoTo,
     Return, Fault, NoFault
<1>14. CASE RemoveGroup
  BY <1>14 DEF RemoveGroup, CallFrame
<1>15. CASE ReturnGroup
  BY <1>15 DEF ReturnGroup, CallFrame, CleanupReturn, Return, Fault, NoFault
<1>16. CASE UNCHANGED vars
  BY <1>16 DEF vars
<1>0. TypeOK
  BY DEF IInv
<1> HIDE DEF IInv, ApplyOK, TypeOK, DurableTypeOK, Labels, NoCandidate, files, callVars,
    durableVars, applyVars
<1> QED BY <1>0, <1>1, <1>2, <1>3, <1>4, <1>5, <1>6, <1>7, <1>8, <1>9, <1>10, <1>11, <1>12, <1>13,
  <1>14, <1>15, <1>16, StepCases

\* Each library call passes through its own steps.
LEMMA ControlStep == ASSUME IInv, [Next]_vars PROVE Control'
<1> USE DEF IInv, Control, Fresh, Renamed, NewTransaction, NoTransaction, TypeOK, DurableTypeOK,
    files, callVars, durableVars, applyVars, UndoingFile, UndoingRest, Committing, Applying, Calling
<1>1. CASE PrepareGroup
  BY <1>1 DEF PrepareGroup, Begin, Prepare, PrepareFails, Start, StartFails, FinishApply,
     DropCandidate, Fault, NoFault
<1>2. CASE BackupGroup
  BY <1>2 DEF BackupGroup, CommitFrame, CreateBackup, CreateBackupFails, WriteIntent, GoTo, HasBackup,
     Fault
<1>3. CASE FinishGroup
  BY <1>3 DEF FinishGroup, CommitFrame, CallFinish, AfterFinish, PolicyFails, Finish, StartCleanup,
     Fault
<1>4. CASE CallerGroup
  BY <1>4 DEF CallerGroup, CommitFrame, AfterIntent, AfterActivate, Activate, GoTo
<1>5. CASE RowsGroup
  BY <1>5 DEF RowsGroup, CommitFrame, CommitRows, CommitDatabase
<1>6. CASE UndoFileGroup
  BY <1>6 DEF UndoFileGroup, UndoFrame, CallRollback, AfterRollback, UndoStage, UndoWrite, UndoRename,
     UndoSync, Rollback, Undo, GoTo, StartCleanup, UndoFails, HasBackup, Fault, NoFault
<1>7. CASE OutcomeGroup
  BY <1>7 DEF OutcomeGroup, Succeed, UndoRuntime, UndoDatabase, UndoPolicy, Undone, FinishApply,
     DropCandidate, Fault, NoFault
<1>8. CASE Crash
  BY <1>8 DEF Crash, Forget
<1>9. CASE RestartGroup
  BY <1>9 DEF RestartGroup, RecoveryFrame, Restart, RecoverJournal, RecoverOrphans, Recover, Undo,
     GoTo, StartCleanup, Return
<1>10. CASE RecoverGroup
  BY <1>10 DEF RecoverGroup, RecoveryFrame, RemoveOrphan, OrphansDone, RecoverDone, Up, Fault, NoFault
<1>11. CASE IntentGroup
  BY <1>11 DEF IntentGroup, CallFrame, CreateNext, PublishIntent, SyncIntent, DropUnwrittenIntent,
     StartCleanup, GoTo, Return, Fault, NoFault
<1>12. CASE ActivateGroup
  BY <1>12 DEF ActivateGroup, CallFrame, RenameCandidate, SyncActivation, GoTo, Return, Fault, NoFault
<1>13. CASE RestoreGroup
  BY <1>13 DEF RestoreGroup, CallFrame, RestoreTarget, SyncRestore, AfterRestore, StartCleanup, GoTo,
     Return, Fault, NoFault
<1>14. CASE RemoveGroup
  BY <1>14 DEF RemoveGroup, CallFrame
<1>15. CASE ReturnGroup
  BY <1>15 DEF ReturnGroup, CallFrame, CleanupReturn, Return, Fault, NoFault
<1>16. CASE UNCHANGED vars
  BY <1>16 DEF vars
<1>0. TypeOK
  BY DEF IInv
<1> HIDE DEF IInv, Control, Fresh, Renamed, NewTransaction, NoTransaction, TypeOK, DurableTypeOK,
    files, callVars, durableVars, applyVars, UndoingFile, UndoingRest, Committing, Applying, Calling
<1> QED BY <1>0, <1>1, <1>2, <1>3, <1>4, <1>5, <1>6, <1>7, <1>8, <1>9, <1>10, <1>11, <1>12, <1>13,
  <1>14, <1>15, <1>16, StepCases

\* What an apply goes back to stays what it was when the apply began.
LEMMA CandidateStep == ASSUME IInv, [Next]_vars PROVE Candidate'
<1> USE GenerationAssumption DEF IInv, Candidate, Backups, TypeOK, DurableTypeOK, Contents,
    Generations, None, Progress, Undoing, Own, NoJournal, ArtifactSets, Control, Published, Recovering,
    Fresh, Renamed, NewTransaction, NoTransaction, files, callVars, durableVars, applyVars, UndoingFile,
    UndoingRest, Committing, Applying, Calling
<1>1. CASE PrepareGroup
  <2>1. CASE Begin
    <3>1. used \in Nat /\ used' = used + 1 /\ target' = target /\ db' = db /\ journal' = journal
      BY <2>1 DEF Begin
    <3>2. target < used' /\ db < used' /\ journal.gen < used'
      <4>1. target \in Nat /\ db \in Nat /\ journal.gen \in Nat
        OBVIOUS
      <4>2. target <= used /\ db <= used /\ journal.gen <= used
        OBVIOUS
      <4> QED BY ONLY <3>1, <4>1, <4>2
    <3>3. /\ used' \in Generations /\ pc' = "prepare"
          /\ before' = [file |-> target, rows |-> db, running |-> running] /\ running' = running
      BY <2>1 DEF Begin
    <3>4. before'.file < used' /\ before'.rows < used'
      BY ONLY <3>2, <3>3
    <3>5. target <= used' /\ db <= used' /\ journal.gen <= used'
      <4>1. target \in Nat /\ db \in Nat /\ journal.gen \in Nat
        OBVIOUS
      <4> QED BY ONLY <3>1, <3>2, <4>1
    <3> QED BY ONLY <3>1, <3>2, <3>3, <3>4, <3>5 DEF Candidate, Applying, Committing, UndoingFile, UndoingRest
  <2>2. CASE Prepare
    BY <2>2 DEF Prepare
  <2>3. CASE PrepareFails
    BY <2>3 DEF PrepareFails, FinishApply
  <2>4. CASE Start
    BY <2>4 DEF Start
  <2>5. CASE StartFails
    BY <2>5 DEF StartFails, FinishApply
  <2> QED BY <1>1, <2>1, <2>2, <2>3, <2>4, <2>5 DEF PrepareGroup
<1>2. CASE BackupGroup
  BY <1>2 DEF BackupGroup, CommitFrame, CreateBackup, CreateBackupFails, WriteIntent, GoTo, HasBackup,
     Fault
<1>3. CASE FinishGroup
  BY <1>3 DEF FinishGroup, CommitFrame, CallFinish, AfterFinish, PolicyFails, Finish, StartCleanup,
     Fault
<1>4. CASE CallerGroup
  BY <1>4 DEF CallerGroup, CommitFrame, AfterIntent, AfterActivate, Activate, GoTo
<1>5. CASE RowsGroup
  BY <1>5 DEF RowsGroup, CommitFrame, CommitRows, CommitDatabase
<1>6. CASE UndoFileGroup
  BY <1>6 DEF UndoFileGroup, UndoFrame, CallRollback, AfterRollback, UndoStage, UndoWrite, UndoRename,
     UndoSync, Rollback, Undo, GoTo, StartCleanup, UndoFails, HasBackup, Fault, NoFault
<1>7. CASE OutcomeGroup
  BY <1>7 DEF OutcomeGroup, Succeed, UndoRuntime, UndoDatabase, UndoPolicy, Undone, FinishApply,
     DropCandidate, Fault, NoFault
<1>8. CASE Crash
  BY <1>8 DEF Crash, Forget
<1>9. CASE RestartGroup
  BY <1>9 DEF RestartGroup, RecoveryFrame, Restart, RecoverJournal, RecoverOrphans, Recover, Undo,
     GoTo, StartCleanup, Return
<1>10. CASE RecoverGroup
  BY <1>10 DEF RecoverGroup, RecoveryFrame, RemoveOrphan, OrphansDone, RecoverDone, Up, Fault, NoFault
<1>11. CASE IntentGroup
  BY <1>11 DEF IntentGroup, CallFrame, CreateNext, PublishIntent, SyncIntent, DropUnwrittenIntent,
     StartCleanup, GoTo, Return, Fault, NoFault
<1>12. CASE ActivateGroup
  BY <1>12 DEF ActivateGroup, CallFrame, RenameCandidate, SyncActivation, GoTo, Return, Fault, NoFault
<1>13. CASE RestoreGroup
  BY <1>13 DEF RestoreGroup, CallFrame, RestoreTarget, SyncRestore, AfterRestore, StartCleanup, GoTo,
     Return, Fault, NoFault
<1>14. CASE RemoveGroup
  BY <1>14 DEF RemoveGroup, CallFrame
<1>15. CASE ReturnGroup
  BY <1>15 DEF ReturnGroup, CallFrame, CleanupReturn, Return, Fault, NoFault
<1>16. CASE UNCHANGED vars
  BY <1>16 DEF vars
<1>0. TypeOK
  BY DEF IInv
<1> HIDE DEF IInv, Candidate, Backups, TypeOK, DurableTypeOK, Contents, Generations, None, Progress,
    Undoing, Own, NoJournal, ArtifactSets, Control, Published, Recovering, Fresh, Renamed,
    NewTransaction, NoTransaction, files, callVars, durableVars, applyVars, UndoingFile, UndoingRest,
    Committing, Applying, Calling
<1> QED BY <1>0, <1>1, <1>2, <1>3, <1>4, <1>5, <1>6, <1>7, <1>8, <1>9, <1>10, <1>11, <1>12, <1>13,
  <1>14, <1>15, <1>16, StepCases

\* The backups are of earlier generations.
LEMMA BackupsStep == ASSUME IInv, [Next]_vars PROVE Backups'
<1> USE DEF IInv, Backups, Candidate, TypeOK, DurableTypeOK, Contents, Generations, None, files,
    callVars, durableVars, applyVars, UndoingFile, UndoingRest, Committing, Applying, Calling
<1> SUFFICES ASSUME NEW g \in Generations PROVE (backup[g] <= used)'
  OBVIOUS
<1>b. backup[g] \in Nat /\ used \in Nat /\ backup[g] <= used
  OBVIOUS
<1> USE <1>b
<1> HIDE DEF Backups
<1>1. CASE PrepareGroup
  <2>1. backup' = backup /\ used' \in {used, used + 1}
    BY <1>1 DEF PrepareGroup, Begin, Prepare, PrepareFails, Start, StartFails
  <2> QED BY ONLY <1>b, <2>1
<1>2. CASE BackupGroup
  <2>1. candidate.previous \in Nat /\ candidate.previous <= used /\ used' = used
    BY <1>2 DEF BackupGroup, CommitFrame, CreateBackup, CreateBackupFails
  <2>2. backup'[g] \in {backup[g], candidate.previous}
    BY <1>2 DEF BackupGroup, CreateBackup, CreateBackupFails
  <2> QED BY ONLY <1>b, <2>1, <2>2
<1>3. CASE FinishGroup
  BY <1>3 DEF FinishGroup, CommitFrame, CallFinish, AfterFinish, PolicyFails, Finish, StartCleanup,
     Fault
<1>4. CASE CallerGroup
  BY <1>4 DEF CallerGroup, CommitFrame, AfterIntent, AfterActivate, Activate, GoTo
<1>5. CASE RowsGroup
  BY <1>5 DEF RowsGroup, CommitFrame, CommitRows, CommitDatabase
<1>6. CASE UndoFileGroup
  BY <1>6 DEF UndoFileGroup, UndoFrame, CallRollback, AfterRollback, UndoStage, UndoWrite, UndoRename,
     UndoSync, Rollback, Undo, GoTo, StartCleanup, UndoFails, HasBackup, Fault, NoFault
<1>7. CASE OutcomeGroup
  BY <1>7 DEF OutcomeGroup, Succeed, UndoRuntime, UndoDatabase, UndoPolicy, Undone, FinishApply,
     DropCandidate, Fault, NoFault
<1>8. CASE Crash
  BY <1>8 DEF Crash, Forget
<1>9. CASE RestartGroup
  BY <1>9 DEF RestartGroup, RecoveryFrame, Restart, RecoverJournal, RecoverOrphans, Recover, Undo,
     GoTo, StartCleanup, Return
<1>10. CASE RecoverGroup
  <2>1. used' = used
    BY <1>10 DEF RecoverGroup, RecoveryFrame
  <2>2. backup'[g] \in {backup[g], 0}
    BY <1>10 DEF RecoverGroup, RemoveOrphan, OrphansDone, RecoverDone
  <2> QED BY ONLY <1>b, <2>1, <2>2
<1>11. CASE IntentGroup
  BY <1>11 DEF IntentGroup, CallFrame, CreateNext, PublishIntent, SyncIntent, DropUnwrittenIntent,
     StartCleanup, GoTo, Return, Fault, NoFault
<1>12. CASE ActivateGroup
  BY <1>12 DEF ActivateGroup, CallFrame, RenameCandidate, SyncActivation, GoTo, Return, Fault, NoFault
<1>13. CASE RestoreGroup
  <2>1. used' = used
    BY <1>13 DEF RestoreGroup, CallFrame
  <2>2. backup'[g] \in {backup[g], 0}
    BY <1>13 DEF RestoreGroup, RestoreTarget, SyncRestore
  <2> QED BY ONLY <1>b, <2>1, <2>2
<1>14. CASE RemoveGroup
  <2>1. used' = used
    BY <1>14 DEF RemoveGroup, CallFrame
  <2>2. backup'[g] \in {backup[g], 0}
    BY <1>14 DEF RemoveGroup
  <2> QED BY ONLY <1>b, <2>1, <2>2
<1>15. CASE ReturnGroup
  BY <1>15 DEF ReturnGroup, CallFrame, CleanupReturn, Return, Fault, NoFault
<1>16. CASE UNCHANGED vars
  BY <1>16 DEF vars
<1>0. TypeOK
  BY DEF IInv
<1> HIDE DEF IInv, Backups, Candidate, TypeOK, DurableTypeOK, Contents, Generations, None, files,
    callVars, durableVars, applyVars, UndoingFile, UndoingRest, Committing, Applying, Calling
<1> QED BY <1>0, <1>1, <1>2, <1>3, <1>4, <1>5, <1>6, <1>7, <1>8, <1>9, <1>10, <1>11, <1>12, <1>13,
  <1>14, <1>15, <1>16, StepCases

\* File, rows and runtime at each step.
LEMMA ProgressStep == ASSUME IInv, [Next]_vars PROVE Progress'
<1> USE GenerationAssumption DEF IInv, Progress, Own, Published, Control, Candidate, TypeOK,
    DurableTypeOK, Fresh, Renamed, NewTransaction, NoTransaction, Contents, Generations, None, files,
    callVars, durableVars, applyVars, UndoingFile, UndoingRest, Committing, Applying, Calling
<1>1. CASE PrepareGroup
  BY <1>1 DEF PrepareGroup, Begin, Prepare, PrepareFails, Start, StartFails, FinishApply,
     DropCandidate, Fault, NoFault
<1>2. CASE BackupGroup
  BY <1>2 DEF BackupGroup, CommitFrame, CreateBackup, CreateBackupFails, WriteIntent, GoTo, HasBackup,
     Fault
<1>3. CASE FinishGroup
  BY <1>3 DEF FinishGroup, CommitFrame, CallFinish, AfterFinish, PolicyFails, Finish, StartCleanup,
     Fault
<1>4. CASE CallerGroup
  BY <1>4 DEF CallerGroup, CommitFrame, AfterIntent, AfterActivate, Activate, GoTo
<1>5. CASE RowsGroup
  BY <1>5 DEF RowsGroup, CommitFrame, CommitRows, CommitDatabase
<1>6. CASE UndoFileGroup
  BY <1>6 DEF UndoFileGroup, UndoFrame, CallRollback, AfterRollback, UndoStage, UndoWrite, UndoRename,
     UndoSync, Rollback, Undo, GoTo, StartCleanup, UndoFails, HasBackup, Fault, NoFault
<1>7. CASE OutcomeGroup
  BY <1>7 DEF OutcomeGroup, Succeed, UndoRuntime, UndoDatabase, UndoPolicy, Undone, FinishApply,
     DropCandidate, Fault, NoFault
<1>8. CASE Crash
  BY <1>8 DEF Crash, Forget
<1>9. CASE RestartGroup
  BY <1>9 DEF RestartGroup, RecoveryFrame, Restart, RecoverJournal, RecoverOrphans, Recover, Undo,
     GoTo, StartCleanup, Return
<1>10. CASE RecoverGroup
  BY <1>10 DEF RecoverGroup, RecoveryFrame, RemoveOrphan, OrphansDone, RecoverDone, Up, Fault, NoFault
<1>11. CASE IntentGroup
  BY <1>11 DEF IntentGroup, CallFrame, CreateNext, PublishIntent, SyncIntent, DropUnwrittenIntent,
     StartCleanup, GoTo, Return, Fault, NoFault
<1>12. CASE ActivateGroup
  <2>1. CASE RenameCandidate
    <3>1. tx \in Transactions
      BY DEF Transactions, Phases
    <3>2. CASE tx' = [tx EXCEPT !.activated = TRUE, !.phase = "Activated"]
      <4>1. tx' = [phase |-> "Activated", activated |-> TRUE]
        BY <3>1, <3>2, RenamedType DEF Renamed
      <4> QED BY <1>12, <2>1, <3>2, <4>1 DEF ActivateGroup, CallFrame, RenameCandidate, GoTo
    <3>3. CASE Fault /\ Return("err") /\ UNCHANGED <<target, staged, tx>>
      BY <1>12, <2>1, <3>3 DEF ActivateGroup, CallFrame, RenameCandidate, Return
    <3> QED BY <2>1, <3>2, <3>3 DEF RenameCandidate
  <2>2. CASE SyncActivation
    BY <1>12, <2>2 DEF ActivateGroup, CallFrame, SyncActivation, Return
  <2> QED BY <1>12, <2>1, <2>2 DEF ActivateGroup
<1>13. CASE RestoreGroup
  BY <1>13 DEF RestoreGroup, CallFrame, RestoreTarget, SyncRestore, AfterRestore, StartCleanup, GoTo,
     Return, Fault, NoFault
<1>14. CASE RemoveGroup
  BY <1>14 DEF RemoveGroup, CallFrame
<1>15. CASE ReturnGroup
  BY <1>15 DEF ReturnGroup, CallFrame, CleanupReturn, Return, Fault, NoFault
<1>16. CASE UNCHANGED vars
  BY <1>16 DEF vars
<1>0. TypeOK
  BY DEF IInv
<1> HIDE DEF IInv, Progress, Own, Published, Control, Candidate, TypeOK, DurableTypeOK, Fresh,
    Renamed, NewTransaction, NoTransaction, Contents, Generations, None, files, callVars, durableVars,
    applyVars, UndoingFile, UndoingRest, Committing, Applying, Calling
<1> QED BY <1>0, <1>1, <1>2, <1>3, <1>4, <1>5, <1>6, <1>7, <1>8, <1>9, <1>10, <1>11, <1>12, <1>13,
  <1>14, <1>15, <1>16, StepCases

\* The rollback.
LEMMA UndoingStep == ASSUME IInv, [Next]_vars PROVE Undoing'
<1> USE GenerationAssumption DEF IInv, Undoing, Progress, Own, Published, Control, Candidate,
    TypeOK, DurableTypeOK, Fresh, Renamed, NewTransaction, NoTransaction, Contents, Generations, None,
    files, callVars, durableVars, applyVars, UndoingFile, UndoingRest, Committing, Applying, Calling
<1>1. CASE PrepareGroup
  BY <1>1 DEF PrepareGroup, Begin, Prepare, PrepareFails, Start, StartFails, FinishApply,
     DropCandidate, Fault, NoFault
<1>2. CASE BackupGroup
  BY <1>2 DEF BackupGroup, CommitFrame, CreateBackup, CreateBackupFails, WriteIntent, GoTo, HasBackup,
     Fault
<1>3. CASE FinishGroup
  BY <1>3 DEF FinishGroup, CommitFrame, CallFinish, AfterFinish, PolicyFails, Finish, StartCleanup,
     Fault
<1>4. CASE CallerGroup
  BY <1>4 DEF CallerGroup, CommitFrame, AfterIntent, AfterActivate, Activate, GoTo
<1>5. CASE RowsGroup
  BY <1>5 DEF RowsGroup, CommitFrame, CommitRows, CommitDatabase
<1>6. CASE UndoFileGroup
  BY <1>6 DEF UndoFileGroup, UndoFrame, CallRollback, AfterRollback, UndoStage, UndoWrite, UndoRename,
     UndoSync, Rollback, Undo, GoTo, StartCleanup, UndoFails, HasBackup, Fault, NoFault
<1>7. CASE OutcomeGroup
  BY <1>7 DEF OutcomeGroup, Succeed, UndoRuntime, UndoDatabase, UndoPolicy, Undone, FinishApply,
     DropCandidate, Fault, NoFault
<1>8. CASE Crash
  BY <1>8 DEF Crash, Forget
<1>9. CASE RestartGroup
  BY <1>9 DEF RestartGroup, RecoveryFrame, Restart, RecoverJournal, RecoverOrphans, Recover, Undo,
     GoTo, StartCleanup, Return
<1>10. CASE RecoverGroup
  BY <1>10 DEF RecoverGroup, RecoveryFrame, RemoveOrphan, OrphansDone, RecoverDone, Up, Fault, NoFault
<1>11. CASE IntentGroup
  BY <1>11 DEF IntentGroup, CallFrame, CreateNext, PublishIntent, SyncIntent, DropUnwrittenIntent,
     StartCleanup, GoTo, Return, Fault, NoFault
<1>12. CASE ActivateGroup
  BY <1>12 DEF ActivateGroup, CallFrame, RenameCandidate, SyncActivation, GoTo, Return, Fault, NoFault
<1>13. CASE RestoreGroup
  BY <1>13 DEF RestoreGroup, CallFrame, RestoreTarget, SyncRestore, AfterRestore, StartCleanup, GoTo,
     Return, Fault, NoFault
<1>14. CASE RemoveGroup
  BY <1>14 DEF RemoveGroup, CallFrame
<1>15. CASE ReturnGroup
  BY <1>15 DEF ReturnGroup, CallFrame, CleanupReturn, Return, Fault, NoFault
<1>16. CASE UNCHANGED vars
  BY <1>16 DEF vars
<1>0. TypeOK
  BY DEF IInv
<1> HIDE DEF IInv, Undoing, Progress, Own, Published, Control, Candidate, TypeOK, DurableTypeOK,
    Fresh, Renamed, NewTransaction, NoTransaction, Contents, Generations, None, files, callVars,
    durableVars, applyVars, UndoingFile, UndoingRest, Committing, Applying, Calling
<1> QED BY <1>0, <1>1, <1>2, <1>3, <1>4, <1>5, <1>6, <1>7, <1>8, <1>9, <1>10, <1>11, <1>12, <1>13,
  <1>14, <1>15, <1>16, StepCases

\* The journal and its backup.
LEMMA JournalStep == ASSUME IInv, [Next]_vars PROVE JournalInv'
<1> USE GenerationAssumption DEF IInv, JournalInv, Progress, Undoing, Own, Published, Control,
    Candidate, Recovering, TypeOK, DurableTypeOK, Fresh, Renamed, NewTransaction, NoTransaction,
    Contents, Generations, None, ArtifactSets, NoJournal, files, callVars, durableVars, applyVars,
    UndoingFile, UndoingRest, Committing, Applying, Calling
<1>1. CASE PrepareGroup
  BY <1>1 DEF PrepareGroup, Begin, Prepare, PrepareFails, Start, StartFails, FinishApply,
     DropCandidate, Fault, NoFault
<1>2. CASE BackupGroup
  BY <1>2 DEF BackupGroup, CommitFrame, CreateBackup, CreateBackupFails, WriteIntent, GoTo, HasBackup,
     Fault
<1>3. CASE FinishGroup
  BY <1>3 DEF FinishGroup, CommitFrame, CallFinish, AfterFinish, PolicyFails, Finish, StartCleanup,
     Fault
<1>4. CASE CallerGroup
  BY <1>4 DEF CallerGroup, CommitFrame, AfterIntent, AfterActivate, Activate, GoTo
<1>5. CASE RowsGroup
  BY <1>5 DEF RowsGroup, CommitFrame, CommitRows, CommitDatabase
<1>6. CASE UndoFileGroup
  BY <1>6 DEF UndoFileGroup, UndoFrame, CallRollback, AfterRollback, UndoStage, UndoWrite, UndoRename,
     UndoSync, Rollback, Undo, GoTo, StartCleanup, UndoFails, HasBackup, Fault, NoFault
<1>7. CASE OutcomeGroup
  BY <1>7 DEF OutcomeGroup, Succeed, UndoRuntime, UndoDatabase, UndoPolicy, Undone, FinishApply,
     DropCandidate, Fault, NoFault
<1>8. CASE Crash
  BY <1>8 DEF Crash, Forget
<1>9. CASE RestartGroup
  BY <1>9 DEF RestartGroup, RecoveryFrame, Restart, RecoverJournal, RecoverOrphans, Recover, Undo,
     GoTo, StartCleanup, Return
<1>10. CASE RecoverGroup
  BY <1>10 DEF RecoverGroup, RecoveryFrame, RemoveOrphan, OrphansDone, RecoverDone, Up, Fault, NoFault
<1>11. CASE IntentGroup
  BY <1>11 DEF IntentGroup, CallFrame, CreateNext, PublishIntent, SyncIntent, DropUnwrittenIntent,
     StartCleanup, GoTo, Return, Fault, NoFault
<1>12. CASE ActivateGroup
  BY <1>12 DEF ActivateGroup, CallFrame, RenameCandidate, SyncActivation, GoTo, Return, Fault, NoFault
<1>13. CASE RestoreGroup
  BY <1>13 DEF RestoreGroup, CallFrame, RestoreTarget, SyncRestore, AfterRestore, StartCleanup, GoTo,
     Return, Fault, NoFault
<1>14. CASE RemoveGroup
  BY <1>14 DEF RemoveGroup, CallFrame
<1>15. CASE ReturnGroup
  BY <1>15 DEF ReturnGroup, CallFrame, CleanupReturn, Return, Fault, NoFault
<1>16. CASE UNCHANGED vars
  BY <1>16 DEF vars
<1>0. TypeOK
  BY DEF IInv
<1> HIDE DEF IInv, JournalInv, Progress, Undoing, Own, Published, Control, Candidate, Recovering,
    TypeOK, DurableTypeOK, Fresh, Renamed, NewTransaction, NoTransaction, Contents, Generations, None,
    ArtifactSets, NoJournal, files, callVars, durableVars, applyVars, UndoingFile, UndoingRest,
    Committing, Applying, Calling
<1> QED BY <1>0, <1>1, <1>2, <1>3, <1>4, <1>5, <1>6, <1>7, <1>8, <1>9, <1>10, <1>11, <1>12, <1>13,
  <1>14, <1>15, <1>16, StepCases

\* The recovery.
LEMMA RecoveringStep == ASSUME IInv, [Next]_vars PROVE Recovering'
<1> USE DEF IInv, Recovering, Control, ArtifactSets, NoJournal, TypeOK, DurableTypeOK, files,
    callVars, durableVars, applyVars
<1>1. CASE PrepareGroup
  BY <1>1 DEF PrepareGroup, Begin, Prepare, PrepareFails, Start, StartFails, FinishApply,
     DropCandidate, Fault, NoFault
<1>2. CASE BackupGroup
  BY <1>2 DEF BackupGroup, CommitFrame, CreateBackup, CreateBackupFails, WriteIntent, GoTo, HasBackup,
     Fault
<1>3. CASE FinishGroup
  BY <1>3 DEF FinishGroup, CommitFrame, CallFinish, AfterFinish, PolicyFails, Finish, StartCleanup,
     Fault
<1>4. CASE CallerGroup
  BY <1>4 DEF CallerGroup, CommitFrame, AfterIntent, AfterActivate, Activate, GoTo
<1>5. CASE RowsGroup
  BY <1>5 DEF RowsGroup, CommitFrame, CommitRows, CommitDatabase
<1>6. CASE UndoFileGroup
  BY <1>6 DEF UndoFileGroup, UndoFrame, CallRollback, AfterRollback, UndoStage, UndoWrite, UndoRename,
     UndoSync, Rollback, Undo, GoTo, StartCleanup, UndoFails, HasBackup, Fault, NoFault
<1>7. CASE OutcomeGroup
  BY <1>7 DEF OutcomeGroup, Succeed, UndoRuntime, UndoDatabase, UndoPolicy, Undone, FinishApply,
     DropCandidate, Fault, NoFault
<1>8. CASE Crash
  BY <1>8 DEF Crash, Forget
<1>9. CASE RestartGroup
  BY <1>9 DEF RestartGroup, RecoveryFrame, Restart, RecoverJournal, RecoverOrphans, Recover, Undo,
     GoTo, StartCleanup, Return
<1>10. CASE RecoverGroup
  BY <1>10 DEF RecoverGroup, RecoveryFrame, RemoveOrphan, OrphansDone, RecoverDone, Up, Fault, NoFault
<1>11. CASE IntentGroup
  <2>1. pc # "recovering" /\ pc # "orphans"
    BY <1>11 DEF IntentGroup, CreateNext, PublishIntent, SyncIntent, DropUnwrittenIntent, Calling
  <2> QED BY <1>11, <2>1 DEF IntentGroup, CallFrame
<1>12. CASE ActivateGroup
  BY <1>12 DEF ActivateGroup, CallFrame, RenameCandidate, SyncActivation, GoTo, Return, Fault, NoFault
<1>13. CASE RestoreGroup
  BY <1>13 DEF RestoreGroup, CallFrame, RestoreTarget, SyncRestore, AfterRestore, StartCleanup, GoTo,
     Return, Fault, NoFault
<1>14. CASE RemoveGroup
  BY <1>14 DEF RemoveGroup, CallFrame
<1>15. CASE ReturnGroup
  BY <1>15 DEF ReturnGroup, CallFrame, CleanupReturn, Return, Fault, NoFault
<1>16. CASE UNCHANGED vars
  BY <1>16 DEF vars
<1>0. TypeOK
  BY DEF IInv
<1> HIDE DEF IInv, Recovering, Control, ArtifactSets, NoJournal, TypeOK, DurableTypeOK, files,
    callVars, durableVars, applyVars
<1> QED BY <1>0, <1>1, <1>2, <1>3, <1>4, <1>5, <1>6, <1>7, <1>8, <1>9, <1>10, <1>11, <1>12, <1>13,
  <1>14, <1>15, <1>16, StepCases

\* The outcome reported.
LEMMA ApplyOutcomeStep == ASSUME IInv, [Next]_vars PROVE ApplyOutcome'
<1> USE DEF IInv, ApplyOutcome, Progress, Undoing, Candidate, Control, Recovering, TypeOK,
    DurableTypeOK, files, callVars, durableVars, applyVars, UndoingFile, UndoingRest, Committing,
    Applying, Calling
<1>1. CASE PrepareGroup
  BY <1>1 DEF PrepareGroup, Begin, Prepare, PrepareFails, Start, StartFails, FinishApply,
     DropCandidate, Fault, NoFault
<1>2. CASE BackupGroup
  BY <1>2 DEF BackupGroup, CommitFrame, CreateBackup, CreateBackupFails, WriteIntent, GoTo, HasBackup,
     Fault
<1>3. CASE FinishGroup
  BY <1>3 DEF FinishGroup, CommitFrame, CallFinish, AfterFinish, PolicyFails, Finish, StartCleanup,
     Fault
<1>4. CASE CallerGroup
  BY <1>4 DEF CallerGroup, CommitFrame, AfterIntent, AfterActivate, Activate, GoTo
<1>5. CASE RowsGroup
  BY <1>5 DEF RowsGroup, CommitFrame, CommitRows, CommitDatabase
<1>6. CASE UndoFileGroup
  BY <1>6 DEF UndoFileGroup, UndoFrame, CallRollback, AfterRollback, UndoStage, UndoWrite, UndoRename,
     UndoSync, Rollback, Undo, GoTo, StartCleanup, UndoFails, HasBackup, Fault, NoFault
<1>7. CASE OutcomeGroup
  <2>1. CASE Succeed
    BY <2>1 DEF Succeed, FinishApply
  <2>2. CASE UndoRuntime \/ UndoDatabase \/ UndoPolicy
    BY <2>2 DEF UndoRuntime, UndoDatabase, UndoPolicy
  <2>3. CASE Undone
    <3>1. pc = "undone" /\ UNCHANGED <<target, db, running, used, before>>
      BY <2>3 DEF Undone
    <3>2. faults' = 0 => faults = 0
      BY <2>3 DEF Undone, DropCandidate, Fault, NoFault
    <3>3. apply'.phase = (IF errors THEN "reconcile" ELSE "rolled-back")
      BY <2>3 DEF Undone, FinishApply
    <3>4. ~errors => before = [file |-> target, rows |-> db, running |-> running]
      BY <3>1
    <3>5. errors /\ faults = 0 => before = [file |-> target, rows |-> db, running |-> None] /\ running = used
      BY <3>1 DEF Faultless
    <3> QED BY ONLY <3>1, <3>2, <3>3, <3>4, <3>5 DEF ApplyOutcome
  <2> QED BY <1>7, <2>1, <2>2, <2>3 DEF OutcomeGroup
<1>8. CASE Crash
  BY <1>8 DEF Crash, Forget
<1>9. CASE RestartGroup
  BY <1>9 DEF RestartGroup, RecoveryFrame, Restart, RecoverJournal, RecoverOrphans, Recover, Undo,
     GoTo, StartCleanup, Return
<1>10. CASE RecoverGroup
  BY <1>10 DEF RecoverGroup, RecoveryFrame, RemoveOrphan, OrphansDone, RecoverDone, Up, Fault, NoFault
<1>11. CASE IntentGroup
  BY <1>11 DEF IntentGroup, CallFrame, CreateNext, PublishIntent, SyncIntent, DropUnwrittenIntent,
     StartCleanup, GoTo, Return, Fault, NoFault
<1>12. CASE ActivateGroup
  BY <1>12 DEF ActivateGroup, CallFrame, RenameCandidate, SyncActivation, GoTo, Return, Fault, NoFault
<1>13. CASE RestoreGroup
  BY <1>13 DEF RestoreGroup, CallFrame, RestoreTarget, SyncRestore, AfterRestore, StartCleanup, GoTo,
     Return, Fault, NoFault
<1>14. CASE RemoveGroup
  BY <1>14 DEF RemoveGroup, CallFrame
<1>15. CASE ReturnGroup
  BY <1>15 DEF ReturnGroup, CallFrame, CleanupReturn, Return, Fault, NoFault
<1>16. CASE UNCHANGED vars
  BY <1>16 DEF vars
<1>0. TypeOK
  BY DEF IInv
<1> HIDE DEF IInv, ApplyOutcome, Progress, Undoing, Candidate, Control, Recovering, TypeOK,
    DurableTypeOK, files, callVars, durableVars, applyVars, UndoingFile, UndoingRest, Committing,
    Applying, Calling
<1> QED BY <1>0, <1>1, <1>2, <1>3, <1>4, <1>5, <1>6, <1>7, <1>8, <1>9, <1>10, <1>11, <1>12, <1>13,
  <1>14, <1>15, <1>16, StepCases

\* While nothing has failed.
LEMMA FaultlessStep == ASSUME IInv, [Next]_vars PROVE faults' = 0 => Faultless'
<1> USE GenerationAssumption DEF IInv, Faultless, Recoverable, JournalInv, Recovering, Progress,
    Undoing, Own, Published, Control, Candidate, TypeOK, DurableTypeOK, Fresh, Renamed, NewTransaction,
    NoTransaction, Contents, Generations, None, ArtifactSets, NoJournal, files, callVars, durableVars,
    applyVars, UndoingFile, UndoingRest, Committing, Applying, Calling
<1>1. CASE PrepareGroup
  BY <1>1 DEF PrepareGroup, Begin, Prepare, PrepareFails, Start, StartFails, FinishApply,
     DropCandidate, Fault, NoFault
<1>2. CASE BackupGroup
  BY <1>2 DEF BackupGroup, CommitFrame, CreateBackup, CreateBackupFails, WriteIntent, GoTo, HasBackup,
     Fault
<1>3. CASE FinishGroup
  BY <1>3 DEF FinishGroup, CommitFrame, CallFinish, AfterFinish, PolicyFails, Finish, StartCleanup,
     Fault
<1>4. CASE CallerGroup
  BY <1>4 DEF CallerGroup, CommitFrame, AfterIntent, AfterActivate, Activate, GoTo
<1>5. CASE RowsGroup
  BY <1>5 DEF RowsGroup, CommitFrame, CommitRows, CommitDatabase
<1>6. CASE UndoFileGroup
  BY <1>6 DEF UndoFileGroup, UndoFrame, CallRollback, AfterRollback, UndoStage, UndoWrite, UndoRename,
     UndoSync, Rollback, Undo, GoTo, StartCleanup, UndoFails, HasBackup, Fault, NoFault
<1>7. CASE OutcomeGroup
  BY <1>7 DEF OutcomeGroup, Succeed, UndoRuntime, UndoDatabase, UndoPolicy, Undone, FinishApply,
     DropCandidate, Fault, NoFault
<1>8. CASE Crash
  BY <1>8 DEF Crash, Forget
<1>9. CASE RestartGroup
  BY <1>9 DEF RestartGroup, RecoveryFrame, Restart, RecoverJournal, RecoverOrphans, Recover, Undo,
     GoTo, StartCleanup, Return
<1>10. CASE RecoverGroup
  BY <1>10 DEF RecoverGroup, RecoveryFrame, RemoveOrphan, OrphansDone, RecoverDone, Up, Fault, NoFault
<1>11. CASE IntentGroup
  BY <1>11 DEF IntentGroup, CallFrame, CreateNext, PublishIntent, SyncIntent, DropUnwrittenIntent,
     StartCleanup, GoTo, Return, Fault, NoFault
<1>12. CASE ActivateGroup
  BY <1>12 DEF ActivateGroup, CallFrame, RenameCandidate, SyncActivation, GoTo, Return, Fault, NoFault
<1>13. CASE RestoreGroup
  BY <1>13 DEF RestoreGroup, CallFrame, RestoreTarget, SyncRestore, AfterRestore, StartCleanup, GoTo,
     Return, Fault, NoFault
<1>14. CASE RemoveGroup
  BY <1>14 DEF RemoveGroup, CallFrame
<1>15. CASE ReturnGroup
  BY <1>15 DEF ReturnGroup, CallFrame, CleanupReturn, Return, Fault, NoFault
<1>16. CASE UNCHANGED vars
  BY <1>16 DEF vars
<1>0. TypeOK
  BY DEF IInv
<1> HIDE DEF IInv, Faultless, Recoverable, JournalInv, Recovering, Progress, Undoing, Own,
    Published, Control, Candidate, TypeOK, DurableTypeOK, Fresh, Renamed, NewTransaction, NoTransaction,
    Contents, Generations, None, ArtifactSets, NoJournal, files, callVars, durableVars, applyVars,
    UndoingFile, UndoingRest, Committing, Applying, Calling
<1> QED BY <1>0, <1>1, <1>2, <1>3, <1>4, <1>5, <1>6, <1>7, <1>8, <1>9, <1>10, <1>11, <1>12, <1>13,
  <1>14, <1>15, <1>16, StepCases

-----------------------------------------------------------------------------
(* Theorems. *)

\* The initial state.
LEMMA Initially == Init => IInv
<1> SUFFICES ASSUME Init PROVE IInv OBVIOUS
<1> USE GenerationAssumption, FaultsAssumption, CrashesAssumption DEF Init, DurableInit
<1>1. TypeOK
  <2>1. FlagsOK
    BY DEF FlagsOK
  <2>2. FilesOK
    BY ContentsType DEF FilesOK
  <2>3. CallOK
    BY DEF CallOK, Steps, Ops, Phases, NoTransaction
  <2>4. ApplyOK
    BY ContentsType DEF ApplyOK, Labels, NoCandidate
  <2> QED BY <2>1, <2>2, <2>3, <2>4 DEF TypeOK, DurableTypeOK, FlagsOK, FilesOK, CallOK, ApplyOK
<1>2. Control /\ Undoing /\ Recovering /\ ApplyOutcome
  BY DEF Control, Undoing, Recovering, ApplyOutcome, Calling, UndoingFile, UndoingRest, NoJournal
<1>3. Candidate /\ Backups
  BY DEF Candidate, Backups, Applying, Committing, UndoingFile, UndoingRest, NoJournal, None
<1>4. Progress /\ JournalInv
  BY DEF Progress, JournalInv, Published, Committing
<1>5. Faultless
  BY DEF Faultless, Recoverable, Applying, Committing, UndoingFile, UndoingRest
<1> QED BY <1>1, <1>2, <1>3, <1>4, <1>5 DEF IInv

\* IInv is an invariant: one lemma per part of it, one step per group in each.
LEMMA Inductive == Spec => []IInv
<1>1. ASSUME IInv, [Next]_vars PROVE IInv'
  <2>1. TypeOK'
    BY <1>1, FlagsTypeStep, FilesTypeStep, CallTypeStep, ApplyTypeStep
       DEF TypeOK, DurableTypeOK, FlagsOK, FilesOK, CallOK, ApplyOK
  <2> QED BY <1>1, <2>1, ControlStep, CandidateStep, BackupsStep, ProgressStep, UndoingStep, JournalStep,
             RecoveringStep, ApplyOutcomeStep, FaultlessStep DEF IInv
<1> QED BY Initially, <1>1, PTL DEF Spec

\* Types, and that every counter stays within its bound.
THEOREM TypeCorrect == Spec => []TypeOK
<1>1. IInv => TypeOK
  BY DEF IInv
<1> QED BY <1>1, Inductive, PTL

\* As long as no I/O operation has failed, the files hold what the committed rows need
\* at every step of apply_runtime_generation, of its rollback and of the recovery.
THEOREM CrashesAreSafe == Spec => []CrashSafe
<1>1. IInv => CrashSafe
  BY DEF IInv, Faultless, CrashSafe
<1> QED BY <1>1, Inductive, PTL

\* The phase that finish_apply_generation records is what the apply left behind, with
\* any number of I/O failures.  Without one, "reconcile" is left by an apply that began
\* with the runtime stopped and by no other: file and rows are back, and
\* discard_runtime_without_stop_gate has refused to discard the generation it started.
THEOREM OutcomesAreTrue == Spec => []ApplyOutcome
<1>1. IInv => ApplyOutcome
  BY DEF IInv
<1> QED BY <1>1, Inductive, PTL

\* DurableTransaction::recover never moves the file away from the committed generation.
THEOREM RecoveryIsSafe == Spec => RecoveryKeepsCommitted
<1>1. ASSUME IInv, [Next]_vars, pc = "recovering", target = db PROVE target' = db
  <2> USE <1>1
  <2>1. CASE RestoreGroup
    <3>1. CASE RestoreTarget
      <4>1. /\ artifacts = journal /\ db # journal.gen /\ journal # NoJournal
            /\ target # journal.gen
        BY <3>1 DEF IInv, Recovering, RestoreTarget, NoJournal, ArtifactSets, Generations, None
      <4>2. IF journal.backup THEN target # None /\ backup[journal.gen] \in {None, target} ELSE target = None
        BY <4>1 DEF IInv, JournalInv
      <4>3. \/ UNCHANGED target
            \/ /\ journal.backup => backup[journal.gen] # None
               /\ target' = IF journal.backup THEN backup[journal.gen] ELSE None
        BY <3>1, <4>1 DEF RestoreTarget
      <4> QED BY <4>2, <4>3
    <3>2. CASE SyncRestore
      BY <3>2 DEF SyncRestore, files
    <3> QED BY <2>1, <3>1, <3>2 DEF RestoreGroup
  <2>2. CASE ActivateGroup
    BY <2>2 DEF IInv, Control, ActivateGroup, RenameCandidate, SyncActivation
  <2>3. CASE UndoFileGroup \/ PrepareGroup
    BY <2>3 DEF UndoFileGroup, CallRollback, AfterRollback, UndoStage, UndoWrite, UndoRename, UndoSync,
       PrepareGroup, Begin, Prepare, PrepareFails, Start, StartFails
  <2>4. CASE BackupGroup \/ FinishGroup \/ CallerGroup \/ RowsGroup \/ OutcomeGroup
    BY <2>4 DEF BackupGroup, FinishGroup, CallerGroup, RowsGroup, OutcomeGroup, CreateBackup, CreateBackupFails,
       CallFinish, AfterFinish, PolicyFails, AfterIntent, AfterActivate, CommitRows, Succeed, UndoRuntime,
       UndoDatabase, UndoPolicy, Undone
  <2>5. CASE Crash \/ RestartGroup \/ RecoverGroup \/ UNCHANGED vars
    BY <2>5 DEF Crash, RestartGroup, RecoverGroup, Restart, RecoverJournal, RecoverOrphans, Recover,
       RemoveOrphan, OrphansDone, RecoverDone, vars, durableVars, files
  <2>6. CASE IntentGroup \/ RemoveGroup \/ ReturnGroup
    BY <2>6 DEF IntentGroup, CreateNext, PublishIntent, SyncIntent, DropUnwrittenIntent, RemoveGroup, ReturnGroup,
       CleanupReturn, files
  <2>7. TypeOK
    BY DEF IInv
  <2> QED BY <2>1, <2>2, <2>3, <2>4, <2>5, <2>6, <2>7, StepCases
<1>2. IInv /\ [Next]_vars => [pc = "recovering" /\ target = db => target' = db]_vars
  BY <1>1
<1>3. [][pc = "recovering" /\ target = db => target' = db]_vars <=> RecoveryKeepsCommitted
  BY DEF RecoveryKeepsCommitted
<1> QED BY <1>2, <1>3, Inductive, PTL DEF Spec
=============================================================================
