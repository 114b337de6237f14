---------------------------- MODULE RuntimeApply ----------------------------
(***************************************************************************)
(* apply_runtime_generation (dae-daemon, runtime_apply.rs and its parts, on  *)
(* dae-product-runtime's apply_generation.rs, journal.rs, commit_state.rs and *)
(* apply_state.rs): a runtime generation is started, its configuration file  *)
(* replaced and its database rows committed as one apply, which is rolled    *)
(* back when any part fails; and the recovery of an interrupted apply when    *)
(* the server starts.                                                       *)
(*                                                                         *)
(* Applies are serialised by the runtime reconciler, so one apply at a time   *)
(* is under way; its steps interleave with a crash and a restart.  The        *)
(* database rows an apply writes are the generation they were committed for; *)
(* one database transaction is one step.  Starting a generation and the log   *)
(* policy are external: they succeed or fail.  The apply checkpoints are test *)
(* hooks that do nothing in the server.                                      *)
(***************************************************************************)
EXTENDS DurableTransaction

CONSTANT MaxCrashes    \* times the process dies in a behaviour

ASSUME CrashesAssumption == MaxCrashes \in Nat

VARIABLES
    pc,
    db,          \* runtime_generation_id, and the rows committed with it
    running,     \* generation of the resident runtime
    rollbackTmp, \* generations whose .rollback file exists
    candidate,   \* the PreparedRuntimeGeneration
    snapshot,    \* the ProductRuntimeApplySnapshot: the generation to go back to
    apply,       \* RuntimeApplyState
    errors,      \* the rollback has collected an error
    used,        \* generations begun so far
    before,      \* history: the file, the rows and the runtime when the apply began
    startup,     \* how the last start of the server ended
    crashes

applyVars == <<candidate, snapshot, errors>>
vars == <<durableVars, pc, db, running, rollbackTmp, applyVars, apply, used, before, startup, crashes>>

Labels == {"idle", "prepare", "start", "backup", "intent", "activate", "commit", "finish", "policy",
           "undo_file", "undo_stage", "undo_write", "undo_rename", "undo_sync",
           "undo_runtime", "undo_db", "undo_policy", "undone", "down", "recover", "recovering", "orphans"}

NoCandidate == [gen |-> None, path |-> FALSE, previous |-> None, rows |-> None]

TypeOK ==
    /\ DurableTypeOK
    /\ pc \in Labels
    /\ db \in Contents
    /\ running \in Contents
    /\ rollbackTmp \subseteq Generations
    /\ candidate \in [gen : Contents, path : BOOLEAN, previous : Contents, rows : Contents]
    /\ snapshot \in Contents
    /\ apply \in [phase : {"none", "prepare", "commit", "activate", "committed", "rolled-back", "reconcile"},
                  reconcile : BOOLEAN]
    /\ errors \in BOOLEAN
    /\ used \in Contents
    /\ before \in [file : Contents, rows : Contents, running : Contents]
    /\ startup \in {"up", "error"}
    /\ crashes \in 0 .. MaxCrashes

Init ==
    /\ DurableInit
    /\ pc = "idle"
    /\ db = None
    /\ running = None
    /\ rollbackTmp = {}
    /\ candidate = NoCandidate
    /\ snapshot = None
    /\ apply = [phase |-> "none", reconcile |-> FALSE]
    /\ errors = FALSE
    /\ used = None
    /\ before = [file |-> None, rows |-> None, running |-> None]
    /\ startup = "up"
    /\ crashes = 0

-----------------------------------------------------------------------------
(* Prepare and start. *)

\* begin_apply_generation: a fresh generation, the previous result forgotten.
Begin ==
    /\ pc = "idle"
    /\ used + 1 \in Generations
    /\ used' = used + 1
    /\ apply' = [phase |-> "prepare", reconcile |-> FALSE]
    /\ before' = [file |-> target, rows |-> db, running |-> running]
    /\ pc' = "prepare"
    /\ UNCHANGED <<durableVars, db, running, rollbackTmp, applyVars, startup, crashes>>

\* Drop of a PreparedRuntimeGeneration that was not committed: the candidate file
\* goes if it can be removed.
DropCandidate(path) ==
    IF path
    THEN \/ staged' = staged \ {used} /\ NoFault
         \/ Fault /\ UNCHANGED staged
    ELSE UNCHANGED <<staged, faults>>

\* finish_apply_generation.
FinishApply(phase, reconcile) ==
    /\ apply' = [phase |-> phase, reconcile |-> reconcile]
    /\ pc' = "idle"
    /\ candidate' = NoCandidate
    /\ snapshot' = None
    /\ errors' = FALSE

\* prepare_runtime_generation: the rows and the file an undo goes back to, and the
\* candidate written and synced; then snapshot_for_apply.
Prepare ==
    /\ pc = "prepare"
    /\ candidate' = [gen |-> used, path |-> TRUE, previous |-> target, rows |-> db]
    /\ snapshot' = running
    /\ staged' = staged \union {used}
    /\ pc' = "start"
    /\ UNCHANGED <<target, backup, journal, next, callVars, faults, db, running, rollbackTmp,
                   apply, errors, used, before, startup, crashes>>

\* An error of the reads or of the writes; a candidate already created is removed
\* as it is dropped.
PrepareFails ==
    /\ pc = "prepare"
    /\ Fault
    /\ FinishApply("prepare", FALSE)
    /\ UNCHANGED <<target, staged, backup, journal, next, callVars, db, running, rollbackTmp,
                   used, before, startup, crashes>>

\* activate_runtime_generation: the runtime manager publishes or rebuilds.
Start ==
    /\ pc = "start"
    /\ running' = used
    /\ apply' = [apply EXCEPT !.phase = "commit"]
    /\ pc' = "backup"
    /\ UNCHANGED <<durableVars, db, rollbackTmp, applyVars, used, before, startup, crashes>>

\* A start that fails leaves the old generation, or no runtime when a rebuild could
\* not bring it back.
StartFails ==
    /\ pc = "start"
    /\ running' \in {running, None}
    /\ DropCandidate(TRUE)
    /\ FinishApply("activate", FALSE)
    /\ UNCHANGED <<target, backup, journal, next, callVars, db, rollbackTmp, used, before,
                   startup, crashes>>

-----------------------------------------------------------------------------
(* commit_runtime_generation. *)

HasBackup == candidate.previous # None

\* prepare_runtime_apply_transaction: the backup, then the intent.
CreateBackup ==
    /\ pc = "backup"
    /\ pc' = "intent"
    /\ WriteIntent([gen |-> used, backup |-> HasBackup])
    /\ backup' = [backup EXCEPT ![used] = candidate.previous]
    /\ UNCHANGED <<target, staged, journal, next, ret, step, failed, faults>>

CreateBackupFails ==
    /\ pc = "backup"
    /\ HasBackup
    /\ Fault
    /\ backup' \in {backup, [backup EXCEPT ![used] = candidate.previous]}
    /\ pc' = "undo_stage"
    /\ UNCHANGED <<target, staged, journal, next, callVars>>

\* The intent is on disk, or its transaction has been dropped.
AfterIntent ==
    /\ pc = "intent"
    /\ at = "ready"
    /\ IF ret = "ok"
       THEN Activate /\ pc' = "activate" /\ UNCHANGED candidate
       ELSE pc' = "undo_stage" /\ UNCHANGED <<durableVars, candidate>>

AfterActivate ==
    /\ pc = "activate"
    /\ at = "ready"
    /\ IF ret = "ok"
       THEN pc' = "commit" /\ candidate' = [candidate EXCEPT !.path = FALSE]
       ELSE pc' = "undo_file" /\ UNCHANGED candidate
    /\ UNCHANGED durableVars

\* commit_runtime_state inside commit_database.
CommitRows(ok) ==
    /\ pc = "commit"
    /\ CommitDatabase(ok)
    /\ db' = IF ok THEN used ELSE db
    /\ pc' = IF ok THEN "finish" ELSE "undo_file"
    /\ UNCHANGED <<files, artifacts, at, op, ret, step, failed, faults>>

\* remove_runtime_apply_journal: finish consumes the transaction.
CallFinish ==
    /\ pc = "finish"
    /\ Finish
    /\ pc' = "policy"

\* A failed finish, and a log policy that cannot be published, are undone without
\* the transaction.
AfterFinish ==
    /\ pc = "policy"
    /\ at = "ready"
    /\ ret = "err"
    /\ pc' = "undo_stage"
    /\ UNCHANGED durableVars

PolicyFails ==
    /\ pc = "policy"
    /\ at = "ready"
    /\ ret = "ok"
    /\ Fault
    /\ pc' = "undo_stage"
    /\ UNCHANGED <<files, callVars>>

CommitStep ==
    /\ \/ /\ CreateBackup \/ CreateBackupFails \/ CallFinish \/ AfterFinish \/ PolicyFails
          /\ UNCHANGED <<db, candidate>>
       \/ /\ AfterIntent \/ AfterActivate
          /\ UNCHANGED db
       \/ /\ \E ok \in BOOLEAN : CommitRows(ok)
          /\ UNCHANGED candidate
    /\ UNCHANGED <<running, rollbackTmp, snapshot, errors, apply, used, before, startup, crashes>>

\* The apply has succeeded: the snapshot is released and the generation recorded.
Succeed ==
    /\ pc = "policy"
    /\ at = "ready"
    /\ ret = "ok"
    /\ FinishApply("committed", FALSE)
    /\ UNCHANGED <<durableVars, db, running, rollbackTmp, used, before, startup, crashes>>

-----------------------------------------------------------------------------
(* rollback_runtime_generation. *)

\* restore_previous_materialization while the transaction is there.
CallRollback ==
    /\ pc = "undo_file"
    /\ tx.phase # "None"
    /\ Rollback
    /\ UNCHANGED <<pc, candidate, errors, rollbackTmp>>

AfterRollback ==
    /\ pc = "undo_file"
    /\ at = "ready"
    /\ tx.phase = "None"
    /\ errors' = (errors \/ ret = "err")
    /\ candidate' = [candidate EXCEPT !.path = @ /\ ret = "err"]
    /\ pc' = "undo_runtime"
    /\ UNCHANGED <<durableVars, rollbackTmp>>

\* restore_previous_materialization without a transaction: remove the candidate,
\* write the old content to the .rollback file and rename it over the output.
\* Any error leaves the rest undone and goes on to the runtime.
UndoFails ==
    /\ pc' = "undo_runtime"
    /\ errors' = TRUE

UndoStage ==
    /\ pc = "undo_stage"
    /\ \/ /\ staged' = IF candidate.path THEN staged \ {used} ELSE staged
          /\ pc' = "undo_write"
          /\ NoFault
          /\ UNCHANGED errors
       \/ candidate.path /\ Fault /\ UndoFails /\ UNCHANGED staged
    /\ candidate' = [candidate EXCEPT !.path = FALSE]
    /\ UNCHANGED <<target, backup, journal, next, callVars, rollbackTmp>>

UndoWrite ==
    /\ pc = "undo_write"
    /\ HasBackup
    /\ \/ /\ rollbackTmp' = rollbackTmp \union {used}
          /\ pc' = "undo_rename"
          /\ NoFault
          /\ UNCHANGED errors
       \/ /\ Fault
          /\ UndoFails
          /\ rollbackTmp' \in {rollbackTmp, rollbackTmp \union {used}}
    /\ UNCHANGED <<files, callVars, candidate>>

UndoRename ==
    /\ \/ pc = "undo_rename"
       \/ pc = "undo_write" /\ ~HasBackup
    /\ \/ /\ target' = candidate.previous
          /\ rollbackTmp' = rollbackTmp \ {used}
          /\ pc' = "undo_sync"
          /\ NoFault
          /\ UNCHANGED errors
       \/ Fault /\ UndoFails /\ UNCHANGED <<target, rollbackTmp>>
    /\ UNCHANGED <<staged, backup, journal, next, callVars, candidate>>

UndoSync ==
    /\ pc = "undo_sync"
    /\ \/ pc' = "undo_runtime" /\ NoFault /\ UNCHANGED errors
       \/ Fault /\ UndoFails
    /\ UNCHANGED <<files, callVars, rollbackTmp, candidate>>

UndoFileStep ==
    /\ CallRollback \/ AfterRollback \/ UndoStage \/ UndoWrite \/ UndoRename \/ UndoSync
    /\ UNCHANGED <<db, running, snapshot, apply, used, before, startup, crashes>>

\* restore_after_failed_apply: the old generation is published again or rebuilt.  When
\* the runtime was stopped before, discard_runtime_without_stop_gate refuses to discard
\* the one that now runs, which stays.
UndoRuntime ==
    /\ pc = "undo_runtime"
    /\ \/ /\ snapshot # None \/ running = None
          /\ running' = snapshot
          /\ UNCHANGED <<errors, faults>>
       \/ /\ snapshot = None /\ running # None
          /\ errors' = TRUE
          /\ UNCHANGED <<running, faults>>
       \/ /\ snapshot # None
          /\ Fault
          /\ errors' = TRUE
          /\ running' \in {running, None}
    /\ pc' = "undo_db"
    /\ UNCHANGED <<files, callVars, db, rollbackTmp, candidate, snapshot, apply, used, before,
                   startup, crashes>>

\* Defect: the rows stay as the failed apply committed them.
KeepRows ==
    /\ pc = "undo_db"
    /\ pc' = "undo_policy"
    /\ UNCHANGED <<durableVars, db, errors, running, rollbackTmp, candidate, snapshot, apply,
                   used, before, startup, crashes>>

\* restore_runtime_database.
UndoDatabase ==
    /\ pc = "undo_db"
    /\ \/ db' = candidate.rows /\ UNCHANGED <<errors, faults>>
       \/ Fault /\ errors' = TRUE /\ UNCHANGED db
    /\ pc' = "undo_policy"
    /\ UNCHANGED <<files, callVars, running, rollbackTmp, candidate, snapshot, apply, used, before,
                   startup, crashes>>

\* The log policy of the old generation.
UndoPolicy ==
    /\ pc = "undo_policy"
    /\ pc' = "undone"
    /\ \/ UNCHANGED <<errors, faults>>
       \/ Fault /\ errors' = TRUE
    /\ UNCHANGED <<files, callVars, db, running, rollbackTmp, candidate, snapshot, apply, used, before,
                   startup, crashes>>

\* The result of the apply; the candidate is dropped when the call returns.
Undone ==
    /\ pc = "undone"
    /\ DropCandidate(candidate.path)
    /\ FinishApply(IF errors THEN "reconcile" ELSE "rolled-back", errors)
    /\ UNCHANGED <<target, backup, journal, next, callVars, db, running, rollbackTmp, used, before,
                   startup, crashes>>

-----------------------------------------------------------------------------
(* Crash, start and recovery. *)

Crash ==
    /\ pc # "down"
    /\ crashes < MaxCrashes
    /\ crashes' = crashes + 1
    /\ pc' = "down"
    /\ Forget
    /\ running' = None
    /\ candidate' = NoCandidate
    /\ snapshot' = None
    /\ apply' = [phase |-> "none", reconcile |-> FALSE]
    /\ errors' = FALSE
    /\ UNCHANGED <<files, faults, db, rollbackTmp, used, before, startup>>

\* run_product_server_command runs the recovery before anything else.
Restart ==
    /\ pc = "down"
    /\ pc' = "recover"
    /\ UNCHANGED durableVars

\* recover_runtime_apply_transaction with a journal: the database tells whether the
\* apply it names was committed.
RecoverJournal ==
    /\ pc = "recover"
    /\ journal # NoJournal
    /\ Recover(db = journal.gen)
    /\ pc' = "recovering"

\* Without a journal, every candidate, backup and rollback file is an orphan.
RecoverOrphans ==
    /\ pc = "recover"
    /\ journal = NoJournal
    /\ pc' = "orphans"
    /\ UNCHANGED durableVars

Up(outcome) ==
    /\ startup' = outcome
    /\ pc' = IF outcome = "up" THEN "idle" ELSE "down"

\* cleanup_orphan_runtime_transaction_files removes them one at a time.
RemoveOrphan ==
    /\ pc = "orphans"
    /\ \/ /\ next
          /\ next' = FALSE
          /\ UNCHANGED <<staged, backup, rollbackTmp>>
       \/ \E g \in staged : staged' = staged \ {g} /\ UNCHANGED <<next, backup, rollbackTmp>>
       \/ \E g \in rollbackTmp : rollbackTmp' = rollbackTmp \ {g} /\ UNCHANGED <<next, staged, backup>>
       \/ \E g \in Generations :
             /\ backup[g] # None
             /\ backup' = [backup EXCEPT ![g] = None]
             /\ UNCHANGED <<next, staged, rollbackTmp>>
    /\ UNCHANGED <<target, journal, callVars, faults, pc, startup>>

NoOrphan == ~next /\ staged = {} /\ rollbackTmp = {} /\ \A g \in Generations : backup[g] = None

OrphansDone ==
    /\ pc = "orphans"
    /\ \/ NoOrphan /\ Up("up") /\ NoFault
       \/ Fault /\ Up("error")
    /\ UNCHANGED <<files, callVars, rollbackTmp>>

RecoverDone ==
    /\ pc = "recovering"
    /\ at = "ready"
    /\ Up(IF ret = "ok" THEN "up" ELSE "error")
    /\ UNCHANGED <<durableVars, rollbackTmp>>

RecoveryStep ==
    /\ \/ /\ Restart \/ RecoverJournal \/ RecoverOrphans
          /\ UNCHANGED <<rollbackTmp, startup>>
       \/ RemoveOrphan \/ OrphansDone \/ RecoverDone
    /\ UNCHANGED <<db, running, applyVars, apply, used, before, crashes>>

\* One file-system step of the library call under way.
CallStep ==
    /\ DurableStep
    /\ UNCHANGED <<pc, db, running, rollbackTmp, applyVars, apply, used, before, startup, crashes>>

Next ==
    \/ Begin \/ Prepare \/ PrepareFails \/ Start \/ StartFails
    \/ CommitStep \/ Succeed
    \/ UndoFileStep \/ UndoRuntime \/ UndoDatabase \/ UndoPolicy \/ Undone
    \/ CallStep
    \/ Crash \/ RecoveryStep

Spec == Init /\ [][Next]_vars

-----------------------------------------------------------------------------
(* Properties. *)

\* What the files and the database would be put back to by a recovery: the journal
\* says which apply is unsettled, the database says how it ended.
Recoverable ==
    IF journal = NoJournal THEN target = db
    ELSE IF db = journal.gen THEN target = journal.gen
    ELSE IF journal.backup THEN backup[journal.gen] = db \/ target = db
    ELSE db = None

\* Whatever the step at which the process dies, in an apply, in its rollback or in a
\* recovery, and whether or not the database commit failed: as long as no I/O
\* operation has failed, the files still hold what the committed rows need.
CrashSafe == faults = 0 => Recoverable

\* What apply_runtime_generation reports is what it has left behind, I/O failures
\* included: after "committed" the file, the rows and the runtime are of the new
\* generation, after "rolled-back" all three are what they were before.  And when no I/O
\* operation has failed, "reconcile" is one case only: the apply began with the runtime
\* stopped, file and rows are back, and the generation that failed runs on.
ApplyOutcome ==
    pc = "idle" =>
        /\ apply.phase = "committed" => target = used /\ db = used /\ running = used
        /\ apply.phase = "rolled-back" =>
              before = [file |-> target, rows |-> db, running |-> running]
        /\ apply.phase = "reconcile" /\ faults = 0 =>
              before = [file |-> target, rows |-> db, running |-> None] /\ running = used

\* A recovery never moves a file away from the generation the database has
\* committed, whatever a failed apply has left in the directory.
RecoveryKeepsCommitted ==
    [][pc = "recovering" /\ target = db => target' = db]_vars

\* The server refuses to start only when an I/O operation has failed: a recovery can
\* be repeated from any point at which an earlier one was interrupted.
RecoverySucceeds == startup = "error" => faults > 0
=============================================================================
