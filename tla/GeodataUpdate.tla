---------------------------- MODULE GeodataUpdate ----------------------------
(***************************************************************************)
(* Geodata updates (dae-product-geodata, update.rs, commit.rs, transaction.rs  *)
(* and admission.rs): a data file and its version file are replaced as a pair  *)
(* under a journal per kind, the runtime's geodata input version is moved so   *)
(* that the next reload sees the change, and a failed or interrupted update is  *)
(* rolled back or completed by the next update or the next start.               *)
(*                                                                         *)
(* Kinds are updated concurrently, each by one thread at a time; they share the *)
(* database counter.  A step is one file-system operation or one database       *)
(* transaction, which may fail while the fault budget lasts; the process may    *)
(* die between any two.  A killed process loses nothing it wrote: unsynced       *)
(* writes lost in a power failure are outside the model.                        *)
(*                                                                         *)
(* A file holds the number of the update that wrote it; Absent and Torn are a    *)
(* missing and a half-copied file.  Staged files and backups have names of       *)
(* their own, so each transaction has the ones its journal names; leftovers       *)
(* are removed by the next recovery and never read.  The external input version   *)
(* moves by the same rule as the geodata input version and only the comparison    *)
(* with databases of older releases reads it.                                    *)
(***************************************************************************)
EXTENDS Naturals

CONSTANTS Kinds,        \* geosite, geoip
          MaxUpdates,   \* updates per kind
          MaxFaults,    \* I/O failures in a behaviour
          MaxCrashes    \* times the process dies

ASSUME BoundsAssumption == {MaxUpdates, MaxFaults, MaxCrashes} \subseteq Nat

Updates == 1 .. MaxUpdates
Absent == 0
Torn == MaxUpdates + 1
Contents == Updates \union {Absent, Torn}
Pairs == [data : Contents, version : Contents]

VARIABLES
    live,       \* the data file and the version file in use
    backup,     \* their copies, made by the transaction at hand
    journal,    \* the journal file, NoJournal when there is none
    next,       \* kinds whose journal.next file exists
    geodata,    \* runtime_geodata_input_version
    pc,
    origin,     \* who runs the recovery or the rollback under way
    memory,     \* the GeodataUpdateJournal in memory
    update,     \* number of the update under way or last begun
    server,     \* "up", "down", or "starting"
    unrecovered,\* kinds the start has still to recover
    runtime,    \* the resident runtime: the input version and the data it was built from
    reload,     \* the reload under way and the generation it builds, NoReload when there is none
    installed,  \* history: the last update that reported success
    required,   \* history: the last update that reported runtime_reload_required
    faults, crashes

disk == <<live, backup, journal, next, geodata>>
threads == <<pc, origin, memory, update>>
serverVars == <<server, unrecovered>>
runtimeVars == <<runtime, reload>>
history == <<installed, required>>
vars == <<disk, threads, serverVars, runtimeVars, history, faults, crashes>>

Phases == {"Activating", "FilesActivated", "RollingBack"}

\* input_versions_before: present when the runtime was running.
NotRead == [read |-> FALSE, version |-> 0]
Befores == [read : BOOLEAN, version : Nat]

NoJournal == [phase |-> "none", data |-> FALSE, version |-> FALSE, before |-> NotRead]
Journals == [phase : Phases \union {"none"}, data : BOOLEAN, version : BOOLEAN, before : Befores]

NotRunning == [running |-> FALSE, seen |-> 0, loaded |-> [k \in Kinds |-> Absent]]
NoReload == [stage |-> "none", seen |-> 0, loaded |-> [k \in Kinds |-> Absent]]

Labels == {"idle", "recover", "download", "versions", "backup", "create", "publish", "publish_sync",
           "unnext", "rename_data", "rename_version", "rename_sync", "bump", "finalize",
           "restore_data", "copy_data", "restore_version", "copy_version", "restore_sync",
           "remove_journal", "remove_next"}

\* Where the journal in memory is of one phase.
Activates == {"rename_data", "rename_version", "rename_sync"}
Completes == {"bump", "finalize"}
Restores == {"restore_data", "copy_data", "restore_version", "copy_version", "restore_sync"}

Origins == {"start", "update", "commit", "undo"}

TypeOK ==
    /\ live \in [Kinds -> Pairs]
    /\ backup \in [Kinds -> Pairs]
    /\ journal \in [Kinds -> Journals]
    /\ next \subseteq Kinds
    /\ geodata \in Nat
    /\ pc \in [Kinds -> Labels]
    /\ origin \in [Kinds -> Origins]
    /\ memory \in [Kinds -> Journals]
    /\ \A k \in Kinds : /\ pc[k] \in Activates => memory[k].phase = "Activating"
                        /\ pc[k] \in Completes => memory[k].phase = "FilesActivated"
                        /\ pc[k] \in Restores => memory[k].phase = "RollingBack"
    /\ update \in [Kinds -> Updates \union {0}]
    /\ server \in {"up", "down", "starting"}
    /\ unrecovered \subseteq Kinds
    /\ runtime \in [running : BOOLEAN, seen : Nat, loaded : [Kinds -> Contents \ {Torn}]]
    /\ reload \in [stage : {"none", "planned", "loaded"}, seen : Nat, loaded : [Kinds -> Contents \ {Torn}]]
    /\ installed \in [Kinds -> Updates \union {0}]
    /\ required \in [Kinds -> Updates \union {0}]
    /\ faults \in 0 .. MaxFaults
    /\ crashes \in 0 .. MaxCrashes

NoPair == [data |-> Absent, version |-> Absent]

\* The server is up, the runtime stopped and no geodata has been fetched yet.
Init ==
    /\ live = [k \in Kinds |-> NoPair]
    /\ backup = [k \in Kinds |-> NoPair]
    /\ journal = [k \in Kinds |-> NoJournal]
    /\ next = {}
    /\ geodata = 0
    /\ pc = [k \in Kinds |-> "idle"]
    /\ origin = [k \in Kinds |-> "update"]
    /\ memory = [k \in Kinds |-> NoJournal]
    /\ update = [k \in Kinds |-> 0]
    /\ server = "up"
    /\ unrecovered = {}
    /\ runtime = NotRunning
    /\ reload = NoReload
    /\ installed = [k \in Kinds |-> 0]
    /\ required = [k \in Kinds |-> 0]
    /\ faults = 0
    /\ crashes = 0

-----------------------------------------------------------------------------
(* Control. *)

Fault == faults < MaxFaults /\ faults' = faults + 1
NoFault == faults' = faults

GoTo(k, label) == pc' = [pc EXCEPT ![k] = label]

\* The thread of kind k is done with what origin[k] names, or gives up with an error.
\* A start that fails ends the process; an update goes on after its recovery and
\* returns in every other case.  finalize after a commit is best effort.
Done(k) ==
    /\ GoTo(k, IF origin[k] = "update" THEN "download" ELSE "idle")
    /\ unrecovered' = IF origin[k] = "start" THEN unrecovered \ {k} ELSE unrecovered
    /\ UNCHANGED server

Fail(k) ==
    /\ GoTo(k, "idle")
    /\ IF origin[k] = "start" THEN server' = "down" /\ unrecovered' = {}
                              ELSE UNCHANGED serverVars

\* write_geodata_journal of the journal in memory, in the given phase.
WriteJournal(k, phase) ==
    /\ GoTo(k, "create")
    /\ memory' = [memory EXCEPT ![k].phase = phase]

\* rollback_after_failure.
RollBack(k) ==
    /\ WriteJournal(k, "RollingBack")
    /\ origin' = [origin EXCEPT ![k] = "undo"]

-----------------------------------------------------------------------------
(* An update begins. *)

\* acquire, then update_geodata_with_lease_using: one update per kind.
BeginUpdate(k) ==
    /\ server = "up"
    /\ pc[k] = "idle"
    /\ update[k] + 1 \in Updates
    /\ update' = [update EXCEPT ![k] = @ + 1]
    /\ origin' = [origin EXCEPT ![k] = "update"]
    /\ GoTo(k, "recover")
    /\ UNCHANGED <<disk, memory, serverVars, runtimeVars, history, faults, crashes>>

\* recover_geodata_transaction: without a journal, journal.next and the leftovers of
\* earlier transactions go.
RecoverNothing(k) ==
    /\ pc[k] = "recover"
    /\ journal[k] = NoJournal
    /\ \/ /\ next' = next \ {k}
          /\ backup' = [backup EXCEPT ![k] = NoPair]
          /\ Done(k)
          /\ NoFault
       \/ /\ Fault
          /\ \/ UNCHANGED next
             \/ next' = next \ {k}
          /\ UNCHANGED backup
          /\ Fail(k)
    /\ UNCHANGED <<live, journal, geodata, origin, memory, update, runtimeVars, history, crashes>>

\* Defect: an update interrupted before both files were in place is completed.
CompletesActivating(k) ==
    /\ pc[k] = "recover"
    /\ journal[k] # NoJournal
    /\ memory' = [memory EXCEPT ![k] = journal[k]]
    /\ GoTo(k, IF journal[k].phase = "RollingBack" THEN "restore_data" ELSE "finalize")
    /\ UNCHANGED <<disk, origin, update, serverVars, runtimeVars, history, faults, crashes>>

\* Defect: an update whose files are in place is rolled back.
RollsBackActivated(k) ==
    /\ pc[k] = "recover"
    /\ journal[k] # NoJournal
    /\ memory' = [memory EXCEPT ![k] = [journal[k] EXCEPT !.phase = "RollingBack"]]
    /\ GoTo(k, "create")
    /\ UNCHANGED <<disk, origin, update, serverVars, runtimeVars, history, faults, crashes>>

\* With a journal, its phase says how to go on.
RecoverJournal(k) ==
    /\ pc[k] = "recover"
    /\ journal[k] # NoJournal
    /\ LET phase == journal[k].phase IN
       /\ memory' = [memory EXCEPT ![k] =
                       IF phase = "Activating" THEN [journal[k] EXCEPT !.phase = "RollingBack"]
                                               ELSE journal[k]]
       /\ GoTo(k, CASE phase = "Activating"     -> "create"
                    [] phase = "RollingBack"    -> "restore_data"
                    [] phase = "FilesActivated" -> "finalize")
    /\ UNCHANGED <<disk, origin, update, serverVars, runtimeVars, history, faults, crashes>>

\* prepare_download: the candidate is fetched and checked, outside the transaction.
Download(k) ==
    /\ pc[k] = "download"
    /\ \E label \in {"versions", "idle"} : GoTo(k, label)
    /\ UNCHANGED <<disk, origin, memory, update, serverVars, runtimeVars, history, faults, crashes>>

\* runtime_input_versions_if_running.
ReadVersions(k) ==
    /\ pc[k] = "versions"
    /\ \/ /\ memory' = [memory EXCEPT ![k] =
                          [NoJournal EXCEPT !.before = IF runtime.running
                                                       THEN [read |-> TRUE, version |-> geodata]
                                                       ELSE NotRead]]
          /\ GoTo(k, "backup")
          /\ NoFault
       \/ Fault /\ GoTo(k, "idle") /\ UNCHANGED memory
    /\ UNCHANGED <<disk, origin, update, serverVars, runtimeVars, history, crashes>>

\* The version file is staged, the live files are copied, the journal is built.  An
\* error removes what was made.
BackUpLiveFiles(k) ==
    /\ pc[k] = "backup"
    /\ \/ /\ backup' = [backup EXCEPT ![k] = live[k]]
          /\ memory' = [memory EXCEPT ![k] =
                          [phase |-> "Activating", data |-> live[k].data # Absent,
                           version |-> live[k].version # Absent, before |-> memory[k].before]]
          /\ GoTo(k, "create")
          /\ NoFault
       \/ Fault /\ GoTo(k, "idle") /\ UNCHANGED <<backup, memory>>
    /\ UNCHANGED <<live, journal, next, geodata, origin, update, serverVars, runtimeVars, history, crashes>>

-----------------------------------------------------------------------------
(* write_json_journal of the journal in memory. *)

\* create_new refuses a journal.next that is left from before.
CreateNext(k) ==
    /\ pc[k] = "create"
    /\ \/ k \notin next /\ next' = next \union {k} /\ GoTo(k, "publish") /\ NoFault
       \/ k \in next /\ GoTo(k, "unnext") /\ NoFault /\ UNCHANGED next
       \/ Fault /\ next' \in {next, next \union {k}} /\ GoTo(k, "unnext")
    /\ UNCHANGED <<live, backup, journal, geodata, origin, memory, update, serverVars, runtimeVars, history,
                   crashes>>

PublishJournal(k) ==
    /\ pc[k] = "publish"
    /\ \/ /\ journal' = [journal EXCEPT ![k] = memory[k]]
          /\ next' = next \ {k}
          /\ GoTo(k, "publish_sync")
          /\ NoFault
       \/ Fault /\ GoTo(k, "unnext") /\ UNCHANGED <<journal, next>>
    /\ UNCHANGED <<live, backup, geodata, origin, memory, update, serverVars, runtimeVars, history, crashes>>

\* Where each phase goes on once its journal is on disk.
AfterPublish(phase) ==
    CASE phase = "Activating"     -> "rename_data"
      [] phase = "FilesActivated" -> "bump"
      [] phase = "RollingBack"    -> "restore_data"

SyncPublished(k) ==
    /\ pc[k] = "publish_sync"
    /\ \/ GoTo(k, AfterPublish(memory[k].phase)) /\ NoFault
       \/ Fault /\ GoTo(k, "unnext")
    /\ UNCHANGED <<disk, origin, memory, update, serverVars, runtimeVars, history, crashes>>

\* Defect: journal.next is left where it is.
WriteJournalFailsUnclean(k) ==
    /\ pc[k] = "unnext"
    /\ NoFault
    /\ \/ memory[k].phase = "FilesActivated" /\ RollBack(k) /\ UNCHANGED serverVars
       \/ memory[k].phase # "FilesActivated" /\ Fail(k) /\ UNCHANGED <<memory, origin>>
    /\ UNCHANGED <<disk, update, runtimeVars, history, crashes>>

\* journal.next is removed if it can be, and the error goes to the caller: an update
\* that never began returns, one whose files are in place rolls back, a rollback
\* leaves the rest to a later recovery.
WriteJournalFails(k) ==
    /\ pc[k] = "unnext"
    /\ \/ next' = next \ {k} /\ NoFault
       \/ Fault /\ UNCHANGED next
    /\ \/ memory[k].phase = "FilesActivated" /\ RollBack(k) /\ UNCHANGED serverVars
       \/ memory[k].phase # "FilesActivated" /\ Fail(k) /\ UNCHANGED <<memory, origin>>
    /\ UNCHANGED <<live, backup, journal, geodata, update, runtimeVars, history, crashes>>

-----------------------------------------------------------------------------
(* Activation. *)

Renamed(k, file) == live' = [live EXCEPT ![k][file] = update[k]]

\* A step of the activation that succeeds, or fails and is rolled back.
ActivationStep(k, from, to, effect) ==
    /\ pc[k] = from
    /\ \/ effect /\ GoTo(k, to) /\ NoFault /\ UNCHANGED <<memory, origin>>
       \/ Fault /\ RollBack(k) /\ UNCHANGED live
    /\ UNCHANGED <<backup, journal, next, geodata, update, serverVars, runtimeVars, history, crashes>>

RenameData(k) == ActivationStep(k, "rename_data", "rename_version", Renamed(k, "data"))
RenameVersion(k) == ActivationStep(k, "rename_version", "rename_sync", Renamed(k, "version"))

SyncActivated(k) ==
    /\ pc[k] = "rename_sync"
    /\ \/ WriteJournal(k, "FilesActivated") /\ NoFault /\ UNCHANGED origin
       \/ Fault /\ RollBack(k)
    /\ UNCHANGED <<disk, update, serverVars, runtimeVars, history, crashes>>

\* ensure_runtime_input_versions_bumped: the counter moves unless it has moved since it
\* was read.  (It never moves backwards: that error cannot arise.)
Bumped(before) ==
    IF before.read /\ geodata = before.version THEN geodata + 1 ELSE geodata

Bump(k) ==
    /\ pc[k] = "bump"
    /\ \/ /\ geodata' = Bumped(memory[k].before)
          /\ GoTo(k, "finalize")
          /\ origin' = [origin EXCEPT ![k] = "commit"]
          /\ installed' = [installed EXCEPT ![k] = update[k]]
          /\ required' = IF memory[k].before.read THEN [required EXCEPT ![k] = update[k]] ELSE required
          /\ NoFault
          /\ UNCHANGED memory
       \/ Fault /\ RollBack(k) /\ UNCHANGED <<geodata, history>>
    /\ UNCHANGED <<live, backup, journal, next, update, serverVars, runtimeVars, crashes>>

\* finalize_committed_geodata_journal moves the counter again, which does nothing after
\* Bump, and removes the journal.
Finalize(k) ==
    /\ pc[k] = "finalize"
    /\ \/ geodata' = Bumped(memory[k].before) /\ GoTo(k, "remove_journal") /\ NoFault /\ UNCHANGED serverVars
       \/ Fault /\ Fail(k) /\ UNCHANGED geodata
    /\ UNCHANGED <<live, backup, journal, next, origin, memory, update, runtimeVars, history, crashes>>

-----------------------------------------------------------------------------
(* rollback_geodata_journal. *)

\* restore_live_file: the live file is truncated, created first if it is gone, and the
\* backup is copied into it; a file that did not exist is removed.
Truncate(k, file, from, copy, after) ==
    /\ pc[k] = from
    /\ \/ /\ memory[k][file]
          /\ live' = [live EXCEPT ![k][file] = Torn]
          /\ GoTo(k, copy)
          /\ NoFault
          /\ UNCHANGED serverVars
       \/ /\ ~memory[k][file]
          /\ live' = [live EXCEPT ![k][file] = Absent]
          /\ GoTo(k, after)
          /\ NoFault
          /\ UNCHANGED serverVars
       \/ Fault /\ Fail(k) /\ UNCHANGED live
    /\ UNCHANGED <<backup, journal, next, geodata, origin, memory, update, runtimeVars, history, crashes>>

Copy(k, file, from, after) ==
    /\ pc[k] = from
    /\ \/ /\ live' = [live EXCEPT ![k][file] = backup[k][file]]
          /\ GoTo(k, after)
          /\ NoFault
          /\ UNCHANGED serverVars
       \/ Fault /\ Fail(k) /\ UNCHANGED live
    /\ UNCHANGED <<backup, journal, next, geodata, origin, memory, update, runtimeVars, history, crashes>>

RestoreData(k) == Truncate(k, "data", "restore_data", "copy_data", "restore_version")
CopyData(k) == Copy(k, "data", "copy_data", "restore_version")
RestoreVersion(k) == Truncate(k, "version", "restore_version", "copy_version", "restore_sync")
CopyVersion(k) == Copy(k, "version", "copy_version", "restore_sync")

\* Defect: the backups go before the journal that needs them.
SyncRestoredAndClean(k) ==
    /\ pc[k] = "restore_sync"
    /\ GoTo(k, "remove_journal")
    /\ backup' = [backup EXCEPT ![k] = NoPair]
    /\ UNCHANGED <<live, journal, next, geodata, origin, memory, update, serverVars, runtimeVars, history,
                   faults, crashes>>

SyncRestored(k) ==
    /\ pc[k] = "restore_sync"
    /\ \/ GoTo(k, "remove_journal") /\ NoFault /\ UNCHANGED serverVars
       \/ Fault /\ Fail(k)
    /\ UNCHANGED <<disk, origin, memory, update, runtimeVars, history, crashes>>

-----------------------------------------------------------------------------
(* remove_geodata_journal_durable, after a rollback or a finalize; the journal's  *)
(* artifacts go last, as far as they can be removed.                             *)

RemoveJournal(k) ==
    /\ pc[k] = "remove_journal"
    /\ \/ /\ journal' = [journal EXCEPT ![k] = NoJournal]
          /\ \/ GoTo(k, "remove_next") /\ NoFault /\ UNCHANGED serverVars
             \/ Fault /\ Fail(k)
       \/ Fault /\ Fail(k) /\ UNCHANGED journal
    /\ UNCHANGED <<live, backup, next, geodata, origin, memory, update, runtimeVars, history, crashes>>

RemoveNext(k) ==
    /\ pc[k] = "remove_next"
    /\ \/ /\ next' = next \ {k}
          /\ backup' = [backup EXCEPT ![k] = NoPair]
          /\ Done(k)
          /\ NoFault
       \/ /\ Fault
          /\ next' \in {next, next \ {k}}
          /\ Fail(k)
          /\ UNCHANGED backup
    /\ UNCHANGED <<live, journal, geodata, origin, memory, update, runtimeVars, history, crashes>>

-----------------------------------------------------------------------------
(* The runtime: what its reload takes from the database and from the files. *)

\* prepare_runtime_materialization_plan_with_modified_state: a running runtime of the
\* current input version is left alone.
PlanReload ==
    /\ server = "up"
    /\ reload = NoReload
    /\ runtime.running => runtime.seen # geodata
    /\ reload' = [NoReload EXCEPT !.stage = "planned", !.seen = geodata]
    /\ UNCHANGED <<disk, threads, serverVars, runtime, history, faults, crashes>>

\* A code is looked up in the file's list of entries: in a file half copied it is
\* either missing, which fails the reload, or the entry of the backup.
Readable(k) == IF live[k].data = Torn THEN backup[k].data ELSE live[k].data

\* The generation is built from the files as they are now.
LoadGeodata ==
    /\ reload.stage = "planned"
    /\ reload' = [reload EXCEPT !.stage = "loaded", !.loaded = [k \in Kinds |-> Readable(k)]]
    /\ UNCHANGED <<disk, threads, serverVars, runtime, history, faults, crashes>>

\* It replaces the runtime, or a failure along the way drops it.
FinishReload ==
    /\ reload.stage # "none"
    /\ \/ /\ reload.stage = "loaded"
          /\ runtime' = [running |-> TRUE, seen |-> reload.seen, loaded |-> reload.loaded]
       \/ UNCHANGED runtime
    /\ reload' = NoReload
    /\ UNCHANGED <<disk, threads, serverVars, history, faults, crashes>>

-----------------------------------------------------------------------------
(* Crash and start. *)

Crash ==
    /\ server # "down"
    /\ crashes < MaxCrashes
    /\ crashes' = crashes + 1
    /\ server' = "down"
    /\ unrecovered' = {}
    /\ pc' = [k \in Kinds |-> "idle"]
    /\ memory' = [k \in Kinds |-> NoJournal]
    /\ runtime' = NotRunning
    /\ reload' = NoReload
    /\ UNCHANGED <<disk, origin, update, history, faults>>

Start ==
    /\ server = "down"
    /\ server' = "starting"
    /\ unrecovered' = Kinds
    /\ runtime' = NotRunning
    /\ reload' = NoReload
    /\ UNCHANGED <<disk, threads, history, faults, crashes>>

\* recover_product_durable_state takes the kinds one after the other.
RecoverAtStart(k) ==
    /\ server = "starting"
    /\ k \in unrecovered
    /\ \A j \in Kinds : pc[j] = "idle"
    /\ origin' = [origin EXCEPT ![k] = "start"]
    /\ GoTo(k, "recover")
    /\ UNCHANGED <<disk, memory, update, serverVars, runtimeVars, history, faults, crashes>>

Started ==
    /\ server = "starting"
    /\ unrecovered = {}
    /\ server' = "up"
    /\ UNCHANGED <<disk, threads, unrecovered, runtimeVars, history, faults, crashes>>

ThreadStep(k) ==
    \/ RecoverNothing(k) \/ RecoverJournal(k) \/ Download(k) \/ ReadVersions(k) \/ BackUpLiveFiles(k)
    \/ CreateNext(k) \/ PublishJournal(k) \/ SyncPublished(k) \/ WriteJournalFails(k)
    \/ RenameData(k) \/ RenameVersion(k) \/ SyncActivated(k) \/ Bump(k) \/ Finalize(k)
    \/ RestoreData(k) \/ CopyData(k) \/ RestoreVersion(k) \/ CopyVersion(k) \/ SyncRestored(k)
    \/ RemoveJournal(k) \/ RemoveNext(k)

Next ==
    \/ \E k \in Kinds : BeginUpdate(k) \/ ThreadStep(k) \/ RecoverAtStart(k)
    \/ PlanReload \/ LoadGeodata \/ FinishReload
    \/ Crash \/ Start \/ Started

Spec == Init /\ [][Next]_vars

\* Threads run on, and a server that is down is started again.
Fairness ==
    /\ \A k \in Kinds : WF_vars(ThreadStep(k)) /\ WF_vars(RecoverAtStart(k))
    /\ WF_vars(Start)
    /\ WF_vars(Started)

FairSpec == Spec /\ Fairness

-----------------------------------------------------------------------------
(* Properties. *)

\* Without a journal the data file and the version file are of the same update and
\* neither is half copied, whatever failed and wherever the process died.
PairIntact ==
    \A k \in Kinds :
        journal[k] = NoJournal => live[k].data = live[k].version /\ live[k].data # Torn

\* A journal names backups that are there: until FilesActivated the old pair can be
\* put back, from any point of the activation and of a rollback before.
RollbackPossible ==
    \A k \in Kinds :
        journal[k].phase \in {"Activating", "RollingBack"} =>
            /\ journal[k].data => backup[k].data \in Updates
            /\ journal[k].version => backup[k].version \in Updates
            /\ journal[k].data = journal[k].version
            /\ backup[k].data = backup[k].version

\* An update that reported success stays until a later one replaces it: no rollback, of
\* another update or by a recovery, brings an older pair back.
NeverReverts ==
    \A k \in Kinds : journal[k] = NoJournal => live[k].data >= installed[k]

\* An update that told its caller that a reload is required has moved the input
\* version the runtime was built from, or the runtime has loaded it.
PendingTogether ==
    \A k \in Kinds :
        runtime.running /\ required[k] # 0 =>
            runtime.loaded[k] >= required[k] \/ runtime.seen # geodata

\* However updates, rollbacks and earlier recoveries were interrupted, the starts that
\* follow get the server up once failures stop: no state on disk refuses every start.
StartsSettle == <>[](server = "up")
=============================================================================
