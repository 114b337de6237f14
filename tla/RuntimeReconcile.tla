--------------------------- MODULE RuntimeReconcile ---------------------------
(***************************************************************************)
(* Who may change the resident runtime (dae-product-runtime, reconcile.rs    *)
(* and coordinator.rs, as coordinate_runtime_reload_inner and prepare_stop of *)
(* the daemon use them).  Reloads with the same fingerprint share a flight:   *)
(* the first leads, the others follow and take its result.  A lead prepares   *)
(* outside every lock, and a newer lead or a stop supersedes it until it has  *)
(* revalidated its epoch under the apply gate.  A stop waits for the gate.    *)
(*                                                                         *)
(* Each reload and each stop is a thread.  An atomic step is one access to    *)
(* shared memory: the watch channel of the desired signal, an atomic counter, *)
(* the flights map under its lock, the result of a flight, the gate.          *)
(*                                                                         *)
(* A fingerprint is the version of the desired state it was computed from.    *)
(* What an apply does to files and rows is RuntimeApply; here it succeeds, or  *)
(* fails and leaves the old generation or none.  The summary counters, phases  *)
(* and texts are left out: nothing reads them back.                           *)
(***************************************************************************)
EXTENDS Naturals, FiniteSets

CONSTANTS Reloads,     \* threads that run one coordinate_runtime_reload each
          Stops,       \* threads that stop the runtime once each
          NoThread,
          MaxVersion,  \* versions of the desired state in a behaviour
          MaxPanics    \* leads that unwind in a behaviour

ASSUME ThreadsAssumption ==
    Reloads \intersect Stops = {} /\ NoThread \notin Reloads \union Stops /\ IsFiniteSet(Stops)
ASSUME VersionsAssumption == MaxVersion \in Nat \ {0}
ASSUME PanicsAssumption == MaxPanics \in Nat

Threads == Reloads \union Stops
Versions == 1 .. MaxVersion
NotRunning == 0

VARIABLES
    config,       \* version of the desired state in the database
    active,       \* version the resident runtime was built from, or NotRunning
    next_desired_epoch,
    desired,      \* RuntimeDesiredSignal in the watch channel
    flights,      \* lead of the flight of each fingerprint
    flightsLock,
    result,       \* per lead, the result of its flight
    gate,         \* holder of the apply gate
    poisoned,     \* a holder of the gate has unwound
    stop_pending,
    stop_epoch,
    pc,
    plan,         \* per reload, the version of its snapshot and whether it was modified
    current,      \* the signal a thread has read
    epoch,        \* the desired epoch a thread has drawn
    accepted,     \* per reload, the coordinator's stop epoch it accepted
    joined,       \* per follower, the lead of its flight
    outcome,      \* per reload, what it is about to report or has reported
    preceded,     \* history: leads admitted before each stop published its signal
    committed,    \* history: epoch of the last lead that applied
    panics

shared == <<config, active, next_desired_epoch, desired, flights, flightsLock, result, gate, poisoned,
            stop_pending, stop_epoch>>
locals == <<pc, plan, current, epoch, accepted, joined, outcome>>
vars == <<shared, locals, preceded, committed, panics>>

Signals == [epoch : Nat, stop : Nat]
ReloadLabels == {"idle", "planned", "read", "epoch", "admitted", "preparing", "begin", "accept", "gate",
                 "check", "revalidate", "applying", "complete", "unflight", "following",
                 "answered"}
StopLabels == {"idle", "cancel_epoch", "cancel_send", "pending", "stopping", "lock", "take", "release",
               "unlock", "answered"}
Outcomes == {"none", "ok", "err"}

TypeOK ==
    /\ config \in Versions
    /\ active \in Versions \union {NotRunning}
    /\ next_desired_epoch \in Nat
    /\ desired \in Signals
    /\ flights \in [Versions -> Reloads \union {NoThread}]
    /\ flightsLock \in Reloads \union {NoThread}
    /\ result \in [Reloads -> Outcomes \union {"abandoned"}]
    /\ gate \in Threads \union {NoThread}
    /\ poisoned \in BOOLEAN
    /\ stop_pending \in Nat
    /\ stop_epoch \in Nat
    /\ pc \in [Threads -> ReloadLabels \union StopLabels]
    /\ plan \in [Reloads -> [version : Versions, modified : BOOLEAN]]
    /\ current \in [Threads -> Signals]
    /\ epoch \in [Threads -> Nat]
    /\ accepted \in [Reloads -> Nat]
    /\ joined \in [Reloads -> Reloads \union {NoThread}]
    /\ outcome \in [Reloads -> Outcomes]
    /\ preceded \in [Stops -> SUBSET Reloads]
    /\ committed \in Nat
    /\ panics \in 0 .. MaxPanics

\* The server is up; the runtime is that of the first version, or stopped.
Init ==
    /\ config = 1
    /\ active \in {1, NotRunning}
    /\ next_desired_epoch = 1
    /\ desired = [epoch |-> 0, stop |-> 0]
    /\ flights = [v \in Versions |-> NoThread]
    /\ flightsLock = NoThread
    /\ result = [r \in Reloads |-> "none"]
    /\ gate = NoThread /\ poisoned = FALSE
    /\ stop_pending = 0 /\ stop_epoch = 0
    /\ pc = [t \in Threads |-> "idle"]
    /\ plan = [r \in Reloads |-> [version |-> 1, modified |-> FALSE]]
    /\ current = [t \in Threads |-> [epoch |-> 0, stop |-> 0]]
    /\ epoch = [t \in Threads |-> 0]
    /\ accepted = [r \in Reloads |-> 0]
    /\ joined = [r \in Reloads |-> NoThread]
    /\ outcome = [r \in Reloads |-> "none"]
    /\ preceded = [s \in Stops |-> {}]
    /\ committed = 0
    /\ panics = 0

Step(t, from, to) == pc[t] = from /\ pc' = [pc EXCEPT ![t] = to]

\* The desired state is edited through the API.
Edit ==
    /\ config + 1 \in Versions
    /\ config' = config + 1
    /\ UNCHANGED <<active, next_desired_epoch, desired, flights, flightsLock, result, gate, poisoned,
                   stop_pending, stop_epoch, locals, preceded, committed, panics>>

-----------------------------------------------------------------------------
(* Snapshot and admit. *)

\* begin, then prepare_runtime_materialization_plan_with_modified_state: one database
\* snapshot gives the fingerprint and whether the running generation differs.
Snapshot(r) ==
    /\ Step(r, "idle", "planned")
    /\ plan' = [plan EXCEPT ![r] =
                  [version |-> config, modified |-> active # NotRunning /\ active # config]]
    /\ UNCHANGED <<shared, current, epoch, accepted, joined, outcome, preceded, committed, panics>>

\* The snapshot fails and the request is dropped.
SnapshotFails(r) ==
    /\ Step(r, "idle", "answered")
    /\ outcome' = [outcome EXCEPT ![r] = "err"]
    /\ UNCHANGED <<shared, plan, current, epoch, accepted, joined, preceded, committed, panics>>

\* The Weak of a flight upgrades while its lead or a follower holds it.
Upgrades(f) ==
    \/ result[f] = "none"
    \/ pc[f] \in {"complete", "unflight"}
    \/ \E g \in Reloads : pc[g] = "following" /\ joined[g] = f

\* A flight without a result is joined; an abandoned one has none.
Joinable(r) ==
    LET f == flights[plan[r].version] IN
    f # NoThread /\ Upgrades(f) /\ result[f] \in {"none", "abandoned"}

AdmitFollow(r) ==
    /\ flightsLock = NoThread
    /\ Joinable(r)
    /\ Step(r, "planned", "following")
    /\ joined' = [joined EXCEPT ![r] = flights[plan[r].version]]
    /\ UNCHANGED <<shared, plan, current, epoch, accepted, outcome, preceded, committed, panics>>

\* admit of a lead holds the flights lock from here to AdmitSend.
AdmitRead(r) ==
    /\ flightsLock = NoThread
    /\ ~Joinable(r)
    /\ Step(r, "planned", "read")
    /\ flightsLock' = r
    /\ current' = [current EXCEPT ![r] = desired]
    /\ UNCHANGED <<config, active, next_desired_epoch, desired, flights, result, gate, poisoned,
                   stop_pending, stop_epoch, plan, epoch, accepted, joined, outcome, preceded, committed,
                   panics>>

AdmitEpoch(r) ==
    /\ Step(r, "read", "epoch")
    /\ epoch' = [epoch EXCEPT ![r] = next_desired_epoch]
    /\ next_desired_epoch' = next_desired_epoch + 1
    /\ UNCHANGED <<config, active, desired, flights, flightsLock, result, gate, poisoned, stop_pending,
                   stop_epoch, plan, current, accepted, joined, outcome, preceded, committed, panics>>

\* send_replace, subscribe, insert and unlock.
AdmitSend(r) ==
    /\ Step(r, "epoch", "admitted")
    /\ desired' = [epoch |-> epoch[r], stop |-> current[r].stop]
    /\ flights' = [flights EXCEPT ![plan[r].version] = r]
    /\ flightsLock' = NoThread
    /\ UNCHANGED <<config, active, next_desired_epoch, result, gate, poisoned, stop_pending, stop_epoch,
                   plan, current, epoch, accepted, joined, outcome, preceded, committed, panics>>

-----------------------------------------------------------------------------
(* The lead. *)

\* Defect: only a stop supersedes.
SupersededByStop(r) == desired.stop # current[r].stop

Superseded(r) ==
    \/ desired.stop # current[r].stop
    \/ desired.epoch # epoch[r]

\* finish: the lead reports, and so do its followers.
Finish(r, from, what) ==
    /\ Step(r, from, "complete")
    /\ outcome' = [outcome EXCEPT ![r] = what]

LeadLocals == <<plan, current, epoch, joined>>

\* A checkpoint, here and between the stages of the preparation, gives up when
\* superseded.
CheckpointFails(r) ==
    /\ Superseded(r)
    /\ \E from \in {"admitted", "preparing"} : Finish(r, from, "err")
    /\ UNCHANGED <<shared, LeadLocals, accepted, preceded, committed, panics>>

\* The running generation already is the one the plan asks for: commit at once,
\* nothing to prepare.
CanCoalesce(r) == active # NotRunning /\ ~plan[r].modified

\* A changed activation identity or CA bundle rules the short way out.
Checkpoint(r) ==
    /\ ~Superseded(r)
    /\ \/ CanCoalesce(r) /\ Step(r, "admitted", "begin") /\ UNCHANGED plan
       \/ /\ Step(r, "admitted", "preparing")
          /\ plan' = [plan EXCEPT ![r] = [version |-> plan[r].version, modified |-> TRUE]]
    /\ UNCHANGED <<shared, current, epoch, accepted, joined, outcome, preceded, committed, panics>>

\* Build, preflight and the profiling port, and the last checkpoint.
Prepare(r) ==
    /\ ~Superseded(r)
    /\ Step(r, "preparing", "begin")
    /\ UNCHANGED <<shared, LeadLocals, accepted, outcome, preceded, committed, panics>>

PrepareFails(r) ==
    /\ Finish(r, "preparing", "err")
    /\ UNCHANGED <<shared, LeadLocals, accepted, preceded, committed, panics>>

-----------------------------------------------------------------------------
(* begin_commit: begin_apply of the coordinator, then the signal once more. *)

BeginApply(r) ==
    /\ \/ stop_pending = 0 /\ Step(r, "begin", "accept") /\ UNCHANGED outcome
       \/ stop_pending # 0 /\ Finish(r, "begin", "err")
    /\ UNCHANGED <<shared, LeadLocals, accepted, preceded, committed, panics>>

AcceptEpoch(r) ==
    /\ Step(r, "accept", "gate")
    /\ accepted' = [accepted EXCEPT ![r] = stop_epoch]
    /\ UNCHANGED <<shared, LeadLocals, outcome, preceded, committed, panics>>

\* lock_gate_with_timeout: a gate that is free is taken; one that is held may be
\* held until the timeout.
LockGate(r) ==
    /\ gate = NoThread /\ ~poisoned
    /\ gate' = r
    /\ Step(r, "gate", "check")
    /\ UNCHANGED <<config, active, next_desired_epoch, desired, flights, flightsLock, result, poisoned,
                   stop_pending, stop_epoch, LeadLocals, accepted, outcome, preceded, committed, panics>>

LockGateFails(r) ==
    /\ gate # NoThread \/ poisoned
    /\ Finish(r, "gate", "err")
    /\ UNCHANGED <<shared, LeadLocals, accepted, preceded, committed, panics>>

ReleaseGate == gate' = NoThread

\* A refused permit is dropped before the lead reports.
RefusePermit(r, from) == ReleaseGate /\ Finish(r, from, "err")

GateShared == <<config, active, next_desired_epoch, desired, flights, flightsLock, result, poisoned,
                stop_pending, stop_epoch>>

CheckStop(r) ==
    /\ \/ /\ stop_epoch = accepted[r] /\ stop_pending = 0
          /\ Step(r, "check", "revalidate")
          /\ UNCHANGED <<gate, outcome>>
       \/ /\ stop_epoch # accepted[r] \/ stop_pending # 0
          /\ RefusePermit(r, "check")
    /\ UNCHANGED <<GateShared, LeadLocals, accepted, preceded, committed, panics>>

\* Defect: a plan that holds the gate is not checked again.
RevalidateNothing(r) ==
    /\ Step(r, "revalidate", "applying")
    /\ UNCHANGED <<shared, outcome, LeadLocals, accepted, preceded, committed, panics>>

Revalidate(r) ==
    /\ \/ ~Superseded(r) /\ Step(r, "revalidate", "applying") /\ UNCHANGED <<gate, outcome>>
       \/ Superseded(r) /\ RefusePermit(r, "revalidate")
    /\ UNCHANGED <<GateShared, LeadLocals, accepted, preceded, committed, panics>>

\* apply_prepared_runtime_reload, or nothing when coalesced; then permit.finish.
Apply(r) ==
    /\ Step(r, "applying", "complete")
    /\ \E ok \in BOOLEAN :
          /\ ~plan[r].modified => ok
          /\ outcome' = [outcome EXCEPT ![r] = IF ok THEN "ok" ELSE "err"]
          /\ active' \in IF ok THEN {IF plan[r].modified THEN plan[r].version ELSE active}
                               ELSE {active, NotRunning}
    /\ committed' = epoch[r]
    /\ ReleaseGate
    /\ UNCHANGED <<config, next_desired_epoch, desired, flights, flightsLock, result, poisoned,
                   stop_pending, stop_epoch, LeadLocals, accepted, preceded, panics>>

\* complete: the result, then the flight if it still is this one.
Complete(r) ==
    /\ Step(r, "complete", "unflight")
    /\ result' = [result EXCEPT ![r] = outcome[r]]
    /\ UNCHANGED <<config, active, next_desired_epoch, desired, flights, flightsLock, gate, poisoned,
                   stop_pending, stop_epoch, LeadLocals, accepted, outcome, preceded, committed, panics>>

\* Defect: whatever flight the fingerprint has is removed.
RemoveAnyFlight(r) ==
    /\ flightsLock = NoThread
    /\ Step(r, "unflight", "answered")
    /\ flights' = [flights EXCEPT ![plan[r].version] = NoThread]
    /\ UNCHANGED <<config, active, next_desired_epoch, desired, flightsLock, result, gate, poisoned,
                   stop_pending, stop_epoch, LeadLocals, accepted, outcome, preceded, committed, panics>>

RemoveFlight(r) ==
    /\ flightsLock = NoThread
    /\ Step(r, "unflight", "answered")
    /\ flights' = IF flights[plan[r].version] = r
                  THEN [flights EXCEPT ![plan[r].version] = NoThread] ELSE flights
    /\ UNCHANGED <<config, active, next_desired_epoch, desired, flightsLock, result, gate, poisoned,
                   stop_pending, stop_epoch, LeadLocals, accepted, outcome, preceded, committed, panics>>

\* Defect: an unwinding lead leaves its followers to wait.
AbandonSilently(r) == result' = result

\* Drop of a lead that did not finish.
Abandon(r) == result' = [result EXCEPT ![r] = "abandoned"]

\* The lead unwinds while it prepares, or inside the apply, whose permit then
\* poisons the gate.
Panic(r) ==
    /\ panics < MaxPanics
    /\ panics' = panics + 1
    /\ outcome' = [outcome EXCEPT ![r] = "err"]
    /\ Abandon(r)
    /\ \/ /\ Step(r, "preparing", "answered")
          /\ UNCHANGED <<active, gate, poisoned, committed>>
       \/ /\ Step(r, "applying", "answered")
          /\ plan[r].modified
          /\ active' \in {active, plan[r].version, NotRunning}
          /\ ReleaseGate
          /\ poisoned' = TRUE
          /\ committed' = epoch[r]
    /\ UNCHANGED <<config, next_desired_epoch, desired, flights, flightsLock, stop_pending, stop_epoch,
                   LeadLocals, accepted, preceded>>

\* wait: the follower takes the result of the flight, or learns that its owner is gone.
Follow(r) ==
    /\ pc[r] = "following"
    /\ result[joined[r]] # "none"
    /\ Step(r, "following", "answered")
    /\ outcome' = [outcome EXCEPT ![r] = IF result[joined[r]] = "ok" THEN "ok" ELSE "err"]
    /\ UNCHANGED <<shared, LeadLocals, accepted, preceded, committed, panics>>

-----------------------------------------------------------------------------
(* prepare_stop: cancel_preparation_for_stop, then begin_stop; the runtime is  *)
(* taken and the permit finished.                                             *)

CancelRead(s) ==
    /\ Step(s, "idle", "cancel_epoch")
    /\ current' = [current EXCEPT ![s] = desired]
    /\ UNCHANGED <<shared, plan, epoch, accepted, joined, outcome, preceded, committed, panics>>

CancelEpoch(s) ==
    /\ Step(s, "cancel_epoch", "cancel_send")
    /\ epoch' = [epoch EXCEPT ![s] = next_desired_epoch]
    /\ next_desired_epoch' = next_desired_epoch + 1
    /\ UNCHANGED <<config, active, desired, flights, flightsLock, result, gate, poisoned, stop_pending,
                   stop_epoch, plan, current, accepted, joined, outcome, preceded, committed, panics>>

\* Past admit, whatever became of the lead since.
Admitted(r) == pc[r] \notin {"idle", "planned", "read", "epoch", "following"} /\ epoch[r] # 0

CancelSend(s) ==
    /\ Step(s, "cancel_send", "pending")
    /\ desired' = [epoch |-> epoch[s], stop |-> current[s].stop + 1]
    /\ preceded' = [preceded EXCEPT ![s] = {r \in Reloads : Admitted(r)}]
    /\ UNCHANGED <<config, active, next_desired_epoch, flights, flightsLock, result, gate, poisoned,
                   stop_pending, stop_epoch, plan, current, epoch, accepted, joined, outcome, committed,
                   panics>>

BeginStop(s) ==
    /\ \/ Step(s, "pending", "stopping") /\ stop_pending' = stop_pending + 1 /\ UNCHANGED stop_epoch
       \/ Step(s, "stopping", "lock") /\ stop_epoch' = stop_epoch + 1 /\ UNCHANGED stop_pending
    /\ UNCHANGED <<config, active, next_desired_epoch, desired, flights, flightsLock, result, gate,
                   poisoned, plan, current, epoch, accepted, joined, outcome, preceded, committed, panics>>

StopShared == <<config, next_desired_epoch, desired, flights, flightsLock, result, poisoned, stop_epoch>>

StopLock(s) ==
    /\ gate = NoThread
    /\ \/ ~poisoned /\ gate' = s /\ Step(s, "lock", "take") /\ UNCHANGED stop_pending
       \/ poisoned /\ Step(s, "lock", "answered") /\ stop_pending' = stop_pending - 1 /\ UNCHANGED gate
    /\ UNCHANGED <<StopShared, active, LeadLocals, accepted, outcome, preceded, committed, panics>>

\* take_runtime, then release_pending, then the gate goes with the permit.
Stop(s) ==
    /\ \/ /\ Step(s, "take", "release")
          /\ active' = NotRunning
          /\ UNCHANGED <<stop_pending, gate>>
       \/ /\ Step(s, "release", "unlock")
          /\ stop_pending' = stop_pending - 1
          /\ UNCHANGED <<active, gate>>
       \/ /\ Step(s, "unlock", "answered")
          /\ ReleaseGate
          /\ UNCHANGED <<active, stop_pending>>
    /\ UNCHANGED <<StopShared, LeadLocals, accepted, outcome, preceded, committed, panics>>

-----------------------------------------------------------------------------

ReloadStep(r) ==
    \/ Snapshot(r) \/ SnapshotFails(r)
    \/ AdmitFollow(r) \/ AdmitRead(r) \/ AdmitEpoch(r) \/ AdmitSend(r)
    \/ CheckpointFails(r) \/ Checkpoint(r) \/ Prepare(r) \/ PrepareFails(r)
    \/ BeginApply(r) \/ AcceptEpoch(r) \/ LockGate(r) \/ LockGateFails(r) \/ CheckStop(r)
    \/ Revalidate(r) \/ Apply(r) \/ Complete(r) \/ RemoveFlight(r)
    \/ Follow(r)

StopStep(s) ==
    CancelRead(s) \/ CancelEpoch(s) \/ CancelSend(s) \/ BeginStop(s) \/ StopLock(s) \/ Stop(s)

Next ==
    \/ Edit
    \/ \E r \in Reloads : ReloadStep(r) \/ Panic(r)
    \/ \E s \in Stops : StopStep(s)

Spec == Init /\ [][Next]_vars

\* A thread that has begun goes on: the gate and the locks are held for a bounded
\* time, and a reload waits for the gate no longer than its timeout.
Fairness ==
    /\ \A r \in Reloads : WF_vars(pc[r] # "idle" /\ ReloadStep(r))
    /\ \A s \in Stops : WF_vars(pc[s] # "idle" /\ StopStep(s))

FairSpec == Spec /\ Fairness

-----------------------------------------------------------------------------
(* Properties. *)

\* Once a stop has the gate, no lead that was admitted before it published its signal
\* applies any more, although the watch channel is written by read-modify-write without
\* a lock and an admission may overwrite what the stop published.
StopSupersedes ==
    \A s \in Stops, r \in Reloads :
        r \in preceded[s] /\ pc[s] \in {"take", "release", "unlock", "answered"} => pc[r] # "applying"

\* Applies happen in the order of admission: a lead that is about to apply was
\* admitted after every lead that has applied before.
AppliesInEpochOrder ==
    \A r \in Reloads : pc[r] = "applying" => epoch[r] > committed

\* A lead that has not reported yet is the one its fingerprint finds: the late cleanup
\* of an earlier flight never hides it, which would start a second apply of the same
\* state and supersede the first.
LeadIsJoinable ==
    \A r \in Reloads :
        pc[r] \in {"admitted", "preparing", "begin", "accept", "gate", "check", "revalidate",
                   "applying", "complete"} =>
            flights[plan[r].version] = r

\* Nobody waits for ever: each reload is answered, a follower of a lead that unwinds
\* and a lead that finds the gate held or poisoned included, and each stop returns.
EveryoneAnswered ==
    []<>(\A t \in Threads : pc[t] \in {"idle", "answered"})
=============================================================================
