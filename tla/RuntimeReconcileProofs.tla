----------------------- MODULE RuntimeReconcileProofs -----------------------
(* Proofs about RuntimeReconcile for every set of reloads, every finite set of *)
(* stops and every bound: types, that a stop supersedes what was admitted       *)
(* before it, the order of applies, and that a lead can be joined.              *)
EXTENDS RuntimeReconcile, FiniteSetTheorems, TLAPS

-----------------------------------------------------------------------------
(* Types.  stop_pending is a natural number because it counts stops. *)

\* TypeOK but for stop_pending.
SharedOK ==
    /\ config \in Versions
    /\ active \in Versions \union {NotRunning}
    /\ next_desired_epoch \in Nat
    /\ desired \in Signals
    /\ flights \in [Versions -> Reloads \union {NoThread}]
    /\ flightsLock \in Reloads \union {NoThread}
    /\ result \in [Reloads -> Outcomes \union {"abandoned"}]
    /\ gate \in Threads \union {NoThread}
    /\ stop_epoch \in Nat
    /\ committed \in Nat
    /\ panics \in 0 .. MaxPanics
LocalsOK ==
    /\ pc \in [Threads -> ReloadLabels \union StopLabels]
    /\ plan \in [Reloads -> [version : Versions, modified : BOOLEAN]]
    /\ current \in [Threads -> Signals]
    /\ epoch \in [Threads -> Nat]
    /\ accepted \in [Reloads -> Nat]
    /\ joined \in [Reloads -> Reloads \union {NoThread}]
    /\ outcome \in [Reloads -> Outcomes]
    /\ preceded \in [Stops -> SUBSET Reloads]
TypeCore == SharedOK /\ LocalsOK

\* A reload's steps keep the types.
LEMMA ReloadTypes ==
    ASSUME TypeCore, NEW r \in Reloads, ReloadStep(r) \/ Panic(r)
    PROVE  TypeCore'
<1> USE DEF TypeCore, SharedOK, LocalsOK, Threads, Signals, ReloadLabels, StopLabels, Outcomes,
            shared, GateShared, LeadLocals, Step, Finish, RefusePermit, ReleaseGate
<1>1. CASE Snapshot(r)
  BY <1>1 DEF Snapshot
<1>2. CASE SnapshotFails(r)
  BY <1>2 DEF SnapshotFails
<1>3. CASE AdmitFollow(r)
  BY <1>3 DEF AdmitFollow
<1>4. CASE AdmitRead(r)
  BY <1>4 DEF AdmitRead
<1>5. CASE AdmitEpoch(r)
  BY <1>5 DEF AdmitEpoch
<1>6. CASE AdmitSend(r)
  BY <1>6 DEF AdmitSend
<1>7. CASE CheckpointFails(r)
  BY <1>7 DEF CheckpointFails
<1>8. CASE Checkpoint(r)
  <2>1. CASE Step(r, "admitted", "begin") /\ UNCHANGED plan
    BY <1>8, <2>1 DEF Checkpoint
  <2>2. CASE /\ Step(r, "admitted", "preparing")
             /\ plan' = [plan EXCEPT ![r] = [version |-> plan[r].version, modified |-> TRUE]]
    BY <1>8, <2>2 DEF Checkpoint
  <2> QED BY <1>8, <2>1, <2>2 DEF Checkpoint
<1>9. CASE Prepare(r) \/ PrepareFails(r)
  BY <1>9 DEF Prepare, PrepareFails
<1>10. CASE BeginApply(r)
  <2>1. CASE Step(r, "begin", "accept") /\ UNCHANGED outcome
    BY <1>10, <2>1 DEF BeginApply
  <2>2. CASE Finish(r, "begin", "err")
    BY <1>10, <2>2 DEF BeginApply
  <2> QED BY <1>10, <2>1, <2>2 DEF BeginApply
<1>19. CASE AcceptEpoch(r)
  BY <1>19 DEF AcceptEpoch
<1>11. CASE LockGate(r) \/ LockGateFails(r)
  BY <1>11 DEF LockGate, LockGateFails
<1>12. CASE CheckStop(r)
  BY <1>12 DEF CheckStop
<1>13. CASE Revalidate(r)
  BY <1>13 DEF Revalidate
<1>14. CASE Apply(r)
  BY <1>14 DEF Apply
<1>15. CASE Complete(r)
  BY <1>15 DEF Complete
<1>16. CASE RemoveFlight(r)
  BY <1>16 DEF RemoveFlight
<1>17. CASE Follow(r)
  BY <1>17 DEF Follow
<1>18. CASE Panic(r)
  <2>1. SharedOK'
    BY <1>18, PanicsAssumption DEF Panic, Abandon
  <2>2. LocalsOK'
    BY <1>18 DEF Panic
  <2> QED BY <2>1, <2>2
<1> QED BY <1>1, <1>2, <1>3, <1>4, <1>5, <1>6, <1>7, <1>8, <1>9, <1>10, <1>11, <1>12, <1>13,
           <1>14, <1>15, <1>16, <1>17, <1>18, <1>19 DEF ReloadStep

\* So do a stop's.
LEMMA StopTypes ==
    ASSUME TypeCore, NEW s \in Stops, StopStep(s)
    PROVE  TypeCore'
<1> USE DEF TypeCore, SharedOK, LocalsOK, Threads, Signals, ReloadLabels, StopLabels,
            shared, StopShared, LeadLocals, Step, ReleaseGate
<1>1. CASE CancelRead(s)
  BY <1>1 DEF CancelRead
<1>2. CASE CancelEpoch(s)
  BY <1>2 DEF CancelEpoch
<1>3. CASE CancelSend(s)
  BY <1>3 DEF CancelSend
<1>4. CASE BeginStop(s)
  <2>1. CASE Step(s, "pending", "stopping") /\ UNCHANGED stop_epoch
    BY <1>4, <2>1 DEF BeginStop
  <2>2. CASE Step(s, "stopping", "lock") /\ stop_epoch' = stop_epoch + 1
    BY <1>4, <2>2 DEF BeginStop
  <2> QED BY <1>4, <2>1, <2>2 DEF BeginStop
<1>5. CASE StopLock(s)
  BY <1>5 DEF StopLock
<1>6. CASE Stop(s)
  BY <1>6 DEF Stop
<1> QED BY <1>1, <1>2, <1>3, <1>4, <1>5, <1>6 DEF StopStep

\* TypeCore is preserved.
LEMMA CoreStep == ASSUME TypeCore, [Next]_vars PROVE TypeCore'
<1>1. CASE UNCHANGED vars
  BY <1>1 DEF vars, shared, locals, TypeCore, SharedOK, LocalsOK
<1>2. CASE Edit
  BY <1>2 DEF Edit, locals, TypeCore, SharedOK, LocalsOK
<1> QED BY <1>1, <1>2, ReloadTypes, StopTypes DEF Next

\* A reload's step leaves to the other threads what is theirs.
LEMMA ReloadFrame ==
    ASSUME TypeCore, NEW r \in Reloads, ReloadStep(r) \/ Panic(r)
    PROVE  /\ UNCHANGED <<stop_pending, preceded>>
           /\ \A t \in Threads : t # r => pc'[t] = pc[t]
<1> USE DEF TypeCore, LocalsOK, Threads, shared, GateShared, LeadLocals, Step, Finish, RefusePermit
<1>1. CASE ReloadStep(r)
  <2>1. CASE Snapshot(r) \/ SnapshotFails(r) \/ AdmitFollow(r) \/ AdmitRead(r) \/ AdmitEpoch(r)
             \/ AdmitSend(r) \/ CheckpointFails(r)
    BY <2>1 DEF Snapshot, SnapshotFails, AdmitFollow, AdmitRead, AdmitEpoch, AdmitSend, CheckpointFails
  <2>2. CASE Checkpoint(r) \/ Prepare(r) \/ PrepareFails(r) \/ BeginApply(r) \/ AcceptEpoch(r)
             \/ LockGate(r) \/ LockGateFails(r)
    BY <2>2 DEF Checkpoint, Prepare, PrepareFails, BeginApply, AcceptEpoch, LockGate, LockGateFails
  <2>3. CASE CheckStop(r) \/ Revalidate(r) \/ Apply(r) \/ Complete(r) \/ RemoveFlight(r) \/ Follow(r)
    BY <2>3 DEF CheckStop, Revalidate, Apply, Complete, RemoveFlight, Follow
  <2> QED BY <1>1, <2>1, <2>2, <2>3 DEF ReloadStep
<1>2. CASE Panic(r)
  BY <1>2 DEF Panic
<1> QED BY <1>1, <1>2

\* A stop's step leaves the reloads and their flights alone.
LEMMA StopFrame ==
    ASSUME TypeCore, NEW s \in Stops, StopStep(s)
    PROVE  /\ UNCHANGED <<flights, flightsLock, result, plan, joined, committed>>
           /\ \A t \in Threads : t # s => pc'[t] = pc[t] /\ epoch'[t] = epoch[t]
<1> USE DEF TypeCore, LocalsOK, Threads, shared, StopShared, LeadLocals, Step
<1>1. CASE CancelRead(s) \/ CancelEpoch(s) \/ CancelSend(s)
  BY <1>1 DEF CancelRead, CancelEpoch, CancelSend
<1>2. CASE BeginStop(s) \/ StopLock(s) \/ Stop(s)
  BY <1>2 DEF BeginStop, StopLock, Stop
<1> QED BY <1>1, <1>2 DEF StopStep

-----------------------------------------------------------------------------
\* The stops that have raised stop_pending and not lowered it yet.
PendingStops == {s \in Stops : pc[s] \in {"stopping", "lock", "take", "release"}}
PendingCounted == stop_pending = Cardinality(PendingStops)

\* stop_pending counts the stops that are pending, so that it is never lowered from zero.
LEMMA PendingStep ==
    ASSUME TypeCore, PendingCounted, [Next]_vars
    PROVE  PendingCounted'
<1>1. ASSUME UNCHANGED stop_pending, PendingStops' = PendingStops
      PROVE  PendingCounted'
  BY <1>1 DEF PendingCounted
<1>2. IsFiniteSet(PendingStops)
  BY ThreadsAssumption, FS_Subset DEF PendingStops
<1>3. CASE UNCHANGED vars \/ Edit
  BY <1>1, <1>3 DEF vars, shared, locals, Edit, PendingStops
<1>4. ASSUME NEW r \in Reloads, ReloadStep(r) \/ Panic(r) PROVE PendingCounted'
  <2>1. UNCHANGED stop_pending /\ \A t \in Threads : t # r => pc'[t] = pc[t]
    BY <1>4, ReloadFrame
  <2>2. PendingStops' = PendingStops
    BY <2>1, ThreadsAssumption DEF PendingStops, Threads
  <2> QED BY <1>1, <2>1, <2>2
<1>5. ASSUME NEW s \in Stops, StopStep(s) PROVE PendingCounted'
  <2> USE DEF PendingStops, TypeCore, LocalsOK, Threads, Step
  <2>1. CASE CancelRead(s) \/ CancelEpoch(s) \/ CancelSend(s)
    BY <1>1, <2>1 DEF CancelRead, CancelEpoch, CancelSend, shared
  <2>2. CASE Step(s, "pending", "stopping") /\ stop_pending' = stop_pending + 1
    <3>1. PendingStops' = PendingStops \union {s} /\ s \notin PendingStops
      BY <2>2
    <3> QED BY <1>2, <2>2, <3>1, FS_AddElement DEF PendingCounted
  <2>3. CASE Step(s, "stopping", "lock") /\ UNCHANGED stop_pending
    BY <1>1, <2>3
  <2>4. CASE Step(s, "lock", "take") /\ UNCHANGED stop_pending
    BY <1>1, <2>4
  <2>5. CASE /\ Step(s, "lock", "answered") \/ Step(s, "release", "unlock")
             /\ stop_pending' = stop_pending - 1
    <3>1. PendingStops' = PendingStops \ {s} /\ s \in PendingStops
      BY <2>5
    <3> HIDE DEF PendingStops
    <3>2. Cardinality(PendingStops \ {s}) = Cardinality(PendingStops) - 1
      BY <1>2, <3>1, FS_RemoveElement
    <3> QED BY <2>5, <3>1, <3>2 DEF PendingCounted
  <2>6. CASE Step(s, "take", "release") /\ UNCHANGED stop_pending
    BY <1>1, <2>6
  <2>7. CASE Step(s, "unlock", "answered") /\ UNCHANGED stop_pending
    BY <1>1, <2>7
  <2> QED BY <1>5, <2>1, <2>2, <2>3, <2>4, <2>5, <2>6, <2>7 DEF StopStep, BeginStop, StopLock, Stop
<1> QED BY <1>3, <1>4, <1>5 DEF Next

\* The poison flag stays a Boolean.
LEMMA PoisonedStep == ASSUME poisoned \in BOOLEAN, [Next]_vars PROVE poisoned' \in BOOLEAN
<1> USE DEF shared, GateShared, StopShared
<1>1. CASE UNCHANGED vars \/ Edit
  BY <1>1 DEF vars, Edit
<1>2. ASSUME NEW r \in Reloads, ReloadStep(r) \/ Panic(r) PROVE poisoned' \in BOOLEAN
  BY <1>2 DEF ReloadStep, Snapshot, SnapshotFails, AdmitFollow, AdmitRead, AdmitEpoch, AdmitSend,
     CheckpointFails, Checkpoint, Prepare, PrepareFails, BeginApply, AcceptEpoch, LockGate, LockGateFails,
     CheckStop, Revalidate, Apply, Complete, RemoveFlight, Follow, Panic
<1>3. ASSUME NEW s \in Stops, StopStep(s) PROVE poisoned' \in BOOLEAN
  BY <1>3 DEF StopStep, CancelRead, CancelEpoch, CancelSend, BeginStop, StopLock, Stop
<1> QED BY <1>1, <1>2, <1>3 DEF Next

\* The fields keep their types; in particular a stop never lowers stop_pending below zero,
\* which in the code would wrap and refuse every later apply.
THEOREM TypeCorrect == Spec => []TypeOK
<1> DEFINE Inv == TypeCore /\ PendingCounted /\ poisoned \in BOOLEAN
<1>1. Init => Inv
  <2> SUFFICES ASSUME Init PROVE Inv
    OBVIOUS
  <2>1. TypeCore
    BY VersionsAssumption, PanicsAssumption DEF Init, TypeCore, SharedOK, LocalsOK, Versions, Signals,
       ReloadLabels, StopLabels, Outcomes, NotRunning, Threads
  <2>2. PendingStops = {}
    BY DEF Init, PendingStops, Threads
  <2> QED BY <2>1, <2>2, FS_EmptySet DEF Init, PendingCounted
<1>2. Inv /\ [Next]_vars => Inv'
  <2> SUFFICES ASSUME Inv, [Next]_vars PROVE Inv'
    OBVIOUS
  <2>1. poisoned' \in BOOLEAN
    BY PoisonedStep
  <2> QED BY <2>1, CoreStep, PendingStep
<1>3. Inv => TypeOK
  <2> SUFFICES ASSUME Inv PROVE TypeOK
    OBVIOUS
  <2>1. stop_pending \in Nat
    <3>1. IsFiniteSet(PendingStops)
      BY ThreadsAssumption, FS_Subset DEF PendingStops
    <3> QED BY <3>1, FS_CardinalityType DEF PendingCounted
  <2> QED BY <2>1 DEF TypeOK, TypeCore, SharedOK, LocalsOK
<1> QED BY <1>1, <1>2, <1>3, PTL DEF Spec

-----------------------------------------------------------------------------
(* Who holds what. *)

\* The flights lock and the gate belong to the thread that is inside.
HolderInv ==
    /\ \A r \in Reloads : pc[r] \in {"read", "epoch"} => flightsLock = r
    /\ \A r \in Reloads : pc[r] \in {"check", "revalidate", "applying"} => gate = r
    /\ \A s \in Stops : pc[s] \in {"take", "release", "unlock"} => gate = s

\* Every step keeps the holders.
LEMMA HolderStep == ASSUME TypeCore, HolderInv, [Next]_vars PROVE HolderInv'
<1> USE ThreadsAssumption DEF HolderInv, TypeCore, LocalsOK, Threads, shared, GateShared, StopShared,
        LeadLocals, Step, Finish, RefusePermit, ReleaseGate
<1>1. CASE UNCHANGED vars \/ Edit
  BY <1>1 DEF vars, locals, Edit
<1>2. ASSUME NEW r \in Reloads, ReloadStep(r) \/ Panic(r) PROVE HolderInv'
  <2>1. CASE Snapshot(r) \/ SnapshotFails(r) \/ AdmitFollow(r)
    BY <2>1 DEF Snapshot, SnapshotFails, AdmitFollow
  <2>2. CASE AdmitRead(r)
    BY <2>2 DEF AdmitRead
  <2>3. CASE AdmitEpoch(r) \/ AdmitSend(r)
    BY <2>3 DEF AdmitEpoch, AdmitSend
  <2>4. CASE CheckpointFails(r) \/ Checkpoint(r) \/ Prepare(r) \/ PrepareFails(r)
    BY <2>4 DEF CheckpointFails, Checkpoint, Prepare, PrepareFails
  <2>5. CASE BeginApply(r) \/ AcceptEpoch(r) \/ LockGateFails(r)
    BY <2>5 DEF BeginApply, AcceptEpoch, LockGateFails
  <2>6. CASE LockGate(r)
    BY <2>6 DEF LockGate
  <2>7. CASE CheckStop(r)
    BY <2>7 DEF CheckStop
  <2>8. CASE Revalidate(r)
    BY <2>8 DEF Revalidate
  <2>9. CASE Apply(r)
    BY <2>9 DEF Apply
  <2>10. CASE Complete(r) \/ RemoveFlight(r) \/ Follow(r)
    BY <2>10 DEF Complete, RemoveFlight, Follow
  <2>11. CASE Panic(r)
    BY <2>11 DEF Panic
  <2> QED BY <1>2, <2>1, <2>2, <2>3, <2>4, <2>5, <2>6, <2>7, <2>8, <2>9, <2>10, <2>11 DEF ReloadStep
<1>3. ASSUME NEW s \in Stops, StopStep(s) PROVE HolderInv'
  <2>1. CASE CancelRead(s) \/ CancelEpoch(s) \/ CancelSend(s)
    BY <2>1 DEF CancelRead, CancelEpoch, CancelSend
  <2>2. CASE BeginStop(s)
    BY <2>2 DEF BeginStop
  <2>3. CASE StopLock(s)
    BY <2>3 DEF StopLock
  <2>4. CASE Stop(s)
    BY <2>4 DEF Stop
  <2> QED BY <1>3, <2>1, <2>2, <2>3, <2>4 DEF StopStep
<1> QED BY <1>1, <1>2, <1>3 DEF Next

-----------------------------------------------------------------------------
(* A lead can be joined. *)

Leads == {"admitted", "preparing", "begin", "accept", "gate", "check", "revalidate", "applying",
          "complete"}

\* LeadIsJoinable, with what makes it inductive: a flight has no result before its lead
\* reports, and a reload inside admit has found no lead of its fingerprint.
FlightInv ==
    /\ \A r \in Reloads : pc[r] \in Leads => flights[plan[r].version] = r
    /\ \A r \in Reloads : pc[r] \in Leads \union {"idle", "planned", "read", "epoch"} => result[r] = "none"
    /\ \A q, r \in Reloads : pc[q] \in {"read", "epoch"} /\ pc[r] \in Leads =>
                               plan[r].version # plan[q].version

\* Every step keeps the flights joinable: a new lead found none of its fingerprint, and an
\* old one removes only itself.
LEMMA FlightStep == ASSUME TypeCore, HolderInv, FlightInv, [Next]_vars PROVE FlightInv'
<1> USE ThreadsAssumption DEF FlightInv, Leads
<1>1. CASE UNCHANGED vars \/ Edit
  BY <1>1 DEF vars, shared, locals, Edit
<1>2. ASSUME NEW s \in Stops, StopStep(s) PROVE FlightInv'
  <2>1. UNCHANGED <<flights, result, plan>> /\ \A t \in Reloads : pc'[t] = pc[t]
    BY <1>2, StopFrame DEF Threads
  <2> QED BY <2>1
<1>3. ASSUME NEW r \in Reloads, ReloadStep(r) \/ Panic(r) PROVE FlightInv'
  <2> USE DEF TypeCore, SharedOK, LocalsOK, HolderInv, Threads, shared, GateShared, LeadLocals, Step,
              Finish, RefusePermit
  <2>1. CASE Snapshot(r)
    BY <2>1 DEF Snapshot
  <2>2. CASE SnapshotFails(r) \/ AdmitFollow(r) \/ Follow(r)
    <3>1. /\ UNCHANGED <<flights, result, plan>>
          /\ pc'[r] \in {"following", "answered"} /\ \A q \in Reloads : q # r => pc'[q] = pc[q]
      BY <2>2 DEF SnapshotFails, AdmitFollow, Follow
    <3> QED BY <3>1
  <2>3. CASE AdmitRead(r)
    <3>1. \A q \in Reloads : pc[q] \in Leads => plan[q].version # plan[r].version
      BY <2>3 DEF AdmitRead, Joinable, Upgrades
    <3> QED BY <2>3, <3>1 DEF AdmitRead
  <2>4. CASE AdmitEpoch(r)
    BY <2>4 DEF AdmitEpoch
  <2>5. CASE AdmitSend(r)
    BY <2>5 DEF AdmitSend
  <2>6. CASE Checkpoint(r)
    <3>1. plan'[r].version = plan[r].version /\ \A q \in Reloads : q # r => plan'[q] = plan[q]
      BY <2>6 DEF Checkpoint
    <3> QED BY <2>6, <3>1 DEF Checkpoint
  <2>7. CASE CheckpointFails(r) \/ Prepare(r) \/ PrepareFails(r) \/ BeginApply(r) \/ AcceptEpoch(r)
    BY <2>7 DEF CheckpointFails, Prepare, PrepareFails, BeginApply, AcceptEpoch
  <2>8. CASE LockGate(r) \/ LockGateFails(r) \/ CheckStop(r) \/ Revalidate(r) \/ Apply(r)
    BY <2>8 DEF LockGate, LockGateFails, CheckStop, Revalidate, Apply
  <2>9. CASE Complete(r)
    BY <2>9 DEF Complete
  <2>10. CASE RemoveFlight(r)
    BY <2>10 DEF RemoveFlight
  <2>11. CASE Panic(r)
    <3>1. /\ UNCHANGED <<flights, plan>> /\ \A q \in Reloads : q # r => result'[q] = result[q]
          /\ pc'[r] = "answered" /\ \A q \in Reloads : q # r => pc'[q] = pc[q]
      BY <2>11 DEF Panic, Abandon
    <3> QED BY <3>1
  <2> QED BY <1>3, <2>1, <2>2, <2>3, <2>4, <2>5, <2>6, <2>7, <2>8, <2>9, <2>10, <2>11 DEF ReloadStep
<1> QED BY <1>1, <1>2, <1>3 DEF Next

-----------------------------------------------------------------------------
(* Epochs. *)

\* Every thread draws one epoch of its own: reloads in admit, stops in
\* cancel_preparation_for_stop.
EpochInv ==
    /\ next_desired_epoch # 0
    /\ \A t \in Threads : epoch[t] < next_desired_epoch
    /\ \A t, u \in Threads : epoch[t] = epoch[u] /\ t # u => epoch[t] = 0
    /\ \A r \in Reloads : pc[r] \in {"idle", "planned", "read", "following"} => epoch[r] = 0
    /\ \A r \in Reloads : pc[r] \in Leads \union {"epoch", "unflight"} => epoch[r] # 0
    /\ \A s \in Stops : pc[s] \in {"idle", "cancel_epoch"} => epoch[s] = 0
    /\ \A s \in Stops : pc[s] = "cancel_send" => epoch[s] # 0

\* Every step keeps the epochs distinct.
LEMMA EpochStep == ASSUME TypeCore, EpochInv, [Next]_vars PROVE EpochInv'
<1> USE ThreadsAssumption DEF EpochInv, Leads
<1>1. CASE UNCHANGED vars \/ Edit
  BY <1>1 DEF vars, shared, locals, Edit
<1> USE DEF TypeCore, SharedOK, LocalsOK, Threads, shared, GateShared, StopShared, LeadLocals, Step,
            Finish, RefusePermit
<1>2. ASSUME NEW r \in Reloads, ReloadStep(r) \/ Panic(r) PROVE EpochInv'
  <2>1. CASE Snapshot(r) \/ SnapshotFails(r) \/ AdmitFollow(r) \/ AdmitRead(r) \/ Follow(r)
    <3>1. /\ UNCHANGED <<next_desired_epoch, epoch>> /\ pc[r] \in {"idle", "planned", "read", "following"}
          /\ pc'[r] \in {"planned", "answered", "following", "read"}
          /\ \A t \in Threads : t # r => pc'[t] = pc[t]
      BY <2>1 DEF Snapshot, SnapshotFails, AdmitFollow, AdmitRead, Follow
    <3> QED BY <3>1
  <2>2. CASE AdmitEpoch(r)
    BY <2>2 DEF AdmitEpoch
  <2>3. CASE AdmitSend(r)
    BY <2>3 DEF AdmitSend
  <2>4. ASSUME /\ UNCHANGED <<next_desired_epoch, epoch>> /\ pc[r] \in Leads \union {"unflight"}
               /\ pc'[r] \in Leads \union {"unflight", "answered"}
               /\ \A t \in Threads : t # r => pc'[t] = pc[t]
        PROVE  EpochInv'
    BY <2>4
  <2>5. CASE CheckpointFails(r) \/ Checkpoint(r) \/ Prepare(r) \/ PrepareFails(r) \/ BeginApply(r)
             \/ AcceptEpoch(r)
    BY <2>4, <2>5 DEF CheckpointFails, Checkpoint, Prepare, PrepareFails, BeginApply, AcceptEpoch
  <2>6. CASE LockGate(r) \/ LockGateFails(r) \/ CheckStop(r) \/ Revalidate(r)
    BY <2>4, <2>6 DEF LockGate, LockGateFails, CheckStop, Revalidate
  <2>7. CASE Apply(r) \/ Complete(r) \/ RemoveFlight(r) \/ Panic(r)
    BY <2>4, <2>7 DEF Apply, Complete, RemoveFlight, Panic
  <2> QED BY <1>2, <2>1, <2>2, <2>3, <2>5, <2>6, <2>7 DEF ReloadStep
<1>3. ASSUME NEW s \in Stops, StopStep(s) PROVE EpochInv'
  <2>1. CASE CancelRead(s)
    BY <2>1 DEF CancelRead
  <2>2. CASE CancelEpoch(s)
    BY <2>2 DEF CancelEpoch
  <2>3. CASE CancelSend(s)
    BY <2>3 DEF CancelSend
  <2>4. CASE BeginStop(s) \/ StopLock(s) \/ Stop(s)
    <3>1. /\ UNCHANGED <<next_desired_epoch, epoch>> /\ \A t \in Threads : t # s => pc'[t] = pc[t]
          /\ pc'[s] \notin {"idle", "cancel_epoch", "cancel_send"}
      BY <2>4 DEF BeginStop, StopLock, Stop
    <3> QED BY <3>1
  <2> QED BY <1>3, <2>1, <2>2, <2>3, <2>4 DEF StopStep
<1> QED BY <1>1, <1>2, <1>3 DEF Next

\* Only AdmitSend admits, and no step of a reload undoes it.
LEMMA AdmittedFrame ==
    ASSUME TypeCore, EpochInv, NEW r \in Reloads, ReloadStep(r) \/ Panic(r), ~AdmitSend(r)
    PROVE  /\ UNCHANGED desired
           /\ \A q \in Reloads : (Admitted(q)' <=> Admitted(q)) /\ (Admitted(q) => epoch'[q] = epoch[q])
           /\ ~AdmitEpoch(r) => UNCHANGED epoch
<1> USE ThreadsAssumption DEF EpochInv, Leads, Admitted, TypeCore, SharedOK, LocalsOK, Threads, shared,
        GateShared, LeadLocals, Step, Finish, RefusePermit
<1>1. CASE Snapshot(r) \/ SnapshotFails(r) \/ AdmitFollow(r) \/ AdmitRead(r) \/ Follow(r)
  <2>1. /\ UNCHANGED <<desired, epoch>> /\ pc[r] \in {"idle", "planned", "read", "following"}
        /\ \A t \in Threads : t # r => pc'[t] = pc[t]
    BY <1>1 DEF Snapshot, SnapshotFails, AdmitFollow, AdmitRead, Follow
  <2> QED BY <2>1
<1>2. CASE AdmitEpoch(r)
  BY <1>2 DEF AdmitEpoch
<1>3. ASSUME /\ UNCHANGED <<desired, epoch>> /\ pc[r] \in Leads \union {"unflight"}
             /\ pc'[r] \in Leads \union {"unflight", "answered"}
             /\ \A t \in Threads : t # r => pc'[t] = pc[t]
      PROVE  /\ UNCHANGED <<desired, epoch>>
             /\ \A q \in Reloads : Admitted(q)' <=> Admitted(q)
  BY <1>3
<1>4. CASE CheckpointFails(r) \/ Checkpoint(r) \/ Prepare(r) \/ PrepareFails(r) \/ BeginApply(r)
           \/ AcceptEpoch(r)
  BY <1>3, <1>4 DEF CheckpointFails, Checkpoint, Prepare, PrepareFails, BeginApply, AcceptEpoch
<1>5. CASE LockGate(r) \/ LockGateFails(r) \/ CheckStop(r) \/ Revalidate(r)
  BY <1>3, <1>5 DEF LockGate, LockGateFails, CheckStop, Revalidate
<1>6. CASE Apply(r) \/ Complete(r) \/ RemoveFlight(r) \/ Panic(r)
  BY <1>3, <1>6 DEF Apply, Complete, RemoveFlight, Panic
<1> QED BY <1>1, <1>2, <1>4, <1>5, <1>6 DEF ReloadStep

\* The lead whose epoch is published is the last one admitted, because admit draws and
\* publishes epochs under the flights lock; what has been applied was admitted earlier.
OrderInv ==
    /\ \A q, r \in Reloads : pc[r] = "epoch" /\ Admitted(q) => epoch[q] < epoch[r]
    /\ \A q, r \in Reloads :
          Admitted(q) /\ Admitted(r) /\ desired.epoch = epoch[r] => epoch[q] <= epoch[r]
    /\ committed # 0 => \E q \in Reloads : /\ Admitted(q) /\ epoch[q] = committed
                                          /\ pc[q] \in {"complete", "unflight", "answered"}
    /\ AppliesInEpochOrder

\* Every step keeps the order of admission and of applies.
LEMMA OrderStep ==
    ASSUME TypeCore, HolderInv, EpochInv, OrderInv, [Next]_vars
    PROVE  OrderInv'
<1> USE ThreadsAssumption
<1>1. CASE UNCHANGED vars \/ Edit
  BY <1>1 DEF vars, shared, locals, Edit, OrderInv, AppliesInEpochOrder, Admitted
<1>2. ASSUME NEW s \in Stops, StopStep(s) PROVE OrderInv'
  <2>1. /\ UNCHANGED committed
        /\ \A q \in Reloads : pc'[q] = pc[q] /\ epoch'[q] = epoch[q] /\ (Admitted(q)' <=> Admitted(q))
    BY <1>2, StopFrame DEF Threads, Admitted
  <2>2. \/ UNCHANGED desired
        \/ desired'.epoch = epoch[s] /\ epoch[s] # 0
    BY <1>2 DEF StopStep, CancelRead, CancelEpoch, CancelSend, BeginStop, StopLock, Stop, shared,
                StopShared, Step, EpochInv
  <2>3. \A r \in Reloads : Admitted(r) /\ desired'.epoch = epoch[r] => desired.epoch = epoch[r]
    BY <2>2 DEF EpochInv, Admitted, Threads, TypeCore, LocalsOK
  <2> QED BY <2>1, <2>3 DEF OrderInv, AppliesInEpochOrder
<1>3. ASSUME NEW r \in Reloads, AdmitSend(r) PROVE OrderInv'
  <2>1. /\ desired'.epoch = epoch[r] /\ UNCHANGED <<epoch, committed>> /\ pc'[r] = "admitted"
        /\ \A q \in Reloads : q # r => pc'[q] = pc[q]
        /\ pc[r] = "epoch" /\ epoch[r] # 0
    BY <1>3 DEF AdmitSend, Step, TypeCore, LocalsOK, Threads, EpochInv
  <2>2. \A q \in Reloads : Admitted(q)' <=> Admitted(q) \/ q = r
    BY <2>1 DEF Admitted
  <2>3. \A q \in Reloads : pc'[q] # "epoch"
    BY <2>1 DEF HolderInv
  <2>4. \A q \in Reloads : epoch[q] \in Nat /\ (epoch[q] = epoch[r] => q = r)
    BY <2>1 DEF EpochInv, Threads, TypeCore, LocalsOK
  <2> QED BY <2>1, <2>2, <2>3, <2>4 DEF OrderInv, AppliesInEpochOrder
<1>4. ASSUME NEW r \in Reloads, ReloadStep(r) \/ Panic(r), ~AdmitSend(r) PROVE OrderInv'
  <2>1. /\ UNCHANGED desired
        /\ \A q \in Reloads : (Admitted(q)' <=> Admitted(q)) /\ (Admitted(q) => epoch'[q] = epoch[q])
        /\ ~AdmitEpoch(r) => UNCHANGED epoch
        /\ \A q \in Reloads : q # r => pc'[q] = pc[q]
    BY <1>4, AdmittedFrame, ReloadFrame DEF Threads
  <2>2. CASE AdmitEpoch(r)
    <3>1. /\ pc'[r] = "epoch" /\ UNCHANGED committed /\ epoch'[r] = next_desired_epoch
          /\ \A q \in Reloads : q # r => epoch'[q] = epoch[q]
          /\ ~Admitted(r)
      BY <2>2 DEF AdmitEpoch, Step, TypeCore, LocalsOK, Threads, Admitted
    <3>2. \A q \in Reloads : epoch[q] < next_desired_epoch
      BY DEF EpochInv, Threads
    <3> QED BY <2>1, <3>1, <3>2 DEF OrderInv, AppliesInEpochOrder
  <2>3. ASSUME UNCHANGED <<epoch, committed>>, pc'[r] \notin {"epoch", "applying"}, pc[r] # "answered",
               pc[r] = "complete" => pc'[r] = "unflight", pc[r] = "unflight" => pc'[r] = "answered"
        PROVE  OrderInv'
    BY <2>1, <2>3 DEF OrderInv, AppliesInEpochOrder
  <2>4. CASE Snapshot(r) \/ SnapshotFails(r) \/ AdmitFollow(r) \/ AdmitRead(r) \/ Follow(r)
    BY <2>3, <2>4 DEF Snapshot, SnapshotFails, AdmitFollow, AdmitRead, Follow, Step, TypeCore, LocalsOK,
                      Threads, LeadLocals
  <2>5. CASE CheckpointFails(r) \/ Checkpoint(r) \/ Prepare(r) \/ PrepareFails(r) \/ BeginApply(r)
             \/ AcceptEpoch(r)
    BY <2>3, <2>5 DEF CheckpointFails, Checkpoint, Prepare, PrepareFails, BeginApply, AcceptEpoch, Step,
                      Finish, TypeCore, LocalsOK, Threads, LeadLocals
  <2>6. CASE LockGate(r) \/ LockGateFails(r) \/ CheckStop(r) \/ Complete(r) \/ RemoveFlight(r)
    BY <2>3, <2>6 DEF LockGate, LockGateFails, CheckStop, Complete, RemoveFlight, RefusePermit, Step,
                      Finish, TypeCore, LocalsOK, Threads, LeadLocals
  <2>7. CASE Revalidate(r)
    <3>1. UNCHANGED <<epoch, committed>> /\ pc[r] = "revalidate" /\ pc'[r] \in {"applying", "complete"}
      BY <2>7 DEF Revalidate, RefusePermit, Step, Finish, TypeCore, LocalsOK, Threads, LeadLocals
    <3>2. CASE pc'[r] = "complete"
      BY <2>3, <3>1, <3>2
    <3>3. CASE pc'[r] = "applying"
      <4>1. desired.epoch = epoch[r]
        BY <2>7, <3>3 DEF Revalidate, RefusePermit, Superseded, Step, Finish, TypeCore, LocalsOK, Threads
      <4>2. Admitted(r) /\ epoch[r] \in Nat \ {0}
        BY <3>1 DEF EpochInv, Leads, Admitted, TypeCore, LocalsOK, Threads
      <4>3. epoch[r] > committed
        <5>1. CASE committed = 0
          BY <4>2, <5>1
        <5>2. CASE committed # 0
          <6>1. PICK q \in Reloads : /\ Admitted(q) /\ epoch[q] = committed
                                     /\ pc[q] \in {"complete", "unflight", "answered"}
            BY <5>2 DEF OrderInv
          <6>2. epoch[q] <= epoch[r]
            BY <4>1, <4>2, <6>1 DEF OrderInv
          <6>3. q # r
            BY <3>1, <6>1
          <6>4. epoch[q] # epoch[r] /\ epoch[q] \in Nat
            BY <4>2, <6>3 DEF EpochInv, TypeCore, LocalsOK, Threads
          <6> QED BY <4>2, <6>1, <6>2, <6>4
        <5> QED BY <5>1, <5>2
      <4> QED BY <2>1, <3>1, <3>3, <4>3 DEF OrderInv, AppliesInEpochOrder
    <3> QED BY <3>1, <3>2, <3>3
  <2>8. ASSUME UNCHANGED epoch, committed' = epoch[r], pc[r] = "applying", pc'[r] \in {"complete", "answered"}
        PROVE  OrderInv'
    <3>1. \A q \in Reloads : pc'[q] # "applying"
      BY <2>1, <2>8 DEF HolderInv
    <3>2. Admitted(r) /\ Admitted(r)'
      BY <2>1, <2>8 DEF EpochInv, Leads, Admitted
    <3> QED BY <2>1, <2>8, <3>1, <3>2 DEF OrderInv, AppliesInEpochOrder
  <2>9. CASE Apply(r)
    BY <2>8, <2>9 DEF Apply, Step, TypeCore, LocalsOK, Threads, LeadLocals
  <2>10. CASE Panic(r)
    BY <2>3, <2>8, <2>10 DEF Panic, Step, TypeCore, LocalsOK, Threads, LeadLocals
  <2> QED BY <1>4, <2>2, <2>4, <2>5, <2>6, <2>7, <2>9, <2>10 DEF ReloadStep
<1> QED BY <1>1, <1>2, <1>3, <1>4 DEF Next, ReloadStep

-----------------------------------------------------------------------------
(* A stop supersedes what was admitted before it. *)

\* What a stop has superseded stays superseded: nobody publishes an old epoch again.
StopInv ==
    /\ \A s \in Stops : \A r \in preceded[s] : Admitted(r) /\ desired.epoch # epoch[r]
    /\ StopSupersedes

\* Every step keeps it: only Revalidate lets a lead apply, and a stop locks a gate no lead
\* holds.
LEMMA StopInvStep ==
    ASSUME TypeCore, HolderInv, EpochInv, StopInv, [Next]_vars
    PROVE  StopInv'
<1> USE ThreadsAssumption
<1>1. CASE UNCHANGED vars \/ Edit
  BY <1>1 DEF vars, shared, locals, Edit, StopInv, StopSupersedes, Admitted
<1>2. preceded \in [Stops -> SUBSET Reloads]
  BY DEF TypeCore, LocalsOK
<1>3. ASSUME NEW s \in Stops, StopStep(s) PROVE StopInv'
  <2>1. /\ \A q \in Reloads : pc'[q] = pc[q] /\ epoch'[q] = epoch[q] /\ (Admitted(q)' <=> Admitted(q))
        /\ \A u \in Stops : u # s => pc'[u] = pc[u]
    BY <1>3, StopFrame DEF Threads, Admitted
  <2>2. CASE CancelSend(s)
    <3>1. /\ desired'.epoch = epoch[s] /\ epoch[s] # 0 /\ pc'[s] = "pending"
          /\ preceded' = [preceded EXCEPT ![s] = {r \in Reloads : Admitted(r)}]
      BY <2>2 DEF CancelSend, Step, TypeCore, LocalsOK, Threads, EpochInv
    <3>2. \A r \in Reloads : desired'.epoch # epoch[r]
      BY <3>1 DEF EpochInv, Threads
    <3>3. \A u \in Stops : \A r \in preceded'[u] : r \in Reloads /\ Admitted(r)
      BY <1>2, <3>1 DEF StopInv
    <3>4. \A u \in Stops : u # s => preceded'[u] = preceded[u]
      BY <1>2, <3>1
    <3>5. StopSupersedes'
      BY <2>1, <3>1, <3>4 DEF StopInv, StopSupersedes
    <3>6. \A u \in Stops : \A r \in preceded'[u] : Admitted(r)' /\ desired'.epoch # epoch'[r]
      BY <2>1, <3>2, <3>3
    <3> QED BY <3>5, <3>6 DEF StopInv
  <2>3. CASE ~CancelSend(s)
    <3>1. UNCHANGED <<desired, preceded>>
      BY <1>3, <2>3 DEF StopStep, CancelRead, CancelEpoch, BeginStop, StopLock, Stop, shared, StopShared
    <3>2. ASSUME pc'[s] \in {"take", "release", "unlock", "answered"}
          PROVE  \/ pc[s] \in {"take", "release", "unlock"}
                 \/ \A r \in Reloads : pc[r] # "applying"
      BY <1>3, <2>3, <3>2 DEF StopStep, CancelRead, CancelEpoch, BeginStop, StopLock, Stop, Step,
         TypeCore, LocalsOK, Threads, HolderInv
    <3>3. StopSupersedes'
      BY <2>1, <3>1, <3>2 DEF StopInv, StopSupersedes
    <3> QED BY <1>2, <2>1, <3>1, <3>3 DEF StopInv
  <2> QED BY <2>2, <2>3
<1>4. ASSUME NEW r \in Reloads, ReloadStep(r) \/ Panic(r) PROVE StopInv'
  <2>1. /\ UNCHANGED preceded
        /\ \A t \in Threads : t # r => pc'[t] = pc[t]
    BY <1>4, ReloadFrame
  <2>2. CASE AdmitSend(r)
    <3>1. /\ desired'.epoch = epoch[r] /\ UNCHANGED epoch /\ pc'[r] = "admitted"
          /\ ~Admitted(r) /\ epoch[r] # 0
      BY <2>2 DEF AdmitSend, Step, TypeCore, LocalsOK, Threads, EpochInv, Admitted
    <3>2. \A q \in Reloads : Admitted(q) => desired'.epoch # epoch'[q] /\ Admitted(q)'
      BY <2>1, <3>1 DEF EpochInv, Threads, Admitted
    <3> QED BY <1>2, <2>1, <3>1, <3>2 DEF StopInv, StopSupersedes, Threads
  <2>3. CASE ~AdmitSend(r)
    <3>1. /\ UNCHANGED desired
          /\ \A q \in Reloads : Admitted(q) => Admitted(q)' /\ epoch'[q] = epoch[q]
      BY <1>4, <2>3, AdmittedFrame
    <3>2. ASSUME pc'[r] = "applying" PROVE desired.epoch = epoch[r]
      <4> USE DEF Step, Finish, RefusePermit, TypeCore, LocalsOK, Threads
      <4>1. ~(Snapshot(r) \/ SnapshotFails(r) \/ AdmitFollow(r) \/ AdmitRead(r) \/ AdmitEpoch(r)
              \/ Follow(r) \/ CheckpointFails(r) \/ Checkpoint(r) \/ Prepare(r) \/ PrepareFails(r))
        BY <3>2 DEF Snapshot, SnapshotFails, AdmitFollow, AdmitRead, AdmitEpoch, Follow, CheckpointFails,
                    Checkpoint, Prepare, PrepareFails
      <4>2. ~(BeginApply(r) \/ AcceptEpoch(r) \/ LockGate(r) \/ LockGateFails(r) \/ CheckStop(r)
              \/ Apply(r) \/ Complete(r) \/ RemoveFlight(r) \/ Panic(r))
        BY <3>2 DEF BeginApply, AcceptEpoch, LockGate, LockGateFails, CheckStop, Apply, Complete,
                    RemoveFlight, Panic
      <4>3. Revalidate(r)
        BY <1>4, <2>3, <4>1, <4>2 DEF ReloadStep
      <4> QED BY <3>2, <4>3 DEF Revalidate, Superseded
    <3>3. StopSupersedes'
      BY <1>2, <2>1, <3>2 DEF StopInv, StopSupersedes, Threads
    <3> QED BY <1>2, <2>1, <3>1, <3>3 DEF StopInv
  <2> QED BY <2>2, <2>3
<1> QED BY <1>1, <1>3, <1>4 DEF Next

-----------------------------------------------------------------------------

\* The inductive invariant of the three theorems.
ReconcileInv == TypeCore /\ HolderInv /\ FlightInv /\ EpochInv /\ OrderInv /\ StopInv

\* It holds initially and every step keeps it.
LEMMA ReconcileInvariant == Spec => []ReconcileInv
<1>1. Init => ReconcileInv
  <2> SUFFICES ASSUME Init PROVE ReconcileInv
    OBVIOUS
  <2>1. TypeCore
    BY VersionsAssumption, PanicsAssumption DEF Init, TypeCore, SharedOK, LocalsOK, Versions, Signals,
       ReloadLabels, StopLabels, Outcomes, NotRunning, Threads
  <2>2. HolderInv /\ FlightInv
    BY DEF Init, HolderInv, FlightInv, Leads, Threads
  <2>3. EpochInv
    BY DEF Init, EpochInv, Leads, Threads
  <2>4. OrderInv
    BY DEF Init, OrderInv, AppliesInEpochOrder, Admitted, Threads
  <2>5. StopInv
    BY DEF Init, StopInv, StopSupersedes, Threads
  <2> QED BY <2>1, <2>2, <2>3, <2>4, <2>5 DEF ReconcileInv
<1>2. ReconcileInv /\ [Next]_vars => ReconcileInv'
  BY CoreStep, HolderStep, FlightStep, EpochStep, OrderStep, StopInvStep DEF ReconcileInv
<1> QED BY <1>1, <1>2, PTL DEF Spec

\* A stop that has the gate is never followed by an apply of a lead that was admitted before
\* it published its signal, for any number of reloads and stops.
THEOREM StopIsFinal == Spec => []StopSupersedes
<1>1. ReconcileInv => StopSupersedes
  BY DEF ReconcileInv, StopInv
<1> QED BY <1>1, ReconcileInvariant, PTL

\* Leads apply in the order in which they were admitted.
THEOREM AppliesOrdered == Spec => []AppliesInEpochOrder
<1>1. ReconcileInv => AppliesInEpochOrder
  BY DEF ReconcileInv, OrderInv
<1> QED BY <1>1, ReconcileInvariant, PTL

\* A lead that has not reported can be joined by a reload of the same fingerprint.
THEOREM LeadJoinable == Spec => []LeadIsJoinable
<1>1. ReconcileInv => LeadIsJoinable
  BY DEF ReconcileInv, FlightInv, LeadIsJoinable, Leads
<1> QED BY <1>1, ReconcileInvariant, PTL
=============================================================================
