---------------------------- MODULE GenerationDrain ----------------------------
(***************************************************************************)
(* How one generation of the resident dataplane takes over from another       *)
(* without a restart: ActiveGenerationSlot, GenerationGate and coordinator of   *)
(* dae-resident-core, the lifecycle and the drain of dae-resident-runtime, and  *)
(* their users in dae-resident-dataplane: publish, restore and quiesce of the   *)
(* runtime, the TCP accept loop and the UDP session manager.                    *)
(*                                                                         *)
(* A published generation is retired, keeps serving the UDP sessions pinned to  *)
(* it, and is released when nobody owns it any more; at its deadline, or when   *)
(* too many are retired, it is stopped by force.  Until an apply has committed  *)
(* its snapshot owns the previous generation, which a rollback reactivates.     *)
(*                                                                         *)
(* An atomic step is one critical section (of the drain, the gate, a           *)
(* generation's admission) or one access to an atomic, a watch channel or a     *)
(* Notify.  The gate is switched by the domain routing activation and again by  *)
(* the publication.  An Arc is modelled by who holds it.  A generation's        *)
(* flow_stop and udp_stop are raised together and are one flag; the limit of    *)
(* TCP connections is the same for all generations; router and DNS handles of   *)
(* a retired UDP runtime are released earlier than it and are left out.         *)
(***************************************************************************)
EXTENDS Naturals, FiniteSets

CONSTANTS MaxGeneration,  \* generations built in a behaviour
          MaxRetired,     \* ResidentGenerationDrainPolicy.maximum_retired
          TcpLimit,       \* connections the TCP admission allows
          Workloads,      \* sets of listeners: each behaviour runs one of them
          MaxRefused      \* activations that the routing map refuses

ASSUME GenerationsAssumption == MaxGeneration \in Nat \ {0}
ASSUME RetiredAssumption == MaxRetired \in Nat \ {0}
ASSUME LimitAssumption == TcpLimit \in Nat \ {0}
ASSUME WorkloadsAssumption == Workloads \subseteq SUBSET {"tcp", "udp"}
ASSUME RefusedAssumption == MaxRefused \in Nat

Generations == 1 .. MaxGeneration   \* in the order of their construction
None == 0
Threads == {"control", "reaper"}

VARIABLES
    slot,           \* ActiveGenerationSlot: the published generation
    publication,    \* its PublicationEpoch, also the value of the watch channel
    gate,           \* GenerationGate: the generation that may write
    life,           \* ResidentGenerationState, or "unbuilt"
    workload_stop,  \* the generation's background workloads were told to stop
    udp_stop,       \* and its flows and UDP sessions
    retired,        \* RetiredResidentGeneration records of the list
    wake,           \* a permit of the drain's Notify
    targets,        \* per thread, the ResidentGenerationStopTargets it still has to stop
    reaper,         \* where the task of ResidentGenerationDrain::run is
    control,        \* where the thread that owns the runtime is
    hand,           \* the generation it is publishing or retiring
    snapshot,       \* the generation an apply can still go back to
    refused,        \* history: generations whose activation the map refused
    stop,           \* workload_stop of the runtime's owner
    acceptor,       \* the TCP accept loop
    seen,           \* last publication its receiver has seen
    flows,          \* committed TCP flows
    manager,        \* the UDP session manager
    noticed,        \* last publication its receiver has seen
    notified,       \* a permit of maintenance_notify
    registered,     \* generations that hold maintenance_notify
    udp,            \* generations with a ResidentUdpGenerationRuntime
    pins,           \* generations with UDP pins
    closing         \* generations whose UDP runtime is shutting down

core == <<slot, publication, gate>>
flags == <<life, workload_stop, udp_stop>>
drain == <<retired, wake, targets, reaper>>
owner == <<control, hand, snapshot, refused, stop>>
tcp == <<acceptor, seen, flows>>
sessions == <<manager, noticed, notified, registered, udp, pins, closing>>
vars == <<core, flags, drain, owner, tcp, sessions>>

States == {"unbuilt", "Prepared", "Active", "Retired", "Draining", "Stopped"}
Reasons == {"none", "Finalized", "MaximumAge"}
\* at: the publication that retired the generation.  There is one retirement for each, so a set of records
\* is the list in the order of this field, and so are the targets that are taken from it.
Records == [id : Generations, at : Nat, heavy : BOOLEAN, reason : Reasons, aged : BOOLEAN]
StopTargets == [id : Generations, at : Nat, heavy : BOOLEAN, begun : BOOLEAN]

TypeOK ==
    /\ slot \in Generations \union {None} /\ gate \in Generations \union {None} /\ publication \in Nat
    /\ life \in [Generations -> States]
    /\ workload_stop \in [Generations -> BOOLEAN] /\ udp_stop \in [Generations -> BOOLEAN]
    /\ retired \subseteq Records /\ wake \in BOOLEAN
    /\ targets \in [Threads -> SUBSET StopTargets]
    /\ reaper \in {"look", "parked", "polling", "stopping", "ended"}
    /\ control \in {"idle", "prepare", "evict", "build", "activate", "publish", "retire", "push", "wake",
                    "published", "restore", "reactivated", "republish", "finalize", "finalized",
                    "stop_all", "signal", "join", "clear", "down"}
    /\ hand \in Generations \union {None} /\ snapshot \in Generations \union {None}
    /\ refused \subseteq Generations /\ stop \in BOOLEAN
    /\ acceptor \in [pc : {"top", "loaded", "gate", "open", "closed", "reserve", "accept", "try", "ended"},
                     gen : Generations \union {None}, epoch : Nat,
                     candidate : Generations \union {None}, at : Nat, tries : 0 .. 2]
    /\ seen \in Nat /\ flows \in 0 .. TcpLimit
    /\ manager \in [pc : {"idle", "try", "register", "start", "ended"},
                    gen : Generations \union {None}, at : Nat, tries : 0 .. 2]
    /\ noticed \in Nat /\ notified \in BOOLEAN
    /\ registered \subseteq Generations /\ udp \subseteq Generations
    /\ pins \subseteq Generations /\ closing \subseteq Generations

Idling == [pc |-> "top", gen |-> None, epoch |-> 0, candidate |-> None, at |-> 0, tries |-> 0]
Resting == [pc |-> "idle", gen |-> None, at |-> 0, tries |-> 0]

Init ==
    /\ slot = 1 /\ publication = 1 /\ gate = 1
    /\ life = [g \in Generations |-> IF g = 1 THEN "Active" ELSE "unbuilt"]
    /\ workload_stop = [g \in Generations |-> FALSE] /\ udp_stop = workload_stop
    /\ retired = {} /\ wake = FALSE /\ targets = [t \in Threads |-> {}] /\ reaper = "look"
    /\ control = "idle" /\ hand = None /\ snapshot = None /\ refused = {} /\ stop = FALSE
    /\ \E running \in Workloads :
          /\ acceptor = [Idling EXCEPT !.pc = IF "tcp" \in running THEN "top" ELSE "ended"]
          /\ manager = [Resting EXCEPT !.pc = IF "udp" \in running THEN "idle" ELSE "ended"]
          /\ registered = (IF "udp" \in running THEN {1} ELSE {}) /\ udp = registered
    /\ seen = publication /\ flows = 0
    /\ noticed = publication /\ notified = FALSE /\ pins = {} /\ closing = {}

-----------------------------------------------------------------------------
(* Generations and their owners *)

\* generations in the drain's list
Retirees == {r.id : r \in retired}

\* generations that a thread has yet to stop
Targeted(t) == {r.id : r \in targets[t]}

\* Defect: the owners are not counted.
NeverOwned(g) == FALSE

\* some other Arc of the heavy generation exists (strong_count > 1)
HeavyOwned(g) ==
    \/ g \in {slot, snapshot, hand, acceptor.gen, acceptor.candidate, manager.gen}
    \/ \E t \in Threads : \E r \in targets[t] : r.id = g /\ r.heavy

\* some other Arc of its drain control exists, once the heavy generation is gone
ControlOwned(g) == g \in udp \union closing \/ \E t \in Threads : g \in Targeted(t)

stop_is_requested(g) == life[g] \in {"Draining", "Stopped"}

\* begin_draining: what retire_workloads does to the lifecycle
Drained(gs) == [g \in Generations |-> IF g \in gs /\ life[g] # "Stopped" THEN "Draining" ELSE life[g]]

\* coordinator.with_current and drain_control.with_admission: the reservation is made
Admits(g, at) == gate = g /\ slot = g /\ publication = at /\ life[g] = "Active"

-----------------------------------------------------------------------------
(* ResidentGenerationDrain *)

StopTarget(r) == [id |-> r.id, at |-> r.at, heavy |-> r.heavy, begun |-> FALSE]

\* the first of a list
Oldest(list) == {r \in list : \A q \in list : r.at <= q.at}

\* a thread has stopped every target of its last critical section
Settled(t) == targets[t] = {}

\* reap: detach what nobody owns, release what nobody drains, stop what is too old
Detached == {r \in retired : ~HeavyOwned(r.id)}
Looked(r) == [r EXCEPT !.heavy = r.heavy /\ r \notin Detached]
Retained == {r \in {Looked(q) : q \in retired} : r.heavy \/ ControlOwned(r.id)}
TooOld(r) == r.aged /\ r.reason = "none"
Judged(r) == IF TooOld(r) THEN [r EXCEPT !.reason = "MaximumAge"] ELSE r
Workless == {r.id : r \in {q \in Detached : q.heavy}}

Reap(t) ==
    /\ retired' = {Judged(r) : r \in Retained}
    /\ targets' = [targets EXCEPT ![t] = {StopTarget(r) : r \in {q \in Retained : TooOld(q)}}]
    /\ life' = Drained(Workless)
    /\ workload_stop' = [g \in Generations |-> workload_stop[g] \/ g \in Workless]
    /\ notified' = (notified \/ Workless \intersect registered # {})

\* request_force_stop, up to retire_workloads ...
ForceRetire(t) ==
    /\ \E r \in Oldest(targets[t]) :
          /\ ~r.begun
          /\ life' = Drained({r.id})
          /\ workload_stop' = [workload_stop EXCEPT ![r.id] = TRUE]
          /\ notified' = (notified \/ r.id \in registered)
          /\ targets' = [targets EXCEPT ![t] = (targets[t] \ {r}) \union {[r EXCEPT !.begun = TRUE]}]
    /\ UNCHANGED <<core, udp_stop, retired, wake, reaper, owner, tcp, manager, noticed, registered, udp, pins,
                   closing>>

\* Defect: the manager is told before the flags are up, and not again.
ForceStopQuietly(t) ==
    /\ \E r \in Oldest(targets[t]) :
          /\ r.begun
          /\ udp_stop' = [udp_stop EXCEPT ![r.id] = TRUE]
          /\ life' = [life EXCEPT ![r.id] = "Stopped"]
          /\ targets' = [targets EXCEPT ![t] = targets[t] \ {r}]
    /\ UNCHANGED <<core, workload_stop, retired, wake, reaper, owner, tcp, sessions>>

\* ... and from there; the target is dropped
ForceStop(t) ==
    /\ \E r \in Oldest(targets[t]) :
          /\ r.begun
          /\ udp_stop' = [udp_stop EXCEPT ![r.id] = TRUE]
          /\ life' = [life EXCEPT ![r.id] = "Stopped"]
          /\ notified' = (notified \/ r.id \in registered)
          /\ targets' = [targets EXCEPT ![t] = targets[t] \ {r}]
    /\ UNCHANGED <<core, workload_stop, retired, wake, reaper, owner, tcp, manager, noticed, registered, udp, pins,
                   closing>>

\* maximum_age has passed since a generation was retired, which is asked of those not yet stopped
Age(g) ==
    /\ \E r \in retired :
          /\ r.id = g /\ ~r.aged /\ r.reason = "none"
          /\ retired' = (retired \ {r}) \union {[r EXCEPT !.aged = TRUE]}
    /\ UNCHANGED <<core, flags, wake, targets, reaper, owner, tcp, sessions>>

\* run: has_pending_retirements decides whether it sleeps with a timer
ReaperLook ==
    /\ reaper = "look" /\ Settled("reaper")
    /\ reaper' = IF retired = {} THEN "parked" ELSE "polling"
    /\ UNCHANGED <<core, flags, retired, wake, targets, owner, tcp, sessions>>

ReaperReaps ==
    /\ reaper = "polling" \/ (reaper = "parked" /\ wake)
    /\ Reap("reaper")
    /\ reaper' = "look"
    /\ wake' \in {FALSE, wake /\ reaper = "polling"}
    /\ UNCHANGED <<core, udp_stop, owner, tcp, manager, noticed, registered, udp, pins, closing>>

\* run is stopped: stop_all
ReaperStops ==
    /\ stop /\ reaper \in {"parked", "polling"}
    /\ targets' = [targets EXCEPT !["reaper"] = {StopTarget(r) : r \in retired}]
    /\ retired' = {} /\ reaper' = "stopping"
    /\ UNCHANGED <<core, flags, wake, owner, tcp, sessions>>

ReaperEnds ==
    /\ reaper = "stopping" /\ Settled("reaper")
    /\ reaper' = "ended"
    /\ UNCHANGED <<core, flags, retired, wake, targets, owner, tcp, sessions>>

-----------------------------------------------------------------------------
(* Applies: publish_prepared_generation, restore_generation, commit *)

At(from, to) == control = from /\ Settled("control") /\ control' = to

\* an apply of class GenerationSwap takes its snapshot.  (Bound: one is left to build or to evict.)
SnapshotForApply ==
    /\ At("idle", "prepare")
    /\ \E g \in Generations : life[g] \in {"unbuilt", "Retired"}
    /\ snapshot' = slot
    /\ UNCHANGED <<core, flags, drain, hand, refused, stop, tcp, sessions>>

\* prepare_publication: reap, then make room
PreparePublication ==
    /\ At("prepare", "evict")
    /\ Reap("control")
    /\ UNCHANGED <<core, udp_stop, wake, reaper, hand, snapshot, refused, stop, tcp, manager, noticed, registered,
                   udp, pins, closing>>

\* pressure_evict_oldest, when the list is full
Evicted == IF Cardinality(retired) >= MaxRetired THEN Oldest(retired) ELSE {}

\* Defect: the evicted generation is dropped and not stopped.
NoTarget == {}

EvictionTarget == {StopTarget(r) : r \in Evicted}

EvictOldest ==
    /\ At("evict", "build")
    /\ retired' = retired \ Evicted /\ targets' = [targets EXCEPT !["control"] = EvictionTarget]
    /\ UNCHANGED <<core, flags, wake, reaper, hand, snapshot, refused, stop, tcp, sessions>>

\* build_resident_dataplane_generation and activate of its control
BuildGeneration ==
    /\ At("build", "activate")
    /\ \E g \in Generations :
          /\ life[g] = "unbuilt" /\ \A h \in Generations : h < g => life[h] # "unbuilt"
          /\ hand' = g /\ life' = [life EXCEPT ![g] = "Active"]
    /\ UNCHANGED <<core, workload_stop, udp_stop, drain, snapshot, refused, stop, tcp, sessions>>

BuildFails ==
    /\ At("build", "restore")
    /\ UNCHANGED <<core, flags, drain, hand, snapshot, refused, stop, tcp, sessions>>

\* activate_domain_routing_generation: the fence switches the gate when the map takes the change
ActivateRouting ==
    /\ At("activate", "publish")
    /\ gate' = hand
    /\ UNCHANGED <<slot, publication, flags, drain, hand, snapshot, refused, stop, tcp, sessions>>

\* Defect: the gate is switched before the map has answered.
RoutingRefusedLate ==
    /\ At("activate", "restore")
    /\ Cardinality(refused) < MaxRefused
    /\ refused' = refused \union {hand} /\ hand' = None /\ gate' = hand
    /\ UNCHANGED <<slot, publication, flags, drain, snapshot, stop, tcp, sessions>>

\* ... and leaves everything as it was when the map refuses it; the generation is dropped
RoutingRefused ==
    /\ At("activate", "restore")
    /\ Cardinality(refused) < MaxRefused
    /\ refused' = refused \union {hand} /\ hand' = None
    /\ UNCHANGED <<core, flags, drain, snapshot, stop, tcp, sessions>>

\* publish_with: slot, epoch and gate change together under the gate's lock
Publish ==
    /\ At("publish", "retire")
    /\ slot' = hand /\ gate' = hand /\ publication' = publication + 1 /\ hand' = slot
    /\ UNCHANGED <<flags, drain, snapshot, refused, stop, tcp, sessions>>

\* retire_shared_at: close_admission of the generation that was replaced ...
CloseAdmission ==
    /\ At("retire", "push")
    /\ life' = IF life[hand] = "Active" THEN [life EXCEPT ![hand] = "Retired"] ELSE life
    /\ UNCHANGED <<core, workload_stop, udp_stop, drain, hand, snapshot, refused, stop, tcp, sessions>>

\* ... its record, in place of the oldest when the list is full ...
PushRetired ==
    /\ At("push", "wake")
    /\ retired' = (retired \ Evicted) \union
                      {[id |-> hand, at |-> publication, heavy |-> TRUE, reason |-> "none", aged |-> FALSE]}
    /\ targets' = [targets EXCEPT !["control"] = EvictionTarget]
    /\ UNCHANGED <<core, flags, wake, reaper, hand, snapshot, refused, stop, tcp, sessions>>

\* ... and, once that one is stopped, the drain is woken; a restore goes on to finalize it
WakeReaper ==
    /\ At("wake", IF slot = snapshot THEN "finalize" ELSE "published")
    /\ wake' = TRUE
    /\ hand' = IF slot = snapshot THEN hand ELSE None
    /\ UNCHANGED <<core, flags, retired, targets, reaper, snapshot, refused, stop, tcp, sessions>>

\* the apply has committed: commit_retirements; its snapshot goes when it returns
CommitPublication ==
    /\ At("published", "finalized")
    /\ Reap("control")
    /\ UNCHANGED <<core, udp_stop, wake, reaper, hand, snapshot, refused, stop, tcp, manager, noticed, registered,
                   udp, pins, closing>>

\* a later step of the apply fails
ApplyFails ==
    /\ At("published", "restore")
    /\ UNCHANGED <<core, flags, drain, hand, snapshot, refused, stop, tcp, sessions>>

\* Defect: a stop that is decided and not yet carried out is not looked for.
ReactivatableUntilStopped(r) == r.id = snapshot /\ r.heavy /\ ~stop_is_requested(r.id)

\* the record reactivate looks for
Reactivatable(r) == r.id = snapshot /\ r.heavy /\ r.reason = "none" /\ ~stop_is_requested(r.id)

\* restore_generation: nothing to do, or reactivate refuses, or ...
RestoreEnds ==
    /\ At("restore", "idle")
    /\ \/ slot = snapshot
       \/ ~\E r \in retired : Reactivatable(r)
    /\ snapshot' = None
    /\ UNCHANGED <<core, flags, drain, hand, refused, stop, tcp, sessions>>

\* ... reopens the admission and takes the record out of the list
Reactivate ==
    /\ At("restore", "reactivated")
    /\ slot # snapshot
    /\ \E r \in retired : Reactivatable(r)
    /\ retired' = {r \in retired : r.id # snapshot}
    /\ life' = [life EXCEPT ![snapshot] = "Active"]
    /\ UNCHANGED <<core, workload_stop, udp_stop, wake, targets, reaper, hand, snapshot, refused, stop, tcp,
                   sessions>>

RestoreRouting ==
    /\ At("reactivated", "republish")
    /\ gate' = snapshot
    /\ UNCHANGED <<slot, publication, flags, drain, hand, snapshot, refused, stop, tcp, sessions>>

RestoreRefused ==
    /\ At("reactivated", "idle")
    /\ Cardinality(refused) < MaxRefused
    /\ refused' = refused \union {snapshot} /\ snapshot' = None
    /\ UNCHANGED <<core, flags, drain, hand, stop, tcp, sessions>>

Republish ==
    /\ At("republish", "retire")
    /\ slot' = snapshot /\ gate' = snapshot /\ publication' = publication + 1 /\ hand' = slot
    /\ UNCHANGED <<flags, drain, snapshot, refused, stop, tcp, sessions>>

\* finalize_retirement of the generation that was displaced, then reap
Chosen == {r \in retired : r.id = hand /\ r.reason = "none"}

Finalize ==
    /\ At("finalize", "finalized")
    /\ retired' = (retired \ Chosen) \union {[r EXCEPT !.reason = "Finalized"] : r \in Chosen}
    /\ targets' = [targets EXCEPT !["control"] = {StopTarget(r) : r \in Chosen}]
    /\ UNCHANGED <<core, flags, wake, reaper, hand, snapshot, refused, stop, tcp, sessions>>

\* the last reap of a restore, which still holds what it displaced; the apply drops its snapshot
ApplyEnds ==
    /\ At("finalized", "idle")
    /\ IF slot = snapshot
       THEN Reap("control") /\ UNCHANGED <<udp_stop, wake, reaper, manager, noticed, registered, udp, pins, closing>>
       ELSE UNCHANGED <<flags, drain, sessions>>
    /\ snapshot' = None /\ hand' = None
    /\ UNCHANGED <<core, refused, stop, tcp>>

-----------------------------------------------------------------------------
(* quiesce_workloads and shutdown *)

\* request_stop of the published generation ...
Quiesce ==
    /\ At("idle", "stop_all")
    /\ targets' = [targets EXCEPT !["control"] =
                                       {[id |-> slot, at |-> publication, heavy |-> TRUE, begun |-> FALSE]}]
    /\ UNCHANGED <<core, flags, retired, wake, reaper, hand, snapshot, refused, stop, tcp, sessions>>

\* ... and of the retired ones
StopAll ==
    /\ At("stop_all", "signal")
    /\ targets' = [targets EXCEPT !["control"] = {StopTarget(r) : r \in retired}]
    /\ retired' = {}
    /\ UNCHANGED <<core, flags, wake, reaper, hand, snapshot, refused, stop, tcp, sessions>>

\* shutdown_workloads raises the stop signal of the owner ...
SignalStop ==
    /\ At("signal", "join")
    /\ stop' = TRUE
    /\ UNCHANGED <<core, flags, drain, hand, snapshot, refused, tcp, sessions>>

\* ... and waits for its tasks, the manager's for the shutdowns it has begun
JoinWorkloads ==
    /\ At("join", "clear")
    /\ acceptor.pc = "ended" /\ manager.pc = "ended" /\ closing = {} /\ reaper = "ended"
    /\ gate' = None
    /\ UNCHANGED <<slot, publication, flags, drain, hand, snapshot, refused, stop, tcp, sessions>>

ClearSlot ==
    /\ At("clear", "down")
    /\ slot' = None
    /\ UNCHANGED <<publication, gate, flags, drain, hand, snapshot, refused, stop, tcp, sessions>>

-----------------------------------------------------------------------------
(* The TCP accept loop *)

Accept(from, to) == acceptor.pc = from /\ acceptor' = [acceptor EXCEPT !.pc = to]

\* back to the top of the loop; the reserved generation is dropped
AcceptAgain == acceptor' = Idling

AcceptorLoads ==
    /\ acceptor.pc = "top" /\ ~stop
    /\ acceptor' = [acceptor EXCEPT !.pc = "loaded", !.gen = slot, !.epoch = publication]
    /\ UNCHANGED <<core, flags, drain, owner, seen, flows, sessions>>

\* borrow_and_update: the receiver has seen the publication it is compared with
AcceptorCompares ==
    /\ acceptor.pc = "loaded"
    /\ seen' = publication
    /\ IF publication # acceptor.epoch THEN AcceptAgain ELSE Accept("loaded", "gate")
    /\ UNCHANGED <<core, flags, drain, owner, flows, sessions>>

AcceptorAsksGate ==
    /\ acceptor.pc = "gate"
    /\ IF gate # acceptor.gen THEN AcceptAgain ELSE Accept("gate", "open")
    /\ UNCHANGED <<core, flags, drain, owner, seen, flows, sessions>>

Serves(g) == life[g] = "Active" /\ gate = g

\* wait_while_tcp_admission_is_closed, or on to a permit
AcceptorAsksAdmission ==
    /\ Accept("open", IF Serves(acceptor.gen) THEN "reserve" ELSE "closed")
    /\ UNCHANGED <<core, flags, drain, owner, seen, flows, sessions>>

AcceptorReserves ==
    /\ acceptor.pc = "reserve" /\ flows < TcpLimit
    /\ IF Serves(acceptor.gen) THEN Accept("reserve", "accept") ELSE AcceptAgain
    /\ UNCHANGED <<core, flags, drain, owner, seen, flows, sessions>>

\* the select's branch of the publication receiver
AcceptorNotices ==
    /\ acceptor.pc \in {"closed", "reserve", "accept"} /\ seen # publication
    /\ seen' = publication
    /\ AcceptAgain
    /\ UNCHANGED <<core, flags, drain, owner, flows, sessions>>

\* a connection: two attempts to commit it to what is published by then
AcceptorTries(n) == acceptor' = [acceptor EXCEPT !.pc = "try", !.candidate = slot, !.at = publication, !.tries = n]

AcceptorAccepts ==
    /\ acceptor.pc = "accept"
    /\ AcceptorTries(1)
    /\ UNCHANGED <<core, flags, drain, owner, seen, flows, sessions>>

\* try_commit_tcp_flow; a connection that is not committed is dropped
AcceptorCommits ==
    /\ acceptor.pc = "try"
    /\ LET admitted == Admits(acceptor.candidate, acceptor.at)
       IN /\ flows' = IF admitted THEN flows + 1 ELSE flows
          /\ IF admitted \/ acceptor.tries = 2 THEN AcceptAgain ELSE AcceptorTries(2)
    /\ UNCHANGED <<core, flags, drain, owner, seen, sessions>>

\* a flow ends; a loop that waits for its admission looks again
FlowEnds ==
    /\ flows > 0
    /\ flows' = flows - 1
    /\ IF acceptor.pc = "closed" THEN AcceptAgain ELSE UNCHANGED acceptor
    /\ UNCHANGED <<core, flags, drain, owner, seen, sessions>>

\* the loop is stopped and ends its flows
AcceptorEnds ==
    /\ stop /\ acceptor.pc \in {"top", "closed", "reserve", "accept"}
    /\ acceptor' = [acceptor EXCEPT !.pc = "ended", !.gen = None, !.epoch = 0]
    /\ flows' = 0
    /\ UNCHANGED <<core, flags, drain, owner, seen, sessions>>

-----------------------------------------------------------------------------
(* The UDP session manager *)

\* a packet without a pin: admit_new_udp_generation, two attempts.  (Bound: the published
\* generation has no pins yet; what more of its sessions do, the first does.)
UdpTries(n) == manager' = [pc |-> "try", gen |-> slot, at |-> publication, tries |-> n]
UdpDone == manager' = Resting

UdpLoads ==
    /\ manager.pc = "idle" /\ ~stop /\ slot \notin pins
    /\ UdpTries(1)
    /\ UNCHANGED <<core, flags, drain, owner, tcp, noticed, notified, registered, udp, pins, closing>>

UdpCommits ==
    /\ manager.pc = "try"
    /\ LET admitted == Admits(manager.gen, manager.at)
       IN \/ /\ admitted
             /\ manager' = [manager EXCEPT !.pc = IF manager.gen \in udp THEN "start" ELSE "register"]
          \/ ~admitted /\ manager.tries = 1 /\ UdpTries(2)
          \/ ~admitted /\ manager.tries = 2 /\ UdpDone
    /\ UNCHANGED <<core, flags, drain, owner, tcp, noticed, notified, registered, udp, pins, closing>>

\* ResidentUdpGenerationRuntime::start: set_udp_maintenance_notify stores the Notify ...
UdpRegisters ==
    /\ manager.pc = "register"
    /\ registered' = registered \union {manager.gen}
    /\ manager' = [manager EXCEPT !.pc = "start"]
    /\ UNCHANGED <<core, flags, drain, owner, tcp, noticed, notified, udp, pins, closing>>

\* ... and asks whether the stop came first; the packet is pinned unless it is refused.
\* A full table gives up another pin.
UdpStarts(pinned, evicted) ==
    /\ manager.pc = "start"
    /\ notified' = (notified \/ (manager.gen \notin udp /\ stop_is_requested(manager.gen)))
    /\ udp' = udp \union {manager.gen}
    /\ pinned => ~udp_stop[manager.gen]
    /\ pins' = IF pinned THEN (pins \ evicted) \union {manager.gen} ELSE pins
    /\ UdpDone
    /\ UNCHANGED <<core, flags, drain, owner, tcp, noticed, registered, closing>>

\* retire_idle_udp_generations, when the pins in gone have expired or are not required
RetireIdle(gone) ==
    /\ manager.pc = "idle" /\ ~stop
    /\ pins' = {g \in pins \ gone : ~udp_stop[g]}
    /\ LET idle == {g \in udp : g # slot /\ (udp_stop[g] \/ g \notin pins')}
       IN udp' = udp \ idle /\ closing' = closing \union idle
    /\ UNCHANGED <<core, flags, drain, owner, tcp, manager, registered>>

MaintainOnPublication(gone) ==
    /\ noticed # publication
    /\ RetireIdle(gone)
    /\ noticed' = publication /\ UNCHANGED notified

MaintainOnNotify(gone) ==
    /\ notified
    /\ RetireIdle(gone)
    /\ notified' = FALSE /\ UNCHANGED noticed

MaintainOnExpiry(gone) ==
    /\ gone # {}
    /\ RetireIdle(gone)
    /\ UNCHANGED <<noticed, notified>>

\* the shutdown of a generation's UDP runtime is over
UdpCloses(g) ==
    /\ g \in closing
    /\ closing' = closing \ {g}
    /\ UNCHANGED <<core, flags, drain, owner, tcp, manager, noticed, notified, registered, udp, pins>>

ManagerEnds ==
    /\ stop /\ manager.pc = "idle"
    /\ manager' = [manager EXCEPT !.pc = "ended"]
    /\ closing' = closing \union udp /\ udp' = {} /\ pins' = {}
    /\ UNCHANGED <<core, flags, drain, owner, tcp, noticed, notified, registered>>

-----------------------------------------------------------------------------
RequestForceStop(t) == ForceRetire(t) \/ ForceStop(t)

\* steps of an apply, or of a shutdown, that has begun
ControlContinues ==
    \/ RequestForceStop("control")
    \/ PreparePublication \/ EvictOldest \/ BuildGeneration \/ BuildFails \/ ActivateRouting \/ RoutingRefused
    \/ Publish \/ CloseAdmission \/ PushRetired \/ WakeReaper \/ CommitPublication \/ ApplyFails
    \/ RestoreEnds \/ Reactivate \/ RestoreRouting \/ RestoreRefused \/ Republish \/ Finalize \/ ApplyEnds
    \/ StopAll \/ SignalStop \/ JoinWorkloads \/ ClearSlot

ReaperRuns == RequestForceStop("reaper") \/ ReaperLook \/ ReaperReaps \/ ReaperStops \/ ReaperEnds

\* steps of the accept loop that no connection and no permit is needed for
AcceptorRuns ==
    \/ AcceptorLoads \/ AcceptorCompares \/ AcceptorAsksGate \/ AcceptorAsksAdmission \/ AcceptorReserves
    \/ AcceptorNotices \/ AcceptorCommits \/ AcceptorEnds

UdpContinues ==
    \/ UdpCommits \/ UdpRegisters \/ ManagerEnds
    \/ \E pinned \in BOOLEAN : \E evicted \in SUBSET pins : UdpStarts(pinned, evicted)

Maintain ==
    \E gone \in SUBSET pins :
        MaintainOnPublication(gone) \/ MaintainOnNotify(gone) \/ MaintainOnExpiry(gone)

Next ==
    \/ SnapshotForApply \/ Quiesce \/ ControlContinues
    \/ \E g \in Generations : Age(g) \/ UdpCloses(g)
    \/ ReaperRuns \/ AcceptorRuns \/ AcceptorAccepts \/ FlowEnds
    \/ UdpLoads \/ UdpContinues \/ Maintain

Spec == Init /\ [][Next]_vars

\* Threads and tasks run on, deadlines pass, select! takes a branch that stays ready,
\* the shutdown of a UDP runtime ends.  Nothing else has to happen: no packet,
\* no connection, no apply, no expiry of a pin.
Fairness ==
    /\ WF_vars(ControlContinues) /\ WF_vars(ReaperRuns) /\ WF_vars(AcceptorRuns) /\ WF_vars(UdpContinues)
    /\ WF_vars(\E g \in Generations : Age(g)) /\ WF_vars(\E g \in Generations : UdpCloses(g))
    /\ SF_vars(\E gone \in SUBSET pins : MaintainOnPublication(gone) \/ MaintainOnNotify(gone))

FairSpec == Spec /\ Fairness

-----------------------------------------------------------------------------
(* Properties *)

\* a shutdown has begun
Quiescing == control \in {"stop_all", "signal", "join", "clear", "down"}

\* Until a shutdown begins the published generation accepts work: it is active, nobody is about to stop it
\* or has it in the list of the retired, and the gate admits to it, except between the activation of its
\* successor's routes and the publication (generation_drain.rs, reactivate and reap; generation_fence.rs).
ServingIsOpen ==
    ~Quiescing =>
        /\ life[slot] = "Active" /\ ~workload_stop[slot] /\ slot \notin Retirees
        /\ \A t \in Threads : slot \notin Targeted(t)
        /\ gate = slot \/ control \in {"publish", "republish"}

\* As long as an apply may go back, the generation it replaced can be reactivated: neither a reap nor the
\* eviction under pressure has taken it, only its deadline may have (detach_heavy_generation_if_unowned).
SnapshotRestorable ==
    control \in {"wake", "published", "restore"} /\ slot # snapshot =>
        \E r \in retired :
            /\ r.id = snapshot /\ r.heavy
            /\ r.aged \/ (r.reason = "none" /\ life[snapshot] = "Retired")

\* A generation whose background workloads still run is published, in the list of the retired, or in the
\* hands of a thread that publishes, retires or stops it (retire, reactivate, pressure_evict_oldest,
\* stop_all).  Not so one whose routes the map refused: publish_prepared_generation and restore_generation
\* return early and drop it without a stop.
NothingForgotten ==
    \A g \in Generations \ refused :
        life[g] # "unbuilt" /\ ~workload_stop[g] =>
            \/ g \in {slot, hand} \union Retirees
            \/ control \in {"reactivated", "republish"} /\ g = snapshot
            \/ \E t \in Threads : g \in Targeted(t)

\* The accept loop does not wait for an admission that is open: while it waits, and has seen the last
\* publication, the next one is on its way, or the runtime is shutting down
\* (wait_while_tcp_admission_is_closed).
AcceptorNotStranded ==
    acceptor.pc = "closed" /\ seen = publication => control \in {"publish", "republish"} \/ Quiescing

\* A generation that was retired ends: it is reactivated, or the drain lets go of it and its UDP runtime
\* is shut down, whatever pins it has (run, reap, request_force_stop, retire_idle_udp_generations).
RetirementEnds ==
    \A g \in Generations :
        life[g] \in {"Retired", "Draining", "Stopped"} ~>
            life[g] = "Active" \/ (g \notin Retirees /\ g \notin udp \union closing)
=============================================================================
