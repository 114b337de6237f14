---------------------------- MODULE DomainRouting ----------------------------
(***************************************************************************)
(* ResidentDnsDomainRouting (dae-resident-dns, domain_routing.rs and below)   *)
(* on the generation fence of dae-resident-core: accepted DNS responses, the   *)
(* cache of them a generation keeps, the route owners derived from it, and      *)
(* the kernel's domain_routing map that only the active generation writes.      *)
(*                                                                         *)
(* Processes: callers that record or reject responses through                 *)
(* dispatch_mutation, one maintenance thread per generation (named by the       *)
(* generation), and the reloader, the owner of the dataplane runtime, which     *)
(* builds, activates and rolls back generations one at a time.                 *)
(*                                                                         *)
(* One step is one critical section: of the state or the revision mutex while   *)
(* the generation's mutation lock is held, or of the gate, under which the map, *)
(* the fence's tracker and the checked-out owner change together.  A response   *)
(* is the addresses it carries and its deadline; time is a small counter.       *)
(***************************************************************************)
EXTENDS DomainRoutingTracker, Integers, FiniteSets

CONSTANTS Generations, Callers, Reloader, None,
          Matches,       \* per generation and key, the rules its matcher finds
          Capacity,      \* DnsCacheStore capacity
          Batch,         \* entries a sweep takes at once
          MaxTime,       \* bound on the clock and on deadlines
          MaxSequence,   \* bound on the response revisions, one less in each epoch
          MaxEpoch       \* bound on poison recoveries of the revisions

Procs == Callers \union Generations \union {Reloader}

ASSUME ProcsAssumption ==
    /\ IsFiniteSet(Procs)
    /\ Callers \intersect Generations = {}
    /\ Reloader \notin Callers \union Generations
    /\ None \notin Procs \union Keys
ASSUME MatchesAssumption == Matches \in [Generations -> [Keys -> SUBSET Rules]]
ASSUME BoundsAssumption ==
    /\ Capacity \in Nat \ {0}
    /\ Batch \in Nat \ {0}
    /\ {MaxTime, MaxSequence, MaxEpoch} \subseteq Nat

VARIABLES
    now,         \* unix_now
    active,      \* GenerationGate.active
    installed,   \* the fence's state has a map_id
    fence,       \* the tracker of the fence's state
    bpf,         \* the kernel's map: the bitmap of each address, empty if absent
    torn,        \* a rollback of the map failed
    cache,       \* per generation, the DnsCacheStore
    owner,       \* per generation, the tracker of its DomainRoutingOwner
    bound,       \* generations whose DomainRoutingOwner has a map_id
    mutation,    \* per generation, who holds the mutation lock
    dispatch,    \* per generation, who holds the dispatch admission
    epoch,       \* per generation, the identity of its ResponseRevisionState
    sequence,    \* ResponseRevisionState.sequence
    pending,     \* ResponseRevisionState.pending
    settled,     \* history: the revision that last decided each key
    changed,     \* generations with a change their maintenance has not read
    served,      \* generations that were published and may still get requests
    retired,     \* generations the drain could still reactivate
    restoring,   \* the reload snapshot the next generation is still to restore
    pc, op

clock == <<now>>
map == <<active, installed, fence, bpf, torn>>
routes == <<cache, owner, bound>>
locks == <<mutation, dispatch>>
revisions == <<epoch, sequence, pending>>
lifecycle == <<served, retired>>
vars == <<clock, map, routes, locks, revisions, settled, changed, lifecycle, restoring, pc, op>>

Entry == [ips : SUBSET Ips, deadline : 0..MaxTime]
NoEntry == [ips |-> {}, deadline |-> 0]
Revision == [epoch : 0..MaxEpoch, seq : Nat]
NoRevision == [epoch |-> 0, seq |-> 0]
Pending == [count : Nat, committed : Nat]
NotPending == [count |-> 0, committed |-> 0]
Events == UNION {[K -> Snapshot] : K \in SUBSET Keys}
NoEvents == [k \in {} |-> NoRoute]

\* kind: what the process is doing; rev: its ResponseRevision; events: the batch
\* for the map; doomed: keys whose entries go; time: unix_now of a sweep, or until
\* when the maintenance sleeps.
Op == [kind : {"none", "record", "restore", "remove", "sweep"},
       g : Generations \union {None}, key : Keys \union {None},
       ips : SUBSET Ips, deadline : 0..MaxTime, rev : Revision,
       events : Events, doomed : SUBSET Keys,
       time : 0..(MaxTime + 1)]
NoOp == [kind |-> "none", g |-> None, key |-> None, ips |-> {}, deadline |-> 0,
         rev |-> NoRevision, events |-> NoEvents, doomed |-> {}, time |-> 0]

Working == {"queued", "admitted", "staged", "applied", "stored", "ending", "failed"}
CallerPc == Working \union {"idle"}
MaintenancePc == Working \union {"off", "loop", "look", "wait", "stopped"}
ReloaderPc == Working \union {"idle", "sweeping", "building", "restoring", "built", "stopped"}

Init ==
    /\ now = 0
    /\ active = None
    /\ installed = FALSE
    /\ fence = EmptyTracker
    /\ bpf = [i \in Ips |-> {}]
    /\ torn = FALSE
    /\ cache = [g \in Generations |-> [k \in Keys |-> NoEntry]]
    /\ owner = [g \in Generations |-> EmptyTracker]
    /\ bound = {}
    /\ mutation = [g \in Generations |-> None]
    /\ dispatch = [g \in Generations |-> None]
    /\ epoch = [g \in Generations |-> 0]
    /\ sequence = [g \in Generations |-> 0]
    /\ pending = [g \in Generations |-> [k \in Keys |-> NotPending]]
    /\ settled = [g \in Generations |-> [k \in Keys |-> NoRevision]]
    /\ changed = {}
    /\ served = {}
    /\ retired = {}
    /\ restoring = [k \in Keys |-> NoEntry]
    /\ pc = [p \in Procs |-> IF p \in Generations THEN "off" ELSE "idle"]
    /\ op = [p \in Procs |-> NoOp]

\* unix_now advances.
Tick ==
    /\ now < MaxTime
    /\ now' = now + 1
    /\ UNCHANGED <<map, routes, locks, revisions, settled, changed, lifecycle, restoring, pc, op>>

-----------------------------------------------------------------------------
(* ResponseRevisions *)

\* The u64 sequence never runs out; the model leaves room for the removals under way
\* and spends some of it on each recovery.
HasRoom(g) ==
    epoch[g] + sequence[g] + Cardinality({p \in Procs : op[p].kind = "remove" /\ op[p].g = g})
        < MaxSequence

\* The revisions' mutex was poisoned: its next user starts a fresh state, whose
\* identity no outstanding token has.  (Worth it while another response may follow.)
PoisonRevisions(g) ==
    /\ epoch[g] < MaxEpoch
    /\ HasRoom(g)
    /\ epoch' = [epoch EXCEPT ![g] = @ + 1]
    /\ sequence' = [sequence EXCEPT ![g] = 0]
    /\ pending' = [pending EXCEPT ![g] = [k \in Keys |-> NotPending]]
    /\ UNCHANGED <<clock, map, routes, locks, settled, changed, lifecycle, restoring, pc, op>>

BeginRevision(g, k) ==
    /\ sequence' = [sequence EXCEPT ![g] = @ + 1]
    /\ pending' = [pending EXCEPT ![g][k].count = @ + 1]
    /\ UNCHANGED epoch

NextRevision(g) == [epoch |-> epoch[g], seq |-> sequence[g] + 1]

\* Defect: an unexpired plan commits whatever was committed since it began.
CanCommitAny(o) == o.rev.epoch = epoch[o.g] /\ pending[o.g][o.key].count > 0

CanCommit(o) ==
    /\ o.rev.epoch = epoch[o.g]
    /\ pending[o.g][o.key].count > 0
    /\ pending[o.g][o.key].committed < o.rev.seq

\* ResponseRevision::committed, when the state still is the token's.
CommitRevision(o) ==
    /\ pending' = [pending EXCEPT ![o.g][o.key].committed =
                                    IF @ >= o.rev.seq THEN @ ELSE o.rev.seq]
    /\ UNCHANGED <<epoch, sequence>>

\* ResponseRevisions::invalidate: older responses under way are stale from now on.
Invalidate(g, k) ==
    /\ sequence' = [sequence EXCEPT ![g] = @ + 1]
    /\ pending' = IF pending[g][k].count > 0
                  THEN [pending EXCEPT ![g][k].committed = sequence[g] + 1]
                  ELSE pending
    /\ UNCHANGED epoch

\* Drop of ResponseRevision: the last token of a key takes the key with it.
DropRevision(o) ==
    /\ pending' = IF /\ o.kind \in {"record", "restore"}
                     /\ o.rev.epoch = epoch[o.g]
                     /\ pending[o.g][o.key].count > 0
                  THEN IF pending[o.g][o.key].count = 1
                       THEN [pending EXCEPT ![o.g][o.key] = NotPending]
                       ELSE [pending EXCEPT ![o.g][o.key].count = @ - 1]
                  ELSE pending
    /\ UNCHANGED <<epoch, sequence>>

-----------------------------------------------------------------------------
(* Requests: record_accepted_response_async, remove_key_async, dispatch_mutation *)

Start(p, o, at) ==
    /\ op' = [op EXCEPT ![p] = o]
    /\ pc' = [pc EXCEPT ![p] = at]

\* A response was accepted: its revision begins before it queues for admission.
Record(p, g, k, ips, deadline) ==
    /\ pc[p] = "idle"
    /\ g \in served
    /\ HasRoom(g)
    /\ Start(p, [NoOp EXCEPT !.kind = "record", !.g = g, !.key = k, !.ips = ips,
                             !.deadline = deadline, !.rev = NextRevision(g)], "queued")
    /\ BeginRevision(g, k)
    /\ UNCHANGED <<clock, map, routes, locks, settled, changed, lifecycle, restoring>>

\* A request was rejected: what is cached for its key goes.
Remove(p, g, k) ==
    /\ pc[p] = "idle"
    /\ g \in served
    /\ HasRoom(g)
    /\ Start(p, [NoOp EXCEPT !.kind = "remove", !.g = g, !.key = k], "queued")
    /\ UNCHANGED <<clock, map, routes, locks, revisions, settled, changed, lifecycle, restoring>>

\* The request times out or is cancelled in the queue.
Abandon(p) ==
    /\ p \in Callers
    /\ pc[p] = "queued"
    /\ DropRevision(op[p])
    /\ Start(p, NoOp, "idle")
    /\ UNCHANGED <<clock, map, routes, locks, settled, changed, lifecycle, restoring>>

\* dispatch.lock: the admission goes to one job of the generation at a time.  A sweep
\* takes its time here.
Admit(p) ==
    /\ pc[p] = "queued"
    /\ dispatch[op[p].g] = None
    /\ dispatch' = [dispatch EXCEPT ![op[p].g] = p]
    /\ Start(p, IF op[p].kind = "sweep" THEN [op[p] EXCEPT !.time = now] ELSE op[p], "admitted")
    /\ UNCHANGED <<clock, map, routes, mutation, revisions, settled, changed, lifecycle, restoring>>

\* The job got the mutation lock, and finds its request cancelled or out of time.
CancelledBeforeCommit(p) ==
    /\ p \in Callers
    /\ pc[p] = "admitted"
    /\ mutation[op[p].g] = None
    /\ mutation' = [mutation EXCEPT ![op[p].g] = p]
    /\ pc' = [pc EXCEPT ![p] = "failed"]
    /\ UNCHANGED <<clock, map, routes, dispatch, revisions, settled, changed, lifecycle, restoring, op>>

-----------------------------------------------------------------------------
(* Transactions, under the mutation lock of their generation *)

Cached(g, k) == cache[g][k] # NoEntry
CachedKeys(g) == {k \in Keys : Cached(g, k)}
Expired(g, time) == {k \in CachedKeys(g) : cache[g][k].deadline <= time}

\* A plan exists for addresses whose name matches a rule.
HasPlan(o) == o.ips # {} /\ Matches[o.g][o.key] # {}

Storable(o) == o.deadline > now /\ ~(o.kind = "restore" /\ Cached(o.g, o.key))

RemoveEvents(keys) == [k \in keys |-> NoRoute]

\* One batch: the owner of the evicted entry goes, the response's comes.
RecordEvents(o, victims) ==
    [k \in victims \union {o.key} |->
        IF k = o.key THEN [bits |-> Matches[o.g][k], ips |-> o.ips] ELSE NoRoute]

\* capacity_eviction_key_for_insert: the entry with the earliest deadline.
Victims(g, k) ==
    IF Cached(g, k) \/ Cardinality(CachedKeys(g)) < Capacity
    THEN {{}}
    ELSE {{v} : v \in {v \in CachedKeys(g) :
                         \A w \in CachedKeys(g) : cache[g][v].deadline <= cache[g][w].deadline}}

Lock(p) ==
    /\ pc[p] = "admitted"
    /\ mutation[op[p].g] = None
    /\ mutation' = [mutation EXCEPT ![op[p].g] = p]
    /\ UNCHANGED <<clock, map, routes, dispatch, settled, changed, lifecycle, restoring>>

\* commit_response_locked, up to the map transaction.
StageRecord(p) ==
    LET o == op[p]
    IN  /\ o.kind \in {"record", "restore"}
        /\ Lock(p)
        /\ UNCHANGED revisions
        /\ \/ /\ ~CanCommit(o) \/ (HasPlan(o) /\ ~Storable(o))
              /\ Start(p, o, "ending")
           \/ /\ CanCommit(o) /\ HasPlan(o) /\ Storable(o)
              /\ \E victims \in Victims(o.g, o.key) :
                   Start(p, [o EXCEPT !.doomed = victims, !.events = RecordEvents(o, victims)],
                         "staged")
           \/ /\ CanCommit(o) /\ ~HasPlan(o) /\ Cached(o.g, o.key)
              /\ Start(p, [o EXCEPT !.doomed = {o.key}, !.events = RemoveEvents({o.key})], "staged")
           \/ /\ CanCommit(o) /\ ~HasPlan(o) /\ ~Cached(o.g, o.key)
              /\ Start(p, o, "applied")

\* remove_key_locked: without an entry only the responses under way are invalidated.
StageRemove(p) ==
    LET o == op[p]
    IN  /\ o.kind = "remove"
        /\ Lock(p)
        /\ UNCHANGED revisions
        /\ IF Cached(o.g, o.key)
           THEN Start(p, [o EXCEPT !.doomed = {o.key}, !.events = RemoveEvents({o.key})], "staged")
           ELSE Start(p, o, "applied")

\* sweep_expired_batch: at most a batch of the entries that expired.
StageSweep(p) ==
    LET o == op[p]
    IN  /\ o.kind = "sweep"
        /\ Lock(p)
        /\ UNCHANGED revisions
        /\ IF Expired(o.g, o.time) = {}
           THEN Start(p, o, "ending")
           ELSE \E batch \in SUBSET Expired(o.g, o.time) :
                  /\ batch # {}
                  /\ Cardinality(batch) <= Batch
                  /\ Cardinality(batch) = Batch \/ batch = Expired(o.g, o.time)
                  /\ Start(p, [o EXCEPT !.doomed = batch, !.events = RemoveEvents(batch)], "staged")

\* Defect: the generation is not compared with the active one.
Unfenced(g) == ~installed

\* with_active: the gate keeps the transactions of generation g from the map.
Fenced(g) == active # g \/ ~installed

MapUpdates(o) == Updates(owner[o.g], o.g \in bound, o.events)
MapDeletes(o) == Deletes(owner[o.g], o.g \in bound, o.events)
MapAfter(o) == Written(bpf, Staged(owner[o.g], o.events), MapUpdates(o), MapDeletes(o))

OwnerApplied(o) ==
    /\ owner' = [owner EXCEPT ![o.g] = ApplyEvents(@, o.events)]
    /\ bound' = bound \union {o.g}

\* apply_events_with on a generation that is not the active one: in memory only.
TransactInMemory(p) ==
    LET o == op[p]
    IN  /\ pc[p] = "staged"
        /\ Fenced(o.g)
        /\ OwnerApplied(o)
        /\ pc' = [pc EXCEPT ![p] = "applied"]
        /\ UNCHANGED <<clock, map, cache, locks, revisions, settled, changed, lifecycle, restoring, op>>

\* Under the gate: the map, the owner, and the fence's copy of it.
Transact(p) ==
    LET o == op[p]
    IN  /\ pc[p] = "staged"
        /\ ~Fenced(o.g)
        /\ bpf' = MapAfter(o)
        /\ OwnerApplied(o)
        /\ fence' = IF Replacements(owner[o.g], o.events) # {}
                    THEN SyncOwners(fence, o.events) ELSE fence
        /\ pc' = [pc EXCEPT ![p] = "applied"]
        /\ UNCHANGED <<clock, active, installed, torn, cache, locks, revisions, settled, changed,
                       lifecycle, restoring, op>>

\* apply_domain_routing_map_by_id fails and rolls the map back; when the rollback
\* fails as well, any part of the change may stay.
RejectTransaction(p) ==
    LET o == op[p]
    IN  /\ pc[p] = "staged"
        /\ ~Fenced(o.g)
        /\ MapUpdates(o) \union MapDeletes(o) # {}
        /\ \/ UNCHANGED <<bpf, torn>>
           \/ /\ torn' = TRUE
              /\ \E S \in SUBSET (MapUpdates(o) \union MapDeletes(o)) :
                   bpf' = [i \in Ips |-> IF i \in S THEN MapAfter(o)[i] ELSE bpf[i]]
        /\ pc' = [pc EXCEPT ![p] = "failed"]
        /\ UNCHANGED <<clock, active, installed, fence, routes, locks, revisions, settled, changed,
                       lifecycle, restoring, op>>

Discarded(entries, keys) == [k \in Keys |-> IF k \in keys THEN NoEntry ELSE entries[k]]
Settle(g, k, rev) == settled' = [settled EXCEPT ![g][k] = rev]

\* The cache follows the routes: insert_with_eviction, or discard.
StoreRecord(p) ==
    LET o == op[p]
        entry == IF HasPlan(o) THEN [ips |-> o.ips, deadline |-> o.deadline] ELSE NoEntry
    IN  /\ pc[p] = "applied"
        /\ o.kind \in {"record", "restore"}
        /\ cache' = [cache EXCEPT ![o.g] = [Discarded(@, o.doomed) EXCEPT ![o.key] = entry]]
        /\ Settle(o.g, o.key, o.rev)
        /\ pc' = [pc EXCEPT ![p] = "stored"]
        /\ UNCHANGED <<clock, map, owner, bound, locks, revisions, changed, lifecycle, restoring, op>>

\* remove_key_locked after its transaction: responses begun before it are stale now.
StoreRemove(p) ==
    LET o == op[p]
    IN  /\ pc[p] = "applied"
        /\ o.kind = "remove"
        /\ Invalidate(o.g, o.key)
        /\ cache' = [cache EXCEPT ![o.g] = Discarded(@, o.doomed)]
        /\ Settle(o.g, o.key, NextRevision(o.g))
        /\ changed' = IF o.doomed # {} THEN changed \union {o.g} ELSE changed
        /\ pc' = [pc EXCEPT ![p] = "ending"]
        /\ UNCHANGED <<clock, map, owner, bound, locks, lifecycle, restoring, op>>

\* discard_expired_entries_limited
StoreSweep(p) ==
    LET o == op[p]
    IN  /\ pc[p] = "applied"
        /\ o.kind = "sweep"
        /\ cache' = [cache EXCEPT ![o.g] = Discarded(@, o.doomed)]
        /\ pc' = [pc EXCEPT ![p] = "ending"]
        /\ UNCHANGED <<clock, map, owner, bound, locks, revisions, settled, changed, lifecycle,
                       restoring, op>>

\* Defect: the maintenance is not told of the new deadline.
DeadlineChangedSilently(g) == UNCHANGED changed

NotifyDeadlineChanged(g) == changed' = changed \union {g}

\* ResponseRevision::committed, then the deadline is announced.  A token of an
\* earlier epoch is an error here, after routes and cache have changed.
Commit(p) ==
    LET o == op[p]
    IN  /\ pc[p] = "stored"
        /\ IF o.rev.epoch = epoch[o.g] /\ pending[o.g][o.key].count > 0
           THEN /\ CommitRevision(o)
                /\ IF o.kind = "record" THEN NotifyDeadlineChanged(o.g) ELSE UNCHANGED changed
                /\ pc' = [pc EXCEPT ![p] = "ending"]
           ELSE /\ UNCHANGED <<revisions, changed>>
                /\ pc' = [pc EXCEPT ![p] = "failed"]
        /\ UNCHANGED <<clock, map, routes, locks, settled, lifecycle, restoring, op>>

\* Where a process goes when its transaction is over.  A failed sweep is retried after
\* a delay; a failed step of a reload gives the reload up, and the generation with it.
Resume(p) ==
    CASE p \in Callers -> Start(p, NoOp, "idle")
      [] p \in Generations -> Start(p, NoOp, IF pc[p] = "failed" THEN "wait" ELSE "loop")
      [] p = Reloader /\ pc[p] = "failed" ->
           /\ op' = [op EXCEPT ![p] = NoOp]
           /\ pc' = [pc EXCEPT ![p] = "idle",
                               ![op[p].g] = IF op[p].kind = "restore" THEN "stopped" ELSE @]
      [] p = Reloader /\ pc[p] # "failed" ->
           Start(p, [NoOp EXCEPT !.g = op[p].g, !.time = op[p].time],
                 IF op[p].kind = "sweep" THEN "sweeping" ELSE "restoring")

Release(lock, p) == [g \in Generations |-> IF lock[g] = p THEN None ELSE lock[g]]

\* The token is dropped, then the mutation lock, then the admission.
End(p) ==
    /\ pc[p] \in {"ending", "failed"}
    /\ DropRevision(op[p])
    /\ mutation' = Release(mutation, p)
    /\ dispatch' = Release(dispatch, p)
    /\ Resume(p)
    /\ UNCHANGED <<clock, map, routes, settled, changed, lifecycle, restoring>>

-----------------------------------------------------------------------------
(* run_domain_routing_maintenance, the thread of generation g *)

Deadlines(g) == {cache[g][k].deadline : k \in CachedKeys(g)}

\* next_expiry_unix, as the time to sleep until; past the clock when there is none.
NextExpiry(g) ==
    IF Deadlines(g) = {} THEN MaxTime + 1
    ELSE CHOOSE d \in Deadlines(g) : \A e \in Deadlines(g) : d <= e

\* The number of changes is read before the cache is looked at.
ReadSignal(g) ==
    /\ pc[g] = "loop"
    /\ changed' = changed \ {g}
    /\ pc' = [pc EXCEPT ![g] = "look"]
    /\ UNCHANGED <<clock, map, routes, locks, revisions, settled, lifecycle, restoring, op>>

LookAtDeadlines(g) ==
    /\ pc[g] = "look"
    /\ IF NextExpiry(g) <= now
       THEN Start(g, [NoOp EXCEPT !.kind = "sweep", !.g = g], "queued")
       ELSE Start(g, [NoOp EXCEPT !.time = NextExpiry(g)], "wait")
    /\ UNCHANGED <<clock, map, routes, locks, revisions, settled, changed, lifecycle, restoring>>

\* Defect: the wait has no timeout.
WakeOnChange(g) ==
    /\ pc[g] = "wait"
    /\ g \in changed
    /\ Start(g, NoOp, "loop")
    /\ UNCHANGED <<clock, map, routes, locks, revisions, settled, changed, lifecycle, restoring>>

\* wait_for_change returns: something changed, or the timeout is over.
Wake(g) ==
    /\ pc[g] = "wait"
    /\ g \in changed \/ op[g].time <= now
    /\ Start(g, NoOp, "loop")
    /\ UNCHANGED <<clock, map, routes, locks, revisions, settled, changed, lifecycle, restoring>>

\* The generation was retired and detached, given up or shut down, and its thread sees
\* stopped.
StopMaintenance(g) ==
    /\ active # g
    /\ pc[g] \in {"loop", "wait"}
    /\ ~(pc[Reloader] = "built" /\ op[Reloader].g = g)
    /\ Start(g, NoOp, "stopped")
    /\ retired' = retired \ {g}
    /\ UNCHANGED <<clock, map, routes, locks, revisions, settled, changed, served, restoring>>

-----------------------------------------------------------------------------
(* Reloads: snapshot_for_reload, restore_reload_snapshot, activate_generation *)

\* A reload begins with snapshot_for_reload, which takes its time and first has the
\* active generation swept.  (It is worth beginning while a generation is left.)
BeginSnapshot ==
    /\ pc[Reloader] = "idle"
    /\ active # None
    /\ \E g \in Generations : pc[g] = "off"
    /\ Start(Reloader, [NoOp EXCEPT !.g = active, !.time = now], "sweeping")
    /\ UNCHANGED <<clock, map, routes, locks, revisions, settled, changed, lifecycle, restoring>>

\* sweep_expired_until: the batches of the reloader pass by the dispatch admission.
SweepForSnapshot ==
    LET o == op[Reloader]
    IN  /\ pc[Reloader] = "sweeping"
        /\ Expired(o.g, o.time) # {}
        /\ Start(Reloader, [o EXCEPT !.kind = "sweep"], "admitted")
        /\ UNCHANGED <<clock, map, routes, locks, revisions, settled, changed, lifecycle, restoring>>

\* snapshot_live_entries_shared, which waits for no transaction.
ReadSnapshot ==
    LET o == op[Reloader]
    IN  /\ pc[Reloader] = "sweeping"
        /\ Expired(o.g, o.time) = {}
        /\ restoring' = cache[o.g]
        /\ Start(Reloader, NoOp, "building")
        /\ UNCHANGED <<clock, map, routes, locks, revisions, settled, changed, lifecycle>>

\* A generation is built, with the snapshot that was read or with none.
Build(g) ==
    /\ pc[Reloader] \in {"idle", "building"}
    /\ pc[g] = "off"
    /\ restoring' = IF pc[Reloader] = "idle" THEN [k \in Keys |-> NoEntry] ELSE restoring
    /\ Start(Reloader, [NoOp EXCEPT !.g = g, !.time = now], "restoring")
    /\ UNCHANGED <<clock, map, routes, locks, revisions, settled, changed, lifecycle>>

\* One entry of the snapshot: skipped when it expired; begun and dropped when no rule
\* of the new generation matches it; committed like a response otherwise.
RestoreEntry(k) ==
    LET g == op[Reloader].g
        o == [op[Reloader] EXCEPT !.kind = "restore", !.key = k, !.ips = restoring[k].ips,
                                  !.deadline = restoring[k].deadline, !.rev = NextRevision(g)]
    IN  /\ pc[Reloader] = "restoring"
        /\ restoring[k] # NoEntry
        /\ restoring' = [restoring EXCEPT ![k] = NoEntry]
        /\ IF o.deadline <= op[Reloader].time
           THEN UNCHANGED <<revisions, pc, op>>
           ELSE IF HasPlan(o)
           THEN BeginRevision(g, k) /\ Start(Reloader, o, "admitted")
           ELSE /\ sequence' = [sequence EXCEPT ![g] = @ + 1]
                /\ UNCHANGED <<epoch, pending, pc, op>>
        /\ UNCHANGED <<clock, map, routes, locks, settled, changed, lifecycle>>

\* start_maintenance.  The change restore_reload_snapshot announces is older than the
\* thread, which reads the number of changes first.
StartMaintenance ==
    /\ pc[Reloader] = "restoring"
    /\ \A k \in Keys : restoring[k] = NoEntry
    /\ pc' = [pc EXCEPT ![Reloader] = "built", ![op[Reloader].g] = "loop"]
    /\ UNCHANGED <<clock, map, routes, locks, revisions, settled, changed, lifecycle, restoring, op>>

\* What the switch to generation g writes: the difference to the fence's tracker, or
\* everything when no generation was installed.
SwitchUpdates(g) ==
    IF installed THEN TransitionUpdates(fence, owner[g])
    ELSE {i \in Ips : Present(owner[g].index[i])}
SwitchDeletes(g) == IF installed THEN TransitionDeletes(fence, owner[g]) ELSE {}
MapSwitched(g) == Written(bpf, owner[g].index, SwitchUpdates(g), SwitchDeletes(g))

\* activate_with, under the gate and the mutation lock of g.
Switch(g) ==
    /\ bpf' = MapSwitched(g)
    /\ installed' = TRUE
    /\ fence' = owner[g]
    /\ active' = g
    /\ UNCHANGED torn

\* The map rejects the switch; the gate and the fence stay.
RejectSwitch(g) ==
    /\ SwitchUpdates(g) \union SwitchDeletes(g) # {}
    /\ \/ UNCHANGED <<bpf, torn>>
       \/ /\ torn' = TRUE
          /\ \E S \in SUBSET (SwitchUpdates(g) \union SwitchDeletes(g)) :
               bpf' = [i \in Ips |-> IF i \in S THEN MapSwitched(g)[i] ELSE bpf[i]]
    /\ UNCHANGED <<installed, fence, active>>

\* publish_prepared_generation: the new generation is activated, then published.
Activate(g) ==
    /\ pc[Reloader] = "built"
    /\ op[Reloader].g = g
    /\ mutation[g] = None
    /\ \/ /\ Switch(g)
          /\ served' = served \union {g}
          /\ retired' = retired \union ({active} \ {None})
       \/ RejectSwitch(g) /\ UNCHANGED lifecycle
    /\ Start(Reloader, NoOp, "idle")
    /\ UNCHANGED <<clock, routes, locks, revisions, settled, changed, restoring>>

\* restore_generation: back to a generation the drain still has, which gives it up for
\* good.  The one it displaces is stopped and gets no more requests.
Reactivate(g) ==
    /\ pc[Reloader] = "idle"
    /\ g \in retired
    /\ mutation[g] = None
    /\ retired' = retired \ {g}
    /\ \/ Switch(g) /\ served' = served \ {active}
       \/ RejectSwitch(g) /\ UNCHANGED served
    /\ UNCHANGED <<clock, routes, locks, revisions, settled, changed, restoring, pc, op>>

\* The terminal shutdown clears the gate.
Clear ==
    /\ pc[Reloader] = "idle"
    /\ active # None
    /\ active' = None
    /\ pc' = [pc EXCEPT ![Reloader] = "stopped"]
    /\ UNCHANGED <<clock, installed, fence, bpf, torn, routes, locks, revisions, settled, changed,
                   lifecycle, restoring, op>>

-----------------------------------------------------------------------------

\* The steps of a transaction that need nobody else, its lock once held.
Finish(p) ==
    \/ TransactInMemory(p) \/ Transact(p)
    \/ StoreRecord(p) \/ StoreRemove(p) \/ StoreSweep(p)
    \/ Commit(p) \/ End(p)

Stage(p) == StageRecord(p) \/ StageRemove(p) \/ StageSweep(p)

\* What a process does of itself once it asked.
Advance(p) == Admit(p) \/ Stage(p) \/ Finish(p)

Request(p) ==
    \/ \E g \in Generations, k \in Keys :
         Remove(p, g, k)
         \/ \E ips \in SUBSET Ips, deadline \in now..MaxTime : Record(p, g, k, ips, deadline)
    \/ Abandon(p)
    \/ CancelledBeforeCommit(p)

Maintain(g) == ReadSignal(g) \/ LookAtDeadlines(g) \/ Wake(g)

Reload ==
    \/ BeginSnapshot \/ SweepForSnapshot \/ ReadSnapshot \/ StartMaintenance \/ Clear
    \/ \E k \in Keys : RestoreEntry(k)
    \/ \E g \in Generations : Build(g) \/ Activate(g) \/ Reactivate(g)

Next ==
    \/ Tick
    \/ Reload
    \/ \E g \in Generations : PoisonRevisions(g) \/ StopMaintenance(g) \/ Maintain(g)
    \/ \E p \in Callers : Request(p)
    \/ \E p \in Procs : Advance(p) \/ RejectTransaction(p)

Spec == Init /\ [][Next]_vars

\* Every thread that is running runs on, the FIFO admission and the mutation lock reach
\* whoever waits for them, and a map that keeps being asked for a sweep accepts it.
\* Nobody is made to ask, reload or stop.
FairSpec ==
    /\ Spec
    /\ \A p \in Procs : SF_vars(Advance(p))
    /\ \A g \in Generations : WF_vars(Maintain(g)) /\ SF_vars(Transact(g))
-----------------------------------------------------------------------------
(* Properties *)

\* The structure of the state: every process is where its kind of code can be, and
\* holds a lock only while it works.
TypeOK ==
    /\ now \in 0..MaxTime
    /\ active \in Generations \union {None}
    /\ installed \in BOOLEAN /\ torn \in BOOLEAN
    /\ fence \in Tracker
    /\ bpf \in [Ips -> SUBSET Rules]
    /\ cache \in [Generations -> [Keys -> Entry]]
    /\ owner \in [Generations -> Tracker]
    /\ bound \subseteq Generations
    /\ mutation \in [Generations -> Procs \union {None}]
    /\ dispatch \in [Generations -> Procs \union {None}]
    /\ epoch \in [Generations -> 0..MaxEpoch]
    /\ sequence \in [Generations -> Nat]
    /\ pending \in [Generations -> [Keys -> Pending]]
    /\ settled \in [Generations -> [Keys -> Revision]]
    /\ changed \subseteq Generations
    /\ retired \subseteq served
    /\ served \subseteq Generations
    /\ restoring \in [Keys -> Entry]
    /\ op \in [Procs -> Op]
    /\ pc \in [Procs -> CallerPc \union MaintenancePc \union ReloaderPc]
    /\ \A p \in Callers : pc[p] \in CallerPc
    /\ \A g \in Generations : pc[g] \in MaintenancePc
    /\ pc[Reloader] \in ReloaderPc
    /\ \A p \in Procs : pc[p] \in Working => op[p].g \in Generations

\* What the cache of generation g says of address i.
Routed(g, i) == UNION {Matches[g][k] : k \in {k \in CachedKeys(g) : i \in cache[g][k].ips}}

\* Whenever no transaction of the active generation is open, the kernel routes exactly
\* the addresses its cache holds, with the rules of its own matcher: no address of an
\* evicted, expired, superseded or rejected response is left, none of a live one is
\* missing, and nothing of a retired generation's late transactions shows, whatever
\* failed and was rolled back on the way.  (A rollback that itself failed is excluded.)
KernelMatchesCache ==
    \A g \in Generations :
        active = g /\ mutation[g] = None /\ ~torn
            => \A i \in Ips : bpf[i] = Routed(g, i)

Newer(a, b) == a.epoch > b.epoch \/ (a.epoch = b.epoch /\ a.seq > b.seq)

\* Responses and rejections of a key take effect in the order in which they began:
\* one that waited for its admission never undoes one that began later, and a poisoned
\* revision table revives none from before.
NewestWins ==
    [][\A g \in Generations, k \in Keys :
         settled'[g][k] # settled[g][k] => Newer(settled'[g][k], settled[g][k])]_vars

\* The maintenance never sleeps past a deadline it has not been told of.  (A response
\* whose revision table was poisoned under it is reported as failed and not announced.)
NoMissedDeadline ==
    \A g \in Generations :
        (pc[g] = "wait" /\ g \notin changed /\ mutation[g] = None /\ epoch[g] = 0)
            => \A d \in Deadlines(g) : op[g].time <= d

\* An expired entry is swept, with its routes, in a generation whose maintenance runs.
ExpiredIsSwept ==
    \A g \in Generations, k \in Keys :
        (k \in Expired(g, now) /\ epoch[g] = 0)
            ~> (k \notin Expired(g, now) \/ pc[g] \in {"off", "stopped"} \/ epoch[g] # 0)
=============================================================================
