------------------------ MODULE DomainRoutingProofs ------------------------
(***************************************************************************)
(* Proofs about DomainRouting for every set of callers, generations, keys,    *)
(* addresses and rules, every matcher and every bound: types, the counting      *)
(* of response tokens, the order in which responses take effect, the            *)
(* deadlines the maintenance sleeps on, and that the kernel's map is what        *)
(* the active generation's cache says.                                         *)
(*                                                                         *)
(* The invariant is proved in stages, each on top of the ones before:          *)
(*   Control    where the processes are, and who holds which mutation lock;     *)
(*   Counting   the tokens a revision table counts;                            *)
(*   Ordering   that a superseded response finds itself stale;                 *)
(*   DeadlinesKnown   what a sleeping maintenance has been told;                *)
(*   Fresh, Owning    the route owners against the caches;                     *)
(*   Mapping    the kernel's map against the fence and the active owner.        *)
(***************************************************************************)
EXTENDS DomainRouting, FiniteSetTheorems, WellFoundedInduction, TLAPS

\* The types of the data, in groups that change together.
MapOK ==
    /\ active \in Generations \union {None} /\ fence \in Tracker /\ bpf \in [Ips -> SUBSET Rules]
FlagsOK == installed \in BOOLEAN /\ torn \in BOOLEAN
RoutesOK ==
    /\ cache \in [Generations -> [Keys -> Entry]] /\ owner \in [Generations -> Tracker]
    /\ bound \subseteq Generations
LocksOK ==
    /\ mutation \in [Generations -> Procs \union {None}]
    /\ dispatch \in [Generations -> Procs \union {None}]
RevisionsOK ==
    /\ epoch \in [Generations -> 0..MaxEpoch] /\ sequence \in [Generations -> Nat]
    /\ pending \in [Generations -> [Keys -> Pending]]
    /\ settled \in [Generations -> [Keys -> Revision]]
LifecycleOK ==
    /\ now \in 0..MaxTime /\ changed \subseteq Generations
    /\ retired \subseteq served /\ served \subseteq Generations /\ restoring \in [Keys -> Entry]
DataOK == MapOK /\ FlagsOK /\ RoutesOK /\ LocksOK /\ RevisionsOK /\ LifecycleOK

\* where a process holds the mutation lock of the generation it works on
Holding == {"staged", "applied", "stored", "ending", "failed"}
\* where a response is inside its transaction and not yet stored
Open == {"staged", "applied"}
\* the operations that have a revision
Responses == {"record", "restore"}

\* What one process may be doing where it is.
ProcOK(p, l, o) ==
    /\ o \in Op
    /\ l \in Working <=> o.kind # "none"
    /\ l \in Working => o.g \in Generations
    /\ o.kind \in Responses \union {"remove"} => o.key \in Keys
    /\ l = "stored" => o.kind \in Responses
    /\ p \in Callers => l \in CallerPc /\ o.kind \in {"none", "record", "remove"}
    /\ p \in Generations =>
          l \in MaintenancePc /\ o.kind \in {"none", "sweep"} /\ (l \in Working => o.g = p)
    /\ p = Reloader =>
          /\ l \in ReloaderPc /\ o.kind \in {"none", "sweep", "restore"}
          /\ l \in {"sweeping", "restoring", "built"} => o.g \in Generations

Places == CallerPc \union MaintenancePc \union ReloaderPc
Processes ==
    /\ pc \in [Procs -> Places] /\ op \in [Procs -> Op]
    /\ \A p \in Procs : ProcOK(p, pc[p], op[p])

\* The mutation lock of a generation is held by the process that is inside a transaction of it.
Locking ==
    /\ \A p \in Procs : pc[p] \in Holding => mutation[op[p].g] = p
    /\ \A g \in Generations : mutation[g] # None => pc[mutation[g]] \in Holding /\ op[mutation[g]].g = g

\* Nothing runs yet in a generation whose snapshot is being restored.
Restoring ==
    pc[Reloader] = "restoring" \/ op[Reloader].kind = "restore" => pc[op[Reloader].g] = "off"

\* A generation is published once, before it can be active or retired.
Publications ==
    /\ \A g \in Generations : pc[g] = "off" => g \notin served
    /\ pc[Reloader] = "built" => op[Reloader].g \notin served /\ pc[op[Reloader].g] # "off"
    /\ active # None => active \in served \ retired

\* The tokens of the revision table a generation has now.
Tokens(g, k) ==
    {p \in Procs : op[p].kind \in Responses /\ op[p].g = g /\ op[p].key = k /\ op[p].rev.epoch = epoch[g]}
TokensCounted == \A g \in Generations, k \in Keys : pending[g][k].count = Cardinality(Tokens(g, k))

\* No revision is from the future.
Begun(rev, g) == rev.epoch < epoch[g] \/ (rev.epoch = epoch[g] /\ rev.seq <= sequence[g])
RevisionsBegun ==
    /\ \A g \in Generations, k \in Keys : Begun(settled[g][k], g)
    /\ \A p \in Procs : op[p].kind \in Responses => Begun(op[p].rev, op[p].g)

\* a response of k is in the cache of g and its revision not yet committed
Storing(g, k) == \E p \in Procs : pc[p] = "stored" /\ op[p].g = g /\ op[p].key = k

\* Who is older than what decided the key last, is stale in the table as well.
StaleIsKnown ==
    \A p \in Procs :
        LET g == op[p].g  k == op[p].key  rev == op[p].rev
        IN  op[p].kind \in Responses /\ rev.epoch = epoch[g]
              /\ settled[g][k].epoch = epoch[g] /\ rev.seq <= settled[g][k].seq
                => pending[g][k].committed >= rev.seq \/ Storing(g, k)

Commits ==
    \A p \in Procs : op[p].kind \in Responses =>
        /\ pc[p] \in Open => Newer(op[p].rev, settled[op[p].g][op[p].key])
        /\ pc[p] = "stored" => op[p].rev = settled[op[p].g][op[p].key]

\* A sleeping maintenance knows every deadline, but for the one being stored, or is about to wake.
DeadlinesKnown ==
    \A g \in Generations : pc[g] = "wait" /\ g \notin changed /\ epoch[g] = 0 =>
        \A k \in CachedKeys(g) : op[g].time <= cache[g][k].deadline \/ Storing(g, k)

\* The index of a tracker is what its owners say.
TrackerOK(t) ==
    /\ t \in Tracker
    /\ \A k \in Keys : t.owners[k] = NoRoute \/ ~IsEmpty(t.owners[k])
    /\ \A i \in Ips, k \in Keys :
          t.index[i][k] = IF i \in t.owners[k].ips THEN t.owners[k].bits ELSE {}

\* The route of a cache entry of generation g.
Route(g, k, e) == IF e = NoEntry THEN NoRoute ELSE [bits |-> Matches[g][k], ips |-> e.ips]
RoutableEntry(g, k, e) == e = NoEntry \/ (e.ips # {} /\ Matches[g][k] # {})

\* What the cache will say of k when the transaction o has been stored.
After(o, k) ==
    IF o.kind \in Responses /\ k = o.key
    THEN IF HasPlan(o) THEN [ips |-> o.ips, deadline |-> o.deadline] ELSE NoEntry
    ELSE IF k \in o.doomed THEN NoEntry ELSE cache[o.g][k]

\* The owner of a generation follows its cache; after a transaction the cache follows it.
OwnersFollow ==
    /\ \A g \in Generations :
          (\A p \in Procs : ~(pc[p] = "applied" /\ op[p].g = g)) =>
              \A k \in Keys : owner[g].owners[k] = Route(g, k, cache[g][k])
    /\ \A p \in Procs : pc[p] = "applied" =>
          \A k \in Keys : owner[op[p].g].owners[k] = Route(op[p].g, k, After(op[p], k))

\* The batch of a transaction is the routes of what it will store.
BatchesFit ==
    \A p \in Procs : pc[p] = "staged" =>
        \A k \in Keys :
            IF k \in DOMAIN op[p].events THEN op[p].events[k] = Route(op[p].g, k, After(op[p], k))
            ELSE After(op[p], k) = cache[op[p].g][k]

\* The fence has a copy of the active generation's owner, and the kernel has what the fence has.
MapFollows ==
    /\ ~installed => active = None /\ fence = EmptyTracker
    /\ active # None => fence = owner[active]
    /\ ~torn => \A i \in Ips : bpf[i] = Merged(fence.index[i])

OwnersOK ==
    /\ \A g \in Generations : TrackerOK(owner[g]) /\ (g \notin bound => owner[g] = EmptyTracker)
    /\ \A g \in Generations, k \in Keys : RoutableEntry(g, k, cache[g][k])
Routing == OwnersOK /\ OwnersFollow /\ BatchesFit /\ TrackerOK(fence) /\ MapFollows

\* Nobody has chosen entries to discard before its transaction is open.
Fresh == \A p \in Procs : pc[p] \notin Holding => op[p].doomed = {}


\* The data, the processes, and the locks and publications they go by.
Control == DataOK /\ Processes /\ Locking /\ Restoring /\ Publications

-----------------------------------------------------------------------------
(* Steps *)

USE DEF clock, map, routes, locks, revisions, lifecycle

\* Every step is one of these.
LEMMA StepCases ==
  ASSUME [Next]_vars
  PROVE  \/ UNCHANGED vars
         \/ Tick
         \/ \E g \in Generations :
              \/ PoisonRevisions(g) \/ StopMaintenance(g) \/ ReadSignal(g) \/ LookAtDeadlines(g) \/ Wake(g)
              \/ Build(g) \/ Activate(g) \/ Reactivate(g)
         \/ \E p \in Callers, g \in Generations, k \in Keys : Remove(p, g, k)
         \/ \E p \in Callers, g \in Generations, k \in Keys, ips \in SUBSET Ips, deadline \in now..MaxTime :
              Record(p, g, k, ips, deadline)
         \/ \E p \in Callers : Abandon(p) \/ CancelledBeforeCommit(p)
         \/ \E p \in Procs :
              \/ Admit(p) \/ StageRecord(p) \/ StageRemove(p) \/ StageSweep(p)
              \/ TransactInMemory(p) \/ Transact(p) \/ RejectTransaction(p)
              \/ StoreRecord(p) \/ StoreRemove(p) \/ StoreSweep(p) \/ Commit(p) \/ End(p)
         \/ BeginSnapshot \/ SweepForSnapshot \/ ReadSnapshot \/ StartMaintenance \/ Clear
         \/ \E k \in Keys : RestoreEntry(k)
  BY Zenon DEF Next, Reload, Maintain, Request, Advance, Stage, Finish

\* A function from keys to snapshots is a batch.
LEMMA EventTypes ==
  ASSUME NEW K \in SUBSET Keys, NEW f \in [K -> Snapshot]
  PROVE  f \in Events
  BY DEF Events

\* The operation of an idle process.
LEMMA NoOpType == NoOp \in Op /\ NoOp.kind = "none"
<1>1. NoEvents \in Events
  <2> [k \in {} |-> NoRoute] \in [{} -> Snapshot]
    OBVIOUS
  <2> QED BY EventTypes DEF NoEvents
<1>2. NoRevision \in Revision
  BY BoundsAssumption DEF NoRevision, Revision
<1> HIDE DEF Revision, Events
<1> QED BY <1>1, <1>2, BoundsAssumption DEF NoOp, Op

\* The batch of a removal is one ...
LEMMA RemoveEventsType ==
  ASSUME NEW K \in SUBSET Keys
  PROVE  RemoveEvents(K) \in Events
<1> [k \in K |-> NoRoute] \in [K -> Snapshot]
  BY DEF NoRoute, Snapshot
<1> QED BY EventTypes DEF RemoveEvents

\* ... and that of a record is one.
LEMMA RecordEventsType ==
  ASSUME NEW o \in Op, o.g \in Generations, o.key \in Keys, NEW K \in SUBSET Keys
  PROVE  RecordEvents(o, K) \in Events
<1> DEFINE D == K \union {o.key}
           f == [k \in D |-> IF k = o.key THEN [bits |-> Matches[o.g][k], ips |-> o.ips] ELSE NoRoute]
<1>1. o.ips \in SUBSET Ips
  BY DEF Op
<1>2. \A k \in D : f[k] \in Snapshot
  BY <1>1, MatchesAssumption DEF Snapshot, NoRoute
<1>3. f \in [D -> Snapshot]
  BY <1>2
<1>4. D \in SUBSET Keys
  OBVIOUS
<1> HIDE DEF D
<1>5. f \in Events
  BY <1>3, <1>4, EventTypes
<1> QED BY <1>5 DEF RecordEvents, D

\* A step of one process: the others stay as they were.
LEMMA OneProcess ==
  ASSUME NEW p \in Procs, NEW l, NEW o, Processes,
         pc' = [pc EXCEPT ![p] = l], op' = [op EXCEPT ![p] = o], ProcOK(p, l, o)
  PROVE  Processes'
<1>1. o \in Op
  BY DEF ProcOK
<1>2. l \in Places
  BY DEF ProcOK, Procs, Places
<1> QED BY <1>1, <1>2 DEF Processes

\* ... and one that goes on with what it has.
LEMMA OneMoves ==
  ASSUME NEW p \in Procs, NEW l, Processes,
         pc' = [pc EXCEPT ![p] = l], op' = op, ProcOK(p, l, op[p])
  PROVE  Processes'
<1>1. l \in Places
  BY DEF ProcOK, Procs, Places
<1> QED BY <1>1 DEF Processes

\* The parts of the invariant give the types.
LEMMA ControlImpliesType == DataOK /\ Processes => TypeOK
  BY DEF DataOK, MapOK, FlagsOK, RoutesOK, LocksOK, RevisionsOK, LifecycleOK, Processes, ProcOK, TypeOK,
         Procs, Places

\* Within a transaction a process goes on with its operation.
LEMMA Continues ==
  ASSUME NEW p \in Procs, NEW l \in Working, NEW m \in Working, NEW o, ProcOK(p, l, o),
         m = "stored" => o.kind \in Responses
  PROVE  ProcOK(p, m, o)
  BY DEF ProcOK, Working, CallerPc, MaintenancePc, ReloaderPc

\* ... or with what it chose to discard.
LEMMA StagedOp ==
  ASSUME NEW p \in Procs, NEW l \in Working, NEW m \in Working, NEW o, ProcOK(p, l, o), m # "stored",
         NEW d \in SUBSET Keys, NEW e \in Events
  PROVE  ProcOK(p, m, [o EXCEPT !.doomed = d, !.events = e])
<1>1. o \in Op
  BY DEF ProcOK
<1>2. [o EXCEPT !.doomed = d, !.events = e] \in Op
  BY <1>1 DEF Op
<1> QED BY <1>1, <1>2 DEF ProcOK, Working, CallerPc, MaintenancePc, ReloaderPc, Op

\* A process that is done has no operation.
LEMMA EndedOp ==
  ASSUME NEW p \in Procs, NEW l, l \notin Working, l # "stored",
         p \in Callers => l \in CallerPc,
         p \in Generations => l \in MaintenancePc,
         p = Reloader => l \in ReloaderPc /\ l \notin {"sweeping", "restoring", "built"}
  PROVE  ProcOK(p, l, NoOp)
  BY NoOpType DEF ProcOK, Responses

\* The trackers stay trackers.
LEMMA ApplyEventsType ==
  ASSUME NEW t \in Tracker, NEW e \in Events
  PROVE  ApplyEvents(t, e) \in Tracker
<1>1. PICK K \in SUBSET Keys : e \in [K -> Snapshot]
  BY DEF Events
<1>2. \A k \in Replacements(t, e) : k \in K /\ e[k] \in Snapshot
  BY <1>1 DEF Replacements
<1>3. \A i \in Ips, k \in Keys : Staged(t, e)[i][k] \in SUBSET Rules
  BY <1>2 DEF Staged, Replaced, Tracker, Snapshot
<1>4. Staged(t, e) \in [Ips -> [Keys -> SUBSET Rules]]
  BY <1>3 DEF Staged
<1>5. NoRoute \in Snapshot
  BY DEF NoRoute, Snapshot
<1>6. \A k \in Keys : t.owners[k] \in Snapshot
  BY DEF Tracker
<1>7. [k \in Keys |-> IF k \in Replacements(t, e)
                      THEN IF IsEmpty(e[k]) THEN NoRoute ELSE e[k] ELSE t.owners[k]] \in [Keys -> Snapshot]
  BY <1>2, <1>5, <1>6
<1> QED BY <1>4, <1>7 DEF ApplyEvents, Tracker

\* ... in the fence as well.
LEMMA SyncOwnersType ==
  ASSUME NEW t \in Tracker, NEW e \in Events
  PROVE  SyncOwners(t, e) \in Tracker
<1>1. PICK K \in SUBSET Keys : e \in [K -> Snapshot]
  BY DEF Events
<1>3. \A i \in Ips, k \in Keys :
        (IF k \in DOMAIN e /\ t.owners[k] # e[k] THEN Replaced(t, k, e[k], i) ELSE t.index[i][k])
           \in SUBSET Rules
  BY <1>1 DEF Replaced, Tracker, Snapshot
<1>4. [i \in Ips |-> [k \in Keys |->
         IF k \in DOMAIN e /\ t.owners[k] # e[k] THEN Replaced(t, k, e[k], i) ELSE t.index[i][k]]]
         \in [Ips -> [Keys -> SUBSET Rules]]
  BY <1>3
<1>5. NoRoute \in Snapshot
  BY DEF NoRoute, Snapshot
<1>6. \A k \in Keys : t.owners[k] \in Snapshot
  BY DEF Tracker
<1>7. [k \in Keys |-> IF k \in DOMAIN e
                      THEN IF IsEmpty(e[k]) THEN NoRoute ELSE e[k] ELSE t.owners[k]] \in [Keys -> Snapshot]
  BY <1>1, <1>5, <1>6
<1> QED BY <1>4, <1>7 DEF SyncOwners, Tracker

\* The map has bitmaps after any change of it.
LEMMA WrittenType ==
  ASSUME NEW m \in [Ips -> SUBSET Rules], NEW index \in [Ips -> [Keys -> SUBSET Rules]], NEW U, NEW D
  PROVE  Written(m, index, U, D) \in [Ips -> SUBSET Rules]
<1> \A i \in Ips : Merged(index[i]) \in SUBSET Rules
  BY DEF Merged
<1> QED BY DEF Written

\* A change that was rolled back in part leaves bitmaps, too.
LEMMA PartType ==
  ASSUME NEW m \in [Ips -> SUBSET Rules], NEW w \in [Ips -> SUBSET Rules], NEW S
  PROVE  [i \in Ips |-> IF i \in S THEN w[i] ELSE m[i]] \in [Ips -> SUBSET Rules]
  OBVIOUS

\* The revision a response begins with.
LEMMA NextRevisionType ==
  ASSUME RevisionsOK, NEW g \in Generations
  PROVE  NextRevision(g) \in Revision
  BY DEF RevisionsOK, NextRevision, Revision

\* The entry of a response.
LEMMA EntryType ==
  ASSUME NEW ips \in SUBSET Ips, NEW d \in 0..MaxTime
  PROVE  [ips |-> ips, deadline |-> d] \in Entry /\ NoEntry \in Entry
  BY BoundsAssumption DEF Entry, NoEntry

\* Every set of deadlines has an earliest one.
LEMMA LeastDeadline ==
  ASSUME NEW D \in SUBSET Nat, D # {}
  PROVE  \E d \in D : \A e \in D : d <= e
<1>1. PICK d \in D : \A e \in D : ~(<<e, d>> \in OpToRel(<, Nat))
  BY NatLessThanWellFounded, WFMin
<1>2. \A e \in D : ~(e < d)
  BY <1>1 DEF OpToRel
<1> QED BY <1>2

\* The maintenance sleeps until the earliest deadline.
LEMMA NextExpiryType ==
  ASSUME RoutesOK, NEW g \in Generations
  PROVE  /\ NextExpiry(g) \in 0..(MaxTime + 1)
         /\ \A k \in CachedKeys(g) : NextExpiry(g) <= cache[g][k].deadline
<1>1. \A k \in CachedKeys(g) : cache[g][k].deadline \in 0..MaxTime
  BY DEF RoutesOK, Entry, CachedKeys
<1>2. Deadlines(g) \subseteq 0..MaxTime
  BY <1>1 DEF Deadlines
<1>3. CASE Deadlines(g) = {}
  BY <1>3, BoundsAssumption DEF NextExpiry, Deadlines
<1>4. CASE Deadlines(g) # {}
  <2>1. \E d \in Deadlines(g) : \A e \in Deadlines(g) : d <= e
    BY <1>2, <1>4, LeastDeadline
  <2>2. NextExpiry(g) \in Deadlines(g) /\ \A e \in Deadlines(g) : NextExpiry(g) <= e
    BY <1>4, <2>1 DEF NextExpiry
  <2>3. NextExpiry(g) \in 0..(MaxTime + 1)
    BY <1>2, <2>2, BoundsAssumption
  <2> QED BY <2>2, <2>3 DEF Deadlines
<1> QED BY <1>3, <1>4

\* The table of the tokens is changed at one key.
Counted(f, g, k, c) == [f EXCEPT ![g][k].count = c]
Committed(f, g, k, c) == [f EXCEPT ![g][k].committed = c]

\* ... and nowhere else.
LEMMA PendingUpdate ==
  ASSUME NEW f \in [Generations -> [Keys -> Pending]], NEW g \in Generations, NEW k \in Keys, NEW c \in Nat
  PROVE  /\ Counted(f, g, k, c) \in [Generations -> [Keys -> Pending]]
         /\ Committed(f, g, k, c) \in [Generations -> [Keys -> Pending]]
         /\ Counted(f, g, k, c)[g][k].count = c
         /\ Counted(f, g, k, c)[g][k].committed = f[g][k].committed
         /\ Committed(f, g, k, c)[g][k].count = f[g][k].count
         /\ Committed(f, g, k, c)[g][k].committed = c
         /\ \A h \in Generations, j \in Keys : h # g \/ j # k =>
               /\ Counted(f, g, k, c)[h][j] = f[h][j]
               /\ Committed(f, g, k, c)[h][j] = f[h][j]
<1> DEFINE v == [f[g][k] EXCEPT !.count = c]
           u == [f[g][k] EXCEPT !.committed = c]
<1>1. v \in Pending /\ v.count = c /\ v.committed = f[g][k].committed
  BY DEF Pending
<1>2. u \in Pending /\ u.committed = c /\ u.count = f[g][k].count
  BY DEF Pending
<1>3. Counted(f, g, k, c) = [f EXCEPT ![g][k] = v]
  BY DEF Counted
<1>4. Committed(f, g, k, c) = [f EXCEPT ![g][k] = u]
  BY DEF Committed
<1> HIDE DEF v, u
<1> QED BY <1>1, <1>2, <1>3, <1>4

\* Dropping a token keeps the types of the table ...
LEMMA DropType ==
  ASSUME RevisionsOK, NEW o \in Op, o.g \in Generations, o.kind \in Responses => o.key \in Keys,
         DropRevision(o), settled' = settled
  PROVE  RevisionsOK'
<1>1. CASE pending' = pending
  BY <1>1 DEF DropRevision, RevisionsOK
<1>2. CASE pending' # pending
  <2>1. o.key \in Keys /\ pending[o.g][o.key].count > 0
    BY <1>2 DEF DropRevision, Responses
  <2>2. \/ pending' = [pending EXCEPT ![o.g][o.key] = NotPending]
        \/ pending' = Counted(pending, o.g, o.key, pending[o.g][o.key].count - 1)
    BY <1>2 DEF DropRevision, Counted
  <2>3. NotPending \in Pending
    BY DEF NotPending, Pending
  <2>4. pending[o.g][o.key].count - 1 \in Nat
    BY <2>1 DEF RevisionsOK, Pending
  <2>5. pending' \in [Generations -> [Keys -> Pending]]
    <3>1. CASE pending' = [pending EXCEPT ![o.g][o.key] = NotPending]
      BY <2>1, <2>3, <3>1 DEF RevisionsOK
    <3>2. CASE pending' = Counted(pending, o.g, o.key, pending[o.g][o.key].count - 1)
      <4>1. pending \in [Generations -> [Keys -> Pending]]
        BY DEF RevisionsOK
      <4> QED BY <2>1, <2>4, <3>2, <4>1, PendingUpdate
    <3> QED BY <2>2, <3>1, <3>2
  <2> QED BY <2>5 DEF DropRevision, RevisionsOK
<1> QED BY <1>1, <1>2

\* ... and so does beginning one.
LEMMA BeginType ==
  ASSUME RevisionsOK, NEW g \in Generations, NEW k \in Keys, BeginRevision(g, k), settled' = settled
  PROVE  RevisionsOK'
<1>1. pending' \in [Generations -> [Keys -> Pending]]
  <2>1. pending[g][k].count + 1 \in Nat
    BY DEF RevisionsOK, Pending
  <2>2. pending' = Counted(pending, g, k, pending[g][k].count + 1)
    BY DEF BeginRevision, Counted
  <2> QED BY <2>1, <2>2, PendingUpdate DEF RevisionsOK
<1> QED BY <1>1 DEF BeginRevision, RevisionsOK

\* A cache without some of its entries.
LEMMA DiscardedType ==
  ASSUME NEW c \in [Keys -> Entry], NEW K
  PROVE  Discarded(c, K) \in [Keys -> Entry]
<1> NoEntry \in Entry
  BY BoundsAssumption DEF Entry, NoEntry
<1> QED BY DEF Discarded

\* A process that may enter a transaction takes the lock with it.
LEMMA TakesLock ==
  ASSUME Processes, LocksOK, Locking, NEW p \in Procs, pc[p] \notin Holding, op[p].g \in Generations,
         mutation[op[p].g] = None, mutation' = [mutation EXCEPT ![op[p].g] = p],
         NEW l \in Holding, pc' = [pc EXCEPT ![p] = l],
         \A q \in Procs \ {p} : op'[q] = op[q], op'[p].g = op[p].g
  PROVE  Locking'
<1>1. \A q \in Procs : pc'[q] \in Holding => mutation'[op'[q].g] = q
  <2> SUFFICES ASSUME NEW q \in Procs, pc'[q] \in Holding PROVE mutation'[op'[q].g] = q
    OBVIOUS
  <2>1. CASE q = p
    BY <2>1 DEF LocksOK
  <2>2. CASE q # p
    <3>1. pc[q] \in Holding /\ op'[q] = op[q]
      BY <2>2 DEF Processes
    <3>2. mutation[op[q].g] = q /\ op[q].g \in Generations
      BY <3>1 DEF Locking, Processes, ProcOK, Holding, Working
    <3> QED BY <3>1, <3>2, ProcsAssumption DEF LocksOK
  <2> QED BY <2>1, <2>2
<1>2. \A g \in Generations : mutation'[g] # None => pc'[mutation'[g]] \in Holding /\ op'[mutation'[g]].g = g
  <2> SUFFICES ASSUME NEW g \in Generations, mutation'[g] # None
               PROVE  pc'[mutation'[g]] \in Holding /\ op'[mutation'[g]].g = g
    OBVIOUS
  <2>1. CASE g = op[p].g
    BY <2>1 DEF LocksOK, Processes
  <2>2. CASE g # op[p].g
    <3>1. mutation'[g] = mutation[g] /\ mutation[g] \in Procs
      BY <2>2 DEF LocksOK
    <3>2. mutation[g] # p
      BY <3>1, <2>2 DEF Locking
    <3> QED BY <3>1, <3>2 DEF Locking, Processes
  <2> QED BY <2>1, <2>2
<1> QED BY <1>1, <1>2 DEF Locking

\* How a process leaves its transaction: without an operation.  A reloader whose restore failed stops the
\* generation with it.
LEMMA ResumeEffect ==
  ASSUME Processes, NEW p \in Procs, pc[p] \in {"ending", "failed"}, Resume(p)
  PROVE  /\ \A q \in Procs \ {p} :
               /\ op'[q] = op[q]
               /\ \/ pc'[q] = pc[q]
                  \/ /\ pc'[q] = "stopped" /\ p = Reloader /\ op[p].kind = "restore" /\ q = op[p].g
         /\ pc'[p] \in {"idle", "wait", "loop", "sweeping", "restoring"}
         /\ op'[p].kind = "none" /\ op'[p].doomed = {}
         /\ pc'[p] = "restoring" => p = Reloader /\ op'[p].g = op[p].g /\ op[p].kind = "restore"
         /\ pc'[p] = "wait" => p \in Generations /\ op'[p].time = 0
<1>0. pc[p] \in Working /\ op[p].g \in Generations /\ op[p] \in Op
  BY DEF Processes, ProcOK, Working
<1>1. CASE p \in Callers
  <2>1. op' = [op EXCEPT ![p] = NoOp] /\ pc' = [pc EXCEPT ![p] = "idle"]
    BY <1>1, ProcsAssumption DEF Resume, Start
  <2> QED BY <2>1, NoOpType DEF Processes, NoOp
<1>2. CASE p \in Generations
  <2>1. /\ op' = [op EXCEPT ![p] = NoOp]
        /\ \E l \in {"wait", "loop"} : pc' = [pc EXCEPT ![p] = l]
    BY <1>2, ProcsAssumption DEF Resume, Start
  <2> QED BY <1>2, <2>1, NoOpType DEF Processes, NoOp
<1>3. CASE p = Reloader /\ pc[p] # "failed"
  <2> DEFINE o == [NoOp EXCEPT !.g = op[p].g, !.time = op[p].time]
  <2>1. o.kind = "none" /\ o.g = op[p].g /\ o.doomed = {}
    BY DEF NoOp
  <2>2. /\ op' = [op EXCEPT ![p] = o]
        /\ pc' = [pc EXCEPT ![p] = IF op[p].kind = "sweep" THEN "sweeping" ELSE "restoring"]
    BY <1>3, ProcsAssumption DEF Resume, Start
  <2>3. op[p].kind \in {"sweep", "restore"}
    BY <1>0, <1>3 DEF Processes, ProcOK
  <2> HIDE DEF o
  <2> QED BY <1>3, <2>1, <2>2, <2>3 DEF Processes
<1>4. CASE p = Reloader /\ pc[p] = "failed"
  <2>1. /\ op' = [op EXCEPT ![p] = NoOp]
        /\ pc' = [pc EXCEPT ![p] = "idle",
                            ![op[p].g] = IF op[p].kind = "restore" THEN "stopped" ELSE @]
    BY <1>4, ProcsAssumption DEF Resume
  <2>2. op[p].g # p
    BY <1>0, <1>4, ProcsAssumption
  <2> QED BY <1>0, <1>4, <2>1, <2>2, NoOpType DEF Processes, Procs, NoOp
<1> QED BY <1>1, <1>2, <1>3, <1>4 DEF Procs

\* A step that neither publishes nor builds.
LEMMA QuietMove ==
  ASSUME Processes, Restoring, Publications, NEW p \in Procs,
         \A q \in Procs \ {p} : op'[q] = op[q] /\ pc'[q] = pc[q],
         pc[p] # "off", pc'[p] \notin {"off", "restoring", "built"},
         op'[p].kind = "restore" => op[p].kind = "restore" /\ op'[p].g = op[p].g,
         UNCHANGED <<active, served, retired>>
  PROVE  Restoring' /\ Publications'
<1>0. Reloader \in Procs /\ Generations \subseteq Procs /\ Reloader \notin Generations
  BY ProcsAssumption DEF Procs
<1>1. Restoring'
  <2>1. CASE p = Reloader
    <3> SUFFICES ASSUME op'[p].kind = "restore" PROVE pc'[op'[p].g] = "off"
      BY <2>1 DEF Restoring
    <3>1. op'[p].g = op[p].g /\ op[p].g \in Generations /\ pc[op[p].g] = "off"
      BY <2>1 DEF Restoring, Processes, ProcOK
    <3> QED BY <1>0, <2>1, <3>1
  <2>2. CASE p # Reloader
    <3> SUFFICES ASSUME pc[Reloader] = "restoring" \/ op[Reloader].kind = "restore"
                 PROVE  pc'[op[Reloader].g] = "off"
      BY <1>0, <2>2 DEF Restoring
    <3>1. op[Reloader].g \in Generations /\ pc[op[Reloader].g] = "off"
      BY <1>0 DEF Restoring, Processes, ProcOK
    <3> QED BY <1>0, <2>2, <3>1
  <2> QED BY <2>1, <2>2
<1>2. Publications'
  <2>1. \A g \in Generations : pc'[g] = "off" => g \notin served'
    BY <1>0 DEF Publications
  <2>2. pc'[Reloader] = "built" => op'[Reloader].g \notin served' /\ pc'[op'[Reloader].g] # "off"
    <3> SUFFICES ASSUME pc'[Reloader] = "built"
                 PROVE  op'[Reloader].g \notin served' /\ pc'[op'[Reloader].g] # "off"
      OBVIOUS
    <3>1. Reloader # p /\ pc[Reloader] = "built" /\ op'[Reloader] = op[Reloader]
      BY <1>0
    <3>2. op[Reloader].g \in Procs
      BY <1>0, <3>1 DEF Processes, ProcOK
    <3> QED BY <3>1, <3>2 DEF Publications
  <2> QED BY <2>1, <2>2 DEF Publications
<1> QED BY <1>1, <1>2

\* Control is inductive: one step per action, its data first, then where the processes are, the locks, and
\* what is built or published.
LEMMA ControlStep ==
  ASSUME Control, [Next]_vars
  PROVE  Control'
<1> USE DEF Control, Start, DataOK

<1>1. CASE Tick
  <2>1. UNCHANGED <<active, fence, bpf, installed, torn, cache, owner, bound, mutation, dispatch, epoch,
                    sequence, pending, settled>>
    BY <1>1 DEF Tick
  <2>2. LifecycleOK'
    BY <1>1, BoundsAssumption DEF LifecycleOK, Tick
  <2>3. DataOK'
    BY <2>1, <2>2 DEF MapOK, FlagsOK, RoutesOK, LocksOK, RevisionsOK
  <2>4. Processes'
    BY <1>1 DEF Processes, Tick
  <2>5. Locking'
    BY <1>1, <2>4, ProcsAssumption DEF Locking, Holding, Processes, ProcOK, Op, Working, CallerPc,
       MaintenancePc, ReloaderPc, Responses, Procs, LocksOK, Tick
  <2>6. Restoring'
    BY <1>1, <2>4, ProcsAssumption DEF Restoring, Processes, ProcOK, Op, Working, CallerPc, MaintenancePc,
       ReloaderPc, Responses, Procs, Tick
  <2>7. Publications'
    BY <1>1, <2>4, ProcsAssumption DEF Publications, LifecycleOK, Processes, ProcOK, Working, CallerPc,
       MaintenancePc, ReloaderPc, Procs, Tick
  <2> QED BY <2>4, <2>3, <2>5, <2>6, <2>7

<1>2. ASSUME NEW g \in Generations,
             PoisonRevisions(g)
      PROVE  Control'
  <2>1. UNCHANGED <<active, fence, bpf, installed, torn, cache, owner, bound, mutation, dispatch, now,
                    changed, retired, served, restoring>>
    BY <1>2 DEF PoisonRevisions
  <2>2. RevisionsOK'
    <3>1. [k \in Keys |-> NotPending] \in [Keys -> Pending]
      BY DEF NotPending, Pending
    <3> QED BY <1>2, <3>1, BoundsAssumption DEF RevisionsOK, PoisonRevisions
  <2>3. DataOK'
    BY <2>1, <2>2 DEF MapOK, FlagsOK, RoutesOK, LocksOK, LifecycleOK
  <2>4. Processes'
    BY <1>2 DEF Processes, PoisonRevisions
  <2>5. Locking'
    BY <1>2, <2>4, ProcsAssumption DEF Locking, Holding, Processes, ProcOK, Op, Working, CallerPc,
       MaintenancePc, ReloaderPc, Responses, Procs, LocksOK, PoisonRevisions
  <2>6. Restoring'
    BY <1>2, <2>4, ProcsAssumption DEF Restoring, Processes, ProcOK, Op, Working, CallerPc, MaintenancePc,
       ReloaderPc, Responses, Procs, PoisonRevisions
  <2>7. Publications'
    BY <1>2, <2>4, ProcsAssumption DEF Publications, LifecycleOK, Processes, ProcOK, Working, CallerPc,
       MaintenancePc, ReloaderPc, Procs, PoisonRevisions
  <2> QED BY <2>4, <2>3, <2>5, <2>6, <2>7

<1>3. ASSUME NEW p \in Callers, NEW g \in Generations, NEW k \in Keys, NEW ips \in SUBSET Ips,
             NEW deadline \in now..MaxTime,
             Record(p, g, k, ips, deadline)
      PROVE  Control'
  <2>0. p \in Procs /\ ProcOK(p, pc[p], op[p])
    BY DEF Processes, Procs
  <2>1. UNCHANGED <<active, fence, bpf, installed, torn, cache, owner, bound, mutation, dispatch, now,
                    changed, retired, served, restoring>>
    BY <1>3 DEF Record, BeginRevision
  <2>2. RevisionsOK'
    BY <1>3, BeginType DEF Record
  <2>3. DataOK'
    BY <2>1, <2>2 DEF MapOK, FlagsOK, RoutesOK, LocksOK, LifecycleOK
  <2>4. NextRevision(g) \in Revision
    BY NextRevisionType
  <2> DEFINE o == [NoOp EXCEPT !.kind = "record", !.g = g, !.key = k, !.ips = ips,
                               !.deadline = deadline, !.rev = NextRevision(g)]
  <2>5. deadline \in 0..MaxTime
    BY DEF LifecycleOK
  <2>6. o \in Op /\ o.kind = "record" /\ o.g = g /\ o.key = k
    BY <2>4, <2>5, NoOpType DEF Op
  <2>7. ProcOK(p, "queued", o)
    BY <2>6, ProcsAssumption DEF ProcOK, Responses, Working, CallerPc
  <2>8. Processes'
    BY <1>3, <2>0, <2>7, OneProcess DEF Record, BeginRevision
  <2>9. Locking'
    BY <1>3, <2>8, ProcsAssumption DEF Locking, Holding, Processes, ProcOK, Op, Working, CallerPc,
       MaintenancePc, ReloaderPc, Responses, Procs, LocksOK, Record, BeginRevision
  <2>10. Restoring'
    BY <1>3, <2>8, ProcsAssumption DEF Restoring, Processes, ProcOK, Op, Working, CallerPc, MaintenancePc,
       ReloaderPc, Responses, Procs, Record, BeginRevision
  <2>11. Publications'
    BY <1>3, <2>8, ProcsAssumption DEF Publications, LifecycleOK, Processes, ProcOK, Working, CallerPc,
       MaintenancePc, ReloaderPc, Procs, Record, BeginRevision
  <2> QED BY <2>8, <2>3, <2>9, <2>10, <2>11

<1>4. ASSUME NEW p \in Callers, NEW g \in Generations, NEW k \in Keys,
             Remove(p, g, k)
      PROVE  Control'
  <2>0. p \in Procs /\ ProcOK(p, pc[p], op[p])
    BY DEF Processes, Procs
  <2>1. UNCHANGED <<active, fence, bpf, installed, torn, cache, owner, bound, mutation, dispatch, epoch,
                    sequence, pending, settled, now, changed, retired, served, restoring>>
    BY <1>4 DEF Remove
  <2>2. DataOK'
    BY <2>1 DEF MapOK, FlagsOK, RoutesOK, LocksOK, RevisionsOK, LifecycleOK
  <2> DEFINE o == [NoOp EXCEPT !.kind = "remove", !.g = g, !.key = k]
  <2>3. o \in Op /\ o.kind = "remove" /\ o.g = g /\ o.key = k
    BY NoOpType DEF Op
  <2>4. ProcOK(p, "queued", o)
    BY <2>3, ProcsAssumption DEF ProcOK, Responses, Working, CallerPc
  <2>5. Processes'
    BY <1>4, <2>0, <2>4, OneProcess DEF Remove
  <2>6. Locking'
    BY <1>4, <2>5, ProcsAssumption DEF Locking, Holding, Processes, ProcOK, Op, Working, CallerPc,
       MaintenancePc, ReloaderPc, Responses, Procs, LocksOK, Remove
  <2>7. Restoring'
    BY <1>4, <2>5, ProcsAssumption DEF Restoring, Processes, ProcOK, Op, Working, CallerPc, MaintenancePc,
       ReloaderPc, Responses, Procs, Remove
  <2>8. Publications'
    BY <1>4, <2>5, ProcsAssumption DEF Publications, LifecycleOK, Processes, ProcOK, Working, CallerPc,
       MaintenancePc, ReloaderPc, Procs, Remove
  <2> QED BY <2>5, <2>2, <2>6, <2>7, <2>8

<1>5. ASSUME NEW p \in Callers,
             Abandon(p)
      PROVE  Control'
  <2>0. p \in Procs /\ ProcOK(p, pc[p], op[p])
    BY DEF Processes, Procs
  <2>1. UNCHANGED <<active, fence, bpf, installed, torn, cache, owner, bound, mutation, dispatch, now,
                    changed, retired, served, restoring>>
    BY <1>5 DEF Abandon, DropRevision
  <2>2. RevisionsOK'
    BY <1>5, <2>0, DropType DEF Abandon, DropRevision, ProcOK, Working
  <2>3. DataOK'
    BY <2>1, <2>2 DEF MapOK, FlagsOK, RoutesOK, LocksOK, LifecycleOK
  <2>4. ProcOK(p, "idle", NoOp)
    BY <2>0, EndedOp, ProcsAssumption DEF Working, CallerPc
  <2>5. Processes'
    BY <1>5, <2>0, <2>4, OneProcess DEF Abandon, DropRevision
  <2>6. Locking'
    BY <1>5, <2>5, ProcsAssumption DEF Locking, Holding, Processes, ProcOK, Op, Working, CallerPc,
       MaintenancePc, ReloaderPc, Responses, Procs, LocksOK, Abandon, DropRevision
  <2>7. Restoring'
    BY <1>5, <2>5, ProcsAssumption DEF Restoring, Processes, ProcOK, Op, Working, CallerPc, MaintenancePc,
       ReloaderPc, Responses, Procs, Abandon, DropRevision
  <2>8. Publications'
    BY <1>5, <2>5, ProcsAssumption DEF Publications, LifecycleOK, Processes, ProcOK, Working, CallerPc,
       MaintenancePc, ReloaderPc, Procs, Abandon, DropRevision
  <2> QED BY <2>5, <2>3, <2>6, <2>7, <2>8

<1>6. ASSUME NEW p \in Callers,
             CancelledBeforeCommit(p)
      PROVE  Control'
  <2>0. p \in Procs /\ ProcOK(p, pc[p], op[p])
    BY DEF Processes, Procs
  <2>1. UNCHANGED <<active, fence, bpf, installed, torn, cache, owner, bound, epoch, sequence, pending,
                    settled, now, changed, retired, served, restoring>>
    BY <1>6 DEF CancelledBeforeCommit
  <2>2. LocksOK'
    BY <1>6, <2>0 DEF LocksOK, CancelledBeforeCommit
  <2>3. DataOK'
    BY <2>1, <2>2 DEF MapOK, FlagsOK, RoutesOK, RevisionsOK, LifecycleOK
  <2>4. Processes'
    BY <1>6, <2>0, Continues, OneMoves DEF Working, CancelledBeforeCommit
  <2>5. Locking'
    BY <1>6, <2>4, ProcsAssumption DEF Locking, Holding, Processes, ProcOK, Op, Working, CallerPc,
       MaintenancePc, ReloaderPc, Responses, Procs, LocksOK, CancelledBeforeCommit
  <2>6. Restoring'
    BY <1>6, <2>4, ProcsAssumption DEF Restoring, Processes, ProcOK, Op, Working, CallerPc, MaintenancePc,
       ReloaderPc, Responses, Procs, CancelledBeforeCommit
  <2>7. Publications'
    BY <1>6, <2>4, ProcsAssumption DEF Publications, LifecycleOK, Processes, ProcOK, Working, CallerPc,
       MaintenancePc, ReloaderPc, Procs, CancelledBeforeCommit
  <2> QED BY <2>4, <2>3, <2>5, <2>6, <2>7

<1>7. ASSUME NEW p \in Procs,
             Admit(p)
      PROVE  Control'
  <2>0. p \in Procs /\ ProcOK(p, pc[p], op[p])
    BY DEF Processes, Procs
  <2>1. UNCHANGED <<active, fence, bpf, installed, torn, cache, owner, bound, epoch, sequence, pending,
                    settled, now, changed, retired, served, restoring>>
    BY <1>7 DEF Admit
  <2>2. LocksOK'
    BY <1>7 DEF LocksOK, Admit
  <2>3. DataOK'
    BY <2>1, <2>2 DEF MapOK, FlagsOK, RoutesOK, RevisionsOK, LifecycleOK
  <2> DEFINE o == IF op[p].kind = "sweep" THEN [op[p] EXCEPT !.time = now] ELSE op[p]
  <2>4. ProcOK(p, "admitted", o)
    <3>1. CASE op[p].kind = "sweep"
      <4>1. op[p] \in Op
        BY <2>0 DEF ProcOK
      <4>2. now \in 0..(MaxTime + 1)
        BY BoundsAssumption DEF LifecycleOK
      <4>3. [op[p] EXCEPT !.time = now] \in Op
        BY <4>1, <4>2 DEF Op
      <4> QED BY <1>7, <2>0, <3>1, <4>1, <4>3 DEF ProcOK, Op, Working, CallerPc, MaintenancePc, ReloaderPc,
                 Admit
    <3>2. CASE op[p].kind # "sweep"
      BY <1>7, <2>0, <3>2, Continues DEF Working, Admit
    <3> QED BY <3>1, <3>2
  <2>5. Processes'
    BY <1>7, <2>4, OneProcess DEF Admit
  <2>6. Locking'
    BY <1>7, <2>5, ProcsAssumption DEF Locking, Holding, Processes, ProcOK, Op, Working, CallerPc,
       MaintenancePc, ReloaderPc, Responses, Procs, LocksOK, Admit
  <2>7. Restoring'
    BY <1>7, <2>5, ProcsAssumption DEF Restoring, Processes, ProcOK, Op, Working, CallerPc, MaintenancePc,
       ReloaderPc, Responses, Procs, Admit
  <2>8. Publications'
    BY <1>7, <2>5, ProcsAssumption DEF Publications, LifecycleOK, Processes, ProcOK, Working, CallerPc,
       MaintenancePc, ReloaderPc, Procs, Admit
  <2> QED BY <2>5, <2>3, <2>6, <2>7, <2>8

<1>8. ASSUME NEW p \in Procs,
             StageRecord(p)
      PROVE  Control'
  <2>0. p \in Procs /\ ProcOK(p, pc[p], op[p])
    BY DEF Processes, Procs
  <2>1. UNCHANGED <<active, fence, bpf, installed, torn, cache, owner, bound, epoch, sequence, pending,
                    settled, now, changed, retired, served, restoring>>
    BY <1>8 DEF StageRecord, Lock
  <2>2. LocksOK'
    BY <1>8, <2>0 DEF LocksOK, ProcOK, Working, Lock, StageRecord, Lock
  <2>3. DataOK'
    BY <2>1, <2>2 DEF MapOK, FlagsOK, RoutesOK, RevisionsOK, LifecycleOK
  <2> DEFINE o == op[p]
  <2>4. o \in Op /\ o.g \in Generations /\ o.key \in Keys
    BY <1>8, <2>0 DEF ProcOK, Working, Responses, Lock, StageRecord, Lock
  <2>5. PICK l \in {"ending", "staged", "applied"}, d \in SUBSET Keys, e \in Events :
          /\ pc' = [pc EXCEPT ![p] = l]
          /\ \/ op' = [op EXCEPT ![p] = o]
             \/ op' = [op EXCEPT ![p] = [o EXCEPT !.doomed = d, !.events = e]]
    <3>1. CASE \E victims \in Victims(o.g, o.key) :
                  Start(p, [o EXCEPT !.doomed = victims, !.events = RecordEvents(o, victims)], "staged")
      <4>1. PICK victims \in Victims(o.g, o.key) :
                  Start(p, [o EXCEPT !.doomed = victims, !.events = RecordEvents(o, victims)], "staged")
        BY <3>1
      <4>2. victims \in SUBSET Keys
        BY DEF Victims, CachedKeys
      <4>3. RecordEvents(o, victims) \in Events
        BY <2>4, <4>2, RecordEventsType
      <4> QED BY <4>1, <4>2, <4>3
    <3>2. CASE Start(p, [o EXCEPT !.doomed = {o.key}, !.events = RemoveEvents({o.key})], "staged")
      <4>1. {o.key} \in SUBSET Keys /\ RemoveEvents({o.key}) \in Events
        BY <2>4, RemoveEventsType
      <4> QED BY <3>2, <4>1
    <3>3. CASE Start(p, o, "ending") \/ Start(p, o, "applied")
      <4>1. NoEvents \in Events /\ {} \in SUBSET Keys
        BY NoOpType DEF NoOp, Op
      <4> QED BY <3>3, <4>1
    <3> QED BY <1>8, <3>1, <3>2, <3>3, Zenon DEF StageRecord
  <2>6. ProcOK(p, l, o) /\ ProcOK(p, l, [o EXCEPT !.doomed = d, !.events = e])
    <3>1. pc[p] \in Working /\ l \in Working /\ l # "stored"
      BY <1>8 DEF Working, StageRecord, Lock
    <3>2. ProcOK(p, l, o)
      BY <2>0, <3>1, Continues
    <3> QED BY <2>0, <3>1, <3>2, StagedOp
  <2>7. /\ \A q \in Procs \ {p} : op'[q] = op[q] /\ pc'[q] = pc[q]
        /\ op'[p].g = op[p].g /\ op'[p].kind = op[p].kind /\ pc'[p] = l
    BY <2>4, <2>5 DEF Processes, Op
  <2>8. Processes'
    BY <2>5, <2>6, OneProcess
  <2>9. Locking'
    <3>1. pc[p] \notin Holding /\ l \in Holding /\ mutation[o.g] = None
      BY <1>8 DEF Holding, Lock, StageRecord, Lock
    <3>2. mutation' = [mutation EXCEPT ![o.g] = p]
      BY <1>8 DEF Lock, StageRecord, Lock
    <3> QED BY <2>4, <2>5, <2>7, <3>1, <3>2, TakesLock
  <2>10. Restoring'
    BY <1>8, <2>0, <2>7, QuietMove DEF StageRecord, Lock
  <2>11. Publications'
    BY <1>8, <2>0, <2>7, QuietMove DEF StageRecord, Lock
  <2> QED BY <2>8, <2>3, <2>9, <2>10, <2>11

<1>9. ASSUME NEW p \in Procs,
             StageRemove(p)
      PROVE  Control'
  <2>0. p \in Procs /\ ProcOK(p, pc[p], op[p])
    BY DEF Processes, Procs
  <2>1. UNCHANGED <<active, fence, bpf, installed, torn, cache, owner, bound, epoch, sequence, pending,
                    settled, now, changed, retired, served, restoring>>
    BY <1>9 DEF StageRemove, Lock
  <2>2. LocksOK'
    BY <1>9, <2>0 DEF LocksOK, ProcOK, Working, Lock, StageRemove, Lock
  <2>3. DataOK'
    BY <2>1, <2>2 DEF MapOK, FlagsOK, RoutesOK, RevisionsOK, LifecycleOK
  <2> DEFINE o == op[p]
  <2>4. o \in Op /\ o.g \in Generations /\ o.key \in Keys
    BY <1>9, <2>0 DEF ProcOK, Working, Responses, Lock, StageRemove, Lock
  <2>5. PICK l \in {"staged", "applied"}, d \in SUBSET Keys, e \in Events :
          /\ pc' = [pc EXCEPT ![p] = l]
          /\ \/ op' = [op EXCEPT ![p] = o]
             \/ op' = [op EXCEPT ![p] = [o EXCEPT !.doomed = d, !.events = e]]
    <3>1. {o.key} \in SUBSET Keys /\ RemoveEvents({o.key}) \in Events
      BY <2>4, RemoveEventsType
    <3> QED BY <1>9, <3>1, Zenon DEF StageRemove, Start
  <2>6. ProcOK(p, l, o) /\ ProcOK(p, l, [o EXCEPT !.doomed = d, !.events = e])
    <3>1. pc[p] \in Working /\ l \in Working /\ l # "stored"
      BY <1>9 DEF Working, StageRemove, Lock
    <3>2. ProcOK(p, l, o)
      BY <2>0, <3>1, Continues
    <3> QED BY <2>0, <3>1, <3>2, StagedOp
  <2>7. /\ \A q \in Procs \ {p} : op'[q] = op[q] /\ pc'[q] = pc[q]
        /\ op'[p].g = op[p].g /\ op'[p].kind = op[p].kind /\ pc'[p] = l
    BY <2>4, <2>5 DEF Processes, Op
  <2>8. Processes'
    BY <2>5, <2>6, OneProcess
  <2>9. Locking'
    <3>1. pc[p] \notin Holding /\ l \in Holding /\ mutation[o.g] = None
      BY <1>9 DEF Holding, Lock, StageRemove, Lock
    <3>2. mutation' = [mutation EXCEPT ![o.g] = p]
      BY <1>9 DEF Lock, StageRemove, Lock
    <3> QED BY <2>4, <2>5, <2>7, <3>1, <3>2, TakesLock
  <2>10. Restoring'
    BY <1>9, <2>0, <2>7, QuietMove DEF StageRemove, Lock
  <2>11. Publications'
    BY <1>9, <2>0, <2>7, QuietMove DEF StageRemove, Lock
  <2> QED BY <2>8, <2>3, <2>9, <2>10, <2>11

<1>10. ASSUME NEW p \in Procs,
             StageSweep(p)
      PROVE  Control'
  <2>0. p \in Procs /\ ProcOK(p, pc[p], op[p])
    BY DEF Processes, Procs
  <2>1. UNCHANGED <<active, fence, bpf, installed, torn, cache, owner, bound, epoch, sequence, pending,
                    settled, now, changed, retired, served, restoring>>
    BY <1>10 DEF StageSweep, Lock
  <2>2. LocksOK'
    BY <1>10, <2>0 DEF LocksOK, ProcOK, Working, Lock, StageSweep, Lock
  <2>3. DataOK'
    BY <2>1, <2>2 DEF MapOK, FlagsOK, RoutesOK, RevisionsOK, LifecycleOK
  <2> DEFINE o == op[p]
  <2>4. o \in Op /\ o.g \in Generations
    BY <1>10, <2>0 DEF ProcOK, Working, Responses, Lock, StageSweep, Lock
  <2>5. PICK l \in {"ending", "staged"}, d \in SUBSET Keys, e \in Events :
          /\ pc' = [pc EXCEPT ![p] = l]
          /\ \/ op' = [op EXCEPT ![p] = o]
             \/ op' = [op EXCEPT ![p] = [o EXCEPT !.doomed = d, !.events = e]]
    <3>1. CASE Start(p, o, "ending")
      <4>1. NoEvents \in Events /\ {} \in SUBSET Keys
        BY NoOpType DEF NoOp, Op
      <4> QED BY <3>1, <4>1
    <3>2. CASE \E batch \in SUBSET Expired(o.g, o.time) :
                  Start(p, [o EXCEPT !.doomed = batch, !.events = RemoveEvents(batch)], "staged")
      <4>1. PICK batch \in SUBSET Expired(o.g, o.time) :
                  Start(p, [o EXCEPT !.doomed = batch, !.events = RemoveEvents(batch)], "staged")
        BY <3>2
      <4>2. batch \in SUBSET Keys /\ RemoveEvents(batch) \in Events
        BY RemoveEventsType DEF Expired, CachedKeys
      <4> QED BY <4>1, <4>2
    <3> QED BY <1>10, <3>1, <3>2, Zenon DEF StageSweep
  <2>6. ProcOK(p, l, o) /\ ProcOK(p, l, [o EXCEPT !.doomed = d, !.events = e])
    <3>1. pc[p] \in Working /\ l \in Working /\ l # "stored"
      BY <1>10 DEF Working, StageSweep, Lock
    <3>2. ProcOK(p, l, o)
      BY <2>0, <3>1, Continues
    <3> QED BY <2>0, <3>1, <3>2, StagedOp
  <2>7. /\ \A q \in Procs \ {p} : op'[q] = op[q] /\ pc'[q] = pc[q]
        /\ op'[p].g = op[p].g /\ op'[p].kind = op[p].kind /\ pc'[p] = l
    BY <2>4, <2>5 DEF Processes, Op
  <2>8. Processes'
    BY <2>5, <2>6, OneProcess
  <2>9. Locking'
    <3>1. pc[p] \notin Holding /\ l \in Holding /\ mutation[o.g] = None
      BY <1>10 DEF Holding, Lock, StageSweep, Lock
    <3>2. mutation' = [mutation EXCEPT ![o.g] = p]
      BY <1>10 DEF Lock, StageSweep, Lock
    <3> QED BY <2>4, <2>5, <2>7, <3>1, <3>2, TakesLock
  <2>10. Restoring'
    BY <1>10, <2>0, <2>7, QuietMove DEF StageSweep, Lock
  <2>11. Publications'
    BY <1>10, <2>0, <2>7, QuietMove DEF StageSweep, Lock
  <2> QED BY <2>8, <2>3, <2>9, <2>10, <2>11

<1>11. ASSUME NEW p \in Procs,
             TransactInMemory(p)
      PROVE  Control'
  <2>0. p \in Procs /\ ProcOK(p, pc[p], op[p])
    BY DEF Processes, Procs
  <2>1. op[p] \in Op /\ op[p].g \in Generations /\ op[p].events \in Events
    BY <1>11, <2>0 DEF ProcOK, Working, Op, TransactInMemory, OwnerApplied
  <2>2. UNCHANGED <<active, fence, bpf, installed, torn, mutation, dispatch, epoch, sequence, pending,
                    settled, now, changed, retired, served, restoring>>
    BY <1>11 DEF TransactInMemory, OwnerApplied
  <2>3. RoutesOK'
    <3>1. ApplyEvents(owner[op[p].g], op[p].events) \in Tracker
      BY <2>1, ApplyEventsType DEF RoutesOK
    <3> QED BY <1>11, <2>1, <3>1 DEF RoutesOK, OwnerApplied, TransactInMemory, OwnerApplied
  <2>4. DataOK'
    BY <2>2, <2>3 DEF MapOK, FlagsOK, LocksOK, RevisionsOK, LifecycleOK
  <2>5. Processes'
    BY <1>11, <2>0, Continues, OneMoves DEF Working, TransactInMemory, OwnerApplied
  <2>6. Locking'
    BY <1>11, <2>5, ProcsAssumption DEF Locking, Holding, Processes, ProcOK, Op, Working, CallerPc,
       MaintenancePc, ReloaderPc, Responses, Procs, LocksOK, TransactInMemory, OwnerApplied
  <2>7. Restoring'
    BY <1>11, <2>5, ProcsAssumption DEF Restoring, Processes, ProcOK, Op, Working, CallerPc, MaintenancePc,
       ReloaderPc, Responses, Procs, TransactInMemory, OwnerApplied
  <2>8. Publications'
    BY <1>11, <2>5, ProcsAssumption DEF Publications, LifecycleOK, Processes, ProcOK, Working, CallerPc,
       MaintenancePc, ReloaderPc, Procs, TransactInMemory, OwnerApplied
  <2> QED BY <2>5, <2>4, <2>6, <2>7, <2>8

<1>12. ASSUME NEW p \in Procs,
             Transact(p)
      PROVE  Control'
  <2>0. p \in Procs /\ ProcOK(p, pc[p], op[p])
    BY DEF Processes, Procs
  <2>1. op[p] \in Op /\ op[p].g \in Generations /\ op[p].events \in Events
    BY <1>12, <2>0 DEF ProcOK, Working, Op, Transact, OwnerApplied
  <2>2. UNCHANGED <<installed, torn, mutation, dispatch, epoch, sequence, pending, settled, now, changed,
                    retired, served, restoring>>
    BY <1>12 DEF Transact, OwnerApplied
  <2>3. RoutesOK'
    <3>1. ApplyEvents(owner[op[p].g], op[p].events) \in Tracker
      BY <2>1, ApplyEventsType DEF RoutesOK
    <3> QED BY <1>12, <2>1, <3>1 DEF RoutesOK, OwnerApplied, Transact, OwnerApplied
  <2>4. MapOK'
    <3>1. owner[op[p].g] \in Tracker
      BY <2>1 DEF RoutesOK
    <3>2. ApplyEvents(owner[op[p].g], op[p].events) \in Tracker
      BY <2>1, <3>1, ApplyEventsType
    <3>3. Staged(owner[op[p].g], op[p].events) \in [Ips -> [Keys -> SUBSET Rules]]
      BY <3>2 DEF ApplyEvents, Tracker
    <3>4. MapAfter(op[p]) \in [Ips -> SUBSET Rules]
      BY <3>3, WrittenType DEF MapOK, MapAfter
    <3>5. SyncOwners(fence, op[p].events) \in Tracker
      BY <2>1, SyncOwnersType DEF MapOK
    <3> QED BY <1>12, <3>4, <3>5 DEF MapOK, Transact, OwnerApplied
  <2>5. DataOK'
    BY <2>2, <2>3, <2>4 DEF FlagsOK, LocksOK, RevisionsOK, LifecycleOK
  <2>6. Processes'
    BY <1>12, <2>0, Continues, OneMoves DEF Working, Transact, OwnerApplied
  <2>7. Locking'
    BY <1>12, <2>6, ProcsAssumption DEF Locking, Holding, Processes, ProcOK, Op, Working, CallerPc,
       MaintenancePc, ReloaderPc, Responses, Procs, LocksOK, Transact, OwnerApplied
  <2>8. Restoring'
    BY <1>12, <2>6, ProcsAssumption DEF Restoring, Processes, ProcOK, Op, Working, CallerPc, MaintenancePc,
       ReloaderPc, Responses, Procs, Transact, OwnerApplied
  <2>9. Publications'
    BY <1>12, <2>6, ProcsAssumption DEF Publications, LifecycleOK, Processes, ProcOK, Working, CallerPc,
       MaintenancePc, ReloaderPc, Procs, Transact, OwnerApplied
  <2> QED BY <2>6, <2>5, <2>7, <2>8, <2>9

<1>13. ASSUME NEW p \in Procs,
             RejectTransaction(p)
      PROVE  Control'
  <2>0. p \in Procs /\ ProcOK(p, pc[p], op[p])
    BY DEF Processes, Procs
  <2>1. op[p] \in Op /\ op[p].g \in Generations /\ op[p].events \in Events
    BY <1>13, <2>0 DEF ProcOK, Working, Op, RejectTransaction
  <2>2. UNCHANGED <<cache, owner, bound, mutation, dispatch, epoch, sequence, pending, settled, now, changed,
                    retired, served, restoring>>
    BY <1>13 DEF RejectTransaction
  <2>3. MapOK'
    <3>1. owner[op[p].g] \in Tracker
      BY <2>1 DEF RoutesOK
    <3>2. ApplyEvents(owner[op[p].g], op[p].events) \in Tracker
      BY <2>1, <3>1, ApplyEventsType
    <3>3. Staged(owner[op[p].g], op[p].events) \in [Ips -> [Keys -> SUBSET Rules]]
      BY <3>2 DEF ApplyEvents, Tracker
    <3>4. MapAfter(op[p]) \in [Ips -> SUBSET Rules]
      BY <3>3, WrittenType DEF MapOK, MapAfter
    <3>5. CASE UNCHANGED bpf
      BY <1>13, <3>5 DEF MapOK, RejectTransaction
    <3>6. CASE \E S \in SUBSET (MapUpdates(op[p]) \union MapDeletes(op[p])) :
                 bpf' = [i \in Ips |-> IF i \in S THEN MapAfter(op[p])[i] ELSE bpf[i]]
      BY <1>13, <3>4, <3>6, PartType DEF MapOK, RejectTransaction
    <3> QED BY <1>13, <3>5, <3>6, Zenon DEF RejectTransaction
  <2>4. FlagsOK'
    BY <1>13, Zenon DEF FlagsOK, RejectTransaction
  <2>5. DataOK'
    BY <2>2, <2>3, <2>4 DEF RoutesOK, LocksOK, RevisionsOK, LifecycleOK
  <2>6. Processes'
    BY <1>13, <2>0, Continues, OneMoves DEF Working, RejectTransaction
  <2>7. Locking'
    BY <1>13, <2>6, ProcsAssumption DEF Locking, Holding, Processes, ProcOK, Op, Working, CallerPc,
       MaintenancePc, ReloaderPc, Responses, Procs, LocksOK, RejectTransaction
  <2>8. Restoring'
    BY <1>13, <2>6, ProcsAssumption DEF Restoring, Processes, ProcOK, Op, Working, CallerPc, MaintenancePc,
       ReloaderPc, Responses, Procs, RejectTransaction
  <2>9. Publications'
    BY <1>13, <2>6, ProcsAssumption DEF Publications, LifecycleOK, Processes, ProcOK, Working, CallerPc,
       MaintenancePc, ReloaderPc, Procs, RejectTransaction
  <2> QED BY <2>6, <2>5, <2>7, <2>8, <2>9

<1>14. ASSUME NEW p \in Procs,
             StoreRecord(p)
      PROVE  Control'
  <2>0. p \in Procs /\ ProcOK(p, pc[p], op[p])
    BY DEF Processes, Procs
  <2>1. op[p] \in Op /\ op[p].g \in Generations
    BY <1>14, <2>0 DEF ProcOK, Working, StoreRecord, Settle
  <2>2. UNCHANGED <<active, fence, bpf, installed, torn, mutation, dispatch, now, changed, retired, served,
                    restoring>>
    BY <1>14 DEF StoreRecord, Settle
  <2>3. RoutesOK'
    <3> DEFINE o == op[p]
               entry == IF HasPlan(o) THEN [ips |-> o.ips, deadline |-> o.deadline] ELSE NoEntry
    <3>1. entry \in Entry
      BY <2>1, EntryType DEF Op
    <3>2. [Discarded(cache[o.g], o.doomed) EXCEPT ![o.key] = entry] \in [Keys -> Entry]
      BY <2>1, <3>1, DiscardedType DEF RoutesOK
    <3>3. cache' = [cache EXCEPT ![o.g] = [Discarded(cache[o.g], o.doomed) EXCEPT ![o.key] = entry]]
      BY <1>14 DEF StoreRecord, Settle
    <3> HIDE DEF entry
    <3> QED BY <1>14, <2>1, <3>2, <3>3 DEF RoutesOK, StoreRecord, Settle
  <2>4. RevisionsOK'
    BY <1>14, <2>1 DEF RevisionsOK, Settle, Op, StoreRecord, Settle
  <2>5. DataOK'
    BY <2>2, <2>3, <2>4 DEF MapOK, FlagsOK, LocksOK, LifecycleOK
  <2>6. Processes'
    BY <1>14, <2>0, <2>1, Continues, OneMoves DEF Responses, Working, StoreRecord, Settle
  <2>7. Locking'
    BY <1>14, <2>6, ProcsAssumption DEF Locking, Holding, Processes, ProcOK, Op, Working, CallerPc,
       MaintenancePc, ReloaderPc, Responses, Procs, LocksOK, StoreRecord, Settle
  <2>8. Restoring'
    BY <1>14, <2>6, ProcsAssumption DEF Restoring, Processes, ProcOK, Op, Working, CallerPc, MaintenancePc,
       ReloaderPc, Responses, Procs, StoreRecord, Settle
  <2>9. Publications'
    BY <1>14, <2>6, ProcsAssumption DEF Publications, LifecycleOK, Processes, ProcOK, Working, CallerPc,
       MaintenancePc, ReloaderPc, Procs, StoreRecord, Settle
  <2> QED BY <2>6, <2>5, <2>7, <2>8, <2>9

<1>15. ASSUME NEW p \in Procs,
             StoreRemove(p)
      PROVE  Control'
  <2>0. p \in Procs /\ ProcOK(p, pc[p], op[p])
    BY DEF Processes, Procs
  <2>1. op[p] \in Op /\ op[p].g \in Generations
    BY <1>15, <2>0 DEF ProcOK, Working, StoreRemove, Settle, Invalidate
  <2>2. UNCHANGED <<active, fence, bpf, installed, torn, mutation, dispatch>>
    BY <1>15 DEF StoreRemove, Settle, Invalidate
  <2>3. RoutesOK'
    <3>1. Discarded(cache[op[p].g], op[p].doomed) \in [Keys -> Entry]
      BY <2>1, DiscardedType DEF RoutesOK
    <3> QED BY <1>15, <2>1, <3>1 DEF RoutesOK, StoreRemove, Settle, Invalidate
  <2>4. RevisionsOK'
    <3>1. op[p].key \in Keys /\ NextRevision(op[p].g) \in Revision
      BY <1>15, <2>0, <2>1, NextRevisionType DEF ProcOK, StoreRemove, Settle, Invalidate
    <3>4. sequence[op[p].g] + 1 \in Nat
      BY <2>1 DEF RevisionsOK
    <3>2. pending' \in [Generations -> [Keys -> Pending]]
      <4>1. \/ pending' = pending
            \/ pending' = Committed(pending, op[p].g, op[p].key, sequence[op[p].g] + 1)
        BY <1>15 DEF Invalidate, StoreRemove, Committed
      <4>2. pending \in [Generations -> [Keys -> Pending]]
        BY DEF RevisionsOK
      <4>3. Committed(pending, op[p].g, op[p].key, sequence[op[p].g] + 1) \in [Generations -> [Keys -> Pending]]
        BY <2>1, <3>1, <3>4, <4>2, PendingUpdate
      <4> QED BY <4>1, <4>2, <4>3
    <3> QED BY <1>15, <2>1, <3>1, <3>2 DEF RevisionsOK, Settle, Invalidate, StoreRemove, Settle, Invalidate
  <2>5. LifecycleOK'
    BY <1>15, <2>1 DEF LifecycleOK, StoreRemove, Settle, Invalidate
  <2>6. DataOK'
    BY <2>2, <2>3, <2>4, <2>5 DEF MapOK, FlagsOK, LocksOK
  <2>7. Processes'
    BY <1>15, <2>0, Continues, OneMoves DEF Working, StoreRemove, Settle, Invalidate
  <2>8. Locking'
    BY <1>15, <2>7, ProcsAssumption DEF Locking, Holding, Processes, ProcOK, Op, Working, CallerPc,
       MaintenancePc, ReloaderPc, Responses, Procs, LocksOK, StoreRemove, Settle, Invalidate
  <2>9. Restoring'
    BY <1>15, <2>7, ProcsAssumption DEF Restoring, Processes, ProcOK, Op, Working, CallerPc, MaintenancePc,
       ReloaderPc, Responses, Procs, StoreRemove, Settle, Invalidate
  <2>10. Publications'
    BY <1>15, <2>7, ProcsAssumption DEF Publications, LifecycleOK, Processes, ProcOK, Working, CallerPc,
       MaintenancePc, ReloaderPc, Procs, StoreRemove, Settle, Invalidate
  <2> QED BY <2>7, <2>6, <2>8, <2>9, <2>10

<1>16. ASSUME NEW p \in Procs,
             StoreSweep(p)
      PROVE  Control'
  <2>0. p \in Procs /\ ProcOK(p, pc[p], op[p])
    BY DEF Processes, Procs
  <2>1. op[p] \in Op /\ op[p].g \in Generations
    BY <1>16, <2>0 DEF ProcOK, Working, StoreSweep
  <2>2. UNCHANGED <<active, fence, bpf, installed, torn, mutation, dispatch, epoch, sequence, pending,
                    settled, now, changed, retired, served, restoring>>
    BY <1>16 DEF StoreSweep
  <2>3. RoutesOK'
    <3>1. Discarded(cache[op[p].g], op[p].doomed) \in [Keys -> Entry]
      BY <2>1, DiscardedType DEF RoutesOK
    <3> QED BY <1>16, <2>1, <3>1 DEF RoutesOK, StoreSweep
  <2>4. DataOK'
    BY <2>2, <2>3 DEF MapOK, FlagsOK, LocksOK, RevisionsOK, LifecycleOK
  <2>5. Processes'
    BY <1>16, <2>0, Continues, OneMoves DEF Working, StoreSweep
  <2>6. Locking'
    BY <1>16, <2>5, ProcsAssumption DEF Locking, Holding, Processes, ProcOK, Op, Working, CallerPc,
       MaintenancePc, ReloaderPc, Responses, Procs, LocksOK, StoreSweep
  <2>7. Restoring'
    BY <1>16, <2>5, ProcsAssumption DEF Restoring, Processes, ProcOK, Op, Working, CallerPc, MaintenancePc,
       ReloaderPc, Responses, Procs, StoreSweep
  <2>8. Publications'
    BY <1>16, <2>5, ProcsAssumption DEF Publications, LifecycleOK, Processes, ProcOK, Working, CallerPc,
       MaintenancePc, ReloaderPc, Procs, StoreSweep
  <2> QED BY <2>5, <2>4, <2>6, <2>7, <2>8

<1>17. ASSUME NEW p \in Procs,
             Commit(p)
      PROVE  Control'
  <2>0. p \in Procs /\ ProcOK(p, pc[p], op[p])
    BY DEF Processes, Procs
  <2>1. op[p] \in Op /\ op[p].g \in Generations
    BY <1>17, <2>0 DEF ProcOK, Working, Commit, CommitRevision
  <2>2. UNCHANGED <<active, fence, bpf, installed, torn, cache, owner, bound, mutation, dispatch>>
    BY <1>17 DEF Commit, CommitRevision
  <2>3. RevisionsOK'
    <3>1. op[p].rev \in Revision
      BY <2>1 DEF Op
    <3>2. op[p].key \in Keys /\ op[p].rev.seq \in Nat
      BY <1>17, <2>0, <3>1 DEF ProcOK, Revision, Commit, CommitRevision
    <3>4. pending[op[p].g][op[p].key].committed \in Nat
      BY <2>1, <3>2 DEF RevisionsOK, Pending
    <3>3. pending' \in [Generations -> [Keys -> Pending]]
      <4> DEFINE c == pending[op[p].g][op[p].key].committed
                 d == IF c >= op[p].rev.seq THEN c ELSE op[p].rev.seq
      <4>1. pending' = pending \/ pending' = Committed(pending, op[p].g, op[p].key, d)
        BY <1>17 DEF CommitRevision, Commit, Committed
      <4>2. d \in Nat
        BY <3>2, <3>4
      <4> HIDE DEF d
      <4>3. pending \in [Generations -> [Keys -> Pending]]
        BY DEF RevisionsOK
      <4>4. Committed(pending, op[p].g, op[p].key, d) \in [Generations -> [Keys -> Pending]]
        BY <2>1, <3>2, <4>2, <4>3, PendingUpdate
      <4> QED BY <4>1, <4>3, <4>4
    <3> QED BY <1>17, <3>3 DEF RevisionsOK, CommitRevision, Commit, CommitRevision
  <2>4. LifecycleOK'
    BY <1>17, <2>1 DEF LifecycleOK, NotifyDeadlineChanged, Commit, CommitRevision
  <2>5. DataOK'
    BY <2>2, <2>3, <2>4 DEF MapOK, FlagsOK, RoutesOK, LocksOK
  <2>6. Processes'
    BY <1>17, <2>0, Continues, OneMoves DEF Working, Commit, CommitRevision
  <2>7. Locking'
    BY <1>17, <2>6, ProcsAssumption DEF Locking, Holding, Processes, ProcOK, Op, Working, CallerPc,
       MaintenancePc, ReloaderPc, Responses, Procs, LocksOK, Commit, CommitRevision
  <2>8. Restoring'
    BY <1>17, <2>6, ProcsAssumption DEF Restoring, Processes, ProcOK, Op, Working, CallerPc, MaintenancePc,
       ReloaderPc, Responses, Procs, Commit, CommitRevision
  <2>9. Publications'
    BY <1>17, <2>6, ProcsAssumption DEF Publications, LifecycleOK, Processes, ProcOK, Working, CallerPc,
       MaintenancePc, ReloaderPc, Procs, Commit, CommitRevision
  <2> QED BY <2>6, <2>5, <2>7, <2>8, <2>9

<1>18. ASSUME NEW p \in Procs,
             End(p)
      PROVE  Control'
  <2>0. p \in Procs /\ ProcOK(p, pc[p], op[p])
    BY DEF Processes, Procs
  <2>1. UNCHANGED <<active, fence, bpf, installed, torn, cache, owner, bound, now, changed, retired, served,
                    restoring>>
    BY <1>18 DEF End, DropRevision
  <2>2. RevisionsOK'
    BY <1>18, <2>0, DropType DEF End, DropRevision, ProcOK, Working
  <2>3. LocksOK'
    BY <1>18 DEF LocksOK, Release, End, DropRevision
  <2>4. DataOK'
    BY <2>1, <2>2, <2>3 DEF MapOK, FlagsOK, RoutesOK, LifecycleOK
  <2>5. pc[p] \in Working /\ op[p].g \in Generations /\ op[p] \in Op
    BY <1>18, <2>0 DEF ProcOK, Working, End, DropRevision
  <2>6. Processes'
    <3>1. CASE p \in Callers
      <4>1. ProcOK(p, "idle", NoOp)
        BY <3>1, EndedOp, ProcsAssumption DEF Working, CallerPc
      <4>2. Start(p, NoOp, "idle")
        BY <1>18, <3>1, ProcsAssumption DEF Resume, End, DropRevision
      <4> QED BY <4>1, <4>2, OneProcess
    <3>2. CASE p \in Generations
      <4> DEFINE l == IF pc[p] = "failed" THEN "wait" ELSE "loop"
      <4>1. ProcOK(p, l, NoOp)
        BY <3>2, EndedOp, ProcsAssumption DEF Working, MaintenancePc
      <4>2. Start(p, NoOp, l)
        BY <1>18, <3>2, ProcsAssumption DEF Resume, End, DropRevision
      <4> QED BY <4>1, <4>2, OneProcess
    <3>3. CASE p = Reloader /\ pc[p] # "failed"
      <4> DEFINE o == [NoOp EXCEPT !.g = op[p].g, !.time = op[p].time]
                 l == IF op[p].kind = "sweep" THEN "sweeping" ELSE "restoring"
      <4>1. o \in Op /\ o.kind = "none" /\ o.g = op[p].g
        BY <2>5, NoOpType DEF Op
      <4>2. ProcOK(p, l, o)
        BY <2>5, <3>3, <4>1, ProcsAssumption DEF ProcOK, Working, ReloaderPc, Responses
      <4>3. Start(p, o, l)
        BY <1>18, <3>3, ProcsAssumption DEF Resume, End, DropRevision
      <4> QED BY <4>2, <4>3, OneProcess
    <3>4. CASE p = Reloader /\ pc[p] = "failed"
      <4> DEFINE g == op[p].g
                 l == IF op[p].kind = "restore" THEN "stopped" ELSE pc[g]
      <4>1. op' = [op EXCEPT ![p] = NoOp] /\ pc' = [pc EXCEPT ![p] = "idle", ![g] = l]
        BY <1>18, <3>4, ProcsAssumption DEF Resume, End, DropRevision
      <4>2. g # p
        BY <2>5, <3>4, ProcsAssumption
      <4>3. ProcOK(p, "idle", NoOp)
        BY <3>4, EndedOp, ProcsAssumption DEF Working, ReloaderPc
      <4>4. ProcOK(g, l, op[g])
        <5>1. ProcOK(g, pc[g], op[g]) /\ g \in Procs
          BY <2>5 DEF Processes, Procs
        <5>2. CASE op[p].kind = "restore"
          <6>1. pc[g] = "off"
            BY <3>4, <5>2 DEF Restoring
          <6> QED BY <2>5, <5>1, <5>2, <6>1, ProcsAssumption DEF ProcOK, Working, MaintenancePc, Responses
        <5> QED BY <5>1, <5>2
      <4>5. l \in Places /\ NoOp \in Op
        BY <2>5, NoOpType DEF Processes, Places, MaintenancePc, Procs
      <4>6. "idle" \in Places
        BY DEF Places, CallerPc
      <4> HIDE DEF l, g
      <4> QED BY <4>1, <4>2, <4>3, <4>4, <4>5, <4>6 DEF Processes
    <3> QED BY <3>1, <3>2, <3>3, <3>4 DEF Procs
  <2>7. /\ \A q \in Procs \ {p} :
               /\ op'[q] = op[q]
               /\ \/ pc'[q] = pc[q]
                  \/ /\ pc'[q] = "stopped" /\ p = Reloader /\ op[p].kind = "restore" /\ q = op[p].g
        /\ pc'[p] \in {"idle", "wait", "loop", "sweeping", "restoring"}
        /\ op'[p].kind = "none"
        /\ pc'[p] = "restoring" => p = Reloader /\ op'[p].g = op[p].g /\ op[p].kind = "restore"
    BY <1>18, ResumeEffect DEF End
  <2>8. Locking'
    <3>1. pc[p] \in Holding /\ mutation' = Release(mutation, p)
      BY <1>18 DEF Holding, End, DropRevision
    <3>2. \A q \in Procs \ {p} : op'[q] = op[q] /\ (pc'[q] \in Holding <=> pc[q] \in Holding)
      <4>1. p = Reloader /\ op[p].kind = "restore" => pc[op[p].g] = "off"
        BY DEF Restoring
      <4> QED BY <2>7, <4>1 DEF Holding
    <3>3. pc'[p] \notin Holding
      BY <2>7 DEF Holding
    <3> QED BY <3>1, <3>2, <3>3, ProcsAssumption DEF Locking, Release, LocksOK, Processes, ProcOK, Holding,
               Working
  <2>9. Restoring'
    <3>1. CASE p = Reloader
      <4>1. op[p].g # p
        BY <2>5, <3>1, ProcsAssumption
      <4> SUFFICES ASSUME pc'[p] = "restoring" PROVE pc'[op'[p].g] = "off"
        BY <2>7, <3>1 DEF Restoring
      <4>2. op'[p].g = op[p].g /\ pc[op[p].g] = "off"
        BY <2>7, <3>1 DEF Restoring
      <4>3. pc' = [pc EXCEPT ![p] = "restoring"]
        BY <1>18, <2>7, <3>1, ProcsAssumption DEF Resume, Processes, End
      <4> QED BY <2>5, <4>1, <4>2, <4>3 DEF Processes, Procs
    <3>2. CASE p # Reloader
      <4>1. pc'[Reloader] = pc[Reloader] /\ op'[Reloader] = op[Reloader] /\ Reloader \in Procs
        BY <2>7, <3>2 DEF Procs
      <4> SUFFICES ASSUME pc[op[Reloader].g] = "off", op[Reloader].g \in Procs PROVE pc'[op[Reloader].g] = "off"
        BY <4>1 DEF Restoring, Processes, ProcOK, Procs, Working
      <4> QED BY <1>18, <2>7, <3>2 DEF End
    <3> QED BY <3>1, <3>2
  <2>10. Publications'
    <3>1. UNCHANGED <<active, served, retired>> /\ Reloader \in Procs /\ Generations \subseteq Procs
      BY <1>18 DEF Procs, End
    <3>2. pc'[Reloader] = "built" => pc[Reloader] = "built" /\ op'[Reloader] = op[Reloader]
      BY <2>7, <3>1
    <3>3. \A g \in Generations : pc'[g] = "off" => pc[g] = "off"
      BY <2>7, <3>1
    <3>4. pc[Reloader] = "built" => pc'[op[Reloader].g] # "off"
      <4>1. pc[Reloader] = "built" => op[Reloader].g \in Procs /\ pc[op[Reloader].g] # "off"
        BY <3>1 DEF Processes, ProcOK, Publications
      <4> QED BY <2>7, <4>1
    <3> QED BY <3>1, <3>2, <3>3, <3>4 DEF Publications
  <2> QED BY <2>6, <2>4, <2>8, <2>9, <2>10

<1>19. ASSUME NEW g \in Generations,
             ReadSignal(g)
      PROVE  Control'
  <2>0. g \in Procs /\ ProcOK(g, pc[g], op[g])
    BY DEF Processes, Procs
  <2>1. UNCHANGED <<active, fence, bpf, installed, torn, cache, owner, bound, mutation, dispatch, epoch,
                    sequence, pending, settled>>
    BY <1>19 DEF ReadSignal
  <2>2. LifecycleOK'
    BY <1>19 DEF LifecycleOK, ReadSignal
  <2>3. DataOK'
    BY <2>1, <2>2 DEF MapOK, FlagsOK, RoutesOK, LocksOK, RevisionsOK
  <2>4. ProcOK(g, "look", op[g])
    BY <1>19, <2>0, ProcsAssumption DEF ProcOK, Working, MaintenancePc, Responses, ReadSignal
  <2>5. Processes'
    BY <1>19, <2>4, OneMoves DEF Procs, ReadSignal
  <2>6. Locking'
    BY <1>19, <2>5, ProcsAssumption DEF Locking, Holding, Processes, ProcOK, Op, Working, CallerPc,
       MaintenancePc, ReloaderPc, Responses, Procs, LocksOK, ReadSignal
  <2>7. Restoring'
    BY <1>19, <2>5, ProcsAssumption DEF Restoring, Processes, ProcOK, Op, Working, CallerPc, MaintenancePc,
       ReloaderPc, Responses, Procs, ReadSignal
  <2>8. Publications'
    BY <1>19, <2>5, ProcsAssumption DEF Publications, LifecycleOK, Processes, ProcOK, Working, CallerPc,
       MaintenancePc, ReloaderPc, Procs, ReadSignal
  <2> QED BY <2>5, <2>3, <2>6, <2>7, <2>8

<1>20. ASSUME NEW g \in Generations,
             LookAtDeadlines(g)
      PROVE  Control'
  <2>0. g \in Procs /\ ProcOK(g, pc[g], op[g])
    BY DEF Processes, Procs
  <2>1. UNCHANGED <<active, fence, bpf, installed, torn, cache, owner, bound, mutation, dispatch, epoch,
                    sequence, pending, settled, now, changed, retired, served, restoring>>
    BY <1>20 DEF LookAtDeadlines
  <2>2. DataOK'
    BY <2>1 DEF MapOK, FlagsOK, RoutesOK, LocksOK, RevisionsOK, LifecycleOK
  <2>3. Processes'
    <3>1. CASE NextExpiry(g) <= now
      <4> DEFINE o == [NoOp EXCEPT !.kind = "sweep", !.g = g]
      <4>1. o \in Op /\ o.kind = "sweep" /\ o.g = g
        BY NoOpType DEF Op
      <4>2. ProcOK(g, "queued", o)
        BY <4>1, ProcsAssumption DEF ProcOK, Working, MaintenancePc, Responses
      <4> QED BY <1>20, <3>1, <4>2, OneProcess DEF Procs, LookAtDeadlines
    <3>2. CASE ~(NextExpiry(g) <= now)
      <4> DEFINE o == [NoOp EXCEPT !.time = NextExpiry(g)]
      <4>1. o \in Op /\ o.kind = "none"
        BY NoOpType, NextExpiryType DEF Op
      <4>2. ProcOK(g, "wait", o)
        BY <4>1, ProcsAssumption DEF ProcOK, Working, MaintenancePc, Responses
      <4> QED BY <1>20, <3>2, <4>2, OneProcess DEF Procs, LookAtDeadlines
    <3> QED BY <3>1, <3>2
  <2>4. Locking'
    <3>1. pc[g] \notin Holding /\ mutation' = mutation /\ g \in Procs
      BY <1>20 DEF Holding, Procs, LookAtDeadlines
    <3>2. \A q \in Procs \ {g} : op'[q] = op[q] /\ pc'[q] = pc[q]
      BY <1>20 DEF Processes, LookAtDeadlines
    <3>3. pc'[g] \notin Holding
      BY <1>20, <3>1 DEF Processes, Holding, LookAtDeadlines
    <3> QED BY <3>1, <3>2, <3>3, ProcsAssumption DEF Locking, LocksOK
  <2>5. Restoring'
    BY <1>20, <2>3, ProcsAssumption DEF Restoring, Processes, ProcOK, Op, Working, CallerPc, MaintenancePc,
       ReloaderPc, Responses, Procs, LookAtDeadlines
  <2>6. Publications'
    BY <1>20, <2>3, ProcsAssumption DEF Publications, LifecycleOK, Processes, ProcOK, Working, CallerPc,
       MaintenancePc, ReloaderPc, Procs, LookAtDeadlines
  <2> QED BY <2>3, <2>2, <2>4, <2>5, <2>6

<1>21. ASSUME NEW g \in Generations,
             Wake(g)
      PROVE  Control'
  <2>0. g \in Procs /\ ProcOK(g, pc[g], op[g])
    BY DEF Processes, Procs
  <2>1. UNCHANGED <<active, fence, bpf, installed, torn, cache, owner, bound, mutation, dispatch, epoch,
                    sequence, pending, settled, now, changed, retired, served, restoring>>
    BY <1>21 DEF Wake
  <2>2. DataOK'
    BY <2>1 DEF MapOK, FlagsOK, RoutesOK, LocksOK, RevisionsOK, LifecycleOK
  <2>3. ProcOK(g, "loop", NoOp)
    BY <2>0, EndedOp, ProcsAssumption DEF Working, MaintenancePc
  <2>4. Processes'
    BY <1>21, <2>3, OneProcess DEF Procs, Wake
  <2>5. Locking'
    BY <1>21, <2>4, ProcsAssumption DEF Locking, Holding, Processes, ProcOK, Op, Working, CallerPc,
       MaintenancePc, ReloaderPc, Responses, Procs, LocksOK, Wake
  <2>6. Restoring'
    BY <1>21, <2>4, ProcsAssumption DEF Restoring, Processes, ProcOK, Op, Working, CallerPc, MaintenancePc,
       ReloaderPc, Responses, Procs, Wake
  <2>7. Publications'
    BY <1>21, <2>4, ProcsAssumption DEF Publications, LifecycleOK, Processes, ProcOK, Working, CallerPc,
       MaintenancePc, ReloaderPc, Procs, Wake
  <2> QED BY <2>4, <2>2, <2>5, <2>6, <2>7

<1>22. ASSUME NEW g \in Generations,
             StopMaintenance(g)
      PROVE  Control'
  <2>0. g \in Procs /\ ProcOK(g, pc[g], op[g])
    BY DEF Processes, Procs
  <2>1. UNCHANGED <<active, fence, bpf, installed, torn, cache, owner, bound, mutation, dispatch, epoch,
                    sequence, pending, settled>>
    BY <1>22 DEF StopMaintenance
  <2>2. LifecycleOK'
    BY <1>22 DEF LifecycleOK, StopMaintenance
  <2>3. DataOK'
    BY <2>1, <2>2 DEF MapOK, FlagsOK, RoutesOK, LocksOK, RevisionsOK
  <2>4. ProcOK(g, "stopped", NoOp)
    BY <2>0, EndedOp, ProcsAssumption DEF Working, MaintenancePc
  <2>5. Processes'
    BY <1>22, <2>4, OneProcess DEF Procs, StopMaintenance
  <2>6. Locking'
    BY <1>22, <2>5, ProcsAssumption DEF Locking, Holding, Processes, ProcOK, Op, Working, CallerPc,
       MaintenancePc, ReloaderPc, Responses, Procs, LocksOK, StopMaintenance
  <2>7. Restoring'
    BY <1>22, <2>5, ProcsAssumption DEF Restoring, Processes, ProcOK, Op, Working, CallerPc, MaintenancePc,
       ReloaderPc, Responses, Procs, StopMaintenance
  <2>8. Publications'
    BY <1>22, <2>5, ProcsAssumption DEF Publications, LifecycleOK, Processes, ProcOK, Working, CallerPc,
       MaintenancePc, ReloaderPc, Procs, StopMaintenance
  <2> QED BY <2>5, <2>3, <2>6, <2>7, <2>8

<1>23. CASE BeginSnapshot
  <2>1. UNCHANGED <<active, fence, bpf, installed, torn, cache, owner, bound, mutation, dispatch, epoch,
                    sequence, pending, settled, now, changed, retired, served, restoring>>
    BY <1>23 DEF BeginSnapshot
  <2>2. DataOK'
    BY <2>1 DEF MapOK, FlagsOK, RoutesOK, LocksOK, RevisionsOK, LifecycleOK
  <2>3. now \in 0..(MaxTime + 1) /\ Reloader \in Procs
    BY BoundsAssumption DEF LifecycleOK, Procs
  <2> DEFINE o == [NoOp EXCEPT !.g = active, !.time = now]
  <2>4. o \in Op /\ o.kind = "none" /\ o.g \in Generations
    BY <1>23, <2>3, NoOpType DEF Op, MapOK, BeginSnapshot
  <2>5. ProcOK(Reloader, "sweeping", o)
    BY <2>4, ProcsAssumption DEF ProcOK, Working, ReloaderPc, Responses
  <2>6. Processes'
    BY <1>23, <2>3, <2>5, OneProcess DEF BeginSnapshot
  <2>7. Locking'
    BY <1>23, <2>6, ProcsAssumption DEF Locking, Holding, Processes, ProcOK, Op, Working, CallerPc,
       MaintenancePc, ReloaderPc, Responses, Procs, LocksOK, BeginSnapshot
  <2>8. Restoring'
    BY <1>23, <2>6, ProcsAssumption DEF Restoring, Processes, ProcOK, Op, Working, CallerPc, MaintenancePc,
       ReloaderPc, Responses, Procs, BeginSnapshot
  <2>9. Publications'
    BY <1>23, <2>6, ProcsAssumption DEF Publications, LifecycleOK, Processes, ProcOK, Working, CallerPc,
       MaintenancePc, ReloaderPc, Procs, BeginSnapshot
  <2> QED BY <2>6, <2>2, <2>7, <2>8, <2>9

<1>24. CASE SweepForSnapshot
  <2>1. UNCHANGED <<active, fence, bpf, installed, torn, cache, owner, bound, mutation, dispatch, epoch,
                    sequence, pending, settled, now, changed, retired, served, restoring>>
    BY <1>24 DEF SweepForSnapshot
  <2>2. DataOK'
    BY <2>1 DEF MapOK, FlagsOK, RoutesOK, LocksOK, RevisionsOK, LifecycleOK
  <2>3. Reloader \in Procs /\ op[Reloader] \in Op /\ ProcOK(Reloader, pc[Reloader], op[Reloader])
    BY DEF Processes, Procs
  <2> DEFINE o == [op[Reloader] EXCEPT !.kind = "sweep"]
  <2>4. o \in Op /\ o.kind = "sweep" /\ o.g \in Generations
    BY <1>24, <2>3 DEF Op, ProcOK, SweepForSnapshot
  <2>5. ProcOK(Reloader, "admitted", o)
    BY <2>4, ProcsAssumption DEF ProcOK, Working, ReloaderPc, Responses
  <2>6. Processes'
    BY <1>24, <2>3, <2>5, OneProcess DEF SweepForSnapshot
  <2>7. Locking'
    BY <1>24, <2>6, ProcsAssumption DEF Locking, Holding, Processes, ProcOK, Op, Working, CallerPc,
       MaintenancePc, ReloaderPc, Responses, Procs, LocksOK, SweepForSnapshot
  <2>8. Restoring'
    BY <1>24, <2>6, ProcsAssumption DEF Restoring, Processes, ProcOK, Op, Working, CallerPc, MaintenancePc,
       ReloaderPc, Responses, Procs, SweepForSnapshot
  <2>9. Publications'
    BY <1>24, <2>6, ProcsAssumption DEF Publications, LifecycleOK, Processes, ProcOK, Working, CallerPc,
       MaintenancePc, ReloaderPc, Procs, SweepForSnapshot
  <2> QED BY <2>6, <2>2, <2>7, <2>8, <2>9

<1>25. CASE ReadSnapshot
  <2>1. Reloader \in Procs /\ op[Reloader] \in Op /\ ProcOK(Reloader, pc[Reloader], op[Reloader])
    BY DEF Processes, Procs
  <2>2. UNCHANGED <<active, fence, bpf, installed, torn, cache, owner, bound, mutation, dispatch, epoch,
                    sequence, pending, settled>>
    BY <1>25 DEF ReadSnapshot
  <2>3. LifecycleOK'
    <3>1. op[Reloader].g \in Generations
      BY <1>25, <2>1 DEF ProcOK, ReadSnapshot
    <3> QED BY <1>25, <3>1 DEF LifecycleOK, RoutesOK, ReadSnapshot
  <2>4. DataOK'
    BY <2>2, <2>3 DEF MapOK, FlagsOK, RoutesOK, LocksOK, RevisionsOK
  <2>5. ProcOK(Reloader, "building", NoOp)
    BY <2>1, EndedOp, ProcsAssumption DEF Working, ReloaderPc
  <2>6. Processes'
    BY <1>25, <2>1, <2>5, OneProcess DEF ReadSnapshot
  <2>7. Locking'
    BY <1>25, <2>6, ProcsAssumption DEF Locking, Holding, Processes, ProcOK, Op, Working, CallerPc,
       MaintenancePc, ReloaderPc, Responses, Procs, LocksOK, ReadSnapshot
  <2>8. Restoring'
    BY <1>25, <2>6, ProcsAssumption DEF Restoring, Processes, ProcOK, Op, Working, CallerPc, MaintenancePc,
       ReloaderPc, Responses, Procs, ReadSnapshot
  <2>9. Publications'
    BY <1>25, <2>6, ProcsAssumption DEF Publications, LifecycleOK, Processes, ProcOK, Working, CallerPc,
       MaintenancePc, ReloaderPc, Procs, ReadSnapshot
  <2> QED BY <2>6, <2>4, <2>7, <2>8, <2>9

<1>26. ASSUME NEW g \in Generations,
             Build(g)
      PROVE  Control'
  <2>0. g \in Procs /\ ProcOK(g, pc[g], op[g])
    BY DEF Processes, Procs
  <2>1. UNCHANGED <<active, fence, bpf, installed, torn, cache, owner, bound, mutation, dispatch, epoch,
                    sequence, pending, settled>>
    BY <1>26 DEF Build
  <2>2. LifecycleOK'
    <3>1. [k \in Keys |-> NoEntry] \in [Keys -> Entry]
      BY BoundsAssumption DEF Entry, NoEntry
    <3> QED BY <1>26, <3>1 DEF LifecycleOK, Build
  <2>3. DataOK'
    BY <2>1, <2>2 DEF MapOK, FlagsOK, RoutesOK, LocksOK, RevisionsOK
  <2>4. now \in 0..(MaxTime + 1) /\ Reloader \in Procs
    BY BoundsAssumption DEF LifecycleOK, Procs
  <2> DEFINE o == [NoOp EXCEPT !.g = g, !.time = now]
  <2>5. o \in Op /\ o.kind = "none" /\ o.g = g
    BY <1>26, <2>4, NoOpType DEF Op
  <2>6. ProcOK(Reloader, "restoring", o)
    BY <2>5, ProcsAssumption DEF ProcOK, Working, ReloaderPc, Responses
  <2>7. Processes'
    BY <1>26, <2>4, <2>6, OneProcess DEF Build
  <2>8. Locking'
    BY <1>26, <2>7, ProcsAssumption DEF Locking, Holding, Processes, ProcOK, Op, Working, CallerPc,
       MaintenancePc, ReloaderPc, Responses, Procs, LocksOK, Build
  <2>9. Restoring'
    BY <1>26, <2>7, ProcsAssumption DEF Restoring, Processes, ProcOK, Op, Working, CallerPc, MaintenancePc,
       ReloaderPc, Responses, Procs, Build
  <2>10. Publications'
    BY <1>26, <2>7, ProcsAssumption DEF Publications, LifecycleOK, Processes, ProcOK, Working, CallerPc,
       MaintenancePc, ReloaderPc, Procs, Build
  <2> QED BY <2>7, <2>3, <2>8, <2>9, <2>10

<1>27. ASSUME NEW k \in Keys,
             RestoreEntry(k)
      PROVE  Control'
  <2>1. Reloader \in Procs /\ op[Reloader] \in Op /\ ProcOK(Reloader, pc[Reloader], op[Reloader])
    BY DEF Processes, Procs
  <2>2. op[Reloader].g \in Generations
    BY <1>27, <2>1 DEF ProcOK, RestoreEntry, BeginRevision
  <2>3. UNCHANGED <<active, fence, bpf, installed, torn, cache, owner, bound, mutation, dispatch>>
    BY <1>27 DEF RestoreEntry, BeginRevision
  <2>4. LifecycleOK'
    BY <1>27, EntryType, BoundsAssumption DEF LifecycleOK, Entry, NoEntry, RestoreEntry, BeginRevision
  <2>5. RevisionsOK'
    <3>1. CASE BeginRevision(op[Reloader].g, k)
      BY <1>27, <2>2, <3>1, BeginType DEF RestoreEntry
    <3>2. CASE ~BeginRevision(op[Reloader].g, k)
      BY <1>27, <2>2, <3>2 DEF RevisionsOK, RestoreEntry
    <3> QED BY <3>1, <3>2
  <2>6. DataOK'
    BY <2>3, <2>4, <2>5 DEF MapOK, FlagsOK, RoutesOK, LocksOK
  <2>7. Processes'
    <3> DEFINE g == op[Reloader].g
               o == [op[Reloader] EXCEPT !.kind = "restore", !.key = k, !.ips = restoring[k].ips,
                                  !.deadline = restoring[k].deadline, !.rev = NextRevision(g)]
    <3>1. NextRevision(g) \in Revision
      BY <2>2, NextRevisionType
    <3>2. restoring[k].ips \in SUBSET Ips /\ restoring[k].deadline \in 0..MaxTime
      BY DEF LifecycleOK, Entry
    <3>3. o \in Op /\ o.kind = "restore" /\ o.key = k /\ o.g = g
      BY <2>1, <3>1, <3>2 DEF Op
    <3>4. ProcOK(Reloader, "admitted", o)
      BY <2>2, <3>3, ProcsAssumption DEF ProcOK, Working, ReloaderPc, Responses
    <3>5. UNCHANGED <<pc, op>> \/ Start(Reloader, o, "admitted")
      BY <1>27, Zenon DEF RestoreEntry
    <3> HIDE DEF o
    <3>6. CASE UNCHANGED <<pc, op>>
      BY <3>6 DEF Processes
    <3>7. CASE Start(Reloader, o, "admitted")
      BY <2>1, <3>4, <3>7, OneProcess
    <3> QED BY <3>5, <3>6, <3>7
  <2>8. Locking'
    BY <1>27, <2>7, ProcsAssumption DEF Locking, Holding, Processes, ProcOK, Op, Working, CallerPc,
       MaintenancePc, ReloaderPc, Responses, Procs, LocksOK, RestoreEntry, BeginRevision
  <2>9. Restoring'
    <3>1. CASE UNCHANGED <<pc, op>>
      BY <3>1 DEF Restoring
    <3>2. CASE ~UNCHANGED <<pc, op>>
      <4>1. pc[op[Reloader].g] = "off" /\ op[Reloader].g # Reloader /\ op[Reloader].g \in Procs
        BY <1>27, <2>2, ProcsAssumption DEF Restoring, Procs, RestoreEntry
      <4>2. PICK o : op' = [op EXCEPT ![Reloader] = o] /\ o.g = op[Reloader].g
        BY <1>27, <2>1, <3>2 DEF RestoreEntry, Op
      <4>3. pc' = [pc EXCEPT ![Reloader] = "admitted"]
        BY <1>27, <3>2, Zenon DEF RestoreEntry, Start
      <4> QED BY <2>1, <4>1, <4>2, <4>3 DEF Restoring, Processes
    <3> QED BY <3>1, <3>2
  <2>10. Publications'
    BY <1>27, <2>7, ProcsAssumption DEF Publications, LifecycleOK, Processes, ProcOK, Working, CallerPc,
       MaintenancePc, ReloaderPc, Procs, RestoreEntry, BeginRevision
  <2> QED BY <2>7, <2>6, <2>8, <2>9, <2>10

<1>28. CASE StartMaintenance
  <2>1. Reloader \in Procs /\ op[Reloader] \in Op /\ ProcOK(Reloader, pc[Reloader], op[Reloader])
    BY DEF Processes, Procs
  <2>2. UNCHANGED <<active, fence, bpf, installed, torn, cache, owner, bound, mutation, dispatch, epoch,
                    sequence, pending, settled, now, changed, retired, served, restoring>>
    BY <1>28 DEF StartMaintenance
  <2>3. DataOK'
    BY <2>2 DEF MapOK, FlagsOK, RoutesOK, LocksOK, RevisionsOK, LifecycleOK
  <2>4. op[Reloader].g \in Generations /\ pc[op[Reloader].g] = "off"
    BY <1>28, <2>1 DEF ProcOK, Restoring, StartMaintenance
  <2> DEFINE g == op[Reloader].g
  <2>5. g \in Procs /\ g # Reloader /\ ProcOK(g, "off", op[g])
    BY <2>4, ProcsAssumption DEF Processes, Procs
  <2>6. ProcOK(g, "loop", op[g])
    BY <2>4, <2>5, ProcsAssumption DEF ProcOK, Working, MaintenancePc, Responses
  <2>7. ProcOK(Reloader, "built", op[Reloader])
    BY <1>28, <2>1, <2>4, ProcsAssumption DEF ProcOK, Working, ReloaderPc, Responses, StartMaintenance
  <2>8. "loop" \in Places /\ "built" \in Places
    BY DEF Places, MaintenancePc, ReloaderPc
  <2>9. pc' = [pc EXCEPT ![Reloader] = "built", ![g] = "loop"] /\ op' = op
    BY <1>28 DEF StartMaintenance
  <2> HIDE DEF g
  <2>10. Processes'
    BY <2>1, <2>5, <2>6, <2>7, <2>8, <2>9 DEF Processes
  <2>11. Locking'
    BY <1>28, <2>10, ProcsAssumption DEF Locking, Holding, Processes, ProcOK, Op, Working, CallerPc,
       MaintenancePc, ReloaderPc, Responses, Procs, LocksOK, StartMaintenance
  <2>12. Restoring'
    BY <1>28, <2>10, ProcsAssumption DEF Restoring, Processes, ProcOK, Op, Working, CallerPc, MaintenancePc,
       ReloaderPc, Responses, Procs, StartMaintenance
  <2>13. Publications'
    <3>1. UNCHANGED <<active, served, retired>> /\ g \notin served
      BY <1>28, <2>4 DEF Publications, StartMaintenance, g
    <3>2. op'[Reloader].g = g /\ pc'[g] = "loop"
      BY <2>5, <2>9 DEF Processes, g
    <3>3. \A h \in Generations : pc'[h] = "off" => pc[h] = "off"
      BY <2>9, <2>5 DEF Processes, Procs
    <3> QED BY <3>1, <3>2, <3>3 DEF Publications
  <2> QED BY <2>10, <2>3, <2>11, <2>12, <2>13

<1>29. ASSUME NEW g \in Generations,
             Activate(g)
      PROVE  Control'
  <2>0. g \in Procs /\ ProcOK(g, pc[g], op[g])
    BY DEF Processes, Procs
  <2>1. Reloader \in Procs /\ op[Reloader] \in Op /\ ProcOK(Reloader, pc[Reloader], op[Reloader])
    BY DEF Processes, Procs
  <2>2. UNCHANGED <<cache, owner, bound, mutation, dispatch, epoch, sequence, pending, settled>>
    BY <1>29 DEF Activate, Switch, RejectSwitch
  <2>3. MapOK'
    <3>1. CASE Switch(g)
      <4>1. owner[g] \in Tracker
        BY DEF RoutesOK
      <4>2. MapSwitched(g) \in [Ips -> SUBSET Rules]
        BY <4>1, WrittenType DEF MapOK, MapSwitched, Tracker
      <4> QED BY <3>1, <4>1, <4>2 DEF Switch, MapOK
    <3>2. CASE RejectSwitch(g)
      <4>1. owner[g] \in Tracker
        BY DEF RoutesOK
      <4>2. MapSwitched(g) \in [Ips -> SUBSET Rules]
        BY <4>1, WrittenType DEF MapOK, MapSwitched, Tracker
      <4>3. bpf' \in [Ips -> SUBSET Rules]
        BY <3>2, <4>2, PartType, Zenon DEF RejectSwitch, MapOK
      <4> QED BY <3>2, <4>3 DEF RejectSwitch, MapOK
    <3> QED BY <1>29, <3>1, <3>2 DEF Activate, Switch, RejectSwitch
  <2>4. FlagsOK'
    <3>1. CASE Switch(g)
      BY <3>1, Zenon DEF Switch, FlagsOK
    <3>2. CASE RejectSwitch(g)
      BY <3>2, Zenon DEF RejectSwitch, FlagsOK
    <3> QED BY <1>29, <3>1, <3>2 DEF Activate, Switch, RejectSwitch
  <2>5. LifecycleOK'
    BY <1>29 DEF LifecycleOK, MapOK, Publications, Activate, Switch, RejectSwitch
  <2>6. DataOK'
    BY <2>2, <2>3, <2>4, <2>5 DEF RoutesOK, LocksOK, RevisionsOK
  <2>7. ProcOK(Reloader, "idle", NoOp)
    BY <2>1, EndedOp, ProcsAssumption DEF Working, ReloaderPc
  <2>8. Processes'
    BY <1>29, <2>1, <2>7, OneProcess DEF Activate, Switch, RejectSwitch
  <2>9. Locking'
    BY <1>29, <2>8, ProcsAssumption DEF Locking, Holding, Processes, ProcOK, Op, Working, CallerPc,
       MaintenancePc, ReloaderPc, Responses, Procs, LocksOK, Activate, Switch, RejectSwitch
  <2>10. Restoring'
    BY <1>29, <2>8, ProcsAssumption DEF Restoring, Processes, ProcOK, Op, Working, CallerPc, MaintenancePc,
       ReloaderPc, Responses, Procs, Activate, Switch, RejectSwitch
  <2>11. Publications'
    <3>0. g \notin served /\ g # Reloader /\ g # None
      BY <1>29, ProcsAssumption DEF Publications, Activate, Procs
    <3>1. pc'[Reloader] = "idle" /\ \A h \in Generations : pc'[h] = pc[h]
      BY <1>29, ProcsAssumption DEF Processes, Procs, Activate
    <3>2. pc[g] # "off"
      BY <1>29 DEF Publications, Activate
    <3>3. CASE Switch(g) /\ served' = served \union {g} /\ retired' = retired \union ({active} \ {None})
      BY <3>0, <3>1, <3>2, <3>3 DEF Switch, Publications, LifecycleOK
    <3>4. CASE RejectSwitch(g) /\ UNCHANGED lifecycle
      BY <3>1, <3>4 DEF RejectSwitch, Publications
    <3> QED BY <1>29, <3>3, <3>4 DEF Activate
  <2> QED BY <2>8, <2>6, <2>9, <2>10, <2>11

<1>30. ASSUME NEW g \in Generations,
             Reactivate(g)
      PROVE  Control'
  <2>1. UNCHANGED <<cache, owner, bound, mutation, dispatch, epoch, sequence, pending, settled>>
    BY <1>30 DEF Reactivate, Switch, RejectSwitch
  <2>2. MapOK'
    <3>1. CASE Switch(g)
      <4>1. owner[g] \in Tracker
        BY DEF RoutesOK
      <4>2. MapSwitched(g) \in [Ips -> SUBSET Rules]
        BY <4>1, WrittenType DEF MapOK, MapSwitched, Tracker
      <4> QED BY <3>1, <4>1, <4>2 DEF Switch, MapOK
    <3>2. CASE RejectSwitch(g)
      <4>1. owner[g] \in Tracker
        BY DEF RoutesOK
      <4>2. MapSwitched(g) \in [Ips -> SUBSET Rules]
        BY <4>1, WrittenType DEF MapOK, MapSwitched, Tracker
      <4>3. bpf' \in [Ips -> SUBSET Rules]
        BY <3>2, <4>2, PartType, Zenon DEF RejectSwitch, MapOK
      <4> QED BY <3>2, <4>3 DEF RejectSwitch, MapOK
    <3> QED BY <1>30, <3>1, <3>2 DEF Reactivate, Switch, RejectSwitch
  <2>3. FlagsOK'
    <3>1. CASE Switch(g)
      BY <3>1, Zenon DEF Switch, FlagsOK
    <3>2. CASE RejectSwitch(g)
      BY <3>2, Zenon DEF RejectSwitch, FlagsOK
    <3> QED BY <1>30, <3>1, <3>2 DEF Reactivate, Switch, RejectSwitch
  <2>4. LifecycleOK'
    <3>1. CASE Switch(g) /\ served' = served \ {active}
      BY <1>30, <3>1, ProcsAssumption DEF LifecycleOK, Publications, Reactivate, Procs
    <3>2. CASE UNCHANGED served
      BY <1>30, <3>2 DEF LifecycleOK, Reactivate
    <3> QED BY <1>30, <3>1, <3>2 DEF Reactivate
  <2>5. DataOK'
    BY <2>1, <2>2, <2>3, <2>4 DEF RoutesOK, LocksOK, RevisionsOK
  <2>6. Processes'
    BY <1>30 DEF Processes, Reactivate, Switch, RejectSwitch
  <2>7. Locking'
    BY <1>30, <2>6, ProcsAssumption DEF Locking, Holding, Processes, ProcOK, Op, Working, CallerPc,
       MaintenancePc, ReloaderPc, Responses, Procs, LocksOK, Reactivate, Switch, RejectSwitch
  <2>8. Restoring'
    BY <1>30, <2>6, ProcsAssumption DEF Restoring, Processes, ProcOK, Op, Working, CallerPc, MaintenancePc,
       ReloaderPc, Responses, Procs, Reactivate, Switch, RejectSwitch
  <2>9. Publications'
    BY <1>30, <2>6, ProcsAssumption DEF Publications, LifecycleOK, Processes, ProcOK, Working, CallerPc,
       MaintenancePc, ReloaderPc, Procs, Reactivate, Switch, RejectSwitch
  <2> QED BY <2>6, <2>5, <2>7, <2>8, <2>9

<1>31. CASE Clear
  <2>1. Reloader \in Procs /\ op[Reloader] \in Op /\ ProcOK(Reloader, pc[Reloader], op[Reloader])
    BY DEF Processes, Procs
  <2>2. UNCHANGED <<installed, torn, cache, owner, bound, mutation, dispatch, epoch, sequence, pending,
                    settled, now, changed, retired, served, restoring>>
    BY <1>31 DEF Clear
  <2>3. MapOK'
    BY <1>31 DEF MapOK, Clear
  <2>4. DataOK'
    BY <2>2, <2>3 DEF FlagsOK, RoutesOK, LocksOK, RevisionsOK, LifecycleOK
  <2>5. ProcOK(Reloader, "stopped", op[Reloader])
    BY <1>31, <2>1, ProcsAssumption DEF ProcOK, Working, ReloaderPc, Responses, Clear
  <2>6. Processes'
    BY <1>31, <2>1, <2>5, OneMoves DEF Clear
  <2>7. Locking'
    BY <1>31, <2>6, ProcsAssumption DEF Locking, Holding, Processes, ProcOK, Op, Working, CallerPc,
       MaintenancePc, ReloaderPc, Responses, Procs, LocksOK, Clear
  <2>8. Restoring'
    BY <1>31, <2>6, ProcsAssumption DEF Restoring, Processes, ProcOK, Op, Working, CallerPc, MaintenancePc,
       ReloaderPc, Responses, Procs, Clear
  <2>9. Publications'
    BY <1>31, <2>6, ProcsAssumption DEF Publications, LifecycleOK, Processes, ProcOK, Working, CallerPc,
       MaintenancePc, ReloaderPc, Procs, Clear
  <2> QED BY <2>6, <2>4, <2>7, <2>8, <2>9

<1>32. CASE UNCHANGED vars
  BY <1>32 DEF vars, MapOK, FlagsOK, RoutesOK, LocksOK, RevisionsOK, LifecycleOK, Processes, Locking,
     Restoring, Publications

<1> QED
  BY <1>1, <1>2, <1>3, <1>4, <1>5, <1>6, <1>7, <1>8, <1>9, <1>10, <1>11, <1>12, <1>13, <1>14, <1>15, <1>16,
     <1>17, <1>18, <1>19, <1>20, <1>21, <1>22, <1>23, <1>24, <1>25, <1>26, <1>27, <1>28, <1>29, <1>30, <1>31,
         <1>32, StepCases
-----------------------------------------------------------------------------
(* Responses and their revisions *)

SameToken(o, n) ==
    /\ n.kind \in Responses <=> o.kind \in Responses
    /\ o.kind \in Responses => n.g = o.g /\ n.key = o.key /\ n.rev = o.rev

\* The steps by what they do to the responses under way.  Most leave them alone: at most, one enters its
\* transaction.
Calm ==
    /\ UNCHANGED <<epoch, pending, settled>>
    /\ \A g \in Generations : sequence'[g] >= sequence[g]
    /\ \A q \in Procs :
          /\ SameToken(op[q], op'[q])
          /\ pc'[q] = "stored" <=> pc[q] = "stored"
          /\ pc'[q] \in Open /\ op[q].kind \in Responses =>
                pc[q] \in Open \/ (CanCommit(op[q]) /\ mutation[op[q].g] = None)

\* One begins ...
Begins(p, g, k) ==
    /\ BeginRevision(g, k) /\ UNCHANGED settled
    /\ op[p].kind \notin Responses
    /\ op'[p].kind \in Responses /\ op'[p].g = g /\ op'[p].key = k /\ op'[p].rev = NextRevision(g)
    /\ pc[p] \notin Open \union {"stored"} /\ pc'[p] \notin Open \union {"stored"}
    /\ \A q \in Procs \ {p} : op'[q] = op[q] /\ pc'[q] = pc[q]

\* ... or ends, or something else does.
Drops(p) ==
    /\ DropRevision(op[p]) /\ UNCHANGED settled
    /\ op'[p].kind = "none"
    /\ pc[p] # "stored" /\ pc'[p] \notin Open \union {"stored"}
    /\ \A q \in Procs \ {p} :
          /\ op'[q] = op[q]
          /\ pc'[q] = "stored" <=> pc[q] = "stored"
          /\ pc'[q] \in Open => pc[q] \in Open

\* A step of p alone that keeps its token.
LEMMA CalmMove ==
  ASSUME Processes, RevisionsOK, NEW p \in Procs, NEW l, NEW o, UNCHANGED <<epoch, sequence, pending, settled>>,
         pc' = [pc EXCEPT ![p] = l], op' = [op EXCEPT ![p] = o] \/ (op' = op /\ o = op[p]),
         SameToken(op[p], o), l = "stored" <=> pc[p] = "stored",
         l \in Open /\ op[p].kind \in Responses =>
             pc[p] \in Open \/ (CanCommit(op[p]) /\ mutation[op[p].g] = None)
  PROVE  Calm
<1>1. op'[p] = o /\ pc'[p] = l /\ \A q \in Procs \ {p} : op'[q] = op[q] /\ pc'[q] = pc[q]
  BY DEF Processes
<1>2. \A q \in Procs : SameToken(op[q], op[q])
  BY DEF SameToken
<1>3. \A g \in Generations : sequence'[g] >= sequence[g]
  BY DEF RevisionsOK
<1> QED BY <1>1, <1>2, <1>3 DEF Calm

\* A step that touches no process and no revision.
LEMMA CalmStutter ==
  ASSUME RevisionsOK, UNCHANGED <<epoch, sequence, pending, settled, pc, op>>
  PROVE  Calm
<1>1. \A q \in Procs : SameToken(op[q], op'[q])
  BY DEF SameToken
<1>2. \A g \in Generations : sequence'[g] >= sequence[g]
  BY DEF RevisionsOK
<1> QED BY <1>1, <1>2 DEF Calm

\* Every step is calm, begins or drops a token, stores, commits, or loses the table.
LEMMA RevisionSteps ==
  ASSUME Control, [Next]_vars
  PROVE  \/ Calm
         \/ \E p \in Procs, g \in Generations, k \in Keys : Begins(p, g, k)
         \/ \E p \in Procs : Drops(p) \/ StoreRecord(p) \/ StoreRemove(p) \/ Commit(p)
         \/ \E g \in Generations : PoisonRevisions(g)
<1> DEFINE Goal == \/ Calm
                   \/ \E p \in Procs, g \in Generations, k \in Keys : Begins(p, g, k)
                   \/ \E p \in Procs : Drops(p) \/ StoreRecord(p) \/ StoreRemove(p) \/ Commit(p)
                   \/ \E g \in Generations : PoisonRevisions(g)
<1> USE DEF Control, DataOK, Start
<1>0. Generations \subseteq Procs /\ Callers \subseteq Procs /\ Reloader \in Procs
  BY DEF Procs

<1>1. ASSUME Tick PROVE Goal
  BY <1>1, CalmStutter DEF Tick

<1>2. ASSUME NEW g \in Generations,
             PoisonRevisions(g)
      PROVE  Goal
  BY <1>2

<1>3. ASSUME NEW p \in Callers, NEW g \in Generations, NEW k \in Keys, NEW ips \in SUBSET Ips,
             NEW deadline \in now..MaxTime,
             Record(p, g, k, ips, deadline)
      PROVE  Goal
  <2>0. p \in Procs /\ ProcOK(p, pc[p], op[p])
    BY <1>0 DEF Processes
  <2>1. op[p].kind \notin Responses
    BY <1>3, <2>0 DEF ProcOK, Working, Responses, Record
  <2> DEFINE o == [NoOp EXCEPT !.kind = "record", !.g = g, !.key = k, !.ips = ips,
                               !.deadline = deadline, !.rev = NextRevision(g)]
  <2>2. o.kind \in Responses /\ o.g = g /\ o.key = k /\ o.rev = NextRevision(g)
    BY NoOpType DEF Op, Responses
  <2>3. op' = [op EXCEPT ![p] = o] /\ pc' = [pc EXCEPT ![p] = "queued"] /\ pc[p] = "idle"
    BY <1>3 DEF Record
  <2> HIDE DEF o
  <2>4. Begins(p, g, k)
    BY <1>3, <2>0, <2>1, <2>2, <2>3 DEF Begins, Open, Processes, Record
  <2> QED BY <2>0, <2>4

<1>4. ASSUME NEW p \in Callers, NEW g \in Generations, NEW k \in Keys,
             Remove(p, g, k)
      PROVE  Goal
  <2>0. p \in Procs /\ ProcOK(p, pc[p], op[p])
    BY <1>0 DEF Processes
  <2> DEFINE o == [NoOp EXCEPT !.kind = "remove", !.g = g, !.key = k]
  <2>1. SameToken(op[p], o) /\ pc[p] # "stored"
    BY <1>4, <2>0, NoOpType DEF ProcOK, Working, Responses, SameToken, Op, Remove
  <2> QED BY <1>4, <2>0, <2>1, CalmMove DEF Open, Remove

<1>5. ASSUME NEW p \in Callers,
             Abandon(p)
      PROVE  Goal
  <2>0. p \in Procs /\ ProcOK(p, pc[p], op[p])
    BY <1>0 DEF Processes
  <2>1. Drops(p)
    BY <1>5, <2>0, NoOpType DEF Drops, Open, Processes, Abandon
  <2> QED BY <2>0, <2>1

<1>6. ASSUME NEW p \in Callers,
             CancelledBeforeCommit(p)
      PROVE  Goal
  <2>0. p \in Procs /\ ProcOK(p, pc[p], op[p])
    BY <1>0 DEF Processes
  <2>1. SameToken(op[p], op[p]) /\ pc[p] # "stored"
    BY <1>6, <2>0 DEF ProcOK, Working, Responses, SameToken, Op, Open, CancelledBeforeCommit
  <2> QED BY <1>6, <2>0, <2>1, CalmMove DEF Open, CancelledBeforeCommit

<1>7. ASSUME NEW p \in Procs,
             Admit(p)
      PROVE  Goal
  <2>0. p \in Procs /\ ProcOK(p, pc[p], op[p])
    BY <1>0 DEF Processes
  <2> DEFINE o == IF op[p].kind = "sweep" THEN [op[p] EXCEPT !.time = now] ELSE op[p]
  <2>1. SameToken(op[p], o) /\ pc[p] # "stored"
    BY <1>7, <2>0 DEF ProcOK, Working, Responses, SameToken, Op, Open, Admit
  <2> QED BY <1>7, <2>0, <2>1, CalmMove DEF Open, Admit

<1>8. ASSUME NEW p \in Procs,
             StageRecord(p)
      PROVE  Goal
  <2>0. p \in Procs /\ ProcOK(p, pc[p], op[p])
    BY <1>0 DEF Processes
  <2>1. \/ Start(p, op[p], "ending")
        \/ Start(p, op[p], "applied") /\ CanCommit(op[p])
        \/ (\E d, e : Start(p, [op[p] EXCEPT !.doomed = d, !.events = e], "staged")) /\ CanCommit(op[p])
    BY <1>8, Zenon DEF StageRecord
  <2>2. UNCHANGED <<epoch, sequence, pending, settled>> /\ mutation[op[p].g] = None /\ pc[p] = "admitted"
    BY <1>8 DEF StageRecord, Lock
  <2>3. SameToken(op[p], op[p])
    BY DEF SameToken
  <2>4. CASE Start(p, op[p], "ending") \/ (Start(p, op[p], "applied") /\ CanCommit(op[p]))
    BY <2>0, <2>2, <2>3, <2>4, CalmMove DEF Open
  <2>5. ASSUME NEW d, NEW e, Start(p, [op[p] EXCEPT !.doomed = d, !.events = e], "staged"), CanCommit(op[p])
        PROVE  Calm
    <3> DEFINE o == [op[p] EXCEPT !.doomed = d, !.events = e]
    <3>1. SameToken(op[p], o)
      BY <2>0 DEF ProcOK, Op, SameToken
    <3> HIDE DEF o
    <3>2. op' = [op EXCEPT ![p] = o] /\ pc' = [pc EXCEPT ![p] = "staged"]
      BY <2>5 DEF o
    <3> QED BY <2>0, <2>2, <2>5, <3>1, <3>2, CalmMove DEF Open
  <2> QED BY <2>1, <2>4, <2>5

<1>9. ASSUME NEW p \in Procs,
             StageRemove(p)
      PROVE  Goal
  <2>0. p \in Procs /\ ProcOK(p, pc[p], op[p])
    BY <1>0 DEF Processes
  <2>1. \/ Start(p, op[p], "ending")
        \/ Start(p, op[p], "applied") /\ op[p].kind \notin Responses
        \/ (\E d, e : Start(p, [op[p] EXCEPT !.doomed = d, !.events = e],
         "staged")) /\ op[p].kind \notin Responses
    <3>1. op[p].kind \notin Responses
      BY <1>9 DEF StageRemove, Responses
    <3> QED BY <1>9, <3>1, Zenon DEF StageRemove
  <2>2. UNCHANGED <<epoch, sequence, pending, settled>> /\ mutation[op[p].g] = None /\ pc[p] = "admitted"
    BY <1>9 DEF StageRemove, Lock
  <2>3. SameToken(op[p], op[p])
    BY DEF SameToken
  <2>4. CASE Start(p, op[p], "ending") \/ (Start(p, op[p], "applied") /\ op[p].kind \notin Responses)
    BY <2>0, <2>2, <2>3, <2>4, CalmMove DEF Open
  <2>5. ASSUME NEW d, NEW e, Start(p, [op[p] EXCEPT !.doomed = d, !.events = e], "staged"),
               op[p].kind \notin Responses
        PROVE  Calm
    <3> DEFINE o == [op[p] EXCEPT !.doomed = d, !.events = e]
    <3>1. SameToken(op[p], o)
      BY <2>0 DEF ProcOK, Op, SameToken
    <3> HIDE DEF o
    <3>2. op' = [op EXCEPT ![p] = o] /\ pc' = [pc EXCEPT ![p] = "staged"]
      BY <2>5 DEF o
    <3> QED BY <2>0, <2>2, <2>5, <3>1, <3>2, CalmMove DEF Open
  <2> QED BY <2>1, <2>4, <2>5

<1>10. ASSUME NEW p \in Procs,
             StageSweep(p)
      PROVE  Goal
  <2>0. p \in Procs /\ ProcOK(p, pc[p], op[p])
    BY <1>0 DEF Processes
  <2>1. \/ Start(p, op[p], "ending")
        \/ Start(p, op[p], "applied") /\ op[p].kind \notin Responses
        \/ (\E d, e : Start(p, [op[p] EXCEPT !.doomed = d, !.events = e],
         "staged")) /\ op[p].kind \notin Responses
    <3>1. op[p].kind \notin Responses
      BY <1>10 DEF StageSweep, Responses
    <3> QED BY <1>10, <3>1, Zenon DEF StageSweep
  <2>2. UNCHANGED <<epoch, sequence, pending, settled>> /\ mutation[op[p].g] = None /\ pc[p] = "admitted"
    BY <1>10 DEF StageSweep, Lock
  <2>3. SameToken(op[p], op[p])
    BY DEF SameToken
  <2>4. CASE Start(p, op[p], "ending") \/ (Start(p, op[p], "applied") /\ op[p].kind \notin Responses)
    BY <2>0, <2>2, <2>3, <2>4, CalmMove DEF Open
  <2>5. ASSUME NEW d, NEW e, Start(p, [op[p] EXCEPT !.doomed = d, !.events = e], "staged"),
               op[p].kind \notin Responses
        PROVE  Calm
    <3> DEFINE o == [op[p] EXCEPT !.doomed = d, !.events = e]
    <3>1. SameToken(op[p], o)
      BY <2>0 DEF ProcOK, Op, SameToken
    <3> HIDE DEF o
    <3>2. op' = [op EXCEPT ![p] = o] /\ pc' = [pc EXCEPT ![p] = "staged"]
      BY <2>5 DEF o
    <3> QED BY <2>0, <2>2, <2>5, <3>1, <3>2, CalmMove DEF Open
  <2> QED BY <2>1, <2>4, <2>5

<1>11. ASSUME NEW p \in Procs,
             TransactInMemory(p)
      PROVE  Goal
  <2>0. p \in Procs /\ ProcOK(p, pc[p], op[p])
    BY <1>0 DEF Processes
  <2>1. SameToken(op[p], op[p]) /\ pc[p] # "stored"
    BY <1>11, <2>0 DEF ProcOK, Working, Responses, SameToken, Op, Open, TransactInMemory
  <2> QED BY <1>11, <2>0, <2>1, CalmMove DEF Open, TransactInMemory

<1>12. ASSUME NEW p \in Procs,
             Transact(p)
      PROVE  Goal
  <2>0. p \in Procs /\ ProcOK(p, pc[p], op[p])
    BY <1>0 DEF Processes
  <2>1. SameToken(op[p], op[p]) /\ pc[p] # "stored"
    BY <1>12, <2>0 DEF ProcOK, Working, Responses, SameToken, Op, Open, Transact
  <2> QED BY <1>12, <2>0, <2>1, CalmMove DEF Open, Transact

<1>13. ASSUME NEW p \in Procs,
             RejectTransaction(p)
      PROVE  Goal
  <2>0. p \in Procs /\ ProcOK(p, pc[p], op[p])
    BY <1>0 DEF Processes
  <2>1. SameToken(op[p], op[p]) /\ pc[p] # "stored"
    BY <1>13, <2>0 DEF ProcOK, Working, Responses, SameToken, Op, Open, RejectTransaction
  <2> QED BY <1>13, <2>0, <2>1, CalmMove DEF Open, RejectTransaction

<1>14. ASSUME NEW p \in Procs,
             StoreRecord(p)
      PROVE  Goal
  BY <1>14

<1>15. ASSUME NEW p \in Procs,
             StoreRemove(p)
      PROVE  Goal
  BY <1>15

<1>16. ASSUME NEW p \in Procs,
             StoreSweep(p)
      PROVE  Goal
  <2>0. p \in Procs /\ ProcOK(p, pc[p], op[p])
    BY <1>0 DEF Processes
  <2>1. SameToken(op[p], op[p]) /\ pc[p] # "stored"
    BY <1>16, <2>0 DEF ProcOK, Working, Responses, SameToken, Op, Open, StoreSweep
  <2> QED BY <1>16, <2>0, <2>1, CalmMove DEF Open, StoreSweep

<1>17. ASSUME NEW p \in Procs,
             Commit(p)
      PROVE  Goal
  BY <1>17

<1>18. ASSUME NEW p \in Procs,
             End(p)
      PROVE  Goal
  <2>1. DropRevision(op[p]) /\ UNCHANGED settled /\ pc[p] # "stored"
    BY <1>18 DEF End
  <2>2. /\ \A q \in Procs \ {p} :
               /\ op'[q] = op[q]
               /\ \/ pc'[q] = pc[q]
                  \/ /\ pc'[q] = "stopped" /\ p = Reloader /\ op[p].kind = "restore" /\ q = op[p].g
        /\ pc'[p] \in {"idle", "wait", "loop", "sweeping", "restoring"}
        /\ op'[p].kind = "none"
    BY <1>18, ResumeEffect DEF End
  <2>3. p = Reloader /\ op[p].kind = "restore" => pc[op[p].g] = "off"
    BY DEF Restoring
  <2>4. Drops(p)
    BY <2>1, <2>2, <2>3 DEF Drops, Open
  <2> QED BY <2>4

<1>19. ASSUME NEW g \in Generations,
             ReadSignal(g)
      PROVE  Goal
  <2>0. g \in Procs /\ ProcOK(g, pc[g], op[g])
    BY <1>0 DEF Processes
  <2>1. SameToken(op[g], op[g]) /\ pc[g] # "stored"
    BY <1>19, <2>0 DEF ProcOK, Working, Responses, SameToken, Op, Open, ReadSignal
  <2> QED BY <1>19, <2>0, <2>1, CalmMove DEF Open, ReadSignal

<1>20. ASSUME NEW g \in Generations,
             LookAtDeadlines(g)
      PROVE  Goal
  <2>0. g \in Procs /\ ProcOK(g, pc[g], op[g])
    BY <1>0 DEF Processes
  <2>1. op[g].kind \notin Responses /\ pc[g] = "look"
    BY <1>20, <2>0 DEF LookAtDeadlines, ProcOK, Working, Responses
  <2>2. CASE NextExpiry(g) <= now
    <3> DEFINE o == [NoOp EXCEPT !.kind = "sweep", !.g = g]
    <3>1. SameToken(op[g], o)
      BY <2>1, NoOpType DEF SameToken, Op, Responses
    <3> QED BY <1>20, <2>0, <2>1, <2>2, <3>1, CalmMove DEF Open, LookAtDeadlines
  <2>3. CASE ~(NextExpiry(g) <= now)
    <3> DEFINE o == [NoOp EXCEPT !.time = NextExpiry(g)]
    <3>1. SameToken(op[g], o)
      BY <2>1, NoOpType DEF SameToken, Op, Responses
    <3> QED BY <1>20, <2>0, <2>1, <2>3, <3>1, CalmMove DEF Open, LookAtDeadlines
  <2> QED BY <2>2, <2>3

<1>21. ASSUME NEW g \in Generations,
             Wake(g)
      PROVE  Goal
  <2>0. g \in Procs /\ ProcOK(g, pc[g], op[g])
    BY <1>0 DEF Processes
  <2>1. SameToken(op[g], NoOp) /\ pc[g] # "stored"
    BY <1>21, <2>0, NoOpType DEF ProcOK, Working, Responses, SameToken, Op, Wake
  <2> QED BY <1>21, <2>0, <2>1, CalmMove DEF Open, Wake

<1>22. ASSUME NEW g \in Generations,
             StopMaintenance(g)
      PROVE  Goal
  <2>0. g \in Procs /\ ProcOK(g, pc[g], op[g])
    BY <1>0 DEF Processes
  <2>1. SameToken(op[g], NoOp) /\ pc[g] # "stored"
    BY <1>22, <2>0, NoOpType DEF ProcOK, Working, Responses, SameToken, Op, StopMaintenance
  <2> QED BY <1>22, <2>0, <2>1, CalmMove DEF Open, StopMaintenance

<1>23. ASSUME BeginSnapshot PROVE Goal
  <2>0. Reloader \in Procs /\ op[Reloader] \in Op /\ ProcOK(Reloader, pc[Reloader], op[Reloader])
    BY <1>0 DEF Processes
  <2> DEFINE o == [NoOp EXCEPT !.g = active, !.time = now]
  <2>1. SameToken(op[Reloader], o) /\ pc[Reloader] # "stored"
    BY <1>23, <2>0, NoOpType DEF ProcOK, Working, Responses, SameToken, Op, BeginSnapshot
  <2> QED BY <1>23, <2>0, <2>1, CalmMove DEF Open, BeginSnapshot

<1>24. ASSUME SweepForSnapshot PROVE Goal
  <2>0. Reloader \in Procs /\ op[Reloader] \in Op /\ ProcOK(Reloader, pc[Reloader], op[Reloader])
    BY <1>0 DEF Processes
  <2> DEFINE o == [op[Reloader] EXCEPT !.kind = "sweep"]
  <2>1. SameToken(op[Reloader], o) /\ pc[Reloader] # "stored"
    BY <1>24, <2>0, NoOpType DEF ProcOK, Working, Responses, SameToken, Op, SweepForSnapshot
  <2> QED BY <1>24, <2>0, <2>1, CalmMove DEF Open, SweepForSnapshot

<1>25. ASSUME ReadSnapshot PROVE Goal
  <2>0. Reloader \in Procs /\ op[Reloader] \in Op /\ ProcOK(Reloader, pc[Reloader], op[Reloader])
    BY <1>0 DEF Processes
  <2>1. SameToken(op[Reloader], NoOp) /\ pc[Reloader] # "stored"
    BY <1>25, <2>0, NoOpType DEF ProcOK, Working, Responses, SameToken, Op, ReadSnapshot
  <2> QED BY <1>25, <2>0, <2>1, CalmMove DEF Open, ReadSnapshot

<1>26. ASSUME NEW g \in Generations,
             Build(g)
      PROVE  Goal
  <2>0. Reloader \in Procs /\ op[Reloader] \in Op /\ ProcOK(Reloader, pc[Reloader], op[Reloader])
    BY <1>0 DEF Processes
  <2> DEFINE o == [NoOp EXCEPT !.g = g, !.time = now]
  <2>1. SameToken(op[Reloader], o) /\ pc[Reloader] # "stored"
    BY <1>26, <2>0, NoOpType DEF ProcOK, Working, Responses, SameToken, Op, Build
  <2> QED BY <1>26, <2>0, <2>1, CalmMove DEF Open, Build

<1>27. ASSUME NEW k \in Keys,
             RestoreEntry(k)
      PROVE  Goal
  <2>0. Reloader \in Procs /\ op[Reloader] \in Op /\ ProcOK(Reloader, pc[Reloader], op[Reloader])
    BY <1>0 DEF Processes
  <2>1. op[Reloader].g \in Generations /\ op[Reloader].kind \notin Responses /\ pc[Reloader] = "restoring"
    BY <1>27, <2>0 DEF ProcOK, Working, Responses, RestoreEntry
  <2>2. CASE UNCHANGED <<pc, op>>
    <3>1. UNCHANGED <<epoch, pending, settled>> /\ \A h \in Generations : sequence'[h] >= sequence[h]
      <4>1. \/ UNCHANGED <<epoch, sequence, pending>>
            \/ UNCHANGED <<epoch, pending>> /\ sequence' = [sequence EXCEPT ![op[Reloader].g] = @ + 1]
            \/ BeginRevision(op[Reloader].g, k) /\ pc' = [pc EXCEPT ![Reloader] = "admitted"]
        BY <1>27, Zenon DEF RestoreEntry
      <4>2. pc' # [pc EXCEPT ![Reloader] = "admitted"]
        BY <2>0, <2>1, <2>2 DEF Processes
      <4>3. UNCHANGED settled
        BY <1>27 DEF RestoreEntry
      <4> QED BY <4>1, <4>2, <4>3 DEF RevisionsOK
    <3>2. \A q \in Procs : SameToken(op[q], op'[q])
      BY <2>2 DEF SameToken
    <3> QED BY <2>2, <3>1, <3>2 DEF Calm
  <2>3. CASE ~UNCHANGED <<pc, op>>
    <3> DEFINE g == op[Reloader].g
               o == [op[Reloader] EXCEPT !.kind = "restore", !.key = k, !.ips = restoring[k].ips,
                                  !.deadline = restoring[k].deadline, !.rev = NextRevision(g)]
    <3>1. o.kind \in Responses /\ o.g = g /\ o.key = k /\ o.rev = NextRevision(g)
      BY <2>0 DEF Op, Responses
    <3>2. BeginRevision(g, k) /\ op' = [op EXCEPT ![Reloader] = o] /\ pc' = [pc EXCEPT ![Reloader] = "admitted"]
          /\ UNCHANGED settled
      BY <1>27, <2>3, Zenon DEF RestoreEntry
    <3> HIDE DEF o
    <3>3. Begins(Reloader, g, k)
      BY <2>0, <2>1, <3>1, <3>2 DEF Begins, Open, Processes
    <3> QED BY <2>0, <2>1, <3>3
  <2> QED BY <2>2, <2>3

<1>28. ASSUME StartMaintenance PROVE Goal
  <2>1. UNCHANGED <<epoch, sequence, pending, settled, op>>
    BY <1>28 DEF StartMaintenance
  <2>2. \A q \in Procs : pc'[q] = pc[q] \/ (pc'[q] \in {"built", "loop"} /\ pc[q] \in {"restoring", "off"})
    BY <1>28, ProcsAssumption DEF StartMaintenance, Processes, Restoring
  <2>3. \A q \in Procs : SameToken(op[q], op'[q])
    BY <2>1 DEF SameToken
  <2>4. \A g \in Generations : sequence'[g] >= sequence[g]
    BY <2>1 DEF RevisionsOK
  <2> QED BY <2>1, <2>2, <2>3, <2>4 DEF Calm, Open

<1>29. ASSUME NEW g \in Generations,
             Activate(g)
      PROVE  Goal
  <2>0. Reloader \in Procs /\ op[Reloader] \in Op /\ ProcOK(Reloader, pc[Reloader], op[Reloader])
    BY <1>0 DEF Processes
  <2>1. SameToken(op[Reloader], NoOp) /\ pc[Reloader] # "stored"
    BY <1>29, <2>0, NoOpType DEF ProcOK, Working, Responses, SameToken, Op, Activate
  <2> QED BY <1>29, <2>0, <2>1, CalmMove DEF Open, Activate

<1>30. ASSUME NEW g \in Generations,
             Reactivate(g)
      PROVE  Goal
  BY <1>30, CalmStutter DEF Reactivate

<1>31. ASSUME Clear PROVE Goal
  <2>0. Reloader \in Procs /\ op[Reloader] \in Op /\ ProcOK(Reloader, pc[Reloader], op[Reloader])
    BY <1>0 DEF Processes
  <2>1. SameToken(op[Reloader], op[Reloader]) /\ pc[Reloader] # "stored"
    BY <1>31, <2>0 DEF SameToken, Clear
  <2> QED BY <1>31, <2>0, <2>1, CalmMove DEF Open, Clear

<1>32. ASSUME UNCHANGED vars PROVE Goal
  BY <1>32, CalmStutter DEF vars

<1> HIDE DEF Goal
<1>99. Goal
  BY <1>1, <1>2, <1>3, <1>4, <1>5, <1>6, <1>7, <1>8, <1>9, <1>10, <1>11, <1>12, <1>13, <1>14, <1>15, <1>16,
     <1>17, <1>18, <1>19, <1>20, <1>21, <1>22, <1>23, <1>24, <1>25, <1>26, <1>27, <1>28, <1>29, <1>30, <1>31,
         <1>32, StepCases
<1> QED BY <1>99 DEF Goal

Counting == TokensCounted /\ RevisionsBegun

\* There are finitely many tokens, so that they can be counted.
LEMMA TokensFinite ==
  ASSUME NEW g, NEW k
  PROVE  IsFiniteSet(Tokens(g, k)) /\ Cardinality(Tokens(g, k)) \in Nat
<1>1. IsFiniteSet(Tokens(g, k))
  BY ProcsAssumption, FS_Subset DEF Tokens
<1> QED BY <1>1, FS_CardinalityType

\* Who holds a token of the present table is counted in it.
LEMMA TokenIsCounted ==
  ASSUME TokensCounted, NEW g \in Generations, NEW k \in Keys, NEW p \in Tokens(g, k)
  PROVE  pending[g][k].count > 0
<1>1. Cardinality(Tokens(g, k)) # 0
  BY TokensFinite, FS_EmptySet
<1> QED BY <1>1, TokensFinite DEF TokensCounted

\* What a key loses when the token of p is dropped.
LEMMA DropEffect ==
  ASSUME Processes, RevisionsOK, TokensCounted, NEW p \in Procs, DropRevision(op[p]), op[p].kind # "none"
  PROVE  /\ \A h \in Generations, j \in Keys : p \notin Tokens(h, j) => pending'[h][j] = pending[h][j]
         /\ \A h \in Generations, j \in Keys : p \in Tokens(h, j) =>
               /\ pending'[h][j].count = pending[h][j].count - 1
               /\ pending[h][j].count # 1 => pending'[h][j].committed = pending[h][j].committed
<1> DEFINE o == op[p]
<1>1. o.g \in Generations /\ (o.kind \in Responses => o.key \in Keys)
  BY DEF Processes, ProcOK
<1>2. CASE o.kind \in Responses /\ o.rev.epoch = epoch[o.g]
  <2>1. p \in Tokens(o.g, o.key) /\ \A h, j : p \in Tokens(h, j) => h = o.g /\ j = o.key
    BY <1>2 DEF Tokens
  <2>2. pending[o.g][o.key].count > 0 /\ pending[o.g][o.key].count \in Nat
    BY <1>1, <1>2, <2>1, TokenIsCounted DEF RevisionsOK, Pending
  <2>3. CASE pending[o.g][o.key].count = 1
    <3>1. pending' = [pending EXCEPT ![o.g][o.key] = NotPending]
      BY <1>2, <2>2, <2>3 DEF DropRevision, Responses
    <3> QED BY <1>1, <1>2, <2>1, <2>3, <3>1 DEF RevisionsOK, NotPending
  <2>4. CASE pending[o.g][o.key].count # 1
    <3>1. pending' = Counted(pending, o.g, o.key, pending[o.g][o.key].count - 1)
      BY <1>2, <2>2, <2>4 DEF DropRevision, Responses, Counted
    <3>2. PICK c : c = pending[o.g][o.key].count - 1
      OBVIOUS
    <3>3. PICK g, k : g = o.g /\ k = o.key
      OBVIOUS
    <3>4. c \in Nat /\ pending \in [Generations -> [Keys -> Pending]] /\ g \in Generations /\ k \in Keys
      BY <1>1, <1>2, <2>2, <3>2, <3>3 DEF RevisionsOK
    <3>5. pending' = Counted(pending, g, k, c)
      BY <3>1, <3>2, <3>3
    <3>6. /\ pending'[g][k].count = c
          /\ pending'[g][k].committed = pending[g][k].committed
          /\ \A h \in Generations, j \in Keys : h # g \/ j # k => pending'[h][j] = pending[h][j]
      BY ONLY <3>4, <3>5, PendingUpdate
    <3> QED BY <2>1, <3>2, <3>3, <3>6
  <2> QED BY <2>3, <2>4
<1>3. CASE ~(o.kind \in Responses /\ o.rev.epoch = epoch[o.g])
  <2>1. \A h, j : p \notin Tokens(h, j)
    BY <1>3 DEF Tokens
  <2>2. pending' = pending
    BY <1>3 DEF DropRevision, Responses
  <2> QED BY <2>1, <2>2
<1> QED BY <1>2, <1>3

\* A new token is counted, and nothing else changes in the table.
LEMMA BeginEffect ==
  ASSUME RevisionsOK, NEW g \in Generations, NEW k \in Keys, BeginRevision(g, k)
  PROVE  /\ pending'[g][k].count = pending[g][k].count + 1
         /\ \A h \in Generations, j \in Keys :
               /\ h # g \/ j # k => pending'[h][j] = pending[h][j]
               /\ pending'[h][j].committed = pending[h][j].committed
<1>1. pending' = Counted(pending, g, k, pending[g][k].count + 1)
  BY DEF BeginRevision, Counted
<1>2. pending[g][k].count + 1 \in Nat /\ pending \in [Generations -> [Keys -> Pending]]
  BY DEF RevisionsOK, Pending
<1> QED BY <1>1, <1>2, PendingUpdate

\* A commit and an invalidation leave the counts.
LEMMA CommitEffect ==
  ASSUME RevisionsOK, NEW g \in Generations, NEW k \in Keys, NEW c \in Nat,
         pending' = Committed(pending, g, k, c)
  PROVE  /\ \A h \in Generations, j \in Keys :
               /\ pending'[h][j].count = pending[h][j].count
               /\ h # g \/ j # k => pending'[h][j] = pending[h][j]
         /\ pending'[g][k].committed = c
<1>1. pending \in [Generations -> [Keys -> Pending]]
  BY DEF RevisionsOK
<1> QED BY <1>1, PendingUpdate

\* The two changes of what is committed, and the only change of the sequence with them.
LEMMA StoreRemoveEffect ==
  ASSUME Control, NEW p \in Procs, StoreRemove(p)
  PROVE  /\ op[p].g \in Generations /\ op[p].key \in Keys /\ op[p].kind = "remove"
         /\ sequence' = [sequence EXCEPT ![op[p].g] = @ + 1]
         /\ settled' = [settled EXCEPT ![op[p].g][op[p].key] = NextRevision(op[p].g)]
         /\ \A h \in Generations, j \in Keys :
               /\ pending'[h][j].count = pending[h][j].count
               /\ h # op[p].g \/ j # op[p].key => pending'[h][j] = pending[h][j]
         /\ pending[op[p].g][op[p].key].count > 0 =>
               pending'[op[p].g][op[p].key].committed = sequence[op[p].g] + 1
<1> USE DEF Control, DataOK
<1>1. op[p].g \in Generations /\ op[p].key \in Keys /\ op[p].kind = "remove"
  BY DEF StoreRemove, Processes, ProcOK, Working
<1>2. sequence[op[p].g] + 1 \in Nat
  BY <1>1 DEF RevisionsOK
<1>3. CASE pending[op[p].g][op[p].key].count > 0
  <2>1. pending' = [pending EXCEPT ![op[p].g][op[p].key].committed = sequence[op[p].g] + 1]
    BY <1>3 DEF StoreRemove, Invalidate
  <2>2. PICK g, k, c : g = op[p].g /\ k = op[p].key /\ c = sequence[op[p].g] + 1
    OBVIOUS
  <2>3. g \in Generations /\ k \in Keys /\ c \in Nat /\ RevisionsOK
        /\ pending' = Committed(pending, g, k, c)
    BY <1>1, <1>2, <2>1, <2>2 DEF Committed
  <2>4. /\ \A h \in Generations, j \in Keys :
              /\ pending'[h][j].count = pending[h][j].count
              /\ h # g \/ j # k => pending'[h][j] = pending[h][j]
        /\ pending'[g][k].committed = c
    BY ONLY <2>3, CommitEffect
  <2>5. /\ sequence' = [sequence EXCEPT ![op[p].g] = @ + 1]
        /\ settled' = [settled EXCEPT ![op[p].g][op[p].key] = NextRevision(op[p].g)]
    BY DEF StoreRemove, Invalidate, Settle
  <2> QED BY <1>1, <2>2, <2>4, <2>5
<1>4. CASE ~(pending[op[p].g][op[p].key].count > 0)
  BY <1>1, <1>4 DEF StoreRemove, Invalidate, Settle
<1> QED BY <1>3, <1>4

\* What a commit does to the table.
LEMMA CommitStepEffect ==
  ASSUME Control, NEW p \in Procs, Commit(p)
  PROVE  /\ op[p].g \in Generations /\ op[p].key \in Keys /\ op[p].kind \in Responses /\ op' = op
         /\ UNCHANGED <<epoch, sequence, settled>>
         /\ \A h \in Generations, j \in Keys :
               /\ pending'[h][j].count = pending[h][j].count
               /\ h # op[p].g \/ j # op[p].key => pending'[h][j] = pending[h][j]
         /\ op[p].rev.epoch = epoch[op[p].g] /\ pending[op[p].g][op[p].key].count > 0 =>
               /\ pending'[op[p].g][op[p].key].committed >= op[p].rev.seq
         /\ pending'[op[p].g][op[p].key].committed >= pending[op[p].g][op[p].key].committed
<1> USE DEF Control, DataOK
<1>1. op[p].g \in Generations /\ op[p].key \in Keys /\ op[p].kind \in Responses /\ op[p].rev.seq \in Nat
  BY DEF Commit, Processes, ProcOK, Working, Op, Revision
<1>2. op' = op /\ UNCHANGED <<epoch, sequence, settled>>
  BY DEF Commit, CommitRevision
<1> DEFINE c == pending[op[p].g][op[p].key].committed
           d == IF c >= op[p].rev.seq THEN c ELSE op[p].rev.seq
<1>3. c \in Nat
  BY <1>1 DEF RevisionsOK, Pending
<1>4. d \in Nat /\ d >= c /\ d >= op[p].rev.seq
  BY <1>1, <1>3
<1>5. CASE op[p].rev.epoch = epoch[op[p].g] /\ pending[op[p].g][op[p].key].count > 0
  <2>1. pending' = [pending EXCEPT ![op[p].g][op[p].key].committed = d]
    BY <1>5 DEF Commit, CommitRevision
  <2>2. PICK g, k, e : g = op[p].g /\ k = op[p].key /\ e = d
    OBVIOUS
  <2> HIDE DEF d
  <2>3. g \in Generations /\ k \in Keys /\ e \in Nat /\ RevisionsOK
        /\ pending' = Committed(pending, g, k, e)
    BY <1>1, <1>4, <2>1, <2>2 DEF Committed
  <2>4. /\ \A h \in Generations, j \in Keys :
              /\ pending'[h][j].count = pending[h][j].count
              /\ h # g \/ j # k => pending'[h][j] = pending[h][j]
        /\ pending'[g][k].committed = e
    BY ONLY <2>3, CommitEffect
  <2> QED BY <1>1, <1>2, <1>4, <2>2, <2>4
<1>6. CASE ~(op[p].rev.epoch = epoch[op[p].g] /\ pending[op[p].g][op[p].key].count > 0)
  BY <1>1, <1>2, <1>3, <1>6 DEF Commit
<1> QED BY <1>5, <1>6

\* The table counts the tokens there are.
LEMMA CountingStep ==
  ASSUME Control, Control', Counting, [Next]_vars
  PROVE  Counting'
<1> USE DEF Control, DataOK
<1>0. /\ \A g \in Generations, k \in Keys : pending[g][k].count \in Nat /\ settled[g][k] \in Revision
      /\ \A g \in Generations : epoch[g] \in Nat /\ sequence[g] \in Nat
      /\ \A p \in Procs : op[p] \in Op /\ op[p].rev.epoch \in Nat /\ op[p].rev.seq \in Nat
      /\ \A p \in Procs : op[p].kind \in Responses => op[p].g \in Generations /\ op[p].key \in Keys
  BY DEF RevisionsOK, Pending, Revision, Processes, ProcOK, Op, Responses

<1>1. ASSUME Calm PROVE Counting'
  <2>1. \A g \in Generations, k \in Keys : Tokens(g, k)' = Tokens(g, k)
    BY <1>1 DEF Calm, SameToken, Tokens
  <2>2. TokensCounted'
    BY <1>1, <2>1 DEF Calm, Counting, TokensCounted
  <2>3. \A g \in Generations, k \in Keys : Begun(settled[g][k], g)'
    BY <1>0, <1>1 DEF Calm, Counting, RevisionsBegun, Begun, RevisionsOK, Revision
  <2>4. \A p \in Procs : op'[p].kind \in Responses => Begun(op[p].rev, op[p].g)'
    <3> SUFFICES ASSUME NEW p \in Procs, op'[p].kind \in Responses PROVE Begun(op[p].rev, op[p].g)'
      OBVIOUS
    <3>1. op[p].kind \in Responses /\ op'[p].g = op[p].g /\ op'[p].rev = op[p].rev
      BY <1>1 DEF Calm, SameToken
    <3>2. Begun(op[p].rev, op[p].g) /\ op[p].g \in Generations
      BY <1>0, <3>1 DEF Counting, RevisionsBegun
    <3>3. epoch' = epoch /\ sequence'[op[p].g] >= sequence[op[p].g] /\ sequence'[op[p].g] \in Nat
      BY <1>1, <3>2 DEF Calm, RevisionsOK
    <3> QED BY <1>0, <3>1, <3>2, <3>3 DEF Begun
  <2> QED BY <2>2, <2>3, <2>4 DEF Counting, RevisionsBegun

<1>2. ASSUME NEW p \in Procs, NEW g \in Generations, NEW k \in Keys, Begins(p, g, k) PROVE Counting'
  <2>0. BeginRevision(g,
         k) /\ epoch' = epoch /\ sequence' = [sequence EXCEPT ![g] = @ + 1] /\ settled' = settled
    BY <1>2 DEF Begins, BeginRevision
  <2>1. p \notin Tokens(g, k) /\ Tokens(g, k)' = Tokens(g, k) \union {p}
    BY <1>0, <1>2, <2>0 DEF Begins, Tokens, NextRevision
  <2>2. \A h \in Generations, j \in Keys : h # g \/ j # k => Tokens(h, j)' = Tokens(h, j)
    BY <1>2, <2>0 DEF Begins, Tokens
  <2>3. Cardinality(Tokens(g, k)') = Cardinality(Tokens(g, k)) + 1
    BY <2>1, TokensFinite, FS_AddElement
  <2>4. TokensCounted'
    BY <1>0, <2>0, <2>2, <2>3, BeginEffect DEF Counting, TokensCounted
  <2>5. \A h \in Generations, j \in Keys : Begun(settled[h][j], h)'
    BY <1>0, <2>0 DEF Counting, RevisionsBegun, Begun, RevisionsOK, Revision
  <2>6. \A q \in Procs : op'[q].kind \in Responses => Begun(op[q].rev, op[q].g)'
    <3> SUFFICES ASSUME NEW q \in Procs, op'[q].kind \in Responses PROVE Begun(op[q].rev, op[q].g)'
      OBVIOUS
    <3>1. CASE q = p
      BY <1>0, <1>2, <2>0, <3>1 DEF Begins, Begun, NextRevision, RevisionsOK
    <3>2. CASE q # p
      <4>1. op'[q] = op[q]
        BY <1>2, <3>2 DEF Begins
      <4> QED BY <1>0, <2>0, <4>1 DEF Begun, Counting, RevisionsBegun, RevisionsOK
    <3> QED BY <3>1, <3>2
  <2> QED BY <2>4, <2>5, <2>6 DEF Counting, RevisionsBegun

<1>3. ASSUME NEW p \in Procs, Drops(p) PROVE Counting'
  <2>0. DropRevision(op[p]) /\ UNCHANGED <<epoch, sequence, settled>>
    BY <1>3 DEF Drops, DropRevision
  <2>1. \A h \in Generations, j \in Keys : Tokens(h, j)' = Tokens(h, j) \ {p}
    BY <1>3, <2>0 DEF Drops, Tokens, Responses
  <2>2. TokensCounted'
    <3> SUFFICES ASSUME NEW h \in Generations, NEW j \in Keys
                 PROVE  pending'[h][j].count = Cardinality(Tokens(h, j)')
      BY DEF TokensCounted
    <3>1. CASE op[p].kind = "none"
      <4>1. pending' = pending
        BY <2>0, <3>1 DEF DropRevision
      <4>2. Tokens(h, j)' = Tokens(h, j)
        BY <2>1, <3>1 DEF Tokens, Responses
      <4> QED BY <4>1, <4>2 DEF Counting, TokensCounted
    <3>2. CASE op[p].kind # "none" /\ p \notin Tokens(h, j)
      <4>1. pending'[h][j] = pending[h][j]
        BY <2>0, <3>2, DropEffect DEF Counting
      <4>2. Tokens(h, j)' = Tokens(h, j)
        BY <2>1, <3>2
      <4> QED BY <4>1, <4>2 DEF Counting, TokensCounted
    <3>3. CASE op[p].kind # "none" /\ p \in Tokens(h, j)
      <4>1. pending'[h][j].count = pending[h][j].count - 1
        BY <2>0, <3>3, DropEffect DEF Counting
      <4>2. Cardinality(Tokens(h, j) \ {p}) = Cardinality(Tokens(h, j)) - 1
        BY <3>3, TokensFinite, FS_RemoveElement
      <4> QED BY <2>1, <4>1, <4>2 DEF Counting, TokensCounted
    <3> QED BY <3>1, <3>2, <3>3
  <2>3. \A h \in Generations, j \in Keys : Begun(settled[h][j], h)'
    BY <2>0 DEF Counting, RevisionsBegun, Begun
  <2>4. \A q \in Procs : op'[q].kind \in Responses => Begun(op[q].rev, op[q].g)'
    BY <1>3, <2>0 DEF Drops, Counting, RevisionsBegun, Begun, Responses
  <2> QED BY <2>2, <2>3, <2>4 DEF Counting, RevisionsBegun

<1>4. ASSUME NEW p \in Procs, StoreRecord(p) PROVE Counting'
  <2>1. UNCHANGED <<epoch, sequence, pending, op>>
        /\ settled' = [settled EXCEPT ![op[p].g][op[p].key] = op[p].rev] /\ op[p].kind \in Responses
    BY <1>4 DEF StoreRecord, Settle, Responses
  <2>2. TokensCounted'
    BY <2>1 DEF Counting, TokensCounted, Tokens
  <2>3. \A h \in Generations, j \in Keys : settled'[h][j] \in {settled[h][j], op[p].rev}
             /\ (settled'[h][j] # settled[h][j] => h = op[p].g)
    BY <1>0, <2>1 DEF RevisionsOK
  <2>4. \A h \in Generations, j \in Keys : Begun(settled[h][j], h)'
    BY <2>1, <2>3 DEF Counting, RevisionsBegun, Begun
  <2> QED BY <2>1, <2>2, <2>4 DEF Counting, RevisionsBegun, Begun

<1>5. ASSUME NEW p \in Procs, StoreRemove(p) PROVE Counting'
  <2>0. UNCHANGED <<epoch, op>>
    BY <1>5 DEF StoreRemove, Invalidate
  <2>1. /\ op[p].g \in Generations /\ op[p].key \in Keys
        /\ sequence' = [sequence EXCEPT ![op[p].g] = @ + 1]
        /\ settled' = [settled EXCEPT ![op[p].g][op[p].key] = NextRevision(op[p].g)]
        /\ \A h \in Generations, j \in Keys : pending'[h][j].count = pending[h][j].count
    BY <1>5, StoreRemoveEffect
  <2>2. TokensCounted'
    BY <2>0, <2>1 DEF Counting, TokensCounted, Tokens
  <2>3. \A h \in Generations, j \in Keys :
             settled'[h][j] = settled[h][j] \/ (h = op[p].g /\ settled'[h][j] = NextRevision(h))
    BY <1>0, <2>1 DEF RevisionsOK
  <2>4. \A h \in Generations : sequence'[h] >= sequence[h] /\ (h = op[p].g => sequence'[h] = sequence[h] + 1)
    BY <1>0, <2>1 DEF RevisionsOK
  <2>5. \A h \in Generations, j \in Keys : Begun(settled[h][j], h)'
    <3> SUFFICES ASSUME NEW h \in Generations, NEW j \in Keys PROVE Begun(settled[h][j], h)'
      OBVIOUS
    <3>0. sequence'[h] \in Nat
      BY DEF RevisionsOK
    <3>1. CASE settled'[h][j] = settled[h][j]
      BY <1>0, <2>0, <2>4, <3>0, <3>1 DEF Counting, RevisionsBegun, Begun, Revision
    <3>2. CASE h = op[p].g /\ settled'[h][j] = NextRevision(h)
      BY <1>0, <2>0, <2>4, <3>2 DEF Begun, NextRevision
    <3> QED BY <2>3, <3>1, <3>2
  <2>6. \A q \in Procs : op'[q].kind \in Responses => Begun(op[q].rev, op[q].g)'
    BY <1>0, <2>0, <2>4 DEF Counting, RevisionsBegun, Begun, RevisionsOK
  <2> QED BY <2>2, <2>5, <2>6 DEF Counting, RevisionsBegun

<1>6. ASSUME NEW p \in Procs, Commit(p) PROVE Counting'
  <2>1. /\ op' = op /\ UNCHANGED <<epoch, sequence, settled>>
        /\ \A h \in Generations, j \in Keys : pending'[h][j].count = pending[h][j].count
    BY <1>6, CommitStepEffect
  <2>2. TokensCounted'
    BY <2>1 DEF Counting, TokensCounted, Tokens
  <2> QED BY <2>1, <2>2 DEF Counting, RevisionsBegun, Begun

<1>7. ASSUME NEW g \in Generations, PoisonRevisions(g) PROVE Counting'
  <2>0. /\ epoch' = [epoch EXCEPT ![g] = @ + 1] /\ sequence' = [sequence EXCEPT ![g] = 0]
        /\ pending' = [pending EXCEPT ![g] = [k \in Keys |-> NotPending]]
        /\ UNCHANGED <<op, settled>>
    BY <1>7 DEF PoisonRevisions
  <2>1. epoch'[g] = epoch[g] + 1 /\ \A h \in Generations \ {g} : epoch'[h] = epoch[h] /\ sequence'[h] = sequence[h]
    BY <2>0 DEF RevisionsOK
  <2>2. \A k \in Keys : Tokens(g, k)' = {}
    BY <1>0, <2>0, <2>1 DEF Tokens, Counting, RevisionsBegun, Begun
  <2>3. \A h \in Generations \ {g}, k \in Keys : Tokens(h, k)' = Tokens(h, k)
    BY <2>0, <2>1 DEF Tokens
  <2>4. /\ \A k \in Keys : pending'[g][k].count = 0
        /\ \A h \in Generations \ {g}, k \in Keys : pending'[h][k] = pending[h][k]
    BY <2>0 DEF RevisionsOK, NotPending
  <2>5. TokensCounted'
    BY <2>2, <2>3, <2>4, FS_EmptySet DEF Counting, TokensCounted
  <2>6. \A h \in Generations, j \in Keys : Begun(settled[h][j], h)'
    BY <1>0, <2>0, <2>1 DEF Counting, RevisionsBegun, Begun, Revision
  <2>7. \A q \in Procs : op'[q].kind \in Responses => Begun(op[q].rev, op[q].g)'
    BY <1>0, <2>0, <2>1 DEF Counting, RevisionsBegun, Begun
  <2> QED BY <2>5, <2>6, <2>7 DEF Counting, RevisionsBegun

<1> QED BY <1>1, <1>2, <1>3, <1>4, <1>5, <1>6, <1>7, RevisionSteps

Ordering == StaleIsKnown /\ Commits

\* Two processes are never inside transactions of the same generation.
LEMMA OneInside ==
  ASSUME Control, NEW p \in Procs, NEW q \in Procs, pc[p] \in Holding, pc[q] \in Holding, op[p].g = op[q].g
  PROVE  p = q
BY DEF Control, Locking

\* Responses and rejections of a key are stored in the order in which they began.
LEMMA OrderingStep ==
  ASSUME Control, Counting, Ordering, [Next]_vars
  PROVE  Ordering'
<1> USE DEF Control, DataOK
<1>0. /\ \A g \in Generations, k \in Keys :
             settled[g][k].epoch \in Nat /\ settled[g][k].seq \in Nat /\ pending[g][k].committed \in Nat
      /\ \A g \in Generations : epoch[g] \in Nat /\ sequence[g] \in Nat
      /\ \A p \in Procs : op[p] \in Op /\ op[p].rev.epoch \in Nat /\ op[p].rev.seq \in Nat
      /\ \A p \in Procs : op[p].kind \in Responses => op[p].g \in Generations /\ op[p].key \in Keys
      /\ \A g \in Generations, k \in Keys : Begun(settled[g][k], g)
      /\ \A p \in Procs : op[p].kind \in Responses => Begun(op[p].rev, op[p].g)
  BY DEF RevisionsOK, Pending, Revision, Processes, ProcOK, Op, Responses, Counting, RevisionsBegun
<1>s. \A p \in Procs : pc[p] = "stored" => op[p].kind \in Responses
  BY DEF Processes, ProcOK

<1>1. ASSUME Calm PROVE Ordering'
  <2>0. UNCHANGED <<epoch, pending, settled>>
    BY <1>1 DEF Calm
  <2>1. \A q \in Procs :
           /\ op'[q].kind \in Responses <=> op[q].kind \in Responses
           /\ op[q].kind \in Responses => op'[q].g = op[q].g /\ op'[q].key = op[q].key /\ op'[q].rev = op[q].rev
           /\ pc'[q] = "stored" <=> pc[q] = "stored"
    BY <1>1 DEF Calm, SameToken
  <2>2. \A g, k : Storing(g, k) => Storing(g, k)'
    BY <1>s, <2>1 DEF Storing
  <2>3. StaleIsKnown'
    BY <2>0, <2>1, <2>2 DEF Ordering, StaleIsKnown
  <2>4. Commits'
    <3> SUFFICES ASSUME NEW q \in Procs, op[q].kind \in Responses
                 PROVE  /\ pc'[q] \in Open => Newer(op[q].rev, settled[op[q].g][op[q].key])
                        /\ pc'[q] = "stored" => op[q].rev = settled[op[q].g][op[q].key]
      BY <2>0, <2>1 DEF Commits
    <3>1. CASE pc[q] \in Open
      BY <2>1, <3>1 DEF Ordering, Commits
    <3>2. CASE CanCommit(op[q]) /\ mutation[op[q].g] = None
      <4>1. ~Storing(op[q].g, op[q].key)
        BY <3>2, ProcsAssumption DEF Storing, Locking, Holding
      <4>2. ~(settled[op[q].g][op[q].key].epoch = epoch[op[q].g]
                /\ op[q].rev.seq <= settled[op[q].g][op[q].key].seq)
        BY <1>0, <3>2, <4>1 DEF CanCommit, Ordering, StaleIsKnown
      <4>3. Newer(op[q].rev, settled[op[q].g][op[q].key])
        BY <1>0, <3>2, <4>2 DEF CanCommit, Newer, Begun
      <4> QED BY <2>1, <4>3 DEF Ordering, Commits
    <3>3. CASE pc'[q] \notin Open
      BY <2>1, <3>3 DEF Ordering, Commits
    <3> QED BY <1>1, <3>1, <3>2, <3>3 DEF Calm
  <2> QED BY <2>3, <2>4 DEF Ordering

<1>2. ASSUME NEW p \in Procs, NEW g \in Generations, NEW k \in Keys, Begins(p, g, k) PROVE Ordering'
  <2>0. UNCHANGED <<epoch, settled>> /\ \A q \in Procs \ {p} : op'[q] = op[q] /\ pc'[q] = pc[q]
    BY <1>2 DEF Begins, BeginRevision
  <2>1. \A h \in Generations, j \in Keys : pending'[h][j].committed = pending[h][j].committed
    BY <1>2, BeginEffect DEF Begins
  <2>2. \A h, j : Storing(h, j) => Storing(h, j)'
    BY <1>2, <2>0 DEF Begins, Storing
  <2>3. StaleIsKnown'
    <3> SUFFICES ASSUME NEW q \in Procs, op'[q].kind \in Responses, op'[q].rev.epoch = epoch[op'[q].g],
                        settled[op'[q].g][op'[q].key].epoch = epoch[op'[q].g],
                        op'[q].rev.seq <= settled[op'[q].g][op'[q].key].seq
                 PROVE  pending'[op'[q].g][op'[q].key].committed >= op'[q].rev.seq
                          \/ Storing(op[q].g, op[q].key)'
      BY <2>0 DEF StaleIsKnown
    <3>1. CASE q = p
      <4>1. op'[q].g = g /\ op'[q].key = k /\ op'[q].rev = NextRevision(g)
        BY <1>2, <3>1 DEF Begins
      <4> QED BY <1>0, <4>1 DEF NextRevision, Begun
    <3>2. CASE q # p
      <4>1. op'[q] = op[q] /\ op[q].g \in Generations /\ op[q].key \in Keys
        BY <1>0, <2>0, <3>2
      <4> QED BY <2>1, <2>2, <4>1 DEF Ordering, StaleIsKnown
    <3> QED BY <3>1, <3>2
  <2>4. Commits'
    BY <1>2, <2>0 DEF Begins, Ordering, Commits
  <2> QED BY <2>3, <2>4 DEF Ordering

<1>3. ASSUME NEW p \in Procs, Drops(p) PROVE Ordering'
  <2>0. /\ DropRevision(op[p]) /\ UNCHANGED <<epoch, settled>>
        /\ \A q \in Procs \ {p} : op'[q] = op[q] /\ (pc'[q] = "stored" <=> pc[q] = "stored")
        /\ \A q \in Procs \ {p} : pc'[q] \in Open => pc[q] \in Open
        /\ op'[p].kind \notin Responses
    BY <1>3 DEF Drops, DropRevision, Responses
  <2>2. \A h, j : Storing(h, j) => Storing(h, j)'
    BY <1>3, <2>0 DEF Drops, Storing
  <2>3. StaleIsKnown'
    <3> SUFFICES ASSUME NEW q \in Procs, op'[q].kind \in Responses, op'[q].rev.epoch = epoch[op'[q].g],
                        settled[op'[q].g][op'[q].key].epoch = epoch[op'[q].g],
                        op'[q].rev.seq <= settled[op'[q].g][op'[q].key].seq
                 PROVE  pending'[op'[q].g][op'[q].key].committed >= op'[q].rev.seq
                          \/ Storing(op[q].g, op[q].key)'
      BY <2>0 DEF StaleIsKnown
    <3>1. q # p /\ op'[q] = op[q] /\ op[q].g \in Generations /\ op[q].key \in Keys
      BY <1>0, <2>0
    <3>2. q \in Tokens(op[q].g, op[q].key)
      BY <3>1 DEF Tokens
    <3>3. pending'[op[q].g][op[q].key].committed = pending[op[q].g][op[q].key].committed
      <4>1. CASE op[p].kind = "none"
        BY <2>0, <4>1 DEF DropRevision
      <4>2. CASE op[p].kind # "none" /\ p \notin Tokens(op[q].g, op[q].key)
        BY <2>0, <3>1, <4>2, DropEffect DEF Counting
      <4>3. CASE op[p].kind # "none" /\ p \in Tokens(op[q].g, op[q].key)
        <5>1. Cardinality(Tokens(op[q].g, op[q].key)) # 1
          BY <3>1, <3>2, <4>3, TokensFinite, FS_Singleton
        <5>2. pending[op[q].g][op[q].key].count # 1
          BY <3>1, <5>1 DEF Counting, TokensCounted
        <5> QED BY <2>0, <3>1, <4>3, <5>2, DropEffect DEF Counting
      <4> QED BY <4>1, <4>2, <4>3
    <3> QED BY <2>2, <3>1, <3>3 DEF Ordering, StaleIsKnown
  <2>4. Commits'
    BY <2>0 DEF Ordering, Commits
  <2> QED BY <2>3, <2>4 DEF Ordering

<1>4. ASSUME NEW p \in Procs, StoreRecord(p) PROVE Ordering'
  <2> DEFINE g == op[p].g  k == op[p].key
  <2>0. /\ UNCHANGED <<epoch, sequence, pending, op>> /\ op[p].kind \in Responses
        /\ settled' = [settled EXCEPT ![g][k] = op[p].rev]
        /\ pc' = [pc EXCEPT ![p] = "stored"] /\ pc[p] = "applied"
    BY <1>4 DEF StoreRecord, Settle, Responses
  <2>1. g \in Generations /\ k \in Keys
    BY <1>0, <2>0
  <2>2. /\ settled'[g][k] = op[p].rev
        /\ \A h \in Generations, j \in Keys : h # g \/ j # k => settled'[h][j] = settled[h][j]
    BY <2>0, <2>1 DEF RevisionsOK
  <2>3. pc'[p] = "stored" /\ \A q \in Procs \ {p} : pc'[q] = pc[q]
    BY <2>0 DEF Processes
  <2>4. Storing(g, k)' /\ \A h, j : Storing(h, j) => Storing(h, j)'
    BY <2>0, <2>3 DEF Storing
  <2>5. StaleIsKnown'
    <3> SUFFICES ASSUME NEW q \in Procs, op[q].kind \in Responses, op[q].g # g \/ op[q].key # k
                 PROVE  op[q].rev.epoch = epoch[op[q].g] /\ settled'[op[q].g][op[q].key].epoch = epoch[op[q].g]
                          /\ op[q].rev.seq <= settled'[op[q].g][op[q].key].seq
                          => pending[op[q].g][op[q].key].committed >= op[q].rev.seq
                               \/ Storing(op[q].g, op[q].key)'
      BY <2>0, <2>4 DEF StaleIsKnown
    <3>1. settled'[op[q].g][op[q].key] = settled[op[q].g][op[q].key]
      BY <1>0, <2>2
    <3> QED BY <2>0, <2>4, <3>1 DEF Ordering, StaleIsKnown
  <2>6. Commits'
    <3> SUFFICES ASSUME NEW q \in Procs, op[q].kind \in Responses, pc'[q] \in Open \union {"stored"}
                 PROVE  /\ pc'[q] \in Open => Newer(op[q].rev, settled'[op[q].g][op[q].key])
                        /\ pc'[q] = "stored" => op[q].rev = settled'[op[q].g][op[q].key]
      BY <2>0 DEF Commits
    <3>1. CASE q = p
      BY <2>2, <2>3, <3>1 DEF Open
    <3>2. CASE q # p
      <4>1. op[q].g # g
        BY <2>0, <2>3, <3>2, OneInside DEF Open, Holding
      <4>2. settled'[op[q].g][op[q].key] = settled[op[q].g][op[q].key]
        BY <1>0, <2>2, <4>1
      <4> QED BY <2>3, <3>2, <4>2 DEF Ordering, Commits
    <3> QED BY <3>1, <3>2
  <2> QED BY <2>5, <2>6 DEF Ordering

<1>5. ASSUME NEW p \in Procs, StoreRemove(p) PROVE Ordering'
  <2> DEFINE g == op[p].g  k == op[p].key
  <2>0. UNCHANGED <<epoch, op>> /\ pc' = [pc EXCEPT ![p] = "ending"] /\ pc[p] = "applied"
    BY <1>5 DEF StoreRemove, Invalidate
  <2>1. /\ g \in Generations /\ k \in Keys /\ op[p].kind = "remove"
        /\ settled' = [settled EXCEPT ![g][k] = NextRevision(g)]
        /\ \A h \in Generations, j \in Keys : h # g \/ j # k => pending'[h][j] = pending[h][j]
        /\ pending[g][k].count > 0 => pending'[g][k].committed = sequence[g] + 1
    BY <1>5, StoreRemoveEffect
  <2>2. \A h \in Generations, j \in Keys : h # g \/ j # k => settled'[h][j] = settled[h][j]
    BY <2>1 DEF RevisionsOK
  <2>3. pc'[p] = "ending" /\ \A q \in Procs \ {p} : pc'[q] = pc[q]
    BY <2>0 DEF Processes
  <2>4. \A h, j : Storing(h, j) => Storing(h, j)'
    BY <2>0, <2>3 DEF Storing
  <2>5. StaleIsKnown'
    <3> SUFFICES ASSUME NEW q \in Procs, op[q].kind \in Responses, op[q].rev.epoch = epoch[op[q].g],
                        settled'[op[q].g][op[q].key].epoch = epoch[op[q].g],
                        op[q].rev.seq <= settled'[op[q].g][op[q].key].seq
                 PROVE  pending'[op[q].g][op[q].key].committed >= op[q].rev.seq
                               \/ Storing(op[q].g, op[q].key)'
      BY <2>0 DEF StaleIsKnown
    <3>1. CASE op[q].g # g \/ op[q].key # k
      BY <1>0, <2>0, <2>1, <2>2, <2>4, <3>1 DEF Ordering, StaleIsKnown
    <3>2. CASE op[q].g = g /\ op[q].key = k
      <4>1. q \in Tokens(g, k)
        BY <3>2 DEF Tokens
      <4>2. pending'[g][k].committed = sequence[g] + 1
        BY <2>1, <4>1, TokenIsCounted DEF Counting
      <4>3. op[q].rev.seq <= sequence[g]
        BY <1>0, <3>2 DEF Begun
      <4> QED BY <1>0, <2>1, <3>2, <4>2, <4>3
    <3> QED BY <3>1, <3>2
  <2>6. Commits'
    <3> SUFFICES ASSUME NEW q \in Procs, op[q].kind \in Responses, pc'[q] \in Open \union {"stored"}
                 PROVE  /\ pc'[q] \in Open => Newer(op[q].rev, settled'[op[q].g][op[q].key])
                        /\ pc'[q] = "stored" => op[q].rev = settled'[op[q].g][op[q].key]
      BY <2>0 DEF Commits
    <3>1. q # p
      BY <2>3 DEF Open
    <3>2. op[q].g # g
      BY <2>0, <2>3, <3>1, OneInside DEF Open, Holding
    <3>3. settled'[op[q].g][op[q].key] = settled[op[q].g][op[q].key]
      BY <1>0, <2>2, <3>2
    <3> QED BY <2>3, <3>1, <3>3 DEF Ordering, Commits
  <2> QED BY <2>5, <2>6 DEF Ordering

<1>6. ASSUME NEW p \in Procs, Commit(p) PROVE Ordering'
  <2> DEFINE g == op[p].g  k == op[p].key
  <2>0. /\ g \in Generations /\ k \in Keys /\ op[p].kind \in Responses /\ op' = op
        /\ UNCHANGED <<epoch, settled>>
        /\ \A h \in Generations, j \in Keys : h # g \/ j # k => pending'[h][j] = pending[h][j]
        /\ op[p].rev.epoch = epoch[g] /\ pending[g][k].count > 0 => pending'[g][k].committed >= op[p].rev.seq
    BY <1>6, CommitStepEffect
  <2>1. pc[p] = "stored" /\ pc'[p] \in {"ending", "failed"} /\ \A q \in Procs \ {p} : pc'[q] = pc[q]
    BY <1>6 DEF Commit, Processes
  <2>2. op[p].rev = settled[g][k]
    BY <2>0, <2>1 DEF Ordering, Commits
  <2>3. \A h, j : h # g \/ j # k => (Storing(h, j) => Storing(h, j)')
    BY <2>0, <2>1 DEF Storing
  <2>4. StaleIsKnown'
    <3> SUFFICES ASSUME NEW q \in Procs, op[q].kind \in Responses, op[q].rev.epoch = epoch[op[q].g],
                        settled[op[q].g][op[q].key].epoch = epoch[op[q].g],
                        op[q].rev.seq <= settled[op[q].g][op[q].key].seq
                 PROVE  pending'[op[q].g][op[q].key].committed >= op[q].rev.seq
                               \/ Storing(op[q].g, op[q].key)'
      BY <2>0 DEF StaleIsKnown
    <3>1. CASE op[q].g # g \/ op[q].key # k
      BY <1>0, <2>0, <2>3, <3>1 DEF Ordering, StaleIsKnown
    <3>2. CASE op[q].g = g /\ op[q].key = k
      <4>1. p \in Tokens(g, k)
        BY <2>0, <2>2, <3>2 DEF Tokens
      <4>2. pending'[g][k].committed >= op[p].rev.seq
        BY <2>0, <2>2, <3>2, <4>1, TokenIsCounted DEF Counting
      <4>3. pending'[g][k].committed \in Nat
        BY <2>0, <1>6, ControlStep DEF RevisionsOK, Pending
      <4> QED BY <1>0, <2>2, <3>2, <4>2, <4>3
    <3> QED BY <3>1, <3>2
  <2>5. Commits'
    BY <2>0, <2>1 DEF Ordering, Commits, Open
  <2> QED BY <2>4, <2>5 DEF Ordering

<1>7. ASSUME NEW g \in Generations, PoisonRevisions(g) PROVE Ordering'
  <2>0. /\ epoch' = [epoch EXCEPT ![g] = @ + 1]
        /\ pending' = [pending EXCEPT ![g] = [k \in Keys |-> NotPending]]
        /\ UNCHANGED <<op, pc, settled>>
    BY <1>7 DEF PoisonRevisions
  <2>1. epoch'[g] = epoch[g] + 1
        /\ \A h \in Generations \ {g} : epoch'[h] = epoch[h] /\ pending'[h] = pending[h]
    BY <2>0 DEF RevisionsOK
  <2>2. \A h, j : Storing(h, j) => Storing(h, j)'
    BY <2>0 DEF Storing
  <2>3. StaleIsKnown'
    <3> SUFFICES ASSUME NEW q \in Procs, op[q].kind \in Responses, op[q].rev.epoch = epoch'[op[q].g],
                        settled[op[q].g][op[q].key].epoch = epoch'[op[q].g],
                        op[q].rev.seq <= settled[op[q].g][op[q].key].seq
                 PROVE  pending'[op[q].g][op[q].key].committed >= op[q].rev.seq
                               \/ Storing(op[q].g, op[q].key)'
      BY <2>0 DEF StaleIsKnown
    <3>1. op[q].g # g
      BY <1>0, <2>1 DEF Begun
    <3> QED BY <1>0, <2>0, <2>1, <2>2, <3>1 DEF Ordering, StaleIsKnown
  <2>4. Commits'
    BY <2>0 DEF Ordering, Commits
  <2> QED BY <2>3, <2>4 DEF Ordering

<1> QED BY <1>1, <1>2, <1>3, <1>4, <1>5, <1>6, <1>7, RevisionSteps

\* What decides a key is newer than what decided it before.
LEMMA SettlesNewer ==
  ASSUME Control, Counting, Ordering, [Next]_vars, NEW g \in Generations, NEW k \in Keys,
         settled'[g][k] # settled[g][k]
  PROVE  Newer(settled'[g][k], settled[g][k])
<1> USE DEF Control, DataOK
<1>1. ASSUME NEW p \in Procs, StoreRecord(p) PROVE Newer(settled'[g][k], settled[g][k])
  <2>1. /\ settled' = [settled EXCEPT ![op[p].g][op[p].key] = op[p].rev]
        /\ pc[p] = "applied" /\ op[p].kind \in Responses
    BY <1>1 DEF StoreRecord, Settle, Responses
  <2>2. g = op[p].g /\ k = op[p].key /\ settled'[g][k] = op[p].rev
    BY <2>1 DEF RevisionsOK
  <2> QED BY <2>1, <2>2 DEF Ordering, Commits, Open
<1>2. ASSUME NEW p \in Procs, StoreRemove(p) PROVE Newer(settled'[g][k], settled[g][k])
  <2>1. settled' = [settled EXCEPT ![op[p].g][op[p].key] = NextRevision(op[p].g)]
    BY <1>2, StoreRemoveEffect
  <2>2. g = op[p].g /\ settled'[g][k] = NextRevision(g)
    BY <2>1 DEF RevisionsOK
  <2>3. Begun(settled[g][k], g)
    BY DEF Counting, RevisionsBegun
  <2>4. settled[g][k].epoch \in Nat /\ settled[g][k].seq \in Nat /\ epoch[g] \in Nat /\ sequence[g] \in Nat
    BY DEF RevisionsOK, Revision
  <2> QED BY <2>2, <2>3, <2>4 DEF Newer, NextRevision, Begun
<1>3. ASSUME NEW p \in Procs, Commit(p) PROVE FALSE
  BY <1>3, CommitStepEffect
<1> QED BY <1>1, <1>2, <1>3, RevisionSteps DEF Calm, Begins, Drops, PoisonRevisions

-----------------------------------------------------------------------------
(* Deadlines *)

\* The steps that change neither a cache nor a route, nor take part in a transaction.
Quiet ==
    /\ UNCHANGED <<map, routes, epoch, changed>>
    /\ \A q \in Procs :
          \/ pc'[q] = pc[q] /\ op'[q] = op[q]
          \/ /\ pc[q] \notin Holding /\ pc'[q] \notin {"staged", "applied", "stored", "wait"}
             /\ op'[q].doomed \in {op[q].doomed, {}}

\* Every step is quiet, or one of these.
LEMMA QuietSteps ==
  ASSUME Control, [Next]_vars
  PROVE  \/ Quiet
         \/ \E p \in Procs :
              \/ StageRecord(p) \/ StageRemove(p) \/ StageSweep(p)
              \/ TransactInMemory(p) \/ Transact(p) \/ RejectTransaction(p)
              \/ StoreRecord(p) \/ StoreRemove(p) \/ StoreSweep(p) \/ Commit(p) \/ End(p)
         \/ \E g \in Generations :
              \/ PoisonRevisions(g) \/ ReadSignal(g) \/ LookAtDeadlines(g) \/ Activate(g) \/ Reactivate(g)
         \/ Clear
<1> USE DEF Control, DataOK, Start, Quiet, Holding, NoOp
<1>0. Generations \subseteq Procs /\ Callers \subseteq Procs /\ Reloader \in Procs
  BY DEF Procs
<1>1. ASSUME Tick \/ UNCHANGED vars PROVE Quiet
  BY <1>1 DEF Tick, vars
<1>2. ASSUME NEW p \in Callers, NEW g \in Generations, NEW k \in Keys, Remove(p, g, k) PROVE Quiet
  BY <1>0, <1>2 DEF Remove, Processes
<1>3. ASSUME NEW p \in Callers, NEW g \in Generations, NEW k \in Keys, NEW ips \in SUBSET Ips,
             NEW deadline \in now..MaxTime, Record(p, g, k, ips, deadline)
      PROVE  Quiet
  BY <1>0, <1>3 DEF Record, BeginRevision, Processes
<1>4. ASSUME NEW p \in Callers, Abandon(p) PROVE Quiet
  BY <1>0, <1>4 DEF Abandon, DropRevision, Processes
<1>5. ASSUME NEW p \in Callers, CancelledBeforeCommit(p) PROVE Quiet
  BY <1>0, <1>5 DEF CancelledBeforeCommit, Processes
<1>6. ASSUME NEW p \in Procs, Admit(p) PROVE Quiet
  BY <1>6 DEF Admit, Processes
<1>7. ASSUME NEW g \in Generations, Wake(g) \/ StopMaintenance(g) PROVE Quiet
  BY <1>0, <1>7 DEF Wake, StopMaintenance, Processes
<1>8. ASSUME BeginSnapshot \/ SweepForSnapshot \/ ReadSnapshot PROVE Quiet
  <2>1. CASE BeginSnapshot
    BY <1>0, <2>1 DEF BeginSnapshot, Processes
  <2>2. CASE SweepForSnapshot
    <3> DEFINE o == [op[Reloader] EXCEPT !.kind = "sweep"]
    <3>1. o.doomed = op[Reloader].doomed
      BY <1>0 DEF Processes, Op
    <3>2. op' = [op EXCEPT ![Reloader] = o]
      BY <2>2 DEF SweepForSnapshot
    <3> HIDE DEF o
    <3> QED BY <1>0, <2>2, <3>1, <3>2 DEF SweepForSnapshot, Processes
  <2>3. CASE ReadSnapshot
    BY <1>0, <2>3 DEF ReadSnapshot, Processes
  <2> QED BY <1>8, <2>1, <2>2, <2>3
<1>9. ASSUME NEW g \in Generations, Build(g) PROVE Quiet
  BY <1>0, <1>9 DEF Build, Processes
<1>10. ASSUME StartMaintenance PROVE Quiet
  <2>1. \A q \in Procs : pc'[q] = pc[q] \/ (pc'[q] \in {"built", "loop"} /\ pc[q] \in {"restoring", "off"})
    BY <1>10, ProcsAssumption DEF StartMaintenance, Processes, Restoring
  <2> QED BY <1>10, <2>1 DEF StartMaintenance
<1>11. ASSUME NEW k \in Keys, RestoreEntry(k) PROVE Quiet
  <2>1. UNCHANGED <<map, routes, epoch, changed>> /\ pc[Reloader] = "restoring"
    BY <1>11 DEF RestoreEntry, BeginRevision
  <2> DEFINE o == [op[Reloader] EXCEPT !.kind = "restore", !.key = k, !.ips = restoring[k].ips,
                                       !.deadline = restoring[k].deadline,
                                       !.rev = NextRevision(op[Reloader].g)]
  <2>2. o.doomed = op[Reloader].doomed
    BY <1>0 DEF Processes, Op
  <2>3. UNCHANGED <<pc,
                    op>> \/ (op' = [op EXCEPT ![Reloader] = o] /\ pc' = [pc EXCEPT ![Reloader] = "admitted"])
    BY <1>11, Zenon DEF RestoreEntry
  <2> HIDE DEF o
  <2> QED BY <1>0, <2>1, <2>2, <2>3 DEF Processes
<1> HIDE DEF Quiet
<1> QED BY <1>1, <1>2, <1>3, <1>4, <1>5, <1>6, <1>7, <1>8, <1>9, <1>10, <1>11, StepCases, Zenon

\* What keeps every deadline known: a cache that gains none, and nobody who falls asleep.
Undisturbed ==
    /\ UNCHANGED epoch /\ changed \subseteq changed'
    /\ \A g \in Generations, k \in Keys : cache'[g][k] \in {NoEntry, cache[g][k]}
    /\ \A q \in Procs :
          \/ pc'[q] = pc[q] /\ op'[q] = op[q]
          \/ pc[q] # "stored" /\ pc'[q] # "wait"

\* Such a step keeps what the sleepers know.
LEMMA UndisturbedStep ==
  ASSUME DeadlinesKnown, Undisturbed
  PROVE  DeadlinesKnown'
<1>1. \A g, k : Storing(g, k) => Storing(g, k)'
  BY DEF Storing, Undisturbed
<1> SUFFICES ASSUME NEW g \in Generations, pc'[g] = "wait", g \notin changed', epoch'[g] = 0,
                    NEW k \in Keys, cache'[g][k] # NoEntry
             PROVE  op'[g].time <= cache'[g][k].deadline \/ Storing(g, k)'
  BY DEF DeadlinesKnown, CachedKeys, Cached
<1>2. pc[g] = "wait" /\ op'[g] = op[g] /\ g \notin changed /\ epoch[g] = 0
  BY DEF Undisturbed, Procs
<1>3. cache'[g][k] = cache[g][k] /\ k \in CachedKeys(g)
  BY DEF Undisturbed, CachedKeys, Cached
<1> QED BY <1>1, <1>2, <1>3 DEF DeadlinesKnown

\* Deadlines stay known: whoever stores one announces it before it lets the lock go.
LEMMA DeadlinesStep ==
  ASSUME Control, Counting, DeadlinesKnown, [Next]_vars
  PROVE  DeadlinesKnown'
<1> USE DEF Control, DataOK, Start
<1>0. Generations \subseteq Procs /\ Reloader \in Procs
  BY DEF Procs

<1>1. ASSUME Quiet PROVE DeadlinesKnown'
  <2>1. Undisturbed
    BY <1>1 DEF Quiet, Undisturbed, Holding
  <2> QED BY <2>1, UndisturbedStep

<1>2. ASSUME NEW p \in Procs, StageRecord(p) \/ StageRemove(p) \/ StageSweep(p) PROVE DeadlinesKnown'
  <2>1. UNCHANGED <<cache, epoch, changed>> /\ pc[p] = "admitted"
    BY <1>2 DEF StageRecord, StageRemove, StageSweep, Lock
  <2>2. PICK o, l : op' = [op EXCEPT ![p] = o] /\ pc' = [pc EXCEPT ![p] = l] /\ l \in {"staged", "applied",
         "ending"}
    BY <1>2, Zenon DEF StageRecord, StageRemove, StageSweep
  <2>3. Undisturbed
    BY <2>1, <2>2 DEF Undisturbed, Processes
  <2> QED BY <2>3, UndisturbedStep

<1>3. ASSUME NEW p \in Procs, TransactInMemory(p) \/ Transact(p) \/ RejectTransaction(p) PROVE DeadlinesKnown'
  <2>1. UNCHANGED <<cache, epoch, changed, op>> /\ pc[p] = "staged"
        /\ \E l \in {"applied", "failed"} : pc' = [pc EXCEPT ![p] = l]
    BY <1>3 DEF TransactInMemory, Transact, RejectTransaction
  <2>2. Undisturbed
    BY <2>1 DEF Undisturbed, Processes
  <2> QED BY <2>2, UndisturbedStep

<1>4. ASSUME NEW p \in Procs, StoreRemove(p) \/ StoreSweep(p) PROVE DeadlinesKnown'
  <2>1. /\ UNCHANGED <<epoch, op>> /\ changed \subseteq changed' /\ pc[p] = "applied"
        /\ pc' = [pc EXCEPT ![p] = "ending"]
        /\ cache' = [cache EXCEPT ![op[p].g] = Discarded(@, op[p].doomed)]
    BY <1>4 DEF StoreRemove, StoreSweep, Invalidate
  <2>2. \A g \in Generations, k \in Keys : cache'[g][k] \in {NoEntry, cache[g][k]}
    BY <2>1 DEF Discarded, RoutesOK
  <2>3. Undisturbed
    BY <2>1, <2>2 DEF Undisturbed, Processes
  <2> QED BY <2>3, UndisturbedStep

<1>5. ASSUME NEW p \in Procs, StoreRecord(p) PROVE DeadlinesKnown'
  <2> DEFINE g == op[p].g  k == op[p].key
  <2>1. /\ UNCHANGED <<epoch, op, changed>> /\ pc[p] = "applied" /\ op[p].kind \in Responses
        /\ pc' = [pc EXCEPT ![p] = "stored"]
        /\ \E e : cache' = [cache EXCEPT ![g] = [Discarded(@, op[p].doomed) EXCEPT ![k] = e]]
    BY <1>5 DEF StoreRecord, Responses
  <2>2. g \in Generations /\ k \in Keys
    BY <2>1 DEF Processes, ProcOK, Working
  <2>3. \A h \in Generations, j \in Keys : h # g \/ j # k => cache'[h][j] \in {NoEntry, cache[h][j]}
    BY <2>1 DEF Discarded, RoutesOK
  <2>4. pc'[p] = "stored" /\ \A q \in Procs \ {p} : pc'[q] = pc[q]
    BY <2>1 DEF Processes
  <2>5. Storing(g, k)' /\ \A h, j : Storing(h, j) => Storing(h, j)'
    BY <2>1, <2>4 DEF Storing
  <2> SUFFICES ASSUME NEW h \in Generations, pc'[h] = "wait", h \notin changed, epoch[h] = 0,
                      NEW j \in Keys, cache'[h][j] # NoEntry
               PROVE  op[h].time <= cache'[h][j].deadline \/ Storing(h, j)'
    BY <2>1 DEF DeadlinesKnown, CachedKeys, Cached
  <2>6. CASE h = g /\ j = k
    BY <2>1, <2>5, <2>6
  <2>7. CASE h # g \/ j # k
    <3>1. pc[h] = "wait"
      BY <1>0, <2>4
    <3>2. cache'[h][j] = cache[h][j] /\ j \in CachedKeys(h)
      BY <2>3, <2>7 DEF CachedKeys, Cached
    <3> QED BY <2>5, <3>1, <3>2 DEF DeadlinesKnown
  <2> QED BY <2>6, <2>7

<1>6. ASSUME NEW p \in Procs, Commit(p) PROVE DeadlinesKnown'
  <2> DEFINE g == op[p].g  k == op[p].key
  <2>1. /\ g \in Generations /\ k \in Keys /\ op[p].kind \in Responses /\ UNCHANGED <<op, epoch, cache>>
        /\ pc[p] = "stored"
    BY <1>6, CommitStepEffect DEF Commit
  <2>2. pc'[p] \notin {"wait", "off"} /\ \A q \in Procs \ {p} : pc'[q] = pc[q]
    BY <1>6 DEF Commit, Processes
  <2>3. changed \subseteq changed'
    BY <1>6 DEF Commit, NotifyDeadlineChanged
  <2>4. epoch[g] = 0 => g \in changed' \/ pc[g] = "off"
    <3> SUFFICES ASSUME epoch[g] = 0 PROVE g \in changed' \/ pc[g] = "off"
      OBVIOUS
    <3>1. op[p].rev.epoch = epoch[g]
      BY <2>1 DEF Counting, RevisionsBegun, Begun, Processes, Op, Revision
    <3>2. p \in Tokens(g, k)
      BY <2>1, <3>1 DEF Tokens
    <3>3. pending[g][k].count > 0
      BY <2>1, <3>2, TokenIsCounted DEF Counting
    <3>4. CASE op[p].kind = "record"
      BY <1>6, <3>1, <3>3, <3>4 DEF Commit, NotifyDeadlineChanged
    <3>5. CASE op[p].kind = "restore"
      <4>1. p = Reloader
        BY <3>5 DEF Processes, ProcOK, Procs
      <4> QED BY <3>5, <4>1 DEF Restoring
    <3> QED BY <2>1, <3>4, <3>5 DEF Responses
  <2> SUFFICES ASSUME NEW h \in Generations, pc'[h] = "wait", h \notin changed', epoch[h] = 0,
                      NEW j \in CachedKeys(h)
               PROVE  op[h].time <= cache[h][j].deadline \/ Storing(h, j)'
    BY <2>1 DEF DeadlinesKnown, CachedKeys, Cached
  <2>5. pc[h] = "wait" /\ h # g
    BY <1>0, <2>2, <2>4
  <2>6. op[h].time <= cache[h][j].deadline \/ Storing(h, j)
    BY <2>3, <2>5 DEF DeadlinesKnown
  <2>7. Storing(h, j) => Storing(h, j)'
    BY <2>1, <2>2, <2>5 DEF Storing
  <2> QED BY <2>6, <2>7

<1>7. ASSUME NEW p \in Procs, End(p) PROVE DeadlinesKnown'
  <2>1. UNCHANGED <<cache, epoch, changed>> /\ pc[p] \in {"ending", "failed"}
    BY <1>7 DEF End, DropRevision
  <2>2. /\ \A q \in Procs \ {p} :
              /\ op'[q] = op[q]
              /\ \/ pc'[q] = pc[q]
                 \/ pc'[q] = "stopped" /\ p = Reloader /\ op[p].kind = "restore" /\ q = op[p].g
        /\ pc'[p] = "wait" => op'[p].time = 0
    BY <1>7, <2>1, ResumeEffect DEF End
  <2>3. \A q \in Procs \ {p} : pc'[q] = pc[q] \/ (pc'[q] = "stopped" /\ pc[q] = "off")
    BY <2>2 DEF Restoring
  <2>4. \A h, j : Storing(h, j) => Storing(h, j)'
    BY <2>1, <2>2, <2>3 DEF Storing
  <2> SUFFICES ASSUME NEW h \in Generations, pc'[h] = "wait", h \notin changed, epoch[h] = 0,
                      NEW j \in CachedKeys(h)
               PROVE  op'[h].time <= cache[h][j].deadline \/ Storing(h, j)'
    BY <2>1 DEF DeadlinesKnown, CachedKeys, Cached
  <2>5. CASE h = p
    <3>1. cache[h][j].deadline >= 0
      BY DEF RoutesOK, Entry, CachedKeys
    <3> QED BY <2>2, <2>5, <3>1
  <2>6. CASE h # p
    BY <1>0, <2>2, <2>3, <2>4, <2>6 DEF DeadlinesKnown
  <2> QED BY <2>5, <2>6

<1>8. ASSUME NEW g \in Generations, PoisonRevisions(g) PROVE DeadlinesKnown'
  <2>1. UNCHANGED <<cache, changed, pc, op>> /\ epoch' = [epoch EXCEPT ![g] = @ + 1]
    BY <1>8 DEF PoisonRevisions
  <2>2. epoch'[g] # 0 /\ \A h \in Generations \ {g} : epoch'[h] = epoch[h]
    BY <2>1 DEF RevisionsOK
  <2>3. \A h, j : Storing(h, j) => Storing(h, j)'
    BY <2>1 DEF Storing
  <2> QED BY <2>1, <2>2, <2>3 DEF DeadlinesKnown, CachedKeys, Cached

<1>9. ASSUME NEW g \in Generations, ReadSignal(g) PROVE DeadlinesKnown'
  <2>1. UNCHANGED <<cache, epoch, op>> /\ changed' = changed \ {g} /\ pc[g] = "loop"
        /\ pc' = [pc EXCEPT ![g] = "look"]
    BY <1>9 DEF ReadSignal
  <2>2. pc'[g] = "look" /\ \A q \in Procs \ {g} : pc'[q] = pc[q]
    BY <1>0, <2>1 DEF Processes
  <2>3. \A h, j : Storing(h, j) => Storing(h, j)'
    BY <2>1, <2>2 DEF Storing
  <2> QED BY <1>0, <2>1, <2>2, <2>3 DEF DeadlinesKnown, CachedKeys, Cached

<1>10. ASSUME NEW g \in Generations, LookAtDeadlines(g) PROVE DeadlinesKnown'
  <2>1. UNCHANGED <<cache, epoch, changed>> /\ pc[g] = "look"
    BY <1>10 DEF LookAtDeadlines
  <2>2. CASE NextExpiry(g) <= now
    <3>1. PICK o : op' = [op EXCEPT ![g] = o] /\ pc' = [pc EXCEPT ![g] = "queued"]
      BY <1>10, <2>2 DEF LookAtDeadlines
    <3>2. Undisturbed
      BY <1>0, <2>1, <3>1 DEF Undisturbed, Processes
    <3> QED BY <3>2, UndisturbedStep
  <2>3. CASE ~(NextExpiry(g) <= now)
    <3> DEFINE o == [NoOp EXCEPT !.time = NextExpiry(g)]
    <3>1. o.time = NextExpiry(g)
      BY NoOpType DEF Op
    <3>2. op' = [op EXCEPT ![g] = o] /\ pc' = [pc EXCEPT ![g] = "wait"]
      BY <1>10, <2>3 DEF LookAtDeadlines
    <3> HIDE DEF o
    <3>3. op'[g].time = NextExpiry(g) /\ \A q \in Procs \ {g} : pc'[q] = pc[q] /\ op'[q] = op[q]
      BY <1>0, <3>1, <3>2 DEF Processes
    <3>4. \A h, j : Storing(h, j) => Storing(h, j)'
      BY <2>1, <3>3 DEF Storing
    <3>5. \A j \in CachedKeys(g) : op'[g].time <= cache[g][j].deadline
      BY <3>3, NextExpiryType
    <3> QED BY <1>0, <2>1, <3>3, <3>4, <3>5 DEF DeadlinesKnown, CachedKeys, Cached
  <2> QED BY <2>2, <2>3

<1>11. ASSUME NEW g \in Generations, Activate(g) \/ Reactivate(g) PROVE DeadlinesKnown'
  <2>1. /\ UNCHANGED <<cache, epoch, changed>>
        /\ \/ UNCHANGED <<pc, op>>
           \/ /\ pc[Reloader] \in {"built", "idle"}
              /\ pc' = [pc EXCEPT ![Reloader] = "idle"] /\ op' = [op EXCEPT ![Reloader] = NoOp]
    BY <1>11 DEF Activate, Reactivate
  <2>2. Undisturbed
    BY <1>0, <2>1 DEF Undisturbed, Processes
  <2> QED BY <2>2, UndisturbedStep
<1>12. ASSUME Clear PROVE DeadlinesKnown'
  <2>1. /\ UNCHANGED <<cache, epoch, changed, op>> /\ pc[Reloader] = "idle"
        /\ pc' = [pc EXCEPT ![Reloader] = "stopped"]
    BY <1>12 DEF Clear
  <2>2. Undisturbed
    BY <1>0, <2>1 DEF Undisturbed, Processes
  <2> QED BY <2>2, UndisturbedStep

<1> QED BY <1>1, <1>2, <1>3, <1>4, <1>5, <1>6, <1>7, <1>8, <1>9, <1>10, <1>11, <1>12, QuietSteps

\* With the lock free nobody is storing, so that the sleeper knows every deadline.
LEMMA DeadlinesImply == Control /\ DeadlinesKnown => NoMissedDeadline
<1> SUFFICES ASSUME Control, DeadlinesKnown, NEW g \in Generations, pc[g] = "wait", g \notin changed,
                    mutation[g] = None, epoch[g] = 0, NEW k \in CachedKeys(g)
             PROVE  op[g].time <= cache[g][k].deadline
  BY DEF NoMissedDeadline, Deadlines
<1>1. ~Storing(g, k)
  BY ProcsAssumption DEF Control, Storing, Locking, Holding
<1> QED BY <1>1 DEF DeadlinesKnown

-----------------------------------------------------------------------------
(* Trackers *)

\* The batches of this module name every owner with a route or with none at all.
Clean(e) == \A k \in DOMAIN e : e[k] = NoRoute \/ ~IsEmpty(e[k])

\* A tracker nothing was applied to is in order.
LEMMA EmptyTrackerOK == TrackerOK(EmptyTracker)
  BY DEF TrackerOK, EmptyTracker, Tracker, NoRoute, Snapshot

\* The owners determine the index.
LEMMA SameOwners ==
  ASSUME NEW t, NEW u, TrackerOK(t), TrackerOK(u), \A k \in Keys : t.owners[k] = u.owners[k]
  PROVE  t = u
<1>1. t \in Tracker /\ u \in Tracker
  BY DEF TrackerOK
<1>2. t.owners = u.owners
  BY <1>1 DEF Tracker
<1>3. ASSUME NEW i \in Ips, NEW k \in Keys PROVE t.index[i][k] = u.index[i][k]
  <2>1. t.index[i][k] = IF i \in t.owners[k].ips THEN t.owners[k].bits ELSE {}
    BY DEF TrackerOK
  <2>2. u.index[i][k] = IF i \in u.owners[k].ips THEN u.owners[k].bits ELSE {}
    BY DEF TrackerOK
  <2> QED BY <2>1, <2>2
<1>4. t.index = u.index
  <2>1. \A i \in Ips : t.index[i] \in [Keys -> SUBSET Rules] /\ u.index[i] \in [Keys -> SUBSET Rules]
    BY <1>1 DEF Tracker
  <2>2. \A i \in Ips : t.index[i] = u.index[i]
    BY <1>3, <2>1
  <2> QED BY <1>1, <2>2 DEF Tracker
<1> QED BY <1>1, <1>2, <1>4 DEF Tracker

\* Events that change no owner leave what it has.
LEMMA EventsKept ==
  ASSUME NEW t, TrackerOK(t), NEW e \in Events, Clean(e), NEW k \in Keys, k \in DOMAIN e,
         k \notin Replacements(t, e)
  PROVE  t.owners[k] = e[k]
  BY DEF Clean, Replacements, NoRoute, IsEmpty

\* What a batch makes of the owners, and that the index follows them.
LEMMA ApplyOwners ==
  ASSUME NEW t, TrackerOK(t), NEW e \in Events, Clean(e)
  PROVE  /\ TrackerOK(ApplyEvents(t, e))
         /\ \A k \in Keys : ApplyEvents(t, e).owners[k] = IF k \in DOMAIN e THEN e[k] ELSE t.owners[k]
<1> DEFINE u == ApplyEvents(t, e)
<1>1. t \in Tracker /\ u \in Tracker
  BY ApplyEventsType DEF TrackerOK
<1>2. \A k \in Keys : u.owners[k] = IF k \in Replacements(t, e)
                                    THEN IF IsEmpty(e[k]) THEN NoRoute ELSE e[k]
                                    ELSE t.owners[k]
  BY DEF ApplyEvents
<1>3. Replacements(t, e) \subseteq DOMAIN e
  BY DEF Replacements
<1>4. \A k \in Keys : u.owners[k] = IF k \in DOMAIN e THEN e[k] ELSE t.owners[k]
  <2> SUFFICES ASSUME NEW k \in Keys
               PROVE  u.owners[k] = IF k \in DOMAIN e THEN e[k] ELSE t.owners[k]
    OBVIOUS
  <2>1. CASE k \in Replacements(t, e)
    BY <1>2, <1>3, <2>1 DEF Clean
  <2>2. CASE k \notin Replacements(t, e)
    BY <1>2, <2>2, EventsKept
  <2> QED BY <2>1, <2>2
<1>5. \A k \in Keys : u.owners[k] = NoRoute \/ ~IsEmpty(u.owners[k])
  BY <1>4 DEF Clean, TrackerOK
<1>6. \A i \in Ips, k \in Keys : u.index[i][k] = IF i \in u.owners[k].ips THEN u.owners[k].bits ELSE {}
  <2> SUFFICES ASSUME NEW i \in Ips, NEW k \in Keys
               PROVE  u.index[i][k] = IF i \in u.owners[k].ips THEN u.owners[k].bits ELSE {}
    OBVIOUS
  <2>0. t.index[i][k] = IF i \in t.owners[k].ips THEN t.owners[k].bits ELSE {}
    BY DEF TrackerOK
  <2>1. u.index[i][k] = IF i \in Affected(t, e) /\ k \in Replacements(t, e)
                        THEN Replaced(t, k, e[k], i) ELSE t.index[i][k]
    BY DEF ApplyEvents, Staged
  <2> HIDE DEF u
  <2>2. CASE k \notin Replacements(t, e)
    <3>1. u.owners[k] = t.owners[k]
      BY <1>2, <2>2
    <3> QED BY <2>0, <2>1, <2>2, <3>1
  <2>3. CASE k \in Replacements(t, e) /\ i \in Affected(t, e)
    <3>1. u.index[i][k] = Replaced(t, k, e[k], i)
      BY <2>1, <2>3
    <3>2. u.owners[k] = IF IsEmpty(e[k]) THEN NoRoute ELSE e[k]
      BY <1>2, <2>3
    <3> QED BY <2>0, <3>1, <3>2 DEF Replaced, NoRoute
  <2>4. CASE k \in Replacements(t, e) /\ i \notin Affected(t, e)
    <3>1. i \notin t.owners[k].ips /\ i \notin e[k].ips
      BY <2>4 DEF Affected
    <3>2. u.owners[k] = IF IsEmpty(e[k]) THEN NoRoute ELSE e[k]
      BY <1>2, <2>4
    <3> QED BY <2>0, <2>1, <2>4, <3>1, <3>2 DEF NoRoute
  <2> QED BY <2>2, <2>3, <2>4
<1> QED BY <1>1, <1>4, <1>5, <1>6 DEF TrackerOK

\* The fence's copy of a batch is the owner's.
LEMMA SyncIsApply ==
  ASSUME NEW t, TrackerOK(t), NEW e \in Events, Clean(e)
  PROVE  SyncOwners(t, e) = ApplyEvents(t, e)
<1> DEFINE u == SyncOwners(t, e)
<1>1. t \in Tracker /\ u \in Tracker
  BY SyncOwnersType DEF TrackerOK
<1>2. \A k \in Keys : u.owners[k] = IF k \in DOMAIN e THEN e[k] ELSE t.owners[k]
  BY DEF SyncOwners, Clean
<1>3. \A k \in Keys : u.owners[k] = NoRoute \/ ~IsEmpty(u.owners[k])
  BY <1>2 DEF Clean, TrackerOK
<1>4. \A i \in Ips, k \in Keys : u.index[i][k] = IF i \in u.owners[k].ips THEN u.owners[k].bits ELSE {}
  <2> SUFFICES ASSUME NEW i \in Ips, NEW k \in Keys
               PROVE  u.index[i][k] = IF i \in u.owners[k].ips THEN u.owners[k].bits ELSE {}
    OBVIOUS
  <2>0. t.index[i][k] = IF i \in t.owners[k].ips THEN t.owners[k].bits ELSE {}
    BY DEF TrackerOK
  <2>1. u.index[i][k] = IF k \in DOMAIN e /\ t.owners[k] # e[k]
                        THEN Replaced(t, k, e[k], i) ELSE t.index[i][k]
    BY DEF SyncOwners
  <2> HIDE DEF u
  <2>2. CASE k \notin DOMAIN e \/ t.owners[k] = e[k]
    BY <1>2, <2>0, <2>1, <2>2
  <2>3. CASE k \in DOMAIN e /\ t.owners[k] # e[k]
    BY <1>2, <2>0, <2>1, <2>3 DEF Replaced, Clean, NoRoute, IsEmpty
  <2> QED BY <2>2, <2>3
<1>5. TrackerOK(u)
  BY <1>1, <1>3, <1>4 DEF TrackerOK
<1> HIDE DEF u
<1>6. u = ApplyEvents(t, e)
  BY <1>2, <1>5, ApplyOwners, SameOwners
<1> QED BY <1>6 DEF u

\* A batch that replaces no owner changes nothing.
LEMMA NothingApplied ==
  ASSUME NEW t, TrackerOK(t), NEW e \in Events, Clean(e), Replacements(t, e) = {}
  PROVE  ApplyEvents(t, e) = t
<1>1. \A k \in Keys : ApplyEvents(t, e).owners[k] = t.owners[k]
  BY ApplyOwners, EventsKept
<1> QED BY <1>1, ApplyOwners, SameOwners

\* Addresses nobody owns have an empty bitmap.
LEMMA MergedFacts ==
  ASSUME NEW b, NEW c
  PROVE  /\ ~Present(b) => Merged(b) = {}
         /\ (\A k \in Keys : b[k] = c[k]) => Merged(b) = Merged(c)
  BY DEF Present, Merged

\* A batch takes the map from one tracker to the next.
LEMMA BatchWritten ==
  ASSUME NEW t, TrackerOK(t), NEW e, NEW b \in BOOLEAN, ~b => t = EmptyTracker, NEW m,
         \A i \in Ips : m[i] = Merged(t.index[i]), NEW i \in Ips
  PROVE  Written(m, Staged(t, e), Updates(t, b, e), Deletes(t, b, e))[i] = Merged(Staged(t, e)[i])
<1> DEFINE next == Staged(t, e)
           W == Written(m, next, Updates(t, b, e), Deletes(t, b, e))
<1>1. W[i] = IF i \in Updates(t, b, e) THEN Merged(next[i])
             ELSE IF i \in Deletes(t, b, e) THEN {} ELSE m[i]
  BY DEF Written
<1> HIDE DEF W
<1>2. i \in Deletes(t, b, e) => ~Present(next[i])
  BY DEF Deletes
<1>3. ASSUME i \notin Updates(t, b, e), i \notin Deletes(t, b, e) PROVE W[i] = Merged(next[i])
  <2>1. m[i] = Merged(t.index[i])
    OBVIOUS
  <2>2. CASE b /\ i \in Affected(t, e)
    <3>1. ~(Present(next[i]) /\ (~Present(t.index[i]) \/ Merged(next[i]) # Merged(t.index[i])))
      BY <1>3, <2>2 DEF Updates
    <3>2. ~(Present(t.index[i]) /\ ~Present(next[i]))
      BY <1>3, <2>2 DEF Deletes
    <3> QED BY <1>1, <1>3, <2>1, <3>1, <3>2, MergedFacts
  <2>3. CASE b /\ i \notin Affected(t, e)
    <3>1. \A k \in Keys : next[i][k] = t.index[i][k]
      BY <2>3 DEF Staged
    <3>2. Merged(next[i]) = Merged(t.index[i])
      BY <3>1, MergedFacts
    <3> QED BY <1>1, <1>3, <2>1, <3>2
  <2>4. CASE ~b
    <3>1. ~Present(next[i])
      BY <1>3, <2>4 DEF Updates
    <3>2. ~Present(t.index[i])
      BY <2>4 DEF EmptyTracker, Present
    <3> QED BY <1>1, <1>3, <2>1, <3>1, <3>2, MergedFacts
  <2> QED BY <2>2, <2>3, <2>4
<1>4. W[i] = Merged(next[i])
  BY <1>1, <1>2, <1>3, MergedFacts
<1> QED BY <1>4 DEF W

\* A switch takes the map from the fence's tracker to that of the next generation.
LEMMA SwitchWritten ==
  ASSUME NEW g \in Generations, ~installed => fence = EmptyTracker, installed \in BOOLEAN,
         \A i \in Ips : bpf[i] = Merged(fence.index[i]), NEW i \in Ips
  PROVE  MapSwitched(g)[i] = Merged(owner[g].index[i])
<1> DEFINE t == fence  u == owner[g]
<1>1. MapSwitched(g)[i] = IF i \in SwitchUpdates(g) THEN Merged(u.index[i])
                          ELSE IF i \in SwitchDeletes(g) THEN {} ELSE bpf[i]
  BY DEF MapSwitched, Written
<1>2. CASE installed
  <2>1. i \in SwitchUpdates(g) <=>
           Present(u.index[i]) /\ (~Present(t.index[i]) \/ Merged(u.index[i]) # Merged(t.index[i]))
    BY <1>2 DEF SwitchUpdates, TransitionUpdates
  <2>2. i \in SwitchDeletes(g) <=> Present(t.index[i]) /\ ~Present(u.index[i])
    BY <1>2 DEF SwitchDeletes, TransitionDeletes
  <2> QED BY <1>1, <2>1, <2>2, MergedFacts
<1>3. CASE ~installed
  <2>1. i \in SwitchUpdates(g) <=> Present(u.index[i])
    BY <1>3 DEF SwitchUpdates
  <2>2. i \notin SwitchDeletes(g)
    BY <1>3 DEF SwitchDeletes
  <2>3. ~Present(t.index[i])
    BY <1>3 DEF EmptyTracker, Present
  <2> QED BY <1>1, <2>1, <2>2, <2>3, MergedFacts
<1> QED BY <1>2, <1>3

\* An owner that follows the cache routes what the cache holds.
LEMMA OwnerRoutes ==
  ASSUME NEW g \in Generations, TrackerOK(owner[g]), \A k \in Keys : RoutableEntry(g, k, cache[g][k]),
         \A k \in Keys : owner[g].owners[k] = Route(g, k, cache[g][k]), NEW i \in Ips
  PROVE  Merged(owner[g].index[i]) = Routed(g, i)
<1>1. ASSUME NEW k \in Keys
      PROVE  owner[g].index[i][k] = IF k \in CachedKeys(g) /\ i \in cache[g][k].ips THEN Matches[g][k] ELSE {}
  <2>1. owner[g].index[i][k] = IF i \in owner[g].owners[k].ips THEN owner[g].owners[k].bits ELSE {}
    BY DEF TrackerOK
  <2>2. owner[g].owners[k] = Route(g, k, cache[g][k])
    OBVIOUS
  <2>3. CASE cache[g][k] = NoEntry
    BY <2>1, <2>2, <2>3 DEF Route, CachedKeys, Cached, NoRoute
  <2>4. CASE cache[g][k] # NoEntry
    <3>1. Route(g, k, cache[g][k]) = [bits |-> Matches[g][k], ips |-> cache[g][k].ips]
      BY <2>4 DEF Route
    <3> QED BY <2>1, <2>2, <2>4, <3>1 DEF CachedKeys, Cached
  <2> QED BY <2>3, <2>4
<1> QED BY <1>1 DEF Merged, Routed, CachedKeys

-----------------------------------------------------------------------------
(* Routes *)

\* Fresh is inductive.
LEMMA FreshStep ==
  ASSUME Control, Fresh, [Next]_vars
  PROVE  Fresh'
<1> USE DEF Control, DataOK, Start
<1>0. Generations \subseteq Procs /\ Reloader \in Procs
  BY DEF Procs
<1>1. ASSUME Quiet PROVE Fresh'
  BY <1>1 DEF Quiet, Fresh
<1>2. ASSUME NEW p \in Procs, StageRecord(p) \/ StageRemove(p) \/ StageSweep(p) PROVE Fresh'
  <2>1. PICK o, l : op' = [op EXCEPT ![p] = o] /\ pc' = [pc EXCEPT ![p] = l] /\ l \in {"staged", "applied",
         "ending"}
    BY <1>2, Zenon DEF StageRecord, StageRemove, StageSweep
  <2> QED BY <2>1 DEF Fresh, Holding, Processes
<1>3. ASSUME NEW p \in Procs, TransactInMemory(p) \/ Transact(p) \/ RejectTransaction(p)
                                \/ StoreRecord(p) \/ StoreRemove(p) \/ StoreSweep(p) \/ Commit(p)
      PROVE  Fresh'
  <2>1. op' = op /\ \E l \in Holding : pc' = [pc EXCEPT ![p] = l]
    BY <1>3 DEF TransactInMemory, Transact, RejectTransaction, StoreRecord, StoreRemove, StoreSweep, Commit,
       Holding
  <2> QED BY <2>1 DEF Fresh, Processes
<1>4. ASSUME NEW p \in Procs, End(p) PROVE Fresh'
  <2>1. /\ \A q \in Procs \ {p} :
              /\ op'[q] = op[q]
              /\ \/ pc'[q] = pc[q]
                 \/ pc'[q] = "stopped" /\ p = Reloader /\ op[p].kind = "restore" /\ q = op[p].g
        /\ op'[p].doomed = {}
    BY <1>4, ResumeEffect DEF End
  <2>2. \A q \in Procs \ {p} : pc'[q] \notin Holding => pc[q] \notin Holding
    BY <2>1 DEF Restoring, Holding
  <2> QED BY <2>1, <2>2 DEF Fresh
<1>5. ASSUME NEW g \in Generations, PoisonRevisions(g) \/ Reactivate(g) PROVE Fresh'
  BY <1>5 DEF PoisonRevisions, Reactivate, Fresh
<1>6. ASSUME NEW g \in Generations, ReadSignal(g) PROVE Fresh'
  BY <1>0, <1>6 DEF ReadSignal, Fresh, Processes, Holding
<1>7. ASSUME NEW g \in Generations, LookAtDeadlines(g) PROVE Fresh'
  <2>1. PICK o : op' = [op EXCEPT ![g] = o] /\ o.doomed = {}
    <3>1. [NoOp EXCEPT !.kind = "sweep",
         !.g = g].doomed = {} /\ [NoOp EXCEPT !.time = NextExpiry(g)].doomed = {}
      BY DEF NoOp
    <3> QED BY <1>7, <3>1 DEF LookAtDeadlines
  <2>2. \A q \in Procs \ {g} : pc'[q] = pc[q]
    BY <1>0, <1>7 DEF LookAtDeadlines, Processes
  <2> QED BY <1>0, <2>1, <2>2 DEF Fresh, Processes
<1>8. ASSUME NEW g \in Generations, Activate(g) PROVE Fresh'
  BY <1>0, <1>8 DEF Activate, Fresh, Processes, NoOp
<1>9. ASSUME Clear PROVE Fresh'
  BY <1>0, <1>9 DEF Clear, Fresh, Processes, Holding
<1> QED BY <1>1, <1>2, <1>3, <1>4, <1>5, <1>6, <1>7, <1>8, <1>9, QuietSteps

Owning == OwnersOK /\ OwnersFollow /\ BatchesFit

\* The steps that leave caches and owners, and open or store no transaction.
Still ==
    /\ UNCHANGED <<cache, owner, bound>>
    /\ \A q \in Procs :
          \/ pc'[q] = pc[q] /\ op'[q] = op[q]
          \/ pc[q] # "applied" /\ pc'[q] \notin Open

\* Such a step keeps the routes.
LEMMA StillStep ==
  ASSUME Owning, Still
  PROVE  Owning'
<1>1. \A q \in Procs : pc'[q] \in Open \/ pc[q] = "applied" => pc'[q] = pc[q] /\ op'[q] = op[q]
  BY DEF Still
<1>2. UNCHANGED <<cache, owner, bound>>
  BY DEF Still
<1>3. OwnersOK'
  BY <1>2 DEF Owning, OwnersOK, RoutableEntry
<1>4. OwnersFollow'
  <2>1. ASSUME NEW g \in Generations, \A p \in Procs : ~(pc'[p] = "applied" /\ op'[p].g = g), NEW k \in Keys
        PROVE  owner[g].owners[k] = Route(g, k, cache[g][k])
    BY <1>1, <2>1 DEF Owning, OwnersFollow, Open
  <2>2. ASSUME NEW p \in Procs, pc'[p] = "applied", NEW k \in Keys
        PROVE  owner[op'[p].g].owners[k] = Route(op'[p].g, k, After(op[p], k)')
    <3>1. pc[p] = "applied" /\ op'[p] = op[p]
      BY <1>1, <2>2 DEF Open
    <3>2. After(op[p], k)' = After(op[p], k)
      BY <1>2, <3>1 DEF After, HasPlan
    <3> QED BY <3>1, <3>2 DEF Owning, OwnersFollow
  <2> QED BY <1>2, <2>1, <2>2 DEF OwnersFollow
<1>5. BatchesFit'
  <2> SUFFICES ASSUME NEW p \in Procs, pc'[p] = "staged", NEW k \in Keys
               PROVE  IF k \in DOMAIN op'[p].events
                      THEN op'[p].events[k] = Route(op'[p].g, k, After(op[p], k)')
                      ELSE After(op[p], k)' = cache'[op'[p].g][k]
    BY DEF BatchesFit
  <2>1. pc[p] = "staged" /\ op'[p] = op[p]
    BY <1>1 DEF Open
  <2>2. After(op[p], k)' = After(op[p], k)
    BY <1>2, <2>1 DEF After, HasPlan
  <2> QED BY <1>2, <2>1, <2>2 DEF Owning, BatchesFit
<1> QED BY <1>3, <1>4, <1>5 DEF Owning

\* Nobody is inside a transaction of a generation whose lock is free.
LEMMA NobodyInside ==
  ASSUME Control, NEW g \in Generations, mutation[g] = None, NEW q \in Procs, op[q].g = g
  PROVE  pc[q] \notin Holding
  BY ProcsAssumption DEF Control, Locking

\* A process opens its transaction at m with the operation o.
Opens(p, o, m) ==
    /\ pc[p] = "admitted" /\ mutation[op[p].g] = None
    /\ op' = [op EXCEPT ![p] = o] /\ pc' = [pc EXCEPT ![p] = m]
    /\ o.g = op[p].g
    /\ UNCHANGED <<cache, owner, bound>>

\* A transaction that opens keeps the routes, when its batch fits what it will store.
LEMMA OpensStep ==
  ASSUME Control, Owning, NEW p \in Procs, NEW o, NEW m \in {"staged", "applied", "ending"}, Opens(p, o, m),
         m = "applied" => \A k \in Keys : After(o, k) = cache[o.g][k],
         m = "staged" => \A k \in Keys :
             IF k \in DOMAIN o.events THEN o.events[k] = Route(o.g, k, After(o, k)) ELSE After(o,
             k) = cache[o.g][k]
  PROVE  Owning'
<1> USE DEF Control, DataOK
<1>0. op[p].g \in Generations /\ UNCHANGED <<cache, owner, bound>> /\ o.g = op[p].g
  BY DEF Opens, Processes, ProcOK, Working
<1>1. /\ pc'[p] = m /\ op'[p] = o /\ pc[p] = "admitted"
      /\ \A q \in Procs \ {p} : pc'[q] = pc[q] /\ op'[q] = op[q]
  BY DEF Opens, Processes
<1>2. OwnersOK'
  BY <1>0 DEF Owning, OwnersOK, RoutableEntry
<1>3. ASSUME NEW q \in Procs, NEW k \in Keys, op'[q] = op[q] PROVE After(op[q], k)' = After(op[q], k)
  BY <1>0, <1>3 DEF After, HasPlan
<1>4. ASSUME NEW k \in Keys PROVE After(op[p], k)' = After(o, k)
  BY <1>0, <1>1 DEF After, HasPlan
<1>5. OwnersFollow'
  <2>1. ASSUME NEW g \in Generations, \A q \in Procs : ~(pc'[q] = "applied" /\ op'[q].g = g), NEW k \in Keys
        PROVE  owner[g].owners[k] = Route(g, k, cache[g][k])
    <3>1. \A q \in Procs : ~(pc[q] = "applied" /\ op[q].g = g)
      BY <1>1, <2>1
    <3> QED BY <3>1 DEF Owning, OwnersFollow
  <2>2. ASSUME NEW q \in Procs, pc'[q] = "applied", NEW k \in Keys
        PROVE  owner[op'[q].g].owners[k] = Route(op'[q].g, k, After(op[q], k)')
    <3>1. CASE q # p
      BY <1>1, <1>3, <2>2, <3>1 DEF Owning, OwnersFollow
    <3>2. CASE q = p
      <4>1. op'[q].g = op[p].g /\ After(op[q], k)' = cache[op[p].g][k]
        BY <1>0, <1>1, <1>4, <2>2, <3>2
      <4>2. \A r \in Procs : ~(pc[r] = "applied" /\ op[r].g = op[p].g)
        BY <1>0, NobodyInside DEF Opens, Holding
      <4> QED BY <1>0, <4>1, <4>2 DEF Owning, OwnersFollow
    <3> QED BY <3>1, <3>2
  <2> QED BY <1>0, <2>1, <2>2 DEF OwnersFollow
<1>6. BatchesFit'
  <2> SUFFICES ASSUME NEW q \in Procs, pc'[q] = "staged", NEW k \in Keys
               PROVE  IF k \in DOMAIN op'[q].events
                      THEN op'[q].events[k] = Route(op'[q].g, k, After(op[q], k)')
                      ELSE After(op[q], k)' = cache'[op'[q].g][k]
    BY DEF BatchesFit
  <2>1. CASE q # p
    <3>1. pc[q] = "staged" /\ op'[q] = op[q] /\ After(op[q], k)' = After(op[q], k)
      BY <1>1, <1>3, <2>1
    <3> QED BY <1>0, <3>1 DEF Owning, BatchesFit
  <2>2. CASE q = p
    <3>1. op'[q] = o /\ After(op[q], k)' = After(o, k) /\ m = "staged"
      BY <1>1, <1>4, <2>2
    <3> QED BY <1>0, <3>1
  <2> QED BY <2>1, <2>2
<1> QED BY <1>2, <1>5, <1>6 DEF Owning

\* The entries a transaction discards, and the batch that goes with them.
RemovalOf(o, K) == [o EXCEPT !.doomed = K, !.events = RemoveEvents(K)]
RecordOf(o, K) == [o EXCEPT !.doomed = K, !.events = RecordEvents(o, K)]

\* The batch of a removal fits ...
LEMMA RemovalFits ==
  ASSUME NEW p \in Procs, op[p] \in Op, NEW K \in SUBSET Keys,
         op[p].kind \in Responses => op[p].key \in K /\ ~HasPlan(op[p]),
         NEW o, o = RemovalOf(op[p], K), NEW k \in Keys
  PROVE  IF k \in DOMAIN o.events THEN o.events[k] = Route(o.g, k, After(o, k)) ELSE After(o, k) = cache[o.g][k]
<1>1. /\ o.kind = op[p].kind /\ o.g = op[p].g /\ o.key = op[p].key /\ o.ips = op[p].ips
      /\ o.doomed = K /\ o.events = RemoveEvents(K)
  BY DEF Op, RemovalOf
<1>2. DOMAIN o.events = K /\ \A j \in K : o.events[j] = NoRoute
  BY <1>1 DEF RemoveEvents
<1>3. HasPlan(o) <=> HasPlan(op[p])
  BY <1>1 DEF HasPlan
<1>4. After(o, k) = IF k \in K THEN NoEntry ELSE cache[o.g][k]
  BY <1>1, <1>3 DEF After
<1> QED BY <1>2, <1>4 DEF Route

\* ... and so does that of a record.
LEMMA RecordFits ==
  ASSUME NEW p \in Procs, op[p] \in Op, op[p].kind \in Responses, op[p].key \in Keys, NEW K \in SUBSET Keys,
         HasPlan(op[p]),
         NEW o, o = RecordOf(op[p], K), NEW k \in Keys
  PROVE  IF k \in DOMAIN o.events THEN o.events[k] = Route(o.g, k, After(o, k)) ELSE After(o, k) = cache[o.g][k]
<1>1. /\ o.kind = op[p].kind /\ o.g = op[p].g /\ o.key = op[p].key /\ o.ips = op[p].ips
      /\ o.deadline = op[p].deadline /\ o.doomed = K /\ o.events = RecordEvents(op[p], K)
  BY DEF Op, RecordOf
<1>2. /\ DOMAIN o.events = K \union {o.key}
      /\ \A j \in DOMAIN o.events :
            o.events[j] = IF j = o.key THEN [bits |-> Matches[o.g][j], ips |-> o.ips] ELSE NoRoute
  BY <1>1 DEF RecordEvents
<1>3. HasPlan(o)
  BY <1>1 DEF HasPlan
<1>4. After(o, k) = IF k = o.key THEN [ips |-> o.ips, deadline |-> o.deadline]
                    ELSE IF k \in K THEN NoEntry ELSE cache[o.g][k]
  BY <1>1, <1>3 DEF After
<1>5. [ips |-> o.ips, deadline |-> o.deadline] # NoEntry
  BY <1>3 DEF HasPlan, NoEntry
<1>6. CASE k = o.key
  <2>1. o.events[k] = [bits |-> Matches[o.g][k], ips |-> o.ips] /\ k \in DOMAIN o.events
    BY <1>2, <1>6
  <2>2. Route(o.g, k, After(o, k)) = [bits |-> Matches[o.g][k], ips |-> o.ips]
    BY <1>4, <1>5, <1>6 DEF Route
  <2> QED BY <2>1, <2>2
<1>7. CASE k # o.key
  BY <1>2, <1>4, <1>7 DEF Route
<1> QED BY <1>6, <1>7

\* Opening a transaction keeps the routes.
LEMMA StageRoutes ==
  ASSUME Control, Fresh, Owning, NEW p \in Procs, StageRecord(p) \/ StageRemove(p) \/ StageSweep(p)
  PROVE  Owning'
<1> USE DEF Control, DataOK, Start
<1>0. /\ pc[p] = "admitted" /\ mutation[op[p].g] = None /\ UNCHANGED <<cache, owner, bound>>
      /\ op[p] \in Op /\ op[p].g \in Generations /\ op[p].doomed = {}
  BY DEF StageRecord, StageRemove, StageSweep, Lock, Processes, ProcOK, Fresh, Holding, Working
<1>1. \A K, E : [op[p] EXCEPT !.doomed = K, !.events = E].g = op[p].g
  BY <1>0 DEF Op
<1>2. ASSUME op' = [op EXCEPT ![p] = op[p]], pc' = [pc EXCEPT ![p] = "ending"] PROVE Owning'
  <2>1. Opens(p, op[p], "ending")
    BY <1>0, <1>2 DEF Opens
  <2> QED BY <2>1, OpensStep
<1>3. ASSUME op' = [op EXCEPT ![p] = op[p]], pc' = [pc EXCEPT ![p] = "applied"],
             op[p].kind \in {"record", "restore", "remove"}, ~Cached(op[p].g, op[p].key),
             op[p].kind \in Responses => ~HasPlan(op[p])
      PROVE  Owning'
  <2>1. Opens(p, op[p], "applied")
    BY <1>0, <1>3 DEF Opens
  <2>2. \A k \in Keys : After(op[p], k) = cache[op[p].g][k]
    BY <1>0, <1>3 DEF After, Cached
  <2> QED BY <2>1, <2>2, OpensStep
<1>4. ASSUME NEW K \in SUBSET Keys, op[p].kind \in Responses => op[p].key \in K /\ ~HasPlan(op[p]),
             op' = [op EXCEPT ![p] = [op[p] EXCEPT !.doomed = K, !.events = RemoveEvents(K)]],
             pc' = [pc EXCEPT ![p] = "staged"]
      PROVE  Owning'
  <2>1. PICK o : o = RemovalOf(op[p], K)
    OBVIOUS
  <2>2. Opens(p, o, "staged")
    BY <1>0, <1>1, <1>4, <2>1 DEF Opens, RemovalOf
  <2>3. \A k \in Keys : IF k \in DOMAIN o.events THEN o.events[k] = Route(o.g, k, After(o, k))
                        ELSE After(o, k) = cache[o.g][k]
    BY <1>0, <1>4, <2>1, RemovalFits
  <2> QED BY <2>2, <2>3, OpensStep
<1>5. ASSUME NEW K \in SUBSET Keys, op[p].kind \in Responses, HasPlan(op[p]),
             op' = [op EXCEPT ![p] = [op[p] EXCEPT !.doomed = K, !.events = RecordEvents(op[p], K)]],
             pc' = [pc EXCEPT ![p] = "staged"]
      PROVE  Owning'
  <2>1. PICK o : o = RecordOf(op[p], K)
    OBVIOUS
  <2>2. Opens(p, o, "staged")
    BY <1>0, <1>1, <1>5, <2>1 DEF Opens, RecordOf
  <2>3. op[p].key \in Keys
    BY <1>5 DEF Processes, ProcOK
  <2>4. \A k \in Keys : IF k \in DOMAIN o.events THEN o.events[k] = Route(o.g, k, After(o, k))
                        ELSE After(o, k) = cache[o.g][k]
    BY <1>0, <1>5, <2>1, <2>3, RecordFits
  <2> QED BY <2>2, <2>4, OpensStep
<1>6. op[p].kind \in Responses \union {"remove"} => op[p].key \in Keys
  BY DEF Processes, ProcOK
<1>7. CASE StageRecord(p)
  <2>1. CASE op' = [op EXCEPT ![p] = op[p]] /\ pc' = [pc EXCEPT ![p] = "ending"]
    BY <1>2, <2>1
  <2>2. CASE /\ op' = [op EXCEPT ![p] = op[p]] /\ pc' = [pc EXCEPT ![p] = "applied"]
             /\ ~HasPlan(op[p]) /\ ~Cached(op[p].g, op[p].key)
    BY <1>3, <1>7, <2>2 DEF StageRecord
  <2>3. CASE /\ ~HasPlan(op[p])
             /\ op' = [op EXCEPT ![p] = [op[p] EXCEPT !.doomed = {op[p].key},
                            !.events = RemoveEvents({op[p].key})]]
             /\ pc' = [pc EXCEPT ![p] = "staged"]
    <3>1. op[p].kind \in Responses /\ {op[p].key} \in SUBSET Keys
      BY <1>6, <1>7 DEF StageRecord, Responses
    <3> QED BY <1>4, <2>3, <3>1
  <2>4. CASE /\ HasPlan(op[p])
             /\ \E K \in Victims(op[p].g, op[p].key) :
                  /\ op' = [op EXCEPT ![p] = [op[p] EXCEPT !.doomed = K, !.events = RecordEvents(op[p], K)]]
                  /\ pc' = [pc EXCEPT ![p] = "staged"]
    <3>1. op[p].kind \in Responses /\ Victims(op[p].g, op[p].key) \subseteq SUBSET Keys
      BY <1>7 DEF StageRecord, Responses, Victims, CachedKeys
    <3> QED BY <1>5, <2>4, <3>1
  <2> QED BY <1>7, <2>1, <2>2, <2>3, <2>4, Zenon DEF StageRecord
<1>8. CASE StageRemove(p)
  <2>1. op[p].kind = "remove" /\ {op[p].key} \in SUBSET Keys /\ op[p].kind \notin Responses
    BY <1>6, <1>8 DEF StageRemove, Responses
  <2>2. CASE Cached(op[p].g, op[p].key)
    BY <1>4, <1>8, <2>1, <2>2 DEF StageRemove
  <2>3. CASE ~Cached(op[p].g, op[p].key)
    BY <1>3, <1>8, <2>1, <2>3 DEF StageRemove
  <2> QED BY <2>2, <2>3
<1>9. CASE StageSweep(p)
  <2>1. op[p].kind \notin Responses /\ Expired(op[p].g, op[p].time) \subseteq Keys
    BY <1>9 DEF StageSweep, Responses, Expired, CachedKeys
  <2>2. CASE Expired(op[p].g, op[p].time) = {}
    BY <1>2, <1>9, <2>2 DEF StageSweep
  <2>3. CASE Expired(op[p].g, op[p].time) # {}
    <3>1. PICK K \in SUBSET Expired(op[p].g, op[p].time) :
             /\ op' = [op EXCEPT ![p] = [op[p] EXCEPT !.doomed = K, !.events = RemoveEvents(K)]]
             /\ pc' = [pc EXCEPT ![p] = "staged"]
      BY <1>9, <2>3, Zenon DEF StageSweep
    <3> QED BY <1>4, <2>1, <3>1
  <2> QED BY <2>2, <2>3
<1> QED BY <1>7, <1>8, <1>9

\* The batch of a staged transaction is clean, and makes the owner what the cache will be.
LEMMA StagedBatch ==
  ASSUME Control, Owning, NEW p \in Procs, pc[p] = "staged"
  PROVE  /\ op[p].g \in Generations /\ op[p].events \in Events /\ Clean(op[p].events)
         /\ TrackerOK(owner[op[p].g])
         /\ \A k \in Keys : ApplyEvents(owner[op[p].g], op[p].events).owners[k] = Route(op[p].g, k,
                  After(op[p], k))
<1> USE DEF Control, DataOK
<1> DEFINE g == op[p].g  e == op[p].events  t == owner[g]
<1>1. g \in Generations /\ e \in Events /\ op[p] \in Op
  BY DEF Processes, ProcOK, Op, Working
<1>2. DOMAIN e \subseteq Keys
  BY <1>1 DEF Events
<1>3. TrackerOK(t) /\ \A k \in Keys : RoutableEntry(g, k, cache[g][k])
  BY <1>1 DEF Owning, OwnersOK
<1>4. \A k \in Keys : IF k \in DOMAIN e THEN e[k] = Route(g, k, After(op[p], k)) ELSE After(op[p],
         k) = cache[g][k]
  BY DEF Owning, BatchesFit
<1>5. \A k \in Keys : RoutableEntry(g, k, After(op[p], k))
  BY <1>3 DEF After, RoutableEntry, HasPlan
<1>6. \A k \in Keys : Route(g, k, After(op[p], k)) = NoRoute \/ ~IsEmpty(Route(g, k, After(op[p], k)))
  BY <1>5 DEF Route, RoutableEntry, IsEmpty
<1>7. Clean(e)
  BY <1>2, <1>4, <1>6 DEF Clean
<1>8. \A k \in Keys : t.owners[k] = Route(g, k, cache[g][k])
  <2>1. \A q \in Procs : ~(pc[q] = "applied" /\ op[q].g = g)
    BY OneInside DEF Holding
  <2> QED BY <1>1, <2>1 DEF Owning, OwnersFollow
<1>9. \A k \in Keys : ApplyEvents(t, e).owners[k] = IF k \in DOMAIN e THEN e[k] ELSE t.owners[k]
  BY <1>1, <1>3, <1>7, ApplyOwners
<1> HIDE DEF g, e, t
<1>10. \A k \in Keys : ApplyEvents(t, e).owners[k] = Route(g, k, After(op[p], k))
  BY <1>4, <1>8, <1>9
<1> QED BY <1>1, <1>3, <1>7, <1>10 DEF g, e, t

\* Applying the batch to the owner: from now on the cache is what is behind.
LEMMA TransactRoutes ==
  ASSUME Control, Owning, NEW p \in Procs, pc[p] = "staged", OwnerApplied(op[p]),
         pc' = [pc EXCEPT ![p] = "applied"], UNCHANGED <<cache, op>>
  PROVE  Owning'
<1> USE DEF Control, DataOK
<1> DEFINE g == op[p].g
<1>0. /\ g \in Generations /\ TrackerOK(ApplyEvents(owner[g], op[p].events))
      /\ \A k \in Keys : ApplyEvents(owner[g], op[p].events).owners[k] = Route(g, k, After(op[p], k))
  BY StagedBatch, ApplyOwners
<1>1. /\ owner'[g] = ApplyEvents(owner[g], op[p].events) /\ \A h \in Generations \ {g} : owner'[h] = owner[h]
      /\ bound' = bound \union {g}
  BY <1>0 DEF OwnerApplied, RoutesOK
<1>2. pc'[p] = "applied" /\ \A q \in Procs \ {p} : pc'[q] = pc[q]
  BY DEF Processes
<1>3. OwnersOK'
  BY <1>0, <1>1 DEF Owning, OwnersOK, RoutableEntry
<1>4. ASSUME NEW q \in Procs, NEW k \in Keys PROVE After(op[q], k)' = After(op[q], k)
  BY DEF After, HasPlan
<1>5. OwnersFollow'
  <2>1. ASSUME NEW h \in Generations, \A q \in Procs : ~(pc'[q] = "applied" /\ op[q].g = h), NEW k \in Keys
        PROVE  owner'[h].owners[k] = Route(h, k, cache[h][k])
    <3>1. h # g /\ \A q \in Procs : ~(pc[q] = "applied" /\ op[q].g = h)
      BY <1>2, <2>1
    <3> QED BY <1>1, <3>1 DEF Owning, OwnersFollow
  <2>2. ASSUME NEW q \in Procs, pc'[q] = "applied", NEW k \in Keys
        PROVE  owner'[op[q].g].owners[k] = Route(op[q].g, k, After(op[q], k))
    <3>1. CASE q = p
      BY <1>0, <1>1, <3>1
    <3>2. CASE q # p
      <4>1. pc[q] = "applied" /\ op[q].g # g /\ op[q].g \in Generations
        BY <1>2, <2>2, <3>2, OneInside DEF Holding, Processes, ProcOK, Working
      <4> QED BY <1>1, <4>1 DEF Owning, OwnersFollow
    <3> QED BY <3>1, <3>2
  <2> QED BY <1>4, <2>1, <2>2 DEF OwnersFollow
<1>6. BatchesFit'
  <2> SUFFICES ASSUME NEW q \in Procs, pc'[q] = "staged", NEW k \in Keys
               PROVE  IF k \in DOMAIN op[q].events
                      THEN op[q].events[k] = Route(op[q].g, k, After(op[q], k))
                      ELSE After(op[q], k) = cache[op[q].g][k]
    BY <1>4 DEF BatchesFit
  <2>1. pc[q] = "staged"
    BY <1>2
  <2> QED BY <2>1 DEF Owning, BatchesFit
<1> QED BY <1>3, <1>5, <1>6 DEF Owning

\* The cache follows the owners.
LEMMA StoreRoutes ==
  ASSUME Control, Owning, NEW p \in Procs, pc[p] = "applied", UNCHANGED <<owner, bound, op>>,
         NEW m \in {"stored", "ending"}, pc' = [pc EXCEPT ![p] = m],
         NEW f, cache' = [cache EXCEPT ![op[p].g] = f], \A k \in Keys : f[k] = After(op[p], k)
  PROVE  Owning'
<1> USE DEF Control, DataOK
<1> DEFINE g == op[p].g
<1>0. g \in Generations
  BY DEF Processes, ProcOK, Working
<1>1. (\A k \in Keys : cache'[g][k] = After(op[p], k)) /\ \A h \in Generations \ {g} : cache'[h] = cache[h]
  BY <1>0 DEF RoutesOK
<1>2. pc'[p] = m /\ \A q \in Procs \ {p} : pc'[q] = pc[q]
  BY DEF Processes
<1>3. OwnersOK'
  <2>1. \A k \in Keys : RoutableEntry(g, k, After(op[p], k))
    BY <1>0 DEF Owning, OwnersOK, After, RoutableEntry, HasPlan
  <2> QED BY <1>1, <2>1 DEF Owning, OwnersOK, RoutableEntry
<1>4. ASSUME NEW q \in Procs \ {p}, pc[q] \in Holding
      PROVE  op[q].g \in Generations \ {g} /\ \A k \in Keys : After(op[q], k)' = After(op[q], k)
  <2>1. op[q].g \in Generations \ {g}
    BY <1>4, OneInside DEF Holding, Processes, ProcOK, Working
  <2> QED BY <1>1, <2>1 DEF After, HasPlan
<1>5. OwnersFollow'
  <2>1. ASSUME NEW h \in Generations, \A q \in Procs : ~(pc'[q] = "applied" /\ op[q].g = h), NEW k \in Keys
        PROVE  owner[h].owners[k] = Route(h, k, cache'[h][k])
    <3>1. CASE h = g
      BY <1>1, <3>1 DEF Owning, OwnersFollow
    <3>2. CASE h # g
      <4>1. \A q \in Procs : ~(pc[q] = "applied" /\ op[q].g = h)
        BY <1>2, <2>1, <3>2
      <4> QED BY <1>1, <3>2, <4>1 DEF Owning, OwnersFollow
    <3> QED BY <3>1, <3>2
  <2>2. ASSUME NEW q \in Procs, pc'[q] = "applied", NEW k \in Keys
        PROVE  owner[op[q].g].owners[k] = Route(op[q].g, k, After(op[q], k)')
    <3>1. q # p /\ pc[q] = "applied"
      BY <1>2, <2>2
    <3> QED BY <1>4, <3>1 DEF Owning, OwnersFollow, Holding
  <2> QED BY <2>1, <2>2 DEF OwnersFollow
<1>6. BatchesFit'
  <2> SUFFICES ASSUME NEW q \in Procs, pc'[q] = "staged", NEW k \in Keys
               PROVE  IF k \in DOMAIN op[q].events
                      THEN op[q].events[k] = Route(op[q].g, k, After(op[q], k)')
                      ELSE After(op[q], k)' = cache'[op[q].g][k]
    BY DEF BatchesFit
  <2>1. q # p /\ pc[q] = "staged"
    BY <1>2
  <2>2. op[q].g \in Generations \ {g} /\ After(op[q], k)' = After(op[q], k)
    BY <1>4, <2>1 DEF Holding
  <2> QED BY <1>1, <2>1, <2>2 DEF Owning, BatchesFit
<1> QED BY <1>3, <1>5, <1>6 DEF Owning

\* The owners follow the caches, step by step.
LEMMA OwningStep ==
  ASSUME Control, Fresh, Owning, [Next]_vars
  PROVE  Owning'
<1> USE DEF Control, DataOK, Start
<1>0. Generations \subseteq Procs /\ Reloader \in Procs
  BY DEF Procs
<1>1. ASSUME Quiet PROVE Owning'
  <2>1. Still
    BY <1>1 DEF Quiet, Still, Holding, Open
  <2> QED BY <2>1, StillStep
<1>2. ASSUME NEW p \in Procs, StageRecord(p) \/ StageRemove(p) \/ StageSweep(p) PROVE Owning'
  BY <1>2, StageRoutes
<1>3. ASSUME NEW p \in Procs, TransactInMemory(p) \/ Transact(p) PROVE Owning'
  BY <1>3, TransactRoutes DEF TransactInMemory, Transact
<1>4. ASSUME NEW p \in Procs, RejectTransaction(p) \/ Commit(p) PROVE Owning'
  <2>1. /\ UNCHANGED <<cache, owner, bound, op>> /\ pc[p] \in {"staged", "stored"}
        /\ \E l \in {"failed", "ending"} : pc' = [pc EXCEPT ![p] = l]
    BY <1>4 DEF RejectTransaction, Commit
  <2>2. Still
    BY <2>1 DEF Still, Open, Processes
  <2> QED BY <2>2, StillStep
<1>5. ASSUME NEW p \in Procs, StoreRecord(p) PROVE Owning'
  <2> DEFINE g == op[p].g  k == op[p].key
             e == IF HasPlan(op[p]) THEN [ips |-> op[p].ips, deadline |-> op[p].deadline] ELSE NoEntry
             f == [Discarded(cache[g], op[p].doomed) EXCEPT ![k] = e]
  <2>1. /\ pc[p] = "applied" /\ op[p].kind \in Responses /\ UNCHANGED <<owner, bound, op>>
        /\ pc' = [pc EXCEPT ![p] = "stored"] /\ cache' = [cache EXCEPT ![g] = f]
    BY <1>5 DEF StoreRecord, Responses
  <2>2. \A j \in Keys : f[j] = After(op[p], j)
    BY <2>1 DEF After, Discarded
  <2> HIDE DEF f
  <2> QED BY <2>1, <2>2, StoreRoutes
<1>6. ASSUME NEW p \in Procs, StoreRemove(p) \/ StoreSweep(p) PROVE Owning'
  <2> DEFINE f == Discarded(cache[op[p].g], op[p].doomed)
  <2>1. /\ pc[p] = "applied" /\ op[p].kind \notin Responses /\ UNCHANGED <<owner, bound, op>>
        /\ pc' = [pc EXCEPT ![p] = "ending"] /\ cache' = [cache EXCEPT ![op[p].g] = f]
    BY <1>6 DEF StoreRemove, StoreSweep, Responses
  <2>2. \A j \in Keys : f[j] = After(op[p], j)
    BY <2>1 DEF After, Discarded
  <2> HIDE DEF f
  <2> QED BY <2>1, <2>2, StoreRoutes
<1>7. ASSUME NEW p \in Procs, End(p) PROVE Owning'
  <2>1. UNCHANGED <<cache, owner, bound>> /\ pc[p] \in {"ending", "failed"}
    BY <1>7 DEF End
  <2>2. /\ \A q \in Procs \ {p} :
              /\ op'[q] = op[q]
              /\ \/ pc'[q] = pc[q]
                 \/ pc'[q] = "stopped" /\ p = Reloader /\ op[p].kind = "restore" /\ q = op[p].g
        /\ pc'[p] \in {"idle", "wait", "loop", "sweeping", "restoring"}
    BY <1>7, <2>1, ResumeEffect DEF End
  <2>3. Still
    BY <2>1, <2>2 DEF Still, Open, Restoring
  <2> QED BY <2>3, StillStep
<1>8. ASSUME NEW g \in Generations, PoisonRevisions(g) \/ Reactivate(g) PROVE Owning'
  <2>1. Still
    BY <1>8 DEF PoisonRevisions, Reactivate, Still
  <2> QED BY <2>1, StillStep
<1>9. ASSUME NEW g \in Generations, ReadSignal(g) \/ LookAtDeadlines(g) PROVE Owning'
  <2>1. /\ UNCHANGED <<cache, owner, bound>> /\ pc[g] \in {"loop", "look"}
        /\ \E l \in {"look", "queued", "wait"} : pc' = [pc EXCEPT ![g] = l]
        /\ op' = op \/ \E o : op' = [op EXCEPT ![g] = o]
    BY <1>9 DEF ReadSignal, LookAtDeadlines
  <2>2. Still
    BY <1>0, <2>1 DEF Still, Open, Processes
  <2> QED BY <2>2, StillStep
<1>10. ASSUME NEW g \in Generations, Activate(g) PROVE Owning'
  <2>1. Still
    BY <1>0, <1>10 DEF Activate, Still, Open, Processes
  <2> QED BY <2>1, StillStep
<1>11. ASSUME Clear PROVE Owning'
  <2>1. Still
    BY <1>0, <1>11 DEF Clear, Still, Open, Processes
  <2> QED BY <2>1, StillStep
<1> QED BY <1>1, <1>2, <1>3, <1>4, <1>5, <1>6, <1>7, <1>8, <1>9, <1>10, <1>11, QuietSteps

Mapping == TrackerOK(fence) /\ MapFollows

\* The map, the fence and the gate, when none of them changes.
LEMMA MapUntouched ==
  ASSUME Mapping, UNCHANGED <<active, installed, fence, bpf, torn>>,
                              active # None => owner'[active] = owner[active]
  PROVE  Mapping'
  BY DEF Mapping, MapFollows

\* The map follows the fence, and the fence the active owner.
LEMMA MappingStep ==
  ASSUME Control, Owning, Mapping, [Next]_vars
  PROVE  Mapping'
<1> USE DEF Control, DataOK
<1>1. ASSUME UNCHANGED <<map, owner>> PROVE Mapping'
  BY <1>1, MapUntouched
<1>2. ASSUME NEW p \in Procs, TransactInMemory(p) PROVE Mapping'
  <2>1. op[p].g \in Generations
    BY <1>2, StagedBatch DEF TransactInMemory
  <2>2. active = op[p].g => active = None
    BY <1>2 DEF TransactInMemory, Fenced, Mapping, MapFollows
  <2>3. active # None => owner'[active] = owner[active]
    BY <1>2, <2>1, <2>2 DEF TransactInMemory, OwnerApplied, RoutesOK, MapOK
  <2> QED BY <1>2, <2>3, MapUntouched DEF TransactInMemory
<1>3. ASSUME NEW p \in Procs, Transact(p) PROVE Mapping'
  <2> DEFINE g == op[p].g  e == op[p].events  t == owner[g]
  <2>1. g \in Generations /\ e \in Events /\ Clean(e) /\ TrackerOK(t)
    BY <1>3, StagedBatch DEF Transact
  <2>2. active = g /\ installed /\ g # None /\ fence = t
    BY <1>3, <2>1, ProcsAssumption DEF Transact, Fenced, Mapping, MapFollows, Procs
  <2>3. owner'[g] = ApplyEvents(t, e)
    BY <1>3, <2>1 DEF Transact, OwnerApplied, RoutesOK
  <2>4. fence' = ApplyEvents(t, e)
    <3>1. CASE Replacements(t, e) # {}
      BY <1>3, <2>1, <2>2, <3>1, SyncIsApply DEF Transact
    <3>2. CASE Replacements(t, e) = {}
      BY <1>3, <2>1, <2>2, <3>2, NothingApplied DEF Transact
    <3> QED BY <3>1, <3>2
  <2>5. TrackerOK(fence')
    BY <2>1, <2>4, ApplyOwners
  <2>6. UNCHANGED <<active, installed, torn>> /\ bpf' = MapAfter(op[p])
    BY <1>3 DEF Transact
  <2>7. ASSUME ~torn, NEW i \in Ips PROVE bpf'[i] = Merged(fence'.index[i])
    <3>1. \A j \in Ips : bpf[j] = Merged(t.index[j])
      BY <2>2, <2>7 DEF Mapping, MapFollows
    <3>2. PICK b \in BOOLEAN : b = (g \in bound)
      <4>1. (g \in bound) \in BOOLEAN
        OBVIOUS
      <4> QED BY <4>1, Zenon
    <3>3. ~b => t = EmptyTracker
      BY <2>1, <3>2 DEF Owning, OwnersOK
    <3>4. Written(bpf, Staged(t, e), Updates(t, b, e), Deletes(t, b, e))[i] = Merged(Staged(t, e)[i])
      BY <2>1, <3>1, <3>3, BatchWritten
    <3>5. bpf' = Written(bpf, Staged(t, e), Updates(t, b, e), Deletes(t, b, e))
      BY <2>6, <3>2 DEF MapAfter, MapUpdates, MapDeletes
    <3>6. fence'.index = Staged(t, e)
      BY <2>4 DEF ApplyEvents
    <3> QED BY <3>4, <3>5, <3>6
  <2> QED BY <2>2, <2>3, <2>4, <2>5, <2>6, <2>7 DEF Mapping, MapFollows
<1>4. ASSUME NEW p \in Procs, RejectTransaction(p) PROVE Mapping'
  <2>1. UNCHANGED <<active, installed, fence, owner>> /\ (torn' = TRUE \/ UNCHANGED <<bpf, torn>>)
    BY <1>4 DEF RejectTransaction
  <2> QED BY <2>1 DEF Mapping, MapFollows
<1>5. ASSUME NEW g \in Generations, Switch(g), UNCHANGED owner PROVE Mapping'
  <2>1. active' = g /\ installed' = TRUE /\ fence' = owner[g] /\ torn' = torn /\ bpf' = MapSwitched(g)
    BY <1>5 DEF Switch
  <2>2. TrackerOK(owner[g])
    BY DEF Owning, OwnersOK
  <2>3. ASSUME ~torn, NEW i \in Ips PROVE bpf'[i] = Merged(fence'.index[i])
    BY <2>1, <2>3, SwitchWritten DEF Mapping, MapFollows, FlagsOK
  <2> QED BY <1>5, <2>1, <2>2, <2>3 DEF Mapping, MapFollows
<1>6. ASSUME NEW g \in Generations, RejectSwitch(g), UNCHANGED owner PROVE Mapping'
  <2>1. UNCHANGED <<active, installed, fence, owner>> /\ (torn' = TRUE \/ UNCHANGED <<bpf, torn>>)
    BY <1>6 DEF RejectSwitch
  <2> QED BY <2>1 DEF Mapping, MapFollows
<1>7. ASSUME Clear PROVE Mapping'
  BY <1>7 DEF Clear, Mapping, MapFollows
<1>8. ASSUME NEW p \in Procs, \/ StageRecord(p) \/ StageRemove(p) \/ StageSweep(p)
                              \/ StoreRecord(p) \/ StoreRemove(p) \/ StoreSweep(p) \/ Commit(p) \/ End(p)
      PROVE  Mapping'
  BY <1>1, <1>8 DEF StageRecord, StageRemove, StageSweep, Lock, StoreRecord, StoreRemove, StoreSweep, Commit,
     End
<1>9. ASSUME NEW g \in Generations, PoisonRevisions(g) \/ ReadSignal(g) \/ LookAtDeadlines(g) PROVE Mapping'
  BY <1>1, <1>9 DEF PoisonRevisions, ReadSignal, LookAtDeadlines
<1>10. ASSUME NEW g \in Generations, Activate(g) \/ Reactivate(g) PROVE Mapping'
  BY <1>5, <1>6, <1>10 DEF Activate, Reactivate
<1>11. ASSUME Quiet PROVE Mapping'
  BY <1>1, <1>11 DEF Quiet
<1> QED BY <1>2, <1>3, <1>4, <1>7, <1>8, <1>9, <1>10, <1>11, QuietSteps

\* With the lock free no transaction is open, so that owner, fence and map are those of the cache.
LEMMA RoutingImplies == Control /\ Owning /\ Mapping => KernelMatchesCache
<1> SUFFICES ASSUME Control, Owning, Mapping, NEW g \in Generations, active = g, mutation[g] = None, ~torn,
                    NEW i \in Ips
             PROVE  bpf[i] = Routed(g, i)
  BY DEF KernelMatchesCache
<1>1. g # None
  BY ProcsAssumption DEF Procs
<1>2. \A q \in Procs : ~(pc[q] = "applied" /\ op[q].g = g)
  BY NobodyInside DEF Holding
<1>3. \A k \in Keys : owner[g].owners[k] = Route(g, k, cache[g][k])
  BY <1>2 DEF Owning, OwnersFollow
<1>4. TrackerOK(owner[g]) /\ \A k \in Keys : RoutableEntry(g, k, cache[g][k])
  BY DEF Owning, OwnersOK
<1>5. Merged(owner[g].index[i]) = Routed(g, i)
  BY <1>3, <1>4, OwnerRoutes
<1> QED BY <1>1, <1>5 DEF Mapping, MapFollows

-----------------------------------------------------------------------------
(* Theorems *)

\* The initial state.
LEMMA Initially ==
  ASSUME Init
  PROVE  Control /\ Counting /\ Ordering /\ DeadlinesKnown /\ Fresh /\ Owning /\ Mapping
<1> USE DEF Init
<1>0. Generations \subseteq Procs /\ Reloader \in Procs /\ Reloader \notin Generations
  BY ProcsAssumption DEF Procs
<1>1. NoOp \in Op /\ NoOp.kind = "none" /\ NoOp.doomed = {}
  BY NoOpType DEF NoOp
<1>2. /\ NoEntry \in Entry /\ NoRevision \in Revision /\ NotPending \in Pending /\ EmptyTracker \in Tracker
      /\ NoRevision.epoch = 0 /\ NoRevision.seq = 0 /\ NotPending.count = 0
  BY BoundsAssumption, EmptyTrackerOK DEF NoEntry, Entry, NoRevision, Revision, NotPending, Pending, TrackerOK
<1>3. \A p \in Procs : op[p] = NoOp /\ pc[p] \in {"off", "idle"} /\ (pc[p] = "off" <=> p \in Generations)
  OBVIOUS
<1>4. DataOK
  <2>1. MapOK /\ RoutesOK /\ LocksOK /\ LifecycleOK
    BY <1>2, BoundsAssumption DEF MapOK, RoutesOK, LocksOK, LifecycleOK
  <2>2. FlagsOK
    BY DEF FlagsOK
  <2>3. RevisionsOK
    BY <1>2, BoundsAssumption DEF RevisionsOK
  <2> QED BY <2>1, <2>2, <2>3 DEF DataOK
<1>5. Processes
  <2>1. \A p \in Procs : ProcOK(p, pc[p], op[p])
    BY <1>1, <1>3, ProcsAssumption DEF ProcOK, Working, Responses, CallerPc, MaintenancePc, ReloaderPc, Procs
  <2> QED BY <1>1, <2>1 DEF Processes, Places, CallerPc, MaintenancePc
<1>6. Locking /\ Restoring /\ Publications /\ Fresh
  BY <1>0, <1>1, <1>3 DEF Locking, Restoring, Publications, Fresh, Holding
<1>7. \A g, k : Tokens(g, k) = {}
  BY <1>1, <1>3 DEF Tokens, Responses
<1>8. Counting
  <2>1. TokensCounted
    BY <1>2, <1>7, FS_EmptySet DEF TokensCounted
  <2>2. RevisionsBegun
    BY <1>1, <1>2, <1>3 DEF RevisionsBegun, Begun, Responses
  <2> QED BY <2>1, <2>2 DEF Counting
<1>9. Ordering /\ DeadlinesKnown
  BY <1>0, <1>1, <1>3 DEF Ordering, StaleIsKnown, Commits, Responses, DeadlinesKnown
<1>10. Owning
  <2>1. OwnersOK
    BY EmptyTrackerOK DEF OwnersOK, RoutableEntry
  <2>2. OwnersFollow
    BY <1>3 DEF OwnersFollow, Route, EmptyTracker
  <2>3. BatchesFit
    BY <1>3 DEF BatchesFit
  <2> QED BY <2>1, <2>2, <2>3 DEF Owning
<1>11. Mapping
  BY EmptyTrackerOK DEF Mapping, MapFollows, Merged, EmptyTracker
<1> QED BY <1>4, <1>5, <1>6, <1>8, <1>9, <1>10, <1>11 DEF Control

\* Every process is where its code can be and holds a lock only while it works, with types that hold
\* whatever the number of callers, generations, keys and revisions.
THEOREM TypeCorrect == Spec => []TypeOK
<1>1. Init => Control
  BY Initially
<1>2. Control /\ [Next]_vars => Control'
  BY ControlStep
<1>3. Control => TypeOK
  BY ControlImpliesType DEF Control
<1> QED BY <1>1, <1>2, <1>3, PTL DEF Spec

\* The revision table counts exactly the tokens that are out, and no revision is from the future: what
\* CanCommit and Invalidate rely on when they look at a key's count.
THEOREM TokensAreCounted == Spec => []TokensCounted
<1>1. Init => Control /\ Counting
  BY Initially
<1>2. Control /\ Counting /\ [Next]_vars => Control' /\ Counting'
  BY ControlStep, CountingStep
<1>3. Counting => TokensCounted
  BY DEF Counting
<1> QED BY <1>1, <1>2, <1>3, PTL DEF Spec

\* Responses and rejections of a key take effect in the order in which they began (commit_response_locked,
\* remove_key_locked): the one under way when a later one was stored finds itself stale.
THEOREM NewestResponseWins == Spec => NewestWins
<1>1. Init => Control /\ Counting /\ Ordering
  BY Initially
<1>2. Control /\ Counting /\ Ordering /\ [Next]_vars => Control' /\ Counting' /\ Ordering'
  BY ControlStep, CountingStep, OrderingStep
<1>3. Control /\ Counting /\ Ordering /\ [Next]_vars
        => [\A g \in Generations, k \in Keys :
              settled'[g][k] # settled[g][k] => Newer(settled'[g][k], settled[g][k])]_vars
  BY SettlesNewer
<1> QED BY <1>1, <1>2, <1>3, PTL DEF Spec, NewestWins

\* run_domain_routing_maintenance never sleeps past a deadline: it reads the number of changes before the
\* cache, and every later response announces itself before its lock is released.
THEOREM DeadlinesAreNotMissed == Spec => []NoMissedDeadline
<1>1. Init => Control /\ Counting /\ DeadlinesKnown
  BY Initially
<1>2. Control /\ Counting /\ DeadlinesKnown /\ [Next]_vars => Control' /\ Counting' /\ DeadlinesKnown'
  BY ControlStep, CountingStep, DeadlinesStep
<1> QED BY <1>1, <1>2, DeadlinesImply, PTL DEF Spec

\* The kernel's map routes what the cache of the active generation holds, whenever no transaction of it is
\* open: across evictions, sweeps, rejections, reloads, reactivations and failures that were rolled back.
THEOREM KernelFollowsCache == Spec => []KernelMatchesCache
<1>1. Init => Control /\ Fresh /\ Owning /\ Mapping
  BY Initially
<1>2. Control /\ Fresh /\ Owning /\ Mapping /\ [Next]_vars => Control' /\ Fresh' /\ Owning' /\ Mapping'
  BY ControlStep, FreshStep, OwningStep, MappingStep
<1> QED BY <1>1, <1>2, RoutingImplies, PTL DEF Spec

=============================================================================
