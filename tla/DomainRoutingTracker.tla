------------------------ MODULE DomainRoutingTracker ------------------------
(***************************************************************************)
(* DomainRoutingTracker and DomainRoutingOwner (dae-runtime-control,         *)
(* domain_routing/tracker.rs and owner.rs): which DNS names own which         *)
(* addresses, the per-address index the code keeps beside it, and the          *)
(* updates and deletes that bring the kernel's domain_routing map along.       *)
(*                                                                         *)
(* A bitmap is the set of rules it has a bit for, an owner without a snapshot  *)
(* or an address without an entry is the empty one, and merge_owner_bitmaps    *)
(* is union.  A batch of events is a function from the owners it names to      *)
(* their new snapshots: apply_dns_events_with coalesces them that way.         *)
(***************************************************************************)
CONSTANTS Keys,   \* DNS cache keys, and with them the route owner keys
          Ips,    \* DomainRoutingIpKey
          Rules   \* bits of a routing bitmap

Snapshot == [bits : SUBSET Rules, ips : SUBSET Ips]
NoRoute == [bits |-> {}, ips |-> {}]

\* DomainRoutingOwnerSnapshot::is_empty
IsEmpty(s) == s.ips = {} \/ s.bits = {}

\* owners: what each owner routes; index: per address, the bitmaps of its owners.
Tracker == [owners : [Keys -> Snapshot], index : [Ips -> [Keys -> SUBSET Rules]]]
EmptyTracker == [owners |-> [k \in Keys |-> NoRoute],
                 index |-> [i \in Ips |-> [k \in Keys |-> {}]]]

\* merge_owner_bitmaps; an address whose owners are all gone has no entry.
Merged(bitmaps) == UNION {bitmaps[k] : k \in Keys}
Present(bitmaps) == \E k \in Keys : bitmaps[k] # {}

\* The bitmap owner k has on address i once its snapshot is replaced by s.
Replaced(t, k, s, i) ==
    IF ~IsEmpty(s) /\ i \in s.ips THEN s.bits
    ELSE IF i \in t.owners[k].ips THEN {} ELSE t.index[i][k]

\* The owners a batch really changes.
Replacements(t, events) ==
    {k \in DOMAIN events : IF t.owners[k] # NoRoute THEN t.owners[k] # events[k]
                                                   ELSE ~IsEmpty(events[k])}

\* The addresses those owners have or get.
Affected(t, events) ==
    UNION {t.owners[k].ips \union events[k].ips : k \in Replacements(t, events)}

Staged(t, events) ==
    [i \in Ips |-> [k \in Keys |-> IF i \in Affected(t, events) /\ k \in Replacements(t, events)
                                   THEN Replaced(t, k, events[k], i)
                                   ELSE t.index[i][k]]]

\* The addresses apply_dns_events_with updates and deletes.  An owner that was
\* never applied to a map replays everything it has and deletes nothing.
Updates(t, bound, events) ==
    LET next == Staged(t, events)
    IN  IF bound
        THEN {i \in Affected(t, events) :
                Present(next[i]) /\ (~Present(t.index[i]) \/ Merged(next[i]) # Merged(t.index[i]))}
        ELSE {i \in Ips : Present(next[i])}

Deletes(t, bound, events) ==
    {i \in Affected(t, events) :
        bound /\ Present(t.index[i]) /\ ~Present(Staged(t, events)[i])}

\* The owner's tracker once the map has been updated.
ApplyEvents(t, events) ==
    [owners |-> [k \in Keys |-> IF k \in Replacements(t, events)
                                THEN IF IsEmpty(events[k]) THEN NoRoute ELSE events[k]
                                ELSE t.owners[k]],
     index |-> Staged(t, events)]

\* The fence's copy: sync_owner, for every event of the batch.
SyncOwners(t, events) ==
    [owners |-> [k \in Keys |-> IF k \in DOMAIN events
                                THEN IF IsEmpty(events[k]) THEN NoRoute ELSE events[k]
                                ELSE t.owners[k]],
     index |-> [i \in Ips |-> [k \in Keys |->
                  IF k \in DOMAIN events /\ t.owners[k] # events[k]
                  THEN Replaced(t, k, events[k], i)
                  ELSE t.index[i][k]]]]

\* plan_transition, from the fence's copy to the tracker of the next generation.
TransitionUpdates(t, next) ==
    {i \in Ips : Present(next.index[i])
                 /\ (~Present(t.index[i]) \/ Merged(next.index[i]) # Merged(t.index[i]))}

TransitionDeletes(t, next) == {i \in Ips : Present(t.index[i]) /\ ~Present(next.index[i])}

\* The map after the given updates, with the bitmaps of index, and deletes.
Written(map, index, updates, deletes) ==
    [i \in Ips |-> IF i \in updates THEN Merged(index[i])
                   ELSE IF i \in deletes THEN {} ELSE map[i]]
=============================================================================
