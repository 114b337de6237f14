------------------------ MODULE GenerationDrainProofs ------------------------
(* Proofs about GenerationDrain, for any number of generations, any bound of the *)
(* list and of the connections, and any listeners: types, that the published      *)
(* generation is open, that a rollback finds the previous one, that nothing runs  *)
(* on unowned, that the accept loop is not stranded, and that the list keeps its  *)
(* bound and never has a generation twice.                                        *)
(*                                                                                *)
(* The invariant relates the control thread's place to the generations it holds   *)
(* (Hands) and every record of the list to its generation (List): a record that   *)
(* can be reactivated is of a generation that nobody has decided to stop, which   *)
(* is what makes the unlocked force stop after a reap harmless.                   *)
EXTENDS GenerationDrain, FiniteSetTheorems, WellFoundedInduction, TLAPS

\* no thread has g among what it stops
Untargeted(g) == \A t \in Threads : g \notin Targeted(t)

\* g runs, and nobody stops it, has decided to, or has it in the list of the retired
Open(g) == g \in Generations /\ life[g] = "Active" /\ ~workload_stop[g] /\ g \notin Retirees /\ Untargeted(g)

\* the list still owns the heavy generation g
Held(g) == \E r \in retired : r.id = g /\ r.heavy

\* what a record of the list says of its generation
List ==
    /\ \A r, q \in retired : r.id = q.id => r = q
    /\ \A r \in retired : ~r.heavy => workload_stop[r.id]
    /\ \A r \in retired :
          r.heavy /\ r.reason = "none" => life[r.id] = "Retired" /\ ~workload_stop[r.id] /\ Untargeted(r.id)

\* a stop that has begun has retired the workloads
Stops == \A t \in Threads : \A r \in targets[t] : r.begun => workload_stop[r.id]

\* nothing knows of a generation before it is built
Unbuilt ==
    \A g \in Generations :
        life[g] = "unbuilt" =>
            ~workload_stop[g] /\ g \notin Retirees /\ Untargeted(g) /\ g \notin {slot, hand, snapshot}

\* what the control thread's place says of the generation it holds and the one it can go back to
Hands ==
    /\ control \in {"idle", "prepare", "evict", "build", "published", "restore", "reactivated", "republish"} \/ Quiescing
          => hand = None
    /\ control = "idle" \/ Quiescing => snapshot = None
    /\ control \in {"prepare", "evict", "build", "activate", "publish", "finalize"} => snapshot = slot
    /\ control \in {"activate", "publish", "retire", "push", "wake", "finalize"} => hand \in Generations /\ hand # slot
    /\ control \in {"activate", "publish"} => Open(hand)
    /\ control \in {"retire", "push", "wake"} => snapshot \in {slot, hand}
    /\ control = "retire" => Open(hand)
    /\ control = "push" =>
          life[hand] = "Retired" /\ ~workload_stop[hand] /\ hand \notin Retirees /\ Untargeted(hand)
    /\ control \in {"wake", "finalize"} => Held(hand)
    /\ control \in {"published", "reactivated", "republish"} => snapshot # slot /\ snapshot \in Generations
    /\ control \in {"reactivated", "republish"} => Open(snapshot)
    /\ control = "finalized" =>
          \/ snapshot # slot /\ hand = None
          \/ snapshot = slot /\ hand \in Generations /\ hand # slot /\ Held(hand)
    /\ control = "restore" => snapshot \in Generations

\* the published generation before and during a shutdown
Serving ==
    /\ ~Quiescing => Open(slot)
    /\ control \notin {"publish", "republish"} /\ ~Quiescing => gate = slot
    /\ Quiescing => slot = None \/ workload_stop[slot] \/ (control = "stop_all" /\ slot \in Targeted("control"))

\* the threads of the drain
Drains ==
    /\ stop => control \in {"join", "clear", "down"}
    /\ reaper \in {"stopping", "ended"} => stop
    /\ reaper \in {"parked", "polling"} => targets["reaper"] = {}

\* what the accept loop knows of the publication
Accepting ==
    /\ acceptor.pc \in {"accept", "try"} => flows < TcpLimit
    /\ acceptor.epoch <= publication
    /\ acceptor.pc \in {"gate", "open", "closed", "reserve", "accept"} => seen = acceptor.epoch
    /\ acceptor.pc \in {"loaded", "gate", "open"} /\ acceptor.epoch = publication /\ ~Quiescing => acceptor.gen = slot

\* the swap of generations
Swap == List /\ Stops /\ Unbuilt /\ Hands /\ Serving /\ Drains /\ SnapshotRestorable /\ NothingForgotten

\* what the session manager has loaded is a generation: it ends before the slot is cleared
Managing ==
    /\ control # "down" => slot \in Generations
    /\ control \in {"clear", "down"} => manager.pc = "ended"
    /\ manager.pc \in {"try", "register", "start"} => manager.gen \in Generations

\* the inductive invariant
IInv == TypeOK /\ Swap /\ Managing /\ Accepting /\ AcceptorNotStranded

-----------------------------------------------------------------------------
(* Lists and targets *)

\* A thread takes a list of records over as targets: none of them is begun, the other thread keeps its own.
LEMMA TargetsOf ==
    ASSUME TypeOK, NEW t \in Threads, NEW list \in SUBSET Records,
           targets' = [targets EXCEPT ![t] = {StopTarget(r) : r \in list}]
    PROVE  /\ targets' \in [Threads -> SUBSET StopTargets]
           /\ Targeted(t)' = {r.id : r \in list}
           /\ \A r \in targets'[t] : ~r.begun
           /\ \A u \in Threads : u # t => targets'[u] = targets[u] /\ Targeted(u)' = Targeted(u)
<1>1. \A r \in list : StopTarget(r) \in StopTargets /\ StopTarget(r).id = r.id /\ ~StopTarget(r).begun
  BY DEF StopTarget, Records, StopTargets
<1>2. targets \in [Threads -> SUBSET StopTargets]
  BY DEF TypeOK
<1>3. targets'[t] = {StopTarget(r) : r \in list} /\ \A u \in Threads : u # t => targets'[u] = targets[u]
  BY <1>2
<1>4. targets' \in [Threads -> SUBSET StopTargets]
  BY <1>1, <1>2
<1>5. Targeted(t)' = {r.id : r \in list}
  BY <1>1, <1>3 DEF Targeted
<1>6. \A r \in targets'[t] : ~r.begun
  BY <1>1, <1>3
<1> QED
  BY <1>3, <1>4, <1>5, <1>6 DEF Targeted

\* The eviction under pressure adds the evicted generations to what is to be stopped (pressure_evict_oldest).
LEMMA EvictionTargets ==
    ASSUME TypeOK, Settled("control"), targets' = [targets EXCEPT !["control"] = EvictionTarget]
    PROVE  /\ targets' \in [Threads -> SUBSET StopTargets]
           /\ \A g : Untargeted(g)' <=> Untargeted(g) /\ \A r \in Evicted : g # r.id
<1>1. "control" \in Threads /\ Evicted \in SUBSET Records
  BY DEF Threads, Evicted, Oldest, TypeOK
<1>2. targets' \in [Threads -> SUBSET StopTargets] /\ Targeted("control")' = {r.id : r \in Evicted}
      /\ Targeted("reaper")' = Targeted("reaper")
  BY <1>1, TargetsOf DEF EvictionTarget, Threads
<1>3. Targeted("control") = {}
  BY DEF Settled, Targeted
<1> QED
  BY <1>2, <1>3 DEF Untargeted, Threads

\* retire_shared_at: the list has a record of the retired generation in place of the evicted one.
LEMMA Pushed ==
    ASSUME TypeOK, Hands, PushRetired
    PROVE  /\ targets' \in [Threads -> SUBSET StopTargets]
           /\ \A g : Untargeted(g)' <=> Untargeted(g) /\ \A r \in Evicted : g # r.id
           /\ Evicted \subseteq retired
           /\ \E new \in Records :
                 /\ new.id = hand /\ new.heavy /\ new.reason = "none"
                 /\ retired' = (retired \ Evicted) \union {new}
<1> DEFINE new == [id |-> hand, at |-> publication, heavy |-> TRUE, reason |-> "none", aged |-> FALSE]
<1>1. new \in Records /\ new.id = hand /\ new.heavy /\ new.reason = "none"
  BY DEF PushRetired, At, Hands, TypeOK, Records, Reasons
<1>2. retired' = (retired \ Evicted) \union {new} /\ Evicted \subseteq retired
  BY DEF PushRetired, Evicted, Oldest
<1> QED
  BY <1>1, <1>2, EvictionTargets DEF PushRetired, At

\* finalize_matching_retirements marks records and turns them into targets; the list has the same generations.
LEMMA Finalized ==
    ASSUME TypeOK, Finalize
    PROVE  /\ targets' \in [Threads -> SUBSET StopTargets]
           /\ \A g : Untargeted(g)' <=> Untargeted(g) /\ \A r \in Chosen : g # r.id
           /\ retired' \subseteq Records
           /\ Retirees' = Retirees
           /\ Held(hand) => Held(hand)'
<1>1. /\ retired \subseteq Records /\ Chosen \subseteq retired /\ "control" \in Threads /\ hand' = hand
      /\ retired' = (retired \ Chosen) \union {[r EXCEPT !.reason = "Finalized"] : r \in Chosen}
  BY DEF TypeOK, Chosen, Threads, Finalize
<1>2. \A r \in Chosen : LET q == [r EXCEPT !.reason = "Finalized"]
                       IN q \in Records /\ q.id = r.id /\ q.heavy = r.heavy
  BY <1>1 DEF Records, Reasons
<1>3. retired' \subseteq Records /\ Retirees' = Retirees /\ (Held(hand) => Held(hand)')
  BY <1>1, <1>2 DEF Retirees, Held
<1>4. /\ targets' \in [Threads -> SUBSET StopTargets]
      /\ Targeted("control")' = {r.id : r \in Chosen} /\ Targeted("reaper")' = Targeted("reaper")
  BY <1>1, TargetsOf DEF Finalize, Threads
<1>5. Targeted("control") = {}
  BY DEF Finalize, At, Settled, Targeted
<1> QED
  BY <1>3, <1>4, <1>5 DEF Untargeted, Threads

\* stop_all moves the whole list to the targets of the thread.
LEMMA AllTargets ==
    ASSUME TypeOK, NEW t \in Threads, Settled(t), retired' = {},
           targets' = [targets EXCEPT ![t] = {StopTarget(r) : r \in retired}]
    PROVE  /\ targets' \in [Threads -> SUBSET StopTargets]
           /\ Retirees' = {}
           /\ \A g : Untargeted(g)' <=> Untargeted(g) /\ g \notin Retirees
<1>1. /\ targets' \in [Threads -> SUBSET StopTargets] /\ Targeted(t)' = {r.id : r \in retired}
      /\ \A u \in Threads : u # t => Targeted(u)' = Targeted(u)
  BY TargetsOf DEF TypeOK
<1>2. Targeted(t) = {} /\ Retirees' = {}
  BY DEF Settled, Targeted, Retirees
<1> QED
  BY <1>1, <1>2 DEF Untargeted, Retirees

-----------------------------------------------------------------------------
(* Steps that neither reap nor stop by force *)

\* steps of the control thread and of the reaper, except reaps and forced stops
Acts ==
    \/ SnapshotForApply \/ EvictOldest \/ BuildGeneration \/ BuildFails \/ ActivateRouting \/ RoutingRefused
    \/ Publish \/ CloseAdmission \/ PushRetired \/ WakeReaper \/ ApplyFails \/ RestoreEnds \/ Reactivate
    \/ RestoreRouting \/ RestoreRefused \/ Republish \/ Finalize \/ Quiesce \/ StopAll \/ SignalStop
    \/ JoinWorkloads \/ ClearSlot \/ ReaperLook \/ ReaperStops \/ ReaperEnds

\* What a record says of its generation survives the steps that neither reap nor stop by force.
LEMMA ListKept ==
    ASSUME TypeOK, List, Hands, Serving, Acts
    PROVE  List'
<1> USE DEF At, Settled, core, flags, drain, owner, tcp, sessions, TypeOK, List, Hands, Serving, Open,
      Held, Quiescing, Untargeted, Targeted, Retirees, Records, Threads, None
<1>1. CASE SnapshotForApply
  BY <1>1 DEF SnapshotForApply
<1>2. CASE EvictOldest
  BY <1>2 DEF EvictOldest, Evicted, Oldest, EvictionTarget, StopTarget
<1>3. CASE BuildGeneration
  BY <1>3 DEF BuildGeneration
<1>4. CASE BuildFails
  BY <1>4 DEF BuildFails
<1>5. CASE ActivateRouting
  BY <1>5 DEF ActivateRouting
<1>6. CASE RoutingRefused
  BY <1>6 DEF RoutingRefused
<1>7. CASE Publish
  BY <1>7 DEF Publish
<1>8. CASE CloseAdmission
  BY <1>8 DEF CloseAdmission
<1>9. CASE PushRetired
  <2>1. /\ UNCHANGED <<hand, life, workload_stop>>
        /\ hand \notin Retirees /\ Untargeted(hand) /\ life[hand] = "Retired" /\ ~workload_stop[hand]
    BY <1>9 DEF PushRetired
  <2>2. PICK new \in Records : /\ new.id = hand /\ new.heavy /\ new.reason = "none"
                              /\ retired' = (retired \ Evicted) \union {new}
    BY <1>9, Pushed
  <2>3. Evicted \subseteq retired /\ \A g : Untargeted(g)' <=> Untargeted(g) /\ \A r \in Evicted : g # r.id
    BY <1>9, Pushed
  <2> HIDE DEF Untargeted
  <2>4. ASSUME NEW r \in retired', r # new
        PROVE  r \in retired /\ r.id # hand /\ (Untargeted(r.id) => Untargeted(r.id)')
    <3>1. r \in retired /\ r.id # hand /\ \A q \in Evicted : r.id # q.id
      BY <2>1, <2>2, <2>3, <2>4
    <3> QED
      BY <2>3, <3>1
  <2>5. Untargeted(hand)'
    BY ONLY <2>1, <2>3 DEF Retirees
  <2> QED
    BY ONLY <2>1, <2>2, <2>4, <2>5, List DEF List
<1>10. CASE WakeReaper
  BY <1>10 DEF WakeReaper
<1>11. CASE ApplyFails
  BY <1>11 DEF ApplyFails
<1>12. CASE RestoreEnds
  BY <1>12 DEF RestoreEnds
<1>13. CASE Reactivate
  BY <1>13 DEF Reactivate, Reactivatable, stop_is_requested
<1>14. CASE RestoreRouting
  BY <1>14 DEF RestoreRouting
<1>15. CASE RestoreRefused
  BY <1>15 DEF RestoreRefused
<1>16. CASE Republish
  BY <1>16 DEF Republish
<1>17. CASE Finalize
  BY <1>17 DEF Finalize, Chosen, StopTarget
<1>18. CASE Quiesce
  BY <1>18 DEF Quiesce
<1>19. CASE StopAll
  BY <1>19 DEF StopAll, StopTarget
<1>20. CASE SignalStop
  BY <1>20 DEF SignalStop
<1>21. CASE JoinWorkloads
  BY <1>21 DEF JoinWorkloads
<1>22. CASE ClearSlot
  BY <1>22 DEF ClearSlot
<1>23. CASE ReaperLook
  BY <1>23 DEF ReaperLook
<1>24. CASE ReaperStops
  BY <1>24 DEF ReaperStops, StopTarget
<1>25. CASE ReaperEnds
  BY <1>25 DEF ReaperEnds
<1> QED
  BY <1>1, <1>2, <1>3, <1>4, <1>5, <1>6, <1>7, <1>8, <1>9, <1>10, <1>11, <1>12, <1>13, <1>14, <1>15,
     <1>16, <1>17, <1>18, <1>19, <1>20, <1>21, <1>22, <1>23, <1>24, <1>25 DEF Acts

\* New targets are not begun, so the stops that have begun are still those that retired the workloads.
LEMMA StopsKept ==
    ASSUME TypeOK, Stops, Acts
    PROVE  Stops'
<1> USE DEF At, Settled, core, flags, drain, owner, tcp, sessions, TypeOK, Stops, Threads
<1>1. CASE SnapshotForApply
  BY <1>1 DEF SnapshotForApply
<1>2. CASE EvictOldest
  BY <1>2 DEF EvictOldest, Evicted, Oldest, EvictionTarget, StopTarget
<1>3. CASE BuildGeneration
  BY <1>3 DEF BuildGeneration
<1>4. CASE BuildFails
  BY <1>4 DEF BuildFails
<1>5. CASE ActivateRouting
  BY <1>5 DEF ActivateRouting
<1>6. CASE RoutingRefused
  BY <1>6 DEF RoutingRefused
<1>7. CASE Publish
  BY <1>7 DEF Publish
<1>8. CASE CloseAdmission
  BY <1>8 DEF CloseAdmission
<1>9. CASE PushRetired
  BY <1>9 DEF PushRetired, Evicted, Oldest, EvictionTarget, StopTarget
<1>10. CASE WakeReaper
  BY <1>10 DEF WakeReaper
<1>11. CASE ApplyFails
  BY <1>11 DEF ApplyFails
<1>12. CASE RestoreEnds
  BY <1>12 DEF RestoreEnds
<1>13. CASE Reactivate
  BY <1>13 DEF Reactivate, Reactivatable, stop_is_requested
<1>14. CASE RestoreRouting
  BY <1>14 DEF RestoreRouting
<1>15. CASE RestoreRefused
  BY <1>15 DEF RestoreRefused
<1>16. CASE Republish
  BY <1>16 DEF Republish
<1>17. CASE Finalize
  BY <1>17 DEF Finalize, Chosen, StopTarget
<1>18. CASE Quiesce
  BY <1>18 DEF Quiesce
<1>19. CASE StopAll
  BY <1>19 DEF StopAll, StopTarget
<1>20. CASE SignalStop
  BY <1>20 DEF SignalStop
<1>21. CASE JoinWorkloads
  BY <1>21 DEF JoinWorkloads
<1>22. CASE ClearSlot
  BY <1>22 DEF ClearSlot
<1>23. CASE ReaperLook
  BY <1>23 DEF ReaperLook
<1>24. CASE ReaperStops
  BY <1>24 DEF ReaperStops, StopTarget
<1>25. CASE ReaperEnds
  BY <1>25 DEF ReaperEnds
<1> QED
  BY <1>1, <1>2, <1>3, <1>4, <1>5, <1>6, <1>7, <1>8, <1>9, <1>10, <1>11, <1>12, <1>13, <1>14, <1>15,
     <1>16, <1>17, <1>18, <1>19, <1>20, <1>21, <1>22, <1>23, <1>24, <1>25 DEF Acts

\* Nothing takes up a generation that is not built.
LEMMA UnbuiltKept ==
    ASSUME TypeOK, Unbuilt, Hands, Serving, Acts
    PROVE  Unbuilt'
<1> USE DEF At, Settled, core, flags, drain, owner, tcp, sessions, TypeOK, Unbuilt, Hands, Serving,
      Open, Quiescing, Untargeted, Targeted, Retirees, Threads, None, Generations
<1>1. CASE SnapshotForApply
  BY <1>1 DEF SnapshotForApply
<1>2. CASE EvictOldest
  BY <1>2 DEF EvictOldest, Evicted, Oldest, EvictionTarget, StopTarget
<1>3. CASE BuildGeneration
  BY <1>3 DEF BuildGeneration
<1>4. CASE BuildFails
  BY <1>4 DEF BuildFails
<1>5. CASE ActivateRouting
  BY <1>5 DEF ActivateRouting
<1>6. CASE RoutingRefused
  BY <1>6 DEF RoutingRefused
<1>7. CASE Publish
  BY <1>7 DEF Publish
<1>8. CASE CloseAdmission
  BY <1>8 DEF CloseAdmission
<1>9. CASE PushRetired
  BY <1>9 DEF PushRetired, Evicted, Oldest, EvictionTarget, StopTarget
<1>10. CASE WakeReaper
  BY <1>10 DEF WakeReaper
<1>11. CASE ApplyFails
  BY <1>11 DEF ApplyFails
<1>12. CASE RestoreEnds
  BY <1>12 DEF RestoreEnds
<1>13. CASE Reactivate
  BY <1>13 DEF Reactivate, Reactivatable, stop_is_requested
<1>14. CASE RestoreRouting
  BY <1>14 DEF RestoreRouting
<1>15. CASE RestoreRefused
  BY <1>15 DEF RestoreRefused
<1>16. CASE Republish
  BY <1>16 DEF Republish
<1>17. CASE Finalize
  <2>1. Retirees' = Retirees /\ \A g : Untargeted(g)' <=> Untargeted(g) /\ \A r \in Chosen : g # r.id
    BY <1>17, Finalized
  <2>2. UNCHANGED <<slot, hand, snapshot, life, workload_stop>> /\ Chosen \subseteq retired
    BY <1>17 DEF Finalize, Chosen
  <2> SUFFICES ASSUME NEW g \in Generations, life'[g] = "unbuilt"
               PROVE  (~workload_stop[g] /\ g \notin Retirees /\ Untargeted(g) /\ g \notin {slot, hand, snapshot})'
    BY DEF Unbuilt
  <2>3. ~workload_stop[g] /\ g \notin Retirees /\ Untargeted(g) /\ g \notin {slot, hand, snapshot}
    BY <2>2
  <2>4. \A r \in Chosen : g # r.id
    BY <2>2, <2>3
  <2>5. Untargeted(g)'
    BY <2>1, <2>3, <2>4
  <2> QED
    BY <2>1, <2>2, <2>3, <2>5
<1>18. CASE Quiesce
  BY <1>18 DEF Quiesce
<1>19. CASE StopAll
  BY <1>19 DEF StopAll, StopTarget
<1>20. CASE SignalStop
  BY <1>20 DEF SignalStop
<1>21. CASE JoinWorkloads
  BY <1>21 DEF JoinWorkloads
<1>22. CASE ClearSlot
  BY <1>22 DEF ClearSlot
<1>23. CASE ReaperLook
  BY <1>23 DEF ReaperLook
<1>24. CASE ReaperStops
  BY <1>24 DEF ReaperStops, StopTarget
<1>25. CASE ReaperEnds
  BY <1>25 DEF ReaperEnds
<1> QED
  BY <1>1, <1>2, <1>3, <1>4, <1>5, <1>6, <1>7, <1>8, <1>9, <1>10, <1>11, <1>12, <1>13, <1>14, <1>15,
     <1>16, <1>17, <1>18, <1>19, <1>20, <1>21, <1>22, <1>23, <1>24, <1>25 DEF Acts

\* The control thread moves from place to place with the generations its next place expects.
LEMMA HandsKept ==
    ASSUME TypeOK, List, Hands, Serving, Unbuilt, Drains, SnapshotRestorable, Acts
    PROVE  Hands'
<1> USE DEF At, Settled, core, flags, drain, owner, tcp, sessions, SnapshotRestorable, Drains, Unbuilt,
      Generations, TypeOK, List, Hands, Serving, Open, Held, Quiescing, Untargeted, Targeted, Retirees,
      Records, Threads, None
<1>1. CASE SnapshotForApply
  BY <1>1 DEF SnapshotForApply
<1>2. CASE EvictOldest
  BY <1>2 DEF EvictOldest, Evicted, Oldest, EvictionTarget, StopTarget
<1>3. CASE BuildGeneration
  BY <1>3 DEF BuildGeneration
<1>4. CASE BuildFails
  BY <1>4 DEF BuildFails
<1>5. CASE ActivateRouting
  BY <1>5 DEF ActivateRouting
<1>6. CASE RoutingRefused
  BY <1>6 DEF RoutingRefused
<1>7. CASE Publish
  BY <1>7 DEF Publish
<1>8. CASE CloseAdmission
  BY <1>8 DEF CloseAdmission
<1>9. CASE PushRetired
  <2>1. Held(hand)'
    BY ONLY <1>9, Hands, TypeOK, Pushed DEF Held, PushRetired
  <2>2. control = "push" /\ control' = "wake" /\ UNCHANGED <<slot, hand, snapshot>>
    BY <1>9 DEF PushRetired
  <2> QED
    BY ONLY <2>1, <2>2, Hands DEF Hands, Quiescing
<1>10. CASE WakeReaper
  BY <1>10 DEF WakeReaper
<1>11. CASE ApplyFails
  BY <1>11 DEF ApplyFails
<1>12. CASE RestoreEnds
  BY <1>12 DEF RestoreEnds
<1>13. CASE Reactivate
  BY <1>13 DEF Reactivate, Reactivatable, stop_is_requested
<1>14. CASE RestoreRouting
  BY <1>14 DEF RestoreRouting
<1>15. CASE RestoreRefused
  BY <1>15 DEF RestoreRefused
<1>16. CASE Republish
  BY <1>16 DEF Republish
<1>17. CASE Finalize
  <2>1. Held(hand)'
    BY ONLY <1>17, Hands, TypeOK, Finalized DEF Hands, Finalize, At
  <2>2. control = "finalize" /\ control' = "finalized" /\ UNCHANGED <<slot, hand, snapshot>>
    BY <1>17 DEF Finalize
  <2> QED
    BY ONLY <2>1, <2>2, Hands DEF Hands, Quiescing
<1>18. CASE Quiesce
  BY <1>18 DEF Quiesce
<1>19. CASE StopAll
  BY <1>19 DEF StopAll, StopTarget
<1>20. CASE SignalStop
  BY <1>20 DEF SignalStop
<1>21. CASE JoinWorkloads
  BY <1>21 DEF JoinWorkloads
<1>22. CASE ClearSlot
  BY <1>22 DEF ClearSlot
<1>23. CASE ReaperLook
  BY <1>23 DEF ReaperLook
<1>24. CASE ReaperStops
  BY <1>24 DEF ReaperStops, StopTarget
<1>25. CASE ReaperEnds
  BY <1>25 DEF ReaperEnds
<1> QED
  BY <1>1, <1>2, <1>3, <1>4, <1>5, <1>6, <1>7, <1>8, <1>9, <1>10, <1>11, <1>12, <1>13, <1>14, <1>15,
     <1>16, <1>17, <1>18, <1>19, <1>20, <1>21, <1>22, <1>23, <1>24, <1>25 DEF Acts

\* A publication and a republication put an open generation into the slot; a shutdown stops it before it is cleared.
LEMMA ServingKept ==
    ASSUME TypeOK, List, Hands, Serving, Drains, Acts
    PROVE  Serving'
<1> USE DEF At, Settled, core, flags, drain, owner, tcp, sessions, Drains, TypeOK, List, Hands, Serving,
      Open, Held, Quiescing, Untargeted, Targeted, Retirees, Records, Threads, None
<1>1. CASE SnapshotForApply
  BY <1>1 DEF SnapshotForApply
<1>2. CASE EvictOldest
  BY <1>2 DEF EvictOldest, Evicted, Oldest, EvictionTarget, StopTarget
<1>3. CASE BuildGeneration
  BY <1>3 DEF BuildGeneration
<1>4. CASE BuildFails
  BY <1>4 DEF BuildFails
<1>5. CASE ActivateRouting
  BY <1>5 DEF ActivateRouting
<1>6. CASE RoutingRefused
  BY <1>6 DEF RoutingRefused
<1>7. CASE Publish
  BY <1>7 DEF Publish
<1>8. CASE CloseAdmission
  BY <1>8 DEF CloseAdmission
<1>9. CASE PushRetired
  BY <1>9 DEF PushRetired, Evicted, Oldest, EvictionTarget, StopTarget
<1>10. CASE WakeReaper
  BY <1>10 DEF WakeReaper
<1>11. CASE ApplyFails
  BY <1>11 DEF ApplyFails
<1>12. CASE RestoreEnds
  BY <1>12 DEF RestoreEnds
<1>13. CASE Reactivate
  BY <1>13 DEF Reactivate, Reactivatable, stop_is_requested
<1>14. CASE RestoreRouting
  BY <1>14 DEF RestoreRouting
<1>15. CASE RestoreRefused
  BY <1>15 DEF RestoreRefused
<1>16. CASE Republish
  BY <1>16 DEF Republish
<1>17. CASE Finalize
  BY <1>17 DEF Finalize, Chosen, StopTarget
<1>18. CASE Quiesce
  BY <1>18 DEF Quiesce
<1>19. CASE StopAll
  BY <1>19 DEF StopAll, StopTarget
<1>20. CASE SignalStop
  BY <1>20 DEF SignalStop
<1>21. CASE JoinWorkloads
  BY <1>21 DEF JoinWorkloads
<1>22. CASE ClearSlot
  BY <1>22 DEF ClearSlot
<1>23. CASE ReaperLook
  BY <1>23 DEF ReaperLook
<1>24. CASE ReaperStops
  BY <1>24 DEF ReaperStops, StopTarget
<1>25. CASE ReaperEnds
  BY <1>25 DEF ReaperEnds
<1> QED
  BY <1>1, <1>2, <1>3, <1>4, <1>5, <1>6, <1>7, <1>8, <1>9, <1>10, <1>11, <1>12, <1>13, <1>14, <1>15,
     <1>16, <1>17, <1>18, <1>19, <1>20, <1>21, <1>22, <1>23, <1>24, <1>25 DEF Acts

\* The reaper waits without targets, and ends only when the owner has been stopped.
LEMMA DrainsKept ==
    ASSUME TypeOK, Drains, Hands, Acts
    PROVE  Drains'
<1> USE DEF At, Settled, core, flags, drain, owner, tcp, sessions, TypeOK, Drains, Hands, Quiescing,
      Threads
<1>1. CASE SnapshotForApply
  BY <1>1 DEF SnapshotForApply
<1>2. CASE EvictOldest
  BY <1>2 DEF EvictOldest, Evicted, Oldest, EvictionTarget, StopTarget
<1>3. CASE BuildGeneration
  BY <1>3 DEF BuildGeneration
<1>4. CASE BuildFails
  BY <1>4 DEF BuildFails
<1>5. CASE ActivateRouting
  BY <1>5 DEF ActivateRouting
<1>6. CASE RoutingRefused
  BY <1>6 DEF RoutingRefused
<1>7. CASE Publish
  BY <1>7 DEF Publish
<1>8. CASE CloseAdmission
  BY <1>8 DEF CloseAdmission
<1>9. CASE PushRetired
  BY <1>9 DEF PushRetired, Evicted, Oldest, EvictionTarget, StopTarget
<1>10. CASE WakeReaper
  BY <1>10 DEF WakeReaper
<1>11. CASE ApplyFails
  BY <1>11 DEF ApplyFails
<1>12. CASE RestoreEnds
  BY <1>12 DEF RestoreEnds
<1>13. CASE Reactivate
  BY <1>13 DEF Reactivate, Reactivatable, stop_is_requested
<1>14. CASE RestoreRouting
  BY <1>14 DEF RestoreRouting
<1>15. CASE RestoreRefused
  BY <1>15 DEF RestoreRefused
<1>16. CASE Republish
  BY <1>16 DEF Republish
<1>17. CASE Finalize
  BY <1>17 DEF Finalize, Chosen, StopTarget
<1>18. CASE Quiesce
  BY <1>18 DEF Quiesce
<1>19. CASE StopAll
  BY <1>19 DEF StopAll, StopTarget
<1>20. CASE SignalStop
  BY <1>20 DEF SignalStop
<1>21. CASE JoinWorkloads
  BY <1>21 DEF JoinWorkloads
<1>22. CASE ClearSlot
  BY <1>22 DEF ClearSlot
<1>23. CASE ReaperLook
  BY <1>23 DEF ReaperLook
<1>24. CASE ReaperStops
  BY <1>24 DEF ReaperStops, StopTarget
<1>25. CASE ReaperEnds
  BY <1>25 DEF ReaperEnds
<1> QED
  BY <1>1, <1>2, <1>3, <1>4, <1>5, <1>6, <1>7, <1>8, <1>9, <1>10, <1>11, <1>12, <1>13, <1>14, <1>15,
     <1>16, <1>17, <1>18, <1>19, <1>20, <1>21, <1>22, <1>23, <1>24, <1>25 DEF Acts

\* From its retirement to the commit or the rollback the previous generation stays in the list.
LEMMA RestorableKept ==
    ASSUME TypeOK, List, Hands, Drains, SnapshotRestorable, Acts
    PROVE  SnapshotRestorable'
<1> USE DEF At, Settled, core, flags, drain, owner, tcp, sessions, SnapshotRestorable, Drains, TypeOK,
      List, Hands, Serving, Open, Held, Quiescing, Untargeted, Targeted, Retirees, Records, Threads,
      None
<1>1. CASE SnapshotForApply
  BY <1>1 DEF SnapshotForApply
<1>2. CASE EvictOldest
  BY <1>2 DEF EvictOldest, Evicted, Oldest, EvictionTarget, StopTarget
<1>3. CASE BuildGeneration
  BY <1>3 DEF BuildGeneration
<1>4. CASE BuildFails
  BY <1>4 DEF BuildFails
<1>5. CASE ActivateRouting
  BY <1>5 DEF ActivateRouting
<1>6. CASE RoutingRefused
  BY <1>6 DEF RoutingRefused
<1>7. CASE Publish
  BY <1>7 DEF Publish
<1>8. CASE CloseAdmission
  BY <1>8 DEF CloseAdmission
<1>9. CASE PushRetired
  <2>1. PICK new \in Records : /\ new.id = hand /\ new.heavy /\ new.reason = "none"
                              /\ retired' = (retired \ Evicted) \union {new}
    BY <1>9, Pushed
  <2>2. control = "push" /\ life[hand] = "Retired" /\ UNCHANGED <<slot, hand, snapshot, life>>
    BY <1>9 DEF PushRetired
  <2> QED
    BY ONLY <2>1, <2>2, Hands DEF Hands, SnapshotRestorable
<1>10. CASE WakeReaper
  BY <1>10 DEF WakeReaper
<1>11. CASE ApplyFails
  BY <1>11 DEF ApplyFails
<1>12. CASE RestoreEnds
  BY <1>12 DEF RestoreEnds
<1>13. CASE Reactivate
  BY <1>13 DEF Reactivate, Reactivatable, stop_is_requested
<1>14. CASE RestoreRouting
  BY <1>14 DEF RestoreRouting
<1>15. CASE RestoreRefused
  BY <1>15 DEF RestoreRefused
<1>16. CASE Republish
  BY <1>16 DEF Republish
<1>17. CASE Finalize
  BY <1>17 DEF Finalize, Chosen, StopTarget
<1>18. CASE Quiesce
  BY <1>18 DEF Quiesce
<1>19. CASE StopAll
  BY <1>19 DEF StopAll, StopTarget
<1>20. CASE SignalStop
  BY <1>20 DEF SignalStop
<1>21. CASE JoinWorkloads
  BY <1>21 DEF JoinWorkloads
<1>22. CASE ClearSlot
  BY <1>22 DEF ClearSlot
<1>23. CASE ReaperLook
  BY <1>23 DEF ReaperLook
<1>24. CASE ReaperStops
  BY <1>24 DEF ReaperStops, StopTarget
<1>25. CASE ReaperEnds
  BY <1>25 DEF ReaperEnds
<1> QED
  BY <1>1, <1>2, <1>3, <1>4, <1>5, <1>6, <1>7, <1>8, <1>9, <1>10, <1>11, <1>12, <1>13, <1>14, <1>15,
     <1>16, <1>17, <1>18, <1>19, <1>20, <1>21, <1>22, <1>23, <1>24, <1>25 DEF Acts

\* A generation leaves the list, the slot or the hand for another of these places, or for the targets of a thread.
LEMMA NothingLost ==
    ASSUME TypeOK, List, Stops, Hands, Serving, Drains, SnapshotRestorable, NothingForgotten, Acts
    PROVE  NothingForgotten'
<1> USE DEF At, Settled, core, flags, drain, owner, tcp, sessions, NothingForgotten, SnapshotRestorable,
      Stops, Drains, Generations, TypeOK, List, Hands, Serving, Open, Held, Quiescing, Untargeted,
      Targeted, Retirees, Records, Threads, None
<1>1. CASE SnapshotForApply
  BY <1>1 DEF SnapshotForApply
<1>2. CASE EvictOldest
  <2>1. /\ \A g : Untargeted(g)' <=> Untargeted(g) /\ \A r \in Evicted : g # r.id
        /\ retired' = retired \ Evicted
    BY <1>2, EvictionTargets DEF EvictOldest
  <2>2. /\ control = "evict" /\ control' = "build"
        /\ UNCHANGED <<slot, hand, snapshot, refused, life, workload_stop>>
    BY <1>2 DEF EvictOldest
  <2> QED
    BY ONLY <2>1, <2>2, NothingForgotten DEF NothingForgotten, Untargeted, Retirees
<1>3. CASE BuildGeneration
  BY <1>3 DEF BuildGeneration
<1>4. CASE BuildFails
  BY <1>4 DEF BuildFails
<1>5. CASE ActivateRouting
  BY <1>5 DEF ActivateRouting
<1>6. CASE RoutingRefused
  BY <1>6 DEF RoutingRefused
<1>7. CASE Publish
  BY <1>7 DEF Publish
<1>8. CASE CloseAdmission
  BY <1>8 DEF CloseAdmission
<1>9. CASE PushRetired
  <2>1. PICK new \in Records : new.id = hand /\ retired' = (retired \ Evicted) \union {new}
    BY <1>9, Pushed
  <2>2. \A g : Untargeted(g)' <=> Untargeted(g) /\ \A r \in Evicted : g # r.id
    BY <1>9, Pushed
  <2>3. /\ control = "push" /\ control' = "wake"
        /\ UNCHANGED <<slot, hand, snapshot, refused, life, workload_stop>>
    BY <1>9 DEF PushRetired
  <2> QED
    BY ONLY <2>1, <2>2, <2>3, NothingForgotten DEF NothingForgotten, Untargeted, Retirees
<1>10. CASE WakeReaper
  BY <1>10 DEF WakeReaper
<1>11. CASE ApplyFails
  BY <1>11 DEF ApplyFails
<1>12. CASE RestoreEnds
  BY <1>12 DEF RestoreEnds
<1>13. CASE Reactivate
  BY <1>13 DEF Reactivate, Reactivatable, stop_is_requested
<1>14. CASE RestoreRouting
  BY <1>14 DEF RestoreRouting
<1>15. CASE RestoreRefused
  BY <1>15 DEF RestoreRefused
<1>16. CASE Republish
  BY <1>16 DEF Republish
<1>17. CASE Finalize
  BY <1>17 DEF Finalize, Chosen, StopTarget
<1>18. CASE Quiesce
  BY <1>18 DEF Quiesce
<1>19. CASE StopAll
  <2>1. \A g : Untargeted(g)' <=> Untargeted(g) /\ g \notin Retirees
    BY <1>19, AllTargets DEF StopAll
  <2>2. /\ control = "stop_all" /\ control' = "signal"
        /\ UNCHANGED <<slot, hand, snapshot, refused, life, workload_stop>>
    BY <1>19 DEF StopAll
  <2> QED
    BY ONLY <2>1, <2>2, NothingForgotten DEF NothingForgotten, Untargeted
<1>20. CASE SignalStop
  BY <1>20 DEF SignalStop
<1>21. CASE JoinWorkloads
  BY <1>21 DEF JoinWorkloads
<1>22. CASE ClearSlot
  BY <1>22 DEF ClearSlot
<1>23. CASE ReaperLook
  BY <1>23 DEF ReaperLook
<1>24. CASE ReaperStops
  <2>1. \A g : Untargeted(g)' <=> Untargeted(g) /\ g \notin Retirees
    BY <1>24, AllTargets DEF ReaperStops
  <2>2. UNCHANGED <<control, slot, hand, snapshot, refused, life, workload_stop>>
    BY <1>24 DEF ReaperStops
  <2> QED
    BY ONLY <2>1, <2>2, NothingForgotten DEF NothingForgotten, Untargeted
<1>25. CASE ReaperEnds
  BY <1>25 DEF ReaperEnds
<1> QED
  BY <1>1, <1>2, <1>3, <1>4, <1>5, <1>6, <1>7, <1>8, <1>9, <1>10, <1>11, <1>12, <1>13, <1>14, <1>15,
     <1>16, <1>17, <1>18, <1>19, <1>20, <1>21, <1>22, <1>23, <1>24, <1>25 DEF Acts

\* The steps that neither reap nor stop by force keep the types.
LEMMA TypesKept ==
    ASSUME TypeOK, List, Hands, Serving, Drains, Acts
    PROVE  TypeOK'
<1> USE DEF At, Settled, core, flags, drain, owner, tcp, sessions, Drains, StopTargets, Reasons, States,
      Generations, TypeOK, List, Hands, Serving, Open, Held, Quiescing, Untargeted, Targeted, Retirees,
      Records, Threads, None
<1>1. CASE SnapshotForApply
  BY <1>1 DEF SnapshotForApply
<1>2. CASE EvictOldest
  BY ONLY <1>2, TypeOK, EvictionTargets
     DEF TypeOK, EvictOldest, At, core, flags, tcp, sessions, Evicted, Oldest
<1>3. CASE BuildGeneration
  BY <1>3 DEF BuildGeneration
<1>4. CASE BuildFails
  BY <1>4 DEF BuildFails
<1>5. CASE ActivateRouting
  BY <1>5 DEF ActivateRouting
<1>6. CASE RoutingRefused
  BY <1>6 DEF RoutingRefused
<1>7. CASE Publish
  BY <1>7 DEF Publish
<1>8. CASE CloseAdmission
  BY <1>8 DEF CloseAdmission
<1>9. CASE PushRetired
  <2>1. retired' \subseteq Records /\ targets' \in [Threads -> SUBSET StopTargets]
    BY ONLY <1>9, TypeOK, Hands, Pushed DEF TypeOK
  <2> QED
    BY ONLY <1>9, <2>1, TypeOK DEF TypeOK, PushRetired, At, core, flags, tcp, sessions
<1>10. CASE WakeReaper
  BY <1>10 DEF WakeReaper
<1>11. CASE ApplyFails
  BY <1>11 DEF ApplyFails
<1>12. CASE RestoreEnds
  BY <1>12 DEF RestoreEnds
<1>13. CASE Reactivate
  BY <1>13 DEF Reactivate, Reactivatable, stop_is_requested
<1>14. CASE RestoreRouting
  BY <1>14 DEF RestoreRouting
<1>15. CASE RestoreRefused
  BY <1>15 DEF RestoreRefused
<1>16. CASE Republish
  BY <1>16 DEF Republish
<1>17. CASE Finalize
  <2>1. retired' \subseteq Records /\ targets' \in [Threads -> SUBSET StopTargets]
    BY <1>17, Finalized
  <2> QED
    BY ONLY <1>17, <2>1, TypeOK DEF TypeOK, Finalize, At, core, flags, tcp, sessions
<1>18. CASE Quiesce
  BY <1>18 DEF Quiesce
<1>19. CASE StopAll
  <2>1. targets' \in [Threads -> SUBSET StopTargets]
    BY <1>19, AllTargets DEF StopAll
  <2> QED
    BY ONLY <1>19, <2>1, TypeOK DEF TypeOK, StopAll, At, core, flags, tcp, sessions
<1>20. CASE SignalStop
  BY <1>20 DEF SignalStop
<1>21. CASE JoinWorkloads
  BY <1>21 DEF JoinWorkloads
<1>22. CASE ClearSlot
  BY <1>22 DEF ClearSlot
<1>23. CASE ReaperLook
  BY <1>23 DEF ReaperLook
<1>24. CASE ReaperStops
  <2>1. targets' \in [Threads -> SUBSET StopTargets]
    BY <1>24, AllTargets DEF ReaperStops
  <2> QED
    BY ONLY <1>24, <2>1, TypeOK DEF TypeOK, ReaperStops, core, flags, owner, tcp, sessions
<1>25. CASE ReaperEnds
  BY <1>25 DEF ReaperEnds
<1> QED
  BY <1>1, <1>2, <1>3, <1>4, <1>5, <1>6, <1>7, <1>8, <1>9, <1>10, <1>11, <1>12, <1>13, <1>14, <1>15,
     <1>16, <1>17, <1>18, <1>19, <1>20, <1>21, <1>22, <1>23, <1>24, <1>25 DEF Acts

-----------------------------------------------------------------------------
(* Reaps *)

\* What reap does to one record: its heavy generation goes when nobody else owns it, its reason is set at the deadline.
LEMMA RecordReaped ==
    ASSUME TypeOK, NEW q \in retired
    PROVE  /\ Looked(q) \in Records /\ Looked(q).id = q.id /\ Looked(q).aged = q.aged /\ Looked(q).reason = q.reason
           /\ Looked(q).heavy <=> q.heavy /\ HeavyOwned(q.id)
           /\ Judged(Looked(q)) \in Records /\ Judged(Looked(q)).id = q.id /\ Judged(Looked(q)).aged = q.aged
           /\ Judged(Looked(q)).heavy = Looked(q).heavy
           /\ Judged(Looked(q)).reason = IF TooOld(Looked(q)) THEN "MaximumAge" ELSE q.reason
<1>1. q \in [id : Generations, at : Nat, heavy : BOOLEAN, reason : Reasons, aged : BOOLEAN]
  BY DEF TypeOK, Records
<1>2. q \notin Detached <=> HeavyOwned(q.id)
  BY DEF Detached
<1>3. /\ Looked(q) \in Records /\ Looked(q).id = q.id /\ Looked(q).aged = q.aged /\ Looked(q).reason = q.reason
      /\ Looked(q).heavy <=> q.heavy /\ HeavyOwned(q.id)
  BY <1>1, <1>2 DEF Looked, Records
<1> QED
  BY <1>3 DEF Judged, Records, Reasons

\* What reap does to the list.  An owned generation keeps its record, its life and its workloads; one that leaves the
\* list has had its workloads stopped; and what can still be reactivated is not among the new targets.
LEMMA Reaped ==
    ASSUME TypeOK, List, NEW t \in Threads, targets[t] = {}, Reap(t)
    PROVE  /\ retired' \subseteq Records /\ targets' \in [Threads -> SUBSET StopTargets]
           /\ life' \in [Generations -> States] /\ workload_stop' \in [Generations -> BOOLEAN]
           /\ \A r \in targets'[t] : ~r.begun
           /\ \A u \in Threads : u # t => targets'[u] = targets[u]
           /\ \A g : Untargeted(g) /\ g \notin Retirees => Untargeted(g)'
           /\ \A g : ~Untargeted(g) => ~Untargeted(g)'
           /\ Retirees' \subseteq Retirees
           /\ \A g \in Generations :
                 /\ workload_stop[g] => workload_stop'[g]
                 /\ g \in Retirees => g \in Retirees' \/ workload_stop'[g]
                 /\ g \notin Retirees \/ HeavyOwned(g) => life'[g] = life[g] /\ workload_stop'[g] = workload_stop[g]
                 /\ life'[g] = life[g] \/ life'[g] = "Draining"
           /\ \A q \in retired : q.heavy /\ HeavyOwned(q.id) =>
                 \E r \in retired' : r.id = q.id /\ r.heavy /\ r.aged = q.aged /\ (r.reason = q.reason \/ q.aged)
           /\ List'
<1> DEFINE old == {q \in Retained : TooOld(q)}
<1>1. retired' = {Judged(r) : r \in Retained} /\ Retained \subseteq {Looked(q) : q \in retired}
  BY DEF Reap, Retained
<1>2. \A r \in retired' : \E q \in retired : r = Judged(Looked(q)) /\ Looked(q) \in Retained
  BY <1>1
<1>3. retired \subseteq Records /\ retired' \subseteq Records /\ Retirees' \subseteq Retirees
  BY <1>2, RecordReaped DEF Retirees, TypeOK
<1>4. old \in SUBSET Records
  BY RecordReaped DEF Retained
<1>5. /\ targets' \in [Threads -> SUBSET StopTargets] /\ \A r \in targets'[t] : ~r.begun
      /\ \A u \in Threads : u # t => targets'[u] = targets[u] /\ Targeted(u)' = Targeted(u)
      /\ Targeted(t)' = {r.id : r \in old}
  BY <1>4, TargetsOf DEF Reap
<1>6. {r.id : r \in old} \subseteq Retirees
  BY RecordReaped DEF Retained, Retirees
<1>7. Targeted(t) = {}
  BY DEF Targeted
<1>8. /\ \A g : Untargeted(g) /\ g \notin Retirees => Untargeted(g)'
      /\ \A g : ~Untargeted(g) => ~Untargeted(g)'
  BY <1>5, <1>6, <1>7 DEF Untargeted
<1>9. Workless \subseteq Retirees /\ \A g \in Workless : ~HeavyOwned(g)
  BY DEF Workless, Detached, Retirees
<1>10. /\ life' = [g \in Generations |-> IF g \in Workless /\ life[g] # "Stopped" THEN "Draining" ELSE life[g]]
       /\ workload_stop' = [g \in Generations |-> workload_stop[g] \/ g \in Workless]
  BY DEF Reap, Drained
<1>11. /\ life' \in [Generations -> States] /\ workload_stop' \in [Generations -> BOOLEAN]
       /\ \A g \in Generations :
             /\ workload_stop[g] => workload_stop'[g]
             /\ g \notin Retirees \/ HeavyOwned(g) => life'[g] = life[g] /\ workload_stop'[g] = workload_stop[g]
             /\ life'[g] = life[g] \/ life'[g] = "Draining"
  BY <1>9, <1>10 DEF TypeOK, States
<1>12. \A q \in retired : q.heavy /\ HeavyOwned(q.id) => Judged(Looked(q)) \in retired'
  BY <1>1, RecordReaped DEF Retained
<1>13. \A q \in retired : q.heavy /\ HeavyOwned(q.id) =>
          \E r \in retired' : r.id = q.id /\ r.heavy /\ r.aged = q.aged /\ (r.reason = q.reason \/ q.aged)
  BY <1>12, RecordReaped DEF TooOld
<1>14. \A q \in retired : ~Looked(q).heavy => workload_stop'[q.id]
  <2> SUFFICES ASSUME NEW q \in retired, ~Looked(q).heavy
               PROVE  workload_stop'[q.id]
    OBVIOUS
  <2>1. q.id \in Generations
    BY <1>3 DEF Records
  <2>2. CASE ~q.heavy
    BY <2>1, <2>2, <1>11 DEF List
  <2>3. CASE q.heavy
    <3>1. q \in Detached
      BY <2>3, RecordReaped DEF Detached
    <3> QED
      BY <2>1, <2>3, <3>1, <1>10 DEF Workless
  <2> QED
    BY <2>2, <2>3
<1>15. \A g \in Generations : g \in Retirees => g \in Retirees' \/ workload_stop'[g]
  <2> SUFFICES ASSUME NEW q \in retired, ~workload_stop'[q.id]
               PROVE  q.id \in Retirees'
    BY DEF Retirees
  <2>1. Looked(q) \in Retained
    BY <1>14 DEF Retained
  <2>2. Judged(Looked(q)) \in retired'
    BY <1>1, <2>1
  <2> QED
    BY <2>2, RecordReaped DEF Retirees
<1>16. List'
  <2>1. ASSUME NEW r \in retired', NEW s \in retired', r.id = s.id PROVE r = s
    BY <2>1, <1>2, RecordReaped DEF List
  <2>2. ASSUME NEW r \in retired', ~r.heavy PROVE workload_stop'[r.id]
    BY <2>2, <1>2, <1>14, RecordReaped
  <2>3. ASSUME NEW r \in retired', r.heavy, r.reason = "none"
        PROVE  life'[r.id] = "Retired" /\ ~workload_stop'[r.id] /\ Untargeted(r.id)'
    <3>1. PICK q \in retired : r = Judged(Looked(q)) /\ Looked(q) \in Retained
      BY <1>2
    <3>2. q.heavy /\ HeavyOwned(q.id) /\ q.reason = "none" /\ ~TooOld(Looked(q)) /\ r.id = q.id /\ q.id \in Generations
      BY <2>3, <3>1, <1>3, RecordReaped DEF Records
    <3>3. life'[r.id] = "Retired" /\ ~workload_stop'[r.id] /\ Untargeted(r.id)
      BY <3>2, <1>11 DEF List
    <3>4. r.id \notin {s.id : s \in old}
      <4> SUFFICES ASSUME NEW s \in retired, Looked(s) \in old, Looked(s).id = r.id
                   PROVE  FALSE
        BY DEF Retained
      <4>1. s = q
        BY <3>2, RecordReaped DEF List
      <4> QED
        BY <3>2, <4>1
    <3> QED
      BY <3>3, <3>4, <1>5 DEF Untargeted
  <2> QED
    BY <2>1, <2>2, <2>3 DEF List
<1> QED
  BY <1>3, <1>5, <1>8, <1>11, <1>13, <1>15, <1>16

\* the steps that reap: in each the thread has no target left and the places of the control thread move on
Reaps ==
    \/ ReaperReaps \/ PreparePublication \/ CommitPublication
    \/ ApplyEnds /\ slot = snapshot

\* Reaps keep the types and the invariant: slot, snapshot and hand are owners, so what they hold is not detached.
LEMMA ReapsKeep ==
    ASSUME TypeOK, Swap, Reaps
    PROVE  TypeOK' /\ Swap'
<1>1. PICK t \in Threads :
         /\ targets[t] = {} /\ Reap(t)
         /\ \/ t = "reaper" /\ reaper' = "look" /\ UNCHANGED <<control, hand, snapshot>>
            \/ t = "control" /\ UNCHANGED reaper /\ control \in {"prepare", "published", "finalized"}
  BY DEF owner, Reaps, ReaperReaps, PreparePublication, CommitPublication, ApplyEnds, At, Settled, Threads,
       Swap, Drains
<1>2. UNCHANGED <<core, udp_stop, refused, stop, acceptor, seen, flows, manager, noticed, registered, udp, pins, closing>>
  BY DEF Reaps, ReaperReaps, PreparePublication, CommitPublication, ApplyEnds, owner, tcp
<1>3. /\ reaper' \in {reaper, "look"} /\ wake' \in BOOLEAN /\ notified' \in BOOLEAN
      /\ \/ UNCHANGED <<control, hand, snapshot>>
         \/ control = "prepare" /\ control' = "evict" /\ UNCHANGED <<hand, snapshot>>
         \/ control = "published" /\ control' = "finalized" /\ UNCHANGED <<hand, snapshot>>
         \/ control = "finalized" /\ control' = "idle" /\ slot = snapshot /\ hand' = None /\ snapshot' = None
  BY DEF Reaps, ReaperReaps, PreparePublication, CommitPublication, ApplyEnds, At, owner, TypeOK, Reap
<1>4. /\ retired' \subseteq Records /\ targets' \in [Threads -> SUBSET StopTargets]
      /\ life' \in [Generations -> States] /\ workload_stop' \in [Generations -> BOOLEAN]
      /\ \A r \in targets'[t] : ~r.begun
      /\ \A u \in Threads : u # t => targets'[u] = targets[u]
      /\ Retirees' \subseteq Retirees
      /\ \A g \in Generations :
            /\ workload_stop[g] => workload_stop'[g]
            /\ g \in Retirees => g \in Retirees' \/ workload_stop'[g]
            /\ g \notin Retirees \/ HeavyOwned(g) => life'[g] = life[g] /\ workload_stop'[g] = workload_stop[g]
            /\ life'[g] = life[g] \/ life'[g] = "Draining"
      /\ \A q \in retired : q.heavy /\ HeavyOwned(q.id) =>
            \E r \in retired' : r.id = q.id /\ r.heavy /\ r.aged = q.aged /\ (r.reason = q.reason \/ q.aged)
      /\ List'
  BY <1>1, Reaped DEF Swap
<1>5. /\ \A g : Untargeted(g) /\ g \notin Retirees => Untargeted(g)'
      /\ \A g : ~Untargeted(g) => ~Untargeted(g)'
  BY <1>1, Reaped DEF Swap
<1>6. TypeOK'
  BY <1>2, <1>3, <1>4 DEF TypeOK, core
<1>7. Stops'
  BY <1>4 DEF Swap, Stops, TypeOK, StopTargets
<1>8. Unbuilt'
  <2> SUFFICES ASSUME NEW g \in Generations, life'[g] = "unbuilt"
               PROVE  (~workload_stop[g] /\ g \notin Retirees /\ Untargeted(g) /\ g \notin {slot, hand, snapshot})'
    BY DEF Unbuilt
  <2>1. life[g] = "unbuilt"
    BY <1>4
  <2>2. ~workload_stop[g] /\ g \notin Retirees /\ Untargeted(g) /\ g \notin {slot, hand, snapshot}
    BY <2>1 DEF Swap, Unbuilt
  <2>3. Untargeted(g)'
    BY <1>5, <2>2
  <2>4. g \notin Retirees' /\ ~workload_stop'[g] /\ g \notin {slot', hand', snapshot'}
    BY <1>2, <1>3, <1>4, <2>2 DEF core, None, Generations
  <2> QED
    BY <2>3, <2>4
<1>9. \A g : Open(g) => Open(g)'
  <2> SUFFICES ASSUME NEW g, Open(g)
               PROVE  Open(g)'
    OBVIOUS
  <2>1. Untargeted(g)'
    BY <1>5 DEF Open
  <2> QED
    BY <1>4, <2>1 DEF Open
<1>10. \A g : Held(g) /\ HeavyOwned(g) => Held(g)'
  BY <1>4 DEF Held
<1>11. /\ slot \in Generations => HeavyOwned(slot)
       /\ HeavyOwned(hand) /\ HeavyOwned(snapshot)
  BY DEF HeavyOwned
<1>12. Hands'
  BY <1>2, <1>3, <1>4, <1>5, <1>9, <1>10, <1>11 DEF Swap, Hands, Quiescing, core
<1>13. Serving'
  <2>1. Quiescing' => Quiescing /\ UNCHANGED <<slot, control, targets["control"]>>
    BY <1>1, <1>2, <1>3, <1>4 DEF Quiescing, core, Threads
  <2>2. Quiescing' => (slot = None \/ workload_stop[slot] \/ (control = "stop_all" /\ slot \in Targeted("control")))'
    BY <1>4, <2>1 DEF Swap, Serving, Targeted, TypeOK
  <2>3. ~Quiescing' => Open(slot)'
    BY <1>2, <1>3, <1>9 DEF Swap, Serving, Quiescing, core
  <2> QED
    BY <1>2, <1>3, <2>2, <2>3 DEF Swap, Serving, Quiescing, core
<1>14. Drains'
  BY <1>1, <1>2, <1>3, <1>4 DEF Swap, Drains, Threads
<1>15. SnapshotRestorable'
  BY <1>2, <1>3, <1>4, <1>11 DEF Swap, SnapshotRestorable, Hands, core
<1>16. NothingForgotten'
  <2> SUFFICES ASSUME NEW g \in Generations \ refused, life'[g] # "unbuilt", ~workload_stop'[g]
               PROVE  (\/ g \in {slot, hand} \union Retirees
                       \/ control \in {"reactivated", "republish"} /\ g = snapshot
                       \/ \E u \in Threads : g \in Targeted(u))'
    BY <1>2 DEF NothingForgotten
  <2>1. life[g] # "unbuilt" /\ ~workload_stop[g]
    BY <1>4 DEF Swap, Unbuilt
  <2>2. \/ g \in {slot, hand} \union Retirees
        \/ control \in {"reactivated", "republish"} /\ g = snapshot
        \/ ~Untargeted(g)
    BY <2>1 DEF Swap, NothingForgotten, Untargeted
  <2>3. ~Untargeted(g) => ~Untargeted(g)'
    BY <1>5
  <2>4. g \in Retirees => g \in Retirees'
    BY <1>4
  <2>5. g = hand => g = hand' \/ g \in Retirees'
    <3>1. g # None
      BY DEF Generations, None
    <3>2. control = "finalized" /\ slot = snapshot /\ g = hand => Held(g)
      BY <3>1 DEF Swap, Hands
    <3> QED
      BY <1>3, <2>4, <3>2 DEF Held, Retirees
  <2> QED
    BY <1>2, <1>3, <2>2, <2>3, <2>4, <2>5 DEF core, Untargeted
<1> QED
  BY <1>4, <1>6, <1>7, <1>8, <1>12, <1>13, <1>14, <1>15, <1>16 DEF Swap

-----------------------------------------------------------------------------
(* Forced stops, deadlines, and the steps of the loops *)

\* Half of request_force_stop: one targeted generation is retired or stopped and leaves the targets only when its
\* workloads are.
LEMMA Forced ==
    ASSUME TypeOK, Stops, NEW t \in Threads, RequestForceStop(t)
    PROVE  /\ targets' \in [Threads -> SUBSET StopTargets]
           /\ life' \in [Generations -> States] /\ workload_stop' \in [Generations -> BOOLEAN]
           /\ targets[t] # {} /\ \A u \in Threads : Targeted(u)' \subseteq Targeted(u)
           /\ \A u \in Threads : u # t => targets'[u] = targets[u]
           /\ Stops'
           /\ \E g \in Generations :
                 /\ g \in Targeted(t)
                 /\ \A u \in Threads : Targeted(u) \ {g} \subseteq Targeted(u)'
                 /\ workload_stop'[g] /\ life'[g] \in {"Draining", "Stopped"}
                 /\ \A h \in Generations \ {g} : life'[h] = life[h] /\ workload_stop'[h] = workload_stop[h]
<1>1. /\ targets \in [Threads -> SUBSET StopTargets] /\ life \in [Generations -> States]
      /\ workload_stop \in [Generations -> BOOLEAN]
  BY DEF TypeOK
<1>2. CASE ForceRetire(t)
  <2>1. PICK r \in targets[t] :
           /\ ~r.begun /\ life' = Drained({r.id}) /\ workload_stop' = [workload_stop EXCEPT ![r.id] = TRUE]
           /\ targets' = [targets EXCEPT ![t] = (targets[t] \ {r}) \union {[r EXCEPT !.begun = TRUE]}]
    BY <1>2 DEF ForceRetire, Oldest
  <2> DEFINE s == [r EXCEPT !.begun = TRUE]
  <2>2. s \in StopTargets /\ s.id = r.id /\ r.id \in Generations
    <3>1. r \in StopTargets
      BY <1>1
    <3> QED
      BY <3>1 DEF StopTargets
  <2>3. /\ targets' \in [Threads -> SUBSET StopTargets]
        /\ targets'[t] = (targets[t] \ {r}) \union {s} /\ \A u \in Threads : u # t => targets'[u] = targets[u]
    BY <1>1, <2>1, <2>2
  <2> HIDE DEF s
  <2>4. \A u \in Threads : Targeted(u)' = Targeted(u)
    BY <2>2, <2>3 DEF Targeted
  <2>5. /\ life' \in [Generations -> States] /\ workload_stop' \in [Generations -> BOOLEAN]
        /\ workload_stop'[r.id] /\ life'[r.id] \in {"Draining", "Stopped"}
        /\ \A h \in Generations \ {r.id} : life'[h] = life[h] /\ workload_stop'[h] = workload_stop[h]
    BY <1>1, <2>1, <2>2 DEF Drained, States
  <2>6. Stops'
    BY <1>1, <2>2, <2>3, <2>5 DEF Stops, StopTargets
  <2>7. r.id \in Targeted(t)
    BY DEF Targeted
  <2> QED
    BY <2>2, <2>3, <2>4, <2>5, <2>6, <2>7
<1>3. CASE ForceStop(t)
  <2>1. PICK r \in targets[t] :
           /\ r.begun /\ life' = [life EXCEPT ![r.id] = "Stopped"] /\ UNCHANGED workload_stop
           /\ targets' = [targets EXCEPT ![t] = targets[t] \ {r}]
    BY <1>3 DEF ForceStop, Oldest
  <2>2. r.id \in Generations /\ workload_stop[r.id] /\ r.id \in Targeted(t)
    BY <1>1, <2>1 DEF StopTargets, Stops, Targeted
  <2>3. /\ targets' \in [Threads -> SUBSET StopTargets]
        /\ targets'[t] = targets[t] \ {r} /\ \A u \in Threads : u # t => targets'[u] = targets[u]
    BY <1>1, <2>1
  <2>4. \A u \in Threads : Targeted(u)' \subseteq Targeted(u) /\ Targeted(u) \ {r.id} \subseteq Targeted(u)'
    BY <2>3 DEF Targeted
  <2>5. /\ life' \in [Generations -> States] /\ life'[r.id] = "Stopped"
        /\ \A h \in Generations \ {r.id} : life'[h] = life[h]
    BY <1>1, <2>1, <2>2 DEF States
  <2>6. Stops'
    BY <2>1, <2>3 DEF Stops
  <2> QED
    BY <1>1, <2>1, <2>2, <2>3, <2>4, <2>5, <2>6
<1> QED
  BY <1>2, <1>3 DEF RequestForceStop

\* A forced stop concerns a targeted generation, which is not published, not to be published and not reactivatable.
LEMMA ForceKeeps ==
    ASSUME TypeOK, Swap, NEW t \in Threads, RequestForceStop(t)
    PROVE  TypeOK' /\ Swap'
<1>1. /\ UNCHANGED <<core, retired, wake, reaper, owner, tcp, manager, noticed, registered, udp, pins, closing>>
      /\ udp_stop' \in [Generations -> BOOLEAN] /\ notified' \in BOOLEAN
  BY DEF RequestForceStop, ForceRetire, ForceStop, TypeOK
<1>2. /\ targets' \in [Threads -> SUBSET StopTargets]
      /\ life' \in [Generations -> States] /\ workload_stop' \in [Generations -> BOOLEAN]
      /\ targets[t] # {} /\ \A u \in Threads : Targeted(u)' \subseteq Targeted(u)
      /\ \A u \in Threads : u # t => targets'[u] = targets[u]
      /\ Stops'
  BY Forced DEF Swap
<1>3. PICK g \in Generations :
         /\ g \in Targeted(t)
         /\ \A u \in Threads : Targeted(u) \ {g} \subseteq Targeted(u)'
         /\ workload_stop'[g] /\ life'[g] \in {"Draining", "Stopped"}
         /\ \A h \in Generations \ {g} : life'[h] = life[h] /\ workload_stop'[h] = workload_stop[h]
  BY Forced DEF Swap
<1>4. TypeOK'
  BY <1>1, <1>2 DEF TypeOK, core, owner, tcp
<1>5. \A h : Untargeted(h) => Untargeted(h)' /\ h # g
  BY <1>2, <1>3 DEF Untargeted
<1>6. List'
  BY <1>1, <1>3, <1>5 DEF Swap, List, TypeOK, Records
<1>7. Unbuilt'
  BY <1>1, <1>3, <1>5 DEF Swap, Unbuilt, core, owner, Retirees
<1>8. \A h : Open(h) => Open(h)'
  BY <1>1, <1>3, <1>5 DEF Open, Retirees
<1>9. \A h : Held(h) => Held(h)'
  BY <1>1 DEF Held
<1>10. Hands'
  BY <1>1, <1>3, <1>5, <1>8, <1>9 DEF Swap, Hands, Quiescing, core, owner, Retirees
<1>11. Serving'
  <2>1. UNCHANGED <<slot, gate, control, Quiescing>>
    BY <1>1 DEF core, owner, Quiescing
  <2>2. ~Quiescing => Open(slot)'
    BY <1>8, <2>1 DEF Swap, Serving
  <2>3. Quiescing => (slot = None \/ workload_stop[slot] \/ (control = "stop_all" /\ slot \in Targeted("control")))'
    BY <1>3, <2>1 DEF Swap, Serving, TypeOK, Threads
  <2> QED
    BY <2>1, <2>2, <2>3 DEF Swap, Serving
<1>12. Drains'
  BY <1>1, <1>2 DEF Swap, Drains, owner, Threads
<1>13. SnapshotRestorable'
  BY <1>1, <1>3, <1>5 DEF Swap, SnapshotRestorable, List, TypeOK, Records, core, owner
<1>14. NothingForgotten'
  BY <1>1, <1>3 DEF Swap, NothingForgotten, Unbuilt, Untargeted, core, owner, Retirees
<1> QED
  BY <1>2, <1>4, <1>6, <1>7, <1>10, <1>11, <1>12, <1>13, <1>14 DEF Swap

\* A deadline that passes only marks a record.
LEMMA AgeKeeps ==
    ASSUME TypeOK, Swap, NEW g \in Generations, Age(g)
    PROVE  TypeOK' /\ Swap'
<1>1. PICK r \in retired : ~r.aged /\ retired' = (retired \ {r}) \union {[r EXCEPT !.aged = TRUE]}
  BY DEF Age
<1>2. r \in Records
  BY DEF TypeOK
<1>3. PICK s \in Records : /\ s.id = r.id /\ s.heavy = r.heavy /\ s.reason = r.reason /\ s.aged
                          /\ retired' = (retired \ {r}) \union {s}
  <2> DEFINE s == [r EXCEPT !.aged = TRUE]
  <2>1. s \in Records /\ s.id = r.id /\ s.heavy = r.heavy /\ s.reason = r.reason /\ s.aged
    BY <1>2 DEF Records
  <2> QED
    BY <1>1, <2>1
<1>4. UNCHANGED <<core, flags, wake, targets, reaper, owner, tcp, sessions>>
  BY DEF Age
<1>5. Retirees' = Retirees /\ \A h : Untargeted(h)' <=> Untargeted(h)
  BY <1>3, <1>4 DEF Retirees, Untargeted, Targeted
<1>6. TypeOK'
  BY <1>3, <1>4 DEF TypeOK, core, flags, owner, tcp, sessions
<1>7. List'
  BY <1>3, <1>4, <1>5 DEF Swap, List, flags
<1>8. /\ \A h : Open(h) => Open(h)'
      /\ \A h : Held(h) => Held(h)'
  BY <1>3, <1>4, <1>5 DEF Open, Held, flags
<1>9. Stops' /\ Unbuilt' /\ Drains'
  BY <1>4, <1>5 DEF Swap, Stops, Unbuilt, Drains, core, flags, owner
<1>10. Hands'
  BY <1>4, <1>5, <1>8 DEF Swap, Hands, Quiescing, core, flags, owner
<1>11. Serving'
  BY <1>4, <1>8 DEF Swap, Serving, Quiescing, Targeted, core, flags, owner
<1>12. SnapshotRestorable'
  BY <1>3, <1>4 DEF Swap, SnapshotRestorable, core, flags, owner
<1>13. NothingForgotten'
  BY <1>4, <1>5 DEF Swap, NothingForgotten, Targeted, core, flags, owner
<1> QED
  BY <1>6, <1>7, <1>9, <1>10, <1>11, <1>12, <1>13 DEF Swap

\* Steps that leave generations, drain and control thread alone keep the invariant of the swap.
LEMMA LoopsKeep ==
    ASSUME Swap, UNCHANGED <<core, life, workload_stop, retired, targets, reaper, owner>>
    PROVE  Swap'
<1> USE DEF core, owner, Open, Held, Untargeted, Targeted, Retirees, Quiescing
<1>1. List' /\ Stops' /\ Unbuilt'
  BY DEF Swap, List, Stops, Unbuilt
<1>2. Hands' /\ Serving' /\ Drains'
  BY DEF Swap, Hands, Serving, Drains
<1>3. SnapshotRestorable' /\ NothingForgotten'
  BY DEF Swap, SnapshotRestorable, NothingForgotten
<1> QED
  BY <1>1, <1>2, <1>3 DEF Swap

\* The end of an apply that has committed.
LEMMA CommitEnds ==
    ASSUME TypeOK, Swap, ApplyEnds, slot # snapshot
    PROVE  TypeOK' /\ Swap'
<1>1. /\ UNCHANGED <<core, flags, drain, refused, stop, tcp, sessions>>
      /\ control = "finalized" /\ control' = "idle" /\ hand' = None /\ snapshot' = None /\ hand = None
  BY DEF ApplyEnds, At, Swap, Hands
<1> USE DEF core, flags, drain, tcp, sessions, Open, Held, Untargeted, Targeted, Retirees, Quiescing
<1>2. TypeOK'
  BY <1>1 DEF TypeOK
<1>3. List' /\ Stops'
  BY <1>1 DEF Swap, List, Stops
<1>4. Unbuilt'
  BY <1>1 DEF Swap, Unbuilt, Generations, None
<1>5. Hands'
  BY <1>1 DEF Swap, Hands
<1>6. Serving'
  BY <1>1 DEF Swap, Serving
<1>7. Drains' /\ SnapshotRestorable'
  BY <1>1 DEF Swap, Drains, SnapshotRestorable
<1>8. NothingForgotten'
  BY <1>1 DEF Swap, NothingForgotten
<1> QED
  BY <1>2, <1>3, <1>4, <1>5, <1>6, <1>7, <1>8 DEF Swap

-----------------------------------------------------------------------------
(* The accept loop *)

\* TypeOK of the accept loop's state
Positions == {"top", "loaded", "gate", "open", "closed", "reserve", "accept", "try", "ended"}
TcpOK ==
    /\ acceptor \in [pc : Positions, gen : Generations \union {None}, epoch : Nat,
                     candidate : Generations \union {None}, at : Nat, tries : 0 .. 2]
    /\ seen \in Nat /\ flows \in 0 .. TcpLimit

\* steps of the accept loop and of its flows
AcceptorActs == AcceptorRuns \/ AcceptorAccepts \/ FlowEnds

\* The accept loop: what it compares with is the publication it has seen, so a loop that finds its admission closed has
\* been overtaken, or the next publication is on its way.
LEMMA AcceptorKeeps ==
    ASSUME TypeOK, Serving, Accepting, AcceptorNotStranded, AcceptorActs
    PROVE  TypeOK' /\ Accepting' /\ AcceptorNotStranded' /\ UNCHANGED <<core, flags, drain, owner, sessions>>
<1>1. UNCHANGED <<core, flags, drain, owner, sessions>>
  BY DEF AcceptorActs, AcceptorRuns, AcceptorLoads, AcceptorCompares, AcceptorAsksGate, AcceptorAsksAdmission,
         AcceptorReserves, AcceptorNotices, AcceptorCommits, AcceptorEnds, AcceptorAccepts, FlowEnds
<1>2. /\ UNCHANGED <<slot, publication, gate, control, Quiescing>>
      /\ slot \in Generations \union {None} /\ publication \in Nat /\ TcpOK
  BY <1>1 DEF TypeOK, TcpOK, Positions, core, owner, Quiescing
<1> DEFINE Kept == TcpOK' /\ Accepting' /\ AcceptorNotStranded'
<1> USE LimitAssumption DEF Accepting, AcceptorNotStranded, Accept, AcceptAgain, Idling, TcpOK, Positions, None
<1>3. ASSUME AcceptorLoads PROVE Kept
  <2>1. /\ acceptor' \in [pc : Positions, gen : Generations \union {None}, epoch : Nat,
                          candidate : Generations \union {None}, at : Nat, tries : 0 .. 2]
        /\ acceptor'.pc = "loaded" /\ acceptor'.gen = slot /\ acceptor'.epoch = publication
        /\ UNCHANGED <<seen, flows>>
    BY <1>2, <1>3 DEF AcceptorLoads
  <2> QED
    BY <1>2, <2>1
<1>4. ASSUME AcceptorCompares PROVE Kept
  BY <1>2, <1>4 DEF AcceptorCompares
<1>5. ASSUME AcceptorAsksGate PROVE Kept
  BY <1>2, <1>5 DEF AcceptorAsksGate
<1>6. ASSUME AcceptorAsksAdmission PROVE Kept
  BY <1>2, <1>6 DEF AcceptorAsksAdmission, Serves, Serving, Open
<1>7. ASSUME AcceptorReserves PROVE Kept
  BY <1>2, <1>7 DEF AcceptorReserves
<1>8. ASSUME AcceptorNotices PROVE Kept
  BY <1>2, <1>8 DEF AcceptorNotices
<1>9. ASSUME NEW n \in {1, 2}, AcceptorTries(n)
      PROVE  /\ acceptor' \in [pc : Positions, gen : Generations \union {None}, epoch : Nat,
                               candidate : Generations \union {None}, at : Nat, tries : 0 .. 2]
             /\ acceptor'.pc = "try" /\ acceptor'.epoch = acceptor.epoch
  <2>1. acceptor' = [acceptor EXCEPT !.pc = "try", !.candidate = slot, !.at = publication, !.tries = n] /\ n \in 0 .. 2
    BY <1>9 DEF AcceptorTries
  <2>2. /\ acceptor \in [pc : Positions, gen : Generations \union {None}, epoch : Nat,
                         candidate : Generations \union {None}, at : Nat, tries : 0 .. 2]
        /\ slot \in Generations \union {None} /\ publication \in Nat
    BY <1>2
  <2> QED
    BY ONLY <2>1, <2>2 DEF Positions
<1>10. ASSUME AcceptorAccepts PROVE Kept
  BY <1>2, <1>9, <1>10 DEF AcceptorAccepts
<1>11. ASSUME AcceptorCommits PROVE Kept
  <2>1. CASE AcceptAgain /\ flows' \in {flows, flows + 1} /\ UNCHANGED seen
    BY <1>2, <1>11, <2>1 DEF AcceptorCommits
  <2>2. CASE AcceptorTries(2) /\ UNCHANGED <<flows, seen>>
    BY <1>2, <1>9, <1>11, <2>2 DEF AcceptorCommits
  <2> QED
    BY <1>11, <2>1, <2>2 DEF AcceptorCommits
<1>12. ASSUME FlowEnds PROVE Kept
  BY <1>2, <1>12 DEF FlowEnds
<1>13. ASSUME AcceptorEnds PROVE Kept
  <2>1. /\ acceptor' \in [pc : Positions, gen : Generations \union {None}, epoch : Nat,
                          candidate : Generations \union {None}, at : Nat, tries : 0 .. 2]
        /\ acceptor'.pc = "ended" /\ acceptor'.epoch = 0 /\ flows' = 0 /\ UNCHANGED seen
    BY <1>2, <1>13 DEF AcceptorEnds
  <2> QED
    BY <1>2, <2>1
<1>14. Kept
  BY <1>3, <1>4, <1>5, <1>6, <1>7, <1>8, <1>10, <1>11, <1>12, <1>13 DEF AcceptorActs, AcceptorRuns
<1>15. TypeOK'
  BY <1>1, <1>14 DEF TypeOK, core, flags, drain, owner, sessions
<1> QED
  BY <1>1, <1>14, <1>15

-----------------------------------------------------------------------------
(* The session manager *)

\* steps of the UDP session manager and of the shutdowns it has begun
ManagerActs == UdpLoads \/ UdpContinues \/ Maintain \/ \E g \in Generations : UdpCloses(g)

\* The session manager: the generations it registers and starts are generations.
LEMMA ManagerKeeps ==
    ASSUME TypeOK, Managing, ManagerActs
    PROVE  TypeOK' /\ Managing' /\ UNCHANGED <<core, flags, drain, owner, tcp>>
<1> DEFINE Kept ==
        /\ manager' \in [pc : {"idle", "try", "register", "start", "ended"},
                         gen : Generations \union {None}, at : Nat, tries : 0 .. 2]
        /\ noticed' \in Nat /\ notified' \in BOOLEAN
        /\ registered' \subseteq Generations /\ udp' \subseteq Generations
        /\ pins' \subseteq Generations /\ closing' \subseteq Generations
        /\ Managing' /\ UNCHANGED <<core, flags, drain, owner, tcp>>
<1> USE DEF Managing, core, owner
<1>1. /\ slot \in Generations \union {None} /\ publication \in Nat
      /\ manager \in [pc : {"idle", "try", "register", "start", "ended"},
                      gen : Generations \union {None}, at : Nat, tries : 0 .. 2]
      /\ noticed \in Nat /\ notified \in BOOLEAN
      /\ registered \subseteq Generations /\ udp \subseteq Generations
      /\ pins \subseteq Generations /\ closing \subseteq Generations
  BY DEF TypeOK
<1>2. ASSUME UdpLoads PROVE Kept
  BY <1>1, <1>2 DEF UdpLoads, UdpTries
<1>3. ASSUME UdpCommits PROVE Kept
  BY <1>1, <1>3 DEF UdpCommits, UdpTries, UdpDone, Resting
<1>4. ASSUME UdpRegisters PROVE Kept
  BY <1>1, <1>4 DEF UdpRegisters
<1>5. ASSUME NEW pinned \in BOOLEAN, NEW evicted \in SUBSET pins, UdpStarts(pinned, evicted) PROVE Kept
  BY <1>1, <1>5 DEF UdpStarts, UdpDone, Resting
<1>6. ASSUME ManagerEnds PROVE Kept
  BY <1>1, <1>6 DEF ManagerEnds
<1>7. ASSUME NEW gone \in SUBSET pins,
             MaintainOnPublication(gone) \/ MaintainOnNotify(gone) \/ MaintainOnExpiry(gone)
      PROVE  Kept
  BY <1>1, <1>7 DEF MaintainOnPublication, MaintainOnNotify, MaintainOnExpiry, RetireIdle
<1>8. ASSUME NEW g \in Generations, UdpCloses(g) PROVE Kept
  BY <1>1, <1>8 DEF UdpCloses
<1>9. Kept
  BY <1>2, <1>3, <1>4, <1>5, <1>6, <1>7, <1>8 DEF ManagerActs, UdpContinues, Maintain
<1>10. TypeOK'
  BY <1>9 DEF TypeOK, core, flags, drain, owner, tcp
<1> QED
  BY <1>9, <1>10

-----------------------------------------------------------------------------
(* The control thread and the drain, seen from the loops *)

\* steps of the control thread, the reaper and the clock
DrainActs ==
    \/ Acts \/ Reaps \/ (ApplyEnds /\ slot # snapshot)
    \/ \E t \in Threads : RequestForceStop(t)
    \/ \E g \in Generations : Age(g)

\* What drain and control thread do to the loops: every publication is a new one for the accept loop, and the slot is
\* cleared after the loops have ended.
LEMMA LoopsUndisturbed ==
    ASSUME TypeOK, Hands, Serving, Managing, Accepting, AcceptorNotStranded, DrainActs
    PROVE  Managing' /\ Accepting' /\ AcceptorNotStranded'
<1>1. UNCHANGED <<acceptor, seen, flows, manager>>
  BY DEF DrainActs, Acts, Reaps, SnapshotForApply, EvictOldest, BuildGeneration, BuildFails, ActivateRouting,
       RoutingRefused, Publish, CloseAdmission, PushRetired, WakeReaper, ApplyFails, RestoreEnds, Reactivate,
       RestoreRouting, RestoreRefused, Republish, Finalize, Quiesce, StopAll, SignalStop, JoinWorkloads,
       ClearSlot, ReaperLook, ReaperStops, ReaperEnds, ReaperReaps, PreparePublication, CommitPublication,
       ApplyEnds, RequestForceStop, ForceRetire, ForceStop, Age, tcp, sessions
<1>2. \/ UNCHANGED <<control, slot, publication>>
      \/ /\ control \notin {"publish", "republish", "down"} /\ control' \notin {"clear", "down"}
         /\ UNCHANGED <<slot, publication>> /\ (Quiescing => Quiescing')
      \/ /\ control \in {"publish", "republish"} /\ control' = "retire" /\ publication' = publication + 1
         /\ slot' \in {hand, snapshot} /\ slot' \in Generations
      \/ control = "join" /\ control' = "clear" /\ manager.pc = "ended" /\ UNCHANGED <<slot, publication>>
      \/ control = "clear" /\ control' = "down" /\ UNCHANGED publication
  <2> USE DEF At, core, owner, Hands
  <2>1. CASE Publish \/ Republish
    BY <2>1 DEF Publish, Republish, Open
  <2>2. CASE JoinWorkloads \/ ClearSlot
    BY <2>2 DEF JoinWorkloads, ClearSlot
  <2>3. CASE \/ ReaperLook \/ ReaperStops \/ ReaperEnds \/ ReaperReaps
             \/ \E t \in Threads : RequestForceStop(t)
             \/ \E g \in Generations : Age(g)
    BY <2>3 DEF ReaperLook, ReaperStops, ReaperEnds, ReaperReaps, RequestForceStop, ForceRetire, ForceStop, Age
  <2>4. CASE SnapshotForApply \/ PreparePublication \/ EvictOldest \/ BuildGeneration \/ BuildFails \/ ActivateRouting
             \/ RoutingRefused \/ CloseAdmission \/ PushRetired \/ WakeReaper \/ CommitPublication
    BY <2>4 DEF SnapshotForApply, PreparePublication, EvictOldest, BuildGeneration, BuildFails, ActivateRouting,
                RoutingRefused, CloseAdmission, PushRetired, WakeReaper, CommitPublication, Quiescing
  <2>5. CASE ApplyFails \/ RestoreEnds \/ Reactivate \/ RestoreRouting \/ RestoreRefused \/ Finalize \/ ApplyEnds
             \/ Quiesce \/ StopAll \/ SignalStop
    BY <2>5 DEF ApplyFails, RestoreEnds, Reactivate, RestoreRouting, RestoreRefused, Finalize, ApplyEnds, Quiesce,
                StopAll, SignalStop, Quiescing
  <2> QED
    BY <2>1, <2>2, <2>3, <2>4, <2>5 DEF DrainActs, Acts, Reaps
<1>3. Managing'
  BY <1>1, <1>2 DEF Managing
<1>4. Accepting'
  BY <1>1, <1>2 DEF Accepting, Quiescing, TypeOK
<1>5. AcceptorNotStranded'
  BY <1>1, <1>2 DEF AcceptorNotStranded, Accepting, Quiescing, TypeOK
<1> QED
  BY <1>3, <1>4, <1>5

-----------------------------------------------------------------------------
(* The theorems *)

\* The parts together.
LEMMA ActsKeep ==
    ASSUME TypeOK, Swap, Acts
    PROVE  TypeOK' /\ Swap'
  BY ListKept, StopsKept, UnbuiltKept, HandsKept, ServingKept, DrainsKept, RestorableKept, NothingLost, TypesKept
     DEF Swap

\* The invariant holds of the first generation.
LEMMA Initially == Init => IInv
<1> SUFFICES ASSUME Init
             PROVE  IInv
  OBVIOUS
<1>1. 1 \in Generations /\ None \notin Generations
  BY GenerationsAssumption DEF Generations, None
<1>2. /\ acceptor \in [pc : Positions, gen : Generations \union {None}, epoch : Nat,
                       candidate : Generations \union {None}, at : Nat, tries : 0 .. 2]
      /\ acceptor.pc \in {"top", "ended"} /\ acceptor.epoch = 0
      /\ manager \in [pc : {"idle", "try", "register", "start", "ended"},
                      gen : Generations \union {None}, at : Nat, tries : 0 .. 2]
      /\ manager.pc \in {"idle", "ended"}
      /\ registered \subseteq Generations /\ udp \subseteq Generations
  BY <1>1 DEF Init, Idling, Resting, Positions
<1>3. TypeOK
  <2>1. life \in [Generations -> States] /\ workload_stop \in [Generations -> BOOLEAN] /\ udp_stop = workload_stop
    BY DEF Init, States
  <2>2. targets \in [Threads -> SUBSET StopTargets] /\ flows \in 0 .. TcpLimit
    BY LimitAssumption DEF Init
  <2> QED
    BY <1>1, <1>2, <2>1, <2>2 DEF Init, TypeOK, Positions
<1>4. Swap
  BY <1>1 DEF Init, Swap, List, Stops, Unbuilt, Hands, Serving, Drains, SnapshotRestorable, NothingForgotten, Open,
              Held, Untargeted, Targeted, Retirees, Quiescing, Threads
<1>5. Managing /\ Accepting /\ AcceptorNotStranded
  BY <1>1, <1>2 DEF Init, Managing, Accepting, AcceptorNotStranded
<1> QED
  BY <1>3, <1>4, <1>5 DEF IInv

\* Every step of every thread keeps the invariant.
LEMMA Inductive == IInv /\ [Next]_vars => IInv'
<1> SUFFICES ASSUME IInv, [Next]_vars
             PROVE  IInv'
  OBVIOUS
<1>1. TypeOK /\ Swap /\ Hands /\ Serving /\ Managing /\ Accepting /\ AcceptorNotStranded
  BY DEF IInv, Swap
<1>2. CASE DrainActs
  <2>1. TypeOK' /\ Swap'
    BY <1>1, <1>2, ActsKeep, ReapsKeep, CommitEnds, ForceKeeps, AgeKeeps DEF DrainActs
  <2> QED
    BY <1>1, <1>2, <2>1, LoopsUndisturbed DEF IInv
<1>3. CASE AcceptorActs
  <2>1. /\ TypeOK' /\ Accepting' /\ AcceptorNotStranded'
        /\ UNCHANGED <<core, flags, drain, owner, sessions>>
    BY <1>1, <1>3, AcceptorKeeps
  <2>2. Swap'
    BY <1>1, <2>1, LoopsKeep DEF flags, drain
  <2>3. Managing'
    BY <1>1, <2>1 DEF Managing, core, owner, sessions
  <2> QED
    BY <2>1, <2>2, <2>3 DEF IInv
<1>4. CASE ManagerActs
  <2>1. TypeOK' /\ Managing' /\ UNCHANGED <<core, flags, drain, owner, tcp>>
    BY <1>1, <1>4, ManagerKeeps
  <2>2. Swap'
    BY <1>1, <2>1, LoopsKeep DEF flags, drain
  <2>3. Accepting' /\ AcceptorNotStranded'
    BY <1>1, <2>1 DEF Accepting, AcceptorNotStranded, Quiescing, core, owner, tcp
  <2> QED
    BY <2>1, <2>2, <2>3 DEF IInv
<1>5. CASE UNCHANGED vars
  <2>1. Swap'
    BY <1>1, <1>5, LoopsKeep DEF vars, flags, drain
  <2>2. TypeOK' /\ Managing' /\ Accepting' /\ AcceptorNotStranded'
    BY <1>1, <1>5 DEF vars, core, flags, drain, owner, tcp, sessions, TypeOK, Managing, Accepting,
                      AcceptorNotStranded, Quiescing
  <2> QED
    BY <2>1, <2>2 DEF IInv
<1> QED
  BY <1>2, <1>3, <1>4, <1>5 DEF Next, ControlContinues, ReaperRuns, DrainActs, Acts, Reaps, AcceptorActs,
       ManagerActs, Threads

\* Hence it always holds.
LEMMA Invariance == Spec => []IInv
<1>1. Init => IInv
  BY Initially
<1>2. IInv /\ [Next]_vars => IInv'
  BY Inductive
<1> QED
  BY <1>1, <1>2, PTL DEF Spec

\* Type correctness of the swap, its drain, the accept loop and the session manager.
THEOREM TypeCorrect == Spec => []TypeOK
<1>1. IInv => TypeOK
  BY DEF IInv
<1> QED
  BY <1>1, Invariance, PTL

\* Until a shutdown begins the published generation is active, not stopped, not retired and not about to be stopped, and
\* the gate admits to it (generation_drain.rs, reactivate and reap; generation_fence.rs).
THEOREM PublishedIsOpen == Spec => []ServingIsOpen
<1>1. IInv => ServingIsOpen
  BY DEF IInv, Swap, Serving, ServingIsOpen, Open, Untargeted
<1> QED
  BY <1>1, Invariance, PTL

\* Until an apply has committed, the generation it replaced is in the list with its heavy part, and can be reactivated
\* unless its deadline has passed (detach_heavy_generation_if_unowned, pressure_evict_oldest).
THEOREM RollbackIsOpen == Spec => []SnapshotRestorable
<1>1. IInv => SnapshotRestorable
  BY DEF IInv, Swap
<1> QED
  BY <1>1, Invariance, PTL

\* A generation whose workloads run is published, retired, or in the hands of a thread, unless the map refused its routes
\* (retire, reactivate, pressure_evict_oldest, stop_all).
THEOREM NothingIsForgotten == Spec => []NothingForgotten
<1>1. IInv => NothingForgotten
  BY DEF IInv, Swap
<1> QED
  BY <1>1, Invariance, PTL

\* The accept loop waits for a closed admission only while the next publication is on its way or the runtime shuts down
\* (wait_while_tcp_admission_is_closed).
THEOREM AcceptorIsNotStranded == Spec => []AcceptorNotStranded
<1>1. IInv => AcceptorNotStranded
  BY DEF IInv
<1> QED
  BY <1>1, Invariance, PTL

-----------------------------------------------------------------------------
(* The bound of the list *)

\* the list is within maximum_retired
Bounded == IsFiniteSet(retired) /\ Cardinality(retired) <= MaxRetired

\* A nonempty set of naturals has a least member.
LEMMA Least ==
    ASSUME NEW S \in SUBSET Nat, S # {}
    PROVE  \E m \in S : \A k \in S : m <= k
<1> DEFINE Less == {ss \in Nat \X Nat : ss[1] < ss[2]}
<1>1. IsWellFoundedOn(Less, Nat)
  BY NatLessThanWellFounded DEF OpToRel
<1>2. \A k, m \in Nat : k < m => <<k, m>> \in Less
  OBVIOUS
<1> HIDE DEF Less
<1>3. PICK m \in S : \A k \in S : ~(<<k, m>> \in Less)
  BY <1>1, WFMin
<1>4. m \in Nat /\ \A k \in S : k \in Nat /\ ~(k < m)
  BY <1>2, <1>3, Zenon
<1>5. \A k \in S : m <= k
  BY <1>4
<1> QED
  BY <1>5

\* A list that is not empty has an oldest record, which is what Vec::remove(0) needs.
LEMMA OldestExists ==
    ASSUME TypeOK, retired # {}
    PROVE  Oldest(retired) # {}
<1> DEFINE S == {r.at : r \in retired}
<1>1. S \in SUBSET Nat /\ S # {}
  BY DEF TypeOK, Records
<1>2. PICK m \in S : \A k \in S : m <= k
  BY <1>1, Least
<1>3. PICK r \in retired : r.at = m
  BY <1>2
<1> QED
  BY <1>2, <1>3 DEF Oldest

\* A list whose records are changed one by one stays within its bound ...
LEMMA ImageBounded ==
    ASSUME Bounded, NEW f, retired' \subseteq {f[q] : q \in retired}
    PROVE  Bounded'
<1> DEFINE image == {f[q] : q \in retired}
           h == [q \in retired |-> f[q]]
<1>1. h \in Surjection(retired, image)
  BY DEF Surjection
<1>2. IsFiniteSet(image) /\ Cardinality(image) <= Cardinality(retired)
  BY <1>1, FS_Surjection DEF Bounded
<1>3. /\ IsFiniteSet(retired') /\ Cardinality(retired') <= Cardinality(image)
      /\ Cardinality(retired') \in Nat /\ Cardinality(image) \in Nat /\ Cardinality(retired) \in Nat
  BY <1>2, FS_Subset, FS_CardinalityType DEF Bounded
<1> HIDE DEF image
<1> QED
  BY <1>2, <1>3, RetiredAssumption DEF Bounded

\* ... and so does one that loses records.
LEMMA SubsetBounded ==
    ASSUME Bounded, retired' \subseteq retired
    PROVE  Bounded'
<1>1. /\ IsFiniteSet(retired') /\ Cardinality(retired') <= Cardinality(retired)
      /\ Cardinality(retired') \in Nat /\ Cardinality(retired) \in Nat
  BY FS_Subset, FS_CardinalityType DEF Bounded
<1> QED
  BY <1>1, RetiredAssumption DEF Bounded

\* retire_shared_at makes room before it pushes.
LEMMA PushBounded ==
    ASSUME TypeOK, Hands, Bounded, PushRetired
    PROVE  Bounded'
<1>1. PICK new \in Records : retired' = (retired \ Evicted) \union {new}
  BY Pushed
<1>2. IsFiniteSet(retired) /\ Cardinality(retired) \in Nat /\ Cardinality(retired) <= MaxRetired
  BY FS_CardinalityType DEF Bounded
<1> DEFINE rest == retired \ Evicted
<1>3. IsFiniteSet(rest) /\ Cardinality(rest) \in Nat /\ Cardinality(rest) < MaxRetired
  <2>1. CASE Cardinality(retired) >= MaxRetired
    <3>1. retired # {}
      BY <1>2, <2>1, FS_EmptySet, RetiredAssumption
    <3>2. PICK r \in retired : r \in Evicted
      BY <2>1, <3>1, OldestExists DEF Evicted, Oldest
    <3>3. IsFiniteSet(retired \ {r}) /\ Cardinality(retired \ {r}) = Cardinality(retired) - 1
      BY <1>2, FS_RemoveElement
    <3>4. rest \in SUBSET (retired \ {r})
      BY <3>2
    <3>5. IsFiniteSet(rest) /\ Cardinality(rest) <= Cardinality(retired \ {r}) /\ Cardinality(rest) \in Nat
      BY <3>3, <3>4, FS_Subset, FS_CardinalityType
    <3> QED
      BY <1>2, <3>3, <3>5, RetiredAssumption
  <2>2. CASE ~(Cardinality(retired) >= MaxRetired)
    <3>1. rest = retired
      BY <2>2 DEF Evicted
    <3> QED
      BY <1>2, <2>2, <3>1, RetiredAssumption
  <2> QED
    BY <2>1, <2>2
<1> HIDE DEF rest
<1>4. IsFiniteSet(rest \union {new}) /\ Cardinality(rest \union {new}) \in {Cardinality(rest), Cardinality(rest) + 1}
  BY <1>3, FS_AddElement
<1>5. Cardinality(rest \union {new}) <= MaxRetired
  BY <1>3, <1>4, RetiredAssumption
<1> QED
  BY <1>1, <1>4, <1>5 DEF Bounded, rest

\* Every step keeps the list within maximum_retired.
LEMMA BoundedKept ==
    ASSUME TypeOK, Hands, Bounded, [Next]_vars
    PROVE  Bounded'
<1>1. CASE PushRetired
  BY <1>1, PushBounded
<1>2. CASE ReaperReaps \/ PreparePublication \/ CommitPublication \/ (ApplyEnds /\ slot = snapshot)
  <2> DEFINE f == [q \in retired |-> Judged(Looked(q))]
  <2>1. retired' = {Judged(r) : r \in Retained}
    BY <1>2 DEF ReaperReaps, PreparePublication, CommitPublication, ApplyEnds, Reap
  <2>2. retired' \subseteq {f[q] : q \in retired}
    BY <2>1 DEF Retained
  <2> QED
    BY <2>2, ImageBounded
<1>3. CASE \E g \in Generations : Age(g)
  <2>1. PICK r \in retired : retired' = (retired \ {r}) \union {[r EXCEPT !.aged = TRUE]}
    BY <1>3 DEF Age
  <2> DEFINE f == [q \in retired |-> IF q = r THEN [r EXCEPT !.aged = TRUE] ELSE q]
  <2>2. retired' \subseteq {f[q] : q \in retired}
    BY <2>1
  <2> QED
    BY <2>2, ImageBounded
<1>4. CASE Finalize
  <2> DEFINE f == [q \in retired |-> IF q \in Chosen THEN [q EXCEPT !.reason = "Finalized"] ELSE q]
  <2>1. retired' \subseteq {f[q] : q \in retired}
    BY <1>4 DEF Finalize, Chosen
  <2> QED
    BY <2>1, ImageBounded
<1>5. CASE EvictOldest \/ Reactivate \/ StopAll \/ ReaperStops
  <2>1. retired' \subseteq retired
    BY <1>5 DEF EvictOldest, Reactivate, StopAll, ReaperStops
  <2> QED
    BY <2>1, SubsetBounded
<1>6. CASE \/ SnapshotForApply \/ BuildGeneration \/ BuildFails \/ ActivateRouting \/ RoutingRefused \/ Publish
           \/ CloseAdmission \/ WakeReaper \/ ApplyFails \/ RestoreEnds \/ RestoreRouting \/ RestoreRefused
           \/ Republish \/ (ApplyEnds /\ slot # snapshot)
  BY <1>6 DEF SnapshotForApply, BuildGeneration, BuildFails, ActivateRouting, RoutingRefused, Publish, CloseAdmission,
              WakeReaper, ApplyFails, RestoreEnds, RestoreRouting, RestoreRefused, Republish, ApplyEnds, drain, Bounded
<1>7. CASE \/ Quiesce \/ SignalStop \/ JoinWorkloads \/ ClearSlot \/ ReaperLook \/ ReaperEnds
           \/ \E t \in Threads : RequestForceStop(t)
  BY <1>7 DEF Quiesce, SignalStop, JoinWorkloads, ClearSlot, ReaperLook, ReaperEnds, RequestForceStop, ForceRetire,
              ForceStop, drain, Bounded
<1>8. CASE AcceptorActs
  BY <1>8 DEF AcceptorActs, AcceptorRuns, AcceptorLoads, AcceptorCompares, AcceptorAsksGate, AcceptorAsksAdmission,
              AcceptorReserves, AcceptorNotices, AcceptorCommits, AcceptorEnds, AcceptorAccepts, FlowEnds, drain, Bounded
<1>9. CASE ManagerActs
  BY <1>9 DEF ManagerActs, UdpLoads, UdpContinues, UdpCommits, UdpRegisters, UdpStarts, ManagerEnds, Maintain,
              MaintainOnPublication, MaintainOnNotify, MaintainOnExpiry, RetireIdle, UdpCloses, drain, Bounded
<1>10. CASE UNCHANGED vars
  BY <1>10 DEF vars, drain, Bounded
<1> QED
  BY <1>1, <1>2, <1>3, <1>4, <1>5, <1>6, <1>7, <1>8, <1>9, <1>10
     DEF Next, ControlContinues, ReaperRuns, AcceptorActs, ManagerActs, Threads

\* The list of the retired never exceeds maximum_retired, whatever publishes, restores and reaps
\* (pressure_evict_oldest in prepare_publication_at and retire_shared_at).
THEOREM ListIsBounded == Spec => []Bounded
<1>1. Init => Bounded
  BY FS_EmptySet, RetiredAssumption DEF Init, Bounded
<1>2. IInv /\ Bounded /\ [Next]_vars => Bounded'
  BY BoundedKept DEF IInv, Swap
<1> QED
  BY <1>1, <1>2, Invariance, PTL DEF Spec

\* The assertion of retire_shared_at: a generation that is retired is not in the list already (generation_drain.rs:418).
THEOREM RetiredOnce == Spec => [](control = "push" => hand \notin Retirees)
<1>1. IInv => (control = "push" => hand \notin Retirees)
  BY DEF IInv, Swap, Hands
<1> QED
  BY <1>1, Invariance, PTL

=============================================================================
