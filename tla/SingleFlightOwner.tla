-------------------------- MODULE SingleFlightOwner --------------------------
(***************************************************************************)
(* SingleFlightPhysicalOwner (dae-runtime-control,                          *)
(* physical_owner/single_flight.rs and single_flight/build.rs): a cell that *)
(* lets one caller build a physical owner while the others observe, with     *)
(* failure, explicit retry, drain, close and recovery of a poisoned mutex.   *)
(*                                                                         *)
(* One atomic step is one critical section of the cell's mutex, or the       *)
(* send_replace on the revision channel that follows it after the unlock.    *)
(* An actor is any caller, one call at a time.  A call that returns without  *)
(* changing the cell (Ready, an error, a refused retry) is a stuttering step. *)
(* A value is known by the revision of the builder that made it; the kind of *)
(* a failure and the reason of a drain are carried, never read, and left out. *)
(* Receivers of the channel never read the revision it carries, only that it *)
(* changed, so the channel is the set of receivers that have seen the latest *)
(* send.                                                                    *)
(***************************************************************************)
EXTENDS Integers, FiniteSets

CONSTANTS Actors,        \* callers of the cell
          MaxRevision,   \* elections and retries start below this revision
          NoValue        \* state.value = None

ASSUME RevisionAssumption == MaxRevision \in Nat
ASSUME NoValueAssumption == NoValue \notin Nat

VARIABLES
    state,       \* snapshot.state
    failure,     \* snapshot.failure.is_some()
    revision,    \* snapshot.revision
    accepting,   \* SingleFlightState.accepting
    value,       \* SingleFlightState.value: the revision of its builder
    poisoned,    \* a thread panicked while it held the mutex
    pc,          \* where each actor is
    attempt,     \* the revision a builder was elected for, an observer joined at,
                 \* or a caller of fail() expects
    seen         \* receivers that have no unseen change

cell == <<state, failure, revision, accepting, value>>
vars == <<cell, poisoned, pc, attempt, seen>>

Building == {"announcing", "building", "superseded"}
Observing == {"observing", "parked"}
Labels == Building \union Observing \union {"idle", "failing", "sending"}

Init ==
    /\ state = "Closed"
    /\ failure = FALSE
    /\ revision = 0
    /\ accepting = TRUE
    /\ value = NoValue
    /\ poisoned = FALSE
    /\ pc = [a \in Actors |-> "idle"]
    /\ attempt = [a \in Actors |-> 0]
    /\ seen = {}

\* The locals of a call: where it is and the revision it carries.
GoTo(a, label, r) ==
    /\ pc' = [pc EXCEPT ![a] = label]
    /\ attempt' = [attempt EXCEPT ![a] = r]

Bump == revision' = revision + 1

\* Guard of every critical section: lock_state() first recovers a poisoned cell.
Locked == ~(poisoned /\ accepting)

\* Defect: receivers are not told.
SendNothing == UNCHANGED seen

\* revision.send_replace: every receiver has an unseen change.
SendRevision == seen' = {}

\* Defect: the call returns without its send.
FinishSilently(a) == GoTo(a, "idle", 0)

\* The call has changed the cell; its send and its return follow.
Finish(a) == GoTo(a, "sending", 0)

-----------------------------------------------------------------------------
(* The mutex. *)

Panic ==
    /\ ~poisoned
    /\ poisoned' = TRUE
    /\ UNCHANGED <<cell, pc, attempt, seen>>

\* lock_state on a poisoned mutex: stop accepting, fail, and wake every observer
\* under the lock; the value is kept.
RecoverPoison ==
    /\ ~Locked
    /\ accepting' = FALSE
    /\ state' = "Failed"
    /\ failure' = TRUE
    /\ Bump
    /\ SendRevision
    /\ UNCHANGED <<value, poisoned, pc, attempt>>

\* The send_replace that follows a critical section: a builder goes on to build,
\* any other call returns.
Send(a) ==
    /\ pc[a] \in {"announcing", "sending"}
    /\ SendRevision
    /\ IF pc[a] = "announcing" THEN GoTo(a, "building", attempt[a]) ELSE GoTo(a, "idle", 0)
    /\ UNCHANGED <<cell, poisoned>>

-----------------------------------------------------------------------------
(* begin_or_observe. *)

\* Defect: a cell that stopped accepting still elects builders.
MayElectAny == state = "Closed"

MayElect == accepting /\ state = "Closed"

\* begin_or_observe elects the caller.
BeginBuild(a) ==
    /\ pc[a] = "idle"
    /\ Locked
    /\ MayElect
    /\ revision < MaxRevision
    /\ state' = "Connecting"
    /\ failure' = FALSE
    /\ Bump
    /\ value' = NoValue
    /\ GoTo(a, "announcing", revision + 1)
    /\ UNCHANGED <<accepting, poisoned, seen>>

\* begin_or_observe finds a build under way: subscribe, still under the lock.
BeginObserve(a) ==
    /\ pc[a] = "idle"
    /\ Locked
    /\ accepting /\ state = "Connecting"
    /\ seen' = seen \union {a}
    /\ GoTo(a, "observing", revision)
    /\ UNCHANGED <<cell, poisoned>>

-----------------------------------------------------------------------------
(* The builder: publish_ready, publish_failed and its Drop. *)

\* Defect: the builder only asks whether some build is under way.
IsCurrentBuilderAny(a) == state = "Connecting"

IsCurrentBuilder(a) == state = "Connecting" /\ revision = attempt[a]

\* publish_ready: a superseded builder's value is discarded and its Drop follows.
PublishReady(a) ==
    /\ pc[a] = "building"
    /\ Locked
    /\ \/ /\ IsCurrentBuilder(a)
          /\ state' = "Ready"
          /\ Bump
          /\ value' = attempt[a]
          /\ Finish(a)
          /\ UNCHANGED <<failure, accepting>>
       \/ /\ ~IsCurrentBuilder(a)
          /\ GoTo(a, "superseded", attempt[a])
          /\ UNCHANGED cell
    /\ UNCHANGED <<poisoned, seen>>

\* Defect: the failure of the current builder is not recorded.
FailBuildForgotten(a) == UNCHANGED <<state, failure, revision, value>>

FailBuild(a) ==
    \/ /\ IsCurrentBuilder(a)
       /\ state' = "Failed"
       /\ failure' = TRUE
       /\ Bump
       /\ value' = NoValue
    \/ /\ ~IsCurrentBuilder(a)
       /\ UNCHANGED <<state, failure, revision, value>>

\* publish_failed, or the Drop of an unfinished builder; both always send.
PublishBuilderFailure(a) ==
    /\ pc[a] \in {"building", "superseded"}
    /\ Locked
    /\ FailBuild(a)
    /\ Finish(a)
    /\ UNCHANGED <<accepting, poisoned, seen>>

-----------------------------------------------------------------------------
(* The observer: SingleFlightObserver::wait. *)

\* One look at the cell: an outcome ends the wait, a build under way is waited for.
Look(a) ==
    /\ pc[a] = "observing"
    /\ Locked
    /\ \/ state # "Connecting" /\ GoTo(a, "idle", 0) /\ seen' = seen \ {a}
       \/ state = "Connecting" /\ GoTo(a, "parked", attempt[a]) /\ UNCHANGED seen
    /\ UNCHANGED <<cell, poisoned>>

\* select!: the revision channel changed.
Wake(a) ==
    /\ pc[a] = "parked"
    /\ a \notin seen
    /\ seen' = seen \union {a}
    /\ GoTo(a, "observing", attempt[a])
    /\ UNCHANGED <<cell, poisoned>>

\* The deadline, a cancellation, or the future dropped at its await.
GiveUp(a) ==
    /\ pc[a] \in Observing
    /\ GoTo(a, "idle", 0)
    /\ seen' = seen \ {a}
    /\ UNCHANGED <<cell, poisoned>>

-----------------------------------------------------------------------------
(* begin_drain, prepare_retry, close and fail. *)

BeginDrain(a) ==
    /\ pc[a] = "idle"
    /\ Locked
    /\ accepting
    /\ accepting' = FALSE
    /\ state' = "Draining"
    /\ Bump
    /\ value' = NoValue
    /\ Finish(a)
    /\ UNCHANGED <<failure, poisoned, seen>>

PrepareRetry(a) ==
    /\ pc[a] = "idle"
    /\ Locked
    /\ accepting /\ state = "Failed"
    /\ revision < MaxRevision
    /\ state' = "Closed"
    /\ failure' = FALSE
    /\ Bump
    /\ Finish(a)
    /\ UNCHANGED <<accepting, value, poisoned, seen>>

Close(a) ==
    /\ pc[a] = "idle"
    /\ Locked
    /\ accepting \/ state # "Closed"
    /\ accepting' = FALSE
    /\ state' = "Closed"
    /\ Bump
    /\ value' = NoValue
    /\ Finish(a)
    /\ UNCHANGED <<failure, poisoned, seen>>

\* A caller of fail() takes the revision it expects from an earlier snapshot().
Snapshot(a) ==
    /\ pc[a] = "idle"
    /\ Locked
    /\ GoTo(a, "failing", revision)
    /\ UNCHANGED <<cell, poisoned, seen>>

FailApplies(a) ==
    /\ accepting
    /\ revision = attempt[a]
    /\ state \notin {"Failed", "Draining"}

Fail(a) ==
    /\ pc[a] = "failing"
    /\ Locked
    /\ \/ /\ FailApplies(a)
          /\ state' = "Failed"
          /\ failure' = TRUE
          /\ Bump
          /\ value' = NoValue
          /\ Finish(a)
       \/ /\ ~FailApplies(a)
          /\ GoTo(a, "idle", 0)
          /\ UNCHANGED <<state, failure, revision, value>>
    /\ UNCHANGED <<accepting, poisoned, seen>>

-----------------------------------------------------------------------------
\* Steps an actor that is polled, or a builder that is published or dropped, takes.
Step(a) == Send(a) \/ PublishReady(a) \/ PublishBuilderFailure(a) \/ Look(a) \/ Wake(a)

Call(a) ==
    \/ BeginBuild(a) \/ BeginObserve(a) \/ GiveUp(a)
    \/ BeginDrain(a) \/ PrepareRetry(a) \/ Close(a) \/ Snapshot(a) \/ Fail(a)

Next ==
    \/ \E a \in Actors : Step(a) \/ Call(a)
    \/ Panic
    \/ RecoverPoison

Spec == Init /\ [][Next]_vars

\* Somebody is waiting for the mutex.
LockWanted == \E a \in Actors : pc[a] \in {"building", "superseded", "observing", "failing"}

\* Tasks keep being polled and a builder is published or dropped in the end (it is
\* an RAII value whose construction runs under a deadline).  Nobody has to retry,
\* drain, close or give up.
Fairness ==
    /\ \A a \in Actors : WF_vars(Step(a))
    /\ WF_vars(LockWanted /\ RecoverPoison)

FairSpec == Spec /\ Fairness

-----------------------------------------------------------------------------
(* Properties. *)

\* Types; nobody carries a revision the cell has not reached.
TypeOK ==
    /\ state \in {"Closed", "Connecting", "Ready", "Failed", "Draining"}
    /\ failure \in BOOLEAN
    /\ revision \in Nat
    /\ accepting \in BOOLEAN
    /\ value \in Nat \union {NoValue}
    /\ poisoned \in BOOLEAN
    /\ pc \in [Actors -> Labels]
    /\ attempt \in [Actors -> Nat]
    /\ \A a \in Actors : attempt[a] <= revision
    /\ seen \in SUBSET Actors

\* A build under way is somebody's: while the cell is Connecting exactly one live
\* builder holds its revision, so the cell cannot be stuck, and two callers never
\* build the same owner.
ConnectingHasBuilder ==
    /\ state = "Connecting" => \E a \in Actors :
            pc[a] \in {"announcing", "building"} /\ attempt[a] = revision
    /\ \A a, b \in Actors :
            pc[a] \in Building /\ pc[b] \in Building /\ attempt[a] = attempt[b] => a = b

\* What the cell hands out is the outcome of its last build: a Ready cell holds the
\* value of the builder elected for the preceding revision, never a superseded
\* one's nor one older than an observer's own attempt; a failed cell has a failure to
\* report (the unwraps cannot panic); a value outlives readiness only in a cell
\* recovered from poison, which never serves it.
OutcomeIsCurrent ==
    /\ state = "Ready" => value = revision - 1
    /\ \A a \in Actors :
            state = "Ready" /\ pc[a] \in Observing => value >= attempt[a]
    /\ state = "Failed" => failure
    /\ value # NoValue => state = "Ready" \/ (state = "Failed" /\ poisoned /\ ~accepting)

\* No observer sleeps through an outcome: a parked observer of a cell that is not
\* Connecting has an unseen change, or the call that changed the cell has yet to
\* send, although every send comes after the unlock.
NoMissedOutcome ==
    \A a \in Actors :
        pc[a] = "parked" /\ state # "Connecting" =>
            a \notin seen \/ \E b \in Actors : pc[b] = "sending"

\* A cell that stopped accepting never builds or serves again, and the value a
\* poisoned cell kept goes only with the close.
ShutIsFinal ==
    [][~accepting => /\ ~accepting'
                     /\ state' \notin {"Connecting", "Ready"}
                     /\ value' # value => value' = NoValue /\ state' = "Closed"]_vars

\* Every observer gets its answer, as long as attempts do not start over and over:
\* MaxRevision bounds them, and in the code each retry waits out a cooldown.
ObserverReturns == \A a \in Actors : pc[a] \in Observing ~> pc[a] \notin Observing
=============================================================================
