------------------------- MODULE GenerationTaskScope -------------------------
(***************************************************************************)
(* GenerationOwnerBoundary (dae-runtime-control, physical_owner/            *)
(* task_scope.rs): the tasks one runtime generation owns, counted by role    *)
(* through guards that live inside the tasks, the drain / close protocol, the *)
(* wait for the last task, the join handles, and the Drop of the boundary.    *)
(*                                                                         *)
(* One atomic step is one critical section of the boundary's mutex, or the    *)
(* notification that follows it after the unlock.  tokio's tasks and         *)
(* JoinHandles are external: an aborted task ends the next time it yields, a  *)
(* JoinHandle answers once the task's future, and with it the guard, is gone.  *)
(* A control is a caller of apply_command or wait_joined, one call at a time. *)
(* Drain and close reasons are carried, never read, and left out.            *)
(***************************************************************************)
EXTENDS Integers, FiniteSets

CONSTANTS Tasks,      \* calls of spawn_task_on with the tasks they may start
          Controls,   \* callers of apply_command and wait_joined
          Roles,      \* OwnerTaskRole
          RoleOf      \* the role each task is spawned with

ASSUME TasksAssumption == IsFiniteSet(Tasks)
ASSUME RolesAssumption == IsFiniteSet(Roles) /\ RoleOf \in [Tasks -> Roles]

VARIABLES
    state,       \* GenerationOwnerRuntimeState.state
    tasks,       \* GenerationOwnerRuntimeState.tasks, per role
    cancelled,   \* the cancellation signal is raised
    poisoned,    \* a thread panicked while it held the mutex
    boundary,    \* the GenerationOwnerBoundary value: live, dropping or dropped
    tpc,         \* where each task is
    outcome,     \* how its future ended
    aborted,     \* tasks whose abort was requested
    handle,      \* where each GenerationTaskHandle is
    result,      \* what join or join_until returned
    cpc,         \* where each control is
    seen,        \* wait_joined receivers with no unseen state_changed
    expired      \* controls whose deadline elapsed

scope == <<state, tasks, cancelled, poisoned>>
task == <<tpc, outcome, aborted>>
handles == <<handle, result>>
control == <<cpc, seen, expired>>
vars == <<scope, boundary, task, handles, control>>

TaskPc == {"unspawned", "running", "notifying", "finished"}
Outcome == {"none", "Ok", "Panicked", "Cancelled"}
Handle == {"none", "held", "joining", "joiningUntil", "aborting", "returned", "dropped",
           "detached"}
JoinWaiting == {"look", "deadline", "parked"}
ControlPc == JoinWaiting \union {"idle", "notifying", "joined"}

Init ==
    /\ state = "Running"
    /\ tasks = [r \in Roles |-> 0]
    /\ cancelled = FALSE
    /\ poisoned = FALSE
    /\ boundary = "live"
    /\ tpc = [t \in Tasks |-> "unspawned"]
    /\ outcome = [t \in Tasks |-> "none"]
    /\ aborted = {}
    /\ handle = [t \in Tasks |-> "none"]
    /\ result = [t \in Tasks |-> "none"]
    /\ cpc = [d \in Controls |-> "idle"]
    /\ seen = {}
    /\ expired = {}

\* OwnerTaskCounts::total: no role has a task.
NoTasks == \A r \in Roles : tasks[r] = 0

Monus(a, b) == IF a >= b THEN a - b ELSE 0      \* saturating_sub

NotifyStateChanged == seen' = {}

\* Guard of every critical section: lock_state() first recovers a poisoned scope.
NeedsRecovery == poisoned /\ state = "Running"
Locked == ~NeedsRecovery

Panic ==
    /\ ~poisoned
    /\ poisoned' = TRUE
    /\ UNCHANGED <<state, tasks, cancelled, boundary, task, handles, control>>

\* Defect: the tasks are not told to stop.
StartDrainQuietly == state' = "Draining" /\ UNCHANGED cancelled

\* The drain and the cancellation signal, in one critical section.
StartDrain == state' = "Draining" /\ cancelled' = TRUE

\* lock_state on a poisoned mutex: drain, cancel and notify; the counts are kept.
RecoverPoison ==
    /\ NeedsRecovery
    /\ StartDrain
    /\ NotifyStateChanged
    /\ UNCHANGED <<tasks, poisoned, boundary, task, handles, cpc, expired>>

-----------------------------------------------------------------------------
(* Tasks: spawn_task_on, reserve_task, and the Drop of the guard. *)

\* Defect: only a closed scope refuses tasks.
MayRegisterDraining == state # "Closed"

MayRegister == state = "Running"

\* spawn_task_on: count the task, then start it with the guard inside.
SpawnTask(t) ==
    /\ boundary = "live"
    /\ tpc[t] = "unspawned"
    /\ Locked
    /\ MayRegister
    /\ tasks' = [tasks EXCEPT ![RoleOf[t]] = @ + 1]
    /\ tpc' = [tpc EXCEPT ![t] = "running"]
    /\ handle' = [handle EXCEPT ![t] = "held"]
    /\ UNCHANGED <<state, cancelled, poisoned, boundary, outcome, aborted, result, control>>

\* Defect: any counter goes down.
DecrementAny(t) == \E r \in Roles : tasks' = [tasks EXCEPT ![r] = Monus(@, 1)]

Decrement(t) == tasks' = [tasks EXCEPT ![RoleOf[t]] = Monus(@, 1)]

\* The future of a task ends and its guard is dropped: the critical section.
ExitTask(t) ==
    /\ tpc[t] = "running"
    /\ Locked
    /\ \E o \in {"Ok", "Panicked"} \union {x \in {"Cancelled"} : t \in aborted} :
            outcome' = [outcome EXCEPT ![t] = o]
    /\ Decrement(t)
    /\ tpc' = [tpc EXCEPT ![t] = "notifying"]
    /\ UNCHANGED <<state, cancelled, poisoned, boundary, aborted, handles, control>>

\* The guard's notification after the unlock; only then may the JoinHandle answer.
NotifyExit(t) ==
    /\ tpc[t] = "notifying"
    /\ NotifyStateChanged
    /\ tpc' = [tpc EXCEPT ![t] = "finished"]
    /\ UNCHANGED <<scope, boundary, outcome, aborted, handles, cpc, expired>>

-----------------------------------------------------------------------------
(* GenerationTaskHandle. *)

HandleGoTo(t, label) == handle' = [handle EXCEPT ![t] = label]

AbortTask(t) ==
    /\ handle[t] = "held"
    /\ aborted' = aborted \union {t}
    /\ UNCHANGED <<scope, boundary, tpc, outcome, handles, control>>

\* Drop of the handle.
DropHandle(t) ==
    /\ handle[t] = "held"
    /\ HandleGoTo(t, "dropped")
    /\ aborted' = aborted \union {t}
    /\ UNCHANGED <<scope, boundary, tpc, outcome, result, control>>

\* join and join_until take the JoinHandle out of the handle.
Join(t) ==
    /\ handle[t] = "held"
    /\ HandleGoTo(t, "joining") \/ HandleGoTo(t, "joiningUntil")
    /\ UNCHANGED <<scope, boundary, task, result, control>>

\* join_until: the deadline has passed, before or in the select!.
AbortAtDeadline(t) ==
    /\ handle[t] = "joiningUntil"
    /\ HandleGoTo(t, "aborting")
    /\ aborted' = aborted \union {t}
    /\ UNCHANGED <<scope, boundary, tpc, outcome, result, control>>

\* The future of join or join_until is dropped at its await: the JoinHandle it holds
\* is dropped with it, which detaches the task.
DropJoin(t) ==
    /\ handle[t] \in {"joining", "joiningUntil", "aborting"}
    /\ HandleGoTo(t, "detached")
    /\ UNCHANGED <<scope, boundary, task, result, control>>

\* Defect: the deadline path does not wait for the task.
MayReturnAtDeadline(t) == tpc[t] = "finished" \/ handle[t] = "aborting"

MayReturn(t) == tpc[t] = "finished"
\* classify_task_join, and the deadline's own classification.
Classify(t) ==
    IF handle[t] = "aborting" /\ outcome[t] # "Panicked"
    THEN "DeadlineElapsed" ELSE outcome[t]

\* The JoinHandle answers.
JoinReturns(t) ==
    /\ handle[t] \in {"joining", "joiningUntil", "aborting"}
    /\ MayReturn(t)
    /\ result' = [result EXCEPT ![t] = Classify(t)]
    /\ HandleGoTo(t, "returned")
    /\ UNCHANGED <<scope, boundary, task, control>>

-----------------------------------------------------------------------------
(* apply_command, wait_joined and the Drop of the boundary. *)

ControlGoTo(d, label) == cpc' = [cpc EXCEPT ![d] = label]

\* A control that is not inside a call, while there is a boundary to call.
Startable(d) == boundary = "live" /\ cpc[d] \in {"idle", "joined"}

\* apply_command(BeginDrain); the notification follows the unlock.
BeginDrain(d) ==
    /\ Startable(d)
    /\ Locked
    /\ state = "Running"
    /\ StartDrain
    /\ ControlGoTo(d, "notifying")
    /\ UNCHANGED <<tasks, poisoned, boundary, task, handles, seen, expired>>

MayClose == NoTasks /\ state = "Draining"

\* apply_command(Close).
Close(d) ==
    /\ Startable(d)
    /\ Locked
    /\ MayClose
    /\ state' = "Closed"
    /\ ControlGoTo(d, "notifying")
    /\ UNCHANGED <<tasks, cancelled, poisoned, boundary, task, handles, seen, expired>>

NotifyCommand(d) ==
    /\ cpc[d] = "notifying"
    /\ NotifyStateChanged
    /\ ControlGoTo(d, "idle")
    /\ UNCHANGED <<scope, boundary, task, handles, expired>>

\* wait_joined subscribes before it looks.
WaitJoined(d) ==
    /\ Startable(d)
    /\ seen' = seen \union {d}
    /\ ControlGoTo(d, "look")
    /\ UNCHANGED <<scope, boundary, task, handles, expired>>

ReturnJoin(d, label) ==
    /\ ControlGoTo(d, label)
    /\ seen' = seen \ {d}
    /\ expired' = expired \ {d}

LookJoined(d) ==
    /\ cpc[d] = "look"
    /\ Locked
    /\ \/ state = "Running" /\ ReturnJoin(d, "idle")
       \/ state # "Running" /\ NoTasks /\ ReturnJoin(d, "joined")
       \/ state # "Running" /\ ~NoTasks /\ ControlGoTo(d, "deadline") /\ UNCHANGED <<seen, expired>>
    /\ UNCHANGED <<scope, boundary, task, handles>>

\* Defect: the receiver is marked up to date after the look.
ParkMarked(d) == d \notin expired /\ ControlGoTo(d, "parked") /\ seen' = seen \union {d}

Park(d) == d \notin expired /\ ControlGoTo(d, "parked") /\ UNCHANGED seen

CheckDeadline(d) ==
    /\ cpc[d] = "deadline"
    /\ \/ d \in expired /\ ReturnJoin(d, "idle")
       \/ Park(d) /\ UNCHANGED expired
    /\ UNCHANGED <<scope, boundary, task, handles>>

WakeJoin(d) ==
    /\ cpc[d] = "parked"
    /\ d \notin seen
    /\ seen' = seen \union {d}
    /\ ControlGoTo(d, "look")
    /\ UNCHANGED <<scope, boundary, task, handles, expired>>

\* The deadline's last look, which does not ask for the state.
DeadlineLook(d) ==
    /\ cpc[d] = "parked"
    /\ d \in expired
    /\ Locked
    /\ ReturnJoin(d, IF NoTasks THEN "joined" ELSE "idle")
    /\ UNCHANGED <<scope, boundary, task, handles>>

\* The deadline of a wait_joined elapses.
Expire(d) ==
    /\ cpc[d] \in JoinWaiting
    /\ d \notin expired
    /\ expired' = expired \union {d}
    /\ UNCHANGED <<scope, boundary, task, handles, cpc, seen>>

\* Drop of the boundary, which no control is using: the signal goes up before the
\* lock is taken.
DropBoundary ==
    /\ boundary = "live"
    /\ \A d \in Controls : cpc[d] \in {"idle", "joined"}
    /\ boundary' = "dropping"
    /\ cancelled' = TRUE
    /\ UNCHANGED <<state, tasks, poisoned, task, handles, control>>

\* Its critical section; the notification that follows finds no receiver.
FinishDrop ==
    /\ boundary = "dropping"
    /\ Locked
    /\ boundary' = "dropped"
    /\ state' = IF state = "Running" THEN "Draining" ELSE state
    /\ UNCHANGED <<tasks, cancelled, poisoned, task, handles, control>>

-----------------------------------------------------------------------------
TaskStep(t) == NotifyExit(t) \/ JoinReturns(t)
ToldExit(t) == (t \in aborted \/ cancelled) /\ ExitTask(t)
ControlStep(d) ==
    NotifyCommand(d) \/ LookJoined(d) \/ CheckDeadline(d) \/ WakeJoin(d) \/ DeadlineLook(d)

Next ==
    \/ \E t \in Tasks :
        \/ TaskStep(t) \/ SpawnTask(t) \/ ExitTask(t) \/ AbortTask(t) \/ DropHandle(t)
        \/ Join(t) \/ AbortAtDeadline(t) \/ DropJoin(t)
    \/ \E d \in Controls :
        ControlStep(d) \/ BeginDrain(d) \/ Close(d) \/ WaitJoined(d) \/ Expire(d)
    \/ DropBoundary \/ FinishDrop
    \/ Panic \/ RecoverPoison

Spec == Init /\ [][Next]_vars

\* Somebody is waiting for the mutex.
LockWanted ==
    \/ \E t \in Tasks : tpc[t] = "running" /\ (t \in aborted \/ cancelled)
    \/ \E d \in Controls : cpc[d] = "look" \/ (cpc[d] = "parked" /\ d \in expired)
    \/ boundary = "dropping"

\* Controls and join futures keep being polled, the Drop of the boundary runs to its
\* end, a task that is aborted or whose cancellation signal is raised ends (the
\* contract of the futures given to spawn_task_on).  A task left alone need not end,
\* and no deadline has to elapse.
Fairness ==
    /\ \A t \in Tasks : WF_vars(TaskStep(t)) /\ WF_vars(ToldExit(t))
    /\ \A d \in Controls : WF_vars(ControlStep(d))
    /\ WF_vars(FinishDrop)
    /\ WF_vars(LockWanted /\ RecoverPoison)

FairSpec == Spec /\ Fairness

-----------------------------------------------------------------------------
(* Properties. *)

\* Types; no task counter goes below zero.
TypeOK ==
    /\ state \in {"Running", "Draining", "Closed"}
    /\ tasks \in [Roles -> Nat]
    /\ cancelled \in BOOLEAN
    /\ poisoned \in BOOLEAN
    /\ boundary \in {"live", "dropping", "dropped"}
    /\ tpc \in [Tasks -> TaskPc]
    /\ outcome \in [Tasks -> Outcome]
    /\ aborted \in SUBSET Tasks
    /\ handle \in [Tasks -> Handle]
    /\ result \in [Tasks -> Outcome \union {"DeadlineElapsed"}]
    /\ cpc \in [Controls -> ControlPc]
    /\ seen \in SUBSET Controls
    /\ expired \in SUBSET Controls

RunningIn(r) == {t \in Tasks : tpc[t] = "running" /\ RoleOf[t] = r}

\* The count of every role is the number of its tasks whose future still exists,
\* whichever way they end (completion, panic, abort) and whether or not the mutex
\* was poisoned in between.
TasksCounted == \A r \in Roles : tasks[r] = Cardinality(RunningIn(r))

\* Joined is final: once wait_joined returned Ok, or the scope is closed, no task of
\* the generation runs and none can be started, even though the deadline path of
\* wait_joined does not look at the state again.
JoinedIsFinal ==
    /\ \A d \in Controls : cpc[d] \in {"deadline", "parked"} => state # "Running"
    /\ state = "Closed" \/ (\E d \in Controls : cpc[d] = "joined")
           => state # "Running" /\ \A t \in Tasks : tpc[t] # "running"

\* No wait_joined sleeps through the last exit: past its look, with no task left, it
\* has an unseen state_changed or the last task is about to notify.
NoMissedExit ==
    \A d \in Controls :
        NoTasks /\ cpc[d] \in {"deadline", "parked"} =>
            d \notin seen \/ \E t \in Tasks : tpc[t] = "notifying"

\* A join that returned speaks of a task that is gone, "deadline return must follow
\* abort and join", and never passes a panic off as something else.
JoinIsHonest ==
    \A t \in Tasks : result[t] # "none" =>
        /\ tpc[t] = "finished"
        /\ outcome[t] = "Panicked" <=> result[t] = "Panicked"
        /\ result[t] = "DeadlineElapsed" => t \in aborted

\* A generation that stops running ends up without tasks, and whoever waits for that
\* is told: every way into the drain raises the signal, and the last exit is noticed.
DrainJoins ==
    /\ (state # "Running") ~> NoTasks
    /\ \A d \in Controls : (state # "Running" /\ cpc[d] \in JoinWaiting)
                               ~> cpc[d] \notin JoinWaiting
=============================================================================
