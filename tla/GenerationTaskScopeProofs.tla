---------------------- MODULE GenerationTaskScopeProofs ----------------------
(* Proofs about GenerationTaskScope for every finite set of tasks, every set   *)
(* of roles and every set of controls: types, the counts, that joined is final, *)
(* that no wait_joined sleeps through the last exit, and what a join reports.   *)
EXTENDS GenerationTaskScope, FiniteSetTheorems, TLAPS

\* TypeOK in two halves: the flags, and everything else.
FlagsOK == cancelled \in BOOLEAN /\ poisoned \in BOOLEAN
FieldsOK ==
    /\ state \in {"Running", "Draining", "Closed"}
    /\ tasks \in [Roles -> Nat]
    /\ boundary \in {"live", "dropping", "dropped"}
    /\ tpc \in [Tasks -> TaskPc]
    /\ outcome \in [Tasks -> Outcome]
    /\ aborted \in SUBSET Tasks
    /\ handle \in [Tasks -> Handle]
    /\ result \in [Tasks -> Outcome \union {"DeadlineElapsed"}]
    /\ cpc \in [Controls -> ControlPc]
    /\ seen \in SUBSET Controls
    /\ expired \in SUBSET Controls

\* Every step is one of these, for a task, for a control, or for the whole scope.
TaskAction(t) ==
    \/ TaskStep(t) \/ SpawnTask(t) \/ ExitTask(t) \/ AbortTask(t) \/ DropHandle(t)
    \/ Join(t) \/ AbortAtDeadline(t) \/ DropJoin(t)
ControlAction(d) ==
    ControlStep(d) \/ BeginDrain(d) \/ Close(d) \/ WaitJoined(d) \/ Expire(d)
ScopeAction == DropBoundary \/ FinishDrop \/ Panic \/ RecoverPoison \/ UNCHANGED vars

\* The case split every invariance proof uses.
LEMMA StepCases ==
    ASSUME [Next]_vars
    PROVE  \/ \E t \in Tasks : TaskAction(t)
           \/ \E d \in Controls : ControlAction(d)
           \/ ScopeAction
BY DEF Next, TaskAction, ControlAction, ScopeAction

\* A role's tasks are counted in its own counter.
LEMMA RoleType == \A t \in Tasks : RoleOf[t] \in Roles
BY RolesAssumption

\* The flags stay Boolean.
LEMMA FlagsStep == ASSUME FlagsOK, [Next]_vars PROVE FlagsOK'
<1> USE DEF FlagsOK, scope
<1>1. ASSUME NEW t \in Tasks, TaskAction(t) PROVE FlagsOK'
  BY <1>1 DEF TaskAction, TaskStep, NotifyExit, JoinReturns, SpawnTask, ExitTask, AbortTask,
              DropHandle, Join, AbortAtDeadline, DropJoin
<1>2. ASSUME NEW d \in Controls, ControlAction(d) PROVE FlagsOK'
  BY <1>2 DEF ControlAction, ControlStep, NotifyCommand, LookJoined, CheckDeadline, WakeJoin,
              DeadlineLook, BeginDrain, StartDrain, Close, WaitJoined, Expire
<1>3. CASE ScopeAction
  BY <1>3 DEF ScopeAction, DropBoundary, FinishDrop, Panic, RecoverPoison, StartDrain, vars
<1> HIDE DEF FlagsOK, scope
<1> QED BY <1>1, <1>2, <1>3, StepCases

\* The other fields keep their types.
LEMMA FieldsStep == ASSUME FieldsOK, [Next]_vars PROVE FieldsOK'
<1> USE RoleType
    DEF FieldsOK, scope, task, handles, control, TaskPc, Outcome, Handle, ControlPc, JoinWaiting
<1>1. ASSUME NEW t \in Tasks, TaskAction(t) PROVE FieldsOK'
  <2>1. CASE NotifyExit(t)
    BY <2>1 DEF NotifyExit, NotifyStateChanged
  <2>2. CASE JoinReturns(t)
    BY <2>2 DEF JoinReturns, Classify, HandleGoTo
  <2>3. CASE SpawnTask(t)
    BY <2>3 DEF SpawnTask
  <2>4. CASE ExitTask(t)
    <3>1. tasks' \in [Roles -> Nat]
      BY <2>4 DEF ExitTask, Decrement, Monus
    <3>2. tpc' \in [Tasks -> TaskPc] /\ outcome' \in [Tasks -> Outcome]
      BY <2>4 DEF ExitTask
    <3> QED BY <2>4, <3>1, <3>2 DEF ExitTask
  <2>5. CASE AbortTask(t) \/ DropHandle(t)
    BY <2>5 DEF AbortTask, DropHandle, HandleGoTo
  <2>6. CASE Join(t) \/ AbortAtDeadline(t) \/ DropJoin(t)
    BY <2>6 DEF Join, AbortAtDeadline, DropJoin, HandleGoTo
  <2> QED BY <1>1, <2>1, <2>2, <2>3, <2>4, <2>5, <2>6 DEF TaskAction, TaskStep
<1>2. ASSUME NEW d \in Controls, ControlAction(d) PROVE FieldsOK'
  <2>1. CASE NotifyCommand(d)
    BY <2>1 DEF NotifyCommand, NotifyStateChanged, ControlGoTo
  <2>2. CASE LookJoined(d)
    BY <2>2 DEF LookJoined, ReturnJoin, ControlGoTo
  <2>3. CASE CheckDeadline(d)
    BY <2>3 DEF CheckDeadline, ReturnJoin, Park, ControlGoTo
  <2>4. CASE WakeJoin(d) \/ WaitJoined(d)
    BY <2>4 DEF WakeJoin, WaitJoined, ControlGoTo
  <2>5. CASE DeadlineLook(d)
    BY <2>5 DEF DeadlineLook, ReturnJoin, ControlGoTo
  <2>6. CASE BeginDrain(d) \/ Close(d)
    BY <2>6 DEF BeginDrain, StartDrain, Close, ControlGoTo
  <2>7. CASE Expire(d)
    BY <2>7 DEF Expire
  <2> QED BY <1>2, <2>1, <2>2, <2>3, <2>4, <2>5, <2>6, <2>7 DEF ControlAction, ControlStep
<1>3. CASE ScopeAction
  BY <1>3 DEF ScopeAction, DropBoundary, FinishDrop, Panic, RecoverPoison, StartDrain,
              NotifyStateChanged, vars
<1> HIDE DEF FieldsOK, scope, task, handles, control
<1> QED BY <1>1, <1>2, <1>3, StepCases

\* The boundary's counts and every task's, handle's and control's state keep their
\* types; no counter goes below zero.
THEOREM TypeCorrect == Spec => []TypeOK
<1>1. Init => FlagsOK
  BY DEF Init, FlagsOK
<1>2. Init => FieldsOK
  BY DEF Init, FieldsOK, TaskPc, Outcome, Handle, ControlPc
<1>3. TypeOK <=> FlagsOK /\ FieldsOK
  BY DEF TypeOK, FlagsOK, FieldsOK
<1>4. (FlagsOK /\ FieldsOK) /\ [Next]_vars => (FlagsOK /\ FieldsOK)'
  BY FlagsStep, FieldsStep
<1> QED BY <1>1, <1>2, <1>3, <1>4, PTL DEF Spec

-----------------------------------------------------------------------------
\* The tasks of a role are finitely many.
LEMMA RunningFinite == \A r : IsFiniteSet(RunningIn(r))
<1>1. \A r : RunningIn(r) \subseteq Tasks
  BY DEF RunningIn
<1> QED BY <1>1, TasksAssumption, FS_Subset

\* Only spawning and exiting move the counters or the set of running tasks.
LEMMA CountFrame ==
    ASSUME TypeOK, [Next]_vars,
           \A t \in Tasks : ~SpawnTask(t) /\ ~ExitTask(t)
    PROVE  /\ tasks' = tasks
           /\ \A t \in Tasks : tpc'[t] = "running" <=> tpc[t] = "running"
<1> DEFINE Goal == /\ tasks' = tasks
                   /\ \A t \in Tasks : tpc'[t] = "running" <=> tpc[t] = "running"
<1>1. tpc \in [Tasks -> TaskPc]
  BY DEF TypeOK
<1>2. ASSUME NEW t \in Tasks, TaskAction(t) PROVE Goal
  BY <1>1, <1>2 DEF TaskAction, TaskStep, NotifyExit, JoinReturns, AbortTask,
              DropHandle, Join, AbortAtDeadline, DropJoin, scope, task
<1>3. ASSUME NEW d \in Controls, ControlAction(d) PROVE Goal
  BY <1>3 DEF ControlAction, ControlStep, NotifyCommand, LookJoined, CheckDeadline, WakeJoin,
              DeadlineLook, BeginDrain, Close, WaitJoined, Expire, scope, task
<1>4. CASE ScopeAction
  BY <1>4 DEF ScopeAction, DropBoundary, FinishDrop, Panic, RecoverPoison, vars, scope, task
<1> QED BY <1>2, <1>3, <1>4, StepCases

\* Spawning and exiting move one counter with one running task.
LEMMA CountStep == ASSUME TypeOK, TasksCounted, [Next]_vars PROVE TasksCounted'
<1>1. /\ tpc \in [Tasks -> TaskPc]
      /\ tasks \in [Roles -> Nat]
  BY DEF TypeOK
<1>2. ASSUME NEW t \in Tasks, SpawnTask(t) PROVE TasksCounted'
  <2> SUFFICES ASSUME NEW r \in Roles PROVE tasks'[r] = Cardinality(RunningIn(r)')
    BY DEF TasksCounted
  <2>1. /\ tpc[t] = "unspawned"
        /\ tpc' = [tpc EXCEPT ![t] = "running"]
        /\ tasks' = [tasks EXCEPT ![RoleOf[t]] = tasks[RoleOf[t]] + 1]
    BY <1>2 DEF SpawnTask
  <2>2. tasks[r] = Cardinality(RunningIn(r)) /\ IsFiniteSet(RunningIn(r))
    BY RunningFinite DEF TasksCounted
  <2>3. CASE RoleOf[t] = r
    <3>1. RunningIn(r)' = RunningIn(r) \union {t} /\ t \notin RunningIn(r)
      BY <1>1, <2>1, <2>3 DEF RunningIn
    <3>2. Cardinality(RunningIn(r)') = Cardinality(RunningIn(r)) + 1
      BY <2>2, <3>1, FS_AddElement
    <3> QED BY <1>1, <2>1, <2>2, <2>3, <3>2
  <2>4. CASE RoleOf[t] # r
    <3>1. RunningIn(r)' = RunningIn(r)
      BY <1>1, <2>1, <2>4 DEF RunningIn
    <3> QED BY <1>1, <2>1, <2>2, <2>4, <3>1
  <2> QED BY <2>3, <2>4
<1>3. ASSUME NEW t \in Tasks, ExitTask(t) PROVE TasksCounted'
  <2> SUFFICES ASSUME NEW r \in Roles PROVE tasks'[r] = Cardinality(RunningIn(r)')
    BY DEF TasksCounted
  <2>1. /\ tpc[t] = "running"
        /\ tpc' = [tpc EXCEPT ![t] = "notifying"]
        /\ tasks' = [tasks EXCEPT ![RoleOf[t]] = Monus(tasks[RoleOf[t]], 1)]
    BY <1>3 DEF ExitTask, Decrement
  <2>2. tasks[r] = Cardinality(RunningIn(r)) /\ IsFiniteSet(RunningIn(r))
    BY RunningFinite DEF TasksCounted
  <2>3. CASE RoleOf[t] = r
    <3>1. RunningIn(r)' = RunningIn(r) \ {t} /\ t \in RunningIn(r)
      BY <1>1, <2>1, <2>3 DEF RunningIn
    <3>2. Cardinality(RunningIn(r)') = Cardinality(RunningIn(r)) - 1
      BY <2>2, <3>1, FS_RemoveElement
    <3>3. Cardinality(RunningIn(r)') \in Nat
      <4>1. IsFiniteSet(RunningIn(r)')
        BY <2>2, <3>1, FS_RemoveElement
      <4> QED BY <4>1, FS_CardinalityType
    <3> QED BY <1>1, <2>1, <2>2, <2>3, <3>2, <3>3 DEF Monus
  <2>4. CASE RoleOf[t] # r
    <3>1. RunningIn(r)' = RunningIn(r)
      BY <1>1, <2>1, <2>4 DEF RunningIn
    <3> QED BY <1>1, <2>1, <2>2, <2>4, <3>1
  <2> QED BY <2>3, <2>4
<1>4. CASE \A t \in Tasks : ~SpawnTask(t) /\ ~ExitTask(t)
  <2>1. tasks' = tasks /\ \A r : RunningIn(r)' = RunningIn(r)
    BY <1>4, CountFrame DEF RunningIn
  <2> QED BY <2>1 DEF TasksCounted
<1> QED BY <1>2, <1>3, <1>4

\* The count of every role is the number of its tasks that exist, for any number of
\* tasks, roles and controls.
THEOREM TasksAreCounted == Spec => []TasksCounted
<1>1. Init => TasksCounted
  <2> SUFFICES ASSUME Init, NEW r \in Roles PROVE tasks[r] = Cardinality(RunningIn(r))
    BY DEF TasksCounted
  <2>1. RunningIn(r) = {} /\ tasks[r] = 0
    BY DEF Init, RunningIn
  <2> QED BY <2>1, FS_EmptySet
<1> QED BY <1>1, TypeCorrect, CountStep, PTL DEF Spec

-----------------------------------------------------------------------------
\* Counters at zero mean that no task runs.
LEMMA NoTasksMeansNone ==
    ASSUME TasksCounted, NoTasks PROVE \A t \in Tasks : tpc[t] # "running"
<1> SUFFICES ASSUME NEW t \in Tasks, tpc[t] = "running" PROVE FALSE
  OBVIOUS
<1>1. t \in RunningIn(RoleOf[t])
  BY DEF RunningIn
<1>2. Cardinality(RunningIn(RoleOf[t])) = 0
  BY RoleType DEF TasksCounted, NoTasks
<1>3. RunningIn(RoleOf[t]) = {}
  BY <1>2, RunningFinite, FS_EmptySet
<1> QED BY <1>1, <1>3

\* The counters vouch for joined and closed scopes.
LEMMA FinalStep ==
    ASSUME TypeOK, TasksCounted, JoinedIsFinal, [Next]_vars PROVE JoinedIsFinal'
<1>1. /\ tpc \in [Tasks -> TaskPc]
      /\ cpc \in [Controls -> ControlPc]
  BY DEF TypeOK
<1> USE <1>1 DEF JoinedIsFinal, scope, task, control
<1>2. ASSUME NEW t \in Tasks, TaskAction(t) PROVE JoinedIsFinal'
  <2>1. CASE SpawnTask(t)
    BY <2>1 DEF SpawnTask, MayRegister
  <2>2. CASE ExitTask(t) \/ NotifyExit(t)
    BY <2>2 DEF ExitTask, NotifyExit
  <2> QED BY <1>2, <2>1, <2>2 DEF TaskAction, TaskStep, JoinReturns, AbortTask, DropHandle,
                                  Join, AbortAtDeadline, DropJoin
<1>3. ASSUME NEW d \in Controls, ControlAction(d) PROVE JoinedIsFinal'
  <2>1. CASE LookJoined(d)
    BY <2>1, NoTasksMeansNone DEF LookJoined, ReturnJoin, ControlGoTo
  <2>2. CASE DeadlineLook(d)
    BY <2>2, NoTasksMeansNone DEF DeadlineLook, ReturnJoin, ControlGoTo
  <2>3. CASE Close(d)
    BY <2>3, NoTasksMeansNone DEF Close, MayClose, ControlGoTo
  <2>4. CASE BeginDrain(d)
    BY <2>4 DEF BeginDrain, StartDrain, ControlGoTo
  <2>5. CASE CheckDeadline(d)
    BY <2>5 DEF CheckDeadline, ReturnJoin, Park, ControlGoTo
  <2>6. CASE NotifyCommand(d) \/ WakeJoin(d) \/ WaitJoined(d) \/ Expire(d)
    BY <2>6 DEF NotifyCommand, WakeJoin, WaitJoined, Expire, ControlGoTo
  <2> QED BY <1>3, <2>1, <2>2, <2>3, <2>4, <2>5, <2>6 DEF ControlAction, ControlStep
<1>4. CASE ScopeAction
  BY <1>4 DEF ScopeAction, DropBoundary, FinishDrop, Panic, RecoverPoison, NeedsRecovery,
              StartDrain, vars
<1> HIDE DEF JoinedIsFinal, scope, task, control
<1> QED BY <1>2, <1>3, <1>4, StepCases

\* Once wait_joined returned Ok, or the scope is closed, no task of the generation
\* runs and none can start.
THEOREM JoinIsFinal == Spec => []JoinedIsFinal
<1>1. Init => JoinedIsFinal
  BY DEF Init, JoinedIsFinal
<1> QED BY <1>1, TypeCorrect, TasksAreCounted, FinalStep, PTL DEF Spec

-----------------------------------------------------------------------------
\* The step that empties the scope leaves a task about to notify.
LEMMA ExitSeenStep == ASSUME TypeOK, NoMissedExit, [Next]_vars PROVE NoMissedExit'
<1>1. /\ tpc \in [Tasks -> TaskPc]
      /\ cpc \in [Controls -> ControlPc]
      /\ tasks \in [Roles -> Nat]
  BY DEF TypeOK
<1> USE <1>1, RoleType DEF NoMissedExit, NoTasks, scope, task, control
<1>2. ASSUME NEW t \in Tasks, TaskAction(t) PROVE NoMissedExit'
  <2>1. CASE SpawnTask(t)
    BY <2>1 DEF SpawnTask
  <2>2. CASE ExitTask(t)
    BY <2>2 DEF ExitTask
  <2>3. CASE NotifyExit(t)
    BY <2>3 DEF NotifyExit, NotifyStateChanged
  <2> QED BY <1>2, <2>1, <2>2, <2>3 DEF TaskAction, TaskStep, JoinReturns, AbortTask,
                                        DropHandle, Join, AbortAtDeadline, DropJoin
<1>3. ASSUME NEW d \in Controls, ControlAction(d) PROVE NoMissedExit'
  <2>1. CASE LookJoined(d)
    BY <2>1 DEF LookJoined, ReturnJoin, ControlGoTo
  <2>2. CASE DeadlineLook(d)
    BY <2>2 DEF DeadlineLook, ReturnJoin, ControlGoTo
  <2>3. CASE Close(d) \/ BeginDrain(d)
    BY <2>3 DEF Close, BeginDrain, ControlGoTo
  <2>4. CASE CheckDeadline(d)
    BY <2>4 DEF CheckDeadline, ReturnJoin, Park, ControlGoTo
  <2>5. CASE NotifyCommand(d)
    BY <2>5 DEF NotifyCommand, NotifyStateChanged
  <2>6. CASE WakeJoin(d) \/ WaitJoined(d) \/ Expire(d)
    BY <2>6 DEF WakeJoin, WaitJoined, Expire, ControlGoTo
  <2> QED BY <1>3, <2>1, <2>2, <2>3, <2>4, <2>5, <2>6 DEF ControlAction, ControlStep
<1>4. CASE ScopeAction
  BY <1>4 DEF ScopeAction, DropBoundary, FinishDrop, Panic, RecoverPoison,
              NotifyStateChanged, vars
<1> HIDE DEF NoMissedExit, NoTasks, scope, task, control
<1> QED BY <1>2, <1>3, <1>4, StepCases

\* No wait_joined sleeps through the last exit.
THEOREM ExitsAreNotMissed == Spec => []NoMissedExit
<1>1. Init => NoMissedExit
  BY DEF Init, NoMissedExit
<1> QED BY <1>1, TypeCorrect, ExitSeenStep, PTL DEF Spec

-----------------------------------------------------------------------------
\* JoinIsHonest, with what makes it inductive: a join_until past its deadline has
\* aborted its task.
HonestInv ==
    /\ JoinIsHonest
    /\ \A t \in Tasks : handle[t] = "aborting" => t \in aborted

\* A finished task keeps its outcome, and an abort is never taken back.
LEMMA HonestStep == ASSUME TypeOK, HonestInv, [Next]_vars PROVE HonestInv'
<1>1. /\ tpc \in [Tasks -> TaskPc] /\ outcome \in [Tasks -> Outcome]
      /\ handle \in [Tasks -> Handle] /\ result \in [Tasks -> Outcome \union {"DeadlineElapsed"}]
  BY DEF TypeOK
<1> USE <1>1 DEF HonestInv, JoinIsHonest, Outcome, scope, task, handles, control
<1>2. ASSUME NEW t \in Tasks, TaskAction(t) PROVE HonestInv'
  <2>1. CASE NotifyExit(t)
    BY <2>1 DEF NotifyExit
  <2>2. CASE JoinReturns(t)
    BY <2>2 DEF JoinReturns, MayReturn, Classify, HandleGoTo
  <2>3. CASE SpawnTask(t)
    BY <2>3 DEF SpawnTask
  <2>4. CASE ExitTask(t)
    BY <2>4 DEF ExitTask
  <2>5. CASE AbortTask(t) \/ DropHandle(t)
    BY <2>5 DEF AbortTask, DropHandle, HandleGoTo
  <2>6. CASE Join(t) \/ AbortAtDeadline(t) \/ DropJoin(t)
    BY <2>6 DEF Join, AbortAtDeadline, DropJoin, HandleGoTo
  <2> QED BY <1>2, <2>1, <2>2, <2>3, <2>4, <2>5, <2>6 DEF TaskAction, TaskStep
<1>3. ASSUME NEW d \in Controls, ControlAction(d) PROVE HonestInv'
  BY <1>3 DEF ControlAction, ControlStep, NotifyCommand, LookJoined, CheckDeadline, WakeJoin,
              DeadlineLook, BeginDrain, Close, WaitJoined, Expire
<1>4. CASE ScopeAction
  BY <1>4 DEF ScopeAction, DropBoundary, FinishDrop, Panic, RecoverPoison, vars
<1> HIDE DEF HonestInv, JoinIsHonest, scope, task, handles, control
<1> QED BY <1>2, <1>3, <1>4, StepCases

\* A join that returned speaks of a task that is gone, and never passes a panic off as
\* something else (classify_task_join and the deadline path of join_until).
THEOREM JoinsAreHonest == Spec => []JoinIsHonest
<1>1. Init => HonestInv
  BY DEF Init, HonestInv, JoinIsHonest
<1>2. HonestInv => JoinIsHonest
  BY DEF HonestInv
<1> QED BY <1>1, <1>2, TypeCorrect, HonestStep, PTL DEF Spec
=============================================================================
