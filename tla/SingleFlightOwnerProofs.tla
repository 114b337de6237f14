----------------------- MODULE SingleFlightOwnerProofs -----------------------
(* Proofs about SingleFlightOwner for every set of actors and every bound on   *)
(* the revision: types, the single builder, current outcomes, no missed        *)
(* outcome, and that a shut cell stays shut.                                   *)
EXTENDS SingleFlightOwner, TLAPS

\* TypeOK in two halves: the flags, and everything else.
FlagsOK == failure \in BOOLEAN /\ accepting \in BOOLEAN /\ poisoned \in BOOLEAN
FieldsOK ==
    /\ state \in {"Closed", "Connecting", "Ready", "Failed", "Draining"}
    /\ revision \in Nat
    /\ value \in Nat \union {NoValue}
    /\ pc \in [Actors -> Labels]
    /\ attempt \in [Actors -> Nat]
    /\ \A a \in Actors : attempt[a] <= revision
    /\ seen \in SUBSET Actors

\* The flags stay Boolean.
LEMMA FlagsStep == ASSUME FlagsOK, [Next]_vars PROVE FlagsOK'
<1> USE DEF FlagsOK, cell
<1>1. CASE UNCHANGED vars
  BY <1>1 DEF vars
<1>2. CASE Panic
  BY <1>2 DEF Panic
<1>3. CASE RecoverPoison
  BY <1>3 DEF RecoverPoison
<1>4. ASSUME NEW a \in Actors, Step(a) PROVE FlagsOK'
  BY <1>4 DEF Step, Send, PublishReady, PublishBuilderFailure, FailBuild, Look, Wake
<1>5. ASSUME NEW a \in Actors, Call(a) PROVE FlagsOK'
  BY <1>5 DEF Call, BeginBuild, BeginObserve, GiveUp, BeginDrain, PrepareRetry, Close,
              Snapshot, Fail
<1> HIDE DEF FlagsOK, cell
<1> QED BY <1>1, <1>2, <1>3, <1>4, <1>5 DEF Next

\* The other fields keep their types, and no step lowers the revision.
LEMMA FieldsStep == ASSUME FieldsOK, [Next]_vars PROVE FieldsOK' /\ revision <= revision'
<1> DEFINE Goal == FieldsOK' /\ revision <= revision'
<1> USE DEF FieldsOK, Labels, Building, Observing, cell
<1>1. CASE UNCHANGED vars
  BY <1>1 DEF vars
<1>2. CASE Panic
  BY <1>2 DEF Panic
<1>3. CASE RecoverPoison
  BY <1>3 DEF RecoverPoison, Bump, SendRevision
<1>4. ASSUME NEW a \in Actors, Step(a) PROVE Goal
  <2>1. CASE Send(a)
    BY <2>1 DEF Send, GoTo, SendRevision
  <2>2. CASE PublishReady(a)
    BY <2>2 DEF PublishReady, IsCurrentBuilder, GoTo, Bump, Finish
  <2>3. CASE PublishBuilderFailure(a)
    BY <2>3 DEF PublishBuilderFailure, FailBuild, IsCurrentBuilder, GoTo, Bump, Finish
  <2>4. CASE Look(a)
    BY <2>4 DEF Look, GoTo
  <2>5. CASE Wake(a)
    BY <2>5 DEF Wake, GoTo
  <2> QED BY <1>4, <2>1, <2>2, <2>3, <2>4, <2>5 DEF Step
<1>5. ASSUME NEW a \in Actors, Call(a) PROVE Goal
  <2>1. CASE BeginBuild(a)
    BY <2>1 DEF BeginBuild, GoTo, Bump
  <2>2. CASE BeginObserve(a)
    BY <2>2 DEF BeginObserve, GoTo
  <2>3. CASE GiveUp(a)
    BY <2>3 DEF GiveUp, GoTo
  <2>4. CASE BeginDrain(a)
    BY <2>4 DEF BeginDrain, GoTo, Bump, Finish
  <2>5. CASE PrepareRetry(a)
    BY <2>5 DEF PrepareRetry, GoTo, Bump, Finish
  <2>6. CASE Close(a)
    BY <2>6 DEF Close, GoTo, Bump, Finish
  <2>7. CASE Snapshot(a)
    BY <2>7 DEF Snapshot, GoTo
  <2>8. CASE Fail(a)
    BY <2>8 DEF Fail, FailApplies, GoTo, Bump, Finish
  <2> QED BY <1>5, <2>1, <2>2, <2>3, <2>4, <2>5, <2>6, <2>7, <2>8 DEF Call
<1> HIDE DEF FieldsOK, Goal, cell
<1> QED BY <1>1, <1>2, <1>3, <1>4, <1>5 DEF Next, Goal

\* Types are preserved, and no step lowers the revision.
LEMMA TypeStep == ASSUME TypeOK, [Next]_vars PROVE TypeOK' /\ revision <= revision'
<1>1. FlagsOK /\ FieldsOK
  BY DEF TypeOK, FlagsOK, FieldsOK
<1>2. FlagsOK' /\ FieldsOK' /\ revision <= revision'
  BY <1>1, FlagsStep, FieldsStep
<1> QED BY <1>2 DEF TypeOK, FlagsOK, FieldsOK

\* The cell's fields and every caller's carried revision keep their types, and
\* nobody carries a revision the cell has not reached.
THEOREM TypeCorrect == Spec => []TypeOK
<1>1. Init => FlagsOK
  BY DEF Init, FlagsOK
<1>2. Init => FieldsOK
  BY DEF Init, FieldsOK, Labels
<1>3. Init => TypeOK
  BY <1>1, <1>2 DEF TypeOK, FlagsOK, FieldsOK
<1> QED BY <1>3, TypeStep, PTL DEF Spec

-----------------------------------------------------------------------------
\* The builder a build has stays its only one until it is over.
LEMMA BuilderStep ==
    ASSUME TypeOK, TypeOK', ConnectingHasBuilder, [Next]_vars
    PROVE  ConnectingHasBuilder'
<1> DEFINE Goal == ConnectingHasBuilder'
<1>1. /\ revision \in Nat
      /\ pc \in [Actors -> Labels]
      /\ attempt \in [Actors -> Nat]
      /\ \A b \in Actors : attempt[b] <= revision
  BY DEF TypeOK
<1> USE <1>1 DEF ConnectingHasBuilder, Building, cell
<1>2. CASE UNCHANGED vars
  BY <1>2 DEF vars
<1>3. CASE Panic
  BY <1>3 DEF Panic
<1>4. CASE RecoverPoison
  BY <1>4 DEF RecoverPoison
<1>5. ASSUME NEW a \in Actors, Step(a) PROVE Goal
  <2>1. CASE Send(a)
    BY <2>1 DEF Send, GoTo
  <2>2. CASE PublishReady(a)
    BY <2>2 DEF PublishReady, IsCurrentBuilder, GoTo, Finish
  <2>3. CASE PublishBuilderFailure(a)
    BY <2>3 DEF PublishBuilderFailure, FailBuild, IsCurrentBuilder, GoTo, Finish
  <2>4. CASE Look(a)
    BY <2>4 DEF Look, GoTo
  <2>5. CASE Wake(a)
    BY <2>5 DEF Wake, GoTo
  <2> QED BY <1>5, <2>1, <2>2, <2>3, <2>4, <2>5 DEF Step
<1>6. ASSUME NEW a \in Actors, Call(a) PROVE Goal
  <2>1. CASE BeginBuild(a)
    <3>1. /\ pc' = [pc EXCEPT ![a] = "announcing"]
          /\ attempt' = [attempt EXCEPT ![a] = revision + 1]
          /\ revision' = revision + 1
      BY <2>1 DEF BeginBuild, GoTo, Bump
    <3> QED BY <3>1
  <2>2. CASE BeginObserve(a)
    BY <2>2 DEF BeginObserve, GoTo
  <2>3. CASE GiveUp(a)
    BY <2>3 DEF GiveUp, GoTo, Observing
  <2>4. CASE BeginDrain(a)
    BY <2>4 DEF BeginDrain, GoTo, Finish
  <2>5. CASE PrepareRetry(a)
    BY <2>5 DEF PrepareRetry, GoTo, Finish
  <2>6. CASE Close(a)
    BY <2>6 DEF Close, GoTo, Finish
  <2>7. CASE Snapshot(a)
    BY <2>7 DEF Snapshot, GoTo
  <2>8. CASE Fail(a)
    BY <2>8 DEF Fail, GoTo, Finish
  <2> QED BY <1>6, <2>1, <2>2, <2>3, <2>4, <2>5, <2>6, <2>7, <2>8 DEF Call
<1> HIDE DEF ConnectingHasBuilder, Goal, cell
<1> QED BY <1>2, <1>3, <1>4, <1>5, <1>6 DEF Next, Goal

\* While the cell is Connecting exactly one live builder holds its revision: the
\* cell is never stuck, and no owner is built twice.
THEOREM BuildsHaveOneBuilder == Spec => []ConnectingHasBuilder
<1>1. Init => ConnectingHasBuilder
  BY DEF Init, ConnectingHasBuilder, Building
<1> QED BY <1>1, TypeCorrect, BuilderStep, PTL DEF Spec

-----------------------------------------------------------------------------
\* What carries OutcomeIsCurrent for observers: once the attempt an observer joined
\* is over, the revision has moved past it.
ObserversBehind ==
    \A a \in Actors : pc[a] \in Observing => state = "Connecting" \/ attempt[a] < revision

\* The three parts of OutcomeIsCurrent: the value's, the failure's, the leftover's.
ValueIsLastBuild == state = "Ready" => value = revision - 1
FailureIsThere == state = "Failed" => failure
LeftoverIsPoisoned ==
    value # NoValue => state = "Ready" \/ (state = "Failed" /\ poisoned /\ ~accepting)

\* Every step that leaves Connecting moves the revision by one.
LEMMA OutcomeStep ==
    ASSUME TypeOK, TypeOK', ValueIsLastBuild, ObserversBehind, [Next]_vars
    PROVE  ValueIsLastBuild' /\ ObserversBehind'
<1> DEFINE Goal == ValueIsLastBuild' /\ ObserversBehind'
<1>1. /\ revision \in Nat
      /\ pc \in [Actors -> Labels]
      /\ attempt \in [Actors -> Nat]
      /\ \A b \in Actors : attempt[b] <= revision
  BY DEF TypeOK
<1> USE <1>1 DEF ValueIsLastBuild, ObserversBehind, Observing, cell
<1>2. CASE UNCHANGED vars
  BY <1>2 DEF vars
<1>3. CASE Panic
  BY <1>3 DEF Panic
<1>4. CASE RecoverPoison
  BY <1>4 DEF RecoverPoison, Bump
<1>5. ASSUME NEW a \in Actors, Step(a) PROVE Goal
  <2>1. CASE Send(a)
    BY <2>1 DEF Send, GoTo
  <2>2. CASE PublishReady(a)
    BY <2>2 DEF PublishReady, IsCurrentBuilder, GoTo, Finish, Bump
  <2>3. CASE PublishBuilderFailure(a)
    BY <2>3 DEF PublishBuilderFailure, FailBuild, IsCurrentBuilder, GoTo, Finish, Bump
  <2>4. CASE Look(a)
    BY <2>4 DEF Look, GoTo
  <2>5. CASE Wake(a)
    BY <2>5 DEF Wake, GoTo
  <2> QED BY <1>5, <2>1, <2>2, <2>3, <2>4, <2>5 DEF Step
<1>6. ASSUME NEW a \in Actors, Call(a) PROVE Goal
  <2>1. CASE BeginBuild(a)
    BY <2>1 DEF BeginBuild, GoTo, Bump
  <2>2. CASE BeginObserve(a)
    BY <2>2 DEF BeginObserve, GoTo
  <2>3. CASE GiveUp(a)
    BY <2>3 DEF GiveUp, GoTo
  <2>4. CASE BeginDrain(a)
    BY <2>4 DEF BeginDrain, GoTo, Finish, Bump
  <2>5. CASE PrepareRetry(a)
    BY <2>5 DEF PrepareRetry, GoTo, Finish, Bump
  <2>6. CASE Close(a)
    BY <2>6 DEF Close, GoTo, Finish, Bump
  <2>7. CASE Snapshot(a)
    BY <2>7 DEF Snapshot, GoTo
  <2>8. CASE Fail(a)
    BY <2>8 DEF Fail, GoTo, Finish, Bump
  <2> QED BY <1>6, <2>1, <2>2, <2>3, <2>4, <2>5, <2>6, <2>7, <2>8 DEF Call
<1> HIDE DEF ValueIsLastBuild, ObserversBehind, Goal, cell
<1> QED BY <1>2, <1>3, <1>4, <1>5, <1>6 DEF Next, Goal

\* Whoever sets Failed sets the failure with it.
LEMMA FailureStep == ASSUME TypeOK, FailureIsThere, [Next]_vars PROVE FailureIsThere'
<1> USE DEF FailureIsThere, cell
<1>1. CASE UNCHANGED vars
  BY <1>1 DEF vars
<1>2. CASE Panic
  BY <1>2 DEF Panic
<1>3. CASE RecoverPoison
  BY <1>3 DEF RecoverPoison
<1>4. ASSUME NEW a \in Actors, Step(a) PROVE FailureIsThere'
  BY <1>4 DEF Step, Send, PublishReady, PublishBuilderFailure, FailBuild, Look, Wake
<1>5. ASSUME NEW a \in Actors, Call(a) PROVE FailureIsThere'
  BY <1>5 DEF Call, BeginBuild, BeginObserve, GiveUp, BeginDrain, PrepareRetry, Close,
              Snapshot, Fail
<1> HIDE DEF FailureIsThere, cell
<1> QED BY <1>1, <1>2, <1>3, <1>4, <1>5 DEF Next

\* Every exit from Ready drops the value, except the poison recovery.
LEMMA LeftoverStep == ASSUME TypeOK, LeftoverIsPoisoned, [Next]_vars PROVE LeftoverIsPoisoned'
<1> USE DEF LeftoverIsPoisoned, cell
<1>1. CASE UNCHANGED vars
  BY <1>1 DEF vars
<1>2. CASE Panic
  BY <1>2 DEF Panic
<1>3. CASE RecoverPoison
  BY <1>3 DEF RecoverPoison, Locked
<1>4. ASSUME NEW a \in Actors, Step(a) PROVE LeftoverIsPoisoned'
  BY <1>4 DEF Step, Send, PublishReady, PublishBuilderFailure, FailBuild, Look, Wake
<1>5. ASSUME NEW a \in Actors, Call(a) PROVE LeftoverIsPoisoned'
  <2>1. CASE PrepareRetry(a)
    BY <2>1 DEF PrepareRetry
  <2> QED BY <1>5, <2>1 DEF Call, BeginBuild, BeginObserve, GiveUp, BeginDrain, Close,
                            Snapshot, Fail
<1> HIDE DEF LeftoverIsPoisoned, cell
<1> QED BY <1>1, <1>2, <1>3, <1>4, <1>5 DEF Next

\* What the cell hands out is the outcome of its last build, and its unwraps cannot
\* panic.
THEOREM OutcomesAreCurrent == Spec => []OutcomeIsCurrent
<1> DEFINE Parts == ValueIsLastBuild /\ ObserversBehind /\ FailureIsThere /\ LeftoverIsPoisoned
<1>1. Init => Parts
  <2> SUFFICES ASSUME Init PROVE Parts
    OBVIOUS
  <2>1. ValueIsLastBuild /\ ObserversBehind
    BY DEF Init, ValueIsLastBuild, ObserversBehind, Observing
  <2>2. FailureIsThere /\ LeftoverIsPoisoned
    BY DEF Init, FailureIsThere, LeftoverIsPoisoned
  <2> QED BY <2>1, <2>2
<1>2. TypeOK /\ TypeOK' /\ Parts /\ [Next]_vars => Parts'
  BY OutcomeStep, FailureStep, LeftoverStep
<1>3. TypeOK /\ Parts => OutcomeIsCurrent
  <2> SUFFICES ASSUME TypeOK, Parts PROVE OutcomeIsCurrent
    OBVIOUS
  <2>1. revision \in Nat /\ \A a \in Actors : attempt[a] \in Nat
    BY DEF TypeOK
  <2>2. \A a \in Actors : state = "Ready" /\ pc[a] \in Observing => value >= attempt[a]
    BY <2>1 DEF ValueIsLastBuild, ObserversBehind
  <2> QED BY <2>2 DEF OutcomeIsCurrent, ValueIsLastBuild, FailureIsThere, LeftoverIsPoisoned
<1> QED BY <1>1, <1>2, <1>3, TypeCorrect, PTL DEF Spec

-----------------------------------------------------------------------------
\* A step either sends to every receiver, or leaves a call about to send whenever
\* it ends a build.
LEMMA OutcomeSeenStep ==
    ASSUME TypeOK, NoMissedOutcome, [Next]_vars
    PROVE  NoMissedOutcome'
<1>1. pc \in [Actors -> Labels]
  BY DEF TypeOK
<1> USE <1>1 DEF NoMissedOutcome, cell
<1>2. CASE UNCHANGED vars
  BY <1>2 DEF vars
<1>3. CASE Panic
  BY <1>3 DEF Panic
<1>4. CASE RecoverPoison
  BY <1>4 DEF RecoverPoison, SendRevision
<1>5. ASSUME NEW a \in Actors, Step(a) PROVE NoMissedOutcome'
  <2>1. CASE Send(a)
    BY <2>1 DEF Send, SendRevision
  <2>2. CASE PublishReady(a)
    BY <2>2 DEF PublishReady, GoTo, Finish
  <2>3. CASE PublishBuilderFailure(a)
    BY <2>3 DEF PublishBuilderFailure, GoTo, Finish
  <2>4. CASE Look(a)
    BY <2>4 DEF Look, GoTo
  <2>5. CASE Wake(a)
    BY <2>5 DEF Wake, GoTo
  <2> QED BY <1>5, <2>1, <2>2, <2>3, <2>4, <2>5 DEF Step
<1>6. ASSUME NEW a \in Actors, Call(a) PROVE NoMissedOutcome'
  <2>1. CASE BeginBuild(a)
    BY <2>1 DEF BeginBuild, GoTo
  <2>2. CASE BeginObserve(a)
    BY <2>2 DEF BeginObserve, GoTo
  <2>3. CASE GiveUp(a)
    BY <2>3 DEF GiveUp, GoTo, Observing
  <2>4. CASE BeginDrain(a)
    BY <2>4 DEF BeginDrain, GoTo, Finish
  <2>5. CASE PrepareRetry(a)
    BY <2>5 DEF PrepareRetry, GoTo, Finish
  <2>6. CASE Close(a)
    BY <2>6 DEF Close, GoTo, Finish
  <2>7. CASE Snapshot(a)
    BY <2>7 DEF Snapshot, GoTo
  <2>8. CASE Fail(a)
    BY <2>8 DEF Fail, GoTo, Finish
  <2> QED BY <1>6, <2>1, <2>2, <2>3, <2>4, <2>5, <2>6, <2>7, <2>8 DEF Call
<1> HIDE DEF NoMissedOutcome, cell
<1> QED BY <1>2, <1>3, <1>4, <1>5, <1>6 DEF Next

\* No observer sleeps through an outcome, although every send follows its unlock.
THEOREM OutcomesAreNotMissed == Spec => []NoMissedOutcome
<1>1. Init => NoMissedOutcome
  BY DEF Init, NoMissedOutcome
<1> QED BY <1>1, TypeCorrect, OutcomeSeenStep, PTL DEF Spec

-----------------------------------------------------------------------------
\* A cell that no longer accepts is neither building nor ready.
ShutState == ~accepting => state \notin {"Connecting", "Ready"}

\* What one step may do to a shut cell.
ShutStep ==
    ~accepting => /\ ~accepting'
                  /\ state' \notin {"Connecting", "Ready"}
                  /\ value' # value => value' = NoValue /\ state' = "Closed"

\* Each step obeys the rule for shut cells.
LEMMA ShutFacts == ASSUME ShutState, [Next]_vars PROVE ShutState' /\ ShutStep
<1> DEFINE Goal == ShutState' /\ ShutStep
<1> USE DEF ShutState, ShutStep, cell
<1>1. CASE UNCHANGED vars
  BY <1>1 DEF vars
<1>2. CASE Panic
  BY <1>2 DEF Panic
<1>3. CASE RecoverPoison
  BY <1>3 DEF RecoverPoison, Locked
<1>4. ASSUME NEW a \in Actors, Step(a) PROVE Goal
  <2>1. CASE PublishReady(a)
    BY <2>1 DEF PublishReady, IsCurrentBuilder
  <2>2. CASE PublishBuilderFailure(a)
    BY <2>2 DEF PublishBuilderFailure, FailBuild, IsCurrentBuilder
  <2> QED BY <1>4, <2>1, <2>2 DEF Step, Send, Look, Wake
<1>5. ASSUME NEW a \in Actors, Call(a) PROVE Goal
  <2>1. CASE BeginBuild(a)
    BY <2>1 DEF BeginBuild, MayElect
  <2>2. CASE Fail(a)
    BY <2>2 DEF Fail, FailApplies
  <2>3. CASE Close(a)
    BY <2>3 DEF Close
  <2>4. CASE BeginDrain(a) \/ PrepareRetry(a)
    BY <2>4 DEF BeginDrain, PrepareRetry
  <2> QED BY <1>5, <2>1, <2>2, <2>3, <2>4 DEF Call, BeginObserve, GiveUp, Snapshot
<1> HIDE DEF ShutState, ShutStep, Goal, cell
<1> QED BY <1>1, <1>2, <1>3, <1>4, <1>5 DEF Next, Goal

\* A cell that stopped accepting never builds or serves again, and keeps a poisoned
\* value until its close.
THEOREM ShutStaysShut == Spec => ShutIsFinal
<1>1. Init => ShutState
  BY DEF Init, ShutState
<1>2. ShutState /\ [Next]_vars => ShutState'
  BY ShutFacts
<1>3. Spec => []ShutState
  BY <1>1, <1>2, PTL DEF Spec
<1>4. ShutState /\ [Next]_vars => [ShutStep]_vars
  BY ShutFacts
<1>5. Spec => [][ShutStep]_vars
  BY <1>3, <1>4, PTL DEF Spec
<1> QED BY <1>5 DEF ShutIsFinal, ShutStep
=============================================================================
