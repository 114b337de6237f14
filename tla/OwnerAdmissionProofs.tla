----------------------- MODULE OwnerAdmissionProofs -----------------------
(***************************************************************************)
(* Safety of physical-owner admission for every set of callers, every       *)
(* budget and every ticket width.                                           *)
(***************************************************************************)
EXTENDS OwnerAdmission, FiniteSetTheorems, TLAPS

\* Removing one position of a sequence of waiters leaves a sequence of waiters.
LEMMA WithoutType ==
    ASSUME NEW S, NEW s \in Seq(S), NEW p \in 1 .. Len(s)
    PROVE  /\ Without(s, p) \in Seq(S)
           /\ Len(Without(s, p)) = Len(s) - 1
           /\ \A i \in 1 .. Len(s) - 1 :
                 Without(s, p)[i] = IF i < p THEN s[i] ELSE s[i + 1]
<1> DEFINE w == Without(s, p)
<1>1. Len(s) \in Nat /\ Len(s) >= 1
  OBVIOUS
<1>2. \A i \in 1 .. Len(s) - 1 : w[i] \in S
  BY <1>1 DEF Without
<1>3. w \in [1 .. Len(s) - 1 -> S]
  BY <1>1, <1>2 DEF Without
<1>4. w \in Seq(S)
  BY <1>1, <1>3
<1>5. Len(w) = Len(s) - 1
  BY <1>1, <1>3, <1>4
<1> QED
  BY <1>1, <1>4, <1>5 DEF Without

\* The next free ticket is a ticket.
LEMMA TicketAtType ==
    ASSUME TypeOK, NEW k \in Nat
    PROVE  TicketAt(k) \in 0 .. TicketSpace - 1
<1>1. next_waiter_ticket + k \in Nat
  BY DEF TypeOK
<1>2. TicketSpace \in Nat /\ TicketSpace > 0
  BY TicketAssumption
<1> QED
  BY <1>1, <1>2 DEF TicketAt

\* A charge is a positive number of bytes.
LEMMA ChargeType == \A c \in Calls : ChargeOf[c] \in Nat /\ ChargeOf[c] > 0
BY ChargeAssumption

\* Every queued entry names a call, the front one included.
LEMMA WaiterType ==
    ASSUME TypeOK
    PROVE  /\ \A i \in 1 .. Len(waiters) :
                 /\ waiters[i].call \in Calls
                 /\ waiters[i].ticket \in 0 .. TicketSpace - 1
           /\ waiters # << >> => /\ Len(waiters) >= 1
                                 /\ Head(waiters) = waiters[1]
                                 /\ Head(waiters).call \in Calls
<1>1. waiters \in Seq(Waiter)
  BY DEF TypeOK
<1>2. \A i \in 1 .. Len(waiters) : waiters[i] \in Waiter
  BY <1>1
<1>3. \A i \in 1 .. Len(waiters) : /\ waiters[i].call \in Calls
                                   /\ waiters[i].ticket \in 0 .. TicketSpace - 1
  BY <1>2 DEF Waiter
<1>4. waiters # << >> => /\ Len(waiters) \in Nat
                         /\ Len(waiters) >= 1
                         /\ Head(waiters) = waiters[1]
  BY <1>1
<1> QED
  BY <1>3, <1>4

\* Every variable keeps its type.
THEOREM TypeCorrect == Spec => []TypeOK
<1>1. Init => TypeOK
  <2> SUFFICES ASSUME Init PROVE TypeOK
    OBVIOUS
  <2>1. 0 \in 0 .. TicketSpace - 1
    BY TicketAssumption
  <2>2. waiters \in Seq(Waiter)
    BY DEF Init
  <2>3. poisoned \in BOOLEAN
    BY DEF Init
  <2> QED
    BY <2>1, <2>2, <2>3 DEF Init, TypeOK, CallPc, ControlPc
<1>2. TypeOK /\ [Next]_vars => TypeOK'
  <2> SUFFICES ASSUME TypeOK, [Next]_vars PROVE TypeOK'
    OBVIOUS
  <2> USE DEF TypeOK, CallPc, Waiting, ControlPc, DrainWaiting, mode, budget, queue, locals, controls
  <2>1. ASSUME NEW c \in Calls, CallStep(c) PROVE TypeOK'
    <3>1. CASE Subscribe(c) BY <3>1 DEF Subscribe, GoTo
    <3>2. CASE CheckRevoked(c) BY <3>2 DEF CheckRevoked, GoTo
    <3>3. CASE Evaluate(c)
      <4>1. CASE Reject(c) BY <3>3, <4>1 DEF Evaluate, Reject, GoTo
      <4>2. CASE AdmitFront(c)
        <5>1. ChargeOf[c] \in Nat
          BY ChargeType
        <5>2. Tail(waiters) \in Seq(Waiter)
          BY <4>2 DEF AdmitFront, AtFront
        <5> QED
          BY <3>3, <4>2, <5>1, <5>2, TicketAssumption
          DEF Evaluate, AdmitFront, Charge, Forget, WakeNextWaiter, GoTo
      <4>3. CASE Park(c) BY <3>3, <4>3 DEF Evaluate, Park, GoTo
      <4> QED BY <3>3, <4>1, <4>2, <4>3 DEF Evaluate
    <3>4. CASE WakeByPermit(c) BY <3>4 DEF WakeByPermit, GoTo
    <3>5. CASE WakeByStateChange(c) BY <3>5 DEF WakeByStateChange, GoTo
    <3>6. CASE WakeByRevocation(c) BY <3>6 DEF WakeByRevocation, GoTo
    <3>7. CASE DropRegistration(c)
      <4>1. waiters' \in Seq(Waiter)
        BY <3>7, WithoutType DEF DropRegistration
      <4>2. pc' \in [Calls -> CallPc]
        BY <3>7 DEF DropRegistration, WakeNextWaiter, GoTo
      <4>3. ticket' \in [Calls -> 0 .. TicketSpace - 1]
        BY <3>7, TicketAssumption DEF DropRegistration, Forget
      <4> QED
        BY <3>7, <4>1, <4>2, <4>3 DEF DropRegistration, Forget
    <3>8. CASE NotifyRelease(c) BY <3>8 DEF NotifyRelease, NotifyStateChanged, WakeNextWaiter, GoTo
    <3>9. CASE PickFront(c)
      <4>1. waiters # << >> => Head(waiters).call \in Calls
        BY WaiterType
      <4> QED
        BY <3>9, <4>1 DEF PickFront, Returned, GoTo
    <3>10. CASE NotifyOne(c) BY <3>10 DEF NotifyOne, Returned, GoTo
    <3> QED
      BY <2>1, <3>1, <3>2, <3>3, <3>4, <3>5, <3>6, <3>7, <3>8, <3>9, <3>10 DEF CallStep
  <2>2. ASSUME NEW d \in Controls, ControlStep(d) PROVE TypeOK'
    <3>1. CASE SendStateChanged(d)
      BY <3>1 DEF SendStateChanged, NotifyStateChanged, ControlGoTo
    <3>2. CASE SendAdmissionStateChanged(d)
      BY <3>2 DEF SendAdmissionStateChanged, NotifyAdmissionStateChanged, ControlGoTo
    <3>3. CASE CheckDrained(d) BY <3>3 DEF CheckDrained, ReturnDrain, ControlGoTo
    <3>4. CASE CheckDrainDeadline(d)
      BY <3>4 DEF CheckDrainDeadline, ParkDrain, ReturnDrain, ControlGoTo
    <3>5. CASE WakeDrain(d) BY <3>5 DEF WakeDrain, ControlGoTo
    <3>6. CASE DrainDeadline(d) BY <3>6 DEF DrainDeadline, ReturnDrain, ControlGoTo
    <3> QED
      BY <2>2, <3>1, <3>2, <3>3, <3>4, <3>5, <3>6 DEF ControlStep
  <2>3. CASE RecoverPoison
    <3>1. \A i \in 1 .. Len(waiters) : waiters[i].call \in Calls
      BY WaiterType
    <3>2. {waiters[i].call : i \in 1 .. Len(waiters)} \subseteq Calls
      BY <3>1
    <3> QED
      BY <2>3, <3>2 DEF RecoverPoison, NotifyStateChanged, NotifyAdmissionStateChanged
  <2>4. CASE Environment
    <3>1. ASSUME NEW c \in Calls, TryReserve(c) PROVE TypeOK'
      BY <3>1, ChargeType DEF TryReserve, Charge, GoTo
    <3>2. ASSUME NEW c \in Calls, Register(c) PROVE TypeOK'
      <4>1. CASE state = "Open" /\ ChargeOf[c] <= MaxBytes
        <5>1. PICK k \in 0 .. TicketSpace - 1 :
                /\ ticket' = [ticket EXCEPT ![c] = TicketAt(k)]
                /\ waiters' = Append(waiters, [ticket |-> TicketAt(k), call |-> c])
                /\ next_waiter_ticket' = TicketAt(k + 1)
          BY <3>2, <4>1 DEF Register
        <5>2. k \in Nat /\ k + 1 \in Nat
          BY TicketAssumption
        <5>4. TicketAt(k) \in 0 .. TicketSpace - 1
          BY <5>2, TicketAtType
        <5>5. TicketAt(k + 1) \in 0 .. TicketSpace - 1
          BY <5>2, TicketAtType
        <5>3. [ticket |-> TicketAt(k), call |-> c] \in Waiter
          BY <5>4 DEF Waiter
        <5>6. waiters' \in Seq(Waiter)
          BY <5>1, <5>3
        <5>7. ticket' \in [Calls -> 0 .. TicketSpace - 1]
          BY <5>1, <5>4
        <5> QED
          BY <3>2, <4>1, <5>1, <5>5, <5>6, <5>7 DEF Register, GoTo
      <4>2. CASE ~(state = "Open" /\ ChargeOf[c] <= MaxBytes)
        BY <3>2, <4>2 DEF Register, GoTo
      <4> QED BY <4>1, <4>2
    <3>3. ASSUME NEW c \in Calls, RefuseRevoked(c) PROVE TypeOK'
      BY <3>3 DEF RefuseRevoked, GoTo
    <3>4. ASSUME NEW c \in Calls, Abort(c) PROVE TypeOK'
      BY <3>4 DEF Abort, GoTo
    <3>5. ASSUME NEW c \in Calls, DropReservation(c) PROVE TypeOK'
      BY <3>5, ChargeType DEF DropReservation, Discharge, Monus, GoTo
    <3>6. ASSUME NEW d \in Controls, BeginDrain(d) \/ WaitDrained(d) \/ MarkClosed(d)
          PROVE TypeOK'
      BY <3>6 DEF BeginDrain, WaitDrained, MarkClosed, ControlGoTo
    <3>7. ASSUME NEW a \in Calls \union Controls, Revoke(a) PROVE TypeOK'
      BY <3>7 DEF Revoke
    <3>8. CASE Panic BY <3>8 DEF Panic
    <3> QED
      BY <2>4, <3>1, <3>2, <3>3, <3>4, <3>5, <3>6, <3>7, <3>8 DEF Environment
  <2>5. CASE UNCHANGED vars BY <2>5 DEF vars
  <2> QED BY <2>1, <2>2, <2>3, <2>4, <2>5 DEF Next
<1> QED BY <1>1, <1>2, PTL DEF Spec

-----------------------------------------------------------------------------
\* Steps that move a call or a control but leave the budget and its holders alone,
\* and put no call into or out of "holding".
LEMMA BudgetFrame ==
    ASSUME ChargesCounted, budget' = budget,
           \A c \in Calls : \/ pc'[c] = pc[c]
                            \/ pc[c] \in {"waking", "notifying"} /\ pc'[c] \in {"notifying", Returned(c)}
                            \/ c \notin holders /\ pc'[c] # "holding"
    PROVE  ChargesCounted'
BY DEF ChargesCounted, budget, Returned

\* No reservation leaks a charge, none is charged twice, and the budget holds.
THEOREM ChargesAreCounted == Spec => []ChargesCounted
<1> DEFINE Inv == ChargesCounted /\ IsFiniteSet(holders)
<1>1. Init => Inv
  BY FS_EmptySet, BudgetAssumption DEF Init, ChargesCounted
<1>2. TypeOK /\ Inv /\ [Next]_vars => Inv'
  <2> SUFFICES ASSUME TypeOK, ChargesCounted, IsFiniteSet(holders), [Next]_vars PROVE Inv'
    OBVIOUS
  <2>1. ASSUME NEW c \in Calls, Charge(c), Fits(c), c \notin holders,
               pc' = [pc EXCEPT ![c] = "holding"] \/ pc' = [pc EXCEPT ![c] = "waking"]
        PROVE  Inv'
    <3>1. /\ IsFiniteSet(holders')
          /\ Cardinality(holders') = Cardinality(holders) + 1
      BY <2>1, FS_AddElement DEF Charge
    <3> QED
      BY <2>1, <3>1, BudgetAssumption DEF Charge, Fits, CountAvailable, BytesAvailable, ChargesCounted, TypeOK
  <2>2. ASSUME NEW c \in Calls, CallStep(c) PROVE Inv'
    <3>1. CASE Evaluate(c)
      <4>1. CASE AdmitFront(c)
        <5>1. c \notin holders
          BY <3>1 DEF Evaluate, ChargesCounted
        <5> QED
          BY <2>1, <3>1, <4>1, <5>1 DEF AdmitFront, WakeNextWaiter, GoTo
      <4>2. CASE Reject(c) \/ Park(c)
        <5>1. budget' = budget
          BY <4>2 DEF Reject, Park
        <5>2. \A b \in Calls : pc'[b] = pc[b] \/ (b \notin holders /\ pc'[b] # "holding")
          BY <3>1, <4>2 DEF Evaluate, Reject, Park, GoTo, ChargesCounted, TypeOK
        <5> QED
          BY <5>1, <5>2, BudgetFrame DEF budget
      <4> QED BY <3>1, <4>1, <4>2 DEF Evaluate
    <3>2. CASE ~Evaluate(c)
      <4>1. budget' = budget
        BY <2>2, <3>2 DEF CallStep, Subscribe, CheckRevoked, WakeByPermit, WakeByStateChange,
              WakeByRevocation, DropRegistration, NotifyRelease, PickFront, NotifyOne
      <4>2. \A b \in Calls : \/ pc'[b] = pc[b]
                             \/ pc[b] \in {"waking", "notifying"} /\ pc'[b] \in {"notifying", Returned(b)}
                             \/ b \notin holders /\ pc'[b] # "holding"
        BY <2>2, <3>2 DEF CallStep, Subscribe, CheckRevoked, WakeByPermit, WakeByStateChange,
              WakeByRevocation, DropRegistration, NotifyRelease, PickFront, NotifyOne,
              GoTo, WakeNextWaiter, ChargesCounted, TypeOK
      <4> QED BY <4>1, <4>2, BudgetFrame DEF budget
    <3> QED BY <3>1, <3>2
  <2>3. ASSUME NEW d \in Controls, ControlStep(d) PROVE Inv'
    <3>1. budget' = budget /\ pc' = pc
      BY <2>3 DEF ControlStep, SendStateChanged, SendAdmissionStateChanged, CheckDrained,
            CheckDrainDeadline, WakeDrain, DrainDeadline, locals
    <3> QED BY <3>1, BudgetFrame DEF budget
  <2>4. CASE RecoverPoison
    BY <2>4, BudgetFrame DEF RecoverPoison, budget
  <2>5. CASE Environment
    <3>1. ASSUME NEW c \in Calls, TryReserve(c) PROVE Inv'
      <4>1. c \notin holders
        BY <3>1 DEF TryReserve, ChargesCounted
      <4>2. CASE state = "Open" /\ Fits(c)
        BY <2>1, <3>1, <4>1, <4>2 DEF TryReserve, GoTo
      <4>3. CASE ~(state = "Open" /\ Fits(c))
        <5>1. budget' = budget /\ pc' = [pc EXCEPT ![c] = "done"]
          BY <3>1, <4>3 DEF TryReserve, GoTo
        <5> QED BY <4>1, <5>1, BudgetFrame DEF budget, TypeOK
      <4> QED BY <4>2, <4>3
    <3>2. ASSUME NEW c \in Calls, Register(c) \/ RefuseRevoked(c) \/ Abort(c) PROVE Inv'
      <4>1. budget' = budget /\ c \notin holders
        BY <3>2 DEF Register, RefuseRevoked, Abort, ChargesCounted
      <4>2. \A b \in Calls : pc'[b] = pc[b] \/ (b \notin holders /\ pc'[b] # "holding")
        BY <3>2, <4>1 DEF Register, RefuseRevoked, Abort, GoTo, TypeOK
      <4> QED BY <4>1, <4>2, BudgetFrame DEF budget
    <3>3. ASSUME NEW c \in Calls, DropReservation(c) PROVE Inv'
      <4>1. c \in holders
        BY <3>3 DEF DropReservation, ChargesCounted
      <4>2. /\ IsFiniteSet(holders')
            /\ Cardinality(holders') = Cardinality(holders) - 1
            /\ Cardinality(holders) \in Nat
        BY <3>3, <4>1, FS_RemoveElement, FS_CardinalityType DEF DropReservation, Discharge
      <4>3. active_owners' = Cardinality(holders')
        BY <3>3, <4>2, FS_CardinalityType DEF DropReservation, Discharge, Monus, ChargesCounted
      <4>4. active_owners' <= MaxOwners /\ active_charged_bytes' <= MaxBytes
        BY <3>3, BudgetAssumption, ChargeType
        DEF DropReservation, Discharge, Monus, ChargesCounted, TypeOK
      <4>5. \A b \in Calls : /\ b \in holders' => pc'[b] \in {"holding", "waking", "notifying"}
                             /\ pc'[b] = "holding" => b \in holders'
        BY <3>3 DEF DropReservation, Discharge, GoTo, ChargesCounted, TypeOK
      <4> QED BY <4>2, <4>3, <4>4, <4>5 DEF ChargesCounted
    <3>4. CASE \/ \E d \in Controls : BeginDrain(d) \/ WaitDrained(d) \/ MarkClosed(d)
               \/ \E a \in Calls \union Controls : Revoke(a)
               \/ Panic
      <4>1. budget' = budget /\ pc' = pc
        BY <3>4 DEF BeginDrain, WaitDrained, MarkClosed, Revoke, Panic
      <4> QED BY <4>1, BudgetFrame DEF budget
    <3> QED BY <2>5, <3>1, <3>2, <3>3, <3>4 DEF Environment
  <2>6. CASE UNCHANGED vars
    BY <2>6, BudgetFrame DEF vars, budget
  <2> QED BY <2>2, <2>3, <2>4, <2>5, <2>6 DEF Next
<1> QED BY <1>1, <1>2, TypeCorrect, PTL DEF Spec

-----------------------------------------------------------------------------
\* A ticket names its waiter: the entry with a waiting call's ticket is its own.
LEMMA TicketNamesWaiter ==
    ASSUME TypeOK, RegistrationsMatch, NEW c \in Calls, pc[c] \in Waiting,
           NEW i \in 1 .. Len(waiters), waiters[i].ticket = ticket[c]
    PROVE  waiters[i].call = c
<1>1. PICK j \in 1 .. Len(waiters) : waiters[j].call = c
  BY DEF RegistrationsMatch
<1>2. waiters[j].ticket = ticket[c]
  BY <1>1 DEF RegistrationsMatch
<1>3. i = j
  BY <1>2 DEF RegistrationsMatch
<1> QED BY <1>1, <1>3

\* The caller that finds its ticket in front is the front waiter's call.
LEMMA FrontIsCaller ==
    ASSUME TypeOK, RegistrationsMatch, NEW c \in Calls, pc[c] \in Waiting, AtFront(c)
    PROVE  Len(waiters) >= 1 /\ Head(waiters) = waiters[1] /\ Head(waiters).call = c
<1>1. Len(waiters) \in Nat /\ Len(waiters) >= 1 /\ Head(waiters) = waiters[1]
  BY WaiterType DEF AtFront, TypeOK
<1>2. 1 \in 1 .. Len(waiters) /\ waiters[1].ticket = ticket[c]
  BY <1>1 DEF AtFront
<1>3. waiters[1].call = c
  BY <1>2, TicketNamesWaiter
<1> QED BY <1>1, <1>3

\* Steps that leave the queue, its tickets and who is waiting alone.
LEMMA RegistrationFrame ==
    ASSUME TypeOK, RegistrationsMatch, waiters' = waiters,
           \A c \in Calls : /\ pc'[c] \in Waiting <=> pc[c] \in Waiting
                            /\ pc[c] \in Waiting => ticket'[c] = ticket[c]
    PROVE  RegistrationsMatch'
<1>1. \A i \in 1 .. Len(waiters) : waiters[i].call \in Calls
  BY WaiterType
<1> QED BY <1>1 DEF RegistrationsMatch

\* An entry leaves the queue together with the wait of its call.
LEMMA RegistrationLeaves ==
    ASSUME TypeOK, RegistrationsMatch, NEW c \in Calls,
           NEW p \in 1 .. Len(waiters), waiters[p].call = c,
           Len(waiters') = Len(waiters) - 1,
           \A i \in 1 .. Len(waiters) - 1 :
              waiters'[i] = IF i < p THEN waiters[i] ELSE waiters[i + 1],
           pc' = [pc EXCEPT ![c] = "waking"], ticket' = [ticket EXCEPT ![c] = 0]
    PROVE  RegistrationsMatch'
<1> DEFINE n == Len(waiters)
<1>1. n \in Nat /\ n >= 1 /\ p \in Nat /\ p >= 1 /\ p <= n
  BY DEF TypeOK
<1>2. /\ Len(waiters') = n - 1
      /\ \A i \in 1 .. n - 1 : waiters'[i] = IF i < p THEN waiters[i] ELSE waiters[i + 1]
  OBVIOUS
<1> HIDE DEF n
<1>3. \A i \in 1 .. n : waiters[i].call \in Calls
  BY WaiterType DEF n
<1>4. \A i \in 1 .. n : waiters[i].call = c => i = p
  BY <1>1 DEF RegistrationsMatch, n
<1>5. ASSUME NEW i \in 1 .. n - 1
      PROVE  \E k \in 1 .. n : k # p /\ waiters'[i] = waiters[k]
                              /\ (i < p => k = i) /\ (~(i < p) => k = i + 1)
  <2>1. i \in Nat /\ i \in 1 .. n /\ i + 1 \in 1 .. n
    BY <1>1
  <2>2. CASE i < p
    BY <1>1, <1>2, <2>1, <2>2
  <2>3. CASE ~(i < p)
    BY <1>1, <1>2, <2>1, <2>3
  <2> QED BY <2>2, <2>3
<1>6. \A i \in 1 .. Len(waiters') : /\ pc'[waiters'[i].call] \in Waiting
                                    /\ ticket'[waiters'[i].call] = waiters'[i].ticket
  <2> SUFFICES ASSUME NEW i \in 1 .. n - 1
               PROVE  /\ pc'[waiters'[i].call] \in Waiting
                      /\ ticket'[waiters'[i].call] = waiters'[i].ticket
    BY <1>2
  <2>1. PICK k \in 1 .. n : k # p /\ waiters'[i] = waiters[k]
    BY <1>5
  <2>2. waiters[k].call # c /\ waiters[k].call \in Calls
    BY <1>3, <1>4, <2>1
  <2> QED BY <2>1, <2>2 DEF RegistrationsMatch, TypeOK, n
<1>7. ASSUME NEW d \in Calls, pc'[d] \in Waiting
      PROVE  \E i \in 1 .. Len(waiters') : waiters'[i].call = d
  <2>1. d # c /\ pc[d] \in Waiting
    BY <1>7 DEF TypeOK, Waiting
  <2>2. PICK j \in 1 .. n : waiters[j].call = d
    BY <2>1 DEF RegistrationsMatch, n
  <2>3. j # p
    BY <2>1, <2>2
  <2>4. CASE j < p
    <3>1. j \in 1 .. n - 1
      BY <1>1, <2>4
    <3> QED BY <1>2, <2>2, <2>4, <3>1
  <2>5. CASE j > p
    <3>1. j - 1 \in 1 .. n - 1 /\ ~(j - 1 < p) /\ (j - 1) + 1 = j
      BY <1>1, <2>5
    <3>2. waiters'[j - 1] = waiters[j]
      BY <1>2, <3>1
    <3> QED BY <1>2, <2>2, <3>1, <3>2
  <2> QED BY <1>1, <2>3, <2>4, <2>5
<1>8. \A i, j \in 1 .. Len(waiters') : waiters'[i].ticket = waiters'[j].ticket => i = j
  <2> SUFFICES ASSUME NEW i \in 1 .. n - 1, NEW j \in 1 .. n - 1,
                      waiters'[i].ticket = waiters'[j].ticket
               PROVE  i = j
    BY <1>2
  <2>1. PICK k \in 1 .. n : /\ waiters'[i] = waiters[k] /\ (i < p => k = i)
                            /\ (~(i < p) => k = i + 1)
    BY <1>5
  <2>2. PICK l \in 1 .. n : /\ waiters'[j] = waiters[l] /\ (j < p => l = j)
                            /\ (~(j < p) => l = j + 1)
    BY <1>5
  <2>3. k = l
    BY <2>1, <2>2 DEF RegistrationsMatch, n
  <2> QED BY <1>1, <2>1, <2>2, <2>3
<1> QED BY <1>6, <1>7, <1>8 DEF RegistrationsMatch

\* An idle call joins the queue at its end, under a ticket nobody queued has.
LEMMA RegistrationJoins ==
    ASSUME TypeOK, RegistrationsMatch, NEW c \in Calls, pc[c] = "idle",
           NEW t, ~TicketInUse(t),
           waiters' = Append(waiters, [ticket |-> t, call |-> c]),
           pc' = [pc EXCEPT ![c] = "registered"], ticket' = [ticket EXCEPT ![c] = t]
    PROVE  RegistrationsMatch'
<1> DEFINE n == Len(waiters)
           e == [ticket |-> t, call |-> c]
<1>1. n \in Nat
  BY DEF TypeOK
<1>2. e.ticket = t /\ e.call = c
  OBVIOUS
<1> HIDE DEF e
<1>3. /\ Len(waiters') = n + 1
      /\ \A i \in 1 .. n : waiters'[i] = waiters[i]
      /\ waiters'[n + 1] = e
  BY DEF TypeOK, e
<1>4. \A i \in 1 .. n : waiters[i].call \in Calls /\ waiters[i].call # c
  BY WaiterType DEF RegistrationsMatch, Waiting
<1>5. \A i \in 1 .. n : waiters[i].ticket # t
  BY DEF TicketInUse
<1> HIDE DEF n
<1>6. \A i \in 1 .. Len(waiters') : /\ pc'[waiters'[i].call] \in Waiting
                                    /\ ticket'[waiters'[i].call] = waiters'[i].ticket
  <2> SUFFICES ASSUME NEW i \in 1 .. n + 1
               PROVE  /\ pc'[waiters'[i].call] \in Waiting
                      /\ ticket'[waiters'[i].call] = waiters'[i].ticket
    BY <1>3
  <2>1. CASE i \in 1 .. n
    BY <2>1, <1>3, <1>4 DEF RegistrationsMatch, TypeOK, n
  <2>2. CASE i = n + 1
    BY <2>2, <1>2, <1>3 DEF TypeOK, Waiting
  <2>3. i \in 1 .. n \/ i = n + 1
    BY <1>1
  <2> QED BY <2>1, <2>2, <2>3
<1>7. ASSUME NEW d \in Calls, pc'[d] \in Waiting
      PROVE  \E i \in 1 .. Len(waiters') : waiters'[i].call = d
  <2>1. CASE d = c
    BY <2>1, <1>1, <1>2, <1>3
  <2>2. CASE d # c
    <3>1. PICK i \in 1 .. n : waiters[i].call = d
      BY <1>7, <2>2 DEF RegistrationsMatch, TypeOK, n
    <3>2. i \in 1 .. n + 1
      BY <1>1
    <3> QED BY <3>1, <3>2, <1>3
  <2> QED BY <2>1, <2>2
<1>8. \A i, j \in 1 .. Len(waiters') : waiters'[i].ticket = waiters'[j].ticket => i = j
  <2> SUFFICES ASSUME NEW i \in 1 .. n + 1, NEW j \in 1 .. n + 1,
                      waiters'[i].ticket = waiters'[j].ticket
               PROVE  i = j
    BY <1>3
  <2>1. CASE i \in 1 .. n /\ j \in 1 .. n
    BY <2>1, <1>3 DEF RegistrationsMatch, n
  <2>2. CASE i = n + 1 \/ j = n + 1
    BY <2>2, <1>1, <1>2, <1>3, <1>5
  <2> QED BY <1>1, <2>1, <2>2
<1> QED BY <1>6, <1>7, <1>8 DEF RegistrationsMatch

\* No exit from reserve_until leaks its registration, and tickets stay unique.
THEOREM RegistrationsHold == Spec => []RegistrationsMatch
<1>1. Init => RegistrationsMatch
  BY DEF Init, RegistrationsMatch, Waiting
<1>2. TypeOK /\ RegistrationsMatch /\ [Next]_vars => RegistrationsMatch'
  <2> SUFFICES ASSUME TypeOK, RegistrationsMatch, [Next]_vars PROVE RegistrationsMatch'
    OBVIOUS
  <2>1. ASSUME NEW c \in Calls, CallStep(c) PROVE RegistrationsMatch'
    <3>1. CASE Evaluate(c) /\ AdmitFront(c)
      <4>1. pc[c] \in Waiting /\ AtFront(c)
        BY <3>1 DEF Evaluate, AdmitFront, Waiting
      <4>2. Len(waiters) >= 1 /\ waiters[1].call = c
        BY <4>1, FrontIsCaller
      <4>3. /\ 1 \in 1 .. Len(waiters)
            /\ Len(Tail(waiters)) = Len(waiters) - 1
            /\ \A i \in 1 .. Len(waiters) - 1 :
                  Tail(waiters)[i] = IF i < 1 THEN waiters[i] ELSE waiters[i + 1]
        BY <4>2 DEF TypeOK
      <4> QED
        BY <3>1, <4>2, <4>3, RegistrationLeaves
        DEF AdmitFront, Forget, WakeNextWaiter, GoTo
    <3>2. CASE DropRegistration(c)
      <4>1. pc[c] \in Waiting
        BY <3>2 DEF DropRegistration, Waiting
      <4>2. TicketInUse(ticket[c])
        BY <4>1 DEF RegistrationsMatch, TicketInUse
      <4>3. PICK p \in 1 .. Len(waiters) :
              /\ waiters[p].ticket = ticket[c]
              /\ waiters' = Without(waiters, p)
              /\ pc' = [pc EXCEPT ![c] = "waking"]
        BY <3>2, <4>2 DEF DropRegistration, IsPositionOf, WakeNextWaiter, GoTo
      <4>4. waiters[p].call = c
        BY <4>1, <4>3, TicketNamesWaiter
      <4>5. /\ Len(waiters') = Len(waiters) - 1
            /\ \A i \in 1 .. Len(waiters) - 1 :
                  waiters'[i] = IF i < p THEN waiters[i] ELSE waiters[i + 1]
        BY <4>3, WithoutType DEF TypeOK
      <4> QED
        BY <3>2, <4>3, <4>4, <4>5, RegistrationLeaves DEF DropRegistration, Forget
    <3>3. CASE ~DropRegistration(c) /\ ~(Evaluate(c) /\ AdmitFront(c))
      <4>1. waiters' = waiters /\ ticket' = ticket
        BY <2>1, <3>3 DEF CallStep, Subscribe, CheckRevoked, Evaluate, Reject, Park,
              WakeByPermit, WakeByStateChange, WakeByRevocation, NotifyRelease,
              PickFront, NotifyOne, queue, locals
      <4>2. \A b \in Calls : pc'[b] \in Waiting <=> pc[b] \in Waiting
        BY <2>1, <3>3 DEF CallStep, Subscribe, CheckRevoked, Evaluate, Reject, Park,
              WakeByPermit, WakeByStateChange, WakeByRevocation, NotifyRelease,
              PickFront, NotifyOne, Returned, WakeNextWaiter, GoTo, Waiting, TypeOK
      <4> QED BY <4>1, <4>2, RegistrationFrame
    <3> QED BY <3>1, <3>2, <3>3
  <2>2. ASSUME NEW d \in Controls, ControlStep(d) PROVE RegistrationsMatch'
    <3>1. waiters' = waiters /\ pc' = pc /\ ticket' = ticket
      BY <2>2 DEF ControlStep, SendStateChanged, SendAdmissionStateChanged, CheckDrained,
            CheckDrainDeadline, WakeDrain, DrainDeadline, queue, locals
    <3> QED BY <3>1, RegistrationFrame
  <2>3. CASE RecoverPoison
    BY <2>3, RegistrationFrame DEF RecoverPoison, queue
  <2>4. CASE Environment
    <3>1. ASSUME NEW c \in Calls, Register(c) PROVE RegistrationsMatch'
      <4>1. CASE state = "Open" /\ ChargeOf[c] <= MaxBytes
        <5>1. PICK k \in 0 .. TicketSpace - 1 :
                /\ ~TicketInUse(TicketAt(k))
                /\ ticket' = [ticket EXCEPT ![c] = TicketAt(k)]
                /\ waiters' = Append(waiters, [ticket |-> TicketAt(k), call |-> c])
          BY <3>1, <4>1 DEF Register, IsNextTicket
        <5> QED BY <3>1, <4>1, <5>1, RegistrationJoins DEF Register, GoTo
      <4>2. CASE ~(state = "Open" /\ ChargeOf[c] <= MaxBytes)
        <5>1. waiters' = waiters /\ ticket' = ticket /\ pc[c] = "idle"
              /\ pc' = [pc EXCEPT ![c] = "done"]
          BY <3>1, <4>2 DEF Register, GoTo, queue
        <5> QED BY <5>1, RegistrationFrame DEF Waiting, TypeOK
      <4> QED BY <4>1, <4>2
    <3>2. ASSUME NEW c \in Calls,
                 TryReserve(c) \/ RefuseRevoked(c) \/ Abort(c) \/ DropReservation(c)
          PROVE RegistrationsMatch'
      <4>1. waiters' = waiters /\ ticket' = ticket
        BY <3>2 DEF TryReserve, RefuseRevoked, Abort, DropReservation, queue, locals
      <4>2. \A b \in Calls : pc'[b] \in Waiting <=> pc[b] \in Waiting
        BY <3>2 DEF TryReserve, RefuseRevoked, Abort, DropReservation, GoTo, Waiting, TypeOK
      <4> QED BY <4>1, <4>2, RegistrationFrame
    <3>3. CASE \/ \E d \in Controls : BeginDrain(d) \/ WaitDrained(d) \/ MarkClosed(d)
               \/ \E a \in Calls \union Controls : Revoke(a)
               \/ Panic
      <4>1. waiters' = waiters /\ pc' = pc /\ ticket' = ticket
        BY <3>3 DEF BeginDrain, WaitDrained, MarkClosed, Revoke, Panic, queue, locals
      <4> QED BY <4>1, RegistrationFrame
    <3> QED BY <2>4, <3>1, <3>2, <3>3 DEF Environment
  <2>5. CASE UNCHANGED vars
    BY <2>5, RegistrationFrame DEF vars, queue, locals
  <2> QED BY <2>1, <2>2, <2>3, <2>4, <2>5 DEF Next
<1> QED BY <1>1, <1>2, TypeCorrect, PTL DEF Spec

-----------------------------------------------------------------------------
Waker == {"released", "waking", "notifying"}

\* A step of a call that owes nobody a wake-up, does not go to sleep on a request
\* that fits, and gives nothing back to the budget loses no wake-up.
LEMMA WakeFrame ==
    ASSUME TypeOK, NoLostWakeup, NEW c \in Calls, NEW l \in CallPc,
           pc[c] \notin Waker, pc' = [pc EXCEPT ![c] = l],
           waiters' = waiters, target' = target, state' = state,
           \A b \in Calls : b # c /\ b \in permit => b \in permit',
           \A b \in Calls : Fits(b)' => Fits(b),
           waiters # << >> /\ Head(waiters).call = c /\ l = "parked" => ~Fits(c)
    PROVE  NoLostWakeup'
<1> SUFFICES ASSUME state = "Open", waiters # << >>,
                    pc'[Head(waiters).call] = "parked", Fits(Head(waiters).call)'
             PROVE  Head(waiters).call \in permit' \/ WakePending'
  BY DEF NoLostWakeup
<1> DEFINE h == Head(waiters).call
<1>1. h \in Calls
  BY WaiterType
<1> HIDE DEF h
<1>2. Fits(h)
  BY <1>1 DEF h
<1>3. h # c
  BY <1>2 DEF TypeOK, h
<1>4. pc[h] = "parked"
  BY <1>1, <1>3 DEF TypeOK, h
<1>5. h \in permit \/ WakePending
  BY <1>2, <1>4 DEF NoLostWakeup, h
<1>6. ASSUME WakePending PROVE WakePending'
  BY <1>6 DEF WakePending, Waker, TypeOK
<1> QED BY <1>1, <1>3, <1>5, <1>6 DEF h

\* Nobody sleeps in front of a budget that has room for it: the wake-ups sent after
\* the unlock reach whoever is in front by then, or somebody else owes one.
THEOREM WakeupsAreNotLost == Spec => []NoLostWakeup
<1>1. Init => NoLostWakeup
  BY DEF Init, NoLostWakeup
<1>2. TypeOK /\ RegistrationsMatch /\ NoLostWakeup /\ [Next]_vars => NoLostWakeup'
  <2> SUFFICES ASSUME TypeOK, RegistrationsMatch, NoLostWakeup, [Next]_vars
               PROVE  NoLostWakeup'
    OBVIOUS
  <2>1. ASSUME NEW c \in Calls, pc' = [pc EXCEPT ![c] = "released"] \/ pc' = [pc EXCEPT ![c] = "waking"]
        PROVE  NoLostWakeup'
    <3>1. pc'[c] \in {"released", "waking"}
      BY <2>1 DEF TypeOK
    <3> QED BY <3>1 DEF NoLostWakeup, WakePending
  <2>2. ASSUME budget' = budget, NEW b \in Calls, Fits(b)' PROVE Fits(b)
    BY <2>2 DEF budget, Fits, CountAvailable, BytesAvailable
  <2>3. ASSUME NEW c \in Calls, CallStep(c) PROVE NoLostWakeup'
    <3>1. CASE Subscribe(c) \/ CheckRevoked(c) \/ WakeByPermit(c)
               \/ WakeByStateChange(c) \/ WakeByRevocation(c)
      <4>1. PICK l \in {"loop", "evaluate", "dropping"} : pc' = [pc EXCEPT ![c] = l]
        BY <3>1 DEF Subscribe, CheckRevoked, WakeByPermit, WakeByStateChange,
              WakeByRevocation, GoTo
      <4>2. pc[c] \notin Waker /\ l # "parked" /\ l \in CallPc
        BY <3>1 DEF Subscribe, CheckRevoked, WakeByPermit, WakeByStateChange,
              WakeByRevocation, Waker, CallPc, Waiting
      <4>3. /\ waiters' = waiters /\ target' = target /\ state' = state /\ budget' = budget
            /\ \A b \in Calls : b # c /\ b \in permit => b \in permit'
        BY <3>1 DEF Subscribe, CheckRevoked, WakeByPermit, WakeByStateChange,
              WakeByRevocation, queue, mode, locals
      <4> QED BY <4>1, <4>2, <4>3, <2>2, WakeFrame
    <3>2. CASE Evaluate(c) /\ (Reject(c) \/ Park(c))
      <4>1. PICK l \in {"dropping", "parked"} : /\ pc' = [pc EXCEPT ![c] = l]
                                                /\ l = "parked" => ~(AtFront(c) /\ Fits(c))
        BY <3>2 DEF Reject, Park, GoTo
      <4>2. pc[c] \notin Waker /\ pc[c] \in Waiting /\ l \in CallPc
        BY <3>2 DEF Evaluate, Waker, CallPc, Waiting
      <4>3. /\ waiters' = waiters /\ target' = target /\ state' = state /\ budget' = budget
            /\ permit' = permit
        BY <3>2 DEF Evaluate, Reject, Park, mode, locals
      <4>4. waiters # << >> /\ Head(waiters).call = c => AtFront(c)
        <5>1. waiters # << >> => 1 \in 1 .. Len(waiters) /\ Head(waiters) = waiters[1]
          BY WaiterType DEF TypeOK
        <5> QED BY <5>1 DEF AtFront, RegistrationsMatch
      <4> QED BY <4>1, <4>2, <4>3, <4>4, <2>2, WakeFrame
    <3>3. CASE Evaluate(c) /\ AdmitFront(c)
      BY <3>3, <2>1 DEF AdmitFront, WakeNextWaiter, GoTo
    <3>4. CASE DropRegistration(c)
      <4>1. TicketInUse(ticket[c])
        BY <3>4 DEF DropRegistration, Waiting, RegistrationsMatch, TicketInUse
      <4> QED BY <3>4, <4>1, <2>1 DEF DropRegistration, WakeNextWaiter, GoTo
    <3>5. CASE NotifyRelease(c)
      BY <3>5, <2>1 DEF NotifyRelease, WakeNextWaiter, GoTo
    <3>6. CASE PickFront(c)
      <4>1. CASE waiters # << >>
        <5>1. waiters' = waiters /\ pc'[c] = "notifying" /\ target'[c] = Head(waiters).call
          BY <3>6, <4>1 DEF PickFront, GoTo, queue, TypeOK
        <5> QED BY <5>1 DEF NoLostWakeup, WakePending
      <4>2. CASE waiters = << >>
        BY <3>6, <4>2 DEF PickFront, queue, NoLostWakeup
      <4> QED BY <4>1, <4>2
    <3>7. CASE NotifyOne(c)
      <4> SUFFICES ASSUME state = "Open", waiters # << >>,
                          pc'[Head(waiters).call] = "parked", Fits(Head(waiters).call)
                   PROVE  Head(waiters).call \in permit' \/ WakePending'
        BY <3>7 DEF NotifyOne, NoLostWakeup, queue, mode, budget, Fits, CountAvailable,
              BytesAvailable
      <4> DEFINE h == Head(waiters).call
      <4>1. h \in Calls
        BY WaiterType
      <4> HIDE DEF h
      <4>2. h # c
        BY <3>7 DEF NotifyOne, Returned, GoTo, TypeOK, h
      <4>3. pc[h] = "parked"
        BY <3>7, <4>1, <4>2 DEF NotifyOne, GoTo, TypeOK, h
      <4>4. h \in permit \/ WakePending
        BY <4>3 DEF NoLostWakeup, h
      <4>5. CASE h \in permit
        BY <3>7, <4>5 DEF NotifyOne, h
      <4>6. CASE target[c] = h
        BY <3>7, <4>1, <4>3, <4>6 DEF NotifyOne, Waiting, h
      <4>7. CASE WakePending /\ target[c] # h
        <5>1. PICK w \in Calls : \/ pc[w] \in {"released", "waking"}
                                 \/ pc[w] = "notifying" /\ target[w] = h
          BY <4>7 DEF WakePending, h
        <5>2. w # c
          BY <3>7, <4>7, <5>1 DEF NotifyOne
        <5>3. pc'[w] = pc[w] /\ target'[w] = target[w] /\ waiters' = waiters
          BY <3>7, <5>2 DEF NotifyOne, GoTo, TypeOK, queue
        <5> QED BY <5>1, <5>3 DEF WakePending, h
      <4> QED BY <4>4, <4>5, <4>6, <4>7
    <3> QED
      BY <2>3, <3>1, <3>2, <3>3, <3>4, <3>5, <3>6, <3>7 DEF CallStep, Evaluate
  <2>4. ASSUME waiters' = waiters, target' = target, pc' = pc, budget' = budget,
               state' = "Open" => state = "Open", permit \subseteq permit'
        PROVE  NoLostWakeup'
    BY <2>4 DEF NoLostWakeup, WakePending, budget, Fits, CountAvailable, BytesAvailable
  <2>5. ASSUME NEW d \in Controls, ControlStep(d) PROVE NoLostWakeup'
    BY <2>4, <2>5 DEF ControlStep, SendStateChanged, SendAdmissionStateChanged, CheckDrained,
          CheckDrainDeadline, WakeDrain, DrainDeadline, mode, queue, locals
  <2>6. CASE RecoverPoison
    BY <2>4, <2>6 DEF RecoverPoison, queue
  <2>7. CASE Environment
    <3>1. ASSUME NEW c \in Calls, TryReserve(c) \/ RefuseRevoked(c) \/ Abort(c)
          PROVE  NoLostWakeup'
      <4>1. PICK l \in {"holding", "done", "dropping"} : pc' = [pc EXCEPT ![c] = l]
        BY <3>1 DEF TryReserve, RefuseRevoked, Abort, GoTo
      <4>2. pc[c] \notin Waker /\ l # "parked" /\ l \in CallPc
        BY <3>1 DEF TryReserve, RefuseRevoked, Abort, Waker, CallPc, Waiting
      <4>3. /\ waiters' = waiters /\ target' = target /\ state' = state
            /\ permit' = permit
        BY <3>1 DEF TryReserve, RefuseRevoked, Abort, mode, queue, locals
      <4>4. ASSUME NEW b \in Calls, Fits(b)' PROVE Fits(b)
        <5>1. CASE Charge(c)
          BY <4>4, <5>1, ChargeType, BudgetAssumption
          DEF Charge, Fits, CountAvailable, BytesAvailable, TypeOK
        <5>2. CASE budget' = budget
          BY <4>4, <5>2, <2>2
        <5> QED BY <3>1, <5>1, <5>2 DEF TryReserve, RefuseRevoked, Abort
      <4> QED BY <4>1, <4>2, <4>3, <4>4, WakeFrame
    <3>2. ASSUME NEW c \in Calls, Register(c) PROVE NoLostWakeup'
      <4>1. CASE state = "Open" /\ ChargeOf[c] <= MaxBytes
        <5>0. PICK k \in 0 .. TicketSpace - 1 :
                waiters' = Append(waiters, [ticket |-> TicketAt(k), call |-> c])
          BY <3>2, <4>1 DEF Register
        <5> DEFINE e == [ticket |-> TicketAt(k), call |-> c]
        <5>1. waiters' = Append(waiters, e) /\ e.call = c
          BY <5>0
        <5> HIDE DEF e
        <5>2. waiters # << >> => Head(waiters') = Head(waiters)
          <6> SUFFICES ASSUME waiters # << >> PROVE Head(waiters') = Head(waiters)
            OBVIOUS
          <6>1. waiters \in Seq(Waiter \union {e}) /\ e \in Waiter \union {e}
            BY DEF TypeOK
          <6>2. Len(waiters) >= 1 /\ Len(waiters) \in Nat
            BY WaiterType DEF TypeOK
          <6>3. Append(waiters, e)[1] = waiters[1] /\ Append(waiters, e) # << >>
            BY <6>1, <6>2
          <6> QED BY <5>1, <6>1, <6>2, <6>3
        <5>3. waiters = << >> => Head(waiters').call = c
          BY <5>1 DEF TypeOK
        <5>4. /\ pc[c] = "idle" /\ pc' = [pc EXCEPT ![c] = "registered"]
              /\ target' = target /\ state' = state /\ budget' = budget /\ permit' = permit
          BY <3>2, <4>1 DEF Register, GoTo, mode
        <5>5. CASE waiters = << >>
          BY <5>3, <5>4, <5>5 DEF NoLostWakeup, TypeOK
        <5>6. CASE waiters # << >>
          <6> DEFINE h == Head(waiters).call
          <6>0. 1 \in 1 .. Len(waiters) /\ h = waiters[1].call /\ h \in Calls
            BY <5>6, WaiterType DEF TypeOK
          <6>1. h \in Calls /\ pc[h] # "idle"
            BY <6>0 DEF RegistrationsMatch, Waiting
          <6>2. pc'[h] = pc[h] /\ Head(waiters').call = h
            BY <5>2, <5>4, <5>6, <6>1 DEF TypeOK
          <6>3. WakePending => WakePending'
            BY <5>4, <6>2 DEF WakePending, TypeOK
          <6> QED
            BY <5>2, <5>4, <5>6, <6>2, <6>3
            DEF NoLostWakeup, budget, Fits, CountAvailable, BytesAvailable
        <5> QED BY <5>5, <5>6
      <4>2. CASE ~(state = "Open" /\ ChargeOf[c] <= MaxBytes)
        <5>1. /\ pc[c] \notin Waker /\ pc' = [pc EXCEPT ![c] = "done"]
              /\ waiters' = waiters /\ target' = target /\ state' = state /\ budget' = budget
              /\ permit' = permit /\ "done" \in CallPc
          BY <3>2, <4>2 DEF Register, GoTo, Waker, queue, mode, CallPc
        <5> QED BY <5>1, <2>2, WakeFrame
      <4> QED BY <4>1, <4>2
    <3>3. ASSUME NEW c \in Calls, DropReservation(c) PROVE NoLostWakeup'
      BY <3>3, <2>1 DEF DropReservation, GoTo
    <3>4. CASE \/ \E d \in Controls : BeginDrain(d) \/ WaitDrained(d) \/ MarkClosed(d)
               \/ \E a \in Calls \union Controls : Revoke(a)
               \/ Panic
      BY <3>4, <2>4 DEF BeginDrain, WaitDrained, MarkClosed, Revoke, Panic, queue, locals, mode
    <3> QED BY <2>7, <3>1, <3>2, <3>3, <3>4 DEF Environment
  <2>8. CASE UNCHANGED vars
    BY <2>4, <2>8 DEF vars, queue, locals, mode
  <2> QED BY <2>3, <2>5, <2>6, <2>7, <2>8 DEF Next
<1> QED BY <1>1, <1>2, TypeCorrect, RegistrationsHold, PTL DEF Spec

-----------------------------------------------------------------------------
(* The drain protocol.  StepFacts collects what a single step may do to the     *)
(* mode, the reservations and the notifications; every action satisfies it.     *)

CallFacts(c) ==
    /\ pc'[c] = "parked" =>
          \/ state = "Open"
          \/ /\ pc[c] = "parked"
             /\ c \in permit => c \in permit'
             /\ c \in stateSeen' => c \in stateSeen
    /\ pc[c] = "released" => pc'[c] = "released" \/ drainSeen' = {}

ControlFacts(d) ==
    /\ cpc[d] = "notifyState" => cpc'[d] = "notifyState"
                                 \/ (cpc'[d] = "notifyAdmission" /\ drainSeen' = {})
    /\ cpc[d] = "notifyAdmission" => cpc'[d] = "notifyAdmission" \/ stateSeen' = {}
    /\ cpc'[d] \in {"drainDeadline", "drainParked"} =>
          /\ d \in drainSeen' => d \in drainSeen
          /\ \/ cpc[d] \in {"drainDeadline", "drainParked"}
             \/ state # "Open" /\ active_owners' # 0
    /\ cpc'[d] = "drained" =>
          \/ cpc[d] = "drained"
          \/ /\ state # "Open" \/ cpc[d] = "drainParked"
             /\ active_owners = 0 /\ holders' = holders

StepFacts ==
    /\ state # "Open" => state' # "Open" /\ holders' \subseteq holders
    /\ state # "Closed" /\ state' = "Closed" => active_owners = 0 /\ holders' = holders
    /\ state = "Open" /\ state' # "Open" =>
          (\E d \in Controls : cpc'[d] = "notifyState") \/ stateSeen' = {}
    /\ active_owners # 0 /\ active_owners' = 0 => \E c \in Calls : pc'[c] = "released"
    /\ \A c \in Calls : CallFacts(c)
    /\ \A d \in Controls : ControlFacts(d)

\* Every step obeys the facts the drain invariants rest on.
LEMMA StepsObeyFacts == TypeOK /\ [Next]_vars => StepFacts
<1> SUFFICES ASSUME TypeOK, [Next]_vars PROVE StepFacts
  OBVIOUS
<1> USE DEF StepFacts, CallFacts, ControlFacts, TypeOK, mode, budget, queue, locals, controls
<1>1. ASSUME NEW c \in Calls, CallStep(c) PROVE StepFacts
  <2>1. CASE Subscribe(c) BY <2>1 DEF Subscribe, GoTo
  <2>2. CASE CheckRevoked(c) BY <2>2 DEF CheckRevoked, GoTo
  <2>3. CASE Evaluate(c)
    <3>1. CASE Reject(c) BY <2>3, <3>1 DEF Evaluate, Reject, GoTo
    <3>2. CASE AdmitFront(c)
      BY <2>3, <3>2 DEF Evaluate, AdmitFront, Charge, Forget, WakeNextWaiter, GoTo
    <3>3. CASE Park(c) BY <2>3, <3>3 DEF Evaluate, Park, GoTo
    <3> QED BY <2>3, <3>1, <3>2, <3>3 DEF Evaluate
  <2>4. CASE WakeByPermit(c) BY <2>4 DEF WakeByPermit, GoTo
  <2>5. CASE WakeByStateChange(c) BY <2>5 DEF WakeByStateChange, GoTo
  <2>6. CASE WakeByRevocation(c) BY <2>6 DEF WakeByRevocation, GoTo
  <2>7. CASE DropRegistration(c)
    <3>1. PICK l \in {"waking", "done"} : pc' = [pc EXCEPT ![c] = l]
      BY <2>7 DEF DropRegistration, WakeNextWaiter, GoTo
    <3>2. pc[c] = "dropping" /\ Forget(c) /\ UNCHANGED <<mode, budget, controls>>
      BY <2>7 DEF DropRegistration
    <3> QED BY <3>1, <3>2 DEF Forget
  <2>8. CASE NotifyRelease(c)
    BY <2>8 DEF NotifyRelease, NotifyStateChanged, WakeNextWaiter, GoTo
  <2>9. CASE PickFront(c) BY <2>9 DEF PickFront, Returned, GoTo
  <2>10. CASE NotifyOne(c) BY <2>10 DEF NotifyOne, Returned, GoTo
  <2> QED
    BY <1>1, <2>1, <2>2, <2>3, <2>4, <2>5, <2>6, <2>7, <2>8, <2>9, <2>10 DEF CallStep
<1>2. ASSUME NEW d \in Controls, ControlStep(d) PROVE StepFacts
  <2>1. CASE SendStateChanged(d)
    BY <2>1 DEF SendStateChanged, NotifyStateChanged, ControlGoTo
  <2>2. CASE SendAdmissionStateChanged(d)
    BY <2>2 DEF SendAdmissionStateChanged, NotifyAdmissionStateChanged, ControlGoTo
  <2>3. CASE CheckDrained(d) BY <2>3 DEF CheckDrained, ReturnDrain, ControlGoTo
  <2>4. CASE CheckDrainDeadline(d)
    BY <2>4 DEF CheckDrainDeadline, ParkDrain, ReturnDrain, ControlGoTo
  <2>5. CASE WakeDrain(d) BY <2>5 DEF WakeDrain, ControlGoTo
  <2>6. CASE DrainDeadline(d) BY <2>6 DEF DrainDeadline, ReturnDrain, ControlGoTo
  <2> QED BY <1>2, <2>1, <2>2, <2>3, <2>4, <2>5, <2>6 DEF ControlStep
<1>3. CASE RecoverPoison
  BY <1>3 DEF RecoverPoison, NotifyStateChanged, NotifyAdmissionStateChanged, NeedsRecovery
<1>4. CASE Environment
  <2>1. ASSUME NEW c \in Calls, TryReserve(c) PROVE StepFacts
    BY <2>1 DEF TryReserve, Charge, GoTo
  <2>2. ASSUME NEW c \in Calls, Register(c) PROVE StepFacts
    <3>1. /\ \E l \in {"registered", "done"} : pc' = [pc EXCEPT ![c] = l]
          /\ UNCHANGED <<mode, budget, permit, stateSeen, controls>>
          /\ pc[c] = "idle"
      BY <2>2 DEF Register, GoTo
    <3> QED BY <3>1
  <2>3. ASSUME NEW c \in Calls, RefuseRevoked(c) PROVE StepFacts
    BY <2>3 DEF RefuseRevoked, GoTo
  <2>4. ASSUME NEW c \in Calls, Abort(c) PROVE StepFacts
    BY <2>4 DEF Abort, GoTo
  <2>5. ASSUME NEW c \in Calls, DropReservation(c) PROVE StepFacts
    BY <2>5 DEF DropReservation, Discharge, GoTo
  <2>6. ASSUME NEW d \in Controls, BeginDrain(d) PROVE StepFacts
    BY <2>6 DEF BeginDrain, Startable, ControlGoTo
  <2>7. ASSUME NEW d \in Controls, WaitDrained(d) PROVE StepFacts
    BY <2>7 DEF WaitDrained, Startable, ControlGoTo
  <2>8. ASSUME NEW d \in Controls, MarkClosed(d) PROVE StepFacts
    BY <2>8 DEF MarkClosed, Startable, ControlGoTo
  <2>9. ASSUME NEW a \in Calls \union Controls, Revoke(a) PROVE StepFacts
    BY <2>9 DEF Revoke
  <2>10. CASE Panic BY <2>10 DEF Panic
  <2> QED
    BY <1>4, <2>1, <2>2, <2>3, <2>4, <2>5, <2>6, <2>7, <2>8, <2>9, <2>10 DEF Environment
<1>5. CASE UNCHANGED vars BY <1>5 DEF vars
<1> QED BY <1>1, <1>2, <1>3, <1>4, <1>5 DEF Next

\* A wait_drained that returned Ok, and a close, stay true for ever.
THEOREM DrainIsFinal == Spec => []DrainedIsFinal
<1>1. Init => DrainedIsFinal
  BY DEF Init, DrainedIsFinal
<1>2. TypeOK /\ ChargesCounted /\ DrainedIsFinal /\ [Next]_vars => DrainedIsFinal'
  <2> SUFFICES ASSUME TypeOK, ChargesCounted, DrainedIsFinal, [Next]_vars
               PROVE  DrainedIsFinal'
    OBVIOUS
  <2>1. StepFacts
    BY StepsObeyFacts
  <2>2. active_owners = 0 => holders = {}
    BY FS_EmptySet DEF ChargesCounted
  <2>3. \A d \in Controls : cpc'[d] \in {"drainDeadline", "drainParked"} => state' # "Open"
    BY <2>1 DEF StepFacts, ControlFacts, DrainedIsFinal
  <2>4. state' = "Closed" => holders' = {}
    BY <2>1, <2>2 DEF StepFacts, DrainedIsFinal
  <2>5. \A d \in Controls : cpc'[d] = "drained" => state' # "Open" /\ holders' = {}
    BY <2>1, <2>2 DEF StepFacts, ControlFacts, DrainedIsFinal
  <2> QED BY <2>3, <2>4, <2>5 DEF DrainedIsFinal
<1> QED BY <1>1, <1>2, TypeCorrect, ChargesAreCounted, PTL DEF Spec

\* No parked waiter sleeps through the end of admission.
THEOREM DrainsAreNotMissed == Spec => []NoMissedDrain
<1>1. Init => NoMissedDrain
  BY DEF Init, NoMissedDrain
<1>2. TypeOK /\ NoMissedDrain /\ [Next]_vars => NoMissedDrain'
  <2> SUFFICES ASSUME TypeOK, NoMissedDrain, [Next]_vars,
                      NEW c \in Calls, state' # "Open", pc'[c] = "parked"
               PROVE  \/ c \notin stateSeen'
                      \/ c \in permit'
                      \/ \E d \in Controls : cpc'[d] \in {"notifyState", "notifyAdmission"}
    BY DEF NoMissedDrain
  <2>1. StepFacts
    BY StepsObeyFacts
  <2>2. CASE state = "Open"
    BY <2>1, <2>2 DEF StepFacts
  <2>3. CASE state # "Open"
    <3>1. /\ pc[c] = "parked"
          /\ c \in permit => c \in permit'
          /\ c \in stateSeen' => c \in stateSeen
      BY <2>1, <2>3 DEF StepFacts, CallFacts
    <3>2. CASE c \notin stateSeen \/ c \in permit
      BY <3>1, <3>2
    <3>3. CASE \E d \in Controls : cpc[d] \in {"notifyState", "notifyAdmission"}
      <4>1. PICK d \in Controls : cpc[d] \in {"notifyState", "notifyAdmission"}
        BY <3>3
      <4>2. ControlFacts(d)
        BY <2>1 DEF StepFacts
      <4> QED BY <4>1, <4>2 DEF ControlFacts
    <3> QED BY <2>3, <3>1, <3>2, <3>3 DEF NoMissedDrain
  <2> QED BY <2>2, <2>3
<1> QED BY <1>1, <1>2, TypeCorrect, PTL DEF Spec

\* No wait_drained sleeps through the last release.
THEOREM LastReleaseIsNotMissed == Spec => []NoMissedLastRelease
<1>1. Init => NoMissedLastRelease
  BY DEF Init, NoMissedLastRelease
<1>2. TypeOK /\ DrainedIsFinal /\ NoMissedLastRelease /\ [Next]_vars => NoMissedLastRelease'
  <2> SUFFICES ASSUME TypeOK, DrainedIsFinal, NoMissedLastRelease, [Next]_vars,
                      NEW d \in Controls, state' # "Open", active_owners' = 0,
                      cpc'[d] \in {"drainDeadline", "drainParked"}
               PROVE  \/ d \notin drainSeen'
                      \/ \E c \in Calls : pc'[c] = "released"
                      \/ \E e \in Controls : cpc'[e] = "notifyState"
    BY DEF NoMissedLastRelease
  <2>1. StepFacts
    BY StepsObeyFacts
  <2>2. /\ d \in drainSeen' => d \in drainSeen
        /\ cpc[d] \in {"drainDeadline", "drainParked"}
    BY <2>1 DEF StepFacts, ControlFacts
  <2>3. state # "Open"
    BY <2>2 DEF DrainedIsFinal
  <2>4. CASE active_owners # 0
    BY <2>1, <2>4 DEF StepFacts
  <2>5. CASE active_owners = 0
    <3>1. \/ d \notin drainSeen
          \/ \E c \in Calls : pc[c] = "released"
          \/ \E e \in Controls : cpc[e] = "notifyState"
      BY <2>2, <2>3, <2>5 DEF NoMissedLastRelease
    <3> QED BY <2>1, <2>2, <3>1 DEF StepFacts, CallFacts, ControlFacts
  <2> QED BY <2>4, <2>5
<1> QED BY <1>1, <1>2, TypeCorrect, DrainIsFinal, PTL DEF Spec

\* Waiters enter the budget in the order in which they registered.
THEOREM WaitersAreAdmittedInOrder == Spec => AdmittedInOrder
<1> DEFINE Step == \A c \in Calls :
                     pc[c] \in Waiting /\ c \in holders' \ holders => c = Head(waiters).call
<1>1. TypeOK /\ RegistrationsMatch /\ [Next]_vars => [Step]_vars
  <2> SUFFICES ASSUME TypeOK, RegistrationsMatch, [Next]_vars,
                      NEW c \in Calls, pc[c] \in Waiting, c \in holders', c \notin holders
               PROVE  c = Head(waiters).call
    OBVIOUS
  <2>1. ASSUME NEW b \in Calls, CallStep(b) PROVE b = c /\ Evaluate(c) /\ AdmitFront(c)
    BY <2>1 DEF CallStep, Subscribe, CheckRevoked, Evaluate, Reject, AdmitFront, Park, Charge,
          WakeByPermit, WakeByStateChange, WakeByRevocation, DropRegistration,
          NotifyRelease, PickFront, NotifyOne, budget
  <2>2. ASSUME NEW d \in Controls, ControlStep(d) PROVE FALSE
    BY <2>2 DEF ControlStep, SendStateChanged, SendAdmissionStateChanged, CheckDrained,
          CheckDrainDeadline, WakeDrain, DrainDeadline, budget
  <2>3. CASE RecoverPoison BY <2>3 DEF RecoverPoison, budget
  <2>4. CASE Environment
    <3>1. ASSUME NEW b \in Calls, TryReserve(b) PROVE FALSE
      <4>1. holders' \subseteq holders \union {b} /\ pc[b] = "idle"
        BY <3>1 DEF TryReserve, Charge, budget
      <4> QED BY <4>1 DEF Waiting
    <3>2. ASSUME NEW b \in Calls,
                 Register(b) \/ RefuseRevoked(b) \/ Abort(b) \/ DropReservation(b)
          PROVE  FALSE
      BY <3>2 DEF Register, RefuseRevoked, Abort, DropReservation, Discharge, budget
    <3>3. ASSUME NEW d \in Controls, BeginDrain(d) \/ WaitDrained(d) \/ MarkClosed(d)
          PROVE  FALSE
      BY <3>3 DEF BeginDrain, WaitDrained, MarkClosed, budget
    <3>4. ASSUME NEW a \in Calls \union Controls, Revoke(a) PROVE FALSE
      BY <3>4 DEF Revoke, budget
    <3>5. CASE Panic BY <3>5 DEF Panic, budget
    <3> QED BY <2>4, <3>1, <3>2, <3>3, <3>4, <3>5 DEF Environment
  <2>5. CASE UNCHANGED vars BY <2>5 DEF vars, budget
  <2>6. Evaluate(c) /\ AdmitFront(c) => c = Head(waiters).call
    BY FrontIsCaller DEF AdmitFront
  <2> QED BY <2>1, <2>2, <2>3, <2>4, <2>5, <2>6 DEF Next
<1> QED BY <1>1, TypeCorrect, RegistrationsHold, PTL DEF Spec, AdmittedInOrder
-----------------------------------------------------------------------------
(* Refinement of AdmissionPool. *)

\* The live charges fit side by side into the charged bytes: off places each of them.
Packing(off) ==
    /\ off \in [Calls -> Nat]
    /\ \A c \in holders : off[c] + ChargeOf[c] <= active_charged_bytes
    /\ \A c, d \in holders :
          c # d => off[c] + ChargeOf[c] <= off[d] \/ off[d] + ChargeOf[d] <= off[c]

\* The charged bytes cover the live charges together, so that no release saturates.
ChargesCovered == \E off : Packing(off)

\* What a step can do to the state and the budget.
Granted(c) == c \notin holders /\ state = "Open" /\ Fits(c) /\ Charge(c) /\ UNCHANGED state
Released(c) == c \in holders /\ Discharge(c) /\ UNCHANGED state
BudgetStep ==
    \/ UNCHANGED <<state, budget>>
    \/ \E c \in Calls : Granted(c) \/ Released(c)
    \/ state = "Open" /\ state' = "Draining" /\ UNCHANGED budget
    \/ state = "Draining" /\ state' = "Closed" /\ active_owners = 0 /\ UNCHANGED budget

\* Every step grants, releases, drains, closes or leaves the budget alone.
LEMMA BudgetSteps == ChargesCounted /\ [Next]_vars => BudgetStep
<1> SUFFICES ASSUME ChargesCounted, [Next]_vars PROVE BudgetStep
  OBVIOUS
<1> USE DEF BudgetStep, mode, budget
<1>1. ASSUME NEW c \in Calls, CallStep(c) PROVE BudgetStep
  <2>1. CASE Evaluate(c)
    <3>1. CASE AdmitFront(c)
      <4>1. c \notin holders
        BY <2>1 DEF Evaluate, ChargesCounted
      <4> QED BY <2>1, <3>1, <4>1 DEF Evaluate, AdmitFront, Granted
    <3>2. CASE Reject(c) \/ Park(c)
      BY <2>1, <3>2 DEF Evaluate, Reject, Park
    <3> QED BY <2>1, <3>1, <3>2 DEF Evaluate
  <2>2. CASE ~Evaluate(c)
    BY <1>1, <2>2 DEF CallStep, Subscribe, CheckRevoked, WakeByPermit, WakeByStateChange,
          WakeByRevocation, DropRegistration, NotifyRelease, PickFront, NotifyOne
  <2> QED BY <2>1, <2>2
<1>2. ASSUME NEW d \in Controls, ControlStep(d) PROVE BudgetStep
  BY <1>2 DEF ControlStep, SendStateChanged, SendAdmissionStateChanged, CheckDrained,
        CheckDrainDeadline, WakeDrain, DrainDeadline
<1>3. CASE RecoverPoison
  BY <1>3 DEF RecoverPoison, NeedsRecovery
<1>4. CASE Environment
  <2>1. ASSUME NEW c \in Calls, TryReserve(c) PROVE BudgetStep
    <3>1. c \notin holders
      BY <2>1 DEF TryReserve, ChargesCounted
    <3> QED BY <2>1, <3>1 DEF TryReserve, Granted
  <2>2. ASSUME NEW c \in Calls, Register(c) \/ RefuseRevoked(c) \/ Abort(c) PROVE BudgetStep
    BY <2>2 DEF Register, RefuseRevoked, Abort
  <2>3. ASSUME NEW c \in Calls, DropReservation(c) PROVE BudgetStep
    BY <2>3 DEF DropReservation, Released, ChargesCounted
  <2>4. ASSUME NEW d \in Controls, BeginDrain(d) \/ WaitDrained(d) \/ MarkClosed(d) PROVE BudgetStep
    BY <2>4 DEF BeginDrain, WaitDrained, MarkClosed
  <2>5. CASE (\E a \in Calls \union Controls : Revoke(a)) \/ Panic
    BY <2>5 DEF Revoke, Panic
  <2> QED BY <1>4, <2>1, <2>2, <2>3, <2>4, <2>5 DEF Environment
<1>5. CASE UNCHANGED vars BY <1>5 DEF vars
<1> QED BY <1>1, <1>2, <1>3, <1>4, <1>5 DEF Next

\* A new charge is placed behind all others.
LEMMA PackOneMore ==
    ASSUME TypeOK, NEW off, Packing(off), NEW c \in Calls, Granted(c),
           NEW end \in Nat, end = active_charged_bytes
    PROVE  Packing([off EXCEPT ![c] = end])'
<1> USE ChargeType DEF Packing, Granted, Charge, TypeOK
<1> DEFINE new == [off EXCEPT ![c] = end]
<1>1. new \in [Calls -> Nat] /\ \A d \in Calls : new[d] = IF d = c THEN end ELSE off[d]
  OBVIOUS
<1> HIDE DEF new
<1>2. ASSUME NEW d \in holders' PROVE new[d] + ChargeOf[d] <= active_charged_bytes'
  BY <1>1
<1>3. ASSUME NEW d \in holders', NEW e \in holders', d # e
      PROVE  new[d] + ChargeOf[d] <= new[e] \/ new[e] + ChargeOf[e] <= new[d]
  BY <1>1, <1>3
<1>4. Packing(new)'
  BY <1>1, <1>2, <1>3
<1> QED BY <1>4 DEF new

\* When a charge goes, those behind it move up.
LEMMA PackOneLess ==
    ASSUME TypeOK, NEW off, Packing(off), NEW c \in Calls, Released(c)
    PROVE  /\ active_charged_bytes' = active_charged_bytes - ChargeOf[c]
           /\ ChargesCovered'
<1> USE ChargeType DEF Packing, Released, Discharge, TypeOK
<1> DEFINE new == [d \in Calls |-> IF off[d] > off[c] /\ off[d] >= ChargeOf[c] THEN off[d] - ChargeOf[c] ELSE off[d]]
<1>1. active_charged_bytes >= ChargeOf[c]
  OBVIOUS
<1>2. active_charged_bytes' = active_charged_bytes - ChargeOf[c]
  BY <1>1 DEF Monus
<1>3. new \in [Calls -> Nat]
  OBVIOUS
<1>4. holders' \subseteq Calls /\ holders' = holders \ {c}
  OBVIOUS
<1>5. ASSUME NEW d \in holders'
      PROVE  /\ off[c] + ChargeOf[c] <= off[d] \/ off[d] + ChargeOf[d] <= off[c]
             /\ off[d] \in Nat /\ off[c] \in Nat /\ ChargeOf[d] \in Nat \ {0} /\ ChargeOf[c] \in Nat \ {0}
             /\ off[d] + ChargeOf[d] <= active_charged_bytes
             /\ off[c] + ChargeOf[c] <= active_charged_bytes
  BY <1>4
<1>6. ASSUME NEW d \in holders'
      PROVE  new[d] = IF off[d] > off[c] /\ off[d] >= ChargeOf[c] THEN off[d] - ChargeOf[c] ELSE off[d]
  BY <1>4
<1> HIDE DEF new
<1>7. ASSUME NEW d \in holders' PROVE new[d] + ChargeOf[d] <= active_charged_bytes'
  <2>1. new[d] = IF off[d] > off[c] /\ off[d] >= ChargeOf[c] THEN off[d] - ChargeOf[c] ELSE off[d]
    BY <1>6
  <2>2. /\ off[c] + ChargeOf[c] <= off[d] \/ off[d] + ChargeOf[d] <= off[c]
        /\ off[d] \in Nat /\ off[c] \in Nat /\ ChargeOf[d] \in Nat \ {0} /\ ChargeOf[c] \in Nat \ {0}
        /\ off[d] + ChargeOf[d] <= active_charged_bytes
        /\ off[c] + ChargeOf[c] <= active_charged_bytes
    BY <1>5
  <2>3. active_charged_bytes \in Nat
    OBVIOUS
  <2> QED BY ONLY <1>2, <2>1, <2>2, <2>3
<1>8. ASSUME NEW d \in holders', NEW e \in holders', d # e
      PROVE  new[d] + ChargeOf[d] <= new[e] \/ new[e] + ChargeOf[e] <= new[d]
  <2>1. off[d] + ChargeOf[d] <= off[e] \/ off[e] + ChargeOf[e] <= off[d]
    BY <1>4, <1>8
  <2>2. new[d] = IF off[d] > off[c] /\ off[d] >= ChargeOf[c] THEN off[d] - ChargeOf[c] ELSE off[d]
    BY <1>6
  <2>3. new[e] = IF off[e] > off[c] /\ off[e] >= ChargeOf[c] THEN off[e] - ChargeOf[c] ELSE off[e]
    BY <1>6
  <2>4. /\ off[c] + ChargeOf[c] <= off[d] \/ off[d] + ChargeOf[d] <= off[c]
        /\ off[d] \in Nat /\ off[c] \in Nat /\ ChargeOf[d] \in Nat \ {0} /\ ChargeOf[c] \in Nat \ {0}
    BY <1>5
  <2>5. /\ off[c] + ChargeOf[c] <= off[e] \/ off[e] + ChargeOf[e] <= off[c]
        /\ off[e] \in Nat /\ ChargeOf[e] \in Nat \ {0}
    BY <1>5
  <2> QED BY ONLY <2>1, <2>2, <2>3, <2>4, <2>5
<1>9. Packing(new)'
  BY <1>3, <1>7, <1>8
<1> QED BY <1>2, <1>9 DEF ChargesCovered

\* The charged bytes always cover the live charges together: the saturating subtraction of a
\* release never saturates (Drop of OwnerReservation).
THEOREM ChargesAreCovered == Spec => []ChargesCovered
<1>1. Init => ChargesCovered
  <2> SUFFICES ASSUME Init PROVE Packing([c \in Calls |-> 0])
    BY DEF ChargesCovered
  <2> QED BY DEF Init, Packing
<1>2. TypeOK /\ ChargesCounted /\ ChargesCovered /\ [Next]_vars => ChargesCovered'
  <2> SUFFICES ASSUME TypeOK, ChargesCounted, ChargesCovered, [Next]_vars PROVE ChargesCovered'
    OBVIOUS
  <2>1. PICK off : Packing(off)
    BY DEF ChargesCovered
  <2>2. ASSUME UNCHANGED budget PROVE ChargesCovered'
    <3>1. Packing(off)'
      BY <2>1, <2>2 DEF Packing, budget
    <3> QED BY <3>1 DEF ChargesCovered
  <2>3. ASSUME NEW c \in Calls, Granted(c) PROVE ChargesCovered'
    BY <2>1, <2>3, PackOneMore DEF ChargesCovered, TypeOK
  <2>4. ASSUME NEW c \in Calls, Released(c) PROVE ChargesCovered'
    BY <2>1, <2>4, PackOneLess
  <2>5. BudgetStep
    BY BudgetSteps
  <2> QED BY <2>2, <2>3, <2>4, <2>5 DEF BudgetStep
<1> QED BY <1>1, <1>2, TypeCorrect, ChargesAreCounted, PTL DEF Spec

\* Admission implements the pool: every step is a grant, a release, a drain or a close of the
\* pool, or leaves it alone, and each release gives back exactly what was charged.
THEOREM AdmissionImplementsPool == Spec => ImplementsPool
<1>1. Init => Pool!Init
  BY DEF Init, Pool!Init
<1>2. TypeOK /\ ChargesCounted /\ ChargesCovered /\ [Next]_vars => [Pool!Next]_(Pool!poolVars)
  <2> SUFFICES ASSUME TypeOK, ChargesCounted, ChargesCovered, [Next]_vars
               PROVE  [Pool!Next]_(Pool!poolVars)
    OBVIOUS
  <2>1. ASSUME NEW c \in Calls, Granted(c) PROVE Pool!Grant(c)
    <3>1. /\ state = "Open" /\ state' = "Open" /\ c \notin holders
          /\ active_owners < MaxOwners /\ active_charged_bytes + ChargeOf[c] <= MaxBytes
          /\ holders' = holders \union {c}
          /\ active_charged_bytes' = active_charged_bytes + ChargeOf[c]
      BY <2>1 DEF Granted, Charge, Fits, CountAvailable, BytesAvailable
    <3>2. Cardinality(holders) < MaxOwners
      BY <3>1 DEF ChargesCounted
    <3>3. Pool!Cardinality(holders) = Cardinality(holders)
      BY DEF Pool!Cardinality, Cardinality
    <3> QED BY <3>1, <3>2, <3>3 DEF Pool!Grant
  <2>2. ASSUME NEW c \in Calls, Released(c) PROVE Pool!Release(c)
    <3>1. active_charged_bytes' = active_charged_bytes - ChargeOf[c]
      BY <2>2, PackOneLess DEF ChargesCovered
    <3> QED BY <2>2, <3>1 DEF Released, Discharge, Pool!Release
  <2>3. CASE state = "Draining" /\ state' = "Closed" /\ active_owners = 0 /\ UNCHANGED budget
    <3>1. holders = {}
      BY <2>3, FS_EmptySet DEF ChargesCounted
    <3> QED BY <2>3, <3>1 DEF budget, Pool!Next, Pool!Close
  <2>4. CASE state = "Open" /\ state' = "Draining" /\ UNCHANGED budget
    BY <2>4 DEF budget, Pool!Next, Pool!Drain
  <2>5. CASE UNCHANGED <<state, budget>>
    BY <2>5 DEF budget, Pool!poolVars
  <2>6. BudgetStep
    BY BudgetSteps
  <2> QED BY <2>1, <2>2, <2>3, <2>4, <2>5, <2>6 DEF BudgetStep, Pool!Next
<1> QED BY <1>1, <1>2, TypeCorrect, ChargesAreCounted, ChargesAreCovered, PTL
        DEF Spec, ImplementsPool, Pool!Spec
=============================================================================
