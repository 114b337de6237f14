--------------------------- MODULE OwnerAdmission ---------------------------
(***************************************************************************)
(* PhysicalOwnerAdmission (dae-runtime-control, physical_owner/admission.rs *)
(* and the OwnerReservation of admission/admitted_owner.rs): a counting and *)
(* byte budget shared by concurrent callers, with a barging fast path       *)
(* (try_reserve), a FIFO slow path (reserve_until) whose waiters are woken   *)
(* one at a time through a Notify each, a drain / close protocol, and        *)
(* recovery of the counters' mutex after a panic.                           *)
(*                                                                         *)
(* One atomic step is one critical section of the counters' mutex, or one   *)
(* notification sent after the mutex was released: every place where the    *)
(* code unlocks and then notifies is two steps here.  A call is one          *)
(* invocation of try_reserve or reserve_until together with the reservation  *)
(* it may return, so a call's name also stands for its Arc<Notify>.          *)
(*                                                                         *)
(* Left out: drain and close reasons (carried in errors, never read) and the *)
(* metric counters (high water, cumulative, rejected: written, never read).  *)
(***************************************************************************)
EXTENDS Integers, Sequences, FiniteSets

CONSTANTS Calls,        \* invocations of try_reserve / reserve_until
          Controls,     \* callers of begin_drain, wait_drained and mark_closed
          ChargeOf,     \* ChargedOwnerBytes of each call
          MaxOwners,    \* budget.max_active_owners
          MaxBytes,     \* budget.max_charged_bytes
          TicketSpace,  \* tickets wrap modulo this (2^64 in the code)
          NoCall        \* no waiter to wake

ASSUME BudgetAssumption == MaxOwners \in Nat \ {0} /\ MaxBytes \in Nat \ {0}
ASSUME ChargeAssumption == ChargeOf \in [Calls -> Nat \ {0}]
ASSUME TicketAssumption == TicketSpace \in Nat \ {0}
ASSUME NoCallAssumption == NoCall \notin Calls

VARIABLES
    state,                 \* OwnerAdmissionCounters.state
    active_owners,         \* OwnerAdmissionCounters.active_owners
    active_charged_bytes,  \* OwnerAdmissionCounters.active_charged_bytes
    next_waiter_ticket,    \* OwnerAdmissionCounters.next_waiter_ticket
    waiters,               \* OwnerAdmissionCounters.waiters, front first
    poisoned,              \* a thread panicked while it held the mutex
    holders,               \* calls whose charge is live
    pc,                    \* where each call is
    ticket,                \* OwnerAdmissionWaitRegistration.ticket
    permit,                \* calls whose Notify holds an unconsumed permit
    target,                \* the Notify a call cloned and will notify next
    stateSeen,             \* calls with no unseen admission_state_changed
    revoked,               \* calls and controls past deadline or cancelled
    cpc,                   \* where each control invocation is
    drainSeen              \* controls with no unseen state_changed

mode == <<state, poisoned>>
budget == <<active_owners, active_charged_bytes, holders>>
queue == <<waiters, next_waiter_ticket>>
locals == <<ticket, permit, stateSeen, revoked>>
controls == <<cpc, drainSeen>>
vars == <<mode, budget, queue, locals, pc, target, controls>>

Waiter == [ticket : 0 .. TicketSpace - 1, call : Calls]

\* Registered in the queue: between push_back and pop_front or the Drop.
Waiting == {"registered", "loop", "evaluate", "parked", "dropping"}
\* Holds a receiver of admission_state_changed that it will still read.
Subscribed == {"loop", "evaluate", "parked"}

CallPc == Waiting \union {"idle", "holding", "released", "waking", "notifying", "done"}
DrainWaiting == {"drainLoop", "drainDeadline", "drainParked"}
ControlPc == DrainWaiting \union
             {"idle", "notifyState", "notifyAdmission", "drained"}

\* Types; every ticket is inside the ticket space, the counters never go negative.
TypeOK ==
    /\ state \in {"Open", "Draining", "Closed"}
    /\ active_owners \in Nat
    /\ active_charged_bytes \in Nat
    /\ next_waiter_ticket \in 0 .. TicketSpace - 1
    /\ waiters \in Seq(Waiter)
    /\ poisoned \in BOOLEAN
    /\ holders \in SUBSET Calls
    /\ pc \in [Calls -> CallPc]
    /\ ticket \in [Calls -> 0 .. TicketSpace - 1]
    /\ permit \in SUBSET Calls
    /\ target \in [Calls -> Calls \union {NoCall}]
    /\ stateSeen \in SUBSET Calls
    /\ revoked \in SUBSET (Calls \union Controls)
    /\ cpc \in [Controls -> ControlPc]
    /\ drainSeen \in SUBSET Controls

Init ==
    /\ state = "Open"
    /\ active_owners = 0
    /\ active_charged_bytes = 0
    /\ next_waiter_ticket = 0
    /\ waiters = << >>
    /\ poisoned = FALSE
    /\ holders = {}
    /\ pc = [c \in Calls |-> "idle"]
    /\ ticket = [c \in Calls |-> 0]
    /\ permit = {}
    /\ target = [c \in Calls |-> NoCall]
    /\ stateSeen = {}
    /\ revoked = {}
    /\ cpc = [d \in Controls |-> "idle"]
    /\ drainSeen = {}

-----------------------------------------------------------------------------
(* The mutex and the notifications. *)

\* The next lock_counters() will find the mutex poisoned and quarantine.
NeedsRecovery == poisoned /\ state = "Open"

\* Guard of every critical section: the recovery, when due, comes first.
Locked == ~NeedsRecovery

GoTo(c, label) == pc' = [pc EXCEPT ![c] = label]

\* The locals of reserve_until end with its wait: ticket, Notify, receiver, deadline.
Forget(c) ==
    /\ ticket' = [ticket EXCEPT ![c] = 0]
    /\ permit' = permit \ {c}
    /\ stateSeen' = stateSeen \ {c}
    /\ revoked' = revoked \ {c}

ControlGoTo(d, label) == cpc' = [cpc EXCEPT ![d] = label]

\* Defect: receivers are not told of a new version.
SilentStateChanged == UNCHANGED drainSeen
SilentAdmissionStateChanged == UNCHANGED stateSeen

\* notify_state_changed(state_changed): only wait_drained subscribes to it.
NotifyStateChanged == drainSeen' = {}
\* notify_state_changed(admission_state_changed): only waiters subscribe.
NotifyAdmissionStateChanged == stateSeen' = {}

\* Defect: an exit from the queue wakes nobody.
WakeNobody(c) == GoTo(c, IF pc[c] = "evaluate" THEN "holding" ELSE "done")

\* The call goes on to wake_next_waiter.
WakeNextWaiter(c) == GoTo(c, "waking")

\* lock_counters on a poisoned mutex: quarantine admission, wake every waiter
\* and notify both channels, all under the lock; live charges are kept.
RecoverPoison ==
    /\ NeedsRecovery
    /\ state' = "Draining"
    /\ permit' = permit \union {waiters[i].call : i \in 1 .. Len(waiters)}
    /\ NotifyStateChanged
    /\ NotifyAdmissionStateChanged
    /\ UNCHANGED <<budget, queue, poisoned, pc, ticket, target, revoked, cpc>>

\* A thread panics while it holds the mutex.
Panic ==
    /\ ~poisoned
    /\ poisoned' = TRUE
    /\ UNCHANGED <<budget, queue, locals, state, pc, target, controls>>

\* A deadline elapses or a cancellation signal is raised.
Revoke(a) ==
    /\ a \notin revoked
    /\ \/ a \in Calls /\ pc[a] \in {"idle", "registered", "loop", "evaluate", "parked"}
       \/ a \in Controls /\ cpc[a] \in DrainWaiting
    /\ revoked' = revoked \union {a}
    /\ UNCHANGED <<mode, budget, queue, pc, ticket, permit, target, stateSeen, controls>>

-----------------------------------------------------------------------------
(* Admission: try_reserve and reserve_until. *)

\* Defect: the bytes are compared before the request is added.
BytesAvailableBefore(c) == active_charged_bytes <= MaxBytes

CountAvailable == active_owners < MaxOwners
BytesAvailable(c) == active_charged_bytes + ChargeOf[c] <= MaxBytes
Fits(c) == CountAvailable /\ BytesAvailable(c)

Charge(c) ==
    /\ active_owners' = active_owners + 1
    /\ active_charged_bytes' = active_charged_bytes + ChargeOf[c]
    /\ holders' = holders \union {c}

\* try_reserve: no queue, so it may overtake registered waiters.
TryReserve(c) ==
    /\ pc[c] = "idle"
    /\ c \notin revoked
    /\ Locked
    /\ \/ /\ state = "Open" /\ Fits(c)
          /\ Charge(c)
          /\ GoTo(c, "holding")
       \/ /\ ~(state = "Open" /\ Fits(c))
          /\ GoTo(c, "done")
          /\ UNCHANGED budget
    /\ UNCHANGED <<mode, queue, locals, target, controls>>

\* A call whose deadline or cancellation check fails before it touches anything.
RefuseRevoked(c) ==
    /\ pc[c] = "idle"
    /\ c \in revoked
    /\ GoTo(c, "done")
    /\ revoked' = revoked \ {c}
    /\ UNCHANGED <<mode, budget, queue, ticket, permit, target, stateSeen, controls>>

TicketInUse(t) == \E i \in 1 .. Len(waiters) : waiters[i].ticket = t

\* next_waiter_ticket: the first ticket, from the counter on, nobody queued has.
TicketAt(k) == (next_waiter_ticket + k) % TicketSpace
IsNextTicket(k) ==
    /\ ~TicketInUse(TicketAt(k))
    /\ \A j \in 0 .. k - 1 : TicketInUse(TicketAt(j))

\* reserve_until up to its registration in the queue.
Register(c) ==
    /\ pc[c] = "idle"
    /\ c \notin revoked
    /\ Locked
    /\ \/ /\ state = "Open" /\ ChargeOf[c] <= MaxBytes
          /\ \E k \in 0 .. TicketSpace - 1 :
                /\ IsNextTicket(k)
                /\ ticket' = [ticket EXCEPT ![c] = TicketAt(k)]
                /\ waiters' = Append(waiters, [ticket |-> TicketAt(k), call |-> c])
                /\ next_waiter_ticket' = TicketAt(k + 1)
          /\ GoTo(c, "registered")
       \/ /\ ~(state = "Open" /\ ChargeOf[c] <= MaxBytes)
          /\ GoTo(c, "done")
          /\ UNCHANGED <<queue, ticket>>
    /\ UNCHANGED <<mode, budget, permit, target, stateSeen, revoked, controls>>

\* Subscribing to admission_state_changed, outside the lock.
Subscribe(c) ==
    /\ pc[c] = "registered"
    /\ stateSeen' = stateSeen \union {c}
    /\ GoTo(c, "loop")
    /\ UNCHANGED <<mode, budget, queue, ticket, permit, target, revoked, controls>>

\* The deadline and cancellation checks at the head of the loop.
CheckRevoked(c) ==
    /\ pc[c] = "loop"
    /\ GoTo(c, IF c \in revoked THEN "dropping" ELSE "evaluate")
    /\ UNCHANGED <<mode, budget, queue, locals, target, controls>>

\* Defect: any registered waiter may take the budget.
AtFrontAnywhere(c) == waiters # << >> /\ TicketInUse(ticket[c])

AtFront(c) == waiters # << >> /\ Head(waiters).ticket = ticket[c]

Reject(c) ==
    /\ state # "Open"
    /\ GoTo(c, "dropping")
    /\ UNCHANGED <<budget, waiters, locals>>

\* Defect: the state is not looked at again; the next waiter is not woken.
AdmitFrontAnyState(c) ==
    /\ AtFront(c) /\ Fits(c)
    /\ waiters' = Tail(waiters)
    /\ Charge(c) /\ Forget(c) /\ WakeNextWaiter(c)
AdmitFrontSilently(c) ==
    /\ state = "Open" /\ AtFront(c) /\ Fits(c)
    /\ waiters' = Tail(waiters)
    /\ Charge(c) /\ Forget(c) /\ GoTo(c, "holding")

AdmitFront(c) ==
    /\ state = "Open" /\ AtFront(c) /\ Fits(c)
    /\ waiters' = Tail(waiters)
    /\ Charge(c) /\ Forget(c) /\ WakeNextWaiter(c)

Park(c) ==
    /\ state = "Open" /\ ~(AtFront(c) /\ Fits(c))
    /\ GoTo(c, "parked")
    /\ UNCHANGED <<budget, waiters, locals>>

\* The critical section of the loop: rejected, admitted, or left to wait.
Evaluate(c) ==
    /\ pc[c] = "evaluate"
    /\ Locked
    /\ Reject(c) \/ AdmitFront(c) \/ Park(c)
    /\ UNCHANGED <<mode, next_waiter_ticket, target, controls>>

\* select!: the Notify's permit is consumed.
WakeByPermit(c) ==
    /\ pc[c] = "parked"
    /\ c \in permit
    /\ permit' = permit \ {c}
    /\ GoTo(c, "loop")
    /\ UNCHANGED <<mode, budget, queue, ticket, target, stateSeen, revoked, controls>>

\* select!: admission_state_changed has a version this receiver has not seen.
WakeByStateChange(c) ==
    /\ pc[c] = "parked"
    /\ c \notin stateSeen
    /\ stateSeen' = stateSeen \union {c}
    /\ GoTo(c, "loop")
    /\ UNCHANGED <<mode, budget, queue, ticket, permit, target, revoked, controls>>

\* select!: the deadline's sleep ends, or the cancellation channel changed.
WakeByRevocation(c) ==
    /\ pc[c] = "parked"
    /\ c \in revoked
    /\ GoTo(c, "dropping")
    /\ UNCHANGED <<mode, budget, queue, locals, target, controls>>

\* The future is dropped at its await point.
Abort(c) ==
    /\ pc[c] = "parked"
    /\ GoTo(c, "dropping")
    /\ UNCHANGED <<mode, budget, queue, locals, target, controls>>

Without(s, p) == [i \in 1 .. Len(s) - 1 |-> IF i < p THEN s[i] ELSE s[i + 1]]
IsPositionOf(p, t) ==
    /\ waiters[p].ticket = t
    /\ \A i \in 1 .. p - 1 : waiters[i].ticket # t

\* Drop of the registration: leave the queue, then wake whoever is in front.
DropRegistration(c) ==
    /\ pc[c] = "dropping"
    /\ Locked
    /\ \/ \E p \in 1 .. Len(waiters) :
            /\ IsPositionOf(p, ticket[c])
            /\ waiters' = Without(waiters, p)
            /\ WakeNextWaiter(c)
       \/ /\ ~TicketInUse(ticket[c])
          /\ GoTo(c, "done")
          /\ UNCHANGED waiters
    /\ Forget(c)
    /\ UNCHANGED <<mode, budget, next_waiter_ticket, target, controls>>

-----------------------------------------------------------------------------
(* Release, and the wake-up every exit from the queue or the budget owes. *)

Monus(a, b) == IF a >= b THEN a - b ELSE 0      \* saturating_sub

\* Defect: the bytes are not given back.
DischargeOwner(c) ==
    /\ active_owners' = Monus(active_owners, 1)
    /\ holders' = holders \ {c}
    /\ UNCHANGED active_charged_bytes

Discharge(c) ==
    /\ active_owners' = Monus(active_owners, 1)
    /\ active_charged_bytes' = Monus(active_charged_bytes, ChargeOf[c])
    /\ holders' = holders \ {c}

\* Drop of the OwnerReservation: the critical section.
DropReservation(c) ==
    /\ pc[c] = "holding"
    /\ Locked
    /\ Discharge(c)
    /\ GoTo(c, "released")
    /\ UNCHANGED <<mode, queue, locals, target, controls>>

\* Drop of the OwnerReservation: state_changed is notified after the unlock.
NotifyRelease(c) ==
    /\ pc[c] = "released"
    /\ NotifyStateChanged
    /\ WakeNextWaiter(c)
    /\ UNCHANGED <<mode, budget, queue, locals, target, cpc>>

\* Where a call is once its wake_next_waiter returned.
Returned(c) == IF c \in holders THEN "holding" ELSE "done"

\* wake_next_waiter: clone the front waiter's Notify under the lock.
PickFront(c) ==
    /\ pc[c] = "waking"
    /\ Locked
    /\ \/ /\ waiters # << >>
          /\ target' = [target EXCEPT ![c] = Head(waiters).call]
          /\ GoTo(c, "notifying")
       \/ /\ waiters = << >>
          /\ GoTo(c, Returned(c))
          /\ UNCHANGED target
    /\ UNCHANGED <<mode, budget, queue, locals, controls>>

\* wake_next_waiter: notify_one after the unlock, whoever is in front by now; the
\* Notify of a call that meanwhile left the queue has nobody to wake.
NotifyOne(c) ==
    /\ pc[c] = "notifying"
    /\ permit' = permit \union {w \in {target[c]} : w \in Calls /\ pc[w] \in Waiting}
    /\ target' = [target EXCEPT ![c] = NoCall]
    /\ GoTo(c, Returned(c))
    /\ UNCHANGED <<mode, budget, queue, ticket, stateSeen, revoked, controls>>

-----------------------------------------------------------------------------
(* begin_drain, wait_drained, mark_closed. *)

\* A control is a caller of these three, one call at a time; "drained" is where it
\* is after a wait_drained that returned Ok, "idle" after anything else.
Startable(d) == cpc[d] \in {"idle", "drained"}

BeginDrain(d) ==
    /\ Startable(d)
    /\ Locked
    /\ \/ /\ state = "Open"
          /\ state' = "Draining"
          /\ ControlGoTo(d, "notifyState")
       \/ /\ state # "Open"
          /\ ControlGoTo(d, "idle")
          /\ UNCHANGED state
    /\ UNCHANGED <<budget, queue, locals, poisoned, pc, target, drainSeen>>

MarkClosed(d) ==
    /\ Startable(d)
    /\ Locked
    /\ \/ /\ active_owners = 0 /\ state = "Draining"
          /\ state' = "Closed"
          /\ ControlGoTo(d, "notifyState")
       \/ /\ ~(active_owners = 0 /\ state = "Draining")
          /\ ControlGoTo(d, "idle")
          /\ UNCHANGED state
    /\ UNCHANGED <<budget, queue, locals, poisoned, pc, target, drainSeen>>

\* The two notifications begin_drain and mark_closed send after the unlock.
SendStateChanged(d) ==
    /\ cpc[d] = "notifyState"
    /\ NotifyStateChanged
    /\ ControlGoTo(d, "notifyAdmission")
    /\ UNCHANGED <<mode, budget, queue, locals, pc, target>>

SendAdmissionStateChanged(d) ==
    /\ cpc[d] = "notifyAdmission"
    /\ NotifyAdmissionStateChanged
    /\ ControlGoTo(d, "idle")
    /\ UNCHANGED <<mode, budget, queue, pc, ticket, permit, target, revoked, drainSeen>>

\* wait_drained, with a deadline of its own, subscribes before it looks.
WaitDrained(d) ==
    /\ Startable(d)
    /\ drainSeen' = drainSeen \union {d}
    /\ ControlGoTo(d, "drainLoop")
    /\ UNCHANGED <<mode, budget, queue, locals, pc, target>>

\* wait_drained returns; its receiver and deadline end with it.
ReturnDrain(d, label) ==
    /\ ControlGoTo(d, label)
    /\ drainSeen' = drainSeen \ {d}
    /\ revoked' = revoked \ {d}

\* One look at the metrics.
CheckDrained(d) ==
    /\ cpc[d] = "drainLoop"
    /\ Locked
    /\ \/ /\ state = "Open"
          /\ ReturnDrain(d, "idle")
       \/ /\ state # "Open" /\ active_owners = 0
          /\ ReturnDrain(d, "drained")
       \/ /\ state # "Open" /\ active_owners # 0
          /\ ControlGoTo(d, "drainDeadline")
          /\ UNCHANGED <<revoked, drainSeen>>
    /\ UNCHANGED <<mode, budget, queue, pc, ticket, permit, target, stateSeen>>

\* Defect: the receiver is marked up to date after the look.
ParkDrainMarked(d) ==
    /\ d \notin revoked
    /\ ControlGoTo(d, "drainParked")
    /\ drainSeen' = drainSeen \union {d}
    /\ UNCHANGED revoked

ParkDrain(d) ==
    /\ d \notin revoked
    /\ ControlGoTo(d, "drainParked")
    /\ UNCHANGED <<revoked, drainSeen>>

CheckDrainDeadline(d) ==
    /\ cpc[d] = "drainDeadline"
    /\ \/ /\ d \in revoked
          /\ ReturnDrain(d, "idle")
       \/ ParkDrain(d)
    /\ UNCHANGED <<mode, budget, queue, pc, ticket, permit, target, stateSeen>>

WakeDrain(d) ==
    /\ cpc[d] = "drainParked"
    /\ d \notin drainSeen
    /\ drainSeen' = drainSeen \union {d}
    /\ ControlGoTo(d, "drainLoop")
    /\ UNCHANGED <<mode, budget, queue, locals, pc, target>>

\* The deadline's last look: Ok on zero owners, without asking for the state.
DrainDeadline(d) ==
    /\ cpc[d] = "drainParked"
    /\ d \in revoked
    /\ Locked
    /\ ReturnDrain(d, IF active_owners = 0 THEN "drained" ELSE "idle")
    /\ UNCHANGED <<mode, budget, queue, pc, ticket, permit, target, stateSeen>>

-----------------------------------------------------------------------------
\* Steps a runtime that keeps polling will take once they are possible.
CallStep(c) ==
    \/ Subscribe(c) \/ CheckRevoked(c) \/ Evaluate(c)
    \/ WakeByPermit(c) \/ WakeByStateChange(c) \/ WakeByRevocation(c)
    \/ DropRegistration(c)
    \/ NotifyRelease(c) \/ PickFront(c) \/ NotifyOne(c)

ControlStep(d) ==
    \/ SendStateChanged(d) \/ SendAdmissionStateChanged(d)
    \/ CheckDrained(d) \/ CheckDrainDeadline(d)
    \/ WakeDrain(d) \/ DrainDeadline(d)

\* Steps that are the callers' choice.
Environment ==
    \/ \E c \in Calls : \/ TryReserve(c) \/ Register(c) \/ RefuseRevoked(c)
                        \/ Abort(c) \/ DropReservation(c)
    \/ \E d \in Controls : BeginDrain(d) \/ WaitDrained(d) \/ MarkClosed(d)
    \/ \E a \in Calls \union Controls : Revoke(a)
    \/ Panic

Next ==
    \/ \E c \in Calls : CallStep(c)
    \/ \E d \in Controls : ControlStep(d)
    \/ RecoverPoison
    \/ Environment

Spec == Init /\ [][Next]_vars

\* Somebody is waiting for the mutex.
LockWanted ==
    \/ \E c \in Calls : pc[c] \in {"evaluate", "dropping", "waking"}
    \/ \E d \in Controls : \/ cpc[d] = "drainLoop"
                           \/ cpc[d] = "drainParked" /\ d \in revoked

\* Each started call and control keeps being polled; a thread that waits for the
\* mutex gets it.  Nobody is forced to release, to drain or to give up.
Fairness ==
    /\ \A c \in Calls : WF_vars(CallStep(c))
    /\ \A d \in Controls : WF_vars(ControlStep(d))
    /\ WF_vars(LockWanted /\ RecoverPoison)

FairSpec == Spec /\ Fairness

-----------------------------------------------------------------------------
(* Properties. *)

\* The counters charge exactly one owner per live reservation, never more than
\* the budget allows, and only calls that can still drop it hold one: no path leaks
\* a charge or gives one back twice.
ChargesCounted ==
    /\ \A c \in Calls : /\ c \in holders => pc[c] \in {"holding", "waking", "notifying"}
                        /\ pc[c] = "holding" => c \in holders
    /\ IsFiniteSet(holders)
    /\ active_owners = Cardinality(holders)
    /\ active_owners <= MaxOwners
    /\ active_charged_bytes <= MaxBytes

\* The queue holds exactly the calls inside reserve_until's wait, each once and
\* each under its own ticket: no registration leaks, whichever way a call leaves
\* (admitted, rejected, cancelled, past its deadline, dropped at its await).
RegistrationsMatch ==
    /\ \A i \in 1 .. Len(waiters) : /\ pc[waiters[i].call] \in Waiting
                                    /\ ticket[waiters[i].call] = waiters[i].ticket
    /\ \A c \in Calls : pc[c] \in Waiting =>
            \E i \in 1 .. Len(waiters) : waiters[i].call = c
    /\ \A i, j \in 1 .. Len(waiters) :
            waiters[i].ticket = waiters[j].ticket => i = j

\* A step that will look at the front of the queue and notify it is under way.
WakePending ==
    \/ \E c \in Calls : pc[c] \in {"released", "waking"}
    \/ \E c \in Calls : pc[c] = "notifying" /\ target[c] = Head(waiters).call

\* No lost wake-up: while admission is open, a front waiter that is asleep although
\* its request fits has a permit, or somebody is on the way to give it one, although
\* every wake-up reads the front under the lock and notifies after it.
NoLostWakeup ==
    (/\ state = "Open" /\ waiters # << >>
     /\ pc[Head(waiters).call] = "parked"
     /\ Fits(Head(waiters).call))
    => Head(waiters).call \in permit \/ WakePending

\* No waiter sleeps through a drain: once admission is not open, a parked waiter
\* has an unseen admission_state_changed or a permit, or the drainer that changed
\* the state has yet to notify.  The subscription happens after the registration.
NoMissedDrain ==
    \A c \in Calls :
        state # "Open" /\ pc[c] = "parked" =>
            \/ c \notin stateSeen
            \/ c \in permit
            \/ \E d \in Controls : cpc[d] \in {"notifyState", "notifyAdmission"}

\* No wait_drained sleeps through the last release: past its look, with nothing left
\* to wait for, it has an unseen state_changed or its sender is about to notify.
NoMissedLastRelease ==
    \A d \in Controls :
        state # "Open" /\ active_owners = 0 /\ cpc[d] \in {"drainDeadline", "drainParked"} =>
            \/ d \notin drainSeen
            \/ \E c \in Calls : pc[c] = "released"
            \/ \E e \in Controls : cpc[e] = "notifyState"

\* Drained is final: after wait_drained returned Ok, or the admission closed, no
\* reservation exists, now or ever, even though the deadline path of wait_drained
\* does not look at the state again.
DrainedIsFinal ==
    /\ \A d \in Controls : cpc[d] \in {"drainDeadline", "drainParked"} => state # "Open"
    /\ state = "Closed" => holders = {}
    /\ \A d \in Controls : cpc[d] = "drained" => state # "Open" /\ holders = {}

\* Waiters are admitted in registration order: whoever leaves the queue into the
\* budget was the front entry, even when tickets have wrapped around.
AdmittedInOrder ==
    [][\A c \in Calls :
          pc[c] \in Waiting /\ c \in holders' \ holders => c = Head(waiters).call]_vars

\* A request that fits and is in front is not left waiting for ever.
FrontIsServed ==
    []<>~(state = "Open" /\ waiters # << >> /\ Fits(Head(waiters).call))

\* Once draining and without owners, every wait_drained returns.
DrainWaitReturns ==
    \A d \in Controls : (state # "Open" /\ active_owners = 0 /\ cpc[d] \in DrainWaiting)
                            ~> cpc[d] \notin DrainWaiting

\* Admission implements the pool it promises: the counters are the pool's, and
\* registration, wake-ups, notifications and recovery are invisible in it.
Pool == INSTANCE AdmissionPool
            WITH phase <- state, held <- holders, bytes <- active_charged_bytes
ImplementsPool == Pool!Spec
=============================================================================
