# TLA+ verification of DaeNext's resident runtime

DaeNext is a Rust rewrite of the dae / daed transparent proxy: a daemon with a
product API, a resident runtime that owns DNS, TCP, UDP and the outbound
transports, and an eBPF datapath that the runtime feeds through maps. Most of
its code is I/O, parsing and wire formats. The part that is hard to get right,
and hard to test, is the ownership and hand-over logic that everything else
leans on: who may hold a physical owner, who builds one, when a generation's
tasks are gone, how one generation replaces another, which generation's view
the kernel shows, and what a crash or a refused step leaves of an apply on disk.
This project models that core, model-checks it with TLC, and proves with TLAPS
every safety property that the passing runs check.

`PROJECT.json` lists the components, the runs, the source lines behind every
definition (`map`), the hazards that the properties are aimed at, and the
theorems.

## Inventory

### Modelled

**Physical-owner admission**
(`crates/dae-runtime-control/src/physical_owner/admission.rs`,
`admission/admitted_owner.rs`).
State: `OwnerAdmissionCounters` behind one mutex (Accepting / Draining / Closed,
active owners, charged bytes, a FIFO of waiters with wrapping tickets), one
`Notify` per waiter, and two watch channels. Operations: `try_reserve`,
`reserve_until` (fast path, registration, wait loop, deadline, cancellation,
drop of the future), the `Drop` of a reservation, `begin_drain`,
`wait_drained`, `mark_closed`, recovery from a poisoned mutex. Every
notification is sent after the unlock. In production `dae-resident-transport`
(`quic_endpoint/admission.rs`) charges each QUIC endpoint to it.
Correct means: no charge leaks or is returned twice, waiters are admitted in
order, no wake-up is lost, a drain ends and is final.

**Single-flight owner cell**
(`physical_owner/single_flight.rs`, `single_flight/build.rs`).
State: a snapshot (state, failure, revision), `accepting`, the value, a watch
channel of revisions. Operations: `begin_or_observe` (elect a builder, observe,
or return the value), `publish_ready`, `publish_failed`, the builder's `Drop`, `fail`,
`prepare_retry`, `begin_drain`, `close`, the observer's wait, poison recovery.
The TUIC and Hysteria2 owners (`tuic_owner.rs`, `hysteria2_owner.rs`) keep one
cell per physical connection. Correct means: one builder per attempt, a late
builder never fills a newer attempt, observers always return, nothing is served
after a drain.

**Generation task scope** (`physical_owner/task_scope.rs`).
State: Running / Draining / Closed, one task counter per role, a cancellation
signal, a watch channel. Operations: `spawn_task_on` with its guard, `join`,
`join_until`, `abort`, drop of a handle, `apply_command` (drain, close), `wait_joined`,
drop of the boundary, poison recovery. It is public API of the crate and is at
present exercised by the crate's own tests. Correct means: counters follow the
tasks however they end, a join tells the truth, after a join no task is left.

**Domain routing** (`crates/dae-resident-dns/src/domain_routing.rs` and
`domain_routing/`; `dae-dns/src/cache.rs`; `dae-resident-core/src/
generation_fence.rs`; `dae-ebpf-support/src/routing_maps.rs`).
Every accepted DNS response puts its addresses, with the rules its name
matches, into the kernel's `domain_routing` map. State: per generation a DNS
cache, a `DomainRoutingOwner` (which name owns which bits of which address),
response revisions, a mutation lock and a dispatch admission; shared by all
generations the gate, the fence's tracker and the kernel map. Operations:
record, remove, evict, expire (a maintenance thread per generation), reload
snapshot and restore, activation, reactivation of the previous generation,
clear at shutdown; the map may refuse a batch, and the rollback may fail.
Used by `dae-resident-dns/src/runtime/mod.rs` and, for reloads, by
`dae-resident-dataplane` (`runtime.rs`, `generation_builder.rs`).
Correct means: the kernel shows what the active generation's cache says, and
nothing else; responses take effect in the order they began; what expires goes.

**Durable transaction and runtime apply**
(`crates/dae-product-persistence/src/lib.rs`; `dae-product-runtime/src/
apply_generation.rs`, `journal.rs`, `commit_state.rs`, `apply_state.rs`;
`dae-daemon/src/daed_product/`, `runtime_apply.rs` and its parts).
An apply starts a generation, replaces the configuration file and commits rows
as one. State on disk: the target file, the staged candidate, the backup, the
journal and its `.next` file, the `.rollback` file, the database; in memory: the
transaction's phase, the prepared generation, the snapshot to go back to, the
apply state. Operations: write the intent, activate, commit, finish, roll back,
`Drop`, and the recovery when the server starts. Every file operation may fail,
and the process may die between any two. Correct means: no crash loses what the
committed rows need, and what an apply reports is what it left behind.

**Runtime reconciler and apply gate**
(`dae-product-runtime/src/reconcile.rs`, `coordinator.rs`, used by reload and
stop of the daemon). State: the desired signal (a watch channel written by
read-modify-write), epochs, the flights by fingerprint, the gate and its poison,
the pending stops. Operations: admit or join a flight, supersede, revalidate
under the gate, finish, unwind, wait as a follower, stop. Correct means: a stop
is not overtaken by what it superseded, applies keep the order of admission,
equal reloads share one apply, everybody is answered.

**Geodata update** (`dae-product-geodata/src/update.rs`, `commit.rs`,
`transaction.rs`, `admission.rs`). State: a data file and its version file, their
backups, a journal per kind, and the input version both kinds share in the
database. Operations: update, activation, rollback, recovery before an update and
at start, and the reload that reads the files. Correct means: the pair is of one
update, an installed update stays, a start gets through.

**Generation swap**
(`dae-resident-core`: active slot, gate, coordinator; `dae-resident-runtime`:
lifecycle and drain; `dae-resident-dataplane`: publish, restore and quiesce of
the runtime, the TCP accept loop, the UDP session manager).
State: the published generation and its publication epoch, the gate, each
generation's lifecycle and stop flags, the drain's list of retired generations,
what each thread still has to stop, the accept loop's and the manager's place.
Operations: snapshot, eviction under pressure, build, activation of the routes,
publication, retirement, rollback by reactivation, finalization, ageing, reaping,
forced stop, shutdown, and how a connection or a packet finds its generation.
Correct means: the published generation is open, an apply can go back until it
commits, no generation is forgotten, no listener waits for what is open, every
retirement ends.

### Interactions

The reconciler lets one apply at a time past its gate; `RuntimeApply` extends
`DurableTransaction`, and its start of a generation (one step there) is what
`GenerationDrain` takes apart; the activation of routes in `GenerationDrain` is
what `DomainRouting` takes apart. A geodata update moves the input version that
makes the next reload necessary. The transports' registries ask admission for a
reservation, then the single-flight cell for a builder, and keep both in an
`AdmittedPhysicalOwner`. DNS requests call domain routing from async tasks through
a FIFO admission; reload and maintenance call it from threads. Each part is
checked with its neighbours' answers left open (succeed, fail, be late), which is
what lets one model stand for the other's use of it.

### Hard behaviours

Unlock-then-notify windows everywhere; futures dropped at any await; deadlines
racing results; a poisoned mutex recovered by whoever locks next; tickets that
wrap; late builders and late transactions of a retired generation; a refused
batch in the middle of eviction or activation; a deadline that changes between
a look and a sleep; a crash between a rename and the removal of the journal that
asked for it; a failed rollback; a signal overwritten by a concurrent
read-modify-write; a counter two transactions share; a generation evicted, aged
and reactivated at once. `PROJECT.json` lists each of them under `hazards` with
its line and with the properties that would catch it; where the code makes no
promise a note says so (see *Limits*).

### Not modelled, and why

| Part | Reason |
|---|---|
| Users of the generation swap | partly: accept errors, packet payloads and routes, sniffers, the early release of router and DNS handles, and reports are left out |
| Cancellation signal, deadline | partly: the `revoked` / `expired` sets; first-reason-wins and the future are left out |
| Interface recovery supervisor | takes the apply gate like a reload; planned as an actor of `RuntimeReconcile` |
| Subscription refresh and content | second client of `DurableTransaction`; planned |
| Runtime manager (instances, cleanup, process transitions) | one step that succeeds or fails in `RuntimeApply` and `RuntimeReconcile`; candidate |
| Owner lifecycle, `AdmittedPhysicalOwner` | planned |
| Session and payload admission | planned (lock-free counters) |
| QUIC endpoint admission, TUIC / Hysteria2 registries | planned as a composition |
| Stop signal, task set, executor, thread shutdown | thin wrappers over the host runtime; candidates |
| Resident DNS runtime and cache, UDP session shards, health scheduler | candidates |
| Connectivity, reload comparison, routing state | candidates |
| Wire protocols and the other transport owners | byte-level encoders and handshakes, out of a model checker's reach |
| Configuration, routing rules, geodata contents, sniffing, plan, model | parsers, matchers, immutable plans |
| Product API, SSE, logs, metrics, identity, evidence, geodata download | I/O and observability, not read back by control logic |
| eBPF programs and loader | kernel code; the map is modelled from its use |

The parts in the last four rows are most of the repository's lines. The map
therefore covers a small share of it: the share that carries protocol logic.

## Modules

| Module | Stands for |
|---|---|
| `AdmissionPool` | abstract specification: what admission promises, without lock, queue or notifications |
| `OwnerAdmission` | admission; refines `AdmissionPool` (`ImplementsPool`) |
| `OwnerAdmissionProofs` | theorems about it, the refinement included |
| `SingleFlightOwner`, `SingleFlightOwnerProofs` | the cell and its theorems |
| `GenerationTaskScope`, `GenerationTaskScopeProofs` | the task scope and its theorems |
| `DomainRoutingTracker` | the pure algorithm of `routing_maps.rs`: staging a batch, its updates and deletes, transitions between trackers |
| `DomainRouting`, `DomainRoutingProofs` | cache, revisions, fence, map, maintenance and reload, and their theorems |
| `DurableTransaction` | the file transaction, one step per file-system operation; no `Next` of its own |
| `RuntimeApply`, `RuntimeApplyProofs` | apply, rollback and recovery on top of it, with crashes, and their theorems |
| `RuntimeReconcile`, `RuntimeReconcileProofs` | flights, supersession and stop, and their theorems |
| `GeodataUpdate`, `GeodataUpdateProofs` | the pair of files, its journal, recovery, and the reload that reads them; theorems |
| `GenerationDrain`, `GenerationDrainProofs` | publication, retirement, drain and rollback of generations, with their two listeners; theorems |
| `MC...` | values for TLC |

### How state and steps correspond to the code

Variables carry the names of the fields they stand for; the comment at each
declaration names the struct. The program's control is in `pc`-like variables,
one label per place between two steps.

*Atomicity.* In the first three modules one step is one critical section of the
component's mutex **or** one notification after it: wherever the code unlocks
and then notifies there are two steps, and anyone may run in between. A
`Notify` is a set of stored permits, a watch channel a set of receivers that
have seen the latest send (no receiver reads the value). A panic under the lock
is `Panic`; the next locker runs `RecoverPoison`, what the code's lock helpers
do with a `PoisonError`.

In `DomainRouting` one step is one critical section of the state or revision
mutex while the generation's mutation lock is held, or of the gate, under which
map, tracker and owner change together. A transaction goes
`queued -> admitted -> staged -> applied -> stored -> ending`, or from `staged`
to `failed` when the map refuses it. Callers, maintenance threads and reload
share these steps, as they share the code's functions.

In `RuntimeReconcile` and `GenerationDrain` one step is one access to shared
memory: a critical section, an atomic, a watch channel, a `Notify`. A counter
that is read and written by separate instructions is two steps.

In `DurableTransaction`, `RuntimeApply` and `GeodataUpdate` one step is one
file-system operation or one database transaction. Each may fail as long as the
fault budget lasts, and `Crash` may come between any two; what was written stays.
`at` and `op` are the place inside a call of the transaction, `pc` the place in
its caller.

*Data.* A charge is a number of bytes; a value built by the cell is known by
its builder's revision; a DNS response is its set of addresses and a deadline;
a bitmap is a set of rules; a file is the number of the apply or update that
wrote it; a fingerprint is the version of the desired state it was computed
from; an `Arc` is the set of those who hold it. Failure kinds, drain reasons,
metric counters and log texts are left out: they are written and never read by
the control logic.

*External parts.* Tokio's tasks, join handles, `Notify` and watch channels, the
file system and the kernel map are modelled from how the code uses them; where
no line of the repository stands behind a definition it is marked external in
the map.

## Runs

| Run (cfg) | Instance | States | Checks |
|---|---|---|---|
| `admission_queue` (`OwnerAdmissionQueue`) | 3 calls (one of 2 bytes), 1 control, budget 2 owners / 2 bytes, tickets mod 3, symmetry | 1.8 M | `ChargesCounted`, `NoLostWakeup`, `RegistrationsMatch`, `ImplementsPool`, `AdmittedInOrder` |
| `admission_live` (`OwnerAdmissionLive`) | 2 calls, 1 control, tickets mod 2, fair | 51 k | `DrainedIsFinal`, `NoMissedDrain`, `NoMissedLastRelease`, `DrainWaitReturns`, `FrontIsServed` |
| `single_flight` (`SingleFlightOwner`) | 3 actors, revisions up to 4, fair, deadlock checked | 151 k | `ConnectingHasBuilder`, `OutcomeIsCurrent`, `NoMissedOutcome`, `ShutIsFinal`, `ObserverReturns` |
| `task_scope` (`GenerationTaskScope`) | 2 tasks of different roles, 1 control, fair | 291 k | `TasksCounted`, `JoinIsHonest`, `NoMissedExit`, `JoinedIsFinal`, `DrainJoins` |
| `domain_requests` (`DomainRequests`) | 1 name, 1 generation, 2 callers, one poisoning, fair | 76 k | `NoMissedDeadline`, `NewestWins`, `ExpiredIsSwept` |
| `domain_reload` (`DomainReload`) | 2 generations with different matchers, 2 names sharing an address, 1 caller, capacity 1 | 1.9 M | `KernelMatchesCache` |
| `runtime_apply` (`RuntimeApply`) | 3 applies, 2 I/O failures, 2 crashes | 73 k | `CrashSafe`, `ApplyOutcome`, `RecoveryKeepsCommitted` |
| `runtime_apply_recover` (`RuntimeApplyRecover`) | 2 applies, 2 crashes, no I/O failure | violation | `RecoverySucceeds` |
| `reconcile` (`RuntimeReconcile`) | 2 reloads, 1 stop, 2 versions of the desired state, 1 unwinding lead, fair | 889 k | `StopSupersedes`, `AppliesInEpochOrder`, `LeadIsJoinable`, `EveryoneAnswered` |
| `geodata` (`GeodataUpdate`) | 1 kind, 3 updates, 2 I/O failures, 2 crashes, fair | 121 k | `PairIntact`, `RollbackPossible`, `NeverReverts`, `StartsSettle` |
| `geodata_pending` (`GeodataPending`) | 2 kinds, 1 update each, no failure | violation | `PendingTogether` |
| `generation_drain` (`GenerationDrain`) | 2 generations, 1 may be retired, 1 connection, 1 refused activation, fair | 247 k | `ServingIsOpen`, `SnapshotRestorable`, `NothingForgotten`, `AcceptorNotStranded`, `RetirementEnds` |

What they say:

* *Admission.* Live reservations and counters agree and stay within both limits
  (`ChargesCounted`). The queue is exactly the waiting calls, under distinct
  tickets (`RegistrationsMatch`). A front waiter that fits is never asleep
  without a permit or somebody on the way to give it one (`NoLostWakeup`), and
  is served (`FrontIsServed`). Waiters enter in registration order
  (`AdmittedInOrder`; `try_reserve` may barge, as in the code). Nobody sleeps
  through a drain or through the last release, every drain wait returns, and
  after a successful `wait_drained` or a close no reservation exists or appears.
  `ImplementsPool` maps each step to a grant, release, drain, close or stutter
  of the abstract pool.
* *Single flight.* A connecting cell has exactly one live builder; an outcome
  handed out belongs to the last build and the code's `expect`s cannot fail; no
  observer is left behind; a cell that stopped accepting never builds or serves.
* *Task scope.* Each counter is the number of its role's live tasks; a joiner
  learns how its task really ended, and a deadline is reported only for a task
  that is gone; joined is final; every drain ends without tasks.
* *Domain routing.* Between the active generation's transactions the kernel map
  is exactly what its cache says (`KernelMatchesCache`), through evictions,
  refused batches, rollbacks, reloads and late transactions of retired
  generations. Responses and rejections of a name take effect in the order in
  which they began, also across a poisoned revision table (`NewestWins`). The
  maintenance never sleeps past a deadline (`NoMissedDeadline`) and every
  expired entry is removed (`ExpiredIsSwept`).
* *Runtime apply.* Wherever the process dies, the files still hold what the
  committed rows need (`CrashSafe`); "committed" and "rolled-back" mean what they
  say for file, rows and runtime, I/O failures included, and without an I/O failure
  an apply ends unreconciled in one case only: it began with the runtime stopped,
  its commit failed, file and rows went back and its generation runs on
  (`ApplyOutcome`; see *Findings*); a
  recovery never moves the file away from the committed generation
  (`RecoveryKeepsCommitted`). A recovery that is itself interrupted may refuse
  every later start (`RecoverySucceeds`, violated: see *Findings*).
* *Reconciler.* Once a stop has the gate, no lead admitted before its signal
  applies, although an admission may overwrite that signal (`StopSupersedes`);
  applies keep the order of admission; the late cleanup of an old flight never
  hides a live lead from its followers (`LeadIsJoinable`); every reload and stop
  returns, also when a lead unwinds and poisons the gate (`EveryoneAnswered`).
* *Geodata.* Without a journal, data and version file are of one update
  (`PairIntact`); a journal names backups that exist (`RollbackPossible`); a
  successful update is only replaced by a later one (`NeverReverts`); starts get
  through once failures stop (`StartsSettle`). Two kinds that share the input
  version may leave a required reload unannounced (`PendingTogether`, violated).
* *Generation swap.* The published generation is active, unstopped, out of the
  drain, and the gate admits to it except between route activation and
  publication (`ServingIsOpen`); until an apply commits, only the deadline can take
  away what it would go back to (`SnapshotRestorable`); a generation with running
  workloads is in somebody's hands (`NothingForgotten`); the accept loop never
  waits for an open admission (`AcceptorNotStranded`); every retirement ends,
  whatever pins or connections it has (`RetirementEnds`).

### Bounds, and why they are enough

* `TicketSpace` stands for the 2^64 tickets; 2 or 3 makes the counter wrap with
  waiters still queued, which never happens in a test. The theorems hold for
  every positive `TicketSpace`.
* Three calls with one bigger than the rest give a head that does not fit in
  front of one that would, and a barging `try_reserve`; two owners and two bytes
  make each limit the binding one somewhere. `admission_live` has two calls:
  symmetry is not sound for liveness, and a holder and a waiter are what its
  questions need.
* `MaxRevision = 4` allows elect, fail, retry, elect and publish, so that a
  superseded builder finishes in a later attempt. Each election or retry costs a
  revision; drain, close and poison may go beyond it.
* One map address shared by two names and capacity 1 make the second name an
  eviction whose transaction takes away one name's route and adds the other's at
  the same address; two generations with different matchers distinguish whose
  rules are shown. Two callers are needed for overtaking (`domain_requests`), one
  is enough to meet reload or the maintenance thread. `MaxSequence` bounds the
  responses and removals of a generation in an epoch, one less after each of
  `MaxEpoch` poisonings; an entry restored from a snapshot counts. It is 2 in both
  runs, and `domain_reload` explores three of the four of its two generations
  (`FewBegun`; all four, 3.0 M states, gave the same result). Reached are an
  eviction in a generation that is the first, the second, retired and reactivated,
  and in a retired and in a second generation the removal of a cached entry and a
  response that supersedes one. Either generation may be built first; the one
  whose matcher knows a single name never evicts.
* `domain_reload` does not explore past a torn map or past the shutdown
  (`KernelIsJudged`): a torn map stays torn and after the shutdown no generation
  is active again, so that its invariant says nothing of what follows. Its view
  leaves out `settled`, a history that no guard and not this invariant reads
  (`WithoutHistory`). The run has no temporal property, which either would spoil.
* With `MaxTime = 1` the maintenance of domain routing that found nothing sleeps
  without end while an entry that expires arrives; `MaxTime = 2` (265 k states),
  where it sleeps until one deadline and a nearer one arrives, gave the same result
  in `domain_requests`.
* `runtime_apply`: three applies give a predecessor, an apply and a later one
  that meets its leftovers; two failures are a failed step and a failed step of
  its rollback; two crashes are one in the apply and one in its recovery. The
  same reasoning gives `geodata`'s numbers; its kinds only share a counter, so
  that the faults are explored with one kind and the sharing with two.
* `reconcile`: two reloads over two versions are a lead with a follower or a
  newer lead that supersedes it; the stop interleaves with both. A poisoned gate
  needs the one panic.
* `generation_drain`: a failed build leaves a prepared slot and an eviction, so
  that two generations and `MaxRetired = 1` reach eviction, ageing, reactivation
  and reaping of the same generation. Each behaviour runs one of the two listeners
  (`Workloads`), which do not talk to each other. Three generations (6.6 M states,
  safety only) gave the same result. An apply begins while a generation is unbuilt
  or retired, a packet is pinned only while the published generation has none, and
  a record ages once: further repetitions change nothing that is observed.
* `CHECK_DEADLOCK FALSE` is used where the system may rest: every call has ended,
  the server is up and idle, or the counters are at their bounds.

### Fairness, and why the code justifies it

* Every started call, control and observer is polled on (tokio polls woken
  tasks), and a thread that waits for a mutex gets it: weak fairness of the
  component's own steps, and of `RecoverPoison` while somebody wants the lock.
* A builder is in the end published or dropped: it is an RAII value whose
  construction runs under a deadline. `ObserverReturns` counts on finitely many
  attempts (`MaxRevision`); in the code a retry follows a cooldown.
* A task that was aborted or whose signal is raised exits.
* Domain routing: strong fairness of each process's own steps, because the
  dispatch admission is FIFO and the mutation lock reaches its waiters, and of a
  sweep's transaction: a map that keeps being asked does not refuse for ever.
* Reconciler: a thread that has begun goes on. The gate and the locks are held for
  a bounded time, and a reload's wait for the gate has a timeout.
* Geodata: threads run on, and a server that is down is started again by its
  supervisor or operator; no failure is ever made to stop, the budget ends.
* Generation swap: weak fairness of the control thread's begun work, of the
  reaper, the accept loop, the manager, of deadlines (time passes) and of a UDP
  shutdown under way; strong fairness of the manager's maintenance, a branch of a
  `select!` that tokio polls in random order, so that it is not passed over for
  ever while packets keep coming.
* Nobody is made to release, drain, retry, close, give up, ask, connect, apply,
  reload or stop.

## Proofs

The theorems are of the form `Spec => []P`, `Spec => [][A]_vars` or, for the
refinement, `Spec => AbstractSpec`, for every value of the constants; no fairness
is used. Every inductive invariant was first checked with TLC on the instances
of the runs.

`OwnerAdmissionProofs`, from `BudgetAssumption` (positive limits),
`ChargeAssumption` (positive charges; the code's `ChargedOwnerBytes` is
non-zero), `TicketAssumption`, `NoCallAssumption`:
`TypeCorrect`, `ChargesAreCounted`, `RegistrationsHold`, `WakeupsAreNotLost`,
`DrainIsFinal`, `DrainsAreNotMissed`, `LastReleaseIsNotMissed`,
`WaitersAreAdmittedInOrder`, `ChargesAreCovered`, `AdmissionImplementsPool`.
The argument goes up in layers: types, then charges (with the finiteness of
`holders`, needed for cardinalities), then the registrations (tickets of queued
calls are distinct, so that the next ticket search and the removal of one's own
ticket are exact), then the wake-ups. `NoLostWakeup` is inductive only on top of
`RegistrationsMatch`: that the front of the queue is who the waker saw, or has
left and passed the turn on, is a statement about the queue. Frame lemmas
(`BudgetFrame`, `RegistrationFrame`, `WakeFrame`) state once what the actions
outside a layer leave alone. The refinement maps each step to a grant, release,
drain, close or stutter of `AdmissionPool`. It needs that a release takes no more
bytes than are charged, so that the code's `saturating_sub` never saturates: a
sum over the holders, which would take an induction. `ChargesAreCovered` states it
without one: the holders' charges can be laid out as disjoint intervals below the
charged total, a grant adds one on top, a release closes the gap.

`SingleFlightOwnerProofs`, from `RevisionAssumption` and `NoValueAssumption`:
`TypeCorrect`, `BuildsHaveOneBuilder`, `OutcomesAreCurrent`,
`OutcomesAreNotMissed`, `ShutStaysShut`.
`OutcomeIsCurrent` is strengthened by `ObserversBehind` (an observer joined
in an attempt that is still open or older than the cell's revision), `ValueIsLastBuild` (a ready value is of the
previous revision), `FailureIsThere`, and `LeftoverIsPoisoned` (a value outside
Ready is a poisoned cell's); `ShutStaysShut` by `ShutState` (a cell that does
not accept neither builds nor serves).

`GenerationTaskScopeProofs`, from `TasksAssumption` (finitely many tasks) and
`RolesAssumption`:
`TypeCorrect`, `TasksAreCounted`, `JoinIsFinal`, `ExitsAreNotMissed`,
`JoinsAreHonest`.
`TasksCounted` speaks of cardinalities of the live tasks of a role and is its
own inductive invariant over the types; `JoinIsFinal` and `ExitsAreNotMissed`
rest on it, since "no task" in the code is "all counters are zero".

`RuntimeReconcileProofs`, from `ThreadsAssumption` (finitely many stops),
`VersionsAssumption`, `PanicsAssumption`:
`TypeCorrect`, `StopIsFinal`, `AppliesOrdered`, `LeadJoinable`.
The types come first; `stop_pending` is a natural number only because it is the
number of stops that are announced and not done (`PendingCounted`, a
cardinality). `HolderInv` says who is inside the flights lock and the gate,
`EpochInv` that each thread draws one epoch of its own. `LeadIsJoinable` is
strengthened by `FlightInv`: a reload inside admission has found no lead of its
fingerprint, and a lead removes only itself. `AppliesInEpochOrder` is
strengthened by `OrderInv`: epochs are drawn and published under the flights
lock, so that the published lead is the last one admitted, and what was applied
was admitted earlier. `StopSupersedes` is strengthened by `StopInv`: the watch
channel is written without a lock and what a stop published may be overwritten,
but each epoch is published once, by the thread that drew it, so that no step
publishes again what the stop superseded, and a lead applies only after it revalidated its epoch under the gate.

`RuntimeApplyProofs`, from `GenerationAssumption`, `FaultsAssumption`,
`CrashesAssumption`:
`TypeCorrect`, `CrashesAreSafe`, `OutcomesAreTrue`, `RecoveryIsSafe`.
`Control` says which steps of the library each caller is in. `Candidate` and
`Backups` say that what an apply goes back to, and what the backups hold, is of
earlier generations; `Progress` and `Undoing` what file, rows, runtime and backup
are at each step of the apply and of its rollback; `JournalInv` what a journal
says of the target and its backup, whatever failed; `Recovering` that a recovery
puts a file back only if the rows were not committed.
`CrashSafe` holds until the first failure (`Faultless`), the other parts
throughout: an apply that meets an I/O error still tells the truth about what it
left behind. `Faultless` also says when a rollback without an I/O failure has an
error to report: only after `UndoRuntime`, with no runtime to go back to and the
generation of the apply still running. A commit of the rows may fail without an
I/O failure, so that this case is reached.

`GeodataUpdateProofs`, from `BoundsAssumption`:
`TypeCorrect`, `PairsAreIntact`, `RollbackIsPossible`, `SuccessIsKept`.
Each kind is treated alone (`Kind(k)`); what the kinds share is the input version
and the loaded pair (`Shared`, `Loaded`). `OnDisk` says what the journal's phase
says of the files and holds at every crash; `AtLabel` adds what the thread knows
at its place and is lost with it. The pair a journal is
resolved to (the backups while it says Activating or RollingBack, the live files
once it says FilesActivated) is whole and no older than the update last reported
(`Intact`), so that a success is kept however the journal is resolved; `Loaded`
says that what the runtime is built from holds no half-copied file.

`DomainRoutingProofs`, from `ProcsAssumption`, `MatchesAssumption`,
`BoundsAssumption`:
`TypeCorrect`, `TokensAreCounted`, `NewestResponseWins`, `DeadlinesAreNotMissed`,
`KernelFollowsCache`.
The argument goes up in stages. `Control` says who holds the mutation lock and
where a transaction, a reload and a publication are. `Counting` says that a
revision entry lives exactly as long as somebody holds a token of it, so that a
poisoned and cleared table starts a new epoch and no old token meets a new entry;
`Ordering`, on top of it, that what is stored is the newest response that was
committed. `DeadlinesKnown` says that a deadline the maintenance does not know of
is announced to it. `Owning` says that a generation's owner is what its cache
gives, or becomes so with the staged batch; `Mapping` that the fence's tracker is
the active owner and the map the tracker's merged bits. The stages need only what
a step does to their own state, so that each step is put into a class once
(`RevisionSteps`, `QuietSteps`) and the later stages go over the classes. The lemmas
about the tracker (`SyncIsApply`, `BatchWritten`, `SwitchWritten`, `OwnerRoutes`)
say that updates and deletes of a batch, applied to the map, are the batch
applied to the tracker: the owners of an address determine its entry in the
index. No bound of the sequence numbers is in the types: a restored entry draws
one, whatever room is left.

`GenerationDrainProofs`, from `GenerationsAssumption`, `RetiredAssumption`,
`LimitAssumption`:
`TypeCorrect`, `PublishedIsOpen`, `RollbackIsOpen`, `NothingIsForgotten`,
`AcceptorIsNotStranded`, `ListIsBounded`, `RetiredOnce`.
The list and the targets are sets of records ordered by the publication that
retired them, which is the order of the code's `Vec`. `Hands` says for each place
of the control thread which generation it holds and what is known of it; `List`
says of each record that its generation occurs once, that its workloads are
stopped when the list has given it up, and that one which can be reactivated is
`Retired`, unstopped and nobody's target. This last part is why the forced stop
after the unlock of `reap` cannot hit a generation that a rollback reactivates in
between: the reason is written under the lock. Slot, snapshot and hand are owners
of their generation (`HeavyOwned`), so that no reap detaches what a rollback
needs. The accept loop compares with the publication it has seen (`Accepting`), so
that a closed admission means that it was overtaken. `ListIsBounded` needs that a
full list has an oldest record, the least member of a set of naturals.

Only model-checked: the liveness properties `DrainWaitReturns`, `FrontIsServed`,
`ObserverReturns`, `DrainJoins`, `ExpiredIsSwept`, `EveryoneAnswered`,
`StartsSettle` and `RetirementEnds` (fairness and `ENABLED` are out of the
prover's reach). `RecoverySucceeds` and `PendingTogether` do not hold.

## Findings

* `runtime_apply_recover`: a recovery renames the backup over the target and
  removes the journal that asks for it afterwards
  (`dae-product-persistence/src/lib.rs:454`). A process that dies in between
  leaves a journal whose backup is gone; every later start runs the same
  recovery, the rename fails, and the server refuses to start.
* `geodata_pending`: `ensure_runtime_input_versions_bumped`
  (`dae-product-geodata/src/transaction.rs:72`) takes any change of the input
  version since its update began for its own bump, but both kinds share it. An
  update of the other kind and a reload in between leave this update's file
  unloaded and nothing pending, while its caller is told to reload.

Four further observations met while modelling are in the models and have no
run of their own:

* An observer of a failed attempt is told `Closed` when `prepare_retry` runs
  before it looks (`single_flight/build.rs:108`), although the cell still accepts;
  its caller's message (`tuic_owner.rs:1113`) takes `Closed` to mean that the
  registry was closed.
* Dropping the future of `join` or `join_until` at its await
  (`task_scope.rs:302`) detaches the task: it is neither joined nor aborted, as the
  handle's `must_use` text (`task_scope.rs:256`) asks. The scope still counts it,
  and its drain still reaches it.
* A generation whose routes the map refuses, when it is published
  (`runtime.rs:217`) or restored (`runtime.rs:259`), is dropped without raising its
  `workload_stop`: its background workloads run until the physical shutdown.
  `NothingForgotten` excludes exactly these generations (`refused`).
* An apply that began with the runtime stopped cannot be rolled back once its
  generation has started: `restore_after_failed_apply` calls
  `discard_runtime_without_stop_gate` (`runtime_manager/apply_state.rs:161`), which
  refuses while a runtime is there (`runtime_manager/stop.rs:64`). When the commit
  fails, the apply ends as one to be reconciled, with file and rows back and the
  failed generation running; `ApplyOutcome` states exactly this. The tests of a
  failed commit begin with a running predecessor.

## Limits

* `KernelMatchesCache` excludes a map whose rollback failed (`torn`); the code
  reports it and has no repair.
* A response whose revision table is poisoned between `can_commit` and
  `committed` is stored, reported as failed, and not announced to the
  maintenance. `NoMissedDeadline` and `ExpiredIsSwept` are stated for
  generations whose table was never poisoned.
* A response committed after the reload snapshot was read is not carried to the
  next generation; the code promises nothing about it.
* Poisoned state and mutation mutexes of domain routing (every later call
  fails) and entry points compiled for tests only are left out. `settled` is a
  history variable; `served` and `retired` say which generations may still be
  asked or reactivated by their users.
* The disk model is that of a killed process: nothing written is lost. What a
  power failure does to unsynced writes is outside it; a sync is a step that may
  fail.
* `CrashSafe` is stated until the first I/O failure: a rollback whose restore
  fails removes the journal and keeps the backup
  (`dae-product-persistence/src/lib.rs:392`), and the code asks the operator to
  reconcile.
* The reconciler's order is that of admission: the epoch is drawn then
  (`reconcile.rs:277`), not when the desired state was read. Two reloads may be
  admitted in the other order than they read it.
* In `GenerationDrain` the routes' activation is one step that succeeds or is
  refused, the momentary `Arc` of a pinned packet is not an owner, and the router
  and DNS handles that a retired UDP runtime gives up early are left out.

## Plan

1. An abstract specification of the generation swap ("one generation serves, its
   predecessors end, a rollback goes back to the last one") and its refinement by
   `GenerationDrain`; one of the durable apply ("file, rows and runtime change
   together or not at all") and its refinement by `RuntimeApply`.
2. The interface recovery supervisor as an actor of `RuntimeReconcile`;
   subscription content as the second client of `DurableTransaction`.
3. `OwnerLifecycle` / `AdmittedOwner`, `SessionAdmission`, `PayloadAdmission`.
4. `OwnerRegistry`: TUIC / Hysteria2 registries composing admission and single
   flight: index, leases, build commands, retirement.
