# Axiom kernel: TLA+ models, checks and proofs

Axiom is a C++/CUDA inference runtime. Most of its lines are numerical kernels, which a model
checker has nothing to say about. What can go wrong between threads, between a process and its
disk, and between a scheduler and its callers sits in the Qwen3.8 server
(`src/tools/axiom_qwen38_api.cpp`) and the libraries under it: the swarm scheduler, the session
store, the KV tier, the persistence worker and the lifecycle collection. This project models that
control plane, checks it with TLC on small instances and proves the scheduler's accounting for
every instance with TLAPS.

## The system and its parts

```
 HTTP threads ──► swarm admission ──► execution lock ──► generation ──► persistence job
     │  lease         │ lease/park          (one model)                     │
     │                ▼                                                     ▼
     │         swarm scheduler                             KV tier + journal + manifest (disk)
     └──► namespace leases ◄── maintenance worker (retention) ──────────────┘
```

* A request thread leases its session's namespace, submits a task to the **swarm scheduler** and
  polls until it holds a lease for it. No thread dispatches: whoever polls may receive another
  request's lease and parks it.
* The admitted request takes the execution lock and the model, **activates** its session (recovers
  the undo journal, opens the KV tier, checks the watermark) and generates.
* The turn is handed to a **deferred persistence** job, which writes pages, commits the watermark,
  publishes the manifest, and collects older generations. The next request waits for it.
* The **maintenance worker** removes whole sessions by age and number, through tombstones.

| Part | Source | Module | State |
|---|---|---|---|
| Swarm scheduler | `src/src/axiom_qwen38_swarm_scheduler.cpp` | `SwarmScheduler`, `SwarmSchedulerProofs` | modelled, proved |
| Swarm admission | `src/tools/axiom_qwen38_api.cpp` | `SwarmAdmission` (extends `SwarmScheduler`) | modelled |
| Session durability | api, `axiom_qwen38_session_store.cpp`, `axiom_qwen38_kv_tier.cpp` | `SessionDurability` | modelled |
| Deferred persistence | api | `PersistenceHandoff` | modelled |
| Session lifecycle | api, session store | `SessionSelection`, `SessionLifecycle` | partly |
| io_uring queue, prefix reuse, request progress, expert pager and bridge, PLE storage, speculative controllers, GDN and session transactions of qwen4exp, memory plans | see `PROJECT.json` | – | planned |
| kernels, vision, file formats, tools | see `PROJECT.json` | – | out of reach |

`PROJECT.json` lists every part with its reason, the source lines of every definition, and the
hazards the properties were chosen for.

## The modules

**SwarmScheduler.** Every public operation holds the scheduler's mutex, so each is one step on a
record `sched`. The helpers of `struct impl` (`recompute_wave`, `release_resources`,
`finish_attempt`, `expire_running`, …) are operators from one scheduler state to the next, composed
in the order in which the code calls them. A caller's `now` was read before it got the mutex and
may be stale by `Skew`. Events, names and reasons are left out.

**SwarmAdmission.** `admit_swarm_request` and what follows it, on top of the scheduler's own
actions: one program counter per request thread; `swarm_lease_mutex`, the parked leases, the
execution lock and `active_request_sequence`. Clients disconnect, operators cancel, deadlines and
queue timeouts pass. Token counts play no part in admission and are left out: a request's token
budget is empty and it reports zero tokens.

**SessionDurability.** One session across activations and processes: the manifest, the journal and
the tier file of each generation, page contents as the turn that computed each token, and one step
for each disk operation, so that a failure or a crash can come between any two. `Kill` ends the
process and keeps what was written, synced or not; `Crash` lets every unsynced object keep any of
the values it may have.

**PersistenceHandoff.** The threads around the persistence queue: `acquire_generation_session_lock`,
`enqueue_persistence_job`, the worker's loop, `complete_persistence_operation`, the inline fallback,
exceptions in a job, and `main`'s shutdown. Condition variables and mutexes are steps of their own;
none of them is fair.

**SessionSelection, SessionLifecycle.** `SessionSelection` is the selection of
`prune_stale_sessions` as a function. `SessionLifecycle` has the lease counts of requests and jobs,
the maintenance worker, and the steps by which a pass renames, syncs, unlinks and removes. Queued
jobs are a sequence: a request adds one whenever none is pending, while the worker may still have the
previous one, with its lease, to destroy. A job that a request runs itself holds its lease only while
the request leases the same namespace, and that extra lease is left out. Taking
`session_lease_mutex`, building the protected set and scanning are one step, because what other
threads do in between could as well come before it. The ages a scan finds are arbitrary, which covers
any movement of the clock. `main`'s own handling of its startup session (it creates the directory and
protects it in the first pass), the validation of directory entries and the worker's own shutdown are
left out; a request that names the startup session is a request like any other.

`SessionDurability` looks inside a namespace that stays; `SessionLifecycle` looks at namespaces that
come and go; `PersistenceHandoff` justifies that both treat a job as the only user of the model.

### What is assumed of the file system

An object on disk is a pair: what a read returns, and the set of values a machine crash may leave.
A write, rename, creation or unlink adds a value to the set; a sync leaves one. An unsynced page or
header may also be torn.

* `SessionDurability` takes the session's directory as one object, so changes to its names survive a
  crash in order. Journaling file systems do this; POSIX does not require it. An earlier form of the
  model let each name survive independently, and there `RestoredPrefix` failed: a process killed
  between the manifest's rename and its sync, then another turn and a power failure, can leave a
  newer journal beside an older manifest. The property holds under the assumption only.
* It also takes the namespace's own directory as durable: `make_directory_recursive` does not sync the
  root after `mkdir`, and a publication syncs only the namespace.
* `SessionLifecycle` makes no assumption about the order of operations in different directories. The
  root and each namespace are separate objects. It therefore allows a young namespace to be lost
  whole.

## What the runs check

| Run | Instance | Shows |
|---|---|---|
| `swarm_core` | 1 agent, 1 capped wave, 2 tasks, one with deadline, token budget and retry and one with a budget only, stale clocks | `TypeOK`, `LeaseAccounting`, `WithinLimits`, `WaveStateIsVerdict`, `TelemetryAgrees`, `BudgetHeld`, `CancellationSticks` |
| `swarm_tree` | waves below waves and below tasks | `CancelledWaveDrains`, `TerminalForever`, `NoOvertaking` |
| `swarm_queue` | 3 tasks, a queue of 1, retries | `BacklogBounded` |
| `admission` | 2 threads, one slot, a deadline and a queue timeout | `AdmissionTypeOK`, `LeaseNotLost`, `SlotHasOwner`, `NoStaleLease`, `SlotKept`, `EveryRequestEnds` |
| `session_crash` | 2 turns, 2 generations, pages of 2 tokens, a context of 3 | `SessionTypeOK`, `RecoveryDecides`, `ManifestHasTier`, `CommittedTokensSurvive`, `PublishedStays` |
| `persistence_handoff` | 2 threads, 3 requests of up to 2 generations, shutdown at any time | `HandoffTypeOK`, `PendingExact`, `JobOwnsModel`, `ShutdownDrains`, `PublishedInOrder`, `RequestReturns`, `ShutdownEnds` |
| `session_selection` | all inputs with up to 4 sessions, times, lifetimes and caps up to 3, and `now` fixed at 2, so that some times lie in the future | `SelectionSound` |
| `session_lifecycle` | 2 threads, 2 namespaces, cap 1, lifetime 1 | `LifecycleTypeOK`, `LeasesCounted`, `NamespaceUsable`, `NeverHalfVisible`, `LeasedStays` |

Three runs show where the code and a statement of the repository part; each has a finding in
`PROJECT.json`.

| Run | Violated | Against |
|---|---|---|
| `swarm_failure_propagation` | `FailurePropagates`: a task whose parent task has failed is started | `docs/qwen38/SWARM.md` |
| `generation_visible` | `GenerationIsVisible`: a request whose deadline passes between admission and the execution lock generates while `active_request_sequence` is 0 (`SlotKept` shows that the expiry of its attempt is the only way to lose the slot) | comment on lifecycle GC in the api |
| `session_half_visible` | `NeverHalfVisible`, if a process ends (or a sync fails) between a tombstone's rename and its sync: the next pass empties the tombstone before the rename is durable | `docs/qwen38/KV_NVME.md` |

The last one needs a file system that does not order operations of different directories;
`session_lifecycle` shows that the property holds when that one window is excluded.

### Bounds, and why they are enough

* Two request threads: all hand-offs in admission and persistence are between a thread and one other.
  A third would be another waiter in the same position; this is an argument, not a check.
* In `swarm_core` the wave's cap is the limit that binds; the agent's and the scheduler's limits are
  covered for every value by `LimitsHold`. A task whose report uses up its budget is retried once.
* Three queued tasks against a queue of one and one slot: the smallest instance in which a retry can
  exceed the queue.
* Pages of two tokens and a context of three give a full page, a partial page, a watermark on a
  boundary and one inside a page. Two turns give a published turn and one that extends or replaces
  it; two generations give one to collect. `RestoredPrefix` alone was also checked with three turns
  over one generation (263,131 states); three turns over two generations is too large and was not
  completed.
* Two request threads are enough for three leases of one namespace: a request, its own job, and a job
  the worker has not yet destroyed. `LifecycleTypeOK` shows that there are never more than two jobs.
* Two namespaces and a cap of one let every publication make a victim. The order of victims does not
  matter to the properties checked there; `session_selection` checks the order on four sessions.
* Symmetry is used only in `session_lifecycle`, for the request threads, and without liveness.

### Fairness

* `admission`: weak fairness of each request thread (it keeps running unless a mutex it needs is
  taken), of time, and of the end of a generation, which its token limit bounds. The instance has all
  requests arrive before the last tick, because a deadline must still be able to pass: with later
  arrivals `EveryRequestEnds` fails at the bound `MaxClock`, for that reason only. The safety
  properties were also checked with later arrivals (60,280 states).
* `persistence_handoff`: weak fairness of each thread's steps. Nothing is assumed of the fairness of
  mutexes or of which waiter a notification wakes.
* Of the passing runs only `admission` does not check for deadlock: when all requests are done the model stops.
* Nothing promises that retention runs under steady load: the maintenance worker defers a pass each
  time it finds a generation active. No liveness is claimed for it.

## What is proved

`SwarmSchedulerProofs` proves, for every number of agents, waves and tasks and for all limits,
budgets, policies and clock skews that `SpecsAssumption` and `ConfigAssumption` allow:

* `TypeCorrect`: `Spec => []TypeOK`;
* `LeasesAccounted`: `Spec => []LeaseAccounting`, the counters the guards of `admit_next` read are
  exactly the tasks that run;
* `LimitsHold`: `Spec => []WithinLimits`, so the limits bound what really runs.

`LeaseAccounting` is not inductive by itself: ending an attempt gives slots back to the agent and the
wave that the *task's record* names, so the invariant has to say that records name what exists and
that a task has an agent exactly while it runs. The inductive invariant `Good` is a predicate on a
scheduler *state*, not on the variable. Each helper of `struct impl` gets a lemma that it maps good
states to good states; operations are compositions of helpers, so each action's step cites the
lemmas of the helpers it calls. `WithinLimits` then follows from the accounting, because only
`admit_next` increases a counter and its guard is about the counter.

### Only model-checked

Everything else. Liveness (`EveryRequestEnds`, `RequestReturns`, `ShutdownEnds`) is out of the
prover's reach. The invariants of admission, persistence, durability and lifecycle have no proofs
yet. The selection of sessions is a fold over a sorted sequence, and what a fold computes for every
input needs induction over data, which the prover cannot do.

## Observations that are not properties

* A crash, or a failed header write, in `axiom_qwen38_kv_tier_create` between the allocation of the
  file and its header leaves a file that every later create rejects. Only a generation that no
  manifest names can be hit.
* `docs/qwen38/KV_NVME.md` says deployments must serialize lifecycle GC with generation and
  persistence. The server does not quite: the worker looks once for an active generation, and a job
  may publish during a pass. The leases make the overlap harmless (`NamespaceUsable`, `LeasedStays`).

* `admit_next` is called with the time a polling thread read at the top of its round. A delayed thread
  can so start another request's attempt with a deadline counted from before that request was
  submitted, and the attempt expires before the request's own deadline. TLC shows this with requests
  that arrive later; nothing in the repository says otherwise, so it is a hazard and not a finding.
* At startup `main` compares the startup session's tier with its manifest and runs no recovery first.
  Requests may use that session's id, so a crash between its commit and its publication can leave a
  difference that makes `main` refuse to start. `main`'s check is not modelled.
* Three hazards of the expert pager (an eviction between a hit and its upload, a lease destroyed by
  `rollback` under the mutex, a commit that marks another generation's entry) were found by reading
  and are listed in `PROJECT.json`. No run shows them yet.

## Plan

In order of importance; the first five are done.

1. `SwarmScheduler` with proofs of accounting and limits.
2. `SwarmAdmission` on top of it.
3. `SessionDurability`.
4. `PersistenceHandoff`.
5. `SessionSelection` and `SessionLifecycle`.
6. `ExpertPager`: RAM and GPU slots, leases, pins, generations, orphaned loads (`expert_pager.cpp`),
   with an abstract cache specification it implements; then the bridge that uses it.
7. The KV tier's io_uring queue (`kv_tier.cpp`, submission and completion, failed submissions,
   pages freed while in flight) and the PLE row cache with its I/O worker.
8. Speculative decoding: draft, verify, accept and roll back; GDN and session transactions of
   qwen4exp, with "every layer commits the same prefix" as the property.
9. Pure functions against references: prefix reuse and resume prompts, memory budgets.
10. Refinement: `PersistenceHandoff` and `SessionDurability` implement a one-step "turn is published
    or not" session.
11. Proofs: `PendingExact` and `JobOwnsModel` of the hand-off; `LeaseNotLost` of admission;
    `PublishedStays` and `ManifestHasTier` of durability; `LeasedStays` of the lifecycle.

## Running

```
tlc -workers 2 -config MCSwarmScheduler.cfg MCSwarmScheduler
tlapm SwarmSchedulerProofs.tla
```

Each run of `PROJECT.json` names its module and configuration. The mutants listed there are small
faults in one definition; each makes its run report the property it is listed with.
