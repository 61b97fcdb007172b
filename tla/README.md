# A TLA+ model of setu-ts

setu-ts is a TypeScript application framework: a kernel that composes plugins, and
some fifty packages under `packages/`. Most of them adapt an external service or
compute a function of one request. A few carry protocols of their own: several
replicas, or several asynchronous callers of one process, share state and must not
lose, repeat or overlap work. This directory models those, checks them with TLC and
proves what matters most with TLAPS.

Paths below are relative to `packages/` of the repository.

## 1. Inventory

### Components modelled

| Component | Code | State | Operations | Correct when |
| --- | --- | --- | --- | --- |
| Idempotency store contract | `common/src/services/idempotency.ts` | one record per key: absent, pending (token, fingerprint, lease) or completed | claim, complete, release | replays come from an equal, completed request; handlers of a key overlap only after a lease lapsed |
| Idempotency over Redis | `idempotency-plugin/src/stores/redis-*.ts`, `middleware/http-middleware.ts` | Redis hash per key with PX expiry; each request's place in the middleware | three Lua scripts, the middleware around the handler | it implements the contract although commands and answers are lost, late, or outlive their replica; a completed record is kept for its time |
| Idempotency in memory | `idempotency-plugin/src/stores/memory-store.ts` | entries, keys per scope, scope of key, bytes, sweep times | claim, complete, release, disconnect, sweeps | it implements the contract; the indexes agree; capacity refuses and never evicts |
| Worker pool | `worker-pool-plugin/src/pool/*.ts`, `services/worker-pool-service.ts` | per module: slots and pending tasks; shared: workers, waiters, reservations, wake-ups | run, worker messages and deaths, timeouts, budget grants, shutdown | no task lost or settled twice; the budget is kept; demand is always in line; every queued task leaves the queue |
| Resilience chain | `resilience-plugin/src/patterns/*.ts`, `services/resilience-service.ts` | bulkhead count and queue; breaker state, failures, trial flag | invoke, abort, resume, attempt ends, report, leave | one half-open trial at a time; no slot leaked; nothing started after an abort |
| Queue over Redis | `queue-plugin/src/adapters/redis-queue*.ts`, `services/queue-service.ts`, `processors/job-processor.ts` | sorted sets ready, processing, dead; hashes payload, claims, stalls; per replica: polls, runners, renewals | add, poll, dispatch, run, renew, settle, connect, disconnect; five Lua scripts | no job lost or in two places; leases exclusive; attempts counted; stale settlements change nothing |
| Outbox relay | `messaging-plugin/src/outbox/*.ts`, `database-plugin/src/outbox` | rows with status, claim version, lease, availability, attempts; per relay: its lap (cursor, blocked keys, cap), the page read, the row in hand | write, sweep (seed, scan, examine, claim, fence, publish, settle), release, purge, close | nothing settled that the broker has not; one publish of a row at a time; per-key order; every row delivered in the end |
| Inbox contract | `common/src/services/inbox.ts` | what is recorded of a message, what the broker was told of each copy | deliver, apply, park, release, forget | work is committed only while nothing is recorded, a copy acknowledged only while something is |
| Inbox | `messaging-plugin/src/inbox`, `database-plugin/src/inbox` | marker and failure-count rows; per copy: its place in the delivery | deliver, run, record a failure, park, release, purge | it implements the contract on eager and deferred backends; a message is not parked early; a redelivered copy is acknowledged in the end |
| Agent runs | `agent-runs-plugin/src` (lease, loop, approvals, sweep, service), `database-plugin/src/agent-runs` | the run's row, entry and approval rows, per instance: its step loop | claim, renew, model, approvals, tools, append, park, wake, decide, expire, cancel, sweep | one true result per call; no unapproved work; a run ends |
| Scheduler | `scheduler-plugin/src` (service, lock, jobs, timers) | per replica: registry, entries with timer, scope, claim and token; fires under way; in Redis: slot, mutex and name locks | every/cron, delay, pause, resume, remove, connect, disconnect, fire, retry; SET NX PX and the token-checked delete | a slot runs once; fires of a job do not overlap; a stopped job does not run; no job drops out of its schedule |

How they interact. The HTTP middleware calls a store through the port
`IIdempotencyStore`; both stores are substitutable because both implement
`IdempotencyContract`. The pools of the worker-pool service call each other only
through `WorkerBudget`, which wakes a pool in a microtask. `wrap()` nests the
resilience patterns, so a call leaves through each layer in a microtask of its own,
between which other calls enter. Replicas of the queue meet only in Redis, where each
script is atomic; their calls time out locally while the server still executes them.
Relays of the outbox meet in the rows of the store, each write conditional on a row's
status and claim version; the copies they may publish twice are what the inbox absorbs,
whose marker commits with the handler's work. The instances of an agent run meet in the
run's row: every write is conditional on the lease version, and entries and approvals
are rows that count only once the run's row says so. Replicas of the scheduler meet only in
the locks of Redis: a slot's lock is never released, the mutex of a job and the name of a
one-shot are released by the token that took them.

### Components not modelled yet (planned, in this order)

| Component | Code | What makes it hard |
| --- | --- | --- |
| Ejection tracker | `service-discovery-plugin/src/services/ejection-tracker.ts` | the cap on ejected instances while instances come and go |
| Cache single-flight | `cache-plugin` | a load that started before an invalidation and ends after it |
| Kernel lifecycle | `kernel` | plugin order, start and stop with a failure part-way |
| Refresh-token rotation | `auth-plugin` | concurrent use of one token |
| Once-within-a-transaction | `idempotency-plugin/src/within` | claim and completion inside the caller's transaction |

The rest is listed in `PROJECT.json` with its reason: drivers and adapters of external
services (pure I/O), pure functions (validation, rendering, configuration), developer
tooling, and packages that are sequential within one request.

## 2. Modules

| Module | What it is |
| --- | --- |
| `IdempotencyContract` | the abstract store: one cell per key, time as an `Age` step |
| `RedisIdempotency` | the middleware of several replicas over the Lua scripts; refines the contract |
| `RedisIdempotencyProofs` | the contract's invariant and theorems, the refinement, and the theorems carried over |
| `MemoryIdempotency` | the middleware over the memory store, every method of it; refines the contract |
| `MemoryIdempotencyProofs` | its books, retention and refusals, the refinement, and the contract's theorems as above |
| `WorkerPool` | all pools and the budget in one record, each handler a function of it |
| `Resilience` | calls of one hardened function, the bulkhead and the breaker |
| `ResilienceProofs` | the chain's invariant and every safety property of its run |
| `RedisQueue` | one queue name: scripts, replicas, job runners |
| `RedisQueueProofs` | the queue's invariant and every property of its run |
| `Outbox` | the relays and the store's rows, with clock skew and late writes |
| `OutboxProofs` | types, and every safety property of the run: nothing lost, one publish at a time, order |
| `InboxContract` | the abstract inbox: one message of one consumer |
| `Inbox` | deliveries, the store's two rows, operator and purge; refines the contract |
| `InboxAndPoolProofs` | of the inbox: types, the refinement, `ParkedNotEarly`; of the worker pool: the invariant between two handlers, and every safety property of its run |
| `AgentRuns` | one run, the step loops of its instances, deciders and the sweep |
| `AgentRunsProofs` | its inductive invariant, types and `AnswersTrue` |
| `Scheduler` | one job name: the replicas' service and its fires, over the lock in Redis |
| `SchedulerProofs` | its inductive invariant in three parts, and every property of its run |
| `MC*` | instances for TLC: topology, symmetry |

The inbox and the worker pool have nothing to do with each other but a module of proofs that
extends both, which is why the initial state, the next-state relation and the types of the inbox
carry its name (`InboxInit`, `InboxNext`, `InboxSpec`, `InboxTypeOK`).

### Correspondence with the code

**RedisIdempotency.** A request is a *caller*; its token is the caller itself, since the
code draws a fresh UUID per claim. `pc` is where the middleware stands. `Claim`,
`ClaimAnswered`, `HandlerEnds`, `SettleAnswered` are the segments between two awaits;
`CallFails` is a rejected await (command timeout, connection error), after which the
command stays `inflight` and may still execute (`ExecClaim`, `ExecComplete`,
`ExecRelease`) or be lost (`Lose`). `Crash` stops a caller anywhere. `now` is Redis
`TIME`; `Tick` also expires keys (PX). The refinement reads a caller's fate from its last
command and the server's answer: a caller whose claim may still execute counts as new, one
whose settlement may still execute counts as running, so every server step maps to a
contract step and every middleware step that is not an abandonment to a stutter.

**MemoryIdempotency.** A store call is synchronous, so one action is the whole call with
its lazy expiry, sweeps, capacity checks and the four indexes. `store` is a record of the
private fields. Expired entries map to free cells whether or not they were removed.

**WorkerPool.** One variable `sys` holds the fields of all pools and the budget, because
a handler of one pool (`pump`, `dropSlot`, `release`) changes the others'. `Pumped` is
`pump()`: dispatch, spawn loop, yield of idle workers. `wakes` are the microtasks of
`reserve()`; `Turn` (a macrotask may run) requires that none is left. `SlotStep` is an
event of a worker, `Run` a call of `run()` for a task not yet submitted or already
settled, so demand never ends.

**Resilience.** `stage` is where a call stands in the chain. `Invoke` and `Resume` enter
synchronously as far as the first attempt; `AttemptEnds`, `BackoffEnds`, `Report`, `Leave`
are the microtasks on the way out. A sleep ends at any later step (lengths are abstracted).
The order of microtasks is left free, which includes every order the runtime can produce.

**RedisQueue.** `deliveries[j]` is the history of every row a reserve returned for job `j`;
the index is the claim token, so claimseq (one counter for all jobs) becomes one per job:
tokens are only compared for equality within a job. A delivery's `stage` is where its
runner stands (`granted` before the answer of the reserve is processed), `command` the
settlement under way, `extending` a renewal under way. Lua scripts are the `Exec` actions.
A call that rejects (`PollFails`, `CallEnds`) leaves its command to execute later or never:
a lost command is one that stays pending. `late` holds the reserves whose replica gave up;
the jobs they lease have no runner (`over`). `Disconnect` stops polling and renewal while
processors run on and are refused on settlement; `Crash` also ends the runners. A renewal
whose call timed out keeps its flag until it executes, so at most one is under way per
delivery. The lengths of backoffs and of the renewal interval are abstracted: a retry delay
is a member of `Delays`, a renewal may be sent at any time, or never.

**Outbox.** Rows are numbered by position. `pc[r]` is the call of relay `r` under way:
`idle` between the calls of a sweep, `row` with a page in hand, then `claim`, `fence` (the
claim was granted, its answer is being processed), `publish`, `sent` or `failed` (the
settlement), `invalid` (poisoning a row that does not decode). `lap` is `OutboxLap` and
outlives the sweep, as `#laps` does. A sweep that has no row in hand keeps nothing but its
lap, so the end of one sweep and the beginning of the next are one state. `page` holds rows
as they were read; a conditional write compares the version read with the row's. A call that
is rejected (`WriteFails`) ends the sweep and joins `late`, from where it may apply at any
time or never; so does the last write of a crashed instance. Times are relative to the true
time, so that no clock needs a bound; `Offset[r]` is how far a relay's clock is ahead. Only a
publish takes time, at most `PublishTimeout`, unless the process is `paused`, when any time
may pass. `failedSince` is history: the rows others failed since a relay seeded its lap.

**Inbox.** `pc[d]` is where the delivery of copy `d` stands: `begin` and `handler` inside
`run`'s transaction, `reread` after any rejection, `count`, `record`, `recount` inside
`recordFailure`, `exhausted` or `unparsed` at `park`, `exists` when `park` found a marker.
`eager` is the backend: one that refuses (or delays) a second marker when it is created, or
one that refuses it at commit. `Abandon` is a store call that fails or times out, or the end
of the process, anywhere; a write under way then joins `late`. A purge reads ids
(`PurgeReads`) and deletes them one by one later (`PurgeDeletes`), whatever row has the id by
then; a release writes the marker and then deletes the count, and may stop between the two.

**AgentRuns.** `loop[i]` is the step loop of instance `i` with what it carries: the lease
version, the number of entries and the set of answered calls it has loaded, and its view of
the approvals. `Hold`, `Create`, `Orphan`, `Delete` and the commits are `#insert` and the
write that makes the row count; `StoreFails` is a store call of any of them that rejects
after it did its work, or before. A tool runs in a transaction that commits with its
idempotency record; one given up by its caller stays `open` and may still commit. `after`
is what a decider or canceller has left to do: write its log under a brief lease, release
it, wake the run. Time is one fact, `run.lapsed`: the lease has run out by every clock,
which happens to the lease of a live holder only as a fault.

**Scheduler.** `job[j]` is the entry of registration `j` with the private maps the service
keeps for it: `handle` and `scope` are the latest timer and `AbortController`, `flight` and
`rearm` are `#inFlight` and `#rearmOnSettle`, `hasty` stands for a pause count that moved
during a resume. `fires` has one element per timer armed; its `stage` is where `#fire` stands.
`wire[r]` are the commands of a replica that are not answered: one connection executes and
answers them in order. `GiveUp` is a call that rejects or misses its bound: the command stays
(`nobody` waits, or `late`, whose token is released when it comes), is followed by
`RedisLock.acquire`'s own delete, or is lost. `named` is `#names`, which `disconnect()` walks.
The generation counter has no field: it can only have changed during a fire that a pause has
aborted, and an aborted fire returns before the comparison. Slots are one unit of time apart;
backoffs end at any later step, at once after an abort. `rushed`, `dropped`, `runs` and
`since` are history; a run in `runs` names the fire it belongs to.

## 3. Runs

| Run | Instance | Question |
| --- | --- | --- |
| `redis_idempotency` | 3 requests, 1 key, 2 fingerprints, lease 1, retention 2, time to 3 | does the middleware over Redis implement the contract, and keep records, when commands are lost or late and replicas crash? |
| `memory_capacity` | 4 requests, 2 scopes of 2 keys, 1 entry per scope, 2 in all | do the indexes agree and does capacity only ever refuse, and never on account of the dead? |
| `memory_contract` | 3 requests, 3 keys, 2 fingerprints, 2 entries | does the memory store implement the contract while it expires, sweeps and closes? |
| `worker_pool` | 3 modules, 5 tasks, 2 workers, 1 uncloneable and 2 timed tasks | conservation, the budget, demand in line, and progress of every queued task |
| `resilience` | 4 calls, 2 slots, 1 waiting place, threshold 1, 2 attempts | the trial is exclusive, slots are not leaked, aborts are final |
| `bulkhead_capped` | 3 calls, 1 slot | *expected violation*, see section 6 |
| `redis_queue` | 1 job, 2 replicas with clocks 1 apart, lease 2, 2 attempts, time to 2, 1 fault | placement, attempts, exclusive leases, concurrency, fenced settlements, closed jobs |
| `outbox` | 2 relays with clocks 1 apart, 2 rows of 1 key, lease 2, 2 attempts, 1 fault, 1 release | is every row delivered, in order, by one relay at a time, and none settled in vain? |
| `outbox_order` | the same with 1 attempt | *expected violation*, see section 6 |
| `inbox` | 2 copies, 2 attempts, 1 fault, 1 release, 1 passing of the retention | does the inbox implement its contract, park in time and acknowledge in the end? |
| `agent_runs` | 2 instances, 2 calls of which 1 waits for approval, 2 tool attempts, 1 fault, 1 cancel | one true result per call, no unapproved work, and does the run end? |
| `scheduler` | 2 replicas with clocks 1 apart, a registration each, lease 1, delay 1, 2 attempts, time to 2, 3 events at one replica | is a slot run once, a stopped job not run, and no job dropped from its schedule? |

Each property of each passing run is listed in `PROJECT.json` with a mutant: a plausible
bug in the mapped definition (a token not compared, a clock swapped, a guard dropped) under
which the same run finds the property violated.

### Why the bounds are enough

* *Time.* `MaxTime` lets a lease lapse, be taken over and, with the retention, expire at
  least once: lease + retention for the stores (3 and 4), one lease for the queue. At time 2
  the queue's job granted at 0 is reclaimed, and a job requeued at 0 and reclaimed at 2
  passes its two attempts, so the over-budget path is reached.
* *Actors.* Every stale-holder scenario needs an old holder, a new one and a third party
  that observes the result: three callers of one key. Four for capacity, one per key. In
  the queue the deliveries of one job play these parts; a second replica adds the clock
  ahead of the server's. Keys, jobs and scopes do not interact except through capacity,
  which has a run of its own, and batches of the queue, which the theorem on its concurrency
  covers.
* *Worker pool.* Three modules and two workers: a pool with work and no worker, one that
  holds its worker, one that holds the other. `SpawnFaults = {{}, {1}}`: in a pump either no
  spawn or the first throws; the later ones repeat the first on a shorter queue.
* *Faults.* `MaxFaults = 1` in the queue: one crash, disconnect or timed-out reserve. A
  second multiplies the states without a new pair of stale command and current delivery;
  the theorems hold for any number. Settlements and renewals may be late or lost without bound.
* *Outbox.* A second row of the key is what order needs, a second relay what a stale
  claim needs; one fault gives each a crash, a pause past every lease, a rejected publish or a
  write that applies late, in any place. `Lease = 2` is the least the plugin's own check admits
  with a publish bound and a skew of 1. `Rows` that no key orders behave as those of a key of
  their own.
* *Inbox.* A second copy makes every race of two handlers, of two counts, and of a count
  with a park; `Rounds = 1` makes contention give up at once. The theorems cover any number.
* *Agent runs.* Two calls, one of which waits: the first entry of a result while the other
  approval is pending, the last decision against the park, a takeover with a pending, a
  committed and an orphaned row. One fault: a crash or a stalled lease makes a stale holder
  beside the new one; a second would make a third generation of the same pair.
* *Scheduler.* `MaxEvents = 3` at one replica (`Unsteady`): pause, resume and remove in one
  fire, or a call given up between two of them. The other replica registers the same name and
  runs undisturbed, a unit of time ahead, so slots are contended from both sides. `MaxTime = 2`
  lets a timer fire, be armed again and fire while the first lease lapses.
* The proofs of section 5 lift these bounds where they apply.

### Deadlock and fairness

`CHECK_DEADLOCK FALSE` is set wherever the system may really stop: the clock is bounded,
every request ends, the worker pool is shut down, the bounded faults and events are used up,
a run has ended. The outbox (its clock) and the inbox (redelivery) never stop.

*Worker pool*, `NobodyWaitsForever`: every queued task leaves the queue. `FairSpec` assumes:
`WF(Resume)`, since microtasks run to the end before the next turn; `[]<>Turn`, that callers
do not submit from microtasks for ever, which would starve any event loop; `SF(Reports(p))`,
that a worker of a pool that keeps having workers becomes ready, misses its startup
deadline, or sees its handler return. It does not assume that a task timeout exists.

*Outbox*, `Delivered`: a committed row is accepted by the broker, unless an operator discards
it or failed rows hold it back. `WF(Sweeps(r))`: the scheduler dispatches sweeps again and
again, and the calls of a sweep answer; `SF(Examine(r))`: a sweep's budget does not run out
before its first row each time; `SF(Tick)`: time goes on.

*Inbox*, `Acknowledged`: `WF(Serves(d))`, a broker delivers a rejected copy again and a
delivery runs to its end. The limit of attempts parks a message whose handler never works.

*Agent runs*, `Ended`: `WF(Loop(i))`, a live instance drives the loop it holds; `WF(Sweep)`,
some instance scans for runs to claim or wake; `WF` of `Lapse` for the lease of a holder that
is gone; `WF(Settle(c))`, every approval has a deadline and every transaction ends;
`WF(WakeAfter(a))`, whoever decided goes on to wake the run unless it dies.

In each of these the faults are finitely many. No liveness is stated for the queue, the
scheduler and the stores: nothing in the code bounds how long the event loop or the server may stall, so a
lease may always lapse first.

## 4. Properties

The comments beside the definitions say what each one means for the code. The ones that
would fail first if the code were changed carelessly:

* `Implements` (both stores): any store operation that leaves the contract. That replays are
  faithful and that handlers overlap only after a lapsed lease (`ReplayFaithful`, `Exclusion`)
  are theorems of the contract, and follow for both systems by refinement.
* `RetainedForTtl`: no key is granted within the retention of a completion on it.
* `Accounting`, `RefusalIgnoresTheDead`: an index update missed, or a capacity exceeded; one
  scope's sweep holding back another's.
* `Conservation`, `DemandIsQueued`, `NobodyWaitsForever`: a task lost, a budget overdrawn, a
  pool stranded without a wake-up.
* `SingleProbe`, `ProbeExclusive`, `NoIdleSlot`, `NoWorkAfterAbort`.
* `Placed`, `Exclusive`, `AttemptsCount`, `ClaimRespected`, `ClosedForGood`,
  `WithinConcurrency`.
* `ExclusivePublish`: a fence that forgets the skew or the status write; `OrderKept`: a key
  unblocked by a refusal; `NothingLost`: a row settled without its publish; `Delivered`: a lap
  that never ends, a claim nobody takes over.
* `Implements` (inbox), `ParkedNotEarly`, `Acknowledged`: a failing read taken for a marker, a
  late count that hastens parking, a count that never grows.
* `AnswersTrue`, `Ended`: a fence missed, an orphaned row that counts, a result of a call nobody
  approved, a parked run that nobody wakes.
* `NotTwice`: a resumed timer beside the fire it should wait for; `StoppedStays`: a fire that is
  not told of a pause; `ScheduleAlive`: a skipped fire that takes its job off the schedule.

## 5. Proofs

All theorems hold for every value of the constants that satisfies the named assumption of
the module: `RetentionAssumption` (lease and retention are positive naturals, lease not
longer than retention), `CapacityAssumption` of the memory store (finitely many keys, each of
one scope, positive limits, lease not longer than retention), `PolicyAssumption` (bounds of the
policies are positive), `QueueAssumption` (finitely many jobs, a natural skew per replica, a positive visibility
timeout, `None` not a number), `RowsAssumption`, `TimeAssumption` and `LimitAssumption` of the
outbox (finitely many rows, numbered; a lease that covers a publish, two store calls and the
skew, which the plugin checks when it is configured; no clock further ahead than the skew;
positive limits), `LimitAssumption` of the inbox (finitely many copies, natural
limits, at least one round of contention), `PoolAssumption` of the worker pool (each task of one
pool, positive limits, and a sign for no task that is none), and those of the agent runs (finitely many calls
that are numbers, a canceller that is no call, a nobody that is neither instance nor call,
natural limits), and `JobsAssumption` and `TimeAssumption` of the scheduler (finitely many
registrations, each of one replica; a natural skew per replica, a positive lifetime of the locks
and at least one attempt). TLC evaluates them in the runs.

| Module | Theorems | Argument |
| --- | --- | --- |
| `RedisIdempotencyProofs` | `ContractInvariant`, `ContractReplayFaithful`, `ContractExclusion`, `RedisInvariant`, `RedisTypeOK`, `RedisImplements`, `RedisReplayFaithful`, `RedisExclusion`, `RedisRetainedForTtl` | `RInv` ties each record to the last command and answer of the caller it names; each action then maps to a contract action or a stutter, and the contract's theorems carry over through the refinement. Those come first, about `IdempotencyContract` as this module instantiates it: who fills a cell asked for its key (`ContractHeldInv`, `ContractDoneInv`), and whoever runs and did not lapse still holds (`ContractRunningInv`): without it two runners could both believe they hold |
| `MemoryIdempotencyProofs` | the three of the contract again, for its own instance, and `MemoryInvariant`, `MemoryTypeOK`, `MemoryAccounting`, `MemoryRetainedForTtl`, `MemoryRefusalIgnoresTheDead`, `MemoryImplements`, `MemoryReplayFaithful`, `MemoryExclusion` | `IInv`: the indexes and the byte count follow from the entries (`Indexed`, which also shows that the clamp of the byte count at zero never bites); what a scope's sweep left had not expired by then (`Outlives`), without which a throttled sweep could refuse for the sake of dead entries; a claim in the store is of the request that wrote it, and a lapsed one is in the history (`Owned`); a completion ahead of its time is in the store (`Kept`). Expiry of any set of keys keeps all of this, so each call is shown sound after the sweeps that precede it, and maps to `Grant`, `Replay` or `Refuse`, to `Settle`, or to `Age` |
| `ResilienceProofs` | `ResilienceInvariant`, `ResilienceTypeOK`, `SlotsAccounted`, `OneProbe`, `ProbeAlone`, `AbortedStaysIdle` | `QueueInv`: calls in the bulkhead's queue are waiting and stand there once; `SlotInv`: the count of slots is the number of calls that hold one, and while the queue is not empty every slot is held or has been handed on to a call that has not resumed; `DataInv`: failures stand in the order of their times, so that dropping old ones from the front (`Recent`) drops just those out of the window; `BreakerInv`: the flag says whether a trial is inside, and a closed breaker has none. `SingleProbe` alone is not inductive: a late failure of an older call may reopen the breaker under a trial |
| `InboxAndPoolProofs`, worker pool | `AtRest`, `TypeCorrect`, `ConservationHolds`, `DemandQueued` | The invariant, `Resting`, holds between two handlers: the count of the budget is the live slots (`Counted`), each task is in the place the pool of its own says (`Tidy`), a pool needs a worker just when it is in the line or holds a reservation, and a pool with an idle worker has no queue (`Line`), nobody waits while there is capacity (`Full`) or an idle worker. Or the service was torn down (`Down`). It is stronger than the two properties, which do not say that an idle worker means an empty queue. Inside a handler it does not hold: a pump of one pool settles and retires workers, which grants capacity to others, and a reclaim drops several slots of several pools. `Loose` is what holds in between, except for the pools being worked on, and `Moved` says what the others may notice; each step of a handler is shown to keep `Loose`, its loops by counting their steps (`Follows`, `Iterates`), and its last step to restore the rest |
| `RedisQueueProofs` | `QueueInvariant`, `QueueTypeOK`, `QueuePlaced`, `QueueExclusive`, `QueueAttempts`, `QueueClaimRespected`, `QueueClosedForGood`, `QueueWithinConcurrency` | `QInv`: a job with a payload is in one place, and in processing it has its latest delivery's token and deadline (`Leased`); every older delivery was settled or has outlived its lease (`Superseded`); the number the *next* delivery would get exceeds all before (`Counted`). Every step is *quiet* (store untouched), about one job, or a reserve. `BatchInv`: what a replica runs, what it was granted, and the limit of a reserve not yet executed together fit its concurrency. The run has one job; batches of several are covered here |
| `OutboxProofs` | `OutboxTypeOK`, `OutboxNothingLost`, `OutboxExclusivePublish`, `OutboxOrderKept` | only a row the broker accepted is marked sent, also by a write that applies late (`AcceptedFirst`). Each claim version has one owner (`OneOwner`); while an owner may publish, the row as the store holds it and as every relay has read it tells of a claim not ended by that relay's clock (`Leased`), and this is where the assumption on the lease is needed, once for each store call and the skew. A lap that is past a row has seen it accepted, discarded or failed, or has blocked its key, or the row failed since the lap began (`Ordered`) |
| `InboxAndPoolProofs`, inbox | `InboxTypeCorrect`, `InboxImplements`, `InboxParkedNotEarly` | the refinement needs no invariant beyond types: a step of a copy tells the broker, records something or stutters. `ParkedNotEarly` is not inductive: `CountInv` adds that the count, the rejections not yet recorded and the counts that may still arrive late are together at most the rejections there were, unless these have reached the limit |
| `AgentRunsProofs` | `AgentRunsTypeOK`, `AgentRunsAnswersTrue` | `IInv`: no two loops share a lease and no row is newer than the run's (`Versions`); what a loop knows, stale or not, only becomes more true (`Local`); the row it is about to delete does not count while it is still the row it read (`Harmless`); the holder of the lease knows just what counts, and its created row is the one it commits (`Holding`). No step undoes what counts or was written under the current lease (`Durable`), so the steps of others keep what a loop knows (`OthersKeep`). That an answered call leaves room for the next entry is a pigeonhole argument (`RoomLeft`) |
| `SchedulerProofs` | `TypeCorrect`, `NeverTwice`, `NeverDropped`, `StopsStay` | `Base` says of each registration by itself (`JobOk`) that at most one of its fires is not over unless it was `rushed`, which timer, claim and flags go with it, and what a fire that was aborted or waits for a resume still has to do; and of each wire (`WireOk`) that nothing else on it has the token of a command that is awaited, that no name is given up behind its own claim, and that each command fits the stage of the registration that sent it. `NeverDropped` and `StopsStay` follow from it. `Locked`: whoever was granted a mutex, a slot or a name, be the answer still on the wire, has the lock until it expires, since no delete on a wire carries the token of a holder. `Slotted`: a claim of a slot, from the grant on the server through the fire that carries it to the run, is spent once (`Spent`), and two of them are a lock's lifetime apart (`Apart`); `NotTwice` speaks only of the runs, and is not inductive without the grants still on a wire. Every action but the server's, a crash and the clock is shown once to be a step of one registration, one of its fires and one command (`Acts`), and the three parts are shown of that form |

Every safety property of a passing run, invariant or action property, is a theorem. Out of
reach of the prover are liveness and `ENABLED` (`Delivered`, `Acknowledged`, `Ended`,
`NobodyWaitsForever`), which TLC checks, and induction over data as a rule of its own. Where a
handler of the worker pool loops, its intermediate states are a recursive function on `0..n`,
and where the memory store folds over its entries (the byte count, the removal of a set of
keys), the proofs argue by the smallest counterexample among the finitely many subsets of
`Keys` instead (`LeastOf`, `SmallestOf`, `Folded`).

## 6. Findings

`bulkhead_capped`: `patterns/bulkhead.ts` hands a freed slot to a queued call by resolving
its promise, and the call counts itself only when it resumes, a microtask later. A call that
enters `run()` in between sees a free slot and takes it, so more calls than `maxConcurrent`
run, contrary to `common/src/services/resilience.ts:131` ("Maximum concurrent in-flight
executions"). The run shows the trace with one slot and three calls.

`outbox_order`: a lap of `messaging-plugin/src/outbox/relay.ts` takes the keys of the failed
rows with one call (line 576) and its pages of pending rows with later ones. A row that another
relay, or a late write, fails in between is in neither answer, so its key is not blocked and a
later row of the key is published first, although `messaging-plugin/README.md:1106` says that
"Any number of relays keep per-key order among FIRST publishes" and `outbox/lap.ts:8` that "any
key that must stay blocked is already blocked". `OrderKept` states the order with that one
exception and holds.

The properties of the scheduler make three exceptions, each of which TLC showed to be needed
(`rushed` marks the registration): `delay()` arms its timer when its claim is answered
(`services/scheduler-service.ts:401`), also if the job was paused or removed, or the service
disconnected, in the meantime, and the handler then runs; if it was paused and resumed, two
timers are armed and two fires overlap. And `remove()` (line 528) awaits the release of a
one-shot's slot before it looks at the registry: a fire that a resume was waiting for settles in
between, `#track` arms the entry again, and `remove()` drops it from the registry without
clearing that timer. `resume()` makes the corresponding checks after its claim (lines 462-469)
and needs no exception.

## 7. Not modelled in the modelled components

* Idempotency: undecodable stored values (answered 503), derivation of keys and
  fingerprints, headers of a replay, connecting and disconnecting from Redis.
* Worker pool: metrics, texts of errors, waiting for terminated workers.
* Resilience: lengths of backoffs, metrics and events.
* Queue: retention of dead letters and its sweep (`deadLetterTtlMs`; without it a dead
  job's payload stays), recurring jobs, several names per poll (each has its own count and
  reserve), a client without `eval`, for which the adapter itself reports that claims are
  disabled, metrics, depth and health probes.
* Outbox: several stores in one sweep (each has its own laps and rows), the stored form of a
  row beyond whether it decodes, the counters of a sweep's budgets (a sweep may stop before any
  row), metrics.
* Inbox: adapters without conditional writes and stores whose reads lag behind their writes,
  the listing of parked messages, the texts of errors and envelopes.
* Agent runs: further model steps (each repeats the one modelled, on the entries before it),
  the log of chunks and its stream to clients, the check of a definition's version, retention.
* Scheduler: the in-process lock (the same without faults), cron expressions (a slot is a
  number), timers longer than one chunk, the observations collector, the behaviours around the
  handler, a failing logger.

## 8. Plan

In order; each step adds a module, an instance for TLC, the mutants of its properties and,
where it pays, a proof module.

Done so far: the components of section 1. Left, in this order:

1. *Ejection tracker* (the cap while instances come and go), *cache single-flight*, *kernel
   lifecycle*, *refresh tokens*, *once-within-a-transaction*: one small module each, checked.
2. *Proofs*: every safety property of the present runs is proved; the modules to come bring
   their own.
