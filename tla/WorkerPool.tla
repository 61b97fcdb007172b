------------------------------ MODULE WorkerPool ------------------------------
(***************************************************************************)
(* The task pools of packages/worker-pool-plugin and the worker budget     *)
(* they share.  A handler (a call of run, a worker's message or death, a   *)
(* timer) runs to its end in one event-loop turn; only a budget grant is   *)
(* deferred, to a microtask that runs before any further message or timer. *)
(* Tasks may be submitted again once settled, so demand never ends.        *)
(***************************************************************************)
EXTENDS Integers, Sequences, SequencesExt, FiniteSetsExt

CONSTANTS Pools,        \* one per task module
          Tasks, PoolOf,
          Uncloneable,  \* tasks whose input postMessage refuses
          Timed,        \* tasks run with a timeout
          Limit,        \* the budget's limit on workers
          Size,         \* config.size
          MaxQueue,     \* config.maxQueue
          SpawnFaults   \* which spawn attempts of one pump may throw

NoTask == [none |-> TRUE]

ASSUME PoolAssumption ==
  /\ PoolOf \in [Tasks -> Pools] /\ {Uncloneable, Timed} \subseteq SUBSET Tasks
  /\ {Limit, Size, MaxQueue} \subseteq Nat \ {0} /\ SpawnFaults \subseteq SUBSET Nat
  /\ NoTask \notin Tasks

VARIABLE sys  \* the fields of every TaskPool and of the WorkerBudget

Started == [ready |-> FALSE, task |-> NoTask]
Slots == [ready: BOOLEAN, task: Tasks \cup {NoTask}]

Init == sys = [slots |-> [p \in Pools |-> <<>>],
               queue |-> [p \in Pools |-> <<>>],   \* pending
               open |-> {},                        \* tasks not settled yet
               pools |-> <<>>,                     \* in creation order
               workers |-> 0, waiters |-> <<>>, reserved |-> {},
               wakes |-> <<>>,                     \* microtasks of reserve()
               closed |-> FALSE]
-----------------------------------------------------------------------------
(* The budget and the pools' private methods, as functions of s. *)

(* step(..., n) applied to s for 1, 2, ..., n; each result is bound, so     *)
(* that TLC computes it once.                                              *)
Iterate(step(_, _), s, n) ==
  LET it[i \in 0..n] == IF i = 0 THEN s
                        ELSE CHOOSE t \in {step(u, i) : u \in {it[i - 1]}} : TRUE
  IN it[n]
Repeat(step(_), s, n) == Iterate(LAMBDA t, i : step(t), s, n)

Idle(slot) == slot.ready /\ slot.task = NoTask
StartingAt(s, p) == {i \in DOMAIN s.slots[p] : ~s.slots[p][i].ready}
IdleAt(s, p) == {i \in DOMAIN s.slots[p] : Idle(s.slots[p][i])}

IsStarved(s, p) == s.queue[p] # <<>> /\ s.slots[p] = <<>>
HasStarvedWaiter(s) == \E p \in ToSet(s.waiters) : IsStarved(s, p)
NeedsWorker(s, p) == /\ ~s.closed
                     /\ Len(s.slots[p]) < Size
                     /\ Len(s.queue[p]) > Cardinality(StartingAt(s, p))

Free(s) == Limit - (s.workers + Cardinality(s.reserved))

(* The first starved waiter goes first, else the first; one that no longer *)
(* needs a worker only leaves the queue.                                   *)
ReserveOne(s) ==
  LET starved == {i \in DOMAIN s.waiters : IsStarved(s, s.waiters[i])}
      i == IF starved = {} THEN 1 ELSE Min(starved)
      t == [s EXCEPT !.waiters = RemoveAt(@, i)]
  IN IF s.closed \/ Free(s) <= 0 \/ s.waiters = <<>> THEN s
     ELSE IF NeedsWorker(t, s.waiters[i])
          THEN [t EXCEPT !.reserved = @ \cup {s.waiters[i]},
                         !.wakes = Append(@, s.waiters[i])]
          ELSE t

Reserve(s) == Repeat(ReserveOne, s, Len(s.waiters))
Cancel(s, p) == Reserve([s EXCEPT !.waiters = RemoveFirst(@, p), !.reserved = @ \ {p}])

DropSlot(s, p, i) == Reserve([s EXCEPT !.slots[p] = RemoveAt(@, i), !.workers = @ - 1])

RetireIdle(s, p) ==
  IF IdleAt(s, p) = {} THEN s ELSE DropSlot(Cancel(s, p), p, Min(IdleAt(s, p)))

HasRoom(s, p) == p \in s.reserved \/ Free(s) > 0

(* tryAcquire fails: wait, and make the first other pool with an idle      *)
(* worker give it up.                                                      *)
Await(s, p) ==
  LET t == IF p \in ToSet(s.waiters) THEN s ELSE [s EXCEPT !.waiters = Append(@, p)]
      idle == {i \in DOMAIN s.pools : s.pools[i] # p /\ IdleAt(s, s.pools[i]) # {}}
  IN IF idle = {} THEN t ELSE RetireIdle(t, s.pools[Min(idle)])

Spawned(s, p) == [s EXCEPT !.slots[p] = Append(@, Started),
                           !.workers = @ + 1, !.reserved = @ \ {p}]

FailOldest(s, p) ==
  IF s.queue[p] = <<>> THEN s
  ELSE [s EXCEPT !.queue[p] = Tail(@), !.open = @ \ {Head(s.queue[p])}]

(* Mutant: a slot whose dispatch failed keeps its task. *)
ClingingHandOver(s, p, i) ==
  IF ~Idle(s.slots[p][i]) \/ s.queue[p] = <<>> THEN s
  ELSE LET t == Head(s.queue[p]) IN
       [s EXCEPT !.queue[p] = Tail(@), !.slots[p][i].task = t,
                 !.open = IF t \in Uncloneable THEN @ \ {t} ELSE @]

(* dispatch: a task that cannot be posted fails and leaves the slot idle. *)
HandOver(s, p, i) ==
  IF ~Idle(s.slots[p][i]) \/ s.queue[p] = <<>> THEN s
  ELSE IF Head(s.queue[p]) \in Uncloneable THEN FailOldest(s, p)
  ELSE [s EXCEPT !.queue[p] = Tail(@), !.slots[p][i].task = Head(s.queue[p])]

DispatchAll(s, p) ==
  Iterate(LAMBDA t, i : Repeat(LAMBDA u : HandOver(u, p, i), t, MaxQueue),
          s, Len(s.slots[p]))

(* Mutant: the loop ends at the first spawn that throws. *)
QuittingSpawnStep(r, p, throws) ==
  IF r.stop \/ ~NeedsWorker(r.s, p) THEN r
  ELSE IF ~HasRoom(r.s, p) THEN [s |-> Await(r.s, p), stop |-> TRUE]
  ELSE IF throws THEN [s |-> Cancel(FailOldest(r.s, p), p), stop |-> TRUE]
  ELSE [r EXCEPT !.s = Spawned(r.s, p)]

SpawnStep(r, p, throws) ==
  IF r.stop \/ ~NeedsWorker(r.s, p) THEN r
  ELSE IF ~HasRoom(r.s, p) THEN [s |-> Await(r.s, p), stop |-> TRUE]
  ELSE IF throws THEN [r EXCEPT !.s = Cancel(FailOldest(r.s, p), p)]
  ELSE [r EXCEPT !.s = Spawned(r.s, p)]

SpawnAll(s, p, faults) ==
  Iterate(LAMBDA r, n : SpawnStep(r, p, n \in faults),
          [s |-> s, stop |-> FALSE], Size + MaxQueue).s

YieldIdle(s, p) ==
  Repeat(LAMBDA t : IF t.waiters = <<>> THEN t ELSE RetireIdle(t, p), s, Size)

Settled(s, p) == IF NeedsWorker(s, p) THEN s ELSE Cancel(s, p)

Pumped(s, p) ==
  {YieldIdle(Settled(u, p), p) :
     u \in {SpawnAll(DispatchAll(t, p), p, faults) : t \in {s}, faults \in SpawnFaults}}
-----------------------------------------------------------------------------
(* The handlers *)

Turn == sys.wakes = <<>>   \* messages and timers wait for the microtasks

(* Mutant: off by one. *)
OverfullRun(t) ==
  LET p == PoolOf[t] IN
  /\ t \notin sys.open /\ ~sys.closed /\ Len(sys.queue[p]) <= MaxQueue
  /\ sys' \in Pumped([sys EXCEPT !.open = @ \cup {t},
                                 !.queue[p] = Append(@, t),
                                 !.pools = IF p \in ToSet(@) THEN @ ELSE Append(@, p)], p)

(* A closed pool or a full queue only rejects. *)
Run(t) ==
  LET p == PoolOf[t] IN
  /\ t \notin sys.open /\ ~sys.closed /\ Len(sys.queue[p]) < MaxQueue
  /\ sys' \in Pumped([sys EXCEPT !.open = @ \cup {t},
                                 !.queue[p] = Append(@, t),
                                 !.pools = IF p \in ToSet(@) THEN @ ELSE Append(@, p)], p)

Ready(p, i) ==
  /\ Turn /\ i \in StartingAt(sys, p)
  /\ sys' \in Pumped([sys EXCEPT !.slots[p][i].ready = TRUE], p)

(* Mutant: the queue reuses the worker whoever waits. *)
SelfishAfterReply(s, p) == s

AfterReply(s, p) ==
  IF s.queue[p] # <<>> /\ HasStarvedWaiter(s) THEN RetireIdle(s, p) ELSE s

(* The handler returned or threw: the task settles, and the worker stays   *)
(* unless it has to yield to a pool that has none.                         *)
Reply(p, i) ==
  LET t == sys.slots[p][i].task IN
  /\ Turn /\ t # NoTask
  /\ sys' \in Pumped(AfterReply([sys EXCEPT !.slots[p][i].task = NoTask,
                                            !.open = @ \ {t}], p), p)

(* A worker that dies fails its task; one that dies, or is given up on,    *)
(* before it was ready fails the oldest pending task instead.              *)
Die(p, i) ==
  LET slot == sys.slots[p][i]
      s == DropSlot(sys, p, i)
  IN /\ Turn
     /\ sys' \in Pumped(IF slot.task # NoTask THEN [s EXCEPT !.open = @ \ {slot.task}]
                        ELSE IF slot.ready THEN s
                        ELSE FailOldest(s, p), p)

StartupTimeout(p, i) == i \in StartingAt(sys, p) /\ Die(p, i)

(* onTimeout of a pending task gives up starting workers beyond the tasks  *)
(* left, and one more when another pool is starved.                        *)
Reclaim(s, p) ==
  LET starting == Cardinality(StartingAt(s, p))
      keep == IF HasStarvedWaiter(s) THEN Min({Len(s.queue[p]), starting - 1})
              ELSE Len(s.queue[p])
      extra == starting - Max({0, keep})
  IN IF extra <= 0 THEN s
     ELSE Repeat(LAMBDA t : DropSlot(t, p, Max(StartingAt(t, p))), Cancel(s, p), extra)

TimeoutPending(t) ==
  LET p == PoolOf[t] IN
  /\ Turn /\ t \in Timed \cap ToSet(sys.queue[p])
  /\ sys' \in Pumped([Reclaim([sys EXCEPT !.queue[p] = RemoveFirst(@, t)], p)
                        EXCEPT !.open = @ \ {t}], p)

TimeoutRunning(t) ==
  LET p == PoolOf[t] IN
  /\ Turn /\ t \in Timed
  /\ \E i \in DOMAIN sys.slots[p] :
       /\ sys.slots[p][i].task = t
       /\ sys' \in Pumped([DropSlot(sys, p, i) EXCEPT !.open = @ \ {t}], p)

(* The continuation of a grant; obsolete once the reservation is returned. *)
Resume ==
  LET p == Head(sys.wakes)
      s == [sys EXCEPT !.wakes = Tail(@)]
  IN /\ sys.wakes # <<>>
     /\ IF p \in sys.reserved THEN sys' \in Pumped(s, p) ELSE sys' = s

(* WorkerPoolService.shutdown closes the budget, then every pool. *)
Shutdown ==
  /\ ~sys.closed
  /\ sys' = [sys EXCEPT !.closed = TRUE, !.waiters = <<>>, !.reserved = {},
                        !.slots = [p \in Pools |-> <<>>], !.workers = 0,
                        !.queue = [p \in Pools |-> <<>>], !.open = {}]

SlotStep(p, i) == Ready(p, i) \/ Reply(p, i) \/ Die(p, i)
Next == \/ \E t \in Tasks : Run(t) \/ TimeoutPending(t) \/ TimeoutRunning(t)
        \/ \E p \in Pools : \E i \in DOMAIN sys.slots[p] : SlotStep(p, i)
        \/ Resume
        \/ Shutdown

(* Microtasks run, and callers do not loop in them for ever; some worker   *)
(* of a pool that has one becomes ready, misses its startup deadline, or   *)
(* sees its handler return.  No task timeout is needed.                    *)
Reports(p) == \E i \in DOMAIN sys.slots[p] : Ready(p, i) \/ Reply(p, i) \/ StartupTimeout(p, i)

Fairness == /\ WF_sys(Resume) /\ []<>Turn
            /\ \A p \in Pools : SF_sys(Reports(p))

Spec == Init /\ [][Next]_sys
FairSpec == Spec /\ Fairness
-----------------------------------------------------------------------------
TypeOK == /\ sys.slots \in [Pools -> BoundedSeq(Slots, Size)]
          /\ sys.queue \in [Pools -> BoundedSeq(Tasks, MaxQueue)]
          /\ sys.open \subseteq Tasks
          /\ ToSet(sys.waiters) \cup ToSet(sys.wakes) \cup ToSet(sys.pools) \subseteq Pools
          /\ sys.workers \in Nat

Live(s) == {at \in Pools \X (1..Size) : at[2] \in DOMAIN s.slots[at[1]]}
Workers(t) == {at \in Live(sys) : sys.slots[at[1]][at[2]].task = t}
Places(t) == {at \in Pools \X (1..MaxQueue) :
                at[2] \in DOMAIN sys.queue[at[1]] /\ sys.queue[at[1]][at[2]] = t}

(* A task that is not settled waits in one place or runs on one worker,    *)
(* and a settled task is nowhere: no task is lost and none settles twice.  *)
(* The budget counts the live slots, and what it granted fits the limit.   *)
Conservation ==
  /\ \A t \in Tasks : Cardinality(Places(t)) + Cardinality(Workers(t))
                        = IF t \in sys.open THEN 1 ELSE 0
  /\ sys.workers = Cardinality(Live(sys))
  /\ Free(sys) >= 0

(* A pool that could use another worker is in line for one or holds a      *)
(* reservation whose wake-up is on its way, nobody is stranded, and no     *)
(* worker idles while a pool waits for one (task-pool.ts, rules 1 and 2).  *)
DemandIsQueued ==
  /\ \A p \in Pools : NeedsWorker(sys, p) => p \in ToSet(sys.waiters) \cup sys.reserved
  /\ sys.reserved \subseteq ToSet(sys.wakes)
  /\ sys.waiters # <<>> => Free(sys) = 0 /\ \A p \in Pools : IdleAt(sys, p) = {}

(* Every queued task leaves the queue, to a worker or with an error, even  *)
(* when no task of its pool has a timeout, however busy the other pools    *)
(* keep their workers.                                                     *)
NobodyWaitsForever ==
  \A t \in Tasks : t \in ToSet(sys.queue[PoolOf[t]]) ~> t \notin ToSet(sys.queue[PoolOf[t]])
=============================================================================
