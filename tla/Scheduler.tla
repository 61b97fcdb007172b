------------------------------ MODULE Scheduler ------------------------------
(***************************************************************************)
(* The scheduler (scheduler-plugin/src) of several replicas, for one job   *)
(* name: a recurring job or a one-shot, its timer, its fires, and the       *)
(* locks that keep replicas from running it twice, in Redis.  A fire of a   *)
(* recurring job first takes the lock of its slot, which nobody releases;    *)
(* a one-shot took the lock of its name when it was registered.  Every fire  *)
(* then takes the mutex of the job.                                         *)
(*                                                                         *)
(* A replica sends its commands over one connection: they are executed, and *)
(* answered, in order.  Slots are one unit of time apart.                    *)
(***************************************************************************)
EXTENDS Integers, Sequences, FiniteSets

Seqs == INSTANCE SequencesExt

CONSTANTS
    Replicas,
    Jobs,          \* registrations of the name; each happens at most once
    Owner,         \* the replica that makes it
    Offset,        \* how far each replica's clock is ahead
    Ttl,           \* distributedLock.ttlMs
    Delay,         \* delayMs of the one-shot
    Limit,         \* retry.limit
    None,          \* no registration
    MaxTime,       \* bound: the clock of the server
    Unsteady,      \* bound: replicas that are told to stop or go on, that crash or lose calls
    MaxEvents      \* bound: how often

ASSUME JobsAssumption == IsFiniteSet(Jobs) /\ None \notin Jobs /\ Owner \in [Jobs -> Replicas]
ASSUME TimeAssumption ==
    /\ Unsteady \subseteq Replicas
    /\ Offset \in [Replicas -> Nat] /\ {Ttl, Limit} \subseteq Nat \ {0}
    /\ {Delay, MaxTime, MaxEvents} \subseteq Nat

VARIABLES
    kind,       \* "every" or "delay", chosen once
    now,        \* the time of the lock's server
    connected,  \* replicas whose service is connected
    registry,   \* the job registered under the name in each replica
    named,      \* replicas whose service will stop that job on disconnect
    job,        \* each registration, with its fires
    wire,       \* commands of each replica that are not answered, in order
    lock,       \* what the server holds: key, slot, token, end
    runs,       \* history: slots that were run, and when they were claimed
    events

vars == <<kind, now, connected, registry, named, job, wire, lock, runs, events>>

Over == [stage |-> "over", due |-> 0, aborted |-> FALSE, attempt |-> 0, until |-> 0, since |-> 0,
         outcome |-> "none"]
Unused == [used |-> FALSE, paused |-> FALSE, handle |-> 0, scope |-> 0, claim |-> "failed",
           token |-> 0, minted |-> 0, until |-> 0, due |-> 0, wait |-> "none", hasty |-> FALSE,
           flight |-> FALSE, rearm |-> FALSE, removing |-> FALSE, rushed |-> FALSE,
           dropped |-> FALSE, fires |-> <<>>]

Init ==
    /\ kind \in {"every", "delay"} /\ now = 0 /\ connected = Replicas
    /\ registry = [r \in Replicas |-> None] /\ named = {}
    /\ job = [j \in Jobs |-> Unused]
    /\ wire = [r \in Replicas |-> <<>>] /\ lock = {} /\ runs = {}
    /\ events = 0

Clock(r) == now + Offset[r]
Event(r) == r \in Unsteady /\ events < MaxEvents /\ events' = events + 1
Registered(j) == registry[Owner[j]] = j

-----------------------------------------------------------------------------
(* The lock: SET NX PX, and the token-checked delete. *)
Key(cmd) == <<cmd.key, cmd.slot>>
Set(key, slot, j, n, for) == [op |-> "set", key |-> key, slot |-> slot, job |-> j, n |-> n,
                              for |-> for, done |-> FALSE, until |-> 0]
Del(key, slot, j, n, for) == [Set(key, slot, j, n, for) EXCEPT !.op = "del"]
Lease(cmd) == IF cmd.key = "once" THEN Ttl + Delay ELSE Ttl

Owns(h, cmd) == Key(h) = Key(cmd) /\ h.job = cmd.job /\ h.n = cmd.n

(* The server executes a command; what nobody waits for leaves no answer. *)
Execute(r) ==
    \E i \in DOMAIN wire[r] :
       LET cmd == wire[r][i]
           free == \A h \in lock : Key(h) # Key(cmd) \/ h.until <= now
           until == now + Lease(cmd)
       IN
       /\ ~cmd.done /\ \A m \in 1..(i - 1) : wire[r][m].done
       /\ lock' = CASE cmd.op = "del" -> {h \in lock : ~Owns(h, cmd)}
                    [] cmd.op = "set" /\ ~free -> lock
                    [] cmd.op = "set" /\ free ->
                         {h \in lock : Key(h) # Key(cmd)} \union
                            {[key |-> cmd.key, slot |-> cmd.slot, job |-> cmd.job, n |-> cmd.n,
                              until |-> until]}
       /\ wire' = [wire EXCEPT ![r] = IF cmd.for = "nobody" THEN Seqs!RemoveAt(@, i) ELSE
                     [@ EXCEPT ![i].done = TRUE,
                               ![i].until = IF cmd.op = "set" /\ free THEN until ELSE 0]]
       /\ UNCHANGED <<kind, now, connected, registry, named, job, runs, events>>

-----------------------------------------------------------------------------
(* Timers.  Every arm gives its fire a cancellation scope of its own; the     *)
(* entry knows the latest handle and scope.                                   *)
NextSlot(r) == Clock(r) + 1
NextDue(r) == IF kind = "every" THEN NextSlot(r) ELSE Clock(r) + Delay
Armed(x, due) == [x EXCEPT !.due = IF x.wait = "register" THEN due ELSE 0,
                           !.fires = Append(@, [Over EXCEPT !.stage = "armed", !.due = due]),
                           !.handle = Len(x.fires) + 1, !.scope = Len(x.fires) + 1]
Cleared(x) == IF x.handle # 0 /\ x.fires[x.handle].stage = "armed"
              THEN [x EXCEPT !.fires[x.handle] = Over] ELSE x
Aborted(x) == IF x.scope # 0 /\ x.fires[x.scope].stage # "over"
              THEN [x EXCEPT !.fires[x.scope].aborted = TRUE] ELSE x
Unheld(x) == [x EXCEPT !.token = 0, !.until = 0]
Resumed(r, x) == Armed([x EXCEPT !.paused = FALSE, !.dropped = FALSE], NextDue(r))

(* A fire in flight holds the arming back until it settles. *)
(* Mutant: the resumed job is armed at once.                  *)
EagerRearmed(r, x) == Resumed(r, x)
Rearmed(r, x) == IF x.flight THEN [x EXCEPT !.paused = FALSE, !.dropped = FALSE, !.rearm = TRUE]
                 ELSE Resumed(r, x)

(* An entry that left the registry is kept by its fires and by a resume only. *)
Collected(x) ==
    IF x.wait = "none" /\ \A k \in DOMAIN x.fires : x.fires[k].stage = "over"
    THEN [Unused EXCEPT !.used = TRUE] ELSE x

(* #track: a fire has settled; a job resumed meanwhile is armed now. *)
Settled(r, j, reg, x) ==
    LET y == [x EXCEPT !.flight = FALSE, !.rearm = FALSE] IN
    IF reg # j THEN Collected(y)
    ELSE IF x.rearm /\ r \in connected /\ ~x.paused THEN Resumed(r, y) ELSE y

(* Mutant: a fire that did not run leaves the schedule. *)
TimidRearms(r, x, f) == f.outcome # "none" /\ ~f.aborted /\ r \in connected /\ ~x.paused
                        /\ registry[r] # None
Rearms(r, x, f) == ~f.aborted /\ r \in connected /\ ~x.paused /\ registry[r] # None

(* The end of #fire.  A recurring job is armed for its next slot, unless it    *)
(* was stopped.  A one-shot that was paused before its final outcome stays;     *)
(* else it gives back its slot and leaves the registry.                        *)
Leaves(r, j, x, k, w) ==
    LET here == registry[r] = j
        y == [IF here THEN Cleared(x) ELSE x EXCEPT !.fires[k] = Over]
    IN /\ registry' = IF here THEN [registry EXCEPT ![r] = None] ELSE registry
       /\ named' = IF here THEN named \ {r} ELSE named
       /\ job' = [job EXCEPT ![j] = Settled(r, j, registry'[r], y)]
       /\ wire' = [wire EXCEPT ![r] = w]

Finish(r, j, x, k, w) ==
    LET f == x.fires[k]
        y == [x EXCEPT !.fires[k] = Over]
        final == f.outcome \in {"succeeded", "failed"}
    IN CASE kind = "every" ->
              /\ job' = [job EXCEPT ![j] = Settled(r, j, registry[r],
                            IF Rearms(r, x, f) THEN Armed(y, NextSlot(r)) ELSE y)]
              /\ named' = IF x.rearm /\ job'[j].handle > x.handle THEN named \union {r} ELSE named
              /\ wire' = [wire EXCEPT ![r] = w] /\ UNCHANGED registry
         [] kind = "delay" /\ f.aborted /\ r \in connected /\ ~final ->
              /\ job' = [job EXCEPT ![j] = Settled(r, j, registry[r], y)]
              /\ named' = IF job'[j].handle > x.handle THEN named \union {r} ELSE named
              /\ wire' = [wire EXCEPT ![r] = w] /\ UNCHANGED registry
         [] OTHER ->
              IF x.token = 0 THEN Leaves(r, j, x, k, w)
              ELSE /\ job' = [job EXCEPT ![j] = [Unheld(x) EXCEPT !.fires[k].stage = "leave"]]
                   /\ wire' = [wire EXCEPT ![r] = Append(w, Del("once", 0, j, x.token, "leave"))]
                   /\ UNCHANGED <<registry, named>>

(* The timer is due: the fire begins with its slot, or goes to the mutex. *)
Due(j, k) ==
    LET r == Owner[j]
        x == [job[j] EXCEPT !.flight = TRUE]
        f == job[j].fires[k]
        Goes(stage, cmd) ==
            /\ job' = [job EXCEPT ![j] = [x EXCEPT !.fires[k].stage = stage]]
            /\ wire' = [wire EXCEPT ![r] = Append(@, cmd)] /\ UNCHANGED <<registry, named>>
    IN
    /\ f.stage = "armed" /\ Clock(r) >= f.due
    /\ IF kind = "every" THEN Goes("slot", Set("slot", f.due, j, k, "slot"))
       ELSE IF x.claim = "claimed" THEN Goes("mutex", Set("mutex", 0, j, k, "mutex"))
       ELSE Finish(r, j, x, k, wire[r])
    /\ UNCHANGED <<kind, now, connected, lock, runs, events>>

-----------------------------------------------------------------------------
(* #claimDelaySlot is answered, at the registration or in a resume. *)
Claimed(r, j, cmd, result, w) ==
    LET x == job[j]
        y == [x EXCEPT !.wait = "none", !.token = IF result = "won" THEN cmd.n ELSE 0,
                       !.until = IF result = "won" THEN cmd.until ELSE 0,
                       !.claim = CASE result = "won" -> "claimed" [] result = "lost" -> "contended"
                                   [] OTHER -> "failed"]
        Sets(z) == job' = [job EXCEPT ![j] = z]
    IN
    /\ UNCHANGED <<registry, runs>>
    /\ CASE x.wait = "register" ->
              Sets(Armed(y, x.due)) /\ named' = named \union {r} /\ wire' = [wire EXCEPT ![r] = w]
         [] x.wait = "resume" /\ (r \notin connected \/ registry[r] # j) ->
              /\ Sets(IF registry[r] = j THEN Unheld(y) ELSE Collected(Unheld(y))) /\ UNCHANGED named
              /\ wire' = [wire EXCEPT ![r] = IF y.token = 0 THEN w
                                             ELSE Append(w, Del("once", 0, j, y.token, "nobody"))]
         [] x.wait = "resume" /\ r \in connected /\ registry[r] = j /\ x.hasty ->
              Sets(y) /\ UNCHANGED named /\ wire' = [wire EXCEPT ![r] = w]
         [] x.wait = "resume" /\ r \in connected /\ registry[r] = j /\ ~x.hasty ->
              /\ Sets(Rearmed(r, y))
              /\ named' = IF x.flight THEN named ELSE named \union {r}
              /\ wire' = [wire EXCEPT ![r] = w]

(* The handler mutex is answered: attempt 1, unless the fire was cancelled. *)
Entered(r, j, cmd, result, w) ==
    LET x == job[j]
        f == x.fires[cmd.n]
    IN
    IF result # "won" THEN Finish(r, j, x, cmd.n, w) /\ UNCHANGED runs
    ELSE /\ UNCHANGED <<registry, named>>
         /\ IF f.aborted
            THEN /\ job' = [job EXCEPT ![j].fires[cmd.n] =
                               [f EXCEPT !.stage = "release", !.outcome = "cancelled"]]
                 /\ wire' = [wire EXCEPT ![r] = Append(w, Del("mutex", 0, j, cmd.n, "release"))]
                 /\ UNCHANGED runs
            ELSE /\ job' = [job EXCEPT ![j].fires[cmd.n] =
                               [Over EXCEPT !.stage = "running", !.attempt = 1, !.until = cmd.until]]
                 /\ wire' = [wire EXCEPT ![r] = w]
                 /\ runs' = IF kind = "every"
                            THEN runs \union {[slot |-> f.due, since |-> f.since,
                                               job |-> j, fire |-> cmd.n]} ELSE runs

(* Whoever waits for a command goes on. *)
Continue(r, cmd, result, w) ==
    LET j == cmd.job
        x == job[j]
    IN CASE cmd.for = "late" ->
              /\ wire' = [wire EXCEPT ![r] = IF result # "won" THEN w ELSE
                                Append(w, Del(cmd.key, cmd.slot, j, cmd.n, "nobody"))]
              /\ UNCHANGED <<job, registry, named, runs>>
         [] cmd.for = "slot" ->
              IF result = "won"
              THEN /\ job' = [job EXCEPT ![j].fires[cmd.n] = [@ EXCEPT !.stage = "mutex",
                                                                 !.since = cmd.until - Ttl]]
                   /\ wire' = [wire EXCEPT ![r] = Append(w, Set("mutex", 0, j, cmd.n, "mutex"))]
                   /\ UNCHANGED <<registry, named, runs>>
              ELSE Finish(r, j, x, cmd.n, w) /\ UNCHANGED runs
         [] cmd.for = "mutex" -> Entered(r, j, cmd, result, w)
         [] cmd.for = "release" -> Finish(r, j, x, cmd.n, w) /\ UNCHANGED runs
         [] cmd.for = "claim" -> Claimed(r, j, cmd, result, w)
         [] cmd.for = "remove" ->
              /\ registry' = IF registry[r] = j THEN [registry EXCEPT ![r] = None] ELSE registry
              /\ named' = IF registry[r] = j THEN named \ {r} ELSE named
              /\ job' = [job EXCEPT ![j] = Collected([x EXCEPT !.removing = FALSE])]
              /\ wire' = [wire EXCEPT ![r] = w] /\ UNCHANGED runs
         [] OTHER ->
              \E k \in DOMAIN x.fires :
                 /\ x.fires[k].stage = "leave" /\ Leaves(r, j, x, k, w) /\ UNCHANGED runs

(* The answers come in the order of the commands.  A call that fails or takes  *)
(* too long is given up: a SET may still be applied.  A rejected one sends its  *)
(* own delete, which may be lost with the connection; the token of a late one   *)
(* is released when it comes.                                                   *)
Answer(r) ==
    /\ wire[r] # <<>> /\ Head(wire[r]).done
    /\ LET cmd == Head(wire[r]) IN
       Continue(r, cmd, IF cmd.until > 0 THEN "won" ELSE "lost", Tail(wire[r]))
    /\ UNCHANGED <<kind, now, connected, lock, events>>

GiveUp(r) ==
    \E i \in DOMAIN wire[r] :
       LET cmd == wire[r][i]
           for(whom) == [wire[r] EXCEPT ![i].for = whom]
           gone == Seqs!RemoveAt(wire[r], i)
           left == IF cmd.done THEN gone ELSE for("nobody")
           undo == Del(cmd.key, cmd.slot, cmd.job, cmd.n, "nobody")
       IN
       /\ Event(r) /\ cmd.for \notin {"nobody", "late"}
       /\ \E w \in {gone, left} \union
                   (IF cmd.op = "set" THEN {for("late"), Append(left, undo)} ELSE {}) :
             Continue(r, cmd, "failed", w)
       /\ UNCHANGED <<kind, now, connected, lock>>

-----------------------------------------------------------------------------
(* job-executor.ts: an attempt of the handler ends; a failed one is tried     *)
(* again after its backoff, which an abort ends at once.                        *)
(* Mutant: the mutex is not released. *)
StuckEnds(j, k, outcome) ==
    /\ job' = [job EXCEPT ![j].fires[k] = [@ EXCEPT !.stage = "release", !.outcome = outcome]]
    /\ UNCHANGED wire
Ends(j, k, outcome) ==
    LET r == Owner[j] IN
    /\ job' = [job EXCEPT ![j].fires[k] = [Over EXCEPT !.stage = "release", !.outcome = outcome,
                                                      !.aborted = job[j].fires[k].aborted]]
    /\ wire' = [wire EXCEPT ![r] = Append(@, Del("mutex", 0, j, k, "release"))]

HandlerEnds(j, k) ==
    LET f == job[j].fires[k] IN
    /\ f.stage = "running"
    /\ \/ Ends(j, k, "succeeded")
       \/ f.attempt >= Limit /\ Ends(j, k, "failed")
       \/ f.attempt < Limit /\ f.aborted /\ Ends(j, k, "cancelled")
       \/ /\ f.attempt < Limit /\ ~f.aborted
          /\ job' = [job EXCEPT ![j].fires[k].stage = "backoff"] /\ UNCHANGED wire
    /\ UNCHANGED <<kind, now, connected, registry, named, lock, runs, events>>

BackoffEnds(j, k) ==
    LET f == job[j].fires[k] IN
    /\ f.stage = "backoff"
    /\ IF f.aborted THEN Ends(j, k, "cancelled")
       ELSE /\ job' = [job EXCEPT ![j].fires[k] = [f EXCEPT !.stage = "running", !.attempt = @ + 1]]
            /\ UNCHANGED wire
    /\ UNCHANGED <<kind, now, connected, registry, named, lock, runs, events>>

-----------------------------------------------------------------------------
(* The operations of the service. *)
Register(j) ==
    LET r == Owner[j] IN
    /\ ~job[j].used /\ r \in connected /\ registry[r] = None
    /\ registry' = [registry EXCEPT ![r] = j]
    /\ IF kind = "every"
       THEN /\ job' = [job EXCEPT ![j] = Armed([@ EXCEPT !.used = TRUE], NextSlot(r))]
            /\ named' = named \union {r} /\ UNCHANGED wire
       ELSE /\ job' = [job EXCEPT ![j] = [@ EXCEPT !.used = TRUE, !.minted = 1,
                                              !.wait = "register", !.due = Clock(r) + Delay]]
            /\ wire' = [wire EXCEPT ![r] = Append(@, Set("once", 0, j, 1, "claim"))]
            /\ UNCHANGED named
    /\ UNCHANGED <<kind, now, connected, lock, runs, events>>

Hurried(x) == [x EXCEPT !.rushed = @ \/ x.wait = "register"]

(* Mutant: the fire in flight is not told. *)
DeafPaused(x) == [IF x.paused THEN x ELSE [Cleared(x) EXCEPT !.handle = 0]
                  EXCEPT !.paused = TRUE, !.hasty = x.wait = "resume"]
Paused(x) == Aborted([IF x.paused THEN x ELSE [Cleared(x) EXCEPT !.handle = 0]
                      EXCEPT !.paused = TRUE, !.hasty = x.wait = "resume"])

Pause(j) ==
    /\ Event(Owner[j]) /\ Registered(j)
    /\ job' = [job EXCEPT ![j] = Hurried(Paused(@))]
    /\ UNCHANGED <<kind, now, connected, registry, named, wire, lock, runs>>

Resume(j) ==
    LET r == Owner[j]
        x == job[j]
    IN
    /\ Event(Owner[j]) /\ Registered(j) /\ r \in connected /\ x.paused /\ x.wait # "resume"
    /\ IF kind = "delay" /\ x.claim = "claimed" /\ x.token = 0
       THEN /\ job' = [job EXCEPT ![j] = [x EXCEPT !.minted = @ + 1, !.wait = "resume",
                                                    !.hasty = FALSE]]
            /\ wire' = [wire EXCEPT ![r] = Append(@, Set("once", 0, j, x.minted + 1, "claim"))]
            /\ UNCHANGED named
       ELSE /\ job' = [job EXCEPT ![j] = Rearmed(r, x)]
            /\ named' = IF x.flight THEN named ELSE named \union {r}
            /\ UNCHANGED wire
    /\ UNCHANGED <<kind, now, connected, registry, lock, runs>>

Stopped(x) == Hurried(Aborted(Cleared(x)))
Removed(x) == [Stopped(x) EXCEPT !.rushed = @ \/ x.rearm]

Remove(j) ==
    LET r == Owner[j]
        x == job[j]
    IN
    /\ Event(Owner[j]) /\ Registered(j)
    /\ IF x.token # 0
       THEN /\ job' = [job EXCEPT ![j] = [Unheld(Removed(x)) EXCEPT !.removing = TRUE]]
            /\ wire' = [wire EXCEPT ![r] = Append(@, Del("once", 0, j, x.token, "remove"))]
            /\ UNCHANGED <<registry, named>>
       ELSE /\ job' = [job EXCEPT ![j] = Collected(Removed(x))]
            /\ registry' = [registry EXCEPT ![r] = None] /\ named' = named \ {r}
            /\ UNCHANGED wire
    /\ UNCHANGED <<kind, now, connected, lock, runs>>

Disconnect(r) ==
    LET j == registry[r] IN
    /\ Event(r) /\ r \in connected
    /\ connected' = connected \ {r} /\ named' = named \ {r}
    /\ IF j = None THEN UNCHANGED <<job, wire>>
       ELSE LET x == [job[j] EXCEPT !.dropped = @ \/ ~job[j].paused] IN
            IF r \notin named THEN job' = [job EXCEPT ![j] = Hurried(x)] /\ UNCHANGED wire
            ELSE /\ job' = [job EXCEPT ![j] = Unheld(Stopped(x))]
                 /\ wire' = IF x.token = 0 THEN wire ELSE
                              [wire EXCEPT ![r] = Append(@, Del("once", 0, j, x.token, "nobody"))]
    /\ UNCHANGED <<kind, now, registry, lock, runs>>

Connect(r) ==
    /\ Event(r) /\ r \notin connected /\ connected' = connected \union {r}
    /\ UNCHANGED <<kind, now, registry, named, job, wire, lock, runs>>

(* The process dies and starts again; a part of its commands may be applied. *)
Crash(r) ==
    /\ Event(r) /\ connected' = connected \union {r}
    /\ registry' = [registry EXCEPT ![r] = None] /\ named' = named \ {r}
    /\ job' = [j \in Jobs |-> IF Owner[j] = r /\ job[j].used
                              THEN [Unused EXCEPT !.used = TRUE] ELSE job[j]]
    /\ \E n \in 0..Len(wire[r]) : \E m \in 0..(Len(wire[r]) - n) :
          /\ \A i \in DOMAIN wire[r] : wire[r][i].done <=> i <= n
          /\ wire' = [wire EXCEPT ![r] = [i \in 1..m |-> [@[n + i] EXCEPT !.for = "nobody"]]]
    /\ UNCHANGED <<kind, now, lock, runs>>

Tick ==
    /\ now < MaxTime /\ now' = now + 1
    /\ lock' = {h \in lock : h.until > now + 1}
    /\ UNCHANGED <<kind, connected, registry, named, job, wire, runs, events>>

Next ==
    \/ \E r \in Replicas : Execute(r) \/ Answer(r) \/ GiveUp(r) \/ Disconnect(r) \/ Connect(r)
                           \/ Crash(r)
    \/ \E j \in Jobs : Register(j) \/ Pause(j) \/ Resume(j) \/ Remove(j)
    \/ \E j \in Jobs : \E k \in DOMAIN job[j].fires :
          Due(j, k) \/ HandlerEnds(j, k) \/ BackoffEnds(j, k)
    \/ Tick

Spec == Init /\ [][Next]_vars
-----------------------------------------------------------------------------
(* Types; a fire in hand is the job's, and somebody waits for what it asked.   *)
Stages == {"armed", "slot", "mutex", "running", "backoff", "release", "leave", "over"}
Fires == [stage : Stages, due : Nat, aborted : BOOLEAN, attempt : 0..Limit, until : Nat,
          since : Nat, outcome : {"none", "succeeded", "failed", "cancelled"}]
Commands == [op : {"set", "del"}, key : {"slot", "mutex", "once"}, slot : Nat, job : Jobs,
             n : Nat \ {0}, done : BOOLEAN, until : Nat,
             for : {"slot", "mutex", "release", "leave", "claim", "remove", "late", "nobody"}]
TypeOK ==
    /\ kind \in {"every", "delay"} /\ now \in Nat /\ events \in Nat
    /\ connected \subseteq Replicas /\ named \subseteq Replicas
    /\ \A r \in Replicas :
         /\ registry[r] # None => Owner[registry[r]] = r /\ job[registry[r]].used
         /\ \A i \in DOMAIN wire[r] : wire[r][i] \in Commands /\ Owner[wire[r][i].job] = r
    /\ \A h \in lock : \A g \in lock : Key(h) = Key(g) => h = g
    /\ \A j \in Jobs :
         /\ job[j].wait \in {"none", "register", "resume"} /\ job[j].token \in 0..job[j].minted
         /\ {job[j].handle, job[j].scope} \subseteq 0..Len(job[j].fires)
         /\ \A k \in DOMAIN job[j].fires :
              LET f == job[j].fires[k] IN
              /\ f \in Fires
              /\ f.stage \in {"slot", "mutex", "release"} =>
                   \E i \in DOMAIN wire[Owner[j]] :
                       LET cmd == wire[Owner[j]][i] IN
                       cmd.for = f.stage /\ cmd.job = j /\ cmd.n = k

InFlight(f) == f.stage \notin {"armed", "over"}
Attempting(f) == f.stage = "running"

(* Fires of one registration never overlap, whatever is paused, resumed or      *)
(* removed meanwhile; two replicas run the handler together, or run one slot     *)
(* twice, only if the lock of the first has expired; and two registrations hold   *)
(* the name of the one-shot only if one has expired.                              *)
NotTwice ==
    /\ \A j \in Jobs : \A k, m \in DOMAIN job[j].fires :
         k # m /\ InFlight(job[j].fires[k]) /\ InFlight(job[j].fires[m]) => job[j].rushed
    /\ \A i, j \in Jobs : \A k \in DOMAIN job[i].fires, m \in DOMAIN job[j].fires :
         LET f == job[i].fires[k]
             g == job[j].fires[m]
         IN <<i, k>> # <<j, m>> /\ Attempting(f) /\ Attempting(g) =>
                f.until <= now \/ g.until <= now
    /\ \A a, b \in runs : a.slot = b.slot /\ a # b =>
         a.since + Ttl <= b.since \/ b.since + Ttl <= a.since
    /\ \A i, j \in Jobs : i # j /\ job[i].token # 0 /\ job[j].token # 0 =>
         job[i].until <= now \/ job[j].until <= now

(* An attempt of the handler starts only for a job that is registered and not   *)
(* paused, in a service that is connected; but for one that was paused, removed   *)
(* or disconnected while delay() claimed its name, or removed while a resume       *)
(* awaited its fire.                                                               *)
Live(j) == Registered(j) /\ Owner[j] \in connected /\ ~job[j].paused
Starts(j) ==
    \E k \in DOMAIN job'[j].fires :
        /\ Attempting(job'[j].fires[k])
        /\ k \notin DOMAIN job[j].fires \/ ~Attempting(job[j].fires[k])
StoppedStays == [][\A j \in Jobs : Live(j) \/ job[j].rushed \/ ~Starts(j)]_vars

(* A job that is registered and was not stopped has an armed timer, or a fire   *)
(* in flight that will arm it or remove it: nothing drops it from its schedule. *)
ScheduleAlive ==
    \A j \in Jobs :
        Live(j) /\ job[j].wait = "none" /\ ~job[j].dropped /\ ~job[j].removing =>
            \E k \in DOMAIN job[j].fires :
                LET f == job[j].fires[k] IN
                f.stage = "armed" \/ (InFlight(f) /\ (~f.aborted \/ job[j].rearm))
=============================================================================
