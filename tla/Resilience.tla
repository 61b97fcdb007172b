------------------------------ MODULE Resilience ------------------------------
(***************************************************************************)
(* One hardened call of packages/resilience-plugin: the chain that wrap()  *)
(* builds once and every invocation shares, outermost first                *)
(*     bulkhead -> circuit breaker -> retry -> timeout -> fn.              *)
(* Entering the chain is synchronous down to fn.  On the way out each      *)
(* layer resumes in a microtask of its own, and so does a queued call that *)
(* was granted a slot; other calls run in between.                         *)
(***************************************************************************)
EXTENDS Integers, Sequences, FiniteSets

CONSTANTS Calls,
          MaxConcurrent, MaxQueue,     \* BulkheadPolicy
          Threshold, Window, Cooldown, \* CircuitBreakerPolicy: timeout, resetTimeout
          Limit,                       \* RetryPolicy: total attempts
          MaxTime                      \* bound on the clock

ASSUME PolicyAssumption ==
  /\ {MaxConcurrent, Threshold, Window, Cooldown, Limit} \subseteq Nat \ {0}
  /\ MaxQueue \in Nat /\ MaxTime \in Nat

VARIABLES now,       \* hrtime()
          stage,     \* where each call stands in the chain
          attempt,   \* its attempt, counted from 1
          trial,     \* calls admitted as the half-open trial
          aborted,   \* calls whose signal is aborted
          active, queue,                       \* Bulkhead
          state, failures, openedAt, probing   \* CircuitBreaker

vars == <<now, stage, attempt, trial, aborted, active, queue, state, failures, openedAt, probing>>
breaker == <<state, failures, openedAt, probing>>
bulkhead == <<active, queue>>

(* running and backoff: inside the breaker; succeeded and failed: on the   *)
(* way to it; leaving: on the way to the bulkhead's finally.               *)
Inside == {"running", "backoff", "succeeded", "failed"}
Stages == {"new", "queued", "granted", "leaving", "over"} \cup Inside

Init == /\ now = 0
        /\ stage = [c \in Calls |-> "new"]
        /\ attempt = [c \in Calls |-> 0]
        /\ trial = {} /\ aborted = {}
        /\ active = 0 /\ queue = <<>>
        /\ state = "closed" /\ failures = <<>> /\ openedAt = 0 /\ probing = FALSE
-----------------------------------------------------------------------------
Goto(c, to) == stage' = [stage EXCEPT ![c] = to]

CooledDown == now - openedAt >= Cooldown

Refuse(c) == Goto(c, "leaving") /\ UNCHANGED <<trial, attempt, failures, openedAt, probing>>

Start(c, trials) ==
  /\ Goto(c, "running")
  /\ attempt' = [attempt EXCEPT ![c] = 1]
  /\ trial' = trials
  /\ UNCHANGED <<failures, openedAt>>

(* Mutant: half-open itself stands for the trial in flight. *)
FlaglessEnter(c) ==
  /\ active' = active + 1
  /\ IF c \in aborted \/ state = "half-open" \/ (state = "open" /\ ~CooledDown)
     THEN Refuse(c) /\ UNCHANGED state
     ELSE IF state = "open"
     THEN state' = "half-open" /\ probing' = TRUE /\ Start(c, trial \cup {c})
     ELSE Start(c, trial) /\ UNCHANGED <<state, probing>>

(* Mutant: the chain checks the signal only when it is invoked. *)
HeedlessEnter(c) ==
  /\ active' = active + 1
  /\ IF state = "open" /\ ~CooledDown
     THEN Refuse(c) /\ UNCHANGED state
     ELSE /\ state' = IF state = "open" THEN "half-open" ELSE state
          /\ IF state' = "closed" THEN Start(c, trial) /\ UNCHANGED probing
             ELSE IF probing THEN Refuse(c)
             ELSE probing' = TRUE /\ Start(c, trial \cup {c})

(* run() past its queue: take a slot, then CircuitBreaker.execute.  A call *)
(* that finds a trial in flight has already moved the state to half-open.  *)
Enter(c) ==
  /\ active' = active + 1
  /\ IF c \in aborted \/ (state = "open" /\ ~CooledDown)
     THEN Refuse(c) /\ UNCHANGED state
     ELSE /\ state' = IF state = "open" THEN "half-open" ELSE state
          /\ IF state' = "closed" THEN Start(c, trial) /\ UNCHANGED probing
             ELSE IF probing THEN Refuse(c)
             ELSE probing' = TRUE /\ Start(c, trial \cup {c})

(* The caller invokes the chain; a saturated bulkhead queues or sheds. *)
Invoke(c) ==
  /\ stage[c] = "new"
  /\ IF c \in aborted \/ (active >= MaxConcurrent /\ Len(queue) >= MaxQueue)
     THEN Goto(c, "over") /\ UNCHANGED <<attempt, trial, bulkhead, breaker>>
     ELSE IF active >= MaxConcurrent
     THEN /\ Goto(c, "queued") /\ queue' = Append(queue, c)
          /\ UNCHANGED <<attempt, trial, active, breaker>>
     ELSE Enter(c) /\ UNCHANGED queue
  /\ UNCHANGED <<now, aborted>>

(* The continuation of waitForSlot. *)
Resume(c) ==
  /\ stage[c] = "granted"
  /\ Enter(c)
  /\ UNCHANGED <<now, aborted, queue>>

(* Mutant: off by one. *)
OverlimitAttemptEnds(c) ==
  /\ stage[c] = "running"
  /\ \/ Goto(c, "succeeded")
     \/ Goto(c, IF c \notin aborted /\ attempt[c] <= Limit THEN "backoff" ELSE "failed")
  /\ UNCHANGED <<now, attempt, trial, aborted, bulkhead, breaker>>

(* fn settles, or the deadline of this attempt rejects it. *)
AttemptEnds(c) ==
  /\ stage[c] = "running"
  /\ \/ Goto(c, "succeeded")
     \/ Goto(c, IF c \notin aborted /\ attempt[c] < Limit THEN "backoff" ELSE "failed")
  /\ UNCHANGED <<now, attempt, trial, aborted, bulkhead, breaker>>

(* The backoff timer or an abort ends the sleep. *)
BackoffEnds(c) ==
  /\ stage[c] = "backoff"
  /\ IF c \in aborted
     THEN Goto(c, "failed") /\ UNCHANGED attempt
     ELSE Goto(c, "running") /\ attempt' = [attempt EXCEPT ![c] = @ + 1]
  /\ UNCHANGED <<now, trial, aborted, bulkhead, breaker>>

TrialEnds(c) ==
  /\ probing' = FALSE
  /\ IF stage[c] = "succeeded"
     THEN state' = "closed" /\ failures' = <<>> /\ UNCHANGED openedAt
     ELSE state' = "open" /\ openedAt' = now /\ UNCHANGED failures

(* filter((t) => t > cutoff): the oldest failures come first, so those out  *)
(* of the window are a prefix.                                             *)
Recent(times) ==
  LET cutoff == now - Window
  IN SubSeq(times, Cardinality({i \in DOMAIN times : times[i] <= cutoff}) + 1, Len(times))

(* Mutant: reopening the breaker drops the trial's flag. *)
ForgetfulRecordFailure ==
  LET recent == Recent(Append(failures, now)) IN
  /\ failures' = recent
  /\ IF Len(recent) >= Threshold THEN state' = "open" /\ openedAt' = now /\ probing' = FALSE
                                 ELSE UNCHANGED <<state, openedAt, probing>>

RecordFailure ==
  LET recent == Recent(Append(failures, now)) IN
  /\ failures' = recent
  /\ IF Len(recent) >= Threshold THEN state' = "open" /\ openedAt' = now
                                 ELSE UNCHANGED <<state, openedAt>>
  /\ UNCHANGED probing

(* The breaker learns the outcome.  A call it admitted while closed may    *)
(* report long after: its failure counts in whatever state is current.     *)
Report(c) ==
  /\ stage[c] \in {"succeeded", "failed"}
  /\ IF c \in trial THEN TrialEnds(c)
     ELSE IF stage[c] = "failed" THEN RecordFailure
     ELSE UNCHANGED breaker
  /\ Goto(c, "leaving")
  /\ UNCHANGED <<now, attempt, trial, aborted, bulkhead>>

Granting(c) == IF queue = <<>> THEN [stage EXCEPT ![c] = "over"]
               ELSE [stage EXCEPT ![c] = "over", ![Head(queue)] = "granted"]

(* Mutant: only a call that ran hands its slot on. *)
StingyLeave(c) ==
  /\ stage[c] = "leaving"
  /\ active' = active - 1
  /\ IF attempt[c] = 0 \/ queue = <<>>
     THEN Goto(c, "over") /\ UNCHANGED queue
     ELSE stage' = Granting(c) /\ queue' = Tail(queue)
  /\ UNCHANGED <<now, attempt, trial, aborted, breaker>>

(* The bulkhead's finally, on every way out. *)
Leave(c) ==
  /\ stage[c] = "leaving"
  /\ active' = active - 1
  /\ stage' = Granting(c)
  /\ queue' = IF queue = <<>> THEN queue ELSE Tail(queue)
  /\ UNCHANGED <<now, attempt, trial, aborted, breaker>>

(* The caller aborts its signal; a queued call leaves the queue at once. *)
Abort(c) ==
  /\ c \notin aborted /\ stage[c] # "over"
  /\ aborted' = aborted \cup {c}
  /\ IF stage[c] = "queued"
     THEN /\ Goto(c, "over")
          /\ \E i \in DOMAIN queue :
               /\ queue[i] = c
               /\ queue' = SubSeq(queue, 1, i - 1) \o SubSeq(queue, i + 1, Len(queue))
     ELSE UNCHANGED <<stage, queue>>
  /\ UNCHANGED <<now, attempt, trial, active, breaker>>

Tick ==
  /\ now < MaxTime
  /\ now' = now + 1
  /\ UNCHANGED <<stage, attempt, trial, aborted, bulkhead, breaker>>

Step(c) == Resume(c) \/ AttemptEnds(c) \/ BackoffEnds(c) \/ Report(c) \/ Leave(c)
Next == Tick \/ \E c \in Calls : Invoke(c) \/ Abort(c) \/ Step(c)

Spec == Init /\ [][Next]_vars
-----------------------------------------------------------------------------
TypeOK == /\ now \in Nat
          /\ stage \in [Calls -> Stages]
          /\ attempt \in [Calls -> 0..Limit]
          /\ trial \subseteq Calls /\ aborted \subseteq Calls
          /\ active \in Nat
          /\ queue \in Seq(Calls)
          /\ state \in {"closed", "open", "half-open"}
          /\ failures \in Seq(Nat) /\ openedAt \in Nat
          /\ probing \in BOOLEAN

At(stages) == {c \in Calls : stage[c] \in stages}
InFlight == {c \in trial : stage[c] \in Inside}

(* At most one trial is in flight and the flag says whether one is, though *)
(* late failures of older calls reopen the breaker under it.  Half-open    *)
(* never outlives the trial, so the breaker cannot stick there.            *)
SingleProbe ==
  /\ \A c, d \in InFlight : c = d
  /\ probing <=> InFlight # {}
  /\ state = "half-open" => probing

(* No call starts while a trial is in flight. *)
ProbeExclusive ==
  [][\A c \in Calls : attempt[c] = 0 /\ attempt'[c] = 1 => InFlight = {}]_vars

(* The slot count is the number of calls holding one, and calls wait only  *)
(* while every slot is held or already handed to a granted call.           *)
NoIdleSlot ==
  /\ active = Cardinality(At({"leaving"} \cup Inside))
  /\ \A c \in Calls : stage[c] = "queued" <=> \E i \in DOMAIN queue : queue[i] = c
  /\ queue # <<>> => active + Cardinality(At({"granted"})) >= MaxConcurrent

(* A cancelled call starts no further attempt, wherever the abort finds it. *)
NoWorkAfterAbort ==
  [][\A c \in Calls : attempt'[c] > attempt[c] => c \notin aborted]_vars

(* BulkheadPolicy.maxConcurrent: "Maximum concurrent in-flight executions" *)
(* (common/src/services/resilience.ts:131).                                *)
Capped == active <= MaxConcurrent
=============================================================================
