------------------------------ MODULE RedisQueue ------------------------------
(***************************************************************************)
(* One queue of packages/queue-plugin over Redis: the Lua scripts of       *)
(* adapters/redis-queue-scripts.ts, each one atomic step of the server,    *)
(* and the replicas that poll, run processors, renew their claims and      *)
(* settle.  Commands may be lost, may execute after their caller timed     *)
(* out, disconnected or died.  Leases follow the server's clock, now; due  *)
(* times follow the replicas' clocks, which may be ahead of it.  A command *)
(* that is lost is one that stays pending for ever.                        *)
(***************************************************************************)
EXTENDS Naturals, Sequences, FiniteSets

CONSTANTS Jobs,         \* the jobs ever added, each under a fresh id
          Replicas,
          Skew,         \* replica -> how far its clock is ahead of the server
          Concurrency,  \* ProcessOptions.concurrency
          MaxAttempts,  \* StoredJob.maxAttempts
          Visibility,   \* visibilityTimeoutMs
          Delays,       \* initial delays and retry backoffs
          MaxTime,      \* bound on the server's clock
          MaxFaults,    \* bound on crashes, disconnects and reserve timeouts
          None          \* no field in a hash, no member in a sorted set

ASSUME QueueAssumption ==
  /\ IsFiniteSet(Jobs) /\ Skew \in [Replicas -> Nat]
  /\ Concurrency \in Nat /\ Visibility \in Nat /\ Visibility > 0
  /\ MaxAttempts \in Nat /\ Delays \in SUBSET Nat
  /\ MaxTime \in Nat /\ MaxFaults \in Nat /\ None \notin Nat

VARIABLES now,         \* TIME of the server
          ready,       \* sorted set: when a job is due
          processing,  \* sorted set: deadline of a job's lease
          claims,      \* hash: token of the current delivery
          stalls,      \* hash: leases of the job that ran out
          payload,     \* hash: attempts stored with the job
          dead,        \* the dead set
          deliveries,  \* what became of each delivery; its index is its token
          polls,       \* the reserve each replica awaits
          late,        \* reserves their replica gave up on, still to execute
          connected, faults

vars == <<now, ready, processing, claims, stalls, payload, dead,
          deliveries, polls, late, connected, faults>>
store == <<ready, processing, claims, stalls, payload, dead>>

Clock(r) == now + Skew[r]
Token(j) == 1..Len(deliveries[j])

Idle == [st |-> "idle"]
Reserves(states) == [st: states, by: Replicas, at: Nat, limit: Nat]
Stages == {"granted", "running", "failing", "reading", "settling", "over"}
Commands == {"none", "ack", "requeue", "deadLetter"}
Delivery(r, attempts, stage) ==
  [by |-> r, attempts |-> attempts, stage |-> stage, renewing |-> FALSE,
   extending |-> FALSE, command |-> "none", due |-> 0, held |-> now]
Deliveries == [by: Replicas, attempts: Nat, stage: Stages, renewing: BOOLEAN,
               extending: BOOLEAN, command: Commands, due: Nat, held: Nat]

(* Dispatched and not settled: what inFlight counts. *)
Active == {"running", "failing", "reading", "settling"}
InFlight(r) ==
  Cardinality({d \in UNION {{j} \X Token(j) : j \in Jobs} :
                 /\ deliveries[d[1]][d[2]].by = r
                 /\ deliveries[d[1]][d[2]].stage \in Active})

Init == /\ now = 0
        /\ ready = [j \in Jobs |-> None]
        /\ processing = [j \in Jobs |-> None]
        /\ claims = [j \in Jobs |-> 0]
        /\ stalls = [j \in Jobs |-> 0]
        /\ payload = [j \in Jobs |-> None]
        /\ dead = {}
        /\ deliveries = [j \in Jobs |-> <<>>]
        /\ polls = [r \in Replicas |-> Idle]
        /\ late = {}
        /\ connected = [r \in Replicas |-> TRUE]
        /\ faults = 0
-----------------------------------------------------------------------------
(* The replicas *)

Change(j, t, d) == deliveries' = [deliveries EXCEPT ![j][t] = d]
ChangeThose(P(_), F(_)) ==
  deliveries' = [j \in Jobs |-> [t \in Token(j) |->
                   IF P(deliveries[j][t]) THEN F(deliveries[j][t]) ELSE deliveries[j][t]]]
Over(d) == [d EXCEPT !.stage = "over", !.renewing = FALSE]
Fault == faults < MaxFaults /\ faults' = faults + 1

(* add() *)
Enqueue(j, r) ==
  /\ connected[r] /\ payload[j] = None /\ deliveries[j] = <<>>
  /\ payload' = [payload EXCEPT ![j] = 0]
  /\ \E delay \in Delays : ready' = [ready EXCEPT ![j] = Clock(r) + delay]
  /\ UNCHANGED <<now, processing, claims, stalls, dead, deliveries,
                 polls, late, connected, faults>>

(* Mutant: every poll asks for a full batch. *)
FullRoom(r) == Concurrency
Room(r) == Concurrency - InFlight(r)

Poll(r) ==
  /\ connected[r] /\ polls[r] = Idle /\ Room(r) > 0
  /\ polls' = [polls EXCEPT ![r] = [st |-> "sent", by |-> r, at |-> Clock(r),
                                    limit |-> Room(r)]]
  /\ UNCHANGED <<now, store, deliveries, late, connected, faults>>

Granted(r, d) == d.by = r /\ d.stage = "granted"

(* Mutant: a reserve is kept for a repeat even when its rows are here. *)
RepeatingGiveUp(r) == late' = late \cup {polls[r]}

(* The script of a reserve nobody awaits any more may still execute. *)
GiveUp(r) ==
  late' = IF polls[r] # Idle /\ polls[r].st = "sent" THEN late \cup {polls[r]} ELSE late

(* The await of reserve rejects. *)
PollFails(r) ==
  /\ polls[r] # Idle /\ Fault
  /\ polls' = [polls EXCEPT ![r] = Idle]
  /\ GiveUp(r)
  /\ ChangeThose(LAMBDA d : Granted(r, d), Over)
  /\ UNCHANGED <<now, store, connected>>

Started(d) ==
  [d EXCEPT !.stage = IF d.attempts > MaxAttempts THEN "failing" ELSE "running",
            !.renewing = connected[d.by]]

(* The rest of poll() and the start of dispatchJob(): a job over its       *)
(* attempts goes straight to onFailed; renewal starts while connected.     *)
Dispatch(r) ==
  /\ polls[r] # Idle /\ polls[r].st = "answered"
  /\ polls' = [polls EXCEPT ![r] = Idle]
  /\ ChangeThose(LAMBDA d : Granted(r, d), Started)
  /\ UNCHANGED <<now, store, late, connected, faults>>

(* The adapter refuses at once when it is not connected. *)
Sending(d, command) ==
  IF connected[d.by] THEN [d EXCEPT !.stage = "settling", !.command = command]
  ELSE Over(d)

ProcessorSucceeds(j, t) ==
  /\ deliveries[j][t].stage = "running"
  /\ Change(j, t, Sending(deliveries[j][t], "ack"))
  /\ UNCHANGED <<now, store, polls, late, connected, faults>>

ProcessorFails(j, t) ==
  /\ deliveries[j][t].stage = "running"
  /\ \E delay \in Delays :
       LET d == deliveries[j][t]
       IN Change(j, t, IF d.attempts >= MaxAttempts THEN [d EXCEPT !.stage = "failing"]
                       ELSE IF ~connected[d.by] THEN Over(d)
                       ELSE [d EXCEPT !.stage = "reading", !.due = Clock(d.by) + delay])
  /\ UNCHANGED <<now, store, polls, late, connected, faults>>

(* onFailed returned or threw. *)
FailureNotified(j, t) ==
  /\ deliveries[j][t].stage = "failing"
  /\ Change(j, t, Sending(deliveries[j][t], "deadLetter"))
  /\ UNCHANGED <<now, store, polls, late, connected, faults>>

(* requeue() reads the payload it rewrites; without one the claim is stale. *)
PayloadRead(j, t) ==
  /\ deliveries[j][t].stage = "reading"
  /\ Change(j, t, IF payload[j] = None THEN Over(deliveries[j][t])
                  ELSE Sending(deliveries[j][t], "requeue"))
  /\ UNCHANGED <<now, store, polls, late, connected, faults>>

(* A settlement call returns, or rejects while its command is under way. *)
CallEnds(j, t) ==
  /\ deliveries[j][t].stage \in {"reading", "settling"}
  /\ Change(j, t, Over(deliveries[j][t]))
  /\ UNCHANGED <<now, store, polls, late, connected, faults>>

(* A tick of the renewal interval; it never overlaps a pending renewal. *)
Renew(j, t) ==
  /\ deliveries[j][t].renewing /\ ~deliveries[j][t].extending
  /\ Change(j, t, [deliveries[j][t] EXCEPT !.extending = TRUE])
  /\ UNCHANGED <<now, store, polls, late, connected, faults>>

(* disconnect() stops polling and renewing; processors run on. *)
Disconnect(r) ==
  /\ connected[r] /\ Fault
  /\ connected' = [connected EXCEPT ![r] = FALSE]
  /\ ChangeThose(LAMBDA d : d.by = r, LAMBDA d : [d EXCEPT !.renewing = FALSE])
  /\ UNCHANGED <<now, store, polls, late>>

Crash(r) ==
  /\ Fault
  /\ connected' = [connected EXCEPT ![r] = FALSE]
  /\ polls' = [polls EXCEPT ![r] = Idle]
  /\ GiveUp(r)
  /\ ChangeThose(LAMBDA d : d.by = r, Over)
  /\ UNCHANGED <<now, store>>

Connect(r) ==
  /\ ~connected[r]
  /\ connected' = [connected EXCEPT ![r] = TRUE]
  /\ UNCHANGED <<now, store, deliveries, polls, late, faults>>
-----------------------------------------------------------------------------
(* The scripts *)

(* ZRANGEBYSCORE ... LIMIT 0 n, with ties in any order. *)
Lowest(S, score, n) ==
  {T \in SUBSET S : /\ Cardinality(T) = IF Cardinality(S) < n THEN Cardinality(S) ELSE n
                    /\ \A t \in T, s \in S \ T : score[t] <= score[s]}
UpTo(score, t) == {j \in Jobs : score[j] # None /\ score[j] <= t}

(* Mutant: leases are compared with the clock of the polling replica. *)
CallerLapsed(c) == UpTo(processing, c.at)
Lapsed(c) == UpTo(processing, now)

(* Mutant: the first stall is taken for the first attempt. *)
FirstlessAttempts(stored, stalled) == IF stored + stalled < 1 THEN 1 ELSE stored + stalled
Attempts(stored, stalled) == (IF stored < 1 THEN 1 ELSE stored) + stalled

(* RESERVE_SCRIPT for command c; its rows become deliveries at a stage. *)
Reserve(c, stage) ==
  \E lapsed \in Lowest(Lapsed(c), processing, c.limit) :
    LET back == {j \in lapsed : payload[j] # None}
        due == [j \in Jobs |-> IF j \in back THEN c.at
                               ELSE IF j \in lapsed THEN None ELSE ready[j]]
        stalled == [j \in Jobs |-> IF j \in back THEN stalls[j] + 1 ELSE stalls[j]]
    IN \E taken \in Lowest(UpTo(due, c.at), due, c.limit) :
         LET given == {j \in taken : payload[j] # None}
             gone == (lapsed \cup taken) \ given
         IN /\ ready' = [j \in Jobs |-> IF j \in taken THEN None ELSE due[j]]
            /\ processing' = [j \in Jobs |-> IF j \in given THEN now + Visibility
                                              ELSE IF j \in gone THEN None
                                              ELSE processing[j]]
            /\ claims' = [j \in Jobs |-> IF j \in given THEN Len(deliveries[j]) + 1
                                          ELSE IF j \in gone THEN 0 ELSE claims[j]]
            /\ stalls' = [j \in Jobs |-> IF payload[j] = None /\ j \in gone THEN 0
                                          ELSE stalled[j]]
            /\ deliveries' = [j \in Jobs |->
                 IF j \in given
                 THEN Append(deliveries[j],
                             Delivery(c.by, Attempts(payload[j], stalled[j]), stage))
                 ELSE deliveries[j]]
            /\ UNCHANGED <<payload, dead>>

ExecReserve(r) ==
  /\ polls[r] # Idle /\ polls[r].st = "sent"
  /\ Reserve(polls[r], "granted")
  /\ polls' = [polls EXCEPT ![r].st = "answered"]
  /\ UNCHANGED <<now, late, connected, faults>>

ExecLate(c) ==
  /\ Reserve(c, "over")
  /\ late' = late \ {c}
  /\ UNCHANGED <<now, polls, connected, faults>>

(* Mutants: the scripts check that there is a claim, or nothing at all. *)
TokenlessHolds(j, t) == claims[j] # 0
UnfencedHolds(j, t) == TRUE
Holds(j, t) == claims[j] = t

Executes(j, t, command) ==
  /\ deliveries[j][t].command = command
  /\ Change(j, t, [deliveries[j][t] EXCEPT !.command = "none", !.due = 0])
  /\ UNCHANGED <<now, polls, late, connected, faults>>

(* Mutant: the job stays in the processing set. *)
LeakyReleased(j) ==
  /\ UNCHANGED processing
  /\ claims' = [claims EXCEPT ![j] = 0]
  /\ stalls' = [stalls EXCEPT ![j] = 0]

Released(j) ==
  /\ processing' = [processing EXCEPT ![j] = None]
  /\ claims' = [claims EXCEPT ![j] = 0]
  /\ stalls' = [stalls EXCEPT ![j] = 0]

ExecAck(j, t) ==
  /\ Executes(j, t, "ack")
  /\ IF Holds(j, t)
     THEN /\ Released(j)
          /\ payload' = [payload EXCEPT ![j] = None]
          /\ UNCHANGED <<ready, dead>>
     ELSE UNCHANGED store

ExecRequeue(j, t) ==
  /\ Executes(j, t, "requeue")
  /\ IF Holds(j, t)
     THEN /\ Released(j)
          /\ payload' = [payload EXCEPT ![j] = deliveries[j][t].attempts + 1]
          /\ ready' = [ready EXCEPT ![j] = deliveries[j][t].due]
          /\ UNCHANGED dead
     ELSE UNCHANGED store

(* Without deadLetterTtlMs: the payload stays where it is. *)
ExecDeadLetter(j, t) ==
  /\ Executes(j, t, "deadLetter")
  /\ IF Holds(j, t)
     THEN /\ Released(j)
          /\ dead' = dead \cup {j}
          /\ UNCHANGED <<ready, payload>>
     ELSE UNCHANGED store

ExecExtend(j, t) ==
  /\ deliveries[j][t].extending
  /\ IF Holds(j, t)
     THEN /\ processing' = [processing EXCEPT ![j] = now + Visibility]
          /\ Change(j, t, [deliveries[j][t] EXCEPT !.extending = FALSE, !.held = now])
     ELSE /\ Change(j, t, [deliveries[j][t] EXCEPT !.extending = FALSE])
          /\ UNCHANGED processing
  /\ UNCHANGED <<now, ready, claims, stalls, payload, dead, polls, late, connected, faults>>

Tick ==
  /\ now < MaxTime
  /\ now' = now + 1
  /\ UNCHANGED <<store, deliveries, polls, late, connected, faults>>

Replica(r) == \/ Poll(r) \/ PollFails(r) \/ Dispatch(r)
              \/ Disconnect(r) \/ Crash(r) \/ Connect(r)
              \/ ExecReserve(r) \/ \E j \in Jobs : Enqueue(j, r)
Runner(j, t) == \/ ProcessorSucceeds(j, t) \/ ProcessorFails(j, t)
                \/ FailureNotified(j, t) \/ PayloadRead(j, t)
                \/ CallEnds(j, t) \/ Renew(j, t)
Server(j, t) == \/ ExecAck(j, t) \/ ExecRequeue(j, t) \/ ExecDeadLetter(j, t)
                \/ ExecExtend(j, t)
Next == \/ Tick
        \/ \E r \in Replicas : Replica(r)
        \/ \E c \in late : ExecLate(c)
        \/ \E j \in Jobs : \E t \in Token(j) : Runner(j, t) \/ Server(j, t)

Spec == Init /\ [][Next]_vars
-----------------------------------------------------------------------------
Scores == Nat \cup {None}

TypeOK ==
  /\ now \in 0..MaxTime
  /\ ready \in [Jobs -> Scores] /\ processing \in [Jobs -> Scores]
  /\ claims \in [Jobs -> Nat] /\ stalls \in [Jobs -> Nat]
  /\ payload \in [Jobs -> Scores] /\ dead \subseteq Jobs
  /\ deliveries \in [Jobs -> Seq(Deliveries)]
  /\ polls \in [Replicas -> Reserves({"sent", "answered"}) \cup {Idle}]
  /\ late \subseteq Reserves({"sent"})
  /\ connected \in [Replicas -> BOOLEAN] /\ faults \in 0..MaxFaults

(* An added job is in exactly one place, or was acknowledged; only a job   *)
(* in processing has a claim, its latest delivery's.                       *)
Placed ==
  \A j \in Jobs :
    /\ Cardinality({p \in {"ready", "processing", "dead"} :
                      \/ p = "ready" /\ ready[j] # None
                      \/ p = "processing" /\ processing[j] # None
                      \/ p = "dead" /\ j \in dead})
         = IF payload[j] = None THEN 0 ELSE 1
    /\ claims[j] = IF processing[j] = None THEN 0 ELSE Len(deliveries[j])

(* Each delivery of a job counts as one more attempt, whether the one      *)
(* before failed, or its worker died, or its rows never arrived; so no     *)
(* attempt number, and no budgeted run, is ever handed out twice.          *)
AttemptsCount ==
  \A j \in Jobs : \A s, t \in Token(j) :
    s < t => deliveries[j][s].attempts < deliveries[j][t].attempts

(* A second worker is given a job only when the lease of the one before,   *)
(* as last renewed on the server's clock, has run out in full.             *)
Exclusive ==
  \A j \in Jobs : \A s, t \in Token(j) :
    /\ s < t
    /\ deliveries[j][s].stage \in {"granted", "running", "failing", "reading"}
    => now >= deliveries[j][s].held + Visibility

(* No replica runs more jobs at a time than its concurrency. *)
WithinConcurrency == \A r \in Replicas : InFlight(r) <= Concurrency

Closed(j) == j \in dead \/ (payload[j] = None /\ deliveries[j] # <<>>)

(* A claim ends by the settlement of its own delivery, or by the lapse of  *)
(* its lease: no stale settlement touches the current delivery.            *)
ClaimRespected ==
  [][\A j \in Jobs :
       claims[j] # 0 /\ claims'[j] # claims[j] =>
         LET d == deliveries[j][claims[j]]
         IN \/ now >= d.held + Visibility
            \/ /\ d.command # "none"
               /\ deliveries'[j][claims[j]].command = "none"]_vars

(* A job acknowledged or dead-lettered is never delivered again and stays  *)
(* where it is, whatever late command of an older delivery executes.       *)
ClosedForGood ==
  [][\A j \in Jobs :
       Closed(j) => /\ Closed(j)' /\ (j \in dead <=> j \in dead')
                    /\ Len(deliveries[j]) = Len(deliveries'[j])]_vars
=============================================================================
