--------------------------- MODULE ResilienceProofs ---------------------------
(***************************************************************************)
(* The circuit breaker admits one trial at a time, and no layer starts     *)
(* work for an aborted call, whatever the number of calls and the policy.  *)
(***************************************************************************)
EXTENDS Resilience, SequenceTheorems, FiniteSetTheorems, TLAPS

(* Waiting calls stand in the queue once each, so that a grant finds a     *)
(* call outside the chain.                                                 *)
QueueInv ==
  /\ stage \in [Calls -> Stages]
  /\ attempt \in [Calls -> Nat]
  /\ queue \in Seq(Calls)
  /\ \A i \in 1..Len(queue) : stage[queue[i]] = "queued"
  /\ \A i, j \in 1..Len(queue) : queue[i] = queue[j] => i = j

Before == {"new", "queued", "granted"}

(* A trial is outstanding in no closed breaker, a call is made a trial     *)
(* only as it enters, and one inside the chain has begun an attempt.       *)
BreakerInv ==
  /\ SingleProbe
  /\ trial \subseteq Calls
  /\ \A c \in trial : stage[c] \notin Before
  /\ state = "closed" => ~probing
  /\ \A c \in Calls : stage[c] \in Inside => attempt[c] >= 1

(* A call holds a slot from its entry until the bulkhead's finally; the    *)
(* calls that hold or were handed one are finitely many, and a queued call *)
(* still stands in the queue.                                              *)
Holding == {"leaving"} \cup Inside

SlotInv ==
  /\ IsFiniteSet(At(Holding)) /\ IsFiniteSet(At({"granted"}))
  /\ active = Cardinality(At(Holding))
  /\ \A c \in Calls : stage[c] = "queued" => \E i \in 1..Len(queue) : queue[i] = c
  /\ queue # <<>> => active + Cardinality(At({"granted"})) >= MaxConcurrent

(* The failures stand in the order they came in, and a call that backs off *)
(* has an attempt left.                                                    *)
InOrder(times) == \A i, j \in 1..Len(times) : i <= j => times[i] <= times[j]

DataInv ==
  /\ now \in Nat /\ openedAt \in Nat /\ aborted \subseteq Calls
  /\ state \in {"closed", "open", "half-open"} /\ probing \in BOOLEAN
  /\ failures \in Seq(Nat) /\ InOrder(failures)
  /\ \A i \in 1..Len(failures) : failures[i] <= now
  /\ attempt \in [Calls -> 0..Limit]
  /\ \A c \in Calls : stage[c] = "backoff" => attempt[c] < Limit

IInv == QueueInv /\ BreakerInv /\ SlotInv /\ DataInv
-----------------------------------------------------------------------------
(* What taking a slot and entering the breaker does to the calls: only c   *)
(* moves, to its first attempt or to the way out.                          *)
LEMMA EnterMovesOne ==
  ASSUME QueueInv, NEW c \in Calls, stage[c] \in {"new", "granted"}, Enter(c)
  PROVE  /\ stage' \in [Calls -> Stages]
         /\ attempt' \in [Calls -> Nat]
         /\ \A d \in Calls : d # c => stage'[d] = stage[d] /\ attempt'[d] = attempt[d]
         /\ stage'[c] = "leaving" \/ (stage'[c] = "running" /\ attempt'[c] = 1)
  BY DEF Enter, Refuse, Start, Goto, QueueInv, Stages, Inside

(* Entering keeps the breaker's invariant: a trial starts only when the    *)
(* flag is down, that is, with no other trial in flight.                   *)
LEMMA EnterKeepsBreaker ==
  ASSUME QueueInv, BreakerInv, NEW c \in Calls, stage[c] \in {"new", "granted"}, Enter(c)
  PROVE  BreakerInv'
<1>1. /\ stage' \in [Calls -> Stages]
      /\ \A d \in Calls : d # c => stage'[d] = stage[d] /\ attempt'[d] = attempt[d]
      /\ stage'[c] = "leaving" \/ (stage'[c] = "running" /\ attempt'[c] = 1)
  BY EnterMovesOne
<1>2. c \notin trial /\ stage[c] \notin Inside
  BY DEF BreakerInv, Before, Inside
<1>3. \A d \in Calls : stage'[d] \in Inside => attempt'[d] >= 1
  BY <1>1 DEF BreakerInv, Inside
<1>4. CASE Refuse(c)
  <2>1. /\ stage'[c] = "leaving" /\ trial' = trial /\ probing' = probing
        /\ state' = state \/ (state = "open" /\ state' = "half-open" /\ probing)
    BY <1>4 DEF Enter, Refuse, Start, Goto, QueueInv, Stages
  <2>2. InFlight' = InFlight
    BY <1>1, <1>2, <2>1 DEF InFlight, BreakerInv
  <2>3. SingleProbe'
    BY <2>1, <2>2 DEF BreakerInv, SingleProbe
  <2>4. \A d \in trial' : stage'[d] \notin Before
    BY <1>1, <1>2, <2>1 DEF BreakerInv
  <2> QED
    BY <1>3, <2>1, <2>3, <2>4 DEF BreakerInv
<1>5. CASE Start(c, trial) /\ state' = "closed" /\ state = "closed" /\ UNCHANGED probing
  <2>1. trial' = trial
    BY <1>5 DEF Start
  <2>2. InFlight' = InFlight
    BY <1>1, <1>2, <2>1 DEF InFlight, BreakerInv
  <2>3. SingleProbe'
    BY <1>5, <2>2 DEF BreakerInv, SingleProbe
  <2>4. \A d \in trial' : stage'[d] \notin Before
    BY <1>1, <1>2, <2>1 DEF BreakerInv
  <2> QED
    BY <1>3, <1>5, <2>1, <2>3, <2>4 DEF BreakerInv
<1>6. CASE Start(c, trial \cup {c}) /\ ~probing /\ probing' = TRUE /\ state' # "closed"
  <2>1. InFlight = {}
    BY <1>6 DEF BreakerInv, SingleProbe
  <2>2. trial' = trial \cup {c} /\ stage'[c] = "running"
    BY <1>6 DEF Start, Goto, QueueInv
  <2>3. InFlight' = {c}
    BY <1>1, <2>1, <2>2 DEF InFlight, BreakerInv, Inside
  <2>4. SingleProbe'
    BY <1>6, <2>3 DEF SingleProbe
  <2>5. \A d \in trial' : stage'[d] \notin Before
    BY <1>1, <2>2 DEF BreakerInv, Before
  <2> QED
    BY <1>3, <1>6, <2>2, <2>4, <2>5 DEF BreakerInv
<1> QED
  BY <1>4, <1>5, <1>6 DEF Enter

(* An abort takes the call out of its place in the queue, and those behind *)
(* it move up.                                                             *)
LEMMA QueueCloses ==
  ASSUME QueueInv, NEW c \in Calls, Abort(c), stage[c] = "queued"
  PROVE  \E n \in 1..Len(queue) :
           /\ queue[n] = c
           /\ queue' \in Seq(Calls) /\ Len(queue') = Len(queue) - 1
           /\ \A i \in 1..Len(queue') : queue'[i] = IF i < n THEN queue[i] ELSE queue[i + 1]
<1>1. PICK n \in 1..Len(queue) :
        /\ queue[n] = c
        /\ queue' = SubSeq(queue, 1, n - 1) \o SubSeq(queue, n + 1, Len(queue))
  <2>1. \E i \in DOMAIN queue :
          /\ queue[i] = c
          /\ queue' = SubSeq(queue, 1, i - 1) \o SubSeq(queue, i + 1, Len(queue))
    BY DEF Abort
  <2>2. DOMAIN queue = 1..Len(queue)
    BY DEF QueueInv
  <2> QED
    BY <2>1, <2>2, Zenon
<1>2. /\ queue' \in Seq(Calls) /\ Len(queue') = Len(queue) - 1
      /\ \A i \in 1..Len(queue') : queue'[i] = IF i < n THEN queue[i] ELSE queue[i + 1]
  <2>1. queue \in Seq(Calls) /\ Len(queue) \in Nat /\ \A i \in 1..Len(queue) : queue[i] \in Calls
    BY DEF QueueInv
  <2>2. /\ SubSeq(queue, 1, n - 1) \in Seq(Calls) /\ Len(SubSeq(queue, 1, n - 1)) = n - 1
        /\ \A i \in 1..(n - 1) : SubSeq(queue, 1, n - 1)[i] = queue[i]
    <3>1. n - 1 \in Int /\ \A i \in 1..(n - 1) : queue[i] \in Calls
      BY <2>1
    <3> QED
      BY <3>1, SubSeqProperties
  <2>3. /\ SubSeq(queue, n + 1, Len(queue)) \in Seq(Calls)
        /\ Len(SubSeq(queue, n + 1, Len(queue))) = Len(queue) - n
        /\ \A i \in 1..(Len(queue) - n) : SubSeq(queue, n + 1, Len(queue))[i] = queue[n + i]
    <3>1. n + 1 \in Int /\ \A i \in (n + 1)..Len(queue) : queue[i] \in Calls
      BY <2>1
    <3>2. /\ SubSeq(queue, n + 1, Len(queue)) \in Seq(Calls)
          /\ Len(SubSeq(queue, n + 1, Len(queue)))
               = IF n + 1 <= Len(queue) THEN Len(queue) - (n + 1) + 1 ELSE 0
          /\ \A i \in 1..(Len(queue) - (n + 1) + 1) :
               SubSeq(queue, n + 1, Len(queue))[i] = queue[n + 1 + i - 1]
      BY <2>1, <3>1, SubSeqProperties
    <3> QED
      BY <2>1, <3>2
  <2> DEFINE l == SubSeq(queue, 1, n - 1)
             r == SubSeq(queue, n + 1, Len(queue))
  <2>4. /\ l \o r \in Seq(Calls) /\ Len(l \o r) = Len(l) + Len(r)
        /\ \A i \in 1..(Len(l) + Len(r)) :
             (l \o r)[i] = IF i <= Len(l) THEN l[i] ELSE r[i - Len(l)]
    BY <2>2, <2>3, ConcatProperties
  <2>5. queue' = l \o r /\ Len(l) = n - 1 /\ Len(r) = Len(queue) - n
        /\ (\A i \in 1..(n - 1) : l[i] = queue[i])
        /\ (\A i \in 1..(Len(queue) - n) : r[i] = queue[n + i])
    BY <1>1, <2>2, <2>3
  <2> HIDE DEF l, r
  <2>6. queue' \in Seq(Calls) /\ Len(queue') = Len(queue) - 1
    <3>1. queue' \in Seq(Calls) /\ Len(queue') = Len(l) + Len(r)
      BY <2>4, <2>5
    <3>2. (n - 1) + (Len(queue) - n) = Len(queue) - 1
      BY <2>1
    <3> QED
      BY <2>5, <3>1, <3>2
  <2>7. ASSUME NEW i \in 1..Len(queue'), i < n PROVE queue'[i] = queue[i]
    <3>1. i \in 1..(n - 1) /\ i \in 1..(Len(l) + Len(r)) /\ i <= Len(l)
      BY <2>1, <2>5, <2>6, <2>7
    <3> QED
      BY <2>4, <2>5, <3>1
  <2>8. ASSUME NEW i \in 1..Len(queue'), ~(i < n) PROVE queue'[i] = queue[i + 1]
    <3>1. /\ i - (n - 1) \in 1..(Len(queue) - n) /\ i \in 1..(Len(l) + Len(r))
          /\ ~(i <= Len(l)) /\ n + (i - (n - 1)) = i + 1
      BY <2>1, <2>5, <2>6, <2>8
    <3>2. queue'[i] = r[i - (n - 1)]
      BY <2>4, <2>5, <3>1
    <3> QED
      BY <2>5, <3>1, <3>2
  <2> QED
    BY <2>6, <2>7, <2>8
<1> QED
  BY <1>1, <1>2, Zenon

(* A grant or an abort takes one call out of the queue and moves none that *)
(* is inside the chain.                                                    *)
LEMMA QueueStep ==
  ASSUME QueueInv, NEW c \in Calls, Leave(c) \/ Abort(c)
  PROVE  /\ QueueInv'
         /\ \A d \in Calls :
              /\ stage'[d] \in Inside <=> stage[d] \in Inside
              /\ stage'[d] \in Before => stage[d] \in Before
<1>1. CASE Leave(c) /\ queue = <<>>
  BY <1>1 DEF Leave, Granting, QueueInv, Stages, Inside, Before
<1>2. CASE Leave(c) /\ queue # <<>>
  <2>1. /\ Head(queue) \in Calls /\ Head(queue) = queue[1]
        /\ Len(queue') = Len(queue) - 1 /\ queue' \in Seq(Calls)
        /\ \A i \in 1..Len(queue') : queue'[i] = queue[i + 1]
    BY <1>2 DEF Leave, QueueInv
  <2>2. stage[Head(queue)] = "queued" /\ stage[c] = "leaving"
    BY <1>2, <2>1 DEF Leave, QueueInv
  <2>3. stage' = [stage EXCEPT ![c] = "over", ![Head(queue)] = "granted"]
    BY <1>2 DEF Leave, Granting
  <2>4. ASSUME NEW i \in 1..Len(queue')
        PROVE  queue'[i] \in Calls /\ queue'[i] # Head(queue) /\ stage[queue'[i]] = "queued"
    <3>1. /\ i + 1 \in 1..Len(queue) /\ 1 \in 1..Len(queue) /\ i + 1 # 1
          /\ queue[i + 1] \in Calls
      BY <2>1 DEF QueueInv
    <3>2. queue'[i] = queue[i + 1]
      BY <2>1
    <3> QED
      BY <2>1, <3>1, <3>2 DEF QueueInv
  <2>5. /\ stage' \in [Calls -> Stages] /\ attempt' = attempt
        /\ \A d \in Calls : d # c /\ d # Head(queue) => stage'[d] = stage[d]
        /\ stage'[c] = "over" /\ stage'[Head(queue)] = "granted"
    BY <1>2, <2>1, <2>2, <2>3 DEF Leave, QueueInv, Stages
  <2>6. ASSUME NEW i \in 1..Len(queue'), NEW j \in 1..Len(queue'), queue'[i] = queue'[j]
        PROVE  i = j
    <3>1. /\ queue'[i] = queue[i + 1] /\ i + 1 \in 1..Len(queue)
          /\ queue'[j] = queue[j + 1] /\ j + 1 \in 1..Len(queue)
      BY <2>1 DEF QueueInv
    <3>2. i + 1 = j + 1
      BY <2>6, <3>1 DEF QueueInv
    <3> QED
      BY <3>2
  <2>7. \A i \in 1..Len(queue') : stage'[queue'[i]] = "queued"
    BY <2>2, <2>4, <2>5
  <2>8. QueueInv'
    BY <2>1, <2>5, <2>6, <2>7 DEF QueueInv
  <2> QED
    BY <2>1, <2>2, <2>5, <2>8 DEF Inside, Before
<1>3. CASE Abort(c) /\ stage[c] = "queued"
  <2>1. PICK n \in 1..Len(queue) :
          /\ queue[n] = c
          /\ queue' \in Seq(Calls) /\ Len(queue') = Len(queue) - 1
          /\ \A i \in 1..Len(queue') : queue'[i] = IF i < n THEN queue[i] ELSE queue[i + 1]
    BY <1>3, QueueCloses
  <2>2. /\ queue' \in Seq(Calls) /\ Len(queue') = Len(queue) - 1
        /\ \A i \in 1..Len(queue') : queue'[i] = IF i < n THEN queue[i] ELSE queue[i + 1]
    BY <2>1
  <2> DEFINE at(i) == IF i < n THEN i ELSE i + 1
  <2>3. /\ \A i \in 1..Len(queue') : at(i) \in 1..Len(queue) /\ at(i) # n
        /\ \A i, j \in 1..Len(queue') : at(i) = at(j) => i = j
    BY <2>2 DEF QueueInv
  <2>4. \A i \in 1..Len(queue') : queue'[i] = queue[at(i)]
    BY <2>2
  <2> HIDE DEF at
  <2>5. /\ \A i \in 1..Len(queue') : queue'[i] # c /\ stage[queue'[i]] = "queued"
        /\ \A i, j \in 1..Len(queue') : queue'[i] = queue'[j] => i = j
    <3>1. ASSUME NEW i \in 1..Len(queue')
          PROVE  queue'[i] # c /\ stage[queue'[i]] = "queued"
      <4>1. queue'[i] = queue[at(i)] /\ at(i) \in 1..Len(queue) /\ at(i) # n
        BY <2>3, <2>4
      <4> QED
        BY <2>1, <4>1 DEF QueueInv
    <3>2. ASSUME NEW i \in 1..Len(queue'), NEW j \in 1..Len(queue'), queue'[i] = queue'[j]
          PROVE  i = j
      <4>1. /\ queue'[i] = queue[at(i)] /\ at(i) \in 1..Len(queue)
            /\ queue'[j] = queue[at(j)] /\ at(j) \in 1..Len(queue)
        BY <2>3, <2>4
      <4>2. at(i) = at(j)
        BY <3>2, <4>1 DEF QueueInv
      <4> QED
        BY <2>3, <4>2
    <3> QED
      BY <3>1, <3>2
  <2>6. stage' = [stage EXCEPT ![c] = "over"] /\ attempt' = attempt
    BY <1>3 DEF Abort, Goto
  <2>7. QueueInv'
    BY <1>3, <2>2, <2>5, <2>6 DEF QueueInv, Stages
  <2> QED
    BY <1>3, <2>6, <2>7 DEF QueueInv, Inside, Before
<1>4. CASE Abort(c) /\ stage[c] # "queued"
  BY <1>4 DEF Abort, QueueInv, Inside, Before
<1> QED
  BY <1>1, <1>2, <1>3, <1>4 DEF Leave, Abort

(* Every step keeps the queue's invariant. *)
LEMMA QueueInvariance ==
  ASSUME QueueInv, [Next]_vars
  PROVE  QueueInv'
<1>1. CASE Tick \/ UNCHANGED vars
  BY <1>1 DEF Tick, vars, bulkhead, QueueInv
<1>2. ASSUME NEW c \in Calls, Invoke(c)
      PROVE  QueueInv'
  <2>1. CASE stage' = [stage EXCEPT ![c] = "over"] /\ queue' = queue /\ attempt' = attempt
    BY <1>2, <2>1 DEF Invoke, QueueInv, Stages
  <2>2. CASE /\ stage' = [stage EXCEPT ![c] = "queued"] /\ queue' = Append(queue, c)
             /\ attempt' = attempt
    <3>1. \A i \in 1..Len(queue) : queue[i] # c
      BY <1>2 DEF Invoke, QueueInv
    <3>2. /\ queue' \in Seq(Calls) /\ Len(queue') = Len(queue) + 1
          /\ queue'[Len(queue) + 1] = c
          /\ \A i \in 1..Len(queue) : queue'[i] = queue[i] /\ queue[i] \in Calls
      BY <2>2 DEF QueueInv
    <3> QED
      BY <1>2, <2>2, <3>1, <3>2 DEF QueueInv, Stages
  <2>3. CASE Enter(c) /\ queue' = queue
    <3>1. stage[c] = "new"
      BY <1>2 DEF Invoke
    <3>2. /\ stage' \in [Calls -> Stages] /\ attempt' \in [Calls -> Nat]
          /\ \A d \in Calls : d # c => stage'[d] = stage[d]
      BY <2>3, <3>1, EnterMovesOne
    <3> QED
      BY <2>3, <3>1, <3>2 DEF QueueInv
  <2> QED
    BY <1>2, <2>1, <2>2, <2>3 DEF Invoke, Goto, bulkhead
<1>3. ASSUME NEW c \in Calls, Resume(c)
      PROVE  QueueInv'
  <2>1. stage[c] = "granted" /\ Enter(c) /\ queue' = queue
    BY <1>3 DEF Resume
  <2>2. /\ stage' \in [Calls -> Stages] /\ attempt' \in [Calls -> Nat]
        /\ \A d \in Calls : d # c => stage'[d] = stage[d]
    BY <2>1, EnterMovesOne
  <2> QED
    BY <2>1, <2>2 DEF QueueInv
<1>4. ASSUME NEW c \in Calls, AttemptEnds(c) \/ BackoffEnds(c) \/ Report(c)
      PROVE  QueueInv'
  <2>1. /\ stage[c] \in Inside /\ queue' = queue /\ stage' \in [Calls -> Stages]
        /\ \A d \in Calls : d # c => stage'[d] = stage[d]
        /\ attempt' \in [Calls -> Nat]
    BY <1>4 DEF AttemptEnds, BackoffEnds, Report, Goto, bulkhead, QueueInv, Stages, Inside
  <2> QED
    BY <2>1 DEF QueueInv, Inside
<1>5. ASSUME NEW c \in Calls, Leave(c) \/ Abort(c)
      PROVE  QueueInv'
  BY <1>5, QueueStep
<1> QED
  BY <1>1, <1>2, <1>3, <1>4, <1>5 DEF Next, Step

(* Every step keeps the breaker's invariant. *)
LEMMA BreakerInvariance ==
  ASSUME IInv, [Next]_vars
  PROVE  BreakerInv'
<1> USE DEF IInv
<1>1. ASSUME /\ trial' = trial /\ UNCHANGED <<state, probing>>
             /\ \A d \in Calls :
                  /\ stage'[d] \in Inside <=> stage[d] \in Inside
                  /\ stage'[d] \in Before => stage[d] \in Before
                  /\ attempt'[d] \in Nat /\ attempt'[d] >= attempt[d]
      PROVE  BreakerInv'
  <2>1. InFlight' = InFlight
    BY <1>1 DEF InFlight, BreakerInv
  <2>2. SingleProbe'
    BY <1>1, <2>1 DEF BreakerInv, SingleProbe
  <2>3. \A d \in Calls : stage'[d] \in Inside => attempt'[d] >= 1
    BY <1>1 DEF BreakerInv, QueueInv
  <2> QED
    BY <1>1, <2>2, <2>3 DEF BreakerInv
<1>2. CASE Tick \/ UNCHANGED vars
  BY <1>1, <1>2 DEF Tick, vars, bulkhead, breaker, QueueInv
<1>3. ASSUME NEW c \in Calls, Invoke(c)
      PROVE  BreakerInv'
  <2>1. CASE Enter(c)
    BY <1>3, <2>1, EnterKeepsBreaker DEF Invoke
  <2>2. CASE ~Enter(c)
    BY <1>1, <1>3, <2>2 DEF Invoke, Goto, bulkhead, breaker, QueueInv, Before, Inside
  <2> QED
    BY <2>1, <2>2
<1>4. ASSUME NEW c \in Calls, Resume(c)
      PROVE  BreakerInv'
  BY <1>4, EnterKeepsBreaker DEF Resume
<1>5. ASSUME NEW c \in Calls, AttemptEnds(c) \/ BackoffEnds(c)
      PROVE  BreakerInv'
  BY <1>1, <1>5 DEF AttemptEnds, BackoffEnds, Goto, bulkhead, breaker, QueueInv, Before, Inside
<1>6. ASSUME NEW c \in Calls, Report(c)
      PROVE  BreakerInv'
  <2>1. /\ stage[c] \in Inside /\ stage' = [stage EXCEPT ![c] = "leaving"]
        /\ attempt' = attempt /\ trial' = trial
    BY <1>6 DEF Report, Goto, Inside
  <2>2. InFlight' = InFlight \ {c}
    BY <2>1 DEF InFlight, BreakerInv, QueueInv, Inside
  <2>3. /\ \A d \in trial' : stage'[d] \notin Before
        /\ \A d \in Calls : stage'[d] \in Inside => attempt'[d] >= 1
    BY <2>1 DEF BreakerInv, QueueInv, Before, Inside
  <2>4. CASE c \in trial
    <3>1. probing' = FALSE /\ state' \in {"closed", "open"}
      BY <1>6, <2>4 DEF Report, TrialEnds
    <3>2. c \in InFlight
      BY <2>1, <2>4 DEF InFlight
    <3>3. InFlight' = {}
      BY <2>2, <3>2 DEF BreakerInv, SingleProbe
    <3>4. SingleProbe'
      BY <3>1, <3>3 DEF SingleProbe
    <3> QED
      BY <2>1, <2>3, <3>1, <3>4 DEF BreakerInv
  <2>5. CASE c \notin trial
    <3>1. probing' = probing /\ state' \in {"open", state}
      BY <1>6, <2>5 DEF Report, RecordFailure, breaker
    <3>2. InFlight' = InFlight
      BY <2>2, <2>5 DEF InFlight
    <3>3. SingleProbe'
      BY <3>1, <3>2 DEF BreakerInv, SingleProbe
    <3> QED
      BY <2>1, <2>3, <3>1, <3>3 DEF BreakerInv
  <2> QED
    BY <2>4, <2>5
<1>7. ASSUME NEW c \in Calls, Leave(c) \/ Abort(c)
      PROVE  BreakerInv'
  <2>1. /\ trial' = trial /\ attempt' = attempt /\ UNCHANGED <<state, probing>>
    BY <1>7 DEF Leave, Abort, breaker
  <2> QED
    BY <1>1, <1>7, <2>1, QueueStep DEF QueueInv
<1> QED
  BY <1>2, <1>3, <1>4, <1>5, <1>6, <1>7 DEF Next, Step

(* How many calls stand in some stages, after one call moved. *)
LEMMA OneMoves ==
  ASSUME NEW S, NEW c \in Calls, IsFiniteSet(At(S)),
         \A d \in Calls : d # c => (stage'[d] \in S <=> stage[d] \in S)
  PROVE  /\ IsFiniteSet(At(S)') /\ Cardinality(At(S)) \in Nat
         /\ Cardinality(At(S)') = IF stage'[c] \in S /\ stage[c] \notin S
                                  THEN Cardinality(At(S)) + 1
                                  ELSE IF stage'[c] \notin S /\ stage[c] \in S
                                  THEN Cardinality(At(S)) - 1
                                  ELSE Cardinality(At(S))
<1>1. Cardinality(At(S)) \in Nat
  BY FS_CardinalityType
<1>2. CASE stage'[c] \in S
  <2>1. At(S)' = At(S) \cup {c} /\ (c \in At(S) <=> stage[c] \in S)
    BY <1>2 DEF At
  <2> QED
    BY <1>1, <1>2, <2>1, FS_AddElement
<1>3. CASE stage'[c] \notin S
  <2>1. At(S)' = At(S) \ {c} /\ (c \in At(S) <=> stage[c] \in S)
    BY <1>3 DEF At
  <2> QED
    BY <1>1, <1>3, <2>1, FS_RemoveElement
<1> QED
  BY <1>2, <1>3

(* Taking a slot: the count goes up with the calls that hold one. *)
LEMMA EnterTakesSlot ==
  ASSUME QueueInv, SlotInv, NEW c \in Calls, stage[c] \in {"new", "granted"},
         Enter(c), queue' = queue
  PROVE  SlotInv'
<1>1. /\ \A d \in Calls : d # c => stage'[d] = stage[d]
      /\ stage'[c] \in Holding /\ stage'[c] # "granted" /\ stage'[c] # "queued"
      /\ stage[c] \notin Holding /\ active' = active + 1
  BY EnterMovesOne DEF Enter, Holding, Inside
<1>2. IsFiniteSet(At(Holding)') /\ Cardinality(At(Holding)') = Cardinality(At(Holding)) + 1
  <2>1. \A d \in Calls : d # c => (stage'[d] \in Holding <=> stage[d] \in Holding)
    BY <1>1
  <2> QED
    BY <1>1, <2>1, OneMoves DEF SlotInv
<1>3. /\ IsFiniteSet(At({"granted"})') /\ Cardinality(At({"granted"})) \in Nat
      /\ Cardinality(At({"granted"})') = IF stage[c] = "granted"
                                         THEN Cardinality(At({"granted"})) - 1
                                         ELSE Cardinality(At({"granted"}))
  <2>1. \A d \in Calls : d # c => (stage'[d] \in {"granted"} <=> stage[d] \in {"granted"})
    BY <1>1
  <2> QED
    BY <1>1, <2>1, OneMoves DEF SlotInv
<1>4. Cardinality(At(Holding)) \in Nat
  BY FS_CardinalityType DEF SlotInv
<1>5. active' = Cardinality(At(Holding)')
  BY <1>1, <1>2 DEF SlotInv
<1>6. queue' # <<>> => active' + Cardinality(At({"granted"})') >= MaxConcurrent
  BY <1>1, <1>3, <1>4, PolicyAssumption DEF SlotInv
<1>7. \A d \in Calls : stage'[d] = "queued" => \E i \in 1..Len(queue') : queue'[i] = d
  BY <1>1 DEF SlotInv
<1> QED
  BY <1>2, <1>3, <1>5, <1>6, <1>7 DEF SlotInv

(* Where nobody takes, hands on or is handed a slot, the counts stay. *)
LEMMA SlotsStay ==
  ASSUME SlotInv, active' = active,
         \A d \in Calls : /\ stage'[d] \in Holding <=> stage[d] \in Holding
                          /\ stage'[d] = "granted" <=> stage[d] = "granted"
                          /\ stage'[d] = "queued" => \E i \in 1..Len(queue') : queue'[i] = d,
         queue' # <<>> => queue # <<>> \/ active >= MaxConcurrent
  PROVE  SlotInv'
<1>1. At(Holding)' = At(Holding) /\ At({"granted"})' = At({"granted"})
  BY DEF At
<1>2. Cardinality(At(Holding)) \in Nat /\ Cardinality(At({"granted"})) \in Nat
  BY FS_CardinalityType DEF SlotInv
<1>3. queue' # <<>> => active' + Cardinality(At({"granted"})') >= MaxConcurrent
  BY <1>1, <1>2, PolicyAssumption DEF SlotInv
<1> QED
  BY <1>1, <1>3 DEF SlotInv

(* A slot is handed to the first in the queue, or becomes free. *)
LEMMA LeaveHandsOn ==
  ASSUME QueueInv, SlotInv, NEW c \in Calls, Leave(c)
  PROVE  SlotInv'
<1>1. stage[c] = "leaving" /\ active' = active - 1 /\ stage[c] \in Holding
  BY DEF Leave, Holding
<1>2. Cardinality(At(Holding)) \in Nat
  BY FS_CardinalityType DEF SlotInv
<1>3. CASE queue = <<>>
  <2>1. stage' = [stage EXCEPT ![c] = "over"] /\ queue' = <<>>
    BY <1>3 DEF Leave, Granting
  <2>2. /\ stage'[c] = "over" /\ \A d \in Calls : d # c => stage'[d] = stage[d]
        /\ "over" \notin Holding
    BY <2>1 DEF QueueInv, Holding, Inside
  <2>3. IsFiniteSet(At(Holding)') /\ Cardinality(At(Holding)') = Cardinality(At(Holding)) - 1
    <3>1. \A d \in Calls : d # c => (stage'[d] \in Holding <=> stage[d] \in Holding)
      BY <2>2
    <3> QED
      BY <1>1, <2>2, <3>1, OneMoves DEF SlotInv
  <2>4. IsFiniteSet(At({"granted"})')
    <3>1. \A d \in Calls : d # c => (stage'[d] \in {"granted"} <=> stage[d] \in {"granted"})
      BY <2>2
    <3> QED
      BY <3>1, OneMoves DEF SlotInv
  <2>5. \A d \in Calls : stage'[d] = "queued" => \E i \in 1..Len(queue') : queue'[i] = d
    BY <1>3, <2>1, <2>2 DEF SlotInv
  <2> QED
    BY <1>1, <2>1, <2>3, <2>4, <2>5 DEF SlotInv
<1>4. CASE queue # <<>>
  <2> DEFINE h == Head(queue)
  <2>1. /\ h \in Calls /\ h = queue[1] /\ stage[h] = "queued" /\ h # c
        /\ stage' = [stage EXCEPT ![c] = "over", ![h] = "granted"]
        /\ Len(queue') = Len(queue) - 1 /\ \A i \in 1..Len(queue') : queue'[i] = queue[i + 1]
    BY <1>1, <1>4 DEF Leave, Granting, QueueInv
  <2>2. /\ stage'[c] = "over" /\ stage'[h] = "granted"
        /\ \A d \in Calls : d # c /\ d # h => stage'[d] = stage[d]
        /\ {"over", "granted", "queued"} \cap Holding = {}
    <3> HIDE DEF h
    <3> QED
      BY <2>1 DEF QueueInv, Holding, Inside
  <2>3. IsFiniteSet(At(Holding)') /\ Cardinality(At(Holding)') = Cardinality(At(Holding)) - 1
    <3>1. \A d \in Calls : d # c => (stage'[d] \in Holding <=> stage[d] \in Holding)
      BY <2>1, <2>2
    <3>2. stage'[c] \notin Holding
      BY <2>2
    <3> QED
      BY <1>1, <3>1, <3>2, OneMoves DEF SlotInv
  <2>4. /\ IsFiniteSet(At({"granted"})') /\ Cardinality(At({"granted"})) \in Nat
        /\ Cardinality(At({"granted"})') = Cardinality(At({"granted"})) + 1
    <3>1. \A d \in Calls : d # h => (stage'[d] \in {"granted"} <=> stage[d] \in {"granted"})
      BY <1>1, <2>2
    <3>2. stage'[h] \in {"granted"} /\ stage[h] \notin {"granted"}
      BY <2>1, <2>2
    <3> QED
      BY <2>1, <3>1, <3>2, OneMoves DEF SlotInv
  <2>5. ASSUME NEW d \in Calls, stage'[d] = "queued"
        PROVE  \E i \in 1..Len(queue') : queue'[i] = d
    <3>1. stage[d] = "queued" /\ d # h
      BY <2>2, <2>5
    <3>2. PICK i \in 1..Len(queue) : queue[i] = d
      BY <3>1 DEF SlotInv
    <3>3. i - 1 \in 1..Len(queue') /\ (i - 1) + 1 = i
      BY <2>1, <3>1, <3>2 DEF QueueInv
    <3> QED
      BY <2>1, <3>2, <3>3
  <2>6. active' + Cardinality(At({"granted"})') >= MaxConcurrent
    BY <1>1, <1>2, <1>4, <2>4, PolicyAssumption DEF SlotInv
  <2> QED
    BY <1>1, <2>3, <2>4, <2>5, <2>6 DEF SlotInv
<1> QED
  BY <1>3, <1>4

(* Every step keeps the account of the slots. *)
LEMMA SlotInvariance ==
  ASSUME IInv, [Next]_vars
  PROVE  SlotInv'
<1> USE DEF IInv
<1>1. CASE Tick \/ UNCHANGED vars
  <2>1. stage' = stage /\ queue' = queue /\ active' = active
    BY <1>1 DEF Tick, vars, bulkhead
  <2> QED
    BY <2>1, SlotsStay DEF SlotInv
<1>2. ASSUME NEW c \in Calls, Invoke(c)
      PROVE  SlotInv'
  <2>1. stage[c] = "new"
    BY <1>2 DEF Invoke
  <2>2. CASE stage' = [stage EXCEPT ![c] = "over"] /\ queue' = queue /\ active' = active
    <3>1. \A d \in Calls : IF d = c THEN stage'[d] = "over" ELSE stage'[d] = stage[d]
      BY <2>2 DEF QueueInv
    <3> QED
      BY <2>1, <2>2, <3>1, SlotsStay DEF SlotInv, Holding, Inside
  <2>3. CASE /\ stage' = [stage EXCEPT ![c] = "queued"] /\ queue' = Append(queue, c)
             /\ active' = active /\ active >= MaxConcurrent
    <3>1. \A d \in Calls : IF d = c THEN stage'[d] = "queued" ELSE stage'[d] = stage[d]
      BY <2>3 DEF QueueInv
    <3>2. /\ Len(queue') = Len(queue) + 1 /\ Len(queue) \in Nat /\ queue'[Len(queue) + 1] = c
          /\ \A i \in 1..Len(queue) : queue'[i] = queue[i]
      BY <2>3 DEF QueueInv
    <3>3. ASSUME NEW d \in Calls, stage'[d] = "queued"
          PROVE  \E i \in 1..Len(queue') : queue'[i] = d
      <4>1. CASE d = c
        BY <3>2, <4>1
      <4>2. CASE d # c
        <5>1. PICK i \in 1..Len(queue) : queue[i] = d
          BY <3>1, <3>3, <4>2 DEF SlotInv
        <5> QED
          BY <3>2, <5>1
      <4> QED
        BY <4>1, <4>2
    <3>4. \A d \in Calls : /\ stage'[d] \in Holding <=> stage[d] \in Holding
                           /\ stage'[d] = "granted" <=> stage[d] = "granted"
      BY <2>1, <3>1 DEF Holding, Inside
    <3> QED
      BY <2>3, <3>3, <3>4, SlotsStay
  <2>4. CASE Enter(c) /\ queue' = queue
    BY <2>1, <2>4, EnterTakesSlot
  <2> QED
    BY <1>2, <2>2, <2>3, <2>4 DEF Invoke, Goto, bulkhead
<1>3. ASSUME NEW c \in Calls, Resume(c)
      PROVE  SlotInv'
  BY <1>3, EnterTakesSlot DEF Resume
<1>4. ASSUME NEW c \in Calls, AttemptEnds(c) \/ BackoffEnds(c) \/ Report(c)
      PROVE  SlotInv'
  <2>1. /\ stage[c] \in Inside /\ queue' = queue /\ active' = active
        /\ stage'[c] \in Holding /\ \A d \in Calls : d # c => stage'[d] = stage[d]
    BY <1>4 DEF AttemptEnds, BackoffEnds, Report, Goto, bulkhead, QueueInv, Holding, Inside
  <2> QED
    BY <2>1, SlotsStay DEF SlotInv, Holding, Inside
<1>5. ASSUME NEW c \in Calls, Leave(c)
      PROVE  SlotInv'
  BY <1>5, LeaveHandsOn
<1>6. ASSUME NEW c \in Calls, Abort(c)
      PROVE  SlotInv'
  <2>1. active' = active
    BY <1>6 DEF Abort
  <2>2. CASE stage[c] # "queued"
    <3>1. stage' = stage /\ queue' = queue
      BY <1>6, <2>2 DEF Abort
    <3> QED
      BY <2>1, <3>1, SlotsStay DEF SlotInv
  <2>3. CASE stage[c] = "queued"
    <3>1. PICK n \in 1..Len(queue) :
            /\ queue[n] = c
            /\ queue' \in Seq(Calls) /\ Len(queue') = Len(queue) - 1
            /\ \A i \in 1..Len(queue') : queue'[i] = IF i < n THEN queue[i] ELSE queue[i + 1]
      BY <1>6, <2>3, QueueCloses
    <3>2. \A d \in Calls : IF d = c THEN stage'[d] = "over" ELSE stage'[d] = stage[d]
      BY <1>6, <2>3 DEF Abort, Goto, QueueInv
    <3>3. ASSUME NEW d \in Calls, stage'[d] = "queued"
          PROVE  \E i \in 1..Len(queue') : queue'[i] = d
      <4>1. PICK i \in 1..Len(queue) : queue[i] = d
        BY <3>2, <3>3 DEF SlotInv
      <4>2. i # n /\ Len(queue) \in Nat
        BY <3>1, <3>2, <3>3, <4>1 DEF QueueInv
      <4>3. CASE i < n
        <5>1. i \in 1..Len(queue')
          BY <3>1, <4>2, <4>3
        <5> QED
          BY <3>1, <4>1, <4>3, <5>1
      <4>4. CASE i > n
        <5>1. i - 1 \in 1..Len(queue') /\ ~(i - 1 < n) /\ (i - 1) + 1 = i
          BY <3>1, <4>2, <4>4
        <5> QED
          BY <3>1, <4>1, <5>1
      <4> QED
        BY <4>2, <4>3, <4>4
    <3>4. \A d \in Calls : /\ stage'[d] \in Holding <=> stage[d] \in Holding
                           /\ stage'[d] = "granted" <=> stage[d] = "granted"
      BY <2>3, <3>2 DEF Holding, Inside
    <3>5. queue # <<>>
      BY <3>1
    <3> QED
      BY <2>1, <3>3, <3>4, <3>5, SlotsStay
  <2> QED
    BY <2>2, <2>3
<1> QED
  BY <1>1, <1>2, <1>3, <1>4, <1>5, <1>6 DEF Next, Step

(* A set of natural numbers has a least one. *)
LEMMA LeastOf ==
  ASSUME NEW T \in SUBSET Nat, T # {}
  PROVE  \E n \in T : \A m \in T : n <= m
<1>1. PICK n \in T : \A m \in T : ~(<<m, n>> \in OpToRel(<, Nat))
  <2>1. IsWellFoundedOn(OpToRel(<, Nat), Nat)
    BY NatLessThanWellFounded, Zenon
  <2> QED
    BY <2>1, WFMin, Zenon
<1>2. \A m \in T : ~(m < n)
  BY <1>1, Zenon DEF OpToRel
<1> QED
  BY <1>2

(* #recordFailure drops exactly the failures out of the window: those that *)
(* Recent keeps are the times after the cutoff, in their order.            *)
LEMMA RecentFilters ==
  ASSUME now \in Nat, NEW times \in Seq(Nat), InOrder(times)
  PROVE  \E gone \in 0..Len(times) :
           /\ \A i \in 1..Len(times) : times[i] <= now - Window <=> i <= gone
           /\ Recent(times) \in Seq(Nat) /\ Len(Recent(times)) = Len(times) - gone
           /\ \A i \in 1..(Len(times) - gone) : Recent(times)[i] = times[gone + i]
<1> DEFINE old == {i \in 1..Len(times) : times[i] <= now - Window}
           young == (1..Len(times)) \ old
<1>1. Len(times) \in Nat /\ DOMAIN times = 1..Len(times) /\ Window \in Nat
  BY PolicyAssumption
<1>2. PICK gone \in 0..Len(times) : old = 1..gone
  <2>1. CASE young = {}
    <3>1. old = 1..Len(times)
      BY <2>1
    <3> QED
      BY <1>1, <3>1
  <2>2. CASE young # {}
    <3>1. PICK m \in young : \A i \in young : m <= i
      <4>1. young \in SUBSET Nat
        BY <1>1
      <4> HIDE DEF young
      <4> QED
        BY <2>2, <4>1, LeastOf
    <3>2. m - 1 \in 0..Len(times) /\ m \in 1..Len(times) /\ ~(times[m] <= now - Window)
      BY <1>1, <3>1
    <3>3. ASSUME NEW i \in 1..Len(times) PROVE i \in old <=> i \in 1..(m - 1)
      <4>1. times[i] \in Nat /\ times[m] \in Nat
        BY <3>2
      <4>2. m <= i => times[m] <= times[i]
        BY <3>2 DEF InOrder
      <4>3. i < m => i \in old
        BY <1>1, <3>1, <3>2
      <4> QED
        BY <1>1, <3>2, <4>1, <4>2, <4>3
    <3>4. old = 1..(m - 1)
      BY <1>1, <3>2, <3>3
    <3> QED
      BY <3>2, <3>4
  <2> QED
    BY <2>1, <2>2
<1>3. Cardinality(old) = gone
  <2>1. 1 \in Int /\ gone \in Int /\ gone >= 0
    BY <1>1
  <2>2. Cardinality(1..gone) = IF 1 > gone THEN 0 ELSE gone - 1 + 1
    BY <2>1, FS_Interval
  <2>3. Cardinality(old) = Cardinality(1..gone)
    BY <1>2
  <2> QED
    BY <2>1, <2>2, <2>3
<1>4. Recent(times) = SubSeq(times, gone + 1, Len(times))
  <2>1. {i \in DOMAIN times : times[i] <= now - Window} = old
    BY <1>1
  <2> HIDE DEF old
  <2> QED
    BY <1>3, <2>1 DEF Recent
<1>5. \A i \in 1..Len(times) : times[i] <= now - Window <=> i <= gone
  BY <1>1, <1>2
<1> HIDE DEF old, young
<1>6. /\ SubSeq(times, gone + 1, Len(times)) \in Seq(Nat)
      /\ Len(SubSeq(times, gone + 1, Len(times)))
           = IF gone + 1 <= Len(times) THEN Len(times) - (gone + 1) + 1 ELSE 0
      /\ \A i \in 1..(Len(times) - (gone + 1) + 1) :
           SubSeq(times, gone + 1, Len(times))[i] = times[gone + 1 + i - 1]
  <2>1. gone + 1 \in Int /\ \A i \in (gone + 1)..Len(times) : times[i] \in Nat
    BY <1>1
  <2> QED
    BY <1>1, <2>1, SubSeqProperties
<1>7. /\ Len(Recent(times)) = Len(times) - gone
      /\ \A i \in 1..(Len(times) - gone) : Recent(times)[i] = times[gone + i]
  <2>0. gone \in Nat /\ Len(times) \in Nat /\ gone <= Len(times)
    BY <1>1, <1>2
  <2>1. gone + 1 <= Len(times) \/ gone = Len(times)
    BY <2>0
  <2>2. Len(times) - (gone + 1) + 1 = Len(times) - gone
    BY <2>0
  <2>3. Len(Recent(times)) = Len(times) - gone
    <3>1. CASE gone + 1 <= Len(times)
      <4>1. Len(Recent(times)) = Len(times) - (gone + 1) + 1
        BY <1>4, <1>6, <3>1
      <4> QED
        BY <2>2, <4>1
    <3>2. CASE gone = Len(times)
      <4>1. ~(gone + 1 <= Len(times)) /\ Len(times) - gone = 0
        BY <2>0, <3>2
      <4> QED
        BY <1>4, <1>6, <4>1
    <3> QED
      BY <2>1, <3>1, <3>2
  <2>4. ASSUME NEW i \in 1..(Len(times) - gone)
        PROVE  Recent(times)[i] = times[gone + i]
    <3>1. i \in 1..(Len(times) - (gone + 1) + 1) /\ gone + 1 + i - 1 = gone + i
      BY <1>1, <2>2
    <3> QED
      BY <1>4, <1>6, <3>1
  <2> QED
    BY <2>3, <2>4
<1> QED
  BY <1>4, <1>5, <1>6, <1>7

(* A failure counted keeps the window in order. *)
LEMMA FailureInOrder ==
  ASSUME DataInv
  PROVE  /\ Recent(Append(failures, now)) \in Seq(Nat)
         /\ InOrder(Recent(Append(failures, now)))
         /\ \A i \in 1..Len(Recent(Append(failures, now))) :
              Recent(Append(failures, now))[i] <= now
<1> DEFINE all == Append(failures, now)
<1>1. /\ all \in Seq(Nat) /\ Len(all) = Len(failures) + 1 /\ Len(failures) \in Nat
      /\ \A i \in 1..Len(all) : all[i] = IF i <= Len(failures) THEN failures[i] ELSE now
  BY DEF DataInv
<1>2. now \in Nat /\ \A i \in 1..Len(failures) : failures[i] \in Nat
  BY DEF DataInv
<1> HIDE DEF all
<1>3. InOrder(all) /\ \A i \in 1..Len(all) : all[i] <= now
  <2>1. /\ InOrder(failures) /\ \A i \in 1..Len(failures) : failures[i] <= now
    BY DEF DataInv
  <2>2. ASSUME NEW i \in 1..Len(all) PROVE all[i] <= now
    BY <1>1, <1>2, <2>1
  <2>3. ASSUME NEW i \in 1..Len(all), NEW j \in 1..Len(all), i <= j
        PROVE  all[i] <= all[j]
    <3>1. CASE j <= Len(failures)
      <4>1. i \in 1..Len(failures) /\ j \in 1..Len(failures)
        BY <1>1, <2>3, <3>1
      <4>2. failures[i] <= failures[j]
        BY <2>1, <2>3, <4>1 DEF InOrder
      <4> QED
        BY <1>1, <4>1, <4>2
    <3>2. CASE ~(j <= Len(failures))
      BY <1>1, <2>2, <3>2
    <3> QED
      BY <3>1, <3>2
  <2> QED
    BY <2>2, <2>3 DEF InOrder
<1>4. PICK gone \in 0..Len(all) :
        /\ Recent(all) \in Seq(Nat) /\ Len(Recent(all)) = Len(all) - gone
        /\ \A i \in 1..(Len(all) - gone) : Recent(all)[i] = all[gone + i]
  BY <1>1, <1>2, <1>3, RecentFilters
<1>5. ASSUME NEW i \in 1..Len(Recent(all))
      PROVE  gone + i \in 1..Len(all) /\ Recent(all)[i] = all[gone + i]
  BY <1>1, <1>4
<1>6. InOrder(Recent(all)) /\ \A i \in 1..Len(Recent(all)) : Recent(all)[i] <= now
  <2>1. ASSUME NEW i \in 1..Len(Recent(all)), NEW j \in 1..Len(Recent(all)), i <= j
        PROVE  Recent(all)[i] <= Recent(all)[j]
    <3>1. gone + i <= gone + j
      BY <1>1, <1>4, <2>1
    <3> QED
      BY <1>3, <1>5, <3>1 DEF InOrder
  <2> QED
    BY <1>3, <1>5, <2>1 DEF InOrder
<1> QED
  BY <1>4, <1>6 DEF all

(* Every step keeps the clock, the window and the attempts as they are. *)
LEMMA DataInvariance ==
  ASSUME IInv, [Next]_vars
  PROVE  DataInv'
<1> USE DEF IInv
<1>1. CASE Tick \/ UNCHANGED vars
  <2>1. /\ now' \in Nat /\ now' >= now
        /\ UNCHANGED <<stage, attempt, aborted, state, failures, openedAt, probing>>
    BY <1>1 DEF Tick, vars, breaker, DataInv
  <2>2. \A i \in 1..Len(failures) : failures[i] \in Nat
    BY DEF DataInv
  <2> QED
    BY <2>1, <2>2 DEF DataInv, InOrder
<1>2. ASSUME NEW c \in Calls, stage[c] \in {"new", "granted"}, Enter(c),
             UNCHANGED <<now, aborted>>
      PROVE  DataInv'
  <2>1. failures' = failures /\ openedAt' = openedAt /\ UNCHANGED <<now, aborted>>
    BY <1>2 DEF Enter, Refuse, Start
  <2>2. state' \in {"closed", "open", "half-open"} /\ probing' \in BOOLEAN
    BY <1>2 DEF Enter, Refuse, Start, DataInv
  <2>3. attempt' = attempt \/ attempt' = [attempt EXCEPT ![c] = 1]
    BY <1>2 DEF Enter, Refuse, Start
  <2>4. attempt' \in [Calls -> 0..Limit] /\ \A d \in Calls : d # c => attempt'[d] = attempt[d]
    BY <2>3, PolicyAssumption DEF DataInv
  <2>5. \A d \in Calls : stage'[d] = "backoff" => attempt'[d] < Limit
    BY <1>2, <2>4, EnterMovesOne DEF DataInv
  <2> QED
    BY <2>1, <2>2, <2>4, <2>5 DEF DataInv, InOrder
<1>3. ASSUME NEW c \in Calls, Invoke(c)
      PROVE  DataInv'
  <2>1. CASE Enter(c)
    BY <1>2, <1>3, <2>1 DEF Invoke
  <2>2. CASE ~Enter(c)
    <3>1. /\ UNCHANGED <<now, aborted, attempt, state, failures, openedAt, probing>>
          /\ \A d \in Calls : stage'[d] = "backoff" => stage[d] = "backoff"
      BY <1>3, <2>2 DEF Invoke, Goto, breaker, bulkhead, QueueInv
    <3> QED
      BY <3>1 DEF DataInv, InOrder
  <2> QED
    BY <2>1, <2>2
<1>4. ASSUME NEW c \in Calls, Resume(c)
      PROVE  DataInv'
  BY <1>2, <1>4 DEF Resume
<1>5. ASSUME NEW c \in Calls, AttemptEnds(c) \/ BackoffEnds(c)
      PROVE  DataInv'
  <2>1. /\ UNCHANGED <<now, aborted, state, failures, openedAt, probing>>
    BY <1>5 DEF AttemptEnds, BackoffEnds, breaker
  <2>2. CASE AttemptEnds(c)
    <3>1. /\ attempt' = attempt /\ stage' \in [Calls -> Stages]
          /\ stage'[c] = "backoff" => attempt[c] < Limit
          /\ \A d \in Calls : d # c => stage'[d] = stage[d]
      BY <2>2 DEF AttemptEnds, Goto, QueueInv, Stages, Inside
    <3> QED
      BY <2>1, <3>1 DEF DataInv, InOrder
  <2>3. CASE BackoffEnds(c)
    <3>1. /\ stage[c] = "backoff" /\ stage'[c] # "backoff"
          /\ \A d \in Calls : d # c => stage'[d] = stage[d]
      BY <2>3 DEF BackoffEnds, Goto, QueueInv
    <3>2. attempt' = attempt \/ attempt' = [attempt EXCEPT ![c] = @ + 1]
      BY <2>3 DEF BackoffEnds
    <3>3. attempt[c] \in 0..Limit /\ attempt[c] < Limit /\ Limit \in Nat
      BY <3>1, PolicyAssumption DEF DataInv
    <3>4. /\ attempt' \in [Calls -> 0..Limit]
          /\ \A d \in Calls : d # c => attempt'[d] = attempt[d]
      BY <3>2, <3>3 DEF DataInv
    <3>5. \A d \in Calls : stage'[d] = "backoff" => attempt'[d] < Limit
      BY <3>1, <3>4 DEF DataInv
    <3> QED
      BY <2>1, <3>4, <3>5 DEF DataInv, InOrder
  <2> QED
    BY <1>5, <2>2, <2>3
<1>6. ASSUME NEW c \in Calls, Report(c)
      PROVE  DataInv'
  <2>1. /\ UNCHANGED <<now, aborted, attempt>>
        /\ \A d \in Calls : stage'[d] = "backoff" => stage[d] = "backoff"
    BY <1>6 DEF Report, Goto, QueueInv
  <2>2. /\ state' \in {"closed", "open", "half-open"} /\ probing' \in BOOLEAN
        /\ openedAt' \in Nat
        /\ failures' \in {failures, <<>>, Recent(Append(failures, now))}
    <3>1. state \in {"closed", "open", "half-open"} /\ probing \in BOOLEAN
          /\ openedAt \in Nat /\ now \in Nat
      BY DEF DataInv
    <3> QED
      BY <1>6, <3>1 DEF Report, TrialEnds, RecordFailure, breaker
  <2>3. /\ failures' \in Seq(Nat) /\ InOrder(failures')
        /\ \A i \in 1..Len(failures') : failures'[i] <= now
    <3>1. CASE failures' = failures
      BY <3>1 DEF DataInv, InOrder
    <3>2. CASE failures' = <<>>
      BY <3>2 DEF InOrder
    <3>3. CASE failures' = Recent(Append(failures, now))
      BY <3>3, FailureInOrder, Zenon
    <3> QED
      BY <2>2, <3>1, <3>2, <3>3
  <2> QED
    BY <2>1, <2>2, <2>3 DEF DataInv, InOrder
<1>7. ASSUME NEW c \in Calls, Leave(c) \/ Abort(c)
      PROVE  DataInv'
  <2>1. /\ UNCHANGED <<now, attempt, state, failures, openedAt, probing>>
        /\ aborted' \subseteq Calls
    BY <1>7 DEF Leave, Abort, breaker, DataInv
  <2>2. \A d \in Calls : stage'[d] \in Inside <=> stage[d] \in Inside
    BY <1>7, QueueStep
  <2>3. \A d \in Calls : stage'[d] = "backoff" => stage[d] = "backoff"
    BY <1>7, QueueStep DEF Leave, Granting, Abort, Goto, QueueInv, Inside
  <2> QED
    BY <2>1, <2>3 DEF DataInv, InOrder
<1> QED
  BY <1>1, <1>3, <1>4, <1>5, <1>6, <1>7 DEF Next, Step

(* The inductive invariant of the chain. *)
THEOREM ResilienceInvariant == Spec => []IInv
<1>1. Init => IInv
  <2> SUFFICES ASSUME Init PROVE IInv
    OBVIOUS
  <2>1. QueueInv /\ BreakerInv
    BY DEF Init, QueueInv, BreakerInv, SingleProbe, InFlight, Stages, Inside, Before
  <2>2. At(Holding) = {} /\ At({"granted"}) = {}
    BY DEF Init, At, Holding, Inside
  <2>3. SlotInv
    BY <2>2, FS_EmptySet DEF Init, SlotInv
  <2>4. DataInv
    <3>1. Limit \in Nat
      BY PolicyAssumption
    <3>2. <<>> \in Seq(Nat) /\ Len(<<>>) = 0
      OBVIOUS
    <3>3. failures \in Seq(Nat) /\ InOrder(failures) /\ \A i \in 1..Len(failures) : failures[i] <= now
      BY <3>2 DEF Init, InOrder
    <3>4. attempt \in [Calls -> 0..Limit] /\ \A c \in Calls : stage[c] # "backoff"
      BY <3>1 DEF Init
    <3> QED
      BY <3>3, <3>4 DEF Init, DataInv
  <2> QED
    BY <2>1, <2>3, <2>4 DEF IInv
<1>2. IInv /\ [Next]_vars => IInv'
  BY QueueInvariance, BreakerInvariance, SlotInvariance, DataInvariance DEF IInv
<1> QED
  BY <1>1, <1>2, PTL DEF Spec

(* Every state of the chain is well typed: retry starts no attempt beyond  *)
(* its limit.                                                              *)
THEOREM ResilienceTypeOK == Spec => []TypeOK
<1>1. IInv => TypeOK
  <2> SUFFICES ASSUME IInv PROVE TypeOK
    OBVIOUS
  <2>1. active \in Nat
    BY FS_CardinalityType DEF IInv, SlotInv
  <2> QED
    BY <2>1 DEF IInv, QueueInv, BreakerInv, DataInv, TypeOK
<1> QED
  BY <1>1, ResilienceInvariant, PTL

(* Bulkhead: #active counts the calls that hold a slot on every way in and *)
(* out, and calls wait only while every slot is held or already handed on. *)
THEOREM SlotsAccounted == Spec => []NoIdleSlot
<1>1. IInv => NoIdleSlot
  <2> SUFFICES ASSUME IInv PROVE NoIdleSlot
    OBVIOUS
  <2>1. active = Cardinality(At({"leaving"} \cup Inside))
    BY DEF IInv, SlotInv, Holding
  <2>2. DOMAIN queue = 1..Len(queue)
    BY DEF IInv, QueueInv
  <2>3. \A c \in Calls : stage[c] = "queued" <=> \E i \in DOMAIN queue : queue[i] = c
    BY <2>2 DEF IInv, QueueInv, SlotInv
  <2> QED
    BY <2>1, <2>3 DEF IInv, SlotInv, NoIdleSlot
<1> QED
  BY <1>1, ResilienceInvariant, PTL

(* No call of the chain enters it while a trial is outstanding, whatever   *)
(* state the breaker reports.                                              *)
THEOREM ProbeAlone == Spec => ProbeExclusive
<1>1. IInv /\ [Next]_vars
        => [\A c \in Calls : attempt[c] = 0 /\ attempt'[c] = 1 => InFlight = {}]_vars
  <2> SUFFICES ASSUME IInv, Next, NEW c \in Calls, attempt[c] = 0, attempt'[c] = 1
               PROVE  InFlight = {}
    BY DEF vars
  <2> USE DEF IInv
  <2>1. ASSUME NEW d \in Calls, Enter(d), stage[d] \in {"new", "granted"}
        PROVE  InFlight = {}
    <3>1. ~Refuse(d)
      BY <2>1 DEF Refuse, QueueInv
    <3>2. ~probing
      BY <2>1, <3>1 DEF Enter, BreakerInv
    <3> QED
      BY <3>2 DEF BreakerInv, SingleProbe
  <2>2. ASSUME NEW d \in Calls, BackoffEnds(d)
        PROVE  FALSE
    <3>1. stage[d] \in Inside /\ attempt[d] >= 1 /\ attempt[d] \in Nat
      BY <2>2 DEF BackoffEnds, BreakerInv, QueueInv, Inside
    <3>2. attempt' = attempt \/ attempt' = [attempt EXCEPT ![d] = @ + 1]
      BY <2>2 DEF BackoffEnds
    <3> QED
      BY <3>1, <3>2 DEF QueueInv
  <2>3. attempt' = attempt => FALSE
    OBVIOUS
  <2> QED
    BY <2>1, <2>2, <2>3
    DEF Next, Step, Tick, Invoke, Abort, Resume, AttemptEnds, Report, Leave
<1> QED
  BY <1>1, ResilienceInvariant, PTL DEF Spec, ProbeExclusive

(* throwIfAborted: no attempt begins for a call whose signal is aborted,   *)
(* neither on entering the chain, nor after waiting for a slot, nor after  *)
(* a backoff.                                                              *)
THEOREM AbortedStaysIdle == Spec => NoWorkAfterAbort
<1>1. IInv /\ [Next]_vars
        => [\A c \in Calls : attempt'[c] > attempt[c] => c \notin aborted]_vars
  <2> SUFFICES ASSUME IInv, Next, NEW c \in Calls, attempt'[c] > attempt[c]
               PROVE  c \notin aborted
    BY DEF vars
  <2> USE DEF IInv
  <2>1. ASSUME NEW d \in Calls, Enter(d)
        PROVE  c \notin aborted
    <3>1. attempt' # attempt
      BY DEF QueueInv
    <3>2. attempt' = [attempt EXCEPT ![d] = 1] /\ d \notin aborted
      BY <2>1, <3>1 DEF Enter, Refuse, Start
    <3> QED
      BY <3>2 DEF QueueInv
  <2>2. ASSUME NEW d \in Calls, BackoffEnds(d)
        PROVE  c \notin aborted
    BY <2>2 DEF BackoffEnds, QueueInv
  <2>3. attempt' = attempt => FALSE
    BY DEF QueueInv
  <2> QED
    BY <2>1, <2>2, <2>3
    DEF Next, Step, Tick, Invoke, Abort, Resume, AttemptEnds, Report, Leave
<1> QED
  BY <1>1, ResilienceInvariant, PTL DEF Spec, NoWorkAfterAbort

(* CircuitBreaker: the flag #probing admits one half-open trial at a time, *)
(* whatever late failures do to the state, and half-open ends with it.     *)
THEOREM OneProbe == Spec => []SingleProbe
<1>1. IInv => SingleProbe
  BY DEF IInv, BreakerInv
<1> QED
  BY <1>1, ResilienceInvariant, PTL
=============================================================================
