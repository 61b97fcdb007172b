--------------------------- MODULE RedisQueueProofs ---------------------------
(***************************************************************************)
(* Tokens fence the queue: leases are exclusive until they run out,        *)
(* attempts are counted, settlements of old deliveries change nothing, and *)
(* a replica fits its concurrency, for any number of jobs and replicas,    *)
(* any clocks and any faults.                                              *)
(***************************************************************************)
EXTENDS RedisQueue, SequenceTheorems, FiniteSetTheorems, TLAPS

(* The deliveries no settlement was sent for. *)
Unsettled == {"granted", "running", "failing", "reading"}

(* A job with a payload is in one place; in processing it is leased to its *)
(* latest delivery, for Visibility from when that was granted or renewed.  *)
Leased(j) ==
  /\ claims[j] = IF processing[j] = None THEN 0 ELSE Len(deliveries[j])
  /\ processing[j] # None =>
       /\ payload[j] # None /\ ready[j] = None /\ j \notin dead
       /\ Len(deliveries[j]) > 0
       /\ processing[j] = deliveries[j][Len(deliveries[j])].held + Visibility
  /\ ready[j] # None => payload[j] # None /\ j \notin dead
  /\ j \in dead => payload[j] # None
  /\ payload[j] # None => ready[j] # None \/ processing[j] # None \/ j \in dead

(* A delivery without the claim was settled, or its lease ran out. *)
Superseded(j) ==
  \A t \in Token(j) :
    /\ deliveries[j][t].command # "none" => deliveries[j][t].stage \notin Unsettled
    /\ deliveries[j][t].stage \in Unsettled /\ t # claims[j] =>
         now >= deliveries[j][t].held + Visibility

(* The attempts a delivery now would count are more than any before it;    *)
(* those of a job in processing are the current delivery's.                *)
Counted(j) ==
  /\ \A s, t \in Token(j) : s < t => deliveries[j][s].attempts < deliveries[j][t].attempts
  /\ payload[j] # None /\ j \notin dead =>
       \A t \in Token(j) :
         deliveries[j][t].attempts
           < Attempts(payload[j], stalls[j]) + (IF processing[j] = None THEN 0 ELSE 1)

JobInv(j) == Leased(j) /\ Superseded(j) /\ Counted(j)
QInv == TypeOK /\ \A j \in Jobs : JobInv(j)
-----------------------------------------------------------------------------
(* Rewriting one delivery, or every delivery, keeps the sequences. *)

LEMMA ChangeFacts ==
  ASSUME deliveries \in [Jobs -> Seq(Deliveries)],
         NEW j \in Jobs, NEW t \in Token(j), NEW d \in Deliveries, Change(j, t, d)
  PROVE  /\ deliveries' \in [Jobs -> Seq(Deliveries)]
         /\ \A k \in Jobs : Len(deliveries'[k]) = Len(deliveries[k])
         /\ \A k \in Jobs : \A s \in Token(k) :
              deliveries'[k][s] = IF k = j /\ s = t THEN d ELSE deliveries[k][s]
<1>1. deliveries' = [deliveries EXCEPT ![j] = [deliveries[j] EXCEPT ![t] = d]]
  BY DEF Change
<1>2. deliveries[j] \in Seq(Deliveries) /\ t \in 1..Len(deliveries[j])
  BY DEF Token
<1> DEFINE q == [deliveries[j] EXCEPT ![t] = d]
<1>3. /\ q \in Seq(Deliveries) /\ Len(q) = Len(deliveries[j])
      /\ \A s \in 1..Len(deliveries[j]) : q[s] = IF s = t THEN d ELSE deliveries[j][s]
  BY <1>2, ExceptSeq
<1> HIDE DEF q
<1>4. \A k \in Jobs : deliveries'[k] = IF k = j THEN q ELSE deliveries[k]
  BY <1>1 DEF q
<1>5. deliveries' \in [Jobs -> Seq(Deliveries)]
  BY <1>1, <1>3 DEF q
<1> QED
  BY <1>3, <1>4, <1>5 DEF Token

LEMMA MapFacts ==
  ASSUME NEW q \in Seq(Deliveries), NEW p,
         p = [i \in 1..Len(q) |-> p[i]], \A i \in 1..Len(q) : p[i] \in Deliveries
  PROVE  p \in Seq(Deliveries) /\ Len(p) = Len(q)
  BY LenProperties

(* What a step may do to a delivery whose job it leaves alone. *)
Follows(d, e) ==
  /\ e \in Deliveries
  /\ e.attempts = d.attempts /\ e.held = d.held
  /\ e.stage \in Unsettled => d.stage \in Unsettled
  /\ e.command # "none" => e.stage \notin Unsettled

Sane(d) == d \in Deliveries /\ (d.command # "none" => d.stage \notin Unsettled)

Quiet ==
  /\ UNCHANGED store
  /\ now' \in Nat /\ now <= now'
  /\ deliveries' \in [Jobs -> Seq(Deliveries)]
  /\ \A j \in Jobs : /\ Len(deliveries'[j]) = Len(deliveries[j])
                     /\ \A t \in Token(j) : Follows(deliveries[j][t], deliveries'[j][t])

(* The deliveries of the invariant are sane. *)
LEMMA AllSane ==
  ASSUME QInv, NEW j \in Jobs
  PROVE  /\ deliveries[j] \in Seq(Deliveries) /\ Len(deliveries[j]) \in Nat
         /\ \A t \in Token(j) : Sane(deliveries[j][t]) /\ Follows(deliveries[j][t], deliveries[j][t])
<1>1. deliveries[j] \in Seq(Deliveries)
  BY DEF QInv, TypeOK
<1>2. Len(deliveries[j]) \in Nat /\ \A t \in Token(j) : deliveries[j][t] \in Deliveries
  BY <1>1, ElementOfSeq, LenProperties DEF Token
<1>3. \A t \in Token(j) : deliveries[j][t].command # "none" => deliveries[j][t].stage \notin Unsettled
  BY DEF QInv, JobInv, Superseded
<1> QED
  BY <1>1, <1>2, <1>3 DEF Sane, Follows

(* A step that rewrites one sane delivery into one that follows it. *)
LEMMA ChangeQuiet ==
  ASSUME QInv, UNCHANGED <<now, store>>, NEW j \in Jobs, NEW t \in Token(j),
         NEW e, Follows(deliveries[j][t], e), Change(j, t, e)
  PROVE  Quiet
<1>1. /\ deliveries' \in [Jobs -> Seq(Deliveries)]
      /\ \A k \in Jobs : Len(deliveries'[k]) = Len(deliveries[k])
      /\ \A k \in Jobs : \A s \in Token(k) :
           deliveries'[k][s] = IF k = j /\ s = t THEN e ELSE deliveries[k][s]
  BY ChangeFacts DEF QInv, TypeOK, Follows
<1>2. now \in Nat
  BY DEF QInv, TypeOK, QueueAssumption
<1>3. ASSUME NEW k \in Jobs, NEW s \in Token(k)
      PROVE  Follows(deliveries[k][s], deliveries'[k][s])
  <2>1. CASE k = j /\ s = t
    BY <1>1, <2>1
  <2>2. CASE ~(k = j /\ s = t)
    BY <1>1, <2>2, AllSane
  <2> QED
    BY <2>1, <2>2
<1> QED
  BY <1>1, <1>2, <1>3 DEF Quiet

(* A step that rewrites every delivery into one that follows it. *)
LEMMA MapQuiet ==
  ASSUME QInv, UNCHANGED <<now, store>>, NEW m,
         deliveries' = [j \in Jobs |-> [t \in Token(j) |-> m[j][t]]],
         \A j \in Jobs : \A t \in Token(j) : Follows(deliveries[j][t], m[j][t])
  PROVE  Quiet
<1>1. now \in Nat
  BY DEF QInv, TypeOK, QueueAssumption
<1>2. ASSUME NEW j \in Jobs
      PROVE  /\ deliveries'[j] \in Seq(Deliveries) /\ Len(deliveries'[j]) = Len(deliveries[j])
             /\ \A t \in Token(j) : deliveries'[j][t] = m[j][t]
  <2>1. deliveries'[j] = [t \in 1..Len(deliveries[j]) |-> m[j][t]]
    BY DEF Token
  <2>2. \A t \in 1..Len(deliveries[j]) : deliveries'[j][t] = m[j][t] /\ m[j][t] \in Deliveries
    BY <2>1 DEF Token, Follows
  <2>3. deliveries[j] \in Seq(Deliveries)
    BY AllSane
  <2>4. deliveries'[j] = [t \in 1..Len(deliveries[j]) |-> deliveries'[j][t]]
    BY <2>1, <2>2
  <2>5. deliveries'[j] \in Seq(Deliveries) /\ Len(deliveries'[j]) = Len(deliveries[j])
    BY <2>2, <2>3, <2>4, MapFacts
  <2> QED
    BY <2>2, <2>5 DEF Token
<1>3. deliveries' \in [Jobs -> Seq(Deliveries)]
  BY <1>2
<1> QED
  BY <1>1, <1>2, <1>3 DEF Quiet
-----------------------------------------------------------------------------
(* The steps of the replicas, and of scripts a stale token reaches, are    *)
(* quiet: they change neither the store nor what a delivery was given.     *)

LEMMA RunnerQuiet ==
  ASSUME QInv, NEW j \in Jobs, NEW t \in Token(j), Runner(j, t)
  PROVE  Quiet
<1> DEFINE d == deliveries[j][t]
<1>1. Sane(d) /\ UNCHANGED <<now, store>>
  BY AllSane DEF Runner, ProcessorSucceeds, ProcessorFails, FailureNotified, PayloadRead,
                 CallEnds, Renew
<1>2. Follows(d, Over(d))
  BY <1>1 DEF Sane, Follows, Over, Unsettled, Deliveries, Stages
<1>3. \A command \in Commands : Follows(d, Sending(d, command))
  BY <1>1, <1>2 DEF Sending, Sane, Follows, Unsettled, Deliveries, Stages
<1>4. CASE ProcessorSucceeds(j, t)
  BY <1>1, <1>3, <1>4, ChangeQuiet DEF ProcessorSucceeds, Commands
<1>5. CASE ProcessorFails(j, t)
  <2>1. PICK delay \in Delays :
          Change(j, t, IF d.attempts >= MaxAttempts THEN [d EXCEPT !.stage = "failing"]
                       ELSE IF ~connected[d.by] THEN Over(d)
                       ELSE [d EXCEPT !.stage = "reading", !.due = Clock(d.by) + delay])
    BY <1>5 DEF ProcessorFails
  <2>2. d.stage = "running" /\ Clock(d.by) + delay \in Nat
    <3>1. d.by \in Replicas /\ now \in Nat /\ delay \in Nat /\ Skew \in [Replicas -> Nat]
      BY <1>1, QueueAssumption DEF Sane, Deliveries, QInv, TypeOK, QueueAssumption
    <3> QED
      BY <1>5, <3>1 DEF ProcessorFails, Clock
  <2>3. /\ Follows(d, [d EXCEPT !.stage = "failing"])
        /\ Follows(d, [d EXCEPT !.stage = "reading", !.due = Clock(d.by) + delay])
    BY <1>1, <2>2 DEF Sane, Follows, Unsettled, Deliveries, Stages
  <2> QED
    BY <1>1, <1>2, <2>1, <2>3, ChangeQuiet
<1>6. CASE FailureNotified(j, t)
  BY <1>1, <1>3, <1>6, ChangeQuiet DEF FailureNotified, Commands
<1>7. CASE PayloadRead(j, t)
  BY <1>1, <1>2, <1>3, <1>7, ChangeQuiet DEF PayloadRead, Commands
<1>8. CASE CallEnds(j, t)
  BY <1>1, <1>2, <1>8, ChangeQuiet DEF CallEnds
<1>9. CASE Renew(j, t)
  <2>1. Follows(d, [d EXCEPT !.extending = TRUE])
    BY <1>1 DEF Sane, Follows, Unsettled, Deliveries
  <2> QED
    BY <1>1, <1>9, <2>1, ChangeQuiet DEF Renew
<1> QED
  BY <1>4, <1>5, <1>6, <1>7, <1>8, <1>9 DEF Runner

LEMMA ReplicaQuiet ==
  ASSUME QInv, NEW r \in Replicas,
         Poll(r) \/ PollFails(r) \/ Dispatch(r) \/ Disconnect(r) \/ Crash(r) \/ Connect(r)
  PROVE  Quiet
<1>1. UNCHANGED <<now, store>>
  BY DEF Poll, PollFails, Dispatch, Disconnect, Crash, Connect
<1>2. connected \in [Replicas -> BOOLEAN] /\ now \in Nat
      /\ deliveries \in [Jobs -> Seq(Deliveries)]
  BY DEF QInv, TypeOK, QueueAssumption
<1>3. ASSUME NEW j \in Jobs, NEW t \in Token(j)
      PROVE  LET d == deliveries[j][t]
             IN  /\ Follows(d, d) /\ Follows(d, Over(d))
                 /\ Follows(d, [d EXCEPT !.renewing = FALSE])
                 /\ Granted(r, d) => Follows(d, Started(d))
  <2> DEFINE d == deliveries[j][t]
  <2>1. Sane(d) /\ connected[d.by] \in BOOLEAN
    BY <1>2, AllSane DEF Sane, Deliveries
  <2>2. Follows(d, d)
    BY <2>1 DEF Sane, Follows
  <2>3. Follows(d, Over(d))
    BY <2>1 DEF Sane, Follows, Over, Unsettled, Deliveries, Stages
  <2>4. Follows(d, [d EXCEPT !.renewing = FALSE])
    BY <2>1 DEF Sane, Follows, Deliveries
  <2>5. ASSUME Granted(r, d) PROVE Follows(d, Started(d))
    <3>1. \A s \in {"failing", "running"} :
            Follows(d, [d EXCEPT !.stage = s, !.renewing = connected[d.by]])
      BY <2>1, <2>5 DEF Sane, Follows, Granted, Unsettled, Deliveries, Stages
    <3> QED
      BY <3>1 DEF Started
  <2> QED
    BY <2>2, <2>3, <2>4, <2>5
<1>4. CASE Poll(r) \/ Connect(r)
  <2>1. deliveries' = deliveries /\ now' = now
    BY <1>1, <1>4 DEF Poll, Connect
  <2> QED
    BY <1>1, <1>2, <2>1, AllSane DEF Quiet
<1>5. CASE PollFails(r)
  <2> DEFINE m == [j \in Jobs |-> [t \in Token(j) |->
                     IF Granted(r, deliveries[j][t]) THEN Over(deliveries[j][t])
                     ELSE deliveries[j][t]]]
  <2>1. deliveries' = [j \in Jobs |-> [t \in Token(j) |-> m[j][t]]]
    BY <1>5 DEF PollFails, ChangeThose
  <2>2. \A j \in Jobs : \A t \in Token(j) : Follows(deliveries[j][t], m[j][t])
    BY <1>3
  <2> QED
    BY <1>1, <2>1, <2>2, MapQuiet
<1>6. CASE Dispatch(r)
  <2> DEFINE m == [j \in Jobs |-> [t \in Token(j) |->
                     IF Granted(r, deliveries[j][t]) THEN Started(deliveries[j][t])
                     ELSE deliveries[j][t]]]
  <2>1. deliveries' = [j \in Jobs |-> [t \in Token(j) |-> m[j][t]]]
    BY <1>6 DEF Dispatch, ChangeThose
  <2>2. \A j \in Jobs : \A t \in Token(j) : Follows(deliveries[j][t], m[j][t])
    BY <1>3
  <2> QED
    BY <1>1, <2>1, <2>2, MapQuiet
<1>7. CASE Disconnect(r)
  <2> DEFINE m == [j \in Jobs |-> [t \in Token(j) |->
                     IF deliveries[j][t].by = r
                     THEN [deliveries[j][t] EXCEPT !.renewing = FALSE]
                     ELSE deliveries[j][t]]]
  <2>1. deliveries' = [j \in Jobs |-> [t \in Token(j) |-> m[j][t]]]
    BY <1>7 DEF Disconnect, ChangeThose
  <2>2. \A j \in Jobs : \A t \in Token(j) : Follows(deliveries[j][t], m[j][t])
    BY <1>3
  <2> QED
    BY <1>1, <2>1, <2>2, MapQuiet
<1>8. CASE Crash(r)
  <2> DEFINE m == [j \in Jobs |-> [t \in Token(j) |->
                     IF deliveries[j][t].by = r THEN Over(deliveries[j][t])
                     ELSE deliveries[j][t]]]
  <2>1. deliveries' = [j \in Jobs |-> [t \in Token(j) |-> m[j][t]]]
    BY <1>8 DEF Crash, ChangeThose
  <2>2. \A j \in Jobs : \A t \in Token(j) : Follows(deliveries[j][t], m[j][t])
    BY <1>3
  <2> QED
    BY <1>1, <2>1, <2>2, MapQuiet
<1> QED
  BY <1>4, <1>5, <1>6, <1>7, <1>8

(* Scripts under a token that is not the current one, and a script of the  *)
(* current delivery.                                                       *)
Executed(j, t) ==
  /\ deliveries[j][t].command # "none"
  /\ Change(j, t, [deliveries[j][t] EXCEPT !.command = "none", !.due = 0])
  /\ UNCHANGED now

Settles(j, t) ==
  /\ Executed(j, t) /\ Holds(j, t) /\ Released(j)
  /\ \/ /\ payload' = [payload EXCEPT ![j] = None]
        /\ UNCHANGED <<ready, dead>>
     \/ /\ payload' = [payload EXCEPT ![j] = deliveries[j][t].attempts + 1]
        /\ ready' = [ready EXCEPT ![j] = deliveries[j][t].due]
        /\ UNCHANGED dead
     \/ /\ dead' = dead \cup {j}
        /\ UNCHANGED <<ready, payload>>

Extends(j, t) ==
  /\ Holds(j, t)
  /\ processing' = [processing EXCEPT ![j] = now + Visibility]
  /\ Change(j, t, [deliveries[j][t] EXCEPT !.extending = FALSE, !.held = now])
  /\ UNCHANGED <<now, ready, claims, stalls, payload, dead>>

LEMMA ServerSteps ==
  ASSUME QInv, NEW j \in Jobs, NEW t \in Token(j), Server(j, t)
  PROVE  Quiet \/ Settles(j, t) \/ Extends(j, t)
<1> DEFINE d == deliveries[j][t]
<1>1. Sane(d)
  BY AllSane
<1>2. /\ Follows(d, [d EXCEPT !.command = "none", !.due = 0])
      /\ Follows(d, [d EXCEPT !.extending = FALSE])
  BY <1>1 DEF Sane, Follows, Unsettled, Deliveries, Commands
<1>3. CASE ExecAck(j, t)
  <2>1. CASE Holds(j, t)
    BY <1>3, <2>1 DEF ExecAck, Executes, Settles, Executed
  <2>2. CASE ~Holds(j, t)
    BY <1>2, <1>3, <2>2, ChangeQuiet DEF ExecAck, Executes
  <2> QED
    BY <2>1, <2>2
<1>4. CASE ExecRequeue(j, t)
  <2>1. CASE Holds(j, t)
    BY <1>4, <2>1 DEF ExecRequeue, Executes, Settles, Executed
  <2>2. CASE ~Holds(j, t)
    BY <1>2, <1>4, <2>2, ChangeQuiet DEF ExecRequeue, Executes
  <2> QED
    BY <2>1, <2>2
<1>5. CASE ExecDeadLetter(j, t)
  <2>1. CASE Holds(j, t)
    BY <1>5, <2>1 DEF ExecDeadLetter, Executes, Settles, Executed
  <2>2. CASE ~Holds(j, t)
    BY <1>2, <1>5, <2>2, ChangeQuiet DEF ExecDeadLetter, Executes
  <2> QED
    BY <2>1, <2>2
<1>6. CASE ExecExtend(j, t)
  <2>1. CASE Holds(j, t)
    BY <1>6, <2>1 DEF ExecExtend, Extends
  <2>2. CASE ~Holds(j, t)
    BY <1>2, <1>6, <2>2, ChangeQuiet DEF ExecExtend, store
  <2> QED
    BY <2>1, <2>2
<1> QED
  BY <1>3, <1>4, <1>5, <1>6 DEF Server
-----------------------------------------------------------------------------
(* Each kind of step keeps the invariant of every job. *)

LEMMA QuietKeeps ==
  ASSUME QInv, Quiet, NEW j \in Jobs
  PROVE  JobInv(j)'
<1>1. /\ processing' = processing /\ ready' = ready /\ claims' = claims
      /\ stalls' = stalls /\ payload' = payload /\ dead' = dead
  BY DEF Quiet, store
<1>2. /\ Len(deliveries[j]) \in Nat /\ Len(deliveries'[j]) = Len(deliveries[j])
      /\ Token(j)' = Token(j)
      /\ \A t \in Token(j) : Follows(deliveries[j][t], deliveries'[j][t])
                             /\ Sane(deliveries[j][t])
  BY AllSane DEF Quiet, Token
<1>3. now \in Nat /\ now' \in Nat /\ now <= now' /\ Visibility \in Nat
  BY QueueAssumption DEF QInv, TypeOK, Quiet, QueueAssumption
<1>4. \A t \in Token(j) : deliveries[j][t].held \in Nat
  BY <1>2 DEF Sane, Deliveries
<1>5. JobInv(j)
  BY DEF QInv
<1>6. Leased(j)'
  BY <1>1, <1>2, <1>5 DEF JobInv, Leased, Token, Follows
<1>7. Superseded(j)'
  BY <1>1, <1>2, <1>3, <1>4, <1>5 DEF JobInv, Superseded, Follows
<1>8. Counted(j)'
  BY <1>1, <1>2, <1>5 DEF JobInv, Counted, Follows
<1> QED
  BY <1>6, <1>7, <1>8 DEF JobInv

LEMMA TickQuiet ==
  ASSUME QInv, Tick
  PROVE  Quiet
<1>1. now \in Nat /\ now' = now + 1 /\ UNCHANGED <<store, deliveries>>
  BY DEF Tick, QInv, TypeOK
<1>2. deliveries \in [Jobs -> Seq(Deliveries)]
  BY DEF QInv, TypeOK
<1> QED
  BY <1>1, <1>2, AllSane DEF Quiet

(* The rest of the jobs when one is enqueued or its script executes. *)
Apart(j) ==
  /\ UNCHANGED now
  /\ deliveries' \in [Jobs -> Seq(Deliveries)]
  /\ \A k \in Jobs \ {j} :
       /\ deliveries'[k] = deliveries[k]
       /\ processing'[k] = processing[k] /\ ready'[k] = ready[k] /\ claims'[k] = claims[k]
       /\ stalls'[k] = stalls[k] /\ payload'[k] = payload[k]
       /\ k \in dead' <=> k \in dead

LEMMA ApartKeeps ==
  ASSUME QInv, NEW j \in Jobs, Apart(j), NEW k \in Jobs \ {j}
  PROVE  JobInv(k)'
<1>1. JobInv(k) /\ Token(k)' = Token(k)
  BY DEF QInv, Apart, Token
<1> QED
  BY <1>1 DEF Apart, JobInv, Leased, Superseded, Counted

LEMMA EnqueueKeeps ==
  ASSUME QInv, NEW j \in Jobs, NEW r \in Replicas, Enqueue(j, r)
  PROVE  /\ Apart(j) /\ JobInv(j)'
         /\ ready' \in [Jobs -> Scores] /\ payload' \in [Jobs -> Scores]
<1>1. PICK delay \in Delays : ready' = [ready EXCEPT ![j] = Clock(r) + delay]
  BY DEF Enqueue
<1>2. Clock(r) + delay \in Nat /\ None \notin Nat
  BY QueueAssumption DEF QueueAssumption, Clock, QInv, TypeOK
<1>3. /\ ready \in [Jobs -> Scores] /\ payload \in [Jobs -> Scores]
      /\ deliveries \in [Jobs -> Seq(Deliveries)]
  BY DEF QInv, TypeOK
<1>4. /\ payload[j] = None /\ deliveries[j] = <<>> /\ payload' = [payload EXCEPT ![j] = 0]
      /\ UNCHANGED <<now, processing, claims, stalls, dead, deliveries>>
  BY DEF Enqueue
<1>5. Apart(j)
  BY <1>1, <1>3, <1>4 DEF Apart
<1>6. ready'[j] = Clock(r) + delay /\ payload'[j] = 0
  BY <1>1, <1>3, <1>4
<1>7. Leased(j) /\ Token(j)' = {}
  BY <1>4 DEF QInv, JobInv, Token
<1>8. processing[j] = None /\ j \notin dead
  BY <1>4, <1>7 DEF Leased
<1>9. JobInv(j)'
  BY <1>2, <1>4, <1>6, <1>7, <1>8 DEF JobInv, Leased, Superseded, Counted
<1>10. ready' \in [Jobs -> Scores] /\ payload' \in [Jobs -> Scores]
  BY <1>1, <1>2, <1>3, <1>4 DEF Scores
<1> QED
  BY <1>5, <1>9, <1>10

LEMMA SettlesKeeps ==
  ASSUME QInv, NEW j \in Jobs, NEW t \in Token(j), Settles(j, t)
  PROVE  /\ Apart(j) /\ JobInv(j)'
         /\ ready' \in [Jobs -> Scores] /\ payload' \in [Jobs -> Scores]
         /\ processing' \in [Jobs -> Scores] /\ dead' \subseteq Jobs
         /\ claims' \in [Jobs -> Nat] /\ stalls' \in [Jobs -> Nat]
<1> DEFINE d == deliveries[j][t]
           e == [d EXCEPT !.command = "none", !.due = 0]
<1>1. /\ ready \in [Jobs -> Scores] /\ payload \in [Jobs -> Scores]
      /\ processing \in [Jobs -> Scores] /\ claims \in [Jobs -> Nat]
      /\ stalls \in [Jobs -> Nat] /\ dead \subseteq Jobs
      /\ deliveries \in [Jobs -> Seq(Deliveries)] /\ None \notin Nat
  BY QueueAssumption DEF QInv, TypeOK, QueueAssumption
<1>2. Sane(d) /\ d.command # "none" /\ d.stage \notin Unsettled /\ claims[j] = t
  BY AllSane DEF Settles, Executed, Holds, Sane
<1>3. e \in Deliveries /\ Follows(d, e)
  BY <1>2 DEF Sane, Follows, Deliveries, Commands
<1>4. /\ deliveries' \in [Jobs -> Seq(Deliveries)]
      /\ \A k \in Jobs : Len(deliveries'[k]) = Len(deliveries[k])
      /\ \A k \in Jobs : \A s \in Token(k) :
           deliveries'[k][s] = IF k = j /\ s = t THEN e ELSE deliveries[k][s]
  BY <1>1, <1>3, ChangeFacts DEF Settles, Executed
<1>5. \A k \in Jobs \ {j} : deliveries'[k] = deliveries[k]
  BY <1>1 DEF Settles, Executed, Change
<1>6. /\ processing' = [processing EXCEPT ![j] = None] /\ claims' = [claims EXCEPT ![j] = 0]
      /\ stalls' = [stalls EXCEPT ![j] = 0] /\ now' = now
  BY DEF Settles, Released, Executed
<1>7. d.attempts \in Nat /\ d.due \in Nat /\ d.attempts + 1 \in Nat
  BY <1>2 DEF Sane, Deliveries
<1>8. /\ ready' \in [Jobs -> Scores] /\ payload' \in [Jobs -> Scores]
      /\ processing' \in [Jobs -> Scores] /\ dead' \subseteq Jobs
      /\ claims' \in [Jobs -> Nat] /\ stalls' \in [Jobs -> Nat]
      /\ \A k \in Jobs \ {j} : /\ ready'[k] = ready[k] /\ payload'[k] = payload[k]
                               /\ k \in dead' <=> k \in dead
  BY <1>1, <1>6, <1>7 DEF Settles, Scores
<1>9. Apart(j)
  BY <1>1, <1>4, <1>5, <1>6, <1>8 DEF Apart
<1>10. processing'[j] = None /\ claims'[j] = 0 /\ stalls'[j] = 0
  BY <1>1, <1>6
<1>11. /\ JobInv(j) /\ processing[j] # None /\ t = Len(deliveries[j])
       /\ payload[j] # None /\ ready[j] = None /\ j \notin dead
  <2>1. JobInv(j) /\ t # 0
    BY DEF QInv, Token
  <2> QED
    BY <1>2, <2>1 DEF JobInv, Leased
<1>12. Token(j)' = Token(j) /\ Len(deliveries[j]) \in Nat /\ t \in Nat
       /\ \A s \in Token(j) : /\ Follows(deliveries[j][s], deliveries'[j][s])
                              /\ deliveries[j][s].attempts \in Nat
  <2>1. Len(deliveries[j]) \in Nat /\ t \in 1..Len(deliveries[j])
        /\ Len(deliveries'[j]) = Len(deliveries[j])
    BY <1>4, AllSane DEF Token
  <2>2. ASSUME NEW s \in Token(j)
        PROVE  /\ Follows(deliveries[j][s], deliveries'[j][s])
               /\ deliveries[j][s].attempts \in Nat
    <3>1. Sane(deliveries[j][s]) /\ Follows(deliveries[j][s], deliveries[j][s])
      BY AllSane
    <3>2. deliveries'[j][s] = IF s = t THEN e ELSE deliveries[j][s]
      BY <1>4
    <3>3. Follows(deliveries[j][s], deliveries'[j][s])
      <4>1. CASE s = t
        BY <1>3, <3>2, <4>1
      <4>2. CASE s # t
        BY <3>1, <3>2, <4>2
      <4> QED
        BY <4>1, <4>2
    <3> QED
      BY <3>1, <3>3 DEF Sane, Deliveries
  <2> QED
    BY <2>1, <2>2 DEF Token
<1>13. \/ payload'[j] = None /\ ready'[j] = None /\ j \notin dead'
       \/ payload'[j] = d.attempts + 1 /\ ready'[j] \in Nat /\ j \notin dead'
       \/ payload'[j] # None /\ ready'[j] = None /\ j \in dead'
  BY <1>1, <1>7, <1>11 DEF Settles
<1>14. Leased(j)'
  BY <1>1, <1>7, <1>10, <1>13 DEF Leased
<1>15. Superseded(j)'
  <2>1. ASSUME NEW s \in Token(j), deliveries'[j][s].stage \in Unsettled
        PROVE  s # t /\ deliveries[j][s].stage \in Unsettled
    BY <1>2, <1>12, <2>1 DEF Follows
  <2>2. ASSUME NEW s \in Token(j), deliveries'[j][s].stage \in Unsettled
        PROVE  now' >= deliveries'[j][s].held + Visibility
    BY <1>2, <1>6, <1>11, <1>12, <2>1, <2>2 DEF JobInv, Superseded, Follows
  <2> QED
    BY <1>12, <2>2 DEF Superseded, Follows
<1>16. Counted(j)'
  <2>1. \A s, u \in Token(j) : s < u => deliveries'[j][s].attempts < deliveries'[j][u].attempts
    BY <1>11, <1>12 DEF JobInv, Counted, Follows
  <2>2. \A s \in Token(j) : deliveries'[j][s].attempts <= d.attempts
    <3>1. \A s \in Token(j) : s < t => deliveries[j][s].attempts < d.attempts
      BY <1>11 DEF JobInv, Counted
    <3>2. \A s \in Token(j) : s < t \/ s = t
      BY <1>11, <1>12 DEF Token
    <3> QED
      BY <1>7, <1>12, <3>1, <3>2 DEF Follows
  <2>3. payload'[j] # None /\ j \notin dead' => payload'[j] = d.attempts + 1
    BY <1>13
  <2>4. Attempts(d.attempts + 1, 0) = d.attempts + 1
    BY <1>7 DEF Attempts
  <2>5. payload'[j] # None /\ j \notin dead' =>
          \A s \in Token(j) : deliveries'[j][s].attempts < Attempts(payload'[j], stalls'[j]) + 0
    BY <1>7, <1>10, <1>12, <2>2, <2>3, <2>4 DEF Follows
  <2> QED
    BY <1>10, <1>12, <2>1, <2>5 DEF Counted
<1> QED
  BY <1>8, <1>9, <1>14, <1>15, <1>16 DEF JobInv

LEMMA ExtendsKeeps ==
  ASSUME QInv, NEW j \in Jobs, NEW t \in Token(j), Extends(j, t)
  PROVE  Apart(j) /\ JobInv(j)' /\ processing' \in [Jobs -> Scores]
<1> DEFINE d == deliveries[j][t]
           e == [d EXCEPT !.extending = FALSE, !.held = now]
<1>1. /\ processing \in [Jobs -> Scores] /\ now \in Nat /\ now + Visibility \in Nat
      /\ deliveries \in [Jobs -> Seq(Deliveries)] /\ None \notin Nat
  BY QueueAssumption DEF QInv, TypeOK, QueueAssumption
<1>2. Sane(d) /\ claims[j] = t
  BY AllSane DEF Extends, Holds
<1>3. /\ e \in Deliveries /\ e.attempts = d.attempts /\ e.held = now
      /\ e.stage = d.stage /\ e.command = d.command
  BY <1>1, <1>2 DEF Sane, Deliveries
<1>4. /\ deliveries' \in [Jobs -> Seq(Deliveries)]
      /\ \A k \in Jobs : Len(deliveries'[k]) = Len(deliveries[k])
      /\ \A s \in Token(j) : deliveries'[j][s] = IF s = t THEN e ELSE deliveries[j][s]
  BY <1>1, <1>3, ChangeFacts DEF Extends
<1>5. \A k \in Jobs \ {j} : deliveries'[k] = deliveries[k]
  BY <1>1 DEF Extends, Change
<1>6. /\ processing' = [processing EXCEPT ![j] = now + Visibility]
      /\ UNCHANGED <<now, ready, claims, stalls, payload, dead>>
  BY DEF Extends
<1>7. Apart(j) /\ processing' \in [Jobs -> Scores]
  BY <1>1, <1>4, <1>5, <1>6 DEF Apart, Scores
<1>8. processing'[j] = now + Visibility /\ processing'[j] # None
  BY <1>1, <1>6
<1>9. JobInv(j) /\ processing[j] # None /\ t = Len(deliveries[j]) /\ t > 0
  <2>1. JobInv(j) /\ t > 0 /\ t \in Nat
    BY AllSane DEF QInv, Token
  <2> QED
    BY <1>2, <2>1 DEF JobInv, Leased
<1>10. Token(j)' = Token(j) /\ t \in Token(j)
  BY <1>4 DEF Token
<1> HIDE DEF e
<1>11. Leased(j)'
  BY <1>3, <1>4, <1>6, <1>8, <1>9, <1>10 DEF JobInv, Leased
<1>12. Superseded(j)'
  BY <1>2, <1>3, <1>4, <1>6, <1>9, <1>10 DEF JobInv, Superseded
<1>13. Counted(j)'
  <2>1. \A s \in Token(j) : deliveries'[j][s].attempts = deliveries[j][s].attempts
    BY <1>3, <1>4
  <2> QED
    BY <1>6, <1>8, <1>9, <1>10, <2>1 DEF JobInv, Counted
<1> QED
  BY <1>7, <1>11, <1>12, <1>13 DEF JobInv
-----------------------------------------------------------------------------
(* What RESERVE_SCRIPT does to a job: under the invariant its payload is   *)
(* there, so the two loops reclaim and grant, and remove no orphan.        *)

Reclaimed(j) == processing[j] # None /\ processing[j] <= now

LEMMA ReserveStep ==
  ASSUME QInv, NEW c \in Reserves({"sent", "answered"}), NEW stage \in {"granted", "over"},
         Reserve(c, stage), NEW j \in Jobs
  PROVE  \E lapsed, taken \in SUBSET Jobs :
           /\ j \in lapsed => Reclaimed(j)
           /\ j \in taken => j \in lapsed \/ ready[j] # None
           /\ ready'[j] = IF j \in taken THEN None ELSE IF j \in lapsed THEN c.at ELSE ready[j]
           /\ processing'[j] = IF j \in taken THEN now + Visibility
                               ELSE IF j \in lapsed THEN None ELSE processing[j]
           /\ claims'[j] = IF j \in taken THEN Len(deliveries[j]) + 1
                           ELSE IF j \in lapsed THEN 0 ELSE claims[j]
           /\ stalls'[j] = IF j \in lapsed THEN stalls[j] + 1 ELSE stalls[j]
           /\ deliveries'[j] =
                IF j \in taken
                THEN Append(deliveries[j],
                            Delivery(c.by, Attempts(payload[j], stalls'[j]), stage))
                ELSE deliveries[j]
           /\ payload'[j] = payload[j] /\ (j \in dead' <=> j \in dead)
<1>1. PICK lapsed \in Lowest(Lapsed(c), processing, c.limit) :
        LET back == {k \in lapsed : payload[k] # None}
            due == [k \in Jobs |-> IF k \in back THEN c.at
                                   ELSE IF k \in lapsed THEN None ELSE ready[k]]
            stalled == [k \in Jobs |-> IF k \in back THEN stalls[k] + 1 ELSE stalls[k]]
        IN \E taken \in Lowest(UpTo(due, c.at), due, c.limit) :
             LET given == {k \in taken : payload[k] # None}
                 gone == (lapsed \cup taken) \ given
             IN /\ ready' = [k \in Jobs |-> IF k \in taken THEN None ELSE due[k]]
                /\ processing' = [k \in Jobs |-> IF k \in given THEN now + Visibility
                                                 ELSE IF k \in gone THEN None
                                                 ELSE processing[k]]
                /\ claims' = [k \in Jobs |-> IF k \in given THEN Len(deliveries[k]) + 1
                                             ELSE IF k \in gone THEN 0 ELSE claims[k]]
                /\ stalls' = [k \in Jobs |-> IF payload[k] = None /\ k \in gone THEN 0
                                             ELSE stalled[k]]
                /\ deliveries' = [k \in Jobs |->
                     IF k \in given
                     THEN Append(deliveries[k],
                                 Delivery(c.by, Attempts(payload[k], stalled[k]), stage))
                     ELSE deliveries[k]]
                /\ UNCHANGED <<payload, dead>>
  BY DEF Reserve
<1> DEFINE back == {k \in lapsed : payload[k] # None}
           due == [k \in Jobs |-> IF k \in back THEN c.at
                                  ELSE IF k \in lapsed THEN None ELSE ready[k]]
           stalled == [k \in Jobs |-> IF k \in back THEN stalls[k] + 1 ELSE stalls[k]]
<1>2. PICK taken \in Lowest(UpTo(due, c.at), due, c.limit) :
        LET given == {k \in taken : payload[k] # None}
            gone == (lapsed \cup taken) \ given
        IN /\ ready' = [k \in Jobs |-> IF k \in taken THEN None ELSE due[k]]
           /\ processing' = [k \in Jobs |-> IF k \in given THEN now + Visibility
                                            ELSE IF k \in gone THEN None
                                            ELSE processing[k]]
           /\ claims' = [k \in Jobs |-> IF k \in given THEN Len(deliveries[k]) + 1
                                        ELSE IF k \in gone THEN 0 ELSE claims[k]]
           /\ stalls' = [k \in Jobs |-> IF payload[k] = None /\ k \in gone THEN 0
                                        ELSE stalled[k]]
           /\ deliveries' = [k \in Jobs |->
                IF k \in given
                THEN Append(deliveries[k],
                            Delivery(c.by, Attempts(payload[k], stalled[k]), stage))
                ELSE deliveries[k]]
           /\ UNCHANGED <<payload, dead>>
  BY <1>1
<1>3. lapsed \subseteq Jobs /\ \A k \in lapsed : Reclaimed(k)
  BY DEF Lowest, Lapsed, UpTo, Reclaimed
<1>4. taken \subseteq Jobs /\ \A k \in taken : due[k] # None
  BY DEF Lowest, UpTo
<1>5. Leased(j)
  BY DEF QInv, JobInv
<1>6. j \in lapsed => payload[j] # None
  BY <1>3, <1>5 DEF Leased, Reclaimed
<1>7. j \in lapsed <=> j \in back
  BY <1>6
<1>8. j \in taken => j \in lapsed \/ ready[j] # None
  BY <1>4, <1>7
<1>9. j \in taken => payload[j] # None
  BY <1>5, <1>6, <1>8 DEF Leased
<1>10. stalled[j] = IF j \in lapsed THEN stalls[j] + 1 ELSE stalls[j]
  BY <1>7
<1>11. due[j] = IF j \in lapsed THEN c.at ELSE ready[j]
  BY <1>7
<1> HIDE DEF back, due, stalled
<1>12. /\ ready'[j] = IF j \in taken THEN None ELSE IF j \in lapsed THEN c.at ELSE ready[j]
       /\ processing'[j] = IF j \in taken THEN now + Visibility
                           ELSE IF j \in lapsed THEN None ELSE processing[j]
       /\ claims'[j] = IF j \in taken THEN Len(deliveries[j]) + 1
                       ELSE IF j \in lapsed THEN 0 ELSE claims[j]
  BY <1>2, <1>9, <1>11
<1>13. stalls'[j] = stalled[j]
  BY <1>2, <1>6, <1>9
<1>14. deliveries'[j] = IF j \in taken
                        THEN Append(deliveries[j],
                                    Delivery(c.by, Attempts(payload[j], stalled[j]), stage))
                        ELSE deliveries[j]
  BY <1>2, <1>9
<1>15. payload'[j] = payload[j] /\ (j \in dead' <=> j \in dead)
  BY <1>2
<1>16. j \in lapsed => Reclaimed(j)
  BY <1>3
<1>17. lapsed \in SUBSET Jobs /\ taken \in SUBSET Jobs
  BY <1>3, <1>4
<1> QED
  BY <1>8, <1>10, <1>12, <1>13, <1>14, <1>15, <1>16, <1>17

LEMMA ReserveKeeps ==
  ASSUME QInv, NEW c \in Reserves({"sent", "answered"}), NEW stage \in {"granted", "over"},
         Reserve(c, stage), UNCHANGED now, NEW j \in Jobs
  PROVE  /\ JobInv(j)'
         /\ deliveries'[j] \in Seq(Deliveries)
         /\ ready'[j] \in Scores /\ processing'[j] \in Scores
         /\ claims'[j] \in Nat /\ stalls'[j] \in Nat
<1>1. PICK lapsed, taken \in SUBSET Jobs :
        /\ j \in lapsed => Reclaimed(j)
        /\ j \in taken => j \in lapsed \/ ready[j] # None
        /\ ready'[j] = IF j \in taken THEN None ELSE IF j \in lapsed THEN c.at ELSE ready[j]
        /\ processing'[j] = IF j \in taken THEN now + Visibility
                            ELSE IF j \in lapsed THEN None ELSE processing[j]
        /\ claims'[j] = IF j \in taken THEN Len(deliveries[j]) + 1
                        ELSE IF j \in lapsed THEN 0 ELSE claims[j]
        /\ stalls'[j] = IF j \in lapsed THEN stalls[j] + 1 ELSE stalls[j]
        /\ deliveries'[j] =
             IF j \in taken
             THEN Append(deliveries[j],
                         Delivery(c.by, Attempts(payload[j], stalls'[j]), stage))
             ELSE deliveries[j]
        /\ payload'[j] = payload[j] /\ (j \in dead' <=> j \in dead)
  BY ReserveStep
<1>2. /\ now \in Nat /\ now' = now /\ Visibility \in Nat /\ now + Visibility \in Nat
      /\ None \notin Nat /\ c.at \in Nat /\ c.by \in Replicas
  BY QueueAssumption DEF QInv, TypeOK, QueueAssumption, Reserves
<1>3. /\ ready[j] \in Scores /\ processing[j] \in Scores /\ payload[j] \in Scores
      /\ claims[j] \in Nat /\ stalls[j] \in Nat
  BY DEF QInv, TypeOK
<1>4. /\ deliveries[j] \in Seq(Deliveries) /\ Len(deliveries[j]) \in Nat
      /\ \A t \in Token(j) : Sane(deliveries[j][t])
  BY AllSane
<1>5. \A t \in Token(j) : deliveries[j][t].attempts \in Nat /\ deliveries[j][t].held \in Nat
  BY <1>4 DEF Sane, Deliveries
<1>6. JobInv(j)
  BY DEF QInv
<1>7. /\ ready'[j] \in Scores /\ processing'[j] \in Scores
      /\ claims'[j] \in Nat /\ stalls'[j] \in Nat
  BY <1>1, <1>2, <1>3, <1>4 DEF Scores
<1>8. CASE j \notin taken /\ j \notin lapsed
  <2>1. /\ ready'[j] = ready[j] /\ processing'[j] = processing[j] /\ claims'[j] = claims[j]
        /\ stalls'[j] = stalls[j] /\ deliveries'[j] = deliveries[j] /\ Token(j)' = Token(j)
    BY <1>1, <1>8 DEF Token
  <2> QED
    BY <1>1, <1>2, <1>4, <1>6, <1>7, <2>1 DEF JobInv, Leased, Superseded, Counted
(* After the reclaim: the lease is over, and one more stall is counted. *)
<1>9. ASSUME j \in lapsed
      PROVE  /\ payload[j] \in Nat /\ payload[j] # None /\ j \notin dead
             /\ \A t \in Token(j) : now >= deliveries[j][t].held + Visibility
                                    \/ deliveries[j][t].stage \notin Unsettled
             /\ \A t \in Token(j) :
                  deliveries[j][t].attempts < Attempts(payload[j], stalls[j] + 1)
  <2>1. /\ processing[j] # None /\ processing[j] <= now
        /\ payload[j] # None /\ j \notin dead
        /\ claims[j] = Len(deliveries[j]) /\ Len(deliveries[j]) > 0
        /\ processing[j] = deliveries[j][Len(deliveries[j])].held + Visibility
    BY <1>1, <1>6, <1>9 DEF Reclaimed, JobInv, Leased
  <2>2. payload[j] \in Nat
    BY <1>3, <2>1 DEF Scores
  <2>3. ASSUME NEW t \in Token(j)
        PROVE  now >= deliveries[j][t].held + Visibility
               \/ deliveries[j][t].stage \notin Unsettled
    <3>1. CASE t = claims[j]
      BY <2>1, <3>1
    <3>2. CASE t # claims[j]
      BY <1>6, <3>2 DEF JobInv, Superseded
    <3> QED
      BY <3>1, <3>2
  <2>4. Attempts(payload[j], stalls[j]) + 1 = Attempts(payload[j], stalls[j] + 1)
    BY <1>3, <2>2 DEF Attempts
  <2>5. \A t \in Token(j) :
          deliveries[j][t].attempts < Attempts(payload[j], stalls[j]) + 1
    BY <1>6, <2>1 DEF JobInv, Counted
  <2> QED
    BY <2>1, <2>2, <2>3, <2>4, <2>5
(* Before the grant: more attempts than any delivery counted. *)
<1>10. ASSUME j \in taken
       PROVE  /\ payload[j] \in Nat /\ payload[j] # None /\ j \notin dead
              /\ \A t \in Token(j) : now >= deliveries[j][t].held + Visibility
                                     \/ deliveries[j][t].stage \notin Unsettled
              /\ \A t \in Token(j) :
                   deliveries[j][t].attempts < Attempts(payload[j], stalls'[j])
  <2>1. CASE j \in lapsed
    BY <1>1, <1>9, <2>1
  <2>2. CASE j \notin lapsed
    <3>1. /\ ready[j] # None /\ payload[j] # None /\ j \notin dead /\ stalls'[j] = stalls[j]
      BY <1>1, <1>6, <1>10, <2>2 DEF JobInv, Leased
    <3>2. processing[j] = None /\ claims[j] = 0 /\ payload[j] \in Nat
      BY <1>3, <1>6, <3>1 DEF JobInv, Leased, Scores
    <3>3. \A t \in Token(j) : deliveries[j][t].stage \in Unsettled =>
                                now >= deliveries[j][t].held + Visibility
      BY <1>6, <3>2 DEF JobInv, Superseded, Token
    <3>4. Attempts(payload[j], stalls[j]) + 0 = Attempts(payload[j], stalls[j])
      BY <1>3, <3>2 DEF Attempts
    <3>5. \A t \in Token(j) :
            deliveries[j][t].attempts < Attempts(payload[j], stalls[j]) + 0
      BY <1>6, <3>1, <3>2 DEF JobInv, Counted
    <3> QED
      BY <3>1, <3>2, <3>3, <3>4, <3>5
  <2> QED
    BY <2>1, <2>2
<1>11. CASE j \in lapsed /\ j \notin taken
  <2>1. /\ ready'[j] = c.at /\ processing'[j] = None /\ claims'[j] = 0
        /\ stalls'[j] = stalls[j] + 1 /\ deliveries'[j] = deliveries[j]
        /\ Token(j)' = Token(j)
    BY <1>1, <1>11 DEF Token
  <2>2. Leased(j)'
    BY <1>1, <1>2, <1>9, <1>11, <2>1 DEF Leased
  <2>3. Superseded(j)'
    BY <1>2, <1>6, <1>9, <1>11, <2>1 DEF JobInv, Superseded
  <2>4. \A t \in Token(j) : deliveries[j][t].attempts < Attempts(payload[j], stalls[j] + 1) + 0
    BY <1>3, <1>5, <1>9, <1>11 DEF Attempts
  <2>5. Counted(j)'
    BY <1>1, <1>6, <2>1, <2>4 DEF JobInv, Counted
  <2> QED
    BY <1>4, <1>7, <2>1, <2>2, <2>3, <2>5 DEF JobInv
<1>12. CASE j \in taken
  <2> DEFINE a == Attempts(payload[j], stalls'[j])
             n == Len(deliveries[j]) + 1
             d == Delivery(c.by, a, stage)
  <2>1. a \in Nat
    BY <1>7, <1>10, <1>12 DEF Attempts
  <2>2. d \in Deliveries /\ d.attempts = a /\ d.held = now /\ d.command = "none"
    BY <1>2, <2>1 DEF Delivery, Deliveries, Stages, Commands
  <2>3. deliveries'[j] = Append(deliveries[j], d)
    BY <1>1, <1>12
  <2> HIDE DEF a, d
  <2>4. /\ deliveries'[j] \in Seq(Deliveries) /\ Len(deliveries'[j]) = n
        /\ \A t \in 1..Len(deliveries[j]) : deliveries'[j][t] = deliveries[j][t]
        /\ deliveries'[j][n] = d
    BY <1>4, <2>2, <2>3, AppendProperties
  <2>5. /\ Token(j) = 1..Len(deliveries[j]) /\ Token(j)' = 1..n
        /\ \A t \in Token(j)' : t = n \/ t \in Token(j)
    BY <1>4, <2>4 DEF Token
  <2>6. processing'[j] = now + Visibility /\ claims'[j] = n /\ ready'[j] = None
    BY <1>1, <1>12
  <2>7. processing'[j] # None /\ n \in Nat /\ n > 0
    BY <1>2, <1>4, <2>6
  <2>8. Leased(j)'
    BY <1>1, <1>10, <1>12, <2>2, <2>4, <2>6, <2>7 DEF Leased
  <2>9. Superseded(j)'
    <3>1. ASSUME NEW t \in Token(j)'
          PROVE  /\ deliveries'[j][t].command # "none" => deliveries'[j][t].stage \notin Unsettled
                 /\ deliveries'[j][t].stage \in Unsettled /\ t # n =>
                      now >= deliveries'[j][t].held + Visibility
      <4>1. CASE t = n
        BY <2>2, <2>4, <4>1
      <4>2. CASE t # n
        <5>1. t \in Token(j) /\ deliveries'[j][t] = deliveries[j][t]
          BY <2>4, <2>5, <4>2
        <5> QED
          BY <1>6, <1>10, <1>12, <5>1 DEF JobInv, Superseded
      <4> QED
        BY <4>1, <4>2
    <3> QED
      BY <1>2, <2>6, <3>1 DEF Superseded
  <2>10. Counted(j)'
    <3>1. ASSUME NEW s \in Token(j)', NEW t \in Token(j)', s < t
          PROVE  deliveries'[j][s].attempts < deliveries'[j][t].attempts
      <4>1. s \in Token(j) /\ deliveries'[j][s] = deliveries[j][s]
        BY <1>4, <2>4, <2>5, <3>1
      <4>2. CASE t = n
        BY <1>10, <1>12, <2>2, <2>4, <4>1, <4>2 DEF a
      <4>3. CASE t # n
        <5>1. t \in Token(j) /\ deliveries'[j][t] = deliveries[j][t]
          BY <2>4, <2>5, <4>3
        <5> QED
          BY <1>6, <3>1, <4>1, <5>1 DEF JobInv, Counted
      <4> QED
        BY <4>2, <4>3
    <3>2. ASSUME NEW t \in Token(j)'
          PROVE  deliveries'[j][t].attempts < a + 1
      <4>1. CASE t = n
        BY <2>1, <2>2, <2>4, <4>1
      <4>2. CASE t # n
        <5>1. t \in Token(j) /\ deliveries'[j][t] = deliveries[j][t]
          BY <2>4, <2>5, <4>2
        <5>2. deliveries[j][t].attempts < a /\ deliveries[j][t].attempts \in Nat
          BY <1>5, <1>10, <1>12, <5>1 DEF a
        <5> QED
          BY <2>1, <5>1, <5>2
      <4> QED
        BY <4>1, <4>2
    <3>3. payload'[j] = payload[j]
      BY <1>1
    <3> QED
      BY <2>7, <3>1, <3>2, <3>3 DEF Counted, a
  <2> QED
    BY <1>7, <2>4, <2>8, <2>9, <2>10 DEF JobInv
<1> QED
  BY <1>8, <1>11, <1>12
-----------------------------------------------------------------------------
(* Every step is quiet, is about one job, or reserves. *)

Reserving == \E c \in Reserves({"sent", "answered"}), stage \in {"granted", "over"} :
               Reserve(c, stage) /\ UNCHANGED now

LEMMA StepKinds ==
  ASSUME QInv, [Next]_vars
  PROVE  \/ Quiet
         \/ Reserving
         \/ \E j \in Jobs, r \in Replicas : Enqueue(j, r)
         \/ \E j \in Jobs : \E t \in Token(j) : Settles(j, t) \/ Extends(j, t)
<1>1. CASE UNCHANGED vars
  <2>1. deliveries \in [Jobs -> Seq(Deliveries)] /\ now \in Nat
    BY DEF QInv, TypeOK
  <2>2. UNCHANGED store /\ deliveries' = deliveries /\ now' = now
    BY <1>1 DEF vars, store
  <2> QED
    BY <2>1, <2>2, AllSane DEF Quiet
<1>2. CASE Tick
  BY <1>2, TickQuiet
<1>3. ASSUME NEW r \in Replicas, Replica(r)
      PROVE  Quiet \/ Reserving \/ \E j \in Jobs : Enqueue(j, r)
  <2>1. CASE ExecReserve(r)
    <3>1. polls[r] \in Reserves({"sent", "answered"})
      BY <2>1 DEF ExecReserve, QInv, TypeOK
    <3> QED
      BY <2>1, <3>1 DEF ExecReserve, Reserving
  <2> QED
    BY <1>3, <2>1, ReplicaQuiet DEF Replica
<1>4. ASSUME NEW c \in late, ExecLate(c)
      PROVE  Reserving
  <2>1. c \in Reserves({"sent", "answered"})
    BY DEF QInv, TypeOK, Reserves
  <2> QED
    BY <1>4, <2>1 DEF ExecLate, Reserving
<1>5. ASSUME NEW j \in Jobs, NEW t \in Token(j), Runner(j, t) \/ Server(j, t)
      PROVE  Quiet \/ Settles(j, t) \/ Extends(j, t)
  BY <1>5, RunnerQuiet, ServerSteps
<1> QED
  BY <1>1, <1>2, <1>3, <1>4, <1>5 DEF Next

(* inFlight is a number: only finitely many deliveries were ever made. *)
LEMMA RoomIsNat ==
  ASSUME QInv, NEW r \in Replicas, Room(r) > 0
  PROVE  Room(r) \in Nat
<1> DEFINE tokens == [j \in Jobs |-> {j} \X Token(j)]
           all == {{j} \X Token(j) : j \in Jobs}
           mine == {d \in UNION all : /\ deliveries[d[1]][d[2]].by = r
                                      /\ deliveries[d[1]][d[2]].stage \in Active}
<1>1. tokens \in Surjection(Jobs, all)
  BY DEF Surjection
<1>2. IsFiniteSet(all)
  BY <1>1, FS_Surjection, QueueAssumption DEF QueueAssumption
<1>3. ASSUME NEW j \in Jobs PROVE IsFiniteSet({j} \X Token(j))
  <2>1. IsFiniteSet(1..Len(deliveries[j]))
    BY AllSane, FS_Interval
  <2> QED
    BY <2>1, FS_Singleton, FS_Product DEF Token
<1>4. IsFiniteSet(UNION all)
  BY <1>2, <1>3, FS_UNION
<1>5. IsFiniteSet(mine)
  BY <1>4, FS_Subset
<1>6. Cardinality(mine) \in Nat
  BY <1>5, FS_CardinalityType
<1>7. InFlight(r) \in Nat
  BY <1>6 DEF InFlight
<1> QED
  BY <1>7, QueueAssumption DEF Room, QueueAssumption

(* The variables outside the store keep their types. *)
LEMMA ReplicasTyped ==
  ASSUME QInv, [Next]_vars
  PROVE  /\ now' \in 0..MaxTime
         /\ polls' \in [Replicas -> Reserves({"sent", "answered"}) \cup {Idle}]
         /\ late' \subseteq Reserves({"sent"})
         /\ connected' \in [Replicas -> BOOLEAN] /\ faults' \in 0..MaxFaults
<1> DEFINE Typed == /\ now' \in 0..MaxTime
                    /\ polls' \in [Replicas -> Reserves({"sent", "answered"}) \cup {Idle}]
                    /\ late' \subseteq Reserves({"sent"})
                    /\ connected' \in [Replicas -> BOOLEAN] /\ faults' \in 0..MaxFaults
<1>1. /\ now \in 0..MaxTime /\ MaxTime \in Nat /\ MaxFaults \in Nat
      /\ polls \in [Replicas -> Reserves({"sent", "answered"}) \cup {Idle}]
      /\ late \subseteq Reserves({"sent"})
      /\ connected \in [Replicas -> BOOLEAN] /\ faults \in 0..MaxFaults
  BY QueueAssumption DEF QInv, TypeOK, QueueAssumption
<1>2. CASE UNCHANGED vars
  BY <1>1, <1>2 DEF vars
<1>3. CASE Tick
  BY <1>1, <1>3 DEF Tick
<1>4. Fault => faults' \in 0..MaxFaults
  BY <1>1 DEF Fault
<1>5. \A r \in Replicas : GiveUp(r) => late' \subseteq Reserves({"sent"})
  <2> SUFFICES ASSUME NEW r \in Replicas, GiveUp(r)
               PROVE  late' \subseteq Reserves({"sent"})
    OBVIOUS
  <2>1. CASE polls[r] # Idle /\ polls[r].st = "sent"
    <3>1. polls[r] \in Reserves({"sent"})
      BY <1>1, <2>1 DEF Reserves
    <3> QED
      BY <1>1, <2>1, <3>1 DEF GiveUp
  <2>2. CASE ~(polls[r] # Idle /\ polls[r].st = "sent")
    BY <1>1, <2>2 DEF GiveUp
  <2> QED
    BY <2>1, <2>2
<1>6. ASSUME NEW r \in Replicas, Replica(r)
      PROVE  Typed
  <2>1. CASE Poll(r)
    <3>1. Room(r) \in Nat
      BY <2>1, RoomIsNat DEF Poll
    <3>2. Clock(r) \in Nat
      BY <1>1, QueueAssumption DEF Clock, QueueAssumption
    <3>3. [st |-> "sent", by |-> r, at |-> Clock(r), limit |-> Room(r)]
            \in Reserves({"sent", "answered"})
      BY <3>1, <3>2 DEF Reserves
    <3> QED
      BY <1>1, <2>1, <3>3 DEF Poll
  <2>2. CASE PollFails(r) \/ Dispatch(r) \/ Disconnect(r) \/ Crash(r) \/ Connect(r)
    BY <1>1, <1>4, <1>5, <2>2 DEF PollFails, Dispatch, Disconnect, Crash, Connect
  <2>3. CASE ExecReserve(r)
    <3>1. polls[r] \in Reserves({"sent", "answered"})
      BY <1>1, <2>3 DEF ExecReserve
    <3>2. [polls[r] EXCEPT !.st = "answered"] \in Reserves({"sent", "answered"})
      BY <3>1 DEF Reserves
    <3>3. /\ polls' = [polls EXCEPT ![r] = [polls[r] EXCEPT !.st = "answered"]]
          /\ UNCHANGED <<now, late, connected, faults>>
      BY <2>3 DEF ExecReserve
    <3> QED
      BY <1>1, <3>2, <3>3
  <2>4. ASSUME NEW j \in Jobs, Enqueue(j, r)
        PROVE  Typed
    BY <1>1, <2>4 DEF Enqueue
  <2> QED
    BY <1>6, <2>1, <2>2, <2>3, <2>4 DEF Replica
<1>7. ASSUME NEW c \in late, ExecLate(c)
      PROVE  Typed
  BY <1>1, <1>7 DEF ExecLate
<1>8. ASSUME NEW j \in Jobs, NEW t \in Token(j), Runner(j, t) \/ Server(j, t)
      PROVE  Typed
  <2>1. UNCHANGED <<now, polls, late, connected, faults>>
    BY <1>8 DEF Runner, Server, ProcessorSucceeds, ProcessorFails, FailureNotified,
                PayloadRead, CallEnds, Renew, ExecAck, ExecRequeue, ExecDeadLetter,
                ExecExtend, Executes
  <2> QED
    BY <1>1, <2>1
<1> QED
  BY <1>2, <1>3, <1>6, <1>7, <1>8 DEF Next
-----------------------------------------------------------------------------
(* The inductive invariant, and what the runs check. *)

LEMMA NextKeeps ==
  ASSUME QInv, [Next]_vars
  PROVE  QInv'
<1> DEFINE StoreTyped ==
             /\ ready' \in [Jobs -> Scores] /\ processing' \in [Jobs -> Scores]
             /\ claims' \in [Jobs -> Nat] /\ stalls' \in [Jobs -> Nat]
             /\ payload' \in [Jobs -> Scores] /\ dead' \subseteq Jobs
             /\ deliveries' \in [Jobs -> Seq(Deliveries)]
           Kept == StoreTyped /\ \A j \in Jobs : JobInv(j)'
<1>1. /\ ready \in [Jobs -> Scores] /\ processing \in [Jobs -> Scores]
      /\ claims \in [Jobs -> Nat] /\ stalls \in [Jobs -> Nat]
      /\ payload \in [Jobs -> Scores] /\ dead \subseteq Jobs
  BY DEF QInv, TypeOK
<1>2. ASSUME Quiet PROVE Kept
  <2>1. StoreTyped
    BY <1>1, <1>2 DEF Quiet, store
  <2> QED
    BY <1>2, <2>1, QuietKeeps
<1>3. ASSUME Reserving PROVE Kept
  <2>1. PICK c \in Reserves({"sent", "answered"}), stage \in {"granted", "over"} :
          Reserve(c, stage) /\ UNCHANGED now
    BY <1>3 DEF Reserving
  <2>2. \A j \in Jobs : /\ JobInv(j)' /\ deliveries'[j] \in Seq(Deliveries)
                        /\ ready'[j] \in Scores /\ processing'[j] \in Scores
                        /\ claims'[j] \in Nat /\ stalls'[j] \in Nat
    BY <2>1, ReserveKeeps
  <2>3. /\ ready' = [j \in Jobs |-> ready'[j]]
        /\ processing' = [j \in Jobs |-> processing'[j]]
        /\ claims' = [j \in Jobs |-> claims'[j]]
        /\ stalls' = [j \in Jobs |-> stalls'[j]]
        /\ deliveries' = [j \in Jobs |-> deliveries'[j]]
        /\ payload' = payload /\ dead' = dead
    BY <2>1 DEF Reserve
  <2>4. StoreTyped
    BY <1>1, <2>2, <2>3
  <2> QED
    BY <2>2, <2>4
<1>4. ASSUME NEW j \in Jobs, NEW r \in Replicas, Enqueue(j, r)
      PROVE  Kept
  <2>1. /\ Apart(j) /\ JobInv(j)'
        /\ ready' \in [Jobs -> Scores] /\ payload' \in [Jobs -> Scores]
    BY <1>4, EnqueueKeeps
  <2>2. UNCHANGED <<processing, claims, stalls, dead>>
    BY <1>4 DEF Enqueue
  <2>3. StoreTyped
    BY <1>1, <2>1, <2>2 DEF Apart
  <2> QED
    BY <2>1, <2>3, ApartKeeps
<1>5. ASSUME NEW j \in Jobs, NEW t \in Token(j), Settles(j, t)
      PROVE  Kept
  <2>1. Apart(j) /\ JobInv(j)' /\ StoreTyped
    BY <1>5, SettlesKeeps DEF Apart
  <2> QED
    BY <2>1, ApartKeeps
<1>6. ASSUME NEW j \in Jobs, NEW t \in Token(j), Extends(j, t)
      PROVE  Kept
  <2>1. Apart(j) /\ JobInv(j)' /\ processing' \in [Jobs -> Scores]
    BY <1>6, ExtendsKeeps
  <2>2. StoreTyped
    BY <1>1, <1>6, <2>1 DEF Apart, Extends
  <2> QED
    BY <2>1, <2>2, ApartKeeps
<1>7. Kept
  BY <1>2, <1>3, <1>4, <1>5, <1>6, StepKinds
<1>8. TypeOK'
  BY <1>7, ReplicasTyped DEF TypeOK
<1> QED
  BY <1>7, <1>8 DEF QInv

LEMMA InitQInv == Init => QInv
<1> SUFFICES ASSUME Init PROVE QInv
  OBVIOUS
<1>1. TypeOK
  BY QueueAssumption, EmptySeq DEF Init, TypeOK, QueueAssumption, Scores
<1>2. ASSUME NEW j \in Jobs PROVE JobInv(j)
  <2>1. /\ processing[j] = None /\ ready[j] = None /\ claims[j] = 0 /\ j \notin dead
        /\ payload[j] = None /\ Token(j) = {}
    BY EmptySeq DEF Init, Token
  <2> QED
    BY <2>1 DEF JobInv, Leased, Superseded, Counted
<1> QED
  BY <1>1, <1>2 DEF QInv

(* In every reachable state a job in processing belongs to its latest      *)
(* delivery, older deliveries were settled or ran out, and attempts grow.  *)
THEOREM QueueInvariant == Spec => []QInv
<1>1. QInv /\ [Next]_vars => QInv'
  BY NextKeeps
<1> QED
  BY <1>1, InitQInv, PTL DEF Spec

(* Type correctness of the queue. *)
THEOREM QueueTypeOK == Spec => []TypeOK
<1>1. QInv => TypeOK
  BY DEF QInv
<1> QED
  BY <1>1, QueueInvariant, PTL

(* The scripts move a job between the sets without losing it, leaving it   *)
(* in two of them, or keeping a claim for one that is not processed.       *)
THEOREM QueuePlaced == Spec => []Placed
<1>1. QInv => Placed
  <2> SUFFICES ASSUME QInv, NEW j \in Jobs
               PROVE  /\ Cardinality({p \in {"ready", "processing", "dead"} :
                                        \/ p = "ready" /\ ready[j] # None
                                        \/ p = "processing" /\ processing[j] # None
                                        \/ p = "dead" /\ j \in dead})
                           = IF payload[j] = None THEN 0 ELSE 1
                      /\ claims[j] = IF processing[j] = None THEN 0 ELSE Len(deliveries[j])
    BY DEF Placed
  <2> DEFINE places == {p \in {"ready", "processing", "dead"} :
                          \/ p = "ready" /\ ready[j] # None
                          \/ p = "processing" /\ processing[j] # None
                          \/ p = "dead" /\ j \in dead}
  <2>1. Leased(j)
    BY DEF QInv, JobInv
  <2>2. CASE payload[j] = None
    <3>1. places = {}
      BY <2>1, <2>2 DEF Leased
    <3> QED
      BY <2>1, <2>2, <3>1, FS_EmptySet DEF Leased
  <2>3. CASE payload[j] # None
    <3>1. places = {"ready"} \/ places = {"processing"} \/ places = {"dead"}
      BY <2>1, <2>3 DEF Leased
    <3>2. Cardinality(places) = 1
      BY <3>1, FS_Singleton
    <3> QED
      BY <2>1, <2>3, <3>2 DEF Leased
  <2> QED
    BY <2>2, <2>3
<1> QED
  BY <1>1, QueueInvariant, PTL

(* RESERVE_SCRIPT grants a job again only after the lease before ran out   *)
(* on the server's clock, however far ahead the replicas' clocks are.      *)
THEOREM QueueExclusive == Spec => []Exclusive
<1>1. QInv => Exclusive
  <2> SUFFICES ASSUME QInv, NEW j \in Jobs, NEW s \in Token(j), NEW t \in Token(j), s < t,
                      deliveries[j][s].stage \in {"granted", "running", "failing", "reading"}
               PROVE  now >= deliveries[j][s].held + Visibility
    BY DEF Exclusive
  <2>1. JobInv(j) /\ Len(deliveries[j]) \in Nat
    BY AllSane DEF QInv
  <2>2. s # claims[j]
    BY <2>1 DEF JobInv, Leased, Token
  <2> QED
    BY <2>1, <2>2 DEF JobInv, Superseded, Unsettled
<1> QED
  BY <1>1, QueueInvariant, PTL

(* Stalls and requeues count: each delivery has more attempts than those   *)
(* before it, so the processor runs within its budget at most MaxAttempts  *)
(* times for a job.                                                        *)
THEOREM QueueAttempts == Spec => []AttemptsCount
<1>1. QInv => AttemptsCount
  BY DEF QInv, JobInv, Counted, AttemptsCount
<1> QED
  BY <1>1, QueueInvariant, PTL

(* The tokens fence: only the current delivery, or the lapse of its lease, *)
(* ends its claim.                                                         *)
THEOREM QueueClaimRespected == Spec => ClaimRespected
<1>1. QInv /\ [Next]_vars =>
        [\A j \in Jobs :
           claims[j] # 0 /\ claims'[j] # claims[j] =>
             LET d == deliveries[j][claims[j]]
             IN \/ now >= d.held + Visibility
                \/ /\ d.command # "none"
                   /\ deliveries'[j][claims[j]].command = "none"]_vars
  <2> SUFFICES ASSUME QInv, [Next]_vars, NEW j \in Jobs, claims[j] # 0, claims'[j] # claims[j]
               PROVE  \/ now >= deliveries[j][claims[j]].held + Visibility
                      \/ /\ deliveries[j][claims[j]].command # "none"
                         /\ deliveries'[j][claims[j]].command = "none"
    OBVIOUS
  <2>1. Leased(j)
    BY DEF QInv, JobInv
  <2>2. processing[j] # None /\ claims[j] = Len(deliveries[j])
    BY <2>1 DEF Leased
  <2>3. ~Quiet
    BY DEF Quiet, store
  <2>4. CASE Reserving
    <3>1. PICK c \in Reserves({"sent", "answered"}), stage \in {"granted", "over"} :
            Reserve(c, stage)
      BY <2>4 DEF Reserving
    <3>2. Reclaimed(j) \/ ready[j] # None \/ claims'[j] = claims[j]
      BY <3>1, ReserveStep
    <3> QED
      BY <2>1, <2>2, <3>2 DEF Leased, Reclaimed
  <2>5. ASSUME NEW k \in Jobs, NEW r \in Replicas, Enqueue(k, r)
        PROVE  FALSE
    BY <2>5 DEF Enqueue
  <2>6. ASSUME NEW k \in Jobs, NEW t \in Token(k), Settles(k, t)
        PROVE  /\ deliveries[j][claims[j]].command # "none"
               /\ deliveries'[j][claims[j]].command = "none"
    <3>1. k = j
      BY <2>6 DEF Settles, Released
    <3>2. t = claims[j] /\ deliveries[j][t].command # "none"
      BY <2>6, <3>1 DEF Settles, Executed, Holds
    <3> DEFINE e == [deliveries[j][t] EXCEPT !.command = "none", !.due = 0]
    <3>3. e \in Deliveries /\ e.command = "none"
      BY <3>1, AllSane DEF Sane, Deliveries, Commands
    <3>4. deliveries \in [Jobs -> Seq(Deliveries)] /\ Change(j, t, e)
      BY <2>6, <3>1 DEF QInv, TypeOK, Settles, Executed
    <3>5. deliveries'[j][t] = e
      BY <3>1, <3>3, <3>4, ChangeFacts
    <3> QED
      BY <3>2, <3>3, <3>5
  <2>7. ASSUME NEW k \in Jobs, NEW t \in Token(k), Extends(k, t)
        PROVE  FALSE
    BY <2>7 DEF Extends
  <2> QED
    BY <2>3, <2>4, <2>5, <2>6, <2>7, StepKinds
<1> QED
  BY <1>1, QueueInvariant, PTL DEF Spec, ClaimRespected

(* An acknowledged or dead job is out of reach of every later command. *)
THEOREM QueueClosedForGood == Spec => ClosedForGood
<1>1. QInv /\ [Next]_vars =>
        [\A j \in Jobs :
           Closed(j) => /\ Closed(j)' /\ (j \in dead <=> j \in dead')
                        /\ Len(deliveries[j]) = Len(deliveries'[j])]_vars
  <2> SUFFICES ASSUME QInv, [Next]_vars, NEW j \in Jobs, Closed(j)
               PROVE  /\ Closed(j)' /\ (j \in dead <=> j \in dead')
                      /\ Len(deliveries[j]) = Len(deliveries'[j])
    OBVIOUS
  <2>1. /\ processing[j] = None /\ ready[j] = None /\ claims[j] = 0
        /\ ~(payload[j] = None /\ deliveries[j] = <<>>)
    BY DEF QInv, JobInv, Leased, Closed
  <2>2. deliveries[j] \in Seq(Deliveries)
    BY AllSane
  <2>3. SUFFICES /\ payload'[j] = payload[j] /\ (j \in dead <=> j \in dead')
                 /\ Len(deliveries'[j]) = Len(deliveries[j])
                 /\ deliveries'[j] \in Seq(Deliveries)
    BY <2>2, <2>3, EmptySeq DEF Closed
  <2>4. CASE Quiet
    BY <2>4 DEF Quiet, store
  <2>5. CASE Reserving
    <3>1. PICK c \in Reserves({"sent", "answered"}), stage \in {"granted", "over"} :
            Reserve(c, stage)
      BY <2>5 DEF Reserving
    <3>2. ~Reclaimed(j)
      BY <2>1 DEF Reclaimed
    <3>3. /\ deliveries'[j] = deliveries[j] /\ payload'[j] = payload[j]
          /\ j \in dead' <=> j \in dead
      BY <2>1, <3>1, <3>2, ReserveStep
    <3> QED
      BY <2>2, <3>3
  <2>6. ASSUME NEW k \in Jobs, k # j, Apart(k)
        PROVE  /\ payload'[j] = payload[j] /\ (j \in dead <=> j \in dead')
               /\ deliveries'[j] = deliveries[j]
    BY <2>6 DEF Apart
  <2>7. ASSUME NEW k \in Jobs, NEW r \in Replicas, Enqueue(k, r)
        PROVE  k # j /\ Apart(k)
    <3>1. payload[k] = None /\ deliveries[k] = <<>>
      BY <2>7 DEF Enqueue
    <3> QED
      BY <2>1, <2>7, <3>1, EnqueueKeeps
  <2>8. ASSUME NEW k \in Jobs, NEW t \in Token(k), Settles(k, t) \/ Extends(k, t)
        PROVE  k # j /\ Apart(k)
    <3>1. claims[k] = t /\ t > 0
      BY <2>8 DEF Settles, Extends, Holds, Token
    <3> QED
      BY <2>1, <2>8, <3>1, SettlesKeeps, ExtendsKeeps
  <2> QED
    BY <2>2, <2>4, <2>5, <2>6, <2>7, <2>8, StepKinds
<1> QED
  BY <1>1, QueueInvariant, PTL DEF Spec, ClosedForGood
-----------------------------------------------------------------------------
(* The concurrency of a replica: what it runs, what it was granted and     *)
(* what its reserve may still grant fit ProcessOptions.concurrency, for    *)
(* any batch of jobs a reserve returns.                                    *)

Rows == UNION {{j} \X Token(j) : j \in Jobs}
Row(d) == deliveries[d[1]][d[2]]

(* What a replica answers for: the deliveries it runs or is about to run. *)
Loads(s) == s \in Active \cup {"granted"}
Load(r) == {d \in Rows : Row(d).by = r /\ Loads(Row(d).stage)}

Sent(r) == polls[r] # Idle /\ polls[r].st = "sent"
Promised(r) == IF Sent(r) THEN polls[r].limit ELSE 0

(* Rows are granted only between the script of a reserve and its answer. *)
NothingGranted(r) == \A d \in Rows : ~Granted(r, Row(d))

BatchInv ==
  \A r \in Replicas :
    /\ Cardinality(Load(r)) + Promised(r) <= Concurrency
    /\ polls[r] # Idle => polls[r].by = r
    /\ polls[r] = Idle \/ polls[r].st = "sent" => NothingGranted(r)

LInv == QInv /\ BatchInv
-----------------------------------------------------------------------------
LEMMA RowFacts ==
  /\ \A d : d \in Rows <=> \E j \in Jobs : \E t \in Token(j) : d = <<j, t>>
  /\ \A j \in Jobs : \A t \in Token(j) : Row(<<j, t>>) = deliveries[j][t]
  BY DEF Rows, Row

LEMMA RowsFinite ==
  ASSUME QInv
  PROVE  IsFiniteSet(Rows)
<1> DEFINE tokens == [j \in Jobs |-> {j} \X Token(j)]
           all == {{j} \X Token(j) : j \in Jobs}
<1>1. tokens \in Surjection(Jobs, all)
  BY DEF Surjection
<1>2. IsFiniteSet(all)
  BY <1>1, FS_Surjection, QueueAssumption DEF QueueAssumption
<1>3. ASSUME NEW j \in Jobs PROVE IsFiniteSet({j} \X Token(j))
  <2>1. IsFiniteSet(1..Len(deliveries[j]))
    BY AllSane, FS_Interval
  <2> QED
    BY <2>1, FS_Singleton, FS_Product DEF Token
<1>4. IsFiniteSet(UNION all)
  BY <1>2, <1>3, FS_UNION
<1> QED
  BY <1>4 DEF Rows

LEMMA LoadFinite ==
  ASSUME QInv, NEW r \in Replicas
  PROVE  IsFiniteSet(Load(r)) /\ Cardinality(Load(r)) \in Nat
<1>1. Load(r) \subseteq Rows
  BY DEF Load
<1> QED
  BY <1>1, RowsFinite, FS_Subset, FS_CardinalityType

(* A replica runs a part of what it answers for. *)
LEMMA RunsItsLoad ==
  ASSUME QInv, NEW r \in Replicas
  PROVE  /\ InFlight(r) \in Nat
         /\ InFlight(r) <= Cardinality(Load(r))
         /\ NothingGranted(r) => InFlight(r) = Cardinality(Load(r))
<1> DEFINE run == {d \in Rows : Row(d).by = r /\ Row(d).stage \in Active}
<1>1. InFlight(r) = Cardinality(run)
  BY DEF InFlight, Rows, Row
<1>2. run \in SUBSET Load(r)
  BY DEF Load, Loads
<1>3. NothingGranted(r) => run = Load(r)
  BY DEF Load, Loads, NothingGranted, Granted
<1> HIDE DEF run
<1>4. IsFiniteSet(run) /\ Cardinality(run) <= Cardinality(Load(r))
  BY <1>2, LoadFinite, FS_Subset
<1> QED
  BY <1>1, <1>3, <1>4, FS_CardinalityType
-----------------------------------------------------------------------------
(* A step is calm when it gives no replica a row it did not answer for. *)

Keeps(d, e) ==
  /\ e.by = d.by
  /\ Loads(e.stage) => Loads(d.stage)
  /\ e.stage = "granted" => d.stage = "granted"

Calm ==
  \A j \in Jobs : /\ Token(j)' = Token(j)
                  /\ \A t \in Token(j) : Keeps(deliveries[j][t], deliveries'[j][t])

LEMMA CalmLoad ==
  ASSUME QInv, Calm, NEW r \in Replicas
  PROVE  /\ Cardinality(Load(r)') <= Cardinality(Load(r)) /\ Cardinality(Load(r)') \in Nat
         /\ NothingGranted(r) => NothingGranted(r)'
<1>1. Rows' = Rows
  BY DEF Rows, Calm
<1>2. \A d \in Rows : Keeps(Row(d), Row(d)')
  BY DEF Rows, Row, Calm
<1>3. Load(r)' \in SUBSET Load(r)
  BY <1>1, <1>2 DEF Load, Keeps
<1>4. IsFiniteSet(Load(r)') /\ Cardinality(Load(r)') <= Cardinality(Load(r))
  BY <1>3, LoadFinite, FS_Subset
<1>5. NothingGranted(r) => NothingGranted(r)'
  BY <1>1, <1>2 DEF NothingGranted, Granted, Keeps
<1> QED
  BY <1>4, <1>5, FS_CardinalityType

(* A calm step that leaves the polls alone, or ends some of them along     *)
(* with the rows they were granted, keeps every replica within its limit.  *)
LEMMA CalmKeeps ==
  ASSUME LInv, Calm,
         \A r \in Replicas : \/ polls'[r] = polls[r]
                             \/ polls'[r] = Idle /\ NothingGranted(r)'
  PROVE  BatchInv'
<1> SUFFICES ASSUME NEW r \in Replicas
             PROVE  /\ Cardinality(Load(r)') + Promised(r)' <= Concurrency
                    /\ polls'[r] # Idle => polls'[r].by = r
                    /\ polls'[r] = Idle \/ polls'[r].st = "sent" => NothingGranted(r)'
  BY DEF BatchInv
<1>1. /\ Cardinality(Load(r)') <= Cardinality(Load(r)) /\ Cardinality(Load(r)') \in Nat
      /\ NothingGranted(r) => NothingGranted(r)'
  BY CalmLoad DEF LInv
<1>2. Cardinality(Load(r)) \in Nat /\ Concurrency \in Nat
  BY LoadFinite, QueueAssumption DEF LInv, QueueAssumption
<1>3. Promised(r) \in Nat
  BY DEF Promised, Sent, LInv, QInv, TypeOK, Reserves
<1>4. /\ Cardinality(Load(r)) + Promised(r) <= Concurrency
      /\ polls[r] # Idle => polls[r].by = r
      /\ polls[r] = Idle \/ polls[r].st = "sent" => NothingGranted(r)
  BY DEF LInv, BatchInv
<1>5. CASE polls'[r] = polls[r]
  <2>1. Promised(r)' = Promised(r)
    BY <1>5 DEF Promised, Sent
  <2> QED
    BY <1>1, <1>2, <1>3, <1>4, <1>5, <2>1
<1>6. CASE polls'[r] = Idle /\ NothingGranted(r)'
  <2>1. Promised(r)' = 0
    BY <1>6 DEF Promised, Sent
  <2> QED
    BY <1>1, <1>2, <1>3, <1>4, <1>6, <2>1
<1> QED
  BY <1>5, <1>6
-----------------------------------------------------------------------------
(* Which steps are calm. *)

LEMMA KeepsSelf ==
  ASSUME QInv
  PROVE  \A j \in Jobs : \A t \in Token(j) :
           deliveries[j][t] \in Deliveries /\ Keeps(deliveries[j][t], deliveries[j][t])
  BY AllSane DEF Sane, Keeps

LEMMA SameCalm ==
  ASSUME QInv, UNCHANGED deliveries
  PROVE  Calm
<1>1. \A j \in Jobs : Token(j)' = Token(j)
  BY DEF Token
<1> QED
  BY <1>1, KeepsSelf DEF Calm

LEMMA ChangeCalm ==
  ASSUME QInv, NEW j \in Jobs, NEW t \in Token(j), NEW e \in Deliveries,
         Keeps(deliveries[j][t], e), Change(j, t, e)
  PROVE  Calm
<1>1. /\ \A k \in Jobs : Len(deliveries'[k]) = Len(deliveries[k])
      /\ \A k \in Jobs : \A s \in Token(k) :
           deliveries'[k][s] = IF k = j /\ s = t THEN e ELSE deliveries[k][s]
  BY ChangeFacts DEF QInv, TypeOK
<1>2. ASSUME NEW k \in Jobs
      PROVE  /\ Token(k)' = Token(k)
             /\ \A s \in Token(k) : Keeps(deliveries[k][s], deliveries'[k][s])
  <2>1. Token(k)' = Token(k)
    BY <1>1 DEF Token
  <2>2. ASSUME NEW s \in Token(k)
        PROVE  Keeps(deliveries[k][s], deliveries'[k][s])
    <3>1. CASE k = j /\ s = t
      BY <1>1, <3>1
    <3>2. CASE ~(k = j /\ s = t)
      BY <1>1, <3>2, KeepsSelf
    <3> QED
      BY <3>1, <3>2
  <2> QED
    BY <2>1, <2>2
<1> QED
  BY <1>2 DEF Calm

LEMMA MapCalm ==
  ASSUME QInv, NEW m,
         deliveries' = [j \in Jobs |-> [t \in Token(j) |-> m[j][t]]],
         \A j \in Jobs : \A t \in Token(j) :
           m[j][t] \in Deliveries /\ Keeps(deliveries[j][t], m[j][t])
  PROVE  /\ Calm
         /\ \A j \in Jobs : \A t \in Token(j) : deliveries'[j][t] = m[j][t]
<1>1. ASSUME NEW j \in Jobs
      PROVE  Token(j)' = Token(j) /\ \A t \in Token(j) : deliveries'[j][t] = m[j][t]
  <2>1. deliveries'[j] = [t \in 1..Len(deliveries[j]) |-> m[j][t]]
    BY DEF Token
  <2>2. \A t \in 1..Len(deliveries[j]) : deliveries'[j][t] = m[j][t] /\ m[j][t] \in Deliveries
    BY <2>1 DEF Token
  <2>3. deliveries[j] \in Seq(Deliveries)
    BY AllSane
  <2>4. deliveries'[j] = [t \in 1..Len(deliveries[j]) |-> deliveries'[j][t]]
    BY <2>1, <2>2
  <2>5. Len(deliveries'[j]) = Len(deliveries[j])
    BY <2>2, <2>3, <2>4, MapFacts
  <2> QED
    BY <2>2, <2>5 DEF Token
<1> QED
  BY <1>1 DEF Calm

LEMMA RunnerCalm ==
  ASSUME QInv, NEW j \in Jobs, NEW t \in Token(j), Runner(j, t)
  PROVE  Calm /\ UNCHANGED polls
<1> DEFINE d == deliveries[j][t]
<1>1. d \in Deliveries /\ UNCHANGED polls
  BY KeepsSelf DEF Runner, ProcessorSucceeds, ProcessorFails, FailureNotified, PayloadRead,
                   CallEnds, Renew
<1> DEFINE Fits(e) == e \in Deliveries /\ Keeps(d, e)
<1>2. Fits(Over(d))
  BY <1>1 DEF Keeps, Loads, Active, Over, Deliveries, Stages
<1>3. \A command \in Commands : Loads(d.stage) => Fits(Sending(d, command))
  BY <1>1, <1>2 DEF Sending, Keeps, Loads, Active, Deliveries, Stages
<1>4. \A e : Fits(e) /\ Change(j, t, e) => Calm
  BY ChangeCalm
<1> HIDE DEF Fits
<1>5. CASE ProcessorSucceeds(j, t)
  BY <1>1, <1>3, <1>4, <1>5 DEF ProcessorSucceeds, Commands, Loads, Active
<1>6. CASE ProcessorFails(j, t)
  <2>1. PICK delay \in Delays :
          Change(j, t, IF d.attempts >= MaxAttempts THEN [d EXCEPT !.stage = "failing"]
                       ELSE IF ~connected[d.by] THEN Over(d)
                       ELSE [d EXCEPT !.stage = "reading", !.due = Clock(d.by) + delay])
    BY <1>6 DEF ProcessorFails
  <2>2. d.stage = "running" /\ Clock(d.by) + delay \in Nat
    <3>1. d.by \in Replicas /\ now \in Nat /\ delay \in Nat /\ Skew \in [Replicas -> Nat]
      BY <1>1, QueueAssumption DEF Deliveries, QInv, TypeOK, QueueAssumption
    <3> QED
      BY <1>6, <3>1 DEF ProcessorFails, Clock
  <2>3. /\ Fits([d EXCEPT !.stage = "failing"])
        /\ Fits([d EXCEPT !.stage = "reading", !.due = Clock(d.by) + delay])
    BY <1>1, <2>2 DEF Fits, Keeps, Loads, Active, Deliveries, Stages
  <2> QED
    BY <1>1, <1>2, <1>4, <2>1, <2>3
<1>7. CASE FailureNotified(j, t)
  BY <1>1, <1>3, <1>4, <1>7 DEF FailureNotified, Commands, Loads, Active
<1>8. CASE PayloadRead(j, t)
  BY <1>1, <1>2, <1>3, <1>4, <1>8 DEF PayloadRead, Commands, Loads, Active
<1>9. CASE CallEnds(j, t)
  BY <1>1, <1>2, <1>4, <1>9 DEF CallEnds
<1>10. CASE Renew(j, t)
  <2>1. Fits([d EXCEPT !.extending = TRUE])
    BY <1>1 DEF Fits, Keeps, Deliveries
  <2> QED
    BY <1>1, <1>4, <1>10, <2>1 DEF Renew
<1> QED
  BY <1>5, <1>6, <1>7, <1>8, <1>9, <1>10 DEF Runner

LEMMA ServerCalm ==
  ASSUME QInv, NEW j \in Jobs, NEW t \in Token(j), Server(j, t)
  PROVE  Calm /\ UNCHANGED polls
<1> DEFINE d == deliveries[j][t]
<1>1. d \in Deliveries /\ now \in Nat
  BY KeepsSelf DEF QInv, TypeOK
<1> DEFINE Fits(e) == e \in Deliveries /\ Keeps(d, e)
<1>2. /\ Fits([d EXCEPT !.command = "none", !.due = 0])
      /\ Fits([d EXCEPT !.extending = FALSE])
      /\ Fits([d EXCEPT !.extending = FALSE, !.held = now])
  BY <1>1 DEF Keeps, Deliveries, Commands
<1>3. \A e : Fits(e) /\ Change(j, t, e) => Calm
  BY ChangeCalm
<1> HIDE DEF Fits
<1>4. CASE ExecAck(j, t) \/ ExecRequeue(j, t) \/ ExecDeadLetter(j, t)
  BY <1>2, <1>3, <1>4 DEF ExecAck, ExecRequeue, ExecDeadLetter, Executes
<1>5. CASE ExecExtend(j, t)
  BY <1>2, <1>3, <1>5 DEF ExecExtend
<1> QED
  BY <1>4, <1>5 DEF Server
-----------------------------------------------------------------------------
(* A reserve adds a row for each of at most limit jobs. *)

Added(given) == {<<j, Len(deliveries[j]) + 1>> : j \in given}

LEMMA ReserveAdds ==
  ASSUME QInv, NEW c \in Reserves({"sent", "answered"}), NEW stage \in {"granted", "over"},
         Reserve(c, stage)
  PROVE  \E given \in SUBSET Jobs :
           /\ IsFiniteSet(Added(given)) /\ Cardinality(Added(given)) <= c.limit
           /\ \A d \in Rows' : \/ d \in Rows /\ Row(d)' = Row(d)
                               \/ d \in Added(given) /\ Row(d)'.by = c.by /\ Row(d)'.stage = stage
<1>1. PICK score, due, a :
        \E taken \in Lowest(UpTo(due, score), due, c.limit) :
          deliveries' = [j \in Jobs |->
                          IF j \in {k \in taken : payload[k] # None}
                          THEN Append(deliveries[j], Delivery(c.by, a[j], stage))
                          ELSE deliveries[j]]
  <2>1. PICK lapsed \in Lowest(Lapsed(c), processing, c.limit) :
          LET back == {k \in lapsed : payload[k] # None}
              due == [k \in Jobs |-> IF k \in back THEN c.at
                                     ELSE IF k \in lapsed THEN None ELSE ready[k]]
              stalled == [k \in Jobs |-> IF k \in back THEN stalls[k] + 1 ELSE stalls[k]]
          IN \E taken \in Lowest(UpTo(due, c.at), due, c.limit) :
               LET given == {k \in taken : payload[k] # None}
               IN deliveries' = [k \in Jobs |->
                     IF k \in given
                     THEN Append(deliveries[k],
                                 Delivery(c.by, Attempts(payload[k], stalled[k]), stage))
                     ELSE deliveries[k]]
    BY DEF Reserve
  <2> DEFINE back == {k \in lapsed : payload[k] # None}
             due == [k \in Jobs |-> IF k \in back THEN c.at
                                    ELSE IF k \in lapsed THEN None ELSE ready[k]]
             stalled == [k \in Jobs |-> IF k \in back THEN stalls[k] + 1 ELSE stalls[k]]
             a == [k \in Jobs |-> Attempts(payload[k], stalled[k])]
  <2>2. PICK taken \in Lowest(UpTo(due, c.at), due, c.limit) :
          deliveries' = [k \in Jobs |->
             IF k \in {i \in taken : payload[i] # None}
             THEN Append(deliveries[k], Delivery(c.by, Attempts(payload[k], stalled[k]), stage))
             ELSE deliveries[k]]
    BY <2>1
  <2>3. deliveries' = [k \in Jobs |->
             IF k \in {i \in taken : payload[i] # None}
             THEN Append(deliveries[k], Delivery(c.by, a[k], stage))
             ELSE deliveries[k]]
    BY <2>2
  <2> HIDE DEF due, a
  <2> WITNESS c.at, due, a
  <2> WITNESS taken \in Lowest(UpTo(due, c.at), due, c.limit)
  <2> QED
    BY <2>3
<1>2. PICK taken \in Lowest(UpTo(due, score), due, c.limit) :
        deliveries' = [j \in Jobs |->
                        IF j \in {k \in taken : payload[k] # None}
                        THEN Append(deliveries[j], Delivery(c.by, a[j], stage))
                        ELSE deliveries[j]]
  BY <1>1
<1> DEFINE S == UpTo(due, score)
           given == {k \in taken : payload[k] # None}
           Next1(j) == <<j, Len(deliveries[j]) + 1>>
           row == [j \in given |-> Next1(j)]
<1>3. IsFiniteSet(S) /\ Cardinality(S) \in Nat /\ S \subseteq Jobs
  <2>1. S \in SUBSET Jobs
    BY DEF UpTo
  <2> QED
    BY <2>1, QueueAssumption, FS_Subset, FS_CardinalityType DEF QueueAssumption
<1>4. taken \in SUBSET S /\ Cardinality(taken) <= c.limit
  <2>1. c.limit \in Nat
    BY DEF Reserves
  <2>2. taken \in SUBSET S
        /\ Cardinality(taken) = IF Cardinality(S) < c.limit THEN Cardinality(S) ELSE c.limit
    BY DEF Lowest
  <2> QED
    BY <1>3, <2>1, <2>2
<1>5. IsFiniteSet(given) /\ Cardinality(given) <= c.limit /\ Cardinality(given) \in Nat
  <2>1. IsFiniteSet(taken) /\ given \in SUBSET taken
    BY <1>3, <1>4, FS_Subset
  <2>2. IsFiniteSet(given) /\ Cardinality(given) <= Cardinality(taken)
    BY <2>1, FS_Subset
  <2>3. Cardinality(given) \in Nat /\ Cardinality(taken) \in Nat /\ c.limit \in Nat
    BY <2>1, <2>2, FS_CardinalityType DEF Reserves
  <2> QED
    BY <1>4, <2>2, <2>3
<1>6. given \in SUBSET Jobs
  BY <1>3, <1>4
<1>7. IsFiniteSet(Added(given)) /\ Cardinality(Added(given)) <= c.limit
  <2>1. row \in Surjection(given, Added(given))
    BY DEF Added, Surjection
  <2>2. IsFiniteSet(Added(given)) /\ Cardinality(Added(given)) <= Cardinality(given)
    BY <1>5, <2>1, FS_Surjection
  <2>3. Cardinality(Added(given)) \in Nat /\ c.limit \in Nat
    BY <2>2, FS_CardinalityType DEF Reserves
  <2> QED
    BY <1>5, <2>2, <2>3
<1>8. ASSUME NEW j \in Jobs, NEW t \in Token(j)'
      PROVE  \/ t \in Token(j) /\ deliveries'[j][t] = deliveries[j][t]
             \/ /\ j \in given /\ t = Len(deliveries[j]) + 1
                /\ deliveries'[j][t] = Delivery(c.by, a[j], stage)
  <2>1. deliveries[j] \in Seq(Deliveries) /\ Len(deliveries[j]) \in Nat
    BY AllSane
  <2>2. CASE j \notin given
    <3>1. deliveries'[j] = deliveries[j]
      BY <1>2, <2>2
    <3> QED
      BY <3>1 DEF Token
  <2>3. CASE j \in given
    <3> DEFINE q == deliveries[j]
               d == Delivery(c.by, a[j], stage)
    <3>1. deliveries'[j] = Append(q, d)
      BY <1>2, <2>3
    <3>2. Len(Append(q, d)) = Len(q) + 1
          /\ \A i \in 1..Len(q) + 1 : Append(q, d)[i] = IF i = Len(q) + 1 THEN d ELSE q[i]
      BY <2>1
    <3> HIDE DEF d
    <3>3. t \in 1..Len(q) + 1
      BY <3>1, <3>2 DEF Token
    <3>4. CASE t = Len(q) + 1
      BY <2>3, <3>1, <3>2, <3>3, <3>4 DEF d
    <3>5. CASE t # Len(q) + 1
      BY <2>1, <3>1, <3>2, <3>3, <3>5 DEF Token
    <3> QED
      BY <3>4, <3>5
  <2> QED
    BY <2>2, <2>3
<1>9. ASSUME NEW d \in Rows'
      PROVE  \/ d \in Rows /\ Row(d)' = Row(d)
             \/ d \in Added(given) /\ Row(d)'.by = c.by /\ Row(d)'.stage = stage
  <2>0. PICK j \in Jobs : \E t \in Token(j)' : d = <<j, t>>
    BY DEF Rows
  <2>1. PICK t \in Token(j)' : d = <<j, t>>
    BY <2>0
  <2>2. Row(d)' = deliveries'[j][t] /\ Row(d) = deliveries[j][t]
    BY <2>1 DEF Row
  <2>3. CASE t \in Token(j) /\ deliveries'[j][t] = deliveries[j][t]
    BY <2>1, <2>2, <2>3, RowFacts
  <2>4. CASE /\ j \in given /\ t = Len(deliveries[j]) + 1
             /\ deliveries'[j][t] = Delivery(c.by, a[j], stage)
    BY <2>1, <2>2, <2>4 DEF Added, Delivery
  <2> QED
    BY <1>8, <2>3, <2>4
<1> QED
  BY <1>6, <1>7, <1>9
-----------------------------------------------------------------------------
(* Every step keeps the replicas within their concurrency. *)

LEMMA ReplicaCalm ==
  ASSUME QInv, NEW r \in Replicas,
         PollFails(r) \/ Dispatch(r) \/ Disconnect(r) \/ Crash(r) \/ Connect(r)
  PROVE  /\ Calm
         /\ \A q \in Replicas : \/ polls'[q] = polls[q]
                                \/ polls'[q] = Idle /\ NothingGranted(q)'
<1> DEFINE Fits(d, e) == e \in Deliveries /\ Keeps(d, e)
<1>1. /\ connected \in [Replicas -> BOOLEAN]
      /\ polls \in [Replicas -> Reserves({"sent", "answered"}) \cup {Idle}]
  BY DEF QInv, TypeOK
<1>2. ASSUME NEW j \in Jobs, NEW t \in Token(j)
      PROVE  LET d == deliveries[j][t]
             IN  /\ Fits(d, d) /\ Fits(d, Over(d)) /\ Fits(d, [d EXCEPT !.renewing = FALSE])
                 /\ Granted(r, d) => Fits(d, Started(d))
  <2> DEFINE d == deliveries[j][t]
  <2>1. d \in Deliveries /\ connected[d.by] \in BOOLEAN
    BY <1>1, KeepsSelf DEF Deliveries
  <2>2. Fits(d, d)
    BY KeepsSelf
  <2>3. Fits(d, Over(d)) /\ Fits(d, [d EXCEPT !.renewing = FALSE])
    BY <2>1 DEF Keeps, Loads, Active, Over, Deliveries, Stages
  <2>4. ASSUME Granted(r, d) PROVE Fits(d, Started(d))
    <3>1. \A s \in {"failing", "running"} :
            Fits(d, [d EXCEPT !.stage = s, !.renewing = connected[d.by]])
      BY <2>1, <2>4 DEF Keeps, Loads, Active, Granted, Deliveries, Stages
    <3> HIDE DEF Fits
    <3> QED
      BY <3>1 DEF Started
  <2> QED
    BY <2>2, <2>3, <2>4
<1>3. ASSUME NEW m,
             deliveries' = [j \in Jobs |-> [t \in Token(j) |-> m[j][t]]],
             \A j \in Jobs : \A t \in Token(j) : Fits(deliveries[j][t], m[j][t])
      PROVE  /\ Calm
             /\ (\A j \in Jobs : \A t \in Token(j) : ~Granted(r, m[j][t])) => NothingGranted(r)'
  <2>1. Calm /\ \A j \in Jobs : \A t \in Token(j) : deliveries'[j][t] = m[j][t]
    BY <1>3, MapCalm
  <2>2. ASSUME \A j \in Jobs : \A t \in Token(j) : ~Granted(r, m[j][t])
        PROVE  NothingGranted(r)'
    <3>1. \A j \in Jobs : \A t \in Token(j)' : ~Granted(r, deliveries'[j][t])
      BY <2>1, <2>2 DEF Calm
    <3> QED
      BY <3>1 DEF NothingGranted, Rows, Row, Granted
  <2> QED
    BY <2>1, <2>2
<1> HIDE DEF Fits
<1>4. CASE PollFails(r)
  <2> DEFINE m == [j \in Jobs |-> [t \in Token(j) |->
                     IF Granted(r, deliveries[j][t]) THEN Over(deliveries[j][t])
                     ELSE deliveries[j][t]]]
  <2>1. deliveries' = [j \in Jobs |-> [t \in Token(j) |-> m[j][t]]]
    BY <1>4 DEF PollFails, ChangeThose
  <2>2. \A j \in Jobs : \A t \in Token(j) :
          Fits(deliveries[j][t], m[j][t]) /\ ~Granted(r, m[j][t])
    <3> SUFFICES ASSUME NEW j \in Jobs, NEW t \in Token(j)
                 PROVE  Fits(deliveries[j][t], m[j][t]) /\ ~Granted(r, m[j][t])
      OBVIOUS
    <3>1. deliveries[j][t] \in Deliveries
      BY KeepsSelf
    <3> QED
      BY <1>2, <3>1 DEF Granted, Over, Deliveries
  <2>3. Calm /\ NothingGranted(r)'
    BY <1>3, <2>1, <2>2
  <2>4. polls' = [polls EXCEPT ![r] = Idle]
    BY <1>4 DEF PollFails
  <2> QED
    BY <1>1, <2>3, <2>4
<1>5. CASE Dispatch(r)
  <2> DEFINE m == [j \in Jobs |-> [t \in Token(j) |->
                     IF Granted(r, deliveries[j][t]) THEN Started(deliveries[j][t])
                     ELSE deliveries[j][t]]]
  <2>1. deliveries' = [j \in Jobs |-> [t \in Token(j) |-> m[j][t]]]
    BY <1>5 DEF Dispatch, ChangeThose
  <2>2. \A j \in Jobs : \A t \in Token(j) :
          Fits(deliveries[j][t], m[j][t]) /\ ~Granted(r, m[j][t])
    <3> SUFFICES ASSUME NEW j \in Jobs, NEW t \in Token(j)
                 PROVE  Fits(deliveries[j][t], m[j][t]) /\ ~Granted(r, m[j][t])
      OBVIOUS
    <3>1. deliveries[j][t] \in Deliveries
      BY KeepsSelf
    <3>2. Started(deliveries[j][t]).stage # "granted"
      BY <3>1 DEF Started, Deliveries
    <3> QED
      BY <1>2, <3>1, <3>2 DEF Granted
  <2>3. Calm /\ NothingGranted(r)'
    BY <1>3, <2>1, <2>2
  <2>4. polls' = [polls EXCEPT ![r] = Idle]
    BY <1>5 DEF Dispatch
  <2> QED
    BY <1>1, <2>3, <2>4
<1>6. CASE Disconnect(r)
  <2> DEFINE m == [j \in Jobs |-> [t \in Token(j) |->
                     IF deliveries[j][t].by = r
                     THEN [deliveries[j][t] EXCEPT !.renewing = FALSE]
                     ELSE deliveries[j][t]]]
  <2>1. deliveries' = [j \in Jobs |-> [t \in Token(j) |-> m[j][t]]]
    BY <1>6 DEF Disconnect, ChangeThose
  <2>2. \A j \in Jobs : \A t \in Token(j) : Fits(deliveries[j][t], m[j][t])
    BY <1>2
  <2>3. Calm /\ polls' = polls
    BY <1>3, <1>6, <2>1, <2>2 DEF Disconnect
  <2> QED
    BY <2>3
<1>7. CASE Crash(r)
  <2> DEFINE m == [j \in Jobs |-> [t \in Token(j) |->
                     IF deliveries[j][t].by = r THEN Over(deliveries[j][t])
                     ELSE deliveries[j][t]]]
  <2>1. deliveries' = [j \in Jobs |-> [t \in Token(j) |-> m[j][t]]]
    BY <1>7 DEF Crash, ChangeThose
  <2>2. \A j \in Jobs : \A t \in Token(j) :
          Fits(deliveries[j][t], m[j][t]) /\ ~Granted(r, m[j][t])
    <3> SUFFICES ASSUME NEW j \in Jobs, NEW t \in Token(j)
                 PROVE  Fits(deliveries[j][t], m[j][t]) /\ ~Granted(r, m[j][t])
      OBVIOUS
    <3>1. deliveries[j][t] \in Deliveries
      BY KeepsSelf
    <3> QED
      BY <1>2, <3>1 DEF Granted, Over, Deliveries
  <2>3. Calm /\ NothingGranted(r)'
    BY <1>3, <2>1, <2>2
  <2>4. polls' = [polls EXCEPT ![r] = Idle]
    BY <1>7 DEF Crash
  <2> QED
    BY <1>1, <2>3, <2>4
<1>8. CASE Connect(r)
  BY <1>8, SameCalm DEF Connect
<1> QED
  BY <1>4, <1>5, <1>6, <1>7, <1>8

(* A poll asks for what is free: with nothing granted, its load runs. *)
LEMMA PollKeeps ==
  ASSUME LInv, NEW r \in Replicas, Poll(r)
  PROVE  BatchInv'
<1>1. /\ polls[r] = Idle /\ deliveries' = deliveries
      /\ polls' = [polls EXCEPT ![r] = [st |-> "sent", by |-> r, at |-> Clock(r),
                                        limit |-> Room(r)]]
      /\ polls \in [Replicas -> Reserves({"sent", "answered"}) \cup {Idle}]
  BY DEF Poll, LInv, QInv, TypeOK
<1>2. \A q \in Replicas : Load(q)' = Load(q) /\ (NothingGranted(q)' <=> NothingGranted(q))
  BY <1>1 DEF Load, NothingGranted, Rows, Row, Token
<1> SUFFICES ASSUME NEW q \in Replicas
             PROVE  /\ Cardinality(Load(q)') + Promised(q)' <= Concurrency
                    /\ polls'[q] # Idle => polls'[q].by = q
                    /\ polls'[q] = Idle \/ polls'[q].st = "sent" => NothingGranted(q)'
  BY DEF BatchInv
<1>3. /\ Cardinality(Load(q)) + Promised(q) <= Concurrency
      /\ polls[q] # Idle => polls[q].by = q
      /\ polls[q] = Idle \/ polls[q].st = "sent" => NothingGranted(q)
  BY DEF LInv, BatchInv
<1>4. CASE q = r
  <2>1. NothingGranted(r) /\ InFlight(r) = Cardinality(Load(r)) /\ InFlight(r) \in Nat
    BY <1>1, <1>3, <1>4, RunsItsLoad DEF LInv
  <2>2. polls'[q] = [st |-> "sent", by |-> r, at |-> Clock(r), limit |-> Room(r)]
    BY <1>1, <1>4
  <2>3. Promised(q)' \in {Room(r), 0} /\ polls'[q].by = q
    BY <1>4, <2>2 DEF Promised, Sent
  <2>4. Concurrency \in Nat /\ Room(r) > 0 /\ Room(r) = Concurrency - InFlight(r)
    BY QueueAssumption DEF Room, Poll, QueueAssumption
  <2> QED
    BY <1>2, <1>4, <2>1, <2>3, <2>4
<1>5. CASE q # r
  <2>1. polls'[q] = polls[q]
    BY <1>1, <1>5
  <2>2. Promised(q)' = Promised(q)
    BY <2>1 DEF Promised, Sent
  <2> QED
    BY <1>2, <1>3, <2>1, <2>2
<1> QED
  BY <1>4, <1>5

(* The script of a reserve turns what was promised into rows granted. *)
LEMMA ReserveWithin ==
  ASSUME LInv, NEW r \in Replicas, ExecReserve(r)
  PROVE  BatchInv'
<1> DEFINE c == polls[r]
<1>1. /\ polls[r] # Idle /\ polls[r].st = "sent" /\ Reserve(c, "granted")
      /\ polls' = [polls EXCEPT ![r] = [polls[r] EXCEPT !.st = "answered"]]
  BY DEF ExecReserve
<1>2. c \in Reserves({"sent", "answered"})
      /\ polls \in [Replicas -> Reserves({"sent", "answered"}) \cup {Idle}]
  BY <1>1 DEF LInv, QInv, TypeOK
<1>3. PICK given \in SUBSET Jobs :
        /\ IsFiniteSet(Added(given)) /\ Cardinality(Added(given)) <= c.limit
        /\ \A d \in Rows' : \/ d \in Rows /\ Row(d)' = Row(d)
                            \/ d \in Added(given) /\ Row(d)'.by = c.by /\ Row(d)'.stage = "granted"
  BY <1>1, <1>2, ReserveAdds DEF LInv
<1>4. c.by = r /\ c.limit \in Nat /\ Concurrency \in Nat
  BY <1>1, <1>2, QueueAssumption DEF LInv, BatchInv, Reserves, QueueAssumption
<1> SUFFICES ASSUME NEW q \in Replicas
             PROVE  /\ Cardinality(Load(q)') + Promised(q)' <= Concurrency
                    /\ polls'[q] # Idle => polls'[q].by = q
                    /\ polls'[q] = Idle \/ polls'[q].st = "sent" => NothingGranted(q)'
  BY DEF BatchInv
<1>5. /\ Cardinality(Load(q)) + Promised(q) <= Concurrency
      /\ polls[q] # Idle => polls[q].by = q
      /\ polls[q] = Idle \/ polls[q].st = "sent" => NothingGranted(q)
      /\ IsFiniteSet(Load(q)) /\ Cardinality(Load(q)) \in Nat
  BY LoadFinite DEF LInv, BatchInv
<1>6. CASE q = r
  <2>1. polls'[q] = [polls[r] EXCEPT !.st = "answered"]
    BY <1>1, <1>2, <1>6
  <2>2. polls'[q].st = "answered" /\ polls'[q].by = q /\ polls'[q] # Idle
    BY <1>2, <1>4, <1>6, <2>1 DEF Reserves, Idle
  <2>3. Promised(q)' = 0 /\ Promised(q) = c.limit
    BY <1>1, <1>6, <2>2 DEF Promised, Sent
  <2>4. Load(q)' \in SUBSET (Load(q) \cup Added(given))
    BY <1>3 DEF Load
  <2>5. /\ IsFiniteSet(Load(q) \cup Added(given))
        /\ Cardinality(Load(q) \cup Added(given))
             = Cardinality(Load(q)) + Cardinality(Added(given))
                 - Cardinality(Load(q) \cap Added(given))
        /\ Cardinality(Load(q) \cap Added(given)) \in Nat
        /\ Cardinality(Added(given)) \in Nat
    BY <1>3, <1>5, FS_Union, FS_Intersection, FS_CardinalityType
  <2>6. Cardinality(Load(q)') <= Cardinality(Load(q) \cup Added(given))
        /\ Cardinality(Load(q)') \in Nat /\ Cardinality(Load(q) \cup Added(given)) \in Nat
    BY <2>4, <2>5, FS_Subset, FS_CardinalityType
  <2>7. Cardinality(Load(q)') <= Concurrency
    BY <1>3, <1>4, <1>5, <2>3, <2>5, <2>6
  <2> QED
    BY <2>2, <2>3, <2>6, <2>7
<1>7. CASE q # r
  <2>1. polls'[q] = polls[q]
    BY <1>1, <1>2, <1>7
  <2>2. Promised(q)' = Promised(q) /\ Promised(q) \in Nat
    BY <1>2, <2>1 DEF Promised, Sent, Reserves
  <2>3. Load(q)' \in SUBSET Load(q)
    BY <1>3, <1>4, <1>7 DEF Load
  <2>4. Cardinality(Load(q)') <= Cardinality(Load(q)) /\ Cardinality(Load(q)') \in Nat
    BY <1>5, <2>3, FS_Subset, FS_CardinalityType
  <2>5. NothingGranted(q) => NothingGranted(q)'
    BY <1>3, <1>4, <1>7 DEF NothingGranted, Granted
  <2> QED
    BY <1>4, <1>5, <2>1, <2>2, <2>4, <2>5
<1> QED
  BY <1>6, <1>7

(* A reserve that executes after its replica gave up adds rows nobody runs. *)
LEMMA LateReserveWithin ==
  ASSUME LInv, NEW c \in late, ExecLate(c)
  PROVE  BatchInv'
<1>1. c \in Reserves({"sent", "answered"}) /\ Reserve(c, "over") /\ polls' = polls
  BY DEF ExecLate, LInv, QInv, TypeOK, Reserves
<1>2. PICK given \in SUBSET Jobs :
        \A d \in Rows' : \/ d \in Rows /\ Row(d)' = Row(d)
                         \/ d \in Added(given) /\ Row(d)'.by = c.by /\ Row(d)'.stage = "over"
  BY <1>1, ReserveAdds DEF LInv
<1> SUFFICES ASSUME NEW q \in Replicas
             PROVE  /\ Cardinality(Load(q)') + Promised(q)' <= Concurrency
                    /\ polls'[q] # Idle => polls'[q].by = q
                    /\ polls'[q] = Idle \/ polls'[q].st = "sent" => NothingGranted(q)'
  BY DEF BatchInv
<1>3. /\ Cardinality(Load(q)) + Promised(q) <= Concurrency
      /\ polls[q] # Idle => polls[q].by = q
      /\ polls[q] = Idle \/ polls[q].st = "sent" => NothingGranted(q)
      /\ IsFiniteSet(Load(q)) /\ Cardinality(Load(q)) \in Nat
  BY LoadFinite DEF LInv, BatchInv
<1>4. Promised(q)' = Promised(q) /\ Promised(q) \in Nat /\ Concurrency \in Nat
  BY <1>1, QueueAssumption DEF Promised, Sent, LInv, QInv, TypeOK, Reserves, QueueAssumption
<1>5. Load(q)' \in SUBSET Load(q)
  BY <1>2 DEF Load, Loads, Active
<1>6. Cardinality(Load(q)') <= Cardinality(Load(q)) /\ Cardinality(Load(q)') \in Nat
  BY <1>3, <1>5, FS_Subset, FS_CardinalityType
<1>7. NothingGranted(q) => NothingGranted(q)'
  BY <1>2 DEF NothingGranted, Granted
<1> QED
  BY <1>1, <1>3, <1>4, <1>6, <1>7
-----------------------------------------------------------------------------
LEMMA StepWithin ==
  ASSUME LInv, [Next]_vars
  PROVE  BatchInv'
<1>1. QInv
  BY DEF LInv
<1>2. ASSUME Calm, UNCHANGED polls PROVE BatchInv'
  BY <1>2, CalmKeeps
<1>3. CASE UNCHANGED vars
  BY <1>1, <1>2, <1>3, SameCalm DEF vars
<1>4. CASE Tick
  BY <1>1, <1>2, <1>4, SameCalm DEF Tick
<1>5. ASSUME NEW r \in Replicas, Replica(r)
      PROVE  BatchInv'
  <2>1. CASE Poll(r)
    BY <2>1, PollKeeps
  <2>2. CASE PollFails(r) \/ Dispatch(r) \/ Disconnect(r) \/ Crash(r) \/ Connect(r)
    BY <1>1, <2>2, ReplicaCalm, CalmKeeps
  <2>3. CASE ExecReserve(r)
    BY <2>3, ReserveWithin
  <2>4. ASSUME NEW j \in Jobs, Enqueue(j, r)
        PROVE  BatchInv'
    BY <1>1, <1>2, <2>4, SameCalm DEF Enqueue
  <2> QED
    BY <1>5, <2>1, <2>2, <2>3, <2>4 DEF Replica
<1>6. ASSUME NEW c \in late, ExecLate(c)
      PROVE  BatchInv'
  BY <1>6, LateReserveWithin
<1>7. ASSUME NEW j \in Jobs, NEW t \in Token(j), Runner(j, t) \/ Server(j, t)
      PROVE  BatchInv'
  BY <1>1, <1>2, <1>7, RunnerCalm, ServerCalm
<1> QED
  BY <1>3, <1>4, <1>5, <1>6, <1>7 DEF Next

LEMMA InitWithin == Init => BatchInv
<1> SUFFICES ASSUME Init, NEW r \in Replicas
             PROVE  /\ Cardinality(Load(r)) + Promised(r) <= Concurrency
                    /\ polls[r] = Idle /\ NothingGranted(r)
  BY DEF BatchInv
<1>1. Rows = {}
  BY DEF Init, Rows, Token
<1>2. polls[r] = Idle
  BY DEF Init
<1>3. Cardinality(Load(r)) = 0
  BY <1>1, FS_EmptySet DEF Load
<1>4. Promised(r) = 0 /\ Concurrency \in Nat
  BY <1>2, QueueAssumption DEF Promised, Sent, QueueAssumption
<1> QED
  BY <1>1, <1>2, <1>3, <1>4 DEF NothingGranted

(* However many rows a reserve returns, and whatever becomes of it, no     *)
(* replica of the queue runs more jobs than ProcessOptions.concurrency.    *)
THEOREM QueueWithinConcurrency == Spec => []WithinConcurrency
<1>1. Init => LInv
  BY InitQInv, InitWithin DEF LInv
<1>2. LInv /\ [Next]_vars => LInv'
  BY NextKeeps, StepWithin DEF LInv
<1>3. LInv => WithinConcurrency
  <2> SUFFICES ASSUME LInv, NEW r \in Replicas
               PROVE  InFlight(r) <= Concurrency
    BY DEF WithinConcurrency
  <2>1. InFlight(r) \in Nat /\ InFlight(r) <= Cardinality(Load(r))
        /\ Cardinality(Load(r)) \in Nat
    BY RunsItsLoad, LoadFinite DEF LInv
  <2>2. Promised(r) \in Nat /\ Concurrency \in Nat
    BY QueueAssumption DEF Promised, Sent, LInv, QInv, TypeOK, Reserves, QueueAssumption
  <2>3. Cardinality(Load(r)) + Promised(r) <= Concurrency
    BY DEF LInv, BatchInv
  <2> QED
    BY <2>1, <2>2, <2>3
<1> QED
  BY <1>1, <1>2, <1>3, PTL DEF Spec
=============================================================================
