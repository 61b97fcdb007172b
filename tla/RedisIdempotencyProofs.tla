------------------------ MODULE RedisIdempotencyProofs ------------------------
(***************************************************************************)
(* RedisIdempotency implements IdempotencyContract, for every lease, TTL   *)
(* and number of keys, fingerprints and callers, so that the contract's    *)
(* theorems hold of the Redis scripts and the middleware around them.      *)
(***************************************************************************)
EXTENDS RedisIdempotency, TLAPS

(* Where the middleware stands decides what it last sent and has heard. *)
CallInv ==
  \A c \in Callers :
    /\ pc[c] = "new" <=> op[c] = "none"
    /\ pc[c] = "claiming" => op[c] = "claim"
    /\ pc[c] = "running" => op[c] = "claim" /\ ~inflight[c] /\ reply[c] = "claimed"
    /\ pc[c] = "settling" => op[c] \in {"complete", "release"}
    /\ inflight[c] => reply[c] = "none" /\ op[c] # "none"
    /\ op[c] = "claim" => reply[c] \in ClaimReplies \cup {"none"}
    /\ op[c] \in {"complete", "release"} => reply[c] \in {"none", "settled", "lost"}

(* A record belongs to the request that wrote it, and a lapsed claim is in *)
(* the history.                                                            *)
EntryInv ==
  \A k \in Keys :
    /\ entry[k].s = "p" =>
         /\ req[entry[k].t] = [key |-> k, fp |-> entry[k].f]
         /\ entry[k].l <= now => entry[k].t \in lapsed
    /\ entry[k].s = "c" => req[entry[k].r] = [key |-> k, fp |-> entry[k].f]

Types == /\ now \in Nat
         /\ entry \in [Keys -> Entries]
         /\ req \in [Callers -> Requests]
         /\ pc \in [Callers -> Pcs]
         /\ op \in [Callers -> Ops]
         /\ inflight \in [Callers -> BOOLEAN]
         /\ reply \in [Callers -> Replies]
         /\ body \in [Callers -> Callers \cup {NoBody}]
         /\ lapsed \in SUBSET Callers

RInv == Types /\ CallInv /\ EntryInv

LEMMA InitRInv == Init => RInv
  BY DEF Init, RInv, Types, CallInv, EntryInv, Entries, Absent, Pcs, Ops, Replies

LEMMA MiddlewareRInv ==
  ASSUME RInv, NEW c \in Callers, Middleware(c)
  PROVE  RInv'
<1> USE DEF RInv, Types, Pcs, Ops, Replies, Goto, Send
<1>1. Types'
  BY DEF Middleware, Claim, ClaimAnswered, HandlerEnds, SettleAnswered, CallFails, Crash
<1>2. CallInv'
  <2>1. CASE Claim(c)
    BY <2>1 DEF Claim, CallInv
  <2>2. CASE ClaimAnswered(c)
    BY <2>2 DEF ClaimAnswered, CallInv
  <2>3. CASE HandlerEnds(c)
    BY <2>3 DEF HandlerEnds, CallInv
  <2>4. CASE SettleAnswered(c)
    BY <2>4 DEF SettleAnswered, CallInv
  <2>5. CASE CallFails(c)
    BY <2>5 DEF CallFails, CallInv
  <2>6. CASE Crash(c)
    BY <2>6 DEF Crash, CallInv
  <2>. QED BY <2>1, <2>2, <2>3, <2>4, <2>5, <2>6 DEF Middleware
<1>3. EntryInv'
  BY DEF Middleware, Claim, ClaimAnswered, HandlerEnds, SettleAnswered, CallFails, Crash, EntryInv
<1>. QED BY <1>1, <1>2, <1>3

LEMMA ServerRInv ==
  ASSUME RInv, NEW c \in Callers, Server(c)
  PROVE  RInv'
<1> USE RetentionAssumption DEF RInv
<1>1. CASE ExecClaim(c)
  <2>1. Types'
    BY <1>1 DEF ExecClaim, Execute, ClaimOutcome, Types, Entries, Pending, Replies,
                ClaimReplies, EntryOf, Requests, Absent
  <2>2. CallInv'
    BY <1>1 DEF ExecClaim, Execute, ClaimOutcome, Types, CallInv, ClaimReplies
  <2>3. EntryInv'
    <3>1. req[c] = [key |-> req[c].key, fp |-> req[c].fp]
      BY DEF Types, Requests
    <3>2. ~(now + Lease <= now)
      BY DEF Types
    <3>3. CASE ClaimOutcome(c) = "claimed"
      <4>1. /\ entry' = [entry EXCEPT ![req[c].key] = Pending(c, now + Lease, now + Ttl)]
            /\ UNCHANGED <<now, req, lapsed>>
        BY <1>1, <3>3 DEF ExecClaim, Execute
      <4>2. \A k \in Keys : k # req[c].key => entry'[k] = entry[k]
        BY <4>1 DEF Types
      <4>3. entry'[req[c].key] = Pending(c, now + Lease, now + Ttl)
        BY <4>1 DEF Types, Requests
      <4>. QED
        BY <3>1, <3>2, <4>1, <4>2, <4>3 DEF EntryInv, Pending
    <3>4. CASE ClaimOutcome(c) # "claimed"
      BY <1>1, <3>4 DEF ExecClaim, Execute, EntryInv
    <3>. QED BY <3>3, <3>4
  <2>. QED BY <2>1, <2>2, <2>3
<1>2. CASE ExecComplete(c)
  <2> DEFINE done == Completed(c, EntryOf(c).f, now + Ttl)
  <2>1. Types'
    <3>1. IsHolder(c) => done \in Entries
      BY DEF Types, Entries, Completed, EntryOf, IsHolder, Requests, Absent
    <3>2. entry' \in [Keys -> Entries]
      BY <1>2, <3>1 DEF ExecComplete, Types
    <3>. QED
      BY <1>2, <3>2 DEF ExecComplete, Execute, Types, Replies
  <2>2. CallInv'
    BY <1>2 DEF ExecComplete, Execute, Types, CallInv
  <2>3. EntryInv'
    <3>1. CASE IsHolder(c)
      <4>1. /\ entry' = [entry EXCEPT ![req[c].key] = done]
            /\ UNCHANGED <<now, req, lapsed>>
        BY <1>2, <3>1 DEF ExecComplete, Execute
      <4>2. \A k \in Keys : k # req[c].key => entry'[k] = entry[k]
        BY <4>1 DEF Types
      <4>3. entry'[req[c].key] = done /\ req[c].key \in Keys
        BY <4>1 DEF Types, Requests
      <4>4. req[c] = [key |-> req[c].key, fp |-> EntryOf(c).f]
        BY <3>1, <4>3 DEF EntryInv, IsHolder, EntryOf
      <4>. QED
        BY <4>1, <4>2, <4>3, <4>4 DEF EntryInv, Completed
    <3>2. CASE ~IsHolder(c)
      BY <1>2, <3>2 DEF ExecComplete, Execute, EntryInv
    <3>. QED BY <3>1, <3>2
  <2>. QED BY <2>1, <2>2, <2>3
<1>3. CASE ExecRelease(c)
  <2>1. Types'
    BY <1>3 DEF ExecRelease, Execute, Types, Entries, Replies, Requests, Absent
  <2>2. CallInv'
    BY <1>3 DEF ExecRelease, Execute, Types, CallInv
  <2>3. EntryInv'
    BY <1>3 DEF ExecRelease, Execute, Types, EntryInv, Absent, Requests
  <2>. QED BY <2>1, <2>2, <2>3
<1>4. CASE Lose(c)
  BY <1>4 DEF Lose, Types, CallInv, EntryInv
<1>. QED BY <1>1, <1>2, <1>3, <1>4 DEF Server

LEMMA TickRInv ==
  ASSUME RInv, Tick
  PROVE  RInv'
<1>1. Types'
  BY DEF RInv, Tick, Types, Entries, Absent, Expired
<1>2. CallInv'
  BY DEF RInv, Tick, CallInv
<1>3. EntryInv'
  BY DEF RInv, Tick, Types, EntryInv, Entries, Absent, Expired, IsHolder, EntryOf,
         LeaseLapsed, Requests
<1>. QED BY <1>1, <1>2, <1>3 DEF RInv

(* The inductive invariant the refinement rests on. *)
THEOREM RedisInvariant == Spec => []RInv
<1>1. RInv /\ [Next]_vars => RInv'
  <2> SUFFICES ASSUME RInv, [Next]_vars PROVE RInv'
    OBVIOUS
  <2>1. CASE Next
    BY <2>1, MiddlewareRInv, ServerRInv, TickRInv DEF Next
  <2>2. CASE UNCHANGED vars
    BY <2>2 DEF vars, RInv, Types, CallInv, EntryInv
  <2>. QED BY <2>1, <2>2
<1>. QED BY InitRInv, <1>1, PTL DEF Spec

(* Type correctness, with the bounds of the clock and of the history. *)
THEOREM RedisTypeOK == Spec => []TypeOK
<1> DEFINE Ranges == now \in 0..MaxTime /\ keepUntil \in [Callers -> Nat]
<1>1. Init => Ranges
  BY RetentionAssumption DEF Init
<1>2. RInv /\ Ranges /\ [Next]_vars => Ranges'
  <2> SUFFICES ASSUME RInv, Ranges, [Next]_vars PROVE Ranges'
    OBVIOUS
  <2>1. CASE UNCHANGED vars
    BY <2>1 DEF vars
  <2>2. CASE Tick
    BY <2>2, RetentionAssumption DEF Tick
  <2>3. ASSUME NEW c \in Callers, Middleware(c) \/ Server(c)
        PROVE  Ranges'
    <3>1. /\ now' = now
          /\ keepUntil' = keepUntil \/ keepUntil' = [keepUntil EXCEPT ![c] = now + Ttl]
      BY <2>3 DEF Middleware, Claim, ClaimAnswered, HandlerEnds, SettleAnswered, CallFails,
                  Crash, Server, ExecClaim, ExecComplete, ExecRelease, Lose, Execute, Send, Goto
    <3>2. now + Ttl \in Nat
      BY RetentionAssumption
    <3> QED
      BY <3>1, <3>2
  <2> QED
    BY <2>1, <2>2, <2>3 DEF Next
<1>3. RInv /\ Ranges => TypeOK
  BY DEF RInv, Types, TypeOK
<1> QED
  BY <1>1, <1>2, <1>3, RedisInvariant, PTL DEF Spec

-----------------------------------------------------------------------------
(* The refinement, one lemma per kind of step. *)

(* A step of c leaves the fate of every other caller alone. *)
LEMMA OthersKeepTheirFate ==
  ASSUME RInv, NEW c \in Callers, Middleware(c) \/ Server(c)
  PROVE  /\ \A d \in Callers \ {c} : Fate(d)' = Fate(d)
         /\ PhaseBar' = [PhaseBar EXCEPT ![c] = Fate(c)']
<1>1. \A d \in Callers \ {c} : /\ pc'[d] = pc[d]
                                /\ op'[d] = op[d]
                                /\ inflight'[d] = inflight[d]
                                /\ reply'[d] = reply[d]
  BY DEF Middleware, Claim, ClaimAnswered, HandlerEnds, SettleAnswered, CallFails, Crash,
         Goto, Send, Server, ExecClaim, ExecComplete, ExecRelease, Lose, Execute, RInv, Types
<1>2. \A d \in Callers \ {c} : Fate(d)' = Fate(d)
  BY <1>1 DEF Fate, ClaimFate, SettleFate, Unanswered
<1>. QED BY <1>2 DEF PhaseBar

(* The middleware's own steps are invisible, but for giving up on a call:  *)
(* a refusal or an abandonment.                                            *)
LEMMA MiddlewareSimulated ==
  ASSUME RInv, NEW c \in Callers, Middleware(c)
  PROVE  [Contract!Next]_(Contract!vars)
<1> USE DEF RInv, Types
<1>1. UNCHANGED <<req, CellBar, body, lapsed>>
  BY DEF Middleware, Claim, ClaimAnswered, HandlerEnds, SettleAnswered, CallFails, Crash, CellBar
<1>2. PhaseBar' = [PhaseBar EXCEPT ![c] = Fate(c)'] /\ PhaseBar[c] = Fate(c)
  BY OthersKeepTheirFate DEF PhaseBar
<1>3. \/ Fate(c)' = Fate(c)
      \/ Fate(c) = "new" /\ Fate(c)' = "refused"
      \/ Fate(c) = "running" /\ Fate(c)' = "gone"
  <2>1. CASE Claim(c)
    BY <2>1 DEF Claim, Goto, Send, CallInv, Fate, ClaimFate, Unanswered
  <2>2. CASE ClaimAnswered(c)
    BY <2>2 DEF ClaimAnswered, Goto, CallInv, Fate, ClaimFate, Unanswered, ClaimReplies
  <2>3. CASE HandlerEnds(c)
    BY <2>3 DEF HandlerEnds, Goto, Send, CallInv, Fate, ClaimFate, SettleFate, Unanswered
  <2>4. CASE SettleAnswered(c)
    BY <2>4 DEF SettleAnswered, Goto, CallInv, Fate, SettleFate, Unanswered
  <2>5. CASE CallFails(c)
    BY <2>5 DEF CallFails, Goto, CallInv, Fate, ClaimFate, SettleFate, Unanswered, ClaimReplies
  <2>6. CASE Crash(c)
    BY <2>6 DEF Crash, Goto, CallInv, Fate, ClaimFate, SettleFate, Unanswered, ClaimReplies
  <2>. QED BY <2>1, <2>2, <2>3, <2>4, <2>5, <2>6 DEF Middleware
<1>4. CASE Fate(c)' = Fate(c)
  <2>1. PhaseBar' = PhaseBar
    BY <1>2, <1>4 DEF PhaseBar
  <2>. QED BY <1>1, <2>1 DEF Contract!vars
<1>5. CASE Fate(c) = "new" /\ Fate(c)' = "refused"
  BY <1>1, <1>2, <1>5 DEF Contract!Next, Contract!Refuse
<1>6. CASE Fate(c) = "running" /\ Fate(c)' = "gone"
  BY <1>1, <1>2, <1>6 DEF Contract!Next, Contract!Abandon
<1>. QED BY <1>3, <1>4, <1>5, <1>6

(* The abstract cell of a key, by the state of its record. *)
LEMMA CellBarAt ==
  ASSUME NEW k \in Keys
  PROVE  /\ entry[k].s = "p" => /\ CellBar[k].st = "held"
                                /\ CellBar[k].by = entry[k].t
                                /\ CellBar[k].stale = (entry[k].l <= now)
         /\ entry[k].s = "c" => CellBar[k].st = "done" /\ CellBar[k].by = entry[k].r
         /\ entry[k].s \notin {"p", "c"} => CellBar[k] = [st |-> "free"] /\ CellBar[k].st = "free"
<1>1. CellBar[k] = CASE entry[k].s = "p" -> [st |-> "held", by |-> entry[k].t, stale |-> entry[k].l <= now]
                     [] entry[k].s = "c" -> [st |-> "done", by |-> entry[k].r]
                     [] OTHER -> [st |-> "free"]
  BY DEF CellBar
<1>. QED BY <1>1

(* Writing one record changes one cell. *)
LEMMA CellBarWrite ==
  ASSUME Types, NEW k \in Keys, NEW e, NEW x,
         entry' = [entry EXCEPT ![k] = e], now' = now,
         CellBar'[k] = x
  PROVE  CellBar' = [CellBar EXCEPT ![k] = x]
  BY DEF CellBar, Types

(* What the server executes is what the contract's actions do. *)
LEMMA ServerSimulated ==
  ASSUME RInv, NEW c \in Callers, Server(c)
  PROVE  [Contract!Next]_(Contract!vars)
<1> USE RetentionAssumption DEF RInv, Types
<1> DEFINE k == req[c].key
<1>1. k \in Keys /\ req[c] = [key |-> k, fp |-> req[c].fp]
  BY DEF Requests
<1>2. PhaseBar' = [PhaseBar EXCEPT ![c] = Fate(c)'] /\ PhaseBar[c] = Fate(c)
  BY OthersKeepTheirFate DEF PhaseBar
<1>3. IsHolder(c) <=> Contract!Holds(c)
  BY <1>1, CellBarAt DEF IsHolder, EntryOf, Contract!Holds, Contract!CellOf
<1>4. CASE ExecClaim(c)
  <2>1. Fate(c) = "new"
    BY <1>4 DEF ExecClaim, Execute, Fate, ClaimFate, Unanswered
  <2>2. op'[c] = "claim" /\ ~inflight'[c] /\ reply'[c] = ClaimOutcome(c)
        /\ UNCHANGED <<now, req, pc, lapsed>>
    BY <1>4 DEF ExecClaim, Execute
  <2>3. CASE ClaimOutcome(c) = "claimed"
    <3>1. Fate(c)' \in {"running", "gone"}
      BY <2>2, <2>3 DEF Fate, ClaimFate, Unanswered
    <3>2. CellBar' = [CellBar EXCEPT ![k] = Contract!Held(c)]
      <4>1. ~(now + Lease <= now)
        OBVIOUS
      <4>2. entry' = [entry EXCEPT ![k] = Pending(c, now + Lease, now + Ttl)]
        BY <1>4, <2>3 DEF ExecClaim
      <4>3. CellBar'[k] = Contract!Held(c)
        <5>1. entry'[k] = Pending(c, now + Lease, now + Ttl) /\ now' = now
          BY <1>1, <2>2, <4>2
        <5>2. entry'[k].s = "p" /\ entry'[k].t = c /\ entry'[k].l = now + Lease
          BY <5>1 DEF Pending
        <5>3. CellBar'[k] = [st |-> "held", by |-> c, stale |-> (now + Lease <= now)]
          BY <1>1, <5>1, <5>2 DEF CellBar
        <5>4. (now + Lease <= now) = FALSE
          BY <4>1
        <5>. QED
          BY <5>3, <5>4 DEF Contract!Held
      <4>. QED
        BY <1>1, <2>2, <4>2, <4>3, CellBarWrite
    <3>3. \/ CellBar[k] = [st |-> "free"]
          \/ CellBar[k].st = "held" /\ CellBar[k].stale /\ req[CellBar[k].by] = req[c]
      <4>1. \/ entry[k] = Absent
            \/ entry[k].s = "p" /\ entry[k].f = req[c].fp /\ ~(entry[k].l > now)
        BY <1>1, <2>3 DEF ClaimOutcome, EntryOf, Entries, Absent
      <4>2. CASE entry[k] = Absent
        BY <1>1, <4>2, CellBarAt DEF Absent
      <4>3. CASE entry[k].s = "p" /\ entry[k].f = req[c].fp /\ ~(entry[k].l > now)
        <5>1. req[entry[k].t] = req[c]
          BY <1>1, <4>3 DEF EntryInv
        <5>2. entry[k].l <= now
          BY <1>1, <4>3 DEF Entries, Absent
        <5>. QED
          BY <1>1, <4>3, <5>1, <5>2, CellBarAt
      <4>. QED BY <4>1, <4>2, <4>3
    <3>4. UNCHANGED <<req, body, lapsed>>
      BY <1>4, <2>2, <2>3 DEF ExecClaim
    <3>. QED
      BY <1>2, <2>1, <3>1, <3>2, <3>3, <3>4
         DEF Contract!Next, Contract!Grant, Contract!CellOf, Contract!Free
  <2>4. CASE ClaimOutcome(c) = "completed"
    <3>1. Fate(c)' = "replayed" /\ UNCHANGED entry
      BY <1>4, <2>2, <2>4 DEF ExecClaim, Fate, ClaimFate, Unanswered
    <3>2. CellBar[k].st = "done" /\ CellBar[k].by = EntryOf(c).r /\ req[CellBar[k].by] = req[c]
      BY <1>1, <2>4, CellBarAt DEF ClaimOutcome, EntryOf, EntryInv
    <3>3. body' = [body EXCEPT ![c] = CellBar[k].by] /\ UNCHANGED CellBar
      BY <1>4, <2>2, <2>4, <3>1, <3>2 DEF ExecClaim, CellBar
    <3>. QED
      BY <1>2, <2>1, <2>2, <3>1, <3>2, <3>3
         DEF Contract!Next, Contract!Replay, Contract!CellOf
  <2>5. CASE ClaimOutcome(c) \notin {"claimed", "completed"}
    <3>1. Fate(c)' = "refused" /\ UNCHANGED <<entry, body>>
      BY <1>4, <2>2, <2>5 DEF ExecClaim, Fate, ClaimFate, Unanswered, ClaimOutcome
    <3>. QED
      BY <1>2, <2>1, <2>2, <3>1 DEF Contract!Next, Contract!Refuse, CellBar
  <2>. QED BY <2>3, <2>4, <2>5
<1>5. CASE ExecComplete(c)
  <2>1. Fate(c) = "running" /\ UNCHANGED <<now, req, pc, body, lapsed>>
    BY <1>5 DEF ExecComplete, Execute, Fate, SettleFate, Unanswered
  <2>2. CASE IsHolder(c)
    <3>1. Fate(c)' = "completed"
      BY <1>5, <2>2 DEF ExecComplete, Execute, Fate, SettleFate, Unanswered
    <3>2. CellBar' = [CellBar EXCEPT ![k] = Contract!Done(c)]
      <4>1. entry' = [entry EXCEPT ![k] = Completed(c, EntryOf(c).f, now + Ttl)]
        BY <1>5, <2>2 DEF ExecComplete
      <4>2. CellBar'[k] = Contract!Done(c)
        BY <1>1, <2>1, <4>1 DEF CellBar, Completed, Contract!Done
      <4>. QED
        BY <1>1, <2>1, <4>1, <4>2, CellBarWrite
    <3>. QED
      BY <1>2, <1>3, <2>1, <2>2, <3>1, <3>2
         DEF Contract!Next, Contract!Complete, Contract!Settle
  <2>3. CASE ~IsHolder(c)
    <3>1. Fate(c)' = "lost" /\ UNCHANGED entry
      BY <1>5, <2>3 DEF ExecComplete, Execute, Fate, SettleFate, Unanswered
    <3>. QED
      BY <1>2, <1>3, <2>1, <2>3, <3>1
         DEF Contract!Next, Contract!Complete, Contract!Settle, CellBar
  <2>. QED BY <2>2, <2>3
<1>6. CASE ExecRelease(c)
  <2>1. Fate(c) = "running" /\ UNCHANGED <<now, req, pc, body, lapsed>>
    BY <1>6 DEF ExecRelease, Execute, Fate, SettleFate, Unanswered
  <2>2. CASE IsHolder(c)
    <3>1. Fate(c)' = "released"
      BY <1>6, <2>2 DEF ExecRelease, Execute, Fate, SettleFate, Unanswered
    <3>2. CellBar' = [CellBar EXCEPT ![k] = Contract!Free]
      <4>1. entry' = [entry EXCEPT ![k] = Absent]
        BY <1>6, <2>2 DEF ExecRelease
      <4>2. CellBar'[k] = Contract!Free
        BY <1>1, <2>1, <4>1 DEF CellBar, Absent, Contract!Free
      <4>. QED
        BY <1>1, <2>1, <4>1, <4>2, CellBarWrite
    <3>. QED
      BY <1>2, <1>3, <2>1, <2>2, <3>1, <3>2
         DEF Contract!Next, Contract!Release, Contract!Settle
  <2>3. CASE ~IsHolder(c)
    <3>1. Fate(c)' = "lost" /\ UNCHANGED entry
      BY <1>6, <2>3 DEF ExecRelease, Execute, Fate, SettleFate, Unanswered
    <3>. QED
      BY <1>2, <1>3, <2>1, <2>3, <3>1
         DEF Contract!Next, Contract!Release, Contract!Settle, CellBar
  <2>. QED BY <2>2, <2>3
<1>7. CASE Lose(c)
  <2>1. UNCHANGED <<req, CellBar, body, lapsed>>
    BY <1>7 DEF Lose, CellBar
  <2>2. \/ Fate(c)' = Fate(c)
        \/ Fate(c) = "new" /\ Fate(c)' = "refused"
        \/ Fate(c) = "running" /\ Fate(c)' = "gone"
    BY <1>7 DEF Lose, CallInv, Fate, ClaimFate, SettleFate, Unanswered, Ops
  <2>3. CASE Fate(c)' = Fate(c)
    BY <1>2, <2>1, <2>3 DEF Contract!vars, PhaseBar
  <2>4. CASE Fate(c) = "new" /\ Fate(c)' = "refused"
    BY <1>2, <2>1, <2>4 DEF Contract!Next, Contract!Refuse
  <2>5. CASE Fate(c) = "running" /\ Fate(c)' = "gone"
    BY <1>2, <2>1, <2>5 DEF Contract!Next, Contract!Abandon
  <2>. QED BY <2>2, <2>3, <2>4, <2>5
<1>. QED BY <1>4, <1>5, <1>6, <1>7 DEF Server

(* Time passing is the contract's Age. *)
LEMMA TickSimulated ==
  ASSUME RInv, Tick
  PROVE  [Contract!Next]_(Contract!vars)
<1> USE DEF RInv, Types
<1>1. UNCHANGED <<req, PhaseBar, body>>
  BY DEF Tick, PhaseBar, Fate, ClaimFate, SettleFate, Unanswered
<1>2. now' = now + 1
  BY DEF Tick
<1>3. \A k \in Keys : CellBar'[k] \in Contract!Aged(CellBar[k])
  <2> SUFFICES ASSUME NEW k \in Keys PROVE CellBar'[k] \in Contract!Aged(CellBar[k])
    OBVIOUS
  <2>1. CASE Expired(entry[k], now + 1)
    <3>1. entry'[k] = Absent
      BY <2>1 DEF Tick
    <3>2. CellBar'[k] = [st |-> "free"]
      BY <3>1 DEF CellBar, Absent
    <3>. QED BY <3>2 DEF Contract!Aged, Contract!Free
  <2>2. CASE ~Expired(entry[k], now + 1) /\ entry[k].s = "p"
    <3>1. entry'[k] = entry[k]
      BY <2>2 DEF Tick
    <3>2. CellBar[k] = [st |-> "held", by |-> entry[k].t, stale |-> entry[k].l <= now]
      BY <2>2 DEF CellBar
    <3>3. CellBar'[k] = [st |-> "held", by |-> entry[k].t, stale |-> entry[k].l <= now + 1]
      BY <1>2, <2>2, <3>1 DEF CellBar
    <3>5. CellBar[k].st = "held"
      BY <3>2
    <3>4. CellBar'[k] = CellBar[k] \/ CellBar'[k] = Contract!Stale(CellBar[k])
      <4>1. entry[k].l \in Nat
        BY <2>2 DEF Entries, Absent
      <4>2. CASE entry[k].l <= now + 1
        <5>1. (entry[k].l <= now + 1) = TRUE
          BY <4>2
        <5>2. CellBar'[k] = [st |-> "held", by |-> entry[k].t, stale |-> TRUE]
          BY <3>3, <5>1
        <5>3. Contract!Stale(CellBar[k]) = [st |-> "held", by |-> entry[k].t, stale |-> TRUE]
          BY <3>2 DEF Contract!Stale
        <5>. QED BY <5>2, <5>3
      <4>3. CASE ~(entry[k].l <= now + 1)
        <5>1. (entry[k].l <= now + 1) = (entry[k].l <= now)
          BY <4>1, <4>3
        <5>. QED BY <3>2, <3>3, <5>1
      <4>. QED BY <4>2, <4>3
    <3>. QED BY <3>4, <3>5 DEF Contract!Aged
  <2>3. CASE ~Expired(entry[k], now + 1) /\ entry[k].s # "p"
    <3>1. entry'[k] = entry[k]
      BY <2>3 DEF Tick
    <3>2. CellBar'[k] = CellBar[k]
      BY <2>3, <3>1 DEF CellBar
    <3>. QED BY <3>2 DEF Contract!Aged
  <2>. QED BY <2>1, <2>2, <2>3
<1>4. CellBar' \in [Keys -> Contract!Cells]
  <2>1. \A k \in Keys : CellBar'[k] \in Contract!Cells
    <3> SUFFICES ASSUME NEW k \in Keys PROVE CellBar'[k] \in Contract!Cells
      OBVIOUS
    <3>1. entry'[k] \in Entries
      BY TickRInv
    <3>2. CASE entry'[k].s = "p"
      <4>1. CellBar'[k] = [st |-> "held", by |-> entry'[k].t, stale |-> entry'[k].l <= now']
        BY <3>2 DEF CellBar
      <4>2. entry'[k].t \in Callers /\ (entry'[k].l <= now') \in BOOLEAN
        BY <3>1, <3>2 DEF Entries, Absent
      <4>. QED BY <4>1, <4>2 DEF Contract!Cells
    <3>3. CASE entry'[k].s = "c"
      <4>1. CellBar'[k] = [st |-> "done", by |-> entry'[k].r]
        BY <3>3 DEF CellBar
      <4>2. entry'[k].r \in Callers
        BY <3>1, <3>3 DEF Entries, Absent
      <4>. QED BY <4>1, <4>2 DEF Contract!Cells
    <3>4. CASE entry'[k].s \notin {"p", "c"}
      BY <3>4 DEF CellBar, Contract!Cells, Contract!Free
    <3>. QED BY <3>2, <3>3, <3>4
  <2>2. CellBar' = [k \in Keys |-> CellBar'[k]]
    BY DEF CellBar
  <2>. QED BY <2>1, <2>2
<1>5. ASSUME NEW c \in Callers
      PROVE  IsHolder(c) <=> Contract!Holds(c)
  BY CellBarAt DEF IsHolder, EntryOf, Contract!Holds, Contract!CellOf, Requests
<1>6. ASSUME NEW c \in Callers, IsHolder(c)
      PROVE  /\ CellBar'[req[c].key] # CellBar[req[c].key] => LeaseLapsed(EntryOf(c), now + 1)
             /\ LeaseLapsed(EntryOf(c), now + 1) =>
                  c \in lapsed \/ CellBar'[req[c].key] # CellBar[req[c].key]
  <2> DEFINE k == req[c].key
  <2>1. k \in Keys /\ entry[k].s = "p" /\ entry[k].t = c /\ entry[k].l \in Nat /\ entry[k].px \in Nat
    BY <1>6 DEF IsHolder, EntryOf, Requests, Entries, Absent
  <2>2. CellBar[k] = [st |-> "held", by |-> c, stale |-> entry[k].l <= now]
    BY <2>1 DEF CellBar
  <2>3. CASE Expired(entry[k], now + 1)
    <3>1. entry'[k] = Absent
      BY <2>1, <2>3 DEF Tick
    <3>2. CellBar'[k].st = "free" /\ CellBar[k].st = "held"
      BY <2>1, <2>2, <3>1 DEF CellBar, Absent
    <3>. QED BY <2>1, <2>3, <3>2 DEF LeaseLapsed, Expired, EntryOf
  <2>4. CASE ~Expired(entry[k], now + 1)
    <3>1. entry'[k] = entry[k] /\ ~(entry[k].px <= now + 1)
      BY <2>1, <2>4 DEF Tick, Expired, Absent
    <3>2. CellBar'[k] = [st |-> "held", by |-> c, stale |-> entry[k].l <= now + 1]
      BY <1>2, <2>1, <3>1 DEF CellBar
    <3>3. LeaseLapsed(EntryOf(c), now + 1) <=> entry[k].l <= now + 1
      BY <2>1, <3>1 DEF LeaseLapsed, EntryOf
    <3>4. CASE entry[k].l <= now
      <4>1. c \in lapsed
        BY <2>1, <3>4 DEF EntryInv
      <4>2. entry[k].l <= now + 1
        BY <2>1, <3>4
      <4>. QED BY <3>3, <4>1, <4>2
    <3>5. CASE ~(entry[k].l <= now) /\ entry[k].l <= now + 1
      BY <2>2, <3>2, <3>3, <3>5
    <3>6. CASE ~(entry[k].l <= now + 1)
      <4>1. ~(entry[k].l <= now)
        BY <2>1, <3>6
      <4>. QED BY <2>2, <3>2, <3>3, <3>6, <4>1
    <3>. QED BY <3>4, <3>5, <3>6
  <2>. QED BY <2>3, <2>4
<1>7. lapsed' = lapsed \cup {c \in Callers : Contract!Holds(c)
                                          /\ CellBar'[req[c].key] # Contract!CellOf(c)}
  BY <1>5, <1>6 DEF Tick, Contract!CellOf
<1>. QED
  BY <1>1, <1>3, <1>4, <1>7 DEF Contract!Next, Contract!Age

(* The middleware over Redis implements the store contract. *)
THEOREM RedisImplements == Spec => Implements
<1>1. Init => Contract!Init
  BY DEF Init, Contract!Init, CellBar, PhaseBar, Fate, Absent, NoBody, Requests,
         Contract!Requests, Contract!Free, Contract!NoSource
<1>2. RInv /\ [Next]_vars => [Contract!Next]_(Contract!vars)
  <2> SUFFICES ASSUME RInv, [Next]_vars PROVE [Contract!Next]_(Contract!vars)
    OBVIOUS
  <2>1. CASE Next
    BY <2>1, MiddlewareSimulated, ServerSimulated, TickSimulated DEF Next
  <2>2. CASE UNCHANGED vars
    BY <2>2 DEF vars, Contract!vars, CellBar, PhaseBar, Fate, ClaimFate, SettleFate, Unanswered
  <2>. QED BY <2>1, <2>2
<1>. QED
  BY <1>1, <1>2, RedisInvariant, PTL DEF Spec, Implements, Contract!Spec

-----------------------------------------------------------------------------
(* The contract's own theorems, which the refinement carries over. *)

(* A held cell belongs to a caller of that key that has not settled, and a *)
(* stale hold is on record as lapsed.                                      *)
ContractHeldInv ==
  \A k \in Keys : CellBar[k].st = "held" =>
    /\ req[CellBar[k].by].key = k
    /\ PhaseBar[CellBar[k].by] \in {"running", "gone"}
    /\ CellBar[k].stale => CellBar[k].by \in lapsed

(* A done cell holds the record of a caller that completed that key. *)
ContractDoneInv ==
  \A k \in Keys : CellBar[k].st = "done" =>
    req[CellBar[k].by].key = k /\ PhaseBar[CellBar[k].by] = "completed"

(* A caller loses its hold while it runs only by outliving its lease. *)
ContractRunningInv ==
  \A c \in Callers : PhaseBar[c] = "running" => Contract!Holds(c) \/ c \in lapsed

ContractInv == /\ Contract!TypeOK /\ ContractHeldInv /\ ContractDoneInv /\ ContractRunningInv
               /\ Contract!ReplayFaithful

LEMMA StartKeeps == Contract!Init => ContractInv
  BY DEF Contract!Init, ContractInv, Contract!TypeOK, ContractHeldInv, ContractDoneInv,
           ContractRunningInv, Contract!ReplayFaithful, Contract!Requests, Contract!Cells,
           Contract!Free, Contract!Phases

LEMMA GrantKeeps ==
  ASSUME ContractInv, NEW c \in Callers, Contract!Grant(c)
  PROVE  ContractInv'
<1>1. Contract!TypeOK'
  BY DEF Contract!Grant, ContractInv, Contract!TypeOK, Contract!Requests, Contract!Cells,
           Contract!Held, Contract!Phases, Contract!CellOf, Contract!Free
<1>2. ContractHeldInv'
  BY DEF Contract!Grant, ContractInv, Contract!TypeOK, ContractHeldInv, Contract!Requests,
           Contract!Held, Contract!CellOf
<1>3. ContractDoneInv'
  BY DEF Contract!Grant, ContractInv, Contract!TypeOK, ContractDoneInv, Contract!Requests,
           Contract!Held, Contract!CellOf
<1>4. ContractRunningInv'
  <2> SUFFICES ASSUME NEW d \in Callers, PhaseBar'[d] = "running", d \notin lapsed'
               PROVE  Contract!Holds(d)'
    BY DEF ContractRunningInv
  <2>1. CASE d = c
    BY <2>1 DEF Contract!Grant, ContractInv, Contract!TypeOK, Contract!Holds, Contract!CellOf,
             Contract!Held, Contract!Requests
  <2>2. CASE d # c
    <3>1. PhaseBar[d] = "running" /\ d \notin lapsed
      BY <2>2 DEF Contract!Grant, ContractInv, Contract!TypeOK
    <3>2. Contract!Holds(d)
      BY <3>1 DEF ContractInv, ContractRunningInv
    <3>3. req[d].key # req[c].key
      BY <3>1, <3>2 DEF Contract!Grant, ContractInv, ContractHeldInv, Contract!TypeOK,
               Contract!Holds, Contract!CellOf, Contract!Free, Contract!Requests
    <3>. QED
      BY <3>2, <3>3 DEF Contract!Grant, ContractInv, Contract!TypeOK, Contract!Holds,
               Contract!CellOf, Contract!Requests
  <2>. QED BY <2>1, <2>2
<1>5. Contract!ReplayFaithful'
  BY DEF Contract!Grant, ContractInv, Contract!TypeOK, Contract!ReplayFaithful, Contract!Phases
<1>. QED BY <1>1, <1>2, <1>3, <1>4, <1>5 DEF ContractInv

LEMMA ReplayKeeps ==
  ASSUME ContractInv, NEW c \in Callers, Contract!Replay(c)
  PROVE  ContractInv'
<1>1. /\ Contract!TypeOK' /\ Contract!CellOf(c).by \in Callers
      /\ PhaseBar[Contract!CellOf(c).by] = "completed"
  BY DEF Contract!Replay, ContractInv, Contract!TypeOK, ContractDoneInv, Contract!Requests,
           Contract!Cells, Contract!Free, Contract!Phases, Contract!CellOf
<1>2. ContractHeldInv' /\ ContractDoneInv'
  BY DEF Contract!Replay, ContractInv, Contract!TypeOK, ContractHeldInv, ContractDoneInv
<1>3. ContractRunningInv'
  BY DEF Contract!Replay, ContractInv, Contract!TypeOK, ContractRunningInv, Contract!Holds,
           Contract!CellOf
<1>4. Contract!ReplayFaithful'
  BY <1>1 DEF Contract!Replay, ContractInv, Contract!TypeOK, Contract!ReplayFaithful
<1>. QED BY <1>1, <1>2, <1>3, <1>4 DEF ContractInv

LEMMA SettleKeeps ==
  ASSUME ContractInv, NEW c \in Callers, Contract!Complete(c) \/ Contract!Release(c)
  PROVE  ContractInv'
<1> PICK to \in {Contract!Done(c), Contract!Free}, fate \in {"completed", "released"} :
      /\ Contract!Settle(c, to, fate)
      /\ to = Contract!Done(c) <=> fate = "completed"
  BY DEF Contract!Complete, Contract!Release, Contract!Done, Contract!Free
<1>1. Contract!TypeOK'
  BY DEF Contract!Settle, ContractInv, Contract!TypeOK, Contract!Cells, Contract!Phases,
           Contract!Done, Contract!Free
<1>2. ContractHeldInv'
  BY DEF Contract!Settle, ContractInv, Contract!TypeOK, ContractHeldInv, Contract!Holds,
           Contract!CellOf, Contract!Done, Contract!Free, Contract!Cells
<1>3. ContractDoneInv'
  BY DEF Contract!Settle, ContractInv, Contract!TypeOK, ContractDoneInv, Contract!Holds,
           Contract!CellOf, Contract!Done, Contract!Free, Contract!Cells
<1>4. ContractRunningInv'
  <2> SUFFICES ASSUME NEW d \in Callers, PhaseBar'[d] = "running", d \notin lapsed'
               PROVE  Contract!Holds(d)'
    BY DEF ContractRunningInv
  <2>1. d # c /\ Contract!Holds(d)
    BY DEF Contract!Settle, ContractInv, Contract!TypeOK, ContractRunningInv
  <2>2. Contract!Holds(c) => req[d].key # req[c].key
    BY <2>1 DEF Contract!Holds, Contract!CellOf
  <2>. QED
    BY <2>1, <2>2 DEF Contract!Settle, ContractInv, Contract!TypeOK, Contract!Holds,
             Contract!CellOf, Contract!Requests
<1>5. Contract!ReplayFaithful'
  BY DEF Contract!Settle, ContractInv, Contract!TypeOK, Contract!ReplayFaithful
<1>. QED BY <1>1, <1>2, <1>3, <1>4, <1>5 DEF ContractInv

(* Refusal and abandonment touch only the caller's own phase. *)
LEMMA PhaseKeeps ==
  ASSUME ContractInv, NEW c \in Callers, Contract!Refuse(c) \/ Contract!Abandon(c)
  PROVE  ContractInv'
<1>1. Contract!TypeOK'
  BY DEF Contract!Refuse, Contract!Abandon, ContractInv, Contract!TypeOK, Contract!Phases
<1>2. ContractHeldInv'
  BY DEF Contract!Refuse, Contract!Abandon, ContractInv, Contract!TypeOK, ContractHeldInv,
           Contract!Cells, Contract!Free
<1>3. ContractDoneInv'
  BY DEF Contract!Refuse, Contract!Abandon, ContractInv, Contract!TypeOK, ContractDoneInv,
           Contract!Cells, Contract!Free
<1>4. ContractRunningInv'
  BY DEF Contract!Refuse, Contract!Abandon, ContractInv, Contract!TypeOK, ContractRunningInv,
           Contract!Holds, Contract!CellOf
<1>5. Contract!ReplayFaithful'
  BY DEF Contract!Refuse, Contract!Abandon, ContractInv, Contract!TypeOK,
           Contract!ReplayFaithful
<1>. QED BY <1>1, <1>2, <1>3, <1>4, <1>5 DEF ContractInv

LEMMA AgeKeeps ==
  ASSUME ContractInv, Contract!Age
  PROVE  ContractInv'
<1>1. Contract!TypeOK'
  BY DEF Contract!Age, ContractInv, Contract!TypeOK
<1>2. \A k \in Keys : \/ CellBar'[k] = CellBar[k]
                      \/ CellBar'[k] = Contract!Free
                      \/ CellBar[k].st = "held" /\ CellBar'[k] = Contract!Stale(CellBar[k])
  BY DEF Contract!Age, Contract!Aged
<1>3. \A k \in Keys :
        CellBar[k].st = "held" /\ CellBar'[k] # CellBar[k] => CellBar[k].by \in lapsed'
  BY DEF Contract!Age, ContractInv, Contract!TypeOK, ContractHeldInv, Contract!Holds,
           Contract!CellOf, Contract!Cells, Contract!Free
<1>4. ContractHeldInv'
  BY <1>2, <1>3 DEF Contract!Age, ContractInv, Contract!TypeOK, ContractHeldInv, Contract!Cells,
           Contract!Free, Contract!Stale
<1>5. ContractDoneInv'
  BY <1>2 DEF Contract!Age, ContractInv, Contract!TypeOK, ContractDoneInv, Contract!Cells,
           Contract!Free, Contract!Stale
<1>6. ContractRunningInv'
  BY <1>1 DEF Contract!Age, ContractInv, Contract!TypeOK, ContractRunningInv, Contract!Holds,
           Contract!CellOf, Contract!Requests
<1>7. Contract!ReplayFaithful'
  BY DEF Contract!Age, ContractInv, Contract!ReplayFaithful
<1>. QED BY <1>1, <1>4, <1>5, <1>6, <1>7 DEF ContractInv

(* The inductive invariant of the contract. *)
THEOREM ContractInvariant == Contract!Spec => []ContractInv
<1>1. ContractInv /\ [Contract!Next]_(Contract!vars) => ContractInv'
  <2> SUFFICES ASSUME ContractInv, [Contract!Next]_(Contract!vars) PROVE ContractInv'
    OBVIOUS
  <2>1. CASE Contract!Next
    BY <2>1, GrantKeeps, ReplayKeeps, SettleKeeps, PhaseKeeps, AgeKeeps DEF Contract!Next
  <2>2. CASE UNCHANGED Contract!vars
    BY <2>2 DEF Contract!vars, ContractInv, Contract!TypeOK, ContractHeldInv, ContractDoneInv,
             ContractRunningInv, Contract!ReplayFaithful, Contract!Holds, Contract!CellOf
  <2>. QED BY <2>1, <2>2
<1>. QED BY StartKeeps, <1>1, PTL DEF Contract!Spec

(* A replay always answers with the completed record of the same request. *)
THEOREM ContractReplayFaithful == Contract!Spec => []Contract!ReplayFaithful
<1>1. ContractInv => Contract!ReplayFaithful
  BY DEF ContractInv
<1>. QED BY ContractInvariant, <1>1, PTL

(* Overlapping handlers of one key imply a lapsed lease. *)
THEOREM ContractExclusion == Contract!Spec => []Contract!Exclusion
<1>1. ContractInv => Contract!Exclusion
  BY DEF ContractInv, Contract!TypeOK, ContractRunningInv, Contract!Exclusion, Contract!Holds,
           Contract!CellOf, Contract!Requests
<1>. QED BY ContractInvariant, <1>1, PTL

(* No replayed HTTP response is another request's, or a superseded run's. *)
THEOREM RedisReplayFaithful == Spec => []ReplayFaithful
<1>. QED BY RedisImplements, ContractReplayFaithful, PTL DEF Implements, ReplayFaithful

(* Two handlers of one key overlap only after a lease lapsed. *)
THEOREM RedisExclusion == Spec => []Exclusion
<1>. QED BY RedisImplements, ContractExclusion, PTL DEF Implements, Exclusion
-----------------------------------------------------------------------------
(* Retention: while keepUntil of a completion is ahead, the key holds that *)
(* completed record, so no claim of the key can be granted.                *)
KeptInv ==
  /\ keepUntil \in [Callers -> Nat]
  /\ \A d \in Callers : keepUntil[d] > now =>
       entry[req[d].key].s = "c" /\ entry[req[d].key].px = keepUntil[d]

LEMMA ServerKept ==
  ASSUME RInv, KeptInv, NEW c \in Callers, Server(c)
  PROVE  KeptInv'
<1> USE RetentionAssumption DEF RInv, Types, KeptInv, Requests
<1>1. CASE ExecClaim(c)
  <2>1. ClaimOutcome(c) = "claimed" => entry[req[c].key].s # "c"
    BY DEF ClaimOutcome, EntryOf, Absent
  <2>. QED BY <1>1, <2>1 DEF ExecClaim, Execute
<1>2. CASE ExecComplete(c)
  <2>1. CASE IsHolder(c)
    <3>1. /\ entry' = [entry EXCEPT ![req[c].key] = Completed(c, EntryOf(c).f, now + Ttl)]
          /\ keepUntil' = [keepUntil EXCEPT ![c] = now + Ttl]
          /\ UNCHANGED <<now, req>>
          /\ entry[req[c].key].s = "p"
      BY <1>2, <2>1 DEF ExecComplete, Execute, IsHolder, EntryOf
    <3>2. entry'[req[c].key].s = "c" /\ entry'[req[c].key].px = now + Ttl
      BY <3>1 DEF Completed
    <3>3. \A d \in Callers \ {c} : keepUntil[d] > now => req[d].key # req[c].key
      BY <3>1
    <3>. QED BY <3>1, <3>2, <3>3
  <2>2. CASE ~IsHolder(c)
    BY <1>2, <2>2 DEF ExecComplete, Execute
  <2>. QED BY <2>1, <2>2
<1>3. CASE ExecRelease(c)
  BY <1>3 DEF ExecRelease, Execute, IsHolder, EntryOf
<1>4. CASE Lose(c)
  BY <1>4 DEF Lose
<1>. QED BY <1>1, <1>2, <1>3, <1>4 DEF Server

LEMMA NextKept == RInv /\ KeptInv /\ [Next]_vars => KeptInv'
<1> SUFFICES ASSUME RInv, KeptInv, [Next]_vars PROVE KeptInv'
  OBVIOUS
<1> USE DEF RInv, Types, KeptInv, Requests
<1>1. CASE Tick
  BY <1>1 DEF Tick, Expired
<1>2. ASSUME NEW c \in Callers, Middleware(c) PROVE KeptInv'
  BY <1>2 DEF Middleware, Claim, ClaimAnswered, HandlerEnds, SettleAnswered, CallFails, Crash
<1>3. ASSUME NEW c \in Callers, Server(c) PROVE KeptInv'
  BY <1>3, ServerKept
<1>4. CASE UNCHANGED vars
  BY <1>4 DEF vars
<1>. QED BY <1>1, <1>2, <1>3, <1>4 DEF Next

(* A completed key is granted to nobody for the whole of its TTL. *)
THEOREM RedisRetainedForTtl == Spec => RetainedForTtl
<1> DEFINE NoEarlyGrant ==
      \A c, d \in Callers :
        /\ Granted(c)' /\ ~Granted(c)
        /\ req[d].key = req[c].key
        => now >= keepUntil[d]
<1>1. Init => KeptInv
  BY DEF Init, KeptInv
<1>2. RInv /\ KeptInv /\ [Next]_vars => [NoEarlyGrant]_vars
  <2> SUFFICES ASSUME RInv, KeptInv, Next,
                      NEW c \in Callers, NEW d \in Callers,
                      Granted(c)', ~Granted(c), req[d].key = req[c].key
               PROVE  now >= keepUntil[d]
    OBVIOUS
  <2>1. ExecClaim(c) /\ ClaimOutcome(c) = "claimed"
    BY DEF RInv, Types, CallInv, Next, Tick, Middleware, Claim, ClaimAnswered, HandlerEnds,
           SettleAnswered, CallFails, Crash, Goto, Send, Server, ExecClaim, ExecComplete,
           ExecRelease, Lose, Execute, Granted
  <2>2. entry[req[d].key].s # "c"
    BY <2>1 DEF ClaimOutcome, EntryOf, Absent
  <2>. QED
    BY <2>2 DEF KeptInv, RInv, Types
<1>. QED
  BY <1>1, <1>2, NextKept, RedisInvariant, PTL DEF Spec, RetainedForTtl
=============================================================================
