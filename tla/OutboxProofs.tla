----------------------------- MODULE OutboxProofs -----------------------------
(***************************************************************************)
(* Whatever the number of relays and rows, the limits, the clocks and the  *)
(* bounds on faults: the types hold, no row is lost, no row is published   *)
(* by two relays at a time, and rows of one key are published in order.    *)
(*                                                                         *)
(* A claim raises the version of its row, so each version has one owner    *)
(* (OneOwner), and while an owner may publish, the row as the store holds  *)
(* it, and as every relay has read it, tells of a claim that has not ended *)
(* (Leased).  A lap that is past a row has seen it accepted, discarded or  *)
(* failed, or has blocked its key (Ordered).                               *)
(***************************************************************************)
EXTENDS Outbox, FiniteSetTheorems, TLAPS

Laps == [on : BOOLEAN, cursor : Nat, blocked : SUBSET Keys, cap : BOOLEAN]
Hands == [row : Rows \union {0}, version : Nat, attempts : Nat, lease : Int, left : Int,
          stop : BOOLEAN]
Resting == {"idle", "row"}

(* The type invariant in parts: what is shared, what each relay has, and how *)
(* the latter fits together.                                                 *)
SharedOK ==
  /\ row \in [Rows -> Stored] /\ accepted \subseteq Rows /\ abandoned \subseteq Rows
  /\ closing \subseteq Relays /\ paused \subseteq Relays /\ late \subseteq Calls
  /\ faults \in Nat /\ releases \in Nat
RelaysOK ==
  /\ pc \in [Relays -> Resting \union InHand] /\ lap \in [Relays -> Laps]
  /\ page \in [Relays -> SUBSET Read] /\ short \in [Relays -> BOOLEAN]
  /\ held \in [Relays -> Hands] /\ failedSince \in [Relays -> SUBSET Rows]
Placed ==
  \A r \in Relays :
    /\ pc[r] # "idle" => lap[r].on
    /\ \A m \in page[r] : pc[r] # "idle" /\ m.row > lap[r].cursor
    /\ pc[r] \in InHand => held[r].row \in Rows /\ held[r].row = lap[r].cursor
    /\ \A m, n \in page[r] : m.row = n.row => m = n
Typed == SharedOK /\ RelaysOK /\ Placed

LEMMA TypedTypeOK == Typed => TypeOK
  BY DEF Typed, TypeOK, SharedOK, RelaysOK, Placed, Laps, Hands, Resting

LEMMA Times ==
  /\ Skew \in Nat /\ Lease \in Nat /\ PublishTimeout \in Nat /\ StoreTimeout \in Nat
  /\ Backoff \in Nat /\ StoreTimeout + Skew > 0 /\ Past \in Int /\ Past = -Skew /\ Past <= 0
  /\ \A r \in Relays : Offset[r] \in Nat /\ Offset[r] <= Skew
  BY TimeAssumption DEF Past

LEMMA Limits ==
  /\ MaxAttempts \in Nat /\ PageSize \in Nat /\ MaxFailedScan \in Nat /\ MaxBlocked \in Nat
  /\ MaxFailedScan > 0 /\ DeleteNow \in BOOLEAN /\ MaxFaults \in Nat /\ MaxReleases \in Nat
  BY LimitAssumption

LEMMA Places ==
  /\ InHand = {"invalid", "claim", "sent", "failed", "fence", "publish"}
  /\ DOMAIN Op = {"invalid", "claim", "sent", "failed"}
  /\ {Op[at] : at \in DOMAIN Op} = {"markInvalid", "claim", "markSent", "markFailure"}
  /\ Op["invalid"] = "markInvalid" /\ Op["claim"] = "claim" /\ Op["sent"] = "markSent"
  /\ Op["failed"] = "markFailure"
<1>1. /\ DOMAIN Op = {"invalid", "claim", "sent", "failed"}
      /\ Op["invalid"] = "markInvalid" /\ Op["claim"] = "claim" /\ Op["sent"] = "markSent"
      /\ Op["failed"] = "markFailure"
  BY DEF Op
<1>2. {Op[at] : at \in DOMAIN Op} = {"markInvalid", "claim", "markSent", "markFailure"}
  BY <1>1
<1>3. InHand = {"invalid", "claim", "sent", "failed", "fence", "publish"}
  BY <1>1 DEF InHand
<1>. QED BY <1>1, <1>2, <1>3

LEMMA Numbered ==
  ASSUME NEW i \in Rows PROVE i \in Nat /\ i > 0 /\ KeyOf[i] \in Keys \union {NoKey}
  BY RowsAssumption DEF Keys

LEMMA CallTyped ==
  ASSUME Typed, NEW r \in Relays, pc[r] \in InHand, NEW op \in {Op[at] : at \in DOMAIN Op},
         NEW available \in Nat
  PROVE  /\ Call(r, op, available) \in Calls
         /\ Call(r, op, available).op = op
         /\ Call(r, op, available).row = held[r].row
         /\ Call(r, op, available).version = held[r].version
         /\ Call(r, op, available).lease = held[r].lease
<1>1. held[r] \in Hands /\ held[r].row \in Rows
  BY DEF Typed, RelaysOK, Placed
<1>2. held[r].version \in Nat /\ held[r].attempts + 1 \in Nat /\ held[r].lease \in Int
  BY <1>1 DEF Hands
<1>. QED BY <1>1, <1>2 DEF Call, Calls

LEMMA InFlightTyped ==
  ASSUME Typed, NEW r \in Relays, pc[r] \in DOMAIN Op, NEW c \in InFlight(r)
  PROVE  /\ c \in Calls /\ c.op = Op[pc[r]] /\ c.row = held[r].row
         /\ c.version = held[r].version /\ c.lease = held[r].lease
<1>1. pc[r] \in InHand /\ Op[pc[r]] \in {Op[at] : at \in DOMAIN Op}
  BY DEF InHand
<1>2. \A available \in Availabilities(r) : available \in Nat
  BY Times DEF Availabilities
<1>3. PICK available \in Nat : c = Call(r, Op[pc[r]], available)
  BY <1>2 DEF InFlight
<1>. QED BY <1>1, <1>3, CallTyped
-----------------------------------------------------------------------------
(* What the operators of the model do, field by field. *)

LEMMA Blocks ==
  ASSUME NEW l \in Laps, NEW k \in Keys \union {NoKey}
  PROVE  /\ Block(l, k) \in Laps
         /\ Block(l, k).on = l.on /\ Block(l, k).cursor = l.cursor
         /\ l.blocked \subseteq Block(l, k).blocked /\ (l.cap => Block(l, k).cap)
         /\ k = NoKey \/ Block(l, k).cap \/ k \in Block(l, k).blocked
<1>1. CASE k = NoKey \/ k \in l.blocked
  BY <1>1 DEF Block
<1>2. CASE ~(k = NoKey \/ k \in l.blocked)
  BY <1>2 DEF Block, Laps
<1>. QED BY <1>1, <1>2

LEMMA HeldBlocks ==
  ASSUME Typed, NEW r \in Relays, pc[r] \in InHand
  PROVE  /\ HeldBlocked(r) \in Laps
         /\ HeldBlocked(r).on = lap[r].on /\ HeldBlocked(r).cursor = lap[r].cursor
         /\ lap[r].blocked \subseteq HeldBlocked(r).blocked /\ (lap[r].cap => HeldBlocked(r).cap)
         /\ \/ KeyOf[held[r].row] = NoKey \/ HeldBlocked(r).cap
            \/ KeyOf[held[r].row] \in HeldBlocked(r).blocked
  BY Numbered, Blocks DEF Typed, RelaysOK, Placed, HeldBlocked

Others(r) ==
  \A s \in Relays : s # r => /\ pc'[s] = pc[s] /\ lap'[s] = lap[s] /\ page'[s] = page[s]
                             /\ held'[s] = held[s]

(* A relay that puts its row down has rest yet to examine. *)
Settles(r, rest, l) ==
  /\ Others(r)
  /\ pc'[r] = (IF rest = {} THEN "idle" ELSE "row") /\ page'[r] = rest /\ held'[r] = Nothing
  /\ lap'[r] = l \/ (lap'[r] = NoLap /\ rest = {})
  /\ RelaysOK /\ failedSince' \in [Relays -> SUBSET Rows] => RelaysOK'

LEMMA NothingTyped == Nothing \in Hands /\ Nothing.row = 0 /\ NoLap \in Laps /\ ~NoLap.on
  BY Times DEF Nothing, Hands, NoLap, Laps

LEMMA EndSettles ==
  ASSUME RelaysOK, NEW r \in Relays, NEW l \in Laps, EndSweep(r, l)
  PROVE  Settles(r, {}, l)
<1>1. Others(r) /\ pc'[r] = "idle" /\ page'[r] = {} /\ held'[r] = Nothing /\ lap'[r] = l
  BY DEF RelaysOK, EndSweep, Rest, Others
<1>2. failedSince' \in [Relays -> SUBSET Rows] => RelaysOK'
  BY NothingTyped DEF RelaysOK, EndSweep, Rest, Resting
<1>. QED BY <1>1, <1>2 DEF Settles

LEMMA GoOnSettles ==
  ASSUME RelaysOK, NEW r \in Relays, NEW l \in Laps, NEW rest \in SUBSET Read,
         NEW isShort \in BOOLEAN, GoOn(r, rest, isShort, l)
  PROVE  Settles(r, rest, l)
<1>1. CASE rest = {}
  <2> DEFINE end == IF isShort THEN NoLap ELSE l
  <2>1. end \in Laps /\ (end = l \/ end = NoLap) /\ EndSweep(r, end)
    BY <1>1, NothingTyped DEF GoOn
  <2> HIDE DEF end
  <2>2. Settles(r, {}, end)
    BY <2>1, EndSettles
  <2>3. lap'[r] = end
    BY <2>1 DEF EndSweep, RelaysOK
  <2>. QED BY <1>1, <2>1, <2>2, <2>3 DEF Settles
<1>2. CASE rest # {}
  <2>1. /\ pc' = [pc EXCEPT ![r] = "row"] /\ held' = [held EXCEPT ![r] = Nothing]
        /\ page' = [page EXCEPT ![r] = rest] /\ short' = [short EXCEPT ![r] = isShort]
        /\ lap' = [lap EXCEPT ![r] = l]
    BY <1>2 DEF GoOn
  <2>2. Others(r) /\ pc'[r] = "row" /\ page'[r] = rest /\ held'[r] = Nothing /\ lap'[r] = l
    BY <2>1 DEF RelaysOK, Others
  <2>3. failedSince' \in [Relays -> SUBSET Rows] => RelaysOK'
    BY <2>1, NothingTyped DEF RelaysOK, Resting
  <2>. QED BY <1>2, <2>2, <2>3 DEF Settles
<1>. QED BY <1>1, <1>2

LEMMA NextRowSettles ==
  ASSUME RelaysOK, NEW r \in Relays, NEW l \in Laps, NextRow(r, l)
  PROVE  Settles(r, page[r], l)
  BY GoOnSettles DEF RelaysOK, NextRow

(* What a call does to the rows, and what the relays note of it. *)
StoreRuns(c, by) ==
  /\ row' \in [Rows -> Stored] /\ failedSince' \in [Relays -> SUBSET Rows]
  /\ \A i \in Rows : i # c.row \/ ~Applies(c) => row'[i] = row[i]
  /\ Applies(c) =>
       LET i == c.row IN
       /\ row[i].status = "pending" /\ row'[i].valid = row[i].valid
       /\ c.op # "markInvalid" => row[i].version = c.version
       /\ c.op = "claim" => /\ row'[i].version = row[i].version + 1 /\ row'[i].lease = c.lease
                            /\ row'[i].status = "pending"
       /\ c.op = "markSent" => row'[i].status \in {"sent", "gone"}
       /\ c.op = "markFailure" => row'[i].status \in {"failed", "pending"}
       /\ c.op = "markInvalid" => row'[i].status = "failed"
       /\ c.op # "claim" => row'[i].version = row[i].version
  /\ \A s \in Relays :
       /\ failedSince[s] \subseteq failedSince'[s]
       /\ lap[s].on /\ s \notin by =>
            \A i \in Rows : row[i].status # "failed" /\ row'[i].status = "failed"
                              => i \in failedSince'[s]

LEMMA WrittenOK ==
  ASSUME SharedOK, NEW c \in Calls, row[c.row].status = "pending"
  PROVE  /\ Written(c) \in Stored /\ Written(c).valid = row[c.row].valid
         /\ c.op = "claim" => /\ Written(c).version = row[c.row].version + 1
                              /\ Written(c).lease = c.lease /\ Written(c).status = "pending"
         /\ c.op = "markSent" => Written(c).status \in {"sent", "gone"}
         /\ c.op = "markFailure" => Written(c).status \in {"failed", "pending"}
         /\ c.op = "markInvalid" => Written(c).status = "failed"
         /\ c.op # "claim" => Written(c).version = row[c.row].version
<1>1. PICK old \in Stored : old = row[c.row]
  BY DEF SharedOK, Calls
<1>2. c.lease \in Int /\ c.attempts \in Nat /\ c.available \in Nat
  BY DEF Calls
<1>3. c.op \in {"markInvalid", "claim", "markSent", "markFailure"}
  BY Places DEF Calls
<1>4. CASE c.op = "claim"
  <2>1. old.version \in Nat /\ old.status = "pending"
    BY <1>1 DEF Stored
  <2>2. PICK next \in Nat : next = old.version + 1
    BY <2>1
  <2>3. Written(c) = [old EXCEPT !.version = next, !.lease = c.lease]
    BY <1>1, <1>4, <2>2 DEF Written
  <2>. QED BY <1>1, <1>2, <1>4, <2>1, <2>2, <2>3 DEF Stored
<1>5. CASE c.op = "markSent"
  <2>1. PICK to \in {"gone", "sent"} : Written(c) = [old EXCEPT !.status = to]
    BY <1>1, <1>5 DEF Written
  <2>. QED BY <1>1, <1>5, <2>1 DEF Stored, Statuses, Settled
<1>6. CASE c.op = "markFailure"
  <2>1. PICK to \in {"failed", "pending"} :
          Written(c) = [old EXCEPT !.status = to, !.attempts = c.attempts,
                                   !.available = c.available, !.lease = Past]
    BY <1>1, <1>6 DEF Written
  <2>. QED BY <1>1, <1>2, <1>6, <2>1, Times DEF Stored, Statuses, Settled
<1>7. CASE c.op = "markInvalid"
  <2>1. Written(c) = [old EXCEPT !.status = "failed", !.lease = Past]
    BY <1>1, <1>7 DEF Written
  <2>. QED BY <1>1, <1>7, <2>1, Times DEF Stored, Statuses, Settled
<1>. QED BY <1>3, <1>4, <1>5, <1>6, <1>7

LEMMA Executed ==
  ASSUME SharedOK, RelaysOK, NEW c \in Calls, NEW by, Execute(c, by)
  PROVE  StoreRuns(c, by)
<1>0. c.row \in Rows
  BY DEF Calls
<1>1. \A s \in Relays :
        /\ failedSince'[s] \subseteq Rows /\ failedSince[s] \subseteq failedSince'[s]
        /\ lap[s].on /\ s \notin by =>
             \A i \in Rows : row[i].status # "failed" /\ row'[i].status = "failed"
                               => i \in failedSince'[s]
  BY DEF Execute, RelaysOK
<1>2. failedSince' \in [Relays -> SUBSET Rows]
  BY <1>1 DEF Execute
<1>3. CASE Applies(c)
  <2>1. row[c.row].status = "pending" /\ (c.op # "markInvalid" => row[c.row].version = c.version)
    BY <1>3 DEF Applies
  <2>2. PICK new \in Stored : new = Written(c)
    BY <2>1, WrittenOK
  <2>3. row' = [row EXCEPT ![c.row] = new]
    BY <1>3, <2>2 DEF Execute
  <2>4. row' \in [Rows -> Stored] /\ row'[c.row] = new /\ \A i \in Rows : i # c.row => row'[i] = row[i]
    BY <2>3, <1>0 DEF SharedOK
  <2>. QED BY <1>0, <1>1, <1>2, <1>3, <2>1, <2>2, <2>4, WrittenOK DEF StoreRuns
<1>4. CASE ~Applies(c)
  <2>1. row' = row
    BY <1>4 DEF Execute
  <2>. QED BY <1>1, <1>2, <1>4, <2>1 DEF StoreRuns, SharedOK
<1>. QED BY <1>3, <1>4
-----------------------------------------------------------------------------
(* What each action does. *)
Steady == UNCHANGED <<row, accepted, abandoned, late, failedSince>>

Keeps(r, l) ==
  /\ l \in Laps /\ l.on = lap[r].on /\ l.cursor = lap[r].cursor
  /\ lap[r].blocked \subseteq l.blocked /\ (lap[r].cap => l.cap)

Shuts(r, l) ==
  KeyOf[held[r].row] = NoKey \/ l.cap \/ KeyOf[held[r].row] \in l.blocked

LEMMA HeldKeeps ==
  ASSUME Typed, NEW r \in Relays, pc[r] \in InHand
  PROVE  /\ Keeps(r, HeldBlocked(r)) /\ Shuts(r, HeldBlocked(r))
         /\ Keeps(r, lap[r])
         /\ Keeps(r, Refusal(r))
         /\ row[held[r].row].status \in {"pending", "failed"} => Shuts(r, Refusal(r))
  BY HeldBlocks DEF Keeps, Shuts, Refusal, Typed, RelaysOK

LEMMA SettlesTyped ==
  ASSUME Typed, SharedOK', failedSince' \in [Relays -> SUBSET Rows],
         NEW r \in Relays, NEW l \in Laps, NEW rest \in SUBSET Read, Settles(r, rest, l),
         rest # {} => l.on,
         \A m \in rest : m.row > l.cursor,
         \A m, n \in rest : m.row = n.row => m = n
  PROVE  Typed'
<1>1. RelaysOK'
  BY DEF Settles, Typed
<1>2. Placed'
  BY Places DEF Typed, Placed, Settles, Others
<1>. QED BY <1>1, <1>2 DEF Typed

LEMMA PutsDownTyped ==
  ASSUME Typed, SharedOK', failedSince' \in [Relays -> SUBSET Rows],
         NEW r \in Relays, NEW l, NEW rest, Settles(r, rest, l), pc[r] # "idle",
         l = NoLap \/ Keeps(r, l), rest = {} \/ (rest = page[r] /\ l # NoLap)
  PROVE  Typed'
<1>1. page[r] \in SUBSET Read
  BY DEF Typed, RelaysOK
<1>2. CASE rest = {}
  BY <1>2, SettlesTyped, NothingTyped DEF Keeps
<1>3. CASE rest = page[r] /\ l # NoLap
  <2>1. /\ l \in Laps /\ l.on /\ \A m \in rest : m.row > l.cursor
        /\ \A m, n \in rest : m.row = n.row => m = n
    BY <1>3 DEF Keeps, Typed, Placed
  <2>. QED BY <1>1, <1>3, <2>1, SettlesTyped
<1>. QED BY <1>2, <1>3

(* The records of a hand and of a lap after an update. *)
Taken(i, version, attempts, lease) ==
  [Nothing EXCEPT !.row = i, !.version = version, !.attempts = attempts, !.lease = lease]
LEMMA HandTaken ==
  ASSUME NEW i \in Rows, NEW version \in Nat, NEW attempts \in Nat, NEW lease \in Int
  PROVE  /\ Taken(i, version, attempts, lease) \in Hands
         /\ Taken(i, version, attempts, lease).row = i
         /\ Taken(i, version, attempts, lease).version = version
<1>1. PICK none \in Hands : none = Nothing
  BY NothingTyped
<1>2. Taken(i, version, attempts, lease)
        = [none EXCEPT !.row = i, !.version = version, !.attempts = attempts, !.lease = lease]
  BY <1>1 DEF Taken
<1>. QED BY <1>1, <1>2 DEF Hands

LEMMA HandTimed ==
  ASSUME NEW old \in Hands, NEW left \in Int
  PROVE  \E hand \in Hands :
           /\ hand = [old EXCEPT !.left = left] /\ hand.row = old.row
           /\ hand.version = old.version /\ hand.lease = old.lease /\ hand.left = left
<1>1. LET hand == [old EXCEPT !.left = left]
      IN  /\ hand \in Hands /\ hand.row = old.row
          /\ hand.version = old.version /\ hand.lease = old.lease /\ hand.left = left
  BY DEF Hands
<1>. QED BY <1>1, Zenon

LEMMA HandStopped ==
  ASSUME NEW old \in Hands, NEW stop \in BOOLEAN
  PROVE  \E hand \in Hands :
           /\ hand = [old EXCEPT !.stop = stop] /\ hand.row = old.row
           /\ hand.version = old.version /\ hand.lease = old.lease
<1>1. LET hand == [old EXCEPT !.stop = stop]
      IN  /\ hand \in Hands /\ hand.row = old.row
          /\ hand.version = old.version /\ hand.lease = old.lease
  BY DEF Hands
<1>. QED BY <1>1, Zenon

LEMMA HandVersioned ==
  ASSUME NEW old \in Hands, NEW version \in Nat
  PROVE  \E hand \in Hands :
           /\ hand = [old EXCEPT !.version = version] /\ hand.row = old.row
           /\ hand.version = version /\ hand.lease = old.lease
<1>1. LET hand == [old EXCEPT !.version = version]
      IN  /\ hand \in Hands /\ hand.row = old.row
          /\ hand.version = version /\ hand.lease = old.lease
  BY DEF Hands
<1>. QED BY <1>1, Zenon

LEMMA LapAdvanced ==
  ASSUME NEW l \in Laps, NEW n \in Nat
  PROVE  /\ [l EXCEPT !.cursor = n] \in Laps /\ [l EXCEPT !.cursor = n].on = l.on
         /\ [l EXCEPT !.cursor = n].cursor = n /\ [l EXCEPT !.cursor = n].blocked = l.blocked
         /\ [l EXCEPT !.cursor = n].cap = l.cap
  BY DEF Laps

LEMMA StopDoes ==
  ASSUME Typed, NEW r \in Relays, Stop(r)
  PROVE  pc[r] = "row" /\ Settles(r, {}, lap[r]) /\ Steady /\ Typed'
<1>1. pc[r] = "row" /\ Steady /\ EndSweep(r, lap[r])
  BY DEF Stop, Runs, Steady
<1>2. lap[r] \in Laps /\ Keeps(r, lap[r])
  BY DEF Typed, RelaysOK, Keeps
<1>3. Settles(r, {}, lap[r])
  BY <1>1, <1>2, EndSettles DEF Typed
<1>4. SharedOK'
  BY DEF Typed, SharedOK, Stop, Runs
<1>. QED BY <1>1, <1>2, <1>3, <1>4, PutsDownTyped DEF Typed, RelaysOK, Steady

LEMMA SeedDoes ==
  ASSUME Typed, NEW r \in Relays, Seed(r)
  PROVE  /\ pc[r] = "idle" /\ Typed'
         /\ UNCHANGED <<row, accepted, abandoned, late, pc, page, held>>
         /\ lap'[r].on /\ lap'[r].cursor = 0
         /\ \A i \in Rows : row[i].status = "failed" =>
              KeyOf[i] = NoKey \/ lap'[r].cap \/ KeyOf[i] \in lap'[r].blocked
         /\ \A s \in Relays : s # r => lap'[s] = lap[s] /\ failedSince'[s] = failedSince[s]
<1>1. pc[r] = "idle" /\ UNCHANGED <<row, accepted, abandoned, late, pc, page, held, short>>
  BY DEF Seed, Runs
<1> DEFINE failed == {i \in Rows : row[i].status = "failed"}
           Keyed(answer) == {KeyOf[i] : i \in answer} \ {NoKey}
<1>2. PICK answer \in SUBSET failed :
        /\ \/ answer = failed /\ Cardinality(failed) <= MaxFailedScan
           \/ Cardinality(answer) = MaxFailedScan
        /\ \E kept \in SUBSET Keyed(answer) :
             /\ \/ kept = Keyed(answer) /\ Cardinality(Keyed(answer)) <= MaxBlocked
                \/ Cardinality(kept) = MaxBlocked
             /\ lap' = [lap EXCEPT ![r] =
                  [on |-> TRUE, cursor |-> 0, blocked |-> kept,
                   cap |-> kept # Keyed(answer) \/ Cardinality(answer) >= MaxFailedScan]]
  BY DEF Seed
<1>3. PICK kept \in SUBSET Keyed(answer) :
        lap' = [lap EXCEPT ![r] =
                 [on |-> TRUE, cursor |-> 0, blocked |-> kept,
                  cap |-> kept # Keyed(answer) \/ Cardinality(answer) >= MaxFailedScan]]
  BY <1>2
<1>4. PICK full \in BOOLEAN :
        full = (kept # Keyed(answer) \/ Cardinality(answer) >= MaxFailedScan)
  OBVIOUS
<1>5. lap' = [lap EXCEPT ![r] = [on |-> TRUE, cursor |-> 0, blocked |-> kept, cap |-> full]]
  BY <1>3, <1>4
<1>6. kept \subseteq Keys
  BY DEF Keys
<1>7. [on |-> TRUE, cursor |-> 0, blocked |-> kept, cap |-> full] \in Laps
  BY <1>6 DEF Laps
<1>8. /\ lap' \in [Relays -> Laps] /\ lap'[r].on /\ lap'[r].cursor = 0 /\ lap'[r].blocked = kept
      /\ lap'[r].cap = full /\ \A s \in Relays : s # r => lap'[s] = lap[s]
  BY <1>5, <1>7 DEF Typed, RelaysOK
<1>9. \A i \in Rows : row[i].status = "failed" => KeyOf[i] = NoKey \/ full \/ KeyOf[i] \in kept
  <2>1. SUFFICES ASSUME ~full PROVE answer = failed /\ kept = Keyed(answer)
    BY <2>1
  <2>2. kept = Keyed(answer) /\ ~(Cardinality(answer) >= MaxFailedScan)
    BY <1>4, <2>1
  <2>3. Cardinality(answer) # MaxFailedScan
    BY <2>2, Limits
  <2>. QED BY <1>2, <2>2, <2>3
<1>10. failedSince' \in [Relays -> SUBSET Rows] /\ \A s \in Relays : s # r => failedSince'[s] = failedSince[s]
  BY DEF Seed, Typed, RelaysOK
<1>11. SharedOK'
  BY DEF Typed, SharedOK, Seed, Runs
<1>12. RelaysOK'
  BY <1>1, <1>8, <1>10 DEF Typed, RelaysOK
<1>13. Placed'
  BY <1>1, <1>8, Places DEF Typed, Placed
<1>. QED BY <1>1, <1>8, <1>9, <1>10, <1>11, <1>12, <1>13 DEF Typed

LEMMA ScanDoes ==
  ASSUME Typed, NEW r \in Relays, Scan(r)
  PROVE  \E rest \in SUBSET Read :
           /\ pc[r] = "idle" /\ Settles(r, rest, lap[r]) /\ Steady /\ Typed'
           /\ \A m \in rest :
                /\ m.row > lap[r].cursor /\ row[m.row].status = "pending"
                /\ m = Snapshot(m.row)
           /\ \A m \in rest : \A j \in Rows :
                j > lap[r].cursor /\ j < m.row /\ row[j].status = "pending"
                  => \E n \in rest : n.row = j
<1> DEFINE some == First(Pending(lap[r].cursor), PageSize)
           rest == {Snapshot(i) : i \in some}
           isShort == Cardinality(some) < PageSize
<1>1. pc[r] = "idle" /\ lap[r].on /\ Steady /\ GoOn(r, rest, isShort, lap[r])
  BY DEF Scan, Runs, Steady
<1>2. some \subseteq Pending(lap[r].cursor) /\ Pending(lap[r].cursor) \subseteq Rows
  BY DEF First, Pending
<1>3. \A i \in Rows : row[i] \in Stored /\ Snapshot(i) \in Read /\ Snapshot(i).row = i
  BY DEF Typed, SharedOK, Snapshot, Stored, Read
<1>4. rest \in SUBSET Read
  BY <1>2, <1>3
<1>5. lap[r] \in Laps /\ isShort \in BOOLEAN
  BY DEF Typed, RelaysOK
<1>6. \A m \in rest : m.row \in some /\ m = Snapshot(m.row)
  BY <1>2, <1>3
<1>7. \A m \in rest : m.row > lap[r].cursor /\ row[m.row].status = "pending"
  BY <1>2, <1>6 DEF Pending
<1>8. \A m \in rest : \A j \in Rows :
        j > lap[r].cursor /\ j < m.row /\ row[j].status = "pending" => \E n \in rest : n.row = j
  <2> SUFFICES ASSUME NEW m \in rest, NEW j \in Rows, j > lap[r].cursor, j < m.row,
                      row[j].status = "pending"
               PROVE  \E n \in rest : n.row = j
    OBVIOUS
  <2> DEFINE all == Pending(lap[r].cursor)
             Below(i) == {k \in all : k < i}
  <2>1. m.row \in all /\ Cardinality(Below(m.row)) < PageSize
    BY <1>6 DEF First
  <2>2. j \in all
    BY DEF Pending
  <2>3. \A i \in all : i \in Nat
    BY <1>2, Numbered
  <2>4. Below(j) \subseteq Below(m.row)
    BY <2>1, <2>2, <2>3
  <2>5. IsFiniteSet(Below(m.row)) /\ IsFiniteSet(Below(j))
    <3>1. Below(m.row) \subseteq Rows /\ Below(j) \subseteq Rows
      BY <1>2
    <3>. QED BY <3>1, RowsAssumption, FS_Subset
  <2>6. Cardinality(Below(j)) <= Cardinality(Below(m.row))
    BY <2>4, <2>5, FS_Subset
  <2>7. Cardinality(Below(j)) \in Nat /\ Cardinality(Below(m.row)) \in Nat
    BY <2>5, FS_CardinalityType
  <2>8. Cardinality(Below(j)) < PageSize
    BY <2>1, <2>6, <2>7, Limits
  <2>9. j \in some
    BY <2>2, <2>8 DEF First
  <2>. QED BY <1>3, <2>9
<1> HIDE DEF some, rest, isShort
<1>9. Settles(r, rest, lap[r])
  BY <1>1, <1>4, <1>5, GoOnSettles DEF Typed
<1>10. SharedOK'
  BY DEF Typed, SharedOK, Scan, Runs
<1>11. \A m, n \in rest : m.row = n.row => m = n
  BY <1>6
<1>12. Typed'
  BY <1>1, <1>4, <1>5, <1>7, <1>9, <1>10, <1>11, SettlesTyped DEF Steady, Typed, RelaysOK
<1>. QED BY <1>1, <1>4, <1>6, <1>7, <1>8, <1>9, <1>12

LEMMA ExamineDoes ==
  ASSUME Typed, NEW r \in Relays, Examine(r)
  PROVE  \E m \in page[r], next \in Laps :
           /\ pc[r] = "row" /\ \A other \in page[r] : m.row <= other.row
           /\ next.on /\ next.cursor = m.row
           /\ lap[r].blocked \subseteq next.blocked /\ (lap[r].cap => next.cap)
           /\ Steady /\ Typed'
           /\ \/ /\ Settles(r, page[r] \ {m}, next)
                 /\ KeyOf[m.row] = NoKey \/ next.cap \/ KeyOf[m.row] \in next.blocked
              \/ /\ Others(r) /\ lap'[r] = next /\ page'[r] = page[r] \ {m}
                 /\ pc'[r] = (IF m.valid THEN "claim" ELSE "invalid")
                 /\ held'[r].row = m.row /\ held'[r].version = m.version
                 /\ m.lease <= 0
                 /\ IF m.valid
                    THEN KeyOf[m.row] = NoKey \/ (~next.cap /\ KeyOf[m.row] \notin next.blocked)
                    ELSE KeyOf[m.row] = NoKey \/ next.cap \/ KeyOf[m.row] \in next.blocked
<1>1. pc[r] = "row" /\ Steady /\ lap[r] \in Laps /\ lap[r].on /\ page[r] \in SUBSET Read
      /\ short[r] \in BOOLEAN
  BY Places DEF Examine, Runs, Steady, Typed, RelaysOK, Placed
<1> DEFINE Here(m) == Advance(r, m)
           Skipped(m) == (KeyOf[m.row] # NoKey /\ (KeyOf[m.row] \in Here(m).blocked \/ Here(m).cap))
                           \/ Waits(r, m)
           After(m) == IF Skipped(m) \/ ~m.valid THEN Block(Here(m), KeyOf[m.row]) ELSE Here(m)
<1>2. PICK m \in page[r] :
        /\ \A other \in page[r] : m.row <= other.row
        /\ IF Skipped(m) THEN GoOn(r, page[r] \ {m}, short[r], After(m))
           ELSE /\ pc' = [pc EXCEPT ![r] = IF m.valid THEN "claim" ELSE "invalid"]
                /\ held' = [held EXCEPT ![r] = Taken(m.row, m.version, m.attempts, Offset[r] + Lease)]
                /\ page' = [page EXCEPT ![r] = page[r] \ {m}] /\ lap' = [lap EXCEPT ![r] = After(m)]
                /\ UNCHANGED short
  BY DEF Examine, Taken
<1>3. /\ m \in Read /\ m.row \in Rows /\ m.row \in Nat /\ m.version \in Nat /\ m.attempts \in Nat
      /\ m.lease \in Int /\ m.valid \in BOOLEAN /\ KeyOf[m.row] \in Keys \union {NoKey}
  BY <1>1, Numbered DEF Read
<1>4. PICK here \in Laps : /\ here = Here(m) /\ here.on /\ here.cursor = m.row
                           /\ here.blocked = lap[r].blocked /\ here.cap = lap[r].cap
  <2>1. PICK old \in Laps : old = lap[r]
    BY <1>1
  <2>2. PICK n \in Nat : n = m.row
    BY <1>3
  <2>3. Here(m) = [old EXCEPT !.cursor = n]
    BY <2>1, <2>2 DEF Advance
  <2>4. LET here == [old EXCEPT !.cursor = n]
        IN  /\ here \in Laps /\ here.on = old.on /\ here.cursor = n
            /\ here.blocked = old.blocked /\ here.cap = old.cap
    BY LapAdvanced, Zenon
  <2> HIDE DEF Here
  <2>5. /\ Here(m) \in Laps /\ Here(m).on = old.on /\ Here(m).cursor = n
        /\ Here(m).blocked = old.blocked /\ Here(m).cap = old.cap
    BY <2>3, <2>4, Zenon
  <2>. QED BY <1>1, <2>1, <2>2, <2>5
<1>5. PICK next \in Laps : next = After(m)
  BY <1>3, <1>4, Blocks
<1>6. /\ next.on /\ next.cursor = m.row
      /\ lap[r].blocked \subseteq next.blocked /\ (lap[r].cap => next.cap)
      /\ Skipped(m) \/ ~m.valid => KeyOf[m.row] = NoKey \/ next.cap \/ KeyOf[m.row] \in next.blocked
      /\ ~Skipped(m) /\ m.valid => next = here
  BY <1>3, <1>4, <1>5, Blocks
<1>7. page[r] \ {m} \in SUBSET Read /\ \A n \in page[r] \ {m} : n.row > next.cursor
  <2>1. \A n \in page[r] : n.row \in Nat /\ m.row <= n.row /\ (n # m => n.row # m.row)
    BY <1>1, <1>2, Numbered DEF Read, Typed, Placed
  <2>. QED BY <1>1, <1>3, <1>6, <2>1
<1>8. \A a, b \in page[r] : a.row = b.row => a = b
  BY DEF Typed, Placed
<1>9. SharedOK' /\ failedSince' \in [Relays -> SUBSET Rows]
  BY DEF Typed, SharedOK, RelaysOK, Examine, Runs
<1>10. CASE Skipped(m)
  <2>1. GoOn(r, page[r] \ {m}, short[r], next)
    BY <1>2, <1>5, <1>10
  <2>2. Settles(r, page[r] \ {m}, next)
    BY <1>1, <1>7, <2>1, GoOnSettles DEF Typed
  <2>3. Typed'
    BY <1>6, <1>7, <1>8, <1>9, <2>2, SettlesTyped
  <2>. QED BY <1>1, <1>2, <1>6, <1>10, <2>2, <2>3
<1>11. CASE ~Skipped(m)
  <2>1. PICK to \in {"claim", "invalid"} : to = IF m.valid THEN "claim" ELSE "invalid"
    OBVIOUS
  <2>2. PICK until \in Int : until = Offset[r] + Lease
    BY Times
  <2>3. PICK hand \in Hands :
          /\ hand = Taken(m.row, m.version, m.attempts, Offset[r] + Lease)
          /\ hand.row = m.row /\ hand.version = m.version
    BY <1>3, <2>2, HandTaken
  <2>4. /\ pc' = [pc EXCEPT ![r] = to] /\ held' = [held EXCEPT ![r] = hand]
        /\ page' = [page EXCEPT ![r] = page[r] \ {m}] /\ lap' = [lap EXCEPT ![r] = next]
        /\ short' = short
    BY <1>2, <1>5, <1>11, <2>1, <2>3
  <2>5. Others(r) /\ pc'[r] = to /\ held'[r] = hand /\ page'[r] = page[r] \ {m} /\ lap'[r] = next
    BY <2>4 DEF Typed, RelaysOK, Others
  <2>6. RelaysOK'
    <3>1. pc' \in [Relays -> Resting \union InHand]
      BY <2>1, <2>4, Places DEF Typed, RelaysOK
    <3>2. lap' \in [Relays -> Laps] /\ held' \in [Relays -> Hands]
      BY <1>5, <2>3, <2>4 DEF Typed, RelaysOK
    <3>3. page' \in [Relays -> SUBSET Read] /\ short' \in [Relays -> BOOLEAN]
      BY <1>7, <2>4 DEF Typed, RelaysOK
    <3>. QED BY <1>9, <3>1, <3>2, <3>3 DEF RelaysOK
  <2>7. Placed'
    <3>1. /\ pc'[r] # "idle" /\ lap'[r].on /\ held'[r].row = m.row /\ lap'[r].cursor = m.row
          /\ page'[r] \subseteq page[r] /\ \A n \in page'[r] : n.row > lap'[r].cursor
      BY <1>3, <1>5, <1>6, <1>7, <2>1, <2>3, <2>5
    <3>2. \A s \in Relays : s # r => /\ pc'[s] = pc[s] /\ lap'[s] = lap[s] /\ page'[s] = page[s]
                                     /\ held'[s] = held[s]
      BY <2>5 DEF Others
    <3>. QED BY <1>3, <1>8, <3>1, <3>2 DEF Typed, Placed
  <2>8. m.lease <= 0
    <3>1. ~(Offset[r] < m.lease + Skew)
      BY <1>11 DEF Waits
    <3>. QED BY <1>3, <3>1, Times
  <2>9. m.valid => KeyOf[m.row] = NoKey \/ (~next.cap /\ KeyOf[m.row] \notin next.blocked)
    BY <1>4, <1>6, <1>11
  <2>10. Typed'
    BY <1>9, <2>6, <2>7 DEF Typed
  <2> HIDE DEF Skipped
  <2>. QED BY <1>1, <1>2, <1>3, <1>6, <1>11, <2>1, <2>3, <2>5, <2>8, <2>9, <2>10
<1>. QED BY <1>10, <1>11

(* A relay that goes on with the row in hand. *)
Goes(r, at) ==
  /\ Others(r) /\ pc'[r] = at /\ page'[r] = page[r] /\ held'[r].row = held[r].row
  /\ held'[r].lease = held[r].lease

LEMMA StillPlaced ==
  ASSUME Typed, SharedOK', RelaysOK', NEW r \in Relays, NEW at \in InHand, Goes(r, at),
         pc[r] \in InHand, Keeps(r, lap'[r])
  PROVE  Typed'
<1>1. lap[r].on /\ held[r].row \in Rows /\ held[r].row = lap[r].cursor
  BY Places DEF Typed, Placed
<1>2. /\ pc'[r] = at /\ page'[r] = page[r] /\ lap'[r].on /\ lap'[r].cursor = lap[r].cursor
      /\ held'[r].row = held[r].row /\ pc[r] # "idle" /\ at # "idle"
  BY <1>1, Places DEF Goes, Keeps
<1>3. \A s \in Relays : s # r => /\ pc'[s] = pc[s] /\ lap'[s] = lap[s] /\ page'[s] = page[s]
                                 /\ held'[s] = held[s]
  BY DEF Goes, Others
<1>4. Placed'
  BY <1>1, <1>2, <1>3 DEF Typed, Placed
<1>. QED BY <1>4 DEF Typed

LEMMA FenceDoes ==
  ASSUME Typed, NEW r \in Relays, Fence(r)
  PROVE  /\ pc[r] = "fence" /\ Steady /\ Typed'
         /\ \/ \E l \in Laps : Settles(r, page[r], l) /\ Keeps(r, l) /\ Shuts(r, l)
            \/ /\ Goes(r, "publish") /\ lap'[r] = lap[r]
               /\ held'[r].version = held[r].version
               /\ held'[r].left + StoreTimeout + Skew <= held[r].lease
<1>1. pc[r] = "fence" /\ Steady /\ SharedOK' /\ failedSince' \in [Relays -> SUBSET Rows]
      /\ pc[r] \in InHand /\ lap[r] \in Laps /\ page[r] \in SUBSET Read
  BY Places DEF Fence, Runs, Steady, Typed, SharedOK, RelaysOK
<1> DEFINE room == ~(Offset[r] + PublishTimeout + StoreTimeout + Skew > held[r].lease)
<1>2. CASE ~room
  <2>1. PICK l \in Laps : l = HeldBlocked(r) /\ Keeps(r, l) /\ Shuts(r, l)
    BY <1>1, HeldBlocks, HeldKeeps
  <2>2. Settles(r, page[r], l)
    BY <1>1, <1>2, <2>1, NextRowSettles DEF Fence, Typed
  <2>3. l # NoLap /\ pc[r] # "idle"
    BY <1>1, <2>1, NothingTyped, Places DEF Keeps, Typed, Placed
  <2>4. Typed'
    BY <1>1, <2>1, <2>2, <2>3, PutsDownTyped
  <2>. QED BY <1>1, <2>1, <2>2, <2>4
<1>3. CASE room
  <2>1. /\ pc' = [pc EXCEPT ![r] = "publish"] /\ held' = [held EXCEPT ![r].left = PublishTimeout]
        /\ UNCHANGED <<lap, page, short>>
    BY <1>3 DEF Fence
  <2>2. PICK hand \in Hands : /\ hand = [held[r] EXCEPT !.left = PublishTimeout]
                              /\ hand.row = held[r].row /\ hand.version = held[r].version
                              /\ hand.lease = held[r].lease /\ hand.left = PublishTimeout
    <3>1. PICK old \in Hands : old = held[r]
      BY DEF Typed, RelaysOK
    <3>2. PICK bound \in Int : bound = PublishTimeout
      BY Times
    <3>. QED BY <3>1, <3>2, HandTimed
  <2>3. held' = [held EXCEPT ![r] = hand]
    BY <2>1, <2>2
  <2>4. Goes(r, "publish") /\ lap'[r] = lap[r] /\ held'[r] = hand
    BY <2>1, <2>2, <2>3 DEF Goes, Others, Typed, RelaysOK
  <2>5. RelaysOK'
    BY <1>1, <2>1, <2>3, Places DEF Typed, RelaysOK
  <2>6. Typed'
    BY <1>1, <2>4, <2>5, StillPlaced, HeldKeeps, Places
  <2>7. hand.left + StoreTimeout + Skew <= held[r].lease
    BY <1>3, <2>2, Times DEF Hands
  <2>. QED BY <1>1, <2>2, <2>4, <2>6, <2>7
<1>. QED BY <1>2, <1>3

LEMMA RefusedDoes ==
  ASSUME Typed, NEW r \in Relays, Refused(r)
  PROVE  /\ pc[r] = "fence" /\ Steady /\ Typed'
         /\ \E l \in Laps : Settles(r, {}, l) /\ Keeps(r, l) /\ Shuts(r, l)
<1>1. pc[r] = "fence" /\ Steady /\ SharedOK' /\ failedSince' \in [Relays -> SUBSET Rows]
      /\ pc[r] \in InHand
  BY Places DEF Refused, Runs, Steady, Typed, SharedOK, RelaysOK, Fault
<1>2. PICK l \in Laps : l = HeldBlocked(r) /\ Keeps(r, l) /\ Shuts(r, l)
  BY <1>1, HeldBlocks, HeldKeeps
<1>3. Settles(r, {}, l)
  BY <1>2, EndSettles DEF Refused, Typed
<1>4. Typed'
  BY <1>1, <1>2, <1>3, PutsDownTyped, Places
<1>. QED BY <1>1, <1>2, <1>3, <1>4

LEMMA PublishedDoes ==
  ASSUME Typed, NEW r \in Relays, Published(r)
  PROVE  /\ pc[r] = "publish" /\ UNCHANGED <<row, abandoned, late, failedSince>> /\ Typed'
         /\ accepted' = accepted \union {held[r].row}
         /\ Goes(r, "sent") /\ lap'[r] = lap[r] /\ held'[r].version = held[r].version
<1>1. /\ pc[r] = "publish" /\ UNCHANGED <<row, abandoned, late, failedSince>>
      /\ accepted' = accepted \union {held[r].row} /\ pc[r] \in InHand
      /\ pc' = [pc EXCEPT ![r] = "sent"] /\ UNCHANGED <<lap, page, short, held>>
  BY Places DEF Published, Runs
<1>2. SharedOK'
  BY <1>1 DEF Published, Runs, Typed, SharedOK, Placed
<1>3. Goes(r, "sent") /\ lap'[r] = lap[r] /\ held'[r].version = held[r].version
  BY <1>1 DEF Goes, Others, Typed, RelaysOK
<1>4. RelaysOK'
  BY <1>1, Places DEF Typed, RelaysOK
<1>. QED BY <1>1, <1>2, <1>3, <1>4, StillPlaced, HeldKeeps, Places

LEMMA PublishFailsDoes ==
  ASSUME Typed, NEW r \in Relays, PublishFails(r)
  PROVE  /\ pc[r] = "publish" /\ UNCHANGED <<row, abandoned, late, failedSince>> /\ Typed'
         /\ accepted \subseteq accepted'
         /\ \E l \in Laps :
              /\ Keeps(r, l) /\ Shuts(r, l)
              /\ \/ Settles(r, {}, l)
                 \/ Goes(r, "failed") /\ lap'[r] = l /\ held'[r].version = held[r].version
<1>1. /\ pc[r] = "publish" /\ UNCHANGED <<row, abandoned, late, failedSince>>
      /\ accepted' \in {accepted, accepted \union {held[r].row}} /\ pc[r] \in InHand
  BY Places DEF PublishFails, Runs
<1>2. SharedOK' /\ failedSince' \in [Relays -> SUBSET Rows]
  BY <1>1 DEF PublishFails, Runs, Fault, Typed, SharedOK, Placed, RelaysOK
<1>3. PICK l \in Laps : l = HeldBlocked(r) /\ Keeps(r, l) /\ Shuts(r, l)
  BY <1>1, HeldBlocks, HeldKeeps
<1>4. CASE r \in closing
  <2>1. Settles(r, {}, l)
    BY <1>3, <1>4, EndSettles DEF PublishFails, Typed
  <2>2. Typed'
    BY <1>1, <1>2, <1>3, <2>1, PutsDownTyped, Places
  <2>. QED BY <1>1, <1>3, <2>1, <2>2
<1>5. CASE r \notin closing
  <2>1. PICK ends \in BOOLEAN : ends = (held[r].left <= 0)
    <3>1. held[r].left \in Int
      BY DEF Typed, RelaysOK, Hands
    <3>2. CASE held[r].left <= 0
      <4>1. TRUE = (held[r].left <= 0)
        BY <3>1, <3>2
      <4>. QED BY <4>1, Zenon
    <3>3. CASE ~(held[r].left <= 0)
      <4>1. FALSE = (held[r].left <= 0)
        BY <3>1, <3>3
      <4>. QED BY <4>1, Zenon
    <3>. QED BY <3>2, <3>3
  <2>2. PICK hand \in Hands : /\ hand = [held[r] EXCEPT !.stop = ends]
                              /\ hand.row = held[r].row /\ hand.version = held[r].version
                              /\ hand.lease = held[r].lease
    <3>1. PICK old \in Hands : old = held[r]
      BY DEF Typed, RelaysOK
    <3>2. \E hand \in Hands :
            /\ hand = [old EXCEPT !.stop = ends] /\ hand.row = old.row
            /\ hand.version = old.version /\ hand.lease = old.lease
      BY <2>1, <3>1, HandStopped, Zenon
    <3>. QED BY <3>1, <3>2, Zenon
  <2>3. /\ pc' = [pc EXCEPT ![r] = "failed"] /\ held' = [held EXCEPT ![r] = hand]
        /\ lap' = [lap EXCEPT ![r] = l] /\ UNCHANGED <<page, short>>
    BY <1>3, <1>5, <2>1, <2>2 DEF PublishFails
  <2>4. Goes(r, "failed") /\ lap'[r] = l /\ held'[r] = hand
    BY <2>2, <2>3 DEF Goes, Others, Typed, RelaysOK
  <2>5. RelaysOK'
    BY <1>1, <1>2, <2>3, Places DEF Typed, RelaysOK
  <2>6. Typed'
    BY <1>1, <1>2, <1>3, <2>4, <2>5, StillPlaced, Places
  <2>. QED BY <1>1, <1>3, <2>2, <2>4, <2>6
<1>. QED BY <1>4, <1>5

LEMMA ExecutedOK ==
  ASSUME Typed, NEW c \in Calls, NEW by, Execute(c, by),
         accepted' \subseteq Rows, abandoned' \subseteq Rows, closing' \subseteq Relays,
         paused' \subseteq Relays, late' \subseteq Calls, faults' \in Nat, releases' \in Nat
  PROVE  StoreRuns(c, by) /\ SharedOK' /\ failedSince' \in [Relays -> SUBSET Rows]
<1>1. StoreRuns(c, by)
  BY Executed DEF Typed
<1>. QED BY <1>1 DEF StoreRuns, SharedOK

LEMMA MarkInvalidDoes ==
  ASSUME Typed, NEW r \in Relays, MarkInvalid(r)
  PROVE  \E c \in Calls :
           /\ pc[r] = "invalid" /\ c.op = "markInvalid" /\ c.row = held[r].row
           /\ StoreRuns(c, {r}) /\ Settles(r, page[r], lap[r])
           /\ UNCHANGED <<accepted, abandoned, late>> /\ Typed'
<1>1. /\ pc[r] = "invalid" /\ pc[r] \in InHand /\ lap[r] \in Laps
      /\ UNCHANGED <<accepted, abandoned, closing, late, faults, releases>>
      /\ paused' \subseteq Relays
  BY Places DEF MarkInvalid, Runs, Typed, SharedOK, RelaysOK
<1>2. PICK c \in Calls : c = Call(r, "markInvalid", 0) /\ c.op = "markInvalid" /\ c.row = held[r].row
  BY <1>1, CallTyped, Places
<1>3. Execute(c, {r})
  BY <1>2 DEF MarkInvalid
<1>4. StoreRuns(c, {r}) /\ SharedOK' /\ failedSince' \in [Relays -> SUBSET Rows]
  BY <1>1, <1>2, <1>3, ExecutedOK DEF Typed, SharedOK
<1>5. Settles(r, page[r], lap[r])
  BY <1>1, NextRowSettles DEF MarkInvalid, Typed
<1>6. lap[r] # NoLap /\ pc[r] # "idle" /\ Keeps(r, lap[r])
  BY <1>1, NothingTyped, HeldKeeps, Places DEF Typed, Placed
<1>7. Typed'
  BY <1>4, <1>5, <1>6, PutsDownTyped
<1>. QED BY <1>1, <1>2, <1>4, <1>5, <1>7

LEMMA ClaimDoes ==
  ASSUME Typed, NEW r \in Relays, Claim(r)
  PROVE  \E c \in Calls :
           /\ pc[r] = "claim" /\ c.op = "claim" /\ c.row = held[r].row
           /\ c.version = held[r].version /\ c.lease = held[r].lease
           /\ StoreRuns(c, {r}) /\ UNCHANGED <<accepted, abandoned, late>> /\ Typed'
           /\ \/ /\ Applies(c) /\ Goes(r, "fence") /\ lap'[r] = lap[r]
                 /\ held'[r].version = held[r].version + 1
              \/ /\ ~Applies(c)
                 /\ \E l \in Laps :
                      /\ Settles(r, page[r], l) /\ Keeps(r, l)
                      /\ row[held[r].row].status \in {"pending", "failed"} => Shuts(r, l)
<1>1. /\ pc[r] = "claim" /\ pc[r] \in InHand /\ lap[r] \in Laps
      /\ UNCHANGED <<accepted, abandoned, closing, late, faults, releases>>
      /\ paused' \subseteq Relays
  BY Places DEF Claim, Runs, Typed, SharedOK, RelaysOK
<1>2. PICK c \in Calls :
        /\ c = Call(r, "claim", 0) /\ c.op = "claim" /\ c.row = held[r].row
        /\ c.version = held[r].version /\ c.lease = held[r].lease
  BY <1>1, CallTyped, Places
<1>3. Execute(c, {r})
  BY <1>2 DEF Claim
<1>4. StoreRuns(c, {r}) /\ SharedOK' /\ failedSince' \in [Relays -> SUBSET Rows]
  BY <1>1, <1>2, <1>3, ExecutedOK DEF Typed, SharedOK
<1>5. CASE Applies(c)
  <2>1. PICK old \in Hands : old = held[r]
    BY DEF Typed, RelaysOK
  <2>2. PICK next \in Nat : next = old.version + 1
    BY <2>1 DEF Hands
  <2>3. PICK hand \in Hands :
          /\ hand = [old EXCEPT !.version = next] /\ hand.row = old.row
          /\ hand.version = next /\ hand.lease = old.lease
    BY <2>1, <2>2, HandVersioned
  <2>4. /\ pc' = [pc EXCEPT ![r] = "fence"] /\ held' = [held EXCEPT ![r] = hand]
        /\ UNCHANGED <<lap, page, short>>
    BY <1>2, <1>5, <2>1, <2>2, <2>3 DEF Claim, Typed, RelaysOK
  <2>5. Goes(r, "fence") /\ lap'[r] = lap[r] /\ held'[r] = hand
    BY <2>1, <2>3, <2>4 DEF Goes, Others, Typed, RelaysOK
  <2>6. RelaysOK'
    BY <1>4, <2>3, <2>4, Places DEF Typed, RelaysOK
  <2>7. Typed'
    BY <1>1, <1>4, <2>5, <2>6, StillPlaced, HeldKeeps, Places
  <2>. QED BY <1>1, <1>2, <1>4, <1>5, <2>1, <2>2, <2>3, <2>5, <2>7
<1>6. CASE ~Applies(c)
  <2>1. PICK l \in Laps :
          /\ l = Refusal(r) /\ Keeps(r, l)
          /\ row[held[r].row].status \in {"pending", "failed"} => Shuts(r, l)
    BY <1>1, HeldKeeps DEF Keeps
  <2>2. Settles(r, page[r], l)
    BY <1>2, <1>6, <2>1, NextRowSettles DEF Claim, Typed
  <2>3. l # NoLap /\ pc[r] # "idle"
    BY <1>1, <2>1, NothingTyped, Places DEF Keeps, Typed, Placed
  <2>4. Typed'
    BY <1>4, <2>1, <2>2, <2>3, PutsDownTyped
  <2>. QED BY <1>1, <1>2, <1>4, <1>6, <2>1, <2>2, <2>4
<1>. QED BY <1>5, <1>6

LEMMA MarkSentDoes ==
  ASSUME Typed, NEW r \in Relays, MarkSent(r)
  PROVE  \E c \in Calls, l \in Laps :
           /\ pc[r] = "sent" /\ c.op = "markSent" /\ c.row = held[r].row
           /\ c.version = held[r].version
           /\ StoreRuns(c, {r}) /\ UNCHANGED <<accepted, abandoned, late>> /\ Typed'
           /\ Settles(r, page[r], l) /\ Keeps(r, l)
<1>1. /\ pc[r] = "sent" /\ pc[r] \in InHand /\ lap[r] \in Laps
      /\ UNCHANGED <<accepted, abandoned, closing, late, faults, releases>>
      /\ paused' \subseteq Relays
  BY Places DEF MarkSent, Runs, Typed, SharedOK, RelaysOK
<1>2. PICK c \in Calls :
        /\ c = Call(r, "markSent", 0) /\ c.op = "markSent" /\ c.row = held[r].row
        /\ c.version = held[r].version
  BY <1>1, CallTyped, Places
<1>3. Execute(c, {r})
  BY <1>2 DEF MarkSent
<1>4. StoreRuns(c, {r}) /\ SharedOK' /\ failedSince' \in [Relays -> SUBSET Rows]
  BY <1>1, <1>2, <1>3, ExecutedOK DEF Typed, SharedOK
<1>5. PICK l \in Laps : l = (IF Applies(c) THEN lap[r] ELSE Refusal(r)) /\ Keeps(r, l)
  BY <1>1, HeldKeeps DEF Keeps
<1>6. Settles(r, page[r], l)
  BY <1>2, <1>5, NextRowSettles DEF MarkSent, Typed
<1>7. l # NoLap /\ pc[r] # "idle"
  BY <1>1, <1>5, NothingTyped, Places DEF Keeps, Typed, Placed
<1>8. Typed'
  BY <1>4, <1>5, <1>6, <1>7, PutsDownTyped
<1>. QED BY <1>1, <1>2, <1>4, <1>5, <1>6, <1>8

LEMMA MarkFailureDoes ==
  ASSUME Typed, NEW r \in Relays, MarkFailure(r)
  PROVE  \E c \in Calls, rest \in {page[r], {}} :
           /\ pc[r] = "failed" /\ c.op = "markFailure" /\ c.row = held[r].row
           /\ c.version = held[r].version
           /\ StoreRuns(c, {r}) /\ UNCHANGED <<accepted, abandoned, late>> /\ Typed'
           /\ Settles(r, rest, lap[r])
<1>1. /\ pc[r] = "failed" /\ pc[r] \in InHand /\ lap[r] \in Laps
      /\ UNCHANGED <<accepted, abandoned, closing, late, faults, releases>>
      /\ paused' \subseteq Relays
  BY Places DEF MarkFailure, Runs, Typed, SharedOK, RelaysOK
<1>2. PICK available \in Nat : Execute(Call(r, "markFailure", available), {r})
  BY Times DEF MarkFailure, Availabilities
<1>3. PICK c \in Calls :
        /\ c = Call(r, "markFailure", available) /\ c.op = "markFailure" /\ c.row = held[r].row
        /\ c.version = held[r].version
  BY <1>1, <1>2, CallTyped, Places
<1>4. Execute(c, {r})
  BY <1>2, <1>3
<1>5. StoreRuns(c, {r}) /\ SharedOK' /\ failedSince' \in [Relays -> SUBSET Rows]
  BY <1>1, <1>3, <1>4, ExecutedOK DEF Typed, SharedOK
<1>6. PICK rest \in {page[r], {}} : Settles(r, rest, lap[r])
  BY <1>1, NextRowSettles, EndSettles DEF MarkFailure, Typed
<1>7. lap[r] # NoLap /\ pc[r] # "idle" /\ Keeps(r, lap[r])
  BY <1>1, NothingTyped, HeldKeeps, Places DEF Typed, Placed
<1>8. Typed'
  BY <1>5, <1>6, <1>7, PutsDownTyped
<1>. QED BY <1>1, <1>3, <1>5, <1>6, <1>8

LEMMA WriteFailsDoes ==
  ASSUME Typed, NEW r \in Relays, WriteFails(r)
  PROVE  \E c \in Calls, l \in Laps :
           /\ pc[r] \in DOMAIN Op /\ c.op = Op[pc[r]] /\ c.row = held[r].row
           /\ c.version = held[r].version
           /\ UNCHANGED <<row, accepted, abandoned, failedSince>> /\ Typed'
           /\ late' = late \union {c}
           /\ Settles(r, {}, l) /\ Keeps(r, l) /\ Shuts(r, l)
<1>1. /\ pc[r] \in DOMAIN Op /\ pc[r] \in InHand /\ EndSweep(r, HeldBlocked(r))
      /\ UNCHANGED <<row, accepted, abandoned, closing, failedSince, releases>>
      /\ paused' \subseteq Relays /\ faults' \in Nat
  BY DEF WriteFails, Fault, InHand, Typed, SharedOK
<1>2. PICK c \in InFlight(r) : late' = late \union {c}
  BY DEF WriteFails
<1>3. c \in Calls /\ c.op = Op[pc[r]] /\ c.row = held[r].row /\ c.version = held[r].version
  BY <1>1, <1>2, InFlightTyped
<1>4. PICK l \in Laps : l = HeldBlocked(r) /\ Keeps(r, l) /\ Shuts(r, l)
  BY <1>1, HeldBlocks, HeldKeeps
<1>5. Settles(r, {}, l)
  BY <1>1, <1>4, EndSettles DEF Typed
<1>6. SharedOK' /\ failedSince' \in [Relays -> SUBSET Rows]
  BY <1>1, <1>2, <1>3 DEF Typed, SharedOK, RelaysOK
<1>7. Typed'
  BY <1>1, <1>4, <1>5, <1>6, PutsDownTyped, Places
<1>. QED BY <1>1, <1>2, <1>3, <1>4, <1>5, <1>7

LEMMA LateWriteDoes ==
  ASSUME Typed, NEW c \in late, LateWrite(c)
  PROVE  /\ c \in Calls /\ StoreRuns(c, {}) /\ late' = late \ {c} /\ Typed'
         /\ UNCHANGED <<accepted, abandoned, pc, lap, page, held>>
<1>1. /\ c \in Calls /\ late' = late \ {c} /\ Execute(c, {})
      /\ UNCHANGED <<accepted, abandoned, pc, lap, page, short, held, closing, paused, faults, releases>>
  BY DEF LateWrite, Typed, SharedOK
<1>2. StoreRuns(c, {}) /\ SharedOK' /\ failedSince' \in [Relays -> SUBSET Rows]
  BY <1>1, ExecutedOK DEF Typed, SharedOK
<1>3. RelaysOK' /\ Placed'
  BY <1>1, <1>2 DEF Typed, RelaysOK, Placed
<1>. QED BY <1>1, <1>2, <1>3 DEF Typed

LEMMA CloseOrPauseDoes ==
  ASSUME Typed, NEW r \in Relays, Close(r) \/ Pause(r)
  PROVE  /\ UNCHANGED <<row, accepted, abandoned, late, failedSince, pc, lap, page, held>> /\ Typed'
<1>1. /\ UNCHANGED <<row, accepted, abandoned, late, failedSince, pc, lap, page, short, held, releases>>
      /\ closing' \subseteq Relays /\ paused' \subseteq Relays /\ faults' \in Nat
  BY DEF Close, Pause, Fault, Typed, SharedOK
<1>2. SharedOK' /\ RelaysOK' /\ Placed'
  BY <1>1 DEF Typed, SharedOK, RelaysOK, Placed
<1>. QED BY <1>1, <1>2 DEF Typed

LEMMA NewInstanceDoes ==
  ASSUME Typed, NEW r \in Relays, Restart(r) \/ Crash(r)
  PROVE  /\ UNCHANGED <<row, abandoned>> /\ accepted \subseteq accepted' /\ Typed'
         /\ Settles(r, {}, NoLap)
         /\ \A s \in Relays : s # r => failedSince'[s] = failedSince[s]
         /\ \/ late' = late
            \/ /\ pc[r] \in DOMAIN Op
               /\ \E c \in Calls : /\ late' = late \union {c} /\ c.op = Op[pc[r]]
                                   /\ c.row = held[r].row /\ c.version = held[r].version
<1>1. NewInstance(r)
  BY DEF Restart, Crash
<1>2. /\ UNCHANGED <<row, abandoned, releases>> /\ closing' \subseteq Relays /\ paused' \subseteq Relays
      /\ \A s \in Relays : s # r => failedSince'[s] = failedSince[s]
      /\ failedSince' \in [Relays -> SUBSET Rows] /\ Settles(r, {}, NoLap)
  BY <1>1, NothingTyped, EndSettles DEF NewInstance, Typed, SharedOK, RelaysOK
<1>3. accepted \subseteq accepted' /\ accepted' \subseteq Rows /\ faults' \in Nat
  <2>1. pc[r] = "publish" => held[r].row \in Rows
    BY Places DEF Typed, Placed
  <2>. QED BY <2>1 DEF Restart, Crash, Fault, Typed, SharedOK
<1>4. \/ late' = late
      \/ /\ pc[r] \in DOMAIN Op
         /\ \E c \in Calls : /\ late' = late \union {c} /\ c.op = Op[pc[r]]
                             /\ c.row = held[r].row /\ c.version = held[r].version
  <2>1. late' = late \/ (pc[r] \in DOMAIN Op /\ \E c \in InFlight(r) : late' = late \union {c})
    BY DEF Restart, Crash
  <2>. QED BY <2>1, InFlightTyped
<1>5. SharedOK'
  BY <1>2, <1>3, <1>4 DEF Typed, SharedOK
<1>6. Typed'
  BY <1>2, <1>5, SettlesTyped, NothingTyped
<1>. QED BY <1>2, <1>3, <1>4, <1>6

(* Somebody other than a relay changes the status of row i. *)
RowStep(i) ==
  /\ UNCHANGED <<accepted, late, failedSince, pc, lap, page, held>>
  /\ \A j \in Rows : j # i => row'[j] = row[j]
  /\ row'[i].version = row[i].version /\ (row'[i].valid => row[i].valid)

LEMMA RowStepTyped ==
  ASSUME Typed, NEW i \in Rows, NEW new \in Stored, row' = [row EXCEPT ![i] = new],
         UNCHANGED <<accepted, relayVars, late>>, abandoned' \subseteq Rows,
         faults' \in Nat, releases' \in Nat
  PROVE  Typed' /\ row'[i] = new /\ \A j \in Rows : j # i => row'[j] = row[j]
<1>1. row'[i] = new /\ row' \in [Rows -> Stored] /\ \A j \in Rows : j # i => row'[j] = row[j]
  BY DEF Typed, SharedOK
<1>2. SharedOK' /\ RelaysOK' /\ Placed'
  BY <1>1 DEF Typed, SharedOK, RelaysOK, Placed, relayVars
<1>. QED BY <1>1, <1>2 DEF Typed

LEMMA WriteDoes ==
  ASSUME Typed, NEW i \in Rows, Write(i)
  PROVE  /\ RowStep(i) /\ abandoned' = abandoned /\ Typed'
         /\ row[i].status = "none" /\ \A j \in Rows : j < i => row[j].status # "none"
         /\ row'[i].status = "pending"
<1>1. PICK old \in Stored : old = row[i]
  BY DEF Typed, SharedOK
<1> DEFINE new == [old EXCEPT !.status = "pending"]
<1>2. /\ new \in Stored
      /\ new.status = "pending" /\ new.version = old.version /\ new.valid = old.valid
  BY <1>1 DEF Stored, Statuses
<1>3. row' = [row EXCEPT ![i] = new]
  BY <1>1, <1>2 DEF Write, Typed, SharedOK
<1> HIDE DEF new
<1>4. Typed' /\ row'[i] = new /\ \A j \in Rows : j # i => row'[j] = row[j]
  BY <1>2, <1>3, RowStepTyped DEF Write, Typed, SharedOK
<1>. QED BY <1>1, <1>2, <1>4 DEF Write, RowStep, relayVars

LEMMA EditDoes ==
  ASSUME Typed, NEW i \in Rows, Edit(i)
  PROVE  /\ RowStep(i) /\ abandoned' = abandoned /\ Typed'
         /\ row[i].status = "pending" /\ row'[i].status = "pending" /\ ~row'[i].valid
<1>1. PICK old \in Stored : old = row[i]
  BY DEF Typed, SharedOK
<1> DEFINE new == [old EXCEPT !.valid = FALSE]
<1>2. /\ new \in Stored
      /\ ~new.valid /\ new.version = old.version /\ new.status = old.status
  BY <1>1 DEF Stored
<1>3. row' = [row EXCEPT ![i] = new]
  BY <1>1, <1>2 DEF Edit, Typed, SharedOK
<1> HIDE DEF new
<1>4. Typed' /\ row'[i] = new /\ \A j \in Rows : j # i => row'[j] = row[j]
  <2>1. /\ UNCHANGED <<accepted, relayVars, late>> /\ abandoned' \subseteq Rows
        /\ faults' \in Nat /\ releases' \in Nat
    BY DEF Edit, Fault, Typed, SharedOK
  <2>. QED BY <1>2, <1>3, <2>1, RowStepTyped
<1>. QED BY <1>1, <1>2, <1>4 DEF Edit, RowStep, relayVars

LEMMA ReleaseDoes ==
  ASSUME Typed, NEW i \in Rows, Release(i)
  PROVE  /\ RowStep(i) /\ Typed' /\ row[i].status = "failed" /\ row'[i].valid = row[i].valid
         /\ \/ row'[i].status = "pending" /\ abandoned' = abandoned
            \/ row'[i].status = "discarded" /\ abandoned' = abandoned \union {i}
<1>1. PICK old \in Stored : old = row[i]
  BY DEF Typed, SharedOK
<1>2. CASE row' = [row EXCEPT ![i].status = "pending", ![i].attempts = 0,
                              ![i].available = 0, ![i].lease = Past] /\ abandoned' = abandoned
  <2> DEFINE new == [old EXCEPT !.status = "pending", !.attempts = 0, !.available = 0, !.lease = Past]
  <2>1. /\ new \in Stored
        /\ new.status = "pending" /\ new.version = old.version /\ new.valid = old.valid
    BY <1>1, Times DEF Stored, Statuses
  <2>2. row' = [row EXCEPT ![i] = new]
    BY <1>1, <1>2, <2>1 DEF Typed, SharedOK
  <2> HIDE DEF new
  <2>3. Typed' /\ row'[i] = new /\ \A j \in Rows : j # i => row'[j] = row[j]
    <3>1. /\ UNCHANGED <<accepted, relayVars, late>> /\ abandoned' \subseteq Rows
          /\ faults' \in Nat /\ releases' \in Nat
      BY <1>2 DEF Release, Typed, SharedOK
    <3>. QED BY <2>1, <2>2, <3>1, RowStepTyped
  <2>. QED BY <1>1, <1>2, <2>1, <2>3 DEF Release, RowStep, relayVars
<1>3. CASE row' = [row EXCEPT ![i].status = "discarded"] /\ abandoned' = abandoned \union {i}
  <2> DEFINE new == [old EXCEPT !.status = "discarded"]
  <2>1. /\ new \in Stored
        /\ new.status = "discarded" /\ new.version = old.version /\ new.valid = old.valid
    BY <1>1 DEF Stored, Statuses, Settled
  <2>2. row' = [row EXCEPT ![i] = new]
    BY <1>1, <1>3, <2>1 DEF Typed, SharedOK
  <2> HIDE DEF new
  <2>3. Typed' /\ row'[i] = new /\ \A j \in Rows : j # i => row'[j] = row[j]
    <3>1. /\ UNCHANGED <<accepted, relayVars, late>> /\ abandoned' \subseteq Rows
          /\ faults' \in Nat /\ releases' \in Nat
      BY <1>3 DEF Release, Typed, SharedOK
    <3>. QED BY <2>1, <2>2, <3>1, RowStepTyped
  <2>. QED BY <1>1, <1>3, <2>1, <2>3 DEF Release, RowStep, relayVars
<1>. QED BY <1>2, <1>3 DEF Release

LEMMA PurgeDoes ==
  ASSUME Typed, NEW i \in Rows, Purge(i)
  PROVE  /\ RowStep(i) /\ abandoned' = abandoned /\ Typed'
         /\ row[i].status \in Settled /\ row'[i].status = "gone"
<1>1. PICK old \in Stored : old = row[i]
  BY DEF Typed, SharedOK
<1> DEFINE new == [old EXCEPT !.status = "gone"]
<1>2. /\ new \in Stored
      /\ new.status = "gone" /\ new.version = old.version /\ new.valid = old.valid
  BY <1>1 DEF Stored, Statuses
<1>3. row' = [row EXCEPT ![i] = new]
  BY <1>1, <1>2 DEF Purge, Typed, SharedOK
<1> HIDE DEF new
<1>4. Typed' /\ row'[i] = new /\ \A j \in Rows : j # i => row'[j] = row[j]
  BY <1>2, <1>3, RowStepTyped DEF Purge, Typed, SharedOK
<1>. QED BY <1>1, <1>2, <1>4 DEF Purge, RowStep, relayVars

LEMMA SoonerTyped ==
  /\ \A t \in Int : Sooner(t, Past) \in Int /\ Sooner(t, -1) \in Int
  /\ \A t \in Nat : Sooner(t, 0) \in Nat
  BY Times DEF Sooner

(* A tick passes: what a row, a row read, a hand and a call become. *)
Aged(m) == [m EXCEPT !.lease = Sooner(@, Past), !.available = Sooner(@, 0)]
AgedHand(h) == [h EXCEPT !.lease = Sooner(@, Past), !.left = Sooner(@, -1)]

LEMMA AgedTyped ==
  /\ \A m \in Stored :
       /\ Aged(m) \in Stored /\ Aged(m).lease = Sooner(m.lease, Past)
       /\ Aged(m).status = m.status /\ Aged(m).valid = m.valid /\ Aged(m).version = m.version
  /\ \A m \in Read :
       /\ Aged(m) \in Read /\ Aged(m).lease = Sooner(m.lease, Past)
       /\ Aged(m).row = m.row /\ Aged(m).valid = m.valid /\ Aged(m).version = m.version
  /\ \A c \in Calls :
       /\ Aged(c) \in Calls /\ Aged(c).op = c.op /\ Aged(c).row = c.row
       /\ Aged(c).version = c.version
  /\ \A h \in Hands :
       /\ AgedHand(h) \in Hands /\ AgedHand(h).lease = Sooner(h.lease, Past)
       /\ AgedHand(h).left = Sooner(h.left, -1)
       /\ AgedHand(h).row = h.row /\ AgedHand(h).version = h.version
<1>1. ASSUME NEW m \in Stored
      PROVE  /\ Aged(m) \in Stored /\ Aged(m).lease = Sooner(m.lease, Past)
             /\ Aged(m).status = m.status /\ Aged(m).valid = m.valid /\ Aged(m).version = m.version
  <2>1. PICK lease \in Int, available \in Nat :
          lease = Sooner(m.lease, Past) /\ available = Sooner(m.available, 0)
    BY SoonerTyped DEF Stored
  <2>2. Aged(m) = [m EXCEPT !.lease = lease, !.available = available]
    BY <2>1 DEF Aged
  <2>. QED BY <2>1, <2>2 DEF Stored
<1>2. ASSUME NEW m \in Read
      PROVE  /\ Aged(m) \in Read /\ Aged(m).lease = Sooner(m.lease, Past)
             /\ Aged(m).row = m.row /\ Aged(m).valid = m.valid /\ Aged(m).version = m.version
  <2>1. PICK lease \in Int, available \in Nat :
          lease = Sooner(m.lease, Past) /\ available = Sooner(m.available, 0)
    BY SoonerTyped DEF Read
  <2>2. Aged(m) = [m EXCEPT !.lease = lease, !.available = available]
    BY <2>1 DEF Aged
  <2>. QED BY <2>1, <2>2 DEF Read
<1>3. ASSUME NEW c \in Calls
      PROVE  /\ Aged(c) \in Calls /\ Aged(c).op = c.op /\ Aged(c).row = c.row
             /\ Aged(c).version = c.version
  <2>1. PICK lease \in Int, available \in Nat :
          lease = Sooner(c.lease, Past) /\ available = Sooner(c.available, 0)
    BY SoonerTyped DEF Calls
  <2>2. Aged(c) = [c EXCEPT !.lease = lease, !.available = available]
    BY <2>1 DEF Aged
  <2>. QED BY <2>1, <2>2 DEF Calls
<1>4. ASSUME NEW h \in Hands
      PROVE  /\ AgedHand(h) \in Hands /\ AgedHand(h).lease = Sooner(h.lease, Past)
             /\ AgedHand(h).left = Sooner(h.left, -1)
             /\ AgedHand(h).row = h.row /\ AgedHand(h).version = h.version
  <2>1. PICK lease \in Int, left \in Int :
          lease = Sooner(h.lease, Past) /\ left = Sooner(h.left, -1)
    BY SoonerTyped DEF Hands
  <2>2. AgedHand(h) = [h EXCEPT !.lease = lease, !.left = left]
    BY <2>1 DEF AgedHand
  <2>. QED BY <2>1, <2>2 DEF Hands
<1>. QED BY <1>1, <1>2, <1>3, <1>4

LEMMA TickDoes ==
  ASSUME Typed, Tick
  PROVE  /\ UNCHANGED <<accepted, abandoned, pc, lap, failedSince>> /\ Typed'
         /\ \A i \in Rows :
              /\ row'[i].lease = Sooner(row[i].lease, Past) /\ row'[i].version = row[i].version
              /\ row'[i].status = row[i].status /\ row'[i].valid = row[i].valid
         /\ \A r \in Relays :
              /\ \A n \in page'[r] : \E m \in page[r] :
                   /\ n.row = m.row /\ n.valid = m.valid /\ n.version = m.version
                   /\ n.lease = Sooner(m.lease, Past)
              /\ \A m \in page[r] : \E n \in page'[r] : n.row = m.row
              /\ held'[r].row = held[r].row /\ held'[r].version = held[r].version
              /\ held'[r].lease = Sooner(held[r].lease, Past)
              /\ held'[r].left = Sooner(held[r].left, -1)
         /\ \A d \in late' : \E c \in late :
              d.op = c.op /\ d.row = c.row /\ d.version = c.version
<1>1. /\ row' = [i \in Rows |-> Aged(row[i])]
      /\ page' = [r \in Relays |-> {Aged(m) : m \in page[r]}]
      /\ held' = [r \in Relays |-> AgedHand(held[r])]
      /\ late' = {Aged(c) : c \in late}
      /\ UNCHANGED <<accepted, abandoned, pc, lap, short, closing, paused, failedSince, faults, releases>>
  BY DEF Tick, Aged, AgedHand
<1>2. \A i \in Rows :
        /\ row'[i] \in Stored
        /\ row'[i].lease = Sooner(row[i].lease, Past) /\ row'[i].version = row[i].version
        /\ row'[i].status = row[i].status /\ row'[i].valid = row[i].valid
  BY <1>1, AgedTyped DEF Typed, SharedOK
<1>3. ASSUME NEW r \in Relays
      PROVE  /\ page'[r] \subseteq Read
             /\ \A n \in page'[r] : \E m \in page[r] :
                   /\ n.row = m.row /\ n.valid = m.valid /\ n.version = m.version
                   /\ n.lease = Sooner(m.lease, Past)
             /\ \A m \in page[r] : \E n \in page'[r] : n.row = m.row
  <2>1. page[r] \subseteq Read /\ page'[r] = {Aged(m) : m \in page[r]}
    BY <1>1 DEF Typed, RelaysOK
  <2>. QED BY <2>1, AgedTyped
<1>4. \A r \in Relays :
        /\ held'[r] \in Hands
        /\ held'[r].row = held[r].row /\ held'[r].version = held[r].version
        /\ held'[r].lease = Sooner(held[r].lease, Past)
        /\ held'[r].left = Sooner(held[r].left, -1)
  BY <1>1, AgedTyped DEF Typed, RelaysOK
<1>5. /\ \A d \in late' : \E c \in late : d.op = c.op /\ d.row = c.row /\ d.version = c.version
      /\ late' \subseteq Calls
  BY <1>1, AgedTyped DEF Typed, SharedOK
<1>6. row' \in [Rows -> Stored] /\ page' \in [Relays -> SUBSET Read] /\ held' \in [Relays -> Hands]
  BY <1>1, <1>2, <1>3, <1>4
<1>7. SharedOK' /\ RelaysOK'
  BY <1>1, <1>5, <1>6 DEF Typed, SharedOK, RelaysOK
<1>8. Placed'
  <2>1. ASSUME NEW r \in Relays, NEW a \in page'[r], NEW b \in page'[r], a.row = b.row
        PROVE  a = b
    <3>1. PICK m \in page[r], n \in page[r] : a = Aged(m) /\ b = Aged(n)
      BY <1>1
    <3>2. m \in Read /\ n \in Read
      BY <3>1 DEF Typed, RelaysOK
    <3>3. m.row = n.row
      BY <2>1, <3>1, <3>2, AgedTyped
    <3>. QED BY <3>1, <3>3 DEF Typed, Placed
  <2>. QED BY <1>1, <1>3, <1>4, <2>1 DEF Typed, Placed
<1>. QED BY <1>1, <1>2, <1>3, <1>4, <1>5, <1>7, <1>8 DEF Typed
-----------------------------------------------------------------------------
(* Types hold: see Placed for what they need. *)
LEMMA InitTyped == Init => Typed
<1> SUFFICES ASSUME Init PROVE Typed
  OBVIOUS
<1> USE DEF Init
<1>1. \A i \in Rows : row[i] \in Stored
  BY Times DEF Stored, Statuses
<1>2. SharedOK
  BY <1>1 DEF SharedOK
<1>3. RelaysOK
  BY NothingTyped DEF RelaysOK, Resting
<1>4. Placed
  BY Places DEF Placed
<1>. QED BY <1>2, <1>3, <1>4 DEF Typed

LEMMA StutterTyped == Typed /\ UNCHANGED vars => Typed'
  BY DEF Typed, SharedOK, RelaysOK, Placed, vars, relayVars

LEMMA NextTyped ==
  ASSUME Typed, [Next]_vars
  PROVE  Typed'
<1>1. ASSUME NEW r \in Relays, Sweeps(r) PROVE Typed'
  BY <1>1, SeedDoes, ScanDoes, ExamineDoes, MarkInvalidDoes, ClaimDoes, FenceDoes, PublishedDoes,
     MarkSentDoes, MarkFailureDoes, NewInstanceDoes DEF Sweeps
<1>2. ASSUME NEW r \in Relays, Suffers(r) PROVE Typed'
  BY <1>2, StopDoes, RefusedDoes, PublishFailsDoes, WriteFailsDoes, CloseOrPauseDoes,
     NewInstanceDoes DEF Suffers
<1>3. ASSUME NEW i \in Rows, Write(i) \/ Edit(i) \/ Release(i) \/ Purge(i) PROVE Typed'
  BY <1>3, WriteDoes, EditDoes, ReleaseDoes, PurgeDoes
<1>. QED BY <1>1, <1>2, <1>3, LateWriteDoes, TickDoes, StutterTyped DEF Next

(* The types hold, a relay has rows or a row in hand only in a lap, and the row *)
(* in hand is at the cursor, in front of those it has yet to examine.           *)
THEOREM OutboxTypeOK == Spec => []TypeOK
  BY InitTyped, NextTyped, TypedTypeOK, PTL DEF Spec
-----------------------------------------------------------------------------
(* The steps by what they do to a relay's row in hand. *)
Reached(r) ==
  \/ lap'[r].cursor = lap[r].cursor \/ lap'[r].cursor = 0
  \/ \E m \in page[r] : lap'[r].cursor = m.row
SameRows == \A i \in Rows : row'[i] = row[i]
Sends(r, c) == c.op = Op[pc[r]] /\ c.row = held[r].row /\ c.version = held[r].version

(* It is put down unwritten; a write given up may still be under way. *)
PutsDown(r) ==
  /\ Others(r) /\ pc'[r] \in Resting /\ page'[r] \subseteq page[r] /\ Reached(r)
  /\ SameRows /\ accepted \subseteq accepted' /\ abandoned' = abandoned
  /\ \/ late' = late
     \/ pc[r] \in DOMAIN Op /\ \E c \in Calls : late' = late \union {c} /\ Sends(r, c)

(* It is put down once it is written. *)
Settling(r, c) ==
  /\ Others(r) /\ pc'[r] \in Resting /\ page'[r] \subseteq page[r] /\ Reached(r)
  /\ pc[r] \in {"invalid", "sent", "failed"} /\ c.op = Op[pc[r]] /\ c.row = held[r].row
  /\ pc[r] # "invalid" => c.version = held[r].version
  /\ StoreRuns(c, {r}) /\ UNCHANGED <<accepted, abandoned, late>>

(* The relay reads rows, takes one in hand, claims it, or goes on with it. *)
Reads(r) ==
  /\ Others(r) /\ pc'[r] \in Resting /\ lap'[r].cursor \in {lap[r].cursor, 0}
  /\ \A m \in page'[r] : m.row \in Rows /\ m = Snapshot(m.row) /\ row[m.row].status = "pending"
  /\ SameRows /\ UNCHANGED <<accepted, abandoned, late>>
Takes(r, m) ==
  /\ Others(r) /\ m \in page[r] /\ lap'[r].cursor = m.row /\ page'[r] \subseteq page[r]
  /\ pc'[r] = (IF m.valid THEN "claim" ELSE "invalid")
  /\ held'[r].row = m.row /\ held'[r].version = m.version /\ m.lease <= 0
  /\ SameRows /\ UNCHANGED <<accepted, abandoned, late>>
Claims(r, c) ==
  /\ pc[r] = "claim" /\ Goes(r, "fence") /\ lap'[r].cursor = lap[r].cursor
  /\ held'[r].version = held[r].version + 1
  /\ Sends(r, c) /\ c.lease = held[r].lease /\ Applies(c) /\ StoreRuns(c, {r})
  /\ UNCHANGED <<accepted, abandoned, late>>
GoesOn(r) ==
  /\ pc[r] \in {"fence", "publish"} /\ lap'[r].cursor = lap[r].cursor
  /\ held'[r].version = held[r].version /\ SameRows /\ UNCHANGED <<abandoned, late>>
  /\ \/ /\ pc[r] = "fence" /\ Goes(r, "publish") /\ accepted' = accepted
        /\ held'[r].left + StoreTimeout + Skew <= held[r].lease
     \/ pc[r] = "publish" /\ Goes(r, "sent") /\ accepted' = accepted \union {held[r].row}
     \/ pc[r] = "publish" /\ Goes(r, "failed") /\ accepted \subseteq accepted'
Rests == UNCHANGED <<row, accepted, abandoned, late, pc, page, held>>
         /\ \A r \in Relays : lap'[r].cursor \in {lap[r].cursor, 0}

RelayStep ==
  \E r \in Relays :
    \/ PutsDown(r) \/ Reads(r) \/ GoesOn(r)
    \/ \E c \in Calls : Settling(r, c) \/ Claims(r, c)
    \/ \E m \in page[r] : Takes(r, m)

LEMMA SettlesReached ==
  ASSUME NEW r \in Relays, NEW rest, NEW l, Settles(r, rest, l),
         \/ l.cursor = lap[r].cursor \/ l.cursor = 0 \/ \E m \in page[r] : l.cursor = m.row
  PROVE  Others(r) /\ pc'[r] \in Resting /\ page'[r] = rest /\ Reached(r)
  BY DEF Settles, Reached, NoLap, Resting

LEMMA SameRowsUnless ==
  ASSUME Typed, NEW c \in Calls, NEW by, StoreRuns(c, by), ~Applies(c) PROVE SameRows
  BY DEF StoreRuns, SameRows

LEMMA SweepsSteps ==
  ASSUME Typed, NEW r \in Relays, Sweeps(r)
  PROVE  RelayStep \/ Rests
<1>1. CASE Seed(r)
  BY <1>1, SeedDoes DEF Rests
<1>2. CASE Scan(r)
  <2>1. PICK rest \in SUBSET Read :
          /\ Settles(r, rest, lap[r]) /\ Steady
          /\ \A m \in rest : row[m.row].status = "pending" /\ m = Snapshot(m.row)
    BY <1>2, ScanDoes
  <2>2. Others(r) /\ pc'[r] \in Resting /\ page'[r] = rest /\ lap'[r].cursor \in {lap[r].cursor, 0}
    BY <2>1 DEF Settles, NoLap, Resting
  <2>3. \A m \in rest : m.row \in Rows
    BY DEF Read
  <2>4. Reads(r)
    BY <2>1, <2>2, <2>3 DEF Reads, SameRows, Steady
  <2>. QED BY <2>4 DEF RelayStep
<1>3. CASE Examine(r)
  <2>1. PICK m \in page[r], next \in Laps :
          /\ next.cursor = m.row /\ Steady
          /\ \/ Settles(r, page[r] \ {m}, next)
             \/ /\ Others(r) /\ lap'[r] = next /\ page'[r] = page[r] \ {m}
                /\ pc'[r] = (IF m.valid THEN "claim" ELSE "invalid")
                /\ held'[r].row = m.row /\ held'[r].version = m.version
                /\ m.lease <= 0
    BY <1>3, ExamineDoes
  <2>2. CASE Settles(r, page[r] \ {m}, next)
    <3>1. Others(r) /\ pc'[r] \in Resting /\ page'[r] = page[r] \ {m} /\ Reached(r)
      BY <2>1, <2>2, SettlesReached
    <3>2. PutsDown(r)
      BY <2>1, <3>1 DEF PutsDown, Steady, SameRows
    <3>. QED BY <3>2 DEF RelayStep
  <2>3. CASE ~Settles(r, page[r] \ {m}, next)
    <3>1. Takes(r, m)
      BY <2>1, <2>3 DEF Takes, Steady, SameRows
    <3>. QED BY <3>1 DEF RelayStep
  <2>. QED BY <2>2, <2>3
<1>4. CASE MarkInvalid(r)
  <2>1. PICK c \in Calls :
          /\ pc[r] = "invalid" /\ c.op = "markInvalid" /\ c.row = held[r].row
          /\ StoreRuns(c, {r}) /\ Settles(r, page[r], lap[r])
          /\ UNCHANGED <<accepted, abandoned, late>>
    BY <1>4, MarkInvalidDoes
  <2>2. Settling(r, c)
    BY <2>1, SettlesReached, Places DEF Settling
  <2>. QED BY <2>2 DEF RelayStep
<1>5. CASE Claim(r)
  <2>1. PICK c \in Calls :
           /\ pc[r] = "claim" /\ c.op = "claim" /\ c.row = held[r].row
           /\ c.version = held[r].version /\ c.lease = held[r].lease
           /\ StoreRuns(c, {r}) /\ UNCHANGED <<accepted, abandoned, late>>
           /\ \/ /\ Applies(c) /\ Goes(r, "fence") /\ lap'[r] = lap[r]
                 /\ held'[r].version = held[r].version + 1
              \/ /\ ~Applies(c)
                 /\ \E l \in Laps : Settles(r, page[r], l) /\ Keeps(r, l)
    BY <1>5, ClaimDoes
  <2>2. CASE Applies(c)
    <3>1. Claims(r, c)
      BY <2>1, <2>2, Places DEF Claims, Sends
    <3>. QED BY <3>1 DEF RelayStep
  <2>3. CASE ~Applies(c)
    <3>1. PICK l \in Laps : Settles(r, page[r], l) /\ Keeps(r, l)
      BY <2>1, <2>3
    <3>2. SameRows
      BY <2>1, <2>3, SameRowsUnless
    <3>3. PutsDown(r)
      BY <2>1, <3>1, <3>2, SettlesReached DEF PutsDown, Keeps
    <3>. QED BY <3>3 DEF RelayStep
  <2>. QED BY <2>2, <2>3
<1>6. CASE Fence(r)
  <2>1. pc[r] = "fence" /\ Steady
    BY <1>6, FenceDoes
  <2>2. CASE \E l \in Laps : Settles(r, page[r], l) /\ Keeps(r, l)
    <3>1. PutsDown(r)
      BY <2>1, <2>2, SettlesReached DEF PutsDown, Keeps, Steady, SameRows
    <3>. QED BY <3>1 DEF RelayStep
  <2>3. CASE ~\E l \in Laps : Settles(r, page[r], l) /\ Keeps(r, l)
    <3>1. GoesOn(r)
      BY <1>6, <2>1, <2>3, FenceDoes DEF GoesOn, Steady, SameRows
    <3>. QED BY <3>1 DEF RelayStep
  <2>. QED BY <2>2, <2>3
<1>7. CASE Published(r)
  <2>1. GoesOn(r)
    BY <1>7, PublishedDoes DEF GoesOn, SameRows
  <2>. QED BY <2>1 DEF RelayStep
<1>8. CASE MarkSent(r)
  <2>1. PICK c \in Calls, l \in Laps :
           /\ pc[r] = "sent" /\ c.op = "markSent" /\ c.row = held[r].row
           /\ c.version = held[r].version
           /\ StoreRuns(c, {r}) /\ UNCHANGED <<accepted, abandoned, late>>
           /\ Settles(r, page[r], l) /\ Keeps(r, l)
    BY <1>8, MarkSentDoes
  <2>2. Settling(r, c)
    BY <2>1, SettlesReached, Places DEF Settling, Keeps
  <2>. QED BY <2>2 DEF RelayStep
<1>9. CASE MarkFailure(r)
  <2>1. PICK c \in Calls, rest \in {page[r], {}} :
           /\ pc[r] = "failed" /\ c.op = "markFailure" /\ c.row = held[r].row
           /\ c.version = held[r].version
           /\ StoreRuns(c, {r}) /\ UNCHANGED <<accepted, abandoned, late>>
           /\ Settles(r, rest, lap[r])
    BY <1>9, MarkFailureDoes
  <2>2. Settling(r, c)
    BY <2>1, SettlesReached, Places DEF Settling
  <2>. QED BY <2>2 DEF RelayStep
<1>10. CASE Restart(r)
  <2>1. PutsDown(r)
    BY <1>10, NewInstanceDoes, SettlesReached DEF PutsDown, SameRows, Sends, NoLap
  <2>. QED BY <2>1 DEF RelayStep
<1>. QED BY <1>1, <1>2, <1>3, <1>4, <1>5, <1>6, <1>7, <1>8, <1>9, <1>10 DEF Sweeps

LEMMA SuffersSteps ==
  ASSUME Typed, NEW r \in Relays, Suffers(r)
  PROVE  RelayStep \/ Rests
<1>1. CASE Stop(r)
  <2>1. PutsDown(r)
    BY <1>1, StopDoes, SettlesReached DEF PutsDown, SameRows, Steady
  <2>. QED BY <2>1 DEF RelayStep
<1>2. CASE Refused(r)
  <2>1. PutsDown(r)
    BY <1>2, RefusedDoes, SettlesReached DEF PutsDown, SameRows, Steady, Keeps
  <2>. QED BY <2>1 DEF RelayStep
<1>3. CASE PublishFails(r)
  <2>1. PICK l \in Laps :
          /\ pc[r] = "publish" /\ UNCHANGED <<row, abandoned, late>> /\ accepted \subseteq accepted'
          /\ Keeps(r, l)
          /\ \/ Settles(r, {}, l)
             \/ Goes(r, "failed") /\ lap'[r] = l /\ held'[r].version = held[r].version
    BY <1>3, PublishFailsDoes
  <2>2. CASE Settles(r, {}, l)
    <3>1. PutsDown(r)
      BY <2>1, <2>2, SettlesReached DEF PutsDown, SameRows, Keeps
    <3>. QED BY <3>1 DEF RelayStep
  <2>3. CASE ~Settles(r, {}, l)
    <3>1. GoesOn(r)
      BY <2>1, <2>3 DEF GoesOn, SameRows, Keeps
    <3>. QED BY <3>1 DEF RelayStep
  <2>. QED BY <2>2, <2>3
<1>4. CASE WriteFails(r)
  <2>1. PutsDown(r)
    BY <1>4, WriteFailsDoes, SettlesReached DEF PutsDown, SameRows, Sends, Keeps
  <2>. QED BY <2>1 DEF RelayStep
<1>5. CASE Close(r) \/ Pause(r)
  BY <1>5, CloseOrPauseDoes DEF Rests
<1>6. CASE Crash(r)
  <2>1. PutsDown(r)
    BY <1>6, NewInstanceDoes, SettlesReached DEF PutsDown, SameRows, Sends, NoLap
  <2>. QED BY <2>1 DEF RelayStep
<1>. QED BY <1>1, <1>2, <1>3, <1>4, <1>5, <1>6 DEF Suffers
-----------------------------------------------------------------------------
(* The invariant about the store and the claims. *)
Owning == {"fence", "publish", "sent", "failed"}
Has(r, at, i) == pc[r] \in at /\ held[r].row = i

(* What is marked sent has been accepted. *)
AcceptedFirst ==
  /\ \A r \in Relays : pc[r] = "sent" => held[r].row \in accepted
  /\ \A c \in late : c.op = "markSent" => c.row \in accepted
(* Rows commit in the order of their positions: no relay is ahead of them. *)
InOrder ==
  /\ \A i, j \in Rows : row[i].status # "none" /\ j < i => row[j].status # "none"
  /\ \A r \in Relays : \A m \in page[r] : row[m.row].status # "none"
  /\ \A r \in Relays : \A j \in Rows : j <= lap[r].cursor => row[j].status # "none"
(* Nobody is ahead of the version of a row, and what does not decode never will. *)
Known ==
  /\ \A r \in Relays : \A m \in page[r] :
       m.version <= row[m.row].version /\ (row[m.row].valid => m.valid)
  /\ \A r \in Relays : \A i \in Rows :
       /\ Has(r, InHand, i) => held[r].version <= row[i].version
       /\ Has(r, {"invalid"}, i) => ~row[i].valid
  /\ \A c \in late :
       c.version <= row[c.row].version /\ (c.op = "markInvalid" => ~row[c.row].valid)
(* A version of a row has one owner, and no owner once its write was given up. *)
OneOwner ==
  /\ \A r, s \in Relays : \A i \in Rows :
       r # s /\ Has(r, Owning, i) /\ Has(s, Owning, i) => held[r].version # held[s].version
  /\ \A r \in Relays : \A c \in late :
       Has(r, Owning, c.row) /\ c.op \in {"markSent", "markFailure"} => c.version # held[r].version
(* Until an owner's claim ends, its row tells of that claim, or does not decode, *)
(* and so do the rows that were read; nobody claims that version, or has.        *)
LeasedTo(r, i) ==
  /\ row[i].version = held[r].version /\ row[i].valid =>
       row[i].status = "pending" /\ row[i].lease = held[r].lease
  /\ row[i].version > held[r].version => held[r].lease <= 0
  /\ \A s \in Relays : \A m \in page[s] :
       m.row = i /\ m.version = held[r].version /\ m.valid => m.lease = held[r].lease
  /\ \A s \in Relays :
       Has(s, {"claim"}, i) /\ held[s].version = held[r].version => held[r].lease <= 0
  /\ \A c \in late :
       c.op = "claim" /\ c.row = i /\ c.version = held[r].version => held[r].lease <= 0
  /\ pc[r] = "publish" /\ held[r].left >= 0 =>
       held[r].left + StoreTimeout + Skew <= held[r].lease
Leased == \A r \in Relays : \A i \in Rows : Has(r, Owning, i) => LeasedTo(r, i)
Claimed == AcceptedFirst /\ NothingLost /\ InOrder /\ Known /\ OneOwner /\ Leased

LEMMA InitClaimed == Init => Claimed
<1> SUFFICES ASSUME Init PROVE Claimed
  OBVIOUS
<1> USE DEF Init
<1>1. \A r \in Relays : pc[r] = "idle" /\ page[r] = {} /\ lap[r].cursor = 0
  BY DEF NoLap
<1>2. late = {} /\ \A i \in Rows : row[i].status = "none" /\ i > 0 /\ i \in Nat
  BY Numbered
<1>3. AcceptedFirst /\ NothingLost /\ InOrder
  BY <1>1, <1>2 DEF AcceptedFirst, NothingLost, InOrder
<1>4. Known /\ OneOwner /\ Leased
  BY <1>1, <1>2, Places DEF Known, OneOwner, Leased, Has, Owning
<1>. QED BY <1>3, <1>4 DEF Claimed

(* Domains, for the leaves. *)
LEMMA Facts ==
  ASSUME Typed
  PROVE  /\ \A i \in Rows : /\ i \in Nat /\ row[i].version \in Nat /\ row[i].lease \in Int
                            /\ row[i].valid \in BOOLEAN /\ row[i].status \in Statuses
         /\ \A r \in Relays : /\ held[r].version \in Nat /\ held[r].lease \in Int
                              /\ held[r].left \in Int /\ lap[r].cursor \in Nat
         /\ \A r \in Relays : pc[r] \in InHand => held[r].row \in Rows
         /\ \A r \in Relays : \A m \in page[r] : /\ m.row \in Rows /\ m.version \in Nat
                                                 /\ m.lease \in Int /\ m.valid \in BOOLEAN
         /\ \A c \in late : c \in Calls
         /\ \A c \in Calls : c.row \in Rows /\ c.version \in Nat /\ c.lease \in Int
  BY Numbered DEF Typed, SharedOK, RelaysOK, Placed, Stored, Hands, Laps, Read, Calls

LEMMA PutsDownKeeps ==
  ASSUME Typed, Typed', Claimed, NEW r \in Relays, PutsDown(r)
  PROVE  Claimed'
<1> USE DEF Claimed, PutsDown, Others, SameRows, Sends
<1>0. pc'[r] \notin InHand /\ pc'[r] \notin Owning /\ pc'[r] # "sent"
  BY Places DEF Resting, Owning
<1>1. AcceptedFirst'
  BY <1>0, Places DEF AcceptedFirst
<1>2. NothingLost'
  BY DEF NothingLost
<1>3. InOrder'
  BY Facts DEF InOrder, Reached
<1>4. Known'
  <2>1. \A s \in Relays : \A m \in page'[s] :
          m.version <= row'[m.row].version /\ (row'[m.row].valid => m.valid)
    BY Facts DEF Known
  <2>2. \A s \in Relays : \A i \in Rows :
          /\ Has(s, InHand, i)' => held'[s].version <= row'[i].version
          /\ Has(s, {"invalid"}, i)' => ~row'[i].valid
    BY <1>0, Places DEF Known, Has
  <2>3. ASSUME NEW c \in late'
        PROVE  c.version <= row'[c.row].version /\ (c.op = "markInvalid" => ~row'[c.row].valid)
    <3>1. CASE c \in late
      BY <3>1, Facts DEF Known
    <3>2. CASE c \notin late
      <4>1. pc[r] \in DOMAIN Op /\ Sends(r, c) /\ c \in Calls
        BY <2>3, <3>2
      <4>2. c.row \in Rows /\ c.version = held[r].version /\ Has(r, {pc[r]}, c.row)
        BY <4>1, Facts DEF Has
      <4>3. pc[r] \in InHand
        BY <4>1, Places
      <4>4. held[r].version <= row[c.row].version
        BY <4>2, <4>3 DEF Known, Has
      <4>5. c.op = "markInvalid" => ~row[c.row].valid
        BY <4>1, <4>2, Places DEF Known, Has
      <4>. QED BY <4>2, <4>4, <4>5, Facts
    <3>. QED BY <3>1, <3>2
  <2>. QED BY <2>1, <2>2, <2>3 DEF Known
<1>5. OneOwner'
  BY <1>0, Facts, Places DEF OneOwner, Has, Owning
<1>6. Leased'
  BY <1>0, Facts, Places DEF Leased, LeasedTo, Has, Owning
<1>. QED BY <1>1, <1>2, <1>3, <1>4, <1>5, <1>6

LEMMA SettlingKeeps ==
  ASSUME Typed, Typed', Claimed, NEW r \in Relays, NEW c \in Calls, Settling(r, c)
  PROVE  Claimed'
<1> USE DEF Claimed, Settling, Others, StoreRuns
<1>0. pc'[r] \notin InHand /\ pc'[r] \notin Owning /\ pc'[r] # "sent" /\ c.op # "claim"
  BY Places DEF Resting, Owning
<1>1. AcceptedFirst'
  BY <1>0 DEF AcceptedFirst
<1>2. NothingLost'
  BY Places DEF NothingLost, AcceptedFirst
<1>3. InOrder'
  <2>1. \A i \in Rows : row[i].status # "none" => row'[i].status # "none"
    BY <1>0, Facts, Places
  <2>2. \A i \in Rows : row'[i].status # "none" => row[i].status # "none"
    BY <1>0, Facts, Places
  <2>3. \A i, j \in Rows : row'[i].status # "none" /\ j < i => row'[j].status # "none"
    BY <2>1, <2>2 DEF InOrder
  <2>4. \A s \in Relays : \A m \in page'[s] : row'[m.row].status # "none"
    BY <2>1, Facts DEF InOrder
  <2>5. \A s \in Relays : \A j \in Rows : j <= lap'[s].cursor => row'[j].status # "none"
    <3>1. \A j \in Rows : j <= lap'[r].cursor => row[j].status # "none"
      <4>1. CASE lap'[r].cursor = lap[r].cursor
        BY <4>1 DEF InOrder
      <4>2. CASE lap'[r].cursor = 0
        BY <4>2, Numbered
      <4>3. CASE \E m \in page[r] : lap'[r].cursor = m.row
        <5>1. PICK m \in page[r] : lap'[r].cursor = m.row
          BY <4>3
        <5>2. m.row \in Rows /\ row[m.row].status # "none"
          BY Facts DEF InOrder
        <5>3. \A j \in Rows : j < m.row => row[j].status # "none"
          BY <5>2 DEF InOrder
        <5>4. \A j \in Rows : j <= m.row => j < m.row \/ j = m.row
          BY <5>2, Numbered
        <5>. QED BY <5>1, <5>2, <5>3, <5>4
      <4>. QED BY <4>1, <4>2, <4>3 DEF Reached
    <3>. QED BY <2>1, <3>1 DEF InOrder
  <2>. QED BY <2>3, <2>4, <2>5 DEF InOrder
<1>4. Known'
  BY <1>0, Facts, Places DEF Known, Has, Owning
<1>5. OneOwner'
  BY <1>0, Facts DEF OneOwner, Has, Owning
<1>6. Leased'
  BY <1>0, Facts, Places DEF Leased, LeasedTo, Has, Owning, OneOwner, Known
<1>. QED BY <1>1, <1>2, <1>3, <1>4, <1>5, <1>6

LEMMA ReadsKeeps ==
  ASSUME Typed, Typed', Claimed, NEW r \in Relays, Reads(r)
  PROVE  Claimed'
<1> USE DEF Claimed, Reads, Others, SameRows
<1>0. pc'[r] \notin InHand /\ pc'[r] \notin Owning /\ pc'[r] # "sent"
  BY Places DEF Resting, Owning
<1>1. AcceptedFirst'
  BY <1>0 DEF AcceptedFirst
<1>2. NothingLost'
  BY DEF NothingLost
<1>3. InOrder'
  BY Facts DEF InOrder
<1>4. Known'
  <2>1. \A m \in page'[r] : m.version = row[m.row].version /\ m.valid = row[m.row].valid
    BY DEF Snapshot
  <2>2. \A s \in Relays : \A m \in page'[s] :
          m.version <= row'[m.row].version /\ (row'[m.row].valid => m.valid)
    BY <2>1, Facts DEF Known
  <2>. QED BY <1>0, <2>2, Facts, Places DEF Known, Has
<1>5. OneOwner'
  BY <1>0, Facts DEF OneOwner, Has, Owning
<1>6. Leased'
  <2> SUFFICES ASSUME NEW s \in Relays, NEW i \in Rows, Has(s, Owning, i)'
               PROVE  LeasedTo(s, i)'
    BY DEF Leased
  <2>1. s # r /\ Has(s, Owning, i) /\ pc'[s] = pc[s] /\ held'[s] = held[s]
    BY <1>0 DEF Has
  <2>2. LeasedTo(s, i)
    BY <2>1 DEF Leased
  <2>3. \A m \in page'[r] : /\ m.version = row[m.row].version /\ m.valid = row[m.row].valid
                           /\ m.lease = row[m.row].lease
    BY DEF Snapshot
  <2>4. \A q \in Relays : \A m \in page'[q] :
          m.row = i /\ m.version = held[s].version /\ m.valid => m.lease = held[s].lease
    BY <2>2, <2>3 DEF LeasedTo
  <2>5. \A q \in Relays : Has(q, {"claim"}, i)' => Has(q, {"claim"}, i) /\ held'[q] = held[q]
    BY <1>0, Places DEF Has
  <2>. QED BY <2>1, <2>2, <2>4, <2>5 DEF LeasedTo
<1>. QED BY <1>1, <1>2, <1>3, <1>4, <1>5, <1>6

LEMMA TakesKeeps ==
  ASSUME Typed, Typed', Claimed, NEW r \in Relays, NEW m \in page[r], Takes(r, m)
  PROVE  Claimed'
<1> USE DEF Claimed, Takes, Others, SameRows
<1>0. pc'[r] \notin Owning /\ pc'[r] # "sent"
  BY DEF Owning
<1>1. AcceptedFirst'
  BY <1>0 DEF AcceptedFirst
<1>2. NothingLost'
  BY DEF NothingLost
<1>3. InOrder'
  BY Facts DEF InOrder
<1>4. Known'
  BY <1>0, Facts, Places DEF Known, Has, Owning
<1>5. OneOwner'
  BY <1>0, Facts DEF OneOwner, Has, Owning
<1>6. Leased'
  BY <1>0, Facts DEF Leased, LeasedTo, Has, Owning
<1>. QED BY <1>1, <1>2, <1>3, <1>4, <1>5, <1>6

LEMMA ClaimsKeeps ==
  ASSUME Typed, Typed', Claimed, NEW r \in Relays, NEW c \in Calls, Claims(r, c)
  PROVE  Claimed'
<1> USE DEF Claimed, Claims, Goes, Others, StoreRuns, Sends
<1>0. /\ pc'[r] = "fence" /\ c.op = "claim" /\ c.row = held[r].row /\ held[r].row \in Rows
      /\ row[c.row].version = c.version
  BY Places, Facts
<1>1. AcceptedFirst'
  BY <1>0 DEF AcceptedFirst
<1>2. NothingLost'
  BY <1>0, Facts DEF NothingLost
<1>3. InOrder'
  BY <1>0, Facts DEF InOrder
<1>4. Known'
  BY <1>0, Facts, Places DEF Known, Has, Owning
<1>5. OneOwner'
  BY <1>0, Facts, Places DEF OneOwner, Has, Owning, Known
<1>6. Leased'
  <2> SUFFICES ASSUME NEW s \in Relays, NEW i \in Rows, Has(s, Owning, i)'
               PROVE  LeasedTo(s, i)'
    BY DEF Leased
  <2>1. \A j \in Rows : j # c.row => row'[j] = row[j]
    BY <1>0
  <2>2. /\ row'[c.row].version = c.version + 1 /\ row'[c.row].lease = held[r].lease
        /\ row'[c.row].status = "pending"
    BY <1>0
  <2>3. CASE s = r
    <3>1. i = c.row /\ held'[s].version = c.version + 1 /\ held'[s].lease = held[r].lease
      BY <1>0, <2>3 DEF Has
    <3>2. \A q \in Relays : \A m \in page'[q] : m.row = i => m.version <= c.version
      BY <1>0, <3>1, Facts DEF Known
    <3>3. \A q \in Relays : Has(q, {"claim"}, i)' => held'[q].version <= c.version
      BY <1>0, <3>1, Facts, Places DEF Known, Has
    <3>4. \A d \in late' : d.row = i => d.version <= c.version
      BY <1>0, <3>1, Facts DEF Known
    <3>. QED BY <1>0, <2>2, <2>3, <3>1, <3>2, <3>3, <3>4, Facts DEF LeasedTo
  <2>4. CASE s # r
    <3>1. Has(s, Owning, i) /\ held'[s] = held[s] /\ pc'[s] = pc[s]
      BY <2>4 DEF Has
    <3>2. LeasedTo(s, i) /\ held[s].version <= row[i].version
      BY <3>1, Places DEF Leased, Known, Has, Owning
    <3>3. i = c.row /\ held[s].version = c.version => held[s].lease <= 0
      BY <1>0, <3>2 DEF LeasedTo, Has
    <3>4. /\ row'[i].version = held[s].version /\ row'[i].valid =>
               row'[i].status = "pending" /\ row'[i].lease = held[s].lease
          /\ row'[i].version > held[s].version => held[s].lease <= 0
      <4>1. CASE i = c.row
        <5>1. held[s].version < row'[i].version /\ held[s].version \in Nat
          BY <1>0, <2>2, <3>2, <4>1, Facts
        <5>2. held[s].version = c.version \/ row[i].version > held[s].version
          BY <1>0, <3>2, <4>1, Facts
        <5>. QED BY <3>2, <3>3, <4>1, <5>1, <5>2 DEF LeasedTo
      <4>2. CASE i # c.row
        BY <2>1, <3>2, <4>2 DEF LeasedTo
      <4>. QED BY <4>1, <4>2
    <3>5. \A q \in Relays : page'[q] = page[q] /\ (Has(q, {"claim"}, i)' => Has(q, {"claim"}, i))
      BY <1>0 DEF Has
    <3>6. \A q \in Relays : Has(q, {"claim"}, i)' => held'[q] = held[q]
      BY <1>0 DEF Has
    <3>. QED BY <3>1, <3>2, <3>4, <3>5, <3>6 DEF LeasedTo
  <2>. QED BY <2>3, <2>4
<1>. QED BY <1>1, <1>2, <1>3, <1>4, <1>5, <1>6

LEMMA GoesOnKeeps ==
  ASSUME Typed, Typed', Claimed, NEW r \in Relays, GoesOn(r)
  PROVE  Claimed'
<1> USE DEF Claimed, GoesOn, Goes, Others, SameRows
<1>0. /\ pc[r] \in Owning /\ pc'[r] \in Owning /\ held'[r].row = held[r].row
      /\ held'[r].lease = held[r].lease /\ held'[r].version = held[r].version
      /\ page'[r] = page[r] /\ held[r].row \in Rows /\ accepted \subseteq accepted'
  BY Facts, Places DEF Owning
<1>1. AcceptedFirst'
  BY <1>0, Facts DEF AcceptedFirst
<1>2. NothingLost'
  BY <1>0 DEF NothingLost
<1>3. InOrder'
  BY <1>0, Facts DEF InOrder
<1>4. Known'
  BY <1>0, Facts, Places DEF Known, Has, Owning
<1>5. OneOwner'
  BY <1>0, Facts DEF OneOwner, Has, Owning
<1>6. Leased'
  BY <1>0, Facts DEF Leased, LeasedTo, Has, Owning
<1>. QED BY <1>1, <1>2, <1>3, <1>4, <1>5, <1>6

LEMMA RestsKeeps ==
  ASSUME Typed, Typed', Claimed, Rests
  PROVE  Claimed'
<1> USE DEF Claimed, Rests
<1>1. AcceptedFirst' /\ NothingLost' /\ InOrder'
  BY Facts DEF AcceptedFirst, NothingLost, InOrder
<1>2. Known' /\ OneOwner' /\ Leased'
  BY DEF Known, OneOwner, Leased, LeasedTo, Has
<1>. QED BY <1>1, <1>2

LEMMA LateWriteKeeps ==
  ASSUME Typed, Typed', Claimed, NEW c \in late, c \in Calls, StoreRuns(c, {}),
         late' = late \ {c}, UNCHANGED <<accepted, abandoned, pc, lap, page, held>>
  PROVE  Claimed'
<1> USE DEF Claimed, StoreRuns
<1>0. c.op \in {"markInvalid", "claim", "markSent", "markFailure"} /\ c.row \in Rows
  BY Places DEF Calls
<1>1. AcceptedFirst'
  BY DEF AcceptedFirst
<1>2. NothingLost'
  BY <1>0 DEF NothingLost, AcceptedFirst
<1>3. InOrder'
  BY <1>0, Facts DEF InOrder
<1>4. Known'
  BY <1>0, Facts, Places DEF Known, Has, Owning
<1>5. OneOwner'
  BY <1>0, Facts DEF OneOwner, Has, Owning
<1>6. Leased'
  BY <1>0, Facts, Places DEF Leased, LeasedTo, Has, Owning, OneOwner, Known
<1>. QED BY <1>1, <1>2, <1>3, <1>4, <1>5, <1>6

LEMMA RowStepKeeps ==
  ASSUME Typed, Typed', Claimed, NEW i \in Rows, RowStep(i),
         abandoned \subseteq abandoned',
         \/ /\ row[i].status = "none" /\ row'[i].status = "pending"
            /\ \A j \in Rows : j < i => row[j].status # "none"
         \/ row[i].status = "pending" /\ row'[i].status = "pending" /\ ~row'[i].valid
         \/ row[i].status = "failed" /\ row'[i].status = "pending"
         \/ row[i].status = "failed" /\ row'[i].status = "discarded" /\ i \in abandoned'
         \/ row[i].status \in Settled /\ row'[i].status = "gone"
  PROVE  Claimed'
<1> USE DEF Claimed, RowStep
<1>1. AcceptedFirst'
  BY DEF AcceptedFirst
<1>2. NothingLost'
  BY DEF NothingLost, Settled
<1>3. InOrder'
  <2>1. \A j \in Rows : row[j].status # "none" => row'[j].status # "none"
    BY DEF Settled
  <2>2. \A j \in Rows : row'[j].status # "none" => row[j].status # "none" \/ j = i
    BY Facts
  <2>3. row[i].status # "none" \/ \A j \in Rows : j < i => row[j].status # "none"
    BY DEF Settled
  <2>4. \A k, j \in Rows : row'[k].status # "none" /\ j < k => row'[j].status # "none"
    BY <2>1, <2>2, <2>3 DEF InOrder
  <2>. QED BY <2>1, <2>4, Facts DEF InOrder
<1>4. Known'
  BY Facts, Places DEF Known, Has, Owning
<1>5. OneOwner'
  BY Facts DEF OneOwner, Has, Owning
<1>6. Leased'
  BY Facts, Places DEF Leased, LeasedTo, Has, Owning, Settled, InOrder, Typed, Placed
<1>. QED BY <1>1, <1>2, <1>3, <1>4, <1>5, <1>6

LEMMA TickKeeps ==
  ASSUME Typed, Typed', Claimed, Tick
  PROVE  Claimed'
<1> USE DEF Claimed
<1>0. /\ UNCHANGED <<accepted, abandoned, pc, lap>>
      /\ \A i \in Rows :
           /\ row'[i].lease = Sooner(row[i].lease, Past) /\ row'[i].version = row[i].version
           /\ row'[i].status = row[i].status /\ row'[i].valid = row[i].valid
      /\ \A r \in Relays :
           /\ held'[r].row = held[r].row /\ held'[r].version = held[r].version
           /\ held'[r].lease = Sooner(held[r].lease, Past)
           /\ held'[r].left = Sooner(held[r].left, -1)
  BY TickDoes
<1>1. \A r \in Relays : \A n \in page'[r] : \E m \in page[r] :
        /\ n.row = m.row /\ n.valid = m.valid /\ n.version = m.version
        /\ n.lease = Sooner(m.lease, Past)
  BY TickDoes
<1>2. \A d \in late' : \E c \in late : d.op = c.op /\ d.row = c.row /\ d.version = c.version
  BY TickDoes
<1>3. \A r \in Relays : \A i \in Rows : \A at : Has(r, at, i)' <=> Has(r, at, i)
  BY <1>0 DEF Has
<1>4. AcceptedFirst'
  BY <1>0, <1>2 DEF AcceptedFirst
<1>5. NothingLost'
  BY <1>0 DEF NothingLost
<1>6. InOrder'
  BY <1>0, <1>1, Facts DEF InOrder
<1>7. Known'
  BY <1>0, <1>1, <1>2, Facts, Places DEF Known, Has
<1>8. OneOwner'
  BY <1>0, <1>2, Facts DEF OneOwner, Has
<1>9. Leased'
  <2> SUFFICES ASSUME NEW r \in Relays, NEW i \in Rows, Has(r, Owning, i)'
               PROVE  LeasedTo(r, i)'
    BY DEF Leased
  <2>1. LeasedTo(r, i)
    BY <1>0 DEF Leased, Has
  <2>2. PICK old \in Int : old = held[r].lease
    BY Facts
  <2>3. held'[r].version = held[r].version /\ held'[r].lease = Sooner(old, Past)
    BY <1>0, <2>2
  <2>4. old <= 0 => Sooner(old, Past) <= 0
    BY <2>2, Times DEF Sooner
  <2>5. /\ row'[i].version = held'[r].version /\ row'[i].valid =>
             row'[i].status = "pending" /\ row'[i].lease = held'[r].lease
        /\ row'[i].version > held'[r].version => held'[r].lease <= 0
    BY <1>0, <2>1, <2>2, <2>3, <2>4 DEF LeasedTo
  <2>6. \A s \in Relays : \A n \in page'[s] :
          n.row = i /\ n.version = held'[r].version /\ n.valid => n.lease = held'[r].lease
    BY <1>1, <2>1, <2>2, <2>3 DEF LeasedTo
  <2>7. \A s \in Relays :
          Has(s, {"claim"}, i)' /\ held'[s].version = held'[r].version => held'[r].lease <= 0
    BY <1>0, <2>1, <2>2, <2>3, <2>4 DEF LeasedTo, Has
  <2>8. \A d \in late' :
          d.op = "claim" /\ d.row = i /\ d.version = held'[r].version => held'[r].lease <= 0
    BY <1>2, <2>1, <2>2, <2>3, <2>4 DEF LeasedTo
  <2>9. pc'[r] = "publish" /\ held'[r].left >= 0 =>
          held'[r].left + StoreTimeout + Skew <= held'[r].lease
    <3>1. PICK left \in Int : left = held[r].left
      BY Facts
    <3>2. SUFFICES ASSUME pc[r] = "publish", Sooner(left, -1) >= 0
                   PROVE  Sooner(left, -1) + StoreTimeout + Skew <= Sooner(old, Past)
      BY <1>0, <2>3, <3>1
    <3>3. left > 0 /\ Sooner(left, -1) = left - 1
      BY <3>1, <3>2 DEF Sooner
    <3>4. left + StoreTimeout + Skew <= old
      BY <2>1, <2>2, <3>1, <3>2, <3>3 DEF LeasedTo
    <3>5. old > Past /\ Sooner(old, Past) = old - 1
      BY <2>2, <3>1, <3>3, <3>4, Times DEF Sooner
    <3>. QED BY <2>2, <3>1, <3>3, <3>4, <3>5, Times
  <2>. QED BY <2>5, <2>6, <2>7, <2>8, <2>9 DEF LeasedTo
<1>. QED BY <1>4, <1>5, <1>6, <1>7, <1>8, <1>9

LEMMA StutterKeeps ==
  ASSUME Typed, Claimed, UNCHANGED vars PROVE Claimed'
<1>1. Rests /\ Typed'
  BY StutterTyped DEF Rests, vars, relayVars
<1>. QED BY <1>1, RestsKeeps

LEMMA NextClaimed ==
  ASSUME Typed, Claimed, [Next]_vars
  PROVE  Claimed'
<1>0. Typed'
  BY NextTyped
<1>1. RelayStep => Claimed'
  BY <1>0, PutsDownKeeps, SettlingKeeps, ReadsKeeps, TakesKeeps, ClaimsKeeps, GoesOnKeeps
     DEF RelayStep
<1>2. ASSUME NEW r \in Relays, Sweeps(r) \/ Suffers(r) PROVE Claimed'
  BY <1>0, <1>1, <1>2, SweepsSteps, SuffersSteps, RestsKeeps
<1>3. ASSUME NEW i \in Rows, Write(i) \/ Edit(i) \/ Release(i) \/ Purge(i) PROVE Claimed'
  <2>1. CASE Write(i)
    BY <1>0, <2>1, WriteDoes, RowStepKeeps
  <2>2. CASE Edit(i)
    BY <1>0, <2>2, EditDoes, RowStepKeeps
  <2>3. CASE Release(i)
    BY <1>0, <2>3, ReleaseDoes, RowStepKeeps
  <2>4. CASE Purge(i)
    BY <1>0, <2>4, PurgeDoes, RowStepKeeps
  <2>. QED BY <1>3, <2>1, <2>2, <2>3, <2>4
<1>4. ASSUME NEW c \in late, LateWrite(c) PROVE Claimed'
  BY <1>0, <1>4, LateWriteDoes, LateWriteKeeps
<1>5. Tick => Claimed'
  BY <1>0, TickKeeps
<1>. QED BY <1>2, <1>3, <1>4, <1>5, StutterKeeps DEF Next

(* A row leaves the pending rows for good only once the broker has accepted it *)
(* or an operator has discarded it.                                            *)
THEOREM OutboxNothingLost == Spec => []NothingLost
<1>1. Typed /\ Claimed /\ [Next]_vars => (Typed /\ Claimed)'
  BY NextTyped, NextClaimed
<1>2. Claimed => NothingLost
  BY DEF Claimed
<1>. QED BY <1>1, <1>2, InitTyped, InitClaimed, PTL DEF Spec

LEMMA ClaimedExclusive == Typed /\ Claimed => ExclusivePublish
<1> SUFFICES ASSUME Typed, Claimed, NEW i \in Rows, NEW r \in Relays, NEW s \in Relays,
                    r # s, Publishing(r, i), Publishing(s, i)
             PROVE  held[r].left < 0 \/ held[s].left < 0
  BY DEF ExclusivePublish
<1>1. Has(r, Owning, i) /\ Has(s, Owning, i)
  BY DEF Publishing, Has, Owning
<1>2. LeasedTo(r, i) /\ LeasedTo(s, i) /\ held[r].version # held[s].version
  BY <1>1 DEF Claimed, Leased, OneOwner
<1>3. held[r].version <= row[i].version /\ held[s].version <= row[i].version
  BY <1>1, Places DEF Claimed, Known, Has, Owning
<1>4. held[r].lease <= 0 \/ held[s].lease <= 0
  BY <1>2, <1>3, Facts DEF LeasedTo
<1>5. ASSUME NEW q \in {r, s}, held[q].lease <= 0 PROVE held[q].left < 0
  <2>1. pc[q] = "publish" /\ (held[q].left >= 0 =>
                               held[q].left + StoreTimeout + Skew <= held[q].lease)
    BY <1>2 DEF LeasedTo, Publishing
  <2>2. held[q].left \in Int /\ held[q].lease \in Int
    BY Facts
  <2>. QED BY <1>5, <2>1, <2>2, Times
<1>. QED BY <1>4, <1>5

(* No two relays publish one row at a time, unless one was paused past the *)
(* bound of its own publish.                                               *)
THEOREM OutboxExclusivePublish == Spec => []ExclusivePublish
<1>1. Typed /\ Claimed /\ [Next]_vars => (Typed /\ Claimed)'
  BY NextTyped, NextClaimed
<1>. QED BY <1>1, ClaimedExclusive, InitTyped, InitClaimed, PTL DEF Spec
-----------------------------------------------------------------------------
(* The invariant about a lap: it is past a row once the row is no longer to be *)
(* published before others of its key.                                         *)
Passed(r, j) ==
  \/ KeyOf[j] = NoKey \/ lap[r].cap \/ KeyOf[j] \in lap[r].blocked
  \/ j \in accepted \union abandoned \union failedSince[r]

InLap(r) ==
  /\ \A j \in Rows : row[j].status \notin {"none", "pending"} => Passed(r, j)
  /\ \A j \in Rows : j <= lap[r].cursor => Passed(r, j) \/ Has(r, InHand, j)
  /\ \A m \in page[r] : \A j \in Rows :
       lap[r].cursor < j /\ j < m.row => Passed(r, j) \/ \E n \in page[r] : n.row = j
  /\ \A i \in Rows :
       /\ Has(r, {"invalid", "failed"}, i) => Passed(r, i)
       /\ Has(r, {"claim", "fence", "publish", "sent"}, i) =>
            KeyOf[i] = NoKey \/ (~lap[r].cap /\ KeyOf[i] \notin lap[r].blocked)
Ordered == \A r \in Relays : lap[r].on => InLap(r)

(* What a relay that takes no part in a step needs of it. *)
Watches(s) ==
  lap[s].on =>
    /\ failedSince[s] \subseteq failedSince'[s]
    /\ \A j \in Rows : row[j].status # "failed" /\ row'[j].status = "failed" => j \in failedSince'[s]
Grows == accepted \subseteq accepted' /\ abandoned \subseteq abandoned'

LEMMA Lost ==
  ASSUME Typed', Claimed', NEW j \in Rows, row'[j].status \notin {"none", "pending", "failed"}
  PROVE  j \in accepted' \union abandoned'
<1>1. row'[j].status \in Statuses
  BY DEF Typed, SharedOK, Stored
<1>. QED BY <1>1 DEF Claimed, NothingLost, Statuses, Settled

LEMMA StaysOrdered ==
  ASSUME Typed, Typed', Claimed', NEW s \in Relays, lap[s].on => InLap(s),
         Watches(s), Grows, pc'[s] = pc[s], lap'[s] = lap[s], held'[s].row = held[s].row,
         \A n \in page'[s] : \E m \in page[s] : n.row = m.row,
         \A m \in page[s] : \E n \in page'[s] : n.row = m.row
  PROVE  lap'[s].on => InLap(s)'
<1> SUFFICES ASSUME lap[s].on PROVE InLap(s)'
  OBVIOUS
<1>1. InLap(s)
  OBVIOUS
<1>2. \A j \in Rows : Passed(s, j) => Passed(s, j)'
  BY DEF Passed, Watches, Grows
<1>3. \A j \in Rows : row'[j].status \notin {"none", "pending"} => Passed(s, j)'
  <2> SUFFICES ASSUME NEW j \in Rows, row'[j].status \notin {"none", "pending"}
               PROVE  Passed(s, j)'
    OBVIOUS
  <2>1. CASE row'[j].status = "failed"
    <3>1. CASE row[j].status = "failed"
      BY <1>1, <1>2, <3>1 DEF InLap
    <3>2. CASE row[j].status # "failed"
      BY <2>1, <3>2 DEF Watches, Passed
    <3>. QED BY <3>1, <3>2
  <2>2. CASE row'[j].status # "failed"
    BY <2>2, Lost DEF Passed
  <2>. QED BY <2>1, <2>2
<1>4. \A at : \A j \in Rows : Has(s, at, j)' <=> Has(s, at, j)
  BY DEF Has
<1>5. \A m \in page'[s] : \A j \in Rows :
        lap[s].cursor < j /\ j < m.row => Passed(s, j)' \/ \E n \in page'[s] : n.row = j
  BY <1>1, <1>2 DEF InLap
<1>. QED BY <1>1, <1>2, <1>3, <1>4, <1>5 DEF InLap

(* Every other relay, in a step of relay r. *)
LEMMA OthersOrdered ==
  ASSUME Typed, Typed', Claimed', Ordered, NEW r \in Relays, Others(r), Grows,
         \A s \in Relays : s # r => Watches(s),
         lap'[r].on => InLap(r)'
  PROVE  Ordered'
<1> SUFFICES ASSUME NEW s \in Relays, s # r PROVE lap'[s].on => InLap(s)'
  BY DEF Ordered
<1>1. pc'[s] = pc[s] /\ lap'[s] = lap[s] /\ page'[s] = page[s] /\ held'[s] = held[s]
  BY DEF Others
<1>. QED BY <1>1, StaysOrdered DEF Ordered

LEMMA SteadyWatches == Steady => Grows /\ \A s \in Relays : Watches(s)
  BY DEF Steady, Grows, Watches

LEMMA StoreWatches ==
  ASSUME NEW c, NEW by, StoreRuns(c, by)
  PROVE  \A s \in Relays : s \notin by => Watches(s)
  BY DEF StoreRuns, Watches

(* A relay that puts its row down has passed it. *)
LEMMA SettlesOrdered ==
  ASSUME Typed, Typed', Claimed', Ordered, NEW r \in Relays, NEW l, NEW rest \in {page[r], {}},
         Settles(r, rest, l), Keeps(r, l), Grows,
         failedSince[r] \subseteq failedSince'[r],
         \A j \in Rows : row'[j].status = "failed" => row[j].status = "failed" \/ Has(r, InHand, j),
         \A j \in Rows : Has(r, InHand, j) => Passed(r, j)',
         pc[r] # "idle"
  PROVE  lap'[r].on => InLap(r)'
<1> SUFFICES ASSUME lap'[r].on PROVE InLap(r)'
  OBVIOUS
<1>1. lap'[r] = l /\ pc'[r] \in Resting /\ page'[r] = rest /\ lap[r].on
  BY NothingTyped DEF Settles, Keeps, Resting
<1>2. InLap(r)
  BY <1>1 DEF Ordered
<1>3. \A j \in Rows : Passed(r, j) => Passed(r, j)'
  BY <1>1 DEF Passed, Keeps, Grows
<1>4. \A j \in Rows : row'[j].status \notin {"none", "pending"} => Passed(r, j)'
  <2> SUFFICES ASSUME NEW j \in Rows, row'[j].status \notin {"none", "pending"}
               PROVE  Passed(r, j)'
    OBVIOUS
  <2>1. CASE row'[j].status = "failed"
    BY <1>2, <1>3, <2>1 DEF InLap
  <2>2. CASE row'[j].status # "failed"
    BY <2>2, Lost DEF Passed
  <2>. QED BY <2>1, <2>2
<1>5. lap'[r].cursor = lap[r].cursor
  BY <1>1 DEF Keeps
<1>6. \A j \in Rows : j <= lap'[r].cursor => Passed(r, j)'
  BY <1>2, <1>3, <1>5 DEF InLap
<1>7. \A m \in page'[r] : \A j \in Rows :
        lap'[r].cursor < j /\ j < m.row => Passed(r, j)' \/ \E n \in page'[r] : n.row = j
  BY <1>1, <1>2, <1>3, <1>5 DEF InLap
<1>8. \A at \in SUBSET InHand : \A j \in Rows : ~Has(r, at, j)'
  BY <1>1, Places DEF Has, Resting
<1>9. {"invalid", "failed"} \subseteq InHand /\ {"claim", "fence", "publish", "sent"} \subseteq InHand
  BY Places
<1>. QED BY <1>4, <1>6, <1>7, <1>8, <1>9 DEF InLap

LEMMA EndsOrdered ==
  ASSUME Typed, Typed', Claimed', Ordered, NEW r \in Relays, Settles(r, {}, NoLap), Grows,
         \A s \in Relays : s # r => Watches(s)
  PROVE  Ordered'
<1>1. Others(r) /\ ~lap'[r].on
  BY NothingTyped DEF Settles
<1>. QED BY <1>1, OthersOrdered

(* The row in hand is passed in a lap that has its key blocked. *)
LEMMA ShutPasses ==
  ASSUME NEW r \in Relays, NEW l, Shuts(r, l), lap'[r] = l, NEW j, held[r].row = j
  PROVE  Passed(r, j)'
  BY DEF Shuts, Passed

LEMMA SettledLap ==
  ASSUME NEW r \in Relays, NEW rest, NEW l, Settles(r, rest, l), lap'[r].on
  PROVE  lap'[r] = l
  BY NothingTyped DEF Settles

(* Steps that put a row down without a call of their own having failed it. *)
LEMMA DropsOrdered ==
  ASSUME Typed, Typed', Claimed', Ordered, NEW r \in Relays, NEW l, NEW rest \in {page[r], {}},
         Settles(r, rest, l), Keeps(r, l), Grows, SameRows,
         failedSince' = failedSince, pc[r] # "idle",
         \A j \in Rows : Has(r, InHand, j) => Shuts(r, l) \/ j \in accepted' \union abandoned'
  PROVE  Ordered'
<1>1. CASE lap'[r].on
  <2>1. lap'[r] = l
    BY <1>1, SettledLap
  <2>2. \A j \in Rows : Has(r, InHand, j) => Passed(r, j)'
    BY <2>1, ShutPasses DEF Has, Passed
  <2>3. InLap(r)'
    BY <1>1, <2>2, SettlesOrdered DEF SameRows
  <2>4. Others(r) /\ \A s \in Relays : Watches(s)
    BY DEF Settles, Watches, SameRows
  <2>. QED BY <2>3, <2>4, OthersOrdered
<1>2. CASE ~lap'[r].on
  <2>1. Others(r) /\ \A s \in Relays : Watches(s)
    BY DEF Settles, Watches, SameRows
  <2>. QED BY <1>2, <2>1, OthersOrdered
<1>. QED BY <1>1, <1>2

LEMMA StopOrdered ==
  ASSUME Typed, Typed', Claimed', Ordered, NEW r \in Relays, Stop(r) PROVE Ordered'
<1>1. pc[r] = "row" /\ Settles(r, {}, lap[r]) /\ Steady
  BY StopDoes
<1>2. Keeps(r, lap[r])
  BY DEF Typed, RelaysOK, Keeps
<1>3. \A j \in Rows : ~Has(r, InHand, j)
  BY <1>1, Places DEF Has
<1>. QED BY <1>1, <1>2, <1>3, DropsOrdered DEF Steady, Grows, SameRows

LEMMA RefusedOrdered ==
  ASSUME Typed, Typed', Claimed', Ordered, NEW r \in Relays, Refused(r) PROVE Ordered'
<1>1. PICK l \in Laps : /\ pc[r] = "fence" /\ Steady
                        /\ Settles(r, {}, l) /\ Keeps(r, l) /\ Shuts(r, l)
  BY RefusedDoes
<1>. QED BY <1>1, DropsOrdered DEF Steady, Grows, SameRows

LEMMA WriteFailsOrdered ==
  ASSUME Typed, Typed', Claimed', Ordered, NEW r \in Relays, WriteFails(r) PROVE Ordered'
<1>1. PICK l \in Laps : /\ pc[r] # "idle" /\ UNCHANGED <<row, accepted, abandoned, failedSince>>
                        /\ Settles(r, {}, l) /\ Keeps(r, l) /\ Shuts(r, l)
  BY WriteFailsDoes, Places
<1>. QED BY <1>1, DropsOrdered DEF Grows, SameRows

LEMMA NewInstanceOrdered ==
  ASSUME Typed, Typed', Claimed', Ordered, NEW r \in Relays, Restart(r) \/ Crash(r)
  PROVE  Ordered'
<1>1. /\ UNCHANGED <<row, abandoned>> /\ accepted \subseteq accepted'
      /\ Settles(r, {}, NoLap)
      /\ \A s \in Relays : s # r => failedSince'[s] = failedSince[s]
  BY NewInstanceDoes
<1>. QED BY <1>1, EndsOrdered DEF Grows, Watches

(* The row a relay goes on with stays in hand. *)
LEMMA GoesOrdered ==
  ASSUME Typed, Typed', Claimed', Ordered, NEW r \in Relays, NEW at \in InHand, Goes(r, at),
         pc[r] \in InHand, Keeps(r, lap'[r]), Grows, \A s \in Relays : s # r => Watches(s),
         failedSince[r] \subseteq failedSince'[r],
         \A j \in Rows : row'[j].status = "failed" => row[j].status = "failed",
         IF at \in {"invalid", "failed"} THEN Shuts(r, lap'[r])
         ELSE lap'[r] = lap[r] /\ pc[r] \in {"claim", "fence", "publish", "sent"}
  PROVE  Ordered'
<1>1. /\ pc'[r] = at /\ page'[r] = page[r] /\ lap'[r].cursor = lap[r].cursor
      /\ held'[r].row = held[r].row /\ lap[r].on /\ held[r].row \in Rows
  BY Places DEF Goes, Keeps, Typed, Placed
<1>2. InLap(r)
  BY <1>1 DEF Ordered
<1>3. \A j \in Rows : Passed(r, j) => Passed(r, j)'
  BY DEF Passed, Keeps, Grows
<1>4. \A j \in Rows : row'[j].status \notin {"none", "pending"} => Passed(r, j)'
  <2> SUFFICES ASSUME NEW j \in Rows, row'[j].status \notin {"none", "pending"}
               PROVE  Passed(r, j)'
    OBVIOUS
  <2>1. CASE row'[j].status = "failed"
    BY <1>2, <1>3, <2>1 DEF InLap
  <2>2. CASE row'[j].status # "failed"
    BY <2>2, Lost DEF Passed
  <2>. QED BY <2>1, <2>2
<1>5. \A j \in Rows : j <= lap'[r].cursor => Passed(r, j)' \/ Has(r, InHand, j)'
  BY <1>1, <1>2, <1>3 DEF InLap, Has
<1>6. \A m \in page'[r] : \A j \in Rows :
        lap'[r].cursor < j /\ j < m.row => Passed(r, j)' \/ \E n \in page'[r] : n.row = j
  BY <1>1, <1>2, <1>3 DEF InLap
<1>7. ASSUME NEW i \in Rows, Has(r, {"invalid", "failed"}, i)' PROVE Passed(r, i)'
  BY <1>1, <1>7, ShutPasses DEF Has
<1>8. ASSUME NEW i \in Rows, Has(r, {"claim", "fence", "publish", "sent"}, i)'
      PROVE  KeyOf[i] = NoKey \/ (~lap'[r].cap /\ KeyOf[i] \notin lap'[r].blocked)
  <2>1. lap'[r] = lap[r] /\ Has(r, {"claim", "fence", "publish", "sent"}, i)
    BY <1>1, <1>8 DEF Has
  <2>. QED BY <1>2, <2>1 DEF InLap
<1>9. InLap(r)'
  BY <1>4, <1>5, <1>6, <1>7, <1>8 DEF InLap
<1>10. Others(r)
  BY DEF Goes
<1>. QED BY <1>9, <1>10, OthersOrdered

LEMMA FenceOrdered ==
  ASSUME Typed, Typed', Claimed', Ordered, NEW r \in Relays, Fence(r) PROVE Ordered'
<1>1. /\ pc[r] = "fence" /\ Steady
      /\ \/ \E l \in Laps : Settles(r, page[r], l) /\ Keeps(r, l) /\ Shuts(r, l)
         \/ Goes(r, "publish") /\ lap'[r] = lap[r]
  BY FenceDoes
<1>2. CASE \E l \in Laps : Settles(r, page[r], l) /\ Keeps(r, l) /\ Shuts(r, l)
  BY <1>1, <1>2, DropsOrdered DEF Steady, Grows, SameRows
<1>3. CASE Goes(r, "publish") /\ lap'[r] = lap[r]
  <2>1. Keeps(r, lap'[r]) /\ "publish" \in InHand /\ pc[r] \in InHand
    BY <1>1, <1>3, HeldKeeps, Places
  <2>. QED BY <1>1, <1>3, <2>1, GoesOrdered, SteadyWatches DEF Steady
<1>. QED BY <1>1, <1>2, <1>3

LEMMA PublishedOrdered ==
  ASSUME Typed, Typed', Claimed', Ordered, NEW r \in Relays, Published(r) PROVE Ordered'
<1>1. /\ pc[r] = "publish" /\ UNCHANGED <<row, abandoned, late, failedSince>>
      /\ accepted \subseteq accepted' /\ Goes(r, "sent") /\ lap'[r] = lap[r]
  BY PublishedDoes
<1>2. Keeps(r, lap'[r]) /\ "sent" \in InHand /\ pc[r] \in InHand
  BY <1>1, HeldKeeps, Places
<1>3. Grows /\ \A s \in Relays : Watches(s)
  BY <1>1 DEF Grows, Watches
<1>. QED BY <1>1, <1>2, <1>3, GoesOrdered

LEMMA PublishFailsOrdered ==
  ASSUME Typed, Typed', Claimed', Ordered, NEW r \in Relays, PublishFails(r) PROVE Ordered'
<1>1. PICK l \in Laps :
        /\ pc[r] = "publish" /\ UNCHANGED <<row, abandoned, failedSince>>
        /\ accepted \subseteq accepted' /\ Keeps(r, l) /\ Shuts(r, l)
        /\ Settles(r, {}, l) \/ (Goes(r, "failed") /\ lap'[r] = l)
  BY PublishFailsDoes
<1>2. Grows /\ \A s \in Relays : Watches(s)
  BY <1>1 DEF Grows, Watches
<1>3. CASE Settles(r, {}, l)
  BY <1>1, <1>2, <1>3, DropsOrdered DEF SameRows
<1>4. CASE Goes(r, "failed") /\ lap'[r] = l
  BY <1>1, <1>2, <1>4, GoesOrdered, Places
<1>. QED BY <1>1, <1>3, <1>4

LEMMA SettlingOrdered ==
  ASSUME Typed, Typed', Claimed', Ordered, NEW r \in Relays, NEW c \in Calls, NEW l,
         NEW rest \in {page[r], {}}, Settles(r, rest, l), Keeps(r, l), pc[r] \in InHand,
         UNCHANGED <<accepted, abandoned>>, StoreRuns(c, {r}), c.row = held[r].row,
         \A j \in Rows : Has(r, InHand, j) => Passed(r, j) \/ j \in accepted
  PROVE  Ordered'
<1>1. Grows /\ Others(r) /\ \A s \in Relays : s # r => Watches(s)
  BY StoreWatches DEF Grows, Settles
<1>2. failedSince[r] \subseteq failedSince'[r] /\ pc[r] # "idle"
  BY Places DEF StoreRuns
<1>3. \A j \in Rows : row'[j].status = "failed" => row[j].status = "failed" \/ Has(r, InHand, j)
  BY DEF StoreRuns, Has
<1>4. CASE lap'[r].on
  <2>1. lap'[r] = l
    BY <1>4, SettledLap
  <2>2. \A j \in Rows : Has(r, InHand, j) => Passed(r, j)'
    BY <1>2, <2>1 DEF Passed, Keeps
  <2>3. InLap(r)'
    BY <1>1, <1>2, <1>3, <1>4, <2>2, SettlesOrdered
  <2>. QED BY <1>1, <2>3, OthersOrdered
<1>5. CASE ~lap'[r].on
  BY <1>1, <1>5, OthersOrdered
<1>. QED BY <1>4, <1>5

LEMMA MarksOrdered ==
  ASSUME Typed, Typed', Claimed, Claimed', Ordered, NEW r \in Relays,
         MarkInvalid(r) \/ MarkFailure(r) \/ MarkSent(r)
  PROVE  Ordered'
<1>1. pc[r] \in {"invalid", "failed", "sent"} /\ pc[r] \in InHand
  BY MarkInvalidDoes, MarkFailureDoes, MarkSentDoes, Places
<1>2. lap[r].on /\ Keeps(r, lap[r])
  BY <1>1, HeldKeeps, Places DEF Typed, Placed
<1>3. InLap(r)
  BY <1>2 DEF Ordered
<1>4. \A j \in Rows : Has(r, InHand, j) => Passed(r, j) \/ j \in accepted
  <2> SUFFICES ASSUME NEW j \in Rows, Has(r, InHand, j) PROVE Passed(r, j) \/ j \in accepted
    OBVIOUS
  <2>1. CASE pc[r] = "sent"
    BY <2>1 DEF Claimed, AcceptedFirst, Has
  <2>2. CASE pc[r] # "sent"
    BY <1>1, <1>3, <2>2 DEF InLap, Has
  <2>. QED BY <2>1, <2>2
<1>5. CASE MarkInvalid(r)
  <2>1. PICK c \in Calls : /\ c.row = held[r].row /\ StoreRuns(c, {r})
                          /\ Settles(r, page[r], lap[r]) /\ UNCHANGED <<accepted, abandoned>>
    BY <1>5, MarkInvalidDoes
  <2>. QED BY <1>1, <1>2, <1>4, <2>1, SettlingOrdered
<1>6. CASE MarkFailure(r)
  <2>1. PICK c \in Calls, rest \in {page[r], {}} :
          /\ c.row = held[r].row /\ StoreRuns(c, {r})
          /\ Settles(r, rest, lap[r]) /\ UNCHANGED <<accepted, abandoned>>
    BY <1>6, MarkFailureDoes
  <2>. QED BY <1>1, <1>2, <1>4, <2>1, SettlingOrdered
<1>7. CASE MarkSent(r)
  <2>1. PICK c \in Calls, l \in Laps :
          /\ c.row = held[r].row /\ StoreRuns(c, {r}) /\ Keeps(r, l)
          /\ Settles(r, page[r], l) /\ UNCHANGED <<accepted, abandoned>>
    BY <1>7, MarkSentDoes
  <2>. QED BY <1>1, <1>4, <2>1, SettlingOrdered
<1>. QED BY <1>5, <1>6, <1>7

LEMMA ClaimOrdered ==
  ASSUME Typed, Typed', Claimed, Claimed', Ordered, NEW r \in Relays, Claim(r) PROVE Ordered'
<1>1. PICK c \in Calls :
        /\ pc[r] = "claim" /\ c.op = "claim" /\ c.row = held[r].row
        /\ StoreRuns(c, {r}) /\ UNCHANGED <<accepted, abandoned, late>>
        /\ \/ Applies(c) /\ Goes(r, "fence") /\ lap'[r] = lap[r]
           \/ /\ ~Applies(c)
              /\ \E l \in Laps :
                   /\ Settles(r, page[r], l) /\ Keeps(r, l)
                   /\ row[held[r].row].status \in {"pending", "failed"} => Shuts(r, l)
  BY ClaimDoes
<1>2. /\ Grows /\ \A s \in Relays : s # r => Watches(s)
      /\ failedSince[r] \subseteq failedSince'[r]
      /\ pc[r] \in InHand /\ lap[r].on /\ held[r].row \in Rows /\ held[r].row = lap[r].cursor
  <2>1. pc[r] \in InHand /\ pc[r] # "idle"
    BY <1>1, Places
  <2>2. lap[r].on /\ held[r].row \in Rows /\ held[r].row = lap[r].cursor
    BY <2>1 DEF Typed, Placed
  <2>3. Grows /\ \A s \in Relays : s # r => Watches(s)
    BY <1>1, StoreWatches DEF Grows
  <2>. QED BY <1>1, <2>1, <2>2, <2>3 DEF StoreRuns
<1>3. CASE Applies(c)
  <2>1. \A j \in Rows : row'[j].status = "failed" => row[j].status = "failed"
    BY <1>1, <1>3 DEF StoreRuns
  <2>2. Keeps(r, lap'[r])
    BY <1>1, <1>2, <1>3, HeldKeeps
  <2>. QED BY <1>1, <1>2, <1>3, <2>1, <2>2, GoesOrdered, Places
<1>4. CASE ~Applies(c)
  <2>1. PICK l \in Laps :
          /\ Settles(r, page[r], l) /\ Keeps(r, l)
          /\ row[held[r].row].status \in {"pending", "failed"} => Shuts(r, l)
    BY <1>1, <1>4
  <2>2. SameRows
    BY <1>1, <1>4, SameRowsUnless
  <2>3. CASE lap'[r].on
    <3>1. lap'[r] = l
      BY <2>1, <2>3, SettledLap
    <3>2. ASSUME NEW j \in Rows, Has(r, InHand, j) PROVE Passed(r, j)'
      <4>1. j = held[r].row /\ row[j].status # "none" /\ row'[j] = row[j]
        <5>1. j = held[r].row /\ j <= lap[r].cursor
          BY <1>2, <3>2, Numbered DEF Has
        <5>. QED BY <2>2, <5>1 DEF Claimed, InOrder, SameRows
      <4>2. CASE row[j].status \in {"pending", "failed"}
        BY <2>1, <3>1, <4>1, <4>2, ShutPasses
      <4>3. CASE row[j].status \notin {"pending", "failed"}
        BY <4>1, <4>3, Lost DEF Passed
      <4>. QED BY <4>2, <4>3
    <3>3. InLap(r)'
      BY <1>2, <2>1, <2>2, <2>3, <3>2, SettlesOrdered, Places DEF SameRows
    <3>. QED BY <1>2, <2>1, <3>3, OthersOrdered DEF Settles
  <2>4. CASE ~lap'[r].on
    BY <1>2, <2>1, <2>4, OthersOrdered DEF Settles
  <2>. QED BY <2>3, <2>4
<1>. QED BY <1>3, <1>4

LEMMA SeedOrdered ==
  ASSUME Typed, Typed', Claimed', Ordered, NEW r \in Relays, Seed(r) PROVE Ordered'
<1>1. /\ pc[r] = "idle" /\ UNCHANGED <<row, accepted, abandoned, late, pc, page, held>>
      /\ lap'[r].cursor = 0
      /\ \A i \in Rows : row[i].status = "failed" =>
           KeyOf[i] = NoKey \/ lap'[r].cap \/ KeyOf[i] \in lap'[r].blocked
      /\ \A s \in Relays : s # r => lap'[s] = lap[s] /\ failedSince'[s] = failedSince[s]
  BY SeedDoes
<1>2. Grows /\ Others(r) /\ \A s \in Relays : s # r => Watches(s)
  BY <1>1 DEF Grows, Others, Watches
<1>3. page'[r] = {} /\ pc'[r] \notin InHand
  BY <1>1, Places DEF Typed, Placed
<1>4. \A j \in Rows : row'[j].status \notin {"none", "pending"} => Passed(r, j)'
  BY <1>1, Lost DEF Passed
<1>5. \A j \in Rows : ~(j <= lap'[r].cursor)
  BY <1>1, Numbered
<1>6. \A j \in Rows : ~Has(r, {"invalid", "failed"}, j)' /\
                      ~Has(r, {"claim", "fence", "publish", "sent"}, j)'
  BY <1>3, Places DEF Has
<1>7. InLap(r)'
  BY <1>3, <1>4, <1>5, <1>6 DEF InLap
<1>. QED BY <1>2, <1>7, OthersOrdered

LEMMA ScanOrdered ==
  ASSUME Typed, Typed', Claimed, Claimed', Ordered, NEW r \in Relays, Scan(r) PROVE Ordered'
<1>1. PICK rest \in SUBSET Read :
        /\ pc[r] = "idle" /\ Settles(r, rest, lap[r]) /\ Steady
        /\ \A m \in rest : row[m.row].status = "pending"
        /\ \A m \in rest : \A j \in Rows :
             j > lap[r].cursor /\ j < m.row /\ row[j].status = "pending"
               => \E n \in rest : n.row = j
  BY ScanDoes
<1>2. Grows /\ Others(r) /\ \A s \in Relays : Watches(s)
  BY <1>1, SteadyWatches DEF Settles
<1>3. CASE lap'[r].on
  <2>1. lap'[r] = lap[r] /\ page'[r] = rest /\ pc'[r] \notin InHand
    BY <1>1, <1>3, SettledLap, Places DEF Settles
  <2>2. InLap(r)
    BY <1>3, <2>1 DEF Ordered
  <2>3. \A j \in Rows : (Passed(r, j) => Passed(r, j)') /\ row'[j] = row[j] /\ ~Has(r, InHand, j)
    BY <1>1, <2>1, Places DEF Steady, Passed, Has
  <2>4. ASSUME NEW m \in rest, NEW j \in Rows, lap[r].cursor < j, j < m.row
        PROVE  Passed(r, j)' \/ \E n \in rest : n.row = j
    <3>1. m.row \in Rows /\ row[m.row].status = "pending"
      BY <1>1 DEF Read
    <3>2. row[j].status # "none"
      BY <2>4, <3>1 DEF Claimed, InOrder
    <3>3. j > lap[r].cursor
      BY <2>4, Facts
    <3>. QED BY <1>1, <2>2, <2>3, <2>4, <3>2, <3>3 DEF InLap
  <2>5. \A j \in Rows : ~Has(r, {"invalid", "failed"}, j)' /\
                        ~Has(r, {"claim", "fence", "publish", "sent"}, j)'
    BY <2>1, Places DEF Has
  <2>6. /\ \A j \in Rows : row'[j].status \notin {"none", "pending"} => Passed(r, j)'
        /\ \A j \in Rows : j <= lap'[r].cursor => Passed(r, j)'
    BY <2>1, <2>2, <2>3 DEF InLap
  <2>7. InLap(r)'
    BY <2>1, <2>4, <2>5, <2>6 DEF InLap
  <2>. QED BY <1>2, <2>7, OthersOrdered
<1>4. CASE ~lap'[r].on
  BY <1>2, <1>4, OthersOrdered
<1>. QED BY <1>3, <1>4

LEMMA ExamineOrdered ==
  ASSUME Typed, Typed', Claimed', Ordered, NEW r \in Relays, Examine(r) PROVE Ordered'
<1>1. PICK m \in page[r], next \in Laps :
        /\ pc[r] = "row" /\ \A other \in page[r] : m.row <= other.row
        /\ next.cursor = m.row
        /\ lap[r].blocked \subseteq next.blocked /\ (lap[r].cap => next.cap)
        /\ Steady
        /\ \/ /\ Settles(r, page[r] \ {m}, next)
              /\ KeyOf[m.row] = NoKey \/ next.cap \/ KeyOf[m.row] \in next.blocked
           \/ /\ Others(r) /\ lap'[r] = next /\ page'[r] = page[r] \ {m}
              /\ pc'[r] = (IF m.valid THEN "claim" ELSE "invalid")
              /\ held'[r].row = m.row
              /\ IF m.valid
                 THEN KeyOf[m.row] = NoKey \/ (~next.cap /\ KeyOf[m.row] \notin next.blocked)
                 ELSE KeyOf[m.row] = NoKey \/ next.cap \/ KeyOf[m.row] \in next.blocked
  BY ExamineDoes
<1>2. Grows /\ Others(r) /\ \A s \in Relays : Watches(s)
  BY <1>1, SteadyWatches DEF Settles
<1>3. CASE lap'[r].on
  <2>1. lap'[r] = next /\ page'[r] = page[r] \ {m} /\ pc'[r] \in Resting \union {"claim", "invalid"}
    BY <1>1, <1>3, SettledLap DEF Settles, Resting
  <2>2. InLap(r) /\ \A j \in Rows : ~Has(r, InHand, j)
    BY <1>1, Places DEF Ordered, Typed, Placed, Has
  <2>3. \A j \in Rows : (Passed(r, j) => Passed(r, j)') /\ row'[j] = row[j]
    BY <1>1, <2>1 DEF Steady, Passed
  <2>4. m.row \in Rows /\ m.row > lap[r].cursor /\ \A n \in page[r] : n.row \in Rows
    BY Facts DEF Typed, Placed
  <2>5. ASSUME NEW j \in Rows, j < m.row PROVE Passed(r, j)'
    <3>1. CASE j <= lap[r].cursor
      BY <2>2, <2>3, <3>1 DEF InLap
    <3>2. CASE ~(j <= lap[r].cursor)
      <4>1. lap[r].cursor < j
        BY <3>2, Facts
      <4>2. ~\E n \in page[r] : n.row = j
        BY <1>1, <2>4, <2>5, Numbered
      <4>. QED BY <2>2, <2>3, <2>5, <4>1, <4>2 DEF InLap
    <3>. QED BY <3>1, <3>2
  <2>6. Passed(r, m.row)' \/ Has(r, InHand, m.row)'
    BY <1>1, <2>1, Places DEF Passed, Has
  <2>7. ASSUME NEW j \in Rows, j <= lap'[r].cursor PROVE Passed(r, j)' \/ Has(r, InHand, j)'
    <3>1. j < m.row \/ j = m.row
      BY <1>1, <2>1, <2>4, <2>7, Numbered
    <3>. QED BY <2>5, <2>6, <3>1
  <2>8. ASSUME NEW n \in page'[r], NEW j \in Rows, lap'[r].cursor < j, j < n.row
        PROVE  Passed(r, j)' \/ \E q \in page'[r] : q.row = j
    <3>1. n \in page[r] /\ m.row < j /\ lap[r].cursor < j
      BY <1>1, <2>1, <2>4, <2>8, Facts
    <3>2. Passed(r, j) \/ \E q \in page[r] : q.row = j
      BY <2>2, <2>8, <3>1 DEF InLap
    <3>3. j # m.row
      BY <2>4, <3>1, Numbered
    <3>. QED BY <2>1, <2>3, <3>2, <3>3
  <2>9. \A j \in Rows : row'[j].status \notin {"none", "pending"} => Passed(r, j)'
    BY <2>2, <2>3 DEF InLap
  <2>10. \A i \in Rows :
           /\ Has(r, {"invalid", "failed"}, i)' => Passed(r, i)'
           /\ Has(r, {"claim", "fence", "publish", "sent"}, i)' =>
                KeyOf[i] = NoKey \/ (~lap'[r].cap /\ KeyOf[i] \notin lap'[r].blocked)
    <3>1. CASE Settles(r, page[r] \ {m}, next)
      BY <3>1 DEF Settles, Has
    <3>2. CASE ~Settles(r, page[r] \ {m}, next)
      BY <1>1, <3>2 DEF Has, Passed
    <3>. QED BY <3>1, <3>2
  <2>11. InLap(r)'
    BY <2>7, <2>8, <2>9, <2>10 DEF InLap
  <2>. QED BY <1>2, <2>11, OthersOrdered
<1>4. CASE ~lap'[r].on
  BY <1>2, <1>4, OthersOrdered
<1>. QED BY <1>3, <1>4

(* Steps in which no relay moves. *)
LEMMA EnvironmentOrdered ==
  ASSUME Typed, Typed', Claimed', Ordered, Grows, UNCHANGED <<pc, lap, page, held>>,
         \A s \in Relays : Watches(s)
  PROVE  Ordered'
  BY StaysOrdered DEF Ordered

LEMMA OtherOrdered ==
  ASSUME Typed, Typed', Claimed', Ordered,
         \/ \E r \in Relays : Close(r) \/ Pause(r)
         \/ \E i \in Rows : Write(i) \/ Edit(i) \/ Release(i) \/ Purge(i)
         \/ \E c \in late : LateWrite(c)
         \/ UNCHANGED vars
  PROVE  Ordered'
<1>1. ASSUME NEW r \in Relays, Close(r) \/ Pause(r) PROVE Ordered'
  BY <1>1, CloseOrPauseDoes, EnvironmentOrdered DEF Grows, Watches
<1>2. ASSUME NEW i \in Rows, Write(i) \/ Edit(i) \/ Release(i) \/ Purge(i) PROVE Ordered'
  <2>1. RowStep(i) /\ row'[i].status # "failed" /\ abandoned \subseteq abandoned'
    BY <1>2, WriteDoes, EditDoes, ReleaseDoes, PurgeDoes
  <2>2. Grows /\ UNCHANGED <<pc, lap, page, held>> /\ \A s \in Relays : Watches(s)
    BY <2>1 DEF RowStep, Grows, Watches
  <2>. QED BY <2>2, EnvironmentOrdered
<1>3. ASSUME NEW c \in late, LateWrite(c) PROVE Ordered'
  <2>1. /\ StoreRuns(c, {}) /\ UNCHANGED <<accepted, abandoned, pc, lap, page, held>>
    BY <1>3, LateWriteDoes
  <2>. QED BY <2>1, StoreWatches, EnvironmentOrdered DEF Grows
<1>4. ASSUME UNCHANGED vars PROVE Ordered'
  BY <1>4, EnvironmentOrdered DEF vars, relayVars, Grows, Watches
<1>. QED BY <1>1, <1>2, <1>3, <1>4

LEMMA TickOrdered ==
  ASSUME Typed, Typed', Claimed', Ordered, Tick PROVE Ordered'
<1>1. /\ UNCHANGED <<accepted, abandoned, pc, lap, failedSince>>
      /\ \A i \in Rows : row'[i].status = row[i].status
      /\ \A r \in Relays :
           /\ \A n \in page'[r] : \E m \in page[r] : n.row = m.row
           /\ \A m \in page[r] : \E n \in page'[r] : n.row = m.row
           /\ held'[r].row = held[r].row
  BY TickDoes
<1>2. Grows /\ \A s \in Relays : Watches(s)
  BY <1>1 DEF Grows, Watches
<1> SUFFICES ASSUME NEW s \in Relays PROVE lap'[s].on => InLap(s)'
  BY DEF Ordered
<1>. QED BY <1>1, <1>2, StaysOrdered DEF Ordered

LEMMA NextOrdered ==
  ASSUME Typed, Claimed, Ordered, [Next]_vars
  PROVE  Ordered'
<1>0. Typed' /\ Claimed'
  BY NextTyped, NextClaimed
<1>1. ASSUME NEW r \in Relays, Sweeps(r) PROVE Ordered'
  BY <1>0, <1>1, SeedOrdered, ScanOrdered, ExamineOrdered, MarksOrdered, ClaimOrdered, FenceOrdered,
     PublishedOrdered, NewInstanceOrdered DEF Sweeps
<1>2. ASSUME NEW r \in Relays, Suffers(r) PROVE Ordered'
  BY <1>0, <1>2, StopOrdered, RefusedOrdered, PublishFailsOrdered, WriteFailsOrdered, OtherOrdered,
     NewInstanceOrdered DEF Suffers
<1>. QED BY <1>0, <1>1, <1>2, OtherOrdered, TickOrdered DEF Next

LEMMA InitOrdered == Init => Ordered
  BY NothingTyped DEF Init, Ordered

LEMMA OrderedOrder == Typed /\ Ordered => OrderKept
<1> SUFFICES ASSUME Typed, Ordered, NEW r \in Relays, NEW i \in Rows, Publishing(r, i),
                    NEW j \in Earlier(i)
             PROVE  j \in accepted \union abandoned \union failedSince[r]
  BY DEF OrderKept
<1>1. /\ pc[r] \in InHand /\ lap[r].on /\ lap[r].cursor = i
      /\ Has(r, {"claim", "fence", "publish", "sent"}, i)
  BY Places DEF Publishing, Typed, Placed, Has
<1>2. j \in Rows /\ j < i /\ KeyOf[j] = KeyOf[i] /\ KeyOf[i] # NoKey /\ j <= i /\ j # i
  BY Numbered DEF Earlier
<1>3. Passed(r, j) /\ ~lap[r].cap /\ KeyOf[i] \notin lap[r].blocked
  BY <1>1, <1>2 DEF Ordered, InLap, Has, Publishing
<1>. QED BY <1>2, <1>3 DEF Passed

(* While a row is published, each earlier row of its key has been accepted by *)
(* the broker or discarded by an operator, or somebody else's write failed it *)
(* during the lap.                                                            *)
THEOREM OutboxOrderKept == Spec => []OrderKept
<1>1. Init => Typed /\ Claimed /\ Ordered
  BY InitTyped, InitClaimed, InitOrdered
<1>2. Typed /\ Claimed /\ Ordered /\ [Next]_vars => (Typed /\ Claimed /\ Ordered)'
  BY NextTyped, NextClaimed, NextOrdered
<1>. QED BY <1>1, <1>2, OrderedOrder, PTL DEF Spec
=============================================================================
