------------------------------- MODULE Outbox -------------------------------
(***************************************************************************)
(* The relays of the transactional outbox (messaging-plugin/src/outbox)    *)
(* over one store (database-plugin/src/outbox).  Rows are numbered in the  *)
(* order of their positions, which is the order their transactions commit  *)
(* in.  A relay sweeps the pending rows in laps: it reads the keys of the   *)
(* failed rows once, then pages of pending rows, and examines each row of a *)
(* page: skip it, or claim it, publish it and settle it, each by one       *)
(* conditional write.  A lap survives the sweeps it takes.                  *)
(*                                                                         *)
(* Times are kept relative to the true time: a lease of 3 ends in three     *)
(* ticks, and a relay whose clock is fast by Offset[r] reads Offset[r].     *)
(* Nothing tells two times in the past apart, so they stop at Past.         *)
(***************************************************************************)
EXTENDS Integers, FiniteSets

CONSTANTS
    Relays,         \* the application instances that sweep the store
    Rows,           \* 1..n, in position order
    KeyOf,          \* the tenant and ordering key of each row
    NoKey,          \* of a row that is not ordered
    Editable,       \* rows that somebody may edit
    Offset,         \* how far each instance's clock is ahead
    Skew,           \* relay.maxClockSkewMs
    Lease,          \* relay.claimLeaseMs
    PublishTimeout, \* relay.publishTimeoutMs
    StoreTimeout,   \* relay.storeTimeoutMs
    Backoff,        \* the longest retry backoff
    MaxAttempts,    \* relay.maxAttempts
    PageSize,       \* relay.pageSize
    MaxFailedScan,  \* relay.maxFailedScan
    MaxBlocked,     \* MAX_BLOCKED_KEYS
    DeleteNow,      \* retainSentMs = 0
    MaxFaults,      \* bound: crashes, stops, pauses, failed or late calls
    MaxReleases     \* bound: operator releases

ASSUME RowsAssumption == Rows \subseteq Nat \ {0} /\ IsFiniteSet(Rows) /\ Editable \subseteq Rows
ASSUME TimeAssumption ==
    /\ {Skew, Lease, PublishTimeout, StoreTimeout, Backoff} \subseteq Nat
    /\ Lease >= PublishTimeout + 2 * StoreTimeout + Skew /\ StoreTimeout + Skew > 0
    /\ Offset \in [Relays -> 0..Skew]
ASSUME LimitAssumption ==
    /\ {MaxAttempts, PageSize, MaxFailedScan, MaxBlocked} \subseteq Nat \ {0}
    /\ DeleteNow \in BOOLEAN /\ {MaxFaults, MaxReleases} \subseteq Nat

VARIABLES
    row,         \* the store: status, claim version, lease, availability, attempts
    accepted,    \* history: rows the broker has accepted
    abandoned,   \* history: rows an operator discarded
    pc,          \* what each relay's sweep waits for
    lap,         \* each relay's lap: cursor, blocked keys, cap
    page,        \* rows read and not yet examined, as they were read
    short,       \* whether that page is the lap's last
    held,        \* the row in hand, the version held, when the claim ends
    closing,     \* instances that are stopping
    paused,      \* instances whose process is paused
    late,        \* writes given up by their relay that may still apply
    failedSince, \* history: rows that became failed since a relay's lap began
    faults, releases

relayVars == <<pc, lap, page, short, held, closing, paused, failedSince>>
vars == <<row, accepted, abandoned, relayVars, late, faults, releases>>

Past == -Skew
Settled == {"sent", "discarded"}
Statuses == {"none", "pending", "failed", "gone"} \union Settled
Keys == {KeyOf[i] : i \in Rows} \ {NoKey}

NoLap == [on |-> FALSE, cursor |-> 0, blocked |-> {}, cap |-> FALSE]
Nothing == [row |-> 0, version |-> 0, attempts |-> 0, lease |-> Past, left |-> 0, stop |-> FALSE]

Init ==
    /\ row = [i \in Rows |-> [status |-> "none", valid |-> TRUE, version |-> 0,
                              lease |-> Past, available |-> 0, attempts |-> 0]]
    /\ accepted = {} /\ abandoned = {}
    /\ pc = [r \in Relays |-> "idle"]
    /\ lap = [r \in Relays |-> NoLap]
    /\ page = [r \in Relays |-> {}]
    /\ short = [r \in Relays |-> FALSE]
    /\ held = [r \in Relays |-> Nothing]
    /\ closing = {} /\ paused = {}
    /\ late = {}
    /\ failedSince = [r \in Relays |-> {}]
    /\ faults = 0 /\ releases = 0

-----------------------------------------------------------------------------
(* The store's conditional writes: each applies to a row that still has the *)
(* expected status and, except to poison or to release it, claim version.   *)

Applies(c) ==
    /\ row[c.row].status = "pending"
    /\ c.op # "markInvalid" => row[c.row].version = c.version

Written(c) ==
    LET old == row[c.row] IN
    CASE c.op = "claim" -> [old EXCEPT !.version = @ + 1, !.lease = c.lease]
      [] c.op = "markSent" -> [old EXCEPT !.status = IF DeleteNow THEN "gone" ELSE "sent"]
      [] c.op = "markFailure" ->
           [old EXCEPT !.status = IF c.attempts >= MaxAttempts THEN "failed" ELSE "pending",
                       !.attempts = c.attempts, !.available = c.available, !.lease = Past]
      [] c.op = "markInvalid" -> [old EXCEPT !.status = "failed", !.lease = Past]

(* The store runs call c of a relay in by, or of none; every other relay in a  *)
(* lap has the rows it fails noted.                                            *)
Execute(c, by) ==
    /\ row' = IF Applies(c) THEN [row EXCEPT ![c.row] = Written(c)] ELSE row
    /\ failedSince' = [r \in Relays |->
         IF lap[r].on /\ r \notin by
         THEN failedSince[r] \union
                {i \in Rows : row[i].status # "failed" /\ row'[i].status = "failed"}
         ELSE failedSince[r]]

Call(r, op, available) ==
    [op |-> op, row |-> held[r].row, version |-> held[r].version, lease |-> held[r].lease,
     attempts |-> held[r].attempts + 1, available |-> available]

(* available is now plus a backoff, with now read before the publish. *)
Availabilities(r) == 0..(Offset[r] + Backoff)

-----------------------------------------------------------------------------
(* OutboxLap.block: a key more than the set can hold blocks every key. *)
Block(l, k) ==
    IF k = NoKey \/ k \in l.blocked THEN l
    ELSE IF Cardinality(l.blocked) >= MaxBlocked THEN [l EXCEPT !.cap = TRUE]
    ELSE [l EXCEPT !.blocked = @ \union {k}]

(* A sweep that has no row in hand holds nothing but its lap: ending it,     *)
(* or going on with the next call, is the same state.  A short page that has *)
(* been examined ends the lap.                                               *)
Rest(r) ==
    /\ pc' = [pc EXCEPT ![r] = "idle"] /\ held' = [held EXCEPT ![r] = Nothing]
    /\ page' = [page EXCEPT ![r] = {}] /\ short' = [short EXCEPT ![r] = FALSE]
EndSweep(r, l) == Rest(r) /\ lap' = [lap EXCEPT ![r] = l]
(* Mutant: a lap never ends. *)
EndlessGoOn(r, rest, isShort, l) ==
    IF rest = {} THEN EndSweep(r, l)
    ELSE /\ pc' = [pc EXCEPT ![r] = "row"] /\ held' = [held EXCEPT ![r] = Nothing]
         /\ page' = [page EXCEPT ![r] = rest] /\ short' = [short EXCEPT ![r] = isShort]
         /\ lap' = [lap EXCEPT ![r] = l]
GoOn(r, rest, isShort, l) ==
    IF rest = {} THEN EndSweep(r, IF isShort THEN NoLap ELSE l)
    ELSE /\ pc' = [pc EXCEPT ![r] = "row"] /\ held' = [held EXCEPT ![r] = Nothing]
         /\ page' = [page EXCEPT ![r] = rest] /\ short' = [short EXCEPT ![r] = isShort]
         /\ lap' = [lap EXCEPT ![r] = l]
NextRow(r, l) == GoOn(r, page[r], short[r], l)

Runs(r, at) == pc[r] = at /\ paused' = paused \ {r}
Fault == faults < MaxFaults /\ faults' = faults + 1
HeldBlocked(r) == Block(lap[r], KeyOf[held[r].row])

(* failedKeys(maxFailedScan) answers and a lap begins. *)
Seed(r) ==
    /\ Runs(r, "idle") /\ ~lap[r].on /\ r \notin closing
    /\ LET failed == {i \in Rows : row[i].status = "failed"} IN
       \E answer \in SUBSET failed :
          /\ \/ answer = failed /\ Cardinality(failed) <= MaxFailedScan
             \/ Cardinality(answer) = MaxFailedScan
          /\ LET keys == {KeyOf[i] : i \in answer} \ {NoKey} IN
             \E kept \in SUBSET keys :
                /\ \/ kept = keys /\ Cardinality(keys) <= MaxBlocked
                   \/ Cardinality(kept) = MaxBlocked
                /\ lap' = [lap EXCEPT ![r] =
                     [on |-> TRUE, cursor |-> 0, blocked |-> kept,
                      cap |-> kept # keys \/ Cardinality(answer) >= MaxFailedScan]]
    /\ failedSince' = [failedSince EXCEPT ![r] = {}]
    /\ UNCHANGED <<row, accepted, abandoned, pc, page, short, held, closing, late, faults, releases>>

(* scanPending(cursor, limit): the first pending rows behind the cursor. *)
Pending(after) == {i \in Rows : i > after /\ row[i].status = "pending"}
First(S, n) == {i \in S : Cardinality({j \in S : j < i}) < n}

Snapshot(i) == [row |-> i, valid |-> row[i].valid, version |-> row[i].version,
                lease |-> row[i].lease, available |-> row[i].available,
                attempts |-> row[i].attempts]

Scan(r) ==
    /\ Runs(r, "idle") /\ lap[r].on /\ r \notin closing
    /\ LET rows == First(Pending(lap[r].cursor), PageSize) IN
       GoOn(r, {Snapshot(i) : i \in rows}, Cardinality(rows) < PageSize, lap[r])
    /\ UNCHANGED <<row, accepted, abandoned, closing, late, failedSince, faults, releases>>

(* stopReason, before a row: the instance closes or a budget of the sweep is   *)
(* used up.                                                                    *)
Stop(r) ==
    /\ Runs(r, "row") /\ EndSweep(r, lap[r])
    /\ UNCHANGED <<row, accepted, abandoned, closing, late, failedSince, faults, releases>>

(* Mutant: the whole page counts as examined. *)
PageAdvance(r, m) == [lap[r] EXCEPT !.cursor = CHOOSE i \in Rows : \A n \in page[r] : n.row <= i]
Advance(r, m) == [lap[r] EXCEPT !.cursor = m.row]

(* Mutant: the claim is over when the writer's clock says so. *)
SkewlessWaits(r, m) == m.available > Offset[r] \/ Offset[r] < m.lease
(* The row is in backoff, or claimed by somebody whose clock may be behind. *)
Waits(r, m) == m.available > Offset[r] \/ Offset[r] < m.lease + Skew

(* examine: up to its first store call.  A row that is read as in backoff, as  *)
(* claimed, or that does not decode blocks its key; so does every keyed row     *)
(* once the lap has reached a cap.                                              *)
Examine(r) ==
    /\ Runs(r, "row") /\ r \notin closing
    /\ \E m \in page[r] :
       LET k == KeyOf[m.row]
           here == Advance(r, m)
           skipped == (k # NoKey /\ (k \in here.blocked \/ here.cap)) \/ Waits(r, m)
           next == IF skipped \/ ~m.valid THEN Block(here, k) ELSE here
           rest == page[r] \ {m}
       IN
       /\ \A other \in page[r] : m.row <= other.row
       /\ IF skipped THEN GoOn(r, rest, short[r], next)
          ELSE /\ pc' = [pc EXCEPT ![r] = IF m.valid THEN "claim" ELSE "invalid"]
               /\ held' = [held EXCEPT ![r] =
                    [Nothing EXCEPT !.row = m.row, !.version = m.version,
                                    !.attempts = m.attempts, !.lease = Offset[r] + Lease]]
               /\ page' = [page EXCEPT ![r] = rest] /\ lap' = [lap EXCEPT ![r] = next]
               /\ UNCHANGED short
    /\ UNCHANGED <<row, accepted, abandoned, closing, late, failedSince, faults, releases>>

(* markInvalid answers. *)
MarkInvalid(r) ==
    /\ Runs(r, "invalid") /\ Execute(Call(r, "markInvalid", 0), {r}) /\ NextRow(r, lap[r])
    /\ UNCHANGED <<accepted, abandoned, closing, late, faults, releases>>

(* What an answer that wrote nothing does: another version or a failed row     *)
(* blocks the key.                                                             *)
(* Mutant: a failed row blocks its key, a lost claim does not.                  *)
ForgivingRefusal(r) == IF row[held[r].row].status = "failed" THEN HeldBlocked(r) ELSE lap[r]
Refusal(r) == IF row[held[r].row].status \in {"pending", "failed"} THEN HeldBlocked(r) ELSE lap[r]

Claim(r) ==
    /\ Runs(r, "claim")
    /\ LET c == Call(r, "claim", 0) IN
       /\ Execute(c, {r})
       /\ IF Applies(c)
          THEN /\ pc' = [pc EXCEPT ![r] = "fence"]
               /\ held' = [held EXCEPT ![r].version = @ + 1]
               /\ UNCHANGED <<lap, page, short>>
          ELSE NextRow(r, Refusal(r))
    /\ UNCHANGED <<accepted, abandoned, closing, late, faults, releases>>

(* The claim's answer reaches the relay: it publishes while the claim leaves    *)
(* room for the publish, the status write and the skew.                         *)
Fence(r) ==
    /\ Runs(r, "fence")
    /\ IF Offset[r] + PublishTimeout + StoreTimeout + Skew > held[r].lease
       THEN NextRow(r, HeldBlocked(r))
       ELSE /\ pc' = [pc EXCEPT ![r] = "publish"]
            /\ held' = [held EXCEPT ![r].left = PublishTimeout]
            /\ UNCHANGED <<lap, page, short>>
    /\ UNCHANGED <<row, accepted, abandoned, closing, late, failedSince, faults, releases>>

(* Mutant: a publish that was never invoked counts as published. *)
MistakenRefused(r) ==
    /\ Runs(r, "fence") /\ Fault /\ pc' = [pc EXCEPT ![r] = "sent"]
    /\ UNCHANGED <<row, accepted, abandoned, lap, page, short, held, closing, late, failedSince,
                   releases>>

(* The sweep's deadline has passed: the publish is not invoked. *)
Refused(r) ==
    /\ Runs(r, "fence") /\ Fault /\ EndSweep(r, HeldBlocked(r))
    /\ UNCHANGED <<row, accepted, abandoned, closing, late, failedSince, releases>>

Published(r) ==
    /\ Runs(r, "publish")
    /\ accepted' = accepted \union {held[r].row}
    /\ pc' = [pc EXCEPT ![r] = "sent"]
    /\ UNCHANGED <<row, abandoned, lap, page, short, held, closing, late, failedSince, faults,
                   releases>>

(* The publish is rejected, or times out, which ends the sweep once the failure *)
(* is written; the broker may have accepted it all the same.  While the         *)
(* instance closes nothing is written.                                          *)
PublishFails(r) ==
    /\ Runs(r, "publish") /\ Fault
    /\ accepted' \in {accepted, accepted \union {held[r].row}}
    /\ IF r \in closing THEN EndSweep(r, HeldBlocked(r))
       ELSE /\ pc' = [pc EXCEPT ![r] = "failed"]
            /\ held' = [held EXCEPT ![r].stop = held[r].left <= 0]
            /\ lap' = [lap EXCEPT ![r] = HeldBlocked(r)]
            /\ UNCHANGED <<page, short>>
    /\ UNCHANGED <<row, abandoned, closing, late, failedSince, releases>>

MarkSent(r) ==
    /\ Runs(r, "sent")
    /\ LET c == Call(r, "markSent", 0) IN
       Execute(c, {r}) /\ NextRow(r, IF Applies(c) THEN lap[r] ELSE Refusal(r))
    /\ UNCHANGED <<accepted, abandoned, closing, late, faults, releases>>

MarkFailure(r) ==
    /\ Runs(r, "failed")
    /\ \E available \in Availabilities(r) : Execute(Call(r, "markFailure", available), {r})
    /\ IF held[r].stop THEN EndSweep(r, lap[r]) ELSE NextRow(r, lap[r])
    /\ UNCHANGED <<accepted, abandoned, closing, late, faults, releases>>

(* A write is rejected or times out: the key is blocked, the sweep ends, and    *)
(* the write may still apply.                                                   *)
Op == [invalid |-> "markInvalid", claim |-> "claim", sent |-> "markSent", failed |-> "markFailure"]
InFlight(r) ==
    IF pc[r] = "failed" THEN {Call(r, Op[pc[r]], available) : available \in Availabilities(r)}
    ELSE {Call(r, Op[pc[r]], 0)}
WriteFails(r) ==
    /\ pc[r] \in DOMAIN Op /\ paused' = paused \ {r} /\ Fault
    /\ \E c \in InFlight(r) : late' = late \union {c}
    /\ EndSweep(r, HeldBlocked(r))
    /\ UNCHANGED <<row, accepted, abandoned, closing, failedSince, releases>>

LateWrite(c) ==
    /\ late' = late \ {c} /\ Execute(c, {})
    /\ UNCHANGED <<accepted, abandoned, pc, lap, page, short, held, closing, paused, faults, releases>>

-----------------------------------------------------------------------------
(* close(): dispatch becomes a no-op, the sweep in flight is awaited; then the  *)
(* process ends and a new instance takes its place.                             *)
Close(r) ==
    /\ r \notin closing /\ Fault /\ closing' = closing \union {r}
    /\ UNCHANGED <<row, accepted, abandoned, pc, lap, page, short, held, paused, late, failedSince,
                   releases>>

NewInstance(r) ==
    /\ EndSweep(r, NoLap) /\ failedSince' = [failedSince EXCEPT ![r] = {}]
    /\ closing' = closing \ {r} /\ paused' = paused \ {r}
    /\ UNCHANGED <<row, abandoned, releases>>

Restart(r) ==
    /\ r \in closing /\ pc[r] = "idle" /\ NewInstance(r)
    /\ UNCHANGED <<accepted, late, faults>>

(* The process ends anywhere; what it had sent may still arrive. *)
Crash(r) ==
    /\ pc[r] # "idle" /\ Fault /\ NewInstance(r)
    /\ \/ UNCHANGED <<accepted, late>>
       \/ pc[r] = "publish" /\ accepted' = accepted \union {held[r].row} /\ UNCHANGED late
       \/ /\ pc[r] \in DOMAIN Op /\ UNCHANGED accepted
          /\ \E c \in InFlight(r) : late' = late \union {c}

Pause(r) ==
    /\ pc[r] # "idle" /\ r \notin paused /\ Fault /\ paused' = paused \union {r}
    /\ UNCHANGED <<row, accepted, abandoned, pc, lap, page, short, held, closing, late, failedSince,
                   releases>>

(* write(): the transaction of the next row commits. *)
Write(i) ==
    /\ row[i].status = "none" /\ \A j \in Rows : j < i => row[j].status # "none"
    /\ row' = [row EXCEPT ![i].status = "pending"]
    /\ UNCHANGED <<accepted, abandoned, relayVars, late, faults, releases>>

(* Somebody edits a pending row so that it no longer decodes. *)
Edit(i) ==
    /\ i \in Editable /\ row[i].status = "pending" /\ row[i].valid /\ Fault
    /\ row' = [row EXCEPT ![i].valid = FALSE]
    /\ UNCHANGED <<accepted, abandoned, relayVars, late, releases>>

(* release(): an operator retries or discards a failed row. *)
Release(i) ==
    /\ row[i].status = "failed" /\ releases < MaxReleases /\ releases' = releases + 1
    /\ \/ /\ row' = [row EXCEPT ![i].status = "pending", ![i].attempts = 0,
                                 ![i].available = 0, ![i].lease = Past]
          /\ UNCHANGED abandoned
       \/ /\ row' = [row EXCEPT ![i].status = "discarded"]
          /\ abandoned' = abandoned \union {i}
    /\ UNCHANGED <<accepted, relayVars, late, faults>>

(* purge(): a settled row is older than retainSentMs. *)
Purge(i) ==
    /\ row[i].status \in Settled /\ row' = [row EXCEPT ![i].status = "gone"]
    /\ UNCHANGED <<accepted, abandoned, relayVars, late, faults, releases>>

(* A tick passes once no running relay has a call to send or answer at once:     *)
(* only a publish takes time, up to its bound, unless the process is paused.     *)
Patient(r) ==
    \/ r \in paused \/ pc[r] \in {"idle", "row"}
    \/ pc[r] = "publish" /\ held[r].left > 0
Sooner(t, floor) == IF t > floor THEN t - 1 ELSE floor
Tick ==
    /\ \A r \in Relays : Patient(r)
    /\ row' = [i \in Rows |-> [row[i] EXCEPT !.lease = Sooner(@, Past), !.available = Sooner(@, 0)]]
    /\ page' = [r \in Relays |->
         {[m EXCEPT !.lease = Sooner(@, Past), !.available = Sooner(@, 0)] : m \in page[r]}]
    /\ held' = [r \in Relays |-> [held[r] EXCEPT !.lease = Sooner(@, Past), !.left = Sooner(@, -1)]]
    /\ late' = {[c EXCEPT !.lease = Sooner(@, Past), !.available = Sooner(@, 0)] : c \in late}
    /\ UNCHANGED <<accepted, abandoned, pc, lap, short, closing, paused, failedSince, faults, releases>>

Sweeps(r) ==
    \/ Seed(r) \/ Scan(r) \/ Examine(r) \/ MarkInvalid(r) \/ Claim(r) \/ Fence(r)
    \/ Published(r) \/ MarkSent(r) \/ MarkFailure(r) \/ Restart(r)
Suffers(r) ==
    \/ Stop(r) \/ Refused(r) \/ PublishFails(r) \/ WriteFails(r)
    \/ Close(r) \/ Crash(r) \/ Pause(r)
Next ==
    \/ \E r \in Relays : Sweeps(r) \/ Suffers(r)
    \/ \E i \in Rows : Write(i) \/ Edit(i) \/ Release(i) \/ Purge(i)
    \/ \E c \in late : LateWrite(c)
    \/ Tick

Spec == /\ Init /\ [][Next]_vars
        /\ \A r \in Relays : WF_vars(Sweeps(r)) /\ SF_vars(Examine(r))
        /\ SF_vars(Tick)
-----------------------------------------------------------------------------
(* Types; a relay has rows or a row in hand only in a lap, the rows it has yet *)
(* to examine are behind its cursor, and the row in hand is at the cursor.     *)
Stored == [status : Statuses, valid : BOOLEAN, version : Nat, lease : Int, available : Nat,
           attempts : Nat]
Read == [row : Rows, valid : BOOLEAN, version : Nat, lease : Int, available : Nat, attempts : Nat]
Calls == [op : {Op[at] : at \in DOMAIN Op}, row : Rows, version : Nat, lease : Int,
          attempts : Nat, available : Nat]
InHand == DOMAIN Op \union {"fence", "publish"}
TypeOK ==
    /\ row \in [Rows -> Stored] /\ accepted \subseteq Rows /\ abandoned \subseteq Rows
    /\ pc \in [Relays -> {"idle", "row"} \union InHand]
    /\ lap \in [Relays -> [on : BOOLEAN, cursor : Nat, blocked : SUBSET Keys, cap : BOOLEAN]]
    /\ page \in [Relays -> SUBSET Read] /\ short \in [Relays -> BOOLEAN]
    /\ held \in [Relays -> [row : Rows \union {0}, version : Nat, attempts : Nat, lease : Int,
                            left : Int, stop : BOOLEAN]]
    /\ closing \subseteq Relays /\ paused \subseteq Relays /\ late \subseteq Calls
    /\ failedSince \in [Relays -> SUBSET Rows] /\ faults \in Nat /\ releases \in Nat
    /\ \A r \in Relays :
         /\ pc[r] # "idle" => lap[r].on
         /\ \A m \in page[r] : pc[r] # "idle" /\ m.row > lap[r].cursor
         /\ pc[r] \in InHand => held[r].row \in Rows /\ held[r].row = lap[r].cursor

Publishing(r, i) == pc[r] = "publish" /\ held[r].row = i

(* No two relays publish one row at a time, unless one was paused past the    *)
(* bound of its own publish (relay.ts: claim, skew margin and fence).          *)
ExclusivePublish ==
    \A i \in Rows : \A r, s \in Relays :
        r # s /\ Publishing(r, i) /\ Publishing(s, i) => held[r].left < 0 \/ held[s].left < 0

Earlier(i) == {j \in Rows : j < i /\ KeyOf[j] = KeyOf[i] /\ KeyOf[i] # NoKey}

(* While a row is published, each earlier row of its key has been accepted by  *)
(* the broker or discarded by an operator, or somebody else's write failed it  *)
(* during the lap (lap.ts, relay.ts: what blocks a key).                       *)
OrderKept ==
    \A r \in Relays, i \in Rows : Publishing(r, i) =>
        Earlier(i) \subseteq accepted \union abandoned \union failedSince[r]

(* The same with no exception, as the README of the plugin states it.          *)
FirstPublishesInOrder ==
    \A r \in Relays, i \in Rows : Publishing(r, i) => Earlier(i) \subseteq accepted \union abandoned

(* A row leaves the pending rows for good only once the broker has accepted it *)
(* or an operator has discarded it (relay.ts, settlement; late answers).       *)
NothingLost ==
    \A i \in Rows : row[i].status \in {"sent", "discarded", "gone"} => i \in accepted \union abandoned

(* Every committed row is accepted in the end, unless an operator discards it  *)
(* or failed rows hold it back: crashes, lost claims and late writes only      *)
(* delay it (relay.ts, laps and leases).                                       *)
HeldBack(i) ==
    LET failed == {j \in Rows : row[j].status = "failed"} IN
    i \in failed \/ failed \intersect Earlier(i) # {} \/ Cardinality(failed) >= MaxFailedScan
Delivered ==
    []<>(\A i \in Rows :
            row[i].status # "none" => i \in accepted \union abandoned \/ HeldBack(i))
=============================================================================
