--------------------------- MODULE RedisIdempotency ---------------------------
(***************************************************************************)
(* The HTTP idempotency middleware of several replicas over the Redis      *)
(* store of packages/idempotency-plugin.  Each EVAL of a Lua script is one *)
(* atomic step of the server, separate from its sending and from its       *)
(* answer: a command may be lost, its answer may be lost, the replica may  *)
(* time out (commandTimeout) or crash while the command still executes.    *)
(* Time is the server's clock (TIME), which also expires keys (PX).        *)
(***************************************************************************)
EXTENDS Naturals

CONSTANTS Keys, Prints,
          Callers,   \* HTTP requests; the token of caller c is c itself
          Lease,     \* leaseMs
          Ttl,       \* ttlMs
          MaxTime    \* bound on the server clock

ASSUME RetentionAssumption ==
  Lease \in Nat /\ Ttl \in Nat /\ MaxTime \in Nat /\ 1 <= Lease /\ Lease <= Ttl

VARIABLES now,       \* server clock
          entry,     \* Redis: store key -> record
          req,       \* key and fingerprint of each request
          pc,        \* where the middleware stands
          op,        \* last command sent
          inflight,  \* that command may still execute
          reply,     \* what the server answered to it
          body,      \* the stored record a "completed" reply carries
          lapsed,    \* history: callers whose claim outlived its lease
          keepUntil  \* history: until when the caller's completed record is kept

vars == <<now, entry, req, pc, op, inflight, reply, body, lapsed, keepUntil>>

Requests == [key: Keys, fp: Prints]
Absent == [s |-> "absent"]
Pending(c, l, px) == [s |-> "p", t |-> c, f |-> req[c].fp, l |-> l, px |-> px]
(* Mutant: SET without PX. *)
ImmortalCompleted(c, f, px) == [s |-> "c", r |-> c, f |-> f]
Completed(c, f, px) == [s |-> "c", r |-> c, f |-> f, px |-> px]
Entries == {Absent} \cup [s: {"p"}, t: Callers, f: Prints, l: Nat, px: Nat]
                    \cup [s: {"c"}, r: Callers, f: Prints, px: Nat]
Ops == {"none", "claim", "complete", "release"}
ClaimReplies == {"claimed", "completed", "in-progress", "fingerprint-mismatch"}
Replies == {"none", "settled", "lost"} \cup ClaimReplies
Pcs == {"new", "claiming", "running", "settling", "answered", "crashed"}
NoBody == [none |-> TRUE]

EntryOf(c) == entry[req[c].key]
(* Mutants: the scripts compare no token, or not even the state. *)
TokenlessIsHolder(c) == EntryOf(c).s = "p"
UnfencedIsHolder(c) == EntryOf(c) # Absent
IsHolder(c) == EntryOf(c).s = "p" /\ EntryOf(c).t = c

Init == /\ now = 0
        /\ entry = [k \in Keys |-> Absent]
        /\ req \in [Callers -> Requests]
        /\ pc = [c \in Callers |-> "new"]
        /\ op = [c \in Callers |-> "none"]
        /\ inflight = [c \in Callers |-> FALSE]
        /\ reply = [c \in Callers |-> "none"]
        /\ body = [c \in Callers |-> NoBody]
        /\ lapsed = {}
        /\ keepUntil = [c \in Callers |-> 0]
-----------------------------------------------------------------------------
(* The middleware *)

Send(c, command) ==
  /\ op' = [op EXCEPT ![c] = command]
  /\ inflight' = [inflight EXCEPT ![c] = TRUE]
  /\ reply' = [reply EXCEPT ![c] = "none"]

Goto(c, from, to) ==
  /\ pc[c] = from
  /\ pc' = [pc EXCEPT ![c] = to]

Claim(c) ==
  /\ Goto(c, "new", "claiming")
  /\ Send(c, "claim")
  /\ UNCHANGED <<now, entry, req, body, lapsed, keepUntil>>

(* 409, 422 and the replay answer at once; claimed runs the handler. *)
ClaimAnswered(c) ==
  /\ reply[c] # "none"
  /\ Goto(c, "claiming", IF reply[c] = "claimed" THEN "running" ELSE "answered")
  /\ UNCHANGED <<now, entry, req, op, inflight, reply, body, lapsed, keepUntil>>

(* A thrown error, a status below 200 or from 500 up, and RELEASE_STATUSES *)
(* give the key back; any other response is recorded.                      *)
HandlerEnds(c) ==
  /\ Goto(c, "running", "settling")
  /\ \E command \in {"complete", "release"} : Send(c, command)
  /\ UNCHANGED <<now, entry, req, body, lapsed, keepUntil>>

(* "settled" and "lost" alike leave the caller its handler's response. *)
SettleAnswered(c) ==
  /\ reply[c] # "none"
  /\ Goto(c, "settling", "answered")
  /\ UNCHANGED <<now, entry, req, op, inflight, reply, body, lapsed, keepUntil>>

(* The call rejects: 503 for a claim, swallowed and logged for a settle.   *)
(* The command may have executed, may execute later, or never.             *)
CallFails(c) ==
  /\ \/ Goto(c, "claiming", "answered")
     \/ Goto(c, "settling", "answered")
  /\ UNCHANGED <<now, entry, req, op, inflight, reply, body, lapsed, keepUntil>>

Crash(c) ==
  /\ \E from \in {"claiming", "running", "settling"} : Goto(c, from, "crashed")
  /\ UNCHANGED <<now, entry, req, op, inflight, reply, body, lapsed, keepUntil>>
-----------------------------------------------------------------------------
(* The Redis server *)

Execute(c, command, answer) ==
  /\ op[c] = command /\ inflight[c]
  /\ inflight' = [inflight EXCEPT ![c] = FALSE]
  /\ reply' = [reply EXCEPT ![c] = answer]
  /\ UNCHANGED <<now, req, pc, op, lapsed>>

ClaimOutcome(c) ==
  IF EntryOf(c) = Absent THEN "claimed"
  ELSE IF EntryOf(c).f # req[c].fp THEN "fingerprint-mismatch"
  ELSE IF EntryOf(c).s = "c" THEN "completed"
  ELSE IF EntryOf(c).l > now THEN "in-progress"
  ELSE "claimed"

(* CLAIM_SCRIPT: an absent or lapsed record is (re)written for the token. *)
ExecClaim(c) ==
  /\ Execute(c, "claim", ClaimOutcome(c))
  /\ entry' = IF ClaimOutcome(c) = "claimed"
              THEN [entry EXCEPT ![req[c].key] = Pending(c, now + Lease, now + Ttl)]
              ELSE entry
  /\ body' = IF ClaimOutcome(c) = "completed"
             THEN [body EXCEPT ![c] = EntryOf(c).r]
             ELSE body
  /\ UNCHANGED keepUntil

(* COMPLETE_SCRIPT *)
ExecComplete(c) ==
  /\ IF IsHolder(c)
     THEN /\ Execute(c, "complete", "settled")
          /\ entry' = [entry EXCEPT ![req[c].key] = Completed(c, EntryOf(c).f, now + Ttl)]
          /\ keepUntil' = [keepUntil EXCEPT ![c] = now + Ttl]
     ELSE /\ Execute(c, "complete", "lost")
          /\ UNCHANGED <<entry, keepUntil>>
  /\ UNCHANGED body

(* RELEASE_SCRIPT *)
ExecRelease(c) ==
  /\ IF IsHolder(c)
     THEN /\ Execute(c, "release", "settled")
          /\ entry' = [entry EXCEPT ![req[c].key] = Absent]
     ELSE /\ Execute(c, "release", "lost")
          /\ UNCHANGED entry
  /\ UNCHANGED <<body, keepUntil>>

(* The command never reaches the server. *)
Lose(c) ==
  /\ inflight[c]
  /\ inflight' = [inflight EXCEPT ![c] = FALSE]
  /\ UNCHANGED <<now, entry, req, pc, op, reply, body, lapsed, keepUntil>>

Expired(e, t) == e # Absent /\ e.px <= t
LeaseLapsed(e, t) == e.s = "p" /\ (e.l <= t \/ e.px <= t)

Tick ==
  /\ now < MaxTime
  /\ now' = now + 1
  /\ entry' = [k \in Keys |-> IF Expired(entry[k], now + 1) THEN Absent ELSE entry[k]]
  /\ lapsed' = lapsed \cup {c \in Callers : IsHolder(c) /\ LeaseLapsed(EntryOf(c), now + 1)}
  /\ UNCHANGED <<req, pc, op, inflight, reply, body, keepUntil>>

Middleware(c) == \/ Claim(c) \/ ClaimAnswered(c) \/ HandlerEnds(c)
                 \/ SettleAnswered(c) \/ CallFails(c) \/ Crash(c)
Server(c) == ExecClaim(c) \/ ExecComplete(c) \/ ExecRelease(c) \/ Lose(c)
Next == Tick \/ \E c \in Callers : Middleware(c) \/ Server(c)

Spec == Init /\ [][Next]_vars
-----------------------------------------------------------------------------
(* The refinement: a caller counts as running while its claim may still be *)
(* settled, and as new while its claim command may still execute.          *)

CellBar ==
  [k \in Keys |->
     CASE entry[k].s = "p" -> [st |-> "held", by |-> entry[k].t, stale |-> entry[k].l <= now]
       [] entry[k].s = "c" -> [st |-> "done", by |-> entry[k].r]
       [] OTHER -> [st |-> "free"]]

Unanswered(c, where) == inflight[c] \/ (reply[c] = "none" /\ pc[c] = where)

ClaimFate(c) ==
  IF Unanswered(c, "claiming") THEN "new"
  ELSE IF reply[c] = "claimed"
       THEN IF pc[c] \in {"claiming", "running"} THEN "running" ELSE "gone"
  ELSE IF reply[c] = "completed" THEN "replayed"
  ELSE "refused"

SettleFate(c) ==
  IF Unanswered(c, "settling") THEN "running"
  ELSE IF reply[c] = "settled"
       THEN IF op[c] = "complete" THEN "completed" ELSE "released"
  ELSE IF reply[c] = "lost" THEN "lost"
  ELSE "gone"

Fate(c) == IF op[c] = "none" THEN "new"
           ELSE IF op[c] = "claim" THEN ClaimFate(c)
           ELSE SettleFate(c)

PhaseBar == [c \in Callers |-> Fate(c)]

Contract == INSTANCE IdempotencyContract
              WITH cell <- CellBar, phase <- PhaseBar, source <- body
Implements == Contract!Spec
-----------------------------------------------------------------------------
TypeOK == /\ now \in 0..MaxTime
          /\ entry \in [Keys -> Entries]
          /\ req \in [Callers -> Requests]
          /\ pc \in [Callers -> Pcs]
          /\ op \in [Callers -> Ops]
          /\ inflight \in [Callers -> BOOLEAN]
          /\ reply \in [Callers -> Replies]
          /\ body \in [Callers -> Callers \cup {NoBody}]
          /\ lapsed \in SUBSET Callers
          /\ keepUntil \in [Callers -> Nat]

(* A replayed response is the record of a completed, equal request: tokens *)
(* fence late COMPLETE and RELEASE scripts off a record they do not hold.  *)
ReplayFaithful == Contract!ReplayFaithful

(* Two handlers of one key overlap only after a lease lapsed.  Orphaned    *)
(* claims, lost answers and crashes leave a key blocked, never open.       *)
Exclusion == Contract!Exclusion

Granted(c) == op[c] = "claim" /\ reply[c] = "claimed"

(* No caller is granted a key within Ttl of the completion of another      *)
(* request on it: a late release, a takeover or a lost answer of an older  *)
(* holder never removes or replaces a completed record.                    *)
RetainedForTtl ==
  [][\A c, d \in Callers :
       /\ Granted(c)' /\ ~Granted(c)
       /\ req[d].key = req[c].key
       => now >= keepUntil[d]]_vars
=============================================================================
