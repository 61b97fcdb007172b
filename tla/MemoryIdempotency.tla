-------------------------- MODULE MemoryIdempotency --------------------------
(***************************************************************************)
(* The HTTP idempotency middleware over MemoryIdempotencyStore, the store  *)
(* of one process: every call does its reads and writes in one event-loop  *)
(* turn, expired entries are removed lazily or by throttled sweeps, and a  *)
(* full scope or store refuses a claim rather than evict an entry.         *)
(***************************************************************************)
EXTENDS Integers, FiniteSets, FiniteSetsExt

CONSTANTS Keys, Prints, Callers, Scopes,
          ScopeOf,        \* the capacity bucket each key is derived with
          Lease, Ttl,
          MaxPerScope,    \* maxEntriesPerScope
          MaxEntries, MaxBytes,
          RecordBytes,    \* length of a stored record; a claim counts 1
          SweepThrottle,  \* SWEEP_THROTTLE_MS
          MaxTime         \* bound on the clock

ASSUME CapacityAssumption ==
  /\ IsFiniteSet(Keys) /\ ScopeOf \in [Keys -> Scopes]
  /\ {Lease, Ttl, MaxPerScope, MaxEntries, MaxBytes, SweepThrottle} \subseteq Nat \ {0}
  /\ RecordBytes \in Nat /\ MaxTime \in Nat /\ Lease <= Ttl

VARIABLES now,        \* runtime.hrtime()
          store,      \* the private fields of MemoryIdempotencyStore
          req, pc,    \* each request and where its middleware stands
          answer,     \* how the request ended: a refusal, a replay, or the
                      \* handler's response with its claim settled or lost
          body,       \* the record it replayed
          lapsed,     \* history: callers whose claim outlived its lease
          keepUntil   \* history: until when a completed record is kept

vars == <<now, store, req, pc, answer, body, lapsed, keepUntil>>

Requests == [key: Keys, fp: Prints]
Absent == [state |-> "absent"]
Pending(c) == [state |-> "p", token |-> c, fp |-> req[c].fp, leaseUntil |-> now + Lease,
               expiresAt |-> now + Ttl]
(* Mutant: completion keeps the expiry of its claim. *)
UnrenewedCompleted(c, e) == [state |-> "c", record |-> c, fp |-> e.fp, expiresAt |-> e.expiresAt]
Completed(c, e) == [state |-> "c", record |-> c, fp |-> e.fp, expiresAt |-> now + Ttl]
Entries == {Absent}
  \cup [state: {"p"}, token: Callers, fp: Prints, leaseUntil: Nat, expiresAt: Nat]
  \cup [state: {"c"}, record: Callers, fp: Prints, expiresAt: Nat]
NoScope == [none |-> TRUE]
NoBody == [none |-> TRUE]
Never == -SweepThrottle   \* NEGATIVE_INFINITY, or no row: no sweep to wait for
Answers == {"none", "completed", "released", "lost", "replay", "409", "422", "429", "503"}

Empty == [entries |-> [k \in Keys |-> Absent],
          keysByScope |-> [s \in Scopes |-> {}],
          scopeOfKey |-> [k \in Keys |-> NoScope],
          lastScopeSweep |-> [s \in Scopes |-> Never],
          lastSweep |-> Never,
          bytes |-> 0]

Init == /\ now = 0
        /\ store = Empty
        /\ req \in [Callers -> Requests]
        /\ pc = [c \in Callers |-> "new"]
        /\ answer = [c \in Callers |-> "none"]
        /\ body = [c \in Callers |-> NoBody]
        /\ lapsed = {}
        /\ keepUntil = [c \in Callers |-> 0]
-----------------------------------------------------------------------------
(* The store's private methods, as functions of its fields s. *)

Held(s) == {k \in Keys : s.entries[k] # Absent}
Size(e) == IF e = Absent THEN 0 ELSE IF e.state = "c" THEN 1 + RecordBytes ELSE 1
Expired(e) == e # Absent /\ e.expiresAt <= now

(* Mutant: every removal gives back a full record, unclamped. *)
OverpaidRemoveHeld(s, k) ==
  [s EXCEPT !.entries[k] = Absent,
            !.bytes = @ - (1 + RecordBytes),
            !.scopeOfKey[k] = NoScope,
            !.keysByScope[s.scopeOfKey[k]] = @ \ {k}]

RemoveHeld(s, k) ==
  LET scope == s.scopeOfKey[k]
      left == s.keysByScope[scope] \ {k}
  IN [s EXCEPT !.entries[k] = Absent,
               !.bytes = Max({0, @ - Size(s.entries[k])}),
               !.scopeOfKey[k] = NoScope,
               !.keysByScope[scope] = left,
               !.lastScopeSweep[scope] = IF left = {} THEN Never ELSE @]

Remove(s, k) == IF s.entries[k] = Absent THEN s ELSE RemoveHeld(s, k)
RemoveAll(s, K) == FoldSet(LAMBDA k, t : Remove(t, k), s, K)

(* liveEntry: an expired entry is removed as it is looked up. *)
Lookup(s, k) == IF Expired(s.entries[k]) THEN Remove(s, k) ELSE s

(* Mutant: every scope shares the store's throttle. *)
SharedSweepScope(s, scope) ==
  IF now - s.lastSweep < SweepThrottle THEN s
  ELSE RemoveAll([s EXCEPT !.lastSweep = now],
                 {k \in s.keysByScope[scope] : Expired(s.entries[k])})

SweepScope(s, scope) ==
  IF now - s.lastScopeSweep[scope] < SweepThrottle THEN s
  ELSE RemoveAll([s EXCEPT !.lastScopeSweep[scope] = now],
                 {k \in s.keysByScope[scope] : Expired(s.entries[k])})

Sweep(s) ==
  IF now - s.lastSweep < SweepThrottle THEN s
  ELSE RemoveAll([s EXCEPT !.lastSweep = now], {k \in Keys : Expired(s.entries[k])})

(* Mutant: a takeover overwrites the entry without removing it first. *)
OverwritingInsert(s, c) ==
  [s EXCEPT !.entries[req[c].key] = Pending(c),
            !.bytes = @ + 1,
            !.scopeOfKey[req[c].key] = ScopeOf[req[c].key],
            !.keysByScope[ScopeOf[req[c].key]] = @ \cup {req[c].key}]

Insert(s, c) ==
  LET k == req[c].key
      t == Remove(s, k)
  IN [t EXCEPT !.entries[k] = Pending(c),
               !.bytes = @ + 1,
               !.scopeOfKey[k] = ScopeOf[k],
               !.keysByScope[ScopeOf[k]] = @ \cup {k}]

ScopeFull(s, scope) == Cardinality(s.keysByScope[scope]) >= MaxPerScope
StoreFull(s) == Cardinality(Held(s)) >= MaxEntries \/ s.bytes >= MaxBytes

(* An absent key: sweep a full scope, then a full store, and give up while *)
(* either is still full.                                                   *)
Admit(s0, c) ==
  LET scope == ScopeOf[req[c].key]
      s1 == IF ScopeFull(s0, scope) THEN SweepScope(s0, scope) ELSE s0
      s2 == IF StoreFull(s1) THEN Sweep(s1) ELSE s1
  IN IF ScopeFull(s1, scope) THEN [store |-> s1, outcome |-> "capacity-exceeded"]
     ELSE IF StoreFull(s2) THEN [store |-> s2, outcome |-> "rejected"]
     ELSE [store |-> Insert(s2, c), outcome |-> "claimed"]

ClaimCall(c) ==
  LET s == Lookup(store, req[c].key)
      e == s.entries[req[c].key]
  IN IF e = Absent THEN Admit(s, c)
     ELSE IF e.fp # req[c].fp THEN [store |-> s, outcome |-> "fingerprint-mismatch"]
     ELSE IF e.state = "c" THEN [store |-> s, outcome |-> "completed"]
     ELSE IF e.leaseUntil > now THEN [store |-> s, outcome |-> "in-progress"]
     ELSE [store |-> Insert(s, c), outcome |-> "claimed"]

(* Mutant: no token is compared. *)
TokenlessHolds(s, c) == s.entries[req[c].key].state = "p"
Holds(s, c) == s.entries[req[c].key].state = "p" /\ s.entries[req[c].key].token = c
-----------------------------------------------------------------------------
(* The middleware *)

AnswerTo == [x \in {"claimed", "completed", "in-progress", "fingerprint-mismatch",
                    "capacity-exceeded", "rejected"} |->
               CASE x = "claimed" -> "none"
                 [] x = "completed" -> "replay"
                 [] x = "in-progress" -> "409"
                 [] x = "fingerprint-mismatch" -> "422"
                 [] x = "capacity-exceeded" -> "429"
                 [] x = "rejected" -> "503"]

Claim(c) ==
  LET call == ClaimCall(c) IN
  /\ pc[c] = "new"
  /\ store' = call.store
  /\ pc' = [pc EXCEPT ![c] = IF call.outcome = "claimed" THEN "running" ELSE "answered"]
  /\ answer' = [answer EXCEPT ![c] = AnswerTo[call.outcome]]
  /\ body' = IF call.outcome = "completed"
             THEN [body EXCEPT ![c] = store.entries[req[c].key].record]
             ELSE body
  /\ UNCHANGED <<now, req, lapsed, keepUntil>>

FinishWith(c, result, s) ==
  /\ pc[c] = "running"
  /\ store' = s
  /\ pc' = [pc EXCEPT ![c] = "answered"]
  /\ answer' = [answer EXCEPT ![c] = result]
  /\ UNCHANGED <<now, req, body, lapsed>>

(* The handler's response is recorded; "lost" leaves it to the caller. *)
Complete(c) ==
  LET s == Lookup(store, req[c].key)
      k == req[c].key
  IN IF Holds(s, c)
     THEN /\ FinishWith(c, "completed",
                         [s EXCEPT !.entries[k] = Completed(c, s.entries[k]),
                                   !.bytes = @ + RecordBytes])
          /\ keepUntil' = [keepUntil EXCEPT ![c] = now + Ttl]
     ELSE FinishWith(c, "lost", s) /\ UNCHANGED keepUntil

(* A thrown error, or a status that is not to be recorded. *)
Release(c) ==
  LET s == Lookup(store, req[c].key) IN
  /\ IF Holds(s, c) THEN FinishWith(c, "released", Remove(s, req[c].key))
                    ELSE FinishWith(c, "lost", s)
  /\ UNCHANGED keepUntil

(* The plugin closes; handlers may still be running. *)
Disconnect ==
  /\ Held(store) # {}
  /\ store' = [Empty EXCEPT !.lastSweep = store.lastSweep]
  /\ lapsed' = lapsed \cup {c \in Callers : Holds(store, c)}
  /\ keepUntil' = [c \in Callers |-> 0]
  /\ UNCHANGED <<now, req, pc, answer, body>>

Tick ==
  /\ now < MaxTime
  /\ now' = now + 1
  /\ lapsed' = lapsed \cup {c \in Callers : /\ Holds(store, c)
                                            /\ store.entries[req[c].key].leaseUntil <= now + 1}
  /\ UNCHANGED <<store, req, pc, answer, body, keepUntil>>

Next == Tick \/ Disconnect \/ \E c \in Callers : Claim(c) \/ Complete(c) \/ Release(c)

Spec == Init /\ [][Next]_vars
-----------------------------------------------------------------------------
(* The refinement: an expired entry is gone, whenever it is removed. *)

CellBar ==
  [k \in Keys |->
     LET e == store.entries[k] IN
     CASE e = Absent \/ Expired(e) -> [st |-> "free"]
       [] e.state = "p" /\ ~Expired(e) ->
            [st |-> "held", by |-> e.token, stale |-> e.leaseUntil <= now]
       [] e.state = "c" /\ ~Expired(e) -> [st |-> "done", by |-> e.record]]

PhaseBar ==
  [c \in Callers |->
     CASE pc[c] # "answered" -> pc[c]
       [] pc[c] = "answered" /\ answer[c] \in {"completed", "released", "lost"} -> answer[c]
       [] pc[c] = "answered" /\ answer[c] = "replay" -> "replayed"
       [] pc[c] = "answered" /\ answer[c] \in {"409", "422", "429", "503"} -> "refused"]

Contract == INSTANCE IdempotencyContract
              WITH cell <- CellBar, phase <- PhaseBar, source <- body
Implements == Contract!Spec
-----------------------------------------------------------------------------
TypeOK == /\ now \in 0..MaxTime
          /\ store.entries \in [Keys -> Entries]
          /\ store.keysByScope \in [Scopes -> SUBSET Keys]
          /\ store.scopeOfKey \in [Keys -> Scopes \cup {NoScope}]
          /\ store.lastScopeSweep \in [Scopes -> 0..MaxTime \cup {Never}]
          /\ store.lastSweep \in 0..MaxTime \cup {Never}
          /\ store.bytes \in Nat
          /\ req \in [Callers -> Requests]
          /\ pc \in [Callers -> {"new", "running", "answered"}]
          /\ answer \in [Callers -> Answers]

(* The four indexes agree with the entries: each scope lists exactly its   *)
(* keys, the byte count is the sum of the sizes (so its clamp at zero      *)
(* never hides an error), and a scope without keys leaves no sweep row.    *)
(* Takeovers and lazy removal never push a scope or the store past its cap. *)
Accounting ==
  /\ \A s \in Scopes : store.keysByScope[s] = {k \in Held(store) : ScopeOf[k] = s}
  /\ \A k \in Keys : store.scopeOfKey[k] = IF k \in Held(store) THEN ScopeOf[k] ELSE NoScope
  /\ store.bytes = FoldSet(LAMBDA k, n : n + Size(store.entries[k]), 0, Keys)
  /\ \A s \in Scopes : store.lastScopeSweep[s] # Never => store.keysByScope[s] # {}
  /\ \A s \in Scopes : Cardinality(store.keysByScope[s]) <= MaxPerScope
  /\ Cardinality(Held(store)) <= MaxEntries

(* No caller is granted a key within Ttl of a completion on it: capacity   *)
(* pressure refuses claims and never evicts a completed record.            *)
RetainedForTtl ==
  [][\A c, d \in Callers :
       /\ pc[c] = "new" /\ pc'[c] = "running"
       /\ req[d].key = req[c].key
       => now >= keepUntil[d]]_vars

LongDead(e) == e # Absent /\ e.expiresAt <= now - SweepThrottle

(* A capacity refusal counts no entry that expired a throttle window ago   *)
(* or earlier: one scope's sweep never holds back another's.               *)
RefusalIgnoresTheDead ==
  [][\A c \in Callers :
       /\ answer[c] = "none" /\ answer'[c] = "429"
       => \A k \in Keys : ScopeOf[k] = ScopeOf[req[c].key]
                           => ~LongDead(store'.entries[k])]_vars
=============================================================================
