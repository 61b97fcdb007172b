------------------------- MODULE IdempotencyContract -------------------------
(***************************************************************************)
(* What an idempotency store promises the requests that share it, whatever *)
(* holds the records: the port IIdempotencyStore of packages/common.       *)
(*                                                                         *)
(* One cell per key is free, held by the caller whose token claimed it, or *)
(* done with the record its holder committed.  Time is abstract: Age may   *)
(* let a hold lapse or a cell expire at any moment.  MemoryIdempotency and *)
(* RedisIdempotency implement this module.                                 *)
(***************************************************************************)
EXTENDS Naturals

CONSTANTS Keys,     \* derived store keys
          Prints,   \* request fingerprints
          Callers   \* one claim attempt each: a caller stands for its token

VARIABLES req,      \* the request each caller makes
          cell,     \* the store
          phase,    \* what became of each caller
          source,   \* the caller whose record a replayed caller received
          lapsed    \* history: callers that held a key when their hold aged

vars == <<req, cell, phase, source, lapsed>>

Requests == [key: Keys, fp: Prints]
Free == [st |-> "free"]
Held(c) == [st |-> "held", by |-> c, stale |-> FALSE]
Done(c) == [st |-> "done", by |-> c]
Cells == {Free} \cup [st: {"held"}, by: Callers, stale: BOOLEAN]
                \cup [st: {"done"}, by: Callers]
Phases == {"new", "running", "completed", "released", "lost",
           "refused", "replayed", "gone"}
NoSource == [none |-> TRUE]

CellOf(c) == cell[req[c].key]
Holds(c) == CellOf(c).st = "held" /\ CellOf(c).by = c

Init == /\ req \in [Callers -> Requests]
        /\ cell = [k \in Keys |-> Free]
        /\ phase = [c \in Callers |-> "new"]
        /\ source = [c \in Callers |-> NoSource]
        /\ lapsed = {}

(***************************************************************************)
(* claim -> claimed: the key is absent, or its holder has the same         *)
(* fingerprint and a lapsed lease.  A caller that has already given up on  *)
(* the answer is "gone": its hold is an orphan.                            *)
(***************************************************************************)
Grant(c) ==
  /\ phase[c] = "new"
  /\ \/ CellOf(c) = Free
     \/ CellOf(c).st = "held" /\ CellOf(c).stale /\ req[CellOf(c).by] = req[c]
  /\ cell' = [cell EXCEPT ![req[c].key] = Held(c)]
  /\ \E p \in {"running", "gone"} : phase' = [phase EXCEPT ![c] = p]
  /\ UNCHANGED <<req, source, lapsed>>

(* claim -> completed: the record of an equal request is handed back. *)
Replay(c) ==
  /\ phase[c] = "new"
  /\ CellOf(c).st = "done" /\ req[CellOf(c).by] = req[c]
  /\ phase' = [phase EXCEPT ![c] = "replayed"]
  /\ source' = [source EXCEPT ![c] = CellOf(c).by]
  /\ UNCHANGED <<req, cell, lapsed>>

(* Any other outcome of claim, a failed call included. *)
Refuse(c) ==
  /\ phase[c] = "new"
  /\ phase' = [phase EXCEPT ![c] = "refused"]
  /\ UNCHANGED <<req, cell, source, lapsed>>

(* complete and release: "settled" only for the token that holds the claim. *)
Settle(c, to, fate) ==
  /\ phase[c] = "running"
  /\ IF Holds(c)
     THEN /\ cell' = [cell EXCEPT ![req[c].key] = to]
          /\ phase' = [phase EXCEPT ![c] = fate]
     ELSE /\ phase' = [phase EXCEPT ![c] = "lost"]
          /\ UNCHANGED cell
  /\ UNCHANGED <<req, source, lapsed>>

Complete(c) == Settle(c, Done(c), "completed")
Release(c) == Settle(c, Free, "released")

(* The holder crashes, or its settling call never reaches the store. *)
Abandon(c) ==
  /\ phase[c] = "running"
  /\ phase' = [phase EXCEPT ![c] = "gone"]
  /\ UNCHANGED <<req, cell, source, lapsed>>

(* What time may do to one cell. *)
Stale(e) == [st |-> "held", by |-> e.by, stale |-> TRUE]
Aged(e) == {e, Free} \cup (IF e.st = "held" THEN {Stale(e)} ELSE {})

Age ==
  /\ cell' \in [Keys -> Cells]
  /\ \A k \in Keys : cell'[k] \in Aged(cell[k])
  /\ lapsed' = lapsed \cup {c \in Callers : Holds(c) /\ cell'[req[c].key] # CellOf(c)}
  /\ UNCHANGED <<req, phase, source>>

Next == \/ \E c \in Callers : \/ Grant(c) \/ Replay(c) \/ Refuse(c)
                              \/ Complete(c) \/ Release(c) \/ Abandon(c)
        \/ Age

Spec == Init /\ [][Next]_vars
-----------------------------------------------------------------------------
TypeOK == /\ req \in [Callers -> Requests]
          /\ cell \in [Keys -> Cells]
          /\ phase \in [Callers -> Phases]
          /\ source \in [Callers -> Callers \cup {NoSource}]
          /\ lapsed \in SUBSET Callers

(* A replayed answer is the record of a caller that ran the same request   *)
(* under the same key to completion: never another request's record, and   *)
(* never one whose holder had been superseded.                             *)
ReplayFaithful ==
  \A c \in Callers : phase[c] = "replayed" =>
    /\ source[c] \in Callers
    /\ phase[source[c]] = "completed"
    /\ req[source[c]] = req[c]

(* Two callers run the handler of one key at the same time only if the     *)
(* hold of one of them lapsed: before that a second arrival is refused.    *)
Exclusion ==
  \A c, d \in Callers :
    /\ c # d
    /\ phase[c] = "running" /\ phase[d] = "running"
    /\ req[c].key = req[d].key
    => c \in lapsed \/ d \in lapsed
=============================================================================
