-------------------------------- MODULE Inbox --------------------------------
(***************************************************************************)
(* The consumer inbox (messaging-plugin/src/inbox) over the store of         *)
(* database-plugin/src/inbox, for one message of one consumer: its marker,   *)
(* its failure count, the copies of it the broker delivers, to any instance, *)
(* an operator and the retention purge.  The handler's work and the marker   *)
(* commit in one transaction.  An eager backend refuses or delays a second   *)
(* marker when it is created, a deferred one refuses it at commit.            *)
(***************************************************************************)
EXTENDS Integers, FiniteSets

CONSTANTS
    Copies,        \* the deliveries of the message that may run at a time
    MaxAttempts,   \* inbox.maxAttempts, 0 when absent
    Rounds,        \* how often a count is tried again under contention, 5
    MaxFaults,     \* bound: failed, timed out or late calls, and crashes
    MaxReleases,   \* bound: releases by an operator
    MaxPasses      \* bound: how often retainMs passes

ASSUME LimitAssumption ==
    /\ {MaxAttempts, MaxFaults, MaxReleases, MaxPasses} \subseteq Nat /\ Rounds \in Nat \ {0}
    /\ IsFiniteSet(Copies) /\ Copies \intersect {"marker", "count"} = {}

VARIABLES
    eager,     \* the backend, chosen once
    marker,    \* status of the marker row, "none" without one
    count,     \* attempts of the failure-count row, 0 without one
    pc,        \* what each copy waits for, or its last answer to the broker
    seen,      \* the count a copy has read
    rounds,    \* its rounds of contention
    clearing,  \* whether a release has yet to delete the count row
    aged,      \* rows, and markers made by a copy, that are older than retainMs
    doomed,    \* rows that a purge has read and not yet deleted
    late,      \* writes given up by their caller that may still apply
    effects,   \* history: commits of the handler's work
    failures,  \* history: rejections of run, up to MaxAttempts
    faults, releases, passes

vars == <<eager, marker, count, pc, seen, rounds, clearing, aged, doomed, late, effects, failures,
          faults, releases, passes>>

Ended == {"acked", "rejected"}
Counting == {"count", "record", "recount"}
Parking == {"exhausted", "unparsed"}

InboxInit ==
    /\ eager \in BOOLEAN
    /\ marker = "none" /\ count = 0
    /\ pc = [d \in Copies |-> "rejected"]
    /\ seen = [d \in Copies |-> 0] /\ rounds = [d \in Copies |-> 0]
    /\ clearing = FALSE /\ aged = {} /\ doomed = {} /\ late = {}
    /\ effects = 0 /\ failures = 0
    /\ faults = 0 /\ releases = 0 /\ passes = 0

Goto(d, at) == pc' = [pc EXCEPT ![d] = at]
Read(d, n, r) == seen' = [seen EXCEPT ![d] = n] /\ rounds' = [rounds EXCEPT ![d] = r]
Fault == faults < MaxFaults /\ faults' = faults + 1
Fresh(x) == aged' = aged \ {x}

(* The transactions that hold a marker which is not committed. *)
Open == {d \in Copies : pc[d] = "handler"}

-----------------------------------------------------------------------------
(* deliver: a copy arrives, again or for the first time; a present marker       *)
(* acknowledges it.  A payload the definition rejects is parked at once.        *)
Deliver(d) ==
    /\ pc[d] \in Ended
    /\ IF marker # "none" THEN Goto(d, "acked")
       ELSE \/ Goto(d, IF eager THEN "begin" ELSE "handler")
            \/ Goto(d, IF MaxAttempts = 0 THEN "rejected" ELSE "unparsed")
    /\ UNCHANGED <<eager, marker, count, seen, rounds, clearing, aged, doomed, late, effects,
                   failures, faults, releases, passes>>

(* run rejects: its transaction is refused or rolled back, or its answer is lost. *)
Rejected(d) ==
    /\ Goto(d, "reread")
    /\ failures' = IF failures < MaxAttempts THEN failures + 1 ELSE failures
RolledBack(d) ==
    /\ Rejected(d) /\ Fresh(d)
    /\ UNCHANGED <<eager, marker, count, seen, rounds, clearing, doomed, late, effects, faults,
                   releases, passes>>

(* run: create the marker, which a deferred backend only notes.  While another  *)
(* transaction holds it an eager one lets the create wait, or refuses it as a    *)
(* write conflict.                                                              *)
Begin(d) ==
    /\ pc[d] = "begin"
    /\ IF marker # "none" THEN RolledBack(d)
       ELSE /\ Open = {}
            /\ Goto(d, "handler")
            /\ UNCHANGED <<eager, marker, count, seen, rounds, clearing, aged, doomed, late, effects,
                           failures, faults, releases, passes>>
Conflict(d) == pc[d] = "begin" /\ Open # {} /\ RolledBack(d)

(* The handler, or its transaction, fails. *)
HandlerFails(d) == pc[d] = "handler" /\ RolledBack(d)

(* The handler returns and its transaction commits, unless there is a marker;   *)
(* the answer may be lost, or the process end before it has it.                  *)
Commit(d) ==
    /\ pc[d] = "handler"
    /\ IF marker # "none" THEN RolledBack(d)
       ELSE /\ marker' = "processed" /\ effects' = effects + 1
            /\ aged' = IF d \in aged THEN (aged \ {d}) \union {"marker"} ELSE aged \ {"marker"}
            /\ \/ Goto(d, "acked") /\ UNCHANGED <<failures, faults>>
               \/ Goto(d, "rejected") /\ Fault /\ UNCHANGED failures
               \/ Rejected(d) /\ Fault
            /\ UNCHANGED <<eager, count, seen, rounds, clearing, doomed, late, releases, passes>>

(* After any rejection the marker is read again; a failing read counts as none. *)
Unmarked(d) == Goto(d, IF MaxAttempts = 0 THEN "rejected" ELSE "count")
Reread(d) ==
    /\ pc[d] = "reread" /\ IF marker # "none" THEN Goto(d, "acked") ELSE Unmarked(d)
    /\ UNCHANGED <<eager, marker, count, seen, rounds, clearing, aged, doomed, late, effects,
                   failures, faults, releases, passes>>
(* Mutant: a failing read counts as handled. *)
SwallowingRereadFails(d) ==
    /\ pc[d] = "reread" /\ Fault /\ Goto(d, "acked")
    /\ UNCHANGED <<eager, marker, count, seen, rounds, clearing, aged, doomed, late, effects,
                   failures, releases, passes>>
RereadFails(d) ==
    /\ pc[d] = "reread" /\ Fault /\ Unmarked(d)
    /\ UNCHANGED <<eager, marker, count, seen, rounds, clearing, aged, doomed, late, effects,
                   failures, releases, passes>>

-----------------------------------------------------------------------------
(* recordFailure: find the count row. *)
Count(d) ==
    /\ pc[d] = "count" /\ Goto(d, "record") /\ Read(d, count, 0)
    /\ UNCHANGED <<eager, marker, count, clearing, aged, doomed, late, effects, failures, faults,
                   releases, passes>>

(* Mutant: the limit is compared with the failures to come. *)
HastyExhausted(n) == n + 1 >= MaxAttempts
Exhausted(n) == n >= MaxAttempts
(* Mutant: the count is written back as it was read. *)
StuckIncremented(n) == IF n = 0 THEN 1 ELSE n
Incremented(n) == n + 1

(* Mutant: contention is retried for ever. *)
EndlessMayRetry(d) == TRUE
MayRetry(d) == seen[d] = 0 \/ rounds[d] + 1 < Rounds

(* Create the row, or count one more if the row is as it was read. *)
Record(d) ==
    /\ pc[d] = "record"
    /\ IF count = seen[d]
       THEN /\ count' = Incremented(seen[d]) /\ Fresh("count")
            /\ Goto(d, IF Exhausted(count') THEN "exhausted" ELSE "rejected")
            /\ Read(d, 0, 0)
       ELSE /\ IF MayRetry(d)
               THEN Goto(d, "recount") /\ Read(d, 0, IF seen[d] = 0 THEN 0 ELSE rounds[d] + 1)
               ELSE Goto(d, "rejected") /\ Read(d, 0, 0)
            /\ UNCHANGED <<count, aged>>
    /\ UNCHANGED <<eager, marker, clearing, doomed, late, effects, failures, faults, releases,
                   passes>>

(* The row is read again; when it has disappeared the failure is not recorded. *)
Recount(d) ==
    /\ pc[d] = "recount"
    /\ IF count = 0 THEN Goto(d, "rejected") /\ Read(d, 0, 0)
       ELSE Goto(d, "record") /\ Read(d, count, rounds[d])
    /\ UNCHANGED <<eager, marker, count, clearing, aged, doomed, late, effects, failures,
                   faults, releases, passes>>

(* park: create a parked marker, or find the marker that is there. *)
Park(d) ==
    /\ pc[d] \in Parking /\ (eager => Open = {})
    /\ IF marker = "none"
       THEN marker' = "parked" /\ Fresh("marker") /\ Goto(d, "acked")
       ELSE Goto(d, "exists") /\ UNCHANGED <<marker, aged>>
    /\ UNCHANGED <<eager, count, seen, rounds, clearing, doomed, late, effects, failures, faults,
                   releases, passes>>
ParkExists(d) ==
    /\ pc[d] = "exists" /\ Goto(d, IF marker # "none" THEN "acked" ELSE "rejected")
    /\ UNCHANGED <<eager, marker, count, seen, rounds, clearing, aged, doomed, late, effects,
                   failures, faults, releases, passes>>

(* A store call fails or times out, or the process ends: the copy is rejected,  *)
(* an open transaction rolls back, and any other write may still apply.          *)
InFlight(d) ==
    IF pc[d] \in Counting
    THEN {[op |-> "record", copy |-> d,
           creates |-> pc[d] = "count" \/ (pc[d] = "record" /\ seen[d] = 0)]}
    ELSE IF pc[d] \in Parking THEN {[op |-> "park", copy |-> d, creates |-> TRUE]} ELSE {}
Abandon(d) ==
    /\ pc[d] \notin Ended /\ Fault /\ Goto(d, "rejected")
    /\ late' \in {late, late \union InFlight(d)}
    /\ Fresh(d) /\ Read(d, 0, 0)
    /\ UNCHANGED <<eager, marker, count, clearing, doomed, effects, failures,
                   releases, passes>>

LateRecord(c) ==
    /\ c.op = "record" /\ count' = IF c.creates \/ count # 0 THEN Incremented(count) ELSE 0
    /\ Fresh("count") /\ UNCHANGED marker
LatePark(c) ==
    /\ c.op = "park" /\ (eager => Open = {})
    /\ marker' = IF marker = "none" THEN "parked" ELSE marker
    /\ aged' = IF marker = "none" THEN aged \ {"marker"} ELSE aged
    /\ UNCHANGED count
LateWrite(c) ==
    /\ LateRecord(c) \/ LatePark(c)
    /\ late' = late \ {c}
    /\ UNCHANGED <<eager, pc, seen, rounds, clearing, doomed, effects, failures, faults, releases,
                   passes>>

-----------------------------------------------------------------------------
(* release: one conditional write of a parked marker, then the count row goes. *)
Release ==
    /\ marker = "parked" /\ ~clearing /\ releases < MaxReleases /\ releases' = releases + 1
    /\ \/ marker' = "none" /\ Fresh("marker")
       \/ marker' = "discarded" /\ Fresh("marker")
    /\ clearing' = TRUE
    /\ UNCHANGED <<eager, count, pc, seen, rounds, doomed, late, effects, failures, faults, passes>>
ClearCount ==
    /\ clearing /\ clearing' = FALSE /\ count' = 0 /\ Fresh("count")
    /\ UNCHANGED <<eager, marker, pc, seen, rounds, doomed, late, effects, failures, faults,
                   releases, passes>>
(* The process ends, or the call fails, between the two. *)
ReleaseFails ==
    /\ clearing /\ clearing' = FALSE /\ Fault
    /\ UNCHANGED <<eager, marker, count, pc, seen, rounds, aged, doomed, late, effects, failures,
                   releases, passes>>

(* retainMs passes: every row, and every marker waiting for its handler, is old. *)
Rows == {x \in {"marker", "count"} : IF x = "marker" THEN marker # "none" ELSE count # 0}
RetentionPasses ==
    /\ passes < MaxPasses /\ passes' = passes + 1
    /\ aged' = Rows \union {d \in Copies : pc[d] \in {"begin", "handler"}}
    /\ UNCHANGED <<eager, marker, count, pc, seen, rounds, clearing, doomed, late, effects, failures,
                   faults, releases>>

(* purge: list the old rows, then delete each by its id. *)
PurgeReads(x) ==
    /\ x \in Rows \intersect aged /\ x \notin doomed /\ doomed' = doomed \union {x}
    /\ UNCHANGED <<eager, marker, count, pc, seen, rounds, clearing, aged, late, effects, failures,
                   faults, releases, passes>>
PurgeDeletes(x) ==
    /\ x \in doomed /\ doomed' = doomed \ {x} /\ Fresh(x)
    /\ IF x = "marker" THEN marker' = "none" /\ UNCHANGED count
       ELSE count' = 0 /\ UNCHANGED marker
    /\ UNCHANGED <<eager, pc, seen, rounds, clearing, late, effects, failures, faults, releases,
                   passes>>

Handles(d) ==
    \/ Begin(d) \/ HandlerFails(d) \/ Commit(d) \/ Reread(d)
    \/ Count(d) \/ Record(d) \/ Recount(d) \/ Park(d) \/ ParkExists(d)
Serves(d) == (pc[d] = "rejected" /\ Deliver(d)) \/ Handles(d)
InboxNext ==
    \/ \E d \in Copies : Deliver(d) \/ Handles(d) \/ Conflict(d) \/ RereadFails(d) \/ Abandon(d)
    \/ \E c \in late : LateWrite(c)
    \/ Release \/ ClearCount \/ ReleaseFails
    \/ RetentionPasses
    \/ \E x \in {"marker", "count"} : PurgeReads(x) \/ PurgeDeletes(x)

(* The broker delivers a rejected copy again, and every delivery runs to its end. *)
InboxSpec == InboxInit /\ [][InboxNext]_vars /\ \A d \in Copies : WF_vars(Serves(d))
-----------------------------------------------------------------------------
(* Types; a count is tried at most Rounds times. *)
Late == [op : {"record", "park"}, copy : Copies, creates : BOOLEAN]
InboxTypeOK ==
    /\ eager \in BOOLEAN /\ marker \in {"none", "processed", "parked", "discarded"}
    /\ count \in Nat
    /\ pc \in [Copies -> Ended \union Counting \union Parking \union
                         {"begin", "handler", "reread", "exists"}]
    /\ seen \in [Copies -> Nat] /\ rounds \in [Copies -> 0..(Rounds - 1)]
    /\ clearing \in BOOLEAN /\ aged \subseteq Copies \union {"marker", "count"}
    /\ doomed \subseteq {"marker", "count"} /\ late \subseteq Late
    /\ effects \in Nat /\ failures \in 0..MaxAttempts
    /\ {faults, releases, passes} \subseteq Nat

Answer(at) == IF at \in Ended THEN at ELSE "running"
Contract == INSTANCE InboxContract
    WITH outcome <- marker, answer <- [d \in Copies |-> Answer(pc[d])]

(* The inbox keeps its contract: the work is committed only while no marker     *)
(* stands, and a copy is acknowledged only while one does (inbox-service.ts,    *)
(* deliver; database-inbox-store.ts, run).                                      *)
Implements == Contract!Spec

(* A delivery is parked as exhausted only after run rejected maxAttempts times: *)
(* lost, late and contended counts delay parking and never hasten it             *)
(* (inbox-service.ts, #fail; database-inbox-store.ts, recordFailure).            *)
ParkedNotEarly == \A d \in Copies : pc[d] = "exhausted" => failures = MaxAttempts

(* A copy the broker keeps delivering is acknowledged, whatever the handler does, *)
(* given a limit of attempts (inbox-service.ts, #fail and #park).                 *)
Acknowledged == \A d \in Copies : []<>(pc[d] = "acked")
=============================================================================
