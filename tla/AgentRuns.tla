------------------------------ MODULE AgentRuns ------------------------------
(***************************************************************************)
(* Durable agent runs (agent-runs-plugin/src over the store of              *)
(* database-plugin/src/agent-runs): one run whose model asks, in its only    *)
(* step, for a set of tool calls, some of which need an approval.  Any       *)
(* instance may claim the run and drive its loop.  Every write of the loop   *)
(* is conditional on the lease version it claimed; an entry or an approval   *)
(* is inserted as a row of its own and counts once the run says so.          *)
(*                                                                         *)
(* Time is one fact: whether the lease has run out by every clock.           *)
(***************************************************************************)
EXTENDS Integers, FiniteSets

CONSTANTS
    Instances,     \* the application instances
    Calls,         \* the tool calls of the model's answer, numbered in its order
    Asking,        \* those a policy makes wait for an approval
    Canceller,     \* the request that cancels the run
    Nobody,        \* the owner, or call, that is nobody
    ToolAttempts,  \* timeouts.toolAttempts, 0 without timeouts.toolMs
    MaxFaults,     \* bound: crashes, failed calls, timeouts and stalls
    MaxCancels     \* bound: cancel requests

ASSUME CallsAssumption == IsFiniteSet(Calls) /\ Calls \subseteq Nat /\ Asking \subseteq Calls /\ Canceller \notin Calls
ASSUME NamesAssumption == Nobody \notin Instances \union Calls
ASSUME LimitAssumption == {ToolAttempts, MaxFaults, MaxCancels} \subseteq Nat

VARIABLES
    run,       \* the run's row
    entry,     \* entry rows by position: version of the writer, call, output
    approval,  \* approval rows by call: version of the writer, status
    effect,    \* history: commits of each call's work, with its idempotency record
    open,      \* calls with a transaction that its caller gave up
    loop,      \* the step loop of each instance
    after,     \* what is left to do after a decision, an expiry or a cancel
    faults, cancels

vars == <<run, entry, approval, effect, open, loop, after, faults, cancels>>

Positions == 0..Cardinality(Calls)
Terminal == {"completed", "failed", "cancelled"}
NoEntry == [version |-> 0, call |-> Nobody, output |-> "none"]
NoApproval == [version |-> 0, status |-> "none"]
Idle == [at |-> "idle", version |-> 0, entries |-> 0, done |-> {}, view |-> [c \in Calls |-> "none"],
         call |-> Nobody, output |-> "none", kind |-> "entry", orphan |-> 0]

(* start: the run is created unheld, ready to be claimed. *)
Init ==
    /\ run = [status |-> "running", version |-> 0, owner |-> Nobody, lapsed |-> FALSE, entries |-> 0,
              approvals |-> {}, cancel |-> FALSE, timedOut |-> Nobody, timeouts |-> 0]
    /\ entry = [s \in Positions |-> NoEntry]
    /\ approval = [c \in Calls |-> NoApproval]
    /\ effect = [c \in Calls |-> 0]
    /\ open = {}
    /\ loop = [i \in Instances |-> Idle]
    /\ after = [a \in Calls \union {Canceller} |-> "none"]
    /\ faults = 0 /\ cancels = 0

Fault == faults < MaxFaults /\ faults' = faults + 1
Parked == run.status = "waiting" /\ run.owner = Nobody
Pending == {c \in run.approvals : approval[c].status = "pending"}
First(calls) == CHOOSE c \in calls : \A d \in calls : c <= d
Answered(n) == {entry[s].call : s \in 1..(n - 1)}

At(i, at) == loop[i].at = at
Goto(i, at) == loop' = [loop EXCEPT ![i].at = at]
Leave(i) == loop' = [loop EXCEPT ![i] = Idle]
(* Mutant: a write only asks that the run has not ended. *)
Unfenced(i) == run.status \notin Terminal
Fenced(i) == run.version = loop[i].version

(* Lease.write: the row changes if its lease version is the holder's; else the  *)
(* loop has lost its lease and ends.                                            *)
Write(i, row, at) ==
    IF Fenced(i) THEN run' = row /\ Goto(i, at) ELSE Leave(i) /\ UNCHANGED run

-----------------------------------------------------------------------------
(* resume: claim an unheld, ready or expired run, which compares the row with   *)
(* what was read, and load the entries that count.                              *)
Claim(i) ==
    /\ At(i, "idle")
    /\ run.status = "ready" \/ (run.status = "running" /\ (run.owner = Nobody \/ run.lapsed))
    /\ run' = [run EXCEPT !.status = "running", !.version = @ + 1, !.owner = i, !.lapsed = FALSE]
    /\ loop' = [loop EXCEPT ![i] = [Idle EXCEPT !.at = "renew", !.version = run.version + 1,
                                                !.entries = run.entries,
                                                !.done = Answered(run.entries)]]
    /\ UNCHANGED <<entry, approval, effect, open, after, faults, cancels>>

(* Mutant: only a released run is woken. *)
ReleasedFree == run.owner = Nobody
Free == run.owner = Nobody \/ run.lapsed

(* resume, from the sweep's scan of waiting runs. *)
Wake(i) ==
    /\ At(i, "idle") /\ run.status = "waiting" /\ Free /\ (run.cancel \/ Pending = {})
    /\ run' = [run EXCEPT !.status = "ready"]
    /\ UNCHANGED <<entry, approval, effect, open, loop, after, faults, cancels>>

(* The loop renews its lease, sees whether the run is cancelled, and goes on. *)
Renewed == [run EXCEPT !.lapsed = FALSE]
Renew(i) ==
    /\ At(i, "renew")
    /\ Write(i, Renewed,
             IF run.cancel THEN "cancelled"
             ELSE IF loop[i].entries = 0 THEN "model"
             ELSE IF loop[i].done = Calls THEN "completed" ELSE "read")
    /\ UNCHANGED <<entry, approval, effect, open, after, faults, cancels>>

(* The renewal timer: it keeps the lease, or tells that it is lost. *)
Beat(i) ==
    /\ ~At(i, "idle") /\ (run.lapsed \/ ~Fenced(i))
    /\ Write(i, Renewed, loop[i].at)
    /\ open' = IF ~Fenced(i) /\ At(i, "working") THEN open \union {loop[i].call} ELSE open
    /\ UNCHANGED <<entry, approval, effect, after, faults, cancels>>

(* The model answers, or its call fails. *)
Model(i) ==
    /\ At(i, "model")
    /\ \/ Goto(i, "hold") /\ UNCHANGED faults
       \/ Goto(i, "failed") /\ Fault
    /\ UNCHANGED <<run, entry, approval, effect, open, after, cancels>>

(* prepareApprovals: read the approvals that count, then create the missing     *)
(* ones, pending for a call a policy makes wait and approved for the others.    *)
Read(i) ==
    /\ At(i, "read")
    /\ loop' = [loop EXCEPT ![i].at = "prepare",
                            ![i].view = [c \in Calls |-> IF c \in run.approvals
                                                         THEN approval[c].status ELSE "none"]]
    /\ UNCHANGED <<run, entry, approval, effect, open, after, faults, cancels>>

Prepare(i) ==
    /\ At(i, "prepare")
    /\ LET missing == {c \in Calls : loop[i].view[c] = "none"} IN
       IF missing = {} THEN Goto(i, "next")
       ELSE loop' = [loop EXCEPT ![i].at = "hold", ![i].kind = "approval",
                                  ![i].call = First(missing)]
    /\ UNCHANGED <<run, entry, approval, effect, open, after, faults, cancels>>

(* Mutant: an approval that ran out is not a refusal. *)
DeniedOnly == {"denied"}
Refusals == {"denied", "expired"}

(* The next call without an entry that no approval of the view holds back: its  *)
(* output is a refusal, or its tool runs.  With none left, the run parks while  *)
(* the view has a pending approval, and is completed otherwise.                 *)
NextCall(i) ==
    /\ At(i, "next")
    /\ LET view == loop[i].view
           ready == {c \in Calls \ loop[i].done : view[c] # "pending"}
           c == First(ready)
           refused == view[c] \in Refusals
       IN IF ready = {}
          THEN /\ Goto(i, IF \E d \in Calls : view[d] = "pending" THEN "park" ELSE "completed")
               /\ UNCHANGED run
          ELSE IF ~Fenced(i) THEN Leave(i) /\ UNCHANGED run
          ELSE /\ run' = Renewed
               /\ IF run.cancel THEN Goto(i, "cancelled")
                  ELSE loop' = [loop EXCEPT ![i].call = c,
                                            ![i].at = IF refused THEN "hold" ELSE "tool",
                                            ![i].output = IF refused THEN "denied" ELSE @]
    /\ UNCHANGED <<entry, approval, effect, open, after, faults, cancels>>

-----------------------------------------------------------------------------
(* runTool, inside IIdempotencyService.within: the record of an earlier commit  *)
(* is replayed, else the tool runs in a transaction that commits its work with  *)
(* the record.                                                                  *)
Answer(i, output) == loop' = [loop EXCEPT ![i].at = "hold", ![i].output = output]
Tool(i) ==
    /\ At(i, "tool")
    /\ IF effect[loop[i].call] > 0 THEN Answer(i, "ok") ELSE Goto(i, "working")
    /\ UNCHANGED <<run, entry, approval, effect, open, after, faults, cancels>>

(* The transaction's insert of the record tells whether another one committed.  *)
Commit(effects, c) == [effects EXCEPT ![c] = IF @ = 0 THEN 1 ELSE @]
ToolAnswers(i) ==
    /\ At(i, "working")
    /\ effect' = Commit(effect, loop[i].call)
    /\ Answer(i, "ok")
    /\ UNCHANGED <<run, entry, approval, open, after, faults, cancels>>

(* The tool throws: rolled back, and an error result for the model. *)
ToolErrors(i) ==
    /\ At(i, "working") /\ Fault /\ Answer(i, "error")
    /\ UNCHANGED <<run, entry, approval, effect, open, after, cancels>>

(* Another transaction of the call is open: with a tool deadline it counts as   *)
(* a timeout, without one the loop ends and keeps its lease until it runs out.  *)
ToolConflicts(i) ==
    /\ At(i, "working")
    /\ \/ loop[i].call \in open
       \/ \E k \in Instances \ {i} : At(k, "working") /\ loop[k].call = loop[i].call
    /\ IF ToolAttempts > 0 THEN Goto(i, "timeout") ELSE Leave(i)
    /\ UNCHANGED <<run, entry, approval, effect, open, after, faults, cancels>>

(* The deadline passes: the call is given up, its transaction is not. *)
ToolTimesOut(i) ==
    /\ At(i, "working") /\ ToolAttempts > 0 /\ Fault /\ Goto(i, "timeout")
    /\ open' = open \union {loop[i].call}
    /\ UNCHANGED <<run, entry, approval, effect, after, cancels>>

(* Below the limit the loop ends and keeps its lease; at the limit the run fails. *)
CountTimeout(i) ==
    /\ At(i, "timeout")
    /\ LET c == loop[i].call
           n == IF run.timedOut = c THEN run.timeouts + 1 ELSE 1
       IN IF n < ToolAttempts
          THEN /\ Leave(i)
               /\ run' = IF Fenced(i) THEN [run EXCEPT !.timedOut = c, !.timeouts = n] ELSE run
          ELSE Goto(i, "failed") /\ UNCHANGED run
    /\ UNCHANGED <<entry, approval, effect, open, after, faults, cancels>>

(* The signal of a cancelled run ends the call in hand. *)
Aborted(i) ==
    /\ loop[i].at \in {"model", "tool", "working"} /\ Fenced(i) /\ run.cancel
    /\ Goto(i, "cancelled")
    /\ open' = IF At(i, "working") THEN open \union {loop[i].call} ELSE open
    /\ UNCHANGED <<run, entry, approval, effect, after, faults, cancels>>

(* A transaction its caller gave up commits after all, or is rolled back. *)
OpenEnds(c) ==
    /\ c \in open /\ open' = open \ {c}
    /\ effect' \in {effect, Commit(effect, c)}
    /\ UNCHANGED <<run, entry, approval, loop, after, faults, cancels>>

-----------------------------------------------------------------------------
(* #insert: check that the lease is held, create the row under its key, and     *)
(* where an earlier holder left one that never counted, delete that one first.  *)
(* Then #append or createApproval makes the row count, if the lease is held.    *)
Written(i) == IF loop[i].kind = "entry" THEN entry[loop[i].entries].version
              ELSE approval[loop[i].call].version
Place(i) ==
    IF loop[i].kind = "entry"
    THEN /\ entry' = [entry EXCEPT ![loop[i].entries] = [version |-> loop[i].version,
                                                         call |-> loop[i].call,
                                                         output |-> loop[i].output]]
         /\ UNCHANGED approval
    ELSE /\ approval' = [approval EXCEPT ![loop[i].call] =
                [version |-> loop[i].version,
                 status |-> IF loop[i].call \in Asking THEN "pending" ELSE "approved"]]
         /\ UNCHANGED entry

Hold(i) ==
    /\ At(i, "hold")
    /\ IF Fenced(i) THEN Goto(i, "create") ELSE Leave(i)
    /\ UNCHANGED <<run, entry, approval, effect, open, after, faults, cancels>>

(* A second duplicate is not caught: it fails the run, if the lease is held. *)
Create(i) ==
    /\ loop[i].at \in {"create", "recreate"}
    /\ IF Written(i) = 0 THEN Goto(i, "commit") /\ Place(i)
       ELSE /\ Goto(i, IF At(i, "create") THEN "orphan" ELSE "failed")
            /\ UNCHANGED <<entry, approval>>
    /\ UNCHANGED <<run, effect, open, after, faults, cancels>>

Orphan(i) ==
    /\ At(i, "orphan")
    /\ IF Fenced(i) /\ Written(i) \in 1..(loop[i].version - 1)
       THEN loop' = [loop EXCEPT ![i].at = "delete", ![i].orphan = Written(i)]
       ELSE Leave(i)
    /\ UNCHANGED <<run, entry, approval, effect, open, after, faults, cancels>>

Delete(i) ==
    /\ At(i, "delete")
    /\ IF Written(i) # loop[i].orphan THEN Leave(i) /\ UNCHANGED <<entry, approval>>
       ELSE /\ Goto(i, "recreate")
            /\ IF loop[i].kind = "entry"
               THEN entry' = [entry EXCEPT ![loop[i].entries] = NoEntry] /\ UNCHANGED approval
               ELSE approval' = [approval EXCEPT ![loop[i].call] = NoApproval] /\ UNCHANGED entry
    /\ UNCHANGED <<run, effect, open, after, faults, cancels>>

CommitEntry(i) ==
    /\ At(i, "commit") /\ loop[i].kind = "entry"
    /\ IF Fenced(i) /\ run.entries = loop[i].entries
       THEN /\ run' = [run EXCEPT !.entries = @ + 1]
            /\ loop' = [loop EXCEPT
                   ![i].entries = @ + 1, ![i].done = @ \union ({loop[i].call} \ {Nobody}),
                   ![i].call = Nobody, ![i].output = "none", ![i].orphan = 0,
                   ![i].at = IF loop[i].call = Nobody THEN "renew" ELSE "next"]
       ELSE Leave(i) /\ UNCHANGED run
    /\ UNCHANGED <<entry, approval, effect, open, after, faults, cancels>>

CommitApproval(i) ==
    /\ At(i, "commit") /\ loop[i].kind = "approval"
    /\ IF Fenced(i)
       THEN LET c == loop[i].call IN
            /\ run' = [run EXCEPT !.approvals = @ \union {c}]
            /\ loop' = [loop EXCEPT
                   ![i].at = "prepare", ![i].kind = "entry", ![i].call = Nobody, ![i].orphan = 0,
                   ![i].view[c] = IF c \in Asking THEN "pending" ELSE "approved"]
       ELSE Leave(i) /\ UNCHANGED run
    /\ UNCHANGED <<entry, approval, effect, open, after, faults, cancels>>

Append(i) == Hold(i) \/ Create(i) \/ Orphan(i) \/ Delete(i) \/ CommitEntry(i) \/ CommitApproval(i)

-----------------------------------------------------------------------------
(* The loop parks: the run waits, unheld; then it looks again, and wakes the    *)
(* run where the last decision or a cancel came between its view and the park.  *)
Park(i) ==
    /\ At(i, "park")
    /\ Write(i, [run EXCEPT !.status = "waiting", !.owner = Nobody, !.lapsed = FALSE],
             IF run.cancel THEN "rouse" ELSE "check")
    /\ UNCHANGED <<entry, approval, effect, open, after, faults, cancels>>

Check(i) ==
    /\ At(i, "check")
    /\ IF Pending = {} THEN Goto(i, "rouse") ELSE Leave(i)
    /\ UNCHANGED <<run, entry, approval, effect, open, after, faults, cancels>>

Rouse(i) ==
    /\ At(i, "rouse") /\ Leave(i)
    /\ run' = IF Fenced(i) THEN [run EXCEPT !.status = "ready"] ELSE run
    /\ UNCHANGED <<entry, approval, effect, open, after, faults, cancels>>

(* The loop's last write. *)
End(i) ==
    /\ loop[i].at \in Terminal /\ Leave(i)
    /\ run' = IF Fenced(i)
              THEN [run EXCEPT !.status = loop[i].at, !.owner = Nobody, !.lapsed = FALSE]
              ELSE run
    /\ UNCHANGED <<entry, approval, effect, open, after, faults, cancels>>

-----------------------------------------------------------------------------
(* decide: a compare and set from pending, by a principal or, once its deadline *)
(* passed, by the sweep.  A principal's decision is written to the log of the   *)
(* run by its holder, or, where it is parked, under a brief lease; then the run *)
(* is woken if it is parked and no approval is pending.  (That the run has not  *)
(* ended is only checked before the decision.)                                  *)
Decide(c) ==
    /\ c \in Pending
    /\ \E status \in {"approved", "denied", "expired"} :
         /\ approval' = [approval EXCEPT ![c].status = status]
         /\ after' = [after EXCEPT ![c] = IF status = "expired" THEN "wake" ELSE "log"]
    /\ UNCHANGED <<run, entry, effect, open, loop, faults, cancels>>

Log(c) ==
    /\ after[c] = "log"
    /\ \/ /\ Parked /\ after' = [after EXCEPT ![c] = "release"]
          /\ run' = [run EXCEPT !.version = @ + 1, !.owner = c, !.lapsed = FALSE]
       \/ /\ after' = [after EXCEPT ![c] = IF Parked THEN "wake" ELSE "none"]
          /\ UNCHANGED run
    /\ UNCHANGED <<entry, approval, effect, open, loop, faults, cancels>>

Release(c) ==
    /\ after[c] = "release"
    /\ IF run.owner = c
       THEN /\ run' = [run EXCEPT !.owner = Nobody, !.lapsed = FALSE]
            /\ after' = [after EXCEPT ![c] = "wake"]
       ELSE after' = [after EXCEPT ![c] = "none"] /\ UNCHANGED run
    /\ UNCHANGED <<entry, approval, effect, open, loop, faults, cancels>>

WakeAfter(a) ==
    /\ after[a] = "wake" /\ after' = [after EXCEPT ![a] = "none"]
    /\ run' = IF Parked /\ (a = Canceller \/ Pending = {})
              THEN [run EXCEPT !.status = "ready"] ELSE run
    /\ UNCHANGED <<entry, approval, effect, open, loop, faults, cancels>>

Cancel ==
    /\ cancels < MaxCancels /\ run.status \notin Terminal
    /\ cancels' = cancels + 1
    /\ run' = [run EXCEPT !.cancel = TRUE]
    /\ after' = [after EXCEPT ![Canceller] = IF Parked THEN "wake" ELSE @]
    /\ UNCHANGED <<entry, approval, effect, open, loop, faults>>

(* The process of a decider or a canceller dies. *)
Stops(a) ==
    /\ after[a] # "none" /\ Fault /\ after' = [after EXCEPT ![a] = "none"]
    /\ UNCHANGED <<run, entry, approval, effect, open, loop, cancels>>

-----------------------------------------------------------------------------
(* A lease whose holder is gone runs out; one of a live holder may, as a fault. *)
Gone(o) ==
    IF o \in Calls THEN after[o] # "release"
    ELSE At(o, "idle") \/ ~Fenced(o)
Lapse ==
    /\ run.owner # Nobody /\ ~run.lapsed /\ run' = [run EXCEPT !.lapsed = TRUE]
    /\ IF Gone(run.owner) THEN UNCHANGED faults ELSE Fault
    /\ UNCHANGED <<entry, approval, effect, open, loop, after, cancels>>

(* An instance dies, or its renewal fails: an open transaction stays open. *)
Crash(i) ==
    /\ ~At(i, "idle") /\ Fault /\ Leave(i)
    /\ open' = IF At(i, "working") THEN open \union {loop[i].call} ELSE open
    /\ UNCHANGED <<run, entry, approval, effect, after, cancels>>

(* A store call of the loop fails, having done its work or not. *)
StoreFails(i) ==
    /\ loop[i].at \in {"renew", "read", "park", "check", "rouse",
                       "hold", "create", "orphan", "delete", "recreate", "commit"}
    /\ Fault /\ Goto(i, "failed")
    /\ \/ UNCHANGED <<run, entry, approval>>
       \/ /\ loop[i].at \in {"create", "recreate"} /\ Written(i) = 0 /\ Place(i) /\ UNCHANGED run
       \/ /\ At(i, "commit") /\ Fenced(i)
          /\ run' = IF loop[i].kind = "approval"
                    THEN [run EXCEPT !.approvals = @ \union {loop[i].call}]
                    ELSE [run EXCEPT !.entries = IF @ = loop[i].entries THEN @ + 1 ELSE @]
          /\ UNCHANGED <<entry, approval>>
       \/ /\ At(i, "park") /\ Fenced(i)
          /\ run' = [run EXCEPT !.status = "waiting", !.owner = Nobody, !.lapsed = FALSE]
          /\ UNCHANGED <<entry, approval>>
    /\ UNCHANGED <<effect, open, after, cancels>>

-----------------------------------------------------------------------------
Loop(i) ==
    \/ Renew(i) \/ Model(i) \/ Read(i) \/ Prepare(i) \/ NextCall(i)
    \/ Tool(i) \/ ToolAnswers(i) \/ ToolConflicts(i) \/ CountTimeout(i) \/ Aborted(i)
    \/ Append(i) \/ Park(i) \/ Check(i) \/ Rouse(i) \/ End(i)

Sweep == \E i \in Instances : Claim(i) \/ Wake(i)
Settle(c) == OpenEnds(c) \/ Decide(c) \/ Log(c) \/ Release(c)

Next ==
    \/ Sweep \/ Cancel \/ Lapse
    \/ \E i \in Instances : \/ Loop(i) \/ Beat(i) \/ ToolErrors(i) \/ ToolTimesOut(i)
                            \/ Crash(i) \/ StoreFails(i)
    \/ \E c \in Calls : Settle(c)
    \/ \E a \in Calls \union {Canceller} : WakeAfter(a) \/ Stops(a)

(* A live instance drives the loop it holds, some instance sweeps, dead leases *)
(* run out, every approval has a deadline, and transactions end.               *)
Spec ==
    /\ Init /\ [][Next]_vars
    /\ \A i \in Instances : WF_vars(Loop(i))
    /\ WF_vars(Sweep) /\ WF_vars(Lapse /\ Gone(run.owner))
    /\ \A c \in Calls : WF_vars(Settle(c))
    /\ \A a \in Calls \union {Canceller} : WF_vars(WakeAfter(a))

-----------------------------------------------------------------------------
(* Types; the entries that count are in place, the model's first and one of a   *)
(* call after it, and every instance that holds the current lease has read just *)
(* the entries that count.                                                      *)
TypeOK ==
    /\ run \in [status : {"running", "ready", "waiting"} \union Terminal, version : Nat,
                owner : Instances \union Calls \union {Nobody}, lapsed : BOOLEAN,
                entries : 0..(Cardinality(Calls) + 1), approvals : SUBSET Calls,
                cancel : BOOLEAN, timedOut : Calls \union {Nobody}, timeouts : 0..ToolAttempts]
    /\ open \subseteq Calls
    /\ \A s \in Positions : entry[s].version <= run.version
    /\ \A s \in 0..(run.entries - 1) : entry[s].version > 0 /\ (entry[s].call = Nobody <=> s = 0)
    /\ \A c \in run.approvals : approval[c].version > 0
    /\ \A i \in Instances :
         /\ loop[i].version <= run.version
         /\ ~At(i, "idle") /\ Fenced(i) /\ ~At(i, "failed") =>
              loop[i].entries = run.entries /\ loop[i].done = Answered(run.entries)

(* Whatever the crashes, the takeovers and the races of deciders: every call    *)
(* has at most one result in the conversation, a result that tells of success   *)
(* is of work committed once, and a call that was refused, or nobody approved,  *)
(* never did any work.                                                          *)
AnswersTrue ==
    /\ \A s, t \in 1..(run.entries - 1) : entry[s].call = entry[t].call => s = t
    /\ \A s \in 1..(run.entries - 1) :
         /\ entry[s].output = "ok" => effect[entry[s].call] = 1
         /\ entry[s].output = "denied" => approval[entry[s].call].status \in {"denied", "expired"}
    /\ \A c \in Calls : effect[c] > 0 \/ c \in open =>
         effect[c] <= 1 /\ c \in run.approvals /\ approval[c].status = "approved"

(* A run ends, whoever dies on the way and however the last decision races the  *)
(* park: completed, failed or cancelled, and stays so.                          *)
Ended == <>[](run.status \in Terminal)
=============================================================================
