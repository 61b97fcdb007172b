--------------------------- MODULE AgentRunsProofs ---------------------------
(***************************************************************************)
(* Whatever the number of instances and calls: the entries of a run that   *)
(* count are those its holder read and wrote, no call has two results in   *)
(* the conversation, and no unapproved call did any work.                  *)
(*                                                                         *)
(* The invariant says of every loop what it knows of the run even where it *)
(* has lost its lease (Local, Harmless), and of the loop that holds the    *)
(* lease that it knows exactly what counts (Holding).  A step is proved to *)
(* undo nothing that counts (Durable), which keeps what the others know,   *)
(* and to leave its own loop with what it has to know at its next place.   *)
(***************************************************************************)
EXTENDS AgentRuns, FiniteSetTheorems, TLAPS

Before == {"renew", "model", "read", "prepare", "next"}
Deciding == {"tool", "working", "timeout"}
Appending == {"hold", "create", "orphan", "delete", "recreate", "commit"}
Places == {"idle", "park", "check", "rouse"} \union Before \union Deciding \union Appending
          \union Terminal
Outputs == {"none", "ok", "error", "denied"}
Statuses == {"none", "pending", "approved", "denied", "expired"}
Loops == [at : Places, version : Nat, entries : Nat, done : SUBSET Calls,
          view : [Calls -> Statuses], call : Calls \union {Nobody}, output : Outputs,
          kind : {"entry", "approval"}, orphan : Nat]
Runs == [status : {"running", "ready", "waiting"} \union Terminal, version : Nat,
         owner : Instances \union Calls \union {Nobody}, lapsed : BOOLEAN,
         entries : 0..(Cardinality(Calls) + 1), approvals : SUBSET Calls,
         cancel : BOOLEAN, timedOut : Calls \union {Nobody}, timeouts : 0..ToolAttempts]
Entries == [version : Nat, call : Calls \union {Nobody}, output : Outputs]
Approvals == [version : Nat, status : Statuses]

Typed ==
  /\ run \in Runs
  /\ entry \in [Positions -> Entries]
  /\ approval \in [Calls -> Approvals]
  /\ effect \in [Calls -> 0..1]
  /\ open \subseteq Calls
  /\ loop \in [Instances -> Loops]

Holder(i) == ~At(i, "idle") /\ Fenced(i)
ForEntry(i) == loop[i].at \in Appending /\ loop[i].kind = "entry"
ForApproval(i) == loop[i].at \in Appending /\ loop[i].kind = "approval"

(* No row is newer than the run's lease, and no two loops share a lease. *)
Versions ==
  /\ \A s \in Positions : entry[s].version <= run.version
  /\ \A c \in Calls : approval[c].version <= run.version
  /\ \A i \in Instances :
       /\ loop[i].version <= run.version
       /\ ~At(i, "idle") => loop[i].version > 0
  /\ \A i, j \in Instances :
       ~At(i, "idle") /\ ~At(j, "idle") /\ loop[i].version = loop[j].version => i = j

(* What counts is there, once, and tells the truth. *)
Truth(c, output) ==
  /\ output = "ok" => effect[c] = 1
  /\ output = "denied" => c \in run.approvals /\ approval[c].status \in {"denied", "expired"}
Counted ==
  /\ \A s \in Positions : s < run.entries => entry[s].version > 0 /\ (entry[s].call = Nobody <=> s = 0)
  /\ \A s, t \in Positions \ {0} :
       s < run.entries /\ t < run.entries /\ entry[s].call = entry[t].call => s = t
  /\ \A s \in Positions \ {0} : s < run.entries => Truth(entry[s].call, entry[s].output)
  /\ \A c \in run.approvals : approval[c].version > 0 /\ approval[c].status # "none"
  /\ \A c \in Calls :
       effect[c] > 0 \/ c \in open => c \in run.approvals /\ approval[c].status = "approved"

(* What a loop knows, whether or not it still holds the lease. *)
Viewed(i) ==
  \A c \in Calls : loop[i].view[c] # "none" =>
    c \in run.approvals /\ (loop[i].view[c] # "pending" => approval[c].status = loop[i].view[c])
AllViewed(i) == \A c \in Calls : loop[i].view[c] # "none"
Local(i) ==
  /\ Viewed(i)
  /\ loop[i].at \in Before => loop[i].kind = "entry" /\ loop[i].call = Nobody
                              /\ loop[i].output = "none"
  /\ At(i, "model") => loop[i].entries = 0
  /\ loop[i].at \in {"read", "prepare", "next"} \union Deciding => loop[i].entries > 0
  /\ loop[i].at \in Deciding =>
       /\ loop[i].kind = "entry" /\ loop[i].call \in Calls /\ loop[i].call \notin loop[i].done
       /\ loop[i].view[loop[i].call] = "approved"
  /\ ForEntry(i) /\ loop[i].call = Nobody => loop[i].entries = 0
  /\ ForEntry(i) /\ loop[i].call # Nobody =>
       /\ loop[i].entries > 0 /\ loop[i].call \notin loop[i].done
       /\ Truth(loop[i].call, loop[i].output)
  /\ ForApproval(i) => loop[i].call \in Calls /\ loop[i].entries > 0 /\ loop[i].output = "none"
  /\ loop[i].at \in {"next"} \union Deciding => AllViewed(i)
  /\ ForEntry(i) /\ loop[i].call # Nobody => AllViewed(i)
  /\ loop[i].at \in Deciding \/ ForEntry(i) => loop[i].entries \in Positions
  /\ At(i, "delete") => loop[i].orphan > 0 /\ loop[i].orphan < loop[i].version

(* The row a loop is about to delete does not count, if it is still the one read. *)
Harmless(i) ==
  /\ At(i, "delete") /\ loop[i].kind = "entry" /\ Written(i) = loop[i].orphan =>
       loop[i].entries >= run.entries
  /\ At(i, "delete") /\ loop[i].kind = "approval" /\ Written(i) = loop[i].orphan =>
       loop[i].call \notin run.approvals

(* What the holder of the lease knows of the run. *)
Unseen(i) == \A c \in Calls : loop[i].view[c] = "none" => c \notin run.approvals
Holding(i) ==
  Holder(i) /\ ~At(i, "failed") =>
    /\ loop[i].entries = run.entries /\ loop[i].done = Answered(run.entries)
    /\ At(i, "prepare") \/ ForApproval(i) => Unseen(i)
    /\ ForApproval(i) => loop[i].call \notin run.approvals
    /\ At(i, "commit") /\ loop[i].kind = "entry" =>
         entry[loop[i].entries] = [version |-> loop[i].version, call |-> loop[i].call,
                                   output |-> loop[i].output]
    /\ At(i, "commit") /\ loop[i].kind = "approval" =>
         approval[loop[i].call] = [version |-> loop[i].version,
            status |-> IF loop[i].call \in Asking THEN "pending" ELSE "approved"]

Mine(i) == Local(i) /\ Harmless(i) /\ Holding(i)
IInv == Typed /\ Versions /\ Counted /\ \A i \in Instances : Mine(i)
-----------------------------------------------------------------------------
(* What no step undoes: rows that count, rows of the current lease, decisions. *)
Durable ==
  /\ run'.version >= run.version
  /\ run.approvals \subseteq run'.approvals /\ run'.entries >= run.entries
  /\ \A s \in Positions :
       s < run.entries \/ entry[s].version = run.version => entry'[s] = entry[s]
  /\ \A c \in Calls : c \in run.approvals =>
       /\ approval'[c].version = approval[c].version /\ approval'[c].status # "none"
       /\ approval[c].status # "pending" => approval'[c] = approval[c]
  /\ \A c \in Calls :
       c \notin run.approvals /\ approval[c].version = run.version => approval'[c] = approval[c]
  /\ \A s \in Positions : s >= run.entries /\ s < run'.entries => entry[s].version = run.version
  /\ \A c \in Calls : c \in run'.approvals /\ c \notin run.approvals =>
       approval[c].version = run.version
  /\ \A c \in Calls : effect[c] = 1 => effect'[c] = 1

LEMMA PositionsNat == Cardinality(Calls) \in Nat /\ Positions \subseteq Nat
  BY CallsAssumption, FS_CardinalityType DEF Positions

LEMMA RunFields ==
  ASSUME NEW r \in Runs
  PROVE  /\ r.version \in Nat /\ r.entries \in Nat /\ r.entries <= Cardinality(Calls) + 1
         /\ r.approvals \subseteq Calls
  BY PositionsNat DEF Runs

LEMMA TruthKept ==
  ASSUME Durable, NEW c \in Calls, NEW output, Truth(c, output)
  PROVE  /\ output = "ok" => effect'[c] = 1
         /\ output = "denied" => c \in run'.approvals /\ approval'[c].status \in {"denied", "expired"}
  BY DEF Truth, Durable

LEMMA AnsweredKept ==
  ASSUME Typed, Durable, run'.entries = run.entries
  PROVE  Answered(run.entries)' = Answered(run.entries)
<1>1. \A s \in 1..(run.entries - 1) : s \in Positions /\ s < run.entries
  BY PositionsNat DEF Typed, Runs, Positions
<1>2. \A s \in 1..(run.entries - 1) : entry'[s] = entry[s]
  BY <1>1 DEF Durable
<1>. QED BY <1>2 DEF Answered

(* A step of somebody else leaves a loop what it knows. *)
LEMMA OthersKeep ==
  ASSUME IInv, Typed', Durable, NEW j \in Instances, loop'[j] = loop[j],
         Holder(j) /\ run'.version = run.version =>
           run'.entries = run.entries /\ run'.approvals = run.approvals
  PROVE  Mine(j)'
<1> USE DEF IInv, Mine, At
<1>1. Viewed(j)'
  BY DEF Viewed, Local, Durable
<1>2. Local(j)'
  <2>1. loop[j].call # Nobody => (Truth(loop[j].call, loop[j].output) =>
                                   Truth(loop[j].call, loop[j].output)')
    BY TruthKept DEF Typed, Loops, Truth
  <2>. QED
    BY <1>1, <2>1 DEF Local, ForEntry, ForApproval, AllViewed, Truth
<1>3. Harmless(j)'
  <2> SUFFICES ASSUME At(j, "delete") PROVE Harmless(j)'
    BY DEF Harmless
  <2>1. /\ loop[j].orphan < loop[j].version /\ loop[j].version <= run.version
        /\ loop[j].orphan \in Nat /\ loop[j].version \in Nat /\ run.version \in Nat
    BY DEF Local, Versions, Typed, Loops, Runs
  <2>2. CASE loop[j].kind = "entry"
    <3> DEFINE e == loop[j].entries
    <3>1. e \in Positions /\ e \in Nat /\ run.entries \in Nat /\ run'.entries \in Nat
      <4>1. e \in Positions
        BY <2>2 DEF Local, ForEntry, Appending
      <4>2. run \in Runs /\ run' \in Runs
        BY DEF Typed
      <4>. QED BY <4>1, <4>2, RunFields, PositionsNat
    <3>2. entry[e].version = loop[j].orphan => e >= run.entries
      BY <2>2 DEF Harmless, Written
    <3>3. e < run.entries \/ entry[e].version = run.version \/ e >= run'.entries
      BY <3>1 DEF Durable
    <3>4. entry[e].version # loop[j].orphan \/ e >= run'.entries
      <4> HIDE DEF e
      <4>. QED BY <2>1, <3>1, <3>2, <3>3
    <3>5. entry'[e].version # loop[j].orphan \/ e >= run'.entries
      BY <3>1, <3>3, <3>4 DEF Durable
    <3>. QED BY <2>2, <3>5 DEF Harmless, Written
  <2>3. CASE loop[j].kind = "approval"
    <3>1. loop[j].call \in Calls
      BY <2>3 DEF Local, ForApproval, Appending
    <3>2. approval'[loop[j].call].version = loop[j].orphan /\ loop[j].call \in run'.approvals
            => FALSE
      BY <2>1, <2>3, <3>1 DEF Durable, Harmless, Written
    <3>. QED BY <2>3, <3>2 DEF Harmless, Written
  <2>. QED BY <2>2, <2>3 DEF Typed, Loops
<1>4. Holding(j)'
  <2> SUFFICES ASSUME Holder(j)', ~At(j, "failed") PROVE Holding(j)'
    BY DEF Holding
  <2>1. Holder(j) /\ run'.version = run.version /\ run.version = loop[j].version
    <3>1. loop[j].version <= run.version /\ run.version <= run'.version
      BY DEF Versions, Durable
    <3>2. run.version \in Nat /\ run'.version \in Nat /\ loop[j].version \in Nat
      BY DEF Typed, Runs, Loops
    <3>. QED BY <3>1, <3>2 DEF Holder, Fenced
  <2>2. run'.entries = run.entries /\ run'.approvals = run.approvals
    BY <2>1
  <2>3. Answered(run.entries)' = Answered(run.entries)
    BY <2>2, AnsweredKept
  <2>4. /\ loop[j].entries = run.entries /\ loop[j].done = Answered(run.entries)
        /\ At(j, "prepare") \/ ForApproval(j) => Unseen(j)
        /\ ForApproval(j) => loop[j].call \notin run.approvals
    BY <2>1 DEF Holding
  <2>5. At(j, "commit") /\ loop[j].kind = "entry" =>
          entry'[loop[j].entries] = [version |-> loop[j].version, call |-> loop[j].call,
                                     output |-> loop[j].output]
    <3> SUFFICES ASSUME At(j, "commit"), loop[j].kind = "entry"
                 PROVE  entry'[loop[j].entries] = [version |-> loop[j].version,
                           call |-> loop[j].call, output |-> loop[j].output]
      OBVIOUS
    <3>1. entry[loop[j].entries] = [version |-> loop[j].version, call |-> loop[j].call,
                                    output |-> loop[j].output]
      BY <2>1 DEF Holding
    <3>2. loop[j].entries \in Positions
      BY DEF Local, ForEntry, Appending
    <3>3. entry'[loop[j].entries] = entry[loop[j].entries]
      BY <2>1, <3>1, <3>2 DEF Durable
    <3>. QED BY <3>1, <3>3
  <2>6. At(j, "commit") /\ loop[j].kind = "approval" =>
          approval'[loop[j].call] = [version |-> loop[j].version,
             status |-> IF loop[j].call \in Asking THEN "pending" ELSE "approved"]
    <3> SUFFICES ASSUME At(j, "commit"), loop[j].kind = "approval"
                 PROVE  approval'[loop[j].call] = [version |-> loop[j].version,
                          status |-> IF loop[j].call \in Asking THEN "pending" ELSE "approved"]
      OBVIOUS
    <3>1. approval[loop[j].call] = [version |-> loop[j].version,
             status |-> IF loop[j].call \in Asking THEN "pending" ELSE "approved"]
      BY <2>1 DEF Holding
    <3>2. loop[j].call \in Calls /\ loop[j].call \notin run.approvals
      BY <2>4 DEF Local, ForApproval, Appending
    <3>3. approval'[loop[j].call] = approval[loop[j].call]
      BY <2>1, <3>1, <3>2 DEF Durable
    <3>. QED BY <3>1, <3>3
  <2>. QED
    BY <2>2, <2>3, <2>4, <2>5, <2>6 DEF Holding, ForApproval, Unseen
<1>. QED BY <1>2, <1>3, <1>4

(* What counts stays true while nothing more counts and no other work begins. *)
WorkIsInHand ==
  \A c \in Calls : effect'[c] > 0 \/ c \in open' =>
    effect[c] > 0 \/ c \in open \/ \E i \in Instances : At(i, "working") /\ loop[i].call = c

LEMMA WorkApproved ==
  ASSUME IInv, Durable, WorkIsInHand, NEW c \in Calls, effect'[c] > 0 \/ c \in open'
  PROVE  c \in run'.approvals /\ approval'[c].status = "approved"
<1>1. c \in run.approvals /\ approval[c].status = "approved"
  <2>1. CASE effect[c] > 0 \/ c \in open
    BY <2>1 DEF IInv, Counted
  <2>2. ASSUME NEW i \in Instances, At(i, "working"), loop[i].call = c
        PROVE  c \in run.approvals /\ approval[c].status = "approved"
    BY <2>2 DEF IInv, Mine, Local, Viewed, Deciding, At
  <2>. QED BY <2>1, <2>2 DEF WorkIsInHand
<1>. QED BY <1>1 DEF Durable

LEMMA CountedKept ==
  ASSUME IInv, Typed', Durable, WorkIsInHand,
         run'.entries = run.entries, run'.approvals = run.approvals
  PROVE  Counted'
<1> USE DEF IInv, Counted
<1>1. \A s \in Positions : s < run.entries => entry'[s] = entry[s]
  BY DEF Durable
<1>2. \A s \in Positions \ {0} : s < run.entries => Truth(entry[s].call, entry[s].output)'
  <2> TAKE s \in Positions \ {0}
  <2> HAVE s < run.entries
  <2>1. entry[s].call \in Calls /\ Truth(entry[s].call, entry[s].output) /\ entry'[s] = entry[s]
    BY <1>1 DEF Typed, Entries
  <2>. QED BY <2>1, TruthKept DEF Truth
<1>3. \A c \in run.approvals : approval'[c].version > 0 /\ approval'[c].status # "none"
  BY RunFields DEF Durable, Typed
<1>4. \A c \in Calls : effect'[c] > 0 \/ c \in open' =>
        c \in run'.approvals /\ approval'[c].status = "approved"
  BY WorkApproved
<1>. QED BY <1>1, <1>2, <1>3, <1>4

(* A step of one loop that leaves the rows alone, and of the run what counts. *)
Quiet ==
  /\ run'.version = run.version /\ run'.entries = run.entries /\ run'.approvals = run.approvals
  /\ UNCHANGED <<entry, approval>>
  /\ effect' \in [Calls -> 0..1] /\ \A c \in Calls : effect[c] = 1 => effect'[c] = 1
Only(i) == \A j \in Instances : j # i => loop'[j] = loop[j]
SameLease(i) == loop'[i].at = "idle" \/ (loop'[i].version = loop[i].version /\ ~At(i, "idle"))

LEMMA QuietDurable == ASSUME IInv, Quiet PROVE Durable
<1>1. run.version \in Nat /\ run.entries \in Nat /\ Positions \subseteq Nat
  BY RunFields, PositionsNat DEF IInv, Typed
<1>. QED BY <1>1 DEF Quiet, Durable, IInv, Counted

LEMMA VersionsKept ==
  ASSUME IInv, Typed', run'.version >= run.version, NEW i \in Instances, Only(i), SameLease(i),
         loop'[i].version <= run.version,
         \A s \in Positions : entry'[s].version <= run'.version,
         \A c \in Calls : approval'[c].version <= run'.version
  PROVE  Versions'
<1>1. \A j \in Instances : loop'[j].version <= run'.version
  <2>1. run.version \in Nat /\ run'.version \in Nat
        /\ \A j \in Instances : loop[j].version \in Nat /\ loop'[j].version \in Nat
    BY DEF IInv, Typed, Runs, Loops
  <2>. QED BY <2>1 DEF IInv, Versions, Only
<1>2. \A j \in Instances : loop'[j].at # "idle" =>
        loop'[j].version > 0 /\ loop'[j].version = loop[j].version /\ loop[j].at # "idle"
  BY DEF IInv, Versions, Only, SameLease, At
<1>. QED BY <1>1, <1>2 DEF IInv, Versions, At

LEMMA QuietStep ==
  ASSUME IInv, Typed', Quiet, WorkIsInHand, NEW i \in Instances, Only(i), SameLease(i),
         loop'[i].version <= run.version, Mine(i)'
  PROVE  IInv'
<1>1. Durable
  BY QuietDurable
<1>2. Versions'
  <2>1. /\ \A s \in Positions : entry'[s].version <= run'.version
        /\ \A c \in Calls : approval'[c].version <= run'.version
    BY DEF Quiet, IInv, Versions
  <2>2. run'.version >= run.version
    BY <1>1 DEF Durable
  <2>. QED BY <2>1, <2>2, VersionsKept
<1>3. Counted'
  BY <1>1, CountedKept DEF Quiet
<1>4. \A j \in Instances : j # i => Mine(j)'
  BY <1>1, OthersKeep DEF Only, Quiet
<1>. QED BY <1>2, <1>3, <1>4 DEF IInv

LEMMA IdleMine ==
  ASSUME NEW i \in Instances, loop'[i] = Idle
  PROVE  Mine(i)'
<1>1. /\ loop'[i].at = "idle" /\ \A c \in Calls : loop'[i].view[c] = "none"
      /\ loop'[i].kind = "entry" /\ loop'[i].call = Nobody
  BY DEF Idle
<1>2. Local(i)'
  BY <1>1 DEF Local, Viewed, Before, Deciding, Appending, ForEntry, ForApproval, At
<1>. QED
  BY <1>1, <1>2 DEF Mine, Harmless, Holding, Holder, At

(* Where a loop waits with nothing in hand, or goes to end the run. *)
Resting == {"park", "check", "rouse"} \union Terminal
LEMMA RestMine ==
  ASSUME IInv, Quiet, NEW i \in Instances, NEW at \in Resting,
         loop'[i] = [loop[i] EXCEPT !.at = at], ~At(i, "idle"), ~At(i, "failed") \/ at = "failed"
  PROVE  Mine(i)'
<1>1. /\ loop'[i].at = at /\ loop'[i].view = loop[i].view /\ loop'[i].version = loop[i].version
      /\ loop'[i].entries = loop[i].entries /\ loop'[i].done = loop[i].done
  BY DEF IInv, Typed, Loops
<1>2. Viewed(i)'
  BY <1>1 DEF IInv, Mine, Local, Viewed, Quiet
<1>3. Local(i)'
  BY <1>1, <1>2 DEF Local, Before, Deciding, Appending, ForEntry, ForApproval, At, Resting, Terminal
<1>4. Harmless(i)'
  BY <1>1 DEF Harmless, At, Resting, Terminal
<1>5. Answered(run.entries)' = Answered(run.entries)
  BY DEF Answered, Quiet
<1>6. Holding(i)'
  BY <1>1, <1>5 DEF IInv, Mine, Holding, Holder, Fenced, At, ForApproval, Appending, Resting,
                    Terminal, Quiet
<1>. QED BY <1>3, <1>4, <1>6 DEF Mine
-----------------------------------------------------------------------------
(* Steps that go on, leave, or come to rest. *)
LEMMA Went ==
  ASSUME Typed, NEW i \in Instances, NEW at \in Places, Goto(i, at)
  PROVE  /\ loop' \in [Instances -> Loops] /\ Only(i)
         /\ loop'[i] = [loop[i] EXCEPT !.at = at] /\ loop'[i] \in Loops
         /\ loop'[i].at = at /\ loop'[i].version = loop[i].version
         /\ loop'[i].entries = loop[i].entries /\ loop'[i].done = loop[i].done
         /\ loop'[i].view = loop[i].view /\ loop'[i].call = loop[i].call
         /\ loop'[i].output = loop[i].output /\ loop'[i].kind = loop[i].kind
         /\ loop'[i].orphan = loop[i].orphan
  BY DEF Goto, Typed, Loops, Only

LEMMA IdleTyped == Idle \in Loops
  BY DEF Idle, Loops, Places, Outputs, Statuses

LEMMA Left ==
  ASSUME Typed, NEW i \in Instances, Leave(i)
  PROVE  loop' \in [Instances -> Loops] /\ Only(i) /\ loop'[i] = Idle
  BY IdleTyped DEF Leave, Typed, Only

LEMMA GoneOn ==
  ASSUME IInv, NEW i \in Instances, NEW at \in Places, at # "idle", Goto(i, at), ~At(i, "idle"),
         run' \in Runs, open' \subseteq Calls, Quiet, WorkIsInHand, Mine(i)'
  PROVE  IInv'
<1>1. Typed'
  BY Went DEF IInv, Typed, Quiet
<1>2. Only(i) /\ SameLease(i) /\ loop'[i].version <= run.version
  BY Went DEF IInv, Versions, SameLease
<1>. QED BY <1>1, <1>2, QuietStep

LEMMA LeftOff ==
  ASSUME IInv, NEW i \in Instances, Leave(i), run' \in Runs, open' \subseteq Calls, Quiet,
         WorkIsInHand
  PROVE  IInv'
<1>1. Typed'
  BY Left DEF IInv, Typed, Quiet
<1>2. Only(i) /\ SameLease(i) /\ loop'[i].version <= run.version
  <2>1. run.version \in Nat
    BY RunFields DEF IInv, Typed
  <2>. QED BY <2>1, Left DEF SameLease, IInv, Idle
<1>. QED BY <1>1, <1>2, Left, IdleMine, QuietStep DEF IInv

LEMMA Rested ==
  ASSUME IInv, NEW i \in Instances, NEW at \in Resting, Goto(i, at), ~At(i, "idle"),
         ~At(i, "failed") \/ at = "failed",
         run' \in Runs, open' \subseteq Calls, Quiet, WorkIsInHand
  PROVE  IInv'
<1>1. at \in Places /\ at # "idle"
  BY DEF Resting, Places, Terminal
<1>2. Mine(i)'
  BY <1>1, Went, RestMine DEF IInv
<1>. QED BY <1>1, <1>2, GoneOn

(* What a loop that goes on keeps. *)
LEMMA Going ==
  ASSUME IInv, Quiet, NEW i \in Instances, NEW at \in Places, Goto(i, at), ~At(i, "idle"),
         ~At(i, "failed")
  PROVE  /\ Viewed(i)'
         /\ Holder(i)' => /\ Holder(i) /\ loop[i].entries = run'.entries
                          /\ loop[i].done = Answered(run.entries)'
         /\ Unseen(i) => Unseen(i)'
         /\ AllViewed(i) => AllViewed(i)'
         /\ \A c \in Calls : \A output : Truth(c, output) => Truth(c, output)'
<1>1. loop'[i].view = loop[i].view /\ loop'[i].version = loop[i].version
  BY Went DEF IInv
<1>2. Viewed(i)
  BY DEF IInv, Mine, Local
<1>3. Viewed(i)' /\ (Unseen(i) => Unseen(i)') /\ (AllViewed(i) => AllViewed(i)')
  BY <1>1, <1>2 DEF Viewed, Quiet, Unseen, AllViewed
<1>4. Answered(run.entries)' = Answered(run.entries)
  BY DEF Answered, Quiet
<1>5. Holder(i)' => Holder(i)
  BY <1>1 DEF Holder, Fenced, Quiet
<1>6. Holder(i) => loop[i].entries = run.entries /\ loop[i].done = Answered(run.entries)
  BY DEF IInv, Mine, Holding
<1>7. \A c \in Calls : \A output : Truth(c, output) => Truth(c, output)'
  BY DEF Truth, Quiet
<1>. QED BY <1>3, <1>4, <1>5, <1>6, <1>7 DEF Quiet

(* The rows a step writes over the run's that leave alone what counts. *)
SameRun(row) == row \in Runs /\ row.version = run.version /\ row.entries = run.entries
                /\ row.approvals = run.approvals
LEMMA SameRuns ==
  ASSUME Typed
  PROVE  /\ SameRun(run) /\ SameRun(Renewed)
         /\ \A status \in {"running", "ready", "waiting"} \union Terminal :
              /\ SameRun([run EXCEPT !.status = status])
              /\ SameRun([run EXCEPT !.status = status, !.owner = Nobody, !.lapsed = FALSE])
         /\ SameRun([run EXCEPT !.owner = Nobody, !.lapsed = FALSE])
         /\ SameRun([run EXCEPT !.cancel = TRUE]) /\ SameRun([run EXCEPT !.lapsed = TRUE])
  BY DEF Typed, Runs, SameRun, Renewed

(* A loop that goes on with other data, the lease and the run as they are. *)
LEMMA WentTo ==
  ASSUME IInv, NEW i \in Instances, NEW l \in Loops, loop' = [loop EXCEPT ![i] = l],
         l.at \notin {"idle", "delete", "commit"}, ~At(i, "idle"), ~At(i, "failed"),
         l.version = loop[i].version, l.entries = loop[i].entries, l.done = loop[i].done,
         run' \in Runs, open' \subseteq Calls, Quiet, WorkIsInHand, Local(i)',
         Holder(i) => /\ l.at = "prepare" \/ (l.at \in Appending /\ l.kind = "approval") => Unseen(i)'
                      /\ l.at \in Appending /\ l.kind = "approval" => l.call \notin run.approvals
  PROVE  IInv'
<1>1. loop' \in [Instances -> Loops] /\ loop'[i] = l /\ Only(i)
  BY DEF IInv, Typed, Only
<1>2. Typed'
  BY <1>1 DEF IInv, Typed, Quiet
<1>3. Harmless(i)'
  BY <1>1 DEF Harmless, At
<1>4. Holding(i)'
  <2>1. Answered(run.entries)' = Answered(run.entries)
    BY DEF Answered, Quiet
  <2>2. Holder(i)' => Holder(i)
    BY <1>1 DEF Holder, Fenced, Quiet
  <2>3. Holder(i) => loop[i].entries = run.entries /\ loop[i].done = Answered(run.entries)
    BY DEF IInv, Mine, Holding
  <2>. QED BY <1>1, <2>1, <2>2, <2>3 DEF Holding, At, ForApproval, Quiet
<1>5. SameLease(i) /\ loop'[i].version <= run.version
  BY <1>1 DEF IInv, Versions, SameLease
<1>. QED BY <1>1, <1>2, <1>3, <1>4, <1>5, QuietStep DEF Mine

(* The same where nothing but the place changes. *)
LEMMA WentOn ==
  ASSUME IInv, NEW i \in Instances, NEW at \in Places \ {"idle", "delete", "commit"}, Goto(i, at),
         ~At(i, "idle"), ~At(i, "failed"),
         run' \in Runs, open' \subseteq Calls, Quiet, WorkIsInHand,
         Viewed(i)' => Local(i)',
         at = "prepare" => At(i, "prepare") \/ ForApproval(i),
         at \in Appending /\ loop[i].kind = "approval" => ForApproval(i)
  PROVE  IInv'
<1> DEFINE l == [loop[i] EXCEPT !.at = at]
<1>1. loop' = [loop EXCEPT ![i] = l] /\ l \in Loops
  BY DEF Goto, IInv, Typed, Loops
<1>2. /\ l.at = at /\ l.version = loop[i].version /\ l.entries = loop[i].entries
      /\ l.done = loop[i].done /\ l.kind = loop[i].kind /\ l.call = loop[i].call
  BY DEF IInv, Typed, Loops
<1>3. Viewed(i)' /\ (Unseen(i) => Unseen(i)')
  BY Going
<1>4. Holder(i) => /\ l.at = "prepare" \/ (l.at \in Appending /\ l.kind = "approval") => Unseen(i)'
                   /\ l.at \in Appending /\ l.kind = "approval" => l.call \notin run.approvals
  <2>1. Holding(i) 
    BY DEF IInv, Mine
  <2>. QED BY <1>2, <1>3, <2>1 DEF Holding, ForApproval, Appending, At
<1> HIDE DEF l
<1>. QED BY <1>1, <1>2, <1>3, <1>4, WentTo

LEMMA RenewKeeps == ASSUME IInv, NEW i \in Instances, Renew(i) PROVE IInv'
<1>1. Typed /\ At(i, "renew") /\ ~At(i, "idle") /\ ~At(i, "failed")
  BY DEF IInv, Renew, At
<1>2. CASE ~Fenced(i)
  BY <1>1, <1>2, LeftOff DEF Renew, Write, Quiet, WorkIsInHand, IInv, Typed
<1>3. CASE Fenced(i)
  <2>1. run' = Renewed /\ run' \in Runs /\ open' \subseteq Calls /\ Quiet /\ WorkIsInHand
    BY <1>1, <1>3, SameRuns DEF Renew, Write, SameRun, Quiet, WorkIsInHand, Typed
  <2>2. PICK at \in {"cancelled", "completed", "model", "read"} :
          /\ Goto(i, at)
          /\ at = "model" => loop[i].entries = 0
          /\ at = "read" => loop[i].entries # 0
    BY <1>3 DEF Renew, Write
  <2>3. CASE at \in Resting
    BY <1>1, <2>1, <2>2, <2>3, Rested
  <2>4. CASE at \in {"model", "read"}
    <3>1. at \in Places \ {"idle", "delete", "commit"}
      BY <2>4 DEF Places, Before
    <3>2. Viewed(i)' => Local(i)'
      <4>1. loop'[i] = [loop[i] EXCEPT !.at = at] /\ loop[i] \in Loops /\ Local(i)
        BY <1>1, <2>2, <3>1, Went DEF IInv, Typed, Mine
      <4>2. /\ loop'[i].at = at /\ loop'[i].kind = "entry" /\ loop'[i].call = Nobody
            /\ loop'[i].output = "none"
            /\ at = "model" => loop'[i].entries = 0
            /\ at = "read" => loop'[i].entries > 0
        BY <1>1, <2>2, <4>1 DEF Local, Loops, At, Before
      <4>. QED
        BY <2>4, <4>2 DEF Local, At, ForEntry, ForApproval, Before, Deciding, Appending
    <3>. QED
      BY <1>1, <2>1, <2>2, <2>4, <3>1, <3>2, WentOn DEF Appending
  <2>. QED BY <2>2, <2>3, <2>4 DEF Resting, Terminal
<1>. QED BY <1>2, <1>3

LEMMA ModelKeeps == ASSUME IInv, NEW i \in Instances, Model(i) PROVE IInv'
<1>1. /\ Typed /\ At(i, "model") /\ ~At(i, "idle") /\ ~At(i, "failed")
      /\ run' \in Runs /\ open' \subseteq Calls /\ Quiet /\ WorkIsInHand
  BY DEF IInv, Typed, Model, At, Quiet, WorkIsInHand
<1>2. CASE Goto(i, "failed")
  BY <1>1, <1>2, Rested DEF Resting, Terminal
<1>3. CASE Goto(i, "hold")
  <2>1. Viewed(i)' => Local(i)'
    <3>1. loop'[i] = [loop[i] EXCEPT !.at = "hold"] /\ loop[i] \in Loops /\ Local(i)
      BY <1>1, <1>3, Went DEF IInv, Typed, Mine, Places, Appending
    <3>2. /\ loop'[i].at = "hold" /\ loop'[i].kind = "entry" /\ loop'[i].call = Nobody
          /\ loop'[i].entries = 0 /\ 0 \in Positions
      BY <1>1, <3>1, PositionsNat DEF Local, Loops, At, Before, Positions
    <3>. QED BY <3>2 DEF Local, At, ForEntry, ForApproval, Before, Deciding, Appending
  <2>2. loop[i].kind = "entry"
    BY <1>1 DEF IInv, Mine, Local, At, Before
  <2>. QED BY <1>1, <1>3, <2>1, <2>2, WentOn DEF Places, Appending
<1>. QED BY <1>2, <1>3 DEF Model

LEMMA ReadKeeps == ASSUME IInv, NEW i \in Instances, Read(i) PROVE IInv'
<1> DEFINE view == [c \in Calls |-> IF c \in run.approvals THEN approval[c].status ELSE "none"]
           l == [loop[i] EXCEPT !.at = "prepare", !.view = view]
<1>1. /\ Typed /\ At(i, "read") /\ ~At(i, "idle") /\ ~At(i, "failed")
      /\ run' \in Runs /\ open' \subseteq Calls /\ Quiet /\ WorkIsInHand
  BY DEF IInv, Typed, Read, At, Quiet, WorkIsInHand
<1>2. view \in [Calls -> Statuses]
  BY DEF IInv, Typed, Approvals, Statuses
<1>3. loop[i] \in Loops /\ Local(i)
  BY DEF IInv, Typed, Mine
<1>4. loop' = [loop EXCEPT ![i] = l]
  BY <1>3 DEF Read, Loops
<1>5. /\ l \in Loops /\ l.at = "prepare" /\ l.view = view /\ l.version = loop[i].version
      /\ l.entries = loop[i].entries /\ l.done = loop[i].done /\ l.kind = loop[i].kind
      /\ l.call = loop[i].call /\ l.output = loop[i].output
  <2> HIDE DEF view
  <2>. QED BY <1>2, <1>3 DEF Loops, Places, Before
<1> HIDE DEF l
<1>6. loop'[i] = l
  BY <1>4 DEF IInv, Typed
<1>7. Viewed(i)' /\ Unseen(i)'
  <2>1. \A c \in run.approvals : approval[c].status # "none"
    BY DEF IInv, Counted
  <2>. QED BY <1>1, <1>5, <1>6, <2>1 DEF Viewed, Unseen, Quiet, IInv, Typed, Runs
<1>8. Local(i)' /\ l.kind = "entry"
  BY <1>1, <1>3, <1>5, <1>6, <1>7
     DEF Local, At, ForEntry, ForApproval, Before, Deciding, Appending
<1> HIDE DEF view
<1>. QED BY <1>1, <1>4, <1>5, <1>7, <1>8, WentTo DEF Appending

(* A set of calls has a first one. *)
LEMMA FirstIn == ASSUME NEW calls \in SUBSET Calls, calls # {} PROVE First(calls) \in calls
<1>1. PICK c \in calls : \A d \in calls : ~(<<d, c>> \in OpToRel(<, Nat))
  <2>1. IsWellFoundedOn(OpToRel(<, Nat), Nat)
    BY NatLessThanWellFounded, Zenon
  <2>2. calls \subseteq Nat
    BY CallsAssumption
  <2>. QED BY <2>1, <2>2, WFMin, Zenon
<1>2. \A d \in calls : ~(d < c)
  <2>1. c \in Nat /\ \A d \in calls : d \in Nat
    BY CallsAssumption
  <2>. QED BY <1>1, <2>1, Zenon DEF OpToRel
<1>3. \A d \in calls : c <= d
  BY <1>2, CallsAssumption
<1>. QED BY <1>3, Zenon DEF First

LEMMA PrepareKeeps == ASSUME IInv, NEW i \in Instances, Prepare(i) PROVE IInv'
<1> DEFINE missing == {c \in Calls : loop[i].view[c] = "none"}
<1>1. /\ Typed /\ At(i, "prepare") /\ ~At(i, "idle") /\ ~At(i, "failed")
      /\ run' \in Runs /\ open' \subseteq Calls /\ Quiet /\ WorkIsInHand
  BY DEF IInv, Typed, Prepare, At, Quiet, WorkIsInHand
<1>2. /\ loop[i] \in Loops /\ Viewed(i) /\ loop[i].kind = "entry" /\ loop[i].call = Nobody
      /\ loop[i].output = "none" /\ loop[i].entries > 0
  BY <1>1 DEF IInv, Typed, Mine, Local, At, Before
<1>3. CASE missing = {}
  <2>1. Goto(i, "next") /\ AllViewed(i)
    BY <1>3 DEF Prepare, AllViewed
  <2>2. Viewed(i)' => Local(i)'
    <3>1. loop'[i] = [loop[i] EXCEPT !.at = "next"] /\ AllViewed(i)'
      BY <1>1, <2>1, Went, Going DEF Places, Before
    <3>. QED
      BY <1>2, <3>1 DEF Loops, Local, At, ForEntry, ForApproval, Before, Deciding, Appending
  <2>. QED BY <1>1, <1>2, <2>1, <2>2, WentOn DEF Places, Before, Appending
<1>4. CASE missing # {}
  <2> DEFINE c == First(missing)
             l == [loop[i] EXCEPT !.at = "hold", !.kind = "approval", !.call = c]
  <2>1. c \in missing
    BY <1>4, FirstIn
  <2> HIDE DEF c
  <2>2. /\ l \in Loops /\ l.at = "hold" /\ l.kind = "approval" /\ l.call = c
        /\ l.output = loop[i].output
        /\ l.view = loop[i].view /\ l.version = loop[i].version /\ l.orphan = loop[i].orphan
        /\ l.entries = loop[i].entries /\ l.done = loop[i].done
    BY <1>2, <2>1 DEF Loops, Places, Appending
  <2>3. loop' = [loop EXCEPT ![i] = l]
    BY <1>2, <1>4 DEF Prepare, Loops, c
  <2> HIDE DEF l
  <2>4. loop'[i] = l
    BY <1>1, <2>3 DEF Typed
  <2>5. Viewed(i)' /\ (Unseen(i) => Unseen(i)')
    BY <1>1, <1>2, <2>2, <2>4 DEF Viewed, Unseen, Quiet
  <2>6. Local(i)'
    BY <1>2, <2>1, <2>2, <2>4, <2>5
       DEF Local, At, ForEntry, ForApproval, Before, Deciding, Appending
  <2>7. Holder(i) => Unseen(i) /\ c \notin run.approvals
    BY <1>1, <2>1 DEF IInv, Mine, Holding, Unseen
  <2>. QED BY <1>1, <2>2, <2>3, <2>5, <2>6, <2>7, WentTo
<1>. QED BY <1>3, <1>4

(* While a call has no result that counts, there is a place for one. *)
LEMMA RoomLeft ==
  ASSUME IInv, NEW i \in Instances, Holder(i), ~At(i, "failed"), NEW c \in Calls, c \notin loop[i].done
  PROVE  loop[i].entries \in Positions
<1> DEFINE n == Cardinality(Calls)
<1>1. /\ run.entries \in 0..(n + 1) /\ n \in Nat
      /\ loop[i].entries = run.entries /\ c \notin Answered(run.entries)
  BY PositionsNat DEF IInv, Typed, Runs, Mine, Holding
<1>2. CASE run.entries = n + 1
  <2> DEFINE f == [s \in 1..n |-> entry[s].call]
  <2>1. f \in [1..n -> Calls \ {c}]
    <3> SUFFICES ASSUME NEW s \in 1..n PROVE entry[s].call \in Calls \ {c}
      OBVIOUS
    <3>1. s \in Positions /\ s < run.entries /\ s # 0 /\ s \in 1..(run.entries - 1)
      BY <1>1, <1>2 DEF Positions
    <3>2. entry[s].call \in Calls
      BY <3>1 DEF IInv, Counted, Typed, Entries
    <3>. QED BY <1>1, <3>1, <3>2 DEF Answered
  <2>2. /\ IsFiniteSet(1..n) /\ Cardinality(1..n) = n
        /\ IsFiniteSet(Calls \ {c}) /\ Cardinality(Calls \ {c}) = n - 1
    <3>1. IsFiniteSet(Calls \ {c}) /\ Cardinality(Calls \ {c}) = n - 1
      BY CallsAssumption, FS_RemoveElement
    <3>2. IsFiniteSet(1..n) /\ Cardinality(1..n) = n
      <4>1. 1 \in Int /\ n \in Int /\ n \in Nat
        BY <1>1
      <4> HIDE DEF n
      <4>2. IsFiniteSet(1..n) /\ Cardinality(1..n) = IF 1 > n THEN 0 ELSE n - 1 + 1
        BY <4>1, FS_Interval, Zenon
      <4>. QED BY <4>1, <4>2
    <3>. QED BY <3>1, <3>2
  <2> HIDE DEF n
  <2>3. Cardinality(Calls \ {c}) < Cardinality(1..n)
    BY <1>1, <2>2
  <2>4. PICK s, t \in 1..n : s # t /\ f[s] = f[t]
    <3> HIDE DEF f
    <3>. QED BY <2>1, <2>2, <2>3, FS_PigeonHole, Zenon
  <2>5. s \in Positions \ {0} /\ t \in Positions \ {0} /\ s < run.entries /\ t < run.entries
    BY <1>1, <1>2 DEF Positions, n
  <2>. QED BY <2>4, <2>5 DEF IInv, Counted
<1>. QED BY <1>1, <1>2 DEF Positions

LEMMA NextCallKeeps == ASSUME IInv, NEW i \in Instances, NextCall(i) PROVE IInv'
<1> DEFINE view == loop[i].view
           ready == {d \in Calls \ loop[i].done : view[d] # "pending"}
<1>1. /\ Typed /\ At(i, "next") /\ ~At(i, "idle") /\ ~At(i, "failed")
      /\ open' \subseteq Calls /\ WorkIsInHand
      /\ UNCHANGED <<entry, approval, effect>>
  BY DEF IInv, Typed, NextCall, At, WorkIsInHand
<1>2. /\ loop[i] \in Loops /\ Local(i) /\ Viewed(i) /\ AllViewed(i) /\ loop[i].kind = "entry"
      /\ loop[i].entries > 0
  BY <1>1 DEF IInv, Typed, Mine, Local, At, Before
<1>3. CASE run' = run /\ (\/ Goto(i, "park") \/ Goto(i, "completed") \/ Leave(i))
  <2>1. run' \in Runs /\ Quiet
    BY <1>1, <1>3 DEF Typed, Quiet
  <2>. QED BY <1>1, <1>3, <2>1, Rested, LeftOff DEF Resting, Terminal
<1>4. ASSUME NEW c \in ready, Fenced(i), run' = Renewed,
             \/ Goto(i, "cancelled")
             \/ loop' = [loop EXCEPT ![i].call = c,
                                     ![i].at = IF view[c] \in Refusals THEN "hold" ELSE "tool",
                                     ![i].output = IF view[c] \in Refusals THEN "denied" ELSE @]
      PROVE  IInv'
  <2> DEFINE refused == view[c] \in Refusals
  <2>1. run' \in Runs /\ Quiet
    BY <1>1, <1>4, SameRuns DEF Quiet, SameRun, Typed
  <2>2. CASE Goto(i, "cancelled")
    BY <1>1, <2>1, <2>2, Rested DEF Resting, Terminal
  <2>3. CASE loop' = [loop EXCEPT ![i].call = c,
                                  ![i].at = IF refused THEN "hold" ELSE "tool",
                                  ![i].output = IF refused THEN "denied" ELSE @]
    <3> DEFINE l == [loop[i] EXCEPT !.call = c, !.at = IF refused THEN "hold" ELSE "tool",
                                    !.output = IF refused THEN "denied" ELSE @]
    <3>2. loop[i].entries \in Positions
      BY <1>1, <1>4, RoomLeft DEF Holder
    <3>3. /\ l \in Loops /\ l.call = c /\ l.view = view /\ l.kind = "entry"
          /\ l.at = IF refused THEN "hold" ELSE "tool"
          /\ refused => l.output = "denied"
          /\ l.version = loop[i].version /\ l.entries = loop[i].entries /\ l.done = loop[i].done
      BY <1>2 DEF Loops, Places, Deciding, Appending, Outputs
    <3>4. loop' = [loop EXCEPT ![i] = l]
      BY <1>2, <2>3 DEF Loops
    <3> HIDE DEF l
    <3>5. loop'[i] = l
      BY <1>1, <3>4 DEF Typed
    <3>6. Viewed(i)' /\ AllViewed(i)'
      BY <1>2, <2>1, <3>3, <3>5 DEF Viewed, AllViewed, Quiet
    <3>7. refused => c \in run'.approvals /\ approval'[c].status \in {"denied", "expired"}
      BY <1>2, <2>1 DEF Viewed, Refusals, Quiet
    <3>8. ~refused => view[c] = "approved"
      BY <1>2 DEF AllViewed, Refusals, Loops, Statuses
    <3>9. c \in Calls /\ c \notin loop[i].done /\ c # Nobody
      BY NamesAssumption
    <3>10. Local(i)'
      <4>1. CASE refused
        BY <4>1, <1>2, <3>2, <3>3, <3>5, <3>6, <3>7, <3>9
           DEF Local, Truth, At, ForEntry, ForApproval, Before, Deciding, Appending
      <4>2. CASE ~refused
        BY <4>2, <1>2, <3>2, <3>3, <3>5, <3>6, <3>8, <3>9
           DEF Local, At, ForEntry, ForApproval, Before, Deciding, Appending
      <4>. QED BY <4>1, <4>2
    <3>11. l.at \in {"hold", "tool"}
      BY <3>3
    <3> HIDE DEF refused, view
    <3>. QED BY <1>1, <2>1, <3>3, <3>4, <3>10, <3>11, WentTo
  <2>. QED BY <1>4, <2>2, <2>3
<1>5. ready # {} => First(ready) \in ready
  BY FirstIn
<1>. QED BY <1>3, <1>4, <1>5 DEF NextCall

-----------------------------------------------------------------------------
(* The loop is at a call: it has a place for the result, and an approval. *)
LEMMA AtCall ==
  ASSUME IInv, NEW i \in Instances, loop[i].at \in Deciding
  PROVE  /\ Typed /\ ~At(i, "idle") /\ ~At(i, "failed") /\ loop[i] \in Loops
         /\ loop[i].entries > 0 /\ loop[i].entries \in Positions /\ AllViewed(i)
         /\ loop[i].kind = "entry" /\ loop[i].call \in Calls /\ loop[i].call \notin loop[i].done
         /\ loop[i].view[loop[i].call] = "approved" /\ loop[i].call # Nobody
  BY NamesAssumption DEF IInv, Typed, Mine, Local, Deciding, At

LEMMA Answers ==
  ASSUME IInv, NEW i \in Instances, loop[i].at \in Deciding, NEW output \in {"ok", "error"},
         Answer(i, output), output = "ok" => effect'[loop[i].call] = 1,
         run' \in Runs, open' \subseteq Calls, Quiet, WorkIsInHand
  PROVE  IInv'
<1> DEFINE l == [loop[i] EXCEPT !.at = "hold", !.output = output]
<1> USE AtCall
<1>1. /\ l \in Loops /\ l.at = "hold" /\ l.output = output /\ l.kind = "entry"
      /\ l.view = loop[i].view /\ l.version = loop[i].version /\ l.call = loop[i].call
      /\ l.entries = loop[i].entries /\ l.done = loop[i].done
  BY DEF Loops, Places, Appending, Outputs
<1>2. loop' = [loop EXCEPT ![i] = l]
  BY DEF Answer, Loops
<1> HIDE DEF l
<1>3. loop'[i] = l
  BY <1>2 DEF Typed
<1>4. Viewed(i)' /\ AllViewed(i)'
  BY <1>1, <1>3 DEF IInv, Mine, Local, Viewed, AllViewed, Quiet
<1>5. Local(i)'
  BY <1>1, <1>3, <1>4
     DEF Local, Truth, At, ForEntry, ForApproval, Before, Deciding, Appending
<1>. QED BY <1>1, <1>2, <1>5, WentTo

LEMMA ToolKeeps == ASSUME IInv, NEW i \in Instances, Tool(i) PROVE IInv'
<1>1. /\ At(i, "tool") /\ loop[i].at \in Deciding
      /\ run' \in Runs /\ open' \subseteq Calls /\ Quiet /\ WorkIsInHand
  BY DEF IInv, Typed, Tool, At, Quiet, WorkIsInHand, Deciding
<1>2. CASE effect[loop[i].call] > 0
  <2>1. effect'[loop[i].call] = 1
    BY <1>1, <1>2, AtCall DEF Tool, Typed
  <2>. QED BY <1>1, <1>2, <2>1, Answers DEF Tool
<1>3. CASE Goto(i, "working")
  <2>1. Viewed(i)' => Local(i)'
    <3>1. loop'[i] = [loop[i] EXCEPT !.at = "working"] /\ AllViewed(i)'
      BY <1>1, <1>3, AtCall, Went, Going DEF Places, Deciding
    <3>2. loop'[i].at = "working" /\ loop'[i].call = loop[i].call /\ loop'[i].kind = "entry"
          /\ loop'[i].entries = loop[i].entries /\ loop'[i].done = loop[i].done
          /\ loop'[i].view = loop[i].view
      BY <1>1, <3>1, AtCall DEF Loops
    <3>. QED BY <1>1, <3>1, <3>2, AtCall
         DEF Local, At, ForEntry, ForApproval, Before, Deciding, Appending
  <2>. QED BY <1>1, <1>3, <2>1, AtCall, WentOn DEF Places, Deciding, Appending
<1>. QED BY <1>2, <1>3 DEF Tool

LEMMA ToolAnswersKeeps == ASSUME IInv, NEW i \in Instances, ToolAnswers(i) PROVE IInv'
<1>1. At(i, "working") /\ loop[i].at \in Deciding
  BY DEF ToolAnswers, At, Deciding
<1>2. /\ run' \in Runs /\ open' \subseteq Calls
      /\ effect' = [effect EXCEPT ![loop[i].call] = IF @ = 0 THEN 1 ELSE @]
  BY DEF ToolAnswers, Commit, IInv, Typed
<1>3. Quiet /\ WorkIsInHand /\ effect'[loop[i].call] = 1
  BY <1>1, <1>2, AtCall DEF ToolAnswers, Quiet, WorkIsInHand, Typed
<1>. QED BY <1>1, <1>2, <1>3, Answers DEF ToolAnswers

LEMMA ToolErrorsKeeps == ASSUME IInv, NEW i \in Instances, ToolErrors(i) PROVE IInv'
<1>1. /\ loop[i].at \in Deciding
      /\ run' \in Runs /\ open' \subseteq Calls /\ Quiet /\ WorkIsInHand
  BY DEF IInv, Typed, ToolErrors, At, Quiet, WorkIsInHand, Deciding
<1>. QED BY <1>1, Answers DEF ToolErrors

(* A call that timed out is counted, and its transaction may be left open. *)
LEMMA Timeouts ==
  ASSUME IInv, NEW i \in Instances, At(i, "working"), Goto(i, "timeout"), run' \in Runs,
         open' \subseteq Calls, Quiet, WorkIsInHand
  PROVE  IInv'
<1>1. loop[i].at \in Deciding
  BY DEF At, Deciding
<1>2. Viewed(i)' => Local(i)'
  <2>1. loop'[i] = [loop[i] EXCEPT !.at = "timeout"] /\ AllViewed(i)'
    BY <1>1, AtCall, Went, Going DEF Places, Deciding
  <2>2. loop'[i].at = "timeout" /\ loop'[i].call = loop[i].call /\ loop'[i].kind = "entry"
        /\ loop'[i].entries = loop[i].entries /\ loop'[i].done = loop[i].done
        /\ loop'[i].view = loop[i].view
    BY <1>1, <2>1, AtCall DEF Loops
  <2>. QED BY <1>1, <2>1, <2>2, AtCall
       DEF Local, At, ForEntry, ForApproval, Before, Deciding, Appending
<1>. QED BY <1>1, <1>2, AtCall, WentOn DEF Places, Deciding, Appending

LEMMA ToolConflictsKeeps == ASSUME IInv, NEW i \in Instances, ToolConflicts(i) PROVE IInv'
<1>1. /\ At(i, "working") /\ run' \in Runs /\ open' \subseteq Calls /\ Quiet /\ WorkIsInHand
  BY DEF IInv, Typed, ToolConflicts, Quiet, WorkIsInHand
<1>. QED BY <1>1, Timeouts, LeftOff DEF ToolConflicts

LEMMA ToolTimesOutKeeps == ASSUME IInv, NEW i \in Instances, ToolTimesOut(i) PROVE IInv'
<1>1. At(i, "working") /\ loop[i].call \in Calls
  BY AtCall DEF ToolTimesOut, At, Deciding
<1>2. run' \in Runs /\ open' \subseteq Calls /\ Quiet /\ WorkIsInHand
  BY <1>1 DEF IInv, Typed, ToolTimesOut, Quiet, WorkIsInHand
<1>. QED BY <1>1, <1>2, Timeouts DEF ToolTimesOut

LEMMA CountTimeoutKeeps == ASSUME IInv, NEW i \in Instances, CountTimeout(i) PROVE IInv'
<1>1. /\ loop[i].at \in Deciding /\ open' \subseteq Calls /\ WorkIsInHand
      /\ UNCHANGED <<entry, approval, effect>>
  BY DEF IInv, Typed, CountTimeout, At, WorkIsInHand, Deciding
<1>2. CASE Goto(i, "failed") /\ run' = run
  <2>1. run' \in Runs /\ Quiet
    BY <1>1, <1>2 DEF IInv, Typed, Quiet
  <2>. QED BY <1>1, <1>2, <2>1, AtCall, Rested DEF Resting, Terminal
<1>3. CASE Leave(i) /\ (\/ run' = run
                        \/ \E n \in 0..ToolAttempts :
                              run' = [run EXCEPT !.timedOut = loop[i].call, !.timeouts = n])
  <2>1. run' \in Runs /\ Quiet
    BY <1>1, <1>3, AtCall DEF IInv, Typed, Quiet, Runs
  <2>. QED BY <1>1, <1>3, <2>1, LeftOff
<1>4. PICK n : /\ n = IF run.timedOut = loop[i].call THEN run.timeouts + 1 ELSE 1
               /\ IF n < ToolAttempts
                  THEN /\ Leave(i)
                       /\ run' = IF Fenced(i) THEN [run EXCEPT !.timedOut = loop[i].call,
                                                               !.timeouts = n] ELSE run
                  ELSE Goto(i, "failed") /\ UNCHANGED run
  BY DEF CountTimeout
<1>5. n < ToolAttempts => n \in 0..ToolAttempts
  BY <1>4, LimitAssumption DEF IInv, Typed, Runs
<1>. QED BY <1>2, <1>3, <1>4, <1>5

LEMMA AbortedKeeps == ASSUME IInv, NEW i \in Instances, Aborted(i) PROVE IInv'
<1>1. ~At(i, "idle") /\ ~At(i, "failed") /\ (At(i, "working") => loop[i].call \in Calls)
  BY AtCall DEF Aborted, At, Deciding
<1>2. run' \in Runs /\ open' \subseteq Calls /\ Quiet /\ WorkIsInHand
  BY <1>1 DEF IInv, Typed, Aborted, Quiet, WorkIsInHand
<1>. QED BY <1>1, <1>2, Rested DEF Aborted, Resting, Terminal

-----------------------------------------------------------------------------
LEMMA HoldKeeps == ASSUME IInv, NEW i \in Instances, Hold(i) PROVE IInv'
<1>1. /\ Typed /\ At(i, "hold") /\ ~At(i, "idle") /\ ~At(i, "failed") /\ Local(i)
      /\ run' \in Runs /\ open' \subseteq Calls /\ Quiet /\ WorkIsInHand
  BY DEF IInv, Typed, Mine, Hold, At, Quiet, WorkIsInHand
<1>2. CASE Leave(i)
  BY <1>1, <1>2, LeftOff
<1>3. CASE Goto(i, "create")
  <2>1. Viewed(i)' => Local(i)'
    <3>1. loop'[i] = [loop[i] EXCEPT !.at = "create"] /\ (AllViewed(i) => AllViewed(i)')
          /\ (loop[i].call \in Calls => (Truth(loop[i].call, loop[i].output) =>
                /\ loop[i].output = "ok" => effect'[loop[i].call] = 1
                /\ loop[i].output = "denied" =>
                     /\ loop[i].call \in run'.approvals
                     /\ approval'[loop[i].call].status \in {"denied", "expired"}))
      BY <1>1, <1>3, Went, Going DEF Places, Appending, Truth, Quiet
    <3>2. /\ loop'[i].at = "create" /\ loop'[i].call = loop[i].call /\ loop'[i].kind = loop[i].kind
          /\ loop'[i].entries = loop[i].entries /\ loop'[i].done = loop[i].done
          /\ loop'[i].view = loop[i].view /\ loop'[i].output = loop[i].output
          /\ loop[i].call \in Calls \union {Nobody}
      BY <1>1, <3>1 DEF Typed, Loops
    <3>. QED BY <1>1, <3>1, <3>2
         DEF Local, Truth, At, ForEntry, ForApproval, Before, Deciding, Appending
  <2>. QED BY <1>1, <1>3, <2>1, WentOn DEF Places, Appending, ForApproval, At
<1>. QED BY <1>2, <1>3 DEF Hold

LEMMA OrphanKeeps == ASSUME IInv, NEW i \in Instances, Orphan(i) PROVE IInv'
<1>1. /\ Typed /\ At(i, "orphan") /\ ~At(i, "idle") /\ ~At(i, "failed") /\ Local(i) /\ Holding(i)
      /\ run' \in Runs /\ open' \subseteq Calls /\ Quiet /\ WorkIsInHand /\ run' = run
  BY DEF IInv, Typed, Mine, Orphan, At, Quiet, WorkIsInHand
<1>2. CASE Leave(i)
  BY <1>1, <1>2, LeftOff
<1>3. CASE /\ Fenced(i) /\ Written(i) \in 1..(loop[i].version - 1)
           /\ loop' = [loop EXCEPT ![i].at = "delete", ![i].orphan = Written(i)]
  <2> DEFINE l == [loop[i] EXCEPT !.at = "delete", !.orphan = Written(i)]
  <2>1. loop[i].version \in Nat /\ Written(i) \in Nat /\ Written(i) > 0
        /\ Written(i) < loop[i].version
    BY <1>1, <1>3 DEF Typed, Loops
  <2>2. /\ l \in Loops /\ l.at = "delete" /\ l.orphan = Written(i)
        /\ l.view = loop[i].view /\ l.version = loop[i].version /\ l.call = loop[i].call
        /\ l.entries = loop[i].entries /\ l.done = loop[i].done /\ l.kind = loop[i].kind
        /\ l.output = loop[i].output
    BY <1>1, <2>1 DEF Typed, Loops, Places, Appending
  <2>3. loop' = [loop EXCEPT ![i] = l] /\ loop'[i] = l
    BY <1>1, <1>3 DEF Typed, Loops
  <2> HIDE DEF l
  <2>4. loop' \in [Instances -> Loops] /\ Only(i) /\ SameLease(i) /\ loop'[i].version <= run.version
    BY <1>1, <2>2, <2>3 DEF Typed, Only, SameLease, IInv, Versions
  <2>5. Typed'
    BY <1>1, <2>4 DEF Typed, Quiet
  <2>6. UNCHANGED <<run, entry, approval, effect>>
    BY <1>1 DEF Orphan
  <2>7. Local(i)'
    <3>1. Viewed(i)' /\ (AllViewed(i) => AllViewed(i)')
      BY <1>1, <2>2, <2>3, <2>6 DEF Local, Viewed, AllViewed
    <3>. QED BY <1>1, <2>1, <2>2, <2>3, <2>6, <3>1
         DEF Local, Truth, At, ForEntry, ForApproval, Before, Deciding, Appending
  <2>8. Holder(i)
    BY <1>1, <1>3 DEF Holder
  <2>9. /\ loop[i].entries = run.entries /\ loop[i].done = Answered(run.entries)
        /\ loop[i].kind = "approval" => Unseen(i) /\ loop[i].call \notin run.approvals
    BY <1>1, <2>8 DEF Holding, ForApproval, Appending, At
  <2>10. Harmless(i)'
    BY <1>1, <2>2, <2>3, <2>6, <2>9, RunFields DEF Harmless, Typed
  <2>11. Holding(i)'
    <3>1. Answered(run.entries)' = Answered(run.entries)
      BY <2>6 DEF Answered
    <3>. QED BY <2>2, <2>3, <2>6, <2>9, <3>1 DEF Holding, At, Unseen, ForApproval
  <2>. QED BY <1>1, <2>4, <2>5, <2>7, <2>10, <2>11, QuietStep DEF Mine
<1>. QED BY <1>2, <1>3 DEF Orphan

LEMMA ParkKeeps == ASSUME IInv, NEW i \in Instances, Park(i) PROVE IInv'
<1>1. /\ Typed /\ ~At(i, "idle") /\ ~At(i, "failed") /\ open' \subseteq Calls /\ WorkIsInHand
      /\ UNCHANGED <<entry, approval, effect>>
  BY DEF IInv, Typed, Park, At, WorkIsInHand
<1>2. run' \in Runs /\ Quiet
  <2>1. SameRun(run) /\ SameRun([run EXCEPT !.status = "waiting", !.owner = Nobody, !.lapsed = FALSE])
    BY <1>1, SameRuns
  <2>2. SameRun(run')
    BY <2>1 DEF Park, Write
  <2>. QED BY <1>1, <2>2 DEF SameRun, Quiet, Typed
<1>3. Leave(i) \/ \E at \in {"rouse", "check"} : Goto(i, at)
  BY DEF Park, Write
<1>. QED BY <1>1, <1>2, <1>3, LeftOff, Rested DEF Resting

LEMMA CheckKeeps == ASSUME IInv, NEW i \in Instances, Check(i) PROVE IInv'
<1>1. /\ Typed /\ ~At(i, "idle") /\ ~At(i, "failed")
      /\ run' \in Runs /\ open' \subseteq Calls /\ Quiet /\ WorkIsInHand
  BY DEF IInv, Typed, Check, At, Quiet, WorkIsInHand
<1>. QED BY <1>1, LeftOff, Rested DEF Check, Resting

LEMMA RouseKeeps == ASSUME IInv, NEW i \in Instances, Rouse(i) PROVE IInv'
<1>1. run' \in Runs /\ open' \subseteq Calls /\ Quiet /\ WorkIsInHand
  BY SameRuns DEF IInv, Typed, Rouse, SameRun, Quiet, WorkIsInHand
<1>. QED BY <1>1, LeftOff DEF Rouse

LEMMA EndKeeps == ASSUME IInv, NEW i \in Instances, End(i) PROVE IInv'
<1>1. run' \in Runs /\ open' \subseteq Calls /\ Quiet /\ WorkIsInHand
  BY SameRuns DEF IInv, Typed, End, SameRun, Quiet, WorkIsInHand
<1>. QED BY <1>1, LeftOff DEF End

LEMMA CrashKeeps == ASSUME IInv, NEW i \in Instances, Crash(i) PROVE IInv'
<1>1. At(i, "working") => loop[i].call \in Calls
  BY AtCall DEF At, Deciding
<1>2. run' \in Runs /\ open' \subseteq Calls /\ Quiet /\ WorkIsInHand
  BY <1>1 DEF IInv, Typed, Crash, Quiet, WorkIsInHand
<1>. QED BY <1>2, LeftOff DEF Crash

-----------------------------------------------------------------------------
(* Steps of others: no loop moves, and nothing more counts. *)
LEMMA LoopsStill ==
  ASSUME IInv, run' \in Runs, approval' \in [Calls -> Approvals], effect' \in [Calls -> 0..1],
         open' \subseteq Calls, UNCHANGED <<loop, entry>>, Durable, WorkIsInHand,
         run'.entries = run.entries, run'.approvals = run.approvals,
         \A c \in Calls : approval'[c].version = approval[c].version
  PROVE  IInv'
<1>1. Typed'
  BY DEF IInv, Typed
<1>2. Versions'
  <2>1. /\ run.version \in Nat /\ run'.version \in Nat /\ run.version <= run'.version
        /\ \A s \in Positions : entry[s].version \in Nat
        /\ \A c \in Calls : approval[c].version \in Nat
        /\ \A i \in Instances : loop[i].version \in Nat
    BY RunFields DEF IInv, Typed, Durable, Entries, Approvals, Loops
  <2>. QED BY <2>1 DEF IInv, Versions, At
<1>3. Counted'
  BY <1>1, CountedKept
<1>4. \A j \in Instances : Mine(j)'
  BY <1>1, OthersKeep
<1>. QED BY <1>1, <1>2, <1>3, <1>4 DEF IInv

(* The same where the decisions stay too. *)
LEMMA RowsStill ==
  ASSUME IInv, run' \in Runs, open' \subseteq Calls, UNCHANGED loop, Quiet, WorkIsInHand
  PROVE  IInv'
<1>1. Durable
  BY QuietDurable
<1>. QED BY <1>1, LoopsStill DEF Quiet, IInv, Typed

LEMMA BeatKeeps == ASSUME IInv, NEW i \in Instances, Beat(i) PROVE IInv'
<1>1. Typed /\ ~At(i, "idle") /\ (At(i, "working") => loop[i].call \in Calls)
  BY AtCall DEF IInv, Beat, At, Deciding
<1>2. run' \in Runs /\ Quiet
  <2>1. SameRun(run) /\ SameRun(Renewed)
    BY <1>1, SameRuns
  <2>2. SameRun(run')
    BY <2>1 DEF Beat, Write
  <2>. QED BY <1>1, <2>2 DEF Beat, SameRun, Quiet, Typed
<1>3. open' \subseteq Calls /\ WorkIsInHand
  BY <1>1 DEF Beat, Typed, WorkIsInHand
<1>4. CASE Leave(i)
  BY <1>2, <1>3, <1>4, LeftOff
<1>5. CASE Goto(i, loop[i].at)
  <2>1. loop' = loop
    BY <1>1, <1>5 DEF Goto, Typed, Loops
  <2>. QED BY <1>2, <1>3, <2>1, RowsStill
<1>. QED BY <1>4, <1>5 DEF Beat, Write

LEMMA WakeKeeps == ASSUME IInv, NEW i \in Instances, Wake(i) PROVE IInv'
<1>1. run' \in Runs /\ open' \subseteq Calls /\ Quiet /\ WorkIsInHand
  BY SameRuns DEF IInv, Typed, Wake, SameRun, Quiet, WorkIsInHand
<1>. QED BY <1>1, RowsStill DEF Wake

LEMMA CancelKeeps == ASSUME IInv, Cancel PROVE IInv'
<1>1. run' \in Runs /\ open' \subseteq Calls /\ Quiet /\ WorkIsInHand
  BY SameRuns DEF IInv, Typed, Cancel, SameRun, Quiet, WorkIsInHand
<1>. QED BY <1>1, RowsStill DEF Cancel

LEMMA LapseKeeps == ASSUME IInv, Lapse PROVE IInv'
<1>1. run' \in Runs /\ open' \subseteq Calls /\ Quiet /\ WorkIsInHand
  BY SameRuns DEF IInv, Typed, Lapse, SameRun, Quiet, WorkIsInHand
<1>. QED BY <1>1, RowsStill DEF Lapse

LEMMA ReleaseKeeps == ASSUME IInv, NEW c \in Calls, Release(c) PROVE IInv'
<1>1. run' \in Runs /\ open' \subseteq Calls /\ Quiet /\ WorkIsInHand
  BY SameRuns DEF IInv, Typed, Release, SameRun, Quiet, WorkIsInHand
<1>. QED BY <1>1, RowsStill DEF Release

LEMMA WakeAfterKeeps == ASSUME IInv, NEW a, WakeAfter(a) PROVE IInv'
<1>1. run' \in Runs /\ open' \subseteq Calls /\ Quiet /\ WorkIsInHand
  BY SameRuns DEF IInv, Typed, WakeAfter, SameRun, Quiet, WorkIsInHand
<1>. QED BY <1>1, RowsStill DEF WakeAfter

LEMMA RestKeeps ==
  ASSUME IInv, UNCHANGED <<run, entry, approval, effect, open, loop>>
  PROVE  IInv'
<1>1. run' \in Runs /\ open' \subseteq Calls /\ Quiet /\ WorkIsInHand
  BY DEF IInv, Typed, Quiet, WorkIsInHand
<1>. QED BY <1>1, RowsStill

(* A transaction given up commits where no other did, or is rolled back. *)
LEMMA OpenEndsKeeps == ASSUME IInv, NEW c \in Calls, OpenEnds(c) PROVE IInv'
<1>1. effect' \in [Calls -> 0..1] /\ (\A d \in Calls : effect[d] = 1 => effect'[d] = 1)
      /\ \A d \in Calls : effect'[d] > 0 => effect[d] > 0 \/ d = c
  BY DEF OpenEnds, Commit, IInv, Typed
<1>2. run' \in Runs /\ open' \subseteq Calls /\ Quiet /\ WorkIsInHand
  BY <1>1 DEF OpenEnds, IInv, Typed, Quiet, WorkIsInHand
<1>. QED BY <1>2, RowsStill DEF OpenEnds

(* Only a pending approval is decided. *)
LEMMA DecideKeeps == ASSUME IInv, NEW c \in Calls, Decide(c) PROVE IInv'
<1>1. PICK status \in {"approved", "denied", "expired"} :
        approval' = [approval EXCEPT ![c].status = status]
  BY DEF Decide
<1>2. approval[c].status = "pending" /\ c \in run.approvals
  BY DEF Decide, Pending
<1>3. /\ approval' \in [Calls -> Approvals]
      /\ approval'[c].version = approval[c].version /\ approval'[c].status = status
      /\ \A d \in Calls : d # c => approval'[d] = approval[d]
  BY <1>1 DEF IInv, Typed, Approvals, Statuses
<1>4. Durable
  <2>1. run.version \in Nat /\ run.entries \in Nat /\ Positions \subseteq Nat
    BY RunFields, PositionsNat DEF IInv, Typed
  <2>2. run' = run /\ entry' = entry /\ effect' = effect
    BY DEF Decide
  <2>3. \A d \in run.approvals : approval[d].status # "none"
    BY DEF IInv, Counted
  <2>. QED BY <1>1, <1>2, <1>3, <2>1, <2>2, <2>3 DEF Durable
<1>5. WorkIsInHand
  BY DEF Decide, WorkIsInHand
<1>6. \A d \in Calls : approval'[d].version = approval[d].version
  BY <1>3
<1>. QED BY <1>3, <1>4, <1>5, <1>6, LoopsStill DEF Decide, IInv, Typed

(* A decision of a parked run is logged under a lease of its own. *)
LEMMA LogKeeps == ASSUME IInv, NEW c \in Calls, Log(c) PROVE IInv'
<1>1. CASE run' = run
  BY <1>1, RestKeeps DEF Log
<1>2. CASE run' = [run EXCEPT !.version = @ + 1, !.owner = c, !.lapsed = FALSE]
  <2>1. /\ run' \in Runs /\ run'.version = run.version + 1 /\ run.version \in Nat
        /\ run'.entries = run.entries /\ run'.approvals = run.approvals
    <3>1. run \in Runs /\ run.version \in Nat
      BY DEF IInv, Typed, Runs
    <3>2. run.version + 1 \in Nat
      BY <3>1
    <3>. QED BY <1>2, <3>1, <3>2 DEF Runs
  <2>2. Durable
    <3>1. run.entries \in Nat /\ Positions \subseteq Nat
      BY RunFields, PositionsNat DEF IInv, Typed
    <3>. QED BY <2>1, <3>1 DEF Log, Durable, IInv, Counted
  <2>3. WorkIsInHand
    BY DEF Log, WorkIsInHand
  <2>. QED BY <2>1, <2>2, <2>3, LoopsStill DEF Log, IInv, Typed
<1>. QED BY <1>1, <1>2 DEF Log

-----------------------------------------------------------------------------
(* Steps of one loop that write rows, or make rows count under its lease. *)
LEMMA Wrote ==
  ASSUME IInv, Typed', Durable, Counted', NEW i \in Instances, Only(i), SameLease(i),
         loop'[i].version <= run.version, run'.version = run.version,
         \A s \in Positions : entry'[s].version <= run.version,
         \A c \in Calls : approval'[c].version <= run.version,
         Holder(i) \/ (run'.entries = run.entries /\ run'.approvals = run.approvals),
         Mine(i)'
  PROVE  IInv'
<1>1. Versions'
  <2>1. run'.version >= run.version
    BY RunFields DEF IInv, Typed
  <2>. QED BY <2>1, VersionsKept
<1>2. ASSUME NEW j \in Instances, j # i PROVE Mine(j)'
  <2>1. Holder(i) => ~Holder(j)
    BY <1>2 DEF IInv, Versions, Holder, Fenced
  <2>. QED BY <1>2, <2>1, OthersKeep DEF Only
<1>. QED BY <1>1, <1>2 DEF IInv

LEMMA FailMine ==
  ASSUME IInv, Durable, NEW i \in Instances, Goto(i, "failed")
  PROVE  Mine(i)' /\ loop'[i].version = loop[i].version
<1>1. loop'[i].at = "failed" /\ loop'[i].view = loop[i].view /\ loop'[i].version = loop[i].version
  BY Went DEF IInv, Places, Terminal
<1>2. Viewed(i)'
  BY <1>1 DEF IInv, Mine, Local, Viewed, Durable
<1>. QED BY <1>1, <1>2
     DEF Mine, Local, Harmless, Holding, Before, Deciding, Appending, ForEntry, ForApproval, At

LEMMA WroteAndFailed ==
  ASSUME IInv, Durable, Counted', NEW i \in Instances, Goto(i, "failed"), ~At(i, "idle"),
         run' \in Runs, entry' \in [Positions -> Entries], approval' \in [Calls -> Approvals],
         UNCHANGED <<effect, open>>, run'.version = run.version,
         \A s \in Positions : entry'[s].version <= run.version,
         \A c \in Calls : approval'[c].version <= run.version,
         Holder(i) \/ (run'.entries = run.entries /\ run'.approvals = run.approvals)
  PROVE  IInv'
<1>1. Typed' /\ Only(i)
  BY Went DEF IInv, Typed, Places, Terminal
<1>2. Mine(i)' /\ loop'[i].version = loop[i].version
  BY FailMine
<1>3. SameLease(i) /\ loop'[i].version <= run.version
  BY <1>2 DEF IInv, Versions, SameLease
<1>. QED BY <1>1, <1>2, <1>3, Wrote

LEMMA ClaimKeeps == ASSUME IInv, NEW i \in Instances, Claim(i) PROVE IInv'
<1> DEFINE l == [Idle EXCEPT !.at = "renew", !.version = run.version + 1,
                             !.entries = run.entries, !.done = Answered(run.entries)]
<1>1. run \in Runs /\ run.version \in Nat /\ run.entries \in Nat /\ run.version + 1 \in Nat
      /\ Positions \subseteq Nat
  BY RunFields, PositionsNat DEF IInv, Typed
<1>2. Answered(run.entries) \subseteq Calls
  <2>1. \A s \in 1..(run.entries - 1) : s \in Positions /\ s < run.entries /\ s # 0
    BY PositionsNat DEF IInv, Typed, Runs, Positions
  <2>2. \A s \in 1..(run.entries - 1) : entry[s].call # Nobody /\ entry[s].call \in Calls \union {Nobody}
    BY <2>1 DEF IInv, Counted, Typed, Entries
  <2>. QED BY <2>2 DEF Answered
<1>3. /\ l \in Loops /\ l.at = "renew" /\ l.version = run.version + 1 /\ l.entries = run.entries
      /\ l.done = Answered(run.entries) /\ l.kind = "entry" /\ l.call = Nobody
      /\ l.output = "none" /\ \A c \in Calls : l.view[c] = "none"
  <2> HIDE DEF Answered
  <2>. QED BY <1>1, <1>2, IdleTyped DEF Idle, Loops, Places, Before
<1>4. loop' = [loop EXCEPT ![i] = l] /\ UNCHANGED <<entry, approval, effect, open>>
  BY DEF Claim
<1> HIDE DEF l
<1>5. loop' \in [Instances -> Loops] /\ loop'[i] = l /\ Only(i)
  BY <1>3, <1>4 DEF IInv, Typed, Only
<1>6. /\ run' \in Runs /\ run'.version = run.version + 1 /\ run'.entries = run.entries
      /\ run'.approvals = run.approvals
  BY <1>1 DEF Claim, Runs
<1>7. Typed'
  BY <1>4, <1>5, <1>6 DEF IInv, Typed
<1>8. Durable
  BY <1>1, <1>4, <1>6 DEF Durable, IInv, Counted
<1>9. Counted'
  <2>1. WorkIsInHand
    BY <1>4 DEF WorkIsInHand
  <2>. QED BY <1>6, <1>7, <1>8, <2>1, CountedKept
<1>10. Versions'
  <2>1. /\ \A s \in Positions : entry[s].version \in Nat
        /\ \A c \in Calls : approval[c].version \in Nat
        /\ \A j \in Instances : loop[j].version \in Nat
    BY DEF IInv, Typed, Entries, Approvals, Loops
  <2>. QED BY <1>1, <1>3, <1>4, <1>5, <1>6, <2>1 DEF IInv, Versions, Only, At
<1>11. \A j \in Instances : j # i => Mine(j)'
  BY <1>1, <1>5, <1>6, <1>7, <1>8, OthersKeep DEF Only
<1>12. Mine(i)'
  <2>1. Viewed(i)'
    BY <1>3, <1>5 DEF Viewed
  <2>2. Local(i)'
    BY <1>3, <1>5, <2>1 DEF Local, At, ForEntry, ForApproval, Before, Deciding, Appending
  <2>3. Answered(run.entries)' = Answered(run.entries)
    BY <1>4, <1>6 DEF Answered
  <2>. QED BY <1>3, <1>5, <1>6, <2>2, <2>3
       DEF Mine, Harmless, Holding, At, ForApproval, Appending
<1>. QED BY <1>7, <1>9, <1>10, <1>11, <1>12 DEF IInv

(* A row is created where there is none: it does not count. *)
NewEntry(i) == [version |-> loop[i].version, call |-> loop[i].call, output |-> loop[i].output]
NewApproval(i) == [version |-> loop[i].version,
                   status |-> IF loop[i].call \in Asking THEN "pending" ELSE "approved"]

LEMMA InHand ==
  ASSUME IInv, NEW i \in Instances, loop[i].at \in Appending
  PROVE  /\ Typed /\ loop[i] \in Loops /\ Local(i) /\ ~At(i, "idle") /\ ~At(i, "failed")
         /\ loop[i].version \in Nat /\ loop[i].version > 0 /\ loop[i].version <= run.version
         /\ run.version \in Nat
         /\ loop[i].kind \in {"entry", "approval"}
         /\ loop[i].kind = "entry" => loop[i].entries \in Positions
         /\ loop[i].kind = "approval" => loop[i].call \in Calls
  BY RunFields
     DEF IInv, Typed, Loops, Mine, Local, Versions, ForEntry, ForApproval, Appending, At

LEMMA Placed ==
  ASSUME IInv, NEW i \in Instances, loop[i].at \in {"create", "recreate"}, Written(i) = 0,
         Place(i), UNCHANGED <<run, effect, open>>
  PROVE  /\ entry' \in [Positions -> Entries] /\ approval' \in [Calls -> Approvals]
         /\ Durable
         /\ \A s \in Positions : entry'[s].version <= run.version
         /\ \A c \in Calls : approval'[c].version <= run.version
         /\ loop[i].kind = "entry" => entry'[loop[i].entries] = NewEntry(i)
         /\ loop[i].kind = "approval" => approval'[loop[i].call] = NewApproval(i)
<1>1. loop[i].at \in Appending
  BY DEF Appending
<1>2. /\ run.version \in Nat /\ run.entries \in Nat /\ Positions \subseteq Nat
  BY RunFields, PositionsNat DEF IInv, Typed
<1>3. /\ \A s \in Positions : entry[s].version <= run.version
      /\ \A c \in Calls : approval[c].version <= run.version
  BY DEF IInv, Versions
<1>4. CASE loop[i].kind = "entry"
  <2> DEFINE e == loop[i].entries
  <2>1. e \in Positions /\ NewEntry(i) \in Entries /\ entry[e].version = 0
        /\ NewEntry(i).version = loop[i].version
    BY <1>1, <1>4, InHand DEF NewEntry, Entries, Loops, Written
  <2>2. entry' = [entry EXCEPT ![e] = NewEntry(i)] /\ approval' = approval
    BY <1>4 DEF Place, NewEntry
  <2>3. entry' \in [Positions -> Entries] /\ entry'[e] = NewEntry(i)
        /\ \A s \in Positions : s # e => entry'[s] = entry[s]
    BY <2>1, <2>2 DEF IInv, Typed
  <2>4. ~(e < run.entries) /\ run.version # 0
    <3>1. \A s \in Positions : s < run.entries => entry[s].version > 0
      BY DEF IInv, Counted
    <3>2. run.version # 0
      BY <1>1, InHand
    <3> HIDE DEF e
    <3>. QED BY <2>1, <3>1, <3>2
  <2> HIDE DEF e
  <2>5. Durable
    <3>1. \A c \in run.approvals : approval[c].status # "none"
      BY DEF IInv, Counted
    <3>. QED BY <1>2, <2>1, <2>2, <2>3, <2>4, <3>1 DEF Durable
  <2>6. \A s \in Positions : entry'[s].version <= run.version
    BY <1>1, <1>3, <2>1, <2>3, InHand
  <2>. QED BY <1>3, <1>4, <2>2, <2>3, <2>5, <2>6 DEF IInv, Typed, e
<1>5. CASE loop[i].kind = "approval"
  <2> DEFINE d == loop[i].call
  <2>1. d \in Calls /\ NewApproval(i) \in Approvals /\ approval[d].version = 0
        /\ NewApproval(i).version = loop[i].version
    BY <1>1, <1>5, InHand DEF NewApproval, Approvals, Statuses, Written
  <2>2. approval' = [approval EXCEPT ![d] = NewApproval(i)] /\ entry' = entry
    BY <1>5 DEF Place, NewApproval
  <2>3. approval' \in [Calls -> Approvals] /\ approval'[d] = NewApproval(i)
        /\ \A c \in Calls : c # d => approval'[c] = approval[c]
    BY <2>1, <2>2 DEF IInv, Typed
  <2>4. d \notin run.approvals /\ run.version # 0
    BY <1>1, <1>2, <2>1, InHand DEF IInv, Counted
  <2> HIDE DEF d
  <2>5. Durable
    <3>1. \A c \in run.approvals : approval[c].status # "none"
      BY DEF IInv, Counted
    <3>. QED BY <1>2, <2>1, <2>2, <2>3, <2>4, <3>1 DEF Durable
  <2>6. \A c \in Calls : approval'[c].version <= run.version
    BY <1>1, <1>3, <2>1, <2>3, InHand
  <2>. QED BY <1>3, <1>5, <2>2, <2>3, <2>5, <2>6 DEF IInv, Typed, d
<1>. QED BY <1>1, <1>4, <1>5, InHand

LEMMA CreateKeeps == ASSUME IInv, NEW i \in Instances, Create(i) PROVE IInv'
<1>1. /\ loop[i].at \in Appending /\ loop[i].at \in {"create", "recreate"} /\ ~At(i, "commit")
      /\ run' = run /\ UNCHANGED <<effect, open>> /\ run' \in Runs
  BY DEF Create, Appending, IInv, Typed, At
<1>2. CASE Written(i) = 0
  <2>1. Place(i) /\ Goto(i, "commit")
    BY <1>2 DEF Create
  <2>2. /\ loop' \in [Instances -> Loops] /\ Only(i) /\ loop'[i].at = "commit"
        /\ loop'[i].version = loop[i].version
        /\ loop'[i].entries = loop[i].entries /\ loop'[i].done = loop[i].done
        /\ loop'[i].view = loop[i].view /\ loop'[i].call = loop[i].call
        /\ loop'[i].output = loop[i].output /\ loop'[i].kind = loop[i].kind
    BY <2>1, Went DEF IInv, Places, Appending
  <2>3. /\ entry' \in [Positions -> Entries] /\ approval' \in [Calls -> Approvals]
        /\ Durable
        /\ \A s \in Positions : entry'[s].version <= run.version
        /\ \A c \in Calls : approval'[c].version <= run.version
        /\ loop[i].kind = "entry" => entry'[loop[i].entries] = NewEntry(i)
        /\ loop[i].kind = "approval" => approval'[loop[i].call] = NewApproval(i)
    BY <1>1, <1>2, <2>1, Placed
  <2>4. Typed'
    BY <1>1, <2>2, <2>3 DEF IInv, Typed
  <2>5. Counted'
    BY <1>1, <2>3, <2>4, CountedKept DEF WorkIsInHand
  <2>6. Local(i)'
    <3>1. Viewed(i)'
      BY <1>1, <2>2, <2>3, InHand DEF Local, Viewed, Durable
    <3>2. AllViewed(i) => AllViewed(i)'
      BY <2>2 DEF AllViewed
    <3>3. loop[i].call \in Calls => (Truth(loop[i].call, loop[i].output) =>
             Truth(loop[i].call, loop[i].output)')
      <4>1. \A c \in Calls : \A output : Truth(c, output) =>
               /\ output = "ok" => effect'[c] = 1
               /\ output = "denied" => c \in run'.approvals
                                       /\ approval'[c].status \in {"denied", "expired"}
        BY <2>3, TruthKept
      <4>. QED BY <2>2, <4>1 DEF Truth
    <3>4. loop[i].call \in Calls \union {Nobody}
      BY <1>1, InHand DEF Loops
    <3>. QED BY <1>1, <2>2, <3>1, <3>2, <3>3, <3>4, InHand
         DEF Local, At, ForEntry, ForApproval, Before, Deciding, Appending
  <2>7. Harmless(i)'
    BY <2>2 DEF Harmless, At
  <2>8. Holding(i)'
    <3>1. Answered(run.entries)' = Answered(run.entries)
      BY <1>1, <2>3, AnsweredKept DEF IInv
    <3>2. Holder(i)' => Holder(i)
      BY <1>1, <2>2, InHand DEF Holder, Fenced
    <3>3. Holder(i) => /\ loop[i].entries = run.entries /\ loop[i].done = Answered(run.entries)
                       /\ loop[i].kind = "approval" => Unseen(i) /\ loop[i].call \notin run.approvals
      BY <1>1, InHand DEF IInv, Mine, Holding, ForApproval
    <3>4. Unseen(i) => Unseen(i)'
      BY <1>1, <2>2 DEF Unseen
    <3>. QED BY <1>1, <2>2, <2>3, <3>1, <3>2, <3>3, <3>4
         DEF Holding, ForApproval, At, NewEntry, NewApproval
  <2>9. SameLease(i) /\ loop'[i].version <= run.version
    BY <1>1, <2>2, InHand DEF SameLease
  <2>. QED BY <1>1, <2>2, <2>3, <2>4, <2>5, <2>6, <2>7, <2>8, <2>9, Wrote DEF Mine
<1>3. CASE Written(i) # 0
  <2>1. UNCHANGED <<entry, approval>> /\ (Goto(i, "orphan") \/ Goto(i, "failed"))
    BY <1>3 DEF Create
  <2>2. Quiet /\ WorkIsInHand /\ open' \subseteq Calls
    BY <1>1, <2>1 DEF Quiet, WorkIsInHand, IInv, Typed
  <2>3. CASE Goto(i, "failed")
    BY <1>1, <2>2, <2>3, InHand, Rested DEF Resting, Terminal
  <2>4. CASE Goto(i, "orphan")
    <3>1. Viewed(i)' => Local(i)'
      <4>1. /\ loop'[i].at = "orphan" /\ loop'[i].call = loop[i].call
            /\ loop'[i].kind = loop[i].kind /\ loop'[i].entries = loop[i].entries
            /\ loop'[i].done = loop[i].done /\ loop'[i].view = loop[i].view
            /\ loop'[i].output = loop[i].output
        BY <2>4, Went DEF IInv, Places, Appending
      <4>2. UNCHANGED <<run, effect, approval>>
        BY <1>1, <2>1
      <4>. QED BY <1>1, <4>1, <4>2, InHand
           DEF Local, AllViewed, Truth, At, ForEntry, ForApproval, Before, Deciding, Appending
    <3>. QED BY <1>1, <2>2, <2>4, <3>1, InHand, WentOn DEF Places, Appending, ForApproval
  <2>. QED BY <2>1, <2>3, <2>4
<1>. QED BY <1>2, <1>3

(* The orphan that is deleted is still the one that was read, and does not count. *)
LEMMA DeleteKeeps == ASSUME IInv, NEW i \in Instances, Delete(i) PROVE IInv'
<1>1. /\ loop[i].at \in Appending /\ At(i, "delete")
      /\ run' = run /\ UNCHANGED <<effect, open>> /\ run' \in Runs /\ open' \subseteq Calls
  BY DEF Delete, Appending, IInv, Typed, At
<1>2. CASE Leave(i) /\ UNCHANGED <<entry, approval>>
  <2>1. Quiet /\ WorkIsInHand
    BY <1>1, <1>2 DEF Quiet, WorkIsInHand, IInv, Typed
  <2>. QED BY <1>1, <1>2, <2>1, LeftOff
<1>3. CASE Goto(i, "recreate") /\ Written(i) = loop[i].orphan
  <2>1. /\ loop' \in [Instances -> Loops] /\ Only(i) /\ loop'[i].at = "recreate"
        /\ loop'[i].version = loop[i].version
        /\ loop'[i].entries = loop[i].entries /\ loop'[i].done = loop[i].done
        /\ loop'[i].view = loop[i].view /\ loop'[i].call = loop[i].call
        /\ loop'[i].output = loop[i].output /\ loop'[i].kind = loop[i].kind
    BY <1>3, Went DEF IInv, Places, Appending
  <2>2. /\ loop[i].orphan \in Nat /\ loop[i].orphan > 0 /\ loop[i].orphan < run.version
        /\ run.version \in Nat /\ run.entries \in Nat /\ Positions \subseteq Nat
    <3>1. loop[i].orphan \in Nat /\ loop[i].orphan > 0 /\ loop[i].orphan < loop[i].version
      BY <1>1, InHand DEF Local, Loops
    <3>. QED BY <1>1, <3>1, InHand, RunFields, PositionsNat DEF Typed
  <2>3. /\ \A s \in Positions : entry[s].version <= run.version
        /\ \A c \in Calls : approval[c].version <= run.version
        /\ \A c \in run.approvals : approval[c].status # "none"
    BY DEF IInv, Versions, Counted
  <2>4. /\ entry' \in [Positions -> Entries] /\ approval' \in [Calls -> Approvals]
        /\ Durable
        /\ \A s \in Positions : entry'[s].version <= run.version
        /\ \A c \in Calls : approval'[c].version <= run.version
    <3>1. CASE loop[i].kind = "entry"
      <4> DEFINE e == loop[i].entries
      <4>1. e \in Positions /\ entry[e].version = loop[i].orphan /\ e >= run.entries
        BY <1>1, <1>3, <3>1, InHand DEF Written, IInv, Mine, Harmless
      <4>2. entry' = [entry EXCEPT ![e] = NoEntry] /\ approval' = approval
        BY <1>3, <3>1, <1>1, <2>1 DEF Delete, Goto
      <4>3. NoEntry \in Entries /\ NoEntry.version = 0
        BY DEF NoEntry, Entries, Outputs
      <4>4. entry' \in [Positions -> Entries] /\ entry'[e].version = 0
            /\ \A s \in Positions : s # e => entry'[s] = entry[s]
        BY <4>1, <4>2, <4>3 DEF IInv, Typed
      <4> HIDE DEF e
      <4>5. Durable
        BY <1>1, <2>2, <2>3, <4>1, <4>2, <4>4 DEF Durable
      <4>6. \A s \in Positions : entry'[s].version <= run.version
        <5>1. entry'[e].version <= run.version
          BY <2>2, <4>4
        <5>2. \A s \in Positions : s # e => entry'[s].version <= run.version
          BY <2>3, <4>4
        <5>. QED BY <5>1, <5>2
      <4>. QED BY <2>3, <4>2, <4>4, <4>5, <4>6 DEF IInv, Typed
    <3>2. CASE loop[i].kind = "approval"
      <4> DEFINE d == loop[i].call
      <4>1. d \in Calls /\ approval[d].version = loop[i].orphan /\ d \notin run.approvals
        BY <1>1, <1>3, <3>2, InHand DEF Written, IInv, Mine, Harmless
      <4>2. approval' = [approval EXCEPT ![d] = NoApproval] /\ entry' = entry
        BY <1>3, <3>2, <1>1, <2>1 DEF Delete, Goto
      <4>3. NoApproval \in Approvals /\ NoApproval.version = 0
        BY DEF NoApproval, Approvals, Statuses
      <4>4. approval' \in [Calls -> Approvals] /\ approval'[d].version = 0
            /\ \A c \in Calls : c # d => approval'[c] = approval[c]
        BY <4>1, <4>2, <4>3 DEF IInv, Typed
      <4> HIDE DEF d
      <4>5. Durable
        BY <1>1, <2>2, <2>3, <4>1, <4>2, <4>4 DEF Durable
      <4>6. \A c \in Calls : approval'[c].version <= run.version
        BY <2>2, <2>3, <4>4
      <4>. QED BY <2>3, <4>2, <4>4, <4>5, <4>6 DEF IInv, Typed
    <3>. QED BY <1>1, <3>1, <3>2, InHand
  <2>5. Typed'
    BY <1>1, <2>1, <2>4 DEF IInv, Typed
  <2>6. Counted'
    BY <1>1, <2>4, <2>5, CountedKept DEF WorkIsInHand
  <2>7. Local(i)'
    <3>1. Viewed(i)'
      BY <1>1, <2>1, <2>4, InHand DEF Local, Viewed, Durable
    <3>2. AllViewed(i) => AllViewed(i)'
      BY <2>1 DEF AllViewed
    <3>3. loop[i].call \in Calls => (Truth(loop[i].call, loop[i].output) =>
             Truth(loop[i].call, loop[i].output)')
      <4>1. \A c \in Calls : \A output : Truth(c, output) =>
               /\ output = "ok" => effect'[c] = 1
               /\ output = "denied" => c \in run'.approvals
                                       /\ approval'[c].status \in {"denied", "expired"}
        BY <2>4, TruthKept
      <4>. QED BY <2>1, <4>1 DEF Truth
    <3>4. loop[i].call \in Calls \union {Nobody}
      BY <1>1, InHand DEF Loops
    <3>. QED BY <1>1, <2>1, <3>1, <3>2, <3>3, <3>4, InHand
         DEF Local, At, ForEntry, ForApproval, Before, Deciding, Appending
  <2>8. Harmless(i)'
    BY <2>1 DEF Harmless, At
  <2>9. Holding(i)'
    <3>1. Answered(run.entries)' = Answered(run.entries)
      BY <1>1, <2>4, AnsweredKept DEF IInv
    <3>2. Holder(i)' => Holder(i)
      BY <1>1, <2>1, InHand DEF Holder, Fenced
    <3>3. Holder(i) => /\ loop[i].entries = run.entries /\ loop[i].done = Answered(run.entries)
                       /\ loop[i].kind = "approval" => Unseen(i) /\ loop[i].call \notin run.approvals
      BY <1>1, InHand DEF IInv, Mine, Holding, ForApproval
    <3>4. Unseen(i) => Unseen(i)'
      BY <1>1, <2>1 DEF Unseen
    <3>. QED BY <1>1, <2>1, <3>1, <3>2, <3>3, <3>4 DEF Holding, ForApproval, At
  <2>10. SameLease(i) /\ loop'[i].version <= run.version
    BY <1>1, <2>1, InHand DEF SameLease
  <2>. QED BY <1>1, <2>1, <2>4, <2>5, <2>6, <2>7, <2>8, <2>9, <2>10, Wrote DEF Mine
<1>. QED BY <1>1, <1>2, <1>3 DEF Delete

(* An entry counts at its holder's end of the conversation. *)
LEMMA EntryCounts ==
  ASSUME IInv, NEW i \in Instances, At(i, "commit"), loop[i].kind = "entry", Fenced(i),
         run' = [run EXCEPT !.entries = @ + 1], UNCHANGED <<entry, approval, effect, open>>
  PROVE  /\ run' \in Runs /\ run'.version = run.version /\ run'.approvals = run.approvals
         /\ run'.entries = run.entries + 1 /\ run.entries = loop[i].entries
         /\ run.entries \in Positions /\ entry[run.entries] = NewEntry(i)
         /\ Holder(i) /\ Durable /\ Counted'
<1> DEFINE n == run.entries
<1>1. loop[i].at \in Appending /\ Holder(i) /\ ~At(i, "failed")
  BY DEF At, Appending, Holder
<1>2. /\ loop[i].entries = n /\ n \in Positions /\ entry[n] = NewEntry(i)
      /\ loop[i].done = Answered(n)
  BY <1>1, InHand DEF IInv, Mine, Holding, NewEntry
<1>3. n \in Nat /\ Cardinality(Calls) \in Nat /\ Positions \subseteq Nat /\ n <= Cardinality(Calls)
      /\ run.version \in Nat /\ run \in Runs
  BY <1>2, PositionsNat, RunFields DEF Positions, IInv, Typed
<1>4. run' \in Runs /\ run'.version = run.version /\ run'.approvals = run.approvals
      /\ run'.entries = n + 1
  <2>1. n + 1 \in 0..(Cardinality(Calls) + 1)
    BY <1>3
  <2>. QED BY <1>3, <2>1 DEF Runs
<1>5. entry[n].version = run.version /\ entry[n].version > 0
  BY <1>1, <1>2, InHand DEF NewEntry, Holder, Fenced
<1> HIDE DEF n
<1>6. Durable
  <2>1. \A c \in run.approvals : approval[c].status # "none"
    BY DEF IInv, Counted
  <2>2. \A s \in Positions : s >= run.entries /\ s < run'.entries => s = n
    BY <1>3, <1>4 DEF n
  <2>3. run'.entries >= run.entries
    BY <1>3, <1>4 DEF n
  <2>. QED BY <1>3, <1>4, <1>5, <2>1, <2>2, <2>3 DEF Durable
<1>7. /\ entry[n].call = loop[i].call /\ entry[n].output = loop[i].output
      /\ loop[i].call \in Calls \union {Nobody}
      /\ loop[i].call = Nobody <=> n = 0
      /\ loop[i].call # Nobody => loop[i].call \notin Answered(n) /\ Truth(loop[i].call, loop[i].output)
  BY <1>1, <1>2, <1>3, InHand DEF NewEntry, Local, ForEntry, Loops
<1>8. \A s \in Positions : s < run'.entries => s < n \/ s = n
  BY <1>3, <1>4
<1>9. Counted'
  <2>1. \A s \in Positions : s < run'.entries =>
          entry'[s].version > 0 /\ (entry'[s].call = Nobody <=> s = 0)
    BY <1>5, <1>7, <1>8 DEF IInv, Counted, n
  <2>2. \A s, t \in Positions \ {0} :
          s < run'.entries /\ t < run'.entries /\ entry'[s].call = entry'[t].call => s = t
    <3>1. \A s \in Positions \ {0} : s < n => s \in 1..(n - 1) /\ entry[s].call \in Answered(n)
      BY <1>3 DEF Answered
    <3>2. \A s \in Positions \ {0} : s < n => n # 0
      BY <1>3
    <3>3. \A s \in Positions \ {0} : s < n => entry[s].call # entry[n].call
      BY <1>7, <3>1, <3>2
    <3>. QED BY <1>8, <3>3 DEF IInv, Counted, n
  <2>3. \A s \in Positions \ {0} : s < run'.entries => Truth(entry[s].call, entry[s].output)'
    <3>1. \A s \in Positions \ {0} : s < run'.entries => Truth(entry[s].call, entry[s].output)
      BY <1>7, <1>8 DEF IInv, Counted, n
    <3>. QED BY <1>4, <3>1 DEF Truth
  <2>4. \A c \in run'.approvals : approval'[c].version > 0 /\ approval'[c].status # "none"
    BY <1>4 DEF IInv, Counted
  <2>5. \A c \in Calls : effect'[c] > 0 \/ c \in open' =>
          c \in run'.approvals /\ approval'[c].status = "approved"
    BY <1>4 DEF IInv, Counted
  <2>. QED BY <2>1, <2>2, <2>3, <2>4, <2>5 DEF Counted
<1>. QED BY <1>1, <1>2, <1>4, <1>6, <1>9 DEF n

LEMMA CommitEntryKeeps == ASSUME IInv, NEW i \in Instances, CommitEntry(i) PROVE IInv'
<1>1. /\ At(i, "commit") /\ loop[i].at \in Appending /\ loop[i].kind = "entry"
      /\ UNCHANGED <<entry, approval, effect, open>>
  BY DEF CommitEntry, At, Appending
<1>2. CASE Leave(i) /\ run' = run
  <2>1. run' \in Runs /\ open' \subseteq Calls /\ Quiet /\ WorkIsInHand
    BY <1>1, <1>2 DEF IInv, Typed, Quiet, WorkIsInHand
  <2>. QED BY <1>2, <2>1, LeftOff
<1>3. CASE ~(Leave(i) /\ run' = run)
  <2> DEFINE more == loop[i].call # Nobody
             place == IF more THEN "next" ELSE "renew"
             done == loop[i].done \union ({loop[i].call} \ {Nobody})
             l == [loop[i] EXCEPT !.entries = @ + 1, !.done = done, !.call = Nobody,
                                  !.output = "none", !.orphan = 0, !.at = place]
  <2>1. Fenced(i) /\ run' = [run EXCEPT !.entries = @ + 1]
    BY <1>3 DEF CommitEntry
  <2>2. /\ run' \in Runs /\ run'.version = run.version /\ run'.approvals = run.approvals
        /\ run'.entries = run.entries + 1 /\ run.entries = loop[i].entries
        /\ run.entries \in Positions /\ entry[run.entries] = NewEntry(i)
        /\ Holder(i) /\ Durable /\ Counted'
    BY <1>1, <2>1, EntryCounts
  <2>3. /\ loop[i] \in Loops /\ Local(i) /\ loop[i].entries \in Nat
        /\ loop[i].done = Answered(run.entries) /\ loop[i].call \in Calls \union {Nobody}
        /\ Typed
    BY <1>1, <2>2, InHand DEF Loops, IInv, Mine, Holding, At
  <2>4. /\ l \in Loops /\ l.at = place /\ l.entries = loop[i].entries + 1
        /\ l.done = done /\ l.view = loop[i].view
        /\ l.call = Nobody /\ l.output = "none" /\ l.kind = "entry" /\ l.version = loop[i].version
    <3>1. done \in SUBSET Calls
      BY <2>3 DEF Loops
    <3>2. place \in Places
      BY DEF Places, Before
    <3>3. loop[i].entries + 1 \in Nat
      BY <2>3
    <3> HIDE DEF place, done
    <3>. QED BY <1>1, <2>3, <3>1, <3>2, <3>3 DEF Loops, Outputs
  <2>5. loop' = [loop EXCEPT ![i] = l]
    <3>1. loop' = [loop EXCEPT
               ![i].entries = @ + 1, ![i].done = @ \union ({loop[i].call} \ {Nobody}),
               ![i].call = Nobody, ![i].output = "none", ![i].orphan = 0,
               ![i].at = IF loop[i].call = Nobody THEN "renew" ELSE "next"]
      BY <1>3 DEF CommitEntry
    <3>. QED BY <2>3, <3>1 DEF Loops
  <2> HIDE DEF l
  <2>6. loop' \in [Instances -> Loops] /\ loop'[i] = l /\ Only(i)
    BY <2>3, <2>4, <2>5 DEF Typed, Only
  <2>7. Typed'
    BY <1>1, <2>2, <2>3, <2>6 DEF Typed
  <2>8. Answered(run.entries)' = loop'[i].done
    <3>1. run.entries \in Nat /\ Positions \subseteq Nat
      BY <2>2, PositionsNat
    <3>2. CASE more
      <4>1. run.entries > 0
        BY <1>1, <2>2, <3>2 DEF IInv, Mine, Local, ForEntry
      <4>2. 1..(run'.entries - 1) = (1..(run.entries - 1)) \union {run.entries}
        BY <2>2, <3>1, <4>1
      <4>3. entry[run.entries].call = loop[i].call
        BY <2>2 DEF NewEntry
      <4>4. Answered(run.entries)' = Answered(run.entries) \union {loop[i].call}
        BY <1>1, <4>2, <4>3 DEF Answered
      <4>. QED BY <2>3, <2>4, <2>6, <3>2, <4>4
    <3>3. CASE ~more
      <4>1. run.entries = 0
        BY <1>1, <2>2, <3>3 DEF IInv, Mine, Local, ForEntry
      <4>2. 1..(run'.entries - 1) = {} /\ 1..(run.entries - 1) = {}
        BY <2>2, <4>1
      <4>3. Answered(run.entries)' = {} /\ Answered(run.entries) = {}
        BY <4>2 DEF Answered
      <4>. QED BY <2>3, <2>4, <2>6, <3>3, <4>3
    <3>. QED BY <3>2, <3>3
  <2>9. Mine(i)'
    <3>1. Viewed(i)'
      BY <2>2, <2>3, <2>4, <2>6 DEF Local, Viewed, Durable
    <3>2. more => AllViewed(i)'
      BY <1>1, <2>3, <2>4, <2>6 DEF Local, ForEntry, AllViewed
    <3>3. loop'[i].entries > 0
      BY <2>3, <2>4, <2>6
    <3>4. loop'[i].at \in {"next", "renew"} /\ (loop'[i].at = "next" => more)
      BY <2>4, <2>6
    <3> HIDE DEF more
    <3>5. Local(i)'
      BY <2>4, <2>6, <3>1, <3>2, <3>3, <3>4
         DEF Local, At, ForEntry, ForApproval, Before, Deciding, Appending
    <3>6. Harmless(i)'
      BY <3>4 DEF Harmless, At
    <3>7. Holding(i)'
      BY <2>2, <2>4, <2>6, <2>8, <3>4 DEF Holding, At, ForApproval, Appending
    <3>. QED BY <3>5, <3>6, <3>7 DEF Mine
  <2>10. SameLease(i) /\ loop'[i].version <= run.version
    BY <1>1, <2>4, <2>6, InHand DEF SameLease
  <2>11. /\ \A s \in Positions : entry'[s].version <= run.version
         /\ \A c \in Calls : approval'[c].version <= run.version
    BY <1>1 DEF IInv, Versions
  <2>. QED BY <2>2, <2>6, <2>7, <2>9, <2>10, <2>11, Wrote
<1>. QED BY <1>2, <1>3

(* An approval counts. *)
LEMMA ApprovalCounts ==
  ASSUME IInv, NEW i \in Instances, At(i, "commit"), loop[i].kind = "approval", Fenced(i),
         run' = [run EXCEPT !.approvals = @ \union {loop[i].call}],
         UNCHANGED <<entry, approval, effect, open>>
  PROVE  /\ run' \in Runs /\ run'.version = run.version /\ run'.entries = run.entries
         /\ run'.approvals = run.approvals \union {loop[i].call}
         /\ loop[i].call \in Calls /\ loop[i].call \notin run.approvals
         /\ approval[loop[i].call] = NewApproval(i)
         /\ Holder(i) /\ Unseen(i) /\ Durable /\ Counted'
<1> DEFINE d == loop[i].call
<1>1. loop[i].at \in Appending /\ Holder(i) /\ ~At(i, "failed") /\ d \in Calls
  BY InHand DEF At, Appending, Holder
<1>2. Unseen(i) /\ d \notin run.approvals /\ approval[d] = NewApproval(i)
  BY <1>1 DEF IInv, Mine, Holding, ForApproval, NewApproval
<1>3. /\ run' \in Runs /\ run'.version = run.version /\ run'.entries = run.entries
      /\ run'.approvals = run.approvals \union {d} /\ run.version \in Nat /\ run.entries \in Nat
      /\ Positions \subseteq Nat
  <2>1. run \in Runs /\ run.approvals \union {d} \in SUBSET Calls
    BY <1>1 DEF IInv, Typed, Runs
  <2>2. run.version \in Nat /\ run.entries \in Nat /\ Positions \subseteq Nat
    BY <2>1, RunFields, PositionsNat
  <2>. QED BY <2>1, <2>2 DEF Runs
<1>4. approval[d].version = run.version /\ approval[d].version > 0 /\ approval[d].status # "none"
  BY <1>1, <1>2, InHand DEF NewApproval, Fenced
<1> HIDE DEF d
<1>5. Durable
  <2>1. \A c \in run.approvals : approval[c].status # "none"
    BY DEF IInv, Counted
  <2>. QED BY <1>3, <1>4, <2>1 DEF Durable
<1>6. Counted'
  <2>1. \A c \in run'.approvals : approval'[c].version > 0 /\ approval'[c].status # "none"
    BY <1>3, <1>4 DEF IInv, Counted
  <2>2. \A s \in Positions \ {0} : s < run.entries => Truth(entry[s].call, entry[s].output)'
    BY <1>3 DEF IInv, Counted, Truth
  <2>. QED BY <1>3, <2>1, <2>2 DEF IInv, Counted
<1>. QED BY <1>1, <1>2, <1>3, <1>5, <1>6 DEF d

LEMMA CommitApprovalKeeps == ASSUME IInv, NEW i \in Instances, CommitApproval(i) PROVE IInv'
<1>1. /\ At(i, "commit") /\ loop[i].at \in Appending /\ loop[i].kind = "approval"
      /\ UNCHANGED <<entry, approval, effect, open>>
  BY DEF CommitApproval, At, Appending
<1>2. CASE Leave(i) /\ run' = run
  <2>1. run' \in Runs /\ open' \subseteq Calls /\ Quiet /\ WorkIsInHand
    BY <1>1, <1>2 DEF IInv, Typed, Quiet, WorkIsInHand
  <2>. QED BY <1>2, <2>1, LeftOff
<1>3. CASE ~(Leave(i) /\ run' = run)
  <2> DEFINE status == IF loop[i].call \in Asking THEN "pending" ELSE "approved"
             view == [loop[i].view EXCEPT ![loop[i].call] = status]
             l == [loop[i] EXCEPT !.at = "prepare", !.kind = "entry", !.call = Nobody,
                                  !.orphan = 0, !.view = view]
  <2>1. /\ Fenced(i) /\ run' = [run EXCEPT !.approvals = @ \union {loop[i].call}]
        /\ loop' = [loop EXCEPT
               ![i].at = "prepare", ![i].kind = "entry", ![i].call = Nobody, ![i].orphan = 0,
               ![i].view[loop[i].call] = status]
    BY <1>3 DEF CommitApproval
  <2>2. /\ run' \in Runs /\ run'.version = run.version /\ run'.entries = run.entries
        /\ run'.approvals = run.approvals \union {loop[i].call}
        /\ loop[i].call \in Calls /\ loop[i].call \notin run.approvals
        /\ approval[loop[i].call] = NewApproval(i)
        /\ Holder(i) /\ Unseen(i) /\ Durable /\ Counted'
    BY <1>1, <2>1, ApprovalCounts
  <2>3. /\ loop[i] \in Loops /\ Local(i) /\ Viewed(i) /\ loop[i].output = "none"
        /\ loop[i].entries > 0 /\ loop[i].entries = run.entries
        /\ loop[i].done = Answered(run.entries) /\ Typed
    BY <1>1, <2>2, InHand DEF IInv, Mine, Holding, Local, ForApproval, At
  <2>4. /\ view \in [Calls -> Statuses] /\ view[loop[i].call] = status /\ status # "none"
        /\ \A c \in Calls : c # loop[i].call => view[c] = loop[i].view[c]
    BY <2>2, <2>3 DEF Loops, Statuses
  <2>5. loop' = [loop EXCEPT ![i] = l]
    BY <2>1, <2>3 DEF Loops
  <2> HIDE DEF view
  <2>6. /\ l \in Loops /\ l.at = "prepare" /\ l.entries = loop[i].entries /\ l.done = loop[i].done
        /\ l.view = view /\ l.call = Nobody /\ l.output = "none" /\ l.kind = "entry"
        /\ l.version = loop[i].version
    BY <2>3, <2>4 DEF Loops, Places, Before
  <2> HIDE DEF l
  <2>7. loop' \in [Instances -> Loops] /\ loop'[i] = l /\ Only(i)
    BY <2>3, <2>5, <2>6 DEF Typed, Only
  <2>8. Typed'
    BY <1>1, <2>2, <2>3, <2>7 DEF Typed
  <2>9. Viewed(i)' /\ Unseen(i)'
    <3>1. approval[loop[i].call].status = status
      BY <2>2 DEF NewApproval
    <3>2. ASSUME NEW c \in Calls
          PROVE  /\ view[c] # "none" => c \in run'.approvals
                       /\ (view[c] # "pending" => approval'[c].status = view[c])
                 /\ view[c] = "none" => c \notin run'.approvals
      <4>1. CASE c = loop[i].call
        BY <1>1, <2>2, <2>4, <3>1, <4>1
      <4>2. CASE c # loop[i].call
        BY <1>1, <2>2, <2>3, <2>4, <4>2 DEF Viewed, Unseen
      <4>. QED BY <4>1, <4>2
    <3>. QED BY <2>6, <2>7, <3>2 DEF Viewed, Unseen
  <2>10. Mine(i)'
    <3>1. Local(i)'
      BY <2>3, <2>6, <2>7, <2>9 DEF Local, At, ForEntry, ForApproval, Before, Deciding, Appending
    <3>2. Answered(run.entries)' = Answered(run.entries)
      BY <1>1, <2>2 DEF Answered
    <3>3. Harmless(i)' /\ Holding(i)'
      BY <2>2, <2>3, <2>6, <2>7, <2>9, <3>2 DEF Harmless, Holding, At, ForApproval, Appending
    <3>. QED BY <3>1, <3>3 DEF Mine
  <2>11. SameLease(i) /\ loop'[i].version <= run.version
    BY <1>1, <2>6, <2>7, InHand DEF SameLease
  <2>12. /\ \A s \in Positions : entry'[s].version <= run.version
         /\ \A c \in Calls : approval'[c].version <= run.version
    BY <1>1 DEF IInv, Versions
  <2>. QED BY <2>2, <2>7, <2>8, <2>10, <2>11, <2>12, Wrote
<1>. QED BY <1>2, <1>3

LEMMA StoreFailsKeeps == ASSUME IInv, NEW i \in Instances, StoreFails(i) PROVE IInv'
<1>1. /\ Typed /\ Goto(i, "failed") /\ ~At(i, "idle") /\ ~At(i, "failed")
      /\ UNCHANGED <<effect, open>>
  BY DEF StoreFails, IInv, At
<1>2. /\ \A s \in Positions : entry[s].version <= run.version
      /\ \A c \in Calls : approval[c].version <= run.version
  BY DEF IInv, Versions
<1>3. CASE SameRun(run') /\ UNCHANGED <<entry, approval>>
  <2>1. run' \in Runs /\ open' \subseteq Calls /\ Quiet /\ WorkIsInHand
    BY <1>1, <1>3 DEF SameRun, Quiet, WorkIsInHand, Typed
  <2>. QED BY <1>1, <2>1, Rested DEF Resting, Terminal
<1>4. CASE loop[i].at \in {"create", "recreate"} /\ Written(i) = 0 /\ Place(i) /\ UNCHANGED run
  <2>1. /\ entry' \in [Positions -> Entries] /\ approval' \in [Calls -> Approvals]
        /\ Durable
        /\ \A s \in Positions : entry'[s].version <= run.version
        /\ \A c \in Calls : approval'[c].version <= run.version
    BY <1>1, <1>4, Placed
  <2>2. Typed'
    BY <1>1, <1>4, <2>1, Went DEF Typed, Places, Terminal
  <2>3. Counted'
    BY <1>1, <1>4, <2>1, <2>2, CountedKept DEF WorkIsInHand
  <2>. QED BY <1>1, <1>4, <2>1, <2>3, WroteAndFailed DEF Typed
<1>5. CASE /\ At(i, "commit") /\ Fenced(i) /\ loop[i].kind = "approval"
           /\ run' = [run EXCEPT !.approvals = @ \union {loop[i].call}]
           /\ UNCHANGED <<entry, approval>>
  <2>1. run' \in Runs /\ run'.version = run.version /\ Holder(i) /\ Durable /\ Counted'
    BY <1>1, <1>5, ApprovalCounts
  <2>. QED BY <1>1, <1>2, <1>5, <2>1, WroteAndFailed DEF Typed
<1>6. CASE /\ At(i, "commit") /\ Fenced(i) /\ loop[i].kind = "entry"
           /\ run' = [run EXCEPT !.entries = @ + 1]
           /\ UNCHANGED <<entry, approval>>
  <2>1. run' \in Runs /\ run'.version = run.version /\ Holder(i) /\ Durable /\ Counted'
    BY <1>1, <1>6, EntryCounts
  <2>. QED BY <1>1, <1>2, <1>6, <2>1, WroteAndFailed DEF Typed
<1>7. /\ SameRun(run)
      /\ SameRun([run EXCEPT !.status = "waiting", !.owner = Nobody, !.lapsed = FALSE])
  BY <1>1, SameRuns
<1>8. loop[i].kind \in {"entry", "approval"} /\ run \in Runs
  BY <1>1 DEF Typed, Loops
<1>9. SameRun([run EXCEPT !.entries = IF @ = loop[i].entries THEN @ + 1 ELSE @])
      \/ run.entries = loop[i].entries
  BY <1>8 DEF SameRun, Runs
<1>10. run.entries = loop[i].entries =>
         [run EXCEPT !.entries = IF @ = loop[i].entries THEN @ + 1 ELSE @]
           = [run EXCEPT !.entries = @ + 1]
  BY <1>8 DEF Runs
<1>. QED BY <1>3, <1>4, <1>5, <1>6, <1>7, <1>8, <1>9, <1>10 DEF StoreFails

-----------------------------------------------------------------------------
LEMMA InitIInv == Init => IInv
<1> SUFFICES ASSUME Init PROVE IInv
  OBVIOUS
<1> USE DEF Init
<1>1. run \in Runs /\ run.entries = 0 /\ run.approvals = {}
  BY LimitAssumption, PositionsNat DEF Runs
<1>2. NoEntry \in Entries /\ NoApproval \in Approvals
  BY DEF NoEntry, NoApproval, Entries, Approvals, Outputs, Statuses
<1>3. Typed
  BY <1>1, <1>2, IdleTyped DEF Typed
<1>4. Versions
  BY DEF Versions, NoEntry, NoApproval, Idle, At
<1>5. Counted
  BY <1>1, PositionsNat DEF Counted
<1>6. ASSUME NEW i \in Instances PROVE Mine(i)
  <2>1. loop[i].at = "idle" /\ \A c \in Calls : loop[i].view[c] = "none"
    BY <1>6 DEF Idle
  <2>. QED BY <2>1 DEF Mine, Local, Viewed, Harmless, Holding, Holder, Before, Deciding, Appending,
                      ForEntry, ForApproval, At
<1>. QED BY <1>3, <1>4, <1>5, <1>6 DEF IInv

LEMMA LoopKeeps == ASSUME IInv, NEW i \in Instances, Loop(i) PROVE IInv'
<1>1. CASE Renew(i) \/ Model(i) \/ Read(i) \/ Prepare(i) \/ NextCall(i)
  BY <1>1, RenewKeeps, ModelKeeps, ReadKeeps, PrepareKeeps, NextCallKeeps
<1>2. CASE Tool(i) \/ ToolAnswers(i) \/ ToolConflicts(i) \/ CountTimeout(i) \/ Aborted(i)
  BY <1>2, ToolKeeps, ToolAnswersKeeps, ToolConflictsKeeps, CountTimeoutKeeps, AbortedKeeps
<1>3. CASE Append(i)
  BY <1>3, HoldKeeps, CreateKeeps, OrphanKeeps, DeleteKeeps, CommitEntryKeeps, CommitApprovalKeeps
     DEF Append
<1>4. CASE Park(i) \/ Check(i) \/ Rouse(i) \/ End(i)
  BY <1>4, ParkKeeps, CheckKeeps, RouseKeeps, EndKeeps
<1>. QED BY <1>1, <1>2, <1>3, <1>4 DEF Loop

LEMMA NextIInv == IInv /\ [Next]_vars => IInv'
<1> SUFFICES ASSUME IInv, [Next]_vars PROVE IInv'
  OBVIOUS
<1>1. CASE Sweep
  BY <1>1, ClaimKeeps, WakeKeeps DEF Sweep
<1>2. CASE Cancel
  BY <1>2, CancelKeeps
<1>3. CASE Lapse
  BY <1>3, LapseKeeps
<1>4. ASSUME NEW i \in Instances,
             Loop(i) \/ Beat(i) \/ ToolErrors(i) \/ ToolTimesOut(i) \/ Crash(i) \/ StoreFails(i)
      PROVE  IInv'
  BY <1>4, LoopKeeps, BeatKeeps, ToolErrorsKeeps, ToolTimesOutKeeps, CrashKeeps, StoreFailsKeeps
<1>5. ASSUME NEW c \in Calls, Settle(c) PROVE IInv'
  BY <1>5, OpenEndsKeeps, DecideKeeps, LogKeeps, ReleaseKeeps DEF Settle
<1>6. ASSUME NEW a \in Calls \union {Canceller}, WakeAfter(a) \/ Stops(a) PROVE IInv'
  <2>1. CASE Stops(a)
    BY <2>1, RestKeeps DEF Stops
  <2>. QED BY <1>6, <2>1, WakeAfterKeeps
<1>7. CASE UNCHANGED vars
  BY <1>7, RestKeeps DEF vars
<1>. QED BY <1>1, <1>2, <1>3, <1>4, <1>5, <1>6, <1>7 DEF Next

LEMMA IInvTypeOK == IInv => TypeOK
<1> SUFFICES ASSUME IInv PROVE TypeOK
  OBVIOUS
<1>1. run \in Runs /\ open \subseteq Calls /\ run.approvals \subseteq Calls
  BY RunFields DEF IInv, Typed
<1>2. \A s \in 0..(run.entries - 1) : s \in Positions /\ s < run.entries
  BY <1>1, PositionsNat DEF Runs, Positions
<1>3. \A i \in Instances : ~At(i, "idle") /\ Fenced(i) /\ ~At(i, "failed") =>
        loop[i].entries = run.entries /\ loop[i].done = Answered(run.entries)
  BY DEF IInv, Mine, Holding, Holder
<1>4. /\ \A s \in 0..(run.entries - 1) : entry[s].version > 0 /\ (entry[s].call = Nobody <=> s = 0)
      /\ \A c \in run.approvals : approval[c].version > 0
  BY <1>1, <1>2 DEF IInv, Counted
<1>. QED BY <1>1, <1>3, <1>4 DEF TypeOK, Runs, IInv, Versions

LEMMA IInvAnswersTrue == IInv => AnswersTrue
<1> SUFFICES ASSUME IInv PROVE AnswersTrue
  OBVIOUS
<1>1. \A s \in 1..(run.entries - 1) : s \in Positions \ {0} /\ s < run.entries
  BY PositionsNat DEF IInv, Typed, Runs, Positions
<1>2. \A s, t \in 1..(run.entries - 1) : entry[s].call = entry[t].call => s = t
  BY <1>1 DEF IInv, Counted
<1>3. \A s \in 1..(run.entries - 1) :
        /\ entry[s].output = "ok" => effect[entry[s].call] = 1
        /\ entry[s].output = "denied" => approval[entry[s].call].status \in {"denied", "expired"}
  BY <1>1 DEF IInv, Counted, Truth
<1>4. \A c \in Calls : effect[c] > 0 \/ c \in open =>
        effect[c] <= 1 /\ c \in run.approvals /\ approval[c].status = "approved"
  BY DEF IInv, Counted, Typed
<1>. QED BY <1>2, <1>3, <1>4 DEF AnswersTrue

(* The entries and the approvals that count are in place, and the holder of the *)
(* lease knows just those (agent-runs-plugin's lease over the run store).       *)
THEOREM AgentRunsTypeOK == Spec => []TypeOK
BY InitIInv, NextIInv, IInvTypeOK, PTL DEF Spec

(* No call has two results in the conversation, a success is of work committed *)
(* once, and no refused or unapproved call did any work, for every number of   *)
(* instances and calls and whatever crashes, expiries and races of deciders.   *)
THEOREM AgentRunsAnswersTrue == Spec => []AnswersTrue
BY InitIInv, NextIInv, IInvAnswersTrue, PTL DEF Spec
=============================================================================
