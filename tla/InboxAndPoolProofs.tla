------------------------- MODULE InboxAndPoolProofs -------------------------
(***************************************************************************)
(* Two components that share no name and no state, in one module.          *)
(*                                                                         *)
(* The inbox implements its contract and parks no message early, whatever  *)
(* the number of copies, the limits and the bounds on faults.              *)
(*                                                                         *)
(* The pools and the budget of WorkerPool between two handlers, for any    *)
(* number of pools and tasks, any caps and any budget: the count of the    *)
(* budget, the place of each task, and who stands in line.                 *)
(*                                                                         *)
(* A handler of a pool runs to its end before another begins, but while it *)
(* pumps one pool it retires and grants in others, so the invariant        *)
(* (Resting) does not hold inside it.  Loose says what does, except for    *)
(* the pools that are being worked on; the loops of pump, reclaim and      *)
(* shutdown are taken step by step through such states (Follows, Iterates).*)
(***************************************************************************)
EXTENDS Inbox, WorkerPool, SequenceTheorems, FiniteSetTheorems, TLAPS

(* The type invariant in parts: flags, places, sets and numbers. *)
FlagsOK == eager \in BOOLEAN /\ clearing \in BOOLEAN
PlacesOK ==
  /\ marker \in {"none", "processed", "parked", "discarded"}
  /\ pc \in [Copies -> Ended \union Counting \union Parking \union
                       {"begin", "handler", "reread", "exists"}]
SetsOK ==
  /\ aged \subseteq Copies \union {"marker", "count"}
  /\ doomed \subseteq {"marker", "count"} /\ late \subseteq Late
NumbersOK ==
  /\ count \in Nat
  /\ seen \in [Copies -> Nat] /\ rounds \in [Copies -> 0..(Rounds - 1)]
  /\ effects \in Nat /\ failures \in 0..MaxAttempts
  /\ faults \in Nat /\ releases \in Nat /\ passes \in Nat
Parts == FlagsOK /\ PlacesOK /\ SetsOK /\ NumbersOK

LEMMA TypeParts == InboxTypeOK <=> Parts
  BY DEF InboxTypeOK, Parts, FlagsOK, PlacesOK, SetsOK, NumbersOK

LEMMA Limits ==
  /\ MaxAttempts \in Nat /\ MaxFaults \in Nat /\ MaxReleases \in Nat /\ MaxPasses \in Nat
  /\ Rounds \in Nat /\ Rounds > 0
  BY LimitAssumption

CopyStep(d) == Deliver(d) \/ Handles(d) \/ Conflict(d) \/ RereadFails(d) \/ Abandon(d)
OtherStep ==
  \/ \E c \in late : LateWrite(c)
  \/ Release \/ ClearCount \/ ReleaseFails \/ RetentionPasses
  \/ \E x \in {"marker", "count"} : PurgeReads(x) \/ PurgeDeletes(x)

LEMMA InitParts == InboxInit => Parts
<1> USE DEF InboxInit
<1>1. InboxInit => FlagsOK
  BY DEF FlagsOK
<1>2. InboxInit => PlacesOK
  BY DEF PlacesOK, Ended
<1>3. InboxInit => SetsOK
  BY DEF SetsOK
<1>4. InboxInit => NumbersOK
  BY Limits DEF NumbersOK
<1>. QED BY <1>1, <1>2, <1>3, <1>4 DEF Parts

(* A copy moves alone, and counts in bounds. *)
LEMMA CopyParts ==
  ASSUME Parts, NEW d \in Copies, CopyStep(d)
  PROVE  Parts'
<1> USE DEF Parts, CopyStep, Handles
<1>1. FlagsOK'
  BY DEF FlagsOK, Deliver, Begin, HandlerFails, Commit, Reread, Count, Record, Recount, Park,
         ParkExists, Conflict, RereadFails, Abandon, RolledBack
<1>2. PlacesOK'
  BY DEF PlacesOK, Ended, Counting, Parking, Goto, Deliver, Begin, HandlerFails, Commit, Reread,
         Count, Record, Recount, Park, ParkExists, Conflict, RereadFails, Abandon, RolledBack,
         Rejected, Unmarked
<1>3. SetsOK'
  <2>1. InFlight(d) \subseteq Late
    <3> DEFINE first == pc[d] = "count" \/ (pc[d] = "record" /\ seen[d] = 0)
    <3>1. first \in BOOLEAN
      OBVIOUS
    <3> HIDE DEF first
    <3>2. [op |-> "record", copy |-> d, creates |-> first] \in Late
      BY <3>1 DEF Late
    <3>3. [op |-> "park", copy |-> d, creates |-> TRUE] \in Late
      BY DEF Late
    <3>. QED BY <3>2, <3>3 DEF InFlight, first
  <2> USE DEF SetsOK, Fresh
  <2>2. CASE Commit(d)
    <3>1. aged' \subseteq aged \union {"marker"} /\ UNCHANGED <<doomed, late>>
      BY <2>2 DEF Commit, RolledBack
    <3>. QED BY <3>1
  <2>3. CASE Abandon(d)
    BY <2>1, <2>3 DEF Abandon
  <2>4. CASE Begin(d) \/ HandlerFails(d) \/ Conflict(d)
    BY <2>4 DEF Begin, HandlerFails, Conflict, RolledBack
  <2>5. CASE Record(d) \/ Park(d)
    BY <2>5 DEF Record, Park
  <2>. QED
    BY <2>2, <2>3, <2>4, <2>5 DEF Deliver, Reread, Count, Recount, ParkExists, RereadFails
<1>4. NumbersOK'
  BY Limits DEF NumbersOK, Read, Fault, Deliver, Begin, HandlerFails, Commit, Reread, Count,
         Record, Recount, Park, ParkExists, Conflict, RereadFails, Abandon, RolledBack, Rejected,
         Incremented, MayRetry
<1>. QED BY <1>1, <1>2, <1>3, <1>4

LEMMA OtherParts ==
  ASSUME Parts, OtherStep
  PROVE  Parts'
<1> USE DEF Parts, OtherStep
<1>1. FlagsOK'
  BY DEF FlagsOK, LateWrite, Release, ClearCount, ReleaseFails, RetentionPasses, PurgeReads,
         PurgeDeletes
<1>2. PlacesOK'
  BY DEF PlacesOK, LateWrite, LateRecord, LatePark, Release, ClearCount, ReleaseFails,
         RetentionPasses, PurgeReads, PurgeDeletes
<1>3. SetsOK'
  BY DEF SetsOK, Fresh, Rows, LateWrite, LateRecord, LatePark, Release, ClearCount, ReleaseFails,
         RetentionPasses, PurgeReads, PurgeDeletes
<1>4. NumbersOK'
  BY DEF NumbersOK, Fault, LateWrite, LateRecord, LatePark, Release, ClearCount, ReleaseFails,
         RetentionPasses, PurgeReads, PurgeDeletes, Incremented
<1>. QED BY <1>1, <1>2, <1>3, <1>4

LEMMA StutterParts == Parts /\ UNCHANGED vars => Parts'
  BY DEF vars, Parts, FlagsOK, PlacesOK, SetsOK, NumbersOK

LEMMA NextSplit == InboxNext => OtherStep \/ \E d \in Copies : CopyStep(d)
  BY DEF InboxNext, OtherStep, CopyStep

(* Types, and a count is tried again no more than the configured number of times. *)
THEOREM InboxTypeCorrect == InboxSpec => []InboxTypeOK
<1>1. Parts /\ [InboxNext]_vars => Parts'
  BY NextSplit, CopyParts, OtherParts, StutterParts
<1>. QED BY <1>1, InitParts, TypeParts, PTL DEF InboxSpec
-----------------------------------------------------------------------------
(* The refinement: the answer of a copy changes when its delivery begins or ends. *)
AnswerBar == [d \in Copies |-> Answer(pc[d])]

LEMMA Told ==
  ASSUME InboxTypeOK, NEW d \in Copies, NEW at, Goto(d, at)
  PROVE  /\ AnswerBar' = [AnswerBar EXCEPT ![d] = Answer(at)]
         /\ Answer(at) = Answer(pc[d]) => AnswerBar' = AnswerBar
  BY DEF InboxTypeOK, Goto, AnswerBar, Answer

LEMMA Running ==
  ASSUME NEW at, at \notin Ended PROVE Answer(at) = "running"
  BY DEF Answer

(* A step of a copy begins it, ends it, commits its work, parks it or is inner. *)
LEMMA CopySimulated ==
  ASSUME InboxTypeOK, NEW d \in Copies, CopyStep(d)
  PROVE  [Contract!Next]_(Contract!vars)
<1> USE DEF Contract!vars, AnswerBar
<1> DEFINE Inner == marker' = marker /\ effects' = effects /\ AnswerBar' = AnswerBar
           Tells(a) == /\ marker' = marker /\ effects' = effects
                       /\ AnswerBar' = [AnswerBar EXCEPT ![d] = a]
<1>1. Inner => UNCHANGED Contract!vars
  OBVIOUS
<1>2. Tells("running") \/ Tells("rejected") \/ (marker # "none" /\ Tells("acked"))
        => Contract!Next
  BY DEF Contract!Next, Contract!Deliver, Contract!Reject, Contract!Ack, Contract!Tell
<1> HIDE DEF AnswerBar
<1>3. \A at : Goto(d, at) => AnswerBar' = [AnswerBar EXCEPT ![d] = Answer(at)]
  BY Told
<1>4. \A at : Goto(d, at) /\ at \notin Ended /\ pc[d] \notin Ended => AnswerBar' = AnswerBar
  BY Told, Running
<1>5. /\ Answer("acked") = "acked" /\ Answer("rejected") = "rejected"
      /\ \A at : at \notin Ended => Answer(at) = "running"
  BY DEF Answer, Ended
<1>6. CASE Deliver(d)
  <2>1. CASE marker # "none"
    BY <1>6, <2>1, <1>2, <1>3, <1>5 DEF Deliver
  <2>2. CASE marker = "none"
    <3>1. PICK at \in {"begin", "handler", "unparsed", "rejected"} : Goto(d, at)
      BY <1>6, <2>2 DEF Deliver
    <3>2. Tells(Answer(at))
      BY <1>6, <1>3, <3>1 DEF Deliver
    <3>3. Answer(at) \in {"running", "rejected"}
      BY <1>5, <3>1 DEF Ended
    <3>. QED BY <1>2, <3>2, <3>3
  <2>. QED BY <2>1, <2>2
<1>7. CASE Begin(d) \/ HandlerFails(d) \/ Conflict(d)
  <2>1. PICK at \in {"reread", "handler"} : Goto(d, at)
    BY <1>7 DEF Begin, HandlerFails, Conflict, RolledBack, Rejected
  <2>2. pc[d] \notin Ended /\ at \notin Ended
    BY <1>7, <2>1 DEF Begin, HandlerFails, Conflict, Ended
  <2>. QED BY <1>1, <1>4, <1>7, <2>1, <2>2
         DEF Begin, HandlerFails, Conflict, RolledBack, Rejected
<1>8. CASE Commit(d)
  <2>1. pc[d] \notin Ended
    BY <1>8 DEF Commit, Ended
  <2>2. CASE marker # "none"
    BY <1>1, <1>4, <1>8, <2>1, <2>2 DEF Commit, RolledBack, Rejected, Ended
  <2>3. CASE marker = "none"
    <3>1. PICK at \in {"acked", "rejected", "reread"} : Goto(d, at)
      BY <1>8, <2>3 DEF Commit, Rejected
    <3>2. AnswerBar' = AnswerBar \/ AnswerBar' = [AnswerBar EXCEPT ![d] = "acked"]
                                 \/ AnswerBar' = [AnswerBar EXCEPT ![d] = "rejected"]
      BY <1>3, <1>4, <1>5, <2>1, <3>1 DEF Ended
    <3>3. marker' = "processed" /\ effects' = effects + 1
      BY <1>8, <2>3 DEF Commit
    <3>4. Contract!Apply
      BY <2>3, <3>2, <3>3 DEF Contract!Apply, Contract!Record, Contract!Tell, AnswerBar
    <3>. QED BY <3>4 DEF Contract!Next
  <2>. QED BY <2>2, <2>3
<1>9. CASE Reread(d) \/ RereadFails(d) \/ ParkExists(d)
  <2>1. pc[d] \notin Ended
    BY <1>9 DEF Reread, RereadFails, ParkExists, Ended
  <2>2. marker' = marker /\ effects' = effects
    BY <1>9 DEF Reread, RereadFails, ParkExists
  <2>3. \/ marker # "none" /\ Goto(d, "acked")
        \/ Goto(d, "rejected") \/ Goto(d, "count")
    BY <1>9 DEF Reread, RereadFails, ParkExists, Unmarked
  <2>4. \/ marker # "none" /\ AnswerBar' = [AnswerBar EXCEPT ![d] = "acked"]
        \/ AnswerBar' = [AnswerBar EXCEPT ![d] = "rejected"] \/ AnswerBar' = AnswerBar
    BY <1>3, <1>4, <1>5, <2>1, <2>3 DEF Ended
  <2>. QED BY <1>1, <1>2, <2>2, <2>4
<1>10. CASE Count(d) \/ Record(d) \/ Recount(d)
  <2>1. pc[d] \notin Ended
    BY <1>10 DEF Count, Record, Recount, Ended
  <2>2. marker' = marker /\ effects' = effects
    BY <1>10 DEF Count, Record, Recount
  <2>3. PICK at \in {"record", "recount", "exhausted", "rejected"} : Goto(d, at)
    BY <1>10 DEF Count, Record, Recount
  <2>4. AnswerBar' = [AnswerBar EXCEPT ![d] = "rejected"] \/ AnswerBar' = AnswerBar
    BY <1>3, <1>4, <1>5, <2>1, <2>3 DEF Ended
  <2>. QED BY <1>1, <1>2, <2>2, <2>4
<1>11. CASE Park(d)
  <2>1. pc[d] \notin Ended
    BY <1>11 DEF Park, Parking, Ended
  <2>2. CASE marker = "none"
    <3>1. /\ marker' = "parked" /\ effects' = effects
          /\ AnswerBar' = [AnswerBar EXCEPT ![d] = "acked"]
      BY <1>3, <1>5, <1>11, <2>2 DEF Park
    <3>2. Contract!Park
      BY <2>2, <3>1 DEF Contract!Park, Contract!Record, Contract!Tell, AnswerBar
    <3>. QED BY <3>2 DEF Contract!Next
  <2>3. CASE marker # "none"
    BY <1>1, <1>4, <1>11, <2>1, <2>3 DEF Park, Ended
  <2>. QED BY <2>2, <2>3
<1>12. CASE Abandon(d)
  BY <1>2, <1>3, <1>5, <1>12 DEF Abandon
<1>. QED
  BY <1>6, <1>7, <1>8, <1>9, <1>10, <1>11, <1>12 DEF CopyStep, Handles

(* Nobody else tells the broker anything. *)
LEMMA OtherSimulated ==
  ASSUME InboxTypeOK, OtherStep
  PROVE  [Contract!Next]_(Contract!vars)
<1>1. effects' = effects /\ pc' = pc
  BY DEF OtherStep, LateWrite, Release, ClearCount, ReleaseFails, RetentionPasses, PurgeReads, PurgeDeletes
<1>2. \/ marker' = marker
      \/ marker = "none" /\ marker' = "parked"
      \/ marker = "parked" /\ marker' = "discarded"
      \/ marker # "none" /\ marker' = "none"
  BY DEF OtherStep, LateWrite, LateRecord, LatePark, Release, ClearCount, ReleaseFails, RetentionPasses,
         PurgeReads, PurgeDeletes
<1>. QED
  BY <1>1, <1>2 DEF Contract!Next, Contract!vars, Contract!Park, Contract!Record,
                    Contract!Discard, Contract!Forget

(* The inbox keeps its contract: work is committed only while nothing is recorded *)
(* of the message, and a copy is acknowledged only while something is.            *)
THEOREM InboxImplements == InboxSpec => Implements
<1>1. InboxInit => Contract!Init
  BY DEF InboxInit, Contract!Init, Answer, Ended
<1>2. InboxTypeOK /\ [InboxNext]_vars => [Contract!Next]_(Contract!vars)
  <2> SUFFICES ASSUME InboxTypeOK, [InboxNext]_vars PROVE [Contract!Next]_(Contract!vars)
    OBVIOUS
  <2>1. CASE UNCHANGED vars
    BY <2>1 DEF vars, Contract!vars
  <2>. QED BY <2>1, CopySimulated, OtherSimulated, NextSplit
<1>. QED
  BY <1>1, <1>2, InboxTypeCorrect, PTL DEF InboxSpec, Implements, Contract!Spec
-----------------------------------------------------------------------------
(* No message is parked early: every rejection of run is counted once at most.  *)
(* The rejections not yet counted are those of copies on their way to the count *)
(* row, and those of writes that were given up and may still apply.             *)
Due == {"reread"} \union Counting
Unrecorded == {d \in Copies : pc[d] \in Due}
LateCounts == {c \in late : c.op = "record"}
CountInv ==
  /\ IsFiniteSet(late)
  /\ \/ failures = MaxAttempts
     \/ count + Cardinality(Unrecorded) + Cardinality(LateCounts) <= failures
  /\ ParkedNotEarly

LEMMA DueFinite ==
  ASSUME IsFiniteSet(late)
  PROVE  /\ IsFiniteSet(Unrecorded) /\ Cardinality(Unrecorded) \in Nat
         /\ IsFiniteSet(LateCounts) /\ Cardinality(LateCounts) \in Nat
  BY LimitAssumption, FS_Subset, FS_CardinalityType DEF Unrecorded, LateCounts

LEMMA DueFiniteNext ==
  ASSUME IsFiniteSet(late')
  PROVE  Cardinality(Unrecorded') \in Nat /\ Cardinality(LateCounts') \in Nat
  BY LimitAssumption, FS_Subset, FS_CardinalityType DEF Unrecorded, LateCounts

(* A copy that moves adds to, or leaves, the copies with a rejection to count. *)
LEMMA DueMoves ==
  ASSUME Parts, IsFiniteSet(late), NEW d \in Copies, NEW at, Goto(d, at)
  PROVE  /\ at \in Due => Cardinality(Unrecorded') <= Cardinality(Unrecorded) + 1
         /\ at \in Due /\ pc[d] \in Due => Cardinality(Unrecorded') = Cardinality(Unrecorded)
         /\ at \notin Due => Cardinality(Unrecorded') <= Cardinality(Unrecorded)
         /\ at \notin Due /\ pc[d] \in Due =>
              Cardinality(Unrecorded') = Cardinality(Unrecorded) - 1
<1>1. Unrecorded' = IF at \in Due THEN Unrecorded \union {d} ELSE Unrecorded \ {d}
  BY DEF Goto, Unrecorded, Parts, PlacesOK
<1>2. d \in Unrecorded <=> pc[d] \in Due
  BY DEF Unrecorded
<1>3. IsFiniteSet(Unrecorded) /\ Cardinality(Unrecorded) \in Nat
  BY DueFinite
<1>4. /\ Cardinality(Unrecorded \union {d}) =
           IF d \in Unrecorded THEN Cardinality(Unrecorded) ELSE Cardinality(Unrecorded) + 1
      /\ Cardinality(Unrecorded \ {d}) =
           IF d \in Unrecorded THEN Cardinality(Unrecorded) - 1 ELSE Cardinality(Unrecorded)
  BY <1>3, FS_AddElement, FS_RemoveElement
<1>. QED BY <1>1, <1>2, <1>3, <1>4

(* A rejection: one more to count, and one more rejection, up to the limit. *)
LEMMA RejectedCounts ==
  ASSUME Parts, CountInv, NEW d \in Copies, Rejected(d), UNCHANGED <<count, late>>
  PROVE  CountInv'
<1>1. Goto(d, "reread") /\ "reread" \in Due
  BY DEF Rejected, Due
<1>2. Cardinality(Unrecorded') <= Cardinality(Unrecorded) + 1
  BY <1>1, DueMoves DEF CountInv
<1>3. LateCounts' = LateCounts /\ IsFiniteSet(late')
  BY DEF LateCounts, CountInv
<1>4. /\ Cardinality(Unrecorded) \in Nat /\ Cardinality(LateCounts) \in Nat
      /\ Cardinality(Unrecorded') \in Nat
  BY <1>3, DueFinite, DueFiniteNext DEF CountInv
<1>5. failures' = MaxAttempts \/ failures' = failures + 1
  BY Limits DEF Rejected, Parts, NumbersOK
<1>6. ParkedNotEarly'
  BY <1>1, <1>5, Limits DEF ParkedNotEarly, CountInv, Goto, Parts, PlacesOK, NumbersOK, Rejected
<1>7. \/ failures' = MaxAttempts
      \/ count' + Cardinality(Unrecorded') + Cardinality(LateCounts') <= failures'
  BY <1>2, <1>3, <1>4, <1>5, Limits DEF CountInv, Parts, NumbersOK, Rejected
<1>. QED BY <1>3, <1>6, <1>7 DEF CountInv

(* A copy that goes on without a new rejection to count. *)
LEMMA GoesOn ==
  ASSUME Parts, CountInv, NEW d \in Copies, NEW at, Goto(d, at), at # "exhausted",
         at \in Due => pc[d] \in Due, UNCHANGED <<count, late, failures>>
  PROVE  CountInv'
<1>1. Cardinality(Unrecorded') <= Cardinality(Unrecorded)
  <2>1. Cardinality(Unrecorded) \in Nat
    BY DueFinite DEF CountInv
  <2>. QED BY <2>1, DueMoves DEF CountInv
<1>2. LateCounts' = LateCounts /\ IsFiniteSet(late')
  BY DEF LateCounts, CountInv
<1>3. /\ Cardinality(Unrecorded) \in Nat /\ Cardinality(LateCounts) \in Nat
      /\ Cardinality(Unrecorded') \in Nat
  BY <1>2, DueFinite, DueFiniteNext DEF CountInv
<1>4. ParkedNotEarly'
  BY DEF ParkedNotEarly, CountInv, Goto, Parts, PlacesOK
<1>5. \/ failures' = MaxAttempts
      \/ count' + Cardinality(Unrecorded') + Cardinality(LateCounts') <= failures'
  BY <1>1, <1>2, <1>3, Limits DEF CountInv, Parts, NumbersOK
<1>. QED BY <1>2, <1>4, <1>5 DEF CountInv

(* The count row gains one: at the limit there were as many rejections. *)
LEMMA RecordCounts ==
  ASSUME Parts, CountInv, NEW d \in Copies, Record(d), count = seen[d]
  PROVE  CountInv'
<1>1. PICK at \in {"exhausted", "rejected"} :
        Goto(d, at) /\ (at = "exhausted" => count + 1 >= MaxAttempts)
  BY DEF Record, Exhausted, Incremented
<1>2. pc[d] \in Due /\ at \notin Due
  BY <1>1 DEF Record, Due, Counting
<1>3. Cardinality(Unrecorded') = Cardinality(Unrecorded) - 1
  BY <1>1, <1>2, DueMoves DEF CountInv
<1>4. count' = count + 1 /\ UNCHANGED <<late, failures>>
  BY DEF Record, Incremented
<1>5. LateCounts' = LateCounts /\ IsFiniteSet(late')
  BY <1>4 DEF LateCounts, CountInv
<1>6. /\ Cardinality(Unrecorded) \in Nat /\ Cardinality(LateCounts) \in Nat
      /\ Cardinality(Unrecorded') \in Nat
  BY <1>5, DueFinite, DueFiniteNext DEF CountInv
<1>7. \/ failures' = MaxAttempts
      \/ count' + Cardinality(Unrecorded') + Cardinality(LateCounts') <= failures'
  BY <1>3, <1>4, <1>5, <1>6, Limits DEF CountInv, Parts, NumbersOK
<1>8. at = "exhausted" => failures' = MaxAttempts
  BY <1>1, <1>3, <1>4, <1>6, Limits DEF CountInv, Parts, NumbersOK
<1>9. ParkedNotEarly'
  BY <1>1, <1>4, <1>8 DEF ParkedNotEarly, CountInv, Goto, Parts, PlacesOK
<1>. QED BY <1>5, <1>7, <1>9 DEF CountInv

(* An abandoned call takes its rejection with it, or leaves it to a late write. *)
LEMMA AbandonCounts ==
  ASSUME Parts, CountInv, NEW d \in Copies, Abandon(d)
  PROVE  CountInv'
<1>1. Goto(d, "rejected") /\ "rejected" \notin Due /\ UNCHANGED <<count, failures>>
  BY DEF Abandon, Due, Counting
<1>2. /\ Cardinality(Unrecorded) \in Nat /\ Cardinality(LateCounts) \in Nat
      /\ IsFiniteSet(LateCounts)
  BY DueFinite DEF CountInv
<1>3. /\ Cardinality(Unrecorded') <= Cardinality(Unrecorded)
      /\ pc[d] \in Counting => Cardinality(Unrecorded') = Cardinality(Unrecorded) - 1
  BY <1>1, DueMoves DEF CountInv, Due
<1>4. PICK c : InFlight(d) \subseteq {c}
  BY DEF InFlight
<1>5. IsFiniteSet(late') /\ late' \subseteq late \union {c}
  BY <1>4, FS_AddElement, FS_Subset DEF Abandon, CountInv
<1>6. /\ LateCounts' \subseteq LateCounts \union {c}
      /\ pc[d] \notin Counting => LateCounts' \subseteq LateCounts
  BY <1>4 DEF Abandon, LateCounts, InFlight
<1>7. /\ Cardinality(LateCounts') <= Cardinality(LateCounts) + 1
      /\ pc[d] \notin Counting => Cardinality(LateCounts') <= Cardinality(LateCounts)
  <2>1. /\ IsFiniteSet(LateCounts \union {c})
        /\ Cardinality(LateCounts \union {c}) \in Nat
        /\ Cardinality(LateCounts \union {c}) <= Cardinality(LateCounts) + 1
    BY <1>2, FS_AddElement
  <2>2. Cardinality(LateCounts') \in Nat
    BY <1>5, DueFiniteNext
  <2>3. Cardinality(LateCounts') <= Cardinality(LateCounts \union {c})
    BY <1>6, <2>1, FS_Subset
  <2>. QED BY <1>2, <1>6, <2>1, <2>2, <2>3, FS_Subset
<1>8. Cardinality(Unrecorded') \in Nat /\ Cardinality(LateCounts') \in Nat
  BY <1>5, DueFiniteNext
<1>9. \/ failures' = MaxAttempts
      \/ count' + Cardinality(Unrecorded') + Cardinality(LateCounts') <= failures'
  BY <1>1, <1>2, <1>3, <1>7, <1>8, Limits DEF CountInv, Parts, NumbersOK
<1>10. ParkedNotEarly'
  BY <1>1 DEF ParkedNotEarly, CountInv, Goto, Parts, PlacesOK
<1>. QED BY <1>5, <1>9, <1>10 DEF CountInv

LEMMA CopyCounts ==
  ASSUME Parts, CountInv, NEW d \in Copies, CopyStep(d)
  PROVE  CountInv'
<1> USE DEF Due, Counting
<1>1. CASE Deliver(d)
  <2>1. PICK at \in {"acked", "begin", "handler", "rejected", "unparsed"} : Goto(d, at)
    BY <1>1 DEF Deliver
  <2>. QED BY <1>1, <2>1, GoesOn DEF Deliver
<1>2. CASE Begin(d) /\ marker = "none"
  BY <1>2, GoesOn DEF Begin
<1>3. CASE Commit(d) /\ marker = "none" /\ ~Rejected(d)
  <2>1. PICK at \in {"acked", "rejected"} : Goto(d, at)
    BY <1>3 DEF Commit
  <2>. QED BY <1>3, <2>1, GoesOn DEF Commit
<1>4. CASE \/ Begin(d) /\ marker # "none"
           \/ Commit(d) /\ (marker # "none" \/ Rejected(d))
           \/ HandlerFails(d) \/ Conflict(d)
  BY <1>4, RejectedCounts DEF Begin, Commit, HandlerFails, Conflict, RolledBack
<1>5. CASE Reread(d) \/ RereadFails(d)
  <2>1. PICK at \in {"acked", "rejected", "count"} : Goto(d, at)
    BY <1>5 DEF Reread, RereadFails, Unmarked
  <2>. QED BY <1>5, <2>1, GoesOn DEF Reread, RereadFails
<1>6. CASE Count(d) \/ Recount(d) \/ (Record(d) /\ count # seen[d])
  <2>1. PICK at \in {"record", "recount", "rejected"} : Goto(d, at)
    BY <1>6 DEF Count, Recount, Record
  <2>. QED BY <1>6, <2>1, GoesOn DEF Count, Recount, Record
<1>7. CASE Record(d) /\ count = seen[d]
  BY <1>7, RecordCounts
<1>8. CASE Park(d) \/ ParkExists(d)
  <2>1. PICK at \in {"acked", "rejected", "exists"} : Goto(d, at)
    BY <1>8 DEF Park, ParkExists
  <2>. QED BY <1>8, <2>1, GoesOn DEF Park, ParkExists
<1>9. CASE Abandon(d)
  BY <1>9, AbandonCounts
<1>. QED
  BY <1>1, <1>2, <1>3, <1>4, <1>5, <1>6, <1>7, <1>8, <1>9 DEF CopyStep, Handles

LEMMA OtherCounts ==
  ASSUME Parts, CountInv, OtherStep
  PROVE  CountInv'
<1>1. UNCHANGED <<pc, failures>>
  BY DEF OtherStep, LateWrite, Release, ClearCount, ReleaseFails, RetentionPasses, PurgeReads,
         PurgeDeletes
<1>2. Unrecorded' = Unrecorded /\ ParkedNotEarly'
  BY <1>1 DEF Unrecorded, ParkedNotEarly, CountInv
<1>3. /\ Cardinality(Unrecorded) \in Nat /\ Cardinality(LateCounts) \in Nat
      /\ IsFiniteSet(LateCounts)
  BY DueFinite DEF CountInv
<1>4. CASE late' = late
  <2>1. LateCounts' = LateCounts /\ IsFiniteSet(late')
    BY <1>4 DEF LateCounts, CountInv
  <2>2. count' \in {count, 0}
    <3>1. ~ \E c \in late : LateWrite(c)
      BY <1>4 DEF LateWrite
    <3>. QED
      BY <3>1 DEF OtherStep, Release, ClearCount, ReleaseFails, RetentionPasses, PurgeReads,
                  PurgeDeletes
  <2>. QED
    BY <1>1, <1>2, <1>3, <2>1, <2>2, Limits DEF CountInv, Parts, NumbersOK
<1>5. ASSUME NEW c \in late, LateWrite(c) PROVE CountInv'
  <2>1. late' = late \ {c} /\ IsFiniteSet(late')
    BY <1>5, FS_RemoveElement DEF LateWrite, CountInv
  <2>2. CASE c.op = "record"
    <3>1. LateCounts' = LateCounts \ {c} /\ c \in LateCounts
      BY <1>5, <2>1, <2>2 DEF LateCounts
    <3>2. Cardinality(LateCounts') = Cardinality(LateCounts) - 1
      BY <1>3, <3>1, FS_RemoveElement
    <3>3. count' = count + 1 \/ count' = 0
      BY <1>5, <2>2 DEF LateWrite, LateRecord, LatePark, Incremented
    <3>. QED
      BY <1>1, <1>2, <1>3, <2>1, <3>2, <3>3, Limits DEF CountInv, Parts, NumbersOK
  <2>3. CASE c.op # "record"
    <3>1. LateCounts' = LateCounts /\ count' = count
      BY <1>5, <2>1, <2>3 DEF LateCounts, LateWrite, LateRecord, LatePark
    <3>. QED BY <1>1, <1>2, <2>1, <3>1 DEF CountInv
  <2>. QED BY <2>2, <2>3
<1>6. late' = late \/ \E c \in late : LateWrite(c)
  BY DEF OtherStep, Release, ClearCount, ReleaseFails, RetentionPasses, PurgeReads, PurgeDeletes
<1>. QED BY <1>4, <1>5, <1>6

(* A delivery is parked as exhausted only after maxAttempts rejections of run. *)
THEOREM InboxParkedNotEarly == InboxSpec => []ParkedNotEarly
<1>1. InboxInit => CountInv
  <2> SUFFICES ASSUME InboxInit PROVE CountInv
    OBVIOUS
  <2>1. Unrecorded = {} /\ LateCounts = {} /\ IsFiniteSet(late)
    BY FS_EmptySet DEF InboxInit, Unrecorded, LateCounts, Due, Counting
  <2>2. Cardinality(Unrecorded) = 0 /\ Cardinality(LateCounts) = 0
    BY <2>1, FS_EmptySet
  <2>. QED BY <2>1, <2>2 DEF InboxInit, CountInv, ParkedNotEarly
<1>2. Parts /\ CountInv /\ [InboxNext]_vars => CountInv'
  <2> SUFFICES ASSUME Parts, CountInv, [InboxNext]_vars PROVE CountInv'
    OBVIOUS
  <2>1. CASE UNCHANGED vars
    <3>1. Unrecorded' = Unrecorded /\ LateCounts' = LateCounts
      BY <2>1 DEF vars, Unrecorded, LateCounts
    <3>. QED BY <2>1, <3>1 DEF vars, CountInv, ParkedNotEarly
  <2>. QED BY <2>1, NextSplit, CopyCounts, OtherCounts
<1>3. CountInv => ParkedNotEarly
  BY DEF CountInv
<1>. QED BY <1>1, <1>2, <1>3, InboxTypeCorrect, TypeParts, PTL DEF InboxSpec
-----------------------------------------------------------------------------
(* The pools of workers.                                                    *)
LEMMA LeastOf ==
  ASSUME NEW T \in SUBSET Nat, T # {}
  PROVE  \E n \in T : \A m \in T : n <= m
<1>1. PICK n \in T : \A m \in T : ~(<<m, n>> \in OpToRel(<, Nat))
  <2>1. IsWellFoundedOn(OpToRel(<, Nat), Nat)
    BY NatLessThanWellFounded, Zenon
  <2>. QED BY <2>1, WFMin, Zenon
<1>2. \A m \in T : ~(m < n)
  BY <1>1, Zenon DEF OpToRel
<1>. QED BY <1>2

(* The first step that leads out of the sets A would be a counterexample.   *)
LEMMA Follows ==
  ASSUME NEW n \in Nat, NEW A, NEW it, it[0] \in A[0],
         \A i \in 1..n : it[i - 1] \in A[i - 1] => it[i] \in A[i]
  PROVE  \A i \in 0..n : it[i] \in A[i]
<1> DEFINE bad == {i \in 0..n : it[i] \notin A[i]}
<1> SUFFICES ASSUME bad # {} PROVE FALSE
  OBVIOUS
<1>1. PICK m \in bad : \A k \in bad : m <= k
  <2>1. bad \in SUBSET Nat
    OBVIOUS
  <2> HIDE DEF bad
  <2>. QED BY <2>1, LeastOf
<1>2. m \in 1..n /\ it[m] \notin A[m]
  BY <1>1
<1>3. m - 1 \notin bad
  <2> HIDE DEF bad
  <2>. QED BY <1>1, <1>2
<1>. QED BY <1>2, <1>3

Steps(n, step, A) == \A i \in 1..n : \A u \in A[i - 1] : step[<<u, i>>] \in A[i]
Runs(f, n, s, step, A) == /\ f = [i \in 0..n |-> f[i]] /\ f[0] = s
                          /\ \A i \in 1..n : f[i] = step[<<f[i - 1], i>>]
                          /\ \A i \in 0..n : f[i] \in A[i]

LEMMA Iterates ==
  ASSUME NEW n \in Nat, NEW A, NEW s \in A[0], NEW step, Steps(n, step, A)
  PROVE  \E f : Runs(f, n, s, step, A)
<1> DEFINE Upto(m) == \E f : /\ f = [i \in 0..m |-> f[i]] /\ f[0] = s
                             /\ \A i \in 1..m : f[i] = step[<<f[i - 1], i>>]
                             /\ \A i \in 0..m : f[i] \in A[i]
           bad == {m \in 0..n : ~Upto(m)}
<1>1. bad = {}
  <2> SUFFICES ASSUME bad # {} PROVE FALSE
    OBVIOUS
  <2>1. PICK m \in bad : \A k \in bad : m <= k
    <3>1. bad \in SUBSET Nat
      OBVIOUS
    <3> HIDE DEF bad
    <3>. QED BY <3>1, LeastOf
  <2>2. m \in 0..n /\ ~Upto(m)
    BY <2>1
  <2>3. m # 0
    <3> SUFFICES ASSUME m = 0 PROVE Upto(0)
      BY <2>2
    <3> DEFINE f == [i \in 0..0 |-> s]
    <3>1. f = [i \in 0..0 |-> f[i]] /\ f[0] = s /\ \A i \in 0..0 : f[i] \in A[i]
      OBVIOUS
    <3> HIDE DEF f
    <3>. QED BY <3>1
  <2>4. m \in 1..n /\ m - 1 \in 0..n /\ m - 1 \notin bad
    <3> HIDE DEF bad
    <3>. QED BY <2>1, <2>2, <2>3
  <2>5. Upto(m - 1)
    BY <2>4
  <2>6. PICK g : /\ g = [i \in 0..(m - 1) |-> g[i]] /\ g[0] = s
                 /\ \A i \in 1..(m - 1) : g[i] = step[<<g[i - 1], i>>]
                 /\ \A i \in 0..(m - 1) : g[i] \in A[i]
    BY <2>5
  <2> DEFINE f == [i \in 0..m |-> IF i = m THEN step[<<g[m - 1], m>>] ELSE g[i]]
  <2>7. f = [i \in 0..m |-> f[i]] /\ f[0] = s
    BY <2>4, <2>6
  <2>8. ASSUME NEW i \in 1..m PROVE f[i] = step[<<f[i - 1], i>>]
    <3>1. f[i - 1] = g[i - 1]
      BY <2>4
    <3>2. CASE i = m
      <4>1. f[m] = step[<<g[m - 1], m>>]
        BY <2>4
      <4> HIDE DEF f
      <4>. QED BY <4>1, <3>1, <3>2, Zenon
    <3>3. CASE i # m
      <4>1. i \in 1..(m - 1) /\ f[i] = g[i]
        BY <3>3, <2>4
      <4> HIDE DEF f
      <4>. QED BY <4>1, <3>1, <2>6
    <3>. QED BY <3>2, <3>3
  <2>9. ASSUME NEW i \in 0..m PROVE f[i] \in A[i]
    <3>1. CASE i = m
      <4>1. m - 1 \in 0..(m - 1) /\ g[m - 1] \in A[m - 1]
        BY <2>4, <2>6
      <4>2. step[<<g[m - 1], m>>] \in A[m]
        BY <4>1, <2>4 DEF Steps
      <4>. QED BY <3>1, <4>2
    <3>2. CASE i # m
      BY <3>2, <2>4, <2>6
    <3>. QED BY <3>1, <3>2
  <2> HIDE DEF f
  <2>. QED BY <2>2, <2>7, <2>8, <2>9
<1>2. n \in 0..n /\ n \notin bad
  BY <1>1
<1>. QED BY <1>2 DEF Runs

LEMMA RemoveAtDoes ==
  ASSUME NEW S, NEW seq \in Seq(S), NEW i \in 1..Len(seq)
  PROVE  /\ RemoveAt(seq, i) \in Seq(S)
         /\ Len(RemoveAt(seq, i)) = Len(seq) - 1
         /\ \A j \in 1..(Len(seq) - 1) :
              RemoveAt(seq, i)[j] = IF j < i THEN seq[j] ELSE seq[j + 1]
<1> DEFINE l == SubSeq(seq, 1, i - 1)
           r == SubSeq(seq, i + 1, Len(seq))
<1>1. /\ l \in Seq(S) /\ Len(l) = i - 1
      /\ \A j \in 1..(i - 1) : l[j] = seq[j]
  <2>1. \A j \in 1..(i - 1) : seq[j] \in S
    OBVIOUS
  <2>. QED BY <2>1, SubSeqProperties
<1>2. /\ r \in Seq(S) /\ Len(r) = Len(seq) - i
      /\ \A j \in 1..(Len(seq) - i) : r[j] = seq[i + j]
  <2>1. \A j \in (i + 1)..Len(seq) : seq[j] \in S
    OBVIOUS
  <2>. QED BY <2>1, SubSeqProperties
<1> HIDE DEF l, r
<1>3. /\ l \o r \in Seq(S) /\ Len(l \o r) = Len(seq) - 1
      /\ \A j \in 1..(Len(seq) - 1) : (l \o r)[j] = IF j <= i - 1 THEN l[j] ELSE r[j - (i - 1)]
  <2>1. /\ Len(l \o r) = Len(l) + Len(r) /\ l \o r \in Seq(S)
        /\ \A j \in 1..(Len(l) + Len(r)) : (l \o r)[j] = IF j <= Len(l) THEN l[j] ELSE r[j - Len(l)]
    BY <1>1, <1>2, ConcatProperties, Zenon
  <2>2. Len(l) + Len(r) = Len(seq) - 1
    BY <1>1, <1>2
  <2>. QED BY <2>1, <2>2, <1>1, Zenon
<1>4. RemoveAt(seq, i) = l \o r
  BY DEF RemoveAt, l, r
<1>5. \A j \in 1..(Len(seq) - 1) : (l \o r)[j] = IF j < i THEN seq[j] ELSE seq[j + 1]
  <2> SUFFICES ASSUME NEW j \in 1..(Len(seq) - 1)
               PROVE  (l \o r)[j] = IF j < i THEN seq[j] ELSE seq[j + 1]
    OBVIOUS
  <2>1. CASE j < i
    BY <2>1, <1>3, <1>1
  <2>2. CASE ~(j < i)
    <3>1. j - (i - 1) \in 1..(Len(seq) - i)
      BY <2>2
    <3>. QED BY <3>1, <2>2, <1>3, <1>2
  <2>. QED BY <2>1, <2>2
<1>. QED BY <1>3, <1>4, <1>5

Distinct(seq) == \A i, j \in 1..Len(seq) : seq[i] = seq[j] => i = j

LEMMA ToSetIs ==
  ASSUME NEW S, NEW seq \in Seq(S)
  PROVE  /\ ToSet(seq) \in SUBSET S
         /\ \A x : x \in ToSet(seq) <=> \E i \in 1..Len(seq) : seq[i] = x
         /\ ToSet(seq) = {} <=> seq = <<>>
<1>1. DOMAIN seq = 1..Len(seq) /\ \A i \in 1..Len(seq) : seq[i] \in S
  OBVIOUS
<1>2. \A x : x \in ToSet(seq) <=> \E i \in 1..Len(seq) : seq[i] = x
  BY <1>1 DEF ToSet
<1>3. seq # <<>> => 1 \in 1..Len(seq)
  BY EmptySeq
<1>4. seq = <<>> => ~\E i \in 1..Len(seq) : TRUE
  OBVIOUS
<1>. QED BY <1>1, <1>2, <1>3, <1>4

LEMMA WithoutOne ==
  ASSUME NEW S, NEW seq \in Seq(S), NEW i \in 1..Len(seq)
  PROVE  /\ ToSet(RemoveAt(seq, i)) \subseteq ToSet(seq)
         /\ ToSet(seq) \subseteq ToSet(RemoveAt(seq, i)) \cup {seq[i]}
         /\ Distinct(seq) => Distinct(RemoveAt(seq, i)) /\ seq[i] \notin ToSet(RemoveAt(seq, i))
<1> DEFINE t == RemoveAt(seq, i)
<1>1. /\ t \in Seq(S) /\ Len(t) = Len(seq) - 1
      /\ \A j \in 1..(Len(seq) - 1) : t[j] = IF j < i THEN seq[j] ELSE seq[j + 1]
  BY RemoveAtDoes
<1> HIDE DEF t
<1>2. \A j \in 1..Len(seq) : j # i => \E k \in 1..Len(t) : t[k] = seq[j]
  <2> SUFFICES ASSUME NEW j \in 1..Len(seq), j # i PROVE \E k \in 1..Len(t) : t[k] = seq[j]
    OBVIOUS
  <2>1. CASE j < i
    BY <2>1, <1>1
  <2>2. CASE j > i
    <3>1. j - 1 \in 1..Len(t) /\ t[j - 1] = seq[j]
      BY <2>2, <1>1
    <3>. QED BY <3>1
  <2>. QED BY <2>1, <2>2
<1>3. \A k \in 1..Len(t) : \E j \in 1..Len(seq) : j # i /\ t[k] = seq[j]
  <2> SUFFICES ASSUME NEW k \in 1..Len(t) PROVE \E j \in 1..Len(seq) : j # i /\ t[k] = seq[j]
    OBVIOUS
  <2>1. CASE k < i
    BY <2>1, <1>1
  <2>2. CASE ~(k < i)
    <3>1. k + 1 \in 1..Len(seq) /\ k + 1 # i /\ t[k] = seq[k + 1]
      BY <2>2, <1>1
    <3>. QED BY <3>1
  <2>. QED BY <2>1, <2>2
<1>4. ToSet(t) \subseteq ToSet(seq)
  <2>1. \A x \in ToSet(t) : \E j \in 1..Len(seq) : seq[j] = x
    BY <1>1, <1>3, ToSetIs
  <2>. QED BY ONLY <2>1, seq \in Seq(S), ToSetIs
<1>5. ToSet(seq) \subseteq ToSet(t) \cup {seq[i]}
  <2>1. \A x \in ToSet(seq) : x = seq[i] \/ \E k \in 1..Len(t) : t[k] = x
    BY <1>2, ToSetIs
  <2>. QED BY <2>1, <1>1, ToSetIs
<1>6. ASSUME Distinct(seq) PROVE Distinct(t) /\ seq[i] \notin ToSet(t)
  <2>1. seq[i] \notin ToSet(t)
    BY <1>1, <1>3, <1>6, ToSetIs DEF Distinct
  <2>2. ASSUME NEW j \in 1..Len(t), NEW k \in 1..Len(t), t[j] = t[k] PROVE j = k
    <3> DEFINE at(a) == IF a < i THEN a ELSE a + 1
    <3>1. at(j) \in 1..Len(seq) /\ at(k) \in 1..Len(seq) /\ (at(j) = at(k) => j = k)
      BY <1>1
    <3>2. t[j] = seq[at(j)] /\ t[k] = seq[at(k)]
      BY <1>1
    <3> HIDE DEF at
    <3>. QED BY <2>2, <3>1, <3>2, <1>6 DEF Distinct
  <2>. QED BY <2>1, <2>2 DEF Distinct
<1>. QED BY <1>4, <1>5, <1>6 DEF t

LEMMA RemoveFirstDoes ==
  ASSUME NEW S, NEW seq \in Seq(S), NEW e
  PROVE  /\ e \notin ToSet(seq) => RemoveFirst(seq, e) = seq
         /\ e \in ToSet(seq) => \E i \in 1..Len(seq) : /\ seq[i] = e
                                                       /\ RemoveFirst(seq, e) = RemoveAt(seq, i)
<1>1. CASE e \notin ToSet(seq)
  <2>1. ~\E i \in 1..Len(seq) : seq[i] = e
    BY <1>1, ToSetIs
  <2>. QED BY <1>1, <2>1 DEF RemoveFirst
<1>2. CASE e \in ToSet(seq)
  <2> DEFINE I == {i \in 1..Len(seq) : seq[i] = e}
  <2>1. I # {} /\ \E i \in 1..Len(seq) : seq[i] = e
    BY <1>2, ToSetIs
  <2>2. RemoveFirst(seq, e) = RemoveAt(seq, Min(I))
    BY <2>1 DEF RemoveFirst, SelectInSeq
  <2>3. Min(I) \in I
    <3>1. I \in SUBSET Nat
      OBVIOUS
    <3> HIDE DEF I
    <3>2. PICK n \in I : \A m \in I : n <= m
      BY <2>1, <3>1, LeastOf
    <3>. QED BY <3>2 DEF Min
  <2>. QED BY <1>2, <2>2, <2>3
<1>. QED BY <1>1, <1>2
-----------------------------------------------------------------------------
Sys == [slots : [Pools -> Seq(Slots)], queue : [Pools -> Seq(Tasks)], open : SUBSET Tasks,
        pools : Seq(Pools), workers : Int, waiters : Seq(Pools), reserved : SUBSET Pools,
        wakes : Seq(Pools), closed : BOOLEAN]

Typed(s) == s \in Sys /\ \A q \in Pools : Len(s.slots[q]) <= Size /\ Len(s.queue[q]) <= MaxQueue

(* The budget counts the live slots, and what it granted fits the limit.    *)
Counted(s) == /\ IsFiniteSet(Live(s)) /\ s.workers = Cardinality(Live(s))
              /\ IsFiniteSet(s.reserved) /\ Free(s) >= 0
              /\ Distinct(s.waiters)

(* What is left alone by whatever only moves the line of waiters.           *)
SameWork(s, t) == /\ t.slots = s.slots /\ t.queue = s.queue /\ t.open = s.open
                  /\ t.pools = s.pools /\ t.workers = s.workers /\ t.closed = s.closed

(* t comes from s by grants to waiters that need a worker, and by leaving   *)
(* out some that do not.                                                    *)
Granted(s, t) ==
  /\ t \in Sys /\ SameWork(s, t)
  /\ ToSet(t.waiters) \subseteq ToSet(s.waiters) /\ Distinct(t.waiters)
  /\ s.reserved \subseteq t.reserved /\ IsFiniteSet(t.reserved)
  /\ \A q \in t.reserved \ s.reserved : /\ q \in ToSet(s.waiters) /\ q \notin ToSet(t.waiters)
                                        /\ q \in ToSet(t.wakes) /\ NeedsWorker(s, q)
  /\ ToSet(s.wakes) \subseteq ToSet(t.wakes)
  /\ \A q \in ToSet(s.waiters) : q \in ToSet(t.waiters) \cup t.reserved \/ ~NeedsWorker(s, q)
  /\ Free(t) >= 0

LEMMA FieldsOf ==
  ASSUME NEW s \in Sys
  PROVE  /\ s.slots \in [Pools -> Seq(Slots)] /\ s.queue \in [Pools -> Seq(Tasks)]
         /\ s.open \in SUBSET Tasks /\ s.pools \in Seq(Pools) /\ s.workers \in Int
         /\ s.waiters \in Seq(Pools) /\ s.reserved \in SUBSET Pools
         /\ s.wakes \in Seq(Pools) /\ s.closed \in BOOLEAN
         /\ s = [slots |-> s.slots, queue |-> s.queue, open |-> s.open, pools |-> s.pools,
                 workers |-> s.workers, waiters |-> s.waiters, reserved |-> s.reserved,
                 wakes |-> s.wakes, closed |-> s.closed]
  BY DEF Sys

LEMMA AppendDoes ==
  ASSUME NEW S, NEW seq \in Seq(S), NEW e \in S
  PROVE  /\ Append(seq, e) \in Seq(S) /\ Len(Append(seq, e)) = Len(seq) + 1
         /\ \A i \in 1..Len(seq) : Append(seq, e)[i] = seq[i]
         /\ Append(seq, e)[Len(seq) + 1] = e
         /\ ToSet(Append(seq, e)) = ToSet(seq) \cup {e}
         /\ Distinct(seq) /\ e \notin ToSet(seq) => Distinct(Append(seq, e))
<1> DEFINE t == Append(seq, e)
<1>1. /\ t \in Seq(S) /\ Len(t) = Len(seq) + 1
      /\ \A i \in 1..Len(seq) : t[i] = seq[i]
      /\ t[Len(seq) + 1] = e
  BY AppendProperties
<1> HIDE DEF t
<1>2. ToSet(t) = ToSet(seq) \cup {e}
  <2>1. \A i \in 1..Len(t) : i \in 1..Len(seq) \/ i = Len(seq) + 1
    BY <1>1
  <2>2. \A i \in 1..Len(seq) : i \in 1..Len(t)
    BY <1>1
  <2>3. Len(seq) + 1 \in 1..Len(t)
    BY <1>1
  <2>. QED BY <1>1, <2>1, <2>2, <2>3, ToSetIs
<1>3. ASSUME Distinct(seq), e \notin ToSet(seq), NEW i \in 1..Len(t), NEW j \in 1..Len(t), t[i] = t[j]
      PROVE  i = j
  <2>1. \A k \in 1..Len(seq) : seq[k] # e
    BY <1>3, ToSetIs
  <2>2. CASE i \in 1..Len(seq) /\ j \in 1..Len(seq)
    BY <2>2, <1>1, <1>3 DEF Distinct
  <2>3. CASE ~(i \in 1..Len(seq) /\ j \in 1..Len(seq))
    BY <2>1, <2>3, <1>1, <1>3
  <2>. QED BY <2>2, <2>3
<1>. QED BY <1>1, <1>2, <1>3 DEF t, Distinct

LEMMA MinDoes ==
  ASSUME NEW T \in SUBSET Nat, T # {}
  PROVE  Min(T) \in T
<1>1. PICK n \in T : \A m \in T : n <= m
  BY LeastOf
<1>. QED BY <1>1 DEF Min

LEMMA ReserveOneDoes ==
  ASSUME NEW s \in Sys
  PROVE  \/ ReserveOne(s) = s /\ (s.closed \/ Free(s) <= 0 \/ s.waiters = <<>>)
         \/ /\ ~s.closed /\ ~(Free(s) <= 0)
            /\ \E i \in 1..Len(s.waiters) :
                 \/ /\ ~NeedsWorker(s, s.waiters[i])
                    /\ ReserveOne(s) = [s EXCEPT !.waiters = RemoveAt(s.waiters, i)]
                 \/ /\ NeedsWorker(s, s.waiters[i])
                    /\ ReserveOne(s) = [s EXCEPT !.waiters = RemoveAt(s.waiters, i),
                                                 !.reserved = s.reserved \cup {s.waiters[i]},
                                                 !.wakes = Append(s.wakes, s.waiters[i])]
<1> DEFINE starved == {i \in DOMAIN s.waiters : IsStarved(s, s.waiters[i])}
           i == IF starved = {} THEN 1 ELSE Min(starved)
           t == [s EXCEPT !.waiters = RemoveAt(s.waiters, i)]
<1>1. CASE s.closed \/ Free(s) <= 0 \/ s.waiters = <<>>
  BY <1>1 DEF ReserveOne
<1>2. CASE ~(s.closed \/ Free(s) <= 0 \/ s.waiters = <<>>)
  <2>1. i \in 1..Len(s.waiters)
    <3>1. DOMAIN s.waiters = 1..Len(s.waiters) /\ 1 \in 1..Len(s.waiters)
      BY <1>2, FieldsOf, EmptySeq
    <3>2. starved # {} => Min(starved) \in starved
      <4>1. starved \in SUBSET Nat
        BY <3>1
      <4> HIDE DEF starved
      <4>. QED BY <4>1, MinDoes
    <3>. QED BY <3>1, <3>2
  <2>3. \A q : NeedsWorker(t, q) <=> NeedsWorker(s, q)
    BY FieldsOf DEF NeedsWorker, StartingAt
  <2>4. ReserveOne(s) = IF NeedsWorker(t, s.waiters[i])
                        THEN [t EXCEPT !.reserved = @ \cup {s.waiters[i]},
                                       !.wakes = Append(@, s.waiters[i])]
                        ELSE t
    BY <1>2, Zenon DEF ReserveOne
  <2>5. [t EXCEPT !.reserved = @ \cup {s.waiters[i]}, !.wakes = Append(@, s.waiters[i])]
          = [s EXCEPT !.waiters = RemoveAt(s.waiters, i),
                      !.reserved = s.reserved \cup {s.waiters[i]},
                      !.wakes = Append(s.wakes, s.waiters[i])]
    <3> HIDE DEF i
    <3>. QED BY FieldsOf
  <2> HIDE DEF i
  <2>. QED BY <1>2, <2>1, <2>3, <2>4, <2>5
<1>. QED BY <1>1, <1>2

LEMMA GrantsOneMore ==
  ASSUME NEW s \in Sys, NEW u, Granted(s, u)
  PROVE  /\ Granted(s, ReserveOne(u))
         /\ \/ ReserveOne(u).waiters = <<>> \/ s.closed \/ Free(ReserveOne(u)) <= 0
            \/ Len(ReserveOne(u).waiters) < Len(u.waiters)
<1> DEFINE t == ReserveOne(u)
<1>1. u \in Sys /\ SameWork(s, u) /\ IsFiniteSet(u.reserved)
  BY DEF Granted
<1>2. CASE t = u /\ (u.closed \/ Free(u) <= 0 \/ u.waiters = <<>>)
  BY <1>1, <1>2 DEF SameWork
<1>3. CASE ~(t = u /\ (u.closed \/ Free(u) <= 0 \/ u.waiters = <<>>))
  <2>0. ~u.closed /\ ~(Free(u) <= 0)
    BY <1>1, <1>3, ReserveOneDoes
  <2>1. PICK i \in 1..Len(u.waiters) :
           \/ /\ ~NeedsWorker(u, u.waiters[i])
              /\ t = [u EXCEPT !.waiters = RemoveAt(u.waiters, i)]
           \/ /\ NeedsWorker(u, u.waiters[i])
              /\ t = [u EXCEPT !.waiters = RemoveAt(u.waiters, i),
                               !.reserved = u.reserved \cup {u.waiters[i]},
                               !.wakes = Append(u.wakes, u.waiters[i])]
    BY <1>1, <1>3, ReserveOneDoes
  <2> DEFINE x == u.waiters[i]
             line == RemoveAt(u.waiters, i)
  <2>2. x \in Pools /\ x \in ToSet(u.waiters) /\ x \in ToSet(s.waiters)
    BY <1>1, FieldsOf, ToSetIs DEF Granted
  <2>3. line \in Seq(Pools) /\ Len(line) = Len(u.waiters) - 1 /\ Distinct(line)
        /\ ToSet(line) \subseteq ToSet(u.waiters) /\ ToSet(u.waiters) \subseteq ToSet(line) \cup {x}
        /\ x \notin ToSet(line)
    BY <1>1, FieldsOf, RemoveAtDoes, WithoutOne DEF Granted
  <2>4. Len(u.waiters) \in Nat
    BY <1>1, FieldsOf, LenProperties
  <2>5. \A q : NeedsWorker(u, q) <=> NeedsWorker(s, q)
    BY <1>1 DEF SameWork, NeedsWorker, StartingAt
  <2> HIDE DEF x, line, t
  <2>6. CASE ~NeedsWorker(u, x) /\ t = [u EXCEPT !.waiters = line]
    <3>1. t \in Sys /\ t.waiters = line /\ t.reserved = u.reserved /\ t.wakes = u.wakes
          /\ SameWork(u, t) /\ t.workers = u.workers
      BY <1>1, <2>3, <2>6, FieldsOf DEF Sys, SameWork
    <3>2. Free(t) = Free(u)
      BY <3>1 DEF Free
    <3>3. Granted(s, t)
      BY <1>1, <2>2, <2>3, <2>5, <2>6, <3>1, <3>2, Zenon DEF Granted, SameWork
    <3>. QED BY <2>3, <2>4, <3>1, <3>3 DEF t
  <2>7. CASE /\ NeedsWorker(u, x)
             /\ t = [u EXCEPT !.waiters = line, !.reserved = u.reserved \cup {x},
                              !.wakes = Append(u.wakes, x)]
    <3>1. t \in Sys /\ t.waiters = line /\ t.reserved = u.reserved \cup {x}
          /\ t.wakes = Append(u.wakes, x) /\ SameWork(u, t) /\ t.workers = u.workers
      <4>1. Append(u.wakes, x) \in Seq(Pools) /\ u.reserved \cup {x} \in SUBSET Pools
        BY <1>1, <2>2, FieldsOf, AppendDoes
      <4>. QED BY <4>1, <1>1, <2>3, <2>7, FieldsOf DEF Sys, SameWork
    <3>2. ToSet(t.wakes) = ToSet(u.wakes) \cup {x}
      BY <1>1, <2>2, <3>1, FieldsOf, AppendDoes
    <3>3. IsFiniteSet(t.reserved) /\ Free(t) >= 0
      <4>1. /\ IsFiniteSet(t.reserved) /\ Cardinality(u.reserved) \in Nat
            /\ Cardinality(t.reserved) \in {Cardinality(u.reserved), Cardinality(u.reserved) + 1}
        BY <1>1, <3>1, FS_AddElement, FS_CardinalityType
      <4>2. u.workers \in Int /\ t.workers = u.workers /\ Limit \in Nat
        BY <1>1, <3>1, FieldsOf, PoolAssumption
      <4>3. Limit - (u.workers + Cardinality(u.reserved)) > 0
        BY <2>0, <4>1, <4>2 DEF Free
      <4>4. Limit - (t.workers + Cardinality(t.reserved)) >= 0
        BY <4>1, <4>2, <4>3
      <4>. QED BY <4>1, <4>4 DEF Free
    <3>4. Granted(s, t)
      BY <1>1, <2>2, <2>3, <2>5, <2>7, <3>1, <3>2, <3>3, Zenon DEF Granted, SameWork
    <3>. QED BY <2>3, <2>4, <3>1, <3>4 DEF t
  <2>. QED BY <2>1, <2>6, <2>7 DEF x, line
<1>. QED BY <1>2, <1>3, Zenon

LEMMA SingleChoice ==
  ASSUME NEW x, NEW y, x = CHOOSE t \in {y} : TRUE
  PROVE  x = y
  OBVIOUS

LEMMA ReserveDoes ==
  ASSUME NEW s \in Sys, IsFiniteSet(s.reserved), Free(s) >= 0, Distinct(s.waiters)
  PROVE  Granted(s, Reserve(s)) /\ (s.closed \/ Reserve(s).waiters = <<>> \/ Free(Reserve(s)) <= 0)
<1> DEFINE n == Len(s.waiters)
           Left(t, k) == \/ s.closed \/ t.waiters = <<>> \/ Free(t) <= 0
                         \/ Len(t.waiters) <= n - k
           A == [k \in 0..n |-> {t \in Sys : Granted(s, t) /\ Left(t, k)}]
           step == [x \in Sys \X (1..n) |-> ReserveOne(x[1])]
<1>1. n \in Nat
  BY FieldsOf, LenProperties
<1>2. s \in A[0]
  <2>1. Granted(s, s)
    BY FieldsOf, ToSetIs DEF Granted, SameWork
  <2>2. Left(s, 0)
    BY <1>1
  <2>. QED BY <1>1, <2>1, <2>2
<1>3. ASSUME NEW i \in 1..n, NEW u \in A[i - 1]
      PROVE  u \in Sys /\ step[<<u, i>>] = ReserveOne(u) /\ ReserveOne(u) \in A[i]
  <2>1. i - 1 \in 0..n /\ i \in 0..n
    BY <1>1
  <2>2. u \in Sys /\ Granted(s, u) /\ Left(u, i - 1)
    BY <1>3, <2>1
  <2> DEFINE t == ReserveOne(u)
  <2>3. Granted(s, t) /\ (t.waiters = <<>> \/ s.closed \/ Free(t) <= 0 \/ Len(t.waiters) < Len(u.waiters))
    BY <2>2, GrantsOneMore
  <2>4. t \in Sys /\ Len(t.waiters) \in Nat /\ Len(u.waiters) \in Nat
    BY <2>2, <2>3, FieldsOf, LenProperties DEF Granted
  <2>5. Left(t, i)
    <3>1. CASE u.waiters = <<>> \/ Free(u) <= 0
      <4>1. t = u
        <5>1. u.waiters = <<>> => ~\E j \in 1..Len(u.waiters) : TRUE
          OBVIOUS
        <5>. QED BY <5>1, <3>1, <2>2, ReserveOneDoes, Zenon
      <4>. QED BY <4>1, <3>1
    <3>2. CASE ~(u.waiters = <<>> \/ Free(u) <= 0)
      BY <3>2, <2>2, <2>3, <2>4, <1>1
    <3>. QED BY <3>1, <3>2
  <2>. QED BY <2>1, <2>2, <2>3, <2>4, <2>5
<1> DEFINE Rec(f) == f = [i \in 0..n |-> IF i = 0 THEN s
                            ELSE CHOOSE t \in {ReserveOne(u) : u \in {f[i - 1]}} : TRUE]
<1>5. \E it : it = (CHOOSE f : Rec(f)) /\ Reserve(s) = it[n]
  BY DEF Reserve, Repeat, Iterate
<1>6. PICK it : it = (CHOOSE f : Rec(f)) /\ Reserve(s) = it[n]
  BY <1>5
<1> HIDE DEF A, step
<1>7. PICK f : Runs(f, n, s, step, A)
  <2>1. Steps(n, step, A)
    BY <1>3 DEF Steps
  <2> HIDE DEF n
  <2>. QED BY <1>1, <1>2, <2>1, Iterates, Zenon
<1>8. /\ f = [i \in 0..n |-> f[i]] /\ f[0] = s
      /\ \A i \in 1..n : f[i] = step[<<f[i - 1], i>>]
      /\ \A i \in 0..n : f[i] \in A[i]
  BY <1>7, Zenon DEF Runs
<1>9. Rec(it)
  <2>1. \A x : (CHOOSE t \in {ReserveOne(u) : u \in {x}} : TRUE) = ReserveOne(x)
    <3>1. \A x : {ReserveOne(u) : u \in {x}} = {ReserveOne(x)}
      OBVIOUS
    <3>. QED BY <3>1, SingleChoice
  <2>2. ASSUME NEW i \in 0..n
        PROVE  f[i] = IF i = 0 THEN s ELSE CHOOSE t \in {ReserveOne(u) : u \in {f[i - 1]}} : TRUE
    <3>1. CASE i = 0
      BY <3>1, <1>8
    <3>2. CASE i # 0
      <4>1. i \in 1..n /\ i - 1 \in 0..n
        BY <3>2, <1>1
      <4>2. f[i] = ReserveOne(f[i - 1])
        BY <4>1, <1>3, <1>8
      <4>. QED BY <4>2, <2>1, <3>2
    <3>. QED BY <3>1, <3>2
  <2>3. Rec(f)
    BY <2>2, <1>8
  <2> HIDE DEF Rec
  <2>. QED BY <1>6, <2>3, Zenon
<1>10. it[0] \in A[0]
  BY <1>1, <1>2, <1>9
<1>11. ASSUME NEW i \in 1..n, it[i - 1] \in A[i - 1] PROVE it[i] \in A[i]
  <2>1. i \in 0..n /\ i # 0
    BY <1>1
  <2>2. it[i] = CHOOSE t \in {ReserveOne(u) : u \in {it[i - 1]}} : TRUE
    BY <1>9, <2>1
  <2>3. {ReserveOne(u) : u \in {it[i - 1]}} = {ReserveOne(it[i - 1])}
    OBVIOUS
  <2>4. it[i] = ReserveOne(it[i - 1])
    BY <2>2, <2>3, SingleChoice
  <2>. QED BY <2>4, <1>3, <1>11
<1>12. it[n] \in A[n]
  <2>1. \A i \in 0..n : it[i] \in A[i]
    BY <1>1, <1>10, <1>11, Follows
  <2>. QED BY <1>1, <2>1
<1>13. Granted(s, Reserve(s)) /\ Left(Reserve(s), n) /\ Reserve(s) \in Sys
  BY <1>1, <1>6, <1>12 DEF A
<1>14. Len(Reserve(s).waiters) <= 0 => Reserve(s).waiters = <<>>
  BY <1>13, FieldsOf, EmptySeq, LenProperties
<1>. QED BY <1>1, <1>13, <1>14
-----------------------------------------------------------------------------
(* Pool q, whose slots and queue are sl and qu, holds the tasks of O that   *)
(* are its own, each in one place.                                          *)
Tidy(sl, qu, q, O) ==
  /\ Distinct(qu)
  /\ \A i, j \in 1..Len(sl) : sl[i].task # NoTask /\ sl[i].task = sl[j].task => i = j
  /\ \A i \in 1..Len(sl) : sl[i].task # NoTask =>
       sl[i].ready /\ \A j \in 1..Len(qu) : qu[j] # sl[i].task
  /\ \A t \in Tasks : \/ \E j \in 1..Len(qu) : qu[j] = t
                      \/ \E i \in 1..Len(sl) : sl[i].task = t
                      <=> t \in O /\ PoolOf[t] = q

LEMMA TailDoes ==
  ASSUME NEW S, NEW seq \in Seq(S), seq # <<>>
  PROVE  /\ Tail(seq) = RemoveAt(seq, 1) /\ Head(seq) = seq[1]
         /\ 1 \in 1..Len(seq) /\ Head(seq) \in S
<1>1. 1 \in 1..Len(seq)
  BY EmptySeq
<1>2. /\ Tail(seq) \in Seq(S) /\ Len(Tail(seq)) = Len(seq) - 1
      /\ \A j \in 1..(Len(seq) - 1) : Tail(seq)[j] = seq[j + 1]
  BY HeadTailProperties
<1>3. /\ RemoveAt(seq, 1) \in Seq(S) /\ Len(RemoveAt(seq, 1)) = Len(seq) - 1
      /\ \A j \in 1..(Len(seq) - 1) : RemoveAt(seq, 1)[j] = seq[j + 1]
  <2>1. /\ RemoveAt(seq, 1) \in Seq(S) /\ Len(RemoveAt(seq, 1)) = Len(seq) - 1
        /\ \A j \in 1..(Len(seq) - 1) : RemoveAt(seq, 1)[j] = IF j < 1 THEN seq[j] ELSE seq[j + 1]
    BY <1>1, RemoveAtDoes
  <2>. QED BY <2>1
<1>4. Tail(seq) = RemoveAt(seq, 1)
  BY <1>2, <1>3, SeqEqual
<1>. QED BY <1>1, <1>4

LEMMA TidyElsewhere ==
  ASSUME NEW sl, NEW qu, NEW q, NEW O, NEW P, Tidy(sl, qu, q, O),
         \A t \in Tasks : PoolOf[t] = q => (t \in O <=> t \in P)
  PROVE  Tidy(sl, qu, q, P)
  BY DEF Tidy

LEMMA TidyDrop ==
  ASSUME NEW q, NEW O, NEW sl \in Seq(Slots), NEW qu \in Seq(Tasks), Tidy(sl, qu, q, O),
         NEW k \in 1..Len(sl)
  PROVE  Tidy(RemoveAt(sl, k), qu, q, O \ {sl[k].task})
<1> DEFINE t == RemoveAt(sl, k)
           at(a) == IF a < k THEN a ELSE a + 1
<1>1. /\ t \in Seq(Slots) /\ Len(t) = Len(sl) - 1 /\ Len(sl) \in Nat
      /\ \A j \in 1..(Len(sl) - 1) : t[j] = IF j < k THEN sl[j] ELSE sl[j + 1]
  BY RemoveAtDoes, LenProperties, Zenon
<1> HIDE DEF t
<1>2. \A j \in 1..Len(t) : at(j) \in 1..Len(sl) /\ at(j) # k /\ t[j] = sl[at(j)]
  BY <1>1
<1>3. \A i, j \in 1..Len(t) : at(i) = at(j) => i = j
  BY <1>1
<1>4. \A i \in 1..Len(sl) : i # k => \E j \in 1..Len(t) : t[j] = sl[i]
  <2> SUFFICES ASSUME NEW i \in 1..Len(sl), i # k PROVE \E j \in 1..Len(t) : t[j] = sl[i]
    OBVIOUS
  <2>1. CASE i < k
    <3>1. i \in 1..Len(t) /\ t[i] = sl[i]
      BY <2>1, <1>1
    <3>. QED BY <3>1
  <2>2. CASE ~(i < k)
    <3>1. i - 1 \in 1..Len(t) /\ t[i - 1] = sl[i]
      BY <2>2, <1>1
    <3>. QED BY <3>1
  <2>. QED BY <2>1, <2>2
<1> HIDE DEF at
<1>5. \A i, j \in 1..Len(t) : t[i].task # NoTask /\ t[i].task = t[j].task => i = j
  BY <1>2, <1>3 DEF Tidy
<1>6. \A i \in 1..Len(t) : t[i].task # NoTask =>
        t[i].ready /\ \A j \in 1..Len(qu) : qu[j] # t[i].task
  BY <1>2 DEF Tidy
<1>7. ASSUME NEW x \in Tasks
      PROVE  \/ \E j \in 1..Len(qu) : qu[j] = x
             \/ \E i \in 1..Len(t) : t[i].task = x
             <=> x \in O \ {sl[k].task} /\ PoolOf[x] = q
  <2>1. CASE x = sl[k].task
    <3>1. x # NoTask
      BY PoolAssumption
    <3>2. ~(\E j \in 1..Len(qu) : qu[j] = x) /\ ~(\E i \in 1..Len(t) : t[i].task = x)
      BY <2>1, <3>1, <1>2 DEF Tidy
    <3>. QED BY <2>1, <3>2
  <2>2. CASE x # sl[k].task
    <3>1. (\E i \in 1..Len(t) : t[i].task = x) <=> (\E i \in 1..Len(sl) : sl[i].task = x)
      BY <2>2, <1>2, <1>4
    <3>. QED BY <2>2, <3>1 DEF Tidy
  <2>. QED BY <2>1, <2>2
<1>. QED BY <1>5, <1>6, <1>7 DEF Tidy, t

LEMMA TidyTake ==
  ASSUME NEW q, NEW O, NEW sl \in Seq(Slots), NEW qu \in Seq(Tasks), Tidy(sl, qu, q, O),
         NEW k \in 1..Len(qu)
  PROVE  Tidy(sl, RemoveAt(qu, k), q, O \ {qu[k]})
<1> DEFINE t == RemoveAt(qu, k)
<1>1. t \in Seq(Tasks) /\ ToSet(t) \subseteq ToSet(qu) /\ ToSet(qu) \subseteq ToSet(t) \cup {qu[k]}
      /\ Distinct(t) /\ qu[k] \notin ToSet(t) /\ qu[k] \in ToSet(qu)
  BY RemoveAtDoes, WithoutOne, ToSetIs DEF Tidy
<1> HIDE DEF t
<1>2. /\ \A x : x \in ToSet(qu) <=> \E j \in 1..Len(qu) : qu[j] = x
      /\ \A x : x \in ToSet(t) <=> \E j \in 1..Len(t) : t[j] = x
  BY <1>1, ToSetIs
<1>3. ASSUME NEW i \in 1..Len(sl), sl[i].task # NoTask, NEW j \in 1..Len(t)
      PROVE  sl[i].ready /\ t[j] # sl[i].task
  <2>1. sl[i].ready /\ t[j] \in ToSet(qu)
    BY <1>1, <1>2, <1>3 DEF Tidy
  <2>. QED BY <2>1, <1>2, <1>3 DEF Tidy
<1>4. ASSUME NEW x \in Tasks
      PROVE  \/ \E j \in 1..Len(t) : t[j] = x
             \/ \E i \in 1..Len(sl) : sl[i].task = x
             <=> x \in O \ {qu[k]} /\ PoolOf[x] = q
  <2>1. CASE x = qu[k]
    <3>1. x # NoTask
      BY PoolAssumption
    <3>2. ~(\E j \in 1..Len(t) : t[j] = x) /\ ~(\E i \in 1..Len(sl) : sl[i].task = x)
      BY <2>1, <3>1, <1>1, <1>2 DEF Tidy
    <3>. QED BY <2>1, <3>2
  <2>2. CASE x # qu[k]
    <3>1. (\E j \in 1..Len(t) : t[j] = x) <=> (\E j \in 1..Len(qu) : qu[j] = x)
      BY <2>2, <1>1, <1>2
    <3>. QED BY <2>2, <3>1 DEF Tidy
  <2>. QED BY <2>1, <2>2
<1>5. \A i \in 1..Len(sl) : sl[i].task # NoTask => sl[i].ready
  BY DEF Tidy
<1>. QED BY <1>1, <1>3, <1>4, <1>5 DEF Tidy, t

LEMMA TidyAdd ==
  ASSUME NEW q, NEW O, NEW sl \in Seq(Slots), NEW qu \in Seq(Tasks), Tidy(sl, qu, q, O),
         NEW x \in Tasks, x \notin O, PoolOf[x] = q
  PROVE  Tidy(sl, Append(qu, x), q, O \cup {x})
<1> DEFINE t == Append(qu, x)
<1>1. /\ t \in Seq(Tasks) /\ ToSet(t) = ToSet(qu) \cup {x}
      /\ Distinct(qu) /\ x \notin ToSet(qu) => Distinct(t)
  BY AppendDoes
<1> HIDE DEF t
<1>2. /\ \A y : y \in ToSet(qu) <=> \E j \in 1..Len(qu) : qu[j] = y
      /\ \A y : y \in ToSet(t) <=> \E j \in 1..Len(t) : t[j] = y
  BY <1>1, ToSetIs
<1>3. x \notin ToSet(qu) /\ \A i \in 1..Len(sl) : sl[i].task # x
  BY <1>2 DEF Tidy
<1>4. Distinct(t)
  BY <1>1, <1>3 DEF Tidy
<1>5. ASSUME NEW i \in 1..Len(sl), sl[i].task # NoTask, NEW j \in 1..Len(t)
      PROVE  sl[i].ready /\ t[j] # sl[i].task
  <2>1. t[j] = x \/ t[j] \in ToSet(qu)
    BY <1>1, <1>2
  <2>. QED BY <2>1, <1>2, <1>3, <1>5 DEF Tidy
<1>6. ASSUME NEW y \in Tasks
      PROVE  \/ \E j \in 1..Len(t) : t[j] = y
             \/ \E i \in 1..Len(sl) : sl[i].task = y
             <=> y \in O \cup {x} /\ PoolOf[y] = q
  BY <1>1, <1>2, <1>3 DEF Tidy
<1>7. \A i \in 1..Len(sl) : sl[i].task # NoTask => sl[i].ready
  BY DEF Tidy
<1>. QED BY <1>4, <1>5, <1>6, <1>7 DEF Tidy, t

(* A slot that gets ready, or whose task settles.                           *)
LEMMA TidySlot ==
  ASSUME NEW q, NEW O, NEW sl \in Seq(Slots), NEW qu \in Seq(Tasks), Tidy(sl, qu, q, O),
         NEW k \in 1..Len(sl), NEW slot \in Slots, slot.task = NoTask
  PROVE  Tidy([sl EXCEPT ![k] = slot], qu, q, O \ {sl[k].task})
<1> DEFINE t == [sl EXCEPT ![k] = slot]
<1>1. t \in Seq(Slots) /\ Len(t) = Len(sl) /\ t[k] = slot
      /\ \A i \in 1..Len(sl) : i # k => t[i] = sl[i]
  BY ExceptSeq
<1> HIDE DEF t
<1>2. ASSUME NEW x \in Tasks
      PROVE  \/ \E j \in 1..Len(qu) : qu[j] = x
             \/ \E i \in 1..Len(t) : t[i].task = x
             <=> x \in O \ {sl[k].task} /\ PoolOf[x] = q
  <2>1. x # NoTask
    BY PoolAssumption
  <2>2. CASE x = sl[k].task
    <3>1. ~(\E j \in 1..Len(qu) : qu[j] = x) /\ ~(\E i \in 1..Len(t) : t[i].task = x)
      BY <2>1, <2>2, <1>1 DEF Tidy
    <3>. QED BY <2>2, <3>1
  <2>3. CASE x # sl[k].task
    <3>1. (\E i \in 1..Len(t) : t[i].task = x) <=> (\E i \in 1..Len(sl) : sl[i].task = x)
      BY <2>1, <2>3, <1>1
    <3>. QED BY <2>3, <3>1 DEF Tidy
  <2>. QED BY <2>2, <2>3
<1>3. \A i, j \in 1..Len(t) : t[i].task # NoTask /\ t[i].task = t[j].task => i = j
  <2>1. \A i \in 1..Len(t) : t[i].task # NoTask => i # k /\ i \in 1..Len(sl) /\ t[i] = sl[i]
    BY <1>1
  <2>2. \A i, j \in 1..Len(sl) : sl[i].task # NoTask /\ sl[i].task = sl[j].task => i = j
    BY DEF Tidy
  <2> SUFFICES ASSUME NEW i \in 1..Len(t), NEW j \in 1..Len(t), t[i].task # NoTask,
                      t[i].task = t[j].task
               PROVE  i = j
    OBVIOUS
  <2>. QED BY <2>1, <2>2
<1>4. \A i \in 1..Len(t) : t[i].task # NoTask =>
        t[i].ready /\ \A j \in 1..Len(qu) : qu[j] # t[i].task
  BY <1>1 DEF Tidy
<1>. QED BY <1>2, <1>3, <1>4 DEF Tidy, t

LEMMA TidyHandOver ==
  ASSUME NEW q, NEW O, NEW sl \in Seq(Slots), NEW qu \in Seq(Tasks), Tidy(sl, qu, q, O),
         NEW k \in 1..Len(sl), Idle(sl[k]), qu # <<>>
  PROVE  Tidy([sl EXCEPT ![k] = [@ EXCEPT !.task = Head(qu)]], Tail(qu), q, O)
<1> DEFINE x == Head(qu)
           slot == [sl[k] EXCEPT !.task = x]
           t == [sl EXCEPT ![k] = slot]
<1>1. x = qu[1] /\ x \in Tasks /\ 1 \in 1..Len(qu) /\ Tail(qu) = RemoveAt(qu, 1)
  BY TailDoes
<1>2. slot \in Slots /\ slot.task = x /\ slot.ready
  <2>1. sl[k] \in Slots
    OBVIOUS
  <2>. QED BY <1>1, <2>1 DEF Slots, Idle
<1>3. Tidy(sl, Tail(qu), q, O \ {x})
  <2>1. Tidy(sl, RemoveAt(qu, 1), q, O \ {qu[1]})
    BY <1>1, TidyTake
  <2>. QED BY <1>1, <2>1, Zenon
<1>4. t \in Seq(Slots) /\ Len(t) = Len(sl) /\ t[k] = slot
      /\ \A i \in 1..Len(sl) : i # k => t[i] = sl[i]
  BY <1>2, ExceptSeq
<1>5. sl[k].task = NoTask /\ x # NoTask
  BY <1>1, PoolAssumption DEF Idle
<1>6. /\ x \in O /\ PoolOf[x] = q
      /\ \A i \in 1..Len(sl) : sl[i].task # x
      /\ \A j \in 1..Len(Tail(qu)) : Tail(qu)[j] # x
  <2>1. \A j \in 1..Len(Tail(qu)) : Tail(qu)[j] # x
    BY <1>1, <1>3 DEF Tidy
  <2>. QED BY <1>1, <1>5, <2>1 DEF Tidy
<1> HIDE DEF t, slot, x
<1>7. \A i, j \in 1..Len(t) : t[i].task # NoTask /\ t[i].task = t[j].task => i = j
  BY <1>2, <1>3, <1>4, <1>6 DEF Tidy
<1>8. \A i \in 1..Len(t) : t[i].task # NoTask =>
        t[i].ready /\ \A j \in 1..Len(Tail(qu)) : Tail(qu)[j] # t[i].task
  BY <1>2, <1>3, <1>4, <1>6 DEF Tidy
<1>9. ASSUME NEW y \in Tasks
      PROVE  \/ \E j \in 1..Len(Tail(qu)) : Tail(qu)[j] = y
             \/ \E i \in 1..Len(t) : t[i].task = y
             <=> y \in O /\ PoolOf[y] = q
  <2>1. CASE y = x
    BY <2>1, <1>2, <1>4, <1>6
  <2>2. CASE y # x
    <3>1. y # NoTask
      BY PoolAssumption
    <3>2. (\E i \in 1..Len(t) : t[i].task = y) <=> (\E i \in 1..Len(sl) : sl[i].task = y)
      BY <2>2, <3>1, <1>2, <1>4, <1>5
    <3>. QED BY <2>2, <3>2, <1>3 DEF Tidy
  <2>. QED BY <2>1, <2>2
<1>10. Tidy(t, Tail(qu), q, O)
  BY <1>3, <1>7, <1>8, <1>9 DEF Tidy
<1>. QED BY <1>10 DEF t, slot, x
-----------------------------------------------------------------------------
(* A pool at rest is in line exactly when it could use a worker, and has no *)
(* idle worker while it has tasks to give out.                              *)
Line(s, q) == /\ NeedsWorker(s, q) <=> q \in ToSet(s.waiters) \cup s.reserved
              /\ IdleAt(s, q) # {} => s.queue[q] = <<>>

(* Between two steps of a handler that works on the pools E.                *)
Loose(s, E, O) == /\ Typed(s) /\ Counted(s) /\ ~s.closed
                  /\ \A q \in Pools : Tidy(s.slots[q], s.queue[q], q, O)
                  /\ \A q \in Pools \ E : Line(s, q)
                  /\ s.reserved \ E \subseteq ToSet(s.wakes)
                  /\ \A q \in Pools : s.slots[q] # <<>> \/ s.queue[q] # <<>>
                                       => q \in ToSet(s.pools)

Full(s) == s.waiters = <<>> \/ Free(s) <= 0

(* What giving up workers of p, and passing the budget on, does to the line. *)
Moved(s, t, p) ==
  /\ t.queue = s.queue /\ t.open = s.open /\ t.pools = s.pools /\ t.closed = s.closed
  /\ \A q \in Pools \ {p} : t.slots[q] = s.slots[q]
  /\ ToSet(t.waiters) \subseteq ToSet(s.waiters) /\ ToSet(s.wakes) \subseteq ToSet(t.wakes)
  /\ \A q \in t.reserved \ s.reserved :
       q \in ToSet(s.waiters) /\ q \notin ToSet(t.waiters) /\ q \in ToSet(t.wakes)
  /\ \A q \in Pools \ {p} : q \in ToSet(s.waiters) \cup s.reserved /\ NeedsWorker(s, q)
                              => q \in ToSet(t.waiters) \cup t.reserved

LEMMA SamePool ==
  ASSUME NEW s, NEW t, NEW q, t.slots[q] = s.slots[q], t.queue[q] = s.queue[q],
         t.closed = s.closed
  PROVE  /\ NeedsWorker(t, q) <=> NeedsWorker(s, q)
         /\ IdleAt(t, q) = IdleAt(s, q) /\ StartingAt(t, q) = StartingAt(s, q)
  BY DEF NeedsWorker, IdleAt, StartingAt

LEMMA MovedTwice ==
  ASSUME NEW s, NEW u, NEW t, NEW p, Moved(s, u, p), Moved(u, t, p)
  PROVE  Moved(s, t, p)
<1>1. \A q \in Pools \ {p} : NeedsWorker(u, q) <=> NeedsWorker(s, q)
  BY SamePool DEF Moved
<1>. QED BY <1>1, Zenon DEF Moved

LEMMA ReserveLoose ==
  ASSUME NEW s, NEW E, NEW O, Loose(s, E, O)
  PROVE  LET t == Reserve(s)
         IN  /\ Loose(t, E, O) /\ Full(t) /\ SameWork(s, t)
             /\ \A p : Moved(s, t, p)
<1> DEFINE t == Reserve(s)
<1>1. s \in Sys /\ Granted(s, t) /\ (t.waiters = <<>> \/ Free(t) <= 0)
  BY ReserveDoes DEF Loose, Typed, Counted
<1> HIDE DEF t
<1>2. t \in Sys /\ SameWork(s, t)
  BY <1>1 DEF Granted
<1>3. Typed(t)
  BY <1>2 DEF Loose, Typed, SameWork
<1>4. Counted(t)
  <2>1. Live(t) = Live(s)
    BY <1>2 DEF Live, SameWork
  <2>. QED BY <1>1, <1>2, <2>1 DEF Loose, Counted, Granted, SameWork
<1>5. ASSUME NEW q \in Pools
      PROVE  (NeedsWorker(t, q) <=> NeedsWorker(s, q)) /\ IdleAt(t, q) = IdleAt(s, q)
  BY <1>2, SamePool DEF SameWork
<1>6. ASSUME NEW q \in Pools \ E PROVE Line(t, q)
  <2>1. Line(s, q)
    BY DEF Loose
  <2>2. q \in ToSet(t.waiters) \cup t.reserved => q \in ToSet(s.waiters) \cup s.reserved
    BY <1>1 DEF Granted
  <2>3. q \in ToSet(s.waiters) \cup s.reserved /\ NeedsWorker(s, q)
          => q \in ToSet(t.waiters) \cup t.reserved
    BY <1>1 DEF Granted
  <2>4. t.queue = s.queue
    BY <1>2 DEF SameWork
  <2>. QED BY <1>5, <2>1, <2>2, <2>3, <2>4 DEF Line
<1>7. Loose(t, E, O)
  <2>1. t.reserved \ E \subseteq ToSet(t.wakes)
    BY <1>1 DEF Loose, Granted
  <2>. QED BY <1>2, <1>3, <1>4, <1>6, <2>1, Zenon DEF Loose, SameWork
<1>8. ASSUME NEW p PROVE Moved(s, t, p)
  BY <1>1, Zenon DEF Granted, SameWork, Moved
<1>. QED BY <1>1, <1>2, <1>7, <1>8 DEF t, Full

(* p has left the line.                                                     *)
Away(s, p) == p \notin ToSet(s.waiters) /\ p \notin s.reserved

LEMMA CancelLoose ==
  ASSUME NEW s, NEW E, NEW O, Loose(s, E, O), NEW p \in E, p \in Pools
  PROVE  LET t == Cancel(s, p)
         IN  Loose(t, E, O) /\ Full(t) /\ SameWork(s, t) /\ Moved(s, t, p) /\ Away(t, p)
<1> DEFINE u == [s EXCEPT !.waiters = RemoveFirst(@, p), !.reserved = @ \ {p}]
           line == RemoveFirst(s.waiters, p)
<1>1. s \in Sys /\ s.waiters \in Seq(Pools) /\ Distinct(s.waiters)
  BY FieldsOf DEF Loose, Typed, Counted
<1>2. /\ line \in Seq(Pools) /\ Distinct(line) /\ ToSet(line) = ToSet(s.waiters) \ {p}
  <2>1. CASE p \notin ToSet(s.waiters)
    BY <1>1, <2>1, RemoveFirstDoes
  <2>2. CASE p \in ToSet(s.waiters)
    <3>1. PICK i \in 1..Len(s.waiters) : s.waiters[i] = p /\ line = RemoveAt(s.waiters, i)
      BY <1>1, <2>2, RemoveFirstDoes
    <3>. QED BY <1>1, <3>1, RemoveAtDoes, WithoutOne
  <2>. QED BY <2>1, <2>2
<1> HIDE DEF line
<1>3. u = [s EXCEPT !.waiters = line, !.reserved = s.reserved \ {p}]
  BY <1>1, FieldsOf DEF line
<1> HIDE DEF u
<1>4. u \in Sys /\ SameWork(s, u) /\ u.waiters = line /\ u.reserved = s.reserved \ {p}
      /\ u.wakes = s.wakes /\ u.workers = s.workers
  BY <1>1, <1>2, <1>3, FieldsOf DEF Sys, SameWork
<1>5. Counted(u)
  <2>1. Live(u) = Live(s)
    BY <1>4 DEF Live, SameWork
  <2>2. /\ IsFiniteSet(u.reserved) /\ Cardinality(u.reserved) <= Cardinality(s.reserved)
        /\ Cardinality(u.reserved) \in Nat /\ Cardinality(s.reserved) \in Nat
    BY <1>4, FS_Subset, FS_CardinalityType DEF Loose, Counted
  <2>3. Free(u) >= 0
    <3>1. s.workers \in Int /\ Limit \in Nat /\ Limit - (s.workers + Cardinality(s.reserved)) >= 0
      BY <1>1, FieldsOf, PoolAssumption DEF Loose, Counted, Free
    <3>2. Limit - (u.workers + Cardinality(u.reserved)) >= 0
      BY <3>1, <2>2, <1>4
    <3>. QED BY <3>2 DEF Free
  <2>. QED BY <2>1, <2>2, <2>3, <1>2, <1>4 DEF Loose, Counted
<1>6. ASSUME NEW q \in Pools \ E PROVE Line(u, q)
  <2>1. Line(s, q) /\ q # p
    BY DEF Loose
  <2>2. (NeedsWorker(u, q) <=> NeedsWorker(s, q)) /\ IdleAt(u, q) = IdleAt(s, q)
    BY <1>4, SamePool DEF SameWork
  <2>3. q \in ToSet(u.waiters) \cup u.reserved <=> q \in ToSet(s.waiters) \cup s.reserved
    BY <2>1, <1>2, <1>4
  <2>4. u.queue = s.queue
    BY <1>4 DEF SameWork
  <2>. QED BY <2>1, <2>2, <2>3, <2>4 DEF Line
<1>7. Loose(u, E, O)
  <2>1. Typed(u)
    BY <1>4 DEF Loose, Typed, SameWork
  <2>2. u.reserved \ E \subseteq ToSet(u.wakes)
    BY <1>4 DEF Loose
  <2>. QED BY <1>4, <1>5, <1>6, <2>1, <2>2, Zenon DEF Loose, SameWork
<1>8. Moved(s, u, p)
  BY <1>2, <1>4 DEF Moved, SameWork
<1> DEFINE t == Reserve(u)
<1>9. Loose(t, E, O) /\ Full(t) /\ SameWork(u, t) /\ Moved(u, t, p)
  BY <1>7, ReserveLoose
<1>10. Cancel(s, p) = t
  BY Zenon DEF Cancel, u
<1> HIDE DEF t
<1>11. Moved(s, t, p)
  BY <1>8, <1>9, MovedTwice
<1>12. SameWork(s, t) /\ Away(t, p)
  <2>1. Away(u, p)
    BY <1>2, <1>4 DEF Away
  <2>. QED BY <1>4, <1>9, <2>1 DEF SameWork, Away, Moved
<1>. QED BY <1>9, <1>10, <1>11, <1>12

LEMMA LiveWithout ==
  ASSUME NEW s, NEW t, s.slots \in [Pools -> Seq(Slots)], NEW p \in Pools,
         \A q \in Pools \ {p} : t.slots[q] = s.slots[q],
         NEW sl \in Seq(Slots), t.slots[p] = sl, Len(sl) = Len(s.slots[p]) - 1,
         Len(s.slots[p]) <= Size, IsFiniteSet(Live(s))
  PROVE  IsFiniteSet(Live(t)) /\ Cardinality(Live(t)) = Cardinality(Live(s)) - 1
<1> DEFINE n == Len(s.slots[p])
<1>1. n \in Nat /\ DOMAIN s.slots[p] = 1..n /\ DOMAIN t.slots[p] = 1..(n - 1) /\ Len(sl) \in Nat
  <2>1. s.slots[p] \in Seq(Slots)
    OBVIOUS
  <2>. QED BY <2>1, LenProperties
<1>2. n >= 1 /\ n \in 1..Size
  BY <1>1, PoolAssumption
<1> HIDE DEF n
<1>3. <<p, n>> \in Live(s)
  BY <1>1, <1>2, PoolAssumption DEF Live
<1>4. Live(t) = Live(s) \ {<<p, n>>}
  <2>1. ASSUME NEW q \in Pools, NEW i \in 1..Size
        PROVE  <<q, i>> \in Live(t) <=> <<q, i>> \in Live(s) \ {<<p, n>>}
    <3>1. /\ <<q, i>> \in Live(t) <=> i \in DOMAIN t.slots[q]
          /\ <<q, i>> \in Live(s) <=> i \in DOMAIN s.slots[q]
      BY DEF Live
    <3>2. CASE q = p
      BY <3>1, <3>2, <1>1, <1>2
    <3>3. CASE q # p
      BY <3>1, <3>3
    <3>. QED BY <3>2, <3>3
  <2>2. \A x \in Live(t) \cup Live(s) : \E q \in Pools, i \in 1..Size : x = <<q, i>>
    BY DEF Live
  <2>. QED BY <2>1, <2>2
<1>. QED BY <1>3, <1>4, FS_RemoveElement

LEMMA DropLoose ==
  ASSUME NEW s, NEW E, NEW O, Loose(s, E, O), NEW p \in E, p \in Pools,
         NEW i \in 1..Len(s.slots[p])
  PROVE  LET t == DropSlot(s, p, i)
         IN  /\ Loose(t, E, O \ {s.slots[p][i].task}) /\ Full(t) /\ Moved(s, t, p)
             /\ t.slots[p] = RemoveAt(s.slots[p], i) /\ t.workers = s.workers - 1
             /\ Away(s, p) => Away(t, p)
<1> DEFINE u == [s EXCEPT !.slots[p] = RemoveAt(@, i), !.workers = @ - 1]
           sl == RemoveAt(s.slots[p], i)
           task == s.slots[p][i].task
<1>1. /\ s \in Sys /\ s.slots \in [Pools -> Seq(Slots)] /\ s.slots[p] \in Seq(Slots)
      /\ s.workers \in Int /\ s.queue \in [Pools -> Seq(Tasks)]
  BY FieldsOf DEF Loose, Typed
<1>2. sl \in Seq(Slots) /\ Len(sl) = Len(s.slots[p]) - 1
  BY <1>1, RemoveAtDoes
<1> HIDE DEF sl
<1>3. u = [s EXCEPT !.slots = [s.slots EXCEPT ![p] = sl], !.workers = s.workers - 1]
  BY <1>1, FieldsOf DEF sl
<1> HIDE DEF u
<1>4. /\ u \in Sys /\ u.slots = [s.slots EXCEPT ![p] = sl] /\ u.workers = s.workers - 1
      /\ u.queue = s.queue /\ u.open = s.open /\ u.pools = s.pools /\ u.closed = s.closed
      /\ u.waiters = s.waiters /\ u.reserved = s.reserved /\ u.wakes = s.wakes
  <2>1. [s.slots EXCEPT ![p] = sl] \in [Pools -> Seq(Slots)] /\ s.workers - 1 \in Int
    BY <1>1, <1>2
  <2>. QED BY <2>1, <1>1, <1>3, FieldsOf DEF Sys
<1>5. u.slots[p] = sl /\ \A q \in Pools \ {p} : u.slots[q] = s.slots[q]
  BY <1>1, <1>4
<1>6. Len(s.slots[p]) \in Nat /\ Len(s.slots[p]) <= Size
  BY <1>1, LenProperties DEF Loose, Typed
<1>7. Typed(u)
  <2>1. ASSUME NEW q \in Pools PROVE Len(u.slots[q]) <= Size /\ Len(u.queue[q]) <= MaxQueue
    <3>1. Len(s.slots[q]) <= Size /\ Len(s.queue[q]) <= MaxQueue
      BY DEF Loose, Typed
    <3>2. CASE q = p
      BY <3>1, <3>2, <1>2, <1>4, <1>5, <1>6, PoolAssumption
    <3>3. CASE q # p
      BY <3>1, <3>3, <1>4, <1>5
    <3>. QED BY <3>2, <3>3
  <2>. QED BY <1>4, <2>1 DEF Typed
<1>8. Counted(u)
  <2>1. IsFiniteSet(Live(u)) /\ Cardinality(Live(u)) = Cardinality(Live(s)) - 1
    BY <1>1, <1>2, <1>5, <1>6, LiveWithout DEF Loose, Counted
  <2>2. Free(u) >= 0
    <3>1. Cardinality(s.reserved) \in Nat /\ Limit \in Nat
          /\ Limit - (s.workers + Cardinality(s.reserved)) >= 0
      BY PoolAssumption, FS_CardinalityType DEF Loose, Counted, Free
    <3>2. Limit - (u.workers + Cardinality(u.reserved)) >= 0
      BY <3>1, <1>1, <1>4
    <3>. QED BY <3>2 DEF Free
  <2>. QED BY <2>1, <2>2, <1>4 DEF Loose, Counted
<1>9. ASSUME NEW q \in Pools PROVE Tidy(u.slots[q], u.queue[q], q, O \ {task})
  <2>1. Tidy(s.slots[q], s.queue[q], q, O) /\ s.queue[q] \in Seq(Tasks)
    BY <1>1 DEF Loose
  <2>2. CASE q = p
    <3>1. Tidy(s.slots[p], s.queue[p], p, O) /\ s.queue[p] \in Seq(Tasks)
      BY <2>1, <2>2
    <3>2. Tidy(sl, s.queue[p], p, O \ {task})
      BY <3>1, <1>1, TidyDrop, Zenon DEF sl
    <3>. QED BY <3>2, <2>2, <1>4, <1>5
  <2>3. CASE q # p
    <3>1. \A x \in Tasks : PoolOf[x] = q => (x \in O <=> x \in O \ {task})
      <4>1. Tidy(s.slots[p], s.queue[p], p, O)
        BY DEF Loose
      <4>2. task \in Tasks => PoolOf[task] = p
        BY <4>1 DEF Tidy
      <4>. QED BY <2>3, <4>2
    <3>2. Tidy(s.slots[q], s.queue[q], q, O \ {task})
      BY <2>1, <3>1, TidyElsewhere
    <3>. QED BY <2>3, <3>2, <1>4, <1>5
  <2>. QED BY <2>2, <2>3
<1>10. ASSUME NEW q \in Pools \ E PROVE Line(u, q)
  <2>1. Line(s, q) /\ q # p
    BY DEF Loose
  <2>2. (NeedsWorker(u, q) <=> NeedsWorker(s, q)) /\ IdleAt(u, q) = IdleAt(s, q)
    BY <2>1, <1>4, <1>5, SamePool
  <2>. QED BY <2>1, <2>2, <1>4 DEF Line
<1>11. Loose(u, E, O \ {task})
  <2>1. u.reserved \ E \subseteq ToSet(u.wakes) /\ ~u.closed
    BY <1>4 DEF Loose
  <2>2. ASSUME NEW q \in Pools, u.slots[q] # <<>> \/ u.queue[q] # <<>> PROVE q \in ToSet(u.pools)
    <3>1. s.slots[p] # <<>>
      BY <1>6, EmptySeq
    <3>2. s.slots[q] # <<>> \/ s.queue[q] # <<>>
      BY <2>2, <3>1, <1>4, <1>5
    <3>. QED BY <3>2, <1>4 DEF Loose
  <2>. QED BY <1>7, <1>8, <1>9, <1>10, <2>1, <2>2 DEF Loose
<1>12. Moved(s, u, p)
  BY <1>4, <1>5 DEF Moved
<1> DEFINE t == Reserve(u)
<1>13. Loose(t, E, O \ {task}) /\ Full(t) /\ SameWork(u, t) /\ Moved(u, t, p)
  BY <1>11, ReserveLoose
<1>14. DropSlot(s, p, i) = t
  BY Zenon DEF DropSlot, u
<1> HIDE DEF t
<1>15. Moved(s, t, p)
  BY <1>12, <1>13, MovedTwice
<1>16. Away(s, p) => Away(t, p)
  BY <1>15 DEF Away, Moved
<1>17. t.slots[p] = sl /\ t.workers = s.workers - 1
  BY <1>4, <1>5, <1>13 DEF SameWork
<1>. QED BY <1>13, <1>14, <1>15, <1>16, <1>17 DEF sl

LEMMA RetireLoose ==
  ASSUME NEW s, NEW E, NEW O \in SUBSET Tasks, Loose(s, E, O), NEW p \in E, p \in Pools,
         IdleAt(s, p) # {}
  PROVE  LET t == RetireIdle(s, p)
         IN  /\ Loose(t, E, O) /\ Full(t) /\ Moved(s, t, p) /\ Away(t, p)
             /\ Len(t.slots[p]) = Len(s.slots[p]) - 1 /\ t.workers = s.workers - 1
<1> DEFINE u == Cancel(s, p)
           i == Min(IdleAt(s, p))
           t == DropSlot(u, p, i)
<1>1. s.slots[p] \in Seq(Slots)
  BY FieldsOf DEF Loose, Typed
<1>2. i \in 1..Len(s.slots[p]) /\ s.slots[p][i].task = NoTask
  <2>1. IdleAt(s, p) \in SUBSET Nat /\ \A j \in IdleAt(s, p) : j \in 1..Len(s.slots[p])
    BY <1>1 DEF IdleAt
  <2>2. i \in IdleAt(s, p)
    BY <2>1, MinDoes
  <2>. QED BY <2>1, <2>2 DEF IdleAt, Idle
<1>3. Loose(u, E, O) /\ SameWork(s, u) /\ Moved(s, u, p) /\ Away(u, p)
  BY CancelLoose
<1>4. RetireIdle(s, p) = t
  BY Zenon DEF RetireIdle
<1> HIDE DEF u, i
<1>5. u.slots = s.slots /\ u.workers = s.workers
  BY <1>3 DEF SameWork
<1>6. /\ Loose(t, E, O \ {u.slots[p][i].task}) /\ Full(t) /\ Moved(u, t, p)
      /\ t.slots[p] = RemoveAt(u.slots[p], i) /\ t.workers = u.workers - 1
      /\ Away(u, p) => Away(t, p)
  <2>1. i \in 1..Len(u.slots[p])
    BY <1>2, <1>5
  <2>. QED BY <1>3, <2>1, DropLoose
<1> HIDE DEF t
<1>7. O \ {u.slots[p][i].task} = O
  BY <1>2, <1>5, PoolAssumption
<1>8. Moved(s, t, p)
  BY <1>3, <1>6, MovedTwice
<1>9. Len(t.slots[p]) = Len(s.slots[p]) - 1
  BY <1>1, <1>2, <1>5, <1>6, RemoveAtDoes
<1>. QED BY <1>3, <1>4, <1>5, <1>6, <1>7, <1>8, <1>9

(* What a step on the tasks of p alone leaves as it was.                    *)
OnlyAt(s, t, p) ==
  /\ t.waiters = s.waiters /\ t.reserved = s.reserved /\ t.wakes = s.wakes
  /\ ToSet(s.pools) \subseteq ToSet(t.pools) /\ t.workers = s.workers /\ t.closed = s.closed
  /\ \A q \in Pools \ {p} : t.slots[q] = s.slots[q] /\ t.queue[q] = s.queue[q]
  /\ Len(t.slots[p]) = Len(s.slots[p])

LEMMA OnlyAtLoose ==
  ASSUME NEW s, NEW E, NEW O, Loose(s, E, O), NEW p \in E, p \in Pools,
         NEW t \in Sys, OnlyAt(s, t, p), Len(t.queue[p]) <= MaxQueue,
         t.queue[p] # <<>> => p \in ToSet(t.pools),
         NEW P, \A q \in Pools : Tidy(t.slots[q], t.queue[q], q, P)
  PROVE  Loose(t, E, P) /\ Free(t) = Free(s) /\ (Full(s) => Full(t))
<1>1. /\ s \in Sys /\ s.slots \in [Pools -> Seq(Slots)] /\ t.slots \in [Pools -> Seq(Slots)]
  BY FieldsOf DEF Loose, Typed
<1>2. \A q \in Pools : Len(t.slots[q]) = Len(s.slots[q])
  BY DEF OnlyAt
<1>3. Typed(t)
  BY <1>2 DEF Loose, Typed, OnlyAt
<1>4. Counted(t) /\ Free(t) = Free(s)
  <2>1. Live(t) = Live(s)
    <3>1. \A q \in Pools : DOMAIN t.slots[q] = DOMAIN s.slots[q]
      BY <1>1, <1>2
    <3>. QED BY <3>1 DEF Live
  <2>2. Free(t) = Free(s)
    BY DEF Free, OnlyAt
  <2>. QED BY <2>1, <2>2 DEF Loose, Counted, OnlyAt
<1>5. ASSUME NEW q \in Pools \ E PROVE Line(t, q)
  <2>1. Line(s, q) /\ q # p
    BY DEF Loose
  <2>2. (NeedsWorker(t, q) <=> NeedsWorker(s, q)) /\ IdleAt(t, q) = IdleAt(s, q)
    BY <2>1, SamePool DEF OnlyAt
  <2>. QED BY <2>1, <2>2 DEF Line, OnlyAt
<1>6. ASSUME NEW q \in Pools, t.slots[q] # <<>> \/ t.queue[q] # <<>> PROVE q \in ToSet(t.pools)
  <2>1. CASE q # p \/ t.slots[q] # <<>>
    <3>1. s.slots[q] # <<>> \/ s.queue[q] # <<>>
      BY <1>1, <1>2, <1>6, <2>1, EmptySeq DEF OnlyAt
    <3>. QED BY <3>1 DEF Loose, OnlyAt
  <2>2. CASE q = p /\ t.queue[q] # <<>>
    BY <2>2
  <2>. QED BY <1>6, <2>1, <2>2
<1>. QED BY <1>3, <1>4, <1>5, <1>6 DEF Loose, OnlyAt, Full

LEMMA FailOldestLoose ==
  ASSUME NEW s, NEW E, Loose(s, E, s.open), NEW p \in E, p \in Pools
  PROVE  LET t == FailOldest(s, p)
         IN  /\ Loose(t, E, t.open) /\ OnlyAt(s, t, p) /\ (Full(s) => Full(t))
             /\ t.slots = s.slots
             /\ s.queue[p] # <<>> => Len(t.queue[p]) = Len(s.queue[p]) - 1
<1> DEFINE t == FailOldest(s, p)
<1>1. /\ s \in Sys /\ s.slots \in [Pools -> Seq(Slots)] /\ s.queue \in [Pools -> Seq(Tasks)]
      /\ s.queue[p] \in Seq(Tasks) /\ s.open \in SUBSET Tasks
  BY FieldsOf DEF Loose, Typed
<1>2. CASE s.queue[p] = <<>>
  BY <1>2 DEF FailOldest, OnlyAt
<1>3. CASE s.queue[p] # <<>>
  <2> DEFINE qu == Tail(s.queue[p])
             x == Head(s.queue[p])
  <2>1. /\ qu = RemoveAt(s.queue[p], 1) /\ x = s.queue[p][1] /\ 1 \in 1..Len(s.queue[p])
        /\ x \in Tasks
    BY <1>1, <1>3, TailDoes
  <2>2. qu \in Seq(Tasks) /\ Len(qu) = Len(s.queue[p]) - 1 /\ Len(s.queue[p]) \in Nat
    BY <1>1, <2>1, RemoveAtDoes, LenProperties
  <2>3. t = [s EXCEPT !.queue = [s.queue EXCEPT ![p] = qu], !.open = s.open \ {x}]
    BY <1>1, <1>3, FieldsOf DEF FailOldest
  <2> HIDE DEF t
  <2>4. /\ t \in Sys /\ t.queue = [s.queue EXCEPT ![p] = qu] /\ t.open = s.open \ {x}
        /\ t.slots = s.slots /\ OnlyAt(s, t, p)
    <3>1. [s.queue EXCEPT ![p] = qu] \in [Pools -> Seq(Tasks)] /\ s.open \ {x} \in SUBSET Tasks
      BY <1>1, <2>2
    <3> HIDE DEF qu, x
    <3>2. s \in Sys
      BY <1>1
    <3>3. t \in Sys
      BY ONLY <3>1, <3>2, <2>3 DEF Sys
    <3>. QED BY <1>1, <2>3, <3>1, <3>3, FieldsOf, SMTT(20) DEF Sys, OnlyAt
  <2>5. Len(t.queue[p]) <= MaxQueue /\ Len(t.queue[p]) = Len(s.queue[p]) - 1
        /\ p \in ToSet(t.pools)
    <3>1. p \in ToSet(t.pools)
      BY <1>3, <2>4 DEF Loose, OnlyAt
    <3>. QED BY <1>1, <2>2, <2>4, <3>1, PoolAssumption DEF Loose, Typed
  <2>6. Tidy(s.slots[p], s.queue[p], p, s.open)
    BY DEF Loose
  <2>7. ASSUME NEW q \in Pools PROVE Tidy(t.slots[q], t.queue[q], q, t.open)
    <3>1. CASE q = p
      <4>1. Tidy(s.slots[p], RemoveAt(s.queue[p], 1), p, s.open \ {s.queue[p][1]})
        BY <1>1, <2>1, <2>6, TidyTake
      <4>2. t.slots[q] = s.slots[p] /\ t.queue[q] = RemoveAt(s.queue[p], 1)
            /\ t.open = s.open \ {s.queue[p][1]}
        BY <3>1, <1>1, <2>1, <2>4
      <4>. QED BY <3>1, <4>1, <4>2
    <3>2. CASE q # p
      <4>1. PoolOf[x] = p
        BY <2>1, <2>6 DEF Tidy
      <4>2. Tidy(s.slots[q], s.queue[q], q, s.open \ {x})
        BY <3>2, <4>1, TidyElsewhere DEF Loose
      <4>. QED BY <3>2, <4>2, <1>1, <2>4
    <3>. QED BY <3>1, <3>2
  <2>. QED BY <2>4, <2>5, <2>7, OnlyAtLoose DEF t
<1>. QED BY <1>2, <1>3

LEMMA HandOverLoose ==
  ASSUME NEW s, NEW E, Loose(s, E, s.open), NEW p \in E, p \in Pools,
         NEW i \in 1..Len(s.slots[p])
  PROVE  LET t == HandOver(s, p, i)
         IN  /\ Loose(t, E, t.open) /\ OnlyAt(s, t, p) /\ (Full(s) => Full(t))
             /\ \/ t = s /\ (~Idle(s.slots[p][i]) \/ s.queue[p] = <<>>)
                \/ Len(t.queue[p]) = Len(s.queue[p]) - 1
             /\ \A j \in 1..Len(s.slots[p]) : Idle(t.slots[p][j]) => Idle(s.slots[p][j])
<1> DEFINE t == HandOver(s, p, i)
<1>1. /\ s \in Sys /\ s.slots \in [Pools -> Seq(Slots)] /\ s.queue \in [Pools -> Seq(Tasks)]
      /\ s.queue[p] \in Seq(Tasks) /\ s.slots[p] \in Seq(Slots)
  BY FieldsOf DEF Loose, Typed
<1>2. CASE ~Idle(s.slots[p][i]) \/ s.queue[p] = <<>>
  <2>1. t = s
    BY <1>2 DEF HandOver
  <2>. QED BY <1>2, <2>1 DEF OnlyAt
<1>3. CASE ~(~Idle(s.slots[p][i]) \/ s.queue[p] = <<>>) /\ Head(s.queue[p]) \in Uncloneable
  <2>1. t = FailOldest(s, p)
    BY <1>3 DEF HandOver
  <2>. QED BY <1>3, <2>1, FailOldestLoose
<1>4. CASE ~(~Idle(s.slots[p][i]) \/ s.queue[p] = <<>>) /\ Head(s.queue[p]) \notin Uncloneable
  <2> DEFINE qu == Tail(s.queue[p])
             x == Head(s.queue[p])
             slot == [s.slots[p][i] EXCEPT !.task = x]
             sl == [s.slots[p] EXCEPT ![i] = slot]
  <2>1. qu \in Seq(Tasks) /\ Len(qu) = Len(s.queue[p]) - 1 /\ Len(s.queue[p]) \in Nat /\ x \in Tasks
    BY <1>1, <1>4, TailDoes, RemoveAtDoes, LenProperties
  <2>2. s.slots[p][i] \in Slots /\ slot \in Slots /\ slot.task = x /\ x # NoTask
    <3>1. s.slots[p][i] \in Slots
      BY <1>1
    <3>. QED BY <3>1, <2>1, PoolAssumption DEF Slots
  <2>3. sl \in Seq(Slots) /\ Len(sl) = Len(s.slots[p]) /\ sl[i] = slot
        /\ \A j \in 1..Len(s.slots[p]) : j # i => sl[j] = s.slots[p][j]
    BY <1>1, <2>2, ExceptSeq
  <2>4. t = [s EXCEPT !.queue = [s.queue EXCEPT ![p] = qu], !.slots = [s.slots EXCEPT ![p] = sl]]
    BY <1>1, <1>4, FieldsOf DEF HandOver
  <2>5. Tidy(s.slots[p], s.queue[p], p, s.open)
    BY DEF Loose
  <2>6. Tidy(sl, qu, p, s.open)
    BY <1>1, <1>4, <2>5, TidyHandOver
  <2> HIDE DEF t, sl, qu, slot
  <2>7. /\ t \in Sys /\ t.queue = [s.queue EXCEPT ![p] = qu] /\ t.open = s.open
        /\ t.slots = [s.slots EXCEPT ![p] = sl] /\ OnlyAt(s, t, p)
    <3>1. [s.queue EXCEPT ![p] = qu] \in [Pools -> Seq(Tasks)]
          /\ [s.slots EXCEPT ![p] = sl] \in [Pools -> Seq(Slots)]
      BY <1>1, <2>1, <2>3
    <3>2. /\ t \in Sys /\ t.queue = [s.queue EXCEPT ![p] = qu] /\ t.open = s.open
          /\ t.slots = [s.slots EXCEPT ![p] = sl]
          /\ t.waiters = s.waiters /\ t.reserved = s.reserved /\ t.wakes = s.wakes
          /\ t.pools = s.pools /\ t.workers = s.workers /\ t.closed = s.closed
      BY <1>1, <2>4, <3>1, FieldsOf DEF Sys
    <3>. QED BY <1>1, <2>3, <3>2 DEF OnlyAt
  <2>8. t.queue[p] = qu /\ t.slots[p] = sl
    BY <1>1, <2>7
  <2>9. Len(t.queue[p]) <= MaxQueue /\ Len(t.queue[p]) = Len(s.queue[p]) - 1
        /\ p \in ToSet(t.pools)
    <3>1. p \in ToSet(t.pools)
      BY <1>4, <2>7 DEF Loose, OnlyAt
    <3>. QED BY <1>1, <2>1, <2>8, <3>1, PoolAssumption DEF Loose, Typed
  <2>10. ASSUME NEW q \in Pools PROVE Tidy(t.slots[q], t.queue[q], q, t.open)
    BY <1>1, <2>6, <2>7, <2>8 DEF Loose
  <2>11. \A j \in 1..Len(s.slots[p]) : Idle(t.slots[p][j]) => Idle(s.slots[p][j])
    BY <2>2, <2>3, <2>8 DEF Idle
  <2>. QED BY <2>7, <2>9, <2>10, <2>11, OnlyAtLoose DEF t
<1>. QED BY <1>2, <1>3, <1>4

(* Some of the tasks of p have been given to idle slots or have failed.     *)
Dispatched(s, t, p) ==
  /\ OnlyAt(s, t, p) /\ (Full(s) => Full(t)) /\ Len(t.queue[p]) <= Len(s.queue[p])
  /\ \A j \in 1..Len(s.slots[p]) : Idle(t.slots[p][j]) => Idle(s.slots[p][j])

LEMMA DispatchedTwice ==
  ASSUME NEW s \in Sys, NEW u \in Sys, NEW t \in Sys, NEW p \in Pools,
         Dispatched(s, u, p), Dispatched(u, t, p)
  PROVE  Dispatched(s, t, p)
<1>1. OnlyAt(s, t, p)
  BY Zenon DEF OnlyAt, Dispatched
<1>2. \A q \in Sys : Len(q.queue[p]) \in Nat
  BY FieldsOf, LenProperties
<1>3. Len(t.queue[p]) <= Len(s.queue[p])
  <2>1. Len(t.queue[p]) <= Len(u.queue[p]) /\ Len(u.queue[p]) <= Len(s.queue[p])
    BY DEF Dispatched
  <2>2. Len(s.queue[p]) \in Nat /\ Len(u.queue[p]) \in Nat /\ Len(t.queue[p]) \in Nat
    BY <1>2
  <2>. QED BY ONLY <2>1, <2>2
<1>. QED BY <1>1, <1>3 DEF Dispatched, OnlyAt

DispatchAt(s, p, k) == Repeat(LAMBDA u : HandOver(u, p, k), s, MaxQueue)

LEMMA DispatchOne ==
  ASSUME NEW s, NEW E, Loose(s, E, s.open), NEW p \in E, p \in Pools,
         NEW k \in 1..Len(s.slots[p])
  PROVE  LET t == DispatchAt(s, p, k)
         IN  /\ Loose(t, E, t.open) /\ Dispatched(s, t, p)
             /\ ~Idle(t.slots[p][k]) \/ t.queue[p] = <<>>
<1> DEFINE n == MaxQueue
           Left(t, i) == ~Idle(t.slots[p][k]) \/ Len(t.queue[p]) <= n - i
           A == [i \in 0..n |-> {t \in Sys : Loose(t, E, t.open) /\ Dispatched(s, t, p) /\ Left(t, i)}]
           step == [x \in Sys \X (1..n) |-> HandOver(x[1], p, k)]
<1>1. n \in Nat
  BY PoolAssumption
<1>2. s \in A[0]
  <2>1. s \in Sys /\ Len(s.queue[p]) \in Nat /\ Len(s.queue[p]) <= MaxQueue
    BY FieldsOf, LenProperties DEF Loose, Typed
  <2>2. Dispatched(s, s, p)
    BY <2>1 DEF Dispatched, OnlyAt
  <2>. QED BY <1>1, <2>1, <2>2
<1>3. ASSUME NEW i \in 1..n, NEW u \in A[i - 1]
      PROVE  u \in Sys /\ step[<<u, i>>] = HandOver(u, p, k) /\ HandOver(u, p, k) \in A[i]
  <2> DEFINE t == HandOver(u, p, k)
  <2>1. i - 1 \in 0..n /\ i \in 0..n
    BY <1>1
  <2>2. u \in Sys /\ Loose(u, E, u.open) /\ Dispatched(s, u, p) /\ Left(u, i - 1)
    BY <2>1
  <2>3. k \in 1..Len(u.slots[p]) /\ Len(u.slots[p]) = Len(s.slots[p])
    BY <2>2 DEF Dispatched, OnlyAt
  <2>4. /\ Loose(t, E, t.open) /\ OnlyAt(u, t, p) /\ (Full(u) => Full(t))
        /\ \/ t = u /\ (~Idle(u.slots[p][k]) \/ u.queue[p] = <<>>)
           \/ Len(t.queue[p]) = Len(u.queue[p]) - 1
        /\ \A j \in 1..Len(u.slots[p]) : Idle(t.slots[p][j]) => Idle(u.slots[p][j])
    BY <2>2, <2>3, HandOverLoose
  <2> HIDE DEF t
  <2>5. t \in Sys /\ Len(t.queue[p]) \in Nat /\ Len(u.queue[p]) \in Nat
    <3>1. t \in Sys
      BY <2>4 DEF Loose, Typed
    <3>. QED BY <3>1, <2>2, FieldsOf, LenProperties
  <2>6. Dispatched(u, t, p)
    BY <2>4, <2>5 DEF Dispatched
  <2>7. Dispatched(s, t, p)
    <3>1. s \in Sys
      BY DEF Loose, Typed
    <3>. QED BY <3>1, <2>2, <2>5, <2>6, DispatchedTwice
  <2>8. Left(t, i)
    <3>1. CASE t = u /\ ~Idle(u.slots[p][k])
      BY <3>1
    <3>2. CASE t = u /\ u.queue[p] = <<>>
      <4>1. Len(t.queue[p]) = 0
        BY <3>2, EmptySeq
      <4>. QED BY <4>1, <2>1, <1>1
    <3>3. CASE Len(t.queue[p]) = Len(u.queue[p]) - 1
      <4>1. CASE Idle(t.slots[p][k])
        <5>1. Idle(u.slots[p][k])
          BY <4>1, <2>3, <2>4
        <5>. QED BY <5>1, <3>3, <2>1, <2>2, <2>5, <1>1
      <4>. QED BY <4>1
    <3>. QED BY <3>1, <3>2, <3>3, <2>4
  <2>9. t \in A[i]
    BY <2>1, <2>4, <2>5, <2>7, <2>8
  <2>. QED BY <2>2, <2>9 DEF t
<1> DEFINE Rec(f) == f = [i \in 0..n |-> IF i = 0 THEN s
                            ELSE CHOOSE t \in {HandOver(u, p, k) : u \in {f[i - 1]}} : TRUE]
<1>4. \E it : it = (CHOOSE f : Rec(f)) /\ DispatchAt(s, p, k) = it[n]
  BY DEF DispatchAt, Repeat, Iterate
<1>5. PICK it : it = (CHOOSE f : Rec(f)) /\ DispatchAt(s, p, k) = it[n]
  BY <1>4
<1> HIDE DEF A, step
<1>6. PICK f : Runs(f, n, s, step, A)
  <2>1. Steps(n, step, A)
    BY <1>3 DEF Steps
  <2> HIDE DEF n
  <2>. QED BY <1>1, <1>2, <2>1, Iterates, Zenon
<1>7. /\ f = [i \in 0..n |-> f[i]] /\ f[0] = s
      /\ \A i \in 1..n : f[i] = step[<<f[i - 1], i>>]
      /\ \A i \in 0..n : f[i] \in A[i]
  BY <1>6, Zenon DEF Runs
<1>8. ASSUME NEW x, NEW i PROVE (CHOOSE t \in {HandOver(u, p, k) : u \in {x}} : TRUE) = HandOver(x, p, k)
  <2>1. {HandOver(u, p, k) : u \in {x}} = {HandOver(x, p, k)}
    OBVIOUS
  <2>. QED BY <2>1, SingleChoice
<1>9. Rec(it)
  <2>1. ASSUME NEW i \in 0..n
        PROVE  f[i] = IF i = 0 THEN s ELSE CHOOSE t \in {HandOver(u, p, k) : u \in {f[i - 1]}} : TRUE
    <3>1. CASE i = 0
      BY <3>1, <1>7
    <3>2. CASE i # 0
      <4>1. i \in 1..n /\ i - 1 \in 0..n
        BY <3>2, <1>1
      <4>2. f[i] = HandOver(f[i - 1], p, k)
        BY <4>1, <1>3, <1>7
      <4>. QED BY <4>2, <1>8, <3>2
    <3>. QED BY <3>1, <3>2
  <2>2. Rec(f)
    BY <2>1, <1>7
  <2> HIDE DEF Rec
  <2>. QED BY <1>5, <2>2, Zenon
<1>10. ASSUME NEW i \in 1..n, it[i - 1] \in A[i - 1] PROVE it[i] \in A[i]
  <2>1. i \in 0..n /\ i # 0
    BY <1>1
  <2>2. it[i] = HandOver(it[i - 1], p, k)
    BY <1>8, <1>9, <2>1
  <2>. QED BY <2>2, <1>3, <1>10
<1>11. DispatchAt(s, p, k) \in A[n]
  <2>1. it[0] \in A[0]
    BY <1>1, <1>2, <1>9
  <2>2. \A i \in 0..n : it[i] \in A[i]
    BY <1>1, <2>1, <1>10, Follows
  <2>3. n \in 0..n
    BY <1>1
  <2> HIDE DEF Rec, n
  <2>. QED BY <2>2, <2>3, <1>5, Zenon
<1> DEFINE r == DispatchAt(s, p, k)
<1> HIDE DEF r
<1>12. r \in Sys /\ Loose(r, E, r.open) /\ Dispatched(s, r, p) /\ Left(r, n)
  BY <1>1, <1>11 DEF A, r
<1>13. Len(r.queue[p]) <= 0 => r.queue[p] = <<>>
  BY <1>12, FieldsOf, EmptySeq, LenProperties
<1>. QED BY <1>1, <1>12, <1>13 DEF r

LEMMA DispatchAllLoose ==
  ASSUME NEW s, NEW E, Loose(s, E, s.open), NEW p \in E, p \in Pools
  PROVE  LET t == DispatchAll(s, p)
         IN  /\ Loose(t, E, t.open) /\ Dispatched(s, t, p)
             /\ IdleAt(t, p) # {} => t.queue[p] = <<>>
<1> DEFINE n == Len(s.slots[p])
           Done(t, i) == \A j \in 1..i : ~Idle(t.slots[p][j]) \/ t.queue[p] = <<>>
           A == [i \in 0..n |-> {t \in Sys : Loose(t, E, t.open) /\ Dispatched(s, t, p) /\ Done(t, i)}]
           step == [x \in Sys \X (1..n) |-> DispatchAt(x[1], p, x[2])]
<1>1. n \in Nat
  BY FieldsOf, LenProperties DEF Loose, Typed
<1>2. s \in A[0]
  <2>1. s \in Sys /\ Len(s.queue[p]) \in Nat
    BY FieldsOf, LenProperties DEF Loose, Typed
  <2>2. Dispatched(s, s, p)
    BY <2>1 DEF Dispatched, OnlyAt
  <2>. QED BY <1>1, <2>1, <2>2
<1>3. ASSUME NEW i \in 1..n, NEW u \in A[i - 1]
      PROVE  u \in Sys /\ step[<<u, i>>] = DispatchAt(u, p, i) /\ DispatchAt(u, p, i) \in A[i]
  <2> DEFINE t == DispatchAt(u, p, i)
  <2>1. i - 1 \in 0..n /\ i \in 0..n
    BY <1>1
  <2>2. u \in Sys /\ Loose(u, E, u.open) /\ Dispatched(s, u, p) /\ Done(u, i - 1)
    BY <2>1
  <2>3. i \in 1..Len(u.slots[p]) /\ Len(u.slots[p]) = n
    BY <2>2 DEF Dispatched, OnlyAt
  <2>4. /\ Loose(t, E, t.open) /\ Dispatched(u, t, p)
        /\ ~Idle(t.slots[p][i]) \/ t.queue[p] = <<>>
    BY <2>2, <2>3, DispatchOne
  <2> HIDE DEF t
  <2>5. t \in Sys /\ s \in Sys /\ t.queue[p] \in Seq(Tasks)
    BY <2>4, FieldsOf DEF Loose, Typed
  <2>6. Dispatched(s, t, p)
    BY <2>2, <2>4, <2>5, DispatchedTwice
  <2>7. u.queue[p] = <<>> => t.queue[p] = <<>>
    <3>1. u.queue[p] = <<>> => Len(t.queue[p]) <= 0
      BY <2>4 DEF Dispatched
    <3>. QED BY <3>1, <2>5, EmptySeq, LenProperties
  <2>8. Done(t, i)
    <3>1. ASSUME NEW j \in 1..i PROVE ~Idle(t.slots[p][j]) \/ t.queue[p] = <<>>
      <4>1. CASE j = i
        BY <4>1, <2>4
      <4>2. CASE j # i
        <5>1. j \in 1..(i - 1) /\ j \in 1..Len(u.slots[p])
          BY <4>2, <2>1, <2>3
        <5>. QED BY <5>1, <2>2, <2>4, <2>7 DEF Dispatched
      <4>. QED BY <4>1, <4>2
    <3>. QED BY <3>1
  <2>9. t \in A[i]
    BY <2>1, <2>4, <2>5, <2>6, <2>8
  <2>. QED BY <2>2, <2>9 DEF t
<1> DEFINE Rec(f) == f = [i \in 0..n |-> IF i = 0 THEN s
                            ELSE CHOOSE t \in {DispatchAt(u, p, i) : u \in {f[i - 1]}} : TRUE]
<1>4. \E it : it = (CHOOSE f : Rec(f)) /\ DispatchAll(s, p) = it[n]
  BY DEF DispatchAll, Iterate, DispatchAt
<1>5. PICK it : it = (CHOOSE f : Rec(f)) /\ DispatchAll(s, p) = it[n]
  BY <1>4
<1> HIDE DEF A, step
<1>6. PICK f : Runs(f, n, s, step, A)
  <2>1. Steps(n, step, A)
    BY <1>3 DEF Steps
  <2> HIDE DEF n
  <2>. QED BY <1>1, <1>2, <2>1, Iterates, Zenon
<1>7. /\ f = [i \in 0..n |-> f[i]] /\ f[0] = s
      /\ \A i \in 1..n : f[i] = step[<<f[i - 1], i>>]
      /\ \A i \in 0..n : f[i] \in A[i]
  BY <1>6, Zenon DEF Runs
<1>8. ASSUME NEW x, NEW i PROVE (CHOOSE t \in {DispatchAt(u, p, i) : u \in {x}} : TRUE) = DispatchAt(x, p, i)
  <2>1. {DispatchAt(u, p, i) : u \in {x}} = {DispatchAt(x, p, i)}
    OBVIOUS
  <2>. QED BY <2>1, SingleChoice
<1>9. Rec(it)
  <2>1. ASSUME NEW i \in 0..n
        PROVE  f[i] = IF i = 0 THEN s ELSE CHOOSE t \in {DispatchAt(u, p, i) : u \in {f[i - 1]}} : TRUE
    <3>1. CASE i = 0
      BY <3>1, <1>7
    <3>2. CASE i # 0
      <4>1. i \in 1..n /\ i - 1 \in 0..n
        BY <3>2, <1>1
      <4>2. f[i] = DispatchAt(f[i - 1], p, i)
        BY <4>1, <1>3, <1>7
      <4>. QED BY <4>2, <1>8, <3>2
    <3>. QED BY <3>1, <3>2
  <2>2. Rec(f)
    BY <2>1, <1>7
  <2> HIDE DEF Rec
  <2>. QED BY <1>5, <2>2, Zenon
<1>10. ASSUME NEW i \in 1..n, it[i - 1] \in A[i - 1] PROVE it[i] \in A[i]
  <2>1. i \in 0..n /\ i # 0
    BY <1>1
  <2>2. it[i] = DispatchAt(it[i - 1], p, i)
    BY <1>8, <1>9, <2>1
  <2>. QED BY <2>2, <1>3, <1>10
<1>11. DispatchAll(s, p) \in A[n]
  <2>1. it[0] \in A[0]
    BY <1>1, <1>2, <1>9
  <2>2. \A i \in 0..n : it[i] \in A[i]
    BY <1>1, <2>1, <1>10, Follows
  <2>3. n \in 0..n
    BY <1>1
  <2> HIDE DEF Rec, n
  <2>. QED BY <2>2, <2>3, <1>5, Zenon
<1> DEFINE r == DispatchAll(s, p)
<1> HIDE DEF r
<1>12. r \in Sys /\ Loose(r, E, r.open) /\ Dispatched(s, r, p) /\ Done(r, n)
  BY <1>1, <1>11 DEF A, r
<1>13. ASSUME NEW j \in IdleAt(r, p) PROVE j \in 1..n /\ Idle(r.slots[p][j])
  <2>1. r.slots[p] \in Seq(Slots) /\ Len(r.slots[p]) = n
    BY <1>12, FieldsOf DEF Dispatched, OnlyAt
  <2>. QED BY <2>1 DEF IdleAt
<1>. QED BY <1>12, <1>13 DEF r
-----------------------------------------------------------------------------
(* While a pool waits for a worker, none of another pool than p is idle.    *)
Calm(s, p) == \A q \in Pools \ {p} : IdleAt(s, q) # {} => s.waiters = <<>>

InLine(s, p) == /\ p \in ToSet(s.waiters) \cup s.reserved
                /\ p \in s.reserved => p \in ToSet(s.wakes)

LEMMA FreeIsInt ==
  ASSUME NEW s, NEW E, NEW O, Loose(s, E, O)
  PROVE  /\ Limit \in Nat /\ s.workers \in Int /\ Cardinality(s.reserved) \in Nat
         /\ Free(s) \in Nat /\ Free(s) = Limit - (s.workers + Cardinality(s.reserved))
<1>1. s.workers \in Int /\ Limit \in Nat
  BY FieldsOf, PoolAssumption DEF Loose, Typed
<1>2. Cardinality(s.reserved) \in Nat
  BY FS_CardinalityType DEF Loose, Counted
<1>3. Limit - (s.workers + Cardinality(s.reserved)) >= 0
  BY DEF Loose, Counted, Free
<1>4. Limit - (s.workers + Cardinality(s.reserved)) \in Nat
  BY <1>1, <1>2, <1>3
<1>. QED BY <1>1, <1>2, <1>4 DEF Free

LEMMA StartingIsNat ==
  ASSUME NEW s \in Sys, NEW q \in Pools
  PROVE  /\ IsFiniteSet(StartingAt(s, q)) /\ Cardinality(StartingAt(s, q)) \in Nat
         /\ StartingAt(s, q) \in SUBSET (1..Len(s.slots[q]))
         /\ s.queue[q] = <<>> => ~NeedsWorker(s, q)
<1>1. s.slots[q] \in Seq(Slots)
  BY FieldsOf
<1>2. StartingAt(s, q) \in SUBSET (1..Len(s.slots[q]))
  BY <1>1 DEF StartingAt
<1>3. IsFiniteSet(1..Len(s.slots[q]))
  BY <1>1, LenProperties, FS_Interval
<1>4. IsFiniteSet(StartingAt(s, q)) /\ Cardinality(StartingAt(s, q)) \in Nat
  BY <1>2, <1>3, FS_Subset, FS_CardinalityType
<1>5. ASSUME s.queue[q] = <<>> PROVE ~NeedsWorker(s, q)
  <2>1. Len(s.queue[q]) = 0
    BY <1>5, EmptySeq
  <2>. QED BY <2>1, <1>4 DEF NeedsWorker
<1>. QED BY <1>2, <1>4, <1>5

(* Giving up the pools of D as well.                                        *)
LEMMA Looser ==
  ASSUME NEW s, NEW E, NEW D, NEW O, Loose(s, E, O), E \subseteq D
  PROVE  Loose(s, D, O)
  BY DEF Loose

LEMMA AwaitLoose ==
  ASSUME NEW s, NEW p \in Pools, Loose(s, {p}, s.open), Full(s), Calm(s, p),
         NeedsWorker(s, p), ~HasRoom(s, p)
  PROVE  LET t == Await(s, p)
         IN  /\ Loose(t, {p}, t.open) /\ Full(t) /\ Calm(t, p) /\ InLine(t, p)
             /\ t.slots[p] = s.slots[p] /\ t.queue = s.queue /\ t.pools = s.pools
<1> DEFINE u == IF p \in ToSet(s.waiters) THEN s ELSE [s EXCEPT !.waiters = Append(@, p)]
           idle == {i \in DOMAIN s.pools : s.pools[i] # p /\ IdleAt(s, s.pools[i]) # {}}
           t == Await(s, p)
<1>1. s \in Sys /\ s.waiters \in Seq(Pools) /\ s.pools \in Seq(Pools) /\ s.open \in SUBSET Tasks
      /\ s.slots \in [Pools -> Seq(Slots)] /\ DOMAIN s.pools = 1..Len(s.pools)
  BY FieldsOf DEF Loose, Typed
<1>2. t = IF idle = {} THEN u ELSE RetireIdle(u, s.pools[Min(idle)])
  BY Zenon DEF Await
<1>3. p \notin s.reserved /\ Free(s) = 0
  BY FreeIsInt DEF HasRoom
<1>4. /\ u \in Sys /\ SameWork(s, u) /\ Distinct(u.waiters) /\ ToSet(u.waiters) = ToSet(s.waiters) \cup {p}
      /\ u.reserved = s.reserved /\ u.wakes = s.wakes
  <2>1. CASE p \in ToSet(s.waiters)
    BY <2>1, <1>1 DEF SameWork, Loose, Counted
  <2>2. CASE p \notin ToSet(s.waiters)
    <3> DEFINE line == Append(s.waiters, p)
    <3>1. line \in Seq(Pools) /\ ToSet(line) = ToSet(s.waiters) \cup {p} /\ Distinct(line)
      BY <1>1, <2>2, AppendDoes DEF Loose, Counted
    <3>2. u = [s EXCEPT !.waiters = line]
      BY <1>1, <2>2, FieldsOf
    <3> HIDE DEF u, line
    <3>. QED BY <1>1, <3>1, <3>2, FieldsOf DEF Sys, SameWork
  <2>. QED BY <2>1, <2>2
<1> HIDE DEF u, t
<1>5. \A q \in Pools : (NeedsWorker(u, q) <=> NeedsWorker(s, q)) /\ IdleAt(u, q) = IdleAt(s, q)
  BY <1>4, SamePool DEF SameWork
<1>6. Free(u) = 0
  BY <1>3, <1>4 DEF Free, SameWork
<1>7. Loose(u, {p}, s.open)
  <2>1. Live(u) = Live(s)
    BY <1>4 DEF Live, SameWork
  <2>2. Counted(u)
    BY <2>1, <1>4, <1>6 DEF Loose, Counted, SameWork
  <2>3. Typed(u)
    BY <1>4 DEF Loose, Typed, SameWork
  <2>4. \A q \in Pools \ {p} : Line(u, q)
    BY <1>4, <1>5 DEF Loose, Line, SameWork
  <2>. QED BY <1>4, <2>2, <2>3, <2>4 DEF Loose, SameWork
<1>8. u.slots = s.slots /\ u.queue = s.queue /\ u.open = s.open /\ u.pools = s.pools
  BY <1>4 DEF SameWork
<1>9. CASE idle = {}
  <2>1. ASSUME NEW q \in Pools \ {p} PROVE IdleAt(u, q) = {}
    <3>1. SUFFICES ASSUME IdleAt(s, q) # {} PROVE FALSE
      BY <1>5
    <3>2. s.slots[q] # <<>>
      BY <3>1, <1>1 DEF IdleAt
    <3>3. q \in ToSet(s.pools)
      BY <3>2 DEF Loose
    <3>4. PICK i \in 1..Len(s.pools) : s.pools[i] = q
      BY <1>1, <3>3, ToSetIs
    <3>5. i \in idle
      BY <3>1, <3>4, <1>1
    <3>. QED BY <3>5, <1>9
  <2>2. Calm(u, p)
    BY <2>1 DEF Calm
  <2>3. InLine(u, p) /\ Full(u)
    BY <1>3, <1>4, <1>6 DEF InLine, Full
  <2>4. t = u
    BY <1>2, <1>9
  <2>. QED BY <1>7, <1>8, <2>2, <2>3, <2>4 DEF t
<1>10. CASE idle # {}
  <2> DEFINE w == s.pools[Min(idle)]
  <2>1. w \in Pools /\ w # p /\ IdleAt(s, w) # {}
    <3>1. idle \in SUBSET Nat /\ idle \subseteq 1..Len(s.pools)
      BY <1>1
    <3> DEFINE m == Min(idle)
    <3>2. m \in idle /\ m \in 1..Len(s.pools)
      <4> HIDE DEF idle
      <4>. QED BY <1>10, <3>1, MinDoes
    <3> HIDE DEF m
    <3>3. s.pools[m] \in Pools /\ s.pools[m] # p /\ IdleAt(s, s.pools[m]) # {}
      BY <3>2, <1>1
    <3> HIDE DEF idle
    <3>. QED BY <3>3 DEF m
  <2>2. t = RetireIdle(u, w)
    BY <1>2, <1>10
  <2> HIDE DEF w, idle
  <2>3. s.waiters = <<>> /\ ToSet(u.waiters) = {p}
    <3>1. s.waiters = <<>>
      BY <2>1 DEF Calm
    <3>. QED BY <3>1, <1>1, <1>4, ToSetIs
  <2>4. s.queue[w] = <<>>
    BY <2>1 DEF Loose, Line
  <2>5. /\ Loose(t, {p, w}, s.open) /\ Full(t) /\ Moved(u, t, w) /\ Away(t, w)
        /\ t.workers = u.workers - 1
    <3>1. Loose(u, {p, w}, s.open)
      BY <1>7, Looser
    <3>2. w \in {p, w} /\ IdleAt(u, w) # {}
      BY <1>5, <2>1
    <3>. QED BY <1>1, <2>1, <2>2, <3>1, <3>2, RetireLoose, Zenon
  <2>6. t \in Sys /\ t.waiters \in Seq(Pools) /\ t.queue = s.queue /\ t.open = s.open
        /\ t.pools = s.pools /\ t.slots[p] = s.slots[p]
    BY <1>8, <2>1, <2>5, FieldsOf DEF Loose, Typed, Moved
  <2>7. t.waiters = <<>>
    <3>1. SUFFICES ASSUME t.waiters # <<>> PROVE FALSE
      OBVIOUS
    <3>2. p \in ToSet(t.waiters)
      <4>1. ToSet(t.waiters) # {}
        BY <3>1, <2>6, ToSetIs
      <4>. QED BY <4>1, <2>3, <2>5 DEF Moved
    <3>3. t.reserved \subseteq u.reserved
      BY <3>2, <2>3, <2>5 DEF Moved
    <3>4. Cardinality(t.reserved) <= Cardinality(u.reserved)
      BY <3>3, <1>7, FS_Subset DEF Loose, Counted
    <3>5. Free(t) <= 0
      BY <3>1, <2>5 DEF Full
    <3>6. /\ Limit \in Nat /\ u.workers \in Int /\ Cardinality(u.reserved) \in Nat
          /\ Cardinality(t.reserved) \in Nat
          /\ Free(u) = Limit - (u.workers + Cardinality(u.reserved))
          /\ Free(t) = Limit - (t.workers + Cardinality(t.reserved))
      BY <1>7, <2>5, FreeIsInt
    <3>. QED BY <3>4, <3>5, <3>6, <2>5, <1>6
  <2>8. Calm(t, p)
    BY <2>7 DEF Calm
  <2>9. InLine(t, p)
    <3>1. NeedsWorker(u, p) /\ p \in ToSet(u.waiters) /\ p \notin u.reserved
      BY <1>3, <1>4, <1>5
    <3>. QED BY <3>1, <2>1, <2>5 DEF Moved, InLine
  <2>10. Line(t, w)
    <3>1. ~NeedsWorker(t, w) /\ t.queue[w] = <<>>
      BY <2>1, <2>4, <2>6, StartingIsNat
    <3>. QED BY <3>1, <2>5 DEF Line, Away
  <2>11. Loose(t, {p}, t.open)
    BY <2>5, <2>6, <2>10 DEF Loose, Away
  <2>. QED BY <2>5, <2>6, <2>8, <2>9, <2>11 DEF t
<1>. QED BY <1>9, <1>10

LEMMA EmptyToSet == ToSet(<<>>) = {}
  BY DEF ToSet

LEMMA Sizes == Size \in Nat /\ Size >= 1 /\ MaxQueue \in Nat /\ MaxQueue >= 1
  BY PoolAssumption

LEMMA FirstRound ==
  ASSUME NEW a \in Nat, NEW b \in Nat, b <= MaxQueue
  PROVE  (Size - a) + b <= Size + MaxQueue - 0
  BY Sizes

LEMMA NextRound ==
  ASSUME NEW a \in Nat, NEW b \in Nat, NEW c \in Int, NEW d \in Int, NEW k \in Nat,
         (Size - a) + b <= Size + MaxQueue - (k - 1), (c - a) + (b - d) >= 1
  PROVE  (Size - c) + d <= Size + MaxQueue - k
  BY Sizes

LEMMA TidySpawn ==
  ASSUME NEW q, NEW O, NEW sl \in Seq(Slots), NEW qu, Tidy(sl, qu, q, O)
  PROVE  Tidy(Append(sl, Started), qu, q, O)
<1> DEFINE t == Append(sl, Started)
<1>1. Started \in Slots /\ Started.task = NoTask
  BY DEF Started, Slots
<1>2. /\ t \in Seq(Slots) /\ Len(t) = Len(sl) + 1 /\ Len(sl) \in Nat
      /\ \A i \in 1..Len(sl) : t[i] = sl[i]
      /\ t[Len(sl) + 1].task = NoTask
  <2>1. /\ t \in Seq(Slots) /\ Len(t) = Len(sl) + 1
        /\ \A i \in 1..Len(sl) : t[i] = sl[i]
        /\ t[Len(sl) + 1] = Started
    BY <1>1, AppendProperties
  <2>. QED BY <1>1, <2>1, LenProperties
<1> HIDE DEF t
<1>3. \A i \in 1..Len(t) : t[i].task # NoTask => i \in 1..Len(sl)
  BY <1>2
<1>4. ASSUME NEW x \in Tasks
      PROVE  (\E i \in 1..Len(t) : t[i].task = x) <=> (\E i \in 1..Len(sl) : sl[i].task = x)
  <2>1. x # NoTask
    BY PoolAssumption
  <2>2. \A i \in 1..Len(sl) : i \in 1..Len(t)
    BY <1>2
  <2>. QED BY <2>1, <2>2, <1>2, <1>3
<1>5. \A i, j \in 1..Len(t) : t[i].task # NoTask /\ t[i].task = t[j].task => i = j
  BY <1>2, <1>3 DEF Tidy
<1>6. \A i \in 1..Len(t) : t[i].task # NoTask =>
        t[i].ready /\ \A j \in 1..Len(qu) : qu[j] # t[i].task
  BY <1>2, <1>3 DEF Tidy
<1>. QED BY <1>4, <1>5, <1>6 DEF Tidy, t

LEMMA LiveWith ==
  ASSUME NEW s, NEW t, NEW p \in Pools, NEW n \in Nat,
         DOMAIN s.slots[p] = 1..n, DOMAIN t.slots[p] = 1..(n + 1), n < Size,
         \A q \in Pools \ {p} : t.slots[q] = s.slots[q], IsFiniteSet(Live(s))
  PROVE  IsFiniteSet(Live(t)) /\ Cardinality(Live(t)) = Cardinality(Live(s)) + 1
<1>1. <<p, n + 1>> \notin Live(s)
  BY DEF Live
<1>2. Live(t) = Live(s) \cup {<<p, n + 1>>}
  <2>0. n + 1 \in 1..Size
    BY PoolAssumption
  <2>1. ASSUME NEW q \in Pools, NEW i \in 1..Size
        PROVE  <<q, i>> \in Live(t) <=> <<q, i>> \in Live(s) \cup {<<p, n + 1>>}
    <3>1. /\ <<q, i>> \in Live(t) <=> i \in DOMAIN t.slots[q]
          /\ <<q, i>> \in Live(s) <=> i \in DOMAIN s.slots[q]
      BY DEF Live
    <3>2. CASE q = p
      BY <3>1, <3>2
    <3>3. CASE q # p
      BY <3>1, <3>3
    <3>. QED BY <3>2, <3>3
  <2>2. \A x \in Live(t) \cup Live(s) : \E q \in Pools, i \in 1..Size : x = <<q, i>>
    BY DEF Live
  <2>. QED BY <2>0, <2>1, <2>2
<1>. QED BY <1>1, <1>2, FS_AddElement

(* What the pump of p keeps, from handing out the tasks on.                 *)
Pumping(s, p) == /\ Loose(s, {p}, s.open) /\ Full(s) /\ Calm(s, p) /\ p \in ToSet(s.pools)
                 /\ IdleAt(s, p) # {} => s.queue[p] = <<>>

LEMMA SpawnedPumping ==
  ASSUME NEW s, NEW p \in Pools, Pumping(s, p), NeedsWorker(s, p), HasRoom(s, p)
  PROVE  LET t == Spawned(s, p)
         IN  /\ Pumping(t, p) /\ t.queue = s.queue
             /\ Len(t.slots[p]) = Len(s.slots[p]) + 1
<1> DEFINE sl == Append(s.slots[p], Started)
           t == Spawned(s, p)
           n == Len(s.slots[p])
<1>1. /\ s \in Sys /\ s.slots \in [Pools -> Seq(Slots)] /\ s.slots[p] \in Seq(Slots)
      /\ s.queue \in [Pools -> Seq(Tasks)] /\ s.reserved \in SUBSET Pools /\ s.workers \in Int
  BY FieldsOf DEF Pumping, Loose, Typed
<1>2. Started \in Slots /\ ~Idle(Started)
  BY DEF Started, Slots, Idle
<1>3. sl \in Seq(Slots) /\ Len(sl) = n + 1 /\ n \in Nat /\ sl[n + 1] = Started
      /\ \A i \in 1..n : sl[i] = s.slots[p][i]
  <2>1. /\ sl \in Seq(Slots) /\ Len(sl) = Len(s.slots[p]) + 1
        /\ \A i \in 1..Len(s.slots[p]) : sl[i] = s.slots[p][i]
        /\ sl[Len(s.slots[p]) + 1] = Started
    BY <1>1, <1>2, AppendProperties
  <2>. QED BY <1>1, <2>1, LenProperties
<1>4. n < Size
  BY DEF NeedsWorker
<1>5. t = [s EXCEPT !.slots = [s.slots EXCEPT ![p] = sl], !.workers = s.workers + 1,
                    !.reserved = s.reserved \ {p}]
  BY <1>1, FieldsOf DEF Spawned
<1> HIDE DEF sl, n, t
<1>6. /\ t \in Sys /\ t.slots = [s.slots EXCEPT ![p] = sl] /\ t.workers = s.workers + 1
      /\ t.reserved = s.reserved \ {p}
      /\ t.queue = s.queue /\ t.open = s.open /\ t.pools = s.pools /\ t.closed = s.closed
      /\ t.waiters = s.waiters /\ t.wakes = s.wakes
  <2>1. [s.slots EXCEPT ![p] = sl] \in [Pools -> Seq(Slots)] /\ s.workers + 1 \in Int
        /\ s.reserved \ {p} \in SUBSET Pools
    BY <1>1, <1>3
  <2>. QED BY <2>1, <1>1, <1>5, FieldsOf DEF Sys
<1>7. t.slots[p] = sl /\ \A q \in Pools \ {p} : t.slots[q] = s.slots[q]
  BY <1>1, <1>6
<1>8. Typed(t)
  <2>1. ASSUME NEW q \in Pools PROVE Len(t.slots[q]) <= Size /\ Len(t.queue[q]) <= MaxQueue
    <3>1. Len(s.slots[q]) <= Size /\ Len(s.queue[q]) <= MaxQueue
      BY DEF Pumping, Loose, Typed
    <3>2. CASE q = p
      BY <3>1, <3>2, <1>3, <1>4, <1>6, <1>7, PoolAssumption
    <3>3. CASE q # p
      BY <3>1, <3>3, <1>6, <1>7
    <3>. QED BY <3>2, <3>3
  <2>. QED BY <1>6, <2>1 DEF Typed
<1>9. Counted(t) /\ Full(t)
  <2>1. IsFiniteSet(Live(t)) /\ Cardinality(Live(t)) = Cardinality(Live(s)) + 1
    <3>1. DOMAIN s.slots[p] = 1..n /\ DOMAIN t.slots[p] = 1..(n + 1)
      BY <1>1, <1>3, <1>7 DEF n
    <3>. QED BY <3>1, <1>3, <1>4, <1>7, LiveWith DEF Pumping, Loose, Counted
  <2>2. /\ Limit \in Nat /\ Cardinality(s.reserved) \in Nat /\ Free(s) \in Nat
        /\ Free(s) = Limit - (s.workers + Cardinality(s.reserved))
    BY FreeIsInt DEF Pumping
  <2>3. IsFiniteSet(s.reserved) /\ IsFiniteSet(t.reserved) /\ Cardinality(t.reserved) \in Nat
    BY <1>6, FS_Subset, FS_CardinalityType DEF Pumping, Loose, Counted
  <2>4. Free(t) = Limit - (s.workers + 1 + Cardinality(t.reserved))
    BY <1>6 DEF Free
  <2>5. CASE p \in s.reserved
    <3>1. Cardinality(t.reserved) = Cardinality(s.reserved) - 1
      BY <2>3, <2>5, <1>6, FS_RemoveElement
    <3>2. Free(t) = Free(s)
      BY <3>1, <2>2, <2>4, <1>1
    <3>. QED BY <2>1, <2>2, <2>3, <3>2, <1>6 DEF Pumping, Loose, Counted, Full
  <2>6. CASE p \notin s.reserved
    <3>1. t.reserved = s.reserved /\ Free(s) > 0
      BY <2>6, <1>6 DEF HasRoom
    <3>2. Free(t) >= 0
      BY <3>1, <2>2, <2>4, <1>1
    <3>3. s.waiters = <<>>
      BY <3>1, <2>2 DEF Pumping, Full
    <3>. QED BY <2>1, <2>3, <3>2, <3>3, <1>6 DEF Pumping, Loose, Counted, Full
  <2>. QED BY <2>5, <2>6
<1>10. ASSUME NEW q \in Pools PROVE Tidy(t.slots[q], t.queue[q], q, t.open)
  <2>1. Tidy(s.slots[q], s.queue[q], q, s.open)
    BY DEF Pumping, Loose
  <2>2. CASE q = p
    <3>1. Tidy(sl, s.queue[p], p, s.open)
      BY <2>1, <2>2, <1>1, TidySpawn DEF sl
    <3>. QED BY <3>1, <2>2, <1>6, <1>7
  <2>3. CASE q # p
    BY <2>1, <2>3, <1>6, <1>7
  <2>. QED BY <2>2, <2>3
<1>11. ASSUME NEW q \in Pools \ {p}
       PROVE  Line(t, q) /\ (IdleAt(t, q) # {} => t.waiters = <<>>)
  <2>1. Line(s, q) /\ (IdleAt(s, q) # {} => s.waiters = <<>>)
    BY DEF Pumping, Loose, Calm
  <2>2. (NeedsWorker(t, q) <=> NeedsWorker(s, q)) /\ IdleAt(t, q) = IdleAt(s, q)
    BY <1>6, <1>7, SamePool
  <2>. QED BY <2>1, <2>2, <1>6 DEF Line
<1>12. t.reserved \ {p} \subseteq ToSet(t.wakes) /\ ~t.closed
  BY <1>6 DEF Pumping, Loose
<1>13. ASSUME NEW q \in Pools, t.slots[q] # <<>> \/ t.queue[q] # <<>> PROVE q \in ToSet(t.pools)
  BY <1>13, <1>6, <1>7 DEF Pumping, Loose
<1>14. IdleAt(t, p) # {} => t.queue[p] = <<>>
  <2>1. ASSUME NEW j \in IdleAt(t, p) PROVE j \in IdleAt(s, p)
    <3>1. j \in 1..(n + 1) /\ Idle(sl[j])
      BY <1>3, <1>7 DEF IdleAt
    <3>2. j \in 1..n
      BY <3>1, <1>2, <1>3
    <3>. QED BY <3>1, <3>2, <1>1, <1>3 DEF IdleAt, n
  <2>. QED BY <2>1, <1>6 DEF Pumping
<1>15. Pumping(t, p)
  BY <1>6, <1>8, <1>9, <1>10, <1>11, <1>12, <1>13, <1>14 DEF Pumping, Loose, Calm
<1>. QED BY <1>3, <1>6, <1>7, <1>15 DEF t, n

Outcomes == [s : Sys, stop : BOOLEAN]

(* After k rounds of spawnAll: a pool that still needs a worker is in line, *)
(* or the next round brings it closer to needing none.                      *)
Spawning(r, p, k) ==
  /\ Pumping(r.s, p)
  /\ r.stop => InLine(r.s, p)
  /\ ~r.stop /\ NeedsWorker(r.s, p) =>
       (Size - Len(r.s.slots[p])) + Len(r.s.queue[p]) <= Size + MaxQueue - k

LEMMA SpawnStepDoes ==
  ASSUME NEW p \in Pools, NEW k \in Nat \ {0}, NEW r \in Outcomes, Spawning(r, p, k - 1),
         NEW throws
  PROVE  SpawnStep(r, p, throws) \in Outcomes /\ Spawning(SpawnStep(r, p, throws), p, k)
<1> DEFINE s == r.s
           t == SpawnStep(r, p, throws)
           left(u) == (Size - Len(u.slots[p])) + Len(u.queue[p])
<1>1. /\ r = [s |-> s, stop |-> r.stop] /\ r.stop \in BOOLEAN /\ s \in Sys /\ Pumping(s, p)
      /\ s.slots[p] \in Seq(Slots) /\ s.queue[p] \in Seq(Tasks)
  <2>1. r = [s |-> s, stop |-> r.stop] /\ r.stop \in BOOLEAN /\ s \in Sys /\ Pumping(s, p)
    BY DEF Outcomes, Spawning
  <2>. QED BY <2>1, FieldsOf
<1>2. CASE r.stop \/ ~NeedsWorker(s, p)
  <2>1. t = r
    BY <1>2 DEF SpawnStep
  <2>. QED BY <2>1, <1>2 DEF Spawning
<1>3. CASE ~r.stop /\ NeedsWorker(s, p) /\ ~HasRoom(s, p)
  <2> DEFINE u == Await(s, p)
  <2>1. /\ Loose(u, {p}, u.open) /\ Full(u) /\ Calm(u, p) /\ InLine(u, p)
        /\ u.slots[p] = s.slots[p] /\ u.queue = s.queue /\ u.pools = s.pools
    BY <1>1, <1>3, AwaitLoose DEF Pumping
  <2> HIDE DEF u
  <2>2. Pumping(u, p) /\ u \in Sys
    BY <1>1, <2>1 DEF Pumping, IdleAt, Loose, Typed
  <2>3. t = [s |-> u, stop |-> TRUE]
    BY <1>3 DEF SpawnStep, u
  <2> HIDE DEF t
  <2>4. t \in Outcomes /\ Spawning(t, p, k)
    BY <2>1, <2>2, <2>3 DEF Outcomes, Spawning
  <2>. QED BY <2>4 DEF t
<1>4. ASSUME ~r.stop, NeedsWorker(s, p), HasRoom(s, p)
      PROVE  /\ s.queue[p] # <<>> /\ Len(s.queue[p]) \in Nat /\ Len(s.slots[p]) \in Nat
             /\ left(s) <= Size + MaxQueue - (k - 1)
  <2>1. s.queue[p] # <<>>
    BY <1>1, <1>4, StartingIsNat
  <2>. QED BY <2>1, <1>1, <1>4, LenProperties DEF Spawning
<1>5. CASE ~r.stop /\ NeedsWorker(s, p) /\ HasRoom(s, p) /\ throws
  <2> DEFINE u == FailOldest(s, p)
             v == Cancel(u, p)
  <2>1. /\ Loose(u, {p}, u.open) /\ OnlyAt(s, u, p) /\ u.slots = s.slots
        /\ Len(u.queue[p]) = Len(s.queue[p]) - 1
    BY <1>1, <1>4, <1>5, FailOldestLoose DEF Pumping
  <2> HIDE DEF u
  <2>2. Loose(v, {p}, u.open) /\ Full(v) /\ SameWork(u, v) /\ Moved(u, v, p)
    BY <2>1, CancelLoose
  <2> HIDE DEF v
  <2>3. v.open = u.open /\ v.slots = s.slots /\ v.queue = u.queue /\ v.pools = u.pools
        /\ v \in Sys /\ v.waiters \in Seq(Pools)
    BY <2>1, <2>2, FieldsOf DEF SameWork, Loose, Typed
  <2>4. IdleAt(v, p) = {}
    <3>1. IdleAt(s, p) = {}
      BY <1>1, <1>4, <1>5 DEF Pumping
    <3>. QED BY <3>1, <2>3 DEF IdleAt
  <2>5. Calm(v, p)
    <3>1. ASSUME NEW q \in Pools \ {p}, IdleAt(v, q) # {} PROVE v.waiters = <<>>
      <4>1. IdleAt(s, q) # {}
        BY <3>1, <2>3 DEF IdleAt
      <4>2. u.waiters = <<>>
        BY <1>1, <2>1, <4>1 DEF Pumping, Calm, OnlyAt
      <4>3. ToSet(v.waiters) = {}
        BY <2>2, <4>2, EmptyToSet DEF Moved
      <4>. QED BY <4>3, <2>3, ToSetIs
    <3>. QED BY <3>1 DEF Calm
  <2>6. Pumping(v, p)
    <3>1. p \in ToSet(v.pools)
      BY <1>1, <2>1, <2>3 DEF Pumping, OnlyAt
    <3>. QED BY <3>1, <2>2, <2>3, <2>4, <2>5 DEF Pumping
  <2>7. left(v) <= Size + MaxQueue - k
    <3>1. Len(v.queue[p]) = Len(s.queue[p]) - 1 /\ v.slots[p] = s.slots[p]
      BY <2>1, <2>3
    <3>2. left(s) <= Size + MaxQueue - (k - 1) /\ Len(s.queue[p]) \in Nat /\ Len(s.slots[p]) \in Nat
      BY <1>4, <1>5
    <3>3. Len(v.queue[p]) \in Int /\ Len(v.slots[p]) \in Int
          /\ (Len(v.slots[p]) - Len(s.slots[p])) + (Len(s.queue[p]) - Len(v.queue[p])) >= 1
      BY <3>1, <3>2
    <3> DEFINE a == Len(s.slots[p])
               b == Len(s.queue[p])
               c == Len(v.slots[p])
               d == Len(v.queue[p])
    <3>4. /\ a \in Nat /\ b \in Nat /\ c \in Int /\ d \in Int /\ k \in Nat
          /\ (Size - a) + b <= Size + MaxQueue - (k - 1) /\ (c - a) + (b - d) >= 1
      BY <3>2, <3>3
    <3> HIDE DEF a, b, c, d
    <3>5. (Size - c) + d <= Size + MaxQueue - k
      BY <3>4, NextRound
    <3>. QED BY <3>5 DEF c, d
  <2>8. t = [s |-> v, stop |-> r.stop]
    BY <1>1, <1>5 DEF SpawnStep, u, v
  <2> HIDE DEF t
  <2>9. t \in Outcomes /\ Spawning(t, p, k)
    BY <1>1, <1>5, <2>3, <2>6, <2>7, <2>8 DEF Outcomes, Spawning
  <2>. QED BY <2>9 DEF t
<1>6. CASE ~r.stop /\ NeedsWorker(s, p) /\ HasRoom(s, p) /\ ~throws
  <2> DEFINE u == Spawned(s, p)
  <2>1. Pumping(u, p) /\ u.queue = s.queue /\ Len(u.slots[p]) = Len(s.slots[p]) + 1
    BY <1>1, <1>6, SpawnedPumping
  <2> HIDE DEF u
  <2>2. left(u) <= Size + MaxQueue - k /\ u \in Sys
    <3>1. left(s) <= Size + MaxQueue - (k - 1) /\ Len(s.queue[p]) \in Nat /\ Len(s.slots[p]) \in Nat
      BY <1>4, <1>6
    <3>2. left(u) <= Size + MaxQueue - k
      <4>1. Len(u.queue[p]) \in Int /\ Len(u.slots[p]) \in Int
            /\ (Len(u.slots[p]) - Len(s.slots[p])) + (Len(s.queue[p]) - Len(u.queue[p])) >= 1
        BY <3>1, <2>1
      <4> DEFINE a == Len(s.slots[p])
                 b == Len(s.queue[p])
                 c == Len(u.slots[p])
                 d == Len(u.queue[p])
      <4>2. /\ a \in Nat /\ b \in Nat /\ c \in Int /\ d \in Int /\ k \in Nat
            /\ (Size - a) + b <= Size + MaxQueue - (k - 1) /\ (c - a) + (b - d) >= 1
        BY <3>1, <4>1
      <4> HIDE DEF a, b, c, d
      <4>3. (Size - c) + d <= Size + MaxQueue - k
        BY <4>2, NextRound
      <4>. QED BY <4>3 DEF c, d
    <3>3. u \in Sys
      BY <2>1 DEF Pumping, Loose, Typed
    <3>. QED BY <3>2, <3>3
  <2>3. t = [s |-> u, stop |-> r.stop]
    BY <1>1, <1>6 DEF SpawnStep, u
  <2> HIDE DEF t
  <2>4. t \in Outcomes /\ Spawning(t, p, k)
    BY <1>1, <1>6, <2>1, <2>2, <2>3 DEF Outcomes, Spawning
  <2>. QED BY <2>4 DEF t
<1>. QED BY <1>1, <1>2, <1>3, <1>5, <1>6

LEMMA SpawnAllPumping ==
  ASSUME NEW s, NEW p \in Pools, Pumping(s, p), NEW fails
  PROVE  LET t == SpawnAll(s, p, fails)
         IN  Pumping(t, p) /\ (NeedsWorker(t, p) => InLine(t, p))
<1> DEFINE n == Size + MaxQueue
           start == [s |-> s, stop |-> FALSE]
           A == [i \in 0..n |-> {r \in Outcomes : Spawning(r, p, i)}]
           step == [x \in Outcomes \X (1..n) |-> SpawnStep(x[1], p, x[2] \in fails)]
<1>1. n \in Nat
  BY PoolAssumption
<1>2. start \in A[0]
  <2>1. s \in Sys
    BY DEF Pumping, Loose, Typed
  <2>2. Len(s.slots[p]) \in Nat /\ Len(s.queue[p]) \in Nat /\ Len(s.queue[p]) <= MaxQueue
    <3>1. s.slots[p] \in Seq(Slots) /\ s.queue[p] \in Seq(Tasks)
      BY <2>1, FieldsOf
    <3>. QED BY <3>1, LenProperties DEF Pumping, Loose, Typed
  <2>3. Spawning(start, p, 0)
    <3>1. (Size - Len(s.slots[p])) + Len(s.queue[p]) <= Size + MaxQueue - 0
      BY <2>2, FirstRound
    <3>2. start.s = s /\ start.stop = FALSE
      OBVIOUS
    <3> HIDE DEF start
    <3>. QED BY <3>1, <3>2 DEF Spawning
  <2>4. start \in Outcomes
    BY <2>1 DEF Outcomes
  <2> HIDE DEF start
  <2>. QED BY <1>1, <2>3, <2>4
<1> HIDE DEF start
<1>3. ASSUME NEW i \in 1..n, NEW u \in A[i - 1]
      PROVE  /\ u \in Outcomes /\ step[<<u, i>>] = SpawnStep(u, p, i \in fails)
             /\ SpawnStep(u, p, i \in fails) \in A[i]
  <2>1. i - 1 \in 0..n /\ i \in 0..n /\ i \in Nat \ {0}
    BY <1>1
  <2>2. u \in Outcomes /\ Spawning(u, p, i - 1)
    BY <2>1
  <2>3. SpawnStep(u, p, i \in fails) \in Outcomes /\ Spawning(SpawnStep(u, p, i \in fails), p, i)
    BY <2>1, <2>2, SpawnStepDoes
  <2>. QED BY <2>1, <2>2, <2>3
<1> DEFINE last == Iterate(LAMBDA u, i : SpawnStep(u, p, i \in fails), start, n)
<1> DEFINE Rec(f) == f = [i \in 0..n |-> IF i = 0 THEN start
                            ELSE CHOOSE t \in {SpawnStep(u, p, i \in fails) : u \in {f[i - 1]}} : TRUE]
<1>4. \E it : it = (CHOOSE f : Rec(f)) /\ last = it[n]
  BY DEF Iterate
<1>5. PICK it : it = (CHOOSE f : Rec(f)) /\ last = it[n]
  BY <1>4
<1> HIDE DEF A, step
<1>6. PICK f : Runs(f, n, start, step, A)
  <2>1. Steps(n, step, A)
    BY <1>3 DEF Steps
  <2> HIDE DEF n
  <2>. QED BY <1>1, <1>2, <2>1, Iterates, Zenon
<1>7. /\ f = [i \in 0..n |-> f[i]] /\ f[0] = start
      /\ \A i \in 1..n : f[i] = step[<<f[i - 1], i>>]
      /\ \A i \in 0..n : f[i] \in A[i]
  BY <1>6, Zenon DEF Runs
<1>8. ASSUME NEW x, NEW i PROVE (CHOOSE t \in {SpawnStep(u, p, i \in fails) : u \in {x}} : TRUE) = SpawnStep(x, p, i \in fails)
  <2>1. {SpawnStep(u, p, i \in fails) : u \in {x}} = {SpawnStep(x, p, i \in fails)}
    OBVIOUS
  <2>. QED BY <2>1, SingleChoice
<1>9. Rec(it)
  <2>1. ASSUME NEW i \in 0..n
        PROVE  f[i] = IF i = 0 THEN start ELSE CHOOSE t \in {SpawnStep(u, p, i \in fails) : u \in {f[i - 1]}} : TRUE
    <3>1. CASE i = 0
      BY <3>1, <1>7
    <3>2. CASE i # 0
      <4>1. i \in 1..n /\ i - 1 \in 0..n
        BY <3>2, <1>1
      <4>2. f[i] = SpawnStep(f[i - 1], p, i \in fails)
        BY <4>1, <1>3, <1>7
      <4>. QED BY <4>2, <1>8, <3>2
    <3>. QED BY <3>1, <3>2
  <2>2. Rec(f)
    BY <2>1, <1>7
  <2> HIDE DEF Rec
  <2>. QED BY <1>5, <2>2, Zenon
<1>10. ASSUME NEW i \in 1..n, it[i - 1] \in A[i - 1] PROVE it[i] \in A[i]
  <2>1. i \in 0..n /\ i # 0
    BY <1>1
  <2>2. it[i] = SpawnStep(it[i - 1], p, i \in fails)
    BY <1>8, <1>9, <2>1
  <2>. QED BY <2>2, <1>3, <1>10
<1>11. last \in A[n]
  <2>1. it[0] \in A[0]
    BY <1>1, <1>2, <1>9
  <2>2. \A i \in 0..n : it[i] \in A[i]
    BY <1>1, <2>1, <1>10, Follows
  <2>3. n \in 0..n
    BY <1>1
  <2> HIDE DEF Rec, n
  <2>. QED BY <2>2, <2>3, <1>5, Zenon
<1>12. SpawnAll(s, p, fails) = last.s
  BY Zenon DEF SpawnAll, start
<1> HIDE DEF last
<1>13. last \in Outcomes /\ Spawning(last, p, n)
  BY <1>1, <1>11 DEF A
<1>14. NeedsWorker(last.s, p) => last.stop
  <2>1. Len(last.s.slots[p]) \in Nat /\ Len(last.s.queue[p]) \in Nat /\ last.stop \in BOOLEAN
    <3>1. last.s \in Sys /\ last.stop \in BOOLEAN
      BY <1>13 DEF Outcomes
    <3>2. last.s.slots[p] \in Seq(Slots) /\ last.s.queue[p] \in Seq(Tasks)
      BY <3>1, FieldsOf
    <3>. QED BY <3>1, <3>2, LenProperties
  <2>2. NeedsWorker(last.s, p) => Len(last.s.slots[p]) < Size
    BY DEF NeedsWorker
  <2>3. ~last.stop /\ NeedsWorker(last.s, p) =>
          (Size - Len(last.s.slots[p])) + Len(last.s.queue[p]) <= Size + MaxQueue - n
    BY <1>13 DEF Spawning
  <2>. QED BY <2>1, <2>2, <2>3, Sizes
<1>. QED BY <1>12, <1>13, <1>14 DEF Spawning

(* Between two handlers of a service that is not shut down.                 *)
Resting(s) == /\ Loose(s, {}, s.open) /\ Full(s)
              /\ \A q \in Pools : IdleAt(s, q) # {} => s.waiters = <<>>

LEMMA CalmStays ==
  ASSUME NEW s \in Sys, NEW t \in Sys, NEW p \in Pools, Calm(s, p), Moved(s, t, p)
  PROVE  Calm(t, p)
<1> SUFFICES ASSUME NEW q \in Pools \ {p}, IdleAt(t, q) # {} PROVE t.waiters = <<>>
  BY DEF Calm
<1>1. IdleAt(s, q) # {}
  BY DEF Moved, IdleAt
<1>2. ToSet(t.waiters) = {}
  BY <1>1, EmptyToSet DEF Calm, Moved
<1>. QED BY <1>2, FieldsOf, ToSetIs

LEMMA SettledLoose ==
  ASSUME NEW s, NEW p \in Pools, Pumping(s, p), NeedsWorker(s, p) => InLine(s, p)
  PROVE  LET t == Settled(s, p)
         IN  Loose(t, {}, t.open) /\ Full(t) /\ Calm(t, p)
<1> DEFINE t == Settled(s, p)
<1>1. CASE NeedsWorker(s, p)
  <2>1. t = s
    BY <1>1 DEF Settled
  <2>2. Line(s, p)
    BY <1>1 DEF Pumping, Line, InLine
  <2>. QED BY <1>1, <2>1, <2>2 DEF Pumping, Loose, InLine
<1>2. CASE ~NeedsWorker(s, p)
  <2>1. t = Cancel(s, p)
    BY <1>2 DEF Settled
  <2> HIDE DEF t
  <2>2. Loose(t, {p}, s.open) /\ Full(t) /\ SameWork(s, t) /\ Moved(s, t, p) /\ Away(t, p)
    BY <2>1, CancelLoose DEF Pumping
  <2>3. ~NeedsWorker(t, p) /\ IdleAt(t, p) = IdleAt(s, p)
    BY <1>2, <2>2, SamePool DEF SameWork
  <2>4. Line(t, p)
    BY <2>2, <2>3 DEF Line, Away, Pumping, SameWork
  <2>5. Calm(t, p)
    BY <2>2, CalmStays DEF Pumping, Loose, Typed
  <2>. QED BY <2>2, <2>4, <2>5 DEF Loose, Away, SameWork, t
<1>. QED BY <1>1, <1>2

LEMMA YieldOne ==
  ASSUME NEW s, NEW p \in Pools, Loose(s, {}, s.open), Full(s), Calm(s, p), IdleAt(s, p) # {}
  PROVE  LET t == RetireIdle(s, p)
         IN  /\ Loose(t, {}, t.open) /\ Full(t) /\ Calm(t, p)
             /\ Len(t.slots[p]) = Len(s.slots[p]) - 1
<1> DEFINE t == RetireIdle(s, p)
<1>1. s \in Sys /\ s.open \in SUBSET Tasks
  BY FieldsOf DEF Loose, Typed
<1>2. /\ Loose(t, {p}, s.open) /\ Full(t) /\ Moved(s, t, p) /\ Away(t, p)
      /\ Len(t.slots[p]) = Len(s.slots[p]) - 1
  <2>1. Loose(s, {p}, s.open)
    BY Looser
  <2>. QED BY <1>1, <2>1, RetireLoose
<1> HIDE DEF t
<1>3. t \in Sys /\ t.open = s.open /\ t.queue = s.queue
  BY <1>2 DEF Moved, Loose, Typed
<1>4. t.queue[p] = <<>>
  BY <1>3 DEF Loose, Line
<1>5. Line(t, p)
  BY <1>2, <1>3, <1>4, StartingIsNat DEF Line, Away
<1>6. Loose(t, {}, t.open)
  BY <1>2, <1>3, <1>5 DEF Loose, Away
<1>. QED BY <1>1, <1>2, <1>3, <1>6, CalmStays DEF t

LEMMA YieldIdleRests ==
  ASSUME NEW s, NEW p \in Pools, Loose(s, {}, s.open), Full(s), Calm(s, p)
  PROVE  Resting(YieldIdle(s, p))
<1> DEFINE n == Size
           op(t) == IF t.waiters = <<>> THEN t ELSE RetireIdle(t, p)
           Left(t, i) == t.waiters = <<>> \/ IdleAt(t, p) = {} \/ Len(t.slots[p]) <= n - i
           A == [i \in 0..n |-> {t \in Sys : Loose(t, {}, t.open) /\ Full(t) /\ Calm(t, p) /\ Left(t, i)}]
           step == [x \in Sys \X (1..n) |-> op(x[1])]
<1>1. n \in Nat
  BY PoolAssumption
<1>2. s \in A[0]
  <2>1. s \in Sys /\ Len(s.slots[p]) <= n /\ s.slots[p] \in Seq(Slots)
    BY FieldsOf DEF Loose, Typed
  <2>2. Left(s, 0)
    BY <1>1, <2>1, LenProperties
  <2>. QED BY <1>1, <2>1, <2>2
<1>3. ASSUME NEW i \in 1..n, NEW u \in A[i - 1]
      PROVE  u \in Sys /\ step[<<u, i>>] = op(u) /\ op(u) \in A[i]
  <2> DEFINE t == op(u)
  <2>1. i - 1 \in 0..n /\ i \in 0..n
    BY <1>1
  <2>2. u \in Sys /\ Loose(u, {}, u.open) /\ Full(u) /\ Calm(u, p) /\ Left(u, i - 1)
    BY <2>1
  <2>3. CASE u.waiters = <<>> \/ IdleAt(u, p) = {}
    <3>1. t = u
      BY <2>3 DEF RetireIdle
    <3>. QED BY <3>1, <2>1, <2>2, <2>3
  <2>4. CASE ~(u.waiters = <<>> \/ IdleAt(u, p) = {})
    <3>1. t = RetireIdle(u, p)
      BY <2>4
    <3> HIDE DEF t
    <3>2. /\ Loose(t, {}, t.open) /\ Full(t) /\ Calm(t, p)
          /\ Len(t.slots[p]) = Len(u.slots[p]) - 1
      BY <3>1, <2>2, <2>4, YieldOne
    <3>3. t \in Sys /\ Len(u.slots[p]) \in Nat
      <4>1. t \in Sys /\ u.slots[p] \in Seq(Slots)
        BY <3>2, <2>2, FieldsOf DEF Loose, Typed
      <4>. QED BY <4>1, LenProperties
    <3>4. Left(t, i)
      BY <3>2, <3>3, <2>2, <2>4, <1>1
    <3>5. t \in A[i]
      BY <3>2, <3>3, <3>4, <2>1
    <3>. QED BY <3>5, <2>2 DEF t
  <2>. QED BY <2>3, <2>4
<1> DEFINE Rec(f) == f = [i \in 0..n |-> IF i = 0 THEN s
                            ELSE CHOOSE t \in {(IF u.waiters = <<>> THEN u ELSE RetireIdle(u, p)) : u \in {f[i - 1]}} : TRUE]
<1>4. \E it : it = (CHOOSE f : Rec(f)) /\ YieldIdle(s, p) = it[n]
  BY DEF YieldIdle, Repeat, Iterate
<1>5. PICK it : it = (CHOOSE f : Rec(f)) /\ YieldIdle(s, p) = it[n]
  BY <1>4
<1> HIDE DEF A, step
<1>6. PICK f : Runs(f, n, s, step, A)
  <2>1. Steps(n, step, A)
    BY <1>3 DEF Steps
  <2> HIDE DEF n
  <2>. QED BY <1>1, <1>2, <2>1, Iterates, Zenon
<1>7. /\ f = [i \in 0..n |-> f[i]] /\ f[0] = s
      /\ \A i \in 1..n : f[i] = step[<<f[i - 1], i>>]
      /\ \A i \in 0..n : f[i] \in A[i]
  BY <1>6, Zenon DEF Runs
<1>8. ASSUME NEW x, NEW i PROVE (CHOOSE t \in {(IF u.waiters = <<>> THEN u ELSE RetireIdle(u, p)) : u \in {x}} : TRUE) = (IF x.waiters = <<>> THEN x ELSE RetireIdle(x, p))
  <2>1. {(IF u.waiters = <<>> THEN u ELSE RetireIdle(u, p)) : u \in {x}} = {(IF x.waiters = <<>> THEN x ELSE RetireIdle(x, p))}
    OBVIOUS
  <2>. QED BY <2>1, SingleChoice
<1>9. Rec(it)
  <2>1. ASSUME NEW i \in 0..n
        PROVE  f[i] = IF i = 0 THEN s ELSE CHOOSE t \in {(IF u.waiters = <<>> THEN u ELSE RetireIdle(u, p)) : u \in {f[i - 1]}} : TRUE
    <3>1. CASE i = 0
      BY <3>1, <1>7
    <3>2. CASE i # 0
      <4>1. i \in 1..n /\ i - 1 \in 0..n
        BY <3>2, <1>1
      <4>2. f[i] = (IF f[i - 1].waiters = <<>> THEN f[i - 1] ELSE RetireIdle(f[i - 1], p))
        BY <4>1, <1>3, <1>7
      <4>. QED BY <4>2, <1>8, <3>2
    <3>. QED BY <3>1, <3>2
  <2>2. Rec(f)
    BY <2>1, <1>7
  <2> HIDE DEF Rec
  <2>. QED BY <1>5, <2>2, Zenon
<1>10. ASSUME NEW i \in 1..n, it[i - 1] \in A[i - 1] PROVE it[i] \in A[i]
  <2>1. i \in 0..n /\ i # 0
    BY <1>1
  <2>2. it[i] = (IF it[i - 1].waiters = <<>> THEN it[i - 1] ELSE RetireIdle(it[i - 1], p))
    BY <1>8, <1>9, <2>1
  <2>. QED BY <2>2, <1>3, <1>10
<1>11. YieldIdle(s, p) \in A[n]
  <2>1. it[0] \in A[0]
    BY <1>1, <1>2, <1>9
  <2>2. \A i \in 0..n : it[i] \in A[i]
    BY <1>1, <2>1, <1>10, Follows
  <2>3. n \in 0..n
    BY <1>1
  <2> HIDE DEF Rec, n
  <2>. QED BY <2>2, <2>3, <1>5, Zenon
<1> DEFINE r == YieldIdle(s, p)
<1> HIDE DEF r
<1>12. r \in Sys /\ Loose(r, {}, r.open) /\ Full(r) /\ Calm(r, p) /\ Left(r, n)
  BY <1>1, <1>11 DEF A, r
<1>13. Len(r.slots[p]) <= 0 => IdleAt(r, p) = {}
  <2>1. r.slots[p] \in Seq(Slots)
    BY <1>12, FieldsOf
  <2>. QED BY <2>1, LenProperties DEF IdleAt
<1>14. IdleAt(r, p) # {} => r.waiters = <<>>
  BY <1>1, <1>12, <1>13
<1>. QED BY <1>12, <1>14 DEF Resting, Calm, r

(* Every pump of p, from a state between two steps, ends at rest.           *)
LEMMA PumpedRests ==
  ASSUME NEW s, NEW p \in Pools, Loose(s, {p}, s.open), Full(s), Calm(s, p),
         p \in ToSet(s.pools), NEW t \in Pumped(s, p)
  PROVE  Resting(t)
<1>1. PICK fails \in SpawnFaults :
         t = YieldIdle(Settled(SpawnAll(DispatchAll(s, p), p, fails), p), p)
  BY DEF Pumped
<1> DEFINE u == DispatchAll(s, p)
           v == SpawnAll(u, p, fails)
           w == Settled(v, p)
<1>2. /\ Loose(u, {p}, u.open) /\ Dispatched(s, u, p)
      /\ IdleAt(u, p) # {} => u.queue[p] = <<>>
  BY DispatchAllLoose
<1> HIDE DEF u
<1>3. Pumping(u, p)
  <2>1. Calm(u, p)
    BY <1>2 DEF Dispatched, OnlyAt, Calm, IdleAt
  <2>. QED BY <1>2, <2>1 DEF Pumping, Dispatched, OnlyAt
<1>4. Pumping(v, p) /\ (NeedsWorker(v, p) => InLine(v, p))
  BY <1>3, SpawnAllPumping
<1> HIDE DEF v
<1>5. Loose(w, {}, w.open) /\ Full(w) /\ Calm(w, p)
  BY <1>4, SettledLoose
<1> HIDE DEF w
<1>6. Resting(YieldIdle(w, p))
  BY <1>5, YieldIdleRests
<1>. QED BY <1>1, <1>6 DEF u, v, w
-----------------------------------------------------------------------------
(* The handlers, from a service at rest.                                    *)

(* What a pump of p starts from.                                            *)
Primed(s, p) == /\ Loose(s, {p}, s.open) /\ Full(s) /\ Calm(s, p)
                /\ p \in ToSet(s.pools)

LEMMA PrimedRests ==
  ASSUME NEW s, NEW p \in Pools, Primed(s, p), NEW t \in Pumped(s, p)
  PROVE  Resting(t)
  BY PumpedRests DEF Primed

LEMMA AtWork ==
  ASSUME NEW s, Resting(s), NEW p \in Pools
  PROVE  Loose(s, {p}, s.open) /\ Full(s) /\ Calm(s, p) /\ s \in Sys
  BY Looser DEF Resting, Calm, Loose, Typed

LEMMA WorkPrimes ==
  ASSUME NEW s, Resting(s), NEW p \in Pools, NEW t \in Sys, OnlyAt(s, t, p),
         Len(t.queue[p]) <= MaxQueue, p \in ToSet(t.pools),
         NEW P, \A q \in Pools : Tidy(t.slots[q], t.queue[q], q, P)
  PROVE  Loose(t, {p}, P) /\ Full(t) /\ Calm(t, p)
<1>1. Loose(s, {p}, s.open) /\ Full(s) /\ Calm(s, p)
  BY AtWork
<1>2. Loose(t, {p}, P) /\ Full(t)
  BY <1>1, OnlyAtLoose
<1>3. Calm(t, p)
  BY <1>1 DEF Calm, OnlyAt, IdleAt
<1>. QED BY <1>2, <1>3

(* Settling tasks that no pool holds any more.                              *)
LEMMA OpenIs ==
  ASSUME NEW s, NEW E, NEW O \in SUBSET Tasks, Loose(s, E, O)
  PROVE  LET t == [s EXCEPT !.open = O]
         IN  /\ Loose(t, E, t.open) /\ (Full(s) => Full(t))
             /\ \A p \in Pools : Calm(s, p) => Calm(t, p)
             /\ t.pools = s.pools
<1> DEFINE t == [s EXCEPT !.open = O]
<1>1. s \in Sys
  BY DEF Loose, Typed
<1>2. /\ t \in Sys /\ t.open = O /\ t.slots = s.slots /\ t.queue = s.queue /\ t.pools = s.pools
      /\ t.workers = s.workers /\ t.closed = s.closed /\ t.waiters = s.waiters
      /\ t.reserved = s.reserved /\ t.wakes = s.wakes
  BY <1>1, FieldsOf DEF Sys
<1> HIDE DEF t
<1>3. Live(t) = Live(s) /\ Free(t) = Free(s)
  BY <1>2 DEF Live, Free
<1>4. \A q \in Pools : (NeedsWorker(t, q) <=> NeedsWorker(s, q)) /\ IdleAt(t, q) = IdleAt(s, q)
  BY <1>2, SamePool
<1>5. \A q \in Pools : Line(s, q) => Line(t, q)
  BY <1>2, <1>4 DEF Line
<1>6. Loose(t, E, O)
  BY <1>2, <1>3, <1>5 DEF Loose, Typed, Counted
<1>. QED BY <1>2, <1>3, <1>4, <1>6 DEF Full, Calm, t

(* A worker is dropped, and its task, if it has one, settles.               *)
LEMMA DropPrimes ==
  ASSUME NEW s, Resting(s), NEW p \in Pools, NEW i \in 1..Len(s.slots[p])
  PROVE  LET t == DropSlot(s, p, i)
             task == s.slots[p][i].task
         IN  /\ task # NoTask => Primed([t EXCEPT !.open = @ \ {task}], p)
             /\ task = NoTask => Primed(t, p)
<1> DEFINE t == DropSlot(s, p, i)
           task == s.slots[p][i].task
<1>1. Loose(s, {p}, s.open) /\ Full(s) /\ Calm(s, p) /\ s \in Sys
  BY AtWork
<1>2. Loose(t, {p}, s.open \ {task}) /\ Full(t) /\ Moved(s, t, p)
  BY <1>1, DropLoose
<1>3. s.slots[p] \in Seq(Slots) /\ s.open \in SUBSET Tasks
  BY <1>1, FieldsOf
<1> HIDE DEF t
<1>4. t \in Sys /\ Calm(t, p) /\ t.pools = s.pools /\ t.open = s.open
  BY <1>1, <1>2, CalmStays DEF Loose, Typed, Moved
<1>5. p \in ToSet(t.pools)
  BY <1>1, <1>3, <1>4, EmptySeq DEF Loose
<1>6. CASE task # NoTask
  <2> DEFINE O == s.open \ {task}
  <2>1. O \in SUBSET Tasks
    BY <1>3
  <2> HIDE DEF O
  <2>2. Primed([t EXCEPT !.open = O], p)
    BY <1>2, <1>4, <1>5, <2>1, OpenIs DEF Primed, O
  <2>3. [t EXCEPT !.open = @ \ {task}] = [t EXCEPT !.open = O]
    BY <1>4, FieldsOf DEF O
  <2>. QED BY <1>6, <2>2, <2>3 DEF t
<1>7. CASE task = NoTask
  <2>1. s.open \ {task} = t.open
    BY <1>3, <1>4, <1>7, PoolAssumption
  <2>. QED BY <1>2, <1>4, <1>5, <1>7, <2>1 DEF Primed, t
<1>. QED BY <1>6, <1>7

LEMMA RunRests ==
  ASSUME NEW t \in Tasks, Resting(sys), Run(t)
  PROVE  Resting(sys')
<1> DEFINE p == PoolOf[t]
           qu == Append(sys.queue[p], t)
           opened == IF p \in ToSet(sys.pools) THEN sys.pools ELSE Append(sys.pools, p)
           O == sys.open \cup {t}
           s == [sys EXCEPT !.open = @ \cup {t}, !.queue[p] = Append(@, t),
                            !.pools = IF p \in ToSet(@) THEN @ ELSE Append(@, p)]
<1>1. p \in Pools
  BY PoolAssumption
<1> HIDE DEF p
<1>2. /\ sys \in Sys /\ sys.queue \in [Pools -> Seq(Tasks)] /\ sys.queue[p] \in Seq(Tasks)
      /\ sys.slots \in [Pools -> Seq(Slots)] /\ sys.slots[p] \in Seq(Slots)
      /\ sys.pools \in Seq(Pools) /\ O \in SUBSET Tasks
  BY <1>1, AtWork, FieldsOf
<1>3. qu \in Seq(Tasks) /\ Len(qu) = Len(sys.queue[p]) + 1 /\ Len(sys.queue[p]) \in Nat
  BY <1>2, AppendDoes, LenProperties
<1>4. /\ opened \in Seq(Pools) /\ p \in ToSet(opened) /\ ToSet(sys.pools) \subseteq ToSet(opened)
  BY <1>1, <1>2, AppendDoes
<1>5. s = [sys EXCEPT !.open = O, !.queue = [sys.queue EXCEPT ![p] = qu], !.pools = opened]
  BY <1>2, FieldsOf
<1> HIDE DEF s, qu, opened
<1>6. /\ s \in Sys /\ s.open = O /\ s.queue = [sys.queue EXCEPT ![p] = qu] /\ s.pools = opened
      /\ s.slots = sys.slots /\ OnlyAt(sys, s, p)
  <2>1. [sys.queue EXCEPT ![p] = qu] \in [Pools -> Seq(Tasks)]
    BY <1>2, <1>3
  <2>2. /\ s \in Sys /\ s.open = O /\ s.queue = [sys.queue EXCEPT ![p] = qu] /\ s.pools = opened
        /\ s.slots = sys.slots /\ s.waiters = sys.waiters /\ s.reserved = sys.reserved
        /\ s.wakes = sys.wakes /\ s.workers = sys.workers /\ s.closed = sys.closed
    <3> HIDE DEF O
    <3>. QED BY <1>2, <1>4, <1>5, <2>1, FieldsOf DEF Sys
  <2>. QED BY <1>2, <1>4, <2>2 DEF OnlyAt
<1>7. t \notin sys.open /\ Len(sys.queue[p]) < MaxQueue /\ sys' \in Pumped(s, p)
  BY DEF Run, p, s
<1>8. s.queue[p] = qu /\ Len(s.queue[p]) <= MaxQueue
  BY <1>1, <1>2, <1>3, <1>6, <1>7, PoolAssumption
<1>9. ASSUME NEW q \in Pools PROVE Tidy(s.slots[q], s.queue[q], q, O)
  <2>1. Tidy(sys.slots[q], sys.queue[q], q, sys.open)
    BY DEF Resting, Loose
  <2>2. CASE q = p
    <3>1. Tidy(sys.slots[p], qu, p, O)
      BY <1>2, <1>7, <2>1, <2>2, TidyAdd DEF qu, p
    <3>. QED BY <3>1, <2>2, <1>6, <1>8
  <2>3. CASE q # p
    <3>1. \A x \in Tasks : PoolOf[x] = q => (x \in sys.open <=> x \in O)
      BY <2>3 DEF p
    <3>2. Tidy(sys.slots[q], sys.queue[q], q, O)
      BY <2>1, <3>1, TidyElsewhere
    <3>. QED BY <3>2, <2>3, <1>2, <1>6
  <2>. QED BY <2>2, <2>3
<1>10. Primed(s, p)
  <2>1. p \in ToSet(s.pools)
    BY <1>4, <1>6
  <2>2. Loose(s, {p}, O) /\ Full(s) /\ Calm(s, p)
    BY <1>1, <1>6, <1>8, <1>9, <2>1, WorkPrimes
  <2>. QED BY <1>6, <2>1, <2>2 DEF Primed
<1>. QED BY <1>1, <1>7, <1>10, PrimedRests

(* Of pool p, the slot i alone becomes slot, which has no task.             *)
LEMMA SlotPrimes ==
  ASSUME NEW s, Resting(s), NEW p \in Pools, NEW i \in 1..Len(s.slots[p]),
         NEW slot \in Slots, slot.task = NoTask, NEW t \in Sys,
         t.slots = [s.slots EXCEPT ![p] = [s.slots[p] EXCEPT ![i] = slot]],
         t.queue = s.queue, t.pools = s.pools, t.workers = s.workers, t.closed = s.closed,
         t.waiters = s.waiters, t.reserved = s.reserved, t.wakes = s.wakes,
         t.open = s.open \ {s.slots[p][i].task}
  PROVE  Primed(t, p)
<1> DEFINE sl == [s.slots[p] EXCEPT ![i] = slot]
           task == s.slots[p][i].task
<1>1. /\ s \in Sys /\ s.slots \in [Pools -> Seq(Slots)] /\ s.slots[p] \in Seq(Slots)
      /\ s.queue \in [Pools -> Seq(Tasks)] /\ s.queue[p] \in Seq(Tasks)
  <2>1. s \in Sys
    BY AtWork
  <2>2. s.slots \in [Pools -> Seq(Slots)] /\ s.queue \in [Pools -> Seq(Tasks)]
    BY <2>1, FieldsOf
  <2>. QED BY <2>1, <2>2
<1>2. sl \in Seq(Slots) /\ Len(sl) = Len(s.slots[p]) /\ t.slots[p] = sl
      /\ \A q \in Pools \ {p} : t.slots[q] = s.slots[q]
  BY <1>1, ExceptSeq
<1> HIDE DEF sl
<1>3. OnlyAt(s, t, p)
  BY <1>2 DEF OnlyAt
<1>4. ASSUME NEW q \in Pools PROVE Tidy(t.slots[q], t.queue[q], q, t.open)
  <2>1. Tidy(s.slots[q], s.queue[q], q, s.open)
    BY DEF Resting, Loose
  <2>2. CASE q = p
    <3>1. Tidy(s.slots[p], s.queue[p], p, s.open)
      BY <2>1, <2>2
    <3>2. Tidy(sl, s.queue[p], p, s.open \ {task})
      BY <1>1, <3>1, TidySlot, Zenon DEF sl
    <3>. QED BY <2>2, <3>2, <1>2
  <2>3. CASE q # p
    <3>1. \A x \in Tasks : PoolOf[x] = q => (x \in s.open <=> x \in s.open \ {task})
      <4>1. Tidy(s.slots[p], s.queue[p], p, s.open)
        BY DEF Resting, Loose
      <4>2. task \in Tasks => PoolOf[task] = p
        BY <4>1 DEF Tidy
      <4>. QED BY <2>3, <4>2
    <3>2. Tidy(s.slots[q], s.queue[q], q, s.open \ {task})
      BY <2>1, <3>1, TidyElsewhere
    <3>. QED BY <2>3, <3>2, <1>2
  <2>. QED BY <2>2, <2>3
<1>5. p \in ToSet(t.pools) /\ Len(t.queue[p]) <= MaxQueue
  <2>1. s.slots[p] # <<>>
    BY <1>1, EmptySeq
  <2>. QED BY <2>1 DEF Resting, Loose, Typed
<1>6. Loose(t, {p}, t.open) /\ Full(t) /\ Calm(t, p)
  BY <1>3, <1>4, <1>5, WorkPrimes
<1>. QED BY <1>5, <1>6 DEF Primed

LEMMA ReadyRests ==
  ASSUME NEW p \in Pools, NEW i \in DOMAIN sys.slots[p], Resting(sys), Ready(p, i)
  PROVE  Resting(sys')
<1> DEFINE slot == [sys.slots[p][i] EXCEPT !.ready = TRUE]
           s == [sys EXCEPT !.slots[p][i].ready = TRUE]
<1>1. /\ sys \in Sys /\ sys.slots \in [Pools -> Seq(Slots)] /\ sys.slots[p] \in Seq(Slots)
      /\ sys.open \in SUBSET Tasks
  <2>1. sys \in Sys
    BY AtWork
  <2>2. sys.slots \in [Pools -> Seq(Slots)] /\ sys.open \in SUBSET Tasks
    BY ONLY <2>1, FieldsOf
  <2>. QED BY <2>1, <2>2
<1>2. i \in 1..Len(sys.slots[p]) /\ sys.slots[p][i] \in Slots
  BY <1>1
<1>3. ~sys.slots[p][i].ready /\ sys' \in Pumped(s, p)
  BY DEF Ready, StartingAt
<1>4. sys.slots[p][i].task = NoTask
  BY <1>2, <1>3 DEF Resting, Loose, Tidy
<1>5. slot \in Slots /\ slot.task = NoTask
  BY <1>2, <1>4 DEF Slots
<1>6. s = [sys EXCEPT !.slots = [sys.slots EXCEPT ![p] = [sys.slots[p] EXCEPT ![i] = slot]]]
  BY <1>1, <1>2, FieldsOf
<1> HIDE DEF s, slot
<1>7. Primed(s, p)
  <2> DEFINE sl == [sys.slots EXCEPT ![p] = [sys.slots[p] EXCEPT ![i] = slot]]
  <2>1. sl \in [Pools -> Seq(Slots)]
    <3>1. [sys.slots[p] EXCEPT ![i] = slot] \in Seq(Slots)
      BY <1>1, <1>2, <1>5, ExceptSeq
    <3>. QED BY <3>1, <1>1
  <2> HIDE DEF sl
  <2>2. s = [sys EXCEPT !.slots = sl]
    BY <1>6 DEF sl
  <2>3. /\ s \in Sys /\ s.slots = sl /\ s.queue = sys.queue /\ s.pools = sys.pools
        /\ s.workers = sys.workers /\ s.closed = sys.closed /\ s.waiters = sys.waiters
        /\ s.reserved = sys.reserved /\ s.wakes = sys.wakes /\ s.open = sys.open
    BY <1>1, <2>1, <2>2, FieldsOf DEF Sys
  <2>4. s.open = sys.open \ {sys.slots[p][i].task}
    BY <1>1, <1>4, <2>3, PoolAssumption
  <2>. QED BY <1>2, <1>5, <2>3, <2>4, SlotPrimes DEF sl
<1>. QED BY <1>3, <1>7, PrimedRests

LEMMA ReplyRests ==
  ASSUME NEW p \in Pools, NEW i \in DOMAIN sys.slots[p], Resting(sys), Reply(p, i)
  PROVE  Resting(sys')
<1> DEFINE slot == [sys.slots[p][i] EXCEPT !.task = NoTask]
           task == sys.slots[p][i].task
           s == [sys EXCEPT !.slots[p][i].task = NoTask, !.open = @ \ {task}]
           t == AfterReply(s, p)
<1>1. /\ sys \in Sys /\ sys.slots \in [Pools -> Seq(Slots)] /\ sys.slots[p] \in Seq(Slots)
      /\ sys.open \in SUBSET Tasks
  <2>1. sys \in Sys
    BY AtWork
  <2>2. sys.slots \in [Pools -> Seq(Slots)] /\ sys.open \in SUBSET Tasks
    BY ONLY <2>1, FieldsOf
  <2>. QED BY <2>1, <2>2
<1>2. i \in 1..Len(sys.slots[p]) /\ sys.slots[p][i] \in Slots
  BY <1>1
<1>3. sys' \in Pumped(t, p)
  BY DEF Reply
<1>4. slot \in Slots /\ slot.task = NoTask
  BY <1>2 DEF Slots
<1>5. s = [sys EXCEPT !.slots = [sys.slots EXCEPT ![p] = [sys.slots[p] EXCEPT ![i] = slot]],
                      !.open = sys.open \ {task}]
  BY <1>1, <1>2, FieldsOf
<1> HIDE DEF s, slot, t
<1>6. Primed(s, p)
  <2> DEFINE sl == [sys.slots EXCEPT ![p] = [sys.slots[p] EXCEPT ![i] = slot]]
             O == sys.open \ {task}
  <2>1. sl \in [Pools -> Seq(Slots)] /\ O \in SUBSET Tasks
    <3>1. [sys.slots[p] EXCEPT ![i] = slot] \in Seq(Slots)
      BY <1>1, <1>2, <1>4, ExceptSeq
    <3>. QED BY <3>1, <1>1
  <2> HIDE DEF sl, O
  <2>2. s = [sys EXCEPT !.slots = sl, !.open = O]
    BY <1>5 DEF sl, O
  <2>3. /\ s \in Sys /\ s.slots = sl /\ s.queue = sys.queue /\ s.pools = sys.pools
        /\ s.workers = sys.workers /\ s.closed = sys.closed /\ s.waiters = sys.waiters
        /\ s.reserved = sys.reserved /\ s.wakes = sys.wakes /\ s.open = O
    BY <1>1, <2>1, <2>2, FieldsOf DEF Sys
  <2>. QED BY <1>2, <1>4, <2>3, SlotPrimes DEF sl, O
<1>7. Primed(t, p)
  <2>1. CASE t = s
    BY <2>1, <1>6
  <2>2. CASE t = RetireIdle(s, p) /\ IdleAt(s, p) # {}
    <3>1. s \in Sys /\ s.open \in SUBSET Tasks /\ Loose(s, {p}, s.open)
      BY <1>6, FieldsOf DEF Primed, Loose, Typed
    <3>2. Loose(t, {p}, s.open) /\ Full(t) /\ Moved(s, t, p)
      BY <2>2, <3>1, RetireLoose
    <3>3. Calm(t, p)
      BY <1>6, <3>1, <3>2, CalmStays DEF Primed, Loose, Typed
    <3>. QED BY <1>6, <3>2, <3>3 DEF Primed, Moved
  <2>. QED BY <2>1, <2>2 DEF t, AfterReply, RetireIdle
<1>. QED BY <1>3, <1>7, PrimedRests

LEMMA DieRests ==
  ASSUME NEW p \in Pools, NEW i \in DOMAIN sys.slots[p], Resting(sys), Die(p, i)
  PROVE  Resting(sys')
<1> DEFINE slot == sys.slots[p][i]
           s == DropSlot(sys, p, i)
           t == IF slot.task # NoTask THEN [s EXCEPT !.open = @ \ {slot.task}]
                ELSE IF slot.ready THEN s
                ELSE FailOldest(s, p)
<1>1. i \in 1..Len(sys.slots[p])
  <2>1. sys \in Sys
    BY AtWork
  <2>2. sys.slots[p] \in Seq(Slots)
    BY <2>1, FieldsOf
  <2>. QED BY <2>2
<1>2. sys' \in Pumped(t, p)
  BY DEF Die
<1>3. /\ slot.task # NoTask => Primed([s EXCEPT !.open = @ \ {slot.task}], p)
      /\ slot.task = NoTask => Primed(s, p)
  BY <1>1, DropPrimes
<1> HIDE DEF s
<1>4. Primed(s, p) => Primed(FailOldest(s, p), p)
  <2> SUFFICES ASSUME Primed(s, p) PROVE Primed(FailOldest(s, p), p)
    OBVIOUS
  <2> DEFINE u == FailOldest(s, p)
  <2>1. Loose(u, {p}, u.open) /\ OnlyAt(s, u, p) /\ Full(u)
    BY FailOldestLoose DEF Primed
  <2> HIDE DEF u
  <2>2. Calm(u, p) /\ p \in ToSet(u.pools)
    BY <2>1 DEF Primed, Calm, OnlyAt, IdleAt
  <2>. QED BY <2>1, <2>2 DEF Primed, u
<1>5. Primed(t, p)
  BY <1>3, <1>4
<1>. QED BY <1>2, <1>5, PrimedRests

LEMMA TimeoutRunningRests ==
  ASSUME NEW t \in Tasks, Resting(sys), TimeoutRunning(t)
  PROVE  Resting(sys')
<1> DEFINE p == PoolOf[t]
<1>1. p \in Pools
  BY PoolAssumption
<1> HIDE DEF p
<1>2. PICK i \in DOMAIN sys.slots[p] :
        sys.slots[p][i].task = t /\ sys' \in Pumped([DropSlot(sys, p, i) EXCEPT !.open = @ \ {t}], p)
  BY DEF TimeoutRunning, p
<1>3. i \in 1..Len(sys.slots[p]) /\ t # NoTask
  <2>1. sys \in Sys
    BY <1>1, AtWork
  <2>2. sys.slots[p] \in Seq(Slots)
    BY <1>1, <2>1, FieldsOf
  <2>. QED BY <2>2, PoolAssumption
<1>4. Primed([DropSlot(sys, p, i) EXCEPT !.open = @ \ {t}], p)
  BY <1>1, <1>2, <1>3, DropPrimes
<1>. QED BY <1>1, <1>2, <1>4, PrimedRests

LEMMA ResumeRests ==
  ASSUME Resting(sys), Resume
  PROVE  Resting(sys')
<1> DEFINE p == Head(sys.wakes)
           s == [sys EXCEPT !.wakes = Tail(@)]
<1>1. /\ sys \in Sys /\ sys.wakes \in Seq(Pools) /\ sys.wakes # <<>>
      /\ (p \in sys.reserved /\ sys' \in Pumped(s, p)) \/ (p \notin sys.reserved /\ sys' = s)
  <2>1. sys \in Sys
    BY DEF Resting, Loose, Typed
  <2>. QED BY <2>1, FieldsOf DEF Resume
<1>2. /\ Tail(sys.wakes) \in Seq(Pools) /\ p \in Pools
      /\ ToSet(sys.wakes) \subseteq ToSet(Tail(sys.wakes)) \cup {p}
  <2>1. /\ Tail(sys.wakes) = RemoveAt(sys.wakes, 1) /\ p = sys.wakes[1]
        /\ 1 \in 1..Len(sys.wakes) /\ p \in Pools
    BY <1>1, TailDoes
  <2> HIDE DEF p
  <2>2. Tail(sys.wakes) \in Seq(Pools)
    BY <1>1, <2>1, RemoveAtDoes
  <2>3. ToSet(sys.wakes) \subseteq ToSet(RemoveAt(sys.wakes, 1)) \cup {sys.wakes[1]}
    BY <1>1, <2>1, WithoutOne
  <2>. QED BY <2>1, <2>2, <2>3
<1>3. /\ s \in Sys /\ s.open = sys.open /\ s.slots = sys.slots /\ s.queue = sys.queue
      /\ s.pools = sys.pools /\ s.workers = sys.workers /\ s.closed = sys.closed
      /\ s.waiters = sys.waiters /\ s.reserved = sys.reserved /\ s.wakes = Tail(sys.wakes)
  BY <1>1, <1>2, FieldsOf DEF Sys
<1> HIDE DEF s, p
<1>4. Live(s) = Live(sys) /\ Free(s) = Free(sys)
  BY <1>3 DEF Live, Free
<1>5. \A q \in Pools : (NeedsWorker(s, q) <=> NeedsWorker(sys, q)) /\ IdleAt(s, q) = IdleAt(sys, q)
  BY <1>3, SamePool
<1>6. ASSUME NEW E, sys.reserved \ E \subseteq ToSet(s.wakes) PROVE Loose(s, E, s.open)
  BY <1>3, <1>4, <1>5, <1>6 DEF Resting, Loose, Typed, Counted, Line
<1>7. Full(s) /\ \A q \in Pools : IdleAt(s, q) # {} => s.waiters = <<>>
  BY <1>3, <1>4, <1>5 DEF Resting, Full
<1>8. sys.reserved \subseteq ToSet(sys.wakes)
  BY DEF Resting, Loose
<1>9. CASE p \in sys.reserved /\ sys' \in Pumped(s, p)
  <2>1. sys.queue[p] # <<>>
    BY <1>1, <1>2, <1>9, StartingIsNat DEF Resting, Loose, Line
  <2>2. p \in ToSet(s.pools)
    BY <1>2, <1>3, <2>1 DEF Resting, Loose
  <2>3. Primed(s, p)
    BY <1>2, <1>3, <1>6, <1>7, <1>8, <2>2 DEF Primed, Calm
  <2>. QED BY <1>2, <1>9, <2>3, PrimedRests
<1>10. CASE p \notin sys.reserved /\ sys' = s
  <2>1. sys.reserved \ {} \subseteq ToSet(s.wakes)
    BY <1>2, <1>3, <1>8, <1>10
  <2>. QED BY <1>6, <1>7, <1>10, <2>1 DEF Resting
<1>. QED BY <1>1, <1>9, <1>10

LEMMA MaxDoes ==
  ASSUME NEW n \in Nat, NEW T \in SUBSET (1..n), T # {}
  PROVE  Max(T) \in T /\ \A m \in T : m <= Max(T)
<1> DEFINE U == {n - m : m \in T}
<1>1. PICK k \in U : \A m \in U : k <= m
  <2>1. \A m \in T : n - m \in Nat
    OBVIOUS
  <2>2. U \in SUBSET Nat /\ U # {}
    BY <2>1
  <2> HIDE DEF U
  <2>. QED BY <2>2, LeastOf
<1>2. PICK x \in T : k = n - x
  BY <1>1
<1>3. \A m \in T : x >= m
  BY <1>1, <1>2
<1>4. Max(T) \in T /\ \A m \in T : Max(T) >= m
  BY <1>3 DEF Max
<1>. QED BY <1>4

(* Giving up the last worker of p that is still starting.                   *)
LEMMA StartingDropped ==
  ASSUME NEW s \in Sys, NEW p \in Pools, StartingAt(s, p) # {}
  PROVE  LET i == Max(StartingAt(s, p))
         IN  /\ i \in 1..Len(s.slots[p]) /\ ~s.slots[p][i].ready
             /\ \A t : t.slots[p] = RemoveAt(s.slots[p], i) =>
                  Cardinality(StartingAt(t, p)) = Cardinality(StartingAt(s, p)) - 1
<1> DEFINE i == Max(StartingAt(s, p))
           T == StartingAt(s, p)
           n == Len(s.slots[p])
           sl == RemoveAt(s.slots[p], i)
<1>1. s.slots[p] \in Seq(Slots)
  BY FieldsOf
<1>2. n \in Nat /\ DOMAIN s.slots[p] = 1..n
  BY <1>1, LenProperties
<1>3. IsFiniteSet(T) /\ T \in SUBSET (1..n)
  BY StartingIsNat
<1>4. i \in T /\ \A m \in T : m <= i
  <2> HIDE DEF T, n
  <2>. QED BY <1>2, <1>3, MaxDoes DEF T
<1> HIDE DEF i, n
<1>5. i \in 1..n /\ ~s.slots[p][i].ready /\ \A m \in 1..n : m > i => s.slots[p][m].ready
  BY <1>2, <1>4 DEF StartingAt
<1>6. /\ sl \in Seq(Slots) /\ Len(sl) = n - 1
      /\ \A j \in 1..(n - 1) : sl[j] = IF j < i THEN s.slots[p][j] ELSE s.slots[p][j + 1]
  BY <1>1, <1>5, RemoveAtDoes DEF n
<1> HIDE DEF sl
<1>7. DOMAIN sl = 1..(n - 1)
  BY <1>6, LenProperties
<1>8. ASSUME NEW t, t.slots[p] = sl
      PROVE  Cardinality(StartingAt(t, p)) = Cardinality(T) - 1
  <2>1. StartingAt(t, p) = {j \in 1..(n - 1) : ~sl[j].ready}
    BY <1>7, <1>8 DEF StartingAt
  <2>2. T = {j \in 1..n : ~s.slots[p][j].ready}
    BY <1>2 DEF StartingAt
  <2>3. ASSUME NEW j \in 1..(n - 1) PROVE ~sl[j].ready <=> j # i /\ ~s.slots[p][j].ready
    <3>1. CASE j < i
      BY <3>1, <1>2, <1>6
    <3>2. CASE j >= i
      <4>1. sl[j] = s.slots[p][j + 1] /\ j + 1 \in 1..n /\ j + 1 > i
        BY <3>2, <1>2, <1>5, <1>6
      <4>2. sl[j].ready
        BY <4>1, <1>5
      <4>3. j # i => s.slots[p][j].ready
        BY <3>2, <1>2, <1>5
      <4>. QED BY <4>2, <4>3
    <3>. QED BY <3>1, <3>2, <1>2, <1>5
  <2>4. i # n => s.slots[p][n].ready
    BY <1>2, <1>5
  <2> HIDE DEF T
  <2>5. StartingAt(t, p) = T \ {i}
    BY <2>1, <2>2, <2>3, <2>4, <1>2, <1>5
  <2>. QED BY <2>5, <1>3, <1>4, FS_RemoveElement
<1>. QED BY <1>5, <1>8 DEF i, n, sl

LEMMA GiveUpLoose ==
  ASSUME NEW s, NEW p \in Pools, NEW O \in SUBSET Tasks, Loose(s, {p}, O), StartingAt(s, p) # {}
  PROVE  LET t == DropSlot(s, p, Max(StartingAt(s, p)))
         IN  /\ Loose(t, {p}, O) /\ Full(t) /\ Moved(s, t, p)
             /\ Cardinality(StartingAt(t, p)) = Cardinality(StartingAt(s, p)) - 1
<1> DEFINE i == Max(StartingAt(s, p))
           t == DropSlot(s, p, i)
<1>1. s \in Sys
  BY DEF Loose, Typed
<1>2. /\ i \in 1..Len(s.slots[p]) /\ ~s.slots[p][i].ready
      /\ \A v : v.slots[p] = RemoveAt(s.slots[p], i) =>
           Cardinality(StartingAt(v, p)) = Cardinality(StartingAt(s, p)) - 1
  BY <1>1, StartingDropped
<1> HIDE DEF i
<1>3. /\ Loose(t, {p}, O \ {s.slots[p][i].task}) /\ Full(t) /\ Moved(s, t, p)
      /\ t.slots[p] = RemoveAt(s.slots[p], i)
  BY <1>2, DropLoose
<1>4. s.slots[p][i].task = NoTask
  BY <1>2 DEF Loose, Tidy
<1>5. O \ {s.slots[p][i].task} = O
  BY <1>4, PoolAssumption
<1>. QED BY <1>2, <1>3, <1>5 DEF i

GivenUp(s, p, n) == Repeat(LAMBDA t : DropSlot(t, p, Max(StartingAt(t, p))), s, n)

LEMMA GivenUpLoose ==
  ASSUME NEW s, NEW p \in Pools, NEW O \in SUBSET Tasks, Loose(s, {p}, O), Full(s),
         NEW n \in Nat, n <= Cardinality(StartingAt(s, p))
  PROVE  Loose(GivenUp(s, p, n), {p}, O) /\ Full(GivenUp(s, p, n)) /\ Moved(s, GivenUp(s, p, n), p)
<1> DEFINE c == Cardinality(StartingAt(s, p))
           op(t) == DropSlot(t, p, Max(StartingAt(t, p)))
           A == [i \in 0..n |-> {t \in Sys : Loose(t, {p}, O) /\ Full(t) /\ Moved(s, t, p)
                                              /\ Cardinality(StartingAt(t, p)) = c - i}]
           step == [x \in Sys \X (1..n) |-> op(x[1])]
<1>0. s \in Sys /\ c \in Nat /\ n <= c
  BY StartingIsNat DEF Loose, Typed
<1>1. n \in Nat
  OBVIOUS
<1>2. s \in A[0]
  BY <1>0 DEF Moved
<1>3. ASSUME NEW i \in 1..n, NEW u \in A[i - 1]
      PROVE  u \in Sys /\ step[<<u, i>>] = op(u) /\ op(u) \in A[i]
  <2> DEFINE t == op(u)
  <2>1. i - 1 \in 0..n /\ i \in 0..n
    OBVIOUS
  <2>2. /\ u \in Sys /\ Loose(u, {p}, O) /\ Full(u) /\ Moved(s, u, p)
        /\ Cardinality(StartingAt(u, p)) = c - (i - 1)
    BY <2>1
  <2>3. StartingAt(u, p) # {}
    <3> HIDE DEF c
    <3>1. c - (i - 1) >= 1
      BY <1>0
    <3>2. Cardinality(StartingAt(u, p)) >= 1
      BY <3>1, <2>2
    <3>3. StartingAt(u, p) = {} => Cardinality(StartingAt(u, p)) = 0
      BY FS_EmptySet, Zenon
    <3>. QED BY <3>2, <3>3
  <2>4. /\ Loose(t, {p}, O) /\ Full(t) /\ Moved(u, t, p)
        /\ Cardinality(StartingAt(t, p)) = Cardinality(StartingAt(u, p)) - 1
    BY <2>2, <2>3, GiveUpLoose
  <2>5. step[<<u, i>>] = t
    BY <2>2
  <2> HIDE DEF t, c
  <2>6. Cardinality(StartingAt(t, p)) = c - i /\ t \in Sys /\ Moved(s, t, p)
    BY <2>2, <2>4, <1>0, MovedTwice DEF Loose, Typed
  <2>7. t \in A[i]
    BY <2>1, <2>4, <2>6
  <2> HIDE DEF A, step
  <2>. QED BY <2>2, <2>5, <2>7 DEF t
<1> DEFINE Rec(f) == f = [i \in 0..n |-> IF i = 0 THEN s
                            ELSE CHOOSE t \in {(DropSlot(u, p, Max(StartingAt(u, p)))) : u \in {f[i - 1]}} : TRUE]
<1>4. \E it : it = (CHOOSE f : Rec(f)) /\ GivenUp(s, p, n) = it[n]
  BY DEF GivenUp, Repeat, Iterate
<1>5. PICK it : it = (CHOOSE f : Rec(f)) /\ GivenUp(s, p, n) = it[n]
  BY <1>4
<1> HIDE DEF A, step
<1>6. PICK f : Runs(f, n, s, step, A)
  <2>1. Steps(n, step, A)
    BY <1>3 DEF Steps
  <2>. QED BY <1>1, <1>2, <2>1, Iterates, Zenon
<1>7. /\ f = [i \in 0..n |-> f[i]] /\ f[0] = s
      /\ \A i \in 1..n : f[i] = step[<<f[i - 1], i>>]
      /\ \A i \in 0..n : f[i] \in A[i]
  BY <1>6, Zenon DEF Runs
<1>8. ASSUME NEW x, NEW i PROVE (CHOOSE t \in {(DropSlot(u, p, Max(StartingAt(u, p)))) : u \in {x}} : TRUE) = (DropSlot(x, p, Max(StartingAt(x, p))))
  <2>1. {(DropSlot(u, p, Max(StartingAt(u, p)))) : u \in {x}} = {(DropSlot(x, p, Max(StartingAt(x, p))))}
    OBVIOUS
  <2>. QED BY <2>1, SingleChoice
<1>9. Rec(it)
  <2>1. ASSUME NEW i \in 0..n
        PROVE  f[i] = IF i = 0 THEN s ELSE CHOOSE t \in {(DropSlot(u, p, Max(StartingAt(u, p)))) : u \in {f[i - 1]}} : TRUE
    <3>1. CASE i = 0
      BY <3>1, <1>7
    <3>2. CASE i # 0
      <4>1. i \in 1..n /\ i - 1 \in 0..n
        BY <3>2, <1>1
      <4>2. f[i] = (DropSlot(f[i - 1], p, Max(StartingAt(f[i - 1], p))))
        BY <4>1, <1>3, <1>7
      <4>. QED BY <4>2, <1>8, <3>2
    <3>. QED BY <3>1, <3>2
  <2>2. Rec(f)
    BY <2>1, <1>7
  <2> HIDE DEF Rec
  <2>. QED BY <1>5, <2>2, Zenon
<1>10. ASSUME NEW i \in 1..n, it[i - 1] \in A[i - 1] PROVE it[i] \in A[i]
  <2>1. i \in 0..n /\ i # 0
    BY <1>1
  <2>2. it[i] = (DropSlot(it[i - 1], p, Max(StartingAt(it[i - 1], p))))
    BY <1>8, <1>9, <2>1
  <2>. QED BY <2>2, <1>3, <1>10
<1>11. GivenUp(s, p, n) \in A[n]
  <2>1. it[0] \in A[0]
    BY <1>1, <1>2, <1>9
  <2>2. \A i \in 0..n : it[i] \in A[i]
    BY <1>1, <2>1, <1>10, Follows
  <2>3. n \in 0..n
    BY <1>1
  <2> HIDE DEF Rec
  <2>. QED BY <2>2, <2>3, <1>5, Zenon
<1>. QED BY <1>11 DEF A

LEMMA ReclaimLoose ==
  ASSUME NEW s, NEW p \in Pools, NEW O \in SUBSET Tasks, Loose(s, {p}, O), Full(s), Calm(s, p)
  PROVE  LET t == Reclaim(s, p)
         IN  Loose(t, {p}, O) /\ Full(t) /\ Calm(t, p) /\ t.open = s.open /\ t.pools = s.pools
<1> DEFINE c == Cardinality(StartingAt(s, p))
           keep == IF HasStarvedWaiter(s) THEN Min({Len(s.queue[p]), c - 1}) ELSE Len(s.queue[p])
           extra == c - Max({0, keep})
           u == Cancel(s, p)
           t == Reclaim(s, p)
<1>1. s \in Sys /\ c \in Nat
  BY StartingIsNat DEF Loose, Typed
<1>2. Max({0, keep}) \in Nat
  <2>1. s.queue[p] \in Seq(Tasks)
    BY <1>1, FieldsOf
  <2>2. keep \in Int
    <3>1. Len(s.queue[p]) \in Int /\ c - 1 \in Int
      BY <1>1, <2>1, LenProperties
    <3>2. \A a, b \in Int : Min({a, b}) \in Int
      BY DEF Min
    <3> HIDE DEF c
    <3>. QED BY <3>1, <3>2
  <2> HIDE DEF keep
  <2>3. \A b \in Int : Max({0, b}) \in Nat
    <3> SUFFICES ASSUME NEW b \in Int PROVE Max({0, b}) \in Nat
      OBVIOUS
    <3> DEFINE m == IF b >= 0 THEN b ELSE 0
    <3>1. m \in {0, b} /\ \A y \in {0, b} : m >= y
      OBVIOUS
    <3>2. Max({0, b}) \in {0, b} /\ \A y \in {0, b} : Max({0, b}) >= y
      <4> HIDE DEF m
      <4>. QED BY <3>1 DEF Max
    <3>. QED BY <3>2
  <2>. QED BY <2>2, <2>3
<1>3. CASE extra <= 0
  <2>1. t = s
    BY <1>3 DEF Reclaim
  <2>. QED BY <2>1
<1>4. CASE ~(extra <= 0)
  <2>1. t = GivenUp(u, p, extra)
    BY <1>4, Zenon DEF Reclaim, GivenUp
  <2>2. Loose(u, {p}, O) /\ Full(u) /\ SameWork(s, u) /\ Moved(s, u, p)
    BY CancelLoose
  <2> HIDE DEF u
  <2>3. Cardinality(StartingAt(u, p)) = c
    BY <2>2 DEF SameWork, StartingAt
  <2> HIDE DEF c, keep
  <2>4. extra \in Nat /\ extra <= c
    BY <1>1, <1>2, <1>4
  <2> HIDE DEF extra, t
  <2>5. Loose(t, {p}, O) /\ Full(t) /\ Moved(u, t, p)
    BY <2>1, <2>2, <2>3, <2>4, GivenUpLoose
  <2>6. Moved(s, t, p) /\ t \in Sys
    BY <2>2, <2>5, MovedTwice DEF Loose, Typed
  <2>7. Calm(t, p)
    BY <2>6, <1>1, CalmStays
  <2>. QED BY <2>5, <2>6, <2>7 DEF Moved, t
<1>. QED BY <1>3, <1>4

LEMMA TimeoutPendingRests ==
  ASSUME NEW t \in Tasks, Resting(sys), TimeoutPending(t)
  PROVE  Resting(sys')
<1> DEFINE p == PoolOf[t]
           qu == RemoveFirst(sys.queue[p], t)
           O == sys.open \ {t}
           s == [sys EXCEPT !.queue[p] = RemoveFirst(@, t)]
<1>1. p \in Pools
  BY PoolAssumption
<1> HIDE DEF p
<1>2. /\ sys \in Sys /\ sys.queue \in [Pools -> Seq(Tasks)] /\ sys.queue[p] \in Seq(Tasks)
      /\ sys.slots \in [Pools -> Seq(Slots)] /\ sys.slots[p] \in Seq(Slots)
      /\ sys.open \in SUBSET Tasks
  <2>1. sys \in Sys
    BY <1>1, AtWork
  <2>. QED BY <1>1, <2>1, FieldsOf
<1>3. t \in ToSet(sys.queue[p]) /\ sys' \in Pumped([Reclaim(s, p) EXCEPT !.open = @ \ {t}], p)
  BY DEF TimeoutPending, p, s
<1>4. PICK i \in 1..Len(sys.queue[p]) : sys.queue[p][i] = t /\ qu = RemoveAt(sys.queue[p], i)
  BY <1>2, <1>3, RemoveFirstDoes
<1>5. qu \in Seq(Tasks) /\ Len(qu) = Len(sys.queue[p]) - 1 /\ Len(sys.queue[p]) \in Nat
  <2> DEFINE seq == sys.queue[p]
  <2>1. seq \in Seq(Tasks) /\ i \in 1..Len(seq)
    BY <1>2
  <2> HIDE DEF seq
  <2>2. RemoveAt(seq, i) \in Seq(Tasks) /\ Len(RemoveAt(seq, i)) = Len(seq) - 1 /\ Len(seq) \in Nat
    BY <2>1, RemoveAtDoes, LenProperties
  <2>. QED BY <2>2, <1>4 DEF seq
<1>6. s = [sys EXCEPT !.queue = [sys.queue EXCEPT ![p] = qu]]
  BY <1>2, FieldsOf
<1> HIDE DEF s, qu
<1>7. p \in ToSet(sys.pools)
  <2>1. sys.queue[p] # <<>>
    BY <1>2, <1>4, EmptySeq
  <2>. QED BY <1>1, <2>1 DEF Resting, Loose
<1>8. /\ s \in Sys /\ s.open = sys.open /\ s.queue = [sys.queue EXCEPT ![p] = qu]
      /\ s.slots = sys.slots /\ s.pools = sys.pools /\ OnlyAt(sys, s, p)
  <2>1. [sys.queue EXCEPT ![p] = qu] \in [Pools -> Seq(Tasks)]
    BY <1>2, <1>5
  <2>2. /\ s \in Sys /\ s.open = sys.open /\ s.queue = [sys.queue EXCEPT ![p] = qu]
        /\ s.slots = sys.slots /\ s.pools = sys.pools /\ s.waiters = sys.waiters
        /\ s.reserved = sys.reserved /\ s.wakes = sys.wakes /\ s.workers = sys.workers
        /\ s.closed = sys.closed
    BY <1>2, <1>6, <2>1, FieldsOf DEF Sys
  <2>. QED BY <1>2, <2>2 DEF OnlyAt
<1>9. s.queue[p] = qu /\ Len(s.queue[p]) <= MaxQueue
  <2>1. Len(sys.queue[p]) <= MaxQueue
    BY <1>1 DEF Resting, Loose, Typed
  <2>. QED BY <2>1, <1>1, <1>2, <1>5, <1>8, PoolAssumption
<1>10. ASSUME NEW q \in Pools PROVE Tidy(s.slots[q], s.queue[q], q, O)
  <2>1. Tidy(sys.slots[q], sys.queue[q], q, sys.open)
    BY DEF Resting, Loose
  <2>2. CASE q = p
    <3>1. Tidy(sys.slots[p], qu, p, O)
      BY <1>2, <1>4, <2>1, <2>2, TidyTake
    <3>. QED BY <3>1, <2>2, <1>8, <1>9
  <2>3. CASE q # p
    <3>1. \A x \in Tasks : PoolOf[x] = q => (x \in sys.open <=> x \in O)
      BY <2>3 DEF p
    <3>2. Tidy(sys.slots[q], sys.queue[q], q, O)
      BY <2>1, <3>1, TidyElsewhere
    <3>. QED BY <3>2, <2>3, <1>2, <1>8
  <2>. QED BY <2>2, <2>3
<1>11. O \in SUBSET Tasks /\ s.open \ {t} = O
  BY <1>2, <1>8
<1> HIDE DEF O
<1>12. Loose(s, {p}, O) /\ Full(s) /\ Calm(s, p)
  <2>1. p \in ToSet(s.pools)
    BY <1>7, <1>8
  <2>. QED BY <1>1, <1>8, <1>9, <1>10, <2>1, WorkPrimes
<1> DEFINE u == Reclaim(s, p)
<1>13. Loose(u, {p}, O) /\ Full(u) /\ Calm(u, p) /\ u.open = s.open /\ u.pools = s.pools
  BY <1>1, <1>11, <1>12, ReclaimLoose
<1> HIDE DEF u
<1> DEFINE v == [u EXCEPT !.open = O]
<1>14. Loose(v, {p}, v.open) /\ Full(v) /\ Calm(v, p) /\ v.pools = u.pools
  BY <1>1, <1>11, <1>13, OpenIs
<1>15. [u EXCEPT !.open = @ \ {t}] = v
  <2>1. u \in Sys
    BY <1>13 DEF Loose, Typed
  <2>. QED BY <2>1, <1>11, <1>13, FieldsOf
<1> HIDE DEF v
<1>16. Primed(v, p)
  BY <1>7, <1>8, <1>13, <1>14 DEF Primed
<1>17. sys' \in Pumped(v, p)
  BY <1>3, <1>15 DEF u
<1>. QED BY <1>1, <1>16, <1>17, PrimedRests
-----------------------------------------------------------------------------
(* After shutdown nothing is left but the wake-ups of returned reservations. *)
Down(s) == /\ s \in Sys /\ s.closed
           /\ s.slots = [q \in Pools |-> <<>>] /\ s.queue = [q \in Pools |-> <<>>]
           /\ s.open = {} /\ s.workers = 0 /\ s.waiters = <<>> /\ s.reserved = {}

IInv == Resting(sys) \/ Down(sys)

LEMMA NothingLive ==
  ASSUME NEW s, s.slots = [q \in Pools |-> <<>>], s.workers = 0, s.reserved = {}
  PROVE  /\ Live(s) = {} /\ IsFiniteSet(Live(s)) /\ Cardinality(Live(s)) = 0
         /\ Free(s) = Limit /\ Free(s) >= 0
<1>1. Live(s) = {}
  BY DEF Live
<1>2. Cardinality({}) = 0 /\ IsFiniteSet({})
  BY FS_EmptySet
<1>3. Free(s) = Limit - (0 + 0)
  BY <1>2 DEF Free
<1>. QED BY <1>1, <1>2, <1>3, PoolAssumption

LEMMA InitRests == Init => Resting(sys)
<1> SUFFICES ASSUME Init PROVE Resting(sys)
  OBVIOUS
<1>1. /\ sys.slots = [q \in Pools |-> <<>>] /\ sys.queue = [q \in Pools |-> <<>>]
      /\ sys.open = {} /\ sys.pools = <<>> /\ sys.workers = 0 /\ sys.waiters = <<>>
      /\ sys.reserved = {} /\ sys.wakes = <<>> /\ sys.closed = FALSE
  BY DEF Init
<1>2. sys \in Sys
  <2>1. <<>> \in Seq(Slots) /\ <<>> \in Seq(Tasks) /\ <<>> \in Seq(Pools)
    BY EmptySeq
  <2>2. /\ [q \in Pools |-> <<>>] \in [Pools -> Seq(Slots)]
        /\ [q \in Pools |-> <<>>] \in [Pools -> Seq(Tasks)]
    BY <2>1
  <2>. QED BY <2>1, <2>2 DEF Init, Sys
<1>3. \A q \in Pools : sys.slots[q] = <<>> /\ sys.queue[q] = <<>>
  BY <1>1
<1>4. Len(<<>>) = 0
  BY EmptySeq
<1>5. Typed(sys)
  BY <1>2, <1>3, <1>4, Sizes DEF Typed
<1>6. Counted(sys)
  <2>1. Distinct(sys.waiters)
    BY <1>1, <1>4 DEF Distinct
  <2>2. IsFiniteSet(sys.reserved)
    BY <1>1, FS_EmptySet
  <2>. QED BY <1>1, <2>1, <2>2, NothingLive DEF Counted
<1>7. \A q \in Pools : IdleAt(sys, q) = {} /\ ~NeedsWorker(sys, q)
  BY <1>2, <1>3, <1>4, StartingIsNat DEF IdleAt
<1>8. ASSUME NEW q \in Pools PROVE Tidy(sys.slots[q], sys.queue[q], q, sys.open)
  BY <1>1, <1>3, <1>4 DEF Tidy, Distinct
<1>9. ASSUME NEW q \in Pools PROVE Line(sys, q)
  BY <1>1, <1>7, EmptyToSet DEF Line
<1>10. Loose(sys, {}, sys.open)
  BY <1>1, <1>3, <1>5, <1>6, <1>8, <1>9 DEF Loose
<1>. QED BY <1>1, <1>7, <1>10 DEF Resting, Full

LEMMA ShutdownDown ==
  ASSUME sys \in Sys, Shutdown
  PROVE  Down(sys')
<1>1. sys' = [sys EXCEPT !.closed = TRUE, !.waiters = <<>>, !.reserved = {},
                         !.slots = [p \in Pools |-> <<>>], !.workers = 0,
                         !.queue = [p \in Pools |-> <<>>], !.open = {}]
  BY DEF Shutdown
<1>2. <<>> \in Seq(Slots) /\ <<>> \in Seq(Tasks) /\ <<>> \in Seq(Pools)
  BY EmptySeq
<1>3. /\ [q \in Pools |-> <<>>] \in [Pools -> Seq(Slots)]
      /\ [q \in Pools |-> <<>>] \in [Pools -> Seq(Tasks)]
  BY <1>2
<1> DEFINE none == [q \in Pools |-> <<>>]
<1> HIDE DEF none
<1>4. sys' = [sys EXCEPT !.closed = TRUE, !.waiters = <<>>, !.reserved = {},
                         !.slots = none, !.workers = 0, !.queue = none, !.open = {}]
  BY <1>1, Zenon DEF none
<1>5. /\ sys' \in Sys /\ sys'.closed /\ sys'.slots = none /\ sys'.queue = none
      /\ sys'.open = {} /\ sys'.workers = 0 /\ sys'.waiters = <<>> /\ sys'.reserved = {}
  <2>1. none \in [Pools -> Seq(Slots)] /\ none \in [Pools -> Seq(Tasks)]
    BY <1>3 DEF none
  <2>2. sys.pools \in Seq(Pools) /\ sys.wakes \in Seq(Pools)
    BY FieldsOf
  <2>3. sys' = [slots |-> none, queue |-> none, open |-> {}, pools |-> sys.pools, workers |-> 0,
                waiters |-> <<>>, reserved |-> {}, wakes |-> sys.wakes, closed |-> TRUE]
    BY <1>4, FieldsOf DEF Sys
  <2>4. {} \in SUBSET Tasks /\ {} \in SUBSET Pools /\ 0 \in Int /\ TRUE \in BOOLEAN
    OBVIOUS
  <2>5. sys' \in Sys
    BY <1>2, <2>1, <2>2, <2>3, <2>4 DEF Sys
  <2>. QED BY <2>3, <2>5
<1>. QED BY <1>5 DEF Down, none

LEMMA DownStays ==
  ASSUME Down(sys), [Next]_sys
  PROVE  Down(sys')
<1>1. \A q \in Pools : sys.slots[q] = <<>> /\ sys.queue[q] = <<>>
  BY DEF Down
<1>2. DOMAIN <<>> = {} /\ ToSet(<<>>) = {}
  BY EmptySeq, EmptyToSet
<1>3. CASE UNCHANGED sys
  BY <1>3
<1>4. ASSUME NEW t \in Tasks, Run(t) \/ TimeoutPending(t) \/ TimeoutRunning(t) PROVE FALSE
  <2>1. PoolOf[t] \in Pools
    BY PoolAssumption
  <2>. QED BY <1>1, <1>2, <1>4, <2>1 DEF Down, Run, TimeoutPending, TimeoutRunning
<1>5. ASSUME NEW p \in Pools, NEW i \in DOMAIN sys.slots[p] PROVE FALSE
  BY <1>1, <1>2, <1>5
<1>6. CASE Resume
  <2>1. sys' = [sys EXCEPT !.wakes = Tail(@)]
    BY <1>6 DEF Down, Resume
  <2>2. sys \in Sys /\ sys.wakes \in Seq(Pools) /\ sys.wakes # <<>>
    BY <1>6, FieldsOf DEF Down, Resume
  <2>3. Tail(sys.wakes) \in Seq(Pools)
    <3>1. Tail(sys.wakes) = RemoveAt(sys.wakes, 1) /\ 1 \in 1..Len(sys.wakes)
      BY <2>2, TailDoes
    <3>. QED BY <3>1, <2>2, RemoveAtDoes
  <2>. QED BY <2>1, <2>2, <2>3, FieldsOf DEF Down, Sys
<1>7. ~Shutdown
  BY DEF Down, Shutdown
<1>. QED BY <1>3, <1>4, <1>5, <1>6, <1>7 DEF Next

LEMMA RestingLeads ==
  ASSUME Resting(sys), [Next]_sys
  PROVE  IInv'
<1> SUFFICES Resting(sys') \/ Down(sys')
  BY DEF IInv
<1>1. CASE UNCHANGED sys
  BY <1>1
<1>2. ASSUME NEW t \in Tasks, Run(t) \/ TimeoutPending(t) \/ TimeoutRunning(t)
      PROVE  Resting(sys')
  BY <1>2, RunRests, TimeoutPendingRests, TimeoutRunningRests
<1>3. ASSUME NEW p \in Pools, NEW i \in DOMAIN sys.slots[p], SlotStep(p, i)
      PROVE  Resting(sys')
  BY <1>3, ReadyRests, ReplyRests, DieRests DEF SlotStep
<1>4. CASE Resume
  BY <1>4, ResumeRests
<1>5. CASE Shutdown
  <2>1. sys \in Sys
    BY DEF Resting, Loose, Typed
  <2>. QED BY <1>5, <2>1, ShutdownDown
<1>. QED BY <1>1, <1>2, <1>3, <1>4, <1>5 DEF Next

(* Between two handlers the pools are at rest, until the service is shut    *)
(* down for good: the inductive invariant of the worker pools.              *)
THEOREM AtRest == Spec => []IInv
<1>1. Init => IInv
  BY InitRests DEF IInv
<1>2. IInv /\ [Next]_sys => IInv'
  BY RestingLeads, DownStays DEF IInv
<1>. QED BY <1>1, <1>2, PTL DEF Spec
-----------------------------------------------------------------------------
(* What the invariant says of the properties that the runs check.           *)

LEMMA BoundedSeqs ==
  ASSUME NEW S, NEW n \in Nat, NEW seq \in Seq(S), Len(seq) <= n
  PROVE  seq \in BoundedSeq(S, n)
<1>1. Len(seq) \in 0..n /\ seq \in [1..Len(seq) -> S]
  BY LenProperties
<1>. QED BY <1>1 DEF BoundedSeq, SeqOf

LEMMA TypedOK ==
  ASSUME IInv
  PROVE  TypeOK
<1>1. sys \in Sys /\ sys.workers \in Nat
  BY FS_CardinalityType DEF IInv, Resting, Loose, Typed, Counted, Down
<1>2. \A q \in Pools : Len(sys.slots[q]) <= Size /\ Len(sys.queue[q]) <= MaxQueue
  <2>1. Len(<<>>) = 0
    BY EmptySeq
  <2>. QED BY <2>1, Sizes DEF IInv, Resting, Loose, Typed, Down
<1>3. /\ sys.slots \in [Pools -> Seq(Slots)] /\ sys.queue \in [Pools -> Seq(Tasks)]
      /\ sys.open \in SUBSET Tasks /\ sys.pools \in Seq(Pools)
      /\ sys.waiters \in Seq(Pools) /\ sys.wakes \in Seq(Pools)
  BY <1>1, FieldsOf
<1>4. \A q \in Pools : /\ sys.slots[q] \in BoundedSeq(Slots, Size)
                       /\ sys.queue[q] \in BoundedSeq(Tasks, MaxQueue)
  <2>1. ASSUME NEW q \in Pools PROVE sys.slots[q] \in Seq(Slots) /\ sys.queue[q] \in Seq(Tasks)
    BY <1>3
  <2>. QED BY <2>1, <1>2, Sizes, BoundedSeqs
<1>5. /\ ToSet(sys.waiters) \subseteq Pools /\ ToSet(sys.wakes) \subseteq Pools
      /\ ToSet(sys.pools) \subseteq Pools
  BY <1>3, ToSetIs
<1>. QED BY <1>1, <1>3, <1>4, <1>5 DEF TypeOK

(* A task of an idle, busy or starting pool is in one place.                *)
LEMMA PlacesOf ==
  ASSUME NEW s, s = sys, Resting(s), NEW t \in Tasks
  PROVE  Cardinality(Places(t)) + Cardinality(Workers(t)) = IF t \in s.open THEN 1 ELSE 0
<1> DEFINE p == PoolOf[t]
<1>1. p \in Pools
  BY PoolAssumption
<1>2. ASSUME NEW q \in Pools
      PROVE  /\ DOMAIN s.slots[q] = 1..Len(s.slots[q]) /\ Len(s.slots[q]) \in Nat
             /\ DOMAIN s.queue[q] = 1..Len(s.queue[q]) /\ Len(s.queue[q]) \in Nat
             /\ Len(s.slots[q]) <= Size /\ Len(s.queue[q]) <= MaxQueue
             /\ Tidy(s.slots[q], s.queue[q], q, s.open)
  <2>1. s \in Sys
    BY DEF Resting, Loose, Typed
  <2>2. s.slots[q] \in Seq(Slots) /\ s.queue[q] \in Seq(Tasks)
    BY <2>1, FieldsOf
  <2>3. /\ Len(s.slots[q]) <= Size /\ Len(s.queue[q]) <= MaxQueue
        /\ Tidy(s.slots[q], s.queue[q], q, s.open)
    BY DEF Resting, Loose, Typed
  <2>. QED BY <2>2, <2>3, LenProperties
<1>3. t # NoTask /\ Size \in Nat /\ MaxQueue \in Nat
  BY PoolAssumption
<1> HIDE DEF p
<1>4. ASSUME NEW at \in Places(t)
      PROVE  \E j \in 1..Len(s.queue[p]) : s.queue[p][j] = t /\ at = <<p, j>>
  <2>1. PICK q \in Pools, j \in 1..MaxQueue : at = <<q, j>> /\ j \in DOMAIN s.queue[q] /\ s.queue[q][j] = t
    BY DEF Places
  <2>2. q = p
    BY <2>1, <1>2 DEF Tidy, p
  <2>. QED BY <2>1, <2>2, <1>2
<1>5. ASSUME NEW at \in Workers(t)
      PROVE  \E i \in 1..Len(s.slots[p]) : s.slots[p][i].task = t /\ at = <<p, i>>
  <2>1. PICK q \in Pools, i \in 1..Size :
          at = <<q, i>> /\ i \in DOMAIN s.slots[q] /\ s.slots[q][i].task = t
    BY DEF Workers, Live
  <2>2. q = p
    BY <2>1, <1>2 DEF Tidy, p
  <2>. QED BY <2>1, <2>2, <1>2
<1>6. Tidy(s.slots[p], s.queue[p], p, s.open)
  BY <1>1, <1>2
<1>7. Cardinality({}) = 0 /\ \A x : Cardinality({x}) = 1
  BY FS_EmptySet, FS_Singleton
<1>8. CASE t \notin s.open
  <2>1. /\ \A j \in 1..Len(s.queue[p]) : s.queue[p][j] # t
        /\ \A i \in 1..Len(s.slots[p]) : s.slots[p][i].task # t
    BY <1>6, <1>8 DEF Tidy
  <2>2. Places(t) = {} /\ Workers(t) = {}
    BY <2>1, <1>4, <1>5
  <2>. QED BY <2>2, <1>7, <1>8
<1>9. ASSUME t \in s.open, NEW j \in 1..Len(s.queue[p]), s.queue[p][j] = t
      PROVE  Cardinality(Places(t)) = 1 /\ Cardinality(Workers(t)) = 0
  <2>1. <<p, j>> \in Places(t)
    <3>1. j \in 1..MaxQueue /\ j \in DOMAIN s.queue[p]
      BY <1>1, <1>2, <1>3
    <3>. QED BY <3>1, <1>1, <1>9 DEF Places
  <2>2. \A k \in 1..Len(s.queue[p]) : s.queue[p][k] = t => k = j
    BY <1>6, <1>9 DEF Tidy, Distinct
  <2>3. Places(t) = {<<p, j>>}
    BY <2>1, <2>2, <1>4
  <2>4. \A i \in 1..Len(s.slots[p]) : s.slots[p][i].task # t
    BY <1>3, <1>6, <1>9 DEF Tidy
  <2>5. Workers(t) = {}
    BY <2>4, <1>5
  <2>. QED BY <2>3, <2>5, <1>7
<1>10. ASSUME t \in s.open, NEW i \in 1..Len(s.slots[p]), s.slots[p][i].task = t
       PROVE  Cardinality(Places(t)) = 0 /\ Cardinality(Workers(t)) = 1
  <2>1. <<p, i>> \in Workers(t)
    <3>1. i \in 1..Size /\ i \in DOMAIN s.slots[p]
      BY <1>1, <1>2, <1>3
    <3>. QED BY <3>1, <1>1, <1>10 DEF Workers, Live
  <2>2. \A k \in 1..Len(s.slots[p]) : s.slots[p][k].task = t => k = i
    BY <1>3, <1>6, <1>10 DEF Tidy
  <2>3. Workers(t) = {<<p, i>>}
    BY <2>1, <2>2, <1>5
  <2>4. \A j \in 1..Len(s.queue[p]) : s.queue[p][j] # t
    BY <1>3, <1>6, <1>10 DEF Tidy
  <2>5. Places(t) = {}
    BY <2>4, <1>4
  <2>. QED BY <2>3, <2>5, <1>7
<1>11. CASE t \in s.open
  <2>1. \/ \E j \in 1..Len(s.queue[p]) : s.queue[p][j] = t
        \/ \E i \in 1..Len(s.slots[p]) : s.slots[p][i].task = t
    BY <1>6, <1>11 DEF Tidy, p
  <2>2. CASE \E j \in 1..Len(s.queue[p]) : s.queue[p][j] = t
    BY <2>2, <1>9, <1>11
  <2>3. CASE \E i \in 1..Len(s.slots[p]) : s.slots[p][i].task = t
    BY <2>3, <1>10, <1>11
  <2>. QED BY <2>1, <2>2, <2>3
<1>. QED BY <1>8, <1>11

LEMMA Conserved ==
  ASSUME IInv
  PROVE  Conservation
<1>1. CASE Resting(sys)
  <2>1. sys.workers = Cardinality(Live(sys)) /\ Free(sys) >= 0
    BY <1>1 DEF Resting, Loose, Counted
  <2>. QED BY <1>1, <2>1, PlacesOf DEF Conservation
<1>2. CASE Down(sys)
  <2>1. /\ Live(sys) = {} /\ sys.workers = Cardinality(Live(sys)) /\ Free(sys) >= 0
    BY <1>2, NothingLive DEF Down
  <2>2. ASSUME NEW t \in Tasks
        PROVE  Places(t) = {} /\ Workers(t) = {} /\ t \notin sys.open
    <3>1. \A q \in Pools : sys.queue[q] = <<>>
      BY <1>2 DEF Down
    <3>. QED BY <1>2, <2>1, <3>1 DEF Down, Places, Workers
  <2>3. Cardinality({}) = 0
    BY FS_EmptySet
  <2>. QED BY <2>1, <2>2, <2>3 DEF Conservation
<1>. QED BY <1>1, <1>2 DEF IInv

LEMMA Queued ==
  ASSUME IInv
  PROVE  DemandIsQueued
<1>1. CASE Resting(sys)
  <2>1. Free(sys) \in Nat
    BY <1>1, FreeIsInt DEF Resting
  <2>2. sys.waiters # <<>> => Free(sys) = 0
    BY <1>1, <2>1 DEF Resting, Full
  <2>. QED BY <1>1, <2>2 DEF Resting, Loose, Line, DemandIsQueued
<1>2. CASE Down(sys)
  BY <1>2 DEF Down, NeedsWorker, DemandIsQueued
<1>. QED BY <1>1, <1>2 DEF IInv

(* The fields of the pools and of the budget keep their types: no pool ever *)
(* holds more workers than config.size, nor a queue longer than             *)
(* config.maxQueue, whatever the order of calls, messages and timers.       *)
THEOREM TypeCorrect == Spec => []TypeOK
<1>. QED BY AtRest, TypedOK, PTL

(* A task not settled yet is in one queue or on one worker, a settled one   *)
(* is nowhere; the budget's count is the number of live workers, and with   *)
(* the reservations it never exceeds the limit.                             *)
THEOREM ConservationHolds == Spec => []Conservation
<1>. QED BY AtRest, Conserved, PTL

(* A pool that could use another worker is in line for one or has been      *)
(* granted one, every grant has its wake-up under way, and no capacity and  *)
(* no idle worker is withheld while a pool waits.                           *)
THEOREM DemandQueued == Spec => []DemandIsQueued
<1>. QED BY AtRest, Queued, PTL
=============================================================================
