--------------------------- MODULE SchedulerProofs --------------------------
(***************************************************************************)
(* The scheduler, for any number of replicas and registrations, any clocks *)
(* and any lifetime of the locks: types, fires that do not overlap, locks  *)
(* that have one holder, slots that are run once, jobs that stay scheduled *)
(* and jobs that stay stopped.                                             *)
(*                                                                         *)
(* The invariant has three parts.  Base says of each registration by       *)
(* itself (JobOk) which fires it may have, what each awaits and what of it *)
(* is on the wire of its replica (WireOk).  Locked says that whoever was   *)
(* granted a lock has it until it expires: no delete on a wire carries its *)
(* token.  Slotted follows a slot from the grant to the run.               *)
(*                                                                         *)
(* Every action but those of the server, of the process and of the clock   *)
(* is a step of one registration (Acts): it moves that registration and    *)
(* one of its fires, takes at most one command from the wire of its        *)
(* replica and sends at most one.  Each action is brought into this form   *)
(* once; the invariants are then shown of the form.                        *)
(***************************************************************************)
EXTENDS Scheduler, SequenceTheorems, FiniteSetTheorems, TLAPS

(* What Append and RemoveAt do to a sequence.                              *)
LEMMA AppendDoes ==
  ASSUME NEW S, NEW seq \in Seq(S), NEW e \in S
  PROVE  /\ Append(seq, e) \in Seq(S) /\ Len(Append(seq, e)) = Len(seq) + 1
         /\ \A i \in 1..Len(seq) : Append(seq, e)[i] = seq[i]
         /\ Append(seq, e)[Len(seq) + 1] = e
  BY AppendProperties

LEMMA RemoveAtDoes ==
  ASSUME NEW S, NEW seq \in Seq(S), NEW i \in 1..Len(seq)
  PROVE  /\ Seqs!RemoveAt(seq, i) \in Seq(S)
         /\ Len(Seqs!RemoveAt(seq, i)) = Len(seq) - 1
         /\ \A j \in 1..(Len(seq) - 1) :
              Seqs!RemoveAt(seq, i)[j] = IF j < i THEN seq[j] ELSE seq[j + 1]
<1> DEFINE l == SubSeq(seq, 1, i - 1)
           r == SubSeq(seq, i + 1, Len(seq))
<1>1. /\ l \in Seq(S) /\ Len(l) = i - 1
      /\ \A j \in 1..(i - 1) : l[j] = seq[j]
  <2>1. \A j \in 1..(i - 1) : seq[j] \in S
    OBVIOUS
  <2>. QED BY <2>1, SubSeqProperties
<1>2. /\ r \in Seq(S) /\ Len(r) = Len(seq) - i
      /\ \A j \in 1..(Len(seq) - i) : r[j] = seq[i + j]
  <2>1. \A j \in (i + 1)..Len(seq) : seq[j] \in S
    OBVIOUS
  <2>. QED BY <2>1, SubSeqProperties
<1>3. Seqs!RemoveAt(seq, i) = l \o r
  BY DEF Seqs!RemoveAt
<1> HIDE DEF l, r
<1>4. /\ l \o r \in Seq(S) /\ Len(l \o r) = Len(seq) - 1
      /\ \A j \in 1..(Len(seq) - 1) : (l \o r)[j] = IF j <= i - 1 THEN l[j] ELSE r[j - (i - 1)]
  <2>1. /\ Len(l \o r) = Len(l) + Len(r) /\ l \o r \in Seq(S)
        /\ \A j \in 1..(Len(l) + Len(r)) : (l \o r)[j] = IF j <= Len(l) THEN l[j] ELSE r[j - Len(l)]
    BY <1>1, <1>2, ConcatProperties
  <2>. QED BY <2>1, <1>1, <1>2
<1>5. ASSUME NEW j \in 1..(Len(seq) - 1)
      PROVE  (l \o r)[j] = IF j < i THEN seq[j] ELSE seq[j + 1]
  <2>1. CASE j < i
    BY <2>1, <1>4, <1>1
  <2>2. CASE ~(j < i)
    <3>1. j - (i - 1) \in 1..(Len(seq) - i)
      BY <2>2
    <3>. QED BY <3>1, <2>2, <1>4, <1>2
  <2>. QED BY <2>1, <2>2
<1>. QED BY <1>3, <1>4, <1>5
-----------------------------------------------------------------------------
(* A registration with its fires.  Whoever is gone is Lost.                *)
Tries == {f \in Fires : f.stage = "backoff" => f.attempt < Limit}
Registrations ==
  [used : BOOLEAN, paused : BOOLEAN, handle : Nat, scope : Nat,
   claim : {"claimed", "contended", "failed"}, token : Nat, minted : Nat, until : Nat, due : Nat,
   wait : {"none", "register", "resume"}, hasty : BOOLEAN, flight : BOOLEAN, rearm : BOOLEAN,
   removing : BOOLEAN, rushed : BOOLEAN, dropped : BOOLEAN, fires : Seq(Tries)]

Lost == [Unused EXCEPT !.used = TRUE]

(* What a registration is made of.                                         *)
LEMMA FiresAre ==
  ASSUME NEW x \in Registrations
  PROVE  /\ x.fires \in Seq(Tries) /\ Len(x.fires) \in Nat /\ DOMAIN x.fires = 1..Len(x.fires)
         /\ x.handle \in Nat /\ x.scope \in Nat /\ x.token \in Nat /\ x.minted \in Nat
         /\ x.until \in Nat /\ x.due \in Nat
         /\ \A k \in 1..Len(x.fires) : x.fires[k] \in Tries
  BY DEF Registrations

LEMMA OverIs ==
  /\ Over \in Tries /\ Over.stage = "over" /\ Over.aborted = FALSE /\ Over.outcome = "none"
  /\ Over.until = 0 /\ Over.since = 0
  BY TimeAssumption DEF Over, Tries, Fires, Stages

LEMMA LostIs ==
  /\ Unused \in Registrations /\ Lost \in Registrations
  /\ Lost.used = TRUE /\ Lost.fires = <<>> /\ Len(Lost.fires) = 0 /\ Lost.wait = "none"
  /\ Lost.token = 0 /\ Lost.minted = 0 /\ Lost.rushed = FALSE /\ Lost.flight = FALSE
  /\ Lost.rearm = FALSE /\ Lost.removing = FALSE /\ Lost.handle = 0 /\ Lost.scope = 0
  /\ Unused.used = FALSE /\ Unused.fires = <<>> /\ Len(Unused.fires) = 0
  /\ Unused.wait = "none" /\ Unused.token = 0 /\ Unused.minted = 0 /\ Unused.rushed = FALSE
  /\ Unused.flight = FALSE /\ Unused.rearm = FALSE /\ Unused.removing = FALSE
  /\ Unused.handle = 0 /\ Unused.scope = 0 /\ Unused.paused = FALSE
<1>1. <<>> \in Seq(Tries) /\ Len(<<>>) = 0
  OBVIOUS
<1>2. /\ Unused \in Registrations
      /\ Unused.used = FALSE /\ Unused.fires = <<>> /\ Len(Unused.fires) = 0
      /\ Unused.wait = "none" /\ Unused.token = 0 /\ Unused.minted = 0 /\ Unused.rushed = FALSE
      /\ Unused.flight = FALSE /\ Unused.rearm = FALSE /\ Unused.removing = FALSE
      /\ Unused.handle = 0 /\ Unused.scope = 0 /\ Unused.paused = FALSE
  BY <1>1 DEF Unused, Registrations
<1>3. ASSUME NEW u \in Registrations
      PROVE  LET l == [u EXCEPT !.used = TRUE]
             IN  /\ l \in Registrations /\ l.used = TRUE /\ l.fires = u.fires /\ l.wait = u.wait
                 /\ l.token = u.token /\ l.minted = u.minted /\ l.rushed = u.rushed
                 /\ l.flight = u.flight /\ l.rearm = u.rearm /\ l.removing = u.removing
                 /\ l.handle = u.handle /\ l.scope = u.scope
  BY DEF Registrations
<1>. QED BY <1>2, <1>3 DEF Lost

(* One fire changes.                                                        *)
LEMMA FireSet ==
  ASSUME NEW x \in Registrations, NEW k \in 1..Len(x.fires), NEW f \in Tries
  PROVE  LET y == [x EXCEPT !.fires[k] = f]
         IN  /\ y \in Registrations /\ y = [x EXCEPT !.fires = y.fires]
             /\ Len(y.fires) = Len(x.fires) /\ y.fires[k] = f
             /\ \A m \in 1..Len(x.fires) : m # k => y.fires[m] = x.fires[m]
<1> DEFINE y == [x EXCEPT !.fires[k] = f]
           g == [x.fires EXCEPT ![k] = f]
<1>1. g \in Seq(Tries) /\ Len(g) = Len(x.fires) /\ g[k] = f
      /\ \A m \in 1..Len(x.fires) : m # k => g[m] = x.fires[m]
  BY DEF Registrations
<1>2. y = [x EXCEPT !.fires = g]
  OBVIOUS
<1> HIDE DEF g
<1>3. y \in Registrations /\ y.fires = g
  BY <1>1, <1>2 DEF Registrations
<1>. QED BY <1>1, <1>2, <1>3

(* What a change of the fires leaves alone. *)
Alike(x, y) ==
  /\ y.used = x.used /\ y.claim = x.claim /\ y.token = x.token /\ y.minted = x.minted
  /\ y.until = x.until /\ y.due = x.due /\ y.wait = x.wait /\ y.hasty = x.hasty
  /\ y.flight = x.flight /\ y.rearm = x.rearm /\ y.removing = x.removing /\ y.rushed = x.rushed
  /\ y.paused = x.paused /\ y.dropped = x.dropped /\ y.handle = x.handle /\ y.scope = x.scope

LEMMA AlikeIs ==
  ASSUME NEW x \in Registrations, NEW g
  PROVE  Alike(x, [x EXCEPT !.fires = g])
  BY DEF Registrations, Alike

(* What arming leaves alone. *)
Rest(x, y) ==
  /\ y.used = x.used /\ y.claim = x.claim /\ y.token = x.token /\ y.minted = x.minted
  /\ y.until = x.until /\ y.wait = x.wait /\ y.hasty = x.hasty /\ y.flight = x.flight
  /\ y.rearm = x.rearm /\ y.removing = x.removing /\ y.rushed = x.rushed

(* Armed, Cleared and Aborted, field by field.                             *)
LEMMA ArmedIs ==
  ASSUME NEW x \in Registrations, NEW due \in Nat
  PROVE  LET y == Armed(x, due)
             n == Len(x.fires) + 1
         IN  /\ y \in Registrations
             /\ y.handle = n /\ y.scope = n /\ Len(y.fires) = n
             /\ y.fires[n] = [Over EXCEPT !.stage = "armed", !.due = due]
             /\ y.fires[n].stage = "armed" /\ ~y.fires[n].aborted
             /\ \A m \in 1..Len(x.fires) : y.fires[m] = x.fires[m]
             /\ Rest(x, y) /\ y.paused = x.paused /\ y.dropped = x.dropped
<1> DEFINE f == [Over EXCEPT !.stage = "armed", !.due = due]
           y == Armed(x, due)
           n == Len(x.fires) + 1
<1>1. f \in Tries /\ f.stage = "armed" /\ ~f.aborted
  <2>1. ASSUME NEW o \in Tries, o.aborted = FALSE
        PROVE  LET g == [o EXCEPT !.stage = "armed", !.due = due]
               IN  g \in Tries /\ g.stage = "armed" /\ ~g.aborted
    BY <2>1 DEF Tries, Fires, Stages
  <2>. QED BY <2>1, OverIs
<1>2. y = [x EXCEPT !.due = y.due, !.fires = Append(x.fires, f), !.handle = n, !.scope = n]
      /\ y.due \in Nat
  BY DEF Armed, Registrations
<1> HIDE DEF f
<1>3. x.fires \in Seq(Tries) /\ n \in Nat
  BY DEF Registrations
<1>4. /\ Append(x.fires, f) \in Seq(Tries) /\ Len(Append(x.fires, f)) = n
      /\ \A m \in 1..Len(x.fires) : Append(x.fires, f)[m] = x.fires[m]
      /\ Append(x.fires, f)[n] = f
  BY <1>1, <1>3, AppendDoes
<1> HIDE DEF y
<1>5. /\ y \in Registrations /\ y.handle = n /\ y.scope = n /\ y.fires = Append(x.fires, f)
  <2>q. PICK q : q = Append(x.fires, f)
    OBVIOUS
  <2>d. PICK d : d = y.due
    OBVIOUS
  <2>i. PICK i : i = n
    OBVIOUS
  <2>1. d \in Nat /\ i \in Nat /\ q \in Seq(Tries)
    BY ONLY <1>2, <1>3, <1>4, <2>q, <2>d, <2>i
  <2>z. PICK z : z = [x EXCEPT !.due = d, !.fires = q, !.handle = i, !.scope = i]
    OBVIOUS
  <2>2. y = z
    BY ONLY <1>2, <2>q, <2>d, <2>i, <2>z
  <2>3. z \in Registrations
    BY ONLY x \in Registrations, <2>1, <2>z DEF Registrations
  <2>4. z.handle = i /\ z.scope = i /\ z.fires = q
    BY ONLY x \in Registrations, <2>z DEF Registrations
  <2>. QED BY ONLY <2>2, <2>3, <2>4, <2>q, <2>i
<1>6. Rest(x, y) /\ y.paused = x.paused /\ y.dropped = x.dropped
  BY <1>2 DEF Registrations, Rest
<1>. QED BY <1>1, <1>4, <1>5, <1>6 DEF y, f

LEMMA ClearedIs ==
  ASSUME NEW x \in Registrations, x.handle \in 0..Len(x.fires)
  PROVE  LET y == Cleared(x)
         IN  /\ y \in Registrations /\ y = [x EXCEPT !.fires = y.fires]
             /\ Len(y.fires) = Len(x.fires)
             /\ \A m \in 1..Len(x.fires) :
                  \/ y.fires[m] = x.fires[m]
                  \/ m = x.handle /\ x.fires[m].stage = "armed" /\ y.fires[m] = Over
             /\ x.handle # 0 => y.fires[x.handle].stage # "armed"
<1>1. CASE x.handle # 0 /\ x.fires[x.handle].stage = "armed"
  <2>1. x.handle \in 1..Len(x.fires) /\ Cleared(x) = [x EXCEPT !.fires[x.handle] = Over]
    BY <1>1 DEF Cleared
  <2>. QED BY <1>1, <2>1, OverIs, FireSet
<1>2. CASE ~(x.handle # 0 /\ x.fires[x.handle].stage = "armed")
  <2>1. Cleared(x) = x
    BY <1>2 DEF Cleared
  <2>2. x = [x EXCEPT !.fires = x.fires]
    BY DEF Registrations
  <2>. QED BY <1>2, <2>1, <2>2
<1>. QED BY <1>1, <1>2

LEMMA AbortedIs ==
  ASSUME NEW x \in Registrations, x.scope \in 0..Len(x.fires)
  PROVE  LET y == Aborted(x)
         IN  /\ y \in Registrations /\ y = [x EXCEPT !.fires = y.fires]
             /\ Len(y.fires) = Len(x.fires)
             /\ \A m \in 1..Len(x.fires) :
                  \/ y.fires[m] = x.fires[m]
                  \/ m = x.scope /\ y.fires[m] = [x.fires[m] EXCEPT !.aborted = TRUE]
             /\ x.scope # 0 => y.fires[x.scope].stage = "over" \/ y.fires[x.scope].aborted
<1>1. CASE x.scope # 0 /\ x.fires[x.scope].stage # "over"
  <2> DEFINE f == [x.fires[x.scope] EXCEPT !.aborted = TRUE]
  <2>1. x.scope \in 1..Len(x.fires) /\ x.fires[x.scope] \in Tries
    BY <1>1 DEF Registrations
  <2>2. f \in Tries /\ f.aborted = TRUE
    BY <2>1 DEF Tries, Fires
  <2>3. Aborted(x) = [x EXCEPT !.fires[x.scope] = f]
    BY <1>1, <2>1 DEF Aborted
  <2> DEFINE y == [x EXCEPT !.fires[x.scope] = f]
  <2>4. /\ y \in Registrations /\ y = [x EXCEPT !.fires = y.fires]
        /\ Len(y.fires) = Len(x.fires) /\ y.fires[x.scope] = f
        /\ \A m \in 1..Len(x.fires) : m # x.scope => y.fires[m] = x.fires[m]
    <3> HIDE DEF f
    <3>. QED BY <2>1, <2>2, FireSet
  <2> HIDE DEF y
  <2>5. y.fires[x.scope].aborted
    BY <2>2, <2>4
  <2>. QED BY <2>1, <2>3, <2>4, <2>5 DEF y
<1>2. CASE ~(x.scope # 0 /\ x.fires[x.scope].stage # "over")
  <2>1. Aborted(x) = x
    BY <1>2 DEF Aborted
  <2>2. x = [x EXCEPT !.fires = x.fires]
    BY DEF Registrations
  <2>. QED BY <1>2, <2>1, <2>2
<1>. QED BY <1>1, <1>2
-----------------------------------------------------------------------------
(* What is true of a registration by itself.                                *)
Formed(x) ==
  /\ x \in Registrations
  /\ x.handle \in 0..Len(x.fires) /\ x.scope \in 0..Len(x.fires) /\ x.token \in 0..x.minted
  /\ kind = "every" => x.token = 0 /\ x.wait = "none" /\ ~x.removing
  /\ \A k \in 1..Len(x.fires) : /\ kind = "every" => x.fires[k].stage # "leave"
                                /\ kind = "delay" => x.fires[k].stage # "slot"
  /\ x.token # 0 => x.wait = "none" /\ ~x.removing /\ x.claim = "claimed"
  /\ x.wait = "register" => ~x.removing /\ x.claim = "failed"
  /\ x.wait = "resume" => x.paused
  /\ x.rearm => x.flight
  /\ ~x.used => x = Unused

Flies(x) == x.flight => \E k \in 1..Len(x.fires) : InFlight(x.fires[k])

(* A registered job that was not stopped has a fire that is not told to stop, *)
(* or that will arm it.                                                       *)
Going(x, here, on) ==
  /\ here => x.used
  /\ here /\ ~on => x.dropped \/ x.paused
  /\ here /\ on /\ ~x.paused /\ x.wait = "none" /\ ~x.dropped /\ ~x.removing =>
       \E k \in 1..Len(x.fires) : x.fires[k].stage # "over" /\ (~x.fires[k].aborted \/ x.rearm)

(* The one fire of a job that was not rushed; nm says whether its service      *)
(* will stop it on disconnect.                                                 *)
Alone(x, k, here, on, nm) ==
  LET f == x.fires[k]
  IN  /\ x.scope = k /\ k = Len(x.fires)
      /\ f.stage # "armed" => x.flight
      /\ x.paused => f.aborted
      /\ x.rearm => f.aborted
      /\ \/ f.aborted
         \/ here /\ on /\ ~x.paused /\ nm /\ ~x.removing
         \/ f.stage = "armed" /\ kind = "delay" /\ x.claim # "claimed"

Single(x, here, on, nm) == ~x.rushed =>
  /\ x.rearm /\ x.claim = "claimed" => ~x.removing
  /\ x.wait = "register" => /\ here /\ on /\ ~x.paused
                           /\ \A k \in 1..Len(x.fires) : x.fires[k].stage = "over"
  /\ \A k \in 1..Len(x.fires) : x.fires[k].stage # "over" =>
       /\ Alone(x, k, here, on, nm)
       /\ x.fires[k].stage = "armed" =>
            x.handle = k /\ ~x.paused /\ ~x.flight /\ ~x.fires[k].aborted

JobOk(x, here, on, nm) == Formed(x) /\ Flies(x) /\ Going(x, here, on) /\ Single(x, here, on, nm)

(* The same while fire k, whatever its stage, is about to end.               *)
Ending(x, k, here, on, nm) ==
  /\ Formed(x) /\ Going(x, here, on) /\ k \in 1..Len(x.fires) /\ x.fires[k].stage # "over"
  /\ ~x.rushed => /\ x.flight
                  /\ x.rearm /\ x.claim = "claimed" => ~x.removing
                  /\ x.wait # "register" /\ Alone(x, k, here, on, nm)
                  /\ \A m \in 1..Len(x.fires) : m # k => x.fires[m].stage = "over"

(* How a step that moves fire k may change the registration otherwise.       *)
Kept(f, g) == \/ /\ g.stage = f.stage /\ g.due = f.due /\ g.until = f.until
                 /\ g.since = f.since
              \/ f.stage = "armed" /\ g.stage = "over"
(* What a step that moves fire k leaves alone; 0 if it moves none.           *)
Quiet(x, y, k) ==
  IF y = Lost
  THEN /\ x.wait = "none" /\ x.used
       /\ \A m \in 1..Len(x.fires) : m # k => x.fires[m].stage \in {"armed", "over"}
  ELSE /\ Len(x.fires) <= Len(y.fires) /\ y.used
       /\ \A m \in 1..Len(x.fires) : m # k => Kept(x.fires[m], y.fires[m])
       /\ \A m \in (Len(x.fires) + 1)..Len(y.fires) : y.fires[m].stage \in {"armed", "over"}
       /\ y.minted = x.minted /\ y.token \in {0, x.token} /\ y.wait = x.wait
       /\ y.token # 0 => y.until = x.until

LEMMA LostOk ==
  ASSUME NEW on, NEW nm
  PROVE  JobOk(Lost, FALSE, on, nm)
  BY LostIs DEF JobOk, Formed, Flies, Going, Single

(* A registration that is collected has no fire left.                      *)
LEMMA CollectedIs ==
  ASSUME NEW x \in Registrations
  PROVE  \/ Collected(x) = x
         \/ /\ Collected(x) = Lost /\ x.wait = "none"
            /\ \A k \in 1..Len(x.fires) : x.fires[k].stage = "over"
<1>1. DOMAIN x.fires = 1..Len(x.fires)
  BY DEF Registrations
<1>. QED BY <1>1 DEF Collected, Lost

LEMMA TimesAre ==
  ASSUME now \in Nat, NEW r \in Replicas
  PROVE  Clock(r) \in Nat /\ NextSlot(r) \in Nat /\ NextDue(r) \in Nat /\ Ttl \in Nat /\ Ttl > 0
         /\ Delay \in Nat
  BY TimeAssumption DEF Clock, NextSlot, NextDue

(* A job that is resumed has one more fire, which is armed.                *)
LEMMA ResumedIs ==
  ASSUME now \in Nat, NEW r \in Replicas, NEW x \in Registrations
  PROVE  LET y == Resumed(r, x)
             n == Len(x.fires) + 1
         IN  /\ y \in Registrations
             /\ y.handle = n /\ y.scope = n /\ Len(y.fires) = n
             /\ y.fires[n].stage = "armed" /\ ~y.fires[n].aborted
             /\ \A m \in 1..Len(x.fires) : y.fires[m] = x.fires[m]
             /\ Rest(x, y) /\ y.paused = FALSE /\ y.dropped = FALSE
<1> DEFINE z == [x EXCEPT !.paused = FALSE, !.dropped = FALSE]
           y == Armed(z, NextDue(r))
           n == Len(z.fires) + 1
<1>1. /\ z \in Registrations /\ z.fires = x.fires /\ n = Len(x.fires) + 1
      /\ Rest(x, z) /\ z.paused = FALSE /\ z.dropped = FALSE
  BY DEF Registrations, Rest
<1>2. /\ y \in Registrations
      /\ y.handle = n /\ y.scope = n /\ Len(y.fires) = n
      /\ y.fires[n].stage = "armed" /\ ~y.fires[n].aborted
      /\ \A m \in 1..Len(z.fires) : y.fires[m] = z.fires[m]
      /\ Rest(z, y) /\ y.paused = z.paused /\ y.dropped = z.dropped
  <2> HIDE DEF z
  <2>1. z \in Registrations /\ NextDue(r) \in Nat
    BY <1>1, TimesAre
  <2>. QED BY <2>1, ArmedIs
<1>3. Rest(x, y) /\ y.paused = FALSE /\ y.dropped = FALSE
  <2> HIDE DEF z, y
  <2>. QED BY <1>1, <1>2 DEF Rest
<1>. QED BY <1>1, <1>2, <1>3 DEF Resumed
(* Fire k is over: u is the registration that #track keeps or forgets.       *)
Settling(x, u, k) ==
  /\ u \in Registrations /\ Len(x.fires) <= Len(u.fires) /\ u.fires[k].stage = "over"
  /\ u.handle \in 0..Len(u.fires) /\ u.scope \in 0..Len(u.fires)
  /\ \A m \in 1..Len(x.fires) : m # k =>
       \/ u.fires[m] = x.fires[m]
       \/ x.fires[m].stage = "armed" /\ u.fires[m].stage = "over"
  /\ \A m \in (Len(x.fires) + 1)..Len(u.fires) : u.fires[m].stage = "armed"
  /\ u.used = x.used /\ u.claim = x.claim /\ u.token = x.token /\ u.minted = x.minted
  /\ u.until = x.until /\ u.wait = x.wait /\ u.removing = x.removing /\ u.rushed = x.rushed
  /\ u.paused = x.paused /\ u.dropped = x.dropped /\ u.flight = FALSE /\ u.rearm = FALSE

LEMMA EndingUsed ==
  ASSUME NEW x, NEW k, NEW h, NEW on, NEW nm, Ending(x, k, h, on, nm)
  PROVE  x.used /\ x \in Registrations
<1>1. (~x.used => x = Unused) /\ k \in 1..Len(x.fires) /\ x \in Registrations
  BY DEF Ending, Formed
<1>2. x # Unused
  BY <1>1, LostIs
<1>. QED BY <1>1, <1>2, Zenon

(* The end of a fire leaves a registration well formed.                    *)
LEMMA SettlingOk ==
  ASSUME NEW x, NEW u, NEW k, NEW h, NEW on, NEW nm, Ending(x, k, h, on, nm), Settling(x, u, k)
  PROVE  u # Lost /\ Formed(u) /\ Flies(u) /\ Quiet(x, u, k)
<1>1. x.used /\ u.used /\ ~u.flight /\ ~u.rearm
  <2>1. x.used /\ u.used = x.used /\ u.flight = FALSE /\ u.rearm = FALSE
    BY EndingUsed DEF Settling
  <2>. QED BY <2>1, Zenon
<1>2. u # Lost
  BY LostIs DEF Ending, Settling, Formed, Registrations
<1>3. \A m \in 1..Len(u.fires) : /\ kind = "every" => u.fires[m].stage # "leave"
                                 /\ kind = "delay" => u.fires[m].stage # "slot"
  <2> SUFFICES ASSUME NEW m \in 1..Len(u.fires)
               PROVE  \/ u.fires[m].stage \in {"over", "armed"}
                      \/ m \in 1..Len(x.fires) /\ u.fires[m] = x.fires[m]
    BY DEF Ending, Formed
  <2>1. Len(x.fires) \in Nat /\ Len(u.fires) \in Nat
    BY DEF Ending, Formed, Settling, Registrations
  <2>. QED BY <2>1 DEF Settling
<1>4. /\ u \in Registrations /\ u.handle \in 0..Len(u.fires) /\ u.scope \in 0..Len(u.fires)
      /\ u.token \in 0..u.minted
  BY DEF Ending, Formed, Settling
<1>5. /\ kind = "every" => u.token = 0 /\ u.wait = "none" /\ ~u.removing
      /\ u.token # 0 => u.wait = "none" /\ ~u.removing /\ u.claim = "claimed"
      /\ u.wait = "register" => ~u.removing /\ u.claim = "failed"
      /\ u.wait = "resume" => u.paused
  BY DEF Ending, Formed, Settling
<1>6. Formed(u)
  BY <1>1, <1>3, <1>4, <1>5, Zenon DEF Formed
<1>7. Quiet(x, u, k)
  <2>1. \A m \in 1..Len(x.fires) : m # k => Kept(x.fires[m], u.fires[m])
    BY DEF Settling, Kept
  <2>2. /\ Len(x.fires) <= Len(u.fires)
        /\ \A m \in (Len(x.fires) + 1)..Len(u.fires) : u.fires[m].stage = "armed"
        /\ u.minted = x.minted /\ u.token \in {0, x.token} /\ u.wait = x.wait
        /\ u.token # 0 => u.until = x.until
    BY DEF Settling
  <2>. QED BY <1>1, <1>2, <2>1, <2>2, Zenon DEF Quiet
<1>. QED BY <1>1, <1>2, <1>6, <1>7 DEF Flies

LEMMA UnregisteredOk ==
  ASSUME NEW x, NEW u, NEW k, NEW h, NEW on, NEW nm, NEW on2, NEW nm2,
         Ending(x, k, h, on, nm), Settling(x, u, k), ~x.rushed => Len(u.fires) = Len(x.fires)
  PROVE  /\ JobOk(Collected(u), FALSE, on2, nm2) /\ Quiet(x, Collected(u), k)
         /\ Collected(u) = u \/ Collected(u) = Lost
<1>1. u # Lost /\ Formed(u) /\ Flies(u) /\ Quiet(x, u, k)
  BY SettlingOk
<1>2. \/ Collected(u) = u
      \/ /\ Collected(u) = Lost /\ u.wait = "none"
         /\ \A m \in 1..Len(u.fires) : u.fires[m].stage = "over"
  BY CollectedIs DEF Settling
<1>3. CASE Collected(u) = Lost /\ Collected(u) # u
  <2>1. \A m \in 1..Len(x.fires) : m # k => x.fires[m].stage \in {"armed", "over"}
    <3>1. /\ Len(x.fires) \in Nat /\ Len(u.fires) \in Nat /\ Len(x.fires) <= Len(u.fires)
          /\ \A m \in 1..Len(u.fires) : u.fires[m].stage = "over"
      BY <1>2, <1>3 DEF Settling, Ending, Formed, Registrations
    <3>2. ASSUME NEW m \in 1..Len(x.fires), m # k
          PROVE  u.fires[m] = x.fires[m] \/ x.fires[m].stage = "armed"
      BY <3>2 DEF Settling
    <3>. QED BY <3>1, <3>2
  <2>2. x.wait = "none" /\ x.used
    BY <1>2, <1>3, EndingUsed DEF Settling
  <2>. QED BY <2>1, <2>2, <1>3, LostOk DEF Quiet
<1>4. CASE Collected(u) = u
  <2>1. Going(u, FALSE, on2)
    BY DEF Going
  <2>2. Single(u, FALSE, on2, nm2)
    <3> SUFFICES ASSUME ~u.rushed
                 PROVE  /\ ~u.rearm /\ u.wait # "register"
                        /\ \A m \in 1..Len(u.fires) : u.fires[m].stage = "over"
      BY DEF Single
    <3>1. ~x.rushed /\ ~u.rearm
      <4>1. u.rushed = x.rushed /\ u.rearm = FALSE
        BY DEF Settling
      <4>. QED BY <4>1, Zenon
    <3>2. \A m \in 1..Len(x.fires) : m # k => x.fires[m].stage = "over"
      BY <3>1 DEF Ending
    <3>. QED BY <3>1, <3>2 DEF Ending, Settling, Formed, Registrations
  <2>. QED BY <1>1, <1>4, <2>1, <2>2 DEF JobOk
<1>. QED BY <1>2, <1>3, <1>4
Untracked(x) == [x EXCEPT !.flight = FALSE, !.rearm = FALSE]

LEMMA UntrackedIs ==
  ASSUME NEW x \in Registrations
  PROVE  LET y == Untracked(x)
         IN  /\ y \in Registrations /\ y.fires = x.fires /\ y.flight = FALSE /\ y.rearm = FALSE
             /\ y.used = x.used /\ y.claim = x.claim /\ y.token = x.token /\ y.minted = x.minted
             /\ y.wait = x.wait /\ y.removing = x.removing /\ y.rushed = x.rushed
             /\ y.paused = x.paused /\ y.dropped = x.dropped /\ y.until = x.until
             /\ y.handle = x.handle /\ y.scope = x.scope
  BY DEF Registrations, Untracked

(* A job that is armed again.                                               *)
LEMMA ResumedOk ==
  ASSUME now \in Nat, kind \in {"every", "delay"}, NEW r \in Replicas, NEW u, Formed(u), u.used,
         ~u.flight, u.wait # "resume",
         ~u.rushed => /\ u.claim = "claimed" => ~u.removing
                      /\ u.wait # "register"
                      /\ \A m \in 1..Len(u.fires) : u.fires[m].stage = "over"
  PROVE  LET z == Resumed(r, u)
         IN JobOk(z, TRUE, TRUE, TRUE) /\ Quiet(u, z, 0) /\ z # Lost /\ z.handle > Len(u.fires)
<1> DEFINE z == Resumed(r, u)
           n == Len(u.fires) + 1
<1>0. Len(u.fires) \in Nat /\ u \in Registrations
  BY DEF Formed, Registrations
<1>1. /\ z \in Registrations
      /\ z.handle = n /\ z.scope = n /\ Len(z.fires) = n
      /\ z.fires[n].stage = "armed" /\ ~z.fires[n].aborted
      /\ \A m \in 1..Len(u.fires) : z.fires[m] = u.fires[m]
      /\ Rest(u, z) /\ z.paused = FALSE /\ z.dropped = FALSE
  BY <1>0, ResumedIs
<1> HIDE DEF z
<1>2. z # Lost
  BY <1>0, <1>1, LostIs
<1>3. z.used /\ ~z.flight /\ ~z.rearm /\ ~z.paused
  <2>1. z.used = u.used /\ z.flight = u.flight /\ z.rearm = u.rearm /\ z.paused = FALSE
    BY <1>1 DEF Rest
  <2>2. ~u.rearm
    BY DEF Formed
  <2>. QED BY <2>1, <2>2, Zenon
<1>4. Formed(z)
  <2>1. \A m \in 1..Len(z.fires) : /\ kind = "every" => z.fires[m].stage # "leave"
                                   /\ kind = "delay" => z.fires[m].stage # "slot"
    <3>1. \A m \in 1..Len(u.fires) : /\ kind = "every" => u.fires[m].stage # "leave"
                                     /\ kind = "delay" => u.fires[m].stage # "slot"
      BY DEF Formed
    <3>2. ASSUME NEW m \in 1..n
          PROVE  /\ kind = "every" => z.fires[m].stage # "leave"
                 /\ kind = "delay" => z.fires[m].stage # "slot"
      <4>1. CASE m = n
        BY <4>1, <1>1
      <4>2. CASE m # n
        <5>1. m \in 1..Len(u.fires) /\ z.fires[m] = u.fires[m]
          BY <4>2, <1>0, <1>1
        <5>. QED BY ONLY <5>1, <3>1
      <4>. QED BY <4>1, <4>2
    <3>. QED BY <3>2, <1>1
  <2>2. z.handle \in 0..Len(z.fires) /\ z.scope \in 0..Len(z.fires) /\ z.token \in 0..z.minted
    BY <1>0, <1>1 DEF Formed, Rest
  <2>3. /\ kind = "every" => z.token = 0 /\ z.wait = "none" /\ ~z.removing
        /\ z.token # 0 => z.wait = "none" /\ ~z.removing /\ z.claim = "claimed"
        /\ z.wait = "register" => ~z.removing /\ z.claim = "failed"
        /\ z.wait # "resume"
    BY <1>1 DEF Formed, Rest
  <2>. QED BY <1>1, <1>3, <2>1, <2>2, <2>3, Zenon DEF Formed
<1>5. Flies(z) /\ Going(z, TRUE, TRUE)
  BY <1>0, <1>1, <1>3 DEF Flies, Going
<1>6. Single(z, TRUE, TRUE, TRUE)
  <2> SUFFICES ASSUME ~z.rushed
               PROVE  /\ z.wait # "register"
                      /\ \A m \in 1..Len(z.fires) : z.fires[m].stage # "over" =>
                           /\ Alone(z, m, TRUE, TRUE, TRUE)
                           /\ z.handle = m /\ ~z.fires[m].aborted
    BY <1>3 DEF Single
  <2>1. ~u.rushed
    BY <1>1, Zenon DEF Rest
  <2>2. \A m \in 1..Len(z.fires) : z.fires[m].stage # "over" => m = n
    BY <2>1, <1>0, <1>1
  <2>3. ~z.removing \/ (kind = "delay" /\ z.claim # "claimed")
    <3>1. z.removing = u.removing /\ z.claim = u.claim
      BY <1>1 DEF Rest
    <3>. QED BY <2>1, <3>1 DEF Formed
  <2>4. Alone(z, n, TRUE, TRUE, TRUE)
    BY <2>3, <1>1, <1>3 DEF Alone
  <2>. QED BY <2>1, <2>2, <2>4, <1>1 DEF Rest
<1>7. Quiet(u, z, 0)
  <2>1. \A m \in 1..Len(u.fires) : Kept(u.fires[m], z.fires[m])
    BY <1>1 DEF Kept
  <2>2. /\ Len(u.fires) <= Len(z.fires)
        /\ \A m \in (Len(u.fires) + 1)..Len(z.fires) : z.fires[m].stage = "armed"
        /\ z.minted = u.minted /\ z.token \in {0, u.token} /\ z.wait = u.wait
        /\ z.token # 0 => z.until = u.until
    BY <1>0, <1>1 DEF Rest
  <2>. QED BY <1>2, <1>3, <2>1, <2>2, Zenon DEF Quiet
<1>8. JobOk(z, TRUE, TRUE, TRUE)
  BY <1>4, <1>5, <1>6, Zenon DEF JobOk
<1>9. z.handle > Len(u.fires)
  BY <1>0, <1>1
<1>. QED BY <1>2, <1>7, <1>8, <1>9 DEF z

(* Fire k is over and was not told to stop, and another is armed, or not.     *)
Rearming(x, u, k, on) ==
  \/ /\ Len(u.fires) = Len(x.fires)
     /\ on /\ ~x.paused => x.fires[k].aborted
  \/ /\ kind = "every" /\ on /\ ~x.paused /\ ~x.fires[k].aborted
     /\ Len(u.fires) = Len(x.fires) + 1 /\ u.handle = Len(u.fires)
     /\ u.scope = Len(u.fires) /\ ~u.fires[Len(u.fires)].aborted
Others(x, u, k) == \A m \in 1..Len(x.fires) : m # k => u.fires[m] = x.fires[m]
Unresumed(x, on) == on /\ ~x.paused => ~x.rearm
Done(z, k) == z = Lost \/ z.fires[k].stage = "over"

(* A registered job whose fire is over, and that is not armed again by a      *)
(* resume: its last fire may have armed it.                                   *)
LEMMA RegisteredOk ==
  ASSUME NEW x, NEW u, NEW k, NEW on, NEW nm, NEW nm2, nm => nm2,
         Ending(x, k, TRUE, on, nm), Settling(x, u, k),
         Others(x, u, k), Rearming(x, u, k, on), Unresumed(x, on)
  PROVE  JobOk(u, TRUE, on, nm2)
<1>1. u # Lost /\ Formed(u) /\ Flies(u) /\ Quiet(x, u, k)
  BY SettlingOk
<1>2. /\ Len(x.fires) \in Nat /\ Len(u.fires) \in Nat /\ Len(x.fires) <= Len(u.fires)
      /\ k \in 1..Len(x.fires)
  BY DEF Ending, Settling, Formed, Registrations
<1>3. /\ u.used = x.used /\ u.paused = x.paused /\ u.dropped = x.dropped /\ u.wait = x.wait
      /\ u.removing = x.removing /\ u.rushed = x.rushed /\ u.flight = FALSE /\ u.rearm = FALSE
      /\ u.fires[k].stage = "over"
      /\ \A m \in (Len(x.fires) + 1)..Len(u.fires) : u.fires[m].stage = "armed"
  BY DEF Settling
<1>4. x.used /\ u.used /\ ~u.flight /\ ~u.rearm
  BY <1>3, EndingUsed, Zenon
<1>5. Going(u, TRUE, on)
  <2> SUFFICES ASSUME on, ~u.paused, u.wait = "none", ~u.dropped, ~u.removing
               PROVE  \E m \in 1..Len(u.fires) : u.fires[m].stage # "over" /\ ~u.fires[m].aborted
    BY <1>3, <1>4 DEF Going, Ending
  <2>1. CASE Len(u.fires) = Len(x.fires)
    <3>1. ~x.paused /\ x.wait = "none" /\ ~x.dropped /\ ~x.removing
      BY <1>3, Zenon
    <3>2. PICK m \in 1..Len(x.fires) : x.fires[m].stage # "over" /\ (~x.fires[m].aborted \/ x.rearm)
      BY <3>1 DEF Ending, Going
    <3>3. x.fires[k].aborted /\ ~x.rearm
      BY <2>1, <3>1, <1>2 DEF Rearming, Unresumed
    <3>. QED BY <2>1, <3>2, <3>3 DEF Others
  <2>2. CASE Len(u.fires) # Len(x.fires)
    <3>1. Len(u.fires) \in (Len(x.fires) + 1)..Len(u.fires) /\ ~u.fires[Len(u.fires)].aborted
      BY <2>2, <1>2 DEF Rearming
    <3>. QED BY <3>1, <1>2, <1>3
  <2>. QED BY <2>1, <2>2
<1>6. Single(u, TRUE, on, nm2)
  <2> SUFFICES ASSUME ~u.rushed
               PROVE  /\ u.wait # "register"
                      /\ \A m \in 1..Len(u.fires) : u.fires[m].stage # "over" =>
                           /\ Alone(u, m, TRUE, on, nm2)
                           /\ u.handle = m /\ ~u.paused /\ ~u.fires[m].aborted
    BY <1>4 DEF Single
  <2>1. /\ ~x.rushed /\ x.wait # "register" /\ Alone(x, k, TRUE, on, nm)
        /\ \A m \in 1..Len(x.fires) : m # k => x.fires[m].stage = "over"
    <3>1. ~x.rushed
      BY <1>3, Zenon
    <3>. QED BY <3>1 DEF Ending
  <2>2. ASSUME NEW m \in 1..Len(u.fires), u.fires[m].stage # "over"
        PROVE  m = Len(x.fires) + 1 /\ Len(u.fires) = Len(x.fires) + 1
    <3>1. Len(u.fires) = Len(x.fires) \/ Len(u.fires) = Len(x.fires) + 1
      BY <1>2 DEF Rearming
    <3>2. ~(m \in 1..Len(x.fires) /\ m # k)
      BY <2>1, <2>2, <1>2 DEF Others
    <3>3. m # k
      BY <2>2, <1>2, <1>3 DEF Settling
    <3>. QED BY <3>1, <3>2, <3>3, <2>2, <1>2, SMTT(20)
  <2>3. ASSUME Len(u.fires) = Len(x.fires) + 1
        PROVE  /\ Alone(u, Len(u.fires), TRUE, on, nm2)
               /\ u.handle = Len(u.fires) /\ ~u.paused /\ ~u.fires[Len(u.fires)].aborted
    <3>1. /\ kind = "every" /\ on /\ ~x.paused /\ ~x.fires[k].aborted
          /\ u.handle = Len(u.fires) /\ u.scope = Len(u.fires) /\ ~u.fires[Len(u.fires)].aborted
      BY <2>3, <1>2 DEF Rearming
    <3>2. nm /\ ~x.removing
      BY <2>1, <3>1 DEF Alone
    <3>3. ~u.paused /\ ~u.removing
      BY <3>1, <3>2, <1>3, Zenon
    <3>4. u.fires[Len(u.fires)].stage = "armed"
      BY <2>3, <1>2, <1>3
    <3>. QED BY <3>1, <3>2, <3>3, <3>4, <1>4 DEF Alone
  <2>. QED BY <2>1, <2>2, <2>3, <1>3
<1>. QED BY <1>1, <1>5, <1>6 DEF JobOk

LEMMA MoreOk ==
  ASSUME NEW x, NEW h, NEW on, NEW nm, NEW h2, NEW on2, NEW nm2,
         JobOk(x, h, on, nm), h <=> h2, on <=> on2, nm => nm2
  PROVE  JobOk(x, h2, on2, nm2)
<1>1. Going(x, h2, on2)
  BY DEF JobOk, Going
<1>2. Single(x, h2, on2, nm2)
  BY DEF JobOk, Single, Alone
<1>. QED BY <1>1, <1>2 DEF JobOk

LEMMA QuietChain ==
  ASSUME NEW x, NEW u, NEW z, NEW k, x \in Registrations, u \in Registrations,
         z \in Registrations, u # Lost, z # Lost, Quiet(x, u, k), Quiet(u, z, 0)
  PROVE  Quiet(x, z, k)
<1>1. Len(x.fires) \in Nat /\ Len(u.fires) \in Nat /\ Len(z.fires) \in Nat
  BY FiresAre
<1>2. \A m \in 1..Len(x.fires) : m # k => Kept(x.fires[m], z.fires[m])
  <2> SUFFICES ASSUME NEW m \in 1..Len(x.fires), m # k
               PROVE  Kept(x.fires[m], z.fires[m])
    OBVIOUS
  <2>1. Kept(x.fires[m], u.fires[m]) /\ Kept(u.fires[m], z.fires[m])
    BY <1>1 DEF Quiet
  <2>. QED BY <2>1 DEF Kept
<1>3. \A m \in (Len(x.fires) + 1)..Len(z.fires) : z.fires[m].stage \in {"armed", "over"}
  <2> SUFFICES ASSUME NEW m \in (Len(x.fires) + 1)..Len(z.fires)
               PROVE  z.fires[m].stage \in {"armed", "over"}
    OBVIOUS
  <2>1. CASE m \in 1..Len(u.fires)
    <3>1. u.fires[m].stage \in {"armed", "over"} /\ Kept(u.fires[m], z.fires[m])
      BY <2>1, <1>1 DEF Quiet
    <3>. QED BY ONLY <3>1 DEF Kept
  <2>2. CASE m \notin 1..Len(u.fires)
    BY <2>2, <1>1 DEF Quiet
  <2>. QED BY <2>1, <2>2
<1>4. /\ Len(x.fires) <= Len(z.fires) /\ z.used
      /\ z.minted = x.minted /\ z.token \in {0, x.token} /\ z.wait = x.wait
      /\ z.token # 0 => z.until = x.until
  BY <1>1 DEF Quiet
<1>. QED BY <1>2, <1>3, <1>4 DEF Quiet

(* #track: the fire is over, in whatever way.                                *)
LEMMA SettledOk ==
  ASSUME now \in Nat, kind \in {"every", "delay"}, NEW r \in Replicas, NEW j, NEW reg,
         NEW x, NEW y, NEW k, NEW h, NEW on, NEW nm, NEW h2, NEW nm2,
         reg = j /\ nm => nm2, on <=> r \in connected, h2 <=> reg = j,
         Ending(x, k, h, on, nm), Settling(x, Untracked(y), k),
         reg = j => h,
         y.rearm = x.rearm,
         reg # j /\ ~x.rushed => Len(y.fires) = Len(x.fires),
         reg = j => Others(x, y, k) /\ Rearming(x, y, k, on),
         reg = j /\ x.rearm /\ Settled(r, j, reg, y).handle > x.handle => nm2,
         y \in Registrations
  PROVE  LET z == Settled(r, j, reg, y)
         IN  /\ JobOk(z, h2, on, nm2) /\ Quiet(x, z, k)
             /\ Done(z, k)
<1> DEFINE u == Untracked(y)
           z == Settled(r, j, reg, y)
<1>0. /\ u \in Registrations /\ u.fires = y.fires /\ u.flight = FALSE /\ u.rearm = FALSE
      /\ u.handle = y.handle /\ u.scope = y.scope
  BY UntrackedIs
<1>1. u # Lost /\ Formed(u) /\ Flies(u) /\ Quiet(x, u, k)
  BY SettlingOk
<1>2. /\ Len(x.fires) \in Nat /\ Len(u.fires) \in Nat /\ Len(x.fires) <= Len(u.fires)
      /\ k \in 1..Len(x.fires) /\ x.handle \in 0..Len(x.fires) /\ x \in Registrations
  BY <1>0, EndingUsed, FiresAre DEF Ending, Settling, Formed
<1>3. y.paused = x.paused /\ u.paused = x.paused /\ u.rushed = x.rushed
      /\ u.fires[k].stage = "over"
  <2>1. u.paused = y.paused
    BY UntrackedIs
  <2>. QED BY <2>1 DEF Settling
<1>4. z = IF reg # j THEN Collected(u)
          ELSE IF y.rearm /\ r \in connected /\ ~y.paused THEN Resumed(r, u) ELSE u
  BY DEF Settled, Untracked
<1>8. Settling(x, u, k)
  OBVIOUS
<1> HIDE DEF z, u
<1>5. CASE reg # j
  <2>1. z = Collected(u)
    BY <1>4, <1>5
  <2>2. /\ JobOk(Collected(u), FALSE, on, nm2) /\ Quiet(x, Collected(u), k)
        /\ Collected(u) = u \/ Collected(u) = Lost
    <3>1. ~x.rushed => Len(u.fires) = Len(x.fires)
      BY <1>5, <1>0
    <3>. QED BY <3>1, UnregisteredOk DEF u
  <2>3. JobOk(z, h2, on, nm2)
    BY <2>1, <2>2, <1>5, MoreOk
  <2>. QED BY <2>1, <2>2, <2>3, <1>3 DEF z, Done
<1>6. CASE reg = j /\ x.rearm /\ r \in connected /\ ~x.paused
  <2>1. z = Resumed(r, u)
    BY <1>3, <1>4, <1>6, Zenon
  <2>2. u.used /\ ~u.flight /\ u.wait # "resume"
    <3>1. x.used /\ x.wait # "resume"
      BY <1>6, EndingUsed DEF Ending, Formed
    <3>2. u.used = x.used /\ u.wait = x.wait
      BY DEF Settling, u
    <3>. QED BY <3>1, <3>2, <1>0, Zenon
  <2>3. ~u.rushed => /\ u.claim = "claimed" => ~u.removing
                     /\ u.wait # "register"
                     /\ \A m \in 1..Len(u.fires) : u.fires[m].stage = "over"
    <3> SUFFICES ASSUME ~x.rushed
                 PROVE  /\ u.claim = "claimed" => ~u.removing
                        /\ u.wait # "register"
                        /\ \A m \in 1..Len(u.fires) : u.fires[m].stage = "over"
      BY <1>3, Zenon
    <3>1. /\ x.fires[k].aborted /\ x.wait # "register" /\ (x.claim = "claimed" => ~x.removing)
          /\ \A m \in 1..Len(x.fires) : m # k => x.fires[m].stage = "over"
      BY <1>6 DEF Ending, Alone
    <3>2. u.claim = x.claim /\ u.removing = x.removing /\ u.wait = x.wait
      BY DEF Settling, u
    <3>3. Len(u.fires) = Len(x.fires)
      BY <3>1, <1>0, <1>6 DEF Rearming
    <3>. QED BY <3>1, <3>2, <3>3, <1>0, <1>3, <1>6 DEF Others
  <2>4. JobOk(z, TRUE, TRUE, TRUE) /\ Quiet(u, z, 0) /\ z # Lost /\ z.handle > Len(u.fires)
    <3> HIDE DEF u
    <3>. QED BY <2>1, <2>2, <2>3, <1>1, ResumedOk
  <2>5. z \in Registrations
    BY <2>4 DEF JobOk, Formed
  <2>6. Quiet(x, z, k)
    BY <2>4, <2>5, <1>0, <1>1, <1>2, QuietChain
  <2>7. nm2
    <3>1. z.handle > x.handle
      <4>1. z.handle \in Nat
        BY <2>5, FiresAre
      <4>. QED BY <4>1, <2>4, <1>2
    <3>. QED BY <3>1, <1>6 DEF z
  <2>8. JobOk(z, h2, on, nm2)
    BY <2>4, <2>7, <1>6, MoreOk
  <2>9. z.fires[k].stage = "over"
    <3>1. Kept(u.fires[k], z.fires[k])
      BY <2>4, <1>2 DEF Quiet
    <3>. QED BY <3>1, <1>3 DEF Kept
  <2>. QED BY <2>6, <2>8, <2>9 DEF z, Done
<1>7. CASE reg = j /\ ~(x.rearm /\ r \in connected /\ ~x.paused)
  <2>1. z = u
    BY <1>3, <1>4, <1>7, Zenon
  <2>2. Rearming(x, u, k, on) /\ Others(x, u, k)
    BY <1>0, <1>7 DEF Rearming, Others
  <2>3. Ending(x, k, TRUE, on, nm)
    <3>1. h
      BY <1>7
    <3>. QED BY <3>1 DEF Ending, Going, Alone
  <2>4. JobOk(u, TRUE, on, nm2) /\ Quiet(x, u, k) /\ u # Lost
    <3>1. Unresumed(x, on)
      BY <1>7 DEF Unresumed
    <3>2. JobOk(u, TRUE, on, nm2)
      <4>1. nm => nm2
        BY <1>7
      <4>. QED BY ONLY <2>2, <2>3, <3>1, <4>1, <1>8, RegisteredOk
    <3>. QED BY <1>1, <3>2
  <2>5. JobOk(z, h2, on, nm2)
    BY <2>1, <2>4, <1>7, MoreOk
  <2>. QED BY <2>1, <2>4, <2>5, <1>3 DEF z, Done
<1>. QED BY <1>5, <1>6, <1>7
-----------------------------------------------------------------------------
(* What a step of registration j may do to its replica: the other             *)
(* registrations of the replica are not concerned.                            *)
Around(r, j) ==
  /\ \A q \in Replicas : q # r => /\ registry'[q] = registry[q]
                                  /\ q \in connected' <=> q \in connected
                                  /\ q \in named' <=> q \in named
  /\ \/ /\ registry'[r] = registry[r] /\ (r \in connected' <=> r \in connected)
        /\ r \in named => r \in named'
     \/ registry[r] \in {None, j} /\ registry'[r] \in {None, j}

(* h, on and nm say where registration j is, whether its replica is connected, *)
(* and whether it will be stopped on disconnect.                              *)
Flags(j, g, C, N, h, on, nm) ==
  (h <=> g = j) /\ (on <=> Owner[j] \in C) /\ (nm <=> Owner[j] \in N)
JobAt(j, x, g, C, N) ==
  \E h, on, nm \in BOOLEAN : Flags(j, g, C, N, h, on, nm) /\ JobOk(x, h, on, nm)
JobsOk == \A j \in Jobs : JobAt(j, job[j], registry[Owner[j]], connected, named)

LEMMA FlagsAre ==
  ASSUME NEW j, NEW g, NEW C, NEW N
  PROVE  \E h, on, nm \in BOOLEAN : Flags(j, g, C, N, h, on, nm)
<1>1. PICK h \in BOOLEAN : h <=> g = j
  <2>1. (TRUE <=> g = j) \/ (FALSE <=> g = j)
    OBVIOUS
  <2>. QED BY <2>1
<1>2. PICK on \in BOOLEAN : on <=> Owner[j] \in C
  <2>1. (TRUE <=> Owner[j] \in C) \/ (FALSE <=> Owner[j] \in C)
    OBVIOUS
  <2>. QED BY <2>1
<1>3. PICK nm \in BOOLEAN : nm <=> Owner[j] \in N
  <2>1. (TRUE <=> Owner[j] \in N) \/ (FALSE <=> Owner[j] \in N)
    OBVIOUS
  <2>. QED BY <2>1
<1>. QED BY <1>1, <1>2, <1>3, Zenon DEF Flags

Places == registry \in [Replicas -> Jobs \union {None}]
          /\ connected \in SUBSET Replicas /\ named \in SUBSET Replicas

LEMMA NotHereOk ==
  ASSUME NEW x, NEW on, NEW nm, NEW on2, NEW nm2, JobOk(x, FALSE, on, nm)
  PROVE  JobOk(x, FALSE, on2, nm2)
<1>1. Going(x, FALSE, on2)
  BY DEF Going
<1>2. Single(x, FALSE, on2, nm2)
  BY DEF JobOk, Single, Alone
<1>. QED BY <1>1, <1>2 DEF JobOk

LEMMA OthersOk ==
  ASSUME Places, JobsOk, NEW j \in Jobs, NEW r \in Replicas, Around(r, j), NEW i \in Jobs, i # j
  PROVE  JobAt(i, job[i], registry'[Owner[i]], connected', named')
<1>1. i # None /\ j # None /\ Owner[i] \in Replicas
  BY JobsAssumption
<1>2. PICK h, on, nm \in BOOLEAN : /\ Flags(i, registry[Owner[i]], connected, named, h, on, nm)
                                   /\ JobOk(job[i], h, on, nm)
  BY DEF JobsOk, JobAt
<1>3. PICK h2, on2, nm2 \in BOOLEAN :
         Flags(i, registry'[Owner[i]], connected', named', h2, on2, nm2)
  BY FlagsAre
<1> SUFFICES JobOk(job[i], h2, on2, nm2)
  BY <1>3 DEF JobAt
<1>4. CASE \/ Owner[i] # r
           \/ registry'[r] = registry[r] /\ (r \in connected' <=> r \in connected)
              /\ (r \in named => r \in named')
  <2>1. (h <=> h2) /\ (on <=> on2) /\ (nm => nm2)
    BY <1>1, <1>2, <1>3, <1>4 DEF Around, Flags
  <2>. QED BY <2>1, <1>2, MoreOk
<1>5. CASE Owner[i] = r /\ registry[r] \in {None, j} /\ registry'[r] \in {None, j}
  <2>1. h = FALSE /\ h2 = FALSE
    BY <1>1, <1>2, <1>3, <1>5 DEF Flags
  <2>2. JobOk(job[i], FALSE, on, nm)
    BY <2>1, <1>2
  <2>3. JobOk(job[i], FALSE, on2, nm2)
    <3>x. PICK x : x = job[i]
      OBVIOUS
    <3>1. JobOk(x, FALSE, on, nm)
      BY ONLY <2>2, <3>x
    <3>2. Going(x, FALSE, on2)
      BY ONLY TRUE DEF Going
    <3>3. Single(x, FALSE, on2, nm2)
      BY ONLY <3>1 DEF JobOk, Single, Alone
    <3>4. JobOk(x, FALSE, on2, nm2)
      BY ONLY <3>1, <3>2, <3>3 DEF JobOk
    <3>. QED BY ONLY <3>4, <3>x
  <2>. QED BY <2>1, <2>3
<1>. QED BY <1>4, <1>5 DEF Around

LEMMA KindStays ==
  ASSUME kind' = kind, NEW j, NEW x, NEW g, NEW C, NEW N, JobAt(j, x, g, C, N)
  PROVE  JobAt(j, x, g, C, N)'
<1>1. PICK h, on, nm \in BOOLEAN : Flags(j, g, C, N, h, on, nm) /\ JobOk(x, h, on, nm)
  BY DEF JobAt
<1>2. JobOk(x, h, on, nm)'
  BY <1>1 DEF JobOk, Formed, Flies, Going, Single, Alone
<1>. QED BY <1>1, <1>2 DEF JobAt

(* One registration moves; the others of its replica see it gone or come.  *)
LEMMA JobsMove ==
  ASSUME kind' = kind, Places, JobsOk, NEW j \in Jobs, Around(Owner[j], j), NEW y,
         job' = [job EXCEPT ![j] = y], job \in [Jobs -> Registrations],
         JobAt(j, y, registry'[Owner[j]], connected', named')
  PROVE  JobsOk' /\ job' \in [Jobs -> Registrations]
<1>1. y \in Registrations /\ Owner[j] \in Replicas
  BY JobsAssumption DEF JobAt, JobOk, Formed
<1>2. job' \in [Jobs -> Registrations]
  BY <1>1
<1>3. ASSUME NEW i \in Jobs
      PROVE  JobAt(i, job'[i], registry'[Owner[i]], connected', named')
  <2>1. CASE i = j
    BY <2>1
  <2>2. CASE i # j
    <3>1. job'[i] = job[i]
      BY <2>2
    <3>. QED BY <2>2, <3>1, <1>1, OthersOk
  <2>. QED BY <2>1, <2>2
<1>4. JobsOk'
  BY <1>3, KindStays DEF JobsOk
<1>. QED BY <1>2, <1>4
-----------------------------------------------------------------------------
(* The end of a fire.                                                       *)
Finishes(r, j, x, k, w, y, v) ==
  /\ job' = [job EXCEPT ![j] = y] /\ wire' = [wire EXCEPT ![r] = v] /\ Around(r, j)
  /\ registry' \in [Replicas -> Jobs \union {None}] /\ named' \in SUBSET Replicas
  /\ registry'[r] \in {registry[r], None}
  /\ JobAt(j, y, registry'[r], connected', named') /\ Quiet(x, y, k)
  /\ \/ v = w /\ Done(y, k)
     \/ /\ v = Append(w, Del("once", 0, j, x.token, "leave")) /\ x.token # 0
        /\ y # Lost /\ y.fires[k].stage = "leave" /\ y.token = 0

(* What Leaves, Settled and Finish do to the registration and to the wire. *)
LEMMA LeavesDoes ==
  ASSUME Places, now \in Nat, kind \in {"every", "delay"}, UNCHANGED connected,
         NEW r \in Replicas, NEW j \in Jobs, Owner[j] = r, NEW x, NEW k, NEW w,
         NEW h, NEW on, NEW nm, Flags(j, registry[r], connected, named, h, on, nm),
         Ending(x, k, h, on, nm), Leaves(r, j, x, k, w)
  PROVE  \E y : Finishes(r, j, x, k, w, y, w)
<1> DEFINE here == registry[r] = j
           c == IF here THEN Cleared(x) ELSE x
           d == [c EXCEPT !.fires[k] = Over]
           u == Untracked(d)
           y == Settled(r, j, registry'[r], d)
<1>1. /\ registry' = IF here THEN [registry EXCEPT ![r] = None] ELSE registry
      /\ named' = IF here THEN named \ {r} ELSE named
      /\ job' = [job EXCEPT ![j] = y] /\ wire' = [wire EXCEPT ![r] = w]
  BY DEF Leaves
<1>2. /\ registry' \in [Replicas -> Jobs \union {None}] /\ named' \in SUBSET Replicas
      /\ registry'[r] # j /\ registry'[r] \in {registry[r], None} /\ Around(r, j)
  BY <1>1, JobsAssumption DEF Places, Around
<1>3. x \in Registrations /\ x.handle \in 0..Len(x.fires) /\ k \in 1..Len(x.fires)
      /\ Len(x.fires) \in Nat /\ x.scope \in 0..Len(x.fires)
  BY FiresAre DEF Ending, Formed
<1>4. /\ c \in Registrations /\ c = [x EXCEPT !.fires = c.fires]
      /\ Len(c.fires) = Len(x.fires)
      /\ \A m \in 1..Len(x.fires) :
           \/ c.fires[m] = x.fires[m]
           \/ x.fires[m].stage = "armed" /\ c.fires[m] = Over
  <2>1. CASE here
    BY <2>1, <1>3, ClearedIs
  <2>2. CASE ~here
    <3>1. x = [x EXCEPT !.fires = x.fires]
      BY <1>3 DEF Registrations
    <3>. QED BY <2>2, <3>1, <1>3
  <2>. QED BY <2>1, <2>2
<1> HIDE DEF c
<1>5. /\ d \in Registrations /\ d = [c EXCEPT !.fires = d.fires]
      /\ Len(d.fires) = Len(c.fires) /\ d.fires[k] = Over
      /\ \A m \in 1..Len(c.fires) : m # k => d.fires[m] = c.fires[m]
  BY <1>3, <1>4, OverIs, FireSet
<1> HIDE DEF d
<1>6. Alike(x, d)
  <2>1. Alike(x, c)
    BY <1>3, <1>4, AlikeIs
  <2>2. Alike(c, d)
    <3>1. Alike(c, [c EXCEPT !.fires = d.fires])
      BY <1>4, AlikeIs
    <3>. QED BY <3>1, <1>5, Zenon
  <2>. QED BY <2>1, <2>2 DEF Alike
<1>7. Settling(x, u, k)
  <2>1. /\ u \in Registrations /\ u.fires = d.fires /\ u.flight = FALSE /\ u.rearm = FALSE
        /\ u.used = d.used /\ u.claim = d.claim /\ u.token = d.token /\ u.minted = d.minted
        /\ u.wait = d.wait /\ u.removing = d.removing /\ u.rushed = d.rushed
        /\ u.paused = d.paused /\ u.dropped = d.dropped /\ u.until = d.until
        /\ u.handle = d.handle /\ u.scope = d.scope
    BY <1>5, UntrackedIs
  <2> HIDE DEF u
  <2>2. /\ \A m \in 1..Len(x.fires) : m # k =>
             \/ u.fires[m] = x.fires[m]
             \/ x.fires[m].stage = "armed" /\ u.fires[m].stage = "over"
        /\ u.fires[k].stage = "over" /\ Len(u.fires) = Len(x.fires)
    BY <2>1, <1>4, <1>5, OverIs
  <2>. QED BY <2>1, <2>2, <1>3, <1>6 DEF Settling, Alike
<1>8. PICK h2, on2, nm2 \in BOOLEAN : Flags(j, registry'[r], connected', named', h2, on2, nm2)
  BY FlagsAre
<1>9. /\ JobOk(y, h2, on2, nm2) /\ Quiet(x, y, k)
      /\ Done(y, k)
  <2> DEFINE reg == registry'[r]
  <2>1. d.rearm = x.rearm /\ (reg # j /\ ~x.rushed => Len(d.fires) = Len(x.fires))
    BY <1>4, <1>5, <1>6 DEF Alike
  <2>2. reg # j /\ (on <=> r \in connected) /\ (h2 <=> reg = j) /\ (on <=> on2)
    BY <1>2, <1>8 DEF Flags
  <2> HIDE DEF u
  <2>3. Settling(x, Untracked(d), k)
    BY <1>7 DEF u
  <2> HIDE DEF reg
  <2>4. JobOk(Settled(r, j, reg, d), h2, on, nm2)
    BY <2>1, <2>2, <2>3, <1>5, SettledOk
  <2>5. JobOk(Settled(r, j, reg, d), h2, on2, nm2)
    BY <2>2, <2>4, MoreOk
  <2>6. Quiet(x, Settled(r, j, reg, d), k)
    BY <2>1, <2>2, <2>3, <1>5, SettledOk
  <2>7. Done(Settled(r, j, reg, d), k)
    BY <2>1, <2>2, <2>3, <1>5, SettledOk
  <2>. QED BY <2>5, <2>6, <2>7 DEF reg
<1>10. JobAt(j, y, registry'[r], connected', named')
  BY <1>8, <1>9 DEF JobAt
<1>. QED BY <1>1, <1>2, <1>9, <1>10 DEF Finishes

LEMMA SettlingIs ==
  ASSUME NEW x, NEW d \in Registrations, NEW k, Len(x.fires) <= Len(d.fires),
         d.handle \in 0..Len(d.fires), d.scope \in 0..Len(d.fires), d.fires[k].stage = "over",
         Others(x, d, k), \A m \in (Len(x.fires) + 1)..Len(d.fires) : d.fires[m].stage = "armed",
         Rest(x, d), d.paused = x.paused, d.dropped = x.dropped
  PROVE  Settling(x, Untracked(d), k)
<1> DEFINE u == Untracked(d)
<1>1. /\ u \in Registrations /\ u.fires = d.fires /\ u.flight = FALSE /\ u.rearm = FALSE
      /\ u.used = d.used /\ u.claim = d.claim /\ u.token = d.token /\ u.minted = d.minted
      /\ u.wait = d.wait /\ u.removing = d.removing /\ u.rushed = d.rushed
      /\ u.paused = d.paused /\ u.dropped = d.dropped /\ u.until = d.until
      /\ u.handle = d.handle /\ u.scope = d.scope
  BY UntrackedIs
<1> HIDE DEF u
<1>2. Settling(x, u, k)
  BY <1>1 DEF Settling, Rest, Others
<1>. QED BY <1>2 DEF u

LEMMA FireOver ==
  ASSUME NEW x \in Registrations, NEW k \in 1..Len(x.fires)
  PROVE  LET d == [x EXCEPT !.fires[k] = Over]
         IN  /\ d \in Registrations /\ Len(d.fires) = Len(x.fires) /\ d.fires[k].stage = "over"
             /\ Others(x, d, k) /\ Alike(x, d)
<1> DEFINE d == [x EXCEPT !.fires[k] = Over]
<1>1. /\ d \in Registrations /\ d = [x EXCEPT !.fires = d.fires]
      /\ Len(d.fires) = Len(x.fires) /\ d.fires[k] = Over
      /\ \A m \in 1..Len(x.fires) : m # k => d.fires[m] = x.fires[m]
  BY OverIs, FireSet
<1> HIDE DEF d
<1>2. Alike(x, d)
  <2>1. Alike(x, [x EXCEPT !.fires = d.fires])
    BY AlikeIs
  <2>. QED BY <2>1, <1>1, Zenon
<1>. QED BY <1>1, <1>2, OverIs DEF Others, d

(* A fire that ends and may be followed by another.                          *)
LEMMA SettlesDoes ==
  ASSUME Places, now \in Nat, kind \in {"every", "delay"}, UNCHANGED <<connected, registry>>,
         NEW r \in Replicas, NEW j \in Jobs, Owner[j] = r, NEW x, NEW k, NEW w, NEW d,
         NEW h, NEW on, NEW nm, Flags(j, registry[r], connected, named, h, on, nm),
         Ending(x, k, h, on, nm), d \in Registrations, d.rearm = x.rearm,
         Settling(x, Untracked(d), k), Others(x, d, k),
         Rearming(x, d, k, on) \/ ~h, ~h /\ ~x.rushed => Len(d.fires) = Len(x.fires),
         job' = [job EXCEPT ![j] = Settled(r, j, registry[r], d)],
         job \in [Jobs -> Registrations],
         \/ named' = named \union {r}
         \/ named' = named /\ ~(x.rearm /\ job'[j].handle > x.handle),
         wire' = [wire EXCEPT ![r] = w]
  PROVE  \E y : Finishes(r, j, x, k, w, y, w)
<1> DEFINE y == Settled(r, j, registry[r], d)
<1>1. /\ registry' \in [Replicas -> Jobs \union {None}] /\ named' \in SUBSET Replicas
      /\ registry'[r] \in {registry[r], None} /\ Around(r, j)
  BY DEF Places, Around
<1>2. PICK h2, on2, nm2 \in BOOLEAN : Flags(j, registry'[r], connected', named', h2, on2, nm2)
  BY FlagsAre
<1>3. (h <=> h2) /\ (on <=> on2) /\ (nm => nm2) /\ (on <=> r \in connected)
      /\ (h <=> registry[r] = j) /\ (h2 <=> registry[r] = j)
  BY <1>2 DEF Flags
<1>4. job'[j] = y
  OBVIOUS
<1>5. registry[r] = j /\ x.rearm /\ y.handle > x.handle => nm2
  <2> SUFFICES ASSUME x.rearm, y.handle > x.handle
               PROVE  r \in named'
    BY <1>2 DEF Flags
  <2>. QED BY <1>4
<1>6. /\ registry[r] = j => h
      /\ registry[r] = j /\ nm => nm2
      /\ registry[r] # j /\ ~x.rushed => Len(d.fires) = Len(x.fires)
      /\ registry[r] = j => Others(x, d, k) /\ Rearming(x, d, k, on)
  BY <1>3
<1>7. JobOk(y, h2, on, nm2)
  BY <1>3, <1>5, <1>6, SettledOk
<1>8. Quiet(x, y, k)
  BY <1>3, <1>5, <1>6, SettledOk
<1>9. Done(y, k)
  BY <1>3, <1>5, <1>6, SettledOk
<1> HIDE DEF y
<1>10. JobAt(j, y, registry'[r], connected', named')
  <2>1. JobOk(y, h2, on2, nm2)
    BY <1>3, <1>7, MoreOk
  <2>. QED BY <2>1, <1>2 DEF JobAt
<1>. QED BY <1>1, <1>8, <1>9, <1>10 DEF Finishes, y

LEMMA EveryDoes ==
  ASSUME Places, now \in Nat, kind = "every", UNCHANGED connected,
         NEW r \in Replicas, NEW j \in Jobs, Owner[j] = r, NEW x, NEW k, NEW w,
         NEW h, NEW on, NEW nm, Flags(j, registry[r], connected, named, h, on, nm),
         Ending(x, k, h, on, nm), job \in [Jobs -> Registrations], Finish(r, j, x, k, w)
  PROVE  \E y : Finishes(r, j, x, k, w, y, w)
<1> DEFINE f == x.fires[k]
           e == [x EXCEPT !.fires[k] = Over]
           d == IF Rearms(r, x, f) THEN Armed(e, NextSlot(r)) ELSE e
<1>1. /\ job' = [job EXCEPT ![j] = Settled(r, j, registry[r], d)]
      /\ named' = IF x.rearm /\ job'[j].handle > x.handle THEN named \union {r} ELSE named
      /\ wire' = [wire EXCEPT ![r] = w] /\ UNCHANGED registry
  BY DEF Finish
<1>2. x \in Registrations /\ k \in 1..Len(x.fires) /\ Len(x.fires) \in Nat
      /\ x.handle \in 0..Len(x.fires) /\ x.scope \in 0..Len(x.fires)
  BY FiresAre DEF Ending, Formed
<1>3. /\ e \in Registrations /\ Len(e.fires) = Len(x.fires) /\ e.fires[k].stage = "over"
      /\ Others(x, e, k) /\ Alike(x, e)
  BY <1>2, FireOver
<1> HIDE DEF e
<1>4. CASE Rearms(r, x, f)
  <2>1. d = Armed(e, NextSlot(r))
    BY <1>4
  <2> DEFINE n == Len(e.fires) + 1
  <2>2. /\ d \in Registrations
        /\ d.handle = n /\ d.scope = n /\ Len(d.fires) = n
        /\ d.fires[n].stage = "armed" /\ ~d.fires[n].aborted
        /\ \A m \in 1..Len(e.fires) : d.fires[m] = e.fires[m]
        /\ Rest(e, d) /\ d.paused = e.paused /\ d.dropped = e.dropped
    <3> DEFINE s == NextSlot(r)
    <3>1. s \in Nat
      BY TimesAre
    <3>2. d = Armed(e, s) /\ e \in Registrations
      BY <2>1, <1>3
    <3> HIDE DEF s, d
    <3>. QED BY ONLY <3>1, <3>2, ArmedIs
  <2>3. on /\ ~x.paused /\ ~f.aborted /\ registry[r] # None
    BY <1>4 DEF Rearms, Flags
  <2> HIDE DEF d
  <2>4. Rest(x, d) /\ d.paused = x.paused /\ d.dropped = x.dropped
    BY <2>2, <1>3 DEF Rest, Alike
  <2>5. Others(x, d, k) /\ d.fires[k].stage = "over"
    BY <2>2, <1>2, <1>3 DEF Others
  <2>6. Settling(x, Untracked(d), k)
    BY <2>2, <2>4, <2>5, <1>2, <1>3, SettlingIs
  <2>7. Rearming(x, d, k, on)
    BY <2>2, <2>3, <1>3 DEF Rearming
  <2>8. x.rushed \/ h
    BY <2>3 DEF Ending, Alone
  <2>9. d.rearm = x.rearm
    BY <2>4 DEF Rest
  <2>10. d \in Registrations
    BY <2>2
  <2>11. job' = [job EXCEPT ![j] = Settled(r, j, registry[r], d)] /\ UNCHANGED <<connected, registry>>
         /\ kind \in {"every", "delay"}
    BY <1>1
  <2>12. \/ named' = named \union {r}
         \/ named' = named /\ ~(x.rearm /\ job'[j].handle > x.handle)
    BY <1>1
  <2>. QED BY <2>5, <2>6, <2>7, <2>8, <2>9, <2>10, <2>11, <2>12, <1>1, SettlesDoes
<1>5. CASE ~Rearms(r, x, f)
  <2>1. d = e
    BY <1>5
  <2> HIDE DEF d
  <2>4. Rest(x, d) /\ d.paused = x.paused /\ d.dropped = x.dropped /\ d.rearm = x.rearm
        /\ d.handle = x.handle /\ d.scope = x.scope
    BY <2>1, <1>3 DEF Rest, Alike
  <2>6. Settling(x, Untracked(d), k)
    BY <2>1, <2>4, <1>2, <1>3, SettlingIs
  <2>7. Rearming(x, d, k, on) \/ ~h
    <3>1. h => registry[r] # None
      BY JobsAssumption DEF Flags
    <3>. QED BY <3>1, <2>1, <1>3, <1>5 DEF Rearming, Rearms, Flags
  <2>8. Len(d.fires) = Len(x.fires) /\ d \in Registrations /\ Others(x, d, k)
    BY <2>1, <1>3
  <2>11. job' = [job EXCEPT ![j] = Settled(r, j, registry[r], d)] /\ UNCHANGED <<connected, registry>>
         /\ kind \in {"every", "delay"}
    BY <1>1
  <2>12. \/ named' = named \union {r}
         \/ named' = named /\ ~(x.rearm /\ job'[j].handle > x.handle)
    BY <1>1
  <2>. QED BY <2>4, <2>6, <2>7, <2>8, <2>11, <2>12, <1>1, SettlesDoes
<1>. QED BY <1>4, <1>5

LEMMA FinishDoes ==
  ASSUME Places, now \in Nat, kind \in {"every", "delay"}, UNCHANGED connected,
         NEW r \in Replicas, NEW j \in Jobs, Owner[j] = r, NEW x, NEW k, NEW w,
         NEW h, NEW on, NEW nm, Flags(j, registry[r], connected, named, h, on, nm),
         Ending(x, k, h, on, nm), job \in [Jobs -> Registrations], Finish(r, j, x, k, w)
  PROVE  \E y, v : Finishes(r, j, x, k, w, y, v)
<1> DEFINE f == x.fires[k]
           e == [x EXCEPT !.fires[k] = Over]
           final == f.outcome \in {"succeeded", "failed"}
<1>2. x \in Registrations /\ k \in 1..Len(x.fires) /\ Len(x.fires) \in Nat
      /\ x.handle \in 0..Len(x.fires) /\ x.scope \in 0..Len(x.fires) /\ f \in Tries
  BY FiresAre DEF Ending, Formed
<1>3. CASE kind = "every"
  BY <1>3, EveryDoes
<1>4. CASE kind = "delay" /\ f.aborted /\ r \in connected /\ ~final
  <2>1. /\ job' = [job EXCEPT ![j] = Settled(r, j, registry[r], e)]
        /\ named' = IF job'[j].handle > x.handle THEN named \union {r} ELSE named
        /\ wire' = [wire EXCEPT ![r] = w] /\ UNCHANGED <<connected, registry>>
    BY <1>4, Zenon DEF Finish
  <2>2. /\ e \in Registrations /\ Len(e.fires) = Len(x.fires) /\ e.fires[k].stage = "over"
        /\ Others(x, e, k) /\ Alike(x, e)
    BY <1>2, FireOver
  <2> HIDE DEF e
  <2>3. Rest(x, e) /\ e.paused = x.paused /\ e.dropped = x.dropped /\ e.rearm = x.rearm
        /\ e.handle = x.handle /\ e.scope = x.scope
    BY <2>2 DEF Rest, Alike
  <2>4. Settling(x, Untracked(e), k)
    BY <2>2, <2>3, <1>2, SettlingIs
  <2>5. Rearming(x, e, k, on)
    BY <2>2, <1>4 DEF Rearming
  <2>6. \/ named' = named \union {r}
        \/ named' = named /\ ~(x.rearm /\ job'[j].handle > x.handle)
    BY <2>1
  <2>. QED BY <2>1, <2>2, <2>3, <2>4, <2>5, <2>6, SettlesDoes
<1>5. CASE kind = "delay" /\ ~(f.aborted /\ r \in connected /\ ~final) /\ x.token = 0
  <2>1. Leaves(r, j, x, k, w)
    BY <1>5 DEF Finish
  <2>. QED BY <2>1, LeavesDoes
<1>6. CASE kind = "delay" /\ ~(f.aborted /\ r \in connected /\ ~final) /\ x.token # 0
  <2> DEFINE c == Unheld(x)
             g == [f EXCEPT !.stage = "leave"]
             y == [c EXCEPT !.fires[k] = g]
             v == Append(w, Del("once", 0, j, x.token, "leave"))
  <2>1. /\ job' = [job EXCEPT ![j] = [Unheld(x) EXCEPT !.fires[k].stage = "leave"]]
        /\ wire' = [wire EXCEPT ![r] = v] /\ UNCHANGED <<registry, named>>
    BY <1>6 DEF Finish
  <2>2. /\ c \in Registrations /\ c.fires = x.fires /\ c.token = 0 /\ c.used = x.used
        /\ c.claim = x.claim /\ c.minted = x.minted /\ c.wait = x.wait /\ c.flight = x.flight
        /\ c.rearm = x.rearm /\ c.removing = x.removing /\ c.rushed = x.rushed
        /\ c.paused = x.paused /\ c.dropped = x.dropped /\ c.handle = x.handle /\ c.scope = x.scope
    BY <1>2 DEF Unheld, Registrations
  <2> HIDE DEF c
  <2>3. [c EXCEPT !.fires[k].stage = "leave"] = y
    BY <2>2
  <2>4. g \in Tries /\ g.stage = "leave" /\ g.aborted = f.aborted
    BY <1>2 DEF Tries, Fires, Stages
  <2> HIDE DEF g
  <2>5. /\ y \in Registrations /\ y = [c EXCEPT !.fires = y.fires]
        /\ Len(y.fires) = Len(x.fires) /\ y.fires[k] = g
        /\ \A m \in 1..Len(x.fires) : m # k => y.fires[m] = x.fires[m]
    BY <1>2, <2>2, <2>4, FireSet
  <2> HIDE DEF y
  <2>6. Alike(c, y)
    <3>1. Alike(c, [c EXCEPT !.fires = y.fires])
      BY <2>2, AlikeIs
    <3>. QED BY <3>1, <2>5, Zenon
  <2>7. /\ y.token = 0 /\ y.used = x.used
        /\ y.claim = x.claim /\ y.minted = x.minted /\ y.wait = x.wait /\ y.flight = x.flight
        /\ y.rearm = x.rearm /\ y.removing = x.removing /\ y.rushed = x.rushed
        /\ y.paused = x.paused /\ y.dropped = x.dropped /\ y.handle = x.handle /\ y.scope = x.scope
    BY <2>2, <2>6 DEF Alike
  <2>8. y # Lost /\ y.used
    <3>1. y # Lost
      BY <1>2, <2>5, LostIs
    <3>2. y.used
      BY <2>7, EndingUsed, Zenon
    <3>. QED BY <3>1, <3>2
  <2>9. x.wait = "none" /\ ~x.removing /\ x.claim = "claimed"
    BY <1>6 DEF Ending, Formed
  <2>10. Formed(y)
    <3>1. \A m \in 1..Len(y.fires) : /\ kind = "every" => y.fires[m].stage # "leave"
                                     /\ kind = "delay" => y.fires[m].stage # "slot"
      BY <1>6, <2>4, <2>5 DEF Ending, Formed
    <3>2. /\ y.handle \in 0..Len(y.fires) /\ y.scope \in 0..Len(y.fires) /\ y.token \in 0..y.minted
          /\ y.wait = "none"
      BY <1>2, <2>5, <2>7, <2>9, FiresAre
    <3>3. y.rearm => y.flight
      <4>1. x.rearm => x.flight
        BY DEF Ending, Formed
      <4>. QED BY <4>1, <2>7, Zenon
    <3>. QED BY <1>6, <2>5, <2>7, <2>8, <3>1, <3>2, <3>3 DEF Formed
  <2>11. Flies(y) /\ Going(y, h, on)
    <3>1. Flies(y)
      BY <2>4, <2>5, <1>2 DEF Flies, InFlight
    <3>2. Going(x, h, on)
      BY DEF Ending
    <3>3. \A m \in 1..Len(x.fires) : x.fires[m].stage # "over" =>
            y.fires[m].stage # "over" /\ y.fires[m].aborted = x.fires[m].aborted
      BY <2>4, <2>5
    <3>. QED BY <3>1, <3>2, <3>3, <2>5, <2>7, <2>8 DEF Going
  <2>12. Single(y, h, on, nm)
    <3> SUFFICES ASSUME ~x.rushed
                 PROVE  /\ ~y.removing /\ y.wait # "register"
                        /\ \A m \in 1..Len(y.fires) : y.fires[m].stage # "over" =>
                             Alone(y, m, h, on, nm) /\ y.fires[m].stage # "armed"
      BY <2>7 DEF Single
    <3>1. \A m \in 1..Len(y.fires) : y.fires[m].stage # "over" => m = k
      BY <2>5 DEF Ending
    <3>2. Alone(x, k, h, on, nm) /\ x.flight
      BY DEF Ending
    <3>3. Alone(y, k, h, on, nm)
      BY <3>2, <2>4, <2>5, <2>7, <2>9 DEF Alone
    <3>4. ~y.removing /\ y.wait # "register"
      BY <2>7, <2>9
    <3>. QED BY <3>1, <3>3, <3>4, <2>4, <2>5
  <2>13. Quiet(x, y, k)
    <3>1. \A m \in 1..Len(x.fires) : m # k => Kept(x.fires[m], y.fires[m])
      BY <2>5 DEF Kept
    <3>. QED BY <3>1, <2>5, <2>7, <2>8, <1>2 DEF Quiet
  <2>14. JobAt(j, y, registry'[r], connected', named')
    <3>1. JobOk(y, h, on, nm)
      BY <2>10, <2>11, <2>12 DEF JobOk
    <3>2. PICK h2, on2, nm2 \in BOOLEAN : Flags(j, registry'[r], connected', named', h2, on2, nm2)
      BY FlagsAre
    <3>3. (h <=> h2) /\ (on <=> on2) /\ (nm => nm2)
      BY <3>2, <2>1 DEF Flags
    <3>4. JobOk(y, h2, on2, nm2)
      BY <3>1, <3>3, MoreOk
    <3>. QED BY <3>2, <3>4 DEF JobAt
  <2>15. /\ registry' \in [Replicas -> Jobs \union {None}] /\ named' \in SUBSET Replicas
         /\ registry'[r] \in {registry[r], None} /\ Around(r, j)
    BY <2>1 DEF Places, Around
  <2>16. job' = [job EXCEPT ![j] = y]
    BY <2>1, <2>3 DEF c
  <2>17. Finishes(r, j, x, k, w, y, v)
    BY <1>6, <2>1, <2>4, <2>5, <2>7, <2>8, <2>13, <2>14, <2>15, <2>16 DEF Finishes
  <2>. QED BY <2>17
<1>. QED BY <1>3, <1>4, <1>5, <1>6
-----------------------------------------------------------------------------
(* A fire that goes on.                                                     *)
LEMMA EndingIs ==
  ASSUME NEW x, NEW k, NEW h, NEW on, NEW nm, JobOk(x, h, on, nm), k \in 1..Len(x.fires),
         x.fires[k].stage \notin {"armed", "over"}
  PROVE  Ending(x, k, h, on, nm)
<1>1. Len(x.fires) \in Nat
  BY FiresAre DEF JobOk, Formed
<1>2. ASSUME ~x.rushed
      PROVE  /\ x.rearm /\ x.claim = "claimed" => ~x.removing
             /\ x.wait # "register" /\ Alone(x, k, h, on, nm)
             /\ \A m \in 1..Len(x.fires) : m # k => x.fires[m].stage = "over"
  <2>1. Alone(x, k, h, on, nm) /\ k = Len(x.fires)
    BY <1>2 DEF JobOk, Single, Alone
  <2>2. \A m \in 1..Len(x.fires) : x.fires[m].stage # "over" => m = Len(x.fires)
    BY <1>2 DEF JobOk, Single, Alone
  <2>3. (x.rearm /\ x.claim = "claimed" => ~x.removing) /\ x.wait # "register"
    BY <1>2 DEF JobOk, Single
  <2>. QED BY <2>1, <2>2, <2>3
<1>3. ~x.rushed => x.flight
  BY <1>2 DEF Alone
<1>. QED BY <1>2, <1>3 DEF JobOk, Ending

LEMMA DueEnding ==
  ASSUME NEW x, NEW k, NEW h, NEW on, NEW nm, JobOk(x, h, on, nm), k \in 1..Len(x.fires),
         x.fires[k].stage = "armed"
  PROVE  LET y == [x EXCEPT !.flight = TRUE]
         IN  Ending(y, k, h, on, nm) /\ y.fires = x.fires
             /\ y.token = x.token /\ y.minted = x.minted /\ y.until = x.until /\ y.wait = x.wait
             /\ y.used = x.used /\ y.claim = x.claim
<1> DEFINE y == [x EXCEPT !.flight = TRUE]
<1>1. x \in Registrations /\ x.used
  <2>1. x \in Registrations /\ (~x.used => x = Unused) /\ x # Unused
    BY LostIs DEF JobOk, Formed
  <2>. QED BY <2>1, Zenon
<1>2. /\ y \in Registrations /\ y.fires = x.fires /\ y.flight = TRUE
      /\ y.used = x.used /\ y.claim = x.claim /\ y.token = x.token /\ y.minted = x.minted
      /\ y.until = x.until /\ y.wait = x.wait /\ y.rearm = x.rearm /\ y.removing = x.removing
      /\ y.rushed = x.rushed /\ y.paused = x.paused /\ y.dropped = x.dropped
      /\ y.handle = x.handle /\ y.scope = x.scope
  BY <1>1 DEF Registrations
<1> HIDE DEF y
<1>3. y.used /\ y.flight
  BY <1>1, <1>2, Zenon
<1>4. Formed(y)
  BY <1>2, <1>3 DEF JobOk, Formed
<1>5. Going(y, h, on)
  BY <1>2 DEF JobOk, Going
<1>6. ASSUME ~x.rushed
      PROVE  /\ y.rearm /\ y.claim = "claimed" => ~y.removing
             /\ y.wait # "register" /\ Alone(y, k, h, on, nm)
             /\ \A m \in 1..Len(x.fires) : m # k => x.fires[m].stage = "over"
  <2>1. Alone(x, k, h, on, nm) /\ k = Len(x.fires)
    BY <1>6 DEF JobOk, Single, Alone
  <2>2. \A m \in 1..Len(x.fires) : x.fires[m].stage # "over" => m = Len(x.fires)
    BY <1>6 DEF JobOk, Single, Alone
  <2>3. (x.rearm /\ x.claim = "claimed" => ~x.removing) /\ x.wait # "register"
    BY <1>6 DEF JobOk, Single
  <2>4. Alone(y, k, h, on, nm)
    BY <2>1, <1>2, <1>3 DEF Alone
  <2>. QED BY <2>1, <2>2, <2>3, <2>4, <1>2
<1>7. Ending(y, k, h, on, nm)
  BY <1>2, <1>3, <1>4, <1>5, <1>6 DEF Ending
<1>. QED BY <1>2, <1>7 DEF y, Alike

(* A fire that goes on to its next stage leaves its registration well      *)
(* formed.                                                                 *)
LEMMA MovesOk ==
  ASSUME NEW x, NEW k, NEW h, NEW on, NEW nm, Ending(x, k, h, on, nm), NEW g \in Tries,
         kind \in {"every", "delay"},
         g.stage \notin {"armed", "over"}, g.aborted = x.fires[k].aborted,
         x.fires[k].stage = "armed" => kind = "every" \/ x.claim = "claimed",
         kind = "every" => g.stage # "leave", kind = "delay" => g.stage # "slot"
  PROVE  LET y == [x EXCEPT !.fires[k] = g]
         IN  /\ JobOk(y, h, on, nm) /\ Quiet(x, y, k) /\ y.fires[k] = g
             /\ y.token = x.token
             /\ Len(y.fires) = Len(x.fires) /\ y \in Registrations
<1> DEFINE y == [x EXCEPT !.fires[k] = g]
<1>1. x \in Registrations /\ k \in 1..Len(x.fires) /\ Len(x.fires) \in Nat
  BY FiresAre DEF Ending, Formed
<1>2. /\ y \in Registrations /\ y = [x EXCEPT !.fires = y.fires]
      /\ Len(y.fires) = Len(x.fires) /\ y.fires[k] = g
      /\ \A m \in 1..Len(x.fires) : m # k => y.fires[m] = x.fires[m]
  BY <1>1, FireSet
<1> HIDE DEF y
<1>3. Alike(x, y)
  <2>1. Alike(x, [x EXCEPT !.fires = y.fires])
    BY <1>1, AlikeIs
  <2>. QED BY <2>1, <1>2, Zenon
<1>4. y # Lost /\ y.used
  <2>1. y # Lost
    BY <1>1, <1>2, LostIs
  <2>2. y.used = x.used
    BY <1>3 DEF Alike
  <2>3. y.used
    BY <2>2, EndingUsed, Zenon
  <2>. QED BY <2>1, <2>3
<1>5. Formed(y)
  <2>1. \A m \in 1..Len(y.fires) : /\ kind = "every" => y.fires[m].stage # "leave"
                                   /\ kind = "delay" => y.fires[m].stage # "slot"
    BY <1>2 DEF Ending, Formed
  <2>. QED BY <2>1, <1>2, <1>3, <1>4 DEF Ending, Formed, Alike
<1>6. Flies(y)
  BY <1>1, <1>2 DEF Flies, InFlight
<1>7. Going(y, h, on)
  <2>1. Going(x, h, on)
    BY DEF Ending
  <2>2. \A m \in 1..Len(x.fires) : x.fires[m].stage # "over" =>
          y.fires[m].stage # "over" /\ y.fires[m].aborted = x.fires[m].aborted
    BY <1>2
  <2>. QED BY <2>1, <2>2, <1>2, <1>3, <1>4 DEF Going, Alike
<1>8. Single(y, h, on, nm)
  <2> SUFFICES ASSUME ~x.rushed
               PROVE  /\ y.rearm /\ y.claim = "claimed" => ~y.removing
                      /\ y.wait # "register"
                      /\ \A m \in 1..Len(y.fires) : y.fires[m].stage # "over" =>
                           Alone(y, m, h, on, nm) /\ y.fires[m].stage # "armed"
    BY <1>3 DEF Single, Alike
  <2>1. \A m \in 1..Len(y.fires) : y.fires[m].stage # "over" => m = k
    BY <1>2 DEF Ending
  <2>2. /\ Alone(x, k, h, on, nm) /\ x.flight /\ x.wait # "register"
        /\ x.rearm /\ x.claim = "claimed" => ~x.removing
    BY DEF Ending
  <2>3. Alone(y, k, h, on, nm)
    BY <2>2, <1>2, <1>3 DEF Alone, Alike
  <2>4. (y.rearm /\ y.claim = "claimed" => ~y.removing) /\ y.wait # "register"
    BY <2>2, <1>3 DEF Alike
  <2>. QED BY <2>1, <2>3, <2>4, <1>2
<1>9. Quiet(x, y, k)
  <2>1. \A m \in 1..Len(x.fires) : m # k => Kept(x.fires[m], y.fires[m])
    BY <1>2 DEF Kept
  <2>. QED BY <2>1, <1>1, <1>2, <1>3, <1>4 DEF Quiet, Alike
<1>10. JobOk(y, h, on, nm)
  BY <1>5, <1>6, <1>7, <1>8 DEF JobOk
<1>. QED BY <1>2, <1>3, <1>9, <1>10 DEF y, Alike
-----------------------------------------------------------------------------
(* A registration that is paused, removed or disconnected: its timer is       *)
(* cleared, the fire in flight told to stop.                                  *)
Halted(f, g) ==
  \/ /\ g.stage = f.stage /\ g.due = f.due /\ g.until = f.until /\ g.since = f.since
     /\ f.aborted => g.aborted
  \/ f.stage = "armed" /\ g.stage = "over"
Stopping(x, y) ==
  /\ y \in Registrations /\ Len(y.fires) = Len(x.fires)
  /\ \A m \in 1..Len(x.fires) : Halted(x.fires[m], y.fires[m])
  /\ x.scope # 0 => y.fires[x.scope].stage = "over" \/ y.fires[x.scope].aborted

LEMMA StoppingIs ==
  ASSUME NEW x \in Registrations, NEW c \in Registrations, Len(c.fires) = Len(x.fires),
         \A m \in 1..Len(x.fires) : \/ c.fires[m] = x.fires[m]
                                    \/ x.fires[m].stage = "armed" /\ c.fires[m] = Over,
         c.scope = x.scope, x.scope \in 0..Len(x.fires)
  PROVE  LET y == Aborted(c)
         IN  /\ Stopping(x, y) /\ Alike(c, y)
             /\ \A m \in 1..Len(x.fires) : y.fires[m].stage = c.fires[m].stage
<1> DEFINE y == Aborted(c)
<1>1. /\ y \in Registrations /\ y = [c EXCEPT !.fires = y.fires]
      /\ Len(y.fires) = Len(c.fires)
      /\ \A m \in 1..Len(c.fires) :
           \/ y.fires[m] = c.fires[m]
           \/ m = c.scope /\ y.fires[m] = [c.fires[m] EXCEPT !.aborted = TRUE]
      /\ c.scope # 0 => y.fires[c.scope].stage = "over" \/ y.fires[c.scope].aborted
  BY AbortedIs
<1> HIDE DEF y
<1>2. Alike(c, y)
  <2>1. Alike(c, [c EXCEPT !.fires = y.fires])
    BY AlikeIs
  <2>. QED BY <2>1, <1>1, Zenon
<1>3. ASSUME NEW m \in 1..Len(x.fires)
      PROVE  Halted(x.fires[m], y.fires[m]) /\ y.fires[m].stage = c.fires[m].stage
  <2>1. c.fires[m] \in Tries
    BY FiresAre
  <2>2. /\ y.fires[m].stage = c.fires[m].stage /\ y.fires[m].due = c.fires[m].due
        /\ y.fires[m].until = c.fires[m].until /\ y.fires[m].since = c.fires[m].since
        /\ c.fires[m].aborted => y.fires[m].aborted
    <3>1. CASE y.fires[m] = c.fires[m]
      BY <3>1
    <3>2. CASE y.fires[m] = [c.fires[m] EXCEPT !.aborted = TRUE]
      <4>1. /\ y.fires[m].stage = c.fires[m].stage /\ y.fires[m].due = c.fires[m].due
            /\ y.fires[m].until = c.fires[m].until /\ y.fires[m].since = c.fires[m].since
            /\ y.fires[m].aborted = TRUE
        BY <2>1, <3>2 DEF Tries, Fires
      <4>. QED BY <4>1
    <3>. QED BY <1>1, <3>1, <3>2
  <2>3. CASE c.fires[m] = x.fires[m]
    BY <2>2, <2>3 DEF Halted
  <2>4. CASE x.fires[m].stage = "armed" /\ c.fires[m] = Over
    BY <2>2, <2>4, OverIs DEF Halted
  <2>. QED BY <2>2, <2>3, <2>4
<1>. QED BY <1>1, <1>2, <1>3 DEF Stopping, y

(* Pause, remove and disconnect leave a registration well formed.          *)
LEMMA StopOk ==
  ASSUME NEW x, NEW y, NEW h, NEW on, NEW nm, NEW h2, NEW on2, NEW nm2,
         JobOk(x, h, on, nm), x.used, Stopping(x, y),
         y.used = x.used, y.claim = x.claim, y.minted = x.minted, y.wait = x.wait,
         y.flight = x.flight, y.rearm = x.rearm, y.scope = x.scope, y.handle \in {0, x.handle},
         y.token \in {0, x.token}, y.until = x.until \/ y.token = 0,
         x.paused => y.paused,
         ~y.rushed => ~x.rushed /\ x.wait # "register",
         \/ y.removing = x.removing
         \/ /\ y.removing = TRUE /\ y.token = 0 /\ kind = "delay" /\ x.wait = "none"
            /\ ~y.rushed => ~x.rearm,
         ~x.paused /\ x.handle # 0 => y.fires[x.handle].stage # "armed"
  PROVE  Formed(y) /\ Flies(y) /\ Single(y, h2, on2, nm2) /\ (y # Lost => Quiet(x, y, 0))
<1>1. x \in Registrations /\ Len(x.fires) \in Nat /\ y \in Registrations
      /\ Len(y.fires) = Len(x.fires)
  BY FiresAre DEF JobOk, Formed, Stopping
<1>2. y.used
  BY Zenon
<1>3. \A m \in 1..Len(x.fires) : Halted(x.fires[m], y.fires[m])
  BY DEF Stopping
<1>4. Formed(y)
  <2>1. \A m \in 1..Len(y.fires) : /\ kind = "every" => y.fires[m].stage # "leave"
                                   /\ kind = "delay" => y.fires[m].stage # "slot"
    BY <1>1, <1>3 DEF JobOk, Formed, Halted
  <2>2. y.handle \in 0..Len(y.fires) /\ y.scope \in 0..Len(y.fires) /\ y.token \in 0..y.minted
    BY <1>1, FiresAre DEF JobOk, Formed
  <2>3. /\ kind = "every" => y.token = 0 /\ y.wait = "none" /\ ~y.removing
        /\ y.token # 0 => y.wait = "none" /\ ~y.removing /\ y.claim = "claimed"
        /\ y.wait = "register" => ~y.removing /\ y.claim = "failed"
        /\ y.wait = "resume" => y.paused
    BY DEF JobOk, Formed
  <2>4. y.rearm => y.flight
    <3>1. x.rearm => x.flight
      BY DEF JobOk, Formed
    <3>. QED BY <3>1, Zenon
  <2>. QED BY <1>1, <1>2, <2>1, <2>2, <2>3, <2>4, Zenon DEF Formed
<1>5. Flies(y)
  <2> SUFFICES ASSUME y.flight
               PROVE  \E m \in 1..Len(y.fires) : InFlight(y.fires[m])
    BY DEF Flies
  <2>1. x.flight
    BY Zenon
  <2>2. PICK m \in 1..Len(x.fires) : InFlight(x.fires[m])
    BY <2>1 DEF JobOk, Flies
  <2>. QED BY <2>2, <1>1, <1>3 DEF InFlight, Halted
<1>6. Single(y, h2, on2, nm2)
  <2> SUFFICES ASSUME ~y.rushed
               PROVE  /\ y.rearm /\ y.claim = "claimed" => ~y.removing
                      /\ y.wait # "register"
                      /\ \A m \in 1..Len(y.fires) : y.fires[m].stage # "over" =>
                           Alone(y, m, h2, on2, nm2) /\ y.fires[m].stage # "armed"
    BY DEF Single
  <2>1. ~x.rushed /\ x.wait # "register" /\ y.wait # "register"
    OBVIOUS
  <2>2. y.rearm /\ y.claim = "claimed" => ~y.removing
    <3>1. x.rearm /\ x.claim = "claimed" => ~x.removing
      BY <2>1 DEF JobOk, Single
    <3>2. CASE y.removing = x.removing
      BY <3>1, <3>2, Zenon
    <3>3. CASE ~x.rearm
      BY <3>3, Zenon
    <3>. QED BY <3>2, <3>3
  <2>3. ASSUME NEW m \in 1..Len(y.fires), y.fires[m].stage # "over"
        PROVE  Alone(y, m, h2, on2, nm2) /\ y.fires[m].stage # "armed"
    <3>1. m \in 1..Len(x.fires) /\ x.fires[m].stage # "over" /\ Halted(x.fires[m], y.fires[m])
      BY <2>3, <1>1, <1>3 DEF Halted
    <3>2. /\ Alone(x, m, h, on, nm)
          /\ x.fires[m].stage = "armed" => x.handle = m /\ ~x.paused
      BY <2>1, <3>1 DEF JobOk, Single
    <3>3. y.fires[m].aborted /\ y.scope = m /\ m = Len(y.fires)
      BY <2>3, <3>1, <3>2, <1>1 DEF Stopping, Alone
    <3>4. y.fires[m].stage # "armed"
      BY <3>1, <3>2 DEF Halted
    <3>5. y.flight
      <4>1. x.flight
        BY <2>3, <3>1, <3>2, <3>4 DEF Halted, Alone
      <4>. QED BY <4>1, Zenon
    <3>. QED BY <3>3, <3>4, <3>5 DEF Alone
  <2>. QED BY <2>1, <2>2, <2>3
<1>7. ASSUME y # Lost
      PROVE  Quiet(x, y, 0)
  <2>1. \A m \in 1..Len(x.fires) : Kept(x.fires[m], y.fires[m])
    BY <1>3 DEF Halted, Kept
  <2>. QED BY <1>1, <1>2, <1>7, <2>1 DEF Quiet
<1>. QED BY <1>4, <1>5, <1>6, <1>7

LEMMA HurriedIs ==
  ASSUME NEW x \in Registrations
  PROVE  LET y == Hurried(x)
         IN  /\ y \in Registrations /\ y.fires = x.fires
             /\ y.used = x.used /\ y.claim = x.claim /\ y.token = x.token /\ y.minted = x.minted
             /\ y.until = x.until /\ y.wait = x.wait /\ y.hasty = x.hasty /\ y.due = x.due
             /\ y.flight = x.flight /\ y.rearm = x.rearm /\ y.removing = x.removing
             /\ y.paused = x.paused /\ y.dropped = x.dropped /\ y.handle = x.handle
             /\ y.scope = x.scope /\ y.rushed = (x.rushed \/ x.wait = "register")
  BY DEF Hurried, Registrations

LEMMA ClearedAlike ==
  ASSUME NEW x \in Registrations, x.handle \in 0..Len(x.fires)
  PROVE  LET c == Cleared(x)
         IN  /\ c \in Registrations /\ Alike(x, c) /\ Len(c.fires) = Len(x.fires)
             /\ \A m \in 1..Len(x.fires) : \/ c.fires[m] = x.fires[m]
                                           \/ x.fires[m].stage = "armed" /\ c.fires[m] = Over
             /\ x.handle # 0 => c.fires[x.handle].stage # "armed"
<1> DEFINE c == Cleared(x)
<1>1. /\ c \in Registrations /\ c = [x EXCEPT !.fires = c.fires]
      /\ Len(c.fires) = Len(x.fires)
      /\ \A m \in 1..Len(x.fires) : \/ c.fires[m] = x.fires[m]
                                    \/ x.fires[m].stage = "armed" /\ c.fires[m] = Over
      /\ x.handle # 0 => c.fires[x.handle].stage # "armed"
  BY ClearedIs
<1> HIDE DEF c
<1>2. Alike(x, [x EXCEPT !.fires = c.fires])
  BY AlikeIs
<1>3. Alike(x, c)
  BY <1>1, <1>2, Zenon
<1>. QED BY <1>1, <1>3 DEF c

LEMMA PauseOk ==
  ASSUME NEW x, NEW h, NEW on, NEW nm, JobOk(x, h, on, nm), x.used
  PROVE  LET y == Hurried(Paused(x))
         IN  /\ JobOk(y, h, on, nm) /\ Quiet(x, y, 0) /\ y # Lost /\ y.removing = x.removing
             /\ y \in Registrations /\ y.token = x.token
             /\ \A m \in 1..Len(x.fires) : Halted(x.fires[m], y.fires[m])
<1> DEFINE b == IF x.paused THEN x ELSE [Cleared(x) EXCEPT !.handle = 0]
           c == [b EXCEPT !.paused = TRUE, !.hasty = x.wait = "resume"]
           a == Aborted(c)
           y == Hurried(a)
<1>1. y = Hurried(Paused(x))
  BY DEF Paused
<1>2. x \in Registrations /\ Len(x.fires) \in Nat /\ x.scope \in 0..Len(x.fires)
      /\ x.handle \in 0..Len(x.fires)
  BY FiresAre DEF JobOk, Formed
<1>3. /\ b \in Registrations /\ Len(b.fires) = Len(x.fires)
      /\ \A m \in 1..Len(x.fires) : \/ b.fires[m] = x.fires[m]
                                    \/ x.fires[m].stage = "armed" /\ b.fires[m] = Over
      /\ ~x.paused /\ x.handle # 0 => b.fires[x.handle].stage # "armed"
      /\ b.used = x.used /\ b.claim = x.claim /\ b.token = x.token /\ b.minted = x.minted
      /\ b.until = x.until /\ b.wait = x.wait /\ b.flight = x.flight /\ b.rearm = x.rearm
      /\ b.removing = x.removing /\ b.rushed = x.rushed /\ b.scope = x.scope
      /\ b.handle \in {0, x.handle}
  <2>1. CASE x.paused
    BY <2>1, <1>2
  <2>2. CASE ~x.paused
    <3> DEFINE d == Cleared(x)
    <3>1. /\ d \in Registrations /\ Alike(x, d) /\ Len(d.fires) = Len(x.fires)
          /\ \A m \in 1..Len(x.fires) : \/ d.fires[m] = x.fires[m]
                                        \/ x.fires[m].stage = "armed" /\ d.fires[m] = Over
          /\ x.handle # 0 => d.fires[x.handle].stage # "armed"
      BY <1>2, ClearedAlike
    <3>2. b = [d EXCEPT !.handle = 0]
      BY <2>2
    <3> HIDE DEF d, b
    <3>3. /\ b \in Registrations /\ b.fires = d.fires /\ b.handle = 0
          /\ b.used = d.used /\ b.claim = d.claim /\ b.token = d.token /\ b.minted = d.minted
          /\ b.until = d.until /\ b.wait = d.wait /\ b.flight = d.flight /\ b.rearm = d.rearm
          /\ b.removing = d.removing /\ b.rushed = d.rushed /\ b.scope = d.scope
      BY <3>1, <3>2 DEF Registrations
    <3>. QED BY <3>1, <3>3 DEF Alike
  <2>. QED BY <2>1, <2>2
<1> HIDE DEF b
<1>4. /\ c \in Registrations /\ c.fires = b.fires /\ c.paused = TRUE
      /\ c.used = x.used /\ c.claim = x.claim /\ c.token = x.token /\ c.minted = x.minted
      /\ c.until = x.until /\ c.wait = x.wait /\ c.flight = x.flight /\ c.rearm = x.rearm
      /\ c.removing = x.removing /\ c.rushed = x.rushed /\ c.scope = x.scope
      /\ c.handle \in {0, x.handle}
  BY <1>3 DEF Registrations
<1> HIDE DEF c
<1>5. /\ Stopping(x, a) /\ Alike(c, a)
      /\ \A m \in 1..Len(x.fires) : a.fires[m].stage = c.fires[m].stage
  BY <1>2, <1>3, <1>4, StoppingIs
<1> HIDE DEF a
<1>6. /\ y \in Registrations /\ y.fires = a.fires
      /\ y.used = a.used /\ y.claim = a.claim /\ y.token = a.token /\ y.minted = a.minted
      /\ y.until = a.until /\ y.wait = a.wait /\ y.flight = a.flight /\ y.rearm = a.rearm
      /\ y.removing = a.removing /\ y.paused = a.paused /\ y.handle = a.handle
      /\ y.scope = a.scope /\ y.rushed = (a.rushed \/ a.wait = "register")
  BY <1>5, HurriedIs DEF Stopping
<1> HIDE DEF y
<1>7. /\ y.used = x.used /\ y.claim = x.claim /\ y.token = x.token /\ y.minted = x.minted
      /\ y.until = x.until /\ y.wait = x.wait /\ y.flight = x.flight /\ y.rearm = x.rearm
      /\ y.removing = x.removing /\ y.paused = TRUE /\ y.handle \in {0, x.handle}
      /\ y.scope = x.scope /\ y.rushed = (x.rushed \/ x.wait = "register")
  BY <1>4, <1>5, <1>6 DEF Alike
<1>8. Stopping(x, y)
  BY <1>5, <1>6 DEF Stopping
<1>9. ~x.paused /\ x.handle # 0 => y.fires[x.handle].stage # "armed"
  BY <1>2, <1>3, <1>4, <1>5, <1>6
<1>10. ~y.rushed => ~x.rushed /\ x.wait # "register"
  BY <1>7
<1>11. /\ y.token \in {0, x.token} /\ (y.until = x.until \/ y.token = 0)
       /\ x.paused => y.paused
       /\ y.removing = x.removing
  BY <1>7
<1>12. y # Lost
  <2>1. Lost.paused = FALSE
    BY DEF Lost, Unused
  <2>. QED BY <2>1, <1>7
<1>13. Formed(y) /\ Flies(y) /\ Single(y, h, on, nm) /\ Quiet(x, y, 0)
  BY <1>7, <1>8, <1>9, <1>10, <1>11, <1>12, StopOk
<1>14. Going(y, h, on)
  BY <1>7 DEF JobOk, Going
<1>. QED BY <1>1, <1>6, <1>7, <1>8, <1>12, <1>13, <1>14 DEF JobOk, Stopping

LEMMA StoppedIs ==
  ASSUME NEW x, NEW h, NEW on, NEW nm, JobOk(x, h, on, nm), NEW z \in Registrations,
         Alike([x EXCEPT !.dropped = z.dropped], z), z.fires = x.fires
  PROVE  LET y == Stopped(z)
         IN  /\ Stopping(x, y)
             /\ y.used = x.used /\ y.claim = x.claim /\ y.token = x.token /\ y.minted = x.minted
             /\ y.until = x.until /\ y.wait = x.wait /\ y.flight = x.flight /\ y.rearm = x.rearm
             /\ y.removing = x.removing /\ y.paused = x.paused /\ y.handle = x.handle
             /\ y.scope = x.scope /\ y.dropped = z.dropped
             /\ y.rushed = (x.rushed \/ x.wait = "register")
             /\ x.handle # 0 => y.fires[x.handle].stage # "armed"
<1> DEFINE c == Cleared(z)
           a == Aborted(c)
           y == Hurried(a)
<1>1. x \in Registrations /\ Len(x.fires) \in Nat /\ x.scope \in 0..Len(x.fires)
      /\ x.handle \in 0..Len(x.fires)
  BY FiresAre DEF JobOk, Formed
<1>2. /\ z.used = x.used /\ z.claim = x.claim /\ z.token = x.token /\ z.minted = x.minted
      /\ z.until = x.until /\ z.wait = x.wait /\ z.flight = x.flight /\ z.rearm = x.rearm
      /\ z.removing = x.removing /\ z.paused = x.paused /\ z.handle = x.handle
      /\ z.scope = x.scope /\ z.rushed = x.rushed
  BY <1>1 DEF Registrations, Alike
<1>3. /\ c \in Registrations /\ Alike(z, c) /\ Len(c.fires) = Len(x.fires)
      /\ \A m \in 1..Len(x.fires) : \/ c.fires[m] = x.fires[m]
                                    \/ x.fires[m].stage = "armed" /\ c.fires[m] = Over
      /\ x.handle # 0 => c.fires[x.handle].stage # "armed"
  BY <1>1, <1>2, ClearedAlike
<1> HIDE DEF c
<1>4. c.scope = x.scope
  BY <1>2, <1>3 DEF Alike
<1>5. /\ Stopping(x, a) /\ Alike(c, a)
      /\ \A m \in 1..Len(x.fires) : a.fires[m].stage = c.fires[m].stage
  BY <1>1, <1>3, <1>4, StoppingIs
<1> HIDE DEF a
<1>6. /\ y \in Registrations /\ y.fires = a.fires
      /\ y.used = a.used /\ y.claim = a.claim /\ y.token = a.token /\ y.minted = a.minted
      /\ y.until = a.until /\ y.wait = a.wait /\ y.flight = a.flight /\ y.rearm = a.rearm
      /\ y.removing = a.removing /\ y.paused = a.paused /\ y.handle = a.handle
      /\ y.dropped = a.dropped
      /\ y.scope = a.scope /\ y.rushed = (a.rushed \/ a.wait = "register")
  BY <1>5, HurriedIs DEF Stopping
<1> HIDE DEF y
<1>7. /\ y.used = x.used /\ y.claim = x.claim /\ y.token = x.token /\ y.minted = x.minted
      /\ y.until = x.until /\ y.wait = x.wait /\ y.flight = x.flight /\ y.rearm = x.rearm
      /\ y.removing = x.removing /\ y.paused = x.paused /\ y.handle = x.handle
      /\ y.scope = x.scope /\ y.dropped = z.dropped
      /\ y.rushed = (x.rushed \/ x.wait = "register")
  BY <1>2, <1>3, <1>5, <1>6 DEF Alike
<1>8. Stopping(x, y)
  BY <1>5, <1>6 DEF Stopping
<1>9. x.handle # 0 => y.fires[x.handle].stage # "armed"
  BY <1>1, <1>3, <1>5, <1>6
<1>. QED BY <1>7, <1>8, <1>9 DEF y, a, c, Stopped

LEMMA RemovedIs ==
  ASSUME NEW x, NEW h, NEW on, NEW nm, JobOk(x, h, on, nm)
  PROVE  LET y == Removed(x)
         IN  /\ Stopping(x, y)
             /\ y.used = x.used /\ y.claim = x.claim /\ y.token = x.token /\ y.minted = x.minted
             /\ y.until = x.until /\ y.wait = x.wait /\ y.flight = x.flight /\ y.rearm = x.rearm
             /\ y.removing = x.removing /\ y.paused = x.paused /\ y.handle = x.handle
             /\ y.scope = x.scope /\ y.dropped = x.dropped
             /\ ~y.rushed => ~x.rushed /\ x.wait # "register" /\ ~x.rearm
             /\ x.handle # 0 => y.fires[x.handle].stage # "armed"
<1> DEFINE s == Stopped(x)
           y == Removed(x)
<1>1. x \in Registrations /\ x.rearm \in BOOLEAN
  BY DEF JobOk, Formed, Registrations
<1>2. Alike([x EXCEPT !.dropped = x.dropped], x)
  BY <1>1 DEF Alike, Registrations
<1>3. /\ Stopping(x, s)
      /\ s.used = x.used /\ s.claim = x.claim /\ s.token = x.token /\ s.minted = x.minted
      /\ s.until = x.until /\ s.wait = x.wait /\ s.flight = x.flight /\ s.rearm = x.rearm
      /\ s.removing = x.removing /\ s.paused = x.paused /\ s.handle = x.handle
      /\ s.scope = x.scope /\ s.dropped = x.dropped
      /\ s.rushed = (x.rushed \/ x.wait = "register")
      /\ x.handle # 0 => s.fires[x.handle].stage # "armed"
  BY <1>1, <1>2, StoppedIs
<1>4. y = [s EXCEPT !.rushed = @ \/ x.rearm]
  BY DEF Removed
<1> HIDE DEF s, y
<1>5. /\ y \in Registrations /\ y.fires = s.fires
      /\ y.used = s.used /\ y.claim = s.claim /\ y.token = s.token /\ y.minted = s.minted
      /\ y.until = s.until /\ y.wait = s.wait /\ y.flight = s.flight /\ y.rearm = s.rearm
      /\ y.removing = s.removing /\ y.paused = s.paused /\ y.handle = s.handle
      /\ y.scope = s.scope /\ y.dropped = s.dropped /\ y.rushed = (s.rushed \/ x.rearm)
  BY <1>1, <1>3, <1>4 DEF Stopping, Registrations
<1>6. Stopping(x, y)
  BY <1>3, <1>5 DEF Stopping
<1>7. ~y.rushed => ~x.rushed /\ x.wait # "register" /\ ~x.rearm
  BY <1>3, <1>5
<1>. QED BY <1>3, <1>5, <1>6, <1>7 DEF y

LEMMA UnheldIs ==
  ASSUME NEW x \in Registrations
  PROVE  LET y == Unheld(x)
         IN  /\ y \in Registrations /\ y.fires = x.fires /\ y.token = 0 /\ y.until = 0
             /\ y.used = x.used /\ y.claim = x.claim /\ y.minted = x.minted
             /\ y.wait = x.wait /\ y.flight = x.flight /\ y.rearm = x.rearm
             /\ y.removing = x.removing /\ y.paused = x.paused /\ y.handle = x.handle
             /\ y.scope = x.scope /\ y.dropped = x.dropped /\ y.rushed = x.rushed
             /\ y.hasty = x.hasty /\ y.due = x.due
  BY DEF Registrations, Unheld

(* remove() of a one-shot that holds its name: the delete is awaited.        *)
LEMMA RemoveOk ==
  ASSUME NEW x, NEW h, NEW on, NEW nm, JobOk(x, h, on, nm), kind \in {"every", "delay"},
         x.used, x.token # 0
  PROVE  LET y == [Unheld(Removed(x)) EXCEPT !.removing = TRUE]
         IN  JobOk(y, h, on, nm) /\ Quiet(x, y, 0) /\ y # Lost /\ y.removing /\ y.token = 0
<1> DEFINE s == Removed(x)
           u == Unheld(s)
           y == [u EXCEPT !.removing = TRUE]
<1>1. /\ Stopping(x, s)
      /\ s.used = x.used /\ s.claim = x.claim /\ s.token = x.token /\ s.minted = x.minted
      /\ s.until = x.until /\ s.wait = x.wait /\ s.flight = x.flight /\ s.rearm = x.rearm
      /\ s.removing = x.removing /\ s.paused = x.paused /\ s.handle = x.handle
      /\ s.scope = x.scope /\ s.dropped = x.dropped
      /\ ~s.rushed => ~x.rushed /\ x.wait # "register" /\ ~x.rearm
      /\ x.handle # 0 => s.fires[x.handle].stage # "armed"
  BY RemovedIs
<1> HIDE DEF s
<1>2. /\ u \in Registrations /\ u.fires = s.fires /\ u.token = 0 /\ u.until = 0
      /\ u.used = s.used /\ u.claim = s.claim /\ u.minted = s.minted
      /\ u.wait = s.wait /\ u.flight = s.flight /\ u.rearm = s.rearm
      /\ u.removing = s.removing /\ u.paused = s.paused /\ u.handle = s.handle
      /\ u.scope = s.scope /\ u.dropped = s.dropped /\ u.rushed = s.rushed
  BY <1>1, UnheldIs DEF Stopping
<1> HIDE DEF u
<1>3. /\ y \in Registrations /\ y.fires = u.fires /\ y.token = u.token /\ y.until = u.until
      /\ y.used = u.used /\ y.claim = u.claim /\ y.minted = u.minted
      /\ y.wait = u.wait /\ y.flight = u.flight /\ y.rearm = u.rearm
      /\ y.removing = TRUE /\ y.paused = u.paused /\ y.handle = u.handle
      /\ y.scope = u.scope /\ y.dropped = u.dropped /\ y.rushed = u.rushed
  BY <1>2 DEF Registrations
<1> HIDE DEF y
<1>4. Stopping(x, y)
  BY <1>1, <1>2, <1>3 DEF Stopping
<1>5. /\ y.used = x.used /\ y.claim = x.claim /\ y.minted = x.minted /\ y.wait = x.wait
      /\ y.flight = x.flight /\ y.rearm = x.rearm /\ y.scope = x.scope
      /\ y.paused = x.paused /\ y.dropped = x.dropped /\ y.rushed = s.rushed
      /\ y.handle = x.handle /\ y.token = 0 /\ y.removing = TRUE /\ x.wait = "none"
  BY <1>1, <1>2, <1>3 DEF JobOk, Formed
<1>6. kind = "delay"
  BY DEF JobOk, Formed
<1>7. ~y.rushed => ~x.rushed /\ x.wait # "register" /\ ~x.rearm
  BY <1>1, <1>5, Zenon
<1>8. ~x.paused /\ x.handle # 0 => y.fires[x.handle].stage # "armed"
  BY <1>1, <1>2, <1>3
<1>9. y # Lost
  BY <1>5, LostIs
<1>10. x.paused => y.paused
  BY <1>5
<1>11. /\ y.handle \in {0, x.handle} /\ y.token \in {0, x.token}
       /\ y.until = x.until \/ y.token = 0
       /\ ~y.rushed => ~x.rushed /\ x.wait # "register"
       /\ \/ y.removing = x.removing
          \/ /\ y.removing = TRUE /\ y.token = 0 /\ kind = "delay" /\ x.wait = "none"
             /\ ~y.rushed => ~x.rearm
  BY <1>5, <1>6, <1>7
<1>12. Formed(y) /\ Flies(y) /\ Single(y, h, on, nm) /\ Quiet(x, y, 0)
  BY <1>4, <1>5, <1>8, <1>9, <1>10, <1>11, StopOk
<1>13. Going(y, h, on)
  BY <1>5 DEF JobOk, Going
<1>. QED BY <1>5, <1>9, <1>12, <1>13 DEF JobOk, y, u, s

(* A registration that has left the registry is forgotten when it is over.   *)
LEMMA ForgottenOk ==
  ASSUME NEW x, NEW z, NEW on, NEW nm, x \in Registrations, x.used, JobOk(z, FALSE, on, nm),
         z.wait = x.wait, Len(z.fires) = Len(x.fires),
         \A m \in 1..Len(x.fires) : Halted(x.fires[m], z.fires[m]), z # Lost => Quiet(x, z, 0)
  PROVE  JobOk(Collected(z), FALSE, on, nm) /\ Quiet(x, Collected(z), 0)
<1>1. \/ Collected(z) = z
      \/ /\ Collected(z) = Lost /\ z.wait = "none"
         /\ \A k \in 1..Len(z.fires) : z.fires[k].stage = "over"
  BY CollectedIs DEF JobOk, Formed
<1>2. CASE Collected(z) = Lost
  <2>1. x.wait = "none" /\ \A k \in 1..Len(z.fires) : z.fires[k].stage = "over"
    <3>1. CASE z = Lost
      BY <3>1, LostIs
    <3>2. CASE z # Lost
      BY <1>1, <1>2, <3>2
    <3>. QED BY <3>1, <3>2
  <2>2. \A m \in 1..Len(x.fires) : x.fires[m].stage \in {"armed", "over"}
    BY <2>1 DEF Halted
  <2>. QED BY <1>2, <2>1, <2>2, LostOk DEF Quiet
<1>3. CASE Collected(z) = z /\ z # Lost
  BY <1>3
<1>. QED BY <1>1, <1>2, <1>3

LEMMA RemovedOk ==
  ASSUME NEW x, NEW h, NEW on, NEW nm, NEW on2, NEW nm2, JobOk(x, h, on, nm), x.used
  PROVE  JobOk(Collected(Removed(x)), FALSE, on2, nm2) /\ Quiet(x, Collected(Removed(x)), 0)
<1> DEFINE y == Removed(x)
<1>1. /\ Stopping(x, y)
      /\ y.used = x.used /\ y.claim = x.claim /\ y.token = x.token /\ y.minted = x.minted
      /\ y.until = x.until /\ y.wait = x.wait /\ y.flight = x.flight /\ y.rearm = x.rearm
      /\ y.removing = x.removing /\ y.paused = x.paused /\ y.handle = x.handle
      /\ y.scope = x.scope /\ y.dropped = x.dropped
      /\ ~y.rushed => ~x.rushed /\ x.wait # "register" /\ ~x.rearm
      /\ x.handle # 0 => y.fires[x.handle].stage # "armed"
  BY RemovedIs
<1> HIDE DEF y
<1>2. /\ y.handle \in {0, x.handle} /\ y.token \in {0, x.token}
      /\ y.until = x.until \/ y.token = 0
      /\ ~y.rushed => ~x.rushed /\ x.wait # "register"
      /\ \/ y.removing = x.removing
         \/ /\ y.removing = TRUE /\ y.token = 0 /\ kind = "delay" /\ x.wait = "none"
            /\ ~y.rushed => ~x.rearm
      /\ x.paused => y.paused
      /\ ~x.paused /\ x.handle # 0 => y.fires[x.handle].stage # "armed"
  BY <1>1
<1>3. Formed(y) /\ Flies(y) /\ Single(y, FALSE, on2, nm2) /\ (y # Lost => Quiet(x, y, 0))
  BY <1>1, <1>2, StopOk
<1>4. Going(y, FALSE, on2)
  BY DEF Going
<1>5. JobOk(y, FALSE, on2, nm2) /\ x \in Registrations
  BY <1>3, <1>4 DEF JobOk, Formed
<1>6. Len(y.fires) = Len(x.fires) /\ \A m \in 1..Len(x.fires) : Halted(x.fires[m], y.fires[m])
  BY <1>1 DEF Stopping
<1>. QED BY <1>1, <1>3, <1>5, <1>6, ForgottenOk DEF y

(* remove() goes on: the delete is answered, or given up.                    *)
LEMMA LeftOk ==
  ASSUME NEW x, NEW h, NEW on, NEW nm, NEW on2, NEW nm2, JobOk(x, h, on, nm), x.used,
         x.removing \/ ~h
  PROVE  LET z == Collected([x EXCEPT !.removing = FALSE])
         IN  JobOk(z, FALSE, on2, nm2) /\ Quiet(x, z, 0)
<1> DEFINE z == [x EXCEPT !.removing = FALSE]
<1>1. x \in Registrations /\ Len(x.fires) \in Nat
  BY FiresAre DEF JobOk, Formed
<1>2. /\ z \in Registrations /\ z.fires = x.fires /\ z.token = x.token /\ z.until = x.until
      /\ z.used = x.used /\ z.claim = x.claim /\ z.minted = x.minted
      /\ z.wait = x.wait /\ z.flight = x.flight /\ z.rearm = x.rearm
      /\ z.removing = FALSE /\ z.paused = x.paused /\ z.handle = x.handle
      /\ z.scope = x.scope /\ z.dropped = x.dropped /\ z.rushed = x.rushed
  BY <1>1 DEF Registrations
<1> HIDE DEF z
<1>3. z.used /\ ~z.removing
  BY <1>2, Zenon
<1>4. Formed(z)
  BY <1>2, <1>3 DEF JobOk, Formed
<1>5. Flies(z) /\ Going(z, FALSE, on2)
  BY <1>2 DEF JobOk, Flies, Going
<1>6. Single(z, FALSE, on2, nm2)
  <2> SUFFICES ASSUME ~x.rushed
               PROVE  /\ z.wait # "register"
                      /\ \A k \in 1..Len(z.fires) : z.fires[k].stage # "over" =>
                           /\ Alone(z, k, FALSE, on2, nm2)
                           /\ z.fires[k].stage = "armed" =>
                                z.handle = k /\ ~z.paused /\ ~z.flight /\ ~z.fires[k].aborted
    BY <1>2, <1>3 DEF Single
  <2>1. z.wait # "register"
    BY <1>2 DEF JobOk, Formed, Single
  <2>2. ASSUME NEW k \in 1..Len(x.fires), x.fires[k].stage # "over"
        PROVE  /\ Alone(z, k, FALSE, on2, nm2)
               /\ z.fires[k].stage = "armed" =>
                    z.handle = k /\ ~z.paused /\ ~z.flight /\ ~z.fires[k].aborted
    <3>1. /\ Alone(x, k, h, on, nm)
          /\ x.fires[k].stage = "armed" =>
               x.handle = k /\ ~x.paused /\ ~x.flight /\ ~x.fires[k].aborted
      BY <2>2 DEF JobOk, Single
    <3>. QED BY <3>1, <1>2 DEF Alone
  <2>. QED BY <2>1, <2>2, <1>2
<1>7. JobOk(z, FALSE, on2, nm2)
  BY <1>4, <1>5, <1>6 DEF JobOk
<1>8. \A m \in 1..Len(x.fires) : Halted(x.fires[m], z.fires[m])
  BY <1>2 DEF Halted
<1>9. z # Lost => Quiet(x, z, 0)
  <2>1. \A m \in 1..Len(x.fires) : Kept(x.fires[m], z.fires[m])
    BY <1>2 DEF Kept
  <2>. QED BY <2>1, <1>1, <1>2, <1>3 DEF Quiet
<1>. QED BY <1>1, <1>2, <1>7, <1>8, <1>9, ForgottenOk DEF z

(* disconnect(), for a job that it stops or does not know of.                *)
LEMMA DisconnectOk ==
  ASSUME NEW x, NEW h, NEW on, NEW nm, JobOk(x, h, on, nm), x.used
  PROVE  LET z == [x EXCEPT !.dropped = @ \/ ~x.paused]
             y == Unheld(Stopped(z))
         IN  JobOk(y, h, FALSE, FALSE) /\ (y # Lost => Quiet(x, y, 0)) /\ z.token = x.token
             /\ y.removing = x.removing /\ (x.scope # 0 => y # Lost) /\ y.token = 0
<1> DEFINE z == [x EXCEPT !.dropped = @ \/ ~x.paused]
           s == Stopped(z)
           y == Unheld(s)
<1>1. x \in Registrations /\ x.dropped \in BOOLEAN
  BY DEF JobOk, Formed, Registrations
<1>2. /\ z \in Registrations /\ z.fires = x.fires /\ z.dropped = (x.dropped \/ ~x.paused)
      /\ z.token = x.token
  BY <1>1 DEF Registrations
<1>3. Alike([x EXCEPT !.dropped = z.dropped], z)
  BY <1>1 DEF Alike, Registrations
<1> HIDE DEF z
<1>4. /\ Stopping(x, s)
      /\ s.used = x.used /\ s.claim = x.claim /\ s.token = x.token /\ s.minted = x.minted
      /\ s.until = x.until /\ s.wait = x.wait /\ s.flight = x.flight /\ s.rearm = x.rearm
      /\ s.removing = x.removing /\ s.paused = x.paused /\ s.handle = x.handle
      /\ s.scope = x.scope /\ s.dropped = z.dropped
      /\ s.rushed = (x.rushed \/ x.wait = "register")
      /\ x.handle # 0 => s.fires[x.handle].stage # "armed"
  BY <1>2, <1>3, StoppedIs
<1> HIDE DEF s
<1>5. /\ y \in Registrations /\ y.fires = s.fires /\ y.token = 0 /\ y.until = 0
      /\ y.used = s.used /\ y.claim = s.claim /\ y.minted = s.minted
      /\ y.wait = s.wait /\ y.flight = s.flight /\ y.rearm = s.rearm
      /\ y.removing = s.removing /\ y.paused = s.paused /\ y.handle = s.handle
      /\ y.scope = s.scope /\ y.dropped = s.dropped /\ y.rushed = s.rushed
  BY <1>4, UnheldIs DEF Stopping
<1> HIDE DEF y
<1>6. /\ y.used = x.used /\ y.claim = x.claim /\ y.minted = x.minted /\ y.wait = x.wait
      /\ y.flight = x.flight /\ y.rearm = x.rearm /\ y.scope = x.scope
      /\ y.paused = x.paused /\ y.dropped = (x.dropped \/ ~x.paused)
      /\ y.rushed = (x.rushed \/ x.wait = "register")
      /\ y.handle = x.handle /\ y.token = 0 /\ y.removing = x.removing
  BY <1>2, <1>4, <1>5
<1>7. Stopping(x, y)
  BY <1>4, <1>5 DEF Stopping
<1>8. /\ y.handle \in {0, x.handle} /\ y.token \in {0, x.token}
      /\ y.until = x.until \/ y.token = 0
      /\ ~y.rushed => ~x.rushed /\ x.wait # "register"
      /\ \/ y.removing = x.removing
         \/ /\ y.removing = TRUE /\ y.token = 0 /\ kind = "delay" /\ x.wait = "none"
            /\ ~y.rushed => ~x.rearm
      /\ x.paused => y.paused
      /\ ~x.paused /\ x.handle # 0 => y.fires[x.handle].stage # "armed"
  BY <1>4, <1>5, <1>6
<1>9. Formed(y) /\ Flies(y) /\ Single(y, h, FALSE, FALSE) /\ (y # Lost => Quiet(x, y, 0))
  BY <1>6, <1>7, <1>8, StopOk
<1>10. Going(y, h, FALSE)
  <2>1. y.used
    BY <1>6, Zenon
  <2>2. y.dropped \/ y.paused
    BY <1>6
  <2>. QED BY <2>1, <2>2 DEF Going
<1>11. x.scope # 0 => y # Lost
  BY <1>6, LostIs
<1>. QED BY <1>2, <1>6, <1>9, <1>10, <1>11 DEF JobOk, y, s, z

LEMMA UnstoppedOk ==
  ASSUME NEW x, NEW h, NEW on, NEW nm, JobOk(x, h, on, FALSE), x.used
  PROVE  LET y == Hurried([x EXCEPT !.dropped = @ \/ ~x.paused])
         IN  JobOk(y, h, FALSE, FALSE) /\ (y # Lost => Quiet(x, y, 0)) /\ y.removing = x.removing
<1> DEFINE z == [x EXCEPT !.dropped = @ \/ ~x.paused]
           y == Hurried(z)
<1>1. x \in Registrations /\ Len(x.fires) \in Nat /\ x.dropped \in BOOLEAN
  BY FiresAre DEF JobOk, Formed, Registrations
<1>2. /\ z \in Registrations /\ z.fires = x.fires /\ z.token = x.token /\ z.until = x.until
      /\ z.used = x.used /\ z.claim = x.claim /\ z.minted = x.minted
      /\ z.wait = x.wait /\ z.flight = x.flight /\ z.rearm = x.rearm
      /\ z.removing = x.removing /\ z.paused = x.paused /\ z.handle = x.handle
      /\ z.scope = x.scope /\ z.dropped = (x.dropped \/ ~x.paused) /\ z.rushed = x.rushed
  BY <1>1 DEF Registrations
<1> HIDE DEF z
<1>3. /\ y \in Registrations /\ y.fires = x.fires /\ y.token = x.token /\ y.until = x.until
      /\ y.used = x.used /\ y.claim = x.claim /\ y.minted = x.minted
      /\ y.wait = x.wait /\ y.flight = x.flight /\ y.rearm = x.rearm
      /\ y.removing = x.removing /\ y.paused = x.paused /\ y.handle = x.handle
      /\ y.scope = x.scope /\ y.dropped = (x.dropped \/ ~x.paused)
      /\ y.rushed = (x.rushed \/ x.wait = "register")
  <2>1. /\ y \in Registrations /\ y.fires = z.fires
        /\ y.used = z.used /\ y.claim = z.claim /\ y.token = z.token /\ y.minted = z.minted
        /\ y.until = z.until /\ y.wait = z.wait /\ y.flight = z.flight /\ y.rearm = z.rearm
        /\ y.removing = z.removing /\ y.paused = z.paused /\ y.handle = z.handle
        /\ y.scope = z.scope /\ y.dropped = z.dropped
        /\ y.rushed = (z.rushed \/ z.wait = "register")
    BY <1>2, HurriedIs
  <2> HIDE DEF y
  <2>. QED BY <2>1, <1>2
<1> HIDE DEF y
<1>4. y.used
  BY <1>3, Zenon
<1>5. Formed(y)
  BY <1>3, <1>4 DEF JobOk, Formed
<1>6. Flies(y) /\ Going(y, h, FALSE)
  <2>1. y.dropped \/ y.paused
    BY <1>3
  <2>. QED BY <2>1, <1>3, <1>4 DEF JobOk, Flies, Going
<1>7. Single(y, h, FALSE, FALSE)
  <2> SUFFICES ASSUME ~x.rushed, x.wait # "register"
               PROVE  /\ y.rearm /\ y.claim = "claimed" => ~y.removing
                      /\ \A k \in 1..Len(y.fires) : y.fires[k].stage # "over" =>
                           /\ Alone(y, k, h, FALSE, FALSE)
                           /\ y.fires[k].stage = "armed" =>
                                y.handle = k /\ ~y.paused /\ ~y.flight /\ ~y.fires[k].aborted
    BY <1>3 DEF Single
  <2>1. y.rearm /\ y.claim = "claimed" => ~y.removing
    BY <1>3 DEF JobOk, Single
  <2>2. ASSUME NEW k \in 1..Len(x.fires), x.fires[k].stage # "over"
        PROVE  /\ Alone(y, k, h, FALSE, FALSE)
               /\ y.fires[k].stage = "armed" =>
                    y.handle = k /\ ~y.paused /\ ~y.flight /\ ~y.fires[k].aborted
    <3>1. /\ Alone(x, k, h, on, FALSE)
          /\ x.fires[k].stage = "armed" =>
               x.handle = k /\ ~x.paused /\ ~x.flight /\ ~x.fires[k].aborted
      BY <2>2 DEF JobOk, Single
    <3>. QED BY <3>1, <1>3 DEF Alone
  <2>. QED BY <2>1, <2>2, <1>3
<1>8. y # Lost => Quiet(x, y, 0)
  <2>1. \A m \in 1..Len(x.fires) : Kept(x.fires[m], y.fires[m])
    BY <1>3 DEF Kept
  <2>. QED BY <2>1, <1>1, <1>3, <1>4 DEF Quiet
<1>. QED BY <1>3, <1>5, <1>6, <1>7, <1>8 DEF JobOk, y, z

(* connect() starts no timer.                                               *)
LEMMA ConnectOk ==
  ASSUME NEW x, NEW h, NEW nm, JobOk(x, h, FALSE, nm)
  PROVE  JobOk(x, h, TRUE, nm)
<1>1. Going(x, h, TRUE)
  BY DEF JobOk, Going
<1>2. Single(x, h, TRUE, nm)
  BY DEF JobOk, Single, Alone
<1>. QED BY <1>1, <1>2 DEF JobOk

(* every() and delay().                                                     *)
LEMMA EveryOk ==
  ASSUME now \in Nat, kind = "every", NEW r \in Replicas
  PROVE  LET y == Armed(Lost, NextSlot(r))
         IN  JobOk(y, TRUE, TRUE, TRUE) /\ ~y.removing
             /\ \A k \in 1..Len(y.fires) : y.fires[k].stage = "armed"
<1> DEFINE y == Resumed(r, Lost)
<1>1. Armed(Lost, NextSlot(r)) = y
  <2>1. \A x \in Registrations : x.paused = FALSE /\ x.dropped = FALSE =>
           [x EXCEPT !.paused = FALSE, !.dropped = FALSE] = x
    BY DEF Registrations
  <2>2. Lost.paused = FALSE /\ Lost.dropped = FALSE
    BY DEF Lost, Unused
  <2>3. [Lost EXCEPT !.paused = FALSE, !.dropped = FALSE] = Lost
    BY <2>1, <2>2, LostIs
  <2>. QED BY <2>3 DEF Resumed, NextDue
<1>2. Formed(Lost)
  BY LostOk DEF JobOk
<1>3. ~Lost.flight /\ Lost.used /\ Lost.wait # "resume" /\ Lost.wait # "register" /\ Lost.removing = FALSE
      /\ ~Lost.removing
      /\ \A m \in 1..Len(Lost.fires) : Lost.fires[m].stage = "over"
  BY LostIs
<1>4. JobOk(y, TRUE, TRUE, TRUE)
  BY <1>2, <1>3, ResumedOk
<1>5. y.removing = Lost.removing /\ Len(y.fires) = 1 /\ y.fires[1].stage = "armed"
  <2> DEFINE n == Len(Lost.fires) + 1
  <2>1. /\ Len(y.fires) = n /\ y.fires[n].stage = "armed" /\ Rest(Lost, y)
    <3>1. Lost \in Registrations
      BY LostIs
    <3>. QED BY <3>1, ResumedIs
  <2>2. n = 1
    BY LostIs
  <2> HIDE DEF y, n
  <2>. QED BY <2>1, <2>2 DEF Rest
<1> HIDE DEF y
<1>6. ~y.removing
  BY <1>3, <1>5, Zenon
<1>7. \A k \in 1..Len(y.fires) : y.fires[k].stage = "armed"
  BY <1>5
<1>. QED BY <1>1, <1>4, <1>6, <1>7

LEMMA DelayOk ==
  ASSUME NEW due \in Nat, kind = "delay", NEW nm
  PROVE  LET y == [Unused EXCEPT !.used = TRUE, !.minted = 1, !.wait = "register", !.due = due]
         IN  JobOk(y, TRUE, TRUE, nm) /\ y.fires = <<>> /\ ~y.removing /\ y.minted = 1
             /\ y.token = 0 /\ y.wait = "register" /\ y.used /\ y # Lost
<1> DEFINE y == [Unused EXCEPT !.used = TRUE, !.minted = 1, !.wait = "register", !.due = due]
<1>1. /\ y \in Registrations /\ y.used = TRUE /\ y.minted = 1 /\ y.wait = "register"
      /\ y.fires = <<>> /\ y.token = 0 /\ y.flight = FALSE /\ y.rearm = FALSE
      /\ y.removing = FALSE /\ y.paused = FALSE /\ y.claim = "failed" /\ y.handle = 0
      /\ y.scope = 0
  <2>1. <<>> \in Seq(Tries)
    OBVIOUS
  <2>. QED BY <2>1 DEF Unused, Registrations
<1>2. Len(<<>>) = 0
  OBVIOUS
<1> HIDE DEF y
<1>3. y # Lost
  BY <1>1, LostIs
<1>4. JobOk(y, TRUE, TRUE, nm)
  BY <1>1, <1>2 DEF JobOk, Formed, Flies, Going, Single
<1>. QED BY <1>1, <1>3, <1>4 DEF y

(* resume(): the job is armed, now or when its fire in flight has settled.    *)
LEMMA RearmedOk ==
  ASSUME now \in Nat, kind \in {"every", "delay"}, NEW r \in Replicas, NEW nm, NEW nm2,
         NEW x, JobOk(x, TRUE, TRUE, nm), x.paused, x.used, x.wait # "resume",
         x.claim = "claimed" => ~x.removing, nm2 <=> (IF x.flight THEN nm ELSE TRUE)
  PROVE  LET y == Rearmed(r, x)
         IN  JobOk(y, TRUE, TRUE, nm2) /\ Quiet(x, y, 0) /\ y # Lost /\ y.removing = x.removing
<1>0. x \in Registrations /\ Len(x.fires) \in Nat
  BY FiresAre DEF JobOk, Formed
<1>1. ASSUME ~x.rushed
      PROVE  /\ x.wait # "register"
             /\ \A m \in 1..Len(x.fires) : x.fires[m].stage # "over" =>
                  /\ Alone(x, m, TRUE, TRUE, nm) /\ x.fires[m].stage # "armed"
                  /\ x.flight
  <2>1. x.wait # "register"
    BY <1>1 DEF JobOk, Single
  <2>2. ASSUME NEW m \in 1..Len(x.fires), x.fires[m].stage # "over"
        PROVE  /\ Alone(x, m, TRUE, TRUE, nm) /\ x.fires[m].stage # "armed"
               /\ x.flight
    <3>1. /\ Alone(x, m, TRUE, TRUE, nm)
          /\ x.fires[m].stage = "armed" => ~x.paused
      BY <1>1, <2>2 DEF JobOk, Single
    <3>. QED BY <3>1 DEF Alone
  <2>. QED BY <2>1, <2>2
<1>2. CASE ~x.flight
  <2> DEFINE y == Resumed(r, x)
  <2>1. Rearmed(r, x) = y
    BY <1>2 DEF Rearmed
  <2>2. ~x.rushed => /\ x.claim = "claimed" => ~x.removing
                     /\ x.wait # "register"
                     /\ \A m \in 1..Len(x.fires) : x.fires[m].stage = "over"
    BY <1>1, <1>2
  <2>3. Formed(x)
    BY DEF JobOk
  <2>4. JobOk(y, TRUE, TRUE, TRUE) /\ Quiet(x, y, 0) /\ y # Lost
    BY <1>2, <2>2, <2>3, ResumedOk
  <2>5. y.removing = x.removing
    BY <1>0, ResumedIs DEF Rest
  <2> HIDE DEF y
  <2>6. JobOk(y, TRUE, TRUE, nm2)
    BY <1>2, <2>4, MoreOk
  <2>. QED BY <2>1, <2>4, <2>5, <2>6
<1>3. CASE x.flight
  <2> DEFINE y == [x EXCEPT !.paused = FALSE, !.dropped = FALSE, !.rearm = TRUE]
  <2>1. Rearmed(r, x) = y
    BY <1>3 DEF Rearmed
  <2>2. /\ y \in Registrations /\ y.fires = x.fires /\ y.token = x.token /\ y.until = x.until
        /\ y.used = x.used /\ y.claim = x.claim /\ y.minted = x.minted
        /\ y.wait = x.wait /\ y.flight = x.flight /\ y.rearm = TRUE
        /\ y.removing = x.removing /\ y.paused = FALSE /\ y.handle = x.handle
        /\ y.scope = x.scope /\ y.dropped = FALSE /\ y.rushed = x.rushed
    BY <1>0 DEF Registrations
  <2> HIDE DEF y
  <2>3. y.used /\ y.flight /\ ~y.paused
    BY <2>2, <1>3, Zenon
  <2>4. y # Lost
    BY <2>2, LostIs
  <2>5. Formed(y)
    BY <2>2, <2>3 DEF JobOk, Formed
  <2>6. PICK m \in 1..Len(x.fires) : InFlight(x.fires[m])
    BY <1>3 DEF JobOk, Flies
  <2>7. Flies(y) /\ Going(y, TRUE, TRUE)
    BY <2>2, <2>3, <2>6 DEF Flies, Going, InFlight
  <2>8. Single(y, TRUE, TRUE, nm)
    <3> SUFFICES ASSUME ~x.rushed
                 PROVE  /\ y.claim = "claimed" => ~y.removing
                        /\ y.wait # "register"
                        /\ \A k \in 1..Len(y.fires) : y.fires[k].stage # "over" =>
                             Alone(y, k, TRUE, TRUE, nm) /\ y.fires[k].stage # "armed"
      BY <2>2 DEF Single
    <3>1. (y.claim = "claimed" => ~y.removing) /\ y.wait # "register"
      BY <1>1, <2>2
    <3>2. ASSUME NEW k \in 1..Len(x.fires), x.fires[k].stage # "over"
          PROVE  Alone(y, k, TRUE, TRUE, nm) /\ y.fires[k].stage # "armed"
      <4>1. Alone(x, k, TRUE, TRUE, nm) /\ x.fires[k].stage # "armed"
        BY <1>1, <3>2
      <4>2. x.fires[k].aborted
        BY <4>1 DEF Alone
      <4>. QED BY <4>1, <4>2, <2>2, <2>3 DEF Alone
    <3>. QED BY <3>1, <3>2, <2>2
  <2>9. Quiet(x, y, 0)
    <3>1. \A k \in 1..Len(x.fires) : Kept(x.fires[k], y.fires[k])
      BY <2>2 DEF Kept
    <3>. QED BY <3>1, <1>0, <2>2, <2>3, <2>4 DEF Quiet
  <2>10. JobOk(y, TRUE, TRUE, nm)
    BY <2>5, <2>7, <2>8 DEF JobOk
  <2>11. JobOk(y, TRUE, TRUE, nm2)
    BY <1>3, <2>10, MoreOk
  <2>. QED BY <2>1, <2>2, <2>4, <2>9, <2>11
<1>. QED BY <1>2, <1>3

(* resume() of a one-shot that gave its name back: it claims it again.       *)
Reclaimed(x) == [x EXCEPT !.minted = @ + 1, !.wait = "resume", !.hasty = FALSE]
Reclaims(x, nm) ==
  /\ JobOk(x, TRUE, TRUE, nm) /\ x.paused /\ x.used /\ x.claim = "claimed"
  /\ x.token = 0 /\ x.wait # "resume" /\ kind = "delay"

LEMMA ReclaimOk ==
  ASSUME NEW nm, NEW x, Reclaims(x, nm)
  PROVE  LET y == Reclaimed(x)
         IN  /\ JobOk(y, TRUE, TRUE, nm) /\ y # Lost /\ y.removing = x.removing /\ x.wait = "none"
             /\ y.used /\ y.fires = x.fires /\ y.minted = x.minted + 1 /\ y.token = 0
             /\ y.wait = "resume"
<1> DEFINE y == [x EXCEPT !.minted = @ + 1, !.wait = "resume", !.hasty = FALSE]
<1>h. /\ JobOk(x, TRUE, TRUE, nm) /\ x.paused /\ x.used /\ x.claim = "claimed"
      /\ x.token = 0 /\ x.wait # "resume" /\ kind = "delay"
  BY DEF Reclaims
<1> USE <1>h
<1>0. x \in Registrations /\ x.minted \in Nat
  BY FiresAre DEF JobOk, Formed
<1>1. x.wait = "none"
  BY <1>0 DEF JobOk, Formed, Registrations
<1>2. /\ y \in Registrations /\ y.fires = x.fires /\ y.token = x.token /\ y.until = x.until
      /\ y.used = x.used /\ y.claim = x.claim /\ y.minted = x.minted + 1
      /\ y.wait = "resume" /\ y.flight = x.flight /\ y.rearm = x.rearm
      /\ y.removing = x.removing /\ y.paused = x.paused /\ y.handle = x.handle
      /\ y.scope = x.scope /\ y.dropped = x.dropped /\ y.rushed = x.rushed
  <2> DEFINE n == x.minted + 1
  <2>1. n \in Nat
    BY <1>0
  <2> HIDE DEF n
  <2>2. LET z == [x EXCEPT !.minted = n, !.wait = "resume", !.hasty = FALSE]
        IN  /\ z \in Registrations /\ z.fires = x.fires /\ z.token = x.token /\ z.until = x.until
            /\ z.used = x.used /\ z.claim = x.claim /\ z.minted = n
            /\ z.wait = "resume" /\ z.flight = x.flight /\ z.rearm = x.rearm
            /\ z.removing = x.removing /\ z.paused = x.paused /\ z.handle = x.handle
            /\ z.scope = x.scope /\ z.dropped = x.dropped /\ z.rushed = x.rushed
    BY ONLY <1>0, <2>1 DEF Registrations
  <2>. QED BY <2>2 DEF n
<1> HIDE DEF y
<1>3. y.used /\ y.paused
  BY <1>2, Zenon
<1>4. y # Lost
  BY <1>2, LostIs
<1>5. Formed(y)
  BY <1>0, <1>2, <1>3 DEF JobOk, Formed
<1>6. Flies(y) /\ Going(y, TRUE, TRUE)
  BY <1>2, <1>3 DEF JobOk, Flies, Going
<1>7. Single(y, TRUE, TRUE, nm)
  <2>1. ASSUME NEW k, Alone(x, k, TRUE, TRUE, nm)
        PROVE  Alone(y, k, TRUE, TRUE, nm)
    BY <2>1, <1>2 DEF Alone
  <2>. QED BY <2>1, <1>2 DEF JobOk, Single
<1>. QED BY <1>1, <1>2, <1>3, <1>4, <1>5, <1>6, <1>7 DEF JobOk, y, Reclaimed

(* #claimDelaySlot is answered.                                             *)
Answered(x, t, u, c) == [x EXCEPT !.wait = "none", !.token = t, !.until = u, !.claim = c]
Reply(x, t, u, c) == /\ x \in Registrations /\ t \in Nat /\ u \in Nat
                       /\ c \in {"claimed", "contended", "failed"}

LEMMA AnsweredIs ==
  ASSUME NEW x, NEW t, NEW u, NEW c, Reply(x, t, u, c)
  PROVE  LET y == Answered(x, t, u, c)
         IN  /\ y \in Registrations /\ y.fires = x.fires /\ y.token = t /\ y.until = u
             /\ y.used = x.used /\ y.claim = c /\ y.minted = x.minted
             /\ y.wait = "none" /\ y.flight = x.flight /\ y.rearm = x.rearm
             /\ y.removing = x.removing /\ y.paused = x.paused /\ y.handle = x.handle
             /\ y.scope = x.scope /\ y.dropped = x.dropped /\ y.rushed = x.rushed
             /\ y.due = x.due
  BY DEF Registrations, Answered, Reply

LEMMA AnsweredOk ==
  ASSUME NEW x, NEW h, NEW on, NEW nm, JobOk(x, h, on, nm), x.used, x.wait = "resume",
         kind \in {"every", "delay"},
         NEW t \in 0..x.minted, NEW u \in Nat, NEW c \in {"claimed", "contended", "failed"},
         c = "claimed" => ~x.removing, t # 0 => c = "claimed"
  PROVE  LET y == Answered(x, t, u, c)
         IN  JobOk(y, h, on, nm) /\ y.paused /\ y.used
<1> DEFINE y == Answered(x, t, u, c)
<1>0. x \in Registrations /\ x.minted \in Nat /\ x.paused /\ kind = "delay"
  BY FiresAre DEF JobOk, Formed
<1>1. /\ y \in Registrations /\ y.fires = x.fires /\ y.token = t /\ y.until = u
      /\ y.used = x.used /\ y.claim = c /\ y.minted = x.minted
      /\ y.wait = "none" /\ y.flight = x.flight /\ y.rearm = x.rearm
      /\ y.removing = x.removing /\ y.paused = x.paused /\ y.handle = x.handle
      /\ y.scope = x.scope /\ y.dropped = x.dropped /\ y.rushed = x.rushed
  <2>1. Reply(x, t, u, c)
    BY <1>0 DEF Reply
  <2>. QED BY ONLY <2>1, AnsweredIs
<1> HIDE DEF y
<1>2. y.used /\ y.paused
  BY <1>0, <1>1, Zenon
<1>3. Formed(y)
  <2>1. y.rearm => y.flight
    <3>1. x.rearm => x.flight
      BY DEF JobOk, Formed
    <3>. QED BY <3>1, <1>1, Zenon
  <2>2. y.token # 0 => y.wait = "none" /\ ~y.removing /\ y.claim = "claimed"
    <3>1. y.token # 0 => ~y.removing
      BY <1>1
    <3>. QED BY <3>1, <1>1
  <2>. QED BY <1>0, <1>1, <1>2, <2>1, <2>2 DEF JobOk, Formed
<1>4. Flies(y) /\ Going(y, h, on)
  BY <1>1, <1>2 DEF JobOk, Flies, Going
<1>5. Single(y, h, on, nm)
  <2> SUFFICES ASSUME ~x.rushed
               PROVE  /\ y.rearm /\ y.claim = "claimed" => ~y.removing
                      /\ \A k \in 1..Len(y.fires) : y.fires[k].stage # "over" =>
                           Alone(y, k, h, on, nm) /\ y.fires[k].stage # "armed"
    BY <1>1 DEF Single
  <2>1. y.rearm /\ y.claim = "claimed" => ~y.removing
    <3>1. y.claim = "claimed" => ~y.removing
      BY <1>1
    <3>. QED BY <3>1
  <2>2. ASSUME NEW k \in 1..Len(x.fires), x.fires[k].stage # "over"
        PROVE  Alone(y, k, h, on, nm) /\ y.fires[k].stage # "armed"
    <3>1. Alone(x, k, h, on, nm) /\ (x.fires[k].stage = "armed" => ~x.paused)
      BY <2>2 DEF JobOk, Single
    <3>2. x.fires[k].stage # "armed" /\ x.fires[k].aborted
      BY <3>1, <1>0 DEF Alone
    <3>. QED BY <3>1, <3>2, <1>1 DEF Alone
  <2>. QED BY <2>1, <2>2, <1>1
<1>. QED BY <1>2, <1>3, <1>4, <1>5 DEF JobOk, y

(* A registered one-shot whose name was claimed, or not, is armed.           *)
LEMMA StartedOk ==
  ASSUME NEW x, NEW h, NEW on, NEW nm, JobOk(x, h, on, nm), x.used, x.wait = "register",
         kind \in {"every", "delay"},
         NEW t \in 0..x.minted, NEW u \in Nat, NEW c \in {"claimed", "contended", "failed"},
         t # 0 => c = "claimed"
  PROVE  LET z == Answered(x, t, u, c)
             y == Armed(z, x.due)
         IN  JobOk(y, h, on, TRUE) /\ Quiet(z, y, 0) /\ y # Lost /\ y.removing = x.removing
<1> DEFINE z == Answered(x, t, u, c)
           y == Armed(z, x.due)
           n == Len(x.fires) + 1
<1>0. /\ x \in Registrations /\ x.minted \in Nat /\ kind = "delay" /\ Len(x.fires) \in Nat
      /\ ~x.removing /\ x.due \in Nat
  BY FiresAre DEF JobOk, Formed
<1>1. /\ z \in Registrations /\ z.fires = x.fires /\ z.token = t /\ z.until = u
      /\ z.used = x.used /\ z.claim = c /\ z.minted = x.minted
      /\ z.wait = "none" /\ z.flight = x.flight /\ z.rearm = x.rearm
      /\ z.removing = x.removing /\ z.paused = x.paused /\ z.handle = x.handle
      /\ z.scope = x.scope /\ z.dropped = x.dropped /\ z.rushed = x.rushed
  <2>1. Reply(x, t, u, c)
    BY <1>0 DEF Reply
  <2>. QED BY ONLY <2>1, AnsweredIs
<1> HIDE DEF z
<1>2. /\ y \in Registrations
      /\ y.handle = n /\ y.scope = n /\ Len(y.fires) = n
      /\ y.fires[n].stage = "armed" /\ ~y.fires[n].aborted
      /\ \A m \in 1..Len(x.fires) : y.fires[m] = x.fires[m]
      /\ Rest(z, y) /\ y.paused = z.paused /\ y.dropped = z.dropped
  <2>1. Len(z.fires) = Len(x.fires)
    BY <1>1
  <2>2. LET m == Len(z.fires) + 1
        IN  /\ y \in Registrations
            /\ y.handle = m /\ y.scope = m /\ Len(y.fires) = m
            /\ y.fires[m].stage = "armed" /\ ~y.fires[m].aborted
            /\ \A i \in 1..Len(z.fires) : y.fires[i] = z.fires[i]
            /\ Rest(z, y) /\ y.paused = z.paused /\ y.dropped = z.dropped
    <3>1. z \in Registrations /\ x.due \in Nat
      BY <1>0, <1>1
    <3>. QED BY ONLY <3>1, ArmedIs
  <2> HIDE DEF y
  <2>. QED BY <2>1, <2>2, <1>1
<1> HIDE DEF y
<1>3. /\ y.token = t /\ y.until = u /\ y.used = x.used /\ y.claim = c /\ y.minted = x.minted
      /\ y.wait = "none" /\ y.flight = x.flight /\ y.rearm = x.rearm
      /\ y.removing = x.removing /\ y.paused = x.paused /\ y.dropped = x.dropped
      /\ y.rushed = x.rushed
  BY <1>1, <1>2 DEF Rest
<1>4. y.used /\ y # Lost /\ ~y.removing
  <2>1. y # Lost
    BY <1>0, <1>2, LostIs
  <2>2. y.used /\ ~y.removing
    BY <1>0, <1>3, Zenon
  <2>. QED BY <2>1, <2>2
<1>5. Formed(y)
  <2>1. y.rearm => y.flight
    <3>1. x.rearm => x.flight
      BY DEF JobOk, Formed
    <3>. QED BY <3>1, <1>3, Zenon
  <2>2. y.token # 0 => y.wait = "none" /\ ~y.removing /\ y.claim = "claimed"
    BY <1>3, <1>4
  <2>3. \A k \in 1..Len(y.fires) : /\ kind = "every" => y.fires[k].stage # "leave"
                                   /\ kind = "delay" => y.fires[k].stage # "slot"
    <3>1. \A k \in 1..Len(x.fires) : x.fires[k].stage # "slot"
      BY <1>0 DEF JobOk, Formed
    <3>2. ASSUME NEW k \in 1..n
          PROVE  y.fires[k].stage # "slot"
      <4>1. CASE k = n
        BY <4>1, <1>2
      <4>2. CASE k # n
        BY <4>2, <3>1, <1>0, <1>2
      <4>. QED BY <4>1, <4>2
    <3>. QED BY <3>2, <1>0, <1>2
  <2>. QED BY <1>0, <1>2, <1>3, <1>4, <2>1, <2>2, <2>3 DEF Formed
<1>6. Flies(y)
  <2> SUFFICES ASSUME y.flight
               PROVE  \E k \in 1..Len(y.fires) : InFlight(y.fires[k])
    BY DEF Flies
  <2>1. x.flight
    BY <1>3, Zenon
  <2>2. PICK k \in 1..Len(x.fires) : InFlight(x.fires[k])
    BY <2>1 DEF JobOk, Flies
  <2>. QED BY <2>2, <1>0, <1>2
<1>7. Going(y, h, on)
  <2>1. n \in 1..Len(y.fires) /\ y.fires[n].stage # "over" /\ ~y.fires[n].aborted
    BY <1>0, <1>2
  <2>. QED BY <2>1, <1>3, <1>4 DEF JobOk, Going
<1>8. Single(y, h, on, TRUE)
  <2> SUFFICES ASSUME ~x.rushed
               PROVE  /\ y.rearm /\ y.claim = "claimed" => ~y.removing
                      /\ \A k \in 1..Len(y.fires) : y.fires[k].stage # "over" =>
                           /\ Alone(y, k, h, on, TRUE)
                           /\ y.handle = k /\ ~y.paused /\ ~y.flight /\ ~y.fires[k].aborted
    BY <1>3 DEF Single
  <2>1. h /\ on /\ ~x.paused /\ \A k \in 1..Len(x.fires) : x.fires[k].stage = "over"
    BY DEF JobOk, Single
  <2>2. ~x.flight /\ ~x.rearm
    <3>1. ~x.flight
      BY <2>1 DEF JobOk, Flies, InFlight
    <3>. QED BY <3>1 DEF JobOk, Formed
  <2>3. \A k \in 1..Len(y.fires) : y.fires[k].stage # "over" => k = n
    BY <1>0, <1>2, <2>1
  <2>4. ~y.paused /\ ~y.flight /\ ~y.rearm
    BY <2>1, <2>2, <1>3, Zenon
  <2>5. Alone(y, n, h, on, TRUE)
    BY <2>1, <2>4, <1>2, <1>4 DEF Alone
  <2>. QED BY <2>3, <2>4, <2>5, <1>2, <1>4
<1>9. Quiet(z, y, 0)
  <2>1. /\ Len(z.fires) = Len(x.fires) /\ z.fires = x.fires
        /\ y.minted = z.minted /\ y.token = z.token /\ y.until = z.until /\ y.wait = z.wait
    BY <1>1, <1>3
  <2>2. \A m \in 1..Len(z.fires) : Kept(z.fires[m], y.fires[m])
    BY <1>2, <2>1 DEF Kept
  <2>3. \A m \in (Len(z.fires) + 1)..Len(y.fires) : y.fires[m].stage \in {"armed", "over"}
    BY <1>0, <1>2, <2>1
  <2>. QED BY <1>0, <1>2, <1>4, <2>1, <2>2, <2>3 DEF Quiet
<1>. QED BY <1>3, <1>4, <1>5, <1>6, <1>7, <1>8, <1>9 DEF JobOk, y, z

(* A resume that found its job stopped meanwhile gives the name back.         *)
LEMMA UnheldOk ==
  ASSUME NEW x, NEW h, NEW on, NEW nm, JobOk(x, h, on, nm), x.used, x.paused
  PROVE  LET y == Unheld(x)
         IN  /\ JobOk(y, h, on, nm) /\ (y # Lost => Quiet(x, y, 0)) /\ y # Lost
             /\ y.removing = x.removing /\ y.wait = x.wait /\ Len(y.fires) = Len(x.fires)
             /\ \A m \in 1..Len(x.fires) : Halted(x.fires[m], y.fires[m])
<1> DEFINE y == Unheld(x)
<1>0. x \in Registrations /\ Len(x.fires) \in Nat /\ x.minted \in Nat
  BY FiresAre DEF JobOk, Formed
<1>1. /\ y \in Registrations /\ y.fires = x.fires /\ y.token = 0 /\ y.until = 0
      /\ y.used = x.used /\ y.claim = x.claim /\ y.minted = x.minted
      /\ y.wait = x.wait /\ y.flight = x.flight /\ y.rearm = x.rearm
      /\ y.removing = x.removing /\ y.paused = x.paused /\ y.handle = x.handle
      /\ y.scope = x.scope /\ y.dropped = x.dropped /\ y.rushed = x.rushed
  BY <1>0, UnheldIs
<1> HIDE DEF y
<1>2. y.used /\ y.paused /\ y # Lost
  <2>1. y.used /\ y.paused
    BY <1>1, Zenon
  <2>2. Lost.paused = FALSE
    BY DEF Lost, Unused
  <2>. QED BY <2>1, <2>2
<1>3. Formed(y)
  BY <1>0, <1>1, <1>2 DEF JobOk, Formed
<1>4. Flies(y) /\ Going(y, h, on)
  BY <1>1, <1>2 DEF JobOk, Flies, Going
<1>5. Single(y, h, on, nm)
  <2>1. ASSUME NEW k, Alone(x, k, h, on, nm)
        PROVE  Alone(y, k, h, on, nm)
    BY <2>1, <1>1 DEF Alone
  <2>. QED BY <2>1, <1>1 DEF JobOk, Single
<1>6. Quiet(x, y, 0) /\ \A m \in 1..Len(x.fires) : Halted(x.fires[m], y.fires[m])
  <2>1. \A k \in 1..Len(x.fires) : Kept(x.fires[k], y.fires[k]) /\ Halted(x.fires[k], y.fires[k])
    BY <1>1 DEF Kept, Halted
  <2>. QED BY <2>1, <1>0, <1>1, <1>2 DEF Quiet
<1>. QED BY <1>1, <1>2, <1>3, <1>4, <1>5, <1>6 DEF JobOk, y
-----------------------------------------------------------------------------
(* The commands of a replica.  One of these is awaited by a fire or a claim.  *)
Waiting == {"slot", "mutex", "release", "claim"}
SameToken(c, d) == c.key = d.key /\ c.job = d.job /\ c.n = d.n

CmdForm(r, c) ==
  /\ c \in Commands /\ Owner[c.job] = r
  /\ c.op = "set" => c.for \in {"slot", "mutex", "claim", "nobody", "late"}
  /\ c.op = "del" => c.for \in {"release", "remove", "leave", "nobody"} /\ c.until = 0
  /\ c.for = "nobody" => ~c.done
  /\ ~c.done => c.until = 0
  /\ c.key # "slot" => c.slot = 0
  /\ c.for = "slot" => c.key = "slot"
  /\ c.key = "slot" => c.for \in {"slot", "late", "nobody"}
  /\ c.for \in {"mutex", "release"} => c.key = "mutex"
  /\ c.for \in {"claim", "remove", "leave"} => c.key = "once"
  /\ c.until > 0 => Lease(c) <= c.until

(* What a command says of its registration: a fire that waits for it is at     *)
(* that stage, and a fire that is over is waited for by nobody.                *)
CmdFits(x, c) ==
  /\ x.used
  /\ \/ x = Lost /\ c.for \in {"late", "nobody", "remove", "leave"}
     \/ /\ c.key = "slot" /\ c.n \in 1..Len(x.fires)
        /\ \/ c.for = "slot" /\ x.fires[c.n].stage = "slot" /\ c.slot = x.fires[c.n].due
           \/ c.for # "slot" /\ x.fires[c.n].stage = "over"
     \/ /\ c.key = "mutex" /\ c.n \in 1..Len(x.fires)
        /\ \/ c.for \in {"mutex", "release"} /\ x.fires[c.n].stage = c.for
           \/ c.for \in {"late", "nobody"} /\ x.fires[c.n].stage \in {"leave", "over"}
     \/ /\ c.key = "once" /\ c.n <= x.minted /\ c.n # x.token
        /\ c.for = "claim" => c.n = x.minted /\ x.wait # "none"

(* Nothing else on the wire has the token of a command that is awaited, and a  *)
(* name is not given up behind its own claim.                                 *)
Sole(w) == \A i, k \in 1..Len(w) : w[i].for \in Waiting /\ SameToken(w[i], w[k]) => i = k
Ordered(w) == \A i, k \in 1..Len(w) :
    w[i].for = "claim" /\ w[k].for = "remove" /\ w[i].job = w[k].job => k < i

Asked(w, j, k, for) == \E i \in 1..Len(w) : w[i].job = j /\ w[i].n = k /\ w[i].for = for
Called(w, j) == \E i \in 1..Len(w) : w[i].for = "remove" /\ w[i].job = j
Answers(w, j, x, g) ==
  /\ \A k \in 1..Len(x.fires) :
       x.fires[k].stage \in {"slot", "mutex", "release"} => Asked(w, j, k, x.fires[k].stage)
  /\ x.removing => Called(w, j)
  /\ Called(w, j) => x.removing \/ g # j

WireOk(r, w, J, g) ==
  /\ w \in Seq(Commands) /\ Sole(w) /\ Ordered(w)
  /\ \A i \in 1..Len(w) : CmdForm(r, w[i]) /\ CmdFits(J[w[i].job], w[i])
  /\ \A j \in Jobs : Owner[j] = r => Answers(w, j, J[j], g)
Wires ==
  /\ wire \in [Replicas -> Seq(Commands)]
  /\ \A r \in Replicas : WireOk(r, wire[r], job, registry[r])

LEMMA CommandIs ==
  ASSUME NEW c \in Commands
  PROVE  /\ c.op \in {"set", "del"} /\ c.key \in {"slot", "mutex", "once"} /\ c.slot \in Nat
         /\ c.job \in Jobs /\ c.n \in Nat /\ c.n # 0 /\ c.done \in BOOLEAN /\ c.until \in Nat
         /\ c.for \in {"slot", "mutex", "release", "leave", "claim", "remove", "late", "nobody"}
  BY DEF Commands

(* What stays of a wire when its command p is answered or given up: the others, *)
(* in order, and for a command given up others of its token, for nobody.        *)
Stays(u, p, c) == \E m \in 1..Len(u) : m # p /\ c = u[m]
Ghost(c, d) == SameToken(c, d) /\ c.slot = d.slot /\ d.for \in {"late", "nobody"}
Leftover(r, u, p, w) ==
  /\ w \in Seq(Commands) /\ Sole(w) /\ Ordered(w)
  /\ \A i \in 1..Len(w) : /\ Stays(u, p, w[i]) \/ (p # 0 /\ Ghost(u[p], w[i]))
                          /\ CmdForm(r, w[i])
  /\ \A m \in 1..Len(u) : m # p => \E i \in 1..Len(w) : w[i] = u[m]

LEMMA TailDoes ==
  ASSUME NEW S, NEW u \in Seq(S), u # <<>>
  PROVE  /\ Tail(u) \in Seq(S) /\ Len(Tail(u)) = Len(u) - 1 /\ Len(u) \in Nat /\ Len(u) >= 1
         /\ \A i \in 1..(Len(u) - 1) : Tail(u)[i] = u[i + 1]
         /\ Head(u) = u[1]
<1>1. Len(u) \in Nat /\ Len(u) >= 1
  BY EmptySeq
<1>2. Tail(u) \in Seq(S) /\ Len(Tail(u)) = Len(u) - 1
      /\ \A i \in 1..Len(Tail(u)) : Tail(u)[i] = u[i + 1]
  BY HeadTailProperties
<1>. QED BY <1>1, <1>2

LEMMA NoneLeaves ==
  ASSUME NEW r, NEW u, NEW J, NEW g, WireOk(r, u, J, g)
  PROVE  Leftover(r, u, 0, u) /\ \A i \in 1..Len(u) : Stays(u, 0, u[i])
  BY DEF WireOk, Leftover, Stays

(* What is left of a wire when a command is answered, given up or taken    *)
(* back.                                                                   *)
LEMMA DropLeaves ==
  ASSUME NEW r, NEW u, NEW J, NEW g, WireOk(r, u, J, g), NEW p \in 1..Len(u), NEW w \in Seq(Commands),
         Len(w) = Len(u) - 1,
         \A i \in 1..(Len(u) - 1) : w[i] = IF i < p THEN u[i] ELSE u[i + 1]
  PROVE  Leftover(r, u, p, w) /\ \A i \in 1..Len(w) : Stays(u, p, w[i])
<1>1. Len(u) \in Nat
  BY DEF WireOk
<1> DEFINE At(i) == IF i < p THEN i ELSE i + 1
<1>2. \A i \in 1..Len(w) : At(i) \in 1..Len(u) /\ At(i) # p /\ w[i] = u[At(i)]
  BY <1>1
<1>3. \A i, k \in 1..Len(w) : (At(i) = At(k) => i = k) /\ (At(i) < At(k) => i < k)
  BY <1>1
<1>4. \A m \in 1..Len(u) : m # p => \E i \in 1..Len(w) : w[i] = u[m]
  <2> SUFFICES ASSUME NEW m \in 1..Len(u), m # p
               PROVE  \E i \in 1..Len(w) : At(i) = m
    BY <1>2
  <2>1. CASE m < p
    BY <2>1, <1>1
  <2>2. CASE m > p
    <3>1. m - 1 \in 1..Len(w) /\ At(m - 1) = m
      BY <2>2, <1>1
    <3>. QED BY <3>1
  <2>. QED BY <2>1, <2>2
<1> HIDE DEF At
<1>5. Sole(w)
  BY <1>2, <1>3 DEF Sole, WireOk
<1>6. Ordered(w)
  BY <1>2, <1>3 DEF Ordered, WireOk
<1>7. \A i \in 1..Len(w) : Stays(u, p, w[i]) /\ CmdForm(r, w[i])
  BY <1>2 DEF Stays, WireOk
<1>. QED BY <1>4, <1>5, <1>6, <1>7 DEF Leftover

LEMMA AnswerLeaves ==
  ASSUME NEW r, NEW u, NEW J, NEW g, WireOk(r, u, J, g), u # <<>>
  PROVE  /\ Leftover(r, u, 1, Tail(u)) /\ \A i \in 1..Len(Tail(u)) : Stays(u, 1, Tail(u)[i])
         /\ 1 \in 1..Len(u) /\ Head(u) = u[1]
<1>1. u \in Seq(Commands)
  BY DEF WireOk
<1>2. /\ Tail(u) \in Seq(Commands) /\ Len(Tail(u)) = Len(u) - 1 /\ Len(u) \in Nat /\ Len(u) >= 1
      /\ \A i \in 1..(Len(u) - 1) : Tail(u)[i] = u[i + 1]
      /\ Head(u) = u[1]
  BY <1>1, TailDoes
<1>3. 1 \in 1..Len(u) /\ \A i \in 1..(Len(u) - 1) : ~(i < 1)
  BY <1>2
<1> DEFINE w == Tail(u)
<1> HIDE DEF w
<1>4. Leftover(r, u, 1, w) /\ \A i \in 1..Len(w) : Stays(u, 1, w[i])
  BY <1>2, <1>3, DropLeaves DEF w
<1>. QED BY <1>2, <1>3, <1>4 DEF w

LEMMA MutedIs ==
  ASSUME NEW r, NEW c, CmdForm(r, c), NEW whom \in {"late", "nobody"},
         whom = "late" => c.op = "set", whom = "nobody" => ~c.done
  PROVE  LET d == [c EXCEPT !.for = whom]
         IN  d \in Commands /\ CmdForm(r, d) /\ Ghost(c, d)
<1> DEFINE d == [c EXCEPT !.for = whom]
<1>1. c \in Commands
  BY DEF CmdForm
<1>2. /\ d \in Commands /\ d.op = c.op /\ d.key = c.key /\ d.slot = c.slot /\ d.job = c.job
      /\ d.n = c.n /\ d.done = c.done /\ d.until = c.until /\ d.for = whom
  BY <1>1 DEF Commands
<1> HIDE DEF d
<1>3. CmdForm(r, d)
  BY <1>2 DEF CmdForm, Lease
<1>4. Ghost(c, d)
  BY <1>2 DEF Ghost, SameToken
<1>. QED BY <1>2, <1>3, <1>4 DEF d

Token(key, slot, j, n) ==
  key \in {"slot", "mutex", "once"} /\ slot \in Nat /\ j \in Jobs /\ n \in Nat /\ n # 0

LEMMA UndoIs ==
  ASSUME NEW r, NEW c, CmdForm(r, c)
  PROVE  LET d == Del(c.key, c.slot, c.job, c.n, "nobody")
         IN  d \in Commands /\ CmdForm(r, d) /\ Ghost(c, d)
<1> DEFINE d == Del(c.key, c.slot, c.job, c.n, "nobody")
<1>1. c \in Commands /\ Owner[c.job] = r /\ (c.key # "slot" => c.slot = 0)
  BY DEF CmdForm
<1>2. Token(c.key, c.slot, c.job, c.n)
  BY <1>1, CommandIs DEF Token
<1>3. /\ d \in Commands /\ d.op = "del" /\ d.key = c.key /\ d.slot = c.slot /\ d.job = c.job
      /\ d.n = c.n /\ d.for = "nobody" /\ d.done = FALSE /\ d.until = 0
  BY <1>2 DEF Del, Set, Commands, Token
<1> HIDE DEF d
<1>4. CmdForm(r, d)
  BY <1>1, <1>3 DEF CmdForm
<1>5. Ghost(c, d)
  BY <1>3 DEF Ghost, SameToken
<1>. QED BY <1>3, <1>4, <1>5 DEF d

LEMMA MuteLeaves ==
  ASSUME NEW r, NEW u, NEW J, NEW g, WireOk(r, u, J, g), NEW p \in 1..Len(u),
         NEW whom \in {"late", "nobody"}, u[p].for \notin {"late", "nobody"},
         whom = "late" => u[p].op = "set", whom = "nobody" => ~u[p].done
  PROVE  Leftover(r, u, p, [u EXCEPT ![p].for = whom])
<1> DEFINE d == [u[p] EXCEPT !.for = whom]
           w == [u EXCEPT ![p] = d]
<1>1. u \in Seq(Commands) /\ Len(u) \in Nat /\ CmdForm(r, u[p])
  BY DEF WireOk
<1>2. d \in Commands /\ CmdForm(r, d) /\ Ghost(u[p], d)
  BY <1>1, MutedIs
<1>3. [u EXCEPT ![p].for = whom] = w
  BY <1>1
<1> HIDE DEF d
<1>4. /\ w \in Seq(Commands) /\ Len(w) = Len(u) /\ w[p] = d
      /\ \A i \in 1..Len(u) : i # p => w[i] = u[i]
  BY <1>1, <1>2
<1> HIDE DEF w
<1>5. Sole(w)
  <2> SUFFICES ASSUME NEW i \in 1..Len(w), NEW k \in 1..Len(w), w[i].for \in Waiting,
                      SameToken(w[i], w[k])
               PROVE  i = k
    BY DEF Sole
  <2>1. i # p
    BY <1>2, <1>4 DEF Ghost, Waiting
  <2>2. w[i] = u[i] /\ SameToken(u[i], u[k])
    <3>1. w[i] = u[i]
      BY <1>4, <2>1
    <3>2. CASE k = p
      BY <3>1, <3>2, <1>2, <1>4 DEF Ghost, SameToken
    <3>3. CASE k # p
      BY <3>1, <3>3, <1>4
    <3>. QED BY <3>1, <3>2, <3>3
  <2>. QED BY <2>2, <1>4 DEF WireOk, Sole
<1>6. Ordered(w)
  BY <1>2, <1>4 DEF WireOk, Ordered, Ghost
<1>7. \A i \in 1..Len(w) : (Stays(u, p, w[i]) \/ (p # 0 /\ Ghost(u[p], w[i]))) /\ CmdForm(r, w[i])
  BY <1>1, <1>2, <1>4 DEF WireOk, Stays
<1>. QED BY <1>3, <1>4, <1>5, <1>6, <1>7 DEF Leftover

LEMMA UndoLeaves ==
  ASSUME NEW r, NEW u, NEW p \in 1..Len(u), NEW J, NEW g, WireOk(r, u, J, g),
         u[p].for \in Waiting, NEW w, Leftover(r, u, p, w)
  PROVE  Leftover(r, u, p, Append(w, Del(u[p].key, u[p].slot, u[p].job, u[p].n, "nobody")))
<1> DEFINE d == Del(u[p].key, u[p].slot, u[p].job, u[p].n, "nobody")
           v == Append(w, d)
<1>1. u \in Seq(Commands) /\ Len(u) \in Nat /\ CmdForm(r, u[p]) /\ w \in Seq(Commands)
      /\ Len(w) \in Nat
  BY DEF WireOk, Leftover
<1>2. d \in Commands /\ CmdForm(r, d) /\ Ghost(u[p], d)
  BY <1>1, UndoIs
<1> HIDE DEF d
<1>3. /\ v \in Seq(Commands) /\ Len(v) = Len(w) + 1 /\ v[Len(w) + 1] = d
      /\ \A i \in 1..Len(w) : v[i] = w[i]
  BY <1>1, <1>2, AppendDoes
<1> HIDE DEF v
<1>4. Sole(v)
  <2> SUFFICES ASSUME NEW i \in 1..Len(v), NEW k \in 1..Len(v), v[i].for \in Waiting,
                      SameToken(v[i], v[k])
               PROVE  i = k
    BY DEF Sole
  <2>1. i \in 1..Len(w) /\ v[i] = w[i]
    BY <1>1, <1>2, <1>3 DEF Ghost, Waiting
  <2>2. CASE k \in 1..Len(w)
    BY <2>1, <2>2, <1>3 DEF Leftover, Sole
  <2>3. CASE k = Len(w) + 1
    <3>1. SameToken(w[i], u[p])
      BY <2>1, <2>3, <1>2, <1>3 DEF Ghost, SameToken
    <3>2. Stays(u, p, w[i])
      BY <2>1 DEF Leftover, Ghost, Waiting
    <3>3. PICK m \in 1..Len(u) : m # p /\ w[i] = u[m]
      BY <3>2 DEF Stays
    <3>. QED BY <2>1, <3>1, <3>3 DEF WireOk, Sole
  <2>. QED BY <2>2, <2>3, <1>1, <1>3
<1>5. Ordered(v)
  <2>1. Ordered(w) /\ d.for \in {"late", "nobody"}
    BY <1>2 DEF Leftover, Ghost
  <2> SUFFICES ASSUME NEW i \in 1..Len(v), NEW k \in 1..Len(v), v[i].for = "claim",
                      v[k].for = "remove", v[i].job = v[k].job
               PROVE  k < i
    BY DEF Ordered
  <2>2. i \in 1..Len(w) /\ k \in 1..Len(w) /\ v[i] = w[i] /\ v[k] = w[k]
    BY <2>1, <1>1, <1>3
  <2>. QED BY <2>1, <2>2 DEF Ordered
<1>6. \A i \in 1..Len(v) : (Stays(u, p, v[i]) \/ (p # 0 /\ Ghost(u[p], v[i]))) /\ CmdForm(r, v[i])
  BY <1>1, <1>2, <1>3 DEF Leftover
<1>7. \A m \in 1..Len(u) : m # p => \E i \in 1..Len(v) : v[i] = u[m]
  <2> SUFFICES ASSUME NEW m \in 1..Len(u), m # p
               PROVE  \E i \in 1..Len(v) : v[i] = u[m]
    OBVIOUS
  <2>1. PICK i \in 1..Len(w) : w[i] = u[m]
    BY DEF Leftover
  <2>2. i \in 1..Len(v) /\ v[i] = u[m]
    BY <2>1, <1>1, <1>3
  <2>. QED BY <2>2
<1>. QED BY <1>3, <1>4, <1>5, <1>6, <1>7 DEF Leftover, v, d

(* A call that is given up.                                                 *)
LEMMA GiveUpLeaves ==
  ASSUME NEW r, NEW u, NEW J, NEW g, WireOk(r, u, J, g), NEW p \in 1..Len(u), NEW w,
         u[p].for \notin {"late", "nobody"},
         \/ w = Seqs!RemoveAt(u, p)
         \/ w = (IF u[p].done THEN Seqs!RemoveAt(u, p) ELSE [u EXCEPT ![p].for = "nobody"])
         \/ u[p].op = "set" /\ w = [u EXCEPT ![p].for = "late"]
         \/ /\ u[p].op = "set"
            /\ w = Append(IF u[p].done THEN Seqs!RemoveAt(u, p) ELSE [u EXCEPT ![p].for = "nobody"],
                          Del(u[p].key, u[p].slot, u[p].job, u[p].n, "nobody"))
  PROVE  Leftover(r, u, p, w)
<1> DEFINE gone == Seqs!RemoveAt(u, p)
           left == IF u[p].done THEN gone ELSE [u EXCEPT ![p].for = "nobody"]
<1>1. Leftover(r, u, p, gone)
  <2>1. u \in Seq(Commands)
    BY DEF WireOk
  <2>2. /\ gone \in Seq(Commands) /\ Len(gone) = Len(u) - 1
        /\ \A j \in 1..(Len(u) - 1) : gone[j] = IF j < p THEN u[j] ELSE u[j + 1]
    BY <2>1, RemoveAtDoes
  <2> HIDE DEF gone
  <2>. QED BY <2>2, DropLeaves
<1>2. Leftover(r, u, p, left)
  <2>1. CASE u[p].done
    BY <2>1, <1>1
  <2>2. CASE ~u[p].done
    <3>1. Leftover(r, u, p, [u EXCEPT ![p].for = "nobody"])
      BY <2>2, MuteLeaves
    <3>. QED BY <2>2, <3>1
  <2>. QED BY <2>1, <2>2
<1>3. CASE u[p].op = "set" /\ w = [u EXCEPT ![p].for = "late"]
  BY <1>3, MuteLeaves
<1>4. CASE u[p].op = "set" /\ w = Append(left, Del(u[p].key, u[p].slot, u[p].job, u[p].n, "nobody"))
  <2>1. u[p].for \in Waiting
    BY <1>4 DEF WireOk, CmdForm, Waiting
  <2> HIDE DEF left
  <2>. QED BY <1>2, <1>4, <2>1, UndoLeaves
<1>. QED BY <1>1, <1>2, <1>3, <1>4
-----------------------------------------------------------------------------
(* Nobody who waits has the name of a fire that has gone on.                *)
Passes(y, k, c) ==
  c.for \in {"late", "nobody"} /\ (Done(y, k) \/ (y.fires[k].stage = "leave" /\ c.key = "mutex"))
Named(c, k) == c.key \in {"slot", "mutex"} /\ c.n = k

LEMMA LostIsGone ==
  ASSUME NEW h, NEW on \in BOOLEAN, NEW nm, JobOk(Lost, h, on, nm)
  PROVE  ~h
<1>1. Lost.paused = FALSE /\ Lost.dropped = FALSE
  BY DEF Lost, Unused
<1>. QED BY <1>1, LostIs DEF JobOk, Going

LEMMA QuietFits ==
  ASSUME NEW r, NEW c, CmdForm(r, c), NEW x, NEW y, x \in Registrations, y \in Registrations,
         CmdFits(x, c), NEW k, Quiet(x, y, k), x = Lost => y = Lost,
         Named(c, k) => Passes(y, k, c)
  PROVE  CmdFits(y, c)
<1>0. /\ Len(x.fires) \in Nat /\ Len(y.fires) \in Nat /\ c \in Commands
      /\ c.n \in Nat /\ c.n # 0 /\ c.key \in {"slot", "mutex", "once"}
      /\ c.for \in {"slot", "mutex", "release", "leave", "claim", "remove", "late", "nobody"}
  BY FiresAre, CommandIs DEF CmdForm
<1>1. CASE y = Lost
  <2>1. x.wait = "none" /\ x.used
        /\ \A m \in 1..Len(x.fires) : m # k => x.fires[m].stage \in {"armed", "over"}
    BY <1>1 DEF Quiet
  <2>2. CASE Named(c, k)
    BY <2>2, <1>1, LostIs DEF Passes, CmdFits
  <2>3. CASE ~Named(c, k) /\ x # Lost
    <3>1. c.key \in {"slot", "mutex"} => c.n \in 1..Len(x.fires) /\ c.n # k
      BY <2>3 DEF CmdFits, Named
    <3>2. c.key \in {"slot", "mutex"} => x.fires[c.n].stage \in {"armed", "over"}
      BY <2>1, <3>1
    <3>3. c.key \in {"slot", "mutex"} => c.for \in {"late", "nobody"}
      BY <3>2, <2>3, <1>0 DEF CmdFits, CmdForm
    <3>4. c.key = "once" => c.for \in {"late", "nobody", "remove", "leave"}
      BY <2>1, <2>3, <1>0 DEF CmdFits, CmdForm
    <3>. QED BY <3>3, <3>4, <1>0, <1>1, LostIs DEF CmdFits
  <2>4. CASE x = Lost
    BY <2>4, <1>1
  <2>. QED BY <2>2, <2>3, <2>4
<1>2. CASE y # Lost
  <2>1. /\ Len(x.fires) <= Len(y.fires) /\ y.used
        /\ \A m \in 1..Len(x.fires) : m # k => Kept(x.fires[m], y.fires[m])
        /\ y.minted = x.minted /\ y.token \in {0, x.token} /\ y.wait = x.wait
    BY <1>2 DEF Quiet
  <2>2. x # Lost
    BY <1>2
  <2>3. CASE c.key = "once"
    <3>1. c.n <= x.minted /\ c.n # x.token /\ (c.for = "claim" => c.n = x.minted /\ x.wait # "none")
      BY <2>2, <2>3 DEF CmdFits
    <3>2. c.n <= y.minted /\ c.n # y.token /\ (c.for = "claim" => c.n = y.minted /\ y.wait # "none")
      BY <2>1, <3>1, <1>0
    <3>. QED BY <2>1, <2>3, <3>2 DEF CmdFits
  <2>4. CASE c.key \in {"slot", "mutex"}
    <3>1. c.n \in 1..Len(x.fires) /\ c.n \in 1..Len(y.fires)
      BY <2>1, <2>2, <2>4, <1>0 DEF CmdFits
    <3>2. CASE Named(c, k)
      BY <1>2, <2>1, <3>1, <3>2 DEF Named, Passes, Done, CmdFits
    <3>3. CASE ~Named(c, k)
      <4>1. Kept(x.fires[c.n], y.fires[c.n])
        BY <2>1, <2>4, <3>1, <3>3 DEF Named
      <4>. QED BY <2>1, <2>2, <2>4, <3>1, <4>1 DEF CmdFits, Kept
    <3>. QED BY <3>2, <3>3
  <2>. QED BY <2>3, <2>4, <1>0
<1>. QED BY <1>1, <1>2

LEMMA GhostFits ==
  ASSUME NEW r, NEW c, CmdForm(r, c), NEW x, CmdFits(x, c), c.key = "once", NEW d, Ghost(c, d)
  PROVE  CmdFits(x, d)
  BY DEF CmdFits, CmdForm, Ghost, SameToken

LEMMA PassesFits ==
  ASSUME NEW y, y.used, NEW k \in 1..Len(y.fires), NEW c, Named(c, k), Passes(y, k, c)
  PROVE  CmdFits(y, c)
  BY LostIs DEF CmdFits, Passes, Done, Named

(* Whoever has the name of a fire that is not over is awaited by it.          *)
LEMMA NamedIs ==
  ASSUME NEW r, NEW c, CmdForm(r, c), NEW x, CmdFits(x, c), NEW k \in 1..Len(x.fires),
         Named(c, k), x.fires[k].stage # "over"
  PROVE  \/ c.for \in {"slot", "mutex", "release"} /\ c.for = x.fires[k].stage
         \/ c.key = "mutex" /\ x.fires[k].stage = "leave" /\ c.for \in {"late", "nobody"}
  BY LostIs DEF CmdFits, Named, CmdForm

LEMMA NamedAlone ==
  ASSUME NEW r, NEW u, NEW J, NEW g, WireOk(r, u, J, g), NEW p \in 0..Len(u), NEW m \in 1..Len(u),
         m # p, NEW j, NEW k \in 1..Len(J[j].fires), u[m].job = j, Named(u[m], k),
         J[j].fires[k].stage # "over",
         J[j].fires[k].stage \in {"slot", "mutex", "release"} =>
           p # 0 /\ u[p].job = j /\ u[p].n = k /\ u[p].for = J[j].fires[k].stage
  PROVE  u[m].key = "mutex" /\ J[j].fires[k].stage = "leave" /\ u[m].for \in {"late", "nobody"}
<1>1. CmdForm(r, u[m]) /\ CmdFits(J[j], u[m])
  BY DEF WireOk
<1>2. \/ u[m].for \in {"slot", "mutex", "release"} /\ u[m].for = J[j].fires[k].stage
      \/ u[m].key = "mutex" /\ J[j].fires[k].stage = "leave" /\ u[m].for \in {"late", "nobody"}
  BY <1>1, NamedIs
<1>3. CASE u[m].for \in {"slot", "mutex", "release"} /\ u[m].for = J[j].fires[k].stage
  <2>1. p \in 1..Len(u) /\ u[p].job = j /\ u[p].n = k /\ u[p].for = u[m].for
    BY <1>3
  <2>2. CmdForm(r, u[p])
    BY <2>1 DEF WireOk
  <2>3. u[p].key = u[m].key
    BY <1>1, <1>3, <2>1, <2>2 DEF CmdForm
  <2>4. SameToken(u[m], u[p]) /\ u[m].for \in Waiting
    BY <1>3, <2>1, <2>3 DEF SameToken, Waiting, Named
  <2>. QED BY <2>1, <2>4 DEF WireOk, Sole
<1>. QED BY <1>2, <1>3
-----------------------------------------------------------------------------
(* A step of registration j at its replica r: command p of the wire is         *)
(* answered or given up (0 if none is), w stays, and a command may be sent.     *)
Joins(r, j, y, w, c) ==
  /\ CmdForm(r, c) /\ c.job = j /\ CmdFits(y, c) /\ ~c.done
  /\ \A i \in 1..Len(w) : w[i].for \in Waiting \/ c.for \in Waiting => ~SameToken(w[i], c)
  /\ c.for = "remove" => \A i \in 1..Len(w) : ~(w[i].for = "claim" /\ w[i].job = j)
Grows(r, j, y, w, v) == v = w \/ \E c : Joins(r, j, y, w, c) /\ v = Append(w, c)
Moved(r, j, p, w, y, v) ==
  /\ p \in 0..Len(wire[r]) /\ Leftover(r, wire[r], p, w)
  /\ p # 0 => wire[r][p].job = j
  /\ \A i \in 1..Len(w) : w[i].job = j => CmdFits(y, w[i])
  /\ Grows(r, j, y, w, v) /\ Answers(v, j, y, registry'[r])
  /\ job' = [job EXCEPT ![j] = y] /\ wire' = [wire EXCEPT ![r] = v] /\ Around(r, j)

LEMMA GrowsIs ==
  ASSUME NEW r, NEW j, NEW y, NEW w, NEW v, w \in Seq(Commands), Sole(w), Ordered(w),
         Grows(r, j, y, w, v)
  PROVE  /\ v \in Seq(Commands) /\ Sole(v) /\ Ordered(v)
         /\ \A i \in 1..Len(v) :
              \/ i \in 1..Len(w) /\ v[i] = w[i]
              \/ v[i].job = j /\ CmdForm(r, v[i]) /\ CmdFits(y, v[i])
         /\ \A i \in 1..Len(w) : i \in 1..Len(v) /\ v[i] = w[i]
<1>1. CASE v = w
  BY <1>1
<1>2. CASE v # w
  <2>1. PICK c : Joins(r, j, y, w, c) /\ v = Append(w, c)
    BY <1>2 DEF Grows
  <2>2. c \in Commands /\ Len(w) \in Nat
    BY <2>1 DEF Joins, CmdForm
  <2>3. /\ v \in Seq(Commands) /\ Len(v) = Len(w) + 1 /\ v[Len(w) + 1] = c
        /\ \A i \in 1..Len(w) : v[i] = w[i]
    BY <2>1, <2>2, AppendDoes
  <2> HIDE <1>2
  <2>4. Sole(v)
    <3>1. ASSUME NEW i \in 1..Len(v), NEW k \in 1..Len(v), v[i].for \in Waiting,
                 SameToken(v[i], v[k])
          PROVE  i = k
      <4>1. CASE i \in 1..Len(w) /\ k \in 1..Len(w)
        BY <3>1, <4>1, <2>3 DEF Sole
      <4>2. CASE i \in 1..Len(w) /\ k \notin 1..Len(w)
        <5>1. v[i] = w[i] /\ v[k] = c
          BY <4>2, <2>2, <2>3
        <5>. QED BY <3>1, <4>2, <5>1, <2>1 DEF Joins
      <4>3. CASE i \notin 1..Len(w) /\ k \in 1..Len(w)
        <5>1. v[i] = c /\ v[k] = w[k]
          BY <4>3, <2>2, <2>3
        <5>. QED BY <3>1, <4>3, <5>1, <2>1 DEF Joins, SameToken
      <4>4. CASE i \notin 1..Len(w) /\ k \notin 1..Len(w)
        BY <4>4, <2>2, <2>3
      <4>. QED BY <4>1, <4>2, <4>3, <4>4
    <3>. QED BY <3>1 DEF Sole
  <2>5. Ordered(v)
    <3>1. ASSUME NEW i \in 1..Len(v), NEW k \in 1..Len(v), v[i].for = "claim",
                 v[k].for = "remove", v[i].job = v[k].job
          PROVE  k < i
      <4>1. CASE i \in 1..Len(w) /\ k \in 1..Len(w)
        BY <3>1, <4>1, <2>3 DEF Ordered
      <4>2. CASE i \in 1..Len(w) /\ k \notin 1..Len(w)
        <5>1. v[i] = w[i] /\ v[k] = c
          BY <4>2, <2>2, <2>3
        <5>. QED BY <3>1, <4>2, <5>1, <2>1 DEF Joins
      <4>3. CASE i \notin 1..Len(w) /\ k \in 1..Len(w)
        BY <4>3, <2>2, <2>3
      <4>4. CASE i \notin 1..Len(w) /\ k \notin 1..Len(w)
        <5>1. v[i] = c /\ v[k] = c
          BY <4>4, <2>2, <2>3
        <5>. QED BY <3>1, <5>1
      <4>. QED BY <4>1, <4>2, <4>3, <4>4
    <3>. QED BY <3>1 DEF Ordered
  <2>6. \A i \in 1..Len(v) :
          \/ i \in 1..Len(w) /\ v[i] = w[i]
          \/ v[i].job = j /\ CmdForm(r, v[i]) /\ CmdFits(y, v[i])
    BY <2>1, <2>2, <2>3 DEF Joins
  <2>7. \A i \in 1..Len(w) : i \in 1..Len(v) /\ v[i] = w[i]
    BY <2>2, <2>3
  <2>. QED BY <2>3, <2>4, <2>5, <2>6, <2>7
<1>. QED BY <1>1, <1>2

(* A step of one registration keeps every wire in order.                   *)
LEMMA MovedOk ==
  ASSUME Wires, NEW j \in Jobs, NEW r \in Replicas, Owner[j] = r, NEW p, NEW w, NEW y, NEW v,
         job \in [Jobs -> Registrations], Moved(r, j, p, w, y, v)
  PROVE  Wires'
<1> DEFINE u == wire[r]
<1>1. WireOk(r, u, job, registry[r])
  BY DEF Wires
<1>2. w \in Seq(Commands) /\ Sole(w) /\ Ordered(w)
  BY DEF Moved, Leftover
<1>3. /\ v \in Seq(Commands) /\ Sole(v) /\ Ordered(v)
      /\ \A i \in 1..Len(v) :
           \/ i \in 1..Len(w) /\ v[i] = w[i]
           \/ v[i].job = j /\ CmdForm(r, v[i]) /\ CmdFits(y, v[i])
      /\ \A i \in 1..Len(w) : i \in 1..Len(v) /\ v[i] = w[i]
  BY <1>2, GrowsIs DEF Moved
<1>4. /\ job' = [job EXCEPT ![j] = y] /\ wire' = [wire EXCEPT ![r] = v] /\ Around(r, j)
      /\ wire \in [Replicas -> Seq(Commands)] /\ wire'[r] = v /\ job'[j] = y
  BY DEF Moved, Wires
<1>5. \A i \in 1..Len(v) : CmdForm(r, v[i]) /\ CmdFits(job'[v[i].job], v[i])
  <2> SUFFICES ASSUME NEW i \in 1..Len(w)
               PROVE  CmdForm(r, w[i]) /\ CmdFits(job'[w[i].job], w[i])
    BY <1>3, <1>4
  <2>1. CmdForm(r, w[i])
    BY DEF Moved, Leftover
  <2>2. CASE w[i].job = j
    BY <2>1, <2>2, <1>4 DEF Moved
  <2>3. CASE w[i].job # j
    <3>1. Stays(u, p, w[i])
      BY <2>3 DEF Moved, Leftover, Ghost, SameToken
    <3>2. CmdFits(job[w[i].job], w[i])
      BY <3>1, <1>1 DEF Stays, WireOk
    <3>3. w[i].job \in Jobs
      BY <2>1, CommandIs DEF CmdForm
    <3>. QED BY <2>1, <2>3, <3>2, <3>3, <1>4
  <2>. QED BY <2>2, <2>3
<1>6. ASSUME NEW i \in Jobs, Owner[i] = r, i # j
      PROVE  Answers(v, i, job'[i], registry'[r])
  <2>1. Answers(u, i, job[i], registry[r]) /\ job'[i] = job[i]
    BY <1>1, <1>4, <1>6 DEF WireOk
  <2>2. ASSUME NEW m \in 1..Len(u), u[m].job = i
        PROVE  \E n \in 1..Len(v) : v[n] = u[m]
    <3>1. m # p
      BY <2>2, <1>6 DEF Moved
    <3>2. PICK n \in 1..Len(w) : w[n] = u[m]
      BY <3>1 DEF Moved, Leftover
    <3>. QED BY <3>2, <1>3
  <2>3. ASSUME Called(v, i)
        PROVE  Called(u, i)
    <3>1. PICK n \in 1..Len(v) : v[n].for = "remove" /\ v[n].job = i
      BY <2>3 DEF Called
    <3>2. n \in 1..Len(w) /\ v[n] = w[n]
      BY <3>1, <1>3, <1>6
    <3>3. Stays(u, p, w[n])
      BY <3>1, <3>2 DEF Moved, Leftover, Ghost
    <3>. QED BY <3>1, <3>2, <3>3 DEF Stays, Called
  <2>4. registry'[r] = i => registry[r] = i
    BY <1>4, <1>6, JobsAssumption DEF Around
  <2>5. ASSUME NEW k \in 1..Len(job[i].fires), job[i].fires[k].stage \in {"slot", "mutex", "release"}
        PROVE  Asked(v, i, k, job[i].fires[k].stage)
    <3>1. Asked(u, i, k, job[i].fires[k].stage)
      BY <2>1, <2>5 DEF Answers
    <3>. QED BY <3>1, <2>2 DEF Asked
  <2>6. job[i].removing => Called(v, i)
    <3>1. job[i].removing => Called(u, i)
      BY <2>1 DEF Answers
    <3>. QED BY <3>1, <2>2 DEF Called
  <2>7. Called(v, i) => job[i].removing \/ registry'[r] # i
    BY <2>1, <2>3, <2>4 DEF Answers
  <2>. QED BY <2>1, <2>5, <2>6, <2>7 DEF Answers
<1>7. WireOk(r, v, job', registry'[r])
  <2>1. Answers(v, j, job'[j], registry'[r])
    BY <1>4 DEF Moved
  <2>2. \A i \in Jobs : Owner[i] = r => Answers(v, i, job'[i], registry'[r])
    BY <1>6, <2>1
  <2>. QED BY <1>3, <1>5, <2>2 DEF WireOk
<1>8. ASSUME NEW q \in Replicas, q # r
      PROVE  WireOk(q, wire[q], job', registry'[q])
  <2>1. WireOk(q, wire[q], job, registry[q]) /\ registry'[q] = registry[q]
    BY <1>4, <1>8 DEF Wires, Around
  <2>2. \A i \in 1..Len(wire[q]) : wire[q][i].job # j /\ wire[q][i].job \in Jobs
    BY <2>1, <1>8, CommandIs DEF WireOk, CmdForm
  <2>3. \A i \in 1..Len(wire[q]) : job'[wire[q][i].job] = job[wire[q][i].job]
    BY <2>2, <1>4
  <2>4. \A i \in Jobs : Owner[i] = q => job'[i] = job[i]
    BY <1>4, <1>8
  <2>. QED BY <2>1, <2>3, <2>4 DEF WireOk
<1>9. wire' \in [Replicas -> Seq(Commands)] /\ \A q \in Replicas : q # r => wire'[q] = wire[q]
  BY <1>3, <1>4
<1>10. \A q \in Replicas : WireOk(q, wire'[q], job', registry'[q])
  BY <1>4, <1>7, <1>8, <1>9
<1>11. ASSUME NEW q, WireOk(q, wire'[q], job', registry'[q])
       PROVE  WireOk(q, wire[q], job, registry[q])'
  BY <1>11 DEF WireOk
<1>. QED BY <1>9, <1>10, <1>11 DEF Wires

(* What stays on the wire of a registration after a quiet step of it.        *)
Covers(u, p, w, x, k) ==
  \/ (p # 0 /\ u[p].key \in {"slot", "mutex"}) => (k \in 1..Len(x.fires) /\ u[p].n = k)
  \/ \A i \in 1..Len(w) : Stays(u, p, w[i])
Passed(w, j, y, k) == \A i \in 1..Len(w) : w[i].job = j /\ Named(w[i], k) => Passes(y, k, w[i])

(* Commands that nobody waits for still fit, and the others are still      *)
(* answered.                                                               *)
LEMMA QuietKeeps ==
  ASSUME NEW r, NEW u, NEW J, NEW g, WireOk(r, u, J, g), NEW p, p \in 0..Len(u), NEW w,
         Leftover(r, u, p, w), NEW j, NEW x, x = J[j], NEW y, x \in Registrations,
         y \in Registrations, NEW k, Quiet(x, y, k), x = Lost => y = Lost,
         p # 0 => u[p].job = j, Covers(u, p, w, x, k), Passed(w, j, y, k)
  PROVE  \A i \in 1..Len(w) : w[i].job = j => CmdFits(y, w[i])
<1>0. /\ \/ (p # 0 /\ u[p].key \in {"slot", "mutex"}) => (k \in 1..Len(x.fires) /\ u[p].n = k)
         \/ \A i \in 1..Len(w) : Stays(u, p, w[i])
      /\ \A i \in 1..Len(w) : w[i].job = j /\ Named(w[i], k) => Passes(y, k, w[i])
  BY DEF Covers, Passed
<1> USE <1>0
<1> SUFFICES ASSUME NEW i \in 1..Len(w), w[i].job = j
             PROVE  CmdFits(y, w[i])
  OBVIOUS
<1>1. CmdForm(r, w[i])
  BY DEF Leftover
<1>2. CASE Stays(u, p, w[i])
  <2>1. CmdFits(x, w[i])
    BY <1>2 DEF Stays, WireOk
  <2>. QED BY <1>1, <2>1, QuietFits
<1>3. CASE ~Stays(u, p, w[i]) /\ p # 0 /\ Ghost(u[p], w[i])
  <2>1. p \in 1..Len(u) /\ CmdForm(r, u[p]) /\ CmdFits(x, u[p])
    <3>1. p \in 1..Len(u)
      BY <1>3 DEF WireOk
    <3>. QED BY <3>1, <1>3 DEF WireOk
  <2>2. CASE u[p].key = "once"
    <3>1. CmdFits(x, w[i])
      BY <1>3, <2>1, <2>2, GhostFits
    <3>. QED BY <1>1, <3>1, QuietFits
  <2>3. CASE u[p].key \in {"slot", "mutex"}
    <3>1. Named(w[i], k) /\ k \in 1..Len(x.fires)
      BY <1>3, <2>3 DEF Ghost, SameToken, Named
    <3>2. Passes(y, k, w[i])
      BY <3>1
    <3>3. CASE y = Lost
      BY <3>2, <3>3, LostIs DEF CmdFits, Passes
    <3>4. CASE y # Lost
      <4>1. y.used /\ k \in 1..Len(y.fires)
        BY <3>1, <3>4, FiresAre DEF Quiet
      <4>. QED BY <3>1, <3>2, <4>1, PassesFits
    <3>. QED BY <3>3, <3>4
  <2>4. u[p].key \in {"slot", "mutex", "once"}
    BY <2>1, CommandIs DEF CmdForm
  <2>. QED BY <2>2, <2>3, <2>4
<1>. QED BY <1>2, <1>3 DEF Leftover

LEMMA QuietAnswers ==
  ASSUME NEW r, NEW u, NEW J, NEW g, WireOk(r, u, J, g), NEW j \in Jobs, Owner[j] = r,
         NEW x, Answers(u, j, x, g),
         NEW p \in 0..Len(u), NEW w, Leftover(r, u, p, w), NEW y,
         x \in Registrations, y \in Registrations, NEW k, Quiet(x, y, k),
         p # 0 => u[p].job = j,
         p # 0 /\ u[p].for \in {"slot", "mutex", "release"} => u[p].n = k,
         NEW v, Grows(r, j, y, w, v), NEW h,
         y # Lost /\ k \in 1..Len(x.fires) /\ y.fires[k].stage \in {"slot", "mutex", "release"} =>
            Asked(v, j, k, y.fires[k].stage),
         \/ y.removing => Called(v, j)
         \/ (y.removing => x.removing) /\ (p # 0 => u[p].for # "remove"),
         Called(v, j) => \/ y.removing
                         \/ h # j
                         \/ Called(w, j) /\ (x.removing => y.removing),
         g # j => h # j
  PROVE  Answers(v, j, y, h)
<1>1. Answers(u, j, x, g)
  OBVIOUS
<1>2. w \in Seq(Commands) /\ Sole(w) /\ Ordered(w)
  BY DEF Leftover
<1>3. \A i \in 1..Len(w) : i \in 1..Len(v) /\ v[i] = w[i]
  BY <1>2, GrowsIs
<1>4. \A m \in 1..Len(u) : m # p => \E n \in 1..Len(v) : v[n] = u[m]
  <2> SUFFICES ASSUME NEW m \in 1..Len(u), m # p
               PROVE  \E n \in 1..Len(v) : v[n] = u[m]
    OBVIOUS
  <2>1. PICK n \in 1..Len(w) : w[n] = u[m]
    BY DEF Leftover
  <2>. QED BY <2>1, <1>3
<1>5. ASSUME NEW m \in 1..Len(y.fires), y.fires[m].stage \in {"slot", "mutex", "release"}
      PROVE  Asked(v, j, m, y.fires[m].stage)
  <2>1. y # Lost
    BY <1>5, LostIs
  <2>2. m \in 1..Len(x.fires)
    <3>1. Len(x.fires) \in Nat /\ Len(y.fires) \in Nat
      BY FiresAre
    <3>2. \A n \in (Len(x.fires) + 1)..Len(y.fires) : y.fires[n].stage \in {"armed", "over"}
      BY <2>1 DEF Quiet
    <3>3. m \notin (Len(x.fires) + 1)..Len(y.fires)
      BY <1>5, <3>2
    <3>. QED BY <3>1, <3>3
  <2>3. CASE m = k
    BY <1>5, <2>1, <2>2, <2>3
  <2>4. CASE m # k
    <3>1. Kept(x.fires[m], y.fires[m])
      BY <2>1, <2>2, <2>4 DEF Quiet
    <3>2. x.fires[m].stage = y.fires[m].stage
      BY <3>1, <1>5 DEF Kept
    <3>3. Asked(u, j, m, y.fires[m].stage)
      BY <1>1, <1>5, <2>2, <3>2 DEF Answers
    <3>4. PICK i \in 1..Len(u) : u[i].job = j /\ u[i].n = m /\ u[i].for = y.fires[m].stage
      BY <3>3 DEF Asked
    <3>5. i # p
      <4>1. i = p => p # 0
        OBVIOUS
      <4>. QED BY <1>5, <2>4, <3>4, <4>1
    <3>. QED BY <3>4, <3>5, <1>4 DEF Asked
  <2>. QED BY <2>3, <2>4
<1>6. y.removing => Called(v, j)
  <2>1. CASE (y.removing => x.removing) /\ (p # 0 => u[p].for # "remove") /\ y.removing
    <3>1. PICK m \in 1..Len(u) : u[m].for = "remove" /\ u[m].job = j
      BY <1>1, <2>1 DEF Answers, Called
    <3>2. m # p
      <4>1. m = p => p # 0
        OBVIOUS
      <4>. QED BY <2>1, <3>1, <4>1
    <3>. QED BY <3>1, <3>2, <1>4 DEF Called
  <2>. QED BY <2>1
<1>7. Called(v, j) => y.removing \/ h # j
  <2> SUFFICES ASSUME Called(w, j), x.removing => y.removing
               PROVE  y.removing \/ h # j
    OBVIOUS
  <2>1. PICK i \in 1..Len(w) : w[i].for = "remove" /\ w[i].job = j
    BY DEF Called
  <2>2. Stays(u, p, w[i])
    BY <2>1 DEF Leftover, Ghost
  <2>3. Called(u, j)
    BY <2>1, <2>2 DEF Stays, Called
  <2>. QED BY <2>3 DEF Answers
<1>. QED BY <1>5, <1>6, <1>7 DEF Answers
-----------------------------------------------------------------------------
(* The parts of a step that concern the locks: what becomes of fire k, of the  *)
(* name that registration j holds, and of the slots that were run.            *)
Tame(x, y, k) ==
  \/ y = Lost
  \/ /\ Len(x.fires) <= Len(y.fires)
     /\ \A m \in 1..Len(x.fires) : m # k => Kept(x.fires[m], y.fires[m])
     /\ \A m \in (Len(x.fires) + 1)..Len(y.fires) : y.fires[m].stage \in {"armed", "over"}
FireGoes(r, p, w, x, y, k) ==
  y # Lost /\ k # 0 =>
    LET f == x.fires[k]
        g == y.fires[k]
        c == wire[r][p]
    IN  /\ g.stage # "armed"
        /\ g.stage \in {"running", "backoff"} =>
             \/ f.stage \in {"running", "backoff"} /\ g.until = f.until
             \/ p # 0 /\ c.for = "mutex" /\ c.n = k /\ c.until > 0 /\ g.until = c.until
        /\ g.stage = "running" => ~f.aborted /\ f.stage # "armed"
        /\ g.stage = "mutex" /\ kind = "every" =>
             /\ p # 0 /\ c.for = "slot" /\ c.n = k /\ c.until > 0
             /\ g.due = c.slot /\ g.since = c.until - Ttl
             /\ \A i \in 1..Len(w) : Stays(wire[r], p, w[i])
TokenGoes(r, p, x, y) ==
  y.token # 0 => \/ y.token = x.token /\ y.until = x.until
                 \/ /\ p # 0 /\ wire[r][p].for = "claim" /\ wire[r][p].n = y.token
                    /\ wire[r][p].until > 0 /\ y.until = wire[r][p].until
Claim(s, t, j, n) == [slot |-> s, since |-> t, job |-> j, fire |-> n]
RunsGo(j, k, x) ==
  \/ runs' = runs
  \/ /\ kind = "every" /\ k \in 1..Len(x.fires) /\ x.fires[k].stage = "mutex"
     /\ runs' = runs \union {Claim(x.fires[k].due, x.fires[k].since, j, k)}
Sends(j, w, v) ==
  v = w \/ \E c : /\ v = Append(w, c)
                  /\ c.key = "slot" =>
                       \/ c.n \in 1..Len(job[j].fires) /\ job[j].fires[c.n].stage = "armed"
                       \/ \E m \in 1..Len(wire[Owner[j]]) : SameToken(wire[Owner[j]][m], c)
Acts(r, j, p, w, k, y, v) ==
  /\ Moved(r, j, p, w, y, v) /\ JobAt(j, y, registry'[r], connected', named')
  /\ k \in 0..Len(job[j].fires) /\ Tame(job[j], y, k) /\ (job[j] = Lost => y = Lost)
  /\ FireGoes(r, p, w, job[j], y, k) /\ TokenGoes(r, p, job[j], y) /\ RunsGo(j, k, job[j])
  /\ Sends(j, w, v)
Acted ==
  \E r \in Replicas, j \in Jobs : \E p, w, k, y, v : Owner[j] = r /\ Acts(r, j, p, w, k, y, v)

Base ==
  /\ kind \in {"every", "delay"} /\ now \in Nat /\ events \in Nat
  /\ Places /\ (\A r \in Replicas : registry[r] # None => Owner[registry[r]] = r)
  /\ job \in [Jobs -> Registrations] /\ JobsOk /\ Wires

LEMMA QuietTame ==
  ASSUME NEW r, NEW p, NEW x, NEW y, NEW k, Quiet(x, y, k)
  PROVE  Tame(x, y, k) /\ TokenGoes(r, p, x, y)
<1>1. CASE y = Lost
  BY <1>1, LostIs DEF Tame, TokenGoes
<1>2. CASE y # Lost
  <2>1. Tame(x, y, k)
    BY <1>2 DEF Quiet, Tame
  <2>2. y.token \in {0, x.token} /\ (y.token # 0 => y.until = x.until)
    BY <1>2 DEF Quiet
  <2>. QED BY <2>1, <2>2 DEF TokenGoes
<1>. QED BY <1>1, <1>2

LEMMA SameOk ==
  ASSUME NEW x, x \in Registrations, x.used, NEW k
  PROVE  Quiet(x, x, k)
<1>1. Len(x.fires) \in Nat
  BY FiresAre
<1>2. CASE x = Lost
  BY <1>2, LostIs DEF Quiet
<1>3. CASE x # Lost
  BY <1>1, <1>3 DEF Quiet, Kept
<1>. QED BY <1>2, <1>3

(* A quiet step, put together.                                              *)
Writes(r, j, y, v) == job' = [job EXCEPT ![j] = y] /\ wire' = [wire EXCEPT ![r] = v]
Quietly(r, j, p, w, x, k, y, v) ==
  /\ k \in 0..Len(x.fires) /\ p \in 0..Len(wire[r]) /\ Leftover(r, wire[r], p, w)
  /\ p # 0 => wire[r][p].job = j
  /\ \/ (p # 0 /\ wire[r][p].key \in {"slot", "mutex"}) => (k \in 1..Len(x.fires) /\ wire[r][p].n = k)
     \/ \A i \in 1..Len(w) : Stays(wire[r], p, w[i])
  /\ p # 0 /\ wire[r][p].for \in {"slot", "mutex", "release"} => wire[r][p].n = k
  /\ \A i \in 1..Len(w) : w[i].job = j /\ Named(w[i], k) => Passes(y, k, w[i])
  /\ Grows(r, j, y, w, v) /\ Sends(j, w, v)
  /\ y # Lost /\ k \in 1..Len(x.fires) /\ y.fires[k].stage \in {"slot", "mutex", "release"} =>
       Asked(v, j, k, y.fires[k].stage)
  /\ \/ y.removing => Called(v, j)
     \/ (y.removing => x.removing) /\ (p # 0 => wire[r][p].for # "remove")
  /\ Called(v, j) =>
       (y.removing \/ registry'[r] # j \/ (Called(w, j) /\ (x.removing => y.removing)))
  /\ FireGoes(r, p, w, x, y, k) /\ RunsGo(j, k, x)

LEMMA QuietActs ==
  ASSUME Base, NEW r \in Replicas, NEW j \in Jobs, Owner[j] = r, NEW x, x = job[j], NEW y,
         NEW k, Quiet(x, y, k), x = Lost => y = Lost, NEW p, NEW w, NEW v,
         Quietly(r, j, p, w, x, k, y, v), Writes(r, j, y, v), registry[r] # j => registry'[r] # j,
         Around(r, j), JobAt(j, y, registry'[r], connected', named')
  PROVE  Acted
<1>0. /\ k \in 0..Len(x.fires) /\ p \in 0..Len(wire[r]) /\ Leftover(r, wire[r], p, w)
      /\ p # 0 => wire[r][p].job = j
      /\ \/ (p # 0 /\ wire[r][p].key \in {"slot", "mutex"}) => (k \in 1..Len(x.fires) /\ wire[r][p].n = k)
         \/ \A i \in 1..Len(w) : Stays(wire[r], p, w[i])
      /\ p # 0 /\ wire[r][p].for \in {"slot", "mutex", "release"} => wire[r][p].n = k
      /\ \A i \in 1..Len(w) : w[i].job = j /\ Named(w[i], k) => Passes(y, k, w[i])
      /\ Grows(r, j, y, w, v) /\ Sends(j, w, v)
      /\ y # Lost /\ k \in 1..Len(x.fires) /\ y.fires[k].stage \in {"slot", "mutex", "release"} =>
           Asked(v, j, k, y.fires[k].stage)
      /\ \/ y.removing => Called(v, j)
         \/ (y.removing => x.removing) /\ (p # 0 => wire[r][p].for # "remove")
      /\ Called(v, j) =>
           (y.removing \/ registry'[r] # j \/ (Called(w, j) /\ (x.removing => y.removing)))
      /\ FireGoes(r, p, w, x, y, k) /\ RunsGo(j, k, x)
      /\ job' = [job EXCEPT ![j] = y] /\ wire' = [wire EXCEPT ![r] = v]
  BY DEF Quietly, Writes
<1>1. x \in Registrations /\ y \in Registrations /\ WireOk(r, wire[r], job, registry[r])
  BY DEF Base, Wires, JobAt, JobOk, Formed
<1>2. \A i \in 1..Len(w) : w[i].job = j => CmdFits(y, w[i])
  <2>u. PICK u : u = wire[r]
    OBVIOUS
  <2>J. PICK J : J = job
    OBVIOUS
  <2>1. /\ p \in 0..Len(u) /\ Leftover(r, u, p, w) /\ (p # 0 => u[p].job = j)
        /\ x = J[j] /\ Quiet(x, y, k) /\ (x = Lost => y = Lost)
    BY <1>0, <2>u, <2>J
  <2>2. Covers(u, p, w, x, k)
    BY <1>0, <2>u DEF Covers
  <2>3. Passed(w, j, y, k)
    BY <1>0 DEF Passed
  <2>4. WireOk(r, u, J, registry[r]) /\ x \in Registrations /\ y \in Registrations
    BY <1>1, <2>u, <2>J
  <2>. QED BY ONLY <2>1, <2>2, <2>3, <2>4, QuietKeeps
<1>3. Answers(v, j, y, registry'[r])
  <2> DEFINE h == registry'[r]
  <2>1. /\ registry[r] # j => h # j
        /\ Called(v, j) => (y.removing \/ h # j \/ (Called(w, j) /\ (x.removing => y.removing)))
    BY <1>0
  <2> HIDE DEF h
  <2>2. Answers(wire[r], j, x, registry[r])
    BY <1>1 DEF WireOk
  <2>3. Answers(v, j, y, h)
    BY <1>0, <1>1, <2>1, <2>2, QuietAnswers
  <2>. QED BY <2>3 DEF h
<1>4. Moved(r, j, p, w, y, v)
  BY <1>0, <1>2, <1>3 DEF Moved
<1>5. Tame(x, y, k) /\ TokenGoes(r, p, x, y)
  BY QuietTame
<1>. QED BY <1>0, <1>4, <1>5 DEF Acted, Acts

LEMMA SendIs ==
  ASSUME NEW w \in Seq(Commands), NEW c \in Commands, NEW v, v = Append(w, c)
  PROVE  /\ Asked(v, c.job, c.n, c.for)
         /\ c.for = "remove" => Called(v, c.job)
         /\ \A j : Called(w, j) => Called(v, j)
         /\ \A j : Called(v, j) => Called(w, j) \/ (c.for = "remove" /\ c.job = j)
<1>1. /\ v \in Seq(Commands) /\ Len(v) = Len(w) + 1 /\ v[Len(w) + 1] = c /\ Len(w) \in Nat
      /\ \A i \in 1..Len(w) : v[i] = w[i]
  BY AppendDoes
<1>2. Len(w) + 1 \in 1..Len(v) /\ \A i \in 1..Len(w) : i \in 1..Len(v)
  BY <1>1
<1>3. \A i \in 1..Len(v) : i \in 1..Len(w) \/ i = Len(w) + 1
  BY <1>1
<1>. QED BY <1>1, <1>2, <1>3 DEF Asked, Called

(* Every other part of the state, in a step of one registration.             *)
Steady ==
  /\ kind' = kind /\ now' = now /\ lock' = lock /\ events' \in Nat /\ Places'
  /\ \A r \in Replicas : registry'[r] # None => Owner[registry'[r]] = r

(* A step of a registration keeps the invariant.                           *)
LEMMA ActedOk ==
  ASSUME Base, Acted, Steady
  PROVE  Base'
<1>1. PICK r \in Replicas, j \in Jobs : \E p, w, k, y, v : Owner[j] = r /\ Acts(r, j, p, w, k, y, v)
  BY DEF Acted
<1>2. PICK p, w, k, y, v : Acts(r, j, p, w, k, y, v)
  BY <1>1
<1>3. Moved(r, j, p, w, y, v) /\ JobAt(j, y, registry'[r], connected', named')
  BY <1>2 DEF Acts
<1>4. Wires'
  BY <1>1, <1>3, MovedOk DEF Base
<1>5. JobsOk' /\ job' \in [Jobs -> Registrations]
  BY <1>1, <1>3, JobsMove DEF Base, Steady, Moved
<1>6. kind' \in {"every", "delay"} /\ now' \in Nat /\ events' \in Nat /\ Places'
      /\ \A q \in Replicas : registry'[q] # None => Owner[registry'[q]] = q
  BY DEF Base, Steady
<1>. QED BY <1>4, <1>5, <1>6 DEF Base

LEMMA SettledKeeps ==
  ASSUME NEW r, NEW j, NEW reg, NEW x \in Registrations
  PROVE  Settled(r, j, reg, x) = Lost \/ Settled(r, j, reg, x).removing = x.removing
<1> DEFINE y == [x EXCEPT !.flight = FALSE, !.rearm = FALSE]
<1>1. y \in Registrations /\ y.removing = x.removing
  BY DEF Registrations
<1>2. Settled(r, j, reg, x) \in {Collected(y), Resumed(r, y), y}
  BY DEF Settled
<1> HIDE DEF y
<1>3. Collected(y) = y \/ Collected(y) = Lost
  BY DEF Collected, Lost
<1>4. Resumed(r, y).removing = y.removing
  <2> DEFINE z == [y EXCEPT !.paused = FALSE, !.dropped = FALSE]
  <2>1. z \in Registrations /\ z.removing = y.removing
    BY <1>1 DEF Registrations
  <2> HIDE DEF z
  <2>2. Armed(z, NextDue(r)).removing = z.removing
    BY <2>1 DEF Armed, Registrations
  <2>. QED BY <2>1, <2>2 DEF Resumed, z
<1>. QED BY <1>1, <1>2, <1>3, <1>4

LEMMA LeavesKeeps ==
  ASSUME NEW r, NEW j \in Jobs, job \in [Jobs -> Registrations], NEW x \in Registrations, NEW k,
         k \in 1..Len(x.fires), x.handle \in 0..Len(x.fires), NEW w, Leaves(r, j, x, k, w)
  PROVE  job'[j] = Lost \/ job'[j].removing = x.removing
<1> DEFINE here == registry[r] = j
           c == IF here THEN Cleared(x) ELSE x
           d == [c EXCEPT !.fires[k] = Over]
<1>1. job'[j] = Settled(r, j, registry'[r], d)
  BY DEF Leaves
<1>2. c \in Registrations /\ Len(c.fires) = Len(x.fires) /\ c.removing = x.removing
  <2>1. /\ Cleared(x) \in Registrations /\ Cleared(x) = [x EXCEPT !.fires = Cleared(x).fires]
        /\ Len(Cleared(x).fires) = Len(x.fires)
    BY ClearedIs
  <2>2. Alike(x, [x EXCEPT !.fires = Cleared(x).fires])
    BY AlikeIs
  <2>3. Cleared(x).removing = x.removing
    BY <2>1, <2>2, Zenon DEF Alike
  <2>. QED BY <2>1, <2>3
<1> HIDE DEF c
<1>3. d \in Registrations /\ Alike(c, d)
  BY <1>2, FireOver
<1> HIDE DEF d
<1>4. Settled(r, j, registry'[r], d) = Lost \/ Settled(r, j, registry'[r], d).removing = d.removing
  BY <1>3, SettledKeeps
<1>. QED BY <1>1, <1>2, <1>3, <1>4, Zenon DEF Alike

LEMMA FinishKeeps ==
  ASSUME NEW r \in Replicas, NEW j \in Jobs, job \in [Jobs -> Registrations], now \in Nat,
         NEW x \in Registrations, NEW k, k \in 1..Len(x.fires), x.handle \in 0..Len(x.fires),
         NEW w, Finish(r, j, x, k, w)
  PROVE  job'[j] = Lost \/ job'[j].removing = x.removing
<1> DEFINE f == x.fires[k]
           e == [x EXCEPT !.fires[k] = Over]
           d == IF Rearms(r, x, f) THEN Armed(e, NextSlot(r)) ELSE e
<1>1. e \in Registrations /\ Alike(x, e)
  BY FireOver
<1>2. e.removing = x.removing
  BY <1>1, Zenon DEF Alike
<1>3. d \in Registrations /\ d.removing = x.removing
  <2> HIDE DEF e
  <2>1. NextSlot(r) \in Nat
    BY TimesAre
  <2>2. Armed(e, NextSlot(r)) \in Registrations /\ Rest(e, Armed(e, NextSlot(r)))
    BY <1>1, <2>1, ArmedIs
  <2>3. Armed(e, NextSlot(r)).removing = e.removing
    BY <2>2, Zenon DEF Rest
  <2>. QED BY <1>1, <1>2, <2>2, <2>3
<1>4. \/ job'[j] = Settled(r, j, registry[r], d)
      \/ job'[j] = Settled(r, j, registry[r], e)
      \/ Leaves(r, j, x, k, w)
      \/ job'[j] = [Unheld(x) EXCEPT !.fires[k].stage = "leave"]
  BY DEF Finish
<1>5. CASE job'[j] = [Unheld(x) EXCEPT !.fires[k].stage = "leave"]
  BY <1>5 DEF Unheld, Registrations
<1> HIDE DEF e, d
<1>6. CASE job'[j] = Settled(r, j, registry[r], d)
  BY <1>6, <1>3, SettledKeeps
<1>7. CASE job'[j] = Settled(r, j, registry[r], e)
  BY <1>7, <1>1, <1>2, SettledKeeps
<1>8. CASE Leaves(r, j, x, k, w)
  BY <1>8, LeavesKeeps
<1>. QED BY <1>4, <1>5, <1>6, <1>7, <1>8
-----------------------------------------------------------------------------
(* The actions.  A fire ends.                                               *)
Begun(x, z) ==
  /\ z.fires = x.fires /\ z.token = x.token /\ z.minted = x.minted /\ z.until = x.until
  /\ z.wait = x.wait /\ z.used = x.used /\ z.removing = x.removing
(* What was answered or given up, if anything, was awaited by fire k.          *)
Awaits(c, p, x, j, k) ==
  /\ p = 0 => x.fires[k].stage = "armed"
  /\ p # 0 => /\ c.job = j
              /\ \/ c.n = k /\ c.for = x.fires[k].stage /\ c.for \in {"slot", "mutex", "release"}
                 \/ x.fires[k].stage = "leave" /\ c.for = "leave"

(* The end of a fire is a step of its registration.                        *)
LEMMA FinishActs ==
  ASSUME Base, NEW r \in Replicas, NEW j \in Jobs, Owner[j] = r, NEW x, x = job[j],
         NEW z, Begun(x, z), NEW k, NEW h, NEW on, NEW nm, Ending(z, k, h, on, nm),
         NEW p, p \in 0..Len(wire[r]), NEW w, Leftover(r, wire[r], p, w),
         Awaits(wire[r][p], p, x, j, k), NEW y, NEW v, Finishes(r, j, z, k, w, y, v),
         y = Lost \/ y.removing = x.removing,
         UNCHANGED <<kind, now, connected, lock, runs>>, events' \in Nat
  PROVE  Acted /\ Steady
<1> DEFINE u == wire[r]
           c == Del("once", 0, j, z.token, "leave")
<1>1. /\ x \in Registrations /\ WireOk(r, u, job, registry[r]) /\ w \in Seq(Commands)
      /\ Len(u) \in Nat /\ JobAt(j, y, registry'[r], connected', named') /\ y \in Registrations
      /\ kind \in {"every", "delay"}
  BY DEF Base, Wires, Leftover, Finishes, JobAt, JobOk, Formed
<1>2. /\ k \in 1..Len(x.fires) /\ k \in 0..Len(x.fires) /\ x.fires[k].stage # "over" /\ x # Lost
      /\ Formed(z)
  <2>1. k \in 1..Len(x.fires) /\ x.fires[k].stage # "over" /\ Formed(z)
    BY DEF Begun, Ending
  <2>. QED BY <2>1, <1>1, FiresAre, LostIs
<1>3. Quiet(x, y, k)
  <2>1. Quiet(z, y, k)
    BY DEF Finishes
  <2>. QED BY <2>1 DEF Quiet, Begun
<1>4. \/ v = w /\ Done(y, k)
      \/ /\ v = Append(w, c) /\ z.token # 0 /\ y # Lost /\ y.fires[k].stage = "leave"
         /\ y.token = 0
  BY DEF Finishes
<1>5. ASSUME NEW m \in 1..Len(u), m # p, u[m].job = j, Named(u[m], k)
      PROVE  u[m].key = "mutex" /\ x.fires[k].stage = "leave" /\ u[m].for \in {"late", "nobody"}
  <2>1. /\ k \in 1..Len(job[j].fires) /\ job[j].fires[k].stage # "over"
        /\ job[j].fires[k].stage \in {"slot", "mutex", "release"} =>
             p # 0 /\ u[p].job = j /\ u[p].n = k /\ u[p].for = job[j].fires[k].stage
    BY <1>2 DEF Awaits
  <2>2. u[m].key = "mutex" /\ job[j].fires[k].stage = "leave" /\ u[m].for \in {"late", "nobody"}
    <3> HIDE DEF u
    <3>1. WireOk(r, u, job, registry[r]) /\ p \in 0..Len(u)
      BY <1>1 DEF u
    <3>. QED BY <3>1, <1>5, <2>1, NamedAlone
  <2>. QED BY <2>2
<1>6. p # 0 => p \in 1..Len(u) /\ CmdForm(r, u[p]) /\ CmdFits(x, u[p])
  BY <1>1 DEF WireOk, Awaits
<1>7. ASSUME NEW i \in 1..Len(w), w[i].job = j, Named(w[i], k)
      PROVE  Passes(y, k, w[i])
  <2>1. CASE Stays(u, p, w[i])
    <3>1. w[i].key = "mutex" /\ w[i].for \in {"late", "nobody"}
      BY <1>5, <1>7, <2>1 DEF Stays
    <3>. QED BY <3>1, <1>4 DEF Passes
  <2>2. CASE p # 0 /\ Ghost(u[p], w[i])
    <3>1. u[p].key = w[i].key /\ w[i].for \in {"late", "nobody"} /\ u[p].key \in {"slot", "mutex"}
      BY <1>7, <2>2 DEF Ghost, SameToken, Named
    <3>2. u[p].for = x.fires[k].stage /\ u[p].for \in {"slot", "mutex", "release"}
      BY <1>6, <2>2, <3>1 DEF Awaits, CmdForm
    <3>3. z.token # 0 => u[p].key = "mutex"
      <4>1. z.token # 0 => x.fires[k].stage # "slot"
        BY <1>1, <1>2 DEF Formed, Begun
      <4>. QED BY <4>1, <3>2, <1>6, <2>2 DEF CmdForm
    <3>. QED BY <3>1, <3>3, <1>4 DEF Passes
  <2>. QED BY <2>1, <2>2 DEF Leftover
<1>9. z.token # 0 => c \in Commands /\ CmdForm(r, c) /\ ~c.done /\ c.job = j /\ c.key = "once"
                     /\ c.n = z.token /\ c.for = "leave"
  <2>1. z.token # 0 => Token("once", 0, j, z.token)
    BY <1>2 DEF Token, Formed, Registrations
  <2>2. z.token # 0 =>
          /\ c \in Commands /\ c.op = "del" /\ c.key = "once" /\ c.slot = 0 /\ c.job = j
          /\ c.n = z.token /\ c.for = "leave" /\ c.done = FALSE /\ c.until = 0
    BY <2>1 DEF Del, Set, Commands, Token
  <2> HIDE DEF c
  <2>. QED BY <2>2 DEF CmdForm
<1> HIDE DEF c
<1>10. Grows(r, j, y, w, v)
  <2> SUFFICES ASSUME v # w
               PROVE  Joins(r, j, y, w, c)
    BY <1>4 DEF Grows
  <2>1. z.token # 0 /\ y # Lost /\ y.token = 0 /\ z.token = x.token /\ x.token \in 1..x.minted
    BY <1>2, <1>4, FiresAre DEF Formed, Begun
  <2>2. y.minted = x.minted /\ y.used
    BY <1>3, <2>1 DEF Quiet
  <2>3. CmdFits(y, c)
    BY <1>9, <2>1, <2>2 DEF CmdFits
  <2>4. ASSUME NEW i \in 1..Len(w), w[i].for \in Waiting, SameToken(w[i], c)
        PROVE  FALSE
    <3>1. Stays(u, p, w[i])
      BY <2>4 DEF Leftover, Ghost, Waiting
    <3>2. CmdForm(r, w[i]) /\ CmdFits(x, w[i])
      BY <3>1, <1>1, <1>9, <2>1, <2>4 DEF Stays, WireOk, SameToken
    <3>. QED BY <3>2, <2>1, <2>4, <1>2, <1>9 DEF CmdFits, SameToken
  <2>. QED BY <1>9, <2>1, <2>3, <2>4 DEF Joins, Waiting
<1>11. Sends(j, w, v)
  BY <1>4, <1>9 DEF Sends
<1>12. y # Lost => y.fires[k].stage \in {"over", "leave"}
  BY <1>4 DEF Done
<1>13. (y.removing => x.removing) /\ (p # 0 => u[p].for # "remove")
  BY LostIs DEF Awaits
<1>14. Called(v, j) => (y.removing \/ registry'[r] # j \/ (Called(w, j) /\ (x.removing => y.removing)))
  <2>1. CASE y = Lost
    <3>1. PICK h2, on2, nm2 \in BOOLEAN :
             Flags(j, registry'[r], connected', named', h2, on2, nm2) /\ JobOk(y, h2, on2, nm2)
      BY <1>1 DEF JobAt
    <3>2. ~h2
      BY <2>1, <3>1, LostIsGone
    <3>. QED BY <3>1, <3>2 DEF Flags
  <2>2. CASE y # Lost
    <3>1. Called(v, j) => Called(w, j)
      <4>1. CASE v = w
        BY <4>1
      <4>2. CASE v # w
        <5>1. v = Append(w, c) /\ c \in Commands /\ c.for # "remove"
          BY <4>2, <1>4, <1>9
        <5>. QED BY <5>1, <1>1, SendIs
      <4>. QED BY <4>1, <4>2
    <3>2. y.removing = x.removing
      BY <2>2
    <3>. QED BY <3>1, <3>2
  <2>. QED BY <2>1, <2>2
<1>15. /\ registry[r] # j => registry'[r] # j
       /\ Around(r, j) /\ registry'[r] \in {registry[r], None}
       /\ job' = [job EXCEPT ![j] = y] /\ wire' = [wire EXCEPT ![r] = v]
       /\ registry' \in [Replicas -> Jobs \union {None}] /\ named' \in SUBSET Replicas
  BY JobsAssumption DEF Finishes
<1>16. FireGoes(r, p, w, x, y, k) /\ RunsGo(j, k, x)
  BY <1>12 DEF FireGoes, RunsGo
<1>17. p # 0 => u[p].job = j
  BY DEF Awaits
<1>18. \/ p # 0 /\ u[p].key \in {"slot", "mutex"} => k \in 1..Len(x.fires) /\ u[p].n = k
       \/ \A i \in 1..Len(w) : Stays(u, p, w[i])
  BY <1>2, <1>6 DEF Awaits, CmdForm
<1>19. p # 0 /\ u[p].for \in {"slot", "mutex", "release"} => u[p].n = k
  BY DEF Awaits
<1>20. Acted
  <2>1. Quietly(r, j, p, w, x, k, y, v)
    BY <1>2, <1>7, <1>10, <1>11, <1>12, <1>13, <1>14, <1>16, <1>17, <1>18, <1>19 DEF Quietly
  <2>2. Writes(r, j, y, v)
    BY <1>15 DEF Writes
  <2>. QED BY <1>1, <1>2, <1>3, <1>15, <2>1, <2>2, QuietActs
<1>21. Steady
  BY <1>15 DEF Base, Steady, Places, Around
<1>. QED BY <1>20, <1>21

(* A fire goes on, and sends the command it then waits for.                  *)
Asking(r, j, k, x, g, d) ==
  /\ CmdForm(r, d) /\ d.job = j /\ d.n = k /\ d.for = g.stage /\ ~d.done
  /\ g.stage \in {"slot", "mutex", "release"}
  /\ d.key = "slot" => d.slot = g.due /\ x.fires[k].stage = "armed"
Asks(r, j, k, x, g, w, v) ==
  \/ v = w /\ g.stage \in {"running", "backoff"}
  \/ \E d : Asking(r, j, k, x, g, d) /\ v = Append(w, d)
Responds(c, p, x, j, k) ==
  /\ x.fires[k].stage # "leave"
  /\ p = 0 => x.fires[k].stage \notin {"slot", "mutex", "release"}
  /\ p # 0 => c.job = j /\ c.n = k /\ c.for = x.fires[k].stage /\ c.for \in {"slot", "mutex", "release"}

Fired(z, k, g, y) == y = [z EXCEPT !.fires[k] = g]

(* Fire k of registration j goes on as g, which may ask the server.          *)
Goes(r, j, p, w, x, z, k, g, y, v) ==
  /\ r \in Replicas /\ j \in Jobs /\ Owner[j] = r /\ x = job[j] /\ Begun(x, z)
  /\ p \in 0..Len(wire[r]) /\ Leftover(r, wire[r], p, w)
  /\ \A i \in 1..Len(w) : Stays(wire[r], p, w[i])
  /\ Responds(wire[r][p], p, x, j, k)
  /\ g \in Tries /\ g.stage \notin {"armed", "over", "leave"} /\ g.aborted = x.fires[k].aborted
  /\ x.fires[k].stage = "armed" => kind = "every" \/ z.claim = "claimed"
  /\ kind = "delay" => g.stage # "slot"
  /\ Fired(z, k, g, y) /\ Asks(r, j, k, x, g, w, v) /\ Writes(r, j, y, v)
  /\ FireGoes(r, p, w, x, y, k) /\ RunsGo(j, k, x)
  /\ UNCHANGED <<kind, now, connected, registry, named, lock>> /\ events' \in Nat
Sits(r, j, z, k) ==
  \E h, on, nm \in BOOLEAN :
     Flags(j, registry[r], connected, named, h, on, nm) /\ Ending(z, k, h, on, nm)

LEMMA GoesActs ==
  ASSUME Base, NEW r, NEW j, NEW p, NEW w, NEW x, NEW z, NEW k, NEW g, NEW y, NEW v,
         Sits(r, j, z, k), Goes(r, j, p, w, x, z, k, g, y, v)
  PROVE  Acted /\ Steady
<1>0. /\ r \in Replicas /\ j \in Jobs /\ Owner[j] = r /\ x = job[j] /\ Begun(x, z)
      /\ p \in 0..Len(wire[r]) /\ Leftover(r, wire[r], p, w)
      /\ \A i \in 1..Len(w) : Stays(wire[r], p, w[i])
      /\ Responds(wire[r][p], p, x, j, k)
      /\ g \in Tries /\ g.stage \notin {"armed", "over", "leave"} /\ g.aborted = x.fires[k].aborted
      /\ x.fires[k].stage = "armed" => kind = "every" \/ z.claim = "claimed"
      /\ kind = "delay" => g.stage # "slot"
      /\ Fired(z, k, g, y) /\ Asks(r, j, k, x, g, w, v) /\ Writes(r, j, y, v)
      /\ FireGoes(r, p, w, x, y, k) /\ RunsGo(j, k, x)
      /\ UNCHANGED <<kind, now, connected, registry, named, lock>> /\ events' \in Nat
  BY DEF Goes
<1>h. PICK h, on, nm \in BOOLEAN :
         Flags(j, registry[r], connected, named, h, on, nm) /\ Ending(z, k, h, on, nm)
  BY DEF Sits
<1> USE <1>0, <1>h
<1> DEFINE u == wire[r]
<1>1. /\ x \in Registrations /\ WireOk(r, u, job, registry[r]) /\ w \in Seq(Commands)
      /\ Len(u) \in Nat /\ kind \in {"every", "delay"}
  BY DEF Base, Wires, Leftover, JobAt, JobOk, Formed
<1>2. /\ k \in 1..Len(x.fires) /\ k \in 0..Len(x.fires) /\ x.fires[k].stage # "over" /\ x # Lost
      /\ z \in Registrations
  <2>1. k \in 1..Len(x.fires) /\ x.fires[k].stage # "over" /\ Formed(z)
    BY DEF Begun, Ending
  <2>. QED BY <2>1, <1>1, FiresAre, LostIs DEF Formed
<1>3. /\ JobOk(y, h, on, nm) /\ Quiet(z, y, k) /\ y.fires[k] = g /\ y.token = z.token
      /\ Len(y.fires) = Len(z.fires) /\ y \in Registrations
  <2>1. g.stage # "leave" /\ g.aborted = z.fires[k].aborted
        /\ (z.fires[k].stage = "armed" => kind = "every" \/ z.claim = "claimed")
    BY DEF Begun
  <2>2. kind = "every" => g.stage # "leave"
    OBVIOUS
  <2> DEFINE a == [z EXCEPT !.fires[k] = g]
  <2>3. /\ JobOk(a, h, on, nm) /\ Quiet(z, a, k) /\ a.fires[k] = g /\ a.token = z.token
        /\ Len(a.fires) = Len(z.fires) /\ a \in Registrations
    <3>1. /\ Ending(z, k, h, on, nm) /\ g \in Tries /\ g.stage \notin {"armed", "over"}
          /\ kind \in {"every", "delay"} /\ (kind = "delay" => g.stage # "slot")
      BY <1>1
    <3>. QED BY ONLY <3>1, <2>1, <2>2, MovesOk
  <2>4. y = a
    BY DEF Fired
  <2> HIDE DEF a
  <2>. QED BY <2>3, <2>4
<1>4. Quiet(x, y, k)
  BY <1>3 DEF Quiet, Begun
<1>5. y # Lost /\ y.used /\ y.removing = x.removing /\ Len(y.fires) = Len(x.fires)
  <2>0. z.fires = x.fires
    BY DEF Begun
  <2>1. y # Lost
    BY ONLY <2>0, <1>2, <1>3, LostIs
  <2>2. y.removing = z.removing
    BY <1>2 DEF Registrations, Fired
  <2>. QED BY <1>3, <1>4, <2>1, <2>2, Zenon DEF Quiet, Begun
<1>6. JobAt(j, y, registry'[r], connected', named')
  BY <1>3 DEF JobAt
<1>7. ASSUME NEW m \in 1..Len(u), m # p, u[m].job = j, Named(u[m], k)
      PROVE  FALSE
  <2>1. /\ k \in 1..Len(job[j].fires) /\ job[j].fires[k].stage # "over"
        /\ job[j].fires[k].stage \in {"slot", "mutex", "release"} =>
             p # 0 /\ u[p].job = j /\ u[p].n = k /\ u[p].for = job[j].fires[k].stage
    BY <1>2 DEF Responds
  <2>2. u[m].key = "mutex" /\ job[j].fires[k].stage = "leave" /\ u[m].for \in {"late", "nobody"}
    <3> HIDE DEF u
    <3>1. WireOk(r, u, job, registry[r]) /\ p \in 0..Len(u)
      BY <1>1 DEF u
    <3>2. m \in 1..Len(u) /\ m # p /\ u[m].job = j /\ Named(u[m], k)
      BY <1>7
    <3>. QED BY ONLY <3>1, <3>2, <2>1, NamedAlone, SMTT(30)
  <2>. QED BY <2>2 DEF Responds
<1>8. ASSUME NEW i \in 1..Len(w), w[i].job = j, Named(w[i], k)
      PROVE  FALSE
  BY <1>7, <1>8 DEF Stays
<1>9. ASSUME NEW d, Asking(r, j, k, x, g, d)
      PROVE  d \in Commands /\ Joins(r, j, y, w, d) /\ d.for # "remove"
             /\ (d.key = "slot" => d.n \in 1..Len(job[j].fires) /\ job[j].fires[d.n].stage = "armed")
  <2>1. d \in Commands /\ CmdForm(r, d) /\ d.for = g.stage /\ d.n = k /\ d.job = j /\ ~d.done
        /\ g.stage \in {"slot", "mutex", "release"}
    BY <1>9 DEF Asking, CmdForm
  <2>2. CmdFits(y, d)
    BY <1>2, <1>3, <1>5, <1>9, <2>1 DEF CmdFits, CmdForm, Asking
  <2>3. ASSUME NEW i \in 1..Len(w), SameToken(w[i], d)
        PROVE  FALSE
    <3>1. w[i].job = j /\ Named(w[i], k)
      BY <2>1, <2>3 DEF SameToken, Named, CmdForm
    <3>. QED BY <3>1, <1>8
  <2>. QED BY <1>2, <1>9, <2>1, <2>2, <2>3 DEF Joins, Asking
<1>10. Grows(r, j, y, w, v) /\ Sends(j, w, v)
  BY <1>9 DEF Asks, Grows, Sends
<1>11. y.fires[k].stage \in {"slot", "mutex", "release"} => Asked(v, j, k, y.fires[k].stage)
  <2> SUFFICES ASSUME g.stage \in {"slot", "mutex", "release"}
               PROVE  Asked(v, j, k, g.stage)
    BY <1>3
  <2>1. PICK d : Asking(r, j, k, x, g, d) /\ v = Append(w, d)
    BY DEF Asks
  <2>2. Asked(v, d.job, d.n, d.for)
    BY <2>1, <1>1, <1>9, SendIs
  <2>. QED BY <2>1, <2>2 DEF Asking
<1>12. Called(v, j) => Called(w, j)
  <2>1. CASE v = w
    BY <2>1
  <2>2. CASE v # w
    <3>1. PICK d : Asking(r, j, k, x, g, d) /\ v = Append(w, d)
      BY <2>2 DEF Asks
    <3>. QED BY <3>1, <1>1, <1>9, SendIs
  <2>. QED BY <2>1, <2>2
<1>13. (y.removing => x.removing) /\ (p # 0 => u[p].for # "remove")
  BY <1>5 DEF Responds
<1>14. Called(v, j) => (y.removing \/ registry'[r] # j \/ (Called(w, j) /\ (x.removing => y.removing)))
  BY <1>5, <1>12
<1>15. Around(r, j) /\ (registry[r] # j => registry'[r] # j)
       /\ job' = [job EXCEPT ![j] = y] /\ wire' = [wire EXCEPT ![r] = v]
  BY DEF Around, Writes
<1>16. /\ p # 0 => u[p].job = j
       /\ p # 0 /\ u[p].for \in {"slot", "mutex", "release"} => u[p].n = k
  BY DEF Responds
<1>17. Acted
  <2>1. Quietly(r, j, p, w, x, k, y, v)
    BY <1>2, <1>8, <1>10, <1>11, <1>13, <1>14, <1>16 DEF Quietly
  <2>. QED BY <1>1, <1>2, <1>4, <1>5, <1>6, <1>15, <2>1, QuietActs
<1>18. Steady
  BY DEF Base, Steady, Places
<1>. QED BY <1>17, <1>18

LEMMA FireAt ==
  ASSUME Base, NEW j \in Jobs, NEW k
  PROVE  LET x == job[j]
         IN  /\ x \in Registrations /\ Owner[j] \in Replicas /\ Begun(x, x)
             /\ k \in DOMAIN x.fires => k \in 1..Len(x.fires) /\ k \in Nat /\ k # 0 /\ x.fires[k] \in Tries
             /\ WireOk(Owner[j], wire[Owner[j]], job, registry[Owner[j]])
             /\ wire[Owner[j]] \in Seq(Commands) /\ 0 \in 0..Len(wire[Owner[j]])
<1>1. job[j] \in Registrations /\ Owner[j] \in Replicas
  BY JobsAssumption DEF Base
<1>2. WireOk(Owner[j], wire[Owner[j]], job, registry[Owner[j]])
  BY <1>1 DEF Base, Wires
<1>3. wire[Owner[j]] \in Seq(Commands)
  BY <1>2 DEF WireOk
<1>4. 0 \in 0..Len(wire[Owner[j]])
  BY <1>3
<1>. QED BY <1>1, <1>2, <1>3, <1>4, FiresAre DEF Begun

(* The handler runs, fails, waits and is tried again.                        *)
LEMMA TurnsActs ==
  ASSUME Base, NEW j \in Jobs, NEW k, k \in DOMAIN job[j].fires,
         job[j].fires[k].stage \in {"running", "backoff"}, NEW g, g \in Tries,
         g.stage \in {"running", "backoff", "release"}, g.aborted = job[j].fires[k].aborted,
         g.until = job[j].fires[k].until \/ g.stage = "release", g.stage = "running" => ~g.aborted,
         NEW v, Asks(Owner[j], j, k, job[j], g, wire[Owner[j]], v),
         job' = [job EXCEPT ![j].fires[k] = g], wire' = [wire EXCEPT ![Owner[j]] = v],
         UNCHANGED <<kind, now, connected, registry, named, lock, runs, events>>
  PROVE  Acted /\ Steady
<1>r. PICK r : r = Owner[j]
  OBVIOUS
<1>x. PICK x : x = job[j]
  OBVIOUS
<1>w. PICK w : w = wire[r]
  OBVIOUS
<1>1. /\ x \in Registrations /\ r \in Replicas /\ Begun(x, x)
      /\ k \in 1..Len(x.fires) /\ k \in Nat /\ k # 0 /\ x.fires[k] \in Tries
      /\ WireOk(r, w, job, registry[r]) /\ w \in Seq(Commands) /\ 0 \in 0..Len(w)
  BY <1>r, <1>x, <1>w, FireAt
<1>y. PICK y : y = [x EXCEPT !.fires[k] = g]
  OBVIOUS
<1>2. g \in Tries /\ g.aborted = x.fires[k].aborted
      /\ g.stage \notin {"armed", "over", "leave"} /\ g.stage # "slot" /\ g.stage # "mutex"
      /\ x.fires[k].stage # "armed"
  BY <1>x
<1>3. job' = [job EXCEPT ![j] = y] /\ wire' = [wire EXCEPT ![r] = v]
  <2>1. job \in [Jobs -> Registrations]
    BY DEF Base
  <2>2. job' = [job EXCEPT ![j].fires[k] = g] /\ wire' = [wire EXCEPT ![r] = v]
    BY <1>r
  <2>. QED BY ONLY <2>1, <2>2, <1>y, <1>x
<1>4. y.fires[k] = g
  BY ONLY <1>y, <1>1, <1>2, FireSet
<1>5. FireGoes(r, 0, w, x, y, k) /\ RunsGo(j, k, x)
  BY <1>2, <1>4, <1>x DEF FireGoes, RunsGo
<1>6. Asks(r, j, k, x, g, w, v)
  BY <1>r, <1>x, <1>w
<1>7. PICK h, on, nm \in BOOLEAN :
         Flags(j, registry[r], connected, named, h, on, nm) /\ JobOk(x, h, on, nm)
  BY <1>r, <1>x DEF Base, JobsOk, JobAt
<1>8. Ending(x, k, h, on, nm)
  BY <1>1, <1>7, <1>x, EndingIs
<1>9. Leftover(r, wire[r], 0, w) /\ (\A i \in 1..Len(w) : Stays(wire[r], 0, w[i]))
      /\ 0 \in 0..Len(wire[r])
  BY <1>1, <1>w, NoneLeaves
<1>10. Responds(wire[r][0], 0, x, j, k)
  BY <1>x DEF Responds
<1>11. events' \in Nat
  BY <1>2, <1>x DEF Base
<1>12. Fired(x, k, g, y) /\ Writes(r, j, y, v) /\ r \in Replicas /\ Owner[j] = r /\ j \in Jobs
       /\ UNCHANGED <<kind, now, connected, registry, named, lock>>
  BY <1>r, <1>y, <1>1, <1>3 DEF Fired, Writes
<1>13. Base
  OBVIOUS
<1>14. Sits(r, j, x, k)
  BY ONLY <1>7, <1>8 DEF Sits
<1>15. Goes(r, j, 0, w, x, x, k, g, y, v)
  BY ONLY <1>12, <1>x, <1>1, <1>2, <1>5, <1>6, <1>9, <1>10, <1>11 DEF Goes
<1>. QED BY ONLY <1>13, <1>14, <1>15, GoesActs

LEMMA EndsActs ==
  ASSUME Base, NEW j \in Jobs, NEW k, k \in DOMAIN job[j].fires, NEW out,
         out \in {"succeeded", "failed", "cancelled"}, Ends(j, k, out),
         job[j].fires[k].stage \in {"running", "backoff"},
         UNCHANGED <<kind, now, connected, registry, named, lock, runs, events>>
  PROVE  Acted /\ Steady
<1>f. PICK f : f = job[j].fires[k]
  OBVIOUS
<1>1. f \in Tries /\ k \in Nat /\ k # 0
  BY <1>f, FireAt
<1>g. PICK g : g = [Over EXCEPT !.stage = "release", !.outcome = out, !.aborted = f.aborted]
  OBVIOUS
<1>2. g \in Tries /\ g.stage = "release" /\ g.aborted = f.aborted
  BY <1>1, <1>g, OverIs DEF Tries, Fires, Stages
<1>d. PICK d : d = Del("mutex", 0, j, k, "release")
  OBVIOUS
<1>v. PICK v : v = Append(wire[Owner[j]], d)
  OBVIOUS
<1>3. job' = [job EXCEPT ![j].fires[k] = g] /\ wire' = [wire EXCEPT ![Owner[j]] = v]
  BY <1>f, <1>g, <1>d, <1>v DEF Ends, Base
<1>4. Asks(Owner[j], j, k, job[j], g, wire[Owner[j]], v)
  <2>1. Token("mutex", 0, j, k)
    BY <1>1 DEF Token
  <2>2. /\ d \in Commands /\ d.op = "del" /\ d.key = "mutex" /\ d.slot = 0 /\ d.job = j
        /\ d.n = k /\ d.for = "release" /\ d.done = FALSE /\ d.until = 0
    BY <2>1, <1>d DEF Del, Set, Commands, Token
  <2>3. Asking(Owner[j], j, k, job[j], g, d)
    BY <2>2, <1>2 DEF Asking, CmdForm
  <2>. QED BY <2>3, <1>v DEF Asks
<1>. QED BY <1>2, <1>3, <1>4, <1>f, TurnsActs

(* An attempt that ends, and a timer that is due.                          *)
LEMMA HandlerActs ==
  ASSUME Base, NEW j \in Jobs, NEW k, k \in DOMAIN job[j].fires,
         HandlerEnds(j, k) \/ BackoffEnds(j, k)
  PROVE  Acted /\ Steady
<1>f. PICK f : f = job[j].fires[k]
  OBVIOUS
<1>1. f \in Tries /\ k \in Nat /\ k # 0 /\ wire \in [Replicas -> Seq(Commands)]
      /\ Owner[j] \in Replicas /\ job \in [Jobs -> Registrations]
  BY <1>f, FireAt DEF Base, Wires
<1>2. UNCHANGED <<kind, now, connected, registry, named, lock, runs, events>>
      /\ f.stage \in {"running", "backoff"}
  BY <1>f DEF HandlerEnds, BackoffEnds
<1>3. CASE \E out \in {"succeeded", "failed", "cancelled"} : Ends(j, k, out)
  BY <1>2, <1>3, <1>f, EndsActs
<1>4. ASSUME NEW g, g \in Tries, g.stage \in {"running", "backoff"}, g.aborted = f.aborted,
             g.until = f.until, g.stage = "running" => ~f.aborted, UNCHANGED wire,
             job' = [job EXCEPT ![j].fires[k] = g]
      PROVE  Acted /\ Steady
  <2>1. Asks(Owner[j], j, k, job[j], g, wire[Owner[j]], wire[Owner[j]])
    BY <1>4 DEF Asks
  <2>2. wire' = [wire EXCEPT ![Owner[j]] = wire[Owner[j]]]
    BY <1>4, <1>1
  <2>. QED BY <1>2, <1>4, <1>f, <2>1, <2>2, TurnsActs
<1>5. CASE f.stage = "running" /\ f.attempt < Limit
           /\ job' = [job EXCEPT ![j].fires[k].stage = "backoff"] /\ UNCHANGED wire
  <2>g. PICK g : g = [f EXCEPT !.stage = "backoff"]
    OBVIOUS
  <2>1. g \in Tries /\ g.stage = "backoff" /\ g.aborted = f.aborted /\ g.until = f.until
    BY <2>g, <1>1, <1>5 DEF Tries, Fires, Stages
  <2>2. job' = [job EXCEPT ![j].fires[k] = g]
    BY <1>5, <2>g, <1>f, <1>1
  <2>. QED BY <2>1, <2>2, <1>4, <1>5
<1>6. CASE f.stage = "backoff" /\ ~f.aborted /\ UNCHANGED wire
           /\ job' = [job EXCEPT ![j].fires[k] = [f EXCEPT !.stage = "running", !.attempt = @ + 1]]
  <2>n. PICK n : n = f.attempt + 1
    OBVIOUS
  <2>1. n \in 0..Limit
    <3>1. f.attempt \in 0..Limit /\ f.attempt < Limit
      BY <1>1, <1>6 DEF Tries, Fires
    <3>2. Limit \in Nat
      BY TimeAssumption
    <3>. QED BY ONLY <3>1, <3>2, <2>n
  <2>g. PICK g : g = [f EXCEPT !.stage = "running", !.attempt = n]
    OBVIOUS
  <2>2. g \in Tries /\ g.stage = "running" /\ g.aborted = f.aborted /\ g.until = f.until
    BY ONLY <2>g, <1>1, <2>1 DEF Tries, Fires, Stages
  <2>3. job' = [job EXCEPT ![j].fires[k] = g]
    BY <1>6, <2>g, <2>n
  <2>. QED BY <2>2, <2>3, <1>4, <1>6
<1>7. CASE HandlerEnds(j, k)
  BY <1>3, <1>5, <1>7, <1>f DEF HandlerEnds
<1>8. CASE BackoffEnds(j, k)
  BY <1>3, <1>6, <1>8, <1>f DEF BackoffEnds
<1>. QED BY <1>7, <1>8

LEMMA DueActs ==
  ASSUME Base, NEW j \in Jobs, NEW k, k \in DOMAIN job[j].fires, Due(j, k)
  PROVE  Acted /\ Steady
<1>r. PICK r : r = Owner[j]
  OBVIOUS
<1>x. PICK x : x = job[j]
  OBVIOUS
<1>w. PICK w : w = wire[r]
  OBVIOUS
<1>z. PICK z : z = [x EXCEPT !.flight = TRUE]
  OBVIOUS
<1>f. PICK f : f = x.fires[k]
  OBVIOUS
<1>1. /\ x \in Registrations /\ r \in Replicas
      /\ k \in 1..Len(x.fires) /\ k \in Nat /\ k # 0 /\ f \in Tries /\ Len(x.fires) \in Nat
      /\ WireOk(r, w, job, registry[r]) /\ w \in Seq(Commands) /\ 0 \in 0..Len(w)
  BY <1>r, <1>x, <1>w, <1>f, FireAt, FiresAre
<1>2. f.stage = "armed" /\ UNCHANGED <<kind, now, connected, lock, runs, events>>
  BY <1>x, <1>f DEF Due
<1>3. PICK h, on, nm \in BOOLEAN :
         Flags(j, registry[r], connected, named, h, on, nm) /\ JobOk(x, h, on, nm)
  BY <1>r, <1>x DEF Base, JobsOk, JobAt
<1>4. Ending(z, k, h, on, nm)
  BY ONLY <1>1, <1>2, <1>3, <1>z, <1>f, DueEnding
<1>5. Begun(x, z) /\ z \in Registrations /\ z.handle = x.handle /\ z.fires = x.fires
      /\ z.claim = x.claim
  BY ONLY <1>1, <1>z DEF Registrations, Begun
<1>6. Leftover(r, wire[r], 0, w) /\ (\A i \in 1..Len(w) : Stays(wire[r], 0, w[i]))
      /\ 0 \in 0..Len(wire[r])
  BY <1>1, <1>w, NoneLeaves
<1>7. events' \in Nat /\ kind \in {"every", "delay"} /\ Places /\ now \in Nat
      /\ job \in [Jobs -> Registrations] /\ wire \in [Replicas -> Seq(Commands)]
  BY <1>2 DEF Base, Wires
<1>8. r \in Replicas /\ Owner[j] = r /\ j \in Jobs
  BY <1>1, <1>r
<1>9. Base
  OBVIOUS
<1>10. ASSUME NEW s \in {"slot", "mutex"}, NEW slot, slot = (IF s = "slot" THEN f.due ELSE 0),
              job' = [job EXCEPT ![j] = [z EXCEPT !.fires[k].stage = s]],
              wire' = [wire EXCEPT ![r] = Append(@, Set(s, slot, j, k, s))],
              UNCHANGED <<registry, named>>, s = "slot" <=> kind = "every",
              kind = "every" \/ x.claim = "claimed"
       PROVE  Acted /\ Steady
  <2>g. PICK g : g = [f EXCEPT !.stage = s]
    OBVIOUS
  <2>1. g \in Tries /\ g.stage = s /\ g.aborted = f.aborted /\ g.due = f.due
    BY ONLY <2>g, <1>1, s \in {"slot", "mutex"} DEF Tries, Fires, Stages
  <2>y. PICK y : y = [z EXCEPT !.fires[k] = g]
    OBVIOUS
  <2>d. PICK d : d = Set(s, slot, j, k, s)
    OBVIOUS
  <2>v. PICK v : v = Append(w, d)
    OBVIOUS
  <2>2. Fired(z, k, g, y) /\ Writes(r, j, y, v)
    <3>1. [z EXCEPT !.fires[k].stage = s] = [z EXCEPT !.fires[k] = g]
      BY ONLY <1>5, <2>g, <1>f, <1>1
    <3>2. job' = [job EXCEPT ![j] = y]
      BY <1>10, <3>1, <2>y
    <3>3. wire' = [wire EXCEPT ![r] = v]
      BY <1>10, <1>7, <1>8, <2>d, <2>v, <1>w
    <3>. QED BY <2>y, <3>2, <3>3 DEF Fired, Writes
  <2>3. y.fires[k] = g
    BY ONLY <2>y, <1>1, <1>5, <2>1, FireSet
  <2>4. FireGoes(r, 0, w, x, y, k) /\ RunsGo(j, k, x)
    BY <1>2, <1>10, <2>1, <2>3, <1>f DEF FireGoes, RunsGo
  <2>5. Asks(r, j, k, x, g, w, v)
    <3>1. f.due \in Nat
      BY <1>1 DEF Tries, Fires
    <3>2. Token(s, slot, j, k)
      BY <1>1, <1>10, <3>1 DEF Token
    <3>3. /\ d \in Commands /\ d.op = "set" /\ d.key = s /\ d.slot = slot /\ d.job = j
          /\ d.n = k /\ d.for = s /\ d.done = FALSE /\ d.until = 0
      BY <3>2, <2>d DEF Set, Commands, Token
    <3>4. Asking(r, j, k, x, g, d)
      BY <3>3, <2>1, <1>8, <1>10, <1>2, <1>f DEF Asking, CmdForm
    <3>. QED BY <3>4, <2>v DEF Asks
  <2>6. Responds(wire[r][0], 0, x, j, k)
    BY <1>2, <1>f DEF Responds
  <2>7. /\ g.stage \notin {"armed", "over", "leave"} /\ g.aborted = x.fires[k].aborted
        /\ x.fires[k].stage = "armed" => kind = "every" \/ z.claim = "claimed"
        /\ kind = "delay" => g.stage # "slot"
        /\ UNCHANGED <<kind, now, connected, registry, named, lock>>
    BY <1>10, <2>1, <1>2, <1>f, <1>5
  <2>8. Sits(r, j, z, k)
    BY ONLY <1>3, <1>4 DEF Sits
  <2>9. Goes(r, j, 0, w, x, z, k, g, y, v)
    BY ONLY <1>x, <1>5, <1>6, <1>7, <1>8, <2>1, <2>2, <2>4, <2>5, <2>6, <2>7 DEF Goes
  <2>. QED BY ONLY <1>9, <2>8, <2>9, GoesActs
<1>11. CASE kind = "every"
  <2>1. /\ job' = [job EXCEPT ![j] = [z EXCEPT !.fires[k].stage = "slot"]]
        /\ wire' = [wire EXCEPT ![r] = Append(@, Set("slot", f.due, j, k, "slot"))]
        /\ UNCHANGED <<registry, named>>
    BY <1>11, <1>r, <1>x, <1>z, <1>f DEF Due
  <2>. QED BY <2>1, <1>10, <1>11
<1>12. CASE kind = "delay" /\ x.claim = "claimed"
  <2>1. /\ job' = [job EXCEPT ![j] = [z EXCEPT !.fires[k].stage = "mutex"]]
        /\ wire' = [wire EXCEPT ![r] = Append(@, Set("mutex", 0, j, k, "mutex"))]
        /\ UNCHANGED <<registry, named>>
    <3>1. z.claim = "claimed"
      BY <1>5, <1>12
    <3>. QED BY <1>12, <3>1, <1>r, <1>x, <1>z, <1>f DEF Due
  <2>. QED BY <2>1, <1>10, <1>12
<1>13. CASE kind = "delay" /\ x.claim # "claimed"
  <2>1. Finish(r, j, z, k, w)
    <3>1. z.claim # "claimed"
      BY <1>5, <1>13
    <3>. QED BY <1>13, <3>1, <1>r, <1>x, <1>z, <1>f, <1>w DEF Due
  <2>2. PICK y, v : Finishes(r, j, z, k, w, y, v)
    BY <2>1, <1>2, <1>3, <1>4, <1>7, <1>8, FinishDoes
  <2>3. y = Lost \/ y.removing = x.removing
    <3>1. k \in 1..Len(z.fires) /\ z.handle \in 0..Len(z.fires) /\ z.removing = x.removing
      BY <1>1, <1>3, <1>5 DEF JobOk, Formed, Begun
    <3>2. job'[j] = Lost \/ job'[j].removing = z.removing
      BY <2>1, <3>1, <1>5, <1>7, <1>8, FinishKeeps
    <3>3. job'[j] = y
      BY <2>2, <1>7 DEF Finishes
    <3>. QED BY <3>1, <3>2, <3>3
  <2>4. Awaits(wire[r][0], 0, x, j, k)
    BY <1>2, <1>f DEF Awaits
  <2>. QED BY <1>x, <1>2, <1>4, <1>5, <1>6, <1>7, <1>8, <1>9, <2>2, <2>3, <2>4, FinishActs
<1>. QED BY <1>7, <1>11, <1>12, <1>13
-----------------------------------------------------------------------------
(* Whoever waits for a command goes on.                                     *)
Returns(r, p, w, c, result) ==
  /\ r \in Replicas /\ p \in 1..Len(wire[r]) /\ c = wire[r][p] /\ Leftover(r, wire[r], p, w)
  /\ c.for # "nobody" /\ result \in {"won", "lost", "failed"}
  /\ result = "won" => c.until > 0
  /\ result # "failed" \/ c.for = "late" => \A i \in 1..Len(w) : Stays(wire[r], p, w[i])
Still == UNCHANGED <<kind, now, connected, lock>> /\ events' \in Nat

LEMMA ReturnIs ==
  ASSUME Base, NEW r, NEW p, NEW w, NEW c, NEW result, Returns(r, p, w, c, result)
  PROVE  /\ r \in Replicas /\ p \in 1..Len(wire[r]) /\ p \in 0..Len(wire[r]) /\ p # 0
         /\ c = wire[r][p] /\ CmdForm(r, c) /\ c \in Commands /\ c.job \in Jobs /\ Owner[c.job] = r
         /\ c.n \in Nat /\ c.n # 0 /\ c.until \in Nat /\ c.slot \in Nat
         /\ CmdFits(job[c.job], c) /\ job[c.job] \in Registrations
         /\ Begun(job[c.job], job[c.job])
         /\ WireOk(r, wire[r], job, registry[r]) /\ wire \in [Replicas -> Seq(Commands)]
         /\ w \in Seq(Commands) /\ Len(w) \in Nat /\ Leftover(r, wire[r], p, w)
<1>1. /\ r \in Replicas /\ p \in 1..Len(wire[r]) /\ c = wire[r][p] /\ Leftover(r, wire[r], p, w)
  BY DEF Returns
<1>2. WireOk(r, wire[r], job, registry[r]) /\ wire \in [Replicas -> Seq(Commands)]
  BY <1>1 DEF Base, Wires
<1>3. CmdForm(r, c) /\ CmdFits(job[c.job], c)
  BY <1>1, <1>2 DEF WireOk
<1>4. c \in Commands /\ Owner[c.job] = r
  BY <1>3 DEF CmdForm
<1>5. c.job \in Jobs /\ c.n \in Nat /\ c.n # 0 /\ c.until \in Nat /\ c.slot \in Nat
  BY <1>4, CommandIs
<1>6. job[c.job] \in Registrations
  BY <1>5 DEF Base
<1>7. w \in Seq(Commands) /\ Len(w) \in Nat /\ wire[r] \in Seq(Commands)
  BY <1>1, <1>2 DEF Leftover
<1>8. p \in 0..Len(wire[r]) /\ p # 0
  BY <1>1, <1>7
<1>. QED BY <1>1, <1>2, <1>3, <1>4, <1>5, <1>6, <1>7, <1>8 DEF Begun

(* A fire that gave up its command, and one that was released, ends.         *)
LEMMA OutActs ==
  ASSUME Base, NEW r, NEW p, NEW w, NEW c, NEW result, Returns(r, p, w, c, result), Still,
         UNCHANGED runs, c.for \in {"slot", "mutex", "release"},
         Finish(r, c.job, job[c.job], c.n, w)
  PROVE  Acted /\ Steady
<1>j. PICK j : j = c.job
  OBVIOUS
<1>x. PICK x : x = job[j]
  OBVIOUS
<1>k. PICK k : k = c.n
  OBVIOUS
<1>1. /\ r \in Replicas /\ p \in 0..Len(wire[r]) /\ p # 0 /\ c = wire[r][p] /\ CmdForm(r, c)
      /\ j \in Jobs /\ Owner[j] = r /\ CmdFits(x, c) /\ x \in Registrations /\ Begun(x, x)
      /\ Leftover(r, wire[r], p, w)
  BY <1>j, <1>x, ReturnIs
<1>2. k \in 1..Len(x.fires) /\ x.fires[k].stage = c.for
  BY <1>1, <1>k, LostIs DEF CmdFits, CmdForm
<1>3. PICK h, on, nm \in BOOLEAN :
         Flags(j, registry[r], connected, named, h, on, nm) /\ JobOk(x, h, on, nm)
  <2>1. JobAt(j, job[j], registry[Owner[j]], connected, named) /\ Owner[j] = r
    BY <1>1 DEF Base, JobsOk
  <2>. QED BY ONLY <2>1, <1>x DEF JobAt
<1>4. Ending(x, k, h, on, nm)
  BY <1>2, <1>3, EndingIs
<1>5. /\ events' \in Nat /\ kind \in {"every", "delay"} /\ Places /\ now \in Nat
      /\ job \in [Jobs -> Registrations] /\ UNCHANGED <<kind, now, connected, lock, runs>>
  BY DEF Base, Still
<1>6. Finish(r, j, x, k, w)
  BY <1>j, <1>x, <1>k
<1>7. PICK y, v : Finishes(r, j, x, k, w, y, v)
  BY <1>1, <1>3, <1>4, <1>5, <1>6, FinishDoes
<1>8. y = Lost \/ y.removing = x.removing
  <2>1. x.handle \in 0..Len(x.fires)
    BY <1>3 DEF JobOk, Formed
  <2>2. job'[j] = Lost \/ job'[j].removing = x.removing
    BY <1>1, <1>2, <1>5, <1>6, <2>1, FinishKeeps
  <2>3. job'[j] = y
    BY <1>1, <1>5, <1>7 DEF Finishes
  <2>. QED BY <2>2, <2>3
<1>9. Awaits(wire[r][p], p, x, j, k)
  BY <1>1, <1>2, <1>j, <1>k DEF Awaits
<1>. QED BY <1>x, <1>1, <1>4, <1>5, <1>7, <1>8, <1>9, FinishActs

LEMMA LeftActs ==
  ASSUME Base, NEW r, NEW p, NEW w, NEW c, NEW result, Returns(r, p, w, c, result), Still,
         UNCHANGED runs, c.for = "leave", NEW k, k \in DOMAIN job[c.job].fires,
         job[c.job].fires[k].stage = "leave", Leaves(r, c.job, job[c.job], k, w)
  PROVE  Acted /\ Steady
<1>j. PICK j : j = c.job
  OBVIOUS
<1>x. PICK x : x = job[j]
  OBVIOUS
<1>1. /\ r \in Replicas /\ p \in 0..Len(wire[r]) /\ p # 0 /\ c = wire[r][p] /\ CmdForm(r, c)
      /\ j \in Jobs /\ Owner[j] = r /\ x \in Registrations /\ Begun(x, x)
      /\ Leftover(r, wire[r], p, w)
  BY <1>j, <1>x, ReturnIs
<1>2. k \in 1..Len(x.fires) /\ x.fires[k].stage = "leave"
  BY <1>1, <1>j, <1>x, FireAt
<1>3. PICK h, on, nm \in BOOLEAN :
         Flags(j, registry[r], connected, named, h, on, nm) /\ JobOk(x, h, on, nm)
  BY <1>1, <1>x DEF Base, JobsOk, JobAt
<1>4. Ending(x, k, h, on, nm)
  BY <1>2, <1>3, EndingIs
<1>5. /\ events' \in Nat /\ kind \in {"every", "delay"} /\ Places /\ now \in Nat
      /\ job \in [Jobs -> Registrations] /\ UNCHANGED <<kind, now, connected, lock, runs>>
  BY DEF Base, Still
<1>6. Leaves(r, j, x, k, w)
  BY <1>j, <1>x
<1>7. PICK y : Finishes(r, j, x, k, w, y, w)
  BY <1>1, <1>3, <1>4, <1>5, <1>6, LeavesDoes
<1>8. y = Lost \/ y.removing = x.removing
  <2>1. x.handle \in 0..Len(x.fires)
    BY <1>3 DEF JobOk, Formed
  <2>2. job'[j] = Lost \/ job'[j].removing = x.removing
    BY <1>1, <1>2, <1>5, <1>6, <2>1, LeavesKeeps
  <2>3. job'[j] = y
    BY <1>1, <1>5, <1>7 DEF Finishes
  <2>. QED BY <2>2, <2>3
<1>9. Awaits(wire[r][p], p, x, j, k)
  BY <1>1, <1>2, <1>j DEF Awaits
<1>. QED BY <1>x, <1>1, <1>4, <1>5, <1>7, <1>8, <1>9, FinishActs

(* A slot or the mutex was won.                                             *)
LEMMA WonActs ==
  ASSUME Base, NEW r, NEW p, NEW w, NEW c, NEW result, Returns(r, p, w, c, result), Still,
         result = "won", c.for \in {"slot", "mutex"}, NEW g, g \in Tries,
         g.aborted = job[c.job].fires[c.n].aborted, NEW v,
         \/ /\ c.for = "slot" /\ g.stage = "mutex" /\ g.due = job[c.job].fires[c.n].due
            /\ g.since = c.until - Ttl /\ UNCHANGED runs
            /\ v = Append(w, Set("mutex", 0, c.job, c.n, "mutex"))
         \/ /\ c.for = "mutex" /\ g.stage = "release" /\ UNCHANGED runs
            /\ v = Append(w, Del("mutex", 0, c.job, c.n, "release"))
         \/ /\ c.for = "mutex" /\ g.stage = "running" /\ ~g.aborted /\ g.until = c.until
            /\ RunsGo(c.job, c.n, job[c.job]) /\ v = w,
         job' = [job EXCEPT ![c.job].fires[c.n] = g], wire' = [wire EXCEPT ![r] = v],
         UNCHANGED <<registry, named>>
  PROVE  Acted /\ Steady
<1>j. PICK j : j = c.job
  OBVIOUS
<1>x. PICK x : x = job[j]
  OBVIOUS
<1>k. PICK k : k = c.n
  OBVIOUS
<1>1. /\ r \in Replicas /\ p \in 0..Len(wire[r]) /\ p # 0 /\ c = wire[r][p] /\ CmdForm(r, c)
      /\ j \in Jobs /\ Owner[j] = r /\ CmdFits(x, c) /\ x \in Registrations /\ Begun(x, x)
      /\ Leftover(r, wire[r], p, w) /\ k \in Nat /\ k # 0
  BY <1>j, <1>x, <1>k, ReturnIs
<1>2. k \in 1..Len(x.fires) /\ x.fires[k].stage = c.for /\ c.until > 0
      /\ (\A i \in 1..Len(w) : Stays(wire[r], p, w[i]))
      /\ (c.for = "slot" => c.slot = x.fires[k].due)
  BY <1>1, <1>k, LostIs DEF CmdFits, CmdForm, Returns
<1>3. PICK h, on, nm \in BOOLEAN :
         Flags(j, registry[r], connected, named, h, on, nm) /\ JobOk(x, h, on, nm)
  <2>1. JobAt(j, job[j], registry[Owner[j]], connected, named) /\ Owner[j] = r
    BY <1>1 DEF Base, JobsOk
  <2>. QED BY ONLY <2>1, <1>x DEF JobAt
<1>4. Ending(x, k, h, on, nm)
  BY <1>2, <1>3, EndingIs
<1>5. /\ events' \in Nat /\ kind \in {"every", "delay"} /\ job \in [Jobs -> Registrations]
      /\ UNCHANGED <<kind, now, connected, registry, named, lock>>
  BY DEF Base, Still
<1>y. PICK y : y = [x EXCEPT !.fires[k] = g]
  OBVIOUS
<1>6. Fired(x, k, g, y) /\ Writes(r, j, y, v)
  <2>1. job' = [job EXCEPT ![j].fires[k] = g]
    BY <1>j, <1>k
  <2>2. job' = [job EXCEPT ![j] = y]
    BY ONLY <2>1, <1>5, <1>y, <1>x, <1>1
  <2>. QED BY <2>2, <1>y DEF Fired, Writes
<1>7. y.fires[k] = g
  BY ONLY <1>y, <1>1, <1>2, g \in Tries, FireSet
<1>8. Asks(r, j, k, x, g, w, v)
  <2>1. Token("mutex", 0, j, k)
    BY <1>1 DEF Token

  <2>3. ASSUME c.for = "slot"
        PROVE  Asks(r, j, k, x, g, w, v)
    <3>d. PICK d : d = Set("mutex", 0, j, k, "mutex")
      OBVIOUS
    <3>1. /\ d \in Commands /\ d.op = "set" /\ d.for = "mutex" /\ d.key = "mutex" /\ d.slot = 0
          /\ d.job = j /\ d.n = k /\ d.done = FALSE /\ d.until = 0
      BY ONLY <2>1, <3>d DEF Set, Commands, Token
    <3>2. v = Append(w, d) /\ g.stage = "mutex"
      BY <2>3, <3>d, <1>j, <1>k
    <3>3. Asking(r, j, k, x, g, d)
      BY ONLY <3>1, <3>2, <1>1 DEF Asking, CmdForm
    <3>. QED BY <3>2, <3>3 DEF Asks
  <2>4. ASSUME c.for = "mutex", g.stage = "release"
        PROVE  Asks(r, j, k, x, g, w, v)
    <3>d. PICK d : d = Del("mutex", 0, j, k, "release")
      OBVIOUS
    <3>1. /\ d \in Commands /\ d.op = "del" /\ d.for = "release" /\ d.key = "mutex" /\ d.slot = 0
          /\ d.job = j /\ d.n = k /\ d.done = FALSE /\ d.until = 0
      BY ONLY <2>1, <3>d DEF Del, Set, Commands, Token
    <3>2. v = Append(w, d)
      BY <2>4, <3>d, <1>j, <1>k
    <3>3. Asking(r, j, k, x, g, d)
      BY ONLY <2>4, <3>1, <1>1 DEF Asking, CmdForm
    <3>. QED BY <3>2, <3>3 DEF Asks
  <2>5. ASSUME c.for = "mutex", g.stage = "running"
        PROVE  Asks(r, j, k, x, g, w, v)
    BY <2>5 DEF Asks
  <2>. QED BY <2>3, <2>4, <2>5
<1>9. FireGoes(r, p, w, x, y, k)
  <2>1. /\ g.stage # "armed" /\ g.stage # "backoff"
        /\ g.stage = "running" => /\ p # 0 /\ c.for = "mutex" /\ c.n = k /\ c.until > 0
                                  /\ g.until = c.until /\ ~x.fires[k].aborted
        /\ g.stage = "mutex" => /\ p # 0 /\ c.for = "slot" /\ c.n = k /\ c.until > 0
                                /\ g.due = c.slot /\ g.since = c.until - Ttl
    BY <1>1, <1>2, <1>j, <1>x, <1>k
  <2>. QED BY <2>1, <1>1, <1>2, <1>7 DEF FireGoes
<1>10. RunsGo(j, k, x)
  BY <1>j, <1>x, <1>k DEF RunsGo
<1>11. Responds(wire[r][p], p, x, j, k)
  BY <1>1, <1>2, <1>j, <1>k DEF Responds
<1>12. /\ g.stage \notin {"armed", "over", "leave"} /\ g.aborted = x.fires[k].aborted
       /\ x.fires[k].stage # "armed" /\ g.stage # "slot" /\ g \in Tries
  BY <1>2, <1>j, <1>x, <1>k
<1>13. Base
  OBVIOUS
<1>14. Sits(r, j, x, k)
  BY ONLY <1>3, <1>4 DEF Sits
<1>15. Goes(r, j, p, w, x, x, k, g, y, v)
  BY ONLY <1>x, <1>1, <1>2, <1>5, <1>6, <1>8, <1>9, <1>10, <1>11, <1>12 DEF Goes
<1>. QED BY ONLY <1>13, <1>14, <1>15, GoesActs

(* No command is named 0: steps that move no fire.                           *)
LEMMA NobodyNamed ==
  ASSUME NEW w, w \in Seq(Commands), NEW i \in 1..Len(w)
  PROVE  ~Named(w[i], 0)
<1>1. w[i] \in Commands
  OBVIOUS
<1>. QED BY <1>1, CommandIs DEF Named

LEMMA NoneGoes ==
  ASSUME NEW r, NEW p, NEW w, NEW x, NEW y, NEW j, UNCHANGED runs
  PROVE  FireGoes(r, p, w, x, y, 0) /\ RunsGo(j, 0, x) /\ Sends(j, w, w)
  BY DEF FireGoes, RunsGo, Sends

(* The answer of a command that nobody waits for, by who sent it.          *)
LEMMA LateActs ==
  ASSUME Base, NEW r, NEW p, NEW w, NEW c, NEW result, Returns(r, p, w, c, result), Still,
         c.for = "late", UNCHANGED <<job, registry, named, runs>>, NEW v,
         wire' = [wire EXCEPT ![r] = v],
         v = w \/ v = Append(w, Del(c.key, c.slot, c.job, c.n, "nobody"))
  PROVE  Acted /\ Steady
<1>j. PICK j : j = c.job
  OBVIOUS
<1>x. PICK x : x = job[j]
  OBVIOUS
<1>u. PICK u : u = wire[r]
  OBVIOUS
<1>1. /\ r \in Replicas /\ p \in 0..Len(u) /\ p \in 1..Len(u) /\ p # 0 /\ c = u[p] /\ CmdForm(r, c)
      /\ j \in Jobs /\ Owner[j] = r /\ CmdFits(x, c) /\ x \in Registrations
      /\ Leftover(r, u, p, w) /\ w \in Seq(Commands) /\ WireOk(r, u, job, registry[r])
  BY <1>j, <1>x, <1>u, ReturnIs
<1>2. \A i \in 1..Len(w) : Stays(u, p, w[i])
  BY <1>u DEF Returns
<1>3. job \in [Jobs -> Registrations] /\ events' \in Nat
      /\ JobAt(j, x, registry[r], connected, named) /\ Len(x.fires) \in Nat
      /\ UNCHANGED <<kind, now, connected, lock>>
  BY <1>1, <1>x, FiresAre DEF Base, JobsOk, Still
<1>d. PICK d : d = Del(c.key, c.slot, c.job, c.n, "nobody")
  OBVIOUS
<1>4. /\ d \in Commands /\ CmdForm(r, d) /\ Ghost(c, d) /\ d.for = "nobody" /\ ~d.done /\ d.job = j
  <2>1. d \in Commands /\ CmdForm(r, d) /\ Ghost(c, d)
    BY <1>1, <1>d, UndoIs
  <2>2. d.for = "nobody"
    BY <1>d DEF Del, Set
  <2>. QED BY <2>1, <2>2, <1>j DEF CmdForm, Ghost, SameToken
<1>5. CmdFits(x, d)
  BY <1>1, <1>4, LostIs DEF CmdFits, Ghost, SameToken
<1>6. Joins(r, j, x, w, d)
  <2>1. ASSUME NEW i \in 1..Len(w), w[i].for \in Waiting, SameToken(w[i], d)
        PROVE  FALSE
    <3>1. PICK m \in 1..Len(u) : m # p /\ w[i] = u[m]
      BY <1>2 DEF Stays
    <3>2. SameToken(u[m], u[p])
      BY <2>1, <3>1, <1>1, <1>4 DEF SameToken, Ghost
    <3>. QED BY <2>1, <3>1, <3>2, <1>1 DEF WireOk, Sole
  <2>. QED BY <1>4, <1>5, <2>1 DEF Joins, Waiting
<1>7. Grows(r, j, x, w, v)
  BY <1>6, <1>d DEF Grows
<1>8. Sends(j, w, v)
  <2>1. SameToken(u[p], d)
    BY <1>1, <1>4 DEF Ghost
  <2>. QED BY <2>1, <1>1, <1>d, <1>u DEF Sends
<1>9. Called(v, j) => Called(w, j)
  BY <1>1, <1>4, <1>d, SendIs
<1>10. Quiet(x, x, 0) /\ 0 \in 0..Len(x.fires)
  <2>1. x.used
    BY <1>1 DEF CmdFits
  <2>. QED BY <2>1, <1>1, <1>3, SameOk
<1>11. FireGoes(r, p, w, x, x, 0) /\ RunsGo(j, 0, x)
  BY NoneGoes
<1>12. job' = [job EXCEPT ![j] = x] /\ Around(r, j) /\ registry'[r] = registry[r]
       /\ JobAt(j, x, registry'[r], connected', named')
  BY <1>1, <1>3, <1>x DEF Around
<1>13. \A i \in 1..Len(w) : ~Named(w[i], 0)
  BY <1>1, NobodyNamed
<1>14. Acted
  <2>1. /\ Leftover(r, wire[r], p, w) /\ p \in 0..Len(wire[r]) /\ wire[r][p].for = "late"
        /\ wire[r][p].job = j /\ (\A i \in 1..Len(w) : Stays(wire[r], p, w[i]))
    BY <1>1, <1>2, <1>u, <1>j
  <2>2. Writes(r, j, x, v)
    BY <1>12 DEF Writes
  <2>3. 0 \notin 1..Len(x.fires) /\ (p # 0 => wire[r][p].job = j)
        /\ (p # 0 /\ wire[r][p].for \in {"slot", "mutex", "release"} => wire[r][p].n = 0)
    BY <1>3, <2>1
  <2>4. Quietly(r, j, p, w, x, 0, x, v)
    BY ONLY <1>7, <1>8, <1>9, <1>10, <1>11, <1>13, <2>1, <2>3 DEF Quietly
  <2>. QED BY <1>1, <1>x, <1>10, <1>12, <2>2, <2>4, QuietActs
<1>15. Steady
  BY <1>3 DEF Base, Steady, Places
<1>. QED BY <1>14, <1>15

LEMMA GoneActs ==
  ASSUME Base, NEW r, NEW p, NEW w, NEW c, NEW result, Returns(r, p, w, c, result), Still,
         UNCHANGED runs, c.for = "remove",
         registry' = IF registry[r] = c.job THEN [registry EXCEPT ![r] = None] ELSE registry,
         named' = IF registry[r] = c.job THEN named \ {r} ELSE named,
         job' = [job EXCEPT ![c.job] = Collected([job[c.job] EXCEPT !.removing = FALSE])],
         wire' = [wire EXCEPT ![r] = w]
  PROVE  Acted /\ Steady
<1>j. PICK j : j = c.job
  OBVIOUS
<1>x. PICK x : x = job[j]
  OBVIOUS
<1>u. PICK u : u = wire[r]
  OBVIOUS
<1>z. PICK z : z = [x EXCEPT !.removing = FALSE]
  OBVIOUS
<1>y. PICK y : y = Collected(z)
  OBVIOUS
<1>1. /\ r \in Replicas /\ p \in 0..Len(u) /\ p \in 1..Len(u) /\ p # 0 /\ c = u[p] /\ CmdForm(r, c)
      /\ j \in Jobs /\ Owner[j] = r /\ CmdFits(x, c) /\ x \in Registrations
      /\ Leftover(r, u, p, w) /\ w \in Seq(Commands) /\ WireOk(r, u, job, registry[r])
  BY <1>j, <1>x, <1>u, ReturnIs
<1>2. PICK h, on, nm \in BOOLEAN :
         Flags(j, registry[r], connected, named, h, on, nm) /\ JobOk(x, h, on, nm)
  BY <1>1, <1>x DEF Base, JobsOk, JobAt
<1>3. x.used /\ (x.removing \/ ~h)
  <2>1. Answers(u, j, x, registry[r]) /\ Called(u, j)
    BY <1>1, <1>x, <1>j DEF WireOk, Called
  <2>. QED BY <2>1, <1>1, <1>2 DEF Answers, Flags, CmdFits
<1>4. z \in Registrations /\ z.removing = FALSE /\ (x.removing = FALSE => z = x)
  BY ONLY <1>1, <1>z DEF Registrations
<1>5. y = z \/ y = Lost
  BY <1>4, <1>y, CollectedIs
<1>6. y.removing = FALSE /\ (x = Lost => y = Lost)
  BY <1>4, <1>5, LostIs
<1>7. (\A on2, nm2 \in BOOLEAN : JobOk(y, FALSE, on2, nm2)) /\ Quiet(x, y, 0)
  <2>1. \A on2, nm2 \in BOOLEAN : JobOk(y, FALSE, on2, nm2)
    BY ONLY <1>2, <1>3, <1>y, <1>z, LeftOk
  <2>2. Quiet(x, y, 0)
    BY ONLY <1>2, <1>3, <1>y, <1>z, LeftOk
  <2>. QED BY <2>1, <2>2
<1>8. /\ job' = [job EXCEPT ![j] = y] /\ wire' = [wire EXCEPT ![r] = w]
      /\ UNCHANGED <<kind, now, connected, lock, runs>> /\ events' \in Nat
      /\ registry' = (IF registry[r] = j THEN [registry EXCEPT ![r] = None] ELSE registry)
      /\ named' = (IF registry[r] = j THEN named \ {r} ELSE named)
      /\ Places /\ Len(x.fires) \in Nat /\ j # None
  BY <1>1, <1>j, <1>x, <1>y, <1>z, FiresAre, JobsAssumption DEF Still, Base
<1>9. /\ Around(r, j) /\ registry'[r] # j /\ registry' \in [Replicas -> Jobs \union {None}]
      /\ named' \in SUBSET Replicas /\ registry'[r] \in {registry[r], None}
  BY <1>1, <1>8 DEF Places, Around
<1>10. JobAt(j, y, registry'[r], connected', named')
  <2>1. PICK h2, on2, nm2 \in BOOLEAN : Flags(j, registry'[r], connected', named', h2, on2, nm2)
    BY FlagsAre
  <2>2. h2 = FALSE
    BY <2>1, <1>9 DEF Flags
  <2>3. JobOk(y, h2, on2, nm2)
    BY <2>2, <1>7
  <2>. QED BY <2>1, <2>3 DEF JobAt
<1>11. FireGoes(r, p, w, x, y, 0) /\ RunsGo(j, 0, x) /\ Sends(j, w, w)
  BY <1>8, NoneGoes
<1>12. \A i \in 1..Len(w) : ~Named(w[i], 0)
  BY <1>1, NobodyNamed
<1>13. Grows(r, j, y, w, w)
  BY DEF Grows
<1>14. Quiet(x, y, 0) /\ 0 \in 0..Len(x.fires)
  BY ONLY <1>7, <1>8, <1>2
<1>15. Acted
  <2>1. /\ Leftover(r, wire[r], p, w) /\ p \in 0..Len(wire[r]) /\ wire[r][p].for = "remove"
        /\ wire[r][p].job = j /\ wire[r][p].key = "once"
    BY <1>1, <1>u, <1>j DEF CmdForm
  <2>2. y.removing => Called(w, j)
    BY <1>6
  <2>3. Writes(r, j, y, w)
    BY <1>8 DEF Writes
  <2>4. 0 \notin 1..Len(x.fires) /\ (p # 0 => wire[r][p].job = j)
        /\ (p # 0 /\ wire[r][p].for \in {"slot", "mutex", "release"} => wire[r][p].n = 0)
        /\ ~(p # 0 /\ wire[r][p].key \in {"slot", "mutex"})
    BY <1>8, <2>1
  <2>5. Quietly(r, j, p, w, x, 0, y, w)
    BY ONLY <1>9, <1>11, <1>12, <1>13, <1>14, <2>1, <2>2, <2>4 DEF Quietly
  <2>. QED BY <1>1, <1>x, <1>6, <1>9, <1>10, <1>14, <2>3, <2>5, QuietActs
<1>16. Steady
  BY <1>8, <1>9 DEF Base, Steady, Places, Around
<1>. QED BY <1>15, <1>16

(* A claim is answered: z is the registration with the answer, y what becomes  *)
(* of it.                                                                     *)
Claiming(r, j, p, w, x, z, y, t) ==
  /\ z \in Registrations /\ y \in Registrations /\ Quiet(z, y, 0)
  /\ z.fires = x.fires /\ z.removing = x.removing /\ z.minted = x.minted /\ z.used = x.used
  /\ z.token = t /\ z.wait = "none"
  /\ t # 0 => /\ t = wire[r][p].n /\ wire[r][p].until > 0 /\ z.until = wire[r][p].until
              /\ \A i \in 1..Len(w) : Stays(wire[r], p, w[i])
  /\ y.removing => x.removing
  /\ registry[r] # j \/ y.removing = x.removing
Undone(j, t, y, w, v) == \/ v = w
                         \/ t # 0 /\ y.token = 0 /\ v = Append(w, Del("once", 0, j, t, "nobody"))

(* The answer of the claim of a name.                                      *)
LEMMA ClaimIs ==
  ASSUME Base, NEW r, NEW p, NEW w, NEW c, NEW result, Returns(r, p, w, c, result), c.for = "claim"
  PROVE  LET x == job[c.job]
         IN  /\ x.used /\ x # Lost /\ c.key = "once" /\ c.n = x.minted /\ x.wait # "none"
             /\ c.slot = 0 /\ kind = "delay"
             /\ \A i \in 1..Len(w) : w[i].job = c.job => w[i].for # "claim" /\ CmdFits(x, w[i])
<1>x. PICK x : x = job[c.job]
  OBVIOUS
<1>u. PICK u : u = wire[r]
  OBVIOUS
<1>1. /\ CmdForm(r, c) /\ c = u[p] /\ CmdFits(x, c) /\ Leftover(r, u, p, w) /\ c.job \in Jobs
      /\ WireOk(r, u, job, registry[r]) /\ p \in 1..Len(u)
  BY <1>x, <1>u, ReturnIs
<1>2. /\ x.used /\ x # Lost /\ c.key = "once" /\ c.n = x.minted /\ x.wait # "none" /\ c.slot = 0
  <2>1. c.key = "once" /\ c.slot = 0
    BY <1>1 DEF CmdForm
  <2>2. x.used /\ c.n = x.minted /\ x.wait # "none"
    BY <1>1, <2>1 DEF CmdFits
  <2>. QED BY <2>1, <2>2, LostIs
<1>3. kind = "delay"
  <2>1. JobAt(c.job, x, registry[Owner[c.job]], connected, named) /\ kind \in {"every", "delay"}
    BY <1>1, <1>x DEF Base, JobsOk
  <2>2. kind = "every" => x.wait = "none"
    BY <2>1 DEF JobAt, JobOk, Formed
  <2>. QED BY <1>2, <2>1, <2>2
<1>4. ASSUME NEW i \in 1..Len(w), w[i].job = c.job
      PROVE  w[i].for # "claim" /\ CmdFits(x, w[i])
  <2>1. CASE Stays(u, p, w[i])
    <3>1. PICK m \in 1..Len(u) : m # p /\ w[i] = u[m]
      BY <2>1 DEF Stays
    <3>2. CmdFits(x, u[m]) /\ CmdForm(r, u[m])
      BY <3>1, <1>1, <1>4, <1>x DEF WireOk
    <3>3. u[m].for # "claim"
      <4>1. ASSUME u[m].for = "claim"
            PROVE  FALSE
        <5>1. u[m].key = "once" /\ u[m].n = x.minted
          BY <3>2, <4>1 DEF CmdFits, CmdForm
        <5>2. SameToken(u[m], u[p]) /\ u[m].for \in Waiting
          BY <5>1, <1>1, <1>2, <1>4, <3>1, <4>1 DEF SameToken, Waiting
        <5>. QED BY <5>2, <3>1, <1>1 DEF WireOk, Sole
      <4>. QED BY <4>1
    <3>. QED BY <3>1, <3>2, <3>3
  <2>2. CASE Ghost(c, w[i])
    <3>1. CmdFits(x, w[i])
      BY <2>2, <1>1, <1>2, GhostFits
    <3>. QED BY <3>1, <2>2 DEF Ghost
  <2>. QED BY <2>1, <2>2, <1>1 DEF Leftover
<1>. QED BY <1>2, <1>3, <1>4, <1>x

LEMMA ClaimMoves ==
  ASSUME Base, NEW r, NEW p, NEW w, NEW c, NEW result, Returns(r, p, w, c, result), c.for = "claim",
         UNCHANGED <<registry, runs>>, NEW j, j = c.job, NEW x, x = job[j], NEW z, NEW y,
         NEW t, Claiming(r, j, p, w, x, z, y, t), NEW v, Undone(j, t, y, w, v),
         Writes(r, j, y, v), Around(r, j), JobAt(j, y, registry'[r], connected', named')
  PROVE  Acted
<1>u. PICK u : u = wire[r]
  OBVIOUS
<1>1. /\ r \in Replicas /\ CmdForm(r, c) /\ c = u[p] /\ Leftover(r, u, p, w) /\ j \in Jobs
      /\ Owner[j] = r /\ WireOk(r, u, job, registry[r]) /\ p \in 1..Len(u) /\ p \in 0..Len(u)
      /\ p # 0 /\ w \in Seq(Commands) /\ x \in Registrations /\ c.n \in Nat /\ c.n # 0
      /\ c.job = j
  BY <1>u, ReturnIs
<1>2. /\ x.used /\ x # Lost /\ c.key = "once" /\ c.n = x.minted /\ x.wait # "none"
      /\ c.slot = 0 /\ kind = "delay"
      /\ \A i \in 1..Len(w) : w[i].job = j => w[i].for # "claim" /\ CmdFits(x, w[i])
  BY ClaimIs
<1>3. /\ z \in Registrations /\ y \in Registrations /\ Quiet(z, y, 0)
      /\ z.fires = x.fires /\ z.removing = x.removing /\ z.minted = x.minted /\ z.used = x.used
      /\ z.token = t /\ z.wait = "none"
      /\ t # 0 => /\ t = c.n /\ c.until > 0 /\ z.until = c.until
                  /\ \A i \in 1..Len(w) : Stays(u, p, w[i])
      /\ y.removing => x.removing
      /\ registry[r] # j \/ y.removing = x.removing
  BY <1>u, <1>1 DEF Claiming
<1>4. z # Lost /\ Len(x.fires) \in Nat
  BY <1>1, <1>2, <1>3, LostIs, FiresAre
<1>5. ASSUME NEW i \in 1..Len(w), t # 0, w[i].job = j, w[i].key = "once"
      PROVE  w[i].n # t
  <2>1. PICK m \in 1..Len(u) : m # p /\ w[i] = u[m]
    BY <1>3, <1>5 DEF Stays
  <2>2. w[i].n = t => SameToken(u[p], u[m]) /\ u[p].for \in Waiting
    BY <2>1, <1>1, <1>2, <1>3, <1>5 DEF SameToken, Waiting
  <2>. QED BY <2>1, <2>2, <1>1 DEF WireOk, Sole
<1>6. ASSUME NEW i \in 1..Len(w), w[i].job = j
      PROVE  CmdFits(y, w[i])
  <2>1. CmdFits(x, w[i]) /\ w[i].for # "claim" /\ CmdForm(r, w[i])
    BY <1>1, <1>2, <1>6 DEF Leftover
  <2>2. w[i].n \in Nat /\ w[i].n # 0 /\ w[i].key \in {"slot", "mutex", "once"}
    BY <2>1, CommandIs DEF CmdForm
  <2>3. CmdFits(z, w[i])
    <3>1. CASE w[i].key = "once"
      <4>1. w[i].n <= x.minted
        BY <3>1, <2>1, <1>2 DEF CmdFits
      <4>2. w[i].n # z.token
        BY <3>1, <2>2, <1>3, <1>5, <1>6
      <4>. QED BY <4>1, <4>2, <3>1, <2>1, <1>2, <1>3 DEF CmdFits
    <3>2. CASE w[i].key # "once"
      BY <3>2, <2>1, <1>2, <1>3 DEF CmdFits
    <3>. QED BY <3>1, <3>2
  <2>4. ~Named(w[i], 0)
    BY <1>1, NobodyNamed
  <2>. QED BY <2>1, <2>3, <2>4, <1>3, <1>4, QuietFits
<1>7. y.used /\ (y # Lost => y.minted = x.minted) /\ Tame(x, y, 0) /\ TokenGoes(r, p, x, y)
  <2>1. y.used /\ (y # Lost => y.minted = x.minted)
    BY <1>3, LostIs DEF Quiet
  <2>2. Tame(z, y, 0) /\ TokenGoes(r, p, z, y)
    BY <1>3, QuietTame
  <2>3. Tame(x, y, 0)
    BY <2>2, <1>3 DEF Tame
  <2>4. y.token # 0 => y.token = z.token /\ y.until = z.until
    BY <1>3, LostIs DEF Quiet
  <2>5. TokenGoes(r, p, x, y)
    BY <2>4, <1>1, <1>3, <1>u DEF TokenGoes
  <2>. QED BY <2>1, <2>3, <2>5
<1>d. PICK d : d = Del("once", 0, j, t, "nobody")
  OBVIOUS
<1>9. Grows(r, j, y, w, v) /\ Sends(j, w, v) /\ (Called(v, j) => Called(w, j))
  <2>1. CASE v = w
    BY <2>1 DEF Grows, Sends
  <2>2. CASE t # 0 /\ y.token = 0 /\ v = Append(w, d)
    <3>1. Token("once", 0, j, t)
      BY <2>2, <1>1, <1>3 DEF Token
    <3>2. /\ d \in Commands /\ d.op = "del" /\ d.for = "nobody" /\ d.key = "once" /\ d.slot = 0
          /\ d.job = j /\ d.n = t /\ d.done = FALSE /\ d.until = 0
      BY ONLY <3>1, <1>d DEF Del, Set, Commands, Token
    <3>3. CmdForm(r, d)
      BY <3>2, <1>1 DEF CmdForm
    <3>4. CmdFits(y, d)
      <4>1. CASE y = Lost
        BY <4>1, <3>2, LostIs DEF CmdFits
      <4>2. CASE y # Lost
        <5>1. d.n = y.minted /\ y.minted \in Nat /\ d.n # y.token
          BY <4>2, <2>2, <3>2, <1>1, <1>2, <1>3, <1>7
        <5>. QED BY <5>1, <3>2, <1>7 DEF CmdFits
      <4>. QED BY <4>1, <4>2
    <3>5. \A i \in 1..Len(w) : ~SameToken(w[i], d)
      BY <3>2, <2>2, <1>5 DEF SameToken
    <3>6. Joins(r, j, y, w, d)
      BY <3>2, <3>3, <3>4, <3>5 DEF Joins
    <3>7. Grows(r, j, y, w, v)
      BY <3>6, <2>2 DEF Grows
    <3>8. Sends(j, w, v)
      BY <3>2, <2>2 DEF Sends
    <3>9. Called(v, j) => Called(w, j)
      BY <3>2, <2>2, <1>1, SendIs
    <3>. QED BY <3>7, <3>8, <3>9
  <2>. QED BY <2>1, <2>2, <1>d DEF Undone
<1>10. Answers(v, j, y, registry[r])
  <2>1. Answers(u, j, z, registry[r])
    <3>1. Answers(u, j, x, registry[r])
      BY <1>1 DEF WireOk
    <3>. QED BY <3>1, <1>3 DEF Answers
  <2>2. 0 \notin 1..Len(z.fires) /\ u[p].for = "claim" /\ u[p].job = j
    BY <1>1, <1>3, <1>4
  <2>3. Called(v, j) => (y.removing \/ registry[r] # j
                           \/ (Called(w, j) /\ (z.removing => y.removing)))
    BY <1>3, <1>9
  <2>4. (y.removing => z.removing) /\ (p # 0 => u[p].for # "remove")
    BY <1>3, <2>2
  <2>5. p # 0 => u[p].job = j
    BY <2>2
  <2>6. ~(p # 0 /\ u[p].for \in {"slot", "mutex", "release"})
    BY <2>2
  <2>. QED BY ONLY <2>1, <2>2, <2>3, <2>4, <2>5, <2>6, <1>1, <1>3, <1>9, QuietAnswers
<1>11. Moved(r, j, p, w, y, v)
  BY <1>1, <1>6, <1>9, <1>10, <1>u DEF Moved, Writes
<1>12. FireGoes(r, p, w, x, y, 0) /\ RunsGo(j, 0, x)
  BY NoneGoes
<1>13. 0 \in 0..Len(x.fires)
  BY <1>4
<1>14. Acts(r, j, p, w, 0, y, v)
  BY <1>2, <1>7, <1>9, <1>11, <1>12, <1>13 DEF Acts
<1>. QED BY <1>14, <1>1 DEF Acted

LEMMA ClaimActs ==
  ASSUME Base, NEW r, NEW p, NEW w, NEW c, NEW result, Returns(r, p, w, c, result), Still,
         c.for = "claim", result = "won" => p = 1, Claimed(r, c.job, c, result, w)
  PROVE  Acted /\ Steady
<1>j. PICK j : j = c.job
  OBVIOUS
<1>x. PICK x : x = job[j]
  OBVIOUS
<1>u. PICK u : u = wire[r]
  OBVIOUS
<1>t. PICK t : t = IF result = "won" THEN c.n ELSE 0
  OBVIOUS
<1>e. PICK e : e = IF result = "won" THEN c.until ELSE 0
  OBVIOUS
<1>a. PICK a : a = CASE result = "won" -> "claimed" [] result = "lost" -> "contended"
                     [] OTHER -> "failed"
  OBVIOUS
<1>z. PICK z : z = Answered(x, t, e, a)
  OBVIOUS
<1>1. /\ r \in Replicas /\ CmdForm(r, c) /\ c = u[p] /\ Leftover(r, u, p, w) /\ j \in Jobs
      /\ Owner[j] = r /\ WireOk(r, u, job, registry[r]) /\ p \in 1..Len(u)
      /\ x \in Registrations /\ c.n \in Nat /\ c.n # 0 /\ c.until \in Nat
  BY <1>u, <1>j, <1>x, ReturnIs
<1>2. /\ x.used /\ x # Lost /\ c.key = "once" /\ c.n = x.minted /\ x.wait # "none"
      /\ kind = "delay"
  BY <1>j, <1>x, ClaimIs
<1>3. PICK h, on, nm \in BOOLEAN :
         Flags(j, registry[r], connected, named, h, on, nm) /\ JobOk(x, h, on, nm)
  BY <1>1, <1>x DEF Base, JobsOk, JobAt
<1>4. /\ t \in 0..x.minted /\ e \in Nat /\ a \in {"claimed", "contended", "failed"}
      /\ t # 0 => a = "claimed"
      /\ a = "claimed" => result = "won"
      /\ t # 0 => /\ t = c.n /\ c.until > 0 /\ e = c.until
                  /\ \A i \in 1..Len(w) : Stays(u, p, w[i])
  <2>1. result = "won" => c.until > 0 /\ \A i \in 1..Len(w) : Stays(u, p, w[i])
    BY <1>u DEF Returns
  <2>2. t \in 0..x.minted
    BY <1>1, <1>2, <1>t
  <2>3. a \in {"claimed", "contended", "failed"} /\ (a = "claimed" <=> result = "won")
    BY <1>a DEF Returns
  <2>. QED BY <2>1, <2>2, <2>3, <1>1, <1>t, <1>e
<1>5. a = "claimed" => ~x.removing
  <2> SUFFICES ASSUME a = "claimed", x.removing
               PROVE  FALSE
    OBVIOUS
  <2>1. p = 1
    BY <1>4
  <2>2. Answers(u, j, x, registry[r])
    BY <1>1, <1>x DEF WireOk
  <2>3. PICK m \in 1..Len(u) : u[m].for = "remove" /\ u[m].job = j
    BY <2>2 DEF Answers, Called
  <2>4. m < p
    BY <2>3, <1>1, <1>j DEF WireOk, Ordered
  <2>. QED BY <2>1, <2>3, <2>4
<1>6. /\ z \in Registrations /\ z.fires = x.fires /\ z.token = t /\ z.until = e
      /\ z.used = x.used /\ z.claim = a /\ z.minted = x.minted
      /\ z.wait = "none" /\ z.flight = x.flight /\ z.removing = x.removing
      /\ z.paused = x.paused
  <2>1. Reply(x, t, e, a)
    BY <1>1, <1>4, FiresAre DEF Reply
  <2>. QED BY ONLY <2>1, <1>z, AnsweredIs
<1>7. z = [x EXCEPT !.wait = "none", !.token = IF result = "won" THEN c.n ELSE 0,
                    !.until = IF result = "won" THEN c.until ELSE 0,
                    !.claim = CASE result = "won" -> "claimed" [] result = "lost" -> "contended"
                                [] OTHER -> "failed"]
  BY <1>z, <1>t, <1>e, <1>a DEF Answered
<1>8. /\ registry \in [Replicas -> Jobs \union {None}] /\ job \in [Jobs -> Registrations]
      /\ kind \in {"every", "delay"} /\ connected \in SUBSET Replicas /\ named \in SUBSET Replicas
      /\ UNCHANGED <<registry, runs, kind, now, connected, lock>> /\ events' \in Nat
      /\ now \in Nat
  BY DEF Base, Places, Claimed, Still
<1>9. ASSUME NEW y, NEW v, NEW nm2 \in BOOLEAN, Quiet(z, y, 0), JobOk(y, h, on, nm2),
             y.removing => x.removing, registry[r] # j \/ y.removing = x.removing,
             Undone(j, t, y, w, v), Writes(r, j, y, v), named' \in {named, named \union {r}},
             nm2 <=> r \in named'
      PROVE  Acted /\ Steady
  <2>1. y \in Registrations
    BY <1>9 DEF JobOk, Formed
  <2>2. Claiming(r, j, p, w, x, z, y, t)
    BY <2>1, <1>9, <1>1, <1>4, <1>6, <1>u DEF Claiming
  <2>3. Around(r, j)
    BY <1>8, <1>9 DEF Around
  <2>4. JobAt(j, y, registry'[r], connected', named')
    <3>1. Flags(j, registry'[r], connected', named', h, on, nm2)
      BY <1>1, <1>3, <1>8, <1>9 DEF Flags
    <3>. QED BY <3>1, <1>9 DEF JobAt
  <2>5. Acted
    <3>1. UNCHANGED <<registry, runs>>
      BY <1>8
    <3>2. Base
      OBVIOUS
    <3>. QED BY ONLY <3>1, <3>2, <2>2, <2>3, <2>4, <1>9, <1>j, <1>x, Returns(r, p, w, c, result),
                c.for = "claim", ClaimMoves
  <2>6. Steady
    <3>1. named' \in SUBSET Replicas
      BY <1>1, <1>8, <1>9
    <3>. QED BY <3>1, <1>8 DEF Steady, Base, Places
  <2>. QED BY <2>5, <2>6
<1>10. CASE x.wait = "register"
  <2>y. PICK y : y = Armed(z, x.due)
    OBVIOUS
  <2>1. job' = [job EXCEPT ![j] = y] /\ named' = named \union {r} /\ wire' = [wire EXCEPT ![r] = w]
    BY <1>10, <1>j, <1>x, <1>7, <2>y DEF Claimed
  <2>2. JobOk(y, h, on, TRUE) /\ Quiet(z, y, 0) /\ y.removing = x.removing
    <3>1. JobOk(x, h, on, nm) /\ x.used /\ kind \in {"every", "delay"} /\ t \in 0..x.minted
          /\ e \in Nat /\ a \in {"claimed", "contended", "failed"} /\ (t # 0 => a = "claimed")
      BY ONLY <1>2, <1>3, <1>4, <1>8
    <3>2. JobOk(y, h, on, TRUE)
      BY ONLY <3>1, <1>10, <1>z, <2>y, StartedOk
    <3>3. Quiet(z, y, 0)
      BY ONLY <3>1, <1>10, <1>z, <2>y, StartedOk
    <3>4. y.removing = x.removing
      <4>1. Rest(z, y)
        BY ONLY <2>y, <1>1, <1>6, FiresAre, ArmedIs
      <4>. QED BY <4>1, <1>6, Zenon DEF Rest
    <3>. QED BY <3>2, <3>3, <3>4
  <2>3. Undone(j, t, y, w, w) /\ Writes(r, j, y, w) /\ r \in named'
    BY <2>1 DEF Undone, Writes
  <2>. QED BY <2>1, <2>2, <2>3, <1>9
<1>11. CASE x.wait = "resume"
  <2>0. JobOk(z, h, on, nm) /\ z.paused /\ z.used
    BY ONLY <1>2, <1>3, <1>4, <1>5, <1>8, <1>11, <1>z, AnsweredOk
  <2>1. CASE r \notin connected \/ registry[r] # j
    <3>d. PICK v : v = IF z.token = 0 THEN w ELSE Append(w, Del("once", 0, j, z.token, "nobody"))
      OBVIOUS
    <3>o. PICK o : o = Unheld(z)
      OBVIOUS
    <3>y. PICK y : y = IF registry[r] = j THEN o ELSE Collected(o)
      OBVIOUS
    <3>1. job' = [job EXCEPT ![j] = y] /\ named' = named /\ wire' = [wire EXCEPT ![r] = v]
      BY <1>11, <2>1, <1>j, <1>x, <1>7, <3>d, <3>o, <3>y DEF Claimed
    <3>2. /\ JobOk(o, h, on, nm) /\ (o # Lost => Quiet(z, o, 0)) /\ o # Lost
          /\ o.removing = z.removing /\ o.wait = z.wait /\ Len(o.fires) = Len(z.fires)
          /\ \A m \in 1..Len(z.fires) : Halted(z.fires[m], o.fires[m])
      BY ONLY <2>0, <3>o, UnheldOk
    <3>3. o.token = 0 /\ o \in Registrations
      BY ONLY <1>6, <3>o, UnheldIs
    <3>4. CASE registry[r] = j
      <4>1. y = o
        BY <3>4, <3>y
      <4>2. Undone(j, t, y, w, v)
        BY <4>1, <3>3, <3>d, <1>6 DEF Undone
      <4>3. Writes(r, j, y, v)
        BY <3>1 DEF Writes
      <4>4. nm <=> r \in named'
        BY <3>1, <1>1, <1>3 DEF Flags
      <4>. QED BY <4>1, <4>2, <4>3, <4>4, <3>1, <3>2, <1>6, <1>9
    <3>5. CASE registry[r] # j
      <4>0. h = FALSE
        BY <3>5, <1>3 DEF Flags
      <4>1. JobOk(y, FALSE, on, nm) /\ Quiet(z, y, 0)
        <5>1. y = Collected(o)
          BY <3>5, <3>y
        <5>2. JobOk(o, FALSE, on, nm)
          BY <3>2, <4>0
        <5>. QED BY ONLY <5>1, <5>2, <3>2, <2>0, <1>6, ForgottenOk
      <4>2. y.token = 0 /\ (y.removing => x.removing)
        <5>1. y = o \/ y = Lost
          BY <3>5, <3>y, <3>3, CollectedIs
        <5>. QED BY <5>1, <3>2, <3>3, <1>6, LostIs
      <4>3. Undone(j, t, y, w, v)
        BY <4>2, <3>d, <1>6 DEF Undone
      <4>4. Writes(r, j, y, v)
        BY <3>1 DEF Writes
      <4>5. nm <=> r \in named'
        BY <3>1, <1>1, <1>3 DEF Flags
      <4>. QED BY <4>0, <4>1, <4>2, <4>3, <4>4, <4>5, <3>1, <3>5, <1>9
    <3>. QED BY <3>4, <3>5
  <2>2. CASE r \in connected /\ registry[r] = j /\ x.hasty
    <3>1. job' = [job EXCEPT ![j] = z] /\ named' = named /\ wire' = [wire EXCEPT ![r] = w]
      BY <1>11, <2>2, <1>j, <1>x, <1>7 DEF Claimed
    <3>2. Quiet(z, z, 0)
      BY <2>0, <1>6, SameOk
    <3>3. Undone(j, t, z, w, w) /\ Writes(r, j, z, w)
      BY <3>1 DEF Undone, Writes
    <3>4. nm <=> r \in named'
      BY <3>1, <1>1, <1>3 DEF Flags
    <3>. QED BY <2>0, <3>1, <3>2, <3>3, <3>4, <1>6, <1>9
  <2>3. CASE r \in connected /\ registry[r] = j /\ ~x.hasty
    <3>y. PICK y : y = Rearmed(r, z)
      OBVIOUS
    <3>1. job' = [job EXCEPT ![j] = y] /\ wire' = [wire EXCEPT ![r] = w]
          /\ named' = IF x.flight THEN named ELSE named \union {r}
      BY <1>11, <2>3, <1>j, <1>x, <1>7, <3>y DEF Claimed
    <3>2. h = TRUE /\ on = TRUE /\ (nm <=> r \in named)
      BY <2>3, <1>1, <1>3 DEF Flags
    <3>3. PICK nm2 \in BOOLEAN : nm2 <=> r \in named'
      <4>1. (TRUE <=> r \in named') \/ (FALSE <=> r \in named')
        OBVIOUS
      <4>. QED BY <4>1
    <3>4. nm2 <=> (IF z.flight THEN nm ELSE TRUE)
      BY <3>1, <3>2, <3>3, <1>6
    <3>5. JobOk(y, TRUE, TRUE, nm2) /\ Quiet(z, y, 0) /\ y # Lost /\ y.removing = z.removing
      <4>1. JobOk(z, TRUE, TRUE, nm) /\ z.paused /\ z.used /\ z.wait # "resume"
        BY <2>0, <3>2, <1>6
      <4>2. z.claim = "claimed" => ~z.removing
        BY <1>5, <1>6
      <4>3. now \in Nat /\ kind \in {"every", "delay"} /\ r \in Replicas
        BY <1>1, <1>8
      <4>4. JobOk(y, TRUE, TRUE, nm2)
        BY ONLY <4>1, <4>2, <4>3, <3>4, <3>y, RearmedOk
      <4>5. Quiet(z, y, 0)
        BY ONLY <4>1, <4>2, <4>3, <3>4, <3>y, RearmedOk
      <4>6. y # Lost /\ y.removing = z.removing
        BY ONLY <4>1, <4>2, <4>3, <3>4, <3>y, RearmedOk
      <4>. QED BY <4>4, <4>5, <4>6
    <3>6. Undone(j, t, y, w, w) /\ Writes(r, j, y, w)
      BY <3>1 DEF Undone, Writes
    <3>7. named' \in {named, named \union {r}}
      BY <3>1
    <3>. QED BY <3>2, <3>3, <3>5, <3>6, <3>7, <1>6, <1>9
  <2>. QED BY <2>1, <2>2, <2>3
<1>12. x.wait \in {"none", "register", "resume"}
  BY <1>1 DEF Registrations
<1>. QED BY <1>2, <1>10, <1>11, <1>12

(* Fire c.n, which waits for command c.                                      *)
LEMMA WaiterIs ==
  ASSUME Base, NEW r, NEW p, NEW w, NEW c, NEW result, Returns(r, p, w, c, result),
         c.for \in {"slot", "mutex", "release"}
  PROVE  LET x == job[c.job]
         IN  /\ c.n \in 1..Len(x.fires) /\ x.fires[c.n] \in Tries /\ x.fires[c.n].stage = c.for
             /\ c.until \in Nat
             /\ c.for = "slot" /\ c.until > 0 => c.until - Ttl \in Nat
<1>x. PICK x : x = job[c.job]
  OBVIOUS
<1>1. CmdForm(r, c) /\ CmdFits(x, c) /\ x \in Registrations /\ c.until \in Nat
  BY <1>x, ReturnIs
<1>2. c.n \in 1..Len(x.fires) /\ x.fires[c.n].stage = c.for
  BY <1>1, LostIs DEF CmdFits, CmdForm
<1>3. c.for = "slot" /\ c.until > 0 => Ttl <= c.until
  BY <1>1 DEF CmdForm, Lease
<1>4. x.fires[c.n] \in Tries
  BY <1>1, <1>2, FiresAre
<1>. QED BY <1>1, <1>2, <1>3, <1>4, <1>x, TimeAssumption

LEMMA SlotActs ==
  ASSUME Base, NEW r, NEW p, NEW w, NEW c, NEW result, Returns(r, p, w, c, result), Still,
         c.for = "slot", result = "won", UNCHANGED <<registry, named, runs>>,
         job' = [job EXCEPT ![c.job].fires[c.n] = [@ EXCEPT !.stage = "mutex",
                                                            !.since = c.until - Ttl]],
         wire' = [wire EXCEPT ![r] = Append(w, Set("mutex", 0, c.job, c.n, "mutex"))]
  PROVE  Acted /\ Steady
<1>f. PICK f : f = job[c.job].fires[c.n]
  OBVIOUS
<1>g. PICK g : g = [f EXCEPT !.stage = "mutex", !.since = c.until - Ttl]
  OBVIOUS
<1>v. PICK v : v = Append(w, Set("mutex", 0, c.job, c.n, "mutex"))
  OBVIOUS
<1>1. f \in Tries /\ c.until > 0 /\ c.until - Ttl \in Nat
  <2>1. c.until > 0
    BY DEF Returns
  <2>2. c.for \in {"slot", "mutex", "release"}
    OBVIOUS
  <2>. QED BY <2>1, <2>2, <1>f, WaiterIs
<1>2. /\ g \in Tries /\ g.aborted = f.aborted /\ g.stage = "mutex" /\ g.due = f.due
      /\ g.since = c.until - Ttl
  <2>e. PICK e \in Nat : e = c.until - Ttl
    BY <1>1
  <2>. QED BY ONLY <1>1, <1>g, <2>e DEF Tries, Fires, Stages
<1>3. job' = [job EXCEPT ![c.job].fires[c.n] = g]
  BY <1>f, <1>g
<1>4. wire' = [wire EXCEPT ![r] = v]
  BY <1>v
<1>5. Base /\ Returns(r, p, w, c, result) /\ Still /\ result = "won" /\ c.for = "slot"
      /\ c.for \in {"slot", "mutex"} /\ UNCHANGED <<registry, named>> /\ UNCHANGED runs
  OBVIOUS
<1>. QED BY ONLY <1>2, <1>3, <1>4, <1>5, <1>f, <1>v, WonActs

LEMMA EnteredActs ==
  ASSUME Base, NEW r, NEW p, NEW w, NEW c, NEW result, Returns(r, p, w, c, result), Still,
         c.for = "mutex", Entered(r, c.job, c, result, w)
  PROVE  Acted /\ Steady
<1>f. PICK f : f = job[c.job].fires[c.n]
  OBVIOUS
<1>1. f \in Tries /\ f.stage = "mutex" /\ c.n \in 1..Len(job[c.job].fires) /\ c.until \in Nat
  <2>1. c.for \in {"slot", "mutex", "release"}
    OBVIOUS
  <2>. QED BY <2>1, <1>f, WaiterIs
<1>2. CASE result # "won"
  BY <1>2, OutActs DEF Entered
<1>3. CASE result = "won" /\ f.aborted
  <2>g. PICK g : g = [f EXCEPT !.stage = "release", !.outcome = "cancelled"]
    OBVIOUS
  <2>v. PICK v : v = Append(w, Del("mutex", 0, c.job, c.n, "release"))
    OBVIOUS
  <2>1. g \in Tries /\ g.aborted = f.aborted /\ g.stage = "release"
    BY ONLY <1>1, <2>g DEF Tries, Fires, Stages
  <2>2. /\ job' = [job EXCEPT ![c.job].fires[c.n] = g] /\ wire' = [wire EXCEPT ![r] = v]
        /\ UNCHANGED <<registry, named, runs>>
    BY <1>3, <1>f, <2>g, <2>v DEF Entered
  <2>. QED BY <1>3, <2>1, <2>2, <1>f, <2>v, WonActs
<1>4. CASE result = "won" /\ ~f.aborted
  <2>g. PICK g : g = [Over EXCEPT !.stage = "running", !.attempt = 1, !.until = c.until]
    OBVIOUS
  <2>1. g \in Tries /\ g.aborted = FALSE /\ g.stage = "running" /\ g.until = c.until
    <3>1. 1 \in 0..Limit
      BY TimeAssumption
    <3>2. ASSUME NEW o \in Tries, o.aborted = FALSE, NEW n \in 0..Limit
          PROVE  LET d == [o EXCEPT !.stage = "running", !.attempt = n, !.until = c.until]
                 IN  d \in Tries /\ d.aborted = FALSE /\ d.stage = "running" /\ d.until = c.until
      BY <1>1, <3>2 DEF Tries, Fires, Stages
    <3>. QED BY <3>1, <3>2, <2>g, OverIs
  <2>2. /\ job' = [job EXCEPT ![c.job].fires[c.n] = g] /\ wire' = [wire EXCEPT ![r] = w]
        /\ UNCHANGED <<registry, named>>
    BY <1>4, <1>f, <2>g DEF Entered
  <2>3. RunsGo(c.job, c.n, job[c.job])
    BY <1>1, <1>4, <1>f DEF Entered, RunsGo, Claim
  <2>4. f.aborted \in BOOLEAN
    BY <1>1 DEF Tries, Fires
  <2>5. g.aborted = f.aborted /\ ~g.aborted
    BY <2>1, <2>4, <1>4
  <2>. QED BY <1>4, <2>1, <2>2, <2>3, <2>5, <1>f, WonActs
<1>. QED BY <1>2, <1>3, <1>4

(* Every answer, and every command that is given up, is a step of its      *)
(* registration.                                                           *)
LEMMA ContinueActs ==
  ASSUME Base, NEW r, NEW p, NEW w, NEW c, NEW result, Returns(r, p, w, c, result), Still,
         result = "won" => p = 1, Continue(r, c, result, w)
  PROVE  Acted /\ Steady
<1>0. c.for \in {"slot", "mutex", "release", "leave", "claim", "remove", "late"}
  <2>1. c \in Commands
    BY ReturnIs
  <2>. QED BY <2>1, CommandIs DEF Returns
<1>1. CASE c.for = "late"
  <2>v. PICK v : v = IF result # "won" THEN w ELSE Append(w, Del(c.key, c.slot, c.job, c.n, "nobody"))
    OBVIOUS
  <2>1. UNCHANGED <<job, registry, named, runs>> /\ wire' = [wire EXCEPT ![r] = v]
    BY <1>1, <2>v DEF Continue
  <2>2. v = w \/ v = Append(w, Del(c.key, c.slot, c.job, c.n, "nobody"))
    BY <2>v
  <2>. QED BY <1>1, <2>1, <2>2, LateActs
<1>2. CASE c.for = "slot"
  <2>1. CASE result = "won"
    BY <1>2, <2>1, SlotActs DEF Continue
  <2>2. CASE result # "won"
    <3>1. Finish(r, c.job, job[c.job], c.n, w) /\ UNCHANGED runs
      BY <1>2, <2>2 DEF Continue
    <3>. QED BY <1>2, <3>1, OutActs
  <2>. QED BY <2>1, <2>2
<1>3. CASE c.for = "mutex"
  <2>1. Entered(r, c.job, c, result, w)
    BY <1>3 DEF Continue
  <2>. QED BY <1>3, <2>1, EnteredActs
<1>4. CASE c.for = "release"
  <2>1. Finish(r, c.job, job[c.job], c.n, w) /\ UNCHANGED runs
    BY <1>4 DEF Continue
  <2>. QED BY <1>4, <2>1, OutActs
<1>5. CASE c.for = "claim"
  <2>1. Claimed(r, c.job, c, result, w)
    BY <1>5 DEF Continue
  <2>. QED BY <1>5, <2>1, ClaimActs
<1>6. CASE c.for = "remove"
  <2>1. /\ registry' = IF registry[r] = c.job THEN [registry EXCEPT ![r] = None] ELSE registry
        /\ named' = IF registry[r] = c.job THEN named \ {r} ELSE named
        /\ job' = [job EXCEPT ![c.job] = Collected([job[c.job] EXCEPT !.removing = FALSE])]
        /\ wire' = [wire EXCEPT ![r] = w] /\ UNCHANGED runs
    BY <1>6 DEF Continue
  <2>. QED BY <1>6, <2>1, GoneActs
<1>7. CASE c.for = "leave"
  <2>1. PICK k \in DOMAIN job[c.job].fires :
          /\ job[c.job].fires[k].stage = "leave" /\ Leaves(r, c.job, job[c.job], k, w)
          /\ UNCHANGED runs
    BY <1>7 DEF Continue
  <2>. QED BY <1>7, <2>1, LeftActs
<1>. QED BY <1>0, <1>1, <1>2, <1>3, <1>4, <1>5, <1>6, <1>7

LEMMA AnswerActs ==
  ASSUME Base, NEW r \in Replicas, Answer(r)
  PROVE  Acted /\ Steady
<1>c. PICK c : c = Head(wire[r])
  OBVIOUS
<1>w. PICK w : w = Tail(wire[r])
  OBVIOUS
<1>a. PICK result : result = IF c.until > 0 THEN "won" ELSE "lost"
  OBVIOUS
<1>1. WireOk(r, wire[r], job, registry[r]) /\ wire[r] # <<>> /\ c.done
  BY <1>c DEF Base, Wires, Answer
<1>2. /\ Leftover(r, wire[r], 1, w) /\ \A i \in 1..Len(w) : Stays(wire[r], 1, w[i])
      /\ 1 \in 1..Len(wire[r]) /\ c = wire[r][1]
  BY <1>1, <1>c, <1>w, AnswerLeaves
<1>3. c.for # "nobody"
  BY <1>1, <1>2 DEF WireOk, CmdForm
<1>4. Returns(r, 1, w, c, result)
  BY <1>2, <1>3, <1>a DEF Returns
<1>5. Still /\ Continue(r, c, result, w)
  BY <1>c, <1>w, <1>a DEF Answer, Still, Base
<1>. QED BY <1>4, <1>5, ContinueActs

LEMMA GiveUpActs ==
  ASSUME Base, NEW r \in Replicas, GiveUp(r)
  PROVE  Acted /\ Steady
<1>u. PICK u : u = wire[r]
  OBVIOUS
<1>1. WireOk(r, u, job, registry[r]) /\ u \in Seq(Commands)
  BY <1>u DEF Base, Wires, WireOk
<1>2. PICK p \in DOMAIN u :
         LET cmd == u[p]
             for(whom) == [u EXCEPT ![p].for = whom]
             gone == Seqs!RemoveAt(u, p)
             left == IF cmd.done THEN gone ELSE for("nobody")
             undo == Del(cmd.key, cmd.slot, cmd.job, cmd.n, "nobody")
         IN  /\ Event(r) /\ cmd.for \notin {"nobody", "late"}
             /\ \E w \in {gone, left} \union
                         (IF cmd.op = "set" THEN {for("late"), Append(left, undo)} ELSE {}) :
                   Continue(r, cmd, "failed", w)
             /\ UNCHANGED <<kind, now, connected, lock>>
  BY <1>u DEF GiveUp
<1>c. PICK c : c = u[p]
  OBVIOUS
<1>3. p \in 1..Len(u)
  BY <1>1
<1>4. PICK w :
        /\ \/ w = Seqs!RemoveAt(u, p)
           \/ w = (IF u[p].done THEN Seqs!RemoveAt(u, p) ELSE [u EXCEPT ![p].for = "nobody"])
           \/ u[p].op = "set" /\ w = [u EXCEPT ![p].for = "late"]
           \/ /\ u[p].op = "set"
              /\ w = Append(IF u[p].done THEN Seqs!RemoveAt(u, p) ELSE [u EXCEPT ![p].for = "nobody"],
                            Del(u[p].key, u[p].slot, u[p].job, u[p].n, "nobody"))
        /\ Continue(r, c, "failed", w)
  BY <1>2, <1>c
<1>5. u[p].for \notin {"late", "nobody"} /\ Event(r) /\ UNCHANGED <<kind, now, connected, lock>>
  BY <1>2
<1>6. Leftover(r, u, p, w)
  BY <1>1, <1>3, <1>4, <1>5, GiveUpLeaves
<1>7. Returns(r, p, w, c, "failed")
  BY <1>3, <1>5, <1>6, <1>c, <1>u DEF Returns
<1>8. Still
  BY <1>5 DEF Still, Event, Base
<1>. QED BY <1>4, <1>7, <1>8, ContinueActs

(* An operation of the service on a registration: no command is answered and  *)
(* no fire goes on.                                                           *)
Serves(r, j, x, y, v) ==
  /\ Quiet(x, y, 0) /\ (x = Lost => y = Lost)
  /\ Grows(r, j, y, wire[r], v) /\ Sends(j, wire[r], v) /\ Writes(r, j, y, v)
  /\ (y.removing => Called(v, j)) \/ (y.removing => x.removing)
  /\ Called(v, j) => y.removing \/ registry'[r] # j
                       \/ (Called(wire[r], j) /\ (x.removing => y.removing))
  /\ registry[r] # j => registry'[r] # j
  /\ Around(r, j) /\ JobAt(j, y, registry'[r], connected', named') /\ UNCHANGED runs

LEMMA ServesActs ==
  ASSUME Base, NEW j \in Jobs, NEW r, r = Owner[j], NEW x, x = job[j], NEW y, NEW v,
         Serves(r, j, x, y, v)
  PROVE  Acted
<1>u. PICK u : u = wire[r]
  OBVIOUS
<1>1. /\ x \in Registrations /\ r \in Replicas /\ WireOk(r, u, job, registry[r]) /\ 0 \in 0..Len(u)
      /\ u \in Seq(Commands) /\ Len(x.fires) \in Nat
  BY <1>u, FireAt, FiresAre
<1>2. Leftover(r, u, 0, u) /\ \A i \in 1..Len(u) : Stays(u, 0, u[i])
  BY <1>1, NoneLeaves
<1>3. /\ Quiet(x, y, 0) /\ (x = Lost => y = Lost)
      /\ Grows(r, j, y, u, v) /\ Sends(j, u, v) /\ Writes(r, j, y, v)
      /\ (y.removing => Called(v, j)) \/ (y.removing => x.removing)
      /\ Called(v, j) => y.removing \/ registry'[r] # j
                           \/ (Called(u, j) /\ (x.removing => y.removing))
      /\ registry[r] # j => registry'[r] # j
      /\ Around(r, j) /\ JobAt(j, y, registry'[r], connected', named') /\ UNCHANGED runs
  BY <1>u DEF Serves
<1>4. FireGoes(r, 0, u, x, y, 0) /\ RunsGo(j, 0, x)
  BY <1>3, NoneGoes
<1>5. /\ \A i \in 1..Len(u) : ~Named(u[i], 0)
      /\ 0 \in 0..Len(x.fires) /\ 0 \notin 1..Len(x.fires)
  BY <1>1, NobodyNamed
<1>6. Quietly(r, j, 0, u, x, 0, y, v)
  BY ONLY <1>1, <1>2, <1>3, <1>4, <1>5, <1>u DEF Quietly
<1>. QED BY <1>1, <1>3, <1>6, QuietActs

(* The registration of a replica.                                            *)
Here(r, j, x, on, nm) ==
  /\ j \in Jobs /\ Owner[j] = r /\ x \in Registrations /\ x.used /\ x # Lost
  /\ (on <=> r \in connected) /\ (nm <=> r \in named) /\ JobOk(x, TRUE, on, nm)
  /\ wire[r] \in Seq(Commands) /\ wire \in [Replicas -> Seq(Commands)]
  /\ \A i \in 1..Len(wire[r]) :
       CmdForm(r, wire[r][i]) /\ (wire[r][i].job = j => CmdFits(x, wire[r][i]))

LEMMA HereIs ==
  ASSUME Base, NEW r \in Replicas, NEW j, registry[r] = j, j # None, NEW x, x = job[j]
  PROVE  \E on, nm \in BOOLEAN : Here(r, j, x, on, nm)
<1>1. j \in Jobs /\ Owner[j] = r
  BY DEF Base, Places
<1>2. PICK h, on, nm \in BOOLEAN :
         Flags(j, registry[r], connected, named, h, on, nm) /\ JobOk(x, h, on, nm)
  BY <1>1 DEF Base, JobsOk, JobAt
<1>3. h = TRUE /\ (on <=> r \in connected) /\ (nm <=> r \in named)
  BY <1>1, <1>2 DEF Flags
<1>4. x.used /\ x # Lost
  <2>1. x # Lost
    BY <1>2, <1>3, LostIsGone
  <2>2. x.used
    BY <1>2, <1>3 DEF JobOk, Going
  <2>. QED BY <2>1, <2>2
<1>5. wire[r] \in Seq(Commands) /\ wire \in [Replicas -> Seq(Commands)]
      /\ \A i \in 1..Len(wire[r]) :
           CmdForm(r, wire[r][i]) /\ (wire[r][i].job = j => CmdFits(x, wire[r][i]))
  BY DEF Base, Wires, WireOk
<1>6. x \in Registrations
  BY <1>1 DEF Base
<1>7. Here(r, j, x, on, nm)
  BY <1>1, <1>2, <1>3, <1>4, <1>5, <1>6 DEF Here
<1>. QED BY <1>7

(* The operations of the service.                                          *)
LEMMA PauseActs ==
  ASSUME Base, NEW j \in Jobs, Pause(j)
  PROVE  Acted /\ Steady
<1>r. PICK r : r = Owner[j]
  OBVIOUS
<1>x. PICK x : x = job[j]
  OBVIOUS
<1>y. PICK y : y = Hurried(Paused(x))
  OBVIOUS
<1>0. registry[r] = j /\ j # None /\ r \in Replicas /\ events' = events + 1
      /\ UNCHANGED <<kind, now, connected, registry, named, wire, lock, runs>>
      /\ job' = [job EXCEPT ![j] = y]
  BY <1>r, <1>x, <1>y, JobsAssumption DEF Pause, Registered, Event
<1>h. PICK on, nm \in BOOLEAN : Here(r, j, x, on, nm)
  BY <1>0, <1>x, HereIs
<1>1. /\ Owner[j] = r /\ x \in Registrations /\ x.used /\ x # Lost
      /\ wire \in [Replicas -> Seq(Commands)]
  BY <1>h DEF Here
<1>2. (on <=> r \in connected) /\ (nm <=> r \in named) /\ JobOk(x, TRUE, on, nm)
  BY <1>h DEF Here
<1>3. JobOk(y, TRUE, on, nm) /\ Quiet(x, y, 0) /\ y.removing = x.removing
  BY ONLY <1>1, <1>2, <1>y, PauseOk
<1>4. JobAt(j, y, registry'[r], connected', named')
  <2>1. Flags(j, registry'[r], connected', named', TRUE, on, nm)
    BY <1>0, <1>1, <1>2 DEF Flags
  <2>. QED BY <2>1, <1>3 DEF JobAt
<1>5. Around(r, j)
  BY <1>0 DEF Around
<1>6. wire' = [wire EXCEPT ![r] = wire[r]]
  BY <1>0, <1>1
<1>7. Serves(r, j, x, y, wire[r])
  BY <1>0, <1>1, <1>3, <1>4, <1>5, <1>6 DEF Serves, Grows, Sends, Writes
<1>8. Acted
  BY <1>r, <1>x, <1>7, ServesActs
<1>9. Steady
  BY <1>0 DEF Base, Steady, Places
<1>. QED BY <1>8, <1>9

LEMMA RearmedKeeps ==
  ASSUME NEW r, NEW x \in Registrations
  PROVE  Rearmed(r, x).removing = x.removing
<1> DEFINE z == [x EXCEPT !.paused = FALSE, !.dropped = FALSE]
           o == [x EXCEPT !.paused = FALSE, !.dropped = FALSE, !.rearm = TRUE]
<1>1. z \in Registrations /\ z.removing = x.removing /\ o.removing = x.removing
  BY DEF Registrations
<1>2. Rearmed(r, x) \in {o, Armed(z, NextDue(r))}
  BY DEF Rearmed, Resumed
<1> HIDE DEF z, o
<1>3. Armed(z, NextDue(r)).removing = z.removing
  BY <1>1 DEF Armed, Registrations
<1>. QED BY <1>1, <1>2, <1>3

LEMMA RearmActs ==
  ASSUME Base, NEW j \in Jobs, Resume(j),
         ~(kind = "delay" /\ job[j].claim = "claimed" /\ job[j].token = 0)
  PROVE  Acted /\ Steady
<1>r. PICK r : r = Owner[j]
  OBVIOUS
<1>x. PICK x : x = job[j]
  OBVIOUS
<1>y. PICK y : y = Rearmed(r, x)
  OBVIOUS
<1>0. /\ registry[r] = j /\ j # None /\ r \in Replicas /\ r \in connected /\ events' = events + 1
      /\ UNCHANGED <<kind, now, connected, registry, wire, lock, runs>>
      /\ job' = [job EXCEPT ![j] = y] /\ x.paused /\ x.wait # "resume"
      /\ named' = IF x.flight THEN named ELSE named \union {r}
  BY <1>r, <1>x, <1>y, JobsAssumption DEF Resume, Registered, Event
<1>h. PICK on, nm \in BOOLEAN : Here(r, j, x, on, nm)
  BY <1>0, <1>x, HereIs
<1>1. /\ Owner[j] = r /\ x \in Registrations /\ x.used /\ x # Lost
      /\ wire \in [Replicas -> Seq(Commands)] /\ now \in Nat /\ kind \in {"every", "delay"}
      /\ named \in SUBSET Replicas
  BY <1>h DEF Here, Base, Places
<1>2. (on <=> r \in connected) /\ (nm <=> r \in named) /\ JobOk(x, TRUE, on, nm)
  BY <1>h DEF Here
<1>3. PICK nm2 \in BOOLEAN : nm2 <=> r \in named'
  <2>1. (TRUE <=> r \in named') \/ (FALSE <=> r \in named')
    OBVIOUS
  <2>. QED BY <2>1
<1>4. nm2 <=> (IF x.flight THEN nm ELSE TRUE)
  BY <1>0, <1>2, <1>3
<1>5. x.claim = "claimed" => ~x.removing
  <2>1. /\ kind = "every" => ~x.removing
        /\ x.token # 0 => ~x.removing
    BY <1>2 DEF JobOk, Formed
  <2>. QED BY <2>1, <1>1, <1>x
<1>6. JobOk(x, TRUE, TRUE, nm)
  BY <1>0, <1>2
<1>7. JobOk(y, TRUE, TRUE, nm2)
  BY ONLY <1>0, <1>1, <1>4, <1>5, <1>6, <1>y, RearmedOk
<1>8. Quiet(x, y, 0)
  BY ONLY <1>0, <1>1, <1>4, <1>5, <1>6, <1>y, RearmedOk
<1>9. y.removing = x.removing
  BY ONLY <1>1, <1>y, RearmedKeeps
<1>10. JobAt(j, y, registry'[r], connected', named')
  <2>1. Flags(j, registry'[r], connected', named', TRUE, TRUE, nm2)
    BY <1>0, <1>1, <1>3 DEF Flags
  <2>. QED BY <2>1, <1>7 DEF JobAt
<1>11. Around(r, j)
  BY <1>0 DEF Around
<1>12. wire' = [wire EXCEPT ![r] = wire[r]]
  BY <1>0, <1>1
<1>13. Serves(r, j, x, y, wire[r])
  BY <1>0, <1>1, <1>8, <1>9, <1>10, <1>11, <1>12 DEF Serves, Grows, Sends, Writes
<1>14. Acted
  BY <1>r, <1>x, <1>13, ServesActs
<1>15. Steady
  <2>1. named' \in SUBSET Replicas
    BY <1>0, <1>1
  <2>. QED BY <2>1, <1>0 DEF Base, Steady, Places
<1>. QED BY <1>14, <1>15

(* A delete of the name that a registration held.                           *)
Dropping(r, j, x, y, w, v, for) ==
  /\ r \in Replicas /\ j \in Jobs /\ Owner[j] = r /\ x \in Registrations /\ x.used
  /\ x.token # 0 /\ x.token <= x.minted /\ x.wait = "none" /\ w \in Seq(Commands)
  /\ \A i \in 1..Len(w) : CmdForm(r, w[i]) /\ (w[i].job = j => CmdFits(x, w[i]))
  /\ y \in Registrations /\ Quiet(x, y, 0) /\ y # Lost /\ y.token = 0
  /\ for \in {"remove", "nobody"} /\ v = Append(w, Del("once", 0, j, x.token, for))

LEMMA DropJoins ==
  ASSUME NEW r, NEW j, NEW x, NEW y, NEW w, NEW v, NEW for, Dropping(r, j, x, y, w, v, for)
  PROVE  /\ Grows(r, j, y, w, v) /\ Sends(j, w, v)
         /\ for = "remove" => Called(v, j)
         /\ Called(v, j) => Called(w, j) \/ for = "remove"
<1>d. PICK d : d = Del("once", 0, j, x.token, for)
  OBVIOUS
<1>0. /\ r \in Replicas /\ j \in Jobs /\ Owner[j] = r /\ x \in Registrations /\ x.used
      /\ x.token # 0 /\ x.token <= x.minted /\ x.wait = "none" /\ w \in Seq(Commands)
      /\ \A i \in 1..Len(w) : CmdForm(r, w[i]) /\ (w[i].job = j => CmdFits(x, w[i]))
      /\ y \in Registrations /\ Quiet(x, y, 0) /\ y # Lost /\ y.token = 0
      /\ for \in {"remove", "nobody"} /\ v = Append(w, d)
  BY <1>d DEF Dropping
<1> USE <1>0
<1>1. x.token \in Nat /\ x.minted \in Nat /\ x # Lost
  BY FiresAre, LostIs
<1>2. Token("once", 0, j, x.token)
  BY <1>1 DEF Token
<1>3. /\ d \in Commands /\ d.op = "del" /\ d.for = for /\ d.key = "once" /\ d.slot = 0
      /\ d.job = j /\ d.n = x.token /\ d.done = FALSE /\ d.until = 0
  BY ONLY <1>2, <1>d, for \in {"remove", "nobody"} DEF Del, Set, Commands, Token
<1>4. CmdForm(r, d)
  BY <1>3 DEF CmdForm
<1>5. CmdFits(y, d)
  <2>1. y.used /\ y.minted = x.minted
    BY DEF Quiet
  <2>. QED BY <2>1, <1>1, <1>3 DEF CmdFits
<1>6. ASSUME NEW i \in 1..Len(w)
      PROVE  ~SameToken(w[i], d) /\ ~(w[i].for = "claim" /\ w[i].job = j)
  <2>1. CASE w[i].job # j
    BY <2>1, <1>3 DEF SameToken
  <2>2. CASE w[i].job = j
    <3>1. CmdFits(x, w[i]) /\ CmdForm(r, w[i])
      BY <2>2
    <3>2. w[i].key = "once" => w[i].n # x.token
      BY <3>1, <1>1 DEF CmdFits
    <3>3. w[i].for # "claim"
      BY <3>1, <1>1 DEF CmdFits, CmdForm
    <3>. QED BY <3>2, <3>3, <1>3 DEF SameToken
  <2>. QED BY <2>1, <2>2
<1>7. Joins(r, j, y, w, d)
  BY <1>3, <1>4, <1>5, <1>6 DEF Joins
<1>v. v = Append(w, d)
  OBVIOUS
<1>8. for = "remove" => Called(v, j)
  <2>1. d.for = "remove" => Called(v, d.job)
    BY ONLY <1>3, <1>v, w \in Seq(Commands), SendIs
  <2>. QED BY <2>1, <1>3
<1>9. Called(v, j) => Called(w, j) \/ for = "remove"
  <2>1. Called(v, j) => Called(w, j) \/ (d.for = "remove" /\ d.job = j)
    BY ONLY <1>3, <1>v, w \in Seq(Commands), SendIs
  <2>. QED BY <2>1, <1>3
<1>. QED BY <1>3, <1>7, <1>8, <1>9, <1>v DEF Grows, Sends

LEMMA RemoveActs ==
  ASSUME Base, NEW j \in Jobs, Remove(j)
  PROVE  Acted /\ Steady
<1>r. PICK r : r = Owner[j]
  OBVIOUS
<1>x. PICK x : x = job[j]
  OBVIOUS
<1>0. /\ registry[r] = j /\ j # None /\ r \in Replicas /\ events' = events + 1
      /\ UNCHANGED <<kind, now, connected, lock, runs>>
  BY <1>r, <1>x, JobsAssumption DEF Remove, Registered, Event
<1>h. PICK on, nm \in BOOLEAN : Here(r, j, x, on, nm)
  BY <1>0, <1>x, HereIs
<1>1. /\ Owner[j] = r /\ x \in Registrations /\ x.used /\ x # Lost /\ wire[r] \in Seq(Commands)
      /\ wire \in [Replicas -> Seq(Commands)] /\ now \in Nat /\ kind \in {"every", "delay"}
      /\ \A i \in 1..Len(wire[r]) :
           CmdForm(r, wire[r][i]) /\ (wire[r][i].job = j => CmdFits(x, wire[r][i]))
      /\ registry \in [Replicas -> Jobs \union {None}] /\ named \in SUBSET Replicas
  BY <1>h DEF Here, Base, Places
<1>2. (on <=> r \in connected) /\ (nm <=> r \in named) /\ JobOk(x, TRUE, on, nm)
  BY <1>h DEF Here
<1>3. CASE x.token # 0
  <2>y. PICK y : y = [Unheld(Removed(x)) EXCEPT !.removing = TRUE]
    OBVIOUS
  <2>d. PICK d : d = Del("once", 0, j, x.token, "remove")
    OBVIOUS
  <2>v. PICK v : v = Append(wire[r], d)
    OBVIOUS
  <2>1. /\ job' = [job EXCEPT ![j] = y] /\ wire' = [wire EXCEPT ![r] = v]
        /\ UNCHANGED <<registry, named>>
    BY <1>3, <1>r, <1>x, <2>y, <2>d, <2>v DEF Remove
  <2>2. JobOk(y, TRUE, on, nm) /\ Quiet(x, y, 0) /\ y # Lost /\ y.removing /\ y.token = 0
    BY ONLY <1>1, <1>2, <1>3, <2>y, RemoveOk
  <2>3. x.wait = "none" /\ x.token <= x.minted
    BY <1>2, <1>3, FiresAre, <1>1 DEF JobOk, Formed
  <2>4. y \in Registrations
    BY <2>2 DEF JobOk, Formed
  <2>5. Grows(r, j, y, wire[r], v) /\ Sends(j, wire[r], v) /\ Called(v, j)
    <3>u. PICK u : u = wire[r]
      OBVIOUS
    <3>f. PICK for : for = "remove"
      OBVIOUS
    <3>1. Dropping(r, j, x, y, u, v, for)
      BY <1>0, <1>1, <1>3, <2>2, <2>3, <2>4, <2>d, <2>v, <3>u, <3>f DEF Dropping
    <3>4. Grows(r, j, y, u, v) /\ Sends(j, u, v) /\ (for = "remove" => Called(v, j))
      BY ONLY <3>1, DropJoins
    <3>. QED BY <3>4, <3>u, <3>f
  <2>6. JobAt(j, y, registry'[r], connected', named')
    <3>1. Flags(j, registry'[r], connected', named', TRUE, on, nm)
      BY <1>0, <1>1, <1>2, <2>1 DEF Flags
    <3>. QED BY <3>1, <2>2 DEF JobAt
  <2>7. Around(r, j)
    BY <1>0, <2>1 DEF Around
  <2>8. Serves(r, j, x, y, v)
    BY <1>0, <1>1, <2>1, <2>2, <2>5, <2>6, <2>7 DEF Serves, Writes
  <2>9. Steady
    BY <1>0, <2>1 DEF Base, Steady, Places
  <2>. QED BY <2>8, <2>9, <1>r, <1>x, ServesActs
<1>4. CASE x.token = 0
  <2>o. PICK o : o = Removed(x)
    OBVIOUS
  <2>y. PICK y : y = Collected(o)
    OBVIOUS
  <2>1. /\ job' = [job EXCEPT ![j] = y] /\ UNCHANGED wire
        /\ registry' = [registry EXCEPT ![r] = None] /\ named' = named \ {r}
    BY <1>4, <1>r, <1>x, <2>o, <2>y DEF Remove
  <2>2. o \in Registrations /\ o.removing = x.removing
    <3>1. Stopping(x, o) /\ o.removing = x.removing
      BY ONLY <1>2, <2>o, RemovedIs
    <3>. QED BY <3>1 DEF Stopping
  <2>3. Quiet(x, y, 0)
    BY ONLY <1>1, <1>2, <2>o, <2>y, RemovedOk
  <2>4. y.removing => x.removing
    <3>1. y = o \/ y = Lost
      BY <2>2, <2>y, CollectedIs
    <3>. QED BY <3>1, <2>2, LostIs
  <2>5. JobAt(j, y, registry'[r], connected', named')
    <3>1. PICK h2, on2, nm2 \in BOOLEAN : Flags(j, registry'[r], connected', named', h2, on2, nm2)
      BY FlagsAre
    <3>2. registry'[r] = None
      BY <1>0, <1>1, <2>1
    <3>3. h2 = FALSE
      BY <3>1, <3>2, <1>0 DEF Flags
    <3>4. JobOk(y, FALSE, on2, nm2)
      BY ONLY <1>1, <1>2, <2>o, <2>y, RemovedOk
    <3>. QED BY <3>1, <3>3, <3>4 DEF JobAt
  <2>6. Around(r, j) /\ registry'[r] # j
    BY <1>0, <1>1, <2>1 DEF Around
  <2>7. wire' = [wire EXCEPT ![r] = wire[r]]
    BY <1>1, <2>1
  <2>8. Serves(r, j, x, y, wire[r])
    BY <1>0, <1>1, <2>1, <2>3, <2>4, <2>5, <2>6, <2>7 DEF Serves, Writes, Grows, Sends
  <2>9. Steady
    <3>1. Places'
      BY <1>0, <1>1, <2>1 DEF Base, Places
    <3>2. \A q \in Replicas : registry'[q] # None => Owner[registry'[q]] = q
      BY <1>1, <2>1 DEF Base
    <3>. QED BY <3>1, <3>2, <1>0 DEF Base, Steady
  <2>. QED BY <2>8, <2>9, <1>r, <1>x, ServesActs
<1>. QED BY <1>3, <1>4

LEMMA DisconnectActs ==
  ASSUME Base, NEW r \in Replicas, Disconnect(r), registry[r] # None
  PROVE  Acted /\ Steady
<1>j. PICK j : j = registry[r]
  OBVIOUS
<1>x. PICK x : x = job[j]
  OBVIOUS
<1>z. PICK z : z = [x EXCEPT !.dropped = @ \/ ~x.paused]
  OBVIOUS
<1>0. /\ registry[r] = j /\ j # None /\ events' = events + 1
      /\ connected' = connected \ {r} /\ named' = named \ {r}
      /\ UNCHANGED <<kind, now, registry, lock, runs>>
  BY <1>j DEF Disconnect, Event
<1>h. PICK on, nm \in BOOLEAN : Here(r, j, x, on, nm)
  BY <1>0, <1>x, HereIs
<1>1. /\ Owner[j] = r /\ j \in Jobs /\ x \in Registrations /\ x.used /\ x # Lost
      /\ wire[r] \in Seq(Commands) /\ wire \in [Replicas -> Seq(Commands)]
      /\ \A i \in 1..Len(wire[r]) :
           CmdForm(r, wire[r][i]) /\ (wire[r][i].job = j => CmdFits(x, wire[r][i]))
      /\ connected \in SUBSET Replicas /\ named \in SUBSET Replicas
  BY <1>h DEF Here, Base, Places
<1>2. (on <=> r \in connected) /\ (nm <=> r \in named) /\ JobOk(x, TRUE, on, nm)
  BY <1>h DEF Here
<1>3. Steady
  <2>1. connected' \in SUBSET Replicas /\ named' \in SUBSET Replicas
    BY <1>0, <1>1
  <2>. QED BY <2>1, <1>0 DEF Base, Steady, Places
<1>4. Around(r, j)
  BY <1>0, <1>1 DEF Around
<1>5. ASSUME NEW y, JobOk(y, TRUE, FALSE, FALSE)
      PROVE  JobAt(j, y, registry'[r], connected', named') /\ y # Lost
  <2>1. Flags(j, registry'[r], connected', named', TRUE, FALSE, FALSE)
    BY <1>0, <1>1 DEF Flags
  <2>2. JobAt(j, y, registry'[r], connected', named')
    BY <1>5, <2>1 DEF JobAt
  <2>3. y # Lost
    BY <1>5, LostIsGone
  <2>. QED BY <2>2, <2>3
<1>6. CASE r \notin named
  <2>y. PICK y : y = Hurried(z)
    OBVIOUS
  <2>1. job' = [job EXCEPT ![j] = y] /\ UNCHANGED wire
    BY <1>0, <1>6, <1>j, <1>x, <1>z, <2>y DEF Disconnect
  <2>2. JobOk(x, TRUE, on, FALSE)
    BY <1>2, <1>6
  <2>3. JobOk(y, TRUE, FALSE, FALSE) /\ (y # Lost => Quiet(x, y, 0)) /\ y.removing = x.removing
    BY ONLY <2>2, <1>1, <1>z, <2>y, UnstoppedOk
  <2>4. JobAt(j, y, registry'[r], connected', named') /\ y # Lost
    BY <1>5, <2>3
  <2>5. wire' = [wire EXCEPT ![r] = wire[r]]
    BY <2>1, <1>1
  <2>6. Serves(r, j, x, y, wire[r])
    BY <1>0, <1>1, <2>1, <2>3, <2>4, <2>5, <1>4 DEF Serves, Grows, Sends, Writes
  <2>. QED BY <1>1, <1>3, <1>x, <2>6, ServesActs
<1>7. CASE r \in named
  <2>y. PICK y : y = Unheld(Stopped(z))
    OBVIOUS
  <2>u. PICK u : u = wire[r]
    OBVIOUS
  <2>f. PICK for : for = "nobody"
    OBVIOUS
  <2>v. PICK v : v = IF x.token = 0 THEN u ELSE Append(u, Del("once", 0, j, x.token, for))
    OBVIOUS
  <2>2. JobOk(y, TRUE, FALSE, FALSE) /\ (y # Lost => Quiet(x, y, 0)) /\ y.removing = x.removing
        /\ z.token = x.token /\ y.token = 0
    BY ONLY <1>2, <1>1, <1>z, <2>y, DisconnectOk
  <2>1. job' = [job EXCEPT ![j] = y] /\ wire' = [wire EXCEPT ![r] = v]
    <3>1. job' = [job EXCEPT ![j] = y]
      BY <1>0, <1>7, <1>j, <1>x, <1>z, <2>y DEF Disconnect
    <3>2. wire' = IF z.token = 0 THEN wire ELSE
                     [wire EXCEPT ![r] = Append(@, Del("once", 0, j, z.token, "nobody"))]
      BY <1>0, <1>7, <1>j, <1>x, <1>z, <2>y DEF Disconnect
    <3>3. wire = [wire EXCEPT ![r] = wire[r]]
      BY <1>1
    <3>4. wire' = [wire EXCEPT ![r] = v]
      BY <3>2, <3>3, <2>2, <2>u, <2>f, <2>v
    <3>. QED BY <3>1, <3>4
  <2>3. y \in Registrations
    BY <2>2 DEF JobOk, Formed
  <2>4. JobAt(j, y, registry'[r], connected', named') /\ y # Lost
    BY <1>5, <2>2
  <2>5. /\ Grows(r, j, y, u, v) /\ Sends(j, u, v) /\ (Called(v, j) => Called(u, j))
    <3>1. CASE x.token = 0
      BY <3>1, <2>v DEF Grows, Sends
    <3>2. CASE x.token # 0
      <4>1. x.wait = "none" /\ x.token <= x.minted
        BY <1>2, <3>2, FiresAre, <1>1 DEF JobOk, Formed
      <4>2. Dropping(r, j, x, y, u, v, for)
        BY <1>0, <1>1, <3>2, <2>2, <2>3, <2>4, <4>1, <2>u, <2>v, <2>f DEF Dropping
      <4>3. Grows(r, j, y, u, v) /\ Sends(j, u, v) /\ (Called(v, j) => Called(u, j) \/ for = "remove")
        BY ONLY <4>2, DropJoins
      <4>. QED BY <4>3, <2>f
    <3>. QED BY <3>1, <3>2
  <2>6. Serves(r, j, x, y, v)
    BY <1>0, <1>1, <2>1, <2>2, <2>4, <2>5, <2>u, <1>4 DEF Serves, Writes
  <2>. QED BY <1>1, <1>3, <1>x, <2>6, ServesActs
<1>. QED BY <1>6, <1>7

(* A registration sends the claim of its name, with a token of its own.      *)
Minting(r, j, x, y, v) ==
  /\ x # Lost /\ x.wait = "none" /\ y \in Registrations
  /\ y.used /\ y.fires = x.fires /\ y.minted = x.minted + 1 /\ y.token = 0 /\ y.wait # "none"
  /\ y.removing = x.removing /\ v = Append(wire[r], Set("once", 0, j, y.minted, "claim"))
  /\ registry[r] # j => registry'[r] # j \/ ~x.used
  /\ Writes(r, j, y, v) /\ Around(r, j) /\ JobAt(j, y, registry'[r], connected', named')
  /\ UNCHANGED runs

LEMMA MintActs ==
  ASSUME Base, NEW j \in Jobs, NEW r, r = Owner[j], NEW x, x = job[j], NEW y, NEW v,
         Minting(r, j, x, y, v)
  PROVE  Acted
<1>u. PICK u : u = wire[r]
  OBVIOUS
<1>n. PICK n : n = y.minted
  OBVIOUS
<1>d. PICK d : d = Set("once", 0, j, n, "claim")
  OBVIOUS
<1>1. /\ x \in Registrations /\ r \in Replicas /\ WireOk(r, u, job, registry[r]) /\ 0 \in 0..Len(u)
      /\ u \in Seq(Commands) /\ Len(x.fires) \in Nat /\ Owner[j] = r
      /\ x.minted \in Nat
  BY <1>u, FireAt, FiresAre
<1>2. Leftover(r, u, 0, u) /\ \A i \in 1..Len(u) : Stays(u, 0, u[i])
  BY <1>1, NoneLeaves
<1>3. /\ x # Lost /\ x.wait = "none" /\ y \in Registrations
      /\ y.used /\ y.fires = x.fires /\ y.minted = x.minted + 1 /\ y.token = 0 /\ y.wait # "none"
      /\ y.removing = x.removing /\ v = Append(u, d)
      /\ registry[r] # j => registry'[r] # j \/ ~x.used
      /\ Writes(r, j, y, v) /\ Around(r, j) /\ JobAt(j, y, registry'[r], connected', named')
      /\ UNCHANGED runs
  BY <1>u, <1>d, <1>n DEF Minting
<1>4. n \in Nat /\ n # 0 /\ n = x.minted + 1
  BY <1>1, <1>3, <1>n
<1>5. Token("once", 0, j, n)
  BY <1>4 DEF Token
<1>6. /\ d \in Commands /\ d.op = "set" /\ d.for = "claim" /\ d.key = "once" /\ d.slot = 0
      /\ d.job = j /\ d.n = n /\ d.done = FALSE /\ d.until = 0
  BY ONLY <1>5, <1>d DEF Set, Commands, Token
<1>7. CmdForm(r, d)
  BY <1>6, <1>1 DEF CmdForm
<1>8. CmdFits(y, d)
  BY <1>6, <1>3, <1>4, <1>n DEF CmdFits
<1>9. ASSUME NEW i \in 1..Len(u), u[i].job = j
      PROVE  x.used /\ CmdFits(y, u[i]) /\ u[i].for # "claim" /\ ~SameToken(u[i], d)
  <2>1. CmdFits(x, u[i]) /\ CmdForm(r, u[i])
    BY <1>1, <1>9 DEF WireOk
  <2>2. /\ u[i].n \in Nat /\ u[i].n # 0 /\ u[i].key \in {"slot", "mutex", "once"}
        /\ u[i].for = "claim" => u[i].key = "once"
    BY <2>1, CommandIs DEF CmdForm
  <2>3. CASE u[i].key = "once"
    <3>1. u[i].n <= x.minted /\ x.used /\ u[i].for # "claim"
      BY <2>1, <2>3, <1>3 DEF CmdFits
    <3>2. u[i].n <= n /\ u[i].n # n
      BY <3>1, <2>2, <1>1, <1>4
    <3>3. CmdFits(y, u[i])
      BY <3>1, <3>2, <2>2, <2>3, <1>3, <1>n DEF CmdFits
    <3>. QED BY <3>1, <3>2, <3>3, <1>6 DEF SameToken
  <2>4. CASE u[i].key # "once"
    <3>1. CmdFits(y, u[i]) /\ x.used
      BY <2>1, <2>4, <1>3 DEF CmdFits
    <3>. QED BY <3>1, <2>2, <2>4, <1>6 DEF SameToken
  <2>. QED BY <2>2, <2>3, <2>4
<1>10. Joins(r, j, y, u, d)
  <2>1. \A i \in 1..Len(u) : ~SameToken(u[i], d)
    BY <1>9, <1>6 DEF SameToken
  <2>. QED BY <2>1, <1>6, <1>7, <1>8 DEF Joins
<1>11. Grows(r, j, y, u, v) /\ Sends(j, u, v)
  BY <1>10, <1>3, <1>6 DEF Grows, Sends
<1>12. Answers(v, j, y, registry'[r])
  <2>1. Answers(u, j, x, registry[r])
    BY <1>1 DEF WireOk
  <2>2. /\ v \in Seq(Commands)
        /\ \A i \in 1..Len(u) : i \in 1..Len(v) /\ v[i] = u[i]
    <3>1. /\ v \in Seq(Commands) /\ Len(v) = Len(u) + 1 /\ Len(u) \in Nat
          /\ \A i \in 1..Len(u) : v[i] = u[i]
      BY <1>1, <1>3, <1>6, AppendDoes
    <3>. QED BY <3>1
  <2>3. Called(u, j) => Called(v, j)
    BY ONLY <1>1, <1>3, <1>6, SendIs
  <2>4. Called(v, j) => Called(u, j)
    <3>1. Called(v, j) => Called(u, j) \/ (d.for = "remove" /\ d.job = j)
      BY ONLY <1>1, <1>3, <1>6, SendIs
    <3>. QED BY <3>1, <1>6
  <2>5. Called(u, j) => x.used
    BY <1>9 DEF Called
  <2>6. \A k \in 1..Len(x.fires) :
           x.fires[k].stage \in {"slot", "mutex", "release"} => Asked(v, j, k, x.fires[k].stage)
    BY <2>1, <2>2 DEF Answers, Asked
  <2>7. Called(v, j) => x.removing \/ registry'[r] # j
    BY <2>1, <2>4, <2>5, <1>3 DEF Answers
  <2>8. x.removing => Called(v, j)
    BY <2>1, <2>3 DEF Answers
  <2>. QED BY <2>6, <2>7, <2>8, <1>3 DEF Answers
<1>13. Moved(r, j, 0, u, y, v)
  BY <1>1, <1>2, <1>3, <1>9, <1>11, <1>12, <1>u DEF Moved, Writes
<1>14. FireGoes(r, 0, u, x, y, 0) /\ RunsGo(j, 0, x)
  BY <1>3, NoneGoes
<1>15. Tame(x, y, 0) /\ TokenGoes(r, 0, x, y)
  BY <1>1, <1>3 DEF Tame, TokenGoes, Kept
<1>16. 0 \in 0..Len(x.fires)
  BY <1>1
<1>17. Acts(r, j, 0, u, 0, y, v)
  BY <1>3, <1>11, <1>13, <1>14, <1>15, <1>16 DEF Acts
<1>. QED BY <1>1, <1>17 DEF Acted

LEMMA ResumeActs ==
  ASSUME Base, NEW j \in Jobs, Resume(j)
  PROVE  Acted /\ Steady
<1>1. CASE ~(kind = "delay" /\ job[j].claim = "claimed" /\ job[j].token = 0)
  BY <1>1, RearmActs
<1>2. CASE kind = "delay" /\ job[j].claim = "claimed" /\ job[j].token = 0
  <2>r. PICK r : r = Owner[j]
    OBVIOUS
  <2>x. PICK x : x = job[j]
    OBVIOUS
  <2>y. PICK y : y = Reclaimed(x)
    OBVIOUS
  <2>v. PICK v : v = Append(wire[r], Set("once", 0, j, x.minted + 1, "claim"))
    OBVIOUS
  <2>0. /\ registry[r] = j /\ j # None /\ r \in Replicas /\ r \in connected /\ events' = events + 1
        /\ UNCHANGED <<kind, now, connected, registry, named, lock, runs>>
        /\ job' = [job EXCEPT ![j] = y] /\ wire' = [wire EXCEPT ![r] = v]
        /\ x.paused /\ x.wait # "resume" /\ x.claim = "claimed" /\ x.token = 0 /\ kind = "delay"
    BY <1>2, <2>r, <2>x, <2>y, <2>v, JobsAssumption DEF Resume, Registered, Event, Reclaimed
  <2>h. PICK on, nm \in BOOLEAN : Here(r, j, x, on, nm)
    BY <2>0, <2>x, HereIs
  <2>1. Owner[j] = r /\ x \in Registrations /\ x.used /\ x # Lost
    BY <2>h DEF Here
  <2>2. (nm <=> r \in named) /\ JobOk(x, TRUE, TRUE, nm)
    BY <2>h, <2>0 DEF Here
  <2>3. /\ JobOk(y, TRUE, TRUE, nm) /\ y # Lost /\ y.removing = x.removing /\ x.wait = "none"
        /\ y.used /\ y.fires = x.fires /\ y.minted = x.minted + 1 /\ y.token = 0
        /\ y.wait = "resume"
    <3>1. Reclaims(x, nm)
      BY ONLY <2>0, <2>1, <2>2 DEF Reclaims
    <3>2. JobOk(y, TRUE, TRUE, nm) /\ y # Lost /\ x.wait = "none"
      BY ONLY <3>1, <2>y, ReclaimOk
    <3>3. y.removing = x.removing /\ y.used
      BY ONLY <3>1, <2>y, ReclaimOk
    <3>4. y.fires = x.fires /\ y.minted = x.minted + 1 /\ y.token = 0 /\ y.wait = "resume"
      BY ONLY <3>1, <2>y, ReclaimOk
    <3>. QED BY <3>2, <3>3, <3>4
  <2>4. JobAt(j, y, registry'[r], connected', named')
    <3>1. Flags(j, registry'[r], connected', named', TRUE, TRUE, nm)
      BY <2>0, <2>1, <2>2 DEF Flags
    <3>. QED BY <3>1, <2>3 DEF JobAt
  <2>5. y \in Registrations
    BY <2>3 DEF JobOk, Formed
  <2>6. Around(r, j)
    BY <2>0 DEF Around
  <2>7. Minting(r, j, x, y, v)
    BY <2>0, <2>1, <2>3, <2>4, <2>5, <2>6, <2>v DEF Minting, Writes
  <2>8. Steady
    BY <2>0 DEF Base, Steady, Places
  <2>. QED BY <2>7, <2>8, <2>r, <2>x, MintActs
<1>. QED BY <1>1, <1>2

(* A registration that was not used is not known of.                         *)
LEMMA UnknownIs ==
  ASSUME Base, NEW j \in Jobs, ~job[j].used
  PROVE  /\ job[j] = Unused
         /\ \A i \in 1..Len(wire[Owner[j]]) : wire[Owner[j]][i].job # j
<1>1. job[j] = Unused
  <2>1. JobAt(j, job[j], registry[Owner[j]], connected, named)
    BY DEF Base, JobsOk
  <2>. QED BY <2>1 DEF JobAt, JobOk, Formed
<1>2. ASSUME NEW i \in 1..Len(wire[Owner[j]]), wire[Owner[j]][i].job = j
      PROVE  FALSE
  <2>1. CmdFits(job[j], wire[Owner[j]][i])
    BY <1>2, JobsAssumption DEF Base, Wires, WireOk
  <2>. QED BY <2>1 DEF CmdFits
<1>. QED BY <1>1, <1>2

LEMMA RegisterActs ==
  ASSUME Base, NEW j \in Jobs, Register(j)
  PROVE  Acted /\ Steady
<1>r. PICK r : r = Owner[j]
  OBVIOUS
<1>x. PICK x : x = job[j]
  OBVIOUS
<1>u. PICK u : u = wire[r]
  OBVIOUS
<1>0. /\ ~x.used /\ r \in connected /\ registry[r] = None /\ registry' = [registry EXCEPT ![r] = j]
      /\ UNCHANGED <<kind, now, connected, lock, runs, events>>
  BY <1>r, <1>x DEF Register
<1>1. /\ r \in Replicas /\ Owner[j] = r /\ j # None /\ wire \in [Replicas -> Seq(Commands)]
      /\ registry \in [Replicas -> Jobs \union {None}] /\ now \in Nat /\ Clock(r) \in Nat
      /\ kind \in {"every", "delay"} /\ named \in SUBSET Replicas /\ events \in Nat
      /\ job \in [Jobs -> Registrations] /\ WireOk(r, u, job, registry[r])
      /\ u \in Seq(Commands) /\ x \in Registrations /\ 0 \in 0..Len(u)
  <2>1. /\ r \in Replicas /\ Owner[j] = r /\ j # None
    BY <1>r, JobsAssumption
  <2>2. Clock(r) \in Nat /\ now \in Nat
    BY <2>1, TimeAssumption DEF Clock, Base
  <2>3. /\ WireOk(r, u, job, registry[r]) /\ u \in Seq(Commands) /\ x \in Registrations
        /\ 0 \in 0..Len(u)
    BY <1>r, <1>u, <1>x, FireAt
  <2>. QED BY <2>1, <2>2, <2>3 DEF Base, Places, Wires
<1>2. x = Unused /\ \A i \in 1..Len(u) : u[i].job # j
  BY <1>0, <1>r, <1>x, <1>u, UnknownIs
<1>3. x # Lost /\ x.wait = "none" /\ Len(x.fires) = 0 /\ 0 \in 0..Len(x.fires)
  BY <1>2, LostIs
<1>4. ~Called(u, j)
  BY <1>2 DEF Called
<1>5. registry'[r] = j /\ Around(r, j)
  <2>1. named' \in {named, named \union {r}}
    BY <1>r DEF Register
  <2>2. \A q \in Replicas : q # r => (q \in named' <=> q \in named)
    BY <2>1
  <2>3. \A q \in Replicas : q # r => registry'[q] = registry[q]
    BY <1>0, <1>1
  <2>4. registry'[r] = j
    BY <1>0, <1>1
  <2>. QED BY <2>2, <2>3, <2>4, <1>0 DEF Around
<1>6. CASE kind = "every"
  <2>y. PICK y : y = Armed(Lost, NextSlot(r))
    OBVIOUS
  <2>1. job' = [job EXCEPT ![j] = y] /\ named' = named \union {r} /\ UNCHANGED wire
    BY <1>6, <1>2, <1>r, <1>x, <2>y DEF Register, Lost
  <2>2. JobOk(y, TRUE, TRUE, TRUE) /\ ~y.removing
        /\ \A k \in 1..Len(y.fires) : y.fires[k].stage = "armed"
    BY ONLY <1>1, <1>6, <2>y, EveryOk
  <2>3. JobAt(j, y, registry'[r], connected', named')
    <3>1. Flags(j, registry'[r], connected', named', TRUE, TRUE, TRUE)
      BY <1>0, <1>1, <1>5, <2>1 DEF Flags
    <3>. QED BY <3>1, <2>2 DEF JobAt
  <2>4. y \in Registrations /\ y.token = 0
    BY <2>2, <1>6 DEF JobOk, Formed
  <2>5. Leftover(r, u, 0, u)
    BY <1>1, NoneLeaves
  <2>6. Answers(u, j, y, registry'[r])
    BY <1>4, <2>2 DEF Answers
  <2>7. wire' = [wire EXCEPT ![r] = u]
    BY <1>1, <1>u, <2>1
  <2>8. Grows(r, j, y, u, u)
    BY DEF Grows
  <2>9. Moved(r, j, 0, u, y, u)
    BY <1>1, <1>2, <1>5, <1>u, <2>1, <2>5, <2>6, <2>7, <2>8 DEF Moved
  <2>10. FireGoes(r, 0, u, x, y, 0) /\ RunsGo(j, 0, x) /\ Sends(j, u, u)
    BY <1>0, NoneGoes
  <2>11. Tame(x, y, 0) /\ TokenGoes(r, 0, x, y)
    <3>1. Len(x.fires) <= Len(y.fires) /\ Len(y.fires) \in Nat
      BY <1>3, <2>4, FiresAre
    <3>. QED BY <3>1, <1>3, <2>2, <2>4 DEF Tame, TokenGoes
  <2>12. Acts(r, j, 0, u, 0, y, u)
    BY <1>3, <1>x, <2>3, <2>9, <2>10, <2>11 DEF Acts
  <2>13. Acted
    BY <1>1, <2>12 DEF Acted
  <2>14. Steady
    <3>1. Places'
      BY <1>0, <1>1, <2>1 DEF Base, Places
    <3>2. \A q \in Replicas : registry'[q] # None => Owner[registry'[q]] = q
      BY <1>0, <1>1 DEF Base
    <3>. QED BY <3>1, <3>2, <1>0, <1>1 DEF Base, Steady
  <2>. QED BY <2>13, <2>14
<1>7. CASE kind = "delay"
  <2>d. PICK due \in Nat : due = Clock(r) + Delay
    BY <1>1, TimeAssumption
  <2>y. PICK y : y = [Unused EXCEPT !.used = TRUE, !.minted = 1, !.wait = "register", !.due = due]
    OBVIOUS
  <2>v. PICK v : v = Append(wire[r], Set("once", 0, j, 1, "claim"))
    OBVIOUS
  <2>1. job' = [job EXCEPT ![j] = y] /\ UNCHANGED named /\ wire' = [wire EXCEPT ![r] = v]
    BY <1>7, <1>2, <1>r, <1>x, <2>y, <2>d, <2>v DEF Register
  <2>n. PICK nm \in BOOLEAN : nm <=> r \in named'
    <3>1. (TRUE <=> r \in named') \/ (FALSE <=> r \in named')
      OBVIOUS
    <3>. QED BY <3>1
  <2>2. JobOk(y, TRUE, TRUE, nm) /\ y.fires = <<>> /\ ~y.removing /\ y.minted = 1
        /\ y.token = 0 /\ y.wait = "register" /\ y.used /\ y # Lost
    BY ONLY <1>7, <2>d, <2>y, DelayOk
  <2>3. JobAt(j, y, registry'[r], connected', named')
    <3>1. Flags(j, registry'[r], connected', named', TRUE, TRUE, nm)
      BY <1>0, <1>1, <1>5, <2>1, <2>n DEF Flags
    <3>. QED BY <3>1, <2>2 DEF JobAt
  <2>4. y \in Registrations
    BY <2>2 DEF JobOk, Formed
  <2>5. y.removing = x.removing
    <3>1. x.removing = FALSE /\ y.removing \in BOOLEAN
      BY <1>2, <2>4, LostIs DEF Registrations
    <3>. QED BY <3>1, <2>2
  <2>6. y.minted = x.minted + 1 /\ y.fires = x.fires
    BY <1>2, <2>2, LostIs
  <2>7. Minting(r, j, x, y, v)
    BY <1>0, <1>3, <1>5, <2>1, <2>2, <2>3, <2>4, <2>5, <2>6, <2>v DEF Minting, Writes
  <2>8. Acted
    BY <1>r, <1>x, <2>7, MintActs
  <2>9. Steady
    <3>1. Places'
      BY <1>0, <1>1, <2>1 DEF Base, Places
    <3>2. \A q \in Replicas : registry'[q] # None => Owner[registry'[q]] = q
      BY <1>0, <1>1 DEF Base
    <3>. QED BY <3>1, <3>2, <1>0, <1>1 DEF Base, Steady
  <2>. QED BY <2>8, <2>9
<1>. QED BY <1>1, <1>6, <1>7

(* Steps that concern no registration's fires: connect(), and disconnect() of *)
(* a service that has none registered.                                       *)
LEMMA IdleOk ==
  ASSUME Base, UNCHANGED <<kind, now, registry, job, wire, lock, runs>>, events' \in Nat,
         connected' \in SUBSET Replicas, named' \in SUBSET Replicas,
         \A i \in Jobs : JobAt(i, job[i], registry[Owner[i]], connected', named')
  PROVE  Base'
<1>1. \A i \in Jobs : JobAt(i, job'[i], registry'[Owner[i]], connected', named')
  OBVIOUS
<1>2. JobsOk'
  BY <1>1, KindStays DEF JobsOk
<1>3. Wires'
  <2>1. ASSUME NEW q, WireOk(q, wire[q], job, registry[q])
        PROVE  WireOk(q, wire[q], job, registry[q])'
    BY <2>1 DEF WireOk
  <2>. QED BY <2>1 DEF Base, Wires
<1>. QED BY <1>2, <1>3 DEF Base, Places

LEMMA ConnectIdle ==
  ASSUME Base, NEW r \in Replicas, Connect(r)
  PROVE  Base'
<1>1. /\ r \notin connected /\ connected' = connected \union {r} /\ events' = events + 1
      /\ UNCHANGED <<kind, now, registry, named, job, wire, lock, runs>>
  BY DEF Connect, Event
<1>2. ASSUME NEW i \in Jobs
      PROVE  JobAt(i, job[i], registry[Owner[i]], connected', named')
  <2>1. PICK h, on, nm \in BOOLEAN : /\ Flags(i, registry[Owner[i]], connected, named, h, on, nm)
                                     /\ JobOk(job[i], h, on, nm)
    BY DEF Base, JobsOk, JobAt
  <2>2. CASE Owner[i] = r
    <3>1. on = FALSE
      BY <1>1, <2>1, <2>2 DEF Flags
    <3>2. JobOk(job[i], h, FALSE, nm)
      BY <2>1, <3>1
    <3>3. JobOk(job[i], h, TRUE, nm)
      BY ONLY <3>2, ConnectOk
    <3>4. Flags(i, registry[Owner[i]], connected', named', h, TRUE, nm)
      BY <1>1, <2>1, <2>2 DEF Flags
    <3>. QED BY <2>1, <3>3, <3>4 DEF JobAt
  <2>3. CASE Owner[i] # r
    <3>1. Flags(i, registry[Owner[i]], connected', named', h, on, nm)
      BY <1>1, <2>1, <2>3 DEF Flags
    <3>. QED BY <2>1, <3>1 DEF JobAt
  <2>. QED BY <2>2, <2>3
<1>3. connected' \in SUBSET Replicas /\ named' \in SUBSET Replicas /\ events' \in Nat
  BY <1>1 DEF Base, Places
<1>. QED BY <1>1, <1>2, <1>3, IdleOk

LEMMA DisconnectIdle ==
  ASSUME Base, NEW r \in Replicas, Disconnect(r), registry[r] = None
  PROVE  Base'
<1>1. /\ connected' = connected \ {r} /\ named' = named \ {r} /\ events' = events + 1
      /\ UNCHANGED <<kind, now, registry, job, wire, lock, runs>>
  BY DEF Disconnect, Event
<1>2. ASSUME NEW i \in Jobs
      PROVE  JobAt(i, job[i], registry[Owner[i]], connected', named')
  <2>1. PICK h, on, nm \in BOOLEAN : /\ Flags(i, registry[Owner[i]], connected, named, h, on, nm)
                                     /\ JobOk(job[i], h, on, nm)
    BY DEF Base, JobsOk, JobAt
  <2>2. CASE Owner[i] = r
    <3>1. h = FALSE
      BY <2>1, <2>2, JobsAssumption DEF Flags
    <3>2. JobOk(job[i], FALSE, on, nm)
      BY <2>1, <3>1
    <3>3. JobOk(job[i], FALSE, FALSE, FALSE)
      BY ONLY <3>2, NotHereOk
    <3>4. Flags(i, registry[Owner[i]], connected', named', FALSE, FALSE, FALSE)
      BY <1>1, <2>1, <2>2, <3>1 DEF Flags
    <3>. QED BY <3>3, <3>4 DEF JobAt
  <2>3. CASE Owner[i] # r
    <3>1. Flags(i, registry[Owner[i]], connected', named', h, on, nm)
      BY <1>1, <2>1, <2>3 DEF Flags
    <3>. QED BY <2>1, <3>1 DEF JobAt
  <2>. QED BY <2>2, <2>3
<1>3. connected' \in SUBSET Replicas /\ named' \in SUBSET Replicas /\ events' \in Nat
  BY <1>1 DEF Base, Places
<1>. QED BY <1>1, <1>2, <1>3, IdleOk

(* The server executes a command, and its clock goes on.                     *)
LEMMA ServerOk ==
  ASSUME Base, UNCHANGED <<kind, registry, connected, named, job>>, now' \in Nat, events' \in Nat,
         wire' \in [Replicas -> Seq(Commands)],
         \A q \in Replicas : WireOk(q, wire'[q], job, registry[q])
  PROVE  Base'
<1>1. \A i \in Jobs : JobAt(i, job'[i], registry'[Owner[i]], connected', named')
  BY DEF Base, JobsOk
<1>2. JobsOk'
  BY <1>1, KindStays DEF JobsOk
<1>3. Wires'
  <2>1. ASSUME NEW q, WireOk(q, wire'[q], job, registry[q])
        PROVE  WireOk(q, wire[q], job, registry[q])'
    BY <2>1 DEF WireOk
  <2>. QED BY <2>1 DEF Wires
<1>. QED BY <1>2, <1>3 DEF Base, Places

Likewise(c, d) ==
  d.key = c.key /\ d.slot = c.slot /\ d.job = c.job /\ d.n = c.n /\ d.for = c.for

LEMMA LikewiseOk ==
  ASSUME NEW r, NEW u, NEW J, NEW g, WireOk(r, u, J, g), NEW v \in Seq(Commands), Sole(v),
         Ordered(v), \A i \in 1..Len(v) : CmdForm(r, v[i]) /\ \E m \in 1..Len(u) : Likewise(u[m], v[i]),
         \A m \in 1..Len(u) : u[m].for # "nobody" => \E i \in 1..Len(v) : Likewise(u[m], v[i])
  PROVE  WireOk(r, v, J, g)
<1>1. ASSUME NEW i \in 1..Len(v)
      PROVE  CmdFits(J[v[i].job], v[i])
  <2>1. PICK m \in 1..Len(u) : Likewise(u[m], v[i])
    OBVIOUS
  <2>2. CmdFits(J[u[m].job], u[m])
    BY DEF WireOk
  <2>3. /\ v[i].key = u[m].key /\ v[i].slot = u[m].slot /\ v[i].job = u[m].job
        /\ v[i].n = u[m].n /\ v[i].for = u[m].for
    BY <2>1 DEF Likewise
  <2>4. CmdFits(J[u[m].job], v[i])
    BY ONLY <2>2, <2>3 DEF CmdFits
  <2>. QED BY <2>3, <2>4
<1>2. ASSUME NEW j \in Jobs, Owner[j] = r
      PROVE  Answers(v, j, J[j], g)
  <2>1. Answers(u, j, J[j], g)
    BY <1>2 DEF WireOk
  <2>2. ASSUME NEW k, NEW for, Asked(u, j, k, for), for # "nobody"
        PROVE  Asked(v, j, k, for)
    <3>1. PICK m \in 1..Len(u) : u[m].job = j /\ u[m].n = k /\ u[m].for = for
      BY <2>2 DEF Asked
    <3>2. PICK i \in 1..Len(v) : Likewise(u[m], v[i])
      BY <2>2, <3>1
    <3>. QED BY <3>1, <3>2 DEF Likewise, Asked
  <2>3. Called(v, j) <=> Called(u, j)
    <3>1. ASSUME NEW m \in 1..Len(u), u[m].for = "remove", u[m].job = j
          PROVE  Called(v, j)
      <4>1. PICK i \in 1..Len(v) : Likewise(u[m], v[i])
        BY <3>1
      <4>. QED BY <3>1, <4>1 DEF Likewise, Called
    <3>2. ASSUME NEW i \in 1..Len(v), v[i].for = "remove", v[i].job = j
          PROVE  Called(u, j)
      <4>1. PICK m \in 1..Len(u) : Likewise(u[m], v[i])
        OBVIOUS
      <4>. QED BY <3>2, <4>1 DEF Likewise, Called
    <3>3. Called(u, j) => Called(v, j)
      BY <3>1 DEF Called
    <3>4. Called(v, j) => Called(u, j)
      BY <3>2 DEF Called
    <3>. QED BY <3>3, <3>4
  <2>4. ASSUME NEW k \in 1..Len(J[j].fires), J[j].fires[k].stage \in {"slot", "mutex", "release"}
        PROVE  Asked(v, j, k, J[j].fires[k].stage)
    BY <2>1, <2>2, <2>4 DEF Answers
  <2>. QED BY <2>1, <2>3, <2>4 DEF Answers
<1>. QED BY <1>1, <1>2 DEF WireOk

(* What Execute does to command p of the wire.                               *)
Frees(c) == c.op = "set" /\ \A h \in lock : Key(h) # Key(c) \/ h.until <= now
Executed(c) == [c EXCEPT !.done = TRUE, !.until = IF Frees(c) THEN now + Lease(c) ELSE 0]
Executes(r, u, p, v) ==
  /\ p \in 1..Len(u) /\ ~u[p].done /\ \A m \in 1..(p - 1) : u[m].done
  /\ wire' = [wire EXCEPT ![r] = v]
  /\ v = IF u[p].for = "nobody" THEN Seqs!RemoveAt(u, p) ELSE [u EXCEPT ![p] = Executed(u[p])]
  /\ lock' = CASE u[p].op = "del" -> {h \in lock : ~Owns(h, u[p])}
               [] u[p].op = "set" /\ ~Frees(u[p]) -> lock
               [] u[p].op = "set" /\ Frees(u[p]) ->
                    {h \in lock : Key(h) # Key(u[p])} \union
                       {[key |-> u[p].key, slot |-> u[p].slot, job |-> u[p].job, n |-> u[p].n,
                         until |-> now + Lease(u[p])]}
  /\ UNCHANGED <<kind, now, connected, registry, named, job, runs, events>>

LEMMA ExecuteIs ==
  ASSUME Base, NEW r \in Replicas, Execute(r)
  PROVE  \E p, v : Executes(r, wire[r], p, v)
<1>1. WireOk(r, wire[r], job, registry[r])
  BY DEF Base, Wires
<1>2. wire[r] \in Seq(Commands)
  BY <1>1 DEF WireOk
<1>3. PICK p \in DOMAIN wire[r] :
        LET cmd == wire[r][p]
            free == \A h \in lock : Key(h) # Key(cmd) \/ h.until <= now
            until == now + Lease(cmd)
        IN
        /\ ~cmd.done /\ \A m \in 1..(p - 1) : wire[r][m].done
        /\ lock' = CASE cmd.op = "del" -> {h \in lock : ~Owns(h, cmd)}
                     [] cmd.op = "set" /\ ~free -> lock
                     [] cmd.op = "set" /\ free ->
                          {h \in lock : Key(h) # Key(cmd)} \union
                             {[key |-> cmd.key, slot |-> cmd.slot, job |-> cmd.job, n |-> cmd.n,
                               until |-> until]}
        /\ wire' = [wire EXCEPT ![r] = IF cmd.for = "nobody" THEN Seqs!RemoveAt(@, p) ELSE
                      [@ EXCEPT ![p].done = TRUE,
                                ![p].until = IF cmd.op = "set" /\ free THEN until ELSE 0]]
        /\ UNCHANGED <<kind, now, connected, registry, named, job, runs, events>>
  BY DEF Execute
<1>u. PICK u : u = wire[r]
  OBVIOUS
<1>c. PICK c : c = u[p]
  OBVIOUS
<1>v. PICK v : v = IF c.for = "nobody" THEN Seqs!RemoveAt(u, p) ELSE [u EXCEPT ![p] = Executed(c)]
  OBVIOUS
<1>4. p \in 1..Len(u) /\ u \in Seq(Commands)
  BY <1>2, <1>u
<1>5. [u EXCEPT ![p].done = TRUE, ![p].until = IF Frees(c) THEN now + Lease(c) ELSE 0]
        = [u EXCEPT ![p] = Executed(c)]
  <2>1. \A e : [[u EXCEPT ![p].done = TRUE] EXCEPT ![p].until = e]
                 = [u EXCEPT ![p] = [u[p] EXCEPT !.done = TRUE, !.until = e]]
    BY <1>4
  <2>. QED BY <2>1, <1>c DEF Executed
<1>6. wire' = [wire EXCEPT ![r] = v]
  BY <1>3, <1>5, <1>u, <1>c, <1>v DEF Frees
<1>7. /\ ~u[p].done /\ \A m \in 1..(p - 1) : u[m].done
      /\ UNCHANGED <<kind, now, connected, registry, named, job, runs, events>>
  BY <1>3, <1>u
<1>8. lock' = CASE c.op = "del" -> {h \in lock : ~Owns(h, c)}
               [] c.op = "set" /\ ~Frees(c) -> lock
               [] c.op = "set" /\ Frees(c) ->
                    {h \in lock : Key(h) # Key(c)} \union
                       {[key |-> c.key, slot |-> c.slot, job |-> c.job, n |-> c.n,
                         until |-> now + Lease(c)]}
  BY <1>3, <1>u, <1>c DEF Frees
<1>9. Executes(r, u, p, v)
  BY <1>4, <1>6, <1>7, <1>8, <1>c, <1>v DEF Executes
<1>. QED BY <1>9, <1>u

LEMMA ExecutedIs ==
  ASSUME NEW r, NEW c, CmdForm(r, c), now \in Nat, c.for # "nobody"
  PROVE  LET d == Executed(c)
         IN  /\ d \in Commands /\ CmdForm(r, d) /\ Likewise(c, d) /\ d.op = c.op
             /\ d.until = IF Frees(c) THEN now + Lease(c) ELSE 0
<1>e. PICK e : e = IF Frees(c) THEN now + Lease(c) ELSE 0
  OBVIOUS
<1>d. PICK d : d = [c EXCEPT !.done = TRUE, !.until = e]
  OBVIOUS
<1>1. c \in Commands /\ Lease(c) \in Nat /\ e \in Nat
  <2>1. c \in Commands
    BY DEF CmdForm
  <2>2. Lease(c) \in Nat
    BY TimeAssumption DEF Lease
  <2>. QED BY <2>1, <2>2, <1>e
<1>2. /\ d \in Commands /\ d.op = c.op /\ d.key = c.key /\ d.slot = c.slot /\ d.job = c.job
      /\ d.n = c.n /\ d.done = TRUE /\ d.until = e /\ d.for = c.for
  BY ONLY <1>1, <1>d DEF Commands
<1>3. Lease(d) = Lease(c)
  BY <1>2 DEF Lease
<1>4. c.op = "del" => e = 0
  BY <1>e DEF Frees
<1>5. e > 0 => Lease(d) <= e
  BY <1>1, <1>3, <1>e
<1>6. CmdForm(r, d)
  BY <1>2, <1>4, <1>5 DEF CmdForm
<1>. QED BY <1>2, <1>6, <1>d, <1>e DEF Likewise, Executed

(* A command that is executed keeps its place and its token on the wire.   *)
LEMMA ExecuteOk ==
  ASSUME Base, NEW r \in Replicas, NEW p, NEW v, Executes(r, wire[r], p, v)
  PROVE  Base' /\ WireOk(r, v, job, registry[r])
<1>u. PICK u : u = wire[r]
  OBVIOUS
<1>c. PICK c : c = u[p]
  OBVIOUS
<1>0. /\ p \in 1..Len(u) /\ wire' = [wire EXCEPT ![r] = v] /\ ~c.done
      /\ v = IF c.for = "nobody" THEN Seqs!RemoveAt(u, p) ELSE [u EXCEPT ![p] = Executed(c)]
      /\ UNCHANGED <<kind, now, connected, registry, named, job, runs, events>>
  BY <1>u, <1>c DEF Executes
<1>1. WireOk(r, u, job, registry[r]) /\ now \in Nat /\ events \in Nat
      /\ wire \in [Replicas -> Seq(Commands)]
      /\ \A q \in Replicas : WireOk(q, wire[q], job, registry[q])
  BY <1>u DEF Base, Wires
<1>2. u \in Seq(Commands) /\ Len(u) \in Nat /\ CmdForm(r, c)
  BY <1>0, <1>1, <1>c DEF WireOk
<1>3. WireOk(r, v, job, registry[r])
  <2>1. CASE c.for = "nobody"
    <3>1. /\ v \in Seq(Commands) /\ Len(v) = Len(u) - 1
          /\ \A i \in 1..(Len(u) - 1) : v[i] = IF i < p THEN u[i] ELSE u[i + 1]
      BY <1>0, <1>2, <2>1, RemoveAtDoes
    <3>2. Leftover(r, u, p, v) /\ \A i \in 1..Len(v) : Stays(u, p, v[i])
      BY ONLY <1>0, <1>1, <3>1, DropLeaves
    <3>3. \A i \in 1..Len(v) : CmdForm(r, v[i]) /\ \E m \in 1..Len(u) : Likewise(u[m], v[i])
      BY <3>2 DEF Leftover, Stays, Likewise
    <3>4. \A m \in 1..Len(u) : u[m].for # "nobody" => \E i \in 1..Len(v) : Likewise(u[m], v[i])
      BY <3>2, <2>1, <1>c DEF Leftover, Likewise
    <3>5. Sole(v) /\ Ordered(v)
      BY <3>2 DEF Leftover
    <3>. QED BY ONLY <1>1, <3>1, <3>3, <3>4, <3>5, LikewiseOk
  <2>2. CASE c.for # "nobody"
    <3>d. PICK d : d = Executed(c)
      OBVIOUS
    <3>1. d \in Commands /\ CmdForm(r, d) /\ Likewise(c, d)
      BY <1>1, <1>2, <2>2, <3>d, ExecutedIs
    <3>2. v = [u EXCEPT ![p] = d]
      BY <1>0, <2>2, <3>d
    <3>3. /\ v \in Seq(Commands) /\ Len(v) = Len(u) /\ v[p] = d
          /\ \A i \in 1..Len(u) : i # p => v[i] = u[i]
      BY <1>0, <1>2, <3>1, <3>2
    <3>4. \A i \in 1..Len(u) : Likewise(u[i], v[i]) /\ CmdForm(r, v[i])
      BY <3>1, <3>3, <1>1, <1>c DEF Likewise, WireOk
    <3>5. Sole(v) /\ Ordered(v)
      <4>1. Sole(u) /\ Ordered(u)
        BY <1>1 DEF WireOk
      <4>2. \A i \in 1..Len(u) : /\ v[i].key = u[i].key /\ v[i].job = u[i].job
                                 /\ v[i].n = u[i].n /\ v[i].for = u[i].for
        BY <3>4 DEF Likewise
      <4>. QED BY ONLY <4>1, <4>2, <3>3 DEF Sole, Ordered, SameToken
    <3>. QED BY <1>1, <3>3, <3>4, <3>5, LikewiseOk
  <2>. QED BY <2>1, <2>2
<1>4. wire' \in [Replicas -> Seq(Commands)]
  BY <1>0, <1>1, <1>3 DEF WireOk
<1>5. \A q \in Replicas : WireOk(q, wire'[q], job, registry[q])
  BY <1>0, <1>1, <1>3
<1>. QED BY <1>0, <1>1, <1>3, <1>4, <1>5, ServerOk

LEMMA TickOk ==
  ASSUME Base, Tick
  PROVE  Base'
<1>1. /\ now' = now + 1 /\ UNCHANGED <<kind, connected, registry, named, job, wire, runs, events>>
  BY DEF Tick
<1>2. /\ now' \in Nat /\ events' \in Nat /\ wire' \in [Replicas -> Seq(Commands)]
      /\ \A q \in Replicas : WireOk(q, wire'[q], job, registry[q])
  BY <1>1 DEF Base, Wires
<1>. QED BY <1>1, <1>2, ServerOk

(* The process dies: its registrations are lost, its commands orphaned.      *)
Orphans(u, n, m, v) ==
  /\ n \in 0..Len(u) /\ m \in 0..(Len(u) - n) /\ \A i \in 1..Len(u) : u[i].done <=> i <= n
  /\ v = [i \in 1..m |-> [u[n + i] EXCEPT !.for = "nobody"]]
Crashes(r, u, n, m, v) ==
  /\ Orphans(u, n, m, v) /\ wire' = [wire EXCEPT ![r] = v] /\ events' = events + 1
  /\ connected' = connected \union {r} /\ registry' = [registry EXCEPT ![r] = None]
  /\ named' = named \ {r}
  /\ job' = [j \in Jobs |-> IF Owner[j] = r /\ job[j].used THEN Lost ELSE job[j]]
  /\ UNCHANGED <<kind, now, lock, runs>>

LEMMA CrashIs ==
  ASSUME Base, NEW r \in Replicas, Crash(r)
  PROVE  \E n, m, v : Crashes(r, wire[r], n, m, v)
<1>1. wire[r] \in Seq(Commands)
  BY DEF Base, Wires
<1>2. PICK n \in 0..Len(wire[r]) : \E m \in 0..(Len(wire[r]) - n) :
        /\ \A i \in DOMAIN wire[r] : wire[r][i].done <=> i <= n
        /\ wire' = [wire EXCEPT ![r] = [i \in 1..m |-> [wire[r][n + i] EXCEPT !.for = "nobody"]]]
  BY DEF Crash
<1>3. PICK m \in 0..(Len(wire[r]) - n) :
        /\ \A i \in DOMAIN wire[r] : wire[r][i].done <=> i <= n
        /\ wire' = [wire EXCEPT ![r] = [i \in 1..m |-> [wire[r][n + i] EXCEPT !.for = "nobody"]]]
  BY <1>2
<1>v. PICK v : v = [i \in 1..m |-> [wire[r][n + i] EXCEPT !.for = "nobody"]]
  OBVIOUS
<1>4. Orphans(wire[r], n, m, v)
  BY <1>1, <1>3, <1>v DEF Orphans
<1>5. Crashes(r, wire[r], n, m, v)
  BY <1>3, <1>4, <1>v DEF Crash, Event, Crashes, Lost
<1>. QED BY <1>5

LEMMA OrphansAre ==
  ASSUME NEW r, NEW u, NEW J, NEW g, WireOk(r, u, J, g), NEW n, NEW m, NEW v, Orphans(u, n, m, v)
  PROVE  /\ v \in Seq(Commands) /\ Len(v) = m
         /\ \A i \in 1..Len(v) : \E l \in 1..Len(u) : /\ Ghost(u[l], v[i]) /\ v[i].op = u[l].op
                                                     /\ v[i].for = "nobody" /\ CmdForm(r, v[i])
<1>1. u \in Seq(Commands) /\ Len(u) \in Nat
  BY DEF WireOk
<1>2. /\ n \in 0..Len(u) /\ m \in 0..(Len(u) - n) /\ \A i \in 1..Len(u) : u[i].done <=> i <= n
      /\ v = [i \in 1..m |-> [u[n + i] EXCEPT !.for = "nobody"]]
  BY DEF Orphans
<1>3. ASSUME NEW i \in 1..m
      PROVE  /\ n + i \in 1..Len(u) /\ v[i] \in Commands /\ Ghost(u[n + i], v[i])
             /\ v[i].op = u[n + i].op /\ v[i].for = "nobody" /\ CmdForm(r, v[i])
  <2>1. n + i \in 1..Len(u) /\ ~(n + i <= n)
    BY <1>1, <1>2
  <2>c. PICK c : c = u[n + i]
    OBVIOUS
  <2>w. PICK whom \in {"late", "nobody"} : whom = "nobody"
    OBVIOUS
  <2>d. PICK d : d = [c EXCEPT !.for = whom]
    OBVIOUS
  <2>2. CmdForm(r, c) /\ ~c.done
    BY <1>2, <2>1, <2>c DEF WireOk
  <2>3. d \in Commands /\ CmdForm(r, d) /\ Ghost(c, d)
    BY <2>2, <2>w, <2>d, MutedIs
  <2>4. d.for = "nobody" /\ d.op = c.op
    <3>1. c \in Commands
      BY <2>2 DEF CmdForm
    <3>. QED BY <3>1, <2>w, <2>d DEF Commands
  <2>5. v[i] = d
    BY <1>2, <2>c, <2>w, <2>d
  <2>. QED BY <2>1, <2>3, <2>4, <2>5, <2>c
<1>4. v \in Seq(Commands) /\ Len(v) = m
  <2>1. m \in Nat
    BY <1>1, <1>2
  <2>2. v \in [1..m -> Commands]
    BY <1>2, <1>3
  <2>. QED BY <2>1, <2>2
<1>. QED BY <1>3, <1>4

(* What a crash leaves behind is waited for by nobody.                     *)
LEMMA CrashOk ==
  ASSUME Base, NEW r \in Replicas, NEW n, NEW m, NEW v, Crashes(r, wire[r], n, m, v)
  PROVE  Base'
<1>u. PICK u : u = wire[r]
  OBVIOUS
<1>0. /\ Orphans(u, n, m, v) /\ wire' = [wire EXCEPT ![r] = v] /\ events' = events + 1
      /\ connected' = connected \union {r} /\ registry' = [registry EXCEPT ![r] = None]
      /\ named' = named \ {r}
      /\ job' = [j \in Jobs |-> IF Owner[j] = r /\ job[j].used THEN Lost ELSE job[j]]
      /\ UNCHANGED <<kind, now, lock, runs>>
  BY <1>u DEF Crashes
<1>1. /\ WireOk(r, u, job, registry[r]) /\ wire \in [Replicas -> Seq(Commands)]
      /\ registry \in [Replicas -> Jobs \union {None}] /\ connected \in SUBSET Replicas
      /\ named \in SUBSET Replicas /\ job \in [Jobs -> Registrations] /\ events \in Nat
      /\ \A q \in Replicas : WireOk(q, wire[q], job, registry[q])
      /\ \A q \in Replicas : registry[q] # None => Owner[registry[q]] = q
  BY <1>u DEF Base, Wires, Places
<1>2. Places' /\ \A q \in Replicas : registry'[q] # None => Owner[registry'[q]] = q
  BY <1>0, <1>1 DEF Places
<1>3. job' \in [Jobs -> Registrations]
  BY <1>0, <1>1, LostIs
<1>4. ASSUME NEW i \in Jobs
      PROVE  JobAt(i, job'[i], registry'[Owner[i]], connected', named')
  <2>1. PICK h, on, nm \in BOOLEAN : /\ Flags(i, registry[Owner[i]], connected, named, h, on, nm)
                                     /\ JobOk(job[i], h, on, nm)
    BY DEF Base, JobsOk, JobAt
  <2>2. CASE Owner[i] = r
    <3>1. registry'[Owner[i]] # i
      BY <1>0, <1>1, <2>2, JobsAssumption
    <3>2. Flags(i, registry'[Owner[i]], connected', named', FALSE, TRUE, FALSE)
      BY <1>0, <2>2, <3>1 DEF Flags
    <3>3. CASE job[i].used
      <4>1. job'[i] = Lost
        BY <1>0, <2>2, <3>3
      <4>2. JobOk(Lost, FALSE, TRUE, FALSE)
        BY LostOk
      <4>. QED BY <3>2, <4>1, <4>2 DEF JobAt
    <3>4. CASE ~job[i].used
      <4>1. job'[i] = job[i]
        BY <1>0, <2>2, <3>4
      <4>2. h = FALSE
        BY <2>1, <3>4 DEF JobOk, Going
      <4>3. JobOk(job[i], FALSE, on, nm)
        BY <2>1, <4>2
      <4>4. JobOk(job[i], FALSE, TRUE, FALSE)
        BY ONLY <4>3, NotHereOk
      <4>. QED BY <3>2, <4>1, <4>4 DEF JobAt
    <3>. QED BY <3>3, <3>4
  <2>3. CASE Owner[i] # r
    <3>1. job'[i] = job[i] /\ registry'[Owner[i]] = registry[Owner[i]]
      BY <1>0, <1>1, <2>3, JobsAssumption
    <3>2. Flags(i, registry[Owner[i]], connected', named', h, on, nm)
      BY <1>0, <2>1, <2>3 DEF Flags
    <3>. QED BY <2>1, <3>1, <3>2 DEF JobAt
  <2>. QED BY <2>2, <2>3
<1>5. JobsOk'
  <2>1. kind' = kind
    BY <1>0
  <2>. QED BY <2>1, <1>4, KindStays DEF JobsOk
<1>6. /\ v \in Seq(Commands) /\ Len(v) = m
      /\ \A i \in 1..Len(v) : \E l \in 1..Len(u) : /\ Ghost(u[l], v[i]) /\ v[i].op = u[l].op
                                                  /\ v[i].for = "nobody" /\ CmdForm(r, v[i])
  BY ONLY <1>0, <1>1, OrphansAre
<1>7. WireOk(r, v, job', registry'[r])
  <2>1. ASSUME NEW i \in 1..Len(v)
        PROVE  CmdForm(r, v[i]) /\ CmdFits(job'[v[i].job], v[i]) /\ v[i].for = "nobody"
    <3>1. PICK l \in 1..Len(u) : /\ Ghost(u[l], v[i]) /\ v[i].op = u[l].op
                                 /\ v[i].for = "nobody" /\ CmdForm(r, v[i])
      BY <1>6
    <3>2. CmdFits(job[u[l].job], u[l]) /\ u[l].job = v[i].job
      BY <1>1, <3>1 DEF WireOk, Ghost, SameToken
    <3>3. v[i].job \in Jobs /\ Owner[v[i].job] = r
      BY <3>1, CommandIs DEF CmdForm
    <3>4. job'[v[i].job] = Lost
      BY <1>0, <3>2, <3>3 DEF CmdFits
    <3>. QED BY <3>1, <3>4, LostIs DEF CmdFits
  <2>2. Sole(v) /\ Ordered(v)
    BY <2>1 DEF Sole, Ordered, Waiting
  <2>3. ASSUME NEW j \in Jobs, Owner[j] = r
        PROVE  Answers(v, j, job'[j], registry'[r])
    <3>1. job'[j] = Lost \/ job'[j] = Unused
      <4>1. JobAt(j, job[j], registry[Owner[j]], connected, named)
        BY DEF Base, JobsOk
      <4>2. ~job[j].used => job[j] = Unused
        BY <4>1 DEF JobAt, JobOk, Formed
      <4>. QED BY <4>2, <1>0, <2>3
    <3>2. Len(job'[j].fires) = 0 /\ job'[j].removing = FALSE
      BY <3>1, LostIs
    <3>3. ~Called(v, j)
      BY <2>1 DEF Called
    <3>. QED BY <3>2, <3>3 DEF Answers
  <2>. QED BY <1>6, <2>1, <2>2, <2>3 DEF WireOk
<1>8. ASSUME NEW q \in Replicas, q # r
      PROVE  WireOk(q, wire[q], job', registry'[q])
  <2>1. WireOk(q, wire[q], job, registry[q]) /\ registry'[q] = registry[q]
    BY <1>0, <1>1, <1>8
  <2>2. \A i \in 1..Len(wire[q]) : wire[q][i].job \in Jobs /\ Owner[wire[q][i].job] = q
    BY <2>1, CommandIs DEF WireOk, CmdForm
  <2>3. \A i \in 1..Len(wire[q]) : job'[wire[q][i].job] = job[wire[q][i].job]
    BY <2>2, <1>0, <1>8
  <2>4. \A i \in Jobs : Owner[i] = q => job'[i] = job[i]
    BY <1>0, <1>8
  <2>. QED BY <2>1, <2>3, <2>4 DEF WireOk
<1>9. wire' \in [Replicas -> Seq(Commands)] /\ wire'[r] = v
      /\ \A q \in Replicas : q # r => wire'[q] = wire[q]
  BY <1>0, <1>1, <1>6
<1>10. Wires'
  <2>1. \A q \in Replicas : WireOk(q, wire'[q], job', registry'[q])
    BY <1>7, <1>8, <1>9
  <2>2. ASSUME NEW q, WireOk(q, wire'[q], job', registry'[q])
        PROVE  WireOk(q, wire[q], job, registry[q])'
    BY <2>2 DEF WireOk
  <2>. QED BY <1>9, <2>1, <2>2 DEF Wires
<1>. QED BY <1>0, <1>1, <1>2, <1>3, <1>5, <1>10 DEF Base
-----------------------------------------------------------------------------
(* The invariant holds at the start and in every step.                     *)
LEMMA BaseInit ==
  ASSUME Init
  PROVE  Base
<1>1. /\ kind \in {"every", "delay"} /\ now = 0 /\ connected = Replicas
      /\ registry = [r \in Replicas |-> None] /\ named = {}
      /\ job = [j \in Jobs |-> Unused] /\ wire = [r \in Replicas |-> <<>>] /\ events = 0
  BY DEF Init
<1>2. Places
  BY <1>1 DEF Places
<1>3. JobsOk
  <2>1. ASSUME NEW j \in Jobs
        PROVE  JobAt(j, job[j], registry[Owner[j]], connected, named)
    <3>1. registry[Owner[j]] # j /\ Owner[j] \in connected /\ Owner[j] \notin named
      BY <1>1, JobsAssumption
    <3>2. Flags(j, registry[Owner[j]], connected, named, FALSE, TRUE, FALSE)
      BY <3>1 DEF Flags
    <3>3. JobOk(Unused, FALSE, TRUE, FALSE)
      BY LostIs DEF JobOk, Formed, Flies, Going, Single
    <3>. QED BY <1>1, <3>2, <3>3 DEF JobAt
  <2>. QED BY <2>1 DEF JobsOk
<1>4. Wires
  <2>1. <<>> \in Seq(Commands) /\ Len(<<>>) = 0
    OBVIOUS
  <2>2. ASSUME NEW r \in Replicas
        PROVE  WireOk(r, <<>>, job, registry[r])
    <3>1. \A j \in Jobs : Len(job[j].fires) = 0 /\ job[j].removing = FALSE
      BY <1>1, LostIs
    <3>2. \A j \in Jobs : Answers(<<>>, j, job[j], registry[r])
      BY <2>1, <3>1 DEF Answers, Called
    <3>. QED BY <2>1, <3>2 DEF WireOk, Sole, Ordered
  <2>. QED BY <1>1, <2>1, <2>2 DEF Wires
<1>. QED BY <1>1, <1>2, <1>3, <1>4, LostIs DEF Base

(* Every step is one of a registration, or of its surroundings.              *)
Idle(r) == Connect(r) \/ (Disconnect(r) /\ registry[r] = None)

LEMMA StepIs ==
  ASSUME Base, [Next]_vars
  PROVE  \/ Acted /\ Steady
         \/ \E r \in Replicas : Idle(r)
         \/ \E r \in Replicas : \E p, v : Executes(r, wire[r], p, v)
         \/ \E r \in Replicas : \E n, m, v : Crashes(r, wire[r], n, m, v)
         \/ Tick \/ UNCHANGED vars
<1>1. ASSUME NEW r \in Replicas, Execute(r)
      PROVE  \E p, v : Executes(r, wire[r], p, v)
  BY <1>1, ExecuteIs
<1>2. ASSUME NEW r \in Replicas, Answer(r)
      PROVE  Acted /\ Steady
  BY <1>2, AnswerActs
<1>3. ASSUME NEW r \in Replicas, GiveUp(r)
      PROVE  Acted /\ Steady
  BY <1>3, GiveUpActs
<1>4. ASSUME NEW r \in Replicas, Disconnect(r), registry[r] # None
      PROVE  Acted /\ Steady
  BY <1>4, DisconnectActs
<1>5. ASSUME NEW r \in Replicas, Crash(r)
      PROVE  \E n, m, v : Crashes(r, wire[r], n, m, v)
  BY <1>5, CrashIs
<1>6. ASSUME NEW j \in Jobs, Register(j)
      PROVE  Acted /\ Steady
  BY <1>6, RegisterActs
<1>7. ASSUME NEW j \in Jobs, Pause(j)
      PROVE  Acted /\ Steady
  BY <1>7, PauseActs
<1>8. ASSUME NEW j \in Jobs, Resume(j)
      PROVE  Acted /\ Steady
  BY <1>8, ResumeActs
<1>9. ASSUME NEW j \in Jobs, Remove(j)
      PROVE  Acted /\ Steady
  BY <1>9, RemoveActs
<1>10. ASSUME NEW j \in Jobs, NEW k \in DOMAIN job[j].fires, Due(j, k)
       PROVE  Acted /\ Steady
  BY <1>10, DueActs
<1>11. ASSUME NEW j \in Jobs, NEW k \in DOMAIN job[j].fires, HandlerEnds(j, k) \/ BackoffEnds(j, k)
       PROVE  Acted /\ Steady
  BY <1>11, HandlerActs
<1>. QED BY <1>1, <1>2, <1>3, <1>4, <1>5, <1>6, <1>7, <1>8, <1>9, <1>10, <1>11 DEF Next, Idle

LEMMA BaseNext ==
  ASSUME Base, [Next]_vars
  PROVE  Base'
<1>1. ASSUME NEW r \in Replicas, Idle(r)
      PROVE  Base'
  BY <1>1, ConnectIdle, DisconnectIdle DEF Idle
<1>2. ASSUME NEW r \in Replicas, NEW p, NEW v, Executes(r, wire[r], p, v)
      PROVE  Base'
  BY <1>2, ExecuteOk
<1>3. ASSUME NEW r \in Replicas, NEW n, NEW m, NEW v, Crashes(r, wire[r], n, m, v)
      PROVE  Base'
  BY <1>3, CrashOk
<1>4. ASSUME UNCHANGED vars
      PROVE  Base'
  <2>1. UNCHANGED <<kind, now, connected, registry, named, job, wire, lock, runs, events>>
    BY <1>4 DEF vars
  <2>2. now' \in Nat /\ events' \in Nat /\ wire' \in [Replicas -> Seq(Commands)]
        /\ \A q \in Replicas : WireOk(q, wire'[q], job, registry[q])
    BY <2>1 DEF Base, Wires
  <2>. QED BY <2>1, <2>2, ServerOk
<1>. QED BY <1>1, <1>2, <1>3, <1>4, StepIs, ActedOk, TickOk

LEMMA BaseHolds == Spec => []Base
<1>1. Init => Base
  BY BaseInit
<1>2. Base /\ [Next]_vars => Base'
  BY BaseNext
<1>. QED BY <1>1, <1>2, PTL DEF Spec

(* No job drops out of its schedule.                                         *)
LEMMA AliveIs ==
  ASSUME Base
  PROVE  ScheduleAlive
<1> SUFFICES ASSUME NEW j \in Jobs, Live(j), job[j].wait = "none", ~job[j].dropped, ~job[j].removing
             PROVE  \E k \in DOMAIN job[j].fires :
                       LET f == job[j].fires[k] IN
                       f.stage = "armed" \/ (InFlight(f) /\ (~f.aborted \/ job[j].rearm))
  BY DEF ScheduleAlive
<1>x. PICK x : x = job[j]
  OBVIOUS
<1>1. PICK h, on, nm \in BOOLEAN :
         Flags(j, registry[Owner[j]], connected, named, h, on, nm) /\ JobOk(x, h, on, nm)
  BY <1>x DEF Base, JobsOk, JobAt
<1>2. h /\ on /\ ~x.paused
  BY <1>1, <1>x DEF Live, Registered, Flags
<1>3. PICK k \in 1..Len(x.fires) : x.fires[k].stage # "over" /\ (~x.fires[k].aborted \/ x.rearm)
  BY <1>1, <1>2, <1>x DEF JobOk, Going
<1>4. k \in DOMAIN x.fires
  BY <1>1, FiresAre DEF JobOk, Formed
<1>5. x.fires[k].stage = "armed" \/ (InFlight(x.fires[k]) /\ (~x.fires[k].aborted \/ x.rearm))
  BY <1>3 DEF InFlight
<1>. QED BY <1>4, <1>5, <1>x

(* A registered job that was not stopped keeps an armed timer, or a fire   *)
(* that arms or removes it, for any number of replicas and registrations   *)
(* (ScheduleAlive; scheduler.ts, #fire and #track).                        *)
THEOREM NeverDropped == Spec => []ScheduleAlive
<1>1. Base => ScheduleAlive
  BY AliveIs
<1>. QED BY <1>1, BaseHolds, PTL

(* A fire starts to run in a step of its own registration, from the mutex.    *)
LEMMA StartsIs ==
  ASSUME Base, Acted, NEW i \in Jobs, Starts(i), ~job[i].rushed
  PROVE  Live(i)
<1>1. PICK r \in Replicas, j \in Jobs : \E p, w, k, y, v : Owner[j] = r /\ Acts(r, j, p, w, k, y, v)
  BY DEF Acted
<1>2. PICK p, w, k, y, v : Acts(r, j, p, w, k, y, v)
  BY <1>1
<1>x. PICK x : x = job[j]
  OBVIOUS
<1>3. /\ Moved(r, j, p, w, y, v) /\ Tame(x, y, k) /\ FireGoes(r, p, w, x, y, k)
      /\ k \in 0..Len(x.fires) /\ JobAt(j, y, registry'[r], connected', named')
  BY <1>2, <1>x DEF Acts
<1>4. job' = [job EXCEPT ![j] = y] /\ (p # 0 => wire[r][p].job = j) /\ p \in 0..Len(wire[r])
  BY <1>3 DEF Moved
<1>5. /\ job \in [Jobs -> Registrations] /\ x \in Registrations /\ y \in Registrations
      /\ WireOk(r, wire[r], job, registry[r])
  BY <1>3, <1>x DEF Base, Wires, JobAt, JobOk, Formed
<1>6. PICK m \in DOMAIN job'[i].fires :
         /\ Attempting(job'[i].fires[m])
         /\ m \notin DOMAIN job[i].fires \/ ~Attempting(job[i].fires[m])
  BY DEF Starts
<1>7. i = j
  <2>1. i # j => job'[i] = job[i]
    BY <1>4, <1>5
  <2>. QED BY <2>1, <1>6
<1>8. /\ m \in 1..Len(y.fires) /\ y.fires[m].stage = "running"
      /\ m \in 1..Len(x.fires) => x.fires[m].stage # "running"
  <2>1. job'[i] = y
    BY <1>4, <1>5, <1>7
  <2>2. DOMAIN y.fires = 1..Len(y.fires) /\ DOMAIN x.fires = 1..Len(x.fires)
    BY <1>5, FiresAre
  <2>. QED BY <2>1, <2>2, <1>6, <1>7, <1>x DEF Attempting
<1>9. y # Lost /\ Len(x.fires) \in Nat /\ Len(y.fires) \in Nat
  BY <1>8, <1>5, LostIs, FiresAre
<1>10. m = k /\ k \in 1..Len(x.fires)
  <2>1. m \in 1..Len(x.fires)
    <3>1. m \notin 1..Len(x.fires) => m \in (Len(x.fires) + 1)..Len(y.fires)
      BY <1>8, <1>9
    <3>2. m \notin 1..Len(x.fires) => y.fires[m].stage \in {"armed", "over"}
      BY <3>1, <1>3, <1>9 DEF Tame
    <3>. QED BY <3>2, <1>8
  <2>2. m # k => Kept(x.fires[m], y.fires[m])
    BY <2>1, <1>3, <1>9 DEF Tame
  <2>3. m = k
    BY <2>1, <2>2, <1>8 DEF Kept
  <2>. QED BY <2>1, <2>3
<1>f. PICK f : f = x.fires[k]
  OBVIOUS
<1>11. /\ ~f.aborted /\ f.stage # "armed"
       /\ f.stage \in {"running", "backoff"} \/ (p # 0 /\ wire[r][p].for = "mutex" /\ wire[r][p].n = k)
  BY <1>3, <1>8, <1>9, <1>10, <1>f DEF FireGoes
<1>12. f.stage # "over"
  <2>1. CASE p # 0 /\ wire[r][p].for = "mutex" /\ wire[r][p].n = k
    <3>1. p \in 1..Len(wire[r])
      BY <2>1, <1>4, <1>5 DEF WireOk
    <3>2. CmdFits(x, wire[r][p]) /\ CmdForm(r, wire[r][p])
      BY <2>1, <3>1, <1>4, <1>5, <1>x DEF WireOk
    <3>3. x # Lost
      BY <1>10, LostIs
    <3>. QED BY <2>1, <3>2, <3>3, <1>f DEF CmdFits, CmdForm
  <2>. QED BY <2>1, <1>11
<1>13. PICK h, on, nm \in BOOLEAN :
         Flags(j, registry[Owner[j]], connected, named, h, on, nm) /\ JobOk(x, h, on, nm)
  BY <1>x DEF Base, JobsOk, JobAt
<1>14. Alone(x, k, h, on, nm)
  BY <1>7, <1>10, <1>12, <1>13, <1>f, <1>x DEF JobOk, Single
<1>15. h /\ on /\ ~x.paused
  BY <1>11, <1>14, <1>f DEF Alone
<1>. QED BY <1>7, <1>13, <1>15, <1>x DEF Live, Registered, Flags

(* No attempt of the handler starts for a job that was paused, removed or  *)
(* disconnected, but for the two races that StoppedStays names             *)
(* (scheduler.ts, pause, remove and disconnect).                           *)
THEOREM StopsStay == Spec => StoppedStays
<1>1. ASSUME Base, [Next]_vars, NEW i \in Jobs, Starts(i), ~job[i].rushed
      PROVE  Live(i)
  <2>1. CASE Acted
    BY <1>1, <2>1, StartsIs
  <2>2. CASE job' = job
    BY <1>1, <2>2 DEF Starts
  <2>3. ASSUME NEW r \in Replicas, NEW n, NEW m, NEW v, Crashes(r, wire[r], n, m, v)
        PROVE  FALSE
    <3>1. job'[i] = Lost \/ job'[i] = job[i]
      BY <2>3 DEF Crashes
    <3>2. DOMAIN Lost.fires = {}
      BY LostIs
    <3>. QED BY <1>1, <3>1, <3>2 DEF Starts
  <2>4. ASSUME NEW r \in Replicas, Idle(r)
        PROVE  job' = job
    BY <2>4 DEF Idle, Connect, Disconnect
  <2>5. ASSUME NEW r \in Replicas, NEW p, NEW v, Executes(r, wire[r], p, v)
        PROVE  job' = job
    BY <2>5 DEF Executes
  <2>6. Tick \/ UNCHANGED vars => job' = job
    BY DEF Tick, vars
  <2>. QED BY <1>1, <2>1, <2>2, <2>3, <2>4, <2>5, <2>6, StepIs
<1>2. Base /\ [Next]_vars => [\A j \in Jobs : Live(j) \/ job[j].rushed \/ ~Starts(j)]_vars
  BY <1>1
<1>. QED BY <1>2, BaseHolds, PTL DEF Spec, StoppedStays
-----------------------------------------------------------------------------
(* The locks.  Whoever was granted one holds it until it expires: no delete on *)
(* the wire has the token of a command that is awaited, of a name that is      *)
(* claimed or of a fire that runs.                                           *)
Locks == [key : {"slot", "mutex", "once"}, slot : Nat, job : Jobs, n : Nat \ {0}, until : Nat]
Lock(key, slot, j, n, until) ==
  [key |-> key, slot |-> slot, job |-> j, n |-> n, until |-> until]
Held(key, slot, j, n, until) == until > now => Lock(key, slot, j, n, until) \in lock
Keyed == lock \subseteq Locks /\ \A g, h \in lock : Key(g) = Key(h) => g = h
WireHeld(w) == \A i \in 1..Len(w) : w[i].for \in Waiting /\ w[i].until > 0 =>
                  Held(w[i].key, w[i].slot, w[i].job, w[i].n, w[i].until)
JobHeld(j, x) ==
  /\ x.token # 0 => Held("once", 0, j, x.token, x.until)
  /\ \A k \in 1..Len(x.fires) : x.fires[k].stage \in {"running", "backoff"} =>
        Held("mutex", 0, j, k, x.fires[k].until)
Locked ==
  /\ Keyed /\ \A r \in Replicas : WireHeld(wire[r])
  /\ \A j \in Jobs : JobHeld(j, job[j])

(* What is held stays held when nobody loses a lock.                       *)
LEMMA LockedMoves ==
  ASSUME Keyed', \A r \in Replicas : WireHeld(wire'[r]), \A j \in Jobs : JobHeld(j, job'[j]),
         \A key, slot, j, n, until : Held(key, slot, j, n, until) => Held(key, slot, j, n, until)'
  PROVE  Locked'
<1>1. ASSUME NEW w, WireHeld(w)
      PROVE  WireHeld(w)'
  BY <1>1 DEF WireHeld
<1>2. ASSUME NEW j, NEW x, JobHeld(j, x)
      PROVE  JobHeld(j, x)'
  BY <1>2 DEF JobHeld
<1>3. \A r \in Replicas : WireHeld(wire[r])'
  <2>1. ASSUME NEW r \in Replicas
        PROVE  WireHeld(wire[r])'
    <3>1. ASSUME NEW w, w = wire'[r]
          PROVE  WireHeld(wire[r])'
      BY <3>1, <1>1 DEF WireHeld
    <3>. QED BY <3>1
  <2>. QED BY <2>1
<1>4. \A j \in Jobs : JobHeld(j, job[j])'
  <2>1. ASSUME NEW j \in Jobs
        PROVE  JobHeld(j, job[j])'
    <3>1. ASSUME NEW x, x = job'[j]
          PROVE  JobHeld(j, job[j])'
      BY <3>1, <1>2 DEF JobHeld
    <3>. QED BY <3>1
  <2>. QED BY <2>1
<1>. QED BY <1>3, <1>4 DEF Locked

(* What a step of a registration does to what is held.                       *)
LEMMA ActedHolds ==
  ASSUME Base, Acted, Locked
  PROVE  /\ \A r \in Replicas : WireHeld(wire'[r])
         /\ \A j \in Jobs : JobHeld(j, job'[j])
<1>1. PICK r \in Replicas, j \in Jobs : \E p, w, k, y, v : Owner[j] = r /\ Acts(r, j, p, w, k, y, v)
  BY DEF Acted
<1>2. PICK p, w, k, y, v : Acts(r, j, p, w, k, y, v)
  BY <1>1
<1>x. PICK x : x = job[j]
  OBVIOUS
<1>u. PICK u : u = wire[r]
  OBVIOUS
<1>3. /\ Moved(r, j, p, w, y, v) /\ Tame(x, y, k) /\ FireGoes(r, p, w, x, y, k)
      /\ TokenGoes(r, p, x, y) /\ k \in 0..Len(x.fires) /\ JobAt(j, y, registry'[r], connected', named')
  BY <1>2, <1>x DEF Acts
<1>4. /\ job' = [job EXCEPT ![j] = y] /\ wire' = [wire EXCEPT ![r] = v]
      /\ (p # 0 => u[p].job = j) /\ p \in 0..Len(u) /\ Leftover(r, u, p, w) /\ Grows(r, j, y, w, v)
  BY <1>3, <1>u DEF Moved
<1>5. /\ job \in [Jobs -> Registrations] /\ x \in Registrations /\ y \in Registrations
      /\ WireOk(r, u, job, registry[r]) /\ wire \in [Replicas -> Seq(Commands)] /\ Len(u) \in Nat
  BY <1>3, <1>x, <1>u DEF Base, Wires, JobAt, JobOk, Formed, WireOk
<1>6. WireHeld(u) /\ JobHeld(j, x)
  BY <1>x, <1>u DEF Locked
<1>7. p # 0 => CmdForm(r, u[p]) /\ p \in 1..Len(u)
  BY <1>4, <1>5 DEF WireOk
<1>8. WireHeld(v)
  <2>1. /\ w \in Seq(Commands) /\ Sole(w) /\ Ordered(w)
    BY <1>4 DEF Leftover
  <2>2. \A i \in 1..Len(v) :
          \/ i \in 1..Len(w) /\ v[i] = w[i]
          \/ \E c : CmdForm(r, c) /\ ~c.done /\ v[i] = c
    <3>1. CASE v = w
      BY <3>1
    <3>2. CASE v # w
      <4>1. PICK c : Joins(r, j, y, w, c) /\ v = Append(w, c)
        BY <1>4, <3>2 DEF Grows
      <4>2. CmdForm(r, c) /\ ~c.done /\ c \in Commands
        BY <4>1 DEF Joins, CmdForm
      <4>3. /\ v \in Seq(Commands) /\ Len(v) = Len(w) + 1 /\ v[Len(w) + 1] = c /\ Len(w) \in Nat
            /\ \A i \in 1..Len(w) : v[i] = w[i]
        BY <2>1, <4>1, <4>2, AppendDoes
      <4>4. \A i \in 1..Len(v) : i \in 1..Len(w) \/ i = Len(w) + 1
        BY <4>3
      <4>. QED BY <4>2, <4>3, <4>4
    <3>. QED BY <3>1, <3>2
  <2>3. ASSUME NEW i \in 1..Len(v), v[i].for \in Waiting, v[i].until > 0
        PROVE  Held(v[i].key, v[i].slot, v[i].job, v[i].n, v[i].until)
    <3>1. ~\E c : CmdForm(r, c) /\ ~c.done /\ v[i] = c
      BY <2>3 DEF CmdForm
    <3>2. i \in 1..Len(w) /\ v[i] = w[i]
      BY <2>2, <3>1
    <3>3. Stays(u, p, w[i])
      BY <1>4, <2>3, <3>2 DEF Leftover, Ghost, Waiting
    <3>4. PICK m \in 1..Len(u) : v[i] = u[m]
      BY <3>2, <3>3 DEF Stays
    <3>. QED BY <2>3, <3>4, <1>6 DEF WireHeld
  <2>. QED BY <2>3 DEF WireHeld
<1>9. JobHeld(j, y)
  <2>1. ASSUME y.token # 0
        PROVE  Held("once", 0, j, y.token, y.until)
    <3>1. CASE y.token = x.token /\ y.until = x.until
      BY <2>1, <3>1, <1>6 DEF JobHeld
    <3>2. CASE /\ p # 0 /\ u[p].for = "claim" /\ u[p].n = y.token
               /\ u[p].until > 0 /\ y.until = u[p].until
      <4>1. u[p].key = "once" /\ u[p].slot = 0 /\ u[p].job = j
        BY <3>2, <1>4, <1>7 DEF CmdForm
      <4>2. Held(u[p].key, u[p].slot, u[p].job, u[p].n, u[p].until)
        BY <3>2, <1>6, <1>7 DEF WireHeld, Waiting
      <4>. QED BY <3>2, <4>1, <4>2
    <3>. QED BY <2>1, <3>1, <3>2, <1>3, <1>u DEF TokenGoes
  <2>2. ASSUME NEW m \in 1..Len(y.fires), y.fires[m].stage \in {"running", "backoff"}
        PROVE  Held("mutex", 0, j, m, y.fires[m].until)
    <3>0. y # Lost /\ Len(x.fires) \in Nat /\ Len(y.fires) \in Nat
      BY <2>2, <1>5, LostIs, FiresAre
    <3>1. m \in 1..Len(x.fires)
      <4>1. m \notin 1..Len(x.fires) => m \in (Len(x.fires) + 1)..Len(y.fires)
        BY <3>0
      <4>2. m \notin 1..Len(x.fires) => y.fires[m].stage \in {"armed", "over"}
        BY <4>1, <1>3, <3>0 DEF Tame
      <4>. QED BY <4>2, <2>2
    <3>2. CASE m # k
      <4>1. Kept(x.fires[m], y.fires[m])
        BY <3>0, <3>1, <3>2, <1>3 DEF Tame
      <4>2. x.fires[m].stage \in {"running", "backoff"} /\ y.fires[m].until = x.fires[m].until
        BY <4>1, <2>2 DEF Kept
      <4>3. Held("mutex", 0, j, m, x.fires[m].until)
        BY <3>1, <4>2, <1>6 DEF JobHeld
      <4>. QED BY <4>2, <4>3
    <3>3. CASE m = k
      <4>1. \/ x.fires[k].stage \in {"running", "backoff"} /\ y.fires[k].until = x.fires[k].until
            \/ p # 0 /\ u[p].for = "mutex" /\ u[p].n = k /\ u[p].until > 0 /\ y.fires[k].until = u[p].until
        BY <3>0, <3>1, <3>3, <2>2, <1>3, <1>u DEF FireGoes
      <4>2. CASE x.fires[k].stage \in {"running", "backoff"} /\ y.fires[k].until = x.fires[k].until
        <5>1. Held("mutex", 0, j, k, x.fires[k].until)
          BY <3>1, <3>3, <4>2, <1>6 DEF JobHeld
        <5>. QED BY <3>3, <4>2, <5>1
      <4>3. CASE p # 0 /\ u[p].for = "mutex" /\ u[p].n = k /\ u[p].until > 0 /\ y.fires[k].until = u[p].until
        <5>1. u[p].key = "mutex" /\ u[p].slot = 0 /\ u[p].job = j
          BY <4>3, <1>4, <1>7 DEF CmdForm
        <5>2. Held(u[p].key, u[p].slot, u[p].job, u[p].n, u[p].until)
          BY <4>3, <1>6, <1>7 DEF WireHeld, Waiting
        <5>. QED BY <3>3, <4>3, <5>1, <5>2
      <4>. QED BY <4>1, <4>2, <4>3
    <3>. QED BY <3>2, <3>3
  <2>. QED BY <2>1, <2>2 DEF JobHeld
<1>10. ASSUME NEW q \in Replicas
       PROVE  WireHeld(wire'[q])
  <2>1. wire'[q] = v \/ wire'[q] = wire[q]
    BY <1>4, <1>5
  <2>2. WireHeld(wire[q])
    BY DEF Locked
  <2>. QED BY <2>1, <2>2, <1>8
<1>11. ASSUME NEW i \in Jobs
       PROVE  JobHeld(i, job'[i])
  <2>1. (i = j /\ job'[i] = y) \/ job'[i] = job[i]
    BY <1>4, <1>5
  <2>2. JobHeld(i, job[i])
    BY DEF Locked
  <2>. QED BY <2>1, <2>2, <1>9
<1>. QED BY <1>10, <1>11

(* The command that is executed, and the lock it sets or deletes.            *)
LEMMA LockIs ==
  ASSUME NEW key, NEW slot, NEW j, NEW n, NEW until
  PROVE  LET h == Lock(key, slot, j, n, until)
         IN  /\ h.key = key /\ h.slot = slot /\ h.job = j /\ h.n = n /\ h.until = until
             /\ Key(h) = <<key, slot>>
  BY DEF Lock, Key

Doing(r, u, p, v, c) == r \in Replicas /\ u = wire[r] /\ c = u[p] /\ Executes(r, u, p, v)
Carried(r, u, p, c) ==
  /\ p \in 1..Len(u) /\ CmdForm(r, c) /\ c \in Commands /\ c.op \in {"set", "del"}
  /\ CmdFits(job[c.job], c) /\ c.job \in Jobs /\ ~c.done /\ c.until = 0
  /\ now \in Nat /\ now + Lease(c) \in Nat
  /\ c.op = "del" => lock' = {h \in lock : ~Owns(h, c)}
  /\ c.op = "set" /\ ~Frees(c) => lock' = lock
  /\ c.op = "set" /\ Frees(c) =>
       lock' = {h \in lock : Key(h) # Key(c)} \union
                 {Lock(c.key, c.slot, c.job, c.n, now + Lease(c))}
  /\ UNCHANGED <<kind, now, connected, registry, named, job, runs, events>>

LEMMA ExecutesDoes ==
  ASSUME Base, NEW r, NEW u, NEW p, NEW v, NEW c, Doing(r, u, p, v, c)
  PROVE  Carried(r, u, p, c)
<1>0. r \in Replicas /\ u = wire[r] /\ c = u[p] /\ Executes(r, u, p, v)
  BY DEF Doing
<1>1. /\ p \in 1..Len(u) /\ ~c.done
      /\ lock' = CASE c.op = "del" -> {h \in lock : ~Owns(h, c)}
                   [] c.op = "set" /\ ~Frees(c) -> lock
                   [] c.op = "set" /\ Frees(c) ->
                        {h \in lock : Key(h) # Key(c)} \union
                           {[key |-> c.key, slot |-> c.slot, job |-> c.job, n |-> c.n,
                             until |-> now + Lease(c)]}
      /\ UNCHANGED <<kind, now, connected, registry, named, job, runs, events>>
  BY <1>0 DEF Executes
<1>2. WireOk(r, u, job, registry[r]) /\ now \in Nat
  BY <1>0 DEF Base, Wires
<1>3. CmdForm(r, c) /\ CmdFits(job[c.job], c)
  BY <1>0, <1>1, <1>2 DEF WireOk
<1>4. c \in Commands /\ c.until = 0
  BY <1>1, <1>3 DEF CmdForm
<1>5. c.op \in {"set", "del"} /\ c.job \in Jobs
  BY <1>4, CommandIs
<1>6. now + Lease(c) \in Nat
  BY <1>2, TimeAssumption DEF Lease
<1>. QED BY <1>1, <1>2, <1>3, <1>4, <1>5, <1>6 DEF Lock, Carried

(* Only a delete of its own token takes a lock from who holds it.            *)
Spares(c, key, slot, j, n, until) ==
  /\ until \in Nat /\ Held(key, slot, j, n, until)
  /\ c.op = "del" => ~(c.key = key /\ c.job = j /\ c.n = n)

LEMMA HeldStays ==
  ASSUME NEW r, NEW u, NEW p, NEW c, Carried(r, u, p, c),
         NEW key, NEW slot, NEW j, NEW n, NEW until, Spares(c, key, slot, j, n, until)
  PROVE  Held(key, slot, j, n, until)'
<1>h. PICK h : h = Lock(key, slot, j, n, until)
  OBVIOUS
<1>1. h.job = j /\ h.n = n /\ h.until = until /\ Key(h) = <<key, slot>>
  BY <1>h, LockIs
<1>2. /\ now' = now /\ c.op \in {"set", "del"} /\ now \in Nat
      /\ c.op = "del" => lock' = {g \in lock : ~Owns(g, c)}
      /\ c.op = "set" /\ ~Frees(c) => lock' = lock
      /\ c.op = "set" /\ Frees(c) =>
           lock' = {g \in lock : Key(g) # Key(c)} \union
                     {Lock(c.key, c.slot, c.job, c.n, now + Lease(c))}
  BY DEF Carried
<1>0. until \in Nat /\ Held(key, slot, j, n, until)
      /\ (c.op = "del" => ~(c.key = key /\ c.job = j /\ c.n = n))
  BY DEF Spares
<1> SUFFICES ASSUME until > now
             PROVE  h \in lock'
  BY <1>2, <1>h DEF Held
<1>3. h \in lock
  BY <1>0, <1>h DEF Held
<1>4. CASE c.op = "del"
  <2>1. ~Owns(h, c)
    BY <1>0, <1>1, <1>4 DEF Owns, Key
  <2>. QED BY <1>2, <1>3, <1>4, <2>1
<1>5. CASE c.op = "set" /\ ~Frees(c)
  BY <1>2, <1>3, <1>5
<1>6. CASE c.op = "set" /\ Frees(c)
  <2>1. Key(h) # Key(c) \/ h.until <= now
    BY <1>3, <1>6 DEF Frees
  <2>2. Key(h) # Key(c)
    BY <2>1, <1>0, <1>1, <1>2
  <2>. QED BY <1>2, <1>3, <1>6, <2>2
<1>. QED BY <1>2, <1>4, <1>5, <1>6

(* The wire after command c was executed.                                    *)
LEMMA ExecutedWire ==
  ASSUME Base, NEW r, NEW u, NEW p, NEW v, NEW c, Doing(r, u, p, v, c), NEW i \in 1..Len(v)
  PROVE  \/ \E m \in 1..Len(u) : m # p /\ v[i] = u[m]
         \/ c.for # "nobody" /\ v[i] = Executed(c) /\ Likewise(c, v[i])
            /\ v[i].until = IF Frees(c) THEN now + Lease(c) ELSE 0
<1>1. Carried(r, u, p, c)
  BY ExecutesDoes
<1>2. p \in 1..Len(u) /\ CmdForm(r, c) /\ c \in Commands /\ now \in Nat
  BY <1>1 DEF Carried
<1>3. r \in Replicas /\ u = wire[r] /\ c = u[p] /\ Executes(r, u, p, v)
  BY DEF Doing
<1>4. u \in Seq(Commands) /\ Len(u) \in Nat
  BY <1>3 DEF Base, Wires, WireOk
<1>5. v = IF c.for = "nobody" THEN Seqs!RemoveAt(u, p) ELSE [u EXCEPT ![p] = Executed(c)]
  BY <1>3 DEF Executes
<1>6. CASE c.for = "nobody"
  <2>1. /\ Len(v) = Len(u) - 1
        /\ \A l \in 1..(Len(u) - 1) : v[l] = IF l < p THEN u[l] ELSE u[l + 1]
    <3>1. p \in 1..Len(u) /\ v = Seqs!RemoveAt(u, p)
      BY <1>2, <1>5, <1>6
    <3>. QED BY ONLY <3>1, <1>4, RemoveAtDoes
  <2>2. CASE i < p
    BY <2>1, <2>2, <1>4
  <2>3. CASE ~(i < p)
    <3>1. i + 1 \in 1..Len(u) /\ i + 1 # p /\ v[i] = u[i + 1]
      BY <2>1, <2>3, <1>2, <1>4
    <3>. QED BY <3>1
  <2>. QED BY <2>2, <2>3
<1>7. CASE c.for # "nobody"
  <2>d. PICK d : d = Executed(c)
    OBVIOUS
  <2>1. d \in Commands /\ Likewise(c, d) /\ d.until = IF Frees(c) THEN now + Lease(c) ELSE 0
    BY <1>2, <1>7, <2>d, ExecutedIs
  <2>2. v = [u EXCEPT ![p] = d]
    BY <1>5, <1>7, <2>d
  <2>3. Len(v) = Len(u) /\ v[p] = d /\ \A l \in 1..Len(u) : l # p => v[l] = u[l]
    BY <1>2, <1>4, <2>1, <2>2
  <2>. QED BY <1>7, <2>1, <2>3, <2>d
<1>. QED BY <1>6, <1>7

(* The server grants a lock to one command at a time, and takes none back. *)
LEMMA ExecuteHolds ==
  ASSUME Base, Locked, NEW r \in Replicas, NEW u, u = wire[r], NEW p, NEW v, Executes(r, u, p, v)
  PROVE  Locked'
<1>c. PICK c : c = u[p]
  OBVIOUS
<1>00. Carried(r, u, p, c)
  <2>1. Doing(r, u, p, v, c)
    BY <1>c DEF Doing
  <2>. QED BY ONLY <2>1, Base, ExecutesDoes
<1>0. /\ p \in 1..Len(u) /\ CmdForm(r, c) /\ c \in Commands /\ c.op \in {"set", "del"}
      /\ CmdFits(job[c.job], c) /\ c.job \in Jobs /\ ~c.done /\ c.until = 0
      /\ now \in Nat /\ now + Lease(c) \in Nat
      /\ c.op = "del" => lock' = {h \in lock : ~Owns(h, c)}
      /\ c.op = "set" /\ ~Frees(c) => lock' = lock
      /\ c.op = "set" /\ Frees(c) =>
           lock' = {h \in lock : Key(h) # Key(c)} \union
                     {Lock(c.key, c.slot, c.job, c.n, now + Lease(c))}
      /\ UNCHANGED <<kind, now, connected, registry, named, job, runs, events>>
  BY <1>00 DEF Carried
<1>1. Keyed'
  <2>1. Keyed
    BY DEF Locked
  <2>2. CASE c.op = "del" \/ ~Frees(c)
    <3>1. lock' \subseteq lock
      BY <1>0, <2>2
    <3>. QED BY <2>1, <3>1 DEF Keyed
  <2>3. CASE c.op = "set" /\ Frees(c)
    <3>h. PICK h : h = Lock(c.key, c.slot, c.job, c.n, now + Lease(c))
      OBVIOUS
    <3>1. Key(h) = Key(c)
      BY <3>h, LockIs DEF Key
    <3>2. h \in Locks
      BY <1>0, <3>h, CommandIs DEF Locks, Lock
    <3>3. lock' = {g \in lock : Key(g) # Key(c)} \union {h}
      BY <1>0, <2>3, <3>h
    <3>4. lock' \subseteq Locks
      BY <2>1, <3>2, <3>3 DEF Keyed
    <3>5. \A g, f \in lock' : Key(g) = Key(f) => g = f
      BY <2>1, <3>1, <3>3 DEF Keyed
    <3>. QED BY <3>4, <3>5 DEF Keyed
  <2>. QED BY <1>0, <2>2, <2>3
<1>2. /\ wire' = [wire EXCEPT ![r] = v] /\ wire \in [Replicas -> Seq(Commands)]
      /\ v = IF c.for = "nobody" THEN Seqs!RemoveAt(u, p) ELSE [u EXCEPT ![p] = Executed(c)]
      /\ WireOk(r, u, job, registry[r]) /\ WireHeld(u)
  BY <1>c DEF Base, Wires, Locked, Executes
<1>3. u \in Seq(Commands) /\ Len(u) \in Nat
  BY <1>2 DEF WireOk
<1>4. ASSUME NEW key, NEW slot, NEW j, NEW n, NEW until, Spares(c, key, slot, j, n, until)
      PROVE  Held(key, slot, j, n, until)'
  BY <1>00, <1>4, HeldStays
<1>5. ASSUME NEW m \in 1..Len(u), m # p, u[m].for \in Waiting, u[m].until > 0
      PROVE  Held(u[m].key, u[m].slot, u[m].job, u[m].n, u[m].until)'
  <2>1. ~SameToken(u[m], c)
    BY <1>0, <1>2, <1>5, <1>c DEF WireOk, Sole
  <2>2. Held(u[m].key, u[m].slot, u[m].job, u[m].n, u[m].until)
    BY <1>2, <1>5 DEF WireHeld
  <2>3. ~(c.key = u[m].key /\ c.job = u[m].job /\ c.n = u[m].n) /\ u[m].until \in Nat
    BY <2>1, <1>3, CommandIs DEF SameToken
  <2>4. Spares(c, u[m].key, u[m].slot, u[m].job, u[m].n, u[m].until)
    BY <2>2, <2>3 DEF Spares
  <2>. QED BY <2>4, <1>4
<1>6. \A i \in 1..Len(v) :
        \/ \E m \in 1..Len(u) : m # p /\ v[i] = u[m]
        \/ c.for # "nobody" /\ v[i] = Executed(c)
  <2>1. Doing(r, u, p, v, c)
    BY <1>c DEF Doing
  <2>. QED BY <2>1, ExecutedWire
<1>7. ASSUME NEW i \in 1..Len(v), v[i].for \in Waiting, v[i].until > 0
      PROVE  Held(v[i].key, v[i].slot, v[i].job, v[i].n, v[i].until)'
  <2>1. CASE \E m \in 1..Len(u) : m # p /\ v[i] = u[m]
    <3>1. PICK m \in 1..Len(u) : m # p /\ v[i] = u[m]
      BY <2>1
    <3>d. PICK d : d = v[i]
      OBVIOUS
    <3>2. Held(d.key, d.slot, d.job, d.n, d.until)'
      <4>1. d = u[m]
        BY <3>1, <3>d
      <4>2. u[m].for \in Waiting /\ u[m].until > 0
        BY <4>1, <3>d, <1>7
      <4>. QED BY <3>1, <4>1, <4>2, <1>5
    <3>. QED BY <3>2, <3>d
  <2>2. CASE c.for # "nobody" /\ v[i] = Executed(c)
    <3>d. PICK d : d = v[i]
      OBVIOUS
    <3>1. /\ Likewise(c, d) /\ d.until = IF Frees(c) THEN now + Lease(c) ELSE 0
      BY <1>0, <2>2, <3>d, ExecutedIs
    <3>2. Frees(c) /\ d.until = now + Lease(c)
      BY <3>1, <3>d, <1>7
    <3>3. c.op = "set"
      BY <3>2 DEF Frees
    <3>4. Lock(c.key, c.slot, c.job, c.n, now + Lease(c)) \in lock'
      BY <1>0, <3>2, <3>3
    <3>5. Lock(d.key, d.slot, d.job, d.n, d.until) \in lock'
      BY <3>1, <3>2, <3>4 DEF Likewise
    <3>6. Held(d.key, d.slot, d.job, d.n, d.until)'
      BY <3>5 DEF Held
    <3>. QED BY <3>6, <3>d
  <2>. QED BY <2>1, <2>2, <1>6
<1>8. ASSUME NEW q \in Replicas
      PROVE  WireHeld(wire[q])'
  <2>1. CASE q = r
    <3>1. wire'[q] = v
      BY <1>2, <2>1
    <3>2. ASSUME NEW i \in 1..Len(wire'[q]), wire'[q][i].for \in Waiting, wire'[q][i].until > 0
          PROVE  Held(wire[q][i].key, wire[q][i].slot, wire[q][i].job, wire[q][i].n, wire[q][i].until)'
      <4>1. Held(v[i].key, v[i].slot, v[i].job, v[i].n, v[i].until)'
        BY <3>1, <3>2, <1>7
      <4>. QED BY <4>1, <3>1 DEF Held
    <3>. QED BY <3>2 DEF WireHeld
  <2>2. CASE q # r
    <3>w. PICK w : w = wire[q]
      OBVIOUS
    <3>1. wire'[q] = w /\ WireHeld(w) /\ WireOk(q, w, job, registry[q])
      BY <1>2, <2>2, <3>w DEF Locked, Base, Wires
    <3>2. ASSUME NEW i \in 1..Len(w), w[i].for \in Waiting, w[i].until > 0
          PROVE  Held(w[i].key, w[i].slot, w[i].job, w[i].n, w[i].until)'
      <4>1. Held(w[i].key, w[i].slot, w[i].job, w[i].n, w[i].until)
        BY <3>1, <3>2 DEF WireHeld
      <4>2. w[i].job # c.job /\ w[i].until \in Nat
        BY <3>1, <1>0, <2>2, CommandIs DEF WireOk, CmdForm
      <4>3. Spares(c, w[i].key, w[i].slot, w[i].job, w[i].n, w[i].until)
        BY <4>1, <4>2 DEF Spares
      <4>. QED BY <4>3, <1>4
    <3>3. ASSUME NEW i \in 1..Len(wire'[q]), wire'[q][i].for \in Waiting, wire'[q][i].until > 0
          PROVE  Held(wire[q][i].key, wire[q][i].slot, wire[q][i].job, wire[q][i].n, wire[q][i].until)'
      <4>1. Held(w[i].key, w[i].slot, w[i].job, w[i].n, w[i].until)'
        BY <3>1, <3>2, <3>3
      <4>. QED BY <4>1, <3>1 DEF Held
    <3>. QED BY <3>3 DEF WireHeld
  <2>. QED BY <2>1, <2>2
<1>9. ASSUME NEW j \in Jobs
      PROVE  JobHeld(j, job[j])'
  <2>x. PICK x : x = job[j]
    OBVIOUS
  <2>1. job'[j] = x /\ JobHeld(j, x)
    BY <1>0, <2>x DEF Locked
  <2>0. x \in Registrations /\ x.until \in Nat /\ \A k \in 1..Len(x.fires) : x.fires[k].until \in Nat
    <3>1. x \in Registrations
      BY <2>x DEF Base
    <3>. QED BY <3>1, FiresAre DEF Tries, Fires
  <2>2. x.token # 0 => Held("once", 0, j, x.token, x.until)'
    <3>1. c.op = "del" /\ x.token # 0 => ~(c.key = "once" /\ c.job = j /\ c.n = x.token)
      BY <1>0, <2>x, LostIs DEF CmdFits
    <3>2. x.token # 0 => Held("once", 0, j, x.token, x.until)
      BY <2>1 DEF JobHeld
    <3>3. x.token # 0 => Spares(c, "once", 0, j, x.token, x.until)
      BY <3>1, <3>2, <2>0 DEF Spares
    <3>. QED BY <3>3, <1>4
  <2>3. ASSUME NEW k \in 1..Len(x.fires), x.fires[k].stage \in {"running", "backoff"}
        PROVE  Held("mutex", 0, j, k, x.fires[k].until)'
    <3>1. Held("mutex", 0, j, k, x.fires[k].until)
      BY <2>1, <2>3 DEF JobHeld
    <3>2. ~(c.key = "mutex" /\ c.job = j /\ c.n = k)
      <4>1. x # Lost
        BY <2>3, LostIs
      <4>. QED BY <4>1, <2>3, <2>x, <1>0 DEF CmdFits, CmdForm
    <3>3. Spares(c, "mutex", 0, j, k, x.fires[k].until)
      BY <2>0, <2>3, <3>1, <3>2 DEF Spares
    <3>. QED BY <3>3, <1>4
  <2>4. x.token # 0 => Held("once", 0, j, job[j].token, job[j].until)'
    BY <2>1, <2>2 DEF Held
  <2>5. ASSUME NEW k \in 1..Len(x.fires), x.fires[k].stage \in {"running", "backoff"}
        PROVE  Held("mutex", 0, j, k, job[j].fires[k].until)'
    BY <2>1, <2>3, <2>5 DEF Held
  <2>. QED BY <2>1, <2>4, <2>5 DEF JobHeld
<1>. QED BY <1>1, <1>8, <1>9 DEF Locked

LEMMA LockedInit ==
  ASSUME Init
  PROVE  Locked
<1>1. lock = {} /\ wire = [r \in Replicas |-> <<>>] /\ job = [j \in Jobs |-> Unused]
  BY DEF Init
<1>2. \A r \in Replicas : WireHeld(wire[r])
  <2>1. Len(<<>>) = 0
    OBVIOUS
  <2>. QED BY <1>1, <2>1 DEF WireHeld
<1>3. \A j \in Jobs : JobHeld(j, job[j])
  BY <1>1, LostIs DEF JobHeld
<1>. QED BY <1>1, <1>2, <1>3 DEF Locked, Keyed

(* The locks, the time and what is held stay.                                *)
LEMMA LockedStays ==
  ASSUME Locked, lock' = lock, now' = now, \A r \in Replicas : WireHeld(wire'[r]),
         \A j \in Jobs : JobHeld(j, job'[j])
  PROVE  Locked'
<1>1. Keyed'
  BY DEF Locked, Keyed
<1>2. \A key, slot, j, n, until : Held(key, slot, j, n, until) => Held(key, slot, j, n, until)'
  BY DEF Held
<1>. QED BY <1>1, <1>2, LockedMoves

(* What a crash orphans is awaited by nobody, and what it loses holds      *)
(* nothing.                                                                *)
LEMMA CrashHolds ==
  ASSUME Base, Locked, NEW r \in Replicas, NEW n, NEW m, NEW v, Crashes(r, wire[r], n, m, v)
  PROVE  Locked'
<1>u. PICK u : u = wire[r]
  OBVIOUS
<1>0. /\ Orphans(u, n, m, v) /\ wire' = [wire EXCEPT ![r] = v]
      /\ job' = [j \in Jobs |-> IF Owner[j] = r /\ job[j].used THEN Lost ELSE job[j]]
      /\ UNCHANGED <<kind, now, lock, runs>>
  BY <1>u DEF Crashes
<1>1. WireOk(r, u, job, registry[r]) /\ wire \in [Replicas -> Seq(Commands)]
  BY <1>u DEF Base, Wires
<1>2. \A i \in 1..Len(v) : \E l \in 1..Len(u) : /\ Ghost(u[l], v[i]) /\ v[i].op = u[l].op
                                                /\ v[i].for = "nobody" /\ CmdForm(r, v[i])
  BY ONLY <1>0, <1>1, OrphansAre
<1>3. WireHeld(v)
  BY <1>2 DEF WireHeld, Waiting
<1>4. \A q \in Replicas : WireHeld(wire'[q])
  <2>1. \A q \in Replicas : wire'[q] = IF q = r THEN v ELSE wire[q]
    BY <1>0, <1>1
  <2>. QED BY <2>1, <1>3 DEF Locked
<1>5. \A j \in Jobs : JobHeld(j, job'[j])
  <2>1. ASSUME NEW j \in Jobs
        PROVE  JobHeld(j, job'[j])
    <3>1. job'[j] = Lost \/ job'[j] = job[j]
      BY <1>0
    <3>2. JobHeld(j, Lost)
      BY LostIs DEF JobHeld
    <3>. QED BY <3>1, <3>2 DEF Locked
  <2>. QED BY <2>1
<1>. QED BY <1>0, <1>4, <1>5, LockedStays

(* Time takes only locks that have expired.                                *)
LEMMA TickHolds ==
  ASSUME Base, Locked, Tick
  PROVE  Locked'
<1>1. now' = now + 1 /\ now \in Nat /\ wire' = wire /\ job' = job
      /\ lock' = {h \in lock : h.until > now + 1}
  BY DEF Tick, Base
<1>2. Keyed'
  BY <1>1 DEF Locked, Keyed
<1>3. ASSUME NEW until \in Nat, NEW key, NEW slot, NEW j, NEW n, Held(key, slot, j, n, until)
      PROVE  Held(key, slot, j, n, until)'
  <2>1. ASSUME until > now + 1
        PROVE  Lock(key, slot, j, n, until) \in lock'
    <3>1. until > now
      BY <2>1, <1>1
    <3>2. Lock(key, slot, j, n, until) \in lock
      BY <3>1, <1>3 DEF Held
    <3>3. Lock(key, slot, j, n, until).until = until
      BY DEF Lock
    <3>. QED BY <1>1, <2>1, <3>2, <3>3
  <2>. QED BY <1>1, <2>1 DEF Held
<1>4. ASSUME NEW r \in Replicas
      PROVE  WireHeld(wire[r])'
  <2>w. PICK w : w = wire[r]
    OBVIOUS
  <2>1. w \in Seq(Commands) /\ WireHeld(w) /\ wire'[r] = w
    BY <1>1, <2>w DEF Base, Wires, WireOk, Locked
  <2>2. ASSUME NEW i \in 1..Len(w), w[i].for \in Waiting, w[i].until > 0
        PROVE  Held(w[i].key, w[i].slot, w[i].job, w[i].n, w[i].until)'
    <3>1. Held(w[i].key, w[i].slot, w[i].job, w[i].n, w[i].until) /\ w[i].until \in Nat
      BY <2>1, <2>2, CommandIs DEF WireHeld
    <3>. QED BY <3>1, <1>3
  <2>3. ASSUME NEW i \in 1..Len(wire'[r]), wire'[r][i].for \in Waiting, wire'[r][i].until > 0
        PROVE  Held(wire[r][i].key, wire[r][i].slot, wire[r][i].job, wire[r][i].n, wire[r][i].until)'
    <3>1. Held(w[i].key, w[i].slot, w[i].job, w[i].n, w[i].until)'
      BY <2>1, <2>2, <2>3
    <3>. QED BY <3>1, <2>1 DEF Held
  <2>. QED BY <2>3 DEF WireHeld
<1>5. ASSUME NEW j \in Jobs
      PROVE  JobHeld(j, job[j])'
  <2>x. PICK x : x = job[j]
    OBVIOUS
  <2>1. job'[j] = x /\ JobHeld(j, x) /\ x \in Registrations
    BY <1>1, <2>x DEF Locked, Base
  <2>2. x.until \in Nat /\ \A k \in 1..Len(x.fires) : x.fires[k].until \in Nat
    BY <2>1, FiresAre DEF Tries, Fires
  <2>3. x.token # 0 => Held("once", 0, j, x.token, x.until)'
    <3>1. x.token # 0 => Held("once", 0, j, x.token, x.until)
      BY <2>1 DEF JobHeld
    <3>. QED BY <3>1, <2>2, <1>3
  <2>4. ASSUME NEW k \in 1..Len(x.fires), x.fires[k].stage \in {"running", "backoff"}
        PROVE  Held("mutex", 0, j, k, x.fires[k].until)'
    <3>1. Held("mutex", 0, j, k, x.fires[k].until)
      BY <2>1, <2>4 DEF JobHeld
    <3>. QED BY <3>1, <2>2, <1>3
  <2>5. x.token # 0 => Held("once", 0, j, job[j].token, job[j].until)'
    BY <2>1, <2>3 DEF Held
  <2>6. ASSUME NEW k \in 1..Len(x.fires), x.fires[k].stage \in {"running", "backoff"}
        PROVE  Held("mutex", 0, j, k, job[j].fires[k].until)'
    BY <2>1, <2>4, <2>6 DEF Held
  <2>. QED BY <2>1, <2>5, <2>6 DEF JobHeld
<1>. QED BY <1>2, <1>4, <1>5 DEF Locked

LEMMA LockedNext ==
  ASSUME Base, Locked, [Next]_vars
  PROVE  Locked'
<1>0. /\ \A r \in Replicas : WireHeld(wire[r])
      /\ \A j \in Jobs : JobHeld(j, job[j])
  BY DEF Locked
<1>1. CASE Acted /\ Steady
  <2>1. lock' = lock /\ now' = now
    BY <1>1 DEF Steady
  <2>. QED BY <1>1, <2>1, ActedHolds, LockedStays
<1>2. ASSUME NEW r \in Replicas, Idle(r)
      PROVE  Locked'
  <2>1. lock' = lock /\ now' = now /\ wire' = wire /\ job' = job
    BY <1>2 DEF Idle, Connect, Disconnect
  <2>. QED BY <1>0, <2>1, LockedStays
<1>3. ASSUME NEW r \in Replicas, NEW p, NEW v, Executes(r, wire[r], p, v)
      PROVE  Locked'
  BY <1>3, ExecuteHolds
<1>4. ASSUME NEW r \in Replicas, NEW n, NEW m, NEW v, Crashes(r, wire[r], n, m, v)
      PROVE  Locked'
  BY <1>4, CrashHolds
<1>5. CASE Tick
  BY <1>5, TickHolds
<1>6. CASE UNCHANGED vars
  <2>1. lock' = lock /\ now' = now /\ wire' = wire /\ job' = job
    BY <1>6 DEF vars
  <2>. QED BY <1>0, <2>1, LockedStays
<1>. QED BY <1>1, <1>2, <1>3, <1>4, <1>5, <1>6, StepIs

(* The locks are in order in every reachable state.                        *)
LEMMA LockedHolds == Spec => [](Base /\ Locked)
<1>1. Init => Locked
  BY LockedInit
<1>2. Base /\ Locked /\ [Next]_vars => Locked'
  BY LockedNext
<1>. QED BY <1>1, <1>2, BaseHolds, PTL DEF Spec

(* The types follow from both parts.                                       *)
LEMMA TypeIs ==
  ASSUME Base, Keyed
  PROVE  TypeOK
<1>1. \A r \in Replicas :
        /\ registry[r] # None => Owner[registry[r]] = r /\ job[registry[r]].used
        /\ \A i \in DOMAIN wire[r] : wire[r][i] \in Commands /\ Owner[wire[r][i].job] = r
  <2>1. ASSUME NEW r \in Replicas, registry[r] # None
        PROVE  Owner[registry[r]] = r /\ job[registry[r]].used
    <3>g. PICK g : g = registry[r]
      OBVIOUS
    <3>1. g \in Jobs /\ Owner[g] = r
      BY <2>1, <3>g DEF Base, Places
    <3>2. PICK h, on, nm \in BOOLEAN :
            Flags(g, registry[Owner[g]], connected, named, h, on, nm) /\ JobOk(job[g], h, on, nm)
      BY <3>1 DEF Base, JobsOk, JobAt
    <3>3. h
      BY <3>1, <3>2, <3>g DEF Flags
    <3>4. job[g].used
      BY <3>2, <3>3 DEF JobOk, Going
    <3>. QED BY <3>1, <3>4, <3>g
  <2>2. ASSUME NEW r \in Replicas, NEW i \in DOMAIN wire[r]
        PROVE  wire[r][i] \in Commands /\ Owner[wire[r][i].job] = r
    <3>1. WireOk(r, wire[r], job, registry[r])
      BY DEF Base, Wires
    <3>2. i \in 1..Len(wire[r])
      BY <2>2, <3>1 DEF WireOk
    <3>. QED BY <3>1, <3>2 DEF WireOk, CmdForm
  <2>. QED BY <2>1, <2>2
<1>2. ASSUME NEW j \in Jobs
      PROVE  /\ job[j].wait \in {"none", "register", "resume"} /\ job[j].token \in 0..job[j].minted
             /\ {job[j].handle, job[j].scope} \subseteq 0..Len(job[j].fires)
             /\ \A k \in DOMAIN job[j].fires :
                  LET f == job[j].fires[k] IN
                  /\ f \in Fires
                  /\ f.stage \in {"slot", "mutex", "release"} =>
                       \E i \in DOMAIN wire[Owner[j]] :
                           LET cmd == wire[Owner[j]][i] IN
                           cmd.for = f.stage /\ cmd.job = j /\ cmd.n = k
  <2>x. PICK x : x = job[j]
    OBVIOUS
  <2>r. PICK r : r = Owner[j]
    OBVIOUS
  <2>1. Formed(x)
    BY <2>x DEF Base, JobsOk, JobAt, JobOk
  <2>2. x \in Registrations /\ DOMAIN x.fires = 1..Len(x.fires)
    BY <2>1, FiresAre DEF Formed
  <2>3. x.wait \in {"none", "register", "resume"} /\ x.token \in 0..x.minted
        /\ {x.handle, x.scope} \subseteq 0..Len(x.fires)
    BY <2>1, <2>2 DEF Formed, Registrations
  <2>4. ASSUME NEW k \in DOMAIN x.fires
        PROVE  x.fires[k] \in Fires
    BY <2>2, <2>4, FiresAre DEF Tries
  <2>5. r \in Replicas /\ WireOk(r, wire[r], job, registry[r]) /\ Answers(wire[r], j, x, registry[r])
    <3>1. r \in Replicas
      BY <2>r, JobsAssumption
    <3>2. WireOk(r, wire[r], job, registry[r])
      BY <3>1 DEF Base, Wires
    <3>. QED BY <3>1, <3>2, <2>r, <2>x DEF WireOk
  <2>6. ASSUME NEW k \in DOMAIN x.fires, x.fires[k].stage \in {"slot", "mutex", "release"}
        PROVE  \E i \in DOMAIN wire[r] : /\ wire[r][i].for = x.fires[k].stage
                                         /\ wire[r][i].job = j /\ wire[r][i].n = k
    <3>1. Asked(wire[r], j, k, x.fires[k].stage)
      BY <2>2, <2>5, <2>6 DEF Answers
    <3>2. DOMAIN wire[r] = 1..Len(wire[r])
      BY <2>5 DEF WireOk
    <3>. QED BY <3>1, <3>2 DEF Asked
  <2>. QED BY <2>3, <2>4, <2>6, <2>x, <2>r
<1>3. \A h \in lock : \A g \in lock : Key(h) = Key(g) => h = g
  BY DEF Keyed
<1>4. /\ kind \in {"every", "delay"} /\ now \in Nat /\ events \in Nat
      /\ connected \subseteq Replicas /\ named \subseteq Replicas
  BY DEF Base, Places
<1>. QED BY <1>1, <1>2, <1>3, <1>4 DEF TypeOK

(* Every reachable state is well typed, the server holds one lock per key, *)
(* and a fire that waits for the server has its command on the wire        *)
(* (TypeOK).                                                               *)
THEOREM TypeCorrect == Spec => []TypeOK
<1>1. Base /\ Locked => TypeOK
  BY TypeIs DEF Locked
<1>. QED BY <1>1, LockedHolds, PTL
-----------------------------------------------------------------------------
(* The slots.  A fire that was granted its slot holds a claim: first in the    *)
(* answer, then at the mutex, then in runs.                                   *)
Grant(c, a) == c.for = "slot" /\ c.until > 0 /\ a = Claim(c.slot, c.until - Ttl, c.job, c.n)
Grants(W, a) == \E r \in Replicas : \E i \in 1..Len(W[r]) : Grant(W[r][i], a)
Enters(J, a) ==
  \E j \in Jobs : \E k \in 1..Len(J[j].fires) :
     J[j].fires[k].stage = "mutex" /\ a = Claim(J[j].fires[k].due, J[j].fires[k].since, j, k)
Past(a, J, R) == a \in R \/ (kind = "every" /\ Enters(J, a))
Claims(a, J, W, R) == Past(a, J, R) \/ Grants(W, a)

Apart(a, b) == a.since + Ttl <= b.since \/ b.since + Ttl <= a.since
Reserved(a) == /\ a.slot \in Nat /\ a.since \in Nat
               /\ Held("slot", a.slot, a.job, a.fire, a.since + Ttl)
Fits(a, J) ==
  /\ a.job \in Jobs /\ J[a.job].used
  /\ \/ J[a.job] = Lost
     \/ a.fire \in 1..Len(J[a.job].fires) /\ J[a.job].fires[a.fire].stage # "armed"
Spent(a, w) == \A i \in 1..Len(w) : ~(w[i].key = "slot" /\ w[i].job = a.job /\ w[i].n = a.fire)

Slotted ==
  /\ \A a, b : Claims(a, job, wire, runs) /\ Claims(b, job, wire, runs) /\ a.slot = b.slot /\ a # b =>
        Apart(a, b)
  /\ \A a : Claims(a, job, wire, runs) => Reserved(a) /\ Fits(a, job)
  /\ \A a : Past(a, job, runs) => Spent(a, wire[Owner[a.job]])

(* The claims of the next state, from its variables.                       *)
LEMMA ClaimsMove ==
  ASSUME kind' = kind, NEW a
  PROVE  /\ Past(a, job, runs)' <=> Past(a, job', runs')
         /\ Claims(a, job, wire, runs)' <=> Claims(a, job', wire', runs')
         /\ Fits(a, job)' <=> Fits(a, job')
         /\ Spent(a, wire[Owner[a.job]])' <=> Spent(a, wire'[Owner[a.job]])
<1>1. Past(a, job, runs)' <=> Past(a, job', runs')
  BY DEF Past, Enters
<1>2. Grants(wire, a)' <=> Grants(wire', a)
  BY DEF Grants, Grant
<1>3. Claims(a, job, wire, runs)' <=> Claims(a, job', wire', runs')
  BY <1>1, <1>2 DEF Claims
<1>4. Fits(a, job)' <=> Fits(a, job')
  BY DEF Fits
<1>5. Spent(a, wire[Owner[a.job]])' <=> Spent(a, wire'[Owner[a.job]])
  BY DEF Spent
<1>. QED BY <1>1, <1>3, <1>4, <1>5

(* The next state keeps its slots in order if its claims do.               *)
LEMMA SlottedIs ==
  ASSUME kind' = kind,
         \A a, b : Claims(a, job', wire', runs') /\ Claims(b, job', wire', runs') /\ a.slot = b.slot
                   /\ a # b => Apart(a, b),
         \A a : Claims(a, job', wire', runs') => Reserved(a)' /\ Fits(a, job'),
         \A a : Past(a, job', runs') => Spent(a, wire'[Owner[a.job]])
  PROVE  Slotted'
<1>1. ASSUME NEW a, NEW b, Claims(a, job, wire, runs)', Claims(b, job, wire, runs)', a.slot = b.slot, a # b
      PROVE  Apart(a, b)
  <2>1. Claims(a, job', wire', runs') /\ Claims(b, job', wire', runs')
    BY <1>1, ClaimsMove
  <2>. QED BY <1>1, <2>1
<1>2. ASSUME NEW a, Claims(a, job, wire, runs)'
      PROVE  Reserved(a)' /\ Fits(a, job)'
  <2>1. Claims(a, job', wire', runs')
    BY <1>2, ClaimsMove
  <2>2. Reserved(a)' /\ Fits(a, job')
    BY <2>1
  <2>. QED BY <2>2, ClaimsMove
<1>3. ASSUME NEW a, Past(a, job, runs)'
      PROVE  Spent(a, wire[Owner[a.job]])'
  <2>1. Past(a, job', runs')
    BY <1>3, ClaimsMove
  <2>2. Spent(a, wire'[Owner[a.job]])
    BY <2>1
  <2>. QED BY <2>2, ClaimsMove
<1>. QED BY <1>1, <1>2, <1>3 DEF Slotted, Apart

(* A reservation lasts until it expires.                                   *)
LEMMA ReservedIs ==
  ASSUME now \in Nat, NEW a, Reserved(a), now' \in Nat, now' >= now,
         lock' = {h \in lock : h.until > now'} \/ (lock' = lock /\ now' = now)
  PROVE  Reserved(a)'
<1>1. a.since + Ttl \in Nat
  BY TimesAre, TimeAssumption DEF Reserved
<1>t. PICK t \in Nat : t = a.since + Ttl
  BY <1>1
<1>h. PICK h : h = Lock("slot", a.slot, a.job, a.fire, t)
  OBVIOUS
<1>2. h.until = t
  BY <1>h DEF Lock
<1>3. t > now => h \in lock
  BY <1>h, <1>t DEF Reserved, Held
<1>4. t > now' => h \in lock'
  BY <1>2, <1>3
<1>. QED BY <1>4, <1>h, <1>t DEF Reserved, Held

(* A step that brings no claim.                                              *)
LEMMA SlottedStays ==
  ASSUME Slotted, kind' = kind, now \in Nat, now' \in Nat, now' >= now,
         lock' = {h \in lock : h.until > now'} \/ (lock' = lock /\ now' = now),
         \A a : Claims(a, job', wire', runs') => Claims(a, job, wire, runs),
         \A a : Claims(a, job, wire, runs) /\ Fits(a, job) => Fits(a, job'),
         \A a : Past(a, job', runs') => Spent(a, wire'[Owner[a.job]])
  PROVE  Slotted'
<1>1. \A a, b : Claims(a, job', wire', runs') /\ Claims(b, job', wire', runs') /\ a.slot = b.slot
                /\ a # b => Apart(a, b)
  BY DEF Slotted
<1>2. ASSUME NEW a, Claims(a, job', wire', runs')
      PROVE  Reserved(a)' /\ Fits(a, job')
  <2>1. Claims(a, job, wire, runs)
    BY <1>2
  <2>2. Reserved(a) /\ Fits(a, job)
    BY <2>1 DEF Slotted
  <2>3. Fits(a, job')
    BY <2>1, <2>2
  <2>. QED BY <2>2, <2>3, ReservedIs
<1>. QED BY <1>1, <1>2, SlottedIs

LEMMA SlottedInit ==
  ASSUME Init
  PROVE  Slotted
<1>1. /\ wire = [r \in Replicas |-> <<>>] /\ job = [j \in Jobs |-> Unused] /\ runs = {}
  BY DEF Init
<1>2. ASSUME NEW a
      PROVE  ~Claims(a, job, wire, runs)
  <2>1. ~Grants(wire, a)
    BY <1>1 DEF Grants
  <2>2. ~Enters(job, a)
    BY <1>1, LostIs DEF Enters
  <2>. QED BY <1>1, <2>1, <2>2 DEF Claims, Past
<1>3. \A a : ~Past(a, job, runs)
  BY <1>2 DEF Claims
<1>. QED BY <1>2, <1>3 DEF Slotted

LEMMA NothingSlots ==
  ASSUME Slotted, kind' = kind, now' = now, now \in Nat, lock' = lock, job' = job, wire' = wire,
         runs' = runs
  PROVE  Slotted'
<1>1. \A a : Claims(a, job', wire', runs') => Claims(a, job, wire, runs)
  OBVIOUS
<1>2. \A a : Claims(a, job, wire, runs) /\ Fits(a, job) => Fits(a, job')
  OBVIOUS
<1>3. \A a : Past(a, job', runs') => Spent(a, wire'[Owner[a.job]])
  BY DEF Slotted
<1>. QED BY <1>1, <1>2, <1>3, SlottedStays

LEMMA TickSlots ==
  ASSUME Base, Slotted, Tick
  PROVE  Slotted'
<1>0. /\ kind' = kind /\ now' = now + 1 /\ now \in Nat /\ lock' = {h \in lock : h.until > now'}
      /\ job' = job /\ wire' = wire /\ runs' = runs
  BY DEF Tick, Base
<1>1. \A a : Claims(a, job', wire', runs') => Claims(a, job, wire, runs)
  BY <1>0
<1>2. \A a : Claims(a, job, wire, runs) /\ Fits(a, job) => Fits(a, job')
  BY <1>0
<1>3. \A a : Past(a, job', runs') => Spent(a, wire'[Owner[a.job]])
  BY <1>0 DEF Slotted
<1>4. now' \in Nat /\ now' >= now
  BY <1>0
<1>. QED BY <1>0, <1>1, <1>2, <1>3, <1>4, SlottedStays

(* A crash orphans commands and forgets fires; no claim is made.           *)
LEMMA CrashSlots ==
  ASSUME Base, Slotted, NEW r \in Replicas, NEW n, NEW m, NEW v, Crashes(r, wire[r], n, m, v)
  PROVE  Slotted'
<1>u. PICK u : u = wire[r]
  OBVIOUS
<1>0. /\ Orphans(u, n, m, v) /\ wire' = [wire EXCEPT ![r] = v]
      /\ job' = [j \in Jobs |-> IF Owner[j] = r /\ job[j].used THEN Lost ELSE job[j]]
      /\ kind' = kind /\ now' = now /\ lock' = lock /\ runs' = runs
  BY <1>u DEF Crashes
<1>1. WireOk(r, u, job, registry[r]) /\ wire \in [Replicas -> Seq(Commands)] /\ now \in Nat
  BY <1>u DEF Base, Wires
<1>2. \A i \in 1..Len(v) : \E l \in 1..Len(u) : /\ Ghost(u[l], v[i]) /\ v[i].op = u[l].op
                                                /\ v[i].for = "nobody" /\ CmdForm(r, v[i])
  BY ONLY <1>0, <1>1, OrphansAre
<1>3. \A q \in Replicas : wire'[q] = IF q = r THEN v ELSE wire[q]
  BY <1>0, <1>1
<1>4. ASSUME NEW j \in Jobs
      PROVE  job'[j] = Lost \/ job'[j] = job[j]
  BY <1>0
<1>5. ASSUME NEW a, Enters(job', a)
      PROVE  Enters(job, a)
  <2>1. PICK j \in Jobs : \E k \in 1..Len(job'[j].fires) :
          /\ job'[j].fires[k].stage = "mutex"
          /\ a = Claim(job'[j].fires[k].due, job'[j].fires[k].since, j, k)
    BY <1>5 DEF Enters
  <2>2. job'[j] = job[j]
    BY <2>1, <1>4, LostIs
  <2>. QED BY <2>1, <2>2 DEF Enters
<1>6. ASSUME NEW a, Grants(wire', a)
      PROVE  Grants(wire, a)
  <2>1. PICK q \in Replicas : \E i \in 1..Len(wire'[q]) : Grant(wire'[q][i], a)
    BY <1>6 DEF Grants
  <2>2. q # r
    BY <2>1, <1>2, <1>3 DEF Grant
  <2>. QED BY <2>1, <2>2, <1>3 DEF Grants
<1>7. ASSUME NEW a, Past(a, job', runs')
      PROVE  Past(a, job, runs)
  BY <1>0, <1>5, <1>7 DEF Past
<1>8. \A a : Claims(a, job', wire', runs') => Claims(a, job, wire, runs)
  BY <1>6, <1>7 DEF Claims
<1>9. ASSUME NEW a, Fits(a, job)
      PROVE  Fits(a, job')
  <2>1. job'[a.job] = Lost \/ job'[a.job] = job[a.job]
    BY <1>4, <1>9 DEF Fits
  <2>. QED BY <2>1, <1>9, LostIs DEF Fits
<1>10. ASSUME NEW a, Past(a, job', runs')
       PROVE  Spent(a, wire'[Owner[a.job]])
  <2>q. PICK q : q = Owner[a.job]
    OBVIOUS
  <2>1. Past(a, job, runs)
    BY <1>7, <1>10
  <2>2. Spent(a, wire[q]) /\ q \in Replicas
    <3>1. a.job \in Jobs
      BY <2>1 DEF Slotted, Claims, Fits
    <3>. QED BY <2>1, <2>q, <3>1, JobsAssumption DEF Slotted
  <2>3. Spent(a, wire'[q])
    <3>1. CASE q # r
      BY <2>2, <3>1, <1>3
    <3>2. CASE q = r
      <4>1. Spent(a, v)
        BY <2>2, <3>2, <1>u, <1>2 DEF Spent, Ghost, SameToken
      <4>. QED BY <4>1, <3>2, <2>2, <1>3
    <3>. QED BY <3>1, <3>2
  <2>. QED BY <2>3, <2>q
<1>11. \A a : Claims(a, job, wire, runs) /\ Fits(a, job) => Fits(a, job')
  BY <1>9
<1>12. \A a : Past(a, job', runs') => Spent(a, wire'[Owner[a.job]])
  BY <1>10
<1>13. /\ kind' = kind /\ now \in Nat /\ now' \in Nat /\ now' >= now
       /\ lock' = {h \in lock : h.until > now'} \/ (lock' = lock /\ now' = now)
  BY <1>0, <1>1
<1>. QED BY ONLY Slotted, <1>8, <1>11, <1>12, <1>13, SlottedStays

(* What a step of registration j does, as far as claims are concerned.        *)
Slots(r, j, p, w, k, x, y, u, v) ==
  /\ r \in Replicas /\ j \in Jobs /\ Owner[j] = r /\ x = job[j] /\ u = wire[r]
  /\ x \in Registrations /\ y \in Registrations /\ (~y.used => y = Unused) /\ (x = Lost => y = Lost)
  /\ job \in [Jobs -> Registrations] /\ wire \in [Replicas -> Seq(Commands)]
  /\ job' = [job EXCEPT ![j] = y] /\ wire' = [wire EXCEPT ![r] = v]
  /\ WireOk(r, u, job, registry[r]) /\ Leftover(r, u, p, w) /\ Grows(r, j, y, w, v)
  /\ (p # 0 => u[p].job = j /\ p \in 1..Len(u)) /\ k \in 0..Len(x.fires)
  /\ Tame(x, y, k) /\ RunsGo(j, k, x) /\ Sends(j, w, v) /\ Answers(v, j, y, registry'[r])
  /\ (y # Lost /\ k # 0 =>
        /\ y.fires[k].stage # "armed"
        /\ y.fires[k].stage = "mutex" /\ kind = "every" =>
             /\ p # 0 /\ u[p].for = "slot" /\ u[p].n = k /\ u[p].until > 0
             /\ y.fires[k].due = u[p].slot /\ y.fires[k].since = u[p].until - Ttl
             /\ \A i \in 1..Len(w) : Stays(u, p, w[i]))

LEMMA ActedIs ==
  ASSUME Base, Acted
  PROVE  \E r, j, p, w, k, x, y, u, v : Slots(r, j, p, w, k, x, y, u, v)
<1>1. PICK r \in Replicas, j \in Jobs : \E p, w, k, y, v : Owner[j] = r /\ Acts(r, j, p, w, k, y, v)
  BY DEF Acted
<1>2. PICK p, w, k, y, v : Acts(r, j, p, w, k, y, v)
  BY <1>1
<1>r. Owner[j] = r
  BY <1>1
<1>x. PICK x : x = job[j]
  OBVIOUS
<1>u. PICK u : u = wire[r]
  OBVIOUS
<1>3. /\ Moved(r, j, p, w, y, v) /\ Tame(x, y, k) /\ FireGoes(r, p, w, x, y, k) /\ RunsGo(j, k, x)
      /\ k \in 0..Len(x.fires) /\ JobAt(j, y, registry'[r], connected', named') /\ Sends(j, w, v)
      /\ (x = Lost => y = Lost)
  BY <1>2, <1>x DEF Acts
<1>4. /\ job' = [job EXCEPT ![j] = y] /\ wire' = [wire EXCEPT ![r] = v]
      /\ (p # 0 => u[p].job = j) /\ p \in 0..Len(u) /\ Leftover(r, u, p, w) /\ Grows(r, j, y, w, v)
      /\ Answers(v, j, y, registry'[r])
  BY <1>3, <1>u DEF Moved
<1>5. /\ job \in [Jobs -> Registrations] /\ x \in Registrations /\ y \in Registrations
      /\ WireOk(r, u, job, registry[r]) /\ wire \in [Replicas -> Seq(Commands)] /\ Len(u) \in Nat
      /\ (~y.used => y = Unused)
  BY <1>3, <1>x, <1>u DEF Base, Wires, JobAt, JobOk, Formed, WireOk
<1>6. p # 0 => u[p].job = j /\ p \in 1..Len(u)
  BY <1>4, <1>5
<1>7. y # Lost /\ k # 0 =>
        /\ y.fires[k].stage # "armed"
        /\ y.fires[k].stage = "mutex" /\ kind = "every" =>
             /\ p # 0 /\ u[p].for = "slot" /\ u[p].n = k /\ u[p].until > 0
             /\ y.fires[k].due = u[p].slot /\ y.fires[k].since = u[p].until - Ttl
             /\ \A i \in 1..Len(w) : Stays(u, p, w[i])
  BY <1>3, <1>u DEF FireGoes
<1>8. Slots(r, j, p, w, k, x, y, u, v)
  BY <1>r, <1>x, <1>u, <1>3, <1>4, <1>5, <1>6, <1>7 DEF Slots
<1>. QED BY <1>8

(* A fire of y is the moved one, or as it was in x but for an armed one.       *)
LEMMA FireWas ==
  ASSUME NEW r, NEW j, NEW p, NEW w, NEW k, NEW x, NEW y, NEW u, NEW v,
         Slots(r, j, p, w, k, x, y, u, v), y # Lost
  PROVE  /\ Len(x.fires) \in Nat /\ Len(y.fires) \in Nat /\ Len(x.fires) <= Len(y.fires)
         /\ \A m \in 1..Len(x.fires) : m # k => Kept(x.fires[m], y.fires[m])
         /\ \A m \in 1..Len(y.fires) : m \notin 1..Len(x.fires) =>
               y.fires[m].stage \in {"armed", "over"}
<1>1. x \in Registrations /\ y \in Registrations /\ Tame(x, y, k)
  BY DEF Slots
<1>2. /\ Len(x.fires) \in Nat /\ Len(y.fires) \in Nat /\ Len(x.fires) <= Len(y.fires)
      /\ \A m \in 1..Len(x.fires) : m # k => Kept(x.fires[m], y.fires[m])
      /\ \A m \in (Len(x.fires) + 1)..Len(y.fires) : y.fires[m].stage \in {"armed", "over"}
  BY <1>1, FiresAre DEF Tame
<1>3. \A m \in 1..Len(y.fires) : m \notin 1..Len(x.fires) => m \in (Len(x.fires) + 1)..Len(y.fires)
  BY <1>2
<1>. QED BY <1>2, <1>3

LEMMA FitsStays ==
  ASSUME NEW r, NEW j, NEW p, NEW w, NEW k, NEW x, NEW y, NEW u, NEW v,
         Slots(r, j, p, w, k, x, y, u, v), NEW a, Fits(a, job)
  PROVE  Fits(a, job')
<1>0. /\ job' = [job EXCEPT ![j] = y] /\ job \in [Jobs -> Registrations] /\ j \in Jobs /\ x = job[j]
      /\ (~y.used => y = Unused) /\ (x = Lost => y = Lost) /\ k \in 0..Len(x.fires)
      /\ (y # Lost /\ k # 0 => y.fires[k].stage # "armed")
  BY DEF Slots
<1>1. CASE a.job # j
  <2>1. a.job \in Jobs /\ job'[a.job] = job[a.job]
    BY <1>0, <1>1 DEF Fits
  <2>. QED BY <2>1 DEF Fits
<1>2. CASE a.job = j /\ y = Lost
  <2>1. job'[a.job] = Lost /\ a.job \in Jobs
    BY <1>0, <1>2
  <2>. QED BY <2>1, LostIs DEF Fits
<1>3. CASE a.job = j /\ y # Lost
  <2>m. PICK m : m = a.fire
    OBVIOUS
  <2>1. m \in 1..Len(x.fires) /\ x.fires[m].stage # "armed" /\ job'[a.job] = y
    BY <1>0, <1>3, <2>m DEF Fits
  <2>2. /\ Len(x.fires) \in Nat /\ Len(y.fires) \in Nat /\ Len(x.fires) <= Len(y.fires)
        /\ \A i \in 1..Len(x.fires) : i # k => Kept(x.fires[i], y.fires[i])
    BY <1>3, FireWas
  <2>3. m \in 1..Len(y.fires)
    BY <2>1, <2>2
  <2>4. y.fires[m].stage # "armed"
    <3>1. CASE m = k
      BY <3>1, <2>1, <1>0, <1>3
    <3>2. CASE m # k
      BY <3>2, <2>1, <2>2 DEF Kept
    <3>. QED BY <3>1, <3>2
  <2>5. y.used
    BY <2>2, <2>3, <1>0, LostIs
  <2>. QED BY <2>1, <2>3, <2>4, <2>5, <2>m, <1>0, <1>3 DEF Fits
<1>. QED BY <1>1, <1>2, <1>3

(* The fire that comes to the mutex has its grant from the answer.            *)
LEMMA EntersIs ==
  ASSUME NEW r, NEW j, NEW p, NEW w, NEW k, NEW x, NEW y, NEW u, NEW v,
         Slots(r, j, p, w, k, x, y, u, v), kind = "every", NEW a, Enters(job', a)
  PROVE  \/ Enters(job, a)
         \/ /\ p # 0 /\ Grant(u[p], a) /\ a.job = j /\ a.fire = k /\ k \in 1..Len(x.fires)
            /\ y # Lost /\ y.fires[k].stage = "mutex" /\ \A i \in 1..Len(w) : Stays(u, p, w[i])
<1>0. /\ job' = [job EXCEPT ![j] = y] /\ job \in [Jobs -> Registrations] /\ j \in Jobs /\ x = job[j]
      /\ k \in 0..Len(x.fires) /\ (p # 0 => u[p].job = j)
      /\ (y # Lost /\ k # 0 /\ y.fires[k].stage = "mutex" =>
             /\ p # 0 /\ u[p].for = "slot" /\ u[p].n = k /\ u[p].until > 0
             /\ y.fires[k].due = u[p].slot /\ y.fires[k].since = u[p].until - Ttl
             /\ \A i \in 1..Len(w) : Stays(u, p, w[i]))
  BY DEF Slots
<1>1. PICK i \in Jobs : \E m \in 1..Len(job'[i].fires) :
        /\ job'[i].fires[m].stage = "mutex"
        /\ a = Claim(job'[i].fires[m].due, job'[i].fires[m].since, i, m)
  BY DEF Enters
<1>2. PICK m \in 1..Len(job'[i].fires) :
        /\ job'[i].fires[m].stage = "mutex"
        /\ a = Claim(job'[i].fires[m].due, job'[i].fires[m].since, i, m)
  BY <1>1
<1>3. CASE i # j
  <2>1. job'[i] = job[i]
    BY <1>0, <1>3
  <2>. QED BY <1>2, <2>1 DEF Enters
<1>4. CASE i = j
  <2>1. job'[i] = y /\ y # Lost
    <3>1. job'[i] = y
      BY <1>0, <1>4
    <3>. QED BY <3>1, <1>2, LostIs
  <2>f. PICK g : g = y.fires[m]
    OBVIOUS
  <2>2. m \in 1..Len(y.fires) /\ g.stage = "mutex" /\ a = Claim(g.due, g.since, j, m)
    BY <1>2, <1>4, <2>1, <2>f
  <2>3. /\ \A l \in 1..Len(x.fires) : l # k => Kept(x.fires[l], y.fires[l])
        /\ \A l \in 1..Len(y.fires) : l \notin 1..Len(x.fires) => y.fires[l].stage \in {"armed", "over"}
    BY <2>1, FireWas
  <2>4. m \in 1..Len(x.fires)
    BY <2>2, <2>3, <2>f
  <2>5. CASE m # k
    <3>1. Kept(x.fires[m], g)
      BY <2>3, <2>4, <2>5, <2>f
    <3>2. /\ x.fires[m].stage = "mutex" /\ a = Claim(x.fires[m].due, x.fires[m].since, j, m)
      BY <3>1, <2>2 DEF Kept
    <3>. QED BY <3>2, <2>4, <1>0 DEF Enters
  <2>6. CASE m = k
    <3>1. k # 0 /\ k \in 1..Len(x.fires)
      BY <2>4, <2>6
    <3>2. /\ p # 0 /\ u[p].for = "slot" /\ u[p].n = k /\ u[p].until > 0
          /\ g.due = u[p].slot /\ g.since = u[p].until - Ttl /\ u[p].job = j
          /\ \A l \in 1..Len(w) : Stays(u, p, w[l])
      BY <3>1, <2>1, <2>2, <2>6, <2>f, <1>0
    <3>3. Grant(u[p], a)
      BY <3>2, <2>2, <2>6 DEF Grant
    <3>4. a.job = j /\ a.fire = k
      BY <2>2, <2>6 DEF Claim
    <3>. QED BY <3>1, <3>2, <3>3, <3>4, <2>1, <2>2, <2>6, <2>f
  <2>. QED BY <2>5, <2>6
<1>. QED BY <1>3, <1>4

(* What is on the wire after the step was there before, but for the token of   *)
(* the command that was answered, and for what is sent.                       *)
LEMMA WireWas ==
  ASSUME NEW r, NEW j, NEW p, NEW w, NEW k, NEW x, NEW y, NEW u, NEW v,
         Slots(r, j, p, w, k, x, y, u, v), NEW i \in 1..Len(v)
  PROVE  \/ /\ i \in 1..Len(w) /\ v[i] = w[i]
            /\ Stays(u, p, v[i]) \/ (p # 0 /\ Ghost(u[p], v[i]))
         \/ \E c : /\ v[i] = c /\ Joins(r, j, y, w, c) /\ v = Append(w, c)
                   /\ c.key = "slot" =>
                       \/ c.n \in 1..Len(x.fires) /\ x.fires[c.n].stage = "armed"
                       \/ \E m \in 1..Len(u) : SameToken(u[m], c)
<1>0. /\ Leftover(r, u, p, w) /\ Grows(r, j, y, w, v) /\ Sends(j, w, v)
      /\ x = job[j] /\ u = wire[r] /\ Owner[j] = r
  BY DEF Slots
<1>1. /\ w \in Seq(Commands) /\ Len(w) \in Nat
      /\ \A l \in 1..Len(w) : Stays(u, p, w[l]) \/ (p # 0 /\ Ghost(u[p], w[l]))
  BY <1>0 DEF Leftover
<1>2. CASE v = w
  BY <1>1, <1>2
<1>3. CASE v # w
  <2>1. PICK c : Joins(r, j, y, w, c) /\ v = Append(w, c)
    BY <1>0, <1>3 DEF Grows
  <2>2. PICK d : /\ v = Append(w, d)
                 /\ d.key = "slot" =>
                      \/ d.n \in 1..Len(x.fires) /\ x.fires[d.n].stage = "armed"
                      \/ \E m \in 1..Len(u) : SameToken(u[m], d)
    BY <1>0, <1>3 DEF Sends
  <2>3. c \in Commands
    BY <2>1 DEF Joins, CmdForm
  <2>4. /\ Len(v) = Len(w) + 1 /\ v[Len(w) + 1] = c /\ \A l \in 1..Len(w) : v[l] = w[l]
    <3>1. /\ Len(Append(w, c)) = Len(w) + 1 /\ Append(w, c)[Len(w) + 1] = c
          /\ \A l \in 1..Len(w) : Append(w, c)[l] = w[l]
      BY <1>1, <2>3, AppendDoes
    <3>. QED BY <2>1, <3>1
  <2>5. d = c
    <3>1. Append(w, d)[Len(w) + 1] = d
      BY <1>1
    <3>. QED BY <3>1, <2>2, <2>4
  <2>6. CASE i \in 1..Len(w)
    BY <2>6, <2>4, <1>1
  <2>7. CASE i \notin 1..Len(w)
    <3>1. i = Len(w) + 1
      BY <2>7, <2>4, <1>1
    <3>. QED BY <3>1, <2>1, <2>2, <2>4, <2>5
  <2>. QED BY <2>6, <2>7
<1>. QED BY <1>2, <1>3

(* A step of a registration grants nothing, and runs only what was claimed.*)
LEMMA GrantsWere ==
  ASSUME NEW r, NEW j, NEW p, NEW w, NEW k, NEW x, NEW y, NEW u, NEW v,
         Slots(r, j, p, w, k, x, y, u, v), NEW a, Grants(wire', a)
  PROVE  Grants(wire, a)
<1>0. /\ wire' = [wire EXCEPT ![r] = v] /\ wire \in [Replicas -> Seq(Commands)] /\ u = wire[r]
      /\ r \in Replicas
  BY DEF Slots
<1>1. PICK q \in Replicas : \E i \in 1..Len(wire'[q]) : Grant(wire'[q][i], a)
  BY DEF Grants
<1>2. CASE q # r
  <2>1. wire'[q] = wire[q]
    BY <1>0, <1>2
  <2>. QED BY <1>1, <2>1 DEF Grants
<1>3. CASE q = r
  <2>1. PICK i \in 1..Len(v) : Grant(v[i], a)
    BY <1>0, <1>1, <1>3
  <2>2. v[i].for = "slot" /\ v[i].until > 0
    BY <2>1 DEF Grant
  <2>3. \/ Stays(u, p, v[i]) \/ (p # 0 /\ Ghost(u[p], v[i]))
        \/ \E c : v[i] = c /\ Joins(r, j, y, w, c)
    BY WireWas
  <2>4. Stays(u, p, v[i])
    BY <2>2, <2>3 DEF Ghost, Joins, CmdForm
  <2>5. PICK m \in 1..Len(u) : v[i] = u[m]
    BY <2>4 DEF Stays
  <2>. QED BY <2>1, <2>5, <1>0 DEF Grants
<1>. QED BY <1>2, <1>3

LEMMA PastWas ==
  ASSUME NEW r, NEW j, NEW p, NEW w, NEW k, NEW x, NEW y, NEW u, NEW v,
         Slots(r, j, p, w, k, x, y, u, v), NEW a, Past(a, job', runs')
  PROVE  \/ Past(a, job, runs)
         \/ /\ p # 0 /\ Grant(u[p], a) /\ a.job = j /\ a.fire = k /\ k \in 1..Len(x.fires)
            /\ y # Lost /\ y.fires[k].stage = "mutex" /\ \A i \in 1..Len(w) : Stays(u, p, w[i])
<1>0. RunsGo(j, k, x) /\ x = job[j] /\ j \in Jobs
  BY DEF Slots
<1>1. CASE a \in runs'
  <2>1. CASE runs' = runs
    BY <1>1, <2>1 DEF Past
  <2>2. CASE /\ kind = "every" /\ k \in 1..Len(x.fires) /\ x.fires[k].stage = "mutex"
             /\ runs' = runs \union {Claim(x.fires[k].due, x.fires[k].since, j, k)}
    <3>1. a \in runs \/ a = Claim(x.fires[k].due, x.fires[k].since, j, k)
      BY <1>1, <2>2
    <3>2. a = Claim(x.fires[k].due, x.fires[k].since, j, k) => Enters(job, a)
      BY <1>0, <2>2 DEF Enters
    <3>. QED BY <2>2, <3>1, <3>2 DEF Past
  <2>. QED BY <2>1, <2>2, <1>0 DEF RunsGo
<1>2. CASE kind = "every" /\ Enters(job', a)
  <2>1. Enters(job, a) => Past(a, job, runs)
    BY <1>2 DEF Past
  <2>. QED BY <1>2, <2>1, EntersIs
<1>. QED BY <1>1, <1>2 DEF Past

(* A slot that was spent stays so, and one that is being spent has no other     *)
(* command on the wire.                                                        *)
LEMMA SpentStays ==
  ASSUME NEW r, NEW j, NEW p, NEW w, NEW k, NEW x, NEW y, NEW u, NEW v,
         Slots(r, j, p, w, k, x, y, u, v), NEW a, Spent(a, u), Fits(a, job)
  PROVE  Spent(a, v)
<1>0. x = job[j] /\ (p # 0 => p \in 1..Len(u))
  BY DEF Slots
<1> SUFFICES ASSUME NEW i \in 1..Len(v), v[i].key = "slot", v[i].job = a.job, v[i].n = a.fire
             PROVE  FALSE
  BY DEF Spent
<1>1. ~\E m \in 1..Len(u) : SameToken(u[m], v[i])
  BY DEF Spent, SameToken
<1>2. CASE Stays(u, p, v[i]) \/ (p # 0 /\ Ghost(u[p], v[i]))
  BY <1>0, <1>1, <1>2 DEF Stays, Ghost, SameToken
<1>3. CASE \E c : /\ v[i] = c /\ Joins(r, j, y, w, c) /\ v = Append(w, c)
                  /\ c.key = "slot" =>
                      \/ c.n \in 1..Len(x.fires) /\ x.fires[c.n].stage = "armed"
                      \/ \E m \in 1..Len(u) : SameToken(u[m], c)
  <2>1. /\ v[i].job = j /\ v[i].n \in 1..Len(x.fires) /\ x.fires[v[i].n].stage = "armed"
    BY <1>1, <1>3 DEF Joins
  <2>2. a.job = j /\ a.fire \in 1..Len(x.fires) /\ x.fires[a.fire].stage = "armed"
    BY <2>1
  <2>3. x # Lost
    BY <2>2, LostIs
  <2>. QED BY <2>2, <2>3, <1>0 DEF Fits
<1>. QED BY <1>2, <1>3, WireWas

LEMMA SpentNow ==
  ASSUME NEW r, NEW j, NEW p, NEW w, NEW k, NEW x, NEW y, NEW u, NEW v,
         Slots(r, j, p, w, k, x, y, u, v), NEW a,
         p # 0, Grant(u[p], a), a.job = j, a.fire = k, k \in 1..Len(x.fires),
         y # Lost, y.fires[k].stage = "mutex", \A i \in 1..Len(w) : Stays(u, p, w[i])
  PROVE  Spent(a, v)
<1>0. /\ WireOk(r, u, job, registry[r]) /\ p \in 1..Len(u) /\ x = job[j] /\ u[p].job = j
      /\ Answers(v, j, y, registry'[r]) /\ x \in Registrations /\ y \in Registrations
  BY DEF Slots
<1>c. PICK c : c = u[p]
  OBVIOUS
<1>1. c.for = "slot" /\ c.job = j /\ c.n = k
  BY <1>0, <1>c DEF Grant, Claim
<1>2. CmdForm(r, c) /\ CmdFits(x, c) /\ Sole(u)
  BY <1>0, <1>c DEF WireOk
<1>3. c.key = "slot" /\ x.fires[k].stage = "slot"
  BY <1>1, <1>2 DEF CmdForm, CmdFits
<1>4. ASSUME NEW m \in 1..Len(u), SameToken(c, u[m])
      PROVE  m = p
  BY <1>0, <1>1, <1>2, <1>4, <1>c DEF Sole, Waiting
<1>5. k \in 1..Len(y.fires)
  <2>1. Len(x.fires) \in Nat /\ Len(y.fires) \in Nat /\ Len(x.fires) <= Len(y.fires)
    BY FireWas
  <2>. QED BY <2>1
<1>6. Asked(v, j, k, "mutex")
  BY <1>0, <1>5 DEF Answers
<1>7. PICK l \in 1..Len(v) : v[l].job = j /\ v[l].n = k /\ v[l].for = "mutex"
  BY <1>6 DEF Asked
<1>8. ~Stays(u, p, v[l])
  <2>1. ASSUME NEW m \in 1..Len(u), v[l] = u[m]
        PROVE  FALSE
    <3>1. CmdForm(r, u[m]) /\ CmdFits(x, u[m]) /\ u[m].for = "mutex" /\ u[m].n = k
      BY <2>1, <1>0, <1>7 DEF WireOk
    <3>2. x # Lost
      BY LostIs
    <3>. QED BY <3>1, <3>2, <1>3 DEF CmdFits, CmdForm
  <2>. QED BY <2>1 DEF Stays
<1>9. \A i \in 1..Len(v) : (i \in 1..Len(w) /\ v[i] = w[i]) \/ v[i].for = "mutex"
  <2>1. PICK d : v[l] = d /\ v = Append(w, d) /\ Joins(r, j, y, w, d)
    <3>1. ~(l \in 1..Len(w) /\ v[l] = w[l])
      BY <1>8
    <3>. QED BY <3>1, WireWas
  <2>2. w \in Seq(Commands) /\ d \in Commands
    BY <2>1 DEF Slots, Leftover, Joins, CmdForm
  <2>3. Len(v) = Len(w) + 1 /\ v[Len(w) + 1] = d /\ Len(w) \in Nat /\ \A i \in 1..Len(w) : v[i] = w[i]
    <3>1. /\ Len(Append(w, d)) = Len(w) + 1 /\ Append(w, d)[Len(w) + 1] = d
          /\ \A i \in 1..Len(w) : Append(w, d)[i] = w[i]
      BY <2>2, AppendDoes
    <3>. QED BY <2>1, <2>2, <3>1
  <2>4. \A i \in 1..Len(v) : i \in 1..Len(w) \/ i = Len(w) + 1
    BY <2>3
  <2>. QED BY <2>1, <2>3, <2>4, <1>7
<1> SUFFICES ASSUME NEW i \in 1..Len(v), v[i].key = "slot", v[i].job = a.job, v[i].n = a.fire
             PROVE  FALSE
  BY DEF Spent
<1>10. CASE i \in 1..Len(w) /\ v[i] = w[i]
  <2>1. PICK m \in 1..Len(u) : m # p /\ v[i] = u[m]
    BY <1>10 DEF Stays
  <2>2. SameToken(c, u[m])
    BY <2>1, <1>1, <1>3 DEF SameToken
  <2>. QED BY <2>1, <2>2, <1>4
<1>11. CASE v[i].for = "mutex"
  <2>1. \/ Stays(u, p, v[i]) \/ (p # 0 /\ Ghost(u[p], v[i]))
        \/ \E d : v[i] = d /\ Joins(r, j, y, w, d)
    BY WireWas
  <2>2. CASE Stays(u, p, v[i])
    <3>1. CmdForm(r, v[i])
      BY <2>2, <1>0 DEF Stays, WireOk
    <3>. QED BY <3>1, <1>11 DEF CmdForm
  <2>3. CASE p # 0 /\ Ghost(u[p], v[i])
    BY <2>3, <1>11 DEF Ghost
  <2>4. CASE \E d : v[i] = d /\ Joins(r, j, y, w, d)
    BY <2>4, <1>11 DEF Joins, CmdForm
  <2>. QED BY <2>1, <2>2, <2>3, <2>4
<1>. QED BY <1>9, <1>10, <1>11

(* A step of a registration makes no claim, and spends the one it takes up.*)
LEMMA ActedSlots ==
  ASSUME Base, Slotted, Acted, Steady
  PROVE  Slotted'
<1>1. PICK r, j, p, w, k, x, y, u, v : Slots(r, j, p, w, k, x, y, u, v)
  BY ActedIs
<1>2. ASSUME NEW a, Claims(a, job', wire', runs')
      PROVE  Claims(a, job, wire, runs)
  <2>1. CASE Grants(wire', a)
    <3>1. Grants(wire, a)
      BY <1>1, <2>1, GrantsWere
    <3>. QED BY <3>1 DEF Claims
  <2>2. CASE Past(a, job', runs')
    <3>1. Past(a, job, runs) \/ (p # 0 /\ Grant(u[p], a))
      BY <1>1, <2>2, PastWas
    <3>2. CASE p # 0 /\ Grant(u[p], a)
      <4>1. r \in Replicas /\ p \in 1..Len(u) /\ u = wire[r]
        BY <1>1, <3>2 DEF Slots
      <4>2. Grants(wire, a)
        BY <3>2, <4>1 DEF Grants
      <4>. QED BY <4>2 DEF Claims
    <3>. QED BY <3>1, <3>2 DEF Claims
  <2>. QED BY <1>2, <2>1, <2>2 DEF Claims
<1>3. ASSUME NEW a, Fits(a, job)
      PROVE  Fits(a, job')
  BY <1>1, <1>3, FitsStays
<1>4. ASSUME NEW a, Past(a, job', runs')
      PROVE  Spent(a, wire'[Owner[a.job]])
  <2>q. PICK q : q = Owner[a.job]
    OBVIOUS
  <2>0. /\ wire' = [wire EXCEPT ![r] = v] /\ wire \in [Replicas -> Seq(Commands)] /\ u = wire[r]
        /\ r \in Replicas /\ Owner[j] = r
    BY <1>1 DEF Slots
  <2>1. CASE Past(a, job, runs)
    <3>1. Claims(a, job, wire, runs)
      BY <2>1 DEF Claims
    <3>2. Spent(a, wire[q]) /\ Fits(a, job)
      BY <2>1, <2>q, <3>1 DEF Slotted
    <3>3. q \in Replicas
      BY <3>2, <2>q, JobsAssumption DEF Fits
    <3>4. CASE q = r
      <4>1. Spent(a, u)
        BY <3>2, <3>4, <2>0
      <4>2. Spent(a, v)
        BY <4>1, <3>2, <1>1, SpentStays
      <4>. QED BY <4>2, <3>4, <2>0, <2>q
    <3>5. CASE q # r
      <4>1. wire'[q] = wire[q]
        BY <2>0, <3>3, <3>5
      <4>. QED BY <4>1, <3>2, <2>q
    <3>. QED BY <3>4, <3>5
  <2>2. CASE /\ p # 0 /\ Grant(u[p], a) /\ a.job = j /\ a.fire = k /\ k \in 1..Len(x.fires)
             /\ y # Lost /\ y.fires[k].stage = "mutex" /\ \A i \in 1..Len(w) : Stays(u, p, w[i])
    <3>1. Spent(a, v)
      BY <2>2, <1>1, SpentNow
    <3>. QED BY <3>1, <2>0, <2>2
  <2>. QED BY <2>1, <2>2, <1>1, <1>4, PastWas
<1>5. /\ kind' = kind /\ now \in Nat /\ now' \in Nat /\ now' >= now
      /\ lock' = {h \in lock : h.until > now'} \/ (lock' = lock /\ now' = now)
  BY DEF Steady, Base
<1>6. \A a : Claims(a, job', wire', runs') => Claims(a, job, wire, runs)
  BY <1>2
<1>7. \A a : Claims(a, job, wire, runs) /\ Fits(a, job) => Fits(a, job')
  BY <1>3
<1>8. \A a : Past(a, job', runs') => Spent(a, wire'[Owner[a.job]])
  BY <1>4
<1>. QED BY ONLY Slotted, <1>5, <1>6, <1>7, <1>8, SlottedStays

(* The grant of a slot that is free.                                         *)
Opens(c, a) == c.for = "slot" /\ Frees(c) /\ a = Claim(c.slot, now, c.job, c.n)

LEMMA ExecuteGrants ==
  ASSUME Base, NEW r, NEW u, NEW p, NEW v, NEW c, Doing(r, u, p, v, c), NEW a, Grants(wire', a)
  PROVE  Grants(wire, a) \/ Opens(c, a)
<1>0. r \in Replicas /\ u = wire[r] /\ wire' = [wire EXCEPT ![r] = v] /\ wire \in [Replicas -> Seq(Commands)]
      /\ c \in Commands /\ CmdForm(r, c) /\ now \in Nat
  <2>1. Carried(r, u, p, c)
    BY ExecutesDoes
  <2>. QED BY <2>1 DEF Doing, Executes, Base, Wires, Carried
<1>1. PICK q \in Replicas : \E i \in 1..Len(wire'[q]) : Grant(wire'[q][i], a)
  BY DEF Grants
<1>2. CASE q # r
  <2>1. wire'[q] = wire[q]
    BY <1>0, <1>2
  <2>. QED BY <1>1, <2>1 DEF Grants
<1>3. CASE q = r
  <2>1. PICK i \in 1..Len(v) : Grant(v[i], a)
    BY <1>0, <1>1, <1>3
  <2>2. CASE \E m \in 1..Len(u) : m # p /\ v[i] = u[m]
    BY <2>1, <2>2, <1>0 DEF Grants
  <2>3. CASE /\ Likewise(c, v[i]) /\ v[i].until = IF Frees(c) THEN now + Lease(c) ELSE 0
    <3>d. PICK d : d = v[i]
      OBVIOUS
    <3>1. d.for = "slot" /\ d.until > 0 /\ a = Claim(d.slot, d.until - Ttl, d.job, d.n)
      BY <2>1, <3>d DEF Grant
    <3>2. c.for = "slot" /\ c.slot = d.slot /\ c.job = d.job /\ c.n = d.n
      BY <2>3, <3>1, <3>d DEF Likewise
    <3>3. Frees(c) /\ d.until = now + Lease(c)
      BY <2>3, <3>1, <3>d
    <3>4. Lease(c) = Ttl
      BY <1>0, <3>2 DEF CmdForm, Lease
    <3>5. d.until - Ttl = now
      BY <3>3, <3>4, <1>0, TimeAssumption
    <3>. QED BY <3>1, <3>2, <3>3, <3>5 DEF Opens
  <2>. QED BY <2>2, <2>3, ExecutedWire
<1>. QED BY <1>2, <1>3

LEMMA OpensIs ==
  ASSUME Base, NEW r, NEW u, NEW p, NEW v, NEW c, Doing(r, u, p, v, c), NEW a, Opens(c, a)
  PROVE  /\ Reserved(a)' /\ Fits(a, job') /\ a.since = now
         /\ \A b : Reserved(b) /\ b.slot = a.slot => b.since + Ttl <= now
<1>1. Carried(r, u, p, c)
  BY ExecutesDoes
<1>2. /\ CmdForm(r, c) /\ c \in Commands /\ CmdFits(job[c.job], c) /\ c.job \in Jobs /\ now \in Nat
      /\ (c.op = "set" /\ Frees(c) =>
            lock' = {h \in lock : Key(h) # Key(c)} \union
                      {Lock(c.key, c.slot, c.job, c.n, now + Lease(c))})
      /\ job' = job /\ now' = now
  BY <1>1 DEF Carried
<1>3. c.for = "slot" /\ Frees(c) /\ a = Claim(c.slot, now, c.job, c.n)
  BY DEF Opens
<1>4. /\ a.slot = c.slot /\ a.since = now /\ a.job = c.job /\ a.fire = c.n
      /\ c.op = "set" /\ c.key = "slot" /\ Lease(c) = Ttl
  BY <1>2, <1>3 DEF Claim, CmdForm, Lease, Frees
<1>5. Lock("slot", a.slot, a.job, a.fire, a.since + Ttl) \in lock'
  BY <1>2, <1>3, <1>4
<1>6. Reserved(a)'
  BY <1>2, <1>4, <1>5, CommandIs DEF Reserved, Held
<1>7. Fits(a, job')
  BY <1>2, <1>3, <1>4 DEF Fits, CmdFits
<1>8. ASSUME NEW b, Reserved(b), b.slot = a.slot
      PROVE  b.since + Ttl <= now
  <2>t. PICK t : t = b.since + Ttl
    OBVIOUS
  <2>1. t \in Nat /\ Held("slot", b.slot, b.job, b.fire, t)
    BY <1>8, <2>t, TimeAssumption DEF Reserved
  <2>h. PICK h : h = Lock("slot", b.slot, b.job, b.fire, t)
    OBVIOUS
  <2>2. Key(h) = Key(c) /\ h.until = t
    BY <2>h, <1>4, <1>8, LockIs DEF Key
  <2>3. h \in lock => t <= now
    BY <1>3, <2>2 DEF Frees
  <2>4. t > now => h \in lock
    BY <2>1, <2>h DEF Held
  <2>. QED BY <2>1, <2>3, <2>4, <2>t, <1>2
<1>. QED BY <1>4, <1>6, <1>7, <1>8

(* No delete on the wire has the token of a claim.                           *)
LEMMA NoneDeletes ==
  ASSUME Base, Slotted, NEW r, NEW u, NEW p, NEW v, NEW c, Doing(r, u, p, v, c), NEW a,
         Claims(a, job, wire, runs), c.op = "del"
  PROVE  ~(c.key = "slot" /\ c.job = a.job /\ c.n = a.fire)
<1>1. Carried(r, u, p, c)
  BY ExecutesDoes
<1>2. /\ CmdForm(r, c) /\ p \in 1..Len(u) /\ r \in Replicas /\ u = wire[r] /\ c = u[p] /\ Owner[c.job] = r
      /\ c.job \in Jobs
  BY <1>1 DEF Carried, Doing, CmdForm
<1> SUFFICES ASSUME c.key = "slot", c.job = a.job, c.n = a.fire
             PROVE  FALSE
  OBVIOUS
<1>3. CASE Past(a, job, runs)
  <2>1. Spent(a, wire[Owner[a.job]])
    BY <1>3 DEF Slotted
  <2>2. Spent(a, u)
    BY <2>1, <1>2
  <2>. QED BY <2>2, <1>2 DEF Spent
<1>4. CASE Grants(wire, a)
  <2>1. PICK q \in Replicas : \E i \in 1..Len(wire[q]) : Grant(wire[q][i], a)
    BY <1>4 DEF Grants
  <2>2. PICK i \in 1..Len(wire[q]) : Grant(wire[q][i], a)
    BY <2>1
  <2>d. PICK d : d = wire[q][i]
    OBVIOUS
  <2>3. WireOk(q, wire[q], job, registry[q])
    BY DEF Base, Wires
  <2>4. CmdForm(q, d) /\ d.for = "slot" /\ d.job = a.job /\ d.n = a.fire
    BY <2>2, <2>3, <2>d DEF Grant, Claim, WireOk
  <2>5. q = r /\ d.key = "slot"
    BY <2>4, <1>2 DEF CmdForm
  <2>6. SameToken(d, c) /\ Sole(u) /\ d = u[i] /\ i \in 1..Len(u)
    BY <2>3, <2>4, <2>5, <2>d, <1>2 DEF SameToken, WireOk
  <2>7. i = p
    BY <2>4, <2>6, <1>2 DEF Sole, Waiting
  <2>8. c.for = "slot"
    BY <2>4, <2>6, <2>7, <1>2
  <2>. QED BY <2>8, <1>2 DEF CmdForm
<1>. QED BY <1>3, <1>4 DEF Claims

(* So a claim outlasts the command that is executed.                       *)
LEMMA ExecuteReserves ==
  ASSUME Base, Slotted, NEW r, NEW u, NEW p, NEW v, NEW c, Doing(r, u, p, v, c), NEW a,
         Claims(a, job, wire, runs)
  PROVE  Reserved(a)'
<1>1. Carried(r, u, p, c)
  BY ExecutesDoes
<1>2. Reserved(a)
  BY DEF Slotted
<1>3. a.since + Ttl \in Nat
  BY <1>2, TimeAssumption DEF Reserved
<1>4. c.op = "del" => ~(c.key = "slot" /\ c.job = a.job /\ c.n = a.fire)
  BY NoneDeletes
<1>t. PICK t : t = a.since + Ttl
  OBVIOUS
<1>5. Spares(c, "slot", a.slot, a.job, a.fire, t)
  BY <1>2, <1>3, <1>4, <1>t DEF Spares, Reserved
<1>6. Held("slot", a.slot, a.job, a.fire, t)'
  BY ONLY <1>1, <1>5, HeldStays
<1>. QED BY <1>2, <1>6, <1>t DEF Reserved, Held

LEMMA ExecuteSpends ==
  ASSUME Base, NEW r, NEW u, NEW p, NEW v, NEW c, Doing(r, u, p, v, c), NEW a, Spent(a, u)
  PROVE  Spent(a, v)
<1>1. Carried(r, u, p, c) /\ c = u[p]
  BY ExecutesDoes DEF Doing
<1>2. p \in 1..Len(u)
  BY <1>1 DEF Carried
<1>3. ASSUME NEW i \in 1..Len(v)
      PROVE  \E m \in 1..Len(u) : v[i].key = u[m].key /\ v[i].job = u[m].job /\ v[i].n = u[m].n
  <2>1. (\E m \in 1..Len(u) : m # p /\ v[i] = u[m]) \/ Likewise(c, v[i])
    BY ExecutedWire
  <2>. QED BY <2>1, <1>1, <1>2 DEF Likewise
<1>. QED BY <1>3 DEF Spent

(* The one step that makes a claim finds every older one of its slot       *)
(* expired.                                                                *)
LEMMA ExecuteSlots ==
  ASSUME Base, Slotted, NEW r \in Replicas, NEW p, NEW v, Executes(r, wire[r], p, v)
  PROVE  Slotted'
<1>u. PICK u : u = wire[r]
  OBVIOUS
<1>c. PICK c : c = u[p]
  OBVIOUS
<1>0. Doing(r, u, p, v, c)
  BY <1>u, <1>c DEF Doing
<1>1. /\ kind' = kind /\ now' = now /\ job' = job /\ runs' = runs /\ wire' = [wire EXCEPT ![r] = v]
      /\ wire \in [Replicas -> Seq(Commands)] /\ now \in Nat
  BY DEF Executes, Base, Wires
<1>2. ASSUME NEW a, Past(a, job', runs')
      PROVE  Past(a, job, runs)
  BY <1>1, <1>2
<1>3. ASSUME NEW a, Claims(a, job', wire', runs')
      PROVE  Claims(a, job, wire, runs) \/ Opens(c, a)
  <2>1. Grants(wire', a) => Grants(wire, a) \/ Opens(c, a)
    BY <1>0, ExecuteGrants
  <2>. QED BY <2>1, <1>2, <1>3 DEF Claims
<1>4. ASSUME NEW a, Opens(c, a)
      PROVE  /\ Reserved(a)' /\ Fits(a, job') /\ a.since = now
             /\ \A b : Reserved(b) /\ b.slot = a.slot => b.since + Ttl <= now
  BY <1>0, <1>4, OpensIs
<1>5. ASSUME NEW a, NEW b, Claims(a, job', wire', runs'), Claims(b, job', wire', runs'), a.slot = b.slot,
             a # b
      PROVE  Apart(a, b)
  <2>1. CASE Claims(a, job, wire, runs) /\ Claims(b, job, wire, runs)
    BY <2>1, <1>5 DEF Slotted
  <2>2. CASE Claims(a, job, wire, runs) /\ Opens(c, b)
    <3>1. Reserved(a)
      BY <2>2 DEF Slotted
    <3>2. a.since + Ttl <= now /\ b.since = now
      BY <2>2, <3>1, <1>4, <1>5
    <3>. QED BY <3>2 DEF Apart
  <2>3. CASE Claims(b, job, wire, runs) /\ Opens(c, a)
    <3>1. Reserved(b)
      BY <2>3 DEF Slotted
    <3>2. b.since + Ttl <= now /\ a.since = now
      BY <2>3, <3>1, <1>4, <1>5
    <3>. QED BY <3>2 DEF Apart
  <2>4. CASE Opens(c, a) /\ Opens(c, b)
    BY <2>4, <1>5 DEF Opens
  <2>. QED BY <2>1, <2>2, <2>3, <2>4, <1>3, <1>5
<1>6. ASSUME NEW a, Claims(a, job', wire', runs')
      PROVE  Reserved(a)' /\ Fits(a, job')
  <2>1. CASE Claims(a, job, wire, runs)
    <3>1. Reserved(a)'
      BY <2>1, <1>0, ExecuteReserves
    <3>2. Fits(a, job')
      BY <2>1, <1>1 DEF Slotted
    <3>. QED BY <3>1, <3>2
  <2>2. CASE Opens(c, a)
    BY <2>2, <1>4
  <2>. QED BY <2>1, <2>2, <1>3, <1>6
<1>7. ASSUME NEW a, Past(a, job', runs')
      PROVE  Spent(a, wire'[Owner[a.job]])
  <2>q. PICK q : q = Owner[a.job]
    OBVIOUS
  <2>1. Past(a, job, runs)
    BY <1>2, <1>7
  <2>2. Claims(a, job, wire, runs)
    BY <2>1 DEF Claims
  <2>3. Spent(a, wire[q]) /\ Fits(a, job)
    BY <2>1, <2>2, <2>q DEF Slotted
  <2>4. q \in Replicas
    BY <2>3, <2>q, JobsAssumption DEF Fits
  <2>5. CASE q = r
    <3>1. Spent(a, u)
      BY <2>3, <2>5, <1>u
    <3>2. Spent(a, v)
      BY <3>1, <1>0, ExecuteSpends
    <3>. QED BY <3>2, <2>5, <2>q, <1>1
  <2>6. CASE q # r
    <3>1. wire'[q] = wire[q]
      BY <2>4, <2>6, <1>1
    <3>. QED BY <3>1, <2>3, <2>q
  <2>. QED BY <2>5, <2>6
<1>8. /\ \A a, b : Claims(a, job', wire', runs') /\ Claims(b, job', wire', runs') /\ a.slot = b.slot
                   /\ a # b => Apart(a, b)
      /\ \A a : Claims(a, job', wire', runs') => Reserved(a)' /\ Fits(a, job')
      /\ \A a : Past(a, job', runs') => Spent(a, wire'[Owner[a.job]])
  BY <1>5, <1>6, <1>7
<1>9. kind' = kind
  BY <1>1
<1>. QED BY ONLY <1>8, <1>9, SlottedIs

LEMMA SlottedNext ==
  ASSUME Base, Slotted, [Next]_vars
  PROVE  Slotted'
<1>0. now \in Nat
  BY DEF Base
<1>1. CASE Acted /\ Steady
  BY <1>1, ActedSlots
<1>2. ASSUME NEW r \in Replicas, Idle(r)
      PROVE  Slotted'
  <2>1. /\ kind' = kind /\ now' = now /\ lock' = lock /\ job' = job /\ wire' = wire /\ runs' = runs
    BY <1>2 DEF Idle, Connect, Disconnect
  <2>. QED BY <1>0, <2>1, NothingSlots
<1>3. ASSUME NEW r \in Replicas, NEW p, NEW v, Executes(r, wire[r], p, v)
      PROVE  Slotted'
  BY <1>3, ExecuteSlots
<1>4. ASSUME NEW r \in Replicas, NEW n, NEW m, NEW v, Crashes(r, wire[r], n, m, v)
      PROVE  Slotted'
  BY <1>4, CrashSlots
<1>5. CASE Tick
  BY <1>5, TickSlots
<1>6. CASE UNCHANGED vars
  <2>1. /\ kind' = kind /\ now' = now /\ lock' = lock /\ job' = job /\ wire' = wire /\ runs' = runs
    BY <1>6 DEF vars
  <2>. QED BY <1>0, <2>1, NothingSlots
<1>. QED BY <1>1, <1>2, <1>3, <1>4, <1>5, <1>6, StepIs

(* The slots are in order in every reachable state.                        *)
LEMMA SlottedHolds == Spec => [](Base /\ Slotted)
<1>1. Init => Slotted
  BY SlottedInit
<1>2. Base /\ Slotted /\ [Next]_vars => Slotted'
  BY SlottedNext
<1>. QED BY <1>1, <1>2, BaseHolds, PTL DEF Spec

(* Two that hold one lock: one of them has expired.                        *)
LEMMA OneHolder ==
  ASSUME Keyed, NEW key, NEW slot, NEW i, NEW k, NEW s \in Nat, NEW j, NEW m, NEW t \in Nat, now \in Nat,
         Held(key, slot, i, k, s), Held(key, slot, j, m, t), <<i, k>> # <<j, m>>
  PROVE  s <= now \/ t <= now
<1>g. PICK g : g = Lock(key, slot, i, k, s)
  OBVIOUS
<1>h. PICK h : h = Lock(key, slot, j, m, t)
  OBVIOUS
<1>1. Key(g) = Key(h) /\ g.job = i /\ g.n = k /\ h.job = j /\ h.n = m
  BY <1>g, <1>h, LockIs
<1>2. g # h
  BY <1>1
<1>3. (s > now => g \in lock) /\ (t > now => h \in lock)
  BY <1>g, <1>h DEF Held
<1>. QED BY <1>1, <1>2, <1>3 DEF Keyed

LEMMA NotTwiceIs ==
  ASSUME Base, Locked, Slotted
  PROVE  NotTwice
<1>0. Keyed /\ now \in Nat /\ job \in [Jobs -> Registrations]
  BY DEF Locked, Base
<1>1. ASSUME NEW j \in Jobs, NEW k \in DOMAIN job[j].fires, NEW m \in DOMAIN job[j].fires, k # m,
             InFlight(job[j].fires[k]), InFlight(job[j].fires[m])
      PROVE  job[j].rushed
  <2>x. PICK x : x = job[j]
    OBVIOUS
  <2>1. PICK h, on, nm \in BOOLEAN : JobOk(x, h, on, nm)
    BY <2>x DEF Base, JobsOk, JobAt
  <2>2. k \in 1..Len(x.fires) /\ m \in 1..Len(x.fires)
    BY <1>0, <1>1, <2>x, FiresAre
  <2>3. x.fires[k].stage # "over" /\ x.fires[m].stage # "over"
    BY <1>1, <2>x DEF InFlight
  <2>4. ~x.rushed => k = Len(x.fires) /\ m = Len(x.fires)
    BY <2>1, <2>2, <2>3 DEF JobOk, Single, Alone
  <2>. QED BY <1>1, <2>4, <2>x
<1>2. ASSUME NEW i \in Jobs, NEW j \in Jobs, NEW k \in DOMAIN job[i].fires, NEW m \in DOMAIN job[j].fires,
             <<i, k>> # <<j, m>>, Attempting(job[i].fires[k]), Attempting(job[j].fires[m])
      PROVE  job[i].fires[k].until <= now \/ job[j].fires[m].until <= now
  <2>1. ASSUME NEW l \in Jobs, NEW n \in DOMAIN job[l].fires, Attempting(job[l].fires[n])
        PROVE  Held("mutex", 0, l, n, job[l].fires[n].until) /\ job[l].fires[n].until \in Nat
    <3>x. PICK x : x = job[l]
      OBVIOUS
    <3>1. x \in Registrations /\ JobHeld(l, x)
      BY <1>0, <3>x DEF Locked
    <3>2. n \in 1..Len(x.fires) /\ x.fires[n] \in Tries
      BY <2>1, <3>1, <3>x, FiresAre
    <3>3. Held("mutex", 0, l, n, x.fires[n].until) /\ x.fires[n].until \in Nat
      BY <2>1, <3>1, <3>2, <3>x DEF JobHeld, Attempting, Tries, Fires
    <3>. QED BY <3>3, <3>x
  <2>s. PICK s : s = job[i].fires[k].until
    OBVIOUS
  <2>t. PICK t : t = job[j].fires[m].until
    OBVIOUS
  <2>2. Held("mutex", 0, i, k, s) /\ s \in Nat /\ Held("mutex", 0, j, m, t) /\ t \in Nat
    BY <1>2, <2>1, <2>s, <2>t
  <2>3. s <= now \/ t <= now
    BY ONLY <1>0, <1>2, <2>2, OneHolder
  <2>. QED BY <2>3, <2>s, <2>t
<1>3. ASSUME NEW a \in runs, NEW b \in runs, a.slot = b.slot, a # b
      PROVE  a.since + Ttl <= b.since \/ b.since + Ttl <= a.since
  <2>1. Claims(a, job, wire, runs) /\ Claims(b, job, wire, runs)
    BY DEF Claims, Past
  <2>. QED BY <1>3, <2>1 DEF Slotted, Apart
<1>4. ASSUME NEW i \in Jobs, NEW j \in Jobs, i # j, job[i].token # 0, job[j].token # 0
      PROVE  job[i].until <= now \/ job[j].until <= now
  <2>1. ASSUME NEW l \in Jobs, job[l].token # 0
        PROVE  Held("once", 0, l, job[l].token, job[l].until) /\ job[l].until \in Nat
    <3>1. JobHeld(l, job[l]) /\ job[l] \in Registrations
      BY <1>0 DEF Locked
    <3>. QED BY <2>1, <3>1, FiresAre DEF JobHeld
  <2>s. PICK s : s = job[i].until
    OBVIOUS
  <2>t. PICK t : t = job[j].until
    OBVIOUS
  <2>k. PICK k : k = job[i].token
    OBVIOUS
  <2>m. PICK m : m = job[j].token
    OBVIOUS
  <2>2. Held("once", 0, i, k, s) /\ s \in Nat /\ Held("once", 0, j, m, t) /\ t \in Nat
    BY <1>4, <2>1, <2>s, <2>t, <2>k, <2>m
  <2>3. <<i, k>> # <<j, m>>
    BY <1>4
  <2>4. s <= now \/ t <= now
    BY ONLY <1>0, <2>2, <2>3, OneHolder
  <2>. QED BY <2>4, <2>s, <2>t
<1>. QED BY <1>1, <1>2, <1>3, <1>4 DEF NotTwice

(* Fires of a registration do not overlap, a mutex and a name have one     *)
(* holder and a slot one run until the lock expires, whatever the lock's   *)
(* lifetime, the clocks and the faults (NotTwice; scheduler.ts, #fire and  *)
(* #claimDelaySlot).                                                       *)
THEOREM NeverTwice == Spec => []NotTwice
<1>1. Base /\ Locked /\ Slotted => NotTwice
  BY NotTwiceIs
<1>. QED BY <1>1, LockedHolds, SlottedHolds, PTL
=============================================================================
