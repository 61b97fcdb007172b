----------------------- MODULE MemoryIdempotencyProofs -----------------------
(***************************************************************************)
(* The memory store keeps its books, evicts nothing early, blames no dead  *)
(* entry for a refusal, and implements IdempotencyContract, for any number *)
(* of keys, scopes and callers and any limits.                             *)
(***************************************************************************)
EXTENDS MemoryIdempotency, FiniteSetTheorems, TLAPS

(* What the store counts, for given entries. *)
Bytes(entries) == FoldSet(LAMBDA k, n : n + Size(entries[k]), 0, Keys)

Times == 0..MaxTime \cup {Never}
Stores == [entries : [Keys -> Entries],
           keysByScope : [Scopes -> SUBSET Keys],
           scopeOfKey : [Keys -> Scopes \cup {NoScope}],
           lastScopeSweep : [Scopes -> Times],
           lastSweep : Times,
           bytes : Nat]

(* The indexes agree with the entries. *)
Indexed(s) ==
  /\ \A scope \in Scopes : s.keysByScope[scope] = {k \in Held(s) : ScopeOf[k] = scope}
  /\ \A k \in Keys : s.scopeOfKey[k] = IF k \in Held(s) THEN ScopeOf[k] ELSE NoScope
  /\ s.bytes = Bytes(s.entries)

(* A scope that was swept has keys. *)
Swept(s) ==
  \A scope \in Scopes : /\ s.lastScopeSweep[scope] # Never => s.keysByScope[scope] # {}
                        /\ s.lastScopeSweep[scope] <= now

Capped(s) ==
  /\ \A scope \in Scopes : Cardinality(s.keysByScope[scope]) <= MaxPerScope
  /\ Cardinality(Held(s)) <= MaxEntries

Booked(s) == s \in Stores /\ Indexed(s) /\ Swept(s) /\ Capped(s)

(* What a sweep of the scope left had not expired by then. *)
Outlives(s) == \A k \in Held(s) : s.lastScopeSweep[ScopeOf[k]] < s.entries[k].expiresAt

Sound(s) == Booked(s) /\ Outlives(s)

(* An entry is of the request that wrote it, and a claim whose lease ran   *)
(* out is in the history.                                                  *)
Owned ==
  \A k \in Keys :
    LET e == store.entries[k] IN
    /\ e.state = "p" =>
         /\ req[e.token] = [key |-> k, fp |-> e.fp]
         /\ e.leaseUntil <= e.expiresAt
         /\ e.leaseUntil <= now => e.token \in lapsed
    /\ e.state = "c" => req[e.record] = [key |-> k, fp |-> e.fp]

(* While keepUntil of a completion is ahead, the key holds its record. *)
Kept ==
  /\ keepUntil \in [Callers -> Nat]
  /\ \A d \in Callers : keepUntil[d] > now =>
       /\ store.entries[req[d].key].state = "c"
       /\ store.entries[req[d].key].expiresAt = keepUntil[d]

Flow ==
  /\ now \in 0..MaxTime
  /\ req \in [Callers -> Requests]
  /\ pc \in [Callers -> {"new", "running", "answered"}]
  /\ answer \in [Callers -> Answers]
  /\ \A c \in Callers : pc[c] = "answered" <=> answer[c] # "none"
  /\ body \in [Callers -> Callers \cup {NoBody}]
  /\ lapsed \in SUBSET Callers

IInv == Flow /\ Sound(store) /\ Owned /\ Kept
-----------------------------------------------------------------------------
(* Finite sets are built up one element at a time, and so is what a fold   *)
(* computes over them.                                                     *)

LEMMA LeastOf ==
  ASSUME NEW T \in SUBSET Nat, T # {}
  PROVE  \E n \in T : \A m \in T : n <= m
<1>1. PICK n \in T : \A m \in T : ~(<<m, n>> \in OpToRel(<, Nat))
  <2>1. IsWellFoundedOn(OpToRel(<, Nat), Nat)
    BY NatLessThanWellFounded, Zenon
  <2>. QED BY <2>1, WFMin, Zenon
<1>2. \A m \in T : ~(m < n)
  BY <1>1, Zenon DEF OpToRel
<1>. QED BY <1>2

(* Among some subsets of a finite set is one none of whose elements can be *)
(* taken away.                                                             *)
LEMMA SmallestOf ==
  ASSUME NEW D, IsFiniteSet(D), NEW B \in SUBSET SUBSET D, B # {}
  PROVE  \E S \in B : \A x \in S : S \ {x} \notin B
<1> DEFINE sizes == {n \in Nat : \E S \in B : Cardinality(S) = n}
<1>1. \A S \in B : IsFiniteSet(S) /\ Cardinality(S) \in Nat
  BY FS_Subset, FS_CardinalityType
<1>2. PICK n \in sizes : \A m \in sizes : n <= m
  <2>1. sizes \in SUBSET Nat /\ sizes # {}
    BY <1>1
  <2> HIDE DEF sizes
  <2>. QED BY <2>1, LeastOf
<1>3. PICK S \in B : Cardinality(S) = n
  BY <1>2
<1>4. ASSUME NEW x \in S PROVE S \ {x} \notin B
  <2>1. Cardinality(S \ {x}) = n - 1
    BY <1>1, <1>3, FS_RemoveElement
  <2>2. n - 1 \in sizes => n <= n - 1
    BY <1>2
  <2>3. n \in Nat
    BY <1>1, <1>3
  <2>. QED BY <2>1, <2>2, <2>3, <1>1
<1>. QED BY <1>4

(* The element a fold takes next. *)
One(S) == CHOOSE x \in S : TRUE

LEMMA OneOf == ASSUME NEW S, S # {} PROVE One(S) \in S
  BY DEF One

(* A function over the subsets of a finite set can be defined from its     *)
(* value for the set without that element.                                 *)
FoldOf(f, D, X, b, step) ==
  /\ f \in [SUBSET D -> X]
  /\ \A S \in SUBSET D : f[S] = IF S = {} THEN b ELSE step[<<f[S \ {One(S)}], One(S)>>]

LEMMA Folded ==
  ASSUME NEW D, IsFiniteSet(D), NEW X, NEW b \in X, NEW step \in [X \X D -> X]
  PROVE  \E f : FoldOf(f, D, X, b, step)
<1> DEFINE Fits(f, S) == f[S] = IF S = {} THEN b ELSE step[<<f[S \ {One(S)}], One(S)>>]
           Upto(n) == \E f \in [SUBSET D -> X] :
                        \A S \in SUBSET D : Cardinality(S) <= n => Fits(f, S)
           bad == {n \in Nat : ~Upto(n)}
<1>1. \A S \in SUBSET D : IsFiniteSet(S) /\ Cardinality(S) \in Nat /\ Cardinality(S) <= Cardinality(D)
  BY FS_Subset, FS_CardinalityType
<1>2. bad = {}
  <2> SUFFICES ASSUME bad # {} PROVE FALSE
    OBVIOUS
  <2>1. PICK n \in bad : \A m \in bad : n <= m
    <3>1. bad \in SUBSET Nat
      OBVIOUS
    <3> HIDE DEF bad
    <3>. QED BY <3>1, LeastOf
  <2>2. n \in Nat /\ ~Upto(n)
    BY <2>1
  <2>3. CASE n = 0
    <3> DEFINE f == [S \in SUBSET D |-> b]
    <3>1. \A S \in SUBSET D : Cardinality(S) <= 0 => S = {}
      BY <1>1, FS_EmptySet
    <3>2. f \in [SUBSET D -> X] /\ \A S \in SUBSET D : Cardinality(S) <= 0 => Fits(f, S)
      BY <3>1
    <3> HIDE DEF f, Fits
    <3>. QED BY <2>2, <2>3, <3>2
  <2>4. CASE n # 0
    <3>1. n - 1 \in Nat /\ ~(n <= n - 1)
      BY <2>2, <2>4
    <3>2. Upto(n - 1)
      <4> HIDE DEF Upto
      <4>1. n - 1 \notin bad
        <5> HIDE DEF bad
        <5>. QED BY <2>1, <3>1
      <4>. QED BY <3>1, <4>1
    <3>3. PICK g \in [SUBSET D -> X] :
            \A S \in SUBSET D : Cardinality(S) <= n - 1 => Fits(g, S)
      BY <3>2
    <3> DEFINE f == [S \in SUBSET D |->
                       IF S = {} THEN b ELSE step[<<g[S \ {One(S)}], One(S)>>]]
    <3>4. \A S \in SUBSET D : S # {} =>
            /\ One(S) \in S /\ One(S) \in D
            /\ S \ {One(S)} \in SUBSET D /\ g[S \ {One(S)}] \in X
      BY <3>3, OneOf
    <3>5. f \in [SUBSET D -> X]
      <4>1. ASSUME NEW S \in SUBSET D
            PROVE  (IF S = {} THEN b ELSE step[<<g[S \ {One(S)}], One(S)>>]) \in X
        <5>1. CASE S # {}
          <6>1. <<g[S \ {One(S)}], One(S)>> \in X \X D
            BY <3>4, <5>1
          <6>. QED BY <5>1, <6>1
        <5>. QED BY <5>1
      <4>. QED BY <4>1
    <3>6. ASSUME NEW S \in SUBSET D, Cardinality(S) <= n PROVE Fits(f, S)
      <4>1. CASE S = {}
        BY <4>1
      <4>2. CASE S # {}
        <5> DEFINE R == S \ {One(S)}
        <5>1. R \in SUBSET D /\ Cardinality(R) <= n - 1
          <6>1. Cardinality(R) = Cardinality(S) - 1
            BY <1>1, <3>4, <4>2, FS_RemoveElement
          <6>. QED BY <1>1, <2>2, <3>4, <3>6, <4>2, <6>1
        <5>2. f[R] = IF R = {} THEN b ELSE step[<<g[R \ {One(R)}], One(R)>>]
          <6> HIDE DEF R
          <6>. QED BY <5>1
        <5>3. g[R] = IF R = {} THEN b ELSE step[<<g[R \ {One(R)}], One(R)>>]
          BY <3>3, <5>1
        <5>4. f[S] = step[<<g[R], One(S)>>]
          BY <4>2
        <5> HIDE DEF R, f
        <5>5. f[S] = step[<<f[R], One(S)>>]
          BY <5>2, <5>3, <5>4
        <5>. QED BY <4>2, <5>5 DEF R
      <4>. QED BY <4>1, <4>2
    <3> HIDE DEF f, Fits
    <3>. QED BY <2>2, <3>5, <3>6
  <2>. QED BY <2>3, <2>4
<1>3. Upto(Cardinality(D))
  <2>1. Cardinality(D) \in Nat
    BY FS_CardinalityType
  <2> HIDE DEF Upto
  <2>. QED BY <1>2, <2>1
<1>. QED BY <1>1, <1>3 DEF FoldOf
-----------------------------------------------------------------------------
(* The byte count: one entry changes it by the difference of its sizes. *)

LEMMA Sizes == ASSUME NEW e \in Entries PROVE Size(e) \in Nat
  BY CapacityAssumption DEF Size

Summed(f, entries) ==
  f = [S \in SUBSET Keys |->
         IF S = {} THEN 0 ELSE f[S \ {One(S)}] + Size(entries[One(S)])]

LEMMA BytesSummed ==
  ASSUME NEW entries \in [Keys -> Entries]
  PROVE  \E f : Summed(f, entries) /\ Bytes(entries) = f[Keys]
<1>1. Bytes(entries) = (CHOOSE f : Summed(f, entries))[Keys]
  BY Zenon DEF Bytes, FoldSet, MapThenFoldSet, Summed, One
<1>2. \E f : Summed(f, entries)
  <2> DEFINE step == [x \in Nat \X Keys |-> x[1] + Size(entries[x[2]])]
             N == Nat
             Zero == 0
  <2>1. step \in [N \X Keys -> N]
    BY Sizes
  <2>2. IsFiniteSet(Keys) /\ Zero \in N
    BY CapacityAssumption
  <2>3. \A n \in Nat, k \in Keys : step[<<n, k>>] = n + Size(entries[k])
    OBVIOUS
  <2>4. \E f : FoldOf(f, Keys, N, Zero, step)
    <3> HIDE DEF step, N, Zero
    <3>. QED BY <2>1, <2>2, Folded
  <2> PICK f : FoldOf(f, Keys, Nat, 0, step)
    BY <2>4
  <2> HIDE DEF step
  <2> USE DEF FoldOf
  <2>5. ASSUME NEW S \in SUBSET Keys
        PROVE  f[S] = IF S = {} THEN 0 ELSE f[S \ {One(S)}] + Size(entries[One(S)])
    <3>1. CASE S # {}
      <4>1. One(S) \in Keys /\ f[S \ {One(S)}] \in Nat
        BY <3>1, OneOf
      <4>. QED BY <2>3, <3>1, <4>1
    <3>. QED BY <3>1
  <2>6. f = [S \in SUBSET Keys |-> f[S]]
    OBVIOUS
  <2>. QED BY <2>5, <2>6 DEF Summed
<1>. QED BY <1>1, <1>2, Zenon

LEMMA SummedAt ==
  ASSUME NEW entries, NEW f, Summed(f, entries), NEW S \in SUBSET Keys
  PROVE  f[S] = IF S = {} THEN 0 ELSE f[S \ {One(S)}] + Size(entries[One(S)])
  BY DEF Summed

LEMMA BytesChange ==
  ASSUME NEW entries \in [Keys -> Entries], NEW k \in Keys, NEW e \in Entries
  PROVE  /\ Bytes(entries) \in Nat /\ Bytes(entries) >= Size(entries[k])
         /\ Bytes([entries EXCEPT ![k] = e]) = Bytes(entries) - Size(entries[k]) + Size(e)
<1> DEFINE after == [entries EXCEPT ![k] = e]
<1>1. /\ after \in [Keys -> Entries] /\ after[k] = e
      /\ \A x \in Keys : x # k => after[x] = entries[x]
  OBVIOUS
<1> HIDE DEF after
<1>2. PICK f : Summed(f, entries) /\ Bytes(entries) = f[Keys]
  BY BytesSummed
<1>3. PICK g : Summed(g, after) /\ Bytes(after) = g[Keys]
  BY <1>1, BytesSummed
<1> DEFINE Fits(S) == /\ f[S] \in Nat
                      /\ k \in S => f[S] >= Size(entries[k])
                      /\ g[S] = IF k \in S THEN f[S] - Size(entries[k]) + Size(e) ELSE f[S]
           bad == {S \in SUBSET Keys : ~Fits(S)}
<1>4. bad = {}
  <2> SUFFICES ASSUME bad # {} PROVE FALSE
    OBVIOUS
  <2>1. PICK S \in bad : \A x \in S : S \ {x} \notin bad
    <3>1. bad \in SUBSET SUBSET Keys /\ IsFiniteSet(Keys)
      BY CapacityAssumption
    <3> HIDE DEF bad
    <3>. QED BY <3>1, SmallestOf
  <2>2. S \in SUBSET Keys /\ ~Fits(S)
    BY <2>1
  <2>3. S # {}
    <3> SUFFICES ASSUME S = {} PROVE FALSE
      OBVIOUS
    <3>1. f[S] = 0 /\ g[S] = 0 /\ k \notin S
      BY <1>2, <1>3, <2>2, SummedAt
    <3>. QED BY <2>2, <3>1
  <2> DEFINE x == One(S)
             R == S \ {x}
  <2>4. x \in S /\ x \in Keys /\ R \in SUBSET Keys /\ x \notin R
    BY <2>2, <2>3, OneOf
  <2>5. Fits(R)
    <3>1. R \notin bad
      <4> HIDE DEF bad
      <4>. QED BY <2>1, <2>4
    <3> HIDE DEF Fits, R, x
    <3>. QED BY <2>4, <3>1
  <2>6. f[S] = f[R] + Size(entries[x]) /\ g[S] = g[R] + Size(after[x])
    BY <1>2, <1>3, <2>2, <2>3, SummedAt
  <2>7. k \in S <=> k \in R \/ k = x
    BY <2>4
  <2> HIDE DEF x, R
  <2>8. /\ Size(entries[x]) \in Nat /\ Size(entries[k]) \in Nat /\ Size(e) \in Nat
        /\ x # k => Size(after[x]) = Size(entries[x])
        /\ x = k => Size(after[x]) = Size(e)
    BY <1>1, <2>4, Sizes
  <2>9. CASE x = k
    BY <2>2, <2>4, <2>5, <2>6, <2>7, <2>8, <2>9
  <2>10. CASE x # k
    BY <2>2, <2>4, <2>5, <2>6, <2>7, <2>8, <2>10
  <2>. QED BY <2>9, <2>10
<1>5. Fits(Keys)
  <2> HIDE DEF Fits
  <2>. QED BY <1>4
<1>. QED BY <1>2, <1>3, <1>5 DEF after

LEMMA BytesEmpty ==
  ASSUME NEW entries \in [Keys -> Entries], \A k \in Keys : entries[k] = Absent
  PROVE  Bytes(entries) = 0
<1>1. PICK f : Summed(f, entries) /\ Bytes(entries) = f[Keys]
  BY BytesSummed
<1> DEFINE bad == {S \in SUBSET Keys : f[S] # 0}
<1>2. bad = {}
  <2> SUFFICES ASSUME bad # {} PROVE FALSE
    OBVIOUS
  <2>1. PICK S \in bad : \A x \in S : S \ {x} \notin bad
    <3>1. bad \in SUBSET SUBSET Keys /\ IsFiniteSet(Keys)
      BY CapacityAssumption
    <3> HIDE DEF bad
    <3>. QED BY <3>1, SmallestOf
  <2>2. S \in SUBSET Keys /\ f[S] # 0
    BY <2>1
  <2>3. S # {}
    BY <1>1, <2>2, SummedAt
  <2>4. One(S) \in S /\ One(S) \in Keys /\ f[S] = f[S \ {One(S)}] + Size(entries[One(S)])
    BY <1>1, <2>2, <2>3, OneOf, SummedAt
  <2>5. f[S \ {One(S)}] = 0 /\ Size(entries[One(S)]) = 0
    BY <2>1, <2>2, <2>4 DEF Size
  <2>. QED BY <2>2, <2>4, <2>5
<1>. QED BY <1>1, <1>2
-----------------------------------------------------------------------------
(* Removing an entry. *)

LEMMA MaxOfZero == ASSUME NEW n \in Nat PROVE Max({0, n}) = n
<1>1. n \in {0, n} /\ \A y \in {0, n} : n >= y
  OBVIOUS
<1>2. \A x \in {0, n} : (\A y \in {0, n} : x >= y) => x = n
  OBVIOUS
<1>3. Max({0, n}) \in {0, n} /\ \A y \in {0, n} : Max({0, n}) >= y
  BY <1>1, Zenon DEF Max
<1>. QED BY <1>2, <1>3

(* The store without k; the sweep of a scope left empty is forgotten. *)
Without(s, k, t) ==
  /\ Booked(t)
  /\ t.entries = [s.entries EXCEPT ![k] = Absent]
  /\ t.lastSweep = s.lastSweep
  /\ \A scope \in Scopes : t.lastScopeSweep[scope] \in {s.lastScopeSweep[scope], Never}
  /\ \A scope \in Scopes : t.keysByScope[scope] = s.keysByScope[scope] \ {k}

LEMMA HeldFinite ==
  ASSUME NEW s
  PROVE  IsFiniteSet(Held(s)) /\ Cardinality(Held(s)) \in Nat
<1>1. Held(s) \in SUBSET Keys
  BY DEF Held
<1>. QED BY <1>1, CapacityAssumption, FS_Subset, FS_CardinalityType

LEMMA NeverIsPast == Never \in Int /\ Never < 0 /\ Never \in Times /\ Absent \in Entries
  BY CapacityAssumption DEF Never, Times, Entries

LEMMA RemoveHeldDoes ==
  ASSUME NEW s, Booked(s), now \in Nat, NEW k \in Held(s)
  PROVE  Without(s, k, RemoveHeld(s, k))
<1> DEFINE scope == ScopeOf[k]
           t == RemoveHeld(s, k)
<1>1. s \in Stores /\ k \in Keys /\ scope \in Scopes /\ s.scopeOfKey[k] = scope
  BY CapacityAssumption DEF Booked, Indexed, Held
<1>2. Max({0, s.bytes - Size(s.entries[k])}) = s.bytes - Size(s.entries[k])
      /\ s.bytes - Size(s.entries[k]) \in Nat
      /\ s.bytes - Size(s.entries[k]) = Bytes([s.entries EXCEPT ![k] = Absent])
  <2>1. /\ s.entries \in [Keys -> Entries] /\ s.entries[k] \in Entries
        /\ s.bytes = Bytes(s.entries) /\ s.bytes \in Nat
    BY <1>1 DEF Booked, Indexed, Stores
  <2>2. Size(s.entries[k]) \in Nat /\ Size(Absent) = 0
    BY <2>1, Sizes DEF Size
  <2>3. s.bytes >= Size(s.entries[k])
        /\ Bytes([s.entries EXCEPT ![k] = Absent]) = s.bytes - Size(s.entries[k]) + Size(Absent)
    BY <1>1, <2>1, BytesChange, NeverIsPast
  <2>4. s.bytes - Size(s.entries[k]) \in Nat
    BY <2>1, <2>2, <2>3
  <2>. QED BY <2>1, <2>2, <2>3, <2>4, MaxOfZero
<1>3. /\ t \in Stores
      /\ t.entries = [s.entries EXCEPT ![k] = Absent]
      /\ t.keysByScope = [s.keysByScope EXCEPT ![scope] = @ \ {k}]
      /\ t.scopeOfKey = [s.scopeOfKey EXCEPT ![k] = NoScope]
      /\ t.lastScopeSweep = [s.lastScopeSweep EXCEPT
                               ![scope] = IF s.keysByScope[scope] \ {k} = {} THEN Never ELSE @]
      /\ t.lastSweep = s.lastSweep
      /\ t.bytes = s.bytes - Size(s.entries[k])
  BY <1>1, <1>2, NeverIsPast DEF RemoveHeld, Stores
<1> HIDE DEF t
<1>4. /\ s.entries \in [Keys -> Entries] /\ s.keysByScope \in [Scopes -> SUBSET Keys]
      /\ s.scopeOfKey \in [Keys -> Scopes \cup {NoScope}] /\ s.lastScopeSweep \in [Scopes -> Times]
  BY <1>1 DEF Stores
<1>5. Held(t) = Held(s) \ {k}
  BY <1>1, <1>3, <1>4 DEF Held
<1>6. \A sc \in Scopes : t.keysByScope[sc] = s.keysByScope[sc] \ {k}
  BY <1>1, <1>3, <1>4 DEF Booked, Indexed
<1>7. Indexed(t)
  <2>1. \A sc \in Scopes : t.keysByScope[sc] = {x \in Held(t) : ScopeOf[x] = sc}
    BY <1>5, <1>6 DEF Booked, Indexed
  <2>2. \A x \in Keys : t.scopeOfKey[x] = IF x \in Held(t) THEN ScopeOf[x] ELSE NoScope
    BY <1>1, <1>3, <1>4, <1>5 DEF Booked, Indexed
  <2>. QED BY <1>2, <1>3, <2>1, <2>2 DEF Indexed
<1>8. /\ \A sc \in Scopes : t.lastScopeSweep[sc] \in {s.lastScopeSweep[sc], Never}
      /\ t.keysByScope[scope] = {} => t.lastScopeSweep[scope] = Never
      /\ \A sc \in Scopes \ {scope} : t.keysByScope[sc] = s.keysByScope[sc]
  BY <1>1, <1>3, <1>4
<1>9. Swept(t)
  BY <1>8, NeverIsPast DEF Booked, Swept
<1>10. Capped(t)
  <2>1. Cardinality(Held(t)) <= MaxEntries
    <3>1. Cardinality(Held(t)) <= Cardinality(Held(s)) /\ Cardinality(Held(t)) \in Nat
      BY <1>5, HeldFinite, FS_Subset
    <3>. QED BY <3>1, HeldFinite, CapacityAssumption DEF Booked, Capped
  <2>2. ASSUME NEW sc \in Scopes PROVE Cardinality(t.keysByScope[sc]) <= MaxPerScope
    <3>1. /\ IsFiniteSet(s.keysByScope[sc]) /\ t.keysByScope[sc] \in SUBSET s.keysByScope[sc]
      BY <1>4, <1>6, CapacityAssumption, FS_Subset
    <3>2. /\ Cardinality(t.keysByScope[sc]) <= Cardinality(s.keysByScope[sc])
          /\ Cardinality(t.keysByScope[sc]) \in Nat /\ Cardinality(s.keysByScope[sc]) \in Nat
      BY <3>1, FS_Subset, FS_CardinalityType
    <3>. QED BY <3>2, CapacityAssumption DEF Booked, Capped
  <2>. QED BY <2>1, <2>2 DEF Capped
<1>. QED BY <1>3, <1>6, <1>7, <1>8, <1>9, <1>10 DEF Without, Booked, t

LEMMA RemoveDoes ==
  ASSUME NEW s, Booked(s), now \in Nat, NEW k \in Keys
  PROVE  Without(s, k, Remove(s, k))
<1>1. CASE s.entries[k] = Absent
  <2>1. s.entries = [s.entries EXCEPT ![k] = Absent]
    BY <1>1 DEF Booked, Stores
  <2>2. k \notin Held(s)
    BY <1>1 DEF Held
  <2>3. \A scope \in Scopes : s.keysByScope[scope] = s.keysByScope[scope] \ {k}
    BY <2>2 DEF Booked, Indexed
  <2>. QED BY <1>1, <2>1, <2>3 DEF Remove, Without
<1>2. CASE s.entries[k] # Absent
  <2>1. k \in Held(s)
    BY <1>2 DEF Held
  <2>. QED BY <1>2, <2>1, RemoveHeldDoes DEF Remove
<1>. QED BY <1>1, <1>2

(* A store whose entries in K are gone, K being any set of keys: the same  *)
(* is kept of the rest, whatever the order of the removals.                *)
Cleared(s, K, t) ==
  /\ Booked(t)
  /\ t.entries = [k \in Keys |-> IF k \in K THEN Absent ELSE s.entries[k]]
  /\ t.lastSweep = s.lastSweep
  /\ \A scope \in Scopes : t.lastScopeSweep[scope] \in {s.lastScopeSweep[scope], Never}

RemoveFun(g, s, K) ==
  g = [S \in SUBSET K |-> IF S = {} THEN s ELSE Remove(g[S \ {One(S)}], One(S))]

LEMMA RemovesFold ==
  ASSUME NEW s, Booked(s), now \in Nat, NEW K \in SUBSET Keys
  PROVE  \E g : RemoveFun(g, s, K) /\ RemoveAll(s, K) = g[K]
<1>1. RemoveAll(s, K) = (CHOOSE g : RemoveFun(g, s, K))[K]
  BY Zenon DEF RemoveAll, FoldSet, MapThenFoldSet, RemoveFun, One
<1>2. \E g : RemoveFun(g, s, K)
  <2> DEFINE X == {t \in Stores : Booked(t)}
             step == [x \in X \X K |-> Remove(x[1], x[2])]
  <2>1. \A t \in X, k \in K : Remove(t, k) \in X /\ step[<<t, k>>] = Remove(t, k)
    <3>1. ASSUME NEW t \in X, NEW k \in K PROVE Remove(t, k) \in X
      BY RemoveDoes DEF Without, Booked
    <3> HIDE DEF X
    <3>. QED BY <3>1
  <2>2. step \in [X \X K -> X] /\ IsFiniteSet(K) /\ s \in X
    <3>1. s \in X /\ IsFiniteSet(K)
      BY CapacityAssumption, FS_Subset DEF Booked
    <3> HIDE DEF X
    <3>. QED BY <2>1, <3>1
  <2> HIDE DEF step, X
  <2>3. PICK g : FoldOf(g, K, X, s, step)
    BY <2>2, Folded
  <2>4. ASSUME NEW S \in SUBSET K
        PROVE  g[S] = IF S = {} THEN s ELSE Remove(g[S \ {One(S)}], One(S))
    <3>1. CASE S # {}
      <4>1. One(S) \in K /\ g[S \ {One(S)}] \in X
        BY <2>3, <3>1, OneOf DEF FoldOf
      <4>. QED BY <2>1, <2>3, <3>1, <4>1 DEF FoldOf
    <3>. QED BY <2>3, <3>1 DEF FoldOf
  <2>5. g = [S \in SUBSET K |-> g[S]]
    BY <2>3 DEF FoldOf
  <2>. QED BY <2>4, <2>5 DEF RemoveFun
<1>. QED BY <1>1, <1>2, Zenon

LEMMA RemoveAllDoes ==
  ASSUME NEW s, Booked(s), now \in Nat, NEW K \in SUBSET Keys
  PROVE  Cleared(s, K, RemoveAll(s, K))
<1>1. PICK g : RemoveFun(g, s, K) /\ RemoveAll(s, K) = g[K]
  BY RemovesFold
<1> DEFINE bad == {S \in SUBSET K : ~Cleared(s, S, g[S])}
<1>2. bad = {}
  <2> SUFFICES ASSUME bad # {} PROVE FALSE
    OBVIOUS
  <2>1. PICK S \in bad : \A x \in S : S \ {x} \notin bad
    <3>1. bad \in SUBSET SUBSET K /\ IsFiniteSet(K)
      BY CapacityAssumption, FS_Subset
    <3> HIDE DEF bad
    <3>. QED BY <3>1, SmallestOf
  <2>2. S \in SUBSET K /\ ~Cleared(s, S, g[S])
    BY <2>1
  <2>3. g[S] = IF S = {} THEN s ELSE Remove(g[S \ {One(S)}], One(S))
    BY <1>1, <2>2 DEF RemoveFun
  <2>4. CASE S = {}
    <3>1. s.entries = [k \in Keys |-> IF k \in S THEN Absent ELSE s.entries[k]]
      BY <2>4 DEF Booked, Stores
    <3>. QED BY <2>2, <2>3, <2>4, <3>1 DEF Cleared
  <2>5. CASE S # {}
    <3> DEFINE x == One(S)
               R == S \ {x}
    <3>1. x \in S /\ x \in Keys /\ R \in SUBSET K
      BY <2>2, <2>5, OneOf
    <3>2. Cleared(s, R, g[R])
      <4>1. R \notin bad
        <5> HIDE DEF bad
        <5>. QED BY <2>1, <3>1
      <4> HIDE DEF R, x
      <4>. QED BY <3>1, <4>1
    <3>3. Without(g[R], x, g[S])
      <4>1. g[S] = Remove(g[R], x)
        BY <2>3, <2>5
      <4> HIDE DEF R, x
      <4>. QED BY <3>1, <3>2, <4>1, RemoveDoes DEF Cleared
    <3> HIDE DEF x
    <3>4. g[S].entries = [k \in Keys |-> IF k \in S THEN Absent ELSE s.entries[k]]
      BY <3>1, <3>2, <3>3 DEF Without, Cleared
    <3> HIDE DEF R
    <3>5. \A scope \in Scopes : g[S].lastScopeSweep[scope] \in {s.lastScopeSweep[scope], Never}
      BY <3>2, <3>3 DEF Without, Cleared
    <3>. QED BY <2>2, <3>2, <3>3, <3>4, <3>5 DEF Without, Cleared
  <2>. QED BY <2>4, <2>5
<1>3. K \notin bad
  BY <1>2
<1>. QED BY <1>1, <1>3
-----------------------------------------------------------------------------
(* Sweeps and insertions. *)

(* t is s without some of its expired entries. *)
Tidied(s, t) ==
  /\ Sound(t)
  /\ \A k \in Keys : \/ t.entries[k] = s.entries[k]
                     \/ t.entries[k] = Absent /\ Expired(s.entries[k])

LEMMA TidiedTwice ==
  ASSUME NEW s, NEW t, NEW u, Tidied(s, t), Tidied(t, u)
  PROVE  Tidied(s, u)
  BY DEF Tidied, Expired

LEMMA EntriesOf ==
  ASSUME NEW s, Booked(s)
  PROVE  /\ s \in Stores /\ s.entries \in [Keys -> Entries]
         /\ s.keysByScope \in [Scopes -> SUBSET Keys]
         /\ s.scopeOfKey \in [Keys -> Scopes \cup {NoScope}]
         /\ s.lastScopeSweep \in [Scopes -> Times]
         /\ \A k \in Held(s) : k \in Keys /\ s.entries[k] # Absent /\ s.entries[k].expiresAt \in Nat
  BY DEF Booked, Stores, Held, Entries

LEMMA ClearedOutlives ==
  ASSUME NEW s, NEW K \in SUBSET Keys, NEW t, Booked(s), Cleared(s, K, t),
         \A k \in Held(s) \ K : s.lastScopeSweep[ScopeOf[k]] < s.entries[k].expiresAt
  PROVE  Sound(t)
<1>1. ASSUME NEW k \in Held(t) PROVE t.lastScopeSweep[ScopeOf[k]] < t.entries[k].expiresAt
  <2>1. k \in Keys /\ k \notin K /\ t.entries[k] = s.entries[k] /\ s.entries[k] # Absent
    BY <1>1 DEF Held, Cleared
  <2>2. k \in Held(s) \ K /\ s.entries[k].expiresAt \in Nat /\ ScopeOf[k] \in Scopes
    BY <2>1, EntriesOf, CapacityAssumption DEF Held
  <2>3. t.lastScopeSweep[ScopeOf[k]] \in {s.lastScopeSweep[ScopeOf[k]], Never}
    BY <2>2 DEF Cleared
  <2>4. s.lastScopeSweep[ScopeOf[k]] < s.entries[k].expiresAt
    BY <2>2
  <2>. QED BY <2>1, <2>2, <2>3, <2>4, NeverIsPast
<1>. QED BY <1>1 DEF Sound, Outlives, Cleared

LEMMA RemoveSound ==
  ASSUME NEW s, Sound(s), now \in Nat, NEW k \in Keys
  PROVE  /\ Sound(Remove(s, k))
         /\ Without(s, k, Remove(s, k))
<1> DEFINE t == Remove(s, k)
<1>1. Booked(s) /\ Without(s, k, t)
  BY RemoveDoes DEF Sound
<1> HIDE DEF t
<1>2. t.entries = [x \in Keys |-> IF x \in {k} THEN Absent ELSE s.entries[x]]
  BY <1>1, EntriesOf DEF Without
<1>3. Cleared(s, {k}, t)
  BY <1>1, <1>2 DEF Without, Cleared
<1>4. Sound(t)
  BY <1>1, <1>3, ClearedOutlives DEF Sound, Outlives
<1>. QED BY <1>1, <1>4 DEF t

LEMMA LookupTidies ==
  ASSUME NEW s, Sound(s), now \in Nat, NEW k \in Keys
  PROVE  /\ Tidied(s, Lookup(s, k))
         /\ Lookup(s, k).entries =
              [s.entries EXCEPT ![k] = IF Expired(@) THEN Absent ELSE @]
<1>1. s.entries \in [Keys -> Entries]
  BY EntriesOf DEF Sound
<1>2. CASE Expired(s.entries[k])
  <2>1. Lookup(s, k) = Remove(s, k)
    BY <1>2 DEF Lookup
  <2>2. Sound(Remove(s, k)) /\ Remove(s, k).entries = [s.entries EXCEPT ![k] = Absent]
    BY RemoveSound DEF Without
  <2>. QED BY <1>1, <1>2, <2>1, <2>2 DEF Tidied
<1>3. CASE ~Expired(s.entries[k])
  BY <1>1, <1>3 DEF Lookup, Tidied
<1>. QED BY <1>2, <1>3

(* A sweep that removes the expired entries of K. *)
LEMMA SweptTidies ==
  ASSUME NEW s, Sound(s), NEW r, Booked(r), r.entries = s.entries, now \in Nat,
         NEW K \in SUBSET Keys, \A k \in K : Expired(s.entries[k]),
         \A k \in Held(s) \ K : r.lastScopeSweep[ScopeOf[k]] < s.entries[k].expiresAt
  PROVE  /\ Tidied(s, RemoveAll(r, K))
         /\ \A k \in K : RemoveAll(r, K).entries[k] = Absent
<1> DEFINE t == RemoveAll(r, K)
<1>1. Cleared(r, K, t)
  BY RemoveAllDoes
<1> HIDE DEF t
<1>2. Held(r) = Held(s)
  BY DEF Held
<1>3. Sound(t)
  BY <1>1, <1>2, ClearedOutlives
<1>4. \A k \in Keys : t.entries[k] = IF k \in K THEN Absent ELSE s.entries[k]
  BY <1>1 DEF Cleared
<1>. QED BY <1>3, <1>4 DEF t, Tidied

LEMMA SweepScopeTidies ==
  ASSUME NEW s, Sound(s), now \in 0..MaxTime, NEW scope \in Scopes, s.keysByScope[scope] # {}
  PROVE  /\ Tidied(s, SweepScope(s, scope))
         /\ \A k \in Keys : ScopeOf[k] = scope => ~LongDead(SweepScope(s, scope).entries[k])
<1>1. Booked(s) /\ s.lastScopeSweep \in [Scopes -> Times] /\ now \in Nat /\ now \in Int
  BY EntriesOf, CapacityAssumption DEF Sound
<1>2. CASE now - s.lastScopeSweep[scope] < SweepThrottle
  <2>1. SweepScope(s, scope) = s
    BY <1>2 DEF SweepScope
  <2>2. ASSUME NEW k \in Keys, ScopeOf[k] = scope, LongDead(s.entries[k]) PROVE FALSE
    <3>1. k \in Held(s) /\ s.entries[k].expiresAt <= now - SweepThrottle
      BY <2>2 DEF LongDead, Held
    <3>2. s.lastScopeSweep[scope] < s.entries[k].expiresAt /\ s.entries[k].expiresAt \in Nat
      BY <1>1, <2>2, <3>1, EntriesOf DEF Sound, Outlives
    <3>3. s.lastScopeSweep[scope] \in Int /\ SweepThrottle \in Nat
      BY <1>1, CapacityAssumption, NeverIsPast DEF Times
    <3>. QED BY <1>1, <1>2, <3>1, <3>2, <3>3
  <2>. QED BY <2>1, <2>2 DEF Tidied
<1>3. CASE ~(now - s.lastScopeSweep[scope] < SweepThrottle)
  <2> DEFINE r == [s EXCEPT !.lastScopeSweep[scope] = now]
             K == {k \in s.keysByScope[scope] : Expired(s.entries[k])}
  <2>1. SweepScope(s, scope) = RemoveAll(r, K)
    BY <1>3 DEF SweepScope
  <2>2. /\ r \in Stores
        /\ r.entries = s.entries /\ r.keysByScope = s.keysByScope
        /\ r.scopeOfKey = s.scopeOfKey /\ r.bytes = s.bytes
        /\ r.lastScopeSweep = [s.lastScopeSweep EXCEPT ![scope] = now]
    <3>1. now \in Times
      BY DEF Times
    <3>2. s \in Stores
      BY <1>1, EntriesOf
    <3>. QED BY <1>1, <3>1, <3>2 DEF Stores
  <2> HIDE DEF r
  <2>3. Held(r) = Held(s)
    BY <2>2 DEF Held
  <2>4. Booked(r)
    <3>1. Indexed(r) /\ Capped(r)
      BY <1>1, <2>2, <2>3 DEF Booked, Indexed, Capped
    <3>2. Swept(r)
      BY <1>1, <2>2 DEF Booked, Swept
    <3>. QED BY <2>2, <3>1, <3>2 DEF Booked
  <2>5. ASSUME NEW k \in Held(s) \ K
        PROVE  /\ r.lastScopeSweep[ScopeOf[k]] < s.entries[k].expiresAt
               /\ ScopeOf[k] = scope => now < s.entries[k].expiresAt
    <3>1. k \in Keys /\ s.entries[k].expiresAt \in Nat /\ s.entries[k] # Absent /\ ScopeOf[k] \in Scopes
      BY <1>1, <2>5, EntriesOf, CapacityAssumption
    <3>2. CASE ScopeOf[k] = scope
      <4>1. k \in s.keysByScope[scope]
        BY <1>1, <2>5, <3>2 DEF Booked, Indexed
      <4>2. ~(s.entries[k].expiresAt <= now)
        BY <2>5, <3>1, <4>1 DEF Expired
      <4>. QED BY <1>1, <2>2, <3>1, <3>2, <4>2
    <3>3. CASE ScopeOf[k] # scope
      <4>1. r.lastScopeSweep[ScopeOf[k]] = s.lastScopeSweep[ScopeOf[k]]
        BY <1>1, <2>2, <3>1, <3>3
      <4>. QED BY <2>5, <3>3, <4>1 DEF Sound, Outlives
    <3>. QED BY <3>2, <3>3
  <2>6. K \in SUBSET Keys /\ \A k \in K : Expired(s.entries[k])
    BY <1>1, EntriesOf
  <2>7. Tidied(s, RemoveAll(r, K)) /\ \A k \in K : RemoveAll(r, K).entries[k] = Absent
    <3> HIDE DEF K
    <3>1. \A k \in Held(s) \ K : r.lastScopeSweep[ScopeOf[k]] < s.entries[k].expiresAt
      BY <2>5
    <3>2. r.entries = s.entries /\ now \in Nat
      BY <1>1, <2>2
    <3>. QED BY <2>4, <2>6, <3>1, <3>2, SweptTidies, Zenon
  <2>8. ASSUME NEW k \in Keys, ScopeOf[k] = scope, LongDead(RemoveAll(r, K).entries[k])
        PROVE  FALSE
    <3>1. RemoveAll(r, K).entries[k] = s.entries[k] /\ s.entries[k] # Absent /\ k \notin K
      BY <2>7, <2>8 DEF Tidied, LongDead
    <3>2. k \in Held(s) \ K
      BY <3>1 DEF Held
    <3>3. now < s.entries[k].expiresAt /\ s.entries[k].expiresAt \in Nat
      BY <1>1, <2>5, <2>8, <3>2, EntriesOf
    <3>4. s.entries[k].expiresAt <= now - SweepThrottle /\ SweepThrottle \in Nat
      BY <2>8, <3>1, CapacityAssumption DEF LongDead
    <3>. QED BY <1>1, <3>3, <3>4
  <2>. QED BY <2>1, <2>7, <2>8
<1>. QED BY <1>2, <1>3

LEMMA SweepTidies ==
  ASSUME NEW s, Sound(s), now \in 0..MaxTime
  PROVE  Tidied(s, Sweep(s))
<1>1. Booked(s) /\ now \in Nat
  BY CapacityAssumption DEF Sound
<1>2. CASE now - s.lastSweep < SweepThrottle
  BY <1>2 DEF Sweep, Tidied
<1>3. CASE ~(now - s.lastSweep < SweepThrottle)
  <2> DEFINE r == [s EXCEPT !.lastSweep = now]
             K == {k \in Keys : Expired(s.entries[k])}
  <2>1. Sweep(s) = RemoveAll(r, K)
    BY <1>3 DEF Sweep
  <2>2. /\ r \in Stores
        /\ r.entries = s.entries /\ r.keysByScope = s.keysByScope
        /\ r.scopeOfKey = s.scopeOfKey /\ r.bytes = s.bytes
        /\ r.lastScopeSweep = s.lastScopeSweep
    <3>1. now \in Times
      BY DEF Times
    <3>2. s \in Stores
      BY <1>1, EntriesOf
    <3>. QED BY <1>1, <3>1, <3>2 DEF Stores
  <2> HIDE DEF r
  <2>3. Booked(r)
    BY <1>1, <2>2 DEF Booked, Indexed, Capped, Swept, Held
  <2>4. \A k \in Held(s) \ K : r.lastScopeSweep[ScopeOf[k]] < s.entries[k].expiresAt
    BY <2>2 DEF Sound, Outlives
  <2>5. K \in SUBSET Keys /\ \A k \in K : Expired(s.entries[k])
    OBVIOUS
  <2> HIDE DEF K
  <2>. QED BY <1>1, <2>1, <2>2, <2>3, <2>4, <2>5, SweptTidies
<1>. QED BY <1>2, <1>3

(* A set that is no larger with k than it was allowed to be. *)
LEMMA RoomForOne ==
  ASSUME NEW H \in SUBSET Keys, NEW k \in Keys, NEW n \in Nat,
         Cardinality(H) <= n, k \notin H => ~(Cardinality(H) >= n)
  PROVE  Cardinality((H \ {k}) \cup {k}) <= n
<1>1. IsFiniteSet(H) /\ Cardinality(H) \in Nat
  BY CapacityAssumption, FS_Subset, FS_CardinalityType
<1>2. CASE k \in H
  <2>1. (H \ {k}) \cup {k} = H
    BY <1>2
  <2>. QED BY <2>1
<1>3. CASE k \notin H
  <2>1. (H \ {k}) \cup {k} = H \cup {k}
    OBVIOUS
  <2>2. Cardinality(H \cup {k}) = Cardinality(H) + 1
    BY <1>1, <1>3, FS_AddElement
  <2>. QED BY <1>1, <1>3, <2>1, <2>2
<1>. QED BY <1>2, <1>3

LEMMA InsertDoes ==
  ASSUME NEW s, Sound(s), now \in Nat, req \in [Callers -> Requests], NEW c \in Callers,
         s.entries[req[c].key] = Absent => ~ScopeFull(s, ScopeOf[req[c].key]) /\ ~StoreFull(s)
  PROVE  /\ Sound(Insert(s, c))
         /\ Insert(s, c).entries = [s.entries EXCEPT ![req[c].key] = Pending(c)]
<1> DEFINE k == req[c].key
           scope == ScopeOf[k]
           r == Remove(s, k)
           t == Insert(s, c)
<1>1. k \in Keys /\ scope \in Scopes /\ Booked(s) /\ req[c].fp \in Prints
  BY CapacityAssumption DEF Requests, Sound
<1>2. Sound(r) /\ Without(s, k, r) /\ Booked(r)
  <2> HIDE DEF k
  <2>. QED BY <1>1, RemoveSound DEF Sound
<1>3. /\ Pending(c) \in Entries /\ Pending(c) # Absent /\ Size(Pending(c)) = 1
      /\ Pending(c).expiresAt = now + Ttl /\ Ttl \in Nat /\ 0 < Ttl
  <2>1. Lease \in Nat /\ Ttl \in Nat /\ 0 < Ttl
    BY CapacityAssumption
  <2>2. Pending(c) \in Entries
    BY <1>1, <2>1 DEF Pending, Entries
  <2>3. Pending(c).state = "p" /\ Absent.state = "absent"
    BY DEF Pending, Absent
  <2>. QED BY <2>1, <2>2, <2>3 DEF Size, Pending
<1>4. /\ r \in Stores /\ r.entries \in [Keys -> Entries] /\ r.bytes \in Nat
      /\ r.keysByScope \in [Scopes -> SUBSET Keys]
      /\ r.scopeOfKey \in [Keys -> Scopes \cup {NoScope}]
  BY <1>2, EntriesOf DEF Booked, Stores
<1>5. /\ t \in Stores
      /\ t.entries = [r.entries EXCEPT ![k] = Pending(c)]
      /\ t.bytes = r.bytes + 1
      /\ t.scopeOfKey = [r.scopeOfKey EXCEPT ![k] = scope]
      /\ t.keysByScope = [r.keysByScope EXCEPT ![scope] = @ \cup {k}]
      /\ t.lastScopeSweep = r.lastScopeSweep
  <2> HIDE DEF r, k
  <2>1. t = [r EXCEPT !.entries[k] = Pending(c), !.bytes = @ + 1, !.scopeOfKey[k] = ScopeOf[k],
                      !.keysByScope[ScopeOf[k]] = @ \cup {k}]
    BY DEF Insert, r, k
  <2>2. r = [entries |-> r.entries, keysByScope |-> r.keysByScope, scopeOfKey |-> r.scopeOfKey,
             lastScopeSweep |-> r.lastScopeSweep, lastSweep |-> r.lastSweep, bytes |-> r.bytes]
        /\ r.lastScopeSweep \in [Scopes -> Times] /\ r.lastSweep \in Times
    BY <1>4 DEF Stores
  <2>3. t = [entries |-> [r.entries EXCEPT ![k] = Pending(c)],
             keysByScope |-> [r.keysByScope EXCEPT ![scope] = @ \cup {k}],
             scopeOfKey |-> [r.scopeOfKey EXCEPT ![k] = scope],
             lastScopeSweep |-> r.lastScopeSweep, lastSweep |-> r.lastSweep,
             bytes |-> r.bytes + 1]
    <3> HIDE DEF t
    <3>. QED BY <2>1, <2>2
  <2> HIDE DEF t, scope
  <2>4. /\ [r.entries EXCEPT ![k] = Pending(c)] \in [Keys -> Entries]
        /\ [r.keysByScope EXCEPT ![scope] = @ \cup {k}] \in [Scopes -> SUBSET Keys]
        /\ [r.scopeOfKey EXCEPT ![k] = scope] \in [Keys -> Scopes \cup {NoScope}]
        /\ r.bytes + 1 \in Nat
    BY <1>1, <1>3, <1>4
  <2>. QED BY <2>2, <2>3, <2>4 DEF Stores
<1> HIDE DEF t
<1>6. t.entries = [s.entries EXCEPT ![k] = Pending(c)]
  BY <1>1, <1>2, <1>5, EntriesOf DEF Without
<1>7. r.entries[k] = Absent /\ Held(r) = Held(s) \ {k}
  BY <1>1, <1>2, EntriesOf DEF Without, Held
<1> HIDE DEF r, k, scope
<1>8. Held(t) = (Held(s) \ {k}) \cup {k}
  BY <1>1, <1>3, <1>4, <1>5, <1>7 DEF Held
<1>9. /\ \A sc \in Scopes : sc # scope => t.keysByScope[sc] = s.keysByScope[sc] \ {k}
      /\ t.keysByScope[scope] = (s.keysByScope[scope] \ {k}) \cup {k}
  BY <1>1, <1>2, <1>4, <1>5 DEF Without
<1>10. Indexed(t)
  <2>1. ASSUME NEW sc \in Scopes
        PROVE  t.keysByScope[sc] = {x \in Held(t) : ScopeOf[x] = sc}
    <3>1. s.keysByScope[sc] = {x \in Held(s) : ScopeOf[x] = sc}
      BY <1>1 DEF Booked, Indexed
    <3>2. CASE sc = scope
      BY <1>8, <1>9, <3>1, <3>2 DEF scope
    <3>3. CASE sc # scope
      BY <1>8, <1>9, <3>1, <3>3 DEF scope
    <3>. QED BY <3>2, <3>3
  <2>2. \A x \in Keys : t.scopeOfKey[x] = IF x \in Held(t) THEN ScopeOf[x] ELSE NoScope
    BY <1>1, <1>2, <1>4, <1>5, <1>7, <1>8 DEF Booked, Indexed, scope
  <2>3. t.bytes = Bytes(t.entries)
    <3>1. Bytes(r.entries) \in Nat
          /\ Bytes([r.entries EXCEPT ![k] = Pending(c)]) = Bytes(r.entries) - Size(r.entries[k]) + Size(Pending(c))
      BY <1>1, <1>3, <1>4, BytesChange
    <3>2. r.bytes = Bytes(r.entries) /\ Size(r.entries[k]) = 0
      BY <1>2, <1>7 DEF Booked, Indexed, Size
    <3>. QED BY <1>3, <1>5, <3>1, <3>2
  <2>. QED BY <2>1, <2>2, <2>3 DEF Indexed
<1>11. Swept(t)
  BY <1>2, <1>5, <1>9, <1>1 DEF Booked, Swept, Without
<1>12. Capped(t)
  <2>1. k \in Held(s) <=> s.entries[k] # Absent
    BY <1>1 DEF Held
  <2>2. Cardinality(Held(t)) <= MaxEntries
    <3>1. Held(s) \in SUBSET Keys /\ MaxEntries \in Nat /\ Cardinality(Held(s)) <= MaxEntries
      BY <1>1, CapacityAssumption DEF Held, Booked, Capped
    <3>2. k \notin Held(s) => ~(Cardinality(Held(s)) >= MaxEntries)
      BY <2>1 DEF StoreFull, k
    <3>. QED BY <1>1, <1>8, <3>1, <3>2, RoomForOne
  <2>3. ASSUME NEW sc \in Scopes PROVE Cardinality(t.keysByScope[sc]) <= MaxPerScope
    <3>1. /\ s.keysByScope[sc] \in SUBSET Keys /\ MaxPerScope \in Nat
          /\ Cardinality(s.keysByScope[sc]) <= MaxPerScope
          /\ s.keysByScope[sc] = {x \in Held(s) : ScopeOf[x] = sc}
      BY <1>1, EntriesOf, CapacityAssumption DEF Booked, Capped, Indexed
    <3>2. CASE sc = scope
      <4>1. k \notin s.keysByScope[sc] => ~(Cardinality(s.keysByScope[sc]) >= MaxPerScope)
        BY <2>1, <3>1, <3>2 DEF ScopeFull, k, scope
      <4>. QED BY <1>1, <1>9, <3>1, <3>2, <4>1, RoomForOne
    <3>3. CASE sc # scope
      <4>1. t.keysByScope[sc] = s.keysByScope[sc]
        BY <1>9, <3>1, <3>3 DEF scope
      <4>. QED BY <3>1, <4>1
    <3>. QED BY <3>2, <3>3
  <2>. QED BY <2>2, <2>3 DEF Capped
<1>13. Outlives(t)
  <2>1. ASSUME NEW x \in Held(t) PROVE t.lastScopeSweep[ScopeOf[x]] < t.entries[x].expiresAt
    <3>1. x \in Keys /\ ScopeOf[x] \in Scopes
      BY <2>1, CapacityAssumption DEF Held
    <3>2. CASE x = k
      <4>1. r.lastScopeSweep[scope] <= now /\ r.lastScopeSweep[scope] \in Int
        BY <1>1, <1>2, EntriesOf, NeverIsPast DEF Booked, Swept, Times
      <4>2. t.entries[x].expiresAt = now + Ttl
        BY <1>1, <1>3, <1>4, <1>5, <3>2
      <4>. QED BY <1>3, <1>5, <3>2, <4>1, <4>2 DEF scope
    <3>3. CASE x # k
      <4>1. x \in Held(r) /\ t.entries[x] = r.entries[x]
        BY <1>4, <1>5, <1>7, <1>8, <2>1, <3>1, <3>3
      <4>. QED BY <1>2, <1>5, <4>1 DEF Sound, Outlives
    <3>. QED BY <3>2, <3>3
  <2>. QED BY <2>1 DEF Outlives
<1>. QED BY <1>5, <1>6, <1>10, <1>11, <1>12, <1>13 DEF Sound, Booked, t, k
-----------------------------------------------------------------------------
(* What a claim does, by its outcome. *)

Gone(s, t, x) == t.entries[x] = Absent /\ Expired(s.entries[x])

(* c's claim is in t, and t is s without some expired entries otherwise. *)
Entered(s, t, c) ==
  /\ Sound(t)
  /\ t.entries[req[c].key] = Pending(c)
  /\ \A x \in Keys \ {req[c].key} : t.entries[x] = s.entries[x] \/ Gone(s, t, x)

NoneLongDead(t, c) ==
  \A x \in Keys : ScopeOf[x] = ScopeOf[req[c].key] => ~LongDead(t.entries[x])

LEMMA InsertEnters ==
  ASSUME NEW s, NEW t, Tidied(s, t), now \in Nat, req \in [Callers -> Requests], NEW c \in Callers,
         t.entries[req[c].key] = Absent => ~ScopeFull(t, ScopeOf[req[c].key]) /\ ~StoreFull(t)
  PROVE  Entered(s, Insert(t, c), c)
<1> DEFINE u == Insert(t, c)
<1>1. Sound(t) /\ t.entries \in [Keys -> Entries] /\ req[c].key \in Keys
  BY EntriesOf DEF Tidied, Sound, Requests
<1>2. Sound(u) /\ u.entries = [t.entries EXCEPT ![req[c].key] = Pending(c)]
  BY <1>1, InsertDoes
<1> HIDE DEF u
<1>3. /\ u.entries[req[c].key] = Pending(c)
      /\ \A x \in Keys \ {req[c].key} : u.entries[x] = t.entries[x]
  BY <1>1, <1>2
<1>. QED BY <1>2, <1>3 DEF Tidied, Entered, Gone, u

LEMMA EmptyNotFull ==
  ASSUME NEW s, NEW scope, ScopeFull(s, scope)
  PROVE  s.keysByScope[scope] # {}
  BY CapacityAssumption, FS_EmptySet DEF ScopeFull

LEMMA TidiedNotFull ==
  ASSUME NEW s, NEW t, Sound(s), Tidied(s, t), NEW scope \in Scopes, ~ScopeFull(s, scope)
  PROVE  ~ScopeFull(t, scope)
<1>1. t.keysByScope[scope] \in SUBSET s.keysByScope[scope]
  <2>1. Held(t) \in SUBSET Held(s)
    BY DEF Tidied, Held, Expired
  <2>. QED BY <2>1 DEF Tidied, Sound, Booked, Indexed
<1>2. IsFiniteSet(s.keysByScope[scope])
  BY EntriesOf, CapacityAssumption, FS_Subset DEF Sound
<1>3. /\ Cardinality(t.keysByScope[scope]) <= Cardinality(s.keysByScope[scope])
      /\ Cardinality(t.keysByScope[scope]) \in Nat /\ Cardinality(s.keysByScope[scope]) \in Nat
  BY <1>1, <1>2, FS_Subset, FS_CardinalityType
<1>. QED BY <1>3, CapacityAssumption DEF ScopeFull

LEMMA AdmitDoes ==
  ASSUME NEW s, Sound(s), now \in 0..MaxTime, req \in [Callers -> Requests],
         NEW c \in Callers, s.entries[req[c].key] = Absent
  PROVE  LET a == Admit(s, c) IN
         /\ a.outcome \in {"claimed", "capacity-exceeded", "rejected"}
         /\ a.outcome = "claimed" => Entered(s, a.store, c)
         /\ a.outcome # "claimed" => Tidied(s, a.store)
         /\ a.outcome = "capacity-exceeded" => NoneLongDead(a.store, c)
<1> DEFINE scope == ScopeOf[req[c].key]
           s1 == IF ScopeFull(s, scope) THEN SweepScope(s, scope) ELSE s
           s2 == IF StoreFull(s1) THEN Sweep(s1) ELSE s1
<1>1. /\ req[c].key \in Keys /\ scope \in Scopes /\ now \in Nat
  BY CapacityAssumption DEF Requests
<1>2. /\ Tidied(s, s1)
      /\ ScopeFull(s1, scope) => NoneLongDead(s1, c)
  <2>1. CASE ScopeFull(s, scope)
    BY <1>1, <2>1, EmptyNotFull, SweepScopeTidies DEF NoneLongDead
  <2>2. CASE ~ScopeFull(s, scope)
    BY <2>2 DEF Tidied
  <2>. QED BY <2>1, <2>2
<1> HIDE DEF s1
<1>3. Tidied(s1, s2)
  <2>1. Sound(s1)
    BY <1>2 DEF Tidied
  <2>2. CASE StoreFull(s1)
    BY <2>1, <2>2, SweepTidies
  <2>3. CASE ~StoreFull(s1)
    BY <2>1, <2>3 DEF Tidied
  <2>. QED BY <2>2, <2>3
<1> HIDE DEF s2
<1>4. Tidied(s, s2)
  BY <1>2, <1>3, TidiedTwice
<1>5. CASE ScopeFull(s1, scope)
  <2>1. Admit(s, c) = [store |-> s1, outcome |-> "capacity-exceeded"]
    BY <1>5 DEF Admit, s1
  <2>. QED BY <1>2, <1>5, <2>1
<1>6. CASE ~ScopeFull(s1, scope) /\ StoreFull(s2)
  <2>1. Admit(s, c) = [store |-> s2, outcome |-> "rejected"]
    BY <1>6 DEF Admit, s1, s2
  <2>. QED BY <1>4, <2>1
<1>7. CASE ~ScopeFull(s1, scope) /\ ~StoreFull(s2)
  <2>1. Admit(s, c) = [store |-> Insert(s2, c), outcome |-> "claimed"]
    BY <1>7 DEF Admit, s1, s2
  <2>2. ~ScopeFull(s2, scope)
    BY <1>1, <1>2, <1>3, <1>7, TidiedNotFull DEF Tidied
  <2>3. Entered(s, Insert(s2, c), c)
    BY <1>1, <1>4, <1>7, <2>2, InsertEnters
  <2>. QED BY <2>1, <2>3
<1>. QED BY <1>5, <1>6, <1>7

(* The states of its key in which a caller is granted it. *)
Grantable(c) ==
  LET e == store.entries[req[c].key] IN
  \/ e = Absent \/ Expired(e)
  \/ e.state = "p" /\ e.fp = req[c].fp /\ e.leaseUntil <= now

LEMMA ClaimDoes ==
  ASSUME Flow, Sound(store), NEW c \in Callers
  PROVE  LET a == ClaimCall(c)
             e == store.entries[req[c].key]
         IN /\ a.outcome \in DOMAIN AnswerTo
            /\ a.outcome = "claimed" => Entered(store, a.store, c) /\ Grantable(c)
            /\ a.outcome # "claimed" => Tidied(store, a.store)
            /\ a.outcome = "completed" => e.state = "c" /\ e.fp = req[c].fp /\ ~Expired(e)
            /\ a.outcome = "capacity-exceeded" => NoneLongDead(a.store, c)
<1> DEFINE k == req[c].key
           s == Lookup(store, k)
           e == s.entries[k]
<1>1. /\ k \in Keys /\ now \in 0..MaxTime /\ now \in Nat /\ req \in [Callers -> Requests]
      /\ store.entries \in [Keys -> Entries]
  BY CapacityAssumption, EntriesOf DEF Flow, Requests, Sound
<1>2. Tidied(store, s) /\ Sound(s)
      /\ e = (IF Expired(store.entries[k]) THEN Absent ELSE store.entries[k])
  <2> HIDE DEF k
  <2>1. /\ Tidied(store, s)
        /\ s.entries = [store.entries EXCEPT ![k] = IF Expired(@) THEN Absent ELSE @]
    BY <1>1, LookupTidies
  <2> HIDE DEF s
  <2>2. s.entries[k] = (IF Expired(store.entries[k]) THEN Absent ELSE store.entries[k])
    BY <1>1, <2>1
  <2>. QED BY <2>1, <2>2 DEF Tidied
<1>3. DOMAIN AnswerTo = {"claimed", "completed", "in-progress", "fingerprint-mismatch",
                         "capacity-exceeded", "rejected"}
  BY DEF AnswerTo
<1>4. CASE e = Absent
  <2>1. ClaimCall(c) = Admit(s, c)
    BY <1>4 DEF ClaimCall
  <2>2. store.entries[k] = Absent \/ Expired(store.entries[k])
    BY <1>2, <1>4
  <2> HIDE DEF s
  <2>3. LET a == Admit(s, c) IN
         /\ a.outcome \in {"claimed", "capacity-exceeded", "rejected"}
         /\ a.outcome = "claimed" => Entered(s, a.store, c)
         /\ a.outcome # "claimed" => Tidied(s, a.store)
         /\ a.outcome = "capacity-exceeded" => NoneLongDead(a.store, c)
    BY <1>1, <1>2, <1>4, AdmitDoes
  <2> DEFINE t == Admit(s, c).store
             o == Admit(s, c).outcome
  <2>4. o = "claimed" => Entered(store, t, c) /\ Grantable(c)
    <3>1. o = "claimed" => Entered(s, t, c)
      BY <2>3
    <3> HIDE DEF t, o
    <3>. QED BY <1>2, <2>2, <3>1 DEF Entered, Tidied, Gone, Expired, Grantable
  <2>5. o # "claimed" => Tidied(store, t)
    <3>1. o # "claimed" => Tidied(s, t)
      BY <2>3
    <3> HIDE DEF t, o
    <3>. QED BY <1>2, <3>1, TidiedTwice
  <2>. QED BY <1>3, <2>1, <2>3, <2>4, <2>5
<1>5. CASE e # Absent
  <2>1. e = store.entries[k] /\ ~Expired(store.entries[k]) /\ e \in Entries
    BY <1>1, <1>2, <1>5
  <2>2. CASE e.fp # req[c].fp
    <3>1. ClaimCall(c) = [store |-> s, outcome |-> "fingerprint-mismatch"]
      BY <1>5, <2>2 DEF ClaimCall
    <3>. QED BY <1>2, <1>3, <3>1
  <2>3. CASE e.fp = req[c].fp /\ e.state = "c"
    <3>1. ClaimCall(c) = [store |-> s, outcome |-> "completed"]
      BY <1>5, <2>3 DEF ClaimCall
    <3>. QED BY <1>2, <1>3, <2>1, <2>3, <3>1
  <2>4. CASE e.fp = req[c].fp /\ e.state # "c" /\ e.leaseUntil > now
    <3>1. ClaimCall(c) = [store |-> s, outcome |-> "in-progress"]
      BY <1>5, <2>4 DEF ClaimCall
    <3>. QED BY <1>2, <1>3, <3>1
  <2>5. CASE e.fp = req[c].fp /\ e.state # "c" /\ ~(e.leaseUntil > now)
    <3>1. ClaimCall(c) = [store |-> Insert(s, c), outcome |-> "claimed"]
      BY <1>5, <2>5 DEF ClaimCall
    <3>2. Entered(store, Insert(s, c), c)
      <4> HIDE DEF s
      <4>. QED BY <1>1, <1>2, <1>5, InsertEnters
    <3>3. Grantable(c)
      <4>1. e.state = "p" /\ e.leaseUntil <= now
        BY <1>1, <1>5, <2>1, <2>5 DEF Entries
      <4>. QED BY <2>1, <2>5, <4>1 DEF Grantable
    <3>. QED BY <1>3, <3>1, <3>2, <3>3
  <2>. QED BY <2>2, <2>3, <2>4, <2>5
<1>. QED BY <1>4, <1>5
-----------------------------------------------------------------------------
(* What the calls of a holder do. *)

LEMMA HeldLookup ==
  ASSUME Flow, Sound(store), NEW c \in Callers, Holds(Lookup(store, req[c].key), c)
  PROVE  /\ Lookup(store, req[c].key) = store
         /\ Holds(store, c) /\ ~Expired(store.entries[req[c].key])
<1>1. req[c].key \in Keys /\ now \in Nat /\ store.entries \in [Keys -> Entries]
  BY CapacityAssumption, EntriesOf DEF Flow, Requests, Sound
<1>2. CASE Expired(store.entries[req[c].key])
  <2> DEFINE s == Lookup(store, req[c].key)
  <2>1. s.entries[req[c].key] = Absent
    <3>1. s.entries = [store.entries EXCEPT ![req[c].key] = IF Expired(@) THEN Absent ELSE @]
      BY <1>1, LookupTidies
    <3> HIDE DEF s
    <3>. QED BY <1>1, <1>2, <3>1
  <2>2. s.entries[req[c].key].state = "p"
    BY DEF Holds
  <2>. QED BY <2>1, <2>2 DEF Absent
<1>3. CASE ~Expired(store.entries[req[c].key])
  BY <1>3 DEF Lookup
<1>. QED BY <1>2, <1>3

(* The store with e for the entry of c's key. *)
Replaced(t, c, e) ==
  /\ Sound(t)
  /\ t.entries = [store.entries EXCEPT ![req[c].key] = e]

LEMMA CompleteDoes ==
  ASSUME Flow, Sound(store), NEW c \in Callers, Holds(store, c)
  PROVE  LET k == req[c].key
             e == Completed(c, store.entries[k])
         IN /\ e \in Entries
            /\ Replaced([store EXCEPT !.entries[k] = e, !.bytes = @ + RecordBytes], c, e)
<1> DEFINE k == req[c].key
           e == Completed(c, store.entries[k])
           t == [store EXCEPT !.entries[k] = e, !.bytes = @ + RecordBytes]
<1>1. /\ k \in Keys /\ now \in Nat /\ Booked(store) /\ store.entries \in [Keys -> Entries]
      /\ store \in Stores /\ store.bytes \in Nat /\ ScopeOf[k] \in Scopes
      /\ store.lastScopeSweep \in [Scopes -> Times]
  BY CapacityAssumption, EntriesOf DEF Flow, Requests, Sound, Stores
<1>2. /\ store.entries[k] # Absent /\ store.entries[k].state = "p"
      /\ store.entries[k].fp \in Prints
      /\ Size(store.entries[k]) = 1
  <2>1. store.entries[k].state = "p" /\ store.entries[k] \in Entries
    BY <1>1 DEF Holds
  <2> HIDE DEF k
  <2>. QED BY <2>1 DEF Entries, Absent, Size
<1>3. /\ e \in Entries /\ e # Absent /\ e.expiresAt = now + Ttl /\ Size(e) = 1 + RecordBytes
      /\ RecordBytes \in Nat /\ Ttl \in Nat /\ 0 < Ttl
  <2>1. RecordBytes \in Nat /\ Ttl \in Nat /\ 0 < Ttl
    BY CapacityAssumption
  <2>2. e \in Entries /\ e.state = "c"
    BY <1>1, <1>2, <2>1 DEF Completed, Entries
  <2>. QED BY <2>1, <2>2 DEF Completed, Absent, Size
<1> HIDE DEF e, k
<1>4. /\ t \in Stores /\ t.entries = [store.entries EXCEPT ![k] = e]
      /\ t.bytes = store.bytes + RecordBytes
      /\ t.keysByScope = store.keysByScope /\ t.scopeOfKey = store.scopeOfKey
      /\ t.lastScopeSweep = store.lastScopeSweep
  <2>1. store = [entries |-> store.entries, keysByScope |-> store.keysByScope,
                 scopeOfKey |-> store.scopeOfKey, lastScopeSweep |-> store.lastScopeSweep,
                 lastSweep |-> store.lastSweep, bytes |-> store.bytes]
    BY <1>1 DEF Stores
  <2>2. t = [entries |-> [store.entries EXCEPT ![k] = e], keysByScope |-> store.keysByScope,
             scopeOfKey |-> store.scopeOfKey, lastScopeSweep |-> store.lastScopeSweep,
             lastSweep |-> store.lastSweep, bytes |-> store.bytes + RecordBytes]
    <3>1. t = [store EXCEPT !.entries[k] = e, !.bytes = @ + RecordBytes]
      OBVIOUS
    <3> HIDE DEF t
    <3>. QED BY <2>1, <3>1
  <2> HIDE DEF t
  <2>3. [store.entries EXCEPT ![k] = e] \in [Keys -> Entries] /\ store.bytes + RecordBytes \in Nat
    BY <1>1, <1>3
  <2>. QED BY <1>1, <2>2, <2>3 DEF Stores
<1> HIDE DEF t
<1>5. Held(t) = Held(store)
  BY <1>1, <1>2, <1>3, <1>4 DEF Held
<1>6. t.bytes = Bytes(t.entries)
  <2>1. /\ Bytes(store.entries) \in Nat
        /\ Bytes([store.entries EXCEPT ![k] = e]) = Bytes(store.entries) - Size(store.entries[k]) + Size(e)
    BY <1>1, <1>3, BytesChange
  <2>2. store.bytes = Bytes(store.entries)
    BY <1>1 DEF Booked, Indexed
  <2>. QED BY <1>2, <1>3, <1>4, <2>1, <2>2
<1>7. Booked(t)
  BY <1>1, <1>4, <1>5, <1>6 DEF Booked, Indexed, Swept, Capped
<1>8. Outlives(t)
  <2>1. ASSUME NEW x \in Held(t) PROVE t.lastScopeSweep[ScopeOf[x]] < t.entries[x].expiresAt
    <3>1. x \in Keys
      BY <2>1 DEF Held
    <3>2. CASE x = k
      <4>1. store.lastScopeSweep[ScopeOf[k]] <= now /\ store.lastScopeSweep[ScopeOf[k]] \in Int
        BY <1>1, NeverIsPast DEF Booked, Swept, Times
      <4>2. t.entries[x].expiresAt = now + Ttl
        BY <1>1, <1>3, <1>4, <3>2
      <4>. QED BY <1>1, <1>3, <1>4, <3>2, <4>1, <4>2
    <3>3. CASE x # k
      <4>1. x \in Held(store) /\ t.entries[x] = store.entries[x]
        BY <1>1, <1>4, <1>5, <2>1, <3>1, <3>3
      <4>. QED BY <1>4, <4>1 DEF Sound, Outlives
    <3>. QED BY <3>2, <3>3
  <2>. QED BY <2>1 DEF Outlives
<1>. QED BY <1>3, <1>4, <1>7, <1>8 DEF Sound, Replaced, t, e, k

LEMMA ReleaseDoes ==
  ASSUME Flow, Sound(store), NEW c \in Callers
  PROVE  Replaced(Remove(store, req[c].key), c, Absent)
<1>1. req[c].key \in Keys /\ now \in Nat
  BY CapacityAssumption DEF Flow, Requests
<1>. QED BY <1>1, RemoveSound DEF Without, Replaced

LEMMA EmptySound ==
  ASSUME Flow, NEW t, t \in Stores, t.entries = Empty.entries, t.keysByScope = Empty.keysByScope,
         t.scopeOfKey = Empty.scopeOfKey, t.lastScopeSweep = Empty.lastScopeSweep, t.bytes = 0
  PROVE  Sound(t)
<1>1. Held(t) = {} /\ \A k \in Keys : t.entries[k] = Absent
  BY DEF Held, Empty
<1>2. Bytes(t.entries) = 0
  BY <1>1, BytesEmpty DEF Stores
<1>3. Indexed(t)
  BY <1>1, <1>2 DEF Indexed, Empty
<1>4. Swept(t)
  BY NeverIsPast, CapacityAssumption DEF Swept, Empty, Flow
<1>5. Capped(t)
  BY <1>1, CapacityAssumption, FS_EmptySet DEF Capped, Empty
<1>. QED BY <1>1, <1>3, <1>4, <1>5 DEF Sound, Booked, Outlives
-----------------------------------------------------------------------------
(* Each of these keeps the invariant. *)

LEMMA SoundNext ==
  ASSUME NEW t, store' = t, now' = now, Sound(t)
  PROVE  Sound(store)'
  BY DEF Sound, Booked, Indexed, Swept, Capped, Outlives, Stores, Times

LEMMA TidiedInv ==
  ASSUME IInv, NEW t, store' = t, Tidied(store, t), UNCHANGED <<now, req, lapsed, keepUntil>>
  PROVE  Sound(store)' /\ Owned' /\ Kept'
<1>1. Sound(store)'
  BY SoundNext DEF Tidied
<1>2. Owned'
  BY DEF IInv, Owned, Tidied, Absent
<1>3. Kept'
  <2>1. ASSUME NEW d \in Callers, keepUntil[d] > now
        PROVE  t.entries[req[d].key] = store.entries[req[d].key]
    <3>1. req[d].key \in Keys
      BY DEF IInv, Flow, Requests
    <3>2. ~Expired(store.entries[req[d].key])
      BY <2>1, CapacityAssumption DEF IInv, Flow, Kept, Expired
    <3>. QED BY <3>1, <3>2 DEF Tidied
  <2>. QED BY <2>1 DEF IInv, Kept
<1>. QED BY <1>1, <1>2, <1>3

LEMMA EnteredInv ==
  ASSUME IInv, NEW c \in Callers, NEW t, store' = t, Entered(store, t, c), Grantable(c),
         UNCHANGED <<now, req, lapsed, keepUntil>>
  PROVE  Sound(store)' /\ Owned' /\ Kept'
<1>1. req[c].key \in Keys /\ now \in Nat /\ req[c] = [key |-> req[c].key, fp |-> req[c].fp]
  BY CapacityAssumption DEF IInv, Flow, Requests
<1>2. Sound(store)'
  BY SoundNext DEF Entered
<1>3. Owned'
  <2>1. /\ Pending(c).state = "p" /\ Pending(c).token = c /\ Pending(c).fp = req[c].fp
        /\ Pending(c).leaseUntil <= Pending(c).expiresAt
        /\ ~(Pending(c).leaseUntil <= now)
    BY <1>1, CapacityAssumption DEF Pending
  <2>. QED BY <1>1, <2>1 DEF IInv, Owned, Entered, Gone, Absent
<1>4. Kept'
  <2>1. ASSUME NEW d \in Callers, keepUntil[d] > now
        PROVE  t.entries[req[d].key] = store.entries[req[d].key]
    <3>1. req[d].key \in Keys
      BY DEF IInv, Flow, Requests
    <3>2. /\ store.entries[req[d].key].state = "c"
          /\ ~Expired(store.entries[req[d].key])
      BY <2>1, CapacityAssumption DEF IInv, Flow, Kept, Expired
    <3>3. req[d].key # req[c].key
      BY <3>2 DEF Grantable, Absent
    <3>. QED BY <3>1, <3>2, <3>3 DEF Entered, Gone
  <2>. QED BY <2>1 DEF IInv, Kept
<1>. QED BY <1>2, <1>3, <1>4

LEMMA ReplacedInv ==
  ASSUME IInv, NEW c \in Callers, Holds(store, c), NEW e, NEW t, store' = t, Replaced(t, c, e),
         UNCHANGED <<now, req, lapsed>>,
         \/ e = Absent /\ keepUntil' = keepUntil
         \/ /\ e = Completed(c, store.entries[req[c].key])
            /\ keepUntil' = [keepUntil EXCEPT ![c] = now + Ttl]
  PROVE  Sound(store)' /\ Owned' /\ Kept'
<1> DEFINE k == req[c].key
<1>1. k \in Keys /\ now \in Nat /\ Ttl \in Nat /\ store.entries \in [Keys -> Entries]
  BY CapacityAssumption, EntriesOf DEF IInv, Flow, Requests, Sound
<1>2. store.entries[k].state = "p" /\ req[c] = [key |-> k, fp |-> store.entries[k].fp]
  BY <1>1 DEF IInv, Owned, Holds
<1>3. t.entries[k] = e /\ \A x \in Keys \ {k} : t.entries[x] = store.entries[x]
  BY <1>1 DEF Replaced
<1>4. Sound(store)'
  BY SoundNext DEF Replaced
<1>5. \/ e.state = "absent"
      \/ e.state = "c" /\ e.record = c /\ e.fp = store.entries[k].fp
  BY DEF Absent, Completed
<1>6. Owned'
  BY <1>2, <1>3, <1>5 DEF IInv, Owned
<1>7. Kept'
  <2>1. keepUntil' \in [Callers -> Nat]
    BY <1>1 DEF IInv, Kept
  <2>2. ASSUME NEW d \in Callers, keepUntil'[d] > now
        PROVE  /\ t.entries[req[d].key].state = "c"
               /\ t.entries[req[d].key].expiresAt = keepUntil'[d]
    <3>1. req[d].key \in Keys
      BY DEF IInv, Flow, Requests
    <3>2. CASE keepUntil'[d] = keepUntil[d]
      <4>1. /\ store.entries[req[d].key].state = "c"
            /\ store.entries[req[d].key].expiresAt = keepUntil[d]
        BY <2>2, <3>2 DEF IInv, Kept
      <4>. QED BY <1>2, <1>3, <3>1, <3>2, <4>1
    <3>3. CASE keepUntil'[d] # keepUntil[d]
      <4>1. d = c /\ keepUntil'[d] = now + Ttl /\ e = Completed(c, store.entries[req[c].key])
        BY <3>3 DEF IInv, Kept
      <4>. QED BY <1>3, <4>1 DEF Completed
    <3>. QED BY <3>2, <3>3
  <2>. QED BY <2>1, <2>2 DEF Kept
<1>. QED BY <1>4, <1>6, <1>7

LEMMA ClaimInv ==
  ASSUME IInv, NEW c \in Callers, Claim(c)
  PROVE  IInv'
<1> DEFINE a == ClaimCall(c)
           e == store.entries[req[c].key]
<1>1. /\ a.outcome \in DOMAIN AnswerTo
      /\ a.outcome = "claimed" => Entered(store, a.store, c) /\ Grantable(c)
      /\ a.outcome # "claimed" => Tidied(store, a.store)
      /\ a.outcome = "completed" => e.state = "c" /\ e.fp = req[c].fp /\ ~Expired(e)
  BY ClaimDoes DEF IInv
<1>2. /\ store' = a.store
      /\ pc' = [pc EXCEPT ![c] = IF a.outcome = "claimed" THEN "running" ELSE "answered"]
      /\ answer' = [answer EXCEPT ![c] = AnswerTo[a.outcome]]
      /\ body' = IF a.outcome = "completed" THEN [body EXCEPT ![c] = e.record] ELSE body
      /\ UNCHANGED <<now, req, lapsed, keepUntil>>
  BY DEF Claim
<1> HIDE DEF a
<1>3. Sound(store)' /\ Owned' /\ Kept'
  BY <1>1, <1>2, EnteredInv, TidiedInv
<1>4. AnswerTo[a.outcome] \in Answers /\ (AnswerTo[a.outcome] = "none" <=> a.outcome = "claimed")
  BY <1>1 DEF AnswerTo, Answers
<1>5. a.outcome = "completed" => e.record \in Callers
  <2>1. e \in Entries
    BY EntriesOf DEF IInv, Flow, Sound, Requests
  <2>. QED BY <1>1, <2>1 DEF Entries, Absent
<1>6. Flow'
  <2>1. body' \in [Callers -> Callers \cup {NoBody}]
    BY <1>2, <1>5 DEF IInv, Flow
  <2>2. /\ pc' \in [Callers -> {"new", "running", "answered"}]
        /\ answer' \in [Callers -> Answers]
        /\ \A d \in Callers : pc'[d] = "answered" <=> answer'[d] # "none"
    BY <1>2, <1>4 DEF IInv, Flow
  <2>. QED BY <1>2, <2>1, <2>2 DEF IInv, Flow
<1>. QED BY <1>3, <1>6 DEF IInv

LEMMA FinishFlow ==
  ASSUME Flow, NEW c \in Callers, NEW result \in Answers \ {"none"}, NEW s, FinishWith(c, result, s)
  PROVE  Flow'
  BY DEF Flow, FinishWith

(* Completing and releasing, by what the store says of the claim. *)
LEMMA SettleDoes ==
  ASSUME IInv, NEW c \in Callers, Complete(c) \/ Release(c)
  PROVE  LET e == Completed(c, store.entries[req[c].key]) IN
         \/ /\ Holds(store, c) /\ ~Expired(store.entries[req[c].key])
            /\ Replaced(store', c, e) /\ FinishWith(c, "completed", store')
            /\ keepUntil' = [keepUntil EXCEPT ![c] = now + Ttl]
            /\ Complete(c)
         \/ /\ Holds(store, c) /\ ~Expired(store.entries[req[c].key])
            /\ Replaced(store', c, Absent) /\ FinishWith(c, "released", store')
            /\ keepUntil' = keepUntil
            /\ Release(c)
         \/ /\ ~(Holds(store, c) /\ ~Expired(store.entries[req[c].key]))
            /\ Tidied(store, store') /\ FinishWith(c, "lost", store')
            /\ keepUntil' = keepUntil
<1> DEFINE k == req[c].key
           s == Lookup(store, k)
<1>1. /\ k \in Keys /\ now \in Nat /\ Flow /\ Sound(store)
  BY CapacityAssumption DEF IInv, Flow, Requests
<1>2. CASE Holds(s, c)
  <2>1. s = store /\ Holds(store, c) /\ ~Expired(store.entries[k])
    BY <1>1, <1>2, HeldLookup
  <2>2. CASE Complete(c)
    <3> DEFINE e == Completed(c, store.entries[k])
               t == [store EXCEPT !.entries[k] = e, !.bytes = @ + RecordBytes]
    <3>1. FinishWith(c, "completed", t) /\ keepUntil' = [keepUntil EXCEPT ![c] = now + Ttl]
      BY <1>2, <2>1, <2>2 DEF Complete
    <3>2. Replaced(t, c, e)
      BY <1>1, <2>1, CompleteDoes
    <3> HIDE DEF t
    <3>3. store' = t
      BY <3>1 DEF FinishWith
    <3>. QED BY <2>1, <2>2, <3>1, <3>2, <3>3
  <2>3. CASE Release(c)
    <3> DEFINE t == Remove(store, k)
    <3>1. FinishWith(c, "released", t) /\ keepUntil' = keepUntil
      BY <1>2, <2>1, <2>3 DEF Release
    <3>2. Replaced(t, c, Absent)
      BY <1>1, ReleaseDoes
    <3> HIDE DEF t
    <3>3. store' = t
      BY <3>1 DEF FinishWith
    <3>. QED BY <2>1, <2>3, <3>1, <3>2, <3>3
  <2>. QED BY <2>2, <2>3
<1>3. CASE ~Holds(s, c)
  <2>1. FinishWith(c, "lost", s) /\ keepUntil' = keepUntil
    BY <1>3 DEF Complete, Release
  <2>2. Tidied(store, s)
    BY <1>1, LookupTidies
  <2>3. ~Expired(store.entries[k]) => s = store
    BY DEF Lookup
  <2> HIDE DEF s
  <2>4. store' = s
    BY <2>1 DEF FinishWith
  <2>. QED BY <1>3, <2>1, <2>2, <2>3, <2>4
<1>. QED BY <1>2, <1>3

LEMMA SettleInv ==
  ASSUME IInv, NEW c \in Callers, Complete(c) \/ Release(c)
  PROVE  IInv'
<1> DEFINE e == Completed(c, store.entries[req[c].key])
<1>1. CASE /\ Holds(store, c)
           /\ Replaced(store', c, e) /\ FinishWith(c, "completed", store')
           /\ keepUntil' = [keepUntil EXCEPT ![c] = now + Ttl]
  <2>1. UNCHANGED <<now, req, lapsed>>
    BY <1>1 DEF FinishWith
  <2>2. Sound(store)' /\ Owned' /\ Kept'
    BY <1>1, <2>1, ReplacedInv
  <2>. QED BY <1>1, <2>2, FinishFlow DEF IInv, Answers
<1>2. CASE /\ Holds(store, c)
           /\ Replaced(store', c, Absent) /\ FinishWith(c, "released", store')
           /\ keepUntil' = keepUntil
  <2>1. UNCHANGED <<now, req, lapsed>>
    BY <1>2 DEF FinishWith
  <2>2. Sound(store)' /\ Owned' /\ Kept'
    BY <1>2, <2>1, ReplacedInv
  <2>. QED BY <1>2, <2>2, FinishFlow DEF IInv, Answers
<1>3. CASE Tidied(store, store') /\ FinishWith(c, "lost", store') /\ keepUntil' = keepUntil
  <2>1. UNCHANGED <<now, req, lapsed, keepUntil>>
    BY <1>3 DEF FinishWith
  <2>2. Sound(store)' /\ Owned' /\ Kept'
    BY <1>3, <2>1, TidiedInv
  <2>. QED BY <1>3, <2>2, FinishFlow DEF IInv, Answers
<1>. QED BY <1>1, <1>2, <1>3, SettleDoes

LEMMA DisconnectInv ==
  ASSUME IInv, Disconnect
  PROVE  IInv'
<1> DEFINE t == [Empty EXCEPT !.lastSweep = store.lastSweep]
<1>1. /\ store' = t /\ keepUntil' = [c \in Callers |-> 0]
      /\ UNCHANGED <<now, req, pc, answer, body>>
      /\ lapsed' = lapsed \cup {c \in Callers : Holds(store, c)}
  BY DEF Disconnect
<1>2. /\ t.entries = Empty.entries /\ t.keysByScope = Empty.keysByScope
      /\ t.scopeOfKey = Empty.scopeOfKey /\ t.lastScopeSweep = Empty.lastScopeSweep
      /\ t.bytes = 0 /\ t \in Stores
  BY NeverIsPast DEF Empty, Stores, IInv, Sound, Booked
<1> HIDE DEF t
<1>3. Sound(t)
  BY <1>2, EmptySound DEF IInv
<1>4. Sound(store)'
  BY <1>1, <1>3, SoundNext
<1>5. Owned'
  BY <1>1, <1>2 DEF Owned, Empty, Absent
<1>6. Kept'
  BY <1>1, CapacityAssumption DEF IInv, Flow, Kept
<1>7. Flow'
  BY <1>1 DEF IInv, Flow
<1>. QED BY <1>4, <1>5, <1>6, <1>7 DEF IInv

LEMMA TickInv ==
  ASSUME IInv, Tick
  PROVE  IInv'
<1>1. /\ now' = now + 1 /\ now' \in 0..MaxTime /\ now \in Nat
      /\ UNCHANGED <<store, req, pc, answer, body, keepUntil>>
      /\ lapsed' = lapsed \cup {c \in Callers : /\ Holds(store, c)
                                               /\ store.entries[req[c].key].leaseUntil <= now + 1}
  BY CapacityAssumption DEF IInv, Flow, Tick
<1>2. Sound(store)'
  <2>1. store.lastScopeSweep \in [Scopes -> Times]
    BY EntriesOf DEF IInv, Sound
  <2>2. Swept(store)'
    BY <1>1, <2>1, NeverIsPast DEF IInv, Sound, Booked, Swept, Times
  <2>. QED BY <1>1, <2>2 DEF IInv, Sound, Booked, Indexed, Capped, Outlives, Stores, Times
<1>3. Owned'
  <2> SUFFICES ASSUME NEW k \in Keys, store.entries[k].state = "p",
                      store.entries[k].leaseUntil <= now + 1
               PROVE  store.entries[k].token \in lapsed'
    BY <1>1 DEF IInv, Owned
  <2>1. req[store.entries[k].token].key = k
    <3>1. Owned
      BY DEF IInv
    <3>2. req[store.entries[k].token] = [key |-> k, fp |-> store.entries[k].fp]
      BY <3>1 DEF Owned
    <3>. QED BY <3>2
  <2>2. store.entries[k].token \in Callers
    <3>1. store.entries[k] \in Entries
      BY EntriesOf DEF IInv, Sound
    <3>. QED BY <3>1 DEF Entries, Absent
  <2>. QED BY <1>1, <2>1, <2>2 DEF Holds
<1>4. Kept'
  BY <1>1 DEF IInv, Kept
<1>5. Flow'
  BY <1>1 DEF IInv, Flow
<1>. QED BY <1>2, <1>3, <1>4, <1>5 DEF IInv

LEMMA InitInv == Init => IInv
<1> SUFFICES ASSUME Init PROVE IInv
  OBVIOUS
<1>1. Flow
  BY CapacityAssumption DEF Init, Flow, Answers
<1>2. Empty \in Stores
  BY NeverIsPast DEF Empty, Stores
<1>3. Sound(store)
  <2>1. store = Empty /\ Empty.bytes = 0
    BY DEF Init, Empty
  <2>. QED BY <1>1, <1>2, <2>1, EmptySound
<1>4. Owned /\ Kept
  BY CapacityAssumption DEF Init, Owned, Kept, Empty, Absent
<1>. QED BY <1>1, <1>3, <1>4 DEF IInv

(* The inductive invariant of the memory store and its middleware. *)
THEOREM MemoryInvariant == Spec => []IInv
<1>1. IInv /\ [Next]_vars => IInv'
  <2> SUFFICES ASSUME IInv, [Next]_vars PROVE IInv'
    OBVIOUS
  <2>1. CASE Next
    BY <2>1, ClaimInv, SettleInv, DisconnectInv, TickInv DEF Next
  <2>2. CASE UNCHANGED vars
    <3>1. /\ UNCHANGED <<now, store, req, pc, answer, body, lapsed, keepUntil>>
          /\ Sound(store)
      BY <2>2 DEF vars, IInv
    <3>2. Sound(store)'
      BY <3>1, SoundNext
    <3>. QED BY <3>1, <3>2 DEF IInv, Flow, Owned, Kept
  <2>. QED BY <2>1, <2>2
<1>. QED BY InitInv, <1>1, PTL DEF Spec

(* Type correctness of the store's five private fields and the middleware. *)
THEOREM MemoryTypeOK == Spec => []TypeOK
<1>1. IInv => TypeOK
  BY DEF IInv, Flow, Sound, Booked, Stores, Times, TypeOK
<1>. QED BY MemoryInvariant, <1>1, PTL

(* The store's indexes, byte count, sweep rows and caps always agree with  *)
(* its entries, whatever is claimed, taken over, swept or dropped.         *)
THEOREM MemoryAccounting == Spec => []Accounting
<1>1. IInv => Accounting
  BY DEF IInv, Sound, Booked, Indexed, Swept, Capped, Bytes, Accounting
<1>. QED BY MemoryInvariant, <1>1, PTL

(* A completed key is granted to nobody for the whole of its TTL, however  *)
(* full the store gets.                                                    *)
THEOREM MemoryRetainedForTtl == Spec => RetainedForTtl
<1> DEFINE NoEarlyGrant ==
      \A c, d \in Callers :
        /\ pc[c] = "new" /\ pc'[c] = "running"
        /\ req[d].key = req[c].key
        => now >= keepUntil[d]
<1>1. IInv /\ [Next]_vars => [NoEarlyGrant]_vars
  <2> SUFFICES ASSUME IInv, Next, NEW c \in Callers, NEW d \in Callers,
                      pc[c] = "new", pc'[c] = "running", req[d].key = req[c].key,
                      keepUntil[d] > now
               PROVE  FALSE
    BY CapacityAssumption DEF IInv, Flow, Kept
  <2>1. Claim(c)
    BY DEF IInv, Flow, Next, Tick, Disconnect, Claim, Complete, Release, FinishWith
  <2>2. ClaimCall(c).outcome = "claimed"
    BY <2>1 DEF Claim, IInv, Flow
  <2>3. Grantable(c)
    BY <2>2, ClaimDoes DEF IInv
  <2>4. store.entries[req[c].key].state = "c" /\ store.entries[req[c].key].expiresAt = keepUntil[d]
    BY DEF IInv, Kept
  <2>. QED BY <2>3, <2>4, CapacityAssumption DEF Grantable, Expired, Absent, IInv, Flow, Kept
<1>. QED BY <1>1, MemoryInvariant, PTL DEF Spec, RetainedForTtl

(* A caller told that its scope is full was counted against no entry that  *)
(* had been dead for a throttle window.                                    *)
THEOREM MemoryRefusalIgnoresTheDead == Spec => RefusalIgnoresTheDead
<1> DEFINE BlamesTheLiving ==
      \A c \in Callers :
        /\ answer[c] = "none" /\ answer'[c] = "429"
        => \A k \in Keys : ScopeOf[k] = ScopeOf[req[c].key] => ~LongDead(store'.entries[k])
<1>1. IInv /\ [Next]_vars => [BlamesTheLiving]_vars
  <2> SUFFICES ASSUME IInv, Next, NEW c \in Callers, answer[c] = "none", answer'[c] = "429"
               PROVE  NoneLongDead(store', c)
    BY DEF NoneLongDead
  <2>1. Claim(c)
    BY DEF IInv, Flow, Next, Tick, Disconnect, Claim, Complete, Release, FinishWith
  <2>2. AnswerTo[ClaimCall(c).outcome] = "429" /\ store' = ClaimCall(c).store
    BY <2>1 DEF Claim, IInv, Flow
  <2>3. ClaimCall(c).outcome \in DOMAIN AnswerTo
    BY ClaimDoes DEF IInv
  <2>4. ClaimCall(c).outcome = "capacity-exceeded"
    BY <2>2, <2>3 DEF AnswerTo
  <2>5. NoneLongDead(ClaimCall(c).store, c)
    BY <2>4, ClaimDoes DEF IInv
  <2>. QED BY <2>2, <2>5
<1>. QED BY <1>1, MemoryInvariant, PTL DEF Spec, RefusalIgnoresTheDead
-----------------------------------------------------------------------------
(* The refinement: the cell of an entry and the phase of a caller. *)

Over(e, n) == e # Absent /\ e.expiresAt <= n

CellIn(e, n) ==
  CASE e = Absent \/ Over(e, n) -> [st |-> "free"]
    [] e.state = "p" /\ ~Over(e, n) -> [st |-> "held", by |-> e.token, stale |-> e.leaseUntil <= n]
    [] e.state = "c" /\ ~Over(e, n) -> [st |-> "done", by |-> e.record]

PhaseIn(p, a) ==
  CASE p # "answered" -> p
    [] p = "answered" /\ a \in {"completed", "released", "lost"} -> a
    [] p = "answered" /\ a = "replay" -> "replayed"
    [] p = "answered" /\ a \in {"409", "422", "429", "503"} -> "refused"

LEMMA BarsAre ==
  /\ CellBar = [k \in Keys |-> CellIn(store.entries[k], now)]
  /\ CellBar' = [k \in Keys |-> CellIn(store'.entries[k], now')]
  /\ PhaseBar = [c \in Callers |-> PhaseIn(pc[c], answer[c])]
  /\ PhaseBar' = [c \in Callers |-> PhaseIn(pc'[c], answer'[c])]
<1>1. CellBar = [k \in Keys |-> CellIn(store.entries[k], now)]
      /\ CellBar' = [k \in Keys |-> CellIn(store'.entries[k], now')]
  BY Zenon DEF CellBar, CellIn, Expired, Over
<1>2. PhaseBar = [c \in Callers |-> PhaseIn(pc[c], answer[c])]
      /\ PhaseBar' = [c \in Callers |-> PhaseIn(pc'[c], answer'[c])]
  BY Zenon DEF PhaseBar, PhaseIn
<1>. QED BY <1>1, <1>2

LEMMA CellsByState ==
  ASSUME NEW e \in Entries, NEW n \in Nat
  PROVE  /\ e = Absent \/ Over(e, n) => CellIn(e, n) = Contract!Free
         /\ e.state = "p" /\ ~Over(e, n) =>
              /\ CellIn(e, n).st = "held" /\ CellIn(e, n).by = e.token
              /\ e.leaseUntil <= n => CellIn(e, n).stale
              /\ e.leaseUntil <= n => CellIn(e, n) = [st |-> "held", by |-> e.token, stale |-> TRUE]
              /\ ~(e.leaseUntil <= n) => CellIn(e, n) = Contract!Held(e.token)
         /\ e.state = "c" /\ ~Over(e, n) => CellIn(e, n) = Contract!Done(e.record)
         /\ CellIn(e, n) \in Contract!Cells
<1>1. Absent.state = "absent"
  BY DEF Absent
<1>2. CASE e = Absent \/ Over(e, n)
  <2>1. CellIn(e, n) = Contract!Free
    BY <1>2, <1>1 DEF CellIn, Contract!Free, Over
  <2>. QED BY <1>1, <1>2, <2>1 DEF Contract!Cells
<1>3. CASE e # Absent /\ ~Over(e, n) /\ e.state = "p"
  <2>1. CellIn(e, n) = [st |-> "held", by |-> e.token, stale |-> e.leaseUntil <= n]
    BY <1>3 DEF CellIn
  <2>2. e.token \in Callers /\ e.leaseUntil \in Nat
    BY <1>3 DEF Entries, Absent
  <2>3. CASE e.leaseUntil <= n
    <3>1. (e.leaseUntil <= n) = TRUE
      BY <2>3
    <3>2. CellIn(e, n) = [st |-> "held", by |-> e.token, stale |-> TRUE]
      BY <2>1, <3>1
    <3>. QED BY <1>3, <2>2, <2>3, <3>2 DEF Contract!Cells
  <2>4. CASE ~(e.leaseUntil <= n)
    <3>1. (e.leaseUntil <= n) = FALSE
      BY <2>4
    <3>2. CellIn(e, n) = [st |-> "held", by |-> e.token, stale |-> FALSE]
      BY <2>1, <3>1
    <3>. QED BY <1>3, <2>2, <2>4, <3>2 DEF Contract!Cells, Contract!Held
  <2>. QED BY <2>3, <2>4
<1>4. CASE e # Absent /\ ~Over(e, n) /\ e.state = "c"
  <2>1. CellIn(e, n) = Contract!Done(e.record)
    BY <1>4 DEF CellIn, Contract!Done
  <2>2. e.record \in Callers
    BY <1>4 DEF Entries, Absent
  <2>. QED BY <1>4, <2>1, <2>2 DEF Contract!Cells, Contract!Done
<1>. QED BY <1>2, <1>3, <1>4 DEF Entries

(* Removing an expired entry is invisible. *)
LEMMA CellsKeep ==
  ASSUME NEW s, NEW t, NEW x,
         t.entries[x] = s.entries[x] \/ (t.entries[x] = Absent /\ Expired(s.entries[x]))
  PROVE  CellIn(t.entries[x], now) = CellIn(s.entries[x], now)
<1>1. CASE t.entries[x] = s.entries[x]
  BY <1>1
<1>2. CASE t.entries[x] = Absent /\ Expired(s.entries[x])
  <2>1. CellIn(Absent, now) = [st |-> "free"]
    BY DEF CellIn, Absent
  <2>2. Over(s.entries[x], now)
    BY <1>2 DEF Expired, Over
  <2> DEFINE e == s.entries[x]
  <2> HIDE DEF e
  <2>3. Over(e, now) => CellIn(e, now) = [st |-> "free"]
    BY DEF CellIn
  <2>. QED BY <1>2, <2>1, <2>2, <2>3 DEF e
<1>. QED BY <1>1, <1>2

LEMMA TidiedCells ==
  ASSUME NEW t, store' = t, now' = now, Tidied(store, t)
  PROVE  UNCHANGED CellBar
<1>1. \A x \in Keys : CellIn(t.entries[x], now) = CellIn(store.entries[x], now)
  BY CellsKeep DEF Tidied
<1>. QED BY <1>1, BarsAre

(* One key's entry is written. *)
LEMMA WrittenCell ==
  ASSUME NEW k \in Keys, NEW t, store' = t, now' = now,
         \A x \in Keys \ {k} : t.entries[x] = store.entries[x] \/ Gone(store, t, x)
  PROVE  CellBar' = [CellBar EXCEPT ![k] = CellIn(t.entries[k], now)]
<1>1. \A x \in Keys \ {k} : CellIn(t.entries[x], now) = CellIn(store.entries[x], now)
  BY CellsKeep DEF Gone
<1>. QED BY <1>1, BarsAre

LEMMA MovedPhase ==
  ASSUME NEW c \in Callers, NEW p, NEW a, pc \in [Callers -> {"new", "running", "answered"}],
         answer \in [Callers -> Answers],
         pc' = [pc EXCEPT ![c] = p], answer' = [answer EXCEPT ![c] = a]
  PROVE  PhaseBar' = [PhaseBar EXCEPT ![c] = PhaseIn(p, a)]
<1>1. \A d \in Callers \ {c} : pc'[d] = pc[d] /\ answer'[d] = answer[d]
  OBVIOUS
<1>2. pc'[c] = p /\ answer'[c] = a
  OBVIOUS
<1>. QED BY <1>1, <1>2, BarsAre

(* The contract's view of c's key. *)
LEMMA CellSeen ==
  ASSUME IInv, NEW c \in Callers
  PROVE  /\ Contract!CellOf(c) = CellIn(store.entries[req[c].key], now)
         /\ store.entries[req[c].key] \in Entries /\ now \in Nat /\ req[c].key \in Keys
         /\ Contract!Holds(c) <=> Holds(store, c) /\ ~Expired(store.entries[req[c].key])
<1> DEFINE e == store.entries[req[c].key]
<1>1. req[c].key \in Keys /\ now \in Nat /\ e \in Entries
  BY CapacityAssumption, EntriesOf DEF IInv, Flow, Requests, Sound
<1>2. Contract!CellOf(c) = CellIn(e, now)
  BY <1>1, BarsAre DEF Contract!CellOf
<1>3. e.state \in {"absent", "p", "c"} /\ (e.state = "absent" <=> e = Absent)
  BY <1>1 DEF Entries, Absent
<1>4. Expired(e) <=> Over(e, now)
  BY DEF Expired, Over
<1>5. Holds(store, c) <=> e.state = "p" /\ e.token = c
  BY DEF Holds
<1> HIDE DEF e
<1>6. Contract!Holds(c) <=> e.state = "p" /\ e.token = c /\ ~Over(e, now)
  <2>1. CASE e = Absent \/ Over(e, now)
    BY <1>1, <1>2, <1>3, <2>1, CellsByState DEF Contract!Holds, Contract!Free
  <2>2. CASE e.state = "p" /\ ~Over(e, now)
    BY <1>1, <1>2, <2>2, CellsByState DEF Contract!Holds
  <2>3. CASE e.state = "c" /\ ~Over(e, now)
    BY <1>1, <1>2, <2>3, CellsByState DEF Contract!Holds, Contract!Done
  <2>. QED BY <1>3, <2>1, <2>2, <2>3
<1>. QED BY <1>1, <1>2, <1>4, <1>5, <1>6 DEF e

LEMMA ClaimSimulated ==
  ASSUME IInv, NEW c \in Callers, Claim(c)
  PROVE  Contract!Next
<1> DEFINE a == ClaimCall(c)
           k == req[c].key
           e == store.entries[k]
<1>1. /\ a.outcome \in DOMAIN AnswerTo
      /\ a.outcome = "claimed" => Entered(store, a.store, c) /\ Grantable(c)
      /\ a.outcome # "claimed" => Tidied(store, a.store)
      /\ a.outcome = "completed" => e.state = "c" /\ e.fp = req[c].fp /\ ~Expired(e)
  BY ClaimDoes DEF IInv
<1> DEFINE p == IF a.outcome = "claimed" THEN "running" ELSE "answered"
<1>2. /\ pc[c] = "new" /\ store' = a.store
      /\ pc' = [pc EXCEPT ![c] = p] /\ answer' = [answer EXCEPT ![c] = AnswerTo[a.outcome]]
      /\ body' = IF a.outcome = "completed" THEN [body EXCEPT ![c] = e.record] ELSE body
      /\ now' = now /\ req' = req /\ lapsed' = lapsed
  BY DEF Claim
<1> HIDE DEF a
<1>3. /\ e \in Entries /\ now \in Nat /\ k \in Keys /\ Contract!CellOf(c) = CellIn(e, now)
      /\ req[c] = [key |-> k, fp |-> req[c].fp]
  BY CellSeen DEF IInv, Flow, Requests
<1>4. /\ PhaseBar' = [PhaseBar EXCEPT ![c] = PhaseIn(p, AnswerTo[a.outcome])]
      /\ PhaseBar[c] = "new"
  <2>1. PhaseBar[c] = "new"
    BY <1>2, BarsAre DEF PhaseIn
  <2> DEFINE w == AnswerTo[a.outcome]
  <2>2. pc \in [Callers -> {"new", "running", "answered"}] /\ answer \in [Callers -> Answers]
    BY DEF IInv, Flow
  <2>3. pc' = [pc EXCEPT ![c] = p] /\ answer' = [answer EXCEPT ![c] = w]
    BY <1>2
  <2> HIDE DEF p, w
  <2>4. PhaseBar' = [PhaseBar EXCEPT ![c] = PhaseIn(p, w)]
    BY <2>2, <2>3, MovedPhase
  <2>. QED BY <2>1, <2>4 DEF w
<1>5. CASE a.outcome = "claimed"
  <2>1. PhaseBar' = [PhaseBar EXCEPT ![c] = "running"]
    <3>1. PhaseIn(p, AnswerTo[a.outcome]) = "running"
      BY <1>5 DEF PhaseIn
    <3>. QED BY <1>4, <3>1
  <2>2. CellBar' = [CellBar EXCEPT ![k] = Contract!Held(c)]
    <3>1. /\ Pending(c) \in Entries /\ Pending(c).state = "p" /\ Pending(c).token = c
          /\ ~Over(Pending(c), now) /\ ~(Pending(c).leaseUntil <= now)
      <4>1. Lease \in Nat /\ Ttl \in Nat /\ 0 < Lease /\ 0 < Ttl /\ req[c].fp \in Prints
        BY CapacityAssumption DEF IInv, Flow, Requests
      <4>. QED BY <1>3, <4>1 DEF Pending, Entries, Over
    <3>2. CellIn(Pending(c), now) = Contract!Held(c)
      BY <1>3, <3>1, CellsByState
    <3>3. CellBar' = [CellBar EXCEPT ![k] = CellIn(a.store.entries[k], now)]
      BY <1>1, <1>2, <1>3, <1>5, WrittenCell DEF Entered
    <3>. QED BY <1>1, <1>5, <3>2, <3>3 DEF Entered
  <2>3. \/ Contract!CellOf(c) = Contract!Free
        \/ /\ Contract!CellOf(c).st = "held" /\ Contract!CellOf(c).stale
           /\ req[Contract!CellOf(c).by] = req[c]
    <3>1. CASE e = Absent \/ Over(e, now)
      BY <1>3, <3>1, CellsByState
    <3>2. CASE ~(e = Absent \/ Over(e, now))
      <4>1. e.state = "p" /\ e.fp = req[c].fp /\ e.leaseUntil <= now
        BY <1>1, <1>5, <3>2 DEF Grantable, Expired, Over
      <4>2. req[e.token] = req[c]
        BY <1>3, <4>1 DEF IInv, Owned
      <4>. QED BY <1>3, <3>2, <4>1, <4>2, CellsByState
    <3>. QED BY <3>1, <3>2
  <2>4. UNCHANGED <<req, body, lapsed>>
    BY <1>2, <1>5
  <2>. QED BY <1>4, <2>1, <2>2, <2>3, <2>4 DEF Contract!Next, Contract!Grant
<1>6. CASE a.outcome # "claimed"
  <2>1. UNCHANGED CellBar
    BY <1>1, <1>2, <1>6, TidiedCells
  <2>2. CASE a.outcome = "completed"
    <3>1. PhaseBar' = [PhaseBar EXCEPT ![c] = "replayed"]
      <4>1. PhaseIn(p, AnswerTo[a.outcome]) = "replayed"
        BY <2>2 DEF PhaseIn, AnswerTo
      <4>. QED BY <1>4, <4>1
    <3>2. Contract!CellOf(c) = Contract!Done(e.record) /\ req[e.record] = req[c]
      <4>1. e.state = "c" /\ e.fp = req[c].fp /\ ~Over(e, now)
        BY <1>1, <2>2 DEF Expired, Over
      <4>2. req[e.record] = req[c]
        BY <1>3, <4>1 DEF IInv, Owned
      <4>. QED BY <1>3, <4>1, <4>2, CellsByState
    <3>3. Contract!CellOf(c).st = "done" /\ Contract!CellOf(c).by = e.record
      BY <3>2 DEF Contract!Done
    <3>4. body' = [body EXCEPT ![c] = Contract!CellOf(c).by]
      BY <1>2, <2>2, <3>3
    <3>. QED BY <1>2, <1>4, <2>1, <3>1, <3>2, <3>3, <3>4 DEF Contract!Next, Contract!Replay
  <2>3. CASE a.outcome # "completed"
    <3>1. PhaseBar' = [PhaseBar EXCEPT ![c] = "refused"]
      <4>1. PhaseIn(p, AnswerTo[a.outcome]) = "refused"
        BY <1>1, <1>6, <2>3 DEF PhaseIn, AnswerTo
      <4>. QED BY <1>4, <4>1
    <3>. QED BY <1>2, <1>4, <2>1, <2>3, <3>1 DEF Contract!Next, Contract!Refuse
  <2>. QED BY <2>2, <2>3
<1>. QED BY <1>5, <1>6

LEMMA SettleSimulated ==
  ASSUME IInv, NEW c \in Callers, Complete(c) \/ Release(c)
  PROVE  Contract!Next
<1> DEFINE k == req[c].key
           e == Completed(c, store.entries[k])
<1>1. /\ store.entries[k] \in Entries /\ now \in Nat /\ k \in Keys
      /\ Contract!Holds(c) <=> Holds(store, c) /\ ~Expired(store.entries[k])
      /\ store.entries \in [Keys -> Entries]
  BY CellSeen, EntriesOf DEF IInv, Sound
<1>2. ASSUME NEW result \in {"completed", "released", "lost"}, FinishWith(c, result, store')
      PROVE  /\ PhaseBar[c] = "running" /\ PhaseBar' = [PhaseBar EXCEPT ![c] = result]
             /\ now' = now /\ req' = req /\ UNCHANGED <<req, body, lapsed>>
  <2>1. PhaseBar[c] = "running"
    BY <1>2, BarsAre DEF FinishWith, PhaseIn
  <2>2. PhaseIn("answered", result) = result
    BY DEF PhaseIn
  <2>3. PhaseBar' = [PhaseBar EXCEPT ![c] = PhaseIn("answered", result)]
    BY <1>2, MovedPhase DEF FinishWith, IInv, Flow
  <2>. QED BY <1>2, <2>1, <2>2, <2>3 DEF FinishWith
<1>3. ASSUME NEW new, Replaced(store', c, new), now' = now
      PROVE  CellBar' = [CellBar EXCEPT ![k] = CellIn(new, now)]
  <2>1. store'.entries = [store.entries EXCEPT ![k] = new]
    BY <1>3 DEF Replaced
  <2> DEFINE t == store'
  <2>2. store' = t
    OBVIOUS
  <2> HIDE DEF t, k
  <2>3. /\ t.entries[k] = new
        /\ \A x \in Keys \ {k} : t.entries[x] = store.entries[x] \/ Gone(store, t, x)
    BY <1>1, <2>1, <2>2
  <2>4. CellBar' = [CellBar EXCEPT ![k] = CellIn(t.entries[k], now)]
    BY <1>1, <1>3, <2>2, <2>3, WrittenCell
  <2>. QED BY <2>3, <2>4
<1>4. CASE /\ Holds(store, c) /\ ~Expired(store.entries[k])
           /\ Replaced(store', c, e) /\ FinishWith(c, "completed", store') /\ Complete(c)
  <2>1. /\ PhaseBar[c] = "running" /\ PhaseBar' = [PhaseBar EXCEPT ![c] = "completed"]
        /\ now' = now /\ UNCHANGED <<req, body, lapsed>>
    BY <1>2, <1>4
  <2>2. CellBar' = [CellBar EXCEPT ![k] = CellIn(e, now)]
    BY <1>3, <1>4, <2>1
  <2>3. CellIn(e, now) = Contract!Done(c)
    <3>1. e \in Entries
      BY <1>4, CompleteDoes DEF IInv
    <3>2. e.state = "c" /\ e.record = c /\ ~Over(e, now)
      BY <1>1, CapacityAssumption DEF Completed, Over
    <3> HIDE DEF e
    <3>. QED BY <1>1, <3>1, <3>2, CellsByState
  <2>. QED BY <1>1, <1>4, <2>1, <2>2, <2>3 DEF Contract!Next, Contract!Complete, Contract!Settle
<1>5. CASE /\ Holds(store, c) /\ ~Expired(store.entries[k])
           /\ Replaced(store', c, Absent) /\ FinishWith(c, "released", store') /\ Release(c)
  <2>1. /\ PhaseBar[c] = "running" /\ PhaseBar' = [PhaseBar EXCEPT ![c] = "released"]
        /\ now' = now /\ UNCHANGED <<req, body, lapsed>>
    BY <1>2, <1>5
  <2>2. CellBar' = [CellBar EXCEPT ![k] = CellIn(Absent, now)]
    BY <1>3, <1>5, <2>1
  <2>3. CellIn(Absent, now) = Contract!Free
    BY <1>1, CellsByState, NeverIsPast
  <2>. QED BY <1>1, <1>5, <2>1, <2>2, <2>3 DEF Contract!Next, Contract!Release, Contract!Settle
<1>6. CASE /\ ~(Holds(store, c) /\ ~Expired(store.entries[k]))
           /\ Tidied(store, store') /\ FinishWith(c, "lost", store')
  <2>1. /\ PhaseBar[c] = "running" /\ PhaseBar' = [PhaseBar EXCEPT ![c] = "lost"]
        /\ now' = now /\ UNCHANGED <<req, body, lapsed>>
    BY <1>2, <1>6
  <2>2. UNCHANGED CellBar
    BY <1>6, <2>1, TidiedCells
  <2>. QED BY <1>1, <1>6, <2>1, <2>2 DEF Contract!Next, Contract!Complete, Contract!Settle
<1>. QED BY <1>4, <1>5, <1>6, SettleDoes

(* Time passing, and the plugin closing, are the contract's Age. *)
LEMMA AgedBy ==
  ASSUME IInv, now' \in Nat, UNCHANGED <<req, pc, answer, body>>, NEW H \in SUBSET Callers,
         store'.entries \in [Keys -> Entries],
         lapsed' = lapsed \cup H,
         \A c \in H : Holds(store, c),
         \A k \in Keys :
           \/ store'.entries[k] = Absent
           \/ store'.entries[k] = store.entries[k] /\ now <= now',
         \A c \in Callers : Holds(store, c) =>
           \/ store'.entries[req[c].key] = Absent /\ c \in H
           \/ /\ store'.entries[req[c].key] = store.entries[req[c].key]
              /\ c \in H <=> store.entries[req[c].key].leaseUntil <= now'
  PROVE  Contract!Age
<1>1. UNCHANGED <<req, PhaseBar, body>>
  BY BarsAre
<1>2. now \in Nat /\ store.entries \in [Keys -> Entries]
  BY CapacityAssumption, EntriesOf DEF IInv, Flow, Sound
<1>3. ASSUME NEW k \in Keys
      PROVE  LET e == store.entries[k]
                 f == store'.entries[k]
             IN /\ CellIn(f, now') \in Contract!Cells
                /\ CellIn(f, now') \in Contract!Aged(CellIn(e, now))
                /\ CellIn(f, now') # CellIn(e, now) /\ CellIn(e, now).st = "held" =>
                      f = Absent \/ (f = e /\ e.leaseUntil <= now')
                /\ e.state = "p" /\ ~Over(e, now) /\ ~(e.leaseUntil <= now)
                   /\ (f = Absent \/ (f = e /\ e.leaseUntil <= now')) =>
                      CellIn(f, now') # CellIn(e, now)
  <2> DEFINE e == store.entries[k]
             f == store'.entries[k]
             x == CellIn(e, now)
             y == CellIn(f, now')
  <2>1. /\ e \in Entries /\ f \in Entries /\ (f = Absent \/ (f = e /\ now <= now'))
        /\ Absent.state = "absent" /\ Contract!Free.st = "free" /\ Absent \in Entries
    BY <1>2, NeverIsPast DEF Absent, Contract!Free
  <2>2. e.state = "p" => e.leaseUntil <= e.expiresAt /\ e.leaseUntil \in Nat /\ e.expiresAt \in Nat
    BY <2>1 DEF IInv, Owned, Entries
  <2>3. e.state = "c" => e.expiresAt \in Nat
    BY <2>1 DEF Entries
  <2>4. /\ e.state \in {"absent", "p", "c"} /\ (e.state = "absent" <=> e = Absent)
    BY <2>1 DEF Entries, Absent
  <2>5. /\ e = Absent \/ Over(e, now) => x = Contract!Free
        /\ e.state = "p" /\ ~Over(e, now) =>
             /\ e.leaseUntil <= now => x = [st |-> "held", by |-> e.token, stale |-> TRUE]
             /\ ~(e.leaseUntil <= now) => x = [st |-> "held", by |-> e.token, stale |-> FALSE]
        /\ e.state = "c" /\ ~Over(e, now) => x = [st |-> "done", by |-> e.record]
    BY <1>2, <2>1, CellsByState DEF Contract!Held, Contract!Done
  <2>6. /\ f = Absent \/ Over(f, now') => y = Contract!Free
        /\ f.state = "p" /\ ~Over(f, now') =>
             /\ f.leaseUntil <= now' => y = [st |-> "held", by |-> f.token, stale |-> TRUE]
             /\ ~(f.leaseUntil <= now') => y = [st |-> "held", by |-> f.token, stale |-> FALSE]
        /\ f.state = "c" /\ ~Over(f, now') => y = [st |-> "done", by |-> f.record]
        /\ y \in Contract!Cells
    BY <2>1, CellsByState DEF Contract!Held, Contract!Done
  <2> HIDE DEF x, y, e, f
  <2>7. f = e /\ Over(e, now) => Over(f, now')
    BY <1>2, <2>1, <2>2, <2>3, <2>4 DEF Over
  <2>8. y = x \/ y = Contract!Free \/ (x.st = "held" /\ y = Contract!Stale(x))
    <3>1. CASE f = Absent \/ Over(f, now')
      BY <2>6, <3>1
    <3>2. CASE f = e /\ f # Absent /\ ~Over(f, now') /\ e.state = "c"
      BY <2>5, <2>6, <2>7, <3>2
    <3>3. CASE f = e /\ f # Absent /\ ~Over(f, now') /\ e.state = "p"
      <4>1. y = [st |-> "held", by |-> e.token, stale |-> TRUE]
            \/ (y = [st |-> "held", by |-> e.token, stale |-> FALSE] /\ ~(e.leaseUntil <= now'))
        BY <2>6, <3>3
      <4>2. \/ x = [st |-> "held", by |-> e.token, stale |-> TRUE] /\ e.leaseUntil <= now
            \/ x = [st |-> "held", by |-> e.token, stale |-> FALSE]
        BY <2>5, <2>7, <3>3
      <4>3. e.leaseUntil <= now => e.leaseUntil <= now'
        BY <1>2, <2>1, <2>2, <3>3
      <4>4. x = [st |-> "held", by |-> e.token, stale |-> FALSE] =>
              /\ x.st = "held"
              /\ Contract!Stale(x) = [st |-> "held", by |-> e.token, stale |-> TRUE]
        BY DEF Contract!Stale
      <4>5. CASE y = [st |-> "held", by |-> e.token, stale |-> TRUE]
        BY <4>2, <4>4, <4>5
      <4>6. CASE /\ y = [st |-> "held", by |-> e.token, stale |-> FALSE]
                 /\ ~(e.leaseUntil <= now')
        BY <4>2, <4>3, <4>6
      <4>. QED BY <4>1, <4>5, <4>6
    <3>. QED BY <2>1, <2>4, <3>1, <3>2, <3>3
  <2>9. y \in Contract!Aged(x)
    BY <2>8 DEF Contract!Aged
  <2>10. ASSUME y # x, x.st = "held" PROVE f = Absent \/ (f = e /\ e.leaseUntil <= now')
    <3>1. e.state = "p" /\ ~Over(e, now)
      BY <2>1, <2>4, <2>5, <2>10
    <3>2. CASE f = e /\ Over(f, now')
      BY <1>2, <2>2, <3>1, <3>2 DEF Over
    <3>3. CASE f = e /\ ~Over(f, now') /\ ~(e.leaseUntil <= now')
      <4>1. ~(e.leaseUntil <= now)
        BY <1>2, <2>1, <2>2, <3>1, <3>3
      <4>. QED BY <2>5, <2>6, <2>10, <3>1, <3>3, <4>1
    <3>. QED BY <2>1, <3>2, <3>3
  <2>11. ASSUME e.state = "p", ~Over(e, now), ~(e.leaseUntil <= now),
                f = Absent \/ (f = e /\ e.leaseUntil <= now')
         PROVE  y # x
    <3>1. x = [st |-> "held", by |-> e.token, stale |-> FALSE]
      BY <2>5, <2>11
    <3>2. y = Contract!Free \/ y = [st |-> "held", by |-> e.token, stale |-> TRUE]
      BY <2>6, <2>11
    <3>3. x.st = "held" /\ x.stale = FALSE
      BY <3>1
    <3>. QED BY <2>1, <3>2, <3>3
  <2>. QED BY <2>6, <2>9, <2>10, <2>11 DEF x, y, e, f
<1>4. CellBar' \in [Keys -> Contract!Cells] /\ \A k \in Keys : CellBar'[k] \in Contract!Aged(CellBar[k])
  BY <1>3, BarsAre
<1>5. ASSUME NEW c \in Callers
      PROVE  /\ Contract!Holds(c) /\ CellBar'[req[c].key] # Contract!CellOf(c) => c \in H
             /\ c \in H => c \in lapsed
                            \/ (Contract!Holds(c) /\ CellBar'[req[c].key] # Contract!CellOf(c))
  <2> DEFINE k == req[c].key
             e == store.entries[k]
  <2>1. /\ Contract!CellOf(c) = CellIn(e, now) /\ e \in Entries /\ k \in Keys
        /\ Contract!Holds(c) <=> Holds(store, c) /\ ~Expired(e)
        /\ CellBar'[k] = CellIn(store'.entries[k], now')
    BY CellSeen, BarsAre
  <2>2. Expired(e) <=> Over(e, now)
    BY DEF Expired, Over
  <2>3. ASSUME Contract!Holds(c), CellBar'[k] # Contract!CellOf(c) PROVE c \in H
    <3>1. CellIn(e, now).st = "held" /\ Holds(store, c)
      BY <2>1, <2>3 DEF Contract!Holds
    <3>2. store'.entries[k] = Absent \/ (store'.entries[k] = e /\ e.leaseUntil <= now')
      BY <1>3, <2>1, <2>3, <3>1
    <3>3. e # Absent
      BY <3>1 DEF Holds, Absent
    <3>. QED BY <3>1, <3>2, <3>3
  <2>4. ASSUME c \in H, c \notin lapsed
        PROVE  Contract!Holds(c) /\ CellBar'[k] # Contract!CellOf(c)
    <3>1. Holds(store, c) /\ e.state = "p" /\ e.token = c
      BY <2>4 DEF Holds
    <3>2. ~(e.leaseUntil <= now) /\ e.leaseUntil <= e.expiresAt
      BY <2>1, <2>4, <3>1 DEF IInv, Owned
    <3>3. e.leaseUntil \in Nat /\ e.expiresAt \in Nat
      BY <2>1, <3>1 DEF Entries, Absent
    <3>4. ~Over(e, now)
      BY <1>2, <3>2, <3>3 DEF Over
    <3>5. store'.entries[k] = Absent \/ (store'.entries[k] = e /\ e.leaseUntil <= now')
      BY <2>4, <3>1
    <3>. QED BY <1>3, <2>1, <2>2, <3>1, <3>2, <3>4, <3>5
  <2>. QED BY <2>3, <2>4
<1>6. lapsed' = lapsed \cup {c \in Callers : Contract!Holds(c)
                                          /\ CellBar'[req[c].key] # Contract!CellOf(c)}
  BY <1>5
<1>. QED BY <1>1, <1>4, <1>6 DEF Contract!Age

LEMMA AgeSimulated ==
  ASSUME IInv, Tick \/ Disconnect
  PROVE  Contract!Next
<1>1. /\ now \in Nat /\ store.entries \in [Keys -> Entries] /\ req \in [Callers -> Requests]
  BY CapacityAssumption, EntriesOf DEF IInv, Flow, Sound
<1>2. CASE Tick
  <2> DEFINE H == {c \in Callers : /\ Holds(store, c)
                                   /\ store.entries[req[c].key].leaseUntil <= now + 1}
  <2>1. /\ now' = now + 1 /\ store' = store /\ UNCHANGED <<req, pc, answer, body>>
        /\ lapsed' = lapsed \cup H
    BY <1>2 DEF Tick
  <2>2. /\ H \in SUBSET Callers /\ \A c \in H : Holds(store, c)
        /\ \A c \in Callers : Holds(store, c) =>
             (c \in H <=> store.entries[req[c].key].leaseUntil <= now + 1)
    OBVIOUS
  <2> HIDE DEF H
  <2>3. now' \in Nat /\ now <= now'
    BY <1>1, <2>1
  <2>4. Contract!Age
    BY <1>1, <2>1, <2>2, <2>3, AgedBy
  <2>. QED BY <2>4 DEF Contract!Next
<1>3. CASE Disconnect
  <2> DEFINE H == {c \in Callers : Holds(store, c)}
  <2>1. /\ now' = now /\ UNCHANGED <<req, pc, answer, body>> /\ lapsed' = lapsed \cup H
        /\ store'.entries = [k \in Keys |-> Absent]
    BY <1>3 DEF Disconnect, Empty
  <2>2. /\ H \in SUBSET Callers /\ \A c \in H : Holds(store, c)
        /\ \A c \in Callers : Holds(store, c) => c \in H
    OBVIOUS
  <2> HIDE DEF H
  <2>3. /\ now' \in Nat /\ store'.entries \in [Keys -> Entries]
        /\ \A k \in Keys : store'.entries[k] = Absent
    BY <1>1, <2>1, NeverIsPast
  <2>4. \A c \in Callers : req[c].key \in Keys
    BY <1>1 DEF Requests
  <2>5. Contract!Age
    BY <2>1, <2>2, <2>3, <2>4, AgedBy
  <2>. QED BY <2>5 DEF Contract!Next
<1>. QED BY <1>2, <1>3

(* The middleware over the memory store implements the store contract. *)
THEOREM MemoryImplements == Spec => Implements
<1>1. Init => Contract!Init
  <2> SUFFICES ASSUME Init PROVE Contract!Init
    OBVIOUS
  <2>1. CellBar = [k \in Keys |-> Contract!Free]
    <3>1. \A k \in Keys : store.entries[k] = Absent
      BY DEF Init, Empty
    <3>. QED BY <3>1 DEF CellBar, Absent, Contract!Free
  <2>2. PhaseBar = [c \in Callers |-> "new"]
    BY DEF Init, PhaseBar
  <2>. QED BY <2>1, <2>2 DEF Init, Contract!Init, NoBody, Requests, Contract!Requests, Contract!NoSource
<1>2. IInv /\ [Next]_vars => [Contract!Next]_(Contract!vars)
  <2> SUFFICES ASSUME IInv, [Next]_vars PROVE [Contract!Next]_(Contract!vars)
    OBVIOUS
  <2>1. CASE Next
    BY <2>1, ClaimSimulated, SettleSimulated, AgeSimulated DEF Next
  <2>2. CASE UNCHANGED vars
    BY <2>2, BarsAre DEF vars, Contract!vars
  <2>. QED BY <2>1, <2>2
<1>. QED BY <1>1, <1>2, MemoryInvariant, PTL DEF Spec, Implements, Contract!Spec

-----------------------------------------------------------------------------
(* The contract's own theorems, which the refinement carries over. *)

(* A held cell belongs to a caller of that key that has not settled, and a *)
(* stale hold is on record as lapsed.                                      *)
ContractHeldInv ==
  \A k \in Keys : CellBar[k].st = "held" =>
    /\ req[CellBar[k].by].key = k
    /\ PhaseBar[CellBar[k].by] \in {"running", "gone"}
    /\ CellBar[k].stale => CellBar[k].by \in lapsed

(* A done cell holds the record of a caller that completed that key. *)
ContractDoneInv ==
  \A k \in Keys : CellBar[k].st = "done" =>
    req[CellBar[k].by].key = k /\ PhaseBar[CellBar[k].by] = "completed"

(* A caller loses its hold while it runs only by outliving its lease. *)
ContractRunningInv ==
  \A c \in Callers : PhaseBar[c] = "running" => Contract!Holds(c) \/ c \in lapsed

ContractInv == /\ Contract!TypeOK /\ ContractHeldInv /\ ContractDoneInv /\ ContractRunningInv
               /\ Contract!ReplayFaithful

LEMMA StartKeeps == Contract!Init => ContractInv
  BY DEF Contract!Init, ContractInv, Contract!TypeOK, ContractHeldInv, ContractDoneInv,
           ContractRunningInv, Contract!ReplayFaithful, Contract!Requests, Contract!Cells,
           Contract!Free, Contract!Phases

LEMMA GrantKeeps ==
  ASSUME ContractInv, NEW c \in Callers, Contract!Grant(c)
  PROVE  ContractInv'
<1>1. Contract!TypeOK'
  BY DEF Contract!Grant, ContractInv, Contract!TypeOK, Contract!Requests, Contract!Cells,
           Contract!Held, Contract!Phases, Contract!CellOf, Contract!Free
<1>2. ContractHeldInv'
  BY DEF Contract!Grant, ContractInv, Contract!TypeOK, ContractHeldInv, Contract!Requests,
           Contract!Held, Contract!CellOf
<1>3. ContractDoneInv'
  BY DEF Contract!Grant, ContractInv, Contract!TypeOK, ContractDoneInv, Contract!Requests,
           Contract!Held, Contract!CellOf
<1>4. ContractRunningInv'
  <2> SUFFICES ASSUME NEW d \in Callers, PhaseBar'[d] = "running", d \notin lapsed'
               PROVE  Contract!Holds(d)'
    BY DEF ContractRunningInv
  <2>1. CASE d = c
    BY <2>1 DEF Contract!Grant, ContractInv, Contract!TypeOK, Contract!Holds, Contract!CellOf,
             Contract!Held, Contract!Requests
  <2>2. CASE d # c
    <3>1. PhaseBar[d] = "running" /\ d \notin lapsed
      BY <2>2 DEF Contract!Grant, ContractInv, Contract!TypeOK
    <3>2. Contract!Holds(d)
      BY <3>1 DEF ContractInv, ContractRunningInv
    <3>3. req[d].key # req[c].key
      BY <3>1, <3>2 DEF Contract!Grant, ContractInv, ContractHeldInv, Contract!TypeOK,
               Contract!Holds, Contract!CellOf, Contract!Free, Contract!Requests
    <3>. QED
      BY <3>2, <3>3 DEF Contract!Grant, ContractInv, Contract!TypeOK, Contract!Holds,
               Contract!CellOf, Contract!Requests
  <2>. QED BY <2>1, <2>2
<1>5. Contract!ReplayFaithful'
  BY DEF Contract!Grant, ContractInv, Contract!TypeOK, Contract!ReplayFaithful, Contract!Phases
<1>. QED BY <1>1, <1>2, <1>3, <1>4, <1>5 DEF ContractInv

LEMMA ReplayKeeps ==
  ASSUME ContractInv, NEW c \in Callers, Contract!Replay(c)
  PROVE  ContractInv'
<1>1. /\ Contract!TypeOK' /\ Contract!CellOf(c).by \in Callers
      /\ PhaseBar[Contract!CellOf(c).by] = "completed"
  BY DEF Contract!Replay, ContractInv, Contract!TypeOK, ContractDoneInv, Contract!Requests,
           Contract!Cells, Contract!Free, Contract!Phases, Contract!CellOf
<1>2. ContractHeldInv' /\ ContractDoneInv'
  BY DEF Contract!Replay, ContractInv, Contract!TypeOK, ContractHeldInv, ContractDoneInv
<1>3. ContractRunningInv'
  BY DEF Contract!Replay, ContractInv, Contract!TypeOK, ContractRunningInv, Contract!Holds,
           Contract!CellOf
<1>4. Contract!ReplayFaithful'
  BY <1>1 DEF Contract!Replay, ContractInv, Contract!TypeOK, Contract!ReplayFaithful
<1>. QED BY <1>1, <1>2, <1>3, <1>4 DEF ContractInv

LEMMA SettleKeeps ==
  ASSUME ContractInv, NEW c \in Callers, Contract!Complete(c) \/ Contract!Release(c)
  PROVE  ContractInv'
<1> PICK to \in {Contract!Done(c), Contract!Free}, fate \in {"completed", "released"} :
      /\ Contract!Settle(c, to, fate)
      /\ to = Contract!Done(c) <=> fate = "completed"
  BY DEF Contract!Complete, Contract!Release, Contract!Done, Contract!Free
<1>1. Contract!TypeOK'
  BY DEF Contract!Settle, ContractInv, Contract!TypeOK, Contract!Cells, Contract!Phases,
           Contract!Done, Contract!Free
<1>2. ContractHeldInv'
  BY DEF Contract!Settle, ContractInv, Contract!TypeOK, ContractHeldInv, Contract!Holds,
           Contract!CellOf, Contract!Done, Contract!Free, Contract!Cells
<1>3. ContractDoneInv'
  BY DEF Contract!Settle, ContractInv, Contract!TypeOK, ContractDoneInv, Contract!Holds,
           Contract!CellOf, Contract!Done, Contract!Free, Contract!Cells
<1>4. ContractRunningInv'
  <2> SUFFICES ASSUME NEW d \in Callers, PhaseBar'[d] = "running", d \notin lapsed'
               PROVE  Contract!Holds(d)'
    BY DEF ContractRunningInv
  <2>1. d # c /\ Contract!Holds(d)
    BY DEF Contract!Settle, ContractInv, Contract!TypeOK, ContractRunningInv
  <2>2. Contract!Holds(c) => req[d].key # req[c].key
    BY <2>1 DEF Contract!Holds, Contract!CellOf
  <2>. QED
    BY <2>1, <2>2 DEF Contract!Settle, ContractInv, Contract!TypeOK, Contract!Holds,
             Contract!CellOf, Contract!Requests
<1>5. Contract!ReplayFaithful'
  BY DEF Contract!Settle, ContractInv, Contract!TypeOK, Contract!ReplayFaithful
<1>. QED BY <1>1, <1>2, <1>3, <1>4, <1>5 DEF ContractInv

(* Refusal and abandonment touch only the caller's own phase. *)
LEMMA PhaseKeeps ==
  ASSUME ContractInv, NEW c \in Callers, Contract!Refuse(c) \/ Contract!Abandon(c)
  PROVE  ContractInv'
<1>1. Contract!TypeOK'
  BY DEF Contract!Refuse, Contract!Abandon, ContractInv, Contract!TypeOK, Contract!Phases
<1>2. ContractHeldInv'
  BY DEF Contract!Refuse, Contract!Abandon, ContractInv, Contract!TypeOK, ContractHeldInv,
           Contract!Cells, Contract!Free
<1>3. ContractDoneInv'
  BY DEF Contract!Refuse, Contract!Abandon, ContractInv, Contract!TypeOK, ContractDoneInv,
           Contract!Cells, Contract!Free
<1>4. ContractRunningInv'
  BY DEF Contract!Refuse, Contract!Abandon, ContractInv, Contract!TypeOK, ContractRunningInv,
           Contract!Holds, Contract!CellOf
<1>5. Contract!ReplayFaithful'
  BY DEF Contract!Refuse, Contract!Abandon, ContractInv, Contract!TypeOK,
           Contract!ReplayFaithful
<1>. QED BY <1>1, <1>2, <1>3, <1>4, <1>5 DEF ContractInv

LEMMA AgeKeeps ==
  ASSUME ContractInv, Contract!Age
  PROVE  ContractInv'
<1>1. Contract!TypeOK'
  BY DEF Contract!Age, ContractInv, Contract!TypeOK
<1>2. \A k \in Keys : \/ CellBar'[k] = CellBar[k]
                      \/ CellBar'[k] = Contract!Free
                      \/ CellBar[k].st = "held" /\ CellBar'[k] = Contract!Stale(CellBar[k])
  BY DEF Contract!Age, Contract!Aged
<1>3. \A k \in Keys :
        CellBar[k].st = "held" /\ CellBar'[k] # CellBar[k] => CellBar[k].by \in lapsed'
  BY DEF Contract!Age, ContractInv, Contract!TypeOK, ContractHeldInv, Contract!Holds,
           Contract!CellOf, Contract!Cells, Contract!Free
<1>4. ContractHeldInv'
  BY <1>2, <1>3 DEF Contract!Age, ContractInv, Contract!TypeOK, ContractHeldInv, Contract!Cells,
           Contract!Free, Contract!Stale
<1>5. ContractDoneInv'
  BY <1>2 DEF Contract!Age, ContractInv, Contract!TypeOK, ContractDoneInv, Contract!Cells,
           Contract!Free, Contract!Stale
<1>6. ContractRunningInv'
  BY <1>1 DEF Contract!Age, ContractInv, Contract!TypeOK, ContractRunningInv, Contract!Holds,
           Contract!CellOf, Contract!Requests
<1>7. Contract!ReplayFaithful'
  BY DEF Contract!Age, ContractInv, Contract!ReplayFaithful
<1>. QED BY <1>1, <1>4, <1>5, <1>6, <1>7 DEF ContractInv

(* The inductive invariant of the contract. *)
THEOREM ContractInvariant == Contract!Spec => []ContractInv
<1>1. ContractInv /\ [Contract!Next]_(Contract!vars) => ContractInv'
  <2> SUFFICES ASSUME ContractInv, [Contract!Next]_(Contract!vars) PROVE ContractInv'
    OBVIOUS
  <2>1. CASE Contract!Next
    BY <2>1, GrantKeeps, ReplayKeeps, SettleKeeps, PhaseKeeps, AgeKeeps DEF Contract!Next
  <2>2. CASE UNCHANGED Contract!vars
    BY <2>2 DEF Contract!vars, ContractInv, Contract!TypeOK, ContractHeldInv, ContractDoneInv,
             ContractRunningInv, Contract!ReplayFaithful, Contract!Holds, Contract!CellOf
  <2>. QED BY <2>1, <2>2
<1>. QED BY StartKeeps, <1>1, PTL DEF Contract!Spec

(* A replay always answers with the completed record of the same request. *)
THEOREM ContractReplayFaithful == Contract!Spec => []Contract!ReplayFaithful
<1>1. ContractInv => Contract!ReplayFaithful
  BY DEF ContractInv
<1>. QED BY ContractInvariant, <1>1, PTL

(* Overlapping handlers of one key imply a lapsed lease. *)
THEOREM ContractExclusion == Contract!Spec => []Contract!Exclusion
<1>1. ContractInv => Contract!Exclusion
  BY DEF ContractInv, Contract!TypeOK, ContractRunningInv, Contract!Exclusion, Contract!Holds,
           Contract!CellOf, Contract!Requests
<1>. QED BY ContractInvariant, <1>1, PTL

(* No HTTP response replayed from memory is another request's, or that of  *)
(* a run that had been superseded.                                         *)
THEOREM MemoryReplayFaithful == Spec => []Contract!ReplayFaithful
<1>. QED BY MemoryImplements, ContractReplayFaithful, PTL DEF Implements

(* Two handlers of one key overlap in this process only after a lease      *)
(* lapsed or the plugin closed.                                            *)
THEOREM MemoryExclusion == Spec => []Contract!Exclusion
<1>. QED BY MemoryImplements, ContractExclusion, PTL DEF Implements
=============================================================================
