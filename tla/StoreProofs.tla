---------------------------- MODULE StoreProofs ----------------------------
(***************************************************************************)
(* What the methods of the store (store.go) return and preserve, for       *)
(* whoever calls them: DaemonProofs and ExchangeProofs cite these lemmas.  *)
(*                                                                         *)
(* The loop of paddedCount is a recursive function.  First is where such a *)
(* loop ends, as the least of the buckets it visits that make it stop, and *)
(* RoomFits says that it is the value of the function.                     *)
(***************************************************************************)
EXTENDS Store, FiniteSetTheorems, WellFoundedInduction, TLAPS

\* The store is finite and within its limit.
Bounded == IsFiniteSet(DOMAIN m) /\ listLen <= MaxPastes

-----------------------------------------------------------------------------
\* The methods and their types

\* The store's operations, and the payload copy, stay within their types.
LEMMA AddType ==
  ASSUME StoreTypeOK, NEW prs \in Prs, NEW expires \in Int, NEW maxGets \in Nat,
         add(prs, expires, maxGets)
  PROVE  StoreTypeOK' /\ Len(posted) <= Len(posted') /\ Len(posted) \in Nat /\ Len(posted') \in Nat
  <1>1. CASE addError(prs) = "none"
    <2> DEFINE id == Len(posted) + 1
               p  == [id |-> id, ExpiresAt |-> expires, MaxGets |-> maxGets,
                      Gets |-> 0, Burned |-> FALSE]
    <2>1. /\ m' = [q \in DOMAIN m \cup {prs} |-> IF q = prs THEN p ELSE m[q]]
          /\ mem' = mem \cup {id}
          /\ posted' = Append(posted, [prs |-> prs, MaxGets |-> maxGets])
      BY <1>1 DEF add
    <2>2. p \in Paste
      BY DEF StoreTypeOK, Paste
    <2>3. posted' \in Seq([prs : Prs, MaxGets : Nat]) /\ Len(posted') = id /\ Len(posted) \in Nat
      BY <2>1 DEF StoreTypeOK
    <2> HIDE DEF p
    <2>4. DOMAIN m' \subseteq Prs /\ \A q \in DOMAIN m' : m'[q] \in Paste
      BY <2>1, <2>2 DEF StoreTypeOK
    <2>5. mem' \subseteq 1..Len(posted')
      <3>1. mem \subseteq 1..Len(posted) /\ mem' = mem \cup {Len(posted) + 1}
        BY <2>1 DEF StoreTypeOK, PasteIds
      <3>2. \A i \in mem' : i \in 1..(Len(posted) + 1)
        BY <2>3, <3>1
      <3> QED
        BY <2>3, <3>2
    <2> QED
      BY <2>3, <2>4, <2>5 DEF StoreTypeOK, PasteIds
  <1>2. CASE addError(prs) # "none"
    BY <1>2 DEF add, storeVars, StoreTypeOK, PasteIds
  <1> QED
    BY <1>1, <1>2

LEMMA CountGetFacts ==
  ASSUME StoreTypeOK, NEW prs \in DOMAIN m, countGet(prs)
  PROVE  /\ DOMAIN m' = DOMAIN m
         /\ \A q \in DOMAIN m \ {prs} : m'[q] = m[q]
         /\ m'[prs] \in Paste
         /\ m'[prs].id = m[prs].id
         /\ m'[prs].MaxGets = m[prs].MaxGets
         /\ m'[prs].Gets = m[prs].Gets + 1
         /\ m'[prs].Burned = LastGet(m[prs])
         /\ mem' = IF LastGet(m[prs]) THEN mem \ {m[prs].id} ELSE mem
         /\ posted' = posted
  <1> DEFINE p == m[prs]
             q == [p EXCEPT !.Gets = p.Gets + 1]
             r == [q EXCEPT !.Burned = LastGet(p)]
  <1>1. m' = [m EXCEPT ![prs] = r] /\ posted' = posted
        /\ mem' = IF LastGet(p) THEN mem \ {p.id} ELSE mem
    BY DEF countGet
  <1>2. p \in Paste
    BY DEF StoreTypeOK
  <1>3. /\ q \in Paste /\ q.id = p.id /\ q.MaxGets = p.MaxGets /\ q.Gets = p.Gets + 1
    BY <1>2 DEF Paste
  <1>4. LastGet(p) \in BOOLEAN
    BY DEF LastGet
  <1> HIDE DEF q
  <1>5. /\ r \in Paste /\ r.id = q.id /\ r.MaxGets = q.MaxGets /\ r.Gets = q.Gets
        /\ r.Burned = LastGet(p)
    BY <1>3, <1>4 DEF Paste
  <1> HIDE DEF r
  <1> QED
    BY <1>1, <1>3, <1>5

LEMMA TakeType ==
  ASSUME StoreTypeOK, NEW prs, NEW t, take(prs, t)
  PROVE  StoreTypeOK' /\ posted' = posted
  <1>1. CASE Retrievable(prs, t)
    <2>1. prs \in DOMAIN m /\ countGet(prs)
      BY <1>1 DEF take, Retrievable
    <2> QED
      BY <2>1, CountGetFacts DEF StoreTypeOK, PasteIds
  <1>2. CASE ~Retrievable(prs, t)
    BY <1>2 DEF take, storeVars, StoreTypeOK, PasteIds
  <1> QED
    BY <1>1, <1>2

LEMMA BurnAndDeleteType ==
  ASSUME StoreTypeOK, NEW S, burnAndDelete(S)
  PROVE  StoreTypeOK' /\ posted' = posted
  BY DEF burnAndDelete, StoreTypeOK, PasteIds

LEMMA CandidatesType ==
  ASSUME StoreTypeOK, NEW t
  PROVE  candidates(t).live \subseteq Prs
  BY DEF candidates, StoreTypeOK, Retrievable

LEMMA StoreUnchanged ==
  ASSUME StoreTypeOK, UNCHANGED storeVars
  PROVE  StoreTypeOK' /\ posted' = posted
  BY DEF storeVars, StoreTypeOK, PasteIds

LEMMA DomainFinite ==
  ASSUME IsFiniteSet(DOMAIN m),
         \/ UNCHANGED storeVars
         \/ \E S : burnAndDelete(S)
         \/ \E prs, t : take(prs, t)
         \/ \E prs, expires, maxGets : add(prs, expires, maxGets)
  PROVE  IsFiniteSet(DOMAIN m')
  <1>1. CASE UNCHANGED storeVars
    BY <1>1 DEF storeVars
  <1>2. ASSUME NEW S, burnAndDelete(S)
        PROVE  IsFiniteSet(DOMAIN m')
    <2>1. DOMAIN m' \subseteq DOMAIN m
      BY <1>2 DEF burnAndDelete
    <2> QED
      BY <2>1, FS_Subset
  <1>3. ASSUME NEW prs, NEW t, take(prs, t)
        PROVE  IsFiniteSet(DOMAIN m')
    <2>1. DOMAIN m' = DOMAIN m
      BY <1>3 DEF take, countGet, storeVars
    <2> QED
      BY <2>1
  <1>4. ASSUME NEW prs, NEW expires, NEW maxGets, add(prs, expires, maxGets)
        PROVE  IsFiniteSet(DOMAIN m')
    <2>1. DOMAIN m' = DOMAIN m \/ DOMAIN m' = DOMAIN m \cup {prs}
      BY <1>4 DEF add, storeVars
    <2> QED
      BY <2>1, FS_AddElement
  <1> QED
    BY <1>1, <1>2, <1>3, <1>4

\* No operation of the store takes it beyond its limit.
LEMMA StoreBounded ==
  ASSUME Bounded,
         \/ UNCHANGED storeVars
         \/ \E S : burnAndDelete(S)
         \/ \E prs, t : take(prs, t)
         \/ \E prs, expires, maxGets : add(prs, expires, maxGets)
  PROVE  Bounded'
  <1>0. IsFiniteSet(DOMAIN m) /\ Cardinality(DOMAIN m) \in Nat /\ MaxPastes \in Nat
    BY FS_CardinalityType, StoreAssumption DEF Bounded
  <1>1. CASE UNCHANGED storeVars
    BY <1>1 DEF storeVars, Bounded, listLen
  <1>2. ASSUME NEW S, burnAndDelete(S)
        PROVE  Bounded'
    <2>1. DOMAIN m' \subseteq DOMAIN m
      BY <1>2 DEF burnAndDelete
    <2>2. IsFiniteSet(DOMAIN m') /\ Cardinality(DOMAIN m') <= Cardinality(DOMAIN m)
      BY <1>0, <2>1, FS_Subset
    <2>3. Cardinality(DOMAIN m') \in Nat
      BY <2>2, FS_CardinalityType
    <2> QED
      BY <1>0, <2>2, <2>3 DEF Bounded, listLen
  <1>3. ASSUME NEW prs, NEW t, take(prs, t)
        PROVE  Bounded'
    <2>1. DOMAIN m' = DOMAIN m
      BY <1>3 DEF take, countGet, storeVars
    <2> QED
      BY <2>1 DEF Bounded, listLen
  <1>4. ASSUME NEW prs, NEW expires, NEW maxGets, add(prs, expires, maxGets)
        PROVE  Bounded'
    <2>1. CASE addError(prs) = "none"
      <3>1. Cardinality(DOMAIN m) < MaxPastes /\ prs \notin DOMAIN m
        BY <1>0, <2>1 DEF addError, listLen
      <3>2. DOMAIN m' = DOMAIN m \cup {prs}
        BY <1>4, <2>1 DEF add
      <3>3. IsFiniteSet(DOMAIN m') /\ Cardinality(DOMAIN m') = Cardinality(DOMAIN m) + 1
        BY <1>0, <3>1, <3>2, FS_AddElement
      <3> QED
        BY <1>0, <3>1, <3>3 DEF Bounded, listLen
    <2>2. CASE addError(prs) # "none"
      BY <1>4, <2>2 DEF add, storeVars, Bounded, listLen
    <2> QED
      BY <2>1, <2>2
  <1> QED
    BY <1>1, <1>2, <1>3, <1>4

-----------------------------------------------------------------------------
\* The loop of paddedCount

\* Nonempty sets of naturals have a least element.
LEMMA Least ==
  ASSUME NEW T \in SUBSET Nat, T # {}
  PROVE \E x \in T : \A y \in T : x <= y
  <1>1. \E x \in T : \A y \in T : ~ (<<y, x>> \in OpToRel(<, Nat))
    BY NatLessThanWellFounded, WFMin, Zenon
  <1>2. ASSUME NEW x \in Nat, NEW y \in Nat, ~ (<<y, x>> \in OpToRel(<, Nat))
        PROVE ~(y < x)
    BY <1>2, Zenon DEF OpToRel
  <1>3. \E x \in T : \A y \in T : ~(y < x)
    BY <1>1, <1>2, Zenon
  <1> QED
    BY <1>3

\* The buckets the loop of paddedCount may visit from n on.
Closed(X) == \A x \in X : 2 * x \in X
Orbit(n) == {v \in Nat : \A X \in SUBSET Nat : n \in X /\ Closed(X) => v \in X}

\* Where it stops.
Enough(v, room) == ~(v < room /\ v < MaxCandidates)

Stops(n, room) == {v \in Orbit(n) : Enough(v, room)}

LEMMA OrbitFacts ==
  ASSUME NEW n \in Nat
  PROVE  /\ n \in Orbit(n) /\ Closed(Orbit(n)) /\ Orbit(n) \subseteq Nat
         /\ \A v \in Orbit(n) : n <= v
         /\ \A v \in Orbit(n) : v = n \/ v \in Orbit(2 * n)
         /\ Orbit(2 * n) \subseteq Orbit(n)
  <1>1. n \in Orbit(n) /\ Orbit(n) \subseteq Nat
    BY DEF Orbit
  <1>2. Closed(Orbit(n))
    BY DEF Closed, Orbit
  <1>3. \A v \in Orbit(n) : n <= v
    <2> DEFINE X == {x \in Nat : n <= x}
    <2>1. X \in SUBSET Nat /\ n \in X /\ Closed(X)
      BY DEF Closed
    <2> QED
      BY <2>1 DEF Orbit
  <1>4. 2 * n \in Nat
    OBVIOUS
  <1>5. Orbit(2 * n) \subseteq Nat /\ 2 * n \in Orbit(2 * n) /\ Closed(Orbit(2 * n))
    BY <1>4 DEF Orbit, Closed
  <1>6. \A v \in Orbit(n) : v = n \/ v \in Orbit(2 * n)
    <2> DEFINE X == {n} \cup Orbit(2 * n)
    <2>1. X \in SUBSET Nat /\ n \in X
      BY <1>5
    <2>2. Closed(X)
      BY <1>5 DEF Closed
    <2>3. Orbit(n) \subseteq X
      BY <2>1, <2>2 DEF Orbit
    <2> QED
      BY <2>3
  <1>7. Orbit(2 * n) \subseteq Orbit(n)
    <2>1. 2 * n \in Orbit(n)
      BY <1>1, <1>2 DEF Closed
    <2> SUFFICES ASSUME NEW v \in Orbit(2 * n) PROVE v \in Orbit(n)
      OBVIOUS
    <2>2. Orbit(n) \in SUBSET Nat /\ 2 * n \in Orbit(n) /\ Closed(Orbit(n))
      BY <1>1, <1>2, <2>1
    <2> QED
      BY <2>2 DEF Orbit
  <1> QED
    BY <1>1, <1>2, <1>3, <1>6, <1>7

\* From a positive bucket on, it stops.
LEMMA LoopStops ==
  ASSUME NEW n \in Nat \ {0}, NEW room \in Nat
  PROVE  Stops(n, room) # {}
  <1> SUFFICES ASSUME \A v \in Orbit(n) : v < room PROVE FALSE
    BY OrbitFacts, StoreAssumption DEF Stops, Enough
  <1> DEFINE T == {room - v : v \in Orbit(n)}
  <1>1. T \in SUBSET Nat /\ T # {}
    BY OrbitFacts
  <1>2. PICK e \in T : \A f \in T : e <= f
    BY <1>1, Least
  <1>3. PICK v \in Orbit(n) : e = room - v
    BY <1>2
  <1>4. 2 * v \in Orbit(n) /\ v \in Nat /\ n <= v
    BY <1>3, OrbitFacts DEF Closed
  <1>5. room - 2 * v \in T
    BY <1>4
  <1>6. e <= room - 2 * v
    BY <1>2, <1>5
  <1> QED
    BY <1>3, <1>4, <1>6

\* The bucket it stops at.
First(n, room) == CHOOSE v \in Stops(n, room) : \A w \in Stops(n, room) : v <= w

LEMMA FirstFacts ==
  ASSUME NEW n \in Nat \ {0}, NEW room \in Nat
  PROVE  /\ First(n, room) \in Stops(n, room) /\ First(n, room) \in Nat
         /\ \A w \in Stops(n, room) : First(n, room) <= w
  <1>1. Stops(n, room) \in SUBSET Nat /\ Stops(n, room) # {}
    BY LoopStops DEF Stops, Orbit
  <1>2. \E v \in Stops(n, room) : \A w \in Stops(n, room) : v <= w
    BY <1>1, Least
  <1> QED
    BY <1>1, <1>2 DEF First

LEMMA FirstUnfolds ==
  ASSUME NEW n \in Nat \ {0}, NEW room \in Nat
  PROVE  First(n, room) = IF n < room /\ n < MaxCandidates THEN First(2 * n, room) ELSE n
  <1>0. n \in Nat /\ 2 * n \in Nat \ {0}
    OBVIOUS
  <1>1. CASE Enough(n, room)
    <2>1. n \in Stops(n, room) /\ \A w \in Stops(n, room) : n <= w
      BY <1>0, <1>1, OrbitFacts DEF Stops
    <2>2. First(n, room) \in Stops(n, room) /\ First(n, room) \in Nat
      BY FirstFacts
    <2>3. First(n, room) <= n
      BY <2>1, FirstFacts
    <2>4. n <= First(n, room)
      BY <2>1, <2>2
    <2>5. First(n, room) = n
      BY <1>0, <2>2, <2>3, <2>4
    <2> QED
      BY <1>1, <2>5 DEF Enough
  <1>2. CASE ~Enough(n, room)
    <2>1. Stops(n, room) = Stops(2 * n, room)
      BY <1>0, <1>2, OrbitFacts DEF Stops
    <2>2. First(n, room) = First(2 * n, room)
      BY <2>1 DEF First
    <2> QED
      BY <1>2, <2>2 DEF Enough
  <1> QED
    BY <1>1, <1>2

\* The loop of paddedCount is such a loop.
LEMMA RoomFits ==
  ASSUME NEW room \in Nat
  PROVE  roomFor(room) = First(MinCandidates, room)
  <1> DEFINE f == [n \in Nat |-> IF n = 0 THEN 0 ELSE First(n, room)]
             d == CHOOSE g : g = [n \in Nat |->
                    IF n < room /\ n < MaxCandidates THEN g[2 * n] ELSE n]
  <1>1. ASSUME NEW n \in Nat
        PROVE  f[n] = IF n < room /\ n < MaxCandidates THEN f[2 * n] ELSE n
    <2>1. 2 * n \in Nat /\ (n # 0 => 2 * n # 0) /\ (n = 0 => 2 * n = 0)
      OBVIOUS
    <2>2. CASE n = 0
      BY <2>1, <2>2
    <2>3. CASE n # 0
      <3>1. First(n, room) = IF n < room /\ n < MaxCandidates THEN First(2 * n, room) ELSE n
        BY <2>3, FirstUnfolds
      <3>2. f[n] = First(n, room) /\ f[2 * n] = First(2 * n, room)
        BY <2>1, <2>3
      <3> QED
        BY <3>1, <3>2
    <2> QED
      BY <2>2, <2>3
  <1>2. f = [n \in Nat |-> f[n]]
    OBVIOUS
  <1> HIDE DEF f
  <1>3. f = [n \in Nat |-> IF n < room /\ n < MaxCandidates THEN f[2 * n] ELSE n]
    BY <1>1, <1>2
  <1>4. d = [n \in Nat |-> IF n < room /\ n < MaxCandidates THEN d[2 * n] ELSE n]
    BY <1>3, Zenon
  <1>5. roomFor(room) = d[MinCandidates]
    BY DEF roomFor
  <1> HIDE DEF d
  <1>6. \A n \in Nat : d[n] = IF n < room /\ n < MaxCandidates THEN d[2 * n] ELSE n
    BY <1>4
  <1> DEFINE Bad == {n \in Nat \ {0} : d[n] # First(n, room)}
             T == {room - n : n \in Bad}
  <1>7. ASSUME NEW n \in Bad
        PROVE  n \in Nat \ {0} /\ n < room /\ 2 * n \in Bad
    <2>1. n \in Nat \ {0} /\ d[n] # First(n, room) /\ 2 * n \in Nat \ {0}
      OBVIOUS
    <2>2. d[n] = IF n < room /\ n < MaxCandidates THEN d[2 * n] ELSE n
      BY <1>6, <2>1
    <2>3. First(n, room) = IF n < room /\ n < MaxCandidates THEN First(2 * n, room) ELSE n
      BY <2>1, FirstUnfolds
    <2> QED
      BY <2>1, <2>2, <2>3
  <1>8. Bad = {}
    <2> SUFFICES ASSUME Bad # {} PROVE FALSE
      OBVIOUS
    <2>1. T \in SUBSET Nat /\ T # {}
      BY <1>7
    <2>2. PICK e \in T : \A x \in T : e <= x
      BY <2>1, Least
    <2>3. PICK n \in Bad : e = room - n
      BY <2>2
    <2>4. n \in Nat \ {0} /\ 2 * n \in Bad
      BY <1>7
    <2>5. room - 2 * n \in T
      BY <2>4
    <2>6. e <= room - 2 * n
      BY <2>2, <2>5
    <2> QED
      BY <2>3, <2>4, <2>6
  <1> QED
    BY <1>5, <1>8, StoreAssumption

\* So paddedCount is the least bucket with room, or the first beyond the largest one.
LEMMA PaddedFacts ==
  ASSUME NEW n \in Nat
  PROVE  /\ paddedCount(n) \in Stops(MinCandidates, n + 1) /\ paddedCount(n) \in Nat
         /\ \A w \in Stops(MinCandidates, n + 1) : paddedCount(n) <= w
  <1>1. n + 1 \in Nat /\ MinCandidates \in Nat \ {0}
    BY StoreAssumption
  <1>2. paddedCount(n) = First(MinCandidates, n + 1)
    BY <1>1, RoomFits DEF paddedCount
  <1> QED
    BY <1>1, <1>2, FirstFacts

\* The offer of a store that is not over its limit has a slot for a decoy.
LEMMA CandidatesRoom ==
  ASSUME Bounded, NEW t
  PROVE  LET n == Cardinality(candidates(t).live)
         IN  /\ n \in 0..MaxPastes /\ n < candidates(t).slots
             /\ candidates(t).slots = paddedCount(n)
  <1> DEFINE live == {prs \in DOMAIN m : Retrievable(prs, t)}
             n == Cardinality(live)
  <1>1. n \in Nat /\ n <= MaxPastes
    <2>1. live \subseteq DOMAIN m /\ IsFiniteSet(DOMAIN m)
      BY DEF Bounded
    <2>2. n <= Cardinality(DOMAIN m) /\ n \in Nat /\ Cardinality(DOMAIN m) \in Nat
      BY <2>1, FS_Subset, FS_CardinalityType
    <2> QED
      BY <2>2, StoreAssumption DEF Bounded, listLen
  <1>2. candidates(t) = [live |-> live,
                         slots |-> IF n < paddedCount(n) THEN paddedCount(n) ELSE n]
    BY DEF candidates
  <1> HIDE DEF n, live
  <1>3. paddedCount(n) \in Nat /\ (paddedCount(n) >= n + 1 \/ paddedCount(n) >= MaxCandidates)
    BY <1>1, PaddedFacts, StoreAssumption DEF Stops, Enough
  <1>4. n < paddedCount(n)
    BY <1>1, <1>3, StoreAssumption
  <1>5. candidates(t).live = live /\ candidates(t).slots = paddedCount(n)
    BY <1>2, <1>4
  <1>6. n \in 0..MaxPastes
    BY <1>1, StoreAssumption
  <1> QED
    BY <1>4, <1>5, <1>6 DEF n
=============================================================================
