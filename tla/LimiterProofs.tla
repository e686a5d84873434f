---------------------------- MODULE LimiterProofs ----------------------------
(***************************************************************************)
(* What the limiter promises, for every burst, rate, window and length of  *)
(* time: its buckets bound what is granted in any window (Budget), and     *)
(* what sweep forgets about an address makes no difference to it           *)
(* (Lockout).                                                              *)
(*                                                                         *)
(* None of it is inductive: nothing in those statements says how many      *)
(* tokens are left to spend.  GuessInv adds the balance of the global      *)
(* bucket, which every charge preserves, also a charge whose reading of    *)
(* the clock is older than the one before it; PeerInv does so for the      *)
(* addresses.  LockInv, in the second half, has every failure and every    *)
(* unfinished handshake of an address paid for from its bucket.            *)
(***************************************************************************)
EXTENDS Budget, Lockout, TLAPS, FiniteSetTheorems

\* What has been granted in the window and what is left in the bucket together
\* never exceed the burst and the refill up to the bucket's own clock.
Balance ==
    guesses * Unit + global.tokens
        <= GlobalBurst * Unit + GlobalRate * (global.last - mark + MaxDelay)

GuessInv ==
    /\ now \in Nat
    /\ global \in Bucket
    /\ global.tokens <= GlobalBurst * Unit
    /\ mark \in Nat \cup {Never}
    /\ guesses \in Nat
    /\ mark <= now
    /\ mark = Never => guesses = 0
    /\ guesses > 0 => global.last # Never /\ Balance
    /\ GuessBound

LEMMA ConstantTypes ==
    /\ MaxDelay \in Nat /\ Unit \in Nat \ {0}
    /\ GlobalBurst \in Nat \ {0} /\ GlobalRate \in Nat
  BY ClockAssumption, LimiterAssumption

\* A longer time refills no less.
LEMMA RefillMonotone ==
  ASSUME NEW r \in Nat, NEW x \in Int, NEW y \in Int, x <= y
  PROVE  r * x <= r * y
  OBVIOUS

\* The refills of two consecutive spans of time, of which the second may be
\* negative, add up.
LEMMA RefillAdds ==
  ASSUME NEW r \in Nat, NEW x \in Int, NEW y \in Int
  PROVE  r * (x + y) = r * x + y * r
  OBVIOUS

\* What a refill of the global bucket at a reading t can yield.
LEMMA RefillFacts ==
  ASSUME global \in Bucket, NEW t \in Nat
  PROVE  LET r == refilled(global, t, GlobalBurst, GlobalRate)
         IN  /\ r \in Int
             /\ r <= GlobalBurst * Unit
             /\ global.last # Never => r <= global.tokens + (t - global.last) * GlobalRate
  BY ConstantTypes DEF refilled, least, Bucket, Never

\* The window is empty at first.
LEMMA GuessInvInit == BudgetInit => GuessInv
  <1> SUFFICES ASSUME BudgetInit PROVE GuessInv
    OBVIOUS
  <1>1. GlobalRate * (0 - Never + MaxDelay) \in Nat /\ GlobalBurst * Unit \in Nat
    BY ConstantTypes DEF Never
  <1> QED
    BY <1>1, ConstantTypes
    DEF BudgetInit, ClockInit, LimiterInit, GuessInv, GuessBound, Balance, Bucket, EmptyBucket, Never

\* A charge keeps the balance, whatever the reading it uses.
LEMMA GuessKeeps ==
  ASSUME GuessInv, NEW t \in Readings, Guess(t)
  PROVE  GuessInv'
  <1> DEFINE r == refilled(global, t, GlobalBurst, GlobalRate)
  <1> USE ConstantTypes
  <1>1. t \in Nat /\ t <= now /\ now - t <= MaxDelay
    BY DEF Readings, GuessInv
  <1>2. /\ r \in Int
        /\ r <= GlobalBurst * Unit
        /\ global.last # Never => r <= global.tokens + (t - global.last) * GlobalRate
    BY <1>1, RefillFacts DEF GuessInv
  <1> HIDE DEF r
  <1>3. now' = now /\ mark' = mark
    BY DEF Guess
  <1>4. global' = [tokens |-> r - (IF r >= Unit THEN Unit ELSE 0), last |-> t]
    BY DEF Guess, allowExchange, charged, granted, r
  <1>5. guesses' = IF mark # Never /\ r >= Unit THEN guesses + 1 ELSE guesses
    BY DEF Guess, exchangeAllowed, granted, r
  <1>6. global' \in Bucket /\ global'.tokens <= GlobalBurst * Unit /\ global'.last = t
    BY <1>1, <1>2, <1>4 DEF Bucket, Never
  <1>7. guesses' \in Nat /\ (mark = Never => guesses' = 0)
    BY <1>5 DEF GuessInv
  <1>8. ASSUME guesses' > 0
        PROVE  guesses' * Unit + global'.tokens
                 <= GlobalBurst * Unit + GlobalRate * (t - mark + MaxDelay)
    <2>1. mark \in Nat /\ mark <= now
      BY <1>7, <1>8 DEF GuessInv, Never
    <2>2. CASE guesses = 0
      <3>1. guesses' = 1 /\ global'.tokens = r - Unit
        BY <1>4, <1>5, <1>8, <2>2
      <3>2. 0 <= t - mark + MaxDelay /\ t - mark + MaxDelay \in Int
        BY <1>1, <2>1 DEF GuessInv
      <3>3. GlobalRate * 0 <= GlobalRate * (t - mark + MaxDelay)
        BY <3>2, RefillMonotone
      <3> QED
        BY <1>2, <3>1, <3>2, <3>3
    <2>3. CASE guesses > 0
      <3>1. global.last \in Nat /\ global.tokens \in Int
        BY <2>3 DEF GuessInv, Bucket
      <3>2. guesses' * Unit + global'.tokens = guesses * Unit + r
        BY <1>2, <1>4, <1>5, <2>1 DEF GuessInv, Never
      <3>3. guesses * Unit + global.tokens
              <= GlobalBurst * Unit + GlobalRate * (global.last - mark + MaxDelay)
        BY <2>3 DEF GuessInv, Balance
      <3>4. r <= global.tokens + (t - global.last) * GlobalRate
        BY <1>2, <2>3 DEF GuessInv
      <3>5. GlobalRate * ((global.last - mark + MaxDelay) + (t - global.last))
              = GlobalRate * (global.last - mark + MaxDelay) + (t - global.last) * GlobalRate
        BY <1>1, <2>1, <3>1, RefillAdds
      <3>6. (global.last - mark + MaxDelay) + (t - global.last) = t - mark + MaxDelay
        BY <1>1, <2>1, <3>1
      <3> DEFINE A == GlobalRate * (global.last - mark + MaxDelay)
                 B == (t - global.last) * GlobalRate
                 C == guesses * Unit
                 D == GlobalBurst * Unit
      <3>7. A \in Int /\ B \in Int /\ C \in Int /\ D \in Int
        BY <1>1, <2>1, <3>1 DEF GuessInv
      <3>8. C + global.tokens <= D + A /\ r <= global.tokens + B
        BY <3>3, <3>4
      <3> HIDE DEF A, B, C, D
      <3>9. C + r <= D + (A + B)
        BY <1>2, <3>1, <3>7, <3>8
      <3> QED
        BY <3>2, <3>5, <3>6, <3>9 DEF A, B, C, D
    <2> QED
      BY <2>2, <2>3 DEF GuessInv
  <1>9. GuessBound'
    <2>1. CASE mark # Never /\ r >= Unit
      <3>1. global'.tokens >= 0 /\ global'.tokens \in Int
        BY <1>2, <1>4, <2>1
      <3>2. guesses' > 0 /\ mark \in Nat
        BY <1>5, <2>1 DEF GuessInv
      <3>3. guesses' * Unit + global'.tokens
              <= GlobalBurst * Unit + GlobalRate * (t - mark + MaxDelay)
        BY <1>8, <3>2
      <3>4. GlobalRate * (t - mark + MaxDelay) <= GlobalRate * (now - mark + MaxDelay)
        BY <1>1, <3>2, RefillMonotone DEF GuessInv
      <3> DEFINE A == GlobalRate * (t - mark + MaxDelay)
                 B == GlobalRate * (now - mark + MaxDelay)
                 C == guesses' * Unit
                 D == GlobalBurst * Unit
      <3>5. A \in Int /\ B \in Int /\ C \in Int /\ D \in Int
        BY <1>1, <1>7, <3>2 DEF GuessInv
      <3>6. C + global'.tokens <= D + A /\ A <= B
        BY <3>3, <3>4
      <3> HIDE DEF A, B, C, D
      <3>7. C <= D + B
        BY <3>1, <3>5, <3>6
      <3> QED
        BY <1>3, <3>7 DEF GuessBound, A, B, C, D
    <2>2. CASE ~(mark # Never /\ r >= Unit)
      BY <1>3, <1>5, <2>2 DEF GuessInv, GuessBound
    <2> QED
      BY <2>1, <2>2
  <1> QED
    BY <1>1, <1>3, <1>6, <1>7, <1>8, <1>9 DEF GuessInv, Balance, Never

\* Every step keeps the invariant.
LEMMA GuessInvStep == GuessInv /\ [BudgetNext]_budgetVars => GuessInv'
  <1> SUFFICES ASSUME GuessInv, [BudgetNext]_budgetVars PROVE GuessInv'
    OBVIOUS
  <1> USE ConstantTypes
  <1>1. CASE Pass
    <2>1. now' = now + 1 /\ now' \in Nat
      BY <1>1 DEF Pass, ClockTick, GuessInv
    <2>2. UNCHANGED <<global, mark, guesses>>
      BY <1>1 DEF Pass, limiterVars
    <2>3. now - mark + MaxDelay \in Int /\ now' - mark + MaxDelay \in Int
          /\ now - mark + MaxDelay <= now' - mark + MaxDelay
      BY <2>1 DEF GuessInv, Never
    <2>4. GlobalRate * (now - mark + MaxDelay) <= GlobalRate * (now' - mark + MaxDelay)
      BY <2>3, RefillMonotone
    <2> DEFINE A == GlobalRate * (now - mark + MaxDelay)
               B == GlobalRate * (now' - mark + MaxDelay)
               C == guesses * Unit
               D == GlobalBurst * Unit
    <2>5. A \in Int /\ B \in Int /\ C \in Int /\ D \in Int
      BY <2>3 DEF GuessInv
    <2>6. C <= D + A /\ A <= B
      BY <2>4 DEF GuessInv, GuessBound
    <2> HIDE DEF A, B, C, D
    <2>7. C <= D + B
      BY <2>5, <2>6
    <2>8. GuessBound'
      BY <2>2, <2>7 DEF GuessBound, A, B, C, D
    <2> QED
      BY <2>1, <2>2, <2>8 DEF GuessInv, Balance, Never
  <1>2. CASE Open
    <2>1. /\ UNCHANGED <<now, global, guesses>>
          /\ mark' = now /\ guesses = 0
      BY <1>2 DEF Open, GuessInv, limiterVars
    <2>2. GlobalRate * (now - now + MaxDelay) \in Nat /\ GlobalBurst * Unit \in Nat
      BY DEF GuessInv
    <2>3. GuessBound'
      BY <2>1, <2>2 DEF GuessBound
    <2> QED
      BY <2>1, <2>3 DEF GuessInv, Never
  <1>3. ASSUME NEW t \in Readings, Guess(t)
        PROVE  GuessInv'
    BY <1>3, GuessKeeps
  <1>4. ASSUME UNCHANGED <<now, global, mark, guesses>>
        PROVE  GuessInv'
    BY <1>4 DEF GuessInv, Balance, GuessBound
  <1>5. ASSUME NEW t \in Readings, NEW a \in Addr, Admit(a, t)
        PROVE  GuessInv'
    BY <1>4, <1>5 DEF Admit, allowPeer
  <1>6. ASSUME NEW t \in Readings, Sweep(t)
        PROVE  GuessInv'
    BY <1>4, <1>6 DEF Sweep, limiterSweep
  <1>7. CASE UNCHANGED budgetVars
    BY <1>4, <1>7 DEF budgetVars, limiterVars
  <1> QED
    BY <1>1, <1>2, <1>3, <1>5, <1>6, <1>7 DEF BudgetNext

(***************************************************************************)
(* However many handshakes charge the global bucket concurrently, and in   *)
(* whatever order their readings of the clock reach it, the guesses        *)
(* granted in any window of time are within burst plus refill              *)
(* (allowExchange, bucket.take).                                           *)
(***************************************************************************)
THEOREM GuessesBounded == BudgetSpec => []GuessBound
  <1>1. GuessInv => GuessBound
    BY DEF GuessInv
  <1> QED
    BY <1>1, GuessInvInit, GuessInvStep, PTL DEF BudgetSpec

-----------------------------------------------------------------------------
(***************************************************************************)
(* The buckets of the addresses.  Their balance alone is not enough, since *)
(* sweep throws buckets away: Sound also says how far a late reading can   *)
(* overdraw a bucket, so that what was granted from a bucket that sweep    *)
(* takes for inactive has been refilled by then.                           *)
(***************************************************************************)

\* Products are kept abstract, with the few facts about them that are needed.
Refill(x) == RefillRate * x

Cost(n) == n * Unit

Full == RateBurst * Unit

LEMMA RefillType ==
  ASSUME NEW x \in Int
  PROVE  Refill(x) \in Int
  BY LimiterAssumption DEF Refill

LEMMA RefillSum ==
  ASSUME NEW x \in Int, NEW y \in Int
  PROVE  Refill(x + y) = Refill(x) + Refill(y)
  BY LimiterAssumption DEF Refill

LEMMA RefillOrder ==
  ASSUME NEW x \in Int, NEW y \in Int, x <= y
  PROVE  Refill(x) <= Refill(y)
  BY LimiterAssumption, RefillMonotone DEF Refill

LEMMA RefillPositive ==
  ASSUME NEW x \in Nat
  PROVE  Refill(x) \in Nat
  BY LimiterAssumption DEF Refill

LEMMA CostFacts ==
    /\ Cost(0) = 0
    /\ \A n \in Nat : Cost(n) \in Nat /\ Cost(n + 1) = Cost(n) + Unit
    /\ Full \in Nat /\ Full >= Unit
    /\ Unit \in Nat \ {0} /\ MaxDelay \in Nat /\ BlockWindow \in Nat
    /\ Full <= Refill(BlockWindow - 2 * MaxDelay)
  <1>1. Unit \in Nat \ {0} /\ RateBurst \in Nat \ {0} /\ BlockWindow \in Nat /\ MaxDelay \in Nat
    BY LimiterAssumption, ClockAssumption
  <1>2. \A n \in Nat : n * Unit \in Nat /\ (n + 1) * Unit = n * Unit + Unit
    BY <1>1
  <1>3. RateBurst * Unit = Unit + (RateBurst - 1) * Unit /\ (RateBurst - 1) * Unit \in Nat
    BY <1>1
  <1>4. RateBurst * Unit <= RefillRate * (BlockWindow - 2 * MaxDelay)
        /\ RefillRate * (BlockWindow - 2 * MaxDelay) \in Int /\ RateBurst * Unit \in Nat
    BY <1>1, RefillAssumption, LimiterAssumption
  <1> QED
    BY <1>1, <1>2, <1>3, <1>4 DEF Cost, Full, Refill

\* The state of a known address that has been granted n handshakes.
Sound(s, n) ==
    /\ s \in IpState
    /\ s.bucket.last \in 0..now
    /\ s.lastSeen = s.bucket.last
    /\ s.blocked = Never
    /\ s.failures = {}
    /\ s.bucket.tokens <= Full
    /\ 0 <= s.bucket.tokens + Refill(now - s.bucket.last)
    /\ 0 <= s.bucket.tokens + Refill(MaxDelay)
    /\ n > 0 => Cost(n) + s.bucket.tokens
                  <= Full + Refill(s.bucket.last - mark + MaxDelay)

PeerInv ==
    /\ now \in 0..MaxTime
    /\ mark \in Nat \cup {Never}
    /\ mark <= now
    /\ admits \in [Addr -> Nat]
    /\ mark = Never => \A a \in Addr : admits[a] = 0
    /\ DOMAIN ip \subseteq Addr
    /\ \A a \in DOMAIN ip : Sound(ip[a], admits[a])
    /\ \A a \in Addr \ DOMAIN ip : admits[a] > 0 => Cost(admits[a]) <= Refill(now - mark)

LEMMA PeerInvInit == BudgetInit => PeerInv
  BY ClockAssumption, CostFacts
  DEF BudgetInit, ClockInit, LimiterInit, PeerInv, Never

\* One charge of a bucket, in integers: it holds k tokens since time l, has been
\* refilled to r at time t and is left with e, n handshakes having been granted
\* before and m after it.
Charge(k, l, t, r, e, n, m) ==
    /\ k \in Int /\ l \in Int /\ t \in Int /\ r \in Int /\ e \in Int /\ n \in Nat /\ m \in Nat
    /\ now \in Nat /\ mark \in Int /\ mark <= now
    /\ t <= now /\ now <= t + MaxDelay
    /\ 0 <= k + Refill(now - l)
    /\ n > 0 => Cost(n) + k <= Full + Refill(l - mark + MaxDelay)
    /\ r <= Full /\ r <= k + Refill(t - l) /\ (r = Full \/ r = k + Refill(t - l))
    /\ e = IF r >= Unit THEN r - Unit ELSE r
    /\ m = n \/ (m = n + 1 /\ r >= Unit)

LEMMA ChargeKeeps ==
  ASSUME NEW k, NEW l, NEW t, NEW r, NEW e, NEW n, NEW m, Charge(k, l, t, r, e, n, m)
  PROVE  /\ e <= Full
         /\ 0 <= e + Refill(now - t)
         /\ 0 <= e + Refill(MaxDelay)
         /\ m > 0 => Cost(m) + e <= Full + Refill(t - mark + MaxDelay)
  <1> DEFINE A == Refill(l - mark + MaxDelay)
             B == Refill(t - l)
             C == Refill(now - t)
             D == Refill(MaxDelay)
             E == Refill(t - mark + MaxDelay)
             N == Cost(n)
             M == Cost(m)
  <1> USE DEF Charge
  <1>1. MaxDelay \in Nat /\ Unit \in Nat \ {0} /\ Full \in Nat /\ Full >= Unit
    BY CostFacts
  <1>2. /\ l - mark + MaxDelay \in Int /\ t - l \in Int /\ now - t \in Nat
        /\ t - mark + MaxDelay \in Nat /\ MaxDelay - (now - t) \in Nat
        /\ now - l = (t - l) + (now - t)
        /\ t - mark + MaxDelay = (l - mark + MaxDelay) + (t - l)
        /\ MaxDelay = (now - t) + (MaxDelay - (now - t))
    BY <1>1
  <1>3. A \in Int /\ B \in Int /\ C \in Nat /\ D \in Int /\ E \in Nat
    BY <1>1, <1>2, RefillType, RefillPositive
  <1>4. Refill(now - l) = B + C
    BY <1>2, RefillSum
  <1>5. E = A + B
    BY <1>2, RefillSum
  <1>6. C <= D
    BY <1>1, <1>2, RefillOrder
  <1>7. N \in Nat /\ M \in Nat /\ (m = n => M = N) /\ (m = n + 1 => M = N + Unit) /\ (n = 0 => N = 0)
    BY CostFacts
  <1>8. /\ 0 <= k + B + C
        /\ n > 0 => N + k <= Full + A
        /\ r <= Full /\ r <= k + B /\ (r = Full \/ r = k + B)
    BY <1>3, <1>4
  <1> HIDE DEF A, B, C, D, E, N, M
  <1>9. e <= Full /\ e <= r
    BY <1>1
  <1>10. 0 <= e + C
    BY <1>1, <1>3, <1>8
  <1>11. 0 <= e + D
    BY <1>3, <1>6, <1>10
  <1>12. ASSUME m > 0
         PROVE  M + e <= Full + E
    <2>1. CASE m = n
      BY <1>1, <1>3, <1>5, <1>7, <1>8, <1>9, <1>12, <2>1
    <2>2. CASE m = n + 1 /\ r >= Unit
      <3>1. M + e = N + r
        BY <1>1, <1>7, <2>2
      <3>2. n = 0 => N + r <= Full + E
        BY <1>1, <1>3, <1>7, <1>8
      <3>3. n > 0 => N + r <= Full + E
        BY <1>1, <1>3, <1>5, <1>7, <1>8
      <3> QED
        BY <3>1, <3>2, <3>3
    <2> QED
      BY <2>1, <2>2
  <1> QED
    BY <1>9, <1>10, <1>11, <1>12 DEF C, D, E, M

\* The state of an address once it has been seen at time t.
Seen(s, e, t) ==
    /\ s \in IpState
    /\ s.bucket.tokens = e /\ s.bucket.last = t /\ s.lastSeen = t
    /\ s.failures = {} /\ s.blocked = Never

LEMMA SeenSound ==
  ASSUME NEW s, NEW e \in Int, NEW t \in 0..now, NEW n \in Nat, Seen(s, e, t),
         e <= Full, 0 <= e + Refill(now - t), 0 <= e + Refill(MaxDelay),
         n > 0 => Cost(n) + e <= Full + Refill(t - mark + MaxDelay)
  PROVE  Sound(s, n)
  BY DEF Seen, Sound

LEMMA PeerSeenFields ==
  ASSUME NEW s \in IpState, NEW t \in Nat, NEW e \in Int, ~Blocked(s, t),
         s.failures = {}, s.blocked = Never,
         charged(s.bucket, t, RateBurst, RefillRate) = [tokens |-> e, last |-> t]
  PROVE  Seen(peerSeen(s, t), e, t)
  <1> DEFINE c == [tokens |-> e, last |-> t]
  <1>1. peerSeen(s, t) = [s EXCEPT !.lastSeen = t, !.bucket = c]
    BY DEF peerSeen
  <1>2. c \in Bucket /\ c.tokens = e /\ c.last = t
    BY DEF Bucket
  <1> HIDE DEF c
  <1>3. peerSeen(s, t) \in IpState
    BY <1>1, <1>2 DEF IpState
  <1>4. /\ peerSeen(s, t).bucket = c
        /\ peerSeen(s, t).lastSeen = t
        /\ peerSeen(s, t).failures = {}
        /\ peerSeen(s, t).blocked = Never
    BY <1>1 DEF IpState
  <1> QED
    BY <1>2, <1>3, <1>4 DEF Seen

\* allowPeer for an address the limiter knows.
LEMMA KnownAdmitted ==
  ASSUME PeerInv, NEW a \in DOMAIN ip, NEW t \in Readings, Admit(a, t)
  PROVE  Sound(ip'[a], admits'[a])
  <1> DEFINE s == ip[a]
             k == s.bucket.tokens
             l == s.bucket.last
             n == admits[a]
             m == admits'[a]
             r == refilled(s.bucket, t, RateBurst, RefillRate)
             e == IF r >= Unit THEN r - Unit ELSE r
  <1>1. /\ t \in 0..now /\ now \in Nat /\ t <= now /\ now <= t + MaxDelay /\ MaxDelay \in Nat
        /\ mark \in Int /\ mark <= now /\ a \in Addr /\ n \in Nat
    BY ClockAssumption DEF Readings, PeerInv, Never
  <1>2. Sound(s, n)
    BY DEF PeerInv
  <1>3. k \in Int /\ l \in Nat /\ s.bucket.last # Never /\ s \in IpState
    BY <1>1, <1>2 DEF Sound, IpState, Bucket, Never
  <1>4. r = least(Full, k + Refill(t - l))
    <2>1. (t - l) * RefillRate = RefillRate * (t - l)
      BY <1>1, <1>3, LimiterAssumption
    <2> QED
      BY <1>3, <2>1 DEF refilled, Full, Refill
  <1>5. Full \in Nat /\ Refill(t - l) \in Int /\ Unit \in Nat \ {0}
    BY <1>1, <1>3, CostFacts, RefillType
  <1>6. r \in Int /\ r <= Full /\ r <= k + Refill(t - l) /\ (r = Full \/ r = k + Refill(t - l))
    BY <1>3, <1>4, <1>5 DEF least
  <1>7. ~Blocked(s, t)
    BY <1>1, <1>2 DEF Blocked, Sound, Never
  <1>8. Seen(ip'[a], e, t)
    <2>1. ip'[a] = peerSeen(s, t)
      BY DEF Admit, allowPeer, stateOf
    <2>2. charged(s.bucket, t, RateBurst, RefillRate) = [tokens |-> e, last |-> t]
      BY <1>5, <1>6 DEF charged, granted
    <2>3. s.failures = {} /\ s.blocked = Never /\ e \in Int
      BY <1>2, <1>5, <1>6 DEF Sound
    <2> QED
      BY <1>1, <1>3, <1>7, <2>1, <2>2, <2>3, PeerSeenFields
  <1>9. m \in Nat /\ (m = n \/ (m = n + 1 /\ r >= Unit))
    <2>1. peerAllowed(a, t) <=> r >= Unit
      BY <1>7 DEF peerAllowed, stateOf, granted
    <2> QED
      BY <1>1, <2>1 DEF Admit, PeerInv
  <1>10. /\ 0 <= k + Refill(now - l)
         /\ n > 0 => Cost(n) + k <= Full + Refill(l - mark + MaxDelay)
    BY <1>2 DEF Sound
  <1>11. e \in Int /\ e = IF r >= Unit THEN r - Unit ELSE r
    BY <1>5, <1>6
  <1> HIDE DEF s, k, l, n, m, r, e
  <1>12. /\ e <= Full
         /\ 0 <= e + Refill(now - t)
         /\ 0 <= e + Refill(MaxDelay)
         /\ m > 0 => Cost(m) + e <= Full + Refill(t - mark + MaxDelay)
    <2>1. Charge(k, l, t, r, e, n, m)
      BY <1>1, <1>3, <1>6, <1>9, <1>10, <1>11 DEF Charge
    <2> QED
      BY <2>1, ChargeKeeps
  <1>13. Sound(ip'[a], m)
    BY <1>1, <1>8, <1>9, <1>11, <1>12, SeenSound
  <1> QED
    BY <1>13 DEF m

\* allowPeer for an address it does not know, or no longer knows.
LEMMA UnknownAdmitted ==
  ASSUME PeerInv, NEW a \in Addr \ DOMAIN ip, NEW t \in Readings, Admit(a, t)
  PROVE  Sound(ip'[a], admits'[a])
  <1> DEFINE n == admits[a]
             m == admits'[a]
             A == Refill(now - mark)
             B == Refill(t - mark + MaxDelay)
             N == Cost(n)
             M == Cost(m)
  <1>1. /\ t \in 0..now /\ now \in Nat /\ t <= now /\ now <= t + MaxDelay /\ MaxDelay \in Nat
        /\ mark \in Int /\ mark <= now /\ n \in Nat
    BY ClockAssumption DEF Readings, PeerInv, Never
  <1>2. Full \in Nat /\ Full >= Unit /\ Unit \in Nat \ {0}
    BY CostFacts
  <1>3. refilled(EmptyBucket, t, RateBurst, RefillRate) = Full
    BY DEF refilled, EmptyBucket, Full
  <1>4. stateOf(a) = FreshState /\ ~Blocked(FreshState, t)
    BY <1>1 DEF stateOf, Blocked, FreshState, Never
  <1>5. Seen(ip'[a], Full - Unit, t)
    <2>1. ip'[a] = peerSeen(FreshState, t)
      BY <1>4 DEF Admit, allowPeer
    <2>2. charged(FreshState.bucket, t, RateBurst, RefillRate) = [tokens |-> Full - Unit, last |-> t]
      BY <1>2, <1>3 DEF charged, granted, FreshState
    <2>3. FreshState \in IpState
      BY FS_EmptySet DEF FreshState, IpState, EmptyBucket, Bucket, Failures, Never
    <2>4. FreshState.failures = {} /\ FreshState.blocked = Never /\ Full - Unit \in Int /\ t \in Nat
      BY <1>1, <1>2 DEF FreshState
    <2> QED
      BY <1>4, <2>1, <2>2, <2>3, <2>4, PeerSeenFields
  <1>6. m \in Nat /\ (m = n \/ m = n + 1)
    BY <1>1 DEF Admit, PeerInv
  <1>7. n > 0 => N <= A
    BY DEF PeerInv
  <1>8. A \in Nat /\ B \in Nat /\ A <= B
    <2>1. now - mark \in Nat /\ t - mark + MaxDelay \in Nat /\ now - mark <= t - mark + MaxDelay
      BY <1>1
    <2> QED
      BY <2>1, RefillPositive, RefillOrder
  <1>9. N \in Nat /\ M \in Nat /\ (m = n => M = N) /\ (m = n + 1 => M = N + Unit) /\ (n = 0 => N = 0)
    BY <1>1, <1>6, CostFacts
  <1>10. Refill(now - t) \in Nat /\ Refill(MaxDelay) \in Nat
    BY <1>1, RefillPositive
  <1>11. Full - Unit \in Int /\ Full - Unit <= Full /\ 0 <= Full - Unit
    BY <1>2
  <1> HIDE DEF n, m, A, B, N, M
  <1>12. M + (Full - Unit) <= Full + B
    BY <1>1, <1>2, <1>6, <1>7, <1>8, <1>9
  <1>13. Sound(ip'[a], m)
    <2>1. 0 <= (Full - Unit) + Refill(now - t) /\ 0 <= (Full - Unit) + Refill(MaxDelay)
      BY <1>10, <1>11
    <2>2. Cost(m) + (Full - Unit) <= Full + Refill(t - mark + MaxDelay)
      BY <1>12 DEF M, B
    <2> QED
      BY <1>1, <1>5, <1>6, <1>11, <2>1, <2>2, SeenSound
  <1> QED
    BY <1>13 DEF m

LEMMA AdmitKeeps ==
  ASSUME PeerInv, NEW a \in Addr, NEW t \in Readings, Admit(a, t)
  PROVE  PeerInv'
  <1>1. now' = now /\ mark' = mark /\ DOMAIN ip' = DOMAIN ip \cup {a}
    BY DEF Admit, allowPeer
  <1>2. \A x \in DOMAIN ip' : x # a => ip'[x] = ip[x]
    BY DEF Admit, allowPeer
  <1>3. admits' \in [Addr -> Nat] /\ \A x \in Addr : x # a => admits'[x] = admits[x]
    BY DEF Admit, PeerInv
  <1>4. mark = Never => admits' = admits
    BY DEF Admit
  <1>5. Sound(ip'[a], admits'[a])
    BY KnownAdmitted, UnknownAdmitted
  <1>6. \A x \in DOMAIN ip' : Sound(ip'[x], admits'[x])
    BY <1>1, <1>2, <1>3, <1>5 DEF PeerInv
  <1>7. \A x \in DOMAIN ip' : Sound(ip[x], admits[x])'
    BY <1>1, <1>6 DEF Sound
  <1>8. \A x \in Addr \ DOMAIN ip' : admits'[x] > 0 => Cost(admits'[x]) <= Refill(now' - mark')
    BY <1>1, <1>3 DEF PeerInv
  <1> QED
    BY <1>1, <1>3, <1>4, <1>7, <1>8 DEF PeerInv

\* What was granted to an address that sweep forgets has been refilled since.
LEMMA ForgottenPaid ==
  ASSUME PeerInv, NEW a \in DOMAIN ip, NEW t \in Readings, Inactive(ip[a], t), admits[a] > 0
  PROVE  Cost(admits[a]) <= Refill(now - mark)
  <1> DEFINE k == ip[a].bucket.tokens
             l == ip[a].bucket.last
             w == BlockWindow - 2 * MaxDelay
             A == Refill(l - mark + MaxDelay)
             D == Refill(MaxDelay)
             W == Refill(w)
             N == Cost(admits[a])
  <1>1. Sound(ip[a], admits[a]) /\ admits[a] \in Nat
    BY DEF PeerInv
  <1>2. k \in Int /\ l \in Nat /\ ip[a].lastSeen = l
    BY <1>1 DEF Sound, IpState, Bucket
  <1>3. t \in Nat /\ t <= now /\ now \in Nat /\ mark \in Int /\ MaxDelay \in Nat /\ BlockWindow \in Nat
    BY CostFacts DEF Readings, PeerInv, Never
  <1>4. t - l > BlockWindow
    BY <1>2 DEF Inactive
  <1>5. N + k <= Full + A /\ 0 <= k + D /\ Full <= W
    BY <1>1, CostFacts DEF Sound
  <1>6. N \in Nat /\ Full \in Nat
    BY <1>1, CostFacts
  <1>7. /\ l - mark + MaxDelay \in Int /\ w \in Int /\ MaxDelay \in Int
        /\ (l - mark + MaxDelay) + MaxDelay \in Int
        /\ ((l - mark + MaxDelay) + MaxDelay) + w <= now - mark
        /\ ((l - mark + MaxDelay) + MaxDelay) + w \in Int /\ now - mark \in Int
    BY <1>2, <1>3, <1>4
  <1>8. A \in Int /\ D \in Int /\ W \in Int /\ Refill(now - mark) \in Int
    BY <1>7, RefillType
  <1>9. A + D = Refill((l - mark + MaxDelay) + MaxDelay)
    BY <1>7, RefillSum
  <1>10. (A + D) + W = Refill(((l - mark + MaxDelay) + MaxDelay) + w)
    BY <1>7, <1>9, RefillSum
  <1>11. (A + D) + W <= Refill(now - mark)
    BY <1>7, <1>10, RefillOrder
  <1> HIDE DEF k, l, w, A, D, W, N
  <1>12. N <= Refill(now - mark)
    BY <1>2, <1>5, <1>6, <1>8, <1>11
  <1> QED
    BY <1>12 DEF N

LEMMA SweepKeeps ==
  ASSUME PeerInv, NEW t \in Readings, Sweep(t)
  PROVE  PeerInv'
  <1>1. now' = now /\ mark' = mark /\ admits' = admits
    BY DEF Sweep
  <1>2. /\ DOMAIN ip' = {x \in DOMAIN ip : ~Inactive(ip[x], t)}
        /\ \A x \in DOMAIN ip' : ip'[x] = ip[x]
    BY DEF Sweep, limiterSweep
  <1>3. \A x \in DOMAIN ip' : Sound(ip[x], admits[x])'
    BY <1>1, <1>2 DEF PeerInv, Sound
  <1>4. \A x \in Addr \ DOMAIN ip' : admits[x] > 0 => Cost(admits[x]) <= Refill(now - mark)
    BY <1>2, ForgottenPaid DEF PeerInv
  <1> QED
    BY <1>1, <1>2, <1>3, <1>4 DEF PeerInv

\* Time passes.
LEMMA PassKeeps ==
  ASSUME PeerInv, Pass
  PROVE  PeerInv'
  <1>1. UNCHANGED <<ip, mark, admits>> /\ now' = now + 1 /\ now \in Nat /\ now' \in 0..MaxTime
        /\ mark \in Int /\ mark <= now
    BY ClockAssumption DEF Pass, ClockTick, PeerInv, limiterVars, Never
  <1>2. ASSUME NEW x \in DOMAIN ip
        PROVE  Sound(ip[x], admits[x])'
    <2>1. Sound(ip[x], admits[x])
      BY DEF PeerInv
    <2>2. ip[x].bucket.last \in Nat /\ ip[x].bucket.tokens \in Int
      BY <2>1 DEF Sound, IpState, Bucket
    <2>3. /\ Refill(now - ip[x].bucket.last) <= Refill(now' - ip[x].bucket.last)
          /\ Refill(now - ip[x].bucket.last) \in Int /\ Refill(now' - ip[x].bucket.last) \in Int
      BY <1>1, <2>2, RefillOrder, RefillType
    <2>4. 0 <= ip[x].bucket.tokens + Refill(now' - ip[x].bucket.last)
      BY <2>1, <2>2, <2>3 DEF Sound
    <2>5. ip[x].bucket.last \in 0..now'
      BY <1>1, <2>1 DEF Sound
    <2> QED
      BY <1>1, <2>1, <2>4, <2>5 DEF Sound
  <1>3. Refill(now - mark) <= Refill(now' - mark)
        /\ Refill(now - mark) \in Int /\ Refill(now' - mark) \in Int
    BY <1>1, RefillOrder, RefillType
  <1>4. ASSUME NEW x \in Addr \ DOMAIN ip, admits[x] > 0
        PROVE  Cost(admits[x]) <= Refill(now' - mark)
    <2>1. Cost(admits[x]) \in Nat /\ Cost(admits[x]) <= Refill(now - mark)
      BY <1>4, CostFacts DEF PeerInv
    <2> QED
      BY <1>3, <2>1
  <1> QED
    BY <1>1, <1>2, <1>4 DEF PeerInv

LEMMA PeerInvStep == PeerInv /\ [BudgetNext]_budgetVars => PeerInv'
  <1> SUFFICES ASSUME PeerInv, [BudgetNext]_budgetVars PROVE PeerInv'
    OBVIOUS
  <1>1. CASE Pass
    BY <1>1, PassKeeps
  <1>2. CASE Open
    <2>1. UNCHANGED <<now, ip, admits>> /\ mark' = now /\ \A a \in Addr : admits[a] = 0
      BY <1>2 DEF Open, PeerInv, limiterVars
    <2>2. \A x \in DOMAIN ip : Sound(ip[x], admits[x])'
      BY <2>1 DEF PeerInv, Sound
    <2> QED
      BY <2>1, <2>2, ClockAssumption DEF PeerInv, Never
  <1>3. ASSUME NEW t \in Readings, NEW a \in Addr, Admit(a, t)
        PROVE  PeerInv'
    BY <1>3, AdmitKeeps
  <1>4. ASSUME NEW t \in Readings, Sweep(t)
        PROVE  PeerInv'
    BY <1>4, SweepKeeps
  <1>5. ASSUME UNCHANGED <<now, ip, mark, admits>>
        PROVE  PeerInv'
    BY <1>5 DEF PeerInv, Sound
  <1>6. ASSUME NEW t \in Readings, Guess(t)
        PROVE  PeerInv'
    BY <1>5, <1>6 DEF Guess, allowExchange
  <1>7. CASE UNCHANGED budgetVars
    BY <1>5, <1>7 DEF budgetVars, limiterVars
  <1> QED
    BY <1>1, <1>2, <1>3, <1>4, <1>6, <1>7 DEF BudgetNext

\* The bound follows from the balance: the refill up to now makes good what a
\* late reading overdrew.
LEMMA PeerInvBound ==
  ASSUME PeerInv
  PROVE  PeerBound
  <1> SUFFICES ASSUME NEW a \in Addr
               PROVE  Cost(admits[a]) <= Full + Refill(now - mark + MaxDelay)
    BY DEF PeerBound, Cost, Full, Refill
  <1>1. /\ now \in Nat /\ mark \in Int /\ mark <= now /\ admits[a] \in Nat /\ MaxDelay \in Nat
        /\ Full \in Nat /\ Cost(admits[a]) \in Nat
    BY CostFacts DEF PeerInv, Never
  <1>2. now - mark + MaxDelay \in Nat /\ now - mark \in Int /\ now - mark <= now - mark + MaxDelay
    BY <1>1
  <1>3. Refill(now - mark + MaxDelay) \in Nat
    BY <1>2, RefillPositive
  <1>4. CASE admits[a] = 0
    <2>1. Cost(admits[a]) = 0
      BY <1>4, CostFacts
    <2> QED
      BY <1>1, <1>3, <2>1
  <1>5. CASE admits[a] > 0 /\ a \notin DOMAIN ip
    <2>1. Cost(admits[a]) <= Refill(now - mark)
      BY <1>5 DEF PeerInv
    <2>2. Refill(now - mark) <= Refill(now - mark + MaxDelay) /\ Refill(now - mark) \in Int
      BY <1>2, RefillOrder, RefillType
    <2> QED
      BY <1>1, <1>3, <2>1, <2>2
  <1>6. CASE admits[a] > 0 /\ a \in DOMAIN ip
    <2> DEFINE k == ip[a].bucket.tokens
               l == ip[a].bucket.last
               A == Refill(l - mark + MaxDelay)
               B == Refill(now - l)
    <2>1. Sound(ip[a], admits[a])
      BY <1>6 DEF PeerInv
    <2>2. k \in Int /\ l \in Nat
      BY <2>1 DEF Sound, IpState, Bucket
    <2>3. Cost(admits[a]) + k <= Full + A /\ 0 <= k + B
      BY <1>6, <2>1 DEF Sound
    <2>4. l - mark + MaxDelay \in Int /\ now - l \in Int
          /\ now - mark + MaxDelay = (l - mark + MaxDelay) + (now - l)
      BY <1>1, <2>2
    <2>5. A \in Int /\ B \in Int /\ Refill(now - mark + MaxDelay) = A + B
      BY <2>4, RefillType, RefillSum
    <2> HIDE DEF k, l, A, B
    <2> QED
      BY <1>1, <1>3, <2>2, <2>3, <2>5
  <1> QED
    BY <1>1, <1>4, <1>5, <1>6

(***************************************************************************)
(* The handshakes admitted from one address in any window of time are      *)
(* within burst plus refill, however often sweep forgets the address in    *)
(* between (allowPeer, limiter.sweep).                                     *)
(***************************************************************************)
THEOREM AdmissionsBounded == BudgetSpec => []PeerBound
  BY PeerInvInit, PeerInvStep, PeerInvBound, PTL DEF BudgetSpec

(***************************************************************************)
(* Every variable of the two buckets keeps its type, and no bucket ever    *)
(* holds more than its burst (bucket.take).                                *)
(***************************************************************************)
THEOREM BudgetTypeCorrect == BudgetSpec => []BudgetTypeOK
  <1>1. GuessInv /\ PeerInv => BudgetTypeOK
    BY DEF GuessInv, PeerInv, Sound, Full, BudgetTypeOK, LimiterTypeOK
  <1> QED
    BY <1>1, GuessInvInit, GuessInvStep, PeerInvInit, PeerInvStep, PTL DEF BudgetSpec

-----------------------------------------------------------------------------
(***************************************************************************)
(* Failures and blocks (module Lockout)                                    *)
(*                                                                         *)
(* SweepUnnoticed compares the state s that the limiter has of an address  *)
(* with k, what it would have if it forgot nothing.  AddrInv says what     *)
(* keeps the difference small: every failure of an address has been paid   *)
(* for with a token (Payments), so at most one burst of them can be unknown*)
(* to s while it still counts for k (FewLost), and a second burst is not   *)
(* enough to earn a block with it (MarginAssumption).                      *)
(***************************************************************************)

\* What the limiter's methods do to the state of an address

LEMMA LockConstants ==
    /\ Unit \in Nat \ {0} /\ BlockAfter \in Nat \ {0} /\ BlockWindow \in Nat /\ BlockFor \in Nat
    /\ PakeTimeout \in Nat /\ MaxDelay \in Nat /\ PakeTimeout + 4 * MaxDelay <= BlockWindow
    /\ Full \in Nat /\ Full <= Refill(BlockWindow + 1 - 2 * MaxDelay)
    /\ 2 * Full + Refill(PakeTimeout + 4 * MaxDelay) < Cost(BlockAfter)
  BY ClockAssumption, LimiterAssumption, LockoutAssumption, WindowAssumption, MarginAssumption
  DEF Full, Refill, Cost

LEMMA CostSum ==
  ASSUME NEW i \in Nat, NEW j \in Nat
  PROVE  /\ Cost(i) \in Nat /\ Cost(i + j) = Cost(i) + Cost(j)
         /\ i <= j => Cost(i) <= Cost(j)
         /\ Cost(0) = 0 /\ Cost(1) = Unit
  <1>1. Unit \in Nat
    BY LimiterAssumption
  <1>2. i * Unit \in Nat /\ (i + j) * Unit = i * Unit + j * Unit /\ 0 * Unit = 0 /\ 1 * Unit = Unit
    BY <1>1
  <1>3. i <= j => i * Unit <= j * Unit
    <2> SUFFICES ASSUME i <= j PROVE i * Unit <= j * Unit
      OBVIOUS
    <2>1. j = i + (j - i) /\ j - i \in Nat
      OBVIOUS
    <2>2. j * Unit = i * Unit + (j - i) * Unit /\ (j - i) * Unit \in Nat
      BY <1>1, <2>1
    <2> QED
      BY <1>1, <1>2, <2>2
  <1> QED
    BY <1>2, <1>3 DEF Cost

\* A charge at a reading t, which may be older than the one before it.
LEMMA ChargeFacts ==
  ASSUME NEW b \in Bucket, NEW t \in Nat
  PROVE  LET c == charged(b, t, RateBurst, RefillRate)
             r == refilled(b, t, RateBurst, RefillRate)
         IN  /\ c \in Bucket /\ c.last = t /\ c.tokens \in Int
             /\ r \in Int /\ r <= Full
             /\ b.last = Never => r = Full
             /\ b.last # Never => r = Full \/ r = b.tokens + Refill(t - b.last)
             /\ b.last # Never => r <= b.tokens + Refill(t - b.last)
             /\ c.tokens = IF granted(b, t, RateBurst, RefillRate) THEN r - Unit ELSE r
             /\ granted(b, t, RateBurst, RefillRate) <=> r >= Unit
  <1> DEFINE r == refilled(b, t, RateBurst, RefillRate)
             e == IF r >= Unit THEN Unit ELSE 0
  <1>1. b.last \in Int /\ b.tokens \in Int /\ (b.last # Never => b.last \in Nat)
    BY DEF Bucket, Never
  <1>2. Unit \in Nat \ {0} /\ Full \in Nat /\ RefillRate \in Nat
    BY LockConstants, LimiterAssumption
  <1>3. r = IF b.last = Never THEN Full ELSE least(Full, b.tokens + Refill(t - b.last))
    <2>1. b.last # Never => (t - b.last) * RefillRate = Refill(t - b.last)
      BY <1>1, <1>2 DEF Refill
    <2> QED
      BY <2>1 DEF refilled, Full
  <1>4. Refill(t - b.last) \in Int
    BY <1>1, RefillType
  <1>5. /\ r \in Int /\ r <= Full /\ (b.last = Never => r = Full)
        /\ b.last # Never => r <= b.tokens + Refill(t - b.last)
        /\ b.last # Never => r = Full \/ r = b.tokens + Refill(t - b.last)
    BY <1>1, <1>2, <1>3, <1>4 DEF least
  <1> HIDE DEF r
  <1>6. charged(b, t, RateBurst, RefillRate) = [tokens |-> r - e, last |-> t]
    BY DEF charged, granted, r
  <1>7. /\ r - e \in Int /\ e = IF granted(b, t, RateBurst, RefillRate) THEN Unit ELSE 0
        /\ granted(b, t, RateBurst, RefillRate) <=> r >= Unit
    BY <1>2, <1>5 DEF granted, r
  <1> HIDE DEF e
  <1> QED
    BY <1>2, <1>5, <1>6, <1>7 DEF Bucket, r

\* allowPeer
LEMMA SeenFields ==
  ASSUME NEW s \in IpState, NEW t \in Nat
  PROVE  /\ peerSeen(s, t).lastSeen = t
         /\ peerSeen(s, t).failures = s.failures /\ peerSeen(s, t).blocked = s.blocked
         /\ peerSeen(s, t).bucket = IF Blocked(s, t) THEN s.bucket
                                    ELSE charged(s.bucket, t, RateBurst, RefillRate)
         /\ peerSeen(s, t) \in IpState
  <1> DEFINE b == IF Blocked(s, t) THEN s.bucket ELSE charged(s.bucket, t, RateBurst, RefillRate)
             q == [s EXCEPT !.lastSeen = t]
  <1>1. b \in Bucket
    <2>1. s.bucket \in Bucket
      BY DEF IpState
    <2>2. refilled(s.bucket, t, RateBurst, RefillRate) \in Int
      BY <2>1, LimiterAssumption DEF refilled, least, Bucket, Never
    <2>3. charged(s.bucket, t, RateBurst, RefillRate) \in Bucket
      BY <2>2, LimiterAssumption DEF charged, Bucket
    <2> QED
      BY <2>1, <2>3
  <1>2. peerSeen(s, t) = [q EXCEPT !.bucket = b]
    BY DEF peerSeen, IpState
  <1>3. /\ q \in IpState /\ q.lastSeen = t /\ q.failures = s.failures /\ q.blocked = s.blocked
    BY DEF IpState
  <1> HIDE DEF b, q
  <1>4. /\ [q EXCEPT !.bucket = b] \in IpState /\ [q EXCEPT !.bucket = b].bucket = b
        /\ [q EXCEPT !.bucket = b].lastSeen = q.lastSeen
        /\ [q EXCEPT !.bucket = b].failures = q.failures
        /\ [q EXCEPT !.bucket = b].blocked = q.blocked
    BY <1>1, <1>3 DEF IpState
  <1> QED
    BY <1>2, <1>3, <1>4 DEF b

\* The failures that still count at time t.
Counting(s, t) == {f \in s.failures : t - f.at < BlockWindow}

NewFailure(s, t) == [at |-> t, no |-> Cardinality({f \in Counting(s, t) : f.at = t})]

\* fail
LEMMA RecentFacts ==
  ASSUME NEW s \in IpState, NEW t \in Nat
  PROVE  /\ recent(s, t) = Counting(s, t) \cup {NewFailure(s, t)}
         /\ recent(s, t) \in Failures /\ IsFiniteSet(Counting(s, t)) /\ IsFiniteSet(s.failures)
         /\ s.failures \subseteq [at : Nat, no : Nat]
         /\ Cardinality(recent(s, t)) \in Nat
         /\ Cardinality(recent(s, t)) <= Cardinality(Counting(s, t)) + 1
  <1>1. recent(s, t) = Counting(s, t) \cup {NewFailure(s, t)}
    BY DEF recent, Counting, NewFailure
  <1>2. s.failures \in SUBSET [at : Nat, no : Nat] /\ IsFiniteSet(s.failures)
    BY DEF IpState, Failures
  <1>3. IsFiniteSet(Counting(s, t)) /\ IsFiniteSet({f \in Counting(s, t) : f.at = t})
    BY <1>2, FS_Subset DEF Counting
  <1>4. NewFailure(s, t) \in [at : Nat, no : Nat]
    <2>1. Cardinality({f \in Counting(s, t) : f.at = t}) \in Nat
      BY <1>3, FS_CardinalityType
    <2> QED
      BY <2>1 DEF NewFailure
  <1>5. Counting(s, t) \subseteq [at : Nat, no : Nat]
    BY <1>2 DEF Counting
  <1>6. /\ IsFiniteSet(recent(s, t)) /\ Cardinality(recent(s, t)) \in Nat
        /\ Cardinality(recent(s, t)) <= Cardinality(Counting(s, t)) + 1
    <2>1. Cardinality(Counting(s, t)) \in Nat
      BY <1>3, FS_CardinalityType
    <2>2. /\ IsFiniteSet(recent(s, t))
          /\ Cardinality(recent(s, t)) =
                IF NewFailure(s, t) \in Counting(s, t) THEN Cardinality(Counting(s, t))
                ELSE Cardinality(Counting(s, t)) + 1
      BY <1>1, <1>3, FS_AddElement
    <2> QED
      BY <2>1, <2>2
  <1>7. recent(s, t) \in Failures
    BY <1>1, <1>4, <1>5, <1>6 DEF Failures
  <1> QED
    BY <1>1, <1>2, <1>3, <1>6, <1>7

LEMMA FailedFields ==
  ASSUME NEW s \in IpState, NEW t \in Nat
  PROVE  /\ failed(s, t) \in IpState
         /\ failed(s, t).bucket = s.bucket /\ failed(s, t).lastSeen = s.lastSeen
         /\ Cardinality(failed(s, t).failures) < BlockAfter
         /\ IF Cardinality(recent(s, t)) >= BlockAfter
            THEN failed(s, t).failures = {} /\ failed(s, t).blocked = t + BlockFor
            ELSE failed(s, t).failures = recent(s, t) /\ failed(s, t).blocked = s.blocked
  <1>1. BlockAfter \in Nat \ {0} /\ t + BlockFor \in Nat
    BY LockConstants
  <1>2. recent(s, t) \in Failures /\ Cardinality(recent(s, t)) \in Nat
    BY RecentFacts
  <1>3. {} \in Failures /\ Cardinality({}) = 0
    BY FS_EmptySet DEF Failures
  <1>4. CASE Cardinality(recent(s, t)) >= BlockAfter
    <2> DEFINE q == [s EXCEPT !.blocked = t + BlockFor]
    <2>1. failed(s, t) = [q EXCEPT !.failures = {}]
      BY <1>4 DEF failed, IpState
    <2>2. q \in IpState /\ q.blocked = t + BlockFor /\ q.bucket = s.bucket /\ q.lastSeen = s.lastSeen
      BY <1>1 DEF IpState
    <2> HIDE DEF q
    <2> QED
      BY <1>1, <1>3, <1>4, <2>1, <2>2 DEF IpState
  <1>5. CASE Cardinality(recent(s, t)) < BlockAfter
    <2>1. failed(s, t) = [s EXCEPT !.failures = recent(s, t)]
      BY <1>1, <1>2, <1>5 DEF failed
    <2> QED
      BY <1>1, <1>2, <1>5, <2>1 DEF IpState
  <1> QED
    BY <1>1, <1>2, <1>4, <1>5

LEMMA FreshIs ==
    /\ FreshState \in IpState /\ FreshState.bucket.last = Never /\ FreshState.failures = {}
    /\ FreshState.blocked = Never /\ FreshState.lastSeen = Never
  BY FS_EmptySet DEF FreshState, IpState, EmptyBucket, Bucket, Failures, Never

-----------------------------------------------------------------------------
\* Types

LEMMA StateType ==
  ASSUME LimiterTypeOK, NEW a
  PROVE  stateOf(a) \in IpState
  BY FreshIs DEF LimiterTypeOK, stateOf

\* What allowPeer's charge does to the bucket of the state that forgets nothing.
Spent(s, k, t) == IF Blocked(s, t) THEN k.bucket ELSE charged(k.bucket, t, RateBurst, RefillRate)

LEMMA SpentFields ==
  ASSUME NEW s \in IpState, NEW k \in IpState, NEW t \in Nat
  PROVE  LET l == [k EXCEPT !.bucket = Spent(s, k, t)]
         IN  /\ l \in IpState /\ l.bucket = Spent(s, k, t)
             /\ l.failures = k.failures /\ l.blocked = k.blocked
  <1>1. k.bucket \in Bucket
    BY DEF IpState
  <1>2. Spent(s, k, t) \in Bucket
    BY <1>1, ChargeFacts DEF Spent
  <1> QED
    BY <1>2 DEF IpState

LEMMA TypeArrive ==
  ASSUME LockoutTypeOK, NEW t \in Readings, NEW a \in Addr, Arrive(a, t)
  PROVE  /\ LockoutTypeOK'
         /\ kept' = [kept EXCEPT ![a] = [@ EXCEPT !.bucket = Spent(stateOf(a), kept[a], t)]]
  <1>1. t \in Nat /\ stateOf(a) \in IpState /\ kept[a] \in IpState /\ now \in Nat
    BY StateType, ClockAssumption DEF LockoutTypeOK, Readings
  <1>2. /\ ip' = [x \in DOMAIN ip \cup {a} |-> IF x = a THEN peerSeen(stateOf(a), t) ELSE ip[x]]
        /\ global' = global /\ now' = now
        /\ kept' = [kept EXCEPT ![a] = [@ EXCEPT !.bucket = Spent(stateOf(a), kept[a], t)]]
    BY DEF Arrive, allowPeer, Spent
  <1>3. /\ peerSeen(stateOf(a), t) \in IpState
        /\ [kept[a] EXCEPT !.bucket = Spent(stateOf(a), kept[a], t)] \in IpState
        /\ peerSeen(stateOf(a), t).failures = stateOf(a).failures
    BY <1>1, SeenFields, SpentFields
  <1>4. Cardinality(stateOf(a).failures) < BlockAfter
    <2>1. Cardinality({}) = 0 /\ 0 < BlockAfter
      BY FS_EmptySet, LockConstants
    <2> QED
      BY <2>1, FreshIs DEF stateOf, LockoutTypeOK
  <1>5. LimiterTypeOK' /\ \A x \in DOMAIN ip' : Cardinality(ip'[x].failures) < BlockAfter
    BY <1>2, <1>3, <1>4 DEF LockoutTypeOK, LimiterTypeOK
  <1>6. pending' \in [Addr -> SUBSET Handshake]
    <2>1. CASE peerAllowed(a, t)
      <3>1. PICK no \in 1..MaxPending :
               pending' = [pending EXCEPT ![a] = @ \cup {[at |-> now, no |-> no]}]
        BY <2>1 DEF Arrive
      <3>2. [at |-> now, no |-> no] \in Handshake
        BY <1>1 DEF Handshake
      <3> QED
        BY <3>1, <3>2 DEF LockoutTypeOK
    <2>2. CASE ~peerAllowed(a, t)
      BY <2>2 DEF Arrive, LockoutTypeOK
    <2> QED
      BY <2>1, <2>2
  <1>7. kept' \in [Addr -> IpState]
    BY <1>2, <1>3 DEF LockoutTypeOK
  <1> QED
    BY <1>2, <1>5, <1>6, <1>7 DEF LockoutTypeOK

LEMMA TypeFail ==
  ASSUME LockoutTypeOK, NEW t \in Readings, NEW a \in Addr, NEW h, Fail(a, h, t)
  PROVE  LockoutTypeOK'
  <1>1. t \in Nat /\ kept[a] \in IpState
    BY ClockAssumption DEF LockoutTypeOK, Readings
  <1>2. /\ ip' = IF a \in DOMAIN ip THEN [ip EXCEPT ![a] = failed(@, t)] ELSE ip
        /\ global' = global /\ now' = now /\ kept' = [kept EXCEPT ![a] = failed(@, t)]
        /\ pending' = [pending EXCEPT ![a] = @ \ {h}]
    BY DEF Fail, fail
  <1>3. a \in DOMAIN ip =>
          failed(ip[a], t) \in IpState /\ Cardinality(failed(ip[a], t).failures) < BlockAfter
    BY <1>1, FailedFields DEF LockoutTypeOK, LimiterTypeOK
  <1>4. failed(kept[a], t) \in IpState
    BY <1>1, FailedFields
  <1>5. LimiterTypeOK' /\ \A x \in DOMAIN ip' : Cardinality(ip'[x].failures) < BlockAfter
    BY <1>2, <1>3 DEF LockoutTypeOK, LimiterTypeOK
  <1> QED
    BY <1>2, <1>4, <1>5 DEF LockoutTypeOK

LEMMA TypeStep == LockoutTypeOK /\ [LockoutNext]_lockoutVars => LockoutTypeOK'
  <1> SUFFICES ASSUME LockoutTypeOK, [LockoutNext]_lockoutVars
               PROVE  LockoutTypeOK'
    OBVIOUS
  <1>1. CASE Elapse
    <2>1. now' \in 0..MaxTime
      BY <1>1, ClockAssumption DEF Elapse, ClockTick, LockoutTypeOK
    <2>2. pending' \in [Addr -> SUBSET Handshake]
      BY <1>1 DEF Elapse, LockoutTypeOK
    <2> QED
      BY <1>1, <2>1, <2>2 DEF Elapse, LockoutTypeOK, LimiterTypeOK, limiterVars
  <1>2. ASSUME NEW a \in Addr, NEW h, Finish(a, h)
        PROVE  LockoutTypeOK'
    BY <1>2 DEF Finish, LockoutTypeOK, LimiterTypeOK, limiterVars
  <1>3. ASSUME NEW t \in Readings, Forget(t)
        PROVE  LockoutTypeOK'
    BY <1>3 DEF Forget, limiterSweep, LockoutTypeOK, LimiterTypeOK
  <1>4. CASE UNCHANGED lockoutVars
    BY <1>4 DEF lockoutVars, LockoutTypeOK, LimiterTypeOK, limiterVars
  <1> QED
    BY <1>1, <1>2, <1>3, <1>4, TypeArrive, TypeFail DEF LockoutNext

(***************************************************************************)
(* Every variable of the failing handshakes keeps its type, and the record *)
(* of failures of an address is shorter than blockAfter (fail clears it    *)
(* when it blocks).                                                        *)
(***************************************************************************)
THEOREM LockoutTypeCorrect == LockoutSpec => []LockoutTypeOK
  <1>1. LockoutInit => LockoutTypeOK
    BY FreshIs, ClockAssumption
    DEF LockoutInit, ClockInit, LimiterInit, LockoutTypeOK, LimiterTypeOK, EmptyBucket, Bucket, Never
  <1> QED
    BY <1>1, TypeStep, PTL DEF LockoutSpec

-----------------------------------------------------------------------------
\* What the limiter has forgotten

From(P, y) == {h \in P : h.at >= y}

\* A bucket that has been charged for the failures in F and for the pending
\* handshakes admitted from time y on.  A charge may have been entered with a
\* reading MaxDelay older than the admission it paid for.
Paid(b, P, F, y) ==
    Cost(Cardinality(F) + Cardinality(From(P, y))) + b.tokens
        <= Full + Refill(b.last + MaxDelay - y)

\* The failures whose handshakes can only have been admitted at time y or later.
Since(s, y) == {f \in s.failures : f.at >= y + PakeTimeout}

\* What a bucket will have at time x is not negative.
Solvent(b, x) == 0 <= b.tokens + Refill(x - b.last)

\* An address with state s and pending handshakes P at time n: failures and
\* handshakes are no later than its visits allow.
InOrder(s, P, n) ==
    /\ IsFiniteSet(P)
    /\ s.bucket.last <= n /\ s.lastSeen <= n
    /\ s.bucket.last = Never => s.failures = {} /\ P = {}
    /\ s.bucket.last # Never => Solvent(s.bucket, n) /\ Solvent(s.bucket, s.lastSeen + MaxDelay)
    /\ \A h \in P :
        /\ h.at <= n /\ n - h.at <= PakeTimeout + MaxDelay
        /\ h.at <= s.bucket.last + MaxDelay /\ h.at <= s.lastSeen + MaxDelay
    /\ \A f \in s.failures :
        /\ f.at <= n
        /\ f.at <= s.bucket.last + MaxDelay + PakeTimeout
        /\ f.at <= s.lastSeen + MaxDelay + PakeTimeout

\* All of them have been paid for.
Payments(s, P) ==
    s.bucket.last # Never =>
        \A y \in Int : y <= s.bucket.last + MaxDelay => Paid(s.bucket, P, Since(s, y), y)

\* The failures that a reading at time n may still count for k, unknown to s.
Lost(s, k, n) == {f \in k.failures : n - MaxDelay - f.at < BlockWindow} \ s.failures

\* If sweep forgot an address at time v, no failure it forgot is later than this.
Latest(v) == v - BlockWindow - 1 + 2 * MaxDelay + PakeTimeout

\* Failures up to time x that a bucket has paid for.
Few(A, x) ==
    \A z \in Int :
        z <= x => Cost(Cardinality({f \in A : f.at >= z})) <= Full + Refill(x - z)

\* The lost failures were forgotten at time v, and what happened since has been
\* paid for by itself.
LostBy(s, k, P, n, v) ==
    /\ \A f \in Lost(s, k, n) : f.at <= Latest(v)
    /\ Few(Lost(s, k, n), Latest(v))
    /\ s.bucket.last # Never =>
        /\ v <= s.bucket.last + MaxDelay /\ v <= s.lastSeen + MaxDelay
        /\ \A h \in P : h.at >= v
        /\ Paid(s.bucket, P, s.failures, v)

FewLost(s, k, P, n) == Lost(s, k, n) = {} \/ \E v \in 0..n : LostBy(s, k, P, n, v)

Refilled(b, t) == b.last = Never \/ Full <= b.tokens + Refill(t - b.last)

\* The state s of an address makes no difference to k, from which nothing is missing.
Agree(s, k, n) ==
    /\ s.blocked = k.blocked \/ k.blocked <= n
    /\ s.bucket = k.bucket \/ (s.bucket.last = Never /\ Refilled(k.bucket, n - MaxDelay))
    /\ s.failures \subseteq k.failures

AddrInv(s, k, P, n) == InOrder(s, P, n) /\ Payments(s, P) /\ FewLost(s, k, P, n) /\ Agree(s, k, n)

LEMMA StateFacts ==
  ASSUME NEW s \in IpState
  PROVE  /\ s.bucket \in Bucket /\ s.bucket.tokens \in Int
         /\ s.bucket.last \in Nat \cup {Never} /\ s.bucket.last \in Int
         /\ (s.bucket.last # Never => s.bucket.last \in Nat)
         /\ s.lastSeen \in Int /\ s.blocked \in Int
         /\ s.failures \subseteq [at : Nat, no : Nat] /\ IsFiniteSet(s.failures)
         /\ \A f \in s.failures : f.at \in Nat
  BY DEF IpState, Bucket, Failures, Never

\* A bucket that was full when it was forgotten fills no further.
LEMMA RefilledIsFull ==
  ASSUME NEW b \in Bucket, NEW x \in Int, NEW t \in Nat, x <= t, Refilled(b, x)
  PROVE  refilled(b, t, RateBurst, RefillRate) = Full
  <1>1. CASE b.last = Never
    BY <1>1 DEF refilled, Full
  <1>2. CASE b.last # Never
    <2>1. b.last \in Nat /\ b.tokens \in Int /\ Full \in Nat /\ RefillRate \in Nat
      BY <1>2, LockConstants, LimiterAssumption DEF Bucket
    <2>2. Full <= b.tokens + Refill(x - b.last)
      BY <1>2 DEF Refilled
    <2>3. /\ Refill(x - b.last) <= Refill(t - b.last)
          /\ Refill(x - b.last) \in Int /\ Refill(t - b.last) \in Int
      BY <2>1, RefillOrder, RefillType
    <2>4. Full <= b.tokens + Refill(t - b.last)
      BY <2>1, <2>2, <2>3
    <2>5. Refill(t - b.last) = (t - b.last) * RefillRate
      BY <2>1 DEF Refill
    <2>6. refilled(b, t, RateBurst, RefillRate) = least(Full, b.tokens + Refill(t - b.last))
      BY <1>2, <2>5 DEF refilled, Full
    <2> QED
      BY <2>1, <2>3, <2>4, <2>6 DEF least
  <1> QED
    BY <1>1, <1>2

\* Where nothing has been forgotten, the bucket decides alike.
LEMMA AgreeDecides ==
  ASSUME NEW s \in IpState, NEW k \in IpState, NEW n \in Nat, NEW t \in Nat, n - MaxDelay <= t,
         Agree(s, k, n)
  PROVE  /\ granted(s.bucket, t, RateBurst, RefillRate) <=> granted(k.bucket, t, RateBurst, RefillRate)
         /\ charged(s.bucket, t, RateBurst, RefillRate) = charged(k.bucket, t, RateBurst, RefillRate)
  <1>1. refilled(s.bucket, t, RateBurst, RefillRate) = refilled(k.bucket, t, RateBurst, RefillRate)
    <2>1. CASE s.bucket.last = Never /\ Refilled(k.bucket, n - MaxDelay)
      <3>1. refilled(s.bucket, t, RateBurst, RefillRate) = Full
        BY <2>1 DEF refilled, Full
      <3>2. k.bucket \in Bucket /\ n - MaxDelay \in Int
        BY StateFacts, LockConstants
      <3> QED
        BY <2>1, <3>1, <3>2, RefilledIsFull
    <2> QED
      BY <2>1 DEF Agree
  <1> QED
    BY <1>1 DEF charged, granted

LEMMA FromFacts ==
  ASSUME NEW P, IsFiniteSet(P), NEW y
  PROVE  IsFiniteSet(From(P, y)) /\ Cardinality(From(P, y)) \in Nat
  BY FS_Subset, FS_CardinalityType DEF From

\* The failures that were lost last among some.
LEMMA FewLess ==
  ASSUME NEW A, IsFiniteSet(A), NEW B \in SUBSET A, NEW x \in Int, Few(A, x)
  PROVE  Few(B, x)
  <1> SUFFICES ASSUME NEW z \in Int, z <= x
               PROVE  Cost(Cardinality({f \in B : f.at >= z})) <= Full + Refill(x - z)
    BY DEF Few
  <1> DEFINE i == Cardinality({f \in B : f.at >= z})
             j == Cardinality({f \in A : f.at >= z})
  <1>1. i \in Nat /\ j \in Nat /\ i <= j
    <2>1. {f \in B : f.at >= z} \subseteq {f \in A : f.at >= z}
      OBVIOUS
    <2>2. IsFiniteSet({f \in A : f.at >= z})
      BY FS_Subset
    <2> QED
      BY <2>1, <2>2, FS_Subset, FS_CardinalityType
  <1>2. Cost(j) <= Full + Refill(x - z)
    BY DEF Few
  <1> HIDE DEF i, j
  <1>3. Cost(i) <= Cost(j) /\ Cost(i) \in Nat /\ Cost(j) \in Nat
    BY <1>1, CostSum
  <1>4. Full + Refill(x - z) \in Int
    BY LockConstants, RefillType
  <1>5. Cost(i) <= Full + Refill(x - z)
    BY <1>2, <1>3, <1>4
  <1> QED
    BY <1>5 DEF i

\* An admission at time n with a reading t: the bucket pays for the new handshake.
LEMMA PaidByCharge ==
  ASSUME NEW s \in IpState, NEW t \in Nat, NEW P \in SUBSET Handshake, NEW Q \in SUBSET Handshake,
         IsFiniteSet(P),
         NEW h \in Handshake,
         Q = P \/ (Q = P \cup {h} /\ granted(s.bucket, t, RateBurst, RefillRate)),
         NEW F \in SUBSET s.failures, NEW y \in Int, y <= t + MaxDelay,
         \/ s.bucket.last # Never /\ Paid(s.bucket, P, F, y)
         \/ F = {} /\ From(P, y) = {}
  PROVE  Paid(charged(s.bucket, t, RateBurst, RefillRate), Q, F, y)
  <1> DEFINE b == s.bucket
             c == charged(b, t, RateBurst, RefillRate)
             r == refilled(b, t, RateBurst, RefillRate)
             n == Cardinality(F) + Cardinality(From(P, y))
             m == Cardinality(F) + Cardinality(From(Q, y))
  <1>1. b \in Bucket /\ b.tokens \in Int /\ b.last \in Int /\ MaxDelay \in Nat
    BY StateFacts, LockConstants
  <1>2. /\ c.last = t /\ c.tokens \in Int /\ r \in Int /\ r <= Full
        /\ b.last # Never => r <= b.tokens + Refill(t - b.last)
        /\ c.tokens = IF granted(b, t, RateBurst, RefillRate) THEN r - Unit ELSE r
    BY <1>1, ChargeFacts
  <1>3. Unit \in Nat /\ Full \in Nat
    BY LockConstants
  <1>4. /\ IsFiniteSet(F) /\ Cardinality(F) \in Nat
        /\ IsFiniteSet(From(P, y)) /\ Cardinality(From(P, y)) \in Nat
    BY StateFacts, FromFacts, FS_Subset, FS_CardinalityType
  <1>5. n \in Nat /\ Cost(n) \in Nat
    <2>1. n \in Nat
      BY <1>4
    <2> HIDE DEF n
    <2> QED
      BY <2>1, CostSum
  <1>6. Cost(m) + c.tokens <= Cost(n) + r
    <2>1. CASE Q = P
      BY <1>2, <1>3, <1>5, <2>1
    <2>2. CASE Q = P \cup {h} /\ granted(b, t, RateBurst, RefillRate)
      <3>1. From(Q, y) = From(P, y) \cup {h} \/ From(Q, y) = From(P, y)
        BY <2>2 DEF From
      <3>2. Cardinality(From(Q, y)) = Cardinality(From(P, y))
            \/ Cardinality(From(Q, y)) = Cardinality(From(P, y)) + 1
        BY <1>4, <3>1, FS_AddElement
      <3>3. m = n \/ m = n + 1
        BY <1>4, <3>2
      <3>4. Cost(m) <= Cost(n) + Unit /\ Cost(m) \in Nat
        <4> HIDE DEF m, n
        <4>1. Cost(n + 1) = Cost(n) + Cost(1) /\ Cost(1) = Unit
          BY <1>5, CostSum
        <4> QED
          BY <1>3, <1>5, <3>3, <4>1
      <3>5. c.tokens = r - Unit
        BY <1>2, <2>2
      <3> HIDE DEF c, r, n, m
      <3> QED
        BY <1>2, <1>3, <1>5, <3>4, <3>5
    <2> QED
      BY <2>1, <2>2
  <1>7. Cost(m) \in Nat
    <2>1. From(Q, y) \subseteq From(P, y) \cup {h}
      BY DEF From
    <2>2. IsFiniteSet(From(P, y) \cup {h})
      BY <1>4, FS_AddElement
    <2>3. Cardinality(From(Q, y)) \in Nat
      BY <2>1, <2>2, FS_Subset, FS_CardinalityType
    <2>4. m \in Nat
      BY <1>4, <2>3
    <2> HIDE DEF m
    <2> QED
      BY <2>4, CostSum
  <1>8. Cost(n) + r <= Full + Refill(t + MaxDelay - y)
    <2>1. CASE b.last # Never /\ Paid(b, P, F, y)
      <3>1. Cost(n) + b.tokens <= Full + Refill(b.last + MaxDelay - y)
        BY <2>1 DEF Paid
      <3>2. /\ t - b.last \in Int /\ b.last + MaxDelay - y \in Int
            /\ t + MaxDelay - y = (t - b.last) + (b.last + MaxDelay - y)
        BY <1>1
      <3>3. Refill((t - b.last) + (b.last + MaxDelay - y))
              = Refill(t - b.last) + Refill(b.last + MaxDelay - y)
        BY <3>2, RefillSum, Zenon
      <3>4. Refill(t - b.last) \in Int /\ Refill(b.last + MaxDelay - y) \in Int
        BY <3>2, RefillType
      <3>5. Refill(t + MaxDelay - y) = Refill(t - b.last) + Refill(b.last + MaxDelay - y)
        BY <3>2, <3>3
      <3>6. r <= b.tokens + Refill(t - b.last)
        BY <1>2, <2>1
      <3> HIDE DEF b, r, n
      <3> QED
        BY <1>1, <1>2, <1>3, <1>5, <3>1, <3>4, <3>5, <3>6
    <2>2. CASE F = {} /\ From(P, y) = {}
      <3>1. n = 0 /\ Cost(n) = 0
        BY <2>2, FS_EmptySet, CostSum
      <3>2. t + MaxDelay - y \in Nat
        BY <1>1
      <3>3. Refill(t + MaxDelay - y) \in Nat
        BY <3>2, RefillPositive
      <3> QED
        BY <1>2, <1>3, <3>1, <3>3
    <2> QED
      BY <2>1, <2>2
  <1>9. Refill(t + MaxDelay - y) \in Int
    BY <1>1, RefillType
  <1>10. Cost(m) + c.tokens <= Full + Refill(t + MaxDelay - y)
    <2> HIDE DEF c, r, n, m
    <2> QED
      BY <1>2, <1>3, <1>5, <1>6, <1>7, <1>8, <1>9
  <1> QED
    BY <1>2, <1>10 DEF Paid

\* Before an address is known, or after all it has done, there is nothing to pay for.
LEMMA NothingPending ==
  ASSUME NEW s \in IpState, NEW n \in Nat, NEW P \in SUBSET Handshake, InOrder(s, P, n),
         NEW y \in Int, s.bucket.last = Never \/ s.bucket.last + MaxDelay < y
  PROVE  From(P, y) = {} /\ Since(s, y) = {}
  <1>1. /\ s.bucket.last \in Int /\ PakeTimeout \in Nat /\ MaxDelay \in Nat
        /\ \A h \in P : h.at \in Nat
        /\ \A f \in s.failures : f.at \in Nat
    BY StateFacts, LockConstants DEF Handshake
  <1> QED
    BY <1>1 DEF InOrder, From, Since

\* A charge leaves no debt that the time it read too early does not pay.
LEMMA ChargeSolvent ==
  ASSUME NEW s \in IpState, NEW n \in Nat, NEW t \in Nat, t <= n, n - t <= MaxDelay,
         s.bucket.last # Never => Solvent(s.bucket, n)
  PROVE  LET c == charged(s.bucket, t, RateBurst, RefillRate)
         IN  Solvent(c, n) /\ Solvent(c, t + MaxDelay)
  <1> DEFINE b == s.bucket
             c == charged(b, t, RateBurst, RefillRate)
             r == refilled(b, t, RateBurst, RefillRate)
             C == Refill(n - t)
             D == Refill((t + MaxDelay) - t)
  <1>1. b \in Bucket /\ b.tokens \in Int /\ b.last \in Int /\ MaxDelay \in Nat
    BY StateFacts, LockConstants
  <1>2. /\ c.last = t /\ c.tokens \in Int /\ r \in Int
        /\ b.last = Never => r = Full
        /\ b.last # Never => r = Full \/ r = b.tokens + Refill(t - b.last)
        /\ c.tokens = IF granted(b, t, RateBurst, RefillRate) THEN r - Unit ELSE r
        /\ granted(b, t, RateBurst, RefillRate) <=> r >= Unit
    BY <1>1, ChargeFacts
  <1>3. Unit \in Nat \ {0} /\ Full \in Nat
    BY LockConstants
  <1>4. C \in Nat /\ D \in Int /\ C <= D
    <2>1. n - t \in Nat /\ (t + MaxDelay) - t \in Int /\ n - t <= (t + MaxDelay) - t
      BY <1>1
    <2> QED
      BY <2>1, RefillPositive, RefillType, RefillOrder
  <1>5. 0 <= c.tokens + C
    <2>1. CASE r = Full \/ r >= Unit
      BY <1>2, <1>3, <1>4, <2>1
    <2>2. CASE r # Full /\ r < Unit
      <3>1. b.last # Never /\ r = b.tokens + Refill(t - b.last) /\ c.tokens = r
        BY <1>2, <1>3, <2>2
      <3>2. 0 <= b.tokens + Refill(n - b.last)
        BY <3>1 DEF Solvent
      <3>3. t - b.last \in Int /\ n - t \in Int /\ n - b.last = (t - b.last) + (n - t)
        BY <1>1
      <3>4. Refill((t - b.last) + (n - t)) = Refill(t - b.last) + Refill(n - t)
        BY <3>3, RefillSum, Zenon
      <3>5. Refill(t - b.last) \in Int
        BY <3>3, RefillType
      <3> DEFINE X == Refill(n - b.last)
                 Y == Refill(t - b.last)
      <3>6. X = Y + C /\ 0 <= b.tokens + X /\ r = b.tokens + Y /\ Y \in Int
        BY <3>1, <3>2, <3>3, <3>4, <3>5
      <3> HIDE DEF b, c, r, C, X, Y
      <3> QED
        BY <1>1, <1>4, <3>1, <3>6
    <2> QED
      BY <1>2, <1>3, <2>1, <2>2
  <1>6. 0 <= c.tokens + D
    <2> HIDE DEF c, C, D
    <2> QED
      BY <1>2, <1>4, <1>5
  <1>7. Solvent(c, n)
    <2>1. 0 <= c.tokens + Refill(n - c.last)
      BY <1>2, <1>5
    <2> QED
      BY <2>1 DEF Solvent
  <1>8. Solvent(c, t + MaxDelay)
    <2>1. 0 <= c.tokens + Refill((t + MaxDelay) - c.last)
      BY <1>2, <1>6
    <2> HIDE DEF c, r, C, D
    <2> QED
      BY ONLY <2>1 DEF Solvent
  <1> QED
    BY <1>7, <1>8

\* A later time leaves less debt.
LEMMA SolventLater ==
  ASSUME NEW b \in Bucket, NEW x \in Int, NEW y \in Int, x <= y, Solvent(b, x)
  PROVE  Solvent(b, y)
  <1>1. b.tokens \in Int /\ b.last \in Int
    BY DEF Bucket, Never
  <1>2. x - b.last \in Int /\ y - b.last \in Int /\ x - b.last <= y - b.last
    BY <1>1
  <1>3. Refill(x - b.last) <= Refill(y - b.last)
        /\ Refill(x - b.last) \in Int /\ Refill(y - b.last) \in Int
    BY <1>2, RefillOrder, RefillType
  <1> QED
    BY <1>1, <1>3 DEF Solvent

\* allowPeer, at time n with a reading t that is at most MaxDelay old.
LEMMA SeenKeeps ==
  ASSUME NEW s \in IpState, NEW k \in IpState,
         NEW n \in Nat, NEW t \in Nat, t <= n, n - t <= MaxDelay,
         NEW P \in SUBSET Handshake, NEW Q \in SUBSET Handshake,
         AddrInv(s, k, P, n),
         NEW h \in Handshake, h.at = n,
         Q = P \/ (Q = P \cup {h} /\ ~Blocked(s, t) /\ granted(s.bucket, t, RateBurst, RefillRate))
  PROVE  AddrInv(peerSeen(s, t), [k EXCEPT !.bucket = Spent(s, k, t)], Q, n)
  <1> DEFINE u == peerSeen(s, t)
             l == [k EXCEPT !.bucket = Spent(s, k, t)]
             c == charged(s.bucket, t, RateBurst, RefillRate)
  <1>1. /\ u.lastSeen = t /\ u.failures = s.failures /\ u.blocked = s.blocked
        /\ u.bucket = IF Blocked(s, t) THEN s.bucket ELSE c
    BY SeenFields
  <1>2. l.failures = k.failures /\ l.blocked = k.blocked /\ l.bucket = Spent(s, k, t)
    BY SpentFields
  <1>3. /\ s.bucket \in Bucket /\ s.bucket.last \in Int
        /\ PakeTimeout \in Nat /\ MaxDelay \in Nat /\ Never \notin Nat
        /\ \A f \in s.failures : f.at \in Nat
        /\ \A g \in P : g.at \in Nat
        /\ n <= t + MaxDelay /\ n - MaxDelay <= t
    BY StateFacts, LockConstants DEF Never, Handshake
  <1>4. InOrder(s, P, n) /\ Payments(s, P) /\ FewLost(s, k, P, n) /\ Agree(s, k, n)
    BY DEF AddrInv
  <1>5. /\ c \in Bucket /\ c.last = t /\ c.last # Never
        /\ c = charged(k.bucket, t, RateBurst, RefillRate)
    <2>1. c \in Bucket /\ c.last = t
      BY <1>3, ChargeFacts
    <2>2. c = charged(k.bucket, t, RateBurst, RefillRate)
      BY <1>3, <1>4, AgreeDecides
    <2> HIDE DEF c
    <2> QED
      BY <1>3, <2>1, <2>2
  <1> HIDE DEF u, l, c
  <1>6. Lost(u, l, n) = Lost(s, k, n) /\ \A y : Since(u, y) = Since(s, y)
    BY <1>1, <1>2 DEF Lost, Since
  <1>7. InOrder(u, Q, n)
    <2>1. IsFiniteSet(Q)
      BY <1>4, FS_AddElement DEF InOrder
    <2>2. \A g \in Q : g.at <= n /\ n - g.at <= PakeTimeout + MaxDelay /\ g.at <= t + MaxDelay
      <3>1. \A g \in P : g.at <= n /\ n - g.at <= PakeTimeout + MaxDelay
        BY <1>4 DEF InOrder
      <3>2. h.at <= n /\ n - h.at <= PakeTimeout + MaxDelay
        BY <1>3
      <3>3. \A g \in Q : g = h \/ g \in P
        OBVIOUS
      <3> QED
        BY <1>3, <3>1, <3>2, <3>3
    <2>3. \A f \in s.failures : f.at <= n /\ f.at <= t + MaxDelay + PakeTimeout
      BY <1>3, <1>4 DEF InOrder
    <2>4. CASE Blocked(s, t)
      <3>1. Q = P /\ u.bucket = s.bucket
        BY <1>1, <2>4
      <3>2. s.bucket.last # Never => Solvent(s.bucket, n) /\ Solvent(s.bucket, t + MaxDelay)
        <4>1. t + MaxDelay \in Int
          BY <1>3
        <4> QED
          BY <1>3, <1>4, <4>1, SolventLater DEF InOrder
      <3> QED
        BY <1>1, <1>4, <2>1, <2>2, <2>3, <3>1, <3>2 DEF InOrder
    <2>5. CASE ~Blocked(s, t)
      <3>1. u.bucket = c
        BY <1>1, <2>5
      <3>2. Solvent(c, n) /\ Solvent(c, t + MaxDelay)
        BY <1>4, ChargeSolvent DEF InOrder, c
      <3> QED
        BY <1>1, <1>5, <2>1, <2>2, <2>3, <3>1, <3>2 DEF InOrder
    <2> QED
      BY <2>4, <2>5
  <1>8. Payments(u, Q)
    <2>1. CASE Blocked(s, t)
      BY <1>1, <1>4, <1>6, <2>1 DEF Payments
    <2>2. CASE ~Blocked(s, t)
      <3> SUFFICES ASSUME NEW y \in Int, y <= t + MaxDelay
                   PROVE  Paid(c, Q, Since(s, y), y)
        BY <1>1, <1>5, <1>6, <2>2 DEF Payments
      <3>1. Since(s, y) \in SUBSET s.failures /\ IsFiniteSet(P)
        BY <1>4 DEF Since, InOrder
      <3>2. CASE s.bucket.last # Never /\ y <= s.bucket.last + MaxDelay
        <4>1. Paid(s.bucket, P, Since(s, y), y)
          BY <1>4, <3>2 DEF Payments
        <4> QED
          BY <3>1, <3>2, <4>1, PaidByCharge DEF c
      <3>3. CASE ~(s.bucket.last # Never /\ y <= s.bucket.last + MaxDelay)
        <4>1. s.bucket.last = Never \/ s.bucket.last + MaxDelay < y
          BY <1>3, <3>3
        <4>2. From(P, y) = {} /\ Since(s, y) = {}
          BY <1>4, <4>1, NothingPending
        <4> QED
          BY <3>1, <4>2, PaidByCharge DEF c
      <3> QED
        BY <3>2, <3>3
    <2> QED
      BY <2>1, <2>2
  <1>9. FewLost(u, l, Q, n)
    <2> SUFFICES ASSUME Lost(s, k, n) # {} PROVE \E v \in 0..n : LostBy(u, l, Q, n, v)
      BY <1>6 DEF FewLost
    <2>1. PICK v \in 0..n : LostBy(s, k, P, n, v)
      BY <1>4 DEF FewLost
    <2>2. v \in Nat /\ v \in Int /\ v <= n /\ v <= t + MaxDelay
      BY <1>3
    <2>3. CASE Blocked(s, t)
      <3>1. Q = P /\ u.bucket = s.bucket
        BY <1>1, <2>3
      <3> QED
        BY <1>1, <1>6, <2>1, <2>2, <3>1 DEF LostBy
    <2>4. CASE ~Blocked(s, t)
      <3>1. \A g \in Q : g.at >= v
        <4>1. \A g \in P : g.at >= v
          BY <1>4, <2>1 DEF LostBy, InOrder
        <4> QED
          BY <2>2, <4>1
      <3>2. Paid(c, Q, s.failures, v)
        <4>1. s.failures \in SUBSET s.failures /\ IsFiniteSet(P)
          BY <1>4 DEF InOrder
        <4>2. CASE s.bucket.last = Never
          <5>1. From(P, v) = {} /\ s.failures = {}
            BY <1>4, <4>2 DEF InOrder, From
          <5> QED
            BY <2>2, <4>1, <5>1, PaidByCharge DEF c
        <4>3. CASE s.bucket.last # Never
          <5>1. Paid(s.bucket, P, s.failures, v)
            BY <2>1, <4>3 DEF LostBy
          <5> QED
            BY <2>2, <4>1, <4>3, <5>1, PaidByCharge DEF c
        <4> QED
          BY <4>2, <4>3
      <3>3. u.bucket = c
        BY <1>1, <2>4
      <3>4. LostBy(u, l, Q, n, v)
        BY <1>1, <1>5, <1>6, <2>1, <2>2, <3>1, <3>2, <3>3 DEF LostBy
      <3> QED
        BY <3>4
    <2> QED
      BY <2>3, <2>4
  <1>10. Agree(u, l, n)
    <2>1. u.bucket = l.bucket \/ (u.bucket.last = Never /\ Refilled(l.bucket, n - MaxDelay))
      BY <1>1, <1>2, <1>4, <1>5 DEF Agree, Spent
    <2> QED
      BY <1>1, <1>2, <1>4, <2>1 DEF Agree
  <1> QED
    BY <1>7, <1>8, <1>9, <1>10 DEF AddrInv, u, l

\* What is paid for less has been paid for.
LEMMA PaidLess ==
  ASSUME NEW b \in Bucket, NEW P, NEW F, NEW Q, NEW G, NEW y \in Int,
         IsFiniteSet(P), IsFiniteSet(F), IsFiniteSet(Q), IsFiniteSet(G), Paid(b, P, F, y),
         Cardinality(G) + Cardinality(From(Q, y)) <= Cardinality(F) + Cardinality(From(P, y))
  PROVE  Paid(b, Q, G, y)
  <1> DEFINE n == Cardinality(F) + Cardinality(From(P, y))
             m == Cardinality(G) + Cardinality(From(Q, y))
             R == Refill(b.last + MaxDelay - y)
  <1>1. n \in Nat /\ m \in Nat /\ m <= n
    BY FromFacts, FS_CardinalityType
  <1>2. b.tokens \in Int /\ b.last \in Int /\ Full \in Nat /\ MaxDelay \in Nat
    BY LockConstants DEF Bucket, Never
  <1>3. R \in Int
    BY <1>2, RefillType
  <1>4. Cost(n) + b.tokens <= Full + R
    BY DEF Paid
  <1> HIDE DEF n, m, R
  <1>5. Cost(m) <= Cost(n) /\ Cost(m) \in Nat /\ Cost(n) \in Nat
    BY <1>1, CostSum
  <1>6. Cost(m) + b.tokens <= Full + R
    BY <1>2, <1>3, <1>4, <1>5
  <1> QED
    BY <1>6 DEF Paid, m, R

\* A handshake that fails moves from the one count to the other.
LEMMA PaidByFailure ==
  ASSUME NEW b \in Bucket, NEW P, NEW F, NEW G, NEW y \in Int,
         IsFiniteSet(P), IsFiniteSet(F), Paid(b, P, F, y),
         NEW h, NEW e,
         G \subseteq F \/ (G \subseteq F \cup {e} /\ h \in From(P, y))
  PROVE  Paid(b, P \ {h}, G, y)
  <1>1. /\ IsFiniteSet(P \ {h}) /\ IsFiniteSet(From(P, y)) /\ IsFiniteSet(F \cup {e})
        /\ Cardinality(F) \in Nat /\ Cardinality(From(P, y)) \in Nat
        /\ Cardinality(F \cup {e}) <= Cardinality(F) + 1 /\ Cardinality(F \cup {e}) \in Nat
    <2>1. IsFiniteSet(P \ {h}) /\ IsFiniteSet(From(P, y)) /\ Cardinality(From(P, y)) \in Nat
      BY FromFacts, FS_RemoveElement
    <2>2. IsFiniteSet(F \cup {e}) /\ Cardinality(F) \in Nat /\ Cardinality(F \cup {e}) \in Nat
      BY FS_AddElement, FS_CardinalityType
    <2>3. Cardinality(F \cup {e}) <= Cardinality(F) + 1
      BY <2>2, FS_AddElement
    <2> QED
      BY <2>1, <2>2, <2>3
  <1>2. IsFiniteSet(G) /\ Cardinality(G) \in Nat
    BY <1>1, FS_Subset, FS_CardinalityType
  <1>3. From(P \ {h}, y) = From(P, y) \ {h}
    BY DEF From
  <1>4. /\ Cardinality(From(P \ {h}, y)) \in Nat
        /\ Cardinality(From(P \ {h}, y)) =
              IF h \in From(P, y) THEN Cardinality(From(P, y)) - 1 ELSE Cardinality(From(P, y))
    <2>1. /\ Cardinality(From(P, y) \ {h}) =
                IF h \in From(P, y) THEN Cardinality(From(P, y)) - 1 ELSE Cardinality(From(P, y))
          /\ IsFiniteSet(From(P, y) \ {h})
      BY <1>1, FS_RemoveElement
    <2>2. Cardinality(From(P, y) \ {h}) \in Nat
      BY <2>1, FS_CardinalityType
    <2> QED
      BY <1>3, <2>1, <2>2
  <1>5. CASE G \subseteq F
    <2>1. Cardinality(G) <= Cardinality(F)
      BY <1>5, FS_Subset
    <2>2. Cardinality(G) + Cardinality(From(P \ {h}, y)) <= Cardinality(F) + Cardinality(From(P, y))
      BY <1>1, <1>2, <1>4, <2>1
    <2> QED
      BY <1>1, <1>2, <2>2, PaidLess
  <1>6. CASE G \subseteq F \cup {e} /\ h \in From(P, y)
    <2>1. Cardinality(G) <= Cardinality(F \cup {e})
      BY <1>1, <1>6, FS_Subset
    <2>2. Cardinality(G) + Cardinality(From(P \ {h}, y)) <= Cardinality(F) + Cardinality(From(P, y))
      BY <1>1, <1>2, <1>4, <1>6, <2>1
    <2> QED
      BY <1>1, <1>2, <2>2, PaidLess
  <1> QED
    BY <1>5, <1>6

\* Time passes, or handshakes end.
LEMMA FewerPending ==
  ASSUME NEW s \in IpState, NEW k \in IpState, NEW n \in Nat, NEW u \in {n, n + 1},
         NEW P \in SUBSET Handshake, NEW Q \in SUBSET P,
         AddrInv(s, k, P, n), \A h \in Q : u - h.at <= PakeTimeout + MaxDelay
  PROVE  AddrInv(s, k, Q, u)
  <1>0. /\ u \in Nat /\ n <= u
        /\ s.bucket \in Bucket /\ k.bucket \in Bucket /\ s.bucket.last \in Int /\ s.lastSeen \in Int
        /\ PakeTimeout \in Nat /\ MaxDelay \in Nat /\ BlockWindow \in Nat
        /\ IsFiniteSet(P) /\ IsFiniteSet(Q) /\ IsFiniteSet(s.failures)
        /\ \A h \in P : h.at \in Nat
        /\ \A f \in s.failures : f.at \in Nat
        /\ \A f \in k.failures : f.at \in Nat
    <2>1. u \in Nat /\ n <= u
      OBVIOUS
    <2> QED
      BY <2>1, StateFacts, LockConstants, FS_Subset DEF AddrInv, InOrder, Handshake
  <1>1. Lost(s, k, u) \subseteq Lost(s, k, n)
    BY <1>0 DEF Lost
  <1>2. ASSUME NEW y \in Int, NEW F \in SUBSET s.failures, Paid(s.bucket, P, F, y)
        PROVE  Paid(s.bucket, Q, F, y)
    <2>1. IsFiniteSet(F) /\ IsFiniteSet(From(P, y)) /\ From(Q, y) \subseteq From(P, y)
      BY <1>0, FromFacts, FS_Subset DEF From
    <2>2. /\ Cardinality(From(Q, y)) <= Cardinality(From(P, y)) /\ Cardinality(F) \in Nat
          /\ Cardinality(From(Q, y)) \in Nat /\ Cardinality(From(P, y)) \in Nat
      BY <1>0, <2>1, FromFacts, FS_Subset, FS_CardinalityType
    <2>3. Cardinality(F) + Cardinality(From(Q, y)) <= Cardinality(F) + Cardinality(From(P, y))
      BY <2>2
    <2> QED
      BY <1>0, <1>2, <2>1, <2>3, PaidLess
  <1>3. InOrder(s, Q, u)
    <2>1. s.bucket.last # Never =>
            Solvent(s.bucket, u) /\ Solvent(s.bucket, s.lastSeen + MaxDelay)
      BY <1>0, SolventLater DEF AddrInv, InOrder
    <2>2. InOrder(s, P, n)
      BY DEF AddrInv
    <2>3. \A h \in Q : /\ h.at <= u /\ u - h.at <= PakeTimeout + MaxDelay
                       /\ h.at <= s.bucket.last + MaxDelay /\ h.at <= s.lastSeen + MaxDelay
      BY <1>0, <2>2 DEF InOrder
    <2>4. \A f \in s.failures :
            /\ f.at <= u
            /\ f.at <= s.bucket.last + MaxDelay + PakeTimeout
            /\ f.at <= s.lastSeen + MaxDelay + PakeTimeout
      BY <1>0, <2>2 DEF InOrder
    <2>5. s.bucket.last <= u /\ s.lastSeen <= u
      BY <1>0, <2>2 DEF InOrder
    <2> QED
      BY <1>0, <2>1, <2>2, <2>3, <2>4, <2>5 DEF InOrder
  <1>4. Payments(s, Q)
    BY <1>2 DEF AddrInv, Payments, Since
  <1>5. FewLost(s, k, Q, u)
    <2> SUFFICES ASSUME Lost(s, k, u) # {} PROVE \E v \in 0..u : LostBy(s, k, Q, u, v)
      BY DEF FewLost
    <2>1. PICK v \in 0..n : LostBy(s, k, P, n, v)
      BY <1>1 DEF AddrInv, FewLost
    <2>2. v \in 0..u /\ v \in Int /\ Latest(v) \in Int
      BY <1>0 DEF Latest
    <2>3. IsFiniteSet(Lost(s, k, n))
      BY StateFacts, FS_Subset DEF Lost
    <2>4. Few(Lost(s, k, u), Latest(v))
      BY <1>1, <2>1, <2>2, <2>3, FewLess DEF LostBy
    <2>5. LostBy(s, k, Q, u, v)
      BY <1>1, <1>2, <2>1, <2>2, <2>4 DEF LostBy
    <2> QED
      BY <2>2, <2>5
  <1>6. Agree(s, k, u)
    <2>1. Refilled(k.bucket, n - MaxDelay) => Refilled(k.bucket, u - MaxDelay)
      <3> SUFFICES ASSUME k.bucket.last # Never,
                          Full <= k.bucket.tokens + Refill(n - MaxDelay - k.bucket.last)
                   PROVE  Full <= k.bucket.tokens + Refill(u - MaxDelay - k.bucket.last)
        BY DEF Refilled
      <3>1. k.bucket.tokens \in Int /\ k.bucket.last \in Int /\ Full \in Nat
        BY StateFacts, LockConstants
      <3>2. /\ n - MaxDelay - k.bucket.last \in Int /\ u - MaxDelay - k.bucket.last \in Int
            /\ n - MaxDelay - k.bucket.last <= u - MaxDelay - k.bucket.last
        BY <1>0, <3>1
      <3>3. /\ Refill(n - MaxDelay - k.bucket.last) <= Refill(u - MaxDelay - k.bucket.last)
            /\ Refill(n - MaxDelay - k.bucket.last) \in Int
            /\ Refill(u - MaxDelay - k.bucket.last) \in Int
        BY <3>2, RefillOrder, RefillType
      <3> QED
        BY <3>1, <3>3
    <2>2. s.blocked = k.blocked \/ k.blocked <= u
      BY <1>0, StateFacts DEF AddrInv, Agree
    <2> QED
      BY <2>1, <2>2 DEF AddrInv, Agree
  <1> QED
    BY <1>3, <1>4, <1>5, <1>6 DEF AddrInv

\* What s counts of the failures, and what it does not.
LEMMA CountedSplit ==
  ASSUME NEW s \in IpState, NEW k \in IpState, NEW t \in Nat, s.failures \subseteq k.failures
  PROVE  LET i == Cardinality(Counting(s, t))
             j == Cardinality(Counting(k, t) \ s.failures)
         IN  /\ i \in Nat /\ j \in Nat
             /\ Cardinality(Counting(k, t)) \in Nat
             /\ i <= i + j /\ Cardinality(Counting(k, t)) <= i + j
  <1> DEFINE A == Counting(s, t)
             B == Counting(k, t) \ s.failures
  <1>1. IsFiniteSet(A) /\ IsFiniteSet(Counting(k, t)) /\ IsFiniteSet(B)
    BY StateFacts, FS_Subset DEF Counting
  <1>2. Counting(k, t) \subseteq A \cup B
    BY DEF Counting
  <1>3. /\ IsFiniteSet(A \cup B)
        /\ Cardinality(A \cup B) = Cardinality(A) + Cardinality(B) - Cardinality(A \cap B)
    BY <1>1, FS_Union
  <1>4. /\ Cardinality(A) \in Nat /\ Cardinality(B) \in Nat /\ Cardinality(A \cap B) \in Nat
        /\ Cardinality(A \cup B) \in Nat /\ Cardinality(Counting(k, t)) \in Nat
    BY <1>1, <1>3, FS_CardinalityType, FS_Subset
  <1>5. Cardinality(Counting(k, t)) <= Cardinality(A \cup B)
    BY <1>2, <1>3, FS_Subset
  <1> HIDE DEF A, B
  <1>6. Cardinality(Counting(k, t)) <= Cardinality(A) + Cardinality(B)
        /\ Cardinality(A) <= Cardinality(A) + Cardinality(B)
    BY <1>3, <1>4, <1>5
  <1> QED
    BY <1>4, <1>6 DEF A, B

\* A failure at time n, when the last one known to k alone still counts: the
\* handshakes of two bursts are too few for a block.
LEMMA TooFew ==
  ASSUME NEW s \in IpState, NEW k \in IpState,
         NEW n \in Nat, NEW t \in Nat, t <= n, n - t <= MaxDelay,
         NEW P \in SUBSET Handshake, NEW h \in P,
         InOrder(s, P, n), Agree(s, k, n),
         NEW v \in Nat, LostBy(s, k, P, n, v),
         Counting(k, t) \ s.failures # {}
  PROVE  Cardinality(recent(s, t)) < BlockAfter /\ Cardinality(recent(k, t)) < BlockAfter
  <1> DEFINE i == Cardinality(Counting(s, t)) + 1
             j == Cardinality(Counting(k, t) \ s.failures)
             z == t - BlockWindow + 1
  <1>1. /\ s.bucket \in Bucket /\ s.bucket.tokens \in Int /\ s.bucket.last \in Int
        /\ IsFiniteSet(s.failures) /\ IsFiniteSet(P)
        /\ PakeTimeout \in Nat /\ MaxDelay \in Nat /\ BlockWindow \in Nat /\ BlockAfter \in Nat
        /\ Full \in Nat /\ s.bucket.last # Never
        /\ \A f \in k.failures : f.at \in Nat
    BY StateFacts, LockConstants DEF InOrder
  <1>2. Counting(k, t) \ s.failures = {f \in Lost(s, k, n) : f.at >= z}
    BY <1>1 DEF Lost, Counting
  <1>3. z \in Int /\ Latest(v) \in Int /\ z <= Latest(v)
    <2>1. z \in Int /\ Latest(v) \in Int
      BY <1>1 DEF Latest
    <2>2. PICK f \in Lost(s, k, n) : f.at >= z
      BY <1>2
    <2>3. f.at \in Nat /\ f.at <= Latest(v)
      BY <1>1, <2>2 DEF LostBy, Lost
    <2> HIDE DEF z
    <2> QED
      BY <2>1, <2>2, <2>3
  <1>4. Cost(j) <= Full + Refill(Latest(v) - z)
    <2>1. Cost(Cardinality({f \in Lost(s, k, n) : f.at >= z})) <= Full + Refill(Latest(v) - z)
      <3> HIDE DEF z
      <3> QED
        BY <1>3 DEF LostBy, Few
    <2> QED
      BY <1>2, <2>1
  <1>5. /\ Cardinality(recent(s, t)) \in Nat /\ Cardinality(recent(k, t)) \in Nat
        /\ Cardinality(recent(s, t)) <= i + j /\ Cardinality(recent(k, t)) <= i + j
        /\ i \in Nat /\ j \in Nat
    <2> DEFINE I == Cardinality(Counting(s, t))
               K == Cardinality(Counting(k, t))
    <2>1. I \in Nat /\ j \in Nat /\ K \in Nat /\ I <= I + j /\ K <= I + j
      BY CountedSplit DEF Agree
    <2>2. /\ Cardinality(recent(s, t)) \in Nat /\ Cardinality(recent(k, t)) \in Nat
          /\ Cardinality(recent(s, t)) <= I + 1 /\ Cardinality(recent(k, t)) <= K + 1
      BY RecentFacts
    <2>3. i = I + 1
      OBVIOUS
    <2> HIDE DEF I, K, i, j
    <2> QED
      BY <2>1, <2>2, <2>3
  <1>6. Cost(i) <= Full + Refill(n + MaxDelay - v)
    <2> DEFINE N == Cardinality(s.failures) + Cardinality(From(P, v))
               A == Refill(s.bucket.last + MaxDelay - v)
               B == Refill(n - s.bucket.last)
    <2>1. N \in Nat /\ i <= N
      <3>1. /\ Cardinality(Counting(s, t)) <= Cardinality(s.failures)
            /\ Cardinality(s.failures) \in Nat /\ Cardinality(Counting(s, t)) \in Nat
        BY <1>1, FS_Subset, FS_CardinalityType DEF Counting
      <3>2. Cardinality(From(P, v)) \in Nat /\ IsFiniteSet(From(P, v))
        BY <1>1, FromFacts
      <3>3. Cardinality(From(P, v)) >= 1
        <4>1. {h} \subseteq From(P, v) /\ Cardinality({h}) = 1
          BY <1>1, FS_Singleton DEF LostBy, From
        <4> QED
          BY <3>2, <4>1, FS_Subset
      <3> QED
        BY <3>1, <3>2, <3>3
    <2>2. Cost(N) + s.bucket.tokens <= Full + A
      BY <1>1 DEF LostBy, Paid
    <2>3. 0 <= s.bucket.tokens + B
      BY <1>1 DEF InOrder, Solvent
    <2>4. /\ s.bucket.last + MaxDelay - v \in Int /\ n - s.bucket.last \in Int
          /\ n + MaxDelay - v = (s.bucket.last + MaxDelay - v) + (n - s.bucket.last)
      BY <1>1
    <2>5. A \in Int /\ B \in Int /\ Refill(n + MaxDelay - v) = A + B
      <3>1. Refill((s.bucket.last + MaxDelay - v) + (n - s.bucket.last)) = A + B
        BY <2>4, RefillSum, Zenon
      <3> QED
        BY <2>4, <3>1, RefillType
    <2> HIDE DEF N, A, B, i
    <2>6. Cost(i) <= Cost(N) /\ Cost(N) \in Nat /\ Cost(i) \in Nat
      BY <1>5, <2>1, CostSum
    <2> QED
      BY <1>1, <2>2, <2>3, <2>5, <2>6
  <1>7. Cost(i + j) < Cost(BlockAfter)
    <2> DEFINE A == Refill(Latest(v) - z)
               B == Refill(n + MaxDelay - v)
               C == Refill(PakeTimeout + 4 * MaxDelay)
    <2>1. /\ Latest(v) - z \in Int /\ n + MaxDelay - v \in Int
          /\ (Latest(v) - z) + (n + MaxDelay - v) <= PakeTimeout + 4 * MaxDelay
          /\ (Latest(v) - z) + (n + MaxDelay - v) \in Int /\ PakeTimeout + 4 * MaxDelay \in Int
      BY <1>1 DEF Latest
    <2>2. A \in Int /\ B \in Int /\ C \in Int /\ A + B <= C
      <3>1. Refill((Latest(v) - z) + (n + MaxDelay - v)) = A + B
        BY <2>1, RefillSum, Zenon
      <3>2. Refill((Latest(v) - z) + (n + MaxDelay - v)) <= C
        BY <2>1, RefillOrder, Zenon
      <3>3. A \in Int /\ B \in Int /\ C \in Int
        BY <2>1, RefillType
      <3> QED
        BY <3>1, <3>2, <3>3
    <2>3. 2 * Full + C < Cost(BlockAfter)
      BY LockConstants
    <2>4. Cost(i) <= Full + B /\ Cost(j) <= Full + A
      BY <1>4, <1>6
    <2> HIDE DEF A, B, C, i, j, z
    <2>5. /\ Cost(i + j) = Cost(i) + Cost(j) /\ Cost(i) \in Nat /\ Cost(j) \in Nat
          /\ Cost(BlockAfter) \in Nat
      BY <1>1, <1>5, CostSum
    <2> QED
      BY <1>1, <2>2, <2>3, <2>4, <2>5
  <1> HIDE DEF i, j
  <1>8. ~(BlockAfter <= i + j)
    <2>1. i + j \in Nat
      BY <1>5
    <2>2. BlockAfter <= i + j => Cost(BlockAfter) <= Cost(i + j)
      BY <1>1, <2>1, CostSum
    <2>3. Cost(BlockAfter) \in Nat /\ Cost(i + j) \in Nat
      BY <1>1, <2>1, CostSum
    <2> QED
      BY <1>7, <2>2, <2>3
  <1> QED
    BY <1>1, <1>5, <1>8

\* A handshake fails: s and k block together or not at all.
LEMMA FailedKeeps ==
  ASSUME NEW s \in IpState, NEW k \in IpState,
         NEW n \in Nat, NEW t \in Nat, t <= n, n - t <= MaxDelay,
         NEW P \in SUBSET Handshake, NEW h \in P, t - h.at \in 0..PakeTimeout, AddrInv(s, k, P, n)
  PROVE  AddrInv(failed(s, t), failed(k, t), P \ {h}, n)
  <1> DEFINE u == failed(s, t)
             l == failed(k, t)
             e == NewFailure(s, t)
  <1>1. /\ InOrder(s, P, n) /\ Payments(s, P) /\ FewLost(s, k, P, n) /\ Agree(s, k, n)
    BY DEF AddrInv
  <1>2. /\ s.bucket \in Bucket /\ s.bucket.last \in Int /\ s.lastSeen \in Int
        /\ IsFiniteSet(s.failures) /\ IsFiniteSet(P)
        /\ PakeTimeout \in Nat /\ MaxDelay \in Nat /\ BlockWindow \in Nat /\ BlockAfter \in Nat
        /\ PakeTimeout + 4 * MaxDelay <= BlockWindow
        /\ h.at \in Nat /\ h.at <= s.bucket.last + MaxDelay /\ h.at <= s.lastSeen + MaxDelay
        /\ t - h.at <= PakeTimeout
        /\ s.bucket.last # Never
        /\ \A f \in s.failures : f.at \in Nat
        /\ \A f \in k.failures : f.at \in Nat
    <2>1. /\ s.bucket \in Bucket /\ s.bucket.last \in Int /\ s.lastSeen \in Int
          /\ IsFiniteSet(s.failures)
          /\ \A f \in s.failures : f.at \in Nat
          /\ \A f \in k.failures : f.at \in Nat
      BY StateFacts
    <2>2. /\ h.at \in Nat /\ h.at <= s.bucket.last + MaxDelay /\ h.at <= s.lastSeen + MaxDelay
          /\ IsFiniteSet(P) /\ s.bucket.last # Never
      BY <1>1 DEF InOrder, Handshake
    <2>3. PakeTimeout \in Nat /\ t - h.at <= PakeTimeout
      BY LockConstants
    <2> QED
      BY <2>1, <2>2, <2>3, LockConstants
  <1>3. /\ u.bucket = s.bucket /\ u.lastSeen = s.lastSeen /\ l.bucket = k.bucket
        /\ IF Cardinality(recent(s, t)) >= BlockAfter
           THEN u.failures = {} /\ u.blocked = t + BlockFor
           ELSE u.failures = recent(s, t) /\ u.blocked = s.blocked
        /\ IF Cardinality(recent(k, t)) >= BlockAfter
           THEN l.failures = {} /\ l.blocked = t + BlockFor
           ELSE l.failures = recent(k, t) /\ l.blocked = k.blocked
    BY FailedFields
  <1>4. /\ recent(s, t) = Counting(s, t) \cup {e} /\ e.at = t
        /\ recent(k, t) = Counting(k, t) \cup {NewFailure(k, t)}
    BY RecentFacts DEF NewFailure
  <1>5. u.failures \subseteq s.failures \cup {e}
    BY <1>3, <1>4 DEF Counting
  <1>6. Counting(s, t) \subseteq Counting(k, t)
    BY <1>1 DEF Agree, Counting
  <1> HIDE DEF u, l, e
  <1>7. InOrder(u, P \ {h}, n)
    <2>1. IsFiniteSet(P \ {h})
      BY <1>2, FS_RemoveElement
    <2>2. \A f \in u.failures :
            /\ f.at <= n
            /\ f.at <= s.bucket.last + MaxDelay + PakeTimeout
            /\ f.at <= s.lastSeen + MaxDelay + PakeTimeout
      <3>1. \A f \in s.failures :
              /\ f.at <= n
              /\ f.at <= s.bucket.last + MaxDelay + PakeTimeout
              /\ f.at <= s.lastSeen + MaxDelay + PakeTimeout
        BY <1>1 DEF InOrder
      <3>2. t <= n /\ t <= s.bucket.last + MaxDelay + PakeTimeout
            /\ t <= s.lastSeen + MaxDelay + PakeTimeout
        BY <1>2
      <3> QED
        BY <1>4, <1>5, <3>1, <3>2
    <2> QED
      BY <1>1, <1>2, <1>3, <2>1, <2>2 DEF InOrder
  <1>8. Payments(u, P \ {h})
    <2> SUFFICES ASSUME NEW y \in Int, y <= s.bucket.last + MaxDelay
                 PROVE  Paid(s.bucket, P \ {h}, Since(u, y), y)
      BY <1>2, <1>3 DEF Payments
    <2>1. Paid(s.bucket, P, Since(s, y), y)
      BY <1>1, <1>2 DEF Payments
    <2>2. IsFiniteSet(Since(s, y))
      BY <1>2, FS_Subset DEF Since
    <2>3. CASE t >= y + PakeTimeout
      <3>1. h \in From(P, y)
        BY <1>2, <2>3 DEF From
      <3>2. Since(u, y) \subseteq Since(s, y) \cup {e}
        BY <1>5 DEF Since
      <3> QED
        BY <1>2, <2>1, <2>2, <3>1, <3>2, PaidByFailure
    <2>4. CASE ~(t >= y + PakeTimeout)
      <3>1. Since(u, y) \subseteq Since(s, y)
        BY <1>4, <1>5, <2>4 DEF Since
      <3> QED
        BY <1>2, <2>1, <2>2, <3>1, PaidByFailure
    <2> QED
      BY <2>3, <2>4
  <1>9. CASE Counting(k, t) \ s.failures = {}
    <2>1. Counting(k, t) = Counting(s, t)
      BY <1>6, <1>9 DEF Counting
    <2>2. recent(k, t) = recent(s, t)
      BY <2>1 DEF recent, Counting
    <2>3. /\ u.failures = l.failures
          /\ u.blocked = l.blocked \/ (u.blocked = s.blocked /\ l.blocked = k.blocked)
      BY <1>3, <2>2
    <2>4. FewLost(u, l, P \ {h}, n)
      BY <2>3 DEF FewLost, Lost
    <2>5. Agree(u, l, n)
      BY <1>1, <1>3, <2>3 DEF Agree
    <2> QED
      BY <1>7, <1>8, <2>4, <2>5 DEF AddrInv, u, l
  <1>10. CASE Counting(k, t) \ s.failures # {}
    <2>1. Lost(s, k, n) # {}
      BY <1>2, <1>10 DEF Lost, Counting
    <2>2. PICK v \in 0..n : LostBy(s, k, P, n, v)
      BY <1>1, <2>1 DEF FewLost
    <2>3. /\ v \in Nat /\ v \in Int /\ v <= n /\ h \in From(P, v)
          /\ Paid(s.bucket, P, s.failures, v)
          /\ Latest(v) \in Int /\ Latest(v) < t
      <3>1. v \in Nat /\ v \in Int /\ v <= n
        OBVIOUS
      <3>2. h \in From(P, v) /\ Paid(s.bucket, P, s.failures, v)
        BY <1>2, <2>2 DEF LostBy, From
      <3>3. Latest(v) \in Int /\ Latest(v) < t
        BY <1>2, <3>1 DEF Latest
      <3> QED
        BY <3>1, <3>2, <3>3
    <2>4. Cardinality(recent(s, t)) < BlockAfter /\ Cardinality(recent(k, t)) < BlockAfter
      BY <1>1, <1>10, <2>2, <2>3, TooFew
    <2>5. /\ u.failures = recent(s, t) /\ u.blocked = s.blocked
          /\ l.failures = recent(k, t) /\ l.blocked = k.blocked
      <3>1. Cardinality(recent(s, t)) \in Nat /\ Cardinality(recent(k, t)) \in Nat
        BY RecentFacts
      <3> QED
        BY <1>2, <1>3, <2>4, <3>1
    <2>6. NewFailure(k, t) = e
      <3>1. ASSUME NEW f \in Counting(k, t), f.at = t
            PROVE  f \in Counting(s, t)
        <4>1. f \notin Lost(s, k, n)
          BY <2>2, <2>3, <3>1 DEF LostBy
        <4>2. f \in k.failures /\ n - MaxDelay - f.at < BlockWindow
          BY <1>2, <3>1 DEF Counting
        <4> QED
          BY <3>1, <4>1, <4>2 DEF Lost, Counting
      <3>2. {f \in Counting(k, t) : f.at = t} = {f \in Counting(s, t) : f.at = t}
        BY <1>6, <3>1
      <3> QED
        BY <3>2 DEF NewFailure, e
    <2>7. Lost(u, l, n) \subseteq Lost(s, k, n)
      BY <1>4, <2>5, <2>6 DEF Lost, Counting
    <2>8. Few(Lost(u, l, n), Latest(v))
      <3>1. IsFiniteSet(Lost(s, k, n))
        BY StateFacts, FS_Subset DEF Lost
      <3> QED
        BY <2>2, <2>3, <2>7, <3>1, FewLess DEF LostBy
    <2>9. Paid(s.bucket, P \ {h}, u.failures, v)
      BY <1>2, <1>5, <2>3, PaidByFailure
    <2>10. LostBy(u, l, P \ {h}, n, v)
      BY <1>3, <2>2, <2>7, <2>8, <2>9 DEF LostBy
    <2>11. u.failures \subseteq l.failures
      BY <1>4, <1>6, <2>5, <2>6
    <2>12. Agree(u, l, n)
      BY <1>1, <1>3, <2>5, <2>11 DEF Agree
    <2> QED
      BY <1>7, <1>8, <2>2, <2>10, <2>12 DEF AddrInv, FewLost, u, l
  <1> QED
    BY <1>9, <1>10

\* The handshakes of an address that may be forgotten are over, and had been
\* before those that fail now: nothing else is still lost.
LEMMA QuietBefore ==
  ASSUME NEW s \in IpState, NEW k \in IpState, NEW n \in Nat, NEW t \in Nat, t <= n,
         NEW P \in SUBSET Handshake, AddrInv(s, k, P, n), Inactive(s, t)
  PROVE  /\ P = {}
         /\ s.lastSeen \in Int /\ s.lastSeen + BlockWindow + 1 <= n
         /\ s.bucket.last # Never => Lost(s, k, n) = {}
  <1>1. InOrder(s, P, n) /\ FewLost(s, k, P, n)
    BY DEF AddrInv
  <1>2. /\ s.lastSeen \in Int /\ PakeTimeout \in Nat /\ MaxDelay \in Nat /\ BlockWindow \in Nat
        /\ PakeTimeout + 4 * MaxDelay <= BlockWindow
        /\ \A f \in k.failures : f.at \in Nat
    BY StateFacts, LockConstants
  <1>3. s.lastSeen + BlockWindow + 1 <= n
    BY <1>2 DEF Inactive
  <1>4. P = {}
    <2> SUFFICES ASSUME NEW h \in P PROVE FALSE
      OBVIOUS
    <2>1. h.at \in Nat /\ h.at <= s.lastSeen + MaxDelay /\ n - h.at <= PakeTimeout + MaxDelay
      BY <1>1 DEF InOrder, Handshake
    <2> QED
      BY <1>2, <1>3, <2>1
  <1>5. ASSUME s.bucket.last # Never, NEW f \in Lost(s, k, n)
        PROVE  FALSE
    <2>1. PICK v \in 0..n : LostBy(s, k, P, n, v)
      BY <1>1, <1>5 DEF FewLost
    <2>2. v \in Nat /\ v <= s.lastSeen + MaxDelay /\ f.at <= Latest(v)
      BY <1>5, <2>1 DEF LostBy
    <2>3. f.at \in Nat /\ n - MaxDelay - f.at < BlockWindow
      BY <1>2 DEF Lost
    <2> QED
      BY <1>2, <1>3, <2>2, <2>3 DEF Latest
  <1> QED
    BY <1>2, <1>3, <1>4, <1>5

\* What is forgotten had been paid for, and with it the bucket is full again.
LEMMA ForgottenFew ==
  ASSUME NEW s \in IpState, NEW n \in Nat, NEW P \in SUBSET Handshake,
         InOrder(s, P, n), Payments(s, P), s.bucket.last # Never,
         P = {}, s.lastSeen + BlockWindow + 1 <= n
  PROVE  /\ \A f \in s.failures : f.at <= Latest(n)
         /\ Few(s.failures, Latest(n))
         /\ Refilled(s.bucket, n - MaxDelay)
  <1>1. /\ s.bucket \in Bucket /\ s.bucket.tokens \in Int /\ s.bucket.last \in Int
        /\ s.lastSeen \in Int /\ Full \in Nat
        /\ PakeTimeout \in Nat /\ MaxDelay \in Nat /\ BlockWindow \in Nat
        /\ IsFiniteSet(s.failures)
        /\ \A f \in s.failures : f.at \in Nat
    BY StateFacts, LockConstants
  <1> DEFINE T == s.bucket.tokens
             C == Refill(s.lastSeen + MaxDelay - s.bucket.last)
  <1>2. 0 <= T + C /\ C \in Int /\ T \in Int /\ s.lastSeen + MaxDelay - s.bucket.last \in Int
    <2>1. s.lastSeen + MaxDelay - s.bucket.last \in Int
      BY <1>1
    <2>2. 0 <= T + Refill((s.lastSeen + MaxDelay) - s.bucket.last)
      BY DEF InOrder, Solvent
    <2>3. (s.lastSeen + MaxDelay) - s.bucket.last = s.lastSeen + MaxDelay - s.bucket.last
      BY <1>1
    <2> QED
      BY <1>1, <2>1, <2>2, <2>3, RefillType
  <1>3. \A f \in s.failures : f.at <= Latest(n)
    BY <1>1 DEF InOrder, Latest
  <1>4. Few(s.failures, Latest(n))
    <2> SUFFICES ASSUME NEW z \in Int, z <= Latest(n)
                 PROVE  Cost(Cardinality({f \in s.failures : f.at >= z}))
                          <= Full + Refill(Latest(n) - z)
      BY DEF Few
    <2> DEFINE y == z - PakeTimeout
               F == {f \in s.failures : f.at >= z}
               B == Refill(Latest(n) - z)
    <2>1. y \in Int /\ y + PakeTimeout = z /\ Latest(n) \in Int /\ Latest(n) - z \in Nat
      BY <1>1 DEF Latest
    <2>2. F = Since(s, y)
      BY <2>1 DEF Since
    <2>3. B \in Nat
      BY <2>1, RefillPositive
    <2>4. IsFiniteSet(F) /\ Cardinality(F) \in Nat
      BY <1>1, FS_Subset, FS_CardinalityType
    <2>5. CASE y <= s.bucket.last + MaxDelay
      <3> DEFINE A == Refill(s.bucket.last + MaxDelay - y)
      <3>1. Paid(s.bucket, P, F, y)
        <4> HIDE DEF y, F
        <4> QED
          BY <2>1, <2>2, <2>5 DEF Payments
      <3>2. Cardinality(F) + Cardinality(From(P, y)) = Cardinality(F)
        <4>1. Cardinality(From(P, y)) = 0
          BY FS_EmptySet DEF From
        <4> QED
          BY <2>4, <4>1
      <3>3. Cost(Cardinality(F)) + T <= Full + A
        BY <3>1, <3>2 DEF Paid
      <3>4. /\ s.bucket.last + MaxDelay - y \in Int
            /\ (s.bucket.last + MaxDelay - y) + (s.lastSeen + MaxDelay - s.bucket.last) \in Int
            /\ (s.bucket.last + MaxDelay - y) + (s.lastSeen + MaxDelay - s.bucket.last)
                 <= Latest(n) - z
        BY <1>1, <2>1 DEF Latest
      <3>5. A \in Int /\ A + C <= B
        <4>1. Refill((s.bucket.last + MaxDelay - y) + (s.lastSeen + MaxDelay - s.bucket.last))
                = A + C
          BY <1>2, <3>4, RefillSum, Zenon
        <4>2. Refill((s.bucket.last + MaxDelay - y) + (s.lastSeen + MaxDelay - s.bucket.last)) <= B
          BY <2>1, <3>4, RefillOrder
        <4> QED
          BY <3>4, <4>1, <4>2, RefillType
      <3>6. Cost(Cardinality(F)) \in Nat
        BY <2>4, CostSum
      <3> HIDE DEF T, A, B, C, F, y
      <3> QED
        BY <1>1, <1>2, <2>3, <3>3, <3>5, <3>6 DEF B, F
    <2>6. CASE ~(y <= s.bucket.last + MaxDelay)
      <3>1. F = {}
        BY <1>1, <2>6 DEF InOrder
      <3>2. Cost(Cardinality(F)) = 0
        BY <3>1, FS_EmptySet, CostSum
      <3> QED
        BY <1>1, <2>3, <3>2
    <2> QED
      BY <2>5, <2>6
  <1>5. Full <= T + Refill(n - MaxDelay - s.bucket.last)
    <2> DEFINE A == Refill(BlockWindow + 1 - 2 * MaxDelay)
               B == Refill(n - MaxDelay - s.bucket.last)
    <2>1. /\ BlockWindow + 1 - 2 * MaxDelay \in Int /\ n - MaxDelay - s.bucket.last \in Int
          /\ (BlockWindow + 1 - 2 * MaxDelay) + (s.lastSeen + MaxDelay - s.bucket.last) \in Int
          /\ (BlockWindow + 1 - 2 * MaxDelay) + (s.lastSeen + MaxDelay - s.bucket.last)
               <= n - MaxDelay - s.bucket.last
      BY <1>1
    <2>2. A \in Int /\ B \in Int /\ A + C <= B
      <3>1. Refill((BlockWindow + 1 - 2 * MaxDelay) + (s.lastSeen + MaxDelay - s.bucket.last))
              = A + C
        BY <1>2, <2>1, RefillSum, Zenon
      <3>2. Refill((BlockWindow + 1 - 2 * MaxDelay) + (s.lastSeen + MaxDelay - s.bucket.last)) <= B
        BY <2>1, RefillOrder
      <3> QED
        BY <2>1, <3>1, <3>2, RefillType
    <2>3. Full <= A
      BY LockConstants
    <2> HIDE DEF T, A, B, C
    <2>4. Full <= T + B
      BY <1>1, <1>2, <2>2, <2>3
    <2> QED
      BY <2>4 DEF B
  <1> QED
    BY <1>3, <1>4, <1>5 DEF Refilled, T

\* sweep forgets the address: what it knew and k does is lost, at time n.
LEMMA ForgetKeeps ==
  ASSUME NEW s \in IpState, NEW k \in IpState, NEW n \in Nat, NEW t \in Nat, t <= n,
         NEW P \in SUBSET Handshake, AddrInv(s, k, P, n), Inactive(s, t)
  PROVE  AddrInv(FreshState, k, P, n)
  <1>1. InOrder(s, P, n) /\ Payments(s, P) /\ FewLost(s, k, P, n) /\ Agree(s, k, n)
    BY DEF AddrInv
  <1>2. /\ P = {}
        /\ s.lastSeen \in Int /\ s.lastSeen + BlockWindow + 1 <= n
        /\ s.bucket.last # Never => Lost(s, k, n) = {}
    BY QuietBefore
  <1>3. InOrder(FreshState, P, n)
    BY <1>2, FreshIs, FS_EmptySet DEF InOrder, Never
  <1>4. Payments(FreshState, P)
    BY FreshIs DEF Payments
  <1>5. Agree(FreshState, k, n)
    <2>1. k.blocked <= n
      BY <1>1, StateFacts DEF Agree, Inactive
    <2>2. Refilled(k.bucket, n - MaxDelay)
      <3>1. CASE s.bucket = k.bucket /\ s.bucket.last # Never
        BY <1>1, <1>2, <3>1, ForgottenFew
      <3>2. CASE s.bucket = k.bucket /\ s.bucket.last = Never
        BY <3>2 DEF Refilled
      <3> QED
        BY <1>1, <3>1, <3>2 DEF Agree
    <2> QED
      BY <2>1, <2>2, FreshIs DEF Agree
  <1>6. FewLost(FreshState, k, P, n)
    <2>1. CASE s.bucket.last = Never
      <3>1. s.failures = {}
        BY <1>1, <2>1 DEF InOrder
      <3>2. Lost(FreshState, k, n) = Lost(s, k, n)
        BY <3>1, FreshIs DEF Lost
      <3> QED
        BY <1>1, <3>2, FreshIs DEF FewLost, LostBy
    <2>2. CASE s.bucket.last # Never
      <3>1. Lost(FreshState, k, n) \subseteq s.failures
        BY <1>2, <2>2 DEF Lost
      <3>2. (\A f \in s.failures : f.at <= Latest(n)) /\ Few(s.failures, Latest(n))
        BY <1>1, <1>2, <2>2, ForgottenFew
      <3>3. IsFiniteSet(s.failures) /\ Latest(n) \in Int
        BY StateFacts, LockConstants DEF Latest
      <3>4. Few(Lost(FreshState, k, n), Latest(n))
        BY <3>1, <3>2, <3>3, FewLess
      <3>5. LostBy(FreshState, k, P, n, n)
        BY <3>1, <3>2, <3>4, FreshIs DEF LostBy
      <3>6. n \in 0..n
        OBVIOUS
      <3> QED
        BY <3>5, <3>6 DEF FewLost
    <2> QED
      BY <2>1, <2>2
  <1> QED
    BY <1>3, <1>4, <1>5, <1>6 DEF AddrInv

LockInv == \A a \in Addr : AddrInv(stateOf(a), kept[a], pending[a], now)

LEMMA LockInvInit == LockoutInit => LockInv
  <1> SUFFICES ASSUME LockoutInit, NEW a \in Addr
               PROVE  AddrInv(stateOf(a), kept[a], pending[a], now)
    BY DEF LockInv
  <1>1. stateOf(a) = FreshState /\ kept[a] = FreshState /\ pending[a] = {} /\ now = 0
    BY DEF LockoutInit, LimiterInit, ClockInit, stateOf
  <1>2. InOrder(FreshState, {}, 0)
    BY FreshIs, FS_EmptySet DEF InOrder, Never
  <1>3. Payments(FreshState, {}) /\ FewLost(FreshState, FreshState, {}, 0)
        /\ Agree(FreshState, FreshState, 0)
    BY FreshIs DEF Payments, FewLost, Lost, Agree
  <1> QED
    BY <1>1, <1>2, <1>3 DEF AddrInv

\* The step of one address leaves the others as they are.
LEMMA OthersAgree ==
  ASSUME LockInv, NEW a \in Addr, now' = now,
         \A x \in Addr \ {a} : /\ stateOf(x)' = stateOf(x) /\ kept'[x] = kept[x]
                               /\ pending'[x] = pending[x],
         AddrInv(stateOf(a)', kept'[a], pending'[a], now)
  PROVE  LockInv'
  <1> SUFFICES ASSUME NEW x \in Addr
               PROVE  AddrInv(stateOf(x)', kept'[x], pending'[x], now')
    BY DEF LockInv
  <1>1. CASE x = a
    BY <1>1
  <1>2. CASE x # a
    BY <1>2 DEF LockInv
  <1> QED
    BY <1>1, <1>2

LEMMA LockTypes ==
  ASSUME LockoutTypeOK, LockInv, NEW a \in Addr, NEW t \in Readings
  PROVE  /\ now \in Nat /\ t \in Nat /\ t <= now /\ now - t <= MaxDelay /\ now - MaxDelay <= t
         /\ stateOf(a) \in IpState /\ kept[a] \in IpState
         /\ pending[a] \in SUBSET Handshake /\ AddrInv(stateOf(a), kept[a], pending[a], now)
  BY ClockAssumption, StateType DEF LockoutTypeOK, LockInv, Readings

LEMMA ArriveKeeps ==
  ASSUME LockoutTypeOK, LockInv, NEW t \in Readings, NEW a \in Addr, Arrive(a, t)
  PROVE  LockInv'
  <1>1. /\ now \in Nat /\ t \in Nat /\ t <= now /\ now - t <= MaxDelay
        /\ stateOf(a) \in IpState /\ kept[a] \in IpState
        /\ pending[a] \in SUBSET Handshake /\ AddrInv(stateOf(a), kept[a], pending[a], now)
    BY LockTypes
  <1> DEFINE l == [kept[a] EXCEPT !.bucket = Spent(stateOf(a), kept[a], t)]
  <1>2. /\ ip' = [x \in DOMAIN ip \cup {a} |-> IF x = a THEN peerSeen(stateOf(a), t) ELSE ip[x]]
        /\ kept' = [kept EXCEPT ![a] = l] /\ now' = now
    BY TypeArrive DEF Arrive, allowPeer
  <1>3. /\ stateOf(a)' = peerSeen(stateOf(a), t) /\ kept'[a] = l
        /\ \A x \in Addr \ {a} : stateOf(x)' = stateOf(x) /\ kept'[x] = kept[x]
    BY <1>2 DEF stateOf, LockoutTypeOK
  <1>4. \A x \in Addr \ {a} : pending'[x] = pending[x]
    BY DEF Arrive, LockoutTypeOK
  <1>5. AddrInv(peerSeen(stateOf(a), t), l, pending'[a], now)
    <2>1. CASE peerAllowed(a, t)
      <3>1. PICK no \in 1..MaxPending :
               pending' = [pending EXCEPT ![a] = @ \cup {[at |-> now, no |-> no]}]
        BY <2>1 DEF Arrive
      <3>2. [at |-> now, no |-> no] \in Handshake /\ [at |-> now, no |-> no].at = now
        BY <1>1 DEF Handshake
      <3>3. pending'[a] = pending[a] \cup {[at |-> now, no |-> no]}
        BY <3>1 DEF LockoutTypeOK
      <3>4. pending'[a] \in SUBSET Handshake
        BY <1>1, <3>2, <3>3
      <3>5. ~Blocked(stateOf(a), t) /\ granted(stateOf(a).bucket, t, RateBurst, RefillRate)
        BY <2>1 DEF peerAllowed
      <3> QED
        BY <1>1, <3>2, <3>3, <3>4, <3>5, SeenKeeps
    <2>2. CASE ~peerAllowed(a, t)
      <3>1. pending'[a] = pending[a]
        BY <2>2 DEF Arrive
      <3>2. MaxPending \in Nat \ {0}
        <4>1. Cardinality(pending[a]) \in Nat
          BY <1>1, FS_CardinalityType DEF AddrInv, InOrder
        <4> QED
          BY <4>1, LockoutAssumption DEF Arrive
      <3>3. [at |-> now, no |-> 1] \in Handshake /\ [at |-> now, no |-> 1].at = now
        BY <1>1, <3>2 DEF Handshake
      <3> QED
        BY <1>1, <3>1, <3>3, SeenKeeps
    <2> QED
      BY <2>1, <2>2
  <1> QED
    BY <1>2, <1>3, <1>4, <1>5, OthersAgree

LEMMA FailKeeps ==
  ASSUME LockoutTypeOK, LockInv, NEW t \in Readings, NEW a \in Addr, NEW h \in pending[a],
         Fail(a, h, t)
  PROVE  LockInv'
  <1>1. /\ now \in Nat /\ t \in Nat /\ t <= now /\ now - t <= MaxDelay
        /\ stateOf(a) \in IpState /\ kept[a] \in IpState
        /\ pending[a] \in SUBSET Handshake /\ AddrInv(stateOf(a), kept[a], pending[a], now)
    BY LockTypes
  <1>2. /\ ip' = IF a \in DOMAIN ip THEN [ip EXCEPT ![a] = failed(@, t)] ELSE ip
        /\ kept' = [kept EXCEPT ![a] = failed(@, t)] /\ now' = now
        /\ pending' = [pending EXCEPT ![a] = @ \ {h}]
        /\ t - h.at \in 0..PakeTimeout
    BY DEF Fail, fail
  <1>3. a \in DOMAIN ip
    <2>1. stateOf(a).bucket.last # Never
      BY <1>1 DEF AddrInv, InOrder
    <2> QED
      BY <2>1, FreshIs DEF stateOf
  <1>4. /\ stateOf(a)' = failed(stateOf(a), t) /\ kept'[a] = failed(kept[a], t)
        /\ pending'[a] = pending[a] \ {h}
        /\ \A x \in Addr \ {a} : /\ stateOf(x)' = stateOf(x) /\ kept'[x] = kept[x]
                                 /\ pending'[x] = pending[x]
    BY <1>2, <1>3 DEF stateOf, LockoutTypeOK
  <1>5. AddrInv(failed(stateOf(a), t), failed(kept[a], t), pending[a] \ {h}, now)
    BY <1>1, <1>2, FailedKeeps
  <1> QED
    BY <1>2, <1>4, <1>5, OthersAgree

LEMMA LockInvStep == LockoutTypeOK /\ LockInv /\ [LockoutNext]_lockoutVars => LockInv'
  <1> SUFFICES ASSUME LockoutTypeOK, LockInv, [LockoutNext]_lockoutVars
               PROVE  LockInv'
    OBVIOUS
  <1>1. /\ now \in Nat
        /\ \A a \in Addr : /\ stateOf(a) \in IpState /\ kept[a] \in IpState
                           /\ pending[a] \in SUBSET Handshake
                           /\ AddrInv(stateOf(a), kept[a], pending[a], now)
                           /\ \A h \in pending[a] : now - h.at <= PakeTimeout + MaxDelay
    BY ClockAssumption, StateType DEF LockoutTypeOK, LockInv, AddrInv, InOrder
  <1>2. CASE Elapse
    <2> SUFFICES ASSUME NEW a \in Addr
                 PROVE  AddrInv(stateOf(a)', kept'[a], pending'[a], now')
      BY DEF LockInv
    <2>1. /\ now' = now + 1 /\ stateOf(a)' = stateOf(a) /\ kept'[a] = kept[a]
          /\ pending'[a] = {h \in pending[a] : now' - h.at <= PakeTimeout + MaxDelay}
      BY <1>2 DEF Elapse, ClockTick, limiterVars, stateOf
    <2>2. now' \in {now, now + 1} /\ pending'[a] \in SUBSET pending[a]
          /\ \A h \in pending'[a] : now' - h.at <= PakeTimeout + MaxDelay
      BY <2>1
    <2>3. AddrInv(stateOf(a), kept[a], pending'[a], now')
      BY <1>1, <2>2, FewerPending
    <2> QED
      BY <2>1, <2>3
  <1>3. ASSUME NEW a \in Addr, NEW h \in pending[a], Finish(a, h)
        PROVE  LockInv'
    <2>1. /\ now' = now /\ kept' = kept /\ ip' = ip
          /\ pending' = [pending EXCEPT ![a] = @ \ {h}]
      BY <1>3 DEF Finish, limiterVars
    <2>2. /\ stateOf(a)' = stateOf(a) /\ pending'[a] = pending[a] \ {h}
          /\ \A x \in Addr \ {a} : stateOf(x)' = stateOf(x) /\ pending'[x] = pending[x]
      BY <2>1 DEF stateOf, LockoutTypeOK
    <2>3. now \in {now, now + 1} /\ pending[a] \ {h} \in SUBSET pending[a]
          /\ \A g \in pending[a] \ {h} : now - g.at <= PakeTimeout + MaxDelay
      BY <1>1
    <2>4. AddrInv(stateOf(a), kept[a], pending[a] \ {h}, now)
      BY <1>1, <2>3, FewerPending
    <2> QED
      BY <2>1, <2>2, <2>4, OthersAgree
  <1>4. ASSUME NEW t \in Readings, Forget(t)
        PROVE  LockInv'
    <2> SUFFICES ASSUME NEW a \in Addr
                 PROVE  AddrInv(stateOf(a)', kept'[a], pending'[a], now')
      BY DEF LockInv
    <2>1. /\ ip' = [x \in {y \in DOMAIN ip : ~Inactive(ip[y], t)} |-> ip[x]]
          /\ kept' = kept /\ pending' = pending /\ now' = now
      BY <1>4 DEF Forget, limiterSweep
    <2>2. CASE a \in DOMAIN ip /\ Inactive(ip[a], t)
      <3>1. stateOf(a) = ip[a] /\ stateOf(a)' = FreshState
        BY <2>1, <2>2 DEF stateOf
      <3>2. t \in Nat /\ t <= now
        BY LockTypes
      <3>3. AddrInv(FreshState, kept[a], pending[a], now)
        BY <1>1, <2>2, <3>1, <3>2, ForgetKeeps
      <3> QED
        BY <2>1, <3>1, <3>3
    <2>3. CASE ~(a \in DOMAIN ip /\ Inactive(ip[a], t))
      <3>1. stateOf(a)' = stateOf(a)
        BY <2>1, <2>3 DEF stateOf
      <3> QED
        BY <1>1, <2>1, <3>1
    <2> QED
      BY <2>2, <2>3
  <1>5. CASE UNCHANGED lockoutVars
    BY <1>5 DEF lockoutVars, limiterVars, LockInv, stateOf
  <1> QED
    BY <1>1, <1>2, <1>3, <1>4, <1>5, ArriveKeeps, FailKeeps DEF LockoutNext

(***************************************************************************)
(* What sweep forgets makes no difference to whom allowPeer admits, for    *)
(* any burst, rate, window, number of addresses and delay of the readings  *)
(* that keep the margins the constants of limits.go keep, also when the    *)
(* readings of sweep, allowPeer and fail reach the lock out of order.      *)
(***************************************************************************)
THEOREM ForgettingUnnoticed == LockoutSpec => []SweepUnnoticed
  <1>1. LockoutTypeOK /\ LockInv => SweepUnnoticed
    <2> SUFFICES ASSUME LockoutTypeOK, LockInv,
                        NEW a \in Addr, NEW t \in Readings, peerAllowed(a, t)
                 PROVE  /\ kept[a].blocked <= now
                        /\ granted(kept[a].bucket, t, RateBurst, RefillRate)
      BY DEF SweepUnnoticed
    <2>1. /\ now \in Nat /\ t \in Nat /\ t <= now /\ now - MaxDelay <= t
          /\ stateOf(a) \in IpState /\ kept[a] \in IpState
          /\ Agree(stateOf(a), kept[a], now)
      BY LockTypes DEF AddrInv
    <2>2. ~(t < stateOf(a).blocked) /\ granted(stateOf(a).bucket, t, RateBurst, RefillRate)
      BY DEF peerAllowed, Blocked
    <2>3. stateOf(a).blocked \in Int /\ kept[a].blocked \in Int
      BY <2>1, StateFacts
    <2>4. kept[a].blocked <= now
      BY <2>1, <2>2, <2>3 DEF Agree
    <2> QED
      BY <2>1, <2>2, <2>4, AgreeDecides
  <1> QED
    BY <1>1, LockInvInit, LockInvStep, LockoutTypeCorrect, PTL DEF LockoutSpec
=============================================================================
