------------------------------ MODULE Limiter ------------------------------
(***************************************************************************)
(* The rate limiter (limits.go): a token bucket and a record of failed     *)
(* confirmations for every source address, and one global bucket that      *)
(* bounds how many passwords can be guessed.  Every method runs under the  *)
(* limiter's mutex with a time read before the lock was taken, which the   *)
(* caller supplies as t.                                                   *)
(*                                                                         *)
(* Tokens are counted in fractions: Unit fractions make a token, and a     *)
(* bucket refills by its rate, in fractions per clock tick.  Never is the  *)
(* zero time.Time, which lies before every reading.                        *)
(***************************************************************************)
EXTENDS Integers, FiniteSets

CONSTANTS
    Addr,           \* source addresses
    Unit,           \* fractions of a token that make one token
    RateBurst,      \* rateBurst, in tokens
    RefillRate,     \* ratePerMinute, in fractions per clock tick
    BlockAfter,     \* blockAfter
    BlockWindow,    \* blockWindow, in clock ticks
    BlockFor,       \* blockFor, in clock ticks
    GlobalBurst,    \* globalBurst, in tokens
    GlobalRate      \* globalPerSecond, in fractions per clock tick

ASSUME LimiterAssumption ==
    /\ {Unit, RateBurst, GlobalBurst, BlockAfter} \subseteq Nat \ {0}
    /\ {RefillRate, GlobalRate, BlockWindow, BlockFor} \subseteq Nat

VARIABLES
    ip,      \* limiter.ip: the state kept for each address seen lately
    global   \* limiter.global: the bucket every guess is charged to

limiterVars == <<ip, global>>

Never == -1

Bucket == [tokens : Int, last : Nat \cup {Never}]

EmptyBucket == [tokens |-> 0, last |-> Never]

\* Failed confirmations by time, numbered to tell simultaneous ones apart.
Failures == {F \in SUBSET [at : Nat, no : Nat] : IsFiniteSet(F)}

IpState == [bucket : Bucket, lastSeen : Nat \cup {Never},
            failures : Failures, blocked : Nat \cup {Never}]

LimiterTypeOK ==
    /\ DOMAIN ip \subseteq Addr
    /\ \A a \in DOMAIN ip : ip[a] \in IpState
    /\ global \in Bucket

LimiterInit ==
    /\ ip = [a \in {} |-> 0]
    /\ global = EmptyBucket

-----------------------------------------------------------------------------
\* The token bucket

least(x, y) == IF x <= y THEN x ELSE y

\* Mutant: refills without the ceiling of the burst.
RefilledUncapped(b, t, burst, rate) ==
    IF b.last = Never THEN burst * Unit ELSE b.tokens + (t - b.last) * rate

\* The tokens of a bucket once it has been refilled up to time t.  A first use
\* fills it; readings used out of order make t - last negative.
refilled(b, t, burst, rate) ==
    IF b.last = Never
    THEN burst * Unit
    ELSE least(burst * Unit, b.tokens + (t - b.last) * rate)

\* What bucket.take returns, and the bucket it leaves.
granted(b, t, burst, rate) == refilled(b, t, burst, rate) >= Unit

\* Mutant: a granted take leaves its token in the bucket.
ChargedNothing(b, t, burst, rate) ==
    [tokens |-> refilled(b, t, burst, rate), last |-> t]

charged(b, t, burst, rate) ==
    [tokens |-> refilled(b, t, burst, rate)
                  - (IF granted(b, t, burst, rate) THEN Unit ELSE 0),
     last   |-> t]

-----------------------------------------------------------------------------
\* Admission of an address

FreshState == [bucket |-> EmptyBucket, lastSeen |-> Never, failures |-> {},
               blocked |-> Never]

stateOf(a) == IF a \in DOMAIN ip THEN ip[a] ELSE FreshState

Blocked(s, t) == t < s.blocked

peerAllowed(a, t) ==
    /\ ~Blocked(stateOf(a), t)
    /\ granted(stateOf(a).bucket, t, RateBurst, RefillRate)

\* allowPeer, on the state of one address.
peerSeen(s, t) ==
    [s EXCEPT !.lastSeen = t,
              !.bucket = IF Blocked(s, t) THEN @
                         ELSE charged(@, t, RateBurst, RefillRate)]

allowPeer(a, t) ==
    /\ ip' = [x \in DOMAIN ip \cup {a} |->
                IF x = a THEN peerSeen(stateOf(a), t) ELSE ip[x]]
    /\ UNCHANGED global

-----------------------------------------------------------------------------
\* The global budget of guesses

exchangeAllowed(t) == granted(global, t, GlobalBurst, GlobalRate)

allowExchange(t) ==
    /\ global' = charged(global, t, GlobalBurst, GlobalRate)
    /\ UNCHANGED ip

-----------------------------------------------------------------------------
\* Failed confirmations

\* The failures of s that still count at time t, with the new one.
recent(s, t) ==
    LET kept == {f \in s.failures : t - f.at < BlockWindow}
    IN  kept \cup {[at |-> t, no |-> Cardinality({f \in kept : f.at = t})]}

\* Mutant: blocks one failure late.
FailedTooLate(s, t) ==
    IF Cardinality(recent(s, t)) > BlockAfter
    THEN [s EXCEPT !.blocked = t + BlockFor, !.failures = {}]
    ELSE [s EXCEPT !.failures = recent(s, t)]

\* fail, on the state of one address.
failed(s, t) ==
    IF Cardinality(recent(s, t)) >= BlockAfter
    THEN [s EXCEPT !.blocked = t + BlockFor, !.failures = {}]
    ELSE [s EXCEPT !.failures = recent(s, t)]

fail(a, t) ==
    /\ ip' = IF a \in DOMAIN ip THEN [ip EXCEPT ![a] = failed(@, t)] ELSE ip
    /\ UNCHANGED global

-----------------------------------------------------------------------------
\* Forgetting inactive addresses

\* Mutant: forgets an address that is still blocked.
InactiveThoughBlocked(s, t) == t - s.lastSeen > BlockWindow

\* Mutant: forgets every address that is not blocked.
InactiveAtOnce(s, t) == t > s.blocked

Inactive(s, t) == t > s.blocked /\ t - s.lastSeen > BlockWindow

limiterSweep(t) ==
    /\ ip' = [a \in {x \in DOMAIN ip : ~Inactive(ip[x], t)} |-> ip[a]]
    /\ UNCHANGED global
=============================================================================
