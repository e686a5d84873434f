------------------------------ MODULE Lockout ------------------------------
(***************************************************************************)
(* How the limiter treats an address whose handshakes fail.  A handshake   *)
(* that allowPeer admitted either fails its confirmation within            *)
(* pakeTimeout of its admission, because openExchange puts that deadline   *)
(* on the connection, or ends some other way.  sweepLoop meanwhile drops   *)
(* the state of addresses that look inactive.  Each of the three reads the *)
(* clock before it waits for the limiter's lock, so what it does may rest  *)
(* on a reading up to MaxDelay old and older than the one used before it.  *)
(*                                                                         *)
(* `kept` is an observer: the failures, block and bucket of each address   *)
(* had sweep never dropped anything and the same calls been charged.       *)
(***************************************************************************)
EXTENDS Clock, Limiter

CONSTANTS
    PakeTimeout,    \* pakeTimeout, in clock ticks
    MaxPending      \* bound: unfinished handshakes of one address

ASSUME LockoutAssumption == PakeTimeout \in Nat /\ MaxPending \in Nat

\* The constants of limits.go and daemon.go leave a margin: the handshakes that
\* can fail around the moment an address is forgotten, just before and just
\* after, are too few to earn a block (2 * 20 + 20/60 * (10 + 4 * MaxDelay) < 50,
\* which leaves the lock five seconds).
ASSUME MarginAssumption ==
    2 * RateBurst * Unit + RefillRate * (PakeTimeout + 4 * MaxDelay) < BlockAfter * Unit

\* When an address may be forgotten, its handshakes are over and its bucket is
\* full again (10 seconds, one minute; blockWindow is ten minutes).
ASSUME WindowAssumption ==
    /\ PakeTimeout + 4 * MaxDelay <= BlockWindow
    /\ RateBurst * Unit <= RefillRate * (BlockWindow + 1 - 2 * MaxDelay)

VARIABLES
    pending,    \* each address's unfinished handshakes
    kept

lockoutVars == <<now, limiterVars, pending, kept>>

\* An admitted handshake: when that was, and a number to tell simultaneous ones apart.
Handshake == [at : Nat, no : 1..MaxPending]

LockoutTypeOK ==
    /\ now \in 0..MaxTime
    /\ LimiterTypeOK
    /\ \A a \in DOMAIN ip : Cardinality(ip[a].failures) < BlockAfter
    /\ pending \in [Addr -> SUBSET Handshake]
    /\ kept \in [Addr -> IpState]

LockoutInit ==
    /\ ClockInit
    /\ LimiterInit
    /\ pending = [a \in Addr |-> {}]
    /\ kept = [a \in Addr |-> FreshState]

\* Time passes.  A handshake's deadline ends it, unless it waits for the lock.
Elapse ==
    /\ ClockTick
    /\ pending' = [a \in Addr |-> {h \in pending[a] : now' - h.at <= PakeTimeout + MaxDelay}]
    /\ UNCHANGED <<limiterVars, kept>>

\* handshake asks for admission.
Arrive(a, t) ==
    /\ Cardinality(pending[a]) < MaxPending
    /\ allowPeer(a, t)
    /\ IF peerAllowed(a, t)
       THEN \E no \in 1..MaxPending :
                /\ [at |-> now, no |-> no] \notin pending[a]
                /\ \A i \in 1..(no - 1) : [at |-> now, no |-> i] \in pending[a]
                /\ pending' = [pending EXCEPT ![a] = @ \cup {[at |-> now, no |-> no]}]
       ELSE pending' = pending
    /\ kept' = [kept EXCEPT ![a].bucket = IF Blocked(stateOf(a), t) THEN @
                                          ELSE charged(@, t, RateBurst, RefillRate)]
    /\ UNCHANGED now

\* handshake received a tag that confirms nothing, after its admission and before
\* its deadline.
Fail(a, h, t) ==
    /\ t - h.at \in 0..PakeTimeout
    /\ pending' = [pending EXCEPT ![a] = @ \ {h}]
    /\ fail(a, t)
    /\ kept' = [kept EXCEPT ![a] = failed(@, t)]
    /\ UNCHANGED now

\* handshake returns without a failed confirmation.
Finish(a, h) ==
    /\ pending' = [pending EXCEPT ![a] = @ \ {h}]
    /\ UNCHANGED <<now, limiterVars, kept>>

\* sweepLoop forgets inactive addresses.
Forget(t) ==
    /\ limiterSweep(t)
    /\ UNCHANGED <<now, pending, kept>>

LockoutNext ==
    \/ Elapse
    \/ \E t \in Readings, a \in Addr :
        Arrive(a, t) \/ \E h \in pending[a] : Fail(a, h, t)
    \/ \E a \in Addr : \E h \in pending[a] : Finish(a, h)
    \/ \E t \in Readings : Forget(t)

LockoutSpec == LockoutInit /\ [][LockoutNext]_lockoutVars

-----------------------------------------------------------------------------
(***************************************************************************)
(* Forgetting goes unnoticed: whatever the reading, allowPeer never admits *)
(* a handshake while a block is in force that it would know of had the     *)
(* limiter kept everything -- not because the block was dropped, and not   *)
(* because failures still inside blockWindow were and it was never imposed *)
(* -- and never one that the bucket, had it been kept, would not pay for.  *)
(***************************************************************************)
SweepUnnoticed ==
    \A a \in Addr, t \in Readings :
        peerAllowed(a, t) =>
            /\ kept[a].blocked <= now
            /\ granted(kept[a].bucket, t, RateBurst, RefillRate)
=============================================================================
