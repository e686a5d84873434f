------------------------------- MODULE Budget -------------------------------
(***************************************************************************)
(* The two token buckets of the limiter as the daemon's goroutines use     *)
(* them: handshakes ask allowPeer for admission and charge a guess with    *)
(* allowExchange, sweepLoop forgets inactive addresses, each with its own  *)
(* delayed reading of the clock.  (Failures and blocks, which only make    *)
(* the limiter stricter, are the subject of module Lockout.)               *)
(*                                                                         *)
(* An observer opens a window of time at any moment, mark, and counts what *)
(* the limiter grants from then on.                                        *)
(***************************************************************************)
EXTENDS Clock, Limiter

VARIABLES
    mark,       \* when the window was opened
    guesses,    \* exchanges granted since then
    admits      \* handshakes of each address granted since then

budgetVars == <<now, limiterVars, mark, guesses, admits>>

\* A bucket forgotten by sweep would have been full again.
ASSUME RefillAssumption ==
    RefillRate * (BlockWindow - 2 * MaxDelay) >= RateBurst * Unit

BudgetTypeOK ==
    /\ now \in 0..MaxTime
    /\ LimiterTypeOK
    /\ global.tokens <= GlobalBurst * Unit
    /\ \A a \in DOMAIN ip : ip[a].bucket.tokens <= RateBurst * Unit
    /\ mark \in Nat \cup {Never}
    /\ guesses \in Nat
    /\ admits \in [Addr -> Nat]

BudgetInit ==
    /\ ClockInit
    /\ LimiterInit
    /\ mark = Never
    /\ guesses = 0
    /\ admits = [a \in Addr |-> 0]

Pass ==
    /\ ClockTick
    /\ UNCHANGED <<limiterVars, mark, guesses, admits>>

Open ==
    /\ mark = Never
    /\ mark' = now
    /\ UNCHANGED <<now, limiterVars, guesses, admits>>

\* handshake asks for admission.
Admit(a, t) ==
    /\ allowPeer(a, t)
    /\ admits' = IF mark # Never /\ peerAllowed(a, t)
                 THEN [admits EXCEPT ![a] = @ + 1] ELSE admits
    /\ UNCHANGED <<now, mark, guesses>>

\* handshake charges a guess before it builds its offer.
Guess(t) ==
    /\ allowExchange(t)
    /\ guesses' = IF mark # Never /\ exchangeAllowed(t) THEN guesses + 1 ELSE guesses
    /\ UNCHANGED <<now, mark, admits>>

Sweep(t) ==
    /\ limiterSweep(t)
    /\ UNCHANGED <<now, mark, guesses, admits>>

BudgetNext ==
    \/ Pass
    \/ Open
    \/ \E t \in Readings : (\E a \in Addr : Admit(a, t)) \/ Guess(t) \/ Sweep(t)

BudgetSpec == BudgetInit /\ [][BudgetNext]_budgetVars

-----------------------------------------------------------------------------
(***************************************************************************)
(* In every window of time, however the readings of the clock interleave,  *)
(* allowExchange grants no more guesses than the burst and the refill of   *)
(* the window, stretched by the delay a reading may suffer.                *)
(***************************************************************************)
GuessBound ==
    guesses * Unit <= GlobalBurst * Unit + GlobalRate * (now - mark + MaxDelay)

(***************************************************************************)
(* The same for the handshakes that allowPeer admits from one address,     *)
(* even though sweep throws its bucket away and a later handshake starts   *)
(* with a full one.                                                        *)
(***************************************************************************)
PeerBound ==
    \A a \in Addr :
        admits[a] * Unit <= RateBurst * Unit + RefillRate * (now - mark + MaxDelay)
=============================================================================
