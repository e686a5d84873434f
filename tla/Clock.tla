------------------------------- MODULE Clock -------------------------------
(***************************************************************************)
(* The clock the daemon reads with time.Now().  One unit of `now` is one   *)
(* clock tick; Second ticks make a second, so that code that truncates or  *)
(* rounds to seconds is modelled by what it does to sub-second times.      *)
(*                                                                         *)
(* Go evaluates time.Now() before it waits for a mutex in several places,  *)
(* so the value a critical section uses may be up to MaxDelay ticks old    *)
(* and two critical sections may use their readings in the wrong order.    *)
(***************************************************************************)
EXTENDS Integers

CONSTANTS
    MaxTime,    \* bound: the model's clock stops here
    MaxDelay,   \* how long a goroutine may wait for a lock after time.Now()
    Second      \* clock ticks per second

ASSUME ClockAssumption ==
    /\ MaxTime \in Nat
    /\ MaxDelay \in Nat
    /\ Second \in Nat \ {0}

VARIABLE now

Readings == {t \in 0..now : now - t <= MaxDelay}

\* time.Time.Unix: seconds, rounded down.
Unix(t) == t \div Second

\* time.Time.Round(time.Second): to the nearest second, halves up.
Round(t) == ((2 * t + Second) \div (2 * Second)) * Second

ClockInit == now = 0

ClockTick == now < MaxTime /\ now' = now + 1
=============================================================================
