------------------------------- MODULE Fetch -------------------------------
(***************************************************************************)
(* The client side of a transfer (fetch.go, cmdGet): fetch asks every      *)
(* candidate in a goroutine of its own, at most fanOut of them at a time,  *)
(* and returns the first paste it receives.  Candidates are strangers: any *)
(* of them may refuse, stall, present the wrong key or break off at any    *)
(* moment.  A goroutine moves through                                      *)
(*                                                                         *)
(*   new      not started yet            offer   waiting for the offer     *)
(*   queued   waiting for a slot         sealed  waiting for the paste     *)
(*   dial     connecting                 pin     about to save the pin     *)
(*   tls      in the TLS handshake       done    returned                  *)
(*                                                                         *)
(* Time only passes while every goroutine waits for the network.           *)
(***************************************************************************)
EXTENDS Integers, Sequences, FiniteSets

CONSTANTS
    Cand,           \* the candidates discovery found
    Local,          \* those with a loopback address
    MinFanOut,      \* minFanOut
    MaxFanOut,      \* maxFanOut
    Timeout,        \* the --timeout flag of tp get
    DialTimeout,    \* dialTimeout
    PakeTimeout,    \* pakeTimeout
    IoTimeout,      \* ioTimeout
    MaxTime         \* bound: the model's clock stops here

ASSUME FetchAssumption ==
    /\ IsFiniteSet(Cand) /\ Local \subseteq Cand
    /\ Cand \cap {"none", "nomatch", "mismatch"} = {}
    /\ {MinFanOut, MaxFanOut} \subseteq Nat \ {0}
    /\ {Timeout, DialTimeout, PakeTimeout, IoTimeout, MaxTime} \subseteq Nat

VARIABLES
    now,        \* the time since fetch was called
    ctx,        \* the context: live, or done
    pinned,     \* the candidates for which discover found a pin
    cands,      \* the candidates that have not been started, in fetch's order
    at,         \* where each goroutine is
    until,      \* when its network operation times out
    results,    \* the channel: whose outcome is ready to be received
    closed,     \* whether the channel has been closed
    outcome,    \* history: how each goroutine ended
    saved,      \* candidates whose key was written to the pin cache
    warned,     \* candidates for which that failed, as fetch said on stderr
    pinErr,     \* whether fetch has seen a pin mismatch
    answer      \* what fetch returned: none yet, nomatch, mismatch, or the candidate

vars == <<now, ctx, pinned, cands, at, until, results, closed, outcome, saved, warned, pinErr,
          answer>>

\* Mutant: a slot for every candidate, however few the network can take.
FanOutUnlimited(n) == n + 1

fanOut(n) ==
    LET quarter == IF n \div 4 > MinFanOut THEN n \div 4 ELSE MinFanOut
    IN  IF quarter < MaxFanOut THEN quarter ELSE MaxFanOut

\* Goroutines that hold a slot, and those of them that wait for the network.
Running == {c \in Cand : at[c] \in {"dial", "tls", "offer", "sealed", "pin"}}

Networking == {c \in Cand : at[c] \in {"dial", "tls", "offer", "sealed"}}

\* How many slots sem has.
Slots == fanOut(Cardinality(Cand))

FetchTypeOK ==
    /\ now \in 0..MaxTime
    /\ ctx \in {"live", "done"}
    /\ pinned \subseteq Cand
    /\ \A i \in DOMAIN cands : cands[i] \in Cand
    /\ at \in [Cand -> {"new", "queued", "dial", "tls", "offer", "sealed", "pin", "done"}]
    /\ until \in [Cand -> Nat]
    /\ \A i \in DOMAIN results : results[i] \in Cand
    /\ Len(results) <= Cardinality(Cand)
    /\ closed \in BOOLEAN
    /\ outcome \in [Cand -> {"none", "body", "mismatch", "failed", "cancelled"}]
    /\ saved \subseteq Cand /\ warned \subseteq Cand
    /\ pinErr \in BOOLEAN
    /\ answer \in {"none", "nomatch", "mismatch"} \cup Cand
    /\ Cardinality(Running) <= MaxFanOut

orders == {s \in [1..Cardinality(Cand) -> Cand] : \A c \in Cand : \E i \in DOMAIN s : s[i] = c}

\* fetch sorts its candidates: pinned ones first.  The sort is stable, but what it
\* sorts comes in any order.
sorted(s, P) == \A i, j \in DOMAIN s : i < j /\ s[j] \in P => s[i] \in P

\* discover lists the peers in any order and looks each up in the pin cache.  A
\* context made with no time left is done from the start.
Init ==
    /\ now = 0
    /\ ctx = IF Timeout > 0 THEN "live" ELSE "done"
    /\ pinned \in SUBSET Cand
    /\ cands \in {s \in orders : sorted(s, pinned)}
    /\ at = [c \in Cand |-> "new"]
    /\ until = [c \in Cand |-> 0]
    /\ results = <<>>
    /\ closed = FALSE
    /\ outcome = [c \in Cand |-> "none"]
    /\ saved = {}
    /\ warned = {}
    /\ pinErr = FALSE
    /\ answer = "none"

returned == answer # "none"

-----------------------------------------------------------------------------
\* One goroutine of fetch

Goto(c, label, limit) ==
    /\ at' = [at EXCEPT ![c] = label]
    /\ until' = [until EXCEPT ![c] = limit]

\* Mutant: gives up the result when nobody seems to want it any more.
DeliverUnlessDone(c, o) ==
    /\ Goto(c, "done", 0)
    /\ outcome' = [outcome EXCEPT ![c] = o]
    /\ results' = IF ctx = "live" THEN Append(results, c) ELSE results

\* fetchFrom returns: the result goes into the channel, which has room for all
\* of them, and the slot is free again.
Deliver(c, o) ==
    /\ Goto(c, "done", 0)
    /\ outcome' = [outcome EXCEPT ![c] = o]
    /\ results' = Append(results, c)

\* wg.Go, for the next candidate in order.
Start ==
    /\ cands # <<>>
    /\ Goto(Head(cands), "queued", 0)
    /\ cands' = Tail(cands)
    /\ UNCHANGED <<now, ctx, pinned, results, closed, outcome, saved, warned, pinErr, answer>>

\* The goroutine gets a slot; whoever comes first.
Acquire(c) ==
    /\ at[c] = "queued"
    /\ Cardinality(Running) < Slots
    /\ Goto(c, "dial", now + DialTimeout)
    /\ UNCHANGED <<now, ctx, pinned, cands, results, closed, outcome,
                   saved, warned, pinErr, answer>>

\* The context is done before it gets one.
Abandon(c) ==
    /\ at[c] = "queued" /\ ctx = "done"
    /\ Goto(c, "done", 0)
    /\ outcome' = [outcome EXCEPT ![c] = "cancelled"]
    /\ UNCHANGED <<now, ctx, pinned, cands, results, closed, saved, warned, pinErr, answer>>

Dialed(c) ==
    /\ at[c] = "dial" /\ ctx = "live"
    /\ Goto(c, "tls", 0)
    /\ UNCHANGED <<now, ctx, pinned, cands, results, closed, outcome,
                   saved, warned, pinErr, answer>>

\* The TLS handshake ends, with the pinned key if there is a pin; the deadline
\* of the exchange is set and the share is sent.
Handshaken(c) ==
    /\ at[c] = "tls" /\ ctx = "live"
    /\ Goto(c, "offer", now + PakeTimeout)
    /\ UNCHANGED <<now, ctx, pinned, cands, results, closed, outcome,
                   saved, warned, pinErr, answer>>

\* checkPin: a pinned host ID with another key.
Mismatched(c) ==
    /\ at[c] = "tls" /\ ctx = "live" /\ c \in pinned
    /\ Deliver(c, "mismatch")
    /\ UNCHANGED <<now, ctx, pinned, cands, closed, saved, warned, pinErr, answer>>

\* Mutant: takes the deadline off the connection once the peer is known.
MatchedNoDeadline(c) ==
    /\ at[c] = "offer"
    /\ Goto(c, "sealed", MaxTime)
    /\ UNCHANGED <<now, ctx, pinned, cands, results, closed, outcome,
                   saved, warned, pinErr, answer>>

\* matchOffer finds the code in the offer and the client's tag is sent.
Matched(c) ==
    /\ at[c] = "offer"
    /\ Goto(c, "sealed", now + IoTimeout)
    /\ UNCHANGED <<now, ctx, pinned, cands, results, closed, outcome,
                   saved, warned, pinErr, answer>>

\* Mutant: hands over the paste first and saves the pin when there is time.
OpenedEarly(c) ==
    /\ at[c] = "sealed"
    /\ Deliver(c, "body")
    /\ UNCHANGED <<now, ctx, pinned, cands, closed, saved, warned, pinErr, answer>>

\* The sealed paste arrives and opens.
Opened(c) ==
    /\ at[c] = "sealed"
    /\ Goto(c, "pin", 0)
    /\ UNCHANGED <<now, ctx, pinned, cands, results, closed, outcome,
                   saved, warned, pinErr, answer>>

\* savePin, unless the candidate is this machine.  If it fails, fetch says so and
\* returns the paste all the same.
Pinned(c) ==
    /\ at[c] = "pin"
    /\ \/ c \in Local /\ UNCHANGED <<saved, warned>>
       \/ c \notin Local /\ saved' = saved \cup {c} /\ UNCHANGED warned
       \/ c \notin Local /\ warned' = warned \cup {c} /\ UNCHANGED saved
    /\ Deliver(c, "body")
    /\ UNCHANGED <<now, ctx, pinned, cands, closed, pinErr, answer>>

\* Mutant: asks again, for as long as there is a slot.
FailedRetries(c) ==
    /\ c \in Networking
    /\ Goto(c, "queued", 0)
    /\ UNCHANGED <<now, ctx, pinned, cands, results, closed, outcome,
                   saved, warned, pinErr, answer>>

\* The peer refuses, breaks off, talks nonsense or has no paste for the code.
Failed(c) ==
    /\ c \in Networking
    /\ Deliver(c, "failed")
    /\ UNCHANGED <<now, ctx, pinned, cands, closed, saved, warned, pinErr, answer>>

\* What ends a network operation: its deadline or, until the exchange has begun,
\* the context.
Overdue(c) ==
    /\ c \in Networking
    /\ IF at[c] = "tls" THEN ctx = "done"
       ELSE now >= until[c] \/ (at[c] = "dial" /\ ctx = "done")

-----------------------------------------------------------------------------
\* fetch itself

\* Mutant: closes the channel when nobody is running.
CloseEarly ==
    /\ cands = <<>> /\ ~closed
    /\ Running = {}
    /\ closed' = TRUE
    /\ UNCHANGED <<now, ctx, pinned, cands, at, until, results, outcome,
                   saved, warned, pinErr, answer>>

\* wg.Wait returns and the channel is closed.
Close ==
    /\ cands = <<>> /\ ~closed
    /\ \A c \in Cand : at[c] = "done"
    /\ closed' = TRUE
    /\ UNCHANGED <<now, ctx, pinned, cands, at, until, results, outcome,
                   saved, warned, pinErr, answer>>

\* fetch takes a result; the first paste is returned, which cancels the context.
Receive ==
    /\ cands = <<>> /\ ~returned /\ results # <<>>
    /\ results' = Tail(results)
    /\ LET c == Head(results) IN
       IF outcome[c] = "body"
       THEN answer' = c /\ ctx' = "done" /\ UNCHANGED pinErr
       ELSE pinErr' = (pinErr \/ outcome[c] = "mismatch") /\ UNCHANGED <<answer, ctx>>
    /\ UNCHANGED <<now, pinned, cands, at, until, closed, outcome, saved, warned>>

\* The channel is closed and drained.
GiveUp ==
    /\ cands = <<>> /\ ~returned /\ results = <<>> /\ closed
    /\ answer' = IF pinErr THEN "mismatch" ELSE "nomatch"
    /\ ctx' = "done"
    /\ UNCHANGED <<now, pinned, cands, at, until, results, closed, outcome, saved, warned, pinErr>>

-----------------------------------------------------------------------------
\* Someone has something to do that does not depend on the network.
Busy ==
    \/ cands # <<>>
    \/ results # <<>> /\ ~returned
    \/ (\A c \in Cand : at[c] = "done") /\ ~(closed /\ returned)
    \/ \E c \in Cand :
        \/ at[c] = "pin"
        \/ Overdue(c)
        \/ at[c] = "queued" /\ (ctx = "done" \/ Cardinality(Running) < Slots)

\* The --timeout flag cancels the context on time.
Tick ==
    /\ ~Busy
    /\ now < MaxTime
    /\ now' = now + 1
    /\ ctx' = IF now' >= Timeout THEN "done" ELSE ctx
    /\ UNCHANGED <<pinned, cands, at, until, results, closed, outcome,
                   saved, warned, pinErr, answer>>

\* The user interrupts tp get.
Interrupt ==
    /\ ctx = "live" /\ ~returned
    /\ ctx' = "done"
    /\ UNCHANGED <<now, pinned, cands, at, until, results, closed, outcome,
                   saved, warned, pinErr, answer>>

Finished == returned /\ closed /\ UNCHANGED vars

Compute ==
    \/ Start \/ Close \/ Receive \/ GiveUp
    \/ \E c \in Cand : Acquire(c) \/ Abandon(c) \/ Pinned(c) \/ (Overdue(c) /\ Failed(c))

Network(c) ==
    Dialed(c) \/ Handshaken(c) \/ Mismatched(c) \/ Matched(c) \/ Opened(c) \/ Failed(c)

Next ==
    \/ Compute
    \/ \E c \in Cand : Network(c)
    \/ Tick
    \/ Interrupt
    \/ Finished

Spec == Init /\ [][Next]_vars

\* The scheduler runs what can run and time passes; nothing is assumed of peers.
FairSpec == Spec /\ WF_vars(Compute) /\ WF_vars(Tick)

-----------------------------------------------------------------------------
(***************************************************************************)
(* A paste that was received is never dropped, whatever else goes wrong    *)
(* meanwhile, including a timeout: its sender has already counted the get  *)
(* and may have burned it (fetch's buffered channel and its loop).         *)
(***************************************************************************)
NothingDropped ==
    returned /\ answer \notin Cand => \A c \in Cand : outcome[c] # "body"

(***************************************************************************)
(* "No paste for that code" is only said when every candidate was asked or *)
(* cut off by the timeout, and none of them presented a changed key        *)
(* (fetch, errNoMatch, pinMismatchError).                                  *)
(***************************************************************************)
RefusalHonest ==
    answer = "nomatch" => \A c \in Cand : outcome[c] \in {"failed", "cancelled"}

(***************************************************************************)
(* By the time fetch returns a paste, after which the process exits, its   *)
(* host's key has been written to the pin cache or the user has been told  *)
(* that it could not be: the exit never interrupts savePin (fetchFrom).    *)
(***************************************************************************)
AnswerPinned == answer \in Cand \ Local => answer \in saved \cup warned

(***************************************************************************)
(* fetch returns at the latest when an exchange that began just before     *)
(* the timeout has run into both of its deadlines (exchange, fetchFrom).   *)
(***************************************************************************)
ReturnsByDeadlines == now > Timeout + PakeTimeout + IoTimeout => returned

(***************************************************************************)
(* Every goroutine ends and the channel is closed, also after fetch has    *)
(* returned with the first paste and nobody receives any more (fetch).     *)
(***************************************************************************)
AllEnd == <>[](returned /\ closed /\ Running = {})
=============================================================================
