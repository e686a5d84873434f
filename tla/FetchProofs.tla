---------------------------- MODULE FetchProofs ----------------------------
(***************************************************************************)
(* The safety properties of a fetch for any number of candidates, any fan  *)
(* out and any timeouts.                                                   *)
(*                                                                         *)
(* None of them is inductive.  Sequencing says which candidates are still  *)
(* to be started, so that each is started once; Room counts the results    *)
(* against the goroutines that have ended; Traced follows every outcome    *)
(* from the goroutine through the channel to the answer; Timely bounds     *)
(* every deadline by the time at which the exchange that set it can have   *)
(* begun.                                                                  *)
(***************************************************************************)
EXTENDS Fetch, TLAPS, FiniteSetTheorems, SequenceTheorems

Ended == {c \in Cand : at[c] = "done"}

Labels == {"new", "queued", "dial", "tls", "offer", "sealed", "pin", "done"}

Outcomes == {"none", "body", "mismatch", "failed", "cancelled"}

Types ==
    /\ now \in 0..MaxTime
    /\ ctx \in {"live", "done"}
    /\ pinned \subseteq Cand
    /\ cands \in Seq(Cand)
    /\ at \in [Cand -> Labels]
    /\ until \in [Cand -> Nat]
    /\ results \in Seq(Cand)
    /\ closed \in BOOLEAN
    /\ outcome \in [Cand -> Outcomes]
    /\ saved \subseteq Cand /\ warned \subseteq Cand
    /\ pinErr \in BOOLEAN
    /\ answer \in {"none", "nomatch", "mismatch"} \cup Cand

\* The candidates still in line are the new ones, each there once.
Sequencing ==
    /\ \A i, j \in 1..Len(cands) : cands[i] = cands[j] => i = j
    /\ \A i \in 1..Len(cands) : at[cands[i]] = "new"
    /\ \A c \in Cand : at[c] = "new" => \E i \in 1..Len(cands) : cands[i] = c

\* The channel has room: a goroutine sends once.  The slots are never exceeded.
Room ==
    /\ Len(results) <= Cardinality(Ended)
    /\ Cardinality(Running) <= MaxFanOut

InChannel(c) == \E i \in 1..Len(results) : results[i] = c

\* Where the outcome of each goroutine is.
Traced ==
    /\ \A c \in Cand : outcome[c] # "none" <=> at[c] = "done"
    /\ \A c \in Cand : outcome[c] = "body" => InChannel(c) \/ answer \in Cand
    /\ \A c \in Cand : outcome[c] = "mismatch" => InChannel(c) \/ pinErr \/ answer \in Cand
    /\ \A c \in Cand \ Local : outcome[c] = "body" => c \in saved \cup warned
    /\ answer \in Cand => outcome[answer] = "body"
    /\ closed => cands = <<>> /\ Ended = Cand
    /\ answer \in {"nomatch", "mismatch"} => closed /\ results = <<>>
    /\ answer = "nomatch" => ~pinErr

\* How late each network operation may end.
Timely ==
    /\ ctx = "live" => now < Timeout
    /\ \A c \in Cand : at[c] = "offer" => now <= until[c] /\ until[c] <= Timeout + PakeTimeout
    /\ \A c \in Cand : at[c] = "sealed" =>
        now <= until[c] /\ until[c] <= Timeout + PakeTimeout + IoTimeout
    /\ ReturnsByDeadlines

Inv == Types /\ Sequencing /\ Room /\ Traced /\ Timely

LEMMA Constants ==
    /\ IsFiniteSet(Cand) /\ Local \subseteq Cand
    /\ "none" \notin Cand /\ "nomatch" \notin Cand /\ "mismatch" \notin Cand
    /\ MinFanOut \in Nat /\ MaxFanOut \in Nat
    /\ Timeout \in Nat /\ DialTimeout \in Nat /\ PakeTimeout \in Nat
    /\ IoTimeout \in Nat /\ MaxTime \in Nat
  BY FetchAssumption

-----------------------------------------------------------------------------
\* An order of the candidates names each of them once.
LEMMA OrderFacts ==
  ASSUME NEW s \in orders
  PROVE  /\ s \in Seq(Cand)
         /\ \A i, j \in 1..Len(s) : s[i] = s[j] => i = j
         /\ \A c \in Cand : \E i \in 1..Len(s) : s[i] = c
  <1> DEFINE n == Cardinality(Cand)
  <1>1. n \in Nat
    BY Constants, FS_CardinalityType
  <1>2. s \in [1..n -> Cand] /\ \A c \in Cand : \E i \in 1..n : s[i] = c
    BY DEF orders
  <1>3. s \in Seq(Cand) /\ Len(s) = n
    BY <1>1, <1>2
  <1>4. IsFiniteSet(1..n) /\ Cardinality(1..n) = n
    BY <1>1, FS_Interval
  <1>5. s \in Surjection(1..n, Cand)
    BY <1>2 DEF Surjection
  <1>6. s \in Injection(1..n, Cand)
    BY <1>4, <1>5, FS_SurjSameCardinalityImpliesInj
  <1> HIDE DEF n
  <1>7. \A i, j \in DOMAIN s : s[i] = s[j] => i = j
    BY <1>6 DEF Injection, IsInjective
  <1>8. DOMAIN s = 1..Len(s)
    BY <1>2, <1>3
  <1>9. \A c \in Cand : \E i \in 1..Len(s) : s[i] = c
    BY <1>2, <1>3
  <1> QED
    BY <1>3, <1>7, <1>8, <1>9

LEMMA InitInv == Init => Inv
  <1> SUFFICES ASSUME Init PROVE Inv
    OBVIOUS
  <1> USE Constants
  <1>1. /\ cands \in Seq(Cand)
        /\ \A i, j \in 1..Len(cands) : cands[i] = cands[j] => i = j
        /\ \A c \in Cand : \E i \in 1..Len(cands) : cands[i] = c
    <2>1. cands \in orders
      BY DEF Init
    <2> QED
      BY <2>1, OrderFacts
  <1>2. Types
    <2>1. closed \in BOOLEAN /\ pinErr \in BOOLEAN
      BY DEF Init
    <2>2. at \in [Cand -> Labels] /\ outcome \in [Cand -> Outcomes]
      BY DEF Init, Labels, Outcomes
    <2>3. until \in [Cand -> Nat] /\ results \in Seq(Cand) /\ now \in 0..MaxTime
      BY DEF Init
    <2>4. ctx \in {"live", "done"}
      BY DEF Init
    <2> QED
      BY <1>1, <2>1, <2>2, <2>3, <2>4 DEF Init, Types
  <1>3. Sequencing
    BY <1>1 DEF Init, Sequencing
  <1>4. Running = {} /\ Ended = {}
    BY DEF Init, Running, Ended
  <1>5. Room
    BY <1>4, FS_EmptySet DEF Init, Room
  <1>6. Traced
    BY DEF Init, Traced
  <1>7. Timely
    BY DEF Init, Timely, ReturnsByDeadlines
  <1> QED
    BY <1>2, <1>3, <1>5, <1>6, <1>7 DEF Inv

-----------------------------------------------------------------------------
\* What an action does to one goroutine, for the invariants that care only for
\* that: it moves a goroutine that was started and leaves the line alone.
Moves(c, label) ==
    /\ at[c] \notin {"new", "done"}
    /\ label \in Labels \ {"new"}
    /\ at' = [at EXCEPT ![c] = label]
    /\ cands' = cands

LEMMA MovesSequencing ==
  ASSUME Inv, NEW c \in Cand, NEW label, Moves(c, label)
  PROVE  Sequencing'
  BY DEF Inv, Types, Sequencing, Moves, Labels

\* The goroutine moves on without ending.
LEMMA MovesRoom ==
  ASSUME Inv, NEW c \in Cand, NEW label \in {"queued", "dial", "tls", "offer", "sealed", "pin"},
         Moves(c, label), at[c] = "queued" => Cardinality(Running) < MaxFanOut,
         results' = results
  PROVE  Room'
  <1>1. IsFiniteSet(Running) /\ Cardinality(Running) \in Nat
    BY Constants, FS_Subset, FS_CardinalityType DEF Running
  <1>2. Running' \subseteq Running \cup {c}
    BY DEF Moves, Running, Inv, Types
  <1>3. at[c] # "queued" => c \in Running
    BY DEF Moves, Running, Inv, Types, Labels
  <1>4. IsFiniteSet(Running \cup {c}) /\ Cardinality(Running \cup {c}) <= MaxFanOut
    <2>1. /\ IsFiniteSet(Running \cup {c})
          /\ Cardinality(Running \cup {c})
               = IF c \in Running THEN Cardinality(Running) ELSE Cardinality(Running) + 1
      BY <1>1, FS_AddElement
    <2>2. Cardinality(Running) <= MaxFanOut
      BY DEF Inv, Room
    <2> QED
      BY <1>1, <1>3, <2>1, <2>2, Constants
  <1>5. Cardinality(Running') <= Cardinality(Running \cup {c}) /\ Cardinality(Running') \in Nat
        /\ Cardinality(Running \cup {c}) \in Nat
    BY <1>2, <1>4, FS_Subset, FS_CardinalityType
  <1>6. Ended' = Ended
    BY DEF Moves, Ended, Inv, Types
  <1> QED
    BY <1>4, <1>5, <1>6, Constants DEF Room, Inv

\* The goroutine ends, with or without a result.
LEMMA EndsRoom ==
  ASSUME Inv, NEW c \in Cand, Moves(c, "done"),
         results' = results \/ results' = Append(results, c)
  PROVE  Room'
  <1>1. IsFiniteSet(Running) /\ Cardinality(Running) \in Nat
    BY Constants, FS_Subset, FS_CardinalityType DEF Running
  <1>2. Running' \subseteq Running
    BY DEF Moves, Running, Inv, Types
  <1>3. Cardinality(Running') <= Cardinality(Running) /\ Cardinality(Running') \in Nat
    BY <1>1, <1>2, FS_Subset, FS_CardinalityType
  <1>4. IsFiniteSet(Ended) /\ Cardinality(Ended) \in Nat /\ c \notin Ended
    BY Constants, FS_Subset, FS_CardinalityType DEF Ended, Moves
  <1>5. Ended' = Ended \cup {c}
    BY DEF Moves, Ended, Inv, Types
  <1>6. Cardinality(Ended') = Cardinality(Ended) + 1
    BY <1>4, <1>5, FS_AddElement
  <1>7. Len(results) \in Nat /\ Len(results') <= Len(results) + 1
    BY AppendProperties, LenProperties DEF Inv, Types
  <1>8. Len(results') \in Nat
    BY AppendProperties, LenProperties DEF Inv, Types
  <1> QED
    BY <1>1, <1>3, <1>4, <1>6, <1>7, <1>8, Constants DEF Room, Inv

\* As long as a goroutine has not ended, the channel is open.
LEMMA OpenWhileRunning ==
  ASSUME Inv, NEW c \in Cand, at[c] # "done"
  PROVE  ~closed /\ answer \notin {"nomatch", "mismatch"} /\ outcome[c] = "none"
  BY DEF Inv, Traced, Ended

LEMMA MovesTraced ==
  ASSUME Inv, NEW c \in Cand, NEW label \in Labels \ {"done"}, Moves(c, label),
         UNCHANGED <<results, closed, outcome, saved, warned, pinErr, answer>>
  PROVE  Traced'
  <1>1. at[c] # "done"
    BY DEF Moves
  <1>2. ~closed /\ answer \notin {"nomatch", "mismatch"} /\ outcome[c] = "none"
    BY <1>1, OpenWhileRunning
  <1>3. \A d \in Cand : outcome'[d] # "none" <=> at'[d] = "done"
    BY <1>1, <1>2 DEF Inv, Traced, Moves, Types
  <1>4. \A d \in Cand : InChannel(d)' <=> InChannel(d)
    BY DEF InChannel
  <1> QED
    BY <1>2, <1>3, <1>4 DEF Inv, Traced

LEMMA EndsTraced ==
  ASSUME Inv, NEW c \in Cand, NEW o \in Outcomes \ {"none"}, Moves(c, "done"),
         outcome' = [outcome EXCEPT ![c] = o],
         results' = Append(results, c) \/ (results' = results /\ o = "cancelled"),
         saved \subseteq saved', warned \subseteq warned',
         o = "body" => c \in Local \cup saved' \cup warned',
         UNCHANGED <<closed, pinErr, answer>>
  PROVE  Traced'
  <1>1. at[c] # "done"
    BY DEF Moves
  <1>2. ~closed /\ answer \notin {"nomatch", "mismatch"} /\ outcome[c] = "none"
    BY <1>1, OpenWhileRunning
  <1>3. \A d \in Cand : outcome'[d] = (IF d = c THEN o ELSE outcome[d])
    BY DEF Inv, Types
  <1>4. \A d \in Cand : at'[d] = (IF d = c THEN "done" ELSE at[d])
    BY DEF Inv, Types, Moves
  <1>5. \A d \in Cand : outcome'[d] # "none" <=> at'[d] = "done"
    BY <1>3, <1>4 DEF Inv, Traced, Outcomes
  <1>6. \A d \in Cand : InChannel(d) => InChannel(d)'
    <2>1. results \in Seq(Cand)
      BY DEF Inv, Types
    <2>2. CASE results' = results
      BY <2>2 DEF InChannel
    <2>3. CASE results' = Append(results, c)
      <3>1. /\ Len(results') = Len(results) + 1 /\ Len(results) \in Nat
            /\ \A i \in 1..Len(results) : results'[i] = results[i]
        BY <2>1, <2>3, AppendProperties, LenProperties
      <3> QED
        BY <3>1 DEF InChannel
    <2> QED
      BY <2>2, <2>3
  <1>7. o # "cancelled" => InChannel(c)'
    <2> HAVE o # "cancelled"
    <2>1. results \in Seq(Cand) /\ results' = Append(results, c)
      BY DEF Inv, Types
    <2>2. /\ Len(results') = Len(results) + 1 /\ Len(results) \in Nat
          /\ results'[Len(results) + 1] = c
      BY <2>1, AppendProperties, LenProperties
    <2>3. Len(results) + 1 \in 1..Len(results')
      BY <2>2
    <2> QED
      BY <2>2, <2>3 DEF InChannel
  <1>8. \A d \in Cand : outcome'[d] = "body" => InChannel(d)' \/ answer' \in Cand
    BY <1>3, <1>6, <1>7 DEF Inv, Traced
  <1>9. \A d \in Cand : outcome'[d] = "mismatch" => InChannel(d)' \/ pinErr' \/ answer' \in Cand
    BY <1>3, <1>6, <1>7 DEF Inv, Traced
  <1>10. \A d \in Cand \ Local : outcome'[d] = "body" => d \in saved' \cup warned'
    BY <1>3 DEF Inv, Traced
  <1>11. answer' \in Cand => outcome'[answer'] = "body"
    BY <1>2, <1>3 DEF Inv, Traced
  <1> QED
    BY <1>2, <1>5, <1>8, <1>9, <1>10, <1>11 DEF Traced

-----------------------------------------------------------------------------
\* One lemma per kind of step.

\* A goroutine goes from one network operation to the next.
LEMMA AdvanceKeeps ==
  ASSUME Inv, NEW c \in Cand,
         Acquire(c) \/ Dialed(c) \/ Handshaken(c) \/ Matched(c) \/ Opened(c)
  PROVE  Inv'
  <1> USE Constants
  <1>1. PICK label \in {"dial", "tls", "offer", "sealed", "pin"}, limit \in Nat :
          /\ Goto(c, label, limit)
          /\ label = "offer" => ctx = "live" /\ limit = now + PakeTimeout
          /\ label = "sealed" => at[c] = "offer" /\ limit = now + IoTimeout
    <2>1. now \in Nat /\ now + DialTimeout \in Nat /\ now + PakeTimeout \in Nat
          /\ now + IoTimeout \in Nat /\ 0 \in Nat
      BY DEF Inv, Types
    <2> QED
      BY <2>1 DEF Acquire, Dialed, Handshaken, Matched, Opened
  <1>2. UNCHANGED <<now, ctx, pinned, cands, results, closed, outcome, saved, warned, pinErr, answer>>
    BY DEF Acquire, Dialed, Handshaken, Matched, Opened
  <1>3. Moves(c, label)
    BY <1>1, <1>2 DEF Acquire, Dialed, Handshaken, Matched, Opened, Moves, Goto, Labels
  <1>4. at[c] = "queued" => Cardinality(Running) < MaxFanOut
    <2>1. Cardinality(Cand) \in Nat /\ Cardinality(Running) \in Nat
      BY FS_CardinalityType, FS_Subset DEF Running
    <2>2. Slots \in Nat /\ Slots <= MaxFanOut
      BY <2>1 DEF Slots, fanOut
    <2>3. at[c] = "queued" => Cardinality(Running) < Slots
      BY DEF Acquire, Dialed, Handshaken, Matched, Opened
    <2> QED
      BY <2>1, <2>2, <2>3
  <1>5. Types'
    BY <1>1, <1>2 DEF Inv, Types, Goto, Labels
  <1>6. Sequencing'
    BY <1>3, MovesSequencing
  <1>7. Room'
    BY <1>2, <1>3, <1>4, MovesRoom
  <1>8. Traced'
    BY <1>1, <1>2, <1>3, MovesTraced DEF Labels
  <1>9. Timely'
    <2>1. \A d \in Cand : /\ at'[d] = (IF d = c THEN label ELSE at[d])
                          /\ until'[d] = (IF d = c THEN limit ELSE until[d])
      BY <1>1 DEF Goto, Inv, Types
    <2>2. now \in Nat /\ until \in [Cand -> Nat]
      BY DEF Inv, Types
    <2>3. \A d \in Cand : at'[d] = "offer" => now <= until'[d] /\ until'[d] <= Timeout + PakeTimeout
      BY <1>1, <2>1, <2>2 DEF Inv, Timely
    <2>4. \A d \in Cand : at'[d] = "sealed" =>
            now <= until'[d] /\ until'[d] <= Timeout + PakeTimeout + IoTimeout
      BY <1>1, <2>1, <2>2 DEF Inv, Timely
    <2> QED
      BY <1>2, <2>3, <2>4 DEF Inv, Timely, ReturnsByDeadlines, returned
  <1> QED
    BY <1>5, <1>6, <1>7, <1>8, <1>9 DEF Inv

\* A goroutine returns.
LEMMA EndKeeps ==
  ASSUME Inv, NEW c \in Cand, Abandon(c) \/ Mismatched(c) \/ Pinned(c) \/ Failed(c)
  PROVE  Inv'
  <1> USE Constants
  <1>1. PICK o \in Outcomes \ {"none"} :
          /\ Goto(c, "done", 0)
          /\ outcome' = [outcome EXCEPT ![c] = o]
          /\ results' = Append(results, c) \/ (results' = results /\ o = "cancelled")
          /\ saved' \in {saved, saved \cup {c}} /\ warned' \in {warned, warned \cup {c}}
          /\ o = "body" => c \in Local \cup saved' \cup warned'
    BY DEF Abandon, Mismatched, Pinned, Failed, Deliver, Outcomes
  <1>2. UNCHANGED <<now, ctx, pinned, cands, closed, pinErr, answer>>
    BY DEF Abandon, Mismatched, Pinned, Failed
  <1>3. Moves(c, "done")
    BY <1>1, <1>2 DEF Abandon, Mismatched, Pinned, Failed, Networking, Moves, Goto, Labels
  <1>4. Types'
    <2>1. at' \in [Cand -> Labels] /\ until' \in [Cand -> Nat]
      BY <1>1 DEF Inv, Types, Goto, Labels
    <2>2. outcome' \in [Cand -> Outcomes] /\ saved' \subseteq Cand /\ warned' \subseteq Cand
      BY <1>1 DEF Inv, Types
    <2>3. results' \in Seq(Cand)
      <3>1. results \in Seq(Cand) /\ Append(results, c) \in Seq(Cand)
        BY AppendProperties DEF Inv, Types
      <3> QED
        BY <1>1, <3>1
    <2> QED
      BY <1>2, <2>1, <2>2, <2>3 DEF Inv, Types
  <1>5. Sequencing'
    BY <1>3, MovesSequencing
  <1>6. Room'
    BY <1>1, <1>3, EndsRoom
  <1>7. Traced'
    BY <1>1, <1>2, <1>3, EndsTraced
  <1>8. Timely'
    <2>1. \A d \in Cand : d # c => at'[d] = at[d] /\ until'[d] = until[d]
      BY <1>1 DEF Goto, Inv, Types
    <2>2. at'[c] = "done"
      BY <1>1 DEF Goto, Inv, Types
    <2> QED
      BY <1>2, <2>1, <2>2 DEF Inv, Timely, ReturnsByDeadlines, returned
  <1> QED
    BY <1>4, <1>5, <1>6, <1>7, <1>8 DEF Inv

\* The next goroutine in line is started.
LEMMA StartKeeps ==
  ASSUME Inv, Start
  PROVE  Inv'
  <1> USE Constants
  <1> DEFINE c == Head(cands)
  <1>1. /\ cands \in Seq(Cand) /\ cands # <<>>
        /\ c \in Cand /\ c = cands[1] /\ 1 \in 1..Len(cands)
        /\ cands' \in Seq(Cand) /\ Len(cands') = Len(cands) - 1 /\ Len(cands) \in Nat
        /\ \A i \in 1..Len(cands') : cands'[i] = cands[i + 1]
    BY HeadTailProperties, EmptySeq, LenProperties DEF Start, Inv, Types
  <1>2. at' = [at EXCEPT ![c] = "queued"] /\ until' = [until EXCEPT ![c] = 0]
    BY DEF Start, Goto
  <1>3. UNCHANGED <<now, ctx, pinned, results, closed, outcome, saved, warned, pinErr, answer>>
    BY DEF Start
  <1>4. at[c] = "new"
    BY <1>1 DEF Inv, Sequencing
  <1> HIDE DEF c
  <1>5. \A d \in Cand : at'[d] = (IF d = c THEN "queued" ELSE at[d])
    BY <1>2 DEF Inv, Types
  <1>6. Types'
    <2>1. at' \in [Cand -> Labels] /\ until' \in [Cand -> Nat]
      BY <1>1, <1>2 DEF Inv, Types, Labels
    <2> QED
      BY <1>1, <1>3, <2>1 DEF Inv, Types
  <1>7. Sequencing'
    <2>1. \A i \in 1..Len(cands') : i + 1 \in 1..Len(cands) /\ cands'[i] # c
      BY <1>1 DEF Inv, Sequencing
    <2>2. \A i, j \in 1..Len(cands') : cands'[i] = cands'[j] => i = j
      BY <1>1, <2>1 DEF Inv, Sequencing
    <2>3. ASSUME NEW i \in 1..Len(cands')
          PROVE  at'[cands'[i]] = "new"
      <3>1. cands'[i] \in Cand /\ cands'[i] # c
        BY <1>1, <2>1, ElementOfSeq
      <3>2. at[cands'[i]] = "new"
        BY <1>1, <2>1 DEF Inv, Sequencing
      <3> QED
        BY <1>5, <3>1, <3>2
    <2>4. ASSUME NEW d \in Cand, at'[d] = "new"
          PROVE  \E i \in 1..Len(cands') : cands'[i] = d
      <3>1. d # c /\ at[d] = "new"
        BY <1>5, <2>4
      <3>2. PICK i \in 1..Len(cands) : cands[i] = d
        BY <3>1 DEF Inv, Sequencing
      <3>3. i # 1 /\ i - 1 \in 1..Len(cands') /\ cands'[i - 1] = d
        BY <1>1, <3>1, <3>2
      <3> QED
        BY <3>3
    <2> QED
      BY <2>2, <2>3, <2>4 DEF Sequencing
  <1>8. Running' = Running /\ Ended' = Ended
    BY <1>1, <1>4, <1>5 DEF Running, Ended, Inv, Types
  <1>9. Room'
    BY <1>3, <1>8 DEF Inv, Room
  <1>10. Traced'
    <2>1. ~closed
      BY <1>1 DEF Inv, Traced
    <2>2. answer \notin {"nomatch", "mismatch"}
      BY <2>1 DEF Inv, Traced
    <2>3. \A d \in Cand : outcome'[d] # "none" <=> at'[d] = "done"
      BY <1>3, <1>4, <1>5 DEF Inv, Traced
    <2>4. \A d \in Cand : InChannel(d)' <=> InChannel(d)
      BY <1>3 DEF InChannel
    <2> QED
      BY <1>3, <2>1, <2>2, <2>3, <2>4 DEF Inv, Traced
  <1>11. Timely'
    <2>1. \A d \in Cand : d # c => until'[d] = until[d]
      BY <1>2 DEF Inv, Types
    <2> QED
      BY <1>3, <1>5, <2>1 DEF Inv, Timely, ReturnsByDeadlines, returned
  <1> QED
    BY <1>6, <1>7, <1>9, <1>10, <1>11 DEF Inv

\* fetch receives a result.
LEMMA ReceiveKeeps ==
  ASSUME Inv, Receive
  PROVE  Inv'
  <1> USE Constants
  <1> DEFINE c == Head(results)
  <1>1. UNCHANGED <<now, pinned, cands, at, until, closed, outcome, saved, warned>>
    BY DEF Receive
  <1>2. /\ results \in Seq(Cand) /\ results # <<>>
        /\ c \in Cand /\ c = results[1] /\ 1 \in 1..Len(results)
        /\ results' \in Seq(Cand) /\ Len(results') = Len(results) - 1 /\ Len(results) \in Nat
        /\ \A i \in 1..Len(results') : results'[i] = results[i + 1]
    BY HeadTailProperties, EmptySeq, LenProperties DEF Receive, Inv, Types
  <1>3. IF outcome[c] = "body"
        THEN answer' = c /\ ctx' = "done" /\ pinErr' = pinErr
        ELSE pinErr' = (pinErr \/ outcome[c] = "mismatch") /\ answer' = answer /\ ctx' = ctx
    BY DEF Receive
  <1>4. answer = "none"
    BY DEF Receive, returned
  <1> HIDE DEF c
  <1>5. \A d \in Cand : InChannel(d) => InChannel(d)' \/ d = c
    <2> SUFFICES ASSUME NEW d \in Cand, NEW i \in 1..Len(results), results[i] = d, d # c
                 PROVE  InChannel(d)'
      BY DEF InChannel
    <2>1. i - 1 \in 1..Len(results') /\ results'[i - 1] = d
      BY <1>2
    <2> QED
      BY <2>1 DEF InChannel
  <1>6. Types'
    <2>1. pinErr' \in BOOLEAN
      BY <1>3 DEF Inv, Types
    <2> QED
      BY <1>1, <1>2, <1>3, <2>1 DEF Inv, Types
  <1>7. Sequencing'
    BY <1>1 DEF Inv, Sequencing
  <1>8. Running' = Running /\ Ended' = Ended /\ Cardinality(Ended) \in Nat
    BY <1>1, FS_CardinalityType, FS_Subset DEF Running, Ended
  <1>9. Room'
    BY <1>2, <1>8 DEF Inv, Room
  <1>10. Traced'
    <2>1. \A d \in Cand : outcome[d] = "body" => InChannel(d)' \/ answer' \in Cand
      BY <1>2, <1>3, <1>4, <1>5 DEF Inv, Traced
    <2>2. \A d \in Cand : outcome[d] = "mismatch" => InChannel(d)' \/ pinErr' \/ answer' \in Cand
      BY <1>2, <1>3, <1>4, <1>5 DEF Inv, Traced
    <2>3. answer' \in Cand => outcome[answer'] = "body"
      BY <1>3, <1>4
    <2>4. answer' \notin {"nomatch", "mismatch"}
      BY <1>2, <1>3, <1>4
    <2> QED
      BY <1>1, <1>8, <2>1, <2>2, <2>3, <2>4 DEF Inv, Traced
  <1>11. Timely'
    <2>1. ctx' = "live" => ctx = "live"
      BY <1>3
    <2>2. ReturnsByDeadlines'
      BY <1>1, <1>4 DEF Inv, Timely, ReturnsByDeadlines, returned
    <2> QED
      BY <1>1, <2>1, <2>2 DEF Inv, Timely
  <1> QED
    BY <1>6, <1>7, <1>9, <1>10, <1>11 DEF Inv

\* The steps of fetch that leave its goroutines and the channel's contents alone.
LEMMA CloseKeeps ==
  ASSUME Inv, Close \/ GiveUp \/ Interrupt \/ UNCHANGED vars
  PROVE  Inv'
  <1> USE Constants
  <1>1. UNCHANGED <<now, pinned, cands, at, until, results, outcome, saved, warned, pinErr>>
    BY DEF Close, GiveUp, Interrupt, vars
  <1>2. Types'
    <2>1. closed' \in BOOLEAN
      BY DEF Inv, Types, Close, GiveUp, Interrupt, vars
    <2>2. ctx' \in {"live", "done"} /\ answer' \in {"none", "nomatch", "mismatch"} \cup Cand
      BY DEF Inv, Types, Close, GiveUp, Interrupt, vars
    <2> QED
      BY <1>1, <2>1, <2>2 DEF Inv, Types
  <1>3. Sequencing'
    BY <1>1 DEF Inv, Sequencing
  <1>4. Running' = Running /\ Ended' = Ended
    BY <1>1 DEF Running, Ended
  <1>5. Room'
    BY <1>1, <1>4 DEF Inv, Room
  <1>6. \A d \in Cand : InChannel(d)' <=> InChannel(d)
    BY <1>1 DEF InChannel
  <1>7. Traced'
    <2>1. CASE Close
      <3>1. Ended = Cand /\ cands = <<>> /\ answer' = answer
        BY <2>1 DEF Close, Ended
      <3> QED
        BY <1>1, <1>4, <1>6, <2>1, <3>1 DEF Inv, Traced, Close
    <2>2. CASE GiveUp
      <3>1. /\ cands = <<>> /\ closed /\ results = <<>> /\ closed' = closed
            /\ answer' = IF pinErr THEN "mismatch" ELSE "nomatch"
        BY <2>2 DEF GiveUp
      <3>2. answer = "none"
        BY <2>2 DEF GiveUp, returned
      <3>3. \A d \in Cand : outcome[d] = "body" => InChannel(d)
        BY <3>2 DEF Inv, Traced
      <3>4. \A d \in Cand : outcome[d] = "mismatch" => InChannel(d) \/ pinErr
        BY <3>2 DEF Inv, Traced
      <3>5. answer' \notin Cand /\ (answer' = "nomatch" => ~pinErr)
        BY <3>1
      <3> QED
        BY <1>1, <1>4, <1>6, <3>1, <3>3, <3>4, <3>5 DEF Inv, Traced
    <2>3. CASE Interrupt \/ UNCHANGED vars
      <3>1. answer' = answer /\ closed' = closed
        BY <2>3 DEF Interrupt, vars
      <3> QED
        BY <1>1, <1>4, <1>6, <3>1 DEF Inv, Traced
    <2> QED
      BY <2>1, <2>2, <2>3
  <1>8. Timely'
    <2>1. ctx' = "live" => ctx = "live"
      BY DEF Close, GiveUp, Interrupt, vars
    <2>2. answer # "none" => answer' # "none"
      BY DEF Close, GiveUp, Interrupt, vars, returned
    <2> QED
      BY <1>1, <2>1, <2>2 DEF Inv, Timely, ReturnsByDeadlines, returned
  <1> QED
    BY <1>2, <1>3, <1>5, <1>7, <1>8 DEF Inv

\* Time passes: nobody can act, so every deadline lies ahead, and once they have
\* all passed every goroutine has ended and fetch has returned.
LEMMA TickKeeps ==
  ASSUME Inv, Tick
  PROVE  Inv'
  <1> USE Constants
  <1>1. UNCHANGED <<pinned, cands, at, until, results, closed, outcome, saved, warned, pinErr, answer>>
    BY DEF Tick
  <1>2. /\ now \in Nat /\ now < MaxTime /\ now' = now + 1
        /\ ctx' = IF now' >= Timeout THEN "done" ELSE ctx
    BY DEF Tick, Inv, Types
  <1>3. /\ cands = <<>>
        /\ ~((\A c \in Cand : at[c] = "done") /\ ~(closed /\ returned))
        /\ \A c \in Cand : at[c] # "pin" /\ ~Overdue(c) /\ ~(at[c] = "queued" /\ ctx = "done")
    BY DEF Tick, Busy
  <1>4. Types'
    BY <1>1, <1>2 DEF Inv, Types
  <1>5. Sequencing'
    BY <1>1 DEF Inv, Sequencing
  <1>6. Running' = Running /\ Ended' = Ended
    BY <1>1 DEF Running, Ended
  <1>7. Room'
    BY <1>1, <1>6 DEF Inv, Room
  <1>8. Traced'
    <2>1. \A d \in Cand : InChannel(d)' <=> InChannel(d)
      BY <1>1 DEF InChannel
    <2> QED
      BY <1>1, <1>6, <2>1 DEF Inv, Traced
  <1>9. ASSUME NEW c \in Cand, at[c] \in {"offer", "sealed"}
        PROVE  now < until[c]
    <2>1. until[c] \in Nat
      BY DEF Inv, Types
    <2>2. ~(now >= until[c])
      BY <1>3, <1>9 DEF Overdue, Networking
    <2> QED
      BY <1>2, <2>1, <2>2
  <1>10. ASSUME now' > Timeout + PakeTimeout + IoTimeout
         PROVE  returned
    <2>1. ctx = "done"
      BY <1>2, <1>10 DEF Inv, Timely, Types
    <2>2. \A c \in Cand : at[c] \notin {"offer", "sealed"}
      BY <1>2, <1>9, <1>10 DEF Inv, Timely, Types
    <2>3. \A c \in Cand : at[c] \notin {"dial", "tls"}
      BY <1>3, <2>1 DEF Overdue, Networking
    <2>4. \A c \in Cand : at[c] # "new"
      BY <1>3, EmptySeq DEF Inv, Sequencing
    <2>5. \A c \in Cand : at[c] \notin {"queued", "pin"}
      BY <1>3, <2>1
    <2>6. \A c \in Cand : at[c] = "done"
      BY <2>2, <2>3, <2>4, <2>5 DEF Inv, Types, Labels
    <2> QED
      BY <1>3, <2>6
  <1>11. Timely'
    <2>1. ctx' = "live" => now' < Timeout
      BY <1>2 DEF Inv, Types
    <2>2. \A c \in Cand : at'[c] \in {"offer", "sealed"} => now' <= until'[c]
      BY <1>1, <1>2, <1>9 DEF Inv, Types
    <2>3. ReturnsByDeadlines'
      BY <1>1, <1>10 DEF ReturnsByDeadlines, returned
    <2> QED
      BY <1>1, <2>1, <2>2, <2>3 DEF Inv, Timely
  <1> QED
    BY <1>4, <1>5, <1>7, <1>8, <1>11 DEF Inv

LEMMA NextKeeps ==
  ASSUME Inv, [Next]_vars
  PROVE  Inv'
  <1>1. CASE Start
    BY <1>1, StartKeeps
  <1>2. CASE Close \/ GiveUp \/ Interrupt \/ Finished \/ UNCHANGED vars
    BY <1>2, CloseKeeps DEF Finished
  <1>3. CASE Receive
    BY <1>3, ReceiveKeeps
  <1>4. CASE Tick
    BY <1>4, TickKeeps
  <1>5. ASSUME NEW c \in Cand,
               Acquire(c) \/ Dialed(c) \/ Handshaken(c) \/ Matched(c) \/ Opened(c)
        PROVE  Inv'
    BY <1>5, AdvanceKeeps
  <1>6. ASSUME NEW c \in Cand, Abandon(c) \/ Mismatched(c) \/ Pinned(c) \/ Failed(c)
        PROVE  Inv'
    BY <1>6, EndKeeps
  <1> QED
    BY <1>1, <1>2, <1>3, <1>4, <1>5, <1>6 DEF Next, Compute, Network

LEMMA InvHolds == Spec => []Inv
  BY InitInv, NextKeeps, PTL DEF Spec

-----------------------------------------------------------------------------
LEMMA InvImplies ==
  ASSUME Inv
  PROVE  FetchTypeOK /\ NothingDropped /\ RefusalHonest /\ AnswerPinned /\ ReturnsByDeadlines
  <1> USE Constants
  <1>1. FetchTypeOK
    <2>1. Cardinality(Cand) \in Nat /\ Cardinality(Ended) \in Nat
          /\ Cardinality(Ended) <= Cardinality(Cand)
      BY FS_Subset, FS_CardinalityType DEF Ended
    <2>2. Len(results) \in Nat /\ Len(results) <= Cardinality(Cand)
      BY <2>1, LenProperties DEF Inv, Room, Types
    <2>3. \A i \in DOMAIN cands : cands[i] \in Cand
      BY LenProperties DEF Inv, Types
    <2>4. \A i \in DOMAIN results : results[i] \in Cand
      BY LenProperties DEF Inv, Types
    <2> QED
      BY <2>2, <2>3, <2>4 DEF Inv, Types, Room, FetchTypeOK, Labels, Outcomes
  <1>2. ASSUME answer \in {"nomatch", "mismatch"}
        PROVE  \A c \in Cand : ~InChannel(c) /\ at[c] = "done"
    BY <1>2, EmptySeq DEF Inv, Traced, Ended, InChannel
  <1>3. NothingDropped
    BY <1>2 DEF Inv, Traced, Types, NothingDropped, returned
  <1>4. RefusalHonest
    BY <1>2 DEF Inv, Traced, Types, RefusalHonest, Outcomes
  <1>5. AnswerPinned
    BY DEF Inv, Traced, AnswerPinned
  <1> QED
    BY <1>1, <1>3, <1>4, <1>5 DEF Inv, Timely

(***************************************************************************)
(* Every variable of a fetch keeps its type, the channel never holds more  *)
(* results than it has room for, and at most maxFanOut goroutines hold a   *)
(* slot (fetch, fanOut), for any number of candidates.                     *)
(***************************************************************************)
THEOREM FetchTypeCorrect == Spec => []FetchTypeOK
  BY InvHolds, InvImplies, PTL

(***************************************************************************)
(* A paste that arrived is returned, whatever the other candidates, the    *)
(* timeout and the interrupt do meanwhile (fetch).                         *)
(***************************************************************************)
THEOREM NoPasteDropped == Spec => []NothingDropped
  BY InvHolds, InvImplies, PTL

(***************************************************************************)
(* fetch says errNoMatch only when every candidate failed or was cut off   *)
(* and none presented a changed key.                                       *)
(***************************************************************************)
THEOREM RefusalsHonest == Spec => []RefusalHonest
  BY InvHolds, InvImplies, PTL

(***************************************************************************)
(* fetch returns no paste of another machine before its key was handed to  *)
(* the pin cache (fetchFrom, savePin).                                     *)
(***************************************************************************)
THEOREM AnswersPinned == Spec => []AnswerPinned
  BY InvHolds, InvImplies, PTL

(***************************************************************************)
(* For any timeouts, fetch has returned once an exchange begun at the last *)
(* moment has run into both of its deadlines (exchange, fetchFrom).        *)
(***************************************************************************)
THEOREM FetchReturnsInTime == Spec => []ReturnsByDeadlines
  BY InvHolds, InvImplies, PTL
=============================================================================
