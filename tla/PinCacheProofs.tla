--------------------------- MODULE PinCacheProofs ---------------------------
(***************************************************************************)
(* The pin cache, for any number of processes, hosts and saves: what the   *)
(* last savePin of a host stored is read back unless a compaction crossed  *)
(* another save, and the file stays within its bound.                      *)
(*                                                                         *)
(* The invariant has five parts: types; what a process inside savePin has  *)
(* in hand (Working); that a compactor's temporary file is its own and is  *)
(* what writePins makes of its pins (Owned); that the pins of a compactor  *)
(* nobody overtook are those of the file, its own apart (Fresh), which     *)
(* with ReadBack itself is what makes replacing the file safe; and that    *)
(* the file and the appends under way fit the bound together (Room).       *)
(***************************************************************************)
EXTENDS PinCache, FiniteSetTheorems, SequenceTheorems, WellFoundedInduction, TLAPS

Pin == [host : Host, name : Names]

Types ==
    /\ PinTypeOK
    /\ DOMAIN pins = Proc

Working ==
    \A p \in Proc :
        /\ \A h \in DOMAIN pins[p] : pins[p][h] \in Names \cup {FirstWord}
        /\ at[p] # "idle" =>
            /\ want[p] \in Pin
            /\ want[p].host \in DOMAIN pins[p] /\ pins[p][want[p].host] = want[p].name

Owned ==
    \A p \in Proc : at[p] = "rename" =>
        /\ fd[p] # path /\ \A q \in Proc \ {p} : fd[q] # fd[p]
        /\ files[fd[p]] \in compacted(pins[p])

\* Two readings of the file agree, except on host h.
Agree(read, other, h) ==
    \A x \in Host \ {h} :
        /\ x \in DOMAIN read <=> x \in DOMAIN other
        /\ x \in DOMAIN read => read[x] = other[x]

Fresh ==
    \A p \in Proc : at[p] \in {"compact", "rename"} /\ p \notin late =>
        Agree(pins[p], readPins(content), want[p].host)

Appending == {p \in Proc : at[p] \in {"open", "append"}}

Room == Len(content) + Cardinality(Appending) <= 2 * Cardinality(Host) + Cardinality(Proc) - 1

Inv == Types /\ Working /\ Owned /\ Fresh /\ ReadBack /\ Room

-----------------------------------------------------------------------------
\* Reading a file

\* Nonempty sets of naturals have a least element.
LEMMA Least ==
  ASSUME NEW T \in SUBSET Nat, T # {}
  PROVE  \E x \in T : \A y \in T : x <= y
  <1>1. \E x \in T : \A y \in T : ~ (<<y, x>> \in OpToRel(<, Nat))
    BY NatLessThanWellFounded, WFMin, Zenon
  <1>2. ASSUME NEW x \in Nat, NEW y \in Nat, ~ (<<y, x>> \in OpToRel(<, Nat))
        PROVE  ~(y < x)
    BY <1>2, Zenon DEF OpToRel
  <1>3. \E x \in T : \A y \in T : ~(y < x)
    BY <1>1, <1>2, Zenon
  <1> QED
    BY <1>3

\* Line i is the last one of host h.
Last(lines, i, h) ==
    /\ i \in 1..Len(lines) /\ lines[i].host = h
    /\ \A j \in (i + 1)..Len(lines) : lines[j].host # h

LEMMA LastExists ==
  ASSUME NEW lines \in Seq(Line), NEW i \in 1..Len(lines)
  PROVE  \E k : Last(lines, k, lines[i].host)
  <1> DEFINE Own == {k \in 1..Len(lines) : lines[k].host = lines[i].host}
             T == {Len(lines) - k : k \in Own}
  <1>0. Len(lines) \in Nat
    OBVIOUS
  <1>1. T \in SUBSET Nat /\ T # {}
    BY <1>0
  <1>2. PICK x \in T : \A y \in T : x <= y
    BY <1>1, Least
  <1>3. PICK k \in Own : x = Len(lines) - k
    BY <1>2
  <1>4. ASSUME NEW j \in (k + 1)..Len(lines), lines[j].host = lines[i].host
        PROVE  FALSE
    <2>1. j \in Own /\ j > k
      BY <1>0, <1>3, <1>4
    <2>2. Len(lines) - j \in T
      BY <2>1
    <2>3. x <= Len(lines) - j
      BY <1>2, <2>2
    <2> QED
      BY <1>0, <1>3, <2>1, <2>3
  <1> QED
    BY <1>3, <1>4 DEF Last

LEMMA LastUnique ==
  ASSUME NEW lines \in Seq(Line), NEW h, NEW i, NEW k, Last(lines, i, h), Last(lines, k, h)
  PROVE  i = k
  <1>0. Len(lines) \in Nat /\ i \in 1..Len(lines) /\ k \in 1..Len(lines)
    BY DEF Last
  <1>1. ~(i < k) /\ ~(k < i)
    BY <1>0 DEF Last
  <1> QED
    BY <1>0, <1>1

LEMMA ReadHosts ==
  ASSUME NEW lines \in Seq(Line)
  PROVE  \A h : h \in DOMAIN readPins(lines) <=> \E i \in 1..Len(lines) : lines[i].host = h
  <1>1. DOMAIN lines = 1..Len(lines)
    OBVIOUS
  <1>2. DOMAIN readPins(lines) = {lines[i].host : i \in DOMAIN lines}
    BY DEF readPins
  <1> QED
    BY <1>1, <1>2

LEMMA ReadLast ==
  ASSUME NEW lines \in Seq(Line), NEW h, NEW k, Last(lines, k, h)
  PROVE  h \in DOMAIN readPins(lines) /\ readPins(lines)[h] = field(lines[k].name)
  <1> DEFINE c == CHOOSE i \in DOMAIN lines :
                    lines[i].host = h /\ \A j \in (i + 1)..Len(lines) : lines[j].host # h
  <1>1. DOMAIN lines = 1..Len(lines)
    OBVIOUS
  <1>2. h \in DOMAIN readPins(lines)
    BY ReadHosts DEF Last
  <1>3. readPins(lines)[h] = field(lines[c].name)
    BY <1>2 DEF readPins
  <1>4. Last(lines, c, h)
    <2>1. \E i \in DOMAIN lines :
            lines[i].host = h /\ \A j \in (i + 1)..Len(lines) : lines[j].host # h
      BY <1>1 DEF Last
    <2>2. c \in DOMAIN lines /\ lines[c].host = h
          /\ \A j \in (c + 1)..Len(lines) : lines[j].host # h
      BY <2>1, Zenon
    <2> QED
      BY <1>1, <2>2 DEF Last
  <1>5. c = k
    BY <1>4, LastUnique
  <1> QED
    BY <1>2, <1>3, <1>5

LEMMA ReadTypes ==
  ASSUME NEW lines \in Seq(Line)
  PROVE  /\ DOMAIN readPins(lines) \subseteq Host
         /\ \A h \in DOMAIN readPins(lines) :
                readPins(lines)[h] \in Names \cup {FirstWord} /\ readPins(lines)[h] \notin Spaced
  <1>1. \A i \in 1..Len(lines) : lines[i].host \in Host /\ lines[i].name \in Names \cup {FirstWord}
    <2>1. \A i \in 1..Len(lines) : lines[i] \in Line
      BY ElementOfSeq
    <2> QED
      BY <2>1 DEF Line
  <1>2. DOMAIN readPins(lines) \subseteq Host
    BY <1>1, ReadHosts
  <1>3. ASSUME NEW h \in DOMAIN readPins(lines)
        PROVE  readPins(lines)[h] \in Names \cup {FirstWord} /\ readPins(lines)[h] \notin Spaced
    <2>1. PICK i \in 1..Len(lines) : h = lines[i].host
      BY ReadHosts
    <2>2. PICK k : Last(lines, k, h)
      BY <2>1, LastExists
    <2>3. readPins(lines)[h] = field(lines[k].name) /\ k \in 1..Len(lines)
      BY <2>2, ReadLast DEF Last
    <2> QED
      BY <1>1, <2>3, WordAssumption DEF field, Names
  <1> QED
    BY <1>2, <1>3

\* A line that is appended wins, and changes nothing for the other hosts.
LEMMA ReadAppend ==
  ASSUME NEW lines \in Seq(Line), NEW l \in Line
  PROVE  /\ DOMAIN readPins(Append(lines, l)) = DOMAIN readPins(lines) \cup {l.host}
         /\ readPins(Append(lines, l))[l.host] = field(l.name)
         /\ \A h \in DOMAIN readPins(lines) \ {l.host} :
                readPins(Append(lines, l))[h] = readPins(lines)[h]
  <1> DEFINE more == Append(lines, l)
             n == Len(lines)
  <1>1. /\ n \in Nat /\ more \in Seq(Line) /\ Len(more) = n + 1
        /\ more[n + 1] = l /\ \A i \in 1..n : more[i] = lines[i]
    BY AppendProperties
  <1> HIDE DEF more
  <1>2. DOMAIN readPins(more) = DOMAIN readPins(lines) \cup {l.host}
    <2>1. \A h : h \in DOMAIN readPins(more) <=> \E i \in 1..(n + 1) : more[i].host = h
      BY <1>1, ReadHosts
    <2>2. \A h : h \in DOMAIN readPins(lines) <=> \E i \in 1..n : lines[i].host = h
      BY ReadHosts
    <2>3. n + 1 \in 1..(n + 1) /\ \A i \in 1..n : i \in 1..(n + 1)
      BY <1>1
    <2>4. \A i \in 1..(n + 1) : i = n + 1 \/ i \in 1..n
      BY <1>1
    <2>5. \A h : (\E i \in 1..(n + 1) : more[i].host = h)
                <=> (h = l.host \/ \E i \in 1..n : lines[i].host = h)
      BY <1>1, <2>3, <2>4
    <2> QED
      BY <2>1, <2>2, <2>5
  <1>3. readPins(more)[l.host] = field(l.name)
    <2>1. Last(more, n + 1, l.host)
      BY <1>1 DEF Last
    <2> QED
      BY <1>1, <2>1, ReadLast
  <1>4. ASSUME NEW h \in DOMAIN readPins(lines) \ {l.host}
        PROVE  readPins(more)[h] = readPins(lines)[h]
    <2>1. PICK i \in 1..n : h = lines[i].host
      BY ReadHosts
    <2>2. PICK k : Last(lines, k, h)
      BY <2>1, LastExists
    <2>3. k \in 1..n /\ lines[k].host = h /\ \A j \in (k + 1)..n : lines[j].host # h
      BY <2>2 DEF Last
    <2>4. ASSUME NEW j \in (k + 1)..(n + 1) PROVE more[j].host # h
      <3>1. CASE j = n + 1
        BY <1>1, <3>1
      <3>2. CASE j # n + 1
        <4>1. j \in 1..n /\ j \in (k + 1)..n
          BY <1>1, <2>3, <3>2
        <4> QED
          BY <1>1, <2>3, <4>1
      <3> QED
        BY <3>1, <3>2
    <2>5. k \in 1..(n + 1) /\ more[k].host = h
      BY <1>1, <2>3
    <2>6. Last(more, k, h)
      BY <1>1, <2>4, <2>5 DEF Last
    <2>7. readPins(more)[h] = field(more[k].name) /\ readPins(lines)[h] = field(lines[k].name)
      BY <1>1, <2>2, <2>6, ReadLast
    <2> QED
      BY <1>1, <2>3, <2>7
  <1> QED
    BY <1>2, <1>3, <1>4 DEF more

\* What writePins writes reads back as the pins it was given.
LEMMA ReadCompacted ==
  ASSUME NEW all, DOMAIN all \subseteq Host,
         \A h \in DOMAIN all : all[h] \in Names \cup {FirstWord},
         NEW lines \in compacted(all)
  PROVE  /\ lines \in Seq(Line) /\ Len(lines) <= Cardinality(Host)
         /\ DOMAIN readPins(lines) = DOMAIN all
         /\ \A h \in DOMAIN all : readPins(lines)[h] = field(all[h])
  <1> DEFINE hosts == DOMAIN all
             n == Cardinality(hosts)
  <1>1. IsFiniteSet(hosts) /\ n \in Nat /\ n <= Cardinality(Host)
    BY PinAssumption, FS_Subset, FS_CardinalityType
  <1>2. PICK t \in [1..n -> hosts] :
            /\ \A i, j \in 1..n : t[i] = t[j] => i = j
            /\ lines = [i \in 1..n |-> [host |-> t[i], name |-> all[t[i]]]]
    BY DEF compacted
  <1> HIDE DEF n, hosts
  <1>3. \A i \in 1..n : lines[i].host = t[i] /\ lines[i].name = all[t[i]] /\ lines[i] \in Line
    BY <1>2 DEF Line, hosts
  <1>4. lines \in Seq(Line) /\ Len(lines) = n
    BY <1>1, <1>2, <1>3
  <1>5. \A h \in hosts : \E i \in 1..n : t[i] = h
    <2> SUFFICES ASSUME NEW h \in hosts, \A i \in 1..n : t[i] # h PROVE FALSE
      OBVIOUS
    <2>1. t \in [1..n -> hosts \ {h}]
      BY <1>2
    <2>2. IsFiniteSet(hosts \ {h}) /\ Cardinality(hosts \ {h}) = n - 1
      BY <1>1, FS_RemoveElement DEF n
    <2>3. IsFiniteSet(1..n) /\ Cardinality(1..n) = n
      BY <1>1, FS_Interval
    <2>4. Cardinality(hosts \ {h}) < Cardinality(1..n)
      BY <1>1, <2>2, <2>3
    <2>5. \E x, y \in 1..n : x # y /\ t[x] = t[y]
      <3>1. PICK S : S = 1..n
        OBVIOUS
      <3>2. PICK T : T = hosts \ {h}
        OBVIOUS
      <3>3. IsFiniteSet(S)
        BY <2>3, <3>1
      <3>4. IsFiniteSet(T)
        BY <2>2, <3>2
      <3>5. Cardinality(T) < Cardinality(S)
        BY <2>4, <3>1, <3>2
      <3>6. t \in [S -> T]
        BY <2>1, <3>1, <3>2
      <3>7. \A f \in [S -> T] : \E x, y \in S : x # y /\ f[x] = f[y]
        BY <3>3, <3>4, <3>5, FS_PigeonHole
      <3> QED
        BY <3>1, <3>6, <3>7
    <2> QED
      BY <1>2, <2>5
  <1>6. DOMAIN readPins(lines) = hosts
    <2>1. \A h : h \in DOMAIN readPins(lines) <=> \E i \in 1..n : lines[i].host = h
      BY <1>4, ReadHosts
    <2>2. \A h : h \in hosts <=> \E i \in 1..n : lines[i].host = h
      <3>1. \A h \in hosts : \E i \in 1..n : lines[i].host = h
        BY <1>3, <1>5
      <3>2. \A i \in 1..n : lines[i].host \in hosts
        BY <1>3
      <3> QED
        BY <3>1, <3>2
    <2> QED
      BY <2>1, <2>2
  <1>7. ASSUME NEW h \in hosts PROVE readPins(lines)[h] = field(all[h])
    <2>1. PICK i \in 1..n : t[i] = h
      BY <1>5
    <2>2. Last(lines, i, h)
      BY <1>1, <1>2, <1>3, <1>4, <2>1 DEF Last
    <2> QED
      BY <1>3, <1>4, <2>1, <2>2, ReadLast
  <1> QED
    BY <1>1, <1>4, <1>6, <1>7 DEF hosts

-----------------------------------------------------------------------------
\* Steps

LEMMA ContentType ==
  ASSUME PinTypeOK
  PROVE  content \in Seq(Line) /\ Len(content) \in Nat
  <1>1. CASE path = 0
    BY <1>1 DEF content
  <1>2. CASE path # 0
    <2>1. path \in 1..Len(files) /\ files \in Seq(Seq(Line))
      BY <1>2 DEF PinTypeOK
    <2>2. files[path] \in Seq(Line)
      BY <2>1, ElementOfSeq
    <2> QED
      BY <1>2, <2>2 DEF content
  <1> QED
    BY <1>1, <1>2

LEMMA AppendingFinite ==
  /\ IsFiniteSet(Appending) /\ Cardinality(Appending) \in Nat
  /\ Cardinality(Proc) \in Nat /\ Cardinality(Appending) <= Cardinality(Proc)
  <1>1. Appending \subseteq Proc
    BY DEF Appending
  <1> QED
    BY <1>1, PinAssumption, FS_Subset, FS_CardinalityType

\* A step that saves nothing and that leaves the content of the file alone.
LEMMA QuietKeeps ==
  ASSUME Inv, UNCHANGED <<want, pins, saved, raced>>, content' = content,
         \A p \in Proc :
            /\ at'[p] # "idle" => at[p] # "idle"
            /\ at'[p] \in {"open", "append"} => at[p] \in {"open", "append"}
            /\ at'[p] \in {"compact", "rename"} /\ p \notin late' =>
                  at[p] \in {"compact", "rename"} /\ p \notin late
  PROVE  Working' /\ Fresh' /\ ReadBack' /\ Room'
  <1>1. Working'
    BY DEF Inv, Working
  <1>2. Fresh'
    BY DEF Inv, Fresh
  <1>3. ReadBack'
    BY DEF Inv, ReadBack
  <1>4. Room'
    <2>1. Appending' \subseteq Appending
      BY DEF Appending
    <2>2. PICK A : A = Appending'
      OBVIOUS
    <2>3. Cardinality(A) <= Cardinality(Appending) /\ Cardinality(A) \in Nat
      BY <2>1, <2>2, AppendingFinite, FS_Subset, FS_CardinalityType
    <2>4. Cardinality(Host) \in Nat /\ Len(content) \in Nat
      BY ContentType, PinAssumption, FS_CardinalityType DEF Inv, Types
    <2>5. Len(content) + Cardinality(A) <= 2 * Cardinality(Host) + Cardinality(Proc) - 1
      BY <2>3, <2>4, AppendingFinite DEF Inv, Room
    <2> QED
      BY <2>2, <2>5 DEF Room
  <1> QED
    BY <1>1, <1>2, <1>3, <1>4

LEMMA OpenKeeps ==
  ASSUME Inv, NEW p \in Proc, Open(p)
  PROVE  Inv'
  <1>0. PinTypeOK /\ DOMAIN pins = Proc
    BY DEF Inv, Types
  <1>1. /\ files \in Seq(Seq(Line)) /\ Len(files) \in Nat /\ path \in 0..Len(files)
        /\ at \in [Proc -> {"idle", "open", "append", "compact", "rename"}]
        /\ fd \in [Proc -> 0..Len(files)]
    BY <1>0 DEF PinTypeOK
  <1>2. /\ at[p] = "open" /\ at' = [at EXCEPT ![p] = "append"]
        /\ fd' = [fd EXCEPT ![p] = path'] /\ UNCHANGED <<want, pins, saves, saved, late, raced>>
    BY DEF Open
  <1>3. /\ files' \in Seq(Seq(Line)) /\ Len(files') \in Nat /\ Len(files) <= Len(files')
        /\ path' \in 1..Len(files')
        /\ \A i \in 1..Len(files) : files'[i] = files[i]
        /\ path' = path \/ (path = 0 /\ path' = Len(files) + 1)
        /\ content' = content
    <2>1. CASE path = 0
      <3>1. files' = Append(files, <<>>) /\ path' = Len(files')
        BY <2>1 DEF Open
      <3>2. << >> \in Seq(Line)
        OBVIOUS
      <3>3. /\ files' \in Seq(Seq(Line)) /\ Len(files') = Len(files) + 1
            /\ files'[Len(files) + 1] = << >> /\ \A i \in 1..Len(files) : files'[i] = files[i]
        BY <1>1, <3>1, <3>2, AppendProperties
      <3>4. content = << >> /\ content' = << >>
        BY <1>1, <2>1, <3>1, <3>3 DEF content
      <3> QED
        BY <1>1, <2>1, <3>1, <3>3, <3>4
    <2>2. CASE path # 0
      BY <1>1, <2>2 DEF Open, content
    <2> QED
      BY <2>1, <2>2
  <1>4. \A q \in Proc \ {p} : at'[q] = at[q] /\ fd'[q] = fd[q]
    BY <1>1, <1>2
  <1>5. at'[p] = "append" /\ fd'[p] = path'
    BY <1>1, <1>2
  <1>6. Types'
    <2>1. at' \in [Proc -> {"idle", "open", "append", "compact", "rename"}]
      BY <1>1, <1>2
    <2>2. fd' \in [Proc -> 0..Len(files')]
      BY <1>1, <1>2, <1>3
    <2>3. \A q \in Proc : fd'[q] # 0 <=> at'[q] \in {"append", "rename"}
      <3>1. \A q \in Proc : fd[q] # 0 <=> at[q] \in {"append", "rename"}
        BY <1>0 DEF PinTypeOK
      <3>2. path' # 0
        BY <1>3
      <3> QED
        BY <1>4, <1>5, <3>1, <3>2
    <2>4. path' \in 0..Len(files')
      BY <1>3
    <2> QED
      BY <1>0, <1>2, <1>3, <2>1, <2>2, <2>3, <2>4 DEF Types, PinTypeOK
  <1>7. Working' /\ Fresh' /\ ReadBack' /\ Room'
    BY <1>2, <1>3, <1>4, <1>5, QuietKeeps
  <1>8. Owned'
    <2> SUFFICES ASSUME NEW q \in Proc, at'[q] = "rename"
                 PROVE  /\ fd'[q] # path' /\ \A x \in Proc \ {q} : fd'[x] # fd'[q]
                        /\ files'[fd'[q]] \in compacted(pins'[q])
      BY DEF Owned
    <2>1. q # p /\ at[q] = "rename" /\ fd'[q] = fd[q]
      BY <1>4, <1>5
    <2>2. fd[q] # path /\ (\A x \in Proc \ {q} : fd[x] # fd[q]) /\ files[fd[q]] \in compacted(pins[q])
      BY <2>1 DEF Inv, Owned
    <2>3. fd[q] \in 1..Len(files)
      BY <1>0, <1>1, <2>1 DEF PinTypeOK
    <2>4. fd[q] # path'
      BY <1>1, <1>3, <2>2, <2>3
    <2> QED
      BY <1>2, <1>3, <1>4, <1>5, <2>1, <2>2, <2>3, <2>4
  <1> QED
    BY <1>6, <1>7, <1>8 DEF Inv

LEMMA FailKeeps ==
  ASSUME Inv, NEW p \in Proc, Fail(p)
  PROVE  Inv'
  <1>0. PinTypeOK /\ DOMAIN pins = Proc
    BY DEF Inv, Types
  <1>1. /\ files \in Seq(Seq(Line)) /\ Len(files) \in Nat /\ path \in 0..Len(files)
        /\ at \in [Proc -> {"idle", "open", "append", "compact", "rename"}]
        /\ fd \in [Proc -> 0..Len(files)]
        /\ \A q \in Proc : fd[q] # 0 <=> at[q] \in {"append", "rename"}
    BY <1>0 DEF PinTypeOK
  <1>2. /\ at' = [at EXCEPT ![p] = "idle"] /\ fd' = [fd EXCEPT ![p] = 0] /\ late' = late \ {p}
        /\ UNCHANGED <<files, path, want, pins, saves, saved, raced>>
    BY DEF Fail
  <1>3. content' = content
    BY <1>2 DEF content
  <1>4. \A q \in Proc \ {p} : at'[q] = at[q] /\ fd'[q] = fd[q]
    BY <1>1, <1>2
  <1>5. at'[p] = "idle" /\ fd'[p] = 0
    BY <1>1, <1>2
  <1>6. Types'
    <2>1. at' \in [Proc -> {"idle", "open", "append", "compact", "rename"}]
      BY <1>1, <1>2
    <2>2. fd' \in [Proc -> 0..Len(files')]
      BY <1>1, <1>2
    <2>3. \A q \in Proc : fd'[q] # 0 <=> at'[q] \in {"append", "rename"}
      BY <1>1, <1>4, <1>5
    <2>4. late' \subseteq Proc
      BY <1>0, <1>2 DEF PinTypeOK
    <2> QED
      BY <1>0, <1>2, <2>1, <2>2, <2>3, <2>4 DEF Types, PinTypeOK
  <1>7. Working' /\ Fresh' /\ ReadBack' /\ Room'
    BY <1>2, <1>3, <1>4, <1>5, QuietKeeps
  <1>8. Owned'
    <2> SUFFICES ASSUME NEW q \in Proc, at'[q] = "rename"
                 PROVE  /\ fd'[q] # path' /\ \A x \in Proc \ {q} : fd'[x] # fd'[q]
                        /\ files'[fd'[q]] \in compacted(pins'[q])
      BY DEF Owned
    <2>1. q # p /\ at[q] = "rename" /\ fd'[q] = fd[q] /\ fd[q] # 0
      BY <1>1, <1>4, <1>5
    <2>2. fd[q] # path /\ (\A x \in Proc \ {q} : fd[x] # fd[q]) /\ files[fd[q]] \in compacted(pins[q])
      BY <2>1 DEF Inv, Owned
    <2> QED
      BY <1>2, <1>4, <1>5, <2>1, <2>2
  <1> QED
    BY <1>6, <1>7, <1>8 DEF Inv

LEMMA WriteTempKeeps ==
  ASSUME Inv, NEW p \in Proc, WriteTemp(p)
  PROVE  Inv'
  <1>0. PinTypeOK /\ DOMAIN pins = Proc
    BY DEF Inv, Types
  <1>1. /\ files \in Seq(Seq(Line)) /\ Len(files) \in Nat /\ path \in 0..Len(files)
        /\ at \in [Proc -> {"idle", "open", "append", "compact", "rename"}]
        /\ fd \in [Proc -> 0..Len(files)]
        /\ \A q \in Proc : fd[q] # 0 <=> at[q] \in {"append", "rename"}
    BY <1>0 DEF PinTypeOK
  <1>2. /\ at[p] = "compact" /\ at' = [at EXCEPT ![p] = "rename"]
        /\ fd' = [fd EXCEPT ![p] = Len(files')]
        /\ UNCHANGED <<path, want, pins, saves, saved, late, raced>>
    BY DEF WriteTemp
  <1>3. PICK lines \in compacted(pins[p]) : files' = Append(files, lines)
    BY DEF WriteTemp
  <1>4. lines \in Seq(Line)
    BY <1>0, ReadCompacted DEF PinTypeOK, Inv, Working
  <1>5. /\ files' \in Seq(Seq(Line)) /\ Len(files') = Len(files) + 1
        /\ files'[Len(files) + 1] = lines /\ \A i \in 1..Len(files) : files'[i] = files[i]
    BY <1>1, <1>3, <1>4, AppendProperties
  <1>6. content' = content
    BY <1>1, <1>2, <1>5 DEF content
  <1>7. \A q \in Proc \ {p} : at'[q] = at[q] /\ fd'[q] = fd[q]
    BY <1>1, <1>2
  <1>8. at'[p] = "rename" /\ fd'[p] = Len(files) + 1
    BY <1>1, <1>2, <1>5
  <1>9. Types'
    <2>1. at' \in [Proc -> {"idle", "open", "append", "compact", "rename"}]
      BY <1>1, <1>2
    <2>2. fd' \in [Proc -> 0..Len(files')]
      BY <1>1, <1>2, <1>5
    <2>3. \A q \in Proc : fd'[q] # 0 <=> at'[q] \in {"append", "rename"}
      BY <1>1, <1>7, <1>8
    <2>4. path' \in 0..Len(files')
      BY <1>1, <1>2, <1>5
    <2> QED
      BY <1>0, <1>2, <1>5, <2>1, <2>2, <2>3, <2>4 DEF Types, PinTypeOK
  <1>10. Working' /\ Fresh' /\ ReadBack' /\ Room'
    BY <1>2, <1>6, <1>7, <1>8, QuietKeeps
  <1>11. Owned'
    <2> SUFFICES ASSUME NEW q \in Proc, at'[q] = "rename"
                 PROVE  /\ fd'[q] # path' /\ \A x \in Proc \ {q} : fd'[x] # fd'[q]
                        /\ files'[fd'[q]] \in compacted(pins'[q])
      BY DEF Owned
    <2>1. CASE q = p
      <3>1. \A x \in Proc \ {p} : fd'[x] \in 0..Len(files)
        BY <1>1, <1>7
      <3>2. fd'[p] # path' /\ \A x \in Proc \ {p} : fd'[x] # fd'[p]
        BY <1>1, <1>2, <1>8, <3>1
      <3> QED
        BY <1>2, <1>3, <1>5, <1>8, <2>1, <3>2
    <2>2. CASE q # p
      <3>1. at[q] = "rename" /\ fd'[q] = fd[q] /\ fd[q] \in 1..Len(files)
        BY <1>1, <1>7, <2>2
      <3>2. fd[q] # path /\ (\A x \in Proc \ {q} : fd[x] # fd[q]) /\ files[fd[q]] \in compacted(pins[q])
        BY <3>1 DEF Inv, Owned
      <3>3. fd'[p] # fd[q]
        BY <1>1, <1>8, <3>1
      <3> QED
        BY <1>2, <1>5, <1>7, <3>1, <3>2, <3>3
    <2> QED
      BY <2>1, <2>2
  <1> QED
    BY <1>9, <1>10, <1>11 DEF Inv

\* savePin begins: with the pins of the file and its own.
LEMMA BeginKeeps ==
  ASSUME Inv, NEW p \in Proc, NEW h \in Host, NEW name \in Names, Begin(p, h, name)
  PROVE  Inv'
  <1> DEFINE read == readPins(content)
             all == with(read, h, name)
  <1>0. PinTypeOK /\ DOMAIN pins = Proc /\ content \in Seq(Line) /\ Len(content) \in Nat
    BY ContentType DEF Inv, Types
  <1>1. /\ at \in [Proc -> {"idle", "open", "append", "compact", "rename"}]
        /\ want \in [Proc -> Line \cup {NoPin}]
        /\ saved \in [Host -> Names \cup {"none"}]
        /\ \A q \in Proc : fd[q] # 0 <=> at[q] \in {"append", "rename"}
    BY <1>0 DEF PinTypeOK
  <1>2. /\ at[p] = "idle" /\ saves < MaxSaves /\ saves' = saves + 1
        /\ want' = [want EXCEPT ![p] = [host |-> h, name |-> name]]
        /\ pins' = [pins EXCEPT ![p] = all]
        /\ UNCHANGED <<files, path, fd, late, raced>>
    BY DEF Begin
  <1>3. \/ at' = at /\ saved' = [saved EXCEPT ![h] = name] /\ h \in DOMAIN read /\ read[h] = name
        \/ at' = [at EXCEPT ![p] = "compact"] /\ saved' = saved
        \/ /\ at' = [at EXCEPT ![p] = "open"] /\ saved' = saved
           /\ ~stale(Len(content), Cardinality(DOMAIN all))
    BY DEF Begin
  <1>4. content' = content
    BY <1>2 DEF content
  <1>5. /\ DOMAIN read \subseteq Host
        /\ \A x \in DOMAIN read : read[x] \in Names \cup {FirstWord} /\ read[x] \notin Spaced
    BY <1>0, ReadTypes
  <1> HIDE DEF read
  <1>6. /\ DOMAIN all = DOMAIN read \cup {h} /\ all[h] = name
        /\ \A x \in DOMAIN read \ {h} : all[x] = read[x]
    BY DEF with
  <1> HIDE DEF all
  <1>7. /\ DOMAIN all \subseteq Host
        /\ \A x \in DOMAIN all : all[x] \in Names \cup {FirstWord}
    BY <1>5, <1>6
  <1>8. /\ pins'[p] = all /\ \A q \in Proc \ {p} : pins'[q] = pins[q]
        /\ DOMAIN pins' = Proc
    BY <1>0, <1>2
  <1>9. /\ want'[p] = [host |-> h, name |-> name]
        /\ \A q \in Proc \ {p} : want'[q] = want[q] /\ at'[q] = at[q]
        /\ at'[p] \in {"idle", "compact", "open"}
    BY <1>1, <1>2, <1>3
  <1>10. Types'
    <2>1. at' \in [Proc -> {"idle", "open", "append", "compact", "rename"}]
      BY <1>1, <1>3
    <2>2. want' \in [Proc -> Line \cup {NoPin}]
      <3>1. [host |-> h, name |-> name] \in Line
        BY DEF Line
      <3> QED
        BY <1>1, <1>2, <3>1
    <2>3. saved' \in [Host -> Names \cup {"none"}]
      BY <1>1, <1>3
    <2>4. \A q \in Proc : DOMAIN pins'[q] \subseteq Host
      BY <1>0, <1>7, <1>8 DEF PinTypeOK
    <2>5. \A q \in Proc : fd'[q] # 0 <=> at'[q] \in {"append", "rename"}
      BY <1>1, <1>2, <1>9
    <2>6. saves' \in 0..MaxSaves
      BY <1>0, <1>2, PinAssumption DEF PinTypeOK
    <2> QED
      BY <1>0, <1>2, <1>8, <2>1, <2>2, <2>3, <2>4, <2>5, <2>6 DEF Types, PinTypeOK
  <1>11. Working'
    <2>1. [host |-> h, name |-> name] \in Pin
      BY DEF Pin
    <2> QED
      BY <1>6, <1>7, <1>8, <1>9, <2>1 DEF Inv, Working
  <1>12. Owned'
    BY <1>2, <1>8, <1>9 DEF Inv, Owned
  <1>13. Fresh'
    <2> SUFFICES ASSUME NEW q \in Proc, at'[q] \in {"compact", "rename"}, q \notin late'
                 PROVE  Agree(pins'[q], readPins(content'), want'[q].host)
      BY DEF Fresh
    <2>1. CASE q = p
      <3>1. want'[q].host = h /\ pins'[q] = all /\ readPins(content') = read
        BY <1>4, <1>8, <1>9, <2>1 DEF read
      <3> QED
        BY <1>6, <3>1 DEF Agree
    <2>2. CASE q # p
      <3>1. Agree(pins[q], readPins(content), want[q].host)
        BY <1>2, <1>9, <2>2 DEF Inv, Fresh
      <3> QED
        BY <1>4, <1>8, <1>9, <2>2, <3>1
    <2> QED
      BY <2>1, <2>2
  <1>14. ReadBack'
    <2> SUFFICES ASSUME ~raced, NEW x \in Host, saved'[x] # "none"
                 PROVE  x \in DOMAIN read /\ read[x] = field(saved'[x])
      BY <1>2, <1>4 DEF ReadBack, read
    <2>1. saved[x] # "none" => x \in DOMAIN read /\ read[x] = field(saved[x])
      BY DEF Inv, ReadBack, read
    <2>2. CASE saved' = saved
      BY <2>1, <2>2
    <2>3. CASE saved' = [saved EXCEPT ![h] = name] /\ h \in DOMAIN read /\ read[h] = name
      <3>1. CASE x = h
        BY <1>1, <1>5, <2>3, <3>1 DEF field
      <3>2. CASE x # h
        BY <1>1, <2>1, <2>3, <3>2
      <3> QED
        BY <3>1, <3>2
    <2> QED
      BY <1>3, <2>2, <2>3
  <1>15. Room'
    <2>0. Cardinality(Host) \in Nat
      BY PinAssumption, FS_CardinalityType
    <2>1. CASE at'[p] = "open"
      <3>1. at' = [at EXCEPT ![p] = "open"] /\ ~stale(Len(content), Cardinality(DOMAIN all))
        BY <1>1, <1>2, <1>3, <2>1
      <3>2. Cardinality(DOMAIN all) <= Cardinality(Host) /\ Cardinality(DOMAIN all) \in Nat
        BY <1>7, PinAssumption, FS_Subset, FS_CardinalityType
      <3>3. Len(content) <= 2 * Cardinality(Host) - 1
        BY <1>0, <2>0, <3>1, <3>2 DEF stale
      <3>4. PICK A : A = Appending'
        OBVIOUS
      <3>5. A \subseteq Proc
        BY <3>4 DEF Appending
      <3>6. Cardinality(A) \in Nat /\ Cardinality(Proc) \in Nat /\ Cardinality(A) <= Cardinality(Proc)
        BY <3>5, PinAssumption, FS_Subset, FS_CardinalityType
      <3>7. Len(content) + Cardinality(A) <= 2 * Cardinality(Host) + Cardinality(Proc) - 1
        BY <1>0, <2>0, <3>3, <3>6
      <3> QED
        BY <1>4, <3>4, <3>7 DEF Room
    <2>2. CASE at'[p] # "open"
      <3>1. Appending' = Appending
        BY <1>2, <1>9, <2>2 DEF Appending
      <3> QED
        BY <1>4, <3>1 DEF Inv, Room
    <2> QED
      BY <2>1, <2>2
  <1> QED
    BY <1>10, <1>11, <1>12, <1>13, <1>14, <1>15 DEF Inv

\* What AppendLine and Rename have in common: the save is done, and whoever is
\* compacting is late.
LEMMA DoneKeeps ==
  ASSUME Inv, NEW p \in Proc, at[p] # "idle", Done(p), UNCHANGED <<want, pins, saves>>,
         files' \in Seq(Seq(Line)), Len(files') = Len(files), path' \in 0..Len(files'),
         raced' \in BOOLEAN
  PROVE  /\ Types' /\ Working' /\ Fresh'
         /\ at'[p] = "idle" /\ fd'[p] = 0 /\ want[p] \in Pin /\ want[p].host \in Host
         /\ saved'[want[p].host] = want[p].name
         /\ \A h \in Host \ {want[p].host} : saved'[h] = saved[h]
         /\ \A q \in Proc \ {p} : at'[q] = at[q] /\ fd'[q] = fd[q]
  <1>0. PinTypeOK /\ DOMAIN pins = Proc
    BY DEF Inv, Types
  <1>1. /\ at \in [Proc -> {"idle", "open", "append", "compact", "rename"}]
        /\ fd \in [Proc -> 0..Len(files)]
        /\ saved \in [Host -> Names \cup {"none"}]
        /\ \A q \in Proc : fd[q] # 0 <=> at[q] \in {"append", "rename"}
        /\ Len(files) \in Nat
    BY <1>0 DEF PinTypeOK
  <1>2. want[p] \in Pin
    BY DEF Inv, Working
  <1>3. want[p].host \in Host /\ want[p].name \in Names
    BY <1>2 DEF Pin
  <1>4. /\ at' = [at EXCEPT ![p] = "idle"] /\ fd' = [fd EXCEPT ![p] = 0]
        /\ saved' = [saved EXCEPT ![want[p].host] = want[p].name]
        /\ late' = {q \in Proc \ {p} : at[q] \in {"compact", "rename"}}
    BY DEF Done
  <1>5. \A q \in Proc \ {p} : at'[q] = at[q] /\ fd'[q] = fd[q]
    BY <1>1, <1>4
  <1>6. at'[p] = "idle" /\ fd'[p] = 0
    BY <1>1, <1>4
  <1>7. Types'
    <2>1. at' \in [Proc -> {"idle", "open", "append", "compact", "rename"}]
      BY <1>1, <1>4
    <2>2. fd' \in [Proc -> 0..Len(files')]
      BY <1>1, <1>4
    <2>3. \A q \in Proc : fd'[q] # 0 <=> at'[q] \in {"append", "rename"}
      BY <1>1, <1>5, <1>6
    <2>4. saved' \in [Host -> Names \cup {"none"}]
      BY <1>1, <1>3, <1>4
    <2>5. late' \subseteq Proc
      BY <1>4
    <2> QED
      BY <1>0, <2>1, <2>2, <2>3, <2>4, <2>5 DEF Types, PinTypeOK
  <1>8. Working'
    BY <1>5, <1>6 DEF Inv, Working
  <1>9. Fresh'
    BY <1>4, <1>5, <1>6 DEF Fresh
  <1>10. /\ saved'[want[p].host] = want[p].name
         /\ \A h \in Host \ {want[p].host} : saved'[h] = saved[h]
    BY <1>1, <1>3, <1>4
  <1> QED
    BY <1>2, <1>3, <1>5, <1>6, <1>7, <1>8, <1>9, <1>10

LEMMA AppendKeeps ==
  ASSUME Inv, NEW p \in Proc, AppendLine(p)
  PROVE  Inv'
  <1>0. PinTypeOK /\ content \in Seq(Line) /\ Len(content) \in Nat
    BY ContentType DEF Inv, Types
  <1>1. /\ files \in Seq(Seq(Line)) /\ Len(files) \in Nat /\ path \in 0..Len(files)
        /\ fd \in [Proc -> 0..Len(files)]
        /\ \A q \in Proc : fd[q] # 0 <=> at[q] \in {"append", "rename"}
    BY <1>0 DEF PinTypeOK
  <1>2. /\ at[p] = "append" /\ Done(p) /\ UNCHANGED <<path, want, pins, saves>>
        /\ files' = [files EXCEPT ![fd[p]] = Append(files[fd[p]], want[p])]
        /\ raced' = (raced \/ fd[p] # path)
    BY DEF AppendLine
  <1>3. fd[p] \in 1..Len(files)
    BY <1>1, <1>2
  <1>4. want[p] \in Line
    <2>1. want[p] \in Pin
      BY <1>2 DEF Inv, Working
    <2> QED
      BY <2>1 DEF Pin, Line
  <1>5. files[fd[p]] \in Seq(Line) /\ Append(files[fd[p]], want[p]) \in Seq(Line)
    BY <1>1, <1>3, <1>4, ElementOfSeq, AppendProperties
  <1>6. /\ files' \in Seq(Seq(Line)) /\ Len(files') = Len(files)
        /\ files'[fd[p]] = Append(files[fd[p]], want[p])
        /\ \A i \in 1..Len(files) : i # fd[p] => files'[i] = files[i]
    BY <1>1, <1>2, <1>3, <1>5, ExceptSeq
  <1>7. raced' \in BOOLEAN
    BY <1>2
  <1>8. /\ Types' /\ Working' /\ Fresh'
        /\ at'[p] = "idle" /\ fd'[p] = 0 /\ want[p] \in Pin /\ want[p].host \in Host
        /\ saved'[want[p].host] = want[p].name
        /\ \A h \in Host \ {want[p].host} : saved'[h] = saved[h]
        /\ \A q \in Proc \ {p} : at'[q] = at[q] /\ fd'[q] = fd[q]
    <2>1. path' \in 0..Len(files') /\ at[p] # "idle"
      BY <1>1, <1>2, <1>6
    <2>2. Done(p) /\ UNCHANGED <<want, pins, saves>>
      BY <1>2
    <2> QED
      BY <1>6, <1>7, <2>1, <2>2, DoneKeeps
  <1>9. fd[p] = path => content' = Append(content, want[p])
    BY <1>2, <1>3, <1>6 DEF content
  <1>10. fd[p] # path => content' = content
    BY <1>1, <1>2, <1>6 DEF content
  <1>11. Owned'
    <2> SUFFICES ASSUME NEW q \in Proc, at'[q] = "rename"
                 PROVE  /\ fd'[q] # path' /\ \A x \in Proc \ {q} : fd'[x] # fd'[q]
                        /\ files'[fd'[q]] \in compacted(pins'[q])
      BY DEF Owned
    <2>1. q # p /\ at[q] = "rename" /\ fd'[q] = fd[q] /\ fd[q] \in 1..Len(files)
      BY <1>1, <1>8
    <2>2. fd[q] # path /\ (\A x \in Proc \ {q} : fd[x] # fd[q]) /\ files[fd[q]] \in compacted(pins[q])
      BY <2>1 DEF Inv, Owned
    <2>3. files'[fd[q]] = files[fd[q]] /\ fd[q] # 0
      BY <1>6, <2>1, <2>2
    <2> QED
      BY <1>2, <1>8, <2>1, <2>2, <2>3
  <1>12. ReadBack'
    <2> SUFFICES ASSUME ~raced', NEW h \in Host, saved'[h] # "none"
                 PROVE  h \in DOMAIN readPins(content') /\ readPins(content')[h] = field(saved'[h])
      BY DEF ReadBack
    <2>1. ~raced /\ fd[p] = path
      BY <1>2
    <2>2. /\ DOMAIN readPins(content') = DOMAIN readPins(content) \cup {want[p].host}
          /\ readPins(content')[want[p].host] = field(want[p].name)
          /\ \A x \in DOMAIN readPins(content) \ {want[p].host} :
                readPins(content')[x] = readPins(content)[x]
      <3>1. PICK lines \in Seq(Line) : lines = content
        BY <1>0
      <3>2. PICK l \in Line : l = want[p]
        BY <1>4
      <3>3. content' = Append(lines, l)
        BY <1>9, <2>1, <3>1, <3>2
      <3>4. /\ DOMAIN readPins(content') = DOMAIN readPins(lines) \cup {l.host}
            /\ readPins(content')[l.host] = field(l.name)
            /\ \A x \in DOMAIN readPins(lines) \ {l.host} :
                  readPins(content')[x] = readPins(lines)[x]
        BY <3>3, ReadAppend
      <3> QED
        BY <3>1, <3>2, <3>4
    <2>3. CASE h = want[p].host
      BY <1>8, <2>2, <2>3
    <2>4. CASE h # want[p].host
      <3>1. saved'[h] = saved[h]
        BY <1>8, <2>4
      <3>2. h \in DOMAIN readPins(content) /\ readPins(content)[h] = field(saved[h])
        BY <2>1, <3>1 DEF Inv, ReadBack
      <3> QED
        BY <2>2, <2>4, <3>1, <3>2
    <2> QED
      BY <2>3, <2>4
  <1>13. Room'
    <2>1. PICK A : A = Appending'
      OBVIOUS
    <2>2. A = Appending \ {p} /\ p \in Appending
      BY <1>2, <1>8, <2>1 DEF Appending
    <2>3. Cardinality(A) = Cardinality(Appending) - 1
      BY <2>2, AppendingFinite, FS_RemoveElement
    <2>4. Len(content') <= Len(content) + 1 /\ Len(content') \in Nat
      BY <1>0, <1>4, <1>9, <1>10, AppendProperties
    <2>5. Cardinality(Host) \in Nat
      BY PinAssumption, FS_CardinalityType
    <2>6. Len(content') + Cardinality(A) <= 2 * Cardinality(Host) + Cardinality(Proc) - 1
      BY <1>0, <2>3, <2>4, <2>5, AppendingFinite DEF Inv, Room
    <2> QED
      BY <2>1, <2>6 DEF Room
  <1> QED
    BY <1>8, <1>11, <1>12, <1>13 DEF Inv

LEMMA RenameKeeps ==
  ASSUME Inv, NEW p \in Proc, Rename(p)
  PROVE  Inv'
  <1>0. PinTypeOK /\ content \in Seq(Line)
    BY ContentType DEF Inv, Types
  <1>1. /\ files \in Seq(Seq(Line)) /\ Len(files) \in Nat /\ path \in 0..Len(files)
        /\ fd \in [Proc -> 0..Len(files)] /\ DOMAIN pins[p] \subseteq Host
        /\ \A q \in Proc : fd[q] # 0 <=> at[q] \in {"append", "rename"}
    BY <1>0 DEF PinTypeOK
  <1>2. /\ at[p] = "rename" /\ Done(p) /\ UNCHANGED <<files, want, pins, saves>>
        /\ path' = fd[p] /\ raced' = (raced \/ p \in late)
    BY DEF Rename
  <1>3. raced' \in BOOLEAN /\ fd[p] \in 1..Len(files)
    BY <1>1, <1>2
  <1>4. /\ Types' /\ Working' /\ Fresh'
        /\ at'[p] = "idle" /\ fd'[p] = 0 /\ want[p] \in Pin /\ want[p].host \in Host
        /\ saved'[want[p].host] = want[p].name
        /\ \A h \in Host \ {want[p].host} : saved'[h] = saved[h]
        /\ \A q \in Proc \ {p} : at'[q] = at[q] /\ fd'[q] = fd[q]
    <2>1. path' \in 0..Len(files') /\ at[p] # "idle" /\ files' \in Seq(Seq(Line))
          /\ Len(files') = Len(files)
      BY <1>1, <1>2, <1>3
    <2>2. Done(p) /\ UNCHANGED <<want, pins, saves>>
      BY <1>2
    <2> QED
      BY <1>3, <2>1, <2>2, DoneKeeps
  <1>5. content' = files[fd[p]] /\ files[fd[p]] \in compacted(pins[p])
    BY <1>2, <1>3 DEF content, Inv, Owned
  <1>6. /\ Len(content') <= Cardinality(Host) /\ content' \in Seq(Line)
        /\ DOMAIN readPins(content') = DOMAIN pins[p]
        /\ \A h \in DOMAIN pins[p] : readPins(content')[h] = field(pins[p][h])
    <2>1. \A h \in DOMAIN pins[p] : pins[p][h] \in Names \cup {FirstWord}
      BY DEF Inv, Working
    <2> QED
      BY <1>1, <1>5, <2>1, ReadCompacted
  <1>7. Owned'
    <2> SUFFICES ASSUME NEW q \in Proc, at'[q] = "rename"
                 PROVE  /\ fd'[q] # path' /\ \A x \in Proc \ {q} : fd'[x] # fd'[q]
                        /\ files'[fd'[q]] \in compacted(pins'[q])
      BY DEF Owned
    <2>1. q # p /\ at[q] = "rename" /\ fd'[q] = fd[q] /\ fd[q] # 0
      BY <1>1, <1>4
    <2>2. (\A x \in Proc \ {q} : fd[x] # fd[q]) /\ files[fd[q]] \in compacted(pins[q])
      BY <2>1 DEF Inv, Owned
    <2> QED
      BY <1>2, <1>4, <2>1, <2>2
  <1>8. ReadBack'
    <2> SUFFICES ASSUME ~raced', NEW h \in Host, saved'[h] # "none"
                 PROVE  h \in DOMAIN readPins(content') /\ readPins(content')[h] = field(saved'[h])
      BY DEF ReadBack
    <2>1. ~raced /\ p \notin late
      BY <1>2
    <2>2. CASE h = want[p].host
      <3>1. h \in DOMAIN pins[p] /\ pins[p][h] = want[p].name
        BY <1>2, <2>2 DEF Inv, Working
      <3> QED
        BY <1>4, <1>6, <2>2, <3>1
    <2>3. CASE h # want[p].host
      <3>1. saved'[h] = saved[h]
        BY <1>4, <2>3
      <3>2. h \in DOMAIN readPins(content) /\ readPins(content)[h] = field(saved[h])
        BY <2>1, <3>1 DEF Inv, ReadBack
      <3>3. Agree(pins[p], readPins(content), want[p].host)
        BY <1>2, <2>1 DEF Inv, Fresh
      <3>4. h \in DOMAIN pins[p] /\ pins[p][h] = readPins(content)[h]
        BY <2>3, <3>2, <3>3 DEF Agree
      <3>5. readPins(content)[h] \notin Spaced
        BY <1>0, <3>2, ReadTypes
      <3> QED
        BY <1>6, <3>1, <3>2, <3>4, <3>5 DEF field
    <2> QED
      BY <2>2, <2>3
  <1>9. Room'
    <2>1. PICK A : A = Appending'
      OBVIOUS
    <2>2. A \subseteq Proc \ {p}
      BY <1>4, <2>1 DEF Appending
    <2>3. /\ IsFiniteSet(Proc \ {p}) /\ Cardinality(Proc \ {p}) = Cardinality(Proc) - 1
          /\ Cardinality(Proc) \in Nat
      BY PinAssumption, FS_RemoveElement, FS_CardinalityType
    <2>4. Cardinality(A) \in Nat /\ Cardinality(A) <= Cardinality(Proc) - 1
      BY <2>2, <2>3, FS_Subset, FS_CardinalityType
    <2>5. Cardinality(Host) \in Nat /\ Len(content') \in Nat
      BY <1>6, PinAssumption, FS_CardinalityType
    <2>6. Len(content') + Cardinality(A) <= 2 * Cardinality(Host) + Cardinality(Proc) - 1
      BY <1>6, <2>3, <2>4, <2>5
    <2> QED
      BY <2>1, <2>6 DEF Room
  <1> QED
    BY <1>4, <1>7, <1>8, <1>9 DEF Inv

LEMMA InvInit == Init => Inv
  <1> SUFFICES ASSUME Init PROVE Inv
    OBVIOUS
  <1>1. /\ files = << >> /\ path = 0 /\ content = << >>
        /\ \A p \in Proc : at[p] = "idle" /\ want[p] = NoPin /\ fd[p] = 0 /\ DOMAIN pins[p] = {}
    BY DEF Init, content
  <1>2. Types
    <2>1. files \in Seq(Seq(Line)) /\ path \in 0..Len(files) /\ 0 \in 0..Len(files)
      BY <1>1
    <2>2. at \in [Proc -> {"idle", "open", "append", "compact", "rename"}]
          /\ want \in [Proc -> Line \cup {NoPin}] /\ saved \in [Host -> Names \cup {"none"}]
      BY DEF Init
    <2>3. fd \in [Proc -> 0..Len(files)]
      BY <2>1 DEF Init
    <2>4. saves \in 0..MaxSaves
      BY PinAssumption DEF Init
    <2>5. late \subseteq Proc /\ DOMAIN pins = Proc
      BY DEF Init
    <2>6. raced \in BOOLEAN
      BY DEF Init
    <2> QED
      BY <1>1, <2>1, <2>2, <2>3, <2>4, <2>5, <2>6 DEF Types, PinTypeOK
  <1>3. Working /\ Owned /\ Fresh
    BY <1>1 DEF Working, Owned, Fresh
  <1>4. ReadBack
    BY DEF Init, ReadBack
  <1>5. Room
    <2>1. Appending = {}
      BY <1>1 DEF Appending
    <2>2. Cardinality(Appending) = 0
      BY <2>1, FS_EmptySet
    <2>3. Cardinality(Host) \in Nat /\ Cardinality(Proc) \in Nat /\ Cardinality(Proc) # 0
      BY PinAssumption, FS_CardinalityType, FS_EmptySet
    <2> QED
      BY <1>1, <2>2, <2>3 DEF Room
  <1> QED
    BY <1>2, <1>3, <1>4, <1>5 DEF Inv

LEMMA InvStep == Inv /\ [Next]_vars => Inv'
  <1> SUFFICES ASSUME Inv, [Next]_vars PROVE Inv'
    OBVIOUS
  <1>1. CASE UNCHANGED vars
    <2>1. UNCHANGED <<files, path, at, want, pins, fd, saves, saved, late, raced>>
      BY <1>1 DEF vars
    <2> QED
      BY <2>1 DEF Inv, Types, PinTypeOK, Working, Owned, Fresh, ReadBack, Room, Appending, content
  <1>2. CASE Next
    BY <1>1, <1>2, BeginKeeps, OpenKeeps, AppendKeeps, WriteTempKeeps, RenameKeeps, FailKeeps
    DEF Next, Exhausted
  <1> QED
    BY <1>1, <1>2

LEMMA Invariance == Spec => []Inv
  BY InvInit, InvStep, PTL DEF Spec

-----------------------------------------------------------------------------
(***************************************************************************)
(* The types of the pin cache, of the files it leaves behind and of every  *)
(* savePin under way: in particular a process has a file open exactly when *)
(* it is about to append to it or to rename it (savePin, writePins).       *)
(***************************************************************************)
THEOREM PinTypeCorrect == Spec => []PinTypeOK
  <1>1. Inv => PinTypeOK
    BY DEF Inv, Types
  <1> QED
    BY <1>1, Invariance, PTL

(***************************************************************************)
(* readPins returns what the last successful savePin of a host stored, up  *)
(* to the first word of the hostname, however many processes save however  *)
(* many pins without a lock and die anywhere in between; the one exception *)
(* is a compaction that crosses another save (savePin, readPins).          *)
(***************************************************************************)
THEOREM PinsReadBack == Spec => []ReadBack
  <1>1. Inv => ReadBack
    BY DEF Inv
  <1> QED
    BY <1>1, Invariance, PTL

(***************************************************************************)
(* known_hosts never has more than two lines a host and one more for every *)
(* process but one that runs at the same time, although each process       *)
(* decides whether to compact from a reading the others may have made      *)
(* stale (savePin).                                                        *)
(***************************************************************************)
THEOREM HistoryBounded == Spec => []BoundedHistory
  <1>1. Inv => BoundedHistory
    <2> SUFFICES ASSUME Inv PROVE BoundedHistory
      OBVIOUS
    <2>1. Len(content) \in Nat /\ Cardinality(Host) \in Nat
      BY ContentType, PinAssumption, FS_CardinalityType DEF Inv, Types
    <2> QED
      BY <2>1, AppendingFinite DEF Inv, Room, BoundedHistory
  <1> QED
    BY <1>1, Invariance, PTL
=============================================================================
