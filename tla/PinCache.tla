------------------------------ MODULE PinCache ------------------------------
(***************************************************************************)
(* The pin cache (pins.go): one known_hosts file, read and written by      *)
(* every running `tp get`, with no lock.  savePin reads the file, then     *)
(* appends a line or, when duplicates outweigh live entries, replaces the  *)
(* file by a compacted one.  A step is one system call: other processes    *)
(* run, and a process may die, between any two.                            *)
(*                                                                         *)
(* A host's SPKI is fixed by its host ID, so a pin is told apart by its    *)
(* host and its hostname.  Lines are split at white space when they are    *)
(* read, so a hostname in Spaced reads back as its first word.             *)
(***************************************************************************)
EXTENDS Integers, Sequences, FiniteSets

CONSTANTS
    Proc,       \* processes that save pins
    Host,       \* host IDs
    Name,       \* hostnames without white space
    Spaced,     \* hostnames of several words
    MaxSaves    \* bound: calls of savePin

ASSUME PinAssumption ==
    /\ IsFiniteSet(Proc) /\ Proc # {} /\ IsFiniteSet(Host)
    /\ MaxSaves \in Nat

VARIABLES
    files,      \* every file ever created in the data directory, by inode
    path,       \* the inode known_hosts names, 0 if there is none
    at,         \* where each process is in savePin
    want,       \* the pin it was asked to save
    pins,       \* the pins it read, with its own
    fd,         \* the inode it has open
    saves,      \* how often savePin has been called
    saved,      \* history: the hostname of the last successful savePin for a host
    late,       \* history: compactors whose reading of the file is out of date
    raced       \* history: whether a compaction crossed another save

vars == <<files, path, at, want, pins, fd, saves, saved, late, raced>>

FirstWord == "first word"

\* A word has no white space.
ASSUME WordAssumption == FirstWord \notin Spaced

Names == Name \cup Spaced

Line == [host : Host, name : Names \cup {FirstWord}]

NoPin == [host |-> "none", name |-> "none"]

\* strings.Fields: all of a line's name that is read back.
field(name) == IF name \in Spaced THEN FirstWord ELSE name

\* Mutant: an earlier line of a host wins.
FirstLineWins(lines) ==
    [h \in {lines[i].host : i \in DOMAIN lines} |->
        LET first == CHOOSE i \in DOMAIN lines :
                        lines[i].host = h /\ \A j \in 1..(i - 1) : lines[j].host # h
        IN  field(lines[first].name)]

\* The pins a file's lines stand for: a later line of a host wins.
readPins(lines) ==
    [h \in {lines[i].host : i \in DOMAIN lines} |->
        LET last == CHOOSE i \in DOMAIN lines :
                        lines[i].host = h /\ \A j \in (i + 1)..Len(lines) : lines[j].host # h
        IN  field(lines[last].name)]

content == IF path = 0 THEN <<>> ELSE files[path]

PinTypeOK ==
    /\ files \in Seq(Seq(Line))
    /\ path \in 0..Len(files)
    /\ at \in [Proc -> {"idle", "open", "append", "compact", "rename"}]
    /\ want \in [Proc -> Line \cup {NoPin}]
    /\ \A p \in Proc : DOMAIN pins[p] \subseteq Host
    /\ fd \in [Proc -> 0..Len(files)]
    /\ \A p \in Proc : fd[p] # 0 <=> at[p] \in {"append", "rename"}
    /\ saves \in 0..MaxSaves
    /\ saved \in [Host -> Names \cup {"none"}]
    /\ late \subseteq Proc
    /\ raced \in BOOLEAN

Init ==
    /\ files = <<>>
    /\ path = 0
    /\ at = [p \in Proc |-> "idle"]
    /\ want = [p \in Proc |-> NoPin]
    /\ pins = [p \in Proc |-> [h \in {} |-> FirstWord]]
    /\ fd = [p \in Proc |-> 0]
    /\ saves = 0
    /\ saved = [h \in Host |-> "none"]
    /\ late = {}
    /\ raced = FALSE

-----------------------------------------------------------------------------
with(read, h, name) ==
    [x \in DOMAIN read \cup {h} |-> IF x = h THEN name ELSE read[x]]

\* Mutant: compacts only when the file is far too long.
StaleTwice(lines, live) == lines >= 4 * live

\* Whether stale history outweighs live entries.
stale(lines, live) == lines >= 2 * live

Done(p) ==
    /\ at' = [at EXCEPT ![p] = "idle"]
    /\ fd' = [fd EXCEPT ![p] = 0]
    /\ saved' = [saved EXCEPT ![want[p].host] = want[p].name]
    /\ late' = {q \in Proc \ {p} : at[q] \in {"compact", "rename"}}

\* savePin begins: it reads the file and decides what to do.
Begin(p, h, name) ==
    /\ at[p] = "idle" /\ saves < MaxSaves
    /\ saves' = saves + 1
    /\ want' = [want EXCEPT ![p] = [host |-> h, name |-> name]]
    /\ LET read == readPins(content)
           all  == with(read, h, name)
       IN  /\ pins' = [pins EXCEPT ![p] = all]
           /\ IF h \in DOMAIN read /\ read[h] = name
              THEN UNCHANGED at /\ saved' = [saved EXCEPT ![h] = name]
              ELSE /\ at' = [at EXCEPT ![p] = IF stale(Len(content), Cardinality(DOMAIN all))
                                              THEN "compact" ELSE "open"]
                   /\ UNCHANGED saved
    /\ UNCHANGED <<files, path, fd, late, raced>>

\* Mutant: opens without O_CREATE.
OpenExisting(p) ==
    /\ at[p] = "open"
    /\ at' = [at EXCEPT ![p] = "append"]
    /\ fd' = [fd EXCEPT ![p] = path]
    /\ UNCHANGED <<files, path, want, pins, saves, saved, late, raced>>

\* OpenFile with O_APPEND and O_CREATE.
Open(p) ==
    /\ at[p] = "open"
    /\ at' = [at EXCEPT ![p] = "append"]
    /\ IF path = 0
       THEN /\ files' = Append(files, <<>>)
            /\ path' = Len(files')
       ELSE UNCHANGED <<files, path>>
    /\ fd' = [fd EXCEPT ![p] = path']
    /\ UNCHANGED <<want, pins, saves, saved, late, raced>>

\* One write at the end of the open file, whatever known_hosts names by now.
AppendLine(p) ==
    /\ at[p] = "append"
    /\ files' = [files EXCEPT ![fd[p]] = Append(@, want[p])]
    /\ raced' = (raced \/ fd[p] # path)
    /\ Done(p)
    /\ UNCHANGED <<path, want, pins, saves>>

\* The lines of writePins, in the order of a Go map: any.
compacted(all) ==
    LET n == Cardinality(DOMAIN all)
    IN  {[i \in 1..n |-> [host |-> s[i], name |-> all[s[i]]]] :
            s \in {t \in [1..n -> DOMAIN all] : \A i, j \in 1..n : t[i] = t[j] => i = j}}

\* writePins fills a temporary file of its own ...
WriteTemp(p) ==
    /\ at[p] = "compact"
    /\ \E lines \in compacted(pins[p]) : files' = Append(files, lines)
    /\ fd' = [fd EXCEPT ![p] = Len(files')]
    /\ at' = [at EXCEPT ![p] = "rename"]
    /\ UNCHANGED <<path, want, pins, saves, saved, late, raced>>

\* ... and puts it in the place of known_hosts.
Rename(p) ==
    /\ at[p] = "rename"
    /\ path' = fd[p]
    /\ raced' = (raced \/ p \in late)
    /\ Done(p)
    /\ UNCHANGED <<files, want, pins, saves>>

\* A system call fails, or the process ends: another candidate's paste has been
\* printed, or the user interrupted tp get.
Fail(p) ==
    /\ at[p] # "idle"
    /\ at' = [at EXCEPT ![p] = "idle"]
    /\ fd' = [fd EXCEPT ![p] = 0]
    /\ late' = late \ {p}
    /\ UNCHANGED <<files, path, want, pins, saves, saved, raced>>

\* The model's calls of savePin are used up.
Exhausted == saves = MaxSaves /\ (\A p \in Proc : at[p] = "idle") /\ UNCHANGED vars

Next ==
    \/ \E p \in Proc, h \in Host, name \in Names : Begin(p, h, name)
    \/ \E p \in Proc : Open(p) \/ AppendLine(p) \/ WriteTemp(p) \/ Rename(p) \/ Fail(p)
    \/ Exhausted

Spec == Init /\ [][Next]_vars

-----------------------------------------------------------------------------
(***************************************************************************)
(* readPins returns what the last successful savePin of a host stored, up  *)
(* to the first word of the hostname: through duplicates, appends that     *)
(* interleave, compactions and saves that died half way, and but for the   *)
(* one race in which a compaction crosses another save (savePin, readPins, *)
(* writePins).                                                             *)
(***************************************************************************)
ReadBack ==
    ~raced => \A h \in Host : saved[h] # "none" =>
        h \in DOMAIN readPins(content) /\ readPins(content)[h] = field(saved[h])

(***************************************************************************)
(* Compaction keeps the file within twice the number of hosts, but for one *)
(* line per process that decided to append at the same moment (savePin).   *)
(***************************************************************************)
BoundedHistory == Len(content) <= 2 * Cardinality(Host) + Cardinality(Proc) - 1
=============================================================================
