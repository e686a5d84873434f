----------------------------- MODULE Discovery -----------------------------
(***************************************************************************)
(* Discovery (mdns.go), the interface filter (interfaces.go) and the       *)
(* daemon's netLoop: machines announce themselves by multicast, keep a     *)
(* table of the peers they hear, and follow their interfaces from one LAN  *)
(* to another.  Packets are lost, duplicated and handled late; machines    *)
(* move, lose interfaces, stop and crash.                                  *)
(*                                                                         *)
(* A tick of the model's clock is some minutes, a fraction of              *)
(* announceInterval.  What the code does every few seconds (the sweep of   *)
(* the table, netLoop's look at the interfaces, browseLoop, a delayed      *)
(* answer, a packet on its way) happens at some moment of each tick: the   *)
(* clock waits for it.  Times are kept as ages, so behaviours go on for    *)
(* ever; what is bounded is the number of disturbances.                    *)
(***************************************************************************)
EXTENDS Integers, FiniteSets, Functions

CONSTANTS
    Host,           \* machines, one daemon each
    Watched,        \* those whose tables, and questions to others, are followed
    Iface,          \* names of usable interfaces
    Lan,            \* networks
    Home,           \* the one the machines are on at first ...
    Plugged,        \* ... with these interfaces
    Ip(_),          \* the IP address of an interface on a network; they may repeat
    Bursts,         \* the length of startupBurst
    AnnounceMin,    \* announceInterval less its jitter, in ticks
    AnnounceMax,    \* announceInterval and its jitter, in ticks
    PeerLifetime,   \* peerLifetime, in ticks
    MaxFaults       \* bound: disturbances in a behaviour

ASSUME DiscoveryAssumption ==
    /\ IsFiniteSet(Host) /\ IsFiniteSet(Iface)
    /\ Watched \subseteq Host /\ Home \in Lan /\ Plugged \subseteq Iface
    /\ {Bursts, AnnounceMin, AnnounceMax} \subseteq Nat \ {0}
    /\ MaxFaults \in Nat
    /\ AnnounceMin <= AnnounceMax

\* jitter keeps two announcements within a lifetime (2 * 12.5 min <= 25 min).
ASSUME LifetimeAssumption ==
    PeerLifetime \in Nat /\ 2 * AnnounceMax <= PeerLifetime

VARIABLES
    os,         \* each machine's interfaces, which the daemon does not control
    d,          \* each machine's daemon
    peers,      \* each daemon's peerTable.m
    packets,    \* received by a machine's socket, not yet handled
    faults,     \* disturbances so far
    \* Observers
    missed,     \* announcements of a peer lost since the last one heard
    replaced,   \* an interface took another's place behind netFilter's back
    gone        \* ticks since a machine was last up at an address

observers == <<missed, replaced, gone>>
vars == <<os, d, peers, packets, faults, observers>>

NoAddr == "no address"
Removed == "removed"

ASSUME LanAssumption == Lan \cap {NoAddr, Removed} = {}

\* An address is told apart by interface and LAN.
Addr == Iface \X Lan

\* The age at which sweep removes an entry, and the most the observers count to.
Stale == PeerLifetime + 1
Unclaimed == 2

\* lan: where an interface has an address, if it has.  member: the interfaces on
\* which the daemon's socket is in the mDNS group.
Machine == [lan : [Iface -> Lan \cup {NoAddr, Removed}], member : SUBSET Iface]

\* addrs: netFilter.ifaces, each with its address of then; fresh: those of them that
\* are still the device the filter recorded.  joined: responder.joined.  left:
\* the startup bursts still owed.  since: ticks since announceLoop's latest
\* announcement.  browsed: browseLoop has asked in this tick.  pending:
\* answerPending.  net: where netLoop is.
Daemon == [run     : {"down", "up", "mute", "closing", "panicked"},
           addrs   : SUBSET Addr,
           fresh   : SUBSET Iface,
           joined  : SUBSET Iface,
           left    : 0..Bursts,
           since   : 0..AnnounceMax,
           browsed : BOOLEAN,
           pending : BOOLEAN,
           net     : {"wait", "clear", "notify"}]

Entry == [addr : Addr, age : Nat]

Packet == [kind : {"records", "goodbye", "query"}, from : Host, to : Host,
           addrs : SUBSET Addr]

DiscoveryTypeOK ==
    /\ os \in [Host -> Machine]
    /\ d \in [Host -> Daemon]
    /\ DOMAIN peers = Host
    /\ \A h \in Host : DOMAIN peers[h] \subseteq Host \ {h} /\ Range(peers[h]) \subseteq Entry
    /\ packets \subseteq Packet
    /\ faults \in 0..MaxFaults
    /\ missed \in [Host -> [Host -> 0..Unclaimed]]
    /\ replaced \in [Host -> BOOLEAN]
    /\ gone \in [Host -> [Addr -> 0..Stale + 1]]

Up(h) == d[h].run = "up"

Down == [run |-> "down", addrs |-> {}, fresh |-> {}, joined |-> {},
         left |-> 0, since |-> 0, browsed |-> FALSE, pending |-> FALSE, net |-> "wait"]

Init ==
    /\ os = [h \in Host |-> [lan |-> [i \in Iface |-> IF i \in Plugged THEN Home ELSE Removed],
                         member |-> {}]]
    /\ d = [h \in Host |-> Down]
    /\ peers = [h \in Host |-> << >>]
    /\ packets = {}
    /\ faults = 0
    /\ missed = [h \in Host |-> [p \in Host |-> Unclaimed]]
    /\ replaced = [h \in Host |-> FALSE]
    /\ gone = [h \in Host |-> [a \in Addr |-> Stale + 1]]

\* A disturbance.
Fault == faults < MaxFaults /\ faults' = faults + 1

-----------------------------------------------------------------------------
\* Interfaces and packets

names(A) == {a[1] : a \in A}

ips(A) == {Ip(a) : a \in A}

\* usableInterfaces, with the address ip4 finds on each.
usable(h) == {a \in Addr : os[h].lan[a[1]] = a[2]}

\* buildRecords asks every interface of the filter for its address of now.
records(h) == {a \in usable(h) : a[1] \in d[h].fresh}

\* send writes to the LAN of every interface of the filter, and every socket in
\* the group there receives it.  (So does the sender's own, which ignores its
\* records and at most answers its own question.)
reached(h) ==
    {g \in Host \ {h} : /\ Up(g)
                      /\ \E a \in records(h) : \E i \in os[g].member : os[g].lan[i] = a[2]}

announced(h, kind) ==
    {[kind |-> kind, from |-> h, to |-> g, addrs |-> records(h)] : g \in reached(h) \cap Watched}

asked(h) ==
    {[kind |-> "query", from |-> h, to |-> g, addrs |-> {}] :
        g \in IF h \in Watched THEN reached(h) ELSE {}}

\* The interfaces syncGroups joins: JoinGroup refuses a device that has gone and
\* one on which the socket is in the group already.
joinable(h) == (d[h].fresh \ os[h].member) \ d[h].joined

\* Mutant: does not forget the interfaces that disappeared.
SyncGroupsKeeps(h) == d[h].joined \cup joinable(h)

\* responder.joined after syncGroups.
syncGroups(h) == (d[h].joined \cup joinable(h)) \cap names(d[h].addrs)

-----------------------------------------------------------------------------
\* The daemon starts and ends

\* What was promised about h, and to h, no longer holds.
Unclaim(h) ==
    missed' = [x \in Host |-> [y \in Host |-> IF h \in {x, y} THEN Unclaimed ELSE missed[x][y]]]

Seen(h, A) == gone' = [gone EXCEPT ![h] = [a \in Addr |-> IF a \in A THEN 0 ELSE @[a]]]

Started(h) ==
    [run |-> "up", addrs |-> usable(h), fresh |-> names(usable(h)), joined |-> names(usable(h)),
     left |-> Bursts, since |-> 0, browsed |-> FALSE, pending |-> FALSE, net |-> "wait"]

\* runDaemon up to netLoop: newNetFilter refreshes, startMDNS opens a socket and
\* joins the group on every interface ...
Start(h) ==
    /\ d[h].run \in {"down", "panicked"}
    /\ d' = [d EXCEPT ![h] = Started(h)]
    /\ os' = [os EXCEPT ![h].member = names(usable(h))]
    /\ replaced' = [replaced EXCEPT ![h] = FALSE]
    /\ Seen(h, usable(h))
    /\ UNCHANGED <<peers, packets, faults, missed>>

\* ... or fails, and the daemon serves without discovery.
StartMute(h) ==
    /\ d[h].run \in {"down", "panicked"}
    /\ Fault
    /\ d' = [d EXCEPT ![h] = [Started(h) EXCEPT !.run = "mute", !.left = 0, !.joined = {}]]
    /\ UNCHANGED <<os, peers, packets, observers>>

\* The process is gone, and the socket with what it had received.
Gone(h, state) ==
    /\ d' = [d EXCEPT ![h] = [Down EXCEPT !.run = state]]
    /\ os' = [os EXCEPT ![h].member = {}]
    /\ peers' = [peers EXCEPT ![h] = << >>]

NotTo(h) == {p \in packets : p.to # h}

\* runDaemon returns: stopMDNS sends a goodbye ...
Stop(h) ==
    /\ Up(h) /\ Fault
    /\ d' = [d EXCEPT ![h].run = "closing"]
    /\ packets' = NotTo(h) \cup announced(h, "goodbye")
    /\ Unclaim(h)
    /\ UNCHANGED <<os, peers, replaced, gone>>

\* ... and closes the socket.
Close(h) ==
    /\ d[h].run = "closing"
    /\ Gone(h, "down")
    /\ UNCHANGED <<packets, faults, observers>>

Crash(h) ==
    /\ d[h].run \in {"up", "mute"} /\ Fault
    /\ Gone(h, "down")
    /\ packets' = NotTo(h)
    /\ Unclaim(h)
    /\ UNCHANGED <<replaced, gone>>

-----------------------------------------------------------------------------
\* announceLoop, browseLoop and delayed answers

\* Mutant: one round too many.
BurstOneMore(h) ==
    /\ Up(h) /\ d[h].left >= 0
    /\ d' = [d EXCEPT ![h].left = @ - 1]
    /\ packets' = packets \cup announced(h, "records") \cup asked(h)
    /\ UNCHANGED <<os, peers, faults, observers>>

\* One round of startupBurst: both loops wake up after the same delays.
Burst(h) ==
    /\ Up(h) /\ d[h].left > 0
    /\ d' = [d EXCEPT ![h].left = @ - 1]
    /\ packets' = packets \cup announced(h, "records") \cup asked(h)
    /\ UNCHANGED <<os, peers, faults, observers>>

\* announceLoop, after a jittered interval.
Announce(h) ==
    /\ Up(h) /\ d[h].left = 0 /\ d[h].since >= AnnounceMin
    /\ d' = [d EXCEPT ![h].since = 0]
    /\ packets' = packets \cup announced(h, "records")
    /\ UNCHANGED <<os, peers, faults, observers>>

\* browseLoop asks while no peer is known.
Browse(h) ==
    /\ Up(h) /\ h \in Watched /\ d[h].left = 0 /\ peers[h] = << >> /\ ~d[h].browsed
    /\ d' = [d EXCEPT ![h].browsed = TRUE]
    /\ packets' = packets \cup asked(h)
    /\ UNCHANGED <<os, peers, faults, observers>>

\* The timer of scheduleAnswer, which nothing stops, sends an answer.
Answer(h) ==
    /\ d[h].run \in {"up", "closing"} /\ d[h].pending
    /\ d' = [d EXCEPT ![h].pending = FALSE]
    /\ packets' = packets \cup announced(h, "records")
    /\ UNCHANGED <<os, peers, faults, observers>>

-----------------------------------------------------------------------------
\* readLoop

\* peerTable.put
put(h, p, a) ==
    [x \in DOMAIN peers[h] \cup {p} |-> IF x = p THEN [addr |-> a, age |-> 0] ELSE peers[h][x]]

drop(h, p) == Restrict(peers[h], DOMAIN peers[h] \ {p})

\* scheduleAnswer coalesces the queries that arrive before its timer fires.
handleQuery(h) == d' = [d EXCEPT ![h].pending = TRUE] /\ UNCHANGED <<peers, missed>>

\* learnPeers: a goodbye removes its sender ...
handleGoodbye(h, p) ==
    /\ peers' = [peers EXCEPT ![h] = drop(h, p)]
    /\ missed' = [missed EXCEPT ![h][p] = Unclaimed]
    /\ UNCHANGED d

\* ... and an announcement leads to the last of its addresses.
handleRecords(h, p, A) ==
    IF A = {}
    THEN UNCHANGED <<d, peers, missed>>
    ELSE \E a \in A :
        /\ peers' = [peers EXCEPT ![h] = put(h, p, a)]
        /\ missed' = [missed EXCEPT ![h][p] = IF Up(p) /\ h \in reached(p) THEN 0 ELSE Unclaimed]
        /\ UNCHANGED d

Handle(p) ==
    CASE p.kind = "query" -> handleQuery(p.to)
      [] p.kind = "goodbye" -> handleGoodbye(p.to, p.from)
      [] OTHER -> handleRecords(p.to, p.from, p.addrs)

Receive(p) ==
    /\ Handle(p)
    /\ packets' = packets \ {p}
    /\ UNCHANGED <<os, faults, replaced, gone>>

\* The network delivers a packet twice, or not at all.
Duplicate(p) ==
    /\ Fault /\ Handle(p)
    /\ UNCHANGED <<os, packets, replaced, gone>>

Lose(p) ==
    /\ Fault
    /\ packets' = packets \ {p}
    /\ missed' = IF p.kind = "records" /\ missed[p.to][p.from] < Unclaimed
                 THEN [missed EXCEPT ![p.to][p.from] = @ + 1] ELSE missed
    /\ UNCHANGED <<os, d, peers, replaced, gone>>

-----------------------------------------------------------------------------
\* sweepLoop and netLoop

\* Mutant: an entry of exactly that age is removed.
ExpiredEarly(e) == e.age >= PeerLifetime

Expired(e) == e.age > PeerLifetime

\* Mutant: sweepLoop leaves out the peers.
SweepForgotten(h) == DOMAIN peers[h]

sweep(h) == {p \in DOMAIN peers[h] : ~Expired(peers[h][p])}

Sweep(h) ==
    /\ sweep(h) # DOMAIN peers[h]
    /\ peers' = [peers EXCEPT ![h] = Restrict(@, sweep(h))]
    /\ UNCHANGED <<os, d, packets, faults, observers>>

\* sameAddrs: refresh compares the IP addresses, whatever interface they are on.
sameAddrs(h) == ips(usable(h)) = ips(d[h].addrs)

\* netLoop: refresh reports only a change of the set of addresses ...
NetRefresh(h) ==
    /\ d[h].run \in {"up", "mute"} /\ d[h].net = "wait" /\ ~sameAddrs(h)
    /\ d' = [d EXCEPT ![h].addrs = usable(h), ![h].fresh = names(usable(h)), ![h].net = "clear"]
    /\ UNCHANGED <<os, peers, packets, faults, observers>>

\* ... after which the peers are forgotten ...
NetClear(h) ==
    /\ d[h].net = "clear"
    /\ d' = [d EXCEPT ![h].net = "notify"]
    /\ peers' = [peers EXCEPT ![h] = << >>]
    /\ missed' = [missed EXCEPT ![h] = [p \in Host |-> Unclaimed]]
    /\ UNCHANGED <<os, packets, faults, replaced, gone>>

\* ... and networkChanged joins the group anew, announces and asks.  A responder
\* that failed to start is a nil pointer in a non-nil interface: the call panics.
NetNotify(h) ==
    /\ d[h].net = "notify"
    /\ IF d[h].run = "mute"
       THEN Gone(h, "panicked") /\ UNCHANGED packets
       ELSE /\ UNCHANGED peers
            /\ d' = [d EXCEPT ![h].joined = syncGroups(h), ![h].net = "wait"]
            /\ os' = [os EXCEPT ![h].member = @ \cup joinable(h)]
            /\ packets' = IF syncGroups(h) = {} THEN packets
                          ELSE packets \cup (announced(h, "records") \cup asked(h))'
    /\ UNCHANGED <<faults, observers>>

-----------------------------------------------------------------------------
\* The machine's interfaces

\* refresh will not tell interface i on LAN n from one the filter recorded: a
\* device that was removed, or another interface that had the same IP address.
Mistaken(h, i, n) ==
    \/ os[h].lan[i] = Removed /\ i \in names(d[h].addrs)
    \/ \E b \in d[h].addrs : b[1] # i /\ Ip(b) = Ip(<<i, n>>)

\* An interface gets an address: on another LAN, again, or as a new device.
Attach(h, i, n) ==
    /\ os[h].lan[i] # n /\ Fault
    /\ os' = [os EXCEPT ![h].lan[i] = n]
    /\ replaced' = [replaced EXCEPT ![h] = @ \/ Mistaken(h, i, n)]
    /\ Seen(h, IF d[h].run \in {"up", "closing"} THEN {<<i, n>>} ELSE {})
    /\ Unclaim(h)
    /\ UNCHANGED <<d, peers, packets>>

\* It loses its address, as when a machine leaves its wifi.
Detach(h, i) ==
    /\ os[h].lan[i] \in Lan /\ Fault
    /\ os' = [os EXCEPT ![h].lan[i] = NoAddr]
    /\ Unclaim(h)
    /\ UNCHANGED <<d, peers, packets, replaced, gone>>

\* "A removed interface takes its multicast membership with it."
Remove(h, i) ==
    /\ os[h].lan[i] # Removed /\ Fault
    /\ os' = [os EXCEPT ![h].lan[i] = Removed, ![h].member = @ \ {i}]
    /\ d' = [d EXCEPT ![h].fresh = @ \ {i}]
    /\ Unclaim(h)
    /\ UNCHANGED <<peers, packets, replaced, gone>>

-----------------------------------------------------------------------------
\* Nothing that h does every few seconds is overdue.
Idle(h) ==
    /\ d[h].left = 0 /\ ~d[h].pending
    /\ d[h].run # "closing"
    /\ Up(h) => /\ d[h].since < AnnounceMax
                /\ d[h].browsed \/ peers[h] # << >> \/ h \notin Watched
    /\ sweep(h) = DOMAIN peers[h]
    /\ d[h].net = "wait" /\ (d[h].run \in {"up", "mute"} => sameAddrs(h))

Older(n, most) == IF n < most THEN n + 1 ELSE n

Tick ==
    /\ packets = {} /\ \A h \in Host : Idle(h)
    /\ d' = [h \in Host |->
                [d[h] EXCEPT !.since = IF Up(h) THEN @ + 1 ELSE 0, !.browsed = FALSE]]
    /\ peers' = [h \in Host |-> [p \in DOMAIN peers[h] |-> [peers[h][p] EXCEPT !.age = @ + 1]]]
    /\ gone' = [h \in Host |-> [a \in Addr |->
                IF Up(h) /\ a \in usable(h) THEN 0 ELSE Older(gone[h][a], Stale + 1)]]
    /\ UNCHANGED <<os, packets, faults, missed, replaced>>

DaemonStep(h) ==
    \/ Close(h)
    \/ Burst(h) \/ Announce(h) \/ Browse(h) \/ Answer(h)
    \/ Sweep(h) \/ NetRefresh(h) \/ NetClear(h) \/ NetNotify(h)

Progress == Tick \/ (\E h \in Host : DaemonStep(h)) \/ (\E p \in packets : Receive(p))

Disturbance ==
    \/ \E h \in Host : Start(h) \/ StartMute(h) \/ Stop(h) \/ Crash(h)
    \/ \E p \in packets : Duplicate(p) \/ Lose(p)
    \/ \E h \in Host, i \in Iface :
        (\E n \in Lan : Attach(h, i, n)) \/ Detach(h, i) \/ Remove(h, i)

Next == Progress \/ Disturbance

Spec == Init /\ [][Next]_vars

\* Time passes and goroutines run; nobody has to disturb them.
FairSpec == Spec /\ WF_vars(Progress)

-----------------------------------------------------------------------------
(***************************************************************************)
(* A peer stays in the table as long as of any two of its announcements in *)
(* a row one is heard: only a goodbye, a change of network or two losses   *)
(* remove a peer that is there (announceInterval, jitter, peerLifetime,    *)
(* sweep).                                                                 *)
(***************************************************************************)
KeptAlive == \A h, p \in Host : missed[h][p] < Unclaimed => p \in DOMAIN peers[h]

(***************************************************************************)
(* No entry outlives its peer: whoever is listed was up at the listed      *)
(* address no longer than peerLifetime, and the time until the next sweep, *)
(* ago, although goodbyes are lost, answers are sent after them, and       *)
(* packets of the previous network are handled after netLoop cleared the   *)
(* table.                                                                  *)
(***************************************************************************)
EntriesExpire ==
    \A h \in Host : \A p \in DOMAIN peers[h] :
        gone[p][peers[h][p].addr] <= PeerLifetime + 1

Neighbours(h, p) == \E a \in usable(h), b \in usable(p) : a[2] = b[2]

(***************************************************************************)
(* Once the disturbances end, every table comes to hold exactly the peers  *)
(* that are up on a common network, each with an address it has, and keeps *)
(* to it.  Excepted are machines on which an interface came back as a new  *)
(* device, or another one took over its IP address, between two looks of   *)
(* netLoop: refresh notices neither if the addresses are the same          *)
(* (startupBurst, browseLoop, netLoop, sweep).                             *)
(***************************************************************************)
Converges ==
    <>[](\A h \in Watched, p \in Host :
            h # p /\ Up(h) /\ ~replaced[h] /\ ~replaced[p] =>
                /\ p \in DOMAIN peers[h] <=> Up(p) /\ Neighbours(h, p)
                /\ p \in DOMAIN peers[h] => peers[h][p].addr \in usable(p))

(***************************************************************************)
(* "It remains active even if mDNS failed to start" (netLoop): a change of *)
(* the network does not end a daemon that runs without discovery.          *)
(***************************************************************************)
NetLoopSurvives == \A h \in Host : d[h].run # "panicked"
=============================================================================
