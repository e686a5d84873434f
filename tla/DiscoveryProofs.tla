-------------------------- MODULE DiscoveryProofs --------------------------
(***************************************************************************)
(* The safety of discovery for any number of machines, interfaces,         *)
(* networks and disturbances, and any lifetimes and intervals: the types,  *)
(* EntriesExpire and KeptAlive.                                            *)
(*                                                                         *)
(* Neither property is inductive.  InFlight says what a packet on its way  *)
(* may claim, Present that a running machine was never gone from the       *)
(* addresses it has, Expiry compares the age of an entry with the time its *)
(* peer has been gone, and Kept bounds the age of an entry that must stay  *)
(* by the announcements that can have been lost since.                     *)
(***************************************************************************)
EXTENDS Discovery, TLAPS

Types ==
    /\ os \in [Host -> Machine]
    /\ d \in [Host -> Daemon]
    /\ DOMAIN peers = Host
    /\ \A h \in Host : DOMAIN peers[h] \subseteq Host \ {h}
    /\ \A h \in Host : \A p \in DOMAIN peers[h] : peers[h][p] \in Entry
    /\ faults \in 0..MaxFaults
    /\ missed \in [Host -> [Host -> 0..Unclaimed]]
    /\ replaced \in [Host -> BOOLEAN]
    /\ gone \in [Host -> [Addr -> 0..Stale + 1]]

\* A packet on its way was sent to somebody else, who is up, and an announcement
\* names addresses its sender has not left.
Credible(q) ==
    /\ q \in Packet
    /\ q.from # q.to
    /\ Up(q.to)
    /\ q.kind = "records" =>
        /\ q.to \in Watched
        /\ q.addrs # {}
        /\ \A a \in q.addrs : gone[q.from][a] = 0

InFlight == \A q \in packets : Credible(q)

Present ==
    \A h \in Host :
        /\ d[h].net # "wait" => d[h].run \in {"up", "mute", "closing"}
        /\ d[h].run \in {"up", "closing"} => \A a \in usable(h) : gone[h][a] = 0

Expiry ==
    \A h \in Host : \A p \in DOMAIN peers[h] :
        gone[p][peers[h][p].addr] <= peers[h][p].age /\ peers[h][p].age <= PeerLifetime + 1

\* An announcement of p that h has yet to handle.
Coming(h, p) == \E q \in packets : q.kind = "records" /\ q.from = p /\ q.to = h

\* How old the entry of a peer of which k announcements were missed may be when
\* the next one is due.
Allowed(k) == IF k = 0 THEN AnnounceMax ELSE 2 * AnnounceMax

Claimed(h, p) ==
    /\ Up(h) /\ Up(p) /\ h \in Watched /\ h # p
    /\ h \in reached(p)
    /\ p \in DOMAIN peers[h]
    /\ LET age == peers[h][p].age
           most == Allowed(missed[h][p])
       IN  \/ age + AnnounceMax <= most + d[p].since
           \/ Coming(h, p) /\ d[p].since = 0 /\ age <= most

Kept == \A h, p \in Host : missed[h][p] < Unclaimed => Claimed(h, p)

Inv == Types /\ InFlight /\ Present /\ Expiry /\ Kept

LEMMA Constants ==
    /\ Watched \subseteq Host /\ Home \in Lan /\ Plugged \subseteq Iface
    /\ Bursts \in Nat /\ AnnounceMin \in Nat /\ AnnounceMax \in Nat /\ MaxFaults \in Nat
    /\ PeerLifetime \in Nat /\ 2 * AnnounceMax <= PeerLifetime
    /\ Stale \in Nat /\ Stale = PeerLifetime + 1 /\ Unclaimed = 2
  BY DiscoveryAssumption, LifetimeAssumption DEF Stale, Unclaimed

-----------------------------------------------------------------------------
\* Types of the operators

LEMMA UsableType ==
  ASSUME NEW h
  PROVE  usable(h) \subseteq Addr /\ names(usable(h)) \subseteq Iface
  BY DEF usable, names, Addr

LEMMA DownType == Down \in Daemon
  BY Constants DEF Down, Daemon

LEMMA StartedType ==
  ASSUME NEW h
  PROVE  /\ Started(h) \in Daemon
         /\ [Started(h) EXCEPT !.run = "mute", !.left = 0, !.joined = {}] \in Daemon
  <1>1. usable(h) \in SUBSET Addr /\ names(usable(h)) \in SUBSET Iface /\ {} \in SUBSET Iface
    BY UsableType
  <1>2. Bursts \in 0..Bursts /\ 0 \in 0..Bursts /\ 0 \in 0..AnnounceMax
    BY Constants
  <1>3. Started(h) \in Daemon
    BY <1>1, <1>2 DEF Started, Daemon
  <1> DEFINE x == [Started(h) EXCEPT !.run = "mute"]
             y == [x EXCEPT !.left = 0]
             z == [y EXCEPT !.joined = {}]
  <1>4. x \in Daemon
    BY <1>3 DEF Daemon
  <1> HIDE DEF x
  <1>5. y \in Daemon
    BY <1>2, <1>4 DEF Daemon
  <1> HIDE DEF y
  <1>6. z \in Daemon
    BY <1>1, <1>5 DEF Daemon
  <1>7. [Started(h) EXCEPT !.run = "mute", !.left = 0, !.joined = {}] = z
    BY DEF x, y
  <1> QED
    BY <1>3, <1>6, <1>7

LEMMA StartedFields ==
  ASSUME NEW h
  PROVE  Started(h).run = "up" /\ Started(h).net = "wait"
         /\ [Started(h) EXCEPT !.run = "mute", !.left = 0, !.joined = {}].run = "mute"
         /\ [Started(h) EXCEPT !.run = "mute", !.left = 0, !.joined = {}].net = "wait"
  BY DEF Started

LEMMA SyncType ==
  ASSUME Types, NEW h \in Host
  PROVE  joinable(h) \subseteq Iface /\ syncGroups(h) \subseteq Iface
  BY DEF Types, Daemon, joinable, syncGroups

\* Updates of one field of a daemon
LEMMA FieldTypes ==
  ASSUME NEW x \in Daemon
  PROVE  /\ \A v \in {"down", "up", "mute", "closing", "panicked"} : [x EXCEPT !.run = v] \in Daemon
         /\ \A v \in SUBSET Addr : [x EXCEPT !.addrs = v] \in Daemon
         /\ \A v \in SUBSET Iface : [x EXCEPT !.fresh = v] \in Daemon
         /\ \A v \in SUBSET Iface : [x EXCEPT !.joined = v] \in Daemon
         /\ \A v \in 0..Bursts : [x EXCEPT !.left = v] \in Daemon
         /\ \A v \in 0..AnnounceMax : [x EXCEPT !.since = v] \in Daemon
         /\ \A v \in BOOLEAN : [x EXCEPT !.browsed = v] \in Daemon
         /\ \A v \in BOOLEAN : [x EXCEPT !.pending = v] \in Daemon
         /\ \A v \in {"wait", "clear", "notify"} : [x EXCEPT !.net = v] \in Daemon
  BY DEF Daemon

LEMMA NoPeers == DOMAIN << >> = {}
  OBVIOUS

\* Packets that are sent
LEMMA Sent ==
  ASSUME Types, Present, NEW h \in Host, d[h].run \in {"up", "closing"},
         NEW kind \in {"records", "goodbye"}, NEW q \in announced(h, kind) \cup asked(h)
  PROVE  Credible(q) /\ q.from = h /\ q.to # h
  <1>1. records(h) \subseteq usable(h) /\ records(h) \subseteq Addr
    BY UsableType DEF records
  <1>2. CASE q \in announced(h, kind)
    <2>1. PICK g \in reached(h) \cap Watched :
            q = [kind |-> kind, from |-> h, to |-> g, addrs |-> records(h)]
      BY <1>2 DEF announced
    <2>2. g \in Host /\ g # h /\ Up(g) /\ g \in Watched /\ records(h) # {}
      BY <2>1 DEF reached
    <2>3. \A a \in records(h) : gone[h][a] = 0
      BY <1>1 DEF Present
    <2> QED
      BY <1>1, <2>1, <2>2, <2>3 DEF Credible, Packet
  <1>3. CASE q \in asked(h)
    <2>1. PICK g \in reached(h) : q = [kind |-> "query", from |-> h, to |-> g, addrs |-> {}]
      BY <1>3 DEF asked
    <2>2. g \in Host /\ g # h /\ Up(g)
      BY <2>1 DEF reached
    <2> QED
      BY <2>1, <2>2 DEF Credible, Packet
  <1> QED
    BY <1>2, <1>3

LEMMA InitInv == Init => Inv
  <1> SUFFICES ASSUME Init PROVE Inv
    OBVIOUS
  <1> USE Constants
  <1>1. Types
    <2>1. os \in [Host -> Machine]
      BY DEF Init, Machine
    <2>2. d \in [Host -> Daemon]
      BY DownType DEF Init
    <2>3. DOMAIN peers = Host /\ \A h \in Host : DOMAIN peers[h] = {}
      BY NoPeers DEF Init
    <2>4. replaced \in [Host -> BOOLEAN]
      BY DEF Init
    <2>5. missed \in [Host -> [Host -> 0..Unclaimed]] /\ gone \in [Host -> [Addr -> 0..Stale + 1]]
          /\ faults \in 0..MaxFaults
      BY DEF Init
    <2> QED
      BY <2>1, <2>2, <2>3, <2>4, <2>5 DEF Types
  <1>2. InFlight
    BY DEF Init, InFlight
  <1>3. Present
    BY DEF Init, Present, Down
  <1>4. Expiry
    BY NoPeers DEF Init, Expiry
  <1>5. Kept
    BY DEF Init, Kept
  <1> QED
    BY <1>1, <1>2, <1>3, <1>4, <1>5 DEF Inv

-----------------------------------------------------------------------------
\* What a step that does not concern them leaves alone

LEMMA ReachedFrame ==
  ASSUME NEW g \in Host, NEW h \in Host, g \in reached(h), Up(g)', records(h) \subseteq records(h)',
         os'[g].lan = os[g].lan, os[g].member \subseteq os'[g].member
  PROVE  (g \in reached(h))'
  BY DEF reached

LEMMA RecordsFrame ==
  ASSUME NEW h \in Host, os'[h].lan = os[h].lan, d[h].fresh \subseteq d'[h].fresh
  PROVE  usable(h)' = usable(h) /\ records(h) \subseteq records(h)'
  BY DEF usable, records

LEMMA ClaimFrame ==
  ASSUME Inv, NEW h \in Host, NEW p \in Host, missed[h][p] < Unclaimed,
         missed'[h][p] = missed[h][p], Up(h)', Up(p)', records(p) \subseteq records(p)',
         os'[h].lan = os[h].lan, os[h].member \subseteq os'[h].member,
         p \in DOMAIN peers'[h], peers'[h][p].age = peers[h][p].age,
         d'[p].since = d[p].since, Coming(h, p) => Coming(h, p)'
  PROVE  Claimed(h, p)'
  <1>1. Claimed(h, p)
    BY DEF Inv, Kept
  <1>2. (h \in reached(p))'
    BY <1>1, ReachedFrame DEF Claimed
  <1> QED
    BY <1>1, <1>2 DEF Claimed

LEMMA CredibleFrame ==
  ASSUME NEW q, Credible(q), Up(q.to)', gone' = gone
  PROVE  Credible(q)'
  BY DEF Credible

\* A packet of an earlier state stays one.
LEMMA ComingFrame ==
  ASSUME NEW h, NEW p, packets \subseteq packets', Coming(h, p)
  PROVE  Coming(h, p)'
  BY DEF Coming

-----------------------------------------------------------------------------
\* A daemon sends announcements and questions and notes something about itself.
LEMMA SendKeeps ==
  ASSUME Inv, NEW h \in Host, NEW r \in Daemon, d[h].run \in {"up", "closing"},
         d' = [d EXCEPT ![h] = r],
         r.run = d[h].run, r.fresh = d[h].fresh, r.net = d[h].net,
         packets \subseteq packets',
         packets' \subseteq packets \cup (announced(h, "records") \cup asked(h)),
         r.since = d[h].since \/ (r.since = 0 /\ announced(h, "records") \subseteq packets'),
         UNCHANGED <<os, peers, faults, observers>>
  PROVE  Inv'
  <1> USE Constants
  <1>1. \A x \in Host : d'[x] = (IF x = h THEN r ELSE d[x])
    BY DEF Inv, Types
  <1>2. UNCHANGED <<missed, replaced, gone>>
    BY DEF observers
  <1>3. Types'
    <2>1. d' \in [Host -> Daemon]
      BY DEF Inv, Types
    <2> QED
      BY <1>2, <2>1 DEF Inv, Types
  <1>4. \A x \in Host : Up(x)' <=> Up(x)
    BY <1>1 DEF Up
  <1>5. \A x \in Host : usable(x)' = usable(x) /\ records(x) \subseteq records(x)'
    BY <1>1, RecordsFrame
  <1>6. InFlight'
    <2> SUFFICES ASSUME NEW q \in packets' PROVE Credible(q)'
      BY DEF InFlight
    <2>1. Credible(q)
      BY Sent DEF Inv, InFlight
    <2>2. Up(q.to)'
      BY <1>4, <2>1 DEF Credible, Packet
    <2> QED
      BY <1>2, <2>1, <2>2, CredibleFrame
  <1>7. Present'
    BY <1>1, <1>2, <1>5 DEF Inv, Present
  <1>8. Expiry'
    BY <1>2 DEF Inv, Expiry
  <1>9. Kept'
    <2> SUFFICES ASSUME NEW g \in Host, NEW p \in Host, missed[g][p] < Unclaimed
                 PROVE  Claimed(g, p)'
      BY <1>2 DEF Kept
    <2>1. Claimed(g, p)
      BY DEF Inv, Kept
    <2>2. Up(g)' /\ Up(p)'
      BY <1>4, <2>1 DEF Claimed
    <2>3. CASE d'[p].since = d[p].since
      BY <1>2, <1>5, <2>1, <2>2, <2>3, ClaimFrame, ComingFrame DEF Claimed
    <2>4. CASE p = h /\ r.since = 0 /\ announced(h, "records") \subseteq packets'
      <3>1. (g \in reached(p))'
        BY <1>5, <2>1, <2>2, ReachedFrame DEF Claimed
      <3>2. Coming(g, p)'
        <4> DEFINE q == [kind |-> "records", from |-> h, to |-> g, addrs |-> records(h)]
        <4>1. q \in packets'
          BY <2>1, <2>4 DEF announced, Claimed
        <4>2. q.kind = "records" /\ q.from = p /\ q.to = g
          BY <2>4
        <4> QED
          BY <4>1, <4>2 DEF Coming
      <3>3. d'[p].since = 0
        BY <1>1, <2>4
      <3>4. peers[g][p].age <= Allowed(missed[g][p])
        <4>1. d[p].since \in 0..AnnounceMax /\ missed[g][p] \in 0..2
          BY DEF Inv, Types, Daemon
        <4>2. peers[g][p].age \in Nat
          BY <2>1 DEF Inv, Types, Entry, Claimed
        <4>3. Allowed(missed[g][p]) \in Nat
          BY DEF Allowed
        <4>4. \/ peers[g][p].age + AnnounceMax <= Allowed(missed[g][p]) + d[p].since
              \/ peers[g][p].age <= Allowed(missed[g][p])
          BY <2>1 DEF Claimed
        <4> QED
          BY <4>1, <4>2, <4>3, <4>4
      <3> QED
        BY <1>2, <2>1, <2>2, <3>1, <3>2, <3>3, <3>4 DEF Claimed
    <2> QED
      BY <1>1, <2>3, <2>4
  <1> QED
    BY <1>3, <1>6, <1>7, <1>8, <1>9 DEF Inv

LEMMA LoopsKeep ==
  ASSUME Inv, NEW h \in Host, Burst(h) \/ Announce(h) \/ Browse(h) \/ Answer(h)
  PROVE  Inv'
  <1>1. d[h] \in Daemon /\ d \in [Host -> Daemon]
    BY DEF Inv, Types
  <1>2. CASE Burst(h)
    <2> DEFINE r == [d[h] EXCEPT !.left = @ - 1]
    <2>1. d[h].left - 1 \in 0..Bursts
      BY <1>1, <1>2, Constants DEF Burst, Daemon
    <2>2. r \in Daemon
      BY <1>1, <2>1, FieldTypes
    <2>3. r.run = d[h].run /\ r.fresh = d[h].fresh /\ r.net = d[h].net /\ r.since = d[h].since
      BY <1>1 DEF Daemon
    <2>4. d' = [d EXCEPT ![h] = r]
      BY <1>2 DEF Burst
    <2> HIDE DEF r
    <2> QED
      BY <1>2, <2>2, <2>3, <2>4, SendKeeps DEF Burst, Up
  <1>3. CASE Announce(h)
    <2> DEFINE r == [d[h] EXCEPT !.since = 0]
    <2>1. r \in Daemon
      <3>1. 0 \in 0..AnnounceMax
        BY Constants
      <3> QED
        BY <1>1, <3>1, FieldTypes
    <2>2. r.run = d[h].run /\ r.fresh = d[h].fresh /\ r.net = d[h].net /\ r.since = 0
      BY <1>1 DEF Daemon
    <2>3. d' = [d EXCEPT ![h] = r]
      BY <1>3 DEF Announce
    <2> HIDE DEF r
    <2> QED
      BY <1>3, <2>1, <2>2, <2>3, SendKeeps DEF Announce, Up
  <1>4. CASE Browse(h)
    <2> DEFINE r == [d[h] EXCEPT !.browsed = TRUE]
    <2>1. r \in Daemon
      BY <1>1, FieldTypes
    <2>2. r.run = d[h].run /\ r.fresh = d[h].fresh /\ r.net = d[h].net /\ r.since = d[h].since
      BY <1>1 DEF Daemon
    <2>3. d' = [d EXCEPT ![h] = r]
      BY <1>4 DEF Browse
    <2> HIDE DEF r
    <2> QED
      BY <1>4, <2>1, <2>2, <2>3, SendKeeps DEF Browse, Up
  <1>5. CASE Answer(h)
    <2> DEFINE r == [d[h] EXCEPT !.pending = FALSE]
    <2>1. r \in Daemon
      BY <1>1, FieldTypes
    <2>2. r.run = d[h].run /\ r.fresh = d[h].fresh /\ r.net = d[h].net /\ r.since = d[h].since
      BY <1>1 DEF Daemon
    <2>3. d' = [d EXCEPT ![h] = r]
      BY <1>5 DEF Answer
    <2> HIDE DEF r
    <2> QED
      BY <1>5, <2>1, <2>2, <2>3, SendKeeps DEF Answer
  <1> QED
    BY <1>2, <1>3, <1>4, <1>5

-----------------------------------------------------------------------------
\* A packet is handled, lost, or both handled and still there: for everybody's
\* daemon nothing changes that others depend on.
Settled ==
    /\ d' \in [Host -> Daemon]
    /\ \A x \in Host : /\ d'[x].run = d[x].run /\ d'[x].fresh = d[x].fresh
                       /\ d'[x].net = d[x].net /\ d'[x].since = d[x].since
    /\ faults' \in 0..MaxFaults
    /\ UNCHANGED <<os, replaced, gone>>

LEMMA SettledFrame ==
  ASSUME Inv, Settled, packets' \subseteq packets
  PROVE  /\ \A x \in Host : Up(x)' <=> Up(x)
         /\ \A x \in Host : usable(x)' = usable(x) /\ records(x) \subseteq records(x)'
         /\ InFlight'
         /\ Present'
  <1>1. \A x \in Host : Up(x)' <=> Up(x)
    BY DEF Up, Settled
  <1>2. \A x \in Host : usable(x)' = usable(x) /\ records(x) \subseteq records(x)'
    BY RecordsFrame DEF Settled
  <1>3. InFlight'
    <2> SUFFICES ASSUME NEW q \in packets' PROVE Credible(q)'
      BY DEF InFlight
    <2>1. Credible(q)
      BY DEF Inv, InFlight
    <2>2. Up(q.to)'
      BY <1>1, <2>1 DEF Credible, Packet
    <2> QED
      BY <2>1, <2>2, CredibleFrame DEF Settled
  <1>4. Present'
    BY <1>2 DEF Inv, Present, Settled
  <1> QED
    BY <1>1, <1>2, <1>3, <1>4

\* A claim that the packet does not concern stands.
LEMMA SettledClaim ==
  ASSUME Inv, Settled, NEW q \in packets, packets \ {q} \subseteq packets', packets' \subseteq packets,
         NEW h \in Host, NEW p \in Host, missed[h][p] < Unclaimed,
         ~(q.kind = "records" /\ q.from = p /\ q.to = h),
         missed'[h][p] = missed[h][p],
         p \in DOMAIN peers'[h], peers'[h][p].age = peers[h][p].age
  PROVE  Claimed(h, p)'
  <1>1. Claimed(h, p)
    BY DEF Inv, Kept
  <1>2. Up(h)' /\ Up(p)' /\ records(p) \subseteq records(p)'
    BY <1>1, SettledFrame DEF Claimed
  <1>3. Coming(h, p) => Coming(h, p)'
    BY DEF Coming
  <1> QED
    BY <1>2, <1>3, ClaimFrame DEF Settled

LEMMA QueryKeeps ==
  ASSUME Inv, NEW q \in packets, q.kind = "query", handleQuery(q.to),
         packets \ {q} \subseteq packets', packets' \subseteq packets,
         faults' \in 0..MaxFaults, UNCHANGED <<os, replaced, gone>>
  PROVE  Inv'
  <1> DEFINE h == q.to
             r == [d[h] EXCEPT !.pending = TRUE]
  <1>1. h \in Host /\ d[h] \in Daemon /\ d \in [Host -> Daemon]
    BY DEF Inv, InFlight, Credible, Packet, Types
  <1>2. r \in Daemon
    BY <1>1, FieldTypes
  <1>3. r.run = d[h].run /\ r.fresh = d[h].fresh /\ r.net = d[h].net /\ r.since = d[h].since
    BY <1>1 DEF Daemon
  <1>4. d' = [d EXCEPT ![h] = r] /\ peers' = peers /\ missed' = missed
    BY DEF handleQuery
  <1> HIDE DEF h, r
  <1>5. Settled
    BY <1>1, <1>2, <1>3, <1>4 DEF Settled
  <1>6. Types'
    BY <1>4, <1>5 DEF Inv, Types, Settled
  <1>7. Expiry'
    BY <1>4, <1>5 DEF Inv, Expiry, Settled
  <1>8. Kept'
    <2> SUFFICES ASSUME NEW g \in Host, NEW p \in Host, missed[g][p] < Unclaimed
                 PROVE  Claimed(g, p)'
      BY <1>4 DEF Kept
    <2>1. p \in DOMAIN peers[g]
      BY DEF Inv, Kept, Claimed
    <2> QED
      BY <1>4, <1>5, <2>1, SettledClaim
  <1> QED
    BY <1>5, <1>6, <1>7, <1>8, SettledFrame DEF Inv

LEMMA GoodbyeKeeps ==
  ASSUME Inv, NEW q \in packets, q.kind = "goodbye", handleGoodbye(q.to, q.from),
         packets \ {q} \subseteq packets', packets' \subseteq packets,
         faults' \in 0..MaxFaults, UNCHANGED <<os, replaced, gone>>
  PROVE  Inv'
  <1> USE Constants
  <1> DEFINE h == q.to
             p == q.from
  <1>1. h \in Host /\ p \in Host /\ h # p
    BY DEF Inv, InFlight, Credible, Packet
  <1>2. /\ peers' = [peers EXCEPT ![h] = drop(h, p)]
        /\ missed' = [missed EXCEPT ![h][p] = Unclaimed]
        /\ d' = d
    BY DEF handleGoodbye
  <1> HIDE DEF h, p
  <1>3. Settled
    BY <1>2 DEF Settled, Inv, Types
  <1>4. /\ DOMAIN peers' = Host
        /\ \A x \in Host : DOMAIN peers'[x] \subseteq DOMAIN peers[x]
        /\ \A x \in Host : \A y \in DOMAIN peers'[x] : peers'[x][y] = peers[x][y]
        /\ \A x, y \in Host : y \in DOMAIN peers[x] /\ ~(x = h /\ y = p) => y \in DOMAIN peers'[x]
    BY <1>1, <1>2 DEF Inv, Types, drop, Restrict
  <1>5. /\ missed' \in [Host -> [Host -> 0..Unclaimed]]
        /\ missed'[h][p] = Unclaimed
        /\ \A x, y \in Host : ~(x = h /\ y = p) => missed'[x][y] = missed[x][y]
    BY <1>1, <1>2 DEF Inv, Types
  <1>6. Types'
    BY <1>3, <1>4, <1>5 DEF Inv, Types, Settled
  <1>7. Expiry'
    BY <1>3, <1>4 DEF Inv, Expiry, Settled, Types
  <1>8. Kept'
    <2> SUFFICES ASSUME NEW x \in Host, NEW y \in Host, missed'[x][y] < Unclaimed
                 PROVE  Claimed(x, y)'
      BY DEF Kept
    <2>1. ~(x = h /\ y = p) /\ missed'[x][y] = missed[x][y]
      BY <1>5
    <2>2. y \in DOMAIN peers[x]
      BY <2>1 DEF Inv, Kept, Claimed
    <2>3. y \in DOMAIN peers'[x] /\ peers'[x][y].age = peers[x][y].age
      BY <1>4, <2>1, <2>2
    <2> QED
      BY <1>3, <2>1, <2>3, SettledClaim
  <1> QED
    BY <1>3, <1>6, <1>7, <1>8, SettledFrame DEF Inv

\* An announcement is entered with age zero; its sender was at that address a
\* moment ago.
LEMMA RecordsKeep ==
  ASSUME Inv, NEW q \in packets, q.kind = "records", handleRecords(q.to, q.from, q.addrs),
         packets \ {q} \subseteq packets', packets' \subseteq packets,
         faults' \in 0..MaxFaults, UNCHANGED <<os, replaced, gone>>
  PROVE  Inv'
  <1> USE Constants
  <1> DEFINE h == q.to
             p == q.from
  <1>1. /\ h \in Host /\ p \in Host /\ h # p /\ Up(h) /\ h \in Watched
        /\ q.addrs # {} /\ q.addrs \subseteq Addr /\ \A a \in q.addrs : gone[p][a] = 0
    BY DEF Inv, InFlight, Credible, Packet
  <1>2. PICK a \in q.addrs :
          /\ peers' = [peers EXCEPT ![h] = put(h, p, a)]
          /\ missed' = [missed EXCEPT ![h][p] = IF Up(p) /\ h \in reached(p) THEN 0 ELSE Unclaimed]
          /\ d' = d
    BY <1>1 DEF handleRecords
  <1> HIDE DEF h, p
  <1>3. Settled
    BY <1>2 DEF Settled, Inv, Types
  <1>4. /\ DOMAIN peers' = Host
        /\ \A x \in Host : x # h => peers'[x] = peers[x]
        /\ DOMAIN peers'[h] = DOMAIN peers[h] \cup {p}
        /\ peers'[h][p] = [addr |-> a, age |-> 0]
        /\ \A y \in DOMAIN peers[h] : y # p => peers'[h][y] = peers[h][y]
    BY <1>1, <1>2 DEF Inv, Types, put
  <1>5. /\ missed' \in [Host -> [Host -> 0..Unclaimed]]
        /\ missed'[h][p] = IF Up(p) /\ h \in reached(p) THEN 0 ELSE Unclaimed
        /\ \A x, y \in Host : ~(x = h /\ y = p) => missed'[x][y] = missed[x][y]
    BY <1>1, <1>2 DEF Inv, Types
  <1>6. Types'
    <2>1. peers'[h][p] \in Entry
      BY <1>1, <1>4 DEF Entry
    <2>2. ASSUME NEW x \in Host
          PROVE  DOMAIN peers'[x] \subseteq Host \ {x}
      <3>1. DOMAIN peers[x] \subseteq Host \ {x}
        BY DEF Inv, Types
      <3>2. CASE x = h
        BY <1>1, <1>4, <3>1, <3>2
      <3>3. CASE x # h
        BY <1>4, <3>1, <3>3
      <3> QED
        BY <3>2, <3>3
    <2>3. \A x \in Host : \A y \in DOMAIN peers'[x] : peers'[x][y] \in Entry
      BY <1>1, <1>4, <2>1 DEF Inv, Types
    <2> QED
      BY <1>3, <1>4, <1>5, <2>2, <2>3 DEF Inv, Types, Settled
  <1>7. Expiry'
    <2>1. gone[p][a] = 0
      BY <1>1, <1>2
    <2>2. peers'[h][p].addr = a /\ peers'[h][p].age = 0
      BY <1>4
    <2> SUFFICES ASSUME NEW x \in Host, NEW y \in DOMAIN peers'[x]
                 PROVE  gone[y][peers'[x][y].addr] <= peers'[x][y].age
                        /\ peers'[x][y].age <= PeerLifetime + 1
      BY <1>3 DEF Expiry, Settled
    <2>3. CASE x = h /\ y = p
      BY <2>1, <2>2, <2>3
    <2>4. CASE ~(x = h /\ y = p)
      <3>1. y \in DOMAIN peers[x] /\ peers'[x][y] = peers[x][y]
        BY <1>4, <2>4
      <3> QED
        BY <3>1 DEF Inv, Expiry
    <2> QED
      BY <2>3, <2>4
  <1>8. Kept'
    <2> SUFFICES ASSUME NEW x \in Host, NEW y \in Host, missed'[x][y] < Unclaimed
                 PROVE  Claimed(x, y)'
      BY DEF Kept
    <2>1. CASE x = h /\ y = p
      <3>1. Up(p) /\ h \in reached(p) /\ missed'[h][p] = 0
        BY <1>5, <2>1
      <3>2. Up(h)' /\ Up(p)' /\ records(p) \subseteq records(p)'
        BY <1>1, <1>3, <3>1, SettledFrame
      <3>3. (h \in reached(p))'
        BY <1>1, <1>3, <3>1, <3>2, ReachedFrame DEF Settled
      <3>4. peers'[h][p].age = 0 /\ p \in DOMAIN peers'[h]
        BY <1>4
      <3>5. d'[p].since \in Nat
        BY <1>1, <1>3 DEF Settled, Daemon
      <3>6. peers'[h][p].age + AnnounceMax <= Allowed(missed'[h][p]) + d'[p].since
        BY <3>1, <3>4, <3>5 DEF Allowed
      <3> QED
        BY <1>1, <2>1, <3>2, <3>3, <3>4, <3>6 DEF Claimed
    <2>2. CASE ~(x = h /\ y = p)
      <3>1. missed'[x][y] = missed[x][y]
        BY <1>5, <2>2
      <3>2. y \in DOMAIN peers[x]
        BY <3>1 DEF Inv, Kept, Claimed
      <3>3. y \in DOMAIN peers'[x] /\ peers'[x][y].age = peers[x][y].age
        BY <1>4, <2>2, <3>2
      <3>4. ~(q.kind = "records" /\ q.from = y /\ q.to = x)
        BY <2>2 DEF h, p
      <3> QED
        BY <1>3, <3>1, <3>3, <3>4, SettledClaim
    <2> QED
      BY <2>1, <2>2
  <1> QED
    BY <1>3, <1>6, <1>7, <1>8, SettledFrame DEF Inv

LEMMA ReceiveKeeps ==
  ASSUME Inv, NEW q \in packets, Receive(q) \/ Duplicate(q)
  PROVE  Inv'
  <1>1. faults' \in 0..MaxFaults
    BY Constants DEF Receive, Duplicate, Fault, Inv, Types
  <1>2. /\ packets \ {q} \subseteq packets' /\ packets' \subseteq packets
        /\ UNCHANGED <<os, replaced, gone>> /\ Handle(q)
    BY DEF Receive, Duplicate
  <1>3. q.kind \in {"records", "goodbye", "query"}
    BY DEF Inv, InFlight, Credible, Packet
  <1> QED
    BY <1>1, <1>2, <1>3, QueryKeeps, GoodbyeKeeps, RecordsKeep DEF Handle

\* A packet is lost: an announcement that was due, at the latest, when the entry
\* had the age that was allowed, allows it another interval.
LEMMA LoseKeeps ==
  ASSUME Inv, NEW q \in packets, Lose(q)
  PROVE  Inv'
  <1> USE Constants
  <1> DEFINE h == q.to
             p == q.from
  <1>1. h \in Host /\ p \in Host
    BY DEF Inv, InFlight, Credible, Packet
  <1>2. /\ packets' = packets \ {q} /\ faults' \in 0..MaxFaults
        /\ UNCHANGED <<os, d, peers, replaced, gone>>
        /\ missed' = IF q.kind = "records" /\ missed[h][p] < Unclaimed
                     THEN [missed EXCEPT ![h][p] = missed[h][p] + 1] ELSE missed
    BY DEF Lose, Fault, Inv, Types
  <1>3. Settled
    BY <1>2 DEF Settled, Inv, Types
  <1> HIDE DEF h, p
  <1>4. /\ missed' \in [Host -> [Host -> 0..Unclaimed]]
        /\ q.kind = "records" /\ missed[h][p] < Unclaimed => missed'[h][p] = missed[h][p] + 1
        /\ ~(q.kind = "records" /\ missed[h][p] < Unclaimed) => missed' = missed
        /\ \A x, y \in Host : ~(x = h /\ y = p) => missed'[x][y] = missed[x][y]
    <2>1. missed \in [Host -> [Host -> 0..Unclaimed]]
      BY DEF Inv, Types
    <2>2. CASE q.kind = "records" /\ missed[h][p] < Unclaimed
      <3>1. missed[h][p] \in 0..Unclaimed
        BY <1>1, <2>1
      <3>2. missed[h][p] + 1 \in 0..Unclaimed
        BY <2>2, <3>1
      <3>3. missed' = [missed EXCEPT ![h][p] = missed[h][p] + 1]
        BY <1>2, <2>2
      <3> QED
        BY <1>1, <2>1, <2>2, <3>2, <3>3
    <2>3. CASE ~(q.kind = "records" /\ missed[h][p] < Unclaimed)
      BY <1>2, <2>1, <2>3
    <2> QED
      BY <2>2, <2>3
  <1>5. Types'
    BY <1>2, <1>4 DEF Inv, Types
  <1>6. Expiry'
    BY <1>2 DEF Inv, Expiry
  <1>7. Kept'
    <2> SUFFICES ASSUME NEW x \in Host, NEW y \in Host, missed'[x][y] < Unclaimed
                 PROVE  Claimed(x, y)'
      BY DEF Kept
    <2>1. CASE q.kind = "records" /\ x = h /\ y = p
      <3>1. missed[h][p] = 0 /\ missed'[h][p] = 1
        <4>1. missed[h][p] \in 0..2 /\ missed'[h][p] < 2
          BY <1>1, <2>1 DEF Inv, Types
        <4> QED
          BY <1>4, <2>1, <4>1
      <3>2. Claimed(h, p)
        BY <1>1, <3>1 DEF Inv, Kept
      <3>3. Up(h)' /\ Up(p)' /\ records(p) \subseteq records(p)'
        BY <1>1, <1>2, <1>3, <3>2, SettledFrame DEF Claimed
      <3>4. (h \in reached(p))'
        BY <1>1, <1>2, <3>2, <3>3, ReachedFrame DEF Claimed
      <3>5. peers[h][p].age \in Nat /\ d[p].since \in Nat
        BY <1>1, <3>2 DEF Claimed, Inv, Types, Entry, Daemon
      <3>6. peers[h][p].age <= AnnounceMax + d[p].since
        BY <3>1, <3>2, <3>5 DEF Claimed, Allowed
      <3>7. peers'[h][p].age + AnnounceMax <= Allowed(missed'[h][p]) + d'[p].since
        BY <1>2, <3>1, <3>5, <3>6 DEF Allowed
      <3> QED
        BY <1>2, <2>1, <3>2, <3>3, <3>4, <3>7 DEF Claimed
    <2>2. CASE ~(q.kind = "records" /\ x = h /\ y = p)
      <3>1. missed'[x][y] = missed[x][y]
        BY <1>4, <2>2
      <3>2. y \in DOMAIN peers[x]
        BY <3>1 DEF Inv, Kept, Claimed
      <3>3. ~(q.kind = "records" /\ q.from = y /\ q.to = x)
        BY <2>2 DEF h, p
      <3> QED
        BY <1>2, <1>3, <3>1, <3>2, <3>3, SettledClaim
    <2> QED
      BY <2>1, <2>2
  <1> QED
    BY <1>2, <1>3, <1>5, <1>6, <1>7, SettledFrame DEF Inv

-----------------------------------------------------------------------------
\* A machine starts, ends or changes its interfaces: what others have heard of it
\* stays, what was promised about it or to it is void.
Local(h) ==
    /\ os' \in [Host -> Machine] /\ d' \in [Host -> Daemon] /\ DOMAIN peers' = Host
    /\ \A x \in Host \ {h} : os'[x] = os[x] /\ d'[x] = d[x] /\ peers'[x] = peers[x]
    /\ peers'[h] = peers[h] \/ DOMAIN peers'[h] = {}
    /\ faults' \in 0..MaxFaults /\ replaced' \in [Host -> BOOLEAN]
    /\ gone' \in [Host -> [Addr -> 0..Stale + 1]]
    /\ \A x \in Host, a \in Addr : gone'[x][a] <= gone[x][a]
    /\ missed' \in [Host -> [Host -> 0..Unclaimed]]
    /\ \A x, y \in Host : missed'[x][y] < Unclaimed =>
            x # h /\ y # h /\ missed'[x][y] = missed[x][y]
    /\ \A q \in packets : q.to # h => q \in packets'
    /\ \A q \in packets' : (q \in packets /\ (q.to # h \/ Up(h)')) \/ Credible(q)'
    /\ d'[h].net # "wait" => d'[h].run \in {"up", "mute", "closing"}
    /\ d'[h].run \in {"up", "closing"} => \A a \in usable(h)' : gone'[h][a] = 0

LEMMA LocalKeeps ==
  ASSUME Inv, NEW h \in Host, Local(h)
  PROVE  Inv'
  <1> USE Constants
  <1>1. \A x \in Host \ {h} : (Up(x)' <=> Up(x)) /\ usable(x)' = usable(x) /\ records(x)' = records(x)
    BY DEF Local, Up, usable, records
  <1>2. \A x \in Host, a \in Addr : gone[x][a] = 0 => gone'[x][a] = 0
    BY DEF Local, Inv, Types
  <1>3. Types'
    <2>1. ASSUME NEW x \in Host
          PROVE  /\ DOMAIN peers'[x] \subseteq Host \ {x}
                 /\ \A p \in DOMAIN peers'[x] : peers'[x][p] \in Entry
      <3>1. peers'[x] = peers[x] \/ DOMAIN peers'[x] = {}
        BY DEF Local
      <3> QED
        BY <3>1 DEF Inv, Types
    <2> QED
      BY <2>1 DEF Local, Types
  <1>4. InFlight'
    <2> SUFFICES ASSUME NEW q \in packets', q \in packets, q.to # h \/ Up(h)'
                 PROVE  Credible(q)'
      BY DEF InFlight, Local
    <2>1. Credible(q)
      BY DEF Inv, InFlight
    <2>2. q.to \in Host /\ q.from \in Host /\ q.addrs \subseteq Addr
      BY <2>1 DEF Credible, Packet
    <2>3. Up(q.to)'
      BY <1>1, <2>1, <2>2 DEF Credible
    <2> QED
      BY <1>2, <2>1, <2>2, <2>3 DEF Credible
  <1>5. Present'
    <2>1. ASSUME NEW x \in Host, x # h
          PROVE  /\ d'[x].net # "wait" => d'[x].run \in {"up", "mute", "closing"}
                 /\ d'[x].run \in {"up", "closing"} => \A a \in usable(x)' : gone'[x][a] = 0
      <3>1. d'[x] = d[x] /\ usable(x)' = usable(x) /\ usable(x) \subseteq Addr
        BY <1>1, <2>1, UsableType DEF Local
      <3> QED
        BY <1>2, <3>1 DEF Inv, Present
    <2> QED
      BY <2>1 DEF Present, Local
  <1>6. Expiry'
    <2> SUFFICES ASSUME NEW x \in Host, NEW p \in DOMAIN peers'[x]
                 PROVE  gone'[p][peers'[x][p].addr] <= peers'[x][p].age
                        /\ peers'[x][p].age <= PeerLifetime + 1
      BY DEF Expiry
    <2>1. peers'[x] = peers[x] /\ p \in DOMAIN peers[x]
      BY DEF Local
    <2>2. p \in Host /\ peers[x][p] \in Entry
      BY <2>1 DEF Inv, Types
    <2>3. peers[x][p].addr \in Addr /\ peers[x][p].age \in Nat
      BY <2>2 DEF Entry
    <2>4. gone[p][peers[x][p].addr] <= peers[x][p].age /\ peers[x][p].age <= PeerLifetime + 1
      BY <2>1 DEF Inv, Expiry
    <2>5. gone'[p][peers[x][p].addr] <= gone[p][peers[x][p].addr]
          /\ gone[p][peers[x][p].addr] \in Nat /\ gone'[p][peers[x][p].addr] \in Nat
      BY <2>2, <2>3 DEF Local, Inv, Types
    <2> QED
      BY <2>1, <2>3, <2>4, <2>5
  <1>7. Kept'
    <2> SUFFICES ASSUME NEW x \in Host, NEW y \in Host, missed'[x][y] < Unclaimed
                 PROVE  Claimed(x, y)'
      BY DEF Kept
    <2>1. x # h /\ y # h /\ missed'[x][y] = missed[x][y]
      BY DEF Local
    <2>2. Claimed(x, y)
      BY <2>1 DEF Inv, Kept
    <2>3. Up(x)' /\ Up(y)' /\ records(y)' = records(y)
      BY <1>1, <2>1, <2>2 DEF Claimed
    <2>4. os'[x] = os[x] /\ peers'[x] = peers[x] /\ d'[y] = d[y]
      BY <2>1 DEF Local
    <2>5. Coming(x, y) => Coming(x, y)'
      BY <2>1 DEF Coming, Local
    <2>6. y \in DOMAIN peers[x]
      BY <2>2 DEF Claimed
    <2> QED
      BY <2>1, <2>3, <2>4, <2>5, <2>6, ClaimFrame
  <1> QED
    BY <1>3, <1>4, <1>5, <1>6, <1>7 DEF Inv

LEMMA UnclaimFacts ==
  ASSUME Types, NEW h \in Host, Unclaim(h)
  PROVE  /\ missed' \in [Host -> [Host -> 0..Unclaimed]]
         /\ \A x, y \in Host : missed'[x][y] < Unclaimed =>
                x # h /\ y # h /\ missed'[x][y] = missed[x][y]
  BY Constants DEF Types, Unclaim

LEMMA SeenFacts ==
  ASSUME Types, NEW h \in Host, NEW A \in SUBSET Addr, Seen(h, A)
  PROVE  /\ gone' \in [Host -> [Addr -> 0..Stale + 1]]
         /\ \A x \in Host, a \in Addr : gone'[x][a] <= gone[x][a]
         /\ \A a \in A : gone'[h][a] = 0
         /\ \A a \in Addr \ A : gone'[h][a] = gone[h][a]
  BY Constants DEF Types, Seen

\* Nothing was promised about, or sent to, a machine whose responder is not up.
LEMMA NotUpFacts ==
  ASSUME Inv, NEW h \in Host, ~Up(h)
  PROVE  /\ \A x, y \in Host : missed[x][y] < Unclaimed => x # h /\ y # h
         /\ \A q \in packets : q.to # h
  BY DEF Inv, Kept, Claimed, InFlight, Credible
LEMMA StartKeeps ==
  ASSUME Inv, NEW h \in Host, Start(h) \/ StartMute(h)
  PROVE  Inv'
  <1> USE Constants
  <1>1. /\ Types /\ ~Up(h) /\ d \in [Host -> Daemon] /\ os \in [Host -> Machine]
        /\ DOMAIN peers = Host
    BY DEF Inv, Types, Start, StartMute, Up
  <1>2. CASE Start(h)
    <2>1. /\ d' = [d EXCEPT ![h] = Started(h)]
          /\ os' = [os EXCEPT ![h].member = names(usable(h))]
          /\ replaced' = [replaced EXCEPT ![h] = FALSE]
          /\ Seen(h, usable(h))
          /\ UNCHANGED <<peers, packets, faults, missed>>
      BY <1>2 DEF Start
    <2>2. d' \in [Host -> Daemon] /\ d'[h] = Started(h) /\ \A x \in Host \ {h} : d'[x] = d[x]
      BY <1>1, <2>1, StartedType
    <2>3. os' \in [Host -> Machine] /\ os'[h].lan = os[h].lan /\ \A x \in Host \ {h} : os'[x] = os[x]
      BY <1>1, <2>1, UsableType DEF Machine
    <2>4. replaced' \in [Host -> BOOLEAN]
      BY <1>1, <2>1 DEF Types
    <2>5. usable(h)' = usable(h)
      BY <2>3 DEF usable
    <2>6. /\ gone' \in [Host -> [Addr -> 0..Stale + 1]]
          /\ \A x \in Host, a \in Addr : gone'[x][a] <= gone[x][a]
          /\ \A a \in usable(h) : gone'[h][a] = 0
      BY <1>1, <2>1, SeenFacts, UsableType
    <2>7. missed' \in [Host -> [Host -> 0..Unclaimed]] /\ faults' \in 0..MaxFaults
      BY <1>1, <2>1 DEF Types
    <2>8. /\ \A x, y \in Host : missed'[x][y] < Unclaimed =>
                x # h /\ y # h /\ missed'[x][y] = missed[x][y]
          /\ \A q \in packets : q.to # h /\ q \in packets'
          /\ \A q \in packets' : q \in packets /\ q.to # h
      BY <1>1, <2>1, NotUpFacts
    <2>9. d'[h].net = "wait"
      BY <2>2, StartedFields
    <2>10. DOMAIN peers' = Host /\ \A x \in Host : peers'[x] = peers[x]
      BY <1>1, <2>1
    <2>11. Local(h)
      BY <2>2, <2>3, <2>4, <2>5, <2>6, <2>7, <2>8, <2>9, <2>10 DEF Local
    <2> QED
      BY <2>11, LocalKeeps
  <1>3. CASE StartMute(h)
    <2> DEFINE r == [Started(h) EXCEPT !.run = "mute", !.left = 0, !.joined = {}]
    <2>1. /\ d' = [d EXCEPT ![h] = r]
          /\ Fault
          /\ UNCHANGED <<os, peers, packets, missed, replaced, gone>>
      BY <1>3 DEF StartMute, observers
    <2>2. r \in Daemon /\ r.run = "mute" /\ r.net = "wait"
      BY StartedType, StartedFields
    <2> HIDE DEF r
    <2>3. d' \in [Host -> Daemon] /\ d'[h] = r /\ \A x \in Host \ {h} : d'[x] = d[x]
      BY <1>1, <2>1, <2>2
    <2>4. faults' \in 0..MaxFaults
      BY <1>1, <2>1 DEF Fault, Types
    <2>5. /\ missed' \in [Host -> [Host -> 0..Unclaimed]]
          /\ gone' \in [Host -> [Addr -> 0..Stale + 1]]
          /\ \A x \in Host, a \in Addr : gone'[x][a] <= gone[x][a]
      BY <1>1, <2>1 DEF Types
    <2>6. replaced' \in [Host -> BOOLEAN]
      BY <1>1, <2>1 DEF Types
    <2>7. /\ \A x, y \in Host : missed'[x][y] < Unclaimed =>
                x # h /\ y # h /\ missed'[x][y] = missed[x][y]
          /\ \A q \in packets : q.to # h /\ q \in packets'
          /\ \A q \in packets' : q \in packets /\ q.to # h
      BY <1>1, <2>1, NotUpFacts
    <2> QED
      BY <1>1, <2>1, <2>2, <2>3, <2>4, <2>5, <2>6, <2>7, LocalKeeps DEF Local
  <1> QED
    BY <1>2, <1>3

\* The process of h ends, in whatever way.
LEMMA GoneKeeps ==
  ASSUME Inv, NEW h \in Host, NEW state \in {"down", "panicked"}, Gone(h, state),
         faults' \in 0..MaxFaults, UNCHANGED <<replaced, gone>>,
         \/ (~Up(h) /\ packets' = packets /\ missed' = missed)
         \/ (packets' = NotTo(h) /\ Unclaim(h))
  PROVE  Inv'
  <1> USE Constants
  <1>1. /\ Types /\ d \in [Host -> Daemon] /\ os \in [Host -> Machine] /\ DOMAIN peers = Host
    BY DEF Inv, Types
  <1> DEFINE r == [Down EXCEPT !.run = state]
  <1>2. r \in Daemon /\ r.run = state /\ r.net = "wait"
    <2>1. r \in Daemon
      BY DownType, FieldTypes
    <2> QED
      BY <2>1 DEF Down
  <1>3. d' = [d EXCEPT ![h] = r]
    BY DEF Gone
  <1> HIDE DEF r
  <1>4. d' \in [Host -> Daemon] /\ d'[h] = r /\ \A x \in Host \ {h} : d'[x] = d[x]
    BY <1>1, <1>2, <1>3
  <1>5. os' \in [Host -> Machine] /\ \A x \in Host \ {h} : os'[x] = os[x]
    BY <1>1 DEF Gone, Machine
  <1>6. DOMAIN peers' = Host /\ DOMAIN peers'[h] = {} /\ \A x \in Host \ {h} : peers'[x] = peers[x]
    BY <1>1, NoPeers DEF Gone
  <1>7. /\ gone' \in [Host -> [Addr -> 0..Stale + 1]]
        /\ \A x \in Host, a \in Addr : gone'[x][a] <= gone[x][a]
    BY <1>1 DEF Types
  <1>8. replaced' \in [Host -> BOOLEAN]
    BY <1>1 DEF Types
  <1>9. /\ missed' \in [Host -> [Host -> 0..Unclaimed]]
        /\ \A x, y \in Host : missed'[x][y] < Unclaimed =>
                x # h /\ y # h /\ missed'[x][y] = missed[x][y]
        /\ \A q \in packets : q.to # h => q \in packets'
        /\ \A q \in packets' : q \in packets /\ q.to # h
    <2>1. CASE ~Up(h) /\ packets' = packets /\ missed' = missed
      BY <1>1, <2>1, NotUpFacts DEF Types
    <2>2. CASE packets' = NotTo(h) /\ Unclaim(h)
      BY <1>1, <2>2, UnclaimFacts DEF NotTo
    <2> QED
      BY <2>1, <2>2
  <1> QED
    BY <1>2, <1>4, <1>5, <1>6, <1>7, <1>8, <1>9, LocalKeeps DEF Local

LEMMA EndKeeps ==
  ASSUME Inv, NEW h \in Host, Close(h) \/ Crash(h) \/ (NetNotify(h) /\ d[h].run = "mute")
  PROVE  Inv'
  <1> USE Constants
  <1>1. faults \in 0..MaxFaults
    BY DEF Inv, Types
  <1>2. CASE Close(h)
    <2>1. ~Up(h) /\ Gone(h, "down") /\ UNCHANGED <<packets, faults, missed, replaced, gone>>
      BY <1>2 DEF Close, observers, Up
    <2> QED
      BY <1>1, <2>1, GoneKeeps
  <1>3. CASE Crash(h)
    <2>1. faults' \in 0..MaxFaults
      BY <1>1, <1>3 DEF Crash, Fault
    <2> QED
      BY <1>3, <2>1, GoneKeeps DEF Crash
  <1>4. CASE NetNotify(h) /\ d[h].run = "mute"
    <2>1. ~Up(h) /\ Gone(h, "panicked") /\ UNCHANGED <<packets, faults, missed, replaced, gone>>
      BY <1>4 DEF NetNotify, observers, Up
    <2> QED
      BY <1>1, <2>1, GoneKeeps
  <1> QED
    BY <1>2, <1>3, <1>4

\* The goodbye goes to others, and h no longer reads.
LEMMA StopKeeps ==
  ASSUME Inv, NEW h \in Host, Stop(h)
  PROVE  Inv'
  <1> USE Constants
  <1>1. Types /\ d \in [Host -> Daemon] /\ os \in [Host -> Machine] /\ DOMAIN peers = Host
    BY DEF Inv, Types
  <1>2. /\ Up(h) /\ Fault /\ Unclaim(h)
        /\ d' = [d EXCEPT ![h].run = "closing"]
        /\ packets' = NotTo(h) \cup announced(h, "goodbye")
        /\ UNCHANGED <<os, peers, replaced, gone>>
    BY DEF Stop
  <1>3. /\ d' \in [Host -> Daemon]
        /\ d'[h].run = "closing" /\ d'[h].net = d[h].net
        /\ \A x \in Host \ {h} : d'[x] = d[x]
    <2>1. [d[h] EXCEPT !.run = "closing"] \in Daemon
      BY <1>1, FieldTypes
    <2>2. d' = [d EXCEPT ![h] = [d[h] EXCEPT !.run = "closing"]]
      BY <1>2
    <2>3. d'[h].run = "closing" /\ d'[h].net = d[h].net
      BY <1>1, <1>2 DEF Daemon
    <2> QED
      BY <1>1, <2>1, <2>2, <2>3
  <1>4. faults' \in 0..MaxFaults
    BY <1>1, <1>2 DEF Fault, Types
  <1>5. /\ gone' \in [Host -> [Addr -> 0..Stale + 1]]
        /\ \A x \in Host, a \in Addr : gone'[x][a] <= gone[x][a]
    BY <1>1, <1>2 DEF Types
  <1>6. replaced' \in [Host -> BOOLEAN]
    BY <1>1, <1>2 DEF Types
  <1>7. \A q \in packets : q.to # h => q \in packets'
    BY <1>2 DEF NotTo
  <1>8. ASSUME NEW q \in packets'
        PROVE  (q \in packets /\ q.to # h) \/ Credible(q)'
    <2>1. CASE q \in NotTo(h)
      BY <2>1 DEF NotTo
    <2>2. CASE q \in announced(h, "goodbye")
      <3>1. Credible(q) /\ q.to # h
        BY <1>1, <1>2, <2>2, Sent DEF Inv, Up
      <3>2. Up(q.to)'
        BY <1>3, <3>1 DEF Credible, Packet, Up
      <3> QED
        BY <1>2, <3>1, <3>2, CredibleFrame
    <2> QED
      BY <1>2, <2>1, <2>2
  <1>9. \A a \in usable(h)' : gone'[h][a] = 0
    <2>1. usable(h)' = usable(h)
      BY <1>2 DEF usable
    <2> QED
      BY <1>2, <2>1 DEF Inv, Present, Up
  <1>10. /\ missed' \in [Host -> [Host -> 0..Unclaimed]]
         /\ \A x, y \in Host : missed'[x][y] < Unclaimed =>
                x # h /\ y # h /\ missed'[x][y] = missed[x][y]
    BY <1>1, <1>2, UnclaimFacts
  <1>11. DOMAIN peers' = Host /\ os' \in [Host -> Machine]
         /\ \A x \in Host : peers'[x] = peers[x] /\ os'[x] = os[x]
    BY <1>1, <1>2
  <1>12. Local(h)
    BY <1>3, <1>4, <1>5, <1>6, <1>7, <1>8, <1>9, <1>10, <1>11 DEF Local
  <1> QED
    BY <1>12, LocalKeeps

\* An interface changes.
LEMMA IfaceKeeps ==
  ASSUME Inv, NEW h \in Host, NEW i \in Iface,
         (\E n \in Lan : Attach(h, i, n)) \/ Detach(h, i) \/ Remove(h, i)
  PROVE  Inv'
  <1> USE Constants
  <1>1. Types /\ d \in [Host -> Daemon] /\ os \in [Host -> Machine] /\ DOMAIN peers = Host
    BY DEF Inv, Types
  <1>2. Fault /\ Unclaim(h) /\ UNCHANGED <<peers, packets>>
    BY DEF Attach, Detach, Remove
  <1>3. faults' \in 0..MaxFaults
    BY <1>1, <1>2 DEF Fault, Types
  <1>4. /\ missed' \in [Host -> [Host -> 0..Unclaimed]]
        /\ \A x, y \in Host : missed'[x][y] < Unclaimed =>
               x # h /\ y # h /\ missed'[x][y] = missed[x][y]
    BY <1>1, <1>2, UnclaimFacts
  <1>5. DOMAIN peers' = Host /\ \A x \in Host : peers'[x] = peers[x]
    BY <1>1, <1>2
  <1>6. /\ d' \in [Host -> Daemon] /\ \A x \in Host \ {h} : d'[x] = d[x]
        /\ d'[h].run = d[h].run /\ d'[h].net = d[h].net
    <2>1. CASE d' = d
      BY <1>1, <2>1
    <2>2. CASE d' = [d EXCEPT ![h].fresh = @ \ {i}]
      <3> DEFINE v == d[h].fresh \ {i}
      <3>1. v \in SUBSET Iface
        BY <1>1 DEF Daemon
      <3> HIDE DEF v
      <3>2. [d[h] EXCEPT !.fresh = v] \in Daemon
        BY <1>1, <3>1, FieldTypes
      <3>3. d' = [d EXCEPT ![h] = [d[h] EXCEPT !.fresh = v]]
        BY <2>2 DEF v
      <3>4. d'[h].run = d[h].run /\ d'[h].net = d[h].net
        BY <1>1, <3>3 DEF Daemon
      <3> QED
        BY <1>1, <3>2, <3>3, <3>4
    <2> QED
      BY <2>1, <2>2 DEF Attach, Detach, Remove
  <1>7. ASSUME NEW n \in Lan, Attach(h, i, n)
        PROVE  Local(h)
    <2>1. /\ os' = [os EXCEPT ![h].lan[i] = n] /\ d' = d
          /\ Seen(h, IF d[h].run \in {"up", "closing"} THEN {<<i, n>>} ELSE {})
          /\ replaced' = [replaced EXCEPT ![h] = @ \/ Mistaken(h, i, n)]
      BY <1>7 DEF Attach
    <2>2. /\ os' \in [Host -> Machine] /\ \A x \in Host \ {h} : os'[x] = os[x]
          /\ os'[h].lan = [os[h].lan EXCEPT ![i] = n] /\ os[h].lan \in [Iface -> Lan \cup {NoAddr, Removed}]
      BY <1>1, <2>1 DEF Machine
    <2>3. replaced' \in [Host -> BOOLEAN]
      <3>1. replaced \in [Host -> BOOLEAN]
        BY <1>1 DEF Types
      <3>2. \A b : [replaced EXCEPT ![h] = @ \/ b] \in [Host -> BOOLEAN]
        BY <3>1
      <3> QED
        BY <2>1, <3>2
    <2> DEFINE A == IF d[h].run \in {"up", "closing"} THEN {<<i, n>>} ELSE {}
    <2>4. A \in SUBSET Addr
      BY DEF Addr
    <2>5. /\ gone' \in [Host -> [Addr -> 0..Stale + 1]]
          /\ \A x \in Host, a \in Addr : gone'[x][a] <= gone[x][a]
          /\ \A a \in A : gone'[h][a] = 0
      BY <1>1, <2>1, <2>4, SeenFacts
    <2>6. ASSUME d[h].run \in {"up", "closing"}, NEW a \in usable(h)'
          PROVE  gone'[h][a] = 0
      <3>1. a \in Addr /\ os'[h].lan[a[1]] = a[2] /\ a = <<a[1], a[2]>> /\ a[1] \in Iface
        BY <2>6 DEF usable, Addr
      <3>2. CASE a[1] = i
        <4>1. a[2] = n
          BY <2>2, <3>1, <3>2
        <4>2. a \in A
          BY <2>6, <3>1, <3>2, <4>1
        <4> QED
          BY <2>5, <4>2
      <3>3. CASE a[1] # i
        <4>1. a \in usable(h)
          BY <2>2, <3>1, <3>3 DEF usable
        <4>2. gone[h][a] = 0
          BY <2>6, <4>1 DEF Inv, Present
        <4>3. gone'[h][a] <= 0 /\ gone'[h][a] \in 0..Stale + 1
          BY <2>5, <3>1, <4>2
        <4> QED
          BY <4>3
      <3> QED
        BY <3>2, <3>3
    <2>7. d[h].net # "wait" => d[h].run \in {"up", "mute", "closing"}
      BY DEF Inv, Present
    <2>8. \A q \in packets' : q \in packets /\ (q.to # h \/ Up(h)')
      BY <1>2, <2>1 DEF Inv, InFlight, Credible, Up
    <2> HIDE DEF A
    <2> QED
      BY <1>2, <1>3, <1>4, <1>5, <1>6, <2>2, <2>3, <2>5, <2>6, <2>7, <2>8 DEF Local
  <1>8. ASSUME Detach(h, i) \/ Remove(h, i)
        PROVE  Local(h)
    <2>1. UNCHANGED <<replaced, gone>>
      BY <1>8 DEF Detach, Remove
    <2>2. \E n \in {NoAddr, Removed} :
            /\ os' \in [Host -> Machine] /\ \A x \in Host \ {h} : os'[x] = os[x]
            /\ os'[h].lan = [os[h].lan EXCEPT ![i] = n]
      <3>1. CASE Detach(h, i)
        BY <1>1, <3>1 DEF Detach, Machine
      <3>2. CASE Remove(h, i)
        <4> DEFINE x == [os[h] EXCEPT !.lan[i] = Removed]
                   m == [x EXCEPT !.member = @ \ {i}]
        <4>1. x \in Machine /\ x.lan = [os[h].lan EXCEPT ![i] = Removed]
          BY <1>1 DEF Machine
        <4>2. os' = [os EXCEPT ![h] = m]
          BY <3>2 DEF Remove
        <4> HIDE DEF x
        <4>3. m \in Machine /\ m.lan = [os[h].lan EXCEPT ![i] = Removed]
          BY <4>1 DEF Machine
        <4> HIDE DEF m
        <4> QED
          BY <1>1, <4>2, <4>3
      <3> QED
        BY <1>8, <3>1, <3>2
    <2>3. /\ gone' \in [Host -> [Addr -> 0..Stale + 1]]
          /\ \A x \in Host, a \in Addr : gone'[x][a] <= gone[x][a]
      BY <1>1, <2>1 DEF Types
    <2>4. replaced' \in [Host -> BOOLEAN]
      BY <1>1, <2>1 DEF Types
    <2>5. usable(h)' \subseteq usable(h)
      <3>1. PICK n \in {NoAddr, Removed} : os'[h].lan = [os[h].lan EXCEPT ![i] = n]
        BY <2>2
      <3>2. os[h].lan \in [Iface -> Lan \cup {NoAddr, Removed}] /\ n \notin Lan
        BY <1>1, LanAssumption DEF Machine
      <3> SUFFICES ASSUME NEW a \in Addr, os'[h].lan[a[1]] = a[2]
                   PROVE  os[h].lan[a[1]] = a[2]
        BY DEF usable
      <3>3. a[1] \in Iface /\ a[2] \in Lan
        BY DEF Addr
      <3> QED
        BY <3>1, <3>2, <3>3
    <2>6. d[h].run \in {"up", "closing"} => \A a \in usable(h)' : gone'[h][a] = 0
      BY <2>1, <2>5 DEF Inv, Present
    <2>7. d[h].net # "wait" => d[h].run \in {"up", "mute", "closing"}
      BY DEF Inv, Present
    <2>8. \A q \in packets' : q \in packets /\ (q.to # h \/ Up(h)')
      BY <1>2, <1>6 DEF Inv, InFlight, Credible, Up
    <2> QED
      BY <1>2, <1>3, <1>4, <1>5, <1>6, <2>2, <2>3, <2>4, <2>6, <2>7, <2>8 DEF Local
  <1> QED
    BY <1>7, <1>8, LocalKeeps
-----------------------------------------------------------------------------
\* sweepLoop, netLoop and the clock

\* The entry of a peer that was promised to stay is never old enough to be swept.
LEMMA ClaimedYoung ==
  ASSUME Inv, NEW h \in Host, NEW p \in Host, missed[h][p] < Unclaimed
  PROVE  /\ Claimed(h, p) /\ p \in DOMAIN peers[h]
         /\ peers[h][p].age \in Nat /\ peers[h][p].age <= PeerLifetime
  <1> USE Constants
  <1>1. Claimed(h, p) /\ p \in DOMAIN peers[h]
    BY DEF Inv, Kept, Claimed
  <1>2. peers[h][p].age \in Nat /\ d[p].since \in 0..AnnounceMax /\ missed[h][p] \in 0..2
    BY <1>1 DEF Inv, Types, Entry, Daemon
  <1> DEFINE age == peers[h][p].age
             since == d[p].since
             most == Allowed(missed[h][p])
  <1>3. most \in Nat /\ most <= 2 * AnnounceMax
    BY <1>2 DEF Allowed
  <1>4. age + AnnounceMax <= most + since \/ age <= most
    BY <1>1 DEF Claimed
  <1> HIDE DEF age, since, most
  <1>5. age \in Nat /\ since \in 0..AnnounceMax
    BY <1>2 DEF age, since
  <1>6. age <= PeerLifetime
    BY <1>3, <1>4, <1>5
  <1> QED
    BY <1>1, <1>5, <1>6 DEF age

LEMMA SweepKeeps ==
  ASSUME Inv, NEW h \in Host, Sweep(h)
  PROVE  Inv'
  <1> USE Constants
  <1>1. /\ peers' = [peers EXCEPT ![h] = Restrict(peers[h], sweep(h))]
        /\ UNCHANGED <<os, d, packets, faults, missed, replaced, gone>>
    BY DEF Sweep, observers
  <1>2. Settled
    BY <1>1 DEF Settled, Inv, Types
  <1>3. /\ DOMAIN peers' = Host
        /\ \A x \in Host : DOMAIN peers'[x] \subseteq DOMAIN peers[x]
        /\ \A x \in Host : \A y \in DOMAIN peers'[x] : peers'[x][y] = peers[x][y]
        /\ \A x \in Host : \A y : y \in DOMAIN peers[x] /\ (x = h => ~Expired(peers[x][y]))
                                => y \in DOMAIN peers'[x]
    BY <1>1 DEF Inv, Types, sweep, Restrict
  <1>4. Types'
    BY <1>1, <1>3 DEF Inv, Types
  <1>5. Expiry'
    BY <1>1, <1>3 DEF Inv, Expiry, Types
  <1>6. Kept'
    <2> SUFFICES ASSUME NEW x \in Host, NEW y \in Host, missed[x][y] < Unclaimed
                 PROVE  Claimed(x, y)'
      BY <1>1 DEF Kept
    <2>1. y \in DOMAIN peers[x] /\ peers[x][y].age \in Nat /\ peers[x][y].age <= PeerLifetime
      BY ClaimedYoung
    <2>2. ~Expired(peers[x][y])
      BY <2>1 DEF Expired
    <2>3. y \in DOMAIN peers'[x] /\ peers'[x][y].age = peers[x][y].age
      BY <1>3, <2>1, <2>2
    <2>4. Up(x)' /\ Up(y)' /\ records(y) \subseteq records(y)' /\ (Coming(x, y) => Coming(x, y)')
      BY <1>1, ClaimedYoung, <1>2, SettledFrame, ComingFrame DEF Claimed
    <2> QED
      BY <1>1, <2>3, <2>4, ClaimFrame
  <1> QED
    BY <1>1, <1>2, <1>4, <1>5, <1>6, SettledFrame DEF Inv

\* refresh makes the addresses of the filter those of now.
LEMMA NetRefreshKeeps ==
  ASSUME Inv, NEW h \in Host, NetRefresh(h)
  PROVE  Inv'
  <1> USE Constants
  <1>1. d \in [Host -> Daemon]
    BY DEF Inv, Types
  <1>2. /\ d[h].run \in {"up", "mute"}
        /\ d' = [d EXCEPT ![h].addrs = usable(h), ![h].fresh = names(usable(h)), ![h].net = "clear"]
        /\ UNCHANGED <<os, peers, packets, faults, missed, replaced, gone>>
    BY DEF NetRefresh, observers
  <1> DEFINE x == [d[h] EXCEPT !.addrs = usable(h)]
             y == [x EXCEPT !.fresh = names(usable(h))]
             z == [y EXCEPT !.net = "clear"]
  <1>3. d' = [d EXCEPT ![h] = z]
    BY <1>2
  <1>4. x \in Daemon /\ x.run = d[h].run /\ x.since = d[h].since
    <2>1. x \in Daemon
      BY <1>1, UsableType, FieldTypes
    <2>2. x.run = d[h].run /\ x.since = d[h].since
      BY <1>1 DEF Daemon
    <2> QED
      BY <2>1, <2>2
  <1> HIDE DEF x
  <1>5. y \in Daemon /\ y.run = d[h].run /\ y.since = d[h].since /\ y.fresh = names(usable(h))
    <2>1. y \in Daemon
      BY <1>4, UsableType, FieldTypes
    <2>2. y.run = x.run /\ y.since = x.since /\ y.fresh = names(usable(h))
      BY <1>4 DEF Daemon
    <2> QED
      BY <1>4, <2>1, <2>2
  <1> HIDE DEF y
  <1>6. z \in Daemon /\ z.run = d[h].run /\ z.since = d[h].since /\ z.fresh = names(usable(h))
    <2>1. z \in Daemon
      BY <1>5, FieldTypes
    <2>2. z.run = y.run /\ z.since = y.since /\ z.fresh = y.fresh
      BY <1>5 DEF Daemon
    <2> QED
      BY <1>5, <2>1, <2>2
  <1> HIDE DEF z
  <1>7. d' \in [Host -> Daemon] /\ d'[h] = z /\ \A g \in Host \ {h} : d'[g] = d[g]
    BY <1>1, <1>3, <1>6
  <1>8. Types'
    BY <1>2, <1>7 DEF Inv, Types
  <1>9. \A g \in Host : (Up(g)' <=> Up(g)) /\ d'[g].since = d[g].since /\ d'[g].run = d[g].run
    BY <1>6, <1>7 DEF Up
  <1>10. \A g \in Host : usable(g)' = usable(g)
    BY <1>2 DEF usable
  <1>11. \A g \in Host : records(g) \subseteq records(g)'
    BY <1>6, <1>7, <1>10 DEF records, names
  <1>12. InFlight'
    BY <1>2, <1>9, CredibleFrame DEF Inv, InFlight, Credible, Packet
  <1>13. Present'
    <2>1. \A g \in Host : d'[g].run \in {"up", "closing"} => \A a \in usable(g)' : gone'[g][a] = 0
      BY <1>2, <1>9, <1>10 DEF Inv, Present
    <2>2. \A g \in Host : d'[g].net # "wait" => d'[g].run \in {"up", "mute", "closing"}
      BY <1>2, <1>7, <1>9 DEF Inv, Present
    <2> QED
      BY <2>1, <2>2 DEF Present
  <1>14. Expiry'
    BY <1>2 DEF Inv, Expiry
  <1>15. Kept'
    <2> SUFFICES ASSUME NEW g \in Host, NEW p \in Host, missed[g][p] < Unclaimed
                 PROVE  Claimed(g, p)'
      BY <1>2 DEF Kept
    <2>1. Claimed(g, p)
      BY DEF Inv, Kept
    <2> QED
      BY <1>2, <1>9, <1>11, <2>1, ClaimFrame, ComingFrame DEF Claimed
  <1> QED
    BY <1>8, <1>12, <1>13, <1>14, <1>15 DEF Inv

\* The table is cleared, and with it what was promised.
LEMMA NetClearKeeps ==
  ASSUME Inv, NEW h \in Host, NetClear(h)
  PROVE  Inv'
  <1> USE Constants
  <1>1. d \in [Host -> Daemon] /\ missed \in [Host -> [Host -> 0..Unclaimed]] /\ DOMAIN peers = Host
    BY DEF Inv, Types
  <1>2. /\ d[h].net = "clear"
        /\ d' = [d EXCEPT ![h] = [d[h] EXCEPT !.net = "notify"]]
        /\ peers' = [peers EXCEPT ![h] = << >>]
        /\ missed' = [missed EXCEPT ![h] = [p \in Host |-> Unclaimed]]
        /\ UNCHANGED <<os, packets, faults, replaced, gone>>
    BY DEF NetClear
  <1>3. d' \in [Host -> Daemon]
    BY <1>1, <1>2, FieldTypes
  <1>4. \A x \in Host : d'[x].run = d[x].run /\ d'[x].fresh = d[x].fresh /\ d'[x].since = d[x].since
    BY <1>1, <1>2 DEF Daemon
  <1>5. \A x \in Host : d'[x].net # "wait" => d[x].net # "wait"
    BY <1>1, <1>2 DEF Daemon
  <1>6. /\ missed' \in [Host -> [Host -> 0..Unclaimed]]
        /\ \A x, y \in Host : missed'[x][y] < Unclaimed => x # h /\ missed'[x][y] = missed[x][y]
    BY <1>1, <1>2
  <1>7. /\ DOMAIN peers' = Host /\ DOMAIN peers'[h] = {}
        /\ \A x \in Host \ {h} : peers'[x] = peers[x]
    BY <1>1, <1>2, NoPeers
  <1>8. Types'
    <2>1. ASSUME NEW x \in Host
          PROVE  /\ DOMAIN peers'[x] \subseteq Host \ {x}
                 /\ \A p \in DOMAIN peers'[x] : peers'[x][p] \in Entry
      BY <1>7 DEF Inv, Types
    <2> QED
      BY <1>2, <1>3, <1>6, <1>7, <2>1 DEF Inv, Types
  <1>9. \A x \in Host : (Up(x)' <=> Up(x)) /\ usable(x)' = usable(x) /\ records(x) \subseteq records(x)'
    BY <1>2, <1>4 DEF Up, usable, records
  <1>10. InFlight'
    BY <1>2, <1>9, CredibleFrame DEF Inv, InFlight, Credible, Packet
  <1>11. Present'
    BY <1>2, <1>4, <1>5, <1>9 DEF Inv, Present
  <1>12. Expiry'
    BY <1>2, <1>7 DEF Inv, Expiry
  <1>13. Kept'
    <2> SUFFICES ASSUME NEW g \in Host, NEW p \in Host, missed'[g][p] < Unclaimed
                 PROVE  Claimed(g, p)'
      BY DEF Kept
    <2>1. g # h /\ missed'[g][p] = missed[g][p] /\ missed[g][p] < Unclaimed
      BY <1>6
    <2>2. Claimed(g, p)
      BY <2>1 DEF Inv, Kept
    <2> QED
      BY <1>2, <1>4, <1>7, <1>9, <2>1, <2>2, ClaimFrame, ComingFrame DEF Claimed
  <1> QED
    BY <1>8, <1>10, <1>11, <1>12, <1>13 DEF Inv

\* networkChanged joins more groups; its announcement and its question go out on
\* the addresses of now.
LEMMA NetNotifyKeeps ==
  ASSUME Inv, NEW h \in Host, NetNotify(h), d[h].run # "mute"
  PROVE  Inv'
  <1> USE Constants
  <1>1. d \in [Host -> Daemon] /\ os \in [Host -> Machine]
    BY DEF Inv, Types
  <1>2. /\ d[h].net = "notify"
        /\ d' = [d EXCEPT ![h] = [[d[h] EXCEPT !.joined = syncGroups(h)] EXCEPT !.net = "wait"]]
        /\ os' = [os EXCEPT ![h].member = @ \cup joinable(h)]
        /\ packets' = IF syncGroups(h) = {} THEN packets
                      ELSE packets \cup (announced(h, "records") \cup asked(h))'
        /\ UNCHANGED <<peers, faults, missed, replaced, gone>>
    BY DEF NetNotify, observers
  <1>3. d[h].run \in {"up", "closing"}
    BY <1>2 DEF Inv, Present
  <1> DEFINE x == [d[h] EXCEPT !.joined = syncGroups(h)]
             y == [x EXCEPT !.net = "wait"]
  <1>4. x \in Daemon /\ x.run = d[h].run /\ x.since = d[h].since /\ x.fresh = d[h].fresh
    <2>1. x \in Daemon
      BY <1>1, SyncType, FieldTypes DEF Inv
    <2>2. x.run = d[h].run /\ x.since = d[h].since /\ x.fresh = d[h].fresh
      BY <1>1 DEF Daemon
    <2> QED
      BY <2>1, <2>2
  <1>5. d' = [d EXCEPT ![h] = y]
    BY <1>2
  <1> HIDE DEF x
  <1>6. y \in Daemon /\ y.run = x.run /\ y.since = x.since /\ y.fresh = x.fresh /\ y.net = "wait"
    <2>1. y \in Daemon
      BY <1>4, FieldTypes
    <2>2. y.run = x.run /\ y.since = x.since /\ y.fresh = x.fresh /\ y.net = "wait"
      BY <1>4 DEF Daemon
    <2> QED
      BY <2>1, <2>2
  <1> HIDE DEF y
  <1>7. /\ d' \in [Host -> Daemon]
        /\ \A g \in Host : d'[g].run = d[g].run /\ d'[g].fresh = d[g].fresh /\ d'[g].since = d[g].since
        /\ \A g \in Host : d'[g].net # "wait" => d[g].net # "wait"
    BY <1>1, <1>4, <1>5, <1>6
  <1>8. /\ os' \in [Host -> Machine]
        /\ \A g \in Host : os'[g].lan = os[g].lan /\ os[g].member \subseteq os'[g].member
    BY <1>1, <1>2, SyncType DEF Machine, Inv
  <1>9. Types'
    BY <1>2, <1>7, <1>8 DEF Inv, Types
  <1>10. \A g \in Host : (Up(g)' <=> Up(g)) /\ usable(g)' = usable(g) /\ records(g) \subseteq records(g)'
    BY <1>7, <1>8 DEF Up, usable, records
  <1>11. Present'
    BY <1>2, <1>7, <1>10 DEF Inv, Present
  <1>12. InFlight'
    <2> SUFFICES ASSUME NEW q \in packets' PROVE Credible(q)'
      BY DEF InFlight
    <2>1. CASE q \in packets
      BY <1>2, <1>10, <2>1, CredibleFrame DEF Inv, InFlight, Credible, Packet
    <2>2. CASE q \in (announced(h, "records") \cup asked(h))'
      <3>1. records(h)' \subseteq usable(h)' /\ records(h)' \subseteq Addr
        BY DEF records, usable
      <3>2. CASE q \in announced(h, "records")'
        <4>1. PICK g \in (reached(h) \cap Watched)' :
                q = [kind |-> "records", from |-> h, to |-> g, addrs |-> records(h)']
          BY <3>2 DEF announced
        <4>2. g \in Host /\ g # h /\ Up(g)' /\ g \in Watched /\ records(h)' # {}
          BY <4>1 DEF reached
        <4>3. \A a \in records(h)' : gone'[h][a] = 0
          BY <1>3, <1>7, <1>11, <3>1 DEF Present
        <4> QED
          BY <3>1, <4>1, <4>2, <4>3 DEF Credible, Packet
      <3>3. CASE q \in asked(h)'
        <4>1. PICK g \in reached(h)' : q = [kind |-> "query", from |-> h, to |-> g, addrs |-> {}]
          BY <3>3 DEF asked
        <4>2. g \in Host /\ g # h /\ Up(g)'
          BY <4>1 DEF reached
        <4> QED
          BY <4>1, <4>2 DEF Credible, Packet
      <3> QED
        BY <2>2, <3>2, <3>3
    <2> QED
      BY <1>2, <2>1, <2>2
  <1>13. Expiry'
    BY <1>2 DEF Inv, Expiry
  <1>14. Kept'
    <2> SUFFICES ASSUME NEW g \in Host, NEW p \in Host, missed[g][p] < Unclaimed
                 PROVE  Claimed(g, p)'
      BY <1>2 DEF Kept
    <2>1. Claimed(g, p)
      BY DEF Inv, Kept
    <2>2. packets \subseteq packets'
      BY <1>2
    <2> QED
      BY <1>2, <1>7, <1>8, <1>10, <2>1, <2>2, ClaimFrame, ComingFrame DEF Claimed
  <1> QED
    BY <1>9, <1>11, <1>12, <1>13, <1>14 DEF Inv

\* An entry and the interval that began with the announcement behind it age alike.
LEMMA TickKeeps ==
  ASSUME Inv, Tick
  PROVE  Inv'
  <1> USE Constants
  <1>1. /\ d \in [Host -> Daemon] /\ gone \in [Host -> [Addr -> 0..Stale + 1]] /\ DOMAIN peers = Host
        /\ \A h \in Host : \A p \in DOMAIN peers[h] : p \in Host /\ peers[h][p] \in Entry
    BY DEF Inv, Types
  <1>2. packets = {} /\ packets' = {} /\ UNCHANGED <<os, faults, missed, replaced>>
    BY DEF Tick
  <1>idle. \A h \in Host : /\ d[h].run # "closing" /\ (Up(h) => d[h].since < AnnounceMax)
                         /\ sweep(h) = DOMAIN peers[h] /\ d[h].net = "wait"
    BY DEF Tick, Idle
  <1>d. d' = [h \in Host |->
                [d[h] EXCEPT !.since = IF Up(h) THEN @ + 1 ELSE 0, !.browsed = FALSE]]
    BY DEF Tick
  <1>peers. peers' = [h \in Host |-> [p \in DOMAIN peers[h] |-> [peers[h][p] EXCEPT !.age = @ + 1]]]
    BY DEF Tick
  <1>gone. \A h \in Host, a \in Addr :
            gone'[h][a] = IF Up(h) /\ a \in usable(h) THEN 0 ELSE Older(gone[h][a], Stale + 1)
    BY DEF Tick
  <1>3. ASSUME NEW h \in Host
        PROVE  /\ d'[h] \in Daemon /\ d'[h].run = d[h].run /\ d'[h].fresh = d[h].fresh
               /\ d'[h].net = "wait" /\ (Up(h) => d'[h].since = d[h].since + 1)
    <2> DEFINE n == IF Up(h) THEN d[h].since + 1 ELSE 0
               x == [d[h] EXCEPT !.since = n]
               y == [x EXCEPT !.browsed = FALSE]
    <2>1. d'[h] = y
      BY <1>d
    <2>2. n \in 0..AnnounceMax
      <3>1. d[h].since \in 0..AnnounceMax /\ (Up(h) => d[h].since < AnnounceMax)
        BY <1>1, <1>idle DEF Daemon
      <3> QED
        BY <3>1
    <2>3. Up(h) => n = d[h].since + 1
      OBVIOUS
    <2> HIDE DEF n
    <2>4. x \in Daemon
      BY <1>1, <2>2, FieldTypes
    <2>5. x.run = d[h].run /\ x.fresh = d[h].fresh /\ x.net = d[h].net /\ x.since = n
      BY <1>1 DEF Daemon
    <2> HIDE DEF x
    <2>6. y \in Daemon
      BY <2>4, FieldTypes
    <2>7. y.run = x.run /\ y.fresh = x.fresh /\ y.net = x.net /\ y.since = x.since
      BY <2>4 DEF Daemon
    <2> QED
      BY <1>idle, <2>1, <2>3, <2>5, <2>6, <2>7
  <1>4. \A h \in Host : (Up(h)' <=> Up(h)) /\ usable(h)' = usable(h) /\ records(h)' = records(h)
    BY <1>2, <1>3 DEF Up, usable, records
  <1>5. ASSUME NEW h \in Host
        PROVE  /\ DOMAIN peers'[h] = DOMAIN peers[h]
               /\ \A p \in DOMAIN peers[h] :
                    /\ peers'[h][p] \in Entry
                    /\ peers'[h][p].addr = peers[h][p].addr
                    /\ peers'[h][p].age = peers[h][p].age + 1
    <2>1. peers'[h] = [p \in DOMAIN peers[h] |-> [peers[h][p] EXCEPT !.age = @ + 1]]
      BY <1>peers
    <2> QED
      BY <1>1, <2>1 DEF Entry
  <1>6. gone' \in [Host -> [Addr -> 0..Stale + 1]]
    <2>1. \A n \in 0..Stale + 1 : Older(n, Stale + 1) \in 0..Stale + 1
      BY DEF Older
    <2>2. gone' = [h \in Host |-> [a \in Addr |->
                     IF Up(h) /\ a \in usable(h) THEN 0 ELSE Older(gone[h][a], Stale + 1)]]
      BY DEF Tick
    <2>3. 0 \in 0..Stale + 1
      OBVIOUS
    <2> QED
      BY <1>1, <2>1, <2>2, <2>3
  <1>7. Types'
    <2>1. DOMAIN peers' = Host
      BY <1>peers
    <2>2. d' \in [Host -> Daemon]
      <3>1. d' = [h \in Host |-> d'[h]]
        BY <1>d
      <3> QED
        BY <1>3, <3>1
    <2>3. ASSUME NEW h \in Host
          PROVE  /\ DOMAIN peers'[h] \subseteq Host \ {h}
                 /\ \A p \in DOMAIN peers'[h] : peers'[h][p] \in Entry
      BY <1>5 DEF Inv, Types
    <2> QED
      BY <1>2, <1>6, <2>1, <2>2, <2>3 DEF Inv, Types
  <1>8. InFlight'
    BY <1>2 DEF InFlight
  <1>9. Present'
    <2> SUFFICES ASSUME NEW h \in Host, d'[h].run \in {"up", "closing"}, NEW a \in usable(h)'
                 PROVE  gone'[h][a] = 0
      BY <1>3 DEF Present
    <2>1. d[h].run = "up"
      BY <1>idle, <1>3
    <2>2. Up(h) /\ a \in usable(h) /\ a \in Addr
      BY <1>4, <2>1, UsableType DEF Up
    <2> QED
      BY <1>gone, <2>2
  <1>10. Expiry'
    <2> SUFFICES ASSUME NEW h \in Host, NEW p \in DOMAIN peers[h]
                 PROVE  gone'[p][peers'[h][p].addr] <= peers'[h][p].age
                        /\ peers'[h][p].age <= PeerLifetime + 1
      BY <1>5 DEF Expiry
    <2> DEFINE a == peers[h][p].addr
               n == peers[h][p].age
    <2>1. a \in Addr /\ n \in Nat /\ p \in Host
      BY <1>1 DEF Entry
    <2>2. n <= PeerLifetime
      BY <1>idle, <2>1 DEF sweep, Expired
    <2>3. gone[p][a] <= n /\ gone[p][a] \in 0..Stale + 1
      BY <1>1, <2>1 DEF Inv, Expiry
    <2>4. gone'[p][a] = 0 \/ gone'[p][a] = Older(gone[p][a], Stale + 1)
      BY <1>gone, <2>1
    <2>5. peers'[h][p].addr = a /\ peers'[h][p].age = n + 1
      BY <1>5
    <2> HIDE DEF a, n
    <2>6. gone'[p][a] <= n + 1
      BY <2>1, <2>3, <2>4 DEF Older
    <2> QED
      BY <2>1, <2>2, <2>5, <2>6
  <1>11. Kept'
    <2> SUFFICES ASSUME NEW h \in Host, NEW p \in Host, missed[h][p] < Unclaimed
                 PROVE  Claimed(h, p)'
      BY <1>2 DEF Kept
    <2>1. Claimed(h, p) /\ p \in DOMAIN peers[h] /\ Up(h) /\ Up(p)
      BY DEF Inv, Kept, Claimed
    <2>2. (h \in reached(p))' /\ Up(h)' /\ Up(p)'
      BY <1>2, <1>4, <2>1, ReachedFrame DEF Claimed
    <2> DEFINE age == peers[h][p].age
               most == Allowed(missed[h][p])
    <2>3. age + AnnounceMax <= most + d[p].since
      BY <1>2, <2>1 DEF Claimed, Coming
    <2>4. age \in Nat /\ most \in Nat /\ d[p].since \in Nat
      BY <1>1, <2>1 DEF Entry, Daemon, Allowed
    <2>5. peers'[h][p].age = age + 1 /\ d'[p].since = d[p].since + 1 /\ p \in DOMAIN peers'[h]
          /\ missed'[h][p] = missed[h][p]
      BY <1>2, <1>3, <1>5, <2>1
    <2>6. Allowed(missed'[h][p]) = most
      BY <2>5
    <2> HIDE DEF age, most
    <2>7. peers'[h][p].age + AnnounceMax <= Allowed(missed'[h][p]) + d'[p].since
      BY <2>3, <2>4, <2>5, <2>6
    <2> QED
      BY <2>1, <2>2, <2>5, <2>7 DEF Claimed
  <1> QED
    BY <1>7, <1>8, <1>9, <1>10, <1>11 DEF Inv

-----------------------------------------------------------------------------
\* Together

LEMMA StutterKeeps ==
  ASSUME Inv, UNCHANGED vars
  PROVE  Inv'
  <1>1. UNCHANGED <<os, d, peers, packets, faults, missed, replaced, gone>>
    BY DEF vars, observers
  <1>2. Types' /\ Expiry'
    BY <1>1 DEF Inv, Types, Expiry
  <1>3. InFlight'
    BY <1>1 DEF Inv, InFlight, Credible, Up
  <1>4. Present'
    BY <1>1 DEF Inv, Present, usable
  <1>5. Kept'
    BY <1>1 DEF Inv, Kept, Claimed, reached, records, usable, Up, Coming
  <1> QED
    BY <1>2, <1>3, <1>4, <1>5 DEF Inv

LEMMA NextKeeps == Inv /\ [Next]_vars => Inv'
  <1> SUFFICES ASSUME Inv, [Next]_vars PROVE Inv'
    OBVIOUS
  <1>1. CASE Tick
    BY <1>1, TickKeeps
  <1>2. ASSUME NEW h \in Host, DaemonStep(h)
        PROVE  Inv'
    BY <1>2, EndKeeps, LoopsKeep, SweepKeeps, NetRefreshKeeps, NetClearKeeps, NetNotifyKeeps
       DEF DaemonStep
  <1>3. ASSUME NEW q \in packets, Receive(q) \/ Duplicate(q) \/ Lose(q)
        PROVE  Inv'
    BY <1>3, ReceiveKeeps, LoseKeeps
  <1>4. ASSUME NEW h \in Host, Start(h) \/ StartMute(h) \/ Stop(h) \/ Crash(h)
        PROVE  Inv'
    BY <1>4, StartKeeps, StopKeeps, EndKeeps
  <1>5. ASSUME NEW h \in Host, NEW i \in Iface,
               (\E n \in Lan : Attach(h, i, n)) \/ Detach(h, i) \/ Remove(h, i)
        PROVE  Inv'
    BY <1>5, IfaceKeeps
  <1>6. CASE UNCHANGED vars
    BY <1>6, StutterKeeps
  <1> QED
    BY <1>1, <1>2, <1>3, <1>4, <1>5, <1>6 DEF Next, Progress, Disturbance

LEMMA InvHolds == Spec => []Inv
  BY InitInv, NextKeeps, PTL DEF Spec

(***************************************************************************)
(* The responder's state, its table of peers and its packets keep their    *)
(* types: in particular no daemon ever lists itself (learnPeers).          *)
(***************************************************************************)
THEOREM DiscoveryTypeCorrect == Spec => []DiscoveryTypeOK
  <1>1. Inv => DiscoveryTypeOK
    <2> SUFFICES ASSUME Inv PROVE DiscoveryTypeOK
      OBVIOUS
    <2>1. packets \subseteq Packet
      BY DEF Inv, InFlight, Credible
    <2>2. \A h \in Host : DOMAIN peers[h] \subseteq Host \ {h} /\ Range(peers[h]) \subseteq Entry
      BY DEF Inv, Types, Range
    <2> QED
      BY <2>1, <2>2 DEF Inv, Types, DiscoveryTypeOK
  <1> QED
    BY <1>1, InvHolds, PTL

(***************************************************************************)
(* Whoever a table lists was up at the listed address no longer than       *)
(* peerLifetime and a sweep ago: lost goodbyes, answers sent after one and *)
(* packets of a network that was left cannot make an entry outlive its     *)
(* peer (learnPeers, sweep, netLoop), with any number of machines,         *)
(* interfaces, networks and disturbances.                                  *)
(***************************************************************************)
THEOREM EntriesExpireAlways == Spec => []EntriesExpire
  <1>1. Inv => EntriesExpire
    <2> SUFFICES ASSUME Inv, NEW h \in Host, NEW p \in DOMAIN peers[h]
                 PROVE  gone[p][peers[h][p].addr] <= PeerLifetime + 1
      BY DEF EntriesExpire
    <2>1. peers[h][p].age \in Nat /\ peers[h][p].addr \in Addr /\ p \in Host
      BY DEF Inv, Types, Entry
    <2>2. gone[p][peers[h][p].addr] \in Nat
      BY <2>1, Constants DEF Inv, Types
    <2>3. gone[p][peers[h][p].addr] <= peers[h][p].age /\ peers[h][p].age <= PeerLifetime + 1
      BY DEF Inv, Expiry
    <2> QED
      BY <2>1, <2>2, <2>3, Constants
  <1> QED
    BY <1>1, InvHolds, PTL

(***************************************************************************)
(* A peer is in the table as long as of any two of its announcements in a  *)
(* row one was heard, whenever two jittered intervals fit in peerLifetime  *)
(* (announceLoop, jitter, sweep).                                          *)
(***************************************************************************)
THEOREM PeersKept == Spec => []KeptAlive
  <1>1. Inv => KeptAlive
    BY DEF Inv, Kept, Claimed, KeptAlive
  <1> QED
    BY <1>1, InvHolds, PTL

=============================================================================
