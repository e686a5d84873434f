# tp: specifications, checks and proofs

`tp` shares a paste with another machine on the same network. A daemon on each machine
holds pastes in memory; a *code* (words or digits) names a paste and doubles as the
password of a CPace handshake, so that a machine learns nothing from a daemon unless its
user knows the code. This directory holds TLA+ models of the parts of tp that carry
state, TLC runs that check them on small instances, and TLAPS proofs of their safety
properties for every value of the constants.

`PROJECT.json` maps each definition to the source lines it stands for.

## Inventory

| Part | State | Operations | What makes it correct |
|---|---|---|---|
| Paste store (`store.go`) | the entries by hardened secret, and their payloads | `add`, `candidates`, `take`, `list`, `del`, `clear`, `sweep`, each under one mutex | a limit on fetches is never exceeded; the counter is the number of fetches; payloads are erased with their paste; the size of an offer hides the number of pastes |
| Rate limiter (`limits.go`) | per address: bucket, failures, block; one global bucket | `allowPeer`, `allowExchange`, `fail`, `sweep` | guesses and admissions in any span of time are bounded; forgetting an address helps nobody |
| Daemon, data plane (`daemon.go`) | semaphore, one goroutine per connection | accept, admit, hello, charge, offer, tag, take, seal, send | only the code's holder gets the paste, intact; every slot comes back; every handler returns |
| Daemon, control plane (`daemon.go`) | one goroutine per request | post, list, delete, delete all, peers | a post is answered; a code names one paste at a time |
| Sweep loop, idle exit (`daemon.go`) | `lastUsed`, the context | sweep, `shouldStop`, stop | a daemon that holds a paste does not stop; an unused one does |
| Start and stop (`daemon.go`, `identity.go`) | control socket, `identity.key` | `loadOrCreateKey`, `listenControl`, deferred closes | one daemon, reachable, with the persisted identity, unless a start takes a live daemon for dead |
| Commands (`commands.go`) | - | `ensureDaemon`, `waitForSock`, `control`, `cmdGet` | a command ends |
| Fetch (`fetch.go`) | one goroutine per candidate, a semaphore, a channel, a context | start, dial, TLS, exchange, pin, collect | a received paste is not lost; a refusal is honest; everything ends |
| Pin cache (`pins.go`) | `known_hosts`, shared by processes without a lock | `readPins`, `savePin`, `writePins` | a saved pin is read back; the file stays short |
| Discovery (`mdns.go`), interface filter (`interfaces.go`) | peer table, group memberships, pending answer, allowed interfaces | announce, answer, browse, goodbye, network change, refresh, sweep | peers that are heard stay, peers that left go, and after any trouble the tables become right again |
| Codes, wire format, PAKE (`code.go`, `wire.go`, `pake.go`) | one exchange: shares, keys, frames in flight | draw and resolve a code; hello, offer, confirmation, payload | a code never resolves to another; a paste that is there is found; an honest client is never counted as guessing |

How they interact. The data plane goroutines, the control plane goroutines and the sweep
loop share the store, the limiter and `lastUsed`; store and limiter lock for each method,
never across two, so every method is one atomic step and anything may happen between two.
A client's `fetch` talks to many daemons; at each of them it is one connection. Processes
on one machine (commands, daemons, several `tp get`) meet only in files: the control
socket, `identity.key`, `known_hosts`. Daemons on different machines meet in multicast
packets; netLoop feeds the interfaces it finds to the data plane and to discovery.

What is hard. A handshake reads the candidates, waits for two network round trips, and
then takes a paste that may be gone, burned or replaced. Clock readings are taken before a
lock is waited for and are used out of order. The sweep loop decides to stop from two
reads without a common lock. A fetch races its timeout, its user and its own first
success. Files are read, decided upon and replaced by processes that may die in between.
Multicast packets are lost, duplicated and handled late, goodbyes cross answers, and the
machine's interfaces change between two looks at them.

## Modules

| Module | Contents |
|---|---|
| `Clock` | `time.Now()` with delayed readings, `Unix` (truncates) and `Round` (rounds halves up) |
| `Store` | the store's methods as operators; `mem` is the set of payloads not yet overwritten, `posted` a history |
| `Limiter` | token buckets counted in fractions of a token, admission, failures, blocks, sweep |
| `Budget` | the buckets under concurrent use, with an observer that opens a window and counts what is granted |
| `Lockout` | failures and blocks, with an observer that never forgets |
| `Code` | codes, what people type for them, and what `canonical` makes of it |
| `Exchange` | one client and one daemon message by message; composes `Store` and `Code`, with CPace by structure |
| `PasteService` | the abstract specification: a shelf on which a post, a fetch and a withdrawal are one step each |
| `Daemon` | one lifetime of the daemon; composes `Clock`, `Store` and `Limiter`; refines `PasteService` |
| `Fetch` | the client's fan out |
| `PinCache` | `known_hosts` under concurrent processes, one step per system call |
| `Lifecycle` | daemons that start, stop and crash, and commands that look for one, one step per system call |
| `Discovery` | machines that announce themselves, their peer tables, interfaces and `netLoop` |
| `StoreProofs` | what the store's methods return and preserve, and where the loop of `paddedCount` ends; lemmas for the next two |
| `DaemonProofs` | theorems about `Daemon`: the safety of the data plane and of the store; that it implements `PasteService`, stops only when it holds nothing, and hides how much it holds |
| `ExchangeProofs` | theorems about `Exchange`: honest gets, codes, what is delivered, the size of an offer |
| `LimiterProofs` | theorems about `Budget` and `Lockout`: what the limiter grants, and that what it forgets makes no difference |
| `FetchProofs`, `PinCacheProofs`, `LifecycleProofs`, `DiscoveryProofs` | theorems about the module of that name |
| `MC*` | symmetry sets and the small word list and codes of `Exchange`; the `.cfg` files give the constants their values |

Definitions marked `Mutant:` are plausible bugs of the definition below them. No
specification uses them; each is swapped in for the original to show that the property it
belongs to notices the bug.

### From the code to `Daemon`

A handler's `pc[c]` names the line of `serveData`/`handshake` it is at. A step is one
critical section, one atomic access or one network operation together with the
computation that follows it. Every early return is `Return(c)`: the deferred close and
the release of the semaphore slot. The remote peer is an address, the secret its user
holds and whether its share is a point of the group; CPace is represented by what it
guarantees: a tag confirms exactly the slot made from the client's own secret, and a decoy
slot matches nobody. A connection that comes in over an excluded interface is an input
(`serves`). `Disconnect` is the client that goes away or sends nonsense at any point,
which during a fan out is what most clients do. `handlePost` is `PostBegin` (touch),
`PostBody` (body read, options parsed, expiry rounded to the second), then one `PostAdd`
per turn of its loop over fresh codes. `sweepLoop` is `Wake`, `SweepStore`,
`SweepLimiter`, `CheckEmpty` and `CheckIdle`: the two halves of `shouldStop` are two
steps because the code holds no lock across them.

Variables `took`, `got` and `posted` are histories; no guard reads them.

### From the code to `Code` and `Exchange`

`Daemon` is about many handlers and treats a frame as an event; `Exchange` is about one
connection at a time and what is in the frames. A text is the sequence of its parts
between dashes, a part a sequence of characters. A secret is the canonical code itself
(scrypt is taken to be injective). CPace's values are records of what they are computed
from: a share of its generator and scalar, the generator of secret and channel binding, a
session key of the shared point and the pair of shares, which `oCat` makes unordered, a
tag of the key and a role. Two values agree exactly if they are made of the same things.
So that a tag verifies is not assumed but follows from both sides having computed the
same key. Frames carry their real lengths, and the count of an offer is two digits in
base `Byte`. `excused` is an observer: the connection broke, or the paste was not
retrievable at some moment since the client connected.

A handshake on a whole connection, of a client that means well, may still be turned away
and its connection closed: no slot of the semaphore is free (`daemon.go:230`), `allowPeer`
refuses the address (`:279`), or `allowExchange` refuses the guess after the hello
(`:293`). `TestRateLimitClosesTheConnection` shows the second. `ServerRefuse` stands for
the three. It may happen to any handshake, because the buckets are shared with clients that
`Exchange` does not follow; when they do refuse is the matter of `Limiter`, `Budget`,
`Lockout` and `Daemon`. `FoundIfThere` therefore distinguishes two endings without the
paste. `errNoMatch`, the client has read an offer and its code is not in it, is never the
outcome of a refusal. Any other error may be, and `spc` is then `denied`. `fetch` keeps the
two apart no longer: to the user each is "no paste for that code".

The word list is a constant. That no word is a prefix of another (`WordsAssumption`, a
comment in `code.go`) was verified for the 1295 words of `src/wordlist`; `expand` returns
an exact match first, so only a shortened word could be taken for another.

### From the code to `Discovery`

A tick is some minutes: `announceInterval` with its jitter is one or two ticks,
`peerLifetime` four, so that, as with the real constants, two intervals of the greatest
length are exactly a lifetime. What the code does every few seconds happens at least once
in each tick and in any order within it (`Idle` is what `Tick` waits for). Ages are
relative, so behaviours are infinite and `Converges` speaks about all of the future.

A machine's `os` state is the operating system's: the network each interface is on and the
interfaces on which the socket is a member of the group. A device that is removed takes
its membership along, one that only loses its address does not, and joining twice is an
error; `fresh` are the interfaces of the filter whose index is still that of the device.
`refresh` compares bare IP addresses only (`sameAddrs`), `joined` remembers names: the three
views drift apart. The constant `Ip` says which IP address an interface has on a network;
an IP may be had again on another network, or by another interface. A change that keeps
the set of IP addresses goes unnoticed. `replaced` records the two that do harm: a new device
under an old name, and an interface that takes over another's IP address.
netLoop's three effects (`NetRefresh`, `NetClear`, `NetNotify`) are separate steps because
packets are handled between them. An answer whose timer runs (`pending`) is sent even
after the goodbye, until the socket is closed. `missed`, `replaced` and `gone` are
observers.

### From the code to `Fetch`, `PinCache` and `Lifecycle`

`Fetch`: `results` is the buffered channel, `Running` the holders of `sem`. Until the TLS
handshake has finished a network operation is bound by the context; after that only by
the deadlines set on the connection. `Overdue` is that rule. Peers do what they like.
`savePin` may fail: the paste is returned all the same and `warned` records that fetch said
so on stderr.

`PinCache`: `files` are inodes and `path` is the one named `known_hosts`, so that a
process that opened the file before another renamed a new one over it appends to the old
one, as on a Unix file system. `readPins` splits lines at white space, so `field` cuts a
hostname to its first word. Appending one line is one `write`; `Fail` may happen between
any two steps.

`Lifecycle`: `sock` is the process whose socket the path names, alive or not. Go's
`Close` of a Unix listener unlinks the path, whatever is there, before it closes the
socket. `identity.key` is created by `os.WriteFile`, which is an open that truncates
followed by a write. `listenControl` goes on to remove the socket after *any* error of
`DialContext` (`daemon.go:560`): nobody listens, but also when the start was cancelled by
a signal before it dialled (`Cancel`, `told`), the backlog of the daemon that is there is
full, or descriptors have run out (`DialErrors`). `misled` is the history of a start that
removes a live daemon's socket for such a reason; it ends when none of the daemons that were
there then, or started since, is left.

## Runs

| Run | Question | Result |
|---|---|---|
| `service` | Two connections, two posts, two codes, deletes, sweeps and expiry in every order: are limits, counters, payloads, offers and slots right, and does the daemon implement `PasteService`, for single-fetch and unlimited pastes? | yes, 1.3 million states |
| `exchange` | Every form of every code, a store that fills, empties and ages, connections that break, handshakes turned away: does the right paste arrive, at most as often as its limit, or is there a reason? Is an honest client ever counted as guessing? Is every offer of the least size that hides the count? | yes, no, yes; 806 thousand states |
| `budget` | Do out-of-order readings and forgotten addresses let a bucket grant more than burst plus refill? | no |
| `lockout` | Is an address ever admitted because the limiter forgot it, with readings of the clock that are delayed and out of order? | no, 2.1 million states |
| `live` | Do handlers return and posts get an answer, whatever clients do? Can the two unlocked reads of `shouldStop` stop a daemon that holds a paste? Does a daemon nobody uses end once its pastes have expired? | yes, no, yes |
| `fetch` | Three candidates, two slots, timeout and interrupt: is a received paste ever dropped, a refusal dishonest, an answer silently unpinned, a deadline missed, a goroutine left behind? | no |
| `pins` | Two savers that interleave and may die at any step: is the last saved pin read back unless a compaction crosses another save, and does the file stay within its bound? | yes |
| `lifecycle` | Daemons that start one at a time, stop and crash, starts that are cancelled or cannot connect: is a serving daemon reachable, with the persisted identity, and does every command end? | yes, but for a daemon that a start took for dead |
| `discovery` | Two machines, two interfaces, two networks, any two disturbances out of loss, duplication, stop, crash, failed start, moved, unplugged and replaced interfaces: does a peer that is heard stay listed, does a dead entry go in time, and do the tables become right? | yes, 352 thousand states, but for machines with a replaced interface |
| `idle_exit`, `two_starts`, `mdns_failed` | Does the code do what its comment or message says? | no; see below |

### Where the text and the code disagree

Each of these runs checks one sentence of the repository and TLC shows a behaviour that
breaks it.

- `idle_exit`: "Never stop while a retrievable paste remains in memory." (`daemon.go:71`).
  The decision itself is sound (`IdleDecisionSound`), but the control socket accepts posts
  until `runDaemon` returns; a post in that gap is acknowledged and lost.
- `two_starts`: "a daemon is already running" (`daemon.go:562`). Two daemons that start
  together both serve, one unreachable, although neither dial fails for any other reason
  (`DialErrors` is FALSE there and nobody need be cancelled). With one start at a time,
  `Reachable` holds unless a start is `misled`.
- `mdns_failed`: "It remains active even if mDNS failed to start." (`daemon.go:143`). A
  `startMDNS` that fails returns a nil `*responder`, which becomes a non-nil interface in
  `d.mdns` (`daemon.go:124`), so the tests against nil never hold. The first change of an
  address makes netLoop call `networkChanged` on it, and the panic ends the daemon with
  its pastes. A `GET /peers` soon after such a start panics too, in a goroutine whose
  panics net/http recovers: `tp get` fails, also for a paste on the same machine.

Others met while modelling, which no run is devoted to. "savePin appends updates to avoid lost
writes between concurrent fetches." (`pins.go:62`), but a compaction replaces the file by an
older reading of it; this race is the only way to lose a pin, as `ReadBack` holds whenever it
has not happened. "netLoop keeps discovery and data plane filtering in sync with interface
changes" (`daemon.go:142`), but an interface that is replaced by a new device with the same
address between two looks, or by another interface, goes unnoticed, and the daemon may neither
hear nor announce anything until it restarts; `Converges` excepts such machines and fails
without the exception. A guess is charged before the offer is built (`daemon.go:293`), so a
handshake that sends no offer is charged too, against the comment above it, on the strict side.
`--timeout`, "give up after this long" (`commands.go:72`), does not bound an exchange that has
begun, what bounds it is `ReturnsByDeadlines`; pinned hosts are sorted first (`fetch.go:50`)
but their goroutines compete for slots in any order; two first starts both create a key and one
of them serves with a key that is no longer on disk (`identity.go:60`), which is why
`IdentityPersisted` is checked with one start at a time. Without any race, a single `tp daemon`
that is interrupted before it dials, or whose dial fails for want of a descriptor or a place in
the backlog, unlinks the socket of the daemon that serves (`daemon.go:560`); that daemon keeps
its pastes, and their fetches from other machines go on, but no command reaches it any more.

## Bounds, and why they are enough

`MaxTime`, `MaxDelay`, `LastArrival`, `MaxPending`, `MaxSaves`, `MaxStarting`, `MaxSessions`
and `MaxFaults` bound the runs; the code has no such limits. The other constants are the code's
own, scaled down.

- `Daemon`. Two handshakes suffice for every race on one paste with `max_gets` 1, and with two
  posts a code can be burned, swept and reused between the offer and the tag. `MaxConns` is as
  many as there are connections, so that a full semaphore, which takes one connection more,
  does not occur in the runs: with one connection more neither `service` nor `live` ends within
  five minutes. `Accept` has that branch, and the proof of `SlotsAccounted` covers it. A second is four ticks in `service`, so
  that the rounding of the expiry to the nearest second is visible: a ttl of one tick rounds
  down to nothing. `MaxDelay` is 0 in these runs: delayed readings matter to the limiter and
  are the subject of `budget` and `lockout`, and the store's `take` and `candidates` read the
  clock under the lock. `LastArrival` ends arrivals so that the handlers' deadlines fall within
  `MaxTime`. In `live` a paste posted in the last moment outlives the clock, so that there are
  daemons that stay up and daemons that end; the store holds one paste, so that the second post
  finds it full.
- `Tick` has two quick steps. A POST is stored within `ioTimeout` of its first byte: the
  control server's `ReadTimeout` ends its reading, and what follows is hashing. The second
  half of `shouldStop` follows the first within a clock tick (`idleTimeout` is 30 minutes;
  a pause of that length between two lines is not considered). Both are needed for
  `IdleDecisionSound` and are assumptions about scheduling, not guarantees of the code.
  After `LastStall` goroutines are no longer slow.
- `Budget`. Unit 2 makes refills of half a token, and the window may open anywhere.
  `RefillAssumption` says that a bucket is full again by the time `sweep` may forget it,
  as with the real constants, where a bucket refills within a minute and is kept for ten.
  It is needed for `PeerBound` only.
- `Lockout`. `MarginAssumption` is a fact about the real constants that the safety of
  forgetting rests on: the failures that can fall on the two sides of the moment an address
  is forgotten, 2 * 20 + 20/60 * (10 + 4 * delay), are fewer than the 50 that earn a block
  for any delay below five seconds; a goroutine that waits longer than that between its
  `time.Now()` and the limiter's mutex is not considered. `WindowAssumption` is the other
  half: handshakes are over and buckets full within `blockWindow`. Whoever changes
  `rateBurst`, `ratePerMinute`, `pakeTimeout`, `blockAfter` or `blockWindow` should keep both.
  The run's constants satisfy them tightly (7 < 8, 5 <= 6, 1 <= 5). One address suffices,
  as the limiter treats each by itself. `MaxTime` is enough for an address to be used, be
  forgotten and be used again, and for a block to be earned, sat out and forgotten. A
  reading taken before a sweep and used after it may find a block gone that would still have
  been in force at that reading, but by the time it is used the block has ended;
  `SweepUnnoticed` speaks of the present, at which the address would be admitted anyway.
- `Fetch`. Three candidates and two slots: one has to wait. Times are such that each
  deadline and the timeout can fire first. Time passes only when no goroutine can run.
- `PinCache`. Six saves of two hosts under two names, one of them of several words, reach
  compaction several times. `late` and `raced` are histories that recognise the race of a
  compaction with another save; no guard reads them.
- `Exchange`. Four pastes in a store with the ratio of the real one (`maxCandidates` is
  twice `maxPastes`, `minCandidates` small against both) reach every bucket, the full store
  and the largest offer; point, tag and paste sizes are the real ones. `Byte` 3 makes the
  count of an offer need both its digits. Two of the three words share a letter, so that
  there are ambiguous and unambiguous prefixes; two of the digit codes are made of the same
  digits. Three sessions are a first try, a retry and a retry after the paste is used up.
  Sessions are bounded, so the run does not look for deadlock.
- `Discovery`. `Watched` names the machines whose tables are followed; the others announce
  and answer. Everything in the code concerns a pair of machines, and with two of them
  either can be the one that is disturbed. `MaxFaults` bounds disturbances, not time: two
  are enough for a lost goodbye after a crash, for two lost announcements in a row, for an
  interface that loses its address and gets it or another one back, and for a machine that
  moves while its peer stops. `LifetimeAssumption` is what `KeptAlive` rests on; whoever
  changes the jitter or `peerLifetime` should keep it.
- `Lifecycle`. Three daemon processes are one more than the overlap of a daemon that ends or
  was cut off with one that starts: the third shows who is reachable afterwards. `MaxStarting`
  is 1 in `lifecycle` because two simultaneous starts are exactly what `two_starts` shows to go
  wrong; `DialErrors` is FALSE in the latter, so that the race alone is to blame. A command or the
  system may simply stop there, so these runs do not look for deadlock.

Symmetry is used in the runs of safety properties only.

## Fairness

- `Daemon`: strong fairness of `Tick` (time does pass, although the sweep loop holds it up
  for a moment again and again); weak fairness of each goroutine's own computation, of an
  expired deadline, of the sweep loop (a ticker drives it), of reading a POST (the server's
  `ReadTimeout` ends it otherwise), of a fresh code (codes are drawn at random from far more
  than `maxPastes`) and of `runDaemon`'s return. Nothing is assumed of clients.
- `Fetch`: weak fairness of the goroutines and of time. Nothing is assumed of peers.
- `Discovery`: weak fairness of progress as a whole, which is time and the machines' own
  goroutines: within a tick there is a bounded amount to do, so the clock always goes on.
  Disturbances need not happen, and only finitely many do. Starting a daemon is nobody's
  duty.
- `Lifecycle`: weak fairness of a starting daemon, of an ending one and of a command;
  nobody has to start, stop or kill a daemon.

## What is proved

Everything below holds for every value of the constants that satisfies the assumptions named in
the modules: any number of connections, requests, addresses, candidates, processes, daemons,
machines and networks (finite where the code counts them), any bursts, rates, timeouts and
limits, and any `MaxTime`, `MaxSaves`, `MaxFaults` and `MaxDelay`. The runs check the same
properties on small instances.

Some assumptions relate constants of the code, and hold of the ones it has:

| Assumption | In the code | Needed for |
|---|---|---|
| `RefillAssumption`: a bucket is full again before its address may be forgotten | a minute against ten (`limits.go`) | `AdmissionsBounded` |
| `MarginAssumption`: two bursts of handshakes that fail are too few to earn a block | 43.3 against 50, and 4/3 for each second that readings are delayed (`limits.go`, `pakeTimeout` in `daemon.go`) | `ForgettingUnnoticed` |
| `WindowAssumption`: handshakes are over and buckets full within `blockWindow` | ten seconds and one minute against ten minutes (`daemon.go`, `limits.go`) | `ForgettingUnnoticed` |
| `LifetimeAssumption`: two jittered intervals fit in a lifetime | `announceInterval`, `jitter`, `peerLifetime` (`mdns.go`) | `PeersKept` |
| `IdleAssumption`: `ioTimeout` is no longer than `idleTimeout` | 30 seconds against 30 minutes (`daemon.go`) | `IdleStopSound` |
| `StoreAssumption`: `maxPastes` < `maxCandidates` | 256 against 512 (`store.go`) | `OffersHideCount`, `ExchangeProofs` |
| `BucketAssumption`: doubled, `minCandidates` comes to `maxCandidates` | 4 and 512 (`store.go`) | `ExchangeProofs` |
| `ExchangeAssumption`: an offer's count fits two bytes, a frame has room for the overhead of encryption | 512; 16 bytes against 64 KiB (`wire.go`) | `ExchangeProofs` |
| `WordsAssumption`, `LettersAssumption`: no word is a prefix of another; letters are not digits | the list in `src/wordlist` | `CodesNeverConfused`, `PastesDelivered` |
| `PinAssumption`, `WordAssumption`: there is a process; a word has no white space | | `PinCacheProofs` |
| `FetchAssumption`, `LifecycleAssumption`, `LanAssumption`: model values that stand for "none" are none of the others | | the types |

### The daemon: `DaemonProofs`, `StoreProofs`

`TypeCorrect` (`[]TypeOK`), `SlotsAccounted` (`[]SlotsHeld`), `GetsLimited`
(`[]AtMostMaxGets`), `GetsCounted` (`[]GetsAreTakers`), `PayloadIntact` (`[]RightBody`) and
`NothingLeftBehind` (`[]NoResidue`) follow from one inductive invariant, `Inv`:

- `TypeOK` and `SlotsHeld` together: that `sem` stays a natural number when a handler
  returns needs that the handler is counted.
- `AcceptedInv`: a running handler knows its peer.
- `EntriesInv`: an entry of the store is a paste posted under its key, and its get counter
  is the number of handlers that took it, below the limit until it burns. This is what
  makes `AtMostMaxGets` inductive: the takers of a paste are a set of connections, and
  only the entry's counter says that one more fits. A paste without an entry has no more
  takers to come, because paste numbers are never reused.
- `PayloadInv`: a payload is in memory exactly while its entry is unburned, and a handler
  past `take` holds the payload of what it took. This makes `RightBody` inductive: a burn
  after the copy does not reach the copy.

`InvInit` shows it initially, `InvStep` has one case per action, `Invariance` combines
them.

`DaemonImplementsService` is the refinement: every step of the daemon is a step of
`PasteService` or a stutter. It is a step simulation under `Inv` and `RequestInv`, with a
lemma for each kind of step that the shelf notices: `AcceptArrives`, `AddPublishes`,
`TakeFetches`, `Withdrawn` and, for time and sweeps, `ShelfShrinks`. The point of
linearization of a fetch is `take`; the seconds between the offer and it do not matter,
because `take` looks at the entry again.

`IdleStopSound` is the action property `IdleDecisionSound`. `shouldStop` looks at the store
and, later and without a lock, at the time of the last use. `IdleInv` says what connects the
two looks: in between, the store is empty or the daemon was used within `idleTimeout`. For a
POST that is stored in between to count as such a use, `RecentInv` bounds the age of a
request by `ioTimeout`, counted from the `touch` at its beginning.

`OffersHideCount` needs that the loop of `paddedCount` ends with enough room or at
`maxCandidates`. The loop is a recursive function, and induction is not to be had from the
provers; the lemma `Least` (a nonempty set of naturals has a least element) takes its place.
`First` is the least bucket among those the loop may visit at which it stops, `FirstUnfolds`
shows that it satisfies the recursive equation, so that the function `roomFor` chooses
exists, and `RoomFits` takes the bucket closest to the limit among those from which the loop
would end too early, and doubles it. With `maxPastes` < `maxCandidates` and the store's limit
(`StoreBounded`), there is always room for a decoy.

### The rate limiter: `LimiterProofs`

`GuessesBounded` (`[]GuessBound`) bounds the password guesses in any window. `GuessBound` is
not inductive, as it does not say what is left in the bucket. `GuessInv` adds `Balance`: what
was granted plus what is left is at most the burst plus the refill up to the bucket's *own*
clock, which moves back and forth with the readings; the delay `MaxDelay` relates it to the
real one. `AdmissionsBounded` (`[]PeerBound`) does the same for each address, whose bucket
`sweep` may forget: by `RefillAssumption` a fresh bucket holds no more than the forgotten one
would. `BudgetTypeCorrect` adds that no bucket holds more than its burst.

`ForgettingUnnoticed` (`[]SweepUnnoticed`) compares the limiter with one that never forgets
(`kept`), address by address (`AddrInv`), for readings that are delayed by any `MaxDelay` the
assumptions allow. They decide alike while `Agree` holds: the same block, or none in force
any more; the same bucket, or a fresh one against one that is full again at every reading;
and no failure the other does not know. For a forgotten address that must still hold after
failures that only `kept` has recorded. `FewLost` says of those that still count that they
were forgotten together at some moment v: their handshakes had all been admitted before
`Latest(v)`, and what happened since has been paid for by itself. `Few` bounds them by what a full
bucket and its refill pay for. Both come from `Payments`: for *every* moment y, the failures and
unfinished handshakes that can only have been admitted since y, together with the tokens left,
cost no more than a full bucket and its refill since y. A charge with an old reading moves the
bucket's clock back and lets it refill twice, so the tokens may be negative for a while; `Solvent`
(in `InOrder`) bounds that debt. So what the limiter knows and what it has lost are at
most two bursts while the lost failures still count (`TooFew`), and by `MarginAssumption` not
even `kept` blocks. `QuietBefore` and `ForgottenFew` say what may be forgotten: an address whose
handshakes are over and whose bucket is full again.
`LockoutTypeCorrect` (`[]LockoutTypeOK`) includes that a record of failures stays below
`blockAfter`, since `fail` clears it when it blocks.

### The client: `FetchProofs`, `PinCacheProofs`

`NoPasteDropped`, `RefusalsHonest`, `AnswersPinned`, `FetchReturnsInTime` and
`FetchTypeCorrect` follow from an invariant in five parts. `Sequencing`: each candidate is
started once. `Room`: a goroutine sends one result, so the channel never blocks one.
`Traced` follows each outcome from its goroutine through the channel to the answer.
`Timely` bounds each deadline by the time at which its exchange can have begun. `AnswersPinned`
allows for a `savePin` that fails, as long as fetch has said so.

`PinsReadBack` (`[]ReadBack`), `HistoryBounded` (`[]BoundedHistory`) and `PinTypeCorrect` are
about a file that any number of processes append to and replace without a lock. `Owned`: a
compactor's temporary file is its own and holds what its pins say. `Fresh`: unless another
save ended meanwhile, a compactor's pins are those of the file, but for its own. So its
rename loses nothing. `Room`: the lines of the file and the appends that were decided upon
fit the bound together, which is why the bound counts processes. The lemmas `ReadAppend` and
`ReadCompacted` say what `readPins` makes of an appended line and of a compacted file.

### One exchange: `ExchangeProofs`

`HonestGetsNeverCharged` (`[]HonestNeverFails`) and `GetsFindPastes` (`[]FoundIfThere`) follow
from an invariant about the two ends of a connection and what is on the wire between them.
Neither assumes anything of the limiter: a handshake may be turned away wherever the code
can do so, and the client then ends with an error, never with `errNoMatch`.
`Conversation` says, for each place the client can be at, where `handshake` may be and which
message may be under way; `Offered`, that the client's paste is among the sides of the offer
unless something excuses its absence; `Served`, that it stays retrievable until then. That a
tag verifies is the lemma `Keys`: the two ends compute the same key exactly if their secrets
agree. Whether a typed code resolves to the secret that was meant is a matter of `Code` and
not of the exchange.

`CodesNeverConfused` (`[]NeverAnotherCode`) is that part, for every word list and any number
of groups: a code of digits is recovered from its characters however they are grouped, a
code of words from any prefixes of its words that `expand` accepts, because no word is a
prefix of another and letters are not digits.

`PastesDelivered` (`[]DeliveredAsPosted`) and `ExchangeTypeCorrect` follow from `GetsInv`.
`Entries` ties each entry of the store to what was posted, as `EntriesInv` does for the
daemon; `Handled`, the payload in `handshake`'s hands or on the wire to the client's secret.
`Counted` is what makes the limit inductive: the copies of a paste that have arrived *or are
still under way* are at most its gets. A connection that breaks turns a copy under way into
one that never arrives, so the limit is an upper bound and no more.

`OffersSmallest` (`[]OfferSmallest`) uses the lemmas about the loop of `paddedCount`
again. `BucketsVisited`: the buckets are the numbers the loop visits up to `maxCandidates`,
and by `BucketAssumption` it ends at one of them.

### Daemons over time: `LifecycleProofs`

`LifecycleTypeCorrect` holds however daemons start. `ServingReachable`, `ServingAlone` and
`ServingIdentity` have the hypothesis `MaxStarting <= 1`, that daemons start one at a time
(other daemons may be stopping or crashing meanwhile); `two_starts` shows that the code needs
it. The first two also except what follows a start that took a live daemon for dead (`misled`),
by cancellation or by a dial that failed; they say that this is the only other way to be cut
off, and that it is over once the daemons of that time are gone. `SoloInv` says which of the
facts a serving daemon relies on each step of a start has already made sure of: `KeySafe` for
the key file, `PathSafe` for the path of the socket.

### Discovery: `DiscoveryProofs`

`EntriesExpireAlways` (`[]EntriesExpire`) follows from the comparison of two clocks
(`Expiry`): a peer has been gone from its listed address no longer than its entry has aged,
because a packet in flight is handled within the tick it was sent in and names only addresses
its sender had then (`InFlight`, `Present`). `PeersKept`
(`[]KeptAlive`) follows from `Kept`, which bounds the age of an entry by the announcements
missed since and the time until the next one. `DiscoveryTypeCorrect` includes that no daemon
lists itself.

## What is only model-checked

- Liveness (`HandlersReturn`, `PostsAnswered`, `UnusedDaemonExits`, `AllEnd`,
  `CommandsEnd`, `Converges`): the prover does not handle fairness.

Every invariant and every action property that a run checks is also a theorem.

## What is not modelled

- Of discovery: unicast replies to legacy queriers and the bucket that limits them, the
  minimum gap of a second between answers (far below a tick), packet counters and the
  diagnostic printed from them, peers that speak another version. Multicast loopback is
  left out too: a daemon ignores its own records.
- `GET /peers` as a request of its own: it reads the table and, in a young daemon with an
  empty one, asks once more and waits for the first peer, which the browse loop does too.
- `serveData`'s pause and retry when `Accept` runs out of descriptors (`daemon.go:203`): to
  a client it is a connection that is slow to be accepted.
- The data port, which falls back to an ephemeral one when the usual one is taken; a
  daemon that starts while its predecessor is closing keeps the ephemeral one.
- A machine that sleeps: ages are kept in wall time for that case (`mdns.go:407`).
- The arithmetic of CPace, scrypt, TLS and their encodings: cryptography is ideal.
- `doctor`, environment checks, completion, version, `uninstall`, the installer: they read
  the system, print or remove files, and keep no state.

## Plan

Done: the daemon with its store and limiter, the abstract service, the client's fetch, the
exchange of one client and one daemon with codes, frames and CPace's structure, discovery
with the interface filter, the pin cache, the lifecycle; the proofs listed above.

Left: of discovery, `GET /peers` as a request of its own and the answers to legacy queriers
with the bucket that limits them; of the daemon, the choice of the data port.
