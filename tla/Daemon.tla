------------------------------- MODULE Daemon -------------------------------
(***************************************************************************)
(* One lifetime of the daemon (daemon.go): the goroutines that serve data  *)
(* connections and control requests, the sweep loop, and the store and the *)
(* limiter they share.  A step is one critical section, one atomic access  *)
(* or one network operation of one goroutine, so the goroutines interleave *)
(* wherever the code allows it.                                            *)
(*                                                                         *)
(* The control socket's handlers are actions on the daemon; the data plane *)
(* handlers follow the program counter pc[c], with the names below.        *)
(*                                                                         *)
(*   idle     no connection yet         offer   about to build the offer   *)
(*   admit    about to call allowPeer   write   writing the offer          *)
(*   hello    TLS, then readHello       tag     reading the client's tag   *)
(*   charge   about to allowExchange    take    about to take the paste    *)
(*   seal     about to seal and touch   send    writing the sealed paste   *)
(*   done     returned: connection closed and slot released                *)
(***************************************************************************)
EXTENDS Clock, Store, Limiter

CONSTANTS
    Conn,           \* data connections
    Request,        \* POST requests on the control socket
    Shares,         \* what clients send as their share: good, bad
    GetLimits,      \* max_gets values a request may carry
    Ttls,           \* ttl values a request may carry, in clock ticks
    MaxConns,       \* maxConns
    PakeTimeout,    \* pakeTimeout, in clock ticks
    IoTimeout,      \* ioTimeout, in clock ticks
    IdleTimeout,    \* idleTimeout, in seconds
    LastArrival,    \* bound: connections and requests arrive up to this time
    Interrupts      \* whether the daemon may be interrupted

ASSUME DaemonAssumption ==
    /\ IsFiniteSet(Conn) /\ IsFiniteSet(Request)
    /\ Shares \subseteq {"good", "bad"}
    /\ GetLimits \subseteq Nat
    /\ Ttls \subseteq Nat \ {0}
    /\ MaxConns \in Nat \ {0}
    /\ {PakeTimeout, IoTimeout, IdleTimeout, LastArrival} \subseteq Nat
    /\ Interrupts \in BOOLEAN

\* A request is read, or given up, long before the daemon counts as idle.
ASSUME IdleAssumption == IoTimeout <= IdleTimeout * Second

VARIABLES
    pc,         \* where each connection's handler is
    peer,       \* the remote address, the secret its user holds, its share
    deadline,   \* the deadline set on each connection
    offer,      \* cands: the candidates each handler took, and the slots
    took,       \* history: the paste each handler took, 0 if none
    body,       \* the copy of the payload each handler holds, 0 if none
    got,        \* history: the payload each client received, 0 if none
    sem,        \* how many slots of the semaphore are held
    post,       \* the handlers of POST requests
    lastUsed,   \* daemon.lastUsed, in Unix seconds
    sweeper,    \* where sweepLoop is
    status,     \* up, or why the context was cancelled: idle or interrupt
    exited      \* whether the process is gone

connVars == <<pc, peer, deadline, offer, took, body, got, sem>>

vars == <<now, storeVars, limiterVars, connVars, post, lastUsed, sweeper, status, exited>>

NoPeer == [host |-> "none", prs |-> "none", share |-> "none"]

Peers == [host : Addr, prs : Prs, share : Shares]

NoOffer == [live |-> {}, slots |-> 0]

\* A handler waiting for the network; its connection's deadline will end the wait.
Waiting == {"hello", "write", "tag", "send"}

Computing == {"admit", "charge", "offer", "take", "seal"}

Active == {c \in Conn : pc[c] \in Waiting \cup Computing}

\* The connections whose handler took paste id.
Takers(id) == {c \in Conn : took[c] = id}

TypeOK ==
    /\ now \in 0..MaxTime
    /\ StoreTypeOK
    /\ LimiterTypeOK
    /\ pc \in [Conn -> {"idle", "done"} \cup Waiting \cup Computing]
    /\ peer \in [Conn -> Peers \cup {NoPeer}]
    /\ deadline \in [Conn -> Nat]
    /\ DOMAIN offer = Conn /\ \A c \in Conn : offer[c].live \subseteq Prs
    /\ took \in [Conn -> 0..Len(posted)]
    /\ body \in [Conn -> Zeroed..Len(posted)]
    /\ got \in [Conn -> Zeroed..Len(posted)]
    /\ sem \in 0..MaxConns
    /\ post \in [Request -> [at : {"idle", "body", "add", "done"}, begun : Nat,
                             MaxGets : Nat, expires : Int]]
    /\ lastUsed \in Nat
    /\ sweeper \in {"wait", "store", "limiter", "list", "idle", "returned"}
    /\ status \in {"up", "idle", "interrupt"}
    /\ exited \in BOOLEAN

Init ==
    /\ ClockInit
    /\ StoreInit
    /\ LimiterInit
    /\ pc = [c \in Conn |-> "idle"]
    /\ peer = [c \in Conn |-> NoPeer]
    /\ deadline = [c \in Conn |-> 0]
    /\ offer = [c \in Conn |-> NoOffer]
    /\ took = [c \in Conn |-> 0]
    /\ body = [c \in Conn |-> 0]
    /\ got = [c \in Conn |-> 0]
    /\ sem = 0
    /\ post = [r \in Request |-> [at |-> "idle", begun |-> 0, MaxGets |-> 0, expires |-> 0]]
    /\ lastUsed = Unix(now)
    /\ sweeper = "wait"
    /\ status = "up"
    /\ exited = FALSE

-----------------------------------------------------------------------------
\* Data connections

arriving == ~exited /\ now <= LastArrival

Goto(c, label) == pc' = [pc EXCEPT ![c] = label]

\* Mutant: the handler returns without giving its slot back.
ReturnKeepsSlot(c) ==
    /\ Goto(c, "done")
    /\ deadline' = [deadline EXCEPT ![c] = 0]
    /\ offer' = [offer EXCEPT ![c] = NoOffer]
    /\ body' = [body EXCEPT ![c] = 0]
    /\ UNCHANGED sem

\* The handler returns: its deferred function closes the connection and gives
\* the slot back, and its local variables are gone.
Return(c) ==
    /\ Goto(c, "done")
    /\ deadline' = [deadline EXCEPT ![c] = 0]
    /\ offer' = [offer EXCEPT ![c] = NoOffer]
    /\ body' = [body EXCEPT ![c] = 0]
    /\ sem' = sem - 1

\* Mutant: the slot is also given back by a connection that never got one.
AcceptReleases(c, p, serves) ==
    /\ arriving
    /\ pc[c] = "idle"
    /\ peer' = [peer EXCEPT ![c] = p]
    /\ IF serves /\ sem < MaxConns
       THEN Goto(c, "admit") /\ sem' = sem + 1
       ELSE Goto(c, "done") /\ sem' = sem - 1
    /\ UNCHANGED <<now, storeVars, limiterVars, deadline, offer, took, body, got,
                   post, lastUsed, sweeper, status, exited>>

\* serveData accepts a connection and starts a handler, unless the connection
\* came in over an excluded interface or every slot is held.
Accept(c, p, serves) ==
    /\ arriving
    /\ pc[c] = "idle"
    /\ peer' = [peer EXCEPT ![c] = p]
    /\ IF serves /\ sem < MaxConns
       THEN Goto(c, "admit") /\ sem' = sem + 1
       ELSE Goto(c, "done") /\ UNCHANGED sem
    /\ UNCHANGED <<now, storeVars, limiterVars, deadline, offer, took, body, got,
                   post, lastUsed, sweeper, status, exited>>

\* Mutant: openExchange forgets the deadline.
AllowPeerNoDeadline(c, t) ==
    /\ ~exited /\ pc[c] = "admit"
    /\ allowPeer(peer[c].host, t)
    /\ IF peerAllowed(peer[c].host, t)
       THEN /\ Goto(c, "hello")
            /\ deadline' = [deadline EXCEPT ![c] = MaxTime]
            /\ UNCHANGED <<offer, body, sem>>
       ELSE Return(c)
    /\ UNCHANGED <<now, storeVars, peer, took, got, post, lastUsed, sweeper, status, exited>>

\* handshake asks for admission; openExchange then sets the deadline.
AllowPeer(c, t) ==
    /\ ~exited /\ pc[c] = "admit"
    /\ allowPeer(peer[c].host, t)
    /\ IF peerAllowed(peer[c].host, t)
       THEN /\ Goto(c, "hello")
            /\ deadline' = [deadline EXCEPT ![c] = now + PakeTimeout]
            /\ UNCHANGED <<offer, body, sem>>
       ELSE Return(c)
    /\ UNCHANGED <<now, storeVars, peer, took, got, post, lastUsed,
                   sweeper, status, exited>>

\* A network operation of the handler completes before the deadline.
Proceed(c, from, to) ==
    /\ ~exited /\ pc[c] = from
    /\ now <= deadline[c]
    /\ Goto(c, to)

\* TLS is up and readHello returns the client's share.
ReadHello(c) ==
    /\ Proceed(c, "hello", "charge")
    /\ UNCHANGED <<now, storeVars, limiterVars, peer, deadline, offer, took,
                   body, got, sem, post, lastUsed, sweeper, status, exited>>

\* handshake charges a guess to the global budget.
AllowExchange(c, t) ==
    /\ ~exited /\ pc[c] = "charge"
    /\ allowExchange(t)
    /\ IF exchangeAllowed(t)
       THEN /\ Goto(c, "offer")
            /\ UNCHANGED <<deadline, offer, body, sem>>
       ELSE Return(c)
    /\ UNCHANGED <<now, storeVars, peer, took, got, post, lastUsed, sweeper,
                   status, exited>>

\* handshake takes the candidates and buildOffer computes a CPace side for each
\* of them, which fails if the client's share is not a point of the group.
BuildOffer(c) ==
    /\ ~exited /\ pc[c] = "offer"
    /\ LET cands == candidates(now) IN
       IF cands.slots <= MaxCandidates /\ peer[c].share = "good"
       THEN /\ Goto(c, "write")
            /\ offer' = [offer EXCEPT ![c] = cands]
            /\ UNCHANGED <<deadline, body, sem>>
       ELSE Return(c)
    /\ UNCHANGED <<now, storeVars, limiterVars, peer, took, got, post,
                   lastUsed, sweeper, status, exited>>

WriteOffer(c) ==
    /\ Proceed(c, "write", "tag")
    /\ UNCHANGED <<now, storeVars, limiterVars, peer, deadline, offer, took, body,
                   got, sem, post, lastUsed, sweeper, status, exited>>

\* The client found its code in the offer and confirms it: matchConfirmation
\* finds the slot.
Confirm(c) ==
    /\ Proceed(c, "tag", "take")
    /\ peer[c].prs \in offer[c].live
    /\ UNCHANGED <<now, storeVars, limiterVars, peer, deadline, offer, took,
                   body, got, sem, post, lastUsed, sweeper, status, exited>>

\* A tag that matches no slot: the failure is held against the address.
FailConfirmation(c, t) ==
    /\ ~exited /\ pc[c] = "tag" /\ now <= deadline[c]
    /\ fail(peer[c].host, t)
    /\ Return(c)
    /\ UNCHANGED <<now, storeVars, peer, took, got, post, lastUsed, sweeper,
                   status, exited>>

\* handshake takes the paste whose tag matched, unless it has gone since.
Take(c) ==
    /\ ~exited /\ pc[c] = "take"
    /\ LET prs == peer[c].prs IN
       /\ take(prs, now)
       /\ IF Retrievable(prs, now)
          THEN /\ Goto(c, "seal")
               /\ took' = [took EXCEPT ![c] = m[prs].id]
               /\ body' = [body EXCEPT ![c] = copied(prs)]
               /\ UNCHANGED <<deadline, offer, sem>>
          ELSE Return(c) /\ UNCHANGED took
    /\ UNCHANGED <<now, limiterVars, peer, got, post, lastUsed, sweeper,
                   status, exited>>

\* handshake seals the copy, counts as use of the daemon and extends the deadline.
Seal(c) ==
    /\ ~exited /\ pc[c] = "seal"
    /\ Goto(c, "send")
    /\ lastUsed' = Unix(now)
    /\ deadline' = [deadline EXCEPT ![c] = now + IoTimeout]
    /\ UNCHANGED <<now, storeVars, limiterVars, peer, offer, took, body, got,
                   sem, post, sweeper, status, exited>>

WriteBody(c) ==
    /\ ~exited /\ pc[c] = "send" /\ now <= deadline[c]
    /\ got' = [got EXCEPT ![c] = body[c]]
    /\ Return(c)
    /\ UNCHANGED <<now, storeVars, limiterVars, peer, took, post, lastUsed,
                   sweeper, status, exited>>

\* A network operation fails: the client went away (during fan out most do, at
\* the tag), sent nonsense, or the network broke.
Disconnect(c) ==
    /\ ~exited /\ pc[c] \in Waiting
    /\ Return(c)
    /\ UNCHANGED <<now, storeVars, limiterVars, peer, took, got, post,
                   lastUsed, sweeper, status, exited>>

\* A network operation fails because the deadline has passed.
DeadlineExpires(c) ==
    /\ pc[c] \in Waiting /\ now > deadline[c]
    /\ Disconnect(c)

-----------------------------------------------------------------------------
\* Control requests

\* Mutant: posting does not count as use until the paste is stored.
PostBeginNoTouch(r) ==
    /\ arriving
    /\ post[r].at = "idle"
    /\ post' = [post EXCEPT ![r].at = "body", ![r].begun = now]
    /\ UNCHANGED <<now, storeVars, limiterVars, connVars, lastUsed, sweeper, status, exited>>

\* handlePost starts, and starts reading the body.
PostBegin(r) ==
    /\ arriving
    /\ post[r].at = "idle"
    /\ lastUsed' = Unix(now)
    /\ post' = [post EXCEPT ![r].at = "body", ![r].begun = now]
    /\ UNCHANGED <<now, storeVars, limiterVars, connVars, sweeper, status, exited>>

\* The body is read and the options parsed; the expiry time is fixed.
PostBody(r, ttl, maxGets) ==
    /\ ~exited /\ post[r].at = "body"
    /\ post' = [post EXCEPT ![r].at = "add", ![r].MaxGets = maxGets,
                            ![r].expires = Round(now + ttl)]
    /\ UNCHANGED <<now, storeVars, limiterVars, connVars, lastUsed, sweeper, status, exited>>

\* The body is too long or was not received in time, or an option is refused.
PostRefused(r) ==
    /\ ~exited /\ post[r].at = "body"
    /\ post' = [post EXCEPT ![r].at = "done"]
    /\ UNCHANGED <<now, storeVars, limiterVars, connVars, lastUsed, sweeper, status, exited>>

\* Mutant: every error of add is answered by another code.
PostAddRetriesAll(r, prs) ==
    /\ ~exited /\ post[r].at = "add"
    /\ add(prs, post[r].expires, post[r].MaxGets)
    /\ post' = IF addError(prs) # "none" THEN post ELSE [post EXCEPT ![r].at = "done"]
    /\ UNCHANGED <<now, limiterVars, connVars, lastUsed, sweeper, status, exited>>

\* One turn of handlePost's loop: a fresh code, and another if it collides.
\* (derivePRS cannot fail: its scrypt parameters are constants.)
PostAdd(r, prs) ==
    /\ ~exited /\ post[r].at = "add"
    /\ add(prs, post[r].expires, post[r].MaxGets)
    /\ post' = IF addError(prs) = "collision" THEN post ELSE [post EXCEPT ![r].at = "done"]
    /\ UNCHANGED <<now, limiterVars, connVars, lastUsed, sweeper, status, exited>>

\* handleList, and handlePeers as far as the daemon's own state goes.
HandleList ==
    /\ arriving
    /\ lastUsed' = Unix(now)
    /\ UNCHANGED <<now, storeVars, limiterVars, connVars, post, sweeper, status, exited>>

HandleDelete(prs) ==
    /\ arriving
    /\ lastUsed' = Unix(now)
    /\ del(prs)
    /\ UNCHANGED <<now, limiterVars, connVars, post, sweeper, status, exited>>

HandleDeleteAll ==
    /\ arriving
    /\ lastUsed' = Unix(now)
    /\ clear
    /\ UNCHANGED <<now, limiterVars, connVars, post, sweeper, status, exited>>

-----------------------------------------------------------------------------
\* The sweep loop

sweepStep(from, to) ==
    /\ ~exited /\ sweeper = from
    /\ sweeper' = to
    /\ UNCHANGED <<now, connVars, post, lastUsed, exited>>

\* The ticker fires ...
Wake ==
    /\ sweepStep("wait", "store")
    /\ UNCHANGED <<storeVars, limiterVars, status>>

\* ... or the loop sees that the context has been cancelled.
Leave ==
    /\ status # "up"
    /\ sweepStep("wait", "returned")
    /\ UNCHANGED <<storeVars, limiterVars, status>>

SweepStore(t) ==
    /\ sweepStep("store", "limiter")
    /\ storeSweep(t)
    /\ UNCHANGED <<limiterVars, status>>

\* limiter.sweep, then peers.sweep, which forgets peers of discovery.
SweepLimiter(t) ==
    /\ sweepStep("limiter", "list")
    /\ limiterSweep(t)
    /\ UNCHANGED <<storeVars, status>>

\* shouldStop: first the store must be empty, ...
CheckEmpty ==
    /\ sweepStep("list", IF listLen = 0 THEN "idle" ELSE "wait")
    /\ UNCHANGED <<storeVars, limiterVars, status>>

idleFor == Unix(now) - lastUsed

\* ... then nothing may have used the daemon for a while.  If so, stop().
CheckIdle ==
    /\ sweepStep("idle", IF idleFor > IdleTimeout THEN "returned" ELSE "wait")
    /\ status' = IF idleFor > IdleTimeout /\ status = "up" THEN "idle" ELSE status
    /\ UNCHANGED <<storeVars, limiterVars>>

-----------------------------------------------------------------------------
\* The process

\* A signal cancels the context, or a listener fails for good.
Interrupt ==
    /\ Interrupts
    /\ ~exited /\ status = "up"
    /\ status' = "interrupt"
    /\ UNCHANGED <<now, storeVars, limiterVars, connVars, post, lastUsed, sweeper, exited>>

\* runDaemon returns and the process ends, with whatever it was doing.
Exit ==
    /\ ~exited /\ status # "up"
    /\ exited' = TRUE
    /\ UNCHANGED <<now, storeVars, limiterVars, connVars, post, lastUsed, sweeper, status>>

\* Goroutines may be slow, until the handshakes of the last arrivals are due.
LastStall == LastArrival + PakeTimeout

\* Time passes.  Two things are taken to be quick: a POST is stored within
\* ioTimeout of its start (the server's ReadTimeout ends the request otherwise),
\* and shouldStop's second test follows its first within one clock tick.
Tick ==
    /\ ~exited
    /\ sweeper # "idle"
    /\ \A r \in Request : post[r].at \in {"body", "add"} => now < post[r].begun + IoTimeout
    /\ now >= LastStall => \A c \in Conn : pc[c] \notin Computing
    /\ ClockTick
    /\ UNCHANGED <<storeVars, limiterVars, connVars, post, lastUsed, sweeper, status, exited>>

Terminated == exited /\ UNCHANGED vars

Handler(c) ==
    \/ \E t \in Readings : AllowPeer(c, t) \/ AllowExchange(c, t) \/ FailConfirmation(c, t)
    \/ ReadHello(c) \/ BuildOffer(c) \/ WriteOffer(c) \/ Confirm(c)
    \/ Take(c) \/ Seal(c) \/ WriteBody(c)
    \/ Disconnect(c) \/ DeadlineExpires(c)

Posting(r) ==
    \/ PostBegin(r)
    \/ \E ttl \in Ttls, maxGets \in GetLimits : PostBody(r, ttl, maxGets)
    \/ PostRefused(r)
    \/ \E prs \in Prs : PostAdd(r, prs)

SweepLoop ==
    \/ Wake
    \/ Leave
    \/ \E t \in Readings : SweepStore(t) \/ SweepLimiter(t)
    \/ CheckEmpty
    \/ CheckIdle

Next ==
    \/ \E c \in Conn, p \in Peers, serves \in BOOLEAN : Accept(c, p, serves)
    \/ \E c \in Conn : Handler(c)
    \/ \E r \in Request : Posting(r)
    \/ HandleList
    \/ \E prs \in Prs : HandleDelete(prs)
    \/ HandleDeleteAll
    \/ SweepLoop
    \/ Interrupt
    \/ Exit
    \/ Tick
    \/ Terminated

Spec == Init /\ [][Next]_vars

\* A goroutine that is not waiting for the network is eventually scheduled.
Compute(c) ==
    \/ \E t \in Readings : AllowPeer(c, t) \/ AllowExchange(c, t)
    \/ BuildOffer(c) \/ Take(c) \/ Seal(c)

\* The request ends: it is read or times out, and a free code turns up.
PostRead(r) ==
    \/ \E ttl \in Ttls, maxGets \in GetLimits : PostBody(r, ttl, maxGets)
    \/ PostRefused(r)

PostFresh(r) == \E prs \in Prs : addError(prs) # "collision" /\ PostAdd(r, prs)

(***************************************************************************)
(* Fairness: time passes whatever else happens (strong: the sweep loop     *)
(* holds it up again and again); goroutines are scheduled; a past deadline *)
(* ends a wait; the ticker of sweepLoop keeps firing; a POST is read or    *)
(* times out, and codes drawn at random from far more codes than there are *)
(* pastes do not collide for ever; runDaemon returns once it is cancelled. *)
(* Nothing is assumed of clients, and nothing ever has to arrive.          *)
(***************************************************************************)
Fairness ==
    /\ SF_vars(Tick)
    /\ \A c \in Conn : WF_vars(Compute(c)) /\ WF_vars(DeadlineExpires(c))
    /\ WF_vars(SweepLoop)
    /\ \A r \in Request : WF_vars(PostRead(r)) /\ WF_vars(PostFresh(r))
    /\ WF_vars(Exit)

FairSpec == Spec /\ Fairness

-----------------------------------------------------------------------------
(***************************************************************************)
(* No paste is handed out more often than its max_gets, whatever           *)
(* handshakes confirmed its code at the same time and whether or not the   *)
(* paste is still in the store (candidates, take, del, sweep).             *)
(***************************************************************************)
AtMostMaxGets ==
    \A id \in PasteIds :
        posted[id].MaxGets > 0 => Cardinality(Takers(id)) <= posted[id].MaxGets

(***************************************************************************)
(* The get counter the owner is shown is the number of clients that        *)
(* proved they hold the code: bystanders of a fan out, wrong codes and     *)
(* handshakes that came too late are never charged (take, handshake).      *)
(***************************************************************************)
GetsAreTakers ==
    \A prs \in DOMAIN m : m[prs].Gets = Cardinality(Takers(m[prs].id))

(***************************************************************************)
(* What a client receives is the intact payload of a paste posted under    *)
(* the code it holds, even if that paste was burned, deleted or swept      *)
(* between take's copy and the last write (take, burn, handshake).         *)
(***************************************************************************)
RightBody ==
    \A c \in Conn : got[c] # 0 =>
        /\ got[c] = took[c]
        /\ posted[got[c]].prs = peer[c].prs

(***************************************************************************)
(* A payload is in memory exactly while its paste can still be taken or    *)
(* swept: burning, deleting, clearing and sweeping all erase it (burn,     *)
(* del, clear, sweep).                                                     *)
(***************************************************************************)
NoResidue ==
    mem = {m[prs].id : prs \in {q \in DOMAIN m : ~m[q].Burned}}

(***************************************************************************)
(* Every offer has room for a decoy next to all live candidates, and never *)
(* outgrows what the wire format and the client accept (paddedCount,       *)
(* candidates, buildOffer).                                                *)
(***************************************************************************)
OfferHidesCount ==
    \A c \in Conn : pc[c] \in {"write", "tag", "take"} =>
        /\ Cardinality(offer[c].live) < offer[c].slots
        /\ offer[c].slots <= MaxCandidates

(***************************************************************************)
(* The semaphore holds one slot for each running handler, on every path a  *)
(* handler can take out of handshake (serveData).                          *)
(***************************************************************************)
SlotsHeld == sem = Cardinality(Active)

(***************************************************************************)
(* When sweepLoop decides to stop an idle daemon, no paste can be fetched  *)
(* from it, although posts go on between its two tests (shouldStop, touch, *)
(* handlePost).                                                            *)
(***************************************************************************)
IdleDecisionSound ==
    [][status = "up" /\ status' = "idle" => \A prs \in Prs : ~Retrievable(prs, now)]_vars

(***************************************************************************)
(* "Never stop while a retrievable paste remains in memory." (shouldStop): *)
(* a daemon that went away because it was idle took no paste with it.      *)
(***************************************************************************)
NeverStopsHoldingPaste ==
    exited /\ status = "idle" => \A prs \in Prs : ~Retrievable(prs, now)

(***************************************************************************)
(* Every handler returns, however its client behaves: the deadlines set by *)
(* openExchange and before the last write end every wait (handshake).      *)
(***************************************************************************)
HandlersReturn ==
    \A c \in Conn : pc[c] \in Waiting \cup Computing ~> pc[c] = "done" \/ exited

(***************************************************************************)
(* Every POST is answered, with a code or with an error, also when the     *)
(* store is full (handlePost, add).                                        *)
(***************************************************************************)
PostsAnswered ==
    \A r \in Request : post[r].at = "body" ~> post[r].at = "done" \/ exited

(***************************************************************************)
(* A daemon that is no longer used goes away by itself once the pastes it  *)
(* holds have expired, burned ones included (sweepLoop, sweep, shouldStop).*)
(***************************************************************************)
UnusedDaemonExits ==
    <>[](\A prs \in DOMAIN m : Expired(m[prs], now)) => <>exited

-----------------------------------------------------------------------------
(***************************************************************************)
(* The daemon implements the paste service.  A paste is on the shelf while *)
(* take would return it; a fetch happens at the moment of take; time and   *)
(* exit withdraw pastes.                                                   *)
(***************************************************************************)
OnShelf ==
    IF exited THEN {} ELSE {m[prs].id : prs \in {q \in DOMAIN m : Retrievable(q, now)}}

Service == INSTANCE PasteService WITH
    Code      <- Prs,
    Client    <- Conn,
    Limits    <- GetLimits,
    published <- posted,
    shelf     <- OnShelf,
    holds     <- [c \in Conn |-> peer[c].prs],
    fetched   <- took

(***************************************************************************)
(* Every step of the daemon is a step of the service or changes nothing    *)
(* the service speaks of: concurrent handshakes, stale candidates, sweeps  *)
(* and restarts of the code loop behave as if each fetch, post and delete  *)
(* happened at once.                                                       *)
(***************************************************************************)
ImplementsService == Service!Spec
=============================================================================
