------------------------------ MODULE Exchange ------------------------------
(***************************************************************************)
(* One client and one daemon over the wire: somebody types a code, the     *)
(* client resolves it (code.go) and runs the four messages of the exchange *)
(* (wire.go, fetch.go) with the daemon's handshake, whose store is filled, *)
(* emptied and ages meanwhile.  The connection may break at any moment and *)
(* the code may be typed again.  The limiter is shared with every other    *)
(* client of the daemon, whose traffic is not modelled here: it may turn   *)
(* away any handshake (modules Limiter, Budget and Lockout say when).      *)
(*                                                                         *)
(* CPace (pake.go) is modelled by what its values are made of: a generator *)
(* of the secret, the host and the connection; a share of a generator and  *)
(* a scalar; a key of the shared point and, because oCat orders them, the  *)
(* unordered pair of shares; a tag of a key and a role.                    *)
(***************************************************************************)
EXTENDS Store, Code

CONSTANTS
    Codes,          \* the codes newCode and newDigitCode draw, in order
    GetLimits,      \* the limits a paste may be posted with
    MaxSessions,    \* bound: how often codes are typed
    PointLen,       \* pointLen
    MacLen,         \* macLen
    Byte,           \* values of a byte, 256
    MaxPasteSize,   \* maxPasteSize
    AeadOverhead,   \* aeadOverhead
    FrameRoom       \* what maxFrame allows beyond a paste, 64 KiB

ASSUME ExchangeAssumption ==
    /\ Codes \in Seq(Prs) /\ Prs \subseteq wordCodes \cup digitCodes
    /\ GetLimits \subseteq Nat
    /\ {MaxSessions, PointLen, MacLen, MaxPasteSize, AeadOverhead, FrameRoom} \subseteq Nat
    /\ Byte \in Nat \ {0} /\ MaxCandidates < Byte * Byte
    /\ AeadOverhead <= FrameRoom

\* Doubled, minCandidates comes to maxCandidates: no bucket is beyond it.
ASSUME BucketAssumption == \A n \in 0..MaxPastes : paddedCount(n) \in 0..MaxCandidates

VARIABLES
    now,        \* 0, and 1 once the first pastes have expired
    session,    \* connections made; numbers the latest one's channel binding
    open,       \* whether that connection still carries anything
    meant,      \* the code somebody has in mind
    secret,     \* what the client made of what was typed
    cpc,        \* where the client is: idle, hello, offer or payload
    csk,        \* the client's session key, once an offer matched
    outcome,    \* how the latest get ended
    spc,        \* where handshake is: closed, denied, hello, tag, take or write
    sides,      \* handshake's pakeSide for each candidate
    match,      \* the candidate the client confirmed
    body,       \* the payload take returned
    fails,      \* whether limiter.fail was called
    toServer,   \* the frame on its way to the daemon, if any
    toClient,   \* the frame on its way to the client, if any
    excused,    \* the paste could not be fetched at some moment of the session
    delivered   \* the pastes the client received, with the code that was meant

clientVars == <<meant, secret, cpc, csk, outcome, delivered>>
serverVars == <<spc, sides, match, body, fails>>
wireVars == <<toServer, toClient>>
vars == <<storeVars, now, session, open, clientVars, serverVars, wireVars, excused>>

ExchangeTypeOK ==
    /\ StoreTypeOK
    /\ now \in 0..1 /\ session \in 0..MaxSessions
    /\ {open, fails, excused} \subseteq BOOLEAN
    /\ {meant, secret} \subseteq wordCodes \cup digitCodes \cup {<<>>}
    /\ cpc \in {"idle", "hello", "offer", "payload"}
    /\ spc \in {"closed", "denied", "hello", "tag", "take", "write"}
    /\ outcome \in {"none", "refused", "no match", "error", "ok"}
    /\ Len(sides) <= MaxCandidates /\ match \in 0..Len(sides)
    /\ body \in PasteIds \cup {0}
    /\ Len(toServer) <= 1 /\ Len(toClient) <= 1
    /\ \A i \in DOMAIN delivered : delivered[i].id \in PasteIds

Init ==
    /\ StoreInit
    /\ now = 0 /\ session = 0 /\ open = FALSE
    /\ meant = <<>> /\ secret = <<>> /\ cpc = "idle" /\ csk = <<>> /\ outcome = "none"
    /\ spc = "closed" /\ sides = <<>> /\ match = 0 /\ body = 0 /\ fails = FALSE
    /\ toServer = <<>> /\ toClient = <<>>
    /\ excused = FALSE /\ delivered = <<>>

-----------------------------------------------------------------------------
\* CPace (pake.go, pakeSide); the client's scalar is 0, the i-th candidate's is i

\* The secret of every decoy, which no code resolves to.
Decoy == <<>>

generator(prs) == [prs |-> prs, sid |-> session]

share(prs, y) == [gen |-> generator(prs), scalar |-> y]

\* scalarMultVfy: the two sides' points agree if their generators do.
scalarMultVfy(y, peer) == [gen |-> peer.gen, scalars |-> {y, peer.scalar}]

\* The same for both sides: oCat sorts the shares.
oCat(ya, yb) == {ya, yb}

sessionKey(k, ya, yb) == [sid |-> session, k |-> k, transcript |-> oCat(ya, yb)]

confirm(sk, role) == [sk |-> sk, role |-> role]

\* newPakeSide and finish, for the i-th candidate.
pakeSide(prs, i, peer) ==
    [prs |-> prs, share |-> share(prs, i),
     sk  |-> sessionKey(scalarMultVfy(i, peer), share(prs, i), peer)]

-----------------------------------------------------------------------------
\* Frames (wire.go)

helloLen == 1 + PointLen
maxFrame == MaxPasteSize + FrameRoom
entryLen == PointLen + MacLen

\* Mutant: leaves out the two bytes of the count.
MaxOfferNoCount == MaxCandidates * entryLen

maxOfferLen == 2 + MaxCandidates * entryLen

\* writeFrame and readFrame: what is sent into a broken connection is lost, and
\* either end refuses what is longer than it allows.
writeFrame(frame) == IF open /\ frame.len <= maxFrame THEN <<frame>> ELSE <<>>

readable(frame, limit) == frame.len <= limit

\* seal and open
sealed(sk, payload) == [len |-> MaxPasteSize + AeadOverhead, sk |-> sk, body |-> payload]

opens(frame, key) == <<frame.sk>> = key

\* buildOffer, from the sides of the candidates.
offerFrame(S) ==
    [len     |-> 2 + Len(S) * entryLen,
     count   |-> <<(Len(S) \div Byte) % Byte, Len(S) % Byte>>,
     entries |-> [i \in DOMAIN S |-> [share |-> S[i].share, tag |-> confirm(S[i].sk, "server")]]]

\* matchOffer: the client's key for an entry, and the entries whose tag verifies.
entryKey(e) == sessionKey(scalarMultVfy(0, e.share), share(secret, 0), e.share)

count(offer) == offer.count[1] * Byte + offer.count[2]

wellFormed(offer) == offer.len = 2 + count(offer) * entryLen

\* Mutant: settles for the first entry when no tag verifies.
MatchingAnyway(offer) ==
    LET hits == {i \in 1..count(offer) :
                    offer.entries[i].tag = confirm(entryKey(offer.entries[i]), "server")}
    IN  IF hits = {} THEN {1} ELSE hits

matching(offer) ==
    {i \in 1..count(offer) :
        offer.entries[i].tag = confirm(entryKey(offer.entries[i]), "server")}

\* matchConfirmation
confirmed(tag) == {i \in DOMAIN sides : tag = confirm(sides[i].sk, "client")}

-----------------------------------------------------------------------------
\* The client

\* cmdGet resolves what was typed before it connects to anyone.
Type(code, text) ==
    /\ cpc = "idle" /\ spc \in {"closed", "denied"} /\ session < MaxSessions
    /\ session' = session + 1
    /\ meant' = code /\ secret' = canonical(text)
    /\ IF secret' = Refused
       THEN outcome' = "refused" /\ UNCHANGED <<cpc, spc, open, excused>>
       ELSE /\ outcome' = "none" /\ cpc' = "hello" /\ spc' = "hello" /\ open' = TRUE
            /\ excused' = ~Retrievable(secret', now)
    /\ UNCHANGED <<storeVars, now, csk, sides, match, body, fails, wireVars, delivered>>

ClientHello ==
    /\ cpc = "hello"
    /\ cpc' = "offer"
    /\ toServer' = writeFrame([len |-> helloLen, share |-> share(secret, 0)])
    /\ UNCHANGED <<storeVars, now, session, open, meant, secret, csk, outcome, delivered,
                   serverVars, toClient, excused>>

\* The client returns and closes its connection.
Return(result) ==
    /\ cpc' = "idle" /\ outcome' = result /\ csk' = <<>> /\ open' = FALSE
    /\ toServer' = <<>> /\ toClient' = <<>>

\* exchange reads the offer and confirms the candidate that matches, the last one
\* if there are several.
ClientOffer ==
    /\ cpc = "offer" /\ toClient # <<>>
    /\ LET offer == Head(toClient)
       IN  IF ~readable(offer, maxOfferLen) \/ ~wellFormed(offer) THEN Return("error")
           ELSE IF matching(offer) = {} THEN Return("no match")
           ELSE LET sk == entryKey(offer.entries[Max(matching(offer))])
                IN  /\ cpc' = "payload" /\ csk' = <<sk>>
                    /\ toServer' = writeFrame([len |-> MacLen, tag |-> confirm(sk, "client")])
                    /\ toClient' = <<>>
                    /\ UNCHANGED <<open, outcome>>
    /\ UNCHANGED <<storeVars, now, session, meant, secret, delivered, serverVars, excused>>

\* ... and opens the payload with its key.
ClientPayload ==
    /\ cpc = "payload" /\ toClient # <<>>
    /\ LET payload == Head(toClient)
           good    == readable(payload, maxFrame) /\ opens(payload, csk)
       IN  /\ Return(IF good THEN "ok" ELSE "error")
           /\ delivered' = IF good THEN Append(delivered, [id |-> payload.body, meant |-> meant])
                           ELSE delivered
    /\ UNCHANGED <<storeVars, now, session, meant, secret, serverVars, excused>>

\* A read fails: the connection is gone, or the daemon has closed it.
ClientError ==
    /\ cpc \in {"offer", "payload"} /\ toClient = <<>> /\ (~open \/ spc \in {"closed", "denied"})
    /\ Return("error")
    /\ UNCHANGED <<storeVars, now, session, meant, secret, delivered, serverVars, excused>>

-----------------------------------------------------------------------------
\* The daemon: handshake

\* Mutant: remembers the match of the connection before.
HangupKeepsMatch ==
    /\ spc' = "closed" /\ sides' = <<>> /\ body' = 0 /\ UNCHANGED match

Hangup ==
    /\ spc' = "closed" /\ sides' = <<>> /\ match' = 0 /\ body' = 0

\* No connection slot is free, allowPeer refuses the address or, after the hello,
\* allowExchange the guess: the connection is closed and nothing is written.
ServerRefuse ==
    /\ spc = "hello"
    /\ spc' = "denied"
    /\ toServer' = <<>>
    /\ UNCHANGED <<storeVars, now, session, open, clientVars, sides, match, body, fails,
                   toClient, excused>>

Decoys(n) == [i \in 1..n |-> Decoy]

\* The secrets of an offer; which slot is whose does not matter.
shuffled(offer) ==
    SetToSeq(offer.live) \o Decoys(offer.slots - Cardinality(offer.live))

\* Nothing refuses it: readHello; then the candidates of this moment are offered.
ServerOffer ==
    /\ spc = "hello" /\ toServer # <<>>
    /\ LET hello == Head(toServer)
           prs   == shuffled(candidates(now))
           S     == [i \in DOMAIN prs |-> pakeSide(prs[i], i, hello.share)]
       IN  IF ~readable(hello, helloLen) \/ hello.len # helloLen \/ Len(prs) > MaxCandidates
           THEN Hangup /\ UNCHANGED toClient
           ELSE /\ spc' = "tag" /\ sides' = S
                /\ toClient' = writeFrame(offerFrame(S))
                /\ UNCHANGED <<match, body>>
    /\ toServer' = <<>>
    /\ UNCHANGED <<storeVars, now, session, open, clientVars, fails, excused>>

\* The client's tag confirms one of them, or counts as a failed guess.
ServerTag ==
    /\ spc = "tag" /\ toServer # <<>>
    /\ LET frame == Head(toServer)
           hits  == confirmed(frame.tag)
       IN  IF ~readable(frame, MacLen) THEN Hangup /\ UNCHANGED fails
           ELSE IF frame.len # MacLen \/ hits = {} THEN Hangup /\ fails' = TRUE
           ELSE /\ spc' = "take" /\ match' = Max(hits)
                /\ UNCHANGED <<sides, body, fails>>
    /\ toServer' = <<>>
    /\ UNCHANGED <<storeVars, now, session, open, clientVars, toClient, excused>>

\* Mutant: takes the first candidate of the offer.
TakenFirst == sides[1].prs

taken == sides[match].prs

\* The get is counted before the payload is written.
ServerTake ==
    /\ spc = "take"
    /\ take(taken, now)
    /\ IF Retrievable(taken, now)
       THEN spc' = "write" /\ body' = copied(taken) /\ UNCHANGED <<sides, match>>
       ELSE Hangup
    /\ UNCHANGED <<now, session, open, clientVars, fails, wireVars, excused>>

ServerWrite ==
    /\ spc = "write"
    /\ toClient' = writeFrame(sealed(sides[match].sk, body))
    /\ Hangup
    /\ UNCHANGED <<storeVars, now, session, open, clientVars, fails, toServer, excused>>

\* A read fails.
ServerError ==
    /\ spc \in {"hello", "tag"} /\ toServer = <<>> /\ ~open
    /\ Hangup
    /\ UNCHANGED <<storeVars, now, session, open, clientVars, fails, wireVars, excused>>

-----------------------------------------------------------------------------
\* Meanwhile

\* The connection breaks; what was sent may still arrive.
Break ==
    /\ open
    /\ open' = FALSE /\ excused' = TRUE
    /\ \/ UNCHANGED wireVars
       \/ toServer' = <<>> /\ toClient' = <<>>
    /\ UNCHANGED <<storeVars, now, session, clientVars, serverVars>>

\* The client's paste may have become impossible to fetch.
Excuse == excused' = (excused \/ ~Retrievable(secret, now)')

Post(limit) ==
    /\ Len(posted) < Len(Codes)
    /\ addError(Codes[Len(posted) + 1]) = "none"
    /\ add(Codes[Len(posted) + 1], now, limit)
    /\ UNCHANGED <<now, session, open, clientVars, serverVars, wireVars, excused>>

Delete(prs) ==
    /\ del(prs)
    /\ UNCHANGED <<now, session, open, clientVars, serverVars, wireVars>>
    /\ Excuse

\* The first pastes expire, and are swept.
Expire ==
    /\ now = 0 /\ now' = 1
    /\ UNCHANGED <<storeVars, session, open, clientVars, serverVars, wireVars>>
    /\ Excuse

Sweep ==
    /\ \E prs \in DOMAIN m : Expired(m[prs], now)
    /\ storeSweep(now)
    /\ UNCHANGED <<now, session, open, clientVars, serverVars, wireVars, excused>>

Next ==
    \/ \E code \in Prs : \E text \in typed(code) : Type(code, text)
    \/ ClientHello \/ ClientOffer \/ ClientPayload \/ ClientError
    \/ ServerRefuse \/ ServerOffer \/ ServerTag \/ ServerTake \/ ServerWrite \/ ServerError
    \/ Break
    \/ \E limit \in GetLimits : Post(limit)
    \/ \E prs \in DOMAIN m : Delete(prs)
    \/ Expire \/ Sweep

Spec == Init /\ [][Next]_vars

-----------------------------------------------------------------------------
\* The sizes an offer may have: minCandidates doubled any number of times, up to
\* maxCandidates.
Doubling(X) == MinCandidates \in X /\ \A v \in X : 2 * v <= MaxCandidates => 2 * v \in X
Buckets == {b \in 1..MaxCandidates : \A X \in SUBSET (1..MaxCandidates) : Doubling(X) => b \in X}

(***************************************************************************)
(* "the smallest power of two bucket with room for a decoy" (paddedCount): *)
(* at every number of live pastes the store can hold, burned ones not      *)
(* counted, an offer has the least size that hides whether it is full.     *)
(***************************************************************************)
OfferSmallest ==
    LET offer == candidates(now)
        n     == Cardinality(offer.live)
    IN  /\ offer.slots \in Buckets
        /\ n < offer.slots
        /\ \A b \in Buckets : n < b => offer.slots <= b

(***************************************************************************)
(* A code cut short, in capitals or grouped differently never stands for   *)
(* another code: canonical returns the one that was meant or refuses.      *)
(***************************************************************************)
NeverAnotherCode == secret \in {meant, Refused}

(***************************************************************************)
(* An exchange that ends without the paste has a reason.  errNoMatch, "no  *)
(* paste for that code on this host", means that the daemon did not hold   *)
(* the paste at some moment of the session or that the connection broke:   *)
(* it never stands for a handshake turned away, an offer misread or a      *)
(* match missed.  Any other error means the same, or that handshake was    *)
(* turned away: no offer is too long to read, no tag of an honest client   *)
(* is refused (matchOffer, matchConfirmation, maxOfferLen).  To the user   *)
(* fetch reports each of them as errNoMatch.                               *)
(***************************************************************************)
FoundIfThere ==
    /\ outcome = "no match" => excused
    /\ outcome = "error" => excused \/ spc = "denied"

(***************************************************************************)
(* "Do not confirm a non holder or charge any of its pastes" (matchOffer): *)
(* an honest get is never counted as a failed confirmation, whether or not *)
(* the daemon holds the paste and whatever happens to it on the way.       *)
(***************************************************************************)
HonestNeverFails == ~fails

(***************************************************************************)
(* What arrives is the paste that was meant, and no paste arrives more     *)
(* often than its limit, although connections break between the count of   *)
(* the get and the last byte and codes are typed again (take, handshake,   *)
(* exchange).                                                              *)
(***************************************************************************)
DeliveredAsPosted ==
    /\ \A i \in DOMAIN delivered : posted[delivered[i].id].prs = delivered[i].meant
    /\ \A id \in PasteIds : posted[id].MaxGets > 0 =>
        Cardinality({i \in DOMAIN delivered : delivered[i].id = id}) <= posted[id].MaxGets
=============================================================================
