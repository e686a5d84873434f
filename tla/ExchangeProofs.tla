--------------------------- MODULE ExchangeProofs ---------------------------
(***************************************************************************)
(* An honest get is never counted as a guess, does not fail without a      *)
(* reason, and brings the paste of the code that was meant, at most as     *)
(* often as its limit; no form of a code stands for another; an offer has  *)
(* the least size that hides how full the store is.  For any codes,        *)
(* stores, sizes and number of sessions.                                   *)
(*                                                                         *)
(* None of these is inductive.  Conversation says, for each place the      *)
(* client can be at, where handshake may be and what may be on the wire;   *)
(* Offered says what the client can rely on in an offer; Served says that  *)
(* the client's paste is still there as long as nothing excuses the        *)
(* contrary.  What is delivered is the subject of GetsInv, further below.  *)
(***************************************************************************)
EXTENDS Exchange, StoreProofs

Places ==
    /\ cpc \in {"idle", "hello", "offer", "payload"}
    /\ spc \in {"closed", "denied", "hello", "tag", "take", "write"}

HelloFrame == [len |-> helloLen, share |-> share(secret, 0)]

TagFrame(sk) == [len |-> MacLen, tag |-> confirm(sk, "client")]

\* S are handshake's sides of the client's session, the client's paste among them.
SidesFor(S) ==
    /\ Len(S) \in 0..MaxCandidates /\ DOMAIN S = 1..Len(S)
    /\ \A i \in 1..Len(S) : S[i] = pakeSide(S[i].prs, i, share(secret, 0))
    /\ excused \/ \E i \in 1..Len(S) : S[i].prs = secret

Offered == spc = "tag" /\ cpc # "idle" => SidesFor(sides)

\* The client waits for the offer.
Awaiting ==
    \/ /\ spc \in {"hello", "denied"} /\ toClient = <<>>
       /\ toServer = <<>> \/ toServer = <<HelloFrame>>
    \/ spc = "tag" /\ toServer = <<>> /\ (toClient = <<>> \/ toClient = <<offerFrame(sides)>>)
    \/ /\ spc = "closed" /\ toServer = <<>> /\ ~open
       /\ toClient = <<>> \/ \E S : SidesFor(S) /\ toClient = <<offerFrame(S)>>

\* It has confirmed its candidate with key sk.
Confirming(sk) ==
    \/ /\ spc = "tag" /\ toClient = <<>> /\ (toServer = <<>> \/ toServer = <<TagFrame(sk)>>)
       /\ \E k \in 1..Len(sides) : sides[k].sk = sk /\ sides[k].prs = secret
    \/ /\ spc \in {"take", "write"} /\ toClient = <<>> /\ toServer = <<>>
       /\ sides[match].sk = sk /\ sides[match].prs = secret
    \/ /\ spc = "closed" /\ toServer = <<>>
       /\ (toClient = <<>> /\ excused) \/ \E b : toClient = <<sealed(sk, b)>>

Conversation ==
    /\ cpc = "idle" => ~open /\ toServer = <<>> /\ toClient = <<>>
    /\ cpc = "hello" => /\ toServer = <<>> /\ toClient = <<>>
                        /\ spc \in {"hello", "denied"} \/ (spc = "closed" /\ ~open)
    /\ cpc = "offer" => Awaiting
    /\ cpc = "payload" => \E sk : csk = <<sk>> /\ Confirming(sk)

Served ==
    /\ cpc # "idle" /\ ~open => excused
    /\ cpc # "idle" /\ spc \in {"hello", "tag", "take"} => excused \/ Retrievable(secret, now)

Inv ==
    Bounded /\ Places /\ Offered /\ Conversation /\ Served /\ HonestNeverFails /\ FoundIfThere

-----------------------------------------------------------------------------
\* What the data of the exchange obeys

\* The bounds of the store and of the frames, where the steps need them.
LEMMA Constants ==
  /\ MaxPastes \in Nat /\ MaxCandidates \in Nat /\ MaxPastes < MaxCandidates
  /\ PointLen \in Nat /\ MacLen \in Nat /\ MaxPasteSize \in Nat
  /\ AeadOverhead \in Nat /\ FrameRoom \in Nat /\ AeadOverhead <= FrameRoom
  /\ Byte \in Nat \ {0} /\ MaxCandidates < Byte * Byte
  BY StoreAssumption, ExchangeAssumption

\* matchOffer and matchConfirmation settle for one of the hits.
LEMMA MaxIn ==
  ASSUME NEW n \in Nat, NEW S, S \subseteq 1..n, S # {}
  PROVE  Max(S) \in S
  <1> DEFINE Gaps == {k \in Nat : \E x \in S : n - x = k}
  <1>1. Gaps \in SUBSET Nat /\ Gaps # {}
    <2>1. PICK x \in S : x \in 1..n
      OBVIOUS
    <2>2. n - x \in Gaps
      BY <2>1
    <2> QED
      BY <2>2
  <1>2. PICK k \in Gaps : \A y \in Gaps : k <= y
    <2> HIDE DEF Gaps
    <2> QED
      BY <1>1, Least
  <1>4. PICK x \in S : n - x = k
    BY <1>2
  <1>5. \A y \in S : x >= y
    <2> TAKE y \in S
    <2>1. y \in 1..n /\ x \in 1..n
      OBVIOUS
    <2>2. n - y \in Gaps
      BY <2>1
    <2>3. n - x <= n - y
      BY <1>2, <1>4, <2>2
    <2> QED
      BY <2>1, <2>3
  <1> QED
    BY <1>5 DEF Max

\* The two bytes of the count stand for every number of slots an offer has.
LEMMA CountReads ==
  ASSUME NEW L \in 0..MaxCandidates
  PROVE  (((L \div Byte) % Byte) * Byte) + (L % Byte) = L
  <1>1. L < Byte * Byte /\ L \in Nat /\ Byte \in Nat \ {0}
    BY Constants
  <1> DEFINE q == L \div Byte
             r == L % Byte
  <1>2. q \in Nat /\ r \in 0..(Byte - 1) /\ L = Byte * q + r
    BY <1>1
  <1> HIDE DEF q, r
  <1>3. q < Byte
    <2> SUFFICES ASSUME q >= Byte PROVE FALSE
      BY <1>1, <1>2
    <2>1. \A a, b \in Nat : a >= b => b * a >= b * b
      OBVIOUS
    <2>2. Byte * q >= Byte * Byte
      BY <1>1, <1>2, <2>1
    <2>3. Byte * q \in Nat /\ Byte * Byte \in Nat
      BY <1>1, <1>2
    <2> QED
      BY <1>1, <1>2, <2>2, <2>3
  <1>4. q % Byte = q
    BY <1>1, <1>2, <1>3
  <1>5. q * Byte + r = L
    BY <1>1, <1>2
  <1> QED
    BY <1>4, <1>5 DEF q, r

\* SetToSeq lists a finite set.
LEMMA Listed ==
  ASSUME NEW S, IsFiniteSet(S)
  PROVE  /\ SetToSeq(S) \in [1..Cardinality(S) -> S]
         /\ \A x \in S : \E i \in 1..Cardinality(S) : SetToSeq(S)[i] = x
  <1> DEFINE D == 1..Cardinality(S)
  <1>0. Cardinality(S) \in Nat /\ ExistsBijection(D, S)
    BY FS_CardinalityType
  <1>1. PICK f \in Bijection(D, S) : TRUE
    BY <1>0 DEF ExistsBijection
  <1>2. f \in [D -> S] /\ IsInjective(f)
    BY <1>1 DEF Bijection, Injection, IsInjective
  <1>3. SetToSeq(S) \in [D -> S] /\ IsInjective(SetToSeq(S))
    BY <1>2 DEF SetToSeq
  <1>4. IsFiniteSet(D) /\ Cardinality(D) = Cardinality(S)
    BY <1>0, FS_Interval
  <1>5. SetToSeq(S) \in Injection(D, S)
    BY <1>3 DEF Injection, IsInjective
  <1>6. SetToSeq(S) \in Surjection(D, S)
    <2> DEFINE g == SetToSeq(S)
    <2>1. g \in Injection(D, S)
      BY <1>5
    <2> HIDE DEF g
    <2>2. g \in Surjection(D, S)
      BY <1>4, <2>1, FS_Injection
    <2> QED
      BY <2>2 DEF g
  <1>7. \A x \in S : \E i \in D : SetToSeq(S)[i] = x
    BY <1>6 DEF Surjection
  <1> QED
    BY <1>3, <1>7

\* Every paste that can be fetched has a slot, and the slots fit an offer.
LEMMA Shuffled ==
  ASSUME Bounded
  PROVE  /\ shuffled(candidates(now)) \in Seq(DOMAIN m \cup {Decoy})
         /\ Len(shuffled(candidates(now))) \in 0..MaxCandidates
         /\ \A prs : Retrievable(prs, now) =>
                \E i \in 1..Len(shuffled(candidates(now))) : shuffled(candidates(now))[i] = prs
  <1> DEFINE live == {prs \in DOMAIN m : Retrievable(prs, now)}
             n == Cardinality(live)
             slots == candidates(now).slots
  <1>1. candidates(now).live = live /\ n \in 0..MaxPastes /\ n < slots /\ slots = paddedCount(n)
    BY CandidatesRoom DEF candidates
  <1>2. IsFiniteSet(live) /\ n \in Nat
    <2>1. live \subseteq DOMAIN m /\ IsFiniteSet(DOMAIN m)
      BY DEF Bounded
    <2> QED
      BY <2>1, FS_Subset, FS_CardinalityType
  <1>3. \A prs : Retrievable(prs, now) => prs \in live
    BY DEF Retrievable
  <1>4. slots \in 0..MaxCandidates /\ n <= slots
    <2>1. slots \in 0..MaxCandidates
      BY <1>1, BucketAssumption
    <2> QED
      BY <1>1, <1>2, <2>1, Constants
  <1>5. /\ SetToSeq(live) \in [1..n -> live]
        /\ \A x \in live : \E i \in 1..n : SetToSeq(live)[i] = x
    BY <1>2, Listed
  <1> DEFINE A == SetToSeq(live)
             B == Decoys(slots - n)
             All == DOMAIN m \cup {Decoy}
  <1>6. shuffled(candidates(now)) = A \o B
    BY <1>1 DEF shuffled
  <1>7. A \in Seq(All) /\ Len(A) = n
    <2>1. A \in Seq(live) /\ live \subseteq All
      BY <1>2, <1>5
    <2> QED
      BY <1>2, <1>5, <2>1
  <1> HIDE DEF live, slots, n
  <1>8. B \in Seq(All) /\ Len(B) = slots - n
    BY <1>2, <1>4 DEF Decoys
  <1>9. \A x \in live : \E i \in 1..n : A[i] = x
    BY <1>5
  <1> HIDE DEF A, B, All
  <1>10. /\ A \o B \in Seq(All) /\ Len(A \o B) = slots
         /\ \A i \in 1..n : (A \o B)[i] = A[i]
    BY <1>2, <1>4, <1>7, <1>8
  <1>11. \A x \in live : \E i \in 1..Len(A \o B) : (A \o B)[i] = x
    <2> TAKE x \in live
    <2>1. PICK i \in 1..n : A[i] = x
      BY <1>9
    <2>2. i \in 1..Len(A \o B) /\ (A \o B)[i] = x
      BY <1>2, <1>4, <1>10, <2>1
    <2> QED
      BY <2>2
  <1> QED
    BY <1>3, <1>4, <1>6, <1>10, <1>11 DEF All

\* The client's key for the entry of a side is that side's exactly if the
\* secrets agree.
LEMMA Keys ==
  ASSUME NEW prs, NEW i
  PROVE  LET side == pakeSide(prs, i, share(secret, 0))
         IN  entryKey([share |-> side.share, tag |-> confirm(side.sk, "server")]) = side.sk
                <=> prs = secret
  <1> DEFINE own == share(secret, 0)
             sid == session
  <1>1. pakeSide(prs, i, own).share = share(prs, i)
    BY DEF pakeSide
  <1>2. pakeSide(prs, i, own).sk = sessionKey(scalarMultVfy(i, own), share(prs, i), own)
    BY DEF pakeSide
  <1>3. entryKey([share |-> share(prs, i), tag |-> confirm(pakeSide(prs, i, own).sk, "server")])
          = sessionKey(scalarMultVfy(0, share(prs, i)), own, share(prs, i))
    BY DEF entryKey
  <1>4. scalarMultVfy(i, own) = [gen |-> generator(secret), scalars |-> {i, 0}]
    BY DEF scalarMultVfy, share
  <1>5. scalarMultVfy(0, share(prs, i)) = [gen |-> generator(prs), scalars |-> {0, i}]
    BY DEF scalarMultVfy, share
  <1>6. ASSUME prs = secret
        PROVE  sessionKey(scalarMultVfy(0, share(prs, i)), own, share(prs, i))
                 = sessionKey(scalarMultVfy(i, own), share(prs, i), own)
    <2>1. {i, 0} = {0, i}
      OBVIOUS
    <2>2. oCat(own, share(prs, i)) = oCat(share(prs, i), own)
      BY DEF oCat
    <2> QED
      BY <1>4, <1>5, <1>6, <2>1, <2>2 DEF sessionKey
  <1>7. ASSUME sessionKey(scalarMultVfy(0, share(prs, i)), own, share(prs, i))
                 = sessionKey(scalarMultVfy(i, own), share(prs, i), own)
        PROVE  prs = secret
    <2>1. scalarMultVfy(0, share(prs, i)) = scalarMultVfy(i, own)
      BY <1>7 DEF sessionKey
    <2>2. generator(prs) = generator(secret)
      BY <1>4, <1>5, <2>1
    <2> QED
      BY <2>2 DEF generator
  <1> QED
    BY <1>1, <1>2, <1>3, <1>6, <1>7

\* Two sides of a session with the same key are the same slot.
LEMMA Scalars ==
  ASSUME NEW p, NEW q, NEW i \in Nat \ {0}, NEW j \in Nat \ {0},
         pakeSide(p, i, share(secret, 0)).sk = pakeSide(q, j, share(secret, 0)).sk
  PROVE  i = j
  <1>1. scalarMultVfy(i, share(secret, 0)) = scalarMultVfy(j, share(secret, 0))
    BY DEF pakeSide, sessionKey
  <1>2. {i, 0} = {j, 0}
    BY <1>1 DEF scalarMultVfy, share
  <1> QED
    BY <1>2

-----------------------------------------------------------------------------
\* What a step keeps

\* The sides of a session stay the sides of that session.
LEMMA SidesKept ==
  ASSUME session' = session, secret' = secret, excused => excused'
  PROVE  /\ \A S : SidesFor(S) => SidesFor(S)'
         /\ sides' = sides /\ SidesFor(sides) => SidesFor(sides)'
         /\ HelloFrame' = HelloFrame
  <1>1. \A S : SidesFor(S) => SidesFor(S)'
    BY DEF SidesFor, pakeSide, share, generator, sessionKey, scalarMultVfy, oCat
  <1>2. sides' = sides /\ SidesFor(sides) => SidesFor(sides)'
    BY DEF SidesFor, pakeSide, share, generator, sessionKey, scalarMultVfy, oCat
  <1>3. HelloFrame' = HelloFrame
    BY DEF HelloFrame, helloLen, share, generator
  <1> QED
    BY <1>1, <1>2, <1>3

\* What happens to the store meanwhile leaves the conversation as it is.
LEMMA Meanwhile ==
  ASSUME Inv, Bounded', excused => excused',
         UNCHANGED <<session, open, clientVars, serverVars, wireVars>>,
         excused' \/ (Retrievable(secret, now) => Retrievable(secret, now)')
  PROVE  Inv'
  <1>0. /\ UNCHANGED <<session, open, meant, secret, cpc, csk, outcome, delivered>>
        /\ UNCHANGED <<spc, sides, match, body, fails, toServer, toClient>>
    BY DEF clientVars, serverVars, wireVars
  <1>1. Places' /\ HonestNeverFails' /\ FoundIfThere'
    BY <1>0 DEF Inv, Places, HonestNeverFails, FoundIfThere
  <1>2. Offered'
    BY <1>0, SidesKept DEF Inv, Offered
  <1>3. Awaiting => Awaiting'
    BY <1>0, SidesKept DEF Awaiting
  <1>4. \A sk : Confirming(sk) => Confirming(sk)'
    BY <1>0 DEF Confirming
  <1>5. Conversation'
    BY <1>0, <1>3, <1>4 DEF Inv, Conversation
  <1>6. Served'
    BY <1>0 DEF Inv, Served
  <1> QED
    BY <1>1, <1>2, <1>5, <1>6 DEF Inv

LEMMA PostKeeps ==
  ASSUME Inv, NEW limit, Post(limit)
  PROVE  Inv'
  <1>1. PICK code : addError(code) = "none" /\ add(code, now, limit)
    BY DEF Post
  <1>2. UNCHANGED <<now, session, open, clientVars, serverVars, wireVars, excused>>
    BY DEF Post
  <1>3. Bounded'
    BY <1>1, StoreBounded DEF Inv
  <1>4. Retrievable(secret, now) => Retrievable(secret, now)'
    <2>1. secret' = secret /\ now' = now
      BY <1>2 DEF clientVars
    <2>2. code \notin DOMAIN m
      BY <1>1 DEF addError
    <2>3. DOMAIN m' = DOMAIN m \cup {code} /\ \A q \in DOMAIN m : m'[q] = m[q]
      BY <1>1, <2>2 DEF add
    <2> QED
      BY <2>1, <2>3 DEF Retrievable, Expired
  <1> QED
    BY <1>2, <1>3, <1>4, Meanwhile

LEMMA DeleteKeeps ==
  ASSUME Inv, NEW prs, Delete(prs)
  PROVE  Inv'
  <1>1. Bounded'
    BY StoreBounded DEF Inv, Delete, del
  <1>2. excused' = (excused \/ ~Retrievable(secret, now)')
    BY DEF Delete, Excuse
  <1> QED
    BY <1>1, <1>2, Meanwhile DEF Delete

LEMMA ExpireKeeps ==
  ASSUME Inv, Expire
  PROVE  Inv'
  <1>1. Bounded'
    BY StoreBounded DEF Inv, Expire
  <1>2. excused' = (excused \/ ~Retrievable(secret, now)')
    BY DEF Expire, Excuse
  <1> QED
    BY <1>1, <1>2, Meanwhile DEF Expire

LEMMA SweepKeeps ==
  ASSUME Inv, Sweep
  PROVE  Inv'
  <1>1. Bounded'
    BY StoreBounded DEF Inv, Sweep, storeSweep
  <1>2. UNCHANGED <<now, session, open, clientVars, serverVars, wireVars, excused>>
    BY DEF Sweep
  <1>3. Retrievable(secret, now) => Retrievable(secret, now)'
    <2>1. secret' = secret /\ now' = now
      BY <1>2 DEF clientVars
    <2>2. m' = [q \in DOMAIN m \ {prs \in DOMAIN m : Expired(m[prs], now)} |-> m[q]]
      BY DEF Sweep, storeSweep, burnAndDelete
    <2> QED
      BY <2>1, <2>2 DEF Retrievable, Expired
  <1> QED
    BY <1>1, <1>2, <1>3, Meanwhile

\* Frames are lost, and whatever the client ends up with is excused.
LEMMA BreakKeeps ==
  ASSUME Inv, Break
  PROVE  Inv'
  <1>0. /\ UNCHANGED <<storeVars, now, session, meant, secret, cpc, csk, outcome, delivered>>
        /\ UNCHANGED <<spc, sides, match, body, fails>>
        /\ ~open' /\ excused'
        /\ \/ toServer' = toServer /\ toClient' = toClient
           \/ toServer' = <<>> /\ toClient' = <<>>
    BY DEF Break, clientVars, serverVars, wireVars
  <1>1. Bounded'
    BY <1>0, StoreBounded DEF Inv
  <1>2. Places' /\ HonestNeverFails' /\ FoundIfThere' /\ Served'
    BY <1>0 DEF Inv, Places, HonestNeverFails, FoundIfThere, Served
  <1>3. Offered'
    BY <1>0, SidesKept DEF Inv, Offered
  <1>4. Awaiting => Awaiting'
    BY <1>0, SidesKept DEF Awaiting
  <1>5. \A sk : Confirming(sk) => Confirming(sk)'
    BY <1>0 DEF Confirming
  <1>6. Conversation'
    BY <1>0, <1>4, <1>5 DEF Inv, Conversation
  <1> QED
    BY <1>1, <1>2, <1>3, <1>6 DEF Inv

-----------------------------------------------------------------------------
\* The client

LEMMA TypeKeeps ==
  ASSUME Inv, NEW code, NEW text, Type(code, text)
  PROVE  Inv'
  <1>0. /\ cpc = "idle" /\ spc \in {"closed", "denied"}
        /\ toServer = <<>> /\ toClient = <<>> /\ ~open
        /\ UNCHANGED <<storeVars, now, csk, sides, match, body, fails, toServer, toClient>>
    BY DEF Type, wireVars, Inv, Conversation
  <1>1. \/ outcome' = "refused" /\ UNCHANGED <<cpc, spc, open, excused>>
        \/ /\ outcome' = "none" /\ cpc' = "hello" /\ spc' = "hello" /\ open' = TRUE
           /\ excused' = ~Retrievable(secret', now)
    BY DEF Type
  <1>2. Bounded'
    BY <1>0, StoreBounded DEF Inv
  <1>3. Retrievable(secret, now)' <=> Retrievable(secret', now)
    BY <1>0 DEF Retrievable, Expired, storeVars
  <1>4. Places' /\ HonestNeverFails' /\ FoundIfThere'
    BY <1>0, <1>1 DEF Inv, Places, HonestNeverFails, FoundIfThere
  <1>5. spc' # "tag" /\ Offered'
    BY <1>0, <1>1 DEF Offered
  <1>6. Conversation'
    BY <1>0, <1>1 DEF Conversation
  <1>7. Served'
    BY <1>0, <1>1, <1>3 DEF Served
  <1> QED
    BY <1>2, <1>4, <1>5, <1>6, <1>7 DEF Inv

LEMMA ClientHelloKeeps ==
  ASSUME Inv, ClientHello
  PROVE  Inv'
  <1>0. /\ cpc = "hello" /\ cpc' = "offer"
        /\ UNCHANGED <<storeVars, now, session, open, meant, secret, csk, outcome, delivered>>
        /\ UNCHANGED <<spc, sides, match, body, fails, toClient, excused>>
    BY DEF ClientHello, serverVars
  <1>1. toServer' = IF open /\ HelloFrame.len <= maxFrame THEN <<HelloFrame>> ELSE <<>>
    BY DEF ClientHello, writeFrame, HelloFrame
  <1>2. toClient = <<>> /\ (spc \in {"hello", "denied"} \/ (spc = "closed" /\ ~open))
    BY <1>0 DEF Inv, Conversation
  <1>3. Bounded'
    BY <1>0, StoreBounded DEF Inv
  <1>4. Retrievable(secret, now)' <=> Retrievable(secret, now)
    BY <1>0 DEF Retrievable, Expired, storeVars
  <1>5. Places' /\ HonestNeverFails' /\ FoundIfThere' /\ Offered'
    BY <1>0, <1>2 DEF Inv, Places, HonestNeverFails, FoundIfThere, Offered
  <1>6. Served'
    BY <1>0, <1>4 DEF Inv, Served
  <1>7. Awaiting'
    BY <1>0, <1>1, <1>2, SidesKept DEF Awaiting
  <1> QED
    BY <1>0, <1>3, <1>5, <1>6, <1>7 DEF Inv, Conversation

\* Whatever the client returns with, it leaves nothing behind on the wire.
LEMMA ReturnKeeps ==
  ASSUME Inv, NEW result, Return(result),
         UNCHANGED <<storeVars, now, session, meant, secret, serverVars, excused>>,
         result = "no match" => excused, result = "error" => excused \/ spc = "denied"
  PROVE  Inv'
  <1>0. /\ cpc' = "idle" /\ outcome' = result /\ ~open'
        /\ toServer' = <<>> /\ toClient' = <<>>
        /\ UNCHANGED <<spc, sides, match, body, fails>>
    BY DEF Return, serverVars
  <1>1. Bounded'
    BY StoreBounded DEF Inv
  <1>2. Places' /\ HonestNeverFails' /\ FoundIfThere' /\ Offered' /\ Served' /\ Conversation'
    BY <1>0 DEF Inv, Places, HonestNeverFails, FoundIfThere, Offered, Served, Conversation
  <1> QED
    BY <1>1, <1>2 DEF Inv

\* An offer can be read, and shows exactly the slots of the client's paste.
LEMMA OfferRead ==
  ASSUME NEW S, SidesFor(S)
  PROVE  /\ readable(offerFrame(S), maxOfferLen) /\ wellFormed(offerFrame(S))
         /\ matching(offerFrame(S)) = {i \in 1..Len(S) : S[i].prs = secret}
         /\ \A i \in matching(offerFrame(S)) : entryKey(offerFrame(S).entries[i]) = S[i].sk
  <1> DEFINE F == offerFrame(S)
             E(i) == [share |-> S[i].share, tag |-> confirm(S[i].sk, "server")]
  <1>0. Len(S) \in 0..MaxCandidates /\ DOMAIN S = 1..Len(S) /\ entryLen \in Nat
    BY Constants DEF SidesFor, entryLen
  <1>1. /\ F.len = 2 + Len(S) * entryLen
        /\ F.count = <<(Len(S) \div Byte) % Byte, Len(S) % Byte>>
        /\ \A i \in 1..Len(S) : F.entries[i] = E(i)
    BY <1>0 DEF offerFrame
  <1>2. count(F) = Len(S)
    BY <1>0, <1>1, CountReads DEF count
  <1>3. wellFormed(F)
    BY <1>1, <1>2 DEF wellFormed
  <1>4. readable(F, maxOfferLen)
    <2>1. \A a, b, c \in Nat : a <= b => 2 + a * c <= 2 + b * c
      OBVIOUS
    <2>2. Len(S) \in Nat /\ MaxCandidates \in Nat /\ Len(S) <= MaxCandidates
      BY <1>0, Constants
    <2> QED
      BY <1>0, <1>1, <2>1, <2>2 DEF readable, maxOfferLen
  <1>5. \A i \in 1..Len(S) : entryKey(E(i)) = S[i].sk <=> S[i].prs = secret
    <2> TAKE i \in 1..Len(S)
    <2>1. PICK p : p = S[i].prs
      OBVIOUS
    <2>2. S[i] = pakeSide(p, i, share(secret, 0))
      BY <2>1 DEF SidesFor
    <2>3. E(i) = [share |-> pakeSide(p, i, share(secret, 0)).share,
                  tag   |-> confirm(pakeSide(p, i, share(secret, 0)).sk, "server")]
      BY <2>2
    <2>4. entryKey(E(i)) = pakeSide(p, i, share(secret, 0)).sk <=> p = secret
      BY <2>3, Keys
    <2> QED
      BY <2>1, <2>2, <2>4
  <1>6. \A i \in 1..Len(S) :
           F.entries[i].tag = confirm(entryKey(F.entries[i]), "server") <=> S[i].prs = secret
    <2> TAKE i \in 1..Len(S)
    <2>1. \A x, y : confirm(x, "server") = confirm(y, "server") <=> x = y
      BY DEF confirm
    <2>2. F.entries[i] = E(i) /\ E(i).tag = confirm(S[i].sk, "server")
      BY <1>1
    <2>3. E(i).tag = confirm(entryKey(E(i)), "server") <=> S[i].sk = entryKey(E(i))
      BY <2>1, <2>2
    <2> HIDE DEF E, F
    <2> QED
      BY <1>5, <2>2, <2>3
  <1>7. matching(F) = {i \in 1..Len(S) : S[i].prs = secret}
    BY <1>2, <1>6 DEF matching
  <1>8. \A i \in matching(F) : entryKey(F.entries[i]) = S[i].sk
    BY <1>1, <1>5, <1>7
  <1> QED
    BY <1>3, <1>4, <1>7, <1>8

\* The offer on the wire is of sides the client can rely on.
LEMMA OfferArrives ==
  ASSUME Inv, cpc = "offer", toClient # <<>>
  PROVE  \E S : /\ SidesFor(S) /\ toClient = <<offerFrame(S)>> /\ toServer = <<>>
                /\ \/ spc = "tag" /\ sides = S
                   \/ spc = "closed" /\ ~open /\ excused
  <1>1. Awaiting
    BY DEF Inv, Conversation
  <1>2. ~open => excused
    BY DEF Inv, Served
  <1>3. CASE spc = "tag"
    <2>1. SidesFor(sides)
      BY <1>3 DEF Inv, Offered
    <2>2. toClient = <<offerFrame(sides)>> /\ toServer = <<>>
      BY <1>1, <1>3 DEF Awaiting
    <2> QED
      BY <1>3, <2>1, <2>2
  <1>4. CASE spc = "closed"
    BY <1>1, <1>2, <1>4 DEF Awaiting
  <1> QED
    BY <1>1, <1>3, <1>4 DEF Awaiting

LEMMA ClientOfferKeeps ==
  ASSUME Inv, ClientOffer
  PROVE  Inv'
  <1>0. cpc = "offer" /\ toClient # <<>>
        /\ UNCHANGED <<storeVars, now, session, meant, secret, delivered, serverVars, excused>>
    BY DEF ClientOffer
  <1>1. PICK S : /\ SidesFor(S) /\ toClient = <<offerFrame(S)>> /\ toServer = <<>>
                 /\ \/ spc = "tag" /\ sides = S
                    \/ spc = "closed" /\ ~open /\ excused
    BY <1>0, OfferArrives
  <1>2. /\ readable(offerFrame(S), maxOfferLen) /\ wellFormed(offerFrame(S))
        /\ matching(offerFrame(S)) = {i \in 1..Len(S) : S[i].prs = secret}
        /\ \A i \in matching(offerFrame(S)) : entryKey(offerFrame(S).entries[i]) = S[i].sk
    BY <1>1, OfferRead
  <1> DEFINE hits == matching(offerFrame(S))
             sk == entryKey(offerFrame(S).entries[Max(hits)])
  <1>3. Head(toClient) = offerFrame(S)
    BY <1>1
  <1>4. \/ hits = {} /\ Return("no match")
        \/ /\ hits # {} /\ cpc' = "payload" /\ csk' = <<sk>>
           /\ toServer' = writeFrame(TagFrame(sk)) /\ toClient' = <<>>
           /\ UNCHANGED <<open, outcome>>
    BY <1>2, <1>3 DEF ClientOffer, TagFrame
  <1>5. CASE hits = {}
    <2>1. excused
      BY <1>1, <1>2, <1>5 DEF SidesFor
    <2> QED
      BY <1>0, <1>4, <1>5, <2>1, ReturnKeeps
  <1>6. CASE hits # {}
    <2>0. /\ cpc' = "payload" /\ csk' = <<sk>> /\ toClient' = <<>> /\ UNCHANGED <<open, outcome>>
          /\ toServer' = IF open /\ TagFrame(sk).len <= maxFrame THEN <<TagFrame(sk)>> ELSE <<>>
          /\ UNCHANGED <<spc, sides, match, body, fails>>
      BY <1>0, <1>4, <1>6 DEF writeFrame, serverVars
    <2>1. Max(hits) \in hits
      <3>1. Len(S) \in Nat /\ hits \subseteq 1..Len(S)
        BY <1>1, <1>2, Constants DEF SidesFor
      <3> QED
        BY <1>6, <3>1, MaxIn
    <2>2. Max(hits) \in 1..Len(S) /\ S[Max(hits)].prs = secret /\ S[Max(hits)].sk = sk
      BY <1>2, <2>1
    <2> HIDE DEF hits, sk
    <2>3. PICK key : key = sk
      OBVIOUS
    <2>4. Confirming(key)'
      BY <1>0, <1>1, <2>0, <2>2, <2>3 DEF Confirming
    <2>5. Conversation'
      BY <2>0, <2>3, <2>4 DEF Conversation
    <2>6. Bounded'
      BY <1>0, StoreBounded DEF Inv
    <2>7. Places' /\ HonestNeverFails' /\ FoundIfThere'
      BY <1>0, <2>0 DEF Inv, Places, HonestNeverFails, FoundIfThere
    <2>8. Offered'
      BY <1>0, <2>0, SidesKept DEF Inv, Offered
    <2>9. Retrievable(secret, now)' <=> Retrievable(secret, now)
      BY <1>0 DEF Retrievable, Expired, storeVars
    <2>10. Served'
      BY <1>0, <2>0, <2>9 DEF Inv, Served
    <2> QED
      BY <2>5, <2>6, <2>7, <2>8, <2>10 DEF Inv
  <1> QED
    BY <1>5, <1>6

LEMMA ClientPayloadKeeps ==
  ASSUME Inv, ClientPayload
  PROVE  Inv'
  <1>1. cpc = "payload" /\ toClient # <<>>
    BY DEF ClientPayload
  <1>2. PICK sk : csk = <<sk>> /\ Confirming(sk)
    BY <1>1 DEF Inv, Conversation
  <1>3. PICK b : toClient = <<sealed(sk, b)>>
    BY <1>1, <1>2 DEF Confirming
  <1>4. readable(Head(toClient), maxFrame) /\ opens(Head(toClient), csk)
    BY <1>2, <1>3, Constants DEF readable, opens, sealed, maxFrame
  <1>5. Return("ok") /\ UNCHANGED <<storeVars, now, session, meant, secret, serverVars, excused>>
    BY <1>4 DEF ClientPayload
  <1> QED
    BY <1>5, ReturnKeeps

LEMMA ClientErrorKeeps ==
  ASSUME Inv, ClientError
  PROVE  Inv'
  <1>1. cpc \in {"offer", "payload"} /\ toClient = <<>> /\ (~open \/ spc \in {"closed", "denied"})
    BY DEF ClientError
  <1>2. Return("error")
        /\ UNCHANGED <<storeVars, now, session, meant, secret, delivered, serverVars, excused>>
    BY DEF ClientError
  <1>3. CASE ~open
    BY <1>1, <1>2, <1>3, ReturnKeeps DEF Inv, Served
  <1>4. CASE open /\ spc = "closed" /\ cpc = "offer"
    BY <1>4 DEF Inv, Conversation, Awaiting
  <1>5. CASE open /\ spc = "closed" /\ cpc = "payload"
    <2>1. PICK sk : Confirming(sk)
      BY <1>5 DEF Inv, Conversation
    <2>2. excused
      BY <1>1, <1>5, <2>1 DEF Confirming
    <2> QED
      BY <1>2, <2>2, ReturnKeeps
  <1>6. CASE spc = "denied"
    BY <1>2, <1>6, ReturnKeeps
  <1> QED
    BY <1>1, <1>3, <1>4, <1>5, <1>6

-----------------------------------------------------------------------------
\* The daemon

\* The daemon's steps leave the outcome of the latest get and its reason as they are.
LEMMA ReasonKept ==
  ASSUME FoundIfThere, spc # "denied", outcome' = outcome, excused' = excused
  PROVE  FoundIfThere'
  <1>1. (outcome = "no match" => excused) /\ (outcome = "error" => excused)
    BY DEF FoundIfThere
  <1>2. (outcome' = "no match" => excused') /\ (outcome' = "error" => excused')
    BY <1>1
  <1> QED
    BY <1>2 DEF FoundIfThere

\* A handshake that is turned away leaves the client waiting for nothing.
LEMMA ServerRefuseKeeps ==
  ASSUME Inv, ServerRefuse
  PROVE  Inv'
  <1>0. /\ spc = "hello" /\ spc' = "denied" /\ toServer' = <<>>
        /\ UNCHANGED <<storeVars, now, session, open, clientVars, sides, match, body, fails>>
        /\ UNCHANGED <<toClient, excused>>
    BY DEF ServerRefuse
  <1>1. UNCHANGED <<session, open, meant, secret, cpc, csk, outcome, delivered, fails, excused>>
    BY <1>0 DEF clientVars
  <1>2. cpc \in {"hello", "offer"} => toClient = <<>>
    BY <1>0 DEF Inv, Conversation, Awaiting
  <1>3. cpc # "payload"
    BY <1>0 DEF Inv, Conversation, Confirming
  <1>4. Bounded'
    BY <1>0, StoreBounded DEF Inv
  <1>5. Places' /\ HonestNeverFails' /\ FoundIfThere'
    <2>1. Places'
      BY <1>0, <1>1 DEF Inv, Places
    <2>2. HonestNeverFails'
      BY <1>1 DEF Inv, HonestNeverFails
    <2>3. FoundIfThere'
      BY <1>0, <1>1, ReasonKept DEF Inv
    <2> QED
      BY <2>1, <2>2, <2>3
  <1>6. Offered' /\ Served'
    BY <1>0, <1>1 DEF Inv, Offered, Served
  <1>7. Conversation'
    BY <1>0, <1>1, <1>2, <1>3 DEF Inv, Conversation, Awaiting
  <1> QED
    BY <1>4, <1>5, <1>6, <1>7 DEF Inv

\* The hello of this session is answered with sides that hold the client's paste.
LEMMA SidesMade ==
  ASSUME Inv, excused \/ Retrievable(secret, now)
  PROVE  LET prs == shuffled(candidates(now))
             S   == [i \in DOMAIN prs |-> pakeSide(prs[i], i, share(secret, 0))]
         IN  SidesFor(S) /\ Len(prs) <= MaxCandidates
  <1>0. PICK prs : prs = shuffled(candidates(now))
    OBVIOUS
  <1> DEFINE S == [i \in DOMAIN prs |-> pakeSide(prs[i], i, share(secret, 0))]
  <1>1. /\ prs \in Seq(DOMAIN m \cup {Decoy}) /\ Len(prs) \in 0..MaxCandidates
        /\ \A p : Retrievable(p, now) => \E i \in 1..Len(prs) : prs[i] = p
    BY <1>0, Shuffled DEF Inv
  <1>2. DOMAIN prs = 1..Len(prs) /\ Len(prs) \in Nat
    BY <1>1, Constants
  <1>3. DOMAIN S = 1..Len(S) /\ Len(S) = Len(prs)
    <2>1. S = [i \in 1..Len(prs) |-> pakeSide(prs[i], i, share(secret, 0))]
      BY <1>2
    <2> QED
      BY <1>2, <2>1
  <1>4. \A i \in 1..Len(prs) : S[i] = pakeSide(prs[i], i, share(secret, 0)) /\ S[i].prs = prs[i]
    BY <1>2 DEF pakeSide
  <1>5. excused \/ \E i \in 1..Len(prs) : prs[i] = secret
    BY <1>1
  <1> HIDE DEF S
  <1>6. SidesFor(S)
    BY <1>1, <1>3, <1>4, <1>5 DEF SidesFor
  <1> QED
    BY <1>0, <1>1, <1>6, Constants DEF S

LEMMA ServerOfferKeeps ==
  ASSUME Inv, ServerOffer
  PROVE  Inv'
  <1>0. /\ spc = "hello" /\ toServer # <<>> /\ toServer' = <<>>
        /\ UNCHANGED <<storeVars, now, session, open, clientVars, fails, excused>>
    BY DEF ServerOffer
  <1>1. UNCHANGED <<session, open, meant, secret, cpc, csk, outcome, delivered, fails, excused>>
    BY <1>0 DEF clientVars
  <1>2. cpc = "offer" /\ toServer = <<HelloFrame>> /\ toClient = <<>>
    BY <1>0 DEF Inv, Places, Conversation, Awaiting, Confirming
  <1> DEFINE prs == shuffled(candidates(now))
             S == [i \in DOMAIN prs |-> pakeSide(prs[i], i, share(secret, 0))]
  <1>3. SidesFor(S) /\ Len(prs) <= MaxCandidates
    <2>1. excused \/ Retrievable(secret, now)
      BY <1>0, <1>2 DEF Inv, Served
    <2> QED
      BY <2>1, SidesMade
  <1>4. /\ Head(toServer).share = share(secret, 0) /\ Head(toServer).len = helloLen
        /\ readable(Head(toServer), helloLen)
    BY <1>2, Constants DEF HelloFrame, readable, helloLen
  <1>5. /\ spc' = "tag" /\ sides' = S /\ toClient' = writeFrame(offerFrame(S))
        /\ UNCHANGED <<match, body>>
    BY <1>3, <1>4, Constants DEF ServerOffer
  <1> HIDE DEF S
  <1>6. PICK T : T = S
    OBVIOUS
  <1>7. SidesFor(T)' /\ sides' = T
    BY <1>1, <1>3, <1>5, <1>6, SidesKept
  <1>8. SidesFor(sides)'
    BY <1>7 DEF SidesFor, pakeSide, share, generator, sessionKey, scalarMultVfy, oCat
  <1>9. toClient' = <<>> \/ toClient' = <<offerFrame(sides')>>
    BY <1>5 DEF writeFrame
  <1>10. Awaiting'
    BY <1>0, <1>5, <1>9 DEF Awaiting
  <1>11. Conversation'
    BY <1>1, <1>2, <1>10 DEF Conversation
  <1>12. Offered'
    BY <1>8 DEF Offered
  <1>13. Bounded'
    BY <1>0, StoreBounded DEF Inv
  <1>14. Places' /\ HonestNeverFails' /\ FoundIfThere'
    <2>1. Places'
      BY <1>1, <1>2, <1>5 DEF Inv, Places
    <2>2. HonestNeverFails'
      BY <1>1 DEF Inv, HonestNeverFails
    <2>3. FoundIfThere'
      BY <1>0, <1>1, ReasonKept DEF Inv
    <2> QED
      BY <2>1, <2>2, <2>3
  <1>15. Retrievable(secret, now)' <=> Retrievable(secret, now)
    BY <1>0, <1>1 DEF Retrievable, Expired, storeVars
  <1>16. Served'
    BY <1>0, <1>1, <1>2, <1>15 DEF Inv, Served
  <1> QED
    BY <1>11, <1>12, <1>13, <1>14, <1>16 DEF Inv

\* The tag of an honest client confirms the slot its key is from.
LEMMA TagHits ==
  ASSUME Inv, ServerTag
  PROVE  /\ cpc = "payload" /\ spc' = "take" /\ match' \in 1..Len(sides)
         /\ UNCHANGED <<sides, body, fails>>
         /\ \E sk : /\ csk = <<sk>> /\ sides[match'].sk = sk /\ sides[match'].prs = secret
                   /\ toClient = <<>>
  <1>0. /\ spc = "tag" /\ toServer # <<>> /\ toServer' = <<>>
        /\ UNCHANGED <<storeVars, now, session, open, clientVars, toClient, excused>>
    BY DEF ServerTag
  <1>1. UNCHANGED <<session, open, meant, secret, cpc, csk, outcome, delivered, toClient, excused>>
    BY <1>0 DEF clientVars
  <1>2. cpc = "payload"
    BY <1>0 DEF Inv, Places, Conversation, Awaiting
  <1>3. PICK sk : csk = <<sk>> /\ Confirming(sk)
    BY <1>2 DEF Inv, Conversation
  <1>4. toServer = <<TagFrame(sk)>> /\ toClient = <<>>
    BY <1>0, <1>3 DEF Confirming
  <1>5. PICK k \in 1..Len(sides) : sides[k].sk = sk /\ sides[k].prs = secret
    BY <1>0, <1>3 DEF Confirming
  <1>6. SidesFor(sides)
    BY <1>0, <1>2 DEF Inv, Offered
  <1> DEFINE hits == confirmed(confirm(sk, "client"))
  <1>7. hits = {i \in 1..Len(sides) : sides[i].sk = sk}
    <2>1. \A x, y : confirm(x, "client") = confirm(y, "client") <=> x = y
      BY DEF confirm
    <2> QED
      BY <1>6, <2>1 DEF confirmed, SidesFor
  <1>8. Max(hits) \in hits
    <2>1. Len(sides) \in Nat /\ hits \subseteq 1..Len(sides) /\ hits # {}
      BY <1>5, <1>6, <1>7, Constants DEF SidesFor
    <2> QED
      BY <2>1, MaxIn
  <1>9. /\ Head(toServer).tag = confirm(sk, "client") /\ Head(toServer).len = MacLen
        /\ readable(Head(toServer), MacLen)
    BY <1>4, Constants DEF TagFrame, readable
  <1>10. spc' = "take" /\ match' = Max(hits) /\ UNCHANGED <<sides, body, fails>>
    BY <1>8, <1>9 DEF ServerTag
  <1>11. sides[match'].sk = sk /\ sides[match'].prs = secret
    <2>1. PICK i \in 1..Len(sides) : i = match' /\ sides[i].sk = sk
      BY <1>7, <1>8, <1>10
    <2>2. i \in Nat \ {0} /\ k \in Nat \ {0}
      OBVIOUS
    <2>3. PICK p, q : sides[i] = pakeSide(p, i, share(secret, 0))
                      /\ sides[k] = pakeSide(q, k, share(secret, 0))
      BY <1>6 DEF SidesFor
    <2>4. i = k
      <3>1. pakeSide(p, i, share(secret, 0)).sk = pakeSide(q, k, share(secret, 0)).sk
        BY <1>5, <2>1, <2>3
      <3> QED
        BY <2>2, <3>1, Scalars
    <2> QED
      BY <1>5, <2>1, <2>4
  <1>12. match' \in 1..Len(sides)
    BY <1>7, <1>8, <1>10
  <1> QED
    BY <1>2, <1>3, <1>4, <1>10, <1>11, <1>12

LEMMA ServerTagKeeps ==
  ASSUME Inv, ServerTag
  PROVE  Inv'
  <1>0. /\ toServer' = <<>>
        /\ UNCHANGED <<storeVars, now, session, open, clientVars, toClient, excused>>
    BY DEF ServerTag
  <1>1. UNCHANGED <<session, open, meant, secret, cpc, csk, outcome, delivered, toClient, excused>>
    BY <1>0 DEF clientVars
  <1>2. cpc = "payload" /\ spc' = "take" /\ UNCHANGED <<sides, body, fails>>
    BY TagHits
  <1>3. PICK sk : /\ csk = <<sk>> /\ sides[match'].sk = sk /\ sides[match'].prs = secret
                  /\ toClient = <<>>
    BY TagHits
  <1>4. Confirming(sk)'
    BY <1>0, <1>1, <1>2, <1>3 DEF Confirming
  <1>5. Conversation'
    BY <1>1, <1>2, <1>3, <1>4 DEF Conversation
  <1>6. Bounded'
    BY <1>0, StoreBounded DEF Inv
  <1>7. Places' /\ HonestNeverFails' /\ FoundIfThere' /\ Offered'
    <2>1. Places' /\ Offered'
      BY <1>1, <1>2 DEF Inv, Places, Offered
    <2>2. HonestNeverFails'
      BY <1>1, <1>2 DEF Inv, HonestNeverFails
    <2>3. spc # "denied"
      BY DEF ServerTag
    <2>4. FoundIfThere'
      BY <1>1, <2>3, ReasonKept DEF Inv
    <2> QED
      BY <2>1, <2>2, <2>4
  <1>8. Retrievable(secret, now)' <=> Retrievable(secret, now)
    BY <1>0, <1>1 DEF Retrievable, Expired, storeVars
  <1>9. spc = "tag"
    BY DEF ServerTag
  <1>10. Served'
    BY <1>0, <1>1, <1>2, <1>8, <1>9 DEF Inv, Served
  <1> QED
    BY <1>5, <1>6, <1>7, <1>10 DEF Inv

\* handshake is in the middle of an honest get only if the client has confirmed.
LEMMA Taking ==
  ASSUME Inv, spc \in {"take", "write"}, cpc # "idle"
  PROVE  /\ cpc = "payload"
         /\ \E sk : /\ csk = <<sk>> /\ sides[match].sk = sk /\ sides[match].prs = secret
                   /\ toServer = <<>> /\ toClient = <<>>
  <1>1. cpc = "payload"
    BY DEF Inv, Places, Conversation, Awaiting
  <1>2. PICK sk : csk = <<sk>> /\ Confirming(sk)
    BY <1>1 DEF Inv, Conversation
  <1> QED
    BY <1>1, <1>2 DEF Confirming

\* The paste is there unless something excuses that it is not.
LEMMA ServerTakeKeeps ==
  ASSUME Inv, ServerTake
  PROVE  Inv'
  <1>0. /\ spc = "take" /\ take(taken, now)
        /\ UNCHANGED <<now, session, open, clientVars, fails, wireVars, excused>>
    BY DEF ServerTake
  <1>1. UNCHANGED <<open, secret, cpc, csk, outcome, fails, toServer, toClient, excused>>
    BY <1>0 DEF clientVars, wireVars
  <1>2. \/ Retrievable(taken, now) /\ spc' = "write" /\ UNCHANGED <<sides, match>>
        \/ ~Retrievable(taken, now) /\ spc' = "closed"
    BY DEF ServerTake, Hangup
  <1>3. Bounded'
    BY <1>0, StoreBounded DEF Inv
  <1>4. Places' /\ HonestNeverFails' /\ FoundIfThere'
    <2>1. Places'
      BY <1>1, <1>2 DEF Inv, Places
    <2>2. HonestNeverFails'
      BY <1>1 DEF Inv, HonestNeverFails
    <2>3. FoundIfThere'
      BY <1>0, <1>1, ReasonKept DEF Inv
    <2> QED
      BY <2>1, <2>2, <2>3
  <1>5. Offered' /\ Served'
    BY <1>1, <1>2 DEF Inv, Offered, Served
  <1>6. CASE cpc = "idle"
    <2>1. Conversation'
      BY <1>1, <1>6 DEF Inv, Conversation
    <2> QED
      BY <1>3, <1>4, <1>5, <2>1 DEF Inv
  <1>7. CASE cpc # "idle"
    <2>1. cpc = "payload"
      BY <1>0, <1>7, Taking
    <2>2. PICK sk : /\ csk = <<sk>> /\ sides[match].sk = sk /\ sides[match].prs = secret
                    /\ toServer = <<>> /\ toClient = <<>>
      BY <1>0, <1>7, Taking
    <2>3. excused \/ Retrievable(taken, now)
      BY <1>0, <1>7, <2>2 DEF Inv, Served, taken
    <2>4. Confirming(sk)'
      BY <1>1, <1>2, <2>2, <2>3 DEF Confirming
    <2>5. Conversation'
      BY <1>1, <2>1, <2>2, <2>4 DEF Conversation
    <2> QED
      BY <1>3, <1>4, <1>5, <2>5 DEF Inv
  <1> QED
    BY <1>6, <1>7

\* A payload is lost only with its connection.
LEMMA ServerWriteKeeps ==
  ASSUME Inv, ServerWrite
  PROVE  Inv'
  <1>0. /\ spc = "write" /\ spc' = "closed" /\ toClient' = writeFrame(sealed(sides[match].sk, body))
        /\ UNCHANGED <<storeVars, now, session, open, clientVars, fails, toServer, excused>>
    BY DEF ServerWrite, Hangup
  <1>1. UNCHANGED <<open, secret, cpc, csk, outcome, fails, toServer, excused>>
    BY <1>0 DEF clientVars
  <1>2. Bounded'
    BY <1>0, StoreBounded DEF Inv
  <1>3. Places' /\ HonestNeverFails' /\ FoundIfThere'
    <2>1. Places'
      BY <1>0, <1>1 DEF Inv, Places
    <2>2. HonestNeverFails'
      BY <1>1 DEF Inv, HonestNeverFails
    <2>3. FoundIfThere'
      BY <1>0, <1>1, ReasonKept DEF Inv
    <2> QED
      BY <2>1, <2>2, <2>3
  <1>4. Offered' /\ Served'
    BY <1>0, <1>1 DEF Inv, Offered, Served
  <1>5. sealed(sides[match].sk, body).len <= maxFrame
    BY Constants DEF sealed, maxFrame
  <1>6. toClient' = IF open THEN <<sealed(sides[match].sk, body)>> ELSE <<>>
    BY <1>0, <1>5 DEF writeFrame
  <1>7. CASE cpc = "idle"
    <2>1. Conversation'
      BY <1>1, <1>6, <1>7 DEF Inv, Conversation
    <2> QED
      BY <1>2, <1>3, <1>4, <2>1 DEF Inv
  <1>8. CASE cpc # "idle"
    <2>1. cpc = "payload"
      BY <1>0, <1>8, Taking
    <2>2. PICK sk : csk = <<sk>> /\ sides[match].sk = sk /\ toServer = <<>>
      BY <1>0, <1>8, Taking
    <2>3. open \/ excused
      BY <1>8 DEF Inv, Served
    <2>4. Confirming(sk)'
      BY <1>0, <1>1, <1>6, <2>2, <2>3 DEF Confirming
    <2>5. Conversation'
      BY <1>1, <2>1, <2>2, <2>4 DEF Conversation
    <2> QED
      BY <1>2, <1>3, <1>4, <2>5 DEF Inv
  <1> QED
    BY <1>7, <1>8

LEMMA ServerErrorKeeps ==
  ASSUME Inv, ServerError
  PROVE  Inv'
  <1>0. /\ spc \in {"hello", "tag"} /\ toServer = <<>> /\ ~open /\ spc' = "closed"
        /\ UNCHANGED <<storeVars, now, session, open, clientVars, fails, wireVars, excused>>
    BY DEF ServerError, Hangup
  <1>1. /\ UNCHANGED <<session, open, secret, cpc, csk, outcome, fails>>
        /\ UNCHANGED <<toServer, toClient, excused>>
    BY <1>0 DEF clientVars, wireVars
  <1>2. Bounded'
    BY <1>0, StoreBounded DEF Inv
  <1>3. Places' /\ HonestNeverFails' /\ FoundIfThere'
    <2>1. Places'
      BY <1>0, <1>1 DEF Inv, Places
    <2>2. HonestNeverFails'
      BY <1>1 DEF Inv, HonestNeverFails
    <2>3. FoundIfThere'
      BY <1>0, <1>1, ReasonKept DEF Inv
    <2> QED
      BY <2>1, <2>2, <2>3
  <1>4. Offered' /\ Served'
    BY <1>0, <1>1 DEF Inv, Offered, Served
  <1>5. cpc = "offer" => Awaiting'
    <2> SUFFICES ASSUME cpc = "offer" PROVE Awaiting'
      OBVIOUS
    <2>1. toClient = <<>> \/ \E S : SidesFor(S) /\ toClient = <<offerFrame(S)>>
      BY <1>0 DEF Inv, Conversation, Awaiting, Offered
    <2>2. \A S : SidesFor(S) => SidesFor(S)'
      BY <1>1, SidesKept
    <2> QED
      BY <1>0, <1>1, <2>1, <2>2 DEF Awaiting
  <1>6. cpc = "payload" => excused /\ \E sk : csk = <<sk>> /\ Confirming(sk)'
    <2> SUFFICES ASSUME cpc = "payload" PROVE excused /\ \E sk : csk = <<sk>> /\ Confirming(sk)'
      OBVIOUS
    <2>1. excused
      BY <1>0 DEF Inv, Served
    <2>2. PICK sk : csk = <<sk>> /\ Confirming(sk)
      BY DEF Inv, Conversation
    <2>3. Confirming(sk)'
      BY <1>0, <1>1, <2>1, <2>2 DEF Confirming
    <2> QED
      BY <2>1, <2>2, <2>3
  <1>7. Conversation'
    BY <1>0, <1>1, <1>5, <1>6 DEF Inv, Conversation
  <1> QED
    BY <1>2, <1>3, <1>4, <1>7 DEF Inv

-----------------------------------------------------------------------------
\* The invariant

LEMMA InvInit == Init => Inv
  <1> SUFFICES ASSUME Init PROVE Inv
    OBVIOUS
  <1>1. Bounded
    <2>1. DOMAIN m = {}
      BY DEF Init, StoreInit
    <2> QED
      BY <2>1, FS_EmptySet, Constants DEF Bounded, listLen
  <1> QED
    BY <1>1 DEF Init, Inv, Places, Offered, Conversation, Served, HonestNeverFails, FoundIfThere

LEMMA InvStep == Inv /\ [Next]_vars => Inv'
  <1> SUFFICES ASSUME Inv, [Next]_vars PROVE Inv'
    OBVIOUS
  <1>1. CASE UNCHANGED vars
    <2>1. UNCHANGED <<storeVars, now, session, open, clientVars, serverVars, wireVars, excused>>
      BY <1>1 DEF vars
    <2>2. Bounded'
      BY <2>1, StoreBounded DEF Inv
    <2>3. Retrievable(secret, now)' <=> Retrievable(secret, now)
      BY <2>1 DEF Retrievable, Expired, storeVars, clientVars
    <2> QED
      BY <2>1, <2>2, <2>3, Meanwhile
  <1>2. ASSUME NEW code \in Prs, NEW text \in typed(code), Type(code, text) PROVE Inv'
    BY <1>2, TypeKeeps
  <1>3. ASSUME NEW limit \in GetLimits, Post(limit) PROVE Inv'
    BY <1>3, PostKeeps
  <1>4. ASSUME NEW prs \in DOMAIN m, Delete(prs) PROVE Inv'
    BY <1>4, DeleteKeeps
  <1> QED
    BY <1>1, <1>2, <1>3, <1>4, ClientHelloKeeps, ClientOfferKeeps, ClientPayloadKeeps,
       ClientErrorKeeps, ServerRefuseKeeps, ServerOfferKeeps, ServerTagKeeps, ServerTakeKeeps,
       ServerWriteKeeps, ServerErrorKeeps, BreakKeeps, ExpireKeeps, SweepKeeps DEF Next

LEMMA Invariance == Spec => []Inv
  BY InvInit, InvStep, PTL DEF Spec

(***************************************************************************)
(* Whatever breaks, is deleted or expires on the way, the tag of somebody  *)
(* who typed a code confirms a slot of the offer it was made for: limiter. *)
(* fail is never called for it (handshake, matchOffer, matchConfirmation). *)
(***************************************************************************)
THEOREM HonestGetsNeverCharged == Spec => []HonestNeverFails
  <1>1. Inv => HonestNeverFails
    BY DEF Inv
  <1> QED
    BY <1>1, Invariance, PTL

(***************************************************************************)
(* An exchange that ends without the paste has a reason: as long as the    *)
(* connection holds, the store has the paste and no limit turns handshake  *)
(* away, every frame is written, read and matched, whatever else the store *)
(* holds; and "no match" is never said for a refusal (exchange, handshake, *)
(* matchOffer).                                                            *)
(***************************************************************************)
THEOREM GetsFindPastes == Spec => []FoundIfThere
  <1>1. Inv => FoundIfThere
    BY DEF Inv
  <1> QED
    BY <1>1, Invariance, PTL

-----------------------------------------------------------------------------
\* The codes

Letter == DOMAIN Capital
Char == Letter \cup Digit

\* ToLower undoes capitals.
Capitals(part) == [i \in DOMAIN part |-> IF part[i] \in Letter THEN Capital[part[i]] ELSE part[i]]

LEMMA LowerPart ==
  ASSUME NEW part \in Seq(Char)
  PROVE  lower(part) = part /\ lower(Capitals(part)) = part
  <1> DEFINE n == Len(part)
  <1>0. part = [i \in 1..n |-> part[i]] /\ DOMAIN part = 1..n /\ \A i \in 1..n : part[i] \in Char
    OBVIOUS
  <1>1. \A i \in 1..n : ~\E c \in Letter : Capital[c] = part[i]
    BY <1>0, LettersAssumption DEF Letter, Char
  <1>2. lower(part) = part
    BY <1>0, <1>1 DEF lower, Letter
  <1> DEFINE C == Capitals(part)
  <1>3. DOMAIN C = 1..n /\ \A i \in 1..n : C[i] = IF part[i] \in Letter THEN Capital[part[i]] ELSE part[i]
    BY <1>0 DEF Capitals
  <1> HIDE DEF C
  <1>4. \A i \in 1..n : (IF \E c \in Letter : Capital[c] = C[i]
                        THEN CHOOSE c \in Letter : Capital[c] = C[i] ELSE C[i]) = part[i]
    <2> TAKE i \in 1..n
    <2>1. CASE part[i] \in Letter
      <3>1. C[i] = Capital[part[i]]
        BY <1>3, <2>1
      <3>2. \A c \in Letter : Capital[c] = C[i] <=> c = part[i]
        BY <2>1, <3>1, LettersAssumption DEF Letter
      <3>3. (CHOOSE c \in Letter : Capital[c] = C[i]) = part[i]
        BY <2>1, <3>2
      <3> QED
        BY <2>1, <3>2, <3>3
    <2>2. CASE part[i] \notin Letter
      BY <1>1, <1>3, <2>2
    <2> QED
      BY <2>1, <2>2
  <1>5. lower(C) = [i \in 1..n |-> IF \E c \in Letter : Capital[c] = C[i]
                        THEN CHOOSE c \in Letter : Capital[c] = C[i] ELSE C[i]]
    BY <1>3 DEF lower, Letter
  <1>6. lower(C) = part
    BY <1>0, <1>4, <1>5
  <1> QED
    BY <1>2, <1>6 DEF C

\* Capitals make no difference to canonical.
LEMMA CanonicalText ==
  ASSUME NEW text \in Seq(Seq(Char))
  PROVE  canonical(text) = resolved(text) /\ canonical(capitals(text)) = resolved(text)
  <1>0. DOMAIN text = 1..Len(text) /\ text = [i \in DOMAIN text |-> text[i]]
        /\ \A i \in DOMAIN text : text[i] \in Seq(Char)
    OBVIOUS
  <1>1. \A i \in DOMAIN text : lower(text[i]) = text[i] /\ lower(Capitals(text[i])) = text[i]
    BY <1>0, LowerPart
  <1>2. [i \in DOMAIN text |-> lower(text[i])] = text
    BY <1>0, <1>1
  <1>3. capitals(text) = [i \in DOMAIN text |-> Capitals(text[i])]
    BY DEF capitals, Capitals, Letter
  <1>4. [i \in DOMAIN capitals(text) |-> lower(capitals(text)[i])] = text
    BY <1>0, <1>1, <1>3
  <1> QED
    BY <1>2, <1>4 DEF canonical

\* FlattenSeq of a text of one part, and of one of three.
LEMMA FlattenedOne ==
  ASSUME NEW t, Len(t) = 1
  PROVE  FlattenSeq(t) = t[1]
  <1> DEFINE f == [i \in 1..1 |-> t[1]]
             d == CHOOSE g : g = [i \in 1..1 |-> IF i = 1 THEN t[i] ELSE g[i - 1] \o t[i]]
  <1>1. f = [i \in 1..1 |-> IF i = 1 THEN t[i] ELSE f[i - 1] \o t[i]]
    OBVIOUS
  <1>2. FlattenSeq(t) = d[1]
    BY DEF FlattenSeq
  <1> HIDE DEF f
  <1>3. d = [i \in 1..1 |-> IF i = 1 THEN t[i] ELSE d[i - 1] \o t[i]]
    BY <1>1, Zenon
  <1> HIDE DEF d
  <1> QED
    BY <1>2, <1>3

LEMMA FlattenedThree ==
  ASSUME NEW t, Len(t) = 3
  PROVE  FlattenSeq(t) = (t[1] \o t[2]) \o t[3]
  <1> DEFINE f == [i \in 1..3 |-> IF i = 1 THEN t[1] ELSE IF i = 2 THEN t[1] \o t[2]
                                ELSE (t[1] \o t[2]) \o t[3]]
             d == CHOOSE g : g = [i \in 1..3 |-> IF i = 1 THEN t[i] ELSE g[i - 1] \o t[i]]
  <1>0. /\ 1 \in 1..3 /\ 2 \in 1..3 /\ 3 \in 1..3 /\ 2 # 1 /\ 3 # 1 /\ 2 - 1 = 1 /\ 3 - 1 = 2
        /\ \A i \in 1..3 : i = 1 \/ i = 2 \/ i = 3
    OBVIOUS
  <1>1. f = [i \in 1..3 |-> IF i = 1 THEN t[i] ELSE f[i - 1] \o t[i]]
    <2>1. f[1] = t[1] /\ f[2] = f[1] \o t[2] /\ f[3] = f[2] \o t[3] /\ f = [i \in 1..3 |-> f[i]]
      OBVIOUS
    <2> HIDE DEF f
    <2>2. \A i \in 1..3 : f[i] = IF i = 1 THEN t[i] ELSE f[i - 1] \o t[i]
      BY <1>0, <2>1, Zenon
    <2> QED
      BY <2>1, <2>2
  <1>2. FlattenSeq(t) = d[3]
    BY DEF FlattenSeq
  <1> HIDE DEF f
  <1>3. d = [i \in 1..3 |-> IF i = 1 THEN t[i] ELSE d[i - 1] \o t[i]]
    BY <1>1, Zenon
  <1> HIDE DEF d
  <1>4. \A i \in 1..3 : d[i] = IF i = 1 THEN t[i] ELSE d[i - 1] \o t[i]
    BY <1>3, Zenon
  <1>5. d[1] = t[1] /\ d[2] = d[1] \o t[2] /\ d[3] = d[2] \o t[3]
    BY <1>0, <1>4, Zenon
  <1> QED
    BY <1>2, <1>5

LEMMA PrefixFacts ==
  ASSUME NEW s \in Seq(Char), NEW u \in Prefixes(s)
  PROVE  /\ u \in Seq(Char) /\ Len(u) <= Len(s) /\ \A i \in 1..Len(u) : u[i] = s[i]
         /\ Len(u) = Len(s) => u = s
         /\ IsPrefix(u, s)
  <1>1. PICK l \in 0..Len(s) : u = SubSeq(s, 1, l)
    BY DEF Prefixes
  <1>2. u \in Seq(Char) /\ Len(u) = l /\ \A i \in 1..l : u[i] = s[i]
    BY <1>1
  <1>3. Len(u) = Len(s) => u = s
    BY <1>2
  <1>4. SubSeq(u, 1, Len(u)) = SubSeq(s, 1, Len(u))
    BY <1>1, <1>2
  <1> QED
    BY <1>2, <1>3, <1>4 DEF IsPrefix

\* A part that starts a word stands for that word or for none.
LEMMA ExpandWord ==
  ASSUME NEW w \in Words, NEW u \in Prefixes(w)
  PROVE  expand(u) \in {w, Refused}
  <1> DEFINE matches == {x \in Words : IsPrefix(u, x)}
  <1>0. w \in Seq(Char)
    BY WordsAssumption DEF Char, Letter
  <1>1. IsPrefix(u, w)
    BY <1>0, PrefixFacts
  <1>2. CASE u \in Words
    <2>1. u = w
      BY <1>1, <1>2, WordsAssumption
    <2> QED
      BY <1>2, <2>1 DEF expand
  <1>3. CASE u \notin Words /\ Cardinality(matches) = 1
    <2>1. IsFiniteSet(matches)
      BY WordsAssumption, FS_Subset
    <2>2. \E x : matches = {x}
      BY <1>3, <2>1, FS_Singleton
    <2>3. matches = {w}
      BY <1>1, <2>2
    <2> QED
      BY <1>3, <2>3 DEF expand
  <1>4. CASE u \notin Words /\ Cardinality(matches) # 1
    BY <1>4 DEF expand
  <1> QED
    BY <1>2, <1>3, <1>4

\* Digits, or nothing at all, stand for no word.
LEMMA ExpandDigits ==
  ASSUME NEW u \in Seq(Char), u = <<>> \/ u[1] \in Digit
  PROVE  expand(u) = Refused
  <1> DEFINE matches == {x \in Words : IsPrefix(u, x)}
  <1>1. \A x \in Words : x \in Seq(Letter) /\ x # <<>> /\ Len(x) >= 1 /\ x[1] \in Letter
    BY WordsAssumption DEF Letter
  <1>2. \A c \in Letter : c \notin Digit
    BY LettersAssumption DEF Letter
  <1>3. u \notin Words
    BY <1>1, <1>2
  <1>4. Cardinality(matches) # 1
    <2>1. IsFiniteSet(matches)
      BY WordsAssumption, FS_Subset
    <2>2. CASE u = <<>>
      <3>1. \A x \in Words : IsPrefix(u, x)
        BY <1>1, <2>2 DEF IsPrefix
      <3>2. matches = Words
        BY <3>1
      <3>3. ~\E x : matches = {x}
        BY <3>2, LettersAssumption
      <3> QED
        BY <2>1, <3>3, FS_Singleton
    <2>3. CASE u # <<>>
      <3>1. Len(u) \in Nat /\ Len(u) >= 1 /\ u[1] \in Digit
        BY <2>3
      <3>2. ASSUME NEW x \in Words, IsPrefix(u, x)
            PROVE  FALSE
        <4>1. Len(u) <= Len(x) /\ SubSeq(u, 1, Len(u)) = SubSeq(x, 1, Len(u))
          BY <3>2 DEF IsPrefix
        <4>2. SubSeq(u, 1, Len(u))[1] = u[1]
          BY <3>1
        <4>3. SubSeq(x, 1, Len(u))[1] = x[1]
          BY <1>1, <3>1, <4>1
        <4> QED
          BY <1>1, <1>2, <3>1, <4>1, <4>2, <4>3
      <3>3. matches = {}
        BY <3>2
      <3>4. Cardinality({}) = 0
        BY FS_EmptySet
      <3> HIDE DEF matches
      <3> QED
        BY <3>3, <3>4
    <2> QED
      BY <2>2, <2>3
  <1> QED
    BY <1>3, <1>4 DEF expand

\* Three parts are a code of digits if all they hold is the right number of digits.
LEMMA ThreeParts ==
  ASSUME NEW text, Len(text) = 3, NEW a \in Seq(Char), NEW b \in Seq(Char), NEW c \in Seq(Char),
         text[1] = a, text[2] = b, text[3] = c
  PROVE  isDigitCode(text) <=>
            /\ Len(a) + Len(b) + Len(c) = 3 * GroupLen
            /\ \A i \in 1..Len(a) : a[i] \in Digit
            /\ \A i \in 1..Len(b) : b[i] \in Digit
            /\ \A i \in 1..Len(c) : c[i] \in Digit
  <1> DEFINE d == (a \o b) \o c
  <1>1. isDigitCode(text) <=> Len(d) = 3 * GroupLen /\ \A i \in DOMAIN d : d[i] \in Digit
    <2>1. FlattenSeq(text) = d
      BY FlattenedThree, Zenon
    <2> HIDE DEF d
    <2> QED
      BY <2>1, Zenon DEF isDigitCode
  <1>2. a \o b \in Seq(Char) /\ Len(a \o b) = Len(a) + Len(b)
    OBVIOUS
  <1>3. d \in Seq(Char) /\ Len(d) = Len(a) + Len(b) + Len(c) /\ DOMAIN d = 1..Len(d)
    BY <1>2
  <1>4. /\ \A i \in 1..Len(a) : d[i] = a[i] /\ i \in 1..Len(d)
        /\ \A i \in 1..Len(b) : d[Len(a) + i] = b[i] /\ Len(a) + i \in 1..Len(d)
        /\ \A i \in 1..Len(c) : d[Len(a) + Len(b) + i] = c[i] /\ Len(a) + Len(b) + i \in 1..Len(d)
    BY <1>2, <1>3
  <1>5. ASSUME NEW i \in 1..Len(d)
        PROVE  \/ i \in 1..Len(a)
               \/ i - Len(a) \in 1..Len(b) /\ i = Len(a) + (i - Len(a))
               \/ i - Len(a) - Len(b) \in 1..Len(c) /\ i = Len(a) + Len(b) + (i - Len(a) - Len(b))
    BY <1>3
  <1> HIDE DEF d
  <1>6. (\A i \in 1..Len(d) : d[i] \in Digit) <=>
            /\ \A i \in 1..Len(a) : a[i] \in Digit
            /\ \A i \in 1..Len(b) : b[i] \in Digit
            /\ \A i \in 1..Len(c) : c[i] \in Digit
    <2>1. ASSUME \A i \in 1..Len(d) : d[i] \in Digit
          PROVE  /\ \A i \in 1..Len(a) : a[i] \in Digit
                 /\ \A i \in 1..Len(b) : b[i] \in Digit
                 /\ \A i \in 1..Len(c) : c[i] \in Digit
      BY <1>4, <2>1
    <2>2. ASSUME \A i \in 1..Len(a) : a[i] \in Digit, \A i \in 1..Len(b) : b[i] \in Digit,
                 \A i \in 1..Len(c) : c[i] \in Digit, NEW i \in 1..Len(d)
          PROVE  d[i] \in Digit
      <3>1. CASE i \in 1..Len(a)
        BY <1>4, <2>2, <3>1
      <3>2. CASE i - Len(a) \in 1..Len(b) /\ i = Len(a) + (i - Len(a))
        <4>1. PICK j \in 1..Len(b) : i = Len(a) + j
          BY <3>2
        <4> QED
          BY <1>4, <2>2, <4>1
      <3>3. CASE i - Len(a) - Len(b) \in 1..Len(c) /\ i = Len(a) + Len(b) + (i - Len(a) - Len(b))
        <4>1. PICK j \in 1..Len(c) : i = Len(a) + Len(b) + j
          BY <3>3
        <4> QED
          BY <1>4, <2>2, <4>1
      <3> QED
        BY <1>5, <3>1, <3>2, <3>3
    <2> QED
      BY <2>1, <2>2
  <1> QED
    BY <1>1, <1>3, <1>6

\* Words are looked for in the parts of any other text.
LEMMA ThreeWords ==
  ASSUME NEW text, Len(text) = 3, DOMAIN text = 1..3, ~isDigitCode(text)
  PROVE  resolved(text) = IF \A i \in 1..3 : expand(text[i]) # Refused
                          THEN [i \in 1..3 |-> expand(text[i])] ELSE Refused
  <1> DEFINE parts == [i \in 1..3 |-> expand(text[i])]
  <1>1. \A i \in 1..3 : parts[i] = expand(text[i])
    OBVIOUS
  <1>2. parts = [i \in DOMAIN text |-> expand(text[i])]
    OBVIOUS
  <1>3. resolved(text) = IF \A i \in 1..3 : parts[i] # Refused THEN parts ELSE Refused
    BY <1>2 DEF resolved
  <1> QED
    BY <1>1, <1>3

\* What somebody types of a code of words stands for it or for nothing.
LEMMA WordTexts ==
  ASSUME NEW code \in wordCodes, NEW text, Len(text) = 3, DOMAIN text = 1..3,
         \A i \in 1..3 : text[i] \in Prefixes(code[i])
  PROVE  /\ \A i \in 1..3 : text[i] \in Seq(Char)
         /\ ~isDigitCode(text) /\ resolved(text) \in {code, Refused}
  <1>0. GroupLen \in Nat \ {0}
    BY WordsAssumption
  <1>1. \A i \in 1..3 : code[i] \in Words /\ code[i] \in Seq(Letter) /\ code[i] \in Seq(Char)
    BY WordsAssumption DEF wordCodes, Letter, Char
  <1>2. \A i \in 1..3 : /\ text[i] \in Seq(Char) /\ expand(text[i]) \in {code[i], Refused}
                       /\ Len(text[i]) <= Len(code[i])
                       /\ \A k \in 1..Len(text[i]) : text[i][k] = code[i][k]
    BY <1>1, PrefixFacts, ExpandWord
  <1>3. \A i \in 1..3 : \A k \in 1..Len(text[i]) : text[i][k] \notin Digit
    <2> TAKE i \in 1..3
    <2> TAKE k \in 1..Len(text[i])
    <2>1. k \in 1..Len(code[i]) /\ text[i][k] = code[i][k]
      BY <1>1, <1>2
    <2>2. code[i][k] \in Letter
      BY <1>1, <2>1
    <2> QED
      BY <2>1, <2>2, LettersAssumption DEF Letter
  <1>4. ~isDigitCode(text)
    <2> SUFFICES ASSUME isDigitCode(text) PROVE FALSE
      OBVIOUS
    <2>1. PICK a \in Seq(Char), b \in Seq(Char), c \in Seq(Char) :
             a = text[1] /\ b = text[2] /\ c = text[3]
      BY <1>2
    <2>2. isDigitCode(text) <=>
            /\ Len(a) + Len(b) + Len(c) = 3 * GroupLen
            /\ \A i \in 1..Len(a) : a[i] \in Digit
            /\ \A i \in 1..Len(b) : b[i] \in Digit
            /\ \A i \in 1..Len(c) : c[i] \in Digit
      BY <2>1, ThreeParts
    <2>3. Len(a) = 0 /\ Len(b) = 0 /\ Len(c) = 0
      <3>1. \A s \in Seq(Char) : Len(s) \in Nat /\ (Len(s) # 0 => 1 \in 1..Len(s))
        OBVIOUS
      <3> QED
        BY <1>3, <2>1, <2>2, <3>1
    <2> QED
      BY <1>0, <2>2, <2>3
  <1>5. resolved(text) = IF \A i \in 1..3 : expand(text[i]) # Refused
                         THEN [i \in 1..3 |-> expand(text[i])] ELSE Refused
    BY <1>4, ThreeWords
  <1>6. code = [i \in 1..3 |-> code[i]]
    BY DEF wordCodes
  <1> QED
    BY <1>2, <1>4, <1>5, <1>6

LEMMA Grouped ==
  ASSUME NEW code \in digitCodes
  PROVE  /\ (code[1] \o code[2]) \o code[3] \in Seq(Digit)
         /\ Len((code[1] \o code[2]) \o code[3]) = 3 * GroupLen
         /\ groupDigits((code[1] \o code[2]) \o code[3]) = code
  <1> DEFINE a == code[1]
             b == code[2]
             c == code[3]
             d == (a \o b) \o c
  <1>0. GroupLen \in Nat \ {0}
    BY WordsAssumption
  <1>1. \A i \in 1..3 : code[i] \in Seq(Digit) /\ Len(code[i]) = GroupLen
    <2>1. \A f \in [1..GroupLen -> Digit] : f \in Seq(Digit) /\ Len(f) = GroupLen
      BY <1>0
    <2>2. \A i \in 1..3 : code[i] \in [1..GroupLen -> Digit]
      BY DEF digitCodes
    <2> QED
      BY <2>1, <2>2
  <1>2. /\ a \in Seq(Digit) /\ b \in Seq(Digit) /\ c \in Seq(Digit)
        /\ Len(a) = GroupLen /\ Len(b) = GroupLen /\ Len(c) = GroupLen
    BY <1>1
  <1>3. code = [g \in 1..3 |-> code[g]] /\ code[1] = a /\ code[2] = b /\ code[3] = c
    BY DEF digitCodes
  <1> HIDE DEF a, b, c
  <1>4. a \o b \in Seq(Digit) /\ Len(a \o b) = 2 * GroupLen
    BY <1>0, <1>2
  <1>5. d \in Seq(Digit) /\ Len(d) = 3 * GroupLen
    BY <1>0, <1>2, <1>4
  <1>6. /\ \A i \in 1..GroupLen : d[i] = a[i]
        /\ \A i \in 1..GroupLen : d[GroupLen + i] = b[i]
        /\ \A i \in 1..GroupLen : d[2 * GroupLen + i] = c[i]
    BY <1>0, <1>2, <1>4
  <1> HIDE DEF d
  <1>7. SubSeq(d, 1, GroupLen) = a
    BY <1>0, <1>2, <1>5, <1>6
  <1>8. SubSeq(d, GroupLen + 1, 2 * GroupLen) = b
    BY <1>0, <1>2, <1>5, <1>6
  <1>9. SubSeq(d, 2 * GroupLen + 1, 3 * GroupLen) = c
    BY <1>0, <1>2, <1>5, <1>6
  <1>10. /\ (1 - 1) * GroupLen + 1 = 1 /\ 1 * GroupLen = GroupLen
         /\ (2 - 1) * GroupLen + 1 = GroupLen + 1 /\ (3 - 1) * GroupLen + 1 = 2 * GroupLen + 1
    BY <1>0
  <1>11. \A g \in 1..3 : SubSeq(d, (g - 1) * GroupLen + 1, g * GroupLen) = code[g]
    <2> TAKE g \in 1..3
    <2>1. CASE g = 1
      BY <1>3, <1>7, <1>10, <2>1
    <2>2. CASE g = 2
      BY <1>3, <1>8, <1>10, <2>2
    <2>3. CASE g = 3
      BY <1>3, <1>9, <1>10, <2>3
    <2> QED
      BY <2>1, <2>2, <2>3
  <1>12. groupDigits(d) = [g \in 1..3 |-> code[g]]
    BY <1>11 DEF groupDigits
  <1> QED
    BY <1>3, <1>5, <1>12 DEF d

\* A code of digits, and its digits in a row.
LEMMA DigitParts ==
  ASSUME NEW code \in digitCodes, NEW i \in 1..3
  PROVE  code[i] \in Seq(Digit) /\ Len(code[i]) = GroupLen
  <1>1. \A f \in [1..GroupLen -> Digit] : f \in Seq(Digit) /\ Len(f) = GroupLen
    BY WordsAssumption
  <1>2. code[i] \in [1..GroupLen -> Digit]
    BY DEF digitCodes
  <1> QED
    BY <1>1, <1>2

LEMMA DigitCode ==
  ASSUME NEW code \in digitCodes
  PROVE  /\ FlattenSeq(code) = (code[1] \o code[2]) \o code[3]
         /\ FlattenSeq(code) \in Seq(Digit) /\ Len(FlattenSeq(code)) = 3 * GroupLen
         /\ groupDigits(FlattenSeq(code)) = code
  <1>1. Len(code) = 3
    BY DEF digitCodes
  <1>2. FlattenSeq(code) = (code[1] \o code[2]) \o code[3]
    BY <1>1, FlattenedThree
  <1> QED
    BY <1>2, Grouped

\* Its digits, however many there are and however they are grouped, stand for a
\* code of digits or for nothing.
LEMMA DigitTexts ==
  ASSUME NEW code \in digitCodes, NEW text, Len(text) = 3, DOMAIN text = 1..3,
         \A i \in 1..3 : text[i] \in Seq(Digit),
         isDigitCode(text) => FlattenSeq(text) = FlattenSeq(code)
  PROVE  resolved(text) \in {code, Refused}
  <1>1. CASE isDigitCode(text)
    <2>1. groupDigits(FlattenSeq(code)) = code
      BY DigitCode
    <2> QED
      BY <1>1, <2>1 DEF resolved
  <1>2. CASE ~isDigitCode(text)
    <2>1. expand(text[1]) = Refused
      <3>1. PICK u \in Seq(Digit) : u = text[1]
        OBVIOUS
      <3>2. u \in Seq(Char) /\ (u = <<>> \/ u[1] \in Digit)
        BY DEF Char
      <3> QED
        BY <3>1, <3>2, ExpandDigits
    <2> QED
      BY <1>2, <2>1, ThreeWords
  <1> QED
    BY <1>1, <1>2

LEMMA DigitsAreChars ==
  ASSUME NEW s \in Seq(Digit)
  PROVE  s \in Seq(Char)
  BY DEF Char

LEMMA SubSeqFacts ==
  ASSUME NEW S, NEW s \in Seq(S), NEW i \in 1..(Len(s) + 1), NEW j \in 0..Len(s)
  PROVE  /\ SubSeq(s, i, j) \in Seq(S)
         /\ Len(SubSeq(s, i, j)) = IF i <= j THEN j - i + 1 ELSE 0
         /\ \A k \in 1..(j - i + 1) : SubSeq(s, i, j)[k] = s[i - 1 + k]
  OBVIOUS

LEMMA ConcatFacts ==
  \A s, t \in Seq(Digit) : \A r : r = s \o t =>
    /\ r \in Seq(Digit) /\ Len(r) = Len(s) + Len(t)
    /\ \A k \in 1..Len(s) : r[k] = s[k]
    /\ \A k \in 1..Len(t) : r[Len(s) + k] = t[k]
  OBVIOUS

LEMMA SameSequence ==
  ASSUME NEW S, NEW s \in Seq(S), NEW t \in Seq(S), Len(s) = Len(t),
         \A k \in 1..Len(s) : s[k] = t[k]
  PROVE  s = t
  OBVIOUS

\* Cut short, a code of digits has all its digits only if nothing is missing.
LEMMA ShortenedDigits ==
  ASSUME NEW code \in digitCodes, NEW text, Len(text) = 3, DOMAIN text = 1..3,
         \A i \in 1..3 : text[i] \in Prefixes(code[i])
  PROVE  /\ \A i \in 1..3 : text[i] \in Seq(Digit)
         /\ isDigitCode(text) => FlattenSeq(text) = FlattenSeq(code)
  <1>1. ASSUME NEW i \in 1..3
        PROVE  /\ text[i] \in Seq(Digit) /\ Len(text[i]) \in Nat /\ Len(text[i]) <= GroupLen
               /\ Len(text[i]) = GroupLen => text[i] = code[i]
    <2>1. code[i] \in Seq(Digit) /\ Len(code[i]) = GroupLen
      BY DigitParts
    <2>2. PICK s \in Seq(Digit) : s = code[i]
      BY <2>1
    <2>3. PICK u \in Prefixes(s) : u = text[i]
      BY <2>2
    <2>4. u \in Seq(Digit)
      BY DEF Prefixes
    <2>5. Len(u) <= Len(s) /\ (Len(u) = Len(s) => u = s)
      BY DigitsAreChars, PrefixFacts
    <2> QED
      BY <2>1, <2>2, <2>3, <2>4, <2>5
  <1>2. ASSUME isDigitCode(text) PROVE FlattenSeq(text) = FlattenSeq(code)
    <2>0. 1 \in 1..3 /\ 2 \in 1..3 /\ 3 \in 1..3
      OBVIOUS
    <2>1. PICK a, b, c : a = text[1] /\ b = text[2] /\ c = text[3]
      OBVIOUS
    <2>2. a \in Seq(Char) /\ b \in Seq(Char) /\ c \in Seq(Char)
      BY <1>1, <2>0, <2>1, DigitsAreChars
    <2>3. Len(a) + Len(b) + Len(c) = 3 * GroupLen
      BY <1>2, <2>1, <2>2, ThreeParts
    <2>4. /\ Len(a) \in Nat /\ Len(b) \in Nat /\ Len(c) \in Nat
          /\ Len(a) <= GroupLen /\ Len(b) <= GroupLen /\ Len(c) <= GroupLen
      BY <1>1, <2>0, <2>1
    <2>5. Len(a) = GroupLen /\ Len(b) = GroupLen /\ Len(c) = GroupLen
      BY <2>3, <2>4, WordsAssumption
    <2>6. text[1] = code[1] /\ text[2] = code[2] /\ text[3] = code[3]
      BY <1>1, <2>0, <2>1, <2>5
    <2>7. FlattenSeq(text) = (text[1] \o text[2]) \o text[3]
      BY FlattenedThree
    <2>8. FlattenSeq(code) = (code[1] \o code[2]) \o code[3]
      BY DigitCode
    <2> QED
      BY <2>6, <2>7, <2>8
  <1> QED
    BY <1>1, <1>2

\* Grouped in another way, they are still its digits, or too many.
LEMMA RegroupedDigits ==
  ASSUME NEW d \in Seq(Digit), Len(d) = 3 * GroupLen,
         NEW i \in 0..Len(d), NEW j \in 0..Len(d), NEW text, Len(text) = 3,
         text[1] = SubSeq(d, 1, i), text[2] = SubSeq(d, i + 1, j), text[3] = SubSeq(d, j + 1, Len(d))
  PROVE  /\ \A k \in 1..3 : text[k] \in Seq(Digit)
         /\ isDigitCode(text) => FlattenSeq(text) = d
  <1>0. Len(d) \in Nat
    OBVIOUS
  <1>1. PICK a, b, c : a = text[1] /\ b = text[2] /\ c = text[3]
    OBVIOUS
  <1>2. a \in Seq(Digit) /\ Len(a) = i /\ \A k \in 1..i : a[k] = d[k]
    <2>1. 1 \in 1..(Len(d) + 1)
      BY <1>0
    <2>2. /\ a \in Seq(Digit) /\ Len(a) = IF 1 <= i THEN i - 1 + 1 ELSE 0
          /\ \A k \in 1..(i - 1 + 1) : a[k] = d[1 - 1 + k]
      BY <1>1, <2>1, SubSeqFacts
    <2> QED
      BY <2>2
  <1>3. /\ b \in Seq(Digit) /\ Len(b) = IF i <= j THEN j - i ELSE 0
        /\ \A k \in 1..(j - i) : b[k] = d[i + k]
    <2>1. i + 1 \in 1..(Len(d) + 1)
      BY <1>0
    <2>2. /\ b \in Seq(Digit) /\ Len(b) = IF i + 1 <= j THEN j - (i + 1) + 1 ELSE 0
          /\ \A k \in 1..(j - (i + 1) + 1) : b[k] = d[i + 1 - 1 + k]
      BY <1>1, <2>1, SubSeqFacts
    <2> QED
      BY <2>2
  <1>4. /\ c \in Seq(Digit) /\ Len(c) = Len(d) - j
        /\ \A k \in 1..(Len(d) - j) : c[k] = d[j + k]
    <2>1. j + 1 \in 1..(Len(d) + 1) /\ Len(d) \in 0..Len(d)
      BY <1>0
    <2>2. /\ c \in Seq(Digit) /\ Len(c) = IF j + 1 <= Len(d) THEN Len(d) - (j + 1) + 1 ELSE 0
          /\ \A k \in 1..(Len(d) - (j + 1) + 1) : c[k] = d[j + 1 - 1 + k]
      BY <1>1, <2>1, SubSeqFacts
    <2> QED
      BY <1>0, <2>2
  <1>5. \A k \in 1..3 : text[k] \in Seq(Digit)
    <2>1. \A k \in 1..3 : k = 1 \/ k = 2 \/ k = 3
      OBVIOUS
    <2>2. text[1] \in Seq(Digit) /\ text[2] \in Seq(Digit) /\ text[3] \in Seq(Digit)
      BY <1>1, <1>2, <1>3, <1>4
    <2> QED
      BY <2>1, <2>2, Zenon
  <1>6. ASSUME isDigitCode(text) PROVE (a \o b) \o c = d
    <2>1. a \in Seq(Char) /\ b \in Seq(Char) /\ c \in Seq(Char)
      BY <1>2, <1>3, <1>4, DigitsAreChars
    <2>2. Len(a) + Len(b) + Len(c) = Len(d)
      BY <1>1, <1>6, <2>1, ThreeParts
    <2>3. i <= j /\ Len(b) = j - i
      BY <1>0, <1>2, <1>3, <1>4, <2>2
    <2>4. PICK e : e = a \o b
      OBVIOUS
    <2>5. /\ e \in Seq(Digit) /\ Len(e) = Len(a) + Len(b)
          /\ \A k \in 1..Len(a) : e[k] = a[k]
          /\ \A k \in 1..Len(b) : e[Len(a) + k] = b[k]
      <3>1. a \in Seq(Digit) /\ b \in Seq(Digit)
        BY <1>2, <1>3
      <3> QED
        BY <2>4, <3>1, ConcatFacts
    <2>6. Len(e) = j /\ \A k \in 1..j : e[k] = d[k]
      <3> SUFFICES ASSUME NEW k \in 1..j PROVE e[k] = d[k]
        BY <1>2, <2>3, <2>5
      <3>1. CASE k <= i
        BY <1>2, <2>5, <3>1
      <3>2. CASE k > i
        <4>1. PICK l \in 1..(j - i) : k = i + l
          BY <2>3, <3>2
        <4> QED
          BY <1>2, <1>3, <2>3, <2>5, <4>1
      <3> QED
        BY <3>1, <3>2
    <2>7. PICK f : f = e \o c
      OBVIOUS
    <2>8. /\ f \in Seq(Digit) /\ Len(f) = Len(e) + Len(c)
          /\ \A k \in 1..Len(e) : f[k] = e[k]
          /\ \A k \in 1..Len(c) : f[Len(e) + k] = c[k]
      <3>1. e \in Seq(Digit) /\ c \in Seq(Digit)
        BY <1>4, <2>5
      <3> QED
        BY <2>7, <3>1, ConcatFacts
    <2>9. Len(f) = Len(d) /\ \A k \in 1..Len(d) : f[k] = d[k]
      <3>0. Len(f) = Len(d)
        BY <1>0, <1>4, <2>6, <2>8
      <3> SUFFICES ASSUME NEW k \in 1..Len(d) PROVE f[k] = d[k]
        BY <3>0
      <3>1. CASE k <= j
        BY <2>6, <2>8, <3>1
      <3>2. CASE k > j
        <4>1. PICK l \in 1..(Len(d) - j) : k = j + l
          BY <1>0, <3>2
        <4> QED
          BY <1>4, <2>6, <2>8, <4>1
      <3> QED
        BY <3>1, <3>2
    <2>10. f = d
      BY <2>8, <2>9, SameSequence
    <2> QED
      BY <2>4, <2>7, <2>10
  <1>7. FlattenSeq(text) = (a \o b) \o c
    BY <1>1, FlattenedThree, Zenon
  <1> QED
    BY <1>5, <1>6, <1>7

Small(code) == shortened(code) \cup (IF isDigitCode(code) THEN regrouped(code) ELSE {})

\* The parts of a text are three, or it is all digits in a row.
LEMMA ShortenedShape ==
  ASSUME NEW code, NEW text \in shortened(code)
  PROVE  /\ Len(text) = 3 /\ DOMAIN text = 1..3 /\ \A i \in 1..3 : text[i] \in Prefixes(code[i])
         /\ \A S : (\A i \in 1..3 : text[i] \in S) => text \in Seq(S)
  <1>1. PICK u \in Prefixes(code[1]), v \in Prefixes(code[2]), w \in Prefixes(code[3]) :
           text = <<u, v, w>>
    BY DEF shortened
  <1>2. Len(text) = 3 /\ DOMAIN text = 1..3 /\ text[1] = u /\ text[2] = v /\ text[3] = w
    BY <1>1
  <1>3. \A i \in 1..3 : text[i] \in Prefixes(code[i])
    <2>1. \A i \in 1..3 : i = 1 \/ i = 2 \/ i = 3
      OBVIOUS
    <2> QED
      BY <1>2, <2>1, Zenon
  <1>4. ASSUME NEW S, \A i \in 1..3 : text[i] \in S
        PROVE  text \in Seq(S)
    <2>1. u \in S /\ v \in S /\ w \in S
      BY <1>2, <1>4
    <2> QED
      BY <1>1, <2>1
  <1> QED
    BY <1>2, <1>3, <1>4

LEMMA WordSmall ==
  ASSUME NEW code \in wordCodes, NEW text \in Small(code)
  PROVE  text \in Seq(Seq(Char)) /\ resolved(text) \in {code, Refused}
  <1>1. ~isDigitCode(code)
    <2>1. Len(code) = 3 /\ DOMAIN code = 1..3
      BY DEF wordCodes
    <2>2. ASSUME NEW i \in 1..3 PROVE code[i] \in Prefixes(code[i])
      <3>1. code[i] \in Seq(Letter)
        BY WordsAssumption DEF wordCodes, Letter
      <3>2. \A s \in Seq(Letter) : Len(s) \in 0..Len(s) /\ s = SubSeq(s, 1, Len(s))
        OBVIOUS
      <3> QED
        BY <3>1, <3>2 DEF Prefixes
    <2> QED
      BY <2>1, <2>2, WordTexts
  <1>2. text \in shortened(code)
    BY <1>1 DEF Small
  <1>3. Len(text) = 3 /\ DOMAIN text = 1..3 /\ \A i \in 1..3 : text[i] \in Prefixes(code[i])
    BY <1>2, ShortenedShape
  <1>4. (\A i \in 1..3 : text[i] \in Seq(Char)) /\ resolved(text) \in {code, Refused}
    BY <1>3, WordTexts
  <1> QED
    BY <1>2, <1>4, ShortenedShape

LEMMA DigitSmall ==
  ASSUME NEW code \in digitCodes, NEW text \in Small(code)
  PROVE  text \in Seq(Seq(Char)) /\ resolved(text) \in {code, Refused}
  <1> DEFINE d == FlattenSeq(code)
  <1>0. d \in Seq(Digit) /\ Len(d) = 3 * GroupLen /\ groupDigits(d) = code
    BY DigitCode
  <1> HIDE DEF d
  <1>1. CASE text \in shortened(code)
    <2>1. Len(text) = 3 /\ DOMAIN text = 1..3 /\ \A i \in 1..3 : text[i] \in Prefixes(code[i])
      BY <1>1, ShortenedShape
    <2>2. (\A i \in 1..3 : text[i] \in Seq(Digit)) /\ (isDigitCode(text) => FlattenSeq(text) = FlattenSeq(code))
      BY <2>1, ShortenedDigits
    <2>3. resolved(text) \in {code, Refused}
      BY <2>1, <2>2, DigitTexts
    <2>4. \A i \in 1..3 : text[i] \in Seq(Char)
      BY <2>2, DigitsAreChars
    <2> QED
      BY <1>1, <2>3, <2>4, ShortenedShape
  <1>2. CASE text = <<d>>
    <2>1. Len(text) = 1 /\ text[1] = d
      BY <1>2
    <2>2. FlattenSeq(text) = d
      BY <2>1, FlattenedOne
    <2>3. isDigitCode(text)
      BY <1>0, <2>2 DEF isDigitCode
    <2>4. resolved(text) = code
      BY <1>0, <2>2, <2>3 DEF resolved
    <2>5. d \in Seq(Char)
      BY <1>0, DigitsAreChars
    <2> QED
      BY <1>2, <2>4, <2>5
  <1>3. ASSUME NEW i \in 0..Len(d), NEW j \in 0..Len(d),
               text = <<SubSeq(d, 1, i), SubSeq(d, i + 1, j), SubSeq(d, j + 1, Len(d))>>
        PROVE  text \in Seq(Seq(Char)) /\ resolved(text) \in {code, Refused}
    <2>0. PICK a, b, c : a = SubSeq(d, 1, i) /\ b = SubSeq(d, i + 1, j) /\ c = SubSeq(d, j + 1, Len(d))
      OBVIOUS
    <2>1. text = <<a, b, c>> /\ Len(text) = 3 /\ DOMAIN text = 1..3
          /\ text[1] = a /\ text[2] = b /\ text[3] = c
      BY <1>3, <2>0
    <2>2. (\A k \in 1..3 : text[k] \in Seq(Digit)) /\ (isDigitCode(text) => FlattenSeq(text) = d)
      BY <1>0, <2>0, <2>1, RegroupedDigits
    <2>3. resolved(text) \in {code, Refused}
      BY <2>1, <2>2, DigitTexts DEF d
    <2>4. a \in Seq(Char) /\ b \in Seq(Char) /\ c \in Seq(Char)
      BY <2>1, <2>2, DigitsAreChars
    <2> QED
      BY <2>1, <2>3, <2>4
  <1>4. text \in shortened(code) \/ text \in regrouped(code)
    BY DEF Small
  <1>5. text \in regrouped(code) =>
           text = <<d>> \/ \E i \in 0..Len(d), j \in 0..Len(d) :
              text = <<SubSeq(d, 1, i), SubSeq(d, i + 1, j), SubSeq(d, j + 1, Len(d))>>
    <2> DEFINE P(i, j) == <<SubSeq(d, 1, i), SubSeq(d, i + 1, j), SubSeq(d, j + 1, Len(d))>>
    <2>1. regrouped(code) = {<<d>>} \cup {P(i, j) : i \in 0..Len(d), j \in 0..Len(d)}
      BY DEF regrouped, d
    <2> HIDE DEF P
    <2>2. text \in regrouped(code) => text = <<d>> \/ \E i \in 0..Len(d), j \in 0..Len(d) : text = P(i, j)
      BY <2>1
    <2> QED
      BY <2>2 DEF P
  <1> QED
    BY <1>1, <1>2, <1>3, <1>4, <1>5

\* canonical never takes what is typed of one code for another one.
LEMMA TypedResolves ==
  ASSUME NEW code \in Prs, NEW text \in typed(code)
  PROVE  /\ canonical(text) \in {code, Refused}
         /\ code \in wordCodes \cup digitCodes
  <1>1. code \in wordCodes \/ code \in digitCodes
    BY ExchangeAssumption
  <1>2. \A t \in Small(code) : t \in Seq(Seq(Char)) /\ resolved(t) \in {code, Refused}
    BY <1>1, WordSmall, DigitSmall
  <1>3. PICK t \in Small(code) : text = t \/ text = capitals(t)
    BY DEF typed, Small
  <1>4. canonical(text) = resolved(t)
    BY <1>2, <1>3, CanonicalText
  <1> QED
    BY <1>1, <1>2, <1>4

LEMMA CodeStep ==
  ASSUME NeverAnotherCode, [Next]_vars
  PROVE  NeverAnotherCode'
  <1>1. ASSUME NEW code \in Prs, NEW text \in typed(code), Type(code, text)
        PROVE  NeverAnotherCode'
    <2>1. meant' = code /\ secret' = canonical(text)
      BY <1>1 DEF Type
    <2> QED
      BY <2>1, TypedResolves DEF NeverAnotherCode
  <1>2. CASE UNCHANGED <<meant, secret>>
    BY <1>2 DEF NeverAnotherCode
  <1>3. \/ UNCHANGED <<meant, secret>>
        \/ \E code \in Prs : \E text \in typed(code) : Type(code, text)
    BY DEF Next, vars, clientVars, ClientHello, ClientOffer, ClientPayload, ClientError,
           ServerRefuse, ServerOffer, ServerTag, ServerTake, ServerWrite, ServerError, Break,
           Post, Delete, Expire, Sweep
  <1> QED
    BY <1>1, <1>2, <1>3

(***************************************************************************)
(* Whatever somebody makes of a code -- cut short, in capitals, its digits *)
(* grouped in any way -- canonical never returns another one (code.go):    *)
(* the wordlist has no word that is a prefix of another, and digits cannot *)
(* be mistaken for the start of a word.                                    *)
(***************************************************************************)
THEOREM CodesNeverConfused == Spec => []NeverAnotherCode
  <1>1. Init => NeverAnotherCode
    BY DEF Init, NeverAnotherCode
  <1>2. NeverAnotherCode /\ [Next]_vars => NeverAnotherCode'
    BY CodeStep
  <1> QED
    BY <1>1, <1>2, PTL DEF Spec

-----------------------------------------------------------------------------
\* What is delivered

\* Every entry is a paste that was posted under its key, whose payload is there
\* until the last of its gets.
Entries ==
    \A prs \in DOMAIN m :
        /\ m[prs].id \in PasteIds /\ posted[m[prs].id] = [prs |-> prs, MaxGets |-> m[prs].MaxGets]
        /\ m[prs].MaxGets > 0 => m[prs].Gets <= m[prs].MaxGets
        /\ ~m[prs].Burned =>
              m[prs].id \in mem /\ (m[prs].MaxGets > 0 => m[prs].Gets < m[prs].MaxGets)

\* ExchangeTypeOK, but for the store and what comes out of it.
Ends ==
    /\ now \in 0..1 /\ session \in 0..MaxSessions
    /\ open \in BOOLEAN /\ fails \in BOOLEAN /\ excused \in BOOLEAN
    /\ {meant, secret} \subseteq wordCodes \cup digitCodes \cup {<<>>}
    /\ outcome \in {"none", "refused", "no match", "error", "ok"}
    /\ Len(sides) \in 0..MaxCandidates /\ match \in 0..Len(sides)
    /\ Len(toServer) <= 1 /\ Len(toClient) <= 1

\* The payload handshake has taken, or sent, is that of the client's paste.
Handled ==
    /\ spc = "write" => body \in PasteIds /\ (cpc # "idle" => posted[body].prs = secret)
    /\ cpc = "payload" /\ toClient # <<>> =>
          Head(toClient).body \in PasteIds /\ posted[Head(toClient).body].prs = secret
    /\ spc # "write" => body = 0
    /\ spc \notin {"take", "write"} => match = 0
    /\ spc \in {"closed", "denied", "hello"} => sides = <<>>
    /\ cpc # "idle" => secret = meant /\ meant \in Prs

InFlight(id) ==
    \/ spc = "write" /\ body = id
    \/ cpc = "payload" /\ toClient # <<>> /\ Head(toClient).body = id

Arrivals(id) == {i \in DOMAIN delivered : delivered[i].id = id}

\* The copies of a paste that have arrived or may still arrive.
Owed(id) == Cardinality(Arrivals(id)) + (IF InFlight(id) THEN 1 ELSE 0)

\* Each of them is one of the paste's gets, whether or not it is still there.
Counted ==
    /\ delivered \in Seq([id : PasteIds, meant : Prs])
    /\ \A i \in DOMAIN delivered : posted[delivered[i].id].prs = delivered[i].meant
    /\ \A id \in PasteIds : posted[id].MaxGets > 0 => Owed(id) <= posted[id].MaxGets
    /\ \A prs \in DOMAIN m : Owed(m[prs].id) <= m[prs].Gets

GetsInv == StoreTypeOK /\ Entries /\ Ends /\ Handled /\ Counted

\* What has been posted stays as it was.
Grows ==
    /\ Len(posted) \in Nat /\ Len(posted') \in Nat /\ Len(posted) <= Len(posted')
    /\ \A i \in 1..Len(posted) : posted'[i] = posted[i]

\* No two entries are the same paste.
LEMMA OwnIds ==
  ASSUME Entries, NEW p \in DOMAIN m, NEW q \in DOMAIN m, p # q
  PROVE  m[p].id # m[q].id
  <1>1. posted[m[p].id] = [prs |-> p, MaxGets |-> m[p].MaxGets]
    BY DEF Entries
  <1>2. posted[m[q].id] = [prs |-> q, MaxGets |-> m[q].MaxGets]
    BY DEF Entries
  <1>3. posted[m[p].id].prs = p
    BY <1>1
  <1>4. posted[m[q].id].prs = q
    BY <1>2
  <1> QED
    BY <1>3, <1>4

LEMMA AddStored ==
  ASSUME StoreTypeOK, Entries, NEW prs \in Prs, NEW expires \in Int, NEW maxGets \in Nat,
         add(prs, expires, maxGets)
  PROVE  StoreTypeOK' /\ Entries' /\ Grows
  <1>1. CASE addError(prs) = "none"
    <2> DEFINE id == Len(posted) + 1
               p  == [id |-> id, ExpiresAt |-> expires, MaxGets |-> maxGets,
                      Gets |-> 0, Burned |-> FALSE]
               e  == [prs |-> prs, MaxGets |-> maxGets]
    <2>1. /\ m' = [q \in DOMAIN m \cup {prs} |-> IF q = prs THEN p ELSE m[q]]
          /\ mem' = mem \cup {id}
          /\ posted' = Append(posted, e)
      BY <1>1 DEF add
    <2>2. /\ posted \in Seq([prs : Prs, MaxGets : Nat]) /\ e \in [prs : Prs, MaxGets : Nat]
          /\ Len(posted) \in Nat /\ id \in Nat \ {0}
      BY DEF StoreTypeOK
    <2>3. p.id = id /\ p.MaxGets = maxGets /\ p.Gets = 0 /\ ~p.Burned
      OBVIOUS
    <2>4. e = [prs |-> prs, MaxGets |-> p.MaxGets]
      BY <2>3
    <2> HIDE DEF p, e
    <2>5. /\ posted' \in Seq([prs : Prs, MaxGets : Nat]) /\ Len(posted') = id
          /\ posted'[id] = e /\ \A i \in 1..Len(posted) : posted'[i] = posted[i]
      BY <2>1, <2>2
    <2>6. StoreTypeOK'
      BY AddType
    <2>7. ASSUME NEW q \in DOMAIN m'
          PROVE  /\ m'[q].id \in 1..Len(posted')
                 /\ posted'[m'[q].id] = [prs |-> q, MaxGets |-> m'[q].MaxGets]
                 /\ m'[q].MaxGets > 0 => m'[q].Gets <= m'[q].MaxGets
                 /\ ~m'[q].Burned =>
                       m'[q].id \in mem' /\ (m'[q].MaxGets > 0 => m'[q].Gets < m'[q].MaxGets)
      <3>1. CASE q = prs
        <4>1. m'[q] = p
          BY <2>1, <3>1
        <4>2. id \in 1..Len(posted') /\ id \in mem'
          BY <2>1, <2>2, <2>5
        <4> QED
          BY <2>2, <2>3, <2>4, <2>5, <3>1, <4>1, <4>2
      <3>2. CASE q # prs
        <4>1. q \in DOMAIN m /\ m'[q] = m[q] /\ mem \subseteq mem'
          BY <2>1, <2>7, <3>2
        <4>2. m[q].id \in 1..Len(posted)
          BY <4>1 DEF Entries, PasteIds
        <4>3. m[q].id \in 1..Len(posted')
          BY <2>2, <2>5, <4>2
        <4>4. /\ posted[m[q].id] = [prs |-> q, MaxGets |-> m[q].MaxGets]
              /\ m[q].MaxGets > 0 => m[q].Gets <= m[q].MaxGets
              /\ ~m[q].Burned =>
                    m[q].id \in mem /\ (m[q].MaxGets > 0 => m[q].Gets < m[q].MaxGets)
          BY <4>1 DEF Entries
        <4> QED
          BY <2>5, <4>1, <4>2, <4>3, <4>4
      <3> QED
        BY <3>1, <3>2
    <2>8. Entries'
      BY <2>7 DEF Entries, PasteIds
    <2> QED
      BY <2>2, <2>5, <2>6, <2>8 DEF Grows
  <1>2. CASE addError(prs) # "none"
    <2>1. UNCHANGED <<m, mem, posted>>
      BY <1>2 DEF add, storeVars
    <2>2. Len(posted) \in Nat
      BY DEF StoreTypeOK
    <2> QED
      BY <2>1, <2>2 DEF StoreTypeOK, Entries, PasteIds, Grows
  <1> QED
    BY <1>1, <1>2

LEMMA DeleteStored ==
  ASSUME StoreTypeOK, Entries, NEW S, burnAndDelete(S)
  PROVE  StoreTypeOK' /\ Entries' /\ Grows /\ posted' = posted
         /\ \A prs \in DOMAIN m' : prs \in DOMAIN m /\ m'[prs] = m[prs]
  <1>1. /\ m' = [prs \in DOMAIN m \ S |-> m[prs]] /\ posted' = posted
        /\ mem' = mem \ {m[prs].id : prs \in S \cap DOMAIN m}
    BY DEF burnAndDelete
  <1>2. Len(posted) \in Nat
    BY DEF StoreTypeOK
  <1>3. StoreTypeOK'
    BY BurnAndDeleteType
  <1>4. \A prs \in DOMAIN m' : prs \in DOMAIN m /\ prs \notin S /\ m'[prs] = m[prs]
    BY <1>1
  <1>5. ASSUME NEW prs \in DOMAIN m', m[prs].id \in mem
        PROVE  m[prs].id \in mem'
    <2>1. \A q \in S \cap DOMAIN m : m[q].id # m[prs].id
      <3> TAKE q \in S \cap DOMAIN m
      <3>1. q # prs /\ q \in DOMAIN m /\ prs \in DOMAIN m
        BY <1>4
      <3> QED
        BY <3>1, OwnIds
    <2> QED
      BY <1>1, <1>5, <2>1
  <1>6. Entries'
    BY <1>1, <1>4, <1>5 DEF Entries, PasteIds
  <1> QED
    BY <1>1, <1>2, <1>3, <1>4, <1>6 DEF Grows

\* A get is counted, and the last one takes the payload away.
LEMMA TakeStored ==
  ASSUME StoreTypeOK, Entries, NEW prs, Retrievable(prs, now), take(prs, now)
  PROVE  /\ StoreTypeOK' /\ Entries' /\ posted' = posted
         /\ copied(prs) = m[prs].id /\ DOMAIN m' = DOMAIN m
         /\ \A q \in DOMAIN m : m'[q].id = m[q].id
         /\ \A q \in DOMAIN m : m'[q].Gets = IF q = prs THEN m[q].Gets + 1 ELSE m[q].Gets
         /\ m[prs].MaxGets > 0 => m[prs].Gets < m[prs].MaxGets
  <1> DEFINE p == m[prs]
  <1>1. prs \in DOMAIN m /\ p \in Paste /\ ~p.Burned /\ countGet(prs)
    BY DEF StoreTypeOK, Retrievable, take
  <1>2. /\ DOMAIN m' = DOMAIN m /\ posted' = posted
        /\ \A q \in DOMAIN m \ {prs} : m'[q] = m[q]
        /\ m'[prs].id = p.id /\ m'[prs].MaxGets = p.MaxGets /\ m'[prs].Gets = p.Gets + 1
        /\ m'[prs].Burned = LastGet(p)
        /\ mem' = IF LastGet(p) THEN mem \ {p.id} ELSE mem
    BY <1>1, CountGetFacts
  <1>3. StoreTypeOK'
    BY TakeType
  <1>4. /\ p.id \in PasteIds /\ posted[p.id] = [prs |-> prs, MaxGets |-> p.MaxGets]
        /\ p.id \in mem /\ (p.MaxGets > 0 => p.Gets < p.MaxGets)
    BY <1>1 DEF Entries
  <1>5. p.Gets \in Nat /\ p.MaxGets \in Nat
    BY <1>1 DEF Paste
  <1>6. ASSUME NEW q \in DOMAIN m'
        PROVE  /\ m'[q].id \in PasteIds
               /\ posted[m'[q].id] = [prs |-> q, MaxGets |-> m'[q].MaxGets]
               /\ m'[q].MaxGets > 0 => m'[q].Gets <= m'[q].MaxGets
               /\ ~m'[q].Burned =>
                     m'[q].id \in mem' /\ (m'[q].MaxGets > 0 => m'[q].Gets < m'[q].MaxGets)
    <2>1. CASE q = prs
      <3>1. m'[q].id = p.id /\ m'[q].MaxGets = p.MaxGets /\ m'[q].Gets = p.Gets + 1
            /\ m'[q].Burned = LastGet(p)
        BY <1>2, <2>1
      <3>2. p.MaxGets > 0 => p.Gets + 1 <= p.MaxGets
        BY <1>4, <1>5
      <3>3. ~LastGet(p) => p.id \in mem' /\ (p.MaxGets > 0 => p.Gets + 1 < p.MaxGets)
        BY <1>2, <1>4, <1>5 DEF LastGet
      <3> HIDE DEF p
      <3> QED
        BY <1>4, <2>1, <3>1, <3>2, <3>3
    <2>2. CASE q # prs
      <3>1. q \in DOMAIN m /\ m'[q] = m[q]
        BY <1>2, <2>2
      <3>2. /\ m[q].id \in PasteIds /\ posted[m[q].id] = [prs |-> q, MaxGets |-> m[q].MaxGets]
            /\ m[q].MaxGets > 0 => m[q].Gets <= m[q].MaxGets
            /\ ~m[q].Burned =>
                  m[q].id \in mem /\ (m[q].MaxGets > 0 => m[q].Gets < m[q].MaxGets)
        BY <3>1 DEF Entries
      <3>3. m[q].id # p.id
        BY <1>1, <2>2, <3>1, OwnIds
      <3>4. m[q].id \in mem => m[q].id \in mem'
        BY <1>2, <3>3
      <3> QED
        BY <3>1, <3>2, <3>4
    <2> QED
      BY <2>1, <2>2
  <1>7. Entries'
    BY <1>2, <1>6 DEF Entries, PasteIds
  <1>8. /\ \A q \in DOMAIN m : m'[q].id = m[q].id
        /\ \A q \in DOMAIN m : m'[q].Gets = IF q = prs THEN m[q].Gets + 1 ELSE m[q].Gets
    BY <1>1, <1>2
  <1> QED
    BY <1>2, <1>3, <1>4, <1>7, <1>8 DEF copied

\* Every step of the store keeps what has been posted, and knows its entries.
LEMMA StoreStep ==
  ASSUME Inv, GetsInv, [Next]_vars
  PROVE  StoreTypeOK' /\ Entries' /\ Grows
  <1>0. StoreTypeOK /\ Entries /\ now \in Int /\ Len(posted) \in Nat
    <2>1. StoreTypeOK /\ Entries /\ Ends
      BY DEF GetsInv
    <2>2. now \in 0..1
      BY <2>1 DEF Ends
    <2>3. Len(posted) \in Nat
      BY <2>1 DEF StoreTypeOK
    <2> QED
      BY <2>1, <2>2, <2>3
  <1>1. ASSUME UNCHANGED storeVars
        PROVE  StoreTypeOK' /\ Entries' /\ Grows
    BY <1>0, <1>1 DEF storeVars, StoreTypeOK, Entries, PasteIds, Grows
  <1>2. ASSUME NEW limit \in GetLimits, Post(limit)
        PROVE  StoreTypeOK' /\ Entries' /\ Grows
    <2>1. PICK code : code = Codes[Len(posted) + 1] /\ add(code, now, limit)
      BY <1>2 DEF Post
    <2>2. code \in Prs
      BY <1>0, <1>2, <2>1, ExchangeAssumption DEF Post
    <2>3. limit \in Nat
      BY <1>2, ExchangeAssumption
    <2> QED
      BY <1>0, <2>1, <2>2, <2>3, AddStored
  <1>3. ASSUME NEW S, burnAndDelete(S)
        PROVE  StoreTypeOK' /\ Entries' /\ Grows
    BY <1>0, <1>3, DeleteStored
  <1>4. CASE ServerTake
    <2>1. PICK prs : take(prs, now)
      BY <1>4 DEF ServerTake
    <2>2. CASE Retrievable(prs, now)
      BY <1>0, <2>1, <2>2, TakeStored DEF Grows
    <2>3. CASE ~Retrievable(prs, now)
      BY <1>1, <2>1, <2>3 DEF take
    <2> QED
      BY <2>2, <2>3
  <1>5. \/ UNCHANGED storeVars \/ ServerTake
        \/ \E limit \in GetLimits : Post(limit)
        \/ \E S : burnAndDelete(S)
    BY DEF Next, vars, Type, ClientHello, ClientOffer, ClientPayload, ClientError, ServerRefuse,
           ServerOffer, ServerTag, ServerWrite, ServerError, Break, Delete, Expire, Sweep, del,
           storeSweep
  <1> QED
    BY <1>1, <1>2, <1>3, <1>4, <1>5

\* Nothing of the exchange that delivery depends on changes.
LEMMA HandledKept ==
  ASSUME Handled, Grows,
         UNCHANGED <<spc, body, match, sides, cpc, secret, meant>>,
         toClient' = toClient \/ toClient' = <<>>
  PROVE  Handled'
  <1>1. \A id \in PasteIds : id \in PasteIds' /\ posted'[id] = posted[id]
    BY DEF Grows, PasteIds
  <1> QED
    BY <1>1 DEF Handled

\* After each step handshake and the client hold payloads of the client's paste.
LEMMA HandledStep ==
  ASSUME Inv, GetsInv, Grows, StoreTypeOK', [Next]_vars
  PROVE  Handled'
  <1>0. Handled /\ StoreTypeOK /\ Entries
    BY DEF GetsInv
  <1>1. ASSUME NEW code \in Prs, NEW text \in typed(code), Type(code, text)
        PROVE  Handled'
    <2>0. spc \in {"closed", "denied"} /\ cpc = "idle" /\ match = 0 /\ body = 0 /\ sides = <<>>
      BY <1>0, <1>1 DEF Type, Handled
    <2>1. /\ meant' = code /\ secret' = canonical(text)
          /\ UNCHANGED <<sides, match, body>>
          /\ \/ spc' = spc /\ cpc' = cpc
             \/ spc' = "hello" /\ cpc' = "hello" /\ secret' # Refused
      BY <1>1 DEF Type
    <2>2. secret' # Refused => secret' = meant' /\ meant' \in Prs
      BY <2>1, TypedResolves
    <2> QED
      BY <2>0, <2>1, <2>2 DEF Handled
  <1>2. CASE ClientHello
    <2>1. /\ cpc = "hello" /\ cpc' = "offer"
          /\ UNCHANGED <<spc, sides, match, body, secret, meant, posted>>
      BY <1>2 DEF ClientHello, serverVars, storeVars
    <2> QED
      BY <1>0, <2>1 DEF Handled, PasteIds
  <1>3. CASE ClientOffer
    <2>1. /\ cpc = "offer" /\ UNCHANGED <<spc, sides, match, body, secret, meant, posted>>
          /\ cpc' = "idle" \/ (cpc' = "payload" /\ toClient' = <<>>)
      BY <1>3 DEF ClientOffer, serverVars, storeVars, Return
    <2> QED
      BY <1>0, <2>1 DEF Handled, PasteIds
  <1>4. CASE ClientPayload \/ ClientError
    <2>1. cpc' = "idle" /\ UNCHANGED <<spc, sides, match, body, posted>>
      BY <1>4 DEF ClientPayload, ClientError, serverVars, storeVars, Return
    <2> QED
      BY <1>0, <2>1 DEF Handled, PasteIds
  <1>5. CASE ServerOffer
    <2>1. /\ spc = "hello" /\ UNCHANGED <<cpc, secret, meant, posted>>
          /\ \/ spc' = "tag" /\ UNCHANGED <<match, body>>
             \/ Hangup
      BY <1>5 DEF ServerOffer, clientVars, storeVars
    <2>2. cpc # "payload"
      BY <2>1 DEF Inv, Conversation, Confirming
    <2> QED
      BY <1>0, <2>1, <2>2 DEF Handled, PasteIds, Hangup
  <1>6. CASE ServerTag
    <2>1. UNCHANGED <<cpc, secret, meant, posted, toClient>>
      BY <1>6 DEF ServerTag, clientVars, storeVars
    <2>2. cpc = "payload" /\ spc' = "take" /\ UNCHANGED <<sides, body>>
      BY <1>6, TagHits
    <2>3. toClient = <<>>
      BY <1>6, TagHits
    <2>4. spc = "tag"
      BY <1>6 DEF ServerTag
    <2> QED
      BY <1>0, <2>1, <2>2, <2>3, <2>4 DEF Handled, PasteIds
  <1>7. CASE ServerTake
    <2>0. spc = "take" /\ take(taken, now) /\ UNCHANGED <<cpc, secret, meant, toClient>>
      BY <1>7 DEF ServerTake, clientVars, wireVars
    <2>1. cpc # "idle" => toClient = <<>> /\ taken = secret
      BY <2>0, Taking DEF taken
    <2>2. CASE Retrievable(taken, now)
      <3>1. spc' = "write" /\ body' = copied(taken)
        BY <1>7, <2>2 DEF ServerTake
      <3>2. PICK prs : prs = taken
        OBVIOUS
      <3>3. copied(prs) = m[prs].id /\ posted' = posted
        BY <1>0, <2>0, <2>2, <3>2, TakeStored
      <3>4. prs \in DOMAIN m
        BY <2>2, <3>2 DEF Retrievable
      <3>5. m[prs].id \in PasteIds /\ posted[m[prs].id] = [prs |-> prs, MaxGets |-> m[prs].MaxGets]
        BY <1>0, <3>4 DEF Entries
      <3>6. body' \in PasteIds /\ posted[body'].prs = taken
        BY <3>1, <3>2, <3>3, <3>5
      <3> QED
        BY <1>0, <2>0, <2>1, <3>1, <3>3, <3>6 DEF Handled, PasteIds
    <2>3. CASE ~Retrievable(taken, now)
      <3>1. Hangup /\ posted' = posted
        BY <1>7, <2>0, <2>3 DEF ServerTake, take, storeVars
      <3> QED
        BY <1>0, <2>0, <2>1, <3>1 DEF Handled, PasteIds, Hangup
    <2> QED
      BY <2>2, <2>3
  <1>8. CASE ServerWrite
    <2>1. /\ spc = "write" /\ UNCHANGED <<cpc, secret, meant, posted>> /\ Hangup
          /\ toClient' = <<>> \/ toClient' = <<sealed(sides[match].sk, body)>>
      BY <1>8 DEF ServerWrite, clientVars, storeVars, writeFrame
    <2>2. toClient' # <<>> => Head(toClient').body = body
      BY <2>1 DEF sealed
    <2> QED
      BY <1>0, <2>1, <2>2 DEF Handled, PasteIds, Hangup
  <1>9. CASE ServerError
    <2>1. UNCHANGED <<cpc, secret, meant, posted, toClient>> /\ Hangup
      BY <1>9 DEF ServerError, clientVars, storeVars, wireVars
    <2> QED
      BY <1>0, <2>1 DEF Handled, PasteIds, Hangup
  <1>10. ASSUME UNCHANGED <<clientVars, serverVars>>,
                UNCHANGED wireVars \/ toClient' = <<>>
         PROVE  Handled'
    BY <1>0, <1>10, HandledKept DEF clientVars, serverVars, wireVars
  <1>11. CASE UNCHANGED vars
    BY <1>10, <1>11 DEF vars
  <1>12. CASE ServerRefuse
    <2>1. /\ spc = "hello" /\ spc' = "denied"
          /\ UNCHANGED <<cpc, secret, meant, posted, sides, match, body, toClient>>
      BY <1>12 DEF ServerRefuse, clientVars, storeVars
    <2> QED
      BY <1>0, <2>1 DEF Handled, PasteIds
  <1>13. ASSUME NEW limit, Post(limit) PROVE Handled'
    BY <1>10, <1>13 DEF Post
  <1>14. ASSUME NEW prs, Delete(prs) PROVE Handled'
    BY <1>10, <1>14 DEF Delete
  <1>15. CASE Break \/ Expire \/ Sweep
    BY <1>10, <1>15 DEF Break, Expire, Sweep, wireVars
  <1> QED
    BY <1>1, <1>2, <1>3, <1>4, <1>5, <1>6, <1>7, <1>8, <1>9, <1>11, <1>12, <1>13, <1>14,
       <1>15 DEF Next

\* The values at both ends stay in their ranges.
LEMMA EndsStep ==
  ASSUME Inv, Inv', Ends, Handled, Handled', [Next]_vars
  PROVE  Ends'
  <1>1. now' \in 0..1
    <2>1. now' = now \/ now' = 1
      BY DEF Next, vars, Type, ClientHello, ClientOffer, ClientPayload, ClientError,
             ServerRefuse, ServerOffer, ServerTag, ServerTake, ServerWrite, ServerError, Break,
             Post, Delete, Expire, Sweep
    <2>2. now \in 0..1
      BY DEF Ends
    <2>3. 1 \in 0..1
      OBVIOUS
    <2> QED
      BY <2>1, <2>2, <2>3
  <1>2. /\ session' \in 0..MaxSessions
        /\ {meant', secret'} \subseteq wordCodes \cup digitCodes \cup {<<>>}
    <2>1. ASSUME NEW code \in Prs, NEW text \in typed(code), Type(code, text)
          PROVE  /\ session' \in 0..MaxSessions
                 /\ {meant', secret'} \subseteq wordCodes \cup digitCodes \cup {<<>>}
      <3>1. session < MaxSessions /\ session' = session + 1
            /\ meant' = code /\ secret' = canonical(text)
        BY <2>1 DEF Type
      <3>2. session \in 0..MaxSessions
        BY DEF Ends
      <3>3. MaxSessions \in Nat
        BY ExchangeAssumption
      <3>4. session' \in 0..MaxSessions
        BY <3>1, <3>2, <3>3
      <3>5. /\ canonical(text) \in {code, Refused} /\ code \in wordCodes \cup digitCodes
        BY TypedResolves
      <3> QED
        BY <3>1, <3>4, <3>5 DEF Refused
    <2>2. CASE UNCHANGED <<session, meant, secret>>
      BY <2>2 DEF Ends
    <2>3. \/ UNCHANGED <<session, meant, secret>>
          \/ \E code \in Prs : \E text \in typed(code) : Type(code, text)
      BY DEF Next, vars, clientVars, ClientHello, ClientOffer, ClientPayload, ClientError,
             ServerRefuse, ServerOffer, ServerTag, ServerTake, ServerWrite, ServerError, Break,
             Post, Delete, Expire, Sweep
    <2> QED
      BY <2>1, <2>2, <2>3
  <1>3. open' \in BOOLEAN /\ fails' \in BOOLEAN /\ excused' \in BOOLEAN
    <2>1. open' = open \/ open' \in BOOLEAN
      BY DEF Next, vars, Type, ClientHello, ClientOffer, ClientPayload, ClientError,
             ServerRefuse, ServerOffer, ServerTag, ServerTake, ServerWrite, ServerError, Break,
             Post, Delete, Expire, Sweep, Return
    <2>2. fails' = fails \/ fails' = TRUE
      BY DEF Next, vars, serverVars, Type, ClientHello, ClientOffer, ClientPayload, ClientError,
             ServerRefuse, ServerOffer, ServerTag, ServerTake, ServerWrite, ServerError, Break,
             Post, Delete, Expire, Sweep
    <2>3. excused' = excused \/ excused' \in BOOLEAN
      BY DEF Next, vars, Type, ClientHello, ClientOffer, ClientPayload, ClientError,
             ServerRefuse, ServerOffer, ServerTag, ServerTake, ServerWrite, ServerError, Break,
             Post, Delete, Expire, Sweep, Excuse
    <2> QED
      BY <2>1, <2>2, <2>3 DEF Ends
  <1>4. outcome' \in {"none", "refused", "no match", "error", "ok"}
    <2>1. outcome' = outcome \/ outcome' \in {"none", "refused", "no match", "error", "ok"}
      BY DEF Next, vars, clientVars, Type, ClientHello, ClientOffer, ClientPayload, ClientError,
             ServerRefuse, ServerOffer, ServerTag, ServerTake, ServerWrite, ServerError, Break,
             Post, Delete, Expire, Sweep, Return
    <2> QED
      BY <2>1 DEF Ends
  <1>5. Len(sides') \in 0..MaxCandidates /\ match' \in 0..Len(sides')
    <2>1. CASE ServerOffer
      <3>1. spc = "hello" /\ match' \in {match, 0} /\ spc' \in {"tag", "closed"}
            /\ UNCHANGED cpc
        BY <2>1 DEF ServerOffer, Hangup, clientVars
      <3>2. match = 0 /\ match' = 0
        BY <3>1 DEF Handled
      <3>3. cpc' # "idle"
        BY <2>1, <3>1 DEF Inv, Conversation, ServerOffer
      <3>4. CASE spc' = "tag"
        <4>1. SidesFor(sides)'
          BY <3>3, <3>4 DEF Inv, Offered
        <4>2. Len(sides') \in 0..MaxCandidates
          BY <4>1 DEF SidesFor
        <4>3. 0 \in 0..Len(sides')
          BY <4>2, Constants
        <4> QED
          BY <3>2, <4>2, <4>3
      <3>5. CASE spc' = "closed"
        BY <3>2, <3>5, Constants DEF Handled
      <3> QED
        BY <3>1, <3>4, <3>5
    <2>2. CASE ServerTag
      <3>1. sides' = sides /\ match' \in 1..Len(sides)
        BY <2>2, TagHits
      <3>2. Len(sides) \in 0..MaxCandidates
        BY DEF Ends
      <3>3. \A i \in 1..Len(sides) : i \in 0..Len(sides)
        BY <3>2, Constants
      <3> QED
        BY <3>1, <3>2, <3>3
    <2>3. CASE UNCHANGED <<sides, match>>
      BY <2>3 DEF Ends
    <2>4. CASE Hangup
      BY <2>4, Constants DEF Hangup
    <2>5. ServerOffer \/ ServerTag \/ UNCHANGED <<sides, match>> \/ Hangup
      BY DEF Next, vars, serverVars, Type, ClientHello, ClientOffer, ClientPayload, ClientError,
             ServerRefuse, ServerTake, ServerWrite, ServerError, Break, Post, Delete, Expire,
             Sweep
    <2> QED
      BY <2>1, <2>2, <2>3, <2>4, <2>5
  <1>6. Len(toServer') <= 1 /\ Len(toClient') <= 1
    <2>1. Len(<<>>) <= 1 /\ \A f : Len(<<f>>) <= 1
      OBVIOUS
    <2>2. \/ toServer' \in {toServer, <<>>}
          \/ \E f : toServer' = <<f>>
      BY DEF Next, vars, wireVars, writeFrame, Type, ClientHello, ClientOffer, ClientPayload,
             ClientError, ServerRefuse, ServerOffer, ServerTag, ServerTake, ServerWrite,
             ServerError, Break, Post, Delete, Expire, Sweep, Return
    <2>3. \/ toClient' \in {toClient, <<>>}
          \/ \E f : toClient' = <<f>>
      BY DEF Next, vars, wireVars, writeFrame, Type, ClientHello, ClientOffer, ClientPayload,
             ClientError, ServerRefuse, ServerOffer, ServerTag, ServerTake, ServerWrite,
             ServerError, Break, Post, Delete, Expire, Sweep, Return
    <2> QED
      BY <2>1, <2>2, <2>3 DEF Ends
  <1> QED
    BY <1>1, <1>2, <1>3, <1>4, <1>5, <1>6 DEF Ends

LEMMA ArrivalsFinite ==
  ASSUME Counted, NEW id
  PROVE  IsFiniteSet(Arrivals(id)) /\ Cardinality(Arrivals(id)) \in Nat
  <1>1. Len(delivered) \in Nat /\ DOMAIN delivered = 1..Len(delivered)
    BY DEF Counted
  <1>2. IsFiniteSet(1..Len(delivered))
    BY <1>1, FS_Interval
  <1>3. Arrivals(id) \subseteq 1..Len(delivered)
    BY <1>1 DEF Arrivals
  <1> QED
    BY <1>2, <1>3, FS_Subset, FS_CardinalityType

\* What is delivered are pastes that have been posted.
LEMMA Received ==
  ASSUME Counted, NEW i \in DOMAIN delivered
  PROVE  delivered[i].id \in PasteIds
  <1> DEFINE R == [id : PasteIds, meant : Prs]
  <1>1. delivered \in Seq(R)
    BY DEF Counted
  <1> HIDE DEF R
  <1>2. delivered[i] \in R
    BY <1>1
  <1> QED
    BY <1>2 DEF R

LEMMA PostedLimit ==
  ASSUME StoreTypeOK, NEW id \in PasteIds
  PROVE  posted[id].MaxGets \in Nat
  <1> DEFINE R == [prs : Prs, MaxGets : Nat]
  <1>1. posted \in Seq(R)
    BY DEF StoreTypeOK
  <1> HIDE DEF R
  <1>2. posted[id] \in R
    BY <1>1 DEF PasteIds
  <1> QED
    BY <1>2 DEF R

\* Nothing of a paste is owed before it is posted.
LEMMA NothingOwed ==
  ASSUME Counted, Handled, NEW id, id \notin PasteIds
  PROVE  Arrivals(id) = {} /\ ~InFlight(id)
  <1>1. \A i \in DOMAIN delivered : delivered[i].id \in PasteIds
    BY Received
  <1>2. Arrivals(id) = {}
    BY <1>1 DEF Arrivals
  <1> QED
    BY <1>2 DEF Handled, InFlight

\* More is posted, removed or counted, and nothing more is on its way.
LEMMA CountedKept ==
  ASSUME StoreTypeOK, StoreTypeOK', Entries, Handled, Counted, Grows,
         delivered' = delivered,
         \A id : InFlight(id)' => InFlight(id),
         \A prs \in DOMAIN m' :
            \/ m'[prs].id \notin PasteIds
            \/ prs \in DOMAIN m /\ m'[prs].id = m[prs].id /\ m[prs].Gets <= m'[prs].Gets
  PROVE  Counted'
  <1>1. \A id \in PasteIds : id \in PasteIds' /\ posted'[id] = posted[id]
    BY DEF Grows, PasteIds
  <1>2. \A id : Arrivals(id)' = Arrivals(id)
    BY DEF Arrivals
  <1>3. \A id : /\ Cardinality(Arrivals(id)) \in Nat
                /\ Owed(id) = Cardinality(Arrivals(id)) + (IF InFlight(id) THEN 1 ELSE 0)
                /\ Owed(id)' = Cardinality(Arrivals(id)) + (IF InFlight(id)' THEN 1 ELSE 0)
    BY <1>2, ArrivalsFinite DEF Owed
  <1>4. \A id : Owed(id) \in Nat /\ Owed(id)' \in Nat /\ Owed(id)' <= Owed(id)
    <2> TAKE id
    <2> DEFINE c == Cardinality(Arrivals(id))
               a == IF InFlight(id) THEN 1 ELSE 0
               b == IF InFlight(id)' THEN 1 ELSE 0
    <2>1. c \in Nat /\ a \in Nat /\ b \in Nat /\ b <= a
      BY <1>3
    <2>2. Owed(id) = c + a /\ Owed(id)' = c + b
      BY <1>3
    <2> HIDE DEF a, b, c
    <2> QED
      BY <2>1, <2>2
  <1>5. \A id : id \notin PasteIds => Owed(id)' = 0
    <2> TAKE id
    <2> SUFFICES ASSUME id \notin PasteIds PROVE Owed(id)' = 0
      OBVIOUS
    <2>1. Arrivals(id) = {} /\ ~InFlight(id)
      BY NothingOwed
    <2>2. Cardinality(Arrivals(id)) = 0
      BY <2>1, FS_EmptySet
    <2>3. ~InFlight(id)'
      BY <2>1
    <2> QED
      BY <1>3, <2>2, <2>3
  <1>6. /\ delivered' \in Seq([id : PasteIds', meant : Prs])
        /\ \A i \in DOMAIN delivered' : posted'[delivered'[i].id].prs = delivered'[i].meant
    <2>1. delivered \in Seq([id : PasteIds, meant : Prs])
      BY DEF Counted
    <2>2. \A i \in DOMAIN delivered : delivered[i].id \in PasteIds
      BY Received
    <2>3. PasteIds \subseteq PasteIds'
      BY <1>1
    <2>4. [id : PasteIds, meant : Prs] \subseteq [id : PasteIds', meant : Prs]
      BY <2>3
    <2>5. delivered \in Seq([id : PasteIds', meant : Prs])
      <3> DEFINE R == [id : PasteIds, meant : Prs]
                 Q == [id : PasteIds', meant : Prs]
      <3> HIDE DEF R, Q
      <3>1. delivered \in Seq(R) /\ R \subseteq Q
        BY <2>1, <2>4 DEF R, Q
      <3>2. delivered \in Seq(Q)
        BY <3>1
      <3> QED
        BY <3>2 DEF Q
    <2>6. \A i \in DOMAIN delivered : posted'[delivered[i].id].prs = delivered[i].meant
      BY <1>1, <2>2 DEF Counted
    <2> QED
      BY <2>5, <2>6
  <1>7. ASSUME NEW id \in PasteIds', posted'[id].MaxGets > 0
        PROVE  Owed(id)' <= posted'[id].MaxGets
    <2>1. posted'[id].MaxGets \in Nat
      <3> DEFINE R == [prs : Prs, MaxGets : Nat]
      <3>1. posted' \in Seq(R)
        BY DEF StoreTypeOK
      <3> HIDE DEF R
      <3>2. posted'[id] \in R
        BY <3>1 DEF PasteIds
      <3> QED
        BY <3>2 DEF R
    <2>2. CASE id \in PasteIds
      <3>1. posted[id].MaxGets > 0 /\ posted'[id].MaxGets = posted[id].MaxGets
        BY <1>1, <1>7, <2>2
      <3>2. Owed(id) <= posted[id].MaxGets
        BY <2>2, <3>1 DEF Counted
      <3> QED
        BY <1>4, <2>1, <3>1, <3>2
    <2>3. CASE id \notin PasteIds
      BY <1>5, <2>1, <2>3
    <2> QED
      BY <2>2, <2>3
  <1>8. ASSUME NEW id, NEW prs \in DOMAIN m', id = m'[prs].id
        PROVE  Owed(id)' <= m'[prs].Gets
    <2>1. m'[prs].Gets \in Nat
      BY DEF StoreTypeOK, Paste
    <2>2. CASE id \in PasteIds
      <3>1. prs \in DOMAIN m /\ id = m[prs].id /\ m[prs].Gets <= m'[prs].Gets
        BY <1>8, <2>2
      <3>2. Owed(id) <= m[prs].Gets
        BY <3>1 DEF Counted
      <3>3. m[prs].Gets \in Nat
        BY <3>1 DEF StoreTypeOK, Paste
      <3> QED
        BY <1>4, <2>1, <3>1, <3>2, <3>3
    <2>3. CASE id \notin PasteIds
      BY <1>5, <2>1, <2>3
    <2> QED
      BY <2>2, <2>3
  <1> QED
    BY <1>6, <1>7, <1>8 DEF Counted, Owed, Arrivals, InFlight

\* A get that is counted puts one copy on its way, which the limit had room for.
LEMMA CountedTake ==
  ASSUME Inv, StoreTypeOK, StoreTypeOK', Entries, Handled, Counted,
         ServerTake, Retrievable(taken, now)
  PROVE  Counted'
  <1>0. PICK p : p = taken
    OBVIOUS
  <1>1. /\ spc = "take" /\ take(p, now) /\ spc' = "write" /\ body' = copied(p)
        /\ UNCHANGED <<cpc, toClient, delivered>>
    BY <1>0 DEF ServerTake, clientVars, wireVars
  <1>2. p \in DOMAIN m /\ Retrievable(p, now)
    BY <1>0 DEF Retrievable
  <1>3. PICK own : own = m[p].id
    OBVIOUS
  <1>4. /\ posted' = posted /\ copied(p) = own /\ DOMAIN m' = DOMAIN m
        /\ \A q \in DOMAIN m : m'[q].id = m[q].id
        /\ \A q \in DOMAIN m : m'[q].Gets = IF q = p THEN m[q].Gets + 1 ELSE m[q].Gets
        /\ m[p].MaxGets > 0 => m[p].Gets < m[p].MaxGets
    BY <1>1, <1>2, <1>3, TakeStored
  <1>5. cpc = "payload" => toClient = <<>>
    BY <1>1, Taking
  <1>6. \A id : ~InFlight(id) /\ (InFlight(id)' => id = own)
    BY <1>1, <1>4, <1>5 DEF InFlight
  <1>7. \A id : Arrivals(id)' = Arrivals(id)
    BY <1>1 DEF Arrivals
  <1>8. \A id : /\ Owed(id) = Cardinality(Arrivals(id)) + 0
                /\ Owed(id)' = Cardinality(Arrivals(id)) + (IF InFlight(id)' THEN 1 ELSE 0)
    BY <1>6, <1>7 DEF Owed
  <1>9. \A id : /\ Owed(id) \in Nat /\ Owed(id)' \in Nat /\ Owed(id)' <= Owed(id) + 1
                /\ id # own => Owed(id)' = Owed(id)
    <2> TAKE id
    <2> DEFINE c == Cardinality(Arrivals(id))
    <2>1. c \in Nat
      BY ArrivalsFinite
    <2>2. Owed(id) = c + 0 /\ (Owed(id)' = c + 1 \/ Owed(id)' = c + 0)
      BY <1>8
    <2>3. id # own => Owed(id)' = c + 0
      BY <1>6, <1>8
    <2> HIDE DEF c
    <2> QED
      BY <2>1, <2>2, <2>3
  <1>10. m[p].Gets \in Nat /\ m[p].MaxGets \in Nat
    BY <1>2 DEF StoreTypeOK, Paste
  <1>11. own \in PasteIds /\ posted[own].MaxGets = m[p].MaxGets /\ Owed(own) <= m[p].Gets
    <2>1. own \in PasteIds /\ posted[own] = [prs |-> p, MaxGets |-> m[p].MaxGets]
      BY <1>2, <1>3 DEF Entries
    <2>2. Owed(own) <= m[p].Gets
      BY <1>2, <1>3 DEF Counted
    <2> QED
      BY <2>1, <2>2
  <1>12. ASSUME NEW id \in PasteIds, posted[id].MaxGets > 0
         PROVE  Owed(id)' <= posted[id].MaxGets
    <2>1. CASE id = own
      BY <1>4, <1>9, <1>10, <1>11, <1>12, <2>1
    <2>2. CASE id # own
      <3>1. Owed(id) <= posted[id].MaxGets
        BY <1>12 DEF Counted
      <3> QED
        BY <1>9, <2>2, <3>1
    <2> QED
      BY <2>1, <2>2
  <1>13. ASSUME NEW id, NEW q \in DOMAIN m, id = m[q].id
         PROVE  Owed(id)' <= m'[q].Gets
    <2>0. Owed(id) <= m[q].Gets /\ m[q].Gets \in Nat
      <3>1. m[q].Gets \in Nat
        BY DEF StoreTypeOK, Paste
      <3> QED
        BY <1>13, <3>1 DEF Counted
    <2>1. CASE q = p
      BY <1>4, <1>9, <2>0, <2>1
    <2>2. CASE q # p
      <3>1. id # own
        BY <1>2, <1>3, <1>13, <2>2, OwnIds
      <3> QED
        BY <1>4, <1>9, <2>0, <2>2, <3>1
    <2> QED
      BY <2>1, <2>2
  <1>14. /\ delivered' \in Seq([id : PasteIds', meant : Prs])
         /\ \A i \in DOMAIN delivered' : posted'[delivered'[i].id].prs = delivered'[i].meant
    BY <1>1, <1>4 DEF Counted, PasteIds
  <1>15. \A id \in PasteIds' : posted'[id].MaxGets > 0 => Owed(id)' <= posted'[id].MaxGets
    BY <1>4, <1>12 DEF PasteIds
  <1>16. \A id : \A q \in DOMAIN m' : id = m'[q].id => Owed(id)' <= m'[q].Gets
    BY <1>4, <1>13
  <1> QED
    BY <1>14, <1>15, <1>16 DEF Counted, Owed, Arrivals, InFlight

\* A payload that arrives is no longer on its way.
LEMMA CountedPayload ==
  ASSUME Inv, StoreTypeOK, Handled, Counted, ClientPayload
  PROVE  Counted'
  <1>1. cpc = "payload" /\ toClient # <<>>
        /\ UNCHANGED <<storeVars, now, session, meant, secret, serverVars, excused>>
    BY DEF ClientPayload
  <1>2. PICK sk : csk = <<sk>> /\ Confirming(sk)
    BY <1>1 DEF Inv, Conversation
  <1>3. PICK b : toClient = <<sealed(sk, b)>> /\ spc = "closed"
    BY <1>1, <1>2 DEF Confirming
  <1>4. Head(toClient).body = b
    BY <1>3 DEF sealed
  <1>5. readable(Head(toClient), maxFrame) /\ opens(Head(toClient), csk)
    BY <1>2, <1>3, Constants DEF readable, opens, sealed, maxFrame
  <1> DEFINE e == [id |-> b, meant |-> meant]
             n == Len(delivered)
  <1>6. Return("ok") /\ delivered' = Append(delivered, e)
    BY <1>4, <1>5 DEF ClientPayload
  <1>7. b \in PasteIds /\ posted[b].prs = meant /\ meant \in Prs
    BY <1>1, <1>4 DEF Handled
  <1>8. UNCHANGED <<m, posted, spc, body>> /\ cpc' = "idle"
    BY <1>1, <1>6 DEF storeVars, serverVars, Return
  <1>9. n \in Nat /\ DOMAIN delivered = 1..n
    BY DEF Counted
  <1>10. /\ delivered' \in Seq([id : PasteIds, meant : Prs])
         /\ DOMAIN delivered' = 1..(n + 1) /\ delivered'[n + 1] = e
         /\ \A i \in 1..n : delivered'[i] = delivered[i]
    <2> DEFINE R == [id : PasteIds, meant : Prs]
    <2>1. e \in R /\ delivered \in Seq(R)
      BY <1>7 DEF Counted
    <2> HIDE DEF R, e
    <2>2. /\ delivered' \in Seq(R)
          /\ DOMAIN delivered' = 1..(n + 1) /\ delivered'[n + 1] = e
          /\ \A i \in 1..n : delivered'[i] = delivered[i]
      BY <1>6, <2>1
    <2> QED
      BY <2>2 DEF R
  <1>11. \A id : ~InFlight(id)'
    BY <1>3, <1>8 DEF InFlight
  <1>12. \A id : InFlight(id) <=> id = b
    BY <1>1, <1>3, <1>4 DEF InFlight
  <1>13. \A id : Arrivals(id)' = IF id = b THEN Arrivals(id) \cup {n + 1} ELSE Arrivals(id)
    <2> TAKE id
    <2>1. Arrivals(id)' = {i \in 1..(n + 1) : delivered'[i].id = id}
      BY <1>10 DEF Arrivals
    <2>2. Arrivals(id) = {i \in 1..n : delivered[i].id = id}
      BY <1>9 DEF Arrivals
    <2>3. e.id = b /\ \A i : i \in 1..(n + 1) <=> i \in 1..n \/ i = n + 1
      BY <1>9
    <2> HIDE DEF e, n
    <2> QED
      BY <1>9, <1>10, <2>1, <2>2, <2>3
  <1>14. \A id : n + 1 \notin Arrivals(id)
    BY <1>9 DEF Arrivals
  <1>15. \A id : Owed(id)' = Owed(id)
    <2> TAKE id
    <2>1. IsFiniteSet(Arrivals(id)) /\ Cardinality(Arrivals(id)) \in Nat
      BY ArrivalsFinite
    <2>2. Owed(id) = Cardinality(Arrivals(id)) + (IF id = b THEN 1 ELSE 0)
      BY <1>12 DEF Owed
    <2>3. Owed(id)' = Cardinality(Arrivals(id)') + 0
      BY <1>11 DEF Owed
    <2>4. CASE id = b
      <3>1. Cardinality(Arrivals(id)') = Cardinality(Arrivals(id)) + 1
        BY <1>13, <1>14, <2>1, <2>4, FS_AddElement
      <3> QED
        BY <2>1, <2>2, <2>3, <2>4, <3>1
    <2>5. CASE id # b
      BY <1>13, <2>1, <2>2, <2>3, <2>5
    <2> QED
      BY <2>4, <2>5
  <1>16. \A i \in DOMAIN delivered' : posted'[delivered'[i].id].prs = delivered'[i].meant
    <2> TAKE i \in DOMAIN delivered'
    <2>1. CASE i = n + 1
      BY <1>7, <1>8, <1>10, <2>1
    <2>2. CASE i # n + 1
      <3>1. i \in 1..n
        BY <1>9, <1>10, <2>2
      <3> QED
        BY <1>8, <1>9, <1>10, <3>1 DEF Counted
    <2> QED
      BY <2>1, <2>2
  <1>17. \A id \in PasteIds : posted[id].MaxGets > 0 => Owed(id)' <= posted[id].MaxGets
    BY <1>15 DEF Counted
  <1>18. \A id : \A prs \in DOMAIN m : id = m[prs].id => Owed(id)' <= m[prs].Gets
    BY <1>15 DEF Counted
  <1> QED
    BY <1>8, <1>10, <1>16, <1>17, <1>18 DEF Counted, PasteIds, Owed, Arrivals, InFlight

\* Each step but the two above is one that CountedKept is about.
LEMMA CountedStep ==
  ASSUME Inv, GetsInv, Grows, StoreTypeOK', [Next]_vars
  PROVE  Counted'
  <1>0. StoreTypeOK /\ Entries /\ Handled /\ Counted /\ Len(posted) \in Nat
    BY DEF GetsInv, Grows
  <1>1. \A prs \in DOMAIN m : m[prs].Gets \in Nat
    BY <1>0 DEF StoreTypeOK, Paste
  <1>2. ASSUME delivered' = delivered, UNCHANGED m,
               \A id : InFlight(id)' => InFlight(id)
        PROVE  Counted'
    <2>1. \A prs \in DOMAIN m' :
            \/ m'[prs].id \notin PasteIds
            \/ prs \in DOMAIN m /\ m'[prs].id = m[prs].id /\ m[prs].Gets <= m'[prs].Gets
      BY <1>1, <1>2
    <2> QED
      BY <1>0, <1>2, <2>1, CountedKept
  <1>3. ASSUME delivered' = delivered, NEW S, burnAndDelete(S), UNCHANGED <<clientVars, serverVars, wireVars>>
        PROVE  Counted'
    <2>1. \A id : InFlight(id)' => InFlight(id)
      BY <1>3 DEF InFlight, clientVars, serverVars, wireVars
    <2>2. \A prs \in DOMAIN m' : prs \in DOMAIN m /\ m'[prs] = m[prs]
      BY <1>0, <1>3, DeleteStored
    <2>3. \A prs \in DOMAIN m' :
            \/ m'[prs].id \notin PasteIds
            \/ prs \in DOMAIN m /\ m'[prs].id = m[prs].id /\ m[prs].Gets <= m'[prs].Gets
      BY <1>1, <2>2
    <2> QED
      BY <1>0, <1>3, <2>1, <2>3, CountedKept
  <1>4. ASSUME NEW limit, Post(limit)
        PROVE  Counted'
    <2>1. delivered' = delivered /\ \A id : InFlight(id)' => InFlight(id)
      BY <1>4 DEF Post, InFlight, clientVars, serverVars, wireVars
    <2>2. PICK code : addError(code) = "none" /\ add(code, now, limit)
      BY <1>4 DEF Post
    <2>3. /\ DOMAIN m' = DOMAIN m \cup {code} /\ m'[code].id = Len(posted) + 1
          /\ \A q \in DOMAIN m : q # code => m'[q] = m[q]
      BY <2>2 DEF add
    <2>4. Len(posted) + 1 \notin PasteIds
      BY <1>0 DEF PasteIds
    <2>5. \A prs \in DOMAIN m' :
            \/ m'[prs].id \notin PasteIds
            \/ prs \in DOMAIN m /\ m'[prs].id = m[prs].id /\ m[prs].Gets <= m'[prs].Gets
      BY <1>1, <2>3, <2>4
    <2> QED
      BY <1>0, <2>1, <2>5, CountedKept
  <1>5. ASSUME NEW code, NEW text, Type(code, text)
        PROVE  Counted'
    <2>1. cpc = "idle" /\ UNCHANGED <<m, delivered>> /\ spc' # "write" /\ cpc' # "payload"
      BY <1>5 DEF Type, storeVars
    <2> QED
      BY <1>2, <2>1 DEF InFlight
  <1>6. CASE ClientHello
    <2>1. UNCHANGED <<m, delivered, spc, body>> /\ cpc' # "payload"
      BY <1>6 DEF ClientHello, storeVars, serverVars
    <2> QED
      BY <1>2, <2>1 DEF InFlight
  <1>7. CASE ClientOffer \/ ClientError
    <2>1. UNCHANGED <<m, delivered, spc, body>> /\ toClient' = <<>>
      BY <1>7 DEF ClientOffer, ClientError, storeVars, serverVars, Return
    <2> QED
      BY <1>2, <2>1 DEF InFlight
  <1>8. CASE ClientPayload
    BY <1>0, <1>8, CountedPayload
  <1>9. CASE ServerOffer
    <2>1. UNCHANGED <<m, delivered, cpc>> /\ spc' # "write" /\ spc = "hello"
      BY <1>9 DEF ServerOffer, storeVars, clientVars, Hangup
    <2>2. cpc # "payload"
      BY <2>1 DEF Inv, Conversation, Confirming
    <2> QED
      BY <1>2, <2>1, <2>2 DEF InFlight
  <1>10. CASE ServerTag
    <2>1. UNCHANGED <<m, delivered, cpc, toClient>> /\ spc' # "write"
      BY <1>10 DEF ServerTag, storeVars, clientVars, Hangup
    <2> QED
      BY <1>2, <2>1 DEF InFlight
  <1>11. CASE ServerTake
    <2>1. CASE Retrievable(taken, now)
      BY <1>0, <1>11, <2>1, CountedTake
    <2>2. CASE ~Retrievable(taken, now)
      <3>1. UNCHANGED <<m, delivered, cpc, toClient>> /\ spc' # "write"
        BY <1>11, <2>2 DEF ServerTake, take, storeVars, clientVars, wireVars, Hangup
      <3> QED
        BY <1>2, <3>1 DEF InFlight
    <2> QED
      BY <2>1, <2>2
  <1>12. CASE ServerWrite
    <2>1. /\ spc = "write" /\ spc' # "write" /\ UNCHANGED <<m, delivered, cpc>>
          /\ toClient' = <<>> \/ toClient' = <<sealed(sides[match].sk, body)>>
      BY <1>12 DEF ServerWrite, Hangup, clientVars, storeVars, writeFrame
    <2>2. toClient' # <<>> => Head(toClient').body = body
      BY <2>1 DEF sealed
    <2> QED
      BY <1>2, <2>1, <2>2 DEF InFlight
  <1>13. CASE ServerError
    <2>1. UNCHANGED <<m, delivered, cpc, toClient>> /\ spc' # "write"
      BY <1>13 DEF ServerError, storeVars, clientVars, wireVars, Hangup
    <2> QED
      BY <1>2, <2>1 DEF InFlight
  <1>14. CASE ServerRefuse
    <2>1. UNCHANGED <<m, delivered, cpc, toClient>> /\ spc' # "write"
      BY <1>14 DEF ServerRefuse, storeVars, clientVars
    <2> QED
      BY <1>2, <2>1 DEF InFlight
  <1>15. CASE Break \/ Expire \/ UNCHANGED vars
    <2>1. /\ UNCHANGED <<m, delivered, spc, body, cpc>>
          /\ toClient' = toClient \/ toClient' = <<>>
      BY <1>15 DEF Break, Expire, vars, storeVars, clientVars, serverVars, wireVars
    <2> QED
      BY <1>2, <2>1 DEF InFlight
  <1>16. ASSUME NEW prs, Delete(prs) PROVE Counted'
    BY <1>3, <1>16 DEF Delete, del, clientVars
  <1>17. CASE Sweep
    BY <1>3, <1>17 DEF Sweep, storeSweep, clientVars
  <1> QED
    BY <1>4, <1>5, <1>6, <1>7, <1>8, <1>9, <1>10, <1>11, <1>12, <1>13, <1>14, <1>15, <1>16,
       <1>17 DEF Next

LEMMA GetsInvInit == Init => GetsInv
  <1> SUFFICES ASSUME Init PROVE GetsInv
    OBVIOUS
  <1>1. DOMAIN m = {} /\ mem = {} /\ posted = <<>> /\ delivered = <<>>
    BY DEF Init, StoreInit
  <1>2. /\ now = 0 /\ session = 0 /\ open = FALSE /\ meant = <<>> /\ secret = <<>>
        /\ outcome = "none" /\ sides = <<>> /\ match = 0 /\ toServer = <<>> /\ toClient = <<>>
        /\ fails = FALSE /\ excused = FALSE
    BY DEF Init
  <1>3. cpc = "idle" /\ spc = "closed" /\ body = 0
    BY DEF Init
  <1>4. Len(<<>>) = 0 /\ 0 \in 0..0 /\ 0 \in 0..1 /\ 1..0 = {}
    OBVIOUS
  <1>5. 0 \in 0..MaxSessions /\ 0 \in 0..MaxCandidates
    BY Constants, ExchangeAssumption
  <1>6. StoreTypeOK
    BY <1>1, <1>4 DEF StoreTypeOK, PasteIds
  <1>7. Entries /\ Handled
    BY <1>1, <1>2, <1>3 DEF Entries, Handled
  <1>8. Ends
    <2>1. now \in 0..1 /\ session \in 0..MaxSessions
      BY <1>2, <1>4, <1>5
    <2>2. Len(sides) \in 0..MaxCandidates /\ match \in 0..Len(sides)
      BY <1>2, <1>4, <1>5
    <2>3. Len(toServer) <= 1 /\ Len(toClient) <= 1
      BY <1>2, <1>4
    <2> QED
      BY <1>2, <2>1, <2>2, <2>3 DEF Ends
  <1>9. Counted
    BY <1>1, <1>4 DEF Counted, PasteIds
  <1> QED
    BY <1>6, <1>7, <1>8, <1>9 DEF GetsInv

LEMMA GetsInvariance == Spec => [](Inv /\ GetsInv)
  <1>1. Init => Inv /\ GetsInv
    BY InvInit, GetsInvInit
  <1>2. ASSUME Inv /\ GetsInv, [Next]_vars
        PROVE  Inv' /\ GetsInv'
    <2>1. Inv'
      BY <1>2, InvStep
    <2>2. StoreTypeOK' /\ Entries' /\ Grows
      BY <1>2, StoreStep
    <2>3. Handled'
      BY <1>2, <2>2, HandledStep
    <2>4. Ends /\ Handled
      BY <1>2 DEF GetsInv
    <2>5. Ends'
      BY <1>2, <2>1, <2>3, <2>4, EndsStep
    <2>6. Counted'
      BY <1>2, <2>2, CountedStep
    <2> QED
      BY <2>1, <2>2, <2>3, <2>5, <2>6 DEF GetsInv
  <1> QED
    BY <1>1, <1>2, PTL DEF Spec

(***************************************************************************)
(* Type correctness of both ends, the wire and the store: no offer grows   *)
(* beyond what the count of its frame can say, and handshake never writes  *)
(* a payload that take did not hand out (buildOffer, take, handshake).     *)
(***************************************************************************)
THEOREM ExchangeTypeCorrect == Spec => []ExchangeTypeOK
  <1>1. Inv /\ GetsInv => ExchangeTypeOK
    <2> SUFFICES ASSUME Inv, GetsInv PROVE ExchangeTypeOK
      OBVIOUS
    <2>1. StoreTypeOK /\ Ends /\ Handled /\ Counted /\ Places
      BY DEF GetsInv, Inv
    <2>2. \A i \in DOMAIN delivered : delivered[i].id \in PasteIds
      BY <2>1, Received
    <2>3. body \in PasteIds \cup {0}
      BY <2>1 DEF Handled
    <2>4. Len(sides) <= MaxCandidates
      <3>1. Len(sides) \in 0..MaxCandidates
        BY <2>1 DEF Ends
      <3> QED
        BY <3>1, Constants
    <2> QED
      BY <2>1, <2>2, <2>3, <2>4 DEF ExchangeTypeOK, Ends, Places
  <1> QED
    BY <1>1, GetsInvariance, PTL

(***************************************************************************)
(* What a get receives is the paste its code was given for, and no paste   *)
(* is received more often than its limit, however often connections break  *)
(* and codes are typed again: the copies received and the one on its way   *)
(* are never more than the gets counted (take, handshake, exchange).       *)
(***************************************************************************)
THEOREM PastesDelivered == Spec => []DeliveredAsPosted
  <1>1. GetsInv => DeliveredAsPosted
    <2> SUFFICES ASSUME GetsInv PROVE DeliveredAsPosted
      OBVIOUS
    <2>1. StoreTypeOK /\ Counted
      BY DEF GetsInv
    <2>2. ASSUME NEW id \in PasteIds, posted[id].MaxGets > 0
          PROVE  Cardinality(Arrivals(id)) <= posted[id].MaxGets
      <3>1. Owed(id) <= posted[id].MaxGets
        BY <2>1, <2>2 DEF Counted
      <3>2. Cardinality(Arrivals(id)) \in Nat /\ posted[id].MaxGets \in Nat
        BY <2>1, ArrivalsFinite, PostedLimit
      <3> QED
        BY <3>1, <3>2 DEF Owed
    <2> QED
      BY <2>1, <2>2 DEF DeliveredAsPosted, Counted, Arrivals
  <1> QED
    BY <1>1, GetsInvariance, PTL

-----------------------------------------------------------------------------
\* The size of an offer

\* A bucket is a number the loop of paddedCount visits, and no larger than maxCandidates.
LEMMA BucketsVisited == Buckets = {v \in Orbit(MinCandidates) : v \in 1..MaxCandidates}
  <1>0. MinCandidates \in Nat \ {0} /\ MaxCandidates \in Nat
    BY StoreAssumption
  <1>1. ASSUME NEW b \in Buckets
        PROVE  b \in Orbit(MinCandidates) /\ b \in 1..MaxCandidates
    <2>1. b \in 1..MaxCandidates /\ b \in Nat
      BY <1>0 DEF Buckets
    <2>2. ASSUME NEW X \in SUBSET Nat, MinCandidates \in X, Closed(X)
          PROVE  b \in X
      <3> DEFINE Y == X \cap (1..MaxCandidates)
      <3>1. MinCandidates <= MaxCandidates
        <4>1. 0 \in 0..MaxPastes
          BY StoreAssumption
        <4>2. paddedCount(0) \in 0..MaxCandidates /\ paddedCount(0) \in Orbit(MinCandidates)
          BY <4>1, BucketAssumption, PaddedFacts DEF Stops
        <4>3. MinCandidates <= paddedCount(0)
          BY <1>0, <4>2, OrbitFacts
        <4> QED
          BY <1>0, <4>2, <4>3
      <3>2. Y \in SUBSET (1..MaxCandidates) /\ MinCandidates \in Y
        BY <1>0, <2>2, <3>1
      <3>3. ASSUME NEW v \in Y, 2 * v <= MaxCandidates
            PROVE  2 * v \in Y
        <4>1. v \in X /\ v \in 1..MaxCandidates
          OBVIOUS
        <4>2. 2 * v \in X
          BY <2>2, <4>1 DEF Closed
        <4>3. 2 * v \in 1..MaxCandidates
          BY <1>0, <3>3, <4>1
        <4> QED
          BY <4>2, <4>3
      <3>4. Doubling(Y)
        BY <3>2, <3>3 DEF Doubling
      <3> QED
        BY <3>2, <3>4 DEF Buckets
    <2> QED
      BY <2>1, <2>2 DEF Orbit
  <1>2. ASSUME NEW v \in Orbit(MinCandidates), v \in 1..MaxCandidates
        PROVE  v \in Buckets
    <2>1. ASSUME NEW X \in SUBSET (1..MaxCandidates), Doubling(X)
          PROVE  v \in X
      <3> DEFINE Y == X \cup {x \in Nat : x > MaxCandidates}
      <3>1. Y \in SUBSET Nat /\ MinCandidates \in Y
        <4>1. MinCandidates \in X
          BY <2>1 DEF Doubling
        <4>2. \A x \in X : x \in Nat
          BY <1>0
        <4> QED
          BY <4>1, <4>2
      <3>2. ASSUME NEW x \in Y
            PROVE  2 * x \in Y
        <4>1. x \in Nat
          BY <3>1
        <4>2. CASE x \in X /\ 2 * x <= MaxCandidates
          BY <2>1, <4>2 DEF Doubling
        <4>3. CASE x \in X /\ ~(2 * x <= MaxCandidates)
          BY <1>0, <4>1, <4>3
        <4>4. CASE x \notin X
          BY <1>0, <4>1, <4>4
        <4> QED
          BY <4>2, <4>3, <4>4
      <3>3. v \in Y
        BY <3>1, <3>2 DEF Orbit, Closed
      <3> QED
        BY <1>0, <1>2, <3>3
    <2> QED
      BY <1>2, <2>1 DEF Buckets
  <1> QED
    BY <1>1, <1>2

(***************************************************************************)
(* An offer always has the smallest power-of-two size with room for a      *)
(* decoy (candidates, paddedCount, buildOffer).  The store is within its   *)
(* limit, so the bucket its loop ends at is one of Buckets, and the loop   *)
(* passes every smaller one because it is full.                            *)
(***************************************************************************)
THEOREM OffersSmallest == Spec => []OfferSmallest
  <1>1. ASSUME Inv
        PROVE  OfferSmallest
    <2> DEFINE n     == Cardinality(candidates(now).live)
               slots == candidates(now).slots
    <2>1. Bounded
      BY <1>1 DEF Inv
    <2>2. n \in 0..MaxPastes /\ n < slots /\ slots = paddedCount(n)
      BY <2>1, CandidatesRoom
    <2> HIDE DEF n, slots
    <2>3. n \in Nat /\ MaxCandidates \in Nat
      BY <2>2, StoreAssumption
    <2>4. slots \in 0..MaxCandidates
      BY <2>2, BucketAssumption
    <2>5. /\ slots \in Stops(MinCandidates, n + 1)
          /\ \A w \in Stops(MinCandidates, n + 1) : slots <= w
      BY <2>2, <2>3, PaddedFacts
    <2>6. slots \in Buckets
      <3>1. slots \in Orbit(MinCandidates) /\ slots \in 1..MaxCandidates
        BY <2>2, <2>3, <2>4, <2>5 DEF Stops
      <3> QED
        BY <3>1, BucketsVisited
    <2>7. ASSUME NEW b \in Buckets, n < b
          PROVE  slots <= b
      <3>1. b \in Orbit(MinCandidates) /\ b \in Nat
        BY <2>3, BucketsVisited
      <3>2. ~(b < n + 1)
        BY <2>3, <2>7, <3>1
      <3>3. b \in Stops(MinCandidates, n + 1)
        BY <3>1, <3>2 DEF Stops, Enough
      <3> QED
        BY <2>5, <3>3
    <2> QED
      BY <2>2, <2>6, <2>7 DEF OfferSmallest, n, slots
  <1> QED
    BY <1>1, Invariance, PTL
=============================================================================
