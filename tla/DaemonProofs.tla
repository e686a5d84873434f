---------------------------- MODULE DaemonProofs ----------------------------
(***************************************************************************)
(* The daemon's safety for any number of connections, requests, codes and  *)
(* pastes and any values of its limits and timeouts.                       *)
(*                                                                         *)
(* The invariant is a conjunction of named parts, each inductive only      *)
(* together with the ones before it:                                       *)
(*   TypeOK, SlotsHeld   every value is of its type; the semaphore counts  *)
(*                       the running handlers;                             *)
(*   AcceptedInv         a running handler knows its peer;                 *)
(*   EntriesInv          an entry of the store is a paste that was posted  *)
(*                       under its key, and its get counter is the number  *)
(*                       of its takers, below the limit until it burns;    *)
(*   AtMostMaxGets       which alone is not inductive, because a paste's   *)
(*                       takers are bounded by its entry's counter;        *)
(*   PayloadInv          which payloads are in memory and in handlers.     *)
(*                                                                         *)
(* The daemon also implements the paste service, stops for idleness only   *)
(* when it holds nothing, and hides in every offer how many pastes it has. *)
(* These rest on that invariant and on RequestInv: what is known of a      *)
(* connection that has not arrived and of a request that is being read,    *)
(* and that the store is finite.  The decision to stop also needs IdleInv: *)
(* while sweepLoop is between its two tests, whatever is in the store was  *)
(* posted by a request that counts as a recent use.  The offers need       *)
(* OfferInv: the store never holds more than maxPastes.                    *)
(***************************************************************************)
EXTENDS Daemon, StoreProofs

\* Before take, a handler has taken nothing.
BeforeTake == {"idle", "admit", "hello", "charge", "offer", "write", "tag", "take"}

EntriesInv ==
    /\ \A c \in Conn : pc[c] \in BeforeTake => took[c] = 0
    /\ \A prs \in DOMAIN m :
        LET p == m[prs] IN
        /\ p.id \in PasteIds
        /\ posted[p.id].prs = prs
        /\ posted[p.id].MaxGets = p.MaxGets
        /\ p.Gets = Cardinality(Takers(p.id))
        /\ ~p.Burned /\ p.MaxGets > 0 => p.Gets < p.MaxGets

PayloadInv ==
    /\ NoResidue
    /\ \A c \in Conn :
        /\ took[c] # 0 => posted[took[c]].prs = peer[c].prs
        /\ pc[c] \in {"seal", "send"} => took[c] # 0 /\ body[c] = took[c]
        /\ pc[c] \in BeforeTake => got[c] = 0
        /\ got[c] # 0 => got[c] = took[c]

\* A running handler's connection has an address, and a client that holds a code.
AcceptedInv == \A c \in Conn : pc[c] \in Waiting \cup Computing => peer[c] \in Peers

Inv ==
    /\ TypeOK
    /\ SlotsHeld
    /\ AcceptedInv
    /\ EntriesInv
    /\ AtMostMaxGets
    /\ PayloadInv

-----------------------------------------------------------------------------
\* Types

LEMMA ConstantTypes ==
    /\ MaxTime \in Nat /\ MaxDelay \in Nat /\ Second \in Nat \ {0}
    /\ MaxPastes \in Nat \ {0}
    /\ Unit \in Nat /\ RateBurst \in Nat /\ RefillRate \in Nat
    /\ GlobalBurst \in Nat /\ GlobalRate \in Nat /\ BlockFor \in Nat
    /\ IsFiniteSet(Conn) /\ MaxConns \in Nat
    /\ GetLimits \subseteq Nat /\ Ttls \subseteq Nat
    /\ PakeTimeout \in Nat /\ IoTimeout \in Nat
  BY ClockAssumption, StoreAssumption, LimiterAssumption, DaemonAssumption

LEMMA TimeTypes ==
  ASSUME NEW t \in Nat
  PROVE  Unix(t) \in Nat /\ Round(t) \in Int
  BY ConstantTypes DEF Unix, Round

LEMMA ReadingType ==
  ASSUME now \in Nat, NEW t \in Readings
  PROVE  t \in Nat
  BY DEF Readings

\* The bucket operations stay within Bucket.
LEMMA ChargedType ==
  ASSUME NEW b \in Bucket, NEW t \in Nat, NEW burst \in Nat, NEW rate \in Nat
  PROVE  charged(b, t, burst, rate) \in Bucket
  BY ConstantTypes DEF charged, granted, refilled, least, Bucket, Never

LEMMA StateOfType ==
  ASSUME LimiterTypeOK, NEW a
  PROVE  stateOf(a) \in IpState
  BY FS_EmptySet DEF LimiterTypeOK, stateOf, FreshState, IpState, Failures, Bucket, EmptyBucket, Never

LEMMA PeerSeenType ==
  ASSUME NEW s \in IpState, NEW t \in Nat
  PROVE  peerSeen(s, t) \in IpState
  <1>1. charged(s.bucket, t, RateBurst, RefillRate) \in Bucket
    BY ChargedType, ConstantTypes DEF IpState
  <1> QED
    BY <1>1 DEF peerSeen, IpState

LEMMA AllowPeerType ==
  ASSUME LimiterTypeOK, NEW a \in Addr, NEW t \in Nat, allowPeer(a, t)
  PROVE  LimiterTypeOK'
  BY StateOfType, PeerSeenType DEF allowPeer, LimiterTypeOK

LEMMA AllowExchangeType ==
  ASSUME LimiterTypeOK, NEW t \in Nat, allowExchange(t)
  PROVE  LimiterTypeOK'
  BY ChargedType, ConstantTypes DEF allowExchange, LimiterTypeOK

LEMMA RecentType ==
  ASSUME NEW s \in IpState, NEW t \in Nat
  PROVE  recent(s, t) \in Failures
  <1> DEFINE kept == {f \in s.failures : t - f.at < BlockWindow}
             here == {f \in kept : f.at = t}
  <1>1. kept \in Failures /\ IsFiniteSet(here)
    BY FS_Subset DEF IpState, Failures
  <1>2. [at |-> t, no |-> Cardinality(here)] \in [at : Nat, no : Nat]
    BY <1>1, FS_CardinalityType
  <1>3. IsFiniteSet(kept \cup {[at |-> t, no |-> Cardinality(here)]})
    BY <1>1, FS_AddElement DEF Failures
  <1> QED
    BY <1>1, <1>2, <1>3 DEF recent, Failures

LEMMA FailedType ==
  ASSUME NEW s \in IpState, NEW t \in Nat
  PROVE  failed(s, t) \in IpState
  <1>1. recent(s, t) \in Failures /\ {} \in Failures
    BY RecentType, FS_EmptySet DEF Failures
  <1>2. \A x \in IpState : \A F \in Failures : [x EXCEPT !.failures = F] \in IpState
    BY DEF IpState
  <1>3. [s EXCEPT !.blocked = t + BlockFor] \in IpState
    BY ConstantTypes DEF IpState
  <1> QED
    BY <1>1, <1>2, <1>3 DEF failed

LEMMA FailType ==
  ASSUME LimiterTypeOK, NEW a, NEW t \in Nat, fail(a, t)
  PROVE  LimiterTypeOK'
  BY FailedType DEF fail, LimiterTypeOK

LEMMA LimiterSweepType ==
  ASSUME LimiterTypeOK, NEW t \in Nat, limiterSweep(t)
  PROVE  LimiterTypeOK'
  BY DEF limiterSweep, LimiterTypeOK

-----------------------------------------------------------------------------
\* Slots

LEMMA ActiveFinite == IsFiniteSet(Active) /\ Cardinality(Active) \in Nat
  <1>1. Active \subseteq Conn
    BY DEF Active
  <1> QED
    BY <1>1, FS_Subset, FS_CardinalityType, ConstantTypes

\* serveData starts a handler.
LEMMA SlotTaken ==
  ASSUME TypeOK, SlotsHeld, NEW c \in Conn, pc[c] = "idle", Goto(c, "admit"), sem' = sem + 1
  PROVE  SlotsHeld'
  <1>1. c \notin Active /\ Active' = Active \cup {c}
    BY DEF TypeOK, Goto, Active, Waiting, Computing
  <1> QED
    BY <1>1, ActiveFinite, FS_AddElement DEF SlotsHeld

\* A handler returns.
LEMMA SlotReturned ==
  ASSUME TypeOK, SlotsHeld, NEW c \in Conn, c \in Active, Return(c)
  PROVE  SlotsHeld' /\ sem' \in 0..MaxConns
  <1>1. Active' = Active \ {c}
    BY DEF TypeOK, Return, Goto, Active, Waiting, Computing
  <1>2. Cardinality(Active \ {c}) = Cardinality(Active) - 1
    BY ActiveFinite, FS_RemoveElement
  <1>3. Cardinality(Active \ {c}) \in Nat
    BY ActiveFinite, FS_Subset, FS_CardinalityType
  <1> QED
    BY <1>1, <1>2, <1>3, ActiveFinite, ConstantTypes DEF SlotsHeld, Return, TypeOK

\* A handler goes from one label to the next.
LEMMA SlotKept ==
  ASSUME TypeOK, SlotsHeld, NEW c \in Conn, NEW label, sem' = sem,
         Goto(c, label), c \in Active <=> label \in Waiting \cup Computing
  PROVE  SlotsHeld'
  <1>1. Active' = Active
    BY DEF TypeOK, Goto, Active
  <1> QED
    BY <1>1 DEF SlotsHeld

-----------------------------------------------------------------------------
\* Types and slots are kept

\* The labels and local variables of a handler that returns.
LEMMA ReturnType ==
  ASSUME TypeOK, NEW c \in Conn, Return(c), posted' = posted
  PROVE  /\ pc' \in [Conn -> {"idle", "done"} \cup Waiting \cup Computing]
         /\ deadline' \in [Conn -> Nat]
         /\ DOMAIN offer' = Conn /\ \A d \in Conn : offer'[d].live \subseteq Prs
         /\ body' \in [Conn -> Zeroed..Len(posted')]
  <1>1. Len(posted) \in Nat /\ 0 \in Zeroed..Len(posted)
    BY DEF TypeOK, StoreTypeOK, Zeroed
  <1> QED
    BY <1>1 DEF TypeOK, Return, Goto, NoOffer

LEMMA GotoType ==
  ASSUME TypeOK, NEW c \in Conn, NEW label \in Waiting \cup Computing \cup {"done"}, Goto(c, label)
  PROVE  pc' \in [Conn -> {"idle", "done"} \cup Waiting \cup Computing]
  BY DEF TypeOK, Goto

LEMMA LimiterUnchanged ==
  ASSUME LimiterTypeOK, UNCHANGED limiterVars
  PROVE  LimiterTypeOK'
  BY DEF limiterVars, LimiterTypeOK

LEMMA HandlerTypes ==
  ASSUME TypeOK, SlotsHeld, EntriesInv, AcceptedInv, NEW c \in Conn, Handler(c)
  PROVE  TypeOK' /\ SlotsHeld'
  <1> USE DEF Waiting, Computing
  <1>0. now \in Nat
    BY ConstantTypes DEF TypeOK
  <1>1. ASSUME NEW t \in Readings, AllowPeer(c, t)
        PROVE  TypeOK' /\ SlotsHeld'
    <2>1. t \in Nat /\ peer[c].host \in Addr /\ c \in Active
      BY <1>1, ReadingType, ConstantTypes DEF TypeOK, AllowPeer, AcceptedInv, Peers, Active
    <2>2. LimiterTypeOK' /\ StoreTypeOK' /\ posted' = posted
      BY <1>1, <2>1, AllowPeerType, StoreUnchanged DEF TypeOK, AllowPeer
    <2>3. CASE Return(c)
      BY <1>1, <2>1, <2>2, <2>3, ReturnType, SlotReturned DEF TypeOK, AllowPeer
    <2>4. CASE Goto(c, "hello") /\ sem' = sem /\ UNCHANGED <<offer, body>>
               /\ deadline' = [deadline EXCEPT ![c] = now + PakeTimeout]
      <3>1. pc' \in [Conn -> {"idle", "done"} \cup Waiting \cup Computing] /\ SlotsHeld'
        BY <2>1, <2>4, GotoType, SlotKept
      <3>2. deadline' \in [Conn -> Nat]
        BY <1>0, <2>4, ConstantTypes DEF TypeOK
      <3> QED
        BY <1>1, <2>2, <2>4, <3>1, <3>2 DEF TypeOK, AllowPeer
    <2> QED
      BY <1>1, <2>3, <2>4 DEF AllowPeer
  <1>2. CASE ReadHello(c)
    <2>1. pc[c] = "hello" /\ Goto(c, "charge") /\ c \in Active
      BY <1>2 DEF ReadHello, Proceed, Active
    <2>2. pc' \in [Conn -> {"idle", "done"} \cup Waiting \cup Computing] /\ SlotsHeld'
      BY <1>2, <2>1, GotoType, SlotKept DEF ReadHello
    <2> QED
      BY <1>2, <2>2, StoreUnchanged, LimiterUnchanged DEF TypeOK, ReadHello
  <1>3. ASSUME NEW t \in Readings, AllowExchange(c, t)
        PROVE  TypeOK' /\ SlotsHeld'
    <2>1. t \in Nat /\ c \in Active
      BY <1>0, <1>3, ReadingType DEF AllowExchange, Active
    <2>2. LimiterTypeOK' /\ StoreTypeOK' /\ posted' = posted
      BY <1>3, <2>1, AllowExchangeType, StoreUnchanged DEF TypeOK, AllowExchange
    <2>3. CASE Return(c)
      BY <1>3, <2>1, <2>2, <2>3, ReturnType, SlotReturned DEF TypeOK, AllowExchange
    <2>4. CASE Goto(c, "offer") /\ UNCHANGED <<deadline, offer, body, sem>>
      <3>1. pc' \in [Conn -> {"idle", "done"} \cup Waiting \cup Computing] /\ SlotsHeld'
        BY <2>1, <2>4, GotoType, SlotKept
      <3> QED
        BY <1>3, <2>2, <2>4, <3>1 DEF TypeOK, AllowExchange
    <2> QED
      BY <1>3, <2>3, <2>4 DEF AllowExchange
  <1>4. CASE BuildOffer(c)
    <2>1. c \in Active /\ StoreTypeOK' /\ posted' = posted /\ LimiterTypeOK'
      BY <1>4, StoreUnchanged, LimiterUnchanged DEF TypeOK, BuildOffer, Active
    <2>2. CASE Return(c)
      BY <1>4, <2>1, <2>2, ReturnType, SlotReturned DEF TypeOK, BuildOffer
    <2>3. CASE Goto(c, "write") /\ offer' = [offer EXCEPT ![c] = candidates(now)]
               /\ UNCHANGED <<deadline, body, sem>>
      <3>1. pc' \in [Conn -> {"idle", "done"} \cup Waiting \cup Computing] /\ SlotsHeld'
        BY <2>1, <2>3, GotoType, SlotKept
      <3>2. DOMAIN offer' = Conn /\ \A d \in Conn : offer'[d].live \subseteq Prs
        BY <2>3, CandidatesType DEF TypeOK
      <3> QED
        BY <1>4, <2>1, <2>3, <3>1, <3>2 DEF TypeOK, BuildOffer
    <2> QED
      BY <1>4, <2>2, <2>3 DEF BuildOffer
  <1>5. CASE WriteOffer(c)
    <2>1. pc[c] = "write" /\ Goto(c, "tag") /\ c \in Active
      BY <1>5 DEF WriteOffer, Proceed, Active
    <2>2. pc' \in [Conn -> {"idle", "done"} \cup Waiting \cup Computing] /\ SlotsHeld'
      BY <1>5, <2>1, GotoType, SlotKept DEF WriteOffer
    <2> QED
      BY <1>5, <2>2, StoreUnchanged, LimiterUnchanged DEF TypeOK, WriteOffer
  <1>6. CASE Confirm(c)
    <2>1. pc[c] = "tag" /\ Goto(c, "take") /\ c \in Active
      BY <1>6 DEF Confirm, Proceed, Active
    <2>2. pc' \in [Conn -> {"idle", "done"} \cup Waiting \cup Computing] /\ SlotsHeld'
      BY <1>6, <2>1, GotoType, SlotKept DEF Confirm
    <2> QED
      BY <1>6, <2>2, StoreUnchanged, LimiterUnchanged DEF TypeOK, Confirm
  <1>7. ASSUME NEW t \in Readings, FailConfirmation(c, t)
        PROVE  TypeOK' /\ SlotsHeld'
    <2>1. t \in Nat /\ c \in Active
      BY <1>0, <1>7, ReadingType DEF FailConfirmation, Active
    <2>2. LimiterTypeOK' /\ StoreTypeOK' /\ posted' = posted
      BY <1>7, <2>1, FailType, StoreUnchanged DEF TypeOK, FailConfirmation
    <2> QED
      BY <1>7, <2>1, <2>2, ReturnType, SlotReturned DEF TypeOK, FailConfirmation
  <1>8. CASE Take(c)
    <2> DEFINE prs == peer[c].prs
    <2>1. c \in Active /\ StoreTypeOK' /\ posted' = posted /\ LimiterTypeOK'
      BY <1>8, TakeType, LimiterUnchanged DEF TypeOK, Take, Active
    <2>2. CASE Return(c) /\ UNCHANGED took
      BY <1>8, <2>1, <2>2, ReturnType, SlotReturned DEF TypeOK, Take
    <2>3. CASE /\ Retrievable(prs, now)
               /\ Goto(c, "seal")
               /\ took' = [took EXCEPT ![c] = m[prs].id]
               /\ body' = [body EXCEPT ![c] = copied(prs)]
               /\ UNCHANGED <<deadline, offer, sem>>
      <3>1. pc' \in [Conn -> {"idle", "done"} \cup Waiting \cup Computing] /\ SlotsHeld'
        BY <2>1, <2>3, GotoType, SlotKept
      <3>2. m[prs].id \in 1..Len(posted) /\ Len(posted) \in Nat
        BY <2>3 DEF Retrievable, EntriesInv, PasteIds, TypeOK, StoreTypeOK
      <3>3. copied(prs) \in Zeroed..Len(posted) /\ m[prs].id \in 0..Len(posted)
        BY <3>2 DEF copied, Zeroed
      <3>4. took' \in [Conn -> 0..Len(posted')] /\ body' \in [Conn -> Zeroed..Len(posted')]
        BY <2>1, <2>3, <3>3 DEF TypeOK
      <3> QED
        BY <1>8, <2>1, <2>3, <3>1, <3>4 DEF TypeOK, Take
    <2> QED
      BY <1>8, <2>2, <2>3 DEF Take
  <1>9. CASE Seal(c)
    <2>1. c \in Active /\ Goto(c, "send")
      BY <1>9 DEF Seal, Active
    <2>2. pc' \in [Conn -> {"idle", "done"} \cup Waiting \cup Computing] /\ SlotsHeld'
      BY <1>9, <2>1, GotoType, SlotKept DEF Seal
    <2>3. lastUsed' \in Nat
      BY <1>0, <1>9, TimeTypes DEF Seal
    <2>4. now + IoTimeout \in Nat
      BY <1>0, ConstantTypes
    <2>5. deadline' \in [Conn -> Nat]
      BY <1>9, <2>4 DEF TypeOK, Seal
    <2> QED
      BY <1>9, <2>2, <2>3, <2>5, StoreUnchanged, LimiterUnchanged DEF TypeOK, Seal
  <1>10. CASE WriteBody(c)
    <2>1. c \in Active /\ StoreTypeOK' /\ posted' = posted /\ LimiterTypeOK'
      BY <1>10, StoreUnchanged, LimiterUnchanged DEF TypeOK, WriteBody, Active
    <2>2. got' \in [Conn -> Zeroed..Len(posted')]
      BY <1>10, <2>1 DEF TypeOK, WriteBody
    <2> QED
      BY <1>10, <2>1, <2>2, ReturnType, SlotReturned DEF TypeOK, WriteBody
  <1>11. CASE Disconnect(c)
    <2>1. c \in Active /\ StoreTypeOK' /\ posted' = posted /\ LimiterTypeOK'
      BY <1>11, StoreUnchanged, LimiterUnchanged DEF TypeOK, Disconnect, Active
    <2> QED
      BY <1>11, <2>1, ReturnType, SlotReturned DEF TypeOK, Disconnect
  <1>12. CASE DeadlineExpires(c)
    BY <1>11, <1>12 DEF DeadlineExpires
  <1> QED
    BY <1>1, <1>2, <1>3, <1>4, <1>5, <1>6, <1>7, <1>8, <1>9, <1>10, <1>11, <1>12 DEF Handler

PostRecord == [at : {"idle", "body", "add", "done"}, begun : Nat, MaxGets : Nat, expires : Int]

\* The steps of a POST handler stay within PostRecord.
LEMMA PostTypes ==
  ASSUME TypeOK, NEW r \in Request, Posting(r)
  PROVE  TypeOK'
  <1>0. now \in Nat /\ post[r] \in PostRecord /\ post \in [Request -> PostRecord]
    BY ConstantTypes DEF TypeOK, PostRecord
  <1>a. \A p \in PostRecord : \A x \in {"idle", "body", "add", "done"} : [p EXCEPT !.at = x] \in PostRecord
    BY DEF PostRecord
  <1>b. \A p \in PostRecord : \A x \in Nat : [p EXCEPT !.begun = x] \in PostRecord
    BY DEF PostRecord
  <1>c. \A p \in PostRecord : \A x \in Nat : [p EXCEPT !.MaxGets = x] \in PostRecord
    BY DEF PostRecord
  <1>d. \A p \in PostRecord : \A x \in Int : [p EXCEPT !.expires = x] \in PostRecord
    BY DEF PostRecord
  <1>1. CASE PostBegin(r)
    <2>1. post' = [post EXCEPT ![r] = [[post[r] EXCEPT !.at = "body"] EXCEPT !.begun = now]]
      BY <1>1 DEF PostBegin
    <2>2. post' \in [Request -> PostRecord]
      BY <1>0, <1>a, <1>b, <2>1
    <2>3. lastUsed' \in Nat
      BY <1>0, <1>1, TimeTypes DEF PostBegin
    <2> QED
      BY <1>1, <2>2, <2>3, StoreUnchanged, LimiterUnchanged
      DEF TypeOK, PostBegin, connVars, PostRecord
  <1>2. ASSUME NEW ttl \in Ttls, NEW maxGets \in GetLimits, PostBody(r, ttl, maxGets)
        PROVE  TypeOK'
    <2> DEFINE e == Round(now + ttl)
    <2>1. post' = [post EXCEPT ![r] =
                    [[[post[r] EXCEPT !.at = "add"] EXCEPT !.MaxGets = maxGets] EXCEPT !.expires = e]]
      BY <1>2 DEF PostBody
    <2>2. e \in Int /\ maxGets \in Nat
      BY <1>0, TimeTypes, ConstantTypes
    <2> HIDE DEF e
    <2>3. post' \in [Request -> PostRecord]
      BY <1>0, <1>a, <1>c, <1>d, <2>1, <2>2
    <2> QED
      BY <1>2, <2>3, StoreUnchanged, LimiterUnchanged DEF TypeOK, PostBody, connVars, PostRecord
  <1>3. CASE PostRefused(r)
    <2>1. post' \in [Request -> PostRecord]
      BY <1>0, <1>3, <1>a DEF PostRefused
    <2> QED
      BY <1>3, <2>1, StoreUnchanged, LimiterUnchanged DEF TypeOK, PostRefused, connVars, PostRecord
  <1>4. ASSUME NEW prs \in Prs, PostAdd(r, prs)
        PROVE  TypeOK'
    <2>1. post[r].expires \in Int /\ post[r].MaxGets \in Nat
      BY <1>0 DEF PostRecord
    <2>2. StoreTypeOK' /\ Len(posted) <= Len(posted') /\ Len(posted) \in Nat /\ Len(posted') \in Nat
      BY <1>4, <2>1, AddType DEF TypeOK, PostAdd
    <2>3. post' \in [Request -> PostRecord]
      BY <1>0, <1>4, <1>a DEF PostAdd
    <2>4. /\ took' \in [Conn -> 0..Len(posted')]
          /\ body' \in [Conn -> Zeroed..Len(posted')]
          /\ got' \in [Conn -> Zeroed..Len(posted')]
      BY <1>4, <2>2 DEF TypeOK, PostAdd, connVars, Zeroed
    <2> QED
      BY <1>4, <2>2, <2>3, <2>4, LimiterUnchanged DEF TypeOK, PostAdd, connVars, PostRecord
  <1> QED
    BY <1>1, <1>2, <1>3, <1>4 DEF Posting

\* Every step keeps types and slots.
LEMMA TypesAndSlotsStep ==
  ASSUME TypeOK, SlotsHeld, EntriesInv, AcceptedInv, [Next]_vars
  PROVE  TypeOK' /\ SlotsHeld'
  <1>0. now \in Nat /\ Unix(now) \in Nat
    BY TimeTypes, ConstantTypes DEF TypeOK
  <1>a. ASSUME UNCHANGED <<pc, sem>> PROVE SlotsHeld'
    BY <1>a DEF SlotsHeld, Active
  <1>b. ASSUME UNCHANGED connVars, posted' = posted
        PROVE  /\ pc' \in [Conn -> {"idle", "done"} \cup Waiting \cup Computing]
               /\ peer' \in [Conn -> Peers \cup {NoPeer}]
               /\ deadline' \in [Conn -> Nat]
               /\ DOMAIN offer' = Conn /\ \A c \in Conn : offer'[c].live \subseteq Prs
               /\ took' \in [Conn -> 0..Len(posted')]
               /\ body' \in [Conn -> Zeroed..Len(posted')]
               /\ got' \in [Conn -> Zeroed..Len(posted')]
               /\ sem' \in 0..MaxConns
    BY <1>b DEF TypeOK, connVars
  <1>1. ASSUME NEW c \in Conn, NEW p \in Peers, NEW serves \in BOOLEAN, Accept(c, p, serves)
        PROVE  TypeOK' /\ SlotsHeld'
    <2>1. peer' \in [Conn -> Peers \cup {NoPeer}] /\ StoreTypeOK' /\ LimiterTypeOK' /\ posted' = posted
      BY <1>1, StoreUnchanged, LimiterUnchanged DEF TypeOK, Accept
    <2>2. CASE Goto(c, "admit") /\ sem' = sem + 1 /\ sem < MaxConns
      <3>1. pc' \in [Conn -> {"idle", "done"} \cup Waiting \cup Computing]
        BY <2>2, GotoType DEF Computing
      <3>2. sem' \in 0..MaxConns
        BY <2>2, ConstantTypes DEF TypeOK
      <3>3. SlotsHeld'
        BY <1>1, <2>2, SlotTaken DEF Accept
      <3> QED
        BY <1>1, <2>1, <3>1, <3>2, <3>3 DEF TypeOK, Accept
    <2>3. CASE Goto(c, "done") /\ UNCHANGED sem
      <3>1. pc' \in [Conn -> {"idle", "done"} \cup Waiting \cup Computing]
        BY <2>3, GotoType
      <3>2. SlotsHeld'
        BY <1>1, <2>3, SlotKept DEF Accept, Active, Waiting, Computing
      <3> QED
        BY <1>1, <2>1, <2>3, <3>1, <3>2 DEF TypeOK, Accept
    <2> QED
      BY <1>1, <2>2, <2>3 DEF Accept
  <1>2. ASSUME NEW c \in Conn, Handler(c)
        PROVE  TypeOK' /\ SlotsHeld'
    BY <1>2, HandlerTypes
  <1>3. ASSUME NEW r \in Request, Posting(r)
        PROVE  TypeOK' /\ SlotsHeld'
    <2>1. UNCHANGED <<pc, sem>>
      BY <1>3 DEF Posting, PostBegin, PostBody, PostRefused, PostAdd, connVars
    <2> QED
      BY <1>3, <1>a, <2>1, PostTypes
  <1>4. CASE HandleList
    BY <1>0, <1>4, <1>a, <1>b, StoreUnchanged, LimiterUnchanged DEF TypeOK, HandleList, connVars
  <1>5. ASSUME NEW prs \in Prs, HandleDelete(prs)
        PROVE  TypeOK' /\ SlotsHeld'
    BY <1>0, <1>5, <1>a, <1>b, BurnAndDeleteType, LimiterUnchanged
    DEF TypeOK, HandleDelete, del, connVars
  <1>6. CASE HandleDeleteAll
    BY <1>0, <1>6, <1>a, <1>b, BurnAndDeleteType, LimiterUnchanged
    DEF TypeOK, HandleDeleteAll, clear, connVars
  <1>7. CASE SweepLoop
    <2> DEFINE Swept ==
                /\ UNCHANGED <<now, connVars, post, lastUsed, exited>>
                /\ StoreTypeOK' /\ LimiterTypeOK' /\ posted' = posted
                /\ sweeper' \in {"wait", "store", "limiter", "list", "idle", "returned"}
                /\ status' \in {"up", "idle", "interrupt"}
    <2>1. Swept
      <3>1. CASE Wake
        BY <3>1, StoreUnchanged, LimiterUnchanged DEF TypeOK, Wake, sweepStep
      <3>2. CASE Leave
        BY <3>2, StoreUnchanged, LimiterUnchanged DEF TypeOK, Leave, sweepStep
      <3>3. ASSUME NEW t \in Readings, SweepStore(t)
            PROVE  Swept
        BY <3>3, BurnAndDeleteType, LimiterUnchanged DEF TypeOK, SweepStore, storeSweep, sweepStep
      <3>4. ASSUME NEW t \in Readings, SweepLimiter(t)
            PROVE  Swept
        <4>1. t \in Nat
          BY <1>0, ReadingType
        <4> QED
          BY <3>4, <4>1, LimiterSweepType, StoreUnchanged DEF TypeOK, SweepLimiter, sweepStep
      <3>5. CASE CheckEmpty
        BY <3>5, StoreUnchanged, LimiterUnchanged DEF TypeOK, CheckEmpty, sweepStep
      <3>6. CASE CheckIdle
        BY <3>6, StoreUnchanged, LimiterUnchanged DEF TypeOK, CheckIdle, sweepStep
      <3> QED
        BY <1>7, <3>1, <3>2, <3>3, <3>4, <3>5, <3>6 DEF SweepLoop
    <2>2. SlotsHeld'
      BY <1>a, <2>1 DEF connVars
    <2> QED
      BY <1>b, <2>1, <2>2 DEF TypeOK
  <1>8. CASE Interrupt
    BY <1>8, <1>a, <1>b, StoreUnchanged, LimiterUnchanged DEF TypeOK, Interrupt, connVars
  <1>9. CASE Exit
    BY <1>9, <1>a, <1>b, StoreUnchanged, LimiterUnchanged DEF TypeOK, Exit, connVars
  <1>10. CASE Tick
    <2>1. now' \in 0..MaxTime
      BY <1>0, <1>10, ConstantTypes DEF Tick, ClockTick
    <2> QED
      BY <1>10, <1>a, <1>b, <2>1, StoreUnchanged, LimiterUnchanged DEF TypeOK, Tick, connVars
  <1>11. CASE UNCHANGED vars
    BY <1>11, <1>a, <1>b, StoreUnchanged, LimiterUnchanged DEF TypeOK, vars, connVars
  <1>12. CASE Terminated
    BY <1>11, <1>12 DEF Terminated
  <1> QED
    BY <1>1, <1>2, <1>3, <1>4, <1>5, <1>6, <1>7, <1>8, <1>9, <1>10, <1>11, <1>12 DEF Next

-----------------------------------------------------------------------------
\* Entries, counters and limits

TakersFinite(id) == IsFiniteSet(Takers(id)) /\ Cardinality(Takers(id)) \in Nat

LEMMA TakersAreFinite == \A id : TakersFinite(id)
  <1> SUFFICES ASSUME NEW id PROVE TakersFinite(id)
    OBVIOUS
  <1>1. Takers(id) \subseteq Conn
    BY DEF Takers
  <1> QED
    BY <1>1, FS_Subset, FS_CardinalityType, ConstantTypes DEF TakersFinite

\* Steps that leave the store and the takers alone.
LEMMA EntriesKept ==
  ASSUME EntriesInv, AtMostMaxGets, UNCHANGED <<m, posted, took>>,
         \A c \in Conn : pc'[c] \in BeforeTake => pc[c] \in BeforeTake
  PROVE  EntriesInv' /\ AtMostMaxGets'
  BY DEF EntriesInv, AtMostMaxGets, Takers, PasteIds

\* Steps that burn and delete entries.
LEMMA EntriesDeleted ==
  ASSUME EntriesInv, AtMostMaxGets, NEW S, burnAndDelete(S), UNCHANGED <<took, pc>>
  PROVE  EntriesInv' /\ AtMostMaxGets'
  BY DEF EntriesInv, AtMostMaxGets, Takers, PasteIds, burnAndDelete

\* A paste that has just been added has no takers.
LEMMA EntriesAdded ==
  ASSUME TypeOK, EntriesInv, AtMostMaxGets, NEW prs \in Prs, NEW expires \in Int,
         NEW maxGets \in Nat, add(prs, expires, maxGets), UNCHANGED <<took, pc>>
  PROVE  EntriesInv' /\ AtMostMaxGets'
  <1>1. CASE addError(prs) = "none"
    <2> DEFINE id == Len(posted) + 1
               p  == [id |-> id, ExpiresAt |-> expires, MaxGets |-> maxGets,
                      Gets |-> 0, Burned |-> FALSE]
               e  == [prs |-> prs, MaxGets |-> maxGets]
    <2>1. /\ m' = [q \in DOMAIN m \cup {prs} |-> IF q = prs THEN p ELSE m[q]]
          /\ posted' = Append(posted, e)
      BY <1>1 DEF add
    <2>2. posted \in Seq([prs : Prs, MaxGets : Nat]) /\ e \in [prs : Prs, MaxGets : Nat]
          /\ Len(posted) \in Nat
      BY DEF TypeOK, StoreTypeOK
    <2> HIDE DEF e
    <2>3. Len(posted') = id /\ posted'[id] = e /\ \A i \in 1..Len(posted) : posted'[i] = posted[i]
      BY <2>1, <2>2
    <2>4. p.id = id /\ p.MaxGets = maxGets /\ p.Gets = 0 /\ e.prs = prs /\ e.MaxGets = maxGets
      BY DEF e
    <2>5. \A i : Takers(i)' = Takers(i)
      BY DEF Takers
    <2>6. Takers(id) = {}
      BY <2>2 DEF TypeOK, Takers
    <2>7. Cardinality(Takers(id)) = 0
      BY <2>6, FS_EmptySet
    <2> HIDE DEF p
    <2>8. ASSUME NEW q \in DOMAIN m'
          PROVE  /\ m'[q].id \in 1..Len(posted')
                 /\ posted'[m'[q].id].prs = q
                 /\ posted'[m'[q].id].MaxGets = m'[q].MaxGets
                 /\ m'[q].Gets = Cardinality(Takers(m'[q].id))
                 /\ ~m'[q].Burned /\ m'[q].MaxGets > 0 => m'[q].Gets < m'[q].MaxGets
      <3>1. CASE q = prs
        BY <2>1, <2>2, <2>3, <2>4, <2>7, <2>8, <3>1
      <3>2. CASE q # prs
        <4>1. q \in DOMAIN m /\ m'[q] = m[q]
          BY <2>1, <2>8, <3>2
        <4>2. m[q].id \in 1..Len(posted)
          BY <4>1 DEF EntriesInv, PasteIds
        <4> QED
          BY <2>2, <2>3, <4>1, <4>2 DEF EntriesInv
      <3> QED
        BY <3>1, <3>2
    <2>9. AtMostMaxGets'
      <3> SUFFICES ASSUME NEW i \in 1..Len(posted'), posted'[i].MaxGets > 0
                   PROVE  Cardinality(Takers(i)) <= posted'[i].MaxGets
        BY <2>5 DEF AtMostMaxGets, PasteIds
      <3>1. CASE i = id
        BY <2>3, <2>4, <2>7, <3>1
      <3>2. CASE i \in 1..Len(posted)
        BY <2>3, <3>2 DEF AtMostMaxGets, PasteIds
      <3> QED
        BY <2>2, <2>3, <3>1, <3>2
    <2> QED
      BY <2>5, <2>8, <2>9 DEF EntriesInv, PasteIds
  <1>2. CASE addError(prs) # "none"
    BY <1>2, EntriesKept DEF add, storeVars
  <1> QED
    BY <1>1, <1>2

\* take adds one taker and one get, unless the limit has been reached.
LEMMA EntriesTaken ==
  ASSUME TypeOK, EntriesInv, AtMostMaxGets, NEW c \in Conn, Take(c)
  PROVE  EntriesInv' /\ AtMostMaxGets'
  <1> DEFINE prs == peer[c].prs
             id == m[prs].id
             T(i) == {d \in Conn : took'[d] = i}
  <1>0. pc[c] = "take" /\ took[c] = 0
    BY DEF Take, EntriesInv, BeforeTake
  <1>1. CASE Retrievable(prs, now)
    <2>1. /\ prs \in DOMAIN m /\ countGet(prs) /\ ~m[prs].Burned
          /\ took' = [took EXCEPT ![c] = id]
          /\ Goto(c, "seal")
      BY <1>1 DEF Take, take, Retrievable
    <2>2. /\ DOMAIN m' = DOMAIN m
          /\ \A q \in DOMAIN m \ {prs} : m'[q] = m[q]
          /\ m'[prs].id = id
          /\ m'[prs].MaxGets = m[prs].MaxGets
          /\ m'[prs].Gets = m[prs].Gets + 1
          /\ m'[prs].Burned = LastGet(m[prs])
          /\ posted' = posted
      BY <2>1, CountGetFacts DEF TypeOK
    <2>3. /\ id \in 1..Len(posted) /\ posted[id].prs = prs /\ posted[id].MaxGets = m[prs].MaxGets
          /\ m[prs].Gets = Cardinality(Takers(id))
          /\ m[prs].MaxGets > 0 => m[prs].Gets < m[prs].MaxGets
      BY <2>1 DEF EntriesInv, PasteIds
    <2>4. m[prs].Gets \in Nat /\ m[prs].MaxGets \in Nat
      BY <2>1 DEF TypeOK, StoreTypeOK, Paste
    <2>5. T(id) = Takers(id) \cup {c} /\ c \notin Takers(id)
      BY <1>0, <2>1, <2>3 DEF Takers, TypeOK
    <2>6. \A i : i # id /\ i # 0 => T(i) = Takers(i)
      BY <1>0, <2>1 DEF Takers, TypeOK
    <2>7. Cardinality(T(id)) = m[prs].Gets + 1
      <3>1. IsFiniteSet(Takers(id))
        BY TakersAreFinite DEF TakersFinite
      <3>2. Cardinality(Takers(id) \cup {c}) = Cardinality(Takers(id)) + 1
        BY <2>5, <3>1, FS_AddElement
      <3> QED
        BY <2>3, <2>5, <3>2
    <2>8. \A d \in Conn : pc'[d] \in BeforeTake => took'[d] = 0
      BY <2>1 DEF Goto, BeforeTake, TypeOK, EntriesInv
    <2> HIDE DEF id, prs, T
    <2>9. ASSUME NEW q \in DOMAIN m'
          PROVE  /\ m'[q].id \in 1..Len(posted')
                 /\ posted'[m'[q].id].prs = q
                 /\ posted'[m'[q].id].MaxGets = m'[q].MaxGets
                 /\ m'[q].Gets = Cardinality(T(m'[q].id))
                 /\ ~m'[q].Burned /\ m'[q].MaxGets > 0 => m'[q].Gets < m'[q].MaxGets
      <3>1. CASE q = prs
        <4>1. ~LastGet(m[prs]) /\ m[prs].MaxGets > 0 => m[prs].Gets + 1 < m[prs].MaxGets
          BY <2>4 DEF LastGet
        <4> QED
          BY <2>2, <2>3, <2>7, <3>1, <4>1
      <3>2. CASE q # prs
        <4>1. q \in DOMAIN m /\ m'[q] = m[q]
          BY <2>2, <2>9, <3>2
        <4>2. m[q].id \in 1..Len(posted) /\ posted[m[q].id].prs = q
          BY <4>1 DEF EntriesInv, PasteIds
        <4>3. m[q].id # id /\ m[q].id # 0
          BY <2>3, <3>2, <4>2
        <4> QED
          BY <2>2, <2>6, <4>1, <4>2, <4>3 DEF EntriesInv
      <3> QED
        BY <3>1, <3>2
    <2>10. ASSUME NEW i \in 1..Len(posted), posted[i].MaxGets > 0
           PROVE  Cardinality(T(i)) <= posted[i].MaxGets
      <3>1. CASE i = id
        BY <2>3, <2>4, <2>7, <2>10, <3>1
      <3>2. CASE i # id
        BY <2>6, <2>10, <3>2 DEF AtMostMaxGets, PasteIds
      <3> QED
        BY <3>1, <3>2
    <2> QED
      BY <2>2, <2>8, <2>9, <2>10 DEF EntriesInv, AtMostMaxGets, PasteIds, Takers, T
  <1>2. CASE ~Retrievable(prs, now)
    <2>1. UNCHANGED <<m, posted, took>> /\ Goto(c, "done")
      BY <1>2 DEF Take, take, storeVars, Return
    <2> QED
      BY <2>1, EntriesKept DEF Goto, BeforeTake, TypeOK
  <1> QED
    BY <1>1, <1>2

-----------------------------------------------------------------------------
\* Payloads

\* No two entries of the store are the same paste.
LEMMA IdsUnique ==
  ASSUME EntriesInv, NEW p \in DOMAIN m, NEW q \in DOMAIN m, m[p].id = m[q].id
  PROVE  p = q
  BY DEF EntriesInv

\* burn and delete erase exactly the payloads of the deleted entries.
LEMMA ResidueDeleted ==
  ASSUME EntriesInv, NoResidue, NEW S, burnAndDelete(S)
  PROVE  NoResidue'
  <1>1. DOMAIN m' = DOMAIN m \ S /\ \A q \in DOMAIN m \ S : m'[q] = m[q]
    BY DEF burnAndDelete
  <1>2. mem' = mem \ {m[q].id : q \in S \cap DOMAIN m}
    BY DEF burnAndDelete
  <1>3. ASSUME NEW i \in mem'
        PROVE  \E q \in DOMAIN m' : ~m'[q].Burned /\ m'[q].id = i
    <2>1. PICK q \in DOMAIN m : ~m[q].Burned /\ m[q].id = i
      BY <1>2, <1>3 DEF NoResidue
    <2>2. q \notin S
      BY <1>2, <1>3, <2>1
    <2> QED
      BY <1>1, <2>1, <2>2
  <1>4. ASSUME NEW q \in DOMAIN m', ~m'[q].Burned
        PROVE  m'[q].id \in mem'
    <2>1. q \in DOMAIN m /\ q \notin S /\ m'[q] = m[q] /\ m[q].id \in mem
      BY <1>1, <1>4 DEF NoResidue
    <2>2. \A x \in S \cap DOMAIN m : m[x].id # m[q].id
      BY <2>1, IdsUnique
    <2> QED
      BY <1>2, <2>1, <2>2
  <1> QED
    BY <1>3, <1>4 DEF NoResidue

LEMMA ResidueAdded ==
  ASSUME TypeOK, NoResidue, NEW prs \in Prs, NEW expires, NEW maxGets, add(prs, expires, maxGets)
  PROVE  NoResidue'
  <1>1. CASE addError(prs) = "none"
    <2> DEFINE id == Len(posted) + 1
               p  == [id |-> id, ExpiresAt |-> expires, MaxGets |-> maxGets,
                      Gets |-> 0, Burned |-> FALSE]
    <2>1. /\ m' = [q \in DOMAIN m \cup {prs} |-> IF q = prs THEN p ELSE m[q]]
          /\ mem' = mem \cup {id}
      BY <1>1 DEF add
    <2>2. prs \notin DOMAIN m
      BY <1>1 DEF addError
    <2>3. p.id = id /\ ~p.Burned
      OBVIOUS
    <2> HIDE DEF p, id
    <2>4. /\ DOMAIN m' = DOMAIN m \cup {prs} /\ m'[prs] = p
          /\ \A q \in DOMAIN m : m'[q] = m[q]
      BY <2>1, <2>2
    <2>5. \A i \in mem' : \E q \in DOMAIN m' : ~m'[q].Burned /\ m'[q].id = i
      BY <2>1, <2>3, <2>4 DEF NoResidue
    <2>6. \A q \in DOMAIN m' : ~m'[q].Burned => m'[q].id \in mem'
      BY <2>1, <2>3, <2>4 DEF NoResidue
    <2> QED
      BY <2>5, <2>6 DEF NoResidue
  <1>2. CASE addError(prs) # "none"
    BY <1>2 DEF add, storeVars, NoResidue
  <1> QED
    BY <1>1, <1>2

LEMMA ResidueTaken ==
  ASSUME TypeOK, EntriesInv, NoResidue, NEW prs, NEW t, take(prs, t)
  PROVE  NoResidue'
  <1>1. CASE Retrievable(prs, t)
    <2>1. prs \in DOMAIN m /\ ~m[prs].Burned /\ countGet(prs)
      BY <1>1 DEF take, Retrievable
    <2>2. /\ DOMAIN m' = DOMAIN m
          /\ \A q \in DOMAIN m \ {prs} : m'[q] = m[q]
          /\ m'[prs].id = m[prs].id
          /\ m'[prs].Burned = LastGet(m[prs])
          /\ mem' = IF LastGet(m[prs]) THEN mem \ {m[prs].id} ELSE mem
      BY <2>1, CountGetFacts DEF TypeOK
    <2>3. ASSUME NEW i \in mem'
          PROVE  \E q \in DOMAIN m' : ~m'[q].Burned /\ m'[q].id = i
      <3>1. PICK q \in DOMAIN m : ~m[q].Burned /\ m[q].id = i
        BY <2>2, <2>3 DEF NoResidue
      <3> QED
        BY <2>2, <2>3, <3>1
    <2>4. ASSUME NEW q \in DOMAIN m', ~m'[q].Burned
          PROVE  m'[q].id \in mem'
      <3>1. CASE q = prs
        BY <2>1, <2>2, <2>4, <3>1 DEF NoResidue
      <3>2. CASE q # prs
        <4>1. q \in DOMAIN m /\ m'[q] = m[q] /\ m[q].id \in mem
          BY <2>2, <2>4, <3>2 DEF NoResidue
        <4>2. m[q].id # m[prs].id
          BY <2>1, <3>2, <4>1, IdsUnique
        <4> QED
          BY <2>2, <4>1, <4>2
      <3> QED
        BY <3>1, <3>2
    <2> QED
      BY <2>3, <2>4 DEF NoResidue
  <1>2. CASE ~Retrievable(prs, t)
    BY <1>2 DEF take, storeVars, NoResidue
  <1> QED
    BY <1>1, <1>2

\* What PayloadInv says of one connection.
Delivery(c) ==
    /\ took[c] # 0 => posted[took[c]].prs = peer[c].prs
    /\ pc[c] \in {"seal", "send"} => took[c] # 0 /\ body[c] = took[c]
    /\ pc[c] \in BeforeTake => got[c] = 0
    /\ got[c] # 0 => got[c] = took[c]

\* A handler changes nothing of the other connections.
LEMMA OtherDeliveries ==
  ASSUME TypeOK, PayloadInv, NEW c \in Conn, Handler(c), NEW d \in Conn \ {c}
  PROVE  Delivery(d)' /\ pc'[d] = pc[d] /\ peer'[d] = peer[d]
  <1>1. posted' = posted /\ peer' = peer
    BY TakeType
    DEF Handler, AllowPeer, ReadHello, AllowExchange, BuildOffer, WriteOffer, Confirm,
        FailConfirmation, Take, Seal, WriteBody, Disconnect, DeadlineExpires, storeVars, TypeOK
  <1>2. pc'[d] = pc[d]
    BY DEF Handler, AllowPeer, ReadHello, AllowExchange, BuildOffer, WriteOffer, Confirm,
        FailConfirmation, Take, Seal, WriteBody, Disconnect, DeadlineExpires, Proceed, Return, Goto, TypeOK
  <1>3. took'[d] = took[d] /\ got'[d] = got[d]
    BY DEF Handler, AllowPeer, ReadHello, AllowExchange, BuildOffer, WriteOffer, Confirm,
        FailConfirmation, Take, Seal, WriteBody, Disconnect, DeadlineExpires, TypeOK
  <1>4. body'[d] = body[d]
    BY DEF Handler, AllowPeer, ReadHello, AllowExchange, BuildOffer, WriteOffer, Confirm,
        FailConfirmation, Take, Seal, WriteBody, Disconnect, DeadlineExpires, Return, TypeOK
  <1> QED
    BY <1>1, <1>2, <1>3, <1>4 DEF PayloadInv, Delivery

\* A handler's own delivery, and what the other parts of Inv need to know of a
\* handler's step.
LEMMA OwnDelivery ==
  ASSUME Inv, NEW c \in Conn, Handler(c)
  PROVE  /\ Delivery(c)'
         /\ peer' = peer
         /\ pc'[c] \in BeforeTake => pc[c] \in BeforeTake
         /\ pc[c] \in Waiting \cup Computing
         /\ Take(c) \/ UNCHANGED <<storeVars, took>>
  <1> DEFINE Goal == /\ Delivery(c)'
                     /\ peer' = peer
                     /\ pc'[c] \in BeforeTake => pc[c] \in BeforeTake
                     /\ pc[c] \in Waiting \cup Computing
                     /\ Take(c) \/ UNCHANGED <<storeVars, took>>
             Quiet == UNCHANGED storeVars /\ UNCHANGED took /\ UNCHANGED got /\ UNCHANGED peer
  <1>0. Delivery(c) /\ TypeOK
    BY DEF Inv, PayloadInv, Delivery
  <1>1. ASSUME Return(c), Quiet, pc[c] \in Waiting \cup Computing
        PROVE  Goal
    BY <1>0, <1>1 DEF Return, Goto, Delivery, TypeOK, storeVars, BeforeTake
  <1>2. ASSUME NEW to, Goto(c, to), Quiet, pc[c] \in Waiting \cup Computing, pc[c] \in BeforeTake,
               to \in BeforeTake
        PROVE  Goal
    BY <1>0, <1>2 DEF Goto, Delivery, TypeOK, storeVars, BeforeTake
  <1>3. ASSUME NEW t \in Readings, AllowPeer(c, t) PROVE Goal
    <2>1. pc[c] = "admit" /\ Quiet /\ (Return(c) \/ Goto(c, "hello"))
      BY <1>3 DEF AllowPeer
    <2> QED
      BY <1>1, <1>2, <2>1 DEF BeforeTake, Waiting, Computing
  <1>4. CASE ReadHello(c)
    <2>1. pc[c] = "hello" /\ Quiet /\ Goto(c, "charge")
      BY <1>4 DEF ReadHello, Proceed
    <2> QED
      BY <1>2, <2>1 DEF BeforeTake, Waiting, Computing
  <1>5. ASSUME NEW t \in Readings, AllowExchange(c, t) PROVE Goal
    <2>1. pc[c] = "charge" /\ Quiet /\ (Return(c) \/ Goto(c, "offer"))
      BY <1>5 DEF AllowExchange
    <2> QED
      BY <1>1, <1>2, <2>1 DEF BeforeTake, Waiting, Computing
  <1>6. CASE BuildOffer(c)
    <2>1. pc[c] = "offer" /\ Quiet /\ (Return(c) \/ Goto(c, "write"))
      BY <1>6 DEF BuildOffer
    <2> QED
      BY <1>1, <1>2, <2>1 DEF BeforeTake, Waiting, Computing
  <1>7. CASE WriteOffer(c)
    <2>1. pc[c] = "write" /\ Quiet /\ Goto(c, "tag")
      BY <1>7 DEF WriteOffer, Proceed
    <2> QED
      BY <1>2, <2>1 DEF BeforeTake, Waiting, Computing
  <1>8. CASE Confirm(c)
    <2>1. pc[c] = "tag" /\ Quiet /\ Goto(c, "take")
      BY <1>8 DEF Confirm, Proceed
    <2> QED
      BY <1>2, <2>1 DEF BeforeTake, Waiting, Computing
  <1>9. ASSUME NEW t \in Readings, FailConfirmation(c, t) PROVE Goal
    <2>1. pc[c] = "tag" /\ Quiet /\ Return(c)
      BY <1>9 DEF FailConfirmation
    <2> QED
      BY <1>1, <2>1 DEF Waiting, Computing
  <1>10. CASE Take(c)
    <2> DEFINE prs == peer[c].prs
    <2>1. pc[c] = "take" /\ got[c] = 0 /\ got' = got /\ peer' = peer /\ posted' = posted
      BY <1>0, <1>10, TakeType DEF Take, Delivery, BeforeTake, TypeOK
    <2>2. CASE Retrievable(prs, now)
      <3>1. /\ Goto(c, "seal")
            /\ took' = [took EXCEPT ![c] = m[prs].id]
            /\ body' = [body EXCEPT ![c] = copied(prs)]
        BY <1>10, <2>2 DEF Take
      <3>2. m[prs].id \in 1..Len(posted) /\ posted[m[prs].id].prs = prs
        BY <2>2 DEF Retrievable, Inv, EntriesInv, PasteIds
      <3>3. m[prs].id \in mem
        BY <2>2 DEF Retrievable, Inv, PayloadInv, NoResidue
      <3>4. took'[c] = m[prs].id /\ body'[c] = m[prs].id /\ m[prs].id # 0
        BY <1>0, <3>1, <3>2, <3>3 DEF copied, TypeOK
      <3>5. pc'[c] = "seal"
        BY <1>0, <3>1 DEF Goto, TypeOK
      <3>6. Delivery(c)'
        BY <2>1, <3>2, <3>4, <3>5 DEF Delivery, BeforeTake
      <3> QED
        BY <1>10, <2>1, <3>5, <3>6 DEF BeforeTake, Computing
    <2>3. CASE ~Retrievable(prs, now)
      <3>1. Return(c) /\ Quiet
        BY <1>10, <2>3 DEF Take, take, storeVars
      <3> QED
        BY <1>1, <2>1, <3>1 DEF Computing
    <2> QED
      BY <2>2, <2>3
  <1>11. CASE Seal(c)
    <2>1. pc[c] = "seal" /\ Quiet /\ body' = body /\ Goto(c, "send")
      BY <1>11 DEF Seal
    <2> QED
      BY <1>0, <2>1 DEF Goto, Delivery, TypeOK, storeVars, BeforeTake, Computing
  <1>12. CASE WriteBody(c)
    <2>1. pc[c] = "send" /\ Return(c) /\ got' = [got EXCEPT ![c] = body[c]]
          /\ UNCHANGED storeVars /\ UNCHANGED took /\ UNCHANGED peer
      BY <1>12 DEF WriteBody
    <2>2. got'[c] = took[c] /\ pc'[c] = "done"
      BY <1>0, <2>1 DEF Delivery, TypeOK, Return, Goto
    <2> QED
      BY <1>0, <2>1, <2>2 DEF Delivery, storeVars, BeforeTake, Waiting
  <1>13. CASE Disconnect(c)
    <2>1. pc[c] \in Waiting /\ Quiet /\ Return(c)
      BY <1>13 DEF Disconnect
    <2> QED
      BY <1>1, <2>1
  <1> QED
    BY <1>3, <1>4, <1>5, <1>6, <1>7, <1>8, <1>9, <1>10, <1>11, <1>12, <1>13
    DEF Handler, DeadlineExpires

\* A handler's step keeps the rest of the invariant.
LEMMA HandlerKeeps ==
  ASSUME Inv, NEW c \in Conn, Handler(c)
  PROVE  AcceptedInv' /\ EntriesInv' /\ AtMostMaxGets' /\ PayloadInv'
  <1>0. /\ Delivery(c)' /\ peer' = peer
        /\ pc'[c] \in BeforeTake => pc[c] \in BeforeTake
        /\ pc[c] \in Waiting \cup Computing
        /\ Take(c) \/ UNCHANGED <<storeVars, took>>
    BY OwnDelivery
  <1>1. \A d \in Conn \ {c} : Delivery(d)' /\ pc'[d] = pc[d]
    BY OtherDeliveries DEF Inv
  <1>2. AcceptedInv'
    BY <1>0, <1>1 DEF Inv, AcceptedInv
  <1>3. EntriesInv' /\ AtMostMaxGets' /\ NoResidue'
    <2>1. CASE Take(c)
      BY <2>1, EntriesTaken, ResidueTaken DEF Inv, PayloadInv, Take
    <2>2. CASE UNCHANGED <<storeVars, took>>
      <3>1. UNCHANGED <<m, mem, posted, took>>
        BY <2>2 DEF storeVars
      <3>2. NoResidue'
        BY <3>1 DEF Inv, PayloadInv, NoResidue
      <3> QED
        BY <1>0, <1>1, <3>1, <3>2, EntriesKept DEF Inv
    <2> QED
      BY <1>0, <2>1, <2>2
  <1> QED
    BY <1>0, <1>1, <1>2, <1>3 DEF PayloadInv, Delivery

\* Steps of the rest of the daemon, in which no connection takes part.
LEMMA OthersKeep ==
  ASSUME Inv, UNCHANGED connVars,
         \/ UNCHANGED storeVars
         \/ \E S : burnAndDelete(S)
         \/ \E prs \in Prs, expires \in Int, maxGets \in Nat : add(prs, expires, maxGets)
  PROVE  AcceptedInv' /\ EntriesInv' /\ AtMostMaxGets' /\ PayloadInv'
  <1>0. UNCHANGED <<pc, peer, took, body, got>>
    BY DEF connVars
  <1>1. AcceptedInv'
    BY <1>0 DEF Inv, AcceptedInv
  <1>2. ASSUME \A i \in PasteIds : posted'[i] = posted[i]
        PROVE  \A c \in Conn : Delivery(c)'
    BY <1>0, <1>2 DEF Inv, PayloadInv, Delivery, TypeOK, PasteIds
  <1>3. CASE UNCHANGED storeVars
    <2>1. UNCHANGED <<m, mem, posted>>
      BY <1>3 DEF storeVars
    <2>2. EntriesInv' /\ AtMostMaxGets'
      BY <1>0, <2>1, EntriesKept DEF Inv
    <2>3. NoResidue'
      BY <2>1 DEF Inv, PayloadInv, NoResidue
    <2> QED
      BY <1>1, <1>2, <2>1, <2>2, <2>3 DEF PayloadInv, Delivery
  <1>4. ASSUME NEW S, burnAndDelete(S)
        PROVE  EntriesInv' /\ AtMostMaxGets' /\ PayloadInv'
    <2>1. posted' = posted
      BY <1>4 DEF burnAndDelete
    <2>2. EntriesInv' /\ AtMostMaxGets'
      BY <1>0, <1>4, EntriesDeleted DEF Inv
    <2>3. NoResidue'
      BY <1>4, ResidueDeleted DEF Inv, PayloadInv
    <2> QED
      BY <1>2, <2>1, <2>2, <2>3 DEF PayloadInv, Delivery
  <1>5. ASSUME NEW prs \in Prs, NEW expires \in Int, NEW maxGets \in Nat, add(prs, expires, maxGets)
        PROVE  EntriesInv' /\ AtMostMaxGets' /\ PayloadInv'
    <2>1. \A i \in PasteIds : posted'[i] = posted[i]
      BY <1>5 DEF add, storeVars, PasteIds, Inv, TypeOK, StoreTypeOK
    <2>2. EntriesInv' /\ AtMostMaxGets'
      BY <1>0, <1>5, EntriesAdded DEF Inv
    <2>3. NoResidue'
      BY <1>5, ResidueAdded DEF Inv, PayloadInv
    <2> QED
      BY <1>2, <2>1, <2>2, <2>3 DEF PayloadInv, Delivery
  <1> QED
    BY <1>1, <1>3, <1>4, <1>5

\* serveData accepts a connection: it has taken nothing yet.
LEMMA AcceptKeeps ==
  ASSUME Inv, NEW c \in Conn, NEW p \in Peers, NEW serves \in BOOLEAN, Accept(c, p, serves)
  PROVE  AcceptedInv' /\ EntriesInv' /\ AtMostMaxGets' /\ PayloadInv'
  <1>1. /\ UNCHANGED <<m, mem, posted, took, body, got>>
        /\ pc[c] = "idle"
        /\ peer' = [peer EXCEPT ![c] = p]
        /\ \E label \in {"admit", "done"} : Goto(c, label)
    BY DEF Accept, storeVars
  <1>2. took[c] = 0 /\ got[c] = 0
    BY <1>1 DEF Inv, EntriesInv, PayloadInv, BeforeTake
  <1>3. /\ pc'[c] \in {"admit", "done"} /\ peer'[c] = p
        /\ \A d \in Conn \ {c} : pc'[d] = pc[d] /\ peer'[d] = peer[d]
    BY <1>1 DEF Goto, Inv, TypeOK
  <1>4. AcceptedInv'
    BY <1>3 DEF Inv, AcceptedInv
  <1>5. \A d \in Conn : pc'[d] \in BeforeTake => pc[d] \in BeforeTake
    BY <1>1, <1>3 DEF BeforeTake
  <1>6. EntriesInv' /\ AtMostMaxGets'
    BY <1>1, <1>5, EntriesKept DEF Inv
  <1>7. NoResidue'
    BY <1>1 DEF Inv, PayloadInv, NoResidue
  <1>8. \A d \in Conn : Delivery(d)'
    BY <1>1, <1>2, <1>3 DEF Inv, PayloadInv, Delivery, BeforeTake
  <1> QED
    BY <1>4, <1>6, <1>7, <1>8 DEF PayloadInv, Delivery

-----------------------------------------------------------------------------
\* The invariant

LEMMA InvInit == Init => Inv
  <1> SUFFICES ASSUME Init PROVE Inv
    OBVIOUS
  <1>0. now = 0 /\ 0 \in Nat /\ Unix(now) \in Nat
    BY TimeTypes DEF Init, ClockInit
  <1>1. m = [prs \in {} |-> 0] /\ mem = {} /\ posted = <<>> /\ Len(posted) = 0 /\ DOMAIN m = {}
    BY DEF Init, StoreInit
  <1>2. StoreTypeOK
    BY <1>1 DEF StoreTypeOK, PasteIds
  <1>3. LimiterTypeOK
    BY ConstantTypes DEF Init, LimiterInit, LimiterTypeOK, Bucket, EmptyBucket, Never
  <1>4. pc = [c \in Conn |-> "idle"] /\ took = [c \in Conn |-> 0] /\ got = [c \in Conn |-> 0] /\ sem = 0
    BY DEF Init
  <1>5. TypeOK
    <2>1. now \in 0..MaxTime /\ sem \in 0..MaxConns
      BY <1>0, <1>4, ConstantTypes
    <2>2. /\ took \in [Conn -> 0..Len(posted)]
          /\ got \in [Conn -> Zeroed..Len(posted)]
      BY <1>1, <1>4 DEF Zeroed
    <2>3. body \in [Conn -> Zeroed..Len(posted)]
      BY <1>1 DEF Init, Zeroed
    <2>4. DOMAIN offer = Conn /\ \A c \in Conn : offer[c].live \subseteq Prs
      BY DEF Init, NoOffer
    <2>5. peer \in [Conn -> Peers \cup {NoPeer}] /\ deadline \in [Conn -> Nat]
      BY DEF Init
    <2>6. pc \in [Conn -> {"idle", "done"} \cup Waiting \cup Computing]
      BY <1>4
    <2>7. post \in [Request -> PostRecord]
      <3>1. [at |-> "idle", begun |-> 0, MaxGets |-> 0, expires |-> 0] \in PostRecord
        BY DEF PostRecord
      <3> QED
        BY <3>1 DEF Init
    <2>8. /\ lastUsed \in Nat /\ exited \in BOOLEAN
          /\ sweeper \in {"wait", "store", "limiter", "list", "idle", "returned"}
          /\ status \in {"up", "idle", "interrupt"}
      BY <1>0 DEF Init
    <2> QED
      BY <1>2, <1>3, <2>1, <2>2, <2>3, <2>4, <2>5, <2>6, <2>7, <2>8 DEF TypeOK, PostRecord
  <1>6. Active = {}
    BY <1>4 DEF Active, Waiting, Computing
  <1>7. SlotsHeld
    BY <1>4, <1>6, FS_EmptySet DEF SlotsHeld
  <1>8. AcceptedInv
    BY <1>6 DEF AcceptedInv, Active
  <1>9. EntriesInv /\ AtMostMaxGets
    BY <1>1, <1>4 DEF EntriesInv, AtMostMaxGets, PasteIds
  <1>10. PayloadInv
    BY <1>1, <1>4 DEF PayloadInv, NoResidue
  <1> QED
    BY <1>5, <1>7, <1>8, <1>9, <1>10 DEF Inv

LEMMA InvStep == Inv /\ [Next]_vars => Inv'
  <1> SUFFICES ASSUME Inv, [Next]_vars PROVE Inv'
    OBVIOUS
  <1> DEFINE Rest == AcceptedInv' /\ EntriesInv' /\ AtMostMaxGets' /\ PayloadInv'
  <1>0. TypeOK' /\ SlotsHeld'
    BY TypesAndSlotsStep DEF Inv
  <1> SUFFICES Rest
    BY <1>0 DEF Inv
  <1>1. ASSUME NEW c \in Conn, NEW p \in Peers, NEW serves \in BOOLEAN, Accept(c, p, serves)
        PROVE  Rest
    BY <1>1, AcceptKeeps
  <1>2. ASSUME NEW c \in Conn, Handler(c) PROVE Rest
    BY <1>2, HandlerKeeps
  <1>3. ASSUME NEW r \in Request, Posting(r) PROVE Rest
    <2>1. CASE PostBegin(r) \/ PostRefused(r)
               \/ \E ttl \in Ttls, maxGets \in GetLimits : PostBody(r, ttl, maxGets)
      <3>1. UNCHANGED storeVars /\ UNCHANGED connVars
        BY <2>1 DEF PostBegin, PostRefused, PostBody
      <3> QED
        BY <3>1, OthersKeep
    <2>2. ASSUME NEW prs \in Prs, PostAdd(r, prs) PROVE Rest
      <3>1. add(prs, post[r].expires, post[r].MaxGets) /\ UNCHANGED connVars
        BY <2>2 DEF PostAdd
      <3>2. post[r].expires \in Int /\ post[r].MaxGets \in Nat
        BY DEF Inv, TypeOK
      <3> QED
        BY <3>1, <3>2, OthersKeep
    <2> QED
      BY <1>3, <2>1, <2>2 DEF Posting
  <1>4. CASE HandleList \/ Interrupt \/ Exit \/ Tick \/ Terminated \/ UNCHANGED vars
    <2>1. UNCHANGED storeVars /\ UNCHANGED connVars
      BY <1>4 DEF HandleList, Interrupt, Exit, Tick, Terminated, vars
    <2> QED
      BY <2>1, OthersKeep
  <1>5. CASE HandleDeleteAll \/ \E prs \in Prs : HandleDelete(prs)
    <2>1. UNCHANGED connVars /\ \E S : burnAndDelete(S)
      BY <1>5 DEF HandleDeleteAll, HandleDelete, del, clear
    <2> QED
      BY <2>1, OthersKeep
  <1>6. CASE SweepLoop
    <2>1. UNCHANGED connVars
      BY <1>6 DEF SweepLoop, Wake, Leave, SweepStore, SweepLimiter, CheckEmpty, CheckIdle, sweepStep
    <2>2. UNCHANGED storeVars \/ \E S : burnAndDelete(S)
      BY <1>6 DEF SweepLoop, Wake, Leave, SweepStore, SweepLimiter, CheckEmpty, CheckIdle, storeSweep
    <2> QED
      BY <2>1, <2>2, OthersKeep
  <1> QED
    BY <1>1, <1>2, <1>3, <1>4, <1>5, <1>6 DEF Next

\* The invariant that carries every theorem below.
LEMMA Invariance == Spec => []Inv
  BY InvInit, InvStep, PTL DEF Spec

(***************************************************************************)
(* Every variable of the daemon keeps its type (Daemon, Store, Limiter);   *)
(* in particular the semaphore never exceeds maxConns.                     *)
(***************************************************************************)
THEOREM TypeCorrect == Spec => []TypeOK
  <1>1. Inv => TypeOK
    BY DEF Inv
  <1> QED
    BY Invariance, <1>1, PTL

(***************************************************************************)
(* Every path out of handshake gives the connection's slot back, for any   *)
(* number of connections and slots (serveData's deferred function).        *)
(***************************************************************************)
THEOREM SlotsAccounted == Spec => []SlotsHeld
  <1>1. Inv => SlotsHeld
    BY DEF Inv
  <1> QED
    BY Invariance, <1>1, PTL

(***************************************************************************)
(* However many handshakes race for a paste, it is handed out at most      *)
(* max_gets times (take).                                                  *)
(***************************************************************************)
THEOREM GetsLimited == Spec => []AtMostMaxGets
  <1>1. Inv => AtMostMaxGets
    BY DEF Inv
  <1> QED
    BY Invariance, <1>1, PTL

(***************************************************************************)
(* The get counter of an entry counts the handlers that took it, and       *)
(* nothing else (take, handshake).                                         *)
(***************************************************************************)
THEOREM GetsCounted == Spec => []GetsAreTakers
  <1>1. Inv => GetsAreTakers
    BY DEF Inv, EntriesInv, GetsAreTakers
  <1> QED
    BY Invariance, <1>1, PTL

(***************************************************************************)
(* A client receives the payload of the paste its handler took, unharmed   *)
(* by a concurrent burn, delete or sweep, and posted under the secret the  *)
(* client holds (take, burn, handshake).                                   *)
(***************************************************************************)
THEOREM PayloadIntact == Spec => []RightBody
  <1>1. Inv => RightBody
    BY DEF Inv, PayloadInv, RightBody
  <1> QED
    BY Invariance, <1>1, PTL

(***************************************************************************)
(* Erased pastes leave nothing behind in the store, and live ones are      *)
(* never erased (burn, del, clear, sweep).                                 *)
(***************************************************************************)
THEOREM NothingLeftBehind == Spec => []NoResidue
  <1>1. Inv => NoResidue
    BY DEF Inv, PayloadInv
  <1> QED
    BY Invariance, <1>1, PTL

-----------------------------------------------------------------------------
\* The service the daemon implements

\* What is known of a connection that has not arrived and of a request being read.
RequestInv ==
    /\ \A c \in Conn : pc[c] = "idle" => peer[c] = NoPeer
    /\ \A r \in Request : post[r].at = "add" => post[r].MaxGets \in GetLimits
    /\ IsFiniteSet(DOMAIN m)

-----------------------------------------------------------------------------
\* What steps do to the variables the service and the sweep loop look at

\* A handler ends, or goes on to its next label.
LEMMA HandlerFrame ==
  ASSUME Inv, NEW c \in Conn, Handler(c)
  PROVE  /\ peer' = peer
         /\ Take(c) \/ UNCHANGED <<storeVars, took>>
         /\ UNCHANGED <<now, post, sweeper, status, exited>>
         /\ lastUsed' = lastUsed \/ lastUsed' = Unix(now)
         /\ ~exited
         /\ \A x \in Conn : pc'[x] = "idle" => pc[x] = "idle"
  <1>1. peer' = peer /\ (Take(c) \/ UNCHANGED <<storeVars, took>>)
    BY OwnDelivery
  <1>2. /\ UNCHANGED <<now, post, sweeper, status, exited>> /\ ~exited
        /\ lastUsed' = lastUsed \/ lastUsed' = Unix(now)
    BY DEF Handler, AllowPeer, ReadHello, AllowExchange, BuildOffer, WriteOffer, Confirm,
           FailConfirmation, Take, Seal, WriteBody, Disconnect, DeadlineExpires, Proceed
  <1>3. \E label \in {"hello", "charge", "offer", "write", "tag", "take", "seal", "send", "done"} :
            Goto(c, label)
    BY DEF Handler, AllowPeer, ReadHello, AllowExchange, BuildOffer, WriteOffer, Confirm,
           FailConfirmation, Take, Seal, WriteBody, Disconnect, DeadlineExpires, Proceed, Return
  <1>4. \A x \in Conn : pc'[x] = "idle" => pc[x] = "idle"
    BY <1>3 DEF Goto, Inv, TypeOK
  <1> QED
    BY <1>1, <1>2, <1>4

LEMMA PostingFrame ==
  ASSUME Inv, NEW r \in Request, Posting(r)
  PROVE  /\ UNCHANGED <<now, connVars, sweeper, status, exited>> /\ ~exited
         /\ lastUsed' = lastUsed \/ lastUsed' = Unix(now)
         /\ UNCHANGED storeVars \/ \E prs \in Prs : PostAdd(r, prs)
         /\ \A x \in Request \ {r} : post'[x] = post[x]
         /\ post'[r].at = "body" =>
                \/ post'[r].begun = now /\ lastUsed' = Unix(now)
                \/ post[r].at = "body" /\ post'[r].begun = post[r].begun
         /\ post'[r].at = "add" =>
                /\ post[r].at \in {"body", "add"} /\ post'[r].begun = post[r].begun
                /\ post'[r].MaxGets \in GetLimits \/ (post[r].at = "add" /\ post'[r] = post[r])
  <1>1. post \in [Request -> [at : {"idle", "body", "add", "done"}, begun : Nat,
                             MaxGets : Nat, expires : Int]]
    BY DEF Inv, TypeOK
  <1>2. CASE PostBegin(r)
    BY <1>1, <1>2 DEF PostBegin, arriving
  <1>3. ASSUME NEW ttl \in Ttls, NEW maxGets \in GetLimits, PostBody(r, ttl, maxGets)
        PROVE  post'[r].at = "add" /\ post'[r].begun = post[r].begun /\ post'[r].MaxGets = maxGets
               /\ \A x \in Request \ {r} : post'[x] = post[x]
    <2> DEFINE x == [post[r] EXCEPT !.at = "add"]
               y == [x EXCEPT !.MaxGets = maxGets]
               z == [y EXCEPT !.expires = Round(now + ttl)]
    <2>1. post' = [post EXCEPT ![r] = z]
      BY <1>3 DEF PostBody
    <2>2. post'[r] = z /\ \A q \in Request \ {r} : post'[q] = post[q]
      BY <1>1, <2>1
    <2>3. DOMAIN post[r] = {"at", "begun", "MaxGets", "expires"}
      BY <1>1
    <2>4. z.at = "add" /\ z.begun = post[r].begun /\ z.MaxGets = maxGets
      BY <2>3
    <2> QED
      BY <2>2, <2>4
  <1>4. CASE PostRefused(r)
    BY <1>1, <1>4 DEF PostRefused
  <1>5. ASSUME NEW prs \in Prs, PostAdd(r, prs)
        PROVE  post' = post \/ (post'[r].at = "done" /\ \A x \in Request \ {r} : post'[x] = post[x])
    BY <1>1, <1>5 DEF PostAdd
  <1> QED
    BY <1>2, <1>3, <1>4, <1>5 DEF Posting, PostBody, PostAdd, PostRefused, PostBegin

LEMMA SweepFrame ==
  ASSUME SweepLoop
  PROVE  /\ ~exited /\ UNCHANGED <<now, connVars, post, lastUsed, exited>>
         /\ UNCHANGED storeVars \/ \E S : burnAndDelete(S)
  BY DEF SweepLoop, Wake, Leave, SweepStore, SweepLimiter, CheckEmpty, CheckIdle, sweepStep,
         storeSweep
\* The three kinds of step that leave connections and requests as they are.
LEMMA ControlFrame ==
  ASSUME HandleList \/ HandleDeleteAll \/ (\E prs \in Prs : HandleDelete(prs))
         \/ SweepLoop \/ Interrupt \/ Exit \/ Tick \/ Terminated \/ UNCHANGED vars
  PROVE  /\ UNCHANGED <<connVars, post>>
         /\ UNCHANGED storeVars \/ \E S : burnAndDelete(S)
  <1>1. CASE SweepLoop
    BY <1>1, SweepFrame
  <1>2. CASE HandleDeleteAll \/ \E prs \in Prs : HandleDelete(prs)
    BY <1>2 DEF HandleDeleteAll, HandleDelete, del, clear
  <1>3. CASE HandleList \/ Interrupt \/ Exit \/ Tick \/ Terminated \/ UNCHANGED vars
    BY <1>3 DEF HandleList, Interrupt, Exit, Tick, Terminated, vars
  <1> QED
    BY <1>1, <1>2, <1>3

LEMMA RequestInvInit == Init => RequestInv
  <1> SUFFICES ASSUME Init PROVE RequestInv
    OBVIOUS
  <1>1. DOMAIN m = {}
    BY DEF Init, StoreInit
  <1>2. IsFiniteSet(DOMAIN m)
    BY <1>1, FS_EmptySet
  <1> QED
    BY <1>2 DEF Init, RequestInv

LEMMA RequestInvStep == Inv /\ RequestInv /\ [Next]_vars => RequestInv'
  <1> SUFFICES ASSUME Inv, RequestInv, [Next]_vars PROVE RequestInv'
    OBVIOUS
  <1>1. ASSUME NEW c \in Conn, NEW p \in Peers, NEW serves \in BOOLEAN, Accept(c, p, serves)
        PROVE  RequestInv'
    <2>1. UNCHANGED <<storeVars, post>> /\ peer' = [peer EXCEPT ![c] = p]
          /\ \E label \in {"admit", "done"} : Goto(c, label)
      BY <1>1 DEF Accept
    <2>2. \A x \in Conn : pc'[x] = "idle" => x # c /\ pc[x] = "idle"
      BY <2>1 DEF Goto, Inv, TypeOK
    <2>3. \A x \in Conn \ {c} : peer'[x] = peer[x]
      BY <2>1 DEF Inv, TypeOK
    <2>4. m' = m
      BY <2>1 DEF storeVars
    <2> QED
      BY <2>1, <2>2, <2>3, <2>4 DEF RequestInv
  <1>2. ASSUME NEW c \in Conn, Handler(c)
        PROVE  RequestInv'
    <2>1. IsFiniteSet(DOMAIN m')
      BY <1>2, HandlerFrame, DomainFinite DEF Take, RequestInv
    <2> QED
      BY <1>2, <2>1, HandlerFrame DEF RequestInv
  <1>3. ASSUME NEW r \in Request, Posting(r)
        PROVE  RequestInv'
    <2>1. IsFiniteSet(DOMAIN m')
      BY <1>3, PostingFrame, DomainFinite DEF PostAdd, RequestInv
    <2>2. UNCHANGED <<pc, peer>>
      BY <1>3, PostingFrame DEF connVars
    <2>3. \A x \in Request : post'[x].at = "add" => post'[x].MaxGets \in GetLimits
      BY <1>3, PostingFrame DEF RequestInv
    <2> QED
      BY <2>1, <2>2, <2>3 DEF RequestInv
  <1>4. ASSUME HandleList \/ HandleDeleteAll \/ (\E prs \in Prs : HandleDelete(prs))
               \/ SweepLoop \/ Interrupt \/ Exit \/ Tick \/ Terminated \/ UNCHANGED vars
        PROVE  RequestInv'
    <2>1. UNCHANGED <<connVars, post>> /\ (UNCHANGED storeVars \/ \E S : burnAndDelete(S))
      BY <1>4, ControlFrame
    <2>2. IsFiniteSet(DOMAIN m')
      BY <2>1, DomainFinite DEF RequestInv
    <2> QED
      BY <2>1, <2>2 DEF RequestInv, connVars
  <1> QED
    BY <1>1, <1>2, <1>3, <1>4 DEF Next

LEMMA RequestInvariance == Spec => [](Inv /\ RequestInv)
  BY Invariance, RequestInvInit, RequestInvStep, PTL DEF Spec

-----------------------------------------------------------------------------
\* The shelf

\* Entries that go, and time that passes, only take pastes off the shelf.
LEMMA ShelfShrinks ==
  ASSUME Inv, now \in Nat, now' \in Nat, now <= now', exited => exited',
         UNCHANGED storeVars \/ \E S : burnAndDelete(S)
  PROVE  OnShelf' \subseteq OnShelf
  <1>1. DOMAIN m' \subseteq DOMAIN m /\ \A q \in DOMAIN m' : m'[q] = m[q]
    BY DEF storeVars, burnAndDelete
  <1>2. CASE exited'
    BY <1>2 DEF OnShelf
  <1>3. CASE ~exited'
    <2>1. \A q \in DOMAIN m : m[q].ExpiresAt \in Int
      BY DEF Inv, TypeOK, StoreTypeOK, Paste
    <2>2. ASSUME NEW q \in DOMAIN m', Retrievable(q, now)'
          PROVE  q \in DOMAIN m /\ Retrievable(q, now) /\ m'[q].id = m[q].id
      BY <1>1, <2>1, <2>2 DEF Retrievable, Expired
    <2> QED
      BY <1>3, <2>2 DEF OnShelf
  <1> QED
    BY <1>2, <1>3

LEMMA Withdrawn ==
  ASSUME OnShelf' \subseteq OnShelf, UNCHANGED <<posted, peer, took>>
  PROVE  Service!Next
  <1> DEFINE ids == OnShelf \ OnShelf'
  <1>1. ids \in SUBSET OnShelf /\ OnShelf' = OnShelf \ ids
    OBVIOUS
  <1>2. Service!Withdraw(ids)
    BY <1>1 DEF Service!Withdraw
  <1> QED
    BY <1>1, <1>2 DEF Service!Next

\* Steps that change nothing the service speaks of
LEMMA Unnoticed ==
  ASSUME UNCHANGED <<storeVars, now, exited, peer, took>>
  PROVE  UNCHANGED Service!serviceVars
  BY DEF Service!serviceVars, storeVars, OnShelf, Retrievable

\* serveData accepts a client that holds a code.
LEMMA AcceptArrives ==
  ASSUME Inv, RequestInv, NEW c \in Conn, NEW p \in Peers, NEW serves \in BOOLEAN, Accept(c, p, serves)
  PROVE  Service!Next
  <1>1. /\ pc[c] = "idle" /\ peer' = [peer EXCEPT ![c] = p]
        /\ UNCHANGED <<storeVars, now, exited, took>>
    BY DEF Accept
  <1>2. peer[c].prs = "none" /\ p.prs \in Prs
    BY <1>1 DEF RequestInv, NoPeer, Peers
  <1>3. posted' = posted /\ OnShelf' = OnShelf
    BY <1>1 DEF storeVars, OnShelf, Retrievable
  <1>4. [x \in Conn |-> peer'[x].prs] = [[x \in Conn |-> peer[x].prs] EXCEPT ![c] = p.prs]
    BY <1>1 DEF Inv, TypeOK
  <1>5. Service!Arrive(c, p.prs)
    BY <1>1, <1>2, <1>3, <1>4 DEF Service!Arrive
  <1> QED
    BY <1>2, <1>5 DEF Service!Next

\* A paste that add accepts is published.
LEMMA AddPublishes ==
  ASSUME Inv, RequestInv, NEW r \in Request, NEW prs \in Prs, PostAdd(r, prs)
  PROVE  Service!Next \/ UNCHANGED Service!serviceVars
  <1> DEFINE limit == post[r].MaxGets
             expires == post[r].expires
             id == Len(posted) + 1
             p == [id |-> id, ExpiresAt |-> expires, MaxGets |-> limit, Gets |-> 0, Burned |-> FALSE]
  <1>1. /\ ~exited /\ UNCHANGED <<now, exited, peer, took>> /\ limit \in GetLimits
        /\ add(prs, expires, limit)
    BY DEF PostAdd, RequestInv, connVars
  <1>2. CASE addError(prs) = "none"
    <2>1. /\ prs \notin DOMAIN m
          /\ m' = [q \in DOMAIN m \cup {prs} |-> IF q = prs THEN p ELSE m[q]]
          /\ posted' = Append(posted, [prs |-> prs, MaxGets |-> limit])
      BY <1>1, <1>2 DEF add, addError
    <2>2. \A i \in OnShelf : posted[i].prs # prs
      BY <1>1, <2>1 DEF OnShelf, Inv, EntriesInv
    <2> DEFINE stillborn == Expired(p, now)
    <2>3. p.id = id /\ ~p.Burned
      OBVIOUS
    <2> HIDE DEF p
    <2>4. /\ DOMAIN m' = DOMAIN m \cup {prs} /\ m'[prs] = p
          /\ \A q \in DOMAIN m : m'[q] = m[q]
      BY <2>1
    <2>5. /\ \A q \in DOMAIN m : Retrievable(q, now)' <=> Retrievable(q, now)
          /\ Retrievable(prs, now)' <=> ~stillborn
      BY <1>1, <2>1, <2>3, <2>4 DEF Retrievable, Expired
    <2>6. OnShelf' = IF stillborn THEN OnShelf ELSE OnShelf \cup {id}
      <3> DEFINE L == {q \in DOMAIN m : Retrievable(q, now)}
                 K == {q \in DOMAIN m' : Retrievable(q, now)'}
      <3>1. OnShelf = {m[q].id : q \in L} /\ OnShelf' = {m'[q].id : q \in K}
        BY <1>1 DEF OnShelf
      <3>2. K = IF stillborn THEN L ELSE L \cup {prs}
        BY <2>1, <2>4, <2>5
      <3>3. L \subseteq DOMAIN m
        OBVIOUS
      <3> HIDE DEF L, K, stillborn
      <3>4. \A q \in L : m'[q].id = m[q].id
        BY <2>4, <3>3
      <3>5. m'[prs].id = id
        BY <2>3, <2>4
      <3> HIDE DEF id
      <3> QED
        BY <3>1, <3>2, <3>4, <3>5
    <2>7. Service!Publish(prs, limit, stillborn)
      BY <1>1, <2>1, <2>2, <2>6 DEF Service!Publish
    <2>8. stillborn \in BOOLEAN
      BY DEF Expired
    <2> QED
      BY <1>1, <2>7, <2>8 DEF Service!Next
  <1>3. CASE addError(prs) # "none"
    <2>1. UNCHANGED storeVars
      BY <1>1, <1>3 DEF add
    <2> QED
      BY <1>1, <2>1, Unnoticed
  <1> QED
    BY <1>2, <1>3

\* take hands out a paste: the fetch happens here, and the last one takes the
\* paste off the shelf.
LEMMA TakeFetches ==
  ASSUME Inv, Inv', NEW c \in Conn, Take(c)
  PROVE  Service!Next \/ UNCHANGED Service!serviceVars
  <1>0. PICK prs : prs = peer[c].prs
    OBVIOUS
  <1>id. PICK id : id = m[prs].id
    OBVIOUS
  <1>1. /\ ~exited /\ UNCHANGED <<now, exited, peer>> /\ take(prs, now) /\ took[c] = 0
    BY <1>0 DEF Take, Inv, EntriesInv, BeforeTake
  <1>2. CASE ~Retrievable(prs, now)
    <2>1. UNCHANGED <<storeVars, took>>
      BY <1>0, <1>1, <1>2 DEF Take, take
    <2> QED
      BY <1>1, <2>1, Unnoticed
  <1>3. CASE Retrievable(prs, now)
    <2>1. /\ prs \in DOMAIN m /\ ~m[prs].Burned /\ ~Expired(m[prs], now) /\ countGet(prs)
          /\ took' = [took EXCEPT ![c] = id]
      BY <1>0, <1>id, <1>1, <1>3 DEF Take, take, Retrievable
    <2>2. /\ DOMAIN m' = DOMAIN m /\ posted' = posted
          /\ \A q \in DOMAIN m \ {prs} : m'[q] = m[q]
          /\ m'[prs].id = id /\ m'[prs].Gets = m[prs].Gets + 1
          /\ m'[prs].Burned = LastGet(m[prs])
      BY <1>id, <2>1, CountGetFacts DEF Inv, TypeOK
    <2>3. m'[prs].ExpiresAt = m[prs].ExpiresAt
      BY <2>1 DEF countGet, Inv, TypeOK, StoreTypeOK, Paste
    <2>4. /\ posted[id].prs = prs /\ posted[id].MaxGets = m[prs].MaxGets
          /\ m[prs].MaxGets > 0 => m[prs].Gets < m[prs].MaxGets
      BY <1>id, <2>1 DEF Inv, EntriesInv
    <2>5. m[prs].MaxGets \in Nat /\ m[prs].Gets \in Nat
      BY <2>1 DEF Inv, TypeOK, StoreTypeOK, Paste
    <2>6. m'[prs].Gets = Cardinality({x \in Conn : took'[x] = id})
      BY <2>1, <2>2 DEF Inv, EntriesInv, Takers
    <2> DEFINE limit == posted[id].MaxGets
               last == limit > 0 /\ Cardinality({x \in Conn : took'[x] = id}) = limit
    <2>7. last <=> LastGet(m[prs])
      BY <2>2, <2>4, <2>5, <2>6 DEF LastGet
    <2>8. OnShelf' = IF last THEN OnShelf \ {id} ELSE OnShelf
      <3> DEFINE L == {q \in DOMAIN m : Retrievable(q, now)}
                 K == {q \in DOMAIN m' : Retrievable(q, now)'}
      <3>1. OnShelf = {m[q].id : q \in L} /\ OnShelf' = {m'[q].id : q \in K}
        BY <1>1 DEF OnShelf
      <3>2. \A q \in DOMAIN m \ {prs} : Retrievable(q, now)' <=> Retrievable(q, now)
        BY <1>1, <2>2 DEF Retrievable
      <3>3. Retrievable(prs, now)' <=> ~last
        BY <1>1, <2>1, <2>2, <2>3, <2>7 DEF Retrievable, Expired
      <3>4. K = IF last THEN L \ {prs} ELSE L
        <4>1. prs \in DOMAIN m /\ DOMAIN m' = DOMAIN m /\ Retrievable(prs, now)
          BY <1>3, <2>1, <2>2
        <4> HIDE DEF last
        <4>2. CASE last
          BY <3>2, <3>3, <4>1, <4>2
        <4>3. CASE ~last
          BY <3>2, <3>3, <4>1, <4>3
        <4> QED
          BY <4>2, <4>3
      <3>5. \A q \in L : q \in DOMAIN m /\ m'[q].id = m[q].id /\ (m[q].id = id => q = prs)
        BY <1>id, <2>1, <2>2, IdsUnique DEF Inv
      <3>6. prs \in L
        BY <1>3, <2>1
      <3> HIDE DEF L, K, last
      <3> QED
        BY <1>id, <3>1, <3>4, <3>5, <3>6
    <2>9. id \in OnShelf
      BY <1>id, <1>1, <1>3, <2>1 DEF OnShelf
    <2>10. [x \in Conn |-> peer[x].prs][c] = prs
      BY <1>0
    <2>11. Service!Fetch(c, id)
      <3>1. posted[id].prs = [x \in Conn |-> peer[x].prs][c] /\ posted' = posted
            /\ [x \in Conn |-> peer'[x].prs] = [x \in Conn |-> peer[x].prs]
            /\ took' = [took EXCEPT ![c] = id] /\ took[c] = 0
        BY <1>1, <2>1, <2>2, <2>4, <2>10
      <3>2. OnShelf' = IF last THEN OnShelf \ {id} ELSE OnShelf
        BY <2>8
      <3>3. Service!Cardinality({x \in Conn : took'[x] = id}) = Cardinality({x \in Conn : took'[x] = id})
        BY Zenon DEF Service!Cardinality, Cardinality
      <3> QED
        BY <2>9, <3>1, <3>2, <3>3 DEF Service!Fetch
    <2> QED
      BY <2>9, <2>11 DEF Service!Next
  <1> QED
    BY <1>2, <1>3

LEMMA ServiceStep ==
  ASSUME Inv, RequestInv, Inv', [Next]_vars
  PROVE  [Service!Next]_(Service!serviceVars)
  <1>0. now \in Nat
    BY ConstantTypes DEF Inv, TypeOK
  <1>1. ASSUME NEW c \in Conn, Handler(c)
        PROVE  Service!Next \/ UNCHANGED Service!serviceVars
    BY <1>1, HandlerFrame, TakeFetches, Unnoticed
  <1>2. ASSUME NEW r \in Request, Posting(r)
        PROVE  Service!Next \/ UNCHANGED Service!serviceVars
    <2>1. UNCHANGED <<now, exited, peer, took>>
      BY <1>2, PostingFrame DEF connVars
    <2> QED
      BY <1>2, <2>1, PostingFrame, AddPublishes, Unnoticed
  <1>3. ASSUME HandleList \/ HandleDeleteAll \/ (\E prs \in Prs : HandleDelete(prs))
               \/ SweepLoop \/ Interrupt \/ Exit \/ Tick \/ Terminated \/ UNCHANGED vars
        PROVE  Service!Next
    <2>1. UNCHANGED <<connVars, post>> /\ (UNCHANGED storeVars \/ \E S : burnAndDelete(S))
      BY <1>3, ControlFrame
    <2>2. UNCHANGED <<posted, peer, took>>
      BY <2>1 DEF connVars, storeVars, burnAndDelete
    <2>3. (now' = now \/ now' = now + 1) /\ (exited => exited')
      BY <1>3, SweepFrame DEF HandleList, HandleDeleteAll, HandleDelete, Interrupt, Exit, Tick,
                  Terminated, ClockTick, vars
    <2>4. now' \in Nat /\ now <= now'
      BY <1>0, <2>3
    <2> QED
      BY <1>0, <2>1, <2>2, <2>3, <2>4, ShelfShrinks, Withdrawn
  <1> QED
    BY <1>1, <1>2, <1>3, AcceptArrives DEF Next

(***************************************************************************)
(* The daemon implements the paste service: each of its steps is one       *)
(* arrival, publication, fetch or withdrawal, or changes nothing a user    *)
(* can see, however handshakes, posts, deletes, sweeps and the idle exit   *)
(* interleave (handshake, handlePost, take, add, del, clear, sweep).       *)
(***************************************************************************)
THEOREM DaemonImplementsService == Spec => ImplementsService
  <1>1. Init => Service!Init
    <2> SUFFICES ASSUME Init PROVE Service!Init
      OBVIOUS
    <2>1. DOMAIN m = {} /\ posted = <<>>
      BY DEF Init, StoreInit
    <2>2. OnShelf = {}
      BY <2>1 DEF OnShelf
    <2> QED
      BY <2>1, <2>2 DEF Init, NoPeer, Service!Init
  <1> QED
    BY <1>1, ServiceStep, RequestInvariance, PTL DEF Spec, ImplementsService, Service!Spec

-----------------------------------------------------------------------------
\* The decision to stop

\* A request that is being read began within IoTimeout, and counts as a use.
RecentInv ==
    \A r \in Request : post[r].at \in {"body", "add"} =>
        /\ post[r].begun <= now /\ now <= post[r].begun + IoTimeout
        /\ Unix(post[r].begun) <= lastUsed

\* After sweepLoop's first test the store holds at most what was posted since.
IdleInv == sweeper = "idle" => DOMAIN m = {} \/ idleFor <= IdleTimeout

LEMMA UnixBounds ==
  ASSUME NEW t \in Nat
  PROVE  Unix(t) \in Nat /\ Second * Unix(t) <= t /\ t < Second * Unix(t) + Second
  BY ConstantTypes DEF Unix

LEMMA UnixApart ==
  ASSUME NEW s \in Nat, NEW t \in Nat, NEW k \in Nat, t <= s + k * Second
  PROVE  Unix(t) <= Unix(s) + k
  <1> DEFINE p == Unix(s)
             q == Unix(t)
             e == q - (p + k + 1)
  <1>1. /\ p \in Nat /\ q \in Nat /\ Second \in Nat \ {0}
        /\ Second * q <= t /\ s < Second * p + Second
    BY UnixBounds, ConstantTypes
  <1> HIDE DEF p, q
  <1> SUFFICES ASSUME q >= p + k + 1 PROVE FALSE
    BY <1>1 DEF p, q
  <1>2. e \in Nat /\ q = p + k + 1 + e
    BY <1>1
  <1> HIDE DEF e
  <1>3. Second * q = Second * p + k * Second + Second + Second * e
    BY <1>1, <1>2
  <1>4. Second * e \in Nat /\ Second * p \in Nat /\ k * Second \in Nat /\ Second * q \in Nat
    BY <1>1, <1>2
  <1> QED
    BY <1>1, <1>3, <1>4

LEMMA UnixMonotone ==
  ASSUME NEW s \in Nat, NEW t \in Nat, s <= t
  PROVE  Unix(s) <= Unix(t)
  <1>1. s <= t + 0 * Second
    BY ConstantTypes
  <1>2. Unix(s) <= Unix(t) + 0
    BY <1>1, UnixApart
  <1> QED
    BY <1>2, UnixBounds

\* A request that is being read is a recent use.
LEMMA InUse ==
  ASSUME Inv, RecentInv, NEW r \in Request, post[r].at \in {"body", "add"}
  PROVE  idleFor <= IdleTimeout
  <1>1. /\ now \in Nat /\ lastUsed \in Nat /\ post[r].begun \in Nat /\ IoTimeout \in Nat
        /\ IdleTimeout \in Nat /\ Second \in Nat
    BY ConstantTypes, DaemonAssumption DEF Inv, TypeOK
  <1>2. now <= post[r].begun + IoTimeout /\ Unix(post[r].begun) <= lastUsed
    BY DEF RecentInv
  <1>3. IdleTimeout * Second \in Nat
    BY <1>1
  <1>4. now <= post[r].begun + IdleTimeout * Second
    BY <1>1, <1>2, <1>3, IdleAssumption
  <1>5. Unix(now) <= Unix(post[r].begun) + IdleTimeout
    BY <1>1, <1>4, UnixApart
  <1> QED
    BY <1>1, <1>2, <1>5, UnixBounds DEF idleFor

\* Using the daemon keeps both invariants.
LEMMA UseKeeps ==
  ASSUME Inv, RecentInv, IdleInv, UNCHANGED <<now, sweeper>>,
         lastUsed' = lastUsed \/ lastUsed' = Unix(now), post' = post,
         DOMAIN m' \subseteq DOMAIN m
  PROVE  RecentInv' /\ IdleInv'
  <1>0. now \in Nat /\ lastUsed \in Nat /\ IdleTimeout \in Nat
    BY ConstantTypes, DaemonAssumption DEF Inv, TypeOK
  <1>1. now \in Nat /\ lastUsed \in Nat /\ IdleTimeout \in Nat /\ Unix(now) \in Nat
    BY <1>0, TimeTypes
  <1>2. RecentInv'
    <2> SUFFICES ASSUME NEW r \in Request, post[r].at \in {"body", "add"}
                 PROVE  /\ post[r].begun <= now /\ now <= post[r].begun + IoTimeout
                        /\ Unix(post[r].begun) <= lastUsed'
      BY DEF RecentInv
    <2>1. post[r].begun \in Nat
      BY DEF Inv, TypeOK
    <2> QED
      BY <1>1, <2>1, UnixMonotone DEF RecentInv
  <1>3. IdleInv'
    <2>1. idleFor' = Unix(now) - lastUsed'
      BY DEF idleFor
    <2>2. idleFor = Unix(now) - lastUsed
      BY DEF idleFor
    <2>3. idleFor' = idleFor \/ idleFor' = 0
      BY <1>1, <2>1, <2>2
    <2>4. idleFor <= IdleTimeout => idleFor' <= IdleTimeout
      BY <1>1, <2>3
    <2>5. DOMAIN m = {} => DOMAIN m' = {}
      OBVIOUS
    <2>6. sweeper' = sweeper
      OBVIOUS
    <2> QED
      BY <2>4, <2>5, <2>6 DEF IdleInv
  <1> QED
    BY <1>2, <1>3

LEMMA PostingKeeps ==
  ASSUME Inv, RecentInv, IdleInv, NEW r \in Request, Posting(r)
  PROVE  RecentInv' /\ IdleInv'
  <1>0. now \in Nat /\ lastUsed \in Nat /\ IdleTimeout \in Nat /\ IoTimeout \in Nat
    BY ConstantTypes, DaemonAssumption DEF Inv, TypeOK
  <1>1. Unix(now) \in Nat /\ \A x \in Request : post[x].begun \in Nat
    BY <1>0, TimeTypes DEF Inv, TypeOK
  <1>2. UNCHANGED <<now, sweeper>> /\ (lastUsed' = lastUsed \/ lastUsed' = Unix(now))
    BY PostingFrame
  <1>3. RecentInv'
    <2> SUFFICES ASSUME NEW x \in Request, post'[x].at \in {"body", "add"}
                 PROVE  /\ post'[x].begun <= now /\ now <= post'[x].begun + IoTimeout
                        /\ Unix(post'[x].begun) <= lastUsed'
      BY <1>2 DEF RecentInv
    <2>1. \/ post[x].at \in {"body", "add"} /\ post'[x].begun = post[x].begun
          \/ post'[x].begun = now /\ lastUsed' = Unix(now)
      BY PostingFrame
    <2>2. CASE post[x].at \in {"body", "add"} /\ post'[x].begun = post[x].begun
      <3>1. /\ post[x].begun <= now /\ now <= post[x].begun + IoTimeout
            /\ Unix(post[x].begun) <= lastUsed /\ post[x].begun \in Nat
        BY <1>1, <2>2 DEF RecentInv
      <3>2. Unix(post[x].begun) <= Unix(now)
        BY <1>0, <3>1, UnixMonotone
      <3> QED
        BY <1>2, <2>2, <3>1, <3>2
    <2>3. CASE post'[x].begun = now /\ lastUsed' = Unix(now)
      BY <1>0, <1>1, <2>3
    <2> QED
      BY <2>1, <2>2, <2>3
  <1>4. IdleInv'
    <2>1. idleFor' = Unix(now) - lastUsed'
      BY <1>2 DEF idleFor
    <2>2. idleFor = Unix(now) - lastUsed
      BY DEF idleFor
    <2>3. idleFor' = idleFor \/ idleFor' = 0
      BY <1>0, <1>1, <1>2, <2>1, <2>2
    <2>4. CASE UNCHANGED storeVars
      BY <1>0, <1>2, <2>3, <2>4 DEF IdleInv, storeVars
    <2>5. CASE \E prs \in Prs : PostAdd(r, prs)
      <3>1. idleFor <= IdleTimeout
        BY <2>5, InUse DEF PostAdd
      <3> QED
        BY <1>0, <2>3, <3>1 DEF IdleInv
    <2> QED
      BY <2>4, <2>5, PostingFrame
  <1> QED
    BY <1>3, <1>4

LEMMA SweepLoopKeeps ==
  ASSUME Inv, RequestInv, RecentInv, IdleInv, SweepLoop
  PROVE  RecentInv' /\ IdleInv'
  <1>1. UNCHANGED <<now, post, lastUsed>>
    BY SweepFrame
  <1>2. RecentInv'
    BY <1>1 DEF RecentInv
  <1>3. sweeper' = "idle" => DOMAIN m' = {}
    <2>1. sweeper' = "idle" => listLen = 0 /\ UNCHANGED storeVars
      BY DEF SweepLoop, Wake, Leave, SweepStore, SweepLimiter, CheckEmpty, CheckIdle, sweepStep
    <2>2. listLen = 0 => DOMAIN m = {}
      BY FS_EmptySet DEF listLen, RequestInv
    <2> QED
      BY <2>1, <2>2 DEF storeVars
  <1> QED
    BY <1>2, <1>3 DEF IdleInv

LEMMA ClockKeeps ==
  ASSUME Inv, RecentInv, IdleInv, Tick
  PROVE  RecentInv' /\ IdleInv'
  <1>0. now \in Nat /\ IoTimeout \in Nat /\ \A x \in Request : post[x].begun \in Nat
    BY ConstantTypes DEF Inv, TypeOK
  <1>1. /\ now' = now + 1 /\ UNCHANGED <<post, lastUsed, sweeper>> /\ sweeper # "idle"
        /\ \A r \in Request : post[r].at \in {"body", "add"} => now < post[r].begun + IoTimeout
    BY DEF Tick, ClockTick
  <1> QED
    BY <1>0, <1>1 DEF RecentInv, IdleInv

LEMMA IdleInvStep ==
  Inv /\ RequestInv /\ RecentInv /\ IdleInv /\ [Next]_vars => RecentInv' /\ IdleInv'
  <1> SUFFICES ASSUME Inv, RequestInv, RecentInv, IdleInv, [Next]_vars PROVE RecentInv' /\ IdleInv'
    OBVIOUS
  <1>1. ASSUME NEW c \in Conn, NEW p \in Peers, NEW serves \in BOOLEAN, Accept(c, p, serves)
        PROVE  RecentInv' /\ IdleInv'
    BY <1>1, UseKeeps DEF Accept, storeVars
  <1>2. ASSUME NEW c \in Conn, Handler(c)
        PROVE  RecentInv' /\ IdleInv'
    <2>1. DOMAIN m' = DOMAIN m
      BY <1>2, HandlerFrame DEF Take, take, countGet, storeVars
    <2> QED
      BY <1>2, <2>1, HandlerFrame, UseKeeps
  <1>3. ASSUME HandleList \/ HandleDeleteAll \/ (\E prs \in Prs : HandleDelete(prs))
               \/ Interrupt \/ Exit \/ Terminated \/ UNCHANGED vars
        PROVE  RecentInv' /\ IdleInv'
    <2>1. UNCHANGED <<now, sweeper, post>> /\ (lastUsed' = lastUsed \/ lastUsed' = Unix(now))
      BY <1>3 DEF HandleList, HandleDeleteAll, HandleDelete, Interrupt, Exit, Terminated, vars
    <2>2. DOMAIN m' \subseteq DOMAIN m
      BY <1>3, ControlFrame DEF storeVars, burnAndDelete
    <2> QED
      BY <2>1, <2>2, UseKeeps
  <1> QED
    BY <1>1, <1>2, <1>3, PostingKeeps, SweepLoopKeeps, ClockKeeps DEF Next

LEMMA IdleInvariance == Spec => [](Inv /\ RequestInv /\ RecentInv /\ IdleInv)
  <1>1. Init => RecentInv /\ IdleInv
    BY DEF Init, RecentInv, IdleInv
  <1> QED
    BY <1>1, RequestInvariance, IdleInvStep, PTL DEF Spec

(***************************************************************************)
(* When sweepLoop decides that the daemon is idle, no paste can be fetched *)
(* from it: a POST that is stored between shouldStop's two tests counts as *)
(* a use of the daemon, since it was touched when it began and is read     *)
(* within ioTimeout, which is no longer than idleTimeout (shouldStop,      *)
(* touch, handlePost).                                                     *)
(***************************************************************************)
THEOREM IdleStopSound == Spec => IdleDecisionSound
  <1>1. ASSUME Inv, RequestInv, RecentInv, IdleInv, [Next]_vars
        PROVE  [status = "up" /\ status' = "idle" => \A prs \in Prs : ~Retrievable(prs, now)]_vars
    <2> SUFFICES ASSUME Next, status = "up", status' = "idle"
                 PROVE  \A prs \in Prs : ~Retrievable(prs, now)
      BY <1>1 DEF vars
    <2>1. CheckIdle
      <3>1. ~(\E c \in Conn, p \in Peers, serves \in BOOLEAN : Accept(c, p, serves))
        BY DEF Accept
      <3>2. ~(\E c \in Conn : Handler(c))
        BY <1>1, HandlerFrame
      <3>3. ~(\E r \in Request : Posting(r))
        BY <1>1, PostingFrame
      <3>4. ~(HandleList \/ HandleDeleteAll \/ (\E prs \in Prs : HandleDelete(prs))
              \/ Interrupt \/ Exit \/ Tick \/ Terminated)
        BY DEF HandleList, HandleDeleteAll, HandleDelete, Interrupt, Exit, Tick, Terminated, vars
      <3> QED
        BY <3>1, <3>2, <3>3, <3>4 DEF Next, SweepLoop, Wake, Leave, SweepStore, SweepLimiter, CheckEmpty
    <2>2. sweeper = "idle" /\ idleFor > IdleTimeout
      BY <2>1 DEF CheckIdle, sweepStep
    <2>3. idleFor \in Int /\ IdleTimeout \in Nat
      <3>1. now \in Nat /\ lastUsed \in Nat /\ IdleTimeout \in Nat
        BY <1>1, ConstantTypes, DaemonAssumption DEF Inv, TypeOK
      <3>2. Unix(now) \in Nat
        BY <3>1, TimeTypes
      <3> QED
        BY <3>1, <3>2 DEF idleFor
    <2>4. DOMAIN m = {}
      BY <1>1, <2>2, <2>3 DEF IdleInv
    <2> QED
      BY <2>4 DEF Retrievable
  <1> QED
    BY <1>1, IdleInvariance, PTL DEF Spec, IdleDecisionSound

-----------------------------------------------------------------------------
\* Offers

OfferInv == listLen <= MaxPastes /\ OfferHidesCount

\* A handler builds an offer, goes on with the one it has, or has none to answer for.
LEMMA HandlerOffers ==
  ASSUME Inv, Bounded, OfferInv, NEW c \in Conn, Handler(c)
  PROVE  OfferHidesCount'
  <1>0. DOMAIN pc = Conn /\ DOMAIN offer = Conn
    BY DEF Inv, TypeOK
  <1>1. \/ /\ pc[c] = "offer" /\ Goto(c, "write")
           /\ candidates(now).slots <= MaxCandidates
           /\ offer' = [offer EXCEPT ![c] = candidates(now)]
        \/ /\ pc[c] \in {"write", "tag"} /\ offer' = offer
           /\ \E label \in {"tag", "take"} : Goto(c, label)
        \/ /\ offer' = offer \/ offer' = [offer EXCEPT ![c] = NoOffer]
           /\ \E label \in {"hello", "charge", "offer", "seal", "send", "done"} : Goto(c, label)
    <2>1. CASE BuildOffer(c)
      BY <2>1 DEF BuildOffer, Return
    <2>2. CASE WriteOffer(c) \/ Confirm(c)
      BY <2>2 DEF WriteOffer, Confirm, Proceed
    <2>3. CASE ~BuildOffer(c) /\ ~WriteOffer(c) /\ ~Confirm(c)
      BY <2>3 DEF Handler, AllowPeer, ReadHello, AllowExchange, FailConfirmation, Take, Seal,
                  WriteBody, Disconnect, DeadlineExpires, Proceed, Return
    <2> QED
      BY <2>1, <2>2, <2>3
  <1>2. \A x \in Conn \ {c} : pc'[x] = pc[x] /\ offer'[x] = offer[x]
    BY <1>0, <1>1 DEF Goto
  <1>3. Cardinality(candidates(now).live) < candidates(now).slots
    BY CandidatesRoom
  <1>4. pc'[c] \in {"write", "tag", "take"} =>
            /\ Cardinality(offer'[c].live) < offer'[c].slots
            /\ offer'[c].slots <= MaxCandidates
    <2>1. CASE /\ pc[c] = "offer" /\ Goto(c, "write")
               /\ candidates(now).slots <= MaxCandidates
               /\ offer' = [offer EXCEPT ![c] = candidates(now)]
      <3>1. offer'[c] = candidates(now)
        BY <1>0, <2>1
      <3> QED
        BY <1>3, <2>1, <3>1
    <2>2. CASE pc[c] \in {"write", "tag"} /\ offer' = offer
      BY <2>2 DEF OfferInv, OfferHidesCount
    <2>3. CASE \E label \in {"hello", "charge", "offer", "seal", "send", "done"} : Goto(c, label)
      BY <1>0, <2>3 DEF Goto
    <2> QED
      BY <1>1, <2>1, <2>2, <2>3
  <1> QED
    BY <1>2, <1>4 DEF OfferInv, OfferHidesCount

LEMMA OfferInvStep == Inv /\ RequestInv /\ OfferInv /\ [Next]_vars => OfferInv'
  <1> SUFFICES ASSUME Inv, RequestInv, OfferInv, [Next]_vars PROVE OfferInv'
    OBVIOUS
  <1>0. Bounded
    BY DEF RequestInv, OfferInv, Bounded
  <1>1. ASSUME NEW c \in Conn, NEW p \in Peers, NEW serves \in BOOLEAN, Accept(c, p, serves)
        PROVE  OfferInv'
    <2>1. UNCHANGED <<m, offer>> /\ \E label \in {"admit", "done"} : Goto(c, label)
      BY <1>1 DEF Accept, storeVars
    <2>2. \A x \in Conn : pc'[x] \in {"write", "tag", "take"} => pc'[x] = pc[x]
      BY <2>1 DEF Goto, Inv, TypeOK
    <2> QED
      BY <2>1, <2>2 DEF OfferInv, OfferHidesCount, listLen
  <1>2. ASSUME NEW c \in Conn, Handler(c)
        PROVE  OfferInv'
    <2>1. UNCHANGED storeVars \/ \E prs, t : take(prs, t)
      BY <1>2, HandlerFrame DEF Take
    <2>2. listLen' <= MaxPastes
      BY <1>0, <2>1, StoreBounded DEF Bounded
    <2> QED
      BY <1>0, <1>2, <2>2, HandlerOffers DEF OfferInv
  <1>3. ASSUME NEW r \in Request, Posting(r)
        PROVE  OfferInv'
    <2>1. UNCHANGED storeVars \/ \E prs, expires, maxGets : add(prs, expires, maxGets)
      BY <1>3, PostingFrame DEF PostAdd
    <2>2. listLen' <= MaxPastes
      BY <1>0, <2>1, StoreBounded DEF Bounded
    <2>3. UNCHANGED <<pc, offer>>
      BY <1>3, PostingFrame DEF connVars
    <2> QED
      BY <2>2, <2>3 DEF OfferInv, OfferHidesCount
  <1>4. ASSUME HandleList \/ HandleDeleteAll \/ (\E prs \in Prs : HandleDelete(prs))
               \/ SweepLoop \/ Interrupt \/ Exit \/ Tick \/ Terminated \/ UNCHANGED vars
        PROVE  OfferInv'
    <2>1. UNCHANGED <<connVars, post>> /\ (UNCHANGED storeVars \/ \E S : burnAndDelete(S))
      BY <1>4, ControlFrame
    <2>2. listLen' <= MaxPastes
      BY <1>0, <2>1, StoreBounded DEF Bounded
    <2> QED
      BY <2>1, <2>2 DEF OfferInv, OfferHidesCount, connVars
  <1> QED
    BY <1>1, <1>2, <1>3, <1>4 DEF Next

(***************************************************************************)
(* Every offer a handler sends has a slot for a decoy next to the pastes   *)
(* it can serve, and is one the wire format and the client accept: the     *)
(* doubling loop of paddedCount ends with room to spare, since the store   *)
(* never holds more than maxPastes (add) and maxPastes < maxCandidates     *)
(* (candidates, paddedCount, buildOffer).                                  *)
(***************************************************************************)
THEOREM OffersHideCount == Spec => []OfferHidesCount
  <1>1. Init => OfferInv
    <2> SUFFICES ASSUME Init PROVE OfferInv
      OBVIOUS
    <2>1. DOMAIN m = {}
      BY DEF Init, StoreInit
    <2>2. listLen = 0
      BY <2>1, FS_EmptySet DEF listLen
    <2>3. OfferHidesCount
      BY DEF Init, OfferHidesCount
    <2> QED
      BY <2>2, <2>3, StoreAssumption DEF OfferInv
  <1>2. OfferInv => OfferHidesCount
    BY DEF OfferInv
  <1> QED
    BY <1>1, <1>2, RequestInvariance, OfferInvStep, PTL DEF Spec
=============================================================================
