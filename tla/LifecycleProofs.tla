-------------------------- MODULE LifecycleProofs --------------------------
(***************************************************************************)
(* How daemons follow each other, for any number of daemons and commands   *)
(* over the life of the machine.  The types hold however the daemons start *)
(* (TypeInv).  That a serving daemon is reachable, alone and runs with the *)
(* persisted identity holds if daemons start one at a time, crashes and    *)
(* stops in between and meanwhile included; MCTwoStarts shows two          *)
(* overlapping starts that break it.  The first two also need that no      *)
(* start failed to connect to a daemon that was there (misled).            *)
(*                                                                         *)
(* What serving daemons have is not inductive: SoloInv says what each step *)
(* of a start has made sure of already, for the key and for the path.      *)
(***************************************************************************)
EXTENDS Lifecycle, TLAPS, FiniteSetTheorems

Places == {"none", "key", "create", "write", "dial", "remove", "bind",
           "listen", "chmod", "up", "unlink", "close", "gone"}

\* Daemons that have their key, and those whose socket is at the path.
Keyed == {"dial", "remove", "bind", "listen", "chmod", "up", "unlink", "close"}

Bound == {"listen", "chmod", "up", "unlink"}

TypeInv ==
    /\ sock \in Daemon \cup {"none"}
    /\ keyfile \in Daemon \cup {"none", "partial"}
    /\ dpc \in [Daemon -> Places]
    /\ key \in [Daemon -> Daemon \cup {"none"}]
    /\ told \subseteq Daemon /\ misled \in BOOLEAN
    /\ cpc \in [Command -> {"idle", "wait", "request", "ok", "failed"}]
    /\ \A d \in Daemon : dpc[d] \in Keyed => key[d] # "none"

\* One start at a time.
OneStarting == \A d, e \in Starting : d = e

\* A key is only created where there is none, and never while a daemon uses one.
KeySafe ==
    /\ \A d \in Daemon : dpc[d] = "create" => keyfile = "none"
    /\ \A d \in Daemon : dpc[d] = "write" => keyfile = "partial"
    /\ \A d \in Daemon : dpc[d] \in Keyed => key[d] = keyfile

\* A daemon's socket stays at the path from bind to unlink, and the path is only
\* taken for stale when it is.
Clear ==
    /\ \A d \in Daemon : dpc[d] \in Bound => sock = d
    /\ \A d, e \in Daemon : dpc[d] \in {"remove", "bind"} => dpc[e] \notin Bound

\* Only a start that was misled upsets that.
PathSafe == misled \/ Clear

SoloInv == TypeInv /\ OneStarting /\ KeySafe /\ PathSafe

LEMMA Distinct == "none" \notin Daemon /\ "partial" \notin Daemon
  BY LifecycleAssumption

-----------------------------------------------------------------------------
LEMMA TypeInit == Init => TypeInv
  BY Distinct DEF Init, TypeInv, Places, Keyed

LEMMA TypeKeeps ==
  ASSUME TypeInv, [Next]_vars
  PROVE  TypeInv'
  <1>0. ASSUME NEW d, NEW label, Goto(d, label)
        PROVE  dpc' = [dpc EXCEPT ![d] = label] /\ misled' \in BOOLEAN
    BY <1>0 DEF Goto
  <1> USE Distinct DEF TypeInv, Places, Keyed
  <1>1. ASSUME NEW d \in Daemon, StartService(d)
        PROVE  TypeInv'
    BY <1>0, <1>1 DEF StartService, CanStart
  <1>2. ASSUME NEW d \in Daemon, LoadKey(d)
        PROVE  TypeInv'
    BY <1>0, <1>2 DEF LoadKey
  <1>3. ASSUME NEW d \in Daemon, OpenKey(d) \/ WriteKey(d)
        PROVE  TypeInv'
    BY <1>0, <1>3 DEF OpenKey, WriteKey
  <1>4. ASSUME NEW d \in Daemon, Dial(d) \/ Remove(d) \/ Bind(d)
        PROVE  TypeInv'
    <2>1. CASE Dial(d)
      <3>1. PICK label \in {"gone", "remove"} : dpc' = [dpc EXCEPT ![d] = label]
        BY <2>1 DEF Dial
      <3>2. misled' \in BOOLEAN
        BY <2>1 DEF Dial
      <3>3. dpc[d] = "dial" /\ UNCHANGED <<sock, keyfile, key, told, cpc>>
        BY <2>1 DEF Dial
      <3> QED
        BY <3>1, <3>2, <3>3
    <2>2. CASE Remove(d) \/ Bind(d)
      BY <1>0, <2>2 DEF Remove, Bind
    <2> QED
      BY <1>4, <2>1, <2>2
  <1>5. ASSUME NEW d \in Daemon, Listen(d) \/ Chmod(d)
        PROVE  TypeInv'
    BY <1>0, <1>5 DEF Listen, Chmod
  <1>6. ASSUME NEW d \in Daemon, Cancel(d) \/ Stop(d) \/ ShutDown(d) \/ Crash(d)
        PROVE  TypeInv'
    BY <1>0, <1>6 DEF Cancel, Starting, Stop, ShutDown, Unlink, CloseSocket, Crash
  <1>7. ASSUME NEW c \in Command, Run(c)
        PROVE  TypeInv'
    BY <1>0, <1>7 DEF Run, Find, Poll, WaitTimeout, Request
  <1>8. ASSUME NEW c \in Command, NEW d \in Daemon, StartDaemon(c, d)
        PROVE  TypeInv'
    BY <1>0, <1>8 DEF StartDaemon, CanStart
  <1>9. CASE UNCHANGED vars
    BY <1>9 DEF vars
  <1> QED
    BY <1>1, <1>2, <1>3, <1>4, <1>5, <1>6, <1>7, <1>8, <1>9 DEF Next, StartUp

(***************************************************************************)
(* Every variable keeps its type and no daemon serves without an identity, *)
(* however many daemons start at the same time and crash between any two   *)
(* steps (loadIdentity, runDaemon).                                        *)
(***************************************************************************)
THEOREM LifecycleTypeCorrect == Spec => []LifecycleTypeOK
  <1>1. TypeInv => LifecycleTypeOK
    BY DEF TypeInv, LifecycleTypeOK, Places, Keyed, Serving
  <1> QED
    BY <1>1, TypeInit, TypeKeeps, PTL DEF Spec

-----------------------------------------------------------------------------
\* Nobody is starting when a daemon may start.
LEMMA StartsAlone ==
  ASSUME MaxStarting <= 1, NEW d \in Daemon, CanStart(d)
  PROVE  Starting = {}
  <1>1. IsFiniteSet(Starting) /\ Cardinality(Starting) \in Nat
    BY LifecycleAssumption, FS_Subset, FS_CardinalityType DEF Starting
  <1>2. Cardinality(Starting) = 0
    BY <1>1, LifecycleAssumption DEF CanStart
  <1> QED
    BY <1>1, <1>2, FS_EmptySet

LEMMA SoloInit == Init => SoloInv
  BY TypeInit DEF Init, SoloInv, OneStarting, KeySafe, PathSafe, Clear, Starting, Keyed, Bound

\* Once no daemon is left that was there, a start may connect again.
LEMMA PathAfter ==
  ASSUME SoloInv, NEW d \in Daemon, NEW label \in Places, Goto(d, label), ~misled => Clear'
  PROVE  PathSafe'
  <1>1. CASE ~misled
    BY <1>1 DEF PathSafe
  <1>2. CASE misled /\ Alive' = {}
    <2>1. \A e \in Daemon : dpc'[e] \in {"none", "gone"}
      BY <1>2 DEF Alive
    <2> QED
      BY <2>1 DEF PathSafe, Clear, Bound
  <1>3. CASE misled /\ Alive' # {}
    BY <1>3 DEF Goto, PathSafe
  <1> QED
    BY <1>1, <1>2, <1>3

\* A step of one daemon that is not the beginning of its start brings no other
\* daemon into Starting.
LEMMA StartingShrinks ==
  ASSUME SoloInv, NEW d \in Daemon, NEW label \in Places \ {"key"},
         label \in {"none", "up", "unlink", "close", "gone"} \/ d \in Starting,
         dpc' = [dpc EXCEPT ![d] = label]
  PROVE  OneStarting'
  <1>1. \A e \in Daemon : dpc'[e] = (IF e = d THEN label ELSE dpc[e])
    BY DEF SoloInv, TypeInv
  <1>2. Starting' \subseteq Starting
    BY <1>1 DEF Starting
  <1> QED
    BY <1>2 DEF SoloInv, OneStarting

\* A daemon starts when no other one is starting.
LEMMA BeginKeeps ==
  ASSUME MaxStarting <= 1, SoloInv, NEW d \in Daemon, CanStart(d), Goto(d, "key"),
         UNCHANGED <<sock, keyfile, key>>
  PROVE  OneStarting' /\ KeySafe' /\ PathSafe'
  <1>1. Starting = {}
    BY StartsAlone
  <1>2. \A e \in Daemon : dpc'[e] = (IF e = d THEN "key" ELSE dpc[e])
    BY DEF Goto, SoloInv, TypeInv
  <1>3. Starting' = {d}
    BY <1>1, <1>2 DEF Starting
  <1>4. OneStarting'
    BY <1>3 DEF OneStarting
  <1>5. KeySafe'
    BY <1>2 DEF SoloInv, KeySafe, Keyed
  <1>6. PathSafe'
    <2>1. ~misled => Clear'
      BY <1>2 DEF SoloInv, PathSafe, Clear, Bound
    <2> QED
      BY <2>1, PathAfter DEF Places
  <1> QED
    BY <1>4, <1>5, <1>6

\* A daemon gets its key.
LEMMA KeyStepKeeps ==
  ASSUME SoloInv, NEW d \in Daemon, LoadKey(d) \/ OpenKey(d) \/ WriteKey(d)
  PROVE  OneStarting' /\ KeySafe' /\ PathSafe'
  <1>1. d \in Starting
    BY DEF LoadKey, OpenKey, WriteKey, Starting
  <1>2. \A e \in Daemon : e # d => e \notin Starting
    BY <1>1 DEF SoloInv, OneStarting
  <1>3. PICK label \in {"create", "gone", "dial", "write"} :
          /\ \A e \in Daemon : dpc'[e] = (IF e = d THEN label ELSE dpc[e])
          /\ Goto(d, label) /\ dpc' = [dpc EXCEPT ![d] = label]
    BY DEF LoadKey, OpenKey, WriteKey, Goto, SoloInv, TypeInv
  <1>4. OneStarting'
    BY <1>1, <1>3, StartingShrinks DEF Places
  <1>5. KeySafe'
    <2>1. CASE LoadKey(d)
      <3>1. \A e \in Daemon : key'[e] = IF e = d /\ keyfile \in Daemon THEN keyfile ELSE key[e]
        BY <2>1 DEF LoadKey, SoloInv, TypeInv
      <3>2. dpc'[d] = CASE keyfile = "none" -> "create"
                        [] keyfile = "partial" -> "gone"
                        [] OTHER -> "dial"
        BY <2>1 DEF LoadKey, Goto, SoloInv, TypeInv
      <3>3. keyfile' = keyfile /\ keyfile \in Daemon \cup {"none", "partial"}
        BY <2>1 DEF LoadKey, SoloInv, TypeInv
      <3> QED
        BY <1>3, <3>1, <3>2, <3>3, Distinct DEF SoloInv, KeySafe, Keyed
    <2>2. CASE OpenKey(d)
      <3>1. keyfile = "none" /\ keyfile' = "partial" /\ key' = key /\ dpc'[d] = "write"
        BY <2>2 DEF OpenKey, Goto, SoloInv, KeySafe, TypeInv
      <3>2. \A e \in Daemon : dpc[e] \notin Keyed
        BY <3>1 DEF SoloInv, KeySafe, TypeInv
      <3>3. \A e \in Daemon : e # d => dpc[e] \notin {"create", "write"}
        BY <1>2 DEF Starting
      <3> QED
        BY <1>3, <3>1, <3>2, <3>3 DEF KeySafe, Keyed
    <2>3. CASE WriteKey(d)
      <3>1. /\ keyfile = "partial" /\ keyfile' = d /\ dpc'[d] = "dial"
            /\ \A e \in Daemon : key'[e] = IF e = d THEN d ELSE key[e]
        BY <2>3 DEF WriteKey, Goto, SoloInv, KeySafe, TypeInv
      <3>2. \A e \in Daemon : dpc[e] \notin Keyed
        BY <3>1, Distinct DEF SoloInv, KeySafe, TypeInv
      <3>3. \A e \in Daemon : e # d => dpc[e] \notin {"create", "write"}
        BY <1>2 DEF Starting
      <3> QED
        BY <1>3, <3>1, <3>2, <3>3 DEF KeySafe
    <2> QED
      BY <2>1, <2>2, <2>3
  <1>6. PathSafe'
    <2>1. sock' = sock
      BY DEF LoadKey, OpenKey, WriteKey
    <2>2. ~misled => Clear'
      BY <1>3, <2>1 DEF SoloInv, PathSafe, Clear, Bound
    <2> QED
      BY <1>3, <2>2, PathAfter DEF Places
  <1> QED
    BY <1>4, <1>5, <1>6

\* A daemon takes the path.
LEMMA PathStepKeeps ==
  ASSUME SoloInv, NEW d \in Daemon,
         Dial(d) \/ Remove(d) \/ Bind(d) \/ Listen(d) \/ Chmod(d)
  PROVE  OneStarting' /\ KeySafe' /\ PathSafe'
  <1>1. d \in Starting
    BY DEF Dial, Remove, Bind, Listen, Chmod, Starting
  <1>2. \A e \in Daemon : e # d => e \notin Starting
    BY <1>1 DEF SoloInv, OneStarting
  <1>3. PICK label \in {"remove", "bind", "listen", "chmod", "up", "unlink", "gone"} :
          /\ \A e \in Daemon : dpc'[e] = (IF e = d THEN label ELSE dpc[e])
          /\ dpc' = [dpc EXCEPT ![d] = label]
          /\ Dial(d) \/ Goto(d, label)
    BY DEF Dial, Remove, Bind, Listen, Chmod, Goto, SoloInv, TypeInv
  <1>4. OneStarting'
    BY <1>1, <1>3, StartingShrinks DEF Places
  <1>5. KeySafe'
    <2>1. keyfile' = keyfile /\ key' = key /\ dpc[d] \in Keyed
      BY DEF Dial, Remove, Bind, Listen, Chmod, Keyed
    <2> QED
      BY <1>3, <2>1 DEF SoloInv, KeySafe
  <1>6. PathSafe'
    <2>1. CASE Dial(d)
      <3>1. PICK reached \in {answers, FALSE} :
              /\ sock' = sock /\ dpc'[d] = (IF reached THEN "gone" ELSE "remove")
              /\ misled' = (misled \/ (answers /\ ~reached))
        <4>1. PICK reached \in (IF d \in told THEN {FALSE} ELSE connects) :
                /\ dpc' = [dpc EXCEPT ![d] = IF reached THEN "gone" ELSE "remove"]
                /\ misled' = (misled \/ (answers /\ ~reached))
                /\ sock' = sock
          BY <2>1 DEF Dial
        <4>2. reached \in {answers, FALSE}
          BY DEF connects
        <4> QED
          BY <4>1, <4>2 DEF SoloInv, TypeInv
      <3> SUFFICES ASSUME ~misled'
                   PROVE  Clear'
        BY DEF PathSafe
      <3>2. ASSUME ~reached, NEW e \in Daemon
            PROVE  dpc[e] \notin Bound
        <4>1. dpc[e] # "listen"
          BY <1>2, <2>1 DEF Starting, Dial
        <4>2. ~answers /\ ~misled
          BY <3>1, <3>2
        <4>3. dpc[e] \notin {"chmod", "up", "unlink"}
          BY <4>2, Distinct DEF answers, SoloInv, PathSafe, Clear, Bound
        <4> QED
          BY <4>1, <4>3 DEF Bound
      <3>3. ~misled
        BY <3>1
      <3>4. CASE reached
        <4>1. sock' = sock /\ dpc'[d] = "gone"
          BY <3>1, <3>4
        <4> QED
          BY <1>3, <3>3, <4>1 DEF SoloInv, PathSafe, Clear, Bound
      <3>5. CASE ~reached
        <4>1. sock' = sock /\ dpc'[d] = "remove"
          BY <3>1, <3>5
        <4> QED
          BY <1>3, <3>2, <3>5, <4>1 DEF Clear, Bound
      <3> QED
        BY <3>4, <3>5
    <2>2. ASSUME ~Dial(d), ~misled
          PROVE  Clear'
      <3>1. CASE Remove(d)
        <4>1. dpc[d] = "remove" /\ dpc'[d] = "bind"
          BY <3>1 DEF Remove, Goto, SoloInv, TypeInv
        <4>2. \A e \in Daemon : dpc[e] \notin Bound
          BY <2>2, <4>1 DEF SoloInv, PathSafe, Clear
        <4> QED
          BY <1>3, <4>1, <4>2 DEF Clear, Bound
      <3>2. CASE Bind(d)
        <4>1. dpc[d] = "bind" /\ ((sock' = d /\ dpc'[d] = "listen") \/ (sock' = sock /\ dpc'[d] = "gone"))
          BY <3>2 DEF Bind, Goto, SoloInv, TypeInv
        <4>2. \A e \in Daemon : dpc[e] \notin Bound
          BY <2>2, <4>1 DEF SoloInv, PathSafe, Clear
        <4>3. \A e \in Daemon : e # d => dpc[e] \notin {"remove", "bind"}
          BY <1>2 DEF Starting
        <4> QED
          BY <1>3, <4>1, <4>2, <4>3 DEF Clear, Bound
      <3>3. CASE Listen(d) \/ Chmod(d)
        <4>1. sock' = sock /\ dpc[d] \in Bound /\ dpc'[d] \notin {"remove", "bind"}
          BY <3>3 DEF Listen, Chmod, Goto, SoloInv, TypeInv, Bound
        <4>2. \A e \in Daemon : e # d => dpc[e] \notin {"remove", "bind"}
          BY <1>2 DEF Starting
        <4> QED
          BY <1>3, <2>2, <4>1, <4>2 DEF SoloInv, PathSafe, Clear
      <3> QED
        BY <2>2, <3>1, <3>2, <3>3
    <2>3. CASE ~Dial(d)
      <3>1. label \in Places
        BY <1>3 DEF Places
      <3> QED
        BY <1>3, <2>2, <2>3, <3>1, PathAfter
    <2> QED
      BY <2>1, <2>3
  <1> QED
    BY <1>4, <1>5, <1>6

\* A daemon ends, in order or not.
LEMMA EndKeeps ==
  ASSUME SoloInv, NEW d \in Daemon, Stop(d) \/ ShutDown(d) \/ Crash(d)
  PROVE  OneStarting' /\ KeySafe' /\ PathSafe'
  <1>1. PICK label \in {"unlink", "close", "gone"} :
          /\ \A e \in Daemon : dpc'[e] = (IF e = d THEN label ELSE dpc[e])
          /\ Goto(d, label) /\ dpc' = [dpc EXCEPT ![d] = label]
    BY DEF Stop, ShutDown, Unlink, CloseSocket, Crash, Goto, SoloInv, TypeInv
  <1>2. OneStarting'
    BY <1>1, StartingShrinks DEF Places
  <1>3. KeySafe'
    <2>1. keyfile' = keyfile /\ key' = key
      BY DEF Stop, ShutDown, Unlink, CloseSocket, Crash
    <2>2. dpc'[d] \in Keyed => dpc[d] \in Keyed
      BY <1>1 DEF Stop, ShutDown, Unlink, CloseSocket, Crash, Keyed, Goto, SoloInv, TypeInv
    <2> QED
      BY <1>1, <2>1, <2>2 DEF SoloInv, KeySafe
  <1>4. ASSUME ~misled
        PROVE  Clear'
    <2>1. CASE Stop(d) \/ CloseSocket(d) \/ Crash(d)
      <3>1. sock' = sock /\ (dpc'[d] \in Bound => dpc[d] \in Bound)
        BY <1>1, <2>1 DEF Stop, CloseSocket, Crash, Bound, Goto, SoloInv, TypeInv
      <3> QED
        BY <1>1, <1>4, <3>1 DEF SoloInv, PathSafe, Clear
    <2>2. CASE Unlink(d)
      <3>1. sock = d /\ dpc'[d] = "close"
        BY <1>4, <2>2 DEF Unlink, Goto, SoloInv, PathSafe, Clear, Bound, TypeInv
      <3>2. \A e \in Daemon : e # d => dpc[e] \notin Bound
        BY <1>4, <3>1 DEF SoloInv, PathSafe, Clear
      <3> QED
        BY <1>1, <3>1, <3>2 DEF Clear, Bound
    <2> QED
      BY <2>1, <2>2 DEF ShutDown
  <1>5. PathSafe'
    BY <1>1, <1>4, PathAfter DEF Places
  <1> QED
    BY <1>2, <1>3, <1>5

LEMMA SoloKeeps ==
  ASSUME MaxStarting <= 1, SoloInv, [Next]_vars
  PROVE  SoloInv'
  <1>1. TypeInv'
    BY TypeKeeps DEF SoloInv
  <1>2. ASSUME NEW d \in Daemon, StartService(d)
        PROVE  OneStarting' /\ KeySafe' /\ PathSafe'
    BY <1>2, BeginKeeps DEF StartService
  <1>3. ASSUME NEW d \in Daemon, StartUp(d)
        PROVE  OneStarting' /\ KeySafe' /\ PathSafe'
    BY <1>3, KeyStepKeeps, PathStepKeeps DEF StartUp
  <1>4. ASSUME NEW d \in Daemon, Stop(d) \/ ShutDown(d) \/ Crash(d)
        PROVE  OneStarting' /\ KeySafe' /\ PathSafe'
    BY <1>4, EndKeeps
  <1>5. ASSUME NEW c \in Command, NEW d \in Daemon, StartDaemon(c, d)
        PROVE  OneStarting' /\ KeySafe' /\ PathSafe'
    BY <1>5, BeginKeeps DEF StartDaemon
  <1>6. ASSUME UNCHANGED <<sock, keyfile, dpc, key, misled>>
        PROVE  OneStarting' /\ KeySafe' /\ PathSafe'
    BY <1>6 DEF SoloInv, OneStarting, Starting, KeySafe, PathSafe, Clear
  <1>7. ASSUME NEW c \in Command, Run(c)
        PROVE  OneStarting' /\ KeySafe' /\ PathSafe'
    BY <1>6, <1>7 DEF Run, Find, Poll, WaitTimeout, Request
  <1>0. ASSUME NEW d \in Daemon, Cancel(d)
        PROVE  OneStarting' /\ KeySafe' /\ PathSafe'
    BY <1>0, <1>6 DEF Cancel
  <1>8. ASSUME UNCHANGED vars
        PROVE  OneStarting' /\ KeySafe' /\ PathSafe'
    BY <1>6, <1>8 DEF vars
  <1>9. OneStarting' /\ KeySafe' /\ PathSafe'
    BY <1>0, <1>2, <1>3, <1>4, <1>5, <1>7, <1>8 DEF Next
  <1> QED
    BY <1>1, <1>9 DEF SoloInv

LEMMA SoloHolds ==
  ASSUME MaxStarting <= 1
  PROVE  Spec => []SoloInv
  BY SoloInit, SoloKeeps, PTL DEF Spec

(***************************************************************************)
(* If daemons start one at a time, the path of the control socket names    *)
(* the socket of the serving daemon, whatever daemons before it did when   *)
(* they ended or crashed (listenControl, runDaemon's deferred Close),      *)
(* unless one of those that are left was there when a start, cancelled or  *)
(* unable to connect, took a live daemon for dead.                         *)
(***************************************************************************)
THEOREM ServingReachable ==
  ASSUME MaxStarting <= 1
  PROVE  Spec => []Reachable
  <1>1. SoloInv => Reachable
    BY DEF SoloInv, PathSafe, Clear, Bound, Reachable, Serving
  <1> QED
    BY <1>1, SoloHolds, PTL

(***************************************************************************)
(* If daemons start one at a time, at most one of them serves, with the    *)
(* same exception: "a daemon is already running" (listenControl) is said   *)
(* by every start that does connect.                                       *)
(***************************************************************************)
THEOREM ServingAlone ==
  ASSUME MaxStarting <= 1
  PROVE  Spec => [](misled \/ OneDaemon)
  <1>1. SoloInv => misled \/ OneDaemon
    BY DEF SoloInv, PathSafe, Clear, Bound, OneDaemon, Serving
  <1> QED
    BY <1>1, SoloHolds, PTL

(***************************************************************************)
(* If daemons start one at a time, a serving daemon uses the identity in   *)
(* identity.key, also after a start that crashed while it created the key  *)
(* (loadOrCreateKey, createKey).                                           *)
(***************************************************************************)
THEOREM ServingIdentity ==
  ASSUME MaxStarting <= 1
  PROVE  Spec => []IdentityPersisted
  <1>1. SoloInv => IdentityPersisted
    BY DEF SoloInv, KeySafe, Keyed, IdentityPersisted, Serving
  <1> QED
    BY <1>1, SoloHolds, PTL
=============================================================================
