----------------------------- MODULE Lifecycle -----------------------------
(***************************************************************************)
(* How daemons come and go (runDaemon, listenControl, loadIdentity) and    *)
(* how commands find one (control, ensureDaemon).  Processes meet in two   *)
(* files: the control socket, which a starting daemon replaces if nobody   *)
(* answers on it, and the identity key.  A step is one system call.        *)
(*                                                                         *)
(*   none     not started             listen   bound, about to listen      *)
(*   key      about to read its key   chmod    listening, about to chmod   *)
(*   create   about to open the key   up       serving                     *)
(*   write    about to write the key  unlink   told to stop                *)
(*   dial     about to try the socket close    its socket file unlinked    *)
(*   remove   about to remove it      gone     ended                       *)
(*   bind     about to bind                                                *)
(*                                                                         *)
(* net's Close of a Unix listener unlinks the socket's path, whatever is   *)
(* there by now, and then closes the socket.                               *)
(*                                                                         *)
(* `misled` is a history: a start failed to connect to a daemon that was   *)
(* there and went on to remove its socket.  It is over when no daemon that *)
(* ran then, or since, is left.                                            *)
(***************************************************************************)
EXTENDS Integers, FiniteSets

CONSTANTS
    Daemon,         \* daemon processes, over the life of the machine
    Command,        \* runs of the command line tool that need a daemon
    MaxStarting,    \* how many daemons may be starting at a time
    DialErrors      \* whether connect(2) may fail although a daemon listens

ASSUME LifecycleAssumption ==
    /\ IsFiniteSet(Daemon) /\ IsFiniteSet(Command)
    /\ Daemon \cap {"none", "partial"} = {}
    /\ MaxStarting \in Nat
    /\ DialErrors \in BOOLEAN

VARIABLES
    sock,       \* whose socket the path names; it may be stale
    keyfile,    \* whose key identity.key holds, if any, or a partial one
    dpc,        \* where each daemon is
    key,        \* the identity each daemon runs with
    told,       \* the daemons whose context was cancelled before they served
    misled,     \* whether a live daemon has been taken for dead
    cpc         \* where each command is

vars == <<sock, keyfile, dpc, key, told, misled, cpc>>

Alive == {d \in Daemon : dpc[d] \notin {"none", "gone"}}

Starting == {d \in Daemon :
    dpc[d] \in {"key", "create", "write", "dial", "remove", "bind", "listen", "chmod"}}

Serving == {d \in Daemon : dpc[d] = "up"}

LifecycleTypeOK ==
    /\ sock \in Daemon \cup {"none"}
    /\ keyfile \in Daemon \cup {"none", "partial"}
    /\ dpc \in [Daemon -> {"none", "key", "create", "write", "dial", "remove", "bind",
                           "listen", "chmod", "up", "unlink", "close", "gone"}]
    /\ key \in [Daemon -> Daemon \cup {"none"}]
    /\ told \subseteq Daemon /\ misled \in BOOLEAN
    /\ cpc \in [Command -> {"idle", "wait", "request", "ok", "failed"}]
    /\ \A d \in Serving : key[d] # "none"

Init ==
    /\ sock = "none"
    /\ keyfile = "none"
    /\ dpc = [d \in Daemon |-> "none"]
    /\ key = [d \in Daemon |-> "none"]
    /\ told = {} /\ misled = FALSE
    /\ cpc = [c \in Command |-> "idle"]

\* A daemon listens on the socket that the path names.
answers == sock # "none" /\ dpc[sock] \in {"chmod", "up", "unlink"}

\* Whether connect(2) on the path succeeds: never if nobody listens, and not
\* always if somebody does (a full backlog, no descriptors left).
connects == IF DialErrors THEN {answers, FALSE} ELSE {answers}

Goto(d, label) ==
    /\ dpc' = [dpc EXCEPT ![d] = label]
    /\ misled' = (misled /\ Alive' # {})

-----------------------------------------------------------------------------
\* A daemon starts

CanStart(d) == dpc[d] = "none" /\ Cardinality(Starting) < MaxStarting

\* The service manager, or the user, runs `tp daemon`.
StartService(d) ==
    /\ CanStart(d)
    /\ Goto(d, "key")
    /\ UNCHANGED <<sock, keyfile, key, told, cpc>>

\* Mutant: makes a new key whether or not there is one.
LoadKeyAfresh(d) ==
    /\ dpc[d] = "key"
    /\ Goto(d, "create")
    /\ UNCHANGED <<sock, keyfile, key, told, cpc>>

\* Mutant: takes an unreadable key for good.
LoadKeyUnchecked(d) ==
    /\ dpc[d] = "key"
    /\ Goto(d, IF keyfile = "none" THEN "create" ELSE "dial")
    /\ key' = IF keyfile \in Daemon THEN [key EXCEPT ![d] = keyfile] ELSE key
    /\ UNCHANGED <<sock, keyfile, told, cpc>>

\* loadOrCreateKey: a missing key is created, a partial one is an error.
LoadKey(d) ==
    /\ dpc[d] = "key"
    /\ Goto(d, CASE keyfile = "none" -> "create"
                 [] keyfile = "partial" -> "gone"
                 [] OTHER -> "dial")
    /\ key' = IF keyfile \in Daemon THEN [key EXCEPT ![d] = keyfile] ELSE key
    /\ UNCHANGED <<sock, keyfile, told, cpc>>

\* createKey: WriteFile creates or truncates the file ...
OpenKey(d) ==
    /\ dpc[d] = "create"
    /\ Goto(d, "write")
    /\ keyfile' = "partial"
    /\ UNCHANGED <<sock, key, told, cpc>>

\* ... and writes the new key, with which the daemon goes on.
WriteKey(d) ==
    /\ dpc[d] = "write"
    /\ Goto(d, "dial")
    /\ keyfile' = d
    /\ key' = [key EXCEPT ![d] = d]
    /\ UNCHANGED <<sock, told, cpc>>

\* listenControl gives way to a daemon it reaches.  If DialContext fails, be it
\* because the start has been cancelled, ...
Dial(d) ==
    /\ dpc[d] = "dial"
    /\ \E reached \in (IF d \in told THEN {FALSE} ELSE connects) :
        /\ dpc' = [dpc EXCEPT ![d] = IF reached THEN "gone" ELSE "remove"]
        /\ misled' = (misled \/ (answers /\ ~reached))
    /\ UNCHANGED <<sock, keyfile, key, told, cpc>>

\* ... it removes the socket, ...
Remove(d) ==
    /\ dpc[d] = "remove"
    /\ Goto(d, "bind")
    /\ sock' = "none"
    /\ UNCHANGED <<keyfile, key, told, cpc>>

\* ... binds its own, unless there is one again, ...
Bind(d) ==
    /\ dpc[d] = "bind"
    /\ IF sock = "none"
       THEN Goto(d, "listen") /\ sock' = d
       ELSE Goto(d, "gone") /\ UNCHANGED sock
    /\ UNCHANGED <<keyfile, key, told, cpc>>

Listen(d) ==
    /\ dpc[d] = "listen"
    /\ Goto(d, "chmod")
    /\ UNCHANGED <<sock, keyfile, key, told, cpc>>

\* ... and restricts it.  That fails if the path is gone, and closes the listener;
\* otherwise runDaemon serves, unless it has been told to stop.
Chmod(d) ==
    /\ dpc[d] = "chmod"
    /\ Goto(d, IF sock = "none" \/ d \in told THEN "unlink" ELSE "up")
    /\ UNCHANGED <<sock, keyfile, key, told, cpc>>

-----------------------------------------------------------------------------
\* A daemon ends

\* A signal cancels the context of a daemon that is still starting, which goes on.
Cancel(d) ==
    /\ d \in Starting \ told
    /\ told' = told \cup {d}
    /\ UNCHANGED <<sock, keyfile, dpc, key, misled, cpc>>

\* runDaemon's context is cancelled: a signal, or the daemon was idle.
Stop(d) ==
    /\ dpc[d] = "up"
    /\ Goto(d, "unlink")
    /\ UNCHANGED <<sock, keyfile, key, told, cpc>>

\* Mutant: unlinks only once its socket is closed.
UnlinkLate(d) ==
    /\ dpc[d] \in {"unlink", "close"}
    /\ IF dpc[d] = "unlink"
       THEN Goto(d, "close") /\ UNCHANGED sock
       ELSE Goto(d, "gone") /\ sock' = "none"
    /\ UNCHANGED <<keyfile, key, told, cpc>>

\* The deferred Close unlinks the path ...
Unlink(d) ==
    /\ dpc[d] = "unlink"
    /\ Goto(d, "close")
    /\ sock' = "none"
    /\ UNCHANGED <<keyfile, key, told, cpc>>

\* ... and closes the socket.
CloseSocket(d) ==
    /\ dpc[d] = "close"
    /\ Goto(d, "gone")
    /\ UNCHANGED <<sock, keyfile, key, told, cpc>>

\* A daemon is killed, or the machine goes down, between any two steps; or a start
\* ends with an error before it listens.
Crash(d) ==
    /\ dpc[d] \notin {"none", "gone"}
    /\ Goto(d, "gone")
    /\ UNCHANGED <<sock, keyfile, key, told, cpc>>

-----------------------------------------------------------------------------
\* A command

\* ensureDaemon reaches a daemon ...
Find(c) ==
    /\ cpc[c] = "idle" /\ TRUE \in connects
    /\ cpc' = [cpc EXCEPT ![c] = "request"]
    /\ UNCHANGED <<sock, keyfile, dpc, key, told, misled>>

\* ... or runs a daemon and waits for its socket.
StartDaemon(c, d) ==
    /\ cpc[c] = "idle" /\ FALSE \in connects
    /\ CanStart(d)
    /\ Goto(d, "key")
    /\ cpc' = [cpc EXCEPT ![c] = "wait"]
    /\ UNCHANGED <<sock, keyfile, key, told>>

\* waitForSock's loop: somebody answers, the daemon it started or another one, ...
Poll(c) ==
    /\ cpc[c] = "wait" /\ TRUE \in connects
    /\ cpc' = [cpc EXCEPT ![c] = "request"]
    /\ UNCHANGED <<sock, keyfile, dpc, key, told, misled>>

\* Mutant: gives up only when its daemon is known to have failed.
WaitForever(c) ==
    /\ cpc[c] = "wait" /\ \A d \in Daemon : dpc[d] = "gone"
    /\ cpc' = [cpc EXCEPT ![c] = "failed"]
    /\ UNCHANGED <<sock, keyfile, dpc, key, told, misled>>

\* ... or five seconds have passed.
WaitTimeout(c) ==
    /\ cpc[c] = "wait"
    /\ cpc' = [cpc EXCEPT ![c] = "failed"]
    /\ UNCHANGED <<sock, keyfile, dpc, key, told, misled>>

\* control connects again to send its request, which fails if the daemon that
\* answered has ended meanwhile.
Request(c) ==
    /\ cpc[c] = "request"
    /\ \E reached \in connects :
        cpc' = [cpc EXCEPT ![c] = IF reached THEN "ok" ELSE "failed"]
    /\ UNCHANGED <<sock, keyfile, dpc, key, told, misled>>

-----------------------------------------------------------------------------
StartUp(d) ==
    \/ LoadKey(d) \/ OpenKey(d) \/ WriteKey(d)
    \/ Dial(d) \/ Remove(d) \/ Bind(d) \/ Listen(d) \/ Chmod(d)

ShutDown(d) == Unlink(d) \/ CloseSocket(d)

Run(c) == Find(c) \/ Poll(c) \/ WaitTimeout(c) \/ Request(c)

Next ==
    \/ \E d \in Daemon :
        StartService(d) \/ StartUp(d) \/ Cancel(d) \/ Stop(d) \/ ShutDown(d) \/ Crash(d)
    \/ \E c \in Command : Run(c) \/ \E d \in Daemon : StartDaemon(c, d)

Spec == Init /\ [][Next]_vars

\* Processes are scheduled; nobody has to start, stop or crash a daemon.
FairSpec ==
    /\ Spec
    /\ \A d \in Daemon : WF_vars(StartUp(d)) /\ WF_vars(ShutDown(d))
    /\ \A c \in Command : WF_vars(Run(c))

-----------------------------------------------------------------------------
(***************************************************************************)
(* "a daemon is already running" (listenControl): no two daemons serve at  *)
(* the same time.                                                          *)
(***************************************************************************)
OneDaemon == \A d, e \in Serving : d = e

(***************************************************************************)
(* A serving daemon, and with it the pastes it holds, can be reached by    *)
(* commands: the path names its socket, although older daemons unlink the  *)
(* path when they end and starting ones remove it (listenControl,          *)
(* runDaemon's deferred Close).  What can cut a daemon off is a start that *)
(* fails to connect to it, and that is forgotten with the daemons that     *)
(* were there: whoever starts after them is safe again.                    *)
(***************************************************************************)
Reachable == misled \/ \A d \in Serving : sock = d

(***************************************************************************)
(* "host IDs and pins must remain tied to the persisted key"               *)
(* (loadOrCreateKey): a serving daemon uses the identity its successors    *)
(* will read.                                                              *)
(***************************************************************************)
IdentityPersisted == \A d \in Serving : key[d] = keyfile

(***************************************************************************)
(* A command that started a daemon ends, also when the daemon does not     *)
(* come up (waitForSock).                                                  *)
(***************************************************************************)
CommandsEnd == \A c \in Command : cpc[c] = "wait" ~> cpc[c] \in {"ok", "failed"}
=============================================================================
