------------------------------- MODULE Store -------------------------------
(***************************************************************************)
(* The in-memory paste store (store.go).  Every method of the store runs   *)
(* under its mutex and is therefore one atomic operation; the operators    *)
(* below give each one's effect and result.  The caller supplies the time  *)
(* the method reads.                                                       *)
(*                                                                         *)
(* The hardened secret `prs` of a paste is a member of Prs and doubles as  *)
(* the map key (pasteKey is its injective hex form).  Payloads are told    *)
(* apart by the paste they were posted with: the body of the i-th accepted *)
(* paste is the number i, and Zeroed is a payload after clear().           *)
(***************************************************************************)
EXTENDS Integers, Sequences, FiniteSets

CONSTANTS
    Prs,            \* hardened secrets a posted paste may be given
    MaxPastes,      \* maxPastes
    MinCandidates,  \* minCandidates
    MaxCandidates   \* maxCandidates

ASSUME StoreAssumption ==
    /\ MaxPastes \in Nat \ {0}
    /\ MinCandidates \in Nat \ {0}
    /\ MaxCandidates \in Nat \ {0}
    /\ MaxPastes < MaxCandidates

VARIABLES
    m,       \* store.m: the entries, by secret
    mem,     \* the pastes whose payload is still somewhere in the store's memory
    posted   \* history: every paste ever accepted, in order

storeVars == <<m, mem, posted>>

Zeroed == -1

PasteIds == 1..Len(posted)

Paste == [id : Nat \ {0}, ExpiresAt : Int, MaxGets : Nat, Gets : Nat, Burned : BOOLEAN]

StoreTypeOK ==
    /\ DOMAIN m \subseteq Prs
    /\ \A prs \in DOMAIN m : m[prs] \in Paste
    /\ posted \in Seq([prs : Prs, MaxGets : Nat])
    /\ mem \subseteq PasteIds

StoreInit ==
    /\ m = [prs \in {} |-> 0]
    /\ mem = {}
    /\ posted = <<>>

-----------------------------------------------------------------------------
\* Reading the store

Expired(p, t) == t > p.ExpiresAt

\* The test shared by candidates and take.
Retrievable(prs, t) ==
    prs \in DOMAIN m /\ ~m[prs].Burned /\ ~Expired(m[prs], t)

\* paddedCount's loop: the bucket doubles until it has the room asked for.
roomFor(room) ==
    LET double[n \in Nat] ==
            IF n < room /\ n < MaxCandidates THEN double[2 * n] ELSE n
    IN  double[MinCandidates]

\* Mutant: forgets the slot reserved for a decoy.
PaddedCountNoDecoy(live) == roomFor(live)

paddedCount(live) == roomFor(live + 1)

\* candidates: the live secrets and how many slots the shuffled offer has.  Every
\* slot beyond the live secrets holds the decoy, which no client can match.
candidates(t) ==
    LET live == {prs \in DOMAIN m : Retrievable(prs, t)}
        n    == Cardinality(live)
        pad  == paddedCount(n)
    IN  [live |-> live, slots |-> IF n < pad THEN pad ELSE n]

\* len(list()): burned entries are listed until they expire.
listLen == Cardinality(DOMAIN m)

-----------------------------------------------------------------------------
\* Changing the store

\* Mutant: does not notice that the code is taken.
AddIgnoresCollision(prs) == IF listLen >= MaxPastes THEN "too many" ELSE "none"

addError(prs) ==
    IF listLen >= MaxPastes THEN "too many"
    ELSE IF prs \in DOMAIN m THEN "collision"
    ELSE "none"

add(prs, expires, maxGets) ==
    LET id == Len(posted) + 1
        p  == [id |-> id, ExpiresAt |-> expires, MaxGets |-> maxGets,
               Gets |-> 0, Burned |-> FALSE]
    IN  IF addError(prs) = "none"
        THEN /\ m' = [q \in DOMAIN m \cup {prs} |-> IF q = prs THEN p ELSE m[q]]
             /\ mem' = mem \cup {id}
             /\ posted' = Append(posted, [prs |-> prs, MaxGets |-> maxGets])
        ELSE UNCHANGED storeVars

\* Mutant: the limit is compared before the get is counted.
LastGetOffByOne(p) == p.MaxGets > 0 /\ p.Gets >= p.MaxGets

\* Whether one more get exhausts the paste.
LastGet(p) == p.MaxGets > 0 /\ p.Gets + 1 >= p.MaxGets

\* Mutant: the payload is copied after it has been burned.
CopiedAfterBurn(prs) ==
    IF m[prs].id \in mem /\ ~LastGet(m[prs]) THEN m[prs].id ELSE Zeroed

\* The copy of the payload take hands out, made before any burn.
copied(prs) == IF m[prs].id \in mem THEN m[prs].id ELSE Zeroed

\* take past its checks: count the get; the last one burns the paste, which
\* clears the payload and keeps the entry.
countGet(prs) ==
    LET p == m[prs] IN
    /\ m' = [m EXCEPT ![prs].Gets = p.Gets + 1, ![prs].Burned = LastGet(p)]
    /\ mem' = IF LastGet(p) THEN mem \ {p.id} ELSE mem
    /\ UNCHANGED posted

\* Mutant: counts the get before it looks at the expiry time.
TakeCountsExpired(prs, t) ==
    IF prs \in DOMAIN m /\ ~m[prs].Burned
    THEN countGet(prs)
    ELSE UNCHANGED storeVars

take(prs, t) ==
    IF Retrievable(prs, t) THEN countGet(prs) ELSE UNCHANGED storeVars

\* Mutant: deletes the entries without burning them.
ForgetsToBurn(S) ==
    /\ m' = [prs \in DOMAIN m \ S |-> m[prs]]
    /\ UNCHANGED <<mem, posted>>

\* burn and delete, for every key of S: the loop body of del, clear and sweep.
burnAndDelete(S) ==
    /\ m' = [prs \in DOMAIN m \ S |-> m[prs]]
    /\ mem' = mem \ {m[prs].id : prs \in S \cap DOMAIN m}
    /\ UNCHANGED posted

del(prs) == burnAndDelete({prs})

clear == burnAndDelete(DOMAIN m)

\* Mutant: skips the pastes that are already burned.
SweepSkipsBurned(t) ==
    burnAndDelete({prs \in DOMAIN m : ~m[prs].Burned /\ Expired(m[prs], t)})

\* sweep, with the time it read before it took the lock.
storeSweep(t) == burnAndDelete({prs \in DOMAIN m : Expired(m[prs], t)})
=============================================================================
