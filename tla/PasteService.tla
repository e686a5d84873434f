---------------------------- MODULE PasteService ----------------------------
(***************************************************************************)
(* What the daemon promises the people who post and fetch, with no         *)
(* handshakes, locks, clocks or sweeps.  A paste is on the shelf from the  *)
(* moment it is published until its last permitted fetch, or until it is   *)
(* withdrawn: deleted, expired, or lost with the daemon.  Only a client    *)
(* that holds the code of a paste on the shelf fetches it, in one step.    *)
(***************************************************************************)
EXTENDS Integers, Sequences, FiniteSets

CONSTANTS
    Code,       \* codes
    Client,     \* those who fetch
    Limits      \* how often a paste may be fetched; 0 is any number of times

VARIABLES
    published,  \* every paste published so far: its code and its limit
    shelf,      \* the pastes that can be fetched
    holds,      \* the code each client holds, or "none"
    fetched     \* the paste each client fetched, or 0

serviceVars == <<published, shelf, holds, fetched>>

Init ==
    /\ published = <<>>
    /\ shelf = {}
    /\ holds = [c \in Client |-> "none"]
    /\ fetched = [c \in Client |-> 0]

Arrive(c, code) ==
    /\ holds[c] = "none"
    /\ holds' = [holds EXCEPT ![c] = code]
    /\ UNCHANGED <<published, shelf, fetched>>

\* A code names one paste at a time.  A lifetime that rounds to nothing leaves
\* the paste withdrawn as soon as it is published.
Publish(code, limit, stillborn) ==
    /\ \A id \in shelf : published[id].prs # code
    /\ published' = Append(published, [prs |-> code, MaxGets |-> limit])
    /\ shelf' = IF stillborn THEN shelf ELSE shelf \cup {Len(published) + 1}
    /\ UNCHANGED <<holds, fetched>>

Fetch(c, id) ==
    /\ id \in shelf
    /\ fetched[c] = 0
    /\ published[id].prs = holds[c]
    /\ fetched' = [fetched EXCEPT ![c] = id]
    /\ LET limit == published[id].MaxGets
           last  == limit > 0 /\ Cardinality({d \in Client : fetched'[d] = id}) = limit
       IN  shelf' = IF last THEN shelf \ {id} ELSE shelf
    /\ UNCHANGED <<published, holds>>

Withdraw(ids) ==
    /\ shelf' = shelf \ ids
    /\ UNCHANGED <<published, holds, fetched>>

Next ==
    \/ \E c \in Client, code \in Code : Arrive(c, code)
    \/ \E code \in Code, limit \in Limits, stillborn \in BOOLEAN : Publish(code, limit, stillborn)
    \/ \E c \in Client, id \in shelf : Fetch(c, id)
    \/ \E ids \in SUBSET shelf : Withdraw(ids)

Spec == Init /\ [][Next]_serviceVars
=============================================================================
