---------------------------- MODULE AtomicStore ----------------------------
(***************************************************************************)
(* What a state file promises its callers: an update happens at one        *)
(* moment and is kept from then on, or does not happen at all; a lookup    *)
(* sees the value of one moment; an error or a crash changes nothing.      *)
(***************************************************************************)
CONSTANTS Writers, Readers    \* the requests that update and that look up

Requests == Writers \cup Readers

VARIABLES
    value,      \* the updates the file holds
    outcome,    \* per request: "pending", "ok" or "err"
    view        \* per request: what a lookup saw

vars == <<value, outcome, view>>

Init ==
    /\ value = {}
    /\ outcome = [r \in Requests |-> "pending"]
    /\ view = [r \in Requests |-> {}]

Update(w) ==
    /\ outcome[w] = "pending"
    /\ value' = value \cup {w}
    /\ outcome' = [outcome EXCEPT ![w] = "ok"]
    /\ UNCHANGED view

Lookup(r) ==
    /\ outcome[r] = "pending"
    /\ view' = [view EXCEPT ![r] = value]
    /\ outcome' = [outcome EXCEPT ![r] = "ok"]
    /\ UNCHANGED value

\* One request fails, or a crash of the daemon ends several.
Abort(S) ==
    /\ \A r \in S : outcome[r] = "pending"
    /\ outcome' = [r \in Requests |-> IF r \in S THEN "err" ELSE outcome[r]]
    /\ UNCHANGED <<value, view>>

Next ==
    \/ \E w \in Writers : Update(w)
    \/ \E r \in Readers : Lookup(r)
    \/ \E S \in SUBSET Requests : Abort(S)

Spec == Init /\ [][Next]_vars
=============================================================================
