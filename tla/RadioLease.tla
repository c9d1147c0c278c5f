----------------------------- MODULE RadioLease -----------------------------
(***************************************************************************)
(* What the radio manager promises its clients (the doc comment of         *)
(* RadioManager in rigflow-server/src/radio/manager.rs): one active lease  *)
(* per radio, a worker driven only on behalf of the lease that started it, *)
(* and worker startup and shutdown tied to acquire and release.            *)
(***************************************************************************)
CONSTANTS Radios, Leases, None

VARIABLES
    holder,     \* [Radios -> Leases or None]: the lease in force
    driven      \* [Radios -> Leases or None]: whose commands reach a worker

lvars == <<holder, driven>>

Init ==
    /\ holder = [r \in Radios |-> None]
    /\ driven = [r \in Radios |-> None]

\* A free radio is leased, under an id no radio is leased or driven under.
Grant(r, l) ==
    /\ holder[r] = None
    /\ \A q \in Radios : l \notin {holder[q], driven[q]}
    /\ holder' = [holder EXCEPT ![r] = l]
    /\ UNCHANGED driven

\* The worker started for the lease begins to take its commands.
Drive(r) ==
    /\ holder[r] # None
    /\ driven[r] = None
    /\ driven' = [driven EXCEPT ![r] = holder[r]]
    /\ UNCHANGED holder

\* The workers of some radios (all of them at shutdown) stop taking commands.
Halt(S) ==
    /\ driven' = [r \in Radios |-> IF r \in S THEN None ELSE driven[r]]
    /\ UNCHANGED holder

\* A lease ends only when nothing is driven under it any more.
Free(r) ==
    /\ holder[r] # None
    /\ driven[r] = None
    /\ holder' = [holder EXCEPT ![r] = None]
    /\ UNCHANGED driven

Next ==
    \/ \E r \in Radios : Drive(r) \/ Free(r) \/ \E l \in Leases : Grant(r, l)
    \/ \E S \in SUBSET Radios : Halt(S)

Spec == Init /\ [][Next]_lvars
=============================================================================
