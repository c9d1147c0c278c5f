-------------------------- MODULE RadioManagerInv --------------------------
(***************************************************************************)
(* The inductive invariant of RadioManager: what every step of every task  *)
(* keeps, given that a lease outlives the acquire that took it             *)
(* (TtlCoversStartup).  RadioManagerProofs proves it; the safety           *)
(* properties of RadioManager follow from it.                              *)
(***************************************************************************)
EXTENDS RadioManager

Busy == {"install", "await", "cleanup", "release"}
Starting == {"install", "await", "cleanup"}

\* Which task may be doing what, and what its locals hold meanwhile.
JobsWellFormed ==
    /\ \A t \in Tasks :
        /\ job[t].pc = "idle" => job[t] = Idle
        /\ job[t].pc \in Busy => job[t].radio \in Radios /\ job[t].lease \in Leases
        /\ job[t].pc \in {"install", "await", "release", "send"} =>
               job[t].worker = job[t].lease
        /\ job[t].pc \in {"send", "halt"} => job[t].worker \in Leases
        /\ job[t].pc = "cleanup" => job[t].worker \in {job[t].lease, None}
    /\ job[Expiry].pc \in {"idle", "release"}
    /\ job[Shutdown].pc \in {"idle", "halt"}

\* An unknown radio is absent from the map, so nothing of it is left.
AbsentIsEmpty ==
    \A r \in Radios : ~radio[r].known => radio[r].lease = None

\* An id names one lease.
LeasesDiffer ==
    \A r, q \in Radios :
        radio[r].lease # None /\ radio[r].lease = radio[q].lease => r = q

\* A task that took the runtime, or has not stored it yet, leaves none behind.
BusyRuntime ==
    \A t \in Tasks :
        /\ job[t].pc \in {"install", "cleanup", "release"} =>
               radio[job[t].radio].runtime = None
        /\ job[t].pc = "await" /\ mode = "up" =>
               radio[job[t].radio].runtime = job[t].lease

\* At most one task is in the middle of an acquire or a release of a radio.
OneTaskPerRadio ==
    \A t, u \in Tasks :
        job[t].pc \in Busy /\ job[u].pc \in Busy /\ t # u => job[t].radio # job[u].radio

\* The lease of an acquire in progress is known to its client alone, and the
\* expiry loop is not after it.
AcquirerAlone ==
    \A c \in Clients : job[c].pc \in Starting =>
        /\ radio[job[c].radio].client = c
        /\ session[c] = None
        /\ job[c].lease \notin expired
        /\ \A claim \in todo : claim.lease # job[c].lease

\* shutdown_all has nothing in hand before it runs.
HaltingLate == mode = "up" => halting = {}

IInv ==
    /\ TypeOK
    /\ JobsWellFormed
    /\ AbsentIsEmpty
    /\ LeasesDiffer
    /\ RuntimeServesLease
    /\ RunningIsServed
    /\ AvailableIsFree
    /\ FinisherOwnsLease
    /\ BusyRuntime
    /\ OneTaskPerRadio
    /\ AcquirerAlone
    /\ NoOrphanWorker
    /\ HaltingLate
=============================================================================
