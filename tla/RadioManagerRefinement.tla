----------------------- MODULE RadioManagerRefinement -----------------------
(***************************************************************************)
(* That the radio manager implements RadioLease: the lease of a radio is   *)
(* the abstract holder, its stored runtime is what the holder drives, and  *)
(* every critical section of manager.rs is a step of RadioLease or leaves  *)
(* both alone.  The hand-over property follows step by step in the same    *)
(* way.  Both rest on the inductive invariant of RadioManagerProofs.       *)
(***************************************************************************)
EXTENDS RadioManagerProofs

(***************************************************************************)
(* What a step may do to the lease and the runtime of the radios.          *)
(***************************************************************************)

\* Radio r is as it was, as far as RadioLease sees it.
Same(r) == radio'[r].lease = radio[r].lease /\ radio'[r].runtime = radio[r].runtime
SameBut(r) == \A q \in Radios : q # r => Same(q)

Kept == \A r \in Radios : Same(r)

Granted ==
    \E r \in Radios, l \in Leases :
        /\ SameBut(r)
        /\ \A q \in Radios : l \notin {radio[q].lease, radio[q].runtime}
        /\ radio[r].lease = None /\ radio'[r].lease = l
        /\ radio'[r].runtime = radio[r].runtime

Driven ==
    \E r \in Radios :
        /\ SameBut(r)
        /\ radio[r].lease # None /\ radio'[r].lease = radio[r].lease
        /\ radio[r].runtime = None /\ radio'[r].runtime = radio[r].lease

Halted ==
    \E S \in SUBSET Radios : \A q \in Radios :
        /\ radio'[q].lease = radio[q].lease
        /\ radio'[q].runtime = IF q \in S THEN None ELSE radio[q].runtime

Freed ==
    \E r \in Radios :
        /\ SameBut(r)
        /\ radio[r].lease # None /\ radio'[r].lease = None
        /\ radio[r].runtime = None /\ radio'[r].runtime = None
        /\ ~Serving(radio[r].lease) \/ radio[r].lease \in halting

Effect == Kept \/ Granted \/ Driven \/ Halted \/ Freed

\* A worker whose runtime was taken by the task that finishes its lease has been told
\* to stop: otherwise it could not be told any more.
LEMMA TakenIsTold ==
    ASSUME IInv, NEW t \in Tasks, job[t].pc \in {"cleanup", "release"}
    PROVE  /\ job[t].radio \in Radios
           /\ radio[job[t].radio].lease = job[t].lease /\ job[t].lease \in Leases
           /\ radio[job[t].radio].runtime = None
           /\ ~Serving(job[t].lease) \/ job[t].lease \in halting
  <1>1. /\ job[t].radio \in Radios /\ job[t].lease \in Leases
        /\ radio[job[t].radio].lease = job[t].lease
        /\ radio[job[t].radio].runtime = None
    BY DEF IInv, JobsWellFormed, FinisherOwnsLease, BusyRuntime, Busy
  <1>2. job[t].lease # None
    BY <1>1, ConstantsAssumption
  <1>3. ASSUME NEW r \in Radios, radio[r].runtime = job[t].lease
        PROVE  FALSE
    <2>1. radio[r].lease = job[t].lease
      BY <1>2, <1>3 DEF IInv, RuntimeServesLease
    <2>2. r = job[t].radio
      BY <1>1, <1>2, <2>1 DEF IInv, LeasesDiffer
    <2>3. QED
      BY <1>1, <1>2, <1>3, <2>2
  <1>4. ASSUME NEW c \in Clients, job[c].pc = "install", job[c].worker = job[t].lease
        PROVE  FALSE
    <2>1. /\ c \in Tasks /\ c # t
          /\ job[c].radio \in Radios /\ job[c].lease = job[t].lease
          /\ radio[job[c].radio].lease = job[t].lease
      BY <1>4 DEF IInv, JobsWellFormed, FinisherOwnsLease, Busy, Tasks
    <2>2. job[c].radio = job[t].radio
      BY <1>1, <1>2, <2>1 DEF IInv, LeasesDiffer
    <2>3. QED
      BY <1>4, <2>1, <2>2 DEF IInv, OneTaskPerRadio, Busy
  <1>5. ~Serving(job[t].lease) \/ job[t].lease \in halting
    BY <1>1, <1>3, <1>4 DEF IInv, NoOrphanWorker
  <1>6. QED
    BY <1>1, <1>5

(***************************************************************************)
(* The effect of each action.                                              *)
(***************************************************************************)

\* Steps that do not write the map have no effect on it.
LEMMA UnchangedEffect ==
    ASSUME UNCHANGED radio
    PROVE  Effect
  BY DEF Effect, Kept, Same

\* The lease is taken under an id nothing refers to.
LEMMA ReserveEffect ==
    ASSUME IInv, NEW c \in Clients, NEW r \in Radios, NEW l \in Leases, Reserve(c, r, l)
    PROVE  Granted
  <1>1. radio \in [Radios -> RadioRecord]
    BY DEF IInv, TypeOK
  <1>2. /\ SameBut(r) /\ radio[r].lease = None
        /\ radio'[r].lease = l /\ radio'[r].runtime = radio[r].runtime
    BY <1>1 DEF Reserve, SameBut, Same, RadioRecord
  <1>3. \A q \in Radios : l \notin {radio[q].lease, radio[q].runtime}
    BY DEF Reserve, Referenced
  <1>4. QED
    BY <1>2, <1>3 DEF Granted

\* Storing the runtime begins to drive the lease; the radio has not disappeared.
LEMMA InstallEffect ==
    ASSUME IInv, NEW c \in Clients, Install(c)
    PROVE  Driven
  <1>1. /\ radio \in [Radios -> RadioRecord]
        /\ job[c].radio \in Radios /\ job[c].lease \in Leases
        /\ radio[job[c].radio].known /\ radio[job[c].radio].lease = job[c].lease
        /\ radio[job[c].radio].runtime = None
    BY DEF IInv, TypeOK, JobsWellFormed, FinisherOwnsLease, BusyRuntime, Busy, Tasks,
       Install
  <1>2. job[c].lease # None
    BY <1>1, ConstantsAssumption
  <1>3. radio' = [radio EXCEPT ![job[c].radio].runtime = job[c].lease]
    BY <1>1 DEF Install
  <1>4. /\ SameBut(job[c].radio)
        /\ radio'[job[c].radio].lease = radio[job[c].radio].lease
        /\ radio'[job[c].radio].runtime = job[c].lease
    BY <1>1, <1>3 DEF SameBut, Same, RadioRecord
  <1>5. QED
    BY <1>1, <1>2, <1>4 DEF Driven

\* Marking the radio Running touches neither.
LEMMA ReadyEffect ==
    ASSUME IInv, NEW c \in Clients, Ready(c)
    PROVE  Kept
  <1>1. radio \in [Radios -> RadioRecord]
    BY DEF IInv, TypeOK
  <1>2. QED
    BY <1>1 DEF Ready, Kept, Same, RadioRecord

\* A runtime is taken from one radio.
LEMMA TakenEffect ==
    ASSUME radio \in [Radios -> RadioRecord], NEW r \in Radios, NEW s,
           radio' = [radio EXCEPT ![r] = [@ EXCEPT !.state = s, !.runtime = None]]
    PROVE  Halted
  <1>1. {r} \in SUBSET Radios
    OBVIOUS
  <1>2. \A q \in Radios :
            /\ radio'[q].lease = radio[q].lease
            /\ radio'[q].runtime = IF q \in {r} THEN None ELSE radio[q].runtime
    BY DEF RadioRecord
  <1>3. QED
    BY <1>1, <1>2 DEF Halted

\* A failed start takes its runtime.
LEMMA StartFailsEffect ==
    ASSUME IInv, NEW c \in Clients, StartFails(c)
    PROVE  Halted
  <1>1. /\ radio \in [Radios -> RadioRecord]
        /\ job[c].radio \in Radios /\ radio[job[c].radio].known
    BY DEF IInv, TypeOK, JobsWellFormed, FinisherOwnsLease, Busy, Tasks, StartFails
  <1>2. radio' = [radio EXCEPT ![job[c].radio] =
                     [@ EXCEPT !.state = "Faulted", !.runtime = None]]
    BY <1>1 DEF StartFails
  <1>3. QED
    BY <1>1, <1>2, TakenEffect

\* A failed start frees the radio it took.
LEMMA FinishCleanupEffect ==
    ASSUME IInv, NEW c \in Clients, FinishCleanup(c)
    PROVE  Freed
  <1>1. c \in Tasks /\ job[c].pc = "cleanup"
    BY DEF Tasks, FinishCleanup
  <1>2. /\ job[c].radio \in Radios /\ job[c].lease \in Leases
        /\ radio[job[c].radio].lease = job[c].lease /\ radio[job[c].radio].runtime = None
        /\ ~Serving(job[c].lease) \/ job[c].lease \in halting
    BY <1>1, TakenIsTold
  <1>3. /\ SameBut(job[c].radio)
        /\ radio'[job[c].radio].lease = None /\ radio'[job[c].radio].runtime = None
    BY <1>2 DEF IInv, TypeOK, FinishCleanup, SameBut, Same, IdleRadio
  <1>4. QED
    BY <1>2, <1>3, ConstantsAssumption DEF Freed

\* A release frees the radio it took the runtime of.
LEMMA FinishReleaseEffect ==
    ASSUME IInv, NEW t \in Tasks, FinishRelease(t)
    PROVE  Freed
  <1>1. job[t].pc = "release" /\ radio \in [Radios -> RadioRecord]
    BY DEF FinishRelease, IInv, TypeOK
  <1>2. /\ job[t].radio \in Radios /\ job[t].lease \in Leases
        /\ radio[job[t].radio].lease = job[t].lease /\ radio[job[t].radio].runtime = None
        /\ ~Serving(job[t].lease) \/ job[t].lease \in halting
    BY <1>1, TakenIsTold
  <1>3. /\ SameBut(job[t].radio)
        /\ radio'[job[t].radio].lease = None /\ radio'[job[t].radio].runtime = None
    BY <1>1, <1>2 DEF FinishRelease, SameBut, Same, RadioRecord
  <1>4. QED
    BY <1>2, <1>3, ConstantsAssumption DEF Freed

\* A release halts the radio, accepted, or leaves lease and runtime alone, refused.
LEMMA TakeEffect ==
    ASSUME IInv, NEW t, NEW c, NEW r \in Radios, NEW l,
           Take(t, c, r, l) \/ Refused(c, r, l)
    PROVE  Effect
  <1>1. radio \in [Radios -> RadioRecord]
    BY DEF IInv, TypeOK
  <1>2. CASE Take(t, c, r, l)
    BY <1>1, <1>2, TakenEffect DEF Take, Effect
  <1>3. CASE Refused(c, r, l)
    BY <1>1, <1>3 DEF Refused, Effect, Kept, Same, RadioRecord
  <1>4. QED
    BY <1>2, <1>3

\* A radio that a rescan adds or prunes has neither a lease nor a runtime.
LEMMA RescanEffect ==
    ASSUME IInv, NEW c \in Clients, NEW seen \in SUBSET Radios, Rescan(c, seen)
    PROVE  Kept
  <1> SUFFICES ASSUME NEW r \in Radios
               PROVE  Same(r)
    BY DEF Kept
  <1>1. radio[r].lease = None => radio[r].runtime = None
    BY DEF IInv, RuntimeServesLease
  <1>2. ~radio[r].known => radio[r].lease = None
    BY DEF IInv, AbsentIsEmpty
  <1>3. \/ radio'[r] = radio[r]
        \/ radio[r].lease = None /\ radio'[r] \in {IdleRadio(TRUE), IdleRadio(FALSE)}
    BY <1>2 DEF Rescan
  <1>4. \A b \in BOOLEAN : IdleRadio(b).lease = None /\ IdleRadio(b).runtime = None
    BY DEF IdleRadio
  <1>5. QED
    BY <1>1, <1>3, <1>4 DEF Same

\* shutdown_all takes every runtime.
LEMMA ShutdownAllEffect ==
    ASSUME IInv, ShutdownAll
    PROVE  Halted
  <1>1. radio \in [Radios -> RadioRecord]
    BY DEF IInv, TypeOK
  <1>2. \A q \in Radios :
            radio'[q].lease = radio[q].lease /\ radio'[q].runtime = None
    BY <1>1 DEF ShutdownAll, RadioRecord
  <1>3. QED
    BY <1>2 DEF Halted

\* A session's step.
LEMMA ClientEffect ==
    ASSUME IInv, NEW c \in Clients, ClientStep(c)
    PROVE  Effect
  <1>1. session[c] # None => session[c].radio \in Radios
    BY ConstantsAssumption DEF IInv, TypeOK, Grant
  <1>2. ASSUME NEW r \in Radios, NEW l \in Leases, Reserve(c, r, l)
        PROVE  Effect
    BY <1>2, ReserveEffect DEF Effect
  <1>3. CASE Install(c) \/ Ready(c) \/ StartFails(c) \/ FinishCleanup(c)
    BY <1>3, InstallEffect, ReadyEffect, StartFailsEffect, FinishCleanupEffect DEF Effect
  <1>4. CASE ReleaseRadio(c) \/ RenewRefused(c)
    BY <1>1, <1>4, TakeEffect DEF ReleaseRadio, RenewRefused
  <1>5. CASE Disconnect(c)
    BY <1>1, <1>5, TakeEffect, UnchangedEffect DEF Disconnect
  <1>6. CASE RenewLease(c) \/ Connect(c) \/ CheckCommand(c) \/ SendCommand(c)
    BY <1>6, UnchangedEffect DEF RenewLease, Connect, CheckCommand, SendCommand
  <1>7. ASSUME NEW seen \in SUBSET Radios, Rescan(c, seen)
        PROVE  Effect
    BY <1>7, RescanEffect DEF Effect
  <1>8. QED
    BY <1>2, <1>3, <1>4, <1>5, <1>6, <1>7 DEF ClientStep

\* Every step grants, drives, halts or frees, or leaves leases and runtimes alone.
LEMMA NextEffect ==
    ASSUME IInv, [Next]_vars
    PROVE  Effect
  <1>1. ASSUME NEW c \in Clients, ClientStep(c)
        PROVE  Effect
    BY <1>1, ClientEffect
  <1>2. ASSUME NEW t \in Tasks, FinishRelease(t)
        PROVE  Effect
    BY <1>2, FinishReleaseEffect DEF Effect
  <1>3. CASE DaemonStep
    <2>1. ASSUME NEW claim \in todo, ReleaseExpired(claim)
          PROVE  Effect
      <3>1. claim.radio \in Radios
        BY DEF IInv, TypeOK, Claim
      <3>2. QED
        BY <2>1, <3>1, TakeEffect DEF ReleaseExpired
    <2>2. CASE Scan \/ \E l \in Leases : Expire(l) \/ ShutdownOne(l)
      BY <2>2, UnchangedEffect DEF Scan, Expire, ShutdownOne
    <2>3. CASE ShutdownAll
      BY <2>3, ShutdownAllEffect DEF Effect
    <2>4. CASE ShutdownJoin \/ Exit
      BY <2>4, UnchangedEffect DEF ShutdownJoin, Exit
    <2>5. QED
      BY <1>3, <2>1, <2>2, <2>3, <2>4 DEF DaemonStep
  <1>4. ASSUME NEW l \in Leases, WorkerRuns(l)
        PROVE  Effect
    BY <1>4, UnchangedEffect DEF WorkerRuns, mvars
  <1>5. CASE Exited \/ UNCHANGED vars
    BY <1>5, UnchangedEffect DEF Exited, vars, mvars
  <1>6. QED
    BY <1>1, <1>2, <1>3, <1>4, <1>5 DEF Next

(***************************************************************************)
(* The theorems.                                                           *)
(***************************************************************************)

\* A lease that ends has had its worker told to stop, and no lease is replaced by
\* another in one step: no radio is handed over while it is being driven.
THEOREM HandoverAlwaysStops ==
    ASSUME TtlCoversStartup
    PROVE  SafetySpec => HandoverStops
  <1> DEFINE Handover ==
        \A r \in Radios : radio[r].lease # None /\ radio'[r].lease # radio[r].lease =>
            /\ radio'[r].lease = None
            /\ ~Serving(radio[r].lease) \/ radio[r].lease \in halting
  <1>1. Effect => Handover
    BY DEF Effect, Kept, Granted, Driven, Halted, Freed, Same, SameBut
  <1>2. IInv /\ [Next]_vars => [Handover]_vars
    BY <1>1, NextEffect
  <1>3. QED
    BY <1>2, Invariance, PTL DEF SafetySpec, HandoverStops

\* Each effect is a step of RadioLease, or a stutter.
LEMMA EffectRefines ==
    ASSUME Effect
    PROVE  [Lease!Next]_(Lease!lvars)
  <1> USE DEF Lease!lvars
  <1>1. CASE Kept
    BY <1>1 DEF Kept, Same
  <1>2. CASE Granted
    <2>1. PICK r \in Radios, l \in Leases :
            /\ SameBut(r)
            /\ \A q \in Radios : l \notin {radio[q].lease, radio[q].runtime}
            /\ radio[r].lease = None /\ radio'[r].lease = l
            /\ radio'[r].runtime = radio[r].runtime
      BY <1>2 DEF Granted
    <2>2. Lease!Grant(r, l)
      BY <2>1 DEF Lease!Grant, SameBut, Same
    <2>3. QED
      BY <2>2 DEF Lease!Next
  <1>3. CASE Driven
    <2>1. PICK r \in Radios :
            /\ SameBut(r)
            /\ radio[r].lease # None /\ radio'[r].lease = radio[r].lease
            /\ radio[r].runtime = None /\ radio'[r].runtime = radio[r].lease
      BY <1>3 DEF Driven
    <2>2. Lease!Drive(r)
      BY <2>1 DEF Lease!Drive, SameBut, Same
    <2>3. QED
      BY <2>2 DEF Lease!Next
  <1>4. CASE Halted
    <2>1. PICK S \in SUBSET Radios : \A q \in Radios :
            /\ radio'[q].lease = radio[q].lease
            /\ radio'[q].runtime = IF q \in S THEN None ELSE radio[q].runtime
      BY <1>4 DEF Halted
    <2>2. Lease!Halt(S)
      BY <2>1 DEF Lease!Halt
    <2>3. QED
      BY <2>2 DEF Lease!Next
  <1>5. CASE Freed
    <2>1. PICK r \in Radios :
            /\ SameBut(r)
            /\ radio[r].lease # None /\ radio'[r].lease = None
            /\ radio[r].runtime = None /\ radio'[r].runtime = None
      BY <1>5 DEF Freed
    <2>2. Lease!Free(r)
      BY <2>1 DEF Lease!Free, SameBut, Same
    <2>3. QED
      BY <2>2 DEF Lease!Next
  <1>6. QED
    BY <1>1, <1>2, <1>3, <1>4, <1>5 DEF Effect

\* The radio manager keeps the promise of its doc comment, for any number of radios,
\* leases and connections: the initial states map to initial states of RadioLease and
\* every critical section to one of its steps or to none.
THEOREM ImplementsAlways ==
    ASSUME TtlCoversStartup
    PROVE  SafetySpec => ImplementsLease
  <1>1. Init => Lease!Init
    BY DEF Init, IdleRadio, Lease!Init
  <1>2. IInv /\ [Next]_vars => [Lease!Next]_(Lease!lvars)
    BY NextEffect, EffectRefines
  <1>3. QED
    BY <1>1, <1>2, Invariance, PTL DEF SafetySpec, ImplementsLease, Lease!Spec
=============================================================================
