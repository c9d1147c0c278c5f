------------------------- MODULE RadioManagerProofs -------------------------
(***************************************************************************)
(* Proofs about RadioManager, for every set of radios, clients and leases. *)
(***************************************************************************)
EXTENDS RadioManagerInv, TLAPS

(***************************************************************************)
(* What the worker operators return.                                       *)
(***************************************************************************)

\* Replacing one record keeps the type of a function of records.
LEMMA UpdateType ==
    ASSUME NEW D, NEW R, NEW f \in [D -> R], NEW d \in D, NEW v \in R
    PROVE  [f EXCEPT ![d] = v] \in [D -> R]
  OBVIOUS

\* Telling a worker to stop keeps the type of the workers (stop_runtime's sends).
LEMMA SignalledType ==
    ASSUME worker \in [Leases -> WorkerRecord], NEW l \in Leases
    PROVE  Signalled(l) \in [Leases -> WorkerRecord]
  BY DEF Signalled, WorkerRecord

\* Dropping a runtime, or none, keeps the type of the workers.
LEMMA DropType ==
    ASSUME worker \in [Leases -> WorkerRecord], NEW w \in Leases \union {None}
    PROVE  Drop(w) \in [Leases -> WorkerRecord]
  BY SignalledType DEF Drop

\* A step of one worker keeps the type of the workers.
LEMMA WorkerStepType ==
    ASSUME worker \in [Leases -> WorkerRecord], NEW l \in Leases, WorkerStep(l)
    PROVE  worker' \in [Leases -> WorkerRecord]
  <1>1. CASE OpenSource(l)
    BY <1>1 DEF OpenSource, WorkerRecord
  <1>2. CASE FailToOpen(l)
    BY <1>2 DEF FailToOpen, WorkerRecord
  <1>3. CASE Key(l)
    BY <1>3 DEF Key, WorkerRecord
  <1>4. CASE TakeStopCommand(l)
    BY <1>4 DEF TakeStopCommand, WorkerRecord
  <1>5. CASE StreamEnds(l)
    BY <1>5 DEF StreamEnds, WorkerRecord
  <1>6. CASE ThreadsJoin(l)
    BY <1>6 DEF ThreadsJoin, WorkerRecord
  <1>7. CASE WrapperStops(l)
    BY <1>7 DEF WrapperStops, WorkerRecord
  <1>8. CASE WrapperJoins(l)
    BY <1>8 DEF WrapperJoins, WorkerRecord
  <1>9. QED
    BY <1>1, <1>2, <1>3, <1>4, <1>5, <1>6, <1>7, <1>8 DEF WorkerStep

\* A worker that is not serving does not start to by its own steps.
LEMMA WorkerStepServing ==
    ASSUME worker \in [Leases -> WorkerRecord], NEW l \in Leases, WorkerStep(l),
           NEW k \in Leases, Serving(k)'
    PROVE  Serving(k)
  <1> USE DEF Serving, WorkerRecord
  <1>1. CASE OpenSource(l)
    BY <1>1 DEF OpenSource
  <1>2. CASE FailToOpen(l)
    BY <1>2 DEF FailToOpen
  <1>3. CASE Key(l)
    BY <1>3 DEF Key
  <1>4. CASE TakeStopCommand(l)
    BY <1>4 DEF TakeStopCommand
  <1>5. CASE StreamEnds(l)
    BY <1>5 DEF StreamEnds
  <1>6. CASE ThreadsJoin(l)
    BY <1>6 DEF ThreadsJoin
  <1>7. CASE WrapperStops(l)
    BY <1>7 DEF WrapperStops
  <1>8. CASE WrapperJoins(l)
    BY <1>8 DEF WrapperJoins
  <1>9. QED
    BY <1>1, <1>2, <1>3, <1>4, <1>5, <1>6, <1>7, <1>8 DEF WorkerStep

(***************************************************************************)
(* Type correctness.                                                       *)
(***************************************************************************)

\* The state main.rs starts the server in has its type.
LEMMA InitType == Init => TypeOK
  BY ConstantsAssumption
  DEF Init, WorkerInit, NoWorkerYet, WorkerRecord, TypeOK, RadioRecord, IdleRadio,
      JobRecord, Idle, Doing

\* A task between operations has its type.
LEMMA IdleType == Idle \in JobRecord
  BY DEF Doing, Idle, JobRecord

\* The locals of a task in the middle of an operation have their type.
LEMMA DoingType ==
    ASSUME NEW pc \in {"idle", "install", "await", "cleanup", "release", "halt", "send"},
           NEW r \in Radios \union {None}, NEW l \in Leases \union {None},
           NEW w \in Leases \union {None}
    PROVE  Doing(pc, r, l, w) \in JobRecord
  BY DEF Doing, JobRecord

(***************************************************************************)
(* Each step keeps the inductive invariant.                                *)
(***************************************************************************)

\* The first critical section of acquire: the radio was free, the id is new.
LEMMA ReserveInv ==
    ASSUME IInv, TtlCoversStartup, NEW c \in Clients, NEW r \in Radios,
           NEW l \in Leases, Reserve(c, r, l)
    PROVE  IInv'
  <1>1. /\ c \in Tasks /\ c # Expiry /\ c # Shutdown /\ job[c].pc = "idle" /\ session[c] = None
        /\ radio[r].lease = None /\ radio[r].known /\ l # None
    BY ConstantsAssumption DEF Reserve, Free, Tasks
  <1>2. radio[r].runtime = None
    BY <1>1 DEF IInv, RuntimeServesLease
  <1>3. /\ \A q \in Radios : radio[q].lease # l /\ radio[q].runtime # l
        /\ \A t \in Tasks : job[t].lease # l /\ job[t].worker # l
        /\ \A claim \in todo : claim.lease # l
        /\ l \notin halting
    BY DEF Reserve, Referenced
  <1>4. \A t \in Tasks : job[t].pc \in Busy => job[t].radio # r
    BY <1>1, ConstantsAssumption DEF IInv, FinisherOwnsLease, JobsWellFormed, Busy
  <1>5. /\ \A u \in Tasks : u # c => job'[u] = job[u]
        /\ job'[c] = Doing("install", r, l, l)
        /\ job'[c].pc = "install" /\ job'[c].radio = r
        /\ job'[c].lease = l /\ job'[c].worker = l
    BY <1>1 DEF IInv, TypeOK, Reserve, Doing, Idle
  <1>6. /\ \A q \in Radios : q # r => radio'[q] = radio[q]
        /\ radio'[r].known = radio[r].known /\ radio'[r].lease = l
        /\ radio'[r].client = c /\ radio'[r].runtime = radio[r].runtime
        /\ radio'[r].state = "Starting"
    BY <1>1 DEF IInv, TypeOK, Reserve, RadioRecord
  <1>7. \A k \in Leases : k # l => worker'[k] = worker[k]
    BY DEF IInv, TypeOK, Reserve
  <1>8. /\ expired' = expired \ {l}
        /\ UNCHANGED <<todo, halting, session, online, mode>>
    BY DEF Reserve
  <1>9. TypeOK'
    <2>1. worker' \in [Leases -> WorkerRecord]
      BY DEF IInv, TypeOK, Reserve, Spawned, NoWorkerYet, WorkerRecord
    <2>2. radio' \in [Radios -> RadioRecord]
      <3> DEFINE new == [radio[r] EXCEPT !.lease = l, !.client = c, !.state = "Starting"]
      <3>1. radio[r] \in RadioRecord
        BY <1>1 DEF IInv, TypeOK
      <3>2. new \in RadioRecord
        BY <1>1, <3>1 DEF RadioRecord
      <3>3. radio' = [radio EXCEPT ![r] = new]
        BY <1>1 DEF Reserve
      <3>4. QED
        BY <1>1, <3>2, <3>3, UpdateType DEF IInv, TypeOK
    <2>3. job' \in [Tasks -> JobRecord]
      BY <1>1, DoingType, IdleType, UpdateType DEF IInv, TypeOK, Reserve
    <2>4. QED
      BY <1>1, <1>2, <1>3, <1>4, <1>5, <1>6, <1>7, <1>8, <2>1, <2>2, <2>3 DEF IInv, TypeOK
  <1>10. JobsWellFormed'
    BY <1>1, <1>2, <1>3, <1>4, <1>5, <1>6, <1>7, <1>8 DEF IInv, TypeOK, JobsWellFormed,
       Busy, Idle, Doing, Tasks
  <1>11. AbsentIsEmpty'
    BY <1>1, <1>2, <1>3, <1>4, <1>5, <1>6, <1>7, <1>8 DEF IInv, TypeOK, AbsentIsEmpty
  <1>12. LeasesDiffer'
    BY <1>1, <1>2, <1>3, <1>4, <1>5, <1>6, <1>7, <1>8 DEF IInv, TypeOK, LeasesDiffer
  <1>13. RuntimeServesLease'
    BY <1>1, <1>2, <1>3, <1>4, <1>5, <1>6, <1>7, <1>8 DEF IInv, TypeOK, RuntimeServesLease
  <1>14. RunningIsServed'
    BY <1>1, <1>2, <1>3, <1>4, <1>5, <1>6, <1>7, <1>8 DEF IInv, TypeOK, RunningIsServed
  <1>15. AvailableIsFree'
    BY <1>1, <1>2, <1>3, <1>4, <1>5, <1>6, <1>7, <1>8 DEF IInv, TypeOK, AvailableIsFree
  <1>16. FinisherOwnsLease'
    <2> SUFFICES ASSUME NEW u \in Tasks, job'[u].pc \in Busy
                  PROVE  radio'[job'[u].radio].known /\ radio'[job'[u].radio].lease = job'[u].lease
      BY DEF FinisherOwnsLease, Busy
    <2>1. CASE u = c
      BY <2>1, <1>1, <1>2, <1>3, <1>4, <1>5, <1>6, <1>7, <1>8
    <2>2. CASE u # c
      <3>1. job'[u] = job[u] /\ job[u].radio \in Radios /\ job[u].radio # r
        BY <2>2, <1>1, <1>2, <1>3, <1>4, <1>5, <1>6, <1>7, <1>8 DEF IInv, JobsWellFormed, OneTaskPerRadio, Busy
      <3>2. QED
        BY <3>1, <1>1, <1>2, <1>3, <1>4, <1>5, <1>6, <1>7, <1>8 DEF IInv, FinisherOwnsLease, Busy
    <2>3. QED
      BY <2>1, <2>2
  <1>17. BusyRuntime'
    BY <1>1, <1>2, <1>3, <1>4, <1>5, <1>6, <1>7, <1>8 DEF IInv, TypeOK, BusyRuntime,
       JobsWellFormed, OneTaskPerRadio, Busy
  <1>18. OneTaskPerRadio'
    BY <1>1, <1>2, <1>3, <1>4, <1>5, <1>6, <1>7, <1>8 DEF IInv, TypeOK, OneTaskPerRadio,
       Busy
  <1>19. AcquirerAlone'
    BY <1>1, <1>2, <1>3, <1>4, <1>5, <1>6, <1>7, <1>8 DEF IInv, TypeOK, AcquirerAlone,
       JobsWellFormed, OneTaskPerRadio, Busy, Starting, Tasks
  <1>20. NoOrphanWorker'
    BY <1>1, <1>2, <1>3, <1>4, <1>5, <1>6, <1>7, <1>8 DEF IInv, TypeOK, NoOrphanWorker,
       Tasks, Serving
  <1>21. HaltingLate'
    BY <1>1, <1>2, <1>3, <1>4, <1>5, <1>6, <1>7, <1>8 DEF IInv, TypeOK, HaltingLate
  <1>22. QED
    BY <1>9, <1>10, <1>11, <1>12, <1>13, <1>14, <1>15, <1>16, <1>17, <1>18, <1>19, <1>20,
       <1>21 DEF IInv

\* The second critical section of acquire: the runtime is stored where there was none.
LEMMA InstallInv ==
    ASSUME IInv, TtlCoversStartup, NEW c \in Clients, Install(c)
    PROVE  IInv'
  <1>1. /\ c \in Tasks /\ c # Expiry /\ c # Shutdown
        /\ job[c].radio \in Radios /\ job[c].lease \in Leases /\ job[c].lease # None
        /\ radio[job[c].radio].known /\ radio[job[c].radio].lease = job[c].lease
        /\ job[c].pc = "install"
    BY ConstantsAssumption DEF IInv, TypeOK, JobsWellFormed, FinisherOwnsLease,
       BusyRuntime, Busy, Tasks, Install
  <1>2. radio[job[c].radio].runtime = None
    BY <1>1 DEF IInv, BusyRuntime
  <1>3. worker' = worker
    BY <1>1, <1>2 DEF Install, Drop
  <1>4. /\ \A u \in Tasks : u # c => job'[u] = job[u]
        /\ job'[c] = Doing("await", job[c].radio, job[c].lease, job[c].lease)
        /\ job'[c].pc = "await" /\ job'[c].radio = job[c].radio
        /\ job'[c].lease = job[c].lease /\ job'[c].worker = job[c].lease
    BY <1>1 DEF IInv, TypeOK, Install, Doing, Idle
  <1>5. radio' = [radio EXCEPT ![job[c].radio] =
                    [@ EXCEPT !.runtime = job[c].lease]]
    BY <1>1 DEF Install
  <1>6. /\ \A q \in Radios : q # job[c].radio => radio'[q] = radio[q]
        /\ radio'[job[c].radio].known = radio[job[c].radio].known /\ radio'[job[c].radio].lease = radio[job[c].radio].lease
        /\ radio'[job[c].radio].client = radio[job[c].radio].client /\ radio'[job[c].radio].runtime = job[c].lease
        /\ radio'[job[c].radio].state = radio[job[c].radio].state
    BY <1>1, <1>5 DEF IInv, TypeOK, RadioRecord
  <1>7. UNCHANGED <<expired, todo, halting, session, online, mode>>
    BY DEF Install
  <1>8. TypeOK'
    <2>1. radio' \in [Radios -> RadioRecord]
      BY <1>1 DEF IInv, TypeOK, RadioRecord, Install
    <2>2. job' \in [Tasks -> JobRecord]
      BY <1>1, DoingType, IdleType, UpdateType DEF IInv, TypeOK, Install
    <2>3. QED
      BY <1>1, <1>2, <1>3, <1>4, <1>5, <1>6, <1>7, <2>1, <2>2 DEF IInv, TypeOK
  <1>9. JobsWellFormed'
    BY <1>1, <1>2, <1>3, <1>4, <1>5, <1>6, <1>7 DEF IInv, TypeOK, JobsWellFormed, Busy,
       Idle, Doing, Tasks
  <1>10. AbsentIsEmpty'
    BY <1>1, <1>2, <1>3, <1>4, <1>5, <1>6, <1>7 DEF IInv, TypeOK, AbsentIsEmpty
  <1>11. LeasesDiffer'
    BY <1>1, <1>2, <1>3, <1>4, <1>5, <1>6, <1>7 DEF IInv, TypeOK, LeasesDiffer
  <1>12. RuntimeServesLease'
    BY <1>1, <1>2, <1>3, <1>4, <1>5, <1>6, <1>7 DEF IInv, TypeOK, RuntimeServesLease
  <1>13. RunningIsServed'
    BY <1>1, <1>2, <1>3, <1>4, <1>5, <1>6, <1>7 DEF IInv, TypeOK, RunningIsServed
  <1>14. AvailableIsFree'
    BY <1>1, <1>2, <1>3, <1>4, <1>5, <1>6, <1>7 DEF IInv, TypeOK, AvailableIsFree
  <1>15. FinisherOwnsLease'
    <2> SUFFICES ASSUME NEW u \in Tasks, job'[u].pc \in Busy
                  PROVE  radio'[job'[u].radio].known /\ radio'[job'[u].radio].lease = job'[u].lease
      BY DEF FinisherOwnsLease, Busy
    <2>1. CASE u = c
      BY <2>1, <1>1, <1>2, <1>3, <1>4, <1>5, <1>6, <1>7
    <2>2. CASE u # c
      <3>1. job'[u] = job[u] /\ job[u].radio \in Radios /\ job[u].radio # job[c].radio
        BY <2>2, <1>1, <1>2, <1>3, <1>4, <1>5, <1>6, <1>7 DEF IInv, JobsWellFormed, OneTaskPerRadio, Busy
      <3>2. QED
        BY <3>1, <1>1, <1>2, <1>3, <1>4, <1>5, <1>6, <1>7 DEF IInv, FinisherOwnsLease, Busy
    <2>3. QED
      BY <2>1, <2>2
  <1>16. BusyRuntime'
    BY <1>1, <1>2, <1>3, <1>4, <1>5, <1>6, <1>7 DEF IInv, TypeOK, BusyRuntime,
       JobsWellFormed, OneTaskPerRadio, Busy
  <1>17. OneTaskPerRadio'
    BY <1>1, <1>2, <1>3, <1>4, <1>5, <1>6, <1>7 DEF IInv, TypeOK, OneTaskPerRadio, Busy
  <1>18. AcquirerAlone'
    BY <1>1, <1>2, <1>3, <1>4, <1>5, <1>6, <1>7 DEF IInv, TypeOK, AcquirerAlone,
       JobsWellFormed, OneTaskPerRadio, Busy, Starting, Tasks
  <1>19. NoOrphanWorker'
    BY <1>1, <1>2, <1>3, <1>4, <1>5, <1>6, <1>7, ConstantsAssumption DEF IInv, TypeOK,
       NoOrphanWorker, Tasks, JobsWellFormed, Serving
  <1>20. HaltingLate'
    BY <1>1, <1>2, <1>3, <1>4, <1>5, <1>6, <1>7 DEF IInv, TypeOK, HaltingLate
  <1>21. QED
    BY <1>8, <1>9, <1>10, <1>11, <1>12, <1>13, <1>14, <1>15, <1>16, <1>17, <1>18, <1>19,
       <1>20 DEF IInv

\* The last critical section of a successful acquire: the lease is still in force.
LEMMA ReadyInv ==
    ASSUME IInv, TtlCoversStartup, NEW c \in Clients, Ready(c)
    PROVE  IInv'
  <1>1. /\ c \in Tasks /\ c # Expiry /\ c # Shutdown
        /\ job[c].radio \in Radios /\ job[c].lease \in Leases /\ job[c].lease # None
        /\ radio[job[c].radio].known /\ radio[job[c].radio].lease = job[c].lease
        /\ job[c].pc = "await"
    BY ConstantsAssumption DEF IInv, TypeOK, JobsWellFormed, FinisherOwnsLease,
       BusyRuntime, Busy, Tasks, Ready
  <1>2. mode = "up" => radio[job[c].radio].runtime = job[c].lease
    BY <1>1 DEF IInv, BusyRuntime
  <1>3. /\ \A u \in Tasks : u # c => job'[u] = job[u]
        /\ job'[c] = Idle
        /\ job'[c].pc = "idle" /\ job'[c].radio = None
        /\ job'[c].lease = None /\ job'[c].worker = None
    BY <1>1 DEF IInv, TypeOK, Ready, Doing, Idle
  <1>4. radio' = [radio EXCEPT ![job[c].radio] =
                    [@ EXCEPT !.state = "Running"]]
    BY <1>1 DEF Ready
  <1>5. /\ \A q \in Radios : q # job[c].radio => radio'[q] = radio[q]
        /\ radio'[job[c].radio].known = radio[job[c].radio].known /\ radio'[job[c].radio].lease = radio[job[c].radio].lease
        /\ radio'[job[c].radio].client = radio[job[c].radio].client /\ radio'[job[c].radio].runtime = radio[job[c].radio].runtime
        /\ radio'[job[c].radio].state = "Running"
    BY <1>1, <1>4 DEF IInv, TypeOK, RadioRecord
  <1>6. UNCHANGED <<worker, expired, todo, halting, online, mode>>
    BY DEF Ready
  <1>7. \A d \in Clients : d # c => session'[d] = session[d]
    BY <1>1 DEF IInv, TypeOK, Ready
  <1>8. TypeOK'
    <2>1. radio' \in [Radios -> RadioRecord]
      BY <1>1 DEF IInv, TypeOK, RadioRecord, Ready
    <2>2. session' \in [Clients -> Grant \union {None}]
      BY <1>1 DEF IInv, TypeOK, Grant, Ready
    <2>3. job' \in [Tasks -> JobRecord]
      BY <1>1, DoingType, IdleType, UpdateType DEF IInv, TypeOK, Ready
    <2>4. QED
      BY <1>1, <1>2, <1>3, <1>4, <1>5, <1>6, <1>7, <2>1, <2>2, <2>3 DEF IInv, TypeOK
  <1>9. JobsWellFormed'
    BY <1>1, <1>2, <1>3, <1>4, <1>5, <1>6, <1>7 DEF IInv, TypeOK, JobsWellFormed, Busy,
       Idle, Doing, Tasks
  <1>10. AbsentIsEmpty'
    BY <1>1, <1>2, <1>3, <1>4, <1>5, <1>6, <1>7 DEF IInv, TypeOK, AbsentIsEmpty
  <1>11. LeasesDiffer'
    BY <1>1, <1>2, <1>3, <1>4, <1>5, <1>6, <1>7 DEF IInv, TypeOK, LeasesDiffer
  <1>12. RuntimeServesLease'
    BY <1>1, <1>2, <1>3, <1>4, <1>5, <1>6, <1>7 DEF IInv, TypeOK, RuntimeServesLease
  <1>13. RunningIsServed'
    BY <1>1, <1>2, <1>3, <1>4, <1>5, <1>6, <1>7 DEF IInv, TypeOK, RunningIsServed
  <1>14. AvailableIsFree'
    BY <1>1, <1>2, <1>3, <1>4, <1>5, <1>6, <1>7 DEF IInv, TypeOK, AvailableIsFree
  <1>15. FinisherOwnsLease'
    BY <1>1, <1>2, <1>3, <1>4, <1>5, <1>6, <1>7 DEF IInv, TypeOK, FinisherOwnsLease,
       JobsWellFormed, OneTaskPerRadio, Busy
  <1>16. BusyRuntime'
    BY <1>1, <1>2, <1>3, <1>4, <1>5, <1>6, <1>7 DEF IInv, TypeOK, BusyRuntime,
       JobsWellFormed, OneTaskPerRadio, Busy
  <1>17. OneTaskPerRadio'
    BY <1>1, <1>2, <1>3, <1>4, <1>5, <1>6, <1>7 DEF IInv, TypeOK, OneTaskPerRadio, Busy
  <1>18. AcquirerAlone'
    BY <1>1, <1>2, <1>3, <1>4, <1>5, <1>6, <1>7 DEF IInv, TypeOK, AcquirerAlone,
       JobsWellFormed, OneTaskPerRadio, Busy, Starting, Tasks
  <1>19. NoOrphanWorker'
    BY <1>1, <1>2, <1>3, <1>4, <1>5, <1>6, <1>7 DEF IInv, TypeOK, NoOrphanWorker, Tasks,
       Serving
  <1>20. HaltingLate'
    BY <1>1, <1>2, <1>3, <1>4, <1>5, <1>6, <1>7 DEF IInv, TypeOK, HaltingLate
  <1>21. QED
    BY <1>8, <1>9, <1>10, <1>11, <1>12, <1>13, <1>14, <1>15, <1>16, <1>17, <1>18, <1>19,
       <1>20 DEF IInv

\* The first critical section of cleanup_failed_start: the runtime is taken and stopped.
LEMMA StartFailsInv ==
    ASSUME IInv, TtlCoversStartup, NEW c \in Clients, StartFails(c)
    PROVE  IInv'
  <1>1. /\ c \in Tasks /\ c # Expiry /\ c # Shutdown
        /\ job[c].radio \in Radios /\ job[c].lease \in Leases /\ job[c].lease # None
        /\ radio[job[c].radio].known /\ radio[job[c].radio].lease = job[c].lease
        /\ job[c].pc = "await"
    BY ConstantsAssumption DEF IInv, TypeOK, JobsWellFormed, FinisherOwnsLease,
       BusyRuntime, Busy, Tasks, StartFails
  <1>2. radio[job[c].radio].runtime \in {job[c].lease, None}
    BY <1>1 DEF IInv, RuntimeServesLease
  <1>3. /\ \A u \in Tasks : u # c => job'[u] = job[u]
        /\ job'[c] = Doing("cleanup", job[c].radio, job[c].lease, radio[job[c].radio].runtime)
        /\ job'[c].pc = "cleanup" /\ job'[c].radio = job[c].radio
        /\ job'[c].lease = job[c].lease /\ job'[c].worker = radio[job[c].radio].runtime
    BY <1>1 DEF IInv, TypeOK, StartFails, Doing, Idle
  <1>4. radio' = [radio EXCEPT ![job[c].radio] =
                    [@ EXCEPT !.state = "Faulted", !.runtime = None]]
    BY <1>1 DEF StartFails
  <1>5. /\ \A q \in Radios : q # job[c].radio => radio'[q] = radio[q]
        /\ radio'[job[c].radio].known = radio[job[c].radio].known /\ radio'[job[c].radio].lease = radio[job[c].radio].lease
        /\ radio'[job[c].radio].client = radio[job[c].radio].client /\ radio'[job[c].radio].runtime = None
        /\ radio'[job[c].radio].state = "Faulted"
    BY <1>1, <1>4 DEF IInv, TypeOK, RadioRecord
  <1>6. UNCHANGED <<expired, todo, halting, session, online, mode>>
    BY DEF StartFails
  <1>7. \A k \in Leases : Serving(k)' => Serving(k) /\ k # radio[job[c].radio].runtime
    BY <1>1, <1>2, ConstantsAssumption DEF IInv, TypeOK, StartFails, Drop, Signalled,
       Serving, WorkerRecord
  <1>8. TypeOK'
    <2>1. radio' \in [Radios -> RadioRecord]
      <3> DEFINE new == [radio[job[c].radio] EXCEPT !.state = "Faulted", !.runtime = None]
      <3>1. radio[job[c].radio] \in RadioRecord
        BY <1>1 DEF IInv, TypeOK
      <3>2. new \in RadioRecord
        BY <1>1, <3>1 DEF RadioRecord
      <3>3. radio' = [radio EXCEPT ![job[c].radio] = new]
        BY <1>1 DEF StartFails
      <3>4. QED
        BY <1>1, <3>2, <3>3, UpdateType DEF IInv, TypeOK
    <2>2. worker' \in [Leases -> WorkerRecord]
      BY <1>1, DropType DEF IInv, TypeOK, StartFails, RadioRecord
    <2>3. job' \in [Tasks -> JobRecord]
      BY <1>1, <1>2, DoingType, IdleType, UpdateType DEF IInv, TypeOK, StartFails
    <2>4. QED
      BY <1>1, <1>2, <1>3, <1>4, <1>5, <1>6, <1>7, <2>1, <2>2, <2>3 DEF IInv, TypeOK
  <1>9. JobsWellFormed'
    BY <1>1, <1>2, <1>3, <1>4, <1>5, <1>6, <1>7 DEF IInv, TypeOK, JobsWellFormed, Busy,
       Idle, Doing, Tasks
  <1>10. AbsentIsEmpty'
    BY <1>1, <1>2, <1>3, <1>4, <1>5, <1>6, <1>7 DEF IInv, TypeOK, AbsentIsEmpty
  <1>11. LeasesDiffer'
    BY <1>1, <1>2, <1>3, <1>4, <1>5, <1>6, <1>7 DEF IInv, TypeOK, LeasesDiffer
  <1>12. RuntimeServesLease'
    BY <1>1, <1>2, <1>3, <1>4, <1>5, <1>6, <1>7 DEF IInv, TypeOK, RuntimeServesLease
  <1>13. RunningIsServed'
    BY <1>1, <1>2, <1>3, <1>4, <1>5, <1>6, <1>7 DEF IInv, TypeOK, RunningIsServed
  <1>14. AvailableIsFree'
    BY <1>1, <1>2, <1>3, <1>4, <1>5, <1>6, <1>7 DEF IInv, TypeOK, AvailableIsFree
  <1>15. FinisherOwnsLease'
    <2> SUFFICES ASSUME NEW u \in Tasks, job'[u].pc \in Busy
                  PROVE  radio'[job'[u].radio].known /\ radio'[job'[u].radio].lease = job'[u].lease
      BY DEF FinisherOwnsLease, Busy
    <2>1. CASE u = c
      BY <2>1, <1>1, <1>2, <1>3, <1>4, <1>5, <1>6, <1>7
    <2>2. CASE u # c
      <3>1. job'[u] = job[u] /\ job[u].radio \in Radios /\ job[u].radio # job[c].radio
        BY <2>2, <1>1, <1>2, <1>3, <1>4, <1>5, <1>6, <1>7 DEF IInv, JobsWellFormed, OneTaskPerRadio, Busy
      <3>2. QED
        BY <3>1, <1>1, <1>2, <1>3, <1>4, <1>5, <1>6, <1>7 DEF IInv, FinisherOwnsLease, Busy
    <2>3. QED
      BY <2>1, <2>2
  <1>16. BusyRuntime'
    BY <1>1, <1>2, <1>3, <1>4, <1>5, <1>6, <1>7 DEF IInv, TypeOK, BusyRuntime,
       JobsWellFormed, OneTaskPerRadio, Busy
  <1>17. OneTaskPerRadio'
    BY <1>1, <1>2, <1>3, <1>4, <1>5, <1>6, <1>7 DEF IInv, TypeOK, OneTaskPerRadio, Busy
  <1>18. AcquirerAlone'
    BY <1>1, <1>2, <1>3, <1>4, <1>5, <1>6, <1>7 DEF IInv, TypeOK, AcquirerAlone,
       JobsWellFormed, OneTaskPerRadio, Busy, Starting, Tasks
  <1>19. NoOrphanWorker'
    BY <1>1, <1>2, <1>3, <1>4, <1>5, <1>6, <1>7 DEF IInv, TypeOK, NoOrphanWorker, Tasks
  <1>20. HaltingLate'
    BY <1>1, <1>2, <1>3, <1>4, <1>5, <1>6, <1>7 DEF IInv, TypeOK, HaltingLate
  <1>21. QED
    BY <1>8, <1>9, <1>10, <1>11, <1>12, <1>13, <1>14, <1>15, <1>16, <1>17, <1>18, <1>19,
       <1>20 DEF IInv

\* The last critical section of cleanup_failed_start clears its own lease only.
LEMMA FinishCleanupInv ==
    ASSUME IInv, TtlCoversStartup, NEW c \in Clients, FinishCleanup(c)
    PROVE  IInv'
  <1>1. /\ c \in Tasks /\ c # Expiry /\ c # Shutdown
        /\ job[c].radio \in Radios /\ job[c].lease \in Leases /\ job[c].lease # None
        /\ radio[job[c].radio].known /\ radio[job[c].radio].lease = job[c].lease
        /\ job[c].pc = "cleanup"
    BY ConstantsAssumption DEF IInv, TypeOK, JobsWellFormed, FinisherOwnsLease,
       BusyRuntime, Busy, Tasks, FinishCleanup
  <1>2. radio[job[c].radio].runtime = None
    BY <1>1 DEF IInv, BusyRuntime
  <1>3. worker' = worker
    BY <1>1, <1>2 DEF FinishCleanup, Drop
  <1>4. /\ \A u \in Tasks : u # c => job'[u] = job[u]
        /\ job'[c] = Idle
        /\ job'[c].pc = "idle" /\ job'[c].radio = None
        /\ job'[c].lease = None /\ job'[c].worker = None
    BY <1>1 DEF IInv, TypeOK, FinishCleanup, Doing, Idle
  <1>5. /\ \A q \in Radios : q # job[c].radio => radio'[q] = radio[q]
        /\ radio'[job[c].radio].known = radio[job[c].radio].known /\ radio'[job[c].radio].lease = None
        /\ radio'[job[c].radio].client = None /\ radio'[job[c].radio].runtime = None
        /\ radio'[job[c].radio].state = "Available"
    BY <1>1 DEF IInv, TypeOK, FinishCleanup, IdleRadio, RadioRecord
  <1>6. UNCHANGED <<expired, todo, halting, session, online, mode>>
    BY DEF FinishCleanup
  <1>7. TypeOK'
    <2>1. radio' \in [Radios -> RadioRecord]
      BY <1>1 DEF IInv, TypeOK, RadioRecord, FinishCleanup, IdleRadio
    <2>2. job' \in [Tasks -> JobRecord]
      BY <1>1, DoingType, IdleType, UpdateType DEF IInv, TypeOK, FinishCleanup
    <2>3. QED
      BY <1>1, <1>2, <1>3, <1>4, <1>5, <1>6, <2>1, <2>2 DEF IInv, TypeOK
  <1>8. JobsWellFormed'
    BY <1>1, <1>2, <1>3, <1>4, <1>5, <1>6 DEF IInv, TypeOK, JobsWellFormed, Busy, Idle,
       Doing, Tasks
  <1>9. AbsentIsEmpty'
    BY <1>1, <1>2, <1>3, <1>4, <1>5, <1>6 DEF IInv, TypeOK, AbsentIsEmpty
  <1>10. LeasesDiffer'
    BY <1>1, <1>2, <1>3, <1>4, <1>5, <1>6 DEF IInv, TypeOK, LeasesDiffer
  <1>11. RuntimeServesLease'
    BY <1>1, <1>2, <1>3, <1>4, <1>5, <1>6 DEF IInv, TypeOK, RuntimeServesLease
  <1>12. RunningIsServed'
    BY <1>1, <1>2, <1>3, <1>4, <1>5, <1>6 DEF IInv, TypeOK, RunningIsServed
  <1>13. AvailableIsFree'
    BY <1>1, <1>2, <1>3, <1>4, <1>5, <1>6 DEF IInv, TypeOK, AvailableIsFree
  <1>14. FinisherOwnsLease'
    BY <1>1, <1>2, <1>3, <1>4, <1>5, <1>6 DEF IInv, TypeOK, FinisherOwnsLease,
       JobsWellFormed, OneTaskPerRadio, Busy
  <1>15. BusyRuntime'
    BY <1>1, <1>2, <1>3, <1>4, <1>5, <1>6 DEF IInv, TypeOK, BusyRuntime, JobsWellFormed,
       OneTaskPerRadio, Busy
  <1>16. OneTaskPerRadio'
    BY <1>1, <1>2, <1>3, <1>4, <1>5, <1>6 DEF IInv, TypeOK, OneTaskPerRadio, Busy
  <1>17. AcquirerAlone'
    BY <1>1, <1>2, <1>3, <1>4, <1>5, <1>6 DEF IInv, TypeOK, AcquirerAlone, JobsWellFormed,
       OneTaskPerRadio, Busy, Starting, Tasks
  <1>18. NoOrphanWorker'
    BY <1>1, <1>2, <1>3, <1>4, <1>5, <1>6 DEF IInv, TypeOK, NoOrphanWorker, Tasks, Serving
  <1>19. HaltingLate'
    BY <1>1, <1>2, <1>3, <1>4, <1>5, <1>6 DEF IInv, TypeOK, HaltingLate
  <1>20. QED
    BY <1>7, <1>8, <1>9, <1>10, <1>11, <1>12, <1>13, <1>14, <1>15, <1>16, <1>17, <1>18,
       <1>19 DEF IInv

\* The second critical section of release clears its own lease only.
LEMMA FinishReleaseInv ==
    ASSUME IInv, TtlCoversStartup, NEW t \in Tasks, FinishRelease(t)
    PROVE  IInv'
  <1>1. /\ job[t].radio \in Radios /\ job[t].lease \in Leases /\ job[t].lease # None
        /\ radio[job[t].radio].known /\ radio[job[t].radio].lease = job[t].lease
        /\ job[t].pc = "release"
    BY ConstantsAssumption DEF IInv, TypeOK, JobsWellFormed, FinisherOwnsLease,
       BusyRuntime, Busy, Tasks, FinishRelease
  <1>2. radio[job[t].radio].runtime = None
    BY <1>1 DEF IInv, BusyRuntime
  <1>3. /\ \A u \in Tasks : u # t => job'[u] = job[u]
        /\ job'[t] = Idle
        /\ job'[t].pc = "idle" /\ job'[t].radio = None
        /\ job'[t].lease = None /\ job'[t].worker = None
    BY <1>1 DEF IInv, TypeOK, FinishRelease, Doing, Idle
  <1>4. /\ \A q \in Radios : q # job[t].radio => radio'[q] = radio[q]
        /\ radio'[job[t].radio].known = radio[job[t].radio].known /\ radio'[job[t].radio].lease = None
        /\ radio'[job[t].radio].client = None /\ radio'[job[t].radio].runtime = radio[job[t].radio].runtime
        /\ radio'[job[t].radio].state = "Available"
    BY <1>1 DEF IInv, TypeOK, FinishRelease, RadioRecord
  <1>5. UNCHANGED <<worker, expired, todo, halting, online, mode>>
    BY DEF FinishRelease
  <1>6. \A d \in Clients : session'[d] \in {session[d], None}
    BY DEF IInv, TypeOK, FinishRelease
  <1>7. TypeOK'
    <2>1. radio' \in [Radios -> RadioRecord]
      <3> DEFINE new == [radio[job[t].radio] EXCEPT !.lease = None, !.client = None, !.state = "Available"]
      <3>1. radio[job[t].radio] \in RadioRecord
        BY <1>1 DEF IInv, TypeOK
      <3>2. new \in RadioRecord
        BY <1>1, <3>1 DEF RadioRecord
      <3>3. radio' = [radio EXCEPT ![job[t].radio] = new]
        BY <1>1 DEF FinishRelease
      <3>4. QED
        BY <1>1, <3>2, <3>3, UpdateType DEF IInv, TypeOK
    <2>2. session' \in [Clients -> Grant \union {None}]
      BY DEF IInv, TypeOK, FinishRelease
    <2>3. job' \in [Tasks -> JobRecord]
      BY <1>1, DoingType, IdleType, UpdateType DEF IInv, TypeOK, FinishRelease
    <2>4. QED
      BY <1>1, <1>2, <1>3, <1>4, <1>5, <1>6, <2>1, <2>2, <2>3 DEF IInv, TypeOK
  <1>8. JobsWellFormed'
    BY <1>1, <1>2, <1>3, <1>4, <1>5, <1>6 DEF IInv, TypeOK, JobsWellFormed, Busy, Idle,
       Doing, Tasks
  <1>9. AbsentIsEmpty'
    BY <1>1, <1>2, <1>3, <1>4, <1>5, <1>6 DEF IInv, TypeOK, AbsentIsEmpty
  <1>10. LeasesDiffer'
    BY <1>1, <1>2, <1>3, <1>4, <1>5, <1>6 DEF IInv, TypeOK, LeasesDiffer
  <1>11. RuntimeServesLease'
    BY <1>1, <1>2, <1>3, <1>4, <1>5, <1>6 DEF IInv, TypeOK, RuntimeServesLease
  <1>12. RunningIsServed'
    BY <1>1, <1>2, <1>3, <1>4, <1>5, <1>6 DEF IInv, TypeOK, RunningIsServed
  <1>13. AvailableIsFree'
    BY <1>1, <1>2, <1>3, <1>4, <1>5, <1>6 DEF IInv, TypeOK, AvailableIsFree
  <1>14. FinisherOwnsLease'
    BY <1>1, <1>2, <1>3, <1>4, <1>5, <1>6 DEF IInv, TypeOK, FinisherOwnsLease,
       JobsWellFormed, OneTaskPerRadio, Busy
  <1>15. BusyRuntime'
    BY <1>1, <1>2, <1>3, <1>4, <1>5, <1>6 DEF IInv, TypeOK, BusyRuntime, JobsWellFormed,
       OneTaskPerRadio, Busy
  <1>16. OneTaskPerRadio'
    BY <1>1, <1>2, <1>3, <1>4, <1>5, <1>6 DEF IInv, TypeOK, OneTaskPerRadio, Busy
  <1>17. AcquirerAlone'
    BY <1>1, <1>2, <1>3, <1>4, <1>5, <1>6 DEF IInv, TypeOK, AcquirerAlone, JobsWellFormed,
       OneTaskPerRadio, Busy, Starting, Tasks
  <1>18. NoOrphanWorker'
    BY <1>1, <1>2, <1>3, <1>4, <1>5, <1>6 DEF IInv, TypeOK, NoOrphanWorker, Tasks, Serving
  <1>19. HaltingLate'
    BY <1>1, <1>2, <1>3, <1>4, <1>5, <1>6 DEF IInv, TypeOK, HaltingLate
  <1>20. QED
    BY <1>7, <1>8, <1>9, <1>10, <1>11, <1>12, <1>13, <1>14, <1>15, <1>16, <1>17, <1>18,
       <1>19 DEF IInv

\* The first critical section of release, accepted, for a lease no acquire is working on.
LEMMA TakeInv ==
    ASSUME IInv, TtlCoversStartup, NEW t \in Tasks, t # Shutdown, job[t].pc = "idle",
           NEW c \in Clients, NEW r \in Radios, NEW l \in Leases, Take(t, c, r, l),
           UNCHANGED <<expired, halting, mode>>, todo' \subseteq todo, online' \subseteq Clients,
           session' \in [Clients -> Grant \union {None}],
           \A d \in Clients : session'[d] \in {session[d], None},
           \A d \in Clients : job[d].pc \in Starting => job[d].lease # l
    PROVE  IInv'
  <1>1. /\ radio[r].known /\ radio[r].lease = l /\ l # None
        /\ radio[r].runtime = l
    BY ConstantsAssumption DEF Take, Holds, IInv, RuntimeServesLease
  <1>2. \A u \in Tasks : job[u].pc \in Busy => job[u].radio # r
    BY <1>1 DEF IInv, JobsWellFormed, FinisherOwnsLease, BusyRuntime, Busy, Starting, Tasks
  <1>3. worker' = [worker EXCEPT ![l].stopSent = TRUE]
    BY <1>1 DEF Take, Signalled
  <1>4. /\ \A u \in Tasks : u # t => job'[u] = job[u]
        /\ job'[t] = Doing("release", r, l, l)
        /\ job'[t].pc = "release" /\ job'[t].radio = r
        /\ job'[t].lease = l /\ job'[t].worker = l
    BY <1>1 DEF IInv, TypeOK, Take, Doing, Idle
  <1>5. /\ \A q \in Radios : q # r => radio'[q] = radio[q]
        /\ radio'[r].known = radio[r].known /\ radio'[r].lease = radio[r].lease
        /\ radio'[r].client = radio[r].client /\ radio'[r].runtime = None
        /\ radio'[r].state = "Stopping"
    BY <1>1 DEF IInv, TypeOK, Take, RadioRecord
  <1>6. \A k \in Leases : Serving(k)' => Serving(k) /\ k # l
    BY <1>3 DEF IInv, TypeOK, Serving, WorkerRecord
  <1>7. TypeOK'
    <2>1. radio' \in [Radios -> RadioRecord]
      <3> DEFINE new == [radio[r] EXCEPT !.state = "Stopping", !.runtime = None]
      <3>1. radio[r] \in RadioRecord
        BY <1>1 DEF IInv, TypeOK
      <3>2. new \in RadioRecord
        BY <1>1, <3>1 DEF RadioRecord
      <3>3. radio' = [radio EXCEPT ![r] = new]
        BY <1>1 DEF Take
      <3>4. QED
        BY <1>1, <3>2, <3>3, UpdateType DEF IInv, TypeOK
    <2>2. worker' \in [Leases -> WorkerRecord]
      BY <1>3 DEF IInv, TypeOK, WorkerRecord
    <2>3. job' \in [Tasks -> JobRecord]
      BY <1>1, DoingType, IdleType, UpdateType DEF IInv, TypeOK, Take
    <2>4. QED
      BY <1>1, <1>2, <1>3, <1>4, <1>5, <1>6, <2>1, <2>2, <2>3 DEF IInv, TypeOK
  <1>8. JobsWellFormed'
    BY <1>1, <1>2, <1>3, <1>4, <1>5, <1>6, ConstantsAssumption DEF IInv, TypeOK,
       JobsWellFormed, Busy, Idle, Doing, Tasks
  <1>9. AbsentIsEmpty'
    BY <1>1, <1>2, <1>3, <1>4, <1>5, <1>6 DEF IInv, TypeOK, AbsentIsEmpty
  <1>10. LeasesDiffer'
    BY <1>1, <1>2, <1>3, <1>4, <1>5, <1>6 DEF IInv, TypeOK, LeasesDiffer
  <1>11. RuntimeServesLease'
    BY <1>1, <1>2, <1>3, <1>4, <1>5, <1>6 DEF IInv, TypeOK, RuntimeServesLease
  <1>12. RunningIsServed'
    BY <1>1, <1>2, <1>3, <1>4, <1>5, <1>6 DEF IInv, TypeOK, RunningIsServed
  <1>13. AvailableIsFree'
    BY <1>1, <1>2, <1>3, <1>4, <1>5, <1>6 DEF IInv, TypeOK, AvailableIsFree
  <1>14. FinisherOwnsLease'
    <2> SUFFICES ASSUME NEW u \in Tasks, job'[u].pc \in Busy
                  PROVE  radio'[job'[u].radio].known /\ radio'[job'[u].radio].lease = job'[u].lease
      BY DEF FinisherOwnsLease, Busy
    <2>1. CASE u = t
      BY <2>1, <1>1, <1>2, <1>3, <1>4, <1>5, <1>6
    <2>2. CASE u # t
      <3>1. job'[u] = job[u] /\ job[u].radio \in Radios /\ job[u].radio # r
        BY <2>2, <1>1, <1>2, <1>3, <1>4, <1>5, <1>6 DEF IInv, JobsWellFormed, OneTaskPerRadio, Busy
      <3>2. QED
        BY <3>1, <1>1, <1>2, <1>3, <1>4, <1>5, <1>6 DEF IInv, FinisherOwnsLease, Busy
    <2>3. QED
      BY <2>1, <2>2
  <1>15. BusyRuntime'
    BY <1>1, <1>2, <1>3, <1>4, <1>5, <1>6 DEF IInv, TypeOK, BusyRuntime, JobsWellFormed,
       OneTaskPerRadio, Busy
  <1>16. OneTaskPerRadio'
    BY <1>1, <1>2, <1>3, <1>4, <1>5, <1>6 DEF IInv, TypeOK, OneTaskPerRadio, Busy
  <1>17. AcquirerAlone'
    BY <1>1, <1>2, <1>3, <1>4, <1>5, <1>6 DEF IInv, TypeOK, AcquirerAlone, JobsWellFormed,
       OneTaskPerRadio, Busy, Starting, Tasks
  <1>18. NoOrphanWorker'
    BY <1>1, <1>2, <1>3, <1>4, <1>5, <1>6 DEF IInv, TypeOK, NoOrphanWorker, Tasks
  <1>19. HaltingLate'
    BY <1>1, <1>2, <1>3, <1>4, <1>5, <1>6 DEF IInv, TypeOK, HaltingLate
  <1>20. QED
    BY <1>7, <1>8, <1>9, <1>10, <1>11, <1>12, <1>13, <1>14, <1>15, <1>16, <1>17, <1>18,
       <1>19 DEF IInv

\* The first critical section of release, refused: at most the state is set.
LEMMA RefusedInv ==
    ASSUME IInv, TtlCoversStartup, NEW c \in Clients, NEW r \in Radios, NEW l \in Leases, Refused(c, r, l),
           UNCHANGED <<expired, halting, mode>>, todo' \subseteq todo, online' \subseteq Clients,
           session' \in [Clients -> Grant \union {None}],
           \A d \in Clients : session'[d] \in {session[d], None}
    PROVE  IInv'
  <1>1. /\ UNCHANGED <<worker, job>>
        /\ radio' = radio \/ radio' = [radio EXCEPT ![r].state = "Stopping"]
    BY DEF Refused
  <1>2. \/ radio' = radio
        \/ /\ radio[r].lease # None /\ radio[r].runtime = None
           /\ radio'[r].state = "Stopping"
    BY DEF IInv, TypeOK, Refused, Holds, RadioRecord
  <1>3. \A q \in Radios :
            /\ q # r => radio'[q] = radio[q]
            /\ radio'[q].known = radio[q].known /\ radio'[q].lease = radio[q].lease
            /\ radio'[q].client = radio[q].client /\ radio'[q].runtime = radio[q].runtime
    BY <1>1 DEF IInv, TypeOK, RadioRecord
  <1>4. TypeOK'
    <2>1. radio' \in [Radios -> RadioRecord]
      BY <1>1 DEF IInv, TypeOK, RadioRecord
    <2>2. QED
      BY <1>1, <1>2, <1>3, <2>1 DEF IInv, TypeOK
  <1>5. JobsWellFormed'
    BY <1>1, <1>2, <1>3 DEF IInv, TypeOK, JobsWellFormed, Busy, Idle, Doing, Tasks
  <1>6. AbsentIsEmpty'
    BY <1>1, <1>2, <1>3 DEF IInv, TypeOK, AbsentIsEmpty
  <1>7. LeasesDiffer'
    BY <1>1, <1>2, <1>3 DEF IInv, TypeOK, LeasesDiffer
  <1>8. RuntimeServesLease'
    BY <1>1, <1>2, <1>3 DEF IInv, TypeOK, RuntimeServesLease
  <1>9. RunningIsServed'
    BY <1>1, <1>2, <1>3 DEF IInv, TypeOK, RunningIsServed
  <1>10. AvailableIsFree'
    BY <1>1, <1>2, <1>3 DEF IInv, TypeOK, AvailableIsFree
  <1>11. FinisherOwnsLease'
    BY <1>1, <1>2, <1>3 DEF IInv, TypeOK, FinisherOwnsLease, JobsWellFormed,
       OneTaskPerRadio, Busy
  <1>12. BusyRuntime'
    BY <1>1, <1>2, <1>3 DEF IInv, TypeOK, BusyRuntime, JobsWellFormed, OneTaskPerRadio, Busy
  <1>13. OneTaskPerRadio'
    BY <1>1, <1>2, <1>3 DEF IInv, TypeOK, OneTaskPerRadio, Busy
  <1>14. AcquirerAlone'
    BY <1>1, <1>2, <1>3 DEF IInv, TypeOK, AcquirerAlone, JobsWellFormed, OneTaskPerRadio,
       Busy, Starting, Tasks
  <1>15. NoOrphanWorker'
    BY <1>1, <1>2, <1>3 DEF IInv, TypeOK, NoOrphanWorker, Tasks, Serving
  <1>16. HaltingLate'
    BY <1>1, <1>2, <1>3 DEF IInv, TypeOK, HaltingLate
  <1>17. QED
    BY <1>4, <1>5, <1>6, <1>7, <1>8, <1>9, <1>10, <1>11, <1>12, <1>13, <1>14, <1>15,
       <1>16 DEF IInv

\* Renewing moves an expiry and nothing else.
LEMMA RenewLeaseInv ==
    ASSUME IInv, TtlCoversStartup, NEW c \in Clients, RenewLease(c)
    PROVE  IInv'
  <1>1. /\ UNCHANGED <<worker, radio, job, todo, halting, session, online, mode>>
        /\ expired' \subseteq expired
    BY DEF RenewLease
  <1>2. TypeOK'
    BY <1>1 DEF IInv, TypeOK
  <1>3. JobsWellFormed'
    BY <1>1 DEF IInv, TypeOK, JobsWellFormed, Busy, Idle, Doing, Tasks
  <1>4. AbsentIsEmpty'
    BY <1>1 DEF IInv, TypeOK, AbsentIsEmpty
  <1>5. LeasesDiffer'
    BY <1>1 DEF IInv, TypeOK, LeasesDiffer
  <1>6. RuntimeServesLease'
    BY <1>1 DEF IInv, TypeOK, RuntimeServesLease
  <1>7. RunningIsServed'
    BY <1>1 DEF IInv, TypeOK, RunningIsServed
  <1>8. AvailableIsFree'
    BY <1>1 DEF IInv, TypeOK, AvailableIsFree
  <1>9. FinisherOwnsLease'
    BY <1>1 DEF IInv, TypeOK, FinisherOwnsLease, JobsWellFormed, OneTaskPerRadio, Busy
  <1>10. BusyRuntime'
    BY <1>1 DEF IInv, TypeOK, BusyRuntime, JobsWellFormed, OneTaskPerRadio, Busy
  <1>11. OneTaskPerRadio'
    BY <1>1 DEF IInv, TypeOK, OneTaskPerRadio, Busy
  <1>12. AcquirerAlone'
    BY <1>1 DEF IInv, TypeOK, AcquirerAlone, JobsWellFormed, OneTaskPerRadio, Busy,
       Starting, Tasks
  <1>13. NoOrphanWorker'
    BY <1>1 DEF IInv, TypeOK, NoOrphanWorker, Tasks, Serving
  <1>14. HaltingLate'
    BY <1>1 DEF IInv, TypeOK, HaltingLate
  <1>15. QED
    BY <1>2, <1>3, <1>4, <1>5, <1>6, <1>7, <1>8, <1>9, <1>10, <1>11, <1>12, <1>13,
       <1>14 DEF IInv

\* A new connection touches only itself.
LEMMA ConnectInv ==
    ASSUME IInv, TtlCoversStartup, NEW c \in Clients, Connect(c)
    PROVE  IInv'
  <1>1. /\ UNCHANGED <<worker, radio, expired, job, todo, halting, session, mode>>
        /\ online' \subseteq Clients
    BY DEF Connect, IInv, TypeOK
  <1>2. TypeOK'
    BY <1>1 DEF IInv, TypeOK
  <1>3. JobsWellFormed'
    BY <1>1 DEF IInv, TypeOK, JobsWellFormed, Busy, Idle, Doing, Tasks
  <1>4. AbsentIsEmpty'
    BY <1>1 DEF IInv, TypeOK, AbsentIsEmpty
  <1>5. LeasesDiffer'
    BY <1>1 DEF IInv, TypeOK, LeasesDiffer
  <1>6. RuntimeServesLease'
    BY <1>1 DEF IInv, TypeOK, RuntimeServesLease
  <1>7. RunningIsServed'
    BY <1>1 DEF IInv, TypeOK, RunningIsServed
  <1>8. AvailableIsFree'
    BY <1>1 DEF IInv, TypeOK, AvailableIsFree
  <1>9. FinisherOwnsLease'
    BY <1>1 DEF IInv, TypeOK, FinisherOwnsLease, JobsWellFormed, OneTaskPerRadio, Busy
  <1>10. BusyRuntime'
    BY <1>1 DEF IInv, TypeOK, BusyRuntime, JobsWellFormed, OneTaskPerRadio, Busy
  <1>11. OneTaskPerRadio'
    BY <1>1 DEF IInv, TypeOK, OneTaskPerRadio, Busy
  <1>12. AcquirerAlone'
    BY <1>1 DEF IInv, TypeOK, AcquirerAlone, JobsWellFormed, OneTaskPerRadio, Busy,
       Starting, Tasks
  <1>13. NoOrphanWorker'
    BY <1>1 DEF IInv, TypeOK, NoOrphanWorker, Tasks, Serving
  <1>14. HaltingLate'
    BY <1>1 DEF IInv, TypeOK, HaltingLate
  <1>15. QED
    BY <1>2, <1>3, <1>4, <1>5, <1>6, <1>7, <1>8, <1>9, <1>10, <1>11, <1>12, <1>13,
       <1>14 DEF IInv

\* The ownership checks of send_command pick the worker of the session's lease.
LEMMA CheckCommandInv ==
    ASSUME IInv, TtlCoversStartup, NEW c \in Clients, CheckCommand(c)
    PROVE  IInv'
  <1>1. /\ c \in Tasks /\ c # Expiry /\ c # Shutdown /\ job[c].pc = "idle"
        /\ session[c] \in Grant
    BY ConstantsAssumption DEF CheckCommand, Free, Tasks, IInv, TypeOK
  <1>2. /\ session[c].radio \in Radios /\ session[c].lease \in Leases
        /\ radio[session[c].radio].runtime = session[c].lease
    BY <1>1 DEF CheckCommand, Holds, IInv, RuntimeServesLease, Grant
  <1>3. /\ \A u \in Tasks : u # c => job'[u] = job[u]
        /\ job'[c] = Doing("send", session[c].radio, session[c].lease, session[c].lease)
        /\ job'[c].pc = "send" /\ job'[c].radio = session[c].radio
        /\ job'[c].lease = session[c].lease /\ job'[c].worker = session[c].lease
    BY <1>1, <1>2 DEF IInv, TypeOK, CheckCommand, Doing, Idle
  <1>4. UNCHANGED <<worker, radio, expired, todo, halting, session, online, mode>>
    BY DEF CheckCommand
  <1>5. TypeOK'
    <2>1. job' \in [Tasks -> JobRecord]
      BY <1>1, <1>2, DoingType, IdleType, UpdateType DEF IInv, TypeOK, CheckCommand
    <2>2. QED
      BY <1>1, <1>2, <1>3, <1>4, <2>1 DEF IInv, TypeOK
  <1>6. JobsWellFormed'
    BY <1>1, <1>2, <1>3, <1>4 DEF IInv, TypeOK, JobsWellFormed, Busy, Idle, Doing, Tasks
  <1>7. AbsentIsEmpty'
    BY <1>1, <1>2, <1>3, <1>4 DEF IInv, TypeOK, AbsentIsEmpty
  <1>8. LeasesDiffer'
    BY <1>1, <1>2, <1>3, <1>4 DEF IInv, TypeOK, LeasesDiffer
  <1>9. RuntimeServesLease'
    BY <1>1, <1>2, <1>3, <1>4 DEF IInv, TypeOK, RuntimeServesLease
  <1>10. RunningIsServed'
    BY <1>1, <1>2, <1>3, <1>4 DEF IInv, TypeOK, RunningIsServed
  <1>11. AvailableIsFree'
    BY <1>1, <1>2, <1>3, <1>4 DEF IInv, TypeOK, AvailableIsFree
  <1>12. FinisherOwnsLease'
    BY <1>1, <1>2, <1>3, <1>4 DEF IInv, TypeOK, FinisherOwnsLease, JobsWellFormed,
       OneTaskPerRadio, Busy
  <1>13. BusyRuntime'
    BY <1>1, <1>2, <1>3, <1>4 DEF IInv, TypeOK, BusyRuntime, JobsWellFormed,
       OneTaskPerRadio, Busy
  <1>14. OneTaskPerRadio'
    BY <1>1, <1>2, <1>3, <1>4 DEF IInv, TypeOK, OneTaskPerRadio, Busy
  <1>15. AcquirerAlone'
    BY <1>1, <1>2, <1>3, <1>4 DEF IInv, TypeOK, AcquirerAlone, JobsWellFormed,
       OneTaskPerRadio, Busy, Starting, Tasks
  <1>16. NoOrphanWorker'
    BY <1>1, <1>2, <1>3, <1>4 DEF IInv, TypeOK, NoOrphanWorker, Tasks, Serving
  <1>17. HaltingLate'
    BY <1>1, <1>2, <1>3, <1>4 DEF IInv, TypeOK, HaltingLate
  <1>18. QED
    BY <1>5, <1>6, <1>7, <1>8, <1>9, <1>10, <1>11, <1>12, <1>13, <1>14, <1>15, <1>16,
       <1>17 DEF IInv

\* The send itself touches no state of the manager.
LEMMA SendCommandInv ==
    ASSUME IInv, TtlCoversStartup, NEW c \in Clients, SendCommand(c)
    PROVE  IInv'
  <1>1. c \in Tasks /\ c # Expiry /\ c # Shutdown /\ job[c].pc = "send"
    BY ConstantsAssumption DEF SendCommand, Tasks
  <1>2. /\ \A u \in Tasks : u # c => job'[u] = job[u]
        /\ job'[c] = Idle
        /\ job'[c].pc = "idle" /\ job'[c].radio = None
        /\ job'[c].lease = None /\ job'[c].worker = None
    BY <1>1 DEF IInv, TypeOK, SendCommand, Doing, Idle
  <1>3. UNCHANGED <<worker, radio, expired, todo, halting, session, online, mode>>
    BY DEF SendCommand
  <1>4. TypeOK'
    <2>1. job' \in [Tasks -> JobRecord]
      BY <1>1, DoingType, IdleType, UpdateType DEF IInv, TypeOK, SendCommand
    <2>2. QED
      BY <1>1, <1>2, <1>3, <2>1 DEF IInv, TypeOK
  <1>5. JobsWellFormed'
    BY <1>1, <1>2, <1>3 DEF IInv, TypeOK, JobsWellFormed, Busy, Idle, Doing, Tasks
  <1>6. AbsentIsEmpty'
    BY <1>1, <1>2, <1>3 DEF IInv, TypeOK, AbsentIsEmpty
  <1>7. LeasesDiffer'
    BY <1>1, <1>2, <1>3 DEF IInv, TypeOK, LeasesDiffer
  <1>8. RuntimeServesLease'
    BY <1>1, <1>2, <1>3 DEF IInv, TypeOK, RuntimeServesLease
  <1>9. RunningIsServed'
    BY <1>1, <1>2, <1>3 DEF IInv, TypeOK, RunningIsServed
  <1>10. AvailableIsFree'
    BY <1>1, <1>2, <1>3 DEF IInv, TypeOK, AvailableIsFree
  <1>11. FinisherOwnsLease'
    BY <1>1, <1>2, <1>3 DEF IInv, TypeOK, FinisherOwnsLease, JobsWellFormed,
       OneTaskPerRadio, Busy
  <1>12. BusyRuntime'
    BY <1>1, <1>2, <1>3 DEF IInv, TypeOK, BusyRuntime, JobsWellFormed, OneTaskPerRadio, Busy
  <1>13. OneTaskPerRadio'
    BY <1>1, <1>2, <1>3 DEF IInv, TypeOK, OneTaskPerRadio, Busy
  <1>14. AcquirerAlone'
    BY <1>1, <1>2, <1>3 DEF IInv, TypeOK, AcquirerAlone, JobsWellFormed, OneTaskPerRadio,
       Busy, Starting, Tasks
  <1>15. NoOrphanWorker'
    BY <1>1, <1>2, <1>3 DEF IInv, TypeOK, NoOrphanWorker, Tasks, Serving
  <1>16. HaltingLate'
    BY <1>1, <1>2, <1>3 DEF IInv, TypeOK, HaltingLate
  <1>17. QED
    BY <1>4, <1>5, <1>6, <1>7, <1>8, <1>9, <1>10, <1>11, <1>12, <1>13, <1>14, <1>15,
       <1>16 DEF IInv

\* A rescan leaves every leased radio as it is, and an idle one idle.
LEMMA RescanInv ==
    ASSUME IInv, TtlCoversStartup, NEW c \in Clients, NEW seen \in SUBSET Radios,
           Rescan(c, seen)
    PROVE  IInv'
  <1>1. \A q \in Radios :
            /\ radio'[q] \in RadioRecord
            /\ radio[q].lease # None => radio'[q] = radio[q]
            /\ radio[q].lease = None => /\ radio'[q].lease = None /\ radio'[q].runtime = None
                                        /\ radio'[q].state = "Available"
    <2> SUFFICES ASSUME NEW q \in Radios
             PROVE  /\ radio'[q] \in RadioRecord
                    /\ radio[q].lease # None => radio'[q] = radio[q]
                    /\ radio[q].lease = None =>
                           /\ radio'[q].lease = None /\ radio'[q].runtime = None
                           /\ radio'[q].state = "Available"
      OBVIOUS
    <2>1. radio'[q] \in {radio[q], IdleRadio(TRUE), IdleRadio(FALSE)}
      BY DEF Rescan
    <2>2. radio[q].lease # None => radio'[q] = radio[q]
      BY DEF Rescan, IInv, TypeOK, AbsentIsEmpty
    <2>3. radio[q].lease = None => radio[q].state = "Available" /\ radio[q].runtime = None
      BY ConstantsAssumption DEF IInv, TypeOK, AvailableIsFree, RuntimeServesLease
    <2>4. IdleRadio(TRUE) \in RadioRecord /\ IdleRadio(FALSE) \in RadioRecord
      BY DEF IdleRadio, RadioRecord
    <2>5. radio'[q] \in RadioRecord
      BY <2>1, <2>4 DEF IInv, TypeOK
    <2>6. CASE radio'[q] = radio[q]
      BY <2>3, <2>5, <2>6
    <2>7. CASE radio'[q] \in {IdleRadio(TRUE), IdleRadio(FALSE)}
      BY <2>2, <2>5, <2>7 DEF IdleRadio
    <2>8. QED
      BY <2>1, <2>6, <2>7
  <1>2. worker' = worker
    <2>1. \A l \in Leases, r \in Radios : radio[r].runtime = l => radio'[r].runtime = l
      BY <1>1, ConstantsAssumption DEF IInv, RuntimeServesLease
    <2>2. worker' = [l \in Leases |->
                        IF \E r \in Radios : radio[r].runtime = l /\ radio'[r].runtime # l
                        THEN [worker[l] EXCEPT !.stopSent = TRUE] ELSE worker[l]]
      BY DEF Rescan
    <2>3. \A l \in Leases : worker'[l] = worker[l]
      BY <2>1, <2>2
    <2>4. QED
      BY <2>2, <2>3 DEF IInv, TypeOK
  <1>3. UNCHANGED <<expired, job, todo, halting, session, online, mode>>
    BY DEF Rescan
  <1>4. TypeOK'
    <2>1. radio' \in [Radios -> RadioRecord]
      BY <1>1 DEF Rescan
    <2>2. QED
      BY <1>1, <1>2, <1>3, <2>1 DEF IInv, TypeOK
  <1>5. JobsWellFormed'
    BY <1>1, <1>2, <1>3 DEF IInv, TypeOK, JobsWellFormed, Busy, Idle, Doing, Tasks
  <1>6. AbsentIsEmpty'
    BY <1>1, <1>2, <1>3 DEF IInv, TypeOK, AbsentIsEmpty
  <1>7. LeasesDiffer'
    BY <1>1, <1>2, <1>3 DEF IInv, TypeOK, LeasesDiffer
  <1>8. RuntimeServesLease'
    BY <1>1, <1>2, <1>3 DEF IInv, TypeOK, RuntimeServesLease
  <1>9. RunningIsServed'
    BY <1>1, <1>2, <1>3 DEF IInv, TypeOK, RunningIsServed
  <1>10. AvailableIsFree'
    BY <1>1, <1>2, <1>3 DEF IInv, TypeOK, AvailableIsFree
  <1>11. FinisherOwnsLease'
    BY <1>1, <1>2, <1>3, ConstantsAssumption DEF IInv, TypeOK, FinisherOwnsLease,
       JobsWellFormed, OneTaskPerRadio, Busy
  <1>12. BusyRuntime'
    BY <1>1, <1>2, <1>3, ConstantsAssumption DEF IInv, TypeOK, BusyRuntime, JobsWellFormed,
       OneTaskPerRadio, Busy, FinisherOwnsLease
  <1>13. OneTaskPerRadio'
    BY <1>1, <1>2, <1>3 DEF IInv, TypeOK, OneTaskPerRadio, Busy
  <1>14. AcquirerAlone'
    BY <1>1, <1>2, <1>3, ConstantsAssumption DEF IInv, TypeOK, AcquirerAlone,
       JobsWellFormed, OneTaskPerRadio, Busy, Starting, Tasks, FinisherOwnsLease
  <1>15. NoOrphanWorker'
    BY <1>1, <1>2, <1>3, ConstantsAssumption DEF IInv, TypeOK, NoOrphanWorker, Tasks,
       Serving, RuntimeServesLease
  <1>16. HaltingLate'
    BY <1>1, <1>2, <1>3 DEF IInv, TypeOK, HaltingLate
  <1>17. QED
    BY <1>4, <1>5, <1>6, <1>7, <1>8, <1>9, <1>10, <1>11, <1>12, <1>13, <1>14, <1>15,
       <1>16 DEF IInv

\* Only a lease whose acquire has returned expires.
LEMMA ExpireInv ==
    ASSUME IInv, TtlCoversStartup, NEW l \in Leases, Expire(l)
    PROVE  IInv'
  <1>1. \A d \in Clients : job[d].pc \in Starting => job[d].lease # l
    BY DEF Expire, Acquiring, Starting
  <1>2. /\ UNCHANGED <<worker, radio, job, todo, halting, session, online, mode>>
        /\ expired' = expired \union {l}
    BY DEF Expire
  <1>3. TypeOK'
    BY <1>2 DEF IInv, TypeOK
  <1>4. JobsWellFormed'
    BY <1>1, <1>2 DEF IInv, TypeOK, JobsWellFormed, Busy, Idle, Doing, Tasks
  <1>5. AbsentIsEmpty'
    BY <1>1, <1>2 DEF IInv, TypeOK, AbsentIsEmpty
  <1>6. LeasesDiffer'
    BY <1>1, <1>2 DEF IInv, TypeOK, LeasesDiffer
  <1>7. RuntimeServesLease'
    BY <1>1, <1>2 DEF IInv, TypeOK, RuntimeServesLease
  <1>8. RunningIsServed'
    BY <1>1, <1>2 DEF IInv, TypeOK, RunningIsServed
  <1>9. AvailableIsFree'
    BY <1>1, <1>2 DEF IInv, TypeOK, AvailableIsFree
  <1>10. FinisherOwnsLease'
    BY <1>1, <1>2 DEF IInv, TypeOK, FinisherOwnsLease, JobsWellFormed, OneTaskPerRadio, Busy
  <1>11. BusyRuntime'
    BY <1>1, <1>2 DEF IInv, TypeOK, BusyRuntime, JobsWellFormed, OneTaskPerRadio, Busy
  <1>12. OneTaskPerRadio'
    BY <1>1, <1>2 DEF IInv, TypeOK, OneTaskPerRadio, Busy
  <1>13. AcquirerAlone'
    BY <1>1, <1>2 DEF IInv, TypeOK, AcquirerAlone, JobsWellFormed, OneTaskPerRadio, Busy,
       Starting, Tasks
  <1>14. NoOrphanWorker'
    BY <1>1, <1>2 DEF IInv, TypeOK, NoOrphanWorker, Tasks, Serving
  <1>15. HaltingLate'
    BY <1>1, <1>2 DEF IInv, TypeOK, HaltingLate
  <1>16. QED
    BY <1>3, <1>4, <1>5, <1>6, <1>7, <1>8, <1>9, <1>10, <1>11, <1>12, <1>13, <1>14,
       <1>15 DEF IInv

\* A tick collects leases that are expired, so none an acquire is working on.
LEMMA ScanInv ==
    ASSUME IInv, TtlCoversStartup, Scan
    PROVE  IInv'
  <1>1. \A claim \in todo' : claim \in Claim /\ claim.lease \in expired
    BY DEF Scan, ExpiredNow
  <1>2. UNCHANGED <<worker, radio, expired, job, halting, session, online, mode>>
    BY DEF Scan
  <1>3. TypeOK'
    BY <1>1, <1>2 DEF IInv, TypeOK
  <1>4. JobsWellFormed'
    BY <1>1, <1>2 DEF IInv, TypeOK, JobsWellFormed, Busy, Idle, Doing, Tasks
  <1>5. AbsentIsEmpty'
    BY <1>1, <1>2 DEF IInv, TypeOK, AbsentIsEmpty
  <1>6. LeasesDiffer'
    BY <1>1, <1>2 DEF IInv, TypeOK, LeasesDiffer
  <1>7. RuntimeServesLease'
    BY <1>1, <1>2 DEF IInv, TypeOK, RuntimeServesLease
  <1>8. RunningIsServed'
    BY <1>1, <1>2 DEF IInv, TypeOK, RunningIsServed
  <1>9. AvailableIsFree'
    BY <1>1, <1>2 DEF IInv, TypeOK, AvailableIsFree
  <1>10. FinisherOwnsLease'
    BY <1>1, <1>2 DEF IInv, TypeOK, FinisherOwnsLease, JobsWellFormed, OneTaskPerRadio, Busy
  <1>11. BusyRuntime'
    BY <1>1, <1>2 DEF IInv, TypeOK, BusyRuntime, JobsWellFormed, OneTaskPerRadio, Busy
  <1>12. OneTaskPerRadio'
    BY <1>1, <1>2 DEF IInv, TypeOK, OneTaskPerRadio, Busy
  <1>13. AcquirerAlone'
    BY <1>1, <1>2 DEF IInv, TypeOK, AcquirerAlone, JobsWellFormed, OneTaskPerRadio, Busy,
       Starting, Tasks
  <1>14. NoOrphanWorker'
    BY <1>1, <1>2 DEF IInv, TypeOK, NoOrphanWorker, Tasks, Serving
  <1>15. HaltingLate'
    BY <1>1, <1>2 DEF IInv, TypeOK, HaltingLate
  <1>16. QED
    BY <1>3, <1>4, <1>5, <1>6, <1>7, <1>8, <1>9, <1>10, <1>11, <1>12, <1>13, <1>14,
       <1>15 DEF IInv

\* shutdown_all takes every runtime; each is then in its hands.
LEMMA ShutdownAllInv ==
    ASSUME IInv, TtlCoversStartup, ShutdownAll
    PROVE  IInv'
  <1>1. \A q \in Radios : radio'[q] = IF radio[q].runtime = None THEN radio[q]
                                     ELSE [radio[q] EXCEPT !.state = "Stopping", !.runtime = None]
    BY DEF ShutdownAll
  <1>2. \A q \in Radios :
            /\ radio'[q] \in RadioRecord
            /\ radio'[q].known = radio[q].known /\ radio'[q].lease = radio[q].lease
            /\ radio'[q].client = radio[q].client /\ radio'[q].runtime = None
            /\ radio'[q].state \in {radio[q].state, "Stopping"}
            /\ radio[q].runtime = None => radio'[q].state = radio[q].state
            /\ radio[q].runtime # None => radio'[q].state = "Stopping"
    <2> SUFFICES ASSUME NEW q \in Radios
             PROVE  /\ radio'[q] \in RadioRecord
                    /\ radio'[q].known = radio[q].known /\ radio'[q].lease = radio[q].lease
                    /\ radio'[q].client = radio[q].client /\ radio'[q].runtime = None
                    /\ radio'[q].state \in {radio[q].state, "Stopping"}
                    /\ radio[q].runtime = None => radio'[q].state = radio[q].state
                    /\ radio[q].runtime # None => radio'[q].state = "Stopping"
      OBVIOUS
    <2>1. radio[q] \in RadioRecord
      BY DEF IInv, TypeOK
    <2>2. CASE radio[q].runtime = None
      BY <1>1, <2>1, <2>2 DEF RadioRecord
    <2>3. CASE radio[q].runtime # None
      <3>1. radio'[q] = [radio[q] EXCEPT !.state = "Stopping", !.runtime = None]
        BY <1>1, <2>3
      <3>2. QED
        BY <2>1, <2>3, <3>1 DEF RadioRecord
    <2>4. QED
      BY <2>2, <2>3
  <1>3. \A k \in Leases : (\E q \in Radios : radio[q].runtime = k) => k \in halting'
    BY DEF ShutdownAll
  <1>4. mode' = "stopping" /\ UNCHANGED <<worker, expired, job, todo, session, online>>
    BY DEF ShutdownAll
  <1>5. halting = {}
    BY DEF ShutdownAll, IInv, HaltingLate
  <1>6. TypeOK'
    <2>1. radio' \in [Radios -> RadioRecord]
      BY <1>2 DEF ShutdownAll
    <2>2. halting' \subseteq Leases
      BY DEF ShutdownAll
    <2>3. QED
      BY <1>1, <1>2, <1>3, <1>4, <1>5, <2>1, <2>2 DEF IInv, TypeOK
  <1>7. JobsWellFormed'
    BY <1>1, <1>2, <1>3, <1>4, <1>5 DEF IInv, TypeOK, JobsWellFormed, Busy, Idle, Doing,
       Tasks
  <1>8. AbsentIsEmpty'
    BY <1>1, <1>2, <1>3, <1>4, <1>5 DEF IInv, TypeOK, AbsentIsEmpty
  <1>9. LeasesDiffer'
    BY <1>2 DEF IInv, LeasesDiffer
  <1>10. RuntimeServesLease'
    BY <1>1, <1>2, <1>3, <1>4, <1>5 DEF IInv, TypeOK, RuntimeServesLease
  <1>11. RunningIsServed'
    BY <1>1, <1>2, <1>3, <1>4, <1>5 DEF IInv, TypeOK, RunningIsServed
  <1>12. AvailableIsFree'
    BY <1>1, <1>2, <1>3, <1>4, <1>5, ConstantsAssumption DEF IInv, TypeOK, AvailableIsFree,
       RuntimeServesLease
  <1>13. FinisherOwnsLease'
    BY <1>1, <1>2, <1>3, <1>4, <1>5 DEF IInv, TypeOK, FinisherOwnsLease, JobsWellFormed,
       OneTaskPerRadio, Busy
  <1>14. BusyRuntime'
    BY <1>1, <1>2, <1>3, <1>4, <1>5 DEF IInv, TypeOK, BusyRuntime, JobsWellFormed,
       OneTaskPerRadio, Busy
  <1>15. OneTaskPerRadio'
    BY <1>1, <1>2, <1>3, <1>4, <1>5 DEF IInv, TypeOK, OneTaskPerRadio, Busy
  <1>16. AcquirerAlone'
    BY <1>1, <1>2, <1>3, <1>4, <1>5 DEF IInv, TypeOK, AcquirerAlone, JobsWellFormed,
       OneTaskPerRadio, Busy, Starting, Tasks
  <1>17. NoOrphanWorker'
    BY <1>1, <1>2, <1>3, <1>4, <1>5 DEF IInv, TypeOK, NoOrphanWorker, Tasks, Serving
  <1>18. HaltingLate'
    BY <1>1, <1>2, <1>3, <1>4, <1>5 DEF IInv, TypeOK, HaltingLate
  <1>19. QED
    BY <1>6, <1>7, <1>8, <1>9, <1>10, <1>11, <1>12, <1>13, <1>14, <1>15, <1>16, <1>17,
       <1>18 DEF IInv

\* shutdown_all signals one of the workers it took.
LEMMA ShutdownOneInv ==
    ASSUME IInv, TtlCoversStartup, NEW w \in Leases, ShutdownOne(w)
    PROVE  IInv'
  <1>1. /\ Shutdown \in Tasks /\ Shutdown # Expiry /\ Shutdown \notin Clients
        /\ job[Shutdown].pc = "idle"
    BY ConstantsAssumption DEF Tasks, Shutdown, Expiry, ShutdownOne
  <1>2. /\ \A u \in Tasks : u # Shutdown => job'[u] = job[u]
        /\ job'[Shutdown] = Doing("halt", None, None, w)
        /\ job'[Shutdown].pc = "halt" /\ job'[Shutdown].radio = None
        /\ job'[Shutdown].lease = None /\ job'[Shutdown].worker = w
    BY <1>1 DEF IInv, TypeOK, ShutdownOne, Doing, Idle
  <1>3. \A k \in Leases : Serving(k)' => Serving(k) /\ k # w
    BY DEF ShutdownOne, Signalled, IInv, TypeOK, Serving, WorkerRecord
  <1>4. halting' = halting \ {w} /\ UNCHANGED <<radio, expired, todo, session, online, mode>>
    BY DEF ShutdownOne
  <1>5. TypeOK'
    <2>1. worker' \in [Leases -> WorkerRecord]
      BY SignalledType DEF IInv, TypeOK, ShutdownOne
    <2>2. job' \in [Tasks -> JobRecord]
      BY <1>1, DoingType, IdleType, UpdateType DEF IInv, TypeOK, ShutdownOne
    <2>3. QED
      BY <1>1, <1>2, <1>3, <1>4, <2>1, <2>2 DEF IInv, TypeOK
  <1>6. JobsWellFormed'
    BY <1>1, <1>2, <1>3, <1>4 DEF IInv, TypeOK, JobsWellFormed, Busy, Idle, Doing, Tasks
  <1>7. AbsentIsEmpty'
    BY <1>1, <1>2, <1>3, <1>4 DEF IInv, TypeOK, AbsentIsEmpty
  <1>8. LeasesDiffer'
    BY <1>1, <1>2, <1>3, <1>4 DEF IInv, TypeOK, LeasesDiffer
  <1>9. RuntimeServesLease'
    BY <1>1, <1>2, <1>3, <1>4 DEF IInv, TypeOK, RuntimeServesLease
  <1>10. RunningIsServed'
    BY <1>1, <1>2, <1>3, <1>4 DEF IInv, TypeOK, RunningIsServed
  <1>11. AvailableIsFree'
    BY <1>1, <1>2, <1>3, <1>4 DEF IInv, TypeOK, AvailableIsFree
  <1>12. FinisherOwnsLease'
    BY <1>1, <1>2, <1>3, <1>4 DEF IInv, TypeOK, FinisherOwnsLease, JobsWellFormed,
       OneTaskPerRadio, Busy
  <1>13. BusyRuntime'
    BY <1>1, <1>2, <1>3, <1>4 DEF IInv, TypeOK, BusyRuntime, JobsWellFormed,
       OneTaskPerRadio, Busy
  <1>14. OneTaskPerRadio'
    BY <1>1, <1>2, <1>3, <1>4 DEF IInv, TypeOK, OneTaskPerRadio, Busy
  <1>15. AcquirerAlone'
    BY <1>1, <1>2, <1>3, <1>4 DEF IInv, TypeOK, AcquirerAlone, JobsWellFormed,
       OneTaskPerRadio, Busy, Starting, Tasks
  <1>16. NoOrphanWorker'
    BY <1>1, <1>2, <1>3, <1>4 DEF IInv, TypeOK, NoOrphanWorker, Tasks
  <1>17. HaltingLate'
    BY <1>1, <1>2, <1>3, <1>4 DEF IInv, TypeOK, HaltingLate
  <1>18. QED
    BY <1>5, <1>6, <1>7, <1>8, <1>9, <1>10, <1>11, <1>12, <1>13, <1>14, <1>15, <1>16,
       <1>17 DEF IInv

\* shutdown_all has joined a worker.
LEMMA ShutdownJoinInv ==
    ASSUME IInv, TtlCoversStartup, ShutdownJoin
    PROVE  IInv'
  <1>1. /\ Shutdown \in Tasks /\ Shutdown # Expiry /\ Shutdown \notin Clients
        /\ job[Shutdown].pc = "halt"
    BY ConstantsAssumption DEF Tasks, Shutdown, Expiry, ShutdownJoin
  <1>2. /\ \A u \in Tasks : u # Shutdown => job'[u] = job[u]
        /\ job'[Shutdown] = Idle
        /\ job'[Shutdown].pc = "idle" /\ job'[Shutdown].radio = None
        /\ job'[Shutdown].lease = None /\ job'[Shutdown].worker = None
    BY <1>1 DEF IInv, TypeOK, ShutdownJoin, Doing, Idle
  <1>3. UNCHANGED <<worker, radio, expired, todo, halting, session, online, mode>>
    BY DEF ShutdownJoin
  <1>4. TypeOK'
    <2>1. job' \in [Tasks -> JobRecord]
      BY <1>1, DoingType, IdleType, UpdateType DEF IInv, TypeOK, ShutdownJoin
    <2>2. QED
      BY <1>1, <1>2, <1>3, <2>1 DEF IInv, TypeOK
  <1>5. JobsWellFormed'
    BY <1>1, <1>2, <1>3 DEF IInv, TypeOK, JobsWellFormed, Busy, Idle, Doing, Tasks
  <1>6. AbsentIsEmpty'
    BY <1>1, <1>2, <1>3 DEF IInv, TypeOK, AbsentIsEmpty
  <1>7. LeasesDiffer'
    BY <1>1, <1>2, <1>3 DEF IInv, TypeOK, LeasesDiffer
  <1>8. RuntimeServesLease'
    BY <1>1, <1>2, <1>3 DEF IInv, TypeOK, RuntimeServesLease
  <1>9. RunningIsServed'
    BY <1>1, <1>2, <1>3 DEF IInv, TypeOK, RunningIsServed
  <1>10. AvailableIsFree'
    BY <1>1, <1>2, <1>3 DEF IInv, TypeOK, AvailableIsFree
  <1>11. FinisherOwnsLease'
    BY <1>1, <1>2, <1>3 DEF IInv, TypeOK, FinisherOwnsLease, JobsWellFormed,
       OneTaskPerRadio, Busy
  <1>12. BusyRuntime'
    BY <1>1, <1>2, <1>3 DEF IInv, TypeOK, BusyRuntime, JobsWellFormed, OneTaskPerRadio, Busy
  <1>13. OneTaskPerRadio'
    BY <1>1, <1>2, <1>3 DEF IInv, TypeOK, OneTaskPerRadio, Busy
  <1>14. AcquirerAlone'
    BY <1>1, <1>2, <1>3 DEF IInv, TypeOK, AcquirerAlone, JobsWellFormed, OneTaskPerRadio,
       Busy, Starting, Tasks
  <1>15. NoOrphanWorker'
    BY <1>1, <1>2, <1>3 DEF IInv, TypeOK, NoOrphanWorker, Tasks, Serving
  <1>16. HaltingLate'
    BY <1>1, <1>2, <1>3 DEF IInv, TypeOK, HaltingLate
  <1>17. QED
    BY <1>4, <1>5, <1>6, <1>7, <1>8, <1>9, <1>10, <1>11, <1>12, <1>13, <1>14, <1>15,
       <1>16 DEF IInv

\* main returns.
LEMMA ExitInv ==
    ASSUME IInv, TtlCoversStartup, Exit
    PROVE  IInv'
  <1>1. mode' = "exited" /\ UNCHANGED <<worker, radio, expired, job, todo, halting, session, online>>
    BY DEF Exit
  <1>2. mode # "up"
    BY DEF Exit
  <1>3. TypeOK'
    BY <1>1 DEF IInv, TypeOK
  <1>4. JobsWellFormed'
    BY <1>1, <1>2 DEF IInv, TypeOK, JobsWellFormed, Busy, Idle, Doing, Tasks
  <1>5. AbsentIsEmpty'
    BY <1>1, <1>2 DEF IInv, TypeOK, AbsentIsEmpty
  <1>6. LeasesDiffer'
    BY <1>1, <1>2 DEF IInv, TypeOK, LeasesDiffer
  <1>7. RuntimeServesLease'
    BY <1>1, <1>2 DEF IInv, TypeOK, RuntimeServesLease
  <1>8. RunningIsServed'
    BY <1>1, <1>2 DEF IInv, TypeOK, RunningIsServed
  <1>9. AvailableIsFree'
    BY <1>1, <1>2 DEF IInv, TypeOK, AvailableIsFree
  <1>10. FinisherOwnsLease'
    BY <1>1, <1>2 DEF IInv, TypeOK, FinisherOwnsLease, JobsWellFormed, OneTaskPerRadio, Busy
  <1>11. BusyRuntime'
    BY <1>1, <1>2 DEF IInv, TypeOK, BusyRuntime, JobsWellFormed, OneTaskPerRadio, Busy
  <1>12. OneTaskPerRadio'
    BY <1>1, <1>2 DEF IInv, TypeOK, OneTaskPerRadio, Busy
  <1>13. AcquirerAlone'
    BY <1>1, <1>2 DEF IInv, TypeOK, AcquirerAlone, JobsWellFormed, OneTaskPerRadio, Busy,
       Starting, Tasks
  <1>14. NoOrphanWorker'
    BY <1>1, <1>2 DEF IInv, TypeOK, NoOrphanWorker, Tasks, Serving
  <1>15. HaltingLate'
    BY <1>1, <1>2 DEF IInv, TypeOK, HaltingLate
  <1>16. QED
    BY <1>3, <1>4, <1>5, <1>6, <1>7, <1>8, <1>9, <1>10, <1>11, <1>12, <1>13, <1>14,
       <1>15 DEF IInv

\* A worker by itself never starts to serve again.
LEMMA WorkerRunsInv ==
    ASSUME IInv, TtlCoversStartup, NEW l \in Leases, WorkerRuns(l)
    PROVE  IInv'
  <1>1. worker' \in [Leases -> WorkerRecord]
    BY WorkerStepType DEF WorkerRuns, IInv, TypeOK
  <1>2. \A k \in Leases : Serving(k)' => Serving(k)
    BY WorkerStepServing DEF WorkerRuns, IInv, TypeOK
  <1>3. UNCHANGED <<radio, expired, job, todo, halting, session, online, mode>>
    BY DEF WorkerRuns, mvars
  <1>4. TypeOK'
    BY <1>1, <1>3 DEF IInv, TypeOK
  <1>5. JobsWellFormed'
    BY <1>1, <1>2, <1>3 DEF IInv, TypeOK, JobsWellFormed, Busy, Idle, Doing, Tasks
  <1>6. AbsentIsEmpty'
    BY <1>1, <1>2, <1>3 DEF IInv, TypeOK, AbsentIsEmpty
  <1>7. LeasesDiffer'
    BY <1>1, <1>2, <1>3 DEF IInv, TypeOK, LeasesDiffer
  <1>8. RuntimeServesLease'
    BY <1>1, <1>2, <1>3 DEF IInv, TypeOK, RuntimeServesLease
  <1>9. RunningIsServed'
    BY <1>1, <1>2, <1>3 DEF IInv, TypeOK, RunningIsServed
  <1>10. AvailableIsFree'
    BY <1>1, <1>2, <1>3 DEF IInv, TypeOK, AvailableIsFree
  <1>11. FinisherOwnsLease'
    BY <1>1, <1>2, <1>3 DEF IInv, TypeOK, FinisherOwnsLease, JobsWellFormed,
       OneTaskPerRadio, Busy
  <1>12. BusyRuntime'
    BY <1>1, <1>2, <1>3 DEF IInv, TypeOK, BusyRuntime, JobsWellFormed, OneTaskPerRadio, Busy
  <1>13. OneTaskPerRadio'
    BY <1>1, <1>2, <1>3 DEF IInv, TypeOK, OneTaskPerRadio, Busy
  <1>14. AcquirerAlone'
    BY <1>1, <1>2, <1>3 DEF IInv, TypeOK, AcquirerAlone, JobsWellFormed, OneTaskPerRadio,
       Busy, Starting, Tasks
  <1>15. NoOrphanWorker'
    BY <1>1, <1>2, <1>3 DEF IInv, TypeOK, NoOrphanWorker, Tasks
  <1>16. HaltingLate'
    BY <1>1, <1>2, <1>3 DEF IInv, TypeOK, HaltingLate
  <1>17. QED
    BY <1>4, <1>5, <1>6, <1>7, <1>8, <1>9, <1>10, <1>11, <1>12, <1>13, <1>14, <1>15,
       <1>16 DEF IInv

\* Nothing changed.
LEMMA StutterInv ==
    ASSUME IInv, TtlCoversStartup, UNCHANGED vars
    PROVE  IInv'
  <1>1. UNCHANGED <<worker, radio, expired, job, todo, halting, session, online, mode>>
    BY DEF vars, mvars
  <1>2. TypeOK'
    BY <1>1 DEF IInv, TypeOK
  <1>3. JobsWellFormed'
    BY <1>1 DEF IInv, TypeOK, JobsWellFormed, Busy, Idle, Doing, Tasks
  <1>4. AbsentIsEmpty'
    BY <1>1 DEF IInv, TypeOK, AbsentIsEmpty
  <1>5. LeasesDiffer'
    BY <1>1 DEF IInv, TypeOK, LeasesDiffer
  <1>6. RuntimeServesLease'
    BY <1>1 DEF IInv, TypeOK, RuntimeServesLease
  <1>7. RunningIsServed'
    BY <1>1 DEF IInv, TypeOK, RunningIsServed
  <1>8. AvailableIsFree'
    BY <1>1 DEF IInv, TypeOK, AvailableIsFree
  <1>9. FinisherOwnsLease'
    BY <1>1 DEF IInv, TypeOK, FinisherOwnsLease, JobsWellFormed, OneTaskPerRadio, Busy
  <1>10. BusyRuntime'
    BY <1>1 DEF IInv, TypeOK, BusyRuntime, JobsWellFormed, OneTaskPerRadio, Busy
  <1>11. OneTaskPerRadio'
    BY <1>1 DEF IInv, TypeOK, OneTaskPerRadio, Busy
  <1>12. AcquirerAlone'
    BY <1>1 DEF IInv, TypeOK, AcquirerAlone, JobsWellFormed, OneTaskPerRadio, Busy,
       Starting, Tasks
  <1>13. NoOrphanWorker'
    BY <1>1 DEF IInv, TypeOK, NoOrphanWorker, Tasks, Serving
  <1>14. HaltingLate'
    BY <1>1 DEF IInv, TypeOK, HaltingLate
  <1>15. QED
    BY <1>2, <1>3, <1>4, <1>5, <1>6, <1>7, <1>8, <1>9, <1>10, <1>11, <1>12, <1>13,
       <1>14 DEF IInv

\* A client that is between operations is not acquiring the lease it holds.
LEMMA IdleHolder ==
    ASSUME IInv, NEW c \in Clients, NEW r \in Radios, NEW l \in Leases,
           Holds(c, r, l), job[c].pc = "idle"
    PROVE  \A d \in Clients : job[d].pc \in Starting => job[d].lease # l
  <1> SUFFICES ASSUME NEW d \in Clients, job[d].pc \in Starting, job[d].lease = l
               PROVE  FALSE
    OBVIOUS
  <1>1. /\ d \in Tasks /\ job[d].pc \in Busy /\ job[d].radio \in Radios
        /\ radio[job[d].radio].lease = l
    BY DEF IInv, JobsWellFormed, FinisherOwnsLease, Busy, Starting, Tasks
  <1>2. job[d].radio = r
    BY <1>1 DEF IInv, LeasesDiffer, Holds
  <1>3. d = c
    BY <1>2 DEF IInv, AcquirerAlone, Holds
  <1>4. QED
    BY <1>3 DEF Starting

\* What a session asks to release: its own grant, between operations.
LEMMA SessionGrant ==
    ASSUME IInv, NEW c \in Clients, Free(c), session[c] # None
    PROVE  /\ session[c].radio \in Radios /\ session[c].lease \in Leases
           /\ c \in Tasks /\ c # Shutdown /\ job[c].pc = "idle"
  BY ConstantsAssumption DEF IInv, TypeOK, Grant, Free, Tasks

\* Releasing on request, accepted or refused.
LEMMA ReleaseRadioInv ==
    ASSUME IInv, TtlCoversStartup, NEW c \in Clients, ReleaseRadio(c)
    PROVE  IInv'
  <1> DEFINE r == session[c].radio  l == session[c].lease
  <1>1. /\ r \in Radios /\ l \in Leases
        /\ c \in Tasks /\ c # Shutdown /\ job[c].pc = "idle"
    BY SessionGrant DEF ReleaseRadio
  <1>2. /\ UNCHANGED <<expired, todo, halting, session, online, mode>>
        /\ online' \subseteq Clients /\ session' \in [Clients -> Grant \union {None}]
    BY DEF ReleaseRadio, IInv, TypeOK
  <1>3. CASE Take(c, c, r, l)
    <2>1. \A d \in Clients : job[d].pc \in Starting => job[d].lease # l
      BY <1>1, <1>3, IdleHolder DEF Take
    <2>2. QED
      BY <1>1, <1>2, <1>3, <2>1, TakeInv
  <1>4. CASE Refused(c, r, l)
    BY <1>1, <1>2, <1>4, RefusedInv
  <1>5. QED
    BY <1>3, <1>4 DEF ReleaseRadio

\* Releasing because the lease could not be renewed.
LEMMA RenewRefusedInv ==
    ASSUME IInv, TtlCoversStartup, NEW c \in Clients, RenewRefused(c)
    PROVE  IInv'
  <1> DEFINE r == session[c].radio  l == session[c].lease
  <1>1. /\ r \in Radios /\ l \in Leases
        /\ c \in Tasks /\ c # Shutdown /\ job[c].pc = "idle"
    BY SessionGrant DEF RenewRefused
  <1>2. /\ UNCHANGED <<expired, todo, halting, online, mode>>
        /\ online' \subseteq Clients /\ session' \in [Clients -> Grant \union {None}]
        /\ \A d \in Clients : session'[d] \in {session[d], None}
    BY DEF RenewRefused, IInv, TypeOK
  <1>3. CASE Take(c, c, r, l)
    <2>1. \A d \in Clients : job[d].pc \in Starting => job[d].lease # l
      BY <1>1, <1>3, IdleHolder DEF Take
    <2>2. QED
      BY <1>1, <1>2, <1>3, <2>1, TakeInv
  <1>4. CASE Refused(c, r, l)
    BY <1>1, <1>2, <1>4, RefusedInv
  <1>5. QED
    BY <1>3, <1>4 DEF RenewRefused

\* Releasing because the connection ended.
LEMMA DisconnectInv ==
    ASSUME IInv, TtlCoversStartup, NEW c \in Clients, Disconnect(c)
    PROVE  IInv'
  <1> DEFINE r == session[c].radio  l == session[c].lease
  <1>1. /\ UNCHANGED <<expired, todo, halting, mode>>
        /\ online' \subseteq Clients /\ session' \in [Clients -> Grant \union {None}]
        /\ \A d \in Clients : session'[d] \in {session[d], None}
    BY DEF Disconnect, IInv, TypeOK
  <1>2. CASE session[c] = None
    <2>1. UNCHANGED <<worker, radio, job, session>>
      BY <1>2 DEF Disconnect
    <2>2. TypeOK'
      BY <1>1, <2>1 DEF IInv, TypeOK
    <2>3. NoOrphanWorker'
      BY <1>1, <2>1 DEF IInv, NoOrphanWorker, Serving
    <2>4. QED
      BY <1>1, <2>1, <2>2, <2>3
      DEF IInv, JobsWellFormed, AbsentIsEmpty, LeasesDiffer, RuntimeServesLease,
          RunningIsServed, AvailableIsFree, FinisherOwnsLease, BusyRuntime,
          OneTaskPerRadio, AcquirerAlone, HaltingLate
  <1>3. CASE session[c] # None
    <2>1. /\ r \in Radios /\ l \in Leases
          /\ c \in Tasks /\ c # Shutdown /\ job[c].pc = "idle"
      BY <1>3, SessionGrant DEF Disconnect
    <2>2. CASE Take(c, c, r, l)
      <3>1. \A d \in Clients : job[d].pc \in Starting => job[d].lease # l
        BY <2>1, <2>2, IdleHolder DEF Take
      <3>2. QED
        BY <1>1, <2>1, <2>2, <3>1, TakeInv
    <2>3. CASE Refused(c, r, l)
      BY <1>1, <2>1, <2>3, RefusedInv
    <2>4. QED
      BY <1>3, <2>2, <2>3 DEF Disconnect
  <1>4. QED
    BY <1>2, <1>3

\* The expiry loop releases a collected lease, accepted or refused.
LEMMA ReleaseExpiredInv ==
    ASSUME IInv, TtlCoversStartup, NEW claim \in todo, ReleaseExpired(claim)
    PROVE  IInv'
  <1>1. /\ claim.client \in Clients /\ claim.radio \in Radios /\ claim.lease \in Leases
        /\ Expiry \in Tasks /\ Expiry # Shutdown /\ job[Expiry].pc = "idle"
    BY DEF IInv, TypeOK, Claim, Tasks, ReleaseExpired, Expiry, Shutdown
  <1>2. /\ UNCHANGED <<expired, halting, session, online, mode>>
        /\ todo' \subseteq todo
        /\ online' \subseteq Clients /\ session' \in [Clients -> Grant \union {None}]
    BY DEF ReleaseExpired, IInv, TypeOK
  <1>3. \A d \in Clients : job[d].pc \in Starting => job[d].lease # claim.lease
    BY DEF IInv, AcquirerAlone
  <1>4. CASE Take(Expiry, claim.client, claim.radio, claim.lease)
    BY <1>1, <1>2, <1>3, <1>4, TakeInv
  <1>5. CASE Refused(claim.client, claim.radio, claim.lease)
    BY <1>1, <1>2, <1>5, RefusedInv
  <1>6. QED
    BY <1>4, <1>5 DEF ReleaseExpired

\* ... and satisfies the inductive invariant.
LEMMA InitInv == Init => IInv
  <1> SUFFICES ASSUME Init
               PROVE  IInv
    OBVIOUS
  <1>1. TypeOK
    BY InitType
  <1>2. /\ \A t \in Tasks : job[t] = Idle /\ job[t].pc = "idle"
        /\ Expiry \in Tasks /\ Shutdown \in Tasks
    BY DEF Init, Idle, Doing, Tasks
  <1>3. \A r \in Radios : /\ radio[r].known /\ radio[r].lease = None
                          /\ radio[r].runtime = None /\ radio[r].state = "Available"
    BY DEF Init, IdleRadio
  <1>4. \A l \in Leases : ~Serving(l)
    BY DEF Init, WorkerInit, NoWorkerYet, Serving
  <1>5. JobsWellFormed
    BY <1>2 DEF JobsWellFormed, Busy
  <1>6. QED
    BY <1>1, <1>2, <1>3, <1>4, <1>5
    DEF IInv, AbsentIsEmpty, LeasesDiffer, RuntimeServesLease, RunningIsServed,
        AvailableIsFree, FinisherOwnsLease, BusyRuntime, OneTaskPerRadio,
        AcquirerAlone, NoOrphanWorker, HaltingLate, Init, Busy, Starting, Tasks

\* Every step of the server keeps the inductive invariant.
LEMMA NextInv ==
    ASSUME IInv, TtlCoversStartup, [Next]_vars
    PROVE  IInv'
  <1>1. ASSUME NEW c \in Clients, ClientStep(c)
        PROVE  IInv'
    BY <1>1, ReserveInv, InstallInv, ReadyInv, StartFailsInv, FinishCleanupInv,
       ReleaseRadioInv, RenewLeaseInv, RenewRefusedInv, DisconnectInv, ConnectInv,
       CheckCommandInv, SendCommandInv, RescanInv DEF ClientStep
  <1>2. ASSUME NEW t \in Tasks, FinishRelease(t)
        PROVE  IInv'
    BY <1>2, FinishReleaseInv
  <1>3. CASE DaemonStep
    BY <1>3, ScanInv, ReleaseExpiredInv, ExpireInv, ShutdownOneInv, ShutdownAllInv,
       ShutdownJoinInv, ExitInv DEF DaemonStep
  <1>4. ASSUME NEW l \in Leases, WorkerRuns(l)
        PROVE  IInv'
    BY <1>4, WorkerRunsInv
  <1>5. CASE Exited \/ UNCHANGED vars
    BY <1>5, StutterInv DEF Exited
  <1>6. QED
    BY <1>1, <1>2, <1>3, <1>4, <1>5 DEF Next

(***************************************************************************)
(* The theorems, for any number of radios, clients and leases.  They       *)
(* assume that lease_ttl covers startup_timeout + shutdown_timeout, which  *)
(* is how main.rs sets the three (30 s, 5 s and 3 s).                      *)
(***************************************************************************)

\* The inductive invariant holds in every reachable state of the server.
THEOREM Invariance ==
    ASSUME TtlCoversStartup
    PROVE  SafetySpec => []IInv
  <1>1. Init => IInv
    BY InitInv
  <1>2. IInv /\ [Next]_vars => IInv'
    BY NextInv
  <1>3. QED
    BY <1>1, <1>2, PTL DEF SafetySpec

\* Type correctness of the whole server state: the map of manager.rs, the sessions,
\* the workers and the locals of every task in the middle of an operation.
THEOREM TypeCorrect ==
    ASSUME TtlCoversStartup
    PROVE  SafetySpec => []TypeOK
  <1>1. IInv => TypeOK
    BY DEF IInv
  <1>2. QED
    BY <1>1, Invariance, PTL

\* The stored worker is always the one spawned for the lease in force: no release,
\* cleanup, expiry or shutdown of manager.rs leaves a predecessor's worker behind.
THEOREM RuntimeAlwaysServesLease ==
    ASSUME TtlCoversStartup
    PROVE  SafetySpec => []RuntimeServesLease
  <1>1. IInv => RuntimeServesLease
    BY DEF IInv
  <1>2. QED
    BY <1>1, Invariance, PTL

\* The last step of an acquire, which marks the radio Running without looking at it
\* again, never marks one whose lease or worker is gone.
THEOREM RunningAlwaysServed ==
    ASSUME TtlCoversStartup
    PROVE  SafetySpec => []RunningIsServed
  <1>1. IInv => RunningIsServed
    BY DEF IInv
  <1>2. QED
    BY <1>1, Invariance, PTL

\* Available means unleased, and the converse: list_radios and the pruning of
\* rescan_radios read the state, acquire_radio reads the lease, and they agree.
THEOREM AvailableAlwaysFree ==
    ASSUME TtlCoversStartup
    PROVE  SafetySpec => []AvailableIsFree
  <1>1. IInv => AvailableIsFree
    BY DEF IInv
  <1>2. QED
    BY <1>1, Invariance, PTL

\* release_radio and cleanup_failed_start clear a lease without looking again, and
\* the lease they clear is always the one they were called for.
THEOREM FinisherAlwaysOwnsLease ==
    ASSUME TtlCoversStartup
    PROVE  SafetySpec => []FinisherOwnsLease
  <1>1. IInv => FinisherOwnsLease
    BY DEF IInv
  <1>2. QED
    BY <1>1, Invariance, PTL

\* A worker that nobody has told to stop can always still be told.
THEOREM NeverOrphanWorker ==
    ASSUME TtlCoversStartup
    PROVE  SafetySpec => []NoOrphanWorker
  <1>1. IInv => NoOrphanWorker
    BY DEF IInv
  <1>2. QED
    BY <1>1, Invariance, PTL

\* Of the tasks that race to end one lease (its client, a disconnect, the expiry
\* loop, a failed acquire), exactly one wins the runtime and finishes.
THEOREM AlwaysOneFinisher ==
    ASSUME TtlCoversStartup
    PROVE  SafetySpec => []OneFinisher
  <1>1. ASSUME IInv, NEW t \in Tasks, NEW u \in Tasks, t # u, job[t].pc \in Busy
        PROVE  job[u].pc \in {"idle", "send", "halt"} \/ job[u].lease # job[t].lease
    <2>1. CASE job[u].pc \in Busy
      <3>1. job[t].radio # job[u].radio
        BY <1>1, <2>1 DEF IInv, OneTaskPerRadio
      <3>2. /\ job[t].radio \in Radios /\ job[u].radio \in Radios
            /\ job[t].lease \in Leases
        BY <1>1, <2>1 DEF IInv, JobsWellFormed
      <3>3. /\ radio[job[t].radio].lease = job[t].lease
            /\ radio[job[u].radio].lease = job[u].lease
        BY <1>1, <2>1 DEF IInv, FinisherOwnsLease, Busy
      <3>4. QED
        BY <1>1, <3>1, <3>2, <3>3, ConstantsAssumption DEF IInv, LeasesDiffer
    <2>2. CASE job[u].pc \notin Busy
      <3>1. job[u].pc \in {"idle", "install", "await", "cleanup", "release", "halt", "send"}
        BY <1>1 DEF IInv, TypeOK, JobRecord
      <3>2. QED
        BY <2>2, <3>1 DEF Busy
    <2>3. QED
      BY <2>1, <2>2
  <1>2. IInv => OneFinisher
    BY <1>1 DEF OneFinisher, Busy
  <1>3. QED
    BY <1>2, Invariance, PTL

\* A command that passed the checks of send_command goes to the worker of the very
\* lease it was checked against, even when that lease has ended since.
THEOREM CommandAlwaysReachesOwnWorker ==
    ASSUME TtlCoversStartup
    PROVE  SafetySpec => []CommandReachesOwnWorker
  <1>1. IInv => CommandReachesOwnWorker
    BY DEF IInv, JobsWellFormed, CommandReachesOwnWorker, Tasks
  <1>2. QED
    BY <1>1, Invariance, PTL

\* Lease, worker and listed state of a radio agree in every state: whoever reads one
\* of them between two steps of an acquire, a release or the expiry loop may rely on
\* the other two.
THEOREM OwnerAlwaysServed ==
    ASSUME TtlCoversStartup
    PROVE  SafetySpec => []OwnerIsServed
  <1>1. OwnerIsServed <=> RuntimeServesLease /\ RunningIsServed /\ AvailableIsFree
    BY DEF OwnerIsServed
  <1>2. QED
    BY <1>1, RuntimeAlwaysServesLease, RunningAlwaysServed, AvailableAlwaysFree, PTL

\* Of all the tasks that may end a lease one does, and what it clears is that lease.
THEOREM LeaseAlwaysEndsOnce ==
    ASSUME TtlCoversStartup
    PROVE  SafetySpec => []LeaseEndsOnce
  <1>1. LeaseEndsOnce <=> FinisherOwnsLease /\ OneFinisher
    BY DEF LeaseEndsOnce
  <1>2. QED
    BY <1>1, FinisherAlwaysOwnsLease, AlwaysOneFinisher, PTL
=============================================================================
