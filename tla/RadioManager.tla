---------------------------- MODULE RadioManager ----------------------------
(***************************************************************************)
(* The radio manager (rigflow-server/src/radio/manager.rs): the map of     *)
(* radios, their leases, and the workers that are started and stopped with *)
(* them; its callers, the websocket sessions (net/websocket.rs); and the   *)
(* two daemons that also release radios, lease_expiry_loop and the         *)
(* shutdown_all of main.rs.                                                *)
(*                                                                         *)
(* The map is behind one RwLock that is never held across an await, so an  *)
(* operation is a sequence of steps, one per critical section: acquire is  *)
(* Reserve, Install, then Ready or a failure and FinishCleanup; release is *)
(* a Take (or a refusal) and FinishRelease.  Any other caller may run in   *)
(* between.                                                                *)
(***************************************************************************)
EXTENDS WorkerLifecycle

CONSTANTS
    Radios,             \* radio ids discovery can report
    Discoverable,       \* those with a wav:, rtl: or hl2: id (prunable)
    Clients,            \* websocket connections
    None,               \* the absent lease, runtime or session
    TtlCoversStartup,   \* lease_ttl exceeds startup_timeout + shutdown_timeout
    JoinTimeouts        \* shutdown_timeout may expire before a join completes

Expiry == "lease_expiry_loop"
Shutdown == "shutdown_all"
Tasks == Clients \union {Expiry, Shutdown}

ASSUME ConstantsAssumption ==
    /\ Discoverable \subseteq Radios
    /\ None \notin Leases \union Clients
    /\ {Expiry, Shutdown} \intersect Clients = {}
    /\ HasTransmitter \in BOOLEAN
    /\ TtlCoversStartup \in BOOLEAN
    /\ JoinTimeouts \in BOOLEAN

VARIABLES
    radio,      \* the map: [Radios -> RadioRecord]; an unknown radio is absent
    expired,    \* leases whose expires_at has passed
    job,        \* [Tasks -> JobRecord]: what each task is in the middle of
    todo,       \* the expired leases a tick collected and has not yet released
    halting,    \* the workers shutdown_all took and has not yet stopped
    session,    \* [Clients -> Grant or None]: SessionState.acquired_radio
    online,     \* connections that have not disconnected
    mode        \* of the process: up, stopping (shutdown_all), exited

mvars == <<radio, expired, job, todo, halting, session, online, mode>>
vars == <<worker, mvars>>

RadioRecord ==
    [known : BOOLEAN,
     state : {"Available", "Starting", "Running", "Stopping", "Faulted"},
     lease : Leases \union {None},
     client : Clients \union {None},
     runtime : Leases \union {None}]

\* What acquire_radio returns and a session keeps; what a tick collects.
Grant == [radio : Radios, lease : Leases]
Claim == [radio : Radios, lease : Leases, client : Clients]

JobRecord ==
    [pc : {"idle", "install", "await", "cleanup", "release", "halt", "send"},
     radio : Radios \union {None},
     lease : Leases \union {None},
     worker : Leases \union {None}]

Doing(pc, r, l, w) == [pc |-> pc, radio |-> r, lease |-> l, worker |-> w]
Idle == Doing("idle", None, None, None)
IdleRadio(known) ==
    [known |-> known, state |-> "Available", lease |-> None,
     client |-> None, runtime |-> None]

Init ==
    /\ WorkerInit
    /\ radio = [r \in Radios |-> IdleRadio(TRUE)]
    /\ expired = {}
    /\ job = [t \in Tasks |-> Idle]
    /\ todo = {}
    /\ halting = {}
    /\ session = [c \in Clients |-> None]
    /\ online = Clients
    /\ mode = "up"

(***************************************************************************)
(* Lease ids are random uuids: a new one is an id nothing refers to.       *)
(***************************************************************************)
Referenced(l) ==
    \/ \E r \in Radios : l \in {radio[r].lease, radio[r].runtime}
    \/ \E t \in Tasks : l \in {job[t].lease, job[t].worker}
    \/ \E c \in Clients : session[c] # None /\ session[c].lease = l
    \/ \E claim \in todo : claim.lease = l
    \/ l \in halting
    \/ worker[l].task = "live"
    \/ worker[l].threads \notin {"none", "gone"}

\* Dropping a RadioRuntime drops stop_tx, which wakes stop_rx like a send.
Drop(w) == IF w = None THEN worker ELSE Signalled(w)

\* The ownership checks every lease-guarded operation makes, in their order.
Holds(c, r, l) ==
    /\ radio[r].known
    /\ radio[r].lease # None
    /\ radio[r].client = c
    /\ radio[r].lease = l

\* stop_runtime returned: the task was joined, or the timeout let it go.
Joined(w) == worker[w].task = "exited" \/ JoinTimeouts

Up == mode # "exited"
Free(c) == Up /\ c \in online /\ job[c].pc = "idle"

(***************************************************************************)
(* acquire_radio.                                                          *)
(***************************************************************************)

\* Slip: the lease is not looked at before it is taken.
ReserveLeased(c, r, l) ==
    /\ Free(c)
    /\ session[c] = None
    /\ radio[r].known
    /\ ~Referenced(l)
    /\ radio' = [radio EXCEPT ![r] =
                    [@ EXCEPT !.lease = l, !.client = c, !.state = "Starting"]]
    /\ expired' = expired \ {l}
    /\ worker' = [worker EXCEPT ![l] = Spawned]
    /\ job' = [job EXCEPT ![c] = Doing("install", r, l, l)]
    /\ UNCHANGED <<todo, halting, session, online, mode>>

\* First critical section, and the spawn: the lease is taken before the worker runs.
Reserve(c, r, l) ==
    /\ Free(c)
    /\ session[c] = None
    /\ radio[r].known
    /\ radio[r].lease = None
    /\ ~Referenced(l)
    /\ radio' = [radio EXCEPT ![r] =
                    [@ EXCEPT !.lease = l, !.client = c, !.state = "Starting"]]
    /\ expired' = expired \ {l}
    /\ worker' = [worker EXCEPT ![l] = Spawned]
    /\ job' = [job EXCEPT ![c] = Doing("install", r, l, l)]
    /\ UNCHANGED <<todo, halting, session, online, mode>>

\* Second critical section: the runtime is stored, replacing whatever was there.
Install(c) ==
    LET l == job[c].lease  r == job[c].radio IN
    /\ Up
    /\ job[c].pc = "install"
    /\ IF radio[r].known
       THEN /\ radio' = [radio EXCEPT ![r].runtime = l]
            /\ worker' = Drop(radio[r].runtime)
            /\ job' = [job EXCEPT ![c] = Doing("await", r, l, l)]
       ELSE /\ worker' = Drop(l)
            /\ job' = [job EXCEPT ![c] = Idle]
            /\ UNCHANGED radio
    /\ UNCHANGED <<expired, todo, halting, session, online, mode>>

\* The worker reported Ready: the radio runs and the session keeps the lease.
Ready(c) ==
    LET l == job[c].lease  r == job[c].radio IN
    /\ Up
    /\ job[c].pc = "await"
    /\ worker[l].startup = "ready"
    /\ IF radio[r].known
       THEN /\ radio' = [radio EXCEPT ![r].state = "Running"]
            /\ session' = [session EXCEPT ![c] = [radio |-> r, lease |-> l]]
       ELSE UNCHANGED <<radio, session>>
    /\ job' = [job EXCEPT ![c] = Idle]
    /\ UNCHANGED <<worker, expired, todo, halting, online, mode>>

\* Slip: the runtime of a failed start is forgotten, its worker not told.
StartFailsDetached(c) ==
    LET l == job[c].lease  r == job[c].radio IN
    /\ Up
    /\ job[c].pc = "await"
    /\ worker[l].startup \in {"failed", "pending"}
    /\ radio' = [radio EXCEPT ![r] = [@ EXCEPT !.state = "Faulted", !.runtime = None]]
    /\ job' = [job EXCEPT ![c] = Doing("cleanup", r, l, radio[r].runtime)]
    /\ UNCHANGED <<worker, expired, todo, halting, session, online, mode>>

\* The worker reported Failed, or startup_timeout passed without a report:
\* cleanup_failed_start marks the radio, takes the runtime and stops it.
StartFails(c) ==
    LET l == job[c].lease  r == job[c].radio  w == radio[r].runtime IN
    /\ Up
    /\ job[c].pc = "await"
    /\ worker[l].startup \in {"failed", "pending"}
    /\ IF radio[r].known
       THEN /\ radio' = [radio EXCEPT ![r] =
                           [@ EXCEPT !.state = "Faulted", !.runtime = None]]
            /\ worker' = Drop(w)
            /\ job' = [job EXCEPT ![c] = Doing("cleanup", r, l, w)]
       ELSE /\ job' = [job EXCEPT ![c] = Idle]
            /\ UNCHANGED <<radio, worker>>
    /\ UNCHANGED <<expired, todo, halting, session, online, mode>>

\* Slip: the lease of a failed start is cleared, its state is not.
FinishCleanupStaysFaulted(c) ==
    LET r == job[c].radio IN
    /\ Up
    /\ job[c].pc = "cleanup"
    /\ job[c].worker # None => Joined(job[c].worker)
    /\ radio' = [radio EXCEPT ![r] = [IdleRadio(@.known) EXCEPT !.state = "Faulted"]]
    /\ worker' = Drop(radio[r].runtime)
    /\ job' = [job EXCEPT ![c] = Idle]
    /\ UNCHANGED <<expired, todo, halting, session, online, mode>>

\* The last critical section of cleanup_failed_start, with no second look at the lease.
FinishCleanup(c) ==
    LET r == job[c].radio IN
    /\ Up
    /\ job[c].pc = "cleanup"
    /\ job[c].worker # None => Joined(job[c].worker)
    /\ radio' = [radio EXCEPT ![r] = IdleRadio(@.known)]
    /\ worker' = Drop(radio[r].runtime)
    /\ job' = [job EXCEPT ![c] = Idle]
    /\ UNCHANGED <<expired, todo, halting, session, online, mode>>

(***************************************************************************)
(* release_radio, called by task t for client c.                           *)
(***************************************************************************)

\* Slips: the runtime is cloned instead of taken; the state is not set; the
\* worker is joined without being told.
TakeClone(t, c, r, l) ==
    LET w == radio[r].runtime IN
    /\ Holds(c, r, l)
    /\ w # None
    /\ radio' = [radio EXCEPT ![r].state = "Stopping"]
    /\ worker' = Signalled(w)
    /\ job' = [job EXCEPT ![t] = Doing("release", r, l, w)]

TakeUnmarked(t, c, r, l) ==
    LET w == radio[r].runtime IN
    /\ Holds(c, r, l)
    /\ w # None
    /\ radio' = [radio EXCEPT ![r].runtime = None]
    /\ worker' = Signalled(w)
    /\ job' = [job EXCEPT ![t] = Doing("release", r, l, w)]

TakeUnstopped(t, c, r, l) ==
    LET w == radio[r].runtime IN
    /\ Holds(c, r, l)
    /\ w # None
    /\ radio' = [radio EXCEPT ![r] = [@ EXCEPT !.state = "Stopping", !.runtime = None]]
    /\ job' = [job EXCEPT ![t] = Doing("release", r, l, w)]
    /\ UNCHANGED worker

\* First critical section, accepted: Stopping, and the runtime is taken and stopped.
Take(t, c, r, l) ==
    LET w == radio[r].runtime IN
    /\ Holds(c, r, l)
    /\ w # None
    /\ radio' = [radio EXCEPT ![r] = [@ EXCEPT !.state = "Stopping", !.runtime = None]]
    /\ worker' = Signalled(w)
    /\ job' = [job EXCEPT ![t] = Doing("release", r, l, w)]

\* Refused: not the lease, or RadioNotRunning, which is found after the state is set.
Refused(c, r, l) ==
    /\ Holds(c, r, l) => radio[r].runtime = None
    /\ radio' = IF Holds(c, r, l) THEN [radio EXCEPT ![r].state = "Stopping"] ELSE radio
    /\ UNCHANGED <<worker, job>>

\* Slips: the lease record stays when the state is cleared; the session forgets
\* only its lease id.
FinishReleaseKeepsLease(t) ==
    /\ Up
    /\ job[t].pc = "release"
    /\ Joined(job[t].worker)
    /\ radio' = [radio EXCEPT ![job[t].radio].state = "Available"]
    /\ job' = [job EXCEPT ![t] = Idle]
    /\ session' = IF t \in Clients THEN [session EXCEPT ![t] = None] ELSE session
    /\ UNCHANGED <<worker, expired, todo, halting, online, mode>>

FinishReleaseKeepsRadio(t) ==
    /\ Up
    /\ job[t].pc = "release"
    /\ Joined(job[t].worker)
    /\ radio' = [radio EXCEPT ![job[t].radio] =
                    [@ EXCEPT !.lease = None, !.client = None, !.state = "Available"]]
    /\ job' = [job EXCEPT ![t] = Idle]
    /\ session' = IF t \in Clients THEN [session EXCEPT ![t].lease = None] ELSE session
    /\ UNCHANGED <<worker, expired, todo, halting, online, mode>>

\* Second critical section: lease and state are cleared however the stop went.
FinishRelease(t) ==
    LET r == job[t].radio IN
    /\ Up
    /\ job[t].pc = "release"
    /\ Joined(job[t].worker)
    /\ radio' = [radio EXCEPT ![r] =
                    [@ EXCEPT !.lease = None, !.client = None, !.state = "Available"]]
    /\ job' = [job EXCEPT ![t] = Idle]
    /\ session' = IF t \in Clients THEN [session EXCEPT ![t] = None] ELSE session
    /\ UNCHANGED <<worker, expired, todo, halting, online, mode>>

(***************************************************************************)
(* What a websocket session asks of the manager.                           *)
(***************************************************************************)

\* ReleaseRadio: a refusal is reported and the session keeps the radio.
ReleaseRadio(c) ==
    /\ Free(c)
    /\ session[c] # None
    /\ \/ Take(c, c, session[c].radio, session[c].lease)
       \/ Refused(c, session[c].radio, session[c].lease)
    /\ UNCHANGED <<expired, todo, halting, session, online, mode>>

CanRenew(c, r, l) ==
    LET w == radio[r].runtime IN
    /\ Holds(c, r, l)
    /\ w # None
    /\ worker[w].task # "exited"

\* RenewLease, granted: expires_at moves to now + lease_ttl.
RenewLease(c) ==
    /\ Free(c)
    /\ session[c] # None
    /\ CanRenew(c, session[c].radio, session[c].lease)
    /\ expired' = expired \ {session[c].lease}
    /\ UNCHANGED <<worker, radio, job, todo, halting, session, online, mode>>

\* RenewLease, refused: the handler releases the radio, ignores how that ends,
\* and forgets it.
RenewRefused(c) ==
    /\ Free(c)
    /\ session[c] # None
    /\ ~CanRenew(c, session[c].radio, session[c].lease)
    /\ \/ Take(c, c, session[c].radio, session[c].lease) /\ UNCHANGED session
       \/ /\ Refused(c, session[c].radio, session[c].lease)
          /\ session' = [session EXCEPT ![c] = None]
    /\ UNCHANGED <<expired, todo, halting, online, mode>>

\* The connection ends: release_session_radio_on_disconnect.
Disconnect(c) ==
    /\ Free(c)
    /\ IF session[c] = None
       THEN UNCHANGED <<worker, radio, job, session>>
       ELSE \/ Take(c, c, session[c].radio, session[c].lease) /\ UNCHANGED session
            \/ /\ Refused(c, session[c].radio, session[c].lease)
               /\ session' = [session EXCEPT ![c] = None]
    /\ online' = online \ {c}
    /\ UNCHANGED <<expired, todo, halting, mode>>

\* A new connection takes a fresh client id: one no live lease record names.
Connect(c) ==
    /\ Up
    /\ c \notin online
    /\ job[c].pc = "idle"
    /\ \A r \in Radios : radio[r].client # c
    /\ online' = online \union {c}
    /\ UNCHANGED <<worker, radio, expired, job, todo, halting, session, mode>>

\* Slip: only the state is checked, not whose lease it is.
CheckCommandUnowned(c) ==
    LET r == session[c].radio  l == session[c].lease IN
    /\ Free(c)
    /\ session[c] # None
    /\ radio[r].state = "Running"
    /\ radio[r].runtime # None
    /\ job' = [job EXCEPT ![c] = Doing("send", r, l, radio[r].runtime)]
    /\ UNCHANGED <<worker, radio, expired, todo, halting, session, online, mode>>

\* send_command: the checks and the clone of worker_tx, under the read lock.
CheckCommand(c) ==
    LET r == session[c].radio  l == session[c].lease IN
    /\ Free(c)
    /\ session[c] # None
    /\ Holds(c, r, l)
    /\ radio[r].state = "Running"
    /\ radio[r].runtime # None
    /\ job' = [job EXCEPT ![c] = Doing("send", r, l, radio[r].runtime)]
    /\ UNCHANGED <<worker, radio, expired, todo, halting, session, online, mode>>

\* ... and the send on the clone, after the lock is gone.
SendCommand(c) ==
    /\ Up
    /\ job[c].pc = "send"
    /\ job' = [job EXCEPT ![c] = Idle]
    /\ UNCHANGED <<worker, radio, expired, todo, halting, session, online, mode>>

\* rescan_radios with the discovery that sees exactly the radios of seen: new ones
\* are added, idle discoverable ones that are absent are pruned.
Rescan(c, seen) ==
    LET idle(r) == radio[r].lease = None /\ radio[r].state = "Available"
        stays(r) == radio[r].known /\ ~(r \in Discoverable /\ idle(r))
    IN
    /\ Free(c)
    /\ radio' = [r \in Radios |->
                    CASE r \in seen /\ radio[r].known -> radio[r]
                      [] r \in seen /\ ~radio[r].known -> IdleRadio(TRUE)
                      [] r \notin seen /\ stays(r) -> radio[r]
                      [] OTHER -> IdleRadio(FALSE)]
    /\ worker' = [l \in Leases |->
                    IF \E r \in Radios : radio[r].runtime = l /\ radio'[r].runtime # l
                    THEN [worker[l] EXCEPT !.stopSent = TRUE]
                    ELSE worker[l]]
    /\ UNCHANGED <<expired, job, todo, halting, session, online, mode>>

(***************************************************************************)
(* lease_expiry_loop.                                                      *)
(***************************************************************************)

Acquiring(l) ==
    \E c \in Clients : job[c].pc \in {"install", "await", "cleanup"} /\ job[c].lease = l

\* Time passes expires_at.  With lease_ttl above the two timeouts, as main.rs sets
\* them, that does not happen to a lease whose acquire has not returned.
Expire(l) ==
    /\ Up
    /\ \E r \in Radios : radio[r].lease = l
    /\ l \notin expired
    /\ TtlCoversStartup => ~Acquiring(l)
    /\ expired' = expired \union {l}
    /\ UNCHANGED <<worker, radio, job, todo, halting, session, online, mode>>

ExpiredNow == {claim \in Claim : /\ claim.lease \in expired
                                  /\ radio[claim.radio].lease = claim.lease
                                  /\ radio[claim.radio].client = claim.client}

\* A tick: the expired leases are collected under the read lock.
Scan ==
    /\ Up
    /\ job[Expiry].pc = "idle"
    /\ todo = {}
    /\ ExpiredNow # {}
    /\ todo' = ExpiredNow
    /\ UNCHANGED <<worker, radio, expired, job, halting, session, online, mode>>

\* The collected leases are released one after the other, errors ignored.
ReleaseExpired(claim) ==
    /\ Up
    /\ job[Expiry].pc = "idle"
    /\ todo' = todo \ {claim}
    /\ \/ Take(Expiry, claim.client, claim.radio, claim.lease)
       \/ Refused(claim.client, claim.radio, claim.lease)
    /\ UNCHANGED <<expired, halting, session, online, mode>>

(***************************************************************************)
(* shutdown_all, after SIGINT or SIGTERM; then main returns.               *)
(***************************************************************************)

\* Every runtime is taken in one critical section.
ShutdownAll ==
    /\ mode = "up"
    /\ mode' = "stopping"
    /\ halting' = {l \in Leases : \E r \in Radios : radio[r].runtime = l}
    /\ radio' = [r \in Radios |->
                    IF radio[r].runtime = None THEN radio[r]
                    ELSE [radio[r] EXCEPT !.state = "Stopping", !.runtime = None]]
    /\ UNCHANGED <<worker, expired, job, todo, session, online>>

\* ... and stopped in turn, each joined before the next is signalled.
ShutdownOne(w) ==
    /\ mode = "stopping"
    /\ job[Shutdown].pc = "idle"
    /\ w \in halting
    /\ halting' = halting \ {w}
    /\ worker' = Signalled(w)
    /\ job' = [job EXCEPT ![Shutdown] = Doing("halt", None, None, w)]
    /\ UNCHANGED <<radio, expired, todo, session, online, mode>>

ShutdownJoin ==
    /\ mode = "stopping"
    /\ job[Shutdown].pc = "halt"
    /\ Joined(job[Shutdown].worker)
    /\ job' = [job EXCEPT ![Shutdown] = Idle]
    /\ UNCHANGED <<worker, radio, expired, todo, halting, session, online, mode>>

Exit ==
    /\ mode = "stopping"
    /\ job[Shutdown].pc = "idle"
    /\ halting = {}
    /\ mode' = "exited"
    /\ UNCHANGED <<worker, radio, expired, job, todo, halting, session, online>>

\* The process is gone, and its threads with it.
Exited == mode = "exited" /\ UNCHANGED vars

(***************************************************************************)
(* The next-state relation and the fairness of the schedulers.             *)
(***************************************************************************)

WorkerRuns(l) == Up /\ WorkerStep(l) /\ UNCHANGED mvars

ClientStep(c) ==
    \/ \E r \in Radios, l \in Leases : Reserve(c, r, l)
    \/ Install(c)
    \/ Ready(c)
    \/ StartFails(c)
    \/ FinishCleanup(c)
    \/ ReleaseRadio(c)
    \/ RenewLease(c)
    \/ RenewRefused(c)
    \/ Disconnect(c)
    \/ Connect(c)
    \/ CheckCommand(c)
    \/ SendCommand(c)
    \/ \E seen \in SUBSET Radios : Rescan(c, seen)

DaemonStep ==
    \/ Scan
    \/ \E claim \in todo : ReleaseExpired(claim)
    \/ \E l \in Leases : Expire(l) \/ ShutdownOne(l)
    \/ ShutdownAll
    \/ ShutdownJoin
    \/ Exit

Next ==
    \/ \E c \in Clients : ClientStep(c)
    \/ \E t \in Tasks : FinishRelease(t)
    \/ DaemonStep
    \/ \E l \in Leases : WorkerRuns(l)
    \/ Exited

\* tokio polls a task that is ready; a started operation runs to its end.
Fairness ==
    /\ \A c \in Clients : WF_vars(Install(c) \/ Ready(c) \/ StartFails(c)
                                  \/ FinishCleanup(c) \/ SendCommand(c))
    /\ \A t \in Tasks : WF_vars(FinishRelease(t))
    /\ WF_vars(Scan)
    /\ WF_vars(\E claim \in todo : ReleaseExpired(claim))
    /\ \A l \in Leases : WF_vars(Up /\ (WrapperStops(l) \/ WrapperJoins(l)) /\ UNCHANGED mvars)
    /\ WF_vars(\E l \in Leases : ShutdownOne(l)) /\ WF_vars(ShutdownJoin)

SafetySpec == Init /\ [][Next]_vars
Spec == SafetySpec /\ Fairness

(***************************************************************************)
(* Properties.  mode = "up" excludes what shutdown_all leaves behind: it   *)
(* takes runtimes without clearing leases, and the process is about to end.*)
(***************************************************************************)

\* Every variable has its type (ManagedRadio, SessionState, the tasks' locals).
TypeOK ==
    /\ worker \in [Leases -> WorkerRecord]
    /\ radio \in [Radios -> RadioRecord]
    /\ expired \subseteq Leases
    /\ job \in [Tasks -> JobRecord]
    /\ todo \subseteq Claim
    /\ halting \subseteq Leases
    /\ session \in [Clients -> Grant \union {None}]
    /\ online \subseteq Clients
    /\ mode \in {"up", "stopping", "exited"}

\* The worker stored for a radio is the one spawned for the lease in force: what
\* the lease check admits never reaches the worker of an earlier or a later owner.
RuntimeServesLease ==
    \A r \in Radios : radio[r].runtime # None => radio[r].runtime = radio[r].lease

\* A Running radio is leased and has a worker (acquire's last step re-reads nothing).
RunningIsServed ==
    \A r \in Radios : radio[r].state = "Running" /\ mode = "up" =>
        radio[r].lease # None /\ radio[r].runtime # None

\* A radio is offered as Available exactly when nobody leases it; only then may a
\* rescan prune it.
AvailableIsFree ==
    \A r \in Radios : radio[r].state = "Available" <=> radio[r].lease = None

\* What the manager stores about one radio hangs together in every state another
\* task may read: the lease, the worker that serves it and the state it is listed
\* under.  acquire, release, expiry and shutdown change the three in separate steps.
OwnerIsServed == RuntimeServesLease /\ RunningIsServed /\ AvailableIsFree

\* A task that will clear a lease without looking (FinishRelease, FinishCleanup) or
\* mark it Running (Ready) still works on the lease in force, on a listed radio: no
\* later owner's lease is wiped, and "radio disappeared" never happens.
FinisherOwnsLease ==
    \A t \in Tasks : job[t].pc \in {"install", "await", "cleanup", "release"} =>
        radio[job[t].radio].known /\ radio[job[t].radio].lease = job[t].lease

\* A worker nobody has told to stop can still be told: a radio holds its runtime,
\* acquire is about to store it, or shutdown_all has it in hand.
NoOrphanWorker ==
    \A l \in Leases : Serving(l) =>
        \/ \E r \in Radios : radio[r].runtime = l
        \/ \E c \in Clients : job[c].pc = "install" /\ job[c].worker = l
        \/ l \in halting

\* Two tasks never finish the same lease: the loop and the client cannot both hold
\* the runtime that one release or cleanup took.
OneFinisher ==
    \A t, u \in Tasks :
        job[t].pc \in {"install", "await", "cleanup", "release"} /\ t # u =>
            job[u].pc \in {"idle", "send", "halt"} \/ job[u].lease # job[t].lease

\* One lease is ended once, by the task that works on it: the client, a disconnect,
\* the expiry loop and a failed acquire may all be after it.
LeaseEndsOnce == FinisherOwnsLease /\ OneFinisher

\* A command that passed the ownership checks goes to the worker of that very lease,
\* however the lease ended while the send was pending.
CommandReachesOwnWorker ==
    \A c \in Clients : job[c].pc = "send" => job[c].worker = job[c].lease

\* A lease is never replaced by another one in a step, and it ends only after its
\* worker has been told to stop, or shutdown_all has it in hand: no radio is handed
\* over while it is being driven.
HandoverStops ==
    [][\A r \in Radios : radio[r].lease # None /\ radio'[r].lease # radio[r].lease =>
           /\ radio'[r].lease = None
           /\ ~Serving(radio[r].lease) \/ radio[r].lease \in halting]_vars

\* The loop releases a lease only if it is expired at that moment.
OnlyExpiredReleased ==
    [][job[Expiry].pc # "release" /\ job'[Expiry].pc = "release" =>
           job'[Expiry].lease \in expired]_vars

\* When shutdown_all is done waiting for a worker, its transmitter is off the air:
\* stopping an HL2 worker un-keys PTT before main returns.
StopUnkeys ==
    [][job[Shutdown].pc = "halt" /\ job'[Shutdown].pc = "idle" =>
           ~worker[job[Shutdown].worker].keyed]_vars

\* An expired lease is renewed or freed, unless the server is going down.
ExpiredLeaseEnds ==
    \A l \in Leases :
        l \in expired /\ (\E r \in Radios : radio[r].lease = l) /\ mode = "up" ~>
            l \notin expired \/ (\A r \in Radios : radio[r].lease # l) \/ mode # "up"

\* An operation a session started returns, whatever the worker does.
OperationsReturn == \A c \in Clients : job[c].pc # "idle" ~> job[c].pc = "idle" \/ mode # "up"

\* A radio does not stay Stopping or Faulted: it comes back for the next client.
RadioComesBack ==
    \A r \in Radios : radio[r].state \in {"Stopping", "Faulted"} ~>
        radio[r].state = "Available" \/ mode # "up"

\* No radio is lost to its clients: neither one whose owner went silent nor one that
\* is being torn down or failed to start stays so.
RadiosComeBack == ExpiredLeaseEnds /\ RadioComesBack

\* The manager implements the lease it promises: the lease record is the holder,
\* the stored runtime is what that holder drives.
Lease == INSTANCE RadioLease WITH
    holder <- [r \in Radios |-> radio[r].lease],
    driven <- [r \in Radios |-> radio[r].runtime]

ImplementsLease == Lease!Spec
=============================================================================
