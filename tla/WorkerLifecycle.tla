-------------------------- MODULE WorkerLifecycle --------------------------
(***************************************************************************)
(* The life of one radio worker (rigflow-server/src/radio/worker.rs): the  *)
(* async wrapper task run_radio_worker, the blocking thread set            *)
(* run_iq_worker_threads behind it, and the channels that join them.       *)
(*                                                                         *)
(* A worker is named by the lease it was spawned for: acquire_radio makes  *)
(* exactly one worker per lease id.  This module owns what a worker does   *)
(* by itself; RadioManager owns when it is spawned and told to stop.       *)
(***************************************************************************)
EXTENDS Naturals, FiniteSets

CONSTANTS
    Leases,             \* lease ids (uuids), one worker for each
    HasTransmitter      \* the source is a Hermes-Lite 2: only that one keys

VARIABLE worker         \* [Leases -> WorkerRecord]

(***************************************************************************)
(* task     the tokio task: none, live, or exited (join_handle finished)   *)
(* threads  the std threads: opening the source, failed (the startup error *)
(*          was reported, cmd_thread is being joined), running, gone       *)
(* startup  the startup_tx/startup_rx oneshot                              *)
(* stopSent Stop was queued and stop_tx fired (stop_runtime)               *)
(* stopFlag the shared stop_flag                                           *)
(* keyed    the transmitter is on the air under this thread set            *)
(***************************************************************************)
WorkerRecord ==
    [task : {"none", "live", "exited"},
     threads : {"none", "opening", "failed", "running", "gone"},
     startup : {"pending", "ready", "failed"},
     stopSent : BOOLEAN,
     stopFlag : BOOLEAN,
     keyed : BOOLEAN]

NoWorkerYet ==
    [task |-> "none", threads |-> "none", startup |-> "pending",
     stopSent |-> FALSE, stopFlag |-> FALSE, keyed |-> FALSE]

Spawned == [NoWorkerYet EXCEPT !.task = "live", !.threads = "opening"]

WorkerInit == worker = [l \in Leases |-> NoWorkerYet]

\* What stop_runtime sends before it joins: the Stop command and the oneshot.
Signalled(l) == [worker EXCEPT ![l].stopSent = TRUE]

(***************************************************************************)
(* Steps of the threads.                                                   *)
(***************************************************************************)

\* The capture thread opened and tuned the source: Ready, Running, capture starts.
OpenSource(l) ==
    /\ worker[l].threads = "opening"
    /\ worker' = [worker EXCEPT ![l] = [@ EXCEPT !.threads = "running", !.startup = "ready"]]

\* The source could not be opened or tuned: Failed is reported, then the main
\* thread blocks in cmd_thread.join() until somebody stops the worker.
FailToOpen(l) ==
    /\ worker[l].threads = "opening"
    /\ worker' = [worker EXCEPT ![l] = [@ EXCEPT !.threads = "failed", !.startup = "failed"]]

\* The capture thread starts or ends an over (tone, CW, microphone, tune, sweep).
\* It looks at stop_flag only between iterations, so an over may even start late.
Key(l) ==
    /\ HasTransmitter
    /\ worker[l].threads = "running"
    /\ \E onAir \in BOOLEAN : worker' = [worker EXCEPT ![l].keyed = onAir]

\* The command thread takes the Stop command off its queue.
TakeStopCommand(l) ==
    /\ worker[l].threads \in {"opening", "failed", "running"}
    /\ worker[l].stopSent
    /\ ~worker[l].stopFlag
    /\ worker' = [worker EXCEPT ![l].stopFlag = TRUE]

\* The stream ends by itself: sustained RX loss, a source error, end of file.
StreamEnds(l) ==
    /\ worker[l].threads = "running"
    /\ ~worker[l].stopFlag
    /\ worker' = [worker EXCEPT ![l].stopFlag = TRUE]

\* Every thread has seen the flag, un-keyed, closed the source and been joined.
ThreadsJoin(l) ==
    /\ worker[l].threads \in {"failed", "running"}
    /\ worker[l].stopFlag
    /\ worker' = [worker EXCEPT ![l] = [@ EXCEPT !.threads = "gone", !.keyed = FALSE]]

(***************************************************************************)
(* Steps of the async wrapper: the two arms of its select!.                *)
(***************************************************************************)

\* Slip: the stop arm waits for the threads, which may be blocked in the source.
WrapperStopsAfterThreads(l) ==
    /\ worker[l].task = "live"
    /\ worker[l].stopSent
    /\ worker[l].threads = "gone"
    /\ worker' = [worker EXCEPT ![l].task = "exited"]

\* stop_rx fires: the flag is set and the task returns; the threads are left
\* to notice the flag by themselves.
WrapperStops(l) ==
    /\ worker[l].task = "live"
    /\ worker[l].stopSent
    /\ worker' = [worker EXCEPT ![l] = [@ EXCEPT !.task = "exited", !.stopFlag = TRUE]]

\* exit_rx yields the threads' own exit.
WrapperJoins(l) ==
    /\ worker[l].task = "live"
    /\ worker[l].threads = "gone"
    /\ worker' = [worker EXCEPT ![l].task = "exited"]

WorkerStep(l) ==
    \/ OpenSource(l)
    \/ FailToOpen(l)
    \/ Key(l)
    \/ TakeStopCommand(l)
    \/ StreamEnds(l)
    \/ ThreadsJoin(l)
    \/ WrapperStops(l)
    \/ WrapperJoins(l)

\* The task is alive and nobody has asked it to stop.
Serving(l) == worker[l].task = "live" /\ ~worker[l].stopSent
=============================================================================
