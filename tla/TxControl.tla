----------------------------- MODULE TxControl -----------------------------
(***************************************************************************)
(* How a Hermes-Lite 2 worker is keyed and un-keyed                        *)
(* (rigflow-server/src/radio/worker.rs): the command thread turns client   *)
(* commands into pending requests and live flags; the capture thread,      *)
(* which owns the source, takes the requests one after the other and stays *)
(* in an over until its live flag, its time limit or a fault ends it.      *)
(*                                                                         *)
(* Live flags: tx_tone_stop (inverted), cw_key_held, mic_tx_active.  A     *)
(* setting of the dial stands for the effective TX frequency and mode.     *)
(***************************************************************************)
EXTENDS Naturals

CONSTANTS
    Dials,          \* settings of the effective TX frequency and mode
    CwDials,        \* those with a CW mode; the others are SSB or DgtU
    SweepPoints     \* SWR_SWEEP_POINTS

ASSUME TxAssumption ==
    /\ CwDials \subseteq Dials
    /\ SweepPoints \in Nat

Keyed == {"tone", "cw", "mic"}              \* open-ended, until the live flag clears
Overs == {"tune", "sweep"} \union Keyed

VARIABLES
    dial,       \* the settings in SharedControlState
    snap,       \* control_snapshot, the copy the capture loop works from
    pending,    \* the pending_* requests
    live,       \* the flags that keep an over up
    cancel,     \* swr_sweep_cancel
    stopSent,   \* stop_runtime ran: Stop is queued and stop_tx has fired
    stopFlag,   \* the worker's stop_flag
    cmd,        \* the command thread
    at,         \* where the capture loop is
    phase,      \* of the over it is in: taken, lead (PTT, no RF), rf, tail, gap
    point,      \* sweep points done
    pressed     \* history: the keys whose last command was Start

cvars == <<dial, pending, live, cancel, cmd, pressed>>
lvars == <<snap, at, phase, point>>
vars == <<cvars, lvars, stopSent, stopFlag>>

Init ==
    /\ dial \in Dials
    /\ snap = dial
    /\ pending = {}
    /\ live = {"tone"}
    /\ cancel = FALSE
    /\ stopSent = FALSE
    /\ stopFlag = FALSE
    /\ cmd = "running"
    /\ at = "top"
    /\ phase = "idle"
    /\ point = 0
    /\ pressed = {}

(***************************************************************************)
(* The command thread, one command at a time.                              *)
(***************************************************************************)

SetDial(d) ==
    /\ cmd = "running"
    /\ dial' = d
    /\ UNCHANGED <<pending, live, cancel, cmd, pressed, lvars, stopSent, stopFlag>>

\* StartTxTestTone, StartCwKey, StartMicTx.
Press(k) ==
    /\ cmd = "running"
    /\ live' = live \union {k}
    /\ pending' = pending \union {k}
    /\ pressed' = pressed \union {k}
    /\ UNCHANGED <<dial, cancel, cmd, lvars, stopSent, stopFlag>>

\* Slip: only a request still pending is withdrawn.
UnpressPending(k) ==
    /\ cmd = "running"
    /\ pending' = pending \ {k}
    /\ pressed' = pressed \ {k}
    /\ UNCHANGED <<dial, live, cancel, cmd, lvars, stopSent, stopFlag>>

\* StopTxTestTone, StopCwKey, StopMicTx.
Unpress(k) ==
    /\ cmd = "running"
    /\ live' = live \ {k}
    /\ pending' = pending \ {k}
    /\ pressed' = pressed \ {k}
    /\ UNCHANGED <<dial, cancel, cmd, lvars, stopSent, stopFlag>>

RequestTune ==
    /\ cmd = "running"
    /\ pending' = pending \union {"tune"}
    /\ UNCHANGED <<dial, live, cancel, cmd, pressed, lvars, stopSent, stopFlag>>

\* Slip: an earlier cancellation is left standing.
RequestSweepCancelled ==
    /\ cmd = "running"
    /\ pending' = pending \union {"sweep"}
    /\ UNCHANGED <<dial, live, cancel, cmd, pressed, lvars, stopSent, stopFlag>>

RequestSweep ==
    /\ cmd = "running"
    /\ pending' = pending \union {"sweep"}
    /\ cancel' = FALSE
    /\ UNCHANGED <<dial, live, cmd, pressed, lvars, stopSent, stopFlag>>

CancelSweep ==
    /\ cmd = "running"
    /\ pending' = pending \ {"sweep"}
    /\ cancel' = TRUE
    /\ UNCHANGED <<dial, live, cmd, pressed, lvars, stopSent, stopFlag>>

\* Stop comes off the queue: every over in flight is told to end.
TakeStop ==
    /\ cmd = "running"
    /\ stopSent
    /\ stopFlag' = TRUE
    /\ live' = {}
    /\ pressed' = {}
    /\ cmd' = "gone"
    /\ UNCHANGED <<dial, pending, cancel, lvars, stopSent>>

\* The loop condition sees stop_flag first, and a queued Stop is never taken.
CommandThreadEnds ==
    /\ cmd = "running"
    /\ stopFlag
    /\ cmd' = "gone"
    /\ UNCHANGED <<dial, pending, live, cancel, pressed, lvars, stopSent, stopFlag>>

(***************************************************************************)
(* stop_runtime, and the stop_rx arm of run_radio_worker.                  *)
(***************************************************************************)

StopRuntime ==
    /\ ~stopSent
    /\ stopSent' = TRUE
    /\ UNCHANGED <<cvars, lvars, stopFlag>>

WrapperStops ==
    /\ stopSent
    /\ ~stopFlag
    /\ stopFlag' = TRUE
    /\ UNCHANGED <<cvars, lvars, stopSent>>

(***************************************************************************)
(* The capture loop: the pending requests are taken in this order.         *)
(***************************************************************************)
After(k) ==
    CASE k = "tune" -> "sweep"
      [] k = "sweep" -> "tone"
      [] k = "tone" -> "cw"
      [] k = "cw" -> "mic"
      [] k = "mic" -> "read"

LoopTop ==
    /\ at = "top"
    /\ IF stopFlag
       THEN at' = "gone" /\ UNCHANGED snap
       ELSE at' = "tune" /\ snap' = dial
    /\ UNCHANGED <<cvars, phase, point, stopSent, stopFlag>>

\* The request is taken under the control lock, or there is none.
TakeRequest(k) ==
    /\ at = k
    /\ phase = "idle"
    /\ pending' = pending \ {k}
    /\ IF k \in pending
       THEN phase' = "taken" /\ UNCHANGED at
       ELSE at' = After(k) /\ UNCHANGED phase
    /\ UNCHANGED <<dial, live, cancel, cmd, pressed, snap, point, stopSent, stopFlag>>

\* The snapshot's mode has no CW, or no sideband, to transmit.
WrongMode(k) == \/ k = "cw" /\ snap \notin CwDials
                \/ k = "mic" /\ snap \in CwDials

Refuse(k) ==
    /\ at = k
    /\ phase = "taken"
    /\ WrongMode(k)
    /\ live' = live \ {k}
    /\ at' = After(k)
    /\ phase' = "idle"
    /\ UNCHANGED <<dial, pending, cancel, cmd, pressed, snap, point, stopSent, stopFlag>>

\* Not keyed after all: the amplifier's band or bypass is unconfirmed, or the sweep
\* range is invalid.  The microphone's flag is cleared, CW's is not.
NotReady(k) ==
    /\ at = k
    /\ phase = "taken"
    /\ ~WrongMode(k)
    /\ live' = IF k = "mic" THEN live \ {"mic"} ELSE live
    /\ pending' = IF k = "cw" THEN pending \ {"cw"} ELSE pending
    /\ cancel' \in IF k = "sweep" THEN {cancel, FALSE} ELSE {cancel}
    /\ at' = After(k)
    /\ phase' = "idle"
    /\ UNCHANGED <<dial, cmd, pressed, snap, point, stopSent, stopFlag>>

\* tx_seq_begin: PTT with zero amplitude.  A sweep goes through it at every point.
KeyDown(k) ==
    /\ at = k
    /\ phase = "taken"
    /\ ~WrongMode(k)
    /\ phase' = IF k = "sweep" THEN "gap" ELSE "lead"
    /\ UNCHANGED <<cvars, snap, at, point, stopSent, stopFlag>>

\* Slips: the over looks at the stop alone, or at the key alone.
ToldByStop(k) == k \in {"cw", "mic"} /\ stopFlag
ToldByKey(k) == k \in Keyed /\ k \notin live

\* What ends an open-ended over: its flag, and for CW and the microphone the worker's stop.
ToldToEnd(k) ==
    \/ k \in Keyed /\ k \notin live
    \/ k \in {"cw", "mic"} /\ stopFlag

StartRf(k) ==
    /\ at = k
    /\ phase = "lead"
    /\ phase' = IF ToldToEnd(k) THEN "tail" ELSE "rf"
    /\ UNCHANGED <<cvars, snap, at, point, stopSent, stopFlag>>

EndRf(k) ==
    /\ at = k
    /\ phase = "rf"
    /\ ToldToEnd(k)
    /\ phase' = "tail"
    /\ UNCHANGED <<cvars, snap, at, point, stopSent, stopFlag>>

\* The over's own limit: 500 ms of tune, 5 s of tone, 10 min of microphone.  CW has
\* none: its 30 s guard drops the carrier and a key still held raises it again.
TimeLimit(k) ==
    /\ at = k
    /\ phase = "rf"
    /\ k \in {"tune", "tone", "mic"}
    /\ phase' = "tail"
    /\ UNCHANGED <<cvars, snap, at, point, stopSent, stopFlag>>

\* A send failed, or the hardware reported a FIFO anomaly.
TxFault(k) ==
    /\ at = k
    /\ phase \in {"lead", "rf"}
    /\ k # "sweep"
    /\ phase' = "tail"
    /\ UNCHANGED <<cvars, snap, at, point, stopSent, stopFlag>>

\* The source has returned, after tx_seq_end or before any PTT: it rejected the
\* frequency, the transmitter is inhibited, a send failed.  What the loop does then:
\* CW is re-armed if the key is held.
Release(k) ==
    /\ at = k
    /\ phase = "tail" \/ (phase = "taken" /\ ~WrongMode(k) /\ k # "sweep")
    /\ pending' = IF k # "cw" THEN pending
                  ELSE IF "cw" \in live THEN pending \union {"cw"} ELSE pending \ {"cw"}
    /\ at' = After(k)
    /\ phase' = "idle"
    /\ UNCHANGED <<dial, live, cancel, cmd, pressed, snap, point, stopSent, stopFlag>>

\* Slip: one point too many.
SweepPulsePastEnd ==
    /\ at = "sweep"
    /\ phase = "gap"
    /\ ~cancel
    /\ point <= SweepPoints
    /\ phase' = "rf"
    /\ UNCHANGED <<cvars, snap, at, point, stopSent, stopFlag>>

\* One point of the sweep: the cancel flag is the only one it looks at.
SweepPulse ==
    /\ at = "sweep"
    /\ phase = "gap"
    /\ ~cancel
    /\ point < SweepPoints
    /\ phase' = "rf"
    /\ UNCHANGED <<cvars, snap, at, point, stopSent, stopFlag>>

SweepPulseOver ==
    /\ at = "sweep"
    /\ phase = "rf"
    /\ phase' = "gap"
    /\ point' = point + 1
    /\ UNCHANGED <<cvars, snap, at, stopSent, stopFlag>>

SweepDone ==
    /\ at = "sweep"
    /\ phase = "gap"
    /\ cancel \/ point = SweepPoints
    /\ cancel' = FALSE
    /\ at' = "tone"
    /\ phase' = "idle"
    /\ point' = 0
    /\ UNCHANGED <<dial, pending, live, cmd, pressed, snap, stopSent, stopFlag>>

\* read_block, or the end of the stream.
Read ==
    /\ at = "read"
    /\ \/ at' = "top" /\ UNCHANGED stopFlag
       \/ at' = "gone" /\ stopFlag' = TRUE
    /\ UNCHANGED <<cvars, snap, phase, point, stopSent>>

CommandStep ==
    \/ \E d \in Dials : SetDial(d)
    \/ \E k \in Keyed : Press(k) \/ Unpress(k)
    \/ RequestTune
    \/ RequestSweep
    \/ CancelSweep

StopStep == TakeStop \/ CommandThreadEnds \/ WrapperStops

\* What the capture thread does by itself; a fault is not its doing.
CaptureStep ==
    \/ LoopTop
    \/ \E k \in Overs : \/ TakeRequest(k) \/ Refuse(k) \/ NotReady(k) \/ KeyDown(k)
                         \/ StartRf(k) \/ EndRf(k) \/ TimeLimit(k) \/ Release(k)
    \/ SweepPulse
    \/ SweepPulseOver
    \/ SweepDone
    \/ Read

\* Both threads are gone; the worker has ended.
Ended == at = "gone" /\ cmd = "gone" /\ UNCHANGED vars

Next ==
    \/ CommandStep
    \/ StopRuntime
    \/ StopStep
    \/ CaptureStep
    \/ \E k \in Overs : TxFault(k)
    \/ Ended

\* The threads run: the operating system schedules them, and time passes.
Fairness ==
    /\ WF_vars(CaptureStep)
    /\ WF_vars(TakeStop \/ CommandThreadEnds)
    /\ WF_vars(WrapperStops)

SafetySpec == Init /\ [][Next]_vars
Spec == SafetySpec /\ Fairness

(***************************************************************************)
(* Properties.                                                             *)
(***************************************************************************)

\* Every variable has its type.
TypeOK ==
    /\ dial \in Dials /\ snap \in Dials
    /\ pending \subseteq Overs /\ live \subseteq Keyed /\ pressed \subseteq Keyed
    /\ cancel \in BOOLEAN /\ stopSent \in BOOLEAN /\ stopFlag \in BOOLEAN
    /\ cmd \in {"running", "gone"}
    /\ at \in Overs \union {"top", "read", "gone"}
    /\ phase \in {"idle", "taken", "lead", "rf", "tail", "gap"}
    /\ point \in 0..SweepPoints

\* Radio frequency of an open-ended over starts only while its key is down: a
\* request that was withdrawn while it was pending, taken or in its lead delay,
\* or re-armed after a session, never transmits.  Nor does CW or the microphone
\* once the worker is told to stop, by whichever of the two ways reached it.
RfOnlyWhilePressed ==
    [][\A k \in Keyed : at = k /\ phase # "rf" /\ phase' = "rf" =>
           k \in pressed /\ (stopFlag => k = "tone")]_vars

\* An old cancellation never ends the sweep that was requested after it.
PendingSweepNotCancelled == "sweep" \in pending => ~cancel

\* Releasing a key ends its over, unless it is pressed again meanwhile.
KeyUpReleases ==
    \A k \in Keyed : at = k /\ k \notin live ~> at # k \/ k \in live

\* A worker told to stop ends both threads, whichever way it learns of it and
\* whatever over it is in: even with the key held down.
StopEndsThreads == stopSent ~> at = "gone" /\ cmd = "gone"

\* Every over ends when it is told to, by its key or by the worker's stop.
OversEnd == KeyUpReleases /\ StopEndsThreads

\* With the command thread gone, nothing holds a test tone up any more.
StopBreaksTone == ~(cmd = "gone" /\ at = "tone" /\ phase = "rf" /\ "tone" \in live)

\* A sweep starts no further pulse once the worker is told to stop.
SweepHeedsStop ==
    [][stopFlag /\ at = "sweep" /\ phase # "rf" => phase' # "rf"]_vars

\* An over goes out on the settings in force when it is keyed.
KeyedOnCurrentDial ==
    [][\A k \in Keyed : at = k /\ phase = "taken" /\ phase' = "lead" => snap = dial]_vars
=============================================================================
