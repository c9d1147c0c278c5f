---------------------------- MODULE AmpInterlock ----------------------------
(***************************************************************************)
(* The external amplifier beside the transmitter: the HR50 poller          *)
(* (rigflow-server/src/amplifier/mod.rs, run_amplifier_poller), which must *)
(* keep off the serial line while the radio is keyed, and the capture      *)
(* thread of worker.rs, which keys, tells the poller which band it will    *)
(* transmit on, and bypasses the amplifier for the length of an SWR sweep. *)
(*                                                                         *)
(* They share tx_active (the poller's tx_keyed; the per-path flags beside  *)
(* it only lengthen its silence), amp_freq, amp_fa_sent, the channel of    *)
(* AmpCommands and the published status.  The poller looks at tx_active    *)
(* and writes in one step: PTT follows tx_active by the FIFO pre-fill,     *)
(* some 50 ms, and the write follows the look by microseconds.             *)
(***************************************************************************)
EXTENDS Naturals, Sequences

CONSTANTS
    Bands,          \* amateur bands, or none of them
    None,           \* no frequency sent yet, no mode saved or read
    MaxSweeps,      \* bound: sweeps asked for
    MaxSets,        \* bound: keying-mode commands of the operator
    LossySerial,    \* a write to the serial port may fail
    CanStop         \* the worker may be told to stop

ASSUME AmpAssumption ==
    /\ None \notin Bands \union {"Off", "Ptt"}
    /\ MaxSweeps \in Nat /\ MaxSets \in Nat
    /\ LossySerial \in BOOLEAN /\ CanStop \in BOOLEAN

Modes == {"Off", "Ptt"}                         \* AmplifierKeyingMode
Statuses == {"absent", "blind"} \union Modes    \* blind: detected, its mode not read

VARIABLES
    amp,        \* the amplifier itself: [mode, band]
    wanted,     \* history: the mode the operator last chose
    stale,      \* history: the sweep last begun saved another mode than that
    lost,       \* history: the keying mode last written did not reach the amplifier
    queue,      \* AmpCommands on their way to the poller
    sets,       \* how many the operator sent
    status,     \* amplifier_status in SharedControlState
    dial,       \* receive and effective transmit band in SharedControlState
    target,     \* amp_freq
    faSent,     \* amp_fa_sent, and last_freq_sent
    poller,     \* where the poller is
    freq,       \* its local: the frequency it is sending
    reading,    \* its local: what HRRX said this cycle
    at,         \* where the capture loop is
    snap,       \* control_snapshot: [dial, status]
    sweeping,   \* the over in progress belongs to a sweep
    saved,      \* saved_keying_mode of a sweep that attempted the bypass
    sweeps,     \* sweeps begun
    stop        \* stop_flag

operator == <<wanted, sets, dial, stop>>
pvars == <<lost, amp, status, faSent, poller, freq, reading>>
cvars == <<stale, target, at, snap, sweeping, saved, sweeps>>
vars == <<operator, pvars, cvars, queue>>

Dials == [rx : Bands, tx : Bands]

Init ==
    /\ amp \in [mode : Modes, band : Bands]
    /\ wanted = amp.mode
    /\ stale = FALSE
    /\ lost = FALSE
    /\ queue = <<>>
    /\ sets = 0
    /\ status = "absent"
    /\ dial \in Dials
    /\ target = dial.tx
    /\ faSent = None
    /\ poller = "top"
    /\ freq = None
    /\ reading = None
    /\ at = "top"
    /\ snap = [dial |-> dial, status |-> "absent"]
    /\ sweeping = FALSE
    /\ saved = None
    /\ sweeps = 0
    /\ stop = FALSE

\* tx_seq_begin sets tx_active before the pre-fill, tx_seq_safe_off clears it after PTT.
TxActive == at \in {"prefill", "ptt", "release"}

(***************************************************************************)
(* The operator, through the command thread.                               *)
(***************************************************************************)

\* Set during a sweep, the mode is followed by the one the sweep saved.
SetKeyingMode(m) ==
    /\ sets < MaxSets
    /\ sets' = sets + 1
    /\ wanted' = m
    /\ stale' = (saved # None /\ saved # m)
    /\ queue' = Append(queue, m)
    /\ UNCHANGED <<dial, stop, pvars, target, at, snap, sweeping, saved, sweeps>>

SetDial(d) ==
    /\ dial' = d
    /\ UNCHANGED <<wanted, sets, stop, pvars, cvars, queue>>

StopWorker ==
    /\ CanStop
    /\ stop' = TRUE
    /\ UNCHANGED <<wanted, sets, dial, pvars, cvars, queue>>

(***************************************************************************)
(* run_amplifier_poller.                                                   *)
(***************************************************************************)
Poll(from, to) == poller = from /\ poller' = to
Quiet == UNCHANGED <<operator, cvars>>

\* The loop condition, and the park at the top while keyed.
PollerTop ==
    /\ IF stop THEN Poll("top", "gone") ELSE ~TxActive /\ Poll("top", "apply")
    /\ UNCHANGED <<lost, amp, status, faSent, freq, reading, queue>> /\ Quiet

\* A check that finds the radio keyed abandons the cycle, also between two queries.
Abandon ==
    /\ TxActive
    /\ \E pc \in {"apply", "track", "query", "asked"} : Poll(pc, "top")
    /\ UNCHANGED <<lost, amp, status, faSent, freq, reading, queue>> /\ Quiet

\* send_set of a keying mode; an error is logged and the command is gone.
ApplyHead ==
    /\ queue # <<>>
    /\ queue' = Tail(queue)
    /\ \/ amp' = [amp EXCEPT !.mode = Head(queue)] /\ lost' = FALSE
       \/ LossySerial /\ UNCHANGED amp /\ lost' = TRUE
    /\ UNCHANGED <<status, faSent, freq, reading>> /\ Quiet

ApplyFirst == ~TxActive /\ Poll("apply", "applied") /\ ApplyHead

\* The loop takes the next command after SET_DRAIN, and does not look at the keys again.
ApplyNext == Poll("applied", "applied") /\ ApplyHead

Drained ==
    /\ queue = <<>>
    /\ \/ Poll("applied", "track")
       \/ ~TxActive /\ Poll("apply", "track")
    /\ UNCHANGED <<lost, amp, status, faSent, freq, reading, queue>> /\ Quiet

\* FA follows amp_freq; amp_fa_sent is stored once send_set has returned.
SendFa ==
    /\ ~TxActive
    /\ target # faSent
    /\ Poll("track", "tracking")
    /\ freq' = target
    /\ \/ amp' = [amp EXCEPT !.band = target]
       \/ LossySerial /\ UNCHANGED amp
    /\ UNCHANGED <<lost, status, faSent, reading, queue>> /\ Quiet

FaSent ==
    /\ Poll("tracking", "query")
    /\ faSent' = freq
    /\ UNCHANGED <<lost, amp, status, freq, reading, queue>> /\ Quiet

NothingToTrack ==
    /\ ~TxActive
    /\ target = faSent
    /\ Poll("track", "query")
    /\ UNCHANGED <<lost, amp, status, faSent, freq, reading, queue>> /\ Quiet

\* Slip: the query is sent without another look at the keys.
QueryUnchecked ==
    /\ Poll("query", "asked")
    /\ reading' \in {amp.mode, None}
    /\ UNCHANGED <<lost, amp, status, faSent, freq, queue>> /\ Quiet

\* query_hrrx, and with it the other three: a reply or none.
Query ==
    /\ ~TxActive
    /\ Poll("query", "asked")
    /\ reading' \in {amp.mode, None}
    /\ UNCHANGED <<lost, amp, status, faSent, freq, queue>> /\ Quiet

\* Slip: what was read is published as it is, an unread mode too.
PublishUnread ==
    /\ Poll("asked", "top")
    /\ status' = reading
    /\ UNCHANGED <<lost, amp, faSent, freq, reading, queue>> /\ Quiet

\* Without an HRRX the HRVT may still have been read; after enough silence it is gone.
\* After the last query there is no further check: an over does not hold this back.
Publish ==
    /\ Poll("asked", "top")
    /\ IF reading # None THEN status' = reading ELSE status' \in {"blind", status, "absent"}
    /\ UNCHANGED <<lost, amp, faSent, freq, reading, queue>> /\ Quiet

(***************************************************************************)
(* The capture loop of the worker.                                         *)
(***************************************************************************)
Goes(from, to) == at = from /\ at' = to
Sound == UNCHANGED <<operator, pvars>>

\* The snapshot, and amp_freq on the effective transmit frequency.
LoopTop ==
    /\ IF stop
       THEN Goes("top", "gone") /\ UNCHANGED <<snap, target>>
       ELSE /\ Goes("top", "work")
            /\ snap' = [dial |-> dial, status |-> status]
            /\ target' = dial.tx
    /\ UNCHANGED <<stale, sweeping, saved, sweeps, queue>> /\ Sound

\* Nothing is pending, or an over that prepare_tx_band finds not ready is aborted.
NoOver ==
    /\ Goes("work", "top")
    /\ UNCHANGED <<stale, target, snap, sweeping, saved, sweeps, queue>> /\ Sound

\* prepare_tx_band: only a cross-band over with an amplifier has anything to verify.
Ready ==
    snap.dial.rx # snap.dial.tx /\ snap.status # "absent" => faSent = snap.dial.tx

KeyOver ==
    /\ Ready
    /\ Goes("work", "prefill")
    /\ UNCHANGED <<stale, target, snap, sweeping, saved, sweeps, queue>> /\ Sound

\* A sweep asks for the bypass if it knows which mode to come back to; with an
\* amplifier whose mode is unread it is deferred.
BeginSweep ==
    /\ sweeps < MaxSweeps
    /\ sweeps' = sweeps + 1
    /\ CASE snap.status = "absent" ->
                /\ Goes("work", "points")
                /\ sweeping' = TRUE
                /\ UNCHANGED <<saved, stale, queue>>
         [] snap.status = "blind" ->
                /\ Goes("work", "top")
                /\ UNCHANGED <<sweeping, saved, stale, queue>>
         [] OTHER ->
                /\ Goes("work", "wait")
                /\ sweeping' = TRUE
                /\ saved' = snap.status
                /\ stale' = (saved' # wanted)
                /\ queue' = Append(queue, "Off")
    /\ UNCHANGED <<target, snap>> /\ Sound

\* Slip: the sweep does not wait for the mode to be read back.
UnconfirmedBypass ==
    /\ Goes("wait", "points")
    /\ UNCHANGED <<stale, target, snap, sweeping, saved, sweeps, queue>> /\ Sound

\* wait_for_keying_mode reads the status the poller published.
BypassConfirmed ==
    /\ status = "Off"
    /\ Goes("wait", "points")
    /\ UNCHANGED <<stale, target, snap, sweeping, saved, sweeps, queue>> /\ Sound

BypassTimesOut ==
    /\ Goes("wait", "restore")
    /\ UNCHANGED <<stale, target, snap, sweeping, saved, sweeps, queue>> /\ Sound

\* tx_tune_test at one point: tx_seq_begin.
BeginPoint ==
    /\ Goes("points", "prefill")
    /\ UNCHANGED <<stale, target, snap, sweeping, saved, sweeps, queue>> /\ Sound

AssertPtt ==
    /\ Goes("prefill", "ptt")
    /\ UNCHANGED <<stale, target, snap, sweeping, saved, sweeps, queue>> /\ Sound

\* tx_seq_safe_off: the release frames, and then tx_active.
DropPtt ==
    /\ Goes("ptt", "release") \/ Goes("release", IF sweeping THEN "points" ELSE "top")
    /\ UNCHANGED <<stale, target, snap, sweeping, saved, sweeps, queue>> /\ Sound

EndSweep ==
    /\ Goes("points", "restore")
    /\ UNCHANGED <<stale, target, snap, sweeping, saved, sweeps, queue>> /\ Sound

\* Slip: the mode is put back after a completed sweep only.
RestoreCompleted ==
    /\ Goes("restore", "top")
    /\ queue' = IF saved = None \/ status # "Off" THEN queue ELSE Append(queue, saved)
    /\ saved' = None
    /\ sweeping' = FALSE
    /\ UNCHANGED <<stale, target, snap, sweeps>> /\ Sound

\* Fire and forget: the poller applies it.
Restore ==
    /\ Goes("restore", "top")
    /\ queue' = IF saved = None THEN queue ELSE Append(queue, saved)
    /\ saved' = None
    /\ sweeping' = FALSE
    /\ UNCHANGED <<stale, target, snap, sweeps>> /\ Sound

OperatorStep ==
    \/ \E m \in Modes : SetKeyingMode(m)
    \/ \E d \in Dials : SetDial(d)
    \/ StopWorker

PollerStep ==
    \/ PollerTop
    \/ Abandon
    \/ ApplyFirst
    \/ ApplyNext
    \/ Drained
    \/ SendFa
    \/ FaSent
    \/ NothingToTrack
    \/ Query
    \/ Publish

CaptureStep ==
    \/ LoopTop
    \/ NoOver
    \/ KeyOver
    \/ BeginSweep
    \/ BypassConfirmed
    \/ BypassTimesOut
    \/ BeginPoint
    \/ AssertPtt
    \/ DropPtt
    \/ EndSweep
    \/ Restore

Next == OperatorStep \/ PollerStep \/ CaptureStep

\* Both threads run, a sweep has finitely many points, and the serial line answers
\* now and then.
Fairness ==
    /\ WF_vars(PollerStep)
    /\ WF_vars(CaptureStep)
    /\ SF_vars(EndSweep)

SafetySpec == Init /\ [][Next]_vars
Spec == SafetySpec /\ Fairness

(***************************************************************************)
(* Properties.                                                             *)
(***************************************************************************)

\* Every variable has its type.
TypeOK ==
    /\ amp \in [mode : Modes, band : Bands]
    /\ wanted \in Modes /\ queue \in Seq(Modes) /\ sets \in 0..MaxSets
    /\ stale \in BOOLEAN /\ lost \in BOOLEAN
    /\ status \in Statuses /\ dial \in Dials /\ target \in Bands
    /\ faSent \in Bands \union {None} /\ freq \in Bands \union {None}
    /\ poller \in {"top", "apply", "applied", "track", "tracking", "query", "asked", "gone"}
    /\ reading \in Modes \union {None}
    /\ at \in {"top", "work", "wait", "points", "prefill", "ptt", "release", "restore", "gone"}
    /\ snap \in [dial : Dials, status : Statuses]
    /\ sweeping \in BOOLEAN /\ saved \in Modes \union {None}
    /\ sweeps \in 0..MaxSweeps /\ stop \in BOOLEAN

\* While PTT is out, the poller writes neither a query nor a frequency, wherever in
\* its cycle the over caught it: serial while keyed hangs the amplifier.
QueriesSilent ==
    [][at = "ptt" => poller' = poller \/ poller' \notin {"tracking", "asked"}]_vars

\* ... nor a command.
SilentWhileKeyed ==
    [][at = "ptt" => Len(queue') >= Len(queue)]_vars

\* The first sweep that knows of the amplifier pulses only with the amplifier bypassed,
\* even when commands are lost on the line and the status is a cycle old: only a keying
\* mode the operator sets can undo the bypass under it.
SweepBypassed ==
    at = "ptt" /\ saved # None /\ sets = 0 /\ sweeps = 1 => amp.mode = "Off"

\* So does any later sweep, which may begin before the last restore was applied.
EverySweepBypassed == at = "ptt" /\ saved # None /\ sets = 0 => amp.mode = "Off"

\* The poller left with commands it did not take.
CutShort == poller = "gone" /\ queue # <<>>

\* After a sweep, however it ended, the amplifier comes back to the operator's mode,
\* unless the radio is keyed over and over.  The restore is a write the poller makes
\* later, once and without a reply, of what the sweep read: only when that write was
\* lost, when the worker stopped before it, or when the mode read was not the
\* operator's any more does the amplifier stay as it is.
BypassUndone == []<>TxActive \/ <>[](amp.mode = wanted \/ lost \/ stale \/ CutShort)

\* Even then: RestoreArrives of a lossy line, RestoreIsCurrent of a second sweep or a
\* mode set by hand.
RestoreArrives == []<>TxActive \/ <>[](amp.mode = wanted \/ stale \/ CutShort)
RestoreIsCurrent == []<>TxActive \/ <>[](amp.mode = wanted \/ lost \/ CutShort)

\* A worker that ended left the amplifier in the operator's mode.
AmpLeftAsFound == at = "gone" /\ poller = "gone" => amp.mode = wanted

\* A cross-band over is keyed only with the amplifier on the transmit band.
CrossBandOnTxBand ==
    at = "ptt" /\ ~sweeping /\ snap.status # "absent" /\ snap.dial.rx # snap.dial.tx =>
        amp.band = snap.dial.tx

\* Any over is: a change of the whole dial moves the amplifier too.
OverOnTxBand ==
    at = "ptt" /\ ~sweeping /\ snap.status # "absent" => amp.band = snap.dial.tx
=============================================================================
