----------------------------- MODULE CaptureLoop -----------------------------
(***************************************************************************)
(* The worker's capture thread, which owns the IQ source.  Each turn takes *)
(* a snapshot of SharedControlState, applies what changed to the source,   *)
(* runs what is asked of the transmitter, reads one block and hands it to  *)
(* the pipelines of VFO A and VFO B.  The command thread and the DSP       *)
(* threads write the shared state meanwhile.  A frequency stands for its   *)
(* ham band; band 1 is 160m, and 0 is outside the bands.                   *)
(*                                                                         *)
(* The transmissions of a turn run one after the other on its snapshot:    *)
(* the Spot, the SWR sweep, then the tone, the CW key and the microphone,  *)
(* which treat the filter alike and are "mic" here.                        *)
(***************************************************************************)
EXTENDS Integers, FiniteSetsExt

CONSTANTS Bands,        \* the frequencies a VFO can be on
          Tuner,        \* those the tuner covers
          Direct,       \* those direct sampling covers
          QueueCap,     \* blocks a pipeline's channel holds
          MaxCommands,  \* bound on the commands of a session
          None

VARIABLES hw,       \* "rtl" (direct sampling) or "hl2" (dual watch, transmit)
          control,  \* SharedControlState
          mirror,   \* control_b: the squelch gate and tuning of DSP-B
          gateB,    \* the gate DSP-B has decided on
          pc,       \* step of the capture thread
          snap,     \* its control_snapshot
          last,     \* what it believes the source has (last_*, applied_*)
          source,   \* what the source really has
          swept,    \* history: this turn swept another band than the dial's
          astray,   \* history: an over on the dial's own band put the filter on that
                    \* band while the thread believed it on another, which dual watch
                    \* or a sweep in the same turn had called for
          queue,    \* blocks waiting for DSP-A, DSP-B
          stop,     \* stop_flag
          asked     \* commands handled

vars == <<hw, control, mirror, gateB, pc, snap, last, source, swept, astray, queue,
          stop, asked>>

Filters == [lpf : Bands, hpf : BOOLEAN]

\* Every variable has its type.
TypeOK ==
  /\ hw \in {"rtl", "hl2"}
  /\ control \in [center : Bands, target : Bands, b : Bands, dual : BOOLEAN,
                  txB : BOOLEAN, n2adr : BOOLEAN, direct : BOOLEAN,
                  keys : SUBSET {"spot", "mic"}, sweep : Bands \cup {None},
                  rec : {None, "start", "stop"}, gate : BOOLEAN, gateB : BOOLEAN]
  /\ mirror \in [tuned : Bands, gate : BOOLEAN]
  /\ gateB \in BOOLEAN
  /\ pc \in {"snapshot", "configure", "tune", "record", "spot", "sweep", "mic", "read",
            "sendA", "done"}
  /\ last \in [dual : BOOLEAN, b : Bands \cup {None}, direct : BOOLEAN, center : Bands,
               n2adr : BOOLEAN, filter : Filters \cup {None}]
  /\ source \in [center : Bands, b : Bands \cup {None}, direct : BOOLEAN,
                 filter : Filters \cup {None}, rec : BOOLEAN]
  /\ queue \in [{"A", "B"} -> 0..QueueCap]
  /\ swept \in BOOLEAN /\ astray \in BOOLEAN /\ stop \in BOOLEAN
  /\ asked \in 0..MaxCommands

Init ==
  /\ hw \in {"rtl", "hl2"}
  /\ \E f \in Tuner :
       /\ control = [center |-> f, target |-> f, b |-> f, dual |-> FALSE, txB |-> FALSE,
                     n2adr |-> FALSE, direct |-> FALSE, keys |-> {}, sweep |-> None,
                     rec |-> None, gate |-> TRUE, gateB |-> TRUE]
       /\ mirror = [tuned |-> f, gate |-> TRUE]
       /\ last = [dual |-> FALSE, b |-> None, direct |-> FALSE, center |-> f,
                  n2adr |-> FALSE, filter |-> None]
       /\ source = [center |-> f, b |-> None, direct |-> FALSE, filter |-> None,
                    rec |-> FALSE]
  /\ snap = control
  /\ gateB = TRUE
  /\ pc = "snapshot"
  /\ queue = [v \in {"A", "B"} |-> 0]
  /\ swept = FALSE /\ astray = FALSE
  /\ stop = FALSE /\ asked = 0

-----------------------------------------------------------------------------
(* The command thread and the DSP threads.                                   *)

\* What may be asked of the transmitter, or no longer.
KeySets == SUBSET {"spot", "mic"}

Sweeps == (Bands \ {0}) \cup {None}

\* The settings a command, or the commands of a replay, may leave behind; a dial is
\* moved within the range of the mode it is in.
Settings ==
  LET c == control IN
       {[c EXCEPT !.center = f, !.target = f] :
          f \in IF hw = "hl2" THEN Bands ELSE IF c.direct THEN Direct ELSE Tuner}
  \cup {[c EXCEPT !.target = f] : f \in Bands}
  \cup {[c EXCEPT !.rec = r] : r \in {"start", "stop"}}
  \cup IF hw = "rtl" THEN {[c EXCEPT !.direct = ~c.direct]}
       ELSE {[c EXCEPT !.b = f] : f \in Bands}
            \cup {[c EXCEPT !.b = v[1], !.n2adr = TRUE, !.txB = v[2], !.dual = ~v[2],
                             !.keys = v[3], !.sweep = v[4]] :
                     v \in Bands \X BOOLEAN \X KeySets \X Sweeps}    \* a replay, and a key
            \cup {[c EXCEPT !.dual = ~c.dual], [c EXCEPT !.txB = ~c.txB],
                  [c EXCEPT !.n2adr = ~c.n2adr]}
            \cup {[c EXCEPT !.keys = k] : k \in KeySets}
            \cup {[c EXCEPT !.sweep = f] : f \in Sweeps}

Command ==
  /\ ~stop /\ asked < MaxCommands
  /\ control' \in Settings
  /\ asked' = asked + 1
  /\ UNCHANGED <<hw, mirror, gateB, pc, snap, last, source, swept, astray, queue, stop>>

Stop ==
  /\ ~stop
  /\ stop' = TRUE
  /\ UNCHANGED <<hw, control, mirror, gateB, pc, snap, last, source, swept, astray, queue, asked>>

\* A DSP thread takes a block; its squelch gate is written when it changes.
DspA ==
  /\ queue["A"] > 0
  /\ queue' = [queue EXCEPT !["A"] = @ - 1]
  /\ \E g \in BOOLEAN : control' = [control EXCEPT !.gate = g]
  /\ UNCHANGED <<hw, mirror, gateB, pc, snap, last, source, swept, astray, stop, asked>>

DspB ==
  /\ queue["B"] > 0
  /\ queue' = [queue EXCEPT !["B"] = @ - 1]
  /\ \E g \in BOOLEAN :
       /\ gateB' = g
       /\ mirror' = IF g # gateB THEN [mirror EXCEPT !.gate = g] ELSE mirror
  /\ UNCHANGED <<hw, control, pc, snap, last, source, swept, astray, stop, asked>>

-----------------------------------------------------------------------------
(* One turn of the capture thread.                                           *)

Snapshot ==
  /\ pc = "snapshot"
  /\ IF stop THEN /\ pc' = "done"                     \* finalize the recording
                  /\ source' = [source EXCEPT !.rec = FALSE]
                  /\ snap' = snap
     ELSE /\ pc' = "configure" /\ source' = source
          /\ snap' = [control EXCEPT !.keys = {}, !.sweep = None, !.rec = None,
                                     !.gateB = TRUE]    \* what a turn reads of it
  /\ swept' = FALSE
  /\ UNCHANGED <<hw, control, mirror, gateB, last, astray, queue, stop, asked>>

Clamp(f, range) == Max({Min({f, Max(range)}), Min(range)})

\* Slip: the clone of VFO A's state keeps VFO A's gate.
MirroredWithGateA == [tuned |-> snap.b, gate |-> snap.gate]

\* control_b: VFO A's state, then VFO B's settings, then B's own outputs back.
Mirrored == [tuned |-> snap.b, gate |-> mirror.gate]

\* Dual watch and its mirror, then direct sampling, which moves the dial into
\* the new range: the clamp is of the snapshot and overwrites the shared state.
Configure ==
  LET range == IF snap.direct THEN Direct ELSE Tuner
      center == Clamp(snap.center, range)
      target == Clamp(snap.target, range)
      turned == snap.direct # last.direct
  IN
  /\ pc = "configure"
  /\ mirror' = IF snap.dual THEN Mirrored ELSE mirror
  /\ control' =
       LET c == IF snap.dual THEN [control EXCEPT !.gateB = mirror.gate] ELSE control
       IN IF turned THEN [c EXCEPT !.center = center, !.target = target] ELSE c
  /\ source' = [source EXCEPT !.b = IF snap.dual THEN snap.b ELSE @,
                              !.center = IF turned THEN center ELSE @,
                              !.direct = snap.direct]
  /\ last' = [last EXCEPT !.dual = snap.dual,
                          !.b = IF snap.dual THEN snap.b ELSE IF last.dual THEN None ELSE @,
                          !.center = IF turned THEN center ELSE @,
                          !.direct = snap.direct]
  /\ pc' = "tune"
  /\ UNCHANGED <<hw, gateB, snap, swept, astray, queue, stop, asked>>

\* n2adr_filter_value_for_band, and n2adr_rx_value for the receive side.
FilterOf(band) == [lpf |-> band, hpf |-> band # 1]

FilterForRx(c) ==
  LET active == (IF c.dual THEN {c.target, c.b} ELSE {c.target}) \ {0}
  IN IF active = {} THEN None
     ELSE [lpf |-> Max(active), hpf |-> 1 \notin active]

Reprograms == \/ last.filter # FilterForRx(snap)
              \/ ~last.n2adr

\* The centre, unless the source already has it, then the N2ADR filter.
Tune ==
  LET want == FilterForRx(snap)
      program == snap.n2adr /\ want # None /\ Reprograms
      off == ~snap.n2adr /\ last.n2adr
  IN
  /\ pc = "tune"
  /\ source' = [source EXCEPT !.center = snap.center,
                              !.filter = IF program THEN want ELSE @]
  /\ last' = [last EXCEPT !.center = snap.center, !.n2adr = snap.n2adr,
                          !.filter = IF program THEN want ELSE IF off THEN None ELSE @]
  /\ astray' = (astray /\ ~program)
  /\ pc' = "record"
  /\ UNCHANGED <<hw, control, mirror, gateB, snap, swept, queue, stop, asked>>

\* A refused retune of the centre is fatal.
TuneFails ==
  /\ pc = "tune" /\ snap.center # last.center
  /\ stop' = TRUE
  /\ pc' = "done"
  /\ source' = [source EXCEPT !.rec = FALSE]
  /\ UNCHANGED <<hw, control, mirror, gateB, snap, last, swept, astray, queue, asked>>

\* Slip: the filter is left where the over put it.
NeverRestored(cross) == last.filter

\* restore_rx_band: a cross-band over makes the next turn reprogram.
Restored(cross) == IF cross THEN None ELSE last.filter

\* The recording requests.
Record ==
  /\ pc = "record"
  /\ control' = [control EXCEPT !.rec = None]
  /\ source' = [source EXCEPT !.rec = IF control.rec = None THEN @ ELSE control.rec = "start"]
  /\ pc' = "spot"
  /\ UNCHANGED <<hw, mirror, gateB, snap, last, swept, astray, queue, stop, asked>>

\* A pending over: prepare_tx_band, RF, restore.  A key down at the end of its CW over
\* asks for the next.
Over(kind, then) ==
  LET tx == IF snap.txB THEN snap.b ELSE snap.target
      cross == snap.target # tx
      moved == snap.n2adr /\ tx # 0
  IN
  /\ pc = kind /\ pc' = then
  /\ \/ /\ kind \in control.keys
        /\ \E again \in SUBSET ({kind} \cap {"mic"}) :
             control' = [control EXCEPT !.keys = (@ \ {kind}) \cup again]
        /\ source' = IF moved THEN [source EXCEPT !.filter = FilterOf(tx)] ELSE source
        /\ last' = [last EXCEPT !.filter = Restored(cross)]
        /\ astray' = (astray \/ (moved /\ ~cross /\ (snap.dual \/ swept)))
     \/ /\ kind = "mic"                    \* not sent in the mode the VFO is in
        /\ control' = [control EXCEPT !.keys = @ \ {kind}]
        /\ UNCHANGED <<source, last, astray>>
     \/ /\ kind \notin control.keys
        /\ UNCHANGED <<control, source, last, astray>>
  /\ UNCHANGED <<hw, mirror, gateB, snap, swept, queue, stop, asked>>

Spot == Over("spot", "sweep")

Mic == Over("mic", "read")

\* A pending sweep puts the filter on its band, and leaves it there: the next turn finds
\* a value it does not want.
Sweep ==
  LET band == control.sweep
      moved == snap.n2adr /\ band # None
  IN
  /\ pc = "sweep" /\ pc' = "mic"
  /\ control' = [control EXCEPT !.sweep = None]
  /\ source' = IF moved THEN [source EXCEPT !.filter = FilterOf(band)] ELSE source
  /\ last' = IF moved THEN [last EXCEPT !.filter = FilterOf(band)] ELSE last
  /\ astray' = (astray /\ ~moved)
  /\ swept' = (moved /\ band # snap.target)
  /\ UNCHANGED <<hw, mirror, gateB, snap, queue, stop, asked>>

\* A block is read, or a gap sends the thread round again.
Read ==
  /\ pc = "read"
  /\ pc' \in {"sendA", "snapshot"}
  /\ UNCHANGED <<hw, control, mirror, gateB, snap, last, source, swept, astray, queue, stop, asked>>

\* Slip: VFO B's channel is waited for, like VFO A's.
WaitsForBoth == queue["A"] < QueueCap /\ (snap.dual => queue["B"] < QueueCap)

\* VFO A's channel is waited for; a full one of VFO B loses the block.
HasRoom == queue["A"] < QueueCap

SendBlock ==
  /\ pc = "sendA"
  /\ HasRoom
  /\ queue' = [queue EXCEPT !["A"] = @ + 1,
                            !["B"] = IF snap.dual /\ @ < QueueCap THEN @ + 1 ELSE @]
  /\ pc' = "snapshot"
  /\ UNCHANGED <<hw, control, mirror, gateB, snap, last, source, swept, astray, stop, asked>>

Capture ==
  \/ Snapshot \/ Configure \/ Tune \/ Record \/ Spot \/ Sweep \/ Mic
  \/ Read \/ SendBlock

Next == Command \/ Stop \/ DspA \/ DspB \/ Capture \/ TuneFails

\* DSP-B may stall for good; the source delivers blocks again and again.
Spec == Init /\ [][Next]_vars /\ WF_vars(Capture) /\ WF_vars(DspA)

-----------------------------------------------------------------------------
\* VFO B's squelch gate in control_b is the one its DSP thread decided on: the
\* clone of VFO A's state does not make it flicker.
GateOfB == mirror.gate = gateB

\* With one receiver, each turn comes to its transmissions, or to its block if it has
\* none, with the filter on the dial's band, whatever overs, sweeps and switches came
\* before.  Two overs lead the filter astray until the thread next programs one: on the
\* dial's own band in dual watch, and on it after a sweep of another band in the same
\* turn.  Each leaves the filter on a band the thread does not believe it on.
FilterFollowsDial ==
  pc = "record" /\ snap.n2adr /\ ~snap.dual /\ snap.target # 0 /\ ~astray
    => source.filter = FilterOf(snap.target)

\* "follow the receive configuration - the tuned band single-VFO"
\* (worker.rs:2192-2193), also after such an over.
FilterOnTunedBand ==
  pc = "record" /\ snap.n2adr /\ ~snap.dual /\ snap.target # 0
    => source.filter = FilterOf(snap.target)

\* "follow the receive configuration ... the highest active RX band under
\* dual-watch".
FilterPassesBoth ==
  pc = "record" /\ snap.n2adr /\ FilterForRx(snap) # None
    => source.filter = FilterForRx(snap)

\* Leaving direct sampling tunes to "the clamped value rather than a stale or
\* out-of-range one".
TunerInRange == hw = "rtl" /\ ~source.direct => source.center \in Tuner

\* "a stalled B pipeline can NEVER block VFO A": the thread comes round for ever
\* or ends, though DSP-B may stop taking blocks.
NeverBlocked == []<>(pc \in {"snapshot", "done"})

=============================================================================
