----------------------------- MODULE VfoControls -----------------------------
(***************************************************************************)
(* The settings of the two VFOs: frequency, mode, pitch, DSP switches, RIT *)
(* of each, and the split, TX VFO, XIT and dual watch they share.  Every   *)
(* control of the client edits its own state at once and sends commands    *)
(* for it; the worker applies them one by one, while its transmit path     *)
(* reads the result; what changed is echoed.  One sequence of commands is  *)
(* one gesture.  What the panel does with a mode of VFO A frame by frame   *)
(* is in SettingsSync, the dial of a VFO in Dial.                          *)
(***************************************************************************)
EXTENDS Naturals, Sequences

CONSTANTS Freqs, Pitches,
          Clicks         \* bound on the gestures of the user and of CAT programs

Modes == {"usb", "cw"}

VARIABLES server,  \* SharedControlState: the VFOs and VfoSplitState
          ui,      \* the same in UiState; the pitches of A are demod_preferences
          active,  \* active_control_vfo: the VFO the receive controls are for
          pend,    \* the controls of the mode of A are to be applied
          up,      \* gestures under way, each a sequence of commands
          before,  \* the server before the first of them
          last,    \* the status last forwarded
          down,    \* echoes under way
          hasty,   \* history: a control was used that reads what an echo may change
          copied,  \* history: A was copied to B
          clicks

local == <<ui, active, pend>>
remote == <<server, before, last, down>>
vars == <<local, remote, up, hasty, copied, clicks>>

Receivers == [freq : Freqs, mode : Modes, ssb : Pitches, cw : Pitches,
              dsp : BOOLEAN, nb : BOOLEAN, rit : BOOLEAN]
Shared == [split : BOOLEAN, tx : {"a", "b"}, xit : BOOLEAN, dw : BOOLEAN]
\* The pitches a mode starts with are among them.
VfoAssumption == {1, 2} \subseteq Pitches /\ Clicks \in Nat

States == [a : Receivers, b : Receivers, vfo : Shared]

\* The settings RuntimeChanged carries: of A not the pitches, of both not the blanker.
Echoed == ({"a"} \X {"freq", "mode", "dsp", "rit"})
            \cup ({"b"} \X {"freq", "mode", "ssb", "cw", "dsp", "rit"})
            \cup ({"vfo"} \X DOMAIN server.vfo)

Slot(mode) == IF mode = "cw" THEN "cw" ELSE "ssb"
Pitch(rx) == rx[Slot(rx.mode)]

\* Acquired and settled, with some frequencies and some split; the rest as it starts.
Init ==
    /\ \E fa \in Freqs, fb \in Freqs, split \in BOOLEAN, tx \in {"a", "b"}, dw \in BOOLEAN :
        LET rx(f) == [freq |-> f, mode |-> "usb", ssb |-> 1, cw |-> 2,
                      dsp |-> FALSE, nb |-> FALSE, rit |-> FALSE]
        IN server = [a |-> rx(fa), b |-> rx(fb),
                     vfo |-> [split |-> split, tx |-> tx, xit |-> FALSE, dw |-> dw]]
    /\ ui = server /\ before = server /\ last = server
    /\ active = "a" /\ pend = FALSE
    /\ up = <<>> /\ down = <<>>
    /\ hasty = FALSE /\ copied = FALSE /\ clicks = 0

-----------------------------------------------------------------------------
(* One command: to a VFO or to the settings they share.                     *)

Set(to, field, value) == [to |-> to, field |-> field, value |-> value]
SetShared(field, value) == Set("vfo", field, value)

\* Slip: the RIT of A is left out.
CopiedButRit(s) == [s EXCEPT !.b = [s.a EXCEPT !.rit = s.b.rit]]

\* vfo_a_state, apply_vfo_b_state.
Copied(s) == [s EXCEPT !.b = s.a]

\* The command thread: a pitch goes to the slot of the mode the VFO is in.
Apply(s, c) ==
    CASE c.field = "copy" -> Copied(s)
      [] c.field = "pitch" -> [s EXCEPT ![c.to][Slot(s[c.to].mode)] = c.value]
      [] OTHER -> [s EXCEPT ![c.to][c.field] = c.value]

\* A gesture is one command, or two.
Applied(s, commands) ==
    IF Len(commands) = 1 THEN Apply(s, commands[1])
    ELSE Apply(Apply(s, commands[1]), commands[2])

-----------------------------------------------------------------------------
(* The client.                                                              *)

Settled == up = <<>> /\ down = <<>> /\ last = server /\ ~pend

\* handle_radio_message: each message becomes a command to the worker, in their order.
Forwarded(commands) == Append(up, commands)

Send(commands) ==
    /\ clicks < Clicks /\ clicks' = clicks + 1
    /\ up' = Forwarded(commands)
    /\ UNCHANGED <<remote, active>>

\* A control does to the settings shown what its commands will do to the server's.
Gesture(commands) ==
    /\ Send(commands)
    /\ ui' = Applied(ui, commands)
    /\ UNCHANGED <<pend, hasty, copied>>

\* The frequency fields of the panel (their LO follows: Dial).
Tune(v) == \E f \in Freqs \ {ui[v].freq} : Gesture(<<Set(v, "freq", f)>>)

ModeA == /\ \E m \in Modes \ {ui.a.mode} :
              /\ ui' = Applied(ui, <<Set("a", "mode", m)>>)
              /\ Send(<<Set("a", "mode", m)>>)
         /\ pend' = TRUE
         /\ UNCHANGED <<hasty, copied>>

\* A band button: the frequency and the mode the band had, or its defaults.
Band == \E f \in Freqs \ {ui.a.freq}, m \in Modes :
          LET commands == <<Set("a", "freq", f), Set("a", "mode", m)>> IN
          /\ ui' = Applied(ui, commands)
          /\ Send(commands)
          /\ pend' = (pend \/ m # ui.a.mode)
          /\ UNCHANGED <<hasty, copied>>

\* rigctl and TCI programs tune A and set its mode, in the same two ways.
Cat == Tune("a") \/ ModeA

\* The next frame of the panel: apply_mode_preferences.
ApplyModeControls ==
    /\ pend
    /\ pend' = FALSE
    /\ up' = Forwarded(<<Set("a", "pitch", Pitch(ui.a))>>)
    /\ UNCHANGED <<remote, ui, active, hasty, copied, clicks>>

\* The mode of B: in the panel of the VFOs, and in the selector, with the pitch it has for A.
ModeB == \E m \in Modes \ {ui.b.mode} : Gesture(<<Set("b", "mode", m)>>)

SelectModeB ==
    /\ ui.vfo.dw /\ active = "b"
    /\ \E m \in Modes \ {ui.b.mode} :
         Gesture(<<Set("b", "mode", m), Set("b", "pitch", ui.a[Slot(m)])>>)

ActiveVfo == /\ ui.vfo.dw
             /\ \E v \in {"a", "b"} \ {active} : active' = v
             /\ UNCHANGED <<remote, ui, pend, up, hasty, copied, clicks>>

\* The controls of the receive section are those of the active VFO under dual watch.
Target == IF ui.vfo.dw THEN active ELSE "a"

PitchRow == /\ \E p \in Pitches \ {Pitch(ui[Target])} :
                 /\ ui' = Applied(ui, <<Set(Target, "pitch", p)>>)
                 /\ Send(<<Set(Target, "pitch", p)>>)
            /\ hasty' = (hasty \/ ~Settled)
            /\ UNCHANGED <<pend, copied>>

DspRow == Gesture(<<Set(Target, "dsp", ~ui[Target].dsp)>>)
BlankerRow == Gesture(<<Set(Target, "nb", ~ui[Target].nb)>>)

OffsetRow == \/ Gesture(<<Set("a", "rit", ~ui.a.rit)>>)
             \/ ui.vfo.dw /\ Gesture(<<Set("b", "rit", ~ui.b.rit)>>)
             \/ Gesture(<<SetShared("xit", ~ui.vfo.xit)>>)

Split == Gesture(<<SetShared("split", ~ui.vfo.split)>>)
TxVfo == ui.vfo.split /\ \E v \in {"a", "b"} : Gesture(<<SetShared("tx", v)>>)
DualWatch == Gesture(<<SetShared("dw", ~ui.vfo.dw)>>)

\* copy_a_to_b: of the pitches the client has only that of the mode it shows.
CopyAToB == /\ Send(<<Set("b", "copy", "a")>>) /\ UNCHANGED pend
            /\ ui' = [ui EXCEPT !.b = [ui.a EXCEPT !.ssb = Pitch(ui.a), !.cw = Pitch(ui.a)]]
            /\ hasty' = (hasty \/ ~Settled) /\ copied' = TRUE

\* Slip: the split is on before the TX VFO is the other one.
SplitFirst(v) == <<SetShared("split", TRUE), SetShared("tx", v)>>

SwapCommands(v) == <<SetShared("tx", v), SetShared("split", TRUE)>>

SwapTx == Gesture(SwapCommands(IF ui.vfo.tx = "a" THEN "b" ELSE "a"))

-----------------------------------------------------------------------------
(* The server, and the echo.                                                *)

Serve ==
    /\ up # <<>>
    /\ server' = Apply(server, Head(Head(up)))
    /\ LET rest == Tail(Head(up)) IN
        IF rest = <<>> THEN up' = Tail(up) /\ before' = server'
        ELSE up' = <<rest>> \o Tail(up) /\ UNCHANGED before
    /\ UNCHANGED <<local, last, down, hasty, copied, clicks>>

\* spawn_dsp_thread publishes, the forwarder sends what differs from its last status.
Publish ==
    /\ last # server
    /\ last' = server
    /\ LET changed == {p \in Echoed : server[p[1]][p[2]] # last[p[1]][p[2]]} IN
        down' = IF changed = {} THEN down
                ELSE Append(down, [p \in changed |-> server[p[1]][p[2]]])
    /\ UNCHANGED <<local, server, up, before, hasty, copied, clicks>>

Merged(s, echo) ==
    [to \in DOMAIN s |-> [field \in DOMAIN s[to] |->
        IF <<to, field>> \in DOMAIN echo THEN echo[<<to, field>>] ELSE s[to][field]]]

Receive ==
    /\ down # <<>>
    /\ ui' = Merged(ui, Head(down))
    /\ pend' = (pend \/ ui'.a.mode # ui.a.mode)
    /\ down' = Tail(down)
    /\ UNCHANGED <<server, active, up, before, last, hasty, copied, clicks>>

Next ==
    \/ \E v \in {"a", "b"} : Tune(v)
    \/ Cat \/ ModeA \/ Band \/ ApplyModeControls \/ ModeB \/ SelectModeB \/ ActiveVfo
    \/ PitchRow \/ DspRow \/ BlankerRow \/ OffsetRow
    \/ Split \/ TxVfo \/ DualWatch \/ CopyAToB \/ SwapTx
    \/ Serve \/ Publish \/ Receive

Spec == Init /\ [][Next]_vars

-----------------------------------------------------------------------------
(* Properties.                                                              *)

\* Every variable has its type.
TypeOK ==
    /\ {server, ui, before, last} \subseteq States
    /\ active \in {"a", "b"} /\ {pend, hasty, copied} \subseteq BOOLEAN
    /\ clicks \in 0..Clicks

\* effective_tx_freq_hz, effective_tx_demod_mode; the client logs a contact by the same rule.
TxVfoOf(s) == IF s.vfo.split THEN s.vfo.tx ELSE "a"
TxFreq(s) == <<s[TxVfoOf(s)].freq, s.vfo.xit>>

BothPitches(rx) == <<rx.ssb, rx.cw>>
ButPitches(rx) == [f \in DOMAIN rx \ {"ssb", "cw"} |-> rx[f]]

\* Once nothing is under way the client shows, and so logs, what the server transmits
\* and receives with, also the settings of B no echo confirms; the pitches of B as long
\* as A was not copied to it.
VfosAsShown ==
    Settled /\ ~hasty =>
        /\ ui.vfo = server.vfo
        /\ \A v \in {"a", "b"} : ButPitches(ui[v]) = ButPitches(server[v])
        /\ ~copied => BothPitches(ui.b) = BothPitches(server.b)

\* The transmit path runs between any two commands of a gesture: it never sees a
\* frequency that is neither the one before the gesture nor the one after it.
TxWhole ==
    TxFreq(server) \in {TxFreq(before)} \cup
        (IF up = <<>> THEN {} ELSE {TxFreq(Applied(server, Head(up)))})

\* "the server echo via RuntimeChanged then confirms it" (vfo.rs:8): however B was copied.
EchoConfirms == Settled => ui.b.freq = server.b.freq

\* "clone VFO A's entire receiver state onto VFO B" (vfo.rs:397): its pitches too.
PitchAsShown == Settled /\ ~hasty => BothPitches(ui.b) = BothPitches(server.b)
=============================================================================
