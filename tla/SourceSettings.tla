--------------------------- MODULE SourceSettings ---------------------------
(***************************************************************************)
(* The settings of the IQ source (gain, gain mode, ppm, drive, ...): the   *)
(* panel edits them, sends each edit and saves all of them for this        *)
(* operator and radio; after an acquire the saved ones are replayed.  The  *)
(* command thread stores what it is sent, the capture thread applies what  *)
(* differs from what it applied, the DSP thread publishes what is stored,  *)
(* and a change is echoed as a whole.  The sample rate is in RateSwitch,   *)
(* direct sampling in CaptureLoop, the band buttons in Dial.               *)
(***************************************************************************)
EXTENDS Naturals, Sequences, SequencesExt

CONSTANTS Gains, Others,   \* Others: a value of any setting applied by itself
          None,
          Edits, Lives     \* bounds: edits of the user, radios acquired

VARIABLES
    control,  \* SharedControlState.source_control: what was asked for
    applied,  \* applied_source_control, of the capture thread
    own,      \* gain_db of the source
    tuner,    \* the tuner: {} while it sets its own gain, or {the gain}
    status,   \* what the DSP thread last published
    fwd,      \* the forwarder: the status it last saw (None at first); fresh
    up, down, \* commands and echoes under way
    ui,       \* UiState.source_control
    saved,    \* source_control_preferences of this radio, None
    replay,   \* pending_apply_source_control
    edited,   \* the frame has edited the settings and is about to save them
    on, lives, edits,
    hasty     \* history: an edit, or its save, met an echo of something older

hardware == <<applied, own, tuner>>
server == <<control, status, fwd, hardware>>
client == <<ui, saved, replay, edited, hasty>>
vars == <<server, up, down, client, on, lives, edits>>

GainModes == {"auto", "manual"}
Settings == [mode : GainModes, gain : Gains, other : Others]
Messages == [field : {"mode"}, value : GainModes] \cup [field : {"gain"}, value : Gains]
              \cup [field : {"other"}, value : Others]

\* None is no settings, nor the value of one; a source opens with a gain of 0 and the
\* others off.
SourceAssumption ==
    /\ 0 \in Gains /\ 0 \in Others
    /\ None \notin Settings \cup GainModes \cup Gains \cup Others
    /\ Edits \in Nat /\ Lives \in Nat

\* SourceControlState::default and the source's own state as its configuration opens it.
Opened == {s \in Settings : s.other = 0 /\ (s.mode = "auto" => s.gain = 0)}

Tuner(s) == IF s.mode = "auto" THEN {} ELSE {s.gain}

\* Before the first acquire.
Init ==
    /\ control = [mode |-> "auto", gain |-> 0, other |-> 0]
    /\ applied = control /\ own = control.gain /\ tuner = Tuner(control)
    /\ status = control /\ fwd = [last |-> None, fresh |-> FALSE]
    /\ up = <<>> /\ down = <<>>
    /\ ui = control /\ saved \in {None} \cup Settings
    /\ replay = FALSE /\ edited = FALSE /\ hasty = FALSE
    /\ on = FALSE /\ lives = 0 /\ edits = 0

-----------------------------------------------------------------------------
(* The life of a radio.                                                     *)

\* The worker opens the source; the snapshot gives way to what was saved.
Acquire ==
    /\ ~on /\ down = <<>> /\ lives < Lives
    /\ on' = TRUE /\ lives' = lives + 1
    /\ \E s \in Opened :
        /\ control' = s /\ applied' = s /\ status' = s
        /\ own' = s.gain /\ tuner' = Tuner(s)
        /\ ui' = IF saved = None THEN s ELSE saved
    /\ fwd' = [last |-> None, fresh |-> FALSE]
    /\ replay' = (saved # None)
    /\ UNCHANGED <<up, down, saved, edited, edits, hasty>>

\* RadioReleased, or the worker died: commands it has not taken are lost.
Release ==
    /\ on /\ ~edited
    /\ on' = FALSE /\ up' = <<>>
    /\ UNCHANGED <<server, down, client, lives, edits>>

-----------------------------------------------------------------------------
(* The panel.                                                               *)

Message(field, value) == [field |-> field, value |-> value]

\* handle_radio_message: each message becomes a command to the worker, in their order.
Forwarded(messages) == up \o messages

\* Slip: the gain mode is left to the source.
ReplayedButMode(s) == <<Message("gain", s.gain), Message("other", s.other)>>

Replayed(s) == <<Message("mode", s.mode), Message("gain", s.gain), Message("other", s.other)>>

\* draw_source_control_panel: the saved settings, in the order of the panel.
Replay ==
    /\ on /\ replay /\ ~edited
    /\ replay' = FALSE
    /\ up' = Forwarded(Replayed(ui))
    /\ UNCHANGED <<server, down, ui, saved, edited, hasty, on, lives, edits>>

Settled == up = <<>> /\ down = <<>> /\ status = control /\ ~fwd.fresh

Edit(field, value) ==
    /\ on /\ ~replay /\ ~edited /\ edits < Edits
    /\ value # ui[field]
    /\ ui' = [ui EXCEPT ![field] = value]
    /\ up' = Forwarded(<<Message(field, value)>>)
    /\ edited' = TRUE /\ edits' = edits + 1
    /\ hasty' = (hasty \/ ~Settled)
    /\ UNCHANGED <<server, down, saved, replay, on, lives>>

EditMode == \E m \in GainModes : Edit("mode", m)

\* The slider of the gain is live in manual mode only.
EditGain == ui.mode = "manual" /\ \E g \in Gains : Edit("gain", g)

EditOther == \E o \in Others : Edit("other", o)

\* Slip: the file alone is written, and what is replayed stays as it was loaded.
SaveToFile ==
    /\ edited /\ edited' = FALSE
    /\ UNCHANGED <<server, up, down, ui, saved, replay, hasty, on, lives, edits>>

\* save_source_control_prefs_to_current_operator, the state locked for the second time.
\* The file, of which the operator's settings are read, is OperatorStore's.
Save ==
    /\ edited /\ edited' = FALSE
    /\ saved' = ui
    /\ UNCHANGED <<server, up, down, ui, replay, hasty, on, lives, edits>>

\* apply_radio_server_message: an echo is the whole of the settings.
Receive ==
    /\ down # <<>>
    /\ ui' = Head(down) /\ down' = Tail(down)
    /\ hasty' = (hasty \/ edited)
    /\ UNCHANGED <<server, up, saved, replay, edited, on, lives, edits>>

-----------------------------------------------------------------------------
(* The worker.                                                              *)

\* The command thread.
TakeCommand ==
    /\ on /\ up # <<>>
    /\ LET c == Head(up) IN control' = [control EXCEPT ![c.field] = c.value]
    /\ up' = Tail(up)
    /\ UNCHANGED <<status, fwd, hardware, down, client, on, lives, edits>>

\* Slip: set_gain_db leaves the source's own gain.
SetGainOnTuner(g) == tuner' = {g} /\ own' = own

\* set_gain_db puts the tuner in manual mode, whatever the gain mode is.
SetGain(g) == tuner' = {g} /\ own' = g

\* set_gain_mode: manual is at the source's own gain.
SetMode(m) == tuner' = (IF m = "auto" THEN {} ELSE {own}) /\ own' = own

\* Where both changed the mode comes first, so the gain decides.
Capture ==
    /\ on
    /\ \E ok \in SUBSET {f \in DOMAIN control : control[f] # applied[f]} \ {{}} :
        /\ applied' = [f \in DOMAIN control |-> IF f \in ok THEN control[f] ELSE applied[f]]
        /\ \/ "gain" \in ok /\ SetGain(control.gain)
           \/ "gain" \notin ok /\ "mode" \in ok /\ SetMode(control.mode)
           \/ ok = {"other"} /\ UNCHANGED <<tuner, own>>
    /\ UNCHANGED <<control, status, fwd, up, down, client, on, lives, edits>>

\* The DSP thread: it publishes what was asked for, applied or not, and the meters (their
\* updates matter to the forwarder as its first only).
Publish ==
    /\ on /\ (status # control \/ fwd.last = None)
    /\ status' = control /\ fwd' = [fwd EXCEPT !.fresh = TRUE]
    /\ UNCHANGED <<control, hardware, up, down, client, on, lives, edits>>

\* The forwarder: the first status is remembered only.
Forward ==
    /\ on /\ fwd.fresh
    /\ fwd' = [last |-> status, fresh |-> FALSE]
    /\ down' = IF fwd.last \in {None, status} THEN down ELSE Append(down, status)
    /\ UNCHANGED <<control, status, hardware, up, client, on, lives, edits>>

Next ==
    \/ Acquire \/ Release
    \/ Replay \/ EditMode \/ EditGain \/ EditOther \/ Save \/ Receive
    \/ TakeCommand \/ Capture \/ Publish \/ Forward

Spec == Init /\ [][Next]_vars

-----------------------------------------------------------------------------
(* Every variable holds a value of its kind.                                *)
TypeOK ==
    /\ {control, applied, status, ui} \subseteq Settings
    /\ own \in Gains /\ tuner \subseteq Gains
    /\ fwd.last \in Settings \cup {None} /\ fwd.fresh \in BOOLEAN
    /\ up \in Seq(Messages)
    /\ down \in Seq(Settings)
    /\ saved \in Settings \cup {None}
    /\ {replay, edited, on, hasty} \subseteq BOOLEAN

Rest == on /\ Settled /\ applied = control /\ ~replay /\ ~edited

(* Once everything sent has arrived and been applied, the panel shows what   *)
(* the worker was asked for, whatever echoes overtook the edits; what the    *)
(* next acquire replays is the same, unless an older echo came between an    *)
(* edit and its save (Receive, Save); and in manual mode the tuner has the   *)
(* gain that was applied, however the two settings were interleaved.         *)
SourceAsShown ==
    /\ Rest => ui = control /\ (hasty \/ saved \in {None, ui})
    /\ applied.mode = "manual" => tuner = {applied.gain}

(* "Apply saved source-control preferences to hardware after a radio acquire *)
(* if persisted settings were found" (panels/source_control.rs:19): settings *)
(* saved in automatic mode after a manual gain put the tuner in manual mode. *)
GainAsShown == Rest => tuner = Tuner(ui)

(* save_source_control_prefs_to_current_operator (ui/app_actions.rs:56): what*)
(* is saved is what the radio was set to.  An echo of an earlier edit can    *)
(* overwrite a later one just before it is saved.                            *)
SavedAsSet == Rest => saved \in {None, ui}
=============================================================================
