---------------------------- MODULE SettingsSync ----------------------------
(***************************************************************************)
(* How the receiver settings of an acquired radio are kept the same on     *)
(* both sides: the panel of the client edits UiState and sends a command   *)
(* for it (rigflow-client/src/ui/panels/radio_control.rs), the worker's    *)
(* command thread applies it and the DSP thread publishes what it applied  *)
(* (rigflow-server/src/radio/worker.rs), a forwarder sends the differences *)
(* (net/websocket.rs) and the client's network task writes them back into  *)
(* UiState (rigflow-client/src/net/websocket.rs), while a frame is drawn.  *)
(*                                                                         *)
(* The demodulator mode stands for the settings that travel both ways, the *)
(* filter for those the client sends again with every mode, the pitch for  *)
(* those the worker files under its own mode, tele for the telemetry of    *)
(* the worker.  The preference a mode has is named after the mode.         *)
(***************************************************************************)
EXTENDS Naturals, Sequences

CONSTANTS
    Modes,
    PitchModes,     \* those with a pitch of their own
    None,
    Clicks          \* bound: modes the user chooses

Statuses == [mode : Modes, filter : Modes \union {None}, tele : {0, 1}]
Commands == [kind : {"filter", "pitch", "mode"}, mode : Modes]
Messages == [kind : {"acquired"}] \union [kind : {"snapshot"}, of : Statuses]
              \union [kind : {"changed"}, mode : Modes \union {None}, tele : {0, 1, None}]

\* None is neither a mode nor a status.
SyncAssumption == None \notin Modes \union Statuses /\ Clicks \in Nat

VARIABLES
    ctl,        \* SharedControlState: [mode, filter, pitch, tele]
    status,     \* the watch channel: None while Starting, or [mode, filter, tele]
    fwd,        \* the acquire handler and its forwarder: [at, last, fresh]
    up, down,   \* commands and server messages under way
    ui,         \* UiState: [acq, mode, tele, pend, replay, seen]
    bundle,     \* the mode saved for this radio, None
    frame,      \* the snapshot the frame being drawn was taken from, None
    asked,      \* history: the mode last clicked since the snapshot, None
    clicks      \* modes chosen so far

server == <<ctl, status, fwd>>
user == <<bundle, asked, clicks>>
vars == <<server, up, down, ui, frame, user>>

Runtime == [mode |-> ctl.mode, filter |-> ctl.filter, tele |-> ctl.tele]
Cmd(kind, m) == [kind |-> kind, mode |-> m]

\* AcquireRadio has been sent: the worker starts with the modes of its configuration,
\* the client shows what it showed last and has controls applied for that mode.
Init ==
    /\ \E m \in Modes : ctl = [mode |-> m, filter |-> None, tele |-> 0,
                               pitch |-> [p \in PitchModes |-> None]]
    /\ status = None
    /\ fwd = [at |-> "starting", last |-> None, fresh |-> FALSE]
    /\ up = <<>> /\ down = <<>>
    /\ \E m \in Modes : ui = [acq |-> FALSE, mode |-> m, tele |-> 0,
                              pend |-> FALSE, replay |-> FALSE, seen |-> m]
    /\ bundle \in Modes \union {None}
    /\ frame = None
    /\ asked = None /\ clicks = 0

(***************************************************************************)
(* The worker.                                                             *)
(***************************************************************************)

\* run_iq_worker_threads: Ready first, which lets the acquire handler go on, then the
\* first Running status.
WorkerReady ==
    /\ fwd.at = "starting"
    /\ fwd' = [fwd EXCEPT !.at = "ready"]
    /\ UNCHANGED <<ctl, status, up, down, ui, frame, user>>

FirstStatus ==
    /\ fwd.at # "starting" /\ status = None
    /\ status' = Runtime
    /\ fwd' = [fwd EXCEPT !.fresh = TRUE]
    /\ UNCHANGED <<ctl, up, down, ui, frame, user>>

\* spawn_command_thread: one command; a pitch goes to the mode the worker is in.
TakeCommand ==
    /\ up # <<>> /\ status # None
    /\ up' = Tail(up)
    /\ LET c == Head(up) IN
        ctl' = CASE c.kind = "filter" -> [ctl EXCEPT !.filter = c.mode]
                 [] c.kind = "mode" -> [ctl EXCEPT !.mode = c.mode]
                 [] c.kind = "pitch" /\ ctl.mode \in PitchModes ->
                        [ctl EXCEPT !.pitch[ctl.mode] = c.mode]
                 [] OTHER -> ctl
    /\ UNCHANGED <<status, fwd, down, ui, frame, user>>

\* Telemetry of the source or the amplifier.
Telemetry ==
    /\ status # None /\ ctl.tele = 0
    /\ ctl' = [ctl EXCEPT !.tele = 1]
    /\ UNCHANGED <<status, fwd, up, down, ui, frame, user>>

\* spawn_dsp_thread: what differs from the applied control is applied and published.
Publish ==
    /\ status # None /\ status # Runtime
    /\ status' = Runtime
    /\ fwd' = [fwd EXCEPT !.fresh = TRUE]
    /\ UNCHANGED <<ctl, up, down, ui, frame, user>>

(***************************************************************************)
(* The acquire handler and its forwarder.                                  *)
(***************************************************************************)

Snapshot == [kind |-> "snapshot", of |-> status]

\* RadioAcquired, and the snapshot, if the worker has published one.
SendSnapshot ==
    /\ fwd.at = "ready"
    /\ fwd' = [fwd EXCEPT !.at = "forwarding"]
    /\ down' = Append(down, [kind |-> "acquired"]) \o
                   IF status = None THEN <<>> ELSE <<Snapshot>>
    /\ UNCHANGED <<ctl, status, up, ui, frame, user>>

Changed(old, new) ==
    [kind |-> "changed",
     mode |-> IF new.mode = old.mode THEN None ELSE new.mode,
     tele |-> IF new.tele = old.tele THEN None ELSE new.tele]

\* Slip: updates are compared with the first one.
ForwardFromFirst ==
    /\ fwd.at = "forwarding" /\ fwd.fresh
    /\ fwd' = [fwd EXCEPT !.last = IF @ = None THEN status ELSE @, !.fresh = FALSE]
    /\ down' = IF fwd.last \in {None, status} THEN down
               ELSE Append(down, Changed(fwd.last, status))
    /\ UNCHANGED <<ctl, status, up, ui, frame, user>>

\* The latest status: the first is remembered only, of the others the difference is sent.
Forward ==
    /\ fwd.at = "forwarding" /\ fwd.fresh
    /\ fwd' = [fwd EXCEPT !.last = status, !.fresh = FALSE]
    /\ down' = IF fwd.last \in {None, status} THEN down
               ELSE Append(down, Changed(fwd.last, status))
    /\ UNCHANGED <<ctl, status, up, ui, frame, user>>

(***************************************************************************)
(* The client.                                                             *)
(***************************************************************************)

\* Slip: an echo does not touch the controls.
ApplyChangedOnly(m) ==
    /\ ui' = [ui EXCEPT !.mode = IF m.mode = None THEN @ ELSE m.mode,
                        !.tele = IF m.tele = None THEN @ ELSE m.tele,
                        !.seen = IF m.mode = None THEN @ ELSE m.mode]
    /\ UNCHANGED asked

\* RuntimeChanged: a mode that is new to the client has its controls applied.
ApplyChanged(m) ==
    /\ ui' = [ui EXCEPT !.mode = IF m.mode = None THEN @ ELSE m.mode,
                        !.tele = IF m.tele = None THEN @ ELSE m.tele,
                        !.pend = @ \/ m.mode \notin {None, ui.mode}]
    /\ UNCHANGED asked

\* RuntimeSnapshot: the values of the server, then those saved for the radio.
ApplySnapshot(m) ==
    /\ ui' = [ui EXCEPT !.mode = IF bundle = None THEN m.of.mode ELSE bundle,
                        !.tele = m.of.tele,
                        !.pend = TRUE,
                        !.replay = @ \/ bundle # None,
                        !.seen = IF bundle = None THEN @ ELSE None]
    /\ asked' = None

\* apply_radio_server_message.
Receive ==
    /\ down # <<>>
    /\ down' = Tail(down)
    /\ LET m == Head(down) IN
        \/ m.kind = "acquired" /\ ui' = [ui EXCEPT !.acq = TRUE, !.pend = TRUE]
           /\ UNCHANGED asked
        \/ m.kind = "snapshot" /\ ApplySnapshot(m)
        \/ m.kind = "changed" /\ ApplyChanged(m)
    /\ UNCHANGED <<server, up, frame, bundle, clicks>>

\* RigflowApp::update: the frame works on a snapshot of UiState.
BeginFrame ==
    /\ frame = None /\ ui.acq
    /\ frame' = ui.mode
    /\ UNCHANGED <<server, up, down, ui, user>>

\* The controls of a mode (apply_mode_preferences and the messages after it).
ModeControls(m) ==
    <<Cmd("filter", m)>> \o IF m \in PitchModes THEN <<Cmd("pitch", m)>> ELSE <<>>

\* draw_radio_control_panel and, behind it, draw_demod_selector: c is the mode the
\* selector shows after the frame.
DrawPanel(c) ==
    /\ frame # None
    /\ frame' = None
    /\ LET apply == ui.pend \/ ui.seen # frame
           clicked == c # frame
       IN
        /\ clicked => clicks < Clicks
        /\ up' = up \o (IF apply THEN ModeControls(frame) ELSE <<>>)
                    \o (IF ui.replay THEN <<Cmd("mode", frame)>> ELSE <<>>)
                    \o (IF clicked THEN <<Cmd("mode", c)>> ELSE <<>>)
        /\ ui' = [ui EXCEPT !.pend = FALSE, !.replay = FALSE,
                            !.seen = IF apply THEN frame ELSE @,
                            !.mode = IF clicked THEN c ELSE @]
        /\ asked' = IF clicked THEN c ELSE asked
        /\ clicks' = IF clicked THEN clicks + 1 ELSE clicks
    /\ UNCHANGED <<server, down, bundle>>

Next ==
    \/ WorkerReady \/ FirstStatus \/ TakeCommand \/ Telemetry \/ Publish
    \/ SendSnapshot \/ Forward
    \/ Receive \/ BeginFrame
    \/ \E c \in Modes : DrawPanel(c)

Spec == Init /\ [][Next]_vars

(***************************************************************************)
(* Properties.                                                             *)
(***************************************************************************)

\* Every variable has its type; a worker that has not published takes no command.
TypeOK ==
    /\ ctl \in [mode : Modes, filter : Modes \union {None}, tele : {0, 1},
                pitch : [PitchModes -> Modes \union {None}]]
    /\ status \in Statuses \union {None}
    /\ fwd \in [at : {"starting", "ready", "forwarding"}, last : Statuses \union {None},
                fresh : BOOLEAN]
    /\ up \in Seq(Commands) /\ down \in Seq(Messages)
    /\ ui \in [acq : BOOLEAN, mode : Modes, tele : {0, 1}, pend : BOOLEAN, replay : BOOLEAN,
               seen : Modes \union {None}]
    /\ bundle \in Modes \union {None} /\ frame \in Modes \union {None}
    /\ asked \in Modes \union {None} /\ clicks \in 0..Clicks
    /\ ctl.filter # None => status # None

\* Nothing is under way any more, and the panel has drawn what it had to.
Quiet ==
    /\ fwd.at = "forwarding" /\ status = Runtime /\ ~fwd.fresh
    /\ up = <<>> /\ down = <<>>
    /\ ui.acq /\ ~ui.pend /\ ~ui.replay /\ ui.seen = ui.mode /\ frame = None

\* The last mode the user chose is the one both sides end up with, together with the
\* controls of that mode: no echo of an earlier choice, however late, undoes it.
LastClickWins ==
    Quiet /\ asked # None =>
        /\ ctl.mode = asked /\ ui.mode = asked
        /\ ctl.filter = asked
        /\ asked \in PitchModes => ctl.pitch[asked] = asked

\* The filter of the worker is always in the end the one saved for the mode shown.
FilterFollowsMode == Quiet => ctl.filter = ui.mode

\* What was saved for the radio is replayed to the worker on acquire (websocket.rs
\* 718-722), its pitch with the rest.
PitchReplayed ==
    Quiet /\ bundle # None /\ asked = None /\ ctl.mode = ui.mode /\ ui.mode \in PitchModes =>
        ctl.pitch[ui.mode] = ui.mode

\* The mode shown is the mode of the worker.
ModesAgree == Quiet => ctl.mode = ui.mode

\* The first update is left out because it repeats the snapshot ("don't send duplicate
\* full change"): the client knows all the worker published.
TelemetryArrives == Quiet => ui.tele = ctl.tele
=============================================================================
