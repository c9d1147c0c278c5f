------------------------------ MODULE PttOwners ------------------------------
(***************************************************************************)
(* Who keys the transmitter, on the client: the Space bar (one frame of    *)
(* the UI at a time), the voice keyer's playback thread, the text-to-CW    *)
(* thread, and the programs on rigctl and TCI connections, each of which   *)
(* runs on its own and may end at any time.  They share the mic-TX ring    *)
(* flags (MicShared), cat_ptt and one queue of key messages; the queue is  *)
(* FIFO, so the last message sent is the state the server gets.            *)
(***************************************************************************)
EXTENDS Naturals, FiniteSets

CONSTANTS Rigctls, Tcis,   \* connections that may be open at once
          OwnerSets        \* the sets of owners an operator uses

Programs == Rigctls \cup Tcis

\* A connection is of one kind, and none of the owners in the client.
PttAssumption == Rigctls \cap Tcis = {} /\ Programs \cap {"nobody", "space", "clip"} = {}

VARIABLES owners,  \* those in use
          ui,      \* window focus, Space as the finger and as egui sees it,
                   \* the focus latch, ssb_ptt_down and cw_key_down
          radio,   \* acquired, and whether the TX mode is SSB or CW
          keyer,   \* voice keyer: playing, abort, step of its thread
          text,    \* text-to-CW: sending, abort, keyed
          cat,     \* cat_ptt, DigitalTxInput.active, TCI tx_active
          conns,   \* a connection: open, what it asked last, where its set_ptt is
          mic,     \* tx_streaming, external_tx_source
          keyed    \* what the last key messages asked of the server: who had it
                   \* key the microphone, and how that one may have been lost

vars == <<owners, ui, radio, keyer, text, cat, conns, mic, keyed>>

\* Every variable has its type.
TypeOK ==
  /\ owners \in OwnerSets
  /\ ui \in [focused : BOOLEAN, held : BOOLEAN, down : BOOLEAN, pressed : BOOLEAN,
             needsFresh : BOOLEAN, ssb : BOOLEAN, cw : BOOLEAN]
  /\ radio \in [acquired : BOOLEAN, mode : {"ssb", "cw"}]
  /\ keyer \in [playing : BOOLEAN, abort : BOOLEAN,
                step : {"idle", "feed", "streaming", "external", "done"}]
  /\ text \in [sending : BOOLEAN, abort : BOOLEAN, keyed : BOOLEAN]
  /\ cat \in [ptt : BOOLEAN, digital : BOOLEAN, tci : BOOLEAN]
  /\ conns \in [Programs -> [open : BOOLEAN, wants : BOOLEAN,
                             step : {"idle", "route", "send"}]]
  /\ mic \in [streaming : BOOLEAN, external : BOOLEAN]
  /\ keyed \in [mic : {"nobody", "space", "clip"} \cup Programs, cw : BOOLEAN,
                lapse : {"none", "left", "raced"}]

Init ==
  /\ owners \in OwnerSets
  /\ ui = [focused |-> TRUE, held |-> FALSE, down |-> FALSE, pressed |-> FALSE,
           needsFresh |-> FALSE, ssb |-> FALSE, cw |-> FALSE]
  /\ radio \in [acquired : {FALSE}, mode : {"ssb", "cw"}]
  /\ keyer = [playing |-> FALSE, abort |-> FALSE, step |-> "idle"]
  /\ text = [sending |-> FALSE, abort |-> FALSE, keyed |-> FALSE]
  /\ cat = [ptt |-> FALSE, digital |-> FALSE, tci |-> FALSE]
  /\ conns = [c \in Programs |-> [open |-> FALSE, wants |-> FALSE, step |-> "idle"]]
  /\ mic = [streaming |-> FALSE, external |-> FALSE]
  /\ keyed = [mic |-> "nobody", cw |-> FALSE, lapse |-> "none"]

\* A StartMicTx / StartCwKey reaches a worker only while a radio is held.
Asked(on) == on /\ radio.acquired

MicDown(who, lapse) == IF radio.acquired
                       THEN [keyed EXCEPT !.mic = who, !.lapse = lapse]
                       ELSE [keyed EXCEPT !.mic = "nobody", !.lapse = "none"]
MicUp == [keyed EXCEPT !.mic = "nobody", !.lapse = "none"]

-----------------------------------------------------------------------------
(* The keyboard and the window.  egui keeps a key down over a blur, and sees
   a press (or its auto-repeat) only while the window has the focus.          *)

Press == /\ "space" \in owners
         /\ ~ui.held \/ ui.focused          \* a held key repeats
         /\ ui' = [ui EXCEPT !.held = TRUE, !.down = @ \/ ui.focused,
                             !.pressed = @ \/ ui.focused]
         /\ UNCHANGED <<owners, radio, keyer, text, cat, conns, mic, keyed>>

LetGo == /\ ui.held
         /\ ui' = [ui EXCEPT !.held = FALSE, !.down = @ /\ ~ui.focused]
         /\ UNCHANGED <<owners, radio, keyer, text, cat, conns, mic, keyed>>

\* The UI repaints all the time: a frame falls within every loss of focus.
Focus == /\ ~ui.focused => ui.needsFresh /\ ~ui.pressed
         /\ ui' = [ui EXCEPT !.focused = ~@]
         /\ UNCHANGED <<owners, radio, keyer, text, cat, conns, mic, keyed>>

-----------------------------------------------------------------------------
(* One frame: update_ptt_focus_latch, handle_cw_keying, enforce_keyer_safety,
   handle_ssb_ptt, then the panels' clicks, all from one snapshot.            *)

\* Slip: the latch is forgotten when the focus comes back.
LatchOnlyWhileBlurred == ~ui.focused

Latched == IF ~ui.focused THEN TRUE
           ELSE IF ui.pressed THEN FALSE ELSE ui.needsFresh

SpaceHeld(typing) == ui.focused /\ ~typing /\ ~Latched /\ ui.down

\* trigger_voice_keyer: the flags it refuses on come from the snapshot.
MayPlay == /\ ~keyer.playing /\ ~ui.ssb /\ ~ui.cw
           /\ radio.acquired /\ radio.mode = "ssb"

Frame(typing, click) ==
  LET space == SpaceHeld(typing)
      wantKey == space /\ radio.acquired /\ radio.mode = "cw"
      wantTx == space /\ radio.acquired /\ radio.mode = "ssb" /\ ~keyer.playing
      play == click = "play" /\ MayPlay
      send == click = "send" /\ radio.mode = "cw" /\ ~text.sending
  IN
  /\ ui' = [ui EXCEPT !.needsFresh = Latched, !.pressed = FALSE,
                      !.ssb = wantTx, !.cw = wantKey]
  /\ keyer' = IF play THEN [playing |-> TRUE, abort |-> FALSE, step |-> "feed"]
              ELSE [keyer EXCEPT !.abort =
                      @ \/ (keyer.playing /\ (space \/ ~radio.acquired \/ radio.mode # "ssb"))]
  /\ text' = IF send THEN [sending |-> TRUE, abort |-> FALSE, keyed |-> FALSE]
             ELSE [text EXCEPT !.abort = @ \/ (click = "stop" /\ text.sending)]
  /\ mic' = IF play THEN [streaming |-> TRUE, external |-> TRUE]
            ELSE IF wantTx # ui.ssb THEN [mic EXCEPT !.streaming = wantTx] ELSE mic
  /\ keyed' = [IF play THEN MicDown("clip", "none")
               ELSE IF wantTx = ui.ssb THEN keyed
               ELSE IF wantTx THEN MicDown("space", "none") ELSE MicUp
               EXCEPT !.cw = IF wantKey # ui.cw THEN Asked(wantKey) ELSE @]
  /\ UNCHANGED <<owners, radio, cat, conns>>

UiFrame == \E typing \in BOOLEAN, click \in {"none", "play", "send", "stop"} :
             /\ click = "play" => "clip" \in owners
             /\ click = "send" => "text" \in owners
             /\ Frame(typing, click)

-----------------------------------------------------------------------------
(* The voice keyer's thread: feed the clip until its end or an abort, then the
   guard's drop: StopMicTx, tx_streaming off, external off, playing off.      *)

\* Slip: only a clip played to its end un-keys.
GuardSparesAborts == keyed' = IF keyer.abort THEN keyed ELSE MicUp

GuardStops == keyed' = MicUp

KeyerStops == /\ keyer.step = "feed"
              /\ GuardStops
              /\ keyer' = [keyer EXCEPT !.step = "streaming"]
              /\ UNCHANGED <<owners, ui, radio, text, cat, conns, mic>>

KeyerClears ==
  /\ \/ /\ keyer.step = "streaming"
        /\ mic' = [mic EXCEPT !.streaming = FALSE]
        /\ keyer' = [keyer EXCEPT !.step = "external"]
     \/ /\ keyer.step = "external"
        /\ mic' = [mic EXCEPT !.external = FALSE]
        /\ keyer' = [keyer EXCEPT !.step = "done"]
     \/ /\ keyer.step = "done"
        /\ mic' = mic
        /\ keyer' = [keyer EXCEPT !.step = "idle", !.playing = FALSE]
  /\ UNCHANGED <<owners, ui, radio, text, cat, conns, keyed>>

(* The text-to-CW thread: key down and up for each element, up once more when
   aborted in the middle of one.                                              *)

TextDown == /\ text.sending /\ ~text.keyed /\ ~text.abort
            /\ text' = [text EXCEPT !.keyed = TRUE]
            /\ keyed' = [keyed EXCEPT !.cw = Asked(TRUE)]
            /\ UNCHANGED <<owners, ui, radio, keyer, cat, conns, mic>>

TextUp == /\ text.sending /\ text.keyed
          /\ text' = [text EXCEPT !.keyed = FALSE]
          /\ keyed' = [keyed EXCEPT !.cw = FALSE]
          /\ UNCHANGED <<owners, ui, radio, keyer, cat, conns, mic>>

TextEnds == /\ text.sending /\ ~text.keyed
            /\ text' = [text EXCEPT !.sending = FALSE]
            /\ UNCHANGED <<owners, ui, radio, keyer, cat, conns, mic, keyed>>

-----------------------------------------------------------------------------
(* The programs: `T 1' and `T 0' on a rigctl connection, `trx' on a TCI one.
   set_ptt takes no lock around its steps: cat_ptt, the route (its switch and the
   flags of the ring), the message.                                             *)

At(c, step) == conns' = [conns EXCEPT ![c].step = step]

Opens(c) == /\ c \in owners
            /\ ~conns[c].open /\ conns[c].step = "idle"
            /\ conns' = [conns EXCEPT ![c].open = TRUE]
            /\ UNCHANGED <<owners, ui, radio, keyer, text, cat, mic, keyed>>

SetPtt(c) == /\ conns[c].open /\ conns[c].step = "idle"
             /\ \E on \in BOOLEAN :
                  /\ cat' = [cat EXCEPT !.ptt = on]
                  /\ conns' = [conns EXCEPT ![c].wants = on, ![c].step = "route"]
             /\ UNCHANGED <<owners, ui, radio, keyer, text, mic, keyed>>

\* DigitalTxInput touches the ring on a change of `active' only; tx_active is stored,
\* and the ring claimed or given up each time.
Route(c) ==
  LET on == conns[c].wants IN
  /\ conns[c].step = "route"
  /\ IF c \in Rigctls
     THEN /\ cat' = [cat EXCEPT !.digital = on]
          /\ mic' = IF cat.digital # on THEN [streaming |-> on, external |-> on] ELSE mic
     ELSE /\ cat' = [cat EXCEPT !.tci = on]
          /\ mic' = [streaming |-> on, external |-> on]
  /\ At(c, "send")
  /\ UNCHANGED <<owners, ui, radio, keyer, text, keyed>>

\* A key-down that goes out after another connection cleared cat_ptt has raced.
Send(c) == /\ conns[c].step = "send"
           /\ keyed' = IF conns[c].wants
                       THEN MicDown(c, IF cat.ptt THEN "none" ELSE "raced") ELSE MicUp
           /\ At(c, "idle")
           /\ UNCHANGED <<owners, ui, radio, keyer, text, cat, mic>>

\* A rigctl connection just ends, whatever it had keyed.
RigctlEnds(c) ==
  /\ c \in Rigctls /\ conns[c].open /\ conns[c].step = "idle"
  /\ conns' = [conns EXCEPT ![c].open = FALSE, ![c].wants = FALSE]
  /\ keyed' = IF keyed.mic = c THEN [keyed EXCEPT !.lapse = "left"] ELSE keyed
  /\ UNCHANGED <<owners, ui, radio, keyer, text, cat, mic>>

\* A TCI connection un-keys when cat_ptt is set, whoever set it (end_session).
TciEnds(c) ==
  /\ c \in Tcis /\ conns[c].open /\ conns[c].step = "idle"
  /\ conns' = [conns EXCEPT ![c].open = FALSE, ![c].wants = FALSE,
                            ![c].step = IF cat.ptt THEN "route" ELSE "idle"]
  /\ cat' = [cat EXCEPT !.ptt = FALSE]
  /\ UNCHANGED <<owners, ui, radio, keyer, text, mic, keyed>>

(* The radio: acquired, released (the worker un-keys), mode changed.           *)
Acquire == /\ ~radio.acquired
           /\ radio' = [radio EXCEPT !.acquired = TRUE]
           /\ UNCHANGED <<owners, ui, keyer, text, cat, conns, mic, keyed>>

Release == /\ radio.acquired
           /\ radio' = [radio EXCEPT !.acquired = FALSE]
           /\ keyed' = [MicUp EXCEPT !.cw = FALSE]
           /\ UNCHANGED <<owners, ui, keyer, text, cat, conns, mic>>

ChangeMode == /\ \E m \in {"ssb", "cw"} : radio' = [radio EXCEPT !.mode = m]
              /\ UNCHANGED <<owners, ui, keyer, text, cat, conns, mic, keyed>>

Next == \/ Press \/ LetGo \/ Focus \/ UiFrame
        \/ KeyerStops \/ KeyerClears
        \/ TextDown \/ TextUp \/ TextEnds
        \/ \E c \in Programs : \/ Opens(c) \/ SetPtt(c) \/ Route(c) \/ Send(c)
                              \/ RigctlEnds(c) \/ TciEnds(c)
        \/ Acquire \/ Release \/ ChangeMode

Spec == Init /\ [][Next]_vars

-----------------------------------------------------------------------------
\* A connection whose StopMicTx is still to come.
Unkeying(c) == conns[c].step # "idle" /\ ~conns[c].wants

\* The server is asked to stay keyed only while the one who had it key still wants
\* it, or a program is about to un-key: however the Space bar, the clip, the CW text
\* and the sets of several programs overlap.  But for a rigctl program that is gone,
\* and a TCI program that is gone after its key-down crossed another's key-up.
KeyedByOwner ==
  /\ keyed.mic = "space" => ui.ssb
  /\ keyed.mic = "clip" => keyer.playing
  /\ keyed.mic \in Programs /\ keyed.lapse = "none" =>
       conns[keyed.mic].wants \/ \E c \in Programs : Unkeying(c)
  /\ keyed.cw => ui.cw \/ text.sending

\* "Leave the rig safe if the app vanished mid-transmit" (tci_server.rs:195), of either
\* kind of program.
NoneLeavesTheKey ==
  keyed.mic \in Programs => conns[keyed.mic].wants \/ \E c \in Programs : Unkeying(c)

\* Space keys only with a finger on it: after a blur egui still reports the key
\* down, and "a deliberate press is required to key again".
KeysUnderFinger == (~ui.ssb /\ ui'.ssb) \/ (~ui.cw /\ ui'.cw) => ui.held
NoPhantomKey == [][KeysUnderFinger]_vars

\* "the ring has a single producer": the microphone, the voice keyer, the
\* digital router and the TCI client never feed the mic-TX ring together.
Producers ==
  {p \in {"mic", "keyer", "digital", "tci"} :
     /\ mic.streaming
     /\ p = "mic" => ~mic.external
     /\ p = "keyer" => keyer.step = "feed"
     /\ p = "digital" => cat.digital
     /\ p = "tci" => cat.tci /\ \E c \in Tcis : conns[c].open}

SingleProducer == Cardinality(Producers) <= 1

=============================================================================
