------------------------------ MODULE MCPanels ------------------------------
(***************************************************************************)
(* The settings and the keys of the client, one part at a time: the panels *)
(* over a radio connection (mode, dial, VFOs, source), the owners of the   *)
(* transmitter, and what is stored for an operator.  As in MCLive a        *)
(* behaviour runs the part `part` names; the variables of the others are   *)
(* None.                                                                   *)
(***************************************************************************)
EXTENDS Naturals

CONSTANTS
    None,
    SyncModes, PitchModes, SyncClicks,              \* SettingsSync
    MaxFreq, Half, Soft, PathSets, MaxMoves,        \* Dial
    Rigctls, Tcis, OwnerSets,                       \* PttOwners
    VfoFreqs, Pitches, VfoClicks,                   \* VfoControls
    Gains, Others, Edits, Lives,                    \* SourceSettings
    Operators, Radios, DiskFails                    \* OperatorStore

VARIABLES part,
          ctl, status, fwd, up, down, ui, bundle, frame, asked, clicks,
          paths, dialUi, shot, at, lastSent, open, held, drag, fling, tx, dialUp,
          server, published, dialDown, moves, lastOut, strayed,
          owners, pttUi, radio, keyer, text, cat, conns, mic, keyed,
          vfoServer, vfoUi, active, pend, vfoUp, before, last, vfoDown, hasty,
          copied, vfoClicks,
          control, applied, own, tuner, sourceStatus, sourceFwd, sourceUp,
          sourceDown, sourceUi, saved, replay, edited, on, lives, edits,
          sourceHasty,
          file, app, diskOk, storeUi, mirror, acquired, selected, due

syncVars == <<ctl, status, fwd, up, down, ui, bundle, frame, asked, clicks>>
dialVars == <<paths, dialUi, shot, at, lastSent, open, held, drag, fling, tx, dialUp,
              server, published, dialDown, moves, lastOut, strayed>>
pttVars == <<owners, pttUi, radio, keyer, text, cat, conns, mic, keyed>>
vfoVars == <<vfoServer, vfoUi, active, pend, vfoUp, before, last, vfoDown, hasty,
             copied, vfoClicks>>
sourceVars == <<control, applied, own, tuner, sourceStatus, sourceFwd, sourceUp,
                sourceDown, sourceUi, saved, replay, edited, on, lives, edits,
                sourceHasty>>
storeVars == <<file, app, diskOk, storeUi, mirror, acquired, selected, due>>
all == <<part, syncVars, dialVars, pttVars, vfoVars, sourceVars, storeVars>>

Sync == INSTANCE SettingsSync WITH
    Modes <- SyncModes, Clicks <- SyncClicks

Tuning == INSTANCE Dial WITH
    ui <- dialUi, up <- dialUp, down <- dialDown

Ptt == INSTANCE PttOwners WITH
    ui <- pttUi

Vfo == INSTANCE VfoControls WITH
    Freqs <- VfoFreqs, Clicks <- VfoClicks, server <- vfoServer, ui <- vfoUi,
    up <- vfoUp, down <- vfoDown, clicks <- vfoClicks

Source == INSTANCE SourceSettings WITH
    status <- sourceStatus, fwd <- sourceFwd, up <- sourceUp, down <- sourceDown,
    ui <- sourceUi, hasty <- sourceHasty

Store == INSTANCE OperatorStore WITH
    ui <- storeUi

\* None is none of the values it stands beside; a source opens with a gain of 0 and its
\* other settings at 0, a VFO with the pitches 1 and 2.
ASSUME PanelsAssumption ==
    /\ Sync!SyncAssumption
    /\ Tuning!DialAssumption
    /\ Ptt!PttAssumption
    /\ Vfo!VfoAssumption
    /\ Source!SourceAssumption
    /\ Store!StoreAssumption

\* One of the components starts.
PartsInit ==
    /\ part \in {"sync", "dial", "ptt", "vfo", "source", "store"}
    /\ IF part = "sync" THEN Sync!Init
       ELSE /\ ctl = None /\ status = None /\ fwd = None /\ up = None
            /\ down = None /\ ui = None /\ bundle = None /\ frame = None
            /\ asked = None /\ clicks = None
    /\ IF part = "dial" THEN Tuning!Init
       ELSE /\ paths = None /\ dialUi = None /\ shot = None /\ at = None
            /\ lastSent = None /\ open = None /\ held = None /\ drag = None
            /\ fling = None /\ tx = None /\ dialUp = None /\ server = None
            /\ published = None /\ dialDown = None /\ moves = None
            /\ lastOut = None /\ strayed = None
    /\ IF part = "ptt" THEN Ptt!Init
       ELSE /\ owners = None /\ pttUi = None /\ radio = None /\ keyer = None
            /\ text = None /\ cat = None /\ conns = None /\ mic = None
            /\ keyed = None
    /\ IF part = "vfo" THEN Vfo!Init
       ELSE /\ vfoServer = None /\ vfoUi = None /\ active = None /\ pend = None
            /\ vfoUp = None /\ before = None /\ last = None /\ vfoDown = None
            /\ hasty = None /\ copied = None /\ vfoClicks = None
    /\ IF part = "source" THEN Source!Init
       ELSE /\ control = None /\ applied = None /\ own = None /\ tuner = None
            /\ sourceStatus = None /\ sourceFwd = None /\ sourceUp = None
            /\ sourceDown = None /\ sourceUi = None /\ saved = None
            /\ replay = None /\ edited = None /\ on = None /\ lives = None
            /\ edits = None /\ sourceHasty = None
    /\ IF part = "store" THEN Store!Init
       ELSE /\ file = None /\ app = None /\ diskOk = None /\ storeUi = None
            /\ mirror = None /\ acquired = None /\ selected = None /\ due = None

\* One component steps.
SyncNext ==
    /\ part = "sync" /\ Sync!Next
    /\ UNCHANGED <<part, dialVars, pttVars, vfoVars, sourceVars, storeVars>>

TuningNext ==
    /\ part = "dial" /\ Tuning!Next
    /\ UNCHANGED <<part, syncVars, pttVars, vfoVars, sourceVars, storeVars>>

PttNext ==
    /\ part = "ptt" /\ Ptt!Next
    /\ UNCHANGED <<part, syncVars, dialVars, vfoVars, sourceVars, storeVars>>

VfoNext ==
    /\ part = "vfo" /\ Vfo!Next
    /\ UNCHANGED <<part, syncVars, dialVars, pttVars, sourceVars, storeVars>>

SourceNext ==
    /\ part = "source" /\ Source!Next
    /\ UNCHANGED <<part, syncVars, dialVars, pttVars, vfoVars, storeVars>>

StoreNext ==
    /\ part = "store" /\ Store!Next
    /\ UNCHANGED <<part, syncVars, dialVars, pttVars, vfoVars, sourceVars>>

\* Those whose bounded inputs run out.
Ended ==
    /\ part \in {"dial", "vfo", "source"}
    /\ UNCHANGED all

PartsNext ==
    \/ SyncNext \/ TuningNext \/ PttNext \/ VfoNext \/ SourceNext
    \/ StoreNext \/ Ended

PartsSpec == PartsInit /\ [][PartsNext]_all

(***************************************************************************)
(* Properties: those of the components, which say what they are about.     *)
(***************************************************************************)

\* Every component keeps its types.
AllTypeOK ==
    /\ part = "sync" => Sync!TypeOK
    /\ part = "dial" => Tuning!TypeOK
    /\ part = "ptt" => Ptt!TypeOK
    /\ part = "vfo" => Vfo!TypeOK
    /\ part = "source" => Source!TypeOK
    /\ part = "store" => Store!TypeOK

\* The mode the user chose last wins on both sides, and the filter the radio listens
\* with is the one stored for the mode, whatever echoes are still on their way.
SettingsFollow ==
    part = "sync" => Sync!LastClickWins /\ Sync!FilterFollowsMode

\* However a gesture tunes, with its moves throttled, crossed by echoes of earlier ones
\* within a frame and cut by an over, at rest the client shows the dial the radio is on:
\* but for a target the throttle kept, and a centre a control showed and did not send.
RestAgrees ==
    part = "dial" => Tuning!RestAgrees

\* The last key message sent is of somebody who still wants it (but for a rigctl program
\* that is gone, and a TCI one that is gone after its key-down crossed a key-up), and
\* Space sends one only under a finger, not for a key egui kept down over a loss of focus.
KeyingIsOwned ==
    [][part = "ptt" => Ptt!KeyedByOwner' /\ Ptt!KeysUnderFinger]_pttVars

\* Once nothing is under way the client shows the VFOs the radio receives and transmits
\* with, and between two commands of a gesture the TX frequency is none other than the
\* one before it or the one after it.
VfosWhole ==
    part = "vfo" => Vfo!VfosAsShown /\ Vfo!TxWhole

\* Once nothing is under way the source settings the panel shows, and saved, are those
\* of the worker; and the tuner in manual mode has the gain that was applied.
SourceAsShown ==
    part = "source" => Source!SourceAsShown

\* What is stored for an operator was set by that operator, and a file a newer build
\* wrote is not overwritten, whichever write fails.
PreferencesKept ==
    [][part = "store" => Store!OwnPreferences' /\ Store!KeepsNewer]_storeVars
=============================================================================
