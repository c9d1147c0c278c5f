--------------------------- MODULE OperatorStore ---------------------------
(***************************************************************************)
(* What the client remembers (rigflow-client/src/persistence and           *)
(* ui/app_actions.rs): one settings file per operator, the app state that  *)
(* names the operators, and the copies of both in UiState.  Every save is  *)
(* load, migrate, change, write; a file may be missing, corrupt, of an     *)
(* older or of a newer version; the disk may refuse a write, and the       *)
(* program may end anywhere, also between the two writes of one handler.   *)
(*                                                                         *)
(* Of the settings two stand for all: prefs (demodulator, waterfall zoom,  *)
(* volume and, per radio, frequency, squelch and the like) and smooth (the *)
(* smoothing of the waterfall, saved like prefs but not restored like      *)
(* them).  A value is the operator who chose it.                           *)
(***************************************************************************)
EXTENDS Naturals

CONSTANTS
    Operators,
    Radios,
    None,           \* no operator, no radio, no bundle; also the stock value
    DiskFails       \* whether writes may fail

Values == Operators \union {None}
Bundles == [prefs : Values, smooth : Values]
Kinds == {"missing", "corrupt", "old", "current", "newer"}

\* None is none of them.
StoreAssumption == None \notin Operators \union Radios \union Bundles

VARIABLES
    file,       \* operators/<id>/settings.json
    app,        \* app_state.json: [ok, known, last]
    diskOk,     \* the next write succeeds
    ui,         \* UiState: [up, op, prefs, smooth]
    mirror,     \* UiState.radio_settings
    acquired,   \* the radio acquired, None
    selected,   \* UiState.selected_radio_id
    due         \* radio_settings_stable_since is set

disk == <<file, app>>
session == <<acquired, selected, due>>
vars == <<file, app, diskOk, ui, mirror, session>>

NoBundles == [r \in Radios |-> None]

\* OperatorSettingsFile::new.
Fresh == [kind |-> "current", prefs |-> None, smooth |-> None, radios |-> NoBundles]

NoFile == [Fresh EXCEPT !.kind = "missing"]

\* migrate_operator_settings_value: what an older build did not know gets its default.
Migrate(f) == [f EXCEPT !.kind = IF @ = "old" THEN "current" ELSE @]

NoApp == [ok |-> TRUE, known |-> {}, last |-> None]
NotRunning == [up |-> FALSE, op |-> None, prefs |-> None, smooth |-> None]

\* The files an earlier version, a newer one or a damaged disk left behind.
Init ==
    /\ file \in [Operators -> [kind : Kinds, prefs : {None}, smooth : {None},
                               radios : {NoBundles}]]
    /\ app \in {NoApp, [NoApp EXCEPT !.ok = FALSE]}
    /\ diskOk = TRUE
    /\ ui = NotRunning /\ mirror = NoBundles
    /\ acquired = None /\ selected = None /\ due = FALSE

(***************************************************************************)
(* The store.                                                              *)
(***************************************************************************)

Readable(f) == Migrate(f).kind = "current"

\* Slip: a file that cannot be understood, for whatever reason, is set aside.
ResettableAll(f) == ~Readable(f)

Resettable(f) == f.kind \in {"missing", "corrupt"}

\* load_operator_settings: the contents, after migration, recovery or creation.
Loaded(f) == IF Resettable(f) THEN Fresh ELSE Migrate(f)

\* It succeeds, unless the file is newer, or must be written anew and cannot be.
Loads(f) == Readable(f) \/ (Resettable(f) /\ diskOk)

\* What loading alone leaves on the disk: the migrated or the fresh file, written back
\* if the disk lets it; a corrupt one is renamed before.
AfterLoad(f) ==
    IF diskOk /\ Loads(f) THEN Loaded(f)
    ELSE IF f.kind = "corrupt" THEN NoFile ELSE f

\* load_or_create_operator_settings, a change, save_operator_settings.
Rewritten(f, g) == IF Loads(f) /\ diskOk THEN g ELSE AfterLoad(f)

\* load_app_state: a corrupt one is reset, which needs the disk.
AppLoads == app.ok \/ diskOk
AppLoaded == IF app.ok THEN app ELSE NoApp

WriteApp(a) == app' = IF diskOk THEN a ELSE app

(***************************************************************************)
(* UiState.                                                                *)
(***************************************************************************)

\* Slip: the settings that a radio has of its own are not the operator's.
ApplyMerged(o, f) ==
    /\ ui' = [ui EXCEPT !.up = TRUE, !.op = o, !.smooth = f.smooth]
    /\ mirror' = f.radios

\* apply_operator_settings_to_ui_state: UiState takes the operator's values.
Apply(o, f) ==
    /\ ui' = [ui EXCEPT !.up = TRUE, !.op = o, !.prefs = f.prefs, !.smooth = f.smooth]
    /\ mirror' = f.radios

\* UiState::default.
Reset == ui' = [NotRunning EXCEPT !.up = TRUE] /\ mirror' = NoBundles

\* radio_settings_from_ui.
Bundle == [prefs |-> ui.prefs, smooth |-> ui.smooth]

\* What autosave_radio_settings sees in the next frame: the bundle has changed.
Noticed == due' = (acquired # None /\ (due \/ Bundle' # Bundle))

\* initialize_client_state: all or nothing; an operator that cannot be loaded keeps the
\* client from starting.
Start ==
    /\ ~ui.up /\ AppLoads
    /\ WriteApp(AppLoaded)
    /\ LET o == AppLoaded.last IN
        IF o = None THEN Reset /\ UNCHANGED file
        ELSE /\ Loads(file[o])
             /\ file' = [file EXCEPT ![o] = AfterLoad(@)]
             /\ Apply(o, Loaded(file[o]))
    /\ UNCHANGED <<diskOk, session>>

\* The program ends; nothing is saved on the way out.
Quit ==
    /\ ui.up
    /\ ui' = NotRunning /\ mirror' = NoBundles
    /\ acquired' = None /\ selected' = None /\ due' = FALSE
    /\ UNCHANGED <<disk, diskOk>>

DiskChanges ==
    /\ DiskFails
    /\ diskOk' = ~diskOk
    /\ UNCHANGED <<disk, ui, mirror, session>>

(***************************************************************************)
(* The operator panel.                                                     *)
(***************************************************************************)

\* draw_operator_panel: another operator, while not connected; last_operator_id is
\* saved if it can be.
SwitchOperator(o) ==
    /\ ui.up /\ acquired = None /\ o # ui.op /\ o \in app.known
    /\ Loads(file[o]) /\ AppLoads
    /\ file' = [file EXCEPT ![o] = AfterLoad(@)]
    /\ WriteApp([AppLoaded EXCEPT !.last = o])
    /\ Apply(o, Loaded(file[o]))
    /\ UNCHANGED <<diskOk, session>>

\* save_pending_operator: the file, then the app state. The dialog, like that of delete,
\* is opened while not connected, and may stay open longer.
AddOperator(o) ==
    /\ ui.up /\ Loads(file[o]) /\ diskOk
    /\ file' = [file EXCEPT ![o] = Loaded(@)]
    /\ app' = [AppLoaded EXCEPT !.known = @ \union {o}, !.last = o]
    /\ Apply(o, Loaded(file[o]))
    /\ Noticed
    /\ UNCHANGED <<diskOk, acquired, selected>>

\* The program ends between the two writes.
AddOperatorCut(o) ==
    /\ ui.up /\ Loads(file[o]) /\ diskOk
    /\ file' = [file EXCEPT ![o] = Loaded(@)]
    /\ ui' = NotRunning /\ mirror' = NoBundles
    /\ acquired' = None /\ selected' = None /\ due' = FALSE
    /\ UNCHANGED <<app, diskOk>>

\* delete_operator: the file, then the app state, then another operator takes over; a
\* write that fails or a replacement that cannot be loaded leaves the rest undone.
DeleteOperator(o) ==
    /\ ui.up /\ ui.op = o /\ o # None
    /\ LET rest == AppLoaded.known \ {o}
           gone == [file EXCEPT ![o] = NoFile]
       IN \E heir \in IF rest = {} THEN {None} ELSE rest :
            /\ WriteApp([AppLoaded EXCEPT !.known = rest, !.last = heir])
            /\ IF ~diskOk \/ (heir # None /\ ~Loads(file[heir]))
               THEN file' = gone /\ UNCHANGED <<ui, mirror, session>>
               ELSE IF heir = None
               THEN file' = gone /\ Reset /\ acquired' = None /\ selected' = None /\ due' = FALSE
               ELSE file' = [gone EXCEPT ![heir] = AfterLoad(@)]
                    /\ Apply(heir, Loaded(file[heir])) /\ Noticed
                    /\ UNCHANGED <<acquired, selected>>
    /\ UNCHANGED diskOk

(***************************************************************************)
(* The settings.                                                           *)
(***************************************************************************)

\* A waterfall, demodulator or volume control: saved for the operator at once
\* (save_waterfall_display_preferences_to_current_operator and its like).
EditPrefs ==
    /\ ui.up /\ ui.op # None
    /\ \E s \in {ui.smooth, ui.op} :
        /\ ui' = [ui EXCEPT !.prefs = ui.op, !.smooth = s]
        /\ file' = [file EXCEPT ![ui.op] =
                        Rewritten(@, [Loaded(@) EXCEPT !.prefs = ui.op, !.smooth = s])]
    /\ Noticed
    /\ UNCHANGED <<app, diskOk, mirror, acquired, selected>>

\* apply_bookmark, and whatever is tuned or switched without a save of its own: left
\* to the autosave.
ApplyBookmark ==
    /\ ui.up /\ ui.op # None
    /\ ui' = [ui EXCEPT !.prefs = ui.op]
    /\ Noticed
    /\ UNCHANGED <<disk, diskOk, mirror, acquired, selected>>

\* Slip: only the copy in memory is updated.
AutosaveStale ==
    /\ due /\ due' = FALSE
    /\ IF selected # None /\ ui.op # None /\ mirror[selected] # Bundle
       THEN /\ mirror' = [mirror EXCEPT ![selected] = Bundle]
            /\ UNCHANGED file
       ELSE UNCHANGED <<file, mirror>>
    /\ UNCHANGED <<app, diskOk, ui, acquired, selected>>

\* autosave_radio_settings, 600 ms after the last change, and
\* save_radio_settings_for_current_radio: the copy first, then the file.
Autosave ==
    /\ due /\ due' = FALSE
    /\ IF selected # None /\ ui.op # None /\ mirror[selected] # Bundle
       THEN /\ mirror' = [mirror EXCEPT ![selected] = Bundle]
            /\ file' = [file EXCEPT ![ui.op] =
                            Rewritten(@, [Loaded(@) EXCEPT !.radios[selected] = Bundle])]
       ELSE UNCHANGED <<file, mirror>>
    /\ UNCHANGED <<app, diskOk, ui, acquired, selected>>

\* save_bookmarks_to_current_operator: apply_ui_state_to_operator_settings writes all of
\* UiState over the file, but for the smoothing.
SaveAll ==
    /\ ui.up /\ ui.op # None
    /\ file' = [file EXCEPT ![ui.op] =
                    Rewritten(@, [Loaded(@) EXCEPT !.prefs = ui.prefs, !.radios = mirror])]
    /\ UNCHANGED <<app, diskOk, ui, mirror, session>>

(***************************************************************************)
(* The radio (rigflow-client/src/net/websocket.rs).                        *)
(***************************************************************************)

\* RadioAcquired and the RuntimeSnapshot behind it: the bundle of the radio, all of it
\* but the smoothing.
Acquire(r) ==
    /\ ui.up /\ acquired = None
    /\ acquired' = r /\ selected' = r /\ due' = TRUE
    /\ ui' = IF mirror[r] = None THEN ui ELSE [ui EXCEPT !.prefs = mirror[r].prefs]
    /\ UNCHANGED <<disk, diskOk, mirror>>

\* The list of radios stays clickable while one is acquired (draw_radios_panel).
Select(r) ==
    /\ ui.up /\ selected # r
    /\ selected' = r
    /\ UNCHANGED <<disk, diskOk, ui, mirror, acquired, due>>

\* Slip: the debounce window survives the release.
ReleaseDue ==
    /\ acquired # None
    /\ acquired' = None
    /\ UNCHANGED <<disk, diskOk, ui, mirror, selected, due>>

\* RadioReleased, or the connection is gone.
Release ==
    /\ acquired # None
    /\ acquired' = None /\ due' = FALSE
    /\ UNCHANGED <<disk, diskOk, ui, mirror, selected>>

Next ==
    \/ Start \/ Quit \/ DiskChanges
    \/ \E o \in Operators :
        SwitchOperator(o) \/ AddOperator(o) \/ AddOperatorCut(o) \/ DeleteOperator(o)
    \/ EditPrefs \/ ApplyBookmark \/ Autosave \/ SaveAll
    \/ \E r \in Radios : Acquire(r) \/ Select(r)
    \/ Release

SafetySpec == Init /\ [][Next]_vars
\* Frames are drawn.
Fairness == WF_vars(Autosave)
Spec == SafetySpec /\ Fairness

(***************************************************************************)
(* Properties.                                                             *)
(***************************************************************************)

\* Every variable has its type, and a running client without an operator has no settings.
TypeOK ==
    /\ file \in [Operators -> [kind : Kinds, prefs : Values, smooth : Values,
                               radios : [Radios -> Bundles \union {None}]]]
    /\ app \in [ok : BOOLEAN, known : SUBSET Operators, last : Values]
    /\ diskOk \in BOOLEAN /\ due \in BOOLEAN
    /\ ui \in [up : BOOLEAN, op : Values, prefs : Values, smooth : Values]
    /\ mirror \in [Radios -> Bundles \union {None}]
    /\ acquired \in Radios \union {None} /\ selected \in Radios \union {None}
    /\ due => acquired # None

\* A file of a newer build is never overwritten (load_operator_settings: "never turn a
\* newer file into writable defaults").
KeepsNewer == \A o \in Operators : file[o].kind = "newer" => file'[o] = file[o]
NewerFileKept == [][KeepsNewer]_vars

\* What is stored for one operator was chosen by that operator: no order of switches,
\* acquires, failed writes and full saves carries a preference from one to another.
OwnPreferences ==
    \A o \in Operators :
        /\ {file[o].prefs, file[o].smooth} \subseteq {o, None}
        /\ \A r \in Radios :
            file[o].radios[r] # None =>
                {file[o].radios[r].prefs, file[o].radios[r].smooth} \subseteq {o, None}

\* With a disk that takes the writes, an operator who changes a setting of a radio and
\* leaves it alone finds it saved for that radio; unless an earlier write failed, which
\* leaves the copy in memory ahead of the file.
EditsSaved ==
    \A o \in Operators, r \in Radios, v \in Values :
        LET there == ui.op = o /\ acquired = r /\ selected = r /\ ui.prefs = v
        IN  due /\ there /\ mirror[r] = file[o].radios[r] ~>
                \/ file[o].radios[r] # None /\ file[o].radios[r].prefs = v
                \/ ~there \/ ~diskOk

\* The settings are kept for the acquired radio (save_radio_settings_for_current_radio:
\* "radio_settings[<acquired radio id>]").
BundleOfAcquiredRadio ==
    [][ui'.op = ui.op /\ ui'.up =>
        \A r \in Radios : mirror'[r] # mirror[r] => acquired = r]_vars

\* An operator resumes a radio as it was left.
ResumesAsLeft ==
    [][\A r \in Radios :
        acquired = None /\ acquired' = r /\ mirror[r] # None => Bundle' = mirror[r]]_vars
=============================================================================
