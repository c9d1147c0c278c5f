CONSTANTS
    None = None
    SyncModes = {"usb", "cw"}
    PitchModes = {"cw"}
    SyncClicks = 2
    MaxFreq = 3
    Half = 2
    Soft = 1
    PathSets = {{"wheel", "click", "center", "lo", "qsy", "arrow"}, {"drag"},
                {"drag", "wheel", "lo", "qsy", "other"}}
    MaxMoves = 2
    Rigctls = {"r1", "r2"}
    Tcis = {"t1"}
    OwnerSets = {{"space", "clip", "text"}, {"space", "clip", "r1"},
                 {"space", "t1"}, {"r1", "r2", "t1"}}
    VfoFreqs = {1, 2}
    Pitches = {1, 2}
    VfoClicks = 2
    Gains = {0, 1}
    Others = {0, 1}
    Edits = 2
    Lives = 1
    Operators = {"o1", "o2"}
    Radios = {"r1"}
    DiskFails = TRUE
SPECIFICATION PartsSpec
INVARIANTS
    AllTypeOK
    SettingsFollow
    RestAgrees
    VfosWhole
    SourceAsShown
PROPERTIES
    KeyingIsOwned
    PreferencesKept
