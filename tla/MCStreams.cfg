CONSTANTS
    None = None
    Operators = {"opA", "opB"}
    Keys = {"k1", "k2"}
    FileKeys = {"k1"}
    MaxRows = 2
    MaxClicks = 2
    ExportBands = {"20m", "40m"}
    MaxContacts = 2
    SentRows = 3
    Senders = 2
    RowIds = 2
    Chunks = 2
    MaxRepeats = 1
    PacketSamples = 4
    TargetSamples = 8
    MaxSamples = 16
    TrimSamples = 1
    PopSizes = {3}
    Sessions = 1
    Packets = 5
    MaxPresses = 2
    RingMax = 2
    QueueMax = 3
    Prefill = 2
    MaxInFlight = 3
    Bands = {0, 1, 2}
    Tuner = {1, 2}
    Direct = {0, 1}
    QueueCap = 1
    MaxCommands = 2
    Rates = {1, 2}
    Depth = 2
    Switches = 2
    IqRates = {1}
    Capacity = 1
    Wrap = 3
    Blocks = 4
SPECIFICATION PartsSpec
INVARIANTS
    AllTypeOK
    LogWhole
    MediaInOrder
    QueueIsCurrent
    CaptureFollows
    BlocksKept
