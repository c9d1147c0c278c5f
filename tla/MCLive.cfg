CONSTANTS
    Ramp = 2
    Hang = 2
    MaxElement = 4
    None = None
    Servers = {"s1", "s2"}
    Radios = {"r1"}
    InboxBound = 2
    Conns = {"k1", "k2", "k3"}
    Hosts = {"h1", "h2"}
SPECIFICATION PartsSpec
INVARIANTS
    AllTypeOK
    NoKeyClick
    HangHonoured
    ServedOwnsSlot
PROPERTIES
    KeyerEnds
    UserRespected
    RetriesEnd
    SlotHeals
    NoStall
    EditsSaved
    NeverBlocked
