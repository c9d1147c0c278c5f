CONSTANTS
    Radios = {r1, r2}
    Discoverable = {r1}
    Clients = {c1, c2}
    Leases = {l1, l2}
    None = None
    HasTransmitter = FALSE
    TtlCoversStartup = TRUE
    JoinTimeouts = TRUE
SPECIFICATION SafetySpec
SYMMETRY Symmetry
INVARIANTS
    TypeOK
    OwnerIsServed
    LeaseEndsOnce
    NoOrphanWorker
    CommandReachesOwnWorker
PROPERTIES
    HandoverStops
    ImplementsLease
