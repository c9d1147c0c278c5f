CONSTANTS
    Dials = {cw14, ssb14}
    CwDials = {cw14}
    SweepPoints = 1
SPECIFICATION Spec
INVARIANTS
    TypeOK
    PendingSweepNotCancelled
PROPERTIES
    RfOnlyWhilePressed
    OversEnd
