CONSTANTS
    Bands = {b20}
    None = None
    MaxSweeps = 2
    MaxSets = 1
    LossySerial = TRUE
    CanStop = TRUE
SPECIFICATION Spec
INVARIANT SweepBypassed
PROPERTIES
    QueriesSilent
    BypassUndone
