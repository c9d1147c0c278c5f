CONSTANTS
    Bands = {b20}
    None = None
    MaxSweeps = 2
    MaxSets = 0
    LossySerial = FALSE
    CanStop = FALSE
SPECIFICATION SafetySpec
INVARIANT EverySweepBypassed
