CONSTANTS
    Bands = {b20}
    None = None
    MaxSweeps = 0
    MaxSets = 2
    LossySerial = FALSE
    CanStop = FALSE
SPECIFICATION SafetySpec
PROPERTY SilentWhileKeyed
