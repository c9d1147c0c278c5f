CONSTANTS
    Ramp = 2
    Hang = 2
    MaxElement = 4
SPECIFICATION SafetySpec
INVARIANT StuckKeyGuarded
