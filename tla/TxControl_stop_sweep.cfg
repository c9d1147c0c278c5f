CONSTANTS
    Dials = {cw14, ssb14}
    CwDials = {cw14}
    SweepPoints = 2
SPECIFICATION SafetySpec
PROPERTY SweepHeedsStop
