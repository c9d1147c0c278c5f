CONSTANTS
    Modes = {usb, cw}
    PitchModes = {cw, usb}
    None = None
    Clicks = 2
SPECIFICATION Spec
INVARIANT TelemetryArrives
