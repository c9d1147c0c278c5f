SPECIFICATION Spec
CONSTANTS
    Gains = {0, 1, 2}
    Others = {0, 1}
    None = None
    Edits = 2
    Lives = 2
INVARIANTS GainAsShown
CHECK_DEADLOCK FALSE
