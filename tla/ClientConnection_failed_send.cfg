CONSTANTS
    Servers = {s1}
    Radios = {r1}
    None = None
    InboxBound = 1
SPECIFICATION SafetySpec
INVARIANT TaskSurvives
