CONSTANTS
    Conns = {k1, k2}
    Hosts = {h1, h2}
    None = None
SPECIFICATION SafetySpec
PROPERTY StreamStays
