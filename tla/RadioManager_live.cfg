CONSTANTS
    Radios = {r1}
    Discoverable = {r1}
    Clients = {c1}
    Leases = {l1, l2}
    None = None
    HasTransmitter = TRUE
    TtlCoversStartup = TRUE
    JoinTimeouts = FALSE
SPECIFICATION Spec
PROPERTIES
    OperationsReturn
    RadiosComeBack
