CONSTANTS
    Rigctls = {"r1"}
    Tcis = {"t1"}
    OwnerSets = {{"space", "clip", "r1"}, {"space", "clip", "t1"}}
SPECIFICATION Spec
INVARIANT SingleProducer
