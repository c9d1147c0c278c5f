SPECIFICATION Spec
CONSTANTS PacketSamples = 4 TargetSamples = 8 MaxSamples = 16 TrimSamples = 1
  PopSizes = {3, 6} Sessions = 2 Packets = 4
INVARIANT AnchoredInSession
CHECK_DEADLOCK FALSE
