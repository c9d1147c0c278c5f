CONSTANTS
  Operators = {opA, opB}
  Keys = {k1, k2}
  FileKeys = {k1}
  MaxRows = 2
  MaxClicks = 4
  None = None
SPECIFICATION Spec
PROPERTY ImportsOnce
CHECK_DEADLOCK FALSE
