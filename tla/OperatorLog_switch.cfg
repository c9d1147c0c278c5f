CONSTANTS
  Operators = {opA, opB}
  Keys = {k1, k2}
  FileKeys = {k1}
  MaxRows = 2
  MaxClicks = 3
  None = None
SPECIFICATION Spec
INVARIANT NoneSurvivesSwitch
CHECK_DEADLOCK FALSE
