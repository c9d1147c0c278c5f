CONSTANTS
  Operators = {opA}
  Bands = {b20, b40}
  MaxContacts = 3
  None = None
SPECIFICATION Spec
INVARIANT InsertionOrder
CHECK_DEADLOCK FALSE
