CONSTANTS
  Elem = 3
  Slots = 4
  MaxStream = 36
SPECIFICATION Spec
INVARIANTS TypeOK NoOverwrite
PROPERTIES InOrder Delivered Implements
CHECK_DEADLOCK FALSE
