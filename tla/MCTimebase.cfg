CONSTANTS
  Objects = {a, b}
  Step = 2
  Delays <- MCDelays
  MaxAlarms = 3
  MaxTime = 2
  MaxDepth = 2
SPECIFICATION Spec
INVARIANTS TypeOK Ordered RefsExact NoDangling
PROPERTIES TickComplete NothingForgotten
CHECK_DEADLOCK FALSE
