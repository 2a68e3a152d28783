CONSTANTS
  o1 = o1
  o2 = o2
  o3 = o3
  o4 = o4
  Objects <- MCObjects
  Ins = {1, 2}
  Outs = {1, 2}
  Wires <- MCWires
  Resamp <- MCResamp
  TickSize = 4
  MaxEdits = 4
SPECIFICATION Spec
INVARIANTS TypeOK CountsExact
PROPERTIES HearsItsSources Sequential Terminates
CHECK_DEADLOCK FALSE
