CONSTANTS
  Objects = {a, b}
  Fds = {3}
  MaxCallbacks = 3
SPECIFICATION Spec
INVARIANTS AnyRemoveIsSafe
CHECK_DEADLOCK FALSE
