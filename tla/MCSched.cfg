CONSTANTS
  Objects = {a, b}
  Fds = {3}
  MaxCallbacks = 3
SPECIFICATION Spec
INVARIANTS TypeOK RemoveIsSafe
PROPERTIES OnceEach AlwaysServed
CHECK_DEADLOCK FALSE
