CONSTANTS
  Workers = {a, b}
  Tids = {t1, t2}
  None = None
  Capacity = 2
  MaxCalm = 2
  MaxHasty = 3
SPECIFICATION Spec
PROPERTIES AlwaysStops
CHECK_DEADLOCK FALSE
