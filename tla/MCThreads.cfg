CONSTANTS
  Workers = {a, b}
  Tids = {t1, t2}
  None = None
  Capacity = 2
  MaxCalm = 6
  MaxHasty = 3
SPECIFICATION Spec
INVARIANTS TypeOK OneThread
PROPERTIES CancelsOwn FollowsUser RequestsTaken QuietAfterClose
CHECK_DEADLOCK FALSE
