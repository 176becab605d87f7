CONSTANTS
  Threads = {t1, t2}
  None = None
  MaxDepth = 1
  MaxHandles = 3
  Word = 5
  Race = TRUE
SPECIFICATION Spec
INVARIANTS Exclusion
CHECK_DEADLOCK FALSE
