CONSTANTS
  Threads = {t1, t2, t3}
  None = None
  MaxDepth = 2
  MaxHandles = 3
  Word = 5
  Race = FALSE
SPECIFICATION FairSpec
INVARIANTS Inv HandleExists FlagSettles NoHandleLeft
PROPERTIES ImplementsMutex CallsReturn
CHECK_DEADLOCK FALSE
