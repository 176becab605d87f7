CONSTANTS
  N = 4
  Bits = 2
  Handles = {h1, h2, h3}
  Null = Null
  Careful = TRUE
SPECIFICATION Spec
INVARIANTS Inv InArray AllDestroyed
PROPERTIES LowestFreeSlot NoOverwrite
CHECK_DEADLOCK FALSE
