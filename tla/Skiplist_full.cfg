CONSTANTS
  N = 4
  Bits = 2
  Handles = {h1, h2, h3}
  Null = Null
  Careful = FALSE
SPECIFICATION Spec
INVARIANT InArray
CHECK_DEADLOCK FALSE
