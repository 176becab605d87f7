CONSTANTS
  Files <- AllFiles
  Word = 64
  MaxLen = 4
  MaxBytes = 5
  MaxBoth = 4
  MaxSent = 6
SPECIFICATION Spec
INVARIANTS Inv ReadsInOrder WritesInOrder NoneUnclaimed NothingHeldBack
PROPERTIES ImplementsStream LossReported
CHECK_DEADLOCK FALSE
