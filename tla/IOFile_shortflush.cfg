CONSTANTS
  Files <- OutFiles
  Word = 64
  MaxLen = 3
  MaxBytes = 4
  MaxBoth = 4
  MaxSent = 7
SPECIFICATION Spec
INVARIANTS FlushedMeansEmpty
CHECK_DEADLOCK FALSE
