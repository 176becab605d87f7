SPECIFICATION Spec
CONSTANTS
  Strings <- someStrings
  BufCap = 6
  TblCap = 4
  SlideLen = 8
INVARIANT KeptSorted
