SPECIFICATION Spec
CONSTANTS
  Strings <- someStrings
  BufCap = 5
  TblCap = 3
  SlideLen = 8
INVARIANTS TypeOK ContentsKept SearchAgrees
PROPERTIES InsertAnswers UnsortRestores
