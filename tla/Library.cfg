SPECIFICATION Spec
CONSTANTS
  Calls  <- someCalls
  Inputs <- somePaths
INVARIANTS
  WritesExactly
  ComparesFirst
  PathsAgree
  PathsAlike
