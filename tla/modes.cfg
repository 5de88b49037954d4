SPECIFICATION Spec
CONSTANTS
  v1 = v1
  v2 = v2
  NoValue = NoValue
  Values <- MCValues
  MaxChanges = 3
  MaxFailures = 2
INVARIANTS
  CopiesAgree
  NoStaleProxy
