SPECIFICATION Spec
CONSTANTS
  v1 = v1
  v2 = v2
  NoValue = NoValue
  Values <- MCValues
  MaxChanges = 1
  MaxFailures = 0
INVARIANT PassiveRunsNoProxy
