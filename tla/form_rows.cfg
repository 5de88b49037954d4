SPECIFICATION FormSpec
CONSTANTS
  p = p
  q = q
  Policies <- MCPolicies
  Typed <- MCTyped
  EndOfDay = 2
  MaxEdits = 2
  MaxForms = 1
CHECK_DEADLOCK FALSE
INVARIANTS
  RowsAreSaved
