SPECIFICATION Spec
CONSTANTS
  p = p
  q = q
  Ids <- MCIds
  Offers <- MCOffers
  Slots = 2
  MaxRequests = 3
  MaxFailures = 1
INVARIANTS
  ExactEnforcement
  AllDayAtOnce
  BlocksEnd
