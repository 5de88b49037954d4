\* Two callers of every method, two threads to hand the action to
SPECIFICATION FairSpec
CONSTANTS
  c1 = c1
  c2 = c2
  h1 = h1
  h2 = h2
  Callers <- MCCallers
  Helpers <- MCHelpers
INVARIANTS
  MutualExclusion
  NoRequestLost
PROPERTIES
  PendingTakenByRunner
  RequestsAreExecuted
