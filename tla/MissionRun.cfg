SPECIFICATION FairSpec
CONSTANTS
  a = a
  g = g
  x = x
  Plan <- MCPlan
  Extra <- MCExtra
  Deps <- MCDeps
  Gated <- MCGated
  Retries <- MCRetries
  MaxTurns = 7
INVARIANTS
  TypeOK
  NoFakeSuccess
  EachRunApproved
  TwoRungs
  RejectsOnlyIfStopped
PROPERTIES
  RunEnds
CHECK_DEADLOCK FALSE
