\* The harbour, when a write may be cut just before its newline.
CONSTANTS
  e0 = e0
  e1 = e1
  e2 = e2
  e3 = e3
  e4 = e4
  Entries = {e1, e2, e3, e4}
  Shutdown = shutdown
  Legacy <- MCNoLegacy
  ChainMemory = 2
  CheckpointEvery = 2
  RequireMetaSig = TRUE
  Missigned = {}
  Caught = {}
  Cuts = {"unterminated"}
  MaxRestarts = 1
  MaxVerifies = 0
SPECIFICATION VerifySpec
SYMMETRY Symmetry
INVARIANTS
  AckedIsDurable
CHECK_DEADLOCK FALSE
