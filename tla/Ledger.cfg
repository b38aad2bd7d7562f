\* Three appends on top of one legacy link, a window of three links, a checkpoint
\* every second link, two restarts, failing signatures, a write that may be cut,
\* a walk of chain:verify.  A torn file stops the harbour for good, so it may
\* deadlock.
CONSTANTS
  e0 = e0
  e1 = e1
  e2 = e2
  e3 = e3
  e4 = e4
  Entries = {e0, e1, e2, e3}
  Shutdown = shutdown
  Legacy <- MCLegacy
  ChainMemory = 3
  CheckpointEvery = 2
  RequireMetaSig = TRUE
  Missigned = {e3}
  Caught = {"sign"}
  Cuts = {"partial", "whole"}
  MaxRestarts = 2
  MaxVerifies = 1
SPECIFICATION VerifyFairSpec
INVARIANTS
  TypeOK
  FileOpensIfSigned
  AckedIsDurable
  WindowIsFileEnd
  CheckpointsTrue
  VerdictOffByOverlaps
PROPERTIES
  RefinesAppendLog
  EverySubmitSettles
CHECK_DEADLOCK FALSE
