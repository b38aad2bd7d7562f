SPECIFICATION FairSpec
CONSTANTS
  c1 = c1
  c2 = c2
  rv = rv
  ts = ts
  pl = pl
  Seats <- MCSeats
  Writers <- MCWriters
  Coders <- MCWriters
  Verifiers <- MCVerifiers
  FollowUp <- MCFollowUp
  Harness <- MCHarness
  Shapes <- MCShapes
  MinSeats = 1
  Cap = 4
  Authorities <- MCAuthorities
  NoBudget = nobudget
  Charges <- MCCharges
INVARIANTS
  TypeOK
  OvershootBounded
  OverrunIsNamed
  CommittedIsReported
  ReviewersSawTheWork
  MergeWasReviewed
  NoWorkAfterFailure
PROPERTIES
  RunEnds
CHECK_DEADLOCK FALSE
