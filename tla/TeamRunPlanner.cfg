SPECIFICATION Spec
CONSTANTS
  c1 = c1
  c2 = c2
  rv = rv
  ts = ts
  pl = pl
  Seats <- MCSeats
  Writers <- MCWriters
  Coders <- MCWriters
  Verifiers <- MCVerifiers
  FollowUp <- MCFollowUp
  Harness <- MCHarness
  Shapes <- PlannedOnly
  MinSeats = 1
  Cap = 4
  Authorities <- MCAuthorities
  NoBudget = nobudget
  Charges <- MCCharges
INVARIANTS
  SkippedAfterWork
CHECK_DEADLOCK FALSE
