\* Grants issued, replaced and revoked between crossings; one write is lost.
SPECIFICATION Spec
CONSTANTS
  new = new
  known = known
  look = look
  fetch = fetch
  write = write
  r1 = r1
  r2 = r2
  r3 = r3
  Requests = {r1, r2, r3}
  Pairs = {new, known}
  Caps = {look, fetch, write}
  PairOf <- MCPairOf
  CapOf <- MCCapOf
  Needs <- MCNeeds
  HumanFirst = {write}
  Mesh <- MCMesh
  Vouched = 2
  Proven = 3
  Terms <- MCTerms
  MaxTime = 2
  MaxLog = 3
  MaxGrants = 2
  MaxFaults = 1
INVARIANTS
  BudgetKept
  TwoWindows
  EarnedFirst
CHECK_DEADLOCK FALSE
