\* Grants, claims, delegated grants, rotations and revocations; the window
\* forgets the oldest links.
CONSTANTS
  op = op
  op2 = op2
  b = b
  c = c
  pay = pay
  anything = anything
  fin = fin
  delegateFin = delegateFin
  claim = claim
  none = none
  Ids = {op, op2, b, c}
  Authorities = {op}
  Tokens = {pay, anything, delegateFin, claim}
  Any = anything
  Wild = {anything}
  Claim = claim
  Scopes = {fin}
  ScopeToken <- MCScopeToken
  None = none
  Facts <- TrustFacts
  MaxDepth = 2
  ChainMemory = 3
  MaxLinks = 5
  MaxPending = 2
SPECIFICATION Spec
INVARIANTS
  TypeOK
  GrantsHaveSource
  WithdrawalReaches
PROPERTIES
  AuthorityWithdrawnByAuthority
CHECK_DEADLOCK FALSE
