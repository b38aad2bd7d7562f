\* Two clients, each on a socket of its own, that join, rotate and leave while
\* one of them submits two envelopes, one of them naming the other identity.
CONSTANTS
  s1 = s1
  s2 = s2
  k1 = k1
  k2 = k2
  e1 = e1
  e2 = e2
  Sockets = {s1, s2}
  Keys = {k1, k2}
  NewBundles <- MCNewBundles
  Envelopes = {e1, e2}
  KeyOf <- MCKeyOf
  AuthorOf <- MCAuthorOf
  JoinsPerSocket = 1
  MaxCopies = 1
  Nobody = nobody
SPECIFICATION Spec
INVARIANTS
  TypeOK
  OneMemberPerFp
  JoinsAlternate
  MissignedAfterRotation
  RosterIsMembers
CHECK_DEADLOCK FALSE
