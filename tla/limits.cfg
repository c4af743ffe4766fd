SPECIFICATION FairSpec
CONSTANTS
  r1 = r1
  r2 = r2
  u1 = u1
  u2 = u2
  a1 = a1
  Requests = {r1, r2}
  Users = {u1, u2}
  Addresses = {a1}
  Attempts = 2
  Window = 2
  Block = 2
INVARIANTS OvershootBounded
PROPERTIES BlockIsServed BlocksEnd
