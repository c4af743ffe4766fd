SPECIFICATION Spec
CONSTANTS
  r1 = r1
  r2 = r2
  n1 = n1
  n2 = n2
  n3 = n3
  c1 = c1
  c2 = c2
  i1 = i1
  None = None
  Creations <- SomeCreations
  Requests = {r1, r2}
  Names = {n1, n2, n3}
  Challenges = {c1, c2}
  Invites = {i1}
  MaxUses = 1
  MaxStarted = 4
CHECK_DEADLOCK FALSE
SYMMETRY Symmetries
INVARIANTS ChallengeSpentOnce InviteWithinLimit UsableIsAdmitted BootstrapCloses
PROPERTIES LockoutIsFinal
