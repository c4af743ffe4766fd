SPECIFICATION FairSpec
CONSTANTS
  p1 = p1
  p2 = p2
  Procs = {p1, p2}
  Accessors = {"review_policy", "task_max_attempts", "registration_mode"}
  MaxUpdates = 2
  MaxFaults = 1
INVARIANTS StaleHasCause ExpiryIsComing QuietReadIsCurrent
PROPERTIES UpdatesTakeEffect
