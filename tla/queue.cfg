SPECIFICATION FairSpec
CONSTANTS
  t1 = t1
  t2 = t2
  w1 = w1
  w2 = w2
  Tasks = {t1, t2}
  Workers = {w1, w2}
  MaxAttempts = 2
  RetryDelayed = TRUE
  MaxFaults = 2
CHECK_DEADLOCK FALSE
INVARIANTS TypeOK OnePlace NoTaskForgotten HandledOnce AttemptsBounded DeadIsBuried
PROPERTIES DeliversTasks EveryTaskSettles
