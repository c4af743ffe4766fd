SPECIFICATION FairSpec
CONSTANTS
  p1 = p1
  p2 = p2
  NoProc = NoProc
  Procs = {p1, p2}
  MaxChanges = 2
INVARIANTS RefreshedAloneIsFresh
PROPERTIES Converges
