SPECIFICATION Spec
CONSTANTS
  v1 = v1
  v2 = v2
  w1 = w1
  w2 = w2
  virustotal = virustotal
  llm = llm
  NoVersion = NoVersion
  VT = virustotal
  Versions = {v1, v2}
  Workers = {w1}
  Providers = {virustotal}
  Legacy = {virustotal}
  AutoPublish = TRUE
  BuildTasks = TRUE
  MaxAttempts = 2
  MaxPolls = 1
  MaxRequests = 2
  MaxFaults = 0
  PluginInputs = {"active", "disabled"}
  StatusInputs = {"active", "deprecated"}
  Toggles = {}
CHECK_DEADLOCK FALSE
SYMMETRY Symmetry
INVARIANTS CurrentVersionSound PendingHasWork WithdrawnHasNoCurrent
