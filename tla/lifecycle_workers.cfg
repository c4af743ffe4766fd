SPECIFICATION Spec
CONSTANTS
  v1 = v1
  v2 = v2
  w1 = w1
  w2 = w2
  virustotal = virustotal
  llm = llm
  NoVersion = NoVersion
  VT = virustotal
  Versions = {v1}
  Workers = {w1, w2}
  Providers = {virustotal}
  Legacy = {virustotal}
  AutoPublish = TRUE
  BuildTasks = FALSE
  MaxAttempts = 2
  MaxPolls = 2
  MaxRequests = 2
  MaxFaults = 0
  PluginInputs = {"active", "disabled"}
  StatusInputs = {"deprecated"}
  Toggles = {}
CHECK_DEADLOCK FALSE
SYMMETRY Symmetry
INVARIANTS CurrentVersionSound PendingHasWork TypeOK
PROPERTIES PassedIsPublished
