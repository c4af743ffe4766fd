SPECIFICATION FairSpec
CONSTANTS
  v1 = v1
  v2 = v2
  w1 = w1
  w2 = w2
  virustotal = virustotal
  llm = llm
  NoVersion = NoVersion
  VT = virustotal
  Versions = {v1}
  Workers = {w1}
  Providers = {virustotal}
  Legacy = {virustotal}
  AutoPublish = FALSE
  BuildTasks = TRUE
  MaxAttempts = 2
  MaxPolls = 2
  MaxRequests = 2
  MaxFaults = 1
  PluginInputs = {}
  StatusInputs = {}
  Toggles = {}
CHECK_DEADLOCK FALSE
PROPERTIES PendingIsSettled WorkersDrain
