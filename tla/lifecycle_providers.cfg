SPECIFICATION Spec
CONSTANTS
  v1 = v1
  v2 = v2
  w1 = w1
  w2 = w2
  virustotal = virustotal
  llm = llm
  NoVersion = NoVersion
  VT = virustotal
  Versions = {v1}
  Workers = {w1}
  Providers = {virustotal, llm}
  Legacy = {virustotal, llm}
  AutoPublish = TRUE
  BuildTasks = FALSE
  MaxAttempts = 2
  MaxPolls = 1
  MaxRequests = 2
  MaxFaults = 0
  PluginInputs = {}
  StatusInputs = {"deprecated"}
  Toggles = {llm}
CHECK_DEADLOCK FALSE
PROPERTIES PassedIsPublished
