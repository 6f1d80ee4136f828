SPECIFICATION RewrapSpec
CONSTANTS
  Reports = {1, 2, 3}
  Unreadable = {2}
  Servers = {api, worker}
  RewrapLimit = 2
  MaxBatches = 2
  NoKey = NoKey
  MaxServices = 2
  MaxRewrapFaults = 1
  MaxScrubs = 1
PROPERTIES RedactionIsFinal
CHECK_DEADLOCK FALSE
