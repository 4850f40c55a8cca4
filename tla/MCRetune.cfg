SPECIFICATION Spec
CONSTANTS
  None = None
  ReadersPerLane = 2
  MainImageInputCap = 2
  MaxReadsPerSeekDevice = 2
  MaxReadsPerSolidStateDevice = 3
  SeekDepth = 2
  SolidStateDepth = 4
  MaxPrefetchCap = 8
  InitialCap = 4
  MainImageReaders = 2
  MaxDecodeWorkers = 5
  Source <- MCSource
  MainImage <- MCMainImage
  Answers <- StableAnswers
  Request = {"hdd1"}
  Tracked = {"hdd1"}
  Priorities = {1}
  ThreadCounts = {2}
  Cancelable = {}
  MaxRequests = 4
  MaxChanges = 2
  MaxStops = 1
CHECK_DEADLOCK FALSE
INVARIANTS CapIsSumOfDepths
