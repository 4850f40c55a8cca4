SPECIFICATION WakeupSpec
CONSTANTS
  None = None
  ReadersPerLane = 1
  MainImageInputCap = 1
  MaxReadsPerSeekDevice = 2
  MaxReadsPerSolidStateDevice = 3
  SeekDepth = 1
  SolidStateDepth = 2
  MaxPrefetchCap = 2
  InitialCap = 1
  MainImageReaders = 1
  MaxDecodeWorkers = 5
  Source <- MCSource
  MainImage <- MCMainImage
  Answers <- StableAnswers
  Request = {"hdd1", "zip1", "zipM"}
  Tracked = {"hdd1", "zip1", "zipM"}
  Priorities = {1, 2}
  ThreadCounts = {0, 1}
  Cancelable = {"zip1"}
  MaxRequests = 2
  MaxChanges = 1
  MaxStops = 1
CHECK_DEADLOCK FALSE
INVARIANTS NoneSleepsBesideWork QueueKeysCurrent
