SPECIFICATION SlowSourcesMayHang
CONSTANTS
  None = None
  ReadersPerLane = 2
  MainImageInputCap = 2
  MaxReadsPerSeekDevice = 2
  MaxReadsPerSolidStateDevice = 3
  SeekDepth = 2
  SolidStateDepth = 4
  MaxPrefetchCap = 8
  InitialCap = 4
  MainImageReaders = 2
  MaxDecodeWorkers = 5
  Source <- MCSource
  MainImage <- MCMainImage
  Answers <- StableAnswers
  Request = {"hdd1", "hddM", "zip1"}
  Tracked = {"hdd1", "hddM", "zip1"}
  Priorities = {1}
  ThreadCounts = {0, 2}
  Cancelable = {"hddM"}
  MaxRequests = 2
  MaxChanges = 0
  MaxStops = 2
CHECK_DEADLOCK FALSE
INVARIANTS TypeOK StoppedIsQuiet
PROPERTIES ImplementsLifecycle LocalNeverWaitsForSlow StopCompletes
