SPECIFICATION Spec
CONSTANTS
  None = None
  ReadersPerLane = 1
  MainImageInputCap = 1
  MaxReadsPerSeekDevice = 1
  MaxReadsPerSolidStateDevice = 2
  SeekDepth = 1
  SolidStateDepth = 2
  MaxPrefetchCap = 2
  InitialCap = 1
  MainImageReaders = 2
  MaxDecodeWorkers = 5
  Source <- MCSource
  MainImage <- MCMainImage
  Answers <- StableAnswers
  Request = {"zipM", "nasM", "zip1"}
  Tracked = {"zipM", "nasM", "zip1"}
  Priorities = {1}
  ThreadCounts = {2}
  Cancelable = {"zipM", "nasM", "zip1"}
  MaxRequests = 4
  MaxChanges = 1
  MaxStops = 1
CHECK_DEADLOCK FALSE
INVARIANTS CapacityAccounted InOnePlace LiveExact BytesBounded LanesExact CanceledHoldNothing SlowDecodesHaveBytes
