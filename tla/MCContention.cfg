SPECIFICATION SlowSourcesMayHang
CONSTANTS
  None = None
  ReadersPerLane = 1
  MainImageInputCap = 1
  MaxReadsPerSeekDevice = 1
  MaxReadsPerSolidStateDevice = 2
  SeekDepth = 1
  SolidStateDepth = 2
  MaxPrefetchCap = 2
  InitialCap = 1
  MainImageReaders = 2
  MaxDecodeWorkers = 5
  Source <- MCSource
  MainImage <- MCMainImage
  Answers <- StableAnswers
  Request = {"hdd1", "hdd2", "zip1", "nas1"}
  Tracked = {"hdd1"}
  Priorities = {1, 2}
  ThreadCounts = {1}
  Cancelable = {"hdd1"}
  MaxRequests = 3
  MaxChanges = 1
  MaxStops = 0
CHECK_DEADLOCK FALSE
INVARIANTS PrefetchWithinCap DeviceReadsBounded AdmissionNeverStalls
PROPERTIES LastSlotToTopPriority AcceptedSettles
