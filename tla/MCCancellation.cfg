SPECIFICATION FairSpec
CONSTANTS
  None = None
  Request = {r1, r2}
  Tracked = {r1}
  Polite = {r1}
  Thread = {t1, t2}
  Background = {t1}
  Calls = {"BoundedShutdown", "SetThreadCount"}
  MaxStops = 2
CHECK_DEADLOCK FALSE
INVARIANTS StopLostOnlyByRestart NoReadEscapesStop PartialNeverDecoded
PROPERTIES LateCancelHitsNoOther StopEnds
