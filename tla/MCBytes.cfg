SPECIFICATION MCSpec
CONSTANTS
  None = None
  NoVolume = NoVolume
  Path <- MCPath
  Volume = {"c"}
  VolumeOf <- MCVolumeOf
  PathOf <- MCPathOf
  Lane <- MCLane
  Request = {"a1", "a2", "b1"}
  Readers = {t1, t2}
  Caps = {1, 2}
  InitialCap = 1
  Drive = {"c"}
  Disk = {hdd, ssd}
  NoSeek = {ssd}
  Caller = {p1, p2}
  Nobody = Nobody
  OwnDevice = OwnDevice
  Interval = 2
  MaxTime = 4
SYMMETRY ReaderSymmetry
CHECK_DEADLOCK FALSE
INVARIANTS CacheAccounted NoEntryStranded TopologyIsRecent
