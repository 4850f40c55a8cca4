SPECIFICATION MCSpec
CONSTANTS
  None = None
  NoVolume = NoVolume
  Path <- ArchivePath
  Volume = {"c"}
  VolumeOf <- ArchiveVolumeOf
  PathOf <- ArchivePathOf
  Lane <- ArchiveLane
  Request = {"z1", "z2", "z3"}
  Readers = {t1, t2}
  Caps = {2}
  InitialCap = 4
  Drive = {"c"}
  Disk = {hdd, ssd}
  NoSeek = {ssd}
  Caller = {p1, p2}
  Nobody = Nobody
  OwnDevice = OwnDevice
  Interval = 1
  MaxTime = 1
SYMMETRY ReaderSymmetry
CHECK_DEADLOCK FALSE
INVARIANTS WorstCaseIsCap
