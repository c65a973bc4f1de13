SPECIFICATION PartsSpec
CONSTANTS
  Parts = {"rwlock"}
  Task = {t1, t2, t3}
  Event = {e1, e2}
  NULL = NULL
  Reader = {r1, r2}
  Writer = {w1, w2}
  WRITE_LOCK = 8
  TickWrap = 6
  DebounceDelay = 1
  TickDelay = 2
  MaxClicks = 2
  OtherDelays = {2}
  MaxLag = 0
  MaxOthers = 1
  Host = {h1, h2, h3}
  ARP_MAX_ENTRIES = 2
  ARP_MAX_ATTEMPTS = 2
  MaxFrames = 1
  LinuxTimer = {lt1, lt2, lt3}
  JiffyWrap = 6
  LinuxDelays = {1, 2}
  LinuxTimeouts = {2}
  MaxDone = 2
  Title = {kernel, other}
  Handle = {1, 2}
  Version = {"new"}
  ClusterCount = 3
  FAT_BUFFERS = 3
  MaxSectors = 2
  Hints = {3}
  FILENAME_KERNEL = kernel
  OldSize = 2
  NewSizes = {1, 3, 4, 5, 6}
  KRL_FILE_SIZE = 5
  TIMEOUT = 2
INVARIANTS Exclusion
