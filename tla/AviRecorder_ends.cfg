SPECIFICATION FairSpec
CONSTANTS
  BufferMax = 2
  Batch = 2
  VideoKinds = {"whole", "sps", "p"}
  AudioModes = {TRUE, FALSE}
  Codings = {0}
  Threads = {t1, t2}
  MaxTime = 0
INVARIANT PoolRestored
PROPERTIES VideoLeaves StopFinishes
