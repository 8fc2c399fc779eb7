SPECIFICATION Spec
CONSTANTS
  BufferMax = 3
  Batch = 2
  VideoKinds = {"whole", "p"}
  AudioModes = {TRUE}
  Codings = {0}
  Threads = {t1}
  MaxTime = 3
INVARIANT PoolRestored
