SPECIFICATION Spec
CONSTANTS
  BufferMax = 2
  Batch = 2
  VideoKinds = {"sps", "pps", "i"}
  AudioModes = {FALSE}
  Codings = {0}
  Threads = {t1, t2}
  MaxTime = 0
INVARIANTS WritingIsReady OnePlace
