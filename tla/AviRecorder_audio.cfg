SPECIFICATION Spec
CONSTANTS
  BufferMax = 2
  Batch = 1
  VideoKinds = {"whole", "p"}
  AudioModes = {TRUE, FALSE}
  Codings = {0, 1}
  Threads = {t1, t2}
  MaxTime = 2
SYMMETRY Alike
INVARIANTS TypeOK CaptureOrder NoLeftover
