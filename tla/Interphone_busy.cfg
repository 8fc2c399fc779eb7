SPECIFICATION Spec
CONSTANTS
  Monitors = {m1, m2}
  Timeout = 1
  MaxUnderWay = 2
  MaxLost = 0
INVARIANT Shared
