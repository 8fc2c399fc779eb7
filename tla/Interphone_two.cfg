SPECIFICATION FairSpec
CONSTANTS
  Monitors = {m1, m2}
  Timeout = 1
  MaxUnderWay = 2
  MaxLost = 1
INVARIANTS TypeOK OneCall Agreed
PROPERTIES CallEnds RingEnds
