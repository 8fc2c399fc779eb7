SPECIFICATION FairSpec
CONSTANTS
  Monitors = {m1, m2, m3}
  First = m1
  Parts = 2
  Timeout = 1
  MaxRounds = 2
  MaxLost = 1
INVARIANT OneTime
PROPERTIES DoorStays SaverComes
