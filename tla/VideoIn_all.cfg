SPECIFICATION FairSpec
CONSTANTS
  Numbers = 2
  Counts = {1, 2, 3}
  Full = 2
  KeyMax = 3
  MaxLost = 2
INVARIANTS TypeOK Intact
PROPERTIES Recovers
