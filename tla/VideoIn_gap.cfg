SPECIFICATION FairSpec
CONSTANTS
  Numbers = 3
  Counts = {1, 2}
  Full = 1
  KeyMax = 1
  MaxLost = 1
PROPERTY Decodable
