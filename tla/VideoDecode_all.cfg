SPECIFICATION Spec
CONSTANTS
  RingLen = 3
  Junk = Junk
  Panels = {p1, p2}
  NoPanel = NoPanel
  Frames <- SmallFrames
  ReadMax = 2
INVARIANT OwnPicture
PROPERTY IsByteFifo
