SPECIFICATION FairSpec
CONSTANTS
  NodeMax = 3
  EventMax = 2
INVARIANTS NodesKept TalkIsSilent OneRing
PROPERTIES StopReturns RingGoesOn
