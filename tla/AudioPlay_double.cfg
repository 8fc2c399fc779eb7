SPECIFICATION Spec
CONSTANTS
  NodeMax = 3
  EventMax = 2
INVARIANT RingsOnce
