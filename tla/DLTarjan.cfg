SPECIFICATION Spec
CONSTANTS
  N = 4
  EdgeLists <- ShortLists
INVARIANTS ComponentsAreMutualReach ReverseTopological
CHECK_DEADLOCK FALSE
