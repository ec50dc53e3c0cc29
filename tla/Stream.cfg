SPECIFICATION FairSpec
CONSTANTS
  MaxSends = 3
  MaxBlocks = 2
  MAX_STEALS = 1
  ISIZE_MAX = 31
  Calls = {"recv", "timeout", "try", "select"}
INVARIANTS NoPanic CountExact Delivery TokenOwnership NodesOwned
PROPERTY Progress
