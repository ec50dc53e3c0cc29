SPECIFICATION FairSpec
CONSTANTS
  Senders = {s1, s2}
  Creator = s1
  Child = s2
  MaxSends = 2
  MaxClones = 1
  MaxBlocks = 2
  MAX_STEALS = 0
  FUDGE = 3
  ISIZE_MAX = 31
  Calls = {"recv", "timeout", "try", "select"}
INVARIANTS NoPanic CountExact Delivery TokenOwnership
PROPERTY BlockedWakes
