SPECIFICATION FairSpec
CONSTANTS
  Threads = {a, b, c}
  Null = Null
  MaxCalls = 4
INVARIANTS RunsOnce NoUseAfterFree PoisonReported
PROPERTY WaitersReleased
