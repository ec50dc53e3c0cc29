SPECIFICATION FairSpec
CONSTANTS
  Threads = {a, b, c}
  MaxCalls = 5
INVARIANTS MutualExclusion SleepersKnown
PROPERTY LockersGetIn
