SPECIFICATION FairSpec
CONSTANTS
  Oneshots = {p1, p2}
  Bounded = {p3}
  Null = Null
  Cap = 1
  MaxSends = 2
  MaxWaits = 2
INVARIANT WaitSound
PROPERTY WaitReturns
