SPECIFICATION Spec
CONSTANTS
  Threads = {a, b}
  MaxCalls = 4
INVARIANT WaitAssertion
