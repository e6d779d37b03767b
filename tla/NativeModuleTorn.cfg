SPECIFICATION Spec
CONSTANTS
  t1 = t1
  t2 = t2
  Thread <- TwoThreads
  RangeCount = 1
  WordCount = 2
  Mapped <- FirstRange
  GenMod = 5
  CounterMod = 8
VIEW LiveState
INVARIANTS ValidMeansUnchanged
PROPERTIES ChangedUntilInvalidated ImplementsValidity
