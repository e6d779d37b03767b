SPECIFICATION Spec
CONSTANTS
  t1 = t1
  t2 = t2
  Thread <- TwoThreads
  RangeCount = 2
  WordCount = 1
  Mapped <- TwoRanges
  GenMod = 3
  CounterMod = 8
SYMMETRY Symmetry
VIEW CounterState
INVARIANTS UnavailableAccounting FastPathSound
