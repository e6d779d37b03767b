SPECIFICATION Spec
CONSTANTS
  t1 = t1
  t2 = t2
  Thread <- OneThread
  RangeCount = 2
  WordCount = 2
  Mapped <- TwoRanges
  GenMod = 3
  CounterMod = 8
VIEW LiveState
PROPERTIES EntryIsCurrent
