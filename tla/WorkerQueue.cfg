SPECIFICATION FairSpec
CONSTANTS
  JobCount = 4
  MaxRequest = 5
  HandleLimit = 3
INVARIANTS TypeOK OneWriter
PROPERTIES ImplementsBatch CallerReturns
