SPECIFICATION FairSpec
CONSTANTS
  JobCount = 5
  Workers = 2
  BatchSize = 2
  Strangers = 1
INVARIANTS OneEmitter NoJobLost
PROPERTIES ImplementsBatch PoolReturns
