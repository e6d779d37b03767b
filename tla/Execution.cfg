SPECIFICATION ExecutionSpec
CONSTANTS
    Last = 1
    Cost = 1
    Budgets <- TwoBudgets
    Remainders <- SomeRemainders
    DepthLimit = 2
    MostRenewals = 1
    Cap = 13
    Programs <- SomePrograms
    End = 4
    Starts = {0, 3}
    LoopBudget = 2
    CallDepthLimit = 2
VIEW LiveState
INVARIANTS CyclesAccounted PcIsExact
PROPERTIES HostGetsControl CodeReturns CallsReturn
CHECK_DEADLOCK FALSE
