\* Every service, call and exit, three levels of calls
SPECIFICATION Spec
CONSTANTS
    Outer = Outer
    Middle = Middle
    Leaf = Leaf
    r1 = r1
    r2 = r2
    cr = cr
    exc = exc
    Cacheable = {r1, r2}
    Control = {cr, exc}
    Published = {exc}
    Exception = exc
    Fn = {Outer, Middle, Leaf}
    OwnDefs <- MCOwnDefs
    Used <- MCUsed
    Input <- MCInput
    Output <- MCOutput
    Calls <- MCCalls
    MemFn = {Outer, Leaf}
    FifoFn = {Middle, Leaf}
    ServicedFn = {Middle}
    ServiceDefs <- MCServiceDefs
    CallDepth = 2
INVARIANTS
    RegistersPublished
    LocalsCurrent
    MasksTellTruth
    OnlyKnownLosses
