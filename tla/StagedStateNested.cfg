\* Three levels of calls, no services: only calls, returns and exits
SPECIFICATION Spec
CONSTANTS
    Outer = Outer
    Middle = Middle
    Leaf = Leaf
    r1 = r1
    r2 = r2
    cr = cr
    exc = exc
    Cacheable = {r1, r2}
    Control = {cr, exc}
    Published = {exc}
    Exception = exc
    Fn = {Outer, Middle, Leaf}
    OwnDefs <- MCOwnDefs
    Used <- MCUsed
    Input <- MCInput
    Output <- MCOutput
    Calls <- MCCalls
    MemFn = {}
    FifoFn = {}
    ServicedFn = {}
    ServiceDefs <- MCServiceDefs
    CallDepth = 2
INVARIANT
    StateMaterialized
