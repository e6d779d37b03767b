\* One range with a memory access, no calls
SPECIFICATION Spec
CONSTANTS
    Outer = Outer
    Middle = Middle
    Leaf = Leaf
    r1 = r1
    r2 = r2
    cr = cr
    exc = exc
    Cacheable = {r1, r2}
    Control = {cr, exc}
    Published = {exc}
    Exception = exc
    Fn = {Outer}
    OwnDefs <- OneOwnDefs
    Used <- OneUsed
    Input <- OneInput
    Output <- OneOutput
    Calls <- OneCalls
    MemFn = {Outer}
    FifoFn = {}
    ServicedFn = {}
    ServiceDefs <- OneServiceDefs
    CallDepth = 2
INVARIANT
    StateMaterialized
