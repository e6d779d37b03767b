CONSTANTS
    LastBlock = 2
    Terminators <- TenTerminators
    Behind <- NativeBehind
    CalleeDefines = TRUE
    Fn = {1, 2, 3}
    Final = 3
    Instructions <- SeventeenInstructions
    RegisterBits = 4
    Alias = 8
    WindowBase = 4
    WindowSize = 4
    Fifo = {3}
    AccessWidth = 2
    Entered = {0, 5, 15}
    NativeServices = TRUE
    EntryPointSets <- FewEntryPoints
    Sections <- GuestSections
    Codes <- GuestCodes
    ExtraPoints <- FewPoints
    PatchSets <- GuestPatches
    HotChoices <- FourHot
    EntryChoices <- FewEntries
    Chunk = 2
    Neighbors = 1
    CallDepth = 1
    SuccessorDepth = 2
    PerObject = 2
    Chunks <- TenChunks
    MostChunks = 4
    Word = 2
    Page = 4
    Probes <- SomeAddresses
    Directories <- TwoModules
    HalfSize = 8
    Reach = 9
    BaseAddress = 33
    AutoAlign = 2
    Lines <- SomeLines
    Names <- FourNames
    IdentifierOf <- FewIdentifiers
    MostLines = 4
    TextSections <- TwoSections
    Hash <- Len
    RamUnits = 8
    Mapped = 12
    BlockUnits = 4
    Slots = 1
    Modes <- TwoModes
    Space = 4
    MsrValues <- TwoStates
INIT Init
NEXT Next
INVARIANTS
    MasksCoverCalls DefiniteIsDefined SummariesExact AccessIsWhereProven
    CodeCovered LookupFindsChunk
    ModulesApart RelocationsMeanTargets HeaderIsSound
    ReservationExclusive StatusInForce BackendsAgree
PROPERTIES ReturnsToInterrupted FaultsKeepMemory
CHECK_DEADLOCK FALSE
