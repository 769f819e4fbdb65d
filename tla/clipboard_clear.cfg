SPECIFICATION Spec
CONSTANTS
    IdSpace = 64
    ServerIdBase = 32
    MenuKinds <- AllKinds
    PasteTypes <- OnePasteType
    ReadersVanish = TRUE
    MaxCopies = 2
    MaxGlobals = 2
    MaxTakeovers = 1
    MaxPastes = 1
    MaxSeatLosses = 1
CHECK_DEADLOCK FALSE
INVARIANT ProtocolKept
