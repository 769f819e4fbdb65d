SPECIFICATION FairSpec
CONSTANTS
    IdSpace = 64
    ServerIdBase = 32
    MenuKinds <- ShippedKinds
    PasteTypes <- TwoPasteTypes
    ReadersVanish = FALSE
    MaxCopies = 2
    MaxGlobals = 2
    MaxTakeovers = 1
    MaxPastes = 1
    MaxSeatLosses = 0
CHECK_DEADLOCK FALSE
PROPERTIES ExitStops PastesAnswered DeviceObtained
