SPECIFICATION Spec
CONSTANTS
    IdSpace = 64
    ServerIdBase = 32
    MenuKinds <- ShippedKinds
    PasteTypes <- TwoPasteTypes
    ReadersVanish = FALSE
    MaxCopies = 3
    MaxGlobals = 3
    MaxTakeovers = 2
    MaxPastes = 1
    MaxSeatLosses = 0
CHECK_DEADLOCK FALSE
INVARIANTS TypeOK RequestsLegal DispatchSound OwnershipTracked PastesAreFresh NoDescriptorLeak CopyPublished
PROPERTY SelectionPromised
