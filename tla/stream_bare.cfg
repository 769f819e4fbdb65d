SPECIFICATION FairSpec
CONSTANTS
    Shapes <- ThreeShapes
    MaxPackets = 1
    SplitsPackets = TRUE
    MixesDescriptors = FALSE
    MayClose = FALSE
    MaxGarbage = 2
    MaxOthers = 1
CHECK_DEADLOCK FALSE
PROPERTY EveryPacketArrives
