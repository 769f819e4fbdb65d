SPECIFICATION FairSpec
CONSTANTS
    Shapes <- ThreeShapes
    MaxPackets = 2
    SplitsPackets = TRUE
    MixesDescriptors = TRUE
    MayClose = TRUE
    MaxGarbage = 2
    MaxOthers = 2
CHECK_DEADLOCK FALSE
INVARIANTS StreamTypeOK FramingKeptUntilDrop
PROPERTIES ChannelImplemented OthersTakenWhileOpen
