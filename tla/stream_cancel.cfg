SPECIFICATION Spec
CONSTANTS
    Shapes <- ThreeShapes
    MaxPackets = 2
    SplitsPackets = TRUE
    MixesDescriptors = FALSE
    MayClose = FALSE
    MaxGarbage = 2
    MaxOthers = 1
CHECK_DEADLOCK FALSE
INVARIANT FramingKept
