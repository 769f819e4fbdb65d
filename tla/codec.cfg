SPECIFICATION Spec
CONSTANTS
    Byte = 16
    Values <- MCValues
    SomeId = 1000
    Misreadings = {1, 2}
CHECK_DEADLOCK FALSE
INVARIANTS CodecTypeOK RoundTrip WellFormedAccepted Delimited ReaderInBounds Regenerated
