SPECIFICATION FairSpec
CONSTANTS
    Prime = 23
    Generator = 2
    Base = 4
    Width = 3
    IvLength = 2
    login = login
    default = default
    Collections <- MCCollections
    LabelOf <- MCLabelOf
    WantedLabel = "Default keyring"
    MaxServiceStarts = 2
    MaxWatcherStarts = 2
    MaxLosses = 1
    MaxPending = 2
CHECK_DEADLOCK FALSE
INVARIANTS StartupTypeOK OwnerNotMissed SessionKeysAgree StrongestAlgorithm IconKept
PROPERTY StartupProgresses
