SPECIFICATION FairSpec
CONSTANTS
    github = github
    gitlab = gitlab
    gitlab2 = gitlab2
    t1 = t1
    t2 = t2
    Tasks = {t1, t2}
    Items <- MCItems
    LabelOf <- MCLabelOf
    InitialKeyring <- MCKeyring
    CallKinds <- AllCalls
    HandlersPanic = TRUE
    MaxCalls = 3
    MaxEdits = 1
CHECK_DEADLOCK FALSE
INVARIANTS TypeOK NoUseAfterDrop LayoutCurrent ClickResolves UpdateComplete
PROPERTIES CallsAnswered StuckOnlyOnSessionLock
