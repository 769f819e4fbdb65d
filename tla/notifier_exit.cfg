SPECIFICATION FairSpec
CONSTANTS
    github = github
    gitlab = gitlab
    gitlab2 = gitlab2
    t1 = t1
    t2 = t2
    Tasks = {t1, t2}
    Items <- TwoItems
    LabelOf <- TwoLabels
    InitialKeyring <- TwoItems
    CallKinds <- AllCalls
    HandlersPanic = FALSE
    MaxCalls = 3
    MaxEdits = 0
CHECK_DEADLOCK FALSE
PROPERTY ExitEnds
