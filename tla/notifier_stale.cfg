SPECIFICATION Spec
CONSTANTS
    github = github
    gitlab = gitlab
    gitlab2 = gitlab2
    t1 = t1
    t2 = t2
    Tasks = {t1, t2}
    Items <- TwoItems
    LabelOf <- TwoLabels
    InitialKeyring <- TwoItems
    CallKinds <- MenuCalls
    HandlersPanic = FALSE
    MaxCalls = 4
    MaxEdits = 1
CHECK_DEADLOCK FALSE
INVARIANT ChosenAccountCopied
