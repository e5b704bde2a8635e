SPECIFICATION FairSpec
CONSTANTS
    s1 = s1
    s2 = s2
    b1 = b1
    b2 = b2
    Submitters = {s1}
    Bodies = {b1}
    Rejectable <- NothingRejected
    RetainMode = FALSE
    Budgets <- PatchedOrDeleted
CHECK_DEADLOCK FALSE
PROPERTY EveryJobSettles
