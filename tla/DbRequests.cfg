SPECIFICATION Spec
CONSTANTS
    s1 = s1
    s2 = s2
    b1 = b1
    b2 = b2
    Submitters = {s1, s2}
    Bodies = {b1, b2}
    Rejectable <- SomeRejected
    RetainMode = TRUE
    Budgets <- RacedOrDisturbed
CHECK_DEADLOCK FALSE
INVARIANT TypeOK
INVARIANT GenerationIdentifiesRequest
INVARIANT SyncedRequestReachedApiServer
PROPERTY RequestNeverRolledBack
PROPERTY KeepsPromise
