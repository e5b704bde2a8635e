SPECIFICATION Spec
CONSTANT Frameworks <- Explored
CHECK_DEADLOCK FALSE
INVARIANT TypeOK
INVARIANT NoInstanceOfCompletedAttempt
INVARIANT NoPodOfCompletedTask
INVARIANT OneInstanceAtATime
INVARIANT SucceededMeansAllSucceeded
INVARIANT RetriesWithinPolicy
PROPERTY MonotonicallyExposed
PROPERTY KeepsLifecycle
