SPECIFICATION Spec
CONSTANT Frameworks <- ConfigMapDeleted
CHECK_DEADLOCK FALSE
INVARIANT NothingRunsAfterCompletion
