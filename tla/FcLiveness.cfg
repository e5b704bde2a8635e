SPECIFICATION FairSpec
CONSTANT Frameworks <- Fair
CHECK_DEADLOCK FALSE
PROPERTY EveryFrameworkCompletes
PROPERTY NothingIsLeaked
