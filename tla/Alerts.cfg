SPECIFICATION Spec
CONSTANTS
    Jobs = {"v", "j"}
    Wanted <- MCWanted
    Results <- MCResults
    MaxRetries = 1
    Nodes = {"n1", "n2"}
    Pods = {"p", "q"}
    Hooks = {"cordon", "mail", "o1", "o2"}
    Outside <- MCOutside
    CordonHook = "cordon"
    MailHook = "mail"
    Budgets <- MCBudgets
INVARIANTS
    TypeOK
    NotifiedMeansAccepted
    ToldOnce
    ResultsReported
    CordonHolds
    DrainTellsPods
PROPERTIES
    RebootTellsPods
    EndNotified
    ReportedNodeCordoned
CHECK_DEADLOCK FALSE
