SPECIFICATION Spec
CONSTANTS
    Clients = {"merger", "poller"}
    Poller = "poller"
    Explored <- Disturbed
INVARIANTS
    TypeOK
    AddOnsComplete
PROPERTY AddOnsCollected
CHECK_DEADLOCK FALSE
