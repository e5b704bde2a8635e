SPECIFICATION Spec
CONSTANTS
    Users = {"a", "u1", "u2"}
    AdminUser = "a"
    Groups = {"admin", "default", "vc", "team"}
    AdminGroup = "admin"
    DefaultGroup = "default"
    VCs = {"default", "vc"}
    Emails = {"e1", "e2"}
    Texts = {"t1", "t2"}
    Registered = {"u1"}
    Calls = {1, 2, 3}
    Boot = Boot
    Scripts <- MCScripts
    Refs = {"r1", "r2", "r3", "r4", "r5", "r6"}
    Budgets <- RestartOnly
    TokenIds = {"app", "web"}
    Browser = {"web"}
    NoCall = NoCall
PROPERTIES
    PasswordKept
CHECK_DEADLOCK FALSE
