SPECIFICATION LifecycleSpec
CONSTANTS
    Conns = {c1}
    Users = {u1}
    MaxMail = 1
    MaxGeneration = 0
INVARIANTS
    CleanExit
PROPERTIES
    ProgramExits
