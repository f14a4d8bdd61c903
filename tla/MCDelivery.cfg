SPECIFICATION Spec
CONSTANTS
    Procs = {p1, p2}
    MaxOrphans = 0
    Addresses <- MCAddresses
    RawAddresses <- MCRawAddresses
    Normalize <- MCNormalize
    Blank = "blank"
    Inputs <- RichInputs
    Operations <- DeliveryOperations
    Times <- MCTimes
    MaxBorn = 3
    MaxMailboxId = 4
    MaxGeneration = 0
SYMMETRY Symmetry
INVARIANTS
    TablesConsistent
    LastMessageBound
    CalendarProvenance
    NoLostInvalidation
PROPERTIES
    AllOrNothing
