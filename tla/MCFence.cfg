SPECIFICATION Spec
CONSTANTS
    Procs = {p1, p2}
    MaxOrphans = 0
    Addresses <- OneAddress
    RawAddresses <- OneRawAddress
    Normalize <- OneNormalize
    Blank = "blank"
    Inputs <- PlainInputs
    Operations <- FenceOperations
    Times = {1}
    MaxBorn = 2
    MaxMailboxId = 2
    MaxGeneration = 1
SYMMETRY Symmetry
INVARIANTS
    TokenFence
    NoLostInvalidation
PROPERTIES
    FencedEffects
