SPECIFICATION Spec
CONSTANTS
    Conns = {c1, c2}
    Users = {u1}
    MaxMail = 2
    MaxGeneration = 1
SYMMETRY Symmetry
INVARIANTS
    DrainedForGood
    DeletionExact
