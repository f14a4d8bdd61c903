SPECIFICATION Spec
CONSTANTS
    RawAddresses <- MCRawAddresses
    Normalize <- MCNormalize
    HeaderTo = {"h"}
    MaxRecipients = 2
    MaxBytes = 2
    ChunkSizes = {0, 1}
    ErrThreshold = 1
    Slots = {1, 2}
    MaxChunks = 3
    Shutdowns = TRUE
INVARIANTS
    CallbackConfined
