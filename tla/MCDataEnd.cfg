SPECIFICATION Spec
CONSTANTS
    Payloads <- MCBareCR
    MaxBytes = 9
    BufferSizes = {1, 5}
INVARIANTS
    EndDetected
