CONSTANTS
    Payloads <- MCPayloads
    Chunks = 4
    SetLen = 5
    Vectors <- MCVectors
SPECIFICATION Spec
CHECK_DEADLOCK FALSE
INVARIANTS
    Decodes
