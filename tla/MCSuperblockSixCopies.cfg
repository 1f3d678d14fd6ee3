CONSTANTS
    Copies = 6
    MaxSequence = 3
    MaxView = 0
    TornWrites = FALSE
SPECIFICATION Spec
INVARIANT ReopenSucceeds
