CONSTANTS
    Copies = 4
    MaxSequence = 5
    MaxView = 0
    TornWrites = FALSE
SPECIFICATION Spec
INVARIANT NewestQuorumSelected
