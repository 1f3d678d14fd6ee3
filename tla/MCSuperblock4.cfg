CONSTANTS
    Copies = 4
    MaxSequence = 6
    MaxView = 1
    TornWrites = TRUE
SPECIFICATION Spec
INVARIANTS TypeOK PersistDurable NoFork ReopenSucceeds
