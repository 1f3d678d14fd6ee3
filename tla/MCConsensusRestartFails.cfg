\* A replica restarts that knew of a commit it does not hold.
CONSTANTS
    N = 3
    PipelineMax = 2
    MaxPrepares = 1
    MaxView = 1
    MaxCrashes = 1
    MaxDelayed = 0
    TornWrites = FALSE
    Slow = {"append", "commit", "persist", "repair"}
SPECIFICATION Spec
ACTION_CONSTRAINT Prompt
INVARIANTS NeverFailStop
\* Without another request or a later view the cluster has nothing left to do.
CHECK_DEADLOCK FALSE
