\* A backup restarts with the prepare of its head torn.
CONSTANTS
    N = 3
    PipelineMax = 2
    MaxPrepares = 2
    MaxView = 0
    MaxCrashes = 1
    MaxDelayed = 0
    TornWrites = TRUE
    Slow = {"append"}
SPECIFICATION Spec
ACTION_CONSTRAINT Prompt
INVARIANTS ExecutedPrefix
\* Without another request or a later view the cluster has nothing left to do.
CHECK_DEADLOCK FALSE
