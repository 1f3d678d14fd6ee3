\* A View arrives while an op is being executed.
CONSTANTS
    N = 3
    PipelineMax = 1
    MaxPrepares = 2
    MaxView = 0
    MaxCrashes = 0
    MaxDelayed = 0
    TornWrites = FALSE
    Slow = {"append", "commit", "persist", "repair"}
SPECIFICATION FairSpec
ACTION_CONSTRAINT Prompt
PROPERTIES Converges
\* Without another request or a later view the cluster has nothing left to do.
CHECK_DEADLOCK FALSE
