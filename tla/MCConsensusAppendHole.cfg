\* Appends complete out of order before a restart.
CONSTANTS
    N = 3
    PipelineMax = 2
    MaxPrepares = 2
    MaxView = 1
    MaxCrashes = 1
    MaxDelayed = 0
    TornWrites = FALSE
    Slow = {"append"}
SPECIFICATION Spec
ACTION_CONSTRAINT Prompt
INVARIANTS JoinReportsAcknowledged
\* Without another request or a later view the cluster has nothing left to do.
CHECK_DEADLOCK FALSE
