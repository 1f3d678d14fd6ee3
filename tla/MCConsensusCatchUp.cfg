\* Two prepares with a pipeline of one: backups fall behind and repair by window.
CONSTANTS
    N = 3
    PipelineMax = 1
    MaxPrepares = 2
    MaxView = 1
    MaxCrashes = 0
    MaxDelayed = 0
    TornWrites = FALSE
    Slow = {}
SPECIFICATION Spec
ACTION_CONSTRAINT Prompt
INVARIANTS TypeOK Agreement NeverFailStop
\* Without another request or a later view the cluster has nothing left to do.
CHECK_DEADLOCK FALSE
