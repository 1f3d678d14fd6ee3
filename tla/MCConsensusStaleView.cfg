\* An answer to GetView arrives after the repair it was asked for.
CONSTANTS
    N = 3
    PipelineMax = 1
    MaxPrepares = 2
    MaxView = 1
    MaxCrashes = 0
    MaxDelayed = 1
    TornWrites = FALSE
    Slow = {}
SPECIFICATION Spec
ACTION_CONSTRAINT Prompt
INVARIANTS CommittedOnQuorum
\* Without another request or a later view the cluster has nothing left to do.
CHECK_DEADLOCK FALSE
