\* A view change and one restart at any point, writes torn or not; storage is
\* slow, execution prompt.
CONSTANTS
    N = 3
    PipelineMax = 2
    MaxPrepares = 1
    MaxView = 1
    MaxCrashes = 1
    MaxDelayed = 0
    TornWrites = TRUE
    Slow = {"append", "persist", "repair"}
SPECIFICATION Spec
ACTION_CONSTRAINT Prompt
INVARIANTS CommittedOnQuorum JoinReportsAcknowledged
PROPERTIES NoAckAfterJoin
\* Without another request or a later view the cluster has nothing left to do.
CHECK_DEADLOCK FALSE
