\* Two members, two view changes, a restart, an answer to GetView in flight; a
\* superblock write may be overtaken, so that a view change has to wait for it.
CONSTANTS
    N = 2
    PipelineMax = 1
    MaxPrepares = 2
    MaxView = 2
    MaxCrashes = 1
    MaxDelayed = 1
    TornWrites = FALSE
    Slow = {"persist"}
SPECIFICATION Spec
ACTION_CONSTRAINT Prompt
INVARIANTS OnePreparePerViewOp ExecutedPrefix NeverFailStop
\* Without another request or a later view the cluster has nothing left to do.
CHECK_DEADLOCK FALSE
