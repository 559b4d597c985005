\* Plans of two steps in every combination of stages and rollbacks, started by
\* either path.
SPECIFICATION Spec
CONSTANTS
    NSteps = 2
    MaxAttempts = 2
    Paths = {"workflow", "execute"}
INVARIANTS
    ExecutionInv
    StagedFailureRollsBack
PROPERTIES
    NoStepAfterRollback
    LifecycleSpec
    Termination
CHECK_DEADLOCK FALSE
