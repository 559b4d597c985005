\* A policy that lists environments, and a request that brings allowed_envs.
SPECIFICATION Spec
CONSTANTS
    MaxTargets = 2
    DayLength = 4
INVARIANTS
    PolicyEnvironmentsWin
CHECK_DEADLOCK FALSE
