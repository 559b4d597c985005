\* Is a failed verify step of a plan that :execute starts rolled back?
SPECIFICATION Spec
CONSTANTS
    NSteps = 2
    MaxAttempts = 1
    Paths = {"execute"}
INVARIANT VerifyFailureRollsBack
CHECK_DEADLOCK FALSE
