\* The poller next to one webhook delivery at a time.
SPECIFICATION Spec
CONSTANTS
    Alerts = {a1}
    Relevant = {a1}
    Hooks = {h1}
    Window = 2
    Backoff = 2
    MinCount = 2
    DedupWindow = 2
    MaxDelay = 1
    MaxFaults = 1
    MaxRestarts = 1
PROPERTIES
    GateHolds
    AlertPlanned
