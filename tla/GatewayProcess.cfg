\* One background goroutine at a time, two starts, one failing call, two
\* schedules with a page of one row, two sources and a channel of one snapshot.
SPECIFICATION Spec
CONSTANTS
    Schedules = {s1, s2}
    BadCron = BadCron
    Crons = {1, BadCron}
    Limit = 1
    MaxTime = 3
    Pollers <- TwoPollers
    K8sSources = {"kubernetes"}
    Breakable = {"argocd"}
    ChanCap = 1
    ErrsCap = 1
    MaxChanges = 2
    Configs = {{"scheduler"}, {"context-service"}, {"alert-poller", "approvals", "log-stream"}}
    MaxStarts = 2
    MaxFaults = 1
INVARIANTS
    ProcessInv
    OncePerTime
PROPERTIES
    DeathShows
    DuePlanned
    GraphCatchesUp
    CleanExit
CHECK_DEADLOCK FALSE
