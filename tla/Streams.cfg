\* One reader, three keys, and a history, a channel and a table that overflow.
SPECIFICATION Spec
CONSTANTS
    Keys = {k1, k2, k3}
    All = All
    Streams = {s1}
    Cap = 2
    MaxLines = 2
    MaxKeys = 2
    MaxMsgs = 4
INVARIANTS
    StreamsInv
    StreamExact
PROPERTIES
    WatchedHistoryKept
CHECK_DEADLOCK FALSE
