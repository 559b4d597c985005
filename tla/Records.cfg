\* A row to begin with, two requests that create rows, one session, and two
\* gateways that may crash and start again; pages of one or two rows.
SPECIFICATION Spec
CONSTANTS
    Tenants = {"t1", "t2"}
    Reader = "t1"
    Sessions = {"s1"}
    Foreign = "s2"
    Names = {w1, w2}
    Reqs = {r1, r2}
    Gateways = {g1, g2}
    SessionRequired = TRUE
    FirstRows = 1
    MaxRows = 3
    Limits = {0, 3}
    DefaultLimit = 1
    MaxLimit = 2
    MaxStarts = 2
INVARIANTS
    RecordsInv
    WalkExact
    SessionAccess
PROPERTIES
    VersionsGrow
SYMMETRY Symmetry
