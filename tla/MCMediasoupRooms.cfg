\* Two users, one room, six jobs, and one trouble: two handlers that meet, or a fault.
CONSTANTS
    Users = {u1, u2}
    Locks = {r1}
    Handlers = {h1, h2}
    WorkerCount = 1
    MaxRetries = 2
    MaxJobs = 6
    MaxThings = 5
    MaxFaults = 1
SPECIFICATION Spec
SYMMETRY Symmetric
INVARIANTS NoRouterLost NothingDangles MetricsAgree NobodyLeftAlone
CHECK_DEADLOCK FALSE
