\* findMatchingUsers puts back users it matched: a user ends in two matches
\* for one request. No fault is needed.
CONSTANTS
    Users = {u1, u2, u3}
    GameTypes = {"valorant"}
    Handlers = {h1}
    MaxWaitTimeDiff = 0
    PopCount = 3
    MaxTime = 1
    MaxRequests = 4
    MaxFaults = 0
SPECIFICATION Spec
SYMMETRY Symmetric
INVARIANT OneMatchPerRequest
CHECK_DEADLOCK FALSE
