\* Two users, three sockets between them, so that one of them may have two
\* tabs, or reconnect; one crash or failure.
CONSTANTS
    Users = {u1, u2}
    GameTypes = {"valorant"}
    Handlers = {h1}
    MaxWaitTimeDiff = 0
    PopCount = 2
    MaxTime = 0
    MaxRequests = 2
    MaxFaults = 1
    MaxSockets = 3
SPECIFICATION GSpec
SYMMETRY Symmetric
INVARIANTS SocketReachable UndisturbedMatchTold PartnerLearns
CHECK_DEADLOCK FALSE
