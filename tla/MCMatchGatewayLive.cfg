\* Liveness, without symmetry: two users with a socket each, one handler,
\* a gap between two requests possible.
CONSTANTS
    Users = {u1, u2}
    GameTypes = {"valorant"}
    Handlers = {h1}
    MaxWaitTimeDiff = 0
    PopCount = 2
    MaxTime = 1
    MaxRequests = 3
    MaxFaults = 1
    MaxSockets = 2
SPECIFICATION GSpec
PROPERTIES HeldIsTemporary NotifyEnds
CHECK_DEADLOCK FALSE
