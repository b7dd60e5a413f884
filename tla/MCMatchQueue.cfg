\* Two concurrent handlers, three users, one of them able to ask again.
CONSTANTS
    Users = {u1, u2, u3}
    GameTypes = {"valorant"}
    Handlers = {h1, h2}
    MaxWaitTimeDiff = 1
    PopCount = 3
    MaxTime = 2
    MaxRequests = 4
    MaxFaults = 1
SPECIFICATION Spec
SYMMETRY Symmetric
INVARIANTS TypeOK NoWaiterLost WithdrawalSticks OneMatchUnlessGap
CHECK_DEADLOCK FALSE
