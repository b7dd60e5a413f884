\* Two people and one mail; four requests of one browser, or three requests
\* without it, with one failure among them, and pauses of ten minutes.
CONSTANTS
    People = {"ann", "bob"}
    NameOf <- MCNameOf
    Me = "ann"
    Mails = {"mail"}
    Jobs = {j1, j2, j3, j4}
    Limit = 2
    MaxUsers = 2
    MaxSessions = 4
    MaxCodes = 2
    MaxFaults = 1
    MaxVisits = 3
    MaxAtOnce = 2
    MaxLoad = 4
SPECIFICATION SSpec
SYMMETRY Alike
INVARIANTS OneRefresh SignedOutStays ShownHasSession OneAccountEach
CHECK_DEADLOCK FALSE
