\* Three in a call, one leaves: still a participant.
CONSTANTS
    Users = {u1, u2, u3}
    Rooms = {r1}
    Members <- MCMembers
    Handlers = {h1}
    MaxCalls = 1
    MaxTroubles = 0
SPECIFICATION Spec
SYMMETRY Symmetric
INVARIANT LeaversAreOut
CHECK_DEADLOCK FALSE
