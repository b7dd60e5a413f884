\* One room of three members, two calls, and one trouble: two handlers that
\* meet, a disconnection, a key that expires after an hour, or a crash.
CONSTANTS
    Users = {u1, u2, u3}
    Rooms = {r1}
    Members <- MCMembers
    Handlers = {h1, h2}
    MaxCalls = 2
    MaxTroubles = 1
SPECIFICATION Spec
SYMMETRY Symmetric
INVARIANTS ParticipantsConsented RequestConsistent CallConsistent
CHECK_DEADLOCK FALSE
