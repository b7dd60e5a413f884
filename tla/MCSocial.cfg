\* A user who stays and one who comes and goes with two tabs, or three calls
\* about friendship, or one tab and one call.
CONSTANTS
    Users = {u1, u2}
    Requests = {r1, r2}
    Friendships = {f1, f2}
    Jobs = {h1, h2}
    MaxCalls = 3
    Sockets = {s0, s1, s2}
    Resident = u2
    Home = s0
    Crons = {c1}
    MaxLoad = 6
SPECIFICATION PSpec
INVARIANTS OnePerPair NotAskedOfFriends FriendsAgreed PresenceAgrees ToldWhenGone
PROPERTY Forgotten
CHECK_DEADLOCK FALSE
