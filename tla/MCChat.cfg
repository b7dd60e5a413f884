\* Either two calls about rooms and members, or one call and a page of a reader, or
\* messages and pages alone.
CONSTANTS
    Users = {u1, u2, u3}
    Rooms = {r1, r2}
    Jobs = {h1, h2}
    MaxMessages = 3
    MaxLoad = 2
    Readers = {u1}
    PageSize = 1
SYMMETRY Alike
SPECIFICATION CSpec
INVARIANTS OneDirectRoom OwnerStays NobodyLeftBehind PagesMeet SenderHears ReadWhenShown
CHECK_DEADLOCK FALSE
