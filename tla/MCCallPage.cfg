SPECIFICATION KSpec
CONSTANTS
    m1 = m1
    c1 = c1
    zoe = zoe
    ann = ann
    bob = bob
    MatchRooms = {m1}
    Chats = {c1}
    Members <- MCMembers
    Slots = {1, 2}
    MaxClicks = 2
    MaxActs = 3
CHECK_DEADLOCK FALSE
INVARIANTS
    EndedIsClean
    SeatedIsShown
    ShownIsSeated
    MutedIsSilent
    EverybodyConsumed
    PeopleShown
SYMMETRY Alike
