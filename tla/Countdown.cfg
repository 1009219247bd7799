SPECIFICATION StartSpec
CONSTANTS
    Users = {u1, u2, u3}
    NoUser = NoUser
    Games = {g1, g2}
    Modes = {"open", "approval", "closed"}
    Capacity = 2
    MinPlayers = 2
    MaxPlayers = 2
    MaxRoomVersion = 8
    Handlers = {h1, h2}
    MaxCountdowns = 2
    Workloads <- MCWorkloads
SYMMETRY Symmetry
CHECK_DEADLOCK FALSE
INVARIANTS RoomRestorable FrozenSeatsKept CountdownStartsOnce
PROPERTIES StartsAsAnnounced
