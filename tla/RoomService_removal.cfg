SPECIFICATION ServiceSpec
CONSTANTS
    Users = {u1, u2, u3}
    NoUser = NoUser
    Games = {g1, g2}
    Handlers = {h1}
    Operator = operator
    Modes = {"open", "closed"}
    Capacity = 3
    MinPlayers = 2
    MaxPlayers = 3
    MaxRoomVersion = 5
SYMMETRY Symmetry
CHECK_DEADLOCK FALSE
INVARIANT RemovalAccepted
