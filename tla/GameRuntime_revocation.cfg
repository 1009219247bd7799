SPECIFICATION FullRoomSpec
CONSTANTS
    Users = {u1, u2, u3}
    NoUser = NoUser
    Games = {g1}
    Modes = {"open"}
    Capacity = 3
    MinPlayers = 3
    MaxPlayers = 3
    MaxRoomVersion = 7
    Actions = {}
    Workers = {w1}
    MaxStateVersion = 2
    MaxEpoch = 1
CHECK_DEADLOCK FALSE
PROPERTIES RevocationHandled
