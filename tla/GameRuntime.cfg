SPECIFICATION FullRoomSafe
CONSTANTS
    Users = {u1, u2, u3}
    NoUser = NoUser
    Games = {g1}
    Modes = {"open"}
    Capacity = 3
    MinPlayers = 2
    MaxPlayers = 3
    MaxRoomVersion = 7
    Actions = {1}
    Workers = {w1, w2}
    MaxStateVersion = 3
    MaxEpoch = 2
SYMMETRY Symmetry
CONSTRAINT LateRoomBound
CHECK_DEADLOCK FALSE
INVARIANTS SessionMatchesRoom ExactlyOnce RevocationsReachGame
PROPERTIES LateCommandsFenced
