SPECIFICATION ServiceSpec
CONSTANTS
    Users = {u1, u2}
    NoUser = NoUser
    Games = {g1, g2}
    Handlers = {h1, h2}
    Operator = operator
    Modes = {"open", "approval"}
    Capacity = 2
    MinPlayers = 2
    MaxPlayers = 2
    MaxRoomVersion = 5
SYMMETRY Symmetry
CHECK_DEADLOCK FALSE
INVARIANTS VersionIdentifiesRow
PROPERTIES ImplementsLedger
