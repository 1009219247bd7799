SPECIFICATION Spec
CONSTANTS
    Seats <- MCSeats
    MeetSeats <- MCMeetSeats
    StartingSeats = {1}
    Rolls <- MCRolls
    MaxQuantity = 2
    DicePairs <- MCDicePairs
    TableRolls <- MCTableRolls
    Deals <- MCDeals
    Submissions <- MCSubmissions
    Configs <- MCConfigs
    MaxNow <- MCMaxNow
    MaxRound <- MCMaxRound
CHECK_DEADLOCK FALSE
INVARIANTS SnapshotRestores DueTimerApplies OnlyKnownMovesLost
PROPERTIES AccountsKept BidsAdvance
