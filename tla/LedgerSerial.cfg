CONSTANTS
    Slots = {w1}
    Dates = {1, 2, 4}
    Seconds = {2}
    Packs = {1, 3}
    WelcomeShields = 3
    RecoveryLimit = 2
    RecoveryWindow = 1
    MaxBooks = 1
    MaxDay = 3
    MaxRequests = 5
    ShieldInterval = 2
    MaxShields = 1
    Ladder <- MCLadder
SPECIFICATION Spec
INVARIANTS TypeOK StreakIsEarned GradeMatchesTotals RecoveryCap
PROPERTIES StreakLostOnlyUnshielded HistoryNeverShrinks
CHECK_DEADLOCK FALSE
