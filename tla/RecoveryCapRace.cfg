CONSTANTS
    Slots = {w1, w2}
    Dates = {1, 2, 4}
    Seconds = {2}
    Packs = {1}
    WelcomeShields = 3
    RecoveryLimit = 2
    RecoveryWindow = 30
    MaxBooks = 1
    MaxDay = 1
    MaxRequests = 4
    ShieldInterval = 2
    MaxShields = 1
    Ladder <- MCLadder
SPECIFICATION Spec
INVARIANTS RecoveryCap
CHECK_DEADLOCK FALSE
