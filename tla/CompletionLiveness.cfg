CONSTANTS
    Users = {u1}
    Sessions = {s1, s2, s3}
    Requests = {r1, r2, r3}
    Dates = {1, 2}
    Elapsed = {1500, 2000}
    Pauses = {0, 1000}
    BookCounts = {0, 2}
    ManualSeconds = {59, 60}
    StreakMilestones = {2}
    MaxCrashes = 1
    None = None
    ShieldInterval = 2
    MaxShields = 3
    Ladder <- MCLadder
SPECIFICATION FairSpec
PROPERTIES RequestsFinish CompletionsAnnounced
CHECK_DEADLOCK FALSE
