CONSTANTS
    Users = {u1}
    Sessions = {s1, s2}
    Requests = {r1, r2, r3, r4, r5}
    Dates = {1, 2}
    Elapsed = {2000}
    Pauses = {0, 2000}
    BookCounts = {2}
    ManualSeconds = {59, 60}
    StreakMilestones = {2}
    MaxCrashes = 0
    None = None
    ShieldInterval = 2
    MaxShields = 3
    Ladder <- MCLadder
SPECIFICATION Spec
SYMMETRY Symmetry
INVARIANTS TypeOK OneActiveSession HeatmapExact GradeNeverAhead NoPhantomEvents
PROPERTIES AtomicRecord
CHECK_DEADLOCK FALSE
