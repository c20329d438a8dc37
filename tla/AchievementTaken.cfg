CONSTANTS
    time1 = time1
    time2 = time2
    streak1 = streak1
    gold = gold
    rare = rare
    NoBadge = NoBadge
    NoChallenge = NoChallenge
    Handlers = {h1, h2}
    Challenges <- MCChallenges
    Badges <- MCBadges
    Kind <- MCKind
    Target <- MCTarget
    Opens <- MCOpens
    Ends <- MCEnds
    BadgeOf <- MCBadgeOf
    ExclusiveOf <- MCExclusiveOf
    Deadline <- MCDeadline
    Gains = {1, 2}
    MaxTime = 2
SPECIFICATION Spec

PROPERTIES AchievementKept
CHECK_DEADLOCK FALSE
