SPECIFICATION MCSpec
CONSTANTS
    u1 = u1
    u2 = u2
    u3 = u3
    u4 = u4
    b1 = b1
    Users = {u1, u2, u3, u4}
    ClubRequests = {q1, q2}
    Capacities = {2, 3}
    Books = {b1}
    PageCount <- MCPageCount
    DefaultPages = 9
    ClubEvents = {e1}
    Pages = {0, 3, 5, 6}
    LastDay = 8
    MaxJoinPosts = 1
    NoUser = NoUser
    NoBook = NoBook
    Sessions = {s1}
    Agendas = {a1}
    Topics = {1, 2, 3}
    Comments = {1, 2, 3}
    Calls = {r1, r2}
    NoSession = NoSession
    NoAgenda = NoAgenda
    NoTopic = NoTopic
    NoComment = NoComment
    Processes = {p1, p2}
    Sockets = {1, 2, 3}
    Messages = {m1}
    Rooms = {k1}
    Chapters = {0, 1}
    NoRoom = NoRoom
    NoMessage = NoMessage
    NoProcess = NoProcess
    Foci = {"members", "plan", "events", "sessions", "topics", "comments", "chat", "rooms"}
INVARIANTS
    TypeOK
    CapacityOverrun
    FullProgressMeansRead
    FeedTellsTheTruth
    PositionsDistinct
    NothingLostFromThreads
PROPERTIES
    FanOutReachesMembers
CHECK_DEADLOCK FALSE
