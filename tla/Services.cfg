SPECIFICATION MCSpec
CONSTANTS
    u1 = 1
    u2 = 2
    u3 = 3
    c1 = c1
    c2 = c2
    i1 = i1
    d1 = d1
    j1 = j1
    j2 = j2
    o1 = o1
    o2 = o2
    k1 = k1
    m1 = m1
    Users = {1, 2, 3}
    NoUser = 0
    LastTime = 6
    Posts = {1, 2, 3}
    Comments = {1, 2, 3}
    Highlights = {1, 2}
    Events = {1, 2, 3}
    Replies = {1, 2, 3}
    Reactions = {like}
    FeedCalls = {r1, r2}
    SocialCalls = {s1, s2}
    Reported = {y1}
    PageSizes = {1, 2}
    NoPost = NoPost
    NoComment = NoComment
    NoHighlight = NoHighlight
    NoEvent = NoEvent
    NoReply = NoReply
    NoCursor = NoCursor
    Books = {1, 2}
    TheBook = 1
    Reviews = {1, 2}
    LibraryCalls = {q1, q2}
    Chapters = {4, 5}
    Entries = 3
    MostReports = 3
    MostUses = 3
    HideThreshold = 2
    Meetups = {m1}
    MeetupCalls = {a1, a2}
    Places = {1, NoLimit}
    NoLimit = NoLimit
    Codes = {x1, x2}
    NoCode = NoCode
    ReferralCalls = {f1, f2}
    Identities = {i1, i2, i3}
    Clients = {c1, c2}
    DeviceTokens = {d1}
    LoginCalls = {l1, l2}
    NoIdentity = NoIdentity
    Day = 2
    TrialLength = 4
    AccessLife = 1
    RefreshLife = 2
    Coupons = {k1}
    Teams = {t1}
    Seats = 2
    Periods = {1, 2}
    Promos <- MCPromos
    BillingCalls = {b1, b2}
    NoPromo = NoPromo
    Jobs = {j1, j2}
    Workers = {o1, o2}
    NoWorker = NoWorker
    Notes = {1, 2, 3, 4}
    PrefCalls = {p1, p2}
    WeekDays = 2
    RejoinAfter = 1
    RejoinCode <- MCRejoinCode
    Titles = {1, 2}
    Genre <- MCGenre
    Logs = {1, 2, 3, 4}
    Goals = {1, 2}
    Bookmarks = {1, 2}
    Amounts = {1, 2}
    Calendar <- MCCalendar
    ShieldEvery = 2
    MostDays = 3
    TrendWeeks = 2
    TrendMonths = 2
    TopN = 1
    MilestoneBooks = {1, 2}
    MilestoneSeconds = {2, 4}
    MilestoneDays = {2, 3}
    ScreenLife = 1
    EndCalls = {q1, q2}
    ScreenCalls = {w1}
    Volumes = {1, 2, 3}
    Styles = {plain, other}
    DefaultStyle = plain
    Shelved <- MCShelved
    Owners = {1}
    PrepLimit = 1
    ReflectionLimit = 1
    AudioLimit = 1
    Month = 4
    CardLife = 3
    AiCalls = {g1, g2}
    AdminCalls = {n1, n2}
    Catalog = {1, 2, 3}
    Kinds = {"novel", "essay"}
    Kind <- MCKind
    PostsOf <- MCPosts
    SessionsOf <- MCPosts
    Circles <- MCCircles
    MinDone = 2
    MinCommon = 2
    MinUsers = 2
    MixSize = 2
    Neighbours = 1
    TopKinds = 1
    RecentTicks = 1
    MinInteractions = 2
    RecLife = 1
    ModelLife = 2
    HasEngine = TRUE
    DiscCalls = {e1, e2}
    Processes = {o1, o2}
    NoModel = NoModel
    NoProfile = NoProfile
    NoTitle = NoTitle
    Foci = {"posts", "comments", "highlights", "shares", "events", "replies", "reactions", "social", "edges", "shelf", "entries", "reviews", "my reviews", "meetups", "referral", "accounts", "subscription", "coupons", "teams", "inbox", "trials", "workers", "weekly", "streaks", "recap", "ends", "goals", "cards", "guides", "admins", "interests", "tastes", "models"}
INVARIANTS
    TypeOK
    PagesMissNothing
    SharedOnce
    BlocksSever
    DeletedStaysOut
    ReportsHide
    OneForeignReferrer
    OnlyOverlapOverruns
    EveryoneToldOnce
    TrialRemindedOnce
    ShownIsGrounded
CHECK_DEADLOCK FALSE
