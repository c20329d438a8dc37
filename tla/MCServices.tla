------------------------------- MODULE MCServices -------------------------------
EXTENDS Services

CONSTANTS u1, u2, u3, c1, c2, i1, d1, j1, j2, k1, m1, o1, o2, MostReports, MostUses, Foci

VARIABLE focus

MCPromos == {}
MCRejoinCode == [u \in Users |-> k1]

\* Weeks cross the ends of months, and a year ends within the clock's run.
MCCalendar ==
    [weekly |-> {{0}, {1, 2}, {3, 4}, {5, 6}},
     monthly |-> {{0, 1}, {2, 3}, {4, 5}, {6}},
     half |-> {{0, 1}, {2, 3}, {4, 5, 6}},
     yearly |-> {{0, 1, 2, 3}, {4, 5, 6}}]
MCShelved == {<<1, 1>>, <<1, 2>>, <<1, 3>>}
MCGenre == [b \in Titles |-> "novel"]

mcVars == <<now, walk, socialVars, feed, library, accounts, billing, notifications, meetups,
            referrals, stats, assistant, administration, discovery, focus>>

In(part) == focus = part

Lowest(ids) == {x \in ids : \A y \in ids : x <= y}

IdentityOf == CHOOSE f \in [Users -> Identities] : \A u, v \in Users : f[u] = f[v] => u = v

\* Two readers with books in common, who stay as they are.
MCCopies ==
    [x \in Users \X Catalog |->
        IF x[1] = u1 \/ (x[1] = u2 /\ x[2] = 3) THEN Off ELSE [status |-> "completed", at |-> 0]]
MCKind == [b \in Catalog |-> IF b = 1 THEN "novel" ELSE "essay"]
MCPosts == [b \in Catalog |-> b % 3]
MCCircles == {[book |-> 2, members |-> {u1, u2}]}

\* Users who signed up some time before the clock's start, with trials that end
\* at some time after it; the device is u2's.
Settled ==
    /\ \E ends \in CASE focus = "trials"  -> {<<1, 2>>, <<3, TrialLength>>}
                    []   focus = "workers" -> {<<3, 2>>, <<3, 3>>}
                    []   OTHER             -> {<<TrialLength, TrialLength>>} :
             account = [u \in Users |->
                          IF u = u3 /\ focus \notin {"inbox", "admins"} THEN NoAccount
                          ELSE [life |-> "live", identity |-> IdentityOf[u],
                                trialEnds |-> IF u = u1 THEN ends[1] ELSE ends[2],
                                deleted |-> Never]]
    /\ session = [c \in Clients |-> IF c = c1 /\ focus = "admins" THEN IssueTokens(u1, 0) ELSE SignedOut]
    /\ device = [t \in DeviceTokens |-> IF focus = "inbox" THEN u2 ELSE NoUser]
    /\ login = [r \in LoginCalls |-> NoLogin]

\* Who has finished a book when the clock starts.
MCShelf ==
    [x \in Users \X Books |-> IF focus \in {"reviews", "my reviews"} /\ x[1] # u3
                              THEN [status |-> "completed", id |-> x[2], at |-> 0, chapter |-> 0] ELSE NoEntry]

MCInit ==
    /\ focus \in Foci
    /\ ClockInit /\ PagingInit /\ FeedInit /\ LibraryStart(MCShelf) /\ BillingInit /\ NotificationsInit
    /\ MeetupsInit /\ ReferralInit /\ StatsInit /\ AssistantInit /\ AdministrationInit
    /\ DiscoveryStart(MCCopies)
    /\ SocialStart(IF focus = "events" THEN {Edge(u1, u2)} ELSE {})
    /\ IF focus \in {"inbox", "trials", "workers", "weekly", "admins"} THEN Settled ELSE AccountsInit

\* The request a load takes, of those that are free: they are alike.
FirstFree(calls, f, idle) ==
    LET free == {q \in calls : f[q] = idle}
    IN  IF free = {} THEN {} ELSE {CHOOSE q \in free : TRUE}

FreeCall == FirstFree(FeedCalls, feedCall, FeedIdle)

OneAtATime == \A r \in FeedCalls : feedCall[r] = FeedIdle

\* A list of posts: rows come in the order of their commits and are deleted,
\* while one client reads.
PostsWork ==
    \/ \E r \in FreeCall : CreatePost(r, u1)
    \/ \E r \in FeedCalls, p \in Lowest(Fresh(post)) : PostCreated(r, p)
    \/ \E p \in Posts : DeletePost(u1, p)

CommentsWork ==
    \/ Fresh(post) = Posts /\ OneAtATime /\ \E r \in FreeCall : CreatePost(r, u1)
    \/ \E r \in FeedCalls, p \in Lowest(Posts) : PostCreated(r, p)
    \/ OneAtATime /\ \E r \in FreeCall, p \in Lowest(Posts), c \in Comments \cup {NoComment} :
          AddComment(r, u1, p, c)
    \/ \E r \in FeedCalls, c \in Lowest(Fresh(comment)) : CommentAdded(r, c)
    \/ \E c \in Comments : DeleteComment(u1, c)

\* A list of highlights, while one client reads.
HighlightsWork ==
    \/ \E r \in FreeCall : CreateHighlight(r, u1)
    \/ \E r \in FeedCalls, h \in Lowest(Fresh(highlight)) : HighlightCreated(r, h)
    \/ \E h \in Highlights : DeleteHighlight(u1, h)

\* Two highlights that are shared, hidden and shown again, two requests at a time.
SharesWork ==
    \/ OneAtATime /\ \E r \in FreeCall : CreateHighlight(r, u1)
    \/ \E r \in FeedCalls, h \in Lowest(Fresh(highlight)) : HighlightCreated(r, h)
    \/ \E h \in Highlights :
          \/ DeleteHighlight(u1, h)
          \/ \E v \in {"private", "public"} : SetVisibility(u1, h, v)
          \/ \E r \in FreeCall : ShareHighlight(r, u1, h)
    \/ \E r \in FeedCalls, e \in Lowest(Fresh(event)) : HighlightShared(r, e)

EventsWork ==
    \/ \E r \in FreeCall : RecordEvent(r, u2, "CHAPTER_MILESTONE", 5)
    \/ \E r \in FreeCall : RecordEvent(r, u1, "STREAK_MILESTONE", 7)
    \/ \E r \in FeedCalls, e \in Lowest(Fresh(event)) : EventRecorded(r, e)

RepliesWork ==
    \/ OneAtATime /\ Live(event) = {} /\ \E r \in FreeCall : RecordEvent(r, u1, "BOOK_COMPLETED", 7)
    \/ \E r \in FeedCalls, e \in Lowest(Fresh(event)) : Live(event) = {} /\ EventRecorded(r, e)
    \/ \E r \in FreeCall, u \in {u1, u2}, e \in Events, c \in Replies \cup {NoReply} :
          AddFeedComment(r, u, e, c)
    \/ \E r \in FeedCalls, c \in Lowest(Fresh(reply)) : FeedCommentAdded(r, c)
    \/ \E u \in {u1, u2}, c \in Replies : DeleteFeedComment(u, c)

ReactionsWork ==
    \/ OneAtATime /\ Live(post) = {} /\ \E r \in FreeCall : CreatePost(r, u1)
    \/ \E r \in FeedCalls, p \in Lowest(Fresh(post)) : Live(post) = {} /\ PostCreated(r, p)
    \/ OneAtATime /\ Live(event) = {} /\ \E r \in FreeCall : RecordEvent(r, u1, "BOOK_COMPLETED", 7)
    \/ \E r \in FeedCalls, e \in Lowest(Fresh(event)) : Live(event) = {} /\ EventRecorded(r, e)
    \/ \E r \in FreeCall, u \in {u1, u2}, k \in Reactions :
          \/ \E p \in Posts : ToggleReaction(r, u, p, k)
          \/ \E e \in Events : ToggleFeedReaction(r, u, e, k)
    \/ \E r \in FeedCalls : ReactionToggled(r)

FeedPart ==
    \/ In("posts") /\ PostsWork
    \/ In("comments") /\ CommentsWork
    \/ In("highlights") /\ HighlightsWork
    \/ In("shares") /\ SharesWork
    \/ In("events") /\ EventsWork
    \/ In("replies") /\ RepliesWork
    \/ In("reactions") /\ (ReactionsWork \/ \E r \in FeedCalls : FeedLost(r))

\* Two users that follow and block each other, and report.
SocialPart ==
    \/ \E r \in FirstFree(SocialCalls, social, SocialIdle) :
          \/ \E u, v \in {u1, u2} : Follow(r, u, v) \/ Block(r, u, v)
          \/ \E x \in Reported : Report(r, u2, x)
    \/ \E r \in SocialCalls :
          \/ Followed(r) \/ BlockSet(r) \/ ReportMade(r) \/ SocialLost(r)
    \/ \E u, v \in {u1, u2} : Unfollow(u, v) \/ Unblock(u, v)

\* Followers and blocks to page through, one request after the other.
EdgesPart ==
    \/ \E r \in SocialCalls : Followed(r) \/ BlockSet(r)
    \/ \E r \in FirstFree(SocialCalls, social, SocialIdle) :
          /\ \A q \in SocialCalls : social[q] = SocialIdle
          /\ \E u \in Users : \/ u # u2 /\ Follow(r, u, u2)
                              \/ u # u1 /\ Block(r, u1, u)
    \/ \E u, v \in Users : Unfollow(u, v) \/ Unblock(u, v)

FreeLibCall == FirstFree(LibraryCalls, libCall, LibraryIdle)

ShelfPart ==
    \/ \E r \in FreeLibCall, b \in Books : AddToLibrary(r, u1, b, "reading")
    \/ \E r \in LibraryCalls : LibraryAdded(r)
    \/ \E b \in Books : RemoveFromLibrary(u1, b)

\* One book, its chapters, its completion and its highlights.
EntryPart ==
    \/ OneAtATime /\ \E r \in FreeLibCall :
          \/ AddToLibrary(r, u1, TheBook, "reading")
          \/ UpdateStatus(r, u1, TheBook, "completed")
          \/ \E n \in Chapters : UpdateChapter(r, u1, TheBook, n)
    \/ \E r \in LibraryCalls :
          \/ LibraryAdded(r) \/ ChapterUpdated(r)
          \/ \E e \in Lowest(Fresh(event)) : StatusUpdated(r, e) \/ MilestoneRecorded(r, e)
    \/ RemoveFromLibrary(u1, TheBook)
    \/ /\ OneAtATime \/ On(u1, TheBook)
       /\ \E r \in FeedCalls : \/ OneAtATime /\ On(u1, TheBook) /\ Fresh(highlight) = Highlights
                                  /\ CreateHighlight(r, u1)
                               \/ \E h \in Lowest(Fresh(highlight)) : HighlightCreated(r, h)
       /\ UNCHANGED library

\* A finished book, reviewed and reported.
ReviewsPart ==
    \/ \E r \in FreeLibCall :
          \/ \E u \in {u1, u2} : (u = u2 => Fresh(review) # Reviews) /\ CreateReview(r, u, TheBook, TRUE)
          \/ \E v \in Reviews : accepted[v] < MostReports /\ ReportReview(r, u3, v)
    \/ \E r \in LibraryCalls :
          \/ \E v \in Lowest(Fresh(review)), e \in Lowest(Fresh(event)) : ReviewCreated(r, v, e)
          \/ ReviewReported(r) \/ LibraryLost(r)
    \/ \E v \in Reviews, u \in {u1, u2} : DeleteReview(u, v) \/ UpdateReview(u, v, FALSE)

\* One user's reviews of two books.
MyReviewsPart ==
    \/ \E r \in FreeLibCall, b \in Books : CreateReview(r, u1, b, TRUE)
    \/ \E r \in LibraryCalls :
          \E v \in Lowest(Fresh(review)), e \in Lowest(Fresh(event)) : ReviewCreated(r, v, e)
    \/ \E v \in Reviews : DeleteReview(u1, v)

\* u2 is asked for a code only, one request at a time.
ReferralPart ==
    \/ \E r \in FirstFree(ReferralCalls, refCall, ReferralIdle) :
          \/ GetMyReferral(r, u1)
          \/ Uncoded(u2) = {} /\ GetMyReferral(r, u2)
          \/ \E c \in Codes : ApplyReferral(r, u1, c)
    \/ \E r \in ReferralCalls :
          \/ CodeGiven(r) \/ ReferrerFound(r) \/ RefereeFree(r) \/ AlreadyReferred(r)
          \/ ReferralApplied(r) \/ ReferralLost(r)
          \/ \E c \in Codes : CodeDrawn(r, c)
    \/ \E duration \in {59, 60} : CompleteReferralIfEligible(u1, duration)

MeetupsPart ==
    \/ \E places \in Places : CreateMeetup(u1, m1, 1, places)
    \/ CancelMeetup(u1, m1)
    \/ \E u \in Users :
          LeaveWaitlist(u, m1) \/ \E r \in FirstFree(MeetupCalls, meetCall, MeetupIdle) : JoinWaitlist(r, u, m1) \/ ReviewMeetup(r, u, m1)
    \/ \E r \in MeetupCalls : Joined(r) \/ MeetupReviewed(r) \/ MeetupLost(r)
    \/ now < 2 /\ Tick /\ UNCHANGED meetups

\* The next id, and one book that is read on most days, by timer or by hand.
Next1(ids, f, none) == Lowest({x \in ids : f[x] = none})
Lately == {d \in {now - 1, now} : d >= 0}

EndingOne ==
    LET first == CHOOSE q \in EndCalls : TRUE
    IN  ending = [r \in EndCalls |-> NoEnd] /\ \E l \in Logs : EndTimer(first, l)

StreaksPart ==
    \/ \E b \in {1} : AddTitle(b)
    \/ \E l \in Next1(Logs, logged, NoLog), d \in Lately, b \in {1} :
          StartTimer(l, b) \/ (now = 2 /\ LogByHand(l, b, d, d, 1))
    \/ EndingOne
    \/ \E r \in EndCalls, d \in Lately : SessionUpdated(r, d, d, 1) \/ SessionCommitted(r)
    \/ now < 5 /\ Tick /\ UNCHANGED stats

\* Two sessions, each of which two requests may end, in two time zones.
EndsPart ==
    \/ \E b \in {1} : AddTitle(b)
    \/ \E l \in Next1(Logs, logged, NoLog), b \in {1} : l < 3 /\ StartTimer(l, b)
    \/ \E r \in FirstFree(EndCalls, ending, NoEnd), l \in Logs : EndTimer(r, l)
    \/ \E r \in EndCalls :
          \/ \E to \in {now, now + 1}, day \in Lately : SessionUpdated(r, to, day, IF to = now THEN 1 ELSE 2)
          \/ SessionCommitted(r) \/ SessionNotEnded(r)
    \/ \E r \in ScreenCalls : (now = 1 /\ OpenScreen(r, <<"recap", {0, 1}>>)) \/ ScreenKept(r)
    \/ now < 1 /\ Tick /\ UNCHANGED stats

\* Two books, a session or two, and the screens kept of them.
RecapPart ==
    \/ \E b \in Titles : (b = 2 => held[1] # NotHeld) /\ AddTitle(b)
    \/ ~past.removed /\ RemoveTitle(1)
    \/ \E l \in Next1(Logs, logged, NoLog) :
          \/ l < 3 /\ StartTimer(l, l)
          \/ l = 2 /\ LogByHand(l, 1, now, now, 1)
    \/ EndingOne
    \/ \E r \in EndCalls :
          SessionCommitted(r) \/ (now < 2 /\ SessionUpdated(r, now, now, 1))
    \/ \E r \in ScreenCalls :
          \/ ScreenKept(r) \/ ScreenShown(r)
          \/ now > 0 /\ OpenScreen(r, IF now = 2 THEN <<"stats", {}>> ELSE <<"recap", {0, 1}>>)
    \/ now < 2 /\ Tick /\ UNCHANGED stats

GoalsPart ==
    \/ \E b \in {1} : \/ AddTitle(b)
                      \/ UpdateTitle(b, "completed")
                      \/ \E l \in Next1(Logs, logged, NoLog) : l < 2 /\ StartTimer(l, b)
                      \/ \E m \in Next1(Bookmarks, mark, NoMark) : AddBookmark(m, b, m)
    \/ EndingOne
    \/ \E r \in EndCalls : SessionCommitted(r) \/ \E n \in {1, 2} : SessionUpdated(r, now, now, n)
    \/ \E g \in Next1(Goals, goal, NoGoal), period \in {"weekly", "yearly"} :
          CreateGoal(g, period, 1, 2)
    \/ now < 2 /\ Tick /\ UNCHANGED stats

StatsPart ==
    \/ In("streaks") /\ StreaksPart
    \/ In("ends") /\ EndsPart
    \/ In("recap") /\ RecapPart
    \/ In("goals") /\ GoalsPart

\* Two books, and two styles at most times apart.
FreeAiCall == FirstFree(AiCalls, aiCall, AiIdle)

CardsPart ==
    \/ \E r \in FreeAiCall, b \in {1, 2} : (b = 2 => now = 0) /\ GetPrepCard(r, u1, b)
    \/ \E r \in AiCalls :
          \/ PrepAllowed(r) \/ PrepGenerated(r) \/ PrepRecorded(r) \/ (now = 0 /\ AiLost(r))
    \/ now = 1 /\ \E s \in Styles : SetCardStyle(u1, s)
    \/ now < 2 /\ Tick /\ UNCHANGED assistant

\* The rest, of a user whose Pro comes and goes.
GuidesPart ==
    \/ /\ \/ \E r \in AiCalls :
                UseRecorded(r) \/ ReflectionStored(r) \/ AudioAllowed(r) \/ ReflectionAllowed(r)
          \/ /\ MapThenSumSet(LAMBDA f : CountSince(u1, f, 0), Features) < MostUses
             /\ \E r \in FreeAiCall :
                   \/ now = 0 /\ (GetClubTopics(r, u1) \/ GenerateAgendaTopicDrafts(r, u1, 1))
                   \/ GetAudioIntro(r, u1, 1) \/ \E b \in {1} : CreateReflection(r, u1, b)
          \/ now < 2 /\ Tick /\ UNCHANGED assistant
       /\ UNCHANGED billing
    \/ now = 1 /\ ApplyWebhookEvent(IF pro[u1].is THEN "EXPIRATION" ELSE "RENEWAL", u1, Never)
       /\ UNCHANGED assistant

\* One reader, whose answers are kept and whose model ages.
FreeDiscCall == FirstFree(DiscCalls, discCall, DiscIdle)

DiscoveryPart ==
    \/ In("interests") /\ \E b \in {1, 2}, r \in FreeDiscCall :
          \/ copies[u1, b] = Off /\ KeepCopy(u1, b, "wishlist")
          \/ \E k \in Kinds : ReplaceAll(r, u1, {k})
          \/ \E s \in {"cold_start", "collaborative"} : GetRecommendations(r, u1, s, 2)
    \/ In("tastes") /\ \E b \in {1, 3}, r \in FreeDiscCall :
          \/ copies[u1, b] = Off /\ KeepCopy(u1, b, "completed")
          \/ Recompute(r, u1)
          \/ profile[u3] = NoProfile /\ discCall[r] = DiscIdle /\ now = 0 /\ Recompute(r, u3)
          \/ \E s \in {"similar_readers", "taste_match"} : GetRecommendations(r, u1, s, 1)
    \/ In("models") /\ \/ \E s \in {"reading", "dropped"} : KeepCopy(u1, 3, s)
                       \/ KeepCopy(u1, 1, "completed") \/ DropCopy(u1, 3)
                       \/ \E p \in Processes : Retrain(p) \/ LoadModel(p) \/ ProcessRestarts(p)
    \/ \E r \in DiscCalls : InterestsSaved(r) \/ Recomputed(r) \/ RecKept(r) \/ DiscLost(r)
    \/ now < (IF In("models") THEN 2 ELSE 1) /\ Tick /\ UNCHANGED discovery

AdminsPart ==
    \/ \E u \in Users :
          \/ u # u3 /\ PromoteUser(u)
          \/ \E r \in FirstFree(AdminCalls, adminCall, AdminIdle), caller \in Users, flag \in BOOLEAN : PatchUser(r, caller, u, flag)
    \/ \E r \in AdminCalls : UserPatched(r) \/ PatchLost(r)
    \/ AdminLeaves(c1)

\* The lists a client may page through while they change.
ListsOf ==
    CASE In("posts") -> {<<"book", NoUser>>, <<"explore", u1>>, <<"posts of", u1>>}
      [] In("comments") -> {<<"post", 1>>}
      [] In("highlights") -> {<<"highlights", u1>>, <<"mine", u1>>}
      [] In("events") -> {<<"global", NoUser>>, <<"following", u1>>}
      [] In("edges") -> {<<"followers", u2>>, <<"followings", u1>>, <<"blocks", u1>>}
      [] In("shelf") -> {<<"library", u1>>}
      [] In("my reviews") -> {<<"reviews", u1>>}
      [] OTHER -> {}

Reading ==
    \/ \E l \in ListsOf, n \in PageSizes :
          (n > 1 => l[1] = "global") /\ BeginWalk(l[1], l[2], n)
    \/ WalkOn

AccountsPart ==
    \/ \E r \in FirstFree(LoginCalls, login, NoLogin), c \in Clients : Login(r, c, i1)
    \/ \E r \in LoginCalls :
          \/ LoggedIn(r) \/ LoginRefused(r)
          \/ \E u \in {u1, u2} : (u = u2 => account[u1] # NoAccount) /\ SignedUp(r, u)
    \/ \E c \in Clients :
          Refresh(c) \/ DeleteAccount(c) \/ \E t \in DeviceTokens : RegisterDevice(c, t)
    \/ now < 2 /\ Tick /\ UNCHANGED accounts

BillingPart ==
    \/ In("subscription") /\ \/ \E r \in BillingCalls : GetStatus(r, u1)
                             \/ \E until \in {now + n : n \in Periods} \cup {Never} :
                                   \/ VerifyAndActivate(u1, until)
                                   \/ \E type \in WebhookTypes : ApplyWebhookEvent(type, u1, until)
                             \/ now < 3 /\ Tick /\ UNCHANGED billing
    \/ In("coupons") /\ CouponNext
    \/ In("teams") /\ TeamNext
    \/ \E r \in BillingCalls :
          StatusExpired(r) \/ CouponApplied(r) \/ MemberAdded(r) \/ BillLost(r)

FreeNote == CHOOSE n \in Notes : inbox[n] = NoNote /\ \A m \in Notes : inbox[m] = NoNote => n <= m

JobWork ==
    \/ \E j \in Jobs, u \in Users : StatsOfWeek(j, u) \/ NoticeSkipped(j, u) \/ NoticeFailed(j, u)
    \/ \E j \in Jobs, u \in Users : (\E n \in Notes : inbox[n] = NoNote) /\ NoticeSaved(j, u, FreeNote)
    \/ \E j \in Jobs : NoticePushed(j) \/ JobDone(j) \/ JobDies(j)
    \/ In("inbox") /\ \E j \in Jobs : PushFailed(j)

\* Each event is handled once.
NewEvent(e) == /\ \A j \in Jobs : job[j] # JobIdle => job[j].about < e
               /\ \A o \in finished : o.about < e

FreePrefCall == FirstFree(PrefCalls, prefCall, NoPref)

InboxPart ==
    \/ \E e \in {0, 1} : NewEvent(e) /\
          \/ \E u \in {u1, u2} : OnReactionAdded(j1, e, u, u2)
          \/ \E x \in {<<u2, u3>>, <<u1, u2>>, <<u2, u2>>} : OnCommentAdded(j1, e, u1, x[1], x[2])
          \/ OnUserEvent(j1, e, "grade_up", u1)
          \/ FanOutClubPush(j1, e, "agenda", u1, {u2, u3})
    \/ MarkRead(u2, 1)
    \/ MarkReadAll(u2)
    \/ \E r \in FreePrefCall, kind \in {"agenda", "comment"} :
          /\ kind \notin UNION ({prefCall[q].off : q \in {p \in PrefCalls : prefCall[p] # NoPref}}
                                   \cup {{m[2] : m \in muted}})
          /\ UpdatePreferences(r, u2, kind, FALSE)
    \/ \E r \in PrefCalls : PreferencesSaved(r)

SweepPart ==
    \/ In("trials") /\ \/ SendExpiryReminders(j1, o1) \/ SendReengagementCoupons(j1)
                       \/ now < 5 /\ Tick /\ UNCHANGED notifications
    \/ In("workers") /\ \/ SendExpiryReminders(j1, o1) \/ SendExpiryReminders(j2, o2)
                        \/ now < 2 /\ Tick /\ UNCHANGED notifications
    \/ In("weekly") /\ \/ now = 6 /\ (RunWeeklyReportBatch(j1, o1) \/ RunWeeklyReportBatch(j2, o2))
                       \/ \E d \in {0, 1} : now \in {5, 6} /\ ReadOn(u1, d)
                       \/ now = 0 /\ ReadOn(u2, 1)
                       \/ \E r \in FreePrefCall : now = 0 /\ prefCall = [q \in PrefCalls |-> NoPref]
                                               /\ muted = {} /\ UpdatePreferences(r, u2, "weekly", FALSE)
                       \/ \E r \in PrefCalls : now = 0 /\ PreferencesSaved(r)
                       \/ now < 6 /\ Tick /\ UNCHANGED notifications

NotificationsPart ==
    \/ JobWork /\ UNCHANGED <<accounts, billing>>
    \/ In("inbox") /\ InboxPart /\ UNCHANGED <<accounts, billing>>
    \/ SweepPart /\ UNCHANGED <<accounts, billing>>
    \/ In("trials") /\ \E u \in Users : IssueCoupon(j1, u) /\ UNCHANGED <<accounts, notifications>>
    \/ In("trials") /\ now = 1 /\ VerifyAndActivate(u1, Never) /\ UNCHANGED <<accounts, notifications>>

Notifying == {"inbox", "trials", "workers", "weekly"}

Paged == {"posts", "comments", "highlights", "events", "edges", "shelf", "my reviews"}

MCNext ==
    /\ UNCHANGED focus
    /\ \/ /\ \/ FeedPart /\ UNCHANGED <<walk, socialVars, library>>
             \/ ((In("social") /\ SocialPart) \/ (In("edges") /\ EdgesPart))
                /\ UNCHANGED <<walk, feed, library>>
             \/ (\/ In("shelf") /\ ShelfPart
                 \/ In("entries") /\ EntryPart
                 \/ In("reviews") /\ ReviewsPart
                 \/ In("my reviews") /\ MyReviewsPart)
                /\ UNCHANGED <<walk, socialVars>>
             \/ Reading /\ UNCHANGED <<socialVars, feed, library>>
             \/ focus \in Paged /\ now < 1 /\ Tick /\ UNCHANGED <<walk, socialVars, feed, library>>
          /\ UNCHANGED <<accounts, billing, notifications, meetups, referrals, stats, assistant,
                         administration, discovery>>
       \/ /\ \/ In("accounts") /\ AccountsPart /\ UNCHANGED <<billing, notifications>>
             \/ BillingPart /\ UNCHANGED <<accounts, notifications>>
             \/ focus \in Notifying /\ NotificationsPart
          /\ UNCHANGED <<walk, socialVars, feed, library, meetups, referrals, stats, assistant,
                         administration, discovery>>
       \/ /\ \/ In("meetups") /\ MeetupsPart /\ UNCHANGED referrals
             \/ In("referral") /\ ReferralPart /\ UNCHANGED meetups
          /\ UNCHANGED <<walk, socialVars, feed, library, accounts, billing, notifications, stats,
                         assistant, administration, discovery>>
       \/ /\ StatsPart
          /\ UNCHANGED <<walk, socialVars, feed, library, accounts, billing, notifications, meetups,
                         referrals, assistant, administration, discovery>>
       \/ /\ \/ In("cards") /\ CardsPart /\ UNCHANGED <<accounts, billing, administration, discovery>>
             \/ In("guides") /\ GuidesPart /\ UNCHANGED <<accounts, administration, discovery>>
             \/ In("admins") /\ AdminsPart /\ UNCHANGED <<billing, assistant, discovery>>
             \/ focus \in {"interests", "tastes", "models"} /\ DiscoveryPart
                /\ UNCHANGED <<accounts, billing, assistant, administration>>
          /\ UNCHANGED <<walk, socialVars, feed, library, notifications, meetups, referrals, stats>>

MCSpec == MCInit /\ [][MCNext]_mcVars

================================================================================
