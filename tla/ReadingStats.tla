------------------------------- MODULE ReadingStats -------------------------------
(***************************************************************************)
(* What the screens of one reader say of the past (domains/reading): the     *)
(* heatmap and the pages of a year, goals, bookmarks and speed, the recaps   *)
(* and milestones.  They draw on three records that are kept apart: the rows *)
(* of the sessions, which go with a book that leaves the library, the daily  *)
(* totals and the snapshot of the grade, which stay.  A request that ends a  *)
(* session loads it, updates its row and commits; ReadingCompletion has each *)
(* statement.  A day is a tick, a duration a small number, an average the    *)
(* rows it is taken of.                                                      *)
(***************************************************************************)
EXTENDS ServiceClock, FiniteSetsExt

CONSTANTS
    Titles,            \* books the reader may keep
    Genre,             \* the genre, the publisher in truth, of each
    Logs, Goals, Bookmarks,    \* ids, given out in order
    Amounts,           \* seconds, pages and targets of requests
    Calendar,          \* the windows "weekly", "monthly", "half" and "yearly" cut time in
    ShieldEvery,       \* a streak of a multiple of this earns a shield
    MostDays,          \* _MAX_HEATMAP_DAYS
    TrendWeeks, TrendMonths, TopN,
    MilestoneBooks, MilestoneSeconds, MilestoneDays,
    ScreenLife,        \* _STATS_CACHE_TTL
    EndCalls,          \* requests to end a session in flight at a time
    ScreenCalls,       \* requests for a cached screen in flight at a time
    NoTitle

CalendarNames == {"weekly", "monthly", "half", "yearly"}

ASSUME StatsAssumption ==
    /\ Logs \cup Goals \cup Bookmarks \cup Amounts \subseteq Nat
    /\ MilestoneSeconds \subseteq Nat \ {0} /\ ScreenLife \in Nat
    /\ \A p \in CalendarNames : \A w \in Calendar[p] : w \subseteq Times
    /\ \A p \in CalendarNames, d \in Times :
          Cardinality({w \in Calendar[p] : d \in w}) = 1

VARIABLES
    held,        \* user_books of the reader
    logged,      \* reading_sessions
    ending,      \* what each request to end one has loaded and written
    heat,        \* daily_reading_stats: seconds of each day
    grade,       \* user_grades: streak, shields and total time
    goal,        \* goals
    mark,        \* bookmarks
    screen,      \* Redis: the answers kept of two screens
    screenCall,  \* what each request for one has computed
    past         \* history: what became of books and sessions

stats == <<held, logged, ending, heat, grade, goal, mark, screen, screenCall, past>>

NotHeld == [status |-> "none", started |-> Never, finished |-> Never]
NoLog == [source |-> "none"]
NoEnd == [op |-> "idle"]
NoGoal == [period |-> "none"]
NoMark == [book |-> NoTitle]
NoAnswer == [until |-> Never]
NoScreen == [op |-> "idle"]

Policy == INSTANCE ReadingPolicy WITH
            ShieldInterval <- ShieldEvery, MaxShields <- 3,
            Ladder <- <<[books |-> 0, seconds |-> 0]>>

Recaps == Calendar["half"] \cup Calendar["yearly"]
Screens == {<<"recap", w>> : w \in Recaps} \cup {<<"stats", {}>>}

StatsInit ==
    /\ held = [b \in Titles |-> NotHeld]
    /\ logged = [l \in Logs |-> NoLog]
    /\ ending = [r \in EndCalls |-> NoEnd]
    /\ heat = [d \in Times |-> 0]
    /\ grade = [streak |-> 0, longest |-> 0, last |-> 0, shields |-> 0, seconds |-> 0]
    /\ goal = [g \in Goals |-> NoGoal]
    /\ mark = [m \in Bookmarks |-> NoMark]
    /\ screen = [s \in Screens |-> NoAnswer]
    /\ screenCall = [r \in ScreenCalls |-> NoScreen]
    /\ past = [finished |-> [b \in Titles |-> Never], removed |-> FALSE,
               rowOnly |-> [d \in Times |-> 0], heatOnly |-> [d \in Times |-> 0],
               twice |-> FALSE, overlapped |-> FALSE]

--------------------------------------------------------------------------------
(* Windows of the calendar *)

\* _compute_window: the week, month or year a day lies in.
Window(period, d) == CHOOSE w \in Calendar[period] : d \in w

\* The window before: that of the day before its first.
Before(period, w) ==
    LET first == CHOOSE d \in w : \A e \in w : d <= e
    IN  IF first = 0 THEN {} ELSE Window(period, first - 1)

Total(f, days) == MapThenSumSet(LAMBDA d : f[d], days)
Highest(S) == {x \in S : \A y \in S : x >= y}

--------------------------------------------------------------------------------
(* What is recorded *)

AddTitle(b) ==
    /\ held[b] = NotHeld
    /\ held' = [held EXCEPT ![b] = [status |-> "reading", started |-> now, finished |-> Never]]
    /\ UNCHANGED <<now, logged, ending, heat, grade, goal, mark, screen, screenCall, past>>

\* update_status sets the status alone: finished_at is written nowhere but in
\* the development seeds.
UpdateTitle(b, status) ==
    /\ held[b] # NotHeld
    /\ held' = [held EXCEPT ![b].status = status]
    /\ past' = [past EXCEPT !.finished[b] = IF status = "completed" THEN now ELSE Never]
    /\ UNCHANGED <<now, logged, ending, heat, grade, goal, mark, screen, screenCall>>

\* No request has an uncommitted update of the row of session l.
Unlocked(l) == \A r \in EndCalls : ending[r].op = "updated" => ending[r].log # l

\* Sessions and bookmarks of the book go with it.
RemoveTitle(b) ==
    /\ held[b] # NotHeld
    /\ \A l \in Logs : logged[l] # NoLog /\ logged[l].book = b => Unlocked(l)
    /\ held' = [held EXCEPT ![b] = NotHeld]
    /\ logged' = [l \in Logs |-> IF logged[l] # NoLog /\ logged[l].book = b THEN NoLog ELSE logged[l]]
    /\ mark' = [m \in Bookmarks |-> IF mark[m].book = b THEN NoMark ELSE mark[m]]
    /\ past' = [past EXCEPT !.finished[b] = Never, !.removed = TRUE]
    /\ UNCHANGED <<now, ending, heat, grade, goal, screen, screenCall>>

\* No row has the id, and no request knows it: ids are given out once.
Unused(l) == logged[l] = NoLog /\ \A r \in EndCalls : ending[r] # NoEnd => ending[r].log # l

\* One session runs at a time, by the index on running ones.
StartTimer(l, b) ==
    /\ Unused(l) /\ held[b] # NotHeld
    /\ \A k \in Logs : logged[k].source # "running"
    /\ logged' = [logged EXCEPT ![l] = [source |-> "running", book |-> b, from |-> now]]
    /\ UNCHANGED <<now, held, ending, heat, grade, goal, mark, screen, screenCall, past>>

\* end_session loads the session, which runs still.
EndTimer(r, l) ==
    /\ ending[r] = NoEnd /\ logged[l].source = "running"
    /\ ending' = [ending EXCEPT ![r] = [op |-> "loaded", log |-> l]]
    /\ UNCHANGED <<now, held, logged, heat, grade, goal, mark, screen, screenCall, past>>

\* The row is written, whether another request has ended it meanwhile or not,
\* and the snapshot read.  The client says when the session ended, by a clock
\* and in a time zone of its own: day is the date it has there, to that in UTC.
SessionUpdated(r, to, day, secs) ==
    LET l == ending[r].log IN
    /\ ending[r].op = "loaded" /\ logged[l] # NoLog /\ Unlocked(l)
    /\ logged[l].from <= to /\ day \in to - 1 .. to + 1 /\ secs > 0
    /\ ending' = [ending EXCEPT ![r] = [op |-> "updated", log |-> l, to |-> to, day |-> day,
                                        secs |-> secs, read |-> grade]]
    /\ UNCHANGED <<now, held, logged, heat, grade, goal, mark, screen, screenCall, past>>

Advanced(read, day, secs) ==
    [f \in DOMAIN read |-> IF f = "seconds" THEN read.seconds + secs
                           ELSE Policy!ApplyStreakWithShield(read, day + 1)[f]]

\* The row, the total of the client's day and the columns of the snapshot that
\* the session changed, in one transaction.
SessionCommitted(r) ==
    LET e == ending[r]   new == Advanced(e.read, e.day, e.secs)   away == IF e.to = e.day THEN 0 ELSE e.secs IN
    /\ e.op = "updated"
    /\ logged' = [logged EXCEPT ![e.log] =
                     [source |-> "timer", book |-> @.book, from |-> @.from, to |-> e.to, secs |-> e.secs,
                      inOrder |-> e.to = e.day /\ e.day + 1 >= e.read.last]]
    /\ heat' = [heat EXCEPT ![e.day] = @ + e.secs]
    /\ grade' = [f \in DOMAIN grade |-> IF new[f] = e.read[f] THEN grade[f] ELSE new[f]]
    /\ past' = [past EXCEPT !.rowOnly[e.to] = @ + away, !.heatOnly[e.day] = @ + away,
                            !.twice = @ \/ logged[e.log].source = "timer",
                            !.overlapped = @ \/ grade # e.read]
    /\ ending' = [ending EXCEPT ![r] = NoEnd]
    /\ UNCHANGED <<now, held, goal, mark, screen, screenCall>>

\* The session is gone, too short or locked in a cycle, or the process dies.
SessionNotEnded(r) ==
    /\ ending[r] # NoEnd
    /\ ending' = [ending EXCEPT ![r] = NoEnd]
    /\ UNCHANGED <<now, held, logged, heat, grade, goal, mark, screen, screenCall, past>>

\* log_manual_session: the row only.
LogByHand(l, b, from, to, secs) ==
    /\ Unused(l) /\ held[b] # NotHeld
    /\ from <= to /\ secs > 0
    /\ logged' = [logged EXCEPT ![l] = [source |-> "manual", book |-> b, from |-> from, to |-> to,
                                        secs |-> secs, inOrder |-> FALSE]]
    /\ past' = [past EXCEPT !.rowOnly[to] = @ + secs]
    /\ UNCHANGED <<now, held, ending, heat, grade, goal, mark, screen, screenCall>>

CreateGoal(g, period, books, seconds) ==
    /\ goal[g] = NoGoal
    /\ goal' = [goal EXCEPT ![g] = [period |-> period, books |-> books, seconds |-> seconds,
                                    window |-> Window(period, now)]]
    /\ UNCHANGED <<now, held, logged, ending, heat, grade, mark, screen, screenCall, past>>

AddBookmark(m, b, page) ==
    /\ mark[m] = NoMark /\ held[b] # NotHeld
    /\ mark' = [mark EXCEPT ![m] = [book |-> b, page |-> page, at |-> now]]
    /\ UNCHANGED <<now, held, logged, ending, heat, grade, goal, screen, screenCall, past>>

--------------------------------------------------------------------------------
(* What the screens compute *)

Ended == {l \in Logs : logged[l].source \in {"timer", "manual"}}
TimerLogs == {l \in Ended : logged[l].source = "timer"}

\* Fault variant of EndedIn: the sessions that began in the window.
BegunIn(w) == {l \in Ended : logged[l].from \in w}

EndedIn(w) == {l \in Ended : logged[l].to \in w}
Seconds(ls) == Total([l \in ls |-> logged[l].secs], ls)

Completed == {b \in Titles : held[b].status = "completed"}

\* count_completed_books within a window, by finished_at.
FinishedIn(w) == {b \in Completed : held[b].finished \in w}

\* get_heatmap: the days of the range that have a row, the latest MostDays of it.
GetHeatmap(from, to) ==
    [d \in {x \in Policy!Larger(from, to - MostDays) .. to : heat[x] > 0} |-> heat[d]]

\* get_year_stats; the earliest of the best days.
GetYearStats(year) ==
    LET days == {d \in year : heat[d] > 0}
        best == {d \in days : /\ \A e \in days : heat[e] <= heat[d]
                              /\ \A e \in days : heat[e] = heat[d] => d <= e}
    IN  [books |-> Cardinality(FinishedIn(year)), seconds |-> Total(heat, year),
         best |-> best, totalSeconds |-> grade.seconds,
         streak |-> grade.streak, longest |-> grade.longest]

\* list_active: of each period the goal made last.
ListActive(d) ==
    LET active == {g \in Goals : goal[g] # NoGoal /\ d \in goal[g].window}
    IN  {g \in active : \A h \in active : goal[h].period = goal[g].period => h <= g}

\* _progress_percent: the mean of two ratios, none above one, in ten-thousandths.
Whole == 10000
ProgressPercent(booksDone, secondsDone, g) ==
    LET Ratio(done, target) ==
          IF target <= 0 THEN Whole ELSE Policy!Smaller(Whole, (done * Whole) \div target)
    IN  (Ratio(booksDone, g.books) + Ratio(secondsDone, g.seconds)) \div 2

\* get_current_goals counts the days up to d only.
GetCurrentGoals(d) ==
    [g \in ListActive(d) |->
        LET books == Cardinality(FinishedIn(goal[g].window))
            seconds == Total(heat, {e \in goal[g].window : e <= d})
        IN  [books |-> books, seconds |-> seconds,
             percent |-> ProgressPercent(books, seconds, goal[g])]]

\* The sessions of a day, entered ones among them.
GetDailySessions(d) == EndedIn({d})

GetLatestBookmark(b) == Highest({m \in Bookmarks : mark[m].book = b})

\* Pages turned in a session: bookmarks of its book set while it ran.
PagesOf(l) ==
    {mark[m].page : m \in {x \in Bookmarks :
        mark[x].book = logged[l].book /\ mark[x].at \in logged[l].from .. logged[l].to}}

\* avg_speed: timer sessions in which the page moved, with their pages.
AvgSpeed ==
    LET moved == {l \in TimerLogs : Cardinality(PagesOf(l)) > 1}
        Turned(l) == CHOOSE n \in Nat : \E p, q \in PagesOf(l) :
                        p - q = n /\ \A x \in PagesOf(l) : q <= x /\ x <= p
    IN  [l \in moved |-> [secs |-> logged[l].secs, pages |-> Turned(l)]]

\* The windows of the last n.
Recent(period, n) ==
    {w \in Calendar[period] :
        /\ \E d \in w : d <= now
        /\ Cardinality({v \in Calendar[period] : \E d \in v, e \in w : e < d /\ d <= now} \ {w}) < n}

\* get_speed_trend: the same by the week the session ended in.
GetSpeedTrend ==
    [w \in {x \in Recent("weekly", TrendWeeks) : \E l \in DOMAIN AvgSpeed : logged[l].to \in x} |->
        {l \in DOMAIN AvgSpeed : logged[l].to \in w}]

\* monthly_hours: months without a row are left out.
MonthlyHours ==
    [w \in {x \in Recent("monthly", TrendMonths) : Total(heat, x) > 0} |-> Total(heat, w)]

GenreCounts(books) ==
    [k \in {Genre[b] : b \in books} |-> Cardinality({b \in books : Genre[b] = k})]

\* genre_breakdown: a genre among the first n has fewer than n above it.
GenreBreakdown ==
    LET counts == GenreCounts(Completed) IN
    {k \in DOMAIN counts : Cardinality({j \in DOMAIN counts : counts[j] > counts[k]}) < TopN}

\* get_genre_distribution, in percent.
GetGenreDistribution ==
    [k \in DOMAIN GenreCounts(Completed) |->
        (GenreCounts(Completed)[k] * 100) \div Cardinality(Completed)]

\* avg_completion_days: the books with both dates.
AvgCompletionDays ==
    LET dated == {b \in Completed : held[b].finished # Never /\ held[b].finished > held[b].started}
    IN  [b \in dated |-> held[b].finished - held[b].started]

\* The most days in a row among those given.
LongestRun(days) ==
    CHOOSE n \in 0 .. Cardinality(days) :
        /\ n = 0 \/ \E d \in days : d .. d + n - 1 \subseteq days
        /\ \A d \in days : ~(d .. d + n \subseteq days)

\* get_longest_streak: of all sessions, entered ones among them.
GetLongestStreak == LongestRun({logged[l].to : l \in Ended})

GetReadingStats ==
    [speed |-> AvgSpeed, paper |-> Cardinality(Completed), months |-> MonthlyHours,
     genres |-> GenreBreakdown, completion |-> AvgCompletionDays]

GetAdvancedStats(year) ==
    [trend |-> GetSpeedTrend, genres |-> GetGenreDistribution,
     books |-> Cardinality(FinishedIn(year)),
     booksBefore |-> Cardinality(FinishedIn(Before("yearly", year))),
     longest |-> GetLongestStreak]

--------------------------------------------------------------------------------
(* Recaps and milestones *)

TimeOn(b) == Seconds({l \in TimerLogs : logged[l].book = b})

\* recap_top_books: finished in the window and read by timer, by time.
RecapTopBooks(w) ==
    LET read == {b \in FinishedIn(w) : \E l \in TimerLogs : logged[l].book = b}
    IN  {b \in read : Cardinality({c \in read : TimeOn(c) > TimeOn(b)}) < TopN}

\* recap_most_time: the later finished of two.
RecapMostTime(w) ==
    {b \in RecapTopBooks(w) : \A c \in RecapTopBooks(w) :
        TimeOn(c) < TimeOn(b) \/ (TimeOn(c) = TimeOn(b) /\ held[c].finished <= held[b].finished)}

\* recap_first_completed.
RecapFirstCompleted(w) ==
    {b \in FinishedIn(w) : \A c \in FinishedIn(w) : held[b].finished <= held[c].finished}

\* recap_thickest: by the highest bookmark.
RecapThickest(w) ==
    LET Page(b) == Highest({mark[m].page : m \in {x \in Bookmarks : mark[x].book = b}})
        marked == {b \in FinishedIn(w) : Page(b) # {}}
    IN  {b \in marked : \A c \in marked : \A p \in Page(b), q \in Page(c) : q <= p}

\* recap_aggregate_stats: every session that ended in the window counts.
RecapAggregate(w) ==
    [books |-> Cardinality(FinishedIn(w)), seconds |-> Seconds(EndedIn(w))]

GetReadingRecap(w) ==
    [time |-> RecapMostTime(w), first |-> RecapFirstCompleted(w), thick |-> RecapThickest(w),
     top |-> RecapTopBooks(w), books |-> RecapAggregate(w).books,
     seconds |-> RecapAggregate(w).seconds, longest |-> grade.longest]

\* get_monthly_stats with the figures of get_monthly_recap.
GetMonthlyRecap(w) ==
    LET days == {d \in w : heat[d] > 0}
        counts == GenreCounts(FinishedIn(w))
    IN  [books |-> Cardinality(FinishedIn(w)), seconds |-> Total(heat, w),
         daily |-> IF days = {} THEN 0 ELSE Total(heat, w) \div Cardinality(days),
         longest |-> grade.longest,
         genre |-> {k \in DOMAIN counts : \A j \in DOMAIN counts : counts[j] <= counts[k]},
         before |-> Total(heat, Before("monthly", w))]

\* get_achieved_milestones; those of a streak are dated now.
GetAchievedMilestones ==
    LET dates == {held[b].finished : b \in {x \in Completed : held[x].finished # Never}}
        Crossed(n) == {d \in Times : heat[d] > 0 /\ Total(heat, 0 .. d) >= n}
    IN  {[type |-> "books", value |-> n] : n \in {x \in MilestoneBooks : x <= Cardinality(dates)}}
        \cup {[type |-> "hours", value |-> n] : n \in {x \in MilestoneSeconds : Crossed(x) # {}}}
        \cup {[type |-> "streak", value |-> n] : n \in {x \in MilestoneDays : x <= grade.longest}}

--------------------------------------------------------------------------------
(* Two screens are kept in Redis for a day *)

Kept(s) == screen[s].until > now

Answer(s) == IF s[1] = "recap" THEN GetReadingRecap(s[2]) ELSE GetReadingStats

\* A miss is computed ...
OpenScreen(r, s) ==
    /\ screenCall[r] = NoScreen /\ ~Kept(s)
    /\ screenCall' = [screenCall EXCEPT ![r] = [op |-> "open", of |-> s, answer |-> Answer(s)]]
    /\ UNCHANGED <<now, held, logged, ending, heat, grade, goal, mark, screen, past>>

\* ... and kept, whatever was recorded or kept meanwhile.
ScreenKept(r) ==
    /\ screenCall[r].op = "open"
    /\ screen' = [screen EXCEPT ![screenCall[r].of] =
                     [until |-> now + ScreenLife, answer |-> screenCall[r].answer]]
    /\ screenCall' = [screenCall EXCEPT ![r] = NoScreen]
    /\ UNCHANGED <<now, held, logged, ending, heat, grade, goal, mark, past>>

\* Redis is down: the answer is shown and not kept.
ScreenShown(r) ==
    /\ screenCall[r].op = "open"
    /\ screenCall' = [screenCall EXCEPT ![r] = NoScreen]
    /\ UNCHANGED <<now, held, logged, ending, heat, grade, goal, mark, screen, past>>

StatsNext ==
    \/ \E b \in Titles :
          \/ AddTitle(b) \/ RemoveTitle(b)
          \/ \E status \in {"reading", "completed"} : UpdateTitle(b, status)
          \/ \E l \in Logs :
                StartTimer(l, b) \/ \E from, to \in Times, secs \in Amounts : LogByHand(l, b, from, to, secs)
          \/ \E m \in Bookmarks, page \in Amounts : AddBookmark(m, b, page)
    \/ \E r \in EndCalls :
          \/ SessionCommitted(r) \/ SessionNotEnded(r) \/ \E l \in Logs : EndTimer(r, l)
          \/ \E to, day \in Times, secs \in Amounts : SessionUpdated(r, to, day, secs)
    \/ \E g \in Goals, period \in {"weekly", "monthly", "yearly"}, books, seconds \in Amounts :
          CreateGoal(g, period, books, seconds)
    \/ \E r \in ScreenCalls :
          ScreenKept(r) \/ ScreenShown(r) \/ \E s \in Screens : OpenScreen(r, s)

StatsTypeOK ==
    /\ \A b \in Titles : held[b].status \in {"none", "reading", "completed"}
    /\ \A l \in Logs : logged[l] # NoLog => held[logged[l].book] # NotHeld
    /\ \A m \in Bookmarks : mark[m] # NoMark => held[mark[m].book] # NotHeld
    /\ \A g \in DOMAIN GetCurrentGoals(now) : GetCurrentGoals(now)[g].percent \in 0 .. Whole

\* The records the screens draw on agree as far as the requests let them.  A
\* recap has the seconds of the heatmap, but for those entered by hand and those
\* of sessions whose date in UTC, which the recap takes, is not the client's,
\* which the heatmap takes; it has fewer if a book took its sessions along or two
\* requests ended one session, and one that was kept never has more than that.
\* If no completion overlapped another, the longest run of days whose sessions
\* came in order is within the snapshot's longest streak, shields or not, and the
\* hours' milestones, of the heatmap, are those of the snapshot's total; if one
\* did, the total may lag behind (get_reading_recap, get_advanced_stats,
\* get_achieved_milestones).
StatisticsAgree ==
    /\ \A w \in Recaps :
          LET known == Total(heat, w) + Total(past.rowOnly, w)
              seconds == RecapAggregate(w).seconds
          IN
          /\ seconds + Total(past.heatOnly, w) <= known
          /\ past.removed \/ past.twice \/ seconds + Total(past.heatOnly, w) = known
          /\ Kept(<<"recap", w>>) =>
                /\ screen[<<"recap", w>>].answer.seconds <= known
                /\ past.overlapped \/ screen[<<"recap", w>>].answer.longest <= grade.longest
    /\ Kept(<<"stats", {}>>) =>
          LET months == screen[<<"stats", {}>>].answer.months IN
          \A w \in DOMAIN months : months[w] <= Total(heat, w)
    /\ past.overlapped \/ LongestRun({logged[l].to : l \in {x \in Ended : logged[x].inOrder}}) <= grade.longest
    /\ LET achieved == {n \in MilestoneSeconds : [type |-> "hours", value |-> n] \in GetAchievedMilestones}
           counted == {n \in MilestoneSeconds : n <= grade.seconds}
       IN  counted \subseteq achieved /\ (past.overlapped \/ achieved = counted)

\* The recap of a year has a card for the first book the reader completed in it.
FirstCompletedIsShown ==
    \A b \in Titles : past.finished[b] # Never =>
        GetReadingRecap(Window("yearly", past.finished[b])).first # {}

================================================================================
