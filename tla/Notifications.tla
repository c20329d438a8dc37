------------------------------- MODULE Notifications -------------------------------
(***************************************************************************)
(* Notifications (domains/notification): handlers of events and scheduled    *)
(* sweeps that work through a list of recipients, each in a transaction of   *)
(* its own that commits a row of the inbox before anything is pushed;        *)
(* preferences; the weekly report; the last-day reminder of a trial and the  *)
(* coupon a week after it.  Every worker of the server has a scheduler, and  *)
(* sweeps, of its own.  Wording and delivery by the push service are left    *)
(* out: a push is what send_to_tokens is called with.                        *)
(***************************************************************************)
EXTENDS Billing

CONSTANTS
    Jobs,          \* handlers and sweeps that may run at a time
    Workers,       \* processes with a scheduler, and whoever else starts a sweep
    NoWorker,      \* of an event, which is handled once, where it was published
    Notes,         \* ids of inbox rows
    PrefCalls,     \* preference requests that may be in flight at a time
    WeekDays,      \* days of a week
    RejoinAfter,   \* ticks from a trial's end to the coupon, seven days in the code
    RejoinCode     \* the coupon code of each user: REJOIN_ and a piece of the id

ASSUME NotificationsAssumption ==
    /\ WeekDays \in Nat \ {0} /\ RejoinAfter \in Nat /\ NoWorker \notin Workers
    /\ RejoinCode \in [Users -> Coupons]

VARIABLES
    inbox,       \* notifications, by id
    muted,       \* notification_preferences: pairs of a user and a kind turned off
    prefCall,    \* what each preference request has read
    job,         \* handlers and sweeps at work
    pushed,      \* pushes handed over: pairs of a note and a device token
    readDays,    \* daily_reading_stats: a user, a day and when its row was written
    report,      \* weekly_reports: triples of a user, a week's first day, its days read
    finished     \* history: what came of each handler and sweep

notifications == <<inbox, muted, prefCall, job, pushed, readDays, report, finished>>

Toggleable == {"reaction", "comment", "follow", "badge", "grade_up", "agenda",
               "club_comment", "weekly", "streak"}
RequiredKinds == {"reminder", "offer"}

\* by, of a row or a job: the worker whose sweep it is.
NoNote == [user |-> NoUser, kind |-> "none", about |-> Never, by |-> NoWorker, read |-> Never]
JobIdle == [kind |-> "idle"]
NoFigures == [user |-> NoUser, days |-> {}]
NoPref == [user |-> NoUser]

NotificationsInit ==
    /\ inbox = [n \in Notes |-> NoNote]
    /\ muted = {}
    /\ prefCall = [r \in PrefCalls |-> NoPref]
    /\ job = [j \in Jobs |-> JobIdle]
    /\ pushed = {} /\ readDays = {} /\ report = {} /\ finished = {}

Today == now \div Day

\* get_active_tokens; a deleted account's are still there.
TokensOf(u) == {t \in DeviceTokens : device[t] = u}

Enabled(u, kind) == kind \in RequiredKinds \/ <<u, kind>> \notin muted

--------------------------------------------------------------------------------
(* Handlers                                                                *)

Unpaid(u) == Alive(u) /\ ~pro[u].is

\* skips: whether a recipient that fails is passed over or ends the list.
Begin(j, kind, about, by, actor, todo, skips) ==
    /\ job[j] = JobIdle
    /\ job' = [job EXCEPT ![j] =
                  [kind |-> kind, about |-> about, by |-> by, actor |-> actor, todo |-> todo,
                   skips |-> skips, figures |-> NoFigures, note |-> {}, tokens |-> {},
                   wanted |-> todo, failed |-> {}, quiet |-> {},
                   unpaid |-> {u \in Users : Unpaid(u)}]]
    /\ UNCHANGED <<now, inbox, muted, prefCall, pushed, readDays, report, finished>>

\* The post's author and the author of the comment answered, not the commenter.
CommentRecipients(commenter, author, parent) == {author, parent} \ {commenter, NoUser}

\* about: which event it is.
OnReactionAdded(j, e, reactor, author) ==
    reactor # author /\ Begin(j, "reaction", e, NoWorker, reactor, {author}, FALSE)

OnCommentAdded(j, e, commenter, author, parent) ==
    Begin(j, "comment", e, NoWorker, commenter, CommentRecipients(commenter, author, parent), FALSE)

\* on_follow_received, on_badge_earned, on_grade_up and the streak pushes tell
\* one user; a grade that did not rise tells nobody.
OnUserEvent(j, e, kind, u) ==
    /\ kind \in {"follow", "badge", "grade_up", "streak"}
    /\ Begin(j, kind, e, NoWorker, NoUser, {u}, FALSE)

\* The club has left the actor out and named each recipient once.
FanOutClubPush(j, e, kind, actor, recipients) ==
    /\ kind \in {"agenda", "club_comment"} /\ actor \notin recipients
    /\ Begin(j, kind, e, NoWorker, actor, recipients, TRUE)

Working(j) == job[j] # JobIdle

NoteOf(j) == CHOOSE n \in job[j].note : TRUE

\* The list has come to u.
AtTurn(j, u) ==
    /\ Working(j) /\ job[j].note = {} /\ u \in job[j].todo
    /\ job[j].figures.user \in {NoUser, u}

WeekOf(monday) == monday .. monday + WeekDays - 1

DaysRead(u, monday) == {d \in WeekOf(monday) : \E x \in readDays : x[1] = u /\ x[2] = d}

\* A session of its own reads the statistics of the week: who did not read in
\* it is passed over.
StatsOfWeek(j, u) ==
    LET days == DaysRead(u, job[j].about) IN
    /\ AtTurn(j, u) /\ job[j].kind = "weekly" /\ job[j].figures = NoFigures
    /\ job' = IF days = {}
              THEN [job EXCEPT ![j].todo = @ \ {u}, ![j].quiet = @ \cup {u}]
              ELSE [job EXCEPT ![j].figures = [user |-> u, days |-> days]]
    /\ UNCHANGED <<now, inbox, muted, prefCall, pushed, readDays, report, finished>>

Ready(j, u) == AtTurn(j, u) /\ (job[j].kind = "weekly" => job[j].figures.user = u)

\* One report of a user and a week, the one that was written last.
Upsert(u, monday, days) ==
    {w \in report : w[1] # u \/ w[2] # monday} \cup {<<u, monday, days>>}

ReportsWith(j, u) ==
    IF job[j].kind = "weekly" THEN Upsert(u, job[j].about, job[j].figures.days) ELSE report

\* A recipient's transaction commits; the tokens were read in it.
NoticeSaved(j, u, n) ==
    /\ Ready(j, u) /\ Enabled(u, job[j].kind)
    /\ inbox[n] = NoNote
    /\ job[j].kind = "offer" => coupon[RejoinCode[u]].issued
    /\ inbox' = [inbox EXCEPT ![n] = [user |-> u, kind |-> job[j].kind, about |-> job[j].about,
                                      by |-> job[j].by, read |-> Never]]
    /\ job' = [job EXCEPT ![j].todo = @ \ {u}, ![j].figures = NoFigures, ![j].note = {n},
                          ![j].tokens = TokensOf(u)]
    /\ report' = ReportsWith(j, u)
    /\ UNCHANGED <<now, muted, prefCall, pushed, readDays, finished>>

\* Turned off: no row, no push; the weekly report is written all the same.
NoticeSkipped(j, u) ==
    /\ Ready(j, u) /\ ~Enabled(u, job[j].kind)
    /\ job' = [job EXCEPT ![j].todo = @ \ {u}, ![j].figures = NoFigures, ![j].quiet = @ \cup {u}]
    /\ report' = ReportsWith(j, u)
    /\ UNCHANGED <<now, inbox, muted, prefCall, pushed, readDays, finished>>

\* Without device tokens nothing is handed to the push service.
NoticePushed(j) ==
    /\ Working(j) /\ job[j].note # {}
    /\ pushed' = pushed \cup {<<NoteOf(j), t>> : t \in job[j].tokens}
    /\ job' = [job EXCEPT ![j].note = {}, ![j].tokens = {}]
    /\ UNCHANGED <<now, inbox, muted, prefCall, readDays, report, finished>>

NoticeFailedForRest(j, u) ==
    /\ AtTurn(j, u)
    /\ job' = [job EXCEPT ![j].todo = {}, ![j].figures = NoFigures,
                  ![j].failed = @ \cup (IF job[j].skips THEN {u} ELSE job[j].todo)]
    /\ UNCHANGED <<now, inbox, muted, prefCall, pushed, readDays, report, finished>>

\* The transaction raises: the sweeps and the club's list go on with the next.
NoticeFailed(j, u) ==
    /\ AtTurn(j, u)
    /\ job' = [job EXCEPT ![j].todo = IF job[j].skips THEN @ \ {u} ELSE {}, ![j].figures = NoFigures,
                  ![j].failed = @ \cup (IF job[j].skips THEN {u} ELSE job[j].todo)]
    /\ UNCHANGED <<now, inbox, muted, prefCall, pushed, readDays, report, finished>>

\* The push service cannot be called; the row stays.
PushFailed(j) ==
    /\ Working(j) /\ job[j].note # {}
    /\ job' = [job EXCEPT ![j].note = {}, ![j].tokens = {},
                  ![j].todo = IF job[j].skips THEN @ ELSE {},
                  ![j].failed = @ \cup (IF job[j].skips THEN {} ELSE job[j].todo)]
    /\ UNCHANGED <<now, inbox, muted, prefCall, pushed, readDays, report, finished>>

\* failed: those it failed for, and those it never came to.
Outcome(j, failed) ==
    [kind |-> job[j].kind, about |-> job[j].about, by |-> job[j].by, actor |-> job[j].actor,
     wanted |-> job[j].wanted, failed |-> failed, quiet |-> job[j].quiet, unpaid |-> job[j].unpaid]

\* The list is through; the last-day sweep goes on with the coupons.
JobDone(j) ==
    /\ Working(j) /\ job[j].note = {} /\ job[j].todo = {} /\ job[j].kind # "reminder"
    /\ finished' = finished \cup {Outcome(j, job[j].failed)}
    /\ job' = [job EXCEPT ![j] = JobIdle]
    /\ UNCHANGED <<now, inbox, muted, prefCall, pushed, readDays, report>>

\* The process dies: nothing remembers what was left of the list.
JobDies(j) ==
    /\ Working(j)
    /\ finished' = finished \cup {Outcome(j, job[j].failed \cup job[j].todo)}
    /\ job' = [job EXCEPT ![j] = JobIdle]
    /\ UNCHANGED <<now, inbox, muted, prefCall, pushed, readDays, report>>

--------------------------------------------------------------------------------
(* Sweeps of the schedulers, one in each worker                            *)

AliveUsers == {u \in Users : Alive(u)}

\* The first day of the week before the one that today belongs to, or ends.
LastMonday == Today - (Today % WeekDays) - WeekDays

\* A scheduler does not start a sweep again that is still at work
\* (max_instances); of the other workers it knows nothing.
NotRunning(w, kinds) == \A j \in Jobs : job[j].kind \in kinds => job[j].by # w

\* On Sundays at nine.
RunWeeklyReportBatch(j, w) ==
    /\ Today % WeekDays = WeekDays - 1 /\ now % Day = 0
    /\ NotRunning(w, {"weekly"})
    /\ \A o \in finished : o.kind = "weekly" /\ o.by = w => o.about # LastMonday
    /\ Begin(j, "weekly", LastMonday, w, NoUser, AliveUsers, TRUE)

EndingClosed(u) == account[u].trialEnds >= now /\ account[u].trialEnds <= now + Day

\* Trials that end within a day.
Ending(u) == account[u].trialEnds > now /\ account[u].trialEnds <= now + Day

\* Once a day, at ten or later: the query reads the clock, whatever it is by
\* then.  A day the process is down for is passed over.
SendExpiryReminders(j, w) ==
    /\ NotRunning(w, {"reminder", "offer"})
    /\ \A o \in finished : o.kind = "reminder" /\ o.by = w => o.about \div Day # Today
    /\ Begin(j, "reminder", now, w, NoUser, {u \in Users : Unpaid(u) /\ Ending(u)}, TRUE)

\* Trials that ended between seven and eight days before the clock of this
\* moment, which is not the clock the sweep began with.
SendReengagementCoupons(j) ==
    LET lapsed == {u \in Users : Unpaid(u) /\
                       account[u].trialEnds \in now - RejoinAfter - Day .. now - RejoinAfter - 1}
    IN  /\ Working(j) /\ job[j].note = {} /\ job[j].todo = {} /\ job[j].kind = "reminder"
        /\ finished' = finished \cup {Outcome(j, job[j].failed)}
        /\ job' = [job EXCEPT ![j] = [@ EXCEPT !.kind = "offer", !.todo = lapsed,
                                               !.wanted = lapsed, !.failed = {}]]
        /\ UNCHANGED <<now, inbox, muted, prefCall, pushed, readDays, report>>

\* A code that exists is taken as it is, though it be another user's.
IssueCoupon(j, u) ==
    /\ Working(j) /\ job[j].kind = "offer" /\ job[j].note = {} /\ u \in job[j].todo
    /\ CreateCoupon(RejoinCode[u])

\* Reading sessions feed the daily statistics, of the day the client names: it
\* may be long past, or lie ahead.
ReadOn(u, d) ==
    /\ Alive(u) /\ \A x \in readDays : x[1] = u => x[2] # d
    /\ readDays' = readDays \cup {<<u, d, now>>}
    /\ UNCHANGED <<now, inbox, muted, prefCall, job, pushed, report, finished>>

--------------------------------------------------------------------------------
(* The inbox and the preferences                                           *)

\* read_at is stamped once.
MarkRead(u, n) ==
    /\ inbox[n].user = u /\ inbox[n].read = Never
    /\ inbox' = [inbox EXCEPT ![n].read = now]
    /\ UNCHANGED <<now, muted, prefCall, job, pushed, readDays, report, finished>>

Unread(u) == {n \in Notes : inbox[n].user = u /\ inbox[n].read = Never}

MarkReadAll(u) ==
    /\ Unread(u) # {}
    /\ inbox' = [n \in Notes |-> IF n \in Unread(u) THEN [inbox[n] EXCEPT !.read = now]
                                 ELSE inbox[n]]
    /\ UNCHANGED <<now, muted, prefCall, job, pushed, readDays, report, finished>>

\* The stored map is read, the change merged into it, the whole written back:
\* of two changes that overlap the first may be undone.
UpdatePreferences(r, u, kind, on) ==
    /\ kind \in Toggleable /\ prefCall[r] = NoPref
    /\ prefCall' = [prefCall EXCEPT ![r] =
          [user |-> u,
           off |-> LET stored == {k \in Toggleable : <<u, k>> \in muted}
                   IN  IF on THEN stored \ {kind} ELSE stored \cup {kind}]]
    /\ UNCHANGED <<now, inbox, muted, job, pushed, readDays, report, finished>>

PreferencesSaved(r) ==
    /\ prefCall[r] # NoPref
    /\ muted' = {m \in muted : m[1] # prefCall[r].user} \cup ({prefCall[r].user} \X prefCall[r].off)
    /\ prefCall' = [prefCall EXCEPT ![r] = NoPref]
    /\ UNCHANGED <<now, inbox, job, pushed, readDays, report, finished>>

--------------------------------------------------------------------------------

HandlerNext ==
    \E j \in Jobs, e \in Times, u \in Users :
        \/ \E v \in Users : OnReactionAdded(j, e, u, v)
        \/ \E v \in Users, w \in Users \cup {NoUser} : OnCommentAdded(j, e, u, v, w)
        \/ \E kind \in Toggleable : OnUserEvent(j, e, kind, u)
        \/ \E kind \in Toggleable, all \in SUBSET (Users \ {u}) : FanOutClubPush(j, e, kind, u, all)

JobNext ==
    \E j \in Jobs :
        \/ \E u \in Users : StatsOfWeek(j, u) \/ NoticeSkipped(j, u) \/ NoticeFailed(j, u)
        \/ \E u \in Users, n \in Notes : NoticeSaved(j, u, n)
        \/ NoticePushed(j) \/ PushFailed(j) \/ JobDone(j) \/ JobDies(j)

SweepNext == \E j \in Jobs, w \in Workers : RunWeeklyReportBatch(j, w) \/ SendExpiryReminders(j, w)

InboxNext ==
    \E u \in Users :
        \/ MarkReadAll(u) \/ \E n \in Notes : MarkRead(u, n)
        \/ \E r \in PrefCalls, kind \in Toggleable, on \in BOOLEAN : UpdatePreferences(r, u, kind, on)

--------------------------------------------------------------------------------

NotificationsTypeOK ==
    /\ \A n \in Notes : inbox[n].user \in Users \cup {NoUser}
    /\ muted \subseteq Users \X Toggleable
    /\ \A w \in report : w[3] \subseteq w[2] .. w[2] + WeekDays - 1

RowsAbout(u, o) ==
    {n \in Notes : inbox[n].user = u /\ inbox[n].kind = o.kind /\ inbox[n].about = o.about
                   /\ inbox[n].by = o.by}

\* The instant the sweeps that report a week begin at: it has been over for a week.
SweepOf(monday) == (monday + 2 * WeekDays - 1) * Day

\* What had been read of a week when its sweeps began.
DueDays(u, monday) ==
    {d \in WeekOf(monday) : \E x \in readDays : x[1] = u /\ x[2] = d /\ x[3] < SweepOf(monday)}

\* Whoever an event was for has one row of it when its handler is through, and
\* whoever a sweep was for one from each worker that swept, except those it
\* failed for, or who had turned it off or not read; nobody else has.  A
\* recipient that fails takes away nobody else's row in a sweep or a club's
\* list; nobody is told of what they did; what is pushed is in the inbox.  A
\* reader's week has one report, however many workers write it and whatever is
\* read into the week meanwhile: it holds all that was read of the week before
\* the sweeps, and nothing that was not (_fan_out_club_push,
\* send_expiry_reminders, run_weekly_report_batch, on_comment_added).  The batch
\* calls itself "idempotent" (notification/service.py:425), which is so of the
\* report and not of the row beside it.
EveryoneToldOnce ==
    /\ \A o \in finished :
          /\ \A u \in o.wanted \ (o.failed \cup o.quiet) : RowsAbout(u, o) # {}
          /\ o.actor # NoUser => RowsAbout(o.actor, o) = {}
          /\ o.kind = "weekly" => \A u \in o.wanted \ o.failed : DueDays(u, o.about) # {} =>
                \E w \in report : w[1] = u /\ w[2] = o.about
    /\ \A v, w \in report : (v[1] = w[1] /\ v[2] = w[2]) => v = w
    /\ \A w \in report : DueDays(w[1], w[2]) \subseteq w[3] /\ w[3] \subseteq DaysRead(w[1], w[2])
    /\ \A p \in pushed : inbox[p[1]] # NoNote
    /\ \A n, m \in Notes : (inbox[n] # NoNote
                            /\ [inbox[n] EXCEPT !.read = Never] = [inbox[m] EXCEPT !.read = Never])
                           => n = m

\* A worker announces the end of a trial that runs out unpaid if it swept before
\* the end and again no more than a day later, or once within the last day, and
\* looked at that user and did not fail; so a gap is left only if the query of
\* the second day came later in its day than that of the first.  It announces it
\* within the last day, as the text "tomorrow" says, and twice only from sweeps
\* of two days that were less than a day apart (send_expiry_reminders,
\* get_users_with_trial_ending_within).
TrialRemindedOnce ==
    \A u \in Users, w \in Workers : Alive(u) =>
        LET ends  == account[u].trialEnds
            rows  == {n \in Notes : inbox[n].user = u /\ inbox[n].kind = "reminder" /\ inbox[n].by = w}
            swept == {o \in finished : o.kind = "reminder" /\ o.by = w /\ u \in o.unpaid \ o.failed}
        IN  /\ \A o, p \in swept :
                  (o.about < ends /\ ends <= p.about + Day /\ p.about - o.about \in 0 .. Day) => rows # {}
            /\ \A n \in rows : ends - inbox[n].about \in 1 .. Day
            /\ \A n, m \in rows : n # m => inbox[n].about \div Day # inbox[m].about \div Day
            /\ Cardinality(rows) <= 2

================================================================================
