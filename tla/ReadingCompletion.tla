--------------------------- MODULE ReadingCompletion ---------------------------
(***************************************************************************)
(* The reading-session requests of the backend and the database they share. *)
(* Each request runs in a transaction of its own (core/db.py get_session)  *)
(* under READ COMMITTED: it reads committed rows into the identity map of   *)
(* its session, never re-reads them, holds the lock of every row it has    *)
(* written until it commits or rolls back, and its writes become visible   *)
(* at the commit.  Every await on the database is a step, so requests      *)
(* interleave wherever the event loop may switch.  Events are staged on    *)
(* the session and reach the in-process bus in a task started by the       *)
(* commit (shared/event_bus.py).                                           *)
(***************************************************************************)
EXTENDS GradeSnapshot, FiniteSetsExt

CONSTANTS
    Users,
    Sessions,      \* ids of reading_sessions rows
    Requests,      \* one element per HTTP request ever served
    Dates,         \* day numbers of the ended_at a client may send
    Elapsed,       \* milliseconds between started_at and that ended_at
    Pauses,        \* paused_ms of the request body
    BookCounts,    \* what count_completed_books may return
    ManualSeconds, \* durations of hand-logged sessions
    StreakMilestones, \* _STREAK_MILESTONES: {3, 7, 14, 30, 60, 100}
    MaxCrashes,    \* bound on process crashes
    None

ASSUME CompletionAssumption ==
    /\ None \notin Users \cup Sessions
    /\ Dates \subseteq Nat \ {NoDate}
    /\ Elapsed \subseteq Int
    /\ Pauses \subseteq Nat
    /\ BookCounts \subseteq Nat
    /\ ManualSeconds \subseteq Nat
    /\ StreakMilestones \subseteq Nat
    /\ MaxCrashes \in Nat

VARIABLES
    session,    \* reading_sessions: the committed rows
    daily,      \* daily_reading_stats: the committed rows, all 0 if absent
    grade,      \* user_grades: the committed rows
    posts,      \* STREAK_MILESTONE feed events: how many per user and streak
    pc,         \* where each request stands
    req,        \* what each request asks for
    snap,       \* the user_grades row in the request's identity map
    draft,      \* that row as the request last flushed it
    bucket,     \* the daily_reading_stats row as the request left it
    outbox,     \* events staged on the request's session
    task,       \* events in the dispatch task its commit started
    delivered,  \* events its task has handed to the subscribers
    crashes,    \* how often the process went down
    credited    \* history: seconds of the completions committed per user

tables == <<session, daily, grade, posts, credited>>
bus == <<outbox, task, delivered>>
vars == <<session, daily, grade, posts, pc, req, snap, draft, bucket,
          outbox, task, delivered, crashes, credited>>

MinTimerSeconds == 1
ManualMin == 60
ManualMax == 4 * 60 * 60

\* Where a request is: "inserting" waits to flush its INSERT, "loaded" has
\* passed the checks of end_session, and each later name of the end request
\* is the statement it has just finished.
InTransaction == {"inserting", "inserted", "loaded", "ended", "read",
                  "counted", "written"}
Outcomes == {"idle", "committed", "aborted"}

NoRow == [owner |-> None, state |-> "free", source |-> "timer", seconds |-> 0]
NoBucket == [seconds |-> 0, count |-> 0]
NoRequest == [op |-> "none", user |-> None, sid |-> None, date |-> NoDate,
              seconds |-> 0]

SessionRows == [owner : Users \cup {None}, state : {"free", "active", "ended"},
                source : {"timer", "manual"}, seconds : Nat]
Buckets == [seconds : Nat, count : Nat]
RequestParams == [op : {"none", "start", "end"}, user : Users \cup {None},
                  sid : Sessions \cup {None}, date : Nat, seconds : Nat]
Events ==
    [type : {"ReadingSessionCompleted"}, user : Users \cup {None},
     sid : Sessions \cup {None}, date : Nat, seconds : Nat]
    \cup
    [type : {"UserGradeRecomputed"}, user : Users \cup {None},
     old : Ranks, new : Ranks]

Init ==
    /\ session = [s \in Sessions |-> NoRow]
    /\ daily = [u \in Users |-> [d \in Dates |-> NoBucket]]
    /\ grade = [u \in Users |-> FreshGrade]
    /\ posts = [u \in Users |-> [m \in StreakMilestones |-> 0]]
    /\ pc = [r \in Requests |-> "idle"]
    /\ req = [r \in Requests |-> NoRequest]
    /\ snap = [r \in Requests |-> FreshGrade]
    /\ draft = [r \in Requests |-> FreshGrade]
    /\ bucket = [r \in Requests |-> NoBucket]
    /\ outbox = [r \in Requests |-> <<>>]
    /\ task = [r \in Requests |-> <<>>]
    /\ delivered = [r \in Requests |-> <<>>]
    /\ crashes = 0
    /\ credited = [u \in Users |-> 0]

--------------------------------------------------------------------------------
(* Committed rows, and the locks uncommitted writes hold.                  *)

ActiveOf(u) == {s \in Sessions : session[s].owner = u
                                 /\ session[s].state = "active"}

\* r has flushed its UPDATE of reading_sessions row s.
HoldsSession(r, s) ==
    pc[r] \in {"ended", "read", "counted", "written"} /\ req[r].sid = s

\* Fault variant of HoldsActiveIndex: a request that only waits for its turn
\* to insert already claims the entry, as a lock taken before the checks would.
HoldsActiveIndexEarly(r, u) ==
    \/ pc[r] \in {"inserting", "inserted"} /\ req[r].user = u
    \/ \E s \in ActiveOf(u) : HoldsSession(r, s)

\* r has an uncommitted row in, or deletion from, the partial unique index
\* ix_reading_session_one_active: a unique check on u must wait for r.
HoldsActiveIndex(r, u) ==
    \/ pc[r] = "inserted" /\ req[r].user = u
    \/ \E s \in ActiveOf(u) : HoldsSession(r, s)

HoldsDaily(r, u, d) ==
    pc[r] \in {"counted", "written"} /\ req[r].user = u /\ req[r].date = d

\* r has inserted or updated the user_grades row of u.
HoldsGrade(r, u) ==
    /\ req[r].user = u
    /\ \/ pc[r] = "written"
       \/ pc[r] \in {"read", "counted"} /\ ~snap[r].exists

--------------------------------------------------------------------------------
(* POST /reading/sessions/start                                            *)

\* start_session up to the INSERT: the friendly pre-check sees committed rows.
BeginStart(r, u) ==
    /\ pc[r] = "idle"
    /\ ActiveOf(u) = {}
    /\ pc' = [pc EXCEPT ![r] = "inserting"]
    /\ req' = [req EXCEPT ![r] = [NoRequest EXCEPT !.op = "start", !.user = u]]
    /\ UNCHANGED <<tables, snap, draft, bucket, bus, crashes>>

\* Fault variant of InsertStarted: no partial unique index, so the pre-check
\* of start_session is the only guard.
InsertStartedUnindexed(r, s) ==
    /\ pc[r] = "inserting"
    /\ session[s].state = "free"
    /\ \A q \in Requests : req[q].sid # s
    /\ pc' = [pc EXCEPT ![r] = "inserted"]
    /\ req' = [req EXCEPT ![r].sid = s]
    /\ UNCHANGED <<tables, snap, draft, bucket, bus, crashes>>

\* create_started: the flush waits for every transaction that leaves the
\* user's entry of the unique index in doubt, then inserts.
InsertStarted(r, s) ==
    LET u == req[r].user IN
    /\ pc[r] = "inserting"
    /\ \A q \in Requests \ {r} : ~HoldsActiveIndex(q, u)
    /\ ActiveOf(u) = {}
    /\ session[s].state = "free"
    /\ \A q \in Requests : req[q].sid # s
    /\ pc' = [pc EXCEPT ![r] = "inserted"]
    /\ req' = [req EXCEPT ![r].sid = s]
    /\ UNCHANGED <<tables, snap, draft, bucket, bus, crashes>>

\* create_started: IntegrityError, rollback, ACTIVE_SESSION_EXISTS.
InsertRefused(r) ==
    /\ pc[r] = "inserting"
    /\ \A q \in Requests \ {r} : ~HoldsActiveIndex(q, req[r].user)
    /\ ActiveOf(req[r].user) # {}
    /\ pc' = [pc EXCEPT ![r] = "aborted"]
    /\ UNCHANGED <<tables, req, snap, draft, bucket, bus, crashes>>

CommitStart(r) ==
    /\ pc[r] = "inserted"
    /\ session' = [session EXCEPT ![req[r].sid] =
                      [NoRow EXCEPT !.owner = req[r].user, !.state = "active"]]
    /\ pc' = [pc EXCEPT ![r] = "committed"]
    /\ UNCHANGED <<daily, grade, posts, req, snap, draft, bucket, bus, crashes, credited>>

(* POST /reading/sessions/manual: one INSERT, in no index that another     *)
(* request could be holding, and no effect on statistics or streaks.       *)
LogManualSession(r, u, s, seconds) ==
    /\ pc[r] = "idle"
    /\ seconds \in ManualMin .. ManualMax
    /\ session[s].state = "free"
    /\ \A q \in Requests : req[q].sid # s
    /\ session' = [session EXCEPT ![s] =
                      [owner |-> u, state |-> "ended", source |-> "manual",
                       seconds |-> seconds]]
    /\ pc' = [pc EXCEPT ![r] = "committed"]
    /\ UNCHANGED <<daily, grade, posts, req, snap, draft, bucket, bus, crashes, credited>>

--------------------------------------------------------------------------------
(* POST /reading/sessions/{session_id}/end                                 *)

\* end_session up to its first write: the row is the caller's, still running
\* as far as committed data goes, and the credited time is not below 1 s.
BeginEnd(r, u, s, d, elapsedMs, pausedMs) ==
    LET seconds == ReconcileDuration(elapsedMs, pausedMs) IN
    /\ pc[r] = "idle"
    /\ session[s].owner = u
    /\ session[s].state = "active"
    /\ seconds >= MinTimerSeconds
    /\ pc' = [pc EXCEPT ![r] = "loaded"]
    /\ req' = [req EXCEPT ![r] = [op |-> "end", user |-> u, sid |-> s,
                                  date |-> d, seconds |-> seconds]]
    /\ UNCHANGED <<tables, snap, draft, bucket, bus, crashes>>

\* Fault variant of EndSessionRow: the row is committed on its own.
EndSessionRowAlone(r) ==
    /\ pc[r] = "loaded"
    /\ \A q \in Requests \ {r} : ~HoldsSession(q, req[r].sid)
    /\ pc' = [pc EXCEPT ![r] = "ended"]
    /\ session' = [session EXCEPT ![req[r].sid].state = "ended",
                                  ![req[r].sid].seconds = req[r].seconds]
    /\ UNCHANGED <<daily, grade, posts, credited, req, snap, draft, bucket, bus, crashes>>

\* sessions.end_session: session.get returns the copy BeginEnd loaded, so the
\* "already ended" test sees the old row and the UPDATE is always sent.
EndSessionRow(r) ==
    /\ pc[r] = "loaded"
    /\ \A q \in Requests \ {r} : ~HoldsSession(q, req[r].sid)
    /\ pc' = [pc EXCEPT ![r] = "ended"]
    /\ UNCHANGED <<tables, req, snap, draft, bucket, bus, crashes>>

\* user_grades.get_or_init: read the row into the identity map, inserting a
\* fresh one (ON CONFLICT DO NOTHING waits for a competing insert) if absent.
ReadGrade(r) ==
    LET u == req[r].user IN
    /\ pc[r] = "ended"
    /\ grade[u].exists \/ \A q \in Requests \ {r} : ~HoldsGrade(q, u)
    /\ snap' = [snap EXCEPT ![r] = grade[u]]
    /\ pc' = [pc EXCEPT ![r] = "read"]
    /\ UNCHANGED <<tables, req, draft, bucket, bus, crashes>>

\* Fault variant of UpsertDaily: the new values are computed from a row read
\* without its lock, as an ORM read-modify-write would.
UpsertDailyUnlocked(r) ==
    LET b == daily[req[r].user][req[r].date] IN
    /\ pc[r] = "read"
    /\ bucket' = [bucket EXCEPT ![r] = [seconds |-> b.seconds + req[r].seconds,
                                       count |-> b.count + 1]]
    /\ pc' = [pc EXCEPT ![r] = "counted"]
    /\ UNCHANGED <<tables, req, snap, draft, bus, crashes>>

\* daily_stats.upsert: INSERT ... ON CONFLICT DO UPDATE locks the row, waiting
\* for another holder, and adds to the values committed at that moment.
UpsertDaily(r) ==
    LET b == daily[req[r].user][req[r].date] IN
    /\ pc[r] = "read"
    /\ \A q \in Requests \ {r} : ~HoldsDaily(q, req[r].user, req[r].date)
    /\ bucket' = [bucket EXCEPT ![r] = [seconds |-> b.seconds + req[r].seconds,
                                       count |-> b.count + 1]]
    /\ pc' = [pc EXCEPT ![r] = "counted"]
    /\ UNCHANGED <<tables, req, snap, draft, bus, crashes>>

\* The events end_session stages after request q turned row old into row new.
StagedEvents(q, old, new) ==
    LET completed == [type |-> "ReadingSessionCompleted", user |-> q.user,
                      sid |-> q.sid, date |-> q.date, seconds |-> q.seconds]
        recomputed == [type |-> "UserGradeRecomputed", user |-> q.user,
                       old |-> old.rank, new |-> new.rank]
    IN  IF old.rank = new.rank THEN <<completed>> ELSE <<completed, recomputed>>

\* user_grades.update_snapshot, then stage_event and record_streak_milestone.
WriteGrade(r, books) ==
    /\ pc[r] = "counted"
    /\ \A q \in Requests \ {r} : ~HoldsGrade(q, req[r].user)
    /\ LET new == CompletedRow(snap[r], req[r].seconds, req[r].date, books) IN
       /\ draft' = [draft EXCEPT ![r] = new]
       /\ outbox' = [outbox EXCEPT ![r] = StagedEvents(req[r], snap[r], new)]
    /\ pc' = [pc EXCEPT ![r] = "written"]
    /\ UNCHANGED <<tables, req, snap, bucket, task, delivered, crashes>>

\* Fault variant of CommitEnd: the after_commit listener is not registered,
\* so the staged events never leave the session.
CommitEndSilent(r) ==
    LET q == req[r] IN
    /\ pc[r] = "written"
    /\ session' = [session EXCEPT ![q.sid].state = "ended",
                                  ![q.sid].seconds = q.seconds]
    /\ daily' = [daily EXCEPT ![q.user][q.date] = bucket[r]]
    /\ grade' = [grade EXCEPT ![q.user] = MergeColumns(@, snap[r], draft[r])]
    /\ posts' = posts
    /\ credited' = [credited EXCEPT ![q.user] = @ + q.seconds]
    /\ pc' = [pc EXCEPT ![r] = "committed"]
    /\ UNCHANGED <<req, snap, draft, bucket, bus, crashes>>

\* The commit of an end request: all its rows become visible together and
\* the after_commit listener moves the staged events to a dispatch task.
CommitEnd(r) ==
    LET q == req[r] IN
    /\ pc[r] = "written"
    /\ session' = [session EXCEPT ![q.sid].state = "ended",
                                  ![q.sid].seconds = q.seconds]
    /\ daily' = [daily EXCEPT ![q.user][q.date] = bucket[r]]
    /\ grade' = [grade EXCEPT ![q.user] = MergeColumns(@, snap[r], draft[r])]
    /\ posts' = IF draft[r].streak \in StreakMilestones
                THEN [posts EXCEPT ![q.user][draft[r].streak] = @ + 1]
                ELSE posts
    /\ credited' = [credited EXCEPT ![q.user] = @ + q.seconds]
    /\ task' = [task EXCEPT ![r] = outbox[r]]
    /\ outbox' = [outbox EXCEPT ![r] = <<>>]
    /\ pc' = [pc EXCEPT ![r] = "committed"]
    /\ UNCHANGED <<req, snap, draft, bucket, delivered, crashes>>

--------------------------------------------------------------------------------
(* Failure and delivery.                                                   *)

\* Fault variant of Rollback: the queue is dispatched instead of emptied.
RollbackPublishes(r) ==
    /\ pc[r] \in InTransaction
    /\ pc' = [pc EXCEPT ![r] = "aborted"]
    /\ task' = [task EXCEPT ![r] = outbox[r]]
    /\ outbox' = [outbox EXCEPT ![r] = <<>>]
    /\ UNCHANGED <<tables, req, snap, draft, bucket, delivered, crashes>>

\* An exception in the handler or a failed statement: get_session rolls back
\* and the after_rollback listener empties the queue.
Rollback(r) ==
    /\ pc[r] \in InTransaction
    /\ pc' = [pc EXCEPT ![r] = "aborted"]
    /\ outbox' = [outbox EXCEPT ![r] = <<>>]
    /\ UNCHANGED <<tables, req, snap, draft, bucket, task, delivered, crashes>>

\* _dispatch and LocalEventBus.publish: one event after the other, a handler
\* that fails is logged and skipped.
Deliver(r) ==
    /\ task[r] # <<>>
    /\ delivered' = [delivered EXCEPT ![r] = Append(@, Head(task[r]))]
    /\ task' = [task EXCEPT ![r] = Tail(@)]
    /\ UNCHANGED <<tables, pc, req, snap, draft, bucket, outbox, crashes>>

\* The process dies: PostgreSQL rolls open transactions back, and both the
\* staged and the not yet dispatched events were only in its memory.
Crash ==
    /\ crashes < MaxCrashes
    /\ crashes' = crashes + 1
    /\ pc' = [r \in Requests |-> IF pc[r] \in InTransaction THEN "aborted"
                                 ELSE pc[r]]
    /\ outbox' = [r \in Requests |-> <<>>]
    /\ task' = [r \in Requests |-> <<>>]
    /\ UNCHANGED <<tables, req, snap, draft, bucket, delivered>>

Begin(r) ==
    \E u \in Users :
        \/ BeginStart(r, u)
        \/ \E s \in Sessions, n \in ManualSeconds : LogManualSession(r, u, s, n)
        \/ \E s \in Sessions, d \in Dates, e \in Elapsed, p \in Pauses :
               BeginEnd(r, u, s, d, e, p)

\* The statements of a transaction under way, to its commit.
Proceed(r) ==
    \/ \E s \in Sessions : InsertStarted(r, s)
    \/ InsertRefused(r)
    \/ CommitStart(r)
    \/ EndSessionRow(r)
    \/ ReadGrade(r)
    \/ UpsertDaily(r)
    \/ \E n \in BookCounts : WriteGrade(r, n)
    \/ CommitEnd(r)

Next ==
    \/ \E r \in Requests : Begin(r) \/ Proceed(r) \/ Rollback(r) \/ Deliver(r)
    \/ Crash

Spec == Init /\ [][Next]_vars

\* PostgreSQL grants a lock once it is free and the event loop runs every
\* ready coroutine; nothing obliges clients to send requests or to fail.
FairSpec ==
    /\ Spec
    /\ \A r \in Requests : WF_vars(Proceed(r)) /\ WF_vars(Deliver(r))
--------------------------------------------------------------------------------
(* Properties.                                                             *)

\* Every variable keeps to the rows and values the schema and the code allow.
TypeOK ==
    /\ session \in [Sessions -> SessionRows]
    /\ daily \in [Users -> [Dates -> Buckets]]
    /\ grade \in [Users -> GradeRows]
    /\ posts \in [Users -> [StreakMilestones -> Nat]]
    /\ pc \in [Requests -> InTransaction \cup Outcomes]
    /\ req \in [Requests -> RequestParams]
    /\ snap \in [Requests -> GradeRows]
    /\ draft \in [Requests -> GradeRows]
    /\ bucket \in [Requests -> Buckets]
    /\ outbox \in [Requests -> Seq(Events)]
    /\ task \in [Requests -> Seq(Events)]
    /\ delivered \in [Requests -> Seq(Events)]
    /\ crashes \in 0 .. MaxCrashes
    /\ credited \in [Users -> Nat]

\* However start, end and failing requests interleave, a user never has two
\* running sessions: the promise of ix_reading_session_one_active, which the
\* pre-check of start_session alone would not keep.
OneActiveSession ==
    \A u \in Users : \A s, t \in ActiveOf(u) : s = t

Completions(u, d) ==
    {r \in Requests : /\ pc[r] = "committed" /\ req[r].op = "end"
                      /\ req[r].user = u /\ req[r].date = d}

\* The heatmap adds up: each bucket holds exactly the completions committed
\* for that user and day, so no concurrent completion, rollback or crash
\* loses or repeats an increment of daily_stats.upsert.
HeatmapExact ==
    \A u \in Users, d \in Dates :
        /\ daily[u][d].count = Cardinality(Completions(u, d))
        /\ daily[u][d].seconds =
               MapThenSumSet(LAMBDA r : req[r].seconds, Completions(u, d))

\* The lifetime total in user_grades is written from a value read earlier, so
\* overlapping completions may leave it short of the time credited, but no
\* interleaving makes it exceed that time: a grade is never unearned.
GradeNeverAhead ==
    \A u \in Users : grade[u].seconds <= credited[u]

\* What the subscribers see of a request is, in order and without repetition,
\* a prefix of the events of its committed transaction: a transaction that
\* rolled back or is still open has published nothing (event_bus.py).
NoPhantomEvents ==
    \A r \in Requests :
        LET published == delivered[r] \o task[r] IN
        published # <<>> =>
            /\ pc[r] = "committed"
            /\ LET staged == StagedEvents(req[r], snap[r], draft[r]) IN
               /\ Len(published) <= Len(staged)
               /\ published = SubSeq(staged, 1, Len(published))

\* No set of requests waits on itself for row locks: every request that has
\* begun commits or is rolled back.
RequestsFinish ==
    \A r \in Requests : pc[r] \in InTransaction ~> pc[r] \in Outcomes

\* Once a completion has flushed its last row, its events reach the bus unless
\* the transaction fails or the process dies before it has dispatched them.
CompletionsAnnounced ==
    \A r \in Requests :
        pc[r] = "written" ~>
            \/ pc[r] = "aborted"
            \/ crashes > 0
            \/ delivered[r] = StagedEvents(req[r], snap[r], draft[r])

\* The transactions, locks and statements above implement requests that take
\* effect one at a time: sessions, heatmap and announcements move together,
\* and what others may see never shows half a completion (ReadingRecord).
Record == INSTANCE ReadingRecord WITH
    Durations <- {ReconcileDuration(e, p) : e \in Elapsed, p \in Pauses},
    ManualLengths <- ManualSeconds,
    completed <- {r \in Requests : pc[r] = "committed" /\ req[r].op = "end"},
    queue <- task,
    heard <- delivered

AtomicRecord == Record!RecordSpec

\* repository.py:115 calls ending a session twice an "idempotent noop", so the
\* heatmap of a user counts each ended timer session once.
HeatmapCountsSessions ==
    \A u \in Users :
        MapThenSumSet(LAMBDA d : daily[u][d].count, Dates) =
            Cardinality({s \in Sessions : /\ session[s].owner = u
                                          /\ session[s].source = "timer"
                                          /\ session[s].state = "ended"})
================================================================================
