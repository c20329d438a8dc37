# Book Club: a TLA+ model of the backend

This directory holds TLA+ modules, TLC configurations and TLAPS proofs about
the Book Club backend (`src/backend`, FastAPI + SQLAlchemy async + PostgreSQL +
Redis). The repository also contains a Flutter client (`src/mobile`) and an
admin front end; they are clients of the requests modelled here.

Contents: 1 Inventory. 2 Modules and how they correspond to the code. 3 Runs,
bounds, fairness, findings. 4 Proofs. 5 Divergences noted without a run.
6 Not modelled.

## 1. Inventory

The backend is two Python processes in production (`Dockerfile:93`; each an
asyncio event loop with a scheduler of its own, `main.py:77`), one PostgreSQL
database, one Redis and an event bus inside each process. Every HTTP request gets
an `AsyncSession` of its own from `core/db.py get_session`, which commits after
the handler has returned (with the FastAPI that is pinned, after the answer has
been sent) and rolls back when it raises. The isolation level is PostgreSQL's
default, READ COMMITTED. Facts that shape everything below:

* a row once read stays in the session's *identity map*: `session.get`, and a
  second `SELECT` of the same row, give back the copy first loaded, and a flush
  sends only the columns whose value differs from that copy;
* since an answer precedes its commit, and a user may have two devices, no request
  is assumed to wait for another one of the same user;
* `created_at` and every `func.now()` is the *start* of the transaction, so
  rows appear in another order than their stamps;
* events are *staged* on the session and reach the bus in a task started by the
  session's `after_commit` listener; `after_rollback` drops them.

| Component | State | Operations | Interacts with | What makes it correct |
|---|---|---|---|---|
| Reading sessions (`domains/reading`) | `reading_sessions`, `daily_reading_stats`, `user_grades` | start, manual log, end | bus, feed, challenges, referral, book | one running session per user; the heatmap adds up; grade never ahead of the time read |
| Statistics (`domains/reading`) | the same, `goals`, `bookmarks`, answers kept in Redis | heatmap, year, goals, bookmarks, speed, genres, recap, milestones | library, Redis | the three records the screens draw on agree |
| Grade and streak policy | none (pure) | `update_streak`, `calculate_grade_tier`, `_apply_streak_with_shield`, `_reconcile_duration` | reading | monotone ladder, streak earned, duration in range |
| Shields, refunds, welcome gift, streak recovery | `user_grades.streak_shields`, `shield_purchases`, `streak_recovery_logs` | purchase, refund webhook, subscription webhook, recover | reading (same row) | capped awards, refunds within the grant, recovery cap, sessions not undone |
| Event bus and transactions | queue on the session, dispatch tasks | stage, commit, rollback, dispatch | every domain | no event without its commit; in order, once |
| Challenges and badges | `challenge_participants`, `user_badges` | join, leave, three event handlers | bus | badges deserved, given with their challenge, announced once |
| Clubs | members, plans, events, sessions, agendas, topics, comments | join, leave, plan, rsvp, open, publish, reorder, answer | feed, bus, chat | capacity, truthful feed, order of topics, whole threads |
| Club chat | sockets per process, rooms, messages, Redis channels | connect, send, edit, delete, receipts, relay | clubs | an open socket gets every stored message |
| Feed and community | posts, comments, reactions, highlights, events, replies | create, delete, toggle, share, list | library, social | pages miss nothing, a share is there once |
| Follows, blocks, reports (`domains/social`) | three edge tables | follow, block, report | feed | a block severs |
| Library and reviews | `user_books`, `book_reviews` | add, status, chapter, remove, review, report | bus, feed | one row per pair, reports hide |
| Accounts (`domains/auth`) | `users`, device tokens, tokens at clients | login, refresh, delete | everything | deleted stays out |
| Billing (`subscription`, `team`) | Pro columns, coupons, teams, seats | activate, webhooks, expiry on read, redeem, add | accounts, shields | what is limited is exceeded only by overlap |
| Notifications | inbox, preferences, weekly reports | handlers, sweeps, weekly batch | push service, accounts, billing | everyone told, once |
| Meetups, referral | queue of a meetup, codes and referrals | join, review; apply, complete | reading | places, one foreign referrer |
| AI assistant | usage log, guides, cards in Redis | generate and record | billing (Pro), clubs | limits exceeded only by overlap |
| Recommendations (`discovery`) | taste profiles, interests, kept answers, learnt model | recommend, recompute, retrain | library, Redis | what is recommended was new |
| Administration | `users.is_admin` | promote, revoke | accounts | there stays an administrator |
| Search, curation, share cards, video, reminders, experiments | single rows, or none | create, read | external services | not a protocol |

The hard behaviours are: requests of one user that overlap (a double tap, a
retry of the mobile client, two devices); a value read into the identity map
and written back after another transaction changed it; counts and tests that
precede an insert; unique indexes and row locks as the only guards; stamps
older than commits under a paging client; webhooks delivered twice or out of
order; transactions that roll back after staging events; a process dying between a
commit and what follows it; one recipient of many failing; answers kept in
Redis after what they rest on has changed. `PROJECT.json` lists each of them as
a hazard at its line, with the properties that cover it or the reason none does.

## 2. Modules

| Module | Models | Kind |
|---|---|---|
| `ReadingPolicy` | `reading/service.py` helpers, `streak_policy.py`, `grade_policy.py` | operators |
| `GradeSnapshot` | one `user_grades` row: fresh row, what a completion computes, what a flush merges | operators |
| `ReadingRecord` | what the reading requests promise: each takes effect at one moment, events are heard in order | abstract specification |
| `ReadingCompletion` | start, manual and end requests statement by statement, locks, commit, rollback, crash, event dispatch; implements `ReadingRecord` | state machine |
| `StreakLedger` | every writer of an existing `user_grades` row | state machine |
| `ChallengeProgress` | a user's challenges and badges, handlers statement by statement | state machine |
| `ClubMembership`, `ClubDiscussion`, `ClubChat` | a club: members, events and plan; sessions, agendas, topics, comments; sockets, messages, rooms | state machines, the second and third over the first |
| `WholeClub` | the three put together: requests of one between those of the others | composition |
| `ServiceClock` | users, the clock of stamps, the parts the smaller services share | base |
| `Paging` | a client that reads a list to its end by cursor or offset while rows come and go | state machine |
| `Social`, `Feed`, `Library`, `Lists` | follows, blocks, reports; feed; shelf and reviews; the lists of all of them put together with `Paging` | state machines, each over the one before |
| `Accounts`, `Billing`, `Notifications` | sign-in; Pro, coupons, teams; inbox, jobs and preferences | state machines, each over the one before |
| `Administration`, `AIAssistant` | administrators (over `Accounts`); the assistant's log and limits (over `Billing`) | state machines |
| `Meetups`, `Referral`, `ReadingStats`, `Discovery` | the components of those names | state machines over the clock |
| `Limits` | what there is a limited number of: `Administration`, `Meetups` and `AIAssistant` (with `Billing`) put together | composition |
| `Services` | all of these put together: `Lists`, `Notifications`, `Limits`, `Referral`, `ReadingStats`, `Discovery` | composition |
| `MC*` | TLC instances; `MCClubs` and `MCServices` say what of their modules acts at a time | |
| `GradeSnapshot_proofs`, `ReadingCompletion_proofs`, `StreakLedger_proofs`, `ChallengeProgress_proofs` | theorems about the modules of these names (the second also the refinement of `ReadingRecord`) | proofs |
| `Clubs_proofs` | theorems about `ClubMembership`, `ClubDiscussion`, `ClubChat` and `WholeClub` | proofs |
| `Community_proofs` | theorems about `Social`, `Feed`, `Library`, `Lists` and `Paging` | proofs |
| `Services_proofs` | theorems about `Accounts`, `Administration`, `Referral`, `Notifications`, about `Limits` with its parts, and about `Discovery` | proofs |
| `Composition_proofs` | theorems about `ReadingStats`, with sums over finite sets, and about `Services`, over the two before | proofs |

`ReadingCompletion` keeps every statement of the end request apart, because its
subject is the locks and the other tables of the transaction; `StreakLedger`
keeps the load and the commit apart, because its subject is what several kinds
of request make of one row; both extend `GradeSnapshot`. `ChallengeProgress`
stands behind the bus: its `Begin` takes any event the subscriptions of
`main.py` could hand to a handler, so it relies on nothing about the order in
which completions are announced. In `ReadingStats` the end
of a session loads, writes its row under the row's lock, and commits; two ends of
one session overlap there as they do in `ReadingRecord`, while the locks of the
daily total and the snapshot are left to `ReadingCompletion`.

### How state and actions correspond to the code

*ReadingCompletion.* `session`, `daily` and `grade` are the committed rows;
`posts` counts the streak-milestone feed events. A request `r` is at `pc[r]`:

| pc | reached by | code |
|---|---|---|
| `inserting` | `BeginStart` | `start_session` after its pre-check |
| `inserted` | `InsertStarted` | `create_started` flushed; waits for the unique index entry |
| `loaded` | `BeginEnd` | `end_session` passed ownership, `ended_at` and minimum checks |
| `ended` | `EndSessionRow` | `sessions.end_session` flushed, row lock held |
| `read` | `ReadGrade` | `get_or_init` (with the insert of a first row) |
| `counted` | `UpsertDaily` | `daily_stats.upsert`, bucket lock held |
| `written` | `WriteGrade` | `update_snapshot` flushed, events staged |
| `committed` / `aborted` | `CommitStart`, `LogManualSession`, `CommitEnd` / `InsertRefused`, `Rollback`, `Crash` | `get_session` |

Requests rejected before they write anything (wrong owner, already ended,
too short) leave no trace and are the absence of a step. Row locks are derived
from `pc`: a request holds the lock of what it has flushed until it ends.
`HoldsActiveIndex`, `HoldsSession`, `HoldsDaily` and `HoldsGrade` say who holds
what, and each statement that needs a lock has the negation as its guard.
`outbox`, `task` and `delivered` are the staged events, the dispatch task's rest
and what the subscribers got. `credited` is a history variable. The book
count a completion reads is chosen from `BookCounts`, since library requests
interleave freely.

*StreakLedger.* `job[w]` is the request in slot `w`, `snap[w]` its copy of the
row. `Begin*` loads the row, `Store*` computes from the copy and merges the
changed columns into the committed row (`MergeColumns`). `BeginRecovery` counts
the log before the row is loaded, as `recover_streak` does. `Abandon` is any
exception. `CompleteBook` and `UncompleteBook` are the library; `NextDay` is
the server's clock, while the days of sessions come from the client and may be
in any order. `readDays`, `granted` and the field `taken` are history.

*ChallengeProgress.* `part` and `badge` are the committed rows of one user,
`work[h]` is the transaction of one handler call: the event (`kind`, `amount`),
the time it began (`since`), the rows listed (`todo`, `read`), the challenge it
is at (`cur`), the rows it has updated (`locked`, `draft`) and the badges it has
inserted (`inserted`). `pc[h]` is the next statement: `listed` (the loop of
`service.py:450`, or the commit), `updating` (`update_progress`, `:456`),
`checkStandard`, `checkExclusive` (`has_badge`), `insertStandard`,
`insertExclusive` (`award_badge` and `stage`), `committed`, `failed`.
`RowFree` and `BadgeFree` make the statements wait, `WaitsFor` is the wait graph
and `DeadlockVictim` PostgreSQL's detector. If the row was deleted meanwhile the
update matches no row and the handler goes on, as the code does. `earned` is
history: what the committed events of each type add up to.

*Clubs.* A request whose decision rests on what it loaded and whose write comes
later is two actions (`JoinByCode` / `TakePlace`, `Publish` / its commit, and so
on); one whose check cannot be overtaken is one. In `ClubChat` the stages of a
message are `StoreMessage`, `BroadcastHere` (the sockets of the process),
`BroadcastOut` (Redis) and `NotifyOffline` (the badge and push to members
outside the chat); sockets open and close between them, and the relay loop of a
process starts with its first publication.

*The smaller services.* The pattern is the same in all of them. A token of
`FeedCalls`, `LibraryCalls`, `BillingCalls` and so on is a request in flight; an
action with the name of the service method makes the checks and loads, and a
second one (`PostCreated`, `ReviewReported`, `CouponApplied`, ...) commits what
was computed, with the stamp of the first; `...Lost` is the exception that rolls
it back. Other requests commit in between: what was loaded stays as it was, what a
later statement reads (a step of its own) shows them. A method that is one
statement after its checks is one action. Rows are records in functions from ids,
with `life` where the code keeps deleted rows.

* `Paging`: `walk` is the client; a page is what the query returns for the
  cursor it was given. `walk.stood` keeps the rows that were there at the start
  and at every page since, which is what the property is about. Lists of follows
  and blocks (`EdgeLists`) look up the stamp of the last row in a statement of
  their own (`FetchCursor`); `walk.cut` says that the row was gone or new by then.
* `Notifications`: a job holds the recipients still to be served. For each one
  it skips (`NoticeSkipped`), fails (`NoticeFailed`), or saves the inbox row and
  commits (`NoticeSaved`) before it pushes (`NoticePushed`, `PushFailed`); it may
  die at any of these points (`JobDies`). `finished` keeps what a job was for.
  A sweep is of one of the `Workers` (`by`), whose schedulers know nothing of one
  another. The weekly batch reads the statistics of a week (`StatsOfWeek`) before
  the transaction that writes the report; sessions go on being recorded in any
  week meanwhile (`ReadOn`). The reminder's window starts at whatever the clock
  says when a worker's sweep of the day queries.
* `ReadingStats`: `heat`, `grade` and `logged` are the three records; every
  screen is an operator of them, and `screen` is what Redis keeps of two. `ending`
  holds the requests to end a session (`EndTimer`, `SessionUpdated`,
  `SessionCommitted`); `to` is the date in UTC, by which rows are selected, and
  `day` the client's, by which heatmap and streak go. `past` is history: what the
  rows alone and the heatmap alone have of a day, and whether a session was ended
  twice or completions overlapped. Figures by `finished_at` serve `finished_never`:
  the code never sets it.
* `Referral`: a caller's code is what the request read first; whose a code is
  (`Owner`) is looked up afresh. `redrawn` and `applied` are the histories of the
  overlaps that `OneForeignReferrer` names.
* `AIAssistant`: `Ask` stamps a request, `PrepAllowed` and the like count the log,
  maybe on the next day, and the row is written when the text has been generated;
  `unpaid` is the history of the rows of requests that passed as a free user's.
* `Discovery`: a query is the set of answers it may give, since books of equal
  rank come in any order. `absent` is the history of when a book was last off a
  shelf. The publisher stands for the genre, as in the code.
* `Administration`: `excuse` is the history of what may have left the console
  without an administrator.

Abstractions: dates are ticks, a `(grade, tier)` pair is its row index in the
ladder, a book or user name is a model value or a number, texts, response bodies
and logs are left out. Limits, windows, lives of tokens and page sizes are
CONSTANTS, with the code's names in comments.

## 3. Runs

All runs allow the system to stop (`CHECK_DEADLOCK FALSE`): clients need not
send requests and their number is bounded. That requests and handlers do not
wait on one another for ever is `RequestsFinish` and `HandlersFinish` instead.

| Run | Instance | Shows |
|---|---|---|
| `completion_safety` | 1 user, 2 rows, 5 requests, 2 days, rollback anywhere, symmetry on requests and rows | `OneActiveSession`, `HeatmapExact`, `GradeNeverAhead`, `NoPhantomEvents` under every interleaving; `AtomicRecord`: it implements `ReadingRecord` |
| `completion_liveness` | 3 requests, 1 crash, no symmetry | `RequestsFinish`, `CompletionsAnnounced` |
| `ledger_serial` | 1 slot, 5 requests, 3 server days, session days 1, 2 and 4 | shields, streak, grade and recovery cap without overlap |
| `ledger_concurrent` | 2 slots, 4 requests | what survives lost updates: `FreeShieldsCapped`, `OnlySessionsMoveReading` |
| `challenge_handlers` | 2 handlers, 3 challenges of 2 types, 2 badges | `BadgesDeserved`, `AchievedMeansAwarded`, `AnnouncedOnce`, `ProgressNeverAhead`, `HandlersFinish` |
| `clubs` | 4 users, 2 overlapping requests, 1 session and agenda, 3 topics, 3 comments, 2 processes, 3 sockets, Redis up or down | `CapacityOverrun`, `FullProgressMeansRead`, `FeedTellsTheTruth`, `PositionsDistinct`, `NothingLostFromThreads`, `FanOutReachesMembers` |
| `services` | the smaller services, one focus each, 2 requests in flight, 2 workers | `PagesMissNothing`, `SharedOnce`, `BlocksSever`, `DeletedStaysOut`, `ReportsHide`, `OneForeignReferrer`, `OnlyOverlapOverruns`, `EveryoneToldOnce`, `TrialRemindedOnce`, `ShownIsGrounded` of `Services` |
| `double_end` | as `completion_safety` | violated: a session ended twice counts twice |
| `refund_twice` | as `ledger_serial` | violated: a redelivered refund takes the shields twice |
| `recovery_cap_race` | as `ledger_concurrent` | violated: overlapping recoveries exceed the cap |
| `achievement_taken` | as `challenge_handlers` | violated: an older handler takes an achievement back |
| `finished_never` | the goals focus of `services` | violated: a finished book has no date, so no recap shows it |

### Bounds

*Reading and ledger.* Rows of different users share no lock and no state, so one
user shows every interaction (the proofs cover any set of users). Five requests
suffice for two starts, two overlapping ends of one session and one more of
either kind; two session rows for an old and a new session. Days 1, 2 and 4 give
a same-day session, the next day, a gap and backdating; an award interval of 2,
a maximum of 1 and a three-row ladder make awards, the cap and every rank happen
within five requests. In `ledger_serial` the window is one day so that it slides
within three days. `Pauses` contains values that take a session under the
one-second minimum, and `ManualSeconds` one value below the manual minimum.

*Challenges.* Two challenges of one type (one event updates both rows, in either
order, so two handlers can deadlock on rows), a third of another type that gives
the same badge as the first and as the exclusive badge of the second (handlers
that share no row race for, or deadlock on, a badge), targets that one event
reaches and that only two reach, an exclusive deadline and an end that pass at
the clock's only tick, and a challenge that opens at it.

*Clubs and services.* Two requests in flight are what every race between a check
and a write needs, and the properties count in terms of them. `MCClubs` and
`MCServices` choose a *focus* at the start, a part whose actions are taken while
the others keep their initial state, so that the state spaces add up instead of
multiplying; parts that act on one another are in one focus (a shelf, its
milestones and its highlights; an account, its trial, its coupon and its
reminder; a reader's Pro flag and the assistant's limits; an administrator's
account and flag). Lists have three rows, so that a page boundary lies between
rows of equal and of different stamps, and pages of one row, or of two for the
global feed. The clock ticks once in the lists, for stamps that are equal and stamps that
are not, two or three times for what lapses in a day, five or six times where
trials and weeks pass. Days have two ticks, so that two sweeps of a worker may be less than
a day apart, a day, or more. The foci `shares`, `ends` and `workers` are there for
two shares of one highlight, two ends of one session, and two workers that sweep at
once (with trials that end on two days; `weekly` has both workers too). `MostReports` is one above the threshold that hides a review.
`Meetups` has one meetup of one place or without limit, `Billing` two seats.
The statistics have two books, two to four sessions, and a calendar in which
weeks cross the ends of months, amounts of one and two seconds, pages or books. Ids
are handed out in increasing order where they are interchangeable, and of the requests
in flight, which are alike, an idle one that is fixed takes the next. Threads are
checked with topics that are added one after the other; topics added and reordered at
once are the focus `topics`.

### Fairness

`FairSpec` of `ReadingCompletion` assumes weak fairness of `Proceed(r)` and
`Deliver(r)` for each request. PostgreSQL grants a lock once its holder has
ended, a statement that can run is run, and the event loop runs every ready
coroutine and task. For handlers it is weak fairness of `Proceed(h)`, on the same
grounds, and of `DeadlockVictim(h)`: PostgreSQL looks for deadlocks once a lock
has been waited for longer than `deadlock_timeout`.
There is no fairness on clients (`Begin`), on failures or on crashes.
`CompletionsAnnounced` excludes requests that fail after their last write and
processes that crash, because the queue is only in memory. The other modules
state safety only: what they must eventually do is done by one request, or by a
job that the scheduler starts, which nothing in the code guarantees.

### Findings

1. *Double end* (`double_end`): `reading/repository.py:115` calls a second end an
   idempotent noop, but both tests of `ended_at` read the copy loaded at the
   start of the request; two overlapping requests count one session twice.
2. *Refund twice* (`refund_twice`): the service test expects `ALREADY_REFUNDED`,
   which only the test's fake repository implements.
3. *Recovery cap* (`recovery_cap_race`): the monthly cap of two is a count
   followed by an insert with nothing in between.
4. *Achievement taken back* (`achievement_taken`): `challenge/service.py:442` and
   a test of it say that achieved challenges are not processed again, but the
   filter is applied when a handler lists the rows; `update_progress` overwrites
   `current_value` and `achieved_at` blindly. Of two overlapping handlers the
   later one can turn an achieved challenge back into an unachieved one with
   less progress. The badge stays (`BadgesDeserved`, `AnnouncedOnce` hold).
5. *Never finished* (`finished_never`): `update_status` sets the status alone, and
   nothing outside the development seeds writes `finished_at`, by which goals,
   the year's books and every card of a recap select.

## 4. Proofs

Assumptions are the named ASSUMEs of the modules that declare the constants
(`PolicyAssumption`, `CompletionAssumption`, `LedgerAssumption`,
`ChallengeAssumption`, `ClubAssumption`, `DiscussionAssumption`, `ClockAssumption`,
`PagingAssumption`, `AccountsAssumption`, `BillingAssumption`,
`NotificationsAssumption`, `FeedAssumption`, `LibraryAssumption`,
`ListsAssumption`, `MeetupAssumption`, `AiAssumption`, `ChatAssumption`,
`SocialAssumption`, `StatsAssumption`), which TLC evaluates in the runs. They say that days,
durations, amounts, limits and lives of tokens are numbers, that the ladder starts with
the row everybody reaches, that intervals are positive, that ids by which a list
breaks ties are numbers, that the windows of a calendar part the days among them, that what is counted is finite, and that the values for
"nobody" and "none" are nobody and none. None bounds the number of users,
requests, slots or rows. Theorems are checked by `tlapm`.

*GradeSnapshot_proofs.* The ladder operator is well defined for every ladder and
monotone (`GradeTierMonotone`); a completed or merged row is a row.

*ReadingCompletion_proofs.* `TypeCorrect` is the type invariant together with
`ActsForUser` (a request past its checks names a user of the system), without
which the function updates of the commit would not be typed. `OneActive` is not
inductive alone: `InsertStarted` makes the claim of a row that no committed row
shows yet. `OneActiveInv` adds that a request that has inserted excludes every
running row of its user and that it is the only such request; it holds because
the insert waits on `HoldsActiveIndex`. `GradeStaysBehind` needs `CreditInv`: a
copy in an identity map is never ahead of the time credited, and a flushed row
is ahead by no more than the request's own seconds. `NoPhantoms` needs
`EventsInv`, which says what the three queues of a request are at each `pc`.
`DurationType` proves that a credited duration is a number and never exceeds the
time elapsed, for all integers. `HeatmapIsExact` rests on `HeatInv`: what a
request has read of a bucket is still committed when it writes, since it holds
the bucket's lock, and what it adds is its own duration, credited nowhere yet.
That a sum over a set grows by the new element's value is proved by induction on
the finite set, over the well-founded ordering of its strict subsets.

`CompletionImplementsRecord`, in the same module: the refinement that
`completion_safety` checks on its instance, for any sets of users, sessions and
requests. Every statement before a commit is a stutter; a commit, a delivery and
a crash are the abstract step of the same purpose. The step of a commit exists
because of `RecordInv`, which says that a request still knows at its commit what
it found when it took its locks: it holds what was asked of it (`RequestFits`);
its row is free or its user's, and an id is given out once (`RowsKnown`); the
bucket it is about to write is the committed one plus its own completion, because
nobody else can hold that bucket (`BucketsHeld`); its outbox holds the events of
that completion (`OutboxFilled`).

*StreakLedger_proofs.* For any number of overlapping writers: `TypeCorrect`
(with `JobsGrounded`, a refund in hand names a purchase that exists),
`ShieldsCapped` and `ReadingMovedBySessions`. For requests that do not overlap,
stated as `Slots = {w0}`: `SerialInv` says that the copy in hand is the committed
row and that a recovery in hand counted today's log; from it follow
`HistoryKept`, `GradeFollowsTotals`, `StreakEarned` (through `EarnedInv`: the
last date is a day read) and `RecoveriesCapped` (through `CapInv`: every window
ending at a day that has a recovery holds at most the limit). Overlap really
breaks these: TLC has a trace in which a later commit puts back an earlier last
date, after which the next day is counted twice, and `recovery_cap_race` is
another.

*ChallengeProgress_proofs.* All five invariants of the run, for any sets of
challenges, badges and handlers. The first lemmas say what each action does to
`work` and `pc`; every invariant is then shown for the handler that moves, and a
`...Kept` lemma carries it for the others. `TypeCorrect` needs
`HandlersGrounded` (what a handler holds suits its event and was open when it
began; a badge being inserted is one). `BadgesAnnouncedOnce` needs
`InsertsExclusive`: a badge in an open transaction is neither committed nor in
another one, which is what the wait on the unique entry gives. `ProgressEarned`
needs `ValuesInv`: values read are at most what was earned, values written at
most that plus the handler's event, and `NewValue` is monotone, so a lost update
can only understate. `NoBadgeUndeserved` adds `InsertsInv`, and
`AchievedIsAwarded` `AwardsInv`: a row written as achieved has its badges owned,
inserted, or still ahead of the handler, which cannot commit before it is back at
`listed`.

*Clubs_proofs.* Specifications of a club alone (`ClubSpec`), with its
discussions (`ClubsSpec`) and with its chat (`ChatsSpec`); the club with both,
`WholeSpec`, implements all three (`WholeClubIsItsParts`), so their theorems hold
of it, and so does `TypeOK` of the run (`WholeTypeCorrect`). `OverrunBounded` needs `PlacesPromised`: members and
those about to be (`Underway`) are at most one less than the maximum plus the
number of requests, because the last to find a place saw one free and was a
request itself. `FullProgressIsTheBook` needs `PlanDivided`:
the targets of a plan are those its dates and its book give. `FeedIsTruthful`
needs `RequestsGrounded`, what a request in flight knows of the row it will
write; `ThreadsShowEveryComment` needs `RepliesRooted` (a reply's parent is there,
of the same topic and no reply itself) and `CommentsUnderway` (a parent that a
request has checked can only be gone by now).
`AuthorsOrderStands` rests on `TopicInv`: as long as no two requests that place
topics of an agenda have overlapped (`raced`), what the one in flight has loaded is
what stands there, but for topics deleted meanwhile. A reorder of the whole agenda
that goes through alone makes the order good again (`WholeOrder`).
`FanOutIsComplete` is an action property: of the step that ends a fan-out it asks
who has been reached. `ChatInv` says what must be so before that step: what a
receive loop sends is stored under its user's name and owed to sockets of the
same process (`SendsPlaced`), and once the first half of a broadcast is done every
chat socket it is owed to, and that is open still, has heard it
(`BroadcastsReached`). That lasts because a connection keeps user, process and
stream and never opens again (`SocketsAge`), a stored message keeps its author
(`MessagesStay`), and counts only grow (`CountsGrow`).

*Community_proofs.* `BlocksAlwaysSever`: `BlocksSever` alone is not inductive,
since a follow commits on the strength of the blocks it read. `SeverInv` adds that a
follow and a block of one pair that are in flight together have been noted in
`crossed` (`OverlapsNoted`), and that what any other follow has read of the
blocks still holds (`FollowsStillClear`): the other user has not blocked, and its
user's own block is one that it takes back. `FollowedKeeps` uses the second,
`BlockSetKeeps` the first. `HighlightsSharedOnce` needs `SharesInv`: a highlight
marked as shared has an event and any other none (`ShareCounted`), only one unless
two shares have overlapped (`contested`, noted by `SharesApart`), and short of that a
share in flight is of one not marked (`SharesUnderway`). `ReviewsHideInTime` needs `ReportsInv`:
a count never exceeds the reports that were answered and equals them unless some
overlapped, and so does what a report in flight has read.

In the same module, `ReadersMissNothing` and the action property `RowsStandOrGo`,
of the lists put together with a client (`PagesSpec`). First come lemmas about the
order (of finitely many rows one is first and one is last, the first `limit` of
a set are `limit` or all of it, they come before the rest), then the invariant
of a walk. By cursor (`ByCursor`), nothing shown lies beyond the cursor, and a row
that stood so far has been shown, has the stamp of one that was, or lies beyond
the cursor, unless the row whose stamp was to be fetched had gone or was another
(`cut`); by offset (`ByOffset`), while nothing has changed the rows shown are
the first of the list, as many as the offset says. `TablesTyped` is the type of
every table under the lists, without which a page need not have a last row.
`stood` identifies a row by id and stamp; that this misses nothing, because no row
changes its stamp, is `RowsStandOrGo`, shown action by action.

*Services_proofs.* `DeletedAlwaysOut` and `AnAdminAlwaysStays` are theorems of
accounts with administrators (`ConsoleSpec`). The first rests on
`AccountsInv`: nothing was looked at in the future (`LooksPast`), so a deletion
is later than every look so far; what a client or a login in flight has of an
account that is deleted was found before (`GoneUnseen`); only accounts with a row
are found (`RowsFirst`), so nothing unused is ever deleted; an identity has one
row (`OneEach`). The second rests on `AdminsInv`: two revocations in
flight are an excuse (`RevocationsNoted`), and without an excuse each revocation
in flight leaves another administrator (`SomebodyElse`), at first because
`count_admins` found two or because the caller is another, later because only a
revocation or a deletion takes one away.

`ReferrersStayForeign` rests on `ReferralInv`: applications
of one user that overlap have been noted (`ApplicationsNoted`); unless two requests
that found no code were in flight together (`redrawn`), the code a request goes by is
the stored one (`CodesNoted`), which is what makes the fresh lookup of the owner
agree with the comparison before it; the row about to be inserted is of somebody else
and is the first (`ReferrerHeld`), and the rows there are foreign and single
(`RowsForeign`, `OneRow`), each but for the overlaps noted.

`EachIsToldOnce` and `TrialsRemindedOnce` are theorems of `NoticeSpec`, which puts
notifications together with accounts and billing from any state of the accounts
that `AccountsInv` allows; its handlers start under `HandledOnce`, since the bus
hands an event to each handler once. `EveryoneToldOnce` speaks of jobs that are
through; `NoticeInv` says what a job at work has told and has still to tell
(`JobTells`), that no two jobs of one worker are about the same (`Apart`), that every
row is of some job (`RowsHandled`). Of the weeks, `WeeksReported` says that what is
read is stamped no later than now (`ReadBefore`), so that days read into a week once
its sweeps have begun are not due in its report; that figures in hand and reports
hold what was due and nothing unread (`RightDays`); and that whoever a job has been
through is reported (`WeekTold`, `WeekKept`), by whichever worker. `TrialsReminded`
adds that a sweep has those in its list whose last day it is (`Listed`) and nobody else
still to tell, `SweptDaily` that a worker sweeps a day once, from which at most two
rows follow, since only two days can see the last day of a trial; and `AccountsInv`
that the end of a trial stays where it was set.

`LimitsHardlyOverrun` is a theorem of `LimitsSpec`. None of its four parts is
inductive: each is about what has been taken, and a request that found room takes
it later. The invariants count both, what is taken and what requests in flight
will take: for a coupon and a team `CouponKept` and `SeatsKept` (`BillingInv`), for a
meetup `PlacesKept` (`MeetupInv`), for a day or month of the assistant `LimitKept`
(`AiInv`). That sum is at most the limit and one less than the requests that may
be in flight, because the last to be let in saw room and is a request itself.
Stamps of the assistant are those of the request's start and rows are counted later:
`LimitKept` is said of every period, and one that is over may have taken in as many
more as were begun in it and counted in the next; that what was let in free is
part of all that was used is `Embeds`. `AdminsInv` is the fourth part. A step of
one part leaves the others and the clock alone (`ConsoleTakesNoTime` and the three
after it). `OffersHardlyOverrun` is the billing part in `NoticeSpec`, where the
sweep for readers who left issues coupons too.

`RecommendationsWereNew` is a theorem of `DiscoverySpec`, from any shelves the
readers may have at first. `DiscoveryInv` says of every answer that is kept in
Redis or still being computed that its books were off the reader's shelf when it
was computed or later (`AnswersTrue`), and of a learnt model, in Redis or in a
process, that the books it has no rating of were unrated when it was learnt or
later (`ModelsTrue`). Both are in terms of the last moment a book was off the shelf
or unrated (`LastOffShelf`, `LastNotRated`), which never decreases.

*Composition_proofs.* First, sums: that `Total` over a finite set is a number,
does not depend on the order, grows by the value of one element more, and is no less
than the sum of a part. Induction over data being out of the prover's reach, each is
shown by the least subset that would be an exception, which the well-founded ordering
of the finite subsets provides.

`StatisticsAlwaysAgree` is a theorem of the statistics alone (`StatsSpec`), for any
calendar, thresholds, books and sessions. `StatsInv` says of any set of days, and not
only of the windows of a calendar, that the seconds of the sessions there are those
the heatmap has and entries by hand and dates of two kinds make up (`SecondsKnown`, by
the histories `rowOnly` and `heatOnly`; after a book left with its sessions or a session
was ended twice, at most those); that the seconds of all days are the snapshot's, or
more after completions that overlapped (`AllCounted`); that short of such an overlap a
run of days with sessions in order is no longer than the
longest streak, and one that reaches the last day no longer than the streak
(`RunsCounted`), which is where the property of a set of days meets a counter; what a
request that ends a session has in hand (`EndingFits`); and that
an answer kept in Redis, or about to be, was right when it was computed
(`ScreensRight`) while the records only grow (`RecordsGrow`). `LongestIsBounded` shows that the
longest run of a set of days, a CHOOSE, exists, and is bounded by what bounds every
run of it.

`ServicesKeepTheirTypes` is the type invariant of the run. Each part has an invariant
of its own (`SocialFits`, `FeedFits`, `LibraryFits`, `DeletionsFit` and so on) that adds
to the types what a request in flight must know for the row it writes to be one: whom
it acts for, that the row it found is still the one it was, that what a comment answers
was written and is no answer itself, that the administrator of a team has a seat in it,
that two codes drawn differ, and that histories are of rows there are (`HistoryFits`).

`ServicesSpec` puts all services together, any of them acting at any step and the
clock ticking for all; the instance takes one focus at a time. `AllServicesAreEach`
proves that a run of all is a run of each, although accounts, subscriptions and the
clock are read by several: the specifications used for the theorems above already let
others move what is read. So what was proved of each service holds of all of them
together: `PromisesHoldTogether` has nine of the run's invariants and
`WhatIsShownIsGrounded` and `ServicesKeepTheirTypes` the other two.

Model-checked only: `RequestsFinish`, `CompletionsAnnounced` and `HandlersFinish`,
since liveness is out of the prover's reach.

## 5. Divergences noted without a run

Met while modelling; the models follow the code. Those with a run are under
Findings.

*Reading, shields, challenges.* The taste-profile task that `end_session` starts
shares the request's session object (`reading/service.py:307`). Streak challenges
advance only on `UserGradeRecomputed`, which is sent when grade or tier changes
(`challenge/service.py:384`). Two sessions on a day whose streak is a multiple of
seven award two shields; a holder of more than three bought shields is set down
to three by the next award.

*Statistics.* `recap_aggregate_stats` is documented as the sum of timer
durations but takes manual sessions too; manual sessions count in recaps, the
longest streak and the daily list, and not in heatmap, grade and streak. Streak
milestones are dated now. The client's date of a session is that of its offset,
SQL casts to UTC, so a session near midnight may be in the heatmap of one day and in
the recap of the next. An end that overlaps another one of the same session counts
in heatmap and grade again (finding 1), so a recap then has fewer seconds than the
heatmap. Statistics and recaps are kept for a day and never invalidated
(`ScreenShown` shows an older answer).

*Clubs.* The docstring of `ClubMessage` (`club/models.py:267`) describes rooms
that the message stream is not given; the relay of a process hears what the
process itself published; edits and deletions are broadcast before they commit;
a message sent over HTTP is not broadcast. Sorting by popularity pages by
`created_at` while it orders by the number of members. `max_attendees` is not
enforced; a presenter who left keeps the presenter's rights; an author's
overlapping requests can give two topics one position (`PositionsDistinct` says for how
long), and a plan can be published twice; pushes are sent before the commit.

*Feed, lists.* `feed/repository.py:91` says that "id tiebreak handles
exact-match edges", but the cursor holds the stamp alone, so rows of one stamp
can be passed over (the same in `book/repository.py:16` and `:177`);
`PagesMissNothing` exempts them. The lists of follows and blocks end early, without
a next cursor, when the edge of a page's last row goes between the two SELECTs
(`social/repository.py:197`). `feed/service.py:441` shares "idempotently"; two
overlapping shares of a highlight make two events, which `SharedOnce` allows and
nothing else, and one made private while it is being shared stays in the feed. The branch of `ReactionRepository.add` that is
called unreachable is reached by two overlapping toggles. The popular list of the
community ignores its cursor and returns a next one (`community/service.py:155`,
`:281`).

*Social.* The leaderboard is documented as dense (`social/service.py:240`), and
its ranks skip after a tie; `Leaderboard` follows the code. A follow and a block
that overlap leave both; two overlapping reports of one target are both kept.

*Library and reviews.* A book added as completed is announced to nobody; a
repeated COMPLETED is announced again; `update_chapter` commits before it
records the milestone. Removing a book from the shelf takes its sessions along,
while totals and shared events stay. A highlight's owner is not checked against
the shelf. Reports of a review that overlap lose a count, and deleting and writing
a review again starts the count anew.

*Accounts, billing.* An identity whose account was deleted is refused for good
(409); `get_current_user_id` does not look at the account, so an access token of
a deleted account still works in the routes that ask for the id only, until it
expires (`core/deps.py`, `get_current_user` does look), and device tokens stay.
Expiry on read can undo an activation that commits in between; webhooks are
applied in the order they come; a team's grant overwrites the user's own
subscription and its removal revokes it. Rejoin codes are made of eight digits of
the id.

*Notifications.* The weekly batch of a Sunday covers the week before last while
its push says "this week"; a second run repeats inbox row and push, where
`notification/service.py:425` says that it is idempotent, which is so of the report
alone. Every worker has a scheduler, so with two of them each weekly row, push and
reminder comes twice. The window of the reminder starts at the clock of the query:
if a day's sweep queries later in its day than that of the day before, a trial that
ends in between is announced by neither, and if earlier, by both. Two overlapping
changes of preferences keep one; jobs live in the memory of one process.

*Meetups, referral.* Users who wait are never told of a free place; somebody who
did not take part may review. A caller whose code is written over keeps one that
no longer exists; of overlapping requests that each drew the user a code, an
application under way compares with the one it read and looks the owner up by the one
that stands, so a user may be stored as their own referrer; a second application is answered 204, where the router's
docstring says 409.

*Recommendations, assistant, administration.* Kept answers are found under the
user alone, whatever strategy and number were asked for, and are not invalidated;
`get_ml_recommendations` has no caller; overlapping replacements of interests add
up, where the method says "atomically". The preparation limit applies to Pro users
too, and the assistant reads the raw `is_pro` flag. `is_active` is read by
nobody; neither the deletion of the last administrator's account nor two
overlapping revocations are prevented (the excuses of `LastAdminStays`).

## 6. Not modelled

* Search, curation, share cards, video, reminders, experiments, the retention
  campaign and the console's figures: reads, or single rows without a protocol;
  what they could get wrong is ranking and rendering.
* External services (Kakao and Apple sign-in, the stores, the push service, the
  text generator, the book catalogue): environment. Their answers are inputs of
  the actions, their failures are `...Lost`, `PushFailed` and the like.
* The mobile client and the admin front end: the clients, who may send any
  request in any state. The timer's local persistence and the token
  interceptor of the client are not modelled.
* The catalogue's upsert and external lookups (library); the list and search
  queries and the cover upload of clubs; pins, feeds and leaderboards of challenges
  and `award_badge`, which has no caller in the program; the wording of pushes.
* The list of the bus's subscribers: `ChallengeProgress` and `Notifications` take
  events as they come.
* Redis is a map that loses entries when their life is over; its eviction and
  its restart are the absence of an entry.
