--------------------------- MODULE ChallengeProgress ---------------------------
(***************************************************************************)
(* The challenges one user takes part in and the badges they earn          *)
(* (domains/challenge).  Each reading event that reaches the bus starts a   *)
(* handler with a session of its own (service.py _handle_progress_event):  *)
(* it lists the user's active, unachieved challenges of one type, writes   *)
(* the progress of one after the other, inserts the badges that became     *)
(* due, and commits once.  Dispatch tasks of different requests overlap,   *)
(* so handlers of one user interleave at every statement.  What they read  *)
(* is committed data; an UPDATE or INSERT waits for the row or unique      *)
(* entry of a transaction still open, and the badges awarded are announced *)
(* by a task the commit starts.                                            *)
(***************************************************************************)
EXTENDS Integers

CONSTANTS
    Challenges,
    Badges,
    Handlers,      \* one element per handler call ever made
    Kind,          \* challenge_type of each challenge
    Target,        \* target_value
    Opens, Ends,   \* starts_at, ends_at
    BadgeOf,       \* badge_id, or NoBadge
    ExclusiveOf,   \* badge_id_exclusive of a limited challenge, or NoBadge
    Deadline,      \* ends_at_exclusive of a limited challenge
    Gains,         \* durations and streak lengths the events carry
    MaxTime,       \* bound on the clock
    NoBadge,
    NoChallenge

\* ChallengeType.  Nothing advances challenges of type "genre".
Kinds == {"reading_time", "books_count", "streak", "genre"}

ASSUME ChallengeAssumption ==
    /\ NoBadge \notin Badges
    /\ NoChallenge \notin Challenges
    /\ Kind \in [Challenges -> Kinds]
    /\ Target \in [Challenges -> Nat]
    /\ Opens \in [Challenges -> Nat]
    /\ Ends \in [Challenges -> Nat]
    /\ BadgeOf \in [Challenges -> Badges \cup {NoBadge}]
    /\ ExclusiveOf \in [Challenges -> Badges \cup {NoBadge}]
    /\ Deadline \in [Challenges -> Nat]
    /\ Gains \subseteq Nat
    /\ MaxTime \in Nat

VARIABLES
    clock,      \* the time, as both the database and the process see it
    part,       \* challenge_participants: the user's committed rows
    badge,      \* user_badges: earned_at of the user's committed rows
    pc,         \* where each handler stands
    work,       \* what its transaction has read and written
    task,       \* badges whose BadgeEarned its dispatch task still holds
    announced,  \* how often BadgeEarned was delivered, by badge
    earned      \* history: what the committed handlers brought, by type

tables == <<part, badge, earned>>
vars == <<clock, part, badge, pc, work, task, announced, earned>>

Never == 0

NotJoined == [joined |-> FALSE, value |-> 0, achieved |-> Never]
Participations == [joined : BOOLEAN, value : Nat, achieved : Nat]

\* A handler is between two challenges when "listed"; the other stages are
\* the statement it is about to execute for the challenge it is at.
Checking == {"checkStandard", "checkExclusive"}
Inserting == {"insertStandard", "insertExclusive"}
Working == {"listed", "updating"} \cup Checking \cup Inserting

\* kind and amount are the event's, since the time the transaction began;
\* todo holds the listed challenges still ahead, read the current_value of the
\* rows listed, cur the challenge the handler is at; locked names the rows it
\* has updated, draft what it wrote there; inserted holds the badges it has
\* inserted, each with a BadgeEarned staged.
NoWork == [kind |-> "genre", amount |-> 0, since |-> Never, todo |-> {},
           read |-> [c \in Challenges |-> 0], cur |-> NoChallenge,
           locked |-> {}, draft |-> [c \in Challenges |-> NotJoined],
           inserted |-> {}]

Works == [kind : Kinds, amount : Nat, since : Nat, todo : SUBSET Challenges,
          read : [Challenges -> Nat], cur : Challenges \cup {NoChallenge},
          locked : SUBSET Challenges, draft : [Challenges -> Participations],
          inserted : SUBSET Badges]

Init ==
    /\ clock = 1
    /\ part = [c \in Challenges |-> NotJoined]
    /\ badge = [b \in Badges |-> Never]
    /\ pc = [h \in Handlers |-> "idle"]
    /\ work = [h \in Handlers |-> NoWork]
    /\ task = [h \in Handlers |-> {}]
    /\ announced = [b \in Badges |-> 0]
    /\ earned = [k \in Kinds |-> 0]

--------------------------------------------------------------------------------
(* Requests of the user.  Each is one statement after its checks, so that  *)
(* its commit is its only effect; the DELETE waits for a handler that has  *)
(* updated the row.                                                        *)

Join(c) ==
    /\ ~part[c].joined
    /\ clock <= Ends[c]
    /\ part' = [part EXCEPT ![c] = [NotJoined EXCEPT !.joined = TRUE]]
    /\ UNCHANGED <<clock, badge, pc, work, task, announced, earned>>

Leave(c) ==
    /\ part[c].joined
    /\ \A h \in Handlers : c \notin work[h].locked
    /\ part' = [part EXCEPT ![c] = NotJoined]
    /\ UNCHANGED <<clock, badge, pc, work, task, announced, earned>>

--------------------------------------------------------------------------------
(* _handle_progress_event and _advance_challenges                          *)

\* The value after an event of the given type: mode "max" or mode "add".
NewValue(kind, value, amount) ==
    IF kind = "streak" THEN IF value >= amount THEN value ELSE amount
    ELSE value + amount

\* list_user_active_challenges
Listed(kind) ==
    {c \in Challenges : /\ part[c].joined
                        /\ Kind[c] = kind
                        /\ Opens[c] <= clock /\ clock <= Ends[c]
                        /\ part[c].achieved = Never}

\* The amount events of a type may bring: on_user_book_completed brings 1.
Amounts(kind) == IF kind = "books_count" THEN {1} ELSE Gains

\* An event is handed to its handler, which lists the challenges.
Begin(h, kind, amount) ==
    /\ pc[h] = "idle"
    /\ pc' = [pc EXCEPT ![h] = "listed"]
    /\ work' = [work EXCEPT ![h] =
                   [NoWork EXCEPT !.kind = kind, !.amount = amount,
                                  !.since = clock, !.todo = Listed(kind),
                                  !.read = [c \in Challenges |-> part[c].value]]]
    /\ UNCHANGED <<tables, clock, task, announced>>

\* The next row of the loop; the query has no ORDER BY.
NextChallenge(h, c) ==
    /\ pc[h] = "listed"
    /\ c \in work[h].todo
    /\ pc' = [pc EXCEPT ![h] = "updating"]
    /\ work' = [work EXCEPT ![h].cur = c, ![h].todo = @ \ {c}]
    /\ UNCHANGED <<tables, clock, task, announced>>

\* The row the handler with work w writes for the challenge it is at.
Advanced(w) ==
    LET value == NewValue(w.kind, w.read[w.cur], w.amount) IN
    [joined |-> TRUE, value |-> value,
     achieved |-> IF value >= Target[w.cur] THEN w.since ELSE Never]

\* No other transaction has updated challenge c's row and is still open.
RowFree(h, c) == \A g \in Handlers \ {h} : c \notin work[g].locked

AfterUpdate(h) ==
    [pc EXCEPT ![h] = IF Advanced(work[h]).achieved # Never
                      THEN "checkStandard" ELSE "listed"]

\* Fault variant of UpdateProgress: the progress is committed at once, ahead
\* of the badges it earns.
UpdateProgressEarly(h) ==
    LET c == work[h].cur IN
    /\ pc[h] = "updating"
    /\ RowFree(h, c)
    /\ part' = IF part[c].joined
               THEN [part EXCEPT ![c] = Advanced(work[h])] ELSE part
    /\ pc' = AfterUpdate(h)
    /\ UNCHANGED <<badge, earned, clock, work, task, announced>>

\* update_progress: waits for the row, then overwrites it with what was
\* computed from the listed value.  If the user has left, no row is updated
\* and the loop goes on as if one had been.
UpdateProgress(h) ==
    LET c == work[h].cur IN
    /\ pc[h] = "updating"
    /\ RowFree(h, c)
    /\ work' = IF part[c].joined
               THEN [work EXCEPT ![h].locked = @ \cup {c},
                                 ![h].draft[c] = Advanced(work[h])]
               ELSE work
    /\ pc' = AfterUpdate(h)
    /\ UNCHANGED <<tables, clock, task, announced>>

\* Fault variant of Wanted: the deadline is not looked at.
WantedAnyTime(h) ==
    LET w == work[h] IN
    IF pc[h] \in {"checkStandard", "insertStandard"} THEN BadgeOf[w.cur]
    ELSE ExclusiveOf[w.cur]

\* The badge h checks or inserts, NoBadge if the challenge gives none.
Wanted(h) ==
    LET w == work[h] IN
    IF pc[h] \in {"checkStandard", "insertStandard"} THEN BadgeOf[w.cur]
    ELSE IF w.since <= Deadline[w.cur] THEN ExclusiveOf[w.cur]
    ELSE NoBadge

\* Where h goes on once it is done with the badge.
AfterBadge(h) ==
    [pc EXCEPT ![h] = IF @ \in {"checkStandard", "insertStandard"}
                      THEN "checkExclusive" ELSE "listed"]

Owned(b) == badge[b] # Never

\* has_badge sees committed rows and the transaction's own.
HasBadge(h) == Owned(Wanted(h)) \/ Wanted(h) \in work[h].inserted

SkipBadge(h) ==
    /\ pc[h] \in Checking
    /\ Wanted(h) # NoBadge => HasBadge(h)
    /\ pc' = AfterBadge(h)
    /\ UNCHANGED <<tables, clock, work, task, announced>>

ChooseToAward(h) ==
    /\ pc[h] \in Checking
    /\ Wanted(h) # NoBadge
    /\ ~HasBadge(h)
    /\ pc' = [pc EXCEPT ![h] = IF @ = "checkStandard" THEN "insertStandard"
                               ELSE "insertExclusive"]
    /\ UNCHANGED <<tables, clock, work, task, announced>>

\* No other transaction has inserted badge b and is still open.
BadgeFree(h, b) == \A g \in Handlers \ {h} : b \notin work[g].inserted

\* Fault variant of InsertBadge: user_badges without its unique constraint.
InsertBadgeUnchecked(h) ==
    /\ pc[h] \in Inserting
    /\ work' = [work EXCEPT ![h].inserted = @ \cup {Wanted(h)}]
    /\ pc' = AfterBadge(h)
    /\ UNCHANGED <<tables, clock, task, announced>>

\* Fault variant of InsertBadge: the exclusive badge is inserted at either place.
InsertBadgeExclusive(h) ==
    /\ pc[h] \in Inserting
    /\ BadgeFree(h, Wanted(h))
    /\ ~Owned(Wanted(h))
    /\ work' = [work EXCEPT ![h].inserted = @ \cup {ExclusiveOf[work[h].cur]}]
    /\ pc' = AfterBadge(h)
    /\ UNCHANGED <<tables, clock, task, announced>>

\* award_badge, then stage: the INSERT waits for a transaction that has
\* inserted the same badge.
InsertBadge(h) ==
    /\ pc[h] \in Inserting
    /\ BadgeFree(h, Wanted(h))
    /\ ~Owned(Wanted(h))
    /\ work' = [work EXCEPT ![h].inserted = @ \cup {Wanted(h)}]
    /\ pc' = AfterBadge(h)
    /\ UNCHANGED <<tables, clock, task, announced>>

\* The transaction of h ends without effect; the bus logs the exception.
Undo(h) ==
    /\ pc' = [pc EXCEPT ![h] = "failed"]
    /\ work' = [work EXCEPT ![h] = NoWork]
    /\ UNCHANGED <<tables, clock, task, announced>>

\* Fault variant of InsertConflict: the insert is tried again for ever.
InsertConflictRetried(h) ==
    /\ pc[h] \in Inserting
    /\ BadgeFree(h, Wanted(h))
    /\ Owned(Wanted(h))
    /\ UNCHANGED vars

\* award_badge lets the IntegrityError of uq_user_badges_pair propagate.
InsertConflict(h) ==
    /\ pc[h] \in Inserting
    /\ BadgeFree(h, Wanted(h))
    /\ Owned(Wanted(h))
    /\ Undo(h)

Commit(h) ==
    LET w == work[h] IN
    /\ pc[h] = "listed"
    /\ w.todo = {}
    /\ part' = [c \in Challenges |-> IF c \in w.locked THEN w.draft[c]
                                     ELSE part[c]]
    /\ badge' = [b \in Badges |-> IF b \in w.inserted THEN w.since
                                  ELSE badge[b]]
    /\ earned' = [earned EXCEPT ![w.kind] = NewValue(w.kind, @, w.amount)]
    /\ task' = [task EXCEPT ![h] = w.inserted]
    /\ pc' = [pc EXCEPT ![h] = "committed"]
    /\ work' = [work EXCEPT ![h] = NoWork]
    /\ UNCHANGED <<clock, announced>>

--------------------------------------------------------------------------------
(* Delivery, failure and time.                                             *)

\* The dispatch task publishes one BadgeEarned.
Announce(h, b) ==
    /\ b \in task[h]
    /\ announced' = [announced EXCEPT ![b] = @ + 1]
    /\ task' = [task EXCEPT ![h] = @ \ {b}]
    /\ UNCHANGED <<tables, clock, pc, work>>

Fail(h) == pc[h] \in Working /\ Undo(h)

\* h needs a row or a unique entry that the open transaction of g holds.
WaitsFor(h, g) ==
    /\ g # h
    /\ \/ pc[h] = "updating" /\ work[h].cur \in work[g].locked
       \/ pc[h] \in Inserting /\ Wanted(h) \in work[g].inserted

\* PostgreSQL aborts a member of a circle of waiting transactions.
DeadlockVictim(h) ==
    /\ \E ring \in SUBSET Handlers :
          h \in ring /\ \A g \in ring : \E f \in ring : WaitsFor(g, f)
    /\ Undo(h)

\* The process dies with its transactions and its dispatch tasks.
Crash ==
    /\ pc' = [h \in Handlers |-> IF pc[h] \in Working THEN "failed" ELSE pc[h]]
    /\ work' = [h \in Handlers |-> NoWork]
    /\ task' = [h \in Handlers |-> {}]
    /\ UNCHANGED <<tables, clock, announced>>

Tick ==
    /\ clock < MaxTime
    /\ clock' = clock + 1
    /\ UNCHANGED <<tables, pc, work, task, announced>>

Proceed(h) ==
    \/ \E c \in Challenges : NextChallenge(h, c)
    \/ UpdateProgress(h)
    \/ SkipBadge(h)
    \/ ChooseToAward(h)
    \/ InsertBadge(h)
    \/ InsertConflict(h)
    \/ Commit(h)

Next ==
    \/ \E c \in Challenges : Join(c) \/ Leave(c)
    \/ \E h \in Handlers :
          \/ \E k \in Kinds \ {"genre"} : \E n \in Amounts(k) : Begin(h, k, n)
          \/ Proceed(h)
          \/ Fail(h)
          \/ DeadlockVictim(h)
          \/ \E b \in Badges : Announce(h, b)
    \/ Crash
    \/ Tick

Spec == Init /\ [][Next]_vars

\* The event loop runs every ready handler, PostgreSQL grants free locks and
\* breaks every deadlock.
FairSpec ==
    /\ Spec
    /\ \A h \in Handlers : WF_vars(Proceed(h)) /\ WF_vars(DeadlockVictim(h))
--------------------------------------------------------------------------------
(* Properties.                                                             *)

\* Rows, handlers and histories keep to their types.
TypeOK ==
    /\ clock \in Nat
    /\ part \in [Challenges -> Participations]
    /\ badge \in [Badges -> Nat]
    /\ pc \in [Handlers -> Working \cup {"idle", "committed", "failed"}]
    /\ work \in [Handlers -> Works]
    /\ task \in [Handlers -> SUBSET Badges]
    /\ announced \in [Badges -> Nat]
    /\ earned \in [Kinds -> Nat]

\* BadgeEarned is "fired after a UserBadge row is committed for the first
\* time" (events.py): however handlers for challenges with the same badge
\* overlap, fail and retry, no badge is announced twice or without its row.
AnnouncedOnce ==
    \A b \in Badges :
        /\ announced[b] <= 1
        /\ announced[b] > 0 => Owned(b)
        /\ \A h \in Handlers : b \in task[h] => Owned(b) /\ announced[b] = 0
        /\ \A g, h \in Handlers : b \in task[g] /\ b \in task[h] => g = h

\* A challenge the rows call achieved has given its badges: progress and award
\* are one transaction, and a handler that loses the race for a badge takes
\* its progress back.
AchievedMeansAwarded ==
    \A c \in Challenges :
        part[c].achieved # Never =>
            /\ BadgeOf[c] # NoBadge => Owned(BadgeOf[c])
            /\ ExclusiveOf[c] # NoBadge /\ part[c].achieved <= Deadline[c]
                   => Owned(ExclusiveOf[c])

\* Each badge was deserved: a challenge gives it whose target the committed
\* events of its type reach, at a time at which the challenge was open and,
\* for an exclusive badge, its deadline had not passed.  Progress written
\* over by another handler, or carried over from a participation the user
\* has left, never adds up to a badge nobody earned.
BadgesDeserved ==
    \A b \in Badges :
        Owned(b) =>
            \E c \in Challenges :
                /\ earned[Kind[c]] >= Target[c]
                /\ Opens[c] <= badge[b] /\ badge[b] <= Ends[c]
                /\ \/ b = BadgeOf[c]
                   \/ b = ExclusiveOf[c] /\ badge[b] <= Deadline[c]

\* Progress never exceeds what the user's committed events brought.
ProgressNeverAhead ==
    \A c \in Challenges : part[c].value <= earned[Kind[c]]

\* Handlers that wait for one another's rows and badges all come to an end.
HandlersFinish ==
    \A h \in Handlers : pc[h] \in Working ~> pc[h] \in {"committed", "failed"}

\* service.py:442 advances "active, unachieved challenges" and the service's
\* tests expect that achieved ones "are not re-processed": while the user
\* stays in a challenge, achieved_at is not taken back.
AchievementKept ==
    [][\A c \in Challenges :
          part[c].achieved # Never /\ part'[c].joined =>
              part'[c].achieved = part[c].achieved]_vars
================================================================================
