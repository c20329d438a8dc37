------------------------------ MODULE StreakLedger ------------------------------
(***************************************************************************)
(* Every writer of one user's user_grades row: completed sessions          *)
(* (reading/service.py), shield purchases and refunds (shield/service.py), *)
(* welcome shields (subscription/service.py), streak recovery              *)
(* (retention/service.py), and the book status changes whose count a       *)
(* completion copies (book/service.py).  A request loads the row into its  *)
(* identity map, computes from that copy, and its commit merges the        *)
(* columns it changed.  The row exists: its first insertion is part of     *)
(* ReadingCompletion.                                                      *)
(***************************************************************************)
EXTENDS GradeSnapshot, FiniteSets

CONSTANTS
    Slots,          \* requests of the user that may be under way at once
    Dates,          \* day numbers of the ended_at clients send
    Seconds,        \* credited durations of sessions
    Packs,          \* shields_granted of the catalogue: {1, 3}
    WelcomeShields, \* ANNUAL_WELCOME_SHIELDS
    RecoveryLimit,  \* _RECOVERY_MONTHLY_LIMIT: 2
    RecoveryWindow, \* days a recovery counts against the limit: 30
    MaxBooks,       \* bound on the completed books of the user
    MaxDay,         \* bound on the server's day
    MaxRequests     \* bound on the requests begun

ASSUME LedgerAssumption ==
    /\ Dates \subseteq Nat \ {NoDate}
    /\ Seconds \subseteq Nat
    /\ Packs \subseteq Nat
    /\ WelcomeShields \in Nat
    /\ RecoveryLimit \in Nat
    /\ RecoveryWindow \in Nat
    /\ MaxBooks \in Nat
    /\ MaxDay \in Nat
    /\ MaxRequests \in Nat

VARIABLES
    grade,      \* user_grades: the user's committed row
    books,      \* user_books of the user with status COMPLETED
    purchases,  \* shield_purchases in order of creation
    recoveries, \* streak_recovery_logs: the server day of each row
    today,      \* the server's day
    job,        \* what each slot is doing
    snap,       \* the row in each slot's identity map
    served,     \* requests begun so far
    readDays,   \* history: dates of the committed completions
    granted     \* history: shields ever bought or given

vars == <<grade, books, purchases, recoveries, today, job, snap, served,
          readDays, granted>>

\* A job is "idle", has "counted" recoveries, has "loaded" the row, or is a
\* completion "ready" to flush with the completed books it counted.
NoJob == [stage |-> "idle", op |-> "none", date |-> NoDate, amount |-> 0,
          books |-> 0]
Jobs == [stage : {"idle", "counted", "loaded", "ready"},
         op : {"none", "complete", "purchase", "welcome", "refund", "recover"},
         date : Nat, amount : Nat, books : Nat]

\* taken is history: the shields the refunds of the purchase took back.
PurchaseRows == [shields : Nat, refunded : BOOLEAN, taken : Nat]

Init ==
    /\ grade = [FreshGrade EXCEPT !.exists = TRUE]
    /\ books = 0
    /\ purchases = <<>>
    /\ recoveries = <<>>
    /\ today = 1
    /\ job = [w \in Slots |-> NoJob]
    /\ snap = [w \in Slots |-> FreshGrade]
    /\ served = 0
    /\ readDays = {}
    /\ granted = 0

--------------------------------------------------------------------------------
\* A request of the user begins: it loads the row, amount and date being what
\* its later steps need.  For a refund, amount is the index of the purchase.
Load(w, op, date, amount) ==
    /\ job[w].stage = "idle"
    /\ served < MaxRequests
    /\ served' = served + 1
    /\ snap' = [snap EXCEPT ![w] = grade]
    /\ job' = [job EXCEPT ![w] = [NoJob EXCEPT !.stage = "loaded", !.op = op,
                                  !.date = date, !.amount = amount]]
    /\ UNCHANGED <<grade, books, purchases, recoveries, today, readDays, granted>>

\* Flush and commit of a slot that changed its copy of the row to new.
Store(w, new) ==
    /\ grade' = MergeColumns(grade, snap[w], new)
    /\ job' = [job EXCEPT ![w] = NoJob]
    /\ snap' = [snap EXCEPT ![w] = FreshGrade]
    /\ UNCHANGED <<books, today, served>>

\* end_session: get_or_init for the grade the session started from.
BeginCompletion(w, d, n) == Load(w, "complete", d, n)

\* _apply_session_completion: count_completed_books.
CountBooks(w) ==
    /\ job[w].op = "complete"
    /\ job[w].stage = "loaded"
    /\ job' = [job EXCEPT ![w].stage = "ready", ![w].books = books]
    /\ UNCHANGED <<grade, books, purchases, recoveries, today, snap, served,
                   readDays, granted>>

\* _apply_session_completion: update_snapshot, then the commit.
StoreCompletion(w) ==
    /\ job[w].op = "complete"
    /\ job[w].stage = "ready"
    /\ Store(w, CompletedRow(snap[w], job[w].amount, job[w].date, job[w].books))
    /\ readDays' = readDays \cup {job[w].date}
    /\ UNCHANGED <<purchases, recoveries, granted>>

\* purchase_shields: the receipt is valid, the row is read.
BeginPurchase(w, n) == Load(w, "purchase", NoDate, n)

StorePurchase(w) ==
    LET n == job[w].amount IN
    /\ job[w].op = "purchase"
    /\ Store(w, [snap[w] EXCEPT !.shields = @ + n])
    /\ purchases' = Append(purchases,
                          [shields |-> n, refunded |-> FALSE, taken |-> 0])
    /\ granted' = granted + n
    /\ UNCHANGED <<recoveries, readDays>>

\* apply_webhook_event, INITIAL_PURCHASE of the annual plan: grant_shields.
BeginWelcome(w) == Load(w, "welcome", NoDate, WelcomeShields)

StoreWelcome(w) ==
    /\ job[w].op = "welcome"
    /\ Store(w, [snap[w] EXCEPT !.shields = @ + job[w].amount])
    /\ granted' = granted + job[w].amount
    /\ UNCHANGED <<purchases, recoveries, readDays>>

\* handle_refund_webhook: the purchase exists; whether it was refunded before
\* is not looked at.
BeginRefund(w, p) == Load(w, "refund", NoDate, p)

\* The balance left after taking back a purchase of n shields.
AfterRefund(shields, n) == Larger(0, shields - n)

\* Fault variant of StoreRefund: the balance is not clamped.
StoreRefundUnclamped(w) ==
    LET p == job[w].amount
        left == snap[w].shields - purchases[p].shields
    IN
    /\ job[w].op = "refund"
    /\ Store(w, [snap[w] EXCEPT !.shields = left])
    /\ purchases' = [purchases EXCEPT ![p].refunded = TRUE,
                                      ![p].taken = @ + snap[w].shields - left]
    /\ UNCHANGED <<recoveries, readDays, granted>>

StoreRefund(w) ==
    LET p == job[w].amount
        left == AfterRefund(snap[w].shields, purchases[p].shields)
    IN
    /\ job[w].op = "refund"
    /\ Store(w, [snap[w] EXCEPT !.shields = left])
    /\ purchases' = [purchases EXCEPT ![p].refunded = TRUE,
                                      ![p].taken = @ + snap[w].shields - left]
    /\ UNCHANGED <<recoveries, readDays, granted>>

\* count_recoveries_last_30_days
RecoveriesSince(day) ==
    {i \in DOMAIN recoveries : recoveries[i] >= day}

\* Fault variant of BeginRecovery: the limit itself is let through.
BeginRecoveryAtLimit(w) ==
    /\ job[w].stage = "idle"
    /\ served < MaxRequests
    /\ served' = served + 1
    /\ Cardinality(RecoveriesSince(today - RecoveryWindow)) <= RecoveryLimit
    /\ job' = [job EXCEPT ![w] = [NoJob EXCEPT !.stage = "counted",
                                               !.op = "recover"]]
    /\ UNCHANGED <<grade, books, purchases, recoveries, today, snap, readDays,
                   granted>>

\* recover_streak: the limit is checked against the committed log.
BeginRecovery(w) ==
    /\ job[w].stage = "idle"
    /\ served < MaxRequests
    /\ served' = served + 1
    /\ Cardinality(RecoveriesSince(today - RecoveryWindow)) < RecoveryLimit
    /\ job' = [job EXCEPT ![w] = [NoJob EXCEPT !.stage = "counted",
                                               !.op = "recover"]]
    /\ UNCHANGED <<grade, books, purchases, recoveries, today, snap, readDays,
                   granted>>

\* recover_streak: get_or_init.
LoadForRecovery(w) ==
    /\ job[w].stage = "counted"
    /\ snap' = [snap EXCEPT ![w] = grade]
    /\ job' = [job EXCEPT ![w].stage = "loaded"]
    /\ UNCHANGED <<grade, books, purchases, recoveries, today, served, readDays,
                   granted>>

\* recover_streak: update_snapshot sets streak_days alone, then log_recovery.
StoreRecovery(w) ==
    /\ job[w].op = "recover"
    /\ job[w].stage = "loaded"
    /\ Store(w, [snap[w] EXCEPT !.streak = @ + 1])
    /\ recoveries' = Append(recoveries, today)
    /\ UNCHANGED <<purchases, readDays, granted>>

\* An exception before the commit: the request leaves nothing behind.
Abandon(w) ==
    /\ job[w].stage # "idle"
    /\ job' = [job EXCEPT ![w] = NoJob]
    /\ snap' = [snap EXCEPT ![w] = FreshGrade]
    /\ UNCHANGED <<grade, books, purchases, recoveries, today, served, readDays,
                   granted>>

\* update_status to COMPLETED, and away from it or remove_from_library: the
\* user_grades row is left as it is.
CompleteBook ==
    /\ books < MaxBooks
    /\ books' = books + 1
    /\ UNCHANGED <<grade, purchases, recoveries, today, job, snap, served,
                   readDays, granted>>

UncompleteBook ==
    /\ books > 0
    /\ books' = books - 1
    /\ UNCHANGED <<grade, purchases, recoveries, today, job, snap, served,
                   readDays, granted>>

NextDay ==
    /\ today < MaxDay
    /\ today' = today + 1
    /\ UNCHANGED <<grade, books, purchases, recoveries, job, snap, served,
                   readDays, granted>>

Request(w) ==
    \/ \E d \in Dates, n \in Seconds : BeginCompletion(w, d, n)
    \/ \E n \in Packs : BeginPurchase(w, n)
    \/ BeginWelcome(w)
    \/ \E p \in DOMAIN purchases : BeginRefund(w, p)
    \/ BeginRecovery(w)

Continue(w) ==
    \/ CountBooks(w)
    \/ StoreCompletion(w)
    \/ StorePurchase(w)
    \/ StoreWelcome(w)
    \/ StoreRefund(w)
    \/ LoadForRecovery(w)
    \/ StoreRecovery(w)
    \/ Abandon(w)

Next ==
    \/ \E w \in Slots : Request(w) \/ Continue(w)
    \/ CompleteBook
    \/ UncompleteBook
    \/ NextDay

Spec == Init /\ [][Next]_vars
--------------------------------------------------------------------------------
(* Properties.                                                             *)

\* The row and the work in hand keep to their types; no stream of purchases,
\* refunds and spent shields drives the balance below zero.
TypeOK ==
    /\ grade \in GradeRows
    /\ books \in 0 .. MaxBooks
    /\ purchases \in Seq(PurchaseRows)
    /\ recoveries \in Seq(Nat)
    /\ today \in Nat
    /\ job \in [Slots -> Jobs]
    /\ snap \in [Slots -> GradeRows]
    /\ served \in 0 .. MaxRequests
    /\ readDays \in SUBSET Dates
    /\ granted \in Nat

\* Awards stop at the maximum: whatever balance goes beyond it was bought or
\* given, even when purchases, awards and spending overlap and overwrite one
\* another's balance.
FreeShieldsCapped == grade.shields <= MaxShields + granted

\* While requests of the user do not overlap, no order of sessions, backdated
\* sessions, shields and recoveries makes a streak longer than the days read
\* and recovered.  (Two overlapping completions can: the later commit may put
\* back an earlier last date, and the day after it then counts twice.)
StreakIsEarned ==
    grade.streak <= Cardinality(readDays) + Len(recoveries)

\* While requests of the user do not overlap, the stored grade and tier are
\* those of the stored totals.
GradeMatchesTotals ==
    grade.rank = CalculateGradeTier(grade.books, grade.seconds)

\* While requests do not overlap, a streak is only lost to a missed day that
\* no shield was there to absorb, and starts over at one; the exception is
\* what was recovered before the first session, which that session replaces.
StreakLostOnlyUnshielded ==
    [][grade'.streak < grade.streak =>
           /\ grade'.streak = 1
           /\ \/ grade.last = NoDate
              \/ grade.shields = 0 /\ grade'.last > grade.last + 1]_vars

\* While requests do not overlap, neither the best streak nor the last day
\* read moves back, whatever date a session carries (streak_policy.py: a
\* session dated before last_date is a noop).
HistoryNeverShrinks ==
    [][grade'.longest >= grade.longest /\ grade'.last >= grade.last]_vars

\* Shields and recoveries never undo a session: a purchase, refund, welcome
\* gift or recovery that loaded the row before a completion committed leaves
\* the totals, the grade and the dates of that completion alone.
OnlySessionsMoveReading ==
    [][(\A w \in Slots : job[w].op # "complete" \/ job'[w] = job[w]) =>
           /\ grade'.books = grade.books
           /\ grade'.seconds = grade.seconds
           /\ grade'.rank = grade.rank
           /\ grade'.last = grade.last
           /\ grade'.longest = grade.longest]_vars

\* The monthly cap of recover_streak: no span of RecoveryWindow days holds
\* more than RecoveryLimit recoveries.
RecoveryCap ==
    \A day \in 1 .. today :
        Cardinality({i \in DOMAIN recoveries :
                        recoveries[i] \in day - RecoveryWindow .. day})
            <= RecoveryLimit

\* The refund webhook may be called again for a purchase, and its test expects
\* ALREADY_REFUNDED then: what the refunds of a purchase take back is never
\* more than the purchase granted.
RefundsWithinGrant ==
    \A p \in DOMAIN purchases : purchases[p].taken <= purchases[p].shields
================================================================================
