-------------------------- MODULE StreakLedger_proofs --------------------------
(***************************************************************************)
(* Proofs about StreakLedger.  The first part holds for any number of       *)
(* overlapping requests; the second is about a user whose requests do not   *)
(* overlap (one slot), where every commit works on the row it loaded.       *)
(***************************************************************************)
EXTENDS StreakLedger, GradeSnapshot_proofs, FiniteSetTheorems

\* A refund under way names a purchase, a completion a day.
JobsGrounded ==
    \A w \in Slots : /\ job[w].op = "refund" => job[w].amount \in DOMAIN purchases
                     /\ job[w].op = "complete" => job[w].date \in Dates

TypeInv == TypeOK /\ JobsGrounded

\* Flushing a well-typed row leaves well-typed rows and an idle slot.
LEMMA StoreType ==
    ASSUME TypeOK, NEW w \in Slots, NEW new \in GradeRows, Store(w, new)
    PROVE  /\ grade' \in GradeRows
           /\ job' \in [Slots -> Jobs]
           /\ snap' \in [Slots -> GradeRows]
           /\ books' \in 0 .. MaxBooks
           /\ today' \in Nat
           /\ served' \in 0 .. MaxRequests
<1>1. snap[w] \in GradeRows /\ grade \in GradeRows
    BY DEF TypeOK
<1>2. grade' \in GradeRows
    BY <1>1, MergeType DEF Store
<1>3. NoJob \in Jobs
    BY DEF NoJob, Jobs, NoDate
<1>4. QED
    BY <1>2, <1>3, FreshGradeType DEF Store, TypeOK

\* Changing the shields or the streak of a row keeps its type.
LEMMA RowUpdates ==
    ASSUME NEW row \in GradeRows, NEW n \in Nat
    PROVE  /\ [row EXCEPT !.shields = n] \in GradeRows
           /\ [row EXCEPT !.streak = n] \in GradeRows
BY DEF GradeRows

LEMMA LoadType ==
    ASSUME TypeInv, NEW w \in Slots, NEW op \in {"complete", "purchase", "welcome",
           "refund"}, NEW d \in Nat, NEW n \in Nat, Load(w, op, d, n),
           op = "refund" => n \in DOMAIN purchases,
           op = "complete" => d \in Dates
    PROVE  TypeInv'
<1> DEFINE j == [NoJob EXCEPT !.stage = "loaded", !.op = op, !.date = d, !.amount = n]
<1>1. j \in Jobs /\ j.op = op /\ j.amount = n /\ j.date = d
    BY DEF Jobs, NoJob, NoDate
<1> HIDE DEF j
<1>2. /\ job' = [job EXCEPT ![w] = j] /\ snap' = [snap EXCEPT ![w] = grade]
      /\ served' = served + 1 /\ served < MaxRequests
      /\ UNCHANGED <<grade, books, purchases, recoveries, today, readDays, granted>>
    BY DEF Load, j
<1>3. TypeOK'
    BY <1>1, <1>2, LedgerAssumption DEF TypeInv, TypeOK
<1>4. JobsGrounded'
    BY <1>1, <1>2 DEF TypeInv, TypeOK, JobsGrounded
<1>5. QED
    BY <1>3, <1>4 DEF TypeInv

LEMMA TypeNext ==
    ASSUME TypeInv, [Next]_vars
    PROVE  TypeInv'
<1> USE DEF TypeInv
<1>1. ASSUME NEW w \in Slots, Request(w) PROVE TypeInv'
    <2>1. ASSUME NEW d \in Dates, NEW n \in Seconds, BeginCompletion(w, d, n)
          PROVE  TypeInv'
        BY <2>1, LoadType, LedgerAssumption DEF BeginCompletion
    <2>2. ASSUME NEW n \in Packs, BeginPurchase(w, n) PROVE TypeInv'
        BY <2>2, LoadType, LedgerAssumption DEF BeginPurchase, NoDate
    <2>3. CASE BeginWelcome(w)
        BY <2>3, LoadType, LedgerAssumption DEF BeginWelcome, NoDate
    <2>4. ASSUME NEW p \in DOMAIN purchases, BeginRefund(w, p) PROVE TypeInv'
        <3>1. p \in Nat
            BY <2>4, LenProperties DEF TypeOK
        <3>2. QED
            BY <2>4, <3>1, LoadType DEF BeginRefund, NoDate
    <2>5. CASE BeginRecovery(w)
        <3>1. [NoJob EXCEPT !.stage = "counted", !.op = "recover"] \in Jobs
            BY DEF NoJob, Jobs, NoDate
        <3>2. TypeOK'
            BY <2>5, <3>1, LedgerAssumption DEF BeginRecovery, TypeOK
        <3>3. JobsGrounded'
            BY <2>5 DEF BeginRecovery, JobsGrounded, TypeOK, NoJob
        <3>4. QED
            BY <3>2, <3>3
    <2>6. QED
        BY <1>1, <2>1, <2>2, <2>3, <2>4, <2>5 DEF Request
<1>2. ASSUME NEW w \in Slots, CountBooks(w) \/ LoadForRecovery(w) PROVE TypeInv'
    <2>1. job[w] \in Jobs /\ books \in Nat
        BY LedgerAssumption DEF TypeOK
    <2>2. PICK j \in {[job[w] EXCEPT !.stage = "ready", !.books = books],
                      [job[w] EXCEPT !.stage = "loaded"]} :
              job' = [job EXCEPT ![w] = j]
        BY <1>2, <2>1 DEF CountBooks, LoadForRecovery, TypeOK, Jobs
    <2>3. j \in Jobs /\ j.op = job[w].op /\ j.amount = job[w].amount
              /\ j.date = job[w].date
        BY <2>1 DEF Jobs
    <2>4. TypeOK'
        BY <1>2, <2>2, <2>3 DEF CountBooks, LoadForRecovery, TypeOK
    <2>5. purchases' = purchases
        BY <1>2 DEF CountBooks, LoadForRecovery
    <2>6. JobsGrounded'
        BY <2>2, <2>3, <2>5 DEF JobsGrounded, TypeOK
    <2>7. QED
        BY <2>4, <2>6
<1>3. ASSUME NEW w \in Slots, NEW new \in GradeRows, Store(w, new),
             DOMAIN purchases \subseteq DOMAIN purchases'
      PROVE  JobsGrounded'
    BY <1>3 DEF Store, JobsGrounded, TypeOK, NoJob
<1>4. ASSUME NEW w \in Slots, StoreCompletion(w) PROVE TypeInv'
    <2> DEFINE new == CompletedRow(snap[w], job[w].amount, job[w].date, job[w].books)
    <2>1. snap[w] \in GradeRows /\ job[w].amount \in Nat /\ job[w].date \in Nat
              /\ job[w].books \in Nat
        BY DEF TypeOK, Jobs
    <2>2. new \in GradeRows
        BY <2>1, CompletedRowType
    <2> HIDE DEF new
    <2>3. /\ Store(w, new) /\ readDays' = readDays \cup {job[w].date}
          /\ UNCHANGED <<purchases, recoveries, granted>>
        BY <1>4 DEF StoreCompletion, new
    <2>4. job[w].date \in Dates
        BY <1>4 DEF StoreCompletion, JobsGrounded
    <2>5. TypeOK'
        BY <2>2, <2>3, <2>4, StoreType DEF TypeOK
    <2>6. QED
        BY <1>3, <2>2, <2>3, <2>5
<1>5. ASSUME NEW w \in Slots, StorePurchase(w) PROVE TypeInv'
    <2> DEFINE n == job[w].amount
               new == [snap[w] EXCEPT !.shields = @ + n]
    <2>1. n \in Nat /\ snap[w] \in GradeRows /\ snap[w].shields + n \in Nat
        BY SMTT(30) DEF TypeOK, Jobs, GradeRows
    <2>2. new \in GradeRows
        BY <2>1, RowUpdates
    <2> HIDE DEF new, n
    <2>3. /\ Store(w, new) /\ granted' = granted + n
          /\ purchases' = Append(purchases,
                                 [shields |-> n, refunded |-> FALSE, taken |-> 0])
          /\ UNCHANGED <<recoveries, readDays>>
        BY <1>5 DEF StorePurchase, new, n
    <2>4. [shields |-> n, refunded |-> FALSE, taken |-> 0] \in PurchaseRows
        BY <2>1 DEF PurchaseRows
    <2>5. purchases' \in Seq(PurchaseRows) /\ DOMAIN purchases \subseteq DOMAIN purchases'
        BY <2>3, <2>4 DEF TypeOK
    <2>6. TypeOK'
        BY <2>1, <2>2, <2>3, <2>5, StoreType DEF TypeOK
    <2>7. QED
        BY <1>3, <2>2, <2>3, <2>5, <2>6
<1>6. ASSUME NEW w \in Slots, StoreWelcome(w) PROVE TypeInv'
    <2> DEFINE n == job[w].amount
               new == [snap[w] EXCEPT !.shields = @ + n]
    <2>1. n \in Nat /\ snap[w] \in GradeRows /\ snap[w].shields + n \in Nat
        BY SMTT(30) DEF TypeOK, Jobs, GradeRows
    <2>2. new \in GradeRows
        BY <2>1, RowUpdates
    <2> HIDE DEF new, n
    <2>3. /\ Store(w, new) /\ granted' = granted + n
          /\ UNCHANGED <<purchases, recoveries, readDays>>
        BY <1>6 DEF StoreWelcome, new, n
    <2>4. TypeOK'
        BY <2>1, <2>2, <2>3, StoreType DEF TypeOK
    <2>5. QED
        BY <1>3, <2>2, <2>3, <2>4
<1>7. ASSUME NEW w \in Slots, StoreRefund(w) PROVE TypeInv'
    <2> DEFINE p == job[w].amount
               left == AfterRefund(snap[w].shields, purchases[p].shields)
               new == [snap[w] EXCEPT !.shields = left]
               paid == [purchases EXCEPT ![p].refunded = TRUE,
                                         ![p].taken = @ + snap[w].shields - left]
    <2>1. p \in DOMAIN purchases /\ snap[w] \in GradeRows /\ snap[w].shields \in Nat
        BY <1>7 DEF StoreRefund, JobsGrounded, TypeOK, GradeRows
    <2>2. purchases[p] \in PurchaseRows
        BY <2>1, ElementOfSeq, LenProperties DEF TypeOK
    <2>3. purchases[p].shields \in Nat /\ purchases[p].taken \in Nat
        BY <2>2 DEF PurchaseRows
    <2>4. left \in Nat /\ left <= snap[w].shields
        BY <2>1, <2>3 DEF AfterRefund, Larger
    <2>5. new \in GradeRows
        BY <2>1, <2>4, RowUpdates
    <2>6. paid \in Seq(PurchaseRows) /\ DOMAIN paid = DOMAIN purchases
        <3> DEFINE row == [purchases[p] EXCEPT !.refunded = TRUE,
                                               !.taken = @ + snap[w].shields - left]
        <3>1. row \in PurchaseRows
            <4> HIDE DEF left, p
            <4>1. purchases[p].taken + snap[w].shields - left \in Nat
                BY <2>1, <2>3, <2>4
            <4>2. QED
                BY <2>2, <4>1 DEF PurchaseRows
        <3>2. paid = [purchases EXCEPT ![p] = row]
            BY <2>1, <2>2 DEF PurchaseRows
        <3> HIDE DEF row, left, paid
        <3>3. QED
            BY <2>1, <3>1, <3>2, ExceptSeq, LenProperties DEF TypeOK
    <2> HIDE DEF new, left, paid
    <2>7. /\ Store(w, new) /\ purchases' = paid
          /\ UNCHANGED <<recoveries, readDays, granted>>
        BY <1>7 DEF StoreRefund, new, left, paid
    <2>8. TypeOK'
        BY <2>5, <2>6, <2>7, StoreType DEF TypeOK
    <2>9. QED
        BY <1>3, <2>5, <2>6, <2>7, <2>8
<1>8. ASSUME NEW w \in Slots, StoreRecovery(w) PROVE TypeInv'
    <2> DEFINE new == [snap[w] EXCEPT !.streak = @ + 1]
    <2>1. snap[w] \in GradeRows /\ snap[w].streak + 1 \in Nat
        BY DEF TypeOK, GradeRows
    <2>2. new \in GradeRows
        BY <2>1, RowUpdates
    <2> HIDE DEF new
    <2>3. /\ Store(w, new) /\ recoveries' = Append(recoveries, today)
          /\ UNCHANGED <<purchases, readDays, granted>>
        BY <1>8 DEF StoreRecovery, new
    <2>4. recoveries' \in Seq(Nat)
        BY <2>3 DEF TypeOK
    <2>5. TypeOK'
        BY <2>2, <2>3, <2>4, StoreType DEF TypeOK
    <2>6. QED
        BY <1>3, <2>2, <2>3, <2>5
<1>9. ASSUME NEW w \in Slots, Abandon(w) PROVE TypeInv'
    <2>1. NoJob \in Jobs
        BY DEF NoJob, Jobs, NoDate
    <2>2. TypeOK'
        BY <1>9, <2>1, FreshGradeType DEF Abandon, TypeOK
    <2>3. JobsGrounded'
        BY <1>9 DEF Abandon, JobsGrounded, TypeOK, NoJob
    <2>4. QED
        BY <2>2, <2>3
<1>10. CASE CompleteBook \/ UncompleteBook \/ NextDay
    <2>1. /\ UNCHANGED <<grade, purchases, recoveries, job, snap, served, readDays,
                        granted>>
          /\ books' \in 0 .. MaxBooks
          /\ today' \in Nat
        BY <1>10, LedgerAssumption DEF CompleteBook, UncompleteBook, NextDay, TypeOK
    <2>2. QED
        BY <2>1 DEF TypeOK, JobsGrounded
<1>11. CASE UNCHANGED vars
    BY <1>11 DEF vars, TypeOK, JobsGrounded
<1>12. QED
    BY <1>1, <1>2, <1>4, <1>5, <1>6, <1>7, <1>8, <1>9, <1>10, <1>11
       DEF Next, Continue

LEMMA TypeInit == Init => TypeInv
<1>1. NoJob \in Jobs /\ [FreshGrade EXCEPT !.exists = TRUE] \in GradeRows
    BY FreshGradeType DEF NoJob, Jobs, NoDate, GradeRows
<1>2. QED
    BY <1>1, FreshGradeType, LedgerAssumption
       DEF Init, TypeInv, TypeOK, JobsGrounded, NoJob

\* The row and the work in hand keep to their types; in particular no stream
\* of purchases, refunds and spent shields drives the balance below zero.
THEOREM TypeCorrect == Spec => []TypeOK
<1>1. TypeInv /\ [Next]_vars => TypeInv'
    BY TypeNext
<1>2. TypeInv => TypeOK
    BY DEF TypeInv
<1>3. QED
    BY <1>1, <1>2, TypeInit, PTL DEF Spec

--------------------------------------------------------------------------------
(* Free shields stop at the maximum, however requests overlap.  A request    *)
(* may store a balance computed from an old one, so the bound has to hold   *)
(* of every loaded copy as well; it survives because granted only grows.    *)

BalancesCapped ==
    /\ grade.shields <= MaxShields + granted
    /\ \A w \in Slots : snap[w].shields <= MaxShields + granted

\* Storing a row within the bound keeps every balance within it.
LEMMA StoreCapped ==
    ASSUME TypeOK, BalancesCapped, NEW w \in Slots, NEW new, Store(w, new),
           new.shields <= MaxShields + granted',
           granted' \in Nat, granted <= granted'
    PROVE  BalancesCapped'
<1>1. /\ MaxShields \in Nat /\ granted \in Nat /\ grade.shields \in Nat
      /\ \A v \in Slots : snap[v].shields \in Nat
    BY PolicyAssumption DEF TypeOK, GradeRows
<1>2. grade'.shields = Column(grade.shields, snap[w].shields, new.shields)
    BY DEF Store, MergeColumns
<1>3. \A v \in Slots : snap'[v].shields \in {0, snap[v].shields}
    BY DEF Store, TypeOK, FreshGrade
<1>4. grade'.shields <= MaxShields + granted'
    BY <1>1, <1>2 DEF BalancesCapped, Column
<1>5. \A v \in Slots : snap'[v].shields <= MaxShields + granted'
    BY <1>1, <1>3 DEF BalancesCapped
<1>6. QED
    BY <1>4, <1>5 DEF BalancesCapped

LEMMA CappedNext ==
    ASSUME TypeInv, BalancesCapped, [Next]_vars
    PROVE  BalancesCapped'
<1> USE DEF TypeInv
<1>1. /\ MaxShields \in Nat /\ granted \in Nat /\ grade.shields \in Nat
      /\ \A v \in Slots : snap[v] \in GradeRows /\ snap[v].shields \in Nat
      /\ \A v \in Slots : job[v].amount \in Nat /\ job[v].date \in Nat
    BY PolicyAssumption DEF TypeOK, GradeRows, Jobs
<1>2. ASSUME grade' = grade, granted' = granted,
             \A v \in Slots : snap'[v] \in {FreshGrade, grade, snap[v]}
      PROVE  BalancesCapped'
    BY <1>1, <1>2 DEF BalancesCapped, FreshGrade
<1>3. ASSUME NEW w \in Slots, StoreCompletion(w) PROVE BalancesCapped'
    <2> DEFINE new == CompletedRow(snap[w], job[w].amount, job[w].date, job[w].books)
               n == ApplyStreakWithShield(snap[w], job[w].date).shields
    <2>1. new.shields = n
        BY DEF CompletedRow
    <2>2. n <= snap[w].shields \/ n <= MaxShields
        BY <1>1, AwardCapped
    <2>3. n \in Nat
        BY <1>1, StreakTypes DEF GradeRows
    <2>4. Store(w, new) /\ granted' = granted
        BY <1>3 DEF StoreCompletion
    <2> HIDE DEF new, n
    <2>5. new.shields <= MaxShields + granted'
        BY <1>1, <2>1, <2>2, <2>3, <2>4 DEF BalancesCapped
    <2>6. QED
        BY <1>1, <2>4, <2>5, StoreCapped
<1>4. ASSUME NEW w \in Slots, StorePurchase(w) \/ StoreWelcome(w)
      PROVE  BalancesCapped'
    <2> DEFINE n == job[w].amount
               new == [snap[w] EXCEPT !.shields = @ + n]
    <2>1. Store(w, new) /\ granted' = granted + n
        BY <1>4 DEF StorePurchase, StoreWelcome
    <2>2. new.shields = snap[w].shields + n
        BY <1>1 DEF GradeRows
    <2> HIDE DEF new
    <2>3. new.shields <= MaxShields + granted'
        BY <1>1, <2>1, <2>2 DEF BalancesCapped
    <2>4. QED
        BY <1>1, <2>1, <2>3, StoreCapped
<1>5. ASSUME NEW w \in Slots, StoreRefund(w) PROVE BalancesCapped'
    <2> DEFINE p == job[w].amount
               left == AfterRefund(snap[w].shields, purchases[p].shields)
               new == [snap[w] EXCEPT !.shields = left]
    <2>1. p \in DOMAIN purchases
        BY <1>5 DEF StoreRefund, JobsGrounded
    <2>2. purchases[p] \in PurchaseRows
        BY <2>1, ElementOfSeq, LenProperties DEF TypeOK
    <2>3. left <= snap[w].shields /\ left \in Nat
        BY <1>1, <2>2 DEF AfterRefund, Larger, PurchaseRows
    <2>4. new.shields = left /\ Store(w, new) /\ granted' = granted
        BY <1>1, <1>5 DEF StoreRefund, GradeRows
    <2> HIDE DEF new, left
    <2>5. new.shields <= MaxShields + granted'
        BY <1>1, <2>3, <2>4 DEF BalancesCapped
    <2>6. QED
        BY <1>1, <2>4, <2>5, StoreCapped
<1>6. ASSUME NEW w \in Slots, StoreRecovery(w) PROVE BalancesCapped'
    <2> DEFINE new == [snap[w] EXCEPT !.streak = @ + 1]
    <2>1. new.shields = snap[w].shields /\ Store(w, new) /\ granted' = granted
        BY <1>1, <1>6 DEF StoreRecovery, GradeRows
    <2> HIDE DEF new
    <2>2. new.shields <= MaxShields + granted'
        BY <2>1 DEF BalancesCapped
    <2>3. QED
        BY <1>1, <2>1, <2>2, StoreCapped
<1>7. ASSUME NEW w \in Slots,
             Request(w) \/ CountBooks(w) \/ LoadForRecovery(w) \/ Abandon(w)
      PROVE  BalancesCapped'
    <2>1. grade' = grade /\ granted' = granted
        BY <1>7 DEF Request, BeginCompletion, BeginPurchase, BeginWelcome, BeginRefund,
                    Load, BeginRecovery, CountBooks, LoadForRecovery, Abandon
    <2>2. \A v \in Slots : snap'[v] \in {FreshGrade, grade, snap[v]}
        BY <1>7 DEF Request, BeginCompletion, BeginPurchase, BeginWelcome, BeginRefund,
                    Load, BeginRecovery, CountBooks, LoadForRecovery, Abandon, TypeOK
    <2>3. QED
        BY <1>2, <2>1, <2>2
<1>8. CASE CompleteBook \/ UncompleteBook \/ NextDay \/ UNCHANGED vars
    BY <1>2, <1>8 DEF CompleteBook, UncompleteBook, NextDay, vars
<1>9. QED
    BY <1>3, <1>4, <1>5, <1>6, <1>7, <1>8 DEF Next, Continue

\* Awards stop at the maximum: whatever balance goes beyond it was bought or
\* given, however purchases, refunds, awards and spending overlap.
THEOREM ShieldsCapped == Spec => []FreeShieldsCapped
<1>1. Init => BalancesCapped
    BY PolicyAssumption DEF Init, BalancesCapped, FreshGrade
<1>2. TypeInv /\ BalancesCapped /\ [Next]_vars => BalancesCapped'
    BY CappedNext
<1>3. BalancesCapped => FreeShieldsCapped
    BY DEF BalancesCapped, FreeShieldsCapped
<1>4. TypeInv /\ [Next]_vars => TypeInv'
    BY TypeNext
<1>5. QED
    BY <1>1, <1>2, <1>3, <1>4, TypeInit, PTL DEF Spec

--------------------------------------------------------------------------------
(* Only sessions move the reading columns.                                   *)

\* A stored row that agrees with the loaded copy in a column leaves it alone.
LEMMA StoreLeaves ==
    ASSUME NEW w \in Slots, NEW new, Store(w, new),
           new.books = snap[w].books, new.seconds = snap[w].seconds,
           new.rank = snap[w].rank, new.last = snap[w].last,
           new.longest = snap[w].longest
    PROVE  /\ grade'.books = grade.books
           /\ grade'.seconds = grade.seconds
           /\ grade'.rank = grade.rank
           /\ grade'.last = grade.last
           /\ grade'.longest = grade.longest
BY DEF Store, MergeColumns, Column

\* A purchase, refund, welcome gift or recovery that overlaps a completion
\* never undoes its totals, its grade or its dates.
THEOREM ReadingMovedBySessions == Spec => OnlySessionsMoveReading
<1> DEFINE Kept == /\ grade'.books = grade.books
                   /\ grade'.seconds = grade.seconds
                   /\ grade'.rank = grade.rank
                   /\ grade'.last = grade.last
                   /\ grade'.longest = grade.longest
           NoSession == \A w \in Slots : job[w].op # "complete" \/ job'[w] = job[w]
<1>1. ASSUME TypeInv, [Next]_vars, NoSession PROVE Kept
    <2> USE DEF TypeInv
    <2>1. \A v \in Slots : snap[v] \in GradeRows
        BY <1>1 DEF TypeOK
    <2>2. ASSUME NEW w \in Slots, StoreCompletion(w) PROVE FALSE
        BY <1>1, <2>2 DEF StoreCompletion, Store, TypeOK, NoJob
    <2>3. ASSUME NEW w \in Slots, NEW n, Store(w, [snap[w] EXCEPT !.shields = n])
          PROVE  Kept
        <3> DEFINE new == [snap[w] EXCEPT !.shields = n]
        <3>1. /\ new.books = snap[w].books /\ new.seconds = snap[w].seconds
              /\ new.rank = snap[w].rank /\ new.last = snap[w].last
              /\ new.longest = snap[w].longest
            BY <2>1 DEF GradeRows
        <3> HIDE DEF new
        <3>2. QED
            BY <2>3, <3>1, StoreLeaves DEF new
    <2>4. ASSUME NEW w \in Slots,
                 StorePurchase(w) \/ StoreWelcome(w) \/ StoreRefund(w)
          PROVE  Kept
        BY <2>3, <2>4 DEF StorePurchase, StoreWelcome, StoreRefund
    <2>5. ASSUME NEW w \in Slots, StoreRecovery(w) PROVE Kept
        <3> DEFINE new == [snap[w] EXCEPT !.streak = @ + 1]
        <3>1. /\ new.books = snap[w].books /\ new.seconds = snap[w].seconds
              /\ new.rank = snap[w].rank /\ new.last = snap[w].last
              /\ new.longest = snap[w].longest
            BY <2>1 DEF GradeRows
        <3>2. Store(w, new)
            BY <2>5 DEF StoreRecovery
        <3> HIDE DEF new
        <3>3. QED
            BY <3>1, <3>2, StoreLeaves
    <2>6. ASSUME NEW w \in Slots,
                 Request(w) \/ CountBooks(w) \/ LoadForRecovery(w) \/ Abandon(w)
          PROVE  grade' = grade
        BY <2>6 DEF Request, BeginCompletion, BeginPurchase, BeginWelcome, BeginRefund,
                    Load, BeginRecovery, CountBooks, LoadForRecovery, Abandon
    <2>7. CASE CompleteBook \/ UncompleteBook \/ NextDay \/ UNCHANGED vars
        BY <2>7 DEF CompleteBook, UncompleteBook, NextDay, vars
    <2>8. QED
        BY <1>1, <2>2, <2>4, <2>5, <2>6, <2>7 DEF Next, Continue
<1>2. TypeInv /\ [Next]_vars => TypeInv'
    BY TypeNext
<1>3. TypeInv /\ [Next]_vars => [NoSession => Kept]_vars
    BY <1>1
<1>4. QED
    BY <1>2, <1>3, TypeInit, PTL DEF Spec, OnlySessionsMoveReading

--------------------------------------------------------------------------------
(* One request at a time.  With a single slot nothing comes between loading  *)
(* the row and storing it, so the loaded copy is the committed row and       *)
(* MergeColumns stores what was computed.                                    *)

\* A copy that will be stored is the committed row.
Fresh ==
    \A w \in Slots : job[w].stage \in {"loaded", "ready"} => snap[w] = grade

\* Every store happens from the loaded or the ready stage.
Staged ==
    \A w \in Slots : job[w].op \notin {"none", "recover"} =>
                         job[w].stage \in {"loaded", "ready"}

SerialInv == TypeInv /\ Fresh /\ Staged

\* A row is the record of its columns.
LEMMA RowIsColumns ==
    ASSUME NEW r \in GradeRows
    PROVE  r = [exists |-> r.exists, books |-> r.books, seconds |-> r.seconds,
                rank |-> r.rank, streak |-> r.streak, longest |-> r.longest,
                last |-> r.last, shields |-> r.shields]
BY DEF GradeRows

\* Flushing a change of the committed row itself stores exactly that change.
LEMMA MergeOwn ==
    ASSUME NEW row \in GradeRows, NEW new \in GradeRows
    PROVE  MergeColumns(row, row, new) = [new EXCEPT !.exists = TRUE]
<1> DEFINE Stored == [exists |-> TRUE, books |-> new.books, seconds |-> new.seconds,
                      rank |-> new.rank, streak |-> new.streak,
                      longest |-> new.longest, last |-> new.last,
                      shields |-> new.shields]
<1>1. \A a, b : Column(a, a, b) = b
    BY DEF Column
<1>2. MergeColumns(row, row, new) = Stored
    BY <1>1 DEF MergeColumns
<1>3. [new EXCEPT !.exists = TRUE] = Stored
    <2> DEFINE flushed == [new EXCEPT !.exists = TRUE]
    <2>1. flushed \in GradeRows
        BY DEF GradeRows
    <2>2. /\ flushed.exists = TRUE
          /\ flushed.books = new.books     /\ flushed.seconds = new.seconds
          /\ flushed.rank = new.rank       /\ flushed.streak = new.streak
          /\ flushed.longest = new.longest /\ flushed.last = new.last
          /\ flushed.shields = new.shields
        BY DEF GradeRows
    <2> HIDE DEF flushed
    <2>3. QED
        BY <2>1, <2>2, RowIsColumns DEF flushed
<1>4. QED
    BY <1>2, <1>3

LEMMA SerialNext ==
    ASSUME NEW w0, Slots = {w0}, SerialInv, [Next]_vars
    PROVE  SerialInv'
<1>1. TypeInv'
    BY TypeNext DEF SerialInv
<1>2. Fresh' /\ Staged'
    <2> USE DEF SerialInv, TypeInv, Fresh, Staged
    <2>1. CASE Request(w0)
        BY <2>1, ZenonT(40) DEF Request, BeginCompletion, BeginPurchase, BeginWelcome, BeginRefund,
                    Load, BeginRecovery, TypeOK, NoJob
    <2>2. CASE CountBooks(w0) \/ LoadForRecovery(w0)
        BY <2>2 DEF CountBooks, LoadForRecovery, TypeOK, Jobs
    <2>3. ASSUME NEW new, Store(w0, new) PROVE Fresh' /\ Staged'
        BY <2>3 DEF Store, TypeOK, NoJob
    <2>4. CASE StoreCompletion(w0) \/ StorePurchase(w0) \/ StoreWelcome(w0)
                   \/ StoreRefund(w0) \/ StoreRecovery(w0)
        BY <2>3, <2>4 DEF StoreCompletion, StorePurchase, StoreWelcome, StoreRefund,
                          StoreRecovery
    <2>5. CASE Abandon(w0)
        BY <2>5 DEF Abandon, TypeOK, NoJob
    <2>6. CASE CompleteBook \/ UncompleteBook \/ NextDay \/ UNCHANGED vars
        BY <2>6 DEF CompleteBook, UncompleteBook, NextDay, vars
    <2>7. QED
        BY <2>1, <2>2, <2>4, <2>5, <2>6 DEF Next, Continue
<1>3. QED
    BY <1>1, <1>2 DEF SerialInv

LEMMA SerialInit == Init => SerialInv
BY TypeInit DEF Init, SerialInv, Fresh, Staged, NoJob

\* What a step of the only slot does to the committed row.
LEMMA SerialSteps ==
    ASSUME NEW w0, Slots = {w0}, SerialInv, [Next]_vars
    PROVE  \/ grade' = grade /\ readDays' = readDays /\ recoveries' = recoveries
           \/ /\ StoreCompletion(w0)
              /\ job[w0].date \in Dates /\ job[w0].amount \in Nat
              /\ job[w0].books \in Nat
              /\ grade' = CompletedRow(grade, job[w0].amount, job[w0].date,
                                       job[w0].books)
           \/ /\ \E n \in Nat : grade' = [grade EXCEPT !.shields = n, !.exists = TRUE]
              /\ readDays' = readDays /\ recoveries' = recoveries
           \/ /\ StoreRecovery(w0)
              /\ grade' = [grade EXCEPT !.streak = @ + 1, !.exists = TRUE]
<1> USE DEF SerialInv, TypeInv
<1>1. /\ grade \in GradeRows /\ snap[w0] \in GradeRows /\ job[w0] \in Jobs
      /\ w0 \in Slots
    BY DEF TypeOK
<1>2. ASSUME NEW new \in GradeRows, Store(w0, new), snap[w0] = grade
      PROVE  grade' = [new EXCEPT !.exists = TRUE]
    BY <1>1, <1>2, MergeOwn DEF Store
<1>3. CASE StoreCompletion(w0)
    <2> DEFINE new == CompletedRow(snap[w0], job[w0].amount, job[w0].date,
                                   job[w0].books)
    <2>1. /\ job[w0].date \in Nat /\ job[w0].amount \in Nat /\ job[w0].books \in Nat
          /\ job[w0].date \in Dates
        BY <1>1, <1>3 DEF Jobs, StoreCompletion, JobsGrounded
    <2>2. snap[w0] = grade
        BY <1>1, <1>3 DEF StoreCompletion, Fresh
    <2>3. new \in GradeRows
        BY <1>1, <2>1, CompletedRowType
    <2>4. [new EXCEPT !.exists = TRUE] = new
        <3>1. new.exists = TRUE
            BY DEF CompletedRow
        <3> HIDE DEF new
        <3>2. QED
            BY <2>3, <3>1 DEF GradeRows
    <2>5. Store(w0, new)
        BY <1>3 DEF StoreCompletion
    <2>6. grade' = new
        BY <1>2, <2>2, <2>3, <2>4, <2>5
    <2>7. QED
        BY <1>3, <2>1, <2>2, <2>6
<1>4. ASSUME NEW n \in Nat, Store(w0, [snap[w0] EXCEPT !.shields = n]),
             job[w0].op \in {"purchase", "welcome", "refund"}
      PROVE  grade' = [grade EXCEPT !.shields = n, !.exists = TRUE]
    <2>1. snap[w0] = grade
        BY <1>1, <1>4 DEF Fresh, Staged
    <2>2. [snap[w0] EXCEPT !.shields = n] \in GradeRows
        BY <1>1, RowUpdates
    <2>3. grade' = [[snap[w0] EXCEPT !.shields = n] EXCEPT !.exists = TRUE]
        BY <1>2, <1>4, <2>1, <2>2
    <2>4. QED
        BY <1>1, <2>1, <2>3 DEF GradeRows
<1>5. CASE StorePurchase(w0) \/ StoreWelcome(w0)
    <2>1. snap[w0].shields + job[w0].amount \in Nat
        BY <1>1 DEF GradeRows, Jobs
    <2>2. /\ Store(w0, [snap[w0] EXCEPT !.shields = snap[w0].shields + job[w0].amount])
          /\ job[w0].op \in {"purchase", "welcome"}
        BY <1>5 DEF StorePurchase, StoreWelcome
    <2>3. readDays' = readDays /\ recoveries' = recoveries
        BY <1>5 DEF StorePurchase, StoreWelcome
    <2>4. QED
        BY <1>4, <2>1, <2>2, <2>3
<1>6. CASE StoreRefund(w0)
    <2> DEFINE left == AfterRefund(snap[w0].shields, purchases[job[w0].amount].shields)
    <2>1. purchases[job[w0].amount] \in PurchaseRows
        BY <1>1, <1>6, ElementOfSeq, LenProperties DEF TypeOK, StoreRefund, JobsGrounded
    <2>2. left \in Nat
        BY <1>1, <2>1 DEF AfterRefund, Larger, PurchaseRows, GradeRows
    <2>3. Store(w0, [snap[w0] EXCEPT !.shields = left]) /\ job[w0].op = "refund"
        BY <1>6 DEF StoreRefund
    <2>4. readDays' = readDays /\ recoveries' = recoveries
        BY <1>6 DEF StoreRefund
    <2> HIDE DEF left
    <2>5. QED
        BY <1>4, <2>2, <2>3, <2>4
<1>7. CASE StoreRecovery(w0)
    <2>1. snap[w0] = grade
        BY <1>1, <1>7 DEF StoreRecovery, Fresh
    <2>2. /\ grade.streak + 1 \in Nat
          /\ Store(w0, [snap[w0] EXCEPT !.streak = grade.streak + 1])
        BY <1>1, <1>7, <2>1 DEF StoreRecovery, GradeRows
    <2>3. [snap[w0] EXCEPT !.streak = grade.streak + 1] \in GradeRows
        BY <1>1, <2>2, RowUpdates
    <2>4. grade' = [[snap[w0] EXCEPT !.streak = grade.streak + 1] EXCEPT !.exists = TRUE]
        BY <1>2, <2>1, <2>2, <2>3
    <2>5. grade' = [grade EXCEPT !.streak = @ + 1, !.exists = TRUE]
        BY <1>1, <2>1, <2>4 DEF GradeRows
    <2>6. QED
        BY <1>7, <2>5
<1>8. CASE Request(w0) \/ CountBooks(w0) \/ LoadForRecovery(w0) \/ Abandon(w0)
    BY <1>8 DEF Request, BeginCompletion, BeginPurchase, BeginWelcome, BeginRefund,
                Load, BeginRecovery, CountBooks, LoadForRecovery, Abandon
<1>9. CASE CompleteBook \/ UncompleteBook \/ NextDay \/ UNCHANGED vars
    BY <1>9 DEF CompleteBook, UncompleteBook, NextDay, vars
<1>10. QED
    BY <1>3, <1>5, <1>6, <1>7, <1>8, <1>9 DEF Next, Continue

\* What a completed session does to the dates and the streak of a row.
LEMMA CompletionMoves ==
    ASSUME NEW row \in GradeRows, NEW n \in Nat, NEW d \in Nat \ {NoDate}, NEW b \in Nat,
           NEW row2, row2 = CompletedRow(row, n, d, b)
    PROVE  /\ row2.longest >= row.longest
           /\ row2.last >= row.last
           /\ row2.last = Larger(row.last, d)
           /\ row2.rank = CalculateGradeTier(row2.books, row2.seconds)
           /\ \/ row2.streak = 1
              \/ row2.streak = row.streak /\ row.last # NoDate
              \/ row2.streak = row.streak + 1 /\ d > row.last
           /\ row2.streak < row.streak =>
                  /\ row2.streak = 1
                  /\ \/ row.last = NoDate
                     \/ row.shields = 0 /\ row2.last > row.last + 1
<1> DEFINE s == ApplyStreakWithShield(row, d)
<1>1. /\ row2.longest = s.longest /\ row2.last = s.last /\ row2.streak = s.streak
      /\ row2.rank = CalculateGradeTier(row2.books, row2.seconds)
    BY DEF CompletedRow
<1>2. /\ row.streak \in Nat /\ row.longest \in Nat /\ row.last \in Nat
      /\ row.shields \in Nat
    BY DEF GradeRows
<1>3. CASE GapReset(row, d) /\ row.shields > 0
    <2>1. s.longest = row.longest /\ s.last = d /\ s.streak = row.streak
        BY <1>3 DEF ApplyStreakWithShield
    <2> HIDE DEF s
    <2>2. QED
        BY <1>1, <1>2, <1>3, <2>1 DEF GapReset, NoDate, Larger
<1>4. CASE ~(GapReset(row, d) /\ row.shields > 0)
    <2> DEFINE u == UpdateStreak(row, d)
    <2>1. s.longest = u.longest /\ s.last = u.last /\ s.streak = u.streak
        BY <1>4 DEF ApplyStreakWithShield
    <2>2. CASE row.last = NoDate
        <3>1. u = [streak |-> 1, longest |-> Larger(row.longest, 1), last |-> d]
            BY <2>2 DEF UpdateStreak
        <3>2. u.streak = 1 /\ u.longest = Larger(row.longest, 1) /\ u.last = d
            BY <3>1
        <3> HIDE DEF s, u
        <3>3. QED
            BY <1>1, <1>2, <2>1, <2>2, <3>2 DEF NoDate, Larger
    <2>3. CASE row.last # NoDate /\ d <= row.last
        <3>1. u = [streak |-> row.streak, longest |-> row.longest, last |-> row.last]
            BY <2>3 DEF UpdateStreak
        <3>2. u.streak = row.streak /\ u.longest = row.longest /\ u.last = row.last
            BY <3>1
        <3> HIDE DEF s, u
        <3>3. QED
            BY <1>1, <1>2, <2>1, <2>3, <3>2 DEF NoDate, Larger
    <2>4. CASE row.last # NoDate /\ d = row.last + 1
        <3>1. ~(d <= row.last)
            BY <1>2, <2>4
        <3>2. u = [streak |-> row.streak + 1,
                   longest |-> Larger(row.longest, row.streak + 1), last |-> d]
            BY <2>4, <3>1 DEF UpdateStreak
        <3>3. /\ u.streak = row.streak + 1 /\ u.last = d
              /\ u.longest = Larger(row.longest, row.streak + 1)
            BY <3>2
        <3> HIDE DEF s, u
        <3>4. QED
            BY <1>1, <1>2, <2>1, <2>4, <3>3 DEF NoDate, Larger
    <2>5. CASE row.last # NoDate /\ d > row.last + 1
        <3>1. ~(d <= row.last) /\ d # row.last + 1
            BY <1>2, <2>5
        <3>2. u = [streak |-> 1, longest |-> row.longest, last |-> d]
            BY <2>5, <3>1 DEF UpdateStreak
        <3>3. u.streak = 1 /\ u.longest = row.longest /\ u.last = d
            BY <3>2
        <3>4. row.shields = 0
            BY <1>2, <1>4, <2>5 DEF GapReset
        <3> HIDE DEF s, u
        <3>5. QED
            BY <1>1, <1>2, <2>1, <2>5, <3>3, <3>4 DEF NoDate, Larger
    <2>6. QED
        BY <1>2, <2>2, <2>3, <2>4, <2>5
<1>5. QED
    BY <1>3, <1>4

\* The dates of LedgerAssumption are the ones CompletionMoves speaks of.
LEMMA CompletionStep ==
    ASSUME NEW w0, Slots = {w0}, SerialInv,
           StoreCompletion(w0), job[w0].date \in Dates, job[w0].amount \in Nat,
           job[w0].books \in Nat,
           grade' = CompletedRow(grade, job[w0].amount, job[w0].date, job[w0].books)
    PROVE  /\ grade'.longest >= grade.longest
           /\ grade'.last >= grade.last
           /\ grade'.last = Larger(grade.last, job[w0].date)
           /\ grade'.rank = CalculateGradeTier(grade'.books, grade'.seconds)
           /\ \/ grade'.streak = 1
              \/ grade'.streak = grade.streak /\ grade.last # NoDate
              \/ grade'.streak = grade.streak + 1 /\ job[w0].date > grade.last
           /\ grade'.streak < grade.streak =>
                  /\ grade'.streak = 1
                  /\ \/ grade.last = NoDate
                     \/ grade.shields = 0 /\ grade'.last > grade.last + 1
<1>1. grade \in GradeRows /\ job[w0].date \in Nat \ {NoDate}
    BY LedgerAssumption DEF SerialInv, TypeInv, TypeOK
<1>2. QED
    BY <1>1, CompletionMoves

(* When requests do not overlap, the best streak and the last day read never *)
(* move back, and a streak is lost only to a gap with no shield to absorb it *)
(* (HistoryNeverShrinks, StreakLostOnlyUnshielded).                          *)
THEOREM HistoryKept ==
    ASSUME NEW w0, Slots = {w0}
    PROVE  Spec => HistoryNeverShrinks /\ StreakLostOnlyUnshielded
<1> DEFINE Forward == grade'.longest >= grade.longest /\ grade'.last >= grade.last
           Lost == grade'.streak < grade.streak =>
                       /\ grade'.streak = 1
                       /\ \/ grade.last = NoDate
                          \/ grade.shields = 0 /\ grade'.last > grade.last + 1
<1>1. SerialInv /\ [Next]_vars => SerialInv'
    BY SerialNext
<1>2. SerialInv /\ [Next]_vars => Forward /\ Lost
    <2> SUFFICES ASSUME SerialInv, [Next]_vars PROVE Forward /\ Lost
        OBVIOUS
    <2>1. grade \in GradeRows
        BY DEF SerialInv, TypeInv, TypeOK
    <2>2. CASE grade' = grade
        BY <2>1, <2>2 DEF GradeRows
    <2>3. CASE \E n \in Nat : grade' = [grade EXCEPT !.shields = n, !.exists = TRUE]
        BY <2>1, <2>3 DEF GradeRows
    <2>4. CASE grade' = [grade EXCEPT !.streak = @ + 1, !.exists = TRUE]
        BY <2>1, <2>4 DEF GradeRows
    <2>5. QED
        BY <2>2, <2>3, <2>4, SerialSteps, CompletionStep
<1>3. SerialInv /\ [Next]_vars => [Forward]_vars /\ [Lost]_vars
    BY <1>2
<1>4. QED
    BY <1>1, <1>3, SerialInit, PTL DEF Spec, HistoryNeverShrinks,
       StreakLostOnlyUnshielded

(* When requests do not overlap, the stored grade and tier are always those  *)
(* of the stored totals (GradeMatchesTotals).                                *)
THEOREM GradeFollowsTotals ==
    ASSUME NEW w0, Slots = {w0}
    PROVE  Spec => []GradeMatchesTotals
<1>1. Init => GradeMatchesTotals
    <2> SUFFICES ASSUME Init PROVE GradeMatchesTotals
        OBVIOUS
    <2>1. grade.rank = 1 /\ grade.books = 0 /\ grade.seconds = 0
        BY DEF Init, FreshGrade
    <2>2. CalculateGradeTier(0, 0) \in Ranks /\ Reaches(0, 0, CalculateGradeTier(0, 0))
        BY GradeTierIsHighest
    <2>3. CalculateGradeTier(0, 0) = 1
        <3> DEFINE i == CalculateGradeTier(0, 0)
        <3>1. i \in 1 .. Len(Ladder) /\ 0 >= Ladder[i].books /\ 0 >= Ladder[i].seconds
            BY <2>2 DEF Ranks, Reaches
        <3>2. Ladder[i].books \in Nat /\ Ladder[i].seconds \in Nat
            BY <2>2, LadderRow
        <3> HIDE DEF i
        <3>3. ~(i \in 2 .. Len(Ladder))
            BY <3>1, <3>2, PolicyAssumption
        <3>4. i = 1
            BY <3>1, <3>3, LenProperties, PolicyAssumption
        <3>5. QED
            BY <3>4 DEF i
    <2>4. QED
        BY <2>1, <2>3 DEF GradeMatchesTotals
<1>2. SerialInv /\ GradeMatchesTotals /\ [Next]_vars => GradeMatchesTotals'
    <2> SUFFICES ASSUME SerialInv, GradeMatchesTotals, [Next]_vars
                 PROVE  GradeMatchesTotals'
        OBVIOUS
    <2>1. grade \in GradeRows
        BY DEF SerialInv, TypeInv, TypeOK
    <2>2. CASE /\ grade'.books = grade.books /\ grade'.seconds = grade.seconds
               /\ grade'.rank = grade.rank
        BY <2>2 DEF GradeMatchesTotals
    <2>3. CASE grade'.rank = CalculateGradeTier(grade'.books, grade'.seconds)
        BY <2>3 DEF GradeMatchesTotals
    <2>4. CASE \/ grade' = grade
               \/ \E n \in Nat : grade' = [grade EXCEPT !.shields = n, !.exists = TRUE]
               \/ grade' = [grade EXCEPT !.streak = @ + 1, !.exists = TRUE]
        BY <2>1, <2>2, <2>4 DEF GradeRows
    <2>5. QED
        BY <2>3, <2>4, SerialSteps, CompletionStep
<1>3. SerialInv /\ [Next]_vars => SerialInv'
    BY SerialNext
<1>4. QED
    BY <1>1, <1>2, <1>3, SerialInit, PTL DEF Spec

\* A session dated after the last day read is on a day not read before.
EarnedInv ==
    /\ SerialInv
    /\ IsFiniteSet(readDays)
    /\ \A d \in readDays : d <= grade.last
    /\ StreakIsEarned

(* When requests do not overlap, the streak never exceeds the days read and  *)
(* the recoveries made (StreakIsEarned).                                     *)
THEOREM StreakEarned ==
    ASSUME NEW w0, Slots = {w0}
    PROVE  Spec => []StreakIsEarned
<1>1. Init => EarnedInv
    <2> SUFFICES ASSUME Init PROVE EarnedInv
        OBVIOUS
    <2>1. readDays = {} /\ grade.streak = 0 /\ Len(recoveries) = 0
        BY DEF Init, FreshGrade
    <2>2. SerialInv
        BY SerialInit
    <2>3. QED
        BY <2>1, <2>2, FS_EmptySet DEF EarnedInv, StreakIsEarned
<1>2. EarnedInv /\ [Next]_vars => EarnedInv'
    <2> SUFFICES ASSUME EarnedInv, [Next]_vars PROVE EarnedInv'
        OBVIOUS
    <2>1. SerialInv /\ SerialInv'
        BY SerialNext DEF EarnedInv
    <2>2. /\ grade \in GradeRows /\ recoveries \in Seq(Nat) /\ readDays \subseteq Nat
          /\ grade.streak \in Nat /\ grade.last \in Nat /\ Len(recoveries) \in Nat
          /\ today \in Nat
        BY <2>1, LedgerAssumption, LenProperties
        DEF SerialInv, TypeInv, TypeOK, GradeRows
    <2>3. IsFiniteSet(readDays) /\ Cardinality(readDays) \in Nat
        BY FS_CardinalityType DEF EarnedInv
    <2>4. CASE /\ grade'.streak = grade.streak /\ grade'.last = grade.last
               /\ readDays' = readDays /\ recoveries' = recoveries
        BY <2>1, <2>4 DEF EarnedInv, StreakIsEarned
    <2>5. CASE /\ \/ grade' = grade
                  \/ \E n \in Nat : grade' = [grade EXCEPT !.shields = n, !.exists = TRUE]
               /\ readDays' = readDays /\ recoveries' = recoveries
        <3>1. grade'.streak = grade.streak /\ grade'.last = grade.last
            BY <2>2, <2>5 DEF GradeRows
        <3>2. QED
            BY <2>4, <2>5, <3>1
    <2>6. ASSUME StoreCompletion(w0), job[w0].date \in Dates, job[w0].amount \in Nat,
                 job[w0].books \in Nat,
                 grade' = CompletedRow(grade, job[w0].amount, job[w0].date,
                                       job[w0].books)
          PROVE  EarnedInv'
        <3> DEFINE d == job[w0].date
        <3>1. /\ readDays' = readDays \cup {d} /\ recoveries' = recoveries
              /\ d \in Nat
            BY <2>6, LedgerAssumption DEF StoreCompletion
        <3>2. /\ grade'.last = Larger(grade.last, d)
              /\ \/ grade'.streak = 1
                 \/ grade'.streak = grade.streak
                 \/ grade'.streak = grade.streak + 1 /\ d > grade.last
            BY <2>1, <2>6, CompletionStep
        <3> HIDE DEF d
        <3>3. \A x \in readDays' : x <= grade'.last
            BY <2>2, <3>1, <3>2 DEF EarnedInv, Larger
        <3>4. /\ IsFiniteSet(readDays')
              /\ Cardinality(readDays') =
                    IF d \in readDays THEN Cardinality(readDays)
                                      ELSE Cardinality(readDays) + 1
            BY <2>3, <3>1, FS_AddElement
        <3>5. Cardinality(readDays') >= 1
            <4>1. readDays' # {} /\ Cardinality(readDays') \in Nat
                BY <3>1, <3>4, FS_CardinalityType
            <4>2. Cardinality(readDays') # 0
                BY <3>4, <4>1, FS_EmptySet
            <4>3. QED
                BY <4>1, <4>2
        <3>6. d > grade.last => d \notin readDays
            BY <2>2, <3>1 DEF EarnedInv
        <3>7. grade'.streak <= Cardinality(readDays') + Len(recoveries')
            BY <2>2, <2>3, <3>1, <3>2, <3>4, <3>5, <3>6 DEF EarnedInv, StreakIsEarned
        <3>8. QED
            BY <2>1, <3>3, <3>4, <3>7 DEF EarnedInv, StreakIsEarned
    <2>7. ASSUME StoreRecovery(w0), grade' = [grade EXCEPT !.streak = @ + 1, !.exists = TRUE]
          PROVE  EarnedInv'
        <3>1. grade'.streak = grade.streak + 1 /\ grade'.last = grade.last
            BY <2>2, <2>7 DEF GradeRows
        <3>2. readDays' = readDays /\ recoveries' = Append(recoveries, today)
            BY <2>7 DEF StoreRecovery
        <3>3. Len(recoveries') = Len(recoveries) + 1
            BY <2>2, <3>2, AppendProperties
        <3>4. QED
            BY <2>1, <2>2, <2>3, <3>1, <3>2, <3>3 DEF EarnedInv, StreakIsEarned
    <2>8. QED
        BY <2>1, <2>5, <2>6, <2>7, SerialSteps
<1>3. EarnedInv => StreakIsEarned
    BY DEF EarnedInv
<1>4. QED
    BY <1>1, <1>2, <1>3, PTL DEF Spec

\* The recoveries logged on day or later are finitely many, and fewer for a
\* later day.
LEMMA RecoveriesCounted ==
    ASSUME recoveries \in Seq(Nat), NEW day \in Int, NEW S,
           S \subseteq RecoveriesSince(day)
    PROVE  /\ IsFiniteSet(RecoveriesSince(day)) /\ Cardinality(RecoveriesSince(day)) \in Nat
           /\ IsFiniteSet(S) /\ Cardinality(S) \in Nat
           /\ Cardinality(S) <= Cardinality(RecoveriesSince(day))
<1>1. DOMAIN recoveries = 1 .. Len(recoveries) /\ Len(recoveries) \in Nat
    BY LenProperties
<1>2. IsFiniteSet(DOMAIN recoveries)
    BY <1>1, FS_Interval
<1>3. RecoveriesSince(day) \subseteq DOMAIN recoveries
    BY DEF RecoveriesSince
<1>4. IsFiniteSet(RecoveriesSince(day))
    BY <1>2, <1>3, FS_Subset
<1>5. QED
    BY <1>4, FS_Subset, FS_CardinalityType

\* The recoveries the cap counts for a day.
Window(day) ==
    {i \in DOMAIN recoveries : recoveries[i] \in day - RecoveryWindow .. day}

\* What a recovery under way was allowed on still holds: the log has not grown
\* and days only pass.
CapInv ==
    /\ SerialInv
    /\ today >= 1
    /\ \A i \in DOMAIN recoveries : recoveries[i] <= today
    /\ \A w \in Slots : job[w].op = "recover" =>
           Cardinality(RecoveriesSince(today - RecoveryWindow)) < RecoveryLimit
    /\ RecoveryCap

LEMMA CapInit ==
    ASSUME Init
    PROVE  CapInv
<1>1. /\ recoveries = <<>> /\ today = 1
      /\ \A w \in Slots : job[w].op = "none"
    BY DEF Init, NoJob
<1>2. SerialInv
    BY SerialInit
<1>3. \A day : Window(day) = {}
    BY <1>1 DEF Window
<1>4. RecoveryCap
    BY <1>3, FS_EmptySet, LedgerAssumption DEF RecoveryCap, Window
<1>5. QED
    BY <1>1, <1>2, <1>4 DEF CapInv

\* A recovery raises today's count by one, from below the limit.
LEMMA CapRecovery ==
    ASSUME NEW w0, Slots = {w0}, CapInv, StoreRecovery(w0), SerialInv'
    PROVE  CapInv'
<1>1. /\ recoveries \in Seq(Nat) /\ today \in Nat /\ today' = today
      /\ job'[w0].op = "none" /\ w0 \in Slots /\ job[w0].op = "recover"
    BY DEF CapInv, SerialInv, TypeInv, TypeOK, StoreRecovery, Store, NoJob
<1>2. recoveries' = Append(recoveries, today)
    BY DEF StoreRecovery
<1>3. /\ Len(recoveries) \in Nat /\ DOMAIN recoveries = 1 .. Len(recoveries)
      /\ DOMAIN recoveries' = 1 .. Len(recoveries) + 1
      /\ \A i \in DOMAIN recoveries : recoveries'[i] = recoveries[i]
      /\ recoveries'[Len(recoveries) + 1] = today
    BY <1>1, <1>2, AppendProperties, LenProperties
<1>4. \A i \in DOMAIN recoveries' : recoveries'[i] <= today'
    BY <1>1, <1>3 DEF CapInv
<1>5. ASSUME NEW day \in 1 .. today PROVE Cardinality(Window(day)') <= RecoveryLimit
    <2> DEFINE since == RecoveriesSince(today - RecoveryWindow)
    <2>1. CASE day < today
        <3>1. Window(day)' = Window(day)
            BY <1>1, <1>3, <2>1, LedgerAssumption DEF Window
        <3>2. QED
            BY <1>5, <3>1 DEF CapInv, RecoveryCap, Window
    <2>2. CASE day = today
        <3>1. Window(day)' \subseteq since \cup {Len(recoveries) + 1}
            BY <1>1, <1>3, <2>2, ElementOfSeq, LedgerAssumption
            DEF Window, RecoveriesSince
        <3>2. IsFiniteSet(since) /\ Cardinality(since) \in Nat
            BY <1>1, RecoveriesCounted, LedgerAssumption
        <3>3. Cardinality(since) < RecoveryLimit
            BY <1>1 DEF CapInv
        <3> HIDE DEF since
        <3>4. /\ IsFiniteSet(since \cup {Len(recoveries) + 1})
              /\ Cardinality(since \cup {Len(recoveries) + 1}) <= Cardinality(since) + 1
              /\ Cardinality(since \cup {Len(recoveries) + 1}) \in Nat
            BY <3>2, FS_AddElement, FS_CardinalityType
        <3>5. /\ Cardinality(Window(day)') <= Cardinality(since) + 1
              /\ Cardinality(Window(day)') \in Nat
            BY <3>1, <3>2, <3>4, FS_Subset, FS_CardinalityType
        <3>6. QED
            BY <3>2, <3>3, <3>5, LedgerAssumption
    <2>3. QED
        BY <1>1, <1>5, <2>1, <2>2
<1>6. RecoveryCap'
    BY <1>1, <1>5 DEF RecoveryCap, Window
<1>7. QED
    BY <1>1, <1>4, <1>6 DEF CapInv

\* A day passing only lets recoveries out of the window.
LEMMA CapNextDay ==
    ASSUME CapInv, NextDay, SerialInv'
    PROVE  CapInv'
<1>1. /\ recoveries \in Seq(Nat) /\ today \in Nat /\ today' = today + 1
      /\ recoveries' = recoveries /\ job' = job
    BY DEF CapInv, SerialInv, TypeInv, TypeOK, NextDay
<1>2. \A i \in DOMAIN recoveries : recoveries[i] \in Nat
    BY <1>1, ElementOfSeq, LenProperties
<1>3. RecoveriesSince(today' - RecoveryWindow) \subseteq
          RecoveriesSince(today - RecoveryWindow)
    BY <1>1, <1>2, LedgerAssumption DEF RecoveriesSince
<1>4. Cardinality(RecoveriesSince(today' - RecoveryWindow)) <=
          Cardinality(RecoveriesSince(today - RecoveryWindow))
    BY <1>1, <1>3, RecoveriesCounted, LedgerAssumption
<1>5. ASSUME NEW day \in 1 .. today + 1
      PROVE  Cardinality(Window(day)) <= RecoveryLimit
    <2>1. CASE day \in 1 .. today
        BY <2>1 DEF CapInv, RecoveryCap, Window
    <2>2. CASE day = today + 1
        <3>1. Window(day) \subseteq Window(today)
            BY <1>1, <1>2, <2>2, LedgerAssumption DEF Window, CapInv
        <3>2. Window(today) \subseteq RecoveriesSince(today - RecoveryWindow)
            BY <1>1, <1>2, LedgerAssumption DEF Window, RecoveriesSince
        <3>3. IsFiniteSet(Window(today)) /\ Cardinality(Window(today)) \in Nat
            BY <1>1, <3>2, RecoveriesCounted, LedgerAssumption
        <3>4. Cardinality(Window(day)) <= Cardinality(Window(today))
            BY <3>1, <3>3, FS_Subset
        <3>5. Cardinality(Window(day)) \in Nat
            BY <3>1, <3>3, FS_Subset, FS_CardinalityType
        <3>6. Cardinality(Window(today)) <= RecoveryLimit
            BY <1>1 DEF CapInv, RecoveryCap, Window
        <3>7. QED
            BY <3>3, <3>4, <3>5, <3>6, LedgerAssumption
    <2>3. QED
        BY <1>1, <1>5, <2>1, <2>2
<1>6. RecoveryCap'
    BY <1>1, <1>5 DEF RecoveryCap, Window
<1>7. /\ \A i \in DOMAIN recoveries' : recoveries'[i] <= today'
      /\ today' >= 1
    BY <1>1, <1>2 DEF CapInv
<1>8. \A w \in Slots : job'[w].op = "recover" =>
          Cardinality(RecoveriesSince(today - RecoveryWindow)') < RecoveryLimit
    <2>1. Cardinality(RecoveriesSince(today' - RecoveryWindow)) \in Nat
          /\ Cardinality(RecoveriesSince(today - RecoveryWindow)) \in Nat
        BY <1>1, <1>3, RecoveriesCounted, LedgerAssumption
    <2>2. RecoveriesSince(today - RecoveryWindow)' =
              RecoveriesSince(today' - RecoveryWindow)
        BY <1>1 DEF RecoveriesSince
    <2>3. QED
        BY <1>1, <1>4, <2>1, <2>2, LedgerAssumption DEF CapInv
<1>9. QED
    BY <1>6, <1>7, <1>8 DEF CapInv

(* When requests do not overlap, no span of RecoveryWindow days holds more   *)
(* recoveries than the monthly limit (RecoveryCap).                          *)
THEOREM RecoveriesCapped ==
    ASSUME NEW w0, Slots = {w0}
    PROVE  Spec => []RecoveryCap
<1>1. CapInv /\ [Next]_vars => CapInv'
    <2> SUFFICES ASSUME CapInv, [Next]_vars PROVE CapInv'
        OBVIOUS
    <2>1. SerialInv /\ SerialInv'
        BY SerialNext DEF CapInv
    <2>2. job[w0] \in Jobs /\ job \in [Slots -> Jobs]
        BY <2>1 DEF SerialInv, TypeInv, TypeOK
    <2>3. CASE /\ recoveries' = recoveries /\ today' = today
               /\ \A w \in Slots : job'[w].op = "recover" => job[w].op = "recover"
        BY <2>1, <2>3 DEF CapInv, RecoveryCap, RecoveriesSince
    <2>4. CASE BeginRecovery(w0)
        BY <2>1, <2>4 DEF BeginRecovery, CapInv, RecoveryCap, RecoveriesSince
    <2>5. CASE StoreRecovery(w0)
        BY <2>1, <2>5, CapRecovery
    <2>6. CASE NextDay
        BY <2>1, <2>6, CapNextDay
    <2>7. CASE \/ \E d \in Dates, n \in Seconds : BeginCompletion(w0, d, n)
               \/ \E n \in Packs : BeginPurchase(w0, n)
               \/ BeginWelcome(w0)
               \/ \E p \in DOMAIN purchases : BeginRefund(w0, p)
        BY <2>2, <2>3, <2>7 DEF BeginCompletion, BeginPurchase, BeginWelcome,
                                BeginRefund, Load, NoJob
    <2>8. CASE \/ CountBooks(w0) \/ LoadForRecovery(w0) \/ Abandon(w0)
               \/ CompleteBook \/ UncompleteBook \/ UNCHANGED vars
        BY <2>2, <2>3, <2>8 DEF CountBooks, LoadForRecovery, Abandon, NoJob, Jobs,
                                CompleteBook, UncompleteBook, vars
    <2>9. CASE \/ StoreCompletion(w0) \/ StorePurchase(w0) \/ StoreWelcome(w0)
               \/ StoreRefund(w0)
        BY <2>2, <2>3, <2>9 DEF StoreCompletion, StorePurchase, StoreWelcome,
                                StoreRefund, Store, NoJob
    <2>10. QED
        BY <2>4, <2>5, <2>6, <2>7, <2>8, <2>9 DEF Next, Request, Continue
<1>2. CapInv => RecoveryCap
    BY DEF CapInv
<1>3. QED
    BY <1>1, <1>2, CapInit, PTL DEF Spec
================================================================================
