----------------------------- MODULE GradeSnapshot -----------------------------
(***************************************************************************)
(* One row of user_grades, as the services that write it see it: the row   *)
(* get_or_init inserts, the row a completed session computes, and what an  *)
(* ORM flush makes of a row that changed since it was loaded.              *)
(***************************************************************************)
EXTENDS ReadingPolicy

\* exists is FALSE while the user has no row; rank stands for (grade, tier).
FreshGrade == [exists |-> FALSE, books |-> 0, seconds |-> 0, rank |-> 1,
               streak |-> 0, longest |-> 0, last |-> NoDate, shields |-> 0]

GradeRows == [exists : BOOLEAN, books : Nat, seconds : Nat, rank : Ranks,
              streak : Nat, longest : Nat, last : Nat, shields : Nat]

\* Fault variant of CompletedRow: the new total is passed where
\* update_snapshot expects the increment.
CompletedRowTotalAsDelta(row, seconds, date, books) ==
    LET s == ApplyStreakWithShield(row, date) IN
    [exists |-> TRUE, books |-> books,
     seconds |-> row.seconds + (row.seconds + seconds),
     rank |-> CalculateGradeTier(books, row.seconds + seconds),
     streak |-> s.streak, longest |-> s.longest, last |-> s.last,
     shields |-> s.shields]

\* Fault variant of CompletedRow: the grade is looked up before the session
\* is added to the total.
CompletedRowStaleTotal(row, seconds, date, books) ==
    LET s == ApplyStreakWithShield(row, date) IN
    [exists |-> TRUE, books |-> books, seconds |-> row.seconds + seconds,
     rank |-> CalculateGradeTier(books, row.seconds),
     streak |-> s.streak, longest |-> s.longest, last |-> s.last,
     shields |-> s.shields]

\* The user_grades row _apply_session_completion computes from the snapshot.
CompletedRow(row, seconds, date, books) ==
    LET s == ApplyStreakWithShield(row, date) IN
    [exists |-> TRUE, books |-> books, seconds |-> row.seconds + seconds,
     rank |-> CalculateGradeTier(books, row.seconds + seconds),
     streak |-> s.streak, longest |-> s.longest, last |-> s.last,
     shields |-> s.shields]

\* The ORM sends only the columns whose value differs from the loaded one.
Column(committed, loaded, assigned) ==
    IF assigned = loaded THEN committed ELSE assigned

\* Fault variant of MergeColumns: the UPDATE carries the whole row.
MergeWholeRow(cur, old, new) == [new EXCEPT !.exists = TRUE]

\* The row after flushing new over the committed row cur, loaded as old.
MergeColumns(cur, old, new) ==
    [exists  |-> TRUE,
     books   |-> Column(cur.books, old.books, new.books),
     seconds |-> Column(cur.seconds, old.seconds, new.seconds),
     rank    |-> Column(cur.rank, old.rank, new.rank),
     streak  |-> Column(cur.streak, old.streak, new.streak),
     longest |-> Column(cur.longest, old.longest, new.longest),
     last    |-> Column(cur.last, old.last, new.last),
     shields |-> Column(cur.shields, old.shields, new.shields)]
================================================================================
