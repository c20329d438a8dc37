----------------------------- MODULE ReadingPolicy -----------------------------
(***************************************************************************)
(* The pure rules behind a completed reading session: how long it counts   *)
(* for, what it does to the streak and to the shields that protect it, and *)
(* which step of the grade ladder the totals reach.  Translated from       *)
(* reading/service.py (the module-level helpers), streak_policy.py and     *)
(* grade_policy.py.  Dates are day numbers from 1; 0 stands for None.      *)
(***************************************************************************)
EXTENDS Integers, Sequences

CONSTANTS
    ShieldInterval,  \* _SHIELD_AWARD_INTERVAL: 7 in the code
    MaxShields,      \* _MAX_STREAK_SHIELDS: 3 in the code
    Ladder           \* TIER_THRESHOLDS: rows [books, seconds], lowest first

ASSUME PolicyAssumption ==
    /\ ShieldInterval \in Nat \ {0}
    /\ MaxShields \in Nat
    /\ Ladder \in Seq([books : Nat, seconds : Nat])
    /\ Len(Ladder) >= 1
    /\ Ladder[1] = [books |-> 0, seconds |-> 0]
    /\ \A i \in 2 .. Len(Ladder) : Ladder[i].books > 0 \/ Ladder[i].seconds > 0

NoDate == 0
MsPerSecond == 1000

Larger(a, b) == IF a >= b THEN a ELSE b
Smaller(a, b) == IF a <= b THEN a ELSE b

\* Seconds credited to a session that spans elapsedMs on the wall clock, of
\* which the client reports pausedMs; int() drops the fraction of a second.
ReconcileDuration(elapsedMs, pausedMs) ==
    Larger(0, Smaller(elapsedMs, elapsedMs - pausedMs)) \div MsPerSecond

--------------------------------------------------------------------------------
(* The grade ladder.  A rank is an index into Ladder and stands for the    *)
(* pair (grade, tier) of that row.                                         *)

Ranks == 1 .. Len(Ladder)

Reaches(books, seconds, i) ==
    books >= Ladder[i].books /\ seconds >= Ladder[i].seconds

\* Fault variant of CalculateGradeTier: a row number counted from one past the
\* row that was found, as when the loop index leaks out of the loop.
CalculateGradeTierPastRow(books, seconds) ==
    1 + CHOOSE i \in Ranks :
            /\ Reaches(books, seconds, i)
            /\ \A j \in Ranks : Reaches(books, seconds, j) => j <= i

\* calculate_grade_tier: the last satisfied row wins.
CalculateGradeTier(books, seconds) ==
    CHOOSE i \in Ranks :
        /\ Reaches(books, seconds, i)
        /\ \A j \in Ranks : Reaches(books, seconds, j) => j <= i

--------------------------------------------------------------------------------
(* Streak and shields.  A streak state has the fields streak, longest, last *)
(* (the streak_last_date) and shields.                                     *)

\* Fault variant of UpdateStreak: a second session on the same day counts again.
UpdateStreakSameDay(s, d) ==
    IF s.last = NoDate
    THEN [streak |-> 1, longest |-> Larger(s.longest, 1), last |-> d]
    ELSE IF d < s.last
    THEN [streak |-> s.streak, longest |-> s.longest, last |-> s.last]
    ELSE IF d <= s.last + 1
    THEN [streak  |-> s.streak + 1,
          longest |-> Larger(s.longest, s.streak + 1),
          last    |-> d]
    ELSE [streak |-> 1, longest |-> s.longest, last |-> d]

\* Fault variant of UpdateStreak: no guard for a backdated session.
UpdateStreakBackdated(s, d) ==
    IF s.last = NoDate
    THEN [streak |-> 1, longest |-> Larger(s.longest, 1), last |-> d]
    ELSE IF d = s.last
    THEN [streak |-> s.streak, longest |-> s.longest, last |-> s.last]
    ELSE IF d = s.last + 1
    THEN [streak  |-> s.streak + 1,
          longest |-> Larger(s.longest, s.streak + 1),
          last    |-> d]
    ELSE [streak |-> 1, longest |-> s.longest, last |-> d]

\* update_streak: the three values it returns, for a session dated d.
UpdateStreak(s, d) ==
    IF s.last = NoDate
    THEN [streak |-> 1, longest |-> Larger(s.longest, 1), last |-> d]
    ELSE IF d <= s.last
    THEN [streak |-> s.streak, longest |-> s.longest, last |-> s.last]
    ELSE IF d = s.last + 1
    THEN [streak  |-> s.streak + 1,
          longest |-> Larger(s.longest, s.streak + 1),
          last    |-> d]
    ELSE [streak |-> 1, longest |-> s.longest, last |-> d]

\* Fault variant of GapReset: the first missed day is not seen as a gap.
GapResetLate(s, d) == s.last # NoDate /\ d > s.last + 2

\* A session that would reset the streak.
GapReset(s, d) == s.last # NoDate /\ d > s.last + 1

AtAward(streak) == streak > 0 /\ streak % ShieldInterval = 0

\* Fault variant of ApplyStreakWithShield: the award has no maximum.
ApplyStreakUncapped(s, d) ==
    IF GapReset(s, d) /\ s.shields > 0
    THEN [streak |-> s.streak, longest |-> s.longest, last |-> d,
          shields |-> s.shields - 1]
    ELSE LET u == UpdateStreak(s, d) IN
         [streak |-> u.streak, longest |-> u.longest, last |-> u.last,
          shields |-> IF AtAward(u.streak) THEN s.shields + 1 ELSE s.shields]

\* _apply_streak_with_shield: a shield absorbs the gap, otherwise the streak
\* moves on and a multiple of the interval earns a shield up to the maximum.
ApplyStreakWithShield(s, d) ==
    IF GapReset(s, d) /\ s.shields > 0
    THEN [streak |-> s.streak, longest |-> s.longest, last |-> d,
          shields |-> s.shields - 1]
    ELSE LET u == UpdateStreak(s, d) IN
         [streak |-> u.streak, longest |-> u.longest, last |-> u.last,
          shields |-> IF AtAward(u.streak)
                      THEN Smaller(MaxShields, s.shields + 1)
                      ELSE s.shields]
================================================================================
