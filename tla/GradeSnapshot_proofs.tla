-------------------------- MODULE GradeSnapshot_proofs --------------------------
(***************************************************************************)
(* Facts about the pure rules of ReadingPolicy and the rows of             *)
(* GradeSnapshot, proved for every ladder, shield interval and shield       *)
(* maximum that PolicyAssumption admits.                                    *)
(***************************************************************************)
EXTENDS GradeSnapshot, SequenceTheorems, WellFoundedInduction, TLAPS

\* The thresholds of a row of the ladder are natural numbers.
LEMMA LadderRow ==
    ASSUME NEW i \in Ranks
    PROVE  Ladder[i].books \in Nat /\ Ladder[i].seconds \in Nat
<1>1. Ladder \in Seq([books : Nat, seconds : Nat]) /\ i \in 1 .. Len(Ladder)
    BY PolicyAssumption DEF Ranks
<1>2. Ladder[i] \in [books : Nat, seconds : Nat]
    BY <1>1, ElementOfSeq
<1>3. QED
    BY <1>2

\* A nonempty set of ranks has a highest element.
LEMMA HighestRank ==
    ASSUME NEW S \in SUBSET Ranks, S # {}
    PROVE  \E i \in S : \A j \in S : j <= i
<1> DEFINE N == Len(Ladder)
           T == {N - i : i \in S}
<1>1. N \in Nat /\ S \subseteq 1 .. N
    BY PolicyAssumption DEF Ranks
<1>2. T \subseteq Nat /\ T # {}
    BY <1>1
<1>3. PICK x \in T : \A y \in T : ~(<<y, x>> \in OpToRel(<, Nat))
    BY <1>2, NatLessThanWellFounded, WFMin
<1>4. ASSUME NEW y \in T PROVE ~(y < x)
    <2>1. <<y, x>> \in OpToRel(<, Nat) <=> y < x
        BY <1>2 DEF OpToRel
    <2>2. QED
        BY <1>3, <2>1
<1>5. PICK i \in S : x = N - i
    OBVIOUS
<1>6. ASSUME NEW j \in S PROVE j <= i
    <2>1. N - j \in T
        OBVIOUS
    <2>2. ~(N - j < x)
        BY <1>4, <2>1
    <2>3. i \in Int /\ j \in Int /\ N \in Int
        BY <1>1
    <2> HIDE DEF N
    <2>4. QED
        BY <1>5, <2>2, <2>3
<1>7. QED
    BY <1>6

\* calculate_grade_tier always finds a row: the highest one both totals reach.
LEMMA GradeTierIsHighest ==
    ASSUME NEW b \in Nat, NEW n \in Nat
    PROVE  LET i == CalculateGradeTier(b, n) IN
           /\ i \in Ranks
           /\ Reaches(b, n, i)
           /\ \A j \in Ranks : Reaches(b, n, j) => j <= i
<1> DEFINE S == {i \in Ranks : Reaches(b, n, i)}
<1>1. 1 \in S
    BY PolicyAssumption DEF Ranks, Reaches
<1>2. \E i \in S : \A j \in S : j <= i
    BY <1>1, HighestRank
<1>3. \E i \in Ranks : /\ Reaches(b, n, i)
                       /\ \A j \in Ranks : Reaches(b, n, j) => j <= i
    BY <1>2
<1>4. QED
    BY <1>3 DEF CalculateGradeTier

\* A user who has read no fewer books and no less time never stands lower on
\* the ladder, whatever the thresholds are: more reading cannot cost a grade.
THEOREM GradeTierMonotone ==
    ASSUME NEW b1 \in Nat, NEW n1 \in Nat, NEW b2 \in Nat, NEW n2 \in Nat,
           b1 <= b2, n1 <= n2
    PROVE  CalculateGradeTier(b1, n1) <= CalculateGradeTier(b2, n2)
<1> DEFINE i == CalculateGradeTier(b1, n1)
<1>1. i \in Ranks /\ Reaches(b1, n1, i)
    BY GradeTierIsHighest
<1> HIDE DEF i
<1>2. Ladder[i].books \in Nat /\ Ladder[i].seconds \in Nat
    BY <1>1, LadderRow
<1>3. Reaches(b2, n2, i)
    BY <1>1, <1>2 DEF Reaches
<1>4. QED
    BY <1>1, <1>3, GradeTierIsHighest DEF i

\* The streak state a session leaves has the types of the user_grades columns.
LEMMA StreakTypes ==
    ASSUME NEW s, NEW d \in Nat,
           s.streak \in Nat, s.longest \in Nat, s.last \in Nat, s.shields \in Nat
    PROVE  LET n == ApplyStreakWithShield(s, d) IN
           /\ n.streak \in Nat
           /\ n.longest \in Nat
           /\ n.last \in Nat
           /\ n.shields \in Nat
<1> DEFINE u == UpdateStreak(s, d)
<1>1. u.streak \in Nat /\ u.longest \in Nat /\ u.last \in Nat
    <2>1. CASE s.last = NoDate
        BY <2>1 DEF UpdateStreak, Larger
    <2>2. CASE s.last # NoDate /\ d <= s.last
        BY <2>2 DEF UpdateStreak
    <2>3. CASE s.last # NoDate /\ ~(d <= s.last) /\ d = s.last + 1
        BY <2>3 DEF UpdateStreak, Larger
    <2>4. CASE s.last # NoDate /\ ~(d <= s.last) /\ d # s.last + 1
        BY <2>4 DEF UpdateStreak
    <2>5. QED
        BY <2>1, <2>2, <2>3, <2>4
<1>2. CASE GapReset(s, d) /\ s.shields > 0
    BY <1>2 DEF ApplyStreakWithShield
<1>3. CASE ~(GapReset(s, d) /\ s.shields > 0)
    <2> HIDE DEF u
    <2>1. Smaller(MaxShields, s.shields + 1) \in Nat
        BY PolicyAssumption DEF Smaller
    <2>2. ApplyStreakWithShield(s, d) =
             [streak |-> u.streak, longest |-> u.longest, last |-> u.last,
              shields |-> IF AtAward(u.streak)
                          THEN Smaller(MaxShields, s.shields + 1)
                          ELSE s.shields]
        BY <1>3 DEF ApplyStreakWithShield, u
    <2>3. QED
        BY <1>1, <2>1, <2>2
<1>4. QED
    BY <1>2, <1>3

\* A session never lifts the shields above the maximum of free shields, except
\* that it keeps what was already there.
LEMMA AwardCapped ==
    ASSUME NEW s, NEW d \in Nat, s.shields \in Nat
    PROVE  LET n == ApplyStreakWithShield(s, d).shields IN
           n <= s.shields \/ n <= MaxShields
<1>1. CASE GapReset(s, d) /\ s.shields > 0
    BY <1>1 DEF ApplyStreakWithShield
<1>2. CASE ~(GapReset(s, d) /\ s.shields > 0)
    <2> DEFINE u == UpdateStreak(s, d)
    <2>1. ApplyStreakWithShield(s, d).shields =
              IF AtAward(u.streak) THEN Smaller(MaxShields, s.shields + 1)
                                   ELSE s.shields
        BY <1>2 DEF ApplyStreakWithShield
    <2> HIDE DEF u
    <2>2. Smaller(MaxShields, s.shields + 1) <= MaxShields
        BY PolicyAssumption DEF Smaller
    <2>3. QED
        BY <2>1, <2>2
<1>3. QED
    BY <1>1, <1>2

--------------------------------------------------------------------------------
(* Rows of user_grades.                                                     *)

\* The row a completion computes has the types of the columns.
LEMMA CompletedRowType ==
    ASSUME NEW row \in GradeRows, NEW n \in Nat, NEW d \in Nat, NEW b \in Nat
    PROVE  CompletedRow(row, n, d, b) \in GradeRows
<1> DEFINE s == ApplyStreakWithShield(row, d)
           k == CalculateGradeTier(b, row.seconds + n)
<1>1. /\ row.seconds \in Nat /\ row.streak \in Nat /\ row.longest \in Nat
      /\ row.last \in Nat /\ row.shields \in Nat
    BY DEF GradeRows
<1>2. s.streak \in Nat /\ s.longest \in Nat /\ s.last \in Nat /\ s.shields \in Nat
    BY <1>1, StreakTypes
<1>3. row.seconds + n \in Nat
    BY <1>1
<1>4. k \in Ranks
    BY <1>3, GradeTierIsHighest
<1> HIDE DEF s, k
<1>5. [exists |-> TRUE, books |-> b, seconds |-> row.seconds + n, rank |-> k,
       streak |-> s.streak, longest |-> s.longest, last |-> s.last,
       shields |-> s.shields] \in GradeRows
    BY <1>2, <1>3, <1>4 DEF GradeRows
<1>6. QED
    BY <1>5 DEF CompletedRow, s, k

\* Merging the changed columns of a row into the committed one keeps the types.
LEMMA MergeType ==
    ASSUME NEW cur \in GradeRows, NEW old \in GradeRows, NEW new \in GradeRows
    PROVE  MergeColumns(cur, old, new) \in GradeRows
BY DEF MergeColumns, Column, GradeRows

LEMMA FreshGradeType == FreshGrade \in GradeRows
BY PolicyAssumption DEF FreshGrade, GradeRows, Ranks, NoDate
================================================================================
