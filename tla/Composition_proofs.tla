---------------------------- MODULE Composition_proofs ----------------------------
(***************************************************************************)
(* Theorems about the services together: sums, and the statistics that are  *)
(* drawn from them; the types of each service; and that a run of all        *)
(* services is a run of each, so that what each promises holds while the     *)
(* others act.                                                               *)
(***************************************************************************)
EXTENDS Services, Community_proofs, Services_proofs

--------------------------------------------------------------------------------
(***************************************************************************)
(* Sums over finite sets.  Total unfolds to a function on the subsets of its *)
(* set that takes away one element after another; that there is one, that it *)
(* does not matter in what order, and what one element more adds, follow     *)
(* from the least subset that would be an exception.                         *)
(***************************************************************************)

OneOf(s) == CHOOSE x \in s : TRUE

\* The function Total unfolds to.
Sums(f, S, g) ==
    g = [s \in SUBSET S |-> IF s = {} THEN 0 ELSE f[OneOf(s)] + g[s \ {OneOf(s)}]]

\* The same without a word on its domain.
Adds(f, S, g) ==
    \A s \in SUBSET S : g[s] = IF s = {} THEN 0 ELSE f[OneOf(s)] + g[s \ {OneOf(s)}]

LEMMA OneIsIn ==
    ASSUME NEW s, s # {}
    PROVE  OneOf(s) \in s
BY DEF OneOf

LEMMA SumsAdd ==
    ASSUME NEW f, NEW S, NEW g, Sums(f, S, g)
    PROVE  Adds(f, S, g)
BY DEF Sums, Adds

LEMMA TotalUnfolds ==
    ASSUME NEW f, NEW S, \E g : Sums(f, S, g)
    PROVE  \E g : Adds(f, S, g) /\ Total(f, S) = g[S]
<1> DEFINE h == CHOOSE g : Sums(f, S, g)
<1>1. Sums(f, S, h)
  BY Zenon
<1>2. Total(f, S) = h[S]
  BY DEF Total, MapThenSumSet, MapThenFoldSet, Sums, OneOf
<1> QED
  BY <1>1, <1>2, SumsAdd

\* Every member of T is a finite part of S.
FiniteParts(S, T) == \A t \in T : t \subseteq S /\ IsFiniteSet(t)

\* Of sets of finite sets, one member has no other in it.
LEMMA LeastSet ==
    ASSUME NEW S, NEW T, T # {}, FiniteParts(S, T)
    PROVE  \E m \in T : \A t \in T : t \subseteq m => t = m
<1>1. T \subseteq FiniteSubsetsOf(S)
  BY DEF FiniteSubsetsOf, FiniteParts
<1>2. PICK m \in T : \A t \in T : <<t, m>> \notin StrictSubsetOrdering(S)
  BY <1>1, FS_StrictSubsetOrderingWellFounded, WFMin
<1>3. ASSUME NEW t \in T, t \subseteq m
      PROVE  t = m
  <2>1. <<t, m>> \in (SUBSET S) \X (SUBSET S)
    BY DEF FiniteParts
  <2> QED
    BY <1>2, <1>3, <2>1 DEF StrictSubsetOrdering
<1> QED
  BY <1>3

LEMMA SumsAgree ==
    ASSUME NEW f, NEW e, NEW S, NEW T, NEW g, NEW h, Adds(f, S, g), Adds(e, T, h),
           NEW s, s \subseteq S, s \subseteq T, IsFiniteSet(s), \A r \in s : f[r] = e[r]
    PROVE  g[s] = h[s]
<1> DEFINE Bad == {t \in SUBSET s : g[t] # h[t]}
<1>1. ASSUME NEW t \in Bad
      PROVE  t \subseteq s /\ IsFiniteSet(t)
  BY FS_Subset
<1>2. ASSUME Bad # {}
      PROVE  FALSE
  <2>1. PICK m \in Bad : \A t \in Bad : t \subseteq m => t = m
    <3>1. PICK B : B = Bad
      OBVIOUS
    <3>2. B # {} /\ FiniteParts(s, B)
      BY <1>1, <1>2, <3>1 DEF FiniteParts
    <3>3. \E m \in B : \A t \in B : t \subseteq m => t = m
      BY <3>2, LeastSet
    <3> QED
      BY <3>1, <3>3
  <2>2. m \subseteq s /\ m \subseteq S /\ m \subseteq T /\ g[m] # h[m]
    OBVIOUS
  <2>3. CASE m = {}
    BY <2>2, <2>3 DEF Adds
  <2>4. CASE m # {}
    <3>1. PICK x : x = OneOf(m) /\ x \in m
      BY <2>4, OneIsIn
    <3>2. g[m] = f[x] + g[m \ {x}] /\ h[m] = e[x] + h[m \ {x}]
      BY <2>2, <2>4, <3>1 DEF Adds
    <3>3. m \ {x} \notin Bad
      BY <2>1, <3>1
    <3> QED
      BY <2>2, <3>1, <3>2, <3>3
  <2> QED
    BY <2>3, <2>4
<1> QED
  BY <1>2

LEMMA SumsExist ==
    ASSUME NEW f, NEW S, IsFiniteSet(S)
    PROVE  \E g : Sums(f, S, g)
<1> DEFINE Bad == {t \in SUBSET S : ~\E g : Sums(f, t, g)}
<1>1. ASSUME NEW t \in Bad
      PROVE  t \subseteq S /\ IsFiniteSet(t)
  BY FS_Subset
<1>2. ASSUME Bad # {}
      PROVE  FALSE
  <2>1. PICK m \in Bad : \A t \in Bad : t \subseteq m => t = m
    <3>1. PICK B : B = Bad
      OBVIOUS
    <3>2. B # {} /\ FiniteParts(S, B)
      BY <1>1, <1>2, <3>1 DEF FiniteParts
    <3>3. \E m \in B : \A t \in B : t \subseteq m => t = m
      BY <3>2, LeastSet
    <3> QED
      BY <3>1, <3>3
  <2>2. IsFiniteSet(m) /\ m \in SUBSET S
    BY <1>1
  <2> DEFINE G(s) == CHOOSE g : Sums(f, s, g)
             top == IF m = {} THEN 0 ELSE f[OneOf(m)] + G(m \ {OneOf(m)})[m \ {OneOf(m)}]
             h == [s \in SUBSET m |-> IF s = m THEN top ELSE G(s)[s]]
  <2>3. ASSUME NEW s \in SUBSET m, s # m
        PROVE  Sums(f, s, G(s)) /\ Adds(f, s, G(s)) /\ IsFiniteSet(s)
    <3>1. s \notin Bad /\ s \in SUBSET S
      BY <2>1, <2>2, <2>3
    <3>2. \E g : Sums(f, s, g)
      BY <3>1
    <3>3. Sums(f, s, G(s))
      BY <3>2, Zenon
    <3> QED
      BY <2>2, <3>3, SumsAdd, FS_Subset
  <2> HIDE DEF G
  <2>4. ASSUME NEW s \in SUBSET m
        PROVE  h[s] = IF s = {} THEN 0 ELSE f[OneOf(s)] + h[s \ {OneOf(s)}]
    <3>1. CASE s = m /\ m = {}
      BY <3>1
    <3>2. CASE s = m /\ m # {}
      <4>1. OneOf(m) \in m
        BY <3>2, OneIsIn
      <4>2. h[m \ {OneOf(m)}] = G(m \ {OneOf(m)})[m \ {OneOf(m)}]
        BY <4>1
      <4> QED
        BY <3>2, <4>2
    <3>3. CASE s # m /\ s = {}
      BY <2>3, <3>3 DEF Adds
    <3>4. CASE s # m /\ s # {}
      <4>1. PICK x : x = OneOf(s) /\ x \in s
        BY <3>4, OneIsIn
      <4>6. PICK t : t = s \ {x}
        OBVIOUS
      <4>2. t = s \ {x} /\ t \in SUBSET m /\ t # m /\ t \subseteq s
        BY <4>1, <4>6
      <4>3. G(s)[t] = G(t)[t]
        BY <2>3, <3>4, <4>2, SumsAgree
      <4>4. G(s)[s] = f[x] + G(s)[t]
        BY <2>3, <3>4, <4>1, <4>2 DEF Adds
      <4>5. h[s] = G(s)[s] /\ h[t] = G(t)[t]
        BY <3>4, <4>2
      <4> QED
        BY <3>4, <4>1, <4>2, <4>3, <4>4, <4>5
    <3> QED
      BY <3>1, <3>2, <3>3, <3>4
  <2>5. h = [s \in SUBSET m |-> h[s]]
    OBVIOUS
  <2> HIDE DEF h
  <2>6. Sums(f, m, h)
    BY <2>4, <2>5 DEF Sums
  <2> QED
    BY <2>6
<1>3. S \notin Bad
  BY <1>2
<1> QED
  BY <1>3

LEMMA SumsTyped ==
    ASSUME NEW f, NEW S, NEW g, Adds(f, S, g), IsFiniteSet(S), \A r \in S : f[r] \in Nat,
           NEW s, s \subseteq S
    PROVE  g[s] \in Nat
<1> DEFINE Bad == {t \in SUBSET S : g[t] \notin Nat}
<1>1. ASSUME NEW t \in Bad
      PROVE  t \subseteq S /\ IsFiniteSet(t)
  BY FS_Subset
<1>2. ASSUME Bad # {}
      PROVE  FALSE
  <2>1. PICK m \in Bad : \A t \in Bad : t \subseteq m => t = m
    <3>1. PICK B : B = Bad
      OBVIOUS
    <3>2. B # {} /\ FiniteParts(S, B)
      BY <1>1, <1>2, <3>1 DEF FiniteParts
    <3>3. \E m \in B : \A t \in B : t \subseteq m => t = m
      BY <3>2, LeastSet
    <3> QED
      BY <3>1, <3>3
  <2>2. m \subseteq S /\ g[m] \notin Nat
    OBVIOUS
  <2>3. m # {}
    <3>1. {} \in SUBSET S
      OBVIOUS
    <3>2. g[{}] = 0
      BY <3>1 DEF Adds
    <3> QED
      BY <2>2, <3>2
  <2>4. PICK x : x = OneOf(m) /\ x \in m
    BY <2>3, OneIsIn
  <2>5. g[m] = f[x] + g[m \ {x}] /\ f[x] \in Nat
    BY <2>2, <2>3, <2>4 DEF Adds
  <2>6. g[m \ {x}] \in Nat
    BY <2>1, <2>2, <2>4
  <2> QED
    BY <2>2, <2>5, <2>6
<1> QED
  BY <1>2

\* Whichever element is taken away first.
LEMMA SumsTakeAway ==
    ASSUME NEW f, NEW S, NEW g, Adds(f, S, g), IsFiniteSet(S), \A r \in S : f[r] \in Nat,
           NEW s, s \subseteq S, NEW y \in s
    PROVE  g[s] = f[y] + g[s \ {y}]
<1> DEFINE Bad == {t \in SUBSET S : \E x \in t : g[t] # f[x] + g[t \ {x}]}
<1>1. ASSUME NEW t \in Bad
      PROVE  t \subseteq S /\ IsFiniteSet(t)
  BY FS_Subset
<1>2. ASSUME Bad # {}
      PROVE  FALSE
  <2>1. PICK m \in Bad : \A t \in Bad : t \subseteq m => t = m
    <3>1. PICK B : B = Bad
      OBVIOUS
    <3>2. B # {} /\ FiniteParts(S, B)
      BY <1>1, <1>2, <3>1 DEF FiniteParts
    <3>3. \E m \in B : \A t \in B : t \subseteq m => t = m
      BY <3>2, LeastSet
    <3> QED
      BY <3>1, <3>3
  <2>2. PICK x \in m : g[m] # f[x] + g[m \ {x}]
    BY <2>1
  <2>3. m \subseteq S /\ m # {}
    BY <2>1, <2>2
  <2>4. PICK z : z = OneOf(m) /\ z \in m
    BY <2>3, OneIsIn
  <2>5. g[m] = f[z] + g[m \ {z}]
    BY <2>3, <2>4 DEF Adds
  <2>6. x # z
    BY <2>2, <2>5
  <2>7. PICK a, b, c : a = m \ {x} /\ b = m \ {z} /\ c = m \ {x, z}
    OBVIOUS
  <2>8. /\ a \in SUBSET S /\ b \in SUBSET S /\ c \in SUBSET S /\ a # m /\ b # m /\ a \subseteq m /\ b \subseteq m
        /\ z \in a /\ x \in b /\ a \ {z} = c /\ b \ {x} = c
    BY <2>2, <2>3, <2>4, <2>6, <2>7
  <2>9. g[a] = f[z] + g[c] /\ g[b] = f[x] + g[c]
    <3>1. a \notin Bad /\ b \notin Bad
      BY <2>1, <2>8
    <3> QED
      BY <2>8, <3>1
  <2>0. f[x] \in Nat /\ f[z] \in Nat /\ g[c] \in Nat
    BY <2>2, <2>3, <2>4, <2>8, SumsTyped
  <2> QED
    BY <2>2, <2>5, <2>7, <2>9, <2>0
<1> QED
  BY <1>2

LEMMA TotalOfNone ==
    ASSUME NEW f
    PROVE  Total(f, {}) = 0
BY SumsExist, TotalUnfolds, FS_EmptySet DEF Adds

LEMMA TotalTyped ==
    ASSUME NEW f, NEW S, IsFiniteSet(S), \A r \in S : f[r] \in Nat
    PROVE  Total(f, S) \in Nat
<1>1. PICK g : Adds(f, S, g) /\ Total(f, S) = g[S]
  BY SumsExist, TotalUnfolds
<1> QED
  BY <1>1, SumsTyped

LEMMA TotalSame ==
    ASSUME NEW f, NEW e, NEW S, IsFiniteSet(S), \A r \in S : f[r] = e[r]
    PROVE  Total(f, S) = Total(e, S)
<1>1. PICK g : Adds(f, S, g) /\ Total(f, S) = g[S]
  BY SumsExist, TotalUnfolds
<1>2. PICK h : Adds(e, S, h) /\ Total(e, S) = h[S]
  BY SumsExist, TotalUnfolds
<1> QED
  BY <1>1, <1>2, SumsAgree

\* One element more adds its value.
LEMMA TotalGrows ==
    ASSUME NEW f, NEW S, IsFiniteSet(S), NEW y, y \notin S, \A r \in S \cup {y} : f[r] \in Nat
    PROVE  Total(f, S \cup {y}) = Total(f, S) + f[y]
<1>1. PICK T : T = S \cup {y} /\ IsFiniteSet(T)
  BY FS_AddElement
<1>2. PICK g : Adds(f, T, g) /\ Total(f, T) = g[T]
  BY <1>1, SumsExist, TotalUnfolds
<1>3. PICK h : Adds(f, S, h) /\ Total(f, S) = h[S]
  BY SumsExist, TotalUnfolds
<1>4. g[S] = h[S]
  BY <1>1, <1>2, <1>3, SumsAgree
<1>5. T \ {y} = S /\ y \in T
  BY <1>1
<1>6. g[T] = f[y] + g[S]
  BY <1>1, <1>2, <1>5, SumsTakeAway
<1>7. g[S] \in Nat /\ f[y] \in Nat
  BY <1>1, <1>2, SumsTyped
<1> QED
  BY <1>1, <1>2, <1>3, <1>4, <1>6, <1>7

\* A part of a set has no more, and as much when the rest has nothing.
LEMMA PartHasLess ==
    ASSUME NEW f, NEW S, IsFiniteSet(S), \A r \in S : f[r] \in Nat, NEW T, T \subseteq S
    PROVE  /\ Total(f, T) <= Total(f, S)
           /\ (\A r \in S \ T : f[r] = 0) => Total(f, T) = Total(f, S)
<1>1. IsFiniteSet(T)
  BY FS_Subset
<1>2. PICK g : Adds(f, S, g) /\ Total(f, S) = g[S]
  BY SumsExist, TotalUnfolds
<1>3. PICK h : Adds(f, T, h) /\ Total(f, T) = h[T]
  BY <1>1, SumsExist, TotalUnfolds
<1>4. g[T] = h[T]
  BY <1>1, <1>2, <1>3, SumsAgree
<1> DEFINE Right(s) == /\ g[T] <= g[s]
                       /\ (\A r \in S \ T : f[r] = 0) => g[T] = g[s]
           Bad == {s \in SUBSET S : T \subseteq s /\ ~Right(s)}
<1>5. ASSUME NEW s \in Bad
      PROVE  s \subseteq S /\ IsFiniteSet(s)
  BY FS_Subset
<1>6. ASSUME Bad # {}
      PROVE  FALSE
  <2>1. PICK m \in Bad : \A s \in Bad : s \subseteq m => s = m
    <3>1. PICK B : B = Bad
      OBVIOUS
    <3>2. B # {} /\ FiniteParts(S, B)
      BY <1>5, <1>6, <3>1 DEF FiniteParts
    <3>3. \E m \in B : \A t \in B : t \subseteq m => t = m
      BY <3>2, LeastSet
    <3> QED
      BY <3>1, <3>3
  <2>2. m \subseteq S /\ T \subseteq m /\ ~Right(m)
    BY <2>1
  <2>3. g[T] \in Nat
    BY <1>2, SumsTyped
  <2>4. PICK y : y \in m \ T
    <3>1. Right(T)
      BY <2>3
    <3>2. m # T
      <4> HIDE DEF Right
      <4> QED
        BY <2>2, <3>1
    <3> QED
      BY <2>2, <3>2
  <2>0. PICK k : k = m \ {y}
    OBVIOUS
  <2>5. k = m \ {y} /\ k \subseteq S /\ T \subseteq k /\ k \subseteq m /\ k # m
    BY <2>2, <2>4, <2>0
  <2>6. g[m] = f[y] + g[k] /\ f[y] \in Nat /\ g[k] \in Nat
    <3>1. g[m] = f[y] + g[m \ {y}]
      BY <1>2, <2>2, <2>4, SumsTakeAway
    <3>2. g[k] \in Nat
      BY <1>2, <2>5, SumsTyped
    <3> QED
      BY <2>2, <2>4, <2>5, <3>1, <3>2
  <2>7. Right(k)
    BY <2>1, <2>5
  <2>8. g[T] <= g[m]
    BY <2>3, <2>6, <2>7
  <2>9. (\A r \in S \ T : f[r] = 0) => g[T] = g[m]
    <3>1. y \in S \ T
      BY <2>2, <2>4
    <3> QED
      BY <2>3, <2>6, <2>7, <3>1
  <2> QED
    BY <2>2, <2>8, <2>9
<1> QED
  BY <1>2, <1>3, <1>4, <1>6

\* One summand changes.
MovesBy(f, e, S, y, n) ==
    /\ y \in S /\ n \in Nat /\ \A r \in S : f[r] \in Nat
    /\ e[y] = f[y] + n /\ \A r \in S \ {y} : e[r] = f[r]

LEMMA TotalMoves ==
    ASSUME NEW f, NEW e, NEW S, IsFiniteSet(S), NEW y, NEW n, MovesBy(f, e, S, y, n)
    PROVE  Total(e, S) = Total(f, S) + n
<1>0. /\ y \in S /\ n \in Nat /\ \A r \in S : f[r] \in Nat
      /\ e[y] = f[y] + n /\ \A r \in S \ {y} : e[r] = f[r]
  BY DEF MovesBy
<1>1. PICK T : T = S \ {y}
  OBVIOUS
<1>2. IsFiniteSet(T) /\ y \notin T /\ S = T \cup {y}
  BY <1>0, <1>1, FS_RemoveElement
<1>3. \A r \in T \cup {y} : e[r] \in Nat /\ f[r] \in Nat
  BY <1>0, <1>1, <1>2
<1>4. Total(e, S) = Total(e, T) + e[y] /\ Total(f, S) = Total(f, T) + f[y]
  BY <1>2, <1>3, TotalGrows
<1>5. Total(e, T) = Total(f, T)
  <2>1. \A r \in T : e[r] = f[r]
    BY <1>0, <1>1
  <2> QED
    BY <1>2, <2>1, TotalSame
<1>6. Total(f, T) \in Nat
  BY <1>2, <1>3, TotalTyped
<1> QED
  BY <1>0, <1>2, <1>3, <1>4, <1>5, <1>6

--------------------------------------------------------------------------------
(***************************************************************************)
(* The statistics of a reader, for any calendar, number of books, sessions   *)
(* and screens, and any thresholds.  What the records agree on is a sum over *)
(* the days of a window, whichever it is; the run of days that ends with the *)
(* snapshot's last day is what the streak counts, whether or not the session *)
(* of that day is still there; and the seconds of the days are the           *)
(* snapshot's.  An answer that is kept was right, and the records only grow. *)
(***************************************************************************)

StatsVars == <<now, stats>>

StatsSpec ==
    /\ ClockInit /\ StatsInit
    /\ [][StatsNext \/ (Tick /\ UNCHANGED stats)]_StatsVars

LogShaped(x) ==
    /\ x = [source |-> x.source, book |-> x.book, from |-> x.from, to |-> x.to, secs |-> x.secs,
            inOrder |-> x.inOrder]
    /\ x.source \in {"timer", "manual"} /\ x.book \in Titles /\ x.to \in Times
    /\ x.secs \in Nat /\ x.inOrder \in BOOLEAN

\* A session that runs.
RunShaped(x) ==
    x = [source |-> "running", book |-> x.book, from |-> x.from] /\ x.book \in Titles

EndedOf(lg) == {l \in Logs : lg[l].source \in {"timer", "manual"}}
EndedDuring(lg, w) == {l \in EndedOf(lg) : lg[l].to \in w}

\* The seconds of the sessions of a set.
SecsOf(lg, S) == Total([l \in S |-> lg[l].secs], S)

\* The days of the sessions that came in order.
OrderedDays(lg) == {lg[l].to : l \in {x \in EndedOf(lg) : lg[x].inOrder}}

LogsFit(lg) ==
    /\ lg = [l \in Logs |-> lg[l]]
    /\ \A l \in Logs : lg[l] = NoLog \/ RunShaped(lg[l]) \/ LogShaped(lg[l])
    /\ IsFiniteSet(EndedOf(lg))

TotalsTyped ==
    /\ now \in Times /\ heat \in [Times -> Nat]
    /\ past.rowOnly \in [Times -> Nat] /\ past.heatOnly \in [Times -> Nat]
    /\ past.removed \in BOOLEAN /\ past.twice \in BOOLEAN /\ past.overlapped \in BOOLEAN
    /\ past = [finished |-> past.finished, removed |-> past.removed, rowOnly |-> past.rowOnly,
               heatOnly |-> past.heatOnly, twice |-> past.twice, overlapped |-> past.overlapped]

GradeTyped(g) ==
    /\ g = [f \in {"streak", "longest", "last", "shields", "seconds"} |-> g[f]]
    /\ g.streak \in Nat /\ g.longest \in Nat /\ g.last \in Nat /\ g.seconds \in Nat

\* The seconds of the days of a window, of the heatmap and of rows it does not have.
Known(h, b, w) == Total(h, w) + Total(b, w)

\* The sessions of a set, and what the heatmap alone has of the days of a window.
Told(lg, e, w) == SecsOf(lg, EndedDuring(lg, w)) + Total(e, w)

SecondsKnown ==
    \A w \in SUBSET Times :
        /\ Told(logged, past.heatOnly, w) <= Known(heat, past.rowOnly, w)
        /\ ~past.removed /\ ~past.twice =>
              Told(logged, past.heatOnly, w) = Known(heat, past.rowOnly, w)

AllCounted ==
    /\ grade.seconds <= Total(heat, Times)
    /\ ~past.overlapped => grade.seconds = Total(heat, Times)

\* The snapshot counts days from 1, and a day once, though its sessions go.
RunsCounted(g, days) ==
    /\ \A d \in days : d \in Times /\ d + 1 <= g.last
    /\ g.streak <= g.longest /\ (g.last # 0 => g.streak >= 1)
    /\ \A d \in Times : (d < g.last /\ d .. (g.last - 2) \subseteq days) => g.last - d <= g.streak
    /\ \A d, e \in Times : (d <= e /\ d .. e \subseteq days) => e - d + 1 <= g.longest

RunsRight == past.overlapped \/ RunsCounted(grade, OrderedDays(logged))

\* What a request that ends a session has read and written.
EndFits(e) ==
    /\ e.op # "idle" => e.log \in Logs
    /\ e.op = "updated" =>
          /\ e.to \in Times /\ e.day \in Times /\ e.secs \in Nat
          /\ GradeTyped(e.read)

EndingFits ==
    /\ ending = [r \in EndCalls |-> ending[r]]
    /\ \A r \in EndCalls :
          /\ EndFits(ending[r])
          /\ ending[r].op # "idle" => logged[ending[r].log].source # "manual"
          /\ ending[r].op = "updated" =>
                logged[ending[r].log] # NoLog /\ ending[r].read.seconds <= Total(heat, Times)

AnswerRight(s, a, h, b, longest, lost) ==
    /\ s[1] = "recap" => /\ s[2] \subseteq Times
                         /\ a.seconds \in Nat /\ a.seconds <= Known(h, b, s[2])
                         /\ a.longest \in Nat /\ (lost \/ a.longest <= longest)
    /\ s[1] = "stats" => \A w \in DOMAIN a.months :
                            w \subseteq Times /\ a.months[w] \in Nat /\ a.months[w] <= Total(h, w)

ScreensRight ==
    /\ screen = [s \in Screens |-> screen[s]] /\ screenCall = [r \in ScreenCalls |-> screenCall[r]]
    /\ \A s \in Screens : screen[s].until \in Int
    /\ \A s \in Screens : screen[s].until > now =>
          AnswerRight(s, screen[s].answer, heat, past.rowOnly, grade.longest, past.overlapped)
    /\ \A r \in ScreenCalls : screenCall[r].op = "open" =>
          /\ screenCall[r].of \in Screens
          /\ AnswerRight(screenCall[r].of, screenCall[r].answer, heat, past.rowOnly, grade.longest, past.overlapped)

\* No book is finished, as far as the table says; sessions and bookmarks are of
\* books that are kept.
ShelfRight ==
    /\ held = [b \in Titles |-> held[b]]
    /\ \A b \in Titles :
          /\ held[b] = [status |-> held[b].status, started |-> held[b].started, finished |-> Never]
          /\ held[b].status \in {"none", "reading", "completed"}
    /\ \A l \in Logs : logged[l] # NoLog => held[logged[l].book] # NotHeld
    /\ mark = [m \in Bookmarks |-> mark[m]]
    /\ \A m \in Bookmarks : mark[m] # NoMark => mark[m].book \in Titles /\ held[mark[m].book] # NotHeld

GoalsTyped ==
    /\ goal = [g \in Goals |-> goal[g]]
    /\ \A g \in Goals : goal[g] # NoGoal =>
          goal[g].books \in Nat /\ goal[g].seconds \in Nat /\ goal[g].window \subseteq Times

RecordsRight ==
    /\ LogsFit(logged) /\ TotalsTyped /\ GradeTyped(grade)
    /\ SecondsKnown /\ AllCounted /\ RunsRight

StatsInv == RecordsRight /\ EndingFits /\ ScreensRight /\ ShelfRight /\ GoalsTyped

--------------------------------------------------------------------------------
(* Sums over days and sessions                                             *)

LEMMA SecsAdded ==
    ASSUME NEW lg, NEW S, IsFiniteSet(S), NEW y, y \notin S, \A l \in S \cup {y} : lg[l].secs \in Nat
    PROVE  SecsOf(lg, S \cup {y}) = SecsOf(lg, S) + lg[y].secs
<1>1. PICK T : T = S \cup {y}
  OBVIOUS
<1>2. PICK f, e : f = [l \in T |-> lg[l].secs] /\ e = [l \in S |-> lg[l].secs]
  OBVIOUS
<1>3. Total(f, T) = Total(f, S) + f[y]
  <2>1. \A l \in S \cup {y} : f[l] \in Nat
    BY <1>1, <1>2
  <2> QED
    BY <1>1, <2>1, TotalGrows
<1>4. Total(f, S) = Total(e, S)
  <2>1. \A l \in S : f[l] = e[l]
    BY <1>1, <1>2
  <2> QED
    BY <2>1, TotalSame
<1> QED
  BY <1>1, <1>2, <1>3, <1>4 DEF SecsOf

LEMMA SecsLess ==
    ASSUME NEW lg, NEW lh, NEW S, IsFiniteSet(S), NEW T, T \subseteq S,
           \A l \in S : lg[l].secs \in Nat, \A l \in T : lh[l].secs = lg[l].secs
    PROVE  /\ SecsOf(lh, T) <= SecsOf(lg, S) /\ SecsOf(lg, S) \in Nat
           /\ T = S => SecsOf(lh, T) = SecsOf(lg, S)
<1>1. PICK f, e : f = [l \in S |-> lg[l].secs] /\ e = [l \in T |-> lh[l].secs]
  OBVIOUS
<1>2. \A l \in S : f[l] \in Nat
  BY <1>1
<1>3. Total(f, T) <= Total(f, S)
  BY <1>2, PartHasLess
<1>4. Total(e, T) = Total(f, T)
  <2>1. IsFiniteSet(T) /\ \A l \in T : e[l] = f[l]
    BY <1>1, FS_Subset
  <2> QED
    BY <2>1, TotalSame
<1>5. Total(f, S) \in Nat
  BY <1>2, TotalTyped
<1> QED
  BY <1>1, <1>3, <1>4, <1>5 DEF SecsOf

LEMMA DaysFinite ==
    ASSUME NEW w, w \subseteq Times
    PROVE  IsFiniteSet(w)
<1>1. IsFiniteSet(0 .. LastTime)
  BY ClockAssumption, FS_Interval
<1> QED
  BY <1>1, FS_Subset DEF Times

LEMMA DaysTotal ==
    ASSUME NEW f \in [Times -> Nat], NEW w, w \subseteq Times
    PROVE  Total(f, w) \in Nat
BY DaysFinite, TotalTyped

\* A day has n more.
DayMore(f, d, n, e) ==
    /\ f \in [Times -> Nat] /\ d \in Times /\ n \in Nat
    /\ e = [f EXCEPT ![d] = f[d] + n]

LEMMA DayAdds ==
    ASSUME NEW f, NEW d, NEW n, NEW e, DayMore(f, d, n, e), NEW w, w \subseteq Times
    PROVE  /\ e \in [Times -> Nat]
           /\ Total(e, w) = Total(f, w) + (IF d \in w THEN n ELSE 0)
           /\ Total(f, w) <= Total(e, w)
<1>0. f \in [Times -> Nat] /\ d \in Times /\ n \in Nat
  BY DEF DayMore
<1>1. IsFiniteSet(w) /\ Total(f, w) \in Nat
  BY <1>0, DaysFinite, DaysTotal
<1>2. e \in [Times -> Nat] /\ \A r \in w : f[r] \in Nat /\ e[r] = IF r = d THEN f[r] + n ELSE f[r]
  BY DEF DayMore
<1>3. CASE d \in w
  <2>1. Total(e, w) = Total(f, w) + n
    <3>1. \A r \in w : f[r] \in Nat
      BY <1>2
    <3>2. e[d] = f[d] + n /\ \A r \in w \ {d} : e[r] = f[r]
      BY <1>2, <1>3
    <3>3. MovesBy(f, e, w, d, n)
      BY <1>0, <1>3, <3>1, <3>2 DEF MovesBy
    <3> QED
      BY <1>1, <3>3, TotalMoves
  <2> QED
    BY <1>0, <1>1, <1>2, <1>3, <2>1
<1>4. CASE d \notin w
  <2>1. \A r \in w : f[r] = e[r]
    BY <1>2, <1>4
  <2>2. Total(e, w) = Total(f, w)
    BY <1>1, <2>1, TotalSame
  <2> QED
    BY <1>0, <1>1, <1>2, <1>4, <2>2
<1> QED
  BY <1>3, <1>4

LEMMA LogsAre ==
    ASSUME NEW lg, LogsFit(lg), NEW w
    PROVE  /\ SecsOf(lg, EndedDuring(lg, w)) \in Nat /\ IsFiniteSet(EndedDuring(lg, w))
           /\ \A l \in EndedOf(lg) : l \in Logs /\ LogShaped(lg[l]) /\ lg[l].secs \in Nat
<1>1. \A l \in EndedOf(lg) : l \in Logs /\ LogShaped(lg[l]) /\ lg[l].secs \in Nat
  BY DEF LogsFit, EndedOf, LogShaped, RunShaped, NoLog
<1>2. IsFiniteSet(EndedDuring(lg, w)) /\ EndedDuring(lg, w) \subseteq EndedOf(lg)
  BY FS_Subset DEF LogsFit, EndedDuring
<1>3. SecsOf(lg, EndedDuring(lg, w)) \in Nat
  BY <1>1, <1>2, SecsLess
<1> QED
  BY <1>1, <1>2, <1>3

\* A session more.
LogMore(lg, l, x, lh) ==
    /\ LogsFit(lg) /\ l \in Logs /\ lg[l] = NoLog /\ LogShaped(x)
    /\ lh = [k \in Logs |-> lh[k]] /\ lh[l] = x /\ \A k \in Logs \ {l} : lh[k] = lg[k]

LEMMA LogEntered ==
    ASSUME NEW lg, NEW l, NEW x, NEW lh, LogMore(lg, l, x, lh)
    PROVE  /\ LogsFit(lh) /\ EndedOf(lh) = EndedOf(lg) \cup {l}
           /\ \A w : SecsOf(lh, EndedDuring(lh, w))
                     = SecsOf(lg, EndedDuring(lg, w)) + (IF x.to \in w THEN x.secs ELSE 0)
           /\ OrderedDays(lh) = OrderedDays(lg) \cup (IF x.inOrder THEN {x.to} ELSE {})
<1>0. LogsFit(lg) /\ l \in Logs /\ lg[l] = NoLog /\ LogShaped(x)
  BY DEF LogMore
<1>1. lh = [k \in Logs |-> lh[k]] /\ lh[l] = x /\ \A k \in Logs \ {l} : lh[k] = lg[k]
  BY DEF LogMore
<1>2. EndedOf(lh) = EndedOf(lg) \cup {l} /\ l \notin EndedOf(lg)
  BY <1>0, <1>1 DEF EndedOf, LogShaped, NoLog
<1>3. IsFiniteSet(EndedOf(lh))
  BY <1>0, <1>2, FS_AddElement DEF LogsFit
<1>4. LogsFit(lh)
  BY <1>0, <1>1, <1>3 DEF LogsFit
<1>5. ASSUME NEW w
      PROVE  SecsOf(lh, EndedDuring(lh, w))
               = SecsOf(lg, EndedDuring(lg, w)) + (IF x.to \in w THEN x.secs ELSE 0)
  <2>1. PICK S, T : S = EndedDuring(lg, w) /\ T = EndedDuring(lh, w)
    OBVIOUS
  <2>2. IsFiniteSet(S) /\ SecsOf(lg, S) \in Nat /\ l \notin S
    BY <1>0, <1>2, <2>1, LogsAre DEF EndedDuring
  <2>3. \A k \in S : lh[k].secs = lg[k].secs /\ lg[k].secs \in Nat
    BY <1>0, <1>1, <1>2, <2>1, LogsAre DEF EndedDuring, EndedOf
  <2>4. SecsOf(lh, S) = SecsOf(lg, S)
    BY <1>0, <2>2, <2>3, SecsLess
  <2>5. CASE x.to \in w
    <3>1. T = S \cup {l}
      BY <1>0, <1>1, <1>2, <2>1, <2>5 DEF EndedDuring, EndedOf
    <3>2. \A k \in S \cup {l} : lh[k].secs \in Nat
      BY <1>0, <1>1, <2>3 DEF LogShaped
    <3>3. SecsOf(lh, S \cup {l}) = SecsOf(lh, S) + lh[l].secs
      BY <1>0, <2>2, <3>2, SecsAdded
    <3> QED
      BY <1>0, <1>1, <2>1, <2>4, <2>5, <3>1, <3>3
  <2>6. CASE x.to \notin w
    <3>1. T = S
      BY <1>0, <1>1, <1>2, <2>1, <2>6 DEF EndedDuring, EndedOf
    <3> QED
      BY <1>0, <2>1, <2>2, <2>4, <2>6, <3>1
  <2> QED
    BY <1>0, <2>5, <2>6
<1>6. OrderedDays(lh) = OrderedDays(lg) \cup (IF x.inOrder THEN {x.to} ELSE {})
  <2>1. \A k \in EndedOf(lg) : lh[k] = lg[k]
    BY <1>0, <1>1, <1>2 DEF EndedOf
  <2> DEFINE Had == {k \in EndedOf(lg) : lg[k].inOrder}
             Have == {k \in EndedOf(lh) : lh[k].inOrder}
  <2>2. CASE x.inOrder
    <3>1. Have = Had \cup {l} /\ \A k \in Had : lh[k].to = lg[k].to
      BY <1>0, <1>1, <1>2, <2>1, <2>2
    <3> QED
      BY <1>0, <1>1, <2>2, <3>1 DEF OrderedDays
  <2>3. CASE ~x.inOrder
    <3>1. Have = Had /\ \A k \in Had : lh[k].to = lg[k].to
      BY <1>0, <1>1, <1>2, <2>1, <2>3
    <3> QED
      BY <1>0, <2>3, <3>1 DEF OrderedDays
  <2> QED
    BY <1>0, <2>2, <2>3
<1> QED
  BY <1>0, <1>2, <1>4, <1>5, <1>6

\* Sessions that are taken away.
LEMMA LogsLeave ==
    ASSUME NEW lg, LogsFit(lg), NEW lh, lh = [l \in Logs |-> lh[l]],
           \A l \in Logs : lh[l] = NoLog \/ lh[l] = lg[l]
    PROVE  /\ LogsFit(lh) /\ EndedOf(lh) \subseteq EndedOf(lg)
           /\ \A w : /\ SecsOf(lh, EndedDuring(lh, w)) <= SecsOf(lg, EndedDuring(lg, w))
                     /\ EndedOf(lh) = EndedOf(lg) =>
                           SecsOf(lh, EndedDuring(lh, w)) = SecsOf(lg, EndedDuring(lg, w))
           /\ OrderedDays(lh) \subseteq OrderedDays(lg)
<1>1. EndedOf(lh) \subseteq EndedOf(lg) /\ \A l \in EndedOf(lh) : lh[l] = lg[l]
  BY DEF EndedOf, NoLog
<1>2. IsFiniteSet(EndedOf(lh))
  BY <1>1, FS_Subset DEF LogsFit
<1>3. LogsFit(lh)
  BY <1>2 DEF LogsFit
<1>4. ASSUME NEW w
      PROVE  /\ SecsOf(lh, EndedDuring(lh, w)) <= SecsOf(lg, EndedDuring(lg, w))
             /\ EndedOf(lh) = EndedOf(lg) =>
                   SecsOf(lh, EndedDuring(lh, w)) = SecsOf(lg, EndedDuring(lg, w))
  <2>1. PICK S, T : S = EndedDuring(lg, w) /\ T = EndedDuring(lh, w)
    OBVIOUS
  <2>2. IsFiniteSet(S) /\ T \subseteq S /\ (EndedOf(lh) = EndedOf(lg) => T = S)
    BY <1>1, <2>1, LogsAre DEF EndedDuring
  <2>3. (\A k \in S : lg[k].secs \in Nat) /\ \A k \in T : lh[k].secs = lg[k].secs
    BY <1>1, <2>1, LogsAre DEF EndedDuring
  <2>4. SecsOf(lh, T) <= SecsOf(lg, S) /\ (T = S => SecsOf(lh, T) = SecsOf(lg, S))
    BY <2>2, <2>3, SecsLess
  <2> QED
    BY <2>1, <2>2, <2>4
<1>5. OrderedDays(lh) \subseteq OrderedDays(lg)
  BY <1>1 DEF OrderedDays
<1> QED
  BY <1>1, <1>3, <1>4, <1>5

\* The row of a session is set.
LogSet(lg, l, x, lh) == LogsFit(lg) /\ l \in Logs /\ lh = [lg EXCEPT ![l] = x]

\* A session that begins is not one that has ended.
LEMMA LogBegins ==
    ASSUME NEW lg, NEW l, NEW x, NEW lh, LogSet(lg, l, x, lh), lg[l] = NoLog, RunShaped(x)
    PROVE  /\ LogsFit(lh) /\ OrderedDays(lh) = OrderedDays(lg)
           /\ \A w : SecsOf(lh, EndedDuring(lh, w)) = SecsOf(lg, EndedDuring(lg, w))
<1>0. LogsFit(lg) /\ l \in Logs
  BY DEF LogSet
<1>1. lh = [k \in Logs |-> lh[k]] /\ lh[l] = x /\ \A k \in Logs : k # l => lh[k] = lg[k]
  BY DEF LogsFit, LogSet
<1>2. x.source = "running" /\ lg[l].source = "none"
  BY DEF RunShaped, NoLog
<1>3. EndedOf(lh) = EndedOf(lg) /\ \A k \in EndedOf(lg) : lh[k] = lg[k]
  BY <1>0, <1>1, <1>2 DEF EndedOf
<1>4. LogsFit(lh)
  BY <1>0, <1>1, <1>3 DEF LogsFit
<1>5. OrderedDays(lh) = OrderedDays(lg)
  BY <1>3 DEF OrderedDays
<1>6. ASSUME NEW w
      PROVE  SecsOf(lh, EndedDuring(lh, w)) = SecsOf(lg, EndedDuring(lg, w))
  <2>1. PICK S, T : S = EndedDuring(lg, w) /\ T = EndedDuring(lh, w)
    OBVIOUS
  <2>2. IsFiniteSet(S) /\ T = S
    BY <1>0, <1>3, <2>1, LogsAre DEF EndedDuring
  <2>3. (\A k \in S : lg[k].secs \in Nat) /\ \A k \in T : lh[k].secs = lg[k].secs
    BY <1>0, <1>3, <2>1, <2>2, LogsAre DEF EndedDuring
  <2>4. SecsOf(lh, T) = SecsOf(lg, S)
    BY <2>2, <2>3, SecsLess
  <2> QED
    BY <2>1, <2>4
<1> QED
  BY <1>4, <1>5, <1>6

\* A session that runs, or has ended already, ends.
LEMMA LogEnds ==
    ASSUME NEW lg, NEW l, NEW x, NEW lh, LogSet(lg, l, x, lh), LogShaped(x)
    PROVE  /\ LogsFit(lh)
           /\ \A w : LET n == IF x.to \in w THEN x.secs ELSE 0 IN
                     /\ SecsOf(lh, EndedDuring(lh, w)) <= SecsOf(lg, EndedDuring(lg, w)) + n
                     /\ l \notin EndedOf(lg) =>
                           SecsOf(lh, EndedDuring(lh, w)) = SecsOf(lg, EndedDuring(lg, w)) + n
           /\ OrderedDays(lh) \subseteq OrderedDays(lg) \cup (IF x.inOrder THEN {x.to} ELSE {})
<1>0. LogsFit(lg) /\ l \in Logs /\ lh = [lg EXCEPT ![l] = x]
  BY DEF LogSet
<1>1. PICK l0 : l0 = [lg EXCEPT ![l] = NoLog]
  OBVIOUS
<1>2. lg = [k \in Logs |-> lg[k]]
  BY <1>0 DEF LogsFit
<1>3. /\ l0 = [k \in Logs |-> l0[k]] /\ l0[l] = NoLog
      /\ \A k \in Logs : l0[k] = NoLog \/ l0[k] = lg[k]
      /\ \A k \in Logs : k # l => l0[k] = lg[k]
  BY <1>0, <1>1, <1>2
<1>4. /\ lh = [k \in Logs |-> lh[k]] /\ lh[l] = x /\ \A k \in Logs \ {l} : lh[k] = l0[k]
  BY <1>0, <1>2, <1>3
<1>5. l \notin EndedOf(lg) => EndedOf(l0) = EndedOf(lg)
  BY <1>0, <1>3 DEF EndedOf, NoLog
<1>6. /\ LogsFit(l0) /\ OrderedDays(l0) \subseteq OrderedDays(lg)
      /\ \A w : /\ SecsOf(l0, EndedDuring(l0, w)) <= SecsOf(lg, EndedDuring(lg, w))
                /\ l \notin EndedOf(lg) =>
                      SecsOf(l0, EndedDuring(l0, w)) = SecsOf(lg, EndedDuring(lg, w))
  BY <1>0, <1>3, <1>5, LogsLeave
<1>7. LogMore(l0, l, x, lh)
  BY <1>0, <1>3, <1>4, <1>6 DEF LogMore
<1>8. LogsFit(lh) /\ OrderedDays(lh) = OrderedDays(l0) \cup (IF x.inOrder THEN {x.to} ELSE {})
  BY <1>7, LogEntered
<1>9. ASSUME NEW w
      PROVE  LET n == IF x.to \in w THEN x.secs ELSE 0 IN
             /\ SecsOf(lh, EndedDuring(lh, w)) <= SecsOf(lg, EndedDuring(lg, w)) + n
             /\ l \notin EndedOf(lg) =>
                   SecsOf(lh, EndedDuring(lh, w)) = SecsOf(lg, EndedDuring(lg, w)) + n
  <2>1. PICK p, q, o, n : /\ p = SecsOf(lg, EndedDuring(lg, w)) /\ q = SecsOf(lh, EndedDuring(lh, w))
                          /\ o = SecsOf(l0, EndedDuring(l0, w)) /\ n = (IF x.to \in w THEN x.secs ELSE 0)
    OBVIOUS
  <2>2. q = o + n
    BY <1>7, <2>1, LogEntered
  <2>3. o <= p /\ (l \notin EndedOf(lg) => o = p)
    BY <1>6, <2>1
  <2>4. p \in Nat /\ o \in Nat
    BY <1>0, <1>6, <2>1, LogsAre
  <2>5. n \in Nat
    BY <2>1 DEF LogShaped
  <2> QED
    BY <2>1, <2>2, <2>3, <2>4, <2>5
<1>10. OrderedDays(lh) \subseteq OrderedDays(lg) \cup (IF x.inOrder THEN {x.to} ELSE {})
  BY <1>6, <1>8
<1> QED
  BY <1>8, <1>9, <1>10

--------------------------------------------------------------------------------
(* What the screens say of records that are right                          *)

\* A number of days that run together is no more than there are days.
LEMMA RunFits ==
    ASSUME NEW S, IsFiniteSet(S), NEW d \in Int, NEW n \in Nat, d .. (d + n) \subseteq S
    PROVE  n + 1 <= Cardinality(S)
<1>1. Cardinality(d .. (d + n)) = n + 1
  <2>1. Cardinality(d .. (d + n)) = IF d > d + n THEN 0 ELSE (d + n) - d + 1
    BY FS_Interval
  <2> QED
    BY <2>1
<1> QED
  BY <1>1, FS_Subset

\* Of finitely many numbers one is the highest.
LEMMA HighestOf ==
    ASSUME NEW N \in Nat, NEW S, S \subseteq 0 .. N, S # {}
    PROVE  \E m \in S : \A n \in S : n <= m
<1> DEFINE T == {N - n : n \in S}
<1>1. T \subseteq Nat /\ T # {}
  <2>1. \A n \in S : N - n \in Nat
    OBVIOUS
  <2> QED
    BY <2>1
<1>2. PICK t \in T : \A s \in T : ~(<<s, t>> \in OpToRel(<, Nat))
  BY <1>1, NatLessThanWellFounded, WFMin
<1>3. PICK m \in S : t = N - m
  OBVIOUS
<1>4. ASSUME NEW n \in S
      PROVE  n <= m
  <2>1. N - n \in T /\ N - n \in Nat /\ t \in Nat
    BY <1>1
  <2>2. ~(N - n < t)
    BY <1>2, <2>1 DEF OpToRel
  <2> QED
    BY <1>3, <2>2
<1> QED
  BY <1>4

LEMMA LongestIsBounded ==
    ASSUME NEW S, S \subseteq Times, NEW most \in Nat,
           \A d, e \in Times : (d <= e /\ d .. e \subseteq S) => e - d + 1 <= most
    PROVE  LongestRun(S) <= most
<1> DEFINE c == Cardinality(S)
           Runs == {n \in 0 .. c : n = 0 \/ \E d \in S : d .. (d + n - 1) \subseteq S}
           Is(n) == /\ n = 0 \/ \E d \in S : d .. (d + n - 1) \subseteq S
                    /\ \A d \in S : ~(d .. (d + n) \subseteq S)
<1>1. IsFiniteSet(S) /\ c \in Nat
  BY DaysFinite, FS_CardinalityType
<1>2. PICK m \in Runs : \A n \in Runs : n <= m
  <2>1. Runs \subseteq 0 .. c /\ 0 \in Runs
    BY <1>1
  <2> QED
    BY <1>1, <2>1, HighestOf
<1>3. Is(m)
  <2> SUFFICES ASSUME NEW d \in S, d .. (d + m) \subseteq S
               PROVE  FALSE
    BY <1>2
  <2>1. d \in Int /\ m \in Nat
    BY <1>1, <1>2 DEF Times
  <2>2. m + 1 <= c
    BY <1>1, <2>1, RunFits
  <2>3. m + 1 \in Runs
    <3>1. d + (m + 1) - 1 = d + m
      BY <2>1
    <3> QED
      BY <1>1, <2>1, <2>2, <3>1
  <2> QED
    BY <1>2, <2>1, <2>3
<1>4. LongestRun(S) \in 0 .. c /\ Is(LongestRun(S))
  <2>1. LongestRun(S) = CHOOSE n \in 0 .. c : Is(n)
    BY DEF LongestRun
  <2>2. m \in 0 .. c
    BY <1>2
  <2> HIDE DEF Is, c
  <2> QED
    BY <1>3, <2>1, <2>2
<1>5. PICK n : n = LongestRun(S)
  OBVIOUS
<1>6. CASE n = 0
  BY <1>5, <1>6
<1>7. CASE n # 0
  <2>1. PICK d \in S : d .. (d + n - 1) \subseteq S
    BY <1>4, <1>5, <1>7
  <2>2. n \in Nat /\ n >= 1 /\ d \in Int
    BY <1>1, <1>4, <1>5, <1>7 DEF Times
  <2>3. d + n - 1 \in S /\ d \in Times /\ d + n - 1 \in Times
    BY <2>1, <2>2
  <2>4. (d + n - 1) - d + 1 <= most
    BY <2>1, <2>2, <2>3
  <2> QED
    BY <1>5, <2>2, <2>4
<1> QED
  BY <1>5, <1>6, <1>7

\* A day on which a total was reached: the last one with any.
LEMMA ReachedOn ==
    ASSUME NEW f \in [Times -> Nat], NEW n \in Nat \ {0}
    PROVE  (\E d \in Times : f[d] > 0 /\ Total(f, 0 .. d) >= n) <=> n <= Total(f, Times)
<1>1. IsFiniteSet(Times) /\ Total(f, Times) \in Nat /\ LastTime \in Nat
  BY DaysFinite, DaysTotal, ClockAssumption
<1>2. ASSUME NEW d \in Times
      PROVE  0 .. d \subseteq Times /\ Total(f, 0 .. d) \in Nat /\ Total(f, 0 .. d) <= Total(f, Times)
  <2>1. 0 .. d \subseteq Times
    BY <1>1 DEF Times
  <2> QED
    BY <1>1, <2>1, DaysTotal, PartHasLess
<1>3. ASSUME n <= Total(f, Times)
      PROVE  \E d \in Times : f[d] > 0 /\ Total(f, 0 .. d) >= n
  <2> DEFINE S == {d \in Times : f[d] > 0}
  <2>1. S # {}
    <3>1. SUFFICES ASSUME \A d \in Times : f[d] = 0
                   PROVE  FALSE
      OBVIOUS
    <3>2. Total(f, {}) = Total(f, Times)
      BY <1>1, <3>1, PartHasLess
    <3> QED
      BY <1>1, <1>3, <3>2, TotalOfNone
  <2>2. PICK d \in S : \A e \in S : e <= d
    BY <1>1, <2>1, HighestOf DEF Times
  <2>3. \A e \in Times \ (0 .. d) : f[e] = 0
    BY <2>2, <1>1 DEF Times
  <2>4. Total(f, 0 .. d) = Total(f, Times)
    <3>1. 0 .. d \subseteq Times
      BY <1>2, <2>2
    <3> QED
      BY <1>1, <2>3, <3>1, PartHasLess
  <2> QED
    BY <1>1, <1>3, <2>2, <2>4
<1> QED
  BY <1>1, <1>2, <1>3

--------------------------------------------------------------------------------
(* The streak                                                              *)

\* What a session does to the snapshot's streak, dated day d from 1.
Moved(g, h, d) ==
    \/ /\ d <= g.last /\ g.last # 0
       /\ h.streak = g.streak /\ h.longest = g.longest /\ h.last = g.last
    \/ /\ g.last = 0 /\ h.streak = 1 /\ h.last = d
       /\ h.longest >= g.longest /\ h.longest >= 1
    \/ /\ g.last # 0 /\ d = g.last + 1 /\ h.streak = g.streak + 1 /\ h.last = d
       /\ h.longest >= g.longest /\ h.longest >= g.streak + 1
    \/ /\ g.last # 0 /\ d > g.last + 1 /\ h.last = d /\ h.longest = g.longest
       /\ h.streak = 1 \/ h.streak = g.streak

LEMMA AdvancedIs ==
    ASSUME NEW read, GradeTyped(read), NEW day \in Times, NEW secs \in Nat, NEW h, h = Advanced(read, day, secs)
    PROVE  GradeTyped(h) /\ h.seconds = read.seconds + secs /\ Moved(read, h, day + 1)
<1> DEFINE p == Policy!ApplyStreakWithShield(read, day + 1)
<1>0. /\ read.streak \in Nat /\ read.longest \in Nat /\ read.last \in Nat /\ read.seconds \in Nat
      /\ day \in Nat
  BY DEF GradeTyped, Times
<1>1. DOMAIN read = {"streak", "longest", "last", "shields", "seconds"}
  BY DEF GradeTyped
<1>2. /\ h = [f \in {"streak", "longest", "last", "shields", "seconds"} |-> h[f]]
      /\ h.seconds = read.seconds + secs /\ h.streak = p.streak /\ h.longest = p.longest
      /\ h.last = p.last
  BY <1>1 DEF Advanced
<1> HIDE DEF p
<1>3. /\ p.streak \in Nat /\ p.longest \in Nat /\ p.last \in Nat
      /\ Moved(read, p, day + 1)
  <2> DEFINE u == Policy!UpdateStreak(read, day + 1)
  <2>1. CASE Policy!GapReset(read, day + 1) /\ read.shields > 0
    <3>1. p.streak = read.streak /\ p.longest = read.longest /\ p.last = day + 1
      BY <2>1 DEF p, Policy!ApplyStreakWithShield
    <3> QED
      BY <1>0, <2>1, <3>1 DEF Moved, Policy!GapReset, Policy!NoDate
  <2>2. CASE ~(Policy!GapReset(read, day + 1) /\ read.shields > 0)
    <3>1. p.streak = u.streak /\ p.longest = u.longest /\ p.last = u.last
      BY <2>2 DEF p, Policy!ApplyStreakWithShield
    <3>2. CASE read.last = 0
      BY <1>0, <3>1, <3>2 DEF Moved, Policy!UpdateStreak, Policy!NoDate, Policy!Larger
    <3>3. CASE read.last # 0 /\ day + 1 <= read.last
      BY <1>0, <3>1, <3>3 DEF Moved, Policy!UpdateStreak, Policy!NoDate, Policy!Larger
    <3>4. CASE read.last # 0 /\ day + 1 = read.last + 1
      BY <1>0, <3>1, <3>4 DEF Moved, Policy!UpdateStreak, Policy!NoDate, Policy!Larger
    <3>5. CASE read.last # 0 /\ day + 1 > read.last + 1
      BY <1>0, <3>1, <3>5 DEF Moved, Policy!UpdateStreak, Policy!NoDate, Policy!Larger
    <3> QED
      BY <1>0, <3>2, <3>3, <3>4, <3>5
  <2> QED
    BY <2>1, <2>2
<1> QED
  BY <1>0, <1>2, <1>3 DEF GradeTyped, Moved

\* Days that go leave the snapshot as it is.
LEMMA RunsStay ==
    ASSUME NEW g, NEW days, RunsCounted(g, days), NEW fewer, fewer \subseteq days
    PROVE  RunsCounted(g, fewer)
BY DEF RunsCounted

LEMMA RunsGo ==
    ASSUME NEW g, GradeTyped(g), NEW days, RunsCounted(g, days), NEW t \in Times,
           NEW h, GradeTyped(h), Moved(g, h, t + 1),
           NEW more, more = days \cup (IF t + 1 >= g.last THEN {t} ELSE {})
    PROVE  RunsCounted(h, more) /\ g.longest <= h.longest
<1>0. /\ g.streak \in Nat /\ g.longest \in Nat /\ g.last \in Nat /\ t \in Nat
      /\ h.streak \in Nat /\ h.longest \in Nat /\ h.last \in Nat /\ Times \subseteq Nat
  BY DEF GradeTyped, Times
<1>1. /\ g.streak <= g.longest /\ (g.last # 0 => g.streak >= 1)
      /\ \A d \in days : d \in Times /\ d + 1 <= g.last
  BY DEF RunsCounted
<1>2. g.longest <= h.longest /\ g.last <= h.last /\ h.streak <= h.longest /\ h.streak >= 1
      /\ h.last # 0
  BY <1>0, <1>1 DEF Moved
<1>3. ASSUME NEW d \in more
      PROVE  d \in Times /\ d + 1 <= h.last
  <2>1. CASE d \in days
    <3>1. d \in Nat /\ d + 1 <= g.last
      BY <1>0, <1>1, <2>1
    <3> QED
      BY <1>0, <1>1, <1>2, <2>1, <3>1
  <2>2. CASE d = t /\ t + 1 >= g.last
    <3>1. t + 1 <= h.last
      BY <1>0, <2>2 DEF Moved
    <3> QED
      BY <2>2, <3>1
  <2> QED
    BY <2>1, <2>2
<1>4. ASSUME NEW d \in Times, d < h.last, d .. (h.last - 2) \subseteq more
      PROVE  h.last - d <= h.streak
  <2>0. d \in Nat
    BY <1>0
  <2>1. CASE d = h.last - 1
    BY <1>0, <1>2, <2>0, <2>1
  <2>2. CASE d < h.last - 1
    <3>1. h.last - 2 \in more /\ h.last - 2 \in Nat
      BY <1>0, <1>4, <2>0, <2>2
    <3>2. CASE h.last = g.last
      <4>1. d .. (g.last - 2) \subseteq days
        <5>1. ASSUME NEW e \in d .. (g.last - 2)
              PROVE  e \in days
          <6>1. e \in more /\ (t + 1 >= g.last => e # t)
            BY <1>0, <1>4, <2>0, <3>2, <5>1
          <6> QED
            BY <6>1
        <5> QED
          BY <5>1
      <4>2. g.last - d <= g.streak
        BY <1>4, <3>2, <4>1 DEF RunsCounted
      <4>3. h.streak = g.streak
        BY <1>0, <1>2, <3>2 DEF Moved
      <4> QED
        BY <3>2, <4>2, <4>3
    <3>3. CASE h.last # g.last
      <4>1. h.last = t + 1 /\ t >= g.last
        BY <1>0, <1>2, <3>3 DEF Moved
      <4>2. h.last - 2 \in days /\ h.last - 1 <= g.last
        BY <1>0, <1>1, <3>1, <4>1
      <4>3. g.last # 0 /\ t + 1 = g.last + 1 /\ h.streak = g.streak + 1
        BY <1>0, <2>0, <2>2, <4>1, <4>2 DEF Moved
      <4>4. d < g.last /\ d .. (g.last - 2) \subseteq days
        <5>1. ASSUME NEW e \in d .. (g.last - 2)
              PROVE  e \in days
          <6>1. e \in more /\ e # t
            BY <1>0, <1>4, <2>0, <4>1, <4>3, <5>1
          <6> QED
            BY <6>1
        <5> QED
          BY <1>0, <2>0, <2>2, <4>1, <4>3, <5>1
      <4>5. g.last - d <= g.streak
        BY <4>4 DEF RunsCounted
      <4> QED
        BY <1>0, <2>0, <4>1, <4>3, <4>5
    <3> QED
      BY <3>2, <3>3
  <2> QED
    BY <1>0, <1>4, <2>0, <2>1, <2>2
<1>5. ASSUME NEW d \in Times, NEW e \in Times, d <= e, d .. e \subseteq more
      PROVE  e - d + 1 <= h.longest
  <2>0. d \in Nat /\ e \in Nat
    BY <1>0
  <2>1. CASE d .. e \subseteq days
    <3>1. e - d + 1 <= g.longest
      BY <1>5, <2>1 DEF RunsCounted
    <3> QED
      BY <1>0, <1>2, <2>0, <3>1
  <2>2. CASE ~(d .. e \subseteq days)
    <3>1. t \in d .. e /\ t + 1 >= g.last /\ t \notin days
      BY <1>5, <2>2
    <3>2. e = t
      <4>1. e \in more
        BY <1>5, <2>0
      <4>2. e \in days => e + 1 <= g.last
        BY <1>1
      <4> QED
        BY <1>0, <2>0, <3>1, <4>1, <4>2
    <3>3. h.last = t + 1
      BY <1>0, <1>2, <3>1 DEF Moved
    <3>4. d < h.last /\ d .. (h.last - 2) \subseteq more
      <4>1. \A k \in d .. (h.last - 2) : k \in d .. e
        BY <1>0, <2>0, <3>2, <3>3
      <4> QED
        BY <1>0, <1>5, <2>0, <3>2, <3>3, <4>1
    <3>5. h.last - d <= h.streak
      BY <1>4, <3>4
    <3> QED
      BY <1>0, <1>2, <2>0, <3>2, <3>3, <3>5
  <2> QED
    BY <2>1, <2>2
<1> QED
  BY <1>2, <1>3, <1>4, <1>5 DEF RunsCounted

--------------------------------------------------------------------------------
(* The steps                                                               *)

LEMMA NoTotals ==
    ASSUME NEW f, f = [d \in Times |-> 0], NEW w, w \subseteq Times
    PROVE  Total(f, w) = 0
<1>1. IsFiniteSet(w) /\ \A d \in w : f[d] = 0
  BY DaysFinite
<1>2. (\A d \in w \ {} : f[d] = 0) => Total(f, {}) = Total(f, w)
  <2>1. \A d \in w : f[d] \in Nat
    BY <1>1
  <2> QED
    BY <1>1, <2>1, PartHasLess
<1> QED
  BY <1>1, <1>2, TotalOfNone

LEMMA StatsStart == ClockInit /\ StatsInit => StatsInv
<1> SUFFICES ASSUME ClockInit, StatsInit
             PROVE  StatsInv
  OBVIOUS
<1>0. 0 \in Times
  BY ClockAssumption DEF Times
<1>1. TotalsTyped
  BY <1>0 DEF TotalsTyped, ClockInit, StatsInit
<1>2. EndedOf(logged) = {} /\ LogsFit(logged)
  <2>1. EndedOf(logged) = {}
    BY DEF EndedOf, StatsInit, NoLog
  <2> QED
    BY <2>1, FS_EmptySet DEF LogsFit, StatsInit
<1>3. GradeTyped(grade)
  <2>1. grade = [streak |-> 0, longest |-> 0, last |-> 0, shields |-> 0, seconds |-> 0]
    BY DEF StatsInit
  <2> QED
    BY <2>1 DEF GradeTyped
<1>4. \A w \in SUBSET Times :
         Total(heat, w) = 0 /\ Total(past.rowOnly, w) = 0 /\ Total(past.heatOnly, w) = 0
  BY NoTotals DEF StatsInit
<1>5. SecondsKnown
  <2> SUFFICES ASSUME NEW w \in SUBSET Times
               PROVE  Told(logged, past.heatOnly, w) = 0 /\ Known(heat, past.rowOnly, w) = 0
    BY DEF SecondsKnown
  <2>1. EndedDuring(logged, w) = {}
    BY <1>2 DEF EndedDuring
  <2> QED
    BY <1>4, <2>1, TotalOfNone DEF SecsOf, Known, Told
<1>6. AllCounted
  BY <1>4 DEF AllCounted, StatsInit
<1>7. RunsRight
  <2>1. OrderedDays(logged) = {}
    BY <1>2 DEF OrderedDays
  <2>2. Times \subseteq Nat
    BY DEF Times
  <2> QED
    BY <2>1, <2>2 DEF RunsRight, RunsCounted, StatsInit
<1>7a. EndingFits
  <2>1. ending = [r \in EndCalls |-> ending[r]] /\ \A r \in EndCalls : ending[r].op = "idle"
    BY DEF StatsInit, NoEnd
  <2> QED
    BY <2>1 DEF EndingFits, EndFits
<1>8. ScreensRight
  <2>1. \A s \in Screens : screen[s].until = -1
    BY DEF StatsInit, NoAnswer, Never
  <2>2. \A r \in ScreenCalls : screenCall[r].op = "idle"
    BY DEF StatsInit, NoScreen
  <2>3. now = 0 /\ screen = [s \in Screens |-> screen[s]] /\ screenCall = [r \in ScreenCalls |-> screenCall[r]]
    BY DEF ClockInit, StatsInit
  <2> QED
    BY <2>1, <2>2, <2>3 DEF ScreensRight
<1>9. ShelfRight
  BY DEF ShelfRight, StatsInit, NotHeld, NoMark
<1>10. GoalsTyped
  BY DEF GoalsTyped, StatsInit
<1> QED
  BY <1>1, <1>2, <1>3, <1>5, <1>6, <1>7, <1>7a, <1>8, <1>9, <1>10 DEF StatsInv, RecordsRight

\* The totals never fall, and the longest streak only by an overlap.
RecordsGrow ==
    /\ now' >= now
    /\ \A w \in SUBSET Times :
          Total(heat, w) <= Total(heat', w) /\ Total(past.rowOnly, w) <= Total(past'.rowOnly, w)
    /\ past.overlapped => past'.overlapped
    /\ past'.overlapped \/ grade.longest <= grade'.longest

PastKept ==
    /\ past'.rowOnly = past.rowOnly /\ past'.heatOnly = past.heatOnly /\ past'.removed = past.removed
    /\ past'.twice = past.twice /\ past'.overlapped = past.overlapped
    /\ past' = [finished |-> past'.finished, removed |-> past'.removed, rowOnly |-> past'.rowOnly,
                heatOnly |-> past'.heatOnly, twice |-> past'.twice, overlapped |-> past'.overlapped]

RecordsKept ==
    /\ logged' = logged /\ heat' = heat /\ grade' = grade /\ PastKept
    /\ now' \in Times /\ now' >= now

LEMMA NothingFalls ==
    ASSUME RecordsRight, heat' = heat, grade' = grade, past'.rowOnly = past.rowOnly,
           past'.overlapped = past.overlapped, now' >= now
    PROVE  RecordsGrow
<1>1. \A w \in SUBSET Times : Total(heat, w) \in Nat /\ Total(past.rowOnly, w) \in Nat
  BY DaysTotal DEF RecordsRight, TotalsTyped
<1>2. grade.longest \in Nat
  BY DEF RecordsRight, GradeTyped
<1> QED
  BY <1>1, <1>2 DEF RecordsGrow

LEMMA RecordsStand ==
    ASSUME RecordsRight, RecordsKept
    PROVE  RecordsRight' /\ RecordsGrow
<1>1. TotalsTyped'
  BY DEF RecordsRight, RecordsKept, PastKept, TotalsTyped
<1>2. LogsFit(logged)' /\ GradeTyped(grade)' /\ RunsRight'
  BY DEF RecordsRight, RecordsKept, PastKept, RunsRight
<1>3. SecondsKnown' /\ AllCounted'
  BY DEF RecordsRight, RecordsKept, PastKept, SecondsKnown, AllCounted
<1>4. RecordsGrow
  BY NothingFalls DEF RecordsKept, PastKept
<1> QED
  BY <1>1, <1>2, <1>3, <1>4 DEF RecordsRight

LEMMA AnswerKept ==
    ASSUME NEW s, NEW a, NEW h \in [Times -> Nat], NEW b \in [Times -> Nat], NEW top \in Nat,
           NEW g \in [Times -> Nat], NEW c \in [Times -> Nat], NEW higher \in Nat,
           NEW lost \in BOOLEAN, NEW lag \in BOOLEAN,
           AnswerRight(s, a, h, b, top, lost), lost => lag, lag \/ top <= higher,
           \A w \in SUBSET Times : Total(h, w) <= Total(g, w) /\ Total(b, w) <= Total(c, w)
    PROVE  AnswerRight(s, a, g, c, higher, lag)
<1>1. \A w \in SUBSET Times : /\ Total(h, w) \in Nat /\ Total(b, w) \in Nat
                              /\ Total(g, w) \in Nat /\ Total(c, w) \in Nat
  BY DaysTotal
<1>2. \A w \in SUBSET Times : Known(h, b, w) <= Known(g, c, w)
                              /\ Known(h, b, w) \in Nat /\ Known(g, c, w) \in Nat
  BY <1>1 DEF Known
<1>3. ASSUME s[1] = "recap"
      PROVE  /\ s[2] \subseteq Times
             /\ a.seconds \in Nat /\ a.seconds <= Known(g, c, s[2])
             /\ a.longest \in Nat /\ (lag \/ a.longest <= higher)
  <2>1. /\ s[2] \subseteq Times
        /\ a.seconds \in Nat /\ a.seconds <= Known(h, b, s[2])
        /\ a.longest \in Nat /\ (lost \/ a.longest <= top)
    BY <1>3 DEF AnswerRight
  <2>2. a.seconds <= Known(g, c, s[2])
    BY <1>2, <2>1
  <2>3. CASE lag
    BY <2>1, <2>2, <2>3
  <2>4. CASE ~lag
    <3>1. ~lost /\ top <= higher
      BY <2>4
    <3>2. a.longest <= higher
      BY <2>1, <3>1
    <3> QED
      BY <2>1, <2>2, <3>2
  <2> QED
    BY <2>3, <2>4
<1>4. ASSUME s[1] = "stats", NEW w \in DOMAIN a.months
      PROVE  w \subseteq Times /\ a.months[w] \in Nat /\ a.months[w] <= Total(g, w)
  BY <1>1, <1>4 DEF AnswerRight
<1> QED
  BY <1>3, <1>4 DEF AnswerRight

LEMMA ScreensStand ==
    ASSUME RecordsRight, RecordsRight', RecordsGrow, ScreensRight,
           screen' = screen, screenCall' = screenCall
    PROVE  ScreensRight'
<1>1. /\ heat \in [Times -> Nat] /\ past.rowOnly \in [Times -> Nat] /\ grade.longest \in Nat
      /\ heat' \in [Times -> Nat] /\ past'.rowOnly \in [Times -> Nat] /\ grade'.longest \in Nat
      /\ now \in Int /\ now' \in Int /\ past.overlapped \in BOOLEAN /\ past'.overlapped \in BOOLEAN
  <2>1. Times \subseteq Int
    BY DEF Times
  <2>2. TotalsTyped /\ grade.longest \in Nat
    BY DEF RecordsRight, GradeTyped
  <2>3. TotalsTyped' /\ grade'.longest \in Nat
    BY DEF RecordsRight, GradeTyped
  <2> QED
    BY <2>1, <2>2, <2>3 DEF TotalsTyped
<1>2. PICK h, b, top, lost, g, c, higher, lag :
        /\ h = heat /\ b = past.rowOnly /\ top = grade.longest /\ lost = past.overlapped
        /\ g = heat' /\ c = past'.rowOnly /\ higher = grade'.longest /\ lag = past'.overlapped
  OBVIOUS
<1>3. ASSUME NEW s, NEW a, AnswerRight(s, a, h, b, top, lost)
      PROVE  AnswerRight(s, a, g, c, higher, lag)
  <2>1. /\ h \in [Times -> Nat] /\ b \in [Times -> Nat] /\ top \in Nat
        /\ g \in [Times -> Nat] /\ c \in [Times -> Nat] /\ higher \in Nat
        /\ lost \in BOOLEAN /\ lag \in BOOLEAN /\ (lost => lag) /\ (lag \/ top <= higher)
    BY <1>1, <1>2 DEF RecordsGrow
  <2>2. \A w \in SUBSET Times : Total(h, w) <= Total(g, w) /\ Total(b, w) <= Total(c, w)
    BY <1>2 DEF RecordsGrow
  <2> QED
    BY <1>3, <2>1, <2>2, AnswerKept
<1>4. \A s \in Screens : screen[s].until > now' =>
         AnswerRight(s, screen[s].answer, g, c, higher, lag)
  <2> SUFFICES ASSUME NEW s \in Screens, screen[s].until > now'
               PROVE  AnswerRight(s, screen[s].answer, g, c, higher, lag)
    OBVIOUS
  <2>1. screen[s].until \in Int /\ now' >= now
    BY DEF ScreensRight, RecordsGrow
  <2>2. AnswerRight(s, screen[s].answer, h, b, top, lost)
    BY <1>1, <1>2, <2>1 DEF ScreensRight
  <2> QED
    BY <1>3, <2>2
<1>5. \A r \in ScreenCalls : screenCall[r].op = "open" =>
         screenCall[r].of \in Screens
         /\ AnswerRight(screenCall[r].of, screenCall[r].answer, g, c, higher, lag)
  BY <1>2, <1>3 DEF ScreensRight
<1> QED
  BY <1>2, <1>4, <1>5 DEF ScreensRight

\* The snapshot after a session, as the columns it changed make it.
Flushed(g, read, new, h) ==
    h = [f \in DOMAIN g |-> IF new[f] = read[f] THEN g[f] ELSE new[f]]

LEMMA FlushedIs ==
    ASSUME NEW g, GradeTyped(g), NEW read, GradeTyped(read), NEW new, GradeTyped(new),
           NEW h, Flushed(g, read, new, h)
    PROVE  /\ GradeTyped(h) /\ (g = read => h = new)
           /\ h.seconds = IF new.seconds = read.seconds THEN g.seconds ELSE new.seconds
<1> DEFINE Columns == {"streak", "longest", "last", "shields", "seconds"}
<1>1. /\ g = [f \in Columns |-> g[f]] /\ read = [f \in Columns |-> read[f]]
      /\ new = [f \in Columns |-> new[f]]
  BY DEF GradeTyped
<1>2. /\ h = [f \in Columns |-> h[f]]
      /\ \A f \in Columns : h[f] = IF new[f] = read[f] THEN g[f] ELSE new[f]
  BY <1>1 DEF Flushed
<1>3. /\ h.streak \in {g.streak, new.streak} /\ h.longest \in {g.longest, new.longest}
      /\ h.last \in {g.last, new.last} /\ h.seconds \in {g.seconds, new.seconds}
      /\ h.seconds = IF new.seconds = read.seconds THEN g.seconds ELSE new.seconds
  BY <1>2
<1>4. GradeTyped(h)
  BY <1>2, <1>3 DEF GradeTyped
<1>5. ASSUME g = read
      PROVE  h = new
  <2>1. \A f \in Columns : h[f] = new[f]
    BY <1>2, <1>5
  <2>2. h = [f \in Columns |-> new[f]]
    BY <1>2, <2>1
  <2> QED
    BY <1>1, <2>2
<1> QED
  BY <1>3, <1>4, <1>5

\* A day's total that grows.
LEMMA DayGrows ==
    ASSUME NEW f, NEW d, NEW n, NEW e, DayMore(f, d, n, e)
    PROVE  /\ e \in [Times -> Nat]
           /\ \A w \in SUBSET Times :
                 /\ Total(e, w) = Total(f, w) + (IF d \in w THEN n ELSE 0)
                 /\ Total(f, w) <= Total(e, w) /\ Total(f, w) \in Nat /\ Total(e, w) \in Nat
<1>1. f \in [Times -> Nat] /\ e \in [Times -> Nat]
  <2>1. {} \subseteq Times
    OBVIOUS
  <2> QED
    BY <2>1, DayAdds DEF DayMore
<1>2. ASSUME NEW w \in SUBSET Times
      PROVE  /\ Total(e, w) = Total(f, w) + (IF d \in w THEN n ELSE 0)
             /\ Total(f, w) <= Total(e, w) /\ Total(f, w) \in Nat /\ Total(e, w) \in Nat
  <2>1. Total(e, w) = Total(f, w) + (IF d \in w THEN n ELSE 0) /\ Total(f, w) <= Total(e, w)
    BY DayAdds
  <2>2. Total(f, w) \in Nat /\ Total(e, w) \in Nat
    BY <1>1, DaysTotal
  <2> QED
    BY <2>1, <2>2
<1> QED
  BY <1>1, <1>2

LEMMA CommittedRecords ==
    ASSUME RecordsRight, EndingFits, NEW r \in EndCalls, SessionCommitted(r)
    PROVE  RecordsRight' /\ RecordsGrow
<1>1. /\ LogsFit(logged) /\ TotalsTyped /\ GradeTyped(grade)
      /\ SecondsKnown /\ AllCounted /\ RunsRight
  BY DEF RecordsRight
<1>2. PICK l, to, day, secs, read, away, new :
        /\ l = ending[r].log /\ to = ending[r].to /\ day = ending[r].day /\ secs = ending[r].secs
        /\ read = ending[r].read /\ away = (IF to = day THEN 0 ELSE secs)
        /\ new = Advanced(read, day, secs)
  OBVIOUS
<1>3. /\ ending[r].op = "updated" /\ ending[r].op # "idle"
      /\ l \in Logs /\ to \in Times /\ day \in Times /\ secs \in Nat /\ away \in Nat
      /\ GradeTyped(read) /\ logged[l] # NoLog /\ read.seconds <= Total(heat, Times)
  <2>1. ending[r].op = "updated" /\ ending[r].op # "idle"
    BY DEF SessionCommitted
  <2> QED
    BY <1>2, <2>1 DEF EndingFits, EndFits
<1>4. PICK x : x = [source |-> "timer", book |-> logged[l].book, from |-> logged[l].from, to |-> to,
                    secs |-> secs, inOrder |-> to = day /\ day + 1 >= read.last]
  OBVIOUS
<1>5. PICK lg, lh, g, h : lg = logged /\ lh = logged' /\ g = grade /\ h = grade'
  OBVIOUS
<1>6. LogShaped(x) /\ x.to = to /\ x.secs = secs /\ x.inOrder = (to = day /\ day + 1 >= read.last)
  <2>1. logged[l].book \in Titles
    BY <1>1, <1>3 DEF LogsFit, LogShaped, RunShaped
  <2> QED
    BY <1>3, <1>4, <2>1 DEF LogShaped
<1>7. /\ lh = [lg EXCEPT ![l] = x] /\ heat' = [heat EXCEPT ![day] = @ + secs]
      /\ Flushed(g, read, new, h) /\ now' = now
  BY <1>2, <1>4, <1>5 DEF SessionCommitted, Flushed
<1>8. /\ past'.rowOnly = [past.rowOnly EXCEPT ![to] = @ + away]
      /\ past'.heatOnly = [past.heatOnly EXCEPT ![day] = @ + away]
      /\ past'.removed = past.removed
      /\ past'.twice = (past.twice \/ logged[l].source = "timer")
      /\ past'.overlapped = (past.overlapped \/ grade # read)
      /\ past' = [finished |-> past'.finished, removed |-> past'.removed, rowOnly |-> past'.rowOnly,
                  heatOnly |-> past'.heatOnly, twice |-> past'.twice, overlapped |-> past'.overlapped]
  <2>1. past' = [past EXCEPT !.rowOnly[to] = @ + away, !.heatOnly[day] = @ + away,
                             !.twice = @ \/ logged[l].source = "timer",
                             !.overlapped = @ \/ grade # read]
    BY <1>2 DEF SessionCommitted
  <2>2. past = [finished |-> past.finished, removed |-> past.removed, rowOnly |-> past.rowOnly,
                heatOnly |-> past.heatOnly, twice |-> past.twice, overlapped |-> past.overlapped]
    BY <1>1 DEF TotalsTyped
  <2> QED
    BY <2>1, <2>2
<1>9. /\ LogsFit(lh)
      /\ \A w : LET n == IF to \in w THEN secs ELSE 0 IN
                /\ SecsOf(lh, EndedDuring(lh, w)) <= SecsOf(lg, EndedDuring(lg, w)) + n
                /\ l \notin EndedOf(lg) =>
                      SecsOf(lh, EndedDuring(lh, w)) = SecsOf(lg, EndedDuring(lg, w)) + n
      /\ OrderedDays(lh) \subseteq OrderedDays(lg) \cup (IF x.inOrder THEN {to} ELSE {})
  <2>1. LogSet(lg, l, x, lh)
    BY <1>1, <1>3, <1>5, <1>7 DEF LogSet
  <2> QED
    BY <1>6, <2>1, LogEnds
<1>10. PICK hg, hh, rg, rh, eg, eh :
         /\ hg = heat /\ hh = heat' /\ rg = past.rowOnly /\ rh = past'.rowOnly
         /\ eg = past.heatOnly /\ eh = past'.heatOnly
  OBVIOUS
<1>11. /\ hg \in [Times -> Nat] /\ rg \in [Times -> Nat] /\ eg \in [Times -> Nat]
       /\ DayMore(hg, day, secs, hh) /\ DayMore(rg, to, away, rh) /\ DayMore(eg, day, away, eh)
  BY <1>1, <1>3, <1>7, <1>8, <1>10 DEF TotalsTyped, DayMore
<1>12. hh \in [Times -> Nat] /\ \A w \in SUBSET Times :
          /\ Total(hh, w) = Total(hg, w) + (IF day \in w THEN secs ELSE 0)
          /\ Total(hg, w) <= Total(hh, w) /\ Total(hg, w) \in Nat /\ Total(hh, w) \in Nat
  BY <1>11, DayGrows
<1>13. rh \in [Times -> Nat] /\ \A w \in SUBSET Times :
          /\ Total(rh, w) = Total(rg, w) + (IF to \in w THEN away ELSE 0)
          /\ Total(rg, w) <= Total(rh, w) /\ Total(rg, w) \in Nat /\ Total(rh, w) \in Nat
  BY <1>11, DayGrows
<1>14. eh \in [Times -> Nat] /\ \A w \in SUBSET Times :
          /\ Total(eh, w) = Total(eg, w) + (IF day \in w THEN away ELSE 0)
          /\ Total(eg, w) <= Total(eh, w) /\ Total(eg, w) \in Nat /\ Total(eh, w) \in Nat
  BY <1>11, DayGrows
<1>15. TotalsTyped'
  BY <1>1, <1>7, <1>8, <1>10, <1>12, <1>13, <1>14 DEF TotalsTyped
<1>16. GradeTyped(new) /\ new.seconds = read.seconds + secs /\ Moved(read, new, day + 1)
  BY <1>2, <1>3, AdvancedIs
<1>17. /\ GradeTyped(h) /\ (g = read => h = new)
       /\ h.seconds = IF new.seconds = read.seconds THEN g.seconds ELSE new.seconds
  BY <1>1, <1>3, <1>5, <1>7, <1>16, FlushedIs
<1>18. SecondsKnown'
  <2> SUFFICES ASSUME NEW w \in SUBSET Times
               PROVE  /\ Told(lh, eh, w) <= Known(hh, rh, w)
                      /\ ~past'.removed /\ ~past'.twice => Told(lh, eh, w) = Known(hh, rh, w)
    BY <1>5, <1>10 DEF SecondsKnown
  <2>1. PICK before, after, n : /\ before = SecsOf(lg, EndedDuring(lg, w))
                                /\ after = SecsOf(lh, EndedDuring(lh, w))
                                /\ n = (IF to \in w THEN secs ELSE 0)
    OBVIOUS
  <2>2. before \in Nat /\ after \in Nat
    BY <1>1, <1>5, <1>9, <2>1, LogsAre
  <2>3. after <= before + n /\ (l \notin EndedOf(lg) => after = before + n)
    BY <1>9, <2>1
  <2>4. /\ before + Total(eg, w) <= Total(hg, w) + Total(rg, w)
        /\ ~past.removed /\ ~past.twice => before + Total(eg, w) = Total(hg, w) + Total(rg, w)
    BY <1>1, <1>5, <1>10, <2>1 DEF SecondsKnown, Told, Known
  <2>5. n + (IF day \in w THEN away ELSE 0) = (IF day \in w THEN secs ELSE 0) + (IF to \in w THEN away ELSE 0)
    BY <1>2, <1>3, <2>1
  <2>6. /\ Total(eg, w) \in Nat /\ Total(hg, w) \in Nat /\ Total(rg, w) \in Nat /\ n \in Nat
        /\ Total(eh, w) = Total(eg, w) + (IF day \in w THEN away ELSE 0)
        /\ Total(hh, w) = Total(hg, w) + (IF day \in w THEN secs ELSE 0)
        /\ Total(rh, w) = Total(rg, w) + (IF to \in w THEN away ELSE 0)
    BY <1>3, <1>12, <1>13, <1>14, <2>1
  <2>7. PICK p, q, v : /\ p = (IF day \in w THEN away ELSE 0) /\ q = (IF day \in w THEN secs ELSE 0)
                       /\ v = (IF to \in w THEN away ELSE 0)
    OBVIOUS
  <2>8. p \in Nat /\ q \in Nat /\ v \in Nat /\ n + p = q + v
    BY <1>3, <2>5, <2>7
  <2>9. after + Total(eh, w) <= Total(hh, w) + Total(rh, w)
    BY <2>2, <2>3, <2>4, <2>6, <2>7, <2>8
  <2>10. ASSUME ~past'.removed, ~past'.twice
         PROVE  after + Total(eh, w) = Total(hh, w) + Total(rh, w)
    <3>1. ~past.removed /\ ~past.twice /\ logged[l].source # "timer"
      BY <1>8, <2>10
    <3>2. l \notin EndedOf(lg)
      <4>1. lg[l].source # "manual"
        BY <1>2, <1>3, <1>5 DEF EndingFits
      <4> QED
        BY <1>5, <3>1, <4>1 DEF EndedOf
    <3> QED
      BY <2>2, <2>3, <2>4, <2>6, <2>7, <2>8, <3>1, <3>2
  <2> QED
    BY <2>1, <2>9, <2>10 DEF Told, Known
<1>19. AllCounted'
  <2>1. Total(hh, Times) = Total(hg, Times) + secs /\ Total(hg, Times) \in Nat
    BY <1>3, <1>12
  <2>2. g.seconds \in Nat /\ read.seconds \in Nat /\ new.seconds \in Nat
    BY <1>1, <1>3, <1>5, <1>16 DEF GradeTyped
  <2>3. g.seconds <= Total(hg, Times) /\ (~past.overlapped => g.seconds = Total(hg, Times))
    BY <1>1, <1>5, <1>10 DEF AllCounted
  <2>4. h.seconds <= Total(hh, Times)
    BY <1>3, <1>10, <1>16, <1>17, <2>1, <2>2, <2>3
  <2>5. ASSUME ~past'.overlapped
        PROVE  h.seconds = Total(hh, Times)
    <3>1. ~past.overlapped /\ g = read
      BY <1>5, <1>8, <2>5
    <3>2. h.seconds = g.seconds + secs
      BY <1>16, <1>17, <3>1
    <3> QED
      BY <2>1, <2>3, <3>1, <3>2
  <2> QED
    BY <1>5, <1>10, <2>4, <2>5 DEF AllCounted
<1>20. ASSUME ~past'.overlapped
       PROVE  RunsCounted(h, OrderedDays(lh)) /\ g.longest <= h.longest
  <2>1. ~past.overlapped /\ g = read /\ h = new
    BY <1>5, <1>8, <1>17, <1>20
  <2>2. RunsCounted(g, OrderedDays(lg))
    BY <1>1, <1>5, <2>1 DEF RunsRight
  <2>3. PICK more : more = OrderedDays(lg) \cup (IF day + 1 >= g.last THEN {day} ELSE {})
    OBVIOUS
  <2>4. RunsCounted(h, more) /\ g.longest <= h.longest
    BY <1>1, <1>3, <1>5, <1>16, <1>17, <2>1, <2>2, <2>3, RunsGo
  <2>5. OrderedDays(lh) \subseteq more
    BY <1>6, <1>9, <2>1, <2>3
  <2> QED
    BY <2>4, <2>5, RunsStay
<1>21. RunsRight'
  BY <1>5, <1>20 DEF RunsRight
<1>22. RecordsGrow
  <2>1. now' >= now
    BY <1>1, <1>7 DEF TotalsTyped, Times
  <2>2. \A w \in SUBSET Times :
           Total(heat, w) <= Total(heat', w) /\ Total(past.rowOnly, w) <= Total(past'.rowOnly, w)
    BY <1>10, <1>12, <1>13
  <2>3. past.overlapped => past'.overlapped
    BY <1>8
  <2>4. past'.overlapped \/ grade.longest <= grade'.longest
    BY <1>5, <1>20
  <2> QED
    BY <2>1, <2>2, <2>3, <2>4 DEF RecordsGrow
<1> QED
  BY <1>5, <1>9, <1>15, <1>17, <1>18, <1>19, <1>21, <1>22 DEF RecordsRight

LEMMA StartTimerRecords ==
    ASSUME RecordsRight, NEW l \in Logs, NEW b \in Titles, StartTimer(l, b)
    PROVE  RecordsRight' /\ RecordsGrow
<1>1. /\ LogsFit(logged) /\ TotalsTyped /\ GradeTyped(grade)
      /\ SecondsKnown /\ AllCounted /\ RunsRight
  BY DEF RecordsRight
<1>2. PICK lg, lh, x : lg = logged /\ lh = logged' /\ x = [source |-> "running", book |-> b, from |-> now]
  OBVIOUS
<1>3. /\ lh = [lg EXCEPT ![l] = x] /\ lg[l] = NoLog
      /\ heat' = heat /\ grade' = grade /\ past' = past /\ now' = now
  BY <1>2 DEF StartTimer, Unused
<1>4. RunShaped(x)
  BY <1>2 DEF RunShaped
<1>5. /\ LogsFit(lh) /\ OrderedDays(lh) = OrderedDays(lg)
      /\ \A w : SecsOf(lh, EndedDuring(lh, w)) = SecsOf(lg, EndedDuring(lg, w))
  <2>1. LogSet(lg, l, x, lh)
    BY <1>1, <1>2, <1>3 DEF LogSet
  <2>2. lg[l] = NoLog /\ RunShaped(x)
    BY <1>3, <1>4
  <2>3. LogsFit(lh) /\ OrderedDays(lh) = OrderedDays(lg)
    BY <2>1, <2>2, LogBegins
  <2>4. \A w : SecsOf(lh, EndedDuring(lh, w)) = SecsOf(lg, EndedDuring(lg, w))
    BY <2>1, <2>2, LogBegins
  <2> QED
    BY <2>3, <2>4
<1>6. TotalsTyped' /\ GradeTyped(grade)' /\ AllCounted'
  BY <1>1, <1>3 DEF TotalsTyped, AllCounted
<1>7. SecondsKnown'
  <2>1. \A w : Told(lh, past.heatOnly, w) = Told(lg, past.heatOnly, w)
    BY <1>5 DEF Told
  <2> QED
    BY <1>1, <1>2, <1>3, <2>1 DEF SecondsKnown
<1>8. RunsRight'
  BY <1>1, <1>2, <1>3, <1>5 DEF RunsRight
<1>9. RecordsGrow
  <2>1. now' >= now
    BY <1>1, <1>3 DEF TotalsTyped, Times
  <2> QED
    BY <1>3, <2>1, NothingFalls
<1> QED
  BY <1>2, <1>5, <1>6, <1>7, <1>8, <1>9 DEF RecordsRight

LEMMA LogByHandRecords ==
    ASSUME RecordsRight, NEW l \in Logs, NEW b \in Titles, NEW from \in Times, NEW to \in Times,
           NEW secs \in Amounts, LogByHand(l, b, from, to, secs)
    PROVE  RecordsRight' /\ RecordsGrow
<1> DEFINE x == [source |-> "manual", book |-> b, from |-> from, to |-> to,
                 secs |-> secs, inOrder |-> FALSE]
<1>0. secs \in Nat
  BY StatsAssumption
<1>1. /\ LogsFit(logged) /\ TotalsTyped /\ GradeTyped(grade)
      /\ SecondsKnown /\ AllCounted /\ RunsRight
  BY DEF RecordsRight
<1>2. /\ logged' = [logged EXCEPT ![l] = x] /\ logged[l] = NoLog
      /\ past'.rowOnly = [past.rowOnly EXCEPT ![to] = past.rowOnly[to] + secs]
      /\ past'.removed = past.removed /\ past'.heatOnly = past.heatOnly
      /\ past'.twice = past.twice /\ past'.overlapped = past.overlapped
      /\ past' = [finished |-> past'.finished, removed |-> past'.removed, rowOnly |-> past'.rowOnly,
                  heatOnly |-> past'.heatOnly, twice |-> past'.twice, overlapped |-> past'.overlapped]
      /\ heat' = heat /\ grade' = grade /\ now' = now
  BY <1>1 DEF LogByHand, Unused, TotalsTyped
<1>3. LogShaped(x) /\ x.to = to /\ x.secs = secs /\ ~x.inOrder
  BY <1>0 DEF LogShaped
<1>4. PICK lg, lh : lg = logged /\ lh = logged'
  OBVIOUS
<1>5. PICK y : y = x
  OBVIOUS
<1>6. /\ lh = [k \in Logs |-> lh[k]] /\ lh[l] = y /\ \A k \in Logs \ {l} : lh[k] = lg[k]
      /\ LogsFit(lg) /\ lg[l] = NoLog /\ LogShaped(y)
      /\ y.to = to /\ y.secs = secs /\ ~y.inOrder
  <2>1. lg = [k \in Logs |-> lg[k]]
    BY <1>1, <1>4 DEF LogsFit
  <2>2. lh = [lg EXCEPT ![l] = y]
    BY <1>2, <1>4, <1>5
  <2> QED
    BY <1>1, <1>2, <1>3, <1>4, <1>5, <2>1, <2>2
<1>7. /\ LogsFit(lh)
      /\ \A w \in SUBSET Times : SecsOf(lh, EndedDuring(lh, w))
                = SecsOf(lg, EndedDuring(lg, w)) + (IF to \in w THEN secs ELSE 0)
      /\ OrderedDays(lh) = OrderedDays(lg)
  <2> HIDE DEF x
  <2>1. LogMore(lg, l, y, lh)
    BY <1>6 DEF LogMore
  <2>2. /\ LogsFit(lh) /\ EndedOf(lh) = EndedOf(lg) \cup {l}
        /\ \A w : SecsOf(lh, EndedDuring(lh, w))
                  = SecsOf(lg, EndedDuring(lg, w)) + (IF y.to \in w THEN y.secs ELSE 0)
        /\ OrderedDays(lh) = OrderedDays(lg) \cup (IF y.inOrder THEN {y.to} ELSE {})
    BY <2>1, LogEntered
  <2> QED
    BY <1>6, <2>2
<1>8. past'.rowOnly \in [Times -> Nat] /\ \A w \in SUBSET Times :
         /\ Total(past'.rowOnly, w) = Total(past.rowOnly, w) + (IF to \in w THEN secs ELSE 0)
         /\ Total(past.rowOnly, w) <= Total(past'.rowOnly, w)
  <2>1. PICK f, e : f = past.rowOnly /\ e = past'.rowOnly
    OBVIOUS
  <2>2. DayMore(f, to, secs, e)
    BY <1>0, <1>1, <1>2, <2>1 DEF TotalsTyped, DayMore
  <2>3. e \in [Times -> Nat]
    BY <2>2, DayAdds
  <2>4. \A w \in SUBSET Times :
           /\ Total(e, w) = Total(f, w) + (IF to \in w THEN secs ELSE 0)
           /\ Total(f, w) <= Total(e, w)
    BY <2>2, DayAdds
  <2> QED
    BY <2>1, <2>3, <2>4
<1>11. TotalsTyped'
  BY <1>1, <1>2, <1>8 DEF TotalsTyped
<1>12. ASSUME NEW w \in SUBSET Times
       PROVE  /\ Total(heat, w) \in Nat /\ Total(past.rowOnly, w) \in Nat
              /\ Total(past.heatOnly, w) \in Nat
              /\ SecsOf(lg, EndedDuring(lg, w)) \in Nat
  BY <1>1, <1>6, LogsAre, DaysTotal DEF TotalsTyped
<1>13. SecondsKnown'
  <2> SUFFICES ASSUME NEW w \in SUBSET Times
               PROVE  /\ Told(lh, past.heatOnly, w) <= Known(heat, past'.rowOnly, w)
                      /\ ~past.removed /\ ~past.twice =>
                            Told(lh, past.heatOnly, w) = Known(heat, past'.rowOnly, w)
    BY <1>2, <1>4 DEF SecondsKnown
  <2>1. /\ Told(lg, past.heatOnly, w) <= Known(heat, past.rowOnly, w)
        /\ ~past.removed /\ ~past.twice => Told(lg, past.heatOnly, w) = Known(heat, past.rowOnly, w)
    BY <1>1, <1>4 DEF SecondsKnown
  <2>2. SecsOf(lh, EndedDuring(lh, w)) = SecsOf(lg, EndedDuring(lg, w)) + (IF to \in w THEN secs ELSE 0)
    BY <1>7
  <2>3. Total(past'.rowOnly, w) = Total(past.rowOnly, w) + (IF to \in w THEN secs ELSE 0)
    BY <1>8
  <2> QED
    BY <1>0, <1>12, <2>1, <2>2, <2>3 DEF Known, Told
<1>14. AllCounted' /\ GradeTyped(grade)' /\ RunsRight'
  BY <1>1, <1>2, <1>4, <1>7 DEF AllCounted, RunsRight
<1>15. RecordsGrow
  <2>1. now \in Int /\ grade.longest \in Nat
    BY <1>1 DEF TotalsTyped, GradeTyped, Times
  <2> QED
    BY <1>2, <1>8, <1>12, <2>1 DEF RecordsGrow
<1> QED
  BY <1>4, <1>7, <1>11, <1>13, <1>14, <1>15 DEF RecordsRight

LEMMA RemoveTitleRecords ==
    ASSUME RecordsRight, NEW b \in Titles, RemoveTitle(b)
    PROVE  RecordsRight' /\ RecordsGrow
<1>1. /\ LogsFit(logged) /\ TotalsTyped /\ GradeTyped(grade)
      /\ SecondsKnown /\ AllCounted /\ RunsRight
  BY DEF RecordsRight
<1>2. /\ past'.rowOnly = past.rowOnly /\ past'.removed = TRUE /\ past'.heatOnly = past.heatOnly
      /\ past'.twice = past.twice /\ past'.overlapped = past.overlapped
      /\ past' = [finished |-> past'.finished, removed |-> past'.removed, rowOnly |-> past'.rowOnly,
                  heatOnly |-> past'.heatOnly, twice |-> past'.twice, overlapped |-> past'.overlapped]
      /\ heat' = heat /\ grade' = grade /\ now' = now
  BY <1>1 DEF RemoveTitle, TotalsTyped
<1>3. PICK lg, lh : lg = logged /\ lh = logged'
  OBVIOUS
<1>4. /\ lh = [l \in Logs |-> lh[l]] /\ LogsFit(lg)
      /\ \A l \in Logs : lh[l] = NoLog \/ lh[l] = lg[l]
  BY <1>1, <1>3 DEF RemoveTitle
<1>5. /\ LogsFit(lh) /\ OrderedDays(lh) \subseteq OrderedDays(lg)
      /\ \A w : SecsOf(lh, EndedDuring(lh, w)) <= SecsOf(lg, EndedDuring(lg, w))
  BY <1>4, LogsLeave
<1>6. TotalsTyped'
  BY <1>1, <1>2 DEF TotalsTyped
<1>7. ASSUME NEW w \in SUBSET Times
      PROVE  /\ Total(heat, w) \in Nat /\ Total(past.rowOnly, w) \in Nat
             /\ Total(past.heatOnly, w) \in Nat
             /\ SecsOf(lg, EndedDuring(lg, w)) \in Nat /\ SecsOf(lh, EndedDuring(lh, w)) \in Nat
  BY <1>1, <1>4, <1>5, LogsAre, DaysTotal DEF TotalsTyped
<1>8. SecondsKnown'
  <2> SUFFICES ASSUME NEW w \in SUBSET Times
               PROVE  Told(lh, past.heatOnly, w) <= Known(heat, past.rowOnly, w)
    BY <1>2, <1>3 DEF SecondsKnown
  <2>1. Told(lg, past.heatOnly, w) <= Known(heat, past.rowOnly, w)
    BY <1>1, <1>3 DEF SecondsKnown
  <2>2. SecsOf(lh, EndedDuring(lh, w)) <= SecsOf(lg, EndedDuring(lg, w))
    BY <1>5
  <2> QED
    BY <1>7, <2>1, <2>2 DEF Known, Told
<1>9. AllCounted' /\ GradeTyped(grade)'
  BY <1>1, <1>2 DEF AllCounted
<1>10. RunsRight'
  <2>1. PICK g : g = grade
    OBVIOUS
  <2>2. past.overlapped \/ RunsCounted(g, OrderedDays(lh))
    BY <1>1, <1>3, <1>5, <2>1, RunsStay DEF RunsRight
  <2> QED
    BY <1>2, <1>3, <2>1, <2>2 DEF RunsRight
<1>11. RecordsGrow
  <2>1. now \in Int /\ grade.longest \in Nat
    BY <1>1 DEF TotalsTyped, GradeTyped, Times
  <2> QED
    BY <1>2, <1>7, <2>1 DEF RecordsGrow
<1> QED
  BY <1>3, <1>5, <1>6, <1>8, <1>9, <1>10, <1>11 DEF RecordsRight

\* A book more, or one whose status changes, and one that goes.
LEMMA ShelfSteps ==
    ASSUME RecordsRight, ShelfRight, NEW b \in Titles,
           \/ AddTitle(b) \/ RemoveTitle(b)
           \/ \E status \in {"reading", "completed"} : UpdateTitle(b, status)
    PROVE  ShelfRight'
<1>1. /\ held = [t \in Titles |-> held[t]] /\ mark = [m \in Bookmarks |-> mark[m]]
      /\ \A t \in Titles :
            /\ held[t] = [status |-> held[t].status, started |-> held[t].started, finished |-> Never]
            /\ held[t].status \in {"none", "reading", "completed"}
      /\ \A l \in Logs : logged[l] # NoLog => held[logged[l].book] # NotHeld
      /\ \A m \in Bookmarks : mark[m] # NoMark => mark[m].book \in Titles /\ held[mark[m].book] # NotHeld
  BY DEF ShelfRight
<1>2. \A l \in Logs : logged[l] # NoLog => logged[l].book \in Titles
  BY DEF RecordsRight, LogsFit, LogShaped, RunShaped
<1>3. ASSUME \/ AddTitle(b)
             \/ \E status \in {"reading", "completed"} : UpdateTitle(b, status)
      PROVE  ShelfRight'
  <2>1. PICK status, started :
          /\ status \in {"reading", "completed"}
          /\ held' = [held EXCEPT ![b] = [status |-> status, started |-> started, finished |-> Never]]
          /\ logged' = logged /\ mark' = mark
    <3>1. ASSUME AddTitle(b)
          PROVE  /\ held' = [held EXCEPT ![b] = [status |-> "reading", started |-> now,
                                                 finished |-> Never]]
                 /\ logged' = logged /\ mark' = mark
      BY <3>1 DEF AddTitle
    <3>2. ASSUME NEW status \in {"reading", "completed"}, UpdateTitle(b, status)
          PROVE  /\ held' = [held EXCEPT ![b] = [status |-> status, started |-> held[b].started,
                                                 finished |-> Never]]
                 /\ logged' = logged /\ mark' = mark
      <4>1. held[b] = [status |-> held[b].status, started |-> held[b].started, finished |-> Never]
        BY <1>1
      <4>2. [held[b] EXCEPT !.status = status]
              = [status |-> status, started |-> held[b].started, finished |-> Never]
        BY <4>1
      <4>3. held' = [held EXCEPT ![b] = [held[b] EXCEPT !.status = status]]
        BY <3>2 DEF UpdateTitle
      <4> QED
        BY <3>2, <4>2, <4>3 DEF UpdateTitle
    <3> QED
      BY <1>3, <3>1, <3>2
  <2>2. PICK row : row = [status |-> status, started |-> started, finished |-> Never]
    OBVIOUS
  <2>3. /\ row # NotHeld /\ row.status \in {"none", "reading", "completed"}
        /\ row = [status |-> row.status, started |-> row.started, finished |-> Never]
    BY <2>1, <2>2 DEF NotHeld
  <2>4. /\ held' = [t \in Titles |-> held'[t]]
        /\ \A t \in Titles : held'[t] = IF t = b THEN row ELSE held[t]
    BY <1>1, <2>1, <2>2
  <2>5. \A t \in Titles :
            /\ held'[t] = [status |-> held'[t].status, started |-> held'[t].started, finished |-> Never]
            /\ held'[t].status \in {"none", "reading", "completed"}
            /\ held[t] # NotHeld => held'[t] # NotHeld
    BY <1>1, <2>3, <2>4
  <2> QED
    BY <1>1, <1>2, <2>1, <2>4, <2>5 DEF ShelfRight
<1>4. ASSUME RemoveTitle(b)
      PROVE  ShelfRight'
  <2>1. /\ held' = [t \in Titles |-> held'[t]]
        /\ \A t \in Titles : held'[t] = IF t = b THEN NotHeld ELSE held[t]
    BY <1>1, <1>4 DEF RemoveTitle
  <2>2. \A t \in Titles :
            /\ held'[t] = [status |-> held'[t].status, started |-> held'[t].started, finished |-> Never]
            /\ held'[t].status \in {"none", "reading", "completed"}
    BY <1>1, <2>1 DEF NotHeld
  <2>3. \A l \in Logs : logged'[l] # NoLog => logged'[l] = logged[l] /\ logged[l].book # b
    BY <1>4 DEF RemoveTitle
  <2>4. mark' = [m \in Bookmarks |-> mark'[m]] /\ \A m \in Bookmarks :
            mark'[m] # NoMark => mark'[m] = mark[m] /\ mark[m].book # b
    BY <1>4 DEF RemoveTitle
  <2>5. \A l \in Logs : logged'[l] # NoLog => held'[logged'[l].book] # NotHeld
    BY <1>1, <1>2, <2>1, <2>3
  <2>6. \A m \in Bookmarks : mark'[m] # NoMark =>
            mark'[m].book \in Titles /\ held'[mark'[m].book] # NotHeld
    BY <1>1, <2>1, <2>4
  <2> QED
    BY <2>1, <2>2, <2>4, <2>5, <2>6 DEF ShelfRight
<1> QED
  BY <1>3, <1>4

\* A session or a bookmark of a book that is kept.
LEMMA ShelfStays ==
    ASSUME ShelfRight, RecordsRight, held' = held,
           \/ logged' = logged
           \/ \E l \in Logs, b \in Titles : \E x : /\ logged' = [logged EXCEPT ![l] = x]
                                                 /\ x.book = b /\ held[b] # NotHeld,
           \/ mark' = mark
           \/ \E m \in Bookmarks, b \in Titles : \E x : /\ mark' = [mark EXCEPT ![m] = x]
                                                      /\ x.book = b /\ held[b] # NotHeld
    PROVE  ShelfRight'
<1>1. logged = [l \in Logs |-> logged[l]]
  BY DEF RecordsRight, LogsFit
<1>2. \A l \in Logs : logged'[l] # NoLog => held[logged'[l].book] # NotHeld
  <2>1. CASE logged' = logged
    BY <2>1 DEF ShelfRight
  <2>2. ASSUME NEW l \in Logs, NEW b \in Titles, NEW x, logged' = [logged EXCEPT ![l] = x],
               x.book = b, held[b] # NotHeld
        PROVE  \A k \in Logs : logged'[k] # NoLog => held[logged'[k].book] # NotHeld
    <3>1. logged'[l] = x /\ \A k \in Logs : k # l => logged'[k] = logged[k]
      BY <1>1, <2>2
    <3> QED
      BY <2>2, <3>1 DEF ShelfRight
  <2> QED
    BY <2>1, <2>2
<1>3. /\ mark' = [m \in Bookmarks |-> mark'[m]]
      /\ \A m \in Bookmarks : mark'[m] # NoMark =>
            mark'[m].book \in Titles /\ held[mark'[m].book] # NotHeld
  <2>1. CASE mark' = mark
    BY <2>1 DEF ShelfRight
  <2>2. ASSUME NEW m \in Bookmarks, NEW b \in Titles, NEW x, mark' = [mark EXCEPT ![m] = x],
               x.book = b, held[b] # NotHeld
        PROVE  /\ mark' = [k \in Bookmarks |-> mark'[k]]
               /\ \A k \in Bookmarks : mark'[k] # NoMark =>
                     mark'[k].book \in Titles /\ held[mark'[k].book] # NotHeld
    <3>1. mark = [k \in Bookmarks |-> mark[k]]
      BY DEF ShelfRight
    <3>2. /\ mark' = [k \in Bookmarks |-> mark'[k]]
          /\ mark'[m] = x /\ \A k \in Bookmarks : k # m => mark'[k] = mark[k]
      BY <2>2, <3>1
    <3> QED
      BY <2>2, <3>2 DEF ShelfRight
  <2> QED
    BY <2>1, <2>2
<1> QED
  BY <1>2, <1>3 DEF ShelfRight

LEMMA WindowIn ==
    ASSUME NEW period \in CalendarNames, NEW d \in Times
    PROVE  Window(period, d) \in Calendar[period] /\ Window(period, d) \subseteq Times
<1> DEFINE S == {w \in Calendar[period] : d \in w}
<1>1. Cardinality(S) = 1
  BY StatsAssumption
<1>2. S # {}
  BY <1>1, FS_EmptySet
<1>3. Window(period, d) \in Calendar[period]
  BY <1>2 DEF Window
<1> QED
  BY <1>3, StatsAssumption

LEMMA GoalSteps ==
    ASSUME GoalsTyped, TotalsTyped, NEW g \in Goals, NEW period \in {"weekly", "monthly", "yearly"},
           NEW books \in Amounts, NEW seconds \in Amounts, CreateGoal(g, period, books, seconds)
    PROVE  GoalsTyped'
<1>1. PICK x : x = [period |-> period, books |-> books, seconds |-> seconds, window |-> Window(period, now)]
  OBVIOUS
<1>2. x.books \in Nat /\ x.seconds \in Nat /\ x.window \subseteq Times
  <2>1. period \in CalendarNames /\ now \in Times
    BY DEF CalendarNames, TotalsTyped
  <2>2. Window(period, now) \subseteq Times
    BY <2>1, WindowIn
  <2>3. books \in Nat /\ seconds \in Nat
    BY StatsAssumption
  <2> QED
    BY <1>1, <2>2, <2>3
<1>3. goal = [k \in Goals |-> goal[k]]
  BY DEF GoalsTyped
<1>4. goal' = [goal EXCEPT ![g] = x]
  BY <1>1 DEF CreateGoal
<1>5. goal' = [k \in Goals |-> goal'[k]] /\ \A k \in Goals : goal'[k] = IF k = g THEN x ELSE goal[k]
  BY <1>3, <1>4
<1> QED
  BY <1>2, <1>5 DEF GoalsTyped

LEMMA SecondsAre ==
    ASSUME NEW w
    PROVE  Seconds(EndedIn(w)) = SecsOf(logged, EndedDuring(logged, w))
<1>1. EndedIn(w) = EndedDuring(logged, w)
  BY DEF EndedIn, Ended, EndedDuring, EndedOf
<1> QED
  BY <1>1 DEF Seconds, SecsOf

LEMMA RecapsAreDays ==
    ASSUME NEW w \in Recaps
    PROVE  w \subseteq Times
<1>1. "half" \in CalendarNames /\ "yearly" \in CalendarNames
  BY DEF CalendarNames
<1> QED
  BY <1>1, StatsAssumption DEF Recaps

LEMMA AnswerIsRight ==
    ASSUME RecordsRight, NEW s \in Screens
    PROVE  AnswerRight(s, Answer(s), heat, past.rowOnly, grade.longest, past.overlapped)
<1>1. ASSUME NEW w \in Recaps, s = <<"recap", w>>
      PROVE  AnswerRight(s, Answer(s), heat, past.rowOnly, grade.longest, past.overlapped)
  <2>1. s[1] = "recap" /\ s[2] = w
    BY <1>1
  <2>2. Answer(s) = GetReadingRecap(w)
    BY <2>1 DEF Answer
  <2>3. Answer(s).seconds = Seconds(EndedIn(w)) /\ Answer(s).longest = grade.longest
    BY <2>2 DEF GetReadingRecap, RecapAggregate
  <2>4. w \subseteq Times
    BY RecapsAreDays
  <2>5. Seconds(EndedIn(w)) \in Nat /\ Seconds(EndedIn(w)) <= Known(heat, past.rowOnly, w)
    <3>1. SecsOf(logged, EndedDuring(logged, w)) \in Nat
      BY LogsAre DEF RecordsRight
    <3>2. Told(logged, past.heatOnly, w) <= Known(heat, past.rowOnly, w)
      BY <2>4 DEF RecordsRight, SecondsKnown
    <3>3. /\ Total(heat, w) \in Nat /\ Total(past.rowOnly, w) \in Nat
          /\ Total(past.heatOnly, w) \in Nat
      BY <2>4, DaysTotal DEF RecordsRight, TotalsTyped
    <3>4. SecsOf(logged, EndedDuring(logged, w)) <= Known(heat, past.rowOnly, w)
      BY <3>1, <3>2, <3>3 DEF Told, Known
    <3> QED
      BY <3>1, <3>4, SecondsAre
  <2>6. grade.longest \in Nat /\ grade.longest <= grade.longest
    BY DEF RecordsRight, GradeTyped
  <2>7. s[1] # "stats"
    BY <2>1
  <2> QED
    BY <2>1, <2>3, <2>4, <2>5, <2>6, <2>7 DEF AnswerRight
<1>2. ASSUME s = <<"stats", {}>>
      PROVE  AnswerRight(s, Answer(s), heat, past.rowOnly, grade.longest, past.overlapped)
  <2>1. s[1] = "stats" /\ s[1] # "recap"
    BY <1>2
  <2>2. Answer(s).months = MonthlyHours
    BY <2>1 DEF Answer, GetReadingStats
  <2>3. ASSUME NEW w \in DOMAIN MonthlyHours
        PROVE  w \subseteq Times /\ MonthlyHours[w] \in Nat /\ MonthlyHours[w] <= Total(heat, w)
    <3>1. w \in Calendar["monthly"] /\ MonthlyHours[w] = Total(heat, w)
      BY <2>3 DEF MonthlyHours, Recent
    <3>2. w \subseteq Times
      <4>1. "monthly" \in CalendarNames
        BY DEF CalendarNames
      <4> QED
        BY <3>1, <4>1, StatsAssumption
    <3>3. Total(heat, w) \in Nat
      BY <3>2, DaysTotal DEF RecordsRight, TotalsTyped
    <3> QED
      BY <3>1, <3>2, <3>3
  <2> QED
    BY <2>1, <2>2, <2>3 DEF AnswerRight
<1> QED
  BY <1>1, <1>2 DEF Screens

LEMMA ScreenSteps ==
    ASSUME RecordsRight, ScreensRight, NEW r \in ScreenCalls,
           ScreenKept(r) \/ ScreenShown(r) \/ \E s \in Screens : OpenScreen(r, s)
    PROVE  ScreensRight'
<1>0. now \in Int
  BY DEF RecordsRight, TotalsTyped, Times
<1>1. /\ screen = [s \in Screens |-> screen[s]] /\ screenCall = [q \in ScreenCalls |-> screenCall[q]]
      /\ \A s \in Screens : screen[s].until \in Int
      /\ \A s \in Screens : screen[s].until > now =>
            AnswerRight(s, screen[s].answer, heat, past.rowOnly, grade.longest, past.overlapped)
      /\ \A q \in ScreenCalls : screenCall[q].op = "open" =>
            /\ screenCall[q].of \in Screens
            /\ AnswerRight(screenCall[q].of, screenCall[q].answer, heat, past.rowOnly, grade.longest, past.overlapped)
  BY DEF ScreensRight
<1>2. ASSUME NEW s \in Screens, OpenScreen(r, s)
      PROVE  ScreensRight'
  <2>1. PICK x : x = [op |-> "open", of |-> s, answer |-> Answer(s)]
    OBVIOUS
  <2>2. AnswerRight(x.of, x.answer, heat, past.rowOnly, grade.longest, past.overlapped) /\ x.of \in Screens
    BY <2>1, AnswerIsRight
  <2>3. /\ screenCall' = [q \in ScreenCalls |-> screenCall'[q]]
        /\ \A q \in ScreenCalls : screenCall'[q] = IF q = r THEN x ELSE screenCall[q]
    BY <1>1, <1>2, <2>1 DEF OpenScreen
  <2>4. screen' = screen /\ now' = now /\ heat' = heat /\ past' = past /\ grade' = grade
    BY <1>2 DEF OpenScreen
  <2> QED
    BY <1>1, <2>2, <2>3, <2>4 DEF ScreensRight
<1>3. ASSUME ScreenKept(r) \/ ScreenShown(r)
      PROVE  ScreensRight'
  <2>1. /\ screenCall[r].op = "open" /\ screenCall' = [screenCall EXCEPT ![r] = NoScreen]
        /\ now' = now /\ heat' = heat /\ past' = past /\ grade' = grade
    BY <1>3 DEF ScreenKept, ScreenShown
  <2>2. /\ screenCall' = [q \in ScreenCalls |-> screenCall'[q]]
        /\ \A q \in ScreenCalls : screenCall'[q] = IF q = r THEN NoScreen ELSE screenCall[q]
    BY <1>1, <2>1
  <2>3. NoScreen.op # "open"
    BY DEF NoScreen
  <2>4. PICK t, x : t = screenCall[r].of /\ x = [until |-> now + ScreenLife, answer |-> screenCall[r].answer]
    OBVIOUS
  <2>5. /\ t \in Screens /\ AnswerRight(t, x.answer, heat, past.rowOnly, grade.longest, past.overlapped)
        /\ x.until \in Int
    BY <1>0, <1>1, <2>1, <2>4, StatsAssumption
  <2>6. /\ screen' = [s \in Screens |-> screen'[s]]
        /\ \A s \in Screens : screen'[s] = screen[s] \/ (s = t /\ screen'[s] = x)
    <3>1. CASE screen' = screen
      BY <1>1, <3>1
    <3>2. CASE screen' = [screen EXCEPT ![t] = x]
      BY <1>1, <3>2
    <3> QED
      BY <1>3, <2>4, <3>1, <3>2 DEF ScreenKept, ScreenShown
  <2>7. \A s \in Screens : /\ screen'[s].until \in Int
                           /\ screen'[s].until > now =>
                                AnswerRight(s, screen'[s].answer, heat, past.rowOnly, grade.longest, past.overlapped)
    BY <1>1, <2>5, <2>6
  <2>8. \A q \in ScreenCalls : screenCall'[q].op = "open" =>
            /\ screenCall'[q].of \in Screens
            /\ AnswerRight(screenCall'[q].of, screenCall'[q].answer, heat, past.rowOnly, grade.longest, past.overlapped)
    BY <1>1, <2>2, <2>3
  <2> QED
    BY <2>1, <2>2, <2>6, <2>7, <2>8 DEF ScreensRight
<1> QED
  BY <1>2, <1>3

\* Requests that end sessions, when records change and when one of them moves.
LEMMA EndingsMove ==
    ASSUME RecordsRight, RecordsGrow, EndingFits, NEW r \in EndCalls,
           ending' = [q \in EndCalls |-> ending'[q]],
           \A q \in EndCalls : ending'[q] = IF q = r THEN NoEnd ELSE ending[q], NoEnd.op = "idle",
           \A k \in Logs : \/ logged'[k] = logged[k]
                           \/ logged'[k] # NoLog /\ logged'[k].source # "manual",
           heat' \in [Times -> Nat]
    PROVE  EndingFits'
<1>1. heat \in [Times -> Nat]
  BY DEF RecordsRight, TotalsTyped
<1>2. Total(heat, Times) <= Total(heat', Times) /\ Total(heat, Times) \in Nat /\ Total(heat', Times) \in Nat
  BY <1>1, DaysTotal DEF RecordsGrow
<1>3. ASSUME NEW q \in EndCalls, q # r
      PROVE  /\ EndFits(ending[q])
             /\ ending[q].op # "idle" => logged'[ending[q].log].source # "manual"
             /\ ending[q].op = "updated" =>
                   logged'[ending[q].log] # NoLog /\ ending[q].read.seconds <= Total(heat', Times)
  <2>1. /\ EndFits(ending[q])
        /\ ending[q].op # "idle" => logged[ending[q].log].source # "manual"
        /\ ending[q].op = "updated" =>
              logged[ending[q].log] # NoLog /\ ending[q].read.seconds <= Total(heat, Times)
    BY DEF EndingFits
  <2>2. ending[q].op # "idle" => ending[q].log \in Logs
    BY <2>1 DEF EndFits
  <2>3. ending[q].op = "updated" => ending[q].read.seconds \in Nat
    BY <2>1 DEF EndFits, GradeTyped
  <2> QED
    BY <1>2, <2>1, <2>2, <2>3
<1>4. EndFits(NoEnd) /\ NoEnd.op # "updated"
  BY DEF EndFits
<1> QED
  BY <1>3, <1>4 DEF EndingFits

LEMMA EndingStands ==
    ASSUME RecordsRight, RecordsRight', RecordsGrow, EndingFits, ending' = ending,
           \/ logged' = logged
           \/ \A k \in Logs : \/ logged'[k] = logged[k]
                              \/ logged'[k] = NoLog /\ Unlocked(k)
                              \/ Unused(k)
    PROVE  EndingFits'
<1>1. heat \in [Times -> Nat] /\ heat' \in [Times -> Nat]
  BY DEF RecordsRight, TotalsTyped
<1>2. Total(heat, Times) <= Total(heat', Times) /\ Total(heat, Times) \in Nat /\ Total(heat', Times) \in Nat
  BY <1>1, DaysTotal DEF RecordsGrow
<1>3. ASSUME NEW q \in EndCalls
      PROVE  /\ EndFits(ending[q])
             /\ ending[q].op # "idle" => logged'[ending[q].log].source # "manual"
             /\ ending[q].op = "updated" =>
                   logged'[ending[q].log] # NoLog /\ ending[q].read.seconds <= Total(heat', Times)
  <2>1. /\ EndFits(ending[q])
        /\ ending[q].op # "idle" => logged[ending[q].log].source # "manual"
        /\ ending[q].op = "updated" =>
              logged[ending[q].log] # NoLog /\ ending[q].read.seconds <= Total(heat, Times)
    BY DEF EndingFits
  <2>2. ending[q].op # "idle" => ending[q].log \in Logs
    BY <2>1 DEF EndFits
  <2>3. ending[q].op = "updated" => ending[q].read.seconds \in Nat
    BY <2>1 DEF EndFits, GradeTyped
  <2>4. ending[q].op # "idle" => ~Unused(ending[q].log)
    BY DEF Unused, NoEnd
  <2>5. ending[q].op = "updated" => ~Unlocked(ending[q].log)
    BY DEF Unlocked
  <2>6. NoLog.source # "manual"
    BY DEF NoLog
  <2> QED
    BY <1>2, <2>1, <2>2, <2>3, <2>4, <2>5, <2>6
<1> QED
  BY <1>3 DEF EndingFits

LEMMA EndingSteps ==
    ASSUME RecordsRight, EndingFits, logged' = logged, heat' = heat, NEW r \in EndCalls,
           \/ SessionNotEnded(r) \/ \E l \in Logs : EndTimer(r, l)
           \/ \E to, day \in Times, secs \in Amounts : SessionUpdated(r, to, day, secs)
    PROVE  EndingFits'
<1>1. PICK e : /\ ending' = [ending EXCEPT ![r] = e] /\ EndFits(e)
               /\ e.op # "idle" => logged[e.log].source # "manual"
               /\ e.op = "updated" => logged[e.log] # NoLog /\ e.read.seconds <= Total(heat, Times)
  <2>1. CASE SessionNotEnded(r)
    <3>1. EndFits(NoEnd) /\ NoEnd.op = "idle" /\ NoEnd.op # "updated"
      BY DEF EndFits, NoEnd
    <3> QED
      BY <2>1, <3>1 DEF SessionNotEnded
  <2>2. ASSUME NEW l \in Logs, EndTimer(r, l)
        PROVE  \E e : /\ ending' = [ending EXCEPT ![r] = e] /\ EndFits(e)
                      /\ e.op # "idle" => logged[e.log].source # "manual"
                      /\ e.op = "updated" => logged[e.log] # NoLog /\ e.read.seconds <= Total(heat, Times)
    <3>1. PICK e : e = [op |-> "loaded", log |-> l]
      OBVIOUS
    <3>2. e.op = "loaded" /\ e.log = l
      BY <3>1
    <3>3. EndFits(e)
      BY <3>2 DEF EndFits
    <3>4. ending' = [ending EXCEPT ![r] = e] /\ logged[l].source # "manual"
      BY <2>2, <3>1 DEF EndTimer
    <3> QED
      BY <3>2, <3>3, <3>4
  <2>3. ASSUME NEW to \in Times, NEW day \in Times, NEW secs \in Amounts, SessionUpdated(r, to, day, secs)
        PROVE  \E e : /\ ending' = [ending EXCEPT ![r] = e] /\ EndFits(e)
                      /\ e.op # "idle" => logged[e.log].source # "manual"
                      /\ e.op = "updated" => logged[e.log] # NoLog /\ e.read.seconds <= Total(heat, Times)
    <3>1. PICK e : e = [op |-> "updated", log |-> ending[r].log, to |-> to, day |-> day, secs |-> secs,
                        read |-> grade]
      OBVIOUS
    <3>2. /\ e.op = "updated" /\ e.log = ending[r].log /\ e.to = to /\ e.day = day /\ e.secs = secs
          /\ e.read = grade
      BY <3>1
    <3>3. ending[r].op # "idle" /\ logged[e.log] # NoLog /\ ending' = [ending EXCEPT ![r] = e]
      BY <2>3, <3>1, <3>2 DEF SessionUpdated
    <3>4. e.log \in Logs /\ logged[e.log].source # "manual"
      BY <3>2, <3>3 DEF EndingFits, EndFits
    <3>5. secs \in Nat
      BY StatsAssumption
    <3>6. GradeTyped(grade) /\ grade.seconds <= Total(heat, Times)
      BY DEF RecordsRight, AllCounted
    <3>7. EndFits(e)
      BY <3>2, <3>4, <3>5, <3>6 DEF EndFits
    <3> QED
      BY <3>2, <3>3, <3>4, <3>6, <3>7
  <2> QED
    BY <2>1, <2>2, <2>3
<1>2. /\ ending' = [q \in EndCalls |-> ending'[q]]
      /\ \A q \in EndCalls : ending'[q] = IF q = r THEN e ELSE ending[q]
  BY <1>1 DEF EndingFits
<1> QED
  BY <1>1, <1>2 DEF EndingFits

LEMMA StatsStep == StatsInv /\ [StatsNext \/ (Tick /\ UNCHANGED stats)]_StatsVars => StatsInv'
<1> SUFFICES ASSUME RecordsRight, EndingFits, ScreensRight, ShelfRight, GoalsTyped,
                    [StatsNext \/ (Tick /\ UNCHANGED stats)]_StatsVars
             PROVE  StatsInv'
  BY DEF StatsInv
<1>0. now \in Times /\ Times \subseteq Nat /\ TotalsTyped
  BY DEF RecordsRight, TotalsTyped, Times
<1>1. ASSUME UNCHANGED stats, Tick \/ now' = now
      PROVE  StatsInv'
  <2>1. now' \in Times /\ now' >= now
    BY <1>0, <1>1, ClockAssumption DEF Tick, Times
  <2>2. RecordsKept
    BY <1>0, <1>1, <2>1 DEF RecordsKept, PastKept, stats, TotalsTyped
  <2>3. RecordsRight' /\ RecordsGrow
    BY <2>2, RecordsStand
  <2>4. ScreensRight'
    BY <1>1, <2>3, ScreensStand DEF stats
  <2>5. ShelfRight' /\ GoalsTyped'
    BY <1>1 DEF stats, ShelfRight, GoalsTyped
  <2>6. EndingFits'
    BY <1>1, <2>3, EndingStands DEF stats
  <2> QED
    BY <2>3, <2>4, <2>5, <2>6 DEF StatsInv
<1>2. ASSUME NEW b \in Titles, \/ AddTitle(b) \/ RemoveTitle(b)
                               \/ \E status \in {"reading", "completed"} : UpdateTitle(b, status)
      PROVE  StatsInv'
  <2>1. RecordsRight' /\ RecordsGrow
    <3>1. CASE RemoveTitle(b)
      BY <3>1, RemoveTitleRecords
    <3>2. CASE \/ AddTitle(b)
               \/ \E status \in {"reading", "completed"} : UpdateTitle(b, status)
      <4>1. RecordsKept
        BY <1>0, <3>2 DEF RecordsKept, PastKept, AddTitle, UpdateTitle, TotalsTyped
      <4> QED
        BY <4>1, RecordsStand
    <3> QED
      BY <1>2, <3>1, <3>2
  <2>2. screen' = screen /\ screenCall' = screenCall /\ goal' = goal
    BY <1>2 DEF AddTitle, RemoveTitle, UpdateTitle
  <2>3. ScreensRight'
    BY <2>1, <2>2, ScreensStand
  <2>4. ShelfRight'
    BY <1>2, ShelfSteps
  <2>5. GoalsTyped'
    BY <2>2 DEF GoalsTyped
  <2>6. EndingFits'
    <3>1. ending' = ending
      BY <1>2 DEF AddTitle, RemoveTitle, UpdateTitle
    <3>2. \A l \in Logs : logged'[l] = logged[l] \/ (logged'[l] = NoLog /\ Unlocked(l))
      BY <1>2 DEF AddTitle, RemoveTitle, UpdateTitle, RecordsRight, LogsFit
    <3> QED
      BY <2>1, <3>1, <3>2, EndingStands
  <2> QED
    BY <2>1, <2>3, <2>4, <2>5, <2>6 DEF StatsInv
<1>3. ASSUME NEW b \in Titles, NEW l \in Logs,
             \/ StartTimer(l, b)
             \/ \E from, to \in Times, secs \in Amounts : LogByHand(l, b, from, to, secs)
      PROVE  StatsInv'
  <2>1. RecordsRight' /\ RecordsGrow
    BY <1>3, StartTimerRecords, LogByHandRecords
  <2>2. /\ screen' = screen /\ screenCall' = screenCall /\ goal' = goal /\ held' = held /\ mark' = mark
        /\ held[b] # NotHeld /\ ending' = ending
    BY <1>3 DEF StartTimer, LogByHand
  <2>3. ScreensRight'
    BY <2>1, <2>2, ScreensStand
  <2>4. \E x : logged' = [logged EXCEPT ![l] = x] /\ x.book = b /\ held[b] # NotHeld
    <3>1. CASE StartTimer(l, b)
      <4>1. PICK x : x = [source |-> "running", book |-> b, from |-> now]
        OBVIOUS
      <4>2. logged' = [logged EXCEPT ![l] = x] /\ x.book = b
        BY <3>1, <4>1 DEF StartTimer
      <4> QED
        BY <2>2, <4>2
    <3>2. ASSUME NEW from \in Times, NEW to \in Times, NEW secs \in Amounts, LogByHand(l, b, from, to, secs)
          PROVE  \E x : logged' = [logged EXCEPT ![l] = x] /\ x.book = b /\ held[b] # NotHeld
      <4>1. PICK x : x = [source |-> "manual", book |-> b, from |-> from, to |-> to,
                          secs |-> secs, inOrder |-> FALSE]
        OBVIOUS
      <4>2. logged' = [logged EXCEPT ![l] = x] /\ x.book = b
        BY <3>2, <4>1 DEF LogByHand
      <4> QED
        BY <2>2, <4>2
    <3> QED
      BY <1>3, <3>1, <3>2
  <2>5. ShelfRight'
    BY <2>2, <2>4, ShelfStays
  <2>6. GoalsTyped'
    BY <2>2 DEF GoalsTyped
  <2>7. EndingFits'
    <3>1. Unused(l)
      BY <1>3 DEF StartTimer, LogByHand
    <3>2. \A k \in Logs : logged'[k] = logged[k] \/ (k = l /\ Unused(l))
      BY <2>4, <3>1 DEF RecordsRight, LogsFit
    <3> QED
      BY <2>1, <2>2, <3>2, EndingStands
  <2> QED
    BY <2>1, <2>3, <2>5, <2>6, <2>7 DEF StatsInv
<1>3a. ASSUME NEW r \in EndCalls, SessionCommitted(r)
       PROVE  StatsInv'
  <2>1. RecordsRight' /\ RecordsGrow
    BY <1>3a, CommittedRecords
  <2>2. /\ screen' = screen /\ screenCall' = screenCall /\ goal' = goal /\ held' = held /\ mark' = mark
    BY <1>3a DEF SessionCommitted
  <2>3. ScreensRight'
    BY <2>1, <2>2, ScreensStand
  <2>4. PICK l, x : /\ l = ending[r].log
                    /\ x = [source |-> "timer", book |-> logged[l].book, from |-> logged[l].from,
                            to |-> ending[r].to, secs |-> ending[r].secs,
                            inOrder |-> ending[r].to = ending[r].day
                                        /\ ending[r].day + 1 >= ending[r].read.last]
    OBVIOUS
  <2>5. /\ logged' = [logged EXCEPT ![l] = x] /\ x.book = logged[l].book /\ x.source = "timer"
        /\ ending' = [ending EXCEPT ![r] = NoEnd]
    BY <1>3a, <2>4 DEF SessionCommitted
  <2>6. l \in Logs /\ logged[l] # NoLog
    <3>1. ending[r].op = "updated" /\ ending[r].op # "idle"
      BY <1>3a DEF SessionCommitted
    <3> QED
      BY <2>4, <3>1 DEF EndingFits, EndFits
  <2>7. x.book \in Titles /\ held[x.book] # NotHeld
    BY <2>5, <2>6 DEF ShelfRight, RecordsRight, LogsFit, LogShaped, RunShaped
  <2>8. ShelfRight'
    BY <2>2, <2>5, <2>6, <2>7, ShelfStays
  <2>9. GoalsTyped'
    BY <2>2 DEF GoalsTyped
  <2>10. EndingFits'
    <3>1. x # NoLog /\ x.source # "manual"
      BY <2>5 DEF NoLog
    <3>2. \A k \in Logs : \/ logged'[k] = logged[k]
                          \/ logged'[k] # NoLog /\ logged'[k].source # "manual"
      BY <2>5, <3>1 DEF RecordsRight, LogsFit
    <3>3. NoEnd.op = "idle"
      BY DEF NoEnd
    <3>4. /\ ending' = [q \in EndCalls |-> ending'[q]]
          /\ \A q \in EndCalls : ending'[q] = IF q = r THEN NoEnd ELSE ending[q]
      BY <2>5 DEF EndingFits
    <3>5. heat' \in [Times -> Nat]
      BY <2>1 DEF RecordsRight, TotalsTyped
    <3> QED
      BY <2>1, <3>2, <3>3, <3>4, <3>5, EndingsMove
  <2> QED
    BY <2>1, <2>3, <2>8, <2>9, <2>10 DEF StatsInv
<1>3b. ASSUME NEW r \in EndCalls,
              \/ SessionNotEnded(r) \/ \E l \in Logs : EndTimer(r, l)
              \/ \E to, day \in Times, secs \in Amounts : SessionUpdated(r, to, day, secs)
       PROVE  StatsInv'
  <2>1. RecordsKept /\ held' = held /\ mark' = mark /\ logged' = logged /\ goal' = goal
        /\ screen' = screen /\ screenCall' = screenCall
    BY <1>0, <1>3b DEF RecordsKept, PastKept, SessionNotEnded, EndTimer, SessionUpdated, TotalsTyped
  <2>2. RecordsRight' /\ RecordsGrow
    BY <2>1, RecordsStand
  <2>3. ScreensRight'
    BY <2>1, <2>2, ScreensStand
  <2>4. ShelfRight' /\ GoalsTyped'
    BY <2>1 DEF ShelfRight, GoalsTyped
  <2>5. EndingFits'
    BY <1>3b, <2>1, EndingSteps DEF RecordsKept
  <2> QED
    BY <2>2, <2>3, <2>4, <2>5 DEF StatsInv
<1>4. ASSUME NEW b \in Titles, NEW m \in Bookmarks, NEW page \in Amounts, AddBookmark(m, b, page)
      PROVE  StatsInv'
  <2>1. RecordsKept
    BY <1>0, <1>4 DEF RecordsKept, PastKept, AddBookmark, TotalsTyped
  <2>2. RecordsRight' /\ RecordsGrow
    BY <2>1, RecordsStand
  <2>3. /\ screen' = screen /\ screenCall' = screenCall /\ goal' = goal /\ held' = held
        /\ logged' = logged /\ held[b] # NotHeld
    BY <1>4 DEF AddBookmark
  <2>4. ScreensRight'
    BY <2>2, <2>3, ScreensStand
  <2>5. \E x : mark' = [mark EXCEPT ![m] = x] /\ x.book = b /\ held[b] # NotHeld
    <3>1. PICK x : x = [book |-> b, page |-> page, at |-> now]
      OBVIOUS
    <3>2. mark' = [mark EXCEPT ![m] = x] /\ x.book = b
      BY <1>4, <3>1 DEF AddBookmark
    <3> QED
      BY <2>3, <3>2
  <2>6. ShelfRight'
    BY <2>3, <2>5, ShelfStays
  <2>7. GoalsTyped'
    BY <2>3 DEF GoalsTyped
  <2>8. EndingFits'
    BY <1>4, <2>2, EndingStands DEF AddBookmark
  <2> QED
    BY <2>2, <2>4, <2>6, <2>7, <2>8 DEF StatsInv
<1>5. ASSUME NEW g \in Goals, NEW period \in {"weekly", "monthly", "yearly"}, NEW books \in Amounts,
             NEW seconds \in Amounts, CreateGoal(g, period, books, seconds)
      PROVE  StatsInv'
  <2>1. RecordsKept
    BY <1>0, <1>5 DEF RecordsKept, PastKept, CreateGoal, TotalsTyped
  <2>2. RecordsRight' /\ RecordsGrow
    BY <2>1, RecordsStand
  <2>3. /\ screen' = screen /\ screenCall' = screenCall /\ held' = held /\ mark' = mark /\ logged' = logged
    BY <1>5 DEF CreateGoal
  <2>4. ScreensRight'
    BY <2>2, <2>3, ScreensStand
  <2>5. ShelfRight'
    BY <2>3 DEF ShelfRight
  <2>6. GoalsTyped'
    BY <1>0, <1>5, GoalSteps
  <2>7. EndingFits'
    BY <1>5, <2>2, EndingStands DEF CreateGoal
  <2> QED
    BY <2>2, <2>4, <2>5, <2>6, <2>7 DEF StatsInv
<1>6. ASSUME NEW r \in ScreenCalls, ScreenKept(r) \/ ScreenShown(r) \/ \E s \in Screens : OpenScreen(r, s)
      PROVE  StatsInv'
  <2>1. RecordsKept /\ held' = held /\ mark' = mark /\ logged' = logged /\ goal' = goal
    BY <1>0, <1>6 DEF RecordsKept, PastKept, ScreenKept, ScreenShown, OpenScreen, TotalsTyped
  <2>2. RecordsRight' /\ RecordsGrow
    BY <2>1, RecordsStand
  <2>3. ScreensRight'
    BY <1>6, ScreenSteps
  <2>4. ShelfRight' /\ GoalsTyped'
    BY <2>1 DEF ShelfRight, GoalsTyped
  <2>5. EndingFits'
    <3>1. ending' = ending
      BY <1>6 DEF ScreenKept, ScreenShown, OpenScreen
    <3> QED
      BY <2>1, <2>2, <3>1, EndingStands
  <2> QED
    BY <2>2, <2>3, <2>4, <2>5 DEF StatsInv
<1>7. ASSUME StatsNext
      PROVE  StatsInv'
  <2>1. CASE \E b \in Titles :
                \/ AddTitle(b) \/ RemoveTitle(b)
                \/ \E status \in {"reading", "completed"} : UpdateTitle(b, status)
    BY <1>2, <2>1
  <2>2. CASE \E b \in Titles, l \in Logs : StartTimer(l, b)
    BY <1>0, <1>3, <2>2
  <2>3. CASE \E b \in Titles, l \in Logs, from, to \in Times, secs \in Amounts :
                LogByHand(l, b, from, to, secs)
    BY <1>3, <2>3
  <2>4. CASE \E b \in Titles, m \in Bookmarks, page \in Amounts : AddBookmark(m, b, page)
    BY <1>4, <2>4
  <2>5. CASE \E r \in EndCalls :
                \/ SessionCommitted(r) \/ SessionNotEnded(r) \/ \E l \in Logs : EndTimer(r, l)
                \/ \E to, day \in Times, secs \in Amounts : SessionUpdated(r, to, day, secs)
    BY <1>3a, <1>3b, <2>5
  <2> QED
    BY <1>5, <1>6, <1>7, <2>1, <2>2, <2>3, <2>4, <2>5 DEF StatsNext
<1> QED
  BY <1>1, <1>7 DEF StatsVars

--------------------------------------------------------------------------------
(* What follows                                                            *)

\* What StatisticsAgree says of a recap.
RecapRight(w) ==
    LET known == Total(heat, w) + Total(past.rowOnly, w)
        seconds == RecapAggregate(w).seconds
    IN
    /\ seconds + Total(past.heatOnly, w) <= known
    /\ past.removed \/ past.twice \/ seconds + Total(past.heatOnly, w) = known
    /\ Kept(<<"recap", w>>) =>
          /\ screen[<<"recap", w>>].answer.seconds <= known
          /\ past.overlapped \/ screen[<<"recap", w>>].answer.longest <= grade.longest

LEMMA AgreeHolds == StatsInv => StatisticsAgree
<1> SUFFICES ASSUME RecordsRight, ScreensRight
             PROVE  StatisticsAgree
  BY DEF StatsInv
<1>0. TotalsTyped /\ GradeTyped(grade) /\ RunsRight /\ SecondsKnown /\ AllCounted
  BY DEF RecordsRight
<1>1. ASSUME NEW w \in Recaps
      PROVE  RecapRight(w)
  <2>1. RecapAggregate(w).seconds = SecsOf(logged, EndedDuring(logged, w))
    BY SecondsAre DEF RecapAggregate
  <2>2. w \in SUBSET Times
    BY RecapsAreDays
  <2>3. PICK s : s = <<"recap", w>>
    OBVIOUS
  <2>4. s \in Screens /\ s[1] = "recap" /\ s[2] = w
    BY <2>3 DEF Screens
  <2>5. Kept(s) => /\ screen[s].answer.seconds <= Total(heat, w) + Total(past.rowOnly, w)
                   /\ past.overlapped \/ screen[s].answer.longest <= grade.longest
    BY <2>4 DEF Kept, ScreensRight, AnswerRight, Known
  <2> QED
    BY <1>0, <2>1, <2>2, <2>3, <2>5 DEF SecondsKnown, Known, Told, RecapRight
<1>2. Kept(<<"stats", {}>>) =>
         \A w \in DOMAIN screen[<<"stats", {}>>].answer.months :
            screen[<<"stats", {}>>].answer.months[w] <= Total(heat, w)
  <2>1. PICK s : s = <<"stats", {}>>
    OBVIOUS
  <2>2. s \in Screens /\ s[1] = "stats"
    BY <2>1 DEF Screens
  <2>3. Kept(s) => \A w \in DOMAIN screen[s].answer.months : screen[s].answer.months[w] <= Total(heat, w)
    BY <2>2 DEF Kept, ScreensRight, AnswerRight
  <2> QED
    BY <2>1, <2>3
<1>3. past.overlapped \/ LongestRun({logged[l].to : l \in {x \in Ended : logged[x].inOrder}}) <= grade.longest
  <2> SUFFICES ASSUME ~past.overlapped
               PROVE  LongestRun({logged[l].to : l \in {x \in Ended : logged[x].inOrder}}) <= grade.longest
    OBVIOUS
  <2>0. RunsCounted(grade, OrderedDays(logged))
    BY <1>0 DEF RunsRight
  <2>1. {logged[l].to : l \in {x \in Ended : logged[x].inOrder}} = OrderedDays(logged)
    BY DEF OrderedDays, EndedOf, Ended
  <2>2. OrderedDays(logged) \subseteq Times /\ grade.longest \in Nat
    BY <1>0, <2>0 DEF RunsCounted, GradeTyped
  <2>3. \A d, e \in Times : (d <= e /\ d .. e \subseteq OrderedDays(logged)) => e - d + 1 <= grade.longest
    BY <2>0 DEF RunsCounted
  <2> QED
    BY <2>1, <2>2, <2>3, LongestIsBounded
<1>4. ASSUME NEW n \in MilestoneSeconds
      PROVE  /\ n <= grade.seconds => [type |-> "hours", value |-> n] \in GetAchievedMilestones
             /\ past.overlapped \/ ([type |-> "hours", value |-> n] \in GetAchievedMilestones => n <= grade.seconds)
  <2>1. [type |-> "hours", value |-> n] \in GetAchievedMilestones
          <=> \E d \in Times : heat[d] > 0 /\ Total(heat, 0 .. d) >= n
    BY DEF GetAchievedMilestones
  <2>2. n \in Nat \ {0} /\ heat \in [Times -> Nat]
    BY <1>0, StatsAssumption DEF TotalsTyped
  <2>3. (\E d \in Times : heat[d] > 0 /\ Total(heat, 0 .. d) >= n) <=> n <= Total(heat, Times)
    BY <2>2, ReachedOn
  <2>4. Total(heat, Times) \in Nat /\ grade.seconds \in Nat
    BY <1>0, <2>2, DaysTotal DEF GradeTyped
  <2>5. n <= grade.seconds => n <= Total(heat, Times)
    BY <1>0, <2>2, <2>4 DEF AllCounted
  <2>6. past.overlapped \/ grade.seconds = Total(heat, Times)
    BY <1>0 DEF AllCounted
  <2> QED
    BY <2>1, <2>3, <2>5, <2>6
<1>4a. LET achieved == {n \in MilestoneSeconds : [type |-> "hours", value |-> n] \in GetAchievedMilestones}
           counted == {n \in MilestoneSeconds : n <= grade.seconds}
       IN  counted \subseteq achieved /\ (past.overlapped \/ achieved = counted)
  BY <1>4
<1>5. \A w \in Recaps : RecapRight(w)
  BY <1>1, Zenon
<1> QED
  BY <1>2, <1>3, <1>4a, <1>5, Zenon DEF StatisticsAgree, RecapRight

LEMMA QuotientIsNat ==
    ASSUME NEW n \in Nat, NEW t \in Nat, t > 0
    PROVE  n \div t \in Nat
BY SMTT(60)

LEMMA HalfIsBelow ==
    ASSUME NEW x \in Nat, NEW y \in Nat, x <= Whole, y <= Whole
    PROVE  (x + y) \div 2 \in 0 .. Whole
BY SMTT(60) DEF Whole

\* None of two ratios is above one.
LEMMA PercentIs ==
    ASSUME NEW done \in Nat, NEW g, g.books \in Nat, g.seconds \in Nat
    PROVE  ProgressPercent(0, done, g) \in 0 .. Whole
<1> DEFINE Ratio(d, target) ==
             IF target <= 0 THEN Whole ELSE Policy!Smaller(Whole, (d * Whole) \div target)
<1>1. ASSUME NEW d \in Nat, NEW t \in Nat
      PROVE  Ratio(d, t) \in 0 .. Whole
  <2>1. CASE t <= 0
    BY <2>1 DEF Whole
  <2>2. CASE t > 0
    <3>1. d * 10000 \in Nat
      OBVIOUS
    <3>2. PICK n \in Nat : n = d * 10000
      BY <3>1
    <3>3. n \div t \in Nat
      BY <2>2, <3>2, QuotientIsNat
    <3>4. PICK m \in Nat : m = n \div t
      BY <3>3
    <3>5. Policy!Smaller(Whole, m) \in 0 .. Whole
      BY DEF Policy!Smaller, Whole
    <3>6. Ratio(d, t) = Policy!Smaller(Whole, m)
      BY <2>2, <3>2, <3>4 DEF Whole
    <3> QED
      BY <3>5, <3>6
  <2> QED
    BY <2>1, <2>2
<1>2. ProgressPercent(0, done, g) = (Ratio(0, g.books) + Ratio(done, g.seconds)) \div 2
  BY DEF ProgressPercent
<1>3. Ratio(0, g.books) \in 0 .. Whole /\ Ratio(done, g.seconds) \in 0 .. Whole
  BY <1>1
<1> HIDE DEF Ratio
<1>4. PICK x, y : x = Ratio(0, g.books) /\ y = Ratio(done, g.seconds)
  OBVIOUS
<1>5. x \in Nat /\ y \in Nat /\ x <= Whole /\ y <= Whole
  <2>1. x \in 0 .. Whole /\ y \in 0 .. Whole
    BY <1>3, <1>4, Zenon
  <2> QED
    BY <2>1 DEF Whole
<1>6. (x + y) \div 2 \in 0 .. Whole
  BY <1>5, HalfIsBelow
<1> QED
  BY <1>2, <1>4, <1>6

LEMMA StatsTyped == StatsInv => StatsTypeOK
<1> SUFFICES ASSUME RecordsRight, ShelfRight, GoalsTyped
             PROVE  StatsTypeOK
  BY DEF StatsInv
<1>0. TotalsTyped
  BY DEF RecordsRight
<1>1. \A l \in Logs : logged[l] # NoLog => held[logged[l].book] # NotHeld
  BY DEF ShelfRight
<1>2. ASSUME NEW g \in DOMAIN GetCurrentGoals(now)
      PROVE  GetCurrentGoals(now)[g].percent \in 0 .. Whole
  <2>1. g \in Goals /\ goal[g] # NoGoal
    BY <1>2 DEF GetCurrentGoals, ListActive
  <2>2. goal[g].books \in Nat /\ goal[g].seconds \in Nat /\ goal[g].window \subseteq Times
    BY <2>1 DEF GoalsTyped
  <2>3. FinishedIn(goal[g].window) = {}
    <3>1. \A b \in Titles : held[b].finished = -1
      BY DEF ShelfRight, Never
    <3> QED
      BY <2>2, <3>1 DEF FinishedIn, Completed, Times
  <2>4. Cardinality(FinishedIn(goal[g].window)) = 0
    BY <2>3, FS_EmptySet
  <2>5. PICK done : done = Total(heat, {e \in goal[g].window : e <= now})
    OBVIOUS
  <2>6. done \in Nat
    <3>1. {e \in goal[g].window : e <= now} \subseteq Times
      BY <2>2
    <3> QED
      BY <1>0, <2>5, <3>1, DaysTotal DEF TotalsTyped
  <2>7. GetCurrentGoals(now)[g].percent = ProgressPercent(0, done, goal[g])
    BY <1>2, <2>4, <2>5 DEF GetCurrentGoals
  <2> QED
    BY <2>2, <2>6, <2>7, PercentIs
<1> QED
  BY <1>1, <1>2 DEF StatsTypeOK, ShelfRight

\* The statistics, the answers that are kept and the goals agree with the
\* records they are drawn from, for any calendar and thresholds
\* (get_reading_recap, get_advanced_stats, get_achieved_milestones).
THEOREM StatisticsAlwaysAgree == StatsSpec => []StatisticsAgree
<1>1. StatsSpec => []StatsInv
  BY StatsStart, StatsStep, PTL DEF StatsSpec
<1> QED
  BY <1>1, AgreeHolds, PTL

\* Sessions and bookmarks are of books that are kept, and no goal is more than
\* reached (delete_user_book, _progress_percent).
THEOREM StatisticsKeepTheirTypes == StatsSpec => []StatsTypeOK
<1>1. StatsSpec => []StatsInv
  BY StatsStart, StatsStep, PTL DEF StatsSpec
<1> QED
  BY <1>1, StatsTyped, PTL

--------------------------------------------------------------------------------
(***************************************************************************)
(* The types of follows, blocks and reports.  How often a target is reported *)
(* is bounded with the reports in flight counted in.                         *)
(***************************************************************************)

EdgesFit(edges) == \A e \in edges : e.from \in Users /\ e.to \in Users \ {e.from} /\ e.at \in Times

OneFollow(edges) == \A e, f \in edges : (e.from = f.from /\ e.to = f.to) => e = f

OfTwo(c) == c.op \in {"follow", "block"} => c.user # c.target

Reporting(x) == {r \in SocialCalls : social[r].op = "report" /\ <<social[r].user, social[r].target>> = x}

SocialFits ==
    /\ SocialCallsTyped /\ \A r \in SocialCalls : OfTwo(social[r])
    /\ EdgesFit(follows) /\ EdgesFit(blocks) /\ OneFollow(follows)
    /\ reports = [x \in Users \X Reported |-> reports[x]]
    /\ \A x \in Users \X Reported :
          reports[x] \in Nat /\ reports[x] + Cardinality(Reporting(x)) <= Cardinality(SocialCalls)

LEMMA ReportingCounted ==
    ASSUME NEW S, S \subseteq SocialCalls
    PROVE  IsFiniteSet(S) /\ Cardinality(S) \in Nat /\ Cardinality(S) <= Cardinality(SocialCalls)
BY SocialAssumption, FS_Subset, FS_CardinalityType

LEMMA SocialFitsAtStart ==
    ASSUME SocialStart({})
    PROVE  SocialFits
<1>1. SocialCallsTyped
  BY SeverInit DEF SeverInv
<1>2. ASSUME NEW x \in Users \X Reported
      PROVE  reports[x] \in Nat /\ reports[x] + Cardinality(Reporting(x)) <= Cardinality(SocialCalls)
  <2>1. reports[x] = 0
    BY DEF SocialStart
  <2>2. Cardinality(Reporting(x)) \in Nat /\ Cardinality(Reporting(x)) <= Cardinality(SocialCalls)
    BY ReportingCounted DEF Reporting
  <2>3. Cardinality(SocialCalls) \in Nat
    BY SocialAssumption, FS_CardinalityType
  <2> QED
    BY <2>1, <2>2, <2>3
<1> QED
  BY <1>1, <1>2 DEF SocialStart, SocialFits, OfTwo, SocialIdle, EdgesFit, OneFollow

\* Requests that change, while nothing new is reported.
LEMMA ReportsInFlight ==
    ASSUME SocialFits, \A x \in Users \X Reported : Reporting(x)' \subseteq Reporting(x), UNCHANGED reports
    PROVE  /\ reports' = [x \in Users \X Reported |-> reports'[x]]
           /\ \A x \in Users \X Reported : reports'[x] \in Nat
                 /\ reports'[x] + Cardinality(Reporting(x)') <= Cardinality(SocialCalls)
<1>1. ASSUME NEW x \in Users \X Reported
      PROVE  reports'[x] \in Nat /\ reports'[x] + Cardinality(Reporting(x)') <= Cardinality(SocialCalls)
  <2>1. PICK were : were = Reporting(x)
    OBVIOUS
  <2>2. PICK next : next = Reporting(x)'
    OBVIOUS
  <2>3. were \subseteq SocialCalls /\ next \subseteq were
    BY <2>1, <2>2 DEF Reporting
  <2>4. Cardinality(next) <= Cardinality(were) /\ Cardinality(next) \in Nat /\ Cardinality(were) \in Nat
    BY <2>3, ReportingCounted, FS_Subset
  <2>5. reports'[x] = reports[x] /\ reports[x] \in Nat
        /\ reports[x] + Cardinality(were) <= Cardinality(SocialCalls)
    BY <2>1 DEF SocialFits
  <2>6. Cardinality(SocialCalls) \in Nat
    BY SocialAssumption, FS_CardinalityType
  <2> QED
    BY <2>2, <2>4, <2>5, <2>6
<1> QED
  BY <1>1 DEF SocialFits

LEMMA EdgeFits ==
    ASSUME NEW edges, EdgesFit(edges), NEW u \in Users, NEW v \in Users, u # v, now \in Times
    PROVE  EdgesFit(edges \cup {Edge(u, v)})
<1>1. PICK e : e = Edge(u, v)
  OBVIOUS
<1>2. e.from \in Users /\ e.to \in Users \ {e.from} /\ e.at \in Times
  BY <1>1 DEF Edge
<1>3. EdgesFit(edges \cup {e})
  BY <1>2 DEF EdgesFit
<1> QED
  BY <1>1, <1>3

LEMMA FewerEdgesFit ==
    ASSUME NEW edges, NEW some
    PROVE  /\ EdgesFit(edges) => EdgesFit(edges \ some)
           /\ OneFollow(edges) => OneFollow(edges \ some)
BY DEF EdgesFit, OneFollow

\* A request that is done with.
LEMMA SocialEnds ==
    ASSUME SocialFits, NEW r \in SocialCalls, SocialDone(r)
    PROVE  /\ \A q \in SocialCalls : OfTwo(social'[q])
           /\ \A x : Reporting(x)' = Reporting(x) \ {r}
<1>1. \A q \in SocialCalls : social'[q] = IF q = r THEN SocialIdle ELSE social[q]
  BY DEF SocialFits, SocialCallsTyped, SocialDone
<1> QED
  BY <1>1 DEF SocialFits, OfTwo, SocialIdle, Reporting

\* A request that begins.
LEMMA SocialBegins ==
    ASSUME SocialFits, NEW r \in SocialCalls, NEW op, NEW u, NEW v, SocialLoad(r, op, u, v),
           op \in {"follow", "block"} => u # v
    PROVE  /\ \A q \in SocialCalls : OfTwo(social'[q])
           /\ r \notin Reporting(<<u, v>>)
           /\ \A x : Reporting(x)' = IF op = "report" /\ x = <<u, v>> THEN Reporting(x) \cup {r} ELSE Reporting(x)
<1>1. PICK c : c = [op |-> op, user |-> u, target |-> v, unblock |-> op = "follow" /\ Blocked(u, v)]
  OBVIOUS
<1>2. c.op = op /\ c.user = u /\ c.target = v
  BY <1>1
<1>3. social[r] = SocialIdle /\ social' = [social EXCEPT ![r] = c]
  BY <1>1 DEF SocialLoad
<1>4. \A q \in SocialCalls : social'[q] = IF q = r THEN c ELSE social[q]
  BY <1>3 DEF SocialFits, SocialCallsTyped
<1>5. social[r].op = "idle"
  BY <1>3 DEF SocialIdle
<1> QED
  BY <1>2, <1>4, <1>5 DEF SocialFits, OfTwo, Reporting

LEMMA SocialKeepsFits ==
    ASSUME SocialFits, now \in Times, SocialNext
    PROVE  SocialFits'
<1>1. SocialCallsTyped'
  BY CallsStayTyped DEF SocialFits
<1>2. ASSUME NEW r \in SocialCalls, NEW u \in Users, NEW v \in Users, Follow(r, u, v) \/ Block(r, u, v)
      PROVE  SocialFits'
  <2>1. PICK op : op \in {"follow", "block"} /\ SocialLoad(r, op, u, v) /\ u # v
    BY <1>2 DEF Follow, Block
  <2>2. UNCHANGED <<follows, blocks, reports>>
    BY <1>2 DEF Follow, Block
  <2>3. (\A q \in SocialCalls : OfTwo(social'[q])) /\ \A x : Reporting(x)' = Reporting(x)
    BY <2>1, SocialBegins
  <2> QED
    BY <1>1, <2>2, <2>3, ReportsInFlight DEF SocialFits
<1>3. ASSUME NEW r \in SocialCalls, NEW u \in Users, NEW x \in Reported, Report(r, u, x)
      PROVE  SocialFits'
  <2>1. UNCHANGED <<follows, blocks, reports>> /\ reports[<<u, x>>] = 0
    BY <1>3 DEF Report
  <2>2. /\ \A q \in SocialCalls : OfTwo(social'[q])
        /\ \A y : Reporting(y)' = IF y = <<u, x>> THEN Reporting(y) \cup {r} ELSE Reporting(y)
    BY <1>3, SocialBegins DEF Report
  <2>3. ASSUME NEW y \in Users \X Reported
        PROVE  reports'[y] \in Nat /\ reports'[y] + Cardinality(Reporting(y)') <= Cardinality(SocialCalls)
    <3>1. CASE y = <<u, x>>
      <4>1. reports'[y] = 0
        BY <2>1, <3>1
      <4>2. PICK next : next = Reporting(y)'
        OBVIOUS
      <4>3. next \subseteq SocialCalls
        BY <4>2 DEF Reporting
      <4>4. Cardinality(next) \in Nat /\ Cardinality(next) <= Cardinality(SocialCalls)
        BY <4>3, ReportingCounted
      <4>5. Cardinality(SocialCalls) \in Nat
        BY SocialAssumption, FS_CardinalityType
      <4> QED
        BY <4>1, <4>2, <4>4, <4>5
    <3>2. CASE y # <<u, x>>
      <4>1. Reporting(y)' = Reporting(y) /\ reports'[y] = reports[y]
        BY <2>1, <2>2, <3>2
      <4> QED
        BY <4>1 DEF SocialFits
    <3> QED
      BY <3>1, <3>2
  <2> QED
    BY <1>1, <2>1, <2>2, <2>3 DEF SocialFits
<1>4. ASSUME NEW r \in SocialCalls, Followed(r)
      PROVE  SocialFits'
  <2>1. social[r].op = "follow" /\ SocialDone(r) /\ UNCHANGED reports
    BY <1>4 DEF Followed
  <2>2. PICK u, v : u = social[r].user /\ v = social[r].target
    OBVIOUS
  <2>3. u \in Users /\ v \in Users /\ u # v
    BY <2>1, <2>2 DEF SocialFits, SocialCallsTyped, Requests, SocialIdle, OfTwo
  <2>4. /\ blocks' = blocks \/ blocks' = blocks \ Between(blocks, u, v)
        /\ follows' = follows \cup {Edge(u, v)} /\ ~Follows(u, v)
    BY <1>4, <2>2 DEF Followed
  <2>5. EdgesFit(follows') /\ EdgesFit(blocks')
    <3>1. EdgesFit(follows')
      BY <2>3, <2>4, EdgeFits DEF SocialFits
    <3>2. EdgesFit(blocks) /\ EdgesFit(blocks \ Between(blocks, u, v))
      BY FewerEdgesFit DEF SocialFits
    <3> QED
      BY <2>4, <3>1, <3>2
  <2>6. OneFollow(follows')
    <3>1. PICK e : e = Edge(u, v)
      OBVIOUS
    <3>2. e.from = u /\ e.to = v
      BY <3>1 DEF Edge
    <3>3. \A f \in follows : ~(f.from = u /\ f.to = v)
      BY <2>4 DEF Follows, Between
    <3>4. follows' = follows \cup {e}
      BY <2>4, <3>1
    <3> QED
      BY <3>2, <3>3, <3>4 DEF SocialFits, OneFollow
  <2>7. (\A q \in SocialCalls : OfTwo(social'[q])) /\ \A x : Reporting(x)' \subseteq Reporting(x)
    BY <2>1, SocialEnds
  <2> QED
    BY <1>1, <2>1, <2>5, <2>6, <2>7, ReportsInFlight DEF SocialFits
<1>5. ASSUME NEW r \in SocialCalls, BlockSet(r)
      PROVE  SocialFits'
  <2>1. social[r].op = "block" /\ SocialDone(r) /\ UNCHANGED reports
    BY <1>5 DEF BlockSet
  <2>2. PICK u, v : u = social[r].user /\ v = social[r].target
    OBVIOUS
  <2>3. u \in Users /\ v \in Users /\ u # v
    BY <2>1, <2>2 DEF SocialFits, SocialCallsTyped, Requests, SocialIdle, OfTwo
  <2>4. follows' = follows \ Severed(u, v) /\ blocks' = blocks \cup {Edge(u, v)}
    BY <1>5, <2>2 DEF BlockSet
  <2>5. EdgesFit(follows') /\ EdgesFit(blocks') /\ OneFollow(follows')
    BY <2>3, <2>4, EdgeFits, FewerEdgesFit DEF SocialFits
  <2>6. (\A q \in SocialCalls : OfTwo(social'[q])) /\ \A x : Reporting(x)' \subseteq Reporting(x)
    BY <2>1, SocialEnds
  <2> QED
    BY <1>1, <2>1, <2>5, <2>6, ReportsInFlight DEF SocialFits
<1>6. ASSUME NEW r \in SocialCalls, ReportMade(r)
      PROVE  SocialFits'
  <2>1. SocialDone(r) /\ UNCHANGED <<follows, blocks>> /\ social[r].op = "report"
    BY <1>6 DEF ReportMade
  <2>2. PICK x : x = <<social[r].user, social[r].target>>
    OBVIOUS
  <2>3. x \in Users \X Reported
    BY <2>1, <2>2 DEF SocialFits, SocialCallsTyped, Requests, SocialIdle
  <2>4. reports' = [reports EXCEPT ![x] = @ + 1]
    BY <1>6, <2>2 DEF ReportMade
  <2>5. /\ reports' = [y \in Users \X Reported |-> reports'[y]]
        /\ \A y \in Users \X Reported : reports'[y] = IF y = x THEN reports[y] + 1 ELSE reports[y]
    BY <2>3, <2>4 DEF SocialFits
  <2>6. (\A q \in SocialCalls : OfTwo(social'[q])) /\ \A y : Reporting(y)' = Reporting(y) \ {r}
    BY <2>1, SocialEnds
  <2>7. ASSUME NEW y \in Users \X Reported
        PROVE  reports'[y] \in Nat /\ reports'[y] + Cardinality(Reporting(y)') <= Cardinality(SocialCalls)
    <3>1. PICK were : were = Reporting(y)
      OBVIOUS
    <3>2. were \subseteq SocialCalls /\ Reporting(y)' = were \ {r} /\ (y = x <=> r \in were)
      BY <2>1, <2>2, <2>6, <3>1 DEF Reporting
    <3>3. IsFiniteSet(were) /\ Cardinality(were) \in Nat /\ Cardinality(SocialCalls) \in Nat
      BY <3>2, ReportingCounted, SocialAssumption, FS_CardinalityType
    <3>4. Cardinality(were \ {r}) = IF r \in were THEN Cardinality(were) - 1 ELSE Cardinality(were)
      BY <3>3, FS_RemoveElement
    <3>5. reports[y] \in Nat /\ reports[y] + Cardinality(were) <= Cardinality(SocialCalls)
      BY <3>1 DEF SocialFits
    <3>6. Cardinality(Reporting(y)') = Cardinality(were \ {r})
      BY <3>2
    <3> QED
      BY <2>5, <3>2, <3>3, <3>4, <3>5, <3>6
  <2> QED
    BY <1>1, <2>1, <2>5, <2>6, <2>7 DEF SocialFits
<1>7. ASSUME NEW r \in SocialCalls, SocialLost(r)
      PROVE  SocialFits'
  <2>1. SocialDone(r) /\ UNCHANGED <<follows, blocks, reports>>
    BY <1>7 DEF SocialLost
  <2>2. (\A q \in SocialCalls : OfTwo(social'[q])) /\ \A y : Reporting(y)' \subseteq Reporting(y)
    BY <2>1, SocialEnds
  <2> QED
    BY <1>1, <2>1, <2>2, ReportsInFlight DEF SocialFits
<1>8. ASSUME NEW u \in Users, NEW v \in Users, Unfollow(u, v) \/ Unblock(u, v)
      PROVE  SocialFits'
  <2>1. /\ follows' = follows \/ follows' = follows \ Between(follows, u, v)
        /\ blocks' = blocks \/ blocks' = blocks \ Between(blocks, u, v)
        /\ UNCHANGED <<social, reports>>
    BY <1>8 DEF Unfollow, Unblock
  <2>2. EdgesFit(follows') /\ EdgesFit(blocks') /\ OneFollow(follows')
    <3>1. /\ EdgesFit(follows \ Between(follows, u, v)) /\ OneFollow(follows \ Between(follows, u, v))
          /\ EdgesFit(blocks \ Between(blocks, u, v))
      BY FewerEdgesFit DEF SocialFits
    <3> QED
      BY <2>1, <3>1 DEF SocialFits
  <2>3. \A x : Reporting(x)' = Reporting(x)
    BY <2>1 DEF Reporting
  <2>4. \A q \in SocialCalls : OfTwo(social'[q])
    BY <2>1 DEF SocialFits
  <2> QED
    BY <1>1, <2>1, <2>2, <2>3, <2>4, ReportsInFlight DEF SocialFits
<1> QED
  BY <1>2, <1>3, <1>4, <1>5, <1>6, <1>7, <1>8 DEF SocialNext

LEMMA SocialTypesFit ==
    ASSUME SocialFits
    PROVE  SocialTypeOK
<1>1. \A e \in follows \cup blocks : e.from \in Users /\ e.to \in Users \ {e.from} /\ e.at \in Times
  BY DEF SocialFits, EdgesFit
<1>2. ASSUME NEW x \in DOMAIN reports
      PROVE  reports[x] \in 0 .. Cardinality(SocialCalls)
  <2>1. x \in Users \X Reported
    BY DEF SocialFits
  <2>2. PICK S : S = Reporting(x)
    OBVIOUS
  <2>3. Cardinality(S) \in Nat /\ Cardinality(SocialCalls) \in Nat
    BY <2>2, ReportingCounted, SocialAssumption, FS_CardinalityType DEF Reporting
  <2>4. reports[x] \in Nat /\ reports[x] + Cardinality(S) <= Cardinality(SocialCalls)
    BY <2>1, <2>2 DEF SocialFits
  <2> QED
    BY <2>3, <2>4
<1> QED
  BY <1>1, <1>2 DEF SocialFits, OneFollow, SocialTypeOK

--------------------------------------------------------------------------------
(***************************************************************************)
(* The types of the feed.  A row takes what its request has loaded, so the   *)
(* requests in flight are typed with the rows; an answer to a comment names  *)
(* one that was there, was no answer itself, and goes with it.               *)
(***************************************************************************)

InsertOps == {"post", "comment", "highlight", "share", "event", "reply"}

FeedCallFits(c) ==
    /\ c.op \in InsertOps => c.user \in Users /\ c.at \in Times
    /\ c.op = "comment" => c.post \in Posts
    /\ c.op = "event" => c.type \in EventTypes
    /\ c.op = "toggle" => c.row[3] \in Users /\ c.row[4] \in Reactions

\* A reply that may be answered.
Answerable(x) == x.life # "unused" /\ x.parent = NoReply

AnswerFits(c, rows) == (c.op = "reply" /\ c.parent # NoReply) => c.parent \in Replies /\ Answerable(rows[c.parent])

CallsFit(calls, rows) ==
    \A r \in FeedCalls : FeedCallFits(calls[r]) /\ AnswerFits(calls[r], rows)

PostsFit(rows) == \A p \in Posts : rows[p] \in RowStatus

CommentsFit(rows) == \A c \in Comments : rows[c].life = "live" => rows[c].post \in Posts

MarkFits(x) == x.visibility \in Visibilities /\ x.shared \in BOOLEAN /\ x.life \in FeedLives

EventFits(x) == x.life = "live" => x.type \in EventTypes /\ x.author \in Users

ReactionsFit(some) == \A x \in some : x[3] \in Users /\ x[4] \in Reactions

ReplyShaped(x) ==
    x = [life |-> x.life, at |-> x.at, author |-> x.author, event |-> x.event, parent |-> x.parent]

RepliesFit(rows) ==
    /\ rows = [c \in Replies |-> rows[c]] /\ \A c \in Replies : ReplyShaped(rows[c])
    /\ \A c \in Replies : (rows[c].life = "live" /\ rows[c].parent # NoReply) =>
          rows[c].parent \in Replies /\ rows[rows[c].parent].life = "live" /\ Answerable(rows[rows[c].parent])

FeedFits ==
    /\ PostsFit(post) /\ CommentsFit(comment) /\ (\A h \in Highlights : MarkFits(highlight[h]))
    /\ (\A e \in Events : EventFits(event[e])) /\ ReactionsFit(reacted) /\ RepliesFit(reply)
    /\ CallsFit(feedCall, reply)

LEMMA FeedFitsAtStart ==
    ASSUME FeedInit
    PROVE  FeedFits
<1>1. PostsFit(post)
  BY ClockAssumption DEF FeedInit, PostsFit, Unmade, RowStatus, FeedLives, Times
<1>2. CommentsFit(comment)
  BY DEF FeedInit, CommentsFit
<1>3. \A h \in Highlights : MarkFits(highlight[h])
  BY DEF FeedInit, NewHighlight, MarkFits, Visibilities, FeedLives
<1>4. \A e \in Events : EventFits(event[e])
  BY DEF FeedInit, EventFits
<1>5. ReactionsFit(reacted)
  BY DEF FeedInit, ReactionsFit
<1>6. RepliesFit(reply)
  BY DEF FeedInit, RepliesFit, ReplyShaped
<1>7. CallsFit(feedCall, reply)
  BY DEF FeedInit, FeedIdle, CallsFit, FeedCallFits, AnswerFits, InsertOps
<1> QED
  BY <1>1, <1>2, <1>3, <1>4, <1>5, <1>6, <1>7 DEF FeedFits

\* What the request r carries next.
Carries(r, c) == feedCall' = [feedCall EXCEPT ![r] = c]

LEMMA CallFits ==
    ASSUME FeedTyped, FeedFits, UNCHANGED reply, NEW r \in FeedCalls, NEW c, Carries(r, c),
           FeedCallFits(c), AnswerFits(c, reply)
    PROVE  CallsFit(feedCall', reply')
<1>1. \A q \in FeedCalls : feedCall'[q] = IF q = r THEN c ELSE feedCall[q]
  BY DEF Carries, FeedTyped
<1> QED
  BY <1>1 DEF FeedFits, CallsFit

LEMMA IdleCallFits == FeedCallFits(FeedIdle) /\ \A rows : AnswerFits(FeedIdle, rows)
BY DEF FeedCallFits, AnswerFits, FeedIdle, InsertOps

LEMMA FeedLoadFits ==
    ASSUME FeedTyped, FeedFits, NEW r \in FeedCalls, NEW c, FeedLoad(r, c),
           FeedCallFits(c), AnswerFits(c, reply)
    PROVE  FeedFits'
<1>1. Carries(r, c) /\ UNCHANGED feedTables
  BY DEF FeedLoad, Carries
<1>2. UNCHANGED <<post, comment, highlight, event, reply, reacted>>
  BY <1>1 DEF feedTables
<1>3. CallsFit(feedCall', reply')
  BY <1>1, <1>2, CallFits
<1> QED
  BY <1>2, <1>3 DEF FeedFits

\* The other tables, while none of the replies change.
LEMMA FeedDoneFits ==
    ASSUME FeedTyped, FeedFits, NEW r \in FeedCalls, FeedDone(r), UNCHANGED reply
    PROVE  CallsFit(feedCall', reply')
<1>1. Carries(r, FeedIdle)
  BY DEF FeedDone, Carries
<1> QED
  BY <1>1, CallFits, IdleCallFits

LEMMA PostsKeepFits ==
    ASSUME FeedTyped, FeedFits, now \in Times, PostNext
    PROVE  FeedFits'
<1>1. ASSUME NEW r \in FeedCalls, NEW u \in Users, CreatePost(r, u)
      PROVE  FeedFits'
  <2>1. PICK c : c = [op |-> "post", user |-> u, at |-> now]
    OBVIOUS
  <2>2. FeedCallFits(c) /\ AnswerFits(c, reply) /\ FeedLoad(r, c)
    BY <1>1, <2>1 DEF CreatePost, FeedCallFits, AnswerFits
  <2> QED
    BY <2>2, FeedLoadFits
<1>2. ASSUME NEW r \in FeedCalls, NEW p \in Posts, PostCreated(r, p)
      PROVE  FeedFits'
  <2>1. UNCHANGED <<comment, highlight, event, reply, reacted>> /\ FeedDone(r) /\ feedCall[r].op = "post"
    BY <1>2 DEF PostCreated
  <2>2. PICK x : x = [life |-> "live", at |-> feedCall[r].at, author |-> feedCall[r].user]
    OBVIOUS
  <2>3. feedCall[r].at \in Times /\ feedCall[r].user \in Users
    BY <2>1 DEF FeedFits, CallsFit, FeedCallFits, InsertOps
  <2>4. x \in RowStatus
    BY <2>2, <2>3 DEF RowStatus, FeedLives
  <2>5. post' = [post EXCEPT ![p] = x]
    BY <1>2, <2>2 DEF PostCreated
  <2>6. PostsFit(post')
    BY <2>4, <2>5 DEF FeedFits, PostsFit, FeedTyped
  <2>7. CallsFit(feedCall', reply')
    BY <2>1, FeedDoneFits
  <2> QED
    BY <2>1, <2>6, <2>7 DEF FeedFits
<1>3. ASSUME NEW u \in Users, NEW p \in Posts, DeletePost(u, p)
      PROVE  FeedFits'
  <2>1. UNCHANGED <<comment, highlight, event, reply, reacted, feedCall>>
        /\ post' = [post EXCEPT ![p].life = "gone"]
    BY <1>3 DEF DeletePost
  <2>2. PICK x : x = [post[p] EXCEPT !.life = "gone"]
    OBVIOUS
  <2>3. x \in RowStatus
    BY <2>2 DEF FeedFits, PostsFit, RowStatus, FeedLives
  <2>4. post' = [post EXCEPT ![p] = x]
    BY <2>1, <2>2
  <2>5. PostsFit(post')
    BY <2>3, <2>4 DEF FeedFits, PostsFit, FeedTyped
  <2> QED
    BY <2>1, <2>5 DEF FeedFits
<1>4. ASSUME NEW r \in FeedCalls, NEW u \in Users, NEW p \in Posts, NEW q \in Comments \cup {NoComment},
             AddComment(r, u, p, q)
      PROVE  FeedFits'
  <2>1. PICK c : c = [op |-> "comment", user |-> u, at |-> now, post |-> p, parent |-> q]
    OBVIOUS
  <2>2. FeedCallFits(c) /\ AnswerFits(c, reply) /\ FeedLoad(r, c)
    BY <1>4, <2>1 DEF AddComment, FeedCallFits, AnswerFits
  <2> QED
    BY <2>2, FeedLoadFits
<1>5. ASSUME NEW r \in FeedCalls, NEW c \in Comments, CommentAdded(r, c)
      PROVE  FeedFits'
  <2>1. UNCHANGED <<post, highlight, event, reply, reacted>> /\ FeedDone(r) /\ feedCall[r].op = "comment"
    BY <1>5 DEF CommentAdded
  <2>2. PICK x : x = [life |-> "live", at |-> feedCall[r].at, author |-> feedCall[r].user,
                      post |-> feedCall[r].post, parent |-> feedCall[r].parent]
    OBVIOUS
  <2>3. x.post \in Posts
    BY <2>1, <2>2 DEF FeedFits, CallsFit, FeedCallFits
  <2>4. comment' = [comment EXCEPT ![c] = x]
    BY <1>5, <2>2 DEF CommentAdded
  <2>5. CommentsFit(comment')
    BY <2>3, <2>4 DEF FeedFits, CommentsFit, FeedTyped
  <2>6. CallsFit(feedCall', reply')
    BY <2>1, FeedDoneFits
  <2> QED
    BY <2>1, <2>5, <2>6 DEF FeedFits
<1>6. ASSUME NEW u \in Users, NEW c \in Comments, DeleteComment(u, c)
      PROVE  FeedFits'
  <2>1. UNCHANGED <<post, highlight, event, reply, reacted, feedCall>>
        /\ comment' = [comment EXCEPT ![c].life = "gone"]
    BY <1>6 DEF DeleteComment
  <2>2. PICK x : x = [comment[c] EXCEPT !.life = "gone"]
    OBVIOUS
  <2>3. x.life = "gone"
    BY <2>2 DEF FeedTyped, CommentShaped
  <2>4. comment' = [comment EXCEPT ![c] = x]
    BY <2>1, <2>2
  <2>5. CommentsFit(comment')
    BY <2>3, <2>4 DEF FeedFits, CommentsFit, FeedTyped
  <2> QED
    BY <2>1, <2>5 DEF FeedFits
<1>7. ASSUME NEW r \in FeedCalls, NEW u \in Users, NEW p \in Posts, NEW k \in Reactions, ToggleReaction(r, u, p, k)
      PROVE  FeedFits'
  <2>1. PICK c : c = [op |-> "toggle", row |-> <<"post", p, u, k>>, on |-> <<"post", p, u, k>> \in reacted]
    OBVIOUS
  <2>2. FeedCallFits(c) /\ AnswerFits(c, reply) /\ FeedLoad(r, c)
    BY <1>7, <2>1 DEF ToggleReaction, FeedCallFits, AnswerFits, InsertOps
  <2> QED
    BY <2>2, FeedLoadFits
<1> QED
  BY <1>1, <1>2, <1>3, <1>4, <1>5, <1>6, <1>7 DEF PostNext

\* A row that an event may become.
LEMMA EventRowFits ==
    ASSUME FeedTyped, FeedFits, NEW e, NEW x, EventFits(x), event' = [event EXCEPT ![e] = x]
    PROVE  \A f \in Events : EventFits(event'[f])
<1>1. \A f \in Events : event'[f] = IF f = e THEN x ELSE event[f]
  BY DEF FeedTyped
<1> QED
  BY <1>1 DEF FeedFits

LEMMA MarkRowFits ==
    ASSUME FeedTyped, FeedFits, NEW h, NEW x, MarkFits(x), highlight' = [highlight EXCEPT ![h] = x]
    PROVE  \A g \in Highlights : MarkFits(highlight'[g])
<1>1. \A g \in Highlights : highlight'[g] = IF g = h THEN x ELSE highlight[g]
  BY DEF FeedTyped
<1> QED
  BY <1>1 DEF FeedFits

LEMMA MarksKeepFits ==
    ASSUME FeedTyped, FeedFits, now \in Times, HighlightNext
    PROVE  FeedFits'
<1>1. ASSUME NEW r \in FeedCalls, NEW u \in Users, CreateHighlight(r, u)
      PROVE  FeedFits'
  <2>1. PICK c : c = [op |-> "highlight", user |-> u, at |-> now]
    OBVIOUS
  <2>2. FeedCallFits(c) /\ AnswerFits(c, reply) /\ FeedLoad(r, c)
    BY <1>1, <2>1 DEF CreateHighlight, FeedCallFits, AnswerFits
  <2> QED
    BY <2>2, FeedLoadFits
<1>2. ASSUME NEW r \in FeedCalls, NEW h \in Highlights, HighlightCreated(r, h)
      PROVE  FeedFits'
  <2>1. UNCHANGED <<post, comment, event, reply, reacted>> /\ FeedDone(r)
    BY <1>2 DEF HighlightCreated
  <2>2. PICK x : x = [life |-> "live", at |-> feedCall[r].at, author |-> feedCall[r].user,
                      visibility |-> "private", shared |-> FALSE]
    OBVIOUS
  <2>3. MarkFits(x) /\ highlight' = [highlight EXCEPT ![h] = x]
    BY <1>2, <2>2 DEF HighlightCreated, MarkFits, Visibilities, FeedLives
  <2>4. (\A g \in Highlights : MarkFits(highlight'[g])) /\ CallsFit(feedCall', reply')
    BY <2>1, <2>3, MarkRowFits, FeedDoneFits
  <2> QED
    BY <2>1, <2>4 DEF FeedFits
<1>3. ASSUME NEW u \in Users, NEW h \in Highlights, DeleteHighlight(u, h)
      PROVE  FeedFits'
  <2>1. UNCHANGED <<post, comment, event, reply, reacted, feedCall>>
        /\ highlight' = [highlight EXCEPT ![h].life = "gone"]
    BY <1>3 DEF DeleteHighlight
  <2>2. PICK x : x = [highlight[h] EXCEPT !.life = "gone"]
    OBVIOUS
  <2>3. MarkShaped(highlight[h]) /\ MarkFits(highlight[h])
    BY DEF FeedTyped, FeedFits
  <2>4. MarkFits(x)
    BY <2>2, <2>3 DEF MarkFits, MarkShaped, FeedLives
  <2>5. \A g \in Highlights : MarkFits(highlight'[g])
    BY <2>1, <2>2, <2>4, MarkRowFits
  <2> QED
    BY <2>1, <2>5 DEF FeedFits
<1>4. ASSUME NEW u \in Users, NEW h \in Highlights, NEW v \in Visibilities, SetVisibility(u, h, v)
      PROVE  FeedFits'
  <2>1. UNCHANGED <<post, comment, event, reply, reacted, feedCall>>
        /\ highlight' = [highlight EXCEPT ![h].visibility = v]
    BY <1>4 DEF SetVisibility
  <2>2. PICK x : x = [highlight[h] EXCEPT !.visibility = v]
    OBVIOUS
  <2>3. MarkShaped(highlight[h]) /\ MarkFits(highlight[h])
    BY DEF FeedTyped, FeedFits
  <2>4. MarkFits(x)
    BY <2>2, <2>3 DEF MarkFits, MarkShaped
  <2>5. \A g \in Highlights : MarkFits(highlight'[g])
    BY <2>1, <2>2, <2>4, MarkRowFits
  <2> QED
    BY <2>1, <2>5 DEF FeedFits
<1>5. ASSUME NEW r \in FeedCalls, NEW u \in Users, NEW h \in Highlights, ShareHighlight(r, u, h)
      PROVE  FeedFits'
  <2>1. PICK c : c = [op |-> "share", user |-> u, at |-> now, highlight |-> h]
    OBVIOUS
  <2>2. FeedCallFits(c) /\ AnswerFits(c, reply) /\ FeedLoad(r, c)
    BY <1>5, <2>1 DEF ShareHighlight, FeedCallFits, AnswerFits
  <2> QED
    BY <2>2, FeedLoadFits
<1>6. ASSUME NEW r \in FeedCalls, NEW e \in Events, HighlightShared(r, e)
      PROVE  FeedFits'
  <2>1. UNCHANGED <<post, comment, reply, reacted>> /\ FeedDone(r) /\ feedCall[r].op = "share"
    BY <1>6 DEF HighlightShared
  <2>2. PICK h : h = feedCall[r].highlight
    OBVIOUS
  <2>3. highlight' = IF highlight[h].life = "live"
                     THEN [highlight EXCEPT ![h].shared = TRUE, ![h].visibility = "public"] ELSE highlight
    BY <1>6, <2>2 DEF HighlightShared
  <2>4. \A g \in Highlights : MarkFits(highlight'[g])
    <3>1. ASSUME NEW g \in Highlights
          PROVE  MarkFits(highlight'[g])
      <4>1. MarkShaped(highlight[g]) /\ MarkFits(highlight[g]) /\ g \in DOMAIN highlight
        BY DEF FeedTyped, FeedFits
      <4>2. PICK x : x = [highlight[g] EXCEPT !.shared = TRUE, !.visibility = "public"]
        OBVIOUS
      <4>3. MarkFits(x)
        BY <4>1, <4>2 DEF MarkFits, MarkShaped, Visibilities
      <4>4. highlight'[g] = highlight[g] \/ highlight'[g] = x
        BY <2>3, <4>1, <4>2
      <4> QED
        BY <4>1, <4>3, <4>4
    <3> QED
      BY <3>1
  <2>5. PICK x : x = [life |-> "live", at |-> feedCall[r].at, author |-> feedCall[r].user,
                      type |-> "highlight_shared", about |-> h]
    OBVIOUS
  <2>6. feedCall[r].user \in Users
    BY <2>1 DEF FeedFits, CallsFit, FeedCallFits, InsertOps
  <2>7. EventFits(x) /\ event' = [event EXCEPT ![e] = x]
    BY <1>6, <2>2, <2>5, <2>6 DEF HighlightShared, EventFits, EventTypes
  <2>8. (\A f \in Events : EventFits(event'[f])) /\ CallsFit(feedCall', reply')
    BY <2>1, <2>7, EventRowFits, FeedDoneFits
  <2> QED
    BY <2>1, <2>4, <2>8 DEF FeedFits
<1> QED
  BY <1>1, <1>2, <1>3, <1>4, <1>5, <1>6 DEF HighlightNext

\* Replies that may be answered, and none that is there goes before its answers.
LEMMA ReplyMade ==
    ASSUME FeedFits, NEW c \in Replies, reply[c].life = "unused", NEW x, ReplyShaped(x), x.life = "live",
           x.parent # NoReply => x.parent \in Replies /\ Answerable(reply[x.parent])
                                 /\ reply[x.parent].life = "live",
           NEW rows, rows = [reply EXCEPT ![c] = x]
    PROVE  /\ RepliesFit(rows)
           /\ \A q \in Replies : Answerable(reply[q]) => Answerable(rows[q])
<1>1. /\ reply = [q \in Replies |-> reply[q]] /\ \A q \in Replies : ReplyShaped(reply[q])
      /\ \A q \in Replies : (reply[q].life = "live" /\ reply[q].parent # NoReply) =>
            /\ reply[q].parent \in Replies /\ reply[reply[q].parent].life = "live"
            /\ Answerable(reply[reply[q].parent])
  BY DEF FeedFits, RepliesFit
<1>2. rows = [q \in Replies |-> rows[q]] /\ \A q \in Replies : rows[q] = IF q = c THEN x ELSE reply[q]
  BY <1>1
<1>3. \A q \in Replies : ReplyShaped(rows[q])
  BY <1>1, <1>2
<1>4. \A q \in Replies : Answerable(reply[q]) => q # c /\ rows[q] = reply[q]
  BY <1>2 DEF Answerable
<1>5. ASSUME NEW q \in Replies, rows[q].life = "live", rows[q].parent # NoReply
      PROVE  rows[q].parent \in Replies /\ rows[rows[q].parent].life = "live" /\ Answerable(rows[rows[q].parent])
  <2>1. PICK p : p = rows[q].parent
    OBVIOUS
  <2>2. p \in Replies /\ reply[p].life = "live" /\ Answerable(reply[p])
    <3>1. CASE q = c
      BY <1>2, <1>5, <2>1, <3>1
    <3>2. CASE q # c
      BY <1>1, <1>2, <1>5, <2>1, <3>2
    <3> QED
      BY <3>1, <3>2
  <2>3. rows[p] = reply[p]
    BY <1>4, <2>2
  <2> QED
    BY <2>1, <2>2, <2>3
<1> QED
  BY <1>2, <1>3, <1>4, <1>5 DEF RepliesFit

\* Requests find what they answer as they found it.
LEMMA AnswersStand ==
    ASSUME FeedFits, NEW rows, \A q \in Replies : Answerable(reply[q]) => Answerable(rows[q]),
           NEW r \in FeedCalls
    PROVE  FeedCallFits(feedCall[r]) /\ AnswerFits(feedCall[r], rows)
BY DEF FeedFits, CallsFit, AnswerFits

LEMMA RepliesKeepFits ==
    ASSUME FeedTyped, FeedFits, NEW r \in FeedCalls, NEW c \in Replies, FeedCommentAdded(r, c)
    PROVE  FeedFits'
<1>1. UNCHANGED <<post, comment, highlight, event, reacted>> /\ FeedDone(r)
      /\ feedCall[r].op = "reply" /\ c \in Fresh(reply)
      /\ (feedCall[r].parent # NoReply => feedCall[r].parent \in Live(reply))
  BY DEF FeedCommentAdded
<1>2. PICK x : x = [life |-> "live", at |-> feedCall[r].at, author |-> feedCall[r].user,
                    event |-> feedCall[r].event, parent |-> feedCall[r].parent]
  OBVIOUS
<1>3. reply' = [reply EXCEPT ![c] = x]
  BY <1>2 DEF FeedCommentAdded
<1>4. reply[c].life = "unused" /\ ReplyShaped(x) /\ x.life = "live" /\ x.parent = feedCall[r].parent
  BY <1>1, <1>2 DEF Fresh, ReplyShaped
<1>5. x.parent # NoReply => x.parent \in Replies /\ Answerable(reply[x.parent]) /\ reply[x.parent].life = "live"
  BY <1>1, <1>4 DEF FeedFits, CallsFit, AnswerFits, Live
<1>6. PICK rows : rows = reply'
  OBVIOUS
<1>7. RepliesFit(rows) /\ \A q \in Replies : Answerable(reply[q]) => Answerable(rows[q])
  BY <1>3, <1>4, <1>5, <1>6, ReplyMade
<1>8. ASSUME NEW q \in FeedCalls
      PROVE  FeedCallFits(feedCall'[q]) /\ AnswerFits(feedCall'[q], rows)
  <2>1. feedCall'[q] = IF q = r THEN FeedIdle ELSE feedCall[q]
    BY <1>1 DEF FeedDone, FeedTyped
  <2> QED
    BY <1>7, <2>1, AnswersStand, IdleCallFits
<1>9. RepliesFit(reply') /\ CallsFit(feedCall', reply')
  BY <1>6, <1>7, <1>8 DEF CallsFit
<1> QED
  BY <1>1, <1>9 DEF FeedFits

LEMMA ReplyDropped ==
    ASSUME FeedFits, NEW c \in Replies, NEW rows,
           rows = [x \in Replies |-> IF reply[x].life = "live" /\ (x = c \/ reply[x].parent = c)
                                     THEN [reply[x] EXCEPT !.life = "gone"] ELSE reply[x]]
    PROVE  /\ RepliesFit(rows)
           /\ \A q \in Replies : Answerable(reply[q]) => Answerable(rows[q])
<1>1. /\ \A q \in Replies : ReplyShaped(reply[q])
      /\ \A q \in Replies : (reply[q].life = "live" /\ reply[q].parent # NoReply) =>
            /\ reply[q].parent \in Replies /\ reply[reply[q].parent].life = "live"
            /\ Answerable(reply[reply[q].parent])
  BY DEF FeedFits, RepliesFit
<1>2. ASSUME NEW q \in Replies
      PROVE  /\ ReplyShaped(rows[q]) /\ rows[q].parent = reply[q].parent
             /\ rows[q].life = IF reply[q].life = "live" /\ (q = c \/ reply[q].parent = c)
                               THEN "gone" ELSE reply[q].life
  <2>1. PICK x : x = reply[q]
    OBVIOUS
  <2>2. PICK y : y = [x EXCEPT !.life = "gone"]
    OBVIOUS
  <2>3. ReplyShaped(x)
    BY <1>1, <2>1
  <2>4. ReplyShaped(y) /\ y.life = "gone" /\ y.parent = x.parent
    BY <2>2, <2>3 DEF ReplyShaped
  <2>5. rows[q] = IF x.life = "live" /\ (q = c \/ x.parent = c) THEN y ELSE x
    BY <2>1, <2>2
  <2> QED
    BY <2>1, <2>3, <2>4, <2>5
<1>3. \A q \in Replies : Answerable(reply[q]) => Answerable(rows[q])
  BY <1>2 DEF Answerable
<1>4. ASSUME NEW q \in Replies, rows[q].life = "live", rows[q].parent # NoReply
      PROVE  rows[q].parent \in Replies /\ rows[rows[q].parent].life = "live" /\ Answerable(rows[rows[q].parent])
  <2>1. PICK p : p = reply[q].parent
    OBVIOUS
  <2>2. rows[q].parent = p /\ reply[q].life = "live" /\ q # c /\ p # c /\ p # NoReply
    BY <1>2, <1>4, <2>1
  <2>3. p \in Replies /\ reply[p].life = "live" /\ Answerable(reply[p])
    BY <1>1, <2>1, <2>2
  <2>4. reply[p].parent # c
    BY <2>3, FeedAssumption DEF Answerable
  <2>5. rows[p].life = "live"
    BY <1>2, <2>2, <2>3, <2>4
  <2> QED
    BY <1>3, <2>2, <2>3, <2>5
<1>5. rows = [q \in Replies |-> rows[q]]
  OBVIOUS
<1> QED
  BY <1>2, <1>3, <1>4, <1>5 DEF RepliesFit

LEMMA EventsKeepFits ==
    ASSUME FeedTyped, FeedFits, now \in Times, EventNext
    PROVE  FeedFits'
<1>1. ASSUME NEW r \in FeedCalls, NEW u \in Users, NEW type \in EventTypes, NEW n, RecordEvent(r, u, type, n)
      PROVE  FeedFits'
  <2>1. PICK c : c = [op |-> "event", user |-> u, at |-> now, type |-> type]
    OBVIOUS
  <2>2. FeedCallFits(c) /\ AnswerFits(c, reply) /\ FeedLoad(r, c)
    BY <1>1, <2>1 DEF RecordEvent, FeedCallFits, AnswerFits
  <2> QED
    BY <2>2, FeedLoadFits
<1>2. ASSUME NEW r \in FeedCalls, NEW e \in Events, EventRecorded(r, e)
      PROVE  FeedFits'
  <2>1. UNCHANGED <<post, comment, highlight, reply, reacted>> /\ FeedDone(r) /\ feedCall[r].op = "event"
    BY <1>2 DEF EventRecorded
  <2>2. PICK x : x = [life |-> "live", at |-> feedCall[r].at, author |-> feedCall[r].user,
                      type |-> feedCall[r].type, about |-> NoHighlight]
    OBVIOUS
  <2>3. feedCall[r].user \in Users /\ feedCall[r].type \in EventTypes
    BY <2>1 DEF FeedFits, CallsFit, FeedCallFits, InsertOps
  <2>4. EventFits(x) /\ event' = [event EXCEPT ![e] = x]
    BY <1>2, <2>2, <2>3 DEF EventRecorded, EventFits
  <2>5. (\A f \in Events : EventFits(event'[f])) /\ CallsFit(feedCall', reply')
    BY <2>1, <2>4, EventRowFits, FeedDoneFits
  <2> QED
    BY <2>1, <2>5 DEF FeedFits
<1>3. ASSUME NEW r \in FeedCalls, NEW u \in Users, NEW e \in Events, NEW k \in Reactions,
             ToggleFeedReaction(r, u, e, k)
      PROVE  FeedFits'
  <2>1. PICK c : c = [op |-> "toggle", row |-> <<"event", e, u, k>>, on |-> <<"event", e, u, k>> \in reacted]
    OBVIOUS
  <2>2. FeedCallFits(c) /\ AnswerFits(c, reply) /\ FeedLoad(r, c)
    BY <1>3, <2>1 DEF ToggleFeedReaction, FeedCallFits, AnswerFits, InsertOps
  <2> QED
    BY <2>2, FeedLoadFits
<1>4. ASSUME NEW r \in FeedCalls, NEW u \in Users, NEW e \in Events, NEW q \in Replies \cup {NoReply},
             AddFeedComment(r, u, e, q)
      PROVE  FeedFits'
  <2>1. PICK c : c = [op |-> "reply", user |-> u, at |-> now, event |-> e, parent |-> q]
    OBVIOUS
  <2>2. q # NoReply => q \in Replies /\ Answerable(reply[q])
    BY <1>4 DEF AddFeedComment, Live, Answerable
  <2>3. FeedCallFits(c) /\ AnswerFits(c, reply) /\ FeedLoad(r, c)
    BY <1>4, <2>1, <2>2 DEF AddFeedComment, FeedCallFits, AnswerFits
  <2> QED
    BY <2>3, FeedLoadFits
<1>5. ASSUME NEW r \in FeedCalls, NEW c \in Replies, FeedCommentAdded(r, c)
      PROVE  FeedFits'
  BY <1>5, RepliesKeepFits
<1>6. ASSUME NEW u \in Users, NEW c \in Replies, DeleteFeedComment(u, c)
      PROVE  FeedFits'
  <2>1. UNCHANGED <<post, comment, highlight, event, reacted, feedCall>>
    BY <1>6 DEF DeleteFeedComment
  <2>2. PICK rows : rows = reply'
    OBVIOUS
  <2>3. RepliesFit(rows) /\ \A q \in Replies : Answerable(reply[q]) => Answerable(rows[q])
    BY <1>6, <2>2, ReplyDropped DEF DeleteFeedComment
  <2>4. CallsFit(feedCall, rows)
    BY <2>3, AnswersStand DEF CallsFit
  <2> QED
    BY <2>1, <2>2, <2>3, <2>4 DEF FeedFits
<1> QED
  BY <1>1, <1>2, <1>3, <1>4, <1>5, <1>6 DEF EventNext

LEMMA FeedKeepsFits ==
    ASSUME FeedTyped, FeedFits, now \in Times, FeedNext
    PROVE  FeedFits'
<1>1. ASSUME NEW r \in FeedCalls, ReactionToggled(r)
      PROVE  FeedFits'
  <2>1. UNCHANGED <<post, comment, highlight, event, reply>> /\ FeedDone(r) /\ feedCall[r].op = "toggle"
    BY <1>1 DEF ReactionToggled
  <2>2. feedCall[r].row[3] \in Users /\ feedCall[r].row[4] \in Reactions
    BY <2>1 DEF FeedFits, CallsFit, FeedCallFits
  <2>3. reacted' \subseteq reacted \cup {feedCall[r].row}
    BY <1>1 DEF ReactionToggled
  <2>4. ReactionsFit(reacted')
    BY <2>2, <2>3 DEF FeedFits, ReactionsFit
  <2>5. CallsFit(feedCall', reply')
    BY <2>1, FeedDoneFits
  <2> QED
    BY <2>1, <2>4, <2>5 DEF FeedFits
<1>2. ASSUME NEW r \in FeedCalls, FeedLost(r)
      PROVE  FeedFits'
  <2>1. FeedDone(r) /\ UNCHANGED <<post, comment, highlight, event, reply, reacted>>
    BY <1>2 DEF FeedLost, feedTables
  <2>2. CallsFit(feedCall', reply')
    BY <2>1, FeedDoneFits
  <2> QED
    BY <2>1, <2>2 DEF FeedFits
<1> QED
  BY <1>1, <1>2, PostsKeepFits, MarksKeepFits, EventsKeepFits DEF FeedNext

\* The history of contested highlights, whose steps add what they are of.
HistoryFits == contested \subseteq Highlights

LEMMA HistoryKept ==
    ASSUME HistoryFits, [PagesNext]_PagesVars
    PROVE  HistoryFits'
<1> USE DEF HistoryFits
<1>1. CASE contested' = contested
  BY <1>1
<1>2. ASSUME NEW r, NEW c, FeedLoad(r, c)
      PROVE  HistoryFits'
  BY <1>2 DEF FeedLoad, Joins
<1>3. ASSUME NEW r, FeedDone(r)
      PROVE  HistoryFits'
  BY <1>1, <1>3 DEF FeedDone
<1>4. CASE PostNext
  BY <1>1, <1>2, <1>3, <1>4 DEF PostNext, CreatePost, PostCreated, DeletePost, AddComment, CommentAdded,
                              DeleteComment, ToggleReaction
<1>5. CASE HighlightNext
  BY <1>1, <1>2, <1>3, <1>5 DEF HighlightNext, CreateHighlight, HighlightCreated, DeleteHighlight,
                              SetVisibility, ShareHighlight, HighlightShared
<1>6. CASE EventNext
  BY <1>1, <1>2, <1>3, <1>6 DEF EventNext, RecordEvent, EventRecorded, ToggleFeedReaction,
                              AddFeedComment, FeedCommentAdded, DeleteFeedComment
<1>7. CASE FeedNext
  BY <1>3, <1>4, <1>5, <1>6, <1>7 DEF FeedNext, ReactionToggled, FeedLost
<1>8. CASE UNCHANGED feed
  BY <1>1, <1>8 DEF feed
<1>9. CASE UNCHANGED Tables
  BY <1>1, <1>9 DEF Tables
<1>10. CASE ShelfNext
  BY <1>1, <1>8, <1>9, <1>10 DEF ShelfNext, AddToLibrary, UpdateStatus, UpdateChapter, LibraryLoad,
         RemoveFromLibrary, LibraryAdded, ChapterUpdated, LibraryLost, StatusUpdated, MilestoneRecorded
<1>11. CASE ReviewNext
  BY <1>8, <1>9, <1>11 DEF ReviewNext, CreateReview, ReportReview, LibraryLoad, ReviewReported,
         ReviewCreated, DeleteReview, UpdateReview
<1> QED
  BY <1>7, <1>8, <1>10, <1>11 DEF PagesNext, CommunityNext, PagesVars, CommunityVars

LEMMA FeedTypesFit ==
    ASSUME FeedTyped, FeedFits, HistoryFits
    PROVE  FeedTypeOK
<1>1. \A p \in Posts : post[p] \in RowStatus
  BY DEF FeedFits, PostsFit
<1>2. \A h \in Highlights : /\ highlight[h].visibility \in Visibilities /\ highlight[h].shared \in BOOLEAN
                            /\ highlight[h].life \in FeedLives
  BY DEF FeedFits, MarkFits
<1>3. \A e \in Live(event) : event[e].type \in EventTypes /\ event[e].author \in Users
  <2>1. DOMAIN event = Events
    BY DEF FeedTyped
  <2> QED
    BY <2>1 DEF FeedFits, EventFits, Live
<1>4. \A c \in Live(comment) : comment[c].post \in Posts
  <2>1. DOMAIN comment = Comments
    BY DEF FeedTyped
  <2> QED
    BY <2>1 DEF FeedFits, CommentsFit, Live
<1>5. \A x \in reacted : x[3] \in Users /\ x[4] \in Reactions
  BY DEF FeedFits, ReactionsFit
<1>6. \A c \in Live(reply) : reply[c].parent # NoReply =>
          reply[c].parent \in Live(reply) /\ reply[reply[c].parent].parent = NoReply
  <2>1. DOMAIN reply = Replies
    BY DEF FeedFits, RepliesFit
  <2> QED
    BY <2>1 DEF FeedFits, RepliesFit, Answerable, Live
<1> QED
  BY <1>1, <1>2, <1>3, <1>4, <1>5, <1>6 DEF FeedTypeOK, HistoryFits

--------------------------------------------------------------------------------
(***************************************************************************)
(* The types of the shelf and of the reviews, and the feed's while they     *)
(* write into it.                                                            *)
(***************************************************************************)

EntryOps == {"add", "status", "chapter", "review"}

LibraryCallFits(c) ==
    /\ c.op \in EntryOps => c.user \in Users /\ c.book \in Books
    /\ c.op \in {"add", "status"} => c.status \in Statuses
    /\ c.op \in {"add", "status", "review", "milestone"} => c.at \in Times
    /\ c.op = "chapter" => c.chapter \in Chapters
    /\ c.op = "milestone" => c.user \in Users

EntryTyped(x) ==
    x # NoEntry => x.status \in Statuses /\ x.at \in Times /\ x.chapter \in Chapters \cup {0}

ShelfFits(entries) == \A x \in Users \X Books : EntryTyped(entries[x])

OneReview(rows) ==
    \A v, w \in Reviews : (/\ rows[v].life = "live" /\ rows[w].life = "live"
                           /\ rows[v].author = rows[w].author /\ rows[v].book = rows[w].book) => v = w

LibraryFits ==
    /\ ShelfFits(shelf) /\ OneReview(review)
    /\ \A r \in LibraryCalls : LibraryCallFits(libCall[r])

LEMMA LibraryFitsAtStart ==
    ASSUME LibraryInit
    PROVE  LibraryFits
BY DEF LibraryInit, LibraryStart, LibraryFits, ShelfFits, EntryTyped, OneReview, NoReview,
       LibraryIdle, LibraryCallFits, EntryOps

CarriesOn(r, c) == libCall' = [libCall EXCEPT ![r] = c]

LEMMA LibraryCallsFit ==
    ASSUME LibraryTyped, LibraryFits, NEW r \in LibraryCalls, NEW c, CarriesOn(r, c), LibraryCallFits(c)
    PROVE  \A q \in LibraryCalls : LibraryCallFits(libCall'[q])
<1>1. \A q \in LibraryCalls : libCall'[q] = IF q = r THEN c ELSE libCall[q]
  BY DEF CarriesOn, LibraryTyped
<1> QED
  BY <1>1 DEF LibraryFits

LEMMA LibraryDoneFits ==
    ASSUME LibraryTyped, LibraryFits, NEW r \in LibraryCalls, LibraryDone(r)
    PROVE  \A q \in LibraryCalls : LibraryCallFits(libCall'[q])
<1>1. CarriesOn(r, LibraryIdle) /\ LibraryCallFits(LibraryIdle)
  BY DEF LibraryDone, CarriesOn, LibraryCallFits, LibraryIdle, EntryOps
<1> QED
  BY <1>1, LibraryCallsFit

LEMMA FeedAsideFits ==
    ASSUME FeedFits, UNCHANGED feed
    PROVE  FeedFits'
BY DEF feed, feedTables, FeedFits

LEMMA LibraryLoadFits ==
    ASSUME LibraryTyped, LibraryFits, FeedFits, NEW r \in LibraryCalls, NEW c, LibraryLoad(r, c),
           LibraryCallFits(c)
    PROVE  FeedFits' /\ LibraryFits'
<1>1. CarriesOn(r, c) /\ UNCHANGED <<feed, shelf, review>>
  BY DEF LibraryLoad, CarriesOn
<1>2. \A q \in LibraryCalls : LibraryCallFits(libCall'[q])
  BY <1>1, LibraryCallsFit
<1> QED
  BY <1>1, <1>2, FeedAsideFits DEF LibraryFits

LEMMA AnnouncedFits ==
    ASSUME FeedTyped, FeedFits, NEW e, NEW u \in Users, NEW type \in EventTypes, NEW at,
           Announce(e, u, type, at), UNCHANGED Tables
    PROVE  FeedFits'
<1>1. PICK x : x = [life |-> "live", at |-> at, author |-> u, type |-> type, about |-> NoHighlight]
  OBVIOUS
<1>2. event' = [event EXCEPT ![e] = x] /\ EventFits(x)
  BY <1>1 DEF Announce, EventFits
<1>3. \A f \in Events : EventFits(event'[f])
  BY <1>2, EventRowFits
<1> QED
  BY <1>3 DEF Tables, FeedFits

LEMMA EntrySetFits ==
    ASSUME LibraryTyped, LibraryFits, NEW x, NEW y, EntryTyped(y), shelf' = [shelf EXCEPT ![x] = y]
    PROVE  ShelfFits(shelf')
<1>1. \A z \in Users \X Books : shelf'[z] = IF z = x THEN y ELSE shelf[z]
  BY DEF LibraryTyped
<1> QED
  BY <1>1 DEF LibraryFits, ShelfFits

LEMMA ShelfKeepsFits ==
    ASSUME FeedTyped, FeedFits, LibraryTyped, LibraryFits, now \in Times, ShelfNext
    PROVE  FeedFits' /\ LibraryFits'
<1>1. ASSUME NEW r \in LibraryCalls, NEW u \in Users, NEW b \in Books, NEW s \in Statuses,
             AddToLibrary(r, u, b, s)
      PROVE  FeedFits' /\ LibraryFits'
  <2>1. PICK c : c = [op |-> "add", user |-> u, book |-> b, status |-> s, at |-> now]
    OBVIOUS
  <2>2. LibraryCallFits(c) /\ LibraryLoad(r, c)
    BY <1>1, <2>1 DEF AddToLibrary, LibraryCallFits, EntryOps
  <2> QED
    BY <2>2, LibraryLoadFits
<1>2. ASSUME NEW r \in LibraryCalls, NEW u \in Users, NEW b \in Books, NEW s \in Statuses,
             UpdateStatus(r, u, b, s)
      PROVE  FeedFits' /\ LibraryFits'
  <2>1. PICK c : c = [op |-> "status", user |-> u, book |-> b, status |-> s,
                      entry |-> shelf[<<u, b>>].id, at |-> now]
    OBVIOUS
  <2>2. LibraryCallFits(c) /\ LibraryLoad(r, c)
    BY <1>2, <2>1 DEF UpdateStatus, LibraryCallFits, EntryOps
  <2> QED
    BY <2>2, LibraryLoadFits
<1>3. ASSUME NEW r \in LibraryCalls, NEW u \in Users, NEW b \in Books, NEW n \in Chapters,
             UpdateChapter(r, u, b, n)
      PROVE  FeedFits' /\ LibraryFits'
  <2>1. PICK c : c = [op |-> "chapter", user |-> u, book |-> b, chapter |-> n, entry |-> shelf[<<u, b>>].id]
    OBVIOUS
  <2>2. LibraryCallFits(c) /\ LibraryLoad(r, c)
    BY <1>3, <2>1 DEF UpdateChapter, LibraryCallFits, EntryOps
  <2> QED
    BY <2>2, LibraryLoadFits
<1>4. ASSUME NEW u \in Users, NEW b \in Books, RemoveFromLibrary(u, b)
      PROVE  FeedFits' /\ LibraryFits'
  <2>1. UNCHANGED <<post, comment, event, reply, reacted, feedCall, review, libCall>>
        /\ shelf' = [shelf EXCEPT ![<<u, b>>] = NoEntry]
    BY <1>4 DEF RemoveFromLibrary
  <2>2. ShelfFits(shelf')
    BY <2>1, EntrySetFits DEF EntryTyped
  <2>3. ASSUME NEW h \in Highlights
        PROVE  MarkFits(highlight'[h])
    <3>1. PICK x : x = [highlight[h] EXCEPT !.life = "gone"]
      OBVIOUS
    <3>2. MarkShaped(highlight[h]) /\ MarkFits(highlight[h])
      BY DEF FeedTyped, FeedFits
    <3>3. MarkFits(x)
      BY <3>1, <3>2 DEF MarkFits, MarkShaped, FeedLives
    <3>4. highlight'[h] = x \/ highlight'[h] = highlight[h]
      BY <1>4, <3>1 DEF RemoveFromLibrary
    <3> QED
      BY <3>2, <3>3, <3>4
  <2> QED
    BY <2>1, <2>2, <2>3 DEF FeedFits, LibraryFits
<1>5. ASSUME NEW r \in LibraryCalls, LibraryAdded(r)
      PROVE  FeedFits' /\ LibraryFits'
  <2>1. PICK c : c = libCall[r]
    OBVIOUS
  <2>2. c.op = "add" /\ LibraryDone(r) /\ UNCHANGED <<feed, review>>
    BY <1>5, <2>1 DEF LibraryAdded
  <2>3. PICK y : y = [status |-> c.status, id |-> made', at |-> c.at, chapter |-> 0]
    OBVIOUS
  <2>4. shelf' = [shelf EXCEPT ![<<c.user, c.book>>] = y]
    BY <1>5, <2>1, <2>3 DEF LibraryAdded
  <2>5. LibraryCallFits(c)
    BY <2>1 DEF LibraryFits
  <2>6. EntryTyped(y)
    BY <2>2, <2>3, <2>5 DEF EntryTyped, LibraryCallFits
  <2>7. ShelfFits(shelf') /\ \A q \in LibraryCalls : LibraryCallFits(libCall'[q])
    BY <2>2, <2>4, <2>6, EntrySetFits, LibraryDoneFits
  <2> QED
    BY <2>2, <2>7, FeedAsideFits DEF LibraryFits
<1>6. ASSUME NEW r \in LibraryCalls, ChapterUpdated(r)
      PROVE  FeedFits' /\ LibraryFits'
  <2>1. PICK c : c = libCall[r]
    OBVIOUS
  <2>2. c.op = "chapter" /\ SameEntry(c) /\ UNCHANGED <<feed, review>>
    BY <1>6, <2>1 DEF ChapterUpdated
  <2>3. PICK x : x = <<c.user, c.book>>
    OBVIOUS
  <2>4. PICK y : y = [shelf[x] EXCEPT !.chapter = c.chapter]
    OBVIOUS
  <2>5. shelf' = [shelf EXCEPT ![x] = y]
    BY <1>6, <2>1, <2>3, <2>4 DEF ChapterUpdated
  <2>6. LibraryCallFits(c) /\ x \in Users \X Books
    BY <2>1, <2>2, <2>3 DEF LibraryFits, LibraryCallFits, EntryOps
  <2>7. EntryShaped(shelf[x]) /\ EntryTyped(shelf[x]) /\ shelf[x] # NoEntry
    BY <2>2, <2>3, <2>6 DEF LibraryTyped, LibraryFits, ShelfFits, SameEntry, On
  <2>8. EntryTyped(y)
    BY <2>2, <2>4, <2>6, <2>7 DEF EntryTyped, EntryShaped, LibraryCallFits
  <2>9. ShelfFits(shelf')
    BY <2>5, <2>8, EntrySetFits
  <2>10. PICK d : d = IF IsMilestone("CHAPTER_MILESTONE", c.chapter)
                      THEN [op |-> "milestone", user |-> c.user, at |-> now] ELSE LibraryIdle
    OBVIOUS
  <2>11. CarriesOn(r, d)
    BY <1>6, <2>1, <2>10 DEF ChapterUpdated, CarriesOn
  <2>12. LibraryCallFits(d)
    <3>1. CASE IsMilestone("CHAPTER_MILESTONE", c.chapter)
      BY <2>2, <2>6, <2>10, <3>1 DEF LibraryCallFits, EntryOps
    <3>2. CASE ~IsMilestone("CHAPTER_MILESTONE", c.chapter)
      BY <2>10, <3>2 DEF LibraryCallFits, EntryOps, LibraryIdle
    <3> QED
      BY <3>1, <3>2
  <2>13. \A q \in LibraryCalls : LibraryCallFits(libCall'[q])
    BY <2>11, <2>12, LibraryCallsFit
  <2> QED
    BY <2>2, <2>9, <2>13, FeedAsideFits DEF LibraryFits
<1>7. ASSUME NEW r \in LibraryCalls, LibraryLost(r)
      PROVE  FeedFits' /\ LibraryFits'
  <2>1. LibraryDone(r) /\ UNCHANGED <<feed, shelf, review>>
    BY <1>7 DEF LibraryLost
  <2> QED
    BY <2>1, FeedAsideFits, LibraryDoneFits DEF LibraryFits
<1>8. ASSUME NEW r \in LibraryCalls, NEW e \in Events, StatusUpdated(r, e)
      PROVE  FeedFits' /\ LibraryFits'
  <2>1. PICK c : c = libCall[r]
    OBVIOUS
  <2>2. c.op = "status" /\ SameEntry(c) /\ UNCHANGED <<Tables, review>> /\ LibraryDone(r)
    BY <1>8, <2>1 DEF StatusUpdated
  <2>3. PICK x : x = <<c.user, c.book>>
    OBVIOUS
  <2>4. PICK y : y = [shelf[x] EXCEPT !.status = c.status]
    OBVIOUS
  <2>5. shelf' = [shelf EXCEPT ![x] = y]
    BY <1>8, <2>1, <2>3, <2>4 DEF StatusUpdated
  <2>6. LibraryCallFits(c) /\ x \in Users \X Books /\ c.user \in Users
    BY <2>1, <2>2, <2>3 DEF LibraryFits, LibraryCallFits, EntryOps
  <2>7. EntryShaped(shelf[x]) /\ EntryTyped(shelf[x]) /\ shelf[x] # NoEntry
    BY <2>2, <2>3, <2>6 DEF LibraryTyped, LibraryFits, ShelfFits, SameEntry, On
  <2>8. EntryTyped(y)
    BY <2>2, <2>4, <2>6, <2>7 DEF EntryTyped, EntryShaped, LibraryCallFits
  <2>9. ShelfFits(shelf') /\ \A q \in LibraryCalls : LibraryCallFits(libCall'[q])
    BY <2>2, <2>5, <2>8, EntrySetFits, LibraryDoneFits
  <2>10. FeedFits'
    <3>1. Announce(e, c.user, "BOOK_COMPLETED", c.at) \/ UNCHANGED event
      BY <1>8, <2>1 DEF StatusUpdated
    <3>2. "BOOK_COMPLETED" \in EventTypes
      BY DEF EventTypes
    <3>3. UNCHANGED event => UNCHANGED feed
      BY <2>2 DEF Tables, feed, feedTables
    <3> QED
      BY <2>2, <2>6, <3>1, <3>2, <3>3, AnnouncedFits, FeedAsideFits
  <2> QED
    BY <2>2, <2>9, <2>10 DEF LibraryFits
<1>9. ASSUME NEW r \in LibraryCalls, NEW e \in Events, MilestoneRecorded(r, e)
      PROVE  FeedFits' /\ LibraryFits'
  <2>1. PICK c : c = libCall[r]
    OBVIOUS
  <2>2. c.op = "milestone" /\ UNCHANGED <<Tables, shelf, review>> /\ LibraryDone(r)
        /\ Announce(e, c.user, "CHAPTER_MILESTONE", c.at)
    BY <1>9, <2>1 DEF MilestoneRecorded
  <2>3. c.user \in Users /\ "CHAPTER_MILESTONE" \in EventTypes
    BY <2>1, <2>2 DEF LibraryFits, LibraryCallFits, EventTypes
  <2>4. FeedFits' /\ \A q \in LibraryCalls : LibraryCallFits(libCall'[q])
    BY <2>2, <2>3, AnnouncedFits, LibraryDoneFits
  <2> QED
    BY <2>2, <2>4 DEF LibraryFits
<1> QED
  BY <1>1, <1>2, <1>3, <1>4, <1>5, <1>6, <1>7, <1>8, <1>9 DEF ShelfNext

\* A review that changes, but not whose it is.
LEMMA SameReviewFits ==
    ASSUME LibraryTyped, LibraryFits, NEW v, NEW x, review' = [review EXCEPT ![v] = x],
           x.author = review[v].author, x.book = review[v].book, x.life = "live" => review[v].life = "live"
    PROVE  OneReview(review')
<1>1. \A w \in Reviews : review'[w] = IF w = v THEN x ELSE review[w]
  BY DEF LibraryTyped
<1>2. ASSUME NEW w \in Reviews
      PROVE  /\ review'[w].author = review[w].author /\ review'[w].book = review[w].book
             /\ review'[w].life = "live" => review[w].life = "live"
  BY <1>1
<1> QED
  BY <1>2 DEF LibraryFits, OneReview

LEMMA RatingsKeepFits ==
    ASSUME FeedTyped, FeedFits, LibraryTyped, LibraryFits, now \in Times, ReviewNext
    PROVE  FeedFits' /\ LibraryFits'
<1>1. ASSUME NEW r \in LibraryCalls, NEW u \in Users, NEW b \in Books, NEW text \in BOOLEAN,
             CreateReview(r, u, b, text)
      PROVE  FeedFits' /\ LibraryFits'
  <2>1. PICK c : c = [op |-> "review", user |-> u, book |-> b, text |-> text, at |-> now]
    OBVIOUS
  <2>2. LibraryCallFits(c) /\ LibraryLoad(r, c)
    BY <1>1, <2>1 DEF CreateReview, LibraryCallFits, EntryOps
  <2> QED
    BY <2>2, LibraryLoadFits
<1>2. ASSUME NEW r \in LibraryCalls, NEW u \in Users, NEW v \in Reviews, ReportReview(r, u, v)
      PROVE  FeedFits' /\ LibraryFits'
  <2>1. PICK c : c = [op |-> "report", review |-> v, reports |-> review[v].reports]
    OBVIOUS
  <2>2. LibraryCallFits(c) /\ LibraryLoad(r, c)
    BY <1>2, <2>1 DEF ReportReview, LibraryCallFits, EntryOps
  <2> QED
    BY <2>2, LibraryLoadFits
<1>3. ASSUME NEW r \in LibraryCalls, ReviewReported(r)
      PROVE  FeedFits' /\ LibraryFits'
  <2>1. PICK v, count : v = libCall[r].review /\ count = libCall[r].reports + 1
    OBVIOUS
  <2>2. /\ v \in Live(review) /\ LibraryDone(r) /\ UNCHANGED <<feed, shelf>>
        /\ review' = [review EXCEPT ![v].reports = count, ![v].hidden = @ \/ Hides(count)]
    BY <1>3, <2>1 DEF ReviewReported
  <2>3. v \in Reviews
    BY <2>2 DEF Live, LibraryTyped
  <2>4. PICK x : x = [review[v] EXCEPT !.reports = count, !.hidden = @ \/ Hides(count)]
    OBVIOUS
  <2>5. review' = [review EXCEPT ![v] = x]
    BY <2>2, <2>3, <2>4 DEF LibraryTyped
  <2>6. RatingShaped(review[v])
    BY <2>3 DEF LibraryTyped
  <2>7. x.author = review[v].author /\ x.book = review[v].book /\ x.life = review[v].life
    BY <2>4, <2>6 DEF RatingShaped
  <2>8. OneReview(review') /\ \A q \in LibraryCalls : LibraryCallFits(libCall'[q])
    BY <2>2, <2>5, <2>7, SameReviewFits, LibraryDoneFits
  <2> QED
    BY <2>2, <2>8, FeedAsideFits DEF LibraryFits
<1>4. ASSUME NEW r \in LibraryCalls, NEW v \in Reviews, NEW e \in Events, ReviewCreated(r, v, e)
      PROVE  FeedFits' /\ LibraryFits'
  <2>1. PICK c : c = libCall[r]
    OBVIOUS
  <2>2. /\ c.op = "review" /\ ReviewOf(c.user, c.book) = {} /\ v \in Fresh(review)
        /\ Announce(e, c.user, "BOOK_REVIEWED", c.at) /\ LibraryDone(r) /\ UNCHANGED <<Tables, shelf>>
    BY <1>4, <2>1 DEF ReviewCreated
  <2>3. PICK x : x = [life |-> "live", at |-> c.at, author |-> c.user,
                      book |-> c.book, text |-> c.text, reports |-> 0, hidden |-> FALSE]
    OBVIOUS
  <2>4. review' = [review EXCEPT ![v] = x]
    BY <1>4, <2>1, <2>3 DEF ReviewCreated
  <2>5. c.user \in Users /\ "BOOK_REVIEWED" \in EventTypes
    BY <2>1, <2>2 DEF LibraryFits, LibraryCallFits, EntryOps, EventTypes
  <2>6. FeedFits' /\ \A q \in LibraryCalls : LibraryCallFits(libCall'[q])
    BY <2>2, <2>5, AnnouncedFits, LibraryDoneFits
  <2>7. OneReview(review')
    <3>1. \A w \in Reviews : review'[w] = IF w = v THEN x ELSE review[w]
      BY <2>4 DEF LibraryTyped
    <3>2. \A w \in Reviews : review[w].life = "live" => ~(review[w].author = c.user /\ review[w].book = c.book)
      <4>1. DOMAIN review = Reviews
        BY DEF LibraryTyped
      <4> QED
        BY <2>2, <4>1 DEF ReviewOf, Live
    <3>3. x.author = c.user /\ x.book = c.book
      BY <2>3
    <3> QED
      BY <3>1, <3>2, <3>3 DEF LibraryFits, OneReview
  <2> QED
    BY <2>2, <2>6, <2>7 DEF LibraryFits
<1>5. ASSUME NEW u \in Users, NEW v \in Reviews, DeleteReview(u, v)
      PROVE  FeedFits' /\ LibraryFits'
  <2>1. review' = [review EXCEPT ![v].life = "gone"] /\ UNCHANGED <<feed, shelf, libCall>>
    BY <1>5 DEF DeleteReview
  <2>2. PICK x : x = [review[v] EXCEPT !.life = "gone"]
    OBVIOUS
  <2>3. RatingShaped(review[v]) /\ review' = [review EXCEPT ![v] = x]
    BY <2>1, <2>2 DEF LibraryTyped
  <2>4. x.author = review[v].author /\ x.book = review[v].book /\ x.life = "gone"
    BY <2>2, <2>3 DEF RatingShaped
  <2>5. OneReview(review')
    BY <2>3, <2>4, SameReviewFits
  <2> QED
    BY <2>1, <2>5, FeedAsideFits DEF LibraryFits
<1>6. ASSUME NEW u \in Users, NEW v \in Reviews, NEW text \in BOOLEAN, UpdateReview(u, v, text)
      PROVE  FeedFits' /\ LibraryFits'
  <2>1. review' = [review EXCEPT ![v].text = text] /\ UNCHANGED <<feed, shelf, libCall>>
    BY <1>6 DEF UpdateReview
  <2>2. PICK x : x = [review[v] EXCEPT !.text = text]
    OBVIOUS
  <2>3. RatingShaped(review[v]) /\ review' = [review EXCEPT ![v] = x]
    BY <2>1, <2>2 DEF LibraryTyped
  <2>4. x.author = review[v].author /\ x.book = review[v].book /\ x.life = review[v].life
    BY <2>2, <2>3 DEF RatingShaped
  <2>5. OneReview(review')
    BY <2>3, <2>4, SameReviewFits
  <2> QED
    BY <2>1, <2>5, FeedAsideFits DEF LibraryFits
<1> QED
  BY <1>1, <1>2, <1>3, <1>4, <1>5, <1>6 DEF ReviewNext

LEMMA LibraryTypesFit ==
    ASSUME LibraryTyped, LibraryFits
    PROVE  LibraryTypeOK
<1>1. ASSUME NEW x \in DOMAIN shelf, On(x[1], x[2])
      PROVE  shelf[x].status \in Statuses /\ shelf[x].at \in Times /\ shelf[x].chapter \in Chapters \cup {0}
  <2>1. x \in Users \X Books /\ x = <<x[1], x[2]>>
    BY DEF LibraryTyped
  <2> QED
    BY <1>1, <2>1 DEF On, LibraryFits, ShelfFits, EntryTyped
<1>2. \A v, w \in Live(review) :
          (review[v].author = review[w].author /\ review[v].book = review[w].book) => v = w
  <2>1. DOMAIN review = Reviews
    BY DEF LibraryTyped
  <2> QED
    BY <2>1 DEF LibraryFits, OneReview, Live
<1> QED
  BY <1>1, <1>2 DEF LibraryTypeOK

--------------------------------------------------------------------------------
(***************************************************************************)
(* The types of accounts and administrators.  Nobody administers before the   *)
(* first administrator was promoted, and a request to patch a user that is in *)
(* flight came from one.                                                      *)
(***************************************************************************)

DeletionsFit ==
    /\ \A u \in Users : (account[u].life = "gone") = (account[u].deleted # Never)
    /\ \A t \in DeviceTokens : device[t] \in Users \cup {NoUser}
    /\ device = [t \in DeviceTokens |-> device[t]]

AdminsFit ==
    /\ \A u \in admins : account[u].life # "unused"
    /\ (admins # {} \/ \E r \in AdminCalls : adminCall[r].op = "patch") => founded
    /\ excuse \subseteq {"overlap", "deletion"}

ConsoleFits == AccountsInv /\ AdminsInv /\ DeletionsFit /\ AdminsFit

LEMMA ConsoleFitsAtStart ==
    ASSUME ClockInit, AccountsInit, AdministrationInit
    PROVE  ConsoleFits
<1>1. AccountsInv /\ AdminsInv
  BY AccountsStart, AdminsStart
<1>2. DeletionsFit
  BY DEF AccountsInit, DeletionsFit, NoAccount
<1>3. AdminsFit
  BY DEF AdministrationInit, AdminsFit, AdminIdle
<1> QED
  BY <1>1, <1>2, <1>3 DEF ConsoleFits

LEMMA ConsoleTypesFit ==
    ASSUME ConsoleFits
    PROVE  AccountsTypeOK /\ AdministrationTypeOK
<1>1. AccountsTypeOK
  BY DEF ConsoleFits, DeletionsFit, AccountsInv, AccountsTyped, AccountRows, Tokens, AccountsTypeOK
<1>2. AdministrationTypeOK
  BY DEF ConsoleFits, AdminsFit, AdministrationTypeOK
<1> QED
  BY <1>1, <1>2

\* Accounts and devices that stay, or one account that is marked with the time.
LEMMA SignInsFit ==
    ASSUME ConsoleFits, SignIns
    PROVE  DeletionsFit' /\ \A u \in Users : account[u].life # "unused" => account'[u].life # "unused"
<1> USE DEF ConsoleFits, AccountsInv, AccountsTyped
<1>1. ASSUME NEW r \in LoginCalls, NEW u \in Users, SignedUp(r, u)
      PROVE  DeletionsFit' /\ \A v \in Users : account[v].life # "unused" => account'[v].life # "unused"
  <2>1. account[u] = NoAccount /\ account'[u].life = "live" /\ account'[u].deleted = Never /\ device' = device
        /\ \A v \in Users \ {u} : account'[v] = account[v]
    BY <1>1 DEF SignedUp, LoginDone
  <2> QED
    BY <2>1 DEF DeletionsFit
<1>2. ASSUME NEW c \in Clients, NEW t \in DeviceTokens, RegisterDevice(c, t)
      PROVE  DeletionsFit' /\ account' = account
  <2>1. session[c].user \in Users \cup {NoUser}
    BY DEF Tokens
  <2> QED
    BY <1>2, <2>1 DEF RegisterDevice, DeletionsFit
<1>3. ASSUME account' = account, device' = device
      PROVE  DeletionsFit'
  BY <1>3 DEF DeletionsFit
<1> QED
  BY <1>1, <1>2, <1>3 DEF SignIns, Login, LoggedIn, LoginRefused, LoginDone, Refresh

\* What a deletion marks is an account.
LEMMA DeletionFits ==
    ASSUME ConsoleFits, now \in Times, NEW c \in Clients, DeleteAccount(c)
    PROVE  DeletionsFit' /\ \A u \in Users : account[u].life # "unused" => account'[u].life # "unused"
<1> PICK u : u = session[c].user
  OBVIOUS
<1>1. account' = [account EXCEPT ![u].life = "gone", ![u].deleted = now] /\ device' = device
  BY DEF DeleteAccount
<1>2. now # Never
  BY ClockAssumption DEF Times, Never
<1>3. ASSUME NEW v \in Users
      PROVE  /\ v # u => account'[v] = account[v]
             /\ v = u => account'[v].life = "gone" /\ account'[v].deleted = now
  <2> PICK a \in AccountRows : a = account[v]
    BY DEF ConsoleFits, AccountsInv, AccountsTyped
  <2> DEFINE b == [a EXCEPT !.life = "gone", !.deleted = now]
  <2>1. account'[v] = IF v = u THEN b ELSE a
    BY <1>1 DEF ConsoleFits, AccountsInv, AccountsTyped
  <2>2. b.life = "gone" /\ b.deleted = now
    BY DEF AccountRows
  <2> HIDE DEF b
  <2> QED
    BY <2>1, <2>2
<1>4. DeletionsFit
  BY DEF ConsoleFits
<1>5. \A v \in Users : (account'[v].life = "gone") = (account'[v].deleted # Never)
  BY <1>2, <1>3, <1>4 DEF DeletionsFit
<1>6. \A v \in Users : account[v].life # "unused" => account'[v].life # "unused"
  BY <1>3
<1> QED
  BY <1>1, <1>4, <1>5, <1>6 DEF DeletionsFit

\* Nothing that the console does founds it but the first promotion.
LEMMA AdministrationFits ==
    ASSUME ConsoleFits, now \in Times, AdministrationNext
    PROVE  DeletionsFit' /\ AdminsFit'
<1> USE DEF ConsoleFits, AdminsInv, AdminsTyped
<1>1. ASSUME NEW u \in Users, PromoteUser(u)
      PROVE  DeletionsFit' /\ AdminsFit'
  BY <1>1 DEF PromoteUser, accounts, DeletionsFit, AdminsFit, Alive
<1>2. ASSUME NEW r \in AdminCalls, NEW caller \in Users, NEW u \in Users, NEW flag \in BOOLEAN, PatchUser(r, caller, u, flag)
      PROVE  DeletionsFit' /\ AdminsFit'
  <2>1. caller \in admins /\ UNCHANGED <<accounts, admins, founded>> /\ excuse' \subseteq excuse \cup {"overlap"}
    BY <1>2 DEF PatchUser, PatchLoaded, LiveAdmins
  <2> QED
    BY <2>1 DEF accounts, DeletionsFit, AdminsFit
<1>3. ASSUME NEW r \in AdminCalls, UserPatched(r)
      PROVE  DeletionsFit' /\ AdminsFit'
  <2>1. /\ adminCall[r].op = "patch" /\ UNCHANGED <<accounts, founded, excuse>>
        /\ \A u \in admins' : u \in admins \/ account[u].life = "live"
    BY <1>3 DEF UserPatched, Alive
  <2> QED
    BY <2>1 DEF accounts, DeletionsFit, AdminsFit
<1>4. ASSUME NEW r \in AdminCalls, PatchLost(r)
      PROVE  DeletionsFit' /\ AdminsFit'
  <2>1. UNCHANGED <<accounts, admins, founded, excuse>> /\ adminCall' = [adminCall EXCEPT ![r] = AdminIdle]
    BY <1>4 DEF PatchLost
  <2>2. \A q \in AdminCalls : adminCall'[q] = adminCall[q] \/ adminCall'[q] = AdminIdle
    BY <2>1
  <2> QED
    BY <2>1, <2>2 DEF accounts, DeletionsFit, AdminsFit, AdminIdle
<1>5. ASSUME NEW c \in Clients, AdminLeaves(c)
      PROVE  DeletionsFit' /\ AdminsFit'
  <2>1. DeleteAccount(c) /\ UNCHANGED <<admins, adminCall, founded>> /\ excuse' \subseteq excuse \cup {"deletion"}
    BY <1>5 DEF AdminLeaves
  <2>2. DeletionsFit' /\ \A u \in Users : account[u].life # "unused" => account'[u].life # "unused"
    BY <2>1, DeletionFits
  <2> QED
    BY <2>1, <2>2 DEF AdminsFit
<1> QED
  BY <1>1, <1>2, <1>3, <1>4, <1>5 DEF AdministrationNext

LEMMA ConsoleKeepsFits ==
    ASSUME ConsoleFits, now \in Times, [ConsoleNext]_ConsoleVars
    PROVE  ConsoleFits'
<1>1. AccountsInv' /\ AdminsInv'
  BY AccountsStep, AdminsStep DEF ConsoleFits
<1>2. CASE AdministrationNext
  BY <1>1, <1>2, AdministrationFits DEF ConsoleFits
<1>3. CASE SignIns /\ UNCHANGED administration
  <2>1. DeletionsFit' /\ \A u \in Users : account[u].life # "unused" => account'[u].life # "unused"
    BY <1>3, SignInsFit
  <2>2. AdminsFit'
    BY <1>3, <2>1 DEF ConsoleFits, AdminsFit, administration, AdminsInv, AdminsTyped
  <2> QED
    BY <1>1, <2>1, <2>2 DEF ConsoleFits
<1>4. CASE UNCHANGED <<accounts, administration>>
  BY <1>1, <1>4 DEF ConsoleFits, DeletionsFit, AdminsFit, accounts, administration
<1> QED
  BY <1>2, <1>3, <1>4 DEF ConsoleNext, ConsoleVars

--------------------------------------------------------------------------------
(***************************************************************************)
(* The types of subscriptions, coupons and teams.  A subscription that is off *)
(* has no end, a coupon is by one of those who were told it is theirs, and    *)
(* the admin of a team never gives the seat up.                               *)
(***************************************************************************)

ProFits == pro = [u \in Users |-> pro[u]] /\ \A u \in Users : pro[u].is \in BOOLEAN /\ (~pro[u].is => pro[u].until = Never)

CouponsFit ==
    \A k \in Coupons : /\ coupon[k] \in [issued : BOOLEAN, by : Users \cup {NoUser}]
                       /\ coupon[k].by \in redeemed[k] \cup {NoUser}

TeamsFit == \A t \in Teams : team[t] # NoTeam => <<t, team[t].admin>> \in seat

BillingFits == BillingInv /\ ProFits /\ CouponsFit /\ TeamsFit

LEMMA BillingFitsAtStart ==
    ASSUME BillingInit
    PROVE  BillingFits
<1>1. BillingInv
  BY BillingStart
<1>2. ProFits /\ CouponsFit /\ TeamsFit
  BY DEF BillingInit, ProFits, CouponsFit, TeamsFit, Free, NoCoupon
<1> QED
  BY <1>1, <1>2 DEF BillingFits

LEMMA BillingTypesFit ==
    ASSUME BillingFits
    PROVE  BillingTypeOK
BY DEF BillingFits, ProFits, CouponsFit, TeamsFit, BillingTypeOK

LEMMA ProWritten ==
    ASSUME ProFits, NEW u, NEW is \in BOOLEAN, NEW until, ~is => until = Never, UpdateSubscription(u, is, until)
    PROVE  ProFits'
<1>1. PICK p : p = [is |-> is, until |-> until]
  OBVIOUS
<1>2. pro' = [pro EXCEPT ![u] = p] /\ p.is = is /\ p.until = until
  BY <1>1 DEF UpdateSubscription
<1>3. pro' = [v \in Users |-> pro'[v]] /\ \A v \in Users : pro'[v] = IF v = u THEN p ELSE pro[v]
  BY <1>2 DEF ProFits
<1> QED
  BY <1>2, <1>3 DEF ProFits

LEMMA SubscriptionsFit ==
    ASSUME ProFits, SubscriptionNext
    PROVE  ProFits' /\ UNCHANGED <<coupon, redeemed, team, seat>>
<1>1. ASSUME NEW u \in Users, NEW r \in BillingCalls, GetStatus(r, u)
      PROVE  UNCHANGED <<pro, coupon, redeemed, team, seat>>
  BY <1>1 DEF GetStatus, Load
<1>2. ASSUME NEW u \in Users, NEW until, VerifyAndActivate(u, until)
      PROVE  ProFits' /\ UNCHANGED <<coupon, redeemed, team, seat>>
  BY <1>2, ProWritten DEF VerifyAndActivate
<1>3. ASSUME NEW u \in Users, NEW until, NEW type, ApplyWebhookEvent(type, u, until)
      PROVE  ProFits' /\ UNCHANGED <<coupon, redeemed, team, seat>>
  <2>1. UpdateSubscription(u, TRUE, until) \/ UpdateSubscription(u, FALSE, Never)
    BY <1>3 DEF ApplyWebhookEvent
  <2> QED
    BY <1>3, <2>1, ProWritten DEF ApplyWebhookEvent
<1>4. ASSUME UNCHANGED <<pro, coupon, redeemed, team, seat>>
      PROVE  ProFits' /\ UNCHANGED <<coupon, redeemed, team, seat>>
  BY <1>4 DEF ProFits
<1> QED
  BY <1>1, <1>2, <1>3, <1>4 DEF SubscriptionNext

\* A coupon that is made is nobody's still.
LEMMA CouponMadeFits ==
    ASSUME BillsTyped, CouponsFit, NEW k \in Coupons, CreateCoupon(k)
    PROVE  CouponsFit' /\ UNCHANGED <<pro, redeemed, team, seat>>
<1>1. coupon' = [coupon EXCEPT ![k].issued = TRUE] /\ UNCHANGED <<pro, redeemed, team, seat>>
  BY DEF CreateCoupon
<1>2. ASSUME NEW n \in Coupons
      PROVE  coupon'[n] \in [issued : BOOLEAN, by : Users \cup {NoUser}] /\ coupon'[n].by = coupon[n].by
  <2> PICK x \in [issued : BOOLEAN, by : Users \cup {NoUser}] : x = coupon[n]
    BY DEF CouponsFit
  <2>1. coupon'[n] = IF n = k THEN [x EXCEPT !.issued = TRUE] ELSE x
    BY <1>1 DEF BillsTyped
  <2> QED
    BY <2>1
<1> QED
  BY <1>1, <1>2 DEF CouponsFit

LEMMA CouponTakenFits ==
    ASSUME BillsTyped, CouponsFit, NEW r \in BillingCalls, CouponApplied(r)
    PROVE  CouponsFit' /\ UNCHANGED <<pro, team, seat>>
<1> PICK k \in Coupons, u \in Users : k = bill[r].coupon /\ u = bill[r].user
  BY DEF BillsTyped, CouponApplied
<1>1. /\ coupon' = [coupon EXCEPT ![k].by = u] /\ redeemed' = [redeemed EXCEPT ![k] = @ \cup {u}]
      /\ UNCHANGED <<pro, team, seat>>
  BY DEF CouponApplied
<1>2. ASSUME NEW n \in Coupons
      PROVE  coupon'[n] \in [issued : BOOLEAN, by : Users \cup {NoUser}] /\ coupon'[n].by \in redeemed'[n] \cup {NoUser}
  <2> PICK x \in [issued : BOOLEAN, by : Users \cup {NoUser}] : x = coupon[n]
    BY DEF CouponsFit
  <2>1. /\ coupon'[n] = IF n = k THEN [x EXCEPT !.by = u] ELSE x
        /\ redeemed'[n] = IF n = k THEN redeemed[n] \cup {u} ELSE redeemed[n]
    BY <1>1 DEF BillsTyped
  <2> QED
    BY <2>1 DEF CouponsFit
<1> QED
  BY <1>1, <1>2 DEF CouponsFit

LEMMA TeamWorkFits ==
    ASSUME BillsTyped, ProFits, TeamsFit, TeamNext \/ \E r \in BillingCalls : MemberAdded(r)
    PROVE  ProFits' /\ TeamsFit' /\ UNCHANGED <<coupon, redeemed>>
<1>1. ASSUME NEW t \in Teams, NEW u \in Users, NEW until, CreateTeam(u, t, until)
      PROVE  ProFits' /\ TeamsFit' /\ UNCHANGED <<coupon, redeemed>>
  <2>1. PICK x : x = [admin |-> u, until |-> until]
    OBVIOUS
  <2>2. team' = [team EXCEPT ![t] = x] /\ x.admin = u /\ seat' = seat \cup {<<t, u>>}
    BY <1>1, <2>1 DEF CreateTeam
  <2>3. \A n \in Teams : team'[n] = IF n = t THEN x ELSE team[n]
    BY <2>2 DEF BillsTyped
  <2>4. TeamsFit'
    BY <2>2, <2>3 DEF TeamsFit
  <2> QED
    BY <1>1, <2>4, ProWritten DEF CreateTeam
<1>2. ASSUME NEW t \in Teams, NEW u \in Users, NEW r \in BillingCalls, AddMember(r, t, u)
      PROVE  ProFits' /\ TeamsFit' /\ UNCHANGED <<coupon, redeemed>>
  BY <1>2 DEF AddMember, Load, ProFits, TeamsFit
<1>3. ASSUME NEW t \in Teams, NEW u \in Users, RemoveMember(t, u)
      PROVE  ProFits' /\ TeamsFit' /\ UNCHANGED <<coupon, redeemed>>
  <2>1. u # team[t].admin /\ seat' = seat \ {<<t, u>>} /\ team' = team
    BY <1>3 DEF RemoveMember
  <2>2. TeamsFit'
    BY <2>1 DEF TeamsFit
  <2> QED
    BY <1>3, <2>2, ProWritten DEF RemoveMember
<1>4. ASSUME NEW r \in BillingCalls, MemberAdded(r)
      PROVE  ProFits' /\ TeamsFit' /\ UNCHANGED <<coupon, redeemed>>
  <2>1. seat \subseteq seat' /\ team' = team
    BY <1>4 DEF MemberAdded
  <2>2. TeamsFit'
    BY <2>1 DEF TeamsFit
  <2> QED
    BY <1>4, <2>2, ProWritten DEF MemberAdded
<1> QED
  BY <1>1, <1>2, <1>3, <1>4 DEF TeamNext

LEMMA BillingKeepsFits ==
    ASSUME BillingFits, BillingNext \/ UNCHANGED billing \/ \E k \in Coupons : CreateCoupon(k)
    PROVE  BillingFits'
<1>1. BillingInv'
  BY BillingStep DEF BillingFits, billing
<1>2. BillsTyped
  BY DEF BillingFits, BillingInv
<1>3. ASSUME NEW r \in BillingCalls, StatusExpired(r)
      PROVE  BillingFits'
  <2>1. ProFits' /\ UNCHANGED <<coupon, redeemed, team, seat>>
    BY <1>3, ProWritten DEF StatusExpired, BillingFits
  <2> QED
    BY <1>1, <2>1 DEF BillingFits, CouponsFit, TeamsFit
<1>4. ASSUME UNCHANGED <<pro, coupon, redeemed, team, seat>>
      PROVE  BillingFits'
  BY <1>1, <1>4 DEF BillingFits, ProFits, CouponsFit, TeamsFit
<1>5. ASSUME NEW k \in Coupons, CreateCoupon(k)
      PROVE  BillingFits'
  <2>1. CouponsFit' /\ UNCHANGED <<pro, redeemed, team, seat>>
    BY <1>2, <1>5, CouponMadeFits DEF BillingFits
  <2> QED
    BY <1>1, <2>1 DEF BillingFits, ProFits, TeamsFit
<1>6. CASE SubscriptionNext
  <2>1. ProFits' /\ UNCHANGED <<coupon, redeemed, team, seat>>
    BY <1>6, SubscriptionsFit DEF BillingFits
  <2> QED
    BY <1>1, <2>1 DEF BillingFits, CouponsFit, TeamsFit
<1>7. CASE CouponNext
  BY <1>4, <1>5, <1>7 DEF CouponNext, ApplyCoupon, Load
<1>8. CASE TeamNext \/ \E r \in BillingCalls : MemberAdded(r)
  <2>1. ProFits' /\ TeamsFit' /\ UNCHANGED <<coupon, redeemed>>
    BY <1>2, <1>8, TeamWorkFits DEF BillingFits
  <2> QED
    BY <1>1, <2>1 DEF BillingFits, CouponsFit
<1>9. ASSUME NEW r \in BillingCalls, CouponApplied(r)
      PROVE  BillingFits'
  <2>1. CouponsFit' /\ UNCHANGED <<pro, team, seat>>
    BY <1>2, <1>9, CouponTakenFits DEF BillingFits
  <2> QED
    BY <1>1, <2>1 DEF BillingFits, ProFits, TeamsFit
<1>10. ASSUME NEW r \in BillingCalls, BillLost(r)
       PROVE  BillingFits'
  BY <1>4, <1>10 DEF BillLost
<1> QED
  BY <1>3, <1>4, <1>5, <1>6, <1>7, <1>8, <1>9, <1>10 DEF BillingNext, billing

--------------------------------------------------------------------------------
(***************************************************************************)
(* The types of meetups.  Who was told of a place is in the queue.            *)
(***************************************************************************)

MeetupRows == [life : {"unused", "live", "gone"}, creator : Users \cup {NoUser}, at : Times,
               places : Places \cup {NoLimit}]

JoinFits(c) == c.op \in {"join", "review"} => c.meetup \in Meetups /\ c.user \in Users

QueuesFit ==
    /\ \A m \in Meetups : meetup[m] \in MeetupRows
    /\ \A r \in MeetupCalls : JoinFits(meetCall[r])
    /\ waitlist \subseteq Meetups \X Users /\ meetReview \subseteq Meetups \X Users
    /\ confirmed \subseteq waitlist

MeetupsFit == MeetupInv /\ QueuesFit

LEMMA MeetupsFitAtStart ==
    ASSUME MeetupsInit
    PROVE  MeetupsFit
<1>1. 0 \in Times
  BY ClockAssumption DEF Times
<1>2. QueuesFit
  BY <1>1 DEF MeetupsInit, QueuesFit, MeetupRows, NoMeetup, JoinFits, MeetupIdle
<1> QED
  BY <1>2, MeetupsStart DEF MeetupsFit

LEMMA MeetupTypesFit ==
    ASSUME MeetupsFit
    PROVE  MeetupsTypeOK
BY DEF MeetupsFit, QueuesFit, MeetupRows, MeetupsTypeOK

\* Requests that take a call up, or end.
LEMMA JoinsMove ==
    ASSUME MeetupsFit, NEW r \in MeetupCalls, NEW c, JoinFits(c), meetCall' = [meetCall EXCEPT ![r] = c]
    PROVE  \A q \in MeetupCalls : JoinFits(meetCall'[q])
BY DEF MeetupsFit, MeetupInv, QueuesFit

LEMMA QueuesKeepFits ==
    ASSUME MeetupsFit, MeetupsNext
    PROVE  QueuesFit'
<1> USE DEF MeetupsFit, QueuesFit
<1>1. ASSUME NEW u \in Users, NEW m \in Meetups, NEW at \in Times, NEW places \in Places,
             CreateMeetup(u, m, at, places)
      PROVE  QueuesFit'
  <2>1. PICK x : x = [life |-> "live", creator |-> u, at |-> at, places |-> places]
    OBVIOUS
  <2>2. meetup' = [meetup EXCEPT ![m] = x] /\ x \in MeetupRows /\ UNCHANGED <<waitlist, meetReview, meetCall, confirmed>>
    BY <1>1, <2>1 DEF CreateMeetup, MeetupRows
  <2>3. \A n \in Meetups : meetup'[n] \in MeetupRows
    BY <2>2 DEF MeetupInv
  <2> QED
    BY <2>2, <2>3
<1>2. ASSUME NEW u \in Users, NEW m \in Meetups, CancelMeetup(u, m)
      PROVE  QueuesFit'
  <2>1. meetup' = [meetup EXCEPT ![m].life = "gone"] /\ UNCHANGED <<waitlist, meetReview, meetCall, confirmed>>
    BY <1>2 DEF CancelMeetup
  <2>2. ASSUME NEW n \in Meetups
        PROVE  meetup'[n] \in MeetupRows
    <3> PICK x \in MeetupRows : x = meetup[n]
      OBVIOUS
    <3>1. meetup'[n] = IF n = m THEN [x EXCEPT !.life = "gone"] ELSE x
      BY <2>1 DEF MeetupInv
    <3>2. [x EXCEPT !.life = "gone"] \in MeetupRows
      BY DEF MeetupRows
    <3> QED
      BY <3>1, <3>2
  <2> QED
    BY <2>1, <2>2
<1>3. ASSUME NEW u \in Users, NEW m \in Meetups, LeaveWaitlist(u, m)
      PROVE  QueuesFit'
  BY <1>3 DEF LeaveWaitlist
<1>4. ASSUME NEW r \in MeetupCalls, NEW u \in Users, NEW m \in Meetups, JoinWaitlist(r, u, m) \/ ReviewMeetup(r, u, m)
      PROVE  QueuesFit'
  <2>1. PICK c : /\ JoinFits(c) /\ meetCall' = [meetCall EXCEPT ![r] = c]
                 /\ UNCHANGED <<meetup, waitlist, meetReview, confirmed>>
    BY <1>4 DEF JoinWaitlist, ReviewMeetup, MeetLoad, JoinFits
  <2>2. \A q \in MeetupCalls : JoinFits(meetCall'[q])
    BY <2>1, JoinsMove
  <2> QED
    BY <2>1, <2>2
<1>5. ASSUME NEW r \in MeetupCalls, Joined(r)
      PROVE  QueuesFit'
  <2>1. PICK m \in Meetups, u \in Users : m = meetCall[r].meetup /\ u = meetCall[r].user
    BY <1>5 DEF Joined, JoinFits
  <2>2. /\ waitlist' = waitlist \cup {<<m, u>>} /\ confirmed' \subseteq confirmed \cup {<<m, u>>}
        /\ meetCall' = [meetCall EXCEPT ![r] = MeetupIdle] /\ UNCHANGED <<meetup, meetReview>>
    BY <1>5, <2>1 DEF Joined, MeetDone
  <2>3. \A q \in MeetupCalls : JoinFits(meetCall'[q])
    BY <2>2, JoinsMove DEF JoinFits, MeetupIdle
  <2> QED
    BY <2>2, <2>3
<1>6. ASSUME NEW r \in MeetupCalls, MeetupReviewed(r)
      PROVE  QueuesFit'
  <2>1. PICK m \in Meetups, u \in Users : m = meetCall[r].meetup /\ u = meetCall[r].user
    BY <1>6 DEF MeetupReviewed, JoinFits
  <2>2. /\ meetReview' = meetReview \cup {<<m, u>>}
        /\ meetCall' = [meetCall EXCEPT ![r] = MeetupIdle] /\ UNCHANGED <<meetup, waitlist, confirmed>>
    BY <1>6, <2>1 DEF MeetupReviewed, MeetDone
  <2>3. \A q \in MeetupCalls : JoinFits(meetCall'[q])
    BY <2>2, JoinsMove DEF JoinFits, MeetupIdle
  <2> QED
    BY <2>2, <2>3
<1>7. ASSUME NEW r \in MeetupCalls, MeetupLost(r)
      PROVE  QueuesFit'
  <2>1. meetCall' = [meetCall EXCEPT ![r] = MeetupIdle] /\ UNCHANGED <<meetup, waitlist, meetReview, confirmed>>
    BY <1>7 DEF MeetupLost, MeetDone
  <2>2. \A q \in MeetupCalls : JoinFits(meetCall'[q])
    BY <2>1, JoinsMove DEF JoinFits, MeetupIdle
  <2> QED
    BY <2>1, <2>2
<1> QED
  BY <1>1, <1>2, <1>3, <1>4, <1>5, <1>6, <1>7 DEF MeetupsNext

LEMMA MeetupsKeepFits ==
    ASSUME MeetupsFit, MeetupsNext \/ UNCHANGED meetups
    PROVE  MeetupsFit'
<1>1. MeetupInv'
  BY MeetupStep DEF MeetupsFit
<1>2. CASE MeetupsNext
  BY <1>1, <1>2, QueuesKeepFits DEF MeetupsFit
<1>3. CASE UNCHANGED meetups
  BY <1>1, <1>3 DEF meetups, MeetupsFit, QueuesFit
<1> QED
  BY <1>2, <1>3

--------------------------------------------------------------------------------
(***************************************************************************)
(* The types of referrals.  No two users have a code in common, though codes   *)
(* are drawn by requests that see neither what the others draw nor what they   *)
(* write over: a code that a transaction is to write is nobody's, and no       *)
(* other's that writes one.                                                    *)
(***************************************************************************)

CodesApart ==
    /\ \A u, v \in Users : (ownCode[u] = ownCode[v] /\ ownCode[u] # NoCode) => u = v
    /\ \A r \in ReferralCalls : Written(r) => \A v \in Users : ownCode[v] # refCall[r].own
    /\ \A r, q \in ReferralCalls : (Written(r) /\ Written(q) /\ refCall[r].own = refCall[q].own) => r = q

CompletedFit == \A x \in referral : x.completed \in Stamps

ReferralFits == ReferralInv /\ CodesApart /\ CompletedFit

LEMMA ReferralFitsAtStart ==
    ASSUME ClockInit, ReferralInit
    PROVE  ReferralFits
<1>1. CodesApart /\ CompletedFit
  BY DEF ReferralInit, CodesApart, CompletedFit, Written
<1> QED
  BY <1>1, ReferralStarts DEF ReferralFits

LEMMA ReferralTypesFit ==
    ASSUME ReferralFits
    PROVE  ReferralTypeOK
BY DEF ReferralFits, CodesApart, CompletedFit, ReferralInv, ReferralTyped, ReferralRows, ReferralTypeOK

\* No code is written: requests begin, go on or are lost.
LEMMA NothingWritten ==
    ASSUME CodesApart, ownCode' = ownCode,
           \A q \in ReferralCalls : Written(q)' => Written(q) /\ refCall'[q].own = refCall[q].own
    PROVE  CodesApart'
BY DEF CodesApart

\* A request moves on: it writes no code unless it has drawn one.
LEMMA MovesFit ==
    ASSUME ReferralTyped, CodesApart, NEW r \in ReferralCalls, NEW c, refCall' = [refCall EXCEPT ![r] = c],
           ownCode' = ownCode,
           c = ReferralIdle \/ c.found # NoCode \/ c.own = NoCode \/ (Written(r) /\ c.own = refCall[r].own)
    PROVE  CodesApart'
<1>1. \A q \in ReferralCalls : refCall'[q] = IF q = r THEN c ELSE refCall[q]
  BY DEF ReferralTyped
<1>2. \A q \in ReferralCalls : Written(q)' => Written(q) /\ refCall'[q].own = refCall[q].own
  BY <1>1 DEF Written
<1> QED
  BY <1>2, NothingWritten

\* A request commits the code it has written, if it has, and is over.
LEMMA CommitFits ==
    ASSUME ReferralTyped, CodesApart, NEW r \in ReferralCalls, refCall[r] # ReferralIdle,
           refCall' = [refCall EXCEPT ![r] = ReferralIdle], CodeCommitted(r)
    PROVE  CodesApart'
<1> PICK u, own : u = refCall[r].user /\ own = refCall[r].own
  OBVIOUS
<1>1. CASE ~Written(r)
  BY <1>1, MovesFit DEF CodeCommitted
<1>2. CASE Written(r)
  <2>1. \A v \in Users : ownCode'[v] = IF v = u THEN own ELSE ownCode[v]
    BY <1>2 DEF CodeCommitted, ReferralTyped
  <2>2. \A q \in ReferralCalls : refCall'[q] = IF q = r THEN ReferralIdle ELSE refCall[q]
    BY DEF ReferralTyped
  <2>3. \A q \in ReferralCalls : Written(q)' => Written(q) /\ q # r /\ refCall'[q] = refCall[q]
    BY <2>2 DEF Written
  <2> QED
    BY <1>2, <2>1, <2>3 DEF CodesApart
<1> QED
  BY <1>1, <1>2

LEMMA CodeDrawnFits ==
    ASSUME ReferralFits, NEW r \in ReferralCalls, NEW d \in Codes, CodeDrawn(r, d)
    PROVE  CodesApart' /\ CompletedFit'
<1> USE DEF ReferralFits, ReferralInv
<1>1. refCall[r] \in RefBusy
  BY OpUnderway DEF CodeDrawn
<1>2. /\ refCall' = [refCall EXCEPT ![r].own = d] /\ ownCode' = ownCode /\ referral' = referral
      /\ ~Taken(d)
  BY DEF CodeDrawn
<1>3. \A q \in ReferralCalls : IF q = r THEN refCall'[q].own = d ELSE refCall'[q] = refCall[q]
  BY <1>1, <1>2 DEF ReferralTyped, RefBusy
<1>4. /\ \A v \in Users : ownCode[v] # d
      /\ \A q \in ReferralCalls : Written(q) => refCall[q].own # d
  BY <1>2 DEF Taken
<1>5. \A q \in ReferralCalls : q # r => (Written(q)' => Written(q) /\ refCall'[q] = refCall[q])
  BY <1>3 DEF Written
<1>6. CodesApart'
  BY <1>2, <1>3, <1>4, <1>5 DEF CodesApart
<1> QED
  BY <1>2, <1>6 DEF CompletedFit

LEMMA LookupsFit ==
    ASSUME ReferralFits, NEW r \in ReferralCalls, ReferrerFound(r) \/ RefereeFree(r)
    PROVE  CodesApart' /\ CompletedFit'
<1> USE DEF ReferralFits, ReferralInv
<1>1. refCall[r] \in RefBusy /\ ownCode' = ownCode /\ referral' = referral
  BY OpUnderway DEF ReferrerFound, RefereeFree
<1>2. \A q \in ReferralCalls :
         IF q = r THEN refCall'[q].own = refCall[q].own /\ refCall'[q].found = refCall[q].found
         ELSE refCall'[q] = refCall[q]
  BY <1>1 DEF ReferrerFound, RefereeFree, ReferralTyped, RefBusy
<1>3. refCall[r] # ReferralIdle
  BY <1>1, IdleFits
<1>4. \A q \in ReferralCalls : Written(q)' => Written(q) /\ refCall'[q].own = refCall[q].own
  BY <1>2, <1>3 DEF Written
<1> QED
  BY <1>1, <1>4, NothingWritten DEF CompletedFit

\* A request ends with its commit.
LEMMA EndingsFit ==
    ASSUME ReferralFits, NEW r \in ReferralCalls, CodeGiven(r) \/ AlreadyReferred(r) \/ ReferralApplied(r)
    PROVE  CodesApart' /\ CompletedFit'
<1> USE DEF ReferralFits, ReferralInv
<1>1. refCall[r].op # "idle" /\ refCall' = [refCall EXCEPT ![r] = ReferralIdle] /\ CodeCommitted(r)
  BY DEF CodeGiven, AlreadyReferred, ReferralApplied, RefDone
<1>2. refCall[r] # ReferralIdle
  BY <1>1, IdleFits
<1>3. CodesApart'
  BY <1>1, <1>2, CommitFits
<1>4. \A x \in referral' : x \in referral \/ x.completed = Never
  BY DEF CodeGiven, AlreadyReferred, ReferralApplied
<1> QED
  BY <1>3, <1>4 DEF CompletedFit, Stamps

LEMMA ReferralKeepsFits ==
    ASSUME ReferralFits, now \in Times, ReferralNext \/ (UNCHANGED referrals /\ (Tick \/ UNCHANGED now))
    PROVE  ReferralFits'
<1> USE DEF ReferralFits
<1>1. ReferralInv' /\ ReferralTyped
  BY ReferralStep DEF referrals, ReferralInv
<1>2. ASSUME NEW r \in ReferralCalls, NEW op, NEW u \in Users, NEW d, RefLoad(r, op, u, d)
      PROVE  ReferralFits'
  <2>1. PICK c : /\ refCall' = [refCall EXCEPT ![r] = c] /\ c.own = ownCode[u] /\ c.found = ownCode[u]
                 /\ UNCHANGED <<ownCode, referral>>
    BY <1>2 DEF RefLoad
  <2>2. CodesApart'
    BY <1>1, <2>1, MovesFit
  <2> QED
    BY <1>1, <2>1, <2>2 DEF CompletedFit
<1>3. ASSUME NEW r \in ReferralCalls, NEW u \in Users,
             GetMyReferral(r, u) \/ \E c \in Codes : ApplyReferral(r, u, c)
      PROVE  ReferralFits'
  <2>1. CASE UNCHANGED <<ownCode, referral, refCall>>
    BY <1>1, <2>1 DEF CodesApart, CompletedFit, Written
  <2> QED
    BY <1>2, <1>3, <2>1 DEF GetMyReferral, ApplyReferral
<1>4. ASSUME NEW r \in ReferralCalls, ReferralLost(r)
      PROVE  ReferralFits'
  <2>1. /\ refCall' = [refCall EXCEPT ![r] = ReferralIdle] /\ UNCHANGED <<ownCode, referral>>
    BY <1>4 DEF ReferralLost, RefDone
  <2>2. CodesApart'
    BY <1>1, <2>1, MovesFit
  <2> QED
    BY <1>1, <2>1, <2>2 DEF CompletedFit
<1>5. ASSUME NEW u \in Users, NEW duration, CompleteReferralIfEligible(u, duration)
      PROVE  ReferralFits'
  <2>1. UNCHANGED <<ownCode, refCall>>
    BY <1>5 DEF CompleteReferralIfEligible
  <2>2. ASSUME NEW x \in referral
        PROVE  [x EXCEPT !.completed = now].completed \in Stamps
    <3> PICK y \in ReferralRows : y = x
      BY <1>1 DEF ReferralTyped
    <3>1. [y EXCEPT !.completed = now].completed = now
      BY DEF ReferralRows
    <3> QED
      BY <3>1 DEF Stamps
  <2>3. CompletedFit'
    BY <1>5, <2>2 DEF CompleteReferralIfEligible, CompletedFit
  <2>4. CodesApart'
    BY <2>1 DEF CodesApart, Written
  <2> QED
    BY <1>1, <2>3, <2>4
<1>6. CASE UNCHANGED referrals
  BY <1>1, <1>6 DEF referrals, CodesApart, CompletedFit, Written
<1> QED
  BY <1>1, <1>3, <1>4, <1>5, <1>6, CodeDrawnFits, LookupsFit, EndingsFit DEF ReferralNext

--------------------------------------------------------------------------------
(***************************************************************************)
(* The types of notifications: whose rows the inbox holds, what is turned     *)
(* off, and that a report's days are of its week.                             *)
(***************************************************************************)

PrefFits(c) == c = NoPref \/ (c.user \in Users /\ c.off \subseteq Toggleable)

PreferencesFit ==
    /\ muted \subseteq Users \X Toggleable
    /\ prefCall = [r \in PrefCalls |-> prefCall[r]] /\ \A r \in PrefCalls : PrefFits(prefCall[r])

NoticesFit == NoticeInv /\ WeeksReported /\ PreferencesFit

LEMMA NoticesFitAtStart ==
    ASSUME NoticeInit
    PROVE  NoticesFit
<1>1. PreferencesFit
  BY DEF NoticeInit, NotificationsInit, PreferencesFit, PrefFits
<1> QED
  BY <1>1, NoticesStart, WeeksStart DEF NoticesFit

LEMMA NoticeTypesFit ==
    ASSUME NoticesFit
    PROVE  NotificationsTypeOK
<1>1. ASSUME NEW n \in Notes
      PROVE  inbox[n].user \in Users \cup {NoUser}
  BY DEF NoticesFit, NoticeInv, NoticesTyped, NoteShaped, NoNote
<1>2. ASSUME NEW w \in report
      PROVE  w[3] \subseteq w[2] .. w[2] + WeekDays - 1
  <2>1. w[3] \subseteq DaysRead(w[1], w[2])
    BY DEF NoticesFit, WeeksReported, ReportsRight, RightDays
  <2> QED
    BY <2>1 DEF DaysRead, WeekOf
<1> QED
  BY <1>1, <1>2 DEF NoticesFit, PreferencesFit, NotificationsTypeOK

LEMMA PreferencesKeepFits ==
    ASSUME PreferencesFit, InboxNext \/ \E r \in PrefCalls : PreferencesSaved(r)
    PROVE  PreferencesFit'
<1> USE DEF PreferencesFit
<1>0. CASE UNCHANGED <<muted, prefCall>>
  BY <1>0
<1>1. ASSUME NEW u \in Users, NEW n \in Notes, MarkRead(u, n)
      PROVE  PreferencesFit'
  BY <1>0, <1>1 DEF MarkRead
<1>2. ASSUME NEW u \in Users, NEW r \in PrefCalls, NEW kind \in Toggleable, NEW on \in BOOLEAN,
             UpdatePreferences(r, u, kind, on)
      PROVE  PreferencesFit'
  <2> DEFINE stored == {k \in Toggleable : <<u, k>> \in muted}
             kept == IF on THEN stored \ {kind} ELSE stored \cup {kind}
  <2>1. PICK off : off = kept
    OBVIOUS
  <2>2. off \subseteq Toggleable
    BY <2>1
  <2>3. prefCall' = [prefCall EXCEPT ![r] = [user |-> u, off |-> off]] /\ UNCHANGED muted
    BY <1>2, <2>1 DEF UpdatePreferences
  <2> HIDE DEF kept, stored
  <2>4. PICK c : c = [user |-> u, off |-> off]
    OBVIOUS
  <2>5. prefCall' = [prefCall EXCEPT ![r] = c] /\ PrefFits(c)
    BY <2>2, <2>3, <2>4 DEF PrefFits
  <2>6. prefCall' = [q \in PrefCalls |-> prefCall'[q]] /\ \A q \in PrefCalls : PrefFits(prefCall'[q])
    BY <2>5
  <2> QED
    BY <2>3, <2>6
<1>3. ASSUME NEW r \in PrefCalls, PreferencesSaved(r)
      PROVE  PreferencesFit'
  <2>1. PICK u, off : u = prefCall[r].user /\ off = prefCall[r].off
    OBVIOUS
  <2>2. u \in Users /\ off \subseteq Toggleable
    BY <1>3, <2>1 DEF PreferencesSaved, PrefFits
  <2>3. muted' \subseteq muted \cup ({u} \X off) /\ prefCall' = [prefCall EXCEPT ![r] = NoPref]
    BY <1>3, <2>1 DEF PreferencesSaved
  <2>4. muted' \subseteq Users \X Toggleable
    BY <2>2, <2>3
  <2>5. prefCall' = [q \in PrefCalls |-> prefCall'[q]] /\ \A q \in PrefCalls : PrefFits(prefCall'[q])
    BY <2>3 DEF PrefFits
  <2> QED
    BY <2>4, <2>5
<1>4. CASE InboxNext
  <2>1. PICK u \in Users : \/ MarkReadAll(u) \/ \E n \in Notes : MarkRead(u, n)
                           \/ \E r \in PrefCalls, kind \in Toggleable, on \in BOOLEAN : UpdatePreferences(r, u, kind, on)
    BY <1>4 DEF InboxNext
  <2>2. CASE MarkReadAll(u)
    BY <1>0, <2>2 DEF MarkReadAll
  <2> QED
    BY <1>1, <1>2, <2>1, <2>2
<1> QED
  BY <1>3, <1>4

LEMMA NoticesKeepFits ==
    ASSUME NoticesFit, [NoticeNext]_NoticeVars
    PROVE  NoticesFit'
<1>1. NoticeInv' /\ WeeksReported'
  BY NoticesStep, WeeksStep DEF NoticesFit
<1>2. CASE UNCHANGED <<muted, prefCall>>
  BY <1>1, <1>2 DEF NoticesFit, PreferencesFit
<1>3. CASE HandlerNext
  BY <1>2, <1>3 DEF HandlerNext, OnReactionAdded, OnCommentAdded, OnUserEvent, FanOutClubPush, Begin
<1>4. CASE SweepNext
  BY <1>2, <1>4 DEF SweepNext, RunWeeklyReportBatch, SendExpiryReminders, Begin
<1>5. ASSUME NEW j \in Jobs, SendReengagementCoupons(j)
      PROVE  NoticesFit'
  BY <1>2, <1>5 DEF SendReengagementCoupons
<1>6. ASSUME NEW u \in Users, NEW d \in Int, ReadOn(u, d)
      PROVE  NoticesFit'
  BY <1>2, <1>6 DEF ReadOn
<1>7. CASE JobNext
  <2>1. ASSUME NEW j \in Jobs, NEW u \in Users, NEW n \in Notes, NoticeSaved(j, u, n)
        PROVE  UNCHANGED <<muted, prefCall>>
    BY <2>1 DEF NoticeSaved
  <2>2. ASSUME NEW j \in Jobs, NEW u \in Users, StatsOfWeek(j, u) \/ NoticeSkipped(j, u) \/ NoticeFailed(j, u)
        PROVE  UNCHANGED <<muted, prefCall>>
    BY <2>2 DEF StatsOfWeek, NoticeSkipped, NoticeFailed
  <2>3. ASSUME NEW j \in Jobs, NoticePushed(j) \/ PushFailed(j) \/ JobDone(j) \/ JobDies(j)
        PROVE  UNCHANGED <<muted, prefCall>>
    BY <2>3 DEF NoticePushed, PushFailed, JobDone, JobDies
  <2> QED
    BY <1>2, <1>7, <2>1, <2>2, <2>3 DEF JobNext
<1>8. CASE InboxNext \/ \E r \in PrefCalls : PreferencesSaved(r)
  BY <1>1, <1>8, PreferencesKeepFits DEF NoticesFit
<1>9. CASE UNCHANGED notifications
  BY <1>2, <1>9 DEF notifications
<1> QED
  BY <1>3, <1>4, <1>5, <1>6, <1>7, <1>8, <1>9 DEF NoticeNext, NoticeVars

--------------------------------------------------------------------------------
(***************************************************************************)
(* The types of the assistant: guides of books on the shelf, and rows that    *)
(* are not stamped with a time to come.                                       *)
(***************************************************************************)

\* A request of the assistant that began by now, and if it is for a guide is of a
\* book on the shelf.
WriterFits(c, at) ==
    c.op # "idle" => c.at <= at /\ (c.feature = "reflection" => <<c.user, c.of>> \in Shelved)

Stamped(log, at) == \A n \in DOMAIN log : log[n] <= at

DeskFits ==
    /\ guides \subseteq Shelved /\ style \in [Users -> Styles]
    /\ \A r \in AiCalls : WriterFits(aiCall[r], now)
    /\ \A x \in Users \X Features : Stamped(used[x], now)

AssistantFits == AiInv /\ DeskFits

LEMMA AssistantFitsAtStart ==
    ASSUME ClockInit, AssistantInit
    PROVE  AssistantFits
<1>1. guides \subseteq Shelved /\ style \in [Users -> Styles]
  BY AiAssumption DEF AssistantInit
<1>2. \A r \in AiCalls : WriterFits(aiCall[r], now)
  BY DEF AssistantInit, AiIdle, WriterFits
<1>3. ASSUME NEW x \in Users \X Features
      PROVE  Stamped(used[x], now)
  <2>1. used[x] = <<>> /\ DOMAIN <<>> = {}
    BY DEF AssistantInit
  <2> QED
    BY <2>1 DEF Stamped
<1> QED
  BY <1>1, <1>2, <1>3, AssistantStart DEF AssistantFits, DeskFits

\* No log is longer than one it is part of.
LEMMA EmbedsShorter ==
    ASSUME NEW s \in Seq(Nat), NEW t \in Seq(Nat), Embeds(s, t)
    PROVE  Len(s) <= Len(t)
<1>1. PICK S, T : S = DOMAIN s /\ T = DOMAIN t
  OBVIOUS
<1>2. S = 1 .. Len(s) /\ T = 1 .. Len(t) /\ Len(s) \in Nat /\ Len(t) \in Nat
  BY <1>1
<1>3. PICK e \in [S -> T] : \A j, k \in S : e[j] = e[k] => j = k
  BY <1>1 DEF Embeds
<1>4. e \in Injection(S, T)
  BY <1>3 DEF Injection, IsInjective
<1>5. \A n \in Nat : IsFiniteSet(1 .. n) /\ Cardinality(1 .. n) = n
  BY FS_Interval
<1>6. IsFiniteSet(T) /\ Cardinality(S) = Len(s) /\ Cardinality(T) = Len(t)
  BY <1>2, <1>5
<1>7. Cardinality(S) <= Cardinality(T)
  BY <1>4, <1>6, FS_Injection
<1> QED
  BY <1>6, <1>7

LEMMA AssistantTypesFit ==
    ASSUME AssistantFits
    PROVE  AssistantTypeOK
<1>1. ASSUME NEW x \in Users \X Features
      PROVE  Stamped(used[x], now) /\ Len(unpaid[x]) <= Len(used[x])
  <2>1. used[x] \in Seq(Nat) /\ unpaid[x] \in Seq(Nat) /\ Embeds(unpaid[x], used[x])
    BY DEF AssistantFits, AiInv, AiTyped
  <2> QED
    BY <2>1, EmbedsShorter DEF AssistantFits, DeskFits
<1> QED
  BY <1>1 DEF AssistantFits, DeskFits, Stamped, AssistantTypeOK

LEMMA WritersFit ==
    ASSUME AssistantFits, NEW r \in AiCalls, NEW c, WriterFits(c, now), aiCall' = [aiCall EXCEPT ![r] = c]
    PROVE  \A q \in AiCalls : WriterFits(aiCall'[q], now)
BY DEF AssistantFits, DeskFits, AiInv, AiTyped

\* A request that begins.
LEMMA AskFits ==
    ASSUME AssistantFits, NEW r \in AiCalls, NEW op, NEW f, NEW u, NEW what, Ask(r, op, f, u, what),
           f = "reflection" => <<u, what>> \in Shelved
    PROVE  DeskFits'
<1>1. PICK c : c = [op |-> op, feature |-> f, user |-> u, of |-> what, at |-> now, free |-> ~pro[u].is]
  OBVIOUS
<1>2. aiCall' = [aiCall EXCEPT ![r] = c] /\ UNCHANGED <<now, guides, style, used>>
  BY <1>1 DEF Ask
<1>3. WriterFits(c, now)
  BY <1>1 DEF WriterFits, AssistantFits, AiInv, AiTyped
<1>4. \A q \in AiCalls : WriterFits(aiCall'[q], now)
  BY <1>2, <1>3, WritersFit
<1> QED
  BY <1>2, <1>4 DEF AssistantFits, DeskFits

\* A request that goes on keeps what it began with.
LEMMA GoesOnFits ==
    ASSUME AssistantFits, NEW r \in AiCalls, aiCall[r].op # "idle", NEW c,
           c.feature = aiCall[r].feature, c.user = aiCall[r].user, c.of = aiCall[r].of, c.at = aiCall[r].at,
           aiCall' = [aiCall EXCEPT ![r] = c], UNCHANGED <<now, guides, style, used>>
    PROVE  DeskFits'
<1>1. WriterFits(c, now)
  BY DEF AssistantFits, DeskFits, WriterFits
<1>2. \A q \in AiCalls : WriterFits(aiCall'[q], now)
  BY <1>1, WritersFit
<1> QED
  BY <1>2 DEF AssistantFits, DeskFits

LEMMA LetInFits ==
    ASSUME AssistantFits, NEW r \in AiCalls, NEW f, NEW free, LetIn(r, f, free)
    PROVE  DeskFits'
<1>1. PICK c : c = [aiCall[r] EXCEPT !.op = "allowed", !.free = free]
  OBVIOUS
<1>2. PICK x : x = aiCall[r] /\ x.op = "begun"
               /\ x = [op |-> x.op, feature |-> x.feature, user |-> x.user, of |-> x.of, at |-> x.at,
                       free |-> x.free]
  BY DEF LetIn, AssistantFits, AiInv, AiTyped, AiCallTyped
<1>3. x.op # "idle" /\ c.feature = x.feature /\ c.user = x.user /\ c.of = x.of /\ c.at = x.at
  BY <1>1, <1>2
<1>4. aiCall' = [aiCall EXCEPT ![r] = c] /\ UNCHANGED <<now, guides, style, used>>
  BY <1>1, <1>2 DEF LetIn, AssistantFits, AiInv, AiTyped
<1> QED
  BY <1>2, <1>3, <1>4, GoesOnFits

\* A request that is recorded, and with it the row it began for.
LEMMA RecordedFits ==
    ASSUME AssistantFits, NEW r \in AiCalls, Recorded(r), aiCall[r].op # "idle",
           guides' \subseteq Shelved, style' = style
    PROVE  DeskFits'
<1>1. PICK u, t, x : u = aiCall[r].user /\ t = aiCall[r].at /\ x = <<u, aiCall[r].feature>>
  OBVIOUS
<1>2. u \in Users /\ t \in Nat /\ x \in Users \X Features /\ t <= now
  BY <1>1 DEF AssistantFits, AiInv, AiTyped, AiCallTyped, DeskFits, WriterFits
<1>3. /\ used' = [used EXCEPT ![x] = Append(@, t)]
      /\ aiCall' = [aiCall EXCEPT ![r] = AiIdle] /\ now' = now
  BY <1>1 DEF Recorded
<1>4. \A q \in AiCalls : WriterFits(aiCall'[q], now)
  BY <1>3, WritersFit DEF AiIdle, WriterFits
<1>5. ASSUME NEW y \in Users \X Features
      PROVE  Stamped(used'[y], now)
  <2>1. PICK s \in Seq(Nat) : s = used[y] /\ Stamped(s, now)
    BY DEF AssistantFits, AiInv, AiTyped, DeskFits
  <2>2. used'[y] = s \/ used'[y] = Append(s, t)
    BY <1>3, <2>1 DEF AssistantFits, AiInv, AiTyped
  <2>3. Stamped(Append(s, t), now)
    <3>1. ASSUME NEW n \in DOMAIN Append(s, t)
          PROVE  Append(s, t)[n] <= now
      <4>1. DOMAIN Append(s, t) = 1 .. Len(s) + 1 /\ DOMAIN s = 1 .. Len(s) /\ Len(s) \in Nat
        BY <1>2
      <4>2. CASE n = Len(s) + 1
        BY <1>2, <4>2
      <4>3. CASE n \in 1 .. Len(s)
        <5>1. Append(s, t)[n] = s[n]
          BY <4>3, <1>2
        <5> QED
          BY <5>1, <4>1, <4>3, <2>1 DEF Stamped
      <4> QED
        BY <4>1, <4>2, <4>3
    <3> QED
      BY <3>1 DEF Stamped
  <2> QED
    BY <2>1, <2>2, <2>3
<1> QED
  BY <1>3, <1>4, <1>5 DEF AssistantFits, DeskFits

LEMMA DeskKeepsFits ==
    ASSUME AssistantFits, AssistantNext
    PROVE  DeskFits'
<1>1. ASSUME NEW r \in AiCalls, NEW u \in Users, NEW b \in Volumes,
             \/ GetPrepCard(r, u, b) \/ GetAudioIntro(r, u, b)
             \/ CreateReflection(r, u, b) \/ GenerateAgendaTopicDrafts(r, u, b)
      PROVE  DeskFits'
  <2>1. \E op, f, what : Ask(r, op, f, u, what) /\ (f = "reflection" => <<u, what>> \in Shelved)
    BY <1>1 DEF GetPrepCard, GetAudioIntro, CreateReflection, GenerateAgendaTopicDrafts
  <2> QED
    BY <2>1, AskFits
<1>2. ASSUME NEW r \in AiCalls, NEW u \in Users, GetClubTopics(r, u)
      PROVE  DeskFits'
  <2>1. PICK f : f = "club_topics" /\ f # "reflection"
    OBVIOUS
  <2>2. \E op : Ask(r, op, f, u, u)
    BY <1>2, <2>1 DEF GetClubTopics
  <2> QED
    BY <2>1, <2>2, AskFits
<1>3. ASSUME NEW u \in Users, NEW s \in Styles, SetCardStyle(u, s)
      PROVE  DeskFits'
  <2>1. style' = [style EXCEPT ![u] = s] /\ UNCHANGED <<now, guides, used, aiCall>>
    BY <1>3 DEF SetCardStyle
  <2> QED
    BY <2>1 DEF AssistantFits, DeskFits
<1>4. ASSUME NEW r \in AiCalls, PrepGenerated(r)
      PROVE  DeskFits'
  <2>1. PICK c : c = [aiCall[r] EXCEPT !.op = "kept"] /\ aiCall' = [aiCall EXCEPT ![r] = c]
    BY <1>4 DEF PrepGenerated, AssistantFits, AiInv, AiTyped
  <2>2. PICK x : x = aiCall[r] /\ x.op = "allowed"
                 /\ x = [op |-> x.op, feature |-> x.feature, user |-> x.user, of |-> x.of, at |-> x.at,
                         free |-> x.free]
    BY <1>4 DEF PrepGenerated, AssistantFits, AiInv, AiTyped, AiCallTyped
  <2>3. x.op # "idle" /\ c.feature = x.feature /\ c.user = x.user /\ c.of = x.of /\ c.at = x.at
    BY <2>1, <2>2
  <2> QED
    BY <1>4, <2>1, <2>2, <2>3, GoesOnFits DEF PrepGenerated
<1>4a. ASSUME NEW r \in AiCalls, PrepAllowed(r) \/ AudioAllowed(r) \/ ReflectionAllowed(r)
       PROVE  DeskFits'
  <2>1. \E f, free : LetIn(r, f, free)
    BY <1>4a DEF PrepAllowed, AudioAllowed, ReflectionAllowed
  <2> QED
    BY <2>1, LetInFits
<1>5. ASSUME NEW r \in AiCalls, PrepRecorded(r) \/ ReflectionStored(r) \/ UseRecorded(r)
      PROVE  DeskFits'
  <2>1. Recorded(r)
    BY <1>5 DEF PrepRecorded, ReflectionStored, UseRecorded
  <2>2. aiCall[r].op # "idle" /\ style' = style
    BY <1>5 DEF PrepRecorded, ReflectionStored, UseRecorded
  <2>3. guides' \subseteq Shelved
    <3>1. CASE guides' = guides
      BY <3>1 DEF AssistantFits, DeskFits
    <3>2. CASE ReflectionStored(r)
      BY <3>2 DEF ReflectionStored, AssistantFits, DeskFits, WriterFits
    <3> QED
      BY <1>5, <3>1, <3>2 DEF PrepRecorded, UseRecorded
  <2> QED
    BY <2>1, <2>2, <2>3, RecordedFits
<1>6. ASSUME NEW r \in AiCalls, AiLost(r)
      PROVE  DeskFits'
  <2>1. aiCall' = [aiCall EXCEPT ![r] = AiIdle] /\ UNCHANGED <<now, guides, style, used>>
    BY <1>6 DEF AiLost
  <2>2. \A q \in AiCalls : WriterFits(aiCall'[q], now)
    BY <2>1, WritersFit DEF AiIdle, WriterFits
  <2> QED
    BY <2>1, <2>2 DEF AssistantFits, DeskFits
<1> QED
  BY <1>1, <1>2, <1>3, <1>4, <1>4a, <1>5, <1>6 DEF AssistantNext

LEMMA AssistantKeepsFits ==
    ASSUME AssistantFits, AssistantNext \/ (UNCHANGED assistant /\ (now' = now \/ Tick))
    PROVE  AssistantFits'
<1>1. now \in Nat /\ (now' = now \/ Tick => now' \in Nat /\ now' >= now)
  BY DEF AssistantFits, AiInv, AiTyped, Tick
<1>2. AiInv'
  BY <1>1, AssistantStep DEF AssistantFits
<1>3. CASE UNCHANGED assistant /\ (now' = now \/ Tick)
  <2>1. UNCHANGED <<guides, style, used, aiCall>> /\ now' \in Nat /\ now' >= now
    BY <1>1, <1>3 DEF assistant
  <2>2. ASSUME NEW x \in Users \X Features
        PROVE  Stamped(used[x], now')
    <3>1. PICK s \in Seq(Nat) : s = used[x] /\ Stamped(s, now)
      BY DEF AssistantFits, AiInv, AiTyped, DeskFits
    <3>2. \A n \in DOMAIN s : s[n] \in Nat
      OBVIOUS
    <3> QED
      BY <1>1, <2>1, <3>1, <3>2 DEF Stamped
  <2>3. ASSUME NEW r \in AiCalls
        PROVE  WriterFits(aiCall[r], now')
    <3>1. WriterFits(aiCall[r], now) /\ (aiCall[r].op # "idle" => aiCall[r].at \in Nat)
      BY DEF AssistantFits, AiInv, AiTyped, AiCallTyped, DeskFits
    <3> QED
      BY <1>1, <2>1, <3>1 DEF WriterFits
  <2> QED
    BY <1>2, <2>1, <2>2, <2>3 DEF AssistantFits, DeskFits
<1> QED
  BY <1>2, <1>3, DeskKeepsFits DEF AssistantFits

--------------------------------------------------------------------------------
(***************************************************************************)
(* The types of recommendations: interests are kinds of books, and an answer  *)
(* is of books of the catalogue and was not worked out in the future.         *)
(***************************************************************************)

RecKeptFits(c, at) ==
    /\ c.op = "replace" => c.kinds \subseteq Kinds
    /\ c.op = "recommend" => c.at <= at

ReadersFit ==
    /\ interests = [u \in Users |-> interests[u]] /\ \A u \in Users : interests[u] \subseteq Kinds
    /\ \A r \in DiscCalls : RecKeptFits(discCall[r], now)
    /\ \A u \in Users : rec[u] # NoRec => rec[u].at <= now

DiscoveryFits == DiscoveryInv /\ ReadersFit

\* The shelves a run may begin with.
ShelvesAtStart == [Users \X Catalog -> {Off} \cup [status : Rated, at : {0}]]

LEMMA DiscoveryFitsAtStart ==
    ASSUME ClockInit, NEW initial \in ShelvesAtStart, DiscoveryStart(initial)
    PROVE  DiscoveryFits
<1>1. DiscoveryInv
  BY DiscoveryInvStart DEF ShelvesAtStart
<1>2. ReadersFit
  BY DEF DiscoveryStart, ReadersFit, RecKeptFits, DiscIdle
<1> QED
  BY <1>1, <1>2 DEF DiscoveryFits

LEMMA DiscoveryTypesFit ==
    ASSUME DiscoveryFits
    PROVE  DiscoveryTypeOK
BY DEF DiscoveryFits, ReadersFit, DiscoveryInv, AnswersTrue, WereNew, DiscoveryTypeOK

LEMMA AnswersFit ==
    ASSUME DiscoveryFits, NEW r \in DiscCalls, NEW c, RecKeptFits(c, now), discCall' = [discCall EXCEPT ![r] = c]
    PROVE  \A q \in DiscCalls : RecKeptFits(discCall'[q], now)
BY DEF DiscoveryFits, ReadersFit, DiscoveryInv, ShelvesTyped

LEMMA ComputedFits ==
    ASSUME DiscoveryFits, NEW r \in DiscCalls, NEW c, RecKeptFits(c, now), Compute(r, c)
    PROVE  ReadersFit'
<1>1. discCall' = [discCall EXCEPT ![r] = c] /\ UNCHANGED <<now, interests, rec>>
  BY DEF Compute
<1>2. \A q \in DiscCalls : RecKeptFits(discCall'[q], now)
  BY <1>1, AnswersFit
<1> QED
  BY <1>1, <1>2 DEF DiscoveryFits, ReadersFit

LEMMA RequestsFit ==
    ASSUME DiscoveryFits, NEW r \in DiscCalls, NEW u \in Users,
           \/ \E kinds \in SUBSET Kinds : ReplaceAll(r, u, kinds)
           \/ Recompute(r, u)
           \/ \E s \in Strategies, n \in 1 .. Cardinality(Catalog) : GetRecommendations(r, u, s, n)
    PROVE  ReadersFit'
<1>1. ASSUME NEW kinds \in SUBSET Kinds, ReplaceAll(r, u, kinds)
      PROVE  ReadersFit'
  <2>1. PICK c : c = [op |-> "replace", user |-> u, kinds |-> kinds, seen |-> interests[u]]
    OBVIOUS
  <2>2. Compute(r, c) /\ c.op = "replace" /\ c.kinds = kinds
    BY <1>1, <2>1 DEF ReplaceAll
  <2> QED
    BY <2>2, ComputedFits DEF RecKeptFits
<1>2. CASE Recompute(r, u)
  <2>1. PICK c : Compute(r, c) /\ c.op = "recompute"
    BY <1>2 DEF Recompute
  <2> QED
    BY <2>1, ComputedFits DEF RecKeptFits
<1>3. ASSUME NEW s \in Strategies, NEW n \in 1 .. Cardinality(Catalog), GetRecommendations(r, u, s, n)
      PROVE  ReadersFit'
  <2>1. PICK books \in Recommendations(u, s, n) :
            Compute(r, [op |-> "recommend", user |-> u, books |-> books, at |-> now])
    BY <1>3 DEF GetRecommendations
  <2>2. PICK c : c = [op |-> "recommend", user |-> u, books |-> books, at |-> now]
    OBVIOUS
  <2>3. Compute(r, c) /\ c.op = "recommend" /\ c.at = now /\ now \in Nat
    BY <2>1, <2>2 DEF DiscoveryFits, DiscoveryInv, ShelvesTyped
  <2>4. RecKeptFits(c, now)
    BY <2>3 DEF RecKeptFits
  <2> QED
    BY <2>3, <2>4, ComputedFits
<1> QED
  BY <1>1, <1>2, <1>3

LEMMA EndsFit ==
    ASSUME DiscoveryFits, NEW r \in DiscCalls, InterestsSaved(r) \/ Recomputed(r) \/ RecKept(r) \/ DiscLost(r)
    PROVE  ReadersFit'
<1>1. discCall' = [discCall EXCEPT ![r] = DiscIdle] /\ now' = now
  BY DEF InterestsSaved, Recomputed, RecKept, DiscLost, DiscDone
<1>2. \A q \in DiscCalls : RecKeptFits(discCall'[q], now)
  BY <1>1, AnswersFit DEF RecKeptFits, DiscIdle
<1>3. CASE InterestsSaved(r)
  <2>1. PICK u, all : u = discCall[r].user /\ all = (interests[u] \ discCall[r].seen) \cup discCall[r].kinds
    OBVIOUS
  <2>2. interests' = [interests EXCEPT ![u] = all] /\ rec' = rec /\ discCall[r].op = "replace"
    BY <1>3, <2>1 DEF InterestsSaved
  <2>3. u \in Users => all \subseteq Kinds
    BY <2>1, <2>2 DEF DiscoveryFits, ReadersFit, RecKeptFits
  <2>4. interests' = [v \in Users |-> interests'[v]] /\ \A v \in Users : interests'[v] \subseteq Kinds
    BY <2>2, <2>3 DEF DiscoveryFits, ReadersFit
  <2> QED
    BY <1>1, <1>2, <2>2, <2>4 DEF DiscoveryFits, ReadersFit
<1>4. CASE RecKept(r)
  <2>1. PICK u, a : u = discCall[r].user /\ a = [until |-> now + RecLife, books |-> discCall[r].books, at |-> discCall[r].at]
    OBVIOUS
  <2>2. rec' = [rec EXCEPT ![u] = a] /\ interests' = interests /\ a.at <= now
    BY <1>4, <2>1 DEF RecKept, DiscoveryFits, ReadersFit, RecKeptFits
  <2>3. \A v \in Users : rec'[v] = IF v = u THEN a ELSE rec[v]
    BY <2>2 DEF DiscoveryFits, DiscoveryInv, ShelvesTyped
  <2> QED
    BY <1>1, <1>2, <2>2, <2>3 DEF DiscoveryFits, ReadersFit
<1>5. CASE Recomputed(r) \/ DiscLost(r)
  BY <1>1, <1>2, <1>5 DEF Recomputed, DiscLost, DiscoveryFits, ReadersFit
<1> QED
  BY <1>3, <1>4, <1>5

LEMMA DiscoveryKeepsFits ==
    ASSUME DiscoveryFits, DiscoveryNext \/ (UNCHANGED discovery /\ (now' = now \/ Tick))
    PROVE  DiscoveryFits'
<1>1. DiscoveryInv'
  BY DiscoveryStep DEF DiscoveryVars, DiscoveryFits
<1>2. CASE UNCHANGED discovery /\ (now' = now \/ Tick)
  <2>1. UNCHANGED <<interests, discCall, rec>> /\ now \in Nat /\ now' \in Nat /\ now' >= now
    BY <1>2 DEF discovery, Tick, DiscoveryFits, DiscoveryInv, ShelvesTyped
  <2>2. ASSUME NEW r \in DiscCalls
        PROVE  RecKeptFits(discCall[r], now')
    BY <2>1 DEF DiscoveryFits, ReadersFit, RecKeptFits, DiscoveryInv, AnswersTrue
  <2>3. ASSUME NEW u \in Users, rec[u] # NoRec
        PROVE  rec[u].at <= now'
    BY <2>1, <2>3 DEF DiscoveryFits, ReadersFit, DiscoveryInv, AnswersTrue
  <2> QED
    BY <1>1, <2>1, <2>2, <2>3 DEF DiscoveryFits, ReadersFit
<1>3. ASSUME NEW u \in Users, NEW b \in Catalog, DropCopy(u, b) \/ \E s : KeepCopy(u, b, s)
      PROVE  DiscoveryFits'
  <2>1. UNCHANGED <<now, interests, discCall, rec>>
    BY <1>3 DEF DropCopy, KeepCopy
  <2> QED
    BY <1>1, <2>1 DEF DiscoveryFits, ReadersFit
<1>4. ASSUME NEW p \in Processes, Retrain(p) \/ LoadModel(p) \/ ProcessRestarts(p)
      PROVE  DiscoveryFits'
  <2>1. UNCHANGED <<now, interests, discCall, rec>>
    BY <1>4 DEF Retrain, LoadModel, ProcessRestarts
  <2> QED
    BY <1>1, <2>1 DEF DiscoveryFits, ReadersFit
<1>5. CASE DiscoveryNext
  BY <1>1, <1>3, <1>4, <1>5, RequestsFit, EndsFit DEF DiscoveryNext, DiscoveryFits
<1> QED
  BY <1>2, <1>5

--------------------------------------------------------------------------------
(***************************************************************************)
(* The services together.  Each acts on its own tables, and what it reads of *)
(* another it leaves as it is; the clock ticks for all.  So a run of them    *)
(* all is a run of each, which is all its theorems ask for.                  *)
(***************************************************************************)

shared == <<walk, socialVars, feed, library>>

ServicesVars ==
    <<now, shared, accounts, administration, billing, notifications, meetups, referrals, stats,
      assistant, discovery>>

ServicesInit ==
    /\ PagesInit /\ AccountsInit /\ AdministrationInit /\ BillingInit /\ NotificationsInit
    /\ MeetupsInit /\ ReferralInit /\ StatsInit /\ AssistantInit
    /\ \E initial \in ShelvesAtStart : DiscoveryStart(initial)

\* What the feed, the shelf and their readers do; what the console and the
\* sign-ins do; notices, and what is paid; and the others.
ReadersAct ==
    /\ PagesNext
    /\ UNCHANGED <<accounts, administration, billing, notifications, meetups, referrals, stats,
                   assistant, discovery>>

ConsoleActs ==
    /\ AdministrationNext \/ (SignIns /\ UNCHANGED administration)
    /\ UNCHANGED <<shared, billing, notifications, meetups, referrals, stats, assistant, discovery>>

NoticesAct ==
    /\ NoticeNext
    /\ UNCHANGED <<shared, accounts, administration, meetups, referrals, stats, assistant, discovery>>

MeetupsAct ==
    /\ MeetupsNext
    /\ UNCHANGED <<shared, accounts, administration, billing, notifications, referrals, stats,
                   assistant, discovery>>

ReferralsAct ==
    /\ ReferralNext
    /\ UNCHANGED <<shared, accounts, administration, billing, notifications, meetups, stats,
                   assistant, discovery>>

StatsAct ==
    /\ StatsNext
    /\ UNCHANGED <<shared, accounts, administration, billing, notifications, meetups, referrals,
                   assistant, discovery>>

AssistantActs ==
    /\ AssistantNext
    /\ UNCHANGED <<shared, accounts, administration, billing, notifications, meetups, referrals,
                   stats, discovery>>

DiscoveryActs ==
    /\ DiscoveryNext
    /\ UNCHANGED <<shared, accounts, administration, billing, notifications, meetups, referrals,
                   stats, assistant>>

TimePasses ==
    /\ Tick
    /\ UNCHANGED <<shared, accounts, administration, billing, notifications, meetups, referrals,
                   stats, assistant, discovery>>

ServicesNext ==
    \/ /\ \/ ReadersAct \/ ConsoleActs \/ NoticesAct \/ MeetupsAct \/ ReferralsAct
          \/ StatsAct \/ AssistantActs \/ DiscoveryActs
       /\ UNCHANGED now
    \/ TimePasses

ServicesSpec == ServicesInit /\ [][ServicesNext]_ServicesVars

\* What a step of all is to each.
StepOfEach ==
    /\ [PagesNext]_PagesVars /\ [ConsoleNext]_ConsoleVars /\ [NoticeNext]_NoticeVars
    /\ [LimitsNext]_LimitVars /\ [ReferralNext \/ (Tick /\ UNCHANGED referrals)]_<<now, referrals>>
    /\ [StatsNext \/ (Tick /\ UNCHANGED stats)]_StatsVars
    /\ [DiscoveryNext \/ (Tick /\ UNCHANGED discovery)]_DiscoveryVars

LEMMA AStepOfEach ==
    ASSUME [ServicesNext]_ServicesVars
    PROVE  StepOfEach /\ (now' = now \/ Tick)
<1> USE DEF StepOfEach, PagesVars, CommunityVars, ConsoleVars, NoticeVars, LimitVars, StatsVars,
            DiscoveryVars, shared
<1>1. CASE ReadersAct /\ UNCHANGED now
  BY <1>1 DEF ReadersAct
<1>2. CASE ConsoleActs /\ UNCHANGED now
  <2>1. ConsoleNext /\ LimitsNext
    BY <1>2 DEF ConsoleActs, ConsoleNext, LimitsNext
  <2>2. AccountsNext \/ UNCHANGED accounts
    <3>1. CASE SignIns
      BY <3>1 DEF SignIns, AccountsNext
    <3>2. CASE AdministrationNext
      <4>1. (\E c \in Clients : DeleteAccount(c)) \/ UNCHANGED accounts
        BY <3>2 DEF AdministrationNext, AdminLeaves, PromoteUser, PatchUser, PatchLoaded, UserPatched, PatchLost
      <4> QED
        BY <4>1 DEF AccountsNext
    <3> QED
      BY <1>2, <3>1, <3>2 DEF ConsoleActs
  <2>3. [NoticeNext]_NoticeVars
    BY <1>2, <2>2 DEF ConsoleActs, NoticeNext
  <2> QED
    BY <1>2, <2>1, <2>3 DEF ConsoleActs
<1>3. CASE NoticesAct /\ UNCHANGED now
  <2>1. (BillingNext \/ \E j \in Jobs, u \in Users : IssueCoupon(j, u)) \/ UNCHANGED billing
    BY <1>3 DEF NoticesAct, NoticeNext
  <2>2. BillingNext \/ UNCHANGED billing
    BY <2>1, NotificationsAssumption DEF IssueCoupon, BillingNext, CouponNext
  <2>3. [LimitsNext]_LimitVars
    BY <1>3, <2>2 DEF NoticesAct, LimitsNext
  <2> QED
    BY <1>3, <2>3 DEF NoticesAct
<1>4. CASE MeetupsAct /\ UNCHANGED now
  BY <1>4 DEF MeetupsAct, LimitsNext
<1>5. CASE ReferralsAct /\ UNCHANGED now
  BY <1>5 DEF ReferralsAct
<1>6. CASE StatsAct /\ UNCHANGED now
  BY <1>6 DEF StatsAct
<1>7. CASE AssistantActs /\ UNCHANGED now
  BY <1>7 DEF AssistantActs, LimitsNext
<1>8. CASE DiscoveryActs /\ UNCHANGED now
  BY <1>8 DEF DiscoveryActs
<1>9. CASE TimePasses
  <2>1. CommunityNext /\ UNCHANGED walk
    BY <1>9 DEF TimePasses, CommunityNext
  <2> QED
    BY <1>9, <2>1 DEF TimePasses, PagesNext, ConsoleNext, NoticeNext, LimitsNext
<1>10. CASE UNCHANGED ServicesVars
  BY <1>10 DEF ServicesVars
<1> QED
  BY <1>1, <1>2, <1>3, <1>4, <1>5, <1>6, <1>7, <1>8, <1>9, <1>10 DEF ServicesNext

\* What the services keep of their types, each in terms of its own tables.
ServicesFit ==
    /\ now \in Times
    /\ PagesInv /\ SocialFits /\ FeedFits /\ HistoryFits /\ LibraryFits
    /\ ConsoleFits /\ BillingFits /\ MeetupsFit /\ ReferralFits /\ NoticesFit /\ AssistantFits
    /\ DiscoveryFits /\ StatsInv

LEMMA NoticesMayStart ==
    ASSUME ServicesInit
    PROVE  NoticeInit
BY AccountsStart DEF ServicesInit, PagesInit, NoticeInit

LEMMA ServicesFitAtStart ==
    ASSUME ServicesInit
    PROVE  ServicesFit
<1> USE DEF ServicesInit, PagesInit
<1>1. now \in Times
  BY ClockAssumption DEF ClockInit, Times
<1>2. PagesInv /\ SocialFits /\ FeedFits /\ HistoryFits /\ LibraryFits
  <2>1. HistoryFits
    BY DEF FeedInit, HistoryFits
  <2> QED
    BY <2>1, PagesStart, SocialFitsAtStart, FeedFitsAtStart, LibraryFitsAtStart
<1>3. ConsoleFits /\ BillingFits /\ MeetupsFit /\ ReferralFits /\ AssistantFits
  BY ConsoleFitsAtStart, BillingFitsAtStart, MeetupsFitAtStart, ReferralFitsAtStart, AssistantFitsAtStart
<1>4. NoticesFit
  BY NoticesMayStart, NoticesFitAtStart
<1>5. DiscoveryFits /\ StatsInv
  BY DiscoveryFitsAtStart, StatsStart
<1> QED
  BY <1>1, <1>2, <1>3, <1>4, <1>5 DEF ServicesFit

\* The tables that are shared, whoever acts.
LEMMA SharedKeepFits ==
    ASSUME now \in Times, PagesInv, SocialFits, FeedFits, LibraryFits, [PagesNext]_PagesVars
    PROVE  SocialFits' /\ FeedFits' /\ LibraryFits'
<1>1. FeedTyped /\ LibraryTyped
  BY DEF PagesInv, TablesTyped
<1>2. ASSUME UNCHANGED socialVars
      PROVE  SocialFits'
  BY <1>2 DEF socialVars, SocialFits, SocialCallsTyped, Reporting
<1>3. ASSUME UNCHANGED feed
      PROVE  FeedFits'
  BY <1>3, FeedAsideFits
<1>4. ASSUME UNCHANGED library
      PROVE  LibraryFits'
  BY <1>4 DEF library, LibraryFits
<1>5. CASE SocialNext /\ UNCHANGED <<feed, library>>
  BY <1>3, <1>4, <1>5, SocialKeepsFits
<1>6. CASE FeedNext /\ UNCHANGED <<socialVars, library>>
  BY <1>1, <1>2, <1>4, <1>6, FeedKeepsFits
<1>7. CASE (ShelfNext \/ ReviewNext) /\ UNCHANGED socialVars
  BY <1>1, <1>2, <1>7, ShelfKeepsFits, RatingsKeepFits
<1>8. CASE UNCHANGED <<socialVars, feed, library>>
  BY <1>2, <1>3, <1>4, <1>8
<1> QED
  BY <1>5, <1>6, <1>7, <1>8 DEF PagesNext, CommunityNext, PagesVars, CommunityVars

LEMMA ServicesKeepFits ==
    ASSUME ServicesFit, [ServicesNext]_ServicesVars
    PROVE  ServicesFit'
<1> USE DEF ServicesFit
<1>1. StepOfEach /\ (now' = now \/ Tick)
  BY AStepOfEach
<1>2. now' \in Times
  BY <1>1, ClockAssumption DEF Tick, Times
<1>3. PagesInv' /\ SocialFits' /\ FeedFits' /\ HistoryFits' /\ LibraryFits'
  <2>1. [PagesNext]_PagesVars
    BY <1>1 DEF StepOfEach
  <2>2. PagesInv'
    BY <2>1, PagesStep
  <2>3. SocialFits' /\ FeedFits' /\ LibraryFits'
    BY <2>1, SharedKeepFits
  <2>4. HistoryFits'
    BY <2>1, HistoryKept
  <2> QED
    BY <2>2, <2>3, <2>4
<1>4. ConsoleFits'
  BY <1>1, ConsoleKeepsFits DEF StepOfEach
<1>5. NoticesFit'
  BY <1>1, NoticesKeepFits DEF StepOfEach
<1>6. BillingFits' /\ MeetupsFit' /\ AssistantFits'
  <2>1. /\ BillingNext \/ UNCHANGED billing
        /\ MeetupsNext \/ UNCHANGED meetups
        /\ AssistantNext \/ UNCHANGED assistant
    BY <1>1 DEF StepOfEach, LimitsNext, LimitVars
  <2>2. BillingFits'
    BY <2>1, BillingKeepsFits
  <2>3. MeetupsFit'
    BY <2>1, MeetupsKeepFits
  <2>4. AssistantFits'
    BY <1>1, <2>1, AssistantKeepsFits
  <2> QED
    BY <2>2, <2>3, <2>4
<1>7. ReferralFits'
  <2>1. ReferralNext \/ (UNCHANGED referrals /\ (Tick \/ UNCHANGED now))
    BY <1>1 DEF StepOfEach
  <2> QED
    BY <2>1, ReferralKeepsFits
<1>8. DiscoveryFits'
  <2>1. DiscoveryNext \/ (UNCHANGED discovery /\ (now' = now \/ Tick))
    BY <1>1 DEF StepOfEach, DiscoveryVars
  <2> QED
    BY <2>1, DiscoveryKeepsFits
<1>9. StatsInv'
  BY <1>1, StatsStep DEF StepOfEach
<1> QED
  BY <1>2, <1>3, <1>4, <1>5, <1>6, <1>7, <1>8, <1>9

LEMMA ServicesTypesFit ==
    ASSUME ServicesFit
    PROVE  TypeOK
<1>1. FeedTyped /\ LibraryTyped
  BY DEF ServicesFit, PagesInv, TablesTyped
<1>2. SocialTypeOK /\ FeedTypeOK /\ LibraryTypeOK
  BY <1>1, SocialTypesFit, FeedTypesFit, LibraryTypesFit DEF ServicesFit
<1>3. AccountsTypeOK /\ AdministrationTypeOK /\ BillingTypeOK /\ NotificationsTypeOK
  BY ConsoleTypesFit, BillingTypesFit, NoticeTypesFit DEF ServicesFit
<1>4. MeetupsTypeOK /\ ReferralTypeOK /\ AssistantTypeOK
  BY MeetupTypesFit, ReferralTypesFit, AssistantTypesFit DEF ServicesFit
<1>5. StatsTypeOK /\ DiscoveryTypeOK
  BY StatsTyped, DiscoveryTypesFit DEF ServicesFit
<1> QED
  BY <1>2, <1>3, <1>4, <1>5 DEF TypeOK

\* The rows, tokens, kept answers and requests in flight of all services keep
\* their types, whichever act in between and however many there are (the
\* repositories of the domains social, feed, book, review, auth, subscription,
\* notification, meetup, referral, admin, reading, ai and recommendation).
THEOREM ServicesKeepTheirTypes == ServicesSpec => []TypeOK
<1>1. ServicesInit => ServicesFit
  BY ServicesFitAtStart
<1>2. ServicesFit /\ [ServicesNext]_ServicesVars => ServicesFit'
  BY ServicesKeepFits
<1>3. ServicesFit => TypeOK
  BY ServicesTypesFit
<1> QED
  BY <1>1, <1>2, <1>3, PTL DEF ServicesSpec

\* A run of all services is a run of each: none disturbs what another's
\* theorems rest on, though accounts, subscriptions and the clock are read by
\* several (core/db.py: one session per request; the routers call one service).
THEOREM AllServicesAreEach ==
    ServicesSpec => /\ PagesSpec /\ ConsoleSpec /\ NoticeSpec /\ LimitsSpec
                    /\ ReferralSpec /\ StatsSpec /\ DiscoverySpec
<1>1. ServicesInit => /\ PagesInit /\ ClockInit /\ AccountsInit /\ AdministrationInit /\ NoticeInit
                      /\ LimitsInit /\ ReferralInit /\ StatsInit
                      /\ \E initial \in [Users \X Catalog -> {Off} \cup [status : Rated, at : {0}]] :
                            DiscoveryStart(initial)
  BY NoticesMayStart DEF ServicesInit, PagesInit, LimitsInit, ShelvesAtStart
<1>2. [ServicesNext]_ServicesVars =>
        /\ [PagesNext]_PagesVars /\ [ConsoleNext]_ConsoleVars /\ [NoticeNext]_NoticeVars
        /\ [LimitsNext]_LimitVars /\ [ReferralNext \/ (Tick /\ UNCHANGED referrals)]_<<now, referrals>>
        /\ [StatsNext \/ (Tick /\ UNCHANGED stats)]_StatsVars
        /\ [DiscoveryNext \/ (Tick /\ UNCHANGED discovery)]_DiscoveryVars
  BY AStepOfEach DEF StepOfEach
<1> QED
  BY <1>1, <1>2, PTL DEF ServicesSpec, PagesSpec, ConsoleSpec, NoticeSpec, LimitsSpec, ReferralSpec,
                         StatsSpec, DiscoverySpec

\* What a reader is shown rests on what there is, whatever the other services
\* do meanwhile: the statistics, on the records of the sessions, and the
\* recommendations, on the shelf (get_reading_recap, get_advanced_stats,
\* get_achieved_milestones, get_recommendations).
THEOREM WhatIsShownIsGrounded == ServicesSpec => []ShownIsGrounded
<1>1. StatisticsAgree /\ RecommendedWasNew => ShownIsGrounded
  BY DEF ShownIsGrounded
<1> QED
  BY <1>1, AllServicesAreEach, StatisticsAlwaysAgree, RecommendationsWereNew, PTL

\* Those who follow and block, and those who share, as their theorems see them.
LEMMA CommunitiesToo ==
    ASSUME [ServicesNext]_ServicesVars
    PROVE  /\ [CommunityNext]_CommunityVars
           /\ [SocialNext \/ (Tick /\ UNCHANGED socialVars)]_<<now, socialVars>>
<1>1. [PagesNext]_PagesVars /\ (now' = now \/ Tick)
  BY AStepOfEach DEF StepOfEach
<1>2. CASE CommunityNext
  BY <1>1, <1>2 DEF CommunityNext
<1>3. CASE UNCHANGED <<socialVars, feed, library>>
  BY <1>1, <1>3 DEF CommunityNext, CommunityVars
<1> QED
  BY <1>1, <1>2, <1>3 DEF PagesNext, PagesVars, CommunityVars

\* Everything the services promise, they promise while all of them act: pages
\* miss nothing, a highlight is shared once, a block severs, a deleted account
\* stays out, a review reported too often is hidden, a referrer is one and
\* another, limits are overrun by requests that overlap at most, and everyone is
\* told, and reminded of a trial, once.
THEOREM PromisesHoldTogether ==
    ServicesSpec => [](/\ PagesMissNothing /\ SharedOnce /\ BlocksSever /\ ReportsHide
                       /\ DeletedStaysOut /\ OneForeignReferrer /\ OnlyOverlapOverruns
                       /\ EveryoneToldOnce /\ TrialRemindedOnce)
<1>1. ServicesInit => CommunityInit /\ \E edges : SocialStart(edges)
  <2> SUFFICES ASSUME ServicesInit
               PROVE  CommunityInit /\ \E edges : SocialStart(edges)
    OBVIOUS
  <2>1. ClockInit /\ FeedInit /\ SocialStart({}) /\ LibraryStart([x \in Users \X Books |-> NoEntry])
    BY DEF ServicesInit, PagesInit, LibraryInit
  <2> QED
    BY <2>1 DEF CommunityInit
<1>2. [ServicesNext]_ServicesVars =>
        /\ [CommunityNext]_CommunityVars
        /\ [SocialNext \/ (Tick /\ UNCHANGED socialVars)]_<<now, socialVars>>
  BY CommunitiesToo
<1>3. ServicesSpec => CommunitySpec /\ SocialSpec
  BY <1>1, <1>2, PTL DEF ServicesSpec, CommunitySpec, SocialSpec
<1>4. ServicesSpec => []PagesMissNothing /\ []SharedOnce /\ []BlocksSever /\ []ReportsHide
  BY <1>3, AllServicesAreEach, ReadersMissNothing, HighlightsSharedOnce, BlocksAlwaysSever,
     ReviewsHideInTime, PTL
<1>5. ServicesSpec => []DeletedStaysOut /\ []OneForeignReferrer /\ []OnlyOverlapOverruns
  BY AllServicesAreEach, DeletedAlwaysOut, ReferrersStayForeign, LimitsHardlyOverrun, PTL
<1>6. ServicesSpec => []EveryoneToldOnce /\ []TrialRemindedOnce
  BY AllServicesAreEach, EachIsToldOnce, TrialsRemindedOnce, PTL
<1> QED
  BY <1>4, <1>5, <1>6, PTL

================================================================================
