----------------------- MODULE ChallengeProgress_proofs -----------------------
(***************************************************************************)
(* Proofs about ChallengeProgress, for any sets of challenges, badges and  *)
(* handlers.  The first lemmas say what each action does to the records of *)
(* the handlers; the invariants are then proved from those facts.          *)
(***************************************************************************)
EXTENDS ChallengeProgress, TLAPS

AtChallenge == {"updating"} \cup Checking \cup Inserting

\* Challenge c is one the event of work w may advance, and was open then.
Suits(w, c) ==
    /\ c \in Challenges
    /\ Kind[c] = w.kind
    /\ Opens[c] <= w.since /\ w.since <= Ends[c]

\* What a handler holds in hand is grounded in what it listed.
HandlersGrounded ==
    \A h \in Handlers :
        /\ pc[h] \in Working => work[h].since >= 1
        /\ pc[h] \in AtChallenge => Suits(work[h], work[h].cur)
        /\ \A c \in work[h].todo \cup work[h].locked : Suits(work[h], c)
        /\ pc[h] \in Inserting => Wanted(h) \in Badges

TypeInv == TypeOK /\ clock >= 1 /\ HandlersGrounded

\* The records and stages of all handlers but h stay as they are.
OthersStay(h) ==
    \A g \in Handlers : g # h => work'[g] = work[g] /\ pc'[g] = pc[g]

LEMMA NoWorkType ==
    /\ NoWork \in Works
    /\ NoWork.todo = {} /\ NoWork.locked = {} /\ NoWork.inserted = {}
BY DEF NoWork, Works, Kinds, Never, NotJoined, Participations

LEMMA NewValueFacts ==
    ASSUME NEW kind, NEW v \in Nat, NEW n \in Nat
    PROVE  /\ NewValue(kind, v, n) \in Nat
           /\ NewValue(kind, v, n) >= v
           /\ \A u \in Nat : u <= v => NewValue(kind, u, n) <= NewValue(kind, v, n)
BY DEF NewValue

--------------------------------------------------------------------------------
(* What the actions do.                                                    *)

LEMMA BeginFacts ==
    ASSUME TypeOK, NEW h \in Handlers, NEW k \in Kinds \ {"genre"},
           NEW n \in Amounts(k), Begin(h, k, n)
    PROVE  /\ OthersStay(h)
           /\ pc' = [pc EXCEPT ![h] = "listed"]
           /\ work' = [work EXCEPT ![h] = work'[h]]
           /\ work'[h] \in Works
           /\ work'[h].kind = k /\ work'[h].amount = n /\ work'[h].since = clock
           /\ work'[h].todo = Listed(k)
           /\ work'[h].read = [c \in Challenges |-> part[c].value]
           /\ work'[h].locked = {} /\ work'[h].inserted = {}
           /\ UNCHANGED <<tables, clock, task, announced>>
<1> DEFINE w == [NoWork EXCEPT !.kind = k, !.amount = n, !.since = clock,
                   !.todo = Listed(k), !.read = [c \in Challenges |-> part[c].value]]
<1>1. n \in Nat
    BY ChallengeAssumption DEF Amounts
<1>2. [c \in Challenges |-> part[c].value] \in [Challenges -> Nat]
    BY DEF TypeOK, Participations
<1>3. /\ w \in Works
      /\ w.kind = k /\ w.amount = n /\ w.since = clock /\ w.todo = Listed(k)
      /\ w.read = [c \in Challenges |-> part[c].value]
      /\ w.locked = {} /\ w.inserted = {}
    BY <1>1, <1>2, NoWorkType DEF NoWork, Works, Listed, TypeOK
<1> HIDE DEF w
<1>4. work' = [work EXCEPT ![h] = w] /\ pc' = [pc EXCEPT ![h] = "listed"]
    BY DEF Begin, w
<1>5. work'[h] = w /\ OthersStay(h)
    BY <1>4 DEF TypeOK, OthersStay
<1>6. QED
    BY <1>3, <1>4, <1>5 DEF Begin

LEMMA NextChallengeFacts ==
    ASSUME TypeOK, NEW h \in Handlers, NEW c \in Challenges, NextChallenge(h, c)
    PROVE  /\ OthersStay(h)
           /\ pc[h] = "listed" /\ pc' = [pc EXCEPT ![h] = "updating"]
           /\ c \in work[h].todo
           /\ work' = [work EXCEPT ![h] = work'[h]]
           /\ work'[h] = [work[h] EXCEPT !.cur = c, !.todo = @ \ {c}]
           /\ work'[h] \in Works
           /\ UNCHANGED <<tables, clock, task, announced>>
BY DEF NextChallenge, TypeOK, Works, OthersStay

LEMMA AdvancedType ==
    ASSUME TypeInv, NEW h \in Handlers, pc[h] \in AtChallenge
    PROVE  /\ Advanced(work[h]) \in Participations
           /\ Advanced(work[h]).value =
                NewValue(work[h].kind, work[h].read[work[h].cur], work[h].amount)
           /\ Advanced(work[h]).achieved \in {Never, work[h].since}
           /\ Advanced(work[h]).achieved # Never =>
                  Advanced(work[h]).value >= Target[work[h].cur]
<1> DEFINE w == work[h]
<1>1. w \in Works /\ w.cur \in Challenges
    BY DEF TypeInv, TypeOK, HandlersGrounded, Suits
<1>2. w.read[w.cur] \in Nat /\ w.amount \in Nat /\ w.since \in Nat
    BY <1>1 DEF Works
<1>3. NewValue(w.kind, w.read[w.cur], w.amount) \in Nat
    BY <1>2, NewValueFacts
<1>4. QED
    BY <1>2, <1>3 DEF Advanced, Participations, Never

LEMMA UpdateFacts ==
    ASSUME TypeInv, NEW h \in Handlers, UpdateProgress(h)
    PROVE  /\ OthersStay(h)
           /\ pc[h] = "updating" /\ work[h].cur \in Challenges
           /\ pc' = [pc EXCEPT ![h] = IF Advanced(work[h]).achieved # Never
                                      THEN "checkStandard" ELSE "listed"]
           /\ work' = [work EXCEPT ![h] = work'[h]]
           /\ \/ work'[h] = work[h]
              \/ work'[h] =
                   [work[h] EXCEPT !.locked = @ \cup {work[h].cur},
                                   !.draft = [@ EXCEPT ![work[h].cur] =
                                                  Advanced(work[h])]]
           /\ work'[h] \in Works
           /\ UNCHANGED <<tables, clock, task, announced>>
<1> DEFINE w == work[h]
           c == w.cur
           w2 == [w EXCEPT !.locked = @ \cup {c},
                           !.draft = [@ EXCEPT ![c] = Advanced(w)]]
<1>1. pc[h] = "updating" /\ c \in Challenges /\ w \in Works
    BY DEF UpdateProgress, TypeInv, TypeOK, HandlersGrounded, AtChallenge, Suits
<1>2. Advanced(w) \in Participations
    BY <1>1, AdvancedType DEF AtChallenge
<1>3. w2 \in Works
    BY <1>1, <1>2 DEF Works
<1>4. work' = work \/ work' = [work EXCEPT ![h] = w2]
    BY <1>1 DEF UpdateProgress, TypeInv, TypeOK, Works
<1>5. pc' = [pc EXCEPT ![h] = IF Advanced(w).achieved # Never
                              THEN "checkStandard" ELSE "listed"]
    BY DEF UpdateProgress, AfterUpdate
<1> HIDE DEF w2
<1>6. work'[h] \in {w, w2} /\ work' = [work EXCEPT ![h] = work'[h]]
    BY <1>4 DEF TypeInv, TypeOK
<1>7. OthersStay(h)
    BY <1>4, <1>5 DEF TypeInv, TypeOK, OthersStay
<1>8. QED
    BY <1>1, <1>3, <1>5, <1>6, <1>7 DEF UpdateProgress, w2

\* Skipping a badge, or deciding to insert it, only moves the handler on.
LEMMA CheckFacts ==
    ASSUME TypeInv, NEW h \in Handlers, SkipBadge(h) \/ ChooseToAward(h)
    PROVE  /\ pc[h] \in Checking
           /\ work' = work
           /\ \A g \in Handlers : g # h => pc'[g] = pc[g]
           /\ UNCHANGED <<tables, clock, task, announced>>
           /\ SkipBadge(h) =>
                  /\ pc' = AfterBadge(h)
                  /\ Wanted(h) # NoBadge => HasBadge(h)
           /\ ChooseToAward(h) =>
                  /\ pc' = [pc EXCEPT ![h] = IF @ = "checkStandard"
                                             THEN "insertStandard"
                                             ELSE "insertExclusive"]
                  /\ Wanted(h) # NoBadge
BY DEF SkipBadge, ChooseToAward, AfterBadge, TypeInv, TypeOK

LEMMA InsertFacts ==
    ASSUME TypeInv, NEW h \in Handlers, InsertBadge(h)
    PROVE  /\ OthersStay(h)
           /\ pc[h] \in Inserting /\ pc' = AfterBadge(h)
           /\ Wanted(h) \in Badges /\ ~Owned(Wanted(h)) /\ BadgeFree(h, Wanted(h))
           /\ work' = [work EXCEPT ![h] = work'[h]]
           /\ work'[h] = [work[h] EXCEPT !.inserted = @ \cup {Wanted(h)}]
           /\ work'[h] \in Works
           /\ UNCHANGED <<tables, clock, task, announced>>
<1>1. pc[h] \in Inserting /\ Wanted(h) \in Badges /\ work[h] \in Works
    BY DEF InsertBadge, TypeInv, TypeOK, HandlersGrounded
<1> DEFINE w2 == [work[h] EXCEPT !.inserted = @ \cup {Wanted(h)}]
<1>2. w2 \in Works
    BY <1>1 DEF Works
<1>3. work' = [work EXCEPT ![h] = w2] /\ pc' = AfterBadge(h)
    BY <1>1 DEF InsertBadge, TypeInv, TypeOK, Works
<1> HIDE DEF w2
<1>4. work'[h] = w2 /\ OthersStay(h)
    BY <1>3 DEF TypeInv, TypeOK, OthersStay, AfterBadge
<1>5. QED
    BY <1>1, <1>2, <1>3, <1>4 DEF InsertBadge, w2

LEMMA UndoFacts ==
    ASSUME TypeOK, NEW h \in Handlers, Undo(h)
    PROVE  /\ OthersStay(h)
           /\ work' = [work EXCEPT ![h] = NoWork] /\ work'[h] = NoWork
           /\ pc' = [pc EXCEPT ![h] = "failed"] /\ pc'[h] = "failed"
           /\ UNCHANGED <<tables, clock, task, announced>>
BY DEF Undo, TypeOK, OthersStay

LEMMA CommitFacts ==
    ASSUME TypeOK, NEW h \in Handlers, Commit(h)
    PROVE  /\ OthersStay(h)
           /\ work' = [work EXCEPT ![h] = NoWork] /\ work'[h] = NoWork
           /\ pc[h] = "listed"
           /\ pc' = [pc EXCEPT ![h] = "committed"] /\ pc'[h] = "committed"
           /\ \A c \in Challenges : part'[c] = IF c \in work[h].locked
                                               THEN work[h].draft[c] ELSE part[c]
           /\ \A b \in Badges : badge'[b] = IF b \in work[h].inserted
                                            THEN work[h].since ELSE badge[b]
           /\ earned'[work[h].kind] =
                  NewValue(work[h].kind, earned[work[h].kind], work[h].amount)
           /\ \A k \in Kinds : k # work[h].kind => earned'[k] = earned[k]
           /\ task'[h] = work[h].inserted
           /\ \A g \in Handlers : g # h => task'[g] = task[g]
           /\ UNCHANGED <<clock, announced>>
BY DEF Commit, TypeOK, OthersStay, Works

\* The steps of one handler, by what they do.
LEMMA HandlerSteps ==
    ASSUME NEW h \in Handlers,
           Proceed(h) \/ Fail(h) \/ DeadlockVictim(h)
    PROVE  \/ \E c \in Challenges : NextChallenge(h, c)
           \/ UpdateProgress(h)
           \/ SkipBadge(h) \/ ChooseToAward(h)
           \/ InsertBadge(h)
           \/ Undo(h)
           \/ Commit(h)
BY DEF Proceed, Fail, DeadlockVictim, InsertConflict
--------------------------------------------------------------------------------
(* Types, and what a handler holds in hand.                                *)

\* Init types everything and no handler holds anything.
LEMMA TypeInit == Init => TypeInv
<1> SUFFICES ASSUME Init PROVE TypeInv
    OBVIOUS
<1>1. NotJoined \in Participations /\ Never \in Nat /\ 0 \in Nat
    BY DEF NotJoined, Participations, Never
<1>2. TypeOK
    BY <1>1, NoWorkType DEF Init, TypeOK
<1>3. HandlersGrounded
    BY NoWorkType DEF Init, HandlersGrounded, Working, AtChallenge, Checking, Inserting
<1>4. QED
    BY <1>2, <1>3 DEF Init, TypeInv

\* A handler whose record and stage stay keeps what the others may not touch.
LEMMA StaysGrounded ==
    ASSUME TypeInv, NEW g \in Handlers, work'[g] = work[g], pc'[g] = pc[g]
    PROVE  /\ pc'[g] \in Working => work'[g].since >= 1
           /\ pc'[g] \in AtChallenge => Suits(work'[g], work'[g].cur)
           /\ \A c \in work'[g].todo \cup work'[g].locked : Suits(work'[g], c)
           /\ pc'[g] \in Inserting => Wanted(g)' \in Badges
<1>1. Wanted(g)' = Wanted(g)
    BY DEF Wanted
<1>2. QED
    BY <1>1 DEF TypeInv, HandlersGrounded

\* HandlersGrounded after a step of h, from what it means for h alone.
LEMMA GroundedByOne ==
    ASSUME TypeInv, NEW h \in Handlers, OthersStay(h),
           pc'[h] \in Working => work'[h].since >= 1,
           pc'[h] \in AtChallenge => Suits(work'[h], work'[h].cur),
           \A c \in work'[h].todo \cup work'[h].locked : Suits(work'[h], c),
           pc'[h] \in Inserting => Wanted(h)' \in Badges
    PROVE  HandlersGrounded'
<1> SUFFICES ASSUME NEW g \in Handlers
             PROVE  /\ pc'[g] \in Working => work'[g].since >= 1
                    /\ pc'[g] \in AtChallenge => Suits(work'[g], work'[g].cur)
                    /\ \A c \in work'[g].todo \cup work'[g].locked :
                           Suits(work'[g], c)
                    /\ pc'[g] \in Inserting => Wanted(g)' \in Badges
    BY DEF HandlersGrounded, Suits
<1>1. CASE g = h
    BY <1>1
<1>2. CASE g # h
    BY <1>2, StaysGrounded DEF OthersStay
<1>3. QED
    BY <1>1, <1>2

\* Every step keeps the types and what the handlers hold.
LEMMA TypeNext ==
    ASSUME TypeInv, [Next]_vars
    PROVE  TypeInv'
<1> USE DEF TypeInv
<1>1. ASSUME NEW c \in Challenges, Join(c) \/ Leave(c) PROVE TypeInv'
    <2>1. NotJoined \in Participations
              /\ [NotJoined EXCEPT !.joined = TRUE] \in Participations
        BY DEF NotJoined, Participations, Never
    <2>2. TypeOK' /\ UNCHANGED <<clock, pc, work>>
        BY <1>1, <2>1 DEF Join, Leave, TypeOK
    <2>3. HandlersGrounded'
        BY <2>2, StaysGrounded DEF HandlersGrounded, Suits
    <2>4. QED
        BY <2>2, <2>3
<1>2. ASSUME NEW h \in Handlers, NEW k \in Kinds \ {"genre"},
             NEW n \in Amounts(k), Begin(h, k, n)
      PROVE  TypeInv'
    <2>1. TypeOK'
        BY <1>2, BeginFacts DEF TypeOK, Working, tables
    <2>2. \A c \in work'[h].todo : Suits(work'[h], c)
        <3>1. work'[h].todo = Listed(k) /\ work'[h].kind = k /\ work'[h].since = clock
            BY <1>2, BeginFacts
        <3>2. QED
            BY <3>1 DEF Listed, Suits
    <2>3. pc'[h] = "listed" /\ work'[h].since >= 1 /\ clock' = clock
        BY <1>2, BeginFacts, ZenonT(40) DEF TypeOK
    <2>4. HandlersGrounded'
        BY <1>2, <2>2, <2>3, BeginFacts, GroundedByOne
        DEF AtChallenge, Checking, Inserting
    <2>5. QED
        BY <2>1, <2>3, <2>4
<1>3. ASSUME NEW h \in Handlers, NEW c \in Challenges, NextChallenge(h, c)
      PROVE  TypeInv'
    <2>1. TypeOK'
        BY <1>3, NextChallengeFacts DEF TypeOK, Working, tables
    <2>2. /\ work'[h].cur = c /\ work'[h].since = work[h].since
          /\ work'[h].kind = work[h].kind /\ work'[h].locked = work[h].locked
          /\ work'[h].todo \subseteq work[h].todo /\ pc'[h] = "updating"
          /\ c \in work[h].todo /\ pc[h] = "listed" /\ clock' = clock
        <3>1. work[h] \in Works
            BY DEF TypeOK
        <3>2. /\ work'[h] = [work[h] EXCEPT !.cur = c, !.todo = @ \ {c}]
              /\ c \in work[h].todo /\ pc[h] = "listed" /\ clock' = clock
              /\ pc' = [pc EXCEPT ![h] = "updating"]
            BY <1>3, NextChallengeFacts
        <3>3. QED
            BY <3>1, <3>2 DEF TypeOK, Works
    <2>3. \A d \in Challenges : Suits(work[h], d) => Suits(work'[h], d)
        BY <2>2 DEF Suits
    <2>4. Suits(work'[h], c) /\ work'[h].since >= 1
              /\ \A d \in work'[h].todo \cup work'[h].locked : Suits(work'[h], d)
        BY <2>2, <2>3 DEF HandlersGrounded, Working, Suits
    <2>5. HandlersGrounded'
        BY <1>3, <2>2, <2>4, NextChallengeFacts, GroundedByOne
        DEF AtChallenge, Checking, Inserting
    <2>6. QED
        BY <2>1, <2>2, <2>5
<1>4. ASSUME NEW h \in Handlers, UpdateProgress(h) PROVE TypeInv'
    <2>1. TypeOK'
        BY <1>4, UpdateFacts DEF TypeOK, Working, Checking, tables
    <2>2. /\ work'[h].cur = work[h].cur /\ work'[h].since = work[h].since
          /\ work'[h].kind = work[h].kind /\ work'[h].todo = work[h].todo
          /\ work'[h].locked \subseteq work[h].locked \cup {work[h].cur}
          /\ pc'[h] \in {"checkStandard", "listed"} /\ pc[h] = "updating"
          /\ clock' = clock
        <3>1. work[h] \in Works
            BY DEF TypeOK
        <3>2. /\ \/ work'[h] = work[h]
                 \/ work'[h] =
                      [work[h] EXCEPT !.locked = @ \cup {work[h].cur},
                                      !.draft = [@ EXCEPT ![work[h].cur] =
                                                     Advanced(work[h])]]
              /\ pc[h] = "updating" /\ clock' = clock
              /\ pc' = [pc EXCEPT ![h] = IF Advanced(work[h]).achieved # Never
                                         THEN "checkStandard" ELSE "listed"]
            BY <1>4, UpdateFacts
        <3>3. QED
            BY <3>1, <3>2 DEF TypeOK, Works
    <2>3. \A d \in Challenges : Suits(work[h], d) => Suits(work'[h], d)
        BY <2>2 DEF Suits
    <2>4. Suits(work'[h], work'[h].cur) /\ work'[h].since >= 1
              /\ \A d \in work'[h].todo \cup work'[h].locked : Suits(work'[h], d)
        BY <2>2, <2>3 DEF HandlersGrounded, Working, AtChallenge, Suits
    <2>5. HandlersGrounded'
        BY <1>4, <2>2, <2>4, UpdateFacts, GroundedByOne DEF Inserting
    <2>6. QED
        BY <2>1, <2>2, <2>5
<1>5. ASSUME NEW h \in Handlers, SkipBadge(h) \/ ChooseToAward(h) PROVE TypeInv'
    <2>1. /\ pc[h] \in Checking /\ work' = work /\ clock' = clock
          /\ OthersStay(h)
        BY <1>5, CheckFacts DEF OthersStay
    <2>2. /\ pc'[h] \in {"checkExclusive", "listed"} \cup Inserting
          /\ pc' = [pc EXCEPT ![h] = pc'[h]]
          /\ pc'[h] \in Inserting => ChooseToAward(h)
          /\ ChooseToAward(h) =>
                 (pc'[h] = "insertStandard" <=> pc[h] = "checkStandard")
        BY <1>5, CheckFacts
        DEF AfterBadge, SkipBadge, ChooseToAward, TypeOK, Checking, Inserting
    <2>3. TypeOK'
        BY <1>5, <2>1, <2>2, CheckFacts DEF TypeOK, Working, Checking, tables
    <2>4. Suits(work[h], work[h].cur) /\ work[h].since >= 1
              /\ \A d \in work[h].todo \cup work[h].locked : Suits(work[h], d)
        BY <2>1 DEF HandlersGrounded, Working, AtChallenge
    <2>5. pc'[h] \in Inserting => Wanted(h)' \in Badges
        <3> SUFFICES ASSUME pc'[h] \in Inserting PROVE Wanted(h)' \in Badges
            OBVIOUS
        <3>1. Wanted(h)' = Wanted(h)
            BY <2>1, <2>2 DEF Wanted, Checking, Inserting
        <3>2. Wanted(h) # NoBadge
            BY <2>2, CheckFacts
        <3>3. QED
            BY <2>4, <3>1, <3>2, ChallengeAssumption DEF Wanted, Suits
    <2>6. HandlersGrounded'
        BY <2>1, <2>4, <2>5, GroundedByOne
    <2>7. QED
        BY <2>1, <2>3, <2>6
<1>6. ASSUME NEW h \in Handlers, InsertBadge(h) PROVE TypeInv'
    <2>1. /\ pc[h] \in Inserting /\ clock' = clock /\ OthersStay(h)
          /\ work'[h].cur = work[h].cur /\ work'[h].since = work[h].since
          /\ work'[h].kind = work[h].kind /\ work'[h].todo = work[h].todo
          /\ work'[h].locked = work[h].locked
        <3>1. work[h] \in Works
            BY DEF TypeOK
        <3>2. /\ work'[h] = [work[h] EXCEPT !.inserted = @ \cup {Wanted(h)}]
              /\ pc[h] \in Inserting /\ clock' = clock /\ OthersStay(h)
            BY <1>6, InsertFacts
        <3>3. QED
            BY <3>1, <3>2 DEF Works
    <2>2. pc'[h] \in {"checkExclusive", "listed"} /\ pc' = [pc EXCEPT ![h] = pc'[h]]
        BY <1>6, InsertFacts, ZenonT(40) DEF AfterBadge, TypeOK
    <2>3. TypeOK'
        BY <1>6, <2>2, InsertFacts DEF TypeOK, Working, Checking, tables
    <2>4. \A d \in Challenges : Suits(work[h], d) => Suits(work'[h], d)
        BY <2>1 DEF Suits
    <2>5. Suits(work'[h], work'[h].cur) /\ work'[h].since >= 1
              /\ \A d \in work'[h].todo \cup work'[h].locked : Suits(work'[h], d)
        BY <2>1, <2>4 DEF HandlersGrounded, Working, AtChallenge, Suits
    <2>6. HandlersGrounded'
        BY <2>1, <2>2, <2>5, GroundedByOne DEF Inserting
    <2>7. QED
        BY <2>1, <2>3, <2>6
<1>7. ASSUME NEW h \in Handlers, Undo(h) PROVE TypeInv'
    <2>1. TypeOK' /\ clock' = clock
        BY <1>7, UndoFacts, NoWorkType DEF TypeOK, tables
    <2>2. HandlersGrounded'
        BY <1>7, UndoFacts, NoWorkType, GroundedByOne
        DEF AtChallenge, Working, Checking, Inserting
    <2>3. QED
        BY <2>1, <2>2
<1>8. ASSUME NEW h \in Handlers, Commit(h) PROVE TypeInv'
    <2> DEFINE w == work[h]
    <2>1. w \in Works
        BY DEF TypeOK
    <2>2. NewValue(w.kind, earned[w.kind], w.amount) \in Nat
        BY <2>1, NewValueFacts DEF TypeOK, Works
    <2>3. part' \in [Challenges -> Participations]
        BY <1>8, <2>1 DEF Commit, TypeOK, Works
    <2>4. badge' \in [Badges -> Nat] /\ task' \in [Handlers -> SUBSET Badges]
        BY <1>8, <2>1 DEF Commit, TypeOK, Works
    <2>5. earned' \in [Kinds -> Nat]
        BY <1>8, <2>2 DEF Commit, TypeOK
    <2>6. pc' \in [Handlers -> Working \cup {"idle", "committed", "failed"}]
              /\ work' \in [Handlers -> Works]
        BY <1>8, CommitFacts, NoWorkType DEF TypeOK
    <2>7. TypeOK' /\ clock' = clock
        BY <1>8, <2>3, <2>4, <2>5, <2>6, CommitFacts DEF TypeOK
    <2>8. HandlersGrounded'
        BY <1>8, CommitFacts, NoWorkType, GroundedByOne
        DEF AtChallenge, Working, Checking, Inserting
    <2>9. QED
        BY <2>7, <2>8
<1>9. ASSUME NEW h \in Handlers, NEW b \in Badges, Announce(h, b) PROVE TypeInv'
    <2>1. TypeOK' /\ UNCHANGED <<clock, pc, work>>
        BY <1>9 DEF Announce, TypeOK, tables
    <2>2. HandlersGrounded'
        BY <2>1, StaysGrounded DEF HandlersGrounded, Suits
    <2>3. QED
        BY <2>1, <2>2
<1>10. CASE Crash
    <2>1. /\ \A h \in Handlers : work'[h] = NoWork /\ pc'[h] \notin Working
          /\ clock' = clock
        BY <1>10 DEF Crash, TypeOK, Working, Checking, Inserting
    <2>2. TypeOK'
        BY <1>10, NoWorkType DEF Crash, TypeOK, tables
    <2>3. HandlersGrounded'
        BY <2>1, NoWorkType DEF HandlersGrounded, AtChallenge, Working
    <2>4. QED
        BY <2>1, <2>2, <2>3
<1>11. CASE Tick
    <2>1. TypeOK' /\ clock' >= 1 /\ UNCHANGED <<pc, work>>
        BY <1>11 DEF Tick, TypeOK, tables
    <2>2. HandlersGrounded'
        BY <2>1, StaysGrounded DEF HandlersGrounded, Suits
    <2>3. QED
        BY <2>1, <2>2
<1>12. CASE UNCHANGED vars
    <2>1. TypeOK' /\ UNCHANGED <<clock, pc, work>>
        BY <1>12 DEF vars, TypeOK
    <2>2. HandlersGrounded'
        BY <2>1, StaysGrounded DEF HandlersGrounded, Suits
    <2>3. QED
        BY <2>1, <2>2
<1>13. QED
    BY <1>1, <1>2, <1>3, <1>4, <1>5, <1>6, <1>7, <1>8, <1>9, <1>10, <1>11, <1>12,
       HandlerSteps DEF Next

\* The rows, the clock and what every handler holds keep their types, and what
\* a handler works on is what it listed.
THEOREM TypeCorrect == Spec => []TypeOK
<1>1. Spec => []TypeInv
    BY TypeInit, TypeNext, PTL DEF Spec
<1>2. QED
    BY <1>1, PTL DEF TypeInv
--------------------------------------------------------------------------------
(* Announcements.                                                          *)

\* A badge in an open transaction is nobody else's, committed or not: the
\* unique constraint of user_badges, as InsertBadge waits for it.
InsertsExclusive ==
    \A h \in Handlers : \A b \in work[h].inserted :
        ~Owned(b) /\ \A g \in Handlers : g # h => b \notin work[g].inserted

AnnounceInv == AnnouncedOnce /\ InsertsExclusive

\* A step that keeps the badges and their announcements, and inserts nothing.
LEMMA AnnounceKept ==
    ASSUME AnnounceInv, UNCHANGED <<badge, task, announced>>,
           \A h \in Handlers : work'[h].inserted \subseteq work[h].inserted
    PROVE  AnnounceInv'
BY DEF AnnounceInv, AnnouncedOnce, InsertsExclusive, Owned

\* Every step keeps the announcement invariant.
LEMMA AnnounceNext ==
    ASSUME TypeInv, AnnounceInv, [Next]_vars
    PROVE  AnnounceInv'
<1>1. ASSUME NEW c \in Challenges, Join(c) \/ Leave(c) PROVE AnnounceInv'
    BY <1>1, AnnounceKept DEF Join, Leave
<1>2. ASSUME NEW h \in Handlers, NEW k \in Kinds \ {"genre"},
             NEW n \in Amounts(k), Begin(h, k, n)
      PROVE  AnnounceInv'
    <2>1. work'[h].inserted = {} /\ OthersStay(h)
              /\ UNCHANGED <<badge, task, announced>>
        BY <1>2, BeginFacts DEF TypeInv, tables
    <2>2. QED
        BY <2>1, AnnounceKept DEF OthersStay
<1>3. ASSUME NEW h \in Handlers, NEW c \in Challenges, NextChallenge(h, c)
      PROVE  AnnounceInv'
    <2>1. work[h] \in Works
        BY DEF TypeInv, TypeOK
    <2>2. work'[h] = [work[h] EXCEPT !.cur = c, !.todo = @ \ {c}]
              /\ OthersStay(h) /\ UNCHANGED <<badge, task, announced>>
        BY <1>3, NextChallengeFacts DEF TypeInv, tables
    <2>3. work'[h].inserted = work[h].inserted
        BY <2>1, <2>2 DEF Works
    <2>4. QED
        BY <2>2, <2>3, AnnounceKept DEF OthersStay
<1>4. ASSUME NEW h \in Handlers, UpdateProgress(h) PROVE AnnounceInv'
    <2>1. work[h] \in Works
        BY DEF TypeInv, TypeOK
    <2>2. /\ \/ work'[h] = work[h]
             \/ work'[h] = [work[h] EXCEPT !.locked = @ \cup {work[h].cur},
                                           !.draft = [@ EXCEPT ![work[h].cur] =
                                                          Advanced(work[h])]]
          /\ OthersStay(h) /\ UNCHANGED <<badge, task, announced>>
        BY <1>4, UpdateFacts DEF tables
    <2>3. work'[h].inserted = work[h].inserted
        BY <2>1, <2>2 DEF Works
    <2>4. QED
        BY <2>2, <2>3, AnnounceKept DEF OthersStay
<1>5. ASSUME NEW h \in Handlers, SkipBadge(h) \/ ChooseToAward(h)
      PROVE  AnnounceInv'
    BY <1>5, CheckFacts, AnnounceKept DEF tables
<1>6. ASSUME NEW h \in Handlers, InsertBadge(h) PROVE AnnounceInv'
    <2> DEFINE b == Wanted(h)
    <2>1. work[h] \in Works
        BY DEF TypeInv, TypeOK
    <2>2. /\ work'[h].inserted = work[h].inserted \cup {b} /\ OthersStay(h)
          /\ UNCHANGED <<badge, task, announced>>
          /\ ~Owned(b) /\ BadgeFree(h, b)
        BY <1>6, <2>1, InsertFacts DEF tables, Works
    <2> HIDE DEF b
    <2>3. AnnouncedOnce'
        BY <2>2 DEF AnnounceInv, AnnouncedOnce, Owned
    <2>4. InsertsExclusive'
        BY <2>2 DEF AnnounceInv, InsertsExclusive, Owned, OthersStay, BadgeFree
    <2>5. QED
        BY <2>3, <2>4 DEF AnnounceInv
<1>7. ASSUME NEW h \in Handlers, Undo(h) PROVE AnnounceInv'
    <2>1. work'[h].inserted = {} /\ OthersStay(h)
              /\ UNCHANGED <<badge, task, announced>>
        BY <1>7, UndoFacts, NoWorkType DEF TypeInv, tables
    <2>2. QED
        BY <2>1, AnnounceKept DEF OthersStay
<1>8. ASSUME NEW h \in Handlers, Commit(h) PROVE AnnounceInv'
    <2> DEFINE new == work[h].inserted
    <2>1. /\ OthersStay(h) /\ work'[h].inserted = {}
          /\ \A b \in Badges : badge'[b] = IF b \in new THEN work[h].since
                                           ELSE badge[b]
          /\ task'[h] = new
          /\ \A g \in Handlers : g # h => task'[g] = task[g]
          /\ announced' = announced
        BY <1>8, CommitFacts, NoWorkType DEF TypeInv
    <2>2. work[h].since # Never
        BY <1>8, CommitFacts
        DEF TypeInv, TypeOK, HandlersGrounded, Working, Works, Never
    <2>3. /\ new \subseteq Badges
          /\ \A g \in Handlers : work[g].inserted \subseteq Badges
        BY DEF TypeInv, TypeOK, Works
    <2>4. \A b \in Badges : Owned(b)' <=> Owned(b) \/ b \in new
        BY <2>1, <2>2 DEF Owned
    <2>5. \A b \in new : /\ ~Owned(b) /\ announced[b] = 0
                         /\ \A g \in Handlers : b \notin task[g]
        BY <2>3 DEF AnnounceInv, AnnouncedOnce, InsertsExclusive, TypeInv, TypeOK
    <2> HIDE DEF new
    <2>6. AnnouncedOnce'
        <3> SUFFICES ASSUME NEW b \in Badges
                     PROVE  /\ announced[b] <= 1
                            /\ announced[b] > 0 => Owned(b)'
                            /\ \A g \in Handlers :
                                   b \in task'[g] => Owned(b)' /\ announced[b] = 0
                            /\ \A f, g \in Handlers :
                                   b \in task'[f] /\ b \in task'[g] => f = g
            BY <2>1 DEF AnnouncedOnce, Owned
        <3>1. /\ announced[b] <= 1
              /\ announced[b] > 0 => Owned(b)
              /\ \A g \in Handlers : b \in task[g] => Owned(b) /\ announced[b] = 0
              /\ \A f, g \in Handlers : b \in task[f] /\ b \in task[g] => f = g
            BY DEF AnnounceInv, AnnouncedOnce
        <3>2. QED
            BY <2>1, <2>4, <2>5, <3>1
    <2>7. InsertsExclusive'
        <3> SUFFICES ASSUME NEW g \in Handlers, NEW b \in work'[g].inserted
                     PROVE  /\ ~Owned(b)'
                            /\ \A f \in Handlers : f # g => b \notin work'[f].inserted
            BY DEF InsertsExclusive, Owned
        <3>1. g # h /\ b \in work[g].inserted
            BY <2>1 DEF OthersStay
        <3>2. ~Owned(b) /\ \A f \in Handlers : f # g => b \notin work[f].inserted
            BY <3>1 DEF AnnounceInv, InsertsExclusive
        <3>3. b \notin new /\ b \in Badges
            BY <2>3, <3>1, <3>2 DEF new
        <3>4. QED
            BY <2>1, <2>4, <3>2, <3>3 DEF OthersStay
    <2>8. QED
        BY <2>6, <2>7 DEF AnnounceInv
<1>9. ASSUME NEW h \in Handlers, NEW b \in Badges, Announce(h, b)
      PROVE  AnnounceInv'
    <2>1. /\ b \in task[h] /\ UNCHANGED <<badge, work>>
          /\ announced' = [announced EXCEPT ![b] = @ + 1]
          /\ task' = [task EXCEPT ![h] = @ \ {b}]
        BY <1>9 DEF Announce, tables
    <2>2. announced[b] = 0 /\ Owned(b)
        BY <2>1 DEF AnnounceInv, AnnouncedOnce
    <2>3. \A g \in Handlers : b \notin task'[g] /\ task'[g] \subseteq task[g]
        BY <2>1 DEF AnnounceInv, AnnouncedOnce, TypeInv, TypeOK
    <2>4. announced'[b] = 1 /\ \A d \in Badges : d # b => announced'[d] = announced[d]
        BY <2>1, <2>2 DEF TypeInv, TypeOK
    <2>5. AnnouncedOnce'
        BY <2>1, <2>2, <2>3, <2>4 DEF AnnounceInv, AnnouncedOnce, Owned
    <2>6. InsertsExclusive'
        BY <2>1 DEF AnnounceInv, InsertsExclusive, Owned
    <2>7. QED
        BY <2>5, <2>6 DEF AnnounceInv
<1>10. CASE Crash
    <2>1. /\ UNCHANGED <<badge, announced>>
          /\ \A h \in Handlers : task'[h] = {} /\ work'[h].inserted = {}
        BY <1>10, NoWorkType DEF Crash, tables
    <2>2. QED
        BY <2>1 DEF AnnounceInv, AnnouncedOnce, InsertsExclusive, Owned
<1>11. CASE Tick \/ UNCHANGED vars
    BY <1>11, AnnounceKept DEF Tick, tables, vars
<1>12. QED
    BY <1>1, <1>2, <1>3, <1>4, <1>5, <1>6, <1>7, <1>8, <1>9, <1>10, <1>11,
       HandlerSteps DEF Next

\* No badge is announced twice or without its committed row, however many
\* handlers compete for it, fail or die with their dispatch tasks.
THEOREM BadgesAnnouncedOnce == Spec => []AnnouncedOnce
<1>1. Init => AnnounceInv
    BY NoWorkType DEF Init, AnnounceInv, AnnouncedOnce, InsertsExclusive, Owned
<1>2. Spec => [](TypeInv /\ AnnounceInv)
    BY <1>1, TypeInit, TypeNext, AnnounceNext, PTL DEF Spec
<1>3. QED
    BY <1>2, PTL DEF AnnounceInv
--------------------------------------------------------------------------------
(* Progress.                                                               *)

\* What the committed events of its type come to if the transaction with work
\* w commits.
Reach(w) == NewValue(w.kind, earned[w.kind], w.amount)

\* The history only grows, and no badge is taken back.
LEMMA HistoryGrows ==
    ASSUME TypeInv, [Next]_vars
    PROVE  /\ \A k \in Kinds : earned'[k] >= earned[k]
           /\ \A b \in Badges : Owned(b) => Owned(b)'
<1>1. CASE UNCHANGED <<badge, earned>>
    BY <1>1 DEF Owned, TypeInv, TypeOK
<1>2. ASSUME NEW h \in Handlers, Commit(h)
      PROVE  /\ \A k \in Kinds : earned'[k] >= earned[k]
             /\ \A b \in Badges : Owned(b) => Owned(b)'
    <2> DEFINE w == work[h]
    <2>1. w \in Works /\ w.kind \in Kinds /\ w.amount \in Nat
        BY DEF TypeInv, TypeOK, Works
    <2>2. earned[w.kind] \in Nat
        BY <2>1 DEF TypeInv, TypeOK
    <2>3. NewValue(w.kind, earned[w.kind], w.amount) >= earned[w.kind]
        BY <2>1, <2>2, NewValueFacts
    <2>4. w.since # Never
        BY <1>2, <2>1, CommitFacts
        DEF TypeInv, TypeOK, HandlersGrounded, Working, Works, Never
    <2> HIDE DEF w
    <2>5. \A b \in Badges : badge'[b] \in {badge[b], w.since}
        BY <1>2, CommitFacts DEF TypeInv, w
    <2>6. \A k \in Kinds : earned'[k] = earned[k]
              \/ (k = w.kind /\ earned'[k] = NewValue(w.kind, earned[w.kind], w.amount))
        BY <1>2, CommitFacts DEF TypeInv, w
    <2>7. \A k \in Kinds : earned'[k] >= earned[k]
        BY <2>3, <2>6 DEF TypeInv, TypeOK
    <2>8. QED
        BY <2>4, <2>5, <2>7 DEF Owned
<1>3. ASSUME NEW h \in Handlers, Proceed(h) \/ Fail(h) \/ DeadlockVictim(h)
      PROVE  Commit(h) \/ UNCHANGED <<badge, earned>>
    BY <1>3, HandlerSteps
    DEF NextChallenge, UpdateProgress, SkipBadge, ChooseToAward, InsertBadge, Undo,
        tables
<1>4. QED
    BY <1>1, <1>2, <1>3
    DEF Next, Join, Leave, Begin, Announce, Crash, Tick, vars, tables

\* What a handler read, and what it wrote, its events and the committed ones
\* have brought.
ValuesOf(h) ==
    /\ \A c \in Challenges : work[h].read[c] <= earned[Kind[c]]
    /\ \A c \in work[h].locked : work[h].draft[c].value <= Reach(work[h])

ValuesInv == ProgressNeverAhead /\ \A h \in Handlers : ValuesOf(h)

\* The history reaches as far after a step as before it.
LEMMA ReachGrows ==
    ASSUME TypeInv, TypeInv', [Next]_vars, NEW w \in Works
    PROVE  /\ Reach(w) \in Nat /\ Reach(w)' \in Nat
           /\ Reach(w) <= Reach(w)'
<1>1. w.kind \in Kinds /\ w.amount \in Nat
    BY DEF Works
<1>2. earned[w.kind] \in Nat /\ earned'[w.kind] \in Nat
          /\ earned[w.kind] <= earned'[w.kind]
    BY <1>1, HistoryGrows DEF TypeInv, TypeOK
<1>3. QED
    BY <1>1, <1>2, NewValueFacts DEF Reach

LEMMA ValuesKept ==
    ASSUME TypeInv, TypeInv', ValuesInv, [Next]_vars,
           NEW g \in Handlers, work'[g] = work[g]
    PROVE  ValuesOf(g)'
<1> DEFINE w == work[g]
<1>1. w \in Works
    BY DEF TypeInv, TypeOK
<1>2. /\ \A c \in Challenges : w.read[c] \in Nat /\ w.read[c] <= earned[Kind[c]]
      /\ w.locked \subseteq Challenges
      /\ \A c \in w.locked : w.draft[c].value \in Nat /\ w.draft[c].value <= Reach(w)
    BY <1>1 DEF ValuesInv, ValuesOf, Works, Participations
<1>3. /\ Reach(w) \in Nat /\ Reach(w)' \in Nat /\ Reach(w) <= Reach(w)'
      /\ w' = w
    BY <1>1, ReachGrows DEF Reach
<1>4. \A c \in Challenges : /\ earned[Kind[c]] \in Nat /\ earned'[Kind[c]] \in Nat
                            /\ earned[Kind[c]] <= earned'[Kind[c]]
    BY HistoryGrows, ChallengeAssumption DEF TypeInv, TypeOK
<1>5. \A c \in Challenges : w.read[c] <= earned'[Kind[c]]
    BY <1>2, <1>4
<1>6. \A c \in w.locked : w.draft[c].value <= Reach(w)'
    BY <1>2, <1>3
<1>7. QED
    BY <1>5, <1>6 DEF ValuesOf, Reach

\* A handler that has read and written nothing is within any history.
LEMMA NothingRead ==
    ASSUME TypeInv', NEW h \in Handlers, work'[h] = NoWork
    PROVE  ValuesOf(h)'
<1>1. /\ \A c \in Challenges : NoWork.read[c] = 0
      /\ NoWork.locked = {}
    BY DEF NoWork
<1>2. \A c \in Challenges : earned'[Kind[c]] \in Nat
    BY ChallengeAssumption DEF TypeInv, TypeOK
<1>3. QED
    BY <1>1, <1>2 DEF ValuesOf

\* ValuesInv after a step of h that writes no row, from what it means for h.
LEMMA ValuesByOne ==
    ASSUME TypeInv, TypeInv', ValuesInv, [Next]_vars, NEW h \in Handlers,
           OthersStay(h), UNCHANGED part, ValuesOf(h)'
    PROVE  ValuesInv'
<1>1. \A g \in Handlers : ValuesOf(g)'
    <2> SUFFICES ASSUME NEW g \in Handlers PROVE ValuesOf(g)'
        OBVIOUS
    <2>1. CASE g = h
        BY <2>1
    <2>2. CASE g # h
        BY <2>2, ValuesKept DEF OthersStay
    <2>3. QED
        BY <2>1, <2>2
<1>2. \A c \in Challenges : /\ part[c].value \in Nat /\ part'[c] = part[c]
                            /\ part[c].value <= earned[Kind[c]]
                            /\ earned[Kind[c]] \in Nat /\ earned'[Kind[c]] \in Nat
                            /\ earned[Kind[c]] <= earned'[Kind[c]]
    BY HistoryGrows, ChallengeAssumption
    DEF ValuesInv, ProgressNeverAhead, TypeInv, TypeOK, Participations
<1>3. ProgressNeverAhead'
    BY <1>2 DEF ProgressNeverAhead
<1>4. QED
    BY <1>1, <1>3 DEF ValuesInv

\* Every step keeps progress within what the events brought.
LEMMA ValuesNext ==
    ASSUME TypeInv, TypeInv', ValuesInv, [Next]_vars
    PROVE  ValuesInv'
<1>1. ASSUME UNCHANGED <<work, earned>>,
             \A c \in Challenges : part'[c].value \in {0, part[c].value}
      PROVE  ValuesInv'
    <2>1. \A g \in Handlers : ValuesOf(g)'
        BY <1>1, ValuesKept
    <2>2. \A c \in Challenges : part[c].value <= earned[Kind[c]]
                                /\ earned[Kind[c]] \in Nat
        BY ChallengeAssumption DEF ValuesInv, ProgressNeverAhead, TypeInv, TypeOK
    <2>3. ProgressNeverAhead'
        BY <1>1, <2>2 DEF ProgressNeverAhead
    <2>4. QED
        BY <2>1, <2>3 DEF ValuesInv
<1>2. ASSUME NEW c \in Challenges, Join(c) \/ Leave(c) PROVE ValuesInv'
    <2>1. \A d \in Challenges : part'[d].value \in {0, part[d].value}
        BY <1>2 DEF Join, Leave, NotJoined, TypeInv, TypeOK
    <2>2. QED
        BY <1>1, <1>2, <2>1 DEF Join, Leave
<1>3. ASSUME NEW h \in Handlers, NEW k \in Kinds \ {"genre"},
             NEW n \in Amounts(k), Begin(h, k, n)
      PROVE  ValuesInv'
    <2>1. /\ work'[h].read = [c \in Challenges |-> part[c].value]
          /\ work'[h].locked = {} /\ OthersStay(h) /\ UNCHANGED <<part, earned>>
        BY <1>3, BeginFacts DEF TypeInv, tables
    <2>2. ValuesOf(h)'
        BY <2>1 DEF ValuesOf, ValuesInv, ProgressNeverAhead
    <2>3. QED
        BY <2>1, <2>2, ValuesByOne
<1>4. ASSUME NEW h \in Handlers, NEW c \in Challenges, NextChallenge(h, c)
      PROVE  ValuesInv'
    <2>1. work[h] \in Works
        BY DEF TypeInv, TypeOK
    <2>2. /\ work'[h] = [work[h] EXCEPT !.cur = c, !.todo = @ \ {c}]
          /\ OthersStay(h) /\ UNCHANGED <<part, earned>>
        BY <1>4, NextChallengeFacts DEF TypeInv, tables
    <2>3. /\ work'[h].read = work[h].read /\ work'[h].locked = work[h].locked
          /\ work'[h].draft = work[h].draft /\ work'[h].kind = work[h].kind
          /\ work'[h].amount = work[h].amount
        BY <2>1, <2>2 DEF Works
    <2>4. ValuesOf(h)'
        BY <2>2, <2>3 DEF ValuesInv, ValuesOf, Reach
    <2>5. QED
        BY <2>2, <2>4, ValuesByOne
<1>5. ASSUME NEW h \in Handlers, UpdateProgress(h) PROVE ValuesInv'
    <2> DEFINE w == work[h]
               c == w.cur
    <2>1. w \in Works
        BY DEF TypeInv, TypeOK
    <2>2. /\ \/ work'[h] = w
             \/ work'[h] = [w EXCEPT !.locked = @ \cup {c},
                                     !.draft = [@ EXCEPT ![c] = Advanced(w)]]
          /\ OthersStay(h) /\ UNCHANGED <<part, earned>>
          /\ pc[h] \in AtChallenge /\ c \in Challenges
        BY <1>5, UpdateFacts DEF tables, AtChallenge
    <2>3. CASE work'[h] = w
        <3>1. ValuesOf(h)'
            BY <2>2, <2>3 DEF ValuesInv, ValuesOf, Reach
        <3>2. QED
            BY <2>2, <3>1, ValuesByOne
    <2>4. CASE work'[h] = [w EXCEPT !.locked = @ \cup {c},
                                    !.draft = [@ EXCEPT ![c] = Advanced(w)]]
        <3>1. Kind[c] = w.kind
            BY <2>2 DEF TypeInv, HandlersGrounded, Suits
        <3>2. /\ w.read[c] \in Nat /\ w.read[c] <= earned[w.kind]
              /\ earned[w.kind] \in Nat /\ w.amount \in Nat
            BY <2>1, <2>2, <3>1 DEF ValuesInv, ValuesOf, Works, TypeInv, TypeOK
        <3>3. Advanced(w).value <= Reach(w)
            BY <2>2, <3>2, AdvancedType, NewValueFacts DEF Reach
        <3>4. /\ work'[h].read = w.read /\ work'[h].locked = w.locked \cup {c}
              /\ work'[h].kind = w.kind /\ work'[h].amount = w.amount
              /\ \A d \in Challenges : work'[h].draft[d] =
                     IF d = c THEN Advanced(w) ELSE w.draft[d]
              /\ w.locked \subseteq Challenges
            BY <2>1, <2>2, <2>4 DEF Works
        <3>5. ValuesOf(h)'
            BY <2>2, <3>3, <3>4 DEF ValuesInv, ValuesOf, Reach
        <3>6. QED
            BY <2>2, <3>5, ValuesByOne
    <2>5. QED
        BY <2>2, <2>3, <2>4
<1>6. ASSUME NEW h \in Handlers, SkipBadge(h) \/ ChooseToAward(h) PROVE ValuesInv'
    BY <1>1, <1>6, CheckFacts DEF tables
<1>7. ASSUME NEW h \in Handlers, InsertBadge(h) PROVE ValuesInv'
    <2>1. work[h] \in Works
        BY DEF TypeInv, TypeOK
    <2>2. /\ work'[h] = [work[h] EXCEPT !.inserted = @ \cup {Wanted(h)}]
          /\ OthersStay(h) /\ UNCHANGED <<part, earned>>
        BY <1>7, InsertFacts DEF tables
    <2>3. /\ work'[h].read = work[h].read /\ work'[h].locked = work[h].locked
          /\ work'[h].draft = work[h].draft /\ work'[h].kind = work[h].kind
          /\ work'[h].amount = work[h].amount
        BY <2>1, <2>2 DEF Works
    <2>4. ValuesOf(h)'
        BY <2>2, <2>3 DEF ValuesInv, ValuesOf, Reach
    <2>5. QED
        BY <2>2, <2>4, ValuesByOne
<1>8. ASSUME NEW h \in Handlers, Undo(h) PROVE ValuesInv'
    <2>1. /\ work'[h] = NoWork /\ OthersStay(h) /\ UNCHANGED <<part, earned>>
        BY <1>8, UndoFacts DEF TypeInv, tables
    <2>2. ValuesOf(h)'
        BY <2>1, NothingRead
    <2>3. QED
        BY <2>1, <2>2, ValuesByOne
<1>9. ASSUME NEW h \in Handlers, Commit(h) PROVE ValuesInv'
    <2> DEFINE w == work[h]
    <2>1. /\ work'[h] = NoWork /\ OthersStay(h)
          /\ \A c \in Challenges : part'[c] = IF c \in w.locked THEN w.draft[c]
                                              ELSE part[c]
          /\ earned'[w.kind] = Reach(w)
        BY <1>9, CommitFacts DEF TypeInv, Reach
    <2>2. \A g \in Handlers : ValuesOf(g)'
        <3> SUFFICES ASSUME NEW g \in Handlers PROVE ValuesOf(g)'
            OBVIOUS
        <3>1. CASE g = h
            BY <2>1, <3>1, NothingRead
        <3>2. CASE g # h
            BY <2>1, <3>2, ValuesKept DEF OthersStay
        <3>3. QED
            BY <3>1, <3>2
    <2>3. ProgressNeverAhead'
        <3> SUFFICES ASSUME NEW c \in Challenges
                     PROVE  part'[c].value <= earned'[Kind[c]]
            BY DEF ProgressNeverAhead
        <3>1. CASE c \in w.locked
            <4>1. Kind[c] = w.kind /\ w.draft[c].value <= Reach(w)
                BY <3>1 DEF TypeInv, HandlersGrounded, Suits, ValuesInv, ValuesOf
            <4>2. QED
                BY <2>1, <3>1, <4>1
        <3>2. CASE c \notin w.locked
            <4>1. /\ part[c].value \in Nat /\ part[c].value <= earned[Kind[c]]
                  /\ earned[Kind[c]] \in Nat /\ earned'[Kind[c]] \in Nat
                  /\ earned[Kind[c]] <= earned'[Kind[c]]
                BY HistoryGrows, ChallengeAssumption
                DEF ValuesInv, ProgressNeverAhead, TypeInv, TypeOK, Participations
            <4>2. QED
                BY <2>1, <3>2, <4>1
        <3>3. QED
            BY <3>1, <3>2
    <2>4. QED
        BY <2>2, <2>3 DEF ValuesInv
<1>10. ASSUME NEW h \in Handlers, NEW b \in Badges, Announce(h, b)
       PROVE  ValuesInv'
    BY <1>1, <1>10 DEF Announce, tables
<1>11. CASE Crash
    <2>1. /\ \A g \in Handlers : work'[g] = NoWork
          /\ UNCHANGED <<part, earned>>
        BY <1>11 DEF Crash, tables
    <2>2. QED
        BY <2>1, NothingRead DEF ValuesInv, ProgressNeverAhead
<1>12. CASE Tick \/ UNCHANGED vars
    BY <1>1, <1>12 DEF Tick, tables, vars
<1>13. QED
    BY <1>2, <1>3, <1>4, <1>5, <1>6, <1>7, <1>8, <1>9, <1>10, <1>11, <1>12,
       HandlerSteps DEF Next

\* Init has no progress.
LEMMA ValuesInit == Init => ValuesInv
<1> SUFFICES ASSUME Init PROVE ValuesInv
    OBVIOUS
<1>1. ProgressNeverAhead
    <2>1. NotJoined.value = 0
        BY DEF NotJoined
    <2>2. \A c \in Challenges : part[c].value = 0
        BY <2>1 DEF Init
    <2>3. \A c \in Challenges : earned[Kind[c]] = 0
        BY ChallengeAssumption DEF Init
    <2>4. 0 <= 0
        OBVIOUS
    <2>5. QED
        BY <2>2, <2>3, <2>4, Zenon DEF ProgressNeverAhead
<1>2. \A h \in Handlers : ValuesOf(h)
    BY NoWorkType, ChallengeAssumption DEF Init, ValuesOf, NoWork
<1>3. QED
    BY <1>1, <1>2 DEF ValuesInv

\* However handlers overlap, write over one another's progress or outlive the
\* participation they listed, no row shows more than the events brought.
THEOREM ProgressEarned == Spec => []ProgressNeverAhead
<1>1. TypeInv /\ ValuesInv /\ [Next]_vars => TypeInv' /\ ValuesInv'
    BY TypeNext, ValuesNext
<1>2. Spec => [](TypeInv /\ ValuesInv)
    BY <1>1, ValuesInit, TypeInit, PTL DEF Spec
<1>3. QED
    BY <1>2, PTL DEF ValuesInv
--------------------------------------------------------------------------------
(* Badges deserved.                                                        *)

\* A transaction with work w may give badge b.
Deserves(w, b) ==
    \E c \in Challenges :
        /\ Suits(w, c)
        /\ Reach(w) >= Target[c]
        /\ \/ b = BadgeOf[c]
           \/ b = ExclusiveOf[c] /\ w.since <= Deadline[c]

\* A handler that looks after a badge is at a challenge whose target the
\* events reach, and it has inserted no other.
InsertsOf(h) ==
    /\ pc[h] \in Checking \cup Inserting =>
           Reach(work[h]) >= Target[work[h].cur]
    /\ \A b \in work[h].inserted : Deserves(work[h], b)

InsertsInv == BadgesDeserved /\ \A h \in Handlers : InsertsOf(h)

LEMMA DeservesKept ==
    ASSUME TypeInv, TypeInv', [Next]_vars, NEW w \in Works, NEW b, Deserves(w, b)
    PROVE  Deserves(w, b)'
<1>1. Reach(w) \in Nat /\ Reach(w)' \in Nat /\ Reach(w) <= Reach(w)'
    BY ReachGrows
<1>2. \A c \in Challenges : Target[c] \in Nat
    BY ChallengeAssumption
<1>3. QED
    BY <1>1, <1>2 DEF Deserves, Suits

LEMMA InsertsKept ==
    ASSUME TypeInv, TypeInv', InsertsInv, [Next]_vars,
           NEW g \in Handlers, work'[g] = work[g], pc'[g] = pc[g]
    PROVE  InsertsOf(g)'
<1> DEFINE w == work[g]
<1>1. w \in Works
    BY DEF TypeInv, TypeOK
<1>2. /\ Reach(w) \in Nat /\ Reach(w)' \in Nat /\ Reach(w) <= Reach(w)'
    BY <1>1, ReachGrows DEF Reach
<1>3. pc[g] \in Checking \cup Inserting =>
          Target[w.cur] \in Nat /\ Reach(w) >= Target[w.cur]
    BY ChallengeAssumption
    DEF InsertsInv, InsertsOf, TypeInv, HandlersGrounded, AtChallenge, Suits
<1>4. \A b \in w.inserted : Deserves(w, b)'
    BY <1>1, DeservesKept DEF InsertsInv, InsertsOf, Deserves, Suits, Reach
<1>5. QED
    BY <1>2, <1>3, <1>4 DEF InsertsOf

\* A badge that was deserved stays so.
LEMMA DeservedKept ==
    ASSUME TypeInv, TypeInv', BadgesDeserved, [Next]_vars,
           NEW b \in Badges, Owned(b)
    PROVE  \E c \in Challenges :
               /\ earned'[Kind[c]] >= Target[c]
               /\ Opens[c] <= badge[b] /\ badge[b] <= Ends[c]
               /\ \/ b = BadgeOf[c]
                  \/ b = ExclusiveOf[c] /\ badge[b] <= Deadline[c]
<1>1. \A c \in Challenges : /\ Target[c] \in Nat
                            /\ earned[Kind[c]] \in Nat /\ earned'[Kind[c]] \in Nat
                            /\ earned[Kind[c]] <= earned'[Kind[c]]
    BY HistoryGrows, ChallengeAssumption DEF TypeInv, TypeOK
<1>2. QED
    BY <1>1 DEF BadgesDeserved

\* InsertsInv after a step of h that gives no badge, from what it means for h.
LEMMA InsertsByOne ==
    ASSUME TypeInv, TypeInv', InsertsInv, [Next]_vars, NEW h \in Handlers,
           OthersStay(h), UNCHANGED badge, InsertsOf(h)'
    PROVE  InsertsInv'
<1>1. \A g \in Handlers : InsertsOf(g)'
    <2> SUFFICES ASSUME NEW g \in Handlers PROVE InsertsOf(g)'
        OBVIOUS
    <2>1. CASE g = h
        BY <2>1
    <2>2. CASE g # h
        BY <2>2, InsertsKept DEF OthersStay
    <2>3. QED
        BY <2>1, <2>2
<1>2. BadgesDeserved'
    BY DeservedKept DEF InsertsInv, BadgesDeserved, Owned
<1>3. QED
    BY <1>1, <1>2 DEF InsertsInv

\* Every step keeps badges, given and about to be given, deserved.
LEMMA InsertsNext ==
    ASSUME TypeInv, TypeInv', ValuesInv, InsertsInv, [Next]_vars
    PROVE  InsertsInv'
<1>1. ASSUME UNCHANGED <<badge, work, pc>> PROVE InsertsInv'
    <2>1. \A g \in Handlers : InsertsOf(g)'
        BY <1>1, InsertsKept
    <2>2. BadgesDeserved'
        BY <1>1, DeservedKept DEF InsertsInv, BadgesDeserved, Owned
    <2>3. QED
        BY <2>1, <2>2 DEF InsertsInv
<1>2. ASSUME NEW h \in Handlers, NEW k \in Kinds \ {"genre"},
             NEW n \in Amounts(k), Begin(h, k, n)
      PROVE  InsertsInv'
    <2>1. /\ work'[h].inserted = {} /\ pc' = [pc EXCEPT ![h] = "listed"]
          /\ OthersStay(h) /\ UNCHANGED badge
        BY <1>2, BeginFacts DEF TypeInv, tables
    <2>2. pc'[h] = "listed"
        BY <2>1 DEF TypeInv, TypeOK
    <2>3. InsertsOf(h)'
        BY <2>1, <2>2 DEF InsertsOf, Checking, Inserting
    <2>4. QED
        BY <2>1, <2>3, InsertsByOne
<1>3. ASSUME NEW h \in Handlers, NEW c \in Challenges, NextChallenge(h, c)
      PROVE  InsertsInv'
    <2>1. work[h] \in Works
        BY DEF TypeInv, TypeOK
    <2>2. /\ work'[h] = [work[h] EXCEPT !.cur = c, !.todo = @ \ {c}]
          /\ pc' = [pc EXCEPT ![h] = "updating"]
          /\ OthersStay(h) /\ UNCHANGED <<badge, earned>>
        BY <1>3, NextChallengeFacts DEF TypeInv, tables
    <2>3. /\ work'[h].inserted = work[h].inserted /\ work'[h].kind = work[h].kind
          /\ work'[h].amount = work[h].amount /\ work'[h].since = work[h].since
          /\ pc'[h] = "updating"
        BY <2>1, <2>2 DEF Works, TypeInv, TypeOK
    <2>4. InsertsOf(h)'
        BY <2>2, <2>3
        DEF InsertsInv, InsertsOf, Deserves, Suits, Reach, Checking, Inserting
    <2>5. QED
        BY <2>2, <2>4, InsertsByOne
<1>4. ASSUME NEW h \in Handlers, UpdateProgress(h) PROVE InsertsInv'
    <2> DEFINE w == work[h]
               c == w.cur
    <2>1. w \in Works
        BY DEF TypeInv, TypeOK
    <2>2. /\ \/ work'[h] = w
             \/ work'[h] = [w EXCEPT !.locked = @ \cup {c},
                                     !.draft = [@ EXCEPT ![c] = Advanced(w)]]
          /\ OthersStay(h) /\ UNCHANGED <<badge, earned>>
          /\ pc[h] \in AtChallenge /\ c \in Challenges
        BY <1>4, UpdateFacts DEF tables, AtChallenge
    <2>3. pc'[h] \in Checking \cup Inserting => Advanced(w).achieved # Never
        BY <1>4, UpdateFacts DEF TypeInv, TypeOK, Checking, Inserting
    <2>4. /\ work'[h].inserted = w.inserted /\ work'[h].kind = w.kind
          /\ work'[h].amount = w.amount /\ work'[h].since = w.since
          /\ work'[h].cur = c
        BY <2>1, <2>2 DEF Works
    <2>5. Advanced(w).achieved # Never => Reach(w) >= Target[c]
        <3>1. Kind[c] = w.kind
            BY <2>2 DEF TypeInv, HandlersGrounded, Suits
        <3>2. /\ w.read[c] \in Nat /\ w.read[c] <= earned[w.kind]
              /\ earned[w.kind] \in Nat /\ w.amount \in Nat
            BY <2>1, <2>2, <3>1 DEF ValuesInv, ValuesOf, Works, TypeInv, TypeOK
        <3>3. Advanced(w).value \in Nat /\ Advanced(w).value <= Reach(w)
            BY <2>2, <3>2, AdvancedType, NewValueFacts DEF Reach
        <3>4. Reach(w) \in Nat /\ Target[c] \in Nat
            BY <2>2, <3>2, NewValueFacts, ChallengeAssumption DEF Reach
        <3>5. QED
            BY <2>2, <3>3, <3>4, AdvancedType
    <2>6. InsertsOf(h)'
        BY <2>2, <2>3, <2>4, <2>5
        DEF InsertsInv, InsertsOf, Deserves, Suits, Reach
    <2>7. QED
        BY <2>2, <2>6, InsertsByOne
<1>5. ASSUME NEW h \in Handlers, SkipBadge(h) \/ ChooseToAward(h) PROVE InsertsInv'
    <2>1. /\ pc[h] \in Checking /\ work' = work
          /\ OthersStay(h) /\ UNCHANGED <<badge, earned>>
        BY <1>5, CheckFacts DEF OthersStay, tables
    <2>2. InsertsOf(h)'
        BY <2>1 DEF InsertsInv, InsertsOf, Deserves, Suits, Reach
    <2>3. QED
        BY <2>1, <2>2, InsertsByOne
<1>6. ASSUME NEW h \in Handlers, InsertBadge(h) PROVE InsertsInv'
    <2> DEFINE w == work[h]
    <2>1. w \in Works
        BY DEF TypeInv, TypeOK
    <2>2. /\ work'[h] = [w EXCEPT !.inserted = @ \cup {Wanted(h)}]
          /\ pc[h] \in Inserting /\ Wanted(h) \in Badges
          /\ OthersStay(h) /\ UNCHANGED <<badge, earned>>
        BY <1>6, InsertFacts DEF tables
    <2>3. /\ work'[h].inserted = w.inserted \cup {Wanted(h)}
          /\ work'[h].kind = w.kind /\ work'[h].amount = w.amount
          /\ work'[h].since = w.since /\ work'[h].cur = w.cur
        BY <2>1, <2>2 DEF Works
    <2>4. Suits(w, w.cur) /\ Reach(w) >= Target[w.cur]
        BY <2>2 DEF TypeInv, HandlersGrounded, AtChallenge, InsertsInv, InsertsOf
    <2>5. \/ Wanted(h) = BadgeOf[w.cur]
          \/ Wanted(h) = ExclusiveOf[w.cur] /\ w.since <= Deadline[w.cur]
        BY <2>2, ChallengeAssumption DEF Wanted
    <2>6. Deserves(w, Wanted(h))
        BY <2>4, <2>5 DEF Deserves, Suits
    <2>7. InsertsOf(h)'
        BY <2>2, <2>3, <2>4, <2>6
        DEF InsertsInv, InsertsOf, Deserves, Suits, Reach
    <2>8. QED
        BY <2>2, <2>7, InsertsByOne
<1>7. ASSUME NEW h \in Handlers, Undo(h) PROVE InsertsInv'
    <2>1. /\ work'[h].inserted = {} /\ pc'[h] = "failed"
          /\ OthersStay(h) /\ UNCHANGED badge
        BY <1>7, UndoFacts, NoWorkType DEF TypeInv, tables
    <2>2. InsertsOf(h)'
        BY <2>1 DEF InsertsOf, Checking, Inserting
    <2>3. QED
        BY <2>1, <2>2, InsertsByOne
<1>8. ASSUME NEW h \in Handlers, Commit(h) PROVE InsertsInv'
    <2> DEFINE w == work[h]
    <2>1. /\ work'[h].inserted = {} /\ pc'[h] = "committed" /\ OthersStay(h)
          /\ \A b \in Badges : badge'[b] = IF b \in w.inserted THEN w.since
                                           ELSE badge[b]
          /\ earned'[w.kind] = Reach(w)
        BY <1>8, CommitFacts, NoWorkType DEF TypeInv, Reach
    <2>2. \A g \in Handlers : InsertsOf(g)'
        <3> SUFFICES ASSUME NEW g \in Handlers PROVE InsertsOf(g)'
            OBVIOUS
        <3>1. CASE g = h
            BY <2>1, <3>1 DEF InsertsOf, Checking, Inserting
        <3>2. CASE g # h
            BY <2>1, <3>2, InsertsKept DEF OthersStay
        <3>3. QED
            BY <3>1, <3>2
    <2>3. BadgesDeserved'
        <3> SUFFICES ASSUME NEW b \in Badges, Owned(b)'
                     PROVE  \E c \in Challenges :
                                /\ earned'[Kind[c]] >= Target[c]
                                /\ Opens[c] <= badge'[b] /\ badge'[b] <= Ends[c]
                                /\ \/ b = BadgeOf[c]
                                   \/ b = ExclusiveOf[c] /\ badge'[b] <= Deadline[c]
            BY DEF BadgesDeserved
        <3>1. CASE b \in w.inserted
            <4>1. PICK c \in Challenges :
                      /\ Suits(w, c) /\ Reach(w) >= Target[c]
                      /\ \/ b = BadgeOf[c]
                         \/ b = ExclusiveOf[c] /\ w.since <= Deadline[c]
                BY <3>1 DEF InsertsInv, InsertsOf, Deserves
            <4>2. Kind[c] = w.kind /\ Opens[c] <= w.since /\ w.since <= Ends[c]
                BY <4>1 DEF Suits
            <4>3. badge'[b] = w.since
                BY <2>1, <3>1
            <4>4. QED
                BY <2>1, <4>1, <4>2, <4>3
        <3>2. CASE b \notin w.inserted
            <4>1. badge'[b] = badge[b] /\ Owned(b)
                BY <2>1, <3>2 DEF Owned
            <4>2. QED
                BY <4>1, DeservedKept DEF InsertsInv
        <3>3. QED
            BY <3>1, <3>2
    <2>4. QED
        BY <2>2, <2>3 DEF InsertsInv
<1>9. CASE Crash
    <2>1. /\ \A h \in Handlers : work'[h].inserted = {} /\ pc'[h] \notin Working
          /\ UNCHANGED badge
        BY <1>9, NoWorkType
        DEF Crash, tables, TypeInv, TypeOK, Working, Checking, Inserting
    <2>2. \A h \in Handlers : InsertsOf(h)'
        BY <2>1 DEF InsertsOf, Working
    <2>3. BadgesDeserved'
        BY <2>1, DeservedKept DEF InsertsInv, BadgesDeserved, Owned
    <2>4. QED
        BY <2>2, <2>3 DEF InsertsInv
<1>10. ASSUME \/ \E c \in Challenges : Join(c) \/ Leave(c)
              \/ \E h \in Handlers : \E b \in Badges : Announce(h, b)
              \/ Tick
              \/ UNCHANGED vars
       PROVE  InsertsInv'
    BY <1>1, <1>10 DEF Join, Leave, Announce, Tick, tables, vars
<1>11. QED
    BY <1>2, <1>3, <1>4, <1>5, <1>6, <1>7, <1>8, <1>9, <1>10, HandlerSteps DEF Next

\* Every badge a user holds was earned by the events, in time.
THEOREM NoBadgeUndeserved == Spec => []BadgesDeserved
<1>1. Init => ValuesInv /\ InsertsInv
    BY ValuesInit, NoWorkType
    DEF Init, InsertsInv, InsertsOf, BadgesDeserved, Owned, Checking, Inserting
<1>2. TypeInv /\ ValuesInv /\ InsertsInv /\ [Next]_vars
          => TypeInv' /\ ValuesInv' /\ InsertsInv'
    BY TypeNext, ValuesNext, InsertsNext
<1>3. Spec => [](TypeInv /\ ValuesInv /\ InsertsInv)
    BY <1>1, <1>2, TypeInit, PTL DEF Spec
<1>4. QED
    BY <1>3, PTL DEF InsertsInv
--------------------------------------------------------------------------------
(* Badges awarded.                                                         *)

\* The user has badge b, or will have it when h commits.
Given(h, b) == Owned(b) \/ b \in work[h].inserted

\* A row that h has written as achieved has its badges given, but for those h
\* is still about to look after.
AwardsOf(h) ==
    \A c \in work[h].locked :
        work[h].draft[c].achieved # Never =>
            /\ work[h].draft[c].achieved = work[h].since
            /\ BadgeOf[c] # NoBadge =>
                   \/ Given(h, BadgeOf[c])
                   \/ c = work[h].cur /\ pc[h] \in {"checkStandard", "insertStandard"}
            /\ ExclusiveOf[c] # NoBadge /\ work[h].since <= Deadline[c] =>
                   \/ Given(h, ExclusiveOf[c])
                   \/ c = work[h].cur /\ pc[h] \in Checking \cup Inserting

AwardsInv == AchievedMeansAwarded /\ \A h \in Handlers : AwardsOf(h)

LEMMA GivenGrows ==
    ASSUME TypeInv, [Next]_vars, NEW h \in Handlers, NEW b \in Badges, Given(h, b),
           work[h].inserted \subseteq work'[h].inserted
    PROVE  Given(h, b)'
BY HistoryGrows DEF Given

LEMMA AwardsKept ==
    ASSUME TypeInv, AwardsInv, [Next]_vars,
           NEW g \in Handlers, work'[g] = work[g], pc'[g] = pc[g]
    PROVE  AwardsOf(g)'
<1>1. work[g].locked \subseteq Challenges
    BY DEF TypeInv, TypeOK, Works
<1>2. \A b \in Badges : Given(g, b) => Given(g, b)'
    BY GivenGrows
<1>3. \A c \in Challenges : /\ BadgeOf[c] # NoBadge => BadgeOf[c] \in Badges
                            /\ ExclusiveOf[c] # NoBadge => ExclusiveOf[c] \in Badges
    BY ChallengeAssumption
<1>4. AwardsOf(g)
    BY DEF AwardsInv
<1>5. QED
    BY <1>1, <1>2, <1>3, <1>4 DEF AwardsOf

\* Rows that stay as they are, or are not achieved, stay awarded.
LEMMA AchievedKept ==
    ASSUME TypeInv, AchievedMeansAwarded, [Next]_vars,
           NEW c \in Challenges, part'[c].achieved # Never,
           part'[c].achieved = part[c].achieved
    PROVE  /\ BadgeOf[c] # NoBadge => Owned(BadgeOf[c])'
           /\ ExclusiveOf[c] # NoBadge /\ part'[c].achieved <= Deadline[c]
                  => Owned(ExclusiveOf[c])'
<1>1. \A b \in Badges : Owned(b) => Owned(b)'
    BY HistoryGrows
<1>2. /\ BadgeOf[c] # NoBadge => BadgeOf[c] \in Badges
      /\ ExclusiveOf[c] # NoBadge => ExclusiveOf[c] \in Badges
    BY ChallengeAssumption
<1>3. QED
    BY <1>1, <1>2 DEF AchievedMeansAwarded, Owned

\* AwardsInv after a step of h that writes no row, from what it means for h.
LEMMA AwardsByOne ==
    ASSUME TypeInv, AwardsInv, [Next]_vars, NEW h \in Handlers,
           OthersStay(h), UNCHANGED part, AwardsOf(h)'
    PROVE  AwardsInv'
<1>1. \A g \in Handlers : AwardsOf(g)'
    <2> SUFFICES ASSUME NEW g \in Handlers PROVE AwardsOf(g)'
        OBVIOUS
    <2>1. CASE g = h
        BY <2>1
    <2>2. CASE g # h
        BY <2>2, AwardsKept DEF OthersStay
    <2>3. QED
        BY <2>1, <2>2
<1>2. AchievedMeansAwarded'
    BY AchievedKept DEF AwardsInv, AchievedMeansAwarded, Owned
<1>3. QED
    BY <1>1, <1>2 DEF AwardsInv

\* Every step keeps achieved rows awarded.
LEMMA AwardsNext ==
    ASSUME TypeInv, AwardsInv, [Next]_vars
    PROVE  AwardsInv'
<1> USE DEF Given
<1>1. ASSUME UNCHANGED <<work, pc>>,
             \A c \in Challenges : part'[c].achieved \in {Never, part[c].achieved}
      PROVE  AwardsInv'
    <2>1. \A g \in Handlers : AwardsOf(g)'
        BY <1>1, AwardsKept
    <2>2. AchievedMeansAwarded'
        <3> SUFFICES ASSUME NEW c \in Challenges, part'[c].achieved # Never
                     PROVE  /\ BadgeOf[c] # NoBadge => Owned(BadgeOf[c])'
                            /\ ExclusiveOf[c] # NoBadge
                                   /\ part'[c].achieved <= Deadline[c]
                                   => Owned(ExclusiveOf[c])'
            BY DEF AchievedMeansAwarded, Owned
        <3>1. part'[c].achieved = part[c].achieved
            BY <1>1
        <3>2. QED
            BY <3>1, AchievedKept DEF AwardsInv
    <2>3. QED
        BY <2>1, <2>2 DEF AwardsInv
<1>2. ASSUME NEW c \in Challenges, Join(c) \/ Leave(c) PROVE AwardsInv'
    <2>1. \A d \in Challenges : part'[d].achieved \in {Never, part[d].achieved}
        BY <1>2 DEF Join, Leave, NotJoined, TypeInv, TypeOK
    <2>2. QED
        BY <1>1, <1>2, <2>1 DEF Join, Leave
<1>3. ASSUME NEW h \in Handlers, NEW k \in Kinds \ {"genre"},
             NEW n \in Amounts(k), Begin(h, k, n)
      PROVE  AwardsInv'
    <2>1. work'[h].locked = {} /\ OthersStay(h) /\ UNCHANGED part
        BY <1>3, BeginFacts DEF TypeInv, tables
    <2>2. AwardsOf(h)'
        BY <2>1 DEF AwardsOf
    <2>3. QED
        BY <2>1, <2>2, AwardsByOne
<1>4. ASSUME NEW h \in Handlers, NEW c \in Challenges, NextChallenge(h, c)
      PROVE  AwardsInv'
    <2>1. work[h] \in Works
        BY DEF TypeInv, TypeOK
    <2>2. /\ work'[h] = [work[h] EXCEPT !.cur = c, !.todo = @ \ {c}]
          /\ pc[h] = "listed" /\ OthersStay(h) /\ UNCHANGED <<part, badge>>
        BY <1>4, NextChallengeFacts DEF TypeInv, tables
    <2>3. /\ work'[h].inserted = work[h].inserted /\ work'[h].locked = work[h].locked
          /\ work'[h].draft = work[h].draft /\ work'[h].since = work[h].since
        BY <2>1, <2>2 DEF Works
    <2>4. AwardsOf(h)'
        BY <2>2, <2>3 DEF AwardsInv, AwardsOf, Owned, Checking, Inserting
    <2>5. QED
        BY <2>2, <2>4, AwardsByOne
<1>5. ASSUME NEW h \in Handlers, UpdateProgress(h) PROVE AwardsInv'
    <2> DEFINE w == work[h]
               c == w.cur
    <2>1. w \in Works
        BY DEF TypeInv, TypeOK
    <2>2. /\ \/ work'[h] = w
             \/ work'[h] = [w EXCEPT !.locked = @ \cup {c},
                                     !.draft = [@ EXCEPT ![c] = Advanced(w)]]
          /\ OthersStay(h) /\ UNCHANGED <<part, badge>>
          /\ pc[h] = "updating" /\ c \in Challenges
          /\ pc' = [pc EXCEPT ![h] = IF Advanced(w).achieved # Never
                                     THEN "checkStandard" ELSE "listed"]
        BY <1>5, UpdateFacts DEF tables
    <2>3. CASE work'[h] = w
        <3>1. AwardsOf(h)'
            BY <2>2, <2>3 DEF AwardsInv, AwardsOf, Owned, Checking, Inserting
        <3>2. QED
            BY <2>2, <3>1, AwardsByOne
    <2>4. CASE work'[h] = [w EXCEPT !.locked = @ \cup {c},
                                    !.draft = [@ EXCEPT ![c] = Advanced(w)]]
        <3>1. /\ work'[h].locked = w.locked \cup {c} /\ work'[h].cur = c
              /\ work'[h].inserted = w.inserted /\ work'[h].since = w.since
              /\ \A d \in Challenges : work'[h].draft[d] =
                     IF d = c THEN Advanced(w) ELSE w.draft[d]
              /\ w.locked \subseteq Challenges
            BY <2>1, <2>2, <2>4 DEF Works
        <3>2. /\ Advanced(w).achieved \in {Never, w.since}
              /\ Advanced(w).achieved # Never => pc'[h] = "checkStandard"
            BY <2>2, AdvancedType DEF TypeInv, TypeOK, AtChallenge
        <3>3. AwardsOf(h)'
            BY <2>2, <3>1, <3>2 DEF AwardsInv, AwardsOf, Owned, Checking, Inserting
        <3>4. QED
            BY <2>2, <3>3, AwardsByOne
    <2>5. QED
        BY <2>2, <2>3, <2>4
<1>6. ASSUME NEW h \in Handlers, SkipBadge(h) PROVE AwardsInv'
    <2>1. /\ pc[h] \in Checking /\ work' = work /\ pc' = AfterBadge(h)
          /\ Wanted(h) # NoBadge => Given(h, Wanted(h))
          /\ OthersStay(h) /\ UNCHANGED <<part, badge>>
        BY <1>6, CheckFacts DEF OthersStay, tables, HasBadge
    <2>2. pc'[h] = IF pc[h] = "checkStandard" THEN "checkExclusive" ELSE "listed"
        BY <2>1 DEF AfterBadge, TypeInv, TypeOK, Checking
    <2>3. /\ pc[h] = "checkStandard" => Wanted(h) = BadgeOf[work[h].cur]
          /\ pc[h] = "checkExclusive" /\ work[h].since <= Deadline[work[h].cur]
                 => Wanted(h) = ExclusiveOf[work[h].cur]
        BY DEF Wanted
    <2>4. AwardsOf(h)'
        BY <2>1, <2>2, <2>3 DEF AwardsInv, AwardsOf, Owned, Checking, Inserting
    <2>5. QED
        BY <2>1, <2>4, AwardsByOne
<1>7. ASSUME NEW h \in Handlers, ChooseToAward(h) PROVE AwardsInv'
    <2>1. /\ pc[h] \in Checking /\ work' = work
          /\ pc' = [pc EXCEPT ![h] = IF @ = "checkStandard" THEN "insertStandard"
                                     ELSE "insertExclusive"]
          /\ OthersStay(h) /\ UNCHANGED <<part, badge>>
        BY <1>7, CheckFacts DEF OthersStay, tables
    <2>2. pc'[h] = IF pc[h] = "checkStandard" THEN "insertStandard"
                   ELSE "insertExclusive"
        BY <2>1 DEF TypeInv, TypeOK
    <2>3. AwardsOf(h)'
        BY <2>1, <2>2 DEF AwardsInv, AwardsOf, Owned, Checking, Inserting
    <2>4. QED
        BY <2>1, <2>3, AwardsByOne
<1>8. ASSUME NEW h \in Handlers, InsertBadge(h) PROVE AwardsInv'
    <2>1. work[h] \in Works
        BY DEF TypeInv, TypeOK
    <2>2. /\ work'[h] = [work[h] EXCEPT !.inserted = @ \cup {Wanted(h)}]
          /\ pc[h] \in Inserting /\ pc' = AfterBadge(h)
          /\ OthersStay(h) /\ UNCHANGED <<part, badge>>
        BY <1>8, InsertFacts DEF tables
    <2>3. /\ work'[h].inserted = work[h].inserted \cup {Wanted(h)}
          /\ work'[h].cur = work[h].cur /\ work'[h].since = work[h].since
          /\ work'[h].locked = work[h].locked /\ work'[h].draft = work[h].draft
        BY <2>1, <2>2 DEF Works
    <2>4. pc'[h] = IF pc[h] = "insertStandard" THEN "checkExclusive" ELSE "listed"
        BY <2>2 DEF AfterBadge, TypeInv, TypeOK, Inserting
    <2>5. /\ pc[h] = "insertStandard" => Wanted(h) = BadgeOf[work[h].cur]
          /\ pc[h] = "insertExclusive" /\ work[h].since <= Deadline[work[h].cur]
                 => Wanted(h) = ExclusiveOf[work[h].cur]
        BY DEF Wanted
    <2>6. AwardsOf(h)'
        BY <2>2, <2>3, <2>4, <2>5
        DEF AwardsInv, AwardsOf, Owned, Checking, Inserting
    <2>7. QED
        BY <2>2, <2>6, AwardsByOne
<1>9. ASSUME NEW h \in Handlers, Undo(h) PROVE AwardsInv'
    <2>1. work'[h].locked = {} /\ OthersStay(h) /\ UNCHANGED part
        BY <1>9, UndoFacts, NoWorkType DEF TypeInv, tables
    <2>2. AwardsOf(h)'
        BY <2>1 DEF AwardsOf
    <2>3. QED
        BY <2>1, <2>2, AwardsByOne
<1>10. ASSUME NEW h \in Handlers, Commit(h) PROVE AwardsInv'
    <2> DEFINE w == work[h]
    <2>1. /\ work'[h].locked = {} /\ pc[h] = "listed" /\ OthersStay(h)
          /\ \A c \in Challenges : part'[c] = IF c \in w.locked THEN w.draft[c]
                                              ELSE part[c]
          /\ \A b \in Badges : badge'[b] = IF b \in w.inserted THEN w.since
                                           ELSE badge[b]
        BY <1>10, CommitFacts, NoWorkType DEF TypeInv
    <2>2. w.since # Never
        BY <2>1 DEF TypeInv, TypeOK, HandlersGrounded, Working, Works, Never
    <2>3. \A b \in Badges : Given(h, b) => Owned(b)'
        BY <2>1, <2>2 DEF Owned
    <2>4. \A g \in Handlers : AwardsOf(g)'
        <3> SUFFICES ASSUME NEW g \in Handlers PROVE AwardsOf(g)'
            OBVIOUS
        <3>1. CASE g = h
            BY <2>1, <3>1 DEF AwardsOf
        <3>2. CASE g # h
            BY <2>1, <3>2, AwardsKept DEF OthersStay
        <3>3. QED
            BY <3>1, <3>2
    <2>5. AchievedMeansAwarded'
        <3> SUFFICES ASSUME NEW c \in Challenges, part'[c].achieved # Never
                     PROVE  /\ BadgeOf[c] # NoBadge => Owned(BadgeOf[c])'
                            /\ ExclusiveOf[c] # NoBadge
                                   /\ part'[c].achieved <= Deadline[c]
                                   => Owned(ExclusiveOf[c])'
            BY DEF AchievedMeansAwarded, Owned
        <3>1. CASE c \in w.locked
            <4>1. part'[c] = w.draft[c] /\ AwardsOf(h)
                BY <2>1, <3>1 DEF AwardsInv
            <4>2. /\ part'[c].achieved = w.since
                  /\ BadgeOf[c] # NoBadge => Given(h, BadgeOf[c])
                  /\ ExclusiveOf[c] # NoBadge /\ w.since <= Deadline[c]
                         => Given(h, ExclusiveOf[c])
                BY <2>1, <3>1, <4>1 DEF AwardsOf, Checking, Inserting
            <4>3. /\ BadgeOf[c] # NoBadge => BadgeOf[c] \in Badges
                  /\ ExclusiveOf[c] # NoBadge => ExclusiveOf[c] \in Badges
                BY ChallengeAssumption
            <4>4. QED
                BY <2>3, <4>2, <4>3
        <3>2. CASE c \notin w.locked
            BY <2>1, <3>2, AchievedKept DEF AwardsInv
        <3>3. QED
            BY <3>1, <3>2
    <2>6. QED
        BY <2>4, <2>5 DEF AwardsInv
<1>11. CASE Crash
    <2>1. (\A g \in Handlers : work'[g].locked = {}) /\ UNCHANGED part
        BY <1>11, NoWorkType DEF Crash, tables
    <2>2. AchievedMeansAwarded'
        BY <2>1, AchievedKept DEF AwardsInv, AchievedMeansAwarded, Owned
    <2>3. QED
        BY <2>1, <2>2 DEF AwardsInv, AwardsOf
<1>12. ASSUME \/ \E h \in Handlers : \E b \in Badges : Announce(h, b)
              \/ Tick
              \/ UNCHANGED vars
       PROVE  AwardsInv'
    BY <1>1, <1>12 DEF Announce, Tick, tables, vars
<1>13. QED
    BY <1>2, <1>3, <1>4, <1>5, <1>6, <1>7, <1>8, <1>9, <1>10, <1>11, <1>12,
       HandlerSteps DEF Next

\* A challenge is never shown as achieved without the badges it gives.
THEOREM AchievedIsAwarded == Spec => []AchievedMeansAwarded
<1>1. Init => AwardsInv
    BY NoWorkType DEF Init, AwardsInv, AwardsOf, AchievedMeansAwarded, NotJoined
<1>2. TypeInv /\ AwardsInv /\ [Next]_vars => TypeInv' /\ AwardsInv'
    BY TypeNext, AwardsNext
<1>3. Spec => [](TypeInv /\ AwardsInv)
    BY <1>1, <1>2, TypeInit, PTL DEF Spec
<1>4. QED
    BY <1>3, PTL DEF AwardsInv
================================================================================
