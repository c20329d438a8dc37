------------------------------ MODULE Clubs_proofs ------------------------------
(***************************************************************************)
(* What holds of a club for any number of members, requests and days.  Of   *)
(* its membership (ClubMembership): how far a full club can be overrun by   *)
(* joins that overlap, and that a member shown at 100 percent when the plan  *)
(* ends has read the book.  Of its sessions, agendas, topics and comments    *)
(* (ClubDiscussion): the feed tells what the rows say, the topics of an      *)
(* agenda keep the order of their author, and every comment of a topic has   *)
(* its place in the threads.  Of its chat (ClubChat): the fan-out of a       *)
(* message reaches every member who was connected.                           *)
(***************************************************************************)
EXTENDS WholeClub, FiniteSetTheorems, TLAPS

--------------------------------------------------------------------------------
(* Join requests that have found a place                                   *)

Underway == {r \in ClubRequests : joining[r] # NoJoin}

\* Those of u through join_public: each will record a CLUB_JOINED event.
PostsUnderway(u) == {r \in ClubRequests : joining[r].user = u /\ joining[r].public}

\* Nothing happens to a club before it is created.
NothingBeforeCreation ==
    ~club.open => /\ \A u \in Users : role[u] = NotMember
                  /\ \A r \in ClubRequests : joining[r] = NoJoin

\* Members and requests on their way to be members: the last request to find a
\* place saw at most capacity - 1 members, and was one of the requests itself.
PlacesPromised ==
    club.open =>
        /\ club.capacity >= 2
        /\ MemberCount + Cardinality(Underway) <= club.capacity - 1 + Cardinality(ClubRequests)

PostsPromised ==
    \A u \in Users : joinPosts[u] + Cardinality(PostsUnderway(u))
                        <= MaxJoinPosts - 1 + Cardinality(ClubRequests)

\* weekly_pages is what create_reading_plan divided, of a book with pages.
PlanDivided ==
    plan.made => /\ plan.pages > 0
                 /\ plan.weekly = CeilDiv(plan.pages, PlanWeeks(plan.start, plan.end))

\* The type of joinPosts without its bound, which PostsPromised implies.
ClubTyped ==
    /\ club \in Clubs
    /\ role \in [Users -> ClubRoles \cup {NotMember}]
    /\ page \in [Users -> Nat]
    /\ joining \in [ClubRequests -> Joins]
    /\ \A r \in ClubRequests : joining[r] # NoJoin => joining[r].user \in Users
    /\ joinPosts \in [Users -> Nat]
    /\ pro \subseteq Users
    /\ plan \in Plans
    /\ today \in Days
    /\ event \in [ClubEvents -> EventRows]
    /\ rsvp \in [ClubEvents -> [Users -> RSVPStatus \cup {NoAnswer}]]

ClubInv ==
    ClubTyped /\ NothingBeforeCreation /\ PlacesPromised /\ PostsPromised /\ PlanDivided

--------------------------------------------------------------------------------
(* Rounding                                                                *)

LEMMA Division ==
    ASSUME NEW a \in Nat, NEW b \in Nat \ {0}
    PROVE  a \div b \in Nat /\ a < b * (a \div b) + b
  BY SMT

LEMMA CeilDivCovers ==
    ASSUME NEW a \in Nat, NEW b \in Nat \ {0}
    PROVE  CeilDiv(a, b) \in Nat /\ CeilDiv(a, b) * b >= a
<1>1. PICK s \in Nat : s = a + b - 1
  OBVIOUS
<1>2. CeilDiv(a, b) \in Nat /\ s < b * CeilDiv(a, b) + b
  BY <1>1, Division DEF CeilDiv
<1> QED
  BY <1>1, <1>2

LEMMA PlanWeeksPositive ==
    ASSUME NEW s \in Int, NEW e \in Int
    PROVE  PlanWeeks(s, e) \in Nat \ {0}
  BY DEF PlanWeeks, CeilDiv, Larger

LEMMA PlanWeeksGrow ==
    ASSUME NEW s \in Int, NEW e \in Int, NEW d \in Int, d >= e
    PROVE  PlanWeeks(s, d) >= PlanWeeks(s, e)
  BY DEF PlanWeeks, CeilDiv, Larger

\* A percentage rounded down is 100 only of all that was expected.
LEMMA FullMeansExpected ==
    ASSUME NEW x \in Nat, NEW n \in Nat, n > 0,
           Larger(0, Smaller(100, (x * 100) \div n)) = 100
    PROVE  x >= n
<1>1. PICK q : q = (x * 100) \div n
  OBVIOUS
<1>2. q \in Nat /\ n * q <= x * 100
  BY <1>1, SMT
<1>3. q >= 100
  BY <1>1, <1>2 DEF Larger, Smaller
<1>4. n * 100 <= n * q
  BY <1>2, <1>3, SMT
<1> QED
  BY <1>2, <1>4, SMT

--------------------------------------------------------------------------------

LEMMA CapacityTyped ==
    ASSUME ClubTyped
    PROVE  club.capacity \in Nat
<1>1. \A n \in Capacities \cup {0} : n \in Nat
  BY ClubAssumption
<1>2. club.capacity \in Capacities \cup {0}
  BY DEF ClubTyped, Clubs
<1> QED
  BY <1>1, <1>2, Zenon

LEMMA ClubStarts ==
    ASSUME ClubInit
    PROVE  ClubInv
<1> USE ClubAssumption
<1>1. Underway = {} /\ \A u \in Users : PostsUnderway(u) = {}
  BY DEF ClubInit, Underway, PostsUnderway, NoJoin
<1>2. Cardinality(ClubRequests) \in Nat \ {0}
  BY FS_CardinalityType, FS_EmptySet
<1>3. ClubTyped
  BY DEF ClubInit, ClubTyped, Clubs, NoClub, ClubRoles, Joins, NoJoin, Plans, NoPlan, Days, EventRows,
         NoEvent
<1>4. PostsPromised
  BY <1>1, <1>2, FS_EmptySet DEF ClubInit, PostsPromised
<1> QED
  BY <1>3, <1>4 DEF ClubInit, ClubInv, NothingBeforeCreation, PlacesPromised, PlanDivided, NoClub, NoPlan

LEMMA ClubInvImplies ==
    ASSUME ClubInv
    PROVE  ClubTypeOK /\ CapacityOverrun /\ FullProgressMeansRead
<1>1. /\ IsFiniteSet(Underway) /\ Cardinality(Underway) \in Nat
      /\ Cardinality(ClubRequests) \in Nat
      /\ MemberCount \in Nat
      /\ \A u \in Users : Cardinality(PostsUnderway(u)) \in Nat
  BY ClubAssumption, FS_Subset, FS_CardinalityType
  DEF Underway, PostsUnderway, MemberCount, ClubMembers
<1>2. ClubTypeOK
  <2>1. ASSUME NEW u \in Users
        PROVE  joinPosts[u] \in 0 .. MaxJoinPosts + Cardinality(ClubRequests)
    BY <1>1, ClubAssumption DEF ClubInv, ClubTyped, PostsPromised
  <2> QED
    BY <2>1 DEF ClubInv, ClubTyped, ClubTypeOK
<1>3. CapacityOverrun
  <2>1. club.capacity \in Nat
    BY CapacityTyped DEF ClubInv
  <2> QED
    BY <1>1, <2>1 DEF ClubInv, PlacesPromised, CapacityOverrun
<1>4. FullProgressMeansRead
  <2> SUFFICES ASSUME plan.made, today >= plan.end, NEW u \in ClubMembers,
                      ClubProgress(today)[u] = 100
               PROVE  page[u] >= plan.pages
    BY DEF FullProgressMeansRead
  <2>1. /\ u \in Users /\ page[u] \in Nat /\ today \in Int
        /\ plan.pages \in Nat /\ plan.weekly \in Nat /\ plan.start \in Int /\ plan.end \in Int
    BY DEF ClubInv, ClubTyped, ClubMembers, Plans, Days
  <2>2. PICK first \in Int, last \in Int, day \in Int :
            first = plan.start /\ last = plan.end /\ day = today
    BY <2>1
  <2>3. PICK w \in Nat \ {0} : w = PlanWeeks(first, last)
    BY PlanWeeksPositive
  <2>4. ElapsedWeeks(plan, today) = w
    <3>1. PlanWeeks(first, day) \in Nat
      BY PlanWeeksPositive
    <3>2. PlanWeeks(first, day) >= PlanWeeks(first, last)
      BY <2>2, PlanWeeksGrow
    <3> QED
      BY <2>2, <2>3, <3>1, <3>2 DEF ElapsedWeeks, Smaller
  <2>5. plan.weekly * w >= plan.pages /\ plan.weekly * w \in Nat
    BY <2>1, <2>2, <2>3, CeilDivCovers DEF ClubInv, PlanDivided
  <2>6. ExpectedPage(plan, today) = plan.weekly * w
    BY <2>4 DEF ExpectedPage
  <2>7. PICK n \in Nat : n = plan.weekly * w
    BY <2>5
  <2>8. ProgressPct(page[u], plan, today) = 100
    BY DEF ClubProgress
  <2>9. n > 0 /\ Larger(0, Smaller(100, (page[u] * 100) \div n)) = 100
    BY <2>6, <2>7, <2>8 DEF ProgressPct
  <2>10. page[u] >= n
    BY <2>1, <2>9, FullMeansExpected
  <2> QED
    BY <2>1, <2>5, <2>7, <2>10
<1> QED
  BY <1>2, <1>3, <1>4

--------------------------------------------------------------------------------
(* Steps                                                                   *)

\* Sizes of the sets the invariant counts.
LEMMA Counts ==
    ASSUME ClubTyped
    PROVE  /\ IsFiniteSet(ClubMembers) /\ MemberCount \in Nat
           /\ IsFiniteSet(Underway) /\ Cardinality(Underway) \in Nat
           /\ Cardinality(Underway) <= Cardinality(ClubRequests)
           /\ Cardinality(ClubRequests) \in Nat
           /\ \A u \in Users : /\ IsFiniteSet(PostsUnderway(u))
                               /\ Cardinality(PostsUnderway(u)) \in Nat
                               /\ Cardinality(PostsUnderway(u)) <= Cardinality(ClubRequests)
  BY ClubAssumption, FS_Subset, FS_CardinalityType
  DEF Underway, PostsUnderway, MemberCount, ClubMembers

LEMMA CreateKeeps ==
    ASSUME ClubInv, NEW u \in Users, NEW n \in Capacities, NEW p \in BOOLEAN,
           NEW b \in Books \cup {NoBook}, CreateClub(u, n, p, b)
    PROVE  ClubInv'
<1> USE ClubAssumption DEF ClubInv, CreateClub, planning, eventing
<1>1. ClubTyped'
  BY DEF ClubTyped, Clubs, ClubRoles
<1>2. ClubMembers' = {u} /\ Underway' = {}
  BY DEF ClubTyped, NothingBeforeCreation, ClubMembers, Underway, NotMember
<1>3. MemberCount' = 1 /\ Cardinality(Underway)' = 0
  BY <1>2, FS_Singleton, FS_EmptySet DEF MemberCount
<1>4. Cardinality(ClubRequests) \in Nat \ {0}
  BY FS_CardinalityType, FS_EmptySet
<1>5. n \in Nat /\ n >= 2
  OBVIOUS
<1>6. PlacesPromised'
  BY <1>3, <1>4, <1>5 DEF PlacesPromised
<1>7. PostsPromised'
  BY DEF PostsPromised, PostsUnderway
<1> QED
  BY <1>1, <1>6, <1>7 DEF NothingBeforeCreation, PlanDivided

LEMMA FindKeeps ==
    ASSUME ClubInv, NEW r \in ClubRequests, NEW u \in Users, NEW p \in BOOLEAN,
           p => joinPosts[u] < MaxJoinPosts, FindPlace(r, u, p)
    PROVE  ClubInv'
<1> USE ClubAssumption DEF ClubInv, FindPlace, planning, eventing
<1>1. ClubTyped'
  BY DEF ClubTyped, Joins
<1>2. MemberCount' = MemberCount
  BY DEF MemberCount, ClubMembers
<1>3. PlacesPromised'
  <2>1. club.capacity \in Nat
    BY CapacityTyped
  <2>2. Cardinality(Underway') \in Nat /\ Cardinality(Underway') <= Cardinality(ClubRequests)
    BY FS_Subset, FS_CardinalityType DEF Underway
  <2> QED
    BY <1>2, <2>1, <2>2, Counts DEF PlacesPromised
<1>4. PostsPromised'
  <2> SUFFICES ASSUME NEW v \in Users
               PROVE  joinPosts[v] + Cardinality(PostsUnderway(v)')
                         <= MaxJoinPosts - 1 + Cardinality(ClubRequests)
    BY DEF PostsPromised
  <2>1. CASE v = u /\ p
    <3>1. /\ Cardinality(PostsUnderway(v)') \in Nat
          /\ Cardinality(PostsUnderway(v)') <= Cardinality(ClubRequests)
          /\ Cardinality(ClubRequests) \in Nat
      BY FS_Subset, FS_CardinalityType DEF PostsUnderway
    <3> QED
      BY <2>1, <3>1 DEF ClubTyped
  <2>2. CASE v # u \/ ~p
    <3>1. PostsUnderway(v)' = PostsUnderway(v)
      BY <2>2 DEF PostsUnderway, ClubTyped, NoJoin
    <3> QED
      BY <3>1 DEF PostsPromised
  <2> QED
    BY <2>1, <2>2
<1> QED
  BY <1>1, <1>3, <1>4 DEF NothingBeforeCreation, PlanDivided

\* A request that ends, with or without its row, is underway no more.
LEMMA EndsOneRequest ==
    ASSUME ClubTyped, NEW r \in ClubRequests, joining[r] # NoJoin,
           joining' = [joining EXCEPT ![r] = NoJoin]
    PROVE  /\ Cardinality(Underway') = Cardinality(Underway) - 1
           /\ \A v \in Users :
                 Cardinality(PostsUnderway(v)') =
                     IF joining[r].user = v /\ joining[r].public
                     THEN Cardinality(PostsUnderway(v)) - 1
                     ELSE Cardinality(PostsUnderway(v))
<1>1. Underway' = Underway \ {r} /\ r \in Underway
  BY DEF Underway, ClubTyped
<1>2. ASSUME NEW v \in Users
      PROVE  PostsUnderway(v)' = PostsUnderway(v) \ {r}
  BY ClubAssumption DEF PostsUnderway, ClubTyped, NoJoin
<1>3. ASSUME NEW v \in Users
      PROVE  Cardinality(PostsUnderway(v)') =
                 IF r \in PostsUnderway(v) THEN Cardinality(PostsUnderway(v)) - 1
                 ELSE Cardinality(PostsUnderway(v))
  BY <1>2, Counts, FS_RemoveElement
<1> QED
  BY <1>1, <1>3, Counts, FS_RemoveElement DEF PostsUnderway

LEMMA TakeKeeps ==
    ASSUME ClubInv, NEW r \in ClubRequests, TakePlace(r)
    PROVE  ClubInv'
<1> USE ClubAssumption DEF ClubInv
<1>1. PICK u \in Users : u = joining[r].user
  BY DEF ClubTyped, TakePlace, NoJoin
<1>2. joining[r] # NoJoin /\ joining' = [joining EXCEPT ![r] = NoJoin]
  BY DEF TakePlace, NoJoin
<1>3. club' = club /\ plan' = plan /\ pro' = pro /\ today' = today /\ event' = event /\ rsvp' = rsvp
  BY DEF TakePlace, planning, eventing
<1>4. ClubTyped'
  <2>1. joining' \in [ClubRequests -> Joins]
    BY <1>2 DEF ClubTyped, Joins, NoJoin
  <2>2. \A q \in ClubRequests : joining'[q] # NoJoin => joining'[q].user \in Users
    BY <1>2 DEF ClubTyped
  <2>3. /\ role' \in [Users -> ClubRoles \cup {NotMember}]
        /\ page' \in [Users -> Nat]
        /\ joinPosts' \in [Users -> Nat]
    <3>1. CASE IsMember(u)
      BY <1>1, <3>1 DEF ClubTyped, TakePlace
    <3>2. CASE ~IsMember(u)
      <4>1. /\ role' = [role EXCEPT ![u] = "member"]
            /\ page' = [page EXCEPT ![u] = 0]
            /\ joinPosts' = joinPosts \/ joinPosts' = [joinPosts EXCEPT ![u] = @ + 1]
        BY <1>1, <3>2 DEF TakePlace, RecordClubJoined
      <4> QED
        BY <4>1 DEF ClubTyped, ClubRoles
    <3> QED
      BY <3>1, <3>2
  <2> QED
    BY <1>3, <2>1, <2>2, <2>3 DEF ClubTyped
<1>5. MemberCount' \in Nat /\ MemberCount' <= MemberCount + 1
  <2>1. ClubMembers' = ClubMembers \/ ClubMembers' = ClubMembers \cup {u}
    BY <1>1 DEF ClubMembers, TakePlace, IsMember, ClubTyped, NotMember
  <2>2. /\ IsFiniteSet(ClubMembers) /\ Cardinality(ClubMembers) \in Nat
        /\ MemberCount = Cardinality(ClubMembers) /\ MemberCount' = Cardinality(ClubMembers')
    BY Counts DEF MemberCount
  <2>3. Cardinality(ClubMembers \cup {u}) \in {Cardinality(ClubMembers), Cardinality(ClubMembers) + 1}
    BY <2>2, FS_AddElement
  <2> QED
    BY <2>1, <2>2, <2>3
<1>6. PlacesPromised'
  <2>1. club.open
    BY <1>2 DEF NothingBeforeCreation
  <2>2. club.capacity \in Nat
    BY CapacityTyped
  <2>3. Cardinality(Underway') = Cardinality(Underway) - 1
    BY <1>2, EndsOneRequest
  <2> QED
    BY <1>3, <1>5, <2>1, <2>2, <2>3, Counts DEF PlacesPromised
<1>7. PostsPromised'
  <2> SUFFICES ASSUME NEW v \in Users
               PROVE  joinPosts'[v] + Cardinality(PostsUnderway(v)')
                         <= MaxJoinPosts - 1 + Cardinality(ClubRequests)
    BY DEF PostsPromised
  <2>1. joinPosts'[v] \in {joinPosts[v], joinPosts[v] + 1}
    BY DEF TakePlace, RecordClubJoined, ClubTyped
  <2>2. joinPosts'[v] # joinPosts[v] => v = u /\ joining[r].public
    BY <1>1 DEF TakePlace, RecordClubJoined, ClubTyped
  <2>3. joinPosts[v] \in Nat /\ joinPosts[v] + Cardinality(PostsUnderway(v))
                         <= MaxJoinPosts - 1 + Cardinality(ClubRequests)
    BY DEF PostsPromised, ClubTyped
  <2>4. Cardinality(PostsUnderway(v)') = IF joining[r].user = v /\ joining[r].public
                                         THEN Cardinality(PostsUnderway(v)) - 1
                                         ELSE Cardinality(PostsUnderway(v))
    BY <1>2, EndsOneRequest
  <2> QED
    BY <1>1, <2>1, <2>2, <2>3, <2>4, Counts
<1> QED
  BY <1>2, <1>3, <1>4, <1>6, <1>7 DEF NothingBeforeCreation, PlanDivided

LEMMA JoinLostKeeps ==
    ASSUME ClubInv, NEW r \in ClubRequests, JoinLost(r)
    PROVE  ClubInv'
<1> USE ClubAssumption DEF ClubInv, JoinLost, planning, eventing
<1>1. ClubTyped'
  BY DEF ClubTyped, Joins, NoJoin
<1>2. MemberCount' = MemberCount
  BY DEF MemberCount, ClubMembers
<1>3. PlacesPromised'
  <2>1. club.open
    BY DEF NothingBeforeCreation
  <2>2. club.capacity \in Nat
    BY CapacityTyped
  <2>3. Cardinality(Underway') = Cardinality(Underway) - 1
    BY EndsOneRequest
  <2> QED
    BY <1>2, <2>1, <2>2, <2>3, Counts DEF PlacesPromised
<1>4. PostsPromised'
  <2> SUFFICES ASSUME NEW v \in Users
               PROVE  joinPosts[v] + Cardinality(PostsUnderway(v)')
                         <= MaxJoinPosts - 1 + Cardinality(ClubRequests)
    BY DEF PostsPromised
  <2>1. joinPosts[v] \in Nat /\ joinPosts[v] + Cardinality(PostsUnderway(v))
                         <= MaxJoinPosts - 1 + Cardinality(ClubRequests)
    BY DEF PostsPromised, ClubTyped
  <2>2. Cardinality(PostsUnderway(v)') \in {Cardinality(PostsUnderway(v)),
                                            Cardinality(PostsUnderway(v)) - 1}
    BY EndsOneRequest
  <2> QED
    BY <2>1, <2>2, Counts
<1> QED
  BY <1>1, <1>3, <1>4 DEF NothingBeforeCreation, PlanDivided

LEMMA LeaveKeeps ==
    ASSUME ClubInv, NEW u \in Users, LeaveClub(u)
    PROVE  ClubInv'
<1> USE ClubAssumption DEF ClubInv, LeaveClub, planning, eventing
<1>1. ClubTyped'
  BY DEF ClubTyped
<1>2. ClubMembers' = ClubMembers \ {u} /\ u \in ClubMembers
  BY DEF ClubMembers, ClubTyped, IsMember, NotMember
<1>3. MemberCount' = MemberCount - 1
  BY <1>2, Counts, FS_RemoveElement DEF MemberCount
<1>4. Underway' = Underway /\ \A v \in Users : PostsUnderway(v)' = PostsUnderway(v)
  BY DEF Underway, PostsUnderway
<1>5. PlacesPromised'
  <2>1. MemberCount \in Nat /\ Cardinality(Underway) \in Nat /\ Cardinality(ClubRequests) \in Nat
    BY Counts
  <2>2. club.capacity \in Nat
    BY CapacityTyped
  <2> QED
    BY <1>3, <1>4, <2>1, <2>2 DEF PlacesPromised
<1>6. PostsPromised'
  BY <1>4 DEF PostsPromised
<1> QED
  BY <1>1, <1>5, <1>6 DEF NothingBeforeCreation, PlanDivided

\* A step that leaves the members, the requests and the size of the club alone
\* has its type and its plan to keep.
LEMMA MembershipKept ==
    ASSUME ClubInv, ClubTyped', PlanDivided', club'.open = club.open,
           club'.capacity = club.capacity, UNCHANGED <<role, joining, joinPosts>>
    PROVE  ClubInv'
<1>1. MemberCount' = MemberCount /\ Underway' = Underway
  BY DEF MemberCount, ClubMembers, Underway
<1>2. \A u \in Users : PostsUnderway(u)' = PostsUnderway(u)
  BY DEF PostsUnderway
<1>3. PostsPromised'
  BY <1>2 DEF ClubInv, PostsPromised
<1>4. PlacesPromised'
  BY <1>1 DEF ClubInv, PlacesPromised
<1> QED
  BY <1>3, <1>4 DEF ClubInv, NothingBeforeCreation

LEMMA PlanKeeps ==
    ASSUME ClubInv, PlanNext
    PROVE  ClubInv'
<1> USE ClubAssumption DEF membership, planning, eventing
<1>1. ASSUME NEW u \in Users, NEW b \in Books, NEW s \in Days, NEW e \in Days,
             CreateReadingPlan(u, b, s, e)
      PROVE  ClubInv'
  <2>1. TotalPages(b) \in Nat \ {0}
    <3>1. PageCount[b] \in Nat /\ DefaultPages \in Nat \ {0}
      OBVIOUS
    <3> QED
      BY <3>1 DEF TotalPages
  <2>2. PlanWeeks(s, e) \in Nat \ {0}
    <3>1. s \in Int /\ e \in Int
      BY DEF Days
    <3> QED
      BY <3>1, PlanWeeksPositive
  <2>3. CeilDiv(TotalPages(b), PlanWeeks(s, e)) \in Nat
    BY <2>1, <2>2, CeilDivCovers
  <2>4. plan' \in Plans /\ PlanDivided'
    BY <1>1, <2>1, <2>3 DEF CreateReadingPlan, Plans, PlanDivided
  <2>5. ClubTyped'
    BY <1>1, <2>4 DEF ClubInv, ClubTyped, CreateReadingPlan
  <2> QED
    BY <1>1, <2>4, <2>5, MembershipKept DEF CreateReadingPlan
<1>2. ASSUME NEW u \in Users, NEW n \in Pages, UpdateMemberProgress(u, n)
      PROVE  ClubInv'
  <2>1. ClubTyped' /\ PlanDivided'
    BY <1>2 DEF ClubInv, ClubTyped, PlanDivided, UpdateMemberProgress
  <2> QED
    BY <1>2, <2>1, MembershipKept DEF UpdateMemberProgress
<1>3. ASSUME NextDay
      PROVE  ClubInv'
  <2>1. ClubTyped' /\ PlanDivided'
    BY <1>3 DEF ClubInv, ClubTyped, PlanDivided, NextDay, Days
  <2> QED
    BY <1>3, <2>1, MembershipKept DEF NextDay
<1> QED
  BY <1>1, <1>2, <1>3 DEF PlanNext

EventsTyped ==
    /\ event \in [ClubEvents -> EventRows]
    /\ rsvp \in [ClubEvents -> [Users -> RSVPStatus \cup {NoAnswer}]]

LEMMA EventKeeps ==
    ASSUME ClubInv, EventNext
    PROVE  ClubInv'
<1>1. UNCHANGED <<club, role, page, joining, joinPosts, pro, plan, today>>
  BY DEF EventNext, CreateEvent, UpdateEvent, DeleteEvent, Rsvp, membership, planning
<1>2. EventsTyped'
  <2>0. EventsTyped
    BY DEF ClubInv, ClubTyped, EventsTyped
  <2> USE DEF EventsTyped, EventRows
  <2>1. ASSUME NEW u \in Users, NEW e \in ClubEvents, NEW n \in {0, 1}, CreateEvent(u, e, n)
        PROVE  EventsTyped'
    BY <2>0, <2>1 DEF CreateEvent
  <2>2. ASSUME NEW u \in Users, NEW e \in ClubEvents, NEW n \in {0, 1}, UpdateEvent(u, e, n)
        PROVE  EventsTyped'
    BY <2>0, <2>2 DEF UpdateEvent
  <2>3. ASSUME NEW u \in Users, NEW e \in ClubEvents, DeleteEvent(u, e)
        PROVE  EventsTyped'
    BY <2>0, <2>3 DEF DeleteEvent, NoEvent
  <2>4. ASSUME NEW u \in Users, NEW e \in ClubEvents, NEW a \in RSVPStatus, Rsvp(u, e, a)
        PROVE  EventsTyped'
    BY <2>0, <2>4 DEF Rsvp
  <2> QED
    BY <2>1, <2>2, <2>3, <2>4 DEF EventNext
<1>3. ClubTyped' /\ PlanDivided'
  BY <1>1, <1>2 DEF ClubInv, ClubTyped, EventsTyped, PlanDivided
<1> QED
  BY <1>1, <1>3, MembershipKept

LEMMA ClubKeeps ==
    ASSUME ClubInv, [ClubNext]_clubVars
    PROVE  ClubInv'
<1>1. CASE MembershipNext
  <2>1. ASSUME NEW u \in Users, NEW n \in Capacities, NEW p \in BOOLEAN, NEW b \in Books \cup {NoBook},
               CreateClub(u, n, p, b)
        PROVE  ClubInv'
    BY <2>1, CreateKeeps
  <2>2. ASSUME NEW r \in ClubRequests, NEW u \in Users, JoinByCode(r, u) \/ JoinPublic(r, u)
        PROVE  ClubInv'
    BY <2>2, FindKeeps DEF JoinByCode, JoinPublic
  <2>3. ASSUME NEW r \in ClubRequests, TakePlace(r) \/ JoinLost(r)
        PROVE  ClubInv'
    BY <2>3, TakeKeeps, JoinLostKeeps
  <2>4. ASSUME NEW u \in Users, LeaveClub(u)
        PROVE  ClubInv'
    BY <2>4, LeaveKeeps
  <2>5. ASSUME NEW u \in Users, NEW b \in Books \cup {NoBook}, SetBook(u, b)
        PROVE  ClubInv'
    <3>1. /\ UNCHANGED <<role, page, joining, joinPosts, pro, plan, today, event, rsvp>>
          /\ club' = [club EXCEPT !.book = b]
      BY <2>5 DEF SetBook, planning, eventing
    <3>2. club' \in Clubs /\ club'.open = club.open /\ club'.capacity = club.capacity
      BY <3>1 DEF ClubInv, ClubTyped, Clubs
    <3>3. ClubTyped' /\ PlanDivided'
      BY <3>1, <3>2 DEF ClubInv, ClubTyped, PlanDivided
    <3> QED
      BY <3>1, <3>2, <3>3, MembershipKept
  <2> QED
    BY <1>1, <2>1, <2>2, <2>3, <2>4, <2>5 DEF MembershipNext
<1>2. CASE PlanNext
  BY <1>2, PlanKeeps
<1>3. CASE EventNext
  BY <1>3, EventKeeps
<1>4. CASE UNCHANGED clubVars
  <2>1. UNCHANGED <<club, role, page, joining, joinPosts, pro, plan, today, event, rsvp>>
    BY <1>4 DEF clubVars, membership, planning, eventing
  <2>2. ClubTyped' /\ PlanDivided'
    BY <2>1 DEF ClubInv, ClubTyped, PlanDivided
  <2> QED
    BY <2>1, <2>2, MembershipKept
<1> QED
  BY <1>1, <1>2, <1>3, <1>4 DEF ClubNext

\* ClubInv holds of every club, whatever order its requests come in.
THEOREM ClubInvariant == ClubSpec => []ClubInv
<1>1. ClubInit => ClubInv
  BY ClubStarts
<1>2. ClubInv /\ [ClubNext]_clubVars => ClubInv'
  BY ClubKeeps
<1> QED
  BY <1>1, <1>2, PTL DEF ClubSpec

\* Type correctness of a club: in particular no user has more CLUB_JOINED
\* events than the joins that overlapped account for (record_club_joined).
THEOREM ClubTypeCorrect == ClubSpec => []ClubTypeOK
<1>1. ClubInv => ClubTypeOK
  BY ClubInvImplies
<1> QED
  BY <1>1, ClubInvariant, PTL

\* With any number of join requests in flight, the members exceed max_members
\* by fewer than there are requests; one at a time, they never exceed it
\* (join_by_code and join_public count the members and insert the row later).
THEOREM OverrunBounded == ClubSpec => []CapacityOverrun
<1>1. ClubInv => CapacityOverrun
  BY ClubInvImplies
<1> QED
  BY <1>1, ClubInvariant, PTL

\* For any book, any dates and any progress, 100 percent on or after the last
\* day of the plan means the book is read: the three roundings of
\* create_reading_plan and get_club_progress add up.
THEOREM FullProgressIsTheBook == ClubSpec => []FullProgressMeansRead
<1>1. ClubInv => FullProgressMeansRead
  BY ClubInvImplies
<1> QED
  BY <1>1, ClubInvariant, PTL

--------------------------------------------------------------------------------
(* Discussion *)

\* A club with its discussions: requests on the club itself come between.
ClubsNext == (ClubNext /\ UNCHANGED discussion) \/ DiscussNext
ClubsSpec == ClubInit /\ DiscussInit /\ [][ClubsNext]_discussVars

--------------------------------------------------------------------------------
(* Last of a sequence, greatest of a set                                   *)

\* Of the places where a value is named in a sequence, one is the last.
LEMMA LastPlaceExists ==
    ASSUME NEW n \in Nat, NEW S \in SUBSET (1 .. n), S # {}
    PROVE  \E i \in S : \A j \in S : j <= i
<1> DEFINE T == {n - i : i \in S}
<1>1. T \subseteq Nat /\ T # {}
  <2>1. ASSUME NEW i \in S
        PROVE  n - i \in Nat
    OBVIOUS
  <2> QED
    BY <2>1
<1>2. PICK x \in T : \A y \in T : ~(<<y, x>> \in OpToRel(<, Nat))
  BY <1>1, NatLessThanWellFounded, WFMin
<1>3. ASSUME NEW y \in T
      PROVE  ~(y < x)
  <2>1. <<y, x>> \in OpToRel(<, Nat) <=> y < x
    BY <1>1 DEF OpToRel
  <2> QED
    BY <1>2, <2>1
<1>4. PICK i \in S : x = n - i
  OBVIOUS
<1>5. ASSUME NEW j \in S
      PROVE  j <= i
  <2>1. ~(n - j < x)
    BY <1>3
  <2> QED
    BY <1>4, <2>1
<1> QED
  BY <1>5

\* A finite set of numbers that is not empty has a greatest one: a smallest
\* counterexample would lose an element and be none.
LEMMA GreatestExists ==
    ASSUME NEW S \in SUBSET Nat, IsFiniteSet(S), S # {}
    PROVE  \E n \in S : \A m \in S : m <= n
<1> DEFINE HasGreatest(X) == \E n \in X : \A m \in X : m <= n
           Bad == {X \in FiniteSubsetsOf(Nat) : X # {} /\ ~HasGreatest(X)}
<1>1. SUFFICES Bad = {}
  BY DEF FiniteSubsetsOf
<1>2. SUFFICES ASSUME Bad # {}
               PROVE  FALSE
  OBVIOUS
<1>3. PICK X \in Bad : \A Y \in Bad : ~(<<Y, X>> \in StrictSubsetOrdering(Nat))
  <2>1. Bad \subseteq FiniteSubsetsOf(Nat)
    OBVIOUS
  <2> HIDE DEF Bad
  <2> QED
    BY <1>2, <2>1, FS_StrictSubsetOrderingWellFounded, WFMin
<1>4. X \subseteq Nat /\ IsFiniteSet(X) /\ X # {} /\ ~HasGreatest(X)
  BY DEF FiniteSubsetsOf
<1>5. PICK x \in X : TRUE
  BY <1>4
<1>6. X \ {x} \subseteq Nat /\ IsFiniteSet(X \ {x})
  BY <1>4, FS_RemoveElement
<1>7. <<X \ {x}, X>> \in StrictSubsetOrdering(Nat)
  BY <1>4, <1>5 DEF StrictSubsetOrdering
<1>8. CASE X \ {x} = {}
  <2>1. X = {x}
    BY <1>5, <1>8
  <2> QED
    BY <1>4, <2>1
<1>9. CASE X \ {x} # {}
  <2>1. HasGreatest(X \ {x})
    BY <1>3, <1>6, <1>7, <1>9 DEF FiniteSubsetsOf
  <2>2. PICK n \in X \ {x} : \A m \in X \ {x} : m <= n
    BY <2>1
  <2>3. n \in Nat /\ x \in Nat
    BY <1>4
  <2>4. HasGreatest(X)
    <3>1. CASE x <= n
      BY <2>2, <3>1
    <3>2. CASE ~(x <= n)
      <4>1. \A m \in X : m <= x
        BY <1>4, <2>2, <2>3, <3>2
      <4> QED
        BY <4>1
    <3> QED
      BY <3>1, <3>2
  <2> QED
    BY <1>4, <2>4
<1> QED
  BY <1>8, <1>9

--------------------------------------------------------------------------------
(* Positions                                                               *)

LEMMA PlaceInIsLast ==
    ASSUME NEW o \in Seq(Topics), NEW t \in ToSet(o)
    PROVE  PlaceIn(o, t) \in Nat /\ PlaceIn(o, t) + 1 \in 1 .. Len(o) /\ o[PlaceIn(o, t) + 1] = t
<1> DEFINE LastAt(i) == o[i] = t /\ \A j \in i + 1 .. Len(o) : o[j] # t
           S == {i \in 1 .. Len(o) : o[i] = t}
<1>1. Len(o) \in Nat /\ S # {} /\ S \in SUBSET (1 .. Len(o))
  BY DEF ToSet
<1>2. PICK i \in S : \A j \in S : j <= i
  <2> HIDE DEF S
  <2> QED
    BY <1>1, LastPlaceExists
<1>3. \E k \in 1 .. Len(o) : LastAt(k)
  <2>1. i \in 1 .. Len(o) /\ LastAt(i)
    BY <1>1, <1>2
  <2> QED
    BY <2>1
<1>4. PICK k \in 1 .. Len(o) : k = (CHOOSE m \in 1 .. Len(o) : LastAt(m)) /\ LastAt(k)
  <2> HIDE DEF LastAt
  <2> QED
    BY <1>3
<1>5. PlaceIn(o, t) = k - 1
  BY <1>4 DEF PlaceIn
<1> QED
  BY <1>1, <1>4, <1>5

LEMMA PlacesDiffer ==
    ASSUME NEW o \in Seq(Topics), NEW t \in ToSet(o), NEW v \in ToSet(o), t # v
    PROVE  PlaceIn(o, t) # PlaceIn(o, v)
  BY PlaceInIsLast

\* The position of an appended topic lies beyond those of its agenda.
LEMMA NextPositionBeyond ==
    ASSUME NEW a \in Agendas, \A t \in Topics : topic[t].position \in Nat
    PROVE  /\ NextTopicPosition(a) \in Nat
           /\ \A t \in TopicsOf(a) : topic[t].position < NextTopicPosition(a)
<1>1. CASE TopicsOf(a) = {}
  BY <1>1 DEF NextTopicPosition
<1>2. CASE TopicsOf(a) # {}
  <2>1. IsFiniteSet(TopicsOf(a)) /\ TopicsOf(a) \subseteq Topics
    BY DiscussionAssumption, FS_Subset DEF TopicsOf
  <2>2. PICK P : P = {topic[t].position : t \in TopicsOf(a)}
    OBVIOUS
  <2>3. PICK f : f = [t \in TopicsOf(a) |-> topic[t].position]
    OBVIOUS
  <2>4. f \in Surjection(TopicsOf(a), P)
    BY <2>2, <2>3 DEF Surjection
  <2>5. IsFiniteSet(P) /\ P # {} /\ P \in SUBSET Nat
    BY <1>2, <2>1, <2>2, <2>4, FS_Surjection
  <2>6. PICK m \in P : \A k \in P : k <= m
    BY <2>5, GreatestExists
  <2>7. \E k \in P : \A t \in TopicsOf(a) : topic[t].position <= k
    BY <2>2, <2>6
  <2>8. PICK n \in P : /\ n = (CHOOSE k \in P : \A t \in TopicsOf(a) : topic[t].position <= k)
                       /\ \A t \in TopicsOf(a) : topic[t].position <= n
    BY <2>7, Zenon
  <2>9. n \in Nat /\ NextTopicPosition(a) = 1 + n
    <3>1. NextTopicPosition(a) =
              1 + CHOOSE k \in P : \A t \in TopicsOf(a) : topic[t].position <= k
      BY <1>2, <2>2, Zenon DEF NextTopicPosition
    <3> QED
      BY <2>5, <2>8, <3>1
  <2>10. ASSUME NEW t \in TopicsOf(a)
         PROVE  topic[t].position < NextTopicPosition(a)
    <3>1. topic[t].position \in Nat /\ topic[t].position <= n
      BY <2>1, <2>8
    <3> QED
      BY <2>9, <3>1
  <2> QED
    BY <2>9, <2>10
<1> QED
  BY <1>1, <1>2

--------------------------------------------------------------------------------
(* Types                                                                   *)

\* A row that was written names its author, its agenda and its topic.
RowsWritten ==
    /\ \A a \in Agendas : agenda[a].made => agenda[a].author \in Users
    /\ \A t \in Topics : topic[t].life # "unused" => topic[t].agenda \in Agendas
    /\ \A c \in Comments : comment[c].life = "live" => /\ comment[c].author \in Users
                                                       /\ comment[c].topic \in Topics

\* What a request in flight has loaded, by what it is about to do.
CallTyped(w) ==
    /\ w.op = "status" => w.session \in Sessions /\ w.status \in {"open", "closed"}
    /\ w.op = "publish" => w.agenda \in Agendas /\ w.user \in Users
    /\ w.op = "append" => w.agenda \in Agendas /\ w.topic \in Topics /\ w.position \in Nat
    /\ w.op = "reorder" => /\ w.agenda \in Agendas /\ w.order \in Seq(Topics)
                           /\ DOMAIN w.loaded = ToSet(w.order)
    /\ w.op = "comment" => /\ w.id \in Comments /\ w.topic \in Topics
                           /\ w.parent \in Comments \cup {NoComment}
                           /\ w.user \in Users /\ w.tell \subseteq Users

CallsTyped ==
    /\ call = [r \in Calls |-> call[r]]
    /\ \A r \in Calls : CallTyped(call[r])

DiscussTyped == DiscussionTypeOK /\ RowsWritten /\ CallsTyped

LEMMA StatusSteps ==
    /\ ToSet(SessionStatus) = {"draft", "open", "closed"}
    /\ \A x, y : NextStatus(x, y) <=> \/ x = "draft" /\ y = "open"
                                      \/ x = "open" /\ y = "closed"
<1>1. /\ Len(SessionStatus) = 3 /\ DOMAIN SessionStatus = 1 .. 3
      /\ SessionStatus[1] = "draft" /\ SessionStatus[2] = "open" /\ SessionStatus[3] = "closed"
  BY DEF SessionStatus
<1>2. ToSet(SessionStatus) = {SessionStatus[i] : i \in 1 .. 3}
  BY <1>1 DEF ToSet
<1>3. 1 .. 3 = {1, 2, 3} /\ 1 .. 2 = {1, 2}
  OBVIOUS
<1>4. ToSet(SessionStatus) = {"draft", "open", "closed"}
  BY <1>1, <1>2, <1>3
<1>5. ASSUME NEW x, NEW y
      PROVE  NextStatus(x, y) <=> \/ x = "draft" /\ y = "open"
                                  \/ x = "open" /\ y = "closed"
  <2>1. NextStatus(x, y) <=> \E i \in {1, 2} : SessionStatus[i] = x /\ SessionStatus[i + 1] = y
    BY <1>1, <1>3 DEF NextStatus
  <2>2. 1 + 1 = 2 /\ 2 + 1 = 3
    OBVIOUS
  <2> QED
    BY <1>1, <2>1, <2>2
<1> QED
  BY <1>4, <1>5, Zenon

LEMMA DiscussStartsTyped ==
    ASSUME DiscussInit
    PROVE  DiscussTyped
<1>1. DiscussionTypeOK
  BY StatusSteps DEF DiscussInit, DiscussionTypeOK, SessionRows, AgendaRows, AgendaStatus, TopicRows,
     CommentRows, Lives
<1>2. RowsWritten /\ CallsTyped
  BY DEF DiscussInit, RowsWritten, CallsTyped, CallTyped, Idle
<1> QED
  BY <1>1, <1>2 DEF DiscussTyped

\* A request that ends or begins leaves the others as they are.
LEMMA CallReplaced ==
    ASSUME CallsTyped, NEW r \in Calls, NEW w, CallTyped(w), call' = [call EXCEPT ![r] = w]
    PROVE  CallsTyped' /\ call'[r] = w /\ \A q \in Calls : q # r => call'[q] = call[q]
<1>1. call' = [q \in Calls |-> IF q = r THEN w ELSE call[q]]
  BY DEF CallsTyped
<1>2. \A q \in Calls : CallTyped(call'[q])
  BY <1>1 DEF CallsTyped
<1> QED
  BY <1>1, <1>2 DEF CallsTyped

LEMMA CallEnds ==
    ASSUME CallsTyped, NEW r \in Calls, call' = [call EXCEPT ![r] = Idle]
    PROVE  CallsTyped' /\ call'[r] = Idle /\ \A q \in Calls : q # r => call'[q] = call[q]
<1>1. CallTyped(Idle)
  <2>1. Idle.op = "idle"
    BY DEF Idle
  <2> QED
    BY <2>1 DEF CallTyped
<1> QED
  BY <1>1, CallReplaced

LEMMA SessionKeepsTypes ==
    ASSUME DiscussTyped, SessionNext
    PROVE  DiscussTyped'
<1> USE DEF DiscussTyped
<1>1. UNCHANGED <<agenda, topic, comment, pushed, raced>>
  BY DEF SessionNext, CreateSession, SetSessionPresenter, TransitionSession, TransitionCommitted
<1>2. /\ session' \in [Sessions -> SessionRows]
      /\ posts' \in [Sessions \cup Agendas -> Nat]
      /\ CallsTyped'
  <2> USE DEF DiscussionTypeOK, SessionRows
  <2>1. ASSUME NEW u \in Users, NEW s \in Sessions, NEW p \in Users \cup {NoUser},
               CreateSession(u, s, p) \/ SetSessionPresenter(u, s, p)
        PROVE  <1>2!:
    <3>1. UNCHANGED <<posts, call>>
      BY <2>1 DEF CreateSession, SetSessionPresenter
    <3>2. \/ session' = [session EXCEPT ![s] = [made |-> TRUE, status |-> "draft", presenter |-> p]]
          \/ session' = [session EXCEPT ![s].presenter = p]
      BY <2>1 DEF CreateSession, SetSessionPresenter
    <3>3. "draft" \in ToSet(SessionStatus)
      BY StatusSteps
    <3>4. session' \in [Sessions -> SessionRows]
      <4>1. [made |-> TRUE, status |-> "draft", presenter |-> p] \in SessionRows
        BY <3>3
      <4>2. [session[s] EXCEPT !.presenter = p] \in SessionRows
        OBVIOUS
      <4> HIDE DEF SessionRows
      <4> QED
        BY <3>2, <4>1, <4>2
    <3> QED
      BY <3>1, <3>4 DEF CallsTyped
  <2>2. ASSUME NEW r \in Calls, NEW u \in Users, NEW s \in Sessions, NEW t \in ToSet(SessionStatus),
               TransitionSession(r, u, s, t)
        PROVE  <1>2!:
    <3>1. t \in {"open", "closed"}
      BY <2>2, StatusSteps DEF TransitionSession
    <3>2. PICK w : w = [op |-> "status", session |-> s, status |-> t]
      OBVIOUS
    <3>3. CallTyped(w)
      BY <3>1, <3>2 DEF CallTyped
    <3> QED
      BY <2>2, <3>2, <3>3, CallReplaced DEF TransitionSession
  <2>3. ASSUME NEW r \in Calls, TransitionCommitted(r)
        PROVE  <1>2!:
    <3>1. call[r].session \in Sessions /\ call[r].status \in {"open", "closed"}
      BY <2>3 DEF CallsTyped, CallTyped, TransitionCommitted
    <3>2. PICK s \in Sessions, t \in {"open", "closed"} : s = call[r].session /\ t = call[r].status
      BY <3>1
    <3>3. /\ session' = [session EXCEPT ![s].status = t]
          /\ posts' = posts \/ posts' = [posts EXCEPT ![s] = @ + 1]
      BY <2>3, <3>2 DEF TransitionCommitted
    <3>4. session' \in [Sessions -> SessionRows] /\ posts' \in [Sessions \cup Agendas -> Nat]
      BY <3>3, StatusSteps
    <3> QED
      BY <2>3, <3>4, CallEnds DEF TransitionCommitted
  <2> QED
    BY <2>1, <2>2, <2>3 DEF SessionNext
<1> QED
  BY <1>1, <1>2 DEF DiscussionTypeOK, RowsWritten

LEMMA AgendaKeepsTypes ==
    ASSUME DiscussTyped, AgendaNext
    PROVE  DiscussTyped'
<1> USE DEF DiscussTyped
<1>1. UNCHANGED <<session, topic, comment, raced>>
  BY DEF AgendaNext, CreateAgenda, UpdateAgenda, PublishAgenda, AgendaPublished
<1>2. /\ agenda' \in [Agendas -> AgendaRows]
      /\ \A a \in Agendas : agenda'[a].made => agenda'[a].author \in Users
      /\ posts' \in [Sessions \cup Agendas -> Nat]
      /\ pushed' \in [Agendas \cup Comments -> SUBSET Users]
      /\ CallsTyped'
  <2> USE DEF DiscussionTypeOK, RowsWritten, AgendaRows, AgendaStatus
  <2>1. ASSUME NEW u \in Users, NEW s \in Sessions, NEW a \in Agendas, CreateAgenda(u, s, a)
        PROVE  <1>2!:
    <3>1. UNCHANGED <<posts, pushed, call>>
      BY <2>1 DEF CreateAgenda
    <3> QED
      BY <2>1, <3>1 DEF CreateAgenda, CallsTyped
  <2>2. ASSUME NEW u \in Users, NEW a \in Agendas, UpdateAgenda(u, a)
        PROVE  <1>2!:
    <3>1. UNCHANGED <<posts, pushed, call>>
      BY <2>2 DEF UpdateAgenda
    <3> QED
      BY <2>2, <3>1, ZenonT(60) DEF UpdateAgenda, CallsTyped
  <2>3. ASSUME NEW r \in Calls, NEW u \in Users, NEW a \in Agendas, PublishAgenda(r, u, a)
        PROVE  <1>2!:
    <3>1. PICK w : w = [op |-> "publish", agenda |-> a, user |-> u]
      OBVIOUS
    <3>2. CallTyped(w)
      BY <3>1 DEF CallTyped
    <3> QED
      BY <2>3, <3>1, <3>2, CallReplaced DEF PublishAgenda
  <2>4. ASSUME NEW r \in Calls, NEW c \in BOOLEAN, AgendaPublished(r, c)
        PROVE  <1>2!:
    <3>1. call[r].agenda \in Agendas /\ call[r].user \in Users
      BY <2>4 DEF CallsTyped, CallTyped, AgendaPublished
    <3>2. PICK a \in Agendas : a = call[r].agenda
      BY <3>1
    <3>3. PICK S \in SUBSET Users : S = OtherMembers(call[r].user)
      BY DEF OtherMembers, ClubMembers
    <3>4. pushed' \in [Agendas \cup Comments -> SUBSET Users]
      <4>1. pushed' = [pushed EXCEPT ![a] = @ \cup S]
        BY <2>4, <3>2, <3>3 DEF AgendaPublished
      <4> QED
        BY <4>1
    <3>5. /\ agenda' = agenda \/ agenda' = [agenda EXCEPT ![a].status = "published"]
          /\ posts' = posts \/ posts' = [posts EXCEPT ![a] = @ + 1]
      BY <2>4, <3>2 DEF AgendaPublished
    <3>6. CallsTyped'
      BY <2>4, CallEnds DEF AgendaPublished
    <3>7. /\ agenda' \in [Agendas -> AgendaRows]
          /\ \A x \in Agendas : agenda'[x].made => agenda'[x].author \in Users
      BY <3>5
    <3>8. posts' \in [Sessions \cup Agendas -> Nat]
      BY <3>5
    <3> QED
      BY <3>4, <3>6, <3>7, <3>8
  <2> QED
    BY <2>1, <2>2, <2>3, <2>4 DEF AgendaNext
<1> QED
  BY <1>1, <1>2 DEF DiscussionTypeOK, RowsWritten

\* A permutation that may repeat topics is a sequence of the agenda's topics.
LEMMA OrdersAreSequences ==
    ASSUME NEW a \in Agendas, NEW o \in Orders(a)
    PROVE  o \in Seq(Topics) /\ ToSet(o) = TopicsOf(a)
<1>1. Cardinality(TopicsOf(a)) \in Nat
  BY DiscussionAssumption, FS_Subset, FS_CardinalityType DEF TopicsOf
<1>2. PICK k \in Nat : o \in [1 .. k -> TopicsOf(a)]
  BY <1>1 DEF Orders
<1>3. TopicsOf(a) \subseteq Topics
  BY DEF TopicsOf
<1>4. o \in Seq(Topics)
  BY <1>2, <1>3
<1> QED
  BY <1>4 DEF Orders

\* Rows that are only marked edited or gone stay rows.
LEMMA CommentsTouched ==
    ASSUME DiscussTyped, comment' = [c \in Comments |-> comment'[c]],
           \A c \in Comments : \/ comment'[c] = comment[c]
                               \/ comment'[c] = [comment[c] EXCEPT !.life = "gone"]
                               \/ comment'[c] = [comment[c] EXCEPT !.edited = TRUE]
    PROVE  /\ comment' \in [Comments -> CommentRows]
           /\ \A c \in Comments : comment'[c].life = "live" =>
                  comment'[c].author \in Users /\ comment'[c].topic \in Topics
<1>1. ASSUME NEW c \in Comments
      PROVE  /\ comment'[c] \in CommentRows
             /\ comment'[c].life = "live" => comment'[c].author \in Users /\ comment'[c].topic \in Topics
  <2>1. /\ comment[c] \in CommentRows
        /\ comment[c].life = "live" => comment[c].author \in Users /\ comment[c].topic \in Topics
    BY DEF DiscussTyped, DiscussionTypeOK, RowsWritten
  <2>2. CASE comment'[c] = comment[c]
    BY <2>1, <2>2
  <2>3. CASE comment'[c] = [comment[c] EXCEPT !.life = "gone"]
    BY <2>1, <2>3 DEF CommentRows, Lives
  <2>4. CASE comment'[c] = [comment[c] EXCEPT !.edited = TRUE]
    BY <2>1, <2>4 DEF CommentRows
  <2> QED
    BY <2>2, <2>3, <2>4
<1> QED
  BY <1>1

LEMMA TopicKeepsTypes ==
    ASSUME DiscussTyped, TopicNext
    PROVE  DiscussTyped'
<1> USE DEF DiscussTyped
<1>1. UNCHANGED <<session, agenda, posts, pushed>>
  BY ZenonT(60) DEF TopicNext, AddTopic, UpdateTopic, DeleteTopic, ReorderTopics, TopicAdded, TopicsReordered
<1>2. /\ topic' \in [Topics -> TopicRows]
      /\ \A t \in Topics : topic'[t].life # "unused" => topic'[t].agenda \in Agendas
      /\ comment' \in [Comments -> CommentRows]
      /\ \A c \in Comments : comment'[c].life = "live" =>
             comment'[c].author \in Users /\ comment'[c].topic \in Topics
      /\ CallsTyped'
  <2> USE DEF DiscussionTypeOK, RowsWritten, TopicRows, CommentRows, Lives
  <2>1. ASSUME NEW r \in Calls, NEW u \in Users, NEW a \in Agendas, NEW t \in Topics, AddTopic(r, u, a, t)
        PROVE  <1>2!:
    <3>1. NextTopicPosition(a) \in Nat
      BY NextPositionBeyond
    <3>2. PICK w : w = [op |-> "append", agenda |-> a, topic |-> t, position |-> NextTopicPosition(a)]
      OBVIOUS
    <3>3. CallTyped(w)
      BY <3>1, <3>2 DEF CallTyped
    <3>4. CallsTyped'
      BY <2>1, <3>2, <3>3, CallReplaced DEF AddTopic
    <3>5. UNCHANGED <<topic, comment>>
      BY <2>1 DEF AddTopic
    <3> QED
      BY <3>4, <3>5
  <2>2. ASSUME NEW u \in Users, NEW a \in Agendas, NEW t \in Topics,
               UpdateTopic(u, a, t) \/ DeleteTopic(u, a, t)
        PROVE  <1>2!:
    <3>1. \/ topic' = [topic EXCEPT ![t].edited = TRUE] /\ comment' = comment
          \/ /\ topic' = [topic EXCEPT ![t].life = "gone"]
             /\ comment' = [c \in Comments |->
                               IF comment[c].life = "live" /\ comment[c].topic = t
                               THEN [comment[c] EXCEPT !.life = "gone"] ELSE comment[c]]
      BY <2>2 DEF UpdateTopic, DeleteTopic
    <3>2. topic[t].life = "live"
      BY <2>2 DEF UpdateTopic, DeleteTopic, TopicsOf
    <3>3. /\ topic' \in [Topics -> TopicRows]
          /\ \A v \in Topics : topic'[v].life # "unused" => topic'[v].agenda \in Agendas
      <4>1. \/ topic' = [topic EXCEPT ![t].edited = TRUE]
            \/ topic' = [topic EXCEPT ![t].life = "gone"]
        BY <3>1
      <4>2. CASE topic' = [topic EXCEPT ![t].edited = TRUE]
        BY <3>2, <4>2, ZenonT(60)
      <4>3. CASE topic' = [topic EXCEPT ![t].life = "gone"]
        BY <3>2, <4>3
      <4> QED
        BY <4>1, <4>2, <4>3
    <3>4. /\ comment' \in [Comments -> CommentRows]
          /\ \A c \in Comments : comment'[c].life = "live" =>
                 comment'[c].author \in Users /\ comment'[c].topic \in Topics
      BY <3>1, CommentsTouched
    <3>5. call' = call
      BY <2>2 DEF UpdateTopic, DeleteTopic
    <3> QED
      BY <3>3, <3>4, <3>5 DEF CallsTyped
  <2>3. ASSUME NEW r \in Calls, NEW u \in Users, NEW a \in Agendas, ReorderTopics(r, u, a)
        PROVE  <1>2!:
    <3>1. PICK o \in Orders(a) :
              call' = [call EXCEPT ![r] = [op |-> "reorder", agenda |-> a, order |-> o,
                                           loaded |-> [t \in TopicsOf(a) |-> topic[t].position]]]
      BY <2>3 DEF ReorderTopics
    <3>2. o \in Seq(Topics) /\ ToSet(o) = TopicsOf(a)
      BY OrdersAreSequences
    <3>3. PICK w : w = [op |-> "reorder", agenda |-> a, order |-> o,
                        loaded |-> [t \in TopicsOf(a) |-> topic[t].position]]
      OBVIOUS
    <3>4. CallTyped(w)
      BY <3>2, <3>3 DEF CallTyped
    <3>5. CallsTyped'
      BY <3>1, <3>3, <3>4, CallReplaced
    <3>6. UNCHANGED <<topic, comment>>
      BY <2>3 DEF ReorderTopics
    <3> QED
      BY <3>5, <3>6
  <2>4. ASSUME NEW r \in Calls, TopicAdded(r)
        PROVE  <1>2!:
    <3>1. PICK v \in Topics, a \in Agendas, n \in Nat :
              v = call[r].topic /\ a = call[r].agenda /\ n = call[r].position
      BY <2>4 DEF TopicAdded, CallsTyped, CallTyped
    <3>2. topic' = [topic EXCEPT ![v] = [life |-> "live", agenda |-> a, position |-> n,
                                         edited |-> FALSE]]
      BY <2>4, <3>1 DEF TopicAdded
    <3>3. /\ topic' \in [Topics -> TopicRows]
          /\ \A t \in Topics : topic'[t].life # "unused" => topic'[t].agenda \in Agendas
      BY <3>2
    <3>4. CallsTyped' /\ comment' = comment
      BY <2>4, CallEnds DEF TopicAdded
    <3> QED
      BY <3>3, <3>4
  <2>5. ASSUME NEW r \in Calls, TopicsReordered(r)
        PROVE  <1>2!:
    <3>1. PICK o, old : /\ o \in Seq(Topics) /\ o = call[r].order
                        /\ old = call[r].loaded /\ DOMAIN old = ToSet(o)
      BY <2>5 DEF TopicsReordered, CallsTyped, CallTyped
    <3>2. \A t \in ToSet(o) : PlaceIn(o, t) \in Nat
      BY <3>1, PlaceInIsLast
    <3>3. topic' = [t \in Topics |->
                       IF t \in {v \in DOMAIN old : PlaceIn(o, v) # old[v]} /\ topic[t].life = "live"
                       THEN [topic[t] EXCEPT !.position = PlaceIn(o, t)] ELSE topic[t]]
      BY <2>5, <3>1 DEF TopicsReordered
    <3>4. /\ topic' \in [Topics -> TopicRows]
          /\ \A t \in Topics : topic'[t].life # "unused" => topic'[t].agenda \in Agendas
      BY <3>1, <3>2, <3>3, ZenonT(60)
    <3>5. CallsTyped' /\ comment' = comment
      BY <2>5, CallEnds DEF TopicsReordered
    <3> QED
      BY <3>4, <3>5
  <2> QED
    BY <2>1, <2>2, <2>3, <2>4, <2>5 DEF TopicNext
<1>3. raced' \subseteq Agendas
  <2>1. ASSUME NEW a \in Agendas, NoteRace(a)
        PROVE  raced' \subseteq Agendas
    BY <2>1 DEF NoteRace, DiscussionTypeOK
  <2>2. ASSUME NEW r \in Calls, TopicsReordered(r)
        PROVE  raced' \subseteq raced
    BY <2>2 DEF TopicsReordered
  <2>3. \/ UNCHANGED raced
        \/ \E a \in Agendas : NoteRace(a)
        \/ \E r \in Calls : TopicsReordered(r)
    BY DEF TopicNext, AddTopic, UpdateTopic, DeleteTopic, ReorderTopics, TopicAdded
  <2> QED
    BY <2>1, <2>2, <2>3 DEF DiscussionTypeOK
<1> QED
  BY <1>1, <1>2, <1>3 DEF DiscussionTypeOK, RowsWritten

LEMMA CommentKeepsTypes ==
    ASSUME DiscussTyped, CommentNext
    PROVE  DiscussTyped'
<1> USE DEF DiscussTyped
<1>1. UNCHANGED <<session, agenda, topic, posts, raced>>
  BY DEF CommentNext, AddComment, CommentAdded, UpdateComment, DeleteComment
<1>2. /\ comment' \in [Comments -> CommentRows]
      /\ \A c \in Comments : comment'[c].life = "live" =>
             comment'[c].author \in Users /\ comment'[c].topic \in Topics
      /\ pushed' \in [Agendas \cup Comments -> SUBSET Users]
      /\ CallsTyped'
  <2> USE DEF DiscussionTypeOK, RowsWritten, CommentRows, Lives
  <2>1. ASSUME NEW r \in Calls, NEW u \in Users, NEW t \in Topics, NEW p \in Comments \cup {NoComment},
               NEW c \in Comments, AddComment(r, u, t, p, c)
        PROVE  <1>2!:
    <3>1. agenda[topic[t].agenda].author \in Users
      BY <2>1 DEF AddComment, TopicShown, InSession
    <3>2. p # NoComment => comment[p].author \in Users
      BY <2>1 DEF AddComment, MayAnswer, CommentsOf
    <3>3. PICK S \in SUBSET Users :
              S = ({agenda[topic[t].agenda].author}
                   \cup (IF p = NoComment THEN {} ELSE {comment[p].author})) \ {u}
      BY <3>1, <3>2
    <3>4. PICK w : w = [op |-> "comment", id |-> c, topic |-> t, parent |-> p, user |-> u, tell |-> S]
      OBVIOUS
    <3>5. CallTyped(w)
      BY <3>4 DEF CallTyped
    <3>6. CallsTyped'
      BY <2>1, <3>3, <3>4, <3>5, CallReplaced DEF AddComment
    <3>7. UNCHANGED <<comment, pushed>>
      BY <2>1 DEF AddComment
    <3> QED
      BY <3>6, <3>7
  <2>2. ASSUME NEW r \in Calls, NEW b \in BOOLEAN, CommentAdded(r, b)
        PROVE  <1>2!:
    <3>1. PICK c \in Comments, t \in Topics, p \in Comments \cup {NoComment}, u \in Users,
               S \in SUBSET Users, l \in {"live", "gone"} :
              /\ c = call[r].id /\ t = call[r].topic /\ p = call[r].parent /\ u = call[r].user
              /\ S = call[r].tell /\ l = IF b THEN "live" ELSE "gone"
      BY <2>2 DEF CommentAdded, CallsTyped, CallTyped
    <3>2. /\ comment' = [comment EXCEPT ![c] = [life |-> l, topic |-> t, author |-> u, parent |-> p,
                                                edited |-> FALSE]]
          /\ pushed' = [pushed EXCEPT ![c] = S]
      BY <2>2, <3>1 DEF CommentAdded
    <3>3. /\ comment' \in [Comments -> CommentRows]
          /\ \A x \in Comments : comment'[x].life = "live" =>
                 comment'[x].author \in Users /\ comment'[x].topic \in Topics
      BY <3>2
    <3>4. pushed' \in [Agendas \cup Comments -> SUBSET Users]
      BY <3>2
    <3>5. CallsTyped'
      BY <2>2, CallEnds DEF CommentAdded
    <3> QED
      BY <3>3, <3>4, <3>5
  <2>3. ASSUME NEW u \in Users, NEW c \in Comments, UpdateComment(u, c) \/ DeleteComment(u, c)
        PROVE  <1>2!:
    <3>1. \/ comment' = [comment EXCEPT ![c].edited = TRUE]
          \/ comment' = [d \in Comments |->
                            IF comment[d].life = "live" /\ (d = c \/ comment[d].parent = c)
                            THEN [comment[d] EXCEPT !.life = "gone"] ELSE comment[d]]
      BY <2>3 DEF UpdateComment, DeleteComment
    <3>2. /\ comment' \in [Comments -> CommentRows]
          /\ \A x \in Comments : comment'[x].life = "live" =>
                 comment'[x].author \in Users /\ comment'[x].topic \in Topics
      <4>1. CASE comment' = [comment EXCEPT ![c].edited = TRUE]
        BY <4>1, ZenonT(60)
      <4>2. CASE comment' = [d \in Comments |->
                                IF comment[d].life = "live" /\ (d = c \/ comment[d].parent = c)
                                THEN [comment[d] EXCEPT !.life = "gone"] ELSE comment[d]]
        BY <4>2, CommentsTouched
      <4> QED
        BY <3>1, <4>1, <4>2
    <3>3. UNCHANGED <<pushed, call>>
      BY <2>3 DEF UpdateComment, DeleteComment
    <3> QED
      BY <3>2, <3>3 DEF CallsTyped
  <2> QED
    BY <2>1, <2>2, <2>3 DEF CommentNext
<1> QED
  BY <1>1, <1>2 DEF DiscussionTypeOK, RowsWritten

LEMMA DiscussKeepsTypes ==
    ASSUME DiscussTyped, [ClubsNext]_discussVars
    PROVE  DiscussTyped'
<1>1. CASE \E r \in Calls : CallLost(r)
  BY <1>1, CallEnds DEF CallLost, DiscussTyped, DiscussionTypeOK, RowsWritten
<1>2. CASE UNCHANGED discussion
  BY <1>2 DEF discussion, DiscussTyped, DiscussionTypeOK, RowsWritten, CallsTyped
<1> QED
  BY <1>1, <1>2, SessionKeepsTypes, AgendaKeepsTypes, TopicKeepsTypes, CommentKeepsTypes
  DEF ClubsNext, DiscussNext, discussVars

--------------------------------------------------------------------------------
(* Which requests a part begins and ends                                   *)

CallsOf(ops) == \A q \in Calls : call'[q] = call[q] \/ call'[q].op \in ops \cup {"idle"}

LEMMA OneCallMoves ==
    ASSUME CallsTyped, NEW r \in Calls, NEW w, call' = [call EXCEPT ![r] = w]
    PROVE  call'[r] = w /\ \A q \in Calls : q # r => call'[q] = call[q]
  BY DEF CallsTyped

LEMMA PartsMoveTheirCalls ==
    ASSUME DiscussTyped
    PROVE  /\ SessionNext => CallsOf({"status"})
           /\ AgendaNext => CallsOf({"publish"})
           /\ TopicNext => CallsOf({"append", "reorder"})
           /\ CommentNext => CallsOf({"comment"})
           /\ (\E r \in Calls : CallLost(r)) => CallsOf({})
<1> USE DEF DiscussTyped, CallsOf
<1>1. ASSUME NEW r \in Calls, call' = [call EXCEPT ![r] = Idle]
      PROVE  CallsOf({})
  BY <1>1, OneCallMoves DEF Idle
<1>2. ASSUME SessionNext
      PROVE  CallsOf({"status"})
  <2>1. ASSUME NEW r \in Calls, NEW u \in Users, NEW s \in Sessions, NEW t, TransitionSession(r, u, s, t)
        PROVE  CallsOf({"status"})
    BY <2>1, OneCallMoves DEF TransitionSession
  <2>2. ASSUME NEW r \in Calls, TransitionCommitted(r)
        PROVE  CallsOf({"status"})
    BY <1>1, <2>2 DEF TransitionCommitted
  <2> QED
    BY <1>2, <2>1, <2>2 DEF SessionNext, CreateSession, SetSessionPresenter
<1>3. ASSUME AgendaNext
      PROVE  CallsOf({"publish"})
  <2>1. ASSUME NEW r \in Calls, NEW u \in Users, NEW a \in Agendas, PublishAgenda(r, u, a)
        PROVE  CallsOf({"publish"})
    BY <2>1, OneCallMoves DEF PublishAgenda
  <2>2. ASSUME NEW r \in Calls, NEW c \in BOOLEAN, AgendaPublished(r, c)
        PROVE  CallsOf({"publish"})
    BY <1>1, <2>2 DEF AgendaPublished
  <2> QED
    BY <1>3, <2>1, <2>2 DEF AgendaNext, CreateAgenda, UpdateAgenda
<1>4. ASSUME TopicNext
      PROVE  CallsOf({"append", "reorder"})
  <2>1. ASSUME NEW r \in Calls, NEW u \in Users, NEW a \in Agendas, NEW t \in Topics, AddTopic(r, u, a, t)
        PROVE  CallsOf({"append", "reorder"})
    BY <2>1, OneCallMoves DEF AddTopic
  <2>2. ASSUME NEW r \in Calls, NEW u \in Users, NEW a \in Agendas, ReorderTopics(r, u, a)
        PROVE  CallsOf({"append", "reorder"})
    <3>1. PICK o, p : call' = [call EXCEPT ![r] = [op |-> "reorder", agenda |-> a, order |-> o,
                                                   loaded |-> p]]
      BY <2>2 DEF ReorderTopics
    <3> QED
      BY <3>1, OneCallMoves
  <2>3. ASSUME NEW r \in Calls, TopicAdded(r) \/ TopicsReordered(r)
        PROVE  CallsOf({"append", "reorder"})
    BY <1>1, <2>3 DEF TopicAdded, TopicsReordered
  <2> QED
    BY <1>4, <2>1, <2>2, <2>3 DEF TopicNext, UpdateTopic, DeleteTopic
<1>5. ASSUME CommentNext
      PROVE  CallsOf({"comment"})
  <2>1. ASSUME NEW r \in Calls, NEW u \in Users, NEW t \in Topics, NEW p \in Comments \cup {NoComment},
               NEW c \in Comments, AddComment(r, u, t, p, c)
        PROVE  CallsOf({"comment"})
    <3>1. PICK S : call' = [call EXCEPT ![r] = [op |-> "comment", id |-> c, topic |-> t, parent |-> p,
                                                user |-> u, tell |-> S]]
      BY <2>1 DEF AddComment
    <3> QED
      BY <3>1, OneCallMoves
  <2>2. ASSUME NEW r \in Calls, NEW b \in BOOLEAN, CommentAdded(r, b)
        PROVE  CallsOf({"comment"})
    BY <1>1, <2>2 DEF CommentAdded
  <2> QED
    BY <1>5, <2>1, <2>2 DEF CommentNext, UpdateComment, DeleteComment
<1>6. (\E r \in Calls : CallLost(r)) => CallsOf({})
  BY <1>1 DEF CallLost
<1> QED
  BY <1>2, <1>3, <1>4, <1>5, <1>6

--------------------------------------------------------------------------------
(* The feed                                                                *)

\* A session or agenda that is not made is a draft; a request to close a session
\* saw it open, which its feed event had told.
RequestsGrounded ==
    /\ \A s \in Sessions : ~session[s].made => session[s].status = "draft"
    /\ \A a \in Agendas : ~agenda[a].made => agenda[a].status = "draft"
    /\ \A r \in Calls : call[r].op = "status" =>
          /\ session[call[r].session].made
          /\ call[r].status = "closed" => posts[call[r].session] > 0
    /\ \A r \in Calls : call[r].op = "publish" => agenda[call[r].agenda].made

FeedInv == FeedTellsTheTruth /\ RequestsGrounded

LEMMA FeedKept ==
    ASSUME FeedInv, UNCHANGED <<session, agenda, posts>>, NEW ops,
           "status" \notin ops, "publish" \notin ops, CallsOf(ops)
    PROVE  FeedInv'
<1>1. \A q \in Calls : call'[q].op \in {"status", "publish"} => call'[q] = call[q]
  BY DEF CallsOf
<1> QED
  BY <1>1 DEF FeedInv, FeedTellsTheTruth, RequestsGrounded

LEMMA SessionKeepsFeed ==
    ASSUME DiscussTyped, FeedInv, SessionNext
    PROVE  FeedInv'
<1> USE DEF FeedInv, FeedTellsTheTruth, RequestsGrounded
<1>1. ASSUME NEW u \in Users, NEW s \in Sessions, NEW p \in Users \cup {NoUser},
             CreateSession(u, s, p) \/ SetSessionPresenter(u, s, p)
      PROVE  FeedInv'
  <2>1. UNCHANGED <<agenda, posts, call>>
    BY <1>1 DEF CreateSession, SetSessionPresenter
  <2>2. \A x \in Sessions : /\ session'[x].status = session[x].status
                            /\ session[x].made => session'[x].made
    <3>1. CASE CreateSession(u, s, p)
      <4>1. session' = [session EXCEPT ![s] = [made |-> TRUE, status |-> "draft", presenter |-> p]]
        BY <3>1 DEF CreateSession
      <4>2. session[s].status = "draft"
        BY <3>1 DEF CreateSession
      <4> QED
        BY <4>1, <4>2 DEF DiscussTyped, DiscussionTypeOK
    <3>2. CASE SetSessionPresenter(u, s, p)
      <4>1. session' = [session EXCEPT ![s].presenter = p]
        BY <3>2 DEF SetSessionPresenter
      <4> QED
        BY <4>1 DEF DiscussTyped, DiscussionTypeOK, SessionRows
    <3> QED
      BY <1>1, <3>1, <3>2
  <2>3. \A r \in Calls : call[r].op = "status" => call[r].session \in Sessions
    BY DEF DiscussTyped, CallsTyped, CallTyped
  <2> QED
    BY <2>1, <2>2, <2>3
<1>2. ASSUME NEW r \in Calls, NEW u \in Users, NEW s \in Sessions, NEW t \in ToSet(SessionStatus),
             TransitionSession(r, u, s, t)
      PROVE  FeedInv'
  <2>1. UNCHANGED <<session, agenda, posts>>
    BY <1>2 DEF TransitionSession
  <2>2. /\ call'[r] = [op |-> "status", session |-> s, status |-> t]
        /\ \A q \in Calls : q # r => call'[q] = call[q]
    BY <1>2, OneCallMoves DEF TransitionSession, DiscussTyped
  <2>3. session[s].made /\ (t = "closed" => session[s].status = "open")
    BY <1>2, StatusSteps DEF TransitionSession
  <2> QED
    BY <2>1, <2>2, <2>3
<1>3. ASSUME NEW r \in Calls, TransitionCommitted(r)
      PROVE  FeedInv'
  <2>1. PICK s \in Sessions, t \in {"open", "closed"} : s = call[r].session /\ t = call[r].status
    BY <1>3 DEF TransitionCommitted, DiscussTyped, CallsTyped, CallTyped
  <2>2. /\ agenda' = agenda
        /\ session' = [session EXCEPT ![s].status = t]
        /\ posts' = IF t = "open" THEN [posts EXCEPT ![s] = @ + 1] ELSE posts
    BY <1>3, <2>1 DEF TransitionCommitted
  <2>3. call'[r] = Idle /\ \A q \in Calls : q # r => call'[q] = call[q]
    BY <1>3, CallEnds DEF TransitionCommitted, DiscussTyped
  <2>4. session[s].made /\ (t = "closed" => posts[s] > 0) /\ posts[s] \in Nat
    BY <1>3, <2>1 DEF TransitionCommitted, DiscussTyped, DiscussionTypeOK
  <2>5. /\ session'[s].status = t /\ session'[s].made
        /\ \A x \in Sessions : x # s => session'[x] = session[x]
    BY <2>2, <2>4 DEF DiscussTyped, DiscussionTypeOK, SessionRows
  <2>6. /\ posts'[s] > 0
        /\ \A x \in Sessions \cup Agendas : x # s => posts'[x] = posts[x]
    BY <2>1, <2>2, <2>4 DEF DiscussTyped, DiscussionTypeOK
  <2>7. \A a \in Agendas : a # s
    BY DiscussionAssumption
  <2>8. FeedTellsTheTruth'
    BY <2>2, <2>5, <2>6, <2>7
  <2>9. \A q \in Calls : call'[q].op = "status" => /\ call[q] = call'[q]
                                                   /\ call[q].session \in Sessions
    BY <2>3 DEF Idle, DiscussTyped, CallsTyped, CallTyped
  <2>10. \A q \in Calls : call'[q].op = "publish" => call[q] = call'[q]
    BY <2>3 DEF Idle
  <2>11. RequestsGrounded'
    BY <2>2, <2>5, <2>6, <2>9, <2>10
  <2> QED
    BY <2>8, <2>11
<1> QED
  BY <1>1, <1>2, <1>3 DEF SessionNext

LEMMA AgendaKeepsFeed ==
    ASSUME DiscussTyped, FeedInv, AgendaNext
    PROVE  FeedInv'
<1> USE DEF FeedInv, FeedTellsTheTruth, RequestsGrounded
<1>1. ASSUME NEW u \in Users, NEW s, NEW a \in Agendas, CreateAgenda(u, s, a) \/ UpdateAgenda(u, a)
      PROVE  FeedInv'
  <2>1. UNCHANGED <<session, posts, call>>
    BY <1>1 DEF CreateAgenda, UpdateAgenda
  <2>2. \A x \in Agendas : /\ agenda'[x].status = agenda[x].status
                           /\ agenda[x].made => agenda'[x].made
    <3>1. CASE CreateAgenda(u, s, a)
      <4>1. agenda' = [agenda EXCEPT ![a] = [made |-> TRUE, session |-> s, author |-> u,
                                             status |-> "draft", edited |-> FALSE]]
        BY <3>1 DEF CreateAgenda
      <4>2. agenda[a].status = "draft"
        BY <3>1 DEF CreateAgenda
      <4> QED
        BY <4>1, <4>2 DEF DiscussTyped, DiscussionTypeOK
    <3>2. CASE UpdateAgenda(u, a)
      <4>1. agenda' = [agenda EXCEPT ![a].edited = TRUE]
        BY <3>2 DEF UpdateAgenda
      <4> QED
        BY <4>1 DEF DiscussTyped, DiscussionTypeOK, AgendaRows
    <3> QED
      BY <1>1, <3>1, <3>2
  <2>3. \A r \in Calls : call[r].op = "publish" => call[r].agenda \in Agendas
    BY DEF DiscussTyped, CallsTyped, CallTyped
  <2> QED
    BY <2>1, <2>2, <2>3
<1>2. ASSUME NEW r \in Calls, NEW u \in Users, NEW a \in Agendas, PublishAgenda(r, u, a)
      PROVE  FeedInv'
  <2>1. UNCHANGED <<session, agenda, posts>>
    BY <1>2 DEF PublishAgenda
  <2>2. /\ call'[r] = [op |-> "publish", agenda |-> a, user |-> u]
        /\ \A q \in Calls : q # r => call'[q] = call[q]
    BY <1>2, OneCallMoves DEF PublishAgenda, DiscussTyped
  <2>3. agenda[a].made
    BY <1>2 DEF PublishAgenda, InSession
  <2> QED
    BY <2>1, <2>2, <2>3
<1>3. ASSUME NEW r \in Calls, NEW c \in BOOLEAN, AgendaPublished(r, c)
      PROVE  FeedInv'
  <2>1. PICK a \in Agendas : a = call[r].agenda
    BY <1>3 DEF AgendaPublished, DiscussTyped, CallsTyped, CallTyped
  <2>2. /\ session' = session
        /\ \/ agenda' = [agenda EXCEPT ![a].status = "published"] /\ posts' = [posts EXCEPT ![a] = @ + 1]
           \/ agenda' = agenda /\ posts' = posts
    BY <1>3, <2>1 DEF AgendaPublished
  <2>3. call'[r] = Idle /\ \A q \in Calls : q # r => call'[q] = call[q]
    BY <1>3, CallEnds DEF AgendaPublished, DiscussTyped
  <2>4. \A q \in Calls : call'[q].op \in {"status", "publish"} => call[q] = call'[q]
    BY <2>3 DEF Idle
  <2>5. CASE agenda' = agenda /\ posts' = posts
    BY <2>2, <2>4, <2>5
  <2>6. CASE agenda' = [agenda EXCEPT ![a].status = "published"] /\ posts' = [posts EXCEPT ![a] = @ + 1]
    <3>1. agenda[a].made /\ posts[a] \in Nat
      BY <1>3, <2>1 DEF AgendaPublished, DiscussTyped, DiscussionTypeOK
    <3>2. /\ agenda'[a].status = "published" /\ agenda'[a].made
          /\ \A x \in Agendas : x # a => agenda'[x] = agenda[x]
      BY <2>6, <3>1 DEF DiscussTyped, DiscussionTypeOK, AgendaRows
    <3>3. /\ posts'[a] > 0
          /\ \A x \in Sessions \cup Agendas : x # a => posts'[x] = posts[x]
      BY <2>6, <3>1 DEF DiscussTyped, DiscussionTypeOK
    <3>4. \A s \in Sessions : s # a
      BY DiscussionAssumption
    <3>5. FeedTellsTheTruth'
      BY <2>2, <3>2, <3>3, <3>4
    <3>6. \A q \in Calls : /\ call[q].op = "status" => call[q].session \in Sessions
                           /\ call[q].op = "publish" => call[q].agenda \in Agendas
      BY DEF DiscussTyped, CallsTyped, CallTyped
    <3>7. RequestsGrounded'
      BY <2>2, <2>4, <3>2, <3>3, <3>4, <3>6
    <3> QED
      BY <3>5, <3>7
  <2> QED
    BY <2>2, <2>5, <2>6
<1> QED
  BY <1>1, <1>2, <1>3 DEF AgendaNext

LEMMA DiscussKeepsFeed ==
    ASSUME DiscussTyped, FeedInv, [ClubsNext]_discussVars
    PROVE  FeedInv'
<1>1. ASSUME TopicNext \/ CommentNext \/ (\E r \in Calls : CallLost(r))
      PROVE  FeedInv'
  <2>1. UNCHANGED <<session, agenda, posts>>
    BY <1>1, ZenonT(60) DEF TopicNext, AddTopic, UpdateTopic, DeleteTopic, ReorderTopics, TopicAdded, TopicsReordered,
       CommentNext, AddComment, CommentAdded, UpdateComment, DeleteComment, CallLost
  <2>2. CallsOf({"append", "reorder"}) \/ CallsOf({"comment"}) \/ CallsOf({})
    BY <1>1, PartsMoveTheirCalls
  <2> QED
    BY <2>1, <2>2, FeedKept
<1>2. CASE UNCHANGED discussion
  <2>1. UNCHANGED <<session, agenda, posts>> /\ CallsOf({})
    BY <1>2 DEF discussion, CallsOf
  <2> QED
    BY <2>1, FeedKept
<1> QED
  BY <1>1, <1>2, SessionKeepsFeed, AgendaKeepsFeed DEF ClubsNext, DiscussNext, discussVars

--------------------------------------------------------------------------------
(* Threads                                                                 *)

\* p can carry replies on topic t.
Root(p, t) == comment[p].topic = t /\ comment[p].parent = NoComment

RepliesRooted ==
    \A c \in Comments : comment[c].life = "live" /\ comment[c].parent # NoComment =>
        /\ comment[comment[c].parent].life = "live"
        /\ Root(comment[c].parent, comment[c].topic)

\* The id a request will insert is its own, and what it answers was written:
\* it can only be gone by now.
CommentsUnderway ==
    /\ \A r \in Calls : call[r].op = "comment" =>
          /\ comment[call[r].id].life = "unused"
          /\ call[r].parent # NoComment => /\ comment[call[r].parent].life # "unused"
                                           /\ Root(call[r].parent, call[r].topic)
    /\ \A r, q \in Calls : (r # q /\ call[r].op = "comment" /\ call[q].op = "comment") =>
          call[r].id # call[q].id

ThreadsInv == RepliesRooted /\ CommentsUnderway

LEMMA ThreadsComplete ==
    ASSUME DiscussTyped, ThreadsInv
    PROVE  NothingLostFromThreads
<1> SUFFICES ASSUME NEW t \in Topics
             PROVE  /\ DOMAIN Threads(t) \cup UNION {Threads(t)[c] : c \in DOMAIN Threads(t)} = CommentsOf(t)
                    /\ \A c \in DOMAIN Threads(t) : Threads(t)[c] \cap DOMAIN Threads(t) = {}
  BY DEF NothingLostFromThreads
<1>1. PICK R : R = {c \in CommentsOf(t) : comment[c].parent = NoComment}
  OBVIOUS
<1>2. PICK th : th = Threads(t)
  OBVIOUS
<1>3. DOMAIN th = R /\ \A c \in R : th[c] = {d \in CommentsOf(t) : comment[d].parent = c}
  BY <1>1, <1>2 DEF Threads
<1>4. \A c \in R : th[c] \subseteq CommentsOf(t) /\ th[c] \cap R = {}
  BY <1>1, <1>3, DiscussionAssumption DEF CommentsOf
<1>5. ASSUME NEW c \in CommentsOf(t), c \notin R
      PROVE  \E d \in R : c \in th[d]
  <2>1. c \in Comments /\ comment[c].life = "live" /\ comment[c].topic = t /\ comment[c].parent # NoComment
    BY <1>1, <1>5 DEF CommentsOf
  <2>2. PICK p \in Comments : p = comment[c].parent
    BY <2>1 DEF DiscussTyped, DiscussionTypeOK, CommentRows
  <2>3. comment[p].life = "live" /\ comment[p].topic = t /\ comment[p].parent = NoComment
    BY <2>1, <2>2 DEF ThreadsInv, RepliesRooted, Root
  <2>4. p \in R
    BY <1>1, <2>3 DEF CommentsOf
  <2> QED
    BY <1>3, <2>2, <2>4
<1>6. R \subseteq CommentsOf(t)
  BY <1>1
<1>7. R \cup UNION {th[c] : c \in R} = CommentsOf(t)
  BY <1>4, <1>5, <1>6
<1> QED
  BY <1>2, <1>3, <1>4, <1>7

LEMMA ThreadsKept ==
    ASSUME ThreadsInv, UNCHANGED comment, NEW ops, "comment" \notin ops, CallsOf(ops)
    PROVE  ThreadsInv'
<1>1. \A q \in Calls : call'[q].op = "comment" => call'[q] = call[q]
  BY DEF CallsOf
<1> QED
  BY <1>1 DEF ThreadsInv, RepliesRooted, CommentsUnderway, Root

\* Rows that only change from live to gone, replies together with their parent.
LEMMA ErasureKeepsThreads ==
    ASSUME DiscussTyped, ThreadsInv, UNCHANGED call,
           \A c \in Comments :
               /\ comment'[c].topic = comment[c].topic
               /\ comment'[c].parent = comment[c].parent
               /\ \/ comment'[c].life = comment[c].life
                  \/ comment[c].life = "live" /\ comment'[c].life = "gone",
           \A c \in Comments :
               comment'[c].life = "live" /\ comment[c].parent \in Comments
                  /\ comment[comment[c].parent].life = "live"
               => comment'[comment[c].parent].life = "live"
    PROVE  ThreadsInv'
<1>1. ASSUME NEW c \in Comments, comment'[c].life = "live", comment'[c].parent # NoComment
      PROVE  /\ comment'[comment'[c].parent].life = "live"
             /\ comment'[comment'[c].parent].topic = comment'[c].topic
             /\ comment'[comment'[c].parent].parent = NoComment
  <2>1. comment[c].life = "live" /\ comment[c].parent # NoComment
    BY <1>1
  <2>2. PICK p \in Comments : p = comment[c].parent
    BY <2>1 DEF DiscussTyped, DiscussionTypeOK, CommentRows
  <2>3. comment[p].life = "live" /\ comment[p].topic = comment[c].topic /\ comment[p].parent = NoComment
    BY <2>1, <2>2 DEF ThreadsInv, RepliesRooted, Root
  <2>4. comment'[p].life = "live"
    BY <1>1, <2>2, <2>3
  <2> QED
    BY <2>2, <2>3, <2>4
<1>2. RepliesRooted'
  BY <1>1 DEF RepliesRooted, Root
<1>3. \A r \in Calls : call[r].op = "comment" =>
          call[r].id \in Comments /\ call[r].parent \in Comments \cup {NoComment}
  BY DEF DiscussTyped, CallsTyped, CallTyped
<1>4. CommentsUnderway'
  BY <1>3 DEF ThreadsInv, CommentsUnderway, Root
<1> QED
  BY <1>2, <1>4 DEF ThreadsInv

LEMMA DeleteTopicKeepsThreads ==
    ASSUME DiscussTyped, ThreadsInv, NEW u \in Users, NEW a \in Agendas, NEW t \in Topics,
           DeleteTopic(u, a, t)
    PROVE  ThreadsInv'
<1>1. call' = call /\ comment' = [c \in Comments |->
                         IF comment[c].life = "live" /\ comment[c].topic = t
                         THEN [comment[c] EXCEPT !.life = "gone"] ELSE comment[c]]
  BY DEF DeleteTopic
<1>2. ASSUME NEW c \in Comments
      PROVE  /\ comment'[c].topic = comment[c].topic
             /\ comment'[c].parent = comment[c].parent
             /\ comment'[c].life = IF comment[c].life = "live" /\ comment[c].topic = t
                                   THEN "gone" ELSE comment[c].life
  <2>1. comment[c] \in CommentRows
    BY DEF DiscussTyped, DiscussionTypeOK
  <2> QED
    BY <1>1, <2>1 DEF CommentRows
<1>3. ASSUME NEW c \in Comments, comment'[c].life = "live", comment[c].parent \in Comments,
             comment[comment[c].parent].life = "live"
      PROVE  comment'[comment[c].parent].life = "live"
  <2>1. comment[c].life = "live" /\ comment[c].topic # t /\ comment[c].parent # NoComment
    BY <1>2, <1>3, DiscussionAssumption
  <2>2. comment[comment[c].parent].topic # t
    BY <2>1 DEF ThreadsInv, RepliesRooted, Root
  <2> QED
    BY <1>2, <1>3, <2>2
<1> QED
  BY <1>1, <1>2, <1>3, ErasureKeepsThreads

LEMMA CommentKeepsThreads ==
    ASSUME DiscussTyped, ThreadsInv, CommentNext
    PROVE  ThreadsInv'
<1>1. ASSUME NEW r \in Calls, NEW u \in Users, NEW t \in Topics, NEW p \in Comments \cup {NoComment},
             NEW c \in Comments, AddComment(r, u, t, p, c)
      PROVE  ThreadsInv'
  <2>1. comment' = comment
    BY <1>1 DEF AddComment
  <2>2. PICK S : call' = [call EXCEPT ![r] = [op |-> "comment", id |-> c, topic |-> t, parent |-> p,
                                              user |-> u, tell |-> S]]
    BY <1>1 DEF AddComment
  <2>3. /\ call'[r] = [op |-> "comment", id |-> c, topic |-> t, parent |-> p, user |-> u, tell |-> S]
        /\ \A q \in Calls : q # r => call'[q] = call[q]
    BY <2>2, OneCallMoves DEF DiscussTyped
  <2>4. /\ comment[c].life = "unused"
        /\ \A q \in Calls : call[q].op = "comment" => call[q].id # c
        /\ p # NoComment => /\ comment[p].life # "unused"
                            /\ Root(p, t)
    BY <1>1 DEF AddComment, MayAnswer, CommentsOf, Root
  <2>5. CommentsUnderway'
    BY <2>1, <2>3, <2>4 DEF ThreadsInv, CommentsUnderway, Root
  <2>6. RepliesRooted'
    BY <2>1 DEF ThreadsInv, RepliesRooted, Root
  <2> QED
    BY <2>5, <2>6 DEF ThreadsInv
<1>2. ASSUME NEW r \in Calls, NEW b \in BOOLEAN, CommentAdded(r, b)
      PROVE  ThreadsInv'
  <2>1. PICK c \in Comments, t \in Topics, p \in Comments \cup {NoComment}, u \in Users,
             l \in {"live", "gone"} :
            /\ c = call[r].id /\ t = call[r].topic /\ p = call[r].parent /\ u = call[r].user
            /\ l = IF b THEN "live" ELSE "gone"
    BY <1>2 DEF CommentAdded, DiscussTyped, CallsTyped, CallTyped
  <2>2. comment' = [comment EXCEPT ![c] = [life |-> l, topic |-> t, author |-> u, parent |-> p,
                                           edited |-> FALSE]]
    BY <1>2, <2>1 DEF CommentAdded
  <2>3. /\ comment'[c].life = l /\ comment'[c].topic = t /\ comment'[c].parent = p
        /\ \A x \in Comments : x # c => comment'[x] = comment[x]
    BY <2>2 DEF DiscussTyped, DiscussionTypeOK
  <2>4. /\ comment[c].life = "unused"
        /\ p # NoComment => comment[p].life = "live" /\ Root(p, t)
    BY <1>2, <2>1 DEF CommentAdded, Insertable, ThreadsInv, CommentsUnderway
  <2>5. call'[r] = Idle /\ \A q \in Calls : q # r => call'[q] = call[q]
    BY <1>2, CallEnds DEF CommentAdded, DiscussTyped
  <2>6. RepliesRooted'
    <3> SUFFICES ASSUME NEW d \in Comments, comment'[d].life = "live", comment'[d].parent # NoComment
                 PROVE  /\ comment'[comment'[d].parent].life = "live"
                        /\ comment'[comment'[d].parent].topic = comment'[d].topic
                        /\ comment'[comment'[d].parent].parent = NoComment
      BY DEF RepliesRooted, Root
    <3>1. CASE d = c
      BY <2>3, <2>4, <3>1 DEF Root
    <3>2. CASE d # c
      <4>1. comment'[d] = comment[d]
        BY <2>3, <3>2
      <4>2. PICK x \in Comments : x = comment[d].parent
        BY <4>1 DEF DiscussTyped, DiscussionTypeOK, CommentRows
      <4>3. /\ comment[x].life = "live" /\ comment[x].topic = comment[d].topic
            /\ comment[x].parent = NoComment
        BY <4>1, <4>2 DEF ThreadsInv, RepliesRooted, Root
      <4>4. comment'[x] = comment[x]
        BY <2>3, <2>4, <4>3
      <4> QED
        BY <4>1, <4>2, <4>3, <4>4
    <3> QED
      BY <3>1, <3>2
  <2>7. CommentsUnderway'
    <3>1. \A q \in Calls : call'[q].op = "comment" => q # r /\ call'[q] = call[q]
      BY <2>5 DEF Idle
    <3>2. ASSUME NEW q \in Calls, call'[q].op = "comment"
          PROVE  /\ comment'[call'[q].id].life = "unused"
                 /\ call'[q].parent # NoComment =>
                       /\ comment'[call'[q].parent].life # "unused"
                       /\ comment'[call'[q].parent].topic = call'[q].topic
                       /\ comment'[call'[q].parent].parent = NoComment
      <4>1. q # r /\ call'[q] = call[q] /\ call[q].op = "comment"
        BY <3>1, <3>2
      <4>2. call[q].id \in Comments /\ call[q].parent \in Comments \cup {NoComment}
        BY <4>1 DEF DiscussTyped, CallsTyped, CallTyped
      <4>3. call[q].id # c /\ call[q].parent # c
        BY <1>2, <2>1, <2>4, <4>1, DiscussionAssumption DEF CommentAdded, ThreadsInv, CommentsUnderway
      <4>4. /\ comment'[call[q].id] = comment[call[q].id]
            /\ call[q].parent # NoComment => comment'[call[q].parent] = comment[call[q].parent]
        BY <2>3, <4>2, <4>3
      <4> QED
        BY <4>1, <4>4 DEF ThreadsInv, CommentsUnderway, Root
    <3> QED
      BY <3>1, <3>2 DEF ThreadsInv, CommentsUnderway, Root
  <2> QED
    BY <2>6, <2>7 DEF ThreadsInv
<1>3. ASSUME NEW u \in Users, NEW c \in Comments, UpdateComment(u, c)
      PROVE  ThreadsInv'
  <2>1. call' = call /\ comment' = [comment EXCEPT ![c].edited = TRUE]
    BY <1>3 DEF UpdateComment
  <2>2. \A d \in Comments : /\ comment'[d].topic = comment[d].topic
                            /\ comment'[d].parent = comment[d].parent
                            /\ comment'[d].life = comment[d].life
    BY <2>1 DEF DiscussTyped, DiscussionTypeOK, CommentRows
  <2> QED
    BY <2>1, <2>2, ErasureKeepsThreads
<1>4. ASSUME NEW u \in Users, NEW c \in Comments, DeleteComment(u, c)
      PROVE  ThreadsInv'
  <2>1. call' = call /\ comment' = [d \in Comments |->
                            IF comment[d].life = "live" /\ (d = c \/ comment[d].parent = c)
                            THEN [comment[d] EXCEPT !.life = "gone"] ELSE comment[d]]
    BY <1>4 DEF DeleteComment
  <2>2. ASSUME NEW d \in Comments
        PROVE  /\ comment'[d].topic = comment[d].topic
               /\ comment'[d].parent = comment[d].parent
               /\ comment'[d].life = IF comment[d].life = "live" /\ (d = c \/ comment[d].parent = c)
                                     THEN "gone" ELSE comment[d].life
    <3>1. comment[d] \in CommentRows
      BY DEF DiscussTyped, DiscussionTypeOK
    <3> QED
      BY <2>1, <3>1 DEF CommentRows
  <2>3. ASSUME NEW d \in Comments, comment'[d].life = "live", comment[d].parent \in Comments,
               comment[comment[d].parent].life = "live"
        PROVE  comment'[comment[d].parent].life = "live"
    <3>1. comment[d].life = "live" /\ comment[d].parent # c /\ comment[d].parent # NoComment
      BY <2>2, <2>3, DiscussionAssumption
    <3>2. comment[comment[d].parent].parent = NoComment
      BY <3>1 DEF ThreadsInv, RepliesRooted, Root
    <3>3. c # NoComment
      BY DiscussionAssumption
    <3> QED
      BY <2>2, <2>3, <3>1, <3>2, <3>3
  <2> QED
    BY <2>1, <2>2, <2>3, ErasureKeepsThreads
<1> QED
  BY <1>1, <1>2, <1>3, <1>4 DEF CommentNext

LEMMA DiscussKeepsThreads ==
    ASSUME DiscussTyped, ThreadsInv, [ClubsNext]_discussVars
    PROVE  ThreadsInv'
<1>1. ASSUME SessionNext \/ AgendaNext \/ (\E r \in Calls : CallLost(r))
      PROVE  ThreadsInv'
  <2>1. UNCHANGED comment
    BY <1>1 DEF SessionNext, CreateSession, SetSessionPresenter, TransitionSession, TransitionCommitted,
       AgendaNext, CreateAgenda, UpdateAgenda, PublishAgenda, AgendaPublished, CallLost
  <2>2. CallsOf({"status"}) \/ CallsOf({"publish"}) \/ CallsOf({})
    BY <1>1, PartsMoveTheirCalls
  <2> QED
    BY <2>1, <2>2, ThreadsKept
<1>2. ASSUME TopicNext
      PROVE  ThreadsInv'
  <2>1. CallsOf({"append", "reorder"})
    BY <1>2, PartsMoveTheirCalls
  <2>2. \/ \E u \in Users, a \in Agendas, t \in Topics : DeleteTopic(u, a, t)
        \/ UNCHANGED comment
    BY <1>2, SMTT(20), ZenonT(20) DEF TopicNext, AddTopic, UpdateTopic, ReorderTopics, TopicAdded, TopicsReordered
  <2> QED
    BY <2>1, <2>2, ThreadsKept, DeleteTopicKeepsThreads
<1>3. CASE UNCHANGED discussion
  <2>1. UNCHANGED comment /\ CallsOf({})
    BY <1>3 DEF discussion, CallsOf
  <2> QED
    BY <2>1, ThreadsKept
<1> QED
  BY <1>1, <1>2, <1>3, CommentKeepsThreads DEF ClubsNext, DiscussNext, discussVars

--------------------------------------------------------------------------------
(* Positions of the topics of an agenda                                    *)

\* Until two of them overlap, the requests in flight on topics are on different
\* agendas, and but for deletions what one of them has loaded is still so.
OnePerAgenda ==
    \A r, q \in Calls :
        /\ r # q /\ call[r].op \in TopicOps /\ call[q].op \in TopicOps
        /\ call[r].agenda = call[q].agenda
        => call[r].agenda \in raced

AppendsUnderway ==
    /\ \A r \in Calls : call[r].op = "append" =>
          /\ topic[call[r].topic].life = "unused"
          /\ call[r].agenda \notin raced =>
                \A t \in TopicsOf(call[r].agenda) : topic[t].position < call[r].position
    /\ \A r, q \in Calls :
          (r # q /\ call[r].op = "append" /\ call[q].op = "append") => call[r].topic # call[q].topic

ReordersUnderway ==
    \A r \in Calls : call[r].op = "reorder" =>
        /\ \A t \in ToSet(call[r].order) : topic[t].life # "unused" /\ topic[t].agenda = call[r].agenda
        /\ call[r].agenda \notin raced =>
              \A t \in TopicsOf(call[r].agenda) :
                  t \in ToSet(call[r].order) /\ call[r].loaded[t] = topic[t].position

TopicsUnderway == OnePerAgenda /\ AppendsUnderway /\ ReordersUnderway
TopicInv == TopicsUnderway /\ PositionsDistinct

\* A step that changes topics of one agenda only, on which no request is left
\* but where requests overlapped, disturbs nothing elsewhere.
LEMMA ElsewhereKept ==
    ASSUME DiscussTyped, TopicInv, NEW a,
           \A q \in Calls : call'[q].op \in TopicOps =>
               call'[q] = call[q] /\ (call[q].agenda = a => a \in raced'),
           \A b \in Agendas \ {a} : /\ b \notin raced' => b \notin raced
                                    /\ TopicsOf(b)' = TopicsOf(b)
                                    /\ \A t \in TopicsOf(b) : topic'[t].position = topic[t].position,
           \A q \in Calls : call'[q].op = "append" => topic'[call'[q].topic].life = "unused",
           \A t \in Topics : topic[t].life # "unused" =>
               topic'[t].life # "unused" /\ topic'[t].agenda = topic[t].agenda
    PROVE  /\ TopicsUnderway'
           /\ \A b \in Agendas \ {a} : b \notin raced' =>
                  \A t, v \in TopicsOf(b)' : t # v => topic'[t].position # topic'[v].position
<1>1. \A q \in Calls : call'[q].op \in TopicOps => call'[q] = call[q] /\ call[q].agenda \in Agendas
  BY DEF DiscussTyped, CallsTyped, CallTyped, TopicOps
<1>2. ASSUME NEW q \in Calls, call'[q].op \in TopicOps, call'[q].agenda \notin raced'
      PROVE  /\ call[q].agenda \notin raced
             /\ TopicsOf(call[q].agenda)' = TopicsOf(call[q].agenda)
             /\ \A t \in TopicsOf(call[q].agenda) : topic'[t].position = topic[t].position
  <2>1. PICK b \in Agendas \ {a} : b = call[q].agenda /\ b = call'[q].agenda
    BY <1>1, <1>2
  <2>2. TopicsOf(call[q].agenda)' = TopicsOf(b)' /\ TopicsOf(call[q].agenda) = TopicsOf(b)
    BY <2>1 DEF TopicsOf
  <2> QED
    BY <1>2, <2>1, <2>2
<1>3. OnePerAgenda'
  <2>1. ASSUME NEW p \in Calls, NEW q \in Calls, p # q, call'[p].op \in TopicOps, call'[q].op \in TopicOps,
               call'[p].agenda = call'[q].agenda, call'[p].agenda \notin raced'
        PROVE  FALSE
    <3>1. call[p].agenda \notin raced /\ call'[p] = call[p] /\ call'[q] = call[q]
      BY <1>1, <1>2, <2>1
    <3> QED
      BY <2>1, <3>1 DEF TopicInv, TopicsUnderway, OnePerAgenda
  <2> QED
    BY <2>1 DEF OnePerAgenda
<1>4. AppendsUnderway'
  <2>1. ASSUME NEW q \in Calls, call'[q].op = "append", call'[q].agenda \notin raced'
        PROVE  \A t \in TopicsOf(call[q].agenda)' : topic'[t].position < call'[q].position
    <3>1. call'[q] = call[q] /\ call'[q].op \in TopicOps
      BY <1>1, <2>1 DEF TopicOps
    <3> QED
      BY <1>2, <2>1, <3>1 DEF TopicInv, TopicsUnderway, AppendsUnderway
  <2>2. \A q \in Calls : call'[q].op = "append" => call'[q] = call[q]
    BY <1>1 DEF TopicOps
  <2> QED
    BY <2>1, <2>2 DEF TopicInv, TopicsUnderway, AppendsUnderway
<1>5. ReordersUnderway'
  <2>1. ASSUME NEW q \in Calls, call'[q].op = "reorder"
        PROVE  /\ call'[q] = call[q] /\ call[q].op \in TopicOps /\ call[q].op = "reorder"
               /\ call[q].order \in Seq(Topics)
    BY <1>1, <2>1 DEF TopicOps, DiscussTyped, CallsTyped, CallTyped
  <2>2. ASSUME NEW q \in Calls, call'[q].op = "reorder", call'[q].agenda \notin raced'
        PROVE  \A t \in TopicsOf(call[q].agenda)' :
                   t \in ToSet(call[q].order) /\ call[q].loaded[t] = topic'[t].position
    BY <1>2, <2>1, <2>2 DEF TopicInv, TopicsUnderway, ReordersUnderway
  <2>3. ASSUME NEW q \in Calls, call'[q].op = "reorder", NEW t \in ToSet(call[q].order)
        PROVE  topic'[t].life # "unused" /\ topic'[t].agenda = call[q].agenda
    <3>1. t \in Topics
      BY <2>1, <2>3 DEF ToSet
    <3> QED
      BY <2>1, <2>3, <3>1 DEF TopicInv, TopicsUnderway, ReordersUnderway
  <2> QED
    BY <2>1, <2>2, <2>3 DEF ReordersUnderway
<1>6. ASSUME NEW b \in Agendas \ {a}, b \notin raced', NEW t \in TopicsOf(b)', NEW v \in TopicsOf(b)', t # v
      PROVE  topic'[t].position # topic'[v].position
  <2>1. t \in TopicsOf(b) /\ v \in TopicsOf(b) /\ b \in Agendas \ raced
    BY <1>6
  <2>2. topic[t].position # topic[v].position
    BY <1>6, <2>1 DEF TopicInv, PositionsDistinct
  <2> QED
    BY <1>6, <2>1, <2>2
<1> QED
  BY <1>3, <1>4, <1>5, <1>6 DEF TopicsUnderway

\* Topics whose life, agenda and position are left alone keep their order.
LEMMA TopicsKept ==
    ASSUME DiscussTyped, TopicInv, UNCHANGED raced,
           \A t \in Topics : /\ topic'[t].life = topic[t].life
                             /\ topic'[t].agenda = topic[t].agenda
                             /\ topic'[t].position = topic[t].position,
           \A q \in Calls : call'[q].op \in TopicOps => call'[q] = call[q]
    PROVE  TopicInv'
<1>1. \A b \in Agendas \ {NoAgenda} :
          /\ b \notin raced' => b \notin raced
          /\ TopicsOf(b)' = TopicsOf(b)
          /\ \A t \in TopicsOf(b) : topic'[t].position = topic[t].position
  BY DEF TopicsOf
<1>2. \A q \in Calls : call'[q].op \in TopicOps => call'[q] = call[q] /\ call[q].agenda # NoAgenda
  BY DiscussionAssumption DEF DiscussTyped, CallsTyped, CallTyped, TopicOps
<1>3. \A q \in Calls : call'[q].op = "append" => topic'[call'[q].topic].life = "unused"
  BY DEF TopicOps, DiscussTyped, CallsTyped, CallTyped, TopicInv, TopicsUnderway, AppendsUnderway
<1>4. Agendas \ {NoAgenda} = Agendas
  BY DiscussionAssumption
<1>5. \A q \in Calls : call'[q].op \in TopicOps =>
          call'[q] = call[q] /\ (call[q].agenda = NoAgenda => NoAgenda \in raced')
  BY <1>2
<1>6. /\ TopicsUnderway'
      /\ \A b \in Agendas \ {NoAgenda} : b \notin raced' =>
             \A t, v \in TopicsOf(b)' : t # v => topic'[t].position # topic'[v].position
  BY <1>1, <1>3, <1>5, ElsewhereKept
<1>7. PositionsDistinct'
  BY <1>4, <1>6 DEF PositionsDistinct
<1> QED
  BY <1>6, <1>7 DEF TopicInv

\* An agenda is noted as raced as soon as a second request places its topics.
LEMMA RacesNoted ==
    ASSUME DiscussTyped, NEW a \in Agendas, NoteRace(a)
    PROVE  /\ raced \subseteq raced' /\ raced' \subseteq raced \cup {a}
           /\ a \notin raced' => \A q \in Calls : call[q].op \in TopicOps => call[q].agenda # a
  BY DEF NoteRace, Placing

LEMMA AddTopicKeepsTopics ==
    ASSUME DiscussTyped, TopicInv, NEW r \in Calls, NEW u \in Users, NEW a \in Agendas,
           NEW t \in Topics, AddTopic(r, u, a, t)
    PROVE  TopicInv'
<1>1. topic' = topic
  BY DEF AddTopic
<1>2. PICK n : n = NextTopicPosition(a)
  OBVIOUS
<1>3. \A v \in TopicsOf(a) : topic[v].position < n
  BY <1>2, NextPositionBeyond DEF DiscussTyped, DiscussionTypeOK, TopicRows
<1>4. call' = [call EXCEPT ![r] = [op |-> "append", agenda |-> a, topic |-> t, position |-> n]]
  BY <1>2 DEF AddTopic
<1>5. /\ call'[r] = [op |-> "append", agenda |-> a, topic |-> t, position |-> n]
      /\ \A q \in Calls : q # r => call'[q] = call[q]
  BY <1>4, OneCallMoves DEF DiscussTyped
<1>6. /\ topic[t].life = "unused"
      /\ \A q \in Calls : call[q].op = "append" => call[q].topic # t
      /\ raced \subseteq raced'
      /\ a \notin raced' => \A q \in Calls : call[q].op \in TopicOps => call[q].agenda # a
  BY RacesNoted DEF AddTopic
<1>7. OnePerAgenda'
  BY <1>5, <1>6 DEF TopicInv, TopicsUnderway, OnePerAgenda, TopicOps
<1>8. AppendsUnderway'
  <2>1. ASSUME NEW q \in Calls, call'[q].op = "append"
        PROVE  /\ topic[call'[q].topic].life = "unused"
               /\ call'[q].agenda \notin raced' =>
                      \A v \in TopicsOf(call'[q].agenda) : topic[v].position < call'[q].position
    BY <1>3, <1>5, <1>6, <2>1 DEF TopicInv, TopicsUnderway, AppendsUnderway
  <2>2. \A p, q \in Calls :
            (p # q /\ call'[p].op = "append" /\ call'[q].op = "append") => call'[p].topic # call'[q].topic
    BY <1>5, <1>6 DEF TopicInv, TopicsUnderway, AppendsUnderway
  <2> QED
    BY <1>1, <2>1, <2>2 DEF AppendsUnderway, TopicsOf
<1>9. ReordersUnderway'
  BY <1>1, <1>5, <1>6 DEF TopicInv, TopicsUnderway, ReordersUnderway, TopicsOf
<1>10. PositionsDistinct'
  BY <1>1, <1>6 DEF TopicInv, PositionsDistinct, TopicsOf
<1> QED
  BY <1>7, <1>8, <1>9, <1>10 DEF TopicInv, TopicsUnderway

LEMMA ReorderTopicsKeepsTopics ==
    ASSUME DiscussTyped, TopicInv, NEW r \in Calls, NEW u \in Users, NEW a \in Agendas,
           ReorderTopics(r, u, a)
    PROVE  TopicInv'
<1>1. topic' = topic
  BY DEF ReorderTopics
<1>2. PICK o, old : /\ o \in Orders(a)
                    /\ old = [t \in TopicsOf(a) |-> topic[t].position]
                    /\ call' = [call EXCEPT ![r] = [op |-> "reorder", agenda |-> a,
                                                    order |-> o, loaded |-> old]]
  BY DEF ReorderTopics
<1>3. ToSet(o) = TopicsOf(a)
  BY <1>2, OrdersAreSequences
<1>4. /\ call'[r] = [op |-> "reorder", agenda |-> a, order |-> o, loaded |-> old]
      /\ \A q \in Calls : q # r => call'[q] = call[q]
  BY <1>2, OneCallMoves DEF DiscussTyped
<1>5. /\ raced \subseteq raced'
      /\ a \notin raced' => \A q \in Calls : call[q].op \in TopicOps => call[q].agenda # a
  BY RacesNoted DEF ReorderTopics
<1>6. OnePerAgenda'
  BY <1>4, <1>5 DEF TopicInv, TopicsUnderway, OnePerAgenda, TopicOps
<1>7. AppendsUnderway'
  BY <1>1, <1>4, <1>5 DEF TopicInv, TopicsUnderway, AppendsUnderway, TopicsOf
<1>8. ReordersUnderway'
  <2>1. ASSUME NEW q \in Calls, call'[q].op = "reorder"
        PROVE  /\ \A t \in ToSet(call'[q].order) :
                      topic[t].life # "unused" /\ topic[t].agenda = call'[q].agenda
               /\ call'[q].agenda \notin raced' =>
                      \A t \in TopicsOf(call'[q].agenda) :
                          t \in ToSet(call'[q].order) /\ call'[q].loaded[t] = topic[t].position
    <3>1. CASE q = r
      <4>1. call'[q].order = o /\ call'[q].agenda = a /\ call'[q].loaded = old
        BY <1>4, <3>1
      <4>2. \A t \in TopicsOf(a) : topic[t].life # "unused" /\ topic[t].agenda = a
        BY DEF TopicsOf
      <4> QED
        BY <1>2, <1>3, <4>1, <4>2
    <3>2. CASE q # r
      BY <1>4, <1>5, <2>1, <3>2 DEF TopicInv, TopicsUnderway, ReordersUnderway
    <3> QED
      BY <3>1, <3>2
  <2> QED
    BY <1>1, <2>1 DEF ReordersUnderway, TopicsOf
<1>9. PositionsDistinct'
  BY <1>1, <1>5 DEF TopicInv, PositionsDistinct, TopicsOf
<1> QED
  BY <1>6, <1>7, <1>8, <1>9 DEF TopicInv, TopicsUnderway

\* Fewer topics, in the places they had.
LEMMA DeleteTopicKeepsTopics ==
    ASSUME DiscussTyped, TopicInv, NEW u \in Users, NEW a \in Agendas, NEW t \in Topics, DeleteTopic(u, a, t)
    PROVE  TopicInv'
<1>1. call' = call /\ raced' = raced /\ topic' = [topic EXCEPT ![t].life = "gone"]
  BY DEF DeleteTopic
<1>2. topic[t].life = "live"
  BY DEF DeleteTopic, TopicsOf
<1>3. /\ topic'[t].life = "gone"
      /\ \A v \in Topics : v # t => topic'[v] = topic[v]
  BY <1>1 DEF DiscussTyped, DiscussionTypeOK, TopicRows
<1>4. \A b : \A v \in TopicsOf(b)' : v \in TopicsOf(b) /\ topic'[v] = topic[v]
  BY <1>3 DEF TopicsOf
<1>5. OnePerAgenda'
  BY <1>1 DEF TopicInv, TopicsUnderway, OnePerAgenda
<1>6. AppendsUnderway'
  <2>1. \A q \in Calls : call[q].op = "append" =>
            call[q].topic \in Topics /\ topic[call[q].topic].life = "unused"
    BY DEF DiscussTyped, CallsTyped, CallTyped, TopicInv, TopicsUnderway, AppendsUnderway
  <2>2. \A q \in Calls : call[q].op = "append" => topic'[call[q].topic].life = "unused"
    BY <1>2, <1>3, <2>1
  <2>3. ASSUME NEW q \in Calls, call[q].op = "append", call[q].agenda \notin raced
        PROVE  \A v \in TopicsOf(call[q].agenda)' : topic'[v].position < call[q].position
    BY <1>1, <1>4, <2>3 DEF TopicInv, TopicsUnderway, AppendsUnderway
  <2> QED
    BY <1>1, <2>2, <2>3 DEF TopicInv, TopicsUnderway, AppendsUnderway
<1>7. ReordersUnderway'
  <2>1. ASSUME NEW q \in Calls, call[q].op = "reorder", call[q].agenda \notin raced
        PROVE  \A v \in TopicsOf(call[q].agenda)' :
                   v \in ToSet(call[q].order) /\ call[q].loaded[v] = topic'[v].position
    BY <1>1, <1>4, <2>1 DEF TopicInv, TopicsUnderway, ReordersUnderway
  <2>2. ASSUME NEW q \in Calls, call[q].op = "reorder", NEW v \in ToSet(call[q].order)
        PROVE  topic'[v].life # "unused" /\ topic'[v].agenda = call[q].agenda
    <3>1. v \in Topics /\ topic[v].life # "unused" /\ topic[v].agenda = call[q].agenda
      BY <2>2 DEF TopicInv, TopicsUnderway, ReordersUnderway, DiscussTyped, CallsTyped, CallTyped, ToSet
    <3>2. topic'[v].agenda = topic[v].agenda
      BY <1>1, <3>1 DEF DiscussTyped, DiscussionTypeOK, TopicRows
    <3> QED
      BY <1>3, <3>1, <3>2
  <2> QED
    BY <1>1, <2>1, <2>2 DEF ReordersUnderway
<1>8. PositionsDistinct'
  BY <1>1, <1>4 DEF TopicInv, PositionsDistinct
<1> QED
  BY <1>5, <1>6, <1>7, <1>8 DEF TopicInv, TopicsUnderway

LEMMA TopicAddedKeepsTopics ==
    ASSUME DiscussTyped, TopicInv, NEW r \in Calls, TopicAdded(r)
    PROVE  TopicInv'
<1>1. PICK v \in Topics, a \in Agendas, n \in Nat :
          v = call[r].topic /\ a = call[r].agenda /\ n = call[r].position
  BY DEF TopicAdded, DiscussTyped, CallsTyped, CallTyped
<1>2. topic' = [topic EXCEPT ![v] = [life |-> "live", agenda |-> a, position |-> n, edited |-> FALSE]]
  BY <1>1 DEF TopicAdded
<1>3. /\ topic'[v] = [life |-> "live", agenda |-> a, position |-> n, edited |-> FALSE]
      /\ \A t \in Topics : t # v => topic'[t] = topic[t]
  BY <1>2 DEF DiscussTyped, DiscussionTypeOK
<1>4. call'[r] = Idle /\ (\A q \in Calls : q # r => call'[q] = call[q]) /\ raced' = raced
  BY CallEnds DEF TopicAdded, DiscussTyped
<1>5. /\ topic[v].life = "unused"
      /\ a \notin raced => \A t \in TopicsOf(a) : topic[t].position < n
      /\ \A q \in Calls : q # r /\ call[q].op = "append" =>
             /\ call[q].topic \in Topics /\ call[q].topic # v
             /\ topic[call[q].topic].life = "unused"
  BY <1>1 DEF TopicAdded, DiscussTyped, CallsTyped, CallTyped, TopicInv, TopicsUnderway, AppendsUnderway
<1>6. \A q \in Calls : call'[q].op \in TopicOps =>
          call'[q] = call[q] /\ (call[q].agenda = a => a \in raced')
  <2>1. \A q \in Calls : call'[q].op \in TopicOps => q # r
    BY <1>4 DEF Idle, TopicOps
  <2> QED
    BY <1>1, <1>4, <2>1 DEF TopicAdded, TopicInv, TopicsUnderway, OnePerAgenda, TopicOps
<1>7. \A b \in Agendas \ {a} :
          /\ b \notin raced' => b \notin raced
          /\ TopicsOf(b)' = TopicsOf(b)
          /\ \A t \in TopicsOf(b) : topic'[t].position = topic[t].position
  BY <1>3, <1>4, <1>5 DEF TopicsOf
<1>8. \A q \in Calls : call'[q].op = "append" => topic'[call'[q].topic].life = "unused"
  <2>1. \A q \in Calls : call'[q].op = "append" => q # r /\ call'[q] = call[q]
    BY <1>4 DEF Idle
  <2> QED
    BY <1>3, <1>5, <2>1
<1>9. /\ TopicsUnderway'
      /\ \A b \in Agendas \ {a} : b \notin raced' =>
             \A t, x \in TopicsOf(b)' : t # x => topic'[t].position # topic'[x].position
  BY <1>3, <1>5, <1>6, <1>7, <1>8, ElsewhereKept
<1>10. ASSUME a \notin raced, NEW t \in TopicsOf(a)', NEW x \in TopicsOf(a)', t # x
       PROVE  topic'[t].position # topic'[x].position
  <2>1. \A y \in TopicsOf(a)' : \/ y = v /\ topic'[y].position = n
                                \/ /\ y \in TopicsOf(a) /\ topic'[y].position = topic[y].position
                                   /\ topic[y].position \in Nat /\ topic[y].position < n
    <3>1. \A y \in TopicsOf(a)' : y # v => y \in TopicsOf(a) /\ topic'[y].position = topic[y].position
      BY <1>3 DEF TopicsOf
    <3>2. \A y \in TopicsOf(a) : topic[y].position \in Nat
      BY DEF TopicsOf, DiscussTyped, DiscussionTypeOK, TopicRows
    <3> QED
      BY <1>3, <1>5, <1>10, <3>1, <3>2
  <2>2. \A y, z \in TopicsOf(a) : y # z => topic[y].position # topic[z].position
    BY <1>1, <1>10 DEF TopicInv, PositionsDistinct
  <2> QED
    BY <1>10, <2>1, <2>2
<1>11. PositionsDistinct'
  BY <1>4, <1>9, <1>10 DEF PositionsDistinct
<1> QED
  BY <1>9, <1>11 DEF TopicInv

\* A request that wrote the order of the whole agenda, alone, leaves it clean.
LEMMA TopicsReorderedKeepsTopics ==
    ASSUME DiscussTyped, TopicInv, NEW r \in Calls, TopicsReordered(r)
    PROVE  TopicInv'
<1>1. PICK o, a, old : /\ o \in Seq(Topics) /\ o = call[r].order
                       /\ a \in Agendas /\ a = call[r].agenda
                       /\ old = call[r].loaded /\ DOMAIN old = ToSet(o)
  BY DEF TopicsReordered, DiscussTyped, CallsTyped, CallTyped
<1>2. /\ raced' = raced \/ (WholeOrder(r) /\ raced' = raced \ {a})
      /\ a \notin raced' => \A t \in TopicsOf(a) : t \in ToSet(o) /\ old[t] = topic[t].position
      /\ \A t \in ToSet(o) : topic[t].life # "unused" /\ topic[t].agenda = a
  <2>1. \/ raced' = raced
        \/ WholeOrder(r) /\ raced' = raced \ {a}
    BY <1>1 DEF TopicsReordered
  <2>2. ASSUME raced' = raced, a \notin raced', NEW t \in TopicsOf(a)
        PROVE  t \in ToSet(o) /\ old[t] = topic[t].position
    <3>1. call[r].op = "reorder"
      BY DEF TopicsReordered
    <3>2. a \notin raced =>
              \A x \in TopicsOf(a) :
                  x \in ToSet(call[r].order) /\ call[r].loaded[x] = topic[x].position
      BY <1>1, <3>1 DEF TopicInv, TopicsUnderway, ReordersUnderway
    <3> QED
      BY <1>1, <2>2, <3>2
  <2>3. ASSUME WholeOrder(r), NEW t \in TopicsOf(a)
        PROVE  t \in ToSet(o) /\ old[t] = topic[t].position
    BY <1>1, <2>3 DEF WholeOrder
  <2>4. \A t \in ToSet(o) : topic[t].life # "unused" /\ topic[t].agenda = a
    BY <1>1 DEF TopicsReordered, TopicInv, TopicsUnderway, ReordersUnderway
  <2> QED
    BY <2>1, <2>2, <2>3, <2>4
<1>3. topic' = [t \in Topics |->
                   IF t \in {v \in DOMAIN old : PlaceIn(o, v) # old[v]} /\ topic[t].life = "live"
                   THEN [topic[t] EXCEPT !.position = PlaceIn(o, t)] ELSE topic[t]]
  BY <1>1 DEF TopicsReordered
<1>4. ASSUME NEW t \in Topics
      PROVE  /\ topic'[t].life = topic[t].life
             /\ topic'[t].agenda = topic[t].agenda
             /\ t \notin DOMAIN old => topic'[t].position = topic[t].position
             /\ t \in TopicsOf(a) /\ a \notin raced' => topic'[t].position = PlaceIn(o, t)
  <2>1. topic[t] \in TopicRows
    BY DEF DiscussTyped, DiscussionTypeOK
  <2>2. PICK n : n = PlaceIn(o, t)
    OBVIOUS
  <2>3. CASE t \in DOMAIN old /\ n # old[t] /\ topic[t].life = "live"
    <3>1. topic'[t] = [topic[t] EXCEPT !.position = n]
      BY <1>3, <2>2, <2>3
    <3> QED
      BY <2>1, <2>2, <2>3, <3>1 DEF TopicRows
  <2>4. CASE ~(t \in DOMAIN old /\ n # old[t] /\ topic[t].life = "live")
    <3>1. topic'[t] = topic[t]
      BY <1>3, <2>2, <2>4
    <3>2. t \in TopicsOf(a) /\ a \notin raced' => n = topic[t].position
      BY <1>1, <1>2, <2>4 DEF TopicsOf
    <3> QED
      BY <2>2, <3>1, <3>2
  <2> QED
    BY <2>3, <2>4
<1>5. call'[r] = Idle /\ \A q \in Calls : q # r => call'[q] = call[q]
  BY CallEnds DEF TopicsReordered, DiscussTyped
<1>6. \A q \in Calls : call'[q].op \in TopicOps =>
          call'[q] = call[q] /\ (call[q].agenda = a => a \in raced')
  <2>1. \A q \in Calls : call'[q].op \in TopicOps => q # r /\ call'[q] = call[q]
    BY <1>5 DEF Idle, TopicOps
  <2>2. ASSUME NEW q \in Calls, q # r, call[q].op \in TopicOps, call[q].agenda = a
        PROVE  a \in raced /\ ~WholeOrder(r)
    <3>1. a \in raced
      BY <1>1, <2>2 DEF TopicsReordered, TopicInv, TopicsUnderway, OnePerAgenda, TopicOps
    <3>2. q \in Placing(call[r].agenda)
      BY <1>1, <2>2 DEF Placing
    <3> QED
      BY <2>2, <3>1, <3>2 DEF WholeOrder
  <2> QED
    BY <1>2, <2>1, <2>2
<1>7. \A b \in Agendas : TopicsOf(b)' = TopicsOf(b)
  BY <1>4 DEF TopicsOf
<1>8. \A b \in Agendas \ {a} : \A t \in TopicsOf(b) : topic'[t].position = topic[t].position
  BY <1>1, <1>2, <1>4 DEF TopicsOf
<1>9. \A q \in Calls : call'[q].op = "append" => topic'[call'[q].topic].life = "unused"
  <2>1. \A q \in Calls : call'[q].op = "append" => call'[q] = call[q] /\ call[q].topic \in Topics
    BY <1>6 DEF TopicOps, DiscussTyped, CallsTyped, CallTyped
  <2> QED
    BY <1>4, <2>1 DEF TopicInv, TopicsUnderway, AppendsUnderway
<1>10. /\ TopicsUnderway'
       /\ \A b \in Agendas \ {a} : b \notin raced' =>
              \A t, x \in TopicsOf(b)' : t # x => topic'[t].position # topic'[x].position
  BY <1>2, <1>4, <1>6, <1>7, <1>8, <1>9, ElsewhereKept
<1>11. ASSUME a \notin raced'
       PROVE  \A t, x \in TopicsOf(a)' : t # x => topic'[t].position # topic'[x].position
  <2>1. \A t \in TopicsOf(a)' : t \in ToSet(o) /\ topic'[t].position = PlaceIn(o, t)
    BY <1>1, <1>2, <1>4, <1>7, <1>11 DEF TopicsOf
  <2> QED
    BY <1>1, <2>1, PlacesDiffer
<1>12. PositionsDistinct'
  BY <1>10, <1>11 DEF PositionsDistinct
<1> QED
  BY <1>10, <1>12 DEF TopicInv

LEMMA DiscussKeepsTopics ==
    ASSUME DiscussTyped, TopicInv, [ClubsNext]_discussVars
    PROVE  TopicInv'
<1>1. ASSUME SessionNext \/ AgendaNext \/ CommentNext \/ (\E r \in Calls : CallLost(r))
      PROVE  TopicInv'
  <2>1. UNCHANGED <<topic, raced>>
    BY <1>1 DEF SessionNext, CreateSession, SetSessionPresenter, TransitionSession, TransitionCommitted,
       AgendaNext, CreateAgenda, UpdateAgenda, PublishAgenda, AgendaPublished,
       CommentNext, AddComment, CommentAdded, UpdateComment, DeleteComment, CallLost
  <2>2. CallsOf({"status"}) \/ CallsOf({"publish"}) \/ CallsOf({"comment"}) \/ CallsOf({})
    BY <1>1, PartsMoveTheirCalls
  <2>3. \A q \in Calls : call'[q].op \in TopicOps => call'[q] = call[q]
    BY <2>2 DEF CallsOf, TopicOps
  <2> QED
    BY <2>1, <2>3, TopicsKept
<1>2. ASSUME TopicNext
      PROVE  TopicInv'
  <2>1. ASSUME NEW u \in Users, NEW a \in Agendas, NEW t \in Topics, UpdateTopic(u, a, t)
        PROVE  TopicInv'
    <3>1. UNCHANGED <<call, raced>> /\ topic' = [topic EXCEPT ![t].edited = TRUE]
      BY <2>1 DEF UpdateTopic
    <3>2. \A v \in Topics : /\ topic'[v].life = topic[v].life
                            /\ topic'[v].agenda = topic[v].agenda
                            /\ topic'[v].position = topic[v].position
      BY <3>1 DEF DiscussTyped, DiscussionTypeOK, TopicRows
    <3> QED
      BY <3>1, <3>2, TopicsKept
  <2> QED
    BY <1>2, <2>1, AddTopicKeepsTopics, ReorderTopicsKeepsTopics, DeleteTopicKeepsTopics,
       TopicAddedKeepsTopics, TopicsReorderedKeepsTopics DEF TopicNext
<1>3. CASE UNCHANGED discussion
  <2>1. UNCHANGED <<topic, call, raced>>
    BY <1>3 DEF discussion
  <2> QED
    BY <2>1, TopicsKept
<1> QED
  BY <1>1, <1>2, <1>3 DEF ClubsNext, DiscussNext, discussVars

--------------------------------------------------------------------------------
(* What a club's discussions promise                                       *)

LEMMA DiscussStarts ==
    ASSUME DiscussInit
    PROVE  FeedInv /\ ThreadsInv /\ TopicInv
<1>1. \A r \in Calls : call[r].op = "idle"
  BY DEF DiscussInit, Idle
<1>2. FeedInv
  BY <1>1 DEF DiscussInit, FeedInv, FeedTellsTheTruth, RequestsGrounded
<1>3. ThreadsInv
  BY <1>1 DEF DiscussInit, ThreadsInv, RepliesRooted, CommentsUnderway
<1>4. TopicsUnderway
  BY <1>1 DEF TopicsUnderway, OnePerAgenda, AppendsUnderway, ReordersUnderway, TopicOps
<1>5. PositionsDistinct
  BY DEF DiscussInit, PositionsDistinct, TopicsOf
<1> QED
  BY <1>2, <1>3, <1>4, <1>5 DEF TopicInv

\* What is always so of rows, requests in flight, feed and threads together.
DiscussInv == DiscussTyped /\ FeedInv /\ ThreadsInv

THEOREM DiscussInvariant == ClubsSpec => []DiscussInv
<1>1. DiscussInit => DiscussInv
  BY DiscussStartsTyped, DiscussStarts DEF DiscussInv
<1>2. DiscussInv /\ [ClubsNext]_discussVars => DiscussInv'
  BY DiscussKeepsTypes, DiscussKeepsFeed, DiscussKeepsThreads DEF DiscussInv
<1> QED
  BY <1>1, <1>2, PTL DEF ClubsSpec

\* Type correctness of a club's discussions, however its requests overlap.
THEOREM DiscussionTypeCorrect == ClubsSpec => []DiscussionTypeOK
<1>1. DiscussInv => DiscussionTypeOK
  BY DEF DiscussInv, DiscussTyped
<1> QED
  BY <1>1, DiscussInvariant, PTL

\* For any number of sessions, agendas and requests in flight, the feed tells of
\* exactly the sessions that were opened and the agendas that are published:
\* row and feed event commit together (transition_session_status, publish_agenda).
THEOREM FeedIsTruthful == ClubsSpec => []FeedTellsTheTruth
<1>1. DiscussInv => FeedTellsTheTruth
  BY DEF DiscussInv, FeedInv
<1> QED
  BY <1>1, DiscussInvariant, PTL

\* Whatever comments are added and deleted at the same time, and whichever
\* topics go away, every comment has its one place in the threads: foreign keys
\* refuse a reply whose parent went while it was on its way (add_comment,
\* delete_comment, delete_topic, _build_comment_threads).
THEOREM ThreadsShowEveryComment == ClubsSpec => []NothingLostFromThreads
<1>1. DiscussInv => NothingLostFromThreads
  BY ThreadsComplete DEF DiscussInv
<1> QED
  BY <1>1, DiscussInvariant, PTL

\* However requests on topics, deletions and losses come between the steps of a
\* request, two topics of an agenda share a position only after two requests
\* that place topics overlapped on it, until a reorder of the whole agenda went
\* through alone: positions after the greatest one, and the last place a
\* repeated id is named at (get_next_topic_position, reorder_topics).
THEOREM AuthorsOrderStands == ClubsSpec => []PositionsDistinct
<1>1. DiscussInit => TopicInv
  BY DiscussStarts
<1>2. DiscussInv /\ TopicInv /\ [ClubsNext]_discussVars => TopicInv'
  BY DiscussKeepsTopics DEF DiscussInv
<1>3. TopicInv => PositionsDistinct
  BY DEF TopicInv
<1> QED
  BY <1>1, <1>2, <1>3, DiscussInvariant, PTL DEF ClubsSpec

--------------------------------------------------------------------------------
(* Chat *)

\* A club with its chat: requests on the club itself come between.
ChatsNext == (ClubNext /\ UNCHANGED chat) \/ ChatNext
ChatsSpec == ClubInit /\ ChatInit /\ [][ChatsNext]_chatVars

\* Only a connection that was made is open, and it has its user, its process
\* and, on a room's stream, its room.
SocketsPlaced ==
    \A x \in Sockets :
        IF socket[x].stream = "none" THEN ~socket[x].open
        ELSE /\ socket[x].user \in Users /\ socket[x].process \in Processes
             /\ socket[x].stream = "room" => socket[x].room \in Rooms

\* What a receive loop is sending was stored under the name of its user, and it
\* is owed to sockets of the same process.
SendsPlaced ==
    \A x \in Sockets : sending[x].stage # "idle" =>
        /\ socket[x].stream \in {"chat", "room"}
        /\ sending[x].stage = "published" => socket[x].stream = "chat"
        /\ sending[x].message \in Messages
        /\ message[sending[x].message].content # "unsent"
        /\ message[sending[x].message].author = socket[x].user
        /\ \A y \in sending[x].owed : /\ socket[y].stream # "none"
                                      /\ socket[y].process = socket[x].process

\* After its first half a club broadcast has reached the chat sockets it is owed
\* to, those that are open still.
ReachedHere(x) ==
    \A y \in sending[x].owed :
        Connected(y) /\ socket[y].stream = "chat" => heard[y][sending[x].message] > 0

BroadcastsReached ==
    \A x \in Sockets :
        sending[x].stage \in {"sentHere", "published"} /\ socket[x].stream = "chat" => ReachedHere(x)

ChatInv == ChatTypeOK /\ SocketsPlaced /\ SendsPlaced /\ BroadcastsReached

Tallies == [Sockets -> [Messages -> Nat]]

\* Counting one more frame at some sockets.
LEMMA CountedOnce ==
    ASSUME NEW log \in Tallies, NEW R, NEW m,
           NEW new, new = [x \in Sockets |-> IF x \in R THEN [log[x] EXCEPT ![m] = @ + 1] ELSE log[x]]
    PROVE  /\ new \in Tallies
           /\ \A x \in Sockets, n \in Messages : log[x][n] <= new[x][n]
           /\ m \in Messages => \A x \in Sockets \cap R : new[x][m] > 0
<1>1. ASSUME NEW x \in Sockets
      PROVE  /\ new[x] \in [Messages -> Nat]
             /\ \A n \in Messages : log[x][n] <= new[x][n]
             /\ m \in Messages /\ x \in R => new[x][m] > 0
  <2>1. log[x] \in [Messages -> Nat]
    BY DEF Tallies
  <2>2. CASE x \in R
    <3> DEFINE g == log[x]
    <3>1. g \in [Messages -> Nat]
      BY <2>1
    <3>2. new[x] = [g EXCEPT ![m] = g[m] + 1]
      BY <2>2
    <3> HIDE DEF g
    <3>4. \A n \in Messages : g[n] \in Nat
      BY <3>1
    <3>3. new[x] \in [Messages -> Nat] /\ \A n \in Messages : new[x][n] = IF n = m THEN g[n] + 1 ELSE g[n]
      <4>1. new[x] = [n \in Messages |-> IF n = m THEN g[n] + 1 ELSE g[n]]
        BY <3>1, <3>2
      <4>2. \A n \in Messages : (IF n = m THEN g[n] + 1 ELSE g[n]) \in Nat
        BY <3>4
      <4> QED
        BY <4>1, <4>2
    <3>5. \A n \in Messages : g[n] <= new[x][n] /\ (n = m => new[x][n] > 0)
      BY <3>3, <3>4
    <3> QED
      BY <3>3, <3>5 DEF g
  <2>3. CASE x \notin R
    <3>1. new[x] = log[x]
      BY <2>3
    <3> QED
      BY <2>1, <2>3, <3>1
  <2> QED
    BY <2>2, <2>3
<1>2. new \in Tallies
  BY <1>1 DEF Tallies
<1> QED
  BY <1>1, <1>2

\* A frame sent to the sockets of a process is counted at each it is for, as a
\* message or as a badge, and no count ever falls.
LEMMA FrameCounted ==
    ASSUME heard \in Tallies, badge \in Tallies, NEW p, NEW f, SendLocal(p, f)
    PROVE  /\ heard' \in Tallies /\ badge' \in Tallies
           /\ \A x \in Sockets, n \in Messages : heard[x][n] <= heard'[x][n]
           /\ f.message \in Messages =>
                  \A x \in Sockets \cap Receivers(p, f) :
                      IF f.badge THEN badge'[x][f.message] > 0 ELSE heard'[x][f.message] > 0
<1> DEFINE R == Receivers(p, f)
           Counted(log) == [x \in Sockets |-> IF x \in R THEN [log[x] EXCEPT ![f.message] = @ + 1]
                                              ELSE log[x]]
<1>1. IF f.badge THEN heard' = heard /\ badge' = Counted(badge)
      ELSE heard' = Counted(heard) /\ badge' = badge
  BY DEF SendLocal
<1>2. \A x \in Sockets, n \in Messages : heard[x][n] \in Nat
  BY DEF Tallies
<1> HIDE DEF R
<1>3. CASE f.badge
  <2>1. /\ Counted(badge) \in Tallies
        /\ f.message \in Messages => \A x \in Sockets \cap R : Counted(badge)[x][f.message] > 0
    BY CountedOnce
  <2> HIDE DEF Counted
  <2>2. heard' = heard /\ badge' = Counted(badge)
    BY <1>1, <1>3
  <2> QED
    BY <1>2, <1>3, <2>1, <2>2 DEF R
<1>4. CASE ~f.badge
  <2>1. /\ Counted(heard) \in Tallies
        /\ \A x \in Sockets, n \in Messages : heard[x][n] <= Counted(heard)[x][n]
        /\ f.message \in Messages => \A x \in Sockets \cap R : Counted(heard)[x][f.message] > 0
    BY CountedOnce
  <2> HIDE DEF Counted
  <2>2. heard' = Counted(heard) /\ badge' = badge
    BY <1>1, <1>4
  <2> QED
    BY <1>4, <2>1, <2>2 DEF R
<1> QED
  BY <1>3, <1>4

LEMMA PublishTyped ==
    ASSUME relay \in [Processes -> RelayLoops], channel \in [Processes -> SUBSET Frames],
           NEW p, NEW f \in Frames, RedisPublish(p, f)
    PROVE  relay' \in [Processes -> RelayLoops] /\ channel' \in [Processes -> SUBSET Frames]
<1>1. CASE redisUp
  <2>1. relay' = [relay EXCEPT ![p] = IF @ = "off" THEN "starting" ELSE @]
        /\ channel' = [q \in Processes |-> IF relay[q] = "listening" THEN channel[q] \cup {f}
                                           ELSE channel[q]]
    BY <1>1 DEF RedisPublish
  <2> QED
    BY <2>1 DEF RelayLoops
<1>2. CASE ~redisUp
  BY <1>2 DEF RedisPublish
<1> QED
  BY <1>1, <1>2

\* What a receive loop sends is a frame that Redis can carry.
LEMMA SentFrames ==
    ASSUME ChatInv, NEW x \in Sockets, sending[x].stage # "idle"
    PROVE  /\ Frame(x) \in Frames
           /\ \A us \in SUBSET Users : ForUsers(sending[x].message, us) \in Frames
           /\ Frame(x).message = sending[x].message /\ Frame(x).badge = FALSE
           /\ socket[x].stream = "chat" => Frame(x) = ForClub(sending[x].message)
<1> DEFINE m == sending[x].message
           k == socket[x].room
<1>1. m \in Messages /\ (socket[x].stream = "room" => k \in Rooms)
  BY DEF ChatInv, SendsPlaced, SocketsPlaced
<1>2. Frame(x) = IF socket[x].stream = "room" THEN ForRoom(m, k) ELSE ForClub(m)
  BY DEF Frame
<1> HIDE DEF m, k
<1>3. /\ ForClub(m) \in Frames
      /\ k \in Rooms => ForRoom(m, k) \in Frames
      /\ \A us \in SUBSET Users : ForUsers(m, us) \in Frames
  BY <1>1 DEF Frames
<1>4. /\ ForClub(m).message = m /\ ForClub(m).badge = FALSE
      /\ ForRoom(m, k).message = m /\ ForRoom(m, k).badge = FALSE
  BY DEF ForClub, ForRoom
<1>5. Frame(x) \in Frames /\ Frame(x).message = m /\ Frame(x).badge = FALSE
  BY <1>1, <1>2, <1>3, <1>4
<1>6. socket[x].stream = "chat" => Frame(x) = ForClub(m)
  BY <1>2
<1> QED
  BY <1>3, <1>5, <1>6 DEF m

--------------------------------------------------------------------------------
(* What becomes of a connection, a message and a send in one step *)

\* The step from a handler's view, one disjunct for each of them.
LEMMA ChatSteps ==
    ASSUME [ChatsNext]_chatVars
    PROVE  \/ UNCHANGED chat
           \/ \E x \in Sockets, stream \in Streams, u \in Users, p \in Processes, k \in Rooms \cup {NoRoom} :
                 (stream = "room" => k \in Rooms) /\ Accept(x, stream, u, p, k)
           \/ \E x \in Sockets : Disconnect(x)
           \/ \E p \in Processes : ProcessDies(p)
           \/ \E u \in Users, m \in Messages : SendMessage(u, m) \/ MarkRead(u, m)
           \/ \E x \in Sockets, m \in Messages : StoreMessage(x, m)
           \/ \E x \in Sockets : BroadcastHere(x) \/ BroadcastOut(x) \/ NotifyOffline(x)
           \/ \E u \in Users, m \in Messages, as \in Changes : ChangeMessage(u, m, as)
           \/ \E c \in edits : ChangeCommitted(c) \/ ChangeLost(c)
           \/ \E u \in Users, k \in Rooms, g \in Chapters : CreateRoom(u, k, g)
           \/ \E u \in Users, k \in Rooms : DeleteRoom(u, k)
           \/ \E u \in Users, n \in Chapters : ReadOn(u, n)
           \/ \E p \in Processes : Subscribe(p) \/ (\E f \in channel[p] : Relay(p, f))
           \/ RedisDown
<1>1. CASE UNCHANGED chat
  BY <1>1
<1>2. CASE ConnectionNext
  <2>1. ASSUME NEW x \in Sockets, NEW u \in Users, NEW p \in Processes,
               ConnectClub(x, u, p) \/ ConnectMe(x, u, p)
        PROVE  \E stream \in Streams : stream # "room" /\ Accept(x, stream, u, p, NoRoom)
    BY <2>1 DEF ConnectClub, ConnectMe, Streams
  <2>2. ASSUME NEW x \in Sockets, NEW u \in Users, NEW p \in Processes, NEW k \in Rooms, ConnectRoom(x, u, p, k)
        PROVE  Accept(x, "room", u, p, k)
    BY <2>2 DEF ConnectRoom
  <2>3. "room" \in Streams
    BY DEF Streams
  <2> QED
    BY <1>2, <2>1, <2>2, <2>3 DEF ConnectionNext
<1>3. CASE MessageNext
  BY <1>3 DEF MessageNext
<1>4. CASE RoomNext
  BY <1>4 DEF RoomNext
<1>5. CASE RelayNext
  BY <1>5 DEF RelayNext
<1> QED
  BY <1>1, <1>2, <1>3, <1>4, <1>5 DEF ChatsNext, ChatNext, chatVars

\* A connection keeps its user, process and stream, and never opens again.
LEMMA SocketsAge ==
    ASSUME ChatTypeOK, SocketsPlaced, [ChatsNext]_chatVars
    PROVE  /\ socket' \in [Sockets -> SocketRows] /\ SocketsPlaced'
           /\ \A x \in Sockets : socket[x].stream # "none" =>
                  /\ socket'[x].stream = socket[x].stream /\ socket'[x].user = socket[x].user
                  /\ socket'[x].process = socket[x].process /\ socket'[x].room = socket[x].room
                  /\ socket'[x].open => socket[x].open
<1>1. socket \in [Sockets -> SocketRows]
  BY DEF ChatTypeOK
<1>2. CASE UNCHANGED socket
  BY <1>1, <1>2 DEF SocketsPlaced
<1>3. ASSUME NEW x \in Sockets, NEW stream \in Streams, NEW u \in Users, NEW p \in Processes,
             NEW k \in Rooms \cup {NoRoom}, stream = "room" => k \in Rooms, Accept(x, stream, u, p, k)
      PROVE  /\ socket' \in [Sockets -> SocketRows] /\ SocketsPlaced'
             /\ \A y \in Sockets : socket[y].stream # "none" => socket'[y] = socket[y]
  <2> DEFINE row == [open |-> TRUE, stream |-> stream, user |-> u, process |-> p, room |-> k]
  <2>1. socket[x].stream = "none" /\ socket' = [socket EXCEPT ![x] = row]
    BY <1>3 DEF Accept
  <2>2. row \in SocketRows /\ row.stream = stream /\ row.stream # "none"
        /\ row.user = u /\ row.process = p /\ row.room = k
    BY DEF SocketRows, Streams
  <2> HIDE DEF row
  <2>3. \A y \in Sockets : socket'[y] = IF y = x THEN row ELSE socket[y]
    BY <1>1, <2>1
  <2>4. socket' \in [Sockets -> SocketRows]
    BY <1>1, <2>1, <2>2
  <2>5. SocketsPlaced'
    <3> SUFFICES ASSUME NEW y \in Sockets
                 PROVE  IF socket'[y].stream = "none" THEN ~socket'[y].open
                        ELSE /\ socket'[y].user \in Users /\ socket'[y].process \in Processes
                             /\ socket'[y].stream = "room" => socket'[y].room \in Rooms
      BY DEF SocketsPlaced
    <3>1. CASE y = x
      BY <1>3, <2>2, <2>3, <3>1
    <3>2. CASE y # x
      BY <2>3, <3>2 DEF SocketsPlaced
    <3> QED
      BY <3>1, <3>2
  <2> QED
    BY <2>1, <2>3, <2>4, <2>5
<1>4. ASSUME NEW L \in SUBSET Sockets,
             socket' = [x \in Sockets |-> IF x \in L THEN [socket[x] EXCEPT !.open = FALSE] ELSE socket[x]]
      PROVE  /\ socket' \in [Sockets -> SocketRows] /\ SocketsPlaced'
             /\ \A x \in Sockets :
                    /\ socket'[x].stream = socket[x].stream /\ socket'[x].user = socket[x].user
                    /\ socket'[x].process = socket[x].process /\ socket'[x].room = socket[x].room
                    /\ socket'[x].open => socket[x].open
  <2>1. ASSUME NEW x \in Sockets
        PROVE  /\ socket'[x] \in SocketRows
               /\ socket'[x].stream = socket[x].stream /\ socket'[x].user = socket[x].user
               /\ socket'[x].process = socket[x].process /\ socket'[x].room = socket[x].room
               /\ socket'[x].open => socket[x].open
    <3>1. socket'[x] = IF x \in L THEN [socket[x] EXCEPT !.open = FALSE] ELSE socket[x]
      BY <1>4
    <3> QED
      BY <1>1, <3>1 DEF SocketRows
  <2>2. SocketsPlaced'
    BY <2>1 DEF SocketsPlaced
  <2>3. socket' \in [Sockets -> SocketRows]
    BY <1>4, <2>1
  <2> QED
    BY <2>1, <2>2, <2>3
<1>5. ASSUME NEW x \in Sockets, Disconnect(x)
      PROVE  socket' = [y \in Sockets |-> IF y \in {x} THEN [socket[y] EXCEPT !.open = FALSE] ELSE socket[y]]
  BY <1>1, <1>5 DEF Disconnect
<1>6. ASSUME NEW p \in Processes, ProcessDies(p)
      PROVE  \E L \in SUBSET Sockets :
                socket' = [x \in Sockets |-> IF x \in L THEN [socket[x] EXCEPT !.open = FALSE] ELSE socket[x]]
  <2> WITNESS {x \in Sockets : socket[x].process = p} \in SUBSET Sockets
  <2> QED
    BY <1>6 DEF ProcessDies
<1>7. \/ UNCHANGED socket
      \/ \E x \in Sockets, stream \in Streams, u \in Users, p \in Processes, k \in Rooms \cup {NoRoom} :
            (stream = "room" => k \in Rooms) /\ Accept(x, stream, u, p, k)
      \/ \E x \in Sockets : Disconnect(x)
      \/ \E p \in Processes : ProcessDies(p)
  BY ChatSteps DEF chat, stored, delivery, transport, SendMessage, MarkRead, StoreMessage, BroadcastHere,
                   BroadcastOut, NotifyOffline, ChangeMessage, ChangeCommitted, ChangeLost, CreateRoom,
                   DeleteRoom, ReadOn, Subscribe, Relay, RedisDown
<1>8. CASE \E x \in Sockets : Disconnect(x)
  <2>1. PICK x \in Sockets : Disconnect(x)
    BY <1>8
  <2>2. {x} \in SUBSET Sockets
    OBVIOUS
  <2> QED
    BY <1>4, <1>5, <2>1, <2>2
<1> QED
  BY <1>2, <1>3, <1>4, <1>6, <1>7, <1>8

\* A message that was sent keeps its author and stays sent.
LEMMA MessagesStay ==
    ASSUME ChatTypeOK, SocketsPlaced, [ChatsNext]_chatVars
    PROVE  /\ message' \in [Messages -> MessageRows]
           /\ \A m \in Messages : message[m].content # "unsent" =>
                  message'[m].content # "unsent" /\ message'[m].author = message[m].author
<1>1. message \in [Messages -> MessageRows] /\ edits \subseteq Edits
  BY DEF ChatTypeOK
<1>2. ASSUME NEW u \in Users, NEW m \in Messages, Post(u, m)
      PROVE  /\ message' \in [Messages -> MessageRows]
             /\ \A n \in Messages : message[n].content # "unsent" => message'[n] = message[n]
  <2> DEFINE row == [content |-> "sent", author |-> u, room |-> NoRoom]
  <2>1. row \in MessageRows
    BY DEF MessageRows, Contents
  <2>2. message[m].content = "unsent" /\ message' = [message EXCEPT ![m] = row]
    BY <1>2 DEF Post
  <2> HIDE DEF row
  <2> QED
    BY <1>1, <2>1, <2>2
<1>3. ASSUME NEW c \in edits, ChangeCommitted(c)
      PROVE  /\ message' \in [Messages -> MessageRows]
             /\ \A n \in Messages : message[n].content # "unsent" =>
                    message'[n].content # "unsent" /\ message'[n].author = message[n].author
  <2> DEFINE row == [message[c.message] EXCEPT !.content = c.as]
  <2>1. c.message \in Messages /\ c.as \in Changes
    BY <1>1 DEF Edits
  <2>2. row \in MessageRows /\ row.content # "unsent" /\ row.author = message[c.message].author
    BY <1>1, <2>1 DEF MessageRows, Contents, Changes
  <2>3. message' = [message EXCEPT ![c.message] = row]
    BY <1>3 DEF ChangeCommitted
  <2> HIDE DEF row
  <2> QED
    BY <1>1, <2>1, <2>2, <2>3
<1>4. ASSUME NEW u \in Users, NEW k \in Rooms, DeleteRoom(u, k)
      PROVE  /\ message' \in [Messages -> MessageRows]
             /\ \A n \in Messages :
                    message'[n].content = message[n].content /\ message'[n].author = message[n].author
  <2>1. message' = [n \in Messages |-> IF message[n].room = k THEN [message[n] EXCEPT !.room = NoRoom]
                                       ELSE message[n]]
    BY <1>4 DEF DeleteRoom
  <2>2. ASSUME NEW n \in Messages
        PROVE  /\ message'[n] \in MessageRows
               /\ message'[n].content = message[n].content /\ message'[n].author = message[n].author
    <3>1. message'[n] = IF message[n].room = k THEN [message[n] EXCEPT !.room = NoRoom] ELSE message[n]
      BY <2>1
    <3> QED
      BY <1>1, <3>1 DEF MessageRows
  <2> QED
    BY <2>1, <2>2
<1>5. ASSUME NEW x \in Sockets, NEW m \in Messages, StoreMessage(x, m)
      PROVE  socket[x].user \in Users /\ Post(socket[x].user, m)
  BY <1>5 DEF StoreMessage, SocketsPlaced
<1>6. \/ UNCHANGED message
      \/ \E u \in Users, m \in Messages : Post(u, m)
      \/ \E x \in Sockets, m \in Messages : StoreMessage(x, m)
      \/ \E c \in edits : ChangeCommitted(c)
      \/ \E u \in Users, k \in Rooms : DeleteRoom(u, k)
  BY ChatSteps DEF chat, stored, delivery, transport, Accept, Disconnect, ProcessDies, SendMessage,
                   MarkRead, BroadcastHere, BroadcastOut, NotifyOffline, ChangeMessage, ChangeLost,
                   CreateRoom, ReadOn, Subscribe, Relay, RedisDown
<1> QED
  BY <1>1, <1>2, <1>3, <1>4, <1>5, <1>6

\* No socket forgets what reached it.
LEMMA CountsGrow ==
    ASSUME ChatInv, [ChatsNext]_chatVars
    PROVE  /\ heard' \in Tallies /\ badge' \in Tallies
           /\ \A x \in Sockets, m \in Messages : heard[x][m] <= heard'[x][m]
<1>1. /\ heard \in Tallies /\ badge \in Tallies
      /\ \A x \in Sockets, m \in Messages : heard[x][m] \in Nat
  BY DEF ChatInv, ChatTypeOK, Tallies
<1>2. \/ UNCHANGED delivery
      \/ \E x \in Sockets : BroadcastHere(x) \/ NotifyOffline(x)
      \/ \E p \in Processes : \E f \in channel[p] : Relay(p, f)
  BY ChatSteps DEF chat, stored, delivery, transport, Accept, Disconnect, ProcessDies, SendMessage,
                   StoreMessage, MarkRead, BroadcastOut, ChangeMessage, ChangeCommitted, ChangeLost,
                   CreateRoom, DeleteRoom, ReadOn, Subscribe, RedisDown
<1>3. UNCHANGED delivery \/ \E p, f : SendLocal(p, f)
  BY <1>2 DEF BroadcastHere, NotifyOffline, Relay
<1>4. CASE UNCHANGED delivery
  BY <1>1, <1>4 DEF delivery
<1>5. CASE \E p, f : SendLocal(p, f)
  BY <1>1, <1>5, FrameCounted
<1> QED
  BY <1>3, <1>4, <1>5

\* What a receive loop does in one step.
LEMMA SendSteps ==
    ASSUME ChatInv, [ChatsNext]_chatVars, NEW x \in Sockets
    PROVE  \/ sending'[x] = sending[x]
           \/ sending'[x] = NotSending
           \/ \E m \in Messages : StoreMessage(x, m)
           \/ BroadcastHere(x)
           \/ BroadcastOut(x) /\ socket[x].stream # "room"
<1>1. sending \in [Sockets -> Sends]
  BY DEF ChatInv, ChatTypeOK
<1>2. \/ UNCHANGED sending
      \/ \E p \in Processes : ProcessDies(p)
      \/ \E y \in Sockets, m \in Messages : StoreMessage(y, m)
      \/ \E y \in Sockets : BroadcastHere(y) \/ BroadcastOut(y) \/ NotifyOffline(y)
  BY ChatSteps DEF chat, stored, delivery, transport, Accept, Disconnect, SendMessage, MarkRead,
                   ChangeMessage, ChangeCommitted, ChangeLost, CreateRoom, DeleteRoom, ReadOn,
                   Subscribe, Relay, RedisDown
<1>3. ASSUME NEW p \in Processes, ProcessDies(p)
      PROVE  sending'[x] = sending[x] \/ sending'[x] = NotSending
  BY <1>3 DEF ProcessDies
<1>4. ASSUME NEW y \in Sockets, NEW m \in Messages, StoreMessage(y, m), y # x
      PROVE  sending'[x] = sending[x]
  BY <1>1, <1>4 DEF StoreMessage
<1>5. ASSUME NEW y \in Sockets, BroadcastHere(y) \/ BroadcastOut(y) \/ NotifyOffline(y), y # x
      PROVE  sending'[x] = sending[x]
  BY <1>1, <1>5 DEF BroadcastHere, BroadcastOut, NotifyOffline
<1>6. ASSUME NotifyOffline(x) \/ (BroadcastOut(x) /\ socket[x].stream = "room")
      PROVE  sending'[x] = NotSending
  BY <1>1, <1>6 DEF NotifyOffline, BroadcastOut
<1>7. CASE \E y \in Sockets : BroadcastHere(y) \/ BroadcastOut(y) \/ NotifyOffline(y)
  BY <1>5, <1>6, <1>7
<1> QED
  BY <1>2, <1>3, <1>4, <1>7

LEMMA SendsKept ==
    ASSUME ChatInv, [ChatsNext]_chatVars, NEW x \in Sockets
    PROVE  /\ sending'[x] \in Sends
           /\ sending'[x].stage # "idle" =>
                /\ socket'[x].stream \in {"chat", "room"}
                /\ sending'[x].stage = "published" => socket'[x].stream = "chat"
                /\ sending'[x].message \in Messages
                /\ message'[sending'[x].message].content # "unsent"
                /\ message'[sending'[x].message].author = socket'[x].user
                /\ \A y \in sending'[x].owed : /\ socket'[y].stream # "none"
                                               /\ socket'[y].process = socket'[x].process
           /\ sending'[x].stage \in {"sentHere", "published"} /\ socket'[x].stream = "chat" =>
                \A y \in sending'[x].owed :
                    socket'[y].open /\ socket'[y].stream = "chat" => heard'[y][sending'[x].message] > 0
<1> DEFINE s == sending[x]
           m == sending[x].message
<1>1. /\ sending \in [Sockets -> Sends] /\ s \in Sends /\ s.owed \subseteq Sockets
      /\ ChatTypeOK /\ SocketsPlaced /\ socket \in [Sockets -> SocketRows]
  BY DEF ChatInv, ChatTypeOK, Sends
<1>2. \A y \in Sockets : socket[y].stream # "none" =>
          /\ socket'[y].stream = socket[y].stream /\ socket'[y].user = socket[y].user
          /\ socket'[y].process = socket[y].process
          /\ socket'[y].open => socket[y].open
  BY <1>1, SocketsAge
<1>3. \A n \in Messages : message[n].content # "unsent" =>
          message'[n].content # "unsent" /\ message'[n].author = message[n].author
  BY <1>1, MessagesStay
<1>4. \A y \in Sockets, n \in Messages : heard[y][n] \in Nat /\ heard'[y][n] \in Nat
                                        /\ heard[y][n] <= heard'[y][n]
  BY <1>1, CountsGrow DEF ChatTypeOK, Tallies
\* What is underway stays what it was, whatever others do.
<1>5. ASSUME s.stage # "idle"
      PROVE  /\ socket'[x].stream = socket[x].stream /\ socket[x].stream \in {"chat", "room"}
             /\ s.stage = "published" => socket[x].stream = "chat"
             /\ m \in Messages
             /\ message'[m].content # "unsent" /\ message'[m].author = socket'[x].user
             /\ \A y \in s.owed : /\ socket'[y].stream # "none" /\ socket'[y].stream = socket[y].stream
                                  /\ socket'[y].process = socket'[x].process
                                  /\ socket'[y].open => socket[y].open
  <2>1. /\ socket[x].stream \in {"chat", "room"}
        /\ s.stage = "published" => socket[x].stream = "chat"
        /\ m \in Messages
        /\ message[m].content # "unsent" /\ message[m].author = socket[x].user
        /\ \A y \in s.owed : socket[y].stream # "none" /\ socket[y].process = socket[x].process
    BY <1>5 DEF ChatInv, SendsPlaced
  <2>2. socket'[x].stream = socket[x].stream /\ socket'[x].user = socket[x].user
        /\ socket'[x].process = socket[x].process
    BY <1>2, <2>1
  <2> HIDE DEF s, m
  <2> QED
    BY <1>1, <1>2, <1>3, <2>1, <2>2
<1>6. CASE sending'[x] = s
  <2>1. ASSUME s.stage \in {"sentHere", "published"}, socket'[x].stream = "chat", NEW y \in s.owed,
               socket'[y].open, socket'[y].stream = "chat"
        PROVE  heard'[y][m] > 0
    <3>1. s.stage # "idle"
      BY <2>1
    <3>2. m \in Messages /\ y \in Sockets /\ heard[y][m] > 0
      BY <1>1, <1>5, <2>1, <3>1 DEF ChatInv, BroadcastsReached, ReachedHere, Connected
    <3> QED
      BY <1>4, <3>2
  <2> HIDE DEF s, m
  <2>2. sending'[x].message = s.message
    BY <1>6
  <2> QED
    BY <1>1, <1>5, <1>6, <2>1, <2>2 DEF m, s
<1>7. CASE sending'[x] = NotSending
  BY <1>7 DEF NotSending, Sends, Stages
<1>8. ASSUME NEW n \in Messages, StoreMessage(x, n)
      PROVE  /\ sending'[x] \in Sends /\ sending'[x].stage = "stored" /\ sending'[x].message = n
             /\ socket' = socket /\ socket[x].stream \in {"chat", "room"}
             /\ message'[n].content = "sent" /\ message'[n].author = socket[x].user
             /\ \A y \in sending'[x].owed : socket[y].stream # "none" /\ socket[y].process = socket[x].process
  <2> DEFINE owed == {y \in Sockets : Connected(y) /\ socket[y].process = socket[x].process}
             new == [stage |-> "stored", message |-> n, owed |-> owed]
  <2>1. sending' = [sending EXCEPT ![x] = new]
    BY <1>8 DEF StoreMessage
  <2>2. new \in Sends /\ new.stage = "stored" /\ new.message = n /\ new.owed = owed
    BY DEF Sends, Stages
  <2>3. \A y \in owed : socket[y].stream # "none" /\ socket[y].process = socket[x].process
    BY <1>1 DEF SocketsPlaced, Connected
  <2>4. /\ socket' = socket /\ socket[x].stream \in {"chat", "room"}
        /\ message' = [message EXCEPT ![n] = [content |-> "sent", author |-> socket[x].user, room |-> NoRoom]]
    BY <1>8 DEF StoreMessage, Post
  <2>5. message \in [Messages -> MessageRows]
    BY <1>1 DEF ChatTypeOK
  <2> HIDE DEF new, owed
  <2> QED
    BY <1>1, <2>1, <2>2, <2>3, <2>4, <2>5
<1>9. CASE BroadcastHere(x)
  <2> DEFINE p == socket[x].process
  <2>1. /\ s.stage = "stored" /\ socket' = socket
        /\ sending' = [sending EXCEPT ![x].stage = "sentHere"]
        /\ SendLocal(p, Frame(x))
    BY <1>9 DEF BroadcastHere
  <2>2. /\ sending'[x].stage = "sentHere" /\ sending'[x].message = m /\ sending'[x].owed = s.owed
        /\ sending'[x] \in Sends
    BY <1>1, <2>1 DEF Sends, Stages
  <2>3. ASSUME socket[x].stream = "chat", NEW y \in s.owed, socket[y].open, socket[y].stream = "chat"
        PROVE  heard'[y][m] > 0
    <3>1. Frame(x) = ForClub(m) /\ m \in Messages /\ socket[y].process = p
      BY <2>1, <2>3, SentFrames DEF ChatInv, SendsPlaced
    <3>2. y \in Receivers(p, ForClub(m)) /\ y \in Sockets
      BY <1>1, <2>3, <3>1 DEF Receivers, ForClub, ClubSockets, Connected
    <3>3. ForClub(m).message = m /\ ForClub(m).badge = FALSE
      BY DEF ForClub
    <3>4. heard \in Tallies /\ badge \in Tallies
      BY <1>1 DEF ChatTypeOK, Tallies
    <3>5. SendLocal(p, ForClub(m))
      BY <2>1, <3>1
    <3> HIDE DEF m, p
    <3>6. \A z \in Sockets \cap Receivers(p, ForClub(m)) :
             IF ForClub(m).badge THEN badge'[z][ForClub(m).message] > 0
             ELSE heard'[z][ForClub(m).message] > 0
      BY <3>1, <3>3, <3>4, <3>5, FrameCounted
    <3> QED
      BY <3>2, <3>3, <3>6
  <2>4. s.stage # "idle"
    BY <2>1
  <2> HIDE DEF s, m
  <2> QED
    BY <1>1, <1>5, <2>1, <2>2, <2>3, <2>4
<1>10. CASE BroadcastOut(x) /\ socket[x].stream # "room"
  <2>1. /\ s.stage = "sentHere" /\ socket' = socket /\ heard' = heard
        /\ sending' = [sending EXCEPT ![x] = [s EXCEPT !.stage = "published"]]
    BY <1>10 DEF BroadcastOut, delivery
  <2>2. /\ sending'[x].stage = "published" /\ sending'[x].message = m /\ sending'[x].owed = s.owed
        /\ sending'[x] \in Sends
    BY <1>1, <2>1 DEF Sends, Stages
  <2>3. ASSUME socket[x].stream = "chat", NEW y \in s.owed, socket[y].open, socket[y].stream = "chat"
        PROVE  heard'[y][m] > 0
    BY <2>1, <2>3 DEF ChatInv, BroadcastsReached, ReachedHere, Connected
  <2>4. s.stage # "idle" /\ socket[x].stream # "room"
    BY <1>10, <2>1
  <2> HIDE DEF s, m
  <2> QED
    BY <1>1, <1>5, <2>1, <2>2, <2>3, <2>4
<1>11. CASE \E n \in Messages : StoreMessage(x, n)
  BY <1>8, <1>11
<1> QED
  BY <1>6, <1>7, <1>9, <1>10, <1>11, SendSteps

--------------------------------------------------------------------------------
(* The invariant of the chat *)

LEMMA ChatTypesKept ==
    ASSUME ChatInv, [ChatsNext]_chatVars
    PROVE  ChatTypeOK'
<1>1. /\ chapter \in [Users -> Chapters] /\ room \in [Rooms -> RoomRows]
      /\ receipt \in [Messages -> SUBSET Users] /\ edits \subseteq Edits
      /\ redisUp \in BOOLEAN
      /\ relay \in [Processes -> RelayLoops] /\ channel \in [Processes -> SUBSET Frames]
      /\ sending \in [Sockets -> Sends]
  BY DEF ChatInv, ChatTypeOK
<1>2. chapter' \in [Users -> Chapters]
  <2>1. UNCHANGED chapter \/ \E u \in Users, n \in Chapters : ReadOn(u, n)
    BY ChatSteps DEF chat, stored, delivery, transport, Accept, Disconnect, ProcessDies, SendMessage,
                     StoreMessage, MarkRead, BroadcastHere, BroadcastOut, NotifyOffline, ChangeMessage,
                     ChangeCommitted, ChangeLost, CreateRoom, DeleteRoom, Subscribe, Relay, RedisDown
  <2> QED
    BY <1>1, <2>1 DEF ReadOn
<1>3. room' \in [Rooms -> RoomRows]
  <2>1. \/ UNCHANGED room
        \/ \E u \in Users, k \in Rooms, g \in Chapters : CreateRoom(u, k, g)
        \/ \E u \in Users, k \in Rooms : DeleteRoom(u, k)
    BY ChatSteps DEF chat, stored, delivery, transport, Accept, Disconnect, ProcessDies, SendMessage,
                     StoreMessage, MarkRead, BroadcastHere, BroadcastOut, NotifyOffline, ChangeMessage,
                     ChangeCommitted, ChangeLost, ReadOn, Subscribe, Relay, RedisDown
  <2>2. NoGate \in RoomRows /\ \A g \in Chapters : [made |-> TRUE, gate |-> g] \in RoomRows
    BY ChatAssumption DEF NoGate, RoomRows
  <2> QED
    BY <1>1, <2>1, <2>2 DEF CreateRoom, DeleteRoom
<1>4. receipt' \in [Messages -> SUBSET Users]
  <2>1. UNCHANGED receipt \/ \E u \in Users, m \in Messages : MarkRead(u, m)
    BY ChatSteps DEF chat, stored, delivery, transport, Accept, Disconnect, ProcessDies, SendMessage,
                     StoreMessage, BroadcastHere, BroadcastOut, NotifyOffline, ChangeMessage,
                     ChangeCommitted, ChangeLost, CreateRoom, DeleteRoom, ReadOn, Subscribe, Relay, RedisDown
  <2>2. ASSUME NEW u \in Users, NEW m \in Messages, MarkRead(u, m)
        PROVE  receipt' \in [Messages -> SUBSET Users]
    <3>1. receipt' = [receipt EXCEPT ![m] = receipt[m] \cup {u}] /\ receipt[m] \cup {u} \in SUBSET Users
      BY <1>1, <2>2 DEF MarkRead
    <3> QED
      BY <1>1, <3>1
  <2> QED
    BY <1>1, <2>1, <2>2
<1>5. edits' \subseteq Edits
  <2>1. \/ edits' \subseteq edits
        \/ \E u \in Users, m \in Messages, as \in Changes : ChangeMessage(u, m, as)
    BY ChatSteps DEF chat, stored, delivery, transport, Accept, Disconnect, ProcessDies, SendMessage,
                     StoreMessage, MarkRead, BroadcastHere, BroadcastOut, NotifyOffline,
                     ChangeCommitted, ChangeLost, CreateRoom, DeleteRoom, ReadOn, Subscribe, Relay, RedisDown
  <2> QED
    BY <1>1, <2>1 DEF ChangeMessage, Edits
<1>6. redisUp' \in BOOLEAN
  <2>1. redisUp' = redisUp \/ redisUp' = FALSE
    BY ChatSteps DEF chat, stored, delivery, transport, Accept, Disconnect, ProcessDies, SendMessage,
                     StoreMessage, MarkRead, BroadcastHere, BroadcastOut, NotifyOffline, ChangeMessage,
                     ChangeCommitted, ChangeLost, CreateRoom, DeleteRoom, ReadOn, Subscribe, Relay, RedisDown
  <2> QED
    BY <1>1, <2>1
<1>7. relay' \in [Processes -> RelayLoops] /\ channel' \in [Processes -> SUBSET Frames]
  <2>1. \/ UNCHANGED <<relay, channel>>
        \/ \E p \in Processes : ProcessDies(p)
        \/ \E x \in Sockets : BroadcastOut(x) \/ NotifyOffline(x)
        \/ \E p \in Processes : Subscribe(p) \/ (\E f \in channel[p] : Relay(p, f))
        \/ RedisDown
    BY ChatSteps DEF chat, stored, delivery, transport, Accept, Disconnect, SendMessage,
                     StoreMessage, MarkRead, BroadcastHere, ChangeMessage,
                     ChangeCommitted, ChangeLost, CreateRoom, DeleteRoom, ReadOn
  <2>2. ASSUME NEW p \in Processes, ProcessDies(p)
        PROVE  relay' \in [Processes -> RelayLoops] /\ channel' \in [Processes -> SUBSET Frames]
    BY <1>1, <2>2 DEF ProcessDies, RelayLoops
  <2>3. ASSUME NEW x \in Sockets, BroadcastOut(x)
        PROVE  relay' \in [Processes -> RelayLoops] /\ channel' \in [Processes -> SUBSET Frames]
    <3>1. sending[x].stage # "idle" /\ RedisPublish(socket[x].process, Frame(x))
      BY <2>3 DEF BroadcastOut
    <3> QED
      BY <1>1, <3>1, SentFrames, PublishTyped
  <2>4. ASSUME NEW x \in Sockets, NotifyOffline(x)
        PROVE  relay' \in [Processes -> RelayLoops] /\ channel' \in [Processes -> SUBSET Frames]
    <3> DEFINE f == ForUsers(sending[x].message, OfflineMembers(x))
    <3>1. sending[x].stage # "idle" /\ (UNCHANGED <<channel, relay>> \/ RedisPublish(socket[x].process, f))
      BY <2>4 DEF NotifyOffline
    <3>2. OfflineMembers(x) \in SUBSET Users
      BY DEF OfflineMembers, ClubMembers
    <3>3. f \in Frames
      BY <3>1, <3>2, SentFrames
    <3> HIDE DEF f
    <3> QED
      BY <1>1, <3>1, <3>3, PublishTyped
  <2>5. ASSUME NEW p \in Processes, Subscribe(p)
        PROVE  relay' \in [Processes -> RelayLoops] /\ channel' \in [Processes -> SUBSET Frames]
    BY <1>1, <2>5 DEF Subscribe, RelayLoops
  <2>6. ASSUME NEW p \in Processes, NEW f \in channel[p], Relay(p, f)
        PROVE  relay' \in [Processes -> RelayLoops] /\ channel' \in [Processes -> SUBSET Frames]
    <3>1. channel' = [channel EXCEPT ![p] = channel[p] \ {f}] /\ channel[p] \ {f} \in SUBSET Frames
          /\ relay' = relay
      BY <1>1, <2>6 DEF Relay
    <3> QED
      BY <1>1, <3>1
  <2>7. CASE RedisDown
    BY <2>7 DEF RedisDown, RelayLoops
  <2> QED
    BY <1>1, <2>1, <2>2, <2>3, <2>4, <2>5, <2>6, <2>7
<1>8. sending' \in [Sockets -> Sends]
  <2>1. \A x \in Sockets : sending'[x] \in Sends
    BY SendsKept
  <2>2. sending' = [x \in Sockets |-> sending'[x]]
    <3>1. \/ UNCHANGED sending
          \/ \E p \in Processes : ProcessDies(p)
          \/ \E y \in Sockets, m \in Messages : StoreMessage(y, m)
          \/ \E y \in Sockets : BroadcastHere(y) \/ BroadcastOut(y) \/ NotifyOffline(y)
      BY ChatSteps DEF chat, stored, delivery, transport, Accept, Disconnect, SendMessage, MarkRead,
                       ChangeMessage, ChangeCommitted, ChangeLost, CreateRoom, DeleteRoom, ReadOn,
                       Subscribe, Relay, RedisDown
    <3> QED
      BY <1>1, <3>1 DEF ProcessDies, StoreMessage, BroadcastHere, BroadcastOut, NotifyOffline
  <2> QED
    BY <2>1, <2>2
<1>9. /\ socket' \in [Sockets -> SocketRows] /\ message' \in [Messages -> MessageRows]
      /\ heard' \in Tallies /\ badge' \in Tallies
  BY SocketsAge, MessagesStay, CountsGrow DEF ChatInv
<1> QED
  BY <1>2, <1>3, <1>4, <1>5, <1>6, <1>7, <1>8, <1>9 DEF ChatTypeOK, Tallies

LEMMA ChatKeepsInv ==
    ASSUME ChatInv, [ChatsNext]_chatVars
    PROVE  ChatInv'
<1>1. ChatTypeOK' /\ SocketsPlaced'
  BY ChatTypesKept, SocketsAge DEF ChatInv
<1>2. SendsPlaced'
  BY SendsKept DEF SendsPlaced
<1>3. BroadcastsReached'
  BY SendsKept DEF BroadcastsReached, ReachedHere, Connected
<1> QED
  BY <1>1, <1>2, <1>3 DEF ChatInv

THEOREM ChatInvariant == ChatsSpec => []ChatInv
<1>1. ChatInit => ChatInv
  <2>1. ASSUME ChatInit
        PROVE  ChatTypeOK
    BY <2>1, ChatAssumption
       DEF ChatInit, ChatTypeOK, RoomRows, NoGate, MessageRows, Contents, SocketRows, Sends, Stages,
           NotSending, Edits, RelayLoops
  <2> QED
    BY <2>1 DEF ChatInit, ChatInv, SocketsPlaced, SendsPlaced, BroadcastsReached, NotSending
<1>2. ChatInv /\ [ChatsNext]_chatVars => ChatInv'
  BY ChatKeepsInv
<1> QED
  BY <1>1, <1>2, PTL DEF ChatsSpec

\* Type correctness of a club's chat, whatever its processes and Redis do.
THEOREM ChatTypeCorrect == ChatsSpec => []ChatTypeOK
<1>1. ChatInv => ChatTypeOK
  BY DEF ChatInv
<1> QED
  BY <1>1, ChatInvariant, PTL

\* For any number of processes, sockets and messages: the fan-out of a chat
\* message that its process lives to finish has reached every other member whose
\* socket was open on that process when the message was stored and still is, by
\* the message or by the badge, whoever enters the chat, leaves it or joins the
\* club in between (ws_router.py _notify_offline_club_members).
THEOREM FanOutIsComplete == ChatsSpec => FanOutReachesMembers
<1>1. ASSUME ChatInv, [ChatsNext]_chatVars, NEW x \in Sockets,
             sending[x].stage = "published", sending'[x] = NotSending, NEW y \in sending[x].owed,
             socket'[y].open, IsMember(socket[y].user), socket[y].user # message[sending[x].message].author
      PROVE  \/ heard'[y][sending[x].message] > 0
             \/ socket[y].stream # "chat"
                /\ (badge'[y][sending[x].message] > 0 \/ socket[y].user \in InRoom(socket[x].process))
  <2> DEFINE m == sending[x].message
             u == socket[y].user
             p == socket[x].process
             f == ForUsers(m, OfflineMembers(x))
  <2>1. /\ sending \in [Sockets -> Sends] /\ y \in Sockets /\ m \in Messages
        /\ heard \in Tallies /\ badge \in Tallies
        /\ socket[x].stream = "chat" /\ message[m].author = socket[x].user
        /\ socket[y].stream # "none" /\ socket[y].process = p /\ u \in Users
    BY <1>1 DEF ChatInv, ChatTypeOK, SendsPlaced, SocketsPlaced, Sends, Tallies
  <2>2. socket[y].open /\ ReachedHere(x)
    BY <1>1, <2>1, SocketsAge DEF ChatInv, BroadcastsReached
  <2>3. NotifyOffline(x)
    <3>1. \/ UNCHANGED sending
          \/ \E q \in Processes : ProcessDies(q)
          \/ \E z \in Sockets, n \in Messages : StoreMessage(z, n)
          \/ \E z \in Sockets : BroadcastHere(z) \/ BroadcastOut(z) \/ NotifyOffline(z)
      BY <1>1, ChatSteps DEF chat, stored, delivery, transport, Accept, Disconnect, SendMessage, MarkRead,
                       ChangeMessage, ChangeCommitted, ChangeLost, CreateRoom, DeleteRoom, ReadOn,
                       Subscribe, Relay, RedisDown
    <3>2. sending'[x] # sending[x]
      BY <1>1 DEF NotSending
    <3>3. ASSUME NEW q \in Processes, ProcessDies(q)
          PROVE  FALSE
      <4>1. socket[x].process = q
        BY <3>2, <3>3 DEF ProcessDies
      <4>2. socket'[y] = [socket[y] EXCEPT !.open = FALSE]
        BY <2>1, <3>3, <4>1 DEF ProcessDies
      <4>3. socket[y] \in SocketRows
        BY <1>1, <2>1 DEF ChatInv, ChatTypeOK
      <4> QED
        BY <1>1, <4>2, <4>3 DEF SocketRows
    <3>4. ASSUME NEW z \in Sockets, \E n \in Messages : StoreMessage(z, n)
          PROVE  FALSE
      <4>1. z = x
        BY <2>1, <3>2, <3>4 DEF StoreMessage
      <4> QED
        BY <1>1, <3>4, <4>1 DEF StoreMessage, NotSending
    <3>5. ASSUME NEW z \in Sockets, BroadcastHere(z) \/ BroadcastOut(z) \/ NotifyOffline(z)
          PROVE  z = x
      BY <2>1, <3>2, <3>5 DEF BroadcastHere, BroadcastOut, NotifyOffline
    <3>6. ~BroadcastHere(x) /\ ~BroadcastOut(x)
      BY <1>1 DEF BroadcastHere, BroadcastOut
    <3> QED
      BY <3>1, <3>2, <3>3, <3>4, <3>5, <3>6
  <2>4. CASE socket[y].stream = "chat"
    <3>1. heard[y][m] > 0 /\ heard[y][m] \in Nat /\ heard'[y][m] \in Nat /\ heard[y][m] <= heard'[y][m]
      BY <1>1, <2>1, <2>2, <2>4, CountsGrow DEF ReachedHere, Connected, Tallies
    <3> QED
      BY <3>1
  <2>5. CASE socket[y].stream # "chat"
    <3>1. SUFFICES ASSUME u \notin InRoom(p)
                   PROVE  badge'[y][m] > 0
      BY <2>5
    <3>2. u \in OfflineMembers(x)
      BY <1>1, <2>1, <3>1 DEF OfflineMembers, ClubMembers, IsMember
    <3>3. y \in Receivers(p, f) /\ f.badge /\ f.message = m
      BY <2>1, <2>2, <3>2 DEF Receivers, ForUsers, UserSockets, Connected
    <3>4. SendLocal(p, f)
      BY <2>3 DEF NotifyOffline
    <3> HIDE DEF f, m, p
    <3> QED
      BY <2>1, <3>3, <3>4, FrameCounted
  <2> QED
    BY <2>4, <2>5
<1>2. ChatInv /\ [ChatsNext]_chatVars =>
        [\A x \in Sockets :
            (sending[x].stage = "published" /\ sending'[x] = NotSending) =>
              \A y \in sending[x].owed :
                  LET u == socket[y].user
                      m == sending[x].message
                  IN  (socket'[y].open /\ IsMember(u) /\ u # message[m].author) =>
                          \/ heard'[y][m] > 0
                          \/ socket[y].stream # "chat"
                             /\ (badge'[y][m] > 0 \/ u \in InRoom(socket[x].process))]_chatVars
  BY <1>1
<1> QED
  BY <1>2, ChatInvariant, PTL DEF ChatsSpec, FanOutReachesMembers

--------------------------------------------------------------------------------
(* The whole club *)

\* Each part, with the requests of the others between its steps, behaves as it
\* does when only the membership changes under it: what is proved of the parts
\* holds of the whole (domains/club).
THEOREM WholeClubIsItsParts == WholeSpec => ClubSpec /\ ClubsSpec /\ ChatsSpec
<1>1. WholeInit => ClubInit /\ DiscussInit /\ ChatInit
  BY DEF WholeInit
<1>2. [WholeNext]_wholeVars => [ClubNext]_clubVars /\ [ClubsNext]_discussVars /\ [ChatsNext]_chatVars
  <2>1. ASSUME SessionNext \/ AgendaNext
        PROVE  UNCHANGED clubVars
    BY <2>1 DEF SessionNext, AgendaNext, CreateSession, SetSessionPresenter, TransitionSession,
                TransitionCommitted, CreateAgenda, UpdateAgenda, PublishAgenda, AgendaPublished
  <2>2. ASSUME TopicNext \/ CommentNext \/ \E r \in Calls : CallLost(r)
        PROVE  UNCHANGED clubVars
    BY <2>2 DEF TopicNext, CommentNext, AddTopic, UpdateTopic, DeleteTopic, ReorderTopics, TopicAdded,
                TopicsReordered, AddComment, CommentAdded, UpdateComment, DeleteComment, CallLost
  <2>3. ASSUME ConnectionNext \/ RelayNext
        PROVE  UNCHANGED clubVars
    BY <2>3 DEF ConnectionNext, RelayNext, ConnectClub, ConnectMe, ConnectRoom, Accept, Disconnect,
                ProcessDies, Subscribe, Relay, RedisDown
  <2>4. ASSUME MessageNext \/ RoomNext
        PROVE  UNCHANGED clubVars
    BY <2>4 DEF MessageNext, RoomNext, SendMessage, MarkRead, StoreMessage, BroadcastHere, BroadcastOut,
                NotifyOffline, ChangeMessage, ChangeCommitted, ChangeLost, CreateRoom, DeleteRoom, ReadOn
  <2> QED
    BY <2>1, <2>2, <2>3, <2>4 DEF DiscussNext, ChatNext, WholeNext, wholeVars, discussVars, chatVars, ClubsNext, ChatsNext
<1> QED
  BY <1>1, <1>2, PTL DEF WholeSpec, ClubSpec, ClubsSpec, ChatsSpec

\* Type correctness of the club with its discussions and its chat.
THEOREM WholeTypeCorrect == WholeSpec => []TypeOK
<1>1. ClubTypeOK /\ DiscussionTypeOK /\ ChatTypeOK => TypeOK
  BY DEF TypeOK
<1> QED
  BY <1>1, WholeClubIsItsParts, ClubTypeCorrect, DiscussionTypeCorrect, ChatTypeCorrect, PTL

================================================================================
