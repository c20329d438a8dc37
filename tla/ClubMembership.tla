----------------------------- MODULE ClubMembership -----------------------------
(***************************************************************************)
(* One reading club (domains/club): its members, its events and their      *)
(* answers, and its reading plan.  A request is one database transaction    *)
(* that commits when the handler returns.  Joining reads the number of      *)
(* members and inserts the row later, so joins overlap between the two;     *)
(* every other request here is one statement after its checks, and what it  *)
(* checked cannot make a difference to the row it writes, so it is one      *)
(* action.                                                                  *)
(***************************************************************************)
EXTENDS Integers, FiniteSets

CONSTANTS
    Users,
    ClubRequests,   \* join requests that may be in flight at a time
    Capacities,     \* values of max_members clubs are created with
    Books,          \* books a club may read
    PageCount,      \* page_count of each book, 0 when the catalog has none
    DefaultPages,   \* _DEFAULT_PAGE_COUNT
    ClubEvents,     \* ids events may get
    Pages,          \* values of current_page a member may report
    LastDay,        \* bound on the date
    MaxJoinPosts,   \* bound on the CLUB_JOINED events of one user
    NoUser, NoBook

ASSUME ClubAssumption ==
    /\ IsFiniteSet(Users) /\ NoUser \notin Users
    /\ IsFiniteSet(ClubRequests) /\ ClubRequests # {}
    /\ Capacities \subseteq Nat \ {0, 1}
    /\ NoBook \notin Books
    /\ PageCount \in [Books -> Nat]
    /\ DefaultPages \in Nat \ {0}
    /\ Pages \subseteq Nat
    /\ LastDay \in Nat
    /\ MaxJoinPosts \in Nat

VARIABLES
    club,        \* reading_clubs: the row, NoClub before create_club
    role,        \* club_members.role of each user
    page,        \* club_members.current_page
    joining,     \* what each join request has found out
    joinPosts,   \* CLUB_JOINED feed events of each user
    pro,         \* users.is_pro
    plan,        \* club_reading_plans: the most recently created row
    today,       \* date.today()
    event,       \* club_events
    rsvp         \* event_attendees.status

membership == <<club, role, page, joining, joinPosts>>
planning == <<pro, plan, today>>
eventing == <<event, rsvp>>
clubVars == <<membership, planning, eventing>>

ClubRoles == {"owner", "member"}
NotMember == "none"

NoClub == [open |-> FALSE, owner |-> NoUser, capacity |-> 0, public |-> FALSE,
           book |-> NoBook]
Clubs == [open : BOOLEAN, owner : Users \cup {NoUser},
          capacity : Capacities \cup {0}, public : BOOLEAN,
          book : Books \cup {NoBook}]

\* A join request that has found a free place holds the user and whether it
\* came through join_public.
NoJoin == [user |-> NoUser, public |-> FALSE]
Joins == [user : Users \cup {NoUser}, public : BOOLEAN]

Days == 0 .. LastDay
NoPlan == [made |-> FALSE, pages |-> 0, start |-> 0, end |-> 0, weekly |-> 0]
Plans == [made : BOOLEAN, pages : Nat, start : Days, end : Days, weekly : Nat]

RSVPStatus == {"going", "maybe", "not_going"}
NoAnswer == "none"
NoEvent == [held |-> FALSE, limit |-> 0]
\* max_attendees, 0 for none
EventRows == [held : BOOLEAN, limit : Nat]

ClubInit ==
    /\ club = NoClub
    /\ role = [u \in Users |-> NotMember]
    /\ page = [u \in Users |-> 0]
    /\ joining = [r \in ClubRequests |-> NoJoin]
    /\ joinPosts = [u \in Users |-> 0]
    /\ pro \in SUBSET Users
    /\ plan = NoPlan
    /\ today = 0
    /\ event = [e \in ClubEvents |-> NoEvent]
    /\ rsvp = [e \in ClubEvents |-> [u \in Users |-> NoAnswer]]

--------------------------------------------------------------------------------
(* What the repository answers                                             *)

ClubMembers == {u \in Users : role[u] # NotMember}

MemberCount == Cardinality(ClubMembers)

IsMember(u) == role[u] # NotMember

\* get_members_with_progress; get_member_ids
OtherMembers(u) == ClubMembers \ {u}

\* Role "manager" is looked for and assigned by nothing.
IsOwnerOrManager(u) == club.open /\ (club.owner = u \/ role[u] \in {"owner", "manager"})

\* _assert_host and _assert_can_view_club
IsHost(u) == club.open /\ role[u] = "owner"
CanView(u) == club.open /\ (club.public \/ IsMember(u))

--------------------------------------------------------------------------------
(* Members                                                                 *)

CreateClub(u, capacity, public, book) ==
    /\ ~club.open
    /\ club' = [open |-> TRUE, owner |-> u, capacity |-> capacity,
                public |-> public, book |-> book]
    /\ role' = [role EXCEPT ![u] = "owner"]
    /\ UNCHANGED <<page, joining, joinPosts, planning, eventing>>

\* Fault variant of FindPlace: the limit itself is let in.
FindPlaceAtLimit(r, u, public) ==
    /\ club.open
    /\ joining[r] = NoJoin
    /\ public => club.public
    /\ MemberCount <= club.capacity
    /\ joining' = [joining EXCEPT ![r] = [user |-> u, public |-> public]]
    /\ UNCHANGED <<club, role, page, joinPosts, planning, eventing>>

\* join_by_code and join_public up to the count.  The count is compared first:
\* a member of a full club is refused too.
FindPlace(r, u, public) ==
    /\ club.open
    /\ joining[r] = NoJoin
    /\ public => club.public
    /\ MemberCount < club.capacity
    /\ joining' = [joining EXCEPT ![r] = [user |-> u, public |-> public]]
    /\ UNCHANGED <<club, role, page, joinPosts, planning, eventing>>

JoinByCode(r, u) == FindPlace(r, u, FALSE)

JoinPublic(r, u) ==
    /\ joinPosts[u] < MaxJoinPosts
    /\ FindPlace(r, u, TRUE)

\* record_club_joined: create_event(user_id, "CLUB_JOINED").
RecordClubJoined(u) == joinPosts' = [joinPosts EXCEPT ![u] = @ + 1]

\* is_member, the insert and the commit.  The primary key refuses a second
\* row of a user whose other request was faster, which rolls this one back.
TakePlace(r) ==
    LET u == joining[r].user IN
    /\ u # NoUser
    /\ IF IsMember(u)
       THEN UNCHANGED <<role, page, joinPosts>>
       ELSE /\ role' = [role EXCEPT ![u] = "member"]
            /\ page' = [page EXCEPT ![u] = 0]
            /\ IF joining[r].public THEN RecordClubJoined(u)
               ELSE UNCHANGED joinPosts
    /\ joining' = [joining EXCEPT ![r] = NoJoin]
    /\ UNCHANGED <<club, planning, eventing>>

\* The process or the connection of a join request dies before its commit.
JoinLost(r) ==
    /\ joining[r] # NoJoin
    /\ joining' = [joining EXCEPT ![r] = NoJoin]
    /\ UNCHANGED <<club, role, page, joinPosts, planning, eventing>>

LeaveClub(u) ==
    /\ club.open
    /\ club.owner # u
    /\ IsMember(u)
    /\ role' = [role EXCEPT ![u] = NotMember]
    /\ page' = [page EXCEPT ![u] = 0]
    /\ UNCHANGED <<club, joining, joinPosts, planning, eventing>>

SetBook(u, book) ==
    /\ club.open
    /\ club.owner = u
    /\ club' = [club EXCEPT !.book = book]
    /\ UNCHANGED <<role, page, joining, joinPosts, planning, eventing>>

MembershipNext ==
    \/ \E u \in Users, n \in Capacities, p \in BOOLEAN, b \in Books \cup {NoBook} :
           CreateClub(u, n, p, b)
    \/ \E r \in ClubRequests, u \in Users : JoinByCode(r, u) \/ JoinPublic(r, u)
    \/ \E r \in ClubRequests : TakePlace(r) \/ JoinLost(r)
    \/ \E u \in Users : LeaveClub(u)
    \/ \E u \in Users, b \in Books \cup {NoBook} : SetBook(u, b)

--------------------------------------------------------------------------------
(* Reading plan                                                            *)

CeilDiv(a, b) == (a + b - 1) \div b

Larger(a, b) == IF a > b THEN a ELSE b
Smaller(a, b) == IF a < b THEN a ELSE b

\* max(1, ceil((days + 1) / 7)); a plan may end before it starts.
PlanWeeks(start, end) == Larger(1, CeilDiv(end - start + 1, 7))

\* Fault variant of ElapsedWeeks: a week counts when it is over.
ElapsedWeeksRoundedDown(p, day) ==
    Smaller(Larger(1, (day - p.start + 1) \div 7), PlanWeeks(p.start, p.end))

ElapsedWeeks(p, day) == Smaller(PlanWeeks(p.start, day), PlanWeeks(p.start, p.end))

\* The page a member is expected to have reached on the given day, and the
\* share of it that is read, in percent rounded down.
ExpectedPage(p, day) == p.weekly * ElapsedWeeks(p, day)

ProgressPct(current, p, day) ==
    IF ~p.made \/ ExpectedPage(p, day) <= 0 THEN 0
    ELSE Larger(0, Smaller(100, (current * 100) \div ExpectedPage(p, day)))

\* get_book_page_count(book) or _DEFAULT_PAGE_COUNT
TotalPages(book) == IF PageCount[book] = 0 THEN DefaultPages ELSE PageCount[book]

\* The member push that follows swallows its failures and keeps nothing.
CreateReadingPlan(u, book, start, end) ==
    /\ club.open
    /\ club.owner = u
    /\ u \in pro
    /\ plan' = [made |-> TRUE, pages |-> TotalPages(book), start |-> start, end |-> end,
                weekly |-> CeilDiv(TotalPages(book), PlanWeeks(start, end))]
    /\ UNCHANGED <<membership, pro, today, eventing>>

UpdateMemberProgress(u, current) ==
    /\ IsMember(u)
    /\ page' = [page EXCEPT ![u] = current]
    /\ UNCHANGED <<club, role, joining, joinPosts, planning, eventing>>

\* get_club_progress, for the members listed
ClubProgress(day) == [u \in ClubMembers |-> ProgressPct(page[u], plan, day)]

NextDay ==
    /\ today < LastDay
    /\ today' = today + 1
    /\ UNCHANGED <<membership, pro, plan, eventing>>

PlanNext ==
    \/ \E u \in Users, b \in Books, s, e \in Days : CreateReadingPlan(u, b, s, e)
    \/ \E u \in Users, n \in Pages : UpdateMemberProgress(u, n)
    \/ NextDay

--------------------------------------------------------------------------------
(* Events                                                                  *)

\* Fault variant of CreateEvent: a place is set aside for the host.
CreateEventCountingHost(u, e, limit) ==
    /\ ~event[e].held
    /\ IsOwnerOrManager(u)
    /\ event' = [event EXCEPT ![e] = [held |-> TRUE, limit |-> limit - 1]]
    /\ UNCHANGED <<membership, planning, rsvp>>

CreateEvent(u, e, limit) ==
    /\ ~event[e].held
    /\ IsOwnerOrManager(u)
    /\ event' = [event EXCEPT ![e] = [held |-> TRUE, limit |-> limit]]
    /\ UNCHANGED <<membership, planning, rsvp>>

\* A field left out keeps its value: a limit once set cannot be taken away.
UpdateEvent(u, e, limit) ==
    /\ event[e].held
    /\ IsOwnerOrManager(u)
    /\ event' = [event EXCEPT ![e].limit = IF limit = 0 THEN @ ELSE limit]
    /\ UNCHANGED <<membership, planning, rsvp>>

\* The answers go with the event: ON DELETE CASCADE.
DeleteEvent(u, e) ==
    /\ event[e].held
    /\ IsOwnerOrManager(u)
    /\ event' = [event EXCEPT ![e] = NoEvent]
    /\ rsvp' = [rsvp EXCEPT ![e] = [v \in Users |-> NoAnswer]]
    /\ UNCHANGED <<membership, planning>>

\* upsert_rsvp.  Nothing compares the answers with max_attendees.
Rsvp(u, e, answer) ==
    /\ event[e].held
    /\ IsMember(u)
    /\ rsvp' = [rsvp EXCEPT ![e][u] = answer]
    /\ UNCHANGED <<membership, planning, event>>

\* get_attendee_counts
AttendeeCount(e, answer) == Cardinality({u \in Users : rsvp[e][u] = answer})

EventNext ==
    \/ \E u \in Users, e \in ClubEvents, n \in {0, 1} : CreateEvent(u, e, n) \/ UpdateEvent(u, e, n)
    \/ \E u \in Users, e \in ClubEvents : DeleteEvent(u, e)
    \/ \E u \in Users, e \in ClubEvents, a \in RSVPStatus : Rsvp(u, e, a)

ClubNext == MembershipNext \/ PlanNext \/ EventNext

ClubSpec == ClubInit /\ [][ClubNext]_clubVars

--------------------------------------------------------------------------------
(* Properties                                                              *)

ClubTypeOK ==
    /\ club \in Clubs
    /\ role \in [Users -> ClubRoles \cup {NotMember}]
    /\ page \in [Users -> Nat]
    /\ joining \in [ClubRequests -> Joins]
    /\ joinPosts \in [Users -> 0 .. MaxJoinPosts + Cardinality(ClubRequests)]
    /\ pro \subseteq Users
    /\ plan \in Plans
    /\ today \in Days
    /\ event \in [ClubEvents -> EventRows]
    /\ rsvp \in [ClubEvents -> [Users -> RSVPStatus \cup {NoAnswer}]]

\* max_members is exceeded by less than the number of join requests that
\* overlap, and never when one is answered before the next comes: the count
\* and the insert of join_by_code and join_public are apart.
CapacityOverrun ==
    club.open => MemberCount < club.capacity + Cardinality(ClubRequests)

\* A member shown at 100 percent on or after the last day of the plan has read
\* the book: weekly_pages, the weeks of the plan and the weeks elapsed, each
\* rounded up, add up (create_reading_plan, get_club_progress).
FullProgressMeansRead ==
    (plan.made /\ today >= plan.end) =>
        \A u \in ClubMembers : ClubProgress(today)[u] = 100 => page[u] >= plan.pages

================================================================================
