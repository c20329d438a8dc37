-------------------------------- MODULE MCClubs --------------------------------
(* The clubs component on small sets.  Each behaviour exercises one part of  *)
(* it, chosen at the start, together with members who join and leave; the    *)
(* tables of the other parts stay empty, so that the state spaces add up     *)
(* instead of multiplying.  Ids are given in increasing order.               *)
EXTENDS WholeClub

CONSTANTS u1, u2, u3, u4, b1, Foci

VARIABLE focus

mcVars == <<wholeVars, focus>>

MCPageCount == [b \in {b1} |-> 5]

MCInit ==
    /\ focus \in Foci
    /\ WholeInit
    /\ pro \subseteq (IF focus = "plan" THEN {u1} ELSE {})
    /\ focus # "chat" => ~redisUp

In(part) == focus = part

Lowest(ids) == {x \in ids : \A y \in ids : x <= y}

\* Outside the focus "members" the club is public, u1 owns it, and requests to
\* join follow each other.
Founded == CreateClub(u1, 3, TRUE, b1)

ComeAndGo ==
    \/ Founded
    \/ \E r \in ClubRequests, u \in Users \ {u4} :
          joining = [q \in ClubRequests |-> NoJoin] /\ role[u] = NotMember /\ JoinByCode(r, u)
    \/ \E r \in ClubRequests : TakePlace(r)

TwoMembers ==
    \/ Founded
    \/ \E r \in ClubRequests :
          \/ joining = [q \in ClubRequests |-> NoJoin] /\ JoinByCode(r, u2)
          \/ TakePlace(r)

ClubPart ==
    \/ In("members") /\ MembershipNext
    \/ In("plan") /\ (Founded \/ PlanNext)
    \/ In("events") /\ (ComeAndGo \/ (\E u \in Users : LeaveClub(u)) \/ EventNext)
    \/ In("sessions") /\ (ComeAndGo \/ \E u \in Users : LeaveClub(u))
    \/ In("topics") /\ Founded
    \/ In("comments") /\ TwoMembers
    \/ In("chat") /\ TwoMembers
    \/ In("rooms") /\ (TwoMembers \/ LeaveClub(u2))

Lost == \E r \in Calls : CallLost(r)

\* u1 holds the session and writes its agenda.
Prepared ==
    \/ \E s \in Sessions : CreateSession(u1, s, NoUser)
    \/ \E s \in Sessions, a \in Agendas : CreateAgenda(u1, s, a)

FreeTopics == {t \in Topics : /\ topic[t].life = "unused"
                              /\ \A r \in Calls : call[r].op = "append" => call[r].topic # t}
FreeComments == {c \in Comments : /\ comment[c].life = "unused"
                                  /\ \A r \in Calls : call[r].op = "comment" => call[r].id # c}

\* Requests are alike: the next one takes any that is idle.
NextCall == {r \in Calls : call[r] = Idle /\ r = CHOOSE q \in Calls : call[q] = Idle}

OneTopic ==
    \/ \E r \in NextCall, a \in Agendas, t \in Lowest(FreeTopics) :
          TopicsOf(a) = {} /\ Placing(a) = {} /\ AddTopic(r, u1, a, t)
    \/ \E r \in Calls : TopicAdded(r)
    \/ \E a \in Agendas, t \in Topics : DeleteTopic(u1, a, t)

\* Of an agenda with three topics one reorder is in flight at a time, and lists
\* that repeat one of two topics are sent when nothing else is under way.
SmallReorder(r, a) ==
    LET n == Cardinality(TopicsOf(a)) IN
    /\ n > 2 => \A q \in Calls : call[q].op # "reorder"
    /\ ReorderTopics(r, u1, a)
    /\ Len(call'[r].order) > n => n = 2 /\ Placing(a) = {}

TopicWork ==
    \/ \E r \in NextCall, a \in Agendas, t \in Lowest(FreeTopics) : AddTopic(r, u1, a, t)
    \/ \E a \in Agendas, t \in Topics : DeleteTopic(u1, a, t) \/ (t = 3 /\ UpdateTopic(u1, a, t))
    \/ \E r \in NextCall, a \in Agendas : SmallReorder(r, a)
    \/ \E r \in Calls : TopicAdded(r) \/ TopicsReordered(r)

CommentWork ==
    \/ \E r \in NextCall, u \in Users, t \in Topics, p \in Comments \cup {NoComment},
          c \in Lowest(FreeComments) : AddComment(r, u, t, p, c)
    \/ \E r \in Calls, b \in BOOLEAN : CommentAdded(r, b)
    \/ \E u \in Users, c \in Comments : UpdateComment(u, c) \/ DeleteComment(u, c)

DiscussPart ==
    \/ In("sessions") /\ (SessionNext \/ AgendaNext \/ Lost)
    \/ In("topics") /\ (Prepared \/ TopicWork \/ Lost)
    \/ In("comments") /\ (Prepared \/ OneTopic \/ CommentWork \/ Lost)

\* "chat" is about the fan-out of what arrives on chat sockets, "rooms" about
\* gates, room sockets, receipts and changes, with sockets of one process.
NextSocket == Lowest({x \in Sockets : socket[x].stream = "none"})

ChatTraffic ==
    \/ \E x \in NextSocket, u \in {u1, u2}, p \in Processes :
          ConnectClub(x, u, p) \/ ConnectMe(x, u, p)
    \/ \E x \in Sockets, m \in Messages : StoreMessage(x, m)
    \/ \E x \in Sockets :
          Disconnect(x) \/ BroadcastHere(x) \/ BroadcastOut(x) \/ NotifyOffline(x)
    \/ \E p \in Processes : ProcessDies(p)
    \/ RelayNext

RoomTraffic ==
    \/ \E k \in Rooms, g \in Chapters : CreateRoom(u1, k, g) \/ DeleteRoom(u1, k)
    \/ \E n \in Chapters : ReadOn(u2, n)
    \/ \E x \in NextSocket \cap {1, 2}, u \in {u1, u2}, k \in Rooms :
          ConnectRoom(x, u, CHOOSE p \in Processes : TRUE, k)
    \/ \E x \in Sockets : Disconnect(x)
    \/ MessageNext

ChatPart == (In("chat") /\ ChatTraffic) \/ (In("rooms") /\ RoomTraffic)

MCNext ==
    /\ UNCHANGED focus
    /\ \/ ClubPart /\ UNCHANGED <<discussion, chat>>
       \/ DiscussPart /\ UNCHANGED chat
       \/ ChatPart /\ UNCHANGED discussion

MCSpec == MCInit /\ [][MCNext]_mcVars

================================================================================
