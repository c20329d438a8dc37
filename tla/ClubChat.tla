------------------------------- MODULE ClubChat -------------------------------
(***************************************************************************)
(* The chat of a club over WebSockets (domains/club/ws_router.py and the    *)
(* messages and rooms of service.py, core/ws_manager.py).  Each process     *)
(* keeps its own sockets.  A message is stored and committed, sent to the   *)
(* sockets of the process it came to, published to Redis, and announced to  *)
(* the members who are not in the chat; each of these is a step, and        *)
(* sockets open and close between them.  A process listens to the channels  *)
(* from its first publication on, and hears what it published itself.       *)
(***************************************************************************)
EXTENDS ClubMembership

CONSTANTS
    Processes,
    Sockets,     \* connections ever made
    Messages,    \* messages ever sent
    Rooms,       \* progress-gated rooms
    Chapters,    \* values of user_books.current_chapter and progress_gate
    NoRoom, NoMessage, NoProcess

ASSUME ChatAssumption ==
    /\ Chapters \subseteq Nat /\ 0 \in Chapters
    /\ NoRoom \notin Rooms /\ NoMessage \notin Messages /\ NoProcess \notin Processes

VARIABLES
    chapter,    \* current_chapter of each user in the club's book
    room,       \* club_rooms: the gate of each room
    message,    \* club_messages
    receipt,    \* message_reads: who has read each message
    socket,     \* the connections, each with the process that accepted it
    sending,    \* what the receive loop of each socket is doing
    edits,      \* HTTP requests that replace or delete a message
    heard,      \* how often chat.message reached a socket, by message
    badge,      \* how often chat.new_message reached a socket, by message
    redisUp,
    relay,      \* the relay loop of each process
    channel     \* what Redis has not yet handed to a listening process

stored == <<chapter, room, message, receipt>>
delivery == <<heard, badge>>
transport == <<redisUp, relay, channel>>
chat == <<stored, socket, sending, edits, delivery, transport>>
chatVars == <<clubVars, chat>>

NoGate == [made |-> FALSE, gate |-> 0]
RoomRows == [made : BOOLEAN, gate : Chapters]
Contents == {"unsent", "sent", "edited", "deleted"}
MessageRows == [content : Contents, author : Users \cup {NoUser}, room : Rooms \cup {NoRoom}]

Streams == {"chat", "room", "me"}
\* stream is "none" until the connection is made
SocketRows == [open : BOOLEAN, stream : Streams \cup {"none"}, user : Users \cup {NoUser},
               process : Processes \cup {NoProcess}, room : Rooms \cup {NoRoom}]
RelayLoops == {"off", "starting", "listening"}

Stages == {"idle", "stored", "sentHere", "published"}
\* owed: the sockets that were open on this process when the message came
Sends == [stage : Stages, message : Messages \cup {NoMessage}, owed : SUBSET Sockets]
NotSending == [stage |-> "idle", message |-> NoMessage, owed |-> {}]

Changes == {"edited", "deleted"}
Edits == [message : Messages, as : Changes]

ChatInit ==
    /\ chapter = [u \in Users |-> 0]
    /\ room = [k \in Rooms |-> NoGate]
    /\ message = [m \in Messages |-> [content |-> "unsent", author |-> NoUser, room |-> NoRoom]]
    /\ receipt = [m \in Messages |-> {}]
    /\ socket = [x \in Sockets |-> [open |-> FALSE, stream |-> "none", user |-> NoUser,
                                    process |-> NoProcess, room |-> NoRoom]]
    /\ sending = [x \in Sockets |-> NotSending]
    /\ edits = {}
    /\ heard = [x \in Sockets |-> [m \in Messages |-> 0]]
    /\ badge = [x \in Sockets |-> [m \in Messages |-> 0]]
    /\ redisUp \in BOOLEAN
    /\ relay = [p \in Processes |-> "off"]
    /\ channel = [p \in Processes |-> {}]

--------------------------------------------------------------------------------
(* ConnectionManager                                                       *)

Connected(x) == socket[x].open

\* _club_sockets, _room_sockets and _user_sockets of a process.  A chat or
\* room socket is registered as a personal stream as well.
ClubSockets(p) == {x \in Sockets : /\ Connected(x) /\ socket[x].stream = "chat"
                                /\ socket[x].process = p}
RoomSockets(p, k) == {x \in Sockets : /\ Connected(x) /\ socket[x].stream = "room"
                                      /\ socket[x].room = k /\ socket[x].process = p}
UserSockets(p, us) == {x \in Sockets : /\ Connected(x)
                                       /\ socket[x].user \in us /\ socket[x].process = p}

\* What Redis carries: chat.message for the club or a room, or chat.new_message
\* for the users in to.
ForClub(m) == [message |-> m, room |-> NoRoom, to |-> {}, badge |-> FALSE]
ForRoom(m, k) == [message |-> m, room |-> k, to |-> {}, badge |-> FALSE]
ForUsers(m, us) == [message |-> m, room |-> NoRoom, to |-> us, badge |-> TRUE]
Frames == {ForClub(m) : m \in Messages}
          \cup {ForRoom(m, k) : m \in Messages, k \in Rooms}
          \cup {ForUsers(m, us) : m \in Messages, us \in SUBSET Users}

\* The local sockets a frame is for: _broadcast_local_club,
\* _broadcast_local_room and _send_local_user.
Receivers(p, f) ==
    IF f.badge THEN UserSockets(p, f.to)
    ELSE IF f.room = NoRoom THEN ClubSockets(p)
    ELSE RoomSockets(p, f.room)

SendLocal(p, f) ==
    LET Counted(log) == [x \in Sockets |->
            IF x \in Receivers(p, f) THEN [log[x] EXCEPT ![f.message] = @ + 1] ELSE log[x]]
    IN  IF f.badge THEN heard' = heard /\ badge' = Counted(badge)
        ELSE heard' = Counted(heard) /\ badge' = badge

\* _redis_publish: skipped without Redis; every listening process gets it, and
\* the first publication of a process starts its relay loop, which subscribes
\* some time later.
RedisPublish(p, f) ==
    IF redisUp
    THEN /\ channel' = [q \in Processes |->
                           IF relay[q] = "listening" THEN channel[q] \cup {f}
                           ELSE channel[q]]
         /\ relay' = [relay EXCEPT ![p] = IF @ = "off" THEN "starting" ELSE @]
    ELSE UNCHANGED <<channel, relay>>

\* psubscribe, at the head of _redis_relay_loop
Subscribe(p) ==
    /\ relay[p] = "starting"
    /\ relay' = [relay EXCEPT ![p] = "listening"]
    /\ UNCHANGED <<clubVars, stored, socket, sending, edits, delivery, redisUp, channel>>

\* One message of _redis_relay_loop.
Relay(p, f) ==
    /\ f \in channel[p]
    /\ SendLocal(p, f)
    /\ channel' = [channel EXCEPT ![p] = @ \ {f}]
    /\ UNCHANGED <<clubVars, stored, socket, sending, edits, redisUp, relay>>

\* Redis goes away: the loops end with their connection, and what it held is
\* lost.  Nothing restarts a loop but the next publication.
RedisDown ==
    /\ redisUp
    /\ redisUp' = FALSE
    /\ relay' = [p \in Processes |-> "off"]
    /\ channel' = [p \in Processes |-> {}]
    /\ UNCHANGED <<clubVars, stored, socket, sending, edits, delivery>>

--------------------------------------------------------------------------------
(* Connections                                                             *)

Accept(x, stream, u, p, k) ==
    /\ socket[x].stream = "none"
    /\ socket' = [socket EXCEPT ![x] = [open |-> TRUE, stream |-> stream, user |-> u,
                                        process |-> p, room |-> k]]
    /\ UNCHANGED <<clubVars, stored, sending, edits, delivery, transport>>

\* club_chat_stream accepts any authenticated user; send_message refuses
\* those who are not members.
ConnectClub(x, u, p) == Accept(x, "chat", u, p, NoRoom)

ConnectMe(x, u, p) == Accept(x, "me", u, p, NoRoom)

\* room_chat_stream: a member whose chapter has reached the gate.
ConnectRoom(x, u, p, k) ==
    /\ IsMember(u)
    /\ room[k].made
    /\ chapter[u] >= room[k].gate
    /\ Accept(x, "room", u, p, k)

\* The client goes away.  Nothing reaches the socket any more, but what its
\* receive loop is doing is finished first.
Disconnect(x) ==
    /\ Connected(x)
    /\ socket' = [socket EXCEPT ![x].open = FALSE]
    /\ UNCHANGED <<clubVars, stored, sending, edits, delivery, transport>>

\* A process dies with all its sockets, loops and requests.
ProcessDies(p) ==
    LET Lost == {x \in Sockets : socket[x].process = p} IN
    /\ Lost # {}
    /\ socket' = [x \in Sockets |-> IF x \in Lost THEN [socket[x] EXCEPT !.open = FALSE]
                                    ELSE socket[x]]
    /\ sending' = [x \in Sockets |-> IF x \in Lost THEN NotSending ELSE sending[x]]
    /\ relay' = [relay EXCEPT ![p] = "off"]
    /\ channel' = [channel EXCEPT ![p] = {}]
    /\ UNCHANGED <<clubVars, stored, edits, delivery, redisUp>>

--------------------------------------------------------------------------------
(* Messages                                                                *)

Post(u, m) ==
    /\ IsMember(u)
    /\ message[m].content = "unsent"
    /\ message' = [message EXCEPT ![m] = [content |-> "sent", author |-> u, room |-> NoRoom]]

\* POST /messages stores a message and sends it to nobody.
SendMessage(u, m) ==
    /\ Post(u, m)
    /\ UNCHANGED <<clubVars, chapter, room, receipt, socket, sending, edits, delivery, transport>>

\* A socket of either chat stream receives a message: send_message, which is
\* not told the room, and the commit.
StoreMessage(x, m) ==
    /\ Connected(x)
    /\ socket[x].stream \in {"chat", "room"}
    /\ sending[x] = NotSending
    /\ Post(socket[x].user, m)
    /\ sending' = [sending EXCEPT ![x] =
                      [stage |-> "stored", message |-> m,
                       owed |-> {y \in Sockets : Connected(y) /\ socket[y].process = socket[x].process}]]
    /\ UNCHANGED <<clubVars, chapter, room, receipt, socket, edits, delivery, transport>>

Frame(x) ==
    IF socket[x].stream = "room" THEN ForRoom(sending[x].message, socket[x].room)
    ELSE ForClub(sending[x].message)

\* broadcast_club or broadcast_room, first half
BroadcastHere(x) ==
    /\ sending[x].stage = "stored"
    /\ SendLocal(socket[x].process, Frame(x))
    /\ sending' = [sending EXCEPT ![x].stage = "sentHere"]
    /\ UNCHANGED <<clubVars, stored, socket, edits, transport>>

\* and second half.  A room message is announced to nobody outside the room.
BroadcastOut(x) ==
    /\ sending[x].stage = "sentHere"
    /\ RedisPublish(socket[x].process, Frame(x))
    /\ sending' = [sending EXCEPT ![x] =
                      IF socket[x].stream = "room" THEN NotSending
                      ELSE [@ EXCEPT !.stage = "published"]]
    /\ UNCHANGED <<clubVars, stored, socket, edits, delivery, redisUp>>

\* Members with a socket of theirs in the chat of this process.
InRoom(p) == {u \in ClubMembers : \E y \in ClubSockets(p) : socket[y].user = u}

\* Fault variant of OfflineMembers: any socket of a member counts as being there.
OfflineMembersUnconnected(x) ==
    LET p == socket[x].process
    IN  ClubMembers \ ({socket[y].user : y \in UserSockets(p, Users)} \cup {socket[x].user})

\* _notify_offline_club_members
OfflineMembers(x) == ClubMembers \ (InRoom(socket[x].process) \cup {socket[x].user})

NotifyOffline(x) ==
    /\ sending[x].stage = "published"
    /\ LET f == ForUsers(sending[x].message, OfflineMembers(x)) IN
       /\ SendLocal(socket[x].process, f)
       /\ IF f.to = {} THEN UNCHANGED <<channel, relay>> ELSE RedisPublish(socket[x].process, f)
    /\ sending' = [sending EXCEPT ![x] = NotSending]
    /\ UNCHANGED <<clubVars, stored, socket, edits, redisUp>>

\* mark_read: receipts are kept for ever.
MarkRead(u, m) ==
    /\ message[m].content # "unsent"
    /\ IsMember(u)
    /\ receipt' = [receipt EXCEPT ![m] = @ \cup {u}]
    /\ UNCHANGED <<clubVars, chapter, room, message, socket, sending, edits, delivery, transport>>

\* edit_message and delete_message, up to the broadcast of the change, which
\* leaves before the commit.  Membership is not asked for.
ChangeMessage(u, m, as) ==
    /\ message[m].content \in {"sent", "edited"}
    /\ message[m].author = u
    /\ \A c \in edits : c.message # m
    /\ edits' = edits \cup {[message |-> m, as |-> as]}
    /\ UNCHANGED <<clubVars, stored, socket, sending, delivery, transport>>

ChangeCommitted(c) ==
    /\ c \in edits
    /\ message' = [message EXCEPT ![c.message].content = c.as]
    /\ edits' = edits \ {c}
    /\ UNCHANGED <<clubVars, chapter, room, receipt, socket, sending, delivery, transport>>

\* The commit fails; the clients keep showing what was announced.
ChangeLost(c) ==
    /\ c \in edits
    /\ edits' = edits \ {c}
    /\ UNCHANGED <<clubVars, stored, socket, sending, delivery, transport>>

\* list_messages and get_messages: the channel of the club, or of a room.
Listed(k) == {m \in Messages : message[m].content \in {"sent", "edited"} /\ message[m].room = k}

--------------------------------------------------------------------------------
(* Rooms                                                                   *)

CreateRoom(u, k, gate) ==
    /\ IsOwnerOrManager(u)
    /\ ~room[k].made
    /\ room' = [room EXCEPT ![k] = [made |-> TRUE, gate |-> gate]]
    /\ UNCHANGED <<clubVars, chapter, message, receipt, socket, sending, edits, delivery, transport>>

\* ON DELETE SET NULL on club_messages.room_id; open sockets stay registered.
DeleteRoom(u, k) ==
    /\ IsOwnerOrManager(u)
    /\ room[k].made
    /\ room' = [room EXCEPT ![k] = NoGate]
    /\ message' = [m \in Messages |->
                      IF message[m].room = k THEN [message[m] EXCEPT !.room = NoRoom]
                      ELSE message[m]]
    /\ UNCHANGED <<clubVars, chapter, receipt, socket, sending, edits, delivery, transport>>

\* The rooms a member may enter, as list_rooms shows them.
CanEnter(u) == {k \in Rooms : room[k].made /\ chapter[u] >= room[k].gate}

\* PATCH /me/library/{id}/chapter, of the book domain
ReadOn(u, n) ==
    /\ chapter' = [chapter EXCEPT ![u] = n]
    /\ UNCHANGED <<clubVars, room, message, receipt, socket, sending, edits, delivery, transport>>

ConnectionNext ==
    \/ \E x \in Sockets, u \in Users, p \in Processes : ConnectClub(x, u, p) \/ ConnectMe(x, u, p)
    \/ \E x \in Sockets, u \in Users, p \in Processes, k \in Rooms : ConnectRoom(x, u, p, k)
    \/ \E x \in Sockets : Disconnect(x)
    \/ \E p \in Processes : ProcessDies(p)

MessageNext ==
    \/ \E u \in Users, m \in Messages : SendMessage(u, m) \/ MarkRead(u, m)
    \/ \E x \in Sockets, m \in Messages : StoreMessage(x, m)
    \/ \E x \in Sockets : BroadcastHere(x) \/ BroadcastOut(x) \/ NotifyOffline(x)
    \/ \E u \in Users, m \in Messages, as \in Changes : ChangeMessage(u, m, as)
    \/ \E c \in edits : ChangeCommitted(c) \/ ChangeLost(c)

RoomNext ==
    \/ \E u \in Users, k \in Rooms, g \in Chapters : CreateRoom(u, k, g)
    \/ \E u \in Users, k \in Rooms : DeleteRoom(u, k)
    \/ \E u \in Users, n \in Chapters : ReadOn(u, n)

RelayNext ==
    \/ \E p \in Processes : Subscribe(p) \/ (\E f \in channel[p] : Relay(p, f))
    \/ RedisDown

ChatNext == ConnectionNext \/ MessageNext \/ RoomNext \/ RelayNext

--------------------------------------------------------------------------------
(* Properties                                                              *)

ChatTypeOK ==
    /\ chapter \in [Users -> Chapters]
    /\ room \in [Rooms -> RoomRows]
    /\ message \in [Messages -> MessageRows]
    /\ receipt \in [Messages -> SUBSET Users]
    /\ socket \in [Sockets -> SocketRows]
    /\ sending \in [Sockets -> Sends]
    /\ edits \subseteq Edits
    /\ heard \in [Sockets -> [Messages -> Nat]]
    /\ badge \in [Sockets -> [Messages -> Nat]]
    /\ redisUp \in BOOLEAN
    /\ relay \in [Processes -> RelayLoops]
    /\ channel \in [Processes -> SUBSET Frames]

\* When the fan-out of a chat message ends, every other member whose socket was
\* open on this process when the message was stored, and still is, has been
\* reached: a chat socket by the message, any other by the badge unless the
\* member is in the chat by now (ws_router.py _notify_offline_club_members).
FanOutReachesMembers ==
    [][\A x \in Sockets :
          (sending[x].stage = "published" /\ sending'[x] = NotSending) =>
              \A y \in sending[x].owed :
                  LET u == socket[y].user
                      m == sending[x].message
                  IN  (socket'[y].open /\ IsMember(u) /\ u # message[m].author) =>
                          \/ heard'[y][m] > 0
                          \/ socket[y].stream # "chat"
                             /\ (badge'[y][m] > 0 \/ u \in InRoom(socket[x].process))]_chatVars

================================================================================
