----------------------------- MODULE ClubDiscussion -----------------------------
(***************************************************************************)
(* What a club discusses: its sessions, the agendas written for them, the  *)
(* topics of an agenda and the comments under a topic (domains/club,        *)
(* service.py from create_session on).  Where a request decides from what   *)
(* it has loaded and writes later, it is two steps, and other requests      *)
(* commit between them: the session of SQLAlchemy keeps the copy it loaded  *)
(* and never looks again.  Pushes leave before the commit, which may still  *)
(* fail.  Texts are not modelled, only whether they were replaced.          *)
(***************************************************************************)
EXTENDS ClubMembership, Sequences, SequencesExt

CONSTANTS
    Sessions, Agendas, Topics, Comments,   \* ids rows may get
    Calls,         \* discussion requests that may be in flight at a time
    NoSession, NoAgenda, NoTopic, NoComment

ASSUME DiscussionAssumption ==
    /\ Sessions \cap Agendas = {} /\ IsFiniteSet(Topics)
    /\ NoSession \notin Sessions /\ NoAgenda \notin Agendas
    /\ NoTopic \notin Topics /\ NoComment \notin Comments

VARIABLES
    session,   \* club_sessions
    agenda,    \* session_agendas
    topic,     \* agenda_topics
    comment,   \* topic_comments
    posts,     \* session_opened and agenda_published feed events, by row
    pushed,    \* users each agenda or comment was pushed to
    call,      \* what each request in flight has loaded
    raced      \* history: agendas two requests on whose topics overlapped

discussion == <<session, agenda, topic, comment, posts, pushed, call, raced>>
discussVars == <<clubVars, discussion>>

SessionStatus == <<"draft", "open", "closed">>
AgendaStatus == {"draft", "published"}

SessionRows == [made : BOOLEAN, status : ToSet(SessionStatus), presenter : Users \cup {NoUser}]
AgendaRows == [made : BOOLEAN, session : Sessions \cup {NoSession},
               author : Users \cup {NoUser}, status : AgendaStatus, edited : BOOLEAN]
\* Ids are uuids: the row of an id that is "gone" was deleted or rolled back.
Lives == {"unused", "live", "gone"}
TopicRows == [life : Lives, agenda : Agendas \cup {NoAgenda}, position : Nat, edited : BOOLEAN]
CommentRows == [life : Lives, topic : Topics \cup {NoTopic}, author : Users \cup {NoUser},
                parent : Comments \cup {NoComment}, edited : BOOLEAN]

Idle == [op |-> "idle"]

DiscussInit ==
    /\ session = [s \in Sessions |-> [made |-> FALSE, status |-> "draft", presenter |-> NoUser]]
    /\ agenda = [a \in Agendas |-> [made |-> FALSE, session |-> NoSession, author |-> NoUser,
                                    status |-> "draft", edited |-> FALSE]]
    /\ topic = [t \in Topics |-> [life |-> "unused", agenda |-> NoAgenda, position |-> 0,
                                  edited |-> FALSE]]
    /\ comment = [c \in Comments |-> [life |-> "unused", topic |-> NoTopic, author |-> NoUser,
                                      parent |-> NoComment, edited |-> FALSE]]
    /\ posts = [x \in Sessions \cup Agendas |-> 0]
    /\ pushed = [x \in Agendas \cup Comments |-> {}]
    /\ call = [r \in Calls |-> Idle]
    /\ raced = {}

\* A request in flight dies, or its client goes away, before it wrote.
CallLost(r) ==
    /\ call[r] # Idle
    /\ call' = [call EXCEPT ![r] = Idle]
    /\ UNCHANGED <<clubVars, session, agenda, topic, comment, posts, pushed, raced>>

--------------------------------------------------------------------------------
(* Sessions                                                                *)

CreateSession(u, s, presenter) ==
    /\ IsHost(u)
    /\ ~session[s].made
    /\ presenter # NoUser => IsMember(presenter)
    /\ session' = [session EXCEPT ![s] = [made |-> TRUE, status |-> "draft",
                                          presenter |-> presenter]]
    /\ UNCHANGED <<clubVars, agenda, topic, comment, posts, pushed, raced, call>>

\* One column is written, whatever the rest of the row has become.
SetSessionPresenter(u, s, presenter) ==
    /\ IsHost(u)
    /\ session[s].made
    /\ presenter # NoUser => IsMember(presenter)
    /\ session' = [session EXCEPT ![s].presenter = presenter]
    /\ UNCHANGED <<clubVars, agenda, topic, comment, posts, pushed, raced, call>>

\* _validate_status_transition: only the next step of draft, open, closed.
NextStatus(current, target) ==
    \E i \in 1 .. Len(SessionStatus) - 1 :
        SessionStatus[i] = current /\ SessionStatus[i + 1] = target

TransitionSession(r, u, s, target) ==
    /\ call[r] = Idle
    /\ IsHost(u)
    /\ session[s].made
    /\ NextStatus(session[s].status, target)
    /\ call' = [call EXCEPT ![r] = [op |-> "status", session |-> s, status |-> target]]
    /\ UNCHANGED <<clubVars, session, agenda, topic, comment, posts, pushed, raced>>

\* update_session_status checks nothing again; an opening goes to the feed.
TransitionCommitted(r) ==
    /\ call[r].op = "status"
    /\ session' = [session EXCEPT ![call[r].session].status = call[r].status]
    /\ posts' = IF call[r].status = "open" THEN [posts EXCEPT ![call[r].session] = @ + 1]
                ELSE posts
    /\ call' = [call EXCEPT ![r] = Idle]
    /\ UNCHANGED <<clubVars, agenda, topic, comment, pushed, raced>>

SessionNext ==
    \/ \E u \in Users, s \in Sessions, p \in Users \cup {NoUser} :
           CreateSession(u, s, p) \/ SetSessionPresenter(u, s, p)
    \/ \E r \in Calls, u \in Users, s \in Sessions, t \in ToSet(SessionStatus) :
           TransitionSession(r, u, s, t)
    \/ \E r \in Calls : TransitionCommitted(r)

--------------------------------------------------------------------------------
(* Agendas                                                                 *)

\* _assert_host_or_presenter does not ask whether the presenter still is a member.
HostOrPresenter(u, s) ==
    /\ club.open
    /\ session[s].made
    /\ club.owner = u \/ session[s].presenter = u

\* _get_agenda_in_session
InSession(a) == agenda[a].made /\ session[agenda[a].session].made

CreateAgenda(u, s, a) ==
    /\ ~agenda[a].made
    /\ HostOrPresenter(u, s)
    /\ agenda' = [agenda EXCEPT ![a] = [made |-> TRUE, session |-> s, author |-> u,
                                        status |-> "draft", edited |-> FALSE]]
    /\ UNCHANGED <<clubVars, session, topic, comment, posts, pushed, raced, call>>

\* The text may change at any time, whatever the status of session or agenda.
UpdateAgenda(u, a) ==
    /\ InSession(a)
    /\ HostOrPresenter(u, agenda[a].session)
    /\ agenda' = [agenda EXCEPT ![a].edited = TRUE]
    /\ UNCHANGED <<clubVars, session, topic, comment, posts, pushed, raced, call>>

PublishAgenda(r, u, a) ==
    /\ call[r] = Idle
    /\ InSession(a)
    /\ HostOrPresenter(u, agenda[a].session)
    /\ agenda[a].status # "published"
    /\ call' = [call EXCEPT ![r] = [op |-> "publish", agenda |-> a, user |-> u]]
    /\ UNCHANGED <<clubVars, session, agenda, topic, comment, posts, pushed, raced>>

\* Fault variant of AgendaPublished: the feed event has a transaction of its own.
AgendaPublishedAnyway(r, committed) ==
    /\ call[r].op = "publish"
    /\ LET a == call[r].agenda IN
       /\ pushed' = [pushed EXCEPT ![a] = @ \cup OtherMembers(call[r].user)]
       /\ posts' = [posts EXCEPT ![a] = @ + 1]
       /\ agenda' = IF committed THEN [agenda EXCEPT ![a].status = "published"] ELSE agenda
    /\ call' = [call EXCEPT ![r] = Idle]
    /\ UNCHANGED <<clubVars, session, topic, comment, raced>>

\* The members of that moment are pushed to, then the transaction, with the
\* feed event in it, commits or is lost.
AgendaPublished(r, committed) ==
    /\ call[r].op = "publish"
    /\ LET a == call[r].agenda IN
       /\ pushed' = [pushed EXCEPT ![a] = @ \cup OtherMembers(call[r].user)]
       /\ IF committed
          THEN /\ agenda' = [agenda EXCEPT ![a].status = "published"]
               /\ posts' = [posts EXCEPT ![a] = @ + 1]
          ELSE UNCHANGED <<agenda, posts>>
    /\ call' = [call EXCEPT ![r] = Idle]
    /\ UNCHANGED <<clubVars, session, topic, comment, raced>>

AgendaNext ==
    \/ \E u \in Users, s \in Sessions, a \in Agendas : CreateAgenda(u, s, a)
    \/ \E u \in Users, a \in Agendas : UpdateAgenda(u, a)
    \/ \E r \in Calls, u \in Users, a \in Agendas : PublishAgenda(r, u, a)
    \/ \E r \in Calls, c \in BOOLEAN : AgendaPublished(r, c)

--------------------------------------------------------------------------------
(* Topics                                                                  *)

TopicsOf(a) == {t \in Topics : topic[t].life = "live" /\ topic[t].agenda = a}

TopicOps == {"append", "reorder"}

\* Everything below is reserved to the author of the agenda.
MayManage(u, a) == InSession(a) /\ agenda[a].author = u

\* The requests in flight that place topics of an agenda.  The next one may
\* come from a second device, or after an answer whose commit is still to come.
Placing(a) == {r \in Calls : call[r].op \in TopicOps /\ call[r].agenda = a}

NoteRace(a) == raced' = IF Placing(a) = {} THEN raced ELSE raced \cup {a}

\* Fault variant of NextTopicPosition: the number of topics.
NextTopicPositionByCount(a) == Cardinality(TopicsOf(a))

NextTopicPosition(a) ==
    IF TopicsOf(a) = {} THEN 0
    ELSE 1 + CHOOSE n \in {topic[t].position : t \in TopicsOf(a)} :
                 \A t \in TopicsOf(a) : topic[t].position <= n

AddTopic(r, u, a, t) ==
    /\ call[r] = Idle
    /\ MayManage(u, a)
    /\ topic[t].life = "unused"
    /\ \A q \in Calls : call[q].op = "append" => call[q].topic # t
    /\ call' = [call EXCEPT ![r] = [op |-> "append", agenda |-> a, topic |-> t,
                                    position |-> NextTopicPosition(a)]]
    /\ NoteRace(a)
    /\ UNCHANGED <<clubVars, session, agenda, topic, comment, posts, pushed>>

TopicAdded(r) ==
    /\ call[r].op = "append"
    /\ topic' = [topic EXCEPT ![call[r].topic] = [life |-> "live", agenda |-> call[r].agenda,
                                                  position |-> call[r].position,
                                                  edited |-> FALSE]]
    /\ call' = [call EXCEPT ![r] = Idle]
    /\ UNCHANGED <<clubVars, session, agenda, comment, posts, pushed, raced>>

UpdateTopic(u, a, t) ==
    /\ MayManage(u, a)
    /\ t \in TopicsOf(a)
    /\ topic' = [topic EXCEPT ![t].edited = TRUE]
    /\ UNCHANGED <<clubVars, session, agenda, comment, posts, pushed, raced, call>>

\* The comments go with their topic: ON DELETE CASCADE.
DeleteTopic(u, a, t) ==
    /\ MayManage(u, a)
    /\ t \in TopicsOf(a)
    /\ topic' = [topic EXCEPT ![t].life = "gone"]
    /\ comment' = [c \in Comments |->
                      IF comment[c].life = "live" /\ comment[c].topic = t
                      THEN [comment[c] EXCEPT !.life = "gone"] ELSE comment[c]]
    /\ UNCHANGED <<clubVars, session, agenda, posts, pushed, raced, call>>

\* The list sent may name a topic twice: only the two sets are compared.
Orders(a) ==
    LET n == Cardinality(TopicsOf(a))
    IN  {o \in UNION {[1 .. k -> TopicsOf(a)] : k \in n .. n + 1} : ToSet(o) = TopicsOf(a)}

\* enumerate: the last place a topic is named at counts, from 0.
PlaceIn(order, t) ==
    (CHOOSE i \in 1 .. Len(order) :
        order[i] = t /\ \A j \in i + 1 .. Len(order) : order[j] # t) - 1

ReorderTopics(r, u, a) ==
    /\ call[r] = Idle
    /\ MayManage(u, a)
    /\ TopicsOf(a) # {}
    /\ \E order \in Orders(a) :
           call' = [call EXCEPT ![r] = [op |-> "reorder", agenda |-> a, order |-> order,
                                        loaded |-> [t \in TopicsOf(a) |-> topic[t].position]]]
    /\ NoteRace(a)
    /\ UNCHANGED <<clubVars, session, agenda, topic, comment, posts, pushed>>

\* The rows of the agenda are those the request loaded, and no other request
\* is placing topics of it: what it writes is the order of the whole agenda.
WholeOrder(r) ==
    LET a == call[r].agenda IN
    /\ Placing(a) = {r}
    /\ \A t \in TopicsOf(a) : t \in DOMAIN call[r].loaded /\ call[r].loaded[t] = topic[t].position

\* Only positions that differ from the copies loaded are written.  A topic
\* deleted meanwhile is passed over, or fails the request when it goes
\* between the second SELECT and the UPDATE.
TopicsReordered(r) ==
    /\ call[r].op = "reorder"
    /\ LET o == call[r].order
           old == call[r].loaded
           Moved == {t \in DOMAIN old : PlaceIn(o, t) # old[t]}
       IN  topic' = [t \in Topics |->
                        IF t \in Moved /\ topic[t].life = "live"
                        THEN [topic[t] EXCEPT !.position = PlaceIn(o, t)] ELSE topic[t]]
    /\ raced' = IF WholeOrder(r) THEN raced \ {call[r].agenda} ELSE raced
    /\ call' = [call EXCEPT ![r] = Idle]
    /\ UNCHANGED <<clubVars, session, agenda, comment, posts, pushed>>

TopicNext ==
    \/ \E r \in Calls, u \in Users, a \in Agendas, t \in Topics : AddTopic(r, u, a, t)
    \/ \E u \in Users, a \in Agendas, t \in Topics : UpdateTopic(u, a, t) \/ DeleteTopic(u, a, t)
    \/ \E r \in Calls, u \in Users, a \in Agendas : ReorderTopics(r, u, a)
    \/ \E r \in Calls : TopicAdded(r) \/ TopicsReordered(r)

--------------------------------------------------------------------------------
(* Comments                                                                *)

CommentsOf(t) == {c \in Comments : comment[c].life = "live" /\ comment[c].topic = t}

TopicShown(t) == topic[t].life = "live" /\ InSession(topic[t].agenda)

\* Fault variant of MayAnswer: replies to replies.
MayAnswerAny(parent, t) == parent = NoComment \/ parent \in CommentsOf(t)

\* A reply goes under a comment that is not a reply itself.
MayAnswer(parent, t) ==
    parent = NoComment \/ (parent \in CommentsOf(t) /\ comment[parent].parent = NoComment)

AddComment(r, u, t, parent, c) ==
    /\ call[r] = Idle
    /\ TopicShown(t)
    /\ IsMember(u)
    /\ MayAnswer(parent, t)
    /\ comment[c].life = "unused"
    /\ \A q \in Calls : call[q].op = "comment" => call[q].id # c
    /\ call' = [call EXCEPT ![r] =
                   [op |-> "comment", id |-> c, topic |-> t, parent |-> parent, user |-> u,
                    tell |-> ({agenda[topic[t].agenda].author}
                              \cup (IF parent = NoComment THEN {} ELSE {comment[parent].author}))
                             \ {u}]]
    /\ UNCHANGED <<clubVars, session, agenda, topic, comment, posts, pushed, raced>>

\* The foreign keys refuse a comment whose topic or parent is gone.
Insertable(w) ==
    /\ topic[w.topic].life = "live"
    /\ w.parent # NoComment => comment[w.parent].life = "live"

\* The row and its feed event are flushed, the authors pushed to, then the
\* transaction commits or is lost.
CommentAdded(r, committed) ==
    /\ call[r].op = "comment"
    /\ Insertable(call[r])
    /\ LET w == call[r] IN
       /\ comment' = [comment EXCEPT ![w.id] =
                         [life |-> IF committed THEN "live" ELSE "gone", topic |-> w.topic,
                          author |-> w.user, parent |-> w.parent, edited |-> FALSE]]
       /\ pushed' = [pushed EXCEPT ![w.id] = w.tell]
    /\ call' = [call EXCEPT ![r] = Idle]
    /\ UNCHANGED <<clubVars, session, agenda, topic, posts, raced>>

\* _assert_comment_author_or_host
AuthorOrHost(u, c) == comment[c].author = u \/ club.owner = u

UpdateComment(u, c) ==
    /\ \E t \in Topics : TopicShown(t) /\ c \in CommentsOf(t)
    /\ AuthorOrHost(u, c)
    /\ comment' = [comment EXCEPT ![c].edited = TRUE]
    /\ UNCHANGED <<clubVars, session, agenda, topic, posts, pushed, raced, call>>

\* The replies go with their parent: ON DELETE CASCADE.
DeleteComment(u, c) ==
    /\ \E t \in Topics : TopicShown(t) /\ c \in CommentsOf(t)
    /\ AuthorOrHost(u, c)
    /\ comment' = [d \in Comments |->
                      IF comment[d].life = "live" /\ (d = c \/ comment[d].parent = c)
                      THEN [comment[d] EXCEPT !.life = "gone"] ELSE comment[d]]
    /\ UNCHANGED <<clubVars, session, agenda, topic, posts, pushed, raced, call>>

CommentNext ==
    \/ \E r \in Calls, u \in Users, t \in Topics, p \in Comments \cup {NoComment},
          c \in Comments : AddComment(r, u, t, p, c)
    \/ \E r \in Calls, b \in BOOLEAN : CommentAdded(r, b)
    \/ \E u \in Users, c \in Comments : UpdateComment(u, c) \/ DeleteComment(u, c)

\* _build_comment_threads: the top-level comments of a topic, each with the
\* replies that name it.
Threads(t) == [root \in {c \in CommentsOf(t) : comment[c].parent = NoComment} |->
                  {c \in CommentsOf(t) : comment[c].parent = root}]

DiscussNext ==
    \/ SessionNext \/ AgendaNext \/ TopicNext \/ CommentNext
    \/ \E r \in Calls : CallLost(r)

--------------------------------------------------------------------------------
(* Properties                                                              *)

DiscussionTypeOK ==
    /\ session \in [Sessions -> SessionRows]
    /\ agenda \in [Agendas -> AgendaRows]
    /\ topic \in [Topics -> TopicRows]
    /\ comment \in [Comments -> CommentRows]
    /\ posts \in [Sessions \cup Agendas -> Nat]
    /\ pushed \in [Agendas \cup Comments -> SUBSET Users]
    /\ raced \subseteq Agendas

\* The feed tells of an opened session or a published agenda exactly when the
\* row says so, and members are pushed to before it does: state and feed event
\* are one transaction (transition_session_status, publish_agenda).
FeedTellsTheTruth ==
    /\ \A s \in Sessions : posts[s] > 0 <=> session[s].status # "draft"
    /\ \A a \in Agendas : posts[a] > 0 <=> agenda[a].status = "published"

\* Two topics of an agenda share a position only after two requests that place
\* topics of it overlapped, and no longer than until a reorder of the whole
\* agenda went through alone: deletions that leave gaps, or that come between
\* what a request loads and what it writes, and lists that repeat ids never do
\* it (get_next_topic_position, append_topic, reorder_topics, delete_topic).
PositionsDistinct ==
    \A a \in Agendas \ raced : \A t, v \in TopicsOf(a) :
        t # v => topic[t].position # topic[v].position

\* Every comment of a topic is shown in exactly one place of its threads:
\* replies stay one level deep and never outlive or miss their parent, however
\* answering, deleting comments and deleting topics overlap (add_comment,
\* delete_comment, _build_comment_threads).
NothingLostFromThreads ==
    \A t \in Topics : topic[t].life = "live" =>
        LET th == Threads(t) IN
        /\ DOMAIN th \cup UNION {th[c] : c \in DOMAIN th} = CommentsOf(t)
        /\ \A c \in DOMAIN th : th[c] \cap DOMAIN th = {}

================================================================================
