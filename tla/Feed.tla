---------------------------------- MODULE Feed ----------------------------------
(***************************************************************************)
(* The feed (domains/feed): posts of a book with their comments and          *)
(* reactions, highlights and their shares, the activity events other         *)
(* services record, and the comments and reactions on those; and the lists   *)
(* of posts the community screens show (domains/community).  created_at is   *)
(* the start of the transaction that inserts the row.  Texts, images and     *)
(* pushes are left out.                                                      *)
(***************************************************************************)
EXTENDS Social

CONSTANTS
    Posts, Comments, Highlights, Events, Replies,  \* ids, numbers: a list breaks ties by id
    Reactions,     \* reaction types of a post, emojis of an event
    FeedCalls,     \* feed requests that may be in flight at a time
    NoPost, NoComment, NoHighlight, NoEvent, NoReply

ASSUME FeedAssumption == NoReply \notin Replies

VARIABLES
    post, comment,     \* posts and comments
    highlight,         \* post_highlights
    event,             \* feed_events
    reply,             \* feed_comments
    reacted,           \* reactions on posts and on events
    feedCall,          \* what each request in flight has loaded
    contested          \* history: highlights two shares of which overlapped

feedTables == <<post, comment, highlight, event, reply, reacted>>
feed == <<feedTables, feedCall, contested>>

--------------------------------------------------------------------------------
(* Rows                                                                    *)

FeedLives == {"unused", "live", "gone"}
Unmade == [life |-> "unused", at |-> 0, author |-> NoUser]

\* Private until its owner says otherwise.
Visibilities == {"private", "followers", "public"}
NewHighlight == [life |-> "unused", at |-> 0, author |-> NoUser,
                 visibility |-> "private", shared |-> FALSE]

EventTypes == {"CHAPTER_MILESTONE", "STREAK_MILESTONE", "BOOK_COMPLETED", "BOOK_REVIEWED",
               "CLUB_JOINED", "highlight_shared", "session_opened", "agenda_published",
               "discussion_commented"}

FeedIdle == [op |-> "idle"]

FeedInit ==
    /\ post = [p \in Posts |-> Unmade]
    /\ comment = [c \in Comments |-> [life |-> "unused", at |-> 0, author |-> NoUser,
                                      post |-> NoPost, parent |-> NoComment]]
    /\ highlight = [h \in Highlights |-> NewHighlight]
    /\ event = [e \in Events |-> [life |-> "unused", at |-> 0, author |-> NoUser,
                                  type |-> "BOOK_COMPLETED", about |-> NoHighlight]]
    /\ reply = [c \in Replies |-> [life |-> "unused", at |-> 0, author |-> NoUser,
                                   event |-> NoEvent, parent |-> NoReply]]
    /\ reacted = {}
    /\ feedCall = [r \in FeedCalls |-> FeedIdle]
    /\ contested = {}

Live(table) == {x \in DOMAIN table : table[x].life = "live"}
Fresh(table) == {x \in DOMAIN table : table[x].life = "unused"}

\* The highlights whose share in flight the request c joins.
Joins(c) ==
    {h \in Highlights : /\ c.op = "share" /\ c.highlight = h
                        /\ \E q \in FeedCalls : feedCall[q].op = "share" /\ feedCall[q].highlight = h}

FeedLoad(r, c) ==
    /\ feedCall[r] = FeedIdle
    /\ feedCall' = [feedCall EXCEPT ![r] = c]
    /\ contested' = contested \cup Joins(c)
    /\ UNCHANGED <<now, feedTables>>

\* The answer of a request; what it wrote is in the tables' next values.
FeedDone(r) ==
    /\ feedCall' = [feedCall EXCEPT ![r] = FeedIdle]
    /\ UNCHANGED <<now, contested>>

\* A request in flight raises, dies, or its insert is refused: get_session
\* rolls back.
FeedLost(r) ==
    /\ feedCall[r] # FeedIdle
    /\ FeedDone(r)
    /\ UNCHANGED feedTables

--------------------------------------------------------------------------------
(* Posts and comments                                                      *)

CreatePost(r, u) == FeedLoad(r, [op |-> "post", user |-> u, at |-> now])

PostCreated(r, p) ==
    /\ feedCall[r].op = "post"
    /\ p \in Fresh(post)
    /\ post' = [post EXCEPT ![p] = [life |-> "live", at |-> feedCall[r].at,
                                    author |-> feedCall[r].user]]
    /\ FeedDone(r)
    /\ UNCHANGED <<comment, highlight, event, reply, reacted>>

\* Rows are marked deleted, the author's only.
DeletePost(u, p) ==
    /\ p \in Live(post) /\ post[p].author = u
    /\ post' = [post EXCEPT ![p].life = "gone"]
    /\ UNCHANGED <<now, comment, highlight, event, reply, reacted, feedCall, contested>>

\* An answer names a comment of the same post that is not an answer itself.
AddComment(r, u, p, parent) ==
    /\ p \in Live(post)
    /\ parent # NoComment =>
          /\ parent \in Live(comment)
          /\ comment[parent].post = p /\ comment[parent].parent = NoComment
    /\ FeedLoad(r, [op |-> "comment", user |-> u, at |-> now, post |-> p, parent |-> parent])

\* Nothing is looked at again: the post or the parent may be gone by now.
CommentAdded(r, c) ==
    /\ feedCall[r].op = "comment"
    /\ c \in Fresh(comment)
    /\ comment' = [comment EXCEPT ![c] = [life |-> "live", at |-> feedCall[r].at,
                      author |-> feedCall[r].user, post |-> feedCall[r].post,
                      parent |-> feedCall[r].parent]]
    /\ FeedDone(r)
    /\ UNCHANGED <<post, highlight, event, reply, reacted>>

DeleteComment(u, c) ==
    /\ c \in Live(comment) /\ comment[c].author = u
    /\ comment' = [comment EXCEPT ![c].life = "gone"]
    /\ UNCHANGED <<now, post, highlight, event, reply, reacted, feedCall, contested>>

--------------------------------------------------------------------------------
(* Reactions                                                               *)

\* Whether a reaction is on is read first, and decides what is written.
ToggleReaction(r, u, p, k) ==
    /\ p \in Live(post)
    /\ FeedLoad(r, [op |-> "toggle", row |-> <<"post", p, u, k>>,
                    on |-> <<"post", p, u, k>> \in reacted])

ToggleFeedReaction(r, u, e, k) ==
    /\ e \in Live(event)
    /\ FeedLoad(r, [op |-> "toggle", row |-> <<"event", e, u, k>>,
                    on |-> <<"event", e, u, k>> \in reacted])

\* The insert does nothing when the row is there, the delete when it is not.
ReactionToggled(r) ==
    /\ feedCall[r].op = "toggle"
    /\ reacted' = IF feedCall[r].on THEN reacted \ {feedCall[r].row}
                  ELSE reacted \cup {feedCall[r].row}
    /\ FeedDone(r)
    /\ UNCHANGED <<post, comment, highlight, event, reply>>

--------------------------------------------------------------------------------
(* Highlights                                                              *)

Owned(u, h) == h \in Live(highlight) /\ highlight[h].author = u

CreateHighlight(r, u) == FeedLoad(r, [op |-> "highlight", user |-> u, at |-> now])

HighlightCreated(r, h) ==
    /\ feedCall[r].op = "highlight"
    /\ h \in Fresh(highlight)
    /\ highlight' = [highlight EXCEPT ![h] = [life |-> "live", at |-> feedCall[r].at,
                        author |-> feedCall[r].user, visibility |-> "private", shared |-> FALSE]]
    /\ FeedDone(r)
    /\ UNCHANGED <<post, comment, event, reply, reacted>>

\* The row itself goes; a share of it stays in the feed.
DeleteHighlight(u, h) ==
    /\ Owned(u, h)
    /\ highlight' = [highlight EXCEPT ![h].life = "gone"]
    /\ UNCHANGED <<now, post, comment, event, reply, reacted, feedCall, contested>>

\* Any visibility, also of a highlight that was shared.
SetVisibility(u, h, v) ==
    /\ Owned(u, h)
    /\ highlight' = [highlight EXCEPT ![h].visibility = v]
    /\ UNCHANGED <<now, post, comment, event, reply, reacted, feedCall, contested>>

SharesOf(h) == {e \in Live(event) : event[e].type = "highlight_shared" /\ event[e].about = h}

AlreadySharedStillPublic(h) ==
    highlight[h].shared /\ SharesOf(h) # {} /\ highlight[h].visibility = "public"

\* find_highlight_share is asked only when the loaded row says it was shared.
AlreadyShared(h) == highlight[h].shared /\ SharesOf(h) # {}

\* A share that has happened is answered with its event, and changes nothing.
ShareHighlight(r, u, h) ==
    /\ Owned(u, h)
    /\ ~AlreadyShared(h)
    /\ FeedLoad(r, [op |-> "share", user |-> u, at |-> now, highlight |-> h])

\* mark_shared matches no row when the highlight was deleted meanwhile; the
\* event is recorded all the same.
HighlightShared(r, e) ==
    LET h == feedCall[r].highlight IN
    /\ feedCall[r].op = "share"
    /\ e \in Fresh(event)
    /\ highlight' = IF highlight[h].life = "live"
                    THEN [highlight EXCEPT ![h].shared = TRUE, ![h].visibility = "public"]
                    ELSE highlight
    /\ event' = [event EXCEPT ![e] = [life |-> "live", at |-> feedCall[r].at,
                    author |-> feedCall[r].user, type |-> "highlight_shared", about |-> h]]
    /\ FeedDone(r)
    /\ UNCHANGED <<post, comment, reply, reacted>>

--------------------------------------------------------------------------------
(* Activity events                                                         *)

StreakMilestones == {3, 7, 14, 30, 60, 100}

\* record_chapter_milestone and record_streak_milestone pass some values over.
IsMilestone(type, n) ==
    /\ type = "CHAPTER_MILESTONE" => n % 5 = 0
    /\ type = "STREAK_MILESTONE" => n \in StreakMilestones

\* Another service records that u did something; n is a chapter or a streak.
RecordEvent(r, u, type, n) ==
    /\ type \in EventTypes \ {"highlight_shared"}
    /\ IsMilestone(type, n)
    /\ FeedLoad(r, [op |-> "event", user |-> u, at |-> now, type |-> type])

EventRecorded(r, e) ==
    /\ feedCall[r].op = "event"
    /\ e \in Fresh(event)
    /\ event' = [event EXCEPT ![e] = [life |-> "live", at |-> feedCall[r].at,
                    author |-> feedCall[r].user, type |-> feedCall[r].type,
                    about |-> NoHighlight]]
    /\ FeedDone(r)
    /\ UNCHANGED <<post, comment, highlight, reply, reacted>>

AddFeedComment(r, u, e, parent) ==
    /\ e \in Live(event)
    /\ parent # NoReply =>
          parent \in Live(reply) /\ reply[parent].event = e /\ reply[parent].parent = NoReply
    /\ FeedLoad(r, [op |-> "reply", user |-> u, at |-> now, event |-> e, parent |-> parent])

\* The foreign key refuses an answer to a comment that was deleted meanwhile.
FeedCommentAdded(r, c) ==
    /\ feedCall[r].op = "reply"
    /\ c \in Fresh(reply)
    /\ feedCall[r].parent # NoReply => feedCall[r].parent \in Live(reply)
    /\ reply' = [reply EXCEPT ![c] = [life |-> "live", at |-> feedCall[r].at,
                    author |-> feedCall[r].user, event |-> feedCall[r].event,
                    parent |-> feedCall[r].parent]]
    /\ FeedDone(r)
    /\ UNCHANGED <<post, comment, highlight, event, reacted>>

DeleteFeedCommentAlone(u, c) ==
    /\ c \in Live(reply) /\ reply[c].author = u
    /\ reply' = [reply EXCEPT ![c].life = "gone"]
    /\ UNCHANGED <<now, post, comment, highlight, event, reacted, feedCall, contested>>

\* The row is deleted, and its answers with it (ON DELETE CASCADE).
DeleteFeedComment(u, c) ==
    /\ c \in Live(reply) /\ reply[c].author = u
    /\ reply' = [x \in Replies |->
                    IF reply[x].life = "live" /\ (x = c \/ reply[x].parent = c)
                    THEN [reply[x] EXCEPT !.life = "gone"] ELSE reply[x]]
    /\ UNCHANGED <<now, post, comment, highlight, event, reacted, feedCall, contested>>

--------------------------------------------------------------------------------
(* Lists                                                                   *)

ListByBook == {[id |-> p, at |-> post[p].at] : p \in Live(post)}

ListByPost(p) == {[id |-> c, at |-> comment[c].at] : c \in {x \in Live(comment) : comment[x].post = p}}

ListByUserBook(u) ==
    {[id |-> h, at |-> highlight[h].at] : h \in {x \in Live(highlight) : highlight[x].author = u}}

ListGlobal == {[id |-> e, at |-> event[e].at] : e \in Live(event)}

ListFollowing(u) ==
    {[id |-> e, at |-> event[e].at] : e \in {x \in Live(event) : Follows(u, event[x].author)}}

Rows(posts) == {[id |-> p, at |-> post[p].at] : p \in posts}

ListFollowingFeed(u) == Rows({p \in Live(post) : Follows(u, post[p].author)})

\* Only those the viewer has blocked are left out, not those who blocked them.
ListExplore(u) == Rows({p \in Live(post) : ~Blocked(u, post[p].author)})

ListUserPosts(u) == Rows({p \in Live(post) : post[p].author = u})

\* The popular list takes no cursor: whatever page is asked for, this is it.
PopularPage(u, limit) ==
    LET rc(p) == Cardinality({x \in reacted : x[1] = "post" /\ x[2] = p})
        Ahead(p, q) == rc(p) > rc(q) \/ (rc(p) = rc(q) /\ p > q)
        all == {x.id : x \in ListExplore(u)}
    IN  {p \in all : Cardinality({q \in all : Ahead(q, p)}) < limit}

--------------------------------------------------------------------------------

PostNext ==
    \/ \E r \in FeedCalls, u \in Users : CreatePost(r, u)
    \/ \E r \in FeedCalls, p \in Posts : PostCreated(r, p)
    \/ \E r \in FeedCalls, u \in Users, p \in Posts, c \in Comments \cup {NoComment} :
          AddComment(r, u, p, c)
    \/ \E r \in FeedCalls, c \in Comments : CommentAdded(r, c)
    \/ \E u \in Users, p \in Posts : DeletePost(u, p)
    \/ \E u \in Users, c \in Comments : DeleteComment(u, c)
    \/ \E r \in FeedCalls, u \in Users, p \in Posts, k \in Reactions : ToggleReaction(r, u, p, k)

HighlightNext ==
    \/ \E r \in FeedCalls, u \in Users : CreateHighlight(r, u)
    \/ \E r \in FeedCalls, h \in Highlights : HighlightCreated(r, h)
    \/ \E u \in Users, h \in Highlights :
          \/ DeleteHighlight(u, h)
          \/ \E v \in Visibilities : SetVisibility(u, h, v)
          \/ \E r \in FeedCalls : ShareHighlight(r, u, h)
    \/ \E r \in FeedCalls, e \in Events : HighlightShared(r, e)

EventNext ==
    \/ \E r \in FeedCalls, u \in Users, type \in EventTypes, n \in {5, 7} :
          RecordEvent(r, u, type, n)
    \/ \E r \in FeedCalls, e \in Events : EventRecorded(r, e)
    \/ \E r \in FeedCalls, u \in Users, e \in Events, k \in Reactions : ToggleFeedReaction(r, u, e, k)
    \/ \E r \in FeedCalls, u \in Users, e \in Events, c \in Replies \cup {NoReply} :
          AddFeedComment(r, u, e, c)
    \/ \E r \in FeedCalls, c \in Replies : FeedCommentAdded(r, c)
    \/ \E u \in Users, c \in Replies : DeleteFeedComment(u, c)

FeedNext ==
    \/ PostNext \/ HighlightNext \/ EventNext
    \/ \E r \in FeedCalls : ReactionToggled(r) \/ FeedLost(r)

--------------------------------------------------------------------------------
(* Properties                                                              *)

RowStatus == [life : FeedLives, at : Times, author : Users \cup {NoUser}]

FeedTypeOK ==
    /\ \A p \in Posts : post[p] \in RowStatus
    /\ \A h \in Highlights :
          /\ highlight[h].visibility \in Visibilities /\ highlight[h].shared \in BOOLEAN
          /\ highlight[h].life \in FeedLives
    /\ \A e \in Live(event) : event[e].type \in EventTypes /\ event[e].author \in Users
    /\ contested \subseteq Highlights
    /\ \A c \in Live(comment) : comment[c].post \in Posts
    /\ \A x \in reacted : x[3] \in Users /\ x[4] \in Reactions
    /\ \A c \in Live(reply) : reply[c].parent # NoReply =>
          /\ reply[c].parent \in Live(reply)
          /\ reply[reply[c].parent].parent = NoReply

\* A highlight that stands is in the feed when it was shared and not before,
\* whatever visibility it was given in between and whatever became of requests
\* on the way; and twice only after two shares of it overlapped.  "Idempotently"
\* is all share_highlight_to_feed says: it looks for the event, then writes.
SharedOnce ==
    \A h \in Live(highlight) :
        /\ highlight[h].shared <=> SharesOf(h) # {}
        /\ h \notin contested => Cardinality(SharesOf(h)) <= 1

================================================================================
