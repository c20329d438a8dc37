---------------------------------- MODULE Library ----------------------------------
(***************************************************************************)
(* A user's shelf of books (domains/book) and the reviews of finished books  *)
(* (domains/review).  Both write their activity events into the feed's table *)
(* within their own transaction; a chapter is the exception.  Search, covers *)
(* and texts are left out, and so are the values of ratings.                 *)
(***************************************************************************)
EXTENDS Feed

CONSTANTS
    Books,
    TheBook,           \* the book whose posts and highlights the feed holds
    Reviews,           \* ids of reviews
    LibraryCalls,      \* requests that may be in flight at a time
    Chapters,
    Entries,           \* bound: entries ever made
    HideThreshold      \* REPORT_HIDE_THRESHOLD

ASSUME LibraryAssumption == TheBook \in Books /\ HideThreshold \in Nat \ {0} /\ Entries \in Nat

VARIABLES
    shelf,         \* user_books, by user and book: uq_user_books_user_book
    made,          \* ids of entries given so far
    review,        \* book_reviews
    libCall,       \* what each request in flight has loaded
    accepted,      \* history: reports of a review that were answered
    overlapped     \* history: reviews with reports that overlapped

library == <<shelf, made, review, libCall, accepted, overlapped>>

Statuses == {"reading", "completed", "paused", "dropped", "wishlist"}
NoEntry == [status |-> "none", id |-> 0, at |-> Never, chapter |-> 0]
NoReview == [life |-> "unused", at |-> 0, author |-> NoUser, book |-> TheBook, text |-> TRUE,
             reports |-> 0, hidden |-> FALSE]
LibraryIdle == [op |-> "idle"]

\* The tables with some entries in them.
LibraryStart(entries) ==
    /\ shelf = entries /\ made = 0
    /\ review = [v \in Reviews |-> NoReview]
    /\ libCall = [r \in LibraryCalls |-> LibraryIdle]
    /\ accepted = [v \in Reviews |-> 0] /\ overlapped = {}

LibraryInit == LibraryStart([x \in Users \X Books |-> NoEntry])

Tables == <<post, comment, highlight, reply, reacted, feedCall, contested>>

LibraryLoad(r, c) ==
    /\ libCall[r] = LibraryIdle
    /\ libCall' = [libCall EXCEPT ![r] = c]
    /\ UNCHANGED <<now, feed, shelf, made, review, accepted, overlapped>>

LibraryDone(r) == libCall' = [libCall EXCEPT ![r] = LibraryIdle]

\* A request raises, its insert is refused, its row is gone, or it dies.
LibraryLost(r) ==
    /\ libCall[r] # LibraryIdle
    /\ LibraryDone(r)
    /\ UNCHANGED <<now, feed, shelf, made, review, accepted, overlapped>>

\* An activity event in the transaction of the row it tells of.
Announce(e, u, type, at) ==
    /\ e \in Fresh(event)
    /\ event' = [event EXCEPT ![e] = [life |-> "live", at |-> at, author |-> u,
                                      type |-> type, about |-> NoHighlight]]

--------------------------------------------------------------------------------
(* The shelf                                                               *)

On(u, b) == shelf[<<u, b>>] # NoEntry

\* In any status: a book put there as completed is announced to nobody.
AddToLibrary(r, u, b, s) ==
    LibraryLoad(r, [op |-> "add", user |-> u, book |-> b, status |-> s, at |-> now])

LibraryAdded(r) ==
    LET c == libCall[r] IN
    /\ c.op = "add" /\ ~On(c.user, c.book)
    /\ made < Entries /\ made' = made + 1
    /\ shelf' = [shelf EXCEPT ![<<c.user, c.book>>] =
                    [status |-> c.status, id |-> made', at |-> c.at, chapter |-> 0]]
    /\ LibraryDone(r)
    /\ UNCHANGED <<now, feed, review, accepted, overlapped>>

UpdateStatus(r, u, b, s) ==
    /\ On(u, b)
    /\ LibraryLoad(r, [op |-> "status", user |-> u, book |-> b, status |-> s,
                       entry |-> shelf[<<u, b>>].id, at |-> now])

SameEntry(c) == On(c.user, c.book) /\ shelf[<<c.user, c.book>>].id = c.entry

\* COMPLETED is announced in the feed each time it is sent (and with the row
\* UserBookCompleted is staged, for the challenges), also when nothing changed.
StatusUpdated(r, e) ==
    LET c == libCall[r] IN
    /\ c.op = "status" /\ SameEntry(c)
    /\ shelf' = [shelf EXCEPT ![<<c.user, c.book>>].status = c.status]
    /\ IF c.status = "completed" THEN Announce(e, c.user, "BOOK_COMPLETED", c.at)
       ELSE UNCHANGED event
    /\ LibraryDone(r)
    /\ UNCHANGED <<now, Tables, made, review, accepted, overlapped>>

UpdateChapter(r, u, b, n) ==
    /\ On(u, b)
    /\ LibraryLoad(r, [op |-> "chapter", user |-> u, book |-> b, chapter |-> n,
                       entry |-> shelf[<<u, b>>].id])

\* The repository commits the chapter; what follows is another transaction.
ChapterUpdated(r) ==
    LET c == libCall[r] IN
    /\ c.op = "chapter" /\ SameEntry(c)
    /\ shelf' = [shelf EXCEPT ![<<c.user, c.book>>].chapter = c.chapter]
    /\ libCall' = [libCall EXCEPT ![r] =
                      IF IsMilestone("CHAPTER_MILESTONE", c.chapter)
                      THEN [op |-> "milestone", user |-> c.user, at |-> now] ELSE LibraryIdle]
    /\ UNCHANGED <<now, feed, made, review, accepted, overlapped>>

MilestoneRecorded(r, e) ==
    LET c == libCall[r] IN
    /\ c.op = "milestone"
    /\ Announce(e, c.user, "CHAPTER_MILESTONE", c.at)
    /\ LibraryDone(r)
    /\ UNCHANGED <<now, Tables, shelf, made, review, accepted, overlapped>>

\* The highlights of the entry go with it (ON DELETE CASCADE), as its sessions
\* and bookmarks do; shares of the highlights stay in the feed.
RemoveFromLibrary(u, b) ==
    /\ On(u, b)
    /\ shelf' = [shelf EXCEPT ![<<u, b>>] = NoEntry]
    /\ highlight' = [h \in Highlights |->
                        IF b = TheBook /\ Owned(u, h) THEN [highlight[h] EXCEPT !.life = "gone"]
                        ELSE highlight[h]]
    /\ UNCHANGED <<now, post, comment, event, reply, reacted, feedCall, contested,
                   made, review, libCall, accepted, overlapped>>

--------------------------------------------------------------------------------
(* Reviews                                                                 *)

ReviewOf(u, b) == {v \in Live(review) : review[v].author = u /\ review[v].book = b}

\* Only of a book that stands as completed now, and once.
CreateReview(r, u, b, text) ==
    /\ shelf[<<u, b>>].status = "completed" /\ ReviewOf(u, b) = {}
    /\ LibraryLoad(r, [op |-> "review", user |-> u, book |-> b, text |-> text, at |-> now])

\* uq_book_reviews_user_book refuses the second of two.
ReviewCreated(r, v, e) ==
    LET c == libCall[r] IN
    /\ c.op = "review" /\ ReviewOf(c.user, c.book) = {}
    /\ v \in Fresh(review)
    /\ review' = [review EXCEPT ![v] = [life |-> "live", at |-> c.at, author |-> c.user,
                     book |-> c.book, text |-> c.text, reports |-> 0, hidden |-> FALSE]]
    /\ Announce(e, c.user, "BOOK_REVIEWED", c.at)
    /\ LibraryDone(r)
    /\ UNCHANGED <<now, Tables, shelf, made, accepted, overlapped>>

\* An edit that does not give the text clears it.
UpdateReview(u, v, text) ==
    /\ v \in Live(review) /\ review[v].author = u
    /\ review' = [review EXCEPT ![v].text = text]
    /\ UNCHANGED <<now, feed, shelf, made, libCall, accepted, overlapped>>

\* The row goes, and with it what was reported of it.
DeleteReview(u, v) ==
    /\ v \in Live(review) /\ review[v].author = u
    /\ review' = [review EXCEPT ![v].life = "gone"]
    /\ UNCHANGED <<now, feed, shelf, made, libCall, accepted, overlapped>>

\* Anyone else's review, as often as one likes.
ReportReview(r, u, v) ==
    /\ v \in Live(review) /\ review[v].author # u
    /\ LibraryLoad(r, [op |-> "report", review |-> v, reports |-> review[v].reports])

HidesBeyond(count) == count > HideThreshold
Hides(count) == count >= HideThreshold

\* The counter is what was loaded and one more; hidden_at is never taken back.
ReviewReported(r) ==
    LET v == libCall[r].review   count == libCall[r].reports + 1 IN
    /\ libCall[r].op = "report" /\ v \in Live(review)
    /\ review' = [review EXCEPT ![v].reports = count, ![v].hidden = @ \/ Hides(count)]
    /\ accepted' = [accepted EXCEPT ![v] = @ + 1]
    /\ overlapped' = IF \E q \in LibraryCalls \ {r} :
                            libCall[q].op = "report" /\ libCall[q].review = v
                     THEN overlapped \cup {v} ELSE overlapped
    /\ LibraryDone(r)
    /\ UNCHANGED <<now, feed, shelf, made>>

Shown(b) == {v \in Live(review) : review[v].book = b /\ ~review[v].hidden}

--------------------------------------------------------------------------------

ListForUser(u) == {[id |-> shelf[<<u, b>>].id, at |-> shelf[<<u, b>>].at] : b \in {x \in Books : On(u, x)}}

ListMyReviews(u) ==
    {[id |-> v, at |-> review[v].at] : v \in {x \in UNION {Shown(b) : b \in Books} : review[x].author = u}}

ListBookReviews(b) == {[id |-> v, at |-> review[v].at] : v \in Shown(b)}

--------------------------------------------------------------------------------

ShelfNext ==
    \/ \E r \in LibraryCalls, u \in Users, b \in Books :
          \/ \E s \in Statuses : AddToLibrary(r, u, b, s) \/ UpdateStatus(r, u, b, s)
          \/ \E n \in Chapters : UpdateChapter(r, u, b, n)
    \/ \E u \in Users, b \in Books : RemoveFromLibrary(u, b)
    \/ \E r \in LibraryCalls :
          \/ LibraryAdded(r) \/ ChapterUpdated(r) \/ LibraryLost(r)
          \/ \E e \in Events : StatusUpdated(r, e) \/ MilestoneRecorded(r, e)

ReviewNext ==
    \/ \E r \in LibraryCalls, u \in Users :
          \/ \E b \in Books, text \in BOOLEAN : CreateReview(r, u, b, text)
          \/ \E v \in Reviews : ReportReview(r, u, v)
    \/ \E r \in LibraryCalls :
          ReviewReported(r) \/ \E v \in Reviews, e \in Events : ReviewCreated(r, v, e)
    \/ \E u \in Users, v \in Reviews :
          DeleteReview(u, v) \/ \E text \in BOOLEAN : UpdateReview(u, v, text)

LibraryTypeOK ==
    /\ \A x \in DOMAIN shelf : On(x[1], x[2]) =>
          shelf[x].status \in Statuses /\ shelf[x].at \in Times /\ shelf[x].chapter \in Chapters \cup {0}
    /\ \A v, w \in Live(review) :
          (review[v].author = review[w].author /\ review[v].book = review[w].book) => v = w

\* A review is hidden once enough reports of it were answered, and not before.
\* Only reports that overlapped may count short, and then no hidden review comes
\* back (ReviewService.report_review, increment_report: "the repo auto-hides
\* once the report count crosses the threshold").
ReportsHide ==
    \A v \in Live(review) :
        /\ review[v].hidden => accepted[v] >= HideThreshold
        /\ review[v].reports <= accepted[v]
        /\ v \notin overlapped =>
              review[v].reports = accepted[v] /\ (review[v].hidden <=> accepted[v] >= HideThreshold)

================================================================================
