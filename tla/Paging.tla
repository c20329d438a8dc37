----------------------------------- MODULE Paging -----------------------------------
(***************************************************************************)
(* How a client reads the lists of the services to their end while rows come *)
(* and go: page by page, by a cursor that is the stamp of the last row shown *)
(* or by an offset.  A row of a list is known here by its id and the stamp   *)
(* the list is ordered by; a stamp is the start of the transaction that      *)
(* inserts the row, so rows appear in another order than their stamps.       *)
(***************************************************************************)
EXTENDS ServiceClock, Sequences

CONSTANTS
    PageSizes,     \* limits a client may ask for
    NoCursor

ASSUME PagingAssumption == PageSizes \subseteq Nat \ {0} /\ NoCursor \notin Int

VARIABLE walk      \* a client on its way through a list

NoWalk == [list |-> "none"]

PagingInit == walk = NoWalk

\* Oldest first, or newest first; ids break ties.
ComesBefore(oldestFirst, x, y) ==
    LET Older(a, b) == a.at < b.at \/ (a.at = b.at /\ a.id < b.id)
    IN  IF oldestFirst THEN Older(x, y) ELSE Older(y, x)

\* The first rows of a set: ORDER BY and LIMIT.
FirstOf(oldestFirst, rows, limit) ==
    {x \in rows : Cardinality({y \in rows : ComesBefore(oldestFirst, y, x)}) < limit}

LastOf(oldestFirst, rows) ==
    CHOOSE x \in rows : \A y \in rows : y = x \/ ComesBefore(oldestFirst, y, x)

BeyondOrAt(oldestFirst, rows, cursor) ==
    IF cursor = NoCursor THEN rows
    ELSE {x \in rows : IF oldestFirst THEN x.at >= cursor ELSE x.at =< cursor}

\* The rows a cursor leaves: strictly on the far side of its stamp.
Beyond(oldestFirst, rows, cursor) ==
    IF cursor = NoCursor THEN rows
    ELSE {x \in rows : IF oldestFirst THEN x.at > cursor ELSE x.at < cursor}

\* OFFSET
Skipping(oldestFirst, rows, offset) == rows \ FirstOf(oldestFirst, rows, offset)

\* byFetch: the cursor is fetched after the page, in a statement of its own.
StartWalk(list, of, oldestFirst, byOffset, byFetch, limit, rows) ==
    /\ walk = NoWalk
    /\ walk' = [list |-> list, of |-> of, oldestFirst |-> oldestFirst, byOffset |-> byOffset,
                byFetch |-> byFetch, limit |-> limit, cursor |-> NoCursor, offset |-> 0,
                last |-> {}, shown |-> <<>>, stood |-> rows, calm |-> TRUE, cut |-> FALSE,
                more |-> TRUE]
    /\ UNCHANGED now

\* A page by cursor: there is more when the page is full.  stood: the rows that
\* were there at the start and at every page since; last: the row whose stamp is
\* still to be fetched.
NextPage(rows) ==
    /\ walk # NoWalk /\ ~walk.byOffset /\ walk.more /\ walk.last = {}
    /\ LET page == FirstOf(walk.oldestFirst, Beyond(walk.oldestFirst, rows, walk.cursor), walk.limit)
           full == Cardinality(page) = walk.limit
       IN  walk' = [walk EXCEPT
               !.shown = Append(@, page),
               !.stood = @ \cap rows,
               !.cursor = IF full /\ ~walk.byFetch THEN LastOf(walk.oldestFirst, page).at ELSE @,
               !.last = IF full /\ walk.byFetch THEN {LastOf(walk.oldestFirst, page)} ELSE @,
               !.more = full]
    /\ UNCHANGED now

\* The stamp of the last row is read again: it may be gone by now, and the list
\* ends, or made anew, and the cursor is the newer stamp.  cut: that has happened.
FetchCursor(rows) ==
    /\ walk # NoWalk /\ walk.last # {}
    /\ LET found == {x \in rows : \E y \in walk.last : x.id = y.id}
       IN  walk' = [walk EXCEPT
               !.cursor = IF found = {} THEN @ ELSE (CHOOSE x \in found : TRUE).at,
               !.cut = @ \/ found # walk.last,
               !.last = {},
               !.more = found # {}]
    /\ UNCHANGED now

\* A page by offset: there is more while the rows counted say so.  calm: nothing
\* has changed since the first page.
NextPageByOffset(rows) ==
    /\ walk # NoWalk /\ walk.byOffset /\ walk.more
    /\ LET page == FirstOf(walk.oldestFirst, Skipping(walk.oldestFirst, rows, walk.offset), walk.limit)
       IN  walk' = [walk EXCEPT
               !.shown = Append(@, page),
               !.offset = @ + Cardinality(page),
               !.calm = @ /\ rows = walk.stood,
               !.stood = @ \cap rows,
               !.more = walk.offset + Cardinality(page) < Cardinality(rows)]
    /\ UNCHANGED now

\* A client that has read a list to its end has seen every row that was there
\* from the start to the last page, once: rows that come and go meanwhile
\* neither hide nor repeat it.  Three things limit that.  Of rows with one stamp
\* that a page break separates the second is skipped: the comments of
\* list_by_book and list_for_user promise an "id tiebreak" for them, but no
\* cursor carries the id.  Paging by offset is right only if nothing changed.
\* And where the cursor is fetched, the last row of each page must have stood
\* until it was.
ReadsAll ==
    (walk # NoWalk /\ ~walk.more /\ (walk.byOffset => walk.calm) /\ ~walk.cut) =>
        LET Seen(x) == Cardinality({i \in DOMAIN walk.shown : x \in walk.shown[i]})
            Tied(x) == /\ ~walk.byOffset
                       /\ \E i \in DOMAIN walk.shown : \E y \in walk.shown[i] :
                              y # x /\ y.at = x.at
        IN  \A x \in walk.stood : Seen(x) = 1 \/ (Seen(x) = 0 /\ Tied(x))

================================================================================
