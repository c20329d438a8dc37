----------------------------------- MODULE Lists -----------------------------------
(***************************************************************************)
(* The lists of the services put together with the client that pages         *)
(* through them.                                                             *)
(***************************************************************************)
EXTENDS Library

ASSUME ListsAssumption ==
    /\ Users \cup Posts \cup Comments \cup Highlights \cup Events \cup Reviews \subseteq Int
    /\ IsFiniteSet(Users \cup Posts \cup Comments \cup Highlights \cup Events \cup Reviews \cup Books)

\* What a list holds: of a post, or of a user.
ListRows(list, of) ==
    CASE list = "book" -> ListByBook
      [] list = "post" -> ListByPost(of)
      [] list \in {"highlights", "mine"} -> ListByUserBook(of)
      [] list = "global" -> ListGlobal
      [] list = "following" -> ListFollowing(of)
      [] list = "following posts" -> ListFollowingFeed(of)
      [] list = "explore" -> ListExplore(of)
      [] list = "posts of" -> ListUserPosts(of)
      [] list = "followers" -> ListFollowers(of)
      [] list = "followings" -> ListFollowings(of)
      [] list = "blocks" -> ListBlocks(of)
      [] list = "library" -> ListForUser(of)
      [] list = "reviews" -> ListMyReviews(of)

\* Lists of edges show the users at their ends, and look up the edge of the last
\* one afterwards.  They are in the order of their stamps alone: which of two
\* equal ones comes first, the id decides here.
EdgeLists == {"followers", "followings", "blocks"}

\* Comments of a post come oldest first; what is one's own by offset.
BeginWalk(list, of, limit) ==
    StartWalk(list, of, list = "post", list \in {"mine", "reviews"}, list \in EdgeLists, limit,
              ListRows(list, of))

WalkOn ==
    LET rows == ListRows(walk.list, walk.of)
    IN  NextPage(rows) \/ FetchCursor(rows) \/ NextPageByOffset(rows)

\* A client that has read a list to its end has seen every row that was there
\* from the start to the last page, once, within the limits ReadsAll names
\* (list_by_book, list_by_post, list_by_user_book, list_global, list_following,
\* list_recent_for_user, the lists of follows and blocks, the community's lists
\* of posts, list_for_user).
PagesMissNothing == ReadsAll

================================================================================
