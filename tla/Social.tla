----------------------------------- MODULE Social -----------------------------------
(***************************************************************************)
(* Follows, blocks and abuse reports (domains/social).  A follow asks first  *)
(* whether it is blocked and a report whether it is the second one; what     *)
(* commits in between is not seen.                                           *)
(***************************************************************************)
EXTENDS Paging

CONSTANTS
    SocialCalls,       \* requests that may be in flight at a time
    Reported           \* posts, comments and users a report may be about

ASSUME SocialAssumption == IsFiniteSet(SocialCalls)

VARIABLES
    follows,       \* follows: a follower, a followee, created_at
    blocks,        \* blocks: a blocker, a blocked, created_at
    reports,       \* reports: a reporter and a target, with how many rows
    social,        \* what each request in flight has found
    crossed        \* history: pairs of users whose follow and block overlapped

socialVars == <<follows, blocks, reports, social, crossed>>

SocialIdle == [op |-> "idle"]

Edge(u, v) == [from |-> u, to |-> v, at |-> now]

\* The tables with some follows in them.
SocialStart(edges) ==
    /\ follows = edges /\ blocks = {} /\ crossed = {}
    /\ reports = [x \in Users \X Reported |-> 0]
    /\ social = [r \in SocialCalls |-> SocialIdle]

Between(edges, u, v) == {e \in edges : e.from = u /\ e.to = v}
Pair(u, v) == {u, v}

Follows(u, v) == Between(follows, u, v) # {}
Blocked(u, v) == Between(blocks, u, v) # {}

\* Requests about the pair that are in flight, other than r.
InFlight(ops, u, v, r) ==
    {q \in SocialCalls \ {r} : social[q].op \in ops /\ Pair(social[q].user, social[q].target) = Pair(u, v)}

SocialLoad(r, op, u, v) ==
    /\ social[r] = SocialIdle
    /\ social' = [social EXCEPT ![r] = [op |-> op, user |-> u, target |-> v,
                                        unblock |-> op = "follow" /\ Blocked(u, v)]]

SocialDone(r) == social' = [social EXCEPT ![r] = SocialIdle]

--------------------------------------------------------------------------------

\* Nobody follows themselves, nor a user who has blocked them.
Follow(r, u, v) ==
    /\ u # v /\ ~Blocked(v, u)
    /\ SocialLoad(r, "follow", u, v)
    /\ crossed' = IF InFlight({"block"}, u, v, r) = {} THEN crossed ELSE crossed \cup {Pair(u, v)}
    /\ UNCHANGED <<now, follows, blocks, reports>>

\* Following takes back the block of one's own that was found; the edge is
\* unique: a second follow is refused, and the block then stays.
Followed(r) ==
    LET u == social[r].user   v == social[r].target IN
    /\ social[r].op = "follow" /\ ~Follows(u, v)
    /\ blocks' = IF social[r].unblock THEN blocks \ Between(blocks, u, v) ELSE blocks
    /\ follows' = follows \cup {Edge(u, v)}
    /\ SocialDone(r)
    /\ UNCHANGED <<now, reports, crossed>>

Unfollow(u, v) ==
    /\ Follows(u, v)
    /\ follows' = follows \ Between(follows, u, v)
    /\ UNCHANGED <<now, blocks, reports, social, crossed>>

\* The edges of both directions are deleted as the request sees them; one that
\* a follow still in flight inserts is not.
Block(r, u, v) ==
    /\ u # v
    /\ SocialLoad(r, "block", u, v)
    /\ crossed' = IF InFlight({"follow"}, u, v, r) = {} THEN crossed ELSE crossed \cup {Pair(u, v)}
    /\ UNCHANGED <<now, follows, blocks, reports>>

SeversOne(u, v) == Between(follows, u, v)
Severed(u, v) == Between(follows, u, v) \cup Between(follows, v, u)

BlockSet(r) ==
    LET u == social[r].user   v == social[r].target IN
    /\ social[r].op = "block" /\ ~Blocked(u, v)
    /\ follows' = follows \ Severed(u, v)
    /\ blocks' = blocks \cup {Edge(u, v)}
    /\ SocialDone(r)
    /\ UNCHANGED <<now, reports, crossed>>

Unblock(u, v) ==
    /\ Blocked(u, v)
    /\ blocks' = blocks \ Between(blocks, u, v)
    /\ UNCHANGED <<now, follows, reports, social, crossed>>

\* One report of a target per reporter; no constraint says so.
Report(r, u, x) ==
    /\ reports[<<u, x>>] = 0
    /\ SocialLoad(r, "report", u, x)
    /\ UNCHANGED <<now, follows, blocks, reports, crossed>>

ReportMade(r) ==
    /\ social[r].op = "report"
    /\ reports' = [reports EXCEPT ![<<social[r].user, social[r].target>>] = @ + 1]
    /\ SocialDone(r)
    /\ UNCHANGED <<now, follows, blocks, crossed>>

\* A duplicate edge (409), or the request dies.
SocialLost(r) ==
    /\ social[r] # SocialIdle
    /\ SocialDone(r)
    /\ UNCHANGED <<now, follows, blocks, reports, crossed>>

--------------------------------------------------------------------------------
(* Lists and the leaderboard                                               *)

ListFollowers(v) == {[id |-> e.from, at |-> e.at] : e \in {f \in follows : f.to = v}}
ListFollowings(u) == {[id |-> e.to, at |-> e.at] : e \in {f \in follows : f.from = u}}
ListBlocks(u) == {[id |-> e.to, at |-> e.at] : e \in {b \in blocks : b.from = u}}

\* search_users leaves out oneself and those one is blocked by.
Findable(u) == {v \in Users : v # u /\ ~Blocked(v, u)}

\* The viewer and whom they follow; users with equal minutes share a rank, and
\* the ranks they take are skipped.
Leaderboard(u, minutes) ==
    LET shown == {u} \cup {v \in Users : Follows(u, v)}
    IN  [v \in shown |-> 1 + Cardinality({w \in shown : minutes[w] > minutes[v]})]

--------------------------------------------------------------------------------

SocialNext ==
    \/ \E r \in SocialCalls :
          \/ \E u, v \in Users : Follow(r, u, v) \/ Block(r, u, v)
          \/ \E u \in Users, x \in Reported : Report(r, u, x)
          \/ Followed(r) \/ BlockSet(r) \/ ReportMade(r) \/ SocialLost(r)
    \/ \E u, v \in Users : Unfollow(u, v) \/ Unblock(u, v)

SocialTypeOK ==
    /\ \A e \in follows \cup blocks : e.from \in Users /\ e.to \in Users \ {e.from} /\ e.at \in Times
    /\ \A e, f \in follows : (e.from = f.from /\ e.to = f.to) => e = f
    /\ \A x \in DOMAIN reports : reports[x] \in 0 .. Cardinality(SocialCalls)

\* No follow stands beside a block between the same two users, in either
\* direction, unless a follow and a block of theirs were in flight together
\* (SocialService.follow, SocialService.block: "Sever follow edges in both
\* directions").
BlocksSever ==
    \A u, v \in Users : (Follows(u, v) /\ (Blocked(u, v) \/ Blocked(v, u))) => Pair(u, v) \in crossed

================================================================================
