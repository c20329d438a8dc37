----------------------------- MODULE Community_proofs -----------------------------
(***************************************************************************)
(* Theorems about what users share: follows and blocks, the feed with its    *)
(* highlights, the shelf and its reviews, for any number of users, rows and  *)
(* requests in flight; and that a client that reads a list of it to its end  *)
(* misses nothing (PagesMissNothing), for any finite number of them, any     *)
(* page size, and whatever is inserted and removed while it reads.           *)
(***************************************************************************)
EXTENDS Lists, FiniteSetTheorems, TLAPS

--------------------------------------------------------------------------------
(***************************************************************************)
(* A block severs, for any number of users and of requests in flight.       *)
(* BlocksSever is not inductive: what makes it true is that a follow which   *)
(* no block has overlapped still finds the blocks it read, so that the one   *)
(* it takes back is all there is.                                            *)
(***************************************************************************)

Requests ==
    {SocialIdle} \cup
    [op : {"follow", "block"}, user : Users, target : Users, unblock : BOOLEAN] \cup
    [op : {"report"}, user : Users, target : Reported, unblock : BOOLEAN]

\* The requests from any follows on, while the clock runs.
SocialSpec ==
    /\ \E edges : SocialStart(edges)
    /\ [][SocialNext \/ (Tick /\ UNCHANGED socialVars)]_<<now, socialVars>>

SocialCallsTyped == social \in [SocialCalls -> Requests]

About(r) == Pair(social[r].user, social[r].target)

\* A follow and a block of one pair do not pass each other unnoticed.
OverlapsNoted ==
    \A r, q \in SocialCalls :
        (social[r].op = "follow" /\ social[q].op = "block" /\ About(r) = About(q))
            => About(r) \in crossed

\* What a follow has read of the blocks still holds.
FollowsStillClear ==
    \A r \in SocialCalls :
        (social[r].op = "follow" /\ About(r) \notin crossed) =>
            /\ ~Blocked(social[r].target, social[r].user)
            /\ Blocked(social[r].user, social[r].target) => social[r].unblock

SeverInv == SocialCallsTyped /\ OverlapsNoted /\ FollowsStillClear /\ BlocksSever

--------------------------------------------------------------------------------

LEMMA SeverInit ==
    ASSUME NEW edges, SocialStart(edges)
    PROVE  SeverInv
BY DEF SocialStart, SeverInv, SocialCallsTyped, OverlapsNoted, FollowsStillClear, BlocksSever,
       Requests, SocialIdle, Blocked, Between

\* A request that begins fits.
LEMMA LoadTyped ==
    ASSUME SocialCallsTyped, NEW r \in SocialCalls, NEW op \in {"follow", "block", "report"},
           NEW u \in Users, NEW v, v \in (IF op = "report" THEN Reported ELSE Users),
           SocialLoad(r, op, u, v)
    PROVE  SocialCallsTyped'
<1> DEFINE b == op = "follow" /\ Blocked(u, v)
           c == [op |-> op, user |-> u, target |-> v, unblock |-> b]
<1>1. b \in BOOLEAN
  OBVIOUS
<1>2. social' = [social EXCEPT ![r] = c]
  BY DEF SocialLoad
<1> HIDE DEF b
<1>3. c \in Requests
  BY <1>1 DEF Requests
<1> QED
  BY <1>2, <1>3 DEF SocialCallsTyped

\* Every step leaves requests that fit.
LEMMA CallsStayTyped ==
    ASSUME SocialCallsTyped, [SocialNext \/ (Tick /\ UNCHANGED socialVars)]_<<now, socialVars>>
    PROVE  SocialCallsTyped'
<1>1. ASSUME NEW r \in SocialCalls, SocialDone(r) PROVE SocialCallsTyped'
  BY <1>1 DEF SocialDone, SocialCallsTyped, Requests
<1>2. ASSUME NEW r \in SocialCalls, NEW u \in Users, NEW v \in Users, Follow(r, u, v) \/ Block(r, u, v)
      PROVE  SocialCallsTyped'
  BY <1>2, LoadTyped DEF Follow, Block
<1>3. ASSUME NEW r \in SocialCalls, NEW u \in Users, NEW x \in Reported, Report(r, u, x)
      PROVE  SocialCallsTyped'
  BY <1>3, LoadTyped DEF Report
<1>4. CASE UNCHANGED social
  BY <1>4 DEF SocialCallsTyped
<1> QED
  BY <1>1, <1>2, <1>3, <1>4 DEF SocialNext, Followed, BlockSet, ReportMade, SocialLost,
     Unfollow, Unblock, socialVars

--------------------------------------------------------------------------------
(* A follow or a block begins *)

\* It is the one request that changes, and it notes whom it passes.
LEMMA Begins ==
    ASSUME SocialCallsTyped, NEW r \in SocialCalls, NEW u \in Users, NEW v \in Users,
           Follow(r, u, v) \/ Block(r, u, v)
    PROVE  /\ UNCHANGED <<follows, blocks>> /\ crossed \subseteq crossed'
           /\ social[r] = SocialIdle
           /\ \A q \in SocialCalls \ {r} : social'[q] = social[q]
           /\ social'[r].user = u /\ social'[r].target = v
           /\ Follow(r, u, v) => /\ social'[r].op = "follow" /\ ~Blocked(v, u)
                                 /\ Blocked(u, v) => social'[r].unblock
           /\ Block(r, u, v) => social'[r].op = "block"
           /\ \A q \in SocialCalls \ {r} :
                 (Pair(social[q].user, social[q].target) = Pair(u, v)
                    /\ \/ Follow(r, u, v) /\ social[q].op = "block"
                       \/ Block(r, u, v) /\ social[q].op = "follow")
                   => Pair(u, v) \in crossed'
<1>1. ASSUME NEW op \in {"follow", "block"}, SocialLoad(r, op, u, v)
      PROVE  /\ social[r] = SocialIdle
             /\ \A q \in SocialCalls \ {r} : social'[q] = social[q]
             /\ social'[r].op = op /\ social'[r].user = u /\ social'[r].target = v
             /\ (op = "follow" /\ Blocked(u, v)) => social'[r].unblock
  <2> DEFINE b == op = "follow" /\ Blocked(u, v)
             c == [op |-> op, user |-> u, target |-> v, unblock |-> b]
  <2>1. social[r] = SocialIdle /\ social' = [social EXCEPT ![r] = c]
    BY <1>1 DEF SocialLoad
  <2>2. b <=> (op = "follow" /\ Blocked(u, v))
    OBVIOUS
  <2> HIDE DEF b
  <2>3. c.op = op /\ c.user = u /\ c.target = v /\ c.unblock = b
    OBVIOUS
  <2> HIDE DEF c
  <2>4. social'[r] = c /\ \A q \in SocialCalls \ {r} : social'[q] = social[q]
    BY <2>1 DEF SocialCallsTyped
  <2> QED
    BY <2>1, <2>2, <2>3, <2>4
<1>2. CASE Follow(r, u, v)
  <2>1. \A q \in SocialCalls \ {r} :
           (social[q].op = "block" /\ Pair(social[q].user, social[q].target) = Pair(u, v))
             => q \in InFlight({"block"}, u, v, r)
    BY DEF InFlight
  <2> QED
    BY <1>1, <1>2, <2>1 DEF Follow, Block, SocialLoad
<1>3. CASE Block(r, u, v)
  <2>1. \A q \in SocialCalls \ {r} :
           (social[q].op = "follow" /\ Pair(social[q].user, social[q].target) = Pair(u, v))
             => q \in InFlight({"follow"}, u, v, r)
    BY DEF InFlight
  <2> QED
    BY <1>1, <1>3, <2>1 DEF Follow, Block, SocialLoad
<1> QED
  BY <1>2, <1>3

LEMMA BeginKeeps ==
    ASSUME SeverInv, NEW r \in SocialCalls, NEW u \in Users, NEW v \in Users,
           Follow(r, u, v) \/ Block(r, u, v)
    PROVE  OverlapsNoted' /\ FollowsStillClear' /\ BlocksSever'
<1> USE DEF SeverInv
<1>1. \A w, x : Blocked(w, x)' <=> Blocked(w, x)
  BY Begins DEF Blocked, Between
<1>2. \A w, x : Follows(w, x)' <=> Follows(w, x)
  BY Begins DEF Follows, Between
<1>3. \A w, x : Pair(w, x)' = Pair(w, x)
  BY DEF Pair
<1>4. social[r].op = "idle" /\ social[r].op # "follow" /\ social[r].op # "block"
  BY Begins DEF SocialIdle
<1>5. /\ \A q \in SocialCalls \ {r} : social'[q] = social[q]
      /\ social'[r].user = u /\ social'[r].target = v
  BY Begins
<1>6. About(r)' = Pair(u, v) /\ \A q \in SocialCalls \ {r} : About(q)' = About(q)
  BY <1>5 DEF About, Pair
<1>7. OverlapsNoted'
  <2> SUFFICES ASSUME NEW p \in SocialCalls, NEW q \in SocialCalls,
                      social'[p].op = "follow", social'[q].op = "block", About(p)' = About(q)'
               PROVE  About(p)' \in crossed'
    BY DEF OverlapsNoted
  <2>1. CASE p # r /\ q # r
    <3>1. social'[p] = social[p] /\ social'[q] = social[q]
      BY <2>1, Begins
    <3>2. About(p) \in crossed
      BY <3>1 DEF OverlapsNoted, About, Pair
    <3> QED
      BY <3>1, <3>2, Begins DEF About, Pair
  <2>2. CASE p = r
    <3>1. Follow(r, u, v) /\ q # r
      BY <2>2, Begins
    <3>2. social'[q] = social[q] /\ About(p)' = Pair(u, v) /\ About(q) = Pair(u, v)
      BY <2>2, <3>1, <1>5, <1>6
    <3>3. Pair(social[q].user, social[q].target) = Pair(u, v)
      BY <3>2 DEF About
    <3> QED
      BY <3>1, <3>2, <3>3, Begins
  <2>3. CASE q = r
    <3>1. Block(r, u, v) /\ p # r
      BY <2>3, Begins
    <3>2. social'[p] = social[p] /\ About(q)' = Pair(u, v) /\ About(p) = Pair(u, v)
      BY <2>3, <3>1, <1>5, <1>6
    <3>3. Pair(social[p].user, social[p].target) = Pair(u, v)
      BY <3>2 DEF About
    <3> QED
      BY <3>1, <3>2, <3>3, Begins
  <2> QED
    BY <2>1, <2>2, <2>3
<1>8. FollowsStillClear'
  <2> SUFFICES ASSUME NEW p \in SocialCalls, social'[p].op = "follow", About(p)' \notin crossed'
               PROVE  /\ ~Blocked(social'[p].target, social'[p].user)
                      /\ Blocked(social'[p].user, social'[p].target) => social'[p].unblock
    BY <1>1 DEF FollowsStillClear, Blocked, Between
  <2>1. CASE p = r
    BY <2>1, Begins
  <2>2. CASE p # r
    <3>1. social'[p] = social[p] /\ About(p)' = About(p) /\ crossed \subseteq crossed'
      BY <2>2, Begins DEF About, Pair
    <3> QED
      BY <3>1 DEF FollowsStillClear
  <2> QED
    BY <2>1, <2>2
<1>9. BlocksSever'
  BY <1>1, <1>2, Begins DEF BlocksSever, Pair
<1> QED
  BY <1>7, <1>8, <1>9

--------------------------------------------------------------------------------
(* A request ends *)

\* Fewer requests in flight and fewer edges harm nothing.
LEMMA LessIsSafe ==
    ASSUME SeverInv, crossed' = crossed, blocks' \subseteq blocks,
           \A q \in SocialCalls : social'[q] = social[q] \/ social'[q].op \notin {"follow", "block"}
    PROVE  OverlapsNoted' /\ FollowsStillClear' /\ (follows' \subseteq follows => BlocksSever')
<1> USE DEF SeverInv
<1>1. \A w, x : /\ Blocked(w, x)' => Blocked(w, x)
                /\ (follows' \subseteq follows /\ Follows(w, x)') => Follows(w, x)
  BY DEF Blocked, Follows, Between
<1>2. OverlapsNoted'
  BY DEF OverlapsNoted, About, Pair
<1>3. FollowsStillClear'
  <2> SUFFICES ASSUME NEW p \in SocialCalls, (social[p].op = "follow")', (About(p) \notin crossed)'
               PROVE  /\ ~Blocked(social[p].target, social[p].user)'
                      /\ (Blocked(social[p].user, social[p].target) => social[p].unblock)'
    BY DEF FollowsStillClear
  <2>1. social'[p] = social[p]
    OBVIOUS
  <2>2. About(p)' = About(p)
    BY <2>1 DEF About, Pair
  <2>3. /\ ~Blocked(social[p].target, social[p].user)
        /\ Blocked(social[p].user, social[p].target) => social[p].unblock
    BY <2>1, <2>2 DEF FollowsStillClear
  <2> QED
    BY <2>1, <2>3 DEF Blocked, Between
<1>4. follows' \subseteq follows => BlocksSever'
  BY <1>1 DEF BlocksSever, Pair
<1> QED
  BY <1>2, <1>3, <1>4

\* The request that is answered is gone, the others stay.
LEMMA RequestEnds ==
    ASSUME SocialCallsTyped, NEW r \in SocialCalls, SocialDone(r)
    PROVE  \A q \in SocialCalls : IF q = r THEN social'[q].op = "idle" ELSE social'[q] = social[q]
BY DEF SocialDone, SocialCallsTyped, SocialIdle

\* The new follow stands beside no block: it has taken back its own, and the
\* other one it has not found is still not there.
LEMMA FollowedKeeps ==
    ASSUME SeverInv, NEW r \in SocialCalls, Followed(r)
    PROVE  OverlapsNoted' /\ FollowsStillClear' /\ BlocksSever'
<1> USE DEF SeverInv
<1> PICK u, v : u = social[r].user /\ v = social[r].target
  OBVIOUS
<1>1. /\ social[r].op = "follow" /\ SocialDone(r) /\ crossed' = crossed
      /\ follows' = follows \cup {Edge(u, v)}
      /\ blocks' = IF social[r].unblock THEN blocks \ Between(blocks, u, v) ELSE blocks
  BY DEF Followed
<1>2. blocks' \subseteq blocks
  BY <1>1
<1>3. OverlapsNoted' /\ FollowsStillClear'
  BY <1>1, <1>2, RequestEnds, LessIsSafe
<1>4. \A w, x : Blocked(w, x)' => Blocked(w, x)
  BY <1>2 DEF Blocked, Between
<1>5. \A w, x : Follows(w, x)' => Follows(w, x) \/ (w = u /\ x = v)
  BY <1>1 DEF Follows, Between, Edge
<1>6. Pair(u, v) \notin crossed => ~Blocked(v, u) /\ (Blocked(u, v) => social[r].unblock)
  BY <1>1 DEF FollowsStillClear, About
<1>7. social[r].unblock => ~Blocked(u, v)'
  BY <1>1 DEF Blocked, Between
<1>8. BlocksSever'
  <2> SUFFICES ASSUME NEW w \in Users, NEW x \in Users, Follows(w, x)', Blocked(w, x)' \/ Blocked(x, w)'
               PROVE  Pair(w, x) \in crossed
    BY <1>1 DEF BlocksSever, Pair
  <2>1. CASE Follows(w, x)
    BY <2>1, <1>4 DEF BlocksSever
  <2>2. CASE w = u /\ x = v
    BY <2>2, <1>4, <1>6, <1>7
  <2> QED
    BY <2>1, <2>2, <1>5
<1> QED
  BY <1>3, <1>8

\* A block leaves no follow of its pair, and a follow of it still in flight
\* has been noted.
LEMMA BlockSetKeeps ==
    ASSUME SeverInv, NEW r \in SocialCalls, BlockSet(r)
    PROVE  OverlapsNoted' /\ FollowsStillClear' /\ BlocksSever'
<1> USE DEF SeverInv
<1> PICK u, v : u = social[r].user /\ v = social[r].target
  OBVIOUS
<1>1. /\ social[r].op = "block" /\ SocialDone(r) /\ crossed' = crossed
      /\ follows' = follows \ Severed(u, v)
      /\ blocks' = blocks \cup {Edge(u, v)}
  BY DEF BlockSet
<1>2. \A q \in SocialCalls : IF q = r THEN social'[q].op = "idle" ELSE social'[q] = social[q]
  BY <1>1, RequestEnds
<1>3. About(r) = Pair(u, v)
  BY DEF About
<1>4. \A w, x : Blocked(w, x)' => Blocked(w, x) \/ (w = u /\ x = v)
  BY <1>1 DEF Blocked, Between, Edge
<1>5. \A w, x : Follows(w, x)' => Follows(w, x) /\ Pair(w, x) # Pair(u, v)
  BY <1>1 DEF Follows, Between, Severed, Pair
<1>6. OverlapsNoted'
  <2>1. \A q \in SocialCalls : social'[q].op \in {"follow", "block"} => social'[q] = social[q]
    BY <1>2
  <2> QED
    BY <1>1, <2>1, ZenonT(40) DEF OverlapsNoted, About
<1>7. FollowsStillClear'
  <2> SUFFICES ASSUME NEW p \in SocialCalls, (social[p].op = "follow")', (About(p) \notin crossed)'
               PROVE  /\ ~Blocked(social[p].target, social[p].user)'
                      /\ (Blocked(social[p].user, social[p].target) => social[p].unblock)'
    BY DEF FollowsStillClear
  <2> PICK y, z : y = social[p].user /\ z = social[p].target
    OBVIOUS
  <2>1. p # r /\ social'[p] = social[p]
    BY <1>2
  <2>2. About(p)' = About(p) /\ About(p) = Pair(y, z) /\ social[p].op = "follow"
    BY <2>1 DEF About, Pair
  <2>3. Pair(y, z) \notin crossed
    BY <2>2, <1>1
  <2>4. Pair(y, z) # Pair(u, v)
    BY <2>2, <2>3, <1>1, <1>3 DEF OverlapsNoted
  <2>5. ~Blocked(z, y) /\ (Blocked(y, z) => social[p].unblock)
    BY <2>2, <2>3 DEF FollowsStillClear
  <2>6. ~Blocked(z, y)' /\ (Blocked(y, z)' => Blocked(y, z))
    BY <2>4, <2>5, <1>4 DEF Pair
  <2>7. social[p].unblock' = social[p].unblock /\ social[p].user' = y /\ social[p].target' = z
    BY <2>1
  <2> QED
    BY <2>1, <2>5, <2>6 DEF Blocked, Between
<1>8. BlocksSever'
  <2> SUFFICES ASSUME NEW w \in Users, NEW x \in Users, Follows(w, x)', Blocked(w, x)' \/ Blocked(x, w)'
               PROVE  Pair(w, x) \in crossed
    BY <1>1 DEF BlocksSever, Pair
  <2>1. Blocked(w, x) \/ Blocked(x, w)
    BY <1>4, <1>5 DEF Pair
  <2> QED
    BY <2>1, <1>5 DEF BlocksSever
<1> QED
  BY <1>6, <1>7, <1>8

--------------------------------------------------------------------------------

LEMMA SeverStep ==
    ASSUME SeverInv, [SocialNext \/ (Tick /\ UNCHANGED socialVars)]_<<now, socialVars>>
    PROVE  SeverInv'
<1>1. SocialCallsTyped'
  BY CallsStayTyped DEF SeverInv
<1> DEFINE Rest == OverlapsNoted' /\ FollowsStillClear' /\ BlocksSever'
<1>2. ASSUME NEW r \in SocialCalls, NEW u \in Users, NEW v \in Users, Follow(r, u, v) \/ Block(r, u, v)
      PROVE  Rest
  BY <1>2, BeginKeeps
<1>3. ASSUME NEW r \in SocialCalls, NEW u \in Users, NEW x \in Reported, Report(r, u, x)
      PROVE  Rest
  <2>1. \A q \in SocialCalls : social'[q] = social[q] \/ social'[q].op = "report"
    BY <1>3 DEF Report, SocialLoad, SeverInv, SocialCallsTyped
  <2> QED
    BY <1>3, <2>1, LessIsSafe DEF Report
<1>4. ASSUME NEW r \in SocialCalls, Followed(r)
      PROVE  Rest
  BY <1>4, FollowedKeeps
<1>5. ASSUME NEW r \in SocialCalls, BlockSet(r)
      PROVE  Rest
  BY <1>5, BlockSetKeeps
<1>6. ASSUME NEW r \in SocialCalls, ReportMade(r) \/ SocialLost(r)
      PROVE  Rest
  <2>1. SocialDone(r) /\ UNCHANGED <<follows, blocks, crossed>>
    BY <1>6 DEF ReportMade, SocialLost
  <2>2. \A q \in SocialCalls : social'[q] = social[q] \/ social'[q].op \notin {"follow", "block"}
    BY <2>1, RequestEnds DEF SeverInv
  <2> QED
    BY <2>1, <2>2, LessIsSafe
<1>7. ASSUME NEW u \in Users, NEW v \in Users, Unfollow(u, v) \/ Unblock(u, v)
      PROVE  Rest
  BY <1>7, LessIsSafe DEF Unfollow, Unblock
<1>8. ASSUME UNCHANGED socialVars
      PROVE  Rest
  BY <1>8, LessIsSafe DEF socialVars
<1>9. Rest
  BY <1>2, <1>3, <1>4, <1>5, <1>6, <1>7, <1>8 DEF SocialNext
<1> QED
  BY <1>1, <1>9 DEF SeverInv

\* Whatever the users and however many requests overlap, a follow and a block
\* between the same two users are left together only where a follow and a block
\* of theirs were in flight together (SocialService.follow, SocialService.block).
THEOREM BlocksAlwaysSever == SocialSpec => []BlocksSever
<1>1. (\E edges : SocialStart(edges)) => SeverInv
  BY SeverInit
<1>2. SeverInv /\ [SocialNext \/ (Tick /\ UNCHANGED socialVars)]_<<now, socialVars>> => SeverInv'
  BY SeverStep
<1>3. SeverInv => BlocksSever
  BY DEF SeverInv
<1> QED
  BY <1>1, <1>2, <1>3, PTL DEF SocialSpec

--------------------------------------------------------------------------------
(***************************************************************************)
(* A highlight is shared once.  SharedOnce is not inductive: a share in      *)
(* flight has found its highlight unshared, and that must still be so when   *)
(* it is recorded.  Only its owner could have changed it, and waits.         *)
(***************************************************************************)

\* Requests on the social graph, the feed, the shelf and the reviews, from any
\* follows and any shelf on, while the clock runs.
CommunityVars == <<now, socialVars, feed, library>>

CommunityInit ==
    /\ ClockInit /\ FeedInit
    /\ \E edges : SocialStart(edges)
    /\ \E entries : LibraryStart(entries)

CommunityNext ==
    \/ SocialNext /\ UNCHANGED <<feed, library>>
    \/ FeedNext /\ UNCHANGED <<socialVars, library>>
    \/ (ShelfNext \/ ReviewNext) /\ UNCHANGED socialVars
    \/ Tick /\ UNCHANGED <<socialVars, feed, library>>

CommunitySpec == CommunityInit /\ [][CommunityNext]_CommunityVars

HighlightOps == {"highlight", "share"}

HighlightShaped(x) ==
    /\ x = [life |-> x.life, at |-> x.at, author |-> x.author, visibility |-> x.visibility,
            shared |-> x.shared]
    /\ x.life \in FeedLives /\ x.shared \in BOOLEAN

FeedCallTyped(c) ==
    /\ c.op = "share" => c.highlight \in Highlights
    /\ c.op = "event" => c.type # "highlight_shared"

SharesTyped ==
    /\ highlight = [h \in Highlights |-> highlight[h]]
    /\ \A h \in Highlights : HighlightShaped(highlight[h])
    /\ event = [e \in Events |-> event[e]]
    /\ feedCall = [r \in FeedCalls |-> feedCall[r]]
    /\ \A r \in FeedCalls : FeedCallTyped(feedCall[r])

\* Two shares in flight of one highlight overlap.
SharesApart ==
    \A r, q \in FeedCalls :
        (r # q /\ feedCall[r].op = "share" /\ feedCall[q].op = "share"
            /\ feedCall[r].highlight = feedCall[q].highlight)
            => feedCall[r].highlight \in contested

\* What a share in flight has found of its highlight still holds, unless another
\* share overlapped it or the highlight is gone with the book.
SharesUnderway ==
    \A r \in FeedCalls : feedCall[r].op = "share" =>
        LET h == feedCall[r].highlight IN
        /\ highlight[h].life # "unused"
        /\ (highlight[h].life = "live" /\ h \notin contested) => ~highlight[h].shared

\* An id that is not used yet has no share either.
ShareCounted(h) ==
    /\ highlight[h].life = "unused" => ~highlight[h].shared
    /\ highlight[h].life # "gone" =>
          /\ highlight[h].shared <=> SharesOf(h) # {}
          /\ h \notin contested => SharesOf(h) = {} \/ \E e : SharesOf(h) = {e}

SharesInv ==
    /\ SharesTyped /\ SharesApart /\ SharesUnderway
    /\ \A h \in Highlights : ShareCounted(h)

LEMMA SharesStart ==
    ASSUME FeedInit
    PROVE  SharesInv
<1>1. SharesTyped
  BY DEF FeedInit, SharesTyped, HighlightShaped, NewHighlight, FeedLives, FeedCallTyped, FeedIdle
<1>2. SharesApart /\ SharesUnderway
  BY DEF FeedInit, SharesApart, SharesUnderway, FeedIdle
<1>3. ASSUME NEW h \in Highlights
      PROVE  ShareCounted(h)
  <2>1. highlight[h].life = "unused" /\ ~highlight[h].shared
    BY DEF FeedInit, NewHighlight
  <2>2. SharesOf(h) = {}
    BY DEF FeedInit, SharesOf, Live
  <2> QED
    BY <2>1, <2>2 DEF ShareCounted
<1> QED
  BY <1>1, <1>2, <1>3 DEF SharesInv

LEMMA SharesCount ==
    ASSUME SharesInv
    PROVE  SharedOnce
<1> SUFFICES ASSUME NEW h \in Live(highlight)
             PROVE  /\ highlight[h].shared <=> SharesOf(h) # {}
                    /\ h \notin contested => Cardinality(SharesOf(h)) <= 1
  BY DEF SharedOnce
<1>1. h \in Highlights /\ highlight[h].life = "live"
  BY DEF Live, SharesInv, SharesTyped
<1>2. /\ highlight[h].shared <=> SharesOf(h) # {}
      /\ h \notin contested => SharesOf(h) = {} \/ \E e : SharesOf(h) = {e}
  BY <1>1 DEF SharesInv, ShareCounted
<1>3. ASSUME NEW e, SharesOf(h) = {e}
      PROVE  Cardinality(SharesOf(h)) <= 1
  <2>1. Cardinality({e}) = 1
    BY FS_Singleton
  <2> QED
    BY <1>3, <2>1
<1>4. ASSUME SharesOf(h) = {}
      PROVE  Cardinality(SharesOf(h)) <= 1
  <2>1. Cardinality({}) = 0
    BY FS_EmptySet
  <2> QED
    BY <1>4, <2>1
<1> QED
  BY <1>2, <1>3, <1>4

\* A request that is answered or begins leaves the others as they are.
LEMMA FeedCallMoves ==
    ASSUME SharesTyped, NEW r \in FeedCalls, NEW c, feedCall' = [feedCall EXCEPT ![r] = c]
    PROVE  feedCall'[r] = c /\ \A q \in FeedCalls : q # r => feedCall'[q] = feedCall[q]
  BY DEF SharesTyped

LEMMA FeedCallTypes ==
    ASSUME SharesTyped, NEW r \in FeedCalls, NEW c, FeedCallTyped(c),
           feedCall' = [feedCall EXCEPT ![r] = c]
    PROVE  /\ feedCall' = [q \in FeedCalls |-> feedCall'[q]]
           /\ \A q \in FeedCalls : FeedCallTyped(feedCall'[q])
<1>1. \A q \in FeedCalls : FeedCallTyped(feedCall'[q])
  BY FeedCallMoves DEF SharesTyped
<1>2. feedCall' = [q \in FeedCalls |-> IF q = r THEN c ELSE feedCall[q]]
  BY DEF SharesTyped
<1> QED
  BY <1>1, <1>2

\* The events are as they were, or one more is recorded that is no share.
NoNewShare ==
    \/ event' = event
    \/ \E e \in Fresh(event) : \E x :
           event' = [event EXCEPT ![e] = x] /\ x.type # "highlight_shared"

LEMMA SharesStay ==
    ASSUME SharesTyped, NoNewShare
    PROVE  /\ event' = [e \in Events |-> event'[e]]
           /\ \A h \in Highlights : SharesOf(h)' = SharesOf(h)
<1>1. CASE event' = event
  BY <1>1 DEF SharesTyped, SharesOf
<1>2. CASE event' # event
  <2>1. PICK e, x : e \in Fresh(event) /\ event' = [event EXCEPT ![e] = x] /\ x.type # "highlight_shared"
    BY <1>2 DEF NoNewShare
  <2>2. e \in Events /\ event[e].life = "unused"
    BY <2>1 DEF Fresh, SharesTyped
  <2>3. event' = [d \in Events |-> IF d = e THEN x ELSE event[d]]
    BY <2>1 DEF SharesTyped
  <2>4. ASSUME NEW h \in Highlights
        PROVE  SharesOf(h)' = SharesOf(h)
    <3>1. \A d : d \in SharesOf(h)' <=> d \in Events /\ event'[d].life = "live"
                    /\ event'[d].type = "highlight_shared" /\ event'[d].about = h
      BY <2>3 DEF SharesOf, Live
    <3>2. \A d : d \in SharesOf(h) <=> d \in Events /\ event[d].life = "live"
                    /\ event[d].type = "highlight_shared" /\ event[d].about = h
      BY DEF SharesOf, Live, SharesTyped
    <3>3. \A d : d \in SharesOf(h)' <=> d \in SharesOf(h)
      BY <2>1, <2>2, <2>3, <3>1, <3>2
    <3> QED
      BY <3>3
  <2> QED
    BY <2>3, <2>4
<1> QED
  BY <1>1, <1>2

\* A step that shares nothing and leaves highlights, or removes them, and what is
\* on its way to them.
LEMMA SharesKept ==
    ASSUME SharesInv, NoNewShare, contested' = contested,
           highlight' = [h \in Highlights |-> highlight'[h]],
           \A h \in Highlights :
               /\ HighlightShaped(highlight'[h])
               /\ highlight'[h].shared = highlight[h].shared
               /\ highlight'[h].life = highlight[h].life
                     \/ (highlight[h].life = "live" /\ highlight'[h].life = "gone"),
           feedCall' = [q \in FeedCalls |-> feedCall'[q]],
           \A q \in FeedCalls : /\ FeedCallTyped(feedCall'[q])
                                /\ feedCall'[q].op \in HighlightOps => feedCall'[q] = feedCall[q]
    PROVE  SharesInv'
<1>1. /\ event' = [e \in Events |-> event'[e]]
      /\ \A h \in Highlights : SharesOf(h)' = SharesOf(h)
  BY SharesStay DEF SharesInv
<1>2. SharesTyped'
  BY <1>1 DEF SharesTyped
<1>3. SharesApart'
  BY DEF SharesInv, SharesApart, HighlightOps
<1>4. SharesUnderway'
  <2>1. ASSUME NEW q \in FeedCalls, feedCall'[q].op = "share"
        PROVE  /\ highlight'[feedCall'[q].highlight].life # "unused"
               /\ highlight'[feedCall'[q].highlight].life = "live"
                     /\ feedCall'[q].highlight \notin contested' =>
                        ~highlight'[feedCall'[q].highlight].shared
    <3>1. feedCall'[q] = feedCall[q] /\ feedCall[q].op = "share"
      BY <2>1 DEF HighlightOps
    <3>2. PICK h \in Highlights : h = feedCall[q].highlight
      BY <3>1 DEF SharesInv, SharesTyped, FeedCallTyped
    <3>3. /\ highlight[h].life # "unused"
          /\ highlight[h].life = "live" /\ h \notin contested => ~highlight[h].shared
      BY <3>1, <3>2 DEF SharesInv, SharesUnderway
    <3> QED
      BY <3>1, <3>2, <3>3
  <2> QED
    BY <2>1 DEF SharesUnderway
<1>5. ASSUME NEW h \in Highlights
      PROVE  ShareCounted(h)'
  <2>1. ShareCounted(h) /\ SharesOf(h)' = SharesOf(h)
    BY <1>1 DEF SharesInv
  <2> QED
    BY <2>1 DEF ShareCounted
<1> QED
  BY <1>2, <1>3, <1>4, <1>5 DEF SharesInv

\* The highlights are as they were.
LEMMA HighlightsLeft ==
    ASSUME SharesInv, NoNewShare, highlight' = highlight, contested' = contested,
           \/ feedCall' = feedCall
           \/ \E r \in FeedCalls : \E c : /\ feedCall' = [feedCall EXCEPT ![r] = c]
                                            /\ FeedCallTyped(c) /\ c.op \notin HighlightOps
    PROVE  SharesInv'
<1>1. /\ highlight' = [h \in Highlights |-> highlight'[h]]
      /\ \A h \in Highlights : HighlightShaped(highlight'[h])
  BY DEF SharesInv, SharesTyped
<1>2. /\ feedCall' = [q \in FeedCalls |-> feedCall'[q]]
      /\ \A q \in FeedCalls : /\ FeedCallTyped(feedCall'[q])
                              /\ feedCall'[q].op \in HighlightOps => feedCall'[q] = feedCall[q]
  <2>1. CASE feedCall' = feedCall
    BY <2>1 DEF SharesInv, SharesTyped
  <2>2. CASE feedCall' # feedCall
    <3>1. PICK r, c : /\ r \in FeedCalls /\ feedCall' = [feedCall EXCEPT ![r] = c]
                      /\ FeedCallTyped(c) /\ c.op \notin HighlightOps
      BY <2>2
    <3> QED
      BY <3>1, FeedCallTypes, FeedCallMoves DEF SharesInv
  <2> QED
    BY <2>1, <2>2
<1> QED
  BY <1>1, <1>2, SharesKept

\* Requests that read and write no highlight: posts, comments, reactions, events.
LEMMA OtherRequestsKeepShares ==
    ASSUME SharesInv, PostNext \/ EventNext \/ (\E r \in FeedCalls : ReactionToggled(r) \/ FeedLost(r))
    PROVE  SharesInv'
<1> USE DEF HighlightOps
<1>1. ASSUME NEW r \in FeedCalls, NEW c, FeedLoad(r, c), FeedCallTyped(c), c.op \notin HighlightOps
      PROVE  SharesInv'
  <2>1. /\ highlight' = highlight /\ event' = event /\ feedCall' = [feedCall EXCEPT ![r] = c]
        /\ contested' = contested \cup Joins(c)
    BY <1>1 DEF FeedLoad, feedTables
  <2>2. Joins(c) = {}
    BY <1>1 DEF Joins
  <2> QED
    BY <1>1, <2>1, <2>2, HighlightsLeft DEF NoNewShare
<1>2. ASSUME NEW r \in FeedCalls, FeedDone(r), highlight' = highlight, NoNewShare
      PROVE  SharesInv'
  <2>1. /\ feedCall' = [feedCall EXCEPT ![r] = FeedIdle] /\ FeedCallTyped(FeedIdle)
        /\ contested' = contested
    BY <1>2 DEF FeedDone, FeedIdle, FeedCallTyped
  <2>2. FeedIdle.op = "idle"
    BY DEF FeedIdle
  <2> QED
    BY <1>2, <2>1, <2>2, HighlightsLeft
<1>3. ASSUME UNCHANGED <<highlight, event, feedCall, contested>>
      PROVE  SharesInv'
  BY <1>3, HighlightsLeft DEF NoNewShare
<1>4. CASE PostNext
  <2>1. ASSUME NEW r \in FeedCalls, NEW u \in Users, CreatePost(r, u)
        PROVE  SharesInv'
    <3>1. PICK c : c = [op |-> "post", user |-> u, at |-> now]
      OBVIOUS
    <3>2. FeedCallTyped(c) /\ c.op \notin HighlightOps
      BY <3>1 DEF FeedCallTyped
    <3> QED
      BY <1>1, <2>1, <3>1, <3>2 DEF CreatePost
  <2>2. ASSUME NEW r \in FeedCalls, NEW u \in Users, NEW p \in Posts, NEW x \in Comments \cup {NoComment},
               AddComment(r, u, p, x)
        PROVE  SharesInv'
    <3>1. PICK c : c = [op |-> "comment", user |-> u, at |-> now, post |-> p, parent |-> x]
      OBVIOUS
    <3>2. FeedCallTyped(c) /\ c.op \notin HighlightOps
      BY <3>1 DEF FeedCallTyped
    <3> QED
      BY <1>1, <2>2, <3>1, <3>2 DEF AddComment
  <2>3. ASSUME NEW r \in FeedCalls, NEW u \in Users, NEW p \in Posts, NEW k \in Reactions,
               ToggleReaction(r, u, p, k)
        PROVE  SharesInv'
    <3>1. PICK c : c = [op |-> "toggle", row |-> <<"post", p, u, k>>, on |-> <<"post", p, u, k>> \in reacted]
      OBVIOUS
    <3>2. FeedCallTyped(c) /\ c.op \notin HighlightOps
      BY <3>1 DEF FeedCallTyped
    <3> QED
      BY <1>1, <2>3, <3>1, <3>2 DEF ToggleReaction
  <2>4. ASSUME NEW r \in FeedCalls, NEW x, PostCreated(r, x) \/ CommentAdded(r, x)
        PROVE  SharesInv'
    BY <1>2, <2>4 DEF PostCreated, CommentAdded, NoNewShare
  <2>5. ASSUME NEW u \in Users, NEW x, DeletePost(u, x) \/ DeleteComment(u, x)
        PROVE  SharesInv'
    BY <1>3, <2>5 DEF DeletePost, DeleteComment
  <2> QED
    BY <1>4, <2>1, <2>2, <2>3, <2>4, <2>5 DEF PostNext
<1>5. CASE EventNext
  <2>1. ASSUME NEW r \in FeedCalls, NEW u \in Users, NEW type \in EventTypes, NEW n \in {5, 7},
               RecordEvent(r, u, type, n)
        PROVE  SharesInv'
    <3>1. PICK c : c = [op |-> "event", user |-> u, at |-> now, type |-> type]
      OBVIOUS
    <3>2. FeedCallTyped(c) /\ c.op \notin HighlightOps
      BY <2>1, <3>1 DEF FeedCallTyped, RecordEvent
    <3> QED
      BY <1>1, <2>1, <3>1, <3>2 DEF RecordEvent
  <2>2. ASSUME NEW r \in FeedCalls, NEW e \in Events, EventRecorded(r, e)
        PROVE  SharesInv'
    <3>1. PICK t : t = feedCall[r].type
      OBVIOUS
    <3>2. t # "highlight_shared"
      BY <2>2, <3>1 DEF SharesInv, SharesTyped, FeedCallTyped, EventRecorded
    <3>3. PICK x : x = [life |-> "live", at |-> feedCall[r].at, author |-> feedCall[r].user,
                        type |-> t, about |-> NoHighlight]
      OBVIOUS
    <3>4. /\ e \in Fresh(event) /\ event' = [event EXCEPT ![e] = x]
          /\ FeedDone(r) /\ highlight' = highlight
      BY <2>2, <3>1, <3>3 DEF EventRecorded
    <3>5. x.type # "highlight_shared"
      BY <3>2, <3>3
    <3> QED
      BY <1>2, <3>4, <3>5 DEF NoNewShare
  <2>3. ASSUME NEW r \in FeedCalls, NEW u \in Users, NEW e \in Events, NEW k \in Reactions,
               ToggleFeedReaction(r, u, e, k)
        PROVE  SharesInv'
    <3>1. PICK c : c = [op |-> "toggle", row |-> <<"event", e, u, k>>, on |-> <<"event", e, u, k>> \in reacted]
      OBVIOUS
    <3>2. FeedCallTyped(c) /\ c.op \notin HighlightOps
      BY <3>1 DEF FeedCallTyped
    <3> QED
      BY <1>1, <2>3, <3>1, <3>2 DEF ToggleFeedReaction
  <2>4. ASSUME NEW r \in FeedCalls, NEW u \in Users, NEW e \in Events, NEW x \in Replies \cup {NoReply},
               AddFeedComment(r, u, e, x)
        PROVE  SharesInv'
    <3>1. PICK c : c = [op |-> "reply", user |-> u, at |-> now, event |-> e, parent |-> x]
      OBVIOUS
    <3>2. FeedCallTyped(c) /\ c.op \notin HighlightOps
      BY <3>1 DEF FeedCallTyped
    <3> QED
      BY <1>1, <2>4, <3>1, <3>2 DEF AddFeedComment
  <2>5. ASSUME NEW r \in FeedCalls, NEW x, FeedCommentAdded(r, x)
        PROVE  SharesInv'
    BY <1>2, <2>5 DEF FeedCommentAdded, NoNewShare
  <2>6. ASSUME NEW u \in Users, NEW x, DeleteFeedComment(u, x)
        PROVE  SharesInv'
    BY <1>3, <2>6 DEF DeleteFeedComment
  <2> QED
    BY <1>5, <2>1, <2>2, <2>3, <2>4, <2>5, <2>6 DEF EventNext
<1>6. ASSUME NEW r \in FeedCalls, ReactionToggled(r) \/ FeedLost(r)
      PROVE  SharesInv'
  BY <1>2, <1>6 DEF ReactionToggled, FeedLost, feedTables, NoNewShare
<1> QED
  BY <1>4, <1>5, <1>6

LEMMA HighlightRemoved ==
    ASSUME SharesInv, UNCHANGED <<event, feedCall, contested>>, highlight' = [h \in Highlights |-> highlight'[h]],
           \A h \in Highlights :
               \/ highlight'[h] = highlight[h]
               \/ highlight[h].life = "live" /\ highlight'[h] = [highlight[h] EXCEPT !.life = "gone"]
               \/ \E v : highlight'[h] = [highlight[h] EXCEPT !.visibility = v]
    PROVE  SharesInv'
<1>1. ASSUME NEW h \in Highlights
      PROVE  /\ HighlightShaped(highlight'[h])
             /\ highlight'[h].shared = highlight[h].shared
             /\ highlight'[h].life = highlight[h].life
                   \/ (highlight[h].life = "live" /\ highlight'[h].life = "gone")
  <2>1. PICK x, y : x = highlight[h] /\ y = highlight'[h]
    OBVIOUS
  <2>2. HighlightShaped(x)
    BY <2>1 DEF SharesInv, SharesTyped
  <2>3. CASE y = x
    BY <2>1, <2>2, <2>3
  <2>4. CASE x.life = "live" /\ y = [x EXCEPT !.life = "gone"]
    <3>1. y = [life |-> "gone", at |-> x.at, author |-> x.author, visibility |-> x.visibility,
               shared |-> x.shared]
      BY <2>2, <2>4 DEF HighlightShaped
    <3> QED
      BY <2>1, <2>2, <2>4, <3>1 DEF HighlightShaped, FeedLives
  <2>5. ASSUME NEW v, y = [x EXCEPT !.visibility = v]
        PROVE  HighlightShaped(y) /\ y.shared = x.shared /\ y.life = x.life
    <3>1. y = [life |-> x.life, at |-> x.at, author |-> x.author, visibility |-> v, shared |-> x.shared]
      BY <2>2, <2>5 DEF HighlightShaped
    <3> QED
      BY <2>2, <3>1 DEF HighlightShaped
  <2> QED
    BY <2>1, <2>3, <2>4, <2>5
<1>2. \A q \in FeedCalls : feedCall'[q] = feedCall[q]
  OBVIOUS
<1> QED
  BY <1>1, <1>2, SharesKept DEF NoNewShare, SharesInv, SharesTyped

LEMMA HighlightMade ==
    ASSUME SharesInv,
           \/ \E r \in FeedCalls : \E u \in Users : CreateHighlight(r, u)
           \/ \E r \in FeedCalls : \E h \in Highlights : HighlightCreated(r, h)
    PROVE  SharesInv'
<1>1. ASSUME NEW r \in FeedCalls, NEW u \in Users, CreateHighlight(r, u)
      PROVE  SharesInv'
  <2>1. PICK c : c = [op |-> "highlight", user |-> u, at |-> now]
    OBVIOUS
  <2>2. /\ feedCall' = [feedCall EXCEPT ![r] = c] /\ highlight' = highlight /\ event' = event
        /\ contested' = contested \cup Joins(c)
    BY <1>1, <2>1 DEF CreateHighlight, FeedLoad, feedTables
  <2>3. FeedCallTyped(c) /\ c.op = "highlight" /\ Joins(c) = {}
    BY <2>1 DEF FeedCallTyped, Joins
  <2>4. SharesTyped'
    BY <2>2, <2>3, FeedCallTypes DEF SharesInv, SharesTyped
  <2>5. feedCall'[r] = c /\ \A q \in FeedCalls : q # r => feedCall'[q] = feedCall[q]
    BY <2>2, FeedCallMoves DEF SharesInv
  <2>6. SharesApart'
    BY <2>2, <2>3, <2>5 DEF SharesInv, SharesApart
  <2>7. SharesUnderway'
    BY <2>2, <2>3, <2>5 DEF SharesInv, SharesUnderway
  <2>8. \A h \in Highlights : ShareCounted(h)'
    BY <2>2, <2>3 DEF SharesInv, ShareCounted, SharesOf
  <2> QED
    BY <2>4, <2>6, <2>7, <2>8 DEF SharesInv
<1>2. ASSUME NEW r \in FeedCalls, NEW h \in Highlights, HighlightCreated(r, h)
      PROVE  SharesInv'
  <2>1. PICK x : x = [life |-> "live", at |-> feedCall[r].at, author |-> feedCall[r].user,
                      visibility |-> "private", shared |-> FALSE]
    OBVIOUS
  <2>2. /\ highlight' = [highlight EXCEPT ![h] = x] /\ event' = event
        /\ feedCall' = [feedCall EXCEPT ![r] = FeedIdle] /\ contested' = contested
    BY <1>2, <2>1 DEF HighlightCreated, FeedDone
  <2>3. highlight[h].life = "unused"
    BY <1>2 DEF HighlightCreated, Fresh
  <2>4. /\ highlight'[h] = x /\ highlight' = [g \in Highlights |-> highlight'[g]]
        /\ \A g \in Highlights : g # h => highlight'[g] = highlight[g]
    BY <2>2 DEF SharesInv, SharesTyped
  <2>5. /\ feedCall'[r] = FeedIdle /\ FeedIdle.op = "idle"
        /\ \A q \in FeedCalls : q # r => feedCall'[q] = feedCall[q]
    BY <2>2, FeedCallMoves DEF SharesInv, FeedIdle
  <2>6. SharesTyped'
    <3>1. FeedCallTyped(FeedIdle)
      BY DEF FeedIdle, FeedCallTyped
    <3>2. HighlightShaped(x)
      BY <2>1 DEF HighlightShaped, FeedLives
    <3>3. \A g \in Highlights : HighlightShaped(highlight'[g])
      BY <2>4, <3>2 DEF SharesInv, SharesTyped
    <3>4. /\ feedCall' = [q \in FeedCalls |-> feedCall'[q]]
          /\ \A q \in FeedCalls : FeedCallTyped(feedCall'[q])
      BY <2>2, <3>1, FeedCallTypes DEF SharesInv
    <3> QED
      BY <2>2, <2>4, <3>3, <3>4 DEF SharesInv, SharesTyped
  <2>7. SharesApart'
    BY <2>2, <2>5 DEF SharesInv, SharesApart
  <2>8. SharesUnderway'
    <3>1. ASSUME NEW q \in FeedCalls, feedCall'[q].op = "share"
          PROVE  feedCall'[q] = feedCall[q] /\ highlight'[feedCall[q].highlight] = highlight[feedCall[q].highlight]
      BY <2>3, <2>4, <2>5, <3>1 DEF SharesInv, SharesTyped, FeedCallTyped, SharesUnderway
    <3> QED
      BY <2>2, <3>1 DEF SharesInv, SharesUnderway
  <2>9. ASSUME NEW g \in Highlights
        PROVE  ShareCounted(g)'
    <3>1. ShareCounted(g) /\ SharesOf(g)' = SharesOf(g)
      BY <2>2 DEF SharesInv, SharesOf
    <3>2. CASE g = h
      <4>1. SharesOf(g) = {}
        BY <2>3, <3>1, <3>2 DEF ShareCounted
      <4> QED
        BY <2>1, <2>4, <3>1, <3>2, <4>1 DEF ShareCounted
    <3>3. CASE g # h
      BY <2>2, <2>4, <3>1, <3>3 DEF ShareCounted
    <3> QED
      BY <3>2, <3>3
  <2> QED
    BY <2>6, <2>7, <2>8, <2>9 DEF SharesInv
<1> QED
  BY <1>1, <1>2

LEMMA ShareBegins ==
    ASSUME SharesInv, NEW r \in FeedCalls, NEW u \in Users, NEW h \in Highlights,
           ShareHighlight(r, u, h)
    PROVE  SharesInv'
<1>1. PICK c : c = [op |-> "share", user |-> u, at |-> now, highlight |-> h]
  OBVIOUS
<1>2. /\ feedCall' = [feedCall EXCEPT ![r] = c] /\ highlight' = highlight /\ event' = event
      /\ contested' = contested \cup Joins(c)
  BY <1>1 DEF ShareHighlight, FeedLoad, feedTables
<1>3. FeedCallTyped(c) /\ c.op = "share" /\ c.highlight = h
  BY <1>1 DEF FeedCallTyped
<1>4. SharesTyped'
  BY <1>2, <1>3, FeedCallTypes DEF SharesInv, SharesTyped
<1>5. feedCall'[r] = c /\ \A q \in FeedCalls : q # r => feedCall'[q] = feedCall[q]
  BY <1>2, FeedCallMoves DEF SharesInv
<1>6. SharesApart'
  <2>1. ASSUME NEW q \in FeedCalls, q # r, feedCall[q].op = "share", feedCall[q].highlight = h
        PROVE  h \in contested'
    BY <1>2, <1>3, <2>1 DEF Joins
  <2> QED
    BY <1>2, <1>3, <1>5, <2>1 DEF SharesInv, SharesApart
<1>7. SharesUnderway'
  <2>1. highlight[h].life = "live"
    BY DEF ShareHighlight, Owned, Live
  <2>2. ~highlight[h].shared
    <3>1. ShareCounted(h) /\ ~AlreadyShared(h)
      BY DEF ShareHighlight, SharesInv
    <3> QED
      BY <2>1, <3>1 DEF ShareCounted, AlreadyShared
  <2> QED
    BY <1>2, <1>3, <1>5, <2>1, <2>2 DEF SharesInv, SharesUnderway
<1>8. \A g \in Highlights : ShareCounted(g)'
  BY <1>2 DEF SharesInv, ShareCounted, SharesOf
<1> QED
  BY <1>4, <1>6, <1>7, <1>8 DEF SharesInv

\* The share is recorded: the one event of a highlight that had none.
LEMMA ShareEnds ==
    ASSUME SharesInv, NEW r \in FeedCalls, NEW e \in Events, HighlightShared(r, e)
    PROVE  SharesInv'
<1>1. PICK c, h : c = feedCall[r] /\ h = c.highlight
  OBVIOUS
<1>2. c.op = "share" /\ h \in Highlights
  BY <1>1 DEF HighlightShared, SharesInv, SharesTyped, FeedCallTyped
<1>3. /\ highlight[h].life # "unused"
      /\ highlight[h].life = "live" /\ h \notin contested => ~highlight[h].shared
  BY <1>1, <1>2 DEF SharesInv, SharesUnderway
<1>4. PICK x : x = [life |-> "live", at |-> c.at, author |-> c.user, type |-> "highlight_shared",
                    about |-> h]
  OBVIOUS
<1>5. /\ event' = [event EXCEPT ![e] = x] /\ event[e].life = "unused"
      /\ feedCall' = [feedCall EXCEPT ![r] = FeedIdle] /\ contested' = contested
      /\ highlight' = IF highlight[h].life = "live"
                      THEN [highlight EXCEPT ![h].shared = TRUE, ![h].visibility = "public"]
                      ELSE highlight
  BY <1>1, <1>4 DEF HighlightShared, FeedDone, Fresh
<1>6. event' = [d \in Events |-> IF d = e THEN x ELSE event[d]]
  BY <1>5 DEF SharesInv, SharesTyped
<1>7. /\ feedCall'[r] = FeedIdle /\ FeedIdle.op = "idle"
      /\ \A q \in FeedCalls : q # r => feedCall'[q] = feedCall[q]
  BY <1>5, FeedCallMoves DEF SharesInv, FeedIdle
<1>8. /\ highlight' = [g \in Highlights |-> highlight'[g]]
      /\ \A g \in Highlights : g # h => highlight'[g] = highlight[g]
      /\ highlight[h].life # "live" => highlight'[h] = highlight[h]
      /\ highlight[h].life = "live" =>
             highlight'[h] = [highlight[h] EXCEPT !.shared = TRUE, !.visibility = "public"]
  <2>1. CASE highlight[h].life = "live"
    <3>1. highlight' = [g \in Highlights |-> IF g = h
                           THEN [highlight[h] EXCEPT !.shared = TRUE, !.visibility = "public"]
                           ELSE highlight[g]]
      BY <1>2, <1>5, <2>1 DEF SharesInv, SharesTyped
    <3> QED
      BY <1>2, <2>1, <3>1
  <2>2. CASE highlight[h].life # "live"
    BY <1>2, <1>5, <2>2 DEF SharesInv, SharesTyped
  <2> QED
    BY <2>1, <2>2
<1>9. /\ HighlightShaped(highlight'[h])
      /\ highlight'[h].life = highlight[h].life
      /\ highlight[h].life = "live" => highlight'[h].shared
  <2>1. HighlightShaped(highlight[h])
    BY <1>2 DEF SharesInv, SharesTyped
  <2>2. CASE highlight[h].life = "live"
    <3>1. PICK y, z : y = highlight[h] /\ z = highlight'[h]
      OBVIOUS
    <3>2. z = [life |-> y.life, at |-> y.at, author |-> y.author, visibility |-> "public", shared |-> TRUE]
      BY <1>8, <2>1, <2>2, <3>1 DEF HighlightShaped
    <3> QED
      BY <2>1, <3>1, <3>2 DEF HighlightShaped
  <2>3. CASE highlight[h].life # "live"
    BY <1>8, <2>1, <2>3
  <2> QED
    BY <2>2, <2>3
<1>10. SharesTyped'
  <2>1. FeedCallTyped(FeedIdle)
    BY DEF FeedIdle, FeedCallTyped
  <2>2. /\ feedCall' = [q \in FeedCalls |-> feedCall'[q]]
        /\ \A q \in FeedCalls : FeedCallTyped(feedCall'[q])
    BY <1>5, <2>1, FeedCallTypes DEF SharesInv
  <2>3. \A g \in Highlights : HighlightShaped(highlight'[g])
    BY <1>8, <1>9 DEF SharesInv, SharesTyped
  <2>4. event' = [d \in Events |-> event'[d]]
    BY <1>6
  <2> QED
    BY <1>8, <2>2, <2>3, <2>4 DEF SharesTyped
<1>11. SharesApart'
  BY <1>5, <1>7 DEF SharesInv, SharesApart
<1>12. SharesUnderway'
  <2>1. ASSUME NEW q \in FeedCalls, feedCall'[q].op = "share"
        PROVE  /\ highlight'[feedCall'[q].highlight].life # "unused"
               /\ highlight'[feedCall'[q].highlight].life = "live"
                     /\ feedCall'[q].highlight \notin contested' =>
                        ~highlight'[feedCall'[q].highlight].shared
    <3>1. q # r /\ feedCall'[q] = feedCall[q] /\ feedCall[q].op = "share"
      BY <1>7, <2>1
    <3>2. PICK g \in Highlights : g = feedCall[q].highlight
      BY <3>1 DEF SharesInv, SharesTyped, FeedCallTyped
    <3>3. CASE g = h
      <4>1. h \in contested'
        BY <1>1, <1>2, <1>5, <3>1, <3>2, <3>3 DEF SharesInv, SharesApart
      <4>2. highlight'[h].life # "unused"
        BY <1>3, <1>9
      <4>3. feedCall'[q].highlight = h
        BY <3>1, <3>2, <3>3
      <4> QED
        BY <4>1, <4>2, <4>3
    <3>4. CASE g # h
      <4>1. /\ highlight[g].life # "unused"
            /\ highlight[g].life = "live" /\ g \notin contested => ~highlight[g].shared
        BY <3>1, <3>2 DEF SharesInv, SharesUnderway
      <4>2. highlight'[g] = highlight[g] /\ contested' = contested
        BY <1>5, <1>8, <3>4
      <4>3. feedCall'[q].highlight = g
        BY <3>1, <3>2
      <4> QED
        BY <4>1, <4>2, <4>3
    <3> QED
      BY <3>3, <3>4
  <2> QED
    BY <2>1 DEF SharesUnderway
<1>13. ASSUME NEW g \in Highlights
       PROVE  ShareCounted(g)'
  <2>1. ShareCounted(g)
    BY DEF SharesInv
  <2>2. \A d : d \in SharesOf(g)' <=> d \in Events /\ event'[d].life = "live"
                  /\ event'[d].type = "highlight_shared" /\ event'[d].about = g
    BY <1>6 DEF SharesOf, Live
  <2>3. \A d : d \in SharesOf(g) <=> d \in Events /\ event[d].life = "live"
                  /\ event[d].type = "highlight_shared" /\ event[d].about = g
    BY DEF SharesOf, Live, SharesInv, SharesTyped
  <2>4. CASE g # h
    <3>1. \A d : d \in SharesOf(g)' <=> d \in SharesOf(g)
      BY <1>4, <1>5, <1>6, <2>2, <2>3, <2>4
    <3>2. SharesOf(g)' = SharesOf(g) /\ highlight'[g] = highlight[g] /\ contested' = contested
      BY <1>5, <1>8, <2>4, <3>1
    <3> QED
      BY <2>1, <3>2 DEF ShareCounted
  <2>5. CASE g = h /\ highlight[h].life = "live"
    <3>1. \A d : d \in SharesOf(g)' <=> d = e \/ d \in SharesOf(g)
      BY <1>4, <1>5, <1>6, <2>2, <2>3, <2>5
    <3>2. highlight'[g].shared /\ highlight'[g].life = "live" /\ SharesOf(g)' # {}
      BY <1>9, <2>5, <3>1
    <3>3. ASSUME g \notin contested'
          PROVE  SharesOf(g)' = {e}
      <4>1. SharesOf(g) = {}
        BY <1>3, <1>5, <2>1, <2>5, <3>3 DEF ShareCounted
      <4>2. \A d : d \in SharesOf(g)' <=> d = e
        BY <3>1, <4>1
      <4> QED
        BY <4>2
    <3> QED
      BY <3>2, <3>3 DEF ShareCounted
  <2>6. CASE g = h /\ highlight[h].life # "live"
    <3>1. highlight[h].life = "gone" /\ highlight'[g] = highlight[g]
      BY <1>2, <1>3, <1>8, <2>6 DEF SharesInv, SharesTyped, HighlightShaped, FeedLives
    <3> QED
      BY <2>6, <3>1 DEF ShareCounted
  <2> QED
    BY <2>4, <2>5, <2>6
<1> QED
  BY <1>10, <1>11, <1>12, <1>13 DEF SharesInv

LEMMA HighlightStep ==
    ASSUME SharesInv, HighlightNext
    PROVE  SharesInv'
<1>1. ASSUME NEW u \in Users, NEW h \in Highlights, DeleteHighlight(u, h)
      PROVE  SharesInv'
  <2>1. /\ highlight[h].life = "live"
        /\ highlight' = [g \in Highlights |->
                            IF g = h THEN [highlight[h] EXCEPT !.life = "gone"] ELSE highlight[g]]
        /\ UNCHANGED <<event, feedCall, contested>>
    BY <1>1 DEF DeleteHighlight, Owned, Live, SharesInv, SharesTyped
  <2>2. ASSUME NEW g \in Highlights
        PROVE  \/ highlight'[g] = highlight[g]
               \/ highlight[g].life = "live" /\ highlight'[g] = [highlight[g] EXCEPT !.life = "gone"]
    BY <2>1
  <2>3. highlight' = [g \in Highlights |-> highlight'[g]]
    BY <2>1
  <2> QED
    BY <2>1, <2>2, <2>3, HighlightRemoved
<1>2. ASSUME NEW u \in Users, NEW h \in Highlights, NEW v \in Visibilities, SetVisibility(u, h, v)
      PROVE  SharesInv'
  <2>1. /\ highlight' = [g \in Highlights |->
                            IF g = h THEN [highlight[h] EXCEPT !.visibility = v] ELSE highlight[g]]
        /\ UNCHANGED <<event, feedCall, contested>>
    BY <1>2 DEF SetVisibility, SharesInv, SharesTyped
  <2>2. ASSUME NEW g \in Highlights
        PROVE  highlight'[g] = highlight[g] \/ \E w : highlight'[g] = [highlight[g] EXCEPT !.visibility = w]
    BY <2>1
  <2>3. highlight' = [g \in Highlights |-> highlight'[g]]
    BY <2>1
  <2> QED
    BY <2>1, <2>2, <2>3, HighlightRemoved
<1> QED
  BY <1>1, <1>2, HighlightMade, ShareBegins, ShareEnds DEF HighlightNext

\* The shelf announces other things than shares, and takes highlights away.
LEMMA ShelfStep ==
    ASSUME SharesInv, ShelfNext \/ ReviewNext
    PROVE  SharesInv'
<1>1. ASSUME UNCHANGED feed
      PROVE  SharesInv'
  BY <1>1, HighlightsLeft DEF feed, feedTables, NoNewShare
<1>2. ASSUME NEW e, NEW u, NEW type, NEW at, Announce(e, u, type, at), UNCHANGED Tables,
             type # "highlight_shared"
      PROVE  SharesInv'
  <2>1. PICK x : x = [life |-> "live", at |-> at, author |-> u, type |-> type, about |-> NoHighlight]
    OBVIOUS
  <2>2. e \in Fresh(event) /\ event' = [event EXCEPT ![e] = x] /\ x.type # "highlight_shared"
    BY <1>2, <2>1 DEF Announce
  <2>3. NoNewShare
    BY <2>2 DEF NoNewShare
  <2> QED
    BY <1>2, <2>3, HighlightsLeft DEF Tables
<1>3. ASSUME NEW r \in LibraryCalls, NEW e \in Events, StatusUpdated(r, e)
      PROVE  SharesInv'
  <2>1. CASE libCall[r].status = "completed"
    <3>1. Announce(e, libCall[r].user, "BOOK_COMPLETED", libCall[r].at) /\ UNCHANGED Tables
      BY <1>3, <2>1 DEF StatusUpdated
    <3> QED
      BY <1>2, <3>1
  <2>2. CASE libCall[r].status # "completed"
    BY <1>1, <1>3, <2>2 DEF StatusUpdated, Tables, feed, feedTables
  <2> QED
    BY <2>1, <2>2
<1>4. ASSUME NEW r \in LibraryCalls, NEW e \in Events, MilestoneRecorded(r, e)
      PROVE  SharesInv'
  <2>1. Announce(e, libCall[r].user, "CHAPTER_MILESTONE", libCall[r].at) /\ UNCHANGED Tables
    BY <1>4 DEF MilestoneRecorded
  <2> QED
    BY <1>2, <2>1
<1>5. ASSUME NEW r \in LibraryCalls, NEW v \in Reviews, NEW e \in Events, ReviewCreated(r, v, e)
      PROVE  SharesInv'
  <2>1. Announce(e, libCall[r].user, "BOOK_REVIEWED", libCall[r].at) /\ UNCHANGED Tables
    BY <1>5 DEF ReviewCreated
  <2> QED
    BY <1>2, <2>1
<1>6. ASSUME NEW u \in Users, NEW b \in Books, RemoveFromLibrary(u, b)
      PROVE  SharesInv'
  <2>1. /\ highlight' = [h \in Highlights |->
                            IF b = TheBook /\ Owned(u, h) THEN [highlight[h] EXCEPT !.life = "gone"]
                            ELSE highlight[h]]
        /\ UNCHANGED <<event, feedCall, contested>>
    BY <1>6 DEF RemoveFromLibrary
  <2>2. ASSUME NEW h \in Highlights
        PROVE  \/ highlight'[h] = highlight[h]
               \/ highlight[h].life = "live" /\ highlight'[h] = [highlight[h] EXCEPT !.life = "gone"]
    BY <2>1 DEF Owned, Live
  <2>3. highlight' = [h \in Highlights |-> highlight'[h]]
    BY <2>1
  <2> QED
    BY <2>1, <2>2, <2>3, HighlightRemoved
<1>7. CASE ShelfNext
  <2>1. ASSUME NEW r \in LibraryCalls, NEW u \in Users, NEW b \in Books,
               \/ \E s \in Statuses : AddToLibrary(r, u, b, s) \/ UpdateStatus(r, u, b, s)
               \/ \E n \in Chapters : UpdateChapter(r, u, b, n)
        PROVE  UNCHANGED feed
    BY <2>1 DEF AddToLibrary, UpdateStatus, UpdateChapter, LibraryLoad
  <2>2. ASSUME NEW r \in LibraryCalls, LibraryAdded(r) \/ ChapterUpdated(r) \/ LibraryLost(r)
        PROVE  UNCHANGED feed
    BY <2>2 DEF LibraryAdded, ChapterUpdated, LibraryLost
  <2> QED
    BY <1>1, <1>3, <1>4, <1>6, <1>7, <2>1, <2>2 DEF ShelfNext
<1>8. CASE ReviewNext
  <2>1. ASSUME NEW r \in LibraryCalls, NEW u \in Users,
               \/ \E b \in Books, text \in BOOLEAN : CreateReview(r, u, b, text)
               \/ \E v \in Reviews : ReportReview(r, u, v)
        PROVE  UNCHANGED feed
    BY <2>1 DEF CreateReview, ReportReview, LibraryLoad
  <2>2. ASSUME NEW r \in LibraryCalls, ReviewReported(r)
        PROVE  UNCHANGED feed
    BY <2>2 DEF ReviewReported
  <2>3. ASSUME NEW u \in Users, NEW v \in Reviews,
               DeleteReview(u, v) \/ \E text \in BOOLEAN : UpdateReview(u, v, text)
        PROVE  UNCHANGED feed
    BY <2>3 DEF DeleteReview, UpdateReview
  <2> QED
    BY <1>1, <1>5, <1>8, <2>1, <2>2, <2>3 DEF ReviewNext
<1> QED
  BY <1>7, <1>8

\* A highlight that stands is in the feed once it was shared, and only once
\* unless two shares of it overlapped (SharedOnce;
\* FeedService.share_highlight_to_feed).
THEOREM HighlightsSharedOnce == CommunitySpec => []SharedOnce
<1>1. CommunityInit => SharesInv
  BY SharesStart DEF CommunityInit
<1>2. SharesInv /\ [CommunityNext]_CommunityVars => SharesInv'
  <2> SUFFICES ASSUME SharesInv, [CommunityNext]_CommunityVars
               PROVE  SharesInv'
    OBVIOUS
  <2>1. CASE UNCHANGED feed
    BY <2>1, HighlightsLeft DEF feed, feedTables, NoNewShare
  <2>2. CASE FeedNext
    BY <2>2, HighlightStep, OtherRequestsKeepShares DEF FeedNext
  <2>3. CASE ShelfNext \/ ReviewNext
    BY <2>3, ShelfStep
  <2> QED
    BY <2>1, <2>2, <2>3 DEF CommunityNext, CommunityVars
<1>3. SharesInv => SharedOnce
  BY SharesCount
<1> QED
  BY <1>1, <1>2, <1>3, PTL DEF CommunitySpec

--------------------------------------------------------------------------------
(***************************************************************************)
(* Reports hide a review.  ReportsHide speaks of reviews that stand; the      *)
(* invariant speaks of every id, and of the counts that reports in flight    *)
(* have loaded: never more than were answered, and, while no report has      *)
(* overlapped another, the count of the row itself.                          *)
(***************************************************************************)

ReviewShaped(x) ==
    /\ x = [life |-> x.life, at |-> x.at, author |-> x.author, book |-> x.book, text |-> x.text,
            reports |-> x.reports, hidden |-> x.hidden]
    /\ x.reports \in Nat /\ x.hidden \in BOOLEAN

ReportsTyped ==
    /\ review = [v \in Reviews |-> review[v]]
    /\ \A v \in Reviews : ReviewShaped(review[v])
    /\ accepted \in [Reviews -> Nat]
    /\ libCall = [r \in LibraryCalls |-> libCall[r]]

ReportsCounted(v) ==
    /\ review[v].reports <= accepted[v]
    /\ review[v].hidden => accepted[v] >= HideThreshold
    /\ v \notin overlapped =>
          review[v].reports = accepted[v] /\ (review[v].hidden <=> accepted[v] >= HideThreshold)
    /\ review[v].life = "unused" => accepted[v] = 0

ReportUnderway(c) ==
    c.op = "report" =>
        /\ c.review \in Reviews /\ review[c.review].life # "unused"
        /\ c.reports \in Nat /\ c.reports <= accepted[c.review]
        /\ c.review \notin overlapped => c.reports = review[c.review].reports

ReportsInv ==
    /\ ReportsTyped
    /\ \A v \in Reviews : ReportsCounted(v)
    /\ \A r \in LibraryCalls : ReportUnderway(libCall[r])

LEMMA ReportsStart ==
    ASSUME NEW entries, LibraryStart(entries)
    PROVE  ReportsInv
<1>1. ReportsTyped
  BY DEF LibraryStart, ReportsTyped, ReviewShaped, NoReview
<1>2. \A v \in Reviews : ReportsCounted(v)
  BY LibraryAssumption DEF LibraryStart, ReportsCounted, NoReview
<1>3. \A r \in LibraryCalls : ReportUnderway(libCall[r])
  BY DEF LibraryStart, ReportUnderway, LibraryIdle
<1> QED
  BY <1>1, <1>2, <1>3 DEF ReportsInv

\* A step that counts no report: what reviews count stays, and at most one
\* request is answered or begins.
LEMMA ReportsLeft ==
    ASSUME ReportsInv, UNCHANGED <<accepted, overlapped>>,
           review' = [v \in Reviews |-> review'[v]],
           \A v \in Reviews :
               /\ ReviewShaped(review'[v])
               /\ review'[v].reports = review[v].reports /\ review'[v].hidden = review[v].hidden
               /\ review'[v].life = "unused" => review[v].life = "unused",
           \/ libCall' = libCall
           \/ \E r \in LibraryCalls : \E c :
                  /\ libCall' = [libCall EXCEPT ![r] = c]
                  /\ ReportUnderway(c)
    PROVE  ReportsInv'
<1>1. /\ libCall' = [q \in LibraryCalls |-> libCall'[q]]
      /\ \A q \in LibraryCalls : ReportUnderway(libCall'[q])
  <2>1. CASE libCall' = libCall
    BY <2>1 DEF ReportsInv, ReportsTyped
  <2>2. CASE libCall' # libCall
    <3>1. PICK r, c : /\ r \in LibraryCalls /\ libCall' = [libCall EXCEPT ![r] = c]
                      /\ ReportUnderway(c)
      BY <2>2
    <3>2. libCall' = [q \in LibraryCalls |-> IF q = r THEN c ELSE libCall[q]]
      BY <3>1 DEF ReportsInv, ReportsTyped
    <3>3. \A q \in LibraryCalls : libCall'[q] = IF q = r THEN c ELSE libCall[q]
      BY <3>2
    <3> QED
      BY <3>1, <3>2, <3>3 DEF ReportsInv
  <2> QED
    BY <2>1, <2>2
<1>2. ReportsTyped'
  BY <1>1 DEF ReportsInv, ReportsTyped
<1>3. \A v \in Reviews : ReportsCounted(v)'
  BY DEF ReportsInv, ReportsCounted
<1>4. ASSUME NEW q \in LibraryCalls
      PROVE  ReportUnderway(libCall[q])'
  <2>1. PICK c : c = libCall'[q] /\ ReportUnderway(c)
    BY <1>1
  <2>2. c.op = "report" =>
            /\ c.review \in Reviews /\ review'[c.review].life # "unused"
            /\ c.reports \in Nat /\ c.reports <= accepted'[c.review]
            /\ c.review \notin overlapped' => c.reports = review'[c.review].reports
    BY <2>1 DEF ReportUnderway
  <2> QED
    BY <2>1, <2>2 DEF ReportUnderway
<1> QED
  BY <1>2, <1>3, <1>4 DEF ReportsInv

\* What the shelf does leaves reviews alone.
LEMMA ReportsAside ==
    ASSUME ReportsInv, UNCHANGED <<review, accepted, overlapped>>,
           \/ libCall' = libCall
           \/ \E r \in LibraryCalls : \E c :
                  libCall' = [libCall EXCEPT ![r] = c] /\ ReportUnderway(c)
    PROVE  ReportsInv'
<1>1. \A v \in Reviews : ReviewShaped(review[v])
  BY DEF ReportsInv, ReportsTyped
<1>2. review' = [v \in Reviews |-> review'[v]]
  BY DEF ReportsInv, ReportsTyped
<1> QED
  BY <1>1, <1>2, ReportsLeft

LEMMA ShelfKeepsReports ==
    ASSUME ReportsInv, ShelfNext
    PROVE  ReportsInv'
<1>1. ASSUME NEW r \in LibraryCalls, NEW c, LibraryLoad(r, c), c.op # "report"
      PROVE  ReportsInv'
  <2>1. ReportUnderway(c)
    BY <1>1 DEF ReportUnderway
  <2> QED
    BY <1>1, <2>1, ReportsAside DEF LibraryLoad
<1>2. ASSUME NEW r \in LibraryCalls, LibraryDone(r), UNCHANGED <<review, accepted, overlapped>>
      PROVE  ReportsInv'
  <2>1. ReportUnderway(LibraryIdle)
    BY DEF ReportUnderway, LibraryIdle
  <2> QED
    BY <1>2, <2>1, ReportsAside DEF LibraryDone
<1>3. ASSUME NEW r \in LibraryCalls, NEW u \in Users, NEW b \in Books, NEW s \in Statuses,
             AddToLibrary(r, u, b, s)
      PROVE  ReportsInv'
  <2>1. PICK c : c = [op |-> "add", user |-> u, book |-> b, status |-> s, at |-> now]
    OBVIOUS
  <2>2. c.op # "report"
    BY <2>1
  <2> QED
    BY <1>1, <1>3, <2>1, <2>2 DEF AddToLibrary
<1>4. ASSUME NEW r \in LibraryCalls, NEW u \in Users, NEW b \in Books, NEW s \in Statuses,
             UpdateStatus(r, u, b, s)
      PROVE  ReportsInv'
  <2>1. PICK c : c = [op |-> "status", user |-> u, book |-> b, status |-> s,
                      entry |-> shelf[<<u, b>>].id, at |-> now]
    OBVIOUS
  <2>2. c.op # "report"
    BY <2>1
  <2> QED
    BY <1>1, <1>4, <2>1, <2>2 DEF UpdateStatus
<1>5. ASSUME NEW r \in LibraryCalls, NEW u \in Users, NEW b \in Books, NEW n \in Chapters,
             UpdateChapter(r, u, b, n)
      PROVE  ReportsInv'
  <2>1. PICK c : c = [op |-> "chapter", user |-> u, book |-> b, chapter |-> n,
                      entry |-> shelf[<<u, b>>].id]
    OBVIOUS
  <2>2. c.op # "report"
    BY <2>1
  <2> QED
    BY <1>1, <1>5, <2>1, <2>2 DEF UpdateChapter
<1>6. ASSUME NEW u \in Users, NEW b \in Books, RemoveFromLibrary(u, b)
      PROVE  ReportsInv'
  BY <1>6, ReportsAside DEF RemoveFromLibrary
<1>7. ASSUME NEW r \in LibraryCalls,
             \/ LibraryAdded(r) \/ LibraryLost(r)
             \/ \E e \in Events : StatusUpdated(r, e) \/ MilestoneRecorded(r, e)
      PROVE  ReportsInv'
  BY <1>2, <1>7 DEF LibraryAdded, LibraryLost, StatusUpdated, MilestoneRecorded
<1>8. ASSUME NEW r \in LibraryCalls, ChapterUpdated(r)
      PROVE  ReportsInv'
  <2>1. PICK m, u : m = [op |-> "milestone", user |-> u, at |-> now] /\ u = libCall[r].user
    OBVIOUS
  <2>2. libCall' = [libCall EXCEPT ![r] = m] \/ libCall' = [libCall EXCEPT ![r] = LibraryIdle]
    BY <1>8, <2>1 DEF ChapterUpdated
  <2>3. ReportUnderway(m) /\ ReportUnderway(LibraryIdle)
    BY <2>1 DEF ReportUnderway, LibraryIdle
  <2> QED
    BY <1>8, <2>2, <2>3, ReportsAside DEF ChapterUpdated
<1> QED
  BY <1>3, <1>4, <1>5, <1>6, <1>7, <1>8 DEF ShelfNext

LEMMA ReportCounted ==
    ASSUME ReportsInv, NEW r \in LibraryCalls, ReviewReported(r)
    PROVE  ReportsInv'
<1>1. PICK c, v, n : c = libCall[r] /\ v = c.review /\ n = c.reports + 1
  OBVIOUS
<1>2. c.op = "report" /\ v \in Reviews /\ review[v].life = "live"
  BY <1>1 DEF ReviewReported, Live, ReportsInv, ReportsTyped
<1>3. /\ c.reports \in Nat /\ c.reports <= accepted[v]
      /\ v \notin overlapped => c.reports = review[v].reports
  BY <1>1, <1>2 DEF ReportsInv, ReportUnderway
<1>4. /\ review' = [review EXCEPT ![v].reports = n, ![v].hidden = @ \/ Hides(n)]
      /\ accepted' = [accepted EXCEPT ![v] = @ + 1]
      /\ libCall' = [libCall EXCEPT ![r] = LibraryIdle]
  BY <1>1 DEF ReviewReported, LibraryDone
<1>5. /\ overlapped \subseteq overlapped' /\ overlapped' \subseteq overlapped \cup {v}
      /\ v \notin overlapped' =>
             \A q \in LibraryCalls : (q # r /\ libCall[q].op = "report") => libCall[q].review # v
  BY <1>1 DEF ReviewReported
<1>6. PICK x, y : x = review[v] /\ y = review'[v]
  OBVIOUS
<1>7. /\ ReviewShaped(x) /\ accepted[v] \in Nat
      /\ y = [life |-> x.life, at |-> x.at, author |-> x.author, book |-> x.book, text |-> x.text,
              reports |-> n, hidden |-> x.hidden \/ Hides(n)]
      /\ \A w \in Reviews : w # v => review'[w] = review[w]
      /\ review' = [w \in Reviews |-> review'[w]]
  <2>1. ReviewShaped(x) /\ accepted[v] \in Nat
    BY <1>2, <1>6 DEF ReportsInv, ReportsTyped
  <2>2. PICK z : z = [x EXCEPT !.reports = n, !.hidden = @ \/ Hides(n)]
    OBVIOUS
  <2>3. z = [life |-> x.life, at |-> x.at, author |-> x.author, book |-> x.book, text |-> x.text,
             reports |-> n, hidden |-> x.hidden \/ Hides(n)]
    BY <2>1, <2>2 DEF ReviewShaped
  <2>4. review' = [w \in Reviews |-> IF w = v THEN z ELSE review[w]]
    BY <1>2, <1>4, <1>6, <2>2 DEF ReportsInv, ReportsTyped
  <2> QED
    BY <1>2, <1>6, <2>1, <2>3, <2>4
<1>8. /\ ReviewShaped(y) /\ y.reports = n /\ y.life = "live" /\ n \in Nat /\ n <= accepted[v] + 1
      /\ y.hidden <=> (x.hidden \/ n >= HideThreshold)
  <2>1. n \in Nat /\ n <= accepted[v] + 1
    BY <1>1, <1>3, <1>7
  <2>2. y.reports = n /\ y.life = x.life /\ y.hidden = (x.hidden \/ Hides(n))
    BY <1>7
  <2>3. x.life = "live" /\ x.hidden \in BOOLEAN /\ (Hides(n) <=> n >= HideThreshold)
    BY <1>2, <1>6, <1>7 DEF ReviewShaped, Hides
  <2>4. y.hidden \in BOOLEAN /\ (y.hidden <=> (x.hidden \/ n >= HideThreshold))
    BY <2>2, <2>3
  <2>5. ReviewShaped(y)
    BY <1>7, <2>1, <2>2, <2>4 DEF ReviewShaped
  <2> QED
    BY <2>1, <2>2, <2>3, <2>4, <2>5
<1>9. /\ accepted' \in [Reviews -> Nat] /\ accepted'[v] = accepted[v] + 1
      /\ \A w \in Reviews : w # v => accepted'[w] = accepted[w]
  BY <1>2, <1>4, <1>7 DEF ReportsInv, ReportsTyped
<1>10. /\ libCall'[r] = LibraryIdle /\ libCall' = [q \in LibraryCalls |-> libCall'[q]]
       /\ \A q \in LibraryCalls : q # r => libCall'[q] = libCall[q]
  BY <1>4 DEF ReportsInv, ReportsTyped
<1>11. ReportsTyped'
  BY <1>6, <1>7, <1>8, <1>9, <1>10 DEF ReportsInv, ReportsTyped
<1>12. ASSUME NEW w \in Reviews
       PROVE  ReportsCounted(w)'
  <2>1. ReportsCounted(w)
    BY DEF ReportsInv
  <2>2. CASE w # v
    BY <1>5, <1>7, <1>9, <2>1, <2>2 DEF ReportsCounted
  <2>3. CASE w = v
    <3>1. HideThreshold \in Nat
      BY LibraryAssumption
    <3>2. v \notin overlapped' => v \notin overlapped
      BY <1>5
    <3>3. /\ x.reports \in Nat /\ x.reports <= accepted[v] /\ (x.hidden => accepted[v] >= HideThreshold)
          /\ v \notin overlapped => x.reports = accepted[v] /\ (x.hidden <=> accepted[v] >= HideThreshold)
      BY <1>6, <1>7, <2>1, <2>3 DEF ReportsCounted, ReviewShaped
    <3>4. y.reports <= accepted'[v] /\ (y.hidden => accepted'[v] >= HideThreshold)
      BY <1>7, <1>8, <1>9, <3>1, <3>3
    <3>5. v \notin overlapped' =>
              y.reports = accepted'[v] /\ (y.hidden <=> accepted'[v] >= HideThreshold)
      <4> SUFFICES ASSUME v \notin overlapped'
                   PROVE  /\ y.reports = accepted'[v]
                          /\ y.hidden <=> accepted'[v] >= HideThreshold
        OBVIOUS
      <4>1. x.reports = accepted[v] /\ (x.hidden <=> accepted[v] >= HideThreshold)
        BY <3>2, <3>3
      <4>2. n = accepted[v] + 1
        BY <1>1, <1>3, <1>6, <3>2, <4>1
      <4>3. accepted'[v] = accepted[v] + 1 /\ accepted[v] \in Nat
        BY <1>7, <1>9
      <4> QED
        BY <1>8, <3>1, <4>1, <4>2, <4>3
    <3> QED
      BY <1>6, <1>8, <2>3, <3>4, <3>5 DEF ReportsCounted
  <2> QED
    BY <2>2, <2>3
<1>13. ASSUME NEW q \in LibraryCalls
       PROVE  ReportUnderway(libCall[q])'
  <2>1. CASE q = r
    BY <1>10, <2>1 DEF ReportUnderway, LibraryIdle
  <2>2. CASE q # r
    <3>1. PICK d, w : d = libCall[q] /\ d = libCall'[q] /\ w = d.review
      BY <1>10, <2>2
    <3>2. CASE d.op = "report"
      <4>1. /\ w \in Reviews /\ review[w].life # "unused"
            /\ d.reports \in Nat /\ d.reports <= accepted[w]
            /\ w \notin overlapped => d.reports = review[w].reports
        BY <3>1, <3>2 DEF ReportsInv, ReportUnderway
      <4>2. review'[w].life # "unused" /\ d.reports <= accepted'[w]
        <5>1. accepted[w] \in Nat
          BY <4>1 DEF ReportsInv, ReportsTyped
        <5>2. d.reports <= accepted'[w]
          BY <1>9, <4>1, <5>1
        <5>3. review'[w].life # "unused"
          BY <1>6, <1>7, <1>8, <4>1
        <5> QED
          BY <5>2, <5>3
      <4>3. w \notin overlapped' => d.reports = review'[w].reports
        BY <1>5, <1>7, <2>2, <3>1, <3>2, <4>1
      <4> QED
        BY <3>1, <4>1, <4>2, <4>3 DEF ReportUnderway
    <3>3. CASE d.op # "report"
      BY <3>1, <3>3 DEF ReportUnderway
    <3> QED
      BY <3>2, <3>3
  <2> QED
    BY <2>1, <2>2
<1> QED
  BY <1>11, <1>12, <1>13 DEF ReportsInv

LEMMA ReviewStep ==
    ASSUME ReportsInv, ReviewNext
    PROVE  ReportsInv'
<1>1. ASSUME NEW r \in LibraryCalls, NEW u \in Users, NEW b \in Books, NEW text \in BOOLEAN,
             CreateReview(r, u, b, text)
      PROVE  ReportsInv'
  <2>1. PICK c : c = [op |-> "review", user |-> u, book |-> b, text |-> text, at |-> now]
    OBVIOUS
  <2>2. ReportUnderway(c)
    BY <2>1 DEF ReportUnderway
  <2> QED
    BY <1>1, <2>1, <2>2, ReportsAside DEF CreateReview, LibraryLoad
<1>2. ASSUME NEW r \in LibraryCalls, NEW u \in Users, NEW v \in Reviews, ReportReview(r, u, v)
      PROVE  ReportsInv'
  <2>1. PICK c : c = [op |-> "report", review |-> v, reports |-> review[v].reports]
    OBVIOUS
  <2>2. review[v].life = "live"
    BY <1>2 DEF ReportReview, Live
  <2>3. ReviewShaped(review[v]) /\ ReportsCounted(v)
    BY DEF ReportsInv, ReportsTyped
  <2>4. ReportUnderway(c)
    BY <2>1, <2>2, <2>3 DEF ReportUnderway, ReportsCounted, ReviewShaped
  <2> QED
    BY <1>2, <2>1, <2>4, ReportsAside DEF ReportReview, LibraryLoad
<1>3. ASSUME NEW r \in LibraryCalls, NEW v \in Reviews, NEW e \in Events, ReviewCreated(r, v, e)
      PROVE  ReportsInv'
  <2>1. PICK c : c = libCall[r]
    OBVIOUS
  <2>2. PICK x : x = [life |-> "live", at |-> c.at, author |-> c.user,
                      book |-> c.book, text |-> c.text, reports |-> 0, hidden |-> FALSE]
    OBVIOUS
  <2>3. /\ review' = [review EXCEPT ![v] = x] /\ review[v].life = "unused"
        /\ UNCHANGED <<accepted, overlapped>> /\ libCall' = [libCall EXCEPT ![r] = LibraryIdle]
    BY <1>3, <2>1, <2>2 DEF ReviewCreated, Fresh, LibraryDone
  <2>4. review[v].reports = 0 /\ review[v].hidden = FALSE
    <3>1. ReviewShaped(review[v]) /\ ReportsCounted(v) /\ accepted[v] = 0
      BY <2>3 DEF ReportsInv, ReportsTyped, ReportsCounted
    <3> QED
      BY <3>1, LibraryAssumption DEF ReviewShaped, ReportsCounted
  <2>5. review' = [w \in Reviews |-> IF w = v THEN x ELSE review[w]]
    BY <2>3 DEF ReportsInv, ReportsTyped
  <2>6. ASSUME NEW w \in Reviews
        PROVE  /\ ReviewShaped(review'[w])
               /\ review'[w].reports = review[w].reports /\ review'[w].hidden = review[w].hidden
               /\ review'[w].life = "unused" => review[w].life = "unused"
    <3>1. CASE w = v
      <4>1. ReviewShaped(x)
        BY <2>2 DEF ReviewShaped
      <4> QED
        BY <2>2, <2>4, <2>5, <3>1, <4>1
    <3>2. CASE w # v
      BY <2>5, <3>2 DEF ReportsInv, ReportsTyped
    <3> QED
      BY <3>1, <3>2
  <2>7. review' = [w \in Reviews |-> review'[w]]
    BY <2>5
  <2>8. ReportUnderway(LibraryIdle)
    BY DEF ReportUnderway, LibraryIdle
  <2> QED
    BY <2>3, <2>6, <2>7, <2>8, ReportsLeft
<1>4. ASSUME NEW u \in Users, NEW v \in Reviews,
             DeleteReview(u, v) \/ \E text \in BOOLEAN : UpdateReview(u, v, text)
      PROVE  ReportsInv'
  <2>1. PICK x, y : x = review[v] /\ y = review'[v]
    OBVIOUS
  <2>2. UNCHANGED <<libCall, accepted, overlapped>> /\ x.life = "live"
    BY <1>4, <2>1 DEF DeleteReview, UpdateReview, Live
  <2>3. ReviewShaped(x)
    BY <2>1 DEF ReportsInv, ReportsTyped
  <2>4. PICK z : /\ z = [x EXCEPT !.life = "gone"] \/ \E text : z = [x EXCEPT !.text = text]
                 /\ review' = [review EXCEPT ![v] = z]
    BY <1>4, <2>1 DEF DeleteReview, UpdateReview
  <2>5. review' = [w \in Reviews |-> IF w = v THEN z ELSE review[w]]
    BY <2>4 DEF ReportsInv, ReportsTyped
  <2>6. ReviewShaped(z) /\ z.reports = x.reports /\ z.hidden = x.hidden /\ z.life # "unused"
    <3>1. CASE z = [x EXCEPT !.life = "gone"]
      <4>1. z = [life |-> "gone", at |-> x.at, author |-> x.author, book |-> x.book, text |-> x.text,
                 reports |-> x.reports, hidden |-> x.hidden]
        BY <2>3, <3>1 DEF ReviewShaped
      <4> QED
        BY <2>3, <4>1 DEF ReviewShaped
    <3>2. ASSUME NEW text, z = [x EXCEPT !.text = text]
          PROVE  ReviewShaped(z) /\ z.reports = x.reports /\ z.hidden = x.hidden /\ z.life # "unused"
      <4>1. z = [life |-> x.life, at |-> x.at, author |-> x.author, book |-> x.book, text |-> text,
                 reports |-> x.reports, hidden |-> x.hidden]
        BY <2>3, <3>2 DEF ReviewShaped
      <4> QED
        BY <2>2, <2>3, <4>1 DEF ReviewShaped
    <3> QED
      BY <2>4, <3>1, <3>2
  <2>7. ASSUME NEW w \in Reviews
        PROVE  /\ ReviewShaped(review'[w])
               /\ review'[w].reports = review[w].reports /\ review'[w].hidden = review[w].hidden
               /\ review'[w].life = "unused" => review[w].life = "unused"
    BY <2>1, <2>5, <2>6 DEF ReportsInv, ReportsTyped
  <2>8. review' = [w \in Reviews |-> review'[w]]
    BY <2>5
  <2> QED
    BY <2>2, <2>7, <2>8, ReportsLeft
<1> QED
  BY <1>1, <1>2, <1>3, <1>4, ReportCounted DEF ReviewNext

\* A review is hidden once enough reports of it were answered, and not before;
\* only reports that overlapped may count short (ReportsHide;
\* ReviewService.report_review, increment_report).
THEOREM ReviewsHideInTime == CommunitySpec => []ReportsHide
<1>1. CommunityInit => ReportsInv
  BY ReportsStart DEF CommunityInit
<1>2. ReportsInv /\ [CommunityNext]_CommunityVars => ReportsInv'
  <2> SUFFICES ASSUME ReportsInv, [CommunityNext]_CommunityVars
               PROVE  ReportsInv'
    OBVIOUS
  <2>1. CASE UNCHANGED library
    BY <2>1, ReportsAside DEF library
  <2>2. CASE ShelfNext
    BY <2>2, ShelfKeepsReports
  <2>3. CASE ReviewNext
    BY <2>3, ReviewStep
  <2> QED
    BY <2>1, <2>2, <2>3 DEF CommunityNext, CommunityVars
<1>3. ReportsInv => ReportsHide
  BY DEF ReportsInv, ReportsTyped, ReportsCounted, ReportsHide, Live
<1> QED
  BY <1>1, <1>2, <1>3, PTL DEF CommunitySpec


--------------------------------------------------------------------------------
(***************************************************************************)
(* The order of a list.  Ids break ties, so of two rows one comes before the *)
(* other; of finitely many, one comes first and one last.                    *)
(***************************************************************************)

RowsOk(R) ==
    /\ IsFiniteSet(R)
    /\ \A x \in R : x = [id |-> x.id, at |-> x.at] /\ x.id \in Int /\ x.at \in Int

Precedes(o, R, x) == {y \in R : ComesBefore(o, y, x)}

LEMMA OneComesBefore ==
    ASSUME NEW o \in BOOLEAN, NEW R, RowsOk(R), NEW x \in R, NEW y \in R
    PROVE  /\ ~(ComesBefore(o, x, y) /\ ComesBefore(o, y, x))
           /\ x # y => ComesBefore(o, x, y) \/ ComesBefore(o, y, x)
<1>1. /\ x = [id |-> x.id, at |-> x.at] /\ x.id \in Int /\ x.at \in Int
      /\ y = [id |-> y.id, at |-> y.at] /\ y.id \in Int /\ y.at \in Int
  BY DEF RowsOk
<1>2. CASE o = TRUE
  BY <1>1, <1>2 DEF ComesBefore
<1>3. CASE o = FALSE
  BY <1>1, <1>3 DEF ComesBefore
<1> QED
  BY <1>2, <1>3

LEMMA BeforeCarries ==
    ASSUME NEW o \in BOOLEAN, NEW R, RowsOk(R), NEW x \in R, NEW y \in R, NEW z \in R,
           ComesBefore(o, x, y), ComesBefore(o, y, z)
    PROVE  ComesBefore(o, x, z)
<1>1. /\ x.id \in Int /\ x.at \in Int /\ y.id \in Int /\ y.at \in Int /\ z.id \in Int /\ z.at \in Int
  BY DEF RowsOk
<1>2. CASE o = TRUE
  BY <1>1, <1>2 DEF ComesBefore
<1>3. CASE o = FALSE
  BY <1>1, <1>3 DEF ComesBefore
<1> QED
  BY <1>2, <1>3

LEMMA PartsAreRows ==
    ASSUME NEW R, RowsOk(R), NEW T, T \subseteq R
    PROVE  RowsOk(T) /\ Cardinality(T) \in Nat /\ Cardinality(T) <= Cardinality(R)
BY FS_Subset, FS_CardinalityType DEF RowsOk

LEMMA BeforeIsPart ==
    ASSUME NEW o, NEW R, RowsOk(R), NEW x
    PROVE  /\ Precedes(o, R, x) \subseteq R /\ IsFiniteSet(Precedes(o, R, x))
           /\ Cardinality(Precedes(o, R, x)) \in Nat
BY PartsAreRows DEF Precedes, RowsOk

\* A family of finite sets has a member with no other in it.
LEMMA LeastMember ==
    ASSUME NEW S, NEW T \in SUBSET FiniteSubsetsOf(S), T # {}
    PROVE  \E m \in T : \A t \in T : t \subseteq m => t = m
<1>1. PICK m \in T : \A t \in T : <<t, m>> \notin StrictSubsetOrdering(S)
  BY FS_StrictSubsetOrderingWellFounded, WFMin
<1>2. ASSUME NEW t \in T, t \subseteq m
      PROVE  t = m
  <2>1. <<t, m>> \in (SUBSET S) \X (SUBSET S)
    BY DEF FiniteSubsetsOf
  <2> QED
    BY <1>1, <1>2, <2>1 DEF StrictSubsetOrdering
<1> QED
  BY <1>2

LEMMA FirstRow ==
    ASSUME NEW o \in BOOLEAN, NEW R, RowsOk(R), R # {}
    PROVE  \E m \in R : \A x \in R : x = m \/ ComesBefore(o, m, x)
<1>1. PICK T : T = {Precedes(o, R, x) : x \in R}
  OBVIOUS
<1>2. T \in SUBSET FiniteSubsetsOf(R) /\ T # {}
  BY <1>1, BeforeIsPart DEF FiniteSubsetsOf
<1>3. PICK s \in T : \A t \in T : t \subseteq s => t = s
  BY <1>2, LeastMember
<1>4. PICK m \in R : s = Precedes(o, R, m)
  BY <1>1
<1>5. ASSUME NEW x \in R, x # m, ~ComesBefore(o, m, x)
      PROVE  FALSE
  <2>1. ComesBefore(o, x, m)
    BY <1>5, OneComesBefore
  <2>2. Precedes(o, R, x) \subseteq s
    BY <1>4, <2>1, BeforeCarries DEF Precedes
  <2>3. Precedes(o, R, x) = s
    BY <1>1, <1>3, <2>2
  <2>4. x \in Precedes(o, R, x)
    BY <1>4, <2>1, <2>3 DEF Precedes
  <2> QED
    BY <2>4, OneComesBefore DEF Precedes
<1> QED
  BY <1>5

LEMMA LastRow ==
    ASSUME NEW o \in BOOLEAN, NEW R, RowsOk(R), R # {}
    PROVE  /\ LastOf(o, R) \in R
           /\ \A x \in R : x = LastOf(o, R) \/ ComesBefore(o, x, LastOf(o, R))
<1>1. \E b \in BOOLEAN : \A x, y : ComesBefore(b, x, y) = ComesBefore(o, y, x)
  <2>1. CASE o = TRUE
    <3>1. \A x, y : ComesBefore(FALSE, x, y) = ComesBefore(o, y, x)
      BY <2>1 DEF ComesBefore
    <3> QED
      BY <3>1
  <2>2. CASE o = FALSE
    <3>1. \A x, y : ComesBefore(TRUE, x, y) = ComesBefore(o, y, x)
      BY <2>2 DEF ComesBefore
    <3> QED
      BY <3>1
  <2> QED
    BY <2>1, <2>2
<1>2. PICK m \in R : \A x \in R : x = m \/ ComesBefore(o, x, m)
  BY <1>1, FirstRow
<1> QED
  BY <1>2 DEF LastOf

--------------------------------------------------------------------------------
(* The first rows of a list                                                *)

LEMMA PageIsPart ==
    ASSUME NEW o, NEW R, RowsOk(R), NEW n
    PROVE  /\ FirstOf(o, R, n) \subseteq R /\ RowsOk(FirstOf(o, R, n))
           /\ Cardinality(FirstOf(o, R, n)) \in Nat
<1>1. FirstOf(o, R, n) \subseteq R
  BY DEF FirstOf
<1> QED
  BY <1>1, PartsAreRows

LEMMA FirstIs ==
    ASSUME NEW o, NEW R, NEW n, NEW x \in R
    PROVE  x \in FirstOf(o, R, n) <=> Cardinality(Precedes(o, R, x)) < n
BY DEF FirstOf, Precedes

\* What is left comes after every row of the page.
LEMMA RestComesAfter ==
    ASSUME NEW o \in BOOLEAN, NEW R, RowsOk(R), NEW n \in Nat,
           NEW x \in FirstOf(o, R, n), NEW y \in R, y \notin FirstOf(o, R, n)
    PROVE  ComesBefore(o, x, y)
<1>1. x \in R /\ x # y
  BY DEF FirstOf
<1>2. ASSUME ComesBefore(o, y, x)
      PROVE  FALSE
  <2>1. Precedes(o, R, y) \subseteq Precedes(o, R, x)
    BY <1>1, <1>2, BeforeCarries DEF Precedes
  <2>2. /\ IsFiniteSet(Precedes(o, R, x)) /\ Cardinality(Precedes(o, R, x)) \in Nat
        /\ Cardinality(Precedes(o, R, y)) \in Nat
    BY BeforeIsPart
  <2>3. Cardinality(Precedes(o, R, y)) <= Cardinality(Precedes(o, R, x))
    BY <2>1, <2>2, FS_Subset
  <2> QED
    BY <1>1, <2>2, <2>3, FirstIs
<1> QED
  BY <1>1, <1>2, OneComesBefore

\* Rows with nothing between them and the start of the list are its first.
LEMMA StartIsPage ==
    ASSUME NEW o \in BOOLEAN, NEW R, RowsOk(R), NEW D \in SUBSET R,
           \A x \in D, y \in R \ D : ComesBefore(o, x, y)
    PROVE  D = FirstOf(o, R, Cardinality(D))
<1>1. IsFiniteSet(D) /\ Cardinality(D) \in Nat
  BY PartsAreRows DEF RowsOk
<1>2. ASSUME NEW x \in D
      PROVE  Cardinality(Precedes(o, R, x)) < Cardinality(D)
  <2>1. Precedes(o, R, x) \subseteq D \ {x}
    BY OneComesBefore DEF Precedes
  <2>2. IsFiniteSet(D \ {x}) /\ Cardinality(D \ {x}) = Cardinality(D) - 1
    BY <1>1, FS_RemoveElement
  <2>3. Cardinality(Precedes(o, R, x)) <= Cardinality(D \ {x})
    BY <2>1, <2>2, FS_Subset
  <2>4. Cardinality(Precedes(o, R, x)) \in Nat
    BY BeforeIsPart
  <2> QED
    BY <1>1, <2>2, <2>3, <2>4
<1>3. ASSUME NEW y \in R \ D
      PROVE  ~(Cardinality(Precedes(o, R, y)) < Cardinality(D))
  <2>1. D \subseteq Precedes(o, R, y)
    BY DEF Precedes
  <2>2. IsFiniteSet(Precedes(o, R, y)) /\ Cardinality(Precedes(o, R, y)) \in Nat
    BY BeforeIsPart
  <2>3. Cardinality(D) <= Cardinality(Precedes(o, R, y))
    BY <2>1, <2>2, FS_Subset
  <2> QED
    BY <1>1, <2>2, <2>3
<1>4. \A x : x \in FirstOf(o, R, Cardinality(D)) <=> x \in R /\ Cardinality(Precedes(o, R, x)) < Cardinality(D)
  BY DEF FirstOf, Precedes
<1> QED
  BY <1>2, <1>3, <1>4

\* A page that is not full is the rest of the list.
LEMMA ShortPageIsAll ==
    ASSUME NEW o \in BOOLEAN, NEW R, RowsOk(R), NEW n \in Nat, FirstOf(o, R, n) # R
    PROVE  Cardinality(FirstOf(o, R, n)) = n
<1>1. PICK P : P = FirstOf(o, R, n)
  OBVIOUS
<1>2. P \subseteq R /\ RowsOk(P) /\ IsFiniteSet(P) /\ Cardinality(P) \in Nat
  BY <1>1, PageIsPart DEF RowsOk
<1>3. PICK T : T = R \ P /\ T \subseteq R /\ T # {} /\ RowsOk(T)
  <2>1. R \ P \subseteq R /\ R \ P # {}
    BY <1>1, <1>2
  <2>2. RowsOk(R \ P)
    BY <2>1, PartsAreRows
  <2> QED
    BY <2>1, <2>2
<1>4. PICK m \in T : \A x \in T : x = m \/ ComesBefore(o, m, x)
  BY <1>3, FirstRow
<1>5. Precedes(o, R, m) = P
  <2>1. \A x \in P : ComesBefore(o, x, m)
    BY <1>1, <1>3, RestComesAfter
  <2>2. \A x \in T : ~ComesBefore(o, x, m)
    BY <1>3, <1>4, OneComesBefore
  <2> QED
    BY <1>2, <1>3, <2>1, <2>2 DEF Precedes
<1>6. ~(Cardinality(P) < n)
  BY <1>1, <1>3, <1>5, FirstIs
<1>7. CASE P = {}
  BY <1>1, <1>2, <1>6, <1>7, FS_EmptySet
<1>8. CASE P # {}
  <2>1. PICK z \in P : \A x \in P : x = z \/ ComesBefore(o, x, z)
    BY <1>2, <1>8, LastRow
  <2>2. P \ {z} \subseteq Precedes(o, R, z)
    BY <1>2, <2>1 DEF Precedes
  <2>3. IsFiniteSet(Precedes(o, R, z)) /\ Cardinality(Precedes(o, R, z)) \in Nat
    BY BeforeIsPart
  <2>4. Cardinality(P \ {z}) <= Cardinality(Precedes(o, R, z))
    BY <2>2, <2>3, FS_Subset
  <2>5. Cardinality(P \ {z}) = Cardinality(P) - 1
    BY <1>2, <2>1, FS_RemoveElement
  <2>6. Cardinality(Precedes(o, R, z)) < n
    BY <1>1, <1>2, <2>1, FirstIs
  <2> QED
    BY <1>1, <1>2, <1>6, <2>3, <2>4, <2>5, <2>6
<1> QED
  BY <1>7, <1>8

--------------------------------------------------------------------------------
(***************************************************************************)
(* A walk.  By cursor, every row that was there at the start and at every    *)
(* page has been shown, lies beyond the cursor, or has the stamp of a row    *)
(* shown; nothing shown lies beyond the cursor, so no row is shown twice.    *)
(* By offset, as long as nothing has changed, the rows shown are the first   *)
(* of the list, and as many as the offset says.                              *)
(***************************************************************************)

AnyRow == [id : Int, at : Int]
Pages == SUBSET AnyRow

WalkShaped(w) ==
    /\ w = [list |-> w.list, of |-> w.of, oldestFirst |-> w.oldestFirst, byOffset |-> w.byOffset,
            byFetch |-> w.byFetch, limit |-> w.limit, cursor |-> w.cursor, offset |-> w.offset,
            last |-> w.last, shown |-> w.shown, stood |-> w.stood, calm |-> w.calm, cut |-> w.cut,
            more |-> w.more]
    /\ w.oldestFirst \in BOOLEAN /\ w.byOffset \in BOOLEAN /\ w.calm \in BOOLEAN /\ w.more \in BOOLEAN
    /\ w.byFetch \in BOOLEAN /\ w.cut \in BOOLEAN
    /\ w.limit \in PageSizes /\ w.cursor \in Int \cup {NoCursor} /\ w.offset \in Nat
    /\ w.shown \in Seq(Pages) /\ RowsOk(w.stood)
    /\ w.last = {} \/ (w.more /\ ~w.byOffset /\ \E z : w.last = {z} /\ z.at \in Int)

SeenIn(w, x) == \E i \in DOMAIN w.shown : x \in w.shown[i]

TiedIn(w, x) == \E y : SeenIn(w, y) /\ y # x /\ y.at = x.at

\* No row is on two pages.
PagesApart(w) == \A i, j \in DOMAIN w.shown : i # j => w.shown[i] \cap w.shown[j] = {}

\* The stamp up to which the list has been shown: the cursor, unless that is
\* still to be fetched.
Stop(w) == IF w.last = {} THEN w.cursor ELSE (CHOOSE z \in w.last : TRUE).at

FarSide(w, x) ==
    Stop(w) = NoCursor \/ (IF w.oldestFirst THEN x.at > Stop(w) ELSE x.at < Stop(w))

\* As long as each cursor was fetched in time.
ByCursor(w) == ~w.cut =>
    /\ PagesApart(w)
    /\ w.more => \A x : SeenIn(w, x) => ~FarSide(w, x)
    /\ \A x \in w.stood : SeenIn(w, x) \/ TiedIn(w, x) \/ (w.more /\ FarSide(w, x))

ByOffset(w) ==
    w.calm => LET D == {x \in w.stood : SeenIn(w, x)} IN
              /\ PagesApart(w)
              /\ \A x : SeenIn(w, x) => x \in w.stood
              /\ w.offset = Cardinality(D) /\ D = FirstOf(w.oldestFirst, w.stood, w.offset)
              /\ w.more \/ D = w.stood

WalkInv(w) == IF w.byOffset THEN ByOffset(w) ELSE ByCursor(w)

LEMMA RowsAreAny ==
    ASSUME NEW R, RowsOk(R)
    PROVE  R \in Pages
BY DEF RowsOk, AnyRow, Pages

LEMMA OneLonger ==
    ASSUME NEW X, NEW s \in Seq(X), NEW x \in X
    PROVE  /\ Append(s, x) \in Seq(X) /\ Len(s) \in Nat
           /\ DOMAIN s = 1 .. Len(s) /\ DOMAIN Append(s, x) = 1 .. Len(s) + 1
           /\ Append(s, x)[Len(s) + 1] = x /\ \A i \in 1 .. Len(s) : Append(s, x)[i] = s[i]
OBVIOUS

\* A page more.
PageAdded(w, w2, page) == w2.shown = Append(w.shown, page)

LEMMA PageShown ==
    ASSUME NEW w, WalkShaped(w), NEW page \in Pages, NEW w2, PageAdded(w, w2, page)
    PROVE  /\ w2.shown \in Seq(Pages)
           /\ \A x : SeenIn(w2, x) <=> SeenIn(w, x) \/ x \in page
<1>1. PICK s : s = w.shown /\ s \in Seq(Pages)
  BY DEF WalkShaped
<1>2. PICK t : t = w2.shown /\ t = Append(s, page)
  BY <1>1 DEF PageAdded
<1>3. PICK n : n = Len(s) /\ n \in Nat /\ DOMAIN s = 1 .. n /\ DOMAIN t = 1 .. n + 1
  BY <1>1, <1>2, OneLonger
<1>4. t \in Seq(Pages) /\ t[n + 1] = page /\ \A i \in 1 .. n : t[i] = s[i]
  BY <1>1, <1>2, <1>3, OneLonger
<1>5. \A i : i \in 1 .. n + 1 <=> i \in 1 .. n \/ i = n + 1
  BY <1>3
<1> QED
  BY <1>1, <1>2, <1>3, <1>4, <1>5 DEF SeenIn

LEMMA PageApart ==
    ASSUME NEW w, WalkShaped(w), NEW page \in Pages, NEW w2, PageAdded(w, w2, page),
           PagesApart(w), \A x \in page : ~SeenIn(w, x)
    PROVE  PagesApart(w2)
<1>1. PICK s : s = w.shown /\ s \in Seq(Pages)
  BY DEF WalkShaped
<1>2. PICK t : t = w2.shown /\ t = Append(s, page)
  BY <1>1 DEF PageAdded
<1>3. PICK n : n = Len(s) /\ n \in Nat /\ DOMAIN s = 1 .. n /\ DOMAIN t = 1 .. n + 1
  BY <1>1, <1>2, OneLonger
<1>4. t[n + 1] = page /\ \A i \in 1 .. n : t[i] = s[i]
  BY <1>1, <1>2, <1>3, OneLonger
<1>5. \A i : i \in 1 .. n + 1 <=> i \in 1 .. n \/ i = n + 1
  BY <1>3
<1>6. \A i \in 1 .. n : s[i] \cap page = {}
  BY <1>1, <1>3 DEF SeenIn
<1>7. \A i, j \in 1 .. n : i # j => s[i] \cap s[j] = {}
  BY <1>1, <1>3 DEF PagesApart
<1>8. \A i, j \in 1 .. n + 1 : i # j => t[i] \cap t[j] = {}
  BY <1>4, <1>5, <1>6, <1>7
<1> QED
  BY <1>2, <1>3, <1>8 DEF PagesApart

LEMMA SeenTimes ==
    ASSUME NEW w, PagesApart(w), NEW x
    PROVE  Cardinality({i \in DOMAIN w.shown : x \in w.shown[i]}) = IF SeenIn(w, x) THEN 1 ELSE 0
<1>1. PICK S : S = {i \in DOMAIN w.shown : x \in w.shown[i]}
  OBVIOUS
<1>2. CASE SeenIn(w, x)
  <2>1. PICK i \in DOMAIN w.shown : x \in w.shown[i]
    BY <1>2 DEF SeenIn
  <2>2. S = {i}
    BY <1>1, <2>1 DEF PagesApart
  <2> QED
    BY <1>1, <1>2, <2>2, FS_Singleton
<1>3. CASE ~SeenIn(w, x)
  <2>1. S = {}
    BY <1>1, <1>3 DEF SeenIn
  <2> QED
    BY <1>1, <1>3, <2>1, FS_EmptySet
<1> QED
  BY <1>2, <1>3

\* What a walk has seen at its end.
LEMMA WalkEnds ==
    ASSUME walk # NoWalk => WalkShaped(walk) /\ WalkInv(walk)
    PROVE  ReadsAll
<1> DEFINE Seen(x) == Cardinality({i \in DOMAIN walk.shown : x \in walk.shown[i]})
           Tied(x) == /\ ~walk.byOffset
                      /\ \E i \in DOMAIN walk.shown : \E y \in walk.shown[i] : y # x /\ y.at = x.at
<1>1. SUFFICES ASSUME walk # NoWalk, ~walk.more, walk.byOffset => walk.calm, ~walk.cut,
                      NEW x \in walk.stood
               PROVE  Seen(x) = 1 \/ (Seen(x) = 0 /\ Tied(x))
  BY DEF ReadsAll
<1>2. WalkShaped(walk) /\ WalkInv(walk)
  BY <1>1
<1>3. CASE walk.byOffset
  <2>1. PagesApart(walk) /\ SeenIn(walk, x)
    BY <1>1, <1>2, <1>3 DEF WalkInv, ByOffset
  <2> QED
    BY <2>1, SeenTimes
<1>4. CASE ~walk.byOffset
  <2>1. PagesApart(walk) /\ (SeenIn(walk, x) \/ TiedIn(walk, x))
    BY <1>1, <1>2, <1>4 DEF WalkInv, ByCursor
  <2>2. TiedIn(walk, x) => Tied(x)
    BY <1>4 DEF TiedIn, SeenIn
  <2> QED
    BY <2>1, <2>2, SeenTimes
<1> QED
  BY <1>3, <1>4

\* A walk begins.
LEMMA WalkBegins ==
    ASSUME NEW list, NEW of, NEW o \in BOOLEAN, NEW b \in BOOLEAN, NEW f \in BOOLEAN,
           NEW limit \in PageSizes, NEW R, RowsOk(R), StartWalk(list, of, o, b, f, limit, R)
    PROVE  WalkShaped(walk') /\ WalkInv(walk') /\ walk'.list = list /\ walk'.of = of
<1>1. PICK w : w = [list |-> list, of |-> of, oldestFirst |-> o, byOffset |-> b, byFetch |-> f,
                    limit |-> limit, cursor |-> NoCursor, offset |-> 0, last |-> {}, shown |-> <<>>,
                    stood |-> R, calm |-> TRUE, cut |-> FALSE, more |-> TRUE] /\ walk' = w
  BY DEF StartWalk
<1>2. WalkShaped(w)
  BY <1>1 DEF WalkShaped
<1>3. \A x : ~SeenIn(w, x)
  BY <1>1 DEF SeenIn
<1>4. PagesApart(w)
  BY <1>1 DEF PagesApart
<1>5. CASE b
  <2>1. PICK D : D = {x \in w.stood : SeenIn(w, x)}
    OBVIOUS
  <2>2. D = {} /\ Cardinality(D) = 0 /\ D \in SUBSET R
    BY <1>3, <2>1, FS_EmptySet
  <2>3. D = FirstOf(o, R, Cardinality(D))
    BY <2>2, StartIsPage
  <2>4. ByOffset(w)
    BY <1>1, <1>3, <1>4, <2>1, <2>2, <2>3 DEF ByOffset
  <2> QED
    BY <1>1, <1>2, <1>5, <2>4 DEF WalkInv
<1>6. CASE ~b
  <2>1. ByCursor(w)
    BY <1>1, <1>3, <1>4 DEF ByCursor, FarSide, Stop
  <2> QED
    BY <1>1, <1>2, <1>6, <2>1 DEF WalkInv
<1> QED
  BY <1>5, <1>6

--------------------------------------------------------------------------------
(* The next page                                                           *)

PagedByCursor(w, R, page) ==
    LET full == Cardinality(page) = w.limit IN
    [w EXCEPT !.shown = Append(@, page),
              !.stood = @ \cap R,
              !.cursor = IF full /\ ~w.byFetch THEN LastOf(w.oldestFirst, page).at ELSE @,
              !.last = IF full /\ w.byFetch THEN {LastOf(w.oldestFirst, page)} ELSE @,
              !.more = full]

LEMMA CursorPage ==
    ASSUME NEW w, WalkShaped(w), ~w.byOffset, w.more, w.last = {}, NEW R, RowsOk(R), ByCursor(w),
           NEW page, page = FirstOf(w.oldestFirst, Beyond(w.oldestFirst, R, w.cursor), w.limit),
           NEW w2, w2 = PagedByCursor(w, R, page)
    PROVE  WalkShaped(w2) /\ ~w2.byOffset /\ w2.list = w.list /\ w2.of = w.of
           /\ ByCursor(w2)
<1>0. w.oldestFirst \in BOOLEAN /\ w.limit \in Nat /\ w.limit > 0
  BY PagingAssumption DEF WalkShaped
<1>1. PICK S, o, n : /\ S = {x \in R : FarSide(w, x)} /\ o = w.oldestFirst /\ n = w.limit
                     /\ o \in BOOLEAN /\ n \in Nat /\ n > 0
  BY <1>0
<1>2. S = Beyond(o, R, w.cursor)
  BY <1>1 DEF Beyond, FarSide, Stop
<1>3. S \subseteq R /\ RowsOk(S) /\ page = FirstOf(o, S, n)
  BY <1>1, <1>2, PartsAreRows
<1>4. page \subseteq S /\ RowsOk(page) /\ page \in Pages /\ Cardinality(page) \in Nat
  BY <1>3, PageIsPart, RowsAreAny
<1>5. /\ w2.shown = Append(w.shown, page) /\ w2.more = (Cardinality(page) = n)
      /\ w2.cursor = IF Cardinality(page) = n /\ ~w.byFetch THEN LastOf(o, page).at ELSE w.cursor
      /\ w2.last = IF Cardinality(page) = n /\ w.byFetch THEN {LastOf(o, page)} ELSE {}
      /\ w2.oldestFirst = o /\ w2.limit = n /\ w2.byOffset = w.byOffset /\ w2.byFetch = w.byFetch
      /\ w2.list = w.list /\ w2.of = w.of /\ w2.stood = w.stood \cap R /\ w2.calm = w.calm
      /\ w2.offset = w.offset /\ w2.cut = w.cut
  BY <1>1 DEF WalkShaped, PagedByCursor
<1> PageAdded(w, w2, page)
  BY <1>5 DEF PageAdded
<1>6. /\ w2.shown \in Seq(Pages)
      /\ \A x : SeenIn(w2, x) <=> SeenIn(w, x) \/ x \in page
  BY <1>4, PageShown
<1>7. ASSUME ~w.cut
      PROVE  PagesApart(w2)
  <2>1. \A x \in page : ~SeenIn(w, x)
    BY <1>1, <1>4, <1>7 DEF ByCursor
  <2>2. PagesApart(w)
    BY <1>7 DEF ByCursor
  <2> QED
    BY <1>4, <2>1, <2>2, PageApart
<1>8. ASSUME Cardinality(page) = n
      PROVE  /\ LastOf(o, page) \in page /\ LastOf(o, page).at \in Int
             /\ \A x \in page : x = LastOf(o, page) \/ ComesBefore(o, x, LastOf(o, page))
  <2>1. page # {}
    BY <1>1, <1>8, FS_EmptySet
  <2>2. LastOf(o, page) \in page
    BY <1>1, <1>4, <2>1, LastRow
  <2>3. \A x \in page : x = LastOf(o, page) \/ ComesBefore(o, x, LastOf(o, page))
    BY <1>1, <1>4, <2>1, LastRow
  <2> QED
    BY <1>4, <2>2, <2>3 DEF RowsOk
<1>9. WalkShaped(w2)
  <2>1. w2 = [list |-> w2.list, of |-> w2.of, oldestFirst |-> w2.oldestFirst, byOffset |-> w2.byOffset,
              byFetch |-> w2.byFetch, limit |-> w2.limit, cursor |-> w2.cursor, offset |-> w2.offset,
              last |-> w2.last, shown |-> w2.shown, stood |-> w2.stood, calm |-> w2.calm,
              cut |-> w2.cut, more |-> w2.more]
    BY DEF WalkShaped, PagedByCursor
  <2>2. w2.cursor \in Int \cup {NoCursor} /\ w2.more \in BOOLEAN
    BY <1>5, <1>8 DEF WalkShaped
  <2>3. RowsOk(w2.stood)
    BY <1>5, PartsAreRows
  <2>4. w2.last = {} \/ (w2.more /\ ~w2.byOffset /\ \E z : w2.last = {z} /\ z.at \in Int)
    BY <1>5, <1>8
  <2>5. /\ w2.oldestFirst \in BOOLEAN /\ w2.byOffset \in BOOLEAN /\ w2.calm \in BOOLEAN
        /\ w2.byFetch \in BOOLEAN /\ w2.cut \in BOOLEAN
        /\ w2.limit \in PageSizes /\ w2.offset \in Nat
    BY <1>1, <1>5 DEF WalkShaped
  <2> QED
    BY <1>6, <2>1, <2>2, <2>3, <2>4, <2>5 DEF WalkShaped
<1>91. w2.more => Stop(w2) = LastOf(o, page).at
  BY <1>5 DEF Stop
<1>10. ASSUME ~w.cut, w2.more, NEW x, SeenIn(w2, x)
       PROVE  ~FarSide(w2, x)
  <2>1. PICK z : z = LastOf(o, page) /\ z \in page /\ Stop(w2) = z.at /\ z.at \in Int /\ z \in S
    BY <1>4, <1>5, <1>8, <1>91, <1>10
  <2>2. Stop(w2) # NoCursor
    BY <2>1, PagingAssumption
  <2>3. CASE x \in page
    <3>1. x = z \/ ComesBefore(o, x, z)
      BY <1>5, <1>8, <1>10, <2>1, <2>3
    <3>2. x.at \in Int
      BY <1>4, <2>3 DEF RowsOk
    <3> QED
      BY <1>1, <1>5, <2>1, <2>2, <3>1, <3>2 DEF ComesBefore, FarSide
  <2>4. CASE SeenIn(w, x)
    <3>1. ~FarSide(w, x)
      BY <1>10, <2>4 DEF ByCursor
    <3>2. FarSide(w, z)
      BY <1>1, <2>1
    <3>3. x.at \in Int
      <4>1. PICK i \in DOMAIN w.shown : x \in w.shown[i]
        BY <2>4 DEF SeenIn
      <4>2. w.shown[i] \in Pages
        BY <4>1 DEF WalkShaped
      <4> QED
        BY <4>1, <4>2 DEF AnyRow, Pages
    <3>4. Stop(w) \in Int
      BY <3>1 DEF FarSide, WalkShaped, Stop
    <3> QED
      BY <1>1, <1>5, <2>1, <2>2, <3>1, <3>2, <3>3, <3>4 DEF FarSide
  <2> QED
    BY <1>6, <1>10, <2>3, <2>4
<1>11. ASSUME ~w.cut, NEW x \in w2.stood
       PROVE  SeenIn(w2, x) \/ TiedIn(w2, x) \/ (w2.more /\ FarSide(w2, x))
  <2>1. SeenIn(w, x) \/ TiedIn(w, x) \/ FarSide(w, x)
    BY <1>5, <1>11 DEF ByCursor
  <2>2. CASE SeenIn(w, x)
    BY <1>6, <2>2
  <2>3. CASE TiedIn(w, x)
    BY <1>6, <2>3 DEF TiedIn
  <2>4. CASE FarSide(w, x) /\ x \notin page
    <3>1. x \in S
      BY <1>1, <1>5, <1>11, <2>4
    <3>2. Cardinality(page) = n
      BY <1>1, <1>3, <2>4, <3>1, ShortPageIsAll
    <3>3. PICK z : z = LastOf(o, page) /\ z \in page /\ Stop(w2) = z.at /\ z.at \in Int /\ w2.more
      BY <1>5, <1>8, <1>91, <3>2
    <3>4. ComesBefore(o, z, x)
      BY <1>1, <1>3, <2>4, <3>1, <3>3, RestComesAfter
    <3>5. x.at \in Int
      BY <1>3, <3>1 DEF RowsOk
    <3>6. CASE x.at = z.at
      BY <1>6, <2>4, <3>3, <3>6 DEF TiedIn
    <3>7. CASE x.at # z.at
      BY <1>1, <1>5, <3>3, <3>4, <3>5, <3>7 DEF ComesBefore, FarSide
    <3> QED
      BY <3>6, <3>7
  <2>5. CASE x \in page
    BY <1>6, <2>5
  <2> QED
    BY <2>1, <2>2, <2>3, <2>4, <2>5
<1>12. ByCursor(w2)
  BY <1>5, <1>7, <1>10, <1>11 DEF ByCursor
<1> QED
  BY <1>5, <1>9, <1>12

\* The cursor of a page whose last row still stands is that row's stamp.
Fetched(w, R) == {x \in R : \E y \in w.last : x.id = y.id}

CursorFetched(w, R) ==
    [w EXCEPT !.cursor = IF Fetched(w, R) = {} THEN @ ELSE (CHOOSE x \in Fetched(w, R) : TRUE).at,
              !.cut = @ \/ Fetched(w, R) # w.last,
              !.last = {},
              !.more = Fetched(w, R) # {}]

LEMMA CursorComes ==
    ASSUME NEW w, WalkShaped(w), w.last # {}, NEW R, RowsOk(R), ByCursor(w),
           NEW w2, w2 = CursorFetched(w, R)
    PROVE  WalkShaped(w2) /\ ~w2.byOffset /\ w2.list = w.list /\ w2.of = w.of
           /\ ByCursor(w2)
<1>1. PICK F : F = Fetched(w, R) /\ F \subseteq R
  BY DEF Fetched
<1>2. /\ w2.shown = w.shown /\ w2.more = (F # {}) /\ w2.last = {}
      /\ w2.cursor = IF F = {} THEN w.cursor ELSE (CHOOSE x \in F : TRUE).at
      /\ w2.cut = (w.cut \/ F # w.last)
      /\ w2.oldestFirst = w.oldestFirst /\ w2.limit = w.limit /\ w2.byOffset = w.byOffset
      /\ w2.byFetch = w.byFetch /\ w2.list = w.list /\ w2.of = w.of /\ w2.stood = w.stood
      /\ w2.calm = w.calm /\ w2.offset = w.offset
  BY <1>1 DEF WalkShaped, CursorFetched
<1>3. w.more /\ ~w.byOffset
  BY DEF WalkShaped
<1>4. WalkShaped(w2)
  <2>1. w2 = [list |-> w2.list, of |-> w2.of, oldestFirst |-> w2.oldestFirst, byOffset |-> w2.byOffset,
              byFetch |-> w2.byFetch, limit |-> w2.limit, cursor |-> w2.cursor, offset |-> w2.offset,
              last |-> w2.last, shown |-> w2.shown, stood |-> w2.stood, calm |-> w2.calm,
              cut |-> w2.cut, more |-> w2.more]
    BY DEF WalkShaped, CursorFetched
  <2>2. w2.cursor \in Int \cup {NoCursor}
    <3>1. CASE F = {}
      BY <1>2, <3>1 DEF WalkShaped
    <3>2. CASE F # {}
      <4>1. PICK z : z = (CHOOSE x \in F : TRUE) /\ z \in F
        BY <3>2
      <4>2. z.at \in Int
        BY <1>1, <4>1 DEF RowsOk
      <4> QED
        BY <1>2, <3>2, <4>1, <4>2
    <3> QED
      BY <3>1, <3>2
  <2>3. w2.more \in BOOLEAN /\ w2.cut \in BOOLEAN
    BY <1>2
  <2> QED
    BY <1>2, <2>1, <2>2, <2>3 DEF WalkShaped
<1>5. ASSUME ~w2.cut
      PROVE  ~w.cut /\ w2.more /\ Stop(w2) = Stop(w)
  <2>1. ~w.cut /\ F = w.last
    BY <1>2, <1>5 DEF WalkShaped
  <2> QED
    BY <1>2, <2>1 DEF Stop
<1>6. ByCursor(w2)
  <2> SUFFICES ASSUME ~w2.cut
               PROVE  /\ PagesApart(w2)
                      /\ w2.more => \A x : SeenIn(w2, x) => ~FarSide(w2, x)
                      /\ \A x \in w2.stood : SeenIn(w2, x) \/ TiedIn(w2, x)
                                                 \/ (w2.more /\ FarSide(w2, x))
    BY DEF ByCursor
  <2>1. \A x : /\ SeenIn(w2, x) <=> SeenIn(w, x)
               /\ FarSide(w2, x) <=> FarSide(w, x)
    BY <1>2, <1>5 DEF SeenIn, FarSide
  <2>2. \A x : TiedIn(w2, x) <=> TiedIn(w, x)
    BY <2>1 DEF TiedIn
  <2>3. PagesApart(w) => PagesApart(w2)
    BY <1>2 DEF PagesApart
  <2> QED
    BY <1>2, <1>3, <1>5, <2>1, <2>2, <2>3 DEF ByCursor
<1> QED
  BY <1>2, <1>3, <1>4, <1>6

PagedByOffset(w, R, page) ==
    [w EXCEPT !.shown = Append(@, page),
              !.offset = @ + Cardinality(page),
              !.calm = @ /\ R = w.stood,
              !.stood = @ \cap R,
              !.more = w.offset + Cardinality(page) < Cardinality(R)]

LEMMA OffsetPage ==
    ASSUME NEW w, WalkShaped(w), w.byOffset, w.more, NEW R, RowsOk(R), ByOffset(w),
           NEW page, page = FirstOf(w.oldestFirst, Skipping(w.oldestFirst, R, w.offset), w.limit),
           NEW w2, w2 = PagedByOffset(w, R, page)
    PROVE  WalkShaped(w2) /\ w2.byOffset /\ w2.list = w.list /\ w2.of = w.of
           /\ ByOffset(w2)
<1>1. PICK S, o, n : /\ S = Skipping(o, R, w.offset) /\ o = w.oldestFirst /\ n = w.limit
                     /\ o \in BOOLEAN /\ n \in Nat /\ w.offset \in Nat
  BY PagingAssumption DEF WalkShaped
<1>2. S = R \ FirstOf(o, R, w.offset)
  BY <1>1 DEF Skipping
<1>3. S \subseteq R /\ RowsOk(S) /\ page = FirstOf(o, S, n)
  BY <1>1, <1>2, PartsAreRows
<1>4. page \subseteq S /\ RowsOk(page) /\ page \in Pages /\ Cardinality(page) \in Nat
  BY <1>3, PageIsPart, RowsAreAny
<1>5. /\ w2.shown = Append(w.shown, page)
      /\ w2.more = (w.offset + Cardinality(page) < Cardinality(R))
      /\ w2.offset = w.offset + Cardinality(page) /\ w2.calm = (w.calm /\ R = w.stood)
      /\ w2.oldestFirst = o /\ w2.limit = n /\ w2.byOffset = w.byOffset
      /\ w2.list = w.list /\ w2.of = w.of /\ w2.stood = w.stood \cap R /\ w2.cursor = w.cursor
      /\ w2.byFetch = w.byFetch /\ w2.last = w.last /\ w2.cut = w.cut
  BY <1>1 DEF WalkShaped, PagedByOffset
<1> PageAdded(w, w2, page)
  BY <1>5 DEF PageAdded
<1>6. /\ w2.shown \in Seq(Pages)
      /\ \A x : SeenIn(w2, x) <=> SeenIn(w, x) \/ x \in page
  BY <1>4, PageShown
<1>7. WalkShaped(w2)
  <2>1. w2 = [list |-> w2.list, of |-> w2.of, oldestFirst |-> w2.oldestFirst, byOffset |-> w2.byOffset,
              byFetch |-> w2.byFetch, limit |-> w2.limit, cursor |-> w2.cursor, offset |-> w2.offset,
              last |-> w2.last, shown |-> w2.shown, stood |-> w2.stood, calm |-> w2.calm,
              cut |-> w2.cut, more |-> w2.more]
    BY DEF WalkShaped, PagedByOffset
  <2>2. w2.offset \in Nat
    BY <1>1, <1>4, <1>5
  <2>3. w2.more \in BOOLEAN
    BY <1>5
  <2>4. w2.calm \in BOOLEAN
    BY <1>5 DEF WalkShaped
  <2>5. RowsOk(w2.stood)
    BY <1>5, PartsAreRows
  <2> QED
    BY <1>1, <1>5, <1>6, <2>1, <2>2, <2>3, <2>4, <2>5 DEF WalkShaped
<1>8. CASE ~w2.calm
  <2>1. ByOffset(w2)
    BY <1>8 DEF ByOffset
  <2> QED
    BY <1>5, <1>7, <2>1
<1>9. CASE w2.calm
  <2>1. w.calm /\ R = w.stood
    BY <1>5, <1>9 DEF WalkShaped
  <2>2. PICK D : D = {x \in w.stood : SeenIn(w, x)}
    OBVIOUS
  <2>3. /\ PagesApart(w) /\ \A x : SeenIn(w, x) => x \in R
        /\ w.offset = Cardinality(D) /\ D = FirstOf(o, R, w.offset)
    BY <1>1, <2>1, <2>2 DEF ByOffset
  <2>4. PICK E : E = {x \in w2.stood : SeenIn(w2, x)}
    OBVIOUS
  <2>5. D \cap page = {} /\ E = D \cup page /\ E \subseteq R /\ D \subseteq R
    BY <1>2, <1>3, <1>4, <1>5, <1>6, <2>1, <2>2, <2>3, <2>4
  <2>6. PagesApart(w2)
    <3>1. \A x \in page : ~SeenIn(w, x)
      BY <1>3, <1>4, <2>1, <2>2, <2>5
    <3> QED
      BY <1>4, <2>3, <3>1, PageApart
  <2>7. Cardinality(E) = w2.offset /\ Cardinality(E) \in Nat
    <3>1. IsFiniteSet(D) /\ IsFiniteSet(page) /\ D \cap page = {}
      BY <1>4, <2>5, PartsAreRows DEF RowsOk
    <3>2. Cardinality(D \cup page) = Cardinality(D) + Cardinality(page) - Cardinality(D \cap page)
      BY <3>1, FS_Union
    <3>3. Cardinality(D \cap page) = 0
      BY <3>1, FS_EmptySet
    <3>4. Cardinality(D) = w.offset /\ w.offset \in Nat /\ Cardinality(page) \in Nat
      BY <1>1, <1>4, <2>3
    <3>5. Cardinality(E) = Cardinality(D) + Cardinality(page) - 0
      BY <2>5, <3>2, <3>3
    <3> QED
      BY <1>5, <3>4, <3>5
  <2>8. E = FirstOf(o, R, w2.offset)
    <3>1. ASSUME NEW x \in E, NEW y \in R \ E
          PROVE  ComesBefore(o, x, y)
      <4>1. y \in R /\ y \notin D /\ y \in S /\ y \notin page
        BY <1>2, <2>3, <2>5, <3>1
      <4>2. CASE x \in D
        BY <1>1, <2>3, <4>1, <4>2, RestComesAfter
      <4>3. CASE x \in page
        BY <1>1, <1>3, <4>1, <4>3, RestComesAfter
      <4> QED
        BY <2>5, <3>1, <4>2, <4>3
    <3>2. E = FirstOf(o, R, Cardinality(E))
      BY <1>1, <2>5, <3>1, StartIsPage
    <3> QED
      BY <2>7, <3>2
  <2>9. w2.more \/ E = R
    <3>1. ASSUME ~w2.more
          PROVE  E = R
      <4>1. Cardinality(E) <= Cardinality(R) /\ IsFiniteSet(R) /\ Cardinality(R) \in Nat
        BY <2>5, PartsAreRows, FS_CardinalityType DEF RowsOk
      <4>2. ~(Cardinality(E) < Cardinality(R))
        BY <1>5, <2>7, <3>1
      <4>3. Cardinality(E) = Cardinality(R)
        BY <2>7, <4>1, <4>2
      <4> QED
        BY <2>5, <4>1, <4>3, FS_Subset
    <3> QED
      BY <3>1
  <2>10. w2.stood = R /\ w2.oldestFirst = o
    BY <1>5, <2>1
  <2>11. \A x : SeenIn(w2, x) => x \in R
    BY <1>3, <1>4, <1>6, <2>3
  <2>12. w2.offset = Cardinality(E) /\ E = FirstOf(w2.oldestFirst, w2.stood, w2.offset)
    BY <2>7, <2>8, <2>10
  <2>13. ByOffset(w2)
    BY <2>4, <2>6, <2>9, <2>10, <2>11, <2>12 DEF ByOffset
  <2> QED
    BY <1>5, <1>7, <2>13
<1> QED
  BY <1>8, <1>9

\* One step of the client.
LEMMA WalkGoesOn ==
    ASSUME NEW R, RowsOk(R), walk # NoWalk, WalkShaped(walk), WalkInv(walk),
           NextPage(R) \/ FetchCursor(R) \/ NextPageByOffset(R)
    PROVE  WalkShaped(walk') /\ WalkInv(walk') /\ walk'.list = walk.list /\ walk'.of = walk.of
<1>1. PICK w : w = walk
  OBVIOUS
<1>2. PICK w2 : w2 = walk'
  OBVIOUS
<1>3. CASE NextPage(R)
  <2>1. PICK page : page = FirstOf(w.oldestFirst, Beyond(w.oldestFirst, R, w.cursor), w.limit)
    OBVIOUS
  <2>2. ~w.byOffset /\ w.more /\ w.last = {} /\ w2 = PagedByCursor(w, R, page)
    BY <1>1, <1>2, <1>3, <2>1 DEF NextPage, PagedByCursor
  <2> QED
    BY <1>1, <1>2, <2>1, <2>2, CursorPage DEF WalkInv
<1>4. CASE NextPageByOffset(R)
  <2>1. PICK page : page = FirstOf(w.oldestFirst, Skipping(w.oldestFirst, R, w.offset), w.limit)
    OBVIOUS
  <2>2. w.byOffset /\ w.more /\ w2 = PagedByOffset(w, R, page)
    BY <1>1, <1>2, <1>4, <2>1 DEF NextPageByOffset, PagedByOffset
  <2> QED
    BY <1>1, <1>2, <2>1, <2>2, OffsetPage DEF WalkInv
<1>5. CASE FetchCursor(R)
  <2>1. w.last # {} /\ w2 = CursorFetched(w, R)
    BY <1>1, <1>2, <1>5 DEF FetchCursor, CursorFetched, Fetched
  <2>2. ~w.byOffset
    BY <1>1, <2>1 DEF WalkShaped
  <2> QED
    BY <1>1, <1>2, <2>1, <2>2, CursorComes DEF WalkInv
<1> QED
  BY <1>3, <1>4, <1>5

--------------------------------------------------------------------------------
(***************************************************************************)
(* The tables under the lists.  Every row has a stamp; a row that is there   *)
(* keeps its stamp and its author, and one that is gone stays gone.          *)
(***************************************************************************)

PostShaped(x) == x = [life |-> x.life, at |-> x.at, author |-> x.author]

CommentShaped(x) ==
    x = [life |-> x.life, at |-> x.at, author |-> x.author, post |-> x.post, parent |-> x.parent]

EventShaped(x) ==
    x = [life |-> x.life, at |-> x.at, author |-> x.author, type |-> x.type, about |-> x.about]

MarkShaped(x) ==
    x = [life |-> x.life, at |-> x.at, author |-> x.author, visibility |-> x.visibility,
         shared |-> x.shared]

RatingShaped(x) ==
    x = [life |-> x.life, at |-> x.at, author |-> x.author, book |-> x.book, text |-> x.text,
         reports |-> x.reports, hidden |-> x.hidden]

EntryShaped(x) == x = [status |-> x.status, id |-> x.id, at |-> x.at, chapter |-> x.chapter]

\* The requests in flight that carry the stamp of the row they will insert.
FeedStamped(c) == c.op \in {"post", "comment", "highlight", "share", "event"} => c.at \in Int
LibraryStamped(c) == c.op \in {"add", "status", "review", "milestone"} => c.at \in Int
SocialPaired(c) == c.op \in {"follow", "block"} => c.user \in Users /\ c.target \in Users

EdgesOk(edges) ==
    IsFiniteSet(edges) /\ \A e \in edges : e.from \in Users /\ e.to \in Users /\ e.at \in Int

FeedTyped ==
    /\ post = [p \in Posts |-> post[p]]
    /\ \A p \in Posts : PostShaped(post[p]) /\ post[p].at \in Int
    /\ comment = [c \in Comments |-> comment[c]]
    /\ \A c \in Comments : CommentShaped(comment[c]) /\ comment[c].at \in Int
    /\ highlight = [h \in Highlights |-> highlight[h]]
    /\ \A h \in Highlights : MarkShaped(highlight[h]) /\ highlight[h].at \in Int
    /\ event = [e \in Events |-> event[e]]
    /\ \A e \in Events : EventShaped(event[e]) /\ event[e].at \in Int
    /\ feedCall = [r \in FeedCalls |-> feedCall[r]]
    /\ \A r \in FeedCalls : FeedStamped(feedCall[r])

LibraryTyped ==
    /\ made \in Nat
    /\ shelf = [x \in Users \X Books |-> shelf[x]]
    /\ \A x \in Users \X Books :
          EntryShaped(shelf[x]) /\ shelf[x].at \in Int /\ shelf[x].id \in Int /\ shelf[x].id <= made
    /\ review = [v \in Reviews |-> review[v]]
    /\ \A v \in Reviews : RatingShaped(review[v]) /\ review[v].at \in Int /\ review[v].hidden \in BOOLEAN
    /\ libCall = [r \in LibraryCalls |-> libCall[r]]
    /\ \A r \in LibraryCalls : LibraryStamped(libCall[r])

SocialTyped ==
    /\ EdgesOk(follows) /\ EdgesOk(blocks)
    /\ social = [r \in SocialCalls |-> social[r]]
    /\ \A r \in SocialCalls : SocialPaired(social[r])

TablesTyped == now \in Int /\ FeedTyped /\ LibraryTyped /\ SocialTyped

RowAges(a, b) ==
    /\ a.life = "gone" => b.life = "gone"
    /\ a.life = "live" => b.life \in {"live", "gone"} /\ b.at = a.at /\ b.author = a.author

FeedAges ==
    /\ \A p \in Posts : RowAges(post[p], post'[p])
    /\ \A c \in Comments :
          /\ RowAges(comment[c], comment'[c])
          /\ comment[c].life = "live" => comment'[c].post = comment[c].post
    /\ \A h \in Highlights : RowAges(highlight[h], highlight'[h])
    /\ \A e \in Events : RowAges(event[e], event'[e])

LibraryAges ==
    /\ \A v \in Reviews :
          /\ RowAges(review[v], review'[v])
          /\ review[v].life = "live" => (review[v].hidden => review'[v].hidden)
    /\ made' \in Nat /\ made <= made'
    /\ \A x \in Users \X Books : shelf'[x] # NoEntry =>
          \/ shelf'[x].id = made' /\ made < made'
          \/ shelf[x] # NoEntry /\ shelf'[x].id = shelf[x].id /\ shelf'[x].at = shelf[x].at

\* Rows as they were.
LEMMA RowsUnmoved == \A a : RowAges(a, a)
BY DEF RowAges

LEMMA TablesStart ==
    ASSUME ClockInit, FeedInit, LibraryInit, SocialStart({})
    PROVE  TablesTyped
<1>1. now \in Int
  BY DEF ClockInit
<1>2. FeedTyped
  <2>1. /\ post = [p \in Posts |-> post[p]]
        /\ \A p \in Posts : PostShaped(post[p]) /\ post[p].at \in Int
    BY DEF FeedInit, PostShaped, Unmade
  <2>2. /\ comment = [c \in Comments |-> comment[c]]
        /\ \A c \in Comments : CommentShaped(comment[c]) /\ comment[c].at \in Int
    BY DEF FeedInit, CommentShaped
  <2>3. /\ highlight = [h \in Highlights |-> highlight[h]]
        /\ \A h \in Highlights : MarkShaped(highlight[h]) /\ highlight[h].at \in Int
    <3>1. MarkShaped(NewHighlight) /\ NewHighlight.at = 0
      BY DEF MarkShaped, NewHighlight
    <3> QED
      BY <3>1 DEF FeedInit
  <2>4. /\ event = [e \in Events |-> event[e]]
        /\ \A e \in Events : EventShaped(event[e]) /\ event[e].at \in Int
    BY DEF FeedInit, EventShaped
  <2>5. /\ feedCall = [r \in FeedCalls |-> feedCall[r]]
        /\ \A r \in FeedCalls : FeedStamped(feedCall[r])
    BY DEF FeedInit, FeedStamped, FeedIdle
  <2> QED
    BY <2>1, <2>2, <2>3, <2>4, <2>5 DEF FeedTyped
<1>3. LibraryTyped
  <2>1. made = 0 /\ shelf = [x \in Users \X Books |-> NoEntry]
        /\ review = [v \in Reviews |-> NoReview] /\ libCall = [r \in LibraryCalls |-> LibraryIdle]
    BY DEF LibraryInit, LibraryStart
  <2>2. EntryShaped(NoEntry) /\ NoEntry.at \in Int /\ NoEntry.id = 0
    BY DEF EntryShaped, NoEntry, Never
  <2>3. RatingShaped(NoReview) /\ NoReview.at \in Int /\ NoReview.hidden \in BOOLEAN
    BY DEF RatingShaped, NoReview
  <2>4. LibraryStamped(LibraryIdle)
    BY DEF LibraryStamped, LibraryIdle
  <2> QED
    BY <2>1, <2>2, <2>3, <2>4 DEF LibraryTyped
<1>4. SocialTyped
  BY FS_EmptySet DEF SocialStart, SocialTyped, EdgesOk, SocialPaired, SocialIdle
<1> QED
  BY <1>1, <1>2, <1>3, <1>4 DEF TablesTyped

--------------------------------------------------------------------------------
(* Social requests                                                         *)

LEMMA EdgesChange ==
    ASSUME NEW edges, EdgesOk(edges), NEW some
    PROVE  EdgesOk(edges \ some)
BY FS_Difference DEF EdgesOk

LEMMA EdgeAdded ==
    ASSUME NEW edges, EdgesOk(edges), NEW u \in Users, NEW v \in Users, now \in Int
    PROVE  EdgesOk(edges \cup {Edge(u, v)})
<1>1. PICK e : e = Edge(u, v)
  OBVIOUS
<1>2. e.from \in Users /\ e.to \in Users /\ e.at \in Int
  BY <1>1 DEF Edge
<1>3. IsFiniteSet(edges \cup {e})
  BY FS_AddElement DEF EdgesOk
<1> QED
  BY <1>1, <1>2, <1>3 DEF EdgesOk

LEMMA SocialKeepsTyped ==
    ASSUME SocialTyped, now \in Int, SocialNext
    PROVE  SocialTyped' /\ now' = now
<1>1. ASSUME NEW r \in SocialCalls, NEW c, SocialPaired(c), social' = [social EXCEPT ![r] = c]
      PROVE  social' = [q \in SocialCalls |-> social'[q]] /\ \A q \in SocialCalls : SocialPaired(social'[q])
  BY <1>1 DEF SocialTyped
<1>2. SocialPaired(SocialIdle)
  BY DEF SocialPaired, SocialIdle
<1>3. ASSUME NEW r \in SocialCalls, NEW u \in Users, NEW v \in Users, Follow(r, u, v) \/ Block(r, u, v)
      PROVE  SocialTyped' /\ now' = now
  <2>1. PICK op : op \in {"follow", "block"} /\ SocialLoad(r, op, u, v)
    BY <1>3 DEF Follow, Block
  <2>2. PICK c : c = [op |-> op, user |-> u, target |-> v, unblock |-> op = "follow" /\ Blocked(u, v)]
    OBVIOUS
  <2>3. SocialPaired(c) /\ social' = [social EXCEPT ![r] = c]
    BY <2>1, <2>2 DEF SocialLoad, SocialPaired
  <2>4. UNCHANGED <<now, follows, blocks>>
    BY <1>3 DEF Follow, Block
  <2> QED
    BY <1>1, <2>3, <2>4 DEF SocialTyped
<1>4. ASSUME NEW r \in SocialCalls, NEW u \in Users, NEW x \in Reported, Report(r, u, x)
      PROVE  SocialTyped' /\ now' = now
  <2>1. PICK c : c = [op |-> "report", user |-> u, target |-> x, unblock |-> "report" = "follow" /\ Blocked(u, x)]
    OBVIOUS
  <2>2. SocialPaired(c) /\ social' = [social EXCEPT ![r] = c]
    BY <1>4, <2>1 DEF Report, SocialLoad, SocialPaired
  <2>3. UNCHANGED <<now, follows, blocks>>
    BY <1>4 DEF Report
  <2> QED
    BY <1>1, <2>2, <2>3 DEF SocialTyped
<1>5. ASSUME NEW r \in SocialCalls, Followed(r) \/ BlockSet(r) \/ ReportMade(r) \/ SocialLost(r)
      PROVE  SocialTyped' /\ now' = now
  <2>1. social' = [social EXCEPT ![r] = SocialIdle] /\ now' = now
    BY <1>5 DEF Followed, BlockSet, ReportMade, SocialLost, SocialDone
  <2>2. CASE Followed(r)
    <3>1. PICK u \in Users, v \in Users : u = social[r].user /\ v = social[r].target
      BY <2>2 DEF Followed, SocialTyped, SocialPaired
    <3>2. /\ blocks' = IF social[r].unblock THEN blocks \ Between(blocks, u, v) ELSE blocks
          /\ follows' = follows \cup {Edge(u, v)}
      BY <2>2, <3>1 DEF Followed
    <3>3. EdgesOk(blocks') /\ EdgesOk(follows')
      BY <3>2, EdgesChange, EdgeAdded DEF SocialTyped
    <3> QED
      BY <1>1, <1>2, <2>1, <3>3 DEF SocialTyped
  <2>3. CASE BlockSet(r)
    <3>1. PICK u \in Users, v \in Users : u = social[r].user /\ v = social[r].target
      BY <2>3 DEF BlockSet, SocialTyped, SocialPaired
    <3>2. follows' = follows \ Severed(u, v) /\ blocks' = blocks \cup {Edge(u, v)}
      BY <2>3, <3>1 DEF BlockSet
    <3>3. EdgesOk(blocks') /\ EdgesOk(follows')
      BY <3>2, EdgesChange, EdgeAdded DEF SocialTyped
    <3> QED
      BY <1>1, <1>2, <2>1, <3>3 DEF SocialTyped
  <2>4. CASE ReportMade(r) \/ SocialLost(r)
    <3>1. UNCHANGED <<follows, blocks>>
      BY <2>4 DEF ReportMade, SocialLost
    <3> QED
      BY <1>1, <1>2, <2>1, <3>1 DEF SocialTyped
  <2> QED
    BY <1>5, <2>2, <2>3, <2>4
<1>6. ASSUME NEW u \in Users, NEW v \in Users, Unfollow(u, v) \/ Unblock(u, v)
      PROVE  SocialTyped' /\ now' = now
  <2>1. /\ follows' = follows \/ follows' = follows \ Between(follows, u, v)
        /\ blocks' = blocks \/ blocks' = blocks \ Between(blocks, u, v)
        /\ UNCHANGED <<now, social>>
    BY <1>6 DEF Unfollow, Unblock
  <2>2. EdgesOk(follows') /\ EdgesOk(blocks')
    BY <2>1, EdgesChange DEF SocialTyped
  <2> QED
    BY <2>1, <2>2 DEF SocialTyped
<1> QED
  BY <1>3, <1>4, <1>5, <1>6 DEF SocialNext

--------------------------------------------------------------------------------
(* Requests of the feed                                                    *)

PostsMove ==
    /\ post' = [p \in Posts |-> post'[p]]
    /\ \A p \in Posts : PostShaped(post'[p]) /\ post'[p].at \in Int /\ RowAges(post[p], post'[p])

CommentsMove ==
    /\ comment' = [c \in Comments |-> comment'[c]]
    /\ \A c \in Comments :
          /\ CommentShaped(comment'[c]) /\ comment'[c].at \in Int /\ RowAges(comment[c], comment'[c])
          /\ comment[c].life = "live" => comment'[c].post = comment[c].post

MarksMove ==
    /\ highlight' = [h \in Highlights |-> highlight'[h]]
    /\ \A h \in Highlights :
          MarkShaped(highlight'[h]) /\ highlight'[h].at \in Int /\ RowAges(highlight[h], highlight'[h])

EventsMove ==
    /\ event' = [e \in Events |-> event'[e]]
    /\ \A e \in Events : EventShaped(event'[e]) /\ event'[e].at \in Int /\ RowAges(event[e], event'[e])

FeedCallsMove ==
    /\ feedCall' = [r \in FeedCalls |-> feedCall'[r]]
    /\ \A r \in FeedCalls : FeedStamped(feedCall'[r])

FeedMoves == PostsMove /\ CommentsMove /\ MarksMove /\ EventsMove /\ FeedCallsMove

LEMMA FeedUnmoved ==
    ASSUME FeedTyped
    PROVE  /\ post' = post => PostsMove
           /\ comment' = comment => CommentsMove
           /\ highlight' = highlight => MarksMove
           /\ event' = event => EventsMove
           /\ feedCall' = feedCall => FeedCallsMove
<1>1. post' = post => PostsMove
  BY RowsUnmoved DEF FeedTyped, PostsMove
<1>2. comment' = comment => CommentsMove
  BY RowsUnmoved DEF FeedTyped, CommentsMove
<1>3. highlight' = highlight => MarksMove
  BY RowsUnmoved DEF FeedTyped, MarksMove
<1>4. event' = event => EventsMove
  BY RowsUnmoved DEF FeedTyped, EventsMove
<1>5. feedCall' = feedCall => FeedCallsMove
  BY DEF FeedTyped, FeedCallsMove
<1> QED
  BY <1>1, <1>2, <1>3, <1>4, <1>5

LEMMA FeedCallsAnswered ==
    ASSUME FeedTyped, NEW r \in FeedCalls, NEW c, FeedStamped(c), feedCall' = [feedCall EXCEPT ![r] = c]
    PROVE  FeedCallsMove
BY DEF FeedTyped, FeedCallsMove

LEMMA PostSet ==
    ASSUME FeedTyped, NEW p \in Posts, NEW x, PostShaped(x), x.at \in Int, RowAges(post[p], x),
           post' = [post EXCEPT ![p] = x]
    PROVE  PostsMove
BY RowsUnmoved DEF FeedTyped, PostsMove

LEMMA CommentSet ==
    ASSUME FeedTyped, NEW c \in Comments, NEW x, CommentShaped(x), x.at \in Int, RowAges(comment[c], x),
           comment[c].life = "live" => x.post = comment[c].post, comment' = [comment EXCEPT ![c] = x]
    PROVE  CommentsMove
BY RowsUnmoved DEF FeedTyped, CommentsMove

LEMMA MarkSet ==
    ASSUME FeedTyped, NEW h \in Highlights, NEW x, MarkShaped(x), x.at \in Int, RowAges(highlight[h], x),
           highlight' = [highlight EXCEPT ![h] = x]
    PROVE  MarksMove
BY RowsUnmoved DEF FeedTyped, MarksMove

LEMMA EventMade ==
    ASSUME FeedTyped, NEW e \in Fresh(event), NEW u, NEW at \in Int, NEW type, NEW about,
           event' = [event EXCEPT ![e] = [life |-> "live", at |-> at, author |-> u, type |-> type,
                                          about |-> about]]
    PROVE  EventsMove
<1>1. PICK x : x = [life |-> "live", at |-> at, author |-> u, type |-> type, about |-> about]
  OBVIOUS
<1>2. e \in Events /\ event[e].life = "unused"
  BY DEF Fresh, FeedTyped
<1>3. EventShaped(x) /\ x.at \in Int /\ RowAges(event[e], x)
  BY <1>1, <1>2 DEF EventShaped, RowAges
<1> QED
  BY <1>1, <1>2, <1>3, RowsUnmoved DEF FeedTyped, EventsMove

LEMMA PostStep ==
    ASSUME FeedTyped, now \in Int, PostNext
    PROVE  FeedMoves /\ now' = now
<1>1. ASSUME NEW r \in FeedCalls, NEW c, FeedStamped(c), FeedLoad(r, c)
      PROVE  FeedMoves /\ now' = now
  BY <1>1, FeedUnmoved, FeedCallsAnswered DEF FeedLoad, feedTables, FeedMoves
<1>2. FeedStamped(FeedIdle)
  BY DEF FeedStamped, FeedIdle
<1>3. ASSUME NEW r \in FeedCalls, NEW u \in Users, CreatePost(r, u)
      PROVE  FeedMoves /\ now' = now
  <2>1. FeedStamped([op |-> "post", user |-> u, at |-> now])
    BY DEF FeedStamped
  <2> QED
    BY <1>1, <1>3, <2>1 DEF CreatePost
<1>4. ASSUME NEW r \in FeedCalls, NEW p \in Posts, PostCreated(r, p)
      PROVE  FeedMoves /\ now' = now
  <2>1. PICK x : x = [life |-> "live", at |-> feedCall[r].at, author |-> feedCall[r].user]
    OBVIOUS
  <2>2. post' = [post EXCEPT ![p] = x] /\ post[p].life = "unused" /\ feedCall[r].at \in Int
    BY <1>4, <2>1 DEF PostCreated, Fresh, FeedTyped, FeedStamped
  <2>3. PostShaped(x) /\ x.at \in Int /\ RowAges(post[p], x)
    BY <2>1, <2>2 DEF PostShaped, RowAges
  <2>4. PostsMove
    BY <2>2, <2>3, PostSet
  <2>5. UNCHANGED <<now, comment, highlight, event>> /\ feedCall' = [feedCall EXCEPT ![r] = FeedIdle]
    BY <1>4 DEF PostCreated, FeedDone
  <2> QED
    BY <1>2, <2>4, <2>5, FeedUnmoved, FeedCallsAnswered DEF FeedMoves
<1>5. ASSUME NEW r \in FeedCalls, NEW u \in Users, NEW p \in Posts, NEW c, AddComment(r, u, p, c)
      PROVE  FeedMoves /\ now' = now
  <2>1. FeedStamped([op |-> "comment", user |-> u, at |-> now, post |-> p, parent |-> c])
    BY DEF FeedStamped
  <2> QED
    BY <1>1, <1>5, <2>1 DEF AddComment
<1>6. ASSUME NEW r \in FeedCalls, NEW c \in Comments, CommentAdded(r, c)
      PROVE  FeedMoves /\ now' = now
  <2>1. PICK x : x = [life |-> "live", at |-> feedCall[r].at, author |-> feedCall[r].user,
                      post |-> feedCall[r].post, parent |-> feedCall[r].parent]
    OBVIOUS
  <2>2. comment' = [comment EXCEPT ![c] = x] /\ comment[c].life = "unused" /\ feedCall[r].at \in Int
    BY <1>6, <2>1 DEF CommentAdded, Fresh, FeedTyped, FeedStamped
  <2>3. CommentShaped(x) /\ x.at \in Int /\ RowAges(comment[c], x)
    BY <2>1, <2>2 DEF CommentShaped, RowAges
  <2>4. CommentsMove
    BY <2>2, <2>3, CommentSet
  <2>5. UNCHANGED <<now, post, highlight, event>> /\ feedCall' = [feedCall EXCEPT ![r] = FeedIdle]
    BY <1>6 DEF CommentAdded, FeedDone
  <2> QED
    BY <1>2, <2>4, <2>5, FeedUnmoved, FeedCallsAnswered DEF FeedMoves
<1>7. ASSUME NEW u \in Users, NEW p \in Posts, DeletePost(u, p)
      PROVE  FeedMoves /\ now' = now
  <2>1. PICK x : x = [post[p] EXCEPT !.life = "gone"]
    OBVIOUS
  <2>2. post' = [post EXCEPT ![p] = x] /\ PostShaped(post[p]) /\ post[p].at \in Int
    BY <1>7, <2>1 DEF DeletePost, FeedTyped
  <2>3. PostShaped(x) /\ x.at \in Int /\ RowAges(post[p], x)
    BY <2>1, <2>2 DEF PostShaped, RowAges
  <2>4. PostsMove
    BY <2>2, <2>3, PostSet
  <2>5. UNCHANGED <<now, comment, highlight, event, feedCall>>
    BY <1>7 DEF DeletePost
  <2> QED
    BY <2>4, <2>5, FeedUnmoved DEF FeedMoves
<1>8. ASSUME NEW u \in Users, NEW c \in Comments, DeleteComment(u, c)
      PROVE  FeedMoves /\ now' = now
  <2>1. PICK x : x = [comment[c] EXCEPT !.life = "gone"]
    OBVIOUS
  <2>2. comment' = [comment EXCEPT ![c] = x] /\ CommentShaped(comment[c]) /\ comment[c].at \in Int
    BY <1>8, <2>1 DEF DeleteComment, FeedTyped
  <2>3. CommentShaped(x) /\ x.at \in Int /\ RowAges(comment[c], x) /\ x.post = comment[c].post
    BY <2>1, <2>2 DEF CommentShaped, RowAges
  <2>4. CommentsMove
    BY <2>2, <2>3, CommentSet
  <2>5. UNCHANGED <<now, post, highlight, event, feedCall>>
    BY <1>8 DEF DeleteComment
  <2> QED
    BY <2>4, <2>5, FeedUnmoved DEF FeedMoves
<1>9. ASSUME NEW r \in FeedCalls, NEW u \in Users, NEW p \in Posts, NEW k \in Reactions,
             ToggleReaction(r, u, p, k)
      PROVE  FeedMoves /\ now' = now
  <2>1. PICK c : c.op = "toggle" /\ FeedLoad(r, c)
    BY <1>9 DEF ToggleReaction
  <2> QED
    BY <1>1, <2>1 DEF FeedStamped
<1> QED
  BY <1>3, <1>4, <1>5, <1>6, <1>7, <1>8, <1>9 DEF PostNext

LEMMA MarkStep ==
    ASSUME FeedTyped, now \in Int, HighlightNext
    PROVE  FeedMoves /\ now' = now
<1>1. ASSUME NEW r \in FeedCalls, NEW c, FeedStamped(c), FeedLoad(r, c)
      PROVE  FeedMoves /\ now' = now
  BY <1>1, FeedUnmoved, FeedCallsAnswered DEF FeedLoad, feedTables, FeedMoves
<1>2. FeedStamped(FeedIdle)
  BY DEF FeedStamped, FeedIdle
<1>3. ASSUME NEW r \in FeedCalls, NEW u \in Users, CreateHighlight(r, u)
      PROVE  FeedMoves /\ now' = now
  <2>1. FeedStamped([op |-> "highlight", user |-> u, at |-> now])
    BY DEF FeedStamped
  <2> QED
    BY <1>1, <1>3, <2>1 DEF CreateHighlight
<1>4. ASSUME NEW r \in FeedCalls, NEW h \in Highlights, HighlightCreated(r, h)
      PROVE  FeedMoves /\ now' = now
  <2>1. PICK x : x = [life |-> "live", at |-> feedCall[r].at, author |-> feedCall[r].user,
                      visibility |-> "private", shared |-> FALSE]
    OBVIOUS
  <2>2. highlight' = [highlight EXCEPT ![h] = x] /\ highlight[h].life = "unused" /\ feedCall[r].at \in Int
    BY <1>4, <2>1 DEF HighlightCreated, Fresh, FeedTyped, FeedStamped
  <2>3. MarkShaped(x) /\ x.at \in Int /\ RowAges(highlight[h], x)
    BY <2>1, <2>2 DEF MarkShaped, RowAges
  <2>4. MarksMove
    BY <2>2, <2>3, MarkSet
  <2>5. UNCHANGED <<now, post, comment, event>> /\ feedCall' = [feedCall EXCEPT ![r] = FeedIdle]
    BY <1>4 DEF HighlightCreated, FeedDone
  <2> QED
    BY <1>2, <2>4, <2>5, FeedUnmoved, FeedCallsAnswered DEF FeedMoves
<1>5. ASSUME NEW u \in Users, NEW h \in Highlights, DeleteHighlight(u, h)
      PROVE  FeedMoves /\ now' = now
  <2>1. PICK x : x = [highlight[h] EXCEPT !.life = "gone"]
    OBVIOUS
  <2>2. highlight' = [highlight EXCEPT ![h] = x] /\ MarkShaped(highlight[h]) /\ highlight[h].at \in Int
    BY <1>5, <2>1 DEF DeleteHighlight, FeedTyped
  <2>3. MarkShaped(x) /\ x.at \in Int /\ RowAges(highlight[h], x)
    BY <2>1, <2>2 DEF MarkShaped, RowAges
  <2>4. MarksMove
    BY <2>2, <2>3, MarkSet
  <2>5. UNCHANGED <<now, post, comment, event, feedCall>>
    BY <1>5 DEF DeleteHighlight
  <2> QED
    BY <2>4, <2>5, FeedUnmoved DEF FeedMoves
<1>6. ASSUME NEW u \in Users, NEW h \in Highlights, NEW v \in Visibilities, SetVisibility(u, h, v)
      PROVE  FeedMoves /\ now' = now
  <2>1. PICK x : x = [highlight[h] EXCEPT !.visibility = v]
    OBVIOUS
  <2>2. /\ highlight' = [highlight EXCEPT ![h] = x] /\ MarkShaped(highlight[h]) /\ highlight[h].at \in Int
        /\ highlight[h].life = "live"
    BY <1>6, <2>1 DEF SetVisibility, FeedTyped, Owned, Live
  <2>3. MarkShaped(x) /\ x.at \in Int /\ RowAges(highlight[h], x)
    BY <2>1, <2>2 DEF MarkShaped, RowAges
  <2>4. MarksMove
    BY <2>2, <2>3, MarkSet
  <2>5. UNCHANGED <<now, post, comment, event, feedCall>>
    BY <1>6 DEF SetVisibility
  <2> QED
    BY <2>4, <2>5, FeedUnmoved DEF FeedMoves
<1>7. ASSUME NEW u \in Users, NEW h \in Highlights, NEW r \in FeedCalls, ShareHighlight(r, u, h)
      PROVE  FeedMoves /\ now' = now
  <2>1. FeedStamped([op |-> "share", user |-> u, at |-> now, highlight |-> h])
    BY DEF FeedStamped
  <2> QED
    BY <1>1, <1>7, <2>1 DEF ShareHighlight
<1>8. ASSUME NEW r \in FeedCalls, NEW e \in Events, HighlightShared(r, e)
      PROVE  FeedMoves /\ now' = now
  <2>1. PICK h : h = feedCall[r].highlight
    OBVIOUS
  <2>2. MarksMove
    <3>1. CASE h \in Highlights /\ highlight[h].life = "live"
      <4>1. PICK x : x = [highlight[h] EXCEPT !.shared = TRUE, !.visibility = "public"]
        OBVIOUS
      <4>2. highlight' = [highlight EXCEPT ![h].shared = TRUE, ![h].visibility = "public"]
        BY <1>8, <2>1, <3>1 DEF HighlightShared
      <4>3. highlight' = [highlight EXCEPT ![h] = x]
        BY <3>1, <4>1, <4>2 DEF FeedTyped
      <4>4. MarkShaped(highlight[h]) /\ highlight[h].at \in Int
        BY <3>1 DEF FeedTyped
      <4>5. MarkShaped(x) /\ x.at \in Int /\ RowAges(highlight[h], x)
        BY <3>1, <4>1, <4>4 DEF MarkShaped, RowAges
      <4> QED
        BY <3>1, <4>3, <4>5, MarkSet
    <3>2. CASE ~(h \in Highlights /\ highlight[h].life = "live")
      <4>1. highlight' = highlight
        <5>1. CASE h \in Highlights
          BY <1>8, <2>1, <3>2, <5>1 DEF HighlightShared
        <5>2. CASE h \notin Highlights
          <6>1. \/ highlight' = highlight
                \/ highlight' = [highlight EXCEPT ![h].shared = TRUE, ![h].visibility = "public"]
            BY <1>8, <2>1 DEF HighlightShared
          <6> QED
            BY <5>2, <6>1 DEF FeedTyped
        <5> QED
          BY <5>1, <5>2
      <4> QED
        BY <4>1, FeedUnmoved
    <3> QED
      BY <3>1, <3>2
  <2>3. EventsMove
    <3>1. e \in Fresh(event) /\ feedCall[r].at \in Int
      BY <1>8 DEF HighlightShared, FeedTyped, FeedStamped
    <3>2. event' = [event EXCEPT ![e] = [life |-> "live", at |-> feedCall[r].at,
                       author |-> feedCall[r].user, type |-> "highlight_shared", about |-> h]]
      BY <1>8, <2>1 DEF HighlightShared
    <3> QED
      BY <3>1, <3>2, EventMade
  <2>4. UNCHANGED <<now, post, comment>> /\ feedCall' = [feedCall EXCEPT ![r] = FeedIdle]
    BY <1>8 DEF HighlightShared, FeedDone
  <2> QED
    BY <1>2, <2>2, <2>3, <2>4, FeedUnmoved, FeedCallsAnswered DEF FeedMoves
<1> QED
  BY <1>3, <1>4, <1>5, <1>6, <1>7, <1>8 DEF HighlightNext

LEMMA EventStep ==
    ASSUME FeedTyped, now \in Int, EventNext
    PROVE  FeedMoves /\ now' = now
<1>1. ASSUME NEW r \in FeedCalls, NEW c, FeedStamped(c), FeedLoad(r, c)
      PROVE  FeedMoves /\ now' = now
  BY <1>1, FeedUnmoved, FeedCallsAnswered DEF FeedLoad, feedTables, FeedMoves
<1>2. FeedStamped(FeedIdle)
  BY DEF FeedStamped, FeedIdle
<1>3. ASSUME NEW r \in FeedCalls, NEW u \in Users, NEW type \in EventTypes, NEW n \in {5, 7},
             RecordEvent(r, u, type, n)
      PROVE  FeedMoves /\ now' = now
  <2>1. FeedStamped([op |-> "event", user |-> u, at |-> now, type |-> type])
    BY DEF FeedStamped
  <2> QED
    BY <1>1, <1>3, <2>1 DEF RecordEvent
<1>4. ASSUME NEW r \in FeedCalls, NEW e \in Events, EventRecorded(r, e)
      PROVE  FeedMoves /\ now' = now
  <2>1. e \in Fresh(event) /\ feedCall[r].at \in Int
    BY <1>4 DEF EventRecorded, FeedTyped, FeedStamped
  <2>2. event' = [event EXCEPT ![e] = [life |-> "live", at |-> feedCall[r].at,
                    author |-> feedCall[r].user, type |-> feedCall[r].type, about |-> NoHighlight]]
    BY <1>4 DEF EventRecorded
  <2>3. EventsMove
    BY <2>1, <2>2, EventMade
  <2>4. UNCHANGED <<now, post, comment, highlight>> /\ feedCall' = [feedCall EXCEPT ![r] = FeedIdle]
    BY <1>4 DEF EventRecorded, FeedDone
  <2> QED
    BY <1>2, <2>3, <2>4, FeedUnmoved, FeedCallsAnswered DEF FeedMoves
<1>5. ASSUME NEW r \in FeedCalls, NEW u \in Users, NEW e \in Events, NEW k \in Reactions,
             ToggleFeedReaction(r, u, e, k)
      PROVE  FeedMoves /\ now' = now
  <2>1. PICK c : c.op = "toggle" /\ FeedLoad(r, c)
    BY <1>5 DEF ToggleFeedReaction
  <2> QED
    BY <1>1, <2>1 DEF FeedStamped
<1>6. ASSUME NEW r \in FeedCalls, NEW u \in Users, NEW e \in Events, NEW c, AddFeedComment(r, u, e, c)
      PROVE  FeedMoves /\ now' = now
  <2>1. PICK x : x.op = "reply" /\ FeedLoad(r, x)
    BY <1>6 DEF AddFeedComment
  <2> QED
    BY <1>1, <2>1 DEF FeedStamped
<1>7. ASSUME NEW r \in FeedCalls, NEW c \in Replies, FeedCommentAdded(r, c)
      PROVE  FeedMoves /\ now' = now
  <2>1. UNCHANGED <<now, post, comment, highlight, event>> /\ feedCall' = [feedCall EXCEPT ![r] = FeedIdle]
    BY <1>7 DEF FeedCommentAdded, FeedDone
  <2> QED
    BY <1>2, <2>1, FeedUnmoved, FeedCallsAnswered DEF FeedMoves
<1>8. ASSUME NEW u \in Users, NEW c \in Replies, DeleteFeedComment(u, c)
      PROVE  FeedMoves /\ now' = now
  BY <1>8, FeedUnmoved DEF DeleteFeedComment, FeedMoves
<1> QED
  BY <1>3, <1>4, <1>5, <1>6, <1>7, <1>8 DEF EventNext

\* What the moves leave.
LEMMA FeedMoved ==
    ASSUME FeedMoves
    PROVE  FeedTyped' /\ FeedAges
<1>1. FeedTyped'
  BY DEF FeedMoves, FeedTyped, PostsMove, CommentsMove, MarksMove, EventsMove, FeedCallsMove
<1>2. FeedAges
  BY DEF FeedMoves, FeedAges, PostsMove, CommentsMove, MarksMove, EventsMove
<1> QED
  BY <1>1, <1>2

LEMMA FeedStep ==
    ASSUME FeedTyped, now \in Int, FeedNext
    PROVE  FeedMoves /\ now' = now
<1>1. FeedStamped(FeedIdle)
  BY DEF FeedStamped, FeedIdle
<1>2. ASSUME NEW r \in FeedCalls, ReactionToggled(r) \/ FeedLost(r)
      PROVE  FeedMoves /\ now' = now
  <2>1. UNCHANGED <<now, post, comment, highlight, event>> /\ feedCall' = [feedCall EXCEPT ![r] = FeedIdle]
    BY <1>2 DEF ReactionToggled, FeedLost, FeedDone, feedTables
  <2> QED
    BY <1>1, <2>1, FeedUnmoved, FeedCallsAnswered DEF FeedMoves
<1> QED
  BY <1>2, PostStep, MarkStep, EventStep DEF FeedNext

--------------------------------------------------------------------------------
(* Requests of the library                                                 *)

ShelfMoves ==
    /\ made' \in Nat /\ made <= made'
    /\ shelf' = [x \in Users \X Books |-> shelf'[x]]
    /\ \A x \in Users \X Books :
          /\ EntryShaped(shelf'[x]) /\ shelf'[x].at \in Int /\ shelf'[x].id \in Int /\ shelf'[x].id <= made'
          /\ shelf'[x] # NoEntry =>
                \/ shelf'[x].id = made' /\ made < made'
                \/ shelf[x] # NoEntry /\ shelf'[x].id = shelf[x].id /\ shelf'[x].at = shelf[x].at

ReviewsMove ==
    /\ review' = [v \in Reviews |-> review'[v]]
    /\ \A v \in Reviews :
          /\ RatingShaped(review'[v]) /\ review'[v].at \in Int /\ review'[v].hidden \in BOOLEAN
          /\ RowAges(review[v], review'[v])
          /\ review[v].life = "live" => (review[v].hidden => review'[v].hidden)

LibraryCallsMove ==
    /\ libCall' = [r \in LibraryCalls |-> libCall'[r]]
    /\ \A r \in LibraryCalls : LibraryStamped(libCall'[r])

LibraryMoves == ShelfMoves /\ ReviewsMove /\ LibraryCallsMove

Moves == FeedMoves /\ LibraryMoves /\ now' = now

LEMMA FeedStays ==
    ASSUME FeedTyped, UNCHANGED feed
    PROVE  FeedMoves
BY FeedUnmoved DEF feed, feedTables, FeedMoves

LEMMA LibraryUnmoved ==
    ASSUME LibraryTyped
    PROVE  /\ UNCHANGED <<shelf, made>> => ShelfMoves
           /\ review' = review => ReviewsMove
           /\ libCall' = libCall => LibraryCallsMove
<1>1. UNCHANGED <<shelf, made>> => ShelfMoves
  BY DEF LibraryTyped, ShelfMoves
<1>2. review' = review => ReviewsMove
  BY RowsUnmoved DEF LibraryTyped, ReviewsMove
<1>3. libCall' = libCall => LibraryCallsMove
  BY DEF LibraryTyped, LibraryCallsMove
<1> QED
  BY <1>1, <1>2, <1>3

LEMMA LibraryCallsAnswered ==
    ASSUME LibraryTyped, NEW r \in LibraryCalls, NEW c, LibraryStamped(c),
           libCall' = [libCall EXCEPT ![r] = c]
    PROVE  LibraryCallsMove
BY DEF LibraryTyped, LibraryCallsMove

\* An entry that may come for what is at x.
EntryFits(x, y) ==
    /\ EntryShaped(y) /\ y.at \in Int /\ y.id \in Int /\ y.id <= made'
    /\ made' \in Nat /\ made <= made'
    /\ y # NoEntry => \/ y.id = made' /\ made < made'
                      \/ shelf[x] # NoEntry /\ y.id = shelf[x].id /\ y.at = shelf[x].at

LEMMA EntrySet ==
    ASSUME LibraryTyped, NEW x \in Users \X Books, NEW y, EntryFits(x, y), shelf' = [shelf EXCEPT ![x] = y]
    PROVE  ShelfMoves
<1>1. \A z \in Users \X Books : shelf'[z] = IF z = x THEN y ELSE shelf[z]
  BY DEF LibraryTyped
<1>2. shelf' = [z \in Users \X Books |-> shelf'[z]]
  BY DEF LibraryTyped
<1>3. made \in Nat
  BY DEF LibraryTyped
<1>4. ASSUME NEW z \in Users \X Books
      PROVE  /\ EntryShaped(shelf'[z]) /\ shelf'[z].at \in Int
             /\ shelf'[z].id \in Int /\ shelf'[z].id <= made'
             /\ shelf'[z] # NoEntry =>
                   \/ shelf'[z].id = made' /\ made < made'
                   \/ shelf[z] # NoEntry /\ shelf'[z].id = shelf[z].id /\ shelf'[z].at = shelf[z].at
  <2>1. CASE z = x
    BY <1>1, <2>1 DEF EntryFits
  <2>2. CASE z # x
    <3>1. shelf'[z] = shelf[z]
      BY <1>1, <2>2
    <3>2. EntryShaped(shelf[z]) /\ shelf[z].at \in Int /\ shelf[z].id \in Int /\ shelf[z].id <= made
      BY DEF LibraryTyped
    <3> QED
      BY <1>3, <3>1, <3>2 DEF EntryFits
  <2> QED
    BY <2>1, <2>2
<1> QED
  BY <1>2, <1>4 DEF ShelfMoves, EntryFits

LEMMA RatingSet ==
    ASSUME LibraryTyped, NEW v \in Reviews, NEW x, RatingShaped(x), x.at \in Int, x.hidden \in BOOLEAN,
           RowAges(review[v], x), review[v].life = "live" => (review[v].hidden => x.hidden),
           review' = [review EXCEPT ![v] = x]
    PROVE  ReviewsMove
BY RowsUnmoved DEF LibraryTyped, ReviewsMove

LEMMA LibraryLoads ==
    ASSUME FeedTyped, LibraryTyped, NEW r \in LibraryCalls, NEW c, LibraryStamped(c), LibraryLoad(r, c)
    PROVE  Moves
<1>1. UNCHANGED <<now, feed, shelf, made, review>> /\ libCall' = [libCall EXCEPT ![r] = c]
  BY DEF LibraryLoad
<1> QED
  BY <1>1, FeedStays, LibraryUnmoved, LibraryCallsAnswered DEF LibraryMoves, Moves

LEMMA Announced ==
    ASSUME FeedTyped, UNCHANGED Tables, NEW e, NEW u, NEW type, NEW at \in Int, Announce(e, u, type, at)
    PROVE  FeedMoves
<1>1. UNCHANGED <<post, comment, highlight, feedCall>>
  BY DEF Tables
<1>2. EventsMove
  BY EventMade DEF Announce
<1> QED
  BY <1>1, <1>2, FeedUnmoved DEF FeedMoves

LEMMA BooksMove ==
    ASSUME FeedTyped, LibraryTyped, now \in Int, ShelfNext
    PROVE  Moves
<1>1. LibraryStamped(LibraryIdle)
  BY DEF LibraryStamped, LibraryIdle
<1>2. ASSUME NEW r \in LibraryCalls, NEW u \in Users, NEW b \in Books, NEW s \in Statuses,
             AddToLibrary(r, u, b, s) \/ UpdateStatus(r, u, b, s)
      PROVE  Moves
  <2>1. PICK c : c.at = now /\ LibraryLoad(r, c)
    BY <1>2 DEF AddToLibrary, UpdateStatus
  <2> QED
    BY <2>1, LibraryLoads DEF LibraryStamped
<1>3. ASSUME NEW r \in LibraryCalls, NEW u \in Users, NEW b \in Books, NEW n \in Chapters,
             UpdateChapter(r, u, b, n)
      PROVE  Moves
  <2>1. PICK c : c.op = "chapter" /\ LibraryLoad(r, c)
    BY <1>3 DEF UpdateChapter
  <2> QED
    BY <2>1, LibraryLoads DEF LibraryStamped
<1>4. ASSUME NEW u \in Users, NEW b \in Books, RemoveFromLibrary(u, b)
      PROVE  Moves
  <2>1. UNCHANGED <<now, post, comment, event, feedCall, made, review, libCall>>
    BY <1>4 DEF RemoveFromLibrary
  <2>2. MarksMove
    <3>1. highlight' = [h \in Highlights |->
                           IF b = TheBook /\ Owned(u, h) THEN [highlight[h] EXCEPT !.life = "gone"]
                           ELSE highlight[h]]
      BY <1>4 DEF RemoveFromLibrary
    <3>2. ASSUME NEW h \in Highlights
          PROVE  /\ MarkShaped(highlight'[h]) /\ highlight'[h].at \in Int
                 /\ RowAges(highlight[h], highlight'[h])
      <4>1. PICK x : x = [highlight[h] EXCEPT !.life = "gone"]
        OBVIOUS
      <4>2. highlight'[h] = x \/ highlight'[h] = highlight[h]
        BY <3>1, <4>1
      <4>3. MarkShaped(highlight[h]) /\ highlight[h].at \in Int
        BY DEF FeedTyped
      <4>4. MarkShaped(x) /\ x.at \in Int /\ RowAges(highlight[h], x)
        BY <4>1, <4>3 DEF MarkShaped, RowAges
      <4> QED
        BY <4>2, <4>3, <4>4, RowsUnmoved
    <3>3. highlight' = [h \in Highlights |-> highlight'[h]]
      BY <3>1
    <3> QED
      BY <3>2, <3>3 DEF MarksMove
  <2>3. ShelfMoves
    <3>1. shelf' = [shelf EXCEPT ![<<u, b>>] = NoEntry] /\ made' = made
      BY <1>4 DEF RemoveFromLibrary
    <3>2. EntryShaped(NoEntry) /\ NoEntry.at \in Int /\ NoEntry.id = 0
      BY DEF EntryShaped, NoEntry, Never
    <3>3. <<u, b>> \in Users \X Books /\ made \in Nat
      BY DEF LibraryTyped
    <3>4. EntryFits(<<u, b>>, NoEntry)
      BY <3>1, <3>2, <3>3 DEF EntryFits
    <3> QED
      BY <3>1, <3>3, <3>4, EntrySet
  <2> QED
    BY <2>1, <2>2, <2>3, FeedUnmoved, LibraryUnmoved DEF FeedMoves, LibraryMoves, Moves
<1>5. ASSUME NEW r \in LibraryCalls, LibraryAdded(r)
      PROVE  Moves
  <2>1. PICK y : y = [status |-> libCall[r].status, id |-> made', at |-> libCall[r].at, chapter |-> 0]
    OBVIOUS
  <2>2. PICK x : x = <<libCall[r].user, libCall[r].book>>
    OBVIOUS
  <2>3. /\ shelf' = [shelf EXCEPT ![x] = y] /\ made' = made + 1 /\ libCall[r].at \in Int
        /\ made \in Nat
    BY <1>5, <2>1, <2>2 DEF LibraryAdded, LibraryTyped, LibraryStamped
  <2>4. ShelfMoves
    <3>1. CASE x \in Users \X Books
      <4>1. EntryShaped(y) /\ y.at \in Int /\ y.id = made'
        BY <2>1, <2>3 DEF EntryShaped
      <4>2. EntryFits(x, y)
        BY <2>3, <4>1 DEF EntryFits
      <4> QED
        BY <2>3, <3>1, <4>2, EntrySet
    <3>2. CASE x \notin Users \X Books
      <4>1. shelf' = shelf
        BY <2>3, <3>2 DEF LibraryTyped
      <4>2. \A z \in Users \X Books :
               /\ EntryShaped(shelf[z]) /\ shelf[z].at \in Int /\ shelf[z].id \in Int
               /\ shelf[z].id <= made'
        BY <2>3 DEF LibraryTyped
      <4>3. shelf = [z \in Users \X Books |-> shelf[z]]
        BY DEF LibraryTyped
      <4>4. shelf' = [z \in Users \X Books |-> shelf'[z]]
        BY <4>1, <4>3
      <4>5. made' \in Nat /\ made <= made'
        BY <2>3
      <4> QED
        BY <4>1, <4>2, <4>4, <4>5 DEF ShelfMoves
    <3> QED
      BY <3>1, <3>2
  <2>5. UNCHANGED <<now, feed, review>> /\ libCall' = [libCall EXCEPT ![r] = LibraryIdle]
    BY <1>5 DEF LibraryAdded, LibraryDone
  <2> QED
    BY <1>1, <2>4, <2>5, FeedStays, LibraryUnmoved, LibraryCallsAnswered DEF LibraryMoves, Moves
<1>6. ASSUME NEW x, NEW y, x \in Users \X Books => EntryShaped(y) /\ y.at = shelf[x].at /\ y.id = shelf[x].id,
             shelf[x] # NoEntry, made' = made, shelf' = [shelf EXCEPT ![x] = y]
      PROVE  ShelfMoves
  <2>1. CASE x \in Users \X Books
    <3>1. shelf[x].at \in Int /\ shelf[x].id \in Int /\ shelf[x].id <= made /\ made \in Nat
      BY <2>1 DEF LibraryTyped
    <3>2. EntryFits(x, y)
      BY <1>6, <2>1, <3>1 DEF EntryFits
    <3> QED
      BY <1>6, <2>1, <3>2, EntrySet
  <2>2. CASE x \notin Users \X Books
    <3>1. shelf' = shelf
      BY <1>6, <2>2 DEF LibraryTyped
    <3> QED
      BY <1>6, <3>1, LibraryUnmoved
  <2> QED
    BY <2>1, <2>2
<1>7. ASSUME NEW r \in LibraryCalls, ChapterUpdated(r)
      PROVE  Moves
  <2>1. PICK x, y : /\ x = <<libCall[r].user, libCall[r].book>>
                    /\ y = [shelf[x] EXCEPT !.chapter = libCall[r].chapter]
    OBVIOUS
  <2>2. /\ shelf[x] # NoEntry /\ made' = made
        /\ shelf' = [shelf EXCEPT ![x].chapter = libCall[r].chapter]
    BY <1>7, <2>1 DEF ChapterUpdated, SameEntry, On
  <2>3. shelf' = [shelf EXCEPT ![x] = y]
    BY <2>1, <2>2
  <2>4. x \in Users \X Books => EntryShaped(shelf[x])
    BY DEF LibraryTyped
  <2>5. x \in Users \X Books => EntryShaped(y) /\ y.at = shelf[x].at /\ y.id = shelf[x].id
    BY <2>1, <2>4 DEF EntryShaped
  <2>6. ShelfMoves
    BY <1>6, <2>2, <2>3, <2>5
  <2>7. PICK c : /\ libCall' = [libCall EXCEPT ![r] = c]
                 /\ c = IF IsMilestone("CHAPTER_MILESTONE", libCall[r].chapter)
                        THEN [op |-> "milestone", user |-> libCall[r].user, at |-> now] ELSE LibraryIdle
    BY <1>7 DEF ChapterUpdated
  <2>8. LibraryStamped(c)
    BY <1>1, <2>7 DEF LibraryStamped
  <2>9. UNCHANGED <<now, feed, review>>
    BY <1>7 DEF ChapterUpdated
  <2> QED
    BY <2>6, <2>7, <2>8, <2>9, FeedStays, LibraryUnmoved, LibraryCallsAnswered DEF LibraryMoves, Moves
<1>8. ASSUME NEW r \in LibraryCalls, NEW e \in Events, StatusUpdated(r, e)
      PROVE  Moves
  <2>1. PICK x, y : /\ x = <<libCall[r].user, libCall[r].book>>
                    /\ y = [shelf[x] EXCEPT !.status = libCall[r].status]
    OBVIOUS
  <2>2. /\ shelf[x] # NoEntry /\ made' = made
        /\ shelf' = [shelf EXCEPT ![x].status = libCall[r].status]
    BY <1>8, <2>1 DEF StatusUpdated, SameEntry, On
  <2>3. shelf' = [shelf EXCEPT ![x] = y]
    BY <2>1, <2>2
  <2>4. x \in Users \X Books => EntryShaped(shelf[x])
    BY DEF LibraryTyped
  <2>5. x \in Users \X Books => EntryShaped(y) /\ y.at = shelf[x].at /\ y.id = shelf[x].id
    BY <2>1, <2>4 DEF EntryShaped
  <2>6. ShelfMoves
    BY <1>6, <2>2, <2>3, <2>5
  <2>7. UNCHANGED <<now, review, Tables>> /\ libCall' = [libCall EXCEPT ![r] = LibraryIdle]
    BY <1>8 DEF StatusUpdated, LibraryDone
  <2>8. FeedMoves
    <3>1. CASE UNCHANGED event
      BY <2>7, <3>1, FeedUnmoved DEF Tables, FeedMoves
    <3>2. CASE ~UNCHANGED event
      <4>1. Announce(e, libCall[r].user, "BOOK_COMPLETED", libCall[r].at) /\ libCall[r].at \in Int
        BY <1>8, <3>2 DEF StatusUpdated, LibraryTyped, LibraryStamped
      <4> QED
        BY <2>7, <4>1, Announced
    <3> QED
      BY <3>1, <3>2
  <2> QED
    BY <1>1, <2>6, <2>7, <2>8, LibraryUnmoved, LibraryCallsAnswered DEF LibraryMoves, Moves
<1>9. ASSUME NEW r \in LibraryCalls, NEW e \in Events, MilestoneRecorded(r, e)
      PROVE  Moves
  <2>1. /\ UNCHANGED <<now, Tables, shelf, made, review>> /\ libCall' = [libCall EXCEPT ![r] = LibraryIdle]
        /\ Announce(e, libCall[r].user, "CHAPTER_MILESTONE", libCall[r].at)
    BY <1>9 DEF MilestoneRecorded, LibraryDone
  <2>2. libCall[r].at \in Int
    BY <1>9 DEF MilestoneRecorded, LibraryTyped, LibraryStamped
  <2>3. FeedMoves
    BY <2>1, <2>2, Announced
  <2> QED
    BY <1>1, <2>1, <2>3, LibraryUnmoved, LibraryCallsAnswered DEF LibraryMoves, Moves
<1>10. ASSUME NEW r \in LibraryCalls, LibraryLost(r)
       PROVE  Moves
  <2>1. UNCHANGED <<now, feed, shelf, made, review>> /\ libCall' = [libCall EXCEPT ![r] = LibraryIdle]
    BY <1>10 DEF LibraryLost, LibraryDone
  <2> QED
    BY <1>1, <2>1, FeedStays, LibraryUnmoved, LibraryCallsAnswered DEF LibraryMoves, Moves
<1> QED
  BY <1>2, <1>3, <1>4, <1>5, <1>7, <1>8, <1>9, <1>10 DEF ShelfNext

LEMMA RatingsMove ==
    ASSUME FeedTyped, LibraryTyped, now \in Int, ReviewNext
    PROVE  Moves
<1>1. LibraryStamped(LibraryIdle)
  BY DEF LibraryStamped, LibraryIdle
<1>2. ASSUME NEW r \in LibraryCalls, NEW u \in Users, NEW b \in Books, NEW text \in BOOLEAN,
             CreateReview(r, u, b, text)
      PROVE  Moves
  <2>1. PICK c : c.at = now /\ LibraryLoad(r, c)
    BY <1>2 DEF CreateReview
  <2> QED
    BY <2>1, LibraryLoads DEF LibraryStamped
<1>3. ASSUME NEW r \in LibraryCalls, NEW u \in Users, NEW v \in Reviews, ReportReview(r, u, v)
      PROVE  Moves
  <2>1. PICK c : c.op = "report" /\ LibraryLoad(r, c)
    BY <1>3 DEF ReportReview
  <2> QED
    BY <2>1, LibraryLoads DEF LibraryStamped
<1>4. ASSUME NEW r \in LibraryCalls, ReviewReported(r)
      PROVE  Moves
  <2>1. PICK v, n, x : /\ v = libCall[r].review /\ n = libCall[r].reports + 1
                       /\ x = [review[v] EXCEPT !.reports = n, !.hidden = @ \/ Hides(n)]
    OBVIOUS
  <2>2. /\ review' = [review EXCEPT ![v].reports = n, ![v].hidden = @ \/ Hides(n)]
        /\ v \in Live(review)
    BY <1>4, <2>1 DEF ReviewReported
  <2>3. v \in Reviews /\ review[v].life = "live"
    BY <2>2 DEF LibraryTyped, Live
  <2>4. review' = [review EXCEPT ![v] = x]
    BY <2>1, <2>2, <2>3 DEF LibraryTyped
  <2>5. RatingShaped(review[v]) /\ review[v].at \in Int /\ review[v].hidden \in BOOLEAN
    BY <2>3 DEF LibraryTyped
  <2>6. RatingShaped(x) /\ x.at = review[v].at /\ x.life = "live" /\ x.author = review[v].author
    BY <2>1, <2>3, <2>5 DEF RatingShaped
  <2>7. x.hidden = (review[v].hidden \/ Hides(n))
    BY <2>1, <2>5 DEF RatingShaped
  <2>8. ReviewsMove
    <3>1. RowAges(review[v], x)
      BY <2>3, <2>6 DEF RowAges
    <3>2. x.hidden \in BOOLEAN /\ (review[v].hidden => x.hidden)
      BY <2>5, <2>7
    <3> QED
      BY <2>3, <2>4, <2>5, <2>6, <3>1, <3>2, RatingSet
  <2>9. UNCHANGED <<now, feed, shelf, made>> /\ libCall' = [libCall EXCEPT ![r] = LibraryIdle]
    BY <1>4 DEF ReviewReported, LibraryDone
  <2> QED
    BY <1>1, <2>8, <2>9, FeedStays, LibraryUnmoved, LibraryCallsAnswered DEF LibraryMoves, Moves
<1>5. ASSUME NEW r \in LibraryCalls, NEW v \in Reviews, NEW e \in Events, ReviewCreated(r, v, e)
      PROVE  Moves
  <2>1. PICK x : x = [life |-> "live", at |-> libCall[r].at, author |-> libCall[r].user,
                      book |-> libCall[r].book, text |-> libCall[r].text, reports |-> 0, hidden |-> FALSE]
    OBVIOUS
  <2>2. /\ review' = [review EXCEPT ![v] = x] /\ review[v].life = "unused" /\ libCall[r].at \in Int
        /\ Announce(e, libCall[r].user, "BOOK_REVIEWED", libCall[r].at)
    BY <1>5, <2>1 DEF ReviewCreated, Fresh, LibraryTyped, LibraryStamped
  <2>3. RatingShaped(x) /\ x.at \in Int /\ x.hidden \in BOOLEAN /\ RowAges(review[v], x)
    BY <2>1, <2>2 DEF RatingShaped, RowAges
  <2>4. ReviewsMove
    BY <2>2, <2>3, RatingSet
  <2>5. UNCHANGED <<now, Tables, shelf, made>> /\ libCall' = [libCall EXCEPT ![r] = LibraryIdle]
    BY <1>5 DEF ReviewCreated, LibraryDone
  <2>6. FeedMoves
    BY <2>2, <2>5, Announced
  <2> QED
    BY <1>1, <2>4, <2>5, <2>6, LibraryUnmoved, LibraryCallsAnswered DEF LibraryMoves, Moves
<1>6. ASSUME NEW u \in Users, NEW v \in Reviews, DeleteReview(u, v)
      PROVE  Moves
  <2>1. PICK x : x = [review[v] EXCEPT !.life = "gone"]
    OBVIOUS
  <2>2. /\ review' = [review EXCEPT ![v] = x] /\ RatingShaped(review[v]) /\ review[v].at \in Int
        /\ review[v].hidden \in BOOLEAN
    BY <1>6, <2>1 DEF DeleteReview, LibraryTyped
  <2>3. RatingShaped(x) /\ x.at \in Int /\ x.hidden = review[v].hidden /\ RowAges(review[v], x)
    BY <2>1, <2>2 DEF RatingShaped, RowAges
  <2>4. ReviewsMove
    BY <2>2, <2>3, RatingSet
  <2>5. UNCHANGED <<now, feed, shelf, made, libCall>>
    BY <1>6 DEF DeleteReview
  <2> QED
    BY <2>4, <2>5, FeedStays, LibraryUnmoved DEF LibraryMoves, Moves
<1>7. ASSUME NEW u \in Users, NEW v \in Reviews, NEW text \in BOOLEAN, UpdateReview(u, v, text)
      PROVE  Moves
  <2>1. PICK x : x = [review[v] EXCEPT !.text = text]
    OBVIOUS
  <2>2. /\ review' = [review EXCEPT ![v] = x] /\ RatingShaped(review[v]) /\ review[v].at \in Int
        /\ review[v].hidden \in BOOLEAN /\ review[v].life = "live"
    BY <1>7, <2>1 DEF UpdateReview, LibraryTyped, Live
  <2>3. RatingShaped(x) /\ x.at \in Int /\ x.hidden = review[v].hidden /\ RowAges(review[v], x)
    BY <2>1, <2>2 DEF RatingShaped, RowAges
  <2>4. ReviewsMove
    BY <2>2, <2>3, RatingSet
  <2>5. UNCHANGED <<now, feed, shelf, made, libCall>>
    BY <1>7 DEF UpdateReview
  <2> QED
    BY <2>4, <2>5, FeedStays, LibraryUnmoved DEF LibraryMoves, Moves
<1> QED
  BY <1>2, <1>3, <1>4, <1>5, <1>6, <1>7 DEF ReviewNext

--------------------------------------------------------------------------------
(* A list is a finite set of rows                                          *)

LEMMA LibraryMoved ==
    ASSUME LibraryMoves
    PROVE  LibraryTyped' /\ LibraryAges
<1>1. LibraryTyped'
  BY DEF LibraryMoves, LibraryTyped, ShelfMoves, ReviewsMove, LibraryCallsMove
<1>2. LibraryAges
  BY DEF LibraryMoves, LibraryAges, ShelfMoves, ReviewsMove
<1> QED
  BY <1>1, <1>2

LEMMA TablesStay ==
    ASSUME TablesTyped
    PROVE  /\ UNCHANGED <<now, socialVars>> => SocialTyped'
           /\ UNCHANGED feed => FeedTyped' /\ FeedAges
           /\ UNCHANGED library => LibraryTyped' /\ LibraryAges
<1>1. FeedTyped /\ LibraryTyped /\ SocialTyped
  BY DEF TablesTyped
<1>2. UNCHANGED <<now, socialVars>> => SocialTyped'
  BY <1>1 DEF SocialTyped, socialVars
<1>3. UNCHANGED feed => FeedTyped' /\ FeedAges
  BY <1>1, FeedStays, FeedMoved
<1>4. UNCHANGED library => LibraryTyped' /\ LibraryAges
  <2>1. UNCHANGED library => LibraryMoves
    BY <1>1, LibraryUnmoved DEF library, LibraryMoves
  <2> QED
    BY <2>1, LibraryMoved
<1> QED
  BY <1>2, <1>3, <1>4

LEMMA TablesStep ==
    ASSUME TablesTyped, CommunityNext
    PROVE  TablesTyped' /\ FeedAges /\ LibraryAges
<1>1. now \in Int /\ FeedTyped /\ LibraryTyped /\ SocialTyped
  BY DEF TablesTyped
<1>2. CASE SocialNext /\ UNCHANGED <<feed, library>>
  BY <1>1, <1>2, SocialKeepsTyped, TablesStay DEF TablesTyped
<1>3. UNCHANGED <<socialVars>> => SocialTyped'
  BY <1>1 DEF SocialTyped, socialVars
<1>4. CASE FeedNext /\ UNCHANGED <<socialVars, library>>
  <2>1. FeedMoves /\ now' = now
    BY <1>1, <1>4, FeedStep
  <2> QED
    BY <1>1, <1>3, <1>4, <2>1, FeedMoved, TablesStay DEF TablesTyped
<1>5. CASE (ShelfNext \/ ReviewNext) /\ UNCHANGED socialVars
  <2>1. Moves
    BY <1>1, <1>5, BooksMove, RatingsMove
  <2> QED
    BY <1>1, <1>3, <1>5, <2>1, FeedMoved, LibraryMoved DEF TablesTyped, Moves
<1>6. CASE Tick /\ UNCHANGED <<socialVars, feed, library>>
  <2>1. now' \in Int
    BY <1>1, <1>6 DEF Tick
  <2> QED
    BY <1>1, <1>3, <1>6, <2>1, TablesStay DEF TablesTyped
<1> QED
  BY <1>2, <1>4, <1>5, <1>6 DEF CommunityNext

\* The image of a finite set.
LEMMA ImageIsFinite ==
    ASSUME NEW S, IsFiniteSet(S), NEW f, NEW T, T = {f[x] : x \in S}
    PROVE  IsFiniteSet(T)
<1>1. PICK g : g = [x \in S |-> f[x]]
  OBVIOUS
<1>2. g \in Surjection(S, T)
  BY <1>1 DEF Surjection
<1> QED
  BY <1>2, FS_Surjection

\* Rows of the ids S, stamped as in at.
RowsOf(S, at, R) ==
    /\ S \subseteq Int /\ \A x \in S : at[x] \in Int
    /\ \A y \in R : \E x \in S : y = [id |-> x, at |-> at[x]]

LEMMA RowsOfTable ==
    ASSUME NEW S, IsFiniteSet(S), NEW at, NEW R, RowsOf(S, at, R)
    PROVE  RowsOk(R)
<1>1. PICK f : f = [x \in S |-> [id |-> x, at |-> at[x]]]
  OBVIOUS
<1>2. PICK T : T = {f[x] : x \in S}
  OBVIOUS
<1>3. IsFiniteSet(T)
  BY <1>2, ImageIsFinite
<1>4. IsFiniteSet(R)
  <2>1. R \subseteq T
    BY <1>1, <1>2 DEF RowsOf
  <2> QED
    BY <1>3, <2>1, FS_Subset
<1>5. \A y \in R : y = [id |-> y.id, at |-> y.at] /\ y.id \in Int /\ y.at \in Int
  <2>1. TAKE y \in R
  <2>2. PICK x \in S : y = [id |-> x, at |-> at[x]]
    BY DEF RowsOf
  <2>3. x \in Int /\ at[x] \in Int
    BY DEF RowsOf
  <2> QED
    BY <2>2, <2>3
<1> QED
  BY <1>4, <1>5 DEF RowsOk

LEMMA RowsOfEdges ==
    ASSUME NEW edges, EdgesOk(edges), NEW S, S \subseteq edges,
           NEW R, R = {[id |-> e.from, at |-> e.at] : e \in S} \/ R = {[id |-> e.to, at |-> e.at] : e \in S}
    PROVE  RowsOk(R)
<1>1. IsFiniteSet(S)
  BY FS_Subset DEF EdgesOk
<1>2. PICK f, g : /\ f = [e \in S |-> [id |-> e.from, at |-> e.at]]
                  /\ g = [e \in S |-> [id |-> e.to, at |-> e.at]]
  OBVIOUS
<1>3. R = {f[e] : e \in S} \/ R = {g[e] : e \in S}
  BY <1>2
<1>4. IsFiniteSet(R)
  BY <1>1, <1>3, ImageIsFinite
<1>5. \A y \in R : y = [id |-> y.id, at |-> y.at] /\ y.id \in Int /\ y.at \in Int
  <2>1. TAKE y \in R
  <2>2. PICK e \in S : y = [id |-> e.from, at |-> e.at] \/ y = [id |-> e.to, at |-> e.at]
    OBVIOUS
  <2>3. e.from \in Int /\ e.to \in Int /\ e.at \in Int
    BY ListsAssumption DEF EdgesOk
  <2> QED
    BY <2>2, <2>3
<1> QED
  BY <1>4, <1>5 DEF RowsOk

\* The lists, and whose they are.
ListNames ==
    {"book", "global", "post", "highlights", "mine", "following", "following posts", "explore",
     "posts of", "followers", "followings", "blocks", "library", "reviews"}

Readable(list, of) ==
    /\ list \in ListNames
    /\ CASE list \in {"book", "global"} -> of = NoUser
         [] list = "post" -> of \in Posts
         [] OTHER -> of \in Users

LEMMA IdsAreFinite ==
    /\ IsFiniteSet(Posts) /\ Posts \subseteq Int
    /\ IsFiniteSet(Comments) /\ Comments \subseteq Int
    /\ IsFiniteSet(Highlights) /\ Highlights \subseteq Int
    /\ IsFiniteSet(Events) /\ Events \subseteq Int
    /\ IsFiniteSet(Reviews) /\ Reviews \subseteq Int
    /\ IsFiniteSet(Books)
<1>1. PICK S : S = Users \cup Posts \cup Comments \cup Highlights \cup Events \cup Reviews \cup Books
  OBVIOUS
<1>2. IsFiniteSet(S)
  BY <1>1, ListsAssumption
<1>3. \A T : T \subseteq S => IsFiniteSet(T)
  BY <1>2, FS_Subset
<1>4. /\ IsFiniteSet(Posts) /\ IsFiniteSet(Comments) /\ IsFiniteSet(Highlights) /\ IsFiniteSet(Events)
      /\ IsFiniteSet(Reviews) /\ IsFiniteSet(Books)
  BY <1>1, <1>3
<1> QED
  BY <1>4, ListsAssumption

LEMMA PostRows ==
    ASSUME FeedTyped, NEW S, S \subseteq Live(post)
    PROVE  RowsOk({[id |-> p, at |-> post[p].at] : p \in S})
<1>1. PICK at, R : at = [p \in Posts |-> post[p].at] /\ R = {[id |-> p, at |-> post[p].at] : p \in S}
  OBVIOUS
<1>2. S \subseteq Posts /\ \A p \in Posts : post[p].at \in Int
  BY DEF FeedTyped, Live
<1>3. \A y \in R : \E p \in Posts : y = [id |-> p, at |-> at[p]]
  BY <1>1, <1>2
<1>4. RowsOf(Posts, at, R)
  BY <1>1, <1>2, <1>3, IdsAreFinite DEF RowsOf
<1> QED
  BY <1>1, <1>4, IdsAreFinite, RowsOfTable

LEMMA CommentRows ==
    ASSUME FeedTyped, NEW S, S \subseteq Live(comment)
    PROVE  RowsOk({[id |-> p, at |-> comment[p].at] : p \in S})
<1>1. PICK at, R : /\ at = [p \in Comments |-> comment[p].at]
                   /\ R = {[id |-> p, at |-> comment[p].at] : p \in S}
  OBVIOUS
<1>2. S \subseteq Comments /\ \A p \in Comments : comment[p].at \in Int
  BY DEF FeedTyped, Live
<1>3. \A y \in R : \E p \in Comments : y = [id |-> p, at |-> at[p]]
  BY <1>1, <1>2
<1>4. RowsOf(Comments, at, R)
  BY <1>1, <1>2, <1>3, IdsAreFinite DEF RowsOf
<1> QED
  BY <1>1, <1>4, IdsAreFinite, RowsOfTable

LEMMA MarkRows ==
    ASSUME FeedTyped, NEW S, S \subseteq Live(highlight)
    PROVE  RowsOk({[id |-> p, at |-> highlight[p].at] : p \in S})
<1>1. PICK at, R : /\ at = [p \in Highlights |-> highlight[p].at]
                   /\ R = {[id |-> p, at |-> highlight[p].at] : p \in S}
  OBVIOUS
<1>2. S \subseteq Highlights /\ \A p \in Highlights : highlight[p].at \in Int
  BY DEF FeedTyped, Live
<1>3. \A y \in R : \E p \in Highlights : y = [id |-> p, at |-> at[p]]
  BY <1>1, <1>2
<1>4. RowsOf(Highlights, at, R)
  BY <1>1, <1>2, <1>3, IdsAreFinite DEF RowsOf
<1> QED
  BY <1>1, <1>4, IdsAreFinite, RowsOfTable

LEMMA EventRows ==
    ASSUME FeedTyped, NEW S, S \subseteq Live(event)
    PROVE  RowsOk({[id |-> p, at |-> event[p].at] : p \in S})
<1>1. PICK at, R : at = [p \in Events |-> event[p].at] /\ R = {[id |-> p, at |-> event[p].at] : p \in S}
  OBVIOUS
<1>2. S \subseteq Events /\ \A p \in Events : event[p].at \in Int
  BY DEF FeedTyped, Live
<1>3. \A y \in R : \E p \in Events : y = [id |-> p, at |-> at[p]]
  BY <1>1, <1>2
<1>4. RowsOf(Events, at, R)
  BY <1>1, <1>2, <1>3, IdsAreFinite DEF RowsOf
<1> QED
  BY <1>1, <1>4, IdsAreFinite, RowsOfTable

LEMMA ReviewRows ==
    ASSUME LibraryTyped, NEW S, S \subseteq Live(review)
    PROVE  RowsOk({[id |-> p, at |-> review[p].at] : p \in S})
<1>1. PICK at, R : at = [p \in Reviews |-> review[p].at] /\ R = {[id |-> p, at |-> review[p].at] : p \in S}
  OBVIOUS
<1>2. S \subseteq Reviews /\ \A p \in Reviews : review[p].at \in Int
  BY DEF LibraryTyped, Live
<1>3. \A y \in R : \E p \in Reviews : y = [id |-> p, at |-> at[p]]
  BY <1>1, <1>2
<1>4. RowsOf(Reviews, at, R)
  BY <1>1, <1>2, <1>3, IdsAreFinite DEF RowsOf
<1> QED
  BY <1>1, <1>4, IdsAreFinite, RowsOfTable

LEMMA ShelfRows ==
    ASSUME LibraryTyped, NEW u \in Users
    PROVE  RowsOk(ListForUser(u))
<1>1. PICK S, f : /\ S = {b \in Books : On(u, b)}
                  /\ f = [b \in S |-> [id |-> shelf[<<u, b>>].id, at |-> shelf[<<u, b>>].at]]
  OBVIOUS
<1>2. IsFiniteSet(S)
  BY <1>1, IdsAreFinite, FS_Subset
<1>3. PICK R : R = ListForUser(u) /\ R = {f[b] : b \in S}
  BY <1>1 DEF ListForUser
<1>4. IsFiniteSet(R)
  BY <1>2, <1>3, ImageIsFinite
<1>5. \A y \in R : y = [id |-> y.id, at |-> y.at] /\ y.id \in Int /\ y.at \in Int
  <2>1. TAKE y \in R
  <2>2. PICK b \in S : y = [id |-> shelf[<<u, b>>].id, at |-> shelf[<<u, b>>].at]
    BY <1>1, <1>3
  <2>3. <<u, b>> \in Users \X Books
    BY <1>1
  <2>4. shelf[<<u, b>>].id \in Int /\ shelf[<<u, b>>].at \in Int
    BY <2>3 DEF LibraryTyped
  <2> QED
    BY <2>2, <2>4
<1> QED
  BY <1>3, <1>4, <1>5 DEF RowsOk

LEMMA RowsTyped ==
    ASSUME TablesTyped, NEW list, NEW of, Readable(list, of)
    PROVE  RowsOk(ListRows(list, of))
<1>1. FeedTyped /\ LibraryTyped /\ SocialTyped
  BY DEF TablesTyped
<1>2. /\ RowsOk(ListByBook) /\ RowsOk(ListGlobal)
      /\ RowsOk(ListByPost(of)) /\ RowsOk(ListByUserBook(of)) /\ RowsOk(ListFollowing(of))
  BY <1>1, PostRows, CommentRows, MarkRows, EventRows
     DEF ListByBook, ListGlobal, ListByPost, ListByUserBook, ListFollowing
<1>3. RowsOk(ListFollowingFeed(of)) /\ RowsOk(ListExplore(of)) /\ RowsOk(ListUserPosts(of))
  BY <1>1, PostRows DEF ListFollowingFeed, ListExplore, ListUserPosts, Rows
<1>4. RowsOk(ListFollowers(of)) /\ RowsOk(ListFollowings(of)) /\ RowsOk(ListBlocks(of))
  <2>1. EdgesOk(follows) /\ EdgesOk(blocks)
    BY <1>1 DEF SocialTyped
  <2>2. RowsOk(ListFollowers(of))
    BY <2>1, RowsOfEdges DEF ListFollowers
  <2>3. RowsOk(ListFollowings(of))
    BY <2>1, RowsOfEdges DEF ListFollowings
  <2>4. RowsOk(ListBlocks(of))
    BY <2>1, RowsOfEdges DEF ListBlocks
  <2> QED
    BY <2>2, <2>3, <2>4
<1>5. RowsOk(ListMyReviews(of))
  <2>1. PICK S : S = {v \in UNION {Shown(b) : b \in Books} : review[v].author = of}
    OBVIOUS
  <2>2. S \subseteq Live(review)
    BY <2>1 DEF Shown
  <2> QED
    BY <1>1, <2>1, <2>2, ReviewRows DEF ListMyReviews
<1>6. of \in Users => RowsOk(ListForUser(of))
  BY <1>1, ShelfRows
<1>7. \/ list \in {"book", "global", "post"}
      \/ of \in Users /\ list \in {"highlights", "mine", "following", "following posts", "explore",
                                   "posts of", "followers", "followings", "blocks", "library", "reviews"}
  BY DEF Readable, ListNames
<1>8. CASE list \in {"book", "global", "post"}
  BY <1>2, <1>8 DEF ListRows
<1>9. CASE list \in {"highlights", "mine", "following", "following posts", "explore"}
  BY <1>2, <1>3, <1>9 DEF ListRows
<1>10. CASE list \in {"posts of", "followers", "followings", "blocks"}
  BY <1>3, <1>4, <1>10 DEF ListRows
<1>11. CASE of \in Users /\ list \in {"library", "reviews"}
  BY <1>5, <1>6, <1>11 DEF ListRows
<1> QED
  BY <1>7, <1>8, <1>9, <1>10, <1>11

--------------------------------------------------------------------------------
(***************************************************************************)
(* The lists, while everyone goes on and one client reads.                   *)
(***************************************************************************)

PagesVars == <<CommunityVars, walk>>

PagesInit == ClockInit /\ PagingInit /\ FeedInit /\ LibraryInit /\ SocialStart({})

PageNext ==
    \/ \E list \in ListNames, of \in Users \cup Posts \cup {NoUser}, limit \in PageSizes :
          Readable(list, of) /\ BeginWalk(list, of, limit)
    \/ WalkOn

PagesNext ==
    \/ CommunityNext /\ UNCHANGED walk
    \/ PageNext /\ UNCHANGED <<socialVars, feed, library>>

PagesSpec == PagesInit /\ [][PagesNext]_PagesVars

WalkRight ==
    walk # NoWalk => WalkShaped(walk) /\ WalkInv(walk) /\ Readable(walk.list, walk.of)

PagesInv == TablesTyped /\ WalkRight

LEMMA PagesStart == PagesInit => PagesInv
<1> SUFFICES ASSUME PagesInit PROVE PagesInv
  OBVIOUS
<1>1. TablesTyped
  BY TablesStart DEF PagesInit
<1>2. WalkRight
  BY DEF PagesInit, PagingInit, WalkRight
<1> QED
  BY <1>1, <1>2 DEF PagesInv

\* A page leaves the tables alone.
LEMMA PageKeeps ==
    ASSUME TablesTyped, UNCHANGED <<now, socialVars, feed, library>>
    PROVE  TablesTyped' /\ FeedAges /\ LibraryAges
BY TablesStay DEF TablesTyped

LEMMA PageTurns ==
    ASSUME PagesInv, PageNext
    PROVE  WalkRight' /\ now' = now
<1>1. TablesTyped
  BY DEF PagesInv
<1>2. ASSUME NEW list \in ListNames, NEW of, NEW limit \in PageSizes, Readable(list, of),
             BeginWalk(list, of, limit)
      PROVE  WalkRight' /\ now' = now
  <2>1. PICK R : R = ListRows(list, of)
    OBVIOUS
  <2>2. RowsOk(R)
    BY <1>1, <1>2, <2>1, RowsTyped
  <2>3. StartWalk(list, of, list = "post", list \in {"mine", "reviews"}, list \in EdgeLists, limit, R)
    BY <1>2, <2>1 DEF BeginWalk
  <2>4. PICK o, b, f \in BOOLEAN : StartWalk(list, of, o, b, f, limit, R)
    <3>1. (list = "post") \in BOOLEAN /\ (list \in {"mine", "reviews"}) \in BOOLEAN
          /\ (list \in EdgeLists) \in BOOLEAN
      OBVIOUS
    <3> QED
      BY <2>3, <3>1, Zenon
  <2>5. WalkShaped(walk') /\ WalkInv(walk') /\ walk'.list = list /\ walk'.of = of
    BY <2>2, <2>4, WalkBegins
  <2>6. now' = now
    BY <2>4 DEF StartWalk
  <2> QED
    BY <1>2, <2>5, <2>6 DEF WalkRight
<1>3. CASE WalkOn
  <2>1. PICK R : R = ListRows(walk.list, walk.of)
    OBVIOUS
  <2>2. NextPage(R) \/ FetchCursor(R) \/ NextPageByOffset(R)
    BY <1>3, <2>1 DEF WalkOn
  <2>3. walk # NoWalk /\ now' = now
    BY <2>2 DEF NextPage, FetchCursor, NextPageByOffset
  <2>4. WalkShaped(walk) /\ WalkInv(walk) /\ Readable(walk.list, walk.of)
    BY <2>3 DEF PagesInv, WalkRight
  <2>5. RowsOk(R)
    BY <1>1, <2>1, <2>4, RowsTyped
  <2>6. WalkShaped(walk') /\ WalkInv(walk') /\ walk'.list = walk.list /\ walk'.of = walk.of
    BY <2>2, <2>3, <2>4, <2>5, WalkGoesOn
  <2> QED
    BY <2>3, <2>4, <2>6 DEF WalkRight
<1> QED
  BY <1>2, <1>3 DEF PageNext

LEMMA PagesStep ==
    ASSUME PagesInv, [PagesNext]_PagesVars
    PROVE  PagesInv' /\ FeedAges /\ LibraryAges
<1>1. TablesTyped /\ WalkRight
  BY DEF PagesInv
<1>2. UNCHANGED walk => WalkRight'
  BY <1>1 DEF WalkRight
<1>3. CASE CommunityNext /\ UNCHANGED walk
  BY <1>1, <1>2, <1>3, TablesStep DEF PagesInv
<1>4. CASE PageNext /\ UNCHANGED <<socialVars, feed, library>>
  BY <1>1, <1>4, PageTurns, PageKeeps DEF PagesInv
<1>5. CASE UNCHANGED PagesVars
  <2>1. UNCHANGED <<now, socialVars, feed, library>> /\ UNCHANGED walk
    BY <1>5 DEF PagesVars, CommunityVars
  <2> QED
    BY <1>1, <1>2, <2>1, PageKeeps DEF PagesInv
<1> QED
  BY <1>3, <1>4, <1>5 DEF PagesNext

\* The tables under the lists keep what the lists are ordered by, and a walk
\* has seen what it should (the cursors of list_by_book, list_by_post,
\* list_global and the others, the offset of list_by_user_book).
THEOREM PagesInvariant == PagesSpec => []PagesInv
<1>1. PagesInit => PagesInv
  BY PagesStart
<1>2. PagesInv /\ [PagesNext]_PagesVars => PagesInv'
  BY PagesStep
<1> QED
  BY <1>1, <1>2, PTL DEF PagesSpec

\* A client that has read a list to its end, at any page size, has seen every
\* row that was there from the start to the last page, once, whatever others
\* insert, delete, follow or block meanwhile, unless a row has the stamp of one
\* at a page break, a list by offset changed, or the last row of a page went
\* before its stamp was fetched (the lists of domains/feed, community, social,
\* book and review).
THEOREM ReadersMissNothing == PagesSpec => []PagesMissNothing
<1>1. PagesInv => PagesMissNothing
  BY WalkEnds DEF PagesInv, WalkRight, PagesMissNothing
<1> QED
  BY <1>1, PagesInvariant, PTL

\* Why a cursor may be a stamp: a row keeps the stamp and the author it was
\* inserted with for as long as it is there, one that is gone stays gone, a
\* hidden review stays hidden, and an entry put on a shelf again is another
\* (created_at of the tables, hidden_at, UserBook.id).
THEOREM RowsStandOrGo == PagesSpec => [][FeedAges /\ LibraryAges]_PagesVars
<1>1. PagesInv /\ [PagesNext]_PagesVars => [FeedAges /\ LibraryAges]_PagesVars
  BY PagesStep
<1> QED
  BY <1>1, PagesInvariant, PTL DEF PagesSpec

================================================================================
