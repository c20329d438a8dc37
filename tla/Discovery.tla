--------------------------------- MODULE Discovery ---------------------------------
(***************************************************************************)
(* Recommendations (domains/discovery, the taste profiles of domains/book):  *)
(* four strategies and four channels over the shelves of all readers, the    *)
(* answers Redis keeps of the strategies, the taste profiles a task          *)
(* recomputes, the interests a newcomer picks, and the item similarities a   *)
(* weekly job learns.  Posts, sessions and clubs of other modules are        *)
(* constants here; the order within a list and the reasons are left out.     *)
(***************************************************************************)
EXTENDS ServiceClock, FiniteSetsExt

CONSTANTS
    Catalog,           \* books
    Kinds, Kind,       \* the publishers taken for genres, and that of each book
    PostsOf, SessionsOf,   \* posts and sessions of each book in the last days
    Circles,           \* clubs: records of a book and the members
    MinDone,           \* _COLD_START_THRESHOLD
    MinCommon, MinUsers, MixSize, Neighbours, TopKinds, RecentTicks,
    MinInteractions,   \* _MIN_BOOK_INTERACTIONS
    RecLife, ModelLife,    \* ticks an answer and a model are kept
    HasEngine,         \* whether ai_picks has a generator
    DiscCalls, Processes,
    NoModel, NoProfile

VARIABLES
    copies,      \* user_books of each reader
    profile,     \* user_taste_profiles
    interests,   \* user_onboarding_interests
    rec,         \* Redis: the answer kept for each reader
    discCall,    \* what each request or task in flight has computed
    model,       \* Redis: the model
    local,       \* the model each process holds
    absent       \* history: when a book was last off a shelf, and last not rated

discovery == <<copies, profile, interests, rec, discCall, model, local, absent>>

Off == [status |-> "none", at |-> Never]
Rated == {"completed", "reading", "wishlist"}
NoRec == [until |-> Never]
DiscIdle == [op |-> "idle"]
Strategies == {"collaborative", "similar_readers", "taste_match", "cold_start"}

DiscoveryStart(initial) ==
    /\ copies = initial
    /\ profile = [u \in Users |-> NoProfile]
    /\ interests = [u \in Users |-> {}]
    /\ rec = [u \in Users |-> NoRec]
    /\ discCall = [r \in DiscCalls |-> DiscIdle]
    /\ model = [until |-> Never]
    /\ local = [p \in Processes |-> NoModel]
    /\ absent = [x \in Users \X Catalog |-> [off |-> Never, unrated |-> Never]]

Mine(u) == {b \in Catalog : copies[<<u, b>>] # Off}
Done(u) == {b \in Catalog : copies[<<u, b>>].status = "completed"}

--------------------------------------------------------------------------------
(* Queries: the answers each may give; books of equal rank in any order *)

\* Fault variant of New: the reader's own books are not left out.
NewOrFinished(u) == Catalog

New(u) == Catalog \ Mine(u)

Ranked(candidates, score, n) ==
    {S \in SUBSET candidates :
        /\ Cardinality(S) = IF Cardinality(candidates) < n THEN Cardinality(candidates) ELSE n
        /\ \A x \in S, y \in candidates \ S : score[x] >= score[y]}

CommunityPopular(u, n) == Ranked({b \in New(u) : PostsOf[b] > 0}, PostsOf, n)

Trending(u, n) == Ranked({b \in New(u) : SessionsOf[b] > 0}, SessionsOf, n)

Readers(vs) == [b \in Catalog |-> Cardinality({v \in vs : b \in Done(v)})]

BooksReadByUsers(vs, u, n) == Ranked({b \in New(u) : Readers(vs)[b] > 0}, Readers(vs), n)

SimilarReaders(u, n) ==
    BooksReadByUsers({v \in Users \ {u} : Cardinality(Done(v) \cap Done(u)) >= MinCommon}, u, n)

RecentlyAdded(u, n) ==
    LET adders == [b \in Catalog |-> Cardinality({v \in Users \ {u} :
                      copies[<<v, b>>] # Off /\ copies[<<v, b>>].at >= now - RecentTicks})]
    IN  Ranked({b \in New(u) : adders[b] >= MinUsers}, adders, n)

\* Larger clubs first.
ClubPicks(u, n) ==
    LET mine == {c \in Circles : u \in c.members}
        size == [b \in Catalog |->
                    Max({Cardinality(c.members) : c \in {x \in mine : x.book = b}} \cup {0})]
    IN  Ranked({b \in New(u) : size[b] > 0}, size, n)

\* A kind of more weight goes before one of less.
BooksByGenreMatch(u, kinds, weight, n) ==
    Ranked({b \in New(u) : Kind[b] \in kinds}, [b \in Catalog |-> weight[Kind[b]]], n)

--------------------------------------------------------------------------------
(* Strategies *)

\* Popular books first, then those of similar readers, then the lately added.
RuleBased(u, n) ==
    UNION {Ranked(p \cup s \cup r,
                  [b \in Catalog |-> IF b \in p THEN 2 ELSE IF b \in s THEN 1 ELSE 0], n) :
           p \in CommunityPopular(u, MixSize), s \in SimilarReaders(u, MixSize),
           r \in RecentlyAdded(u, MixSize)}

ColdStart(u, n) ==
    LET liked == BooksByGenreMatch(u, interests[u], [k \in Kinds |-> 1], n)
    IN  IF liked = {{}} THEN CommunityPopular(u, n) ELSE liked

Dot(a, b) == MapThenSumSet(LAMBDA k : a[k] * b[k], Kinds)

\* A square of cosine_similarity against profile a, as a fraction: the nearer
\* ones go first, and those with nothing in common not at all.
Nearer(a, v, w) ==
    Dot(a, profile[v]) * Dot(a, profile[v]) * Dot(profile[w], profile[w])
        > Dot(a, profile[w]) * Dot(a, profile[w]) * Dot(profile[v], profile[v])

BySimilarReaders(u, n) ==
    LET near == {v \in Users \ {u} : profile[v] # NoProfile /\ Dot(profile[u], profile[v]) > 0}
        first == {v \in near : Cardinality({w \in near : Nearer(profile[u], w, v)}) < Neighbours}
    IN  IF profile[u] = NoProfile THEN ColdStart(u, n) ELSE BooksReadByUsers(first, u, n)

ByTasteMatch(u, n) ==
    IF profile[u] = NoProfile THEN ColdStart(u, n)
    ELSE UNION {BooksByGenreMatch(u, ks, profile[u], n) :
                ks \in Ranked({k \in Kinds : profile[u][k] > 0}, profile[u], TopKinds)}

\* A reader with few finished books is given the cold start instead.
Recommendations(u, strategy, n) ==
    LET served == IF Cardinality(Done(u)) < MinDone /\ strategy # "collaborative"
                  THEN "cold_start" ELSE strategy
    IN  CASE served = "collaborative" -> RuleBased(u, n)
          [] served = "similar_readers" -> BySimilarReaders(u, n)
          [] served = "taste_match" -> ByTasteMatch(u, n)
          [] served = "cold_start" -> ColdStart(u, n)

\* The generator's titles that the catalogue has, or what is read most.
AiPicks(u, n) ==
    IF ~HasEngine \/ Done(u) = {} THEN Trending(u, n)
    ELSE {S \in SUBSET New(u) : S # {} /\ Cardinality(S) <= n} \cup Trending(u, n)

ChannelRecommendations(u, channel, n) ==
    CASE channel = "taste_match" -> ByTasteMatch(u, n)
      [] channel = "trending" -> Trending(u, n)
      [] channel = "club_picks" -> ClubPicks(u, n)
      [] channel = "ai_picks" -> AiPicks(u, n)

--------------------------------------------------------------------------------
(* Shelves, interests and profiles *)

KeepCopy(u, b, status) ==
    /\ copies' = [copies EXCEPT ![<<u, b>>] =
                     [status |-> status, at |-> IF @ = Off THEN now ELSE @.at]]
    /\ absent' = [absent EXCEPT ![<<u, b>>] =
                     [off |-> IF copies[<<u, b>>] = Off THEN now ELSE @.off,
                      unrated |-> IF copies[<<u, b>>].status \in Rated THEN @.unrated ELSE now]]
    /\ UNCHANGED <<now, profile, interests, rec, discCall, model, local>>

DropCopy(u, b) ==
    /\ copies[<<u, b>>] # Off
    /\ copies' = [copies EXCEPT ![<<u, b>>] = Off]
    /\ UNCHANGED <<now, profile, interests, rec, discCall, model, local, absent>>

Compute(r, c) ==
    /\ discCall[r] = DiscIdle
    /\ discCall' = [discCall EXCEPT ![r] = c]
    /\ UNCHANGED <<now, copies, profile, interests, rec, model, local, absent>>

DiscDone(r) ==
    /\ discCall' = [discCall EXCEPT ![r] = DiscIdle]
    /\ UNCHANGED <<now, copies, absent>>

\* replace_all deletes the rows it sees ...
ReplaceAll(r, u, kinds) ==
    Compute(r, [op |-> "replace", user |-> u, kinds |-> kinds, seen |-> interests[u]])

\* ... and adds its own to those another request has added since, unless one is
\* the same.
InterestsSaved(r) ==
    LET u == discCall[r].user
        left == interests[u] \ discCall[r].seen
    IN  /\ discCall[r].op = "replace" /\ left \cap discCall[r].kinds = {}
        /\ interests' = [interests EXCEPT ![u] = left \cup discCall[r].kinds]
        /\ DiscDone(r)
        /\ UNCHANGED <<profile, rec, model, local>>

\* compute_and_upsert counts ...
Recompute(r, u) ==
    Compute(r, [op |-> "recompute", user |-> u,
                vector |-> [k \in Kinds |-> Cardinality({b \in Done(u) : Kind[b] = k})]])

\* ... and writes, over a count that may be newer.
Recomputed(r) ==
    /\ discCall[r].op = "recompute"
    /\ profile' = [profile EXCEPT ![discCall[r].user] = discCall[r].vector]
    /\ DiscDone(r)
    /\ UNCHANGED <<interests, rec, model, local>>

--------------------------------------------------------------------------------
(* Kept answers: one for a reader, whatever strategy and limit asked for it *)

GetRecommendations(r, u, strategy, n) ==
    /\ rec[u].until <= now
    /\ \E books \in Recommendations(u, strategy, n) :
          Compute(r, [op |-> "recommend", user |-> u, books |-> books, at |-> now])

RecKept(r) ==
    LET c == discCall[r] IN
    /\ c.op = "recommend"
    /\ rec' = [rec EXCEPT ![c.user] = [until |-> now + RecLife, books |-> c.books, at |-> c.at]]
    /\ DiscDone(r)
    /\ UNCHANGED <<profile, interests, model, local>>

\* Redis or the request fails.
DiscLost(r) ==
    /\ discCall[r] # DiscIdle
    /\ DiscDone(r)
    /\ UNCHANGED <<profile, interests, rec, model, local>>

--------------------------------------------------------------------------------
(* Item similarities, learnt by a job in each process *)

RatedBy(u) == {b \in Catalog : copies[<<u, b>>].status \in Rated}

Qualifying == {b \in Catalog : Cardinality({u \in Users : b \in RatedBy(u)}) >= MinInteractions}

\* retrain; too little to learn from leaves the models as they are.
Retrain(p) ==
    LET learnt == [books |-> Qualifying, ratings |-> [u \in Users |-> RatedBy(u)], at |-> now] IN
    /\ Cardinality(Qualifying) >= 2
    /\ model' = [until |-> now + ModelLife, learnt |-> learnt]
    /\ local' = [local EXCEPT ![p] = learnt]
    /\ UNCHANGED <<now, copies, profile, interests, rec, discCall, absent>>

\* _load_model: what the process holds, however old.
LoadModel(p) ==
    /\ local[p] = NoModel /\ model.until > now
    /\ local' = [local EXCEPT ![p] = model.learnt]
    /\ UNCHANGED <<now, copies, profile, interests, rec, discCall, model, absent>>

ProcessRestarts(p) ==
    /\ local[p] # NoModel
    /\ local' = [local EXCEPT ![p] = NoModel]
    /\ UNCHANGED <<now, copies, profile, interests, rec, discCall, model, absent>>

\* recommend: books like those the reader had rated, none of which it had; two
\* books are alike when a reader rated both.
Recommend(p, u) ==
    LET m == local[p]
        Alike(b, c) == \E v \in Users : {b, c} \subseteq m.ratings[v]
    IN  IF m = NoModel THEN {}
        ELSE {b \in m.books \ m.ratings[u] : \E c \in m.books \cap m.ratings[u] : Alike(b, c)}

DiscoveryNext ==
    \/ \E u \in Users, b \in Catalog :
          DropCopy(u, b) \/ \E s \in Rated \cup {"paused", "dropped"} : KeepCopy(u, b, s)
    \/ \E r \in DiscCalls, u \in Users :
          \/ \E kinds \in SUBSET Kinds : ReplaceAll(r, u, kinds)
          \/ Recompute(r, u)
          \/ \E s \in Strategies, n \in 1 .. Cardinality(Catalog) : GetRecommendations(r, u, s, n)
    \/ \E r \in DiscCalls : InterestsSaved(r) \/ Recomputed(r) \/ RecKept(r) \/ DiscLost(r)
    \/ \E p \in Processes : Retrain(p) \/ LoadModel(p) \/ ProcessRestarts(p)

--------------------------------------------------------------------------------

DiscoveryTypeOK ==
    /\ \A u \in Users : interests[u] \subseteq Kinds
    /\ \A u \in Users : rec[u] # NoRec => rec[u].books \subseteq Catalog /\ rec[u].at <= now

\* A reader is recommended only what was new to the reader when the answer was
\* worked out, by whatever strategy or fallback, though it be shown from Redis
\* later; and the learnt recommendations only what the reader had not rated when
\* the model was learnt (DiscoveryRepository, cache_response, recommend).
RecommendedWasNew ==
    LET LastOff(u, b) == IF copies[<<u, b>>] = Off THEN now ELSE absent[<<u, b>>].off
        LastUnrated(u, b) == IF copies[<<u, b>>].status \in Rated THEN absent[<<u, b>>].unrated ELSE now
    IN  /\ \A u \in Users : rec[u] # NoRec => \A b \in rec[u].books : LastOff(u, b) >= rec[u].at
        /\ \A p \in Processes, u \in Users : \A b \in Recommend(p, u) :
              LastUnrated(u, b) >= local[p].at

================================================================================
