-------------------------------- MODULE AIAssistant --------------------------------
(***************************************************************************)
(* What the assistant writes (domains/ai_assistant): prep cards kept in      *)
(* Redis by book and style, one reflection guide per reader and book, topics *)
(* for a club, audio intros; and the log its limits are counted from.  A     *)
(* request stays in its transaction, whose start stamps the log row, while   *)
(* the text is generated.  The texts are left out; the message with a club's *)
(* topics is sent as any other of its owner (ClubChat).  A request's first     *)
(* SELECT stamps it, and the rows are counted later, maybe on another day.    *)
(***************************************************************************)
EXTENDS Billing, Sequences

CONSTANTS
    Volumes,           \* books
    Styles, DefaultStyle,      \* VALID_CARD_STYLES
    Shelved,           \* pairs of a user and a book on the user's shelf
    Owners,            \* users who own a club that has a book
    PrepLimit,         \* PREP_DAILY_LIMIT
    ReflectionLimit,   \* FREE_REFLECTION_MONTHLY_LIMIT
    AudioLimit,        \* AUDIO_INTRO_FREE_DAILY_LIMIT
    Month,             \* ticks of a month
    CardLife,          \* _PREP_CACHE_TTL_SECONDS
    AiCalls            \* requests that may be in flight at a time

ASSUME AiAssumption ==
    /\ {PrepLimit, ReflectionLimit, AudioLimit, Month} \subseteq Nat \ {0}
    /\ DefaultStyle \in Styles /\ CardLife \in Nat
    /\ IsFiniteSet(AiCalls)

VARIABLES
    card,       \* Redis: until when a card is kept
    style,      \* user_ai_preferences
    guides,     \* ai_reflection_guides: pairs of a user and a book
    used,       \* ai_usage_logs: the stamps of a user's rows of a feature
    unpaid,     \* history: those of requests let in as a free user's
    aiCall      \* what each request in flight has loaded

assistant == <<card, style, guides, used, unpaid, aiCall>>

Features == {"prep_card", "reflection", "club_topics", "agenda_topics", "audio_intro"}
AiIdle == [op |-> "idle"]

AssistantInit ==
    /\ card = [x \in Volumes \X Styles |-> Never]
    /\ style = [u \in Users |-> DefaultStyle]
    /\ guides = {}
    /\ used = [x \in Users \X Features |-> <<>>]
    /\ unpaid = used
    /\ aiCall = [r \in AiCalls |-> AiIdle]

TodayStart == now - (now % Day)
MonthStart == now - (now % Month)

\* count_since: the rows stamped at start or later.
CountSince(u, f, start) == Cardinality({n \in DOMAIN used[<<u, f>>] : used[<<u, f>>][n] >= start})

\* The request's first SELECT, and what it reads.
Ask(r, op, f, u, what) ==
    /\ aiCall[r] = AiIdle
    /\ aiCall' = [aiCall EXCEPT ![r] = [op |-> op, feature |-> f, user |-> u, of |-> what, at |-> now,
                                        free |-> ~pro[u].is]]
    /\ UNCHANGED <<now, card, style, guides, used, unpaid>>

\* It is let in: the text is generated.
LetIn(r, f, free) ==
    /\ aiCall[r].op = "begun" /\ aiCall[r].feature = f
    /\ aiCall' = [aiCall EXCEPT ![r].op = "allowed", ![r].free = free]
    /\ UNCHANGED <<now, card, style, guides, used, unpaid>>

\* record, in the transaction that began with the request.
Recorded(r) ==
    LET x == <<aiCall[r].user, aiCall[r].feature>>   t == aiCall[r].at IN
    /\ used' = [used EXCEPT ![x] = Append(@, t)]
    /\ unpaid' = IF aiCall[r].free THEN [unpaid EXCEPT ![x] = Append(@, t)] ELSE unpaid
    /\ aiCall' = [aiCall EXCEPT ![r] = AiIdle]
    /\ UNCHANGED now

--------------------------------------------------------------------------------
(* Prep cards: any reader's, Pro or not, up to the limit *)

GetPrepCard(r, u, b) == Ask(r, "begun", "prep_card", u, <<b, style[u]>>)

PrepAllowed(r) ==
    /\ LetIn(r, "prep_card", aiCall[r].free)
    /\ card[aiCall[r].of] <= now
    /\ CountSince(aiCall[r].user, "prep_card", TodayStart) < PrepLimit

\* The card is kept before the use is committed, unless Redis is down.
PrepGenerated(r) ==
    /\ aiCall[r].op = "allowed" /\ aiCall[r].feature = "prep_card"
    /\ \/ card' = [card EXCEPT ![aiCall[r].of] = now + CardLife]
       \/ card' = card
    /\ aiCall' = [aiCall EXCEPT ![r].op = "kept"]
    /\ UNCHANGED <<now, style, guides, used, unpaid>>

PrepRecorded(r) ==
    /\ aiCall[r].op = "kept"
    /\ Recorded(r)
    /\ UNCHANGED <<card, style, guides>>

\* Another style has its own cards.
SetCardStyle(u, s) ==
    /\ style' = [style EXCEPT ![u] = s]
    /\ UNCHANGED <<now, card, guides, used, unpaid, aiCall>>

--------------------------------------------------------------------------------
(* Audio intros, reflection guides and topics *)

\* is_pro reads the flag: a trial is not Pro here, an expired period still is.
GetAudioIntro(r, u, b) == Ask(r, "begun", "audio_intro", u, b)

AudioAllowed(r) ==
    /\ LetIn(r, "audio_intro", aiCall[r].free)
    /\ aiCall[r].free => CountSince(aiCall[r].user, "audio_intro", TodayStart) < AudioLimit

CreateReflection(r, u, b) == <<u, b>> \in Shelved /\ Ask(r, "begun", "reflection", u, b)

\* A guide that exists is returned; only then is_pro is asked.
ReflectionAllowed(r) ==
    LET u == aiCall[r].user IN
    /\ LetIn(r, "reflection", ~pro[u].is)
    /\ <<u, aiCall[r].of>> \notin guides
    /\ pro[u].is \/ CountSince(u, "reflection", MonthStart) < ReflectionLimit

\* uq_ai_reflections_user_book: the second of two for a book raises.
ReflectionStored(r) ==
    LET guide == <<aiCall[r].user, aiCall[r].of>> IN
    /\ aiCall[r].op = "allowed" /\ aiCall[r].feature = "reflection" /\ guide \notin guides
    /\ guides' = guides \cup {guide}
    /\ Recorded(r)
    /\ UNCHANGED <<card, style>>

GetClubTopics(r, u) ==
    /\ pro[u].is /\ u \in Owners
    /\ Ask(r, "allowed", "club_topics", u, u)

\* Drafts for an agenda's author: counted and never refused.
GenerateAgendaTopicDrafts(r, u, b) == Ask(r, "allowed", "agenda_topics", u, b)

UseRecorded(r) ==
    /\ aiCall[r].op = "allowed" /\ aiCall[r].feature \in {"audio_intro", "club_topics", "agenda_topics"}
    /\ Recorded(r)
    /\ UNCHANGED <<card, style, guides>>

\* What is kept is returned, the limit reached, or the generator, the unique
\* index or the process fails: nothing is recorded.
AiLost(r) ==
    /\ aiCall[r] # AiIdle
    /\ aiCall' = [aiCall EXCEPT ![r] = AiIdle]
    /\ UNCHANGED <<now, card, style, guides, used, unpaid>>

GetUsage(u) ==
    [f \in {"prep_card", "reflection", "club_topics"} |-> CountSince(u, f, MonthStart)]

AssistantNext ==
    \E r \in AiCalls :
        \/ \E u \in Users :
              \/ GetClubTopics(r, u) \/ (\E s \in Styles : SetCardStyle(u, s))
              \/ \E b \in Volumes :
                    \/ GetPrepCard(r, u, b) \/ GetAudioIntro(r, u, b)
                    \/ CreateReflection(r, u, b) \/ GenerateAgendaTopicDrafts(r, u, b)
        \/ PrepAllowed(r) \/ PrepGenerated(r) \/ PrepRecorded(r)
        \/ AudioAllowed(r) \/ ReflectionAllowed(r) \/ ReflectionStored(r)
        \/ UseRecorded(r) \/ AiLost(r)

--------------------------------------------------------------------------------

AssistantTypeOK ==
    /\ guides \subseteq Shelved
    /\ \A u \in Users : style[u] \in Styles
    /\ \A x \in Users \X Features :
          used[x] # <<>> => /\ \A n \in DOMAIN used[x] : used[x][n] <= now
                            /\ Len(unpaid[x]) <= Len(used[x])

\* The limits count rows that are written when the text is there: a day's or a
\* month's limit is exceeded only by requests that overlapped, by fewer than may
\* be in flight, and by those that were begun before midnight and counted after
\* it (get_prep_card, get_audio_intro, create_reflection).
AiOverruns ==
    LET Bounded(log, span, limit) ==
            \A n \in DOMAIN log :
                Cardinality({k \in DOMAIN log : log[k] \div span = log[n] \div span})
                    <= limit + Cardinality(AiCalls) - 1
                       + (IF log[n] \div span < now \div span THEN Cardinality(AiCalls) ELSE 0)
    IN  \A u \in Users :
            /\ Bounded(used[<<u, "prep_card">>], Day, PrepLimit)
            /\ Bounded(unpaid[<<u, "audio_intro">>], Day, AudioLimit)
            /\ Bounded(unpaid[<<u, "reflection">>], Month, ReflectionLimit)

================================================================================
