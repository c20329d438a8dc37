---------------------------------- MODULE Referral ----------------------------------
(***************************************************************************)
(* Invitations (domains/referral).  A code is made when it is first asked    *)
(* for; a code can only be sent by somebody it was told to.  A request        *)
(* answers before it commits (core/db.py), so a code is told while it is      *)
(* still nobody's.  Whether a referee has a row is asked before one is        *)
(* inserted, and no constraint says it again.                                *)
(***************************************************************************)
EXTENDS ServiceClock

CONSTANTS
    Codes,
    NoCode,
    ReferralCalls      \* requests that may be in flight at a time

VARIABLES
    ownCode,       \* users.referral_code
    referral,      \* referrals: referrer and referee, how many rows, completed
    refCall,       \* what each request in flight has found
    told,          \* history: the codes users were answered
    applied,       \* history: referees whose applications overlapped
    redrawn        \* history: users for whom two requests in flight found no code

referrals == <<ownCode, referral, refCall, told, applied, redrawn>>

ReferralIdle == [op |-> "idle"]

ReferralInit ==
    /\ ownCode = [u \in Users |-> NoCode]
    /\ referral = {} /\ told = {} /\ applied = {} /\ redrawn = {}
    /\ refCall = [r \in ReferralCalls |-> ReferralIdle]

RefDone(r) == refCall' = [refCall EXCEPT ![r] = ReferralIdle]

\* u's requests in flight that read no code of u's.
Uncoded(u) == {r \in ReferralCalls : /\ refCall[r] # ReferralIdle
                                     /\ refCall[r].user = u /\ refCall[r].found = NoCode}

\* A request begins with get_or_create_code's SELECT; own is the code it takes
\* for its user's.
RefLoad(r, op, u, c) ==
    /\ refCall[r] = ReferralIdle
    /\ refCall' = [refCall EXCEPT ![r] = [op |-> op, user |-> u, code |-> c, referrer |-> NoUser,
                                          found |-> ownCode[u], own |-> ownCode[u]]]
    /\ redrawn' = IF ownCode[u] = NoCode /\ Uncoded(u) # {} THEN redrawn \cup {u} ELSE redrawn
    /\ UNCHANGED <<now, ownCode, referral, told>>

\* The request has written a code for its user and not committed it: it holds
\* the row.
Written(r) == /\ refCall[r] # ReferralIdle
              /\ refCall[r].found = NoCode /\ refCall[r].own # NoCode

\* A code somebody has, or is being given.
Taken(c) == \/ \E u \in Users : ownCode[u] = c
            \/ \E r \in ReferralCalls : Written(r) /\ refCall[r].own = c

\* A transaction that has written u's code holds its row: others wait.
Writing(u) == \E r \in ReferralCalls : Written(r) /\ refCall[r].user = u

GetMyReferral(r, u) ==
    IF ownCode[u] = NoCode THEN RefLoad(r, "code", u, NoCode) /\ UNCHANGED applied
    ELSE told' = told \cup {<<u, ownCode[u]>>} /\ UNCHANGED <<now, ownCode, referral, refCall, applied, redrawn>>

\* Whoever found no code writes one, whatever stands there by then; one that
\* another user has is drawn again (uq_users_referral_code).
CodeDrawn(r, c) ==
    LET u == refCall[r].user IN
    /\ refCall[r].op \in {"code", "applying"} /\ refCall[r].own = NoCode
    /\ ~Taken(c) /\ ~Writing(u)
    /\ refCall' = [refCall EXCEPT ![r].own = c]
    /\ told' = IF refCall[r].op = "code" THEN told \cup {<<u, c>>} ELSE told
    /\ UNCHANGED <<now, ownCode, referral, applied, redrawn>>

\* users.referral_code once the request has committed.
CodeCommitted(r) ==
    ownCode' = IF Written(r) THEN [ownCode EXCEPT ![refCall[r].user] = refCall[r].own] ELSE ownCode

CodeGiven(r) ==
    /\ refCall[r].op = "code" /\ Written(r)
    /\ CodeCommitted(r) /\ RefDone(r)
    /\ UNCHANGED <<now, referral, told, applied, redrawn>>

ReferredBy(u) == {x \in referral : x.referee = u}

\* A user applies a code that somebody was told.
ApplyReferral(r, u, c) ==
    /\ \E v \in Users : <<v, c>> \in told
    /\ RefLoad(r, "applying", u, c)
    /\ applied' = IF \E q \in ReferralCalls \ {r} :
                         refCall[q].op \in {"applying", "found", "apply"} /\ refCall[q].user = u
                  THEN applied \cup {u} ELSE applied

OwnCodeUnread(own, c) == TRUE
Foreign(own, c) == own # c

\* Who has the code now, as the request's SELECT sees it.
Owner(r) == {v \in Users : (IF v = refCall[r].user /\ Written(r) THEN refCall[r].own ELSE ownCode[v])
                           = refCall[r].code}

ReferrerFound(r) ==
    /\ refCall[r].op = "applying" /\ refCall[r].own # NoCode
    /\ Foreign(refCall[r].own, refCall[r].code)
    /\ \E v \in Owner(r) : refCall' = [refCall EXCEPT ![r].op = "found", ![r].referrer = v]
    /\ UNCHANGED <<now, ownCode, referral, told, applied, redrawn>>

RefereeFree(r) ==
    /\ refCall[r].op = "found" /\ ReferredBy(refCall[r].user) = {}
    /\ refCall' = [refCall EXCEPT ![r].op = "apply"]
    /\ UNCHANGED <<now, ownCode, referral, told, applied, redrawn>>

\* A referee that has a row is answered, and only its code is committed; the
\* SELECT fails on one that has two.
AlreadyReferred(r) ==
    /\ refCall[r].op = "found" /\ Cardinality(ReferredBy(refCall[r].user)) = 1
    /\ CodeCommitted(r) /\ RefDone(r)
    /\ UNCHANGED <<now, referral, told, applied, redrawn>>

ReferralApplied(r) ==
    LET u == refCall[r].user IN
    /\ refCall[r].op = "apply"
    /\ referral' = referral \cup {[row |-> Cardinality(ReferredBy(u)), referee |-> u,
                                   referrer |-> refCall[r].referrer, completed |-> Never]}
    /\ CodeCommitted(r) /\ RefDone(r)
    /\ UNCHANGED <<now, told, applied, redrawn>>

\* The code is one's own or nobody's, or the request fails or is lost.
ReferralLost(r) ==
    /\ refCall[r] # ReferralIdle
    /\ RefDone(r)
    /\ UNCHANGED <<now, ownCode, referral, told, applied, redrawn>>

\* A timer session of a minute or more has ended, in its transaction: every
\* open row of the reader is stamped.
CompleteReferralIfEligible(u, duration) ==
    /\ duration >= 60
    /\ referral' = {IF x.referee = u /\ x.completed = Never THEN [x EXCEPT !.completed = now]
                    ELSE x : x \in referral}
    /\ UNCHANGED <<now, ownCode, refCall, told, applied, redrawn>>

Invited(u) == {x \in referral : x.referrer = u}
Converted(u) == {x \in Invited(u) : x.completed # Never}

ReferralNext ==
    \/ \E r \in ReferralCalls, u \in Users :
          GetMyReferral(r, u) \/ \E c \in Codes : ApplyReferral(r, u, c)
    \/ \E r \in ReferralCalls :
          \/ CodeGiven(r) \/ ReferrerFound(r) \/ RefereeFree(r) \/ AlreadyReferred(r)
          \/ ReferralApplied(r) \/ ReferralLost(r)
          \/ \E c \in Codes : CodeDrawn(r, c)
    \/ \E u \in Users, duration \in {59, 60} : CompleteReferralIfEligible(u, duration)

ReferralTypeOK ==
    /\ \A u, v \in Users : (ownCode[u] = ownCode[v] /\ ownCode[u] # NoCode) => u = v
    /\ \A x \in referral : x.referee \in Users /\ x.referrer \in Users /\ x.completed \in Stamps

\* Nobody is their own referrer, unless two requests of theirs were in flight
\* together that found no code, and nobody has two referrers unless two of their
\* applications were (ReferralService.apply_referral, "a user may apply at most
\* one referral code (idempotent).  Applying your own code is rejected").
OneForeignReferrer ==
    \A u \in Users :
        /\ (\E x \in ReferredBy(u) : x.referrer = u) => u \in redrawn
        /\ Cardinality(ReferredBy(u)) > 1 => u \in applied

================================================================================
