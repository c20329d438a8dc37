---------------------------------- MODULE Billing ----------------------------------
(***************************************************************************)
(* Paid Pro (domains/subscription, domains/team): three columns of users     *)
(* that purchases, store webhooks, team admins and the status query itself   *)
(* overwrite; single-use coupons; the seats of a team; campaigns.            *)
(* Receipts and signatures are checked outside; the shield gift of a first   *)
(* annual purchase is part of StreakLedger.                                  *)
(***************************************************************************)
EXTENDS Accounts

CONSTANTS
    Coupons,           \* coupon codes
    Teams, Seats,      \* team ids and the seats of a contract
    Periods,           \* lengths of a subscription or contract, in ticks
    Promos,            \* campaigns: records [from, until, active]
    BillingCalls,      \* requests that may be in flight at a time
    NoPromo

ASSUME BillingAssumption ==
    /\ Seats \in Nat \ {0} /\ Periods \subseteq Nat \ {0}
    /\ IsFiniteSet(BillingCalls) /\ BillingCalls # {}

VARIABLES
    pro,        \* users.is_pro and pro_expires_at
    coupon,     \* discount_coupons: used_by
    redeemed,   \* history: the users told that a coupon was theirs
    team,       \* team_subscriptions
    seat,       \* team_members
    bill        \* what each request in flight has loaded

billing == <<pro, coupon, redeemed, team, seat, bill>>

Free == [is |-> FALSE, until |-> Never]
NoTeam == [admin |-> NoUser, until |-> Never]
NoCoupon == [issued |-> FALSE, by |-> NoUser]
BillIdle == [op |-> "idle"]

BillingInit ==
    /\ pro = [u \in Users |-> Free]
    /\ coupon = [k \in Coupons |-> NoCoupon]
    /\ redeemed = [k \in Coupons |-> {}]
    /\ team = [t \in Teams |-> NoTeam]
    /\ seat = {}
    /\ bill = [r \in BillingCalls |-> BillIdle]

Load(r, c) ==
    /\ bill[r] = BillIdle
    /\ bill' = [bill EXCEPT ![r] = c]
    /\ UNCHANGED <<now, pro, coupon, redeemed, team, seat>>

BillDone(r) == bill' = [bill EXCEPT ![r] = BillIdle] /\ UNCHANGED now

\* update_subscription: a blind write of all three columns.
UpdateSubscription(u, is, until) == pro' = [pro EXCEPT ![u] = [is |-> is, until |-> until]]

--------------------------------------------------------------------------------
(* Subscriptions                                                           *)

Expired(p) == p.is /\ p.until # Never /\ p.until < now

\* Only a request that finds an expired period writes.
GetStatus(r, u) ==
    /\ Expired(pro[u])
    /\ Load(r, [op |-> "expire", user |-> u])

\* What it writes does not depend on what is there by now.
StatusExpired(r) ==
    /\ bill[r].op = "expire"
    /\ UpdateSubscription(bill[r].user, FALSE, Never)
    /\ BillDone(r)
    /\ UNCHANGED <<coupon, redeemed, team, seat>>

\* A receipt the store confirms; a lifetime product has no end.
VerifyAndActivate(u, until) ==
    /\ UpdateSubscription(u, TRUE, until)
    /\ UNCHANGED <<now, coupon, redeemed, team, seat, bill>>

WebhookTypes == {"INITIAL_PURCHASE", "RENEWAL", "CANCELLATION", "EXPIRATION"}

\* In whatever order the store delivers them.
ApplyWebhookEvent(type, u, until) ==
    /\ IF type \in {"INITIAL_PURCHASE", "RENEWAL"}
       THEN UpdateSubscription(u, TRUE, until)
       ELSE UpdateSubscription(u, FALSE, Never)
    /\ UNCHANGED <<now, coupon, redeemed, team, seat, bill>>

--------------------------------------------------------------------------------
(* Coupons and campaigns                                                   *)

CreateCoupon(k) ==
    /\ ~coupon[k].issued
    /\ coupon' = [coupon EXCEPT ![k].issued = TRUE]
    /\ UNCHANGED <<now, pro, redeemed, team, seat, bill>>

ApplyCouponUnread(r, u, k) ==
    coupon[k].issued /\ Load(r, [op |-> "coupon", user |-> u, coupon |-> k])

ApplyCoupon(r, u, k) ==
    /\ coupon[k].issued /\ coupon[k].by = NoUser
    /\ Load(r, [op |-> "coupon", user |-> u, coupon |-> k])

\* mark_used writes over whoever was faster.
CouponApplied(r) ==
    /\ bill[r].op = "coupon"
    /\ coupon' = [coupon EXCEPT ![bill[r].coupon].by = bill[r].user]
    /\ redeemed' = [redeemed EXCEPT ![bill[r].coupon] = @ \cup {bill[r].user}]
    /\ BillDone(r)
    /\ UNCHANGED <<pro, team, seat>>

\* The campaign that ends first of those that run.
ActivePromo ==
    LET running == {p \in Promos : p.active /\ p.from <= now /\ p.until > now}
    IN  IF running = {} THEN NoPromo
        ELSE CHOOSE p \in running : \A q \in running : p.until <= q.until

--------------------------------------------------------------------------------
(* Teams                                                                   *)

Roster(t) == {u \in Users : <<t, u>> \in seat}

\* The admin takes the first seat.
CreateTeam(u, t, until) ==
    /\ team[t] = NoTeam
    /\ team' = [team EXCEPT ![t] = [admin |-> u, until |-> until]]
    /\ seat' = seat \cup {<<t, u>>}
    /\ UpdateSubscription(u, TRUE, until)
    /\ UNCHANGED <<now, coupon, redeemed, bill>>

\* The seats are counted before one is taken.
AddMember(r, t, u) ==
    /\ team[t] # NoTeam
    /\ u \notin Roster(t) /\ Cardinality(Roster(t)) < Seats
    /\ Load(r, [op |-> "seat", user |-> u, team |-> t])

\* uq_team_members_team_user lets one of two requests for a user through.
MemberAdded(r) ==
    LET t == bill[r].team   u == bill[r].user IN
    /\ bill[r].op = "seat" /\ u \notin Roster(t)
    /\ seat' = seat \cup {<<t, u>>}
    /\ UpdateSubscription(u, TRUE, team[t].until)
    /\ BillDone(r)
    /\ UNCHANGED <<coupon, redeemed, team>>

\* A request raises or dies before it commits.
BillLost(r) ==
    /\ bill[r] # BillIdle
    /\ BillDone(r)
    /\ UNCHANGED <<pro, coupon, redeemed, team, seat>>

\* Pro goes with the seat, whoever paid for it.
RemoveMember(t, u) ==
    /\ u # team[t].admin /\ u \in Roster(t)
    /\ seat' = seat \ {<<t, u>>}
    /\ UpdateSubscription(u, FALSE, Never)
    /\ UNCHANGED <<now, coupon, redeemed, team, bill>>

--------------------------------------------------------------------------------

SubscriptionNext ==
    \E u \in Users :
        \/ \E r \in BillingCalls : GetStatus(r, u)
        \/ \E until \in {now + n : n \in Periods} \cup {Never} :
              \/ VerifyAndActivate(u, until)
              \/ \E type \in WebhookTypes : ApplyWebhookEvent(type, u, until)

CouponNext ==
    \E k \in Coupons :
        CreateCoupon(k) \/ \E r \in BillingCalls, u \in Users : ApplyCoupon(r, u, k)

TeamNext ==
    \E t \in Teams, u \in Users :
        \/ \E n \in Periods : CreateTeam(u, t, now + n)
        \/ \E r \in BillingCalls : AddMember(r, t, u)
        \/ RemoveMember(t, u)

BillingNext ==
    \/ SubscriptionNext \/ CouponNext \/ TeamNext
    \/ \E r \in BillingCalls :
          StatusExpired(r) \/ CouponApplied(r) \/ MemberAdded(r) \/ BillLost(r)

--------------------------------------------------------------------------------

BillingTypeOK ==
    /\ \A u \in Users : pro[u].is \in BOOLEAN /\ (~pro[u].is => pro[u].until = Never)
    /\ \A k \in Coupons : coupon[k].by \in redeemed[k] \cup {NoUser}
    /\ \A t \in Teams : team[t] # NoTeam => <<t, team[t].admin>> \in seat

\* A coupon's discount and a team's last seat are given away twice only to
\* requests that overlapped: not more often than requests may be in flight, and
\* in the end one user stands as the coupon's (apply_coupon, add_member).
BillingOverruns ==
    /\ \A k \in Coupons : redeemed[k] # {} =>
          Cardinality(redeemed[k]) + Cardinality({r \in BillingCalls :
              bill[r].op = "coupon" /\ bill[r].coupon = k}) <= Cardinality(BillingCalls)
    /\ \A t \in Teams :
          Cardinality(Roster(t)) + Cardinality({r \in BillingCalls :
              bill[r].op = "seat" /\ bill[r].team = t /\ bill[r].user \notin Roster(t)})
              <= Seats + Cardinality(BillingCalls) - 1

================================================================================
