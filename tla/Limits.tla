--------------------------------- MODULE Limits ---------------------------------
(***************************************************************************)
(* What there is a limited number of, in the services around reading: an    *)
(* administrator's flag that is the last, a coupon, a team's seats, the     *)
(* places of a meetup and the assistant's uses.  Each is counted by the     *)
(* request that takes it, and no constraint of a table repeats the count.   *)
(***************************************************************************)
EXTENDS Administration, Meetups, AIAssistant

\* Sign-ins of every kind, which leave the flags alone.
SignIns ==
    \/ \E r \in LoginCalls :
          \/ \E c \in Clients, i \in Identities : Login(r, c, i)
          \/ LoggedIn(r) \/ LoginRefused(r)
          \/ \E u \in Users : SignedUp(r, u)
    \/ \E c \in Clients : Refresh(c) \/ \E t \in DeviceTokens : RegisterDevice(c, t)

LimitVars == <<now, accounts, administration, billing, meetups, assistant>>

LimitsInit ==
    ClockInit /\ AccountsInit /\ AdministrationInit /\ BillingInit /\ MeetupsInit /\ AssistantInit

LimitsNext ==
    \/ (AdministrationNext \/ (SignIns /\ UNCHANGED administration)) /\ UNCHANGED <<billing, meetups, assistant>>
    \/ BillingNext /\ UNCHANGED <<accounts, administration, meetups, assistant>>
    \/ MeetupsNext /\ UNCHANGED <<accounts, administration, billing, assistant>>
    \/ AssistantNext /\ UNCHANGED <<accounts, administration, billing, meetups>>
    \/ Tick /\ UNCHANGED <<accounts, administration, billing, meetups, assistant>>

LimitsSpec == LimitsInit /\ [][LimitsNext]_LimitVars

\* What there is a limited number of, a coupon, a team's seat, a place at a
\* meetup, a use of the assistant, is given away too often only to requests that
\* overlapped, and less often than requests may be in flight; so is the last
\* administrator's flag (apply_coupon, add_member, join_waitlist, get_prep_card,
\* create_reflection, patch_user).
OnlyOverlapOverruns == BillingOverruns /\ MeetupOverruns /\ LastAdminStays /\ AiOverruns

================================================================================
