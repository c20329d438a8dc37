--------------------------------- MODULE Services ---------------------------------
(***************************************************************************)
(* The services around reading put together: what users share and page       *)
(* through, accounts and what is sent to them, what there is a limited       *)
(* number of, referrals, statistics and recommendations.                     *)
(***************************************************************************)
EXTENDS Lists, Notifications, Limits, Referral, ReadingStats, Discovery

\* The rows, tokens, kept answers and requests in flight of every service keep
\* their types, whichever services act in between (the repositories of the
\* domains social, feed, book, review, auth, subscription, notification, meetup,
\* referral, admin, reading, ai and recommendation).
TypeOK ==
    /\ SocialTypeOK /\ FeedTypeOK /\ LibraryTypeOK
    /\ AccountsTypeOK /\ BillingTypeOK /\ NotificationsTypeOK
    /\ MeetupsTypeOK /\ ReferralTypeOK /\ AdministrationTypeOK
    /\ AssistantTypeOK /\ StatsTypeOK /\ DiscoveryTypeOK

\* What a reader is shown rests on what there is: the statistics, on the records
\* of the sessions, and the recommendations, on the shelf (get_reading_recap,
\* get_advanced_stats, get_achieved_milestones, get_recommendations).
ShownIsGrounded == StatisticsAgree /\ RecommendedWasNew

================================================================================
