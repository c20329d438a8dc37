-------------------------------- MODULE WholeClub --------------------------------
(***************************************************************************)
(* A reading club with everything that goes on in it: its members, events   *)
(* and plan, its discussions and its chat (domains/club).  Requests of one   *)
(* part come between those of another; only the membership is read by all.   *)
(***************************************************************************)
EXTENDS ClubDiscussion, ClubChat

wholeVars == <<clubVars, discussion, chat>>

WholeInit == ClubInit /\ DiscussInit /\ ChatInit

WholeNext ==
    \/ ClubNext /\ UNCHANGED <<discussion, chat>>
    \/ DiscussNext /\ UNCHANGED chat
    \/ ChatNext /\ UNCHANGED discussion

WholeSpec == WholeInit /\ [][WholeNext]_wholeVars

\* The rows, sockets, frames and requests in flight of all parts keep their
\* types, whichever parts act in between (domains/club/service.py, ws_router.py).
TypeOK == ClubTypeOK /\ DiscussionTypeOK /\ ChatTypeOK

================================================================================
