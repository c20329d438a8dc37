---------------------------------- MODULE Meetups ----------------------------------
(***************************************************************************)
(* Meetups (domains/event): one queue per meetup serves both as the list of  *)
(* those who come and as the waiting list.  A place is confirmed by counting *)
(* the queue after one's own row is in it, in a transaction that does not    *)
(* see the rows of others still in flight.                                   *)
(***************************************************************************)
EXTENDS ServiceClock

CONSTANTS
    Meetups,
    MeetupCalls,       \* requests that may be in flight at a time
    Places,            \* capacities a meetup may have, without limit included
    NoLimit

ASSUME MeetupAssumption ==
    /\ Places \subseteq (Nat \ {0}) \cup {NoLimit} /\ NoLimit \notin Nat
    /\ IsFiniteSet(MeetupCalls)

VARIABLES
    meetup,        \* events
    waitlist,      \* event_waitlist: a meetup and a user
    meetReview,    \* event_reviews: a meetup and a user
    meetCall,      \* what each request in flight has found
    confirmed      \* history: those in the queue who were told they have a place

meetups == <<meetup, waitlist, meetReview, meetCall, confirmed>>

NoMeetup == [life |-> "unused", creator |-> NoUser, at |-> 0, places |-> NoLimit]
MeetupIdle == [op |-> "idle"]

MeetupsInit ==
    /\ meetup = [m \in Meetups |-> NoMeetup]
    /\ waitlist = {} /\ meetReview = {} /\ confirmed = {}
    /\ meetCall = [r \in MeetupCalls |-> MeetupIdle]

Upcoming == {m \in Meetups : meetup[m].life = "live"}
Queue(m) == {u \in Users : <<m, u>> \in waitlist}
Confirmed(m) == {u \in Users : <<m, u>> \in confirmed}

MeetLoad(r, c) ==
    /\ meetCall[r] = MeetupIdle
    /\ meetCall' = [meetCall EXCEPT ![r] = c]

MeetDone(r) == meetCall' = [meetCall EXCEPT ![r] = MeetupIdle]

CreateMeetup(u, m, at, places) ==
    /\ meetup[m] = NoMeetup
    /\ meetup' = [meetup EXCEPT ![m] = [life |-> "live", creator |-> u, at |-> at, places |-> places]]
    /\ UNCHANGED <<now, waitlist, meetReview, meetCall, confirmed>>

\* The rows of the queue stay; nobody is told.
CancelMeetup(u, m) ==
    /\ m \in Upcoming /\ meetup[m].creator = u
    /\ meetup' = [meetup EXCEPT ![m].life = "gone"]
    /\ UNCHANGED <<now, waitlist, meetReview, meetCall, confirmed>>

Within(m, position) == meetup[m].places = NoLimit \/ position <= meetup[m].places

\* The row is inserted, then the queue is counted as the request sees it: what
\* is committed, and its own row.
JoinWaitlist(r, u, m) ==
    /\ m \in Upcoming /\ u \notin Queue(m)
    /\ MeetLoad(r, [op |-> "join", user |-> u, meetup |-> m,
                    confirmed |-> Within(m, Cardinality(Queue(m)) + 1)])
    /\ UNCHANGED <<now, meetup, waitlist, meetReview, confirmed>>

\* uq_event_waitlist_event_user lets one of two requests of a user through.
Joined(r) ==
    LET m == meetCall[r].meetup   u == meetCall[r].user IN
    /\ meetCall[r].op = "join" /\ u \notin Queue(m)
    /\ waitlist' = waitlist \cup {<<m, u>>}
    /\ confirmed' = IF meetCall[r].confirmed THEN confirmed \cup {<<m, u>>} ELSE confirmed
    /\ MeetDone(r)
    /\ UNCHANGED <<now, meetup, meetReview>>

\* A place that frees is offered to nobody.
LeaveWaitlist(u, m) ==
    /\ m \in Upcoming /\ u \in Queue(m)
    /\ waitlist' = waitlist \ {<<m, u>>}
    /\ confirmed' = confirmed \ {<<m, u>>}
    /\ UNCHANGED <<now, meetup, meetReview, meetCall>>

\* After the meetup, once, by anyone.
ReviewMeetup(r, u, m) ==
    /\ m \in Upcoming /\ meetup[m].at < now
    /\ <<m, u>> \notin meetReview
    /\ MeetLoad(r, [op |-> "review", user |-> u, meetup |-> m])
    /\ UNCHANGED <<now, meetup, waitlist, meetReview, confirmed>>

MeetupReviewed(r) ==
    LET row == <<meetCall[r].meetup, meetCall[r].user>> IN
    /\ meetCall[r].op = "review" /\ row \notin meetReview
    /\ meetReview' = meetReview \cup {row}
    /\ MeetDone(r)
    /\ UNCHANGED <<now, meetup, waitlist, confirmed>>

\* A duplicate row, or the request dies.
MeetupLost(r) ==
    /\ meetCall[r] # MeetupIdle
    /\ MeetDone(r)
    /\ UNCHANGED <<now, meetup, waitlist, meetReview, confirmed>>

\* Public ones within the circle, nearest first, a page of them at a time.
Nearby(distance, radius, page, size) ==
    LET within == {m \in Upcoming : distance[m] <= radius}
        Before(m) == Cardinality({n \in within : distance[n] < distance[m]})
    IN  {m \in within : Before(m) \in (page - 1) * size .. page * size - 1}

MeetupsNext ==
    \/ \E u \in Users, m \in Meetups :
          \/ \E at \in Times, places \in Places : CreateMeetup(u, m, at, places)
          \/ CancelMeetup(u, m) \/ LeaveWaitlist(u, m)
          \/ \E r \in MeetupCalls : JoinWaitlist(r, u, m) \/ ReviewMeetup(r, u, m)
    \/ \E r \in MeetupCalls : Joined(r) \/ MeetupReviewed(r) \/ MeetupLost(r)

MeetupsTypeOK ==
    /\ \A m \in Meetups : meetup[m].life \in {"unused", "live", "gone"} /\ meetup[m].at \in Times
    /\ waitlist \cup meetReview \subseteq Meetups \X Users
    /\ confirmed \subseteq waitlist

\* More users in the queue than there are places believe they have one only
\* through joins that overlapped: the excess is less than the number of requests
\* that may be in flight (EventService.join_waitlist).
MeetupOverruns ==
    \A m \in Meetups : meetup[m].places # NoLimit =>
        Cardinality(Confirmed(m)) + Cardinality({r \in MeetupCalls :
            meetCall[r].op = "join" /\ meetCall[r].meetup = m
            /\ meetCall[r].confirmed /\ meetCall[r].user \notin Queue(m)})
            <= meetup[m].places + Cardinality(MeetupCalls) - 1

================================================================================
