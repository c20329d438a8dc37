----------------------------- MODULE ReadingRecord -----------------------------
(***************************************************************************)
(* What the reading-session requests promise, without transactions, locks   *)
(* or statements: each request takes effect at one moment.  A completion    *)
(* ends the session, adds to the bucket of its day and queues its events in *)
(* a single step, at most once per request; events are then heard one by    *)
(* one in the order they were queued, until a crash drops the rest.         *)
(* ReadingCompletion implements it.                                         *)
(***************************************************************************)
EXTENDS Naturals, Sequences

CONSTANTS
    Users, Sessions, Requests, Dates, None,
    Durations,      \* seconds a completion may be credited with
    ManualLengths,  \* seconds a hand-logged session may last
    Ranks           \* grades

VARIABLES
    session,    \* the sessions
    daily,      \* the buckets of the heatmap
    completed,  \* requests that have completed a session
    queue,      \* events of each request not yet heard
    heard       \* events of each request the subscribers have heard

record == <<session, daily, completed, queue, heard>>

Free == [owner |-> None, state |-> "free", source |-> "timer", seconds |-> 0]

RecordInit ==
    /\ session = [s \in Sessions |-> Free]
    /\ daily = [u \in Users |-> [d \in Dates |-> [seconds |-> 0, count |-> 0]]]
    /\ completed = {}
    /\ queue = [r \in Requests |-> <<>>]
    /\ heard = [r \in Requests |-> <<>>]

Running(u) == {s \in Sessions : session[s].owner = u /\ session[s].state = "active"}

Start(u, s) ==
    /\ Running(u) = {}
    /\ session[s] = Free
    /\ session' = [session EXCEPT ![s].owner = u, ![s].state = "active"]
    /\ UNCHANGED <<daily, completed, queue, heard>>

LogByHand(u, s, n) ==
    /\ session[s] = Free
    /\ session' = [session EXCEPT ![s] = [owner |-> u, state |-> "ended",
                                          source |-> "manual", seconds |-> n]]
    /\ UNCHANGED <<daily, completed, queue, heard>>

\* A completion is announced, and after it the change of grade, if there is one.
Announcements(u, s, d, n) ==
    LET ended == [type |-> "ReadingSessionCompleted", user |-> u, sid |-> s,
                  date |-> d, seconds |-> n]
    IN  {<<ended>>} \cup
        {<<ended, [type |-> "UserGradeRecomputed", user |-> u, old |-> a, new |-> b]>> :
            a, b \in Ranks}

\* A session that has ended may be completed once more by a request that saw
\* it running.
Complete(r, u, s, d, n) ==
    /\ r \notin completed
    /\ session[s].owner = u
    /\ session[s].state # "free"
    /\ session' = [session EXCEPT ![s].state = "ended", ![s].seconds = n]
    /\ daily' = [daily EXCEPT ![u][d] = [seconds |-> @.seconds + n, count |-> @.count + 1]]
    /\ completed' = completed \cup {r}
    /\ \E es \in Announcements(u, s, d, n) : queue' = [queue EXCEPT ![r] = es]
    /\ UNCHANGED heard

Announce(r) ==
    /\ queue[r] # <<>>
    /\ heard' = [heard EXCEPT ![r] = Append(@, Head(queue[r]))]
    /\ queue' = [queue EXCEPT ![r] = Tail(@)]
    /\ UNCHANGED <<session, daily, completed>>

Forget ==
    /\ queue' = [r \in Requests |-> <<>>]
    /\ UNCHANGED <<session, daily, completed, heard>>

RecordNext ==
    \/ \E u \in Users, s \in Sessions : Start(u, s)
    \/ \E u \in Users, s \in Sessions, n \in ManualLengths : LogByHand(u, s, n)
    \/ \E r \in Requests, u \in Users, s \in Sessions, d \in Dates, n \in Durations :
           Complete(r, u, s, d, n)
    \/ \E r \in Requests : Announce(r)
    \/ Forget

RecordSpec == RecordInit /\ [][RecordNext]_record

================================================================================
