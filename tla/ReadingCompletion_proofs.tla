------------------------ MODULE ReadingCompletion_proofs ------------------------
(***************************************************************************)
(* Proofs about ReadingCompletion, for every number of users, sessions and *)
(* requests and every bound on crashes.  Type correctness comes first, then *)
(* one inductive invariant per safety property.                            *)
(***************************************************************************)
EXTENDS ReadingCompletion, GradeSnapshot_proofs, FiniteSetTheorems

\* A reconciled duration is a natural number of seconds and never exceeds the
\* time that passed, whatever the client says about pauses.
LEMMA DurationType ==
    ASSUME NEW e \in Int, NEW p \in Nat
    PROVE  /\ ReconcileDuration(e, p) \in Nat
           /\ MsPerSecond * ReconcileDuration(e, p) <= Larger(0, e)
<1> DEFINE ms == Larger(0, Smaller(e, e - p))
<1>1. ms \in Nat /\ ms <= Larger(0, e)
    BY DEF Larger, Smaller
<1>2. Larger(0, e) \in Int
    BY DEF Larger
<1> HIDE DEF ms
<1>3. ms \div 1000 \in Nat /\ 1000 * (ms \div 1000) <= ms
    BY <1>1
<1>4. QED
    BY <1>1, <1>2, <1>3 DEF ReconcileDuration, MsPerSecond, ms

\* The events of a completion are a sequence of events.
LEMMA StagedType ==
    ASSUME NEW q \in RequestParams, NEW old \in GradeRows, NEW new \in GradeRows
    PROVE  StagedEvents(q, old, new) \in Seq(Events)
<1> DEFINE completed == [type |-> "ReadingSessionCompleted", user |-> q.user,
                         sid |-> q.sid, date |-> q.date, seconds |-> q.seconds]
           recomputed == [type |-> "UserGradeRecomputed", user |-> q.user,
                          old |-> old.rank, new |-> new.rank]
<1>1. completed \in Events
    BY DEF RequestParams, Events
<1>2. recomputed \in Events
    BY DEF RequestParams, GradeRows, Events
<1> HIDE DEF completed, recomputed
<1>3. <<completed>> \in Seq(Events) /\ <<completed, recomputed>> \in Seq(Events)
    BY <1>1, <1>2
<1>4. QED
    BY <1>3 DEF StagedEvents, completed, recomputed

--------------------------------------------------------------------------------
(* Type correctness.                                                       *)

\* Past its checks, a completion has a user, a session row and a date.
InCompletion(r) == pc[r] \in {"loaded", "ended", "read", "counted", "written"}

ActsForUser ==
    \A r \in Requests : InCompletion(r) => /\ req[r].user \in Users
                                           /\ req[r].sid \in Sessions
                                           /\ req[r].date \in Dates

LEMMA TypeInit == Init => TypeOK
<1>1. NoRow \in SessionRows /\ NoBucket \in Buckets /\ NoRequest \in RequestParams
    BY DEF NoRow, SessionRows, NoBucket, Buckets, NoRequest, RequestParams, NoDate
<1>2. 0 \in 0 .. MaxCrashes
    BY CompletionAssumption
<1>3. QED
    BY <1>1, <1>2, FreshGradeType DEF Init, TypeOK, Outcomes

\* The three ways a request begins.
LEMMA TypeBegin ==
    ASSUME TypeOK, NEW r \in Requests, Begin(r)
    PROVE  TypeOK'
<1>1. PICK u \in Users :
          \/ BeginStart(r, u)
          \/ \E s \in Sessions, n \in ManualSeconds : LogManualSession(r, u, s, n)
          \/ \E s \in Sessions, d \in Dates, e \in Elapsed, p \in Pauses :
                 BeginEnd(r, u, s, d, e, p)
    BY DEF Begin
<1>2. CASE BeginStart(r, u)
    <2>1. [NoRequest EXCEPT !.op = "start", !.user = u] \in RequestParams
        BY DEF NoRequest, RequestParams, NoDate
    <2>2. QED
        BY <1>2, <2>1 DEF BeginStart, TypeOK, tables, bus, InTransaction
<1>3. ASSUME NEW s \in Sessions, NEW n \in ManualSeconds, LogManualSession(r, u, s, n)
      PROVE  TypeOK'
    <2>1. [owner |-> u, state |-> "ended", source |-> "manual", seconds |-> n]
              \in SessionRows
        BY CompletionAssumption DEF SessionRows
    <2>2. QED
        BY <1>3, <2>1 DEF LogManualSession, TypeOK, bus, Outcomes
<1>4. ASSUME NEW s \in Sessions, NEW d \in Dates, NEW e \in Elapsed,
             NEW p \in Pauses, BeginEnd(r, u, s, d, e, p)
      PROVE  TypeOK'
    <2>1. ReconcileDuration(e, p) \in Nat /\ d \in Nat
        BY CompletionAssumption, DurationType
    <2>2. [op |-> "end", user |-> u, sid |-> s, date |-> d,
           seconds |-> ReconcileDuration(e, p)] \in RequestParams
        BY <2>1 DEF RequestParams
    <2>3. QED
        BY <1>4, <2>2 DEF BeginEnd, TypeOK, tables, bus, InTransaction
<1>5. QED
    BY <1>1, <1>2, <1>3, <1>4

\* The statements of a transaction under way.
LEMMA TypeProceed ==
    ASSUME TypeOK, ActsForUser, NEW r \in Requests, Proceed(r)
    PROVE  TypeOK'
<1>1. ASSUME NEW s \in Sessions, InsertStarted(r, s) PROVE TypeOK'
    <2>1. [req[r] EXCEPT !.sid = s] \in RequestParams
        BY ZenonT(40) DEF TypeOK, RequestParams
    <2>2. QED
        BY <1>1, <2>1 DEF InsertStarted, TypeOK, tables, bus, InTransaction
<1>2. CASE InsertRefused(r)
    BY <1>2 DEF InsertRefused, TypeOK, tables, bus, Outcomes
<1>3. CASE CommitStart(r)
    <2>1. req[r].user \in Users \cup {None}
        BY DEF TypeOK, RequestParams
    <2>2. [NoRow EXCEPT !.owner = req[r].user, !.state = "active"] \in SessionRows
        BY <2>1 DEF NoRow, SessionRows
    <2>3. QED
        BY <1>3, <2>2 DEF CommitStart, TypeOK, bus, Outcomes
<1>4. CASE EndSessionRow(r)
    BY <1>4 DEF EndSessionRow, TypeOK, tables, bus, InTransaction
<1>5. CASE ReadGrade(r)
    <2>1. grade[req[r].user] \in GradeRows
        BY <1>5 DEF ReadGrade, TypeOK, ActsForUser, InCompletion
    <2>2. QED
        BY <1>5, <2>1 DEF ReadGrade, TypeOK, tables, bus, InTransaction
<1>6. CASE UpsertDaily(r)
    <2> DEFINE b == daily[req[r].user][req[r].date]
    <2>1. b \in Buckets /\ req[r].seconds \in Nat
        BY <1>6 DEF UpsertDaily, TypeOK, RequestParams, ActsForUser, InCompletion
    <2>2. [seconds |-> b.seconds + req[r].seconds, count |-> b.count + 1] \in Buckets
        BY <2>1 DEF Buckets
    <2>3. QED
        BY <1>6, <2>2 DEF UpsertDaily, TypeOK, tables, bus, InTransaction
<1>7. ASSUME NEW n \in BookCounts, WriteGrade(r, n) PROVE TypeOK'
    <2> DEFINE new == CompletedRow(snap[r], req[r].seconds, req[r].date, n)
    <2>1. /\ snap[r] \in GradeRows /\ req[r] \in RequestParams
          /\ req[r].seconds \in Nat /\ req[r].date \in Nat /\ n \in Nat
        BY CompletionAssumption DEF TypeOK, RequestParams
    <2>2. new \in GradeRows
        BY <2>1, CompletedRowType
    <2> HIDE DEF new
    <2>3. StagedEvents(req[r], snap[r], new) \in Seq(Events)
        BY <2>1, <2>2, StagedType
    <2>4. /\ draft' = [draft EXCEPT ![r] = new]
          /\ outbox' = [outbox EXCEPT ![r] = StagedEvents(req[r], snap[r], new)]
        BY <1>7 DEF WriteGrade, new
    <2>5. QED
        BY <1>7, <2>2, <2>3, <2>4 DEF WriteGrade, TypeOK, tables, InTransaction
<1>8. CASE CommitEnd(r)
    <2> DEFINE q == req[r]
    <2>1. q.user \in Users /\ q.sid \in Sessions /\ q.date \in Dates /\ q.seconds \in Nat
        BY <1>8 DEF CommitEnd, TypeOK, RequestParams, ActsForUser, InCompletion
    <2> HIDE DEF q
    <2>2. session' \in [Sessions -> SessionRows]
        <3>1. [session[q.sid] EXCEPT !.state = "ended", !.seconds = q.seconds]
                  \in SessionRows
            BY <2>1, ZenonT(40) DEF TypeOK, SessionRows
        <3>2. session' = [session EXCEPT ![q.sid] =
                  [session[q.sid] EXCEPT !.state = "ended", !.seconds = q.seconds]]
            BY <1>8, <2>1 DEF CommitEnd, TypeOK, SessionRows, q
        <3>3. QED
            BY <2>1, <3>1, <3>2 DEF TypeOK
    <2>3. daily' \in [Users -> [Dates -> Buckets]]
        BY <1>8, <2>1 DEF CommitEnd, TypeOK, q
    <2>4. grade' \in [Users -> GradeRows]
        <3>1. MergeColumns(grade[q.user], snap[r], draft[r]) \in GradeRows
            BY <2>1, MergeType DEF TypeOK
        <3>2. grade' = [grade EXCEPT ![q.user] =
                           MergeColumns(grade[q.user], snap[r], draft[r])]
            BY <1>8 DEF CommitEnd, q
        <3>3. QED
            BY <2>1, <3>1, <3>2 DEF TypeOK
    <2>5. posts' \in [Users -> [StreakMilestones -> Nat]]
        <3>1. PICK n : n = draft[r].streak
            OBVIOUS
        <3>2. \/ posts' = posts
              \/ n \in StreakMilestones /\ posts' = [posts EXCEPT ![q.user][n] = @ + 1]
            BY <1>8, <3>1 DEF CommitEnd, q
        <3>3. posts \in [Users -> [StreakMilestones -> Nat]]
            BY DEF TypeOK
        <3>4. QED
            BY <2>1, <3>2, <3>3
    <2>6. credited' \in [Users -> Nat]
        BY <1>8, <2>1 DEF CommitEnd, TypeOK, q
    <2>7. QED
        <3>1. /\ task' = [task EXCEPT ![r] = outbox[r]]
              /\ outbox' = [outbox EXCEPT ![r] = <<>>]
              /\ pc' = [pc EXCEPT ![r] = "committed"]
              /\ UNCHANGED <<req, snap, draft, bucket, delivered, crashes>>
            BY <1>8 DEF CommitEnd
        <3>2. QED
            BY <2>2, <2>3, <2>4, <2>5, <2>6, <3>1 DEF TypeOK, Outcomes
<1>9. QED
    BY <1>1, <1>2, <1>3, <1>4, <1>5, <1>6, <1>7, <1>8 DEF Proceed

LEMMA TypeNext == TypeOK /\ ActsForUser /\ [Next]_vars => TypeOK'
<1> SUFFICES ASSUME TypeOK, ActsForUser, [Next]_vars PROVE TypeOK'
    OBVIOUS
<1>1. ASSUME NEW r \in Requests, Rollback(r) PROVE TypeOK'
    BY <1>1 DEF Rollback, TypeOK, tables, Outcomes
<1>2. ASSUME NEW r \in Requests, Deliver(r) PROVE TypeOK'
    <2>1. /\ task[r] \in Seq(Events) /\ task[r] # <<>> /\ delivered[r] \in Seq(Events)
        BY <1>2 DEF Deliver, TypeOK
    <2>2. /\ Tail(task[r]) \in Seq(Events)
          /\ Append(delivered[r], Head(task[r])) \in Seq(Events)
        BY <2>1
    <2>3. QED
        BY <1>2, <2>2 DEF Deliver, TypeOK, tables
<1>3. CASE Crash
    BY <1>3, CompletionAssumption DEF Crash, TypeOK, tables, Outcomes, InTransaction
<1>4. CASE UNCHANGED vars
    BY <1>4 DEF vars, TypeOK
<1>5. QED
    BY <1>1, <1>2, <1>3, <1>4, TypeBegin, TypeProceed DEF Next

LEMMA ActsNext == TypeOK /\ ActsForUser /\ [Next]_vars => ActsForUser'
<1> SUFFICES ASSUME TypeOK, ActsForUser, [Next]_vars,
                    NEW q \in Requests, InCompletion(q)'
             PROVE  (req[q].user \in Users /\ req[q].sid \in Sessions
                        /\ req[q].date \in Dates)'
    BY DEF ActsForUser
<1> USE DEF InCompletion
<1>1. ASSUME NEW r \in Requests, Begin(r) PROVE req'[q].user \in Users
                 /\ req'[q].sid \in Sessions /\ req'[q].date \in Dates
    BY <1>1 DEF Begin, BeginStart, LogManualSession, BeginEnd, ActsForUser, TypeOK
<1>2. ASSUME NEW r \in Requests, Proceed(r) PROVE req'[q].user \in Users
                 /\ req'[q].sid \in Sessions /\ req'[q].date \in Dates
    BY <1>2 DEF Proceed, InsertStarted, InsertRefused, CommitStart, EndSessionRow,
                ReadGrade, UpsertDaily, WriteGrade, CommitEnd, ActsForUser, TypeOK
<1>3. ASSUME NEW r \in Requests, Rollback(r) \/ Deliver(r)
      PROVE  req' = req /\ InCompletion(q)
    BY <1>3 DEF Rollback, Deliver, TypeOK
<1>4. CASE Crash
    BY <1>4 DEF Crash, TypeOK, ActsForUser, InTransaction
<1>5. CASE UNCHANGED vars
    BY <1>5 DEF vars, ActsForUser
<1>6. QED
    BY <1>1, <1>2, <1>3, <1>4, <1>5 DEF Next, ActsForUser

\* Every variable keeps to the rows and values the schema and the code allow.
THEOREM TypeCorrect == Spec => []TypeOK
<1>1. Init => ActsForUser
    BY DEF Init, ActsForUser, InCompletion
<1>2. QED
    BY <1>1, TypeInit, TypeNext, ActsNext, PTL DEF Spec

--------------------------------------------------------------------------------
(* At most one running session.  The index is what keeps it: a request that *)
(* has flushed its INSERT found no committed running session of the user,  *)
(* and keeps every other request of that user from flushing one.           *)

InsertExclusive ==
    \A r \in Requests : pc[r] = "inserted" =>
        /\ ActiveOf(req[r].user) = {}
        /\ \A q \in Requests : pc[q] = "inserted" /\ req[q].user = req[r].user
               => q = r

OneActiveInv == OneActiveSession /\ InsertExclusive

\* A step that neither starts a session nor flushes an INSERT can only end
\* sessions and take requests out of the inserted state.
LEMMA OneActiveFrame ==
    ASSUME OneActiveInv,
           \A u \in Users \cup {None} : ActiveOf(u)' \subseteq ActiveOf(u),
           \A r \in Requests : pc'[r] = "inserted" =>
               /\ pc[r] = "inserted"
               /\ req'[r].user = req[r].user
               /\ req[r].user \in Users \cup {None}
    PROVE  OneActiveInv'
BY DEF OneActiveInv, OneActiveSession, InsertExclusive

LEMMA OneActiveNext ==
    ASSUME TypeOK, OneActiveInv, [Next]_vars
    PROVE  OneActiveInv'
<1> DEFINE Frame ==
        /\ \A u \in Users \cup {None} : ActiveOf(u)' \subseteq ActiveOf(u)
        /\ \A r \in Requests : pc'[r] = "inserted" =>
               /\ pc[r] = "inserted"
               /\ req'[r].user = req[r].user
               /\ req[r].user \in Users \cup {None}
<1>1. \A r \in Requests : req[r].user \in Users \cup {None}
    BY DEF TypeOK, RequestParams
<1>2. ASSUME NEW r \in Requests, Begin(r) PROVE Frame
    <2>1. /\ pc[r] = "idle"
          /\ pc' = [pc EXCEPT ![r] = pc'[r]] /\ pc'[r] # "inserted"
          /\ \A q \in Requests \ {r} : req'[q] = req[q]
        BY <1>2 DEF Begin, BeginStart, LogManualSession, BeginEnd, TypeOK
    <2>2. \A s \in Sessions : session'[s] = session[s] \/ session'[s].state = "ended"
        BY <1>2 DEF Begin, BeginStart, LogManualSession, BeginEnd, TypeOK, tables
    <2>3. \A q \in Requests : pc'[q] = "inserted" => pc[q] = "inserted" /\ q # r
        BY <2>1 DEF TypeOK
    <2>4. QED
        BY <1>1, <2>1, <2>2, <2>3 DEF ActiveOf
<1>3. ASSUME NEW r \in Requests, NEW s \in Sessions, InsertStarted(r, s)
      PROVE  OneActiveInv'
    <2> DEFINE u == req[r].user
    <2>1. ActiveOf(u) = {} /\ \A q \in Requests \ {r} : ~HoldsActiveIndex(q, u)
        BY <1>3 DEF InsertStarted
    <2>2. \A q \in Requests \ {r} : pc[q] = "inserted" => req[q].user # u
        BY <2>1 DEF HoldsActiveIndex
    <2>3. /\ pc' = [pc EXCEPT ![r] = "inserted"]
          /\ req' = [req EXCEPT ![r].sid = s]
          /\ session' = session
        BY <1>3 DEF InsertStarted, tables
    <2>4. \A q \in Requests : req'[q].user = req[q].user
        BY <2>3 DEF TypeOK, RequestParams
    <2>5. OneActiveSession'
        BY <2>3 DEF OneActiveInv, OneActiveSession, ActiveOf
    <2>6. InsertExclusive'
        <3>1. \A q \in Requests \ {r} : pc'[q] = pc[q]
            BY <2>3 DEF TypeOK
        <3>2. ASSUME NEW p \in Requests, pc'[p] = "inserted"
              PROVE  (ActiveOf(req[p].user) = {})'
            <4>1. \A t \in Sessions :
                      ~(session[t].owner = req[p].user /\ session[t].state = "active")
                BY <2>1, <3>1, <3>2 DEF OneActiveInv, InsertExclusive, ActiveOf
            <4>2. QED
                BY <2>3, <2>4, <4>1 DEF ActiveOf
        <3>3. ASSUME NEW p \in Requests, NEW q \in Requests, pc'[p] = "inserted",
                     pc'[q] = "inserted", req'[q].user = req'[p].user
              PROVE  q = p
            BY <2>2, <2>4, <3>1, <3>3 DEF OneActiveInv, InsertExclusive
        <3>4. QED
            BY <3>2, <3>3 DEF InsertExclusive
    <2>7. QED
        BY <2>5, <2>6 DEF OneActiveInv
<1>4. ASSUME NEW r \in Requests, CommitStart(r) PROVE OneActiveInv'
    <2> DEFINE u == req[r].user
    <2>1. /\ pc[r] = "inserted" /\ req' = req
          /\ session' = [session EXCEPT ![req[r].sid] =
                            [NoRow EXCEPT !.owner = u, !.state = "active"]]
          /\ pc' = [pc EXCEPT ![r] = "committed"]
        BY <1>4 DEF CommitStart
    <2>2. ActiveOf(u) = {}
        BY <2>1 DEF OneActiveInv, InsertExclusive
    <2>3. ActiveOf(u)' \subseteq {req[r].sid}
        BY <2>1, <2>2 DEF ActiveOf, TypeOK
    <2>4. \A v \in Users \cup {None} : v # u => ActiveOf(v)' \subseteq ActiveOf(v)
        BY <2>1 DEF ActiveOf, TypeOK, NoRow
    <2>5. \A q \in Requests : pc'[q] = "inserted" => pc[q] = "inserted" /\ q # r
        BY <2>1 DEF TypeOK
    <2>6. OneActiveSession'
        <3> SUFFICES ASSUME NEW v \in Users, NEW s \in ActiveOf(v)', NEW t \in ActiveOf(v)'
                     PROVE  s = t
            BY DEF OneActiveSession
        <3>1. CASE v = u
            BY <2>1, <2>3, <3>1 DEF ActiveOf
        <3>2. CASE v # u
            BY <2>4, <3>2 DEF OneActiveInv, OneActiveSession
        <3>3. QED
            BY <3>1, <3>2
    <2>7. InsertExclusive'
        <3>1. ASSUME NEW p \in Requests, pc'[p] = "inserted"
              PROVE  (ActiveOf(req[p].user) = {})'
            <4>1. pc[p] = "inserted" /\ req[p].user # u
                BY <2>1, <2>5, <3>1 DEF OneActiveInv, InsertExclusive
            <4>2. \A x \in Sessions : session'[x].owner = req[p].user
                                          /\ session'[x].state = "active"
                      => session[x].owner = req[p].user /\ session[x].state = "active"
                BY <2>1, <4>1 DEF TypeOK, NoRow
            <4>3. QED
                BY <2>1, <4>1, <4>2 DEF OneActiveInv, InsertExclusive, ActiveOf
        <3>2. QED
            BY <2>1, <2>5, <3>1 DEF OneActiveInv, InsertExclusive
    <2>8. QED
        BY <2>6, <2>7 DEF OneActiveInv
<1>5. ASSUME NEW r \in Requests,
             \/ InsertRefused(r) \/ EndSessionRow(r) \/ ReadGrade(r)
             \/ UpsertDaily(r) \/ Rollback(r) \/ Deliver(r)
             \/ \E n \in BookCounts : WriteGrade(r, n)
      PROVE  Frame
    <2>1. session' = session /\ req' = req
        BY <1>5 DEF InsertRefused, EndSessionRow, ReadGrade, UpsertDaily, Rollback,
                    Deliver, WriteGrade, tables
    <2>2. \A q \in Requests : pc'[q] = "inserted" => pc[q] = "inserted"
        BY <1>5 DEF InsertRefused, EndSessionRow, ReadGrade, UpsertDaily, Rollback,
                    Deliver, WriteGrade, TypeOK
    <2>3. QED
        BY <1>1, <2>1, <2>2 DEF ActiveOf
<1>6. ASSUME NEW r \in Requests, CommitEnd(r) PROVE Frame
    <2>1. \A s \in Sessions : session'[s].owner = session[s].owner
              /\ (session'[s].state = "active" => session[s].state = "active")
        BY <1>6 DEF CommitEnd, TypeOK, SessionRows
    <2>2. \A q \in Requests : pc'[q] = "inserted" => pc[q] = "inserted"
        BY <1>6 DEF CommitEnd, TypeOK
    <2>3. req' = req
        BY <1>6 DEF CommitEnd
    <2>4. QED
        BY <1>1, <2>1, <2>2, <2>3 DEF ActiveOf
<1>7. ASSUME Crash PROVE Frame
    <2>1. session' = session /\ req' = req
        BY <1>7 DEF Crash, tables
    <2>2. \A q \in Requests : pc'[q] = "inserted" => pc[q] = "inserted"
        BY <1>7 DEF Crash, TypeOK, InTransaction
    <2>3. QED
        BY <1>1, <2>1, <2>2 DEF ActiveOf
<1>8. ASSUME UNCHANGED vars PROVE Frame
    BY <1>1, <1>8 DEF vars, ActiveOf
<1> HIDE DEF Frame
<1>9. Frame => OneActiveInv'
    BY OneActiveFrame DEF Frame
<1>10. QED
    BY <1>2, <1>3, <1>4, <1>5, <1>6, <1>7, <1>8, <1>9 DEF Next, Proceed

\* However start, end and failing requests interleave, a user never has two
\* running sessions.
THEOREM OneActive == Spec => []OneActiveSession
<1>1. Init => OneActiveInv
    BY DEF Init, OneActiveInv, OneActiveSession, InsertExclusive, ActiveOf, NoRow
<1>2. TypeOK /\ OneActiveInv /\ [Next]_vars => OneActiveInv'
    BY OneActiveNext
<1>3. OneActiveInv => OneActiveSession
    BY DEF OneActiveInv
<1>4. QED
    BY <1>1, <1>2, <1>3, TypeCorrect, PTL DEF Spec

--------------------------------------------------------------------------------
(* The lifetime total stays within the time credited.  The total is written *)
(* from a snapshot, so what must be carried along is that no snapshot ever  *)
(* exceeds the credit of its user, and that a flushed row adds exactly the  *)
(* session to its snapshot.                                                 *)

SnapshotBacked ==
    \A r \in Requests :
        /\ pc[r] \in {"read", "counted", "written"} =>
               snap[r].seconds <= credited[req[r].user]
        /\ pc[r] = "written" =>
               draft[r].seconds = snap[r].seconds + req[r].seconds

CreditInv == GradeNeverAhead /\ SnapshotBacked

LEMMA CreditNext ==
    ASSUME TypeOK, ActsForUser, CreditInv, [Next]_vars
    PROVE  CreditInv'
<1>1. \A q \in Requests :
          /\ snap[q].seconds \in Nat /\ draft[q].seconds \in Nat
          /\ req[q].seconds \in Nat
    BY DEF TypeOK, GradeRows, RequestParams
<1>2. \A u \in Users : credited[u] \in Nat /\ grade[u].seconds \in Nat
    BY DEF TypeOK, GradeRows
<1>3. \A q \in Requests : pc[q] \in {"read", "counted", "written"} =>
          req[q].user \in Users
    BY DEF ActsForUser, InCompletion
<1>4. ASSUME NEW r \in Requests, Begin(r) PROVE CreditInv'
    <2>1. grade' = grade /\ credited' = credited /\ snap' = snap /\ draft' = draft
        BY <1>4 DEF Begin, BeginStart, LogManualSession, BeginEnd, tables
    <2>2. /\ pc'[r] \notin {"read", "counted", "written"}
          /\ \A q \in Requests \ {r} : pc'[q] = pc[q] /\ req'[q] = req[q]
        BY <1>4 DEF Begin, BeginStart, LogManualSession, BeginEnd, TypeOK
    <2>3. QED
        BY <2>1, <2>2 DEF CreditInv, GradeNeverAhead, SnapshotBacked
<1>5. ASSUME NEW r \in Requests,
             \/ \E s \in Sessions : InsertStarted(r, s)
             \/ InsertRefused(r) \/ CommitStart(r) \/ EndSessionRow(r)
             \/ Rollback(r) \/ Deliver(r)
      PROVE  CreditInv'
    <2>1. grade' = grade /\ credited' = credited /\ snap' = snap /\ draft' = draft
        BY <1>5 DEF InsertStarted, InsertRefused, CommitStart, EndSessionRow,
                    Rollback, Deliver, tables
    <2>2. \A q \in Requests : pc'[q] \in {"read", "counted", "written"} =>
              pc'[q] = pc[q] /\ req'[q] = req[q]
        BY <1>5 DEF InsertStarted, InsertRefused, CommitStart, EndSessionRow,
                    Rollback, Deliver, TypeOK, InTransaction
    <2>3. QED
        BY <2>1, <2>2 DEF CreditInv, GradeNeverAhead, SnapshotBacked
<1>6. ASSUME NEW r \in Requests, ReadGrade(r) PROVE CreditInv'
    <2>1. /\ grade' = grade /\ credited' = credited /\ req' = req /\ draft' = draft
          /\ snap' = [snap EXCEPT ![r] = grade[req[r].user]]
          /\ pc[r] = "ended" /\ pc' = [pc EXCEPT ![r] = "read"]
        BY <1>6 DEF ReadGrade, tables
    <2>2. req[r].user \in Users
        BY <2>1 DEF ActsForUser, InCompletion
    <2>3. snap'[r].seconds <= credited[req[r].user]
        BY <2>1, <2>2 DEF CreditInv, GradeNeverAhead, TypeOK
    <2>4. \A q \in Requests \ {r} : pc'[q] = pc[q] /\ snap'[q] = snap[q]
        BY <2>1 DEF TypeOK
    <2>5. pc'[r] = "read"
        BY <2>1 DEF TypeOK
    <2>6. QED
        BY <2>1, <2>3, <2>4, <2>5 DEF CreditInv, GradeNeverAhead, SnapshotBacked
<1>7. ASSUME NEW r \in Requests, UpsertDaily(r) PROVE CreditInv'
    <2>1. /\ grade' = grade /\ credited' = credited /\ req' = req /\ draft' = draft
          /\ snap' = snap /\ pc[r] = "read" /\ pc' = [pc EXCEPT ![r] = "counted"]
        BY <1>7 DEF UpsertDaily, tables
    <2>2. QED
        BY <2>1 DEF CreditInv, GradeNeverAhead, SnapshotBacked, TypeOK
<1>8. ASSUME NEW r \in Requests, NEW n \in BookCounts, WriteGrade(r, n)
      PROVE  CreditInv'
    <2>1. /\ grade' = grade /\ credited' = credited /\ req' = req /\ snap' = snap
          /\ draft' = [draft EXCEPT ![r] =
                           CompletedRow(snap[r], req[r].seconds, req[r].date, n)]
          /\ pc[r] = "counted" /\ pc' = [pc EXCEPT ![r] = "written"]
        BY <1>8 DEF WriteGrade, tables
    <2>2. draft'[r].seconds = snap[r].seconds + req[r].seconds
        BY <2>1 DEF TypeOK, CompletedRow
    <2>3. \A q \in Requests \ {r} : pc'[q] = pc[q] /\ draft'[q] = draft[q]
        BY <2>1 DEF TypeOK
    <2>4. QED
        BY <2>1, <2>2, <2>3 DEF CreditInv, GradeNeverAhead, SnapshotBacked
<1>9. ASSUME NEW r \in Requests, CommitEnd(r) PROVE CreditInv'
    <2> DEFINE u == req[r].user
    <2>1. /\ pc[r] = "written" /\ pc' = [pc EXCEPT ![r] = "committed"]
          /\ grade' = [grade EXCEPT ![u] = MergeColumns(@, snap[r], draft[r])]
          /\ credited' = [credited EXCEPT ![u] = @ + req[r].seconds]
          /\ req' = req /\ snap' = snap /\ draft' = draft
        BY <1>9 DEF CommitEnd
    <2>2. u \in Users
        BY <1>3, <2>1
    <2>3. /\ snap[r].seconds <= credited[u]
          /\ draft[r].seconds = snap[r].seconds + req[r].seconds
          /\ grade[u].seconds <= credited[u]
        BY <2>1, <2>2 DEF CreditInv, GradeNeverAhead, SnapshotBacked
    <2>4. grade'[u].seconds = Column(grade[u].seconds, snap[r].seconds, draft[r].seconds)
        BY <2>1, <2>2 DEF TypeOK, MergeColumns
    <2>5. credited'[u] = credited[u] + req[r].seconds
        BY <2>1, <2>2 DEF TypeOK
    <2>6. \A v \in Users \ {u} : grade'[v] = grade[v] /\ credited'[v] = credited[v]
        BY <2>1 DEF TypeOK
    <2> HIDE DEF u
    <2>7. grade'[u].seconds <= credited'[u]
        BY <1>1, <1>2, <2>2, <2>3, <2>4, <2>5 DEF Column
    <2>8. \A v \in Users : credited[v] <= credited'[v]
        BY <1>1, <1>2, <2>5, <2>6
    <2>9. \A v \in Users : credited'[v] \in Nat
        BY <1>1, <1>2, <2>5, <2>6
    <2>10. GradeNeverAhead'
        BY <2>6, <2>7 DEF CreditInv, GradeNeverAhead
    <2>11. SnapshotBacked'
        <3> SUFFICES ASSUME NEW q \in Requests
                     PROVE  /\ pc'[q] \in {"read", "counted", "written"} =>
                                   snap[q].seconds <= credited'[req[q].user]
                            /\ pc'[q] = "written" =>
                                   draft[q].seconds = snap[q].seconds + req[q].seconds
            BY <2>1 DEF SnapshotBacked
        <3>1. pc'[q] \in {"read", "counted", "written"} => pc'[q] = pc[q]
            BY <2>1 DEF TypeOK
        <3>2. pc[q] \in {"read", "counted", "written"} =>
                  snap[q].seconds <= credited[req[q].user]
            BY DEF CreditInv, SnapshotBacked
        <3>3. QED
            BY <1>1, <1>2, <1>3, <2>8, <2>9, <3>1, <3>2 DEF CreditInv, SnapshotBacked
    <2>12. QED
        BY <2>10, <2>11 DEF CreditInv
<1>10. CASE Crash
    <2>1. grade' = grade /\ credited' = credited /\ req' = req /\ snap' = snap
              /\ draft' = draft
        BY <1>10 DEF Crash, tables
    <2>2. \A q \in Requests : pc'[q] \notin {"read", "counted", "written"}
        BY <1>10 DEF Crash, InTransaction
    <2>3. QED
        BY <2>1, <2>2 DEF CreditInv, GradeNeverAhead, SnapshotBacked
<1>11. CASE UNCHANGED vars
    BY <1>11 DEF vars, CreditInv, GradeNeverAhead, SnapshotBacked
<1>12. QED
    BY <1>4, <1>5, <1>6, <1>7, <1>8, <1>9, <1>10, <1>11 DEF Next, Proceed

\* No interleaving of completions, failures and crashes makes the lifetime
\* total in user_grades exceed the time its user was credited.
THEOREM GradeStaysBehind == Spec => []GradeNeverAhead
<1>1. Init => ActsForUser
    BY DEF Init, ActsForUser, InCompletion
<1>2. Init => CreditInv
    BY DEF Init, CreditInv, GradeNeverAhead, SnapshotBacked, FreshGrade
<1>3. TypeOK /\ ActsForUser /\ CreditInv /\ [Next]_vars => CreditInv'
    BY CreditNext
<1>4. CreditInv => GradeNeverAhead
    BY DEF CreditInv
<1>5. QED
    BY <1>1, <1>2, <1>3, <1>4, TypeCorrect, ActsNext, PTL DEF Spec

--------------------------------------------------------------------------------
(* No phantom events.  A request's events leave its session only in its     *)
(* commit; from then on the delivered and the undelivered part together are *)
(* a prefix of what it staged, and all of it until the process dies.        *)

Published(r) == delivered[r] \o task[r]

IsStaged(r) ==
    LET staged == StagedEvents(req[r], snap[r], draft[r]) IN
    \E n \in 0 .. Len(staged) : Published(r) = SubSeq(staged, 1, n)

EventsInv ==
    \A r \in Requests :
        /\ pc[r] = "written" => outbox[r] = StagedEvents(req[r], snap[r], draft[r])
        /\ pc[r] # "committed" => task[r] = <<>> /\ delivered[r] = <<>>
        /\ \/ pc[r] = "committed" /\ IsStaged(r)
           \/ task[r] = <<>> /\ delivered[r] = <<>>

\* The staged events of any request, whatever its rows, are a sequence.
LEMMA StagedIsSeq ==
    ASSUME TypeOK, NEW r \in Requests
    PROVE  /\ StagedEvents(req[r], snap[r], draft[r]) \in Seq(Events)
           /\ Len(StagedEvents(req[r], snap[r], draft[r])) \in Nat
<1>1. req[r] \in RequestParams /\ snap[r] \in GradeRows /\ draft[r] \in GradeRows
    BY DEF TypeOK
<1>2. StagedEvents(req[r], snap[r], draft[r]) \in Seq(Events)
    BY <1>1, StagedType
<1>3. QED
    BY <1>2, LenProperties

\* Cutting a prefix again gives a prefix.
LEMMA PrefixOfPrefix ==
    ASSUME NEW S, NEW st \in Seq(S), NEW a \in Seq(S), NEW b \in Seq(S),
           NEW n \in 0 .. Len(st), a \o b = SubSeq(st, 1, n)
    PROVE  \E m \in 0 .. Len(st) : a = SubSeq(st, 1, m)
<1>1. /\ Len(st) \in Nat /\ Len(a) \in Nat /\ Len(b) \in Nat
      /\ SubSeq(st, 1, n) \in Seq(S) /\ Len(SubSeq(st, 1, n)) = n
      /\ \A i \in 1 .. n : SubSeq(st, 1, n)[i] = st[i]
    OBVIOUS
<1>2. Len(a \o b) = Len(a) + Len(b) /\ \A i \in 1 .. Len(a) : (a \o b)[i] = a[i]
    OBVIOUS
<1>3. Len(a) \in 0 .. n
    BY <1>1, <1>2
<1>4. /\ SubSeq(st, 1, Len(a)) \in Seq(S) /\ Len(SubSeq(st, 1, Len(a))) = Len(a)
      /\ \A i \in 1 .. Len(a) : SubSeq(st, 1, Len(a))[i] = st[i]
    BY <1>1, <1>3
<1>5. \A i \in 1 .. Len(a) : a[i] = SubSeq(st, 1, Len(a))[i]
    BY <1>1, <1>2, <1>3, <1>4
<1>6. a = SubSeq(st, 1, Len(a))
    BY <1>4, <1>5, SeqEqual
<1>7. Len(a) \in 0 .. Len(st)
    BY <1>1, <1>3
<1>8. QED
    BY <1>6, <1>7, Zenon

\* Handing the first event of a queue over leaves the whole sequence as it was.
LEMMA HandOver ==
    ASSUME NEW S, NEW d \in Seq(S), NEW t \in Seq(S), t # <<>>
    PROVE  Append(d, Head(t)) \o Tail(t) = d \o t
<1> DEFINE a == Append(d, Head(t))
           b == Tail(t)
<1>1. /\ Head(t) \in S /\ b \in Seq(S) /\ Len(b) = Len(t) - 1
      /\ \A i \in 1 .. Len(b) : b[i] = t[i + 1]
    BY HeadTailProperties
<1>2. /\ a \in Seq(S) /\ Len(a) = Len(d) + 1
      /\ \A i \in 1 .. Len(d) : a[i] = d[i]
      /\ a[Len(d) + 1] = t[1]
    BY <1>1
<1>3. Len(d) \in Nat /\ Len(t) \in Nat /\ Len(t) > 0
    BY EmptySeq, LenProperties
<1> HIDE DEF a, b
<1>4. /\ a \o b \in Seq(S) /\ Len(a \o b) = Len(a) + Len(b)
      /\ \A i \in 1 .. Len(a) + Len(b) :
             (a \o b)[i] = IF i <= Len(a) THEN a[i] ELSE b[i - Len(a)]
    BY <1>1, <1>2, ConcatProperties
<1>5. /\ d \o t \in Seq(S) /\ Len(d \o t) = Len(d) + Len(t)
      /\ \A i \in 1 .. Len(d) + Len(t) :
             (d \o t)[i] = IF i <= Len(d) THEN d[i] ELSE t[i - Len(d)]
    BY ConcatProperties
<1>6. Len(a) + Len(b) = Len(d) + Len(t)
    BY <1>1, <1>2, <1>3
<1>7. ASSUME NEW i \in 1 .. Len(d) + Len(t) PROVE (a \o b)[i] = (d \o t)[i]
    <2>1. CASE i <= Len(d)
        BY <1>2, <1>3, <1>4, <1>5, <1>6, <2>1
    <2>2. CASE i = Len(d) + 1
        BY <1>2, <1>3, <1>4, <1>5, <1>6, <2>2
    <2>3. CASE i > Len(d) + 1
        BY <1>1, <1>2, <1>3, <1>4, <1>5, <1>6, <2>3
    <2>4. i \in Nat /\ (i <= Len(d) \/ i = Len(d) + 1 \/ i > Len(d) + 1)
        BY <1>3
    <2>5. QED
        BY <2>1, <2>2, <2>3, <2>4, Zenon
<1>8. a \o b = d \o t
    BY <1>4, <1>5, <1>6, <1>7, SeqEqual
<1>9. QED
    BY <1>8 DEF a, b

LEMMA EventsNext ==
    ASSUME TypeOK, EventsInv, [Next]_vars
    PROVE  EventsInv'
<1> USE DEF IsStaged, Published
<1>1. ASSUME NEW r \in Requests, Begin(r) PROVE EventsInv'
    <2>1. /\ pc[r] = "idle" /\ snap' = snap /\ draft' = draft
          /\ outbox' = outbox /\ task' = task /\ delivered' = delivered
        BY <1>1 DEF Begin, BeginStart, LogManualSession, BeginEnd, bus
    <2>2. /\ pc'[r] # "written"
          /\ \A q \in Requests \ {r} : pc'[q] = pc[q] /\ req'[q] = req[q]
        BY <1>1 DEF Begin, BeginStart, LogManualSession, BeginEnd, TypeOK
    <2>3. task[r] = <<>> /\ delivered[r] = <<>>
        BY <2>1 DEF EventsInv
    <2>4. QED
        BY <2>1, <2>2, <2>3 DEF EventsInv
<1>2. ASSUME NEW r \in Requests,
             \/ \E s \in Sessions : InsertStarted(r, s)
             \/ InsertRefused(r) \/ CommitStart(r) \/ EndSessionRow(r)
             \/ ReadGrade(r) \/ UpsertDaily(r)
      PROVE  EventsInv'
    <2>1. /\ pc[r] \notin {"committed", "written"} /\ draft' = draft
          /\ outbox' = outbox /\ task' = task /\ delivered' = delivered
          /\ pc'[r] # "written"
          /\ \A q \in Requests \ {r} : /\ pc'[q] = pc[q] /\ req'[q] = req[q]
                                       /\ snap'[q] = snap[q]
        BY <1>2 DEF InsertStarted, InsertRefused, CommitStart, EndSessionRow,
                    ReadGrade, UpsertDaily, bus, TypeOK
    <2>2. task[r] = <<>> /\ delivered[r] = <<>>
        BY <2>1 DEF EventsInv
    <2>3. QED
        BY <2>1, <2>2 DEF EventsInv
<1>3. ASSUME NEW r \in Requests, NEW n \in BookCounts, WriteGrade(r, n)
      PROVE  EventsInv'
    <2> DEFINE new == CompletedRow(snap[r], req[r].seconds, req[r].date, n)
    <2>1. /\ pc[r] = "counted" /\ pc' = [pc EXCEPT ![r] = "written"]
          /\ draft' = [draft EXCEPT ![r] = new]
          /\ outbox' = [outbox EXCEPT ![r] = StagedEvents(req[r], snap[r], new)]
          /\ req' = req /\ snap' = snap /\ task' = task /\ delivered' = delivered
        BY <1>3 DEF WriteGrade
    <2> HIDE DEF new
    <2>2. task[r] = <<>> /\ delivered[r] = <<>>
        BY <2>1 DEF EventsInv
    <2>3. pc'[r] = "written" /\ draft'[r] = new
              /\ outbox'[r] = StagedEvents(req[r], snap[r], new)
        BY <2>1 DEF TypeOK
    <2>4. \A q \in Requests \ {r} : /\ pc'[q] = pc[q] /\ draft'[q] = draft[q]
                                    /\ outbox'[q] = outbox[q]
        BY <2>1 DEF TypeOK
    <2>5. ASSUME NEW q \in Requests \ {r}, pc[q] = "committed", IsStaged(q)
          PROVE  IsStaged(q)'
        BY <2>1, <2>4, <2>5
    <2>6. QED
        BY <2>1, <2>2, <2>3, <2>4, <2>5 DEF EventsInv
<1>4. ASSUME NEW r \in Requests, CommitEnd(r) PROVE EventsInv'
    <2> DEFINE st == StagedEvents(req[r], snap[r], draft[r])
    <2>1. /\ pc[r] = "written" /\ pc' = [pc EXCEPT ![r] = "committed"]
          /\ task' = [task EXCEPT ![r] = outbox[r]]
          /\ outbox' = [outbox EXCEPT ![r] = <<>>]
          /\ req' = req /\ snap' = snap /\ draft' = draft /\ delivered' = delivered
        BY <1>4 DEF CommitEnd
    <2>2. outbox[r] = st /\ delivered[r] = <<>>
        BY <2>1 DEF EventsInv
    <2>3. st \in Seq(Events) /\ Len(st) \in Nat
        BY StagedIsSeq
    <2>4. pc'[r] = "committed" /\ task'[r] = st /\ delivered'[r] = <<>>
        BY <2>1, <2>2 DEF TypeOK
    <2>5. \A q \in Requests \ {r} : /\ pc'[q] = pc[q] /\ task'[q] = task[q]
                                    /\ outbox'[q] = outbox[q]
        BY <2>1 DEF TypeOK
    <2> HIDE DEF st
    <2>6. delivered'[r] \o task'[r] = SubSeq(st, 1, Len(st)) /\ Len(st) \in 0 .. Len(st)
        BY <2>3, <2>4
    <2>7. QED
        BY <2>1, <2>4, <2>5, <2>6 DEF EventsInv, st
<1>5. ASSUME NEW r \in Requests, Rollback(r) PROVE EventsInv'
    <2>1. /\ pc[r] # "committed" /\ pc'[r] = "aborted"
          /\ req' = req /\ snap' = snap /\ draft' = draft
          /\ task' = task /\ delivered' = delivered
          /\ \A q \in Requests \ {r} : pc'[q] = pc[q] /\ outbox'[q] = outbox[q]
        BY <1>5 DEF Rollback, TypeOK, InTransaction
    <2>2. QED
        BY <2>1 DEF EventsInv
<1>6. ASSUME NEW r \in Requests, Deliver(r) PROVE EventsInv'
    <2>1. /\ task[r] # <<>> /\ pc' = pc /\ req' = req /\ snap' = snap
          /\ draft' = draft /\ outbox' = outbox
          /\ delivered' = [delivered EXCEPT ![r] = Append(@, Head(task[r]))]
          /\ task' = [task EXCEPT ![r] = Tail(@)]
        BY <1>6 DEF Deliver, tables
    <2>2. /\ task[r] \in Seq(Events) /\ delivered[r] \in Seq(Events)
        BY DEF TypeOK
    <2>3. /\ delivered'[r] = Append(delivered[r], Head(task[r]))
          /\ task'[r] = Tail(task[r])
        BY <2>1 DEF TypeOK
    <2>4. delivered'[r] \o task'[r] = delivered[r] \o task[r]
        BY <2>1, <2>2, <2>3, HandOver
    <2>5. \A q \in Requests \ {r} : task'[q] = task[q] /\ delivered'[q] = delivered[q]
        BY <2>1 DEF TypeOK
    <2>6. pc[r] = "committed" /\ IsStaged(r)
        BY <2>1 DEF EventsInv
    <2>7. IsStaged(r)'
        <3>1. PICK st, p : /\ st = StagedEvents(req[r], snap[r], draft[r])
                           /\ p = delivered[r] \o task[r]
            OBVIOUS
        <3>2. \E n \in 0 .. Len(st) : p = SubSeq(st, 1, n)
            BY <2>6, <3>1, ZenonT(40)
        <3>3. st = StagedEvents(req'[r], snap'[r], draft'[r]) /\ p = delivered'[r] \o task'[r]
            BY <2>1, <2>4, <3>1
        <3>4. QED
            BY <3>2, <3>3, ZenonT(40)
    <2>8. \A q \in Requests \ {r} :
              ((pc[q] = "committed" /\ IsStaged(q)) \/ (task[q] = <<>> /\ delivered[q] = <<>>))
                  => \/ pc'[q] = "committed" /\ IsStaged(q)'
                     \/ task'[q] = <<>> /\ delivered'[q] = <<>>
        BY <2>1, <2>5
    <2> HIDE DEF IsStaged, Published
    <2>9. QED
        BY <2>1, <2>5, <2>6, <2>7, <2>8 DEF EventsInv
<1>7. CASE Crash
    <2>1. /\ req' = req /\ snap' = snap /\ draft' = draft /\ delivered' = delivered
          /\ \A q \in Requests : task'[q] = <<>> /\ outbox'[q] = <<>>
          /\ \A q \in Requests : pc'[q] # "written"
          /\ \A q \in Requests : pc'[q] = "committed" <=> pc[q] = "committed"
        BY <1>7 DEF Crash, InTransaction, tables
    <2>2. ASSUME NEW q \in Requests, pc[q] = "committed", IsStaged(q)
          PROVE  IsStaged(q)'
        <3> DEFINE st == StagedEvents(req[q], snap[q], draft[q])
        <3>1. st \in Seq(Events)
            BY StagedIsSeq
        <3>2. task[q] \in Seq(Events) /\ delivered[q] \in Seq(Events)
            BY DEF TypeOK
        <3>3. PICK n \in 0 .. Len(st) : delivered[q] \o task[q] = SubSeq(st, 1, n)
            BY <2>2
        <3> HIDE DEF st
        <3>4. \E m \in 0 .. Len(st) : delivered[q] = SubSeq(st, 1, m)
            <4> DEFINE a == delivered[q]
                       b == task[q]
            <4>1. a \in Seq(Events) /\ b \in Seq(Events) /\ a \o b = SubSeq(st, 1, n)
                BY <3>2, <3>3
            <4> HIDE DEF a, b
            <4>2. \E m \in 0 .. Len(st) : a = SubSeq(st, 1, m)
                BY <3>1, <4>1, PrefixOfPrefix
            <4>3. QED
                BY <4>2 DEF a
        <3>5. delivered'[q] \o task'[q] = delivered[q]
            BY <2>1, <3>2, ConcatEmptySeq
        <3>6. QED
            BY <2>1, <3>4, <3>5 DEF st
    <2>3. QED
        BY <2>1, <2>2 DEF EventsInv
<1>8. CASE UNCHANGED vars
    BY <1>8 DEF vars, EventsInv
<1>9. QED
    BY <1>1, <1>2, <1>3, <1>4, <1>5, <1>6, <1>7, <1>8 DEF Next, Proceed

\* What the subscribers see of a request is, in order and without repetition,
\* a prefix of the events its committed transaction staged.
THEOREM NoPhantoms == Spec => []NoPhantomEvents
<1>1. Init => EventsInv
    BY DEF Init, EventsInv
<1>2. TypeOK /\ EventsInv /\ [Next]_vars => EventsInv'
    BY EventsNext
<1>3. TypeOK /\ EventsInv => NoPhantomEvents
    <2> SUFFICES ASSUME TypeOK, EventsInv, NEW r \in Requests,
                        Published(r) # <<>>
                 PROVE  /\ pc[r] = "committed"
                        /\ LET staged == StagedEvents(req[r], snap[r], draft[r]) IN
                           /\ Len(Published(r)) <= Len(staged)
                           /\ Published(r) = SubSeq(staged, 1, Len(Published(r)))
        BY DEF NoPhantomEvents, Published
    <2> DEFINE st == StagedEvents(req[r], snap[r], draft[r])
    <2>1. st \in Seq(Events)
        BY StagedIsSeq
    <2>2. pc[r] = "committed" /\ IsStaged(r)
        BY DEF EventsInv, Published
    <2>3. PICK n \in 0 .. Len(st) : Published(r) = SubSeq(st, 1, n)
        BY <2>2 DEF IsStaged
    <2> HIDE DEF st
    <2>4. Len(SubSeq(st, 1, n)) = n /\ n <= Len(st)
        BY <2>1, <2>3
    <2>5. QED
        BY <2>2, <2>3, <2>4 DEF st
<1>4. QED
    BY <1>1, <1>2, <1>3, TypeCorrect, PTL DEF Spec

--------------------------------------------------------------------------------
(***************************************************************************)
(* ReadingCompletion implements ReadingRecord, for every number of users,   *)
(* sessions and requests: the statements of a transaction stutter and its   *)
(* commit is one abstract step.  What makes that true is that a request     *)
(* still knows, when it commits, what it found when it took its locks: its  *)
(* session row is free or its user's, the bucket it is to write is the      *)
(* committed one plus its own completion, and its outbox holds the events   *)
(* of that completion.                                                      *)
(***************************************************************************)

Credits == {ReconcileDuration(e, p) : e \in Elapsed, p \in Pauses}

\* What a request asks for fits where it stands.
RequestFits ==
    \A r \in Requests :
        /\ pc[r] = "idle" => req[r] = NoRequest
        /\ pc[r] \in {"inserting", "inserted"} =>
               req[r].op = "start" /\ req[r].user \in Users
        /\ InCompletion(r) => req[r].op = "end" /\ req[r].seconds \in Credits

\* A row nobody has committed is empty; an id is given out once; a completion
\* works on a row of its user.
RowsKnown ==
    /\ \A s \in Sessions : session[s].state = "free" => session[s] = NoRow
    /\ \A r \in Requests : pc[r] = "inserted" =>
          /\ req[r].sid \in Sessions
          /\ session[req[r].sid] = NoRow
          /\ \A q \in Requests : req[q].sid = req[r].sid => q = r
    /\ \A r \in Requests : InCompletion(r) =>
          /\ session[req[r].sid].owner = req[r].user
          /\ session[req[r].sid].state # "free"

\* The lock on the bucket: one holder at a time, and nothing has moved since.
BucketsHeld ==
    \A r \in Requests : pc[r] \in {"counted", "written"} =>
        /\ \A q \in Requests : HoldsDaily(q, req[r].user, req[r].date) => q = r
        /\ bucket[r] =
              [seconds |-> daily[req[r].user][req[r].date].seconds + req[r].seconds,
               count |-> daily[req[r].user][req[r].date].count + 1]

\* The outbox of a completion about to commit.
OutboxFilled ==
    \A r \in Requests : pc[r] = "written" =>
        outbox[r] = StagedEvents(req[r], snap[r], draft[r])

RecordInv == RequestFits /\ RowsKnown /\ BucketsHeld /\ OutboxFilled

LEMMA RecordInvInit == Init => RecordInv
BY DEF Init, RecordInv, RequestFits, RowsKnown, BucketsHeld, OutboxFilled,
       InCompletion, HoldsDaily, NoRequest, NoRow

LEMMA FitsNext ==
    ASSUME TypeOK, ActsForUser, RecordInv, [Next]_vars
    PROVE  RequestFits'
<1> SUFFICES ASSUME NEW q \in Requests
             PROVE  (/\ pc[q] = "idle" => req[q] = NoRequest
                     /\ pc[q] \in {"inserting", "inserted"} =>
                            req[q].op = "start" /\ req[q].user \in Users
                     /\ InCompletion(q) => req[q].op = "end" /\ req[q].seconds \in Credits)'
    BY DEF RequestFits
<1> USE DEF InCompletion
<1>0. /\ pc[q] = "idle" => req[q] = NoRequest
      /\ pc[q] \in {"inserting", "inserted"} => req[q].op = "start" /\ req[q].user \in Users
      /\ InCompletion(q) => req[q].op = "end" /\ req[q].seconds \in Credits
      /\ req \in [Requests -> RequestParams] /\ pc \in [Requests -> InTransaction \cup Outcomes]
    BY DEF RecordInv, RequestFits, TypeOK
<1>1. ASSUME NEW r \in Requests, NEW u \in Users, BeginStart(r, u)
      PROVE  RequestFits!(q)'
    BY <1>0, <1>1 DEF BeginStart, NoRequest
<1>2. ASSUME NEW r \in Requests, NEW u \in Users, NEW s \in Sessions, NEW n \in ManualSeconds,
             LogManualSession(r, u, s, n)
      PROVE  RequestFits!(q)'
    BY <1>0, <1>2 DEF LogManualSession
<1>3. ASSUME NEW r \in Requests, NEW u \in Users, NEW s \in Sessions, NEW d \in Dates,
             NEW e \in Elapsed, NEW p \in Pauses, BeginEnd(r, u, s, d, e, p)
      PROVE  RequestFits!(q)'
    <2>1. ReconcileDuration(e, p) \in Credits
        BY DEF Credits
    <2>2. QED
        BY <1>0, <1>3, <2>1 DEF BeginEnd
<1>4. ASSUME NEW r \in Requests, Proceed(r)
      PROVE  RequestFits!(q)'
    <2>1. ASSUME NEW s \in Sessions, InsertStarted(r, s) PROVE RequestFits!(q)'
        BY <1>0, <2>1 DEF InsertStarted, RequestParams
    <2>2. QED
        BY <1>0, <1>4, <2>1 DEF Proceed, InsertRefused, CommitStart, EndSessionRow, ReadGrade,
               UpsertDaily, WriteGrade, CommitEnd
<1>5. ASSUME NEW r \in Requests, Rollback(r) \/ Deliver(r)
      PROVE  RequestFits!(q)'
    BY <1>0, <1>5 DEF Rollback, Deliver
<1>6. CASE Crash
    BY <1>0, <1>6 DEF Crash, InTransaction
<1>7. CASE UNCHANGED vars
    BY <1>0, <1>7 DEF vars
<1>8. QED
    BY <1>1, <1>2, <1>3, <1>4, <1>5, <1>6, <1>7 DEF Next, Begin

LEMMA RowsNext ==
    ASSUME TypeOK, ActsForUser, RecordInv, [Next]_vars
    PROVE  RowsKnown'
<1> USE DEF InCompletion
<1>0. /\ session \in [Sessions -> SessionRows]
      /\ pc \in [Requests -> InTransaction \cup Outcomes]
      /\ req \in [Requests -> RequestParams]
      /\ RowsKnown /\ RequestFits /\ NoRow \in SessionRows
    BY DEF TypeOK, RecordInv, NoRow, SessionRows
<1>1. ASSUME NEW r \in Requests, NEW u \in Users, BeginStart(r, u)
      PROVE  RowsKnown'
    <2>1. /\ session' = session
          /\ pc' = [pc EXCEPT ![r] = "inserting"]
          /\ req' = [req EXCEPT ![r] = req'[r]] /\ req'[r].sid = None
        BY <1>0, <1>1 DEF BeginStart, tables, NoRequest
    <2>2. None \notin Sessions
        BY CompletionAssumption
    <2>3. QED
        BY <1>0, <2>1, <2>2 DEF RowsKnown
<1>2. ASSUME NEW r \in Requests, NEW u \in Users, NEW s \in Sessions, NEW n \in ManualSeconds,
             LogManualSession(r, u, s, n)
      PROVE  RowsKnown'
    <2>1. /\ session[s].state = "free" /\ \A q \in Requests : req[q].sid # s
          /\ session' = [session EXCEPT ![s] =
                 [owner |-> u, state |-> "ended", source |-> "manual", seconds |-> n]]
          /\ pc' = [pc EXCEPT ![r] = "committed"] /\ req' = req
        BY <1>2 DEF LogManualSession
    <2>2. QED
        BY <1>0, <2>1 DEF RowsKnown
<1>3. ASSUME NEW r \in Requests, NEW u \in Users, NEW s \in Sessions, NEW d \in Dates,
             NEW e \in Elapsed, NEW p \in Pauses, BeginEnd(r, u, s, d, e, p)
      PROVE  RowsKnown'
    <2>1. /\ session' = session /\ session[s].owner = u /\ session[s].state = "active"
          /\ pc' = [pc EXCEPT ![r] = "loaded"]
          /\ req' = [req EXCEPT ![r] = req'[r]] /\ req'[r].sid = s /\ req'[r].user = u
        BY <1>0, <1>3 DEF BeginEnd, tables
    <2>2. \A q \in Requests : pc[q] = "inserted" => req[q].sid # s
        BY <1>0, <2>1 DEF RowsKnown, NoRow
    <2>3. QED
        BY <1>0, <2>1, <2>2 DEF RowsKnown
<1>4. ASSUME NEW r \in Requests, NEW s \in Sessions, InsertStarted(r, s)
      PROVE  RowsKnown'
    <2>1. /\ session' = session /\ session[s].state = "free"
          /\ \A q \in Requests : req[q].sid # s
          /\ pc' = [pc EXCEPT ![r] = "inserted"]
          /\ req' = [req EXCEPT ![r] = [req[r] EXCEPT !.sid = s]]
        BY <1>0, <1>4 DEF InsertStarted, tables
    <2>2. [req[r] EXCEPT !.sid = s].sid = s
        BY <1>0 DEF RequestParams
    <2>3. QED
        BY <1>0, <2>1, <2>2 DEF RowsKnown
<1>5. ASSUME NEW r \in Requests, CommitStart(r)
      PROVE  RowsKnown'
    <2>1. /\ pc[r] = "inserted"
          /\ session' = [session EXCEPT ![req[r].sid] =
                            [NoRow EXCEPT !.owner = req[r].user, !.state = "active"]]
          /\ pc' = [pc EXCEPT ![r] = "committed"] /\ req' = req
        BY <1>5 DEF CommitStart
    <2>2. [NoRow EXCEPT !.owner = req[r].user, !.state = "active"].state = "active"
        BY DEF NoRow
    <2>3. \A q \in Requests : InCompletion(q) => req[q].sid # req[r].sid
        BY <1>0, <2>1 DEF RowsKnown, NoRow
    <2>4. QED
        BY <1>0, <2>1, <2>2, <2>3 DEF RowsKnown
<1>6. ASSUME NEW r \in Requests, CommitEnd(r)
      PROVE  RowsKnown'
    <2> DEFINE t == req[r].sid
    <2>1. /\ pc[r] = "written" /\ t \in Sessions
          /\ session' = [session EXCEPT ![t] =
                 [session[t] EXCEPT !.state = "ended", !.seconds = req[r].seconds]]
          /\ pc' = [pc EXCEPT ![r] = "committed"] /\ req' = req
        BY <1>0, <1>6 DEF CommitEnd, ActsForUser, SessionRows
    <2>2. /\ session'[t].state = "ended" /\ session'[t].owner = session[t].owner
          /\ \A s \in Sessions \ {t} : session'[s] = session[s]
        BY <1>0, <2>1 DEF SessionRows
    <2>3. session[t].state # "free"
        BY <1>0, <2>1 DEF RowsKnown
    <2>4. \A q \in Requests : pc[q] = "inserted" => req[q].sid # t
        BY <1>0, <2>3 DEF RowsKnown, NoRow
    <2>5. \A q \in Requests : pc'[q] \in {"inserted", "loaded", "ended", "read", "counted", "written"}
                                => pc'[q] = pc[q]
        BY <1>0, <2>1
    <2> HIDE DEF t
    <2>6. \A q \in Requests : InCompletion(q)' =>
              session'[req[q].sid].owner = req[q].user /\ session'[req[q].sid].state # "free"
        <3> SUFFICES ASSUME NEW q \in Requests, InCompletion(q)
                     PROVE  session'[req[q].sid].owner = req[q].user
                            /\ session'[req[q].sid].state # "free"
            BY <2>5
        <3>1. req[q].sid \in Sessions
            BY DEF ActsForUser
        <3>2. QED
            BY <1>0, <2>2, <3>1 DEF RowsKnown
    <2>7. \A s \in Sessions : session'[s].state = "free" => session'[s] = NoRow
        BY <1>0, <2>2 DEF RowsKnown
    <2>8. \A q \in Requests : pc'[q] = "inserted" =>
              /\ req[q].sid \in Sessions
              /\ session'[req[q].sid] = NoRow
              /\ \A v \in Requests : req[v].sid = req[q].sid => v = q
        <3> SUFFICES ASSUME NEW q \in Requests, pc'[q] = "inserted"
                     PROVE  /\ req[q].sid \in Sessions
                            /\ session'[req[q].sid] = NoRow
                            /\ \A v \in Requests : req[v].sid = req[q].sid => v = q
            OBVIOUS
        <3>1. pc[q] = "inserted"
            BY <2>5
        <3>2. QED
            BY <1>0, <2>2, <2>4, <3>1 DEF RowsKnown
    <2>9. req' = req
        BY <2>1
    <2>10. QED
        BY <2>6, <2>7, <2>8, <2>9 DEF RowsKnown
<1>7. ASSUME NEW r \in Requests,
             InsertRefused(r) \/ EndSessionRow(r) \/ ReadGrade(r) \/ UpsertDaily(r)
             \/ (\E n \in BookCounts : WriteGrade(r, n)) \/ Rollback(r) \/ Deliver(r)
      PROVE  RowsKnown'
    <2>1. /\ session' = session /\ req' = req
          /\ \A q \in Requests : pc'[q] = "inserted" => pc[q] = "inserted"
          /\ \A q \in Requests : InCompletion(q)' => InCompletion(q)
        BY <1>0, <1>7 DEF InsertRefused, EndSessionRow, ReadGrade, UpsertDaily, WriteGrade,
               Rollback, Deliver, tables
    <2>2. \A q \in Requests : pc'[q] = "inserted" =>
              /\ req[q].sid \in Sessions
              /\ session[req[q].sid] = NoRow
              /\ \A v \in Requests : req[v].sid = req[q].sid => v = q
        BY <1>0, <2>1 DEF RowsKnown
    <2>3. \A q \in Requests : InCompletion(q)' =>
              session[req[q].sid].owner = req[q].user /\ session[req[q].sid].state # "free"
        <3> SUFFICES ASSUME NEW q \in Requests, InCompletion(q)'
                     PROVE  session[req[q].sid].owner = req[q].user
                            /\ session[req[q].sid].state # "free"
            OBVIOUS
        <3>1. InCompletion(q)
            BY <2>1
        <3>2. QED
            BY <1>0, <3>1 DEF RowsKnown
    <2>4. session' = session /\ req' = req
        BY <2>1
    <2>5. \A s \in Sessions : session[s].state = "free" => session[s] = NoRow
        BY <1>0 DEF RowsKnown
    <2>6. QED
        BY <2>2, <2>3, <2>4, <2>5 DEF RowsKnown
<1>8. CASE Crash
    BY <1>0, <1>8 DEF Crash, RowsKnown, InTransaction, tables
<1>9. CASE UNCHANGED vars
    BY <1>0, <1>9 DEF vars, RowsKnown
<1>10. QED
    BY <1>1, <1>2, <1>3, <1>4, <1>5, <1>6, <1>7, <1>8, <1>9 DEF Next, Begin, Proceed

LEMMA BucketsNext ==
    ASSUME TypeOK, ActsForUser, RecordInv, [Next]_vars
    PROVE  BucketsHeld'
<1> USE DEF HoldsDaily
<1>0. /\ daily \in [Users -> [Dates -> Buckets]]
      /\ bucket \in [Requests -> Buckets]
      /\ pc \in [Requests -> InTransaction \cup Outcomes]
      /\ req \in [Requests -> RequestParams]
      /\ BucketsHeld
    BY DEF TypeOK, RecordInv
<1>1. ASSUME NEW r \in Requests, UpsertDaily(r)
      PROVE  BucketsHeld'
    <2> DEFINE u == req[r].user
               d == req[r].date
    <2>1. /\ pc[r] = "read" /\ \A q \in Requests \ {r} : ~HoldsDaily(q, u, d)
          /\ bucket' = [bucket EXCEPT ![r] =
                 [seconds |-> daily[u][d].seconds + req[r].seconds,
                  count |-> daily[u][d].count + 1]]
          /\ pc' = [pc EXCEPT ![r] = "counted"]
          /\ req' = req /\ daily' = daily
        BY <1>1 DEF UpsertDaily, tables
    <2>2. QED
        BY <1>0, <2>1 DEF BucketsHeld
<1>2. ASSUME NEW r \in Requests, NEW n \in BookCounts, WriteGrade(r, n)
      PROVE  BucketsHeld'
    BY <1>0, <1>2 DEF WriteGrade, tables, BucketsHeld
<1>3. ASSUME NEW r \in Requests, CommitEnd(r)
      PROVE  BucketsHeld'
    <2> DEFINE u == req[r].user
               d == req[r].date
    <2>1. /\ pc[r] = "written" /\ u \in Users /\ d \in Dates
          /\ daily' = [daily EXCEPT ![u][d] = bucket[r]]
          /\ pc' = [pc EXCEPT ![r] = "committed"]
          /\ req' = req /\ bucket' = bucket
        BY <1>3 DEF CommitEnd, ActsForUser, InCompletion
    <2>2. SUFFICES ASSUME NEW q \in Requests, pc'[q] \in {"counted", "written"}
                   PROVE  /\ \A v \in Requests : HoldsDaily(v, req[q].user, req[q].date)' => v = q
                          /\ bucket[q] =
                                [seconds |-> daily'[req[q].user][req[q].date].seconds + req[q].seconds,
                                 count |-> daily'[req[q].user][req[q].date].count + 1]
        BY <2>1 DEF BucketsHeld
    <2>3. q # r /\ pc[q] \in {"counted", "written"} /\ pc'[r] = "committed"
        BY <1>0, <2>1, <2>2
    <2>4. ~(req[q].user = u /\ req[q].date = d)
        BY <1>0, <2>1, <2>3 DEF BucketsHeld
    <2>5. req[q].user \in Users /\ req[q].date \in Dates
        BY <2>3 DEF ActsForUser, InCompletion
    <2> HIDE DEF u, d
    <2>6. daily'[req[q].user][req[q].date] = daily[req[q].user][req[q].date]
        BY <1>0, <2>1, <2>4, <2>5
    <2>7. \A v \in Requests : HoldsDaily(v, req[q].user, req[q].date)' =>
                                   HoldsDaily(v, req[q].user, req[q].date)
        BY <1>0, <2>1
    <2>8. QED
        BY <1>0, <2>3, <2>6, <2>7 DEF BucketsHeld
<1>4. ASSUME NEW r \in Requests, NEW u \in Users, BeginStart(r, u)
      PROVE  BucketsHeld'
    BY <1>0, <1>4 DEF BeginStart, tables, BucketsHeld
<1>5. ASSUME NEW r \in Requests, NEW u \in Users, NEW s \in Sessions, NEW d \in Dates,
             NEW e \in Elapsed, NEW p \in Pauses, BeginEnd(r, u, s, d, e, p)
      PROVE  BucketsHeld'
    BY <1>0, <1>5 DEF BeginEnd, tables, BucketsHeld
<1>6. ASSUME NEW r \in Requests, NEW s \in Sessions, InsertStarted(r, s)
      PROVE  BucketsHeld'
    <2>1. /\ pc[r] = "inserting" /\ pc' = [pc EXCEPT ![r] = "inserted"]
          /\ \A q \in Requests \ {r} : req'[q] = req[q]
          /\ daily' = daily /\ bucket' = bucket
        BY <1>0, <1>6 DEF InsertStarted, tables
    <2>2. QED
        BY <1>0, <2>1 DEF BucketsHeld
<1>7. ASSUME NEW r \in Requests,
             \/ InsertRefused(r) \/ CommitStart(r) \/ EndSessionRow(r) \/ ReadGrade(r)
             \/ Rollback(r) \/ Deliver(r)
             \/ \E u \in Users, s \in Sessions, n \in ManualSeconds : LogManualSession(r, u, s, n)
      PROVE  BucketsHeld'
    <2>1. /\ daily' = daily /\ bucket' = bucket /\ req' = req
          /\ \A q \in Requests : pc'[q] \in {"counted", "written"} => pc'[q] = pc[q]
        BY <1>0, <1>7 DEF InsertRefused, CommitStart, EndSessionRow, ReadGrade, Rollback,
               Deliver, LogManualSession, tables
    <2>2. QED
        BY <1>0, <2>1 DEF BucketsHeld
<1>8. CASE Crash
    BY <1>0, <1>8 DEF Crash, BucketsHeld, InTransaction, tables
<1>9. CASE UNCHANGED vars
    BY <1>0, <1>9 DEF vars, BucketsHeld
<1>10. QED
    BY <1>1, <1>2, <1>3, <1>4, <1>5, <1>6, <1>7, <1>8, <1>9 DEF Next, Begin, Proceed

LEMMA OutboxNext ==
    ASSUME TypeOK, ActsForUser, RecordInv, [Next]_vars
    PROVE  OutboxFilled'
<1>0. /\ pc \in [Requests -> InTransaction \cup Outcomes]
      /\ req \in [Requests -> RequestParams]
      /\ outbox \in [Requests -> Seq(Events)]
      /\ draft \in [Requests -> GradeRows] /\ snap \in [Requests -> GradeRows]
      /\ OutboxFilled
    BY DEF TypeOK, RecordInv
<1>1. ASSUME NEW r \in Requests, NEW n \in BookCounts, WriteGrade(r, n)
      PROVE  OutboxFilled'
    <2> DEFINE new == CompletedRow(snap[r], req[r].seconds, req[r].date, n)
    <2>1. /\ draft' = [draft EXCEPT ![r] = new]
          /\ outbox' = [outbox EXCEPT ![r] = StagedEvents(req[r], snap[r], new)]
          /\ pc' = [pc EXCEPT ![r] = "written"]
          /\ req' = req /\ snap' = snap
        BY <1>1 DEF WriteGrade
    <2> HIDE DEF new
    <2>2. QED
        BY <1>0, <2>1 DEF OutboxFilled
<1>2. ASSUME NEW r \in Requests, NEW s \in Sessions, InsertStarted(r, s)
      PROVE  OutboxFilled'
    <2>1. /\ pc' = [pc EXCEPT ![r] = "inserted"]
          /\ \A q \in Requests \ {r} : req'[q] = req[q]
          /\ outbox' = outbox /\ draft' = draft /\ snap' = snap
        BY <1>0, <1>2 DEF InsertStarted, bus
    <2>2. QED
        BY <1>0, <2>1 DEF OutboxFilled
<1>3. ASSUME NEW r \in Requests, CommitEnd(r)
      PROVE  OutboxFilled'
    BY <1>0, <1>3 DEF CommitEnd, OutboxFilled
<1>4. ASSUME NEW r \in Requests,
             \/ InsertRefused(r) \/ CommitStart(r) \/ EndSessionRow(r) \/ ReadGrade(r)
             \/ UpsertDaily(r) \/ Rollback(r) \/ Deliver(r) \/ Begin(r)
      PROVE  OutboxFilled'
    BY <1>0, <1>4, ZenonT(40) DEF InsertRefused, CommitStart, EndSessionRow, ReadGrade, UpsertDaily, Rollback,
           Deliver, Begin, BeginStart, BeginEnd, LogManualSession, bus, OutboxFilled
<1>5. CASE Crash
    BY <1>0, <1>5 DEF Crash, OutboxFilled, InTransaction
<1>6. CASE UNCHANGED vars
    BY <1>0, <1>6 DEF vars, bus, OutboxFilled
<1>7. QED
    BY <1>1, <1>2, <1>3, <1>4, <1>5, <1>6 DEF Next, Proceed

LEMMA RecordInvNext ==
    ASSUME TypeOK, ActsForUser, RecordInv, [Next]_vars
    PROVE  RecordInv'
BY FitsNext, RowsNext, BucketsNext, OutboxNext DEF RecordInv

--------------------------------------------------------------------------------
(* The steps                                                               *)

Completed == {r \in Requests : pc[r] = "committed" /\ req[r].op = "end"}

\* What a completion stages is what the record announces.
LEMMA Announced ==
    ASSUME NEW q \in RequestParams, NEW old \in GradeRows, NEW new \in GradeRows
    PROVE  StagedEvents(q, old, new) \in Record!Announcements(q.user, q.sid, q.date, q.seconds)
<1>1. old.rank \in Ranks /\ new.rank \in Ranks
    BY DEF GradeRows
<1>2. QED
    BY <1>1 DEF StagedEvents, Record!Announcements

LEMMA RecordStep ==
    ASSUME TypeOK, ActsForUser, OneActiveInv, RecordInv, [Next]_vars
    PROVE  [Record!RecordNext]_(Record!record)
<1> DEFINE Same == /\ session' = session /\ daily' = daily /\ task' = task
                   /\ delivered' = delivered /\ Completed' = Completed
<1>0. /\ pc \in [Requests -> InTransaction \cup Outcomes]
      /\ req \in [Requests -> RequestParams]
      /\ session \in [Sessions -> SessionRows]
      /\ RequestFits /\ RowsKnown
    BY DEF TypeOK, RecordInv
<1>1. Same => UNCHANGED Record!record
    BY DEF Record!record, Completed
<1> USE DEF InCompletion
<1>2. ASSUME NEW r \in Requests, NEW u \in Users, BeginStart(r, u)
      PROVE  Same
    BY <1>0, <1>2 DEF BeginStart, tables, bus, Completed
<1>3. ASSUME NEW r \in Requests, NEW u \in Users, NEW s \in Sessions, NEW d \in Dates,
             NEW e \in Elapsed, NEW p \in Pauses, BeginEnd(r, u, s, d, e, p)
      PROVE  Same
    BY <1>0, <1>3 DEF BeginEnd, tables, bus, Completed
<1>4. ASSUME NEW r \in Requests, NEW s \in Sessions, InsertStarted(r, s)
      PROVE  Same
    BY <1>0, <1>4 DEF InsertStarted, tables, bus, Completed
<1>5. ASSUME NEW r \in Requests,
             \/ InsertRefused(r) \/ EndSessionRow(r) \/ ReadGrade(r) \/ UpsertDaily(r)
             \/ (\E n \in BookCounts : WriteGrade(r, n)) \/ Rollback(r)
      PROVE  Same
    BY <1>0, <1>5 DEF InsertRefused, EndSessionRow, ReadGrade, UpsertDaily, WriteGrade, Rollback,
           InTransaction, tables, bus, Completed
<1>6. ASSUME NEW r \in Requests, NEW u \in Users, NEW s \in Sessions, NEW n \in ManualSeconds,
             LogManualSession(r, u, s, n)
      PROVE  Record!LogByHand(u, s, n)
    <2>1. /\ pc[r] = "idle" /\ session[s].state = "free"
          /\ session' = [session EXCEPT ![s] =
                 [owner |-> u, state |-> "ended", source |-> "manual", seconds |-> n]]
          /\ pc' = [pc EXCEPT ![r] = "committed"] /\ req' = req
          /\ daily' = daily /\ task' = task /\ delivered' = delivered
        BY <1>6 DEF LogManualSession, bus
    <2>2. session[s] = Record!Free
        BY <1>0, <2>1 DEF RowsKnown, NoRow, Record!Free
    <2>3. req[r].op # "end"
        BY <1>0, <2>1 DEF RequestFits, NoRequest
    <2>4. Completed' = Completed
        BY <1>0, <2>1, <2>3 DEF Completed
    <2>5. QED
        BY <2>1, <2>2, <2>4 DEF Record!LogByHand, Completed
<1>7. ASSUME NEW r \in Requests, CommitStart(r)
      PROVE  \E u \in Users, s \in Sessions : Record!Start(u, s)
    <2> DEFINE u == req[r].user
               s == req[r].sid
    <2>1. /\ pc[r] = "inserted"
          /\ session' = [session EXCEPT ![s] = [NoRow EXCEPT !.owner = u, !.state = "active"]]
          /\ pc' = [pc EXCEPT ![r] = "committed"] /\ req' = req
          /\ daily' = daily /\ task' = task /\ delivered' = delivered
        BY <1>7 DEF CommitStart, bus
    <2>2. u \in Users /\ req[r].op = "start" /\ s \in Sessions /\ session[s] = NoRow
        BY <1>0, <2>1 DEF RequestFits, RowsKnown
    <2>3. Record!Running(u) = {}
        BY <2>1 DEF OneActiveInv, InsertExclusive, ActiveOf, Record!Running
    <2>4. Completed' = Completed
        BY <1>0, <2>1, <2>2 DEF Completed
    <2>5. session' = [session EXCEPT ![s].owner = u, ![s].state = "active"]
        <3>1. [session EXCEPT ![s].owner = u, ![s].state = "active"] =
                  [session EXCEPT ![s] = [[session[s] EXCEPT !.owner = u] EXCEPT !.state = "active"]]
            BY <1>0, <2>2 DEF SessionRows
        <3>2. QED
            BY <2>1, <2>2, <3>1
    <2> HIDE DEF u, s
    <2>6. Record!Start(u, s)
        BY <2>1, <2>2, <2>3, <2>4, <2>5 DEF Record!Start, Record!Free, NoRow, Completed
    <2>7. QED
        BY <2>2, <2>6
<1>8. ASSUME NEW r \in Requests, CommitEnd(r)
      PROVE  \E u \in Users, s \in Sessions, d \in Dates, n \in Credits :
                 Record!Complete(r, u, s, d, n)
    <2>1. pc[r] = "written" /\ pc' = [pc EXCEPT ![r] = "committed"] /\ req' = req
          /\ delivered' = delivered
        BY <1>8 DEF CommitEnd
    <2>2. PICK u \in Users, s \in Sessions, d \in Dates, n \in Credits :
              /\ req[r].user = u /\ req[r].sid = s /\ req[r].date = d /\ req[r].seconds = n
        BY <1>0, <2>1 DEF RequestFits, ActsForUser
    <2>3. /\ session' = [session EXCEPT ![s].state = "ended", ![s].seconds = n]
          /\ daily' = [daily EXCEPT ![u][d] = bucket[r]]
          /\ task' = [task EXCEPT ![r] = outbox[r]]
        BY <1>8, <2>2 DEF CommitEnd
    <2>4. session[s].owner = u /\ session[s].state # "free" /\ req[r].op = "end"
        BY <1>0, <2>1, <2>2 DEF RowsKnown, RequestFits
    <2>5. bucket[r] = [seconds |-> daily[u][d].seconds + n, count |-> daily[u][d].count + 1]
        BY <2>1, <2>2 DEF RecordInv, BucketsHeld
    <2>6. outbox[r] \in Record!Announcements(u, s, d, n)
        <3>1. outbox[r] = StagedEvents(req[r], snap[r], draft[r])
            BY <2>1 DEF RecordInv, OutboxFilled
        <3>2. QED
            BY <2>2, <3>1, Announced DEF TypeOK
    <2>7. r \notin Completed /\ Completed' = Completed \cup {r}
        BY <1>0, <2>1, <2>4 DEF Completed
    <2>8. daily' = [daily EXCEPT ![u][d] =
                       [seconds |-> daily[u][d].seconds + n, count |-> daily[u][d].count + 1]]
        BY <2>3, <2>5
    <2>9. Record!Complete(r, u, s, d, n)
        BY <2>1, <2>3, <2>4, <2>6, <2>7, <2>8 DEF Record!Complete, Completed
    <2>10. QED
        BY <2>9
<1>9. ASSUME NEW r \in Requests, Deliver(r)
      PROVE  Record!Announce(r)
    BY <1>0, <1>9 DEF Deliver, tables, Record!Announce, Completed
<1>10. ASSUME Crash
       PROVE  Record!Forget
    BY <1>0, <1>10 DEF Crash, tables, InTransaction, Record!Forget, Completed
<1>11. CASE UNCHANGED vars
    BY <1>1, <1>11 DEF vars, Completed
<1>12. QED
    BY <1>1, <1>2, <1>3, <1>4, <1>5, <1>6, <1>7, <1>8, <1>9, <1>10, <1>11
       DEF Next, Begin, Proceed, Record!RecordNext, Credits

LEMMA RecordInitStep == Init => Record!RecordInit
BY DEF Init, Record!RecordInit, Record!Free, NoRow, NoBucket, NoRequest

\* The transactions, locks and statements of the reading-session requests
\* implement requests that take effect one at a time.
THEOREM CompletionImplementsRecord == Spec => AtomicRecord
<1>1. Init => TypeOK /\ ActsForUser /\ OneActiveInv /\ RecordInv
    BY TypeInit, RecordInvInit
       DEF Init, ActsForUser, InCompletion, OneActiveInv, OneActiveSession, InsertExclusive,
           ActiveOf, NoRow
<1>2. TypeOK /\ ActsForUser /\ OneActiveInv /\ RecordInv /\ [Next]_vars
          => (TypeOK /\ ActsForUser /\ OneActiveInv /\ RecordInv)'
    BY TypeNext, ActsNext, OneActiveNext, RecordInvNext
<1>3. TypeOK /\ ActsForUser /\ OneActiveInv /\ RecordInv /\ [Next]_vars
          => [Record!RecordNext]_(Record!record)
    BY RecordStep
<1>4. QED
    BY <1>1, <1>2, <1>3, RecordInitStep, PTL DEF Spec, AtomicRecord, Record!RecordSpec

--------------------------------------------------------------------------------
(***************************************************************************)
(* Sums over finite sets of requests.  MapThenSumSet unfolds to a function   *)
(* on the subsets of its set that takes away one element after another; that *)
(* there is one, that it does not matter in what order, and what one element *)
(* more adds, follow from the least subset that would be an exception.       *)
(***************************************************************************)

\* The seconds of the requests of a set.
Total(q, S) == MapThenSumSet(LAMBDA r : q[r].seconds, S)

OneOf(s) == CHOOSE x \in s : TRUE

\* The function Total unfolds to.
Sums(q, S, g) ==
    g = [s \in SUBSET S |-> IF s = {} THEN 0 ELSE q[OneOf(s)].seconds + g[s \ {OneOf(s)}]]

\* The same without a word on its domain.
Adds(q, S, g) ==
    \A s \in SUBSET S : g[s] = IF s = {} THEN 0 ELSE q[OneOf(s)].seconds + g[s \ {OneOf(s)}]

LEMMA OneIsIn ==
    ASSUME NEW s, s # {}
    PROVE  OneOf(s) \in s
BY DEF OneOf

LEMMA SumsAdd ==
    ASSUME NEW q, NEW S, NEW g, Sums(q, S, g)
    PROVE  Adds(q, S, g)
BY DEF Sums, Adds

LEMMA TotalUnfolds ==
    ASSUME NEW q, NEW S, \E g : Sums(q, S, g)
    PROVE  \E g : Adds(q, S, g) /\ Total(q, S) = g[S]
<1> DEFINE h == CHOOSE g : Sums(q, S, g)
<1>1. Sums(q, S, h)
  BY Zenon
<1>2. Total(q, S) = h[S]
  BY DEF Total, MapThenSumSet, MapThenFoldSet, Sums, OneOf
<1> QED
  BY <1>1, <1>2, SumsAdd

\* Every member of T is a finite part of S.
FiniteParts(S, T) == \A t \in T : t \subseteq S /\ IsFiniteSet(t)

\* Of sets of finite sets, one member has no other in it.
LEMMA LeastSet ==
    ASSUME NEW S, NEW T, T # {}, FiniteParts(S, T)
    PROVE  \E m \in T : \A t \in T : t \subseteq m => t = m
<1>1. T \subseteq FiniteSubsetsOf(S)
  BY DEF FiniteSubsetsOf, FiniteParts
<1>2. PICK m \in T : \A t \in T : <<t, m>> \notin StrictSubsetOrdering(S)
  BY <1>1, FS_StrictSubsetOrderingWellFounded, WFMin
<1>3. ASSUME NEW t \in T, t \subseteq m
      PROVE  t = m
  <2>1. <<t, m>> \in (SUBSET S) \X (SUBSET S)
    BY DEF FiniteParts
  <2> QED
    BY <1>2, <1>3, <2>1 DEF StrictSubsetOrdering
<1> QED
  BY <1>3

LEMMA SumsAgree ==
    ASSUME NEW q, NEW p, NEW S, NEW T, NEW g, NEW h, Adds(q, S, g), Adds(p, T, h),
           NEW s, s \subseteq S, s \subseteq T, IsFiniteSet(s), \A r \in s : q[r].seconds = p[r].seconds
    PROVE  g[s] = h[s]
<1> DEFINE Bad == {t \in SUBSET s : g[t] # h[t]}
<1>1. ASSUME NEW t \in Bad
      PROVE  t \subseteq s /\ IsFiniteSet(t)
  BY FS_Subset
<1>2. ASSUME Bad # {}
      PROVE  FALSE
  <2>1. PICK m \in Bad : \A t \in Bad : t \subseteq m => t = m
    <3>1. PICK B : B = Bad
      OBVIOUS
    <3>2. B # {} /\ FiniteParts(s, B)
      BY <1>1, <1>2, <3>1 DEF FiniteParts
    <3>3. \E m \in B : \A t \in B : t \subseteq m => t = m
      BY <3>2, LeastSet
    <3> QED
      BY <3>1, <3>3
  <2>2. m \subseteq s /\ m \subseteq S /\ m \subseteq T /\ g[m] # h[m]
    OBVIOUS
  <2>3. CASE m = {}
    BY <2>2, <2>3 DEF Adds
  <2>4. CASE m # {}
    <3>1. PICK x : x = OneOf(m) /\ x \in m
      BY <2>4, OneIsIn
    <3>2. g[m] = q[x].seconds + g[m \ {x}] /\ h[m] = p[x].seconds + h[m \ {x}]
      BY <2>2, <2>4, <3>1 DEF Adds
    <3>3. m \ {x} \notin Bad
      BY <2>1, <3>1
    <3> QED
      BY <2>2, <3>1, <3>2, <3>3
  <2> QED
    BY <2>3, <2>4
<1> QED
  BY <1>2

LEMMA SumsExist ==
    ASSUME NEW q, NEW S, IsFiniteSet(S)
    PROVE  \E g : Sums(q, S, g)
<1> DEFINE Bad == {t \in SUBSET S : ~\E g : Sums(q, t, g)}
<1>1. ASSUME NEW t \in Bad
      PROVE  t \subseteq S /\ IsFiniteSet(t)
  BY FS_Subset
<1>2. ASSUME Bad # {}
      PROVE  FALSE
  <2>1. PICK m \in Bad : \A t \in Bad : t \subseteq m => t = m
    <3>1. PICK B : B = Bad
      OBVIOUS
    <3>2. B # {} /\ FiniteParts(S, B)
      BY <1>1, <1>2, <3>1 DEF FiniteParts
    <3>3. \E m \in B : \A t \in B : t \subseteq m => t = m
      BY <3>2, LeastSet
    <3> QED
      BY <3>1, <3>3
  <2>2. IsFiniteSet(m) /\ m \in SUBSET S
    BY <1>1
  <2> DEFINE G(s) == CHOOSE g : Sums(q, s, g)
             top == IF m = {} THEN 0 ELSE q[OneOf(m)].seconds + G(m \ {OneOf(m)})[m \ {OneOf(m)}]
             h == [s \in SUBSET m |-> IF s = m THEN top ELSE G(s)[s]]
  <2>3. ASSUME NEW s \in SUBSET m, s # m
        PROVE  Sums(q, s, G(s)) /\ Adds(q, s, G(s)) /\ IsFiniteSet(s)
    <3>1. s \notin Bad /\ s \in SUBSET S
      BY <2>1, <2>2, <2>3
    <3>2. \E g : Sums(q, s, g)
      BY <3>1
    <3>3. Sums(q, s, G(s))
      BY <3>2, Zenon
    <3> QED
      BY <2>2, <3>3, SumsAdd, FS_Subset
  <2> HIDE DEF G
  <2>4. ASSUME NEW s \in SUBSET m
        PROVE  h[s] = IF s = {} THEN 0 ELSE q[OneOf(s)].seconds + h[s \ {OneOf(s)}]
    <3>1. CASE s = m /\ m = {}
      BY <3>1
    <3>2. CASE s = m /\ m # {}
      <4>1. OneOf(m) \in m
        BY <3>2, OneIsIn
      <4>2. h[m \ {OneOf(m)}] = G(m \ {OneOf(m)})[m \ {OneOf(m)}]
        BY <4>1
      <4> QED
        BY <3>2, <4>2
    <3>3. CASE s # m /\ s = {}
      BY <2>3, <3>3 DEF Adds
    <3>4. CASE s # m /\ s # {}
      <4>1. PICK x : x = OneOf(s) /\ x \in s
        BY <3>4, OneIsIn
      <4>6. PICK t : t = s \ {x}
        OBVIOUS
      <4>2. t = s \ {x} /\ t \in SUBSET m /\ t # m /\ t \subseteq s
        BY <4>1, <4>6
      <4>3. G(s)[t] = G(t)[t]
        BY <2>3, <3>4, <4>2, SumsAgree
      <4>4. G(s)[s] = q[x].seconds + G(s)[t]
        BY <2>3, <3>4, <4>1, <4>2 DEF Adds
      <4>5. h[s] = G(s)[s] /\ h[t] = G(t)[t]
        BY <3>4, <4>2
      <4> QED
        BY <3>4, <4>1, <4>2, <4>3, <4>4, <4>5
    <3> QED
      BY <3>1, <3>2, <3>3, <3>4
  <2>5. h = [s \in SUBSET m |-> h[s]]
    OBVIOUS
  <2> HIDE DEF h
  <2>6. Sums(q, m, h)
    BY <2>4, <2>5 DEF Sums
  <2> QED
    BY <2>6
<1>3. S \notin Bad
  BY <1>2
<1> QED
  BY <1>3

LEMMA SumsTyped ==
    ASSUME NEW q, NEW S, NEW g, Adds(q, S, g), IsFiniteSet(S), \A r \in S : q[r].seconds \in Nat,
           NEW s, s \subseteq S
    PROVE  g[s] \in Nat
<1> DEFINE Bad == {t \in SUBSET S : g[t] \notin Nat}
<1>1. ASSUME NEW t \in Bad
      PROVE  t \subseteq S /\ IsFiniteSet(t)
  BY FS_Subset
<1>2. ASSUME Bad # {}
      PROVE  FALSE
  <2>1. PICK m \in Bad : \A t \in Bad : t \subseteq m => t = m
    <3>1. PICK B : B = Bad
      OBVIOUS
    <3>2. B # {} /\ FiniteParts(S, B)
      BY <1>1, <1>2, <3>1 DEF FiniteParts
    <3>3. \E m \in B : \A t \in B : t \subseteq m => t = m
      BY <3>2, LeastSet
    <3> QED
      BY <3>1, <3>3
  <2>2. m \subseteq S /\ g[m] \notin Nat
    OBVIOUS
  <2>3. m # {}
    <3>1. {} \in SUBSET S
      OBVIOUS
    <3>2. g[{}] = 0
      BY <3>1 DEF Adds
    <3> QED
      BY <2>2, <3>2
  <2>4. PICK x : x = OneOf(m) /\ x \in m
    BY <2>3, OneIsIn
  <2>5. g[m] = q[x].seconds + g[m \ {x}] /\ q[x].seconds \in Nat
    BY <2>2, <2>3, <2>4 DEF Adds
  <2>6. g[m \ {x}] \in Nat
    BY <2>1, <2>2, <2>4
  <2> QED
    BY <2>2, <2>5, <2>6
<1> QED
  BY <1>2

\* Whichever element is taken away first.
LEMMA SumsTakeAway ==
    ASSUME NEW q, NEW S, NEW g, Adds(q, S, g), IsFiniteSet(S), \A r \in S : q[r].seconds \in Nat,
           NEW s, s \subseteq S, NEW y \in s
    PROVE  g[s] = q[y].seconds + g[s \ {y}]
<1> DEFINE Bad == {t \in SUBSET S : \E x \in t : g[t] # q[x].seconds + g[t \ {x}]}
<1>1. ASSUME NEW t \in Bad
      PROVE  t \subseteq S /\ IsFiniteSet(t)
  BY FS_Subset
<1>2. ASSUME Bad # {}
      PROVE  FALSE
  <2>1. PICK m \in Bad : \A t \in Bad : t \subseteq m => t = m
    <3>1. PICK B : B = Bad
      OBVIOUS
    <3>2. B # {} /\ FiniteParts(S, B)
      BY <1>1, <1>2, <3>1 DEF FiniteParts
    <3>3. \E m \in B : \A t \in B : t \subseteq m => t = m
      BY <3>2, LeastSet
    <3> QED
      BY <3>1, <3>3
  <2>2. PICK x \in m : g[m] # q[x].seconds + g[m \ {x}]
    BY <2>1
  <2>3. m \subseteq S /\ m # {}
    BY <2>1, <2>2
  <2>4. PICK z : z = OneOf(m) /\ z \in m
    BY <2>3, OneIsIn
  <2>5. g[m] = q[z].seconds + g[m \ {z}]
    BY <2>3, <2>4 DEF Adds
  <2>6. x # z
    BY <2>2, <2>5
  <2>7. PICK a, b, c : a = m \ {x} /\ b = m \ {z} /\ c = m \ {x, z}
    OBVIOUS
  <2>8. /\ a \in SUBSET S /\ b \in SUBSET S /\ c \in SUBSET S /\ a # m /\ b # m /\ a \subseteq m /\ b \subseteq m
        /\ z \in a /\ x \in b /\ a \ {z} = c /\ b \ {x} = c
    BY <2>2, <2>3, <2>4, <2>6, <2>7
  <2>9. g[a] = q[z].seconds + g[c] /\ g[b] = q[x].seconds + g[c]
    <3>1. a \notin Bad /\ b \notin Bad
      BY <2>1, <2>8
    <3> QED
      BY <2>8, <3>1
  <2>10. q[x].seconds \in Nat /\ q[z].seconds \in Nat /\ g[c] \in Nat
    BY <2>2, <2>3, <2>4, <2>8, SumsTyped
  <2> QED
    BY <2>2, <2>5, <2>7, <2>9, <2>10
<1> QED
  BY <1>2

LEMMA TotalOfNone ==
    ASSUME NEW q
    PROVE  Total(q, {}) = 0
BY SumsExist, TotalUnfolds, FS_EmptySet DEF Adds

LEMMA TotalTyped ==
    ASSUME NEW q, NEW S, IsFiniteSet(S), \A r \in S : q[r].seconds \in Nat
    PROVE  Total(q, S) \in Nat
BY SumsExist, TotalUnfolds, SumsTyped

LEMMA TotalSame ==
    ASSUME NEW q, NEW p, NEW S, IsFiniteSet(S), \A r \in S : q[r].seconds = p[r].seconds
    PROVE  Total(q, S) = Total(p, S)
<1>1. PICK g : Adds(q, S, g) /\ Total(q, S) = g[S]
  BY SumsExist, TotalUnfolds
<1>2. PICK h : Adds(p, S, h) /\ Total(p, S) = h[S]
  BY SumsExist, TotalUnfolds
<1> QED
  BY <1>1, <1>2, SumsAgree

\* One request more adds its seconds.
LEMMA TotalGrows ==
    ASSUME NEW q, NEW S, IsFiniteSet(S), NEW y, y \notin S, \A r \in S \cup {y} : q[r].seconds \in Nat
    PROVE  Total(q, S \cup {y}) = Total(q, S) + q[y].seconds
<1>1. PICK T : T = S \cup {y} /\ IsFiniteSet(T)
  BY FS_AddElement
<1>2. PICK g : Adds(q, T, g) /\ Total(q, T) = g[T]
  BY <1>1, SumsExist, TotalUnfolds
<1>3. PICK h : Adds(q, S, h) /\ Total(q, S) = h[S]
  BY SumsExist, TotalUnfolds
<1>4. g[S] = h[S]
  BY <1>1, <1>2, <1>3, SumsAgree
<1>5. T \ {y} = S /\ y \in T
  BY <1>1
<1>6. g[T] = q[y].seconds + g[S]
  BY <1>1, <1>2, <1>5, SumsTakeAway
<1>7. g[S] \in Nat /\ q[y].seconds \in Nat
  BY <1>1, <1>2, SumsTyped
<1> QED
  BY <1>1, <1>2, <1>3, <1>4, <1>6, <1>7

--------------------------------------------------------------------------------
(***************************************************************************)
(* HeatmapExact.  A bucket changes only with the commit of a completion,    *)
(* which holds its lock and writes the committed values plus its own         *)
(* (BucketsHeld); the same step adds the request to the completions of that  *)
(* user and day, and no later step touches what a committed request asked    *)
(* for.  Of infinitely many requests only finitely many have committed.      *)
(***************************************************************************)

HeatInv ==
    \A u \in Users, d \in Dates :
        /\ IsFiniteSet(Completions(u, d))
        /\ daily[u][d].count = Cardinality(Completions(u, d))
        /\ daily[u][d].seconds = Total(req, Completions(u, d))

Counts(r) == pc[r] = "committed" /\ req[r].op = "end"

LEMMA HeatMeant ==
    ASSUME HeatInv
    PROVE  HeatmapExact
BY DEF HeatInv, HeatmapExact, Total

LEMMA HeatInit ==
    ASSUME Init
    PROVE  HeatInv
<1> SUFFICES ASSUME NEW u \in Users, NEW d \in Dates
             PROVE  /\ IsFiniteSet(Completions(u, d))
                    /\ daily[u][d].count = Cardinality(Completions(u, d))
                    /\ daily[u][d].seconds = Total(req, Completions(u, d))
  BY DEF HeatInv
<1>1. Completions(u, d) = {} /\ daily[u][d] = NoBucket
  BY DEF Init, Completions
<1> QED
  BY <1>1, FS_EmptySet, TotalOfNone DEF NoBucket

\* Steps that commit no completion.
LEMMA HeatKept ==
    ASSUME HeatInv, daily' = daily,
           \A r \in Requests : Counts(r)' = Counts(r) /\ (Counts(r) => req'[r] = req[r])
    PROVE  HeatInv'
<1> SUFFICES ASSUME NEW u \in Users, NEW d \in Dates
             PROVE  /\ IsFiniteSet(Completions(u, d)')
                    /\ daily'[u][d].count = Cardinality(Completions(u, d)')
                    /\ daily'[u][d].seconds = Total(req', Completions(u, d)')
  BY DEF HeatInv
<1>1. Completions(u, d)' = Completions(u, d)
  BY DEF Completions, Counts
<1>2. \A r \in Completions(u, d) : req[r].seconds = req'[r].seconds
  BY DEF Completions, Counts
<1>3. IsFiniteSet(Completions(u, d))
  BY DEF HeatInv
<1>4. Total(req, Completions(u, d)) = Total(req', Completions(u, d))
  BY <1>2, <1>3, TotalSame
<1> QED
  BY <1>1, <1>4 DEF HeatInv

LEMMA HeatCommitted ==
    ASSUME TypeOK, ActsForUser, RecordInv, HeatInv, NEW r \in Requests, CommitEnd(r)
    PROVE  HeatInv'
<1> DEFINE a == req[r].user
           b == req[r].date
<1>1. /\ pc \in [Requests -> InTransaction \cup Outcomes]
      /\ req \in [Requests -> RequestParams]
      /\ daily \in [Users -> [Dates -> Buckets]]
  BY DEF TypeOK
<1>2. /\ pc[r] = "written" /\ pc' = [pc EXCEPT ![r] = "committed"] /\ req' = req
      /\ daily' = [daily EXCEPT ![a][b] = bucket[r]]
  BY DEF CommitEnd
<1>3. a \in Users /\ b \in Dates /\ req[r].op = "end"
  BY <1>2 DEF ActsForUser, InCompletion, RecordInv, RequestFits
<1>4. bucket[r] = [seconds |-> daily[a][b].seconds + req[r].seconds, count |-> daily[a][b].count + 1]
  BY <1>2 DEF RecordInv, BucketsHeld
<1> HIDE DEF a, b
<1> SUFFICES ASSUME NEW u \in Users, NEW d \in Dates
             PROVE  /\ IsFiniteSet(Completions(u, d)')
                    /\ daily'[u][d].count = Cardinality(Completions(u, d)')
                    /\ daily'[u][d].seconds = Total(req', Completions(u, d)')
  BY DEF HeatInv
<1>5. PICK S : S = Completions(u, d)
  OBVIOUS
<1>6. /\ IsFiniteSet(S) /\ daily[u][d].count = Cardinality(S)
      /\ daily[u][d].seconds = Total(req, S)
  BY <1>5 DEF HeatInv
<1>7. CASE u = a /\ d = b
  <2>1. Completions(u, d)' = S \cup {r} /\ r \notin S
    BY <1>1, <1>2, <1>3, <1>5, <1>7 DEF Completions, a, b
  <2>2. IsFiniteSet(S \cup {r}) /\ Cardinality(S \cup {r}) = Cardinality(S) + 1
    BY <1>6, <2>1, FS_AddElement
  <2>3. \A q \in S \cup {r} : req[q].seconds \in Nat
    BY <1>1, <1>5 DEF Completions, RequestParams
  <2>4. Total(req, S \cup {r}) = Total(req, S) + req[r].seconds
    BY <1>6, <2>1, <2>3, TotalGrows
  <2>5. daily'[u][d] = [seconds |-> daily[u][d].seconds + req[r].seconds, count |-> daily[u][d].count + 1]
    BY <1>1, <1>2, <1>3, <1>4, <1>7
  <2> QED
    BY <1>2, <1>6, <2>1, <2>2, <2>4, <2>5
<1>8. CASE ~(u = a /\ d = b)
  <2>1. Completions(u, d)' = S
    BY <1>1, <1>2, <1>5, <1>8 DEF Completions, a, b
  <2>2. daily'[u][d] = daily[u][d]
    BY <1>1, <1>2, <1>3, <1>8
  <2> QED
    BY <1>2, <1>6, <2>1, <2>2
<1> QED
  BY <1>7, <1>8

LEMMA HeatNext ==
    ASSUME TypeOK, ActsForUser, RecordInv, HeatInv, [Next]_vars
    PROVE  HeatInv'
<1> DEFINE Kept == /\ daily' = daily
                   /\ \A q \in Requests : Counts(q)' = Counts(q) /\ (Counts(q) => req'[q] = req[q])
<1>0. /\ pc \in [Requests -> InTransaction \cup Outcomes]
      /\ req \in [Requests -> RequestParams]
      /\ RequestFits
  BY DEF TypeOK, RecordInv
<1>1. Kept => HeatInv'
  BY HeatKept
<1> USE DEF Counts
<1>2. ASSUME NEW r \in Requests, NEW u \in Users, BeginStart(r, u)
      PROVE  Kept
  BY <1>0, <1>2 DEF BeginStart, tables
<1>3. ASSUME NEW r \in Requests, NEW u \in Users, NEW s \in Sessions, NEW d \in Dates,
             NEW e \in Elapsed, NEW p \in Pauses, BeginEnd(r, u, s, d, e, p)
      PROVE  Kept
  BY <1>0, <1>3 DEF BeginEnd, tables
<1>4. ASSUME NEW r \in Requests, NEW s \in Sessions, InsertStarted(r, s)
      PROVE  Kept
  BY <1>0, <1>4 DEF InsertStarted, tables
<1>5. ASSUME NEW r \in Requests,
             \/ InsertRefused(r) \/ EndSessionRow(r) \/ ReadGrade(r) \/ UpsertDaily(r)
             \/ (\E n \in BookCounts : WriteGrade(r, n)) \/ Rollback(r) \/ Deliver(r)
      PROVE  Kept
  BY <1>0, <1>5 DEF InsertRefused, EndSessionRow, ReadGrade, UpsertDaily, WriteGrade, Rollback,
         Deliver, InTransaction, tables
<1>6. ASSUME NEW r \in Requests, NEW u \in Users, NEW s \in Sessions, NEW n \in ManualSeconds,
             LogManualSession(r, u, s, n)
      PROVE  Kept
  BY <1>0, <1>6 DEF LogManualSession, RequestFits, NoRequest
<1>7. ASSUME NEW r \in Requests, CommitStart(r)
      PROVE  Kept
  BY <1>0, <1>7 DEF CommitStart, RequestFits
<1>8. CASE Crash
  BY <1>0, <1>1, <1>8 DEF Crash, InTransaction, tables
<1>9. CASE UNCHANGED vars
  BY <1>1, <1>9 DEF vars, tables
<1>10. ASSUME NEW r \in Requests, CommitEnd(r)
       PROVE  HeatInv'
  BY <1>10, HeatCommitted
<1> QED
  BY <1>1, <1>2, <1>3, <1>4, <1>5, <1>6, <1>7, <1>8, <1>9, <1>10 DEF Next, Begin, Proceed

\* However completions, failures and crashes interleave, the bucket of a user
\* and day holds the number and the seconds of the completions committed for
\* it: daily_stats.upsert loses no increment and repeats none.
THEOREM HeatmapIsExact == Spec => []HeatmapExact
<1>1. Init => TypeOK /\ ActsForUser /\ RecordInv /\ HeatInv
  BY TypeInit, RecordInvInit, HeatInit DEF Init, ActsForUser, InCompletion
<1>2. TypeOK /\ ActsForUser /\ RecordInv /\ HeatInv /\ [Next]_vars
          => (TypeOK /\ ActsForUser /\ RecordInv /\ HeatInv)'
  BY TypeNext, ActsNext, RecordInvNext, HeatNext
<1>3. HeatInv => HeatmapExact
  BY HeatMeant
<1> QED
  BY <1>1, <1>2, <1>3, PTL DEF Spec

================================================================================
