------------------------------ MODULE ServiceClock ------------------------------
(***************************************************************************)
(* What the modules of the smaller services share: the users, the clock the *)
(* rows are stamped with, and the tokens of requests in flight.  A request  *)
(* is in flight between what it reads and what it commits; other requests   *)
(* commit in between, and it never looks again at what it has loaded        *)
(* (core/db.py: one AsyncSession per request, READ COMMITTED).              *)
(***************************************************************************)
EXTENDS Integers, FiniteSets

CONSTANTS Users, NoUser, LastTime

ASSUME ClockAssumption == LastTime \in Nat /\ NoUser \notin Users

VARIABLE now

Times == 0 .. LastTime

\* A stamp that is not set: a NULL column.
Never == -1
Stamps == Times \cup {Never}

ClockInit == now = 0

Tick == now < LastTime /\ now' = now + 1

================================================================================
