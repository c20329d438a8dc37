----------------------------- MODULE Services_proofs -----------------------------
(***************************************************************************)
(* Theorems about the services around reading, each of the specification    *)
(* that composes a component with the clock it runs under: accounts and     *)
(* their administrators, referrals, reminders and notifications, places,    *)
(* coupons, seats and the assistant's limits, and recommendations.          *)
(***************************************************************************)
EXTENDS Limits, Referral, Notifications, Discovery, FiniteSetTheorems, TLAPS

--------------------------------------------------------------------------------
(***************************************************************************)
(* Accounts and administrators, for any number of users, clients and         *)
(* requests.  Tokens: what a client holds and what a login has found was     *)
(* looked at before the account was deleted, since every deletion is later   *)
(* than all looks so far.  The flag: a revocation in flight leaves somebody  *)
(* else, as long as nothing has happened that it could not see.              *)
(***************************************************************************)

ConsoleNext ==
    \/ AdministrationNext
    \/ SignIns /\ UNCHANGED administration
    \/ Tick /\ UNCHANGED <<accounts, administration>>

ConsoleVars == <<now, accounts, administration>>

ConsoleSpec == ClockInit /\ AccountsInit /\ AdministrationInit /\ [][ConsoleNext]_ConsoleVars

AccountRows == [life : {"unused", "live", "gone"}, identity : Identities \cup {NoIdentity},
         trialEnds : Int, deleted : Int]
Tokens == [user : Users \cup {NoUser}, access : Int, refresh : Int, read : Int]
Logins == {NoLogin} \cup [op : {"login"}, client : Clients, identity : Identities, read : Int,
                          found : Users \cup {NoUser}]

AccountsTyped ==
    /\ now \in Int
    /\ account \in [Users -> AccountRows] /\ session \in [Clients -> Tokens] /\ login \in [LoginCalls -> Logins]
    /\ \A u \in Users : account[u].life = "unused" <=> account[u].identity = NoIdentity

\* Only what has a row is found or signed in to.
RowsFirst ==
    \A u \in Users : account[u].life = "unused" =>
        /\ \A c \in Clients : session[c].user # u
        /\ \A r \in LoginCalls : login[r].op = "login" => login[r].found # u

\* Nothing was looked at in the future.
LooksPast ==
    /\ \A c \in Clients : session[c].read <= now
    /\ \A r \in LoginCalls : login[r].op = "login" => login[r].read <= now

\* What was found of an account that is deleted was found before.
GoneUnseen ==
    \A u \in Users : account[u].life = "gone" =>
        /\ \A c \in Clients : session[c].user = u => session[c].read <= account[u].deleted
        /\ \A r \in LoginCalls :
              (login[r].op = "login" /\ login[r].found = u) => login[r].read <= account[u].deleted

OneEach ==
    \A u, v \in Users :
        (account[u].life # "unused" /\ account[v].identity = account[u].identity) => u = v

AccountsInv == AccountsTyped /\ RowsFirst /\ LooksPast /\ GoneUnseen /\ OneEach

--------------------------------------------------------------------------------
(* Accounts                                                                *)

LEMMA AccountsStart ==
    ASSUME ClockInit, AccountsInit
    PROVE  AccountsInv
BY ClockAssumption, AccountsAssumption
DEF ClockInit, AccountsInit, AccountsInv, AccountsTyped, RowsFirst, LooksPast, GoneUnseen, OneEach, AccountRows, Tokens,
    Logins, NoAccount, SignedOut, NoLogin, Never

LEMMA TokensTyped ==
    ASSUME AccountsTyped, NEW u \in Users \cup {NoUser}, NEW read \in Int
    PROVE  /\ IssueTokens(u, read) \in Tokens
           /\ IssueTokens(u, read).user = u /\ IssueTokens(u, read).read = read
BY AccountsAssumption DEF AccountsTyped, IssueTokens, Tokens

\* A login remembers a live account, or none.
LEMMA LoginKeeps ==
    ASSUME AccountsInv, NEW r \in LoginCalls, NEW c \in Clients, NEW i \in Identities, Login(r, c, i)
    PROVE  AccountsInv'
<1> DEFINE f == IF OfIdentity(i) = {} THEN NoUser ELSE CHOOSE u \in OfIdentity(i) : TRUE
           l == [op |-> "login", client |-> c, identity |-> i, read |-> now, found |-> f]
<1> USE DEF AccountsInv
<1>1. f \in Users \cup {NoUser} /\ (f \in Users => account[f].life = "live")
  <2>1. CASE OfIdentity(i) = {}
    BY <2>1, ClockAssumption
  <2>2. CASE OfIdentity(i) # {}
    <3>1. f \in OfIdentity(i)
      BY <2>2
    <3> QED
      BY <3>1 DEF OfIdentity, Alive
  <2> QED
    BY <2>1, <2>2
<1>2. login' = [login EXCEPT ![r] = l] /\ UNCHANGED <<now, account, session>>
  BY DEF Login
<1> HIDE DEF f
<1>3. l \in Logins /\ l.op = "login" /\ l.read = now /\ l.found = f
  BY <1>1 DEF Logins, AccountsTyped
<1> HIDE DEF l
<1>4. \A q \in LoginCalls : login'[q] = IF q = r THEN l ELSE login[q]
  BY <1>2 DEF AccountsTyped
<1>5. AccountsTyped'
  BY <1>2, <1>3 DEF AccountsTyped
<1>6. LooksPast'
  BY <1>2, <1>3, <1>4 DEF LooksPast, AccountsTyped
<1>7. GoneUnseen'
  BY <1>1, <1>2, <1>3, <1>4 DEF GoneUnseen
<1>8. OneEach'
  BY <1>2 DEF OneEach
<1>9. RowsFirst'
  BY <1>1, <1>2, <1>3, <1>4 DEF RowsFirst
<1> QED
  BY <1>5, <1>6, <1>7, <1>8, <1>9

\* A login that is over leaves the others.
LEMMA DoneLeaves ==
    ASSUME AccountsTyped, NEW r \in LoginCalls, login' = [login EXCEPT ![r] = NoLogin]
    PROVE  /\ login' \in [LoginCalls -> Logins]
           /\ \A q \in LoginCalls : login'[q].op = "login" => login'[q] = login[q]
BY DEF AccountsTyped, Logins, NoLogin

\* A client signs in to an account on the strength of a look at it that is not
\* later than a deletion of it.
LEMMA SignInKeeps ==
    ASSUME AccountsInv, UNCHANGED <<now, account>>, NEW c \in Clients,
           NEW u \in Users \cup {NoUser}, NEW read \in Int,
           session' = [session EXCEPT ![c] = IssueTokens(u, read)],
           login' \in [LoginCalls -> Logins],
           \A q \in LoginCalls : login'[q].op = "login" => login'[q] = login[q],
           read <= now, (u \in Users /\ account[u].life = "gone") => read <= account[u].deleted,
           u \in Users => account[u].life # "unused"
    PROVE  AccountsInv'
<1> USE DEF AccountsInv
<1> DEFINE k == IssueTokens(u, read)
<1>1. k \in Tokens /\ k.user = u /\ k.read = read
  BY TokensTyped
<1> HIDE DEF k
<1>2. session' = [session EXCEPT ![c] = k]
  BY DEF k
<1>3. \A d \in Clients : session'[d] = IF d = c THEN k ELSE session[d]
  BY <1>2 DEF AccountsTyped
<1>4. AccountsTyped'
  BY <1>1, <1>2 DEF AccountsTyped
<1>5. LooksPast'
  BY <1>1, <1>3 DEF LooksPast
<1>6. GoneUnseen'
  BY <1>1, <1>3 DEF GoneUnseen
<1>7. OneEach'
  BY DEF OneEach
<1>8. RowsFirst'
  BY <1>1, <1>3 DEF RowsFirst
<1> QED
  BY <1>4, <1>5, <1>6, <1>7, <1>8

LEMMA LoggedInKeeps ==
    ASSUME AccountsInv, NEW r \in LoginCalls, LoggedIn(r)
    PROVE  AccountsInv'
<1> PICK c, u, read : c = login[r].client /\ u = login[r].found /\ read = login[r].read
  OBVIOUS
<1>1. login[r].op = "login" /\ login[r] \in Logins /\ login[r] # NoLogin
  BY DEF LoggedIn, NoLogin, AccountsInv, AccountsTyped
<1>2. c \in Clients /\ u \in Users \cup {NoUser} /\ read \in Int
  BY <1>1 DEF Logins
<1>3. session' = [session EXCEPT ![c] = IssueTokens(u, read)] /\ UNCHANGED <<now, account>>
      /\ login' = [login EXCEPT ![r] = NoLogin]
  BY DEF LoggedIn, LoginDone
<1>4. /\ read <= now /\ ((u \in Users /\ account[u].life = "gone") => read <= account[u].deleted)
      /\ u \in Users => account[u].life # "unused"
  BY <1>1 DEF AccountsInv, LooksPast, GoneUnseen, RowsFirst
<1>5. /\ login' \in [LoginCalls -> Logins]
      /\ \A q \in LoginCalls : login'[q].op = "login" => login'[q] = login[q]
  BY <1>3, DoneLeaves DEF AccountsInv
<1> QED
  BY <1>2, <1>3, <1>4, <1>5, SignInKeeps

LEMMA RefreshKeeps ==
    ASSUME AccountsInv, NEW c \in Clients, Refresh(c)
    PROVE  AccountsInv'
<1> PICK u : u = session[c].user
  OBVIOUS
<1>1. u \in Users /\ account[u].life = "live" /\ now \in Int
  BY DEF Refresh, Alive, AccountsInv, AccountsTyped
<1>2. session' = [session EXCEPT ![c] = IssueTokens(u, now)] /\ UNCHANGED <<now, account, login>>
  BY DEF Refresh
<1>3. PICK read \in Int : read = now
  BY <1>1
<1>4. session' = [session EXCEPT ![c] = IssueTokens(u, read)]
  BY <1>2, <1>3
<1>5. /\ login' \in [LoginCalls -> Logins]
      /\ \A q \in LoginCalls : login'[q].op = "login" => login'[q] = login[q]
  BY <1>2 DEF AccountsInv, AccountsTyped
<1>6. read <= now /\ u \in Users \cup {NoUser}
  BY <1>1, <1>3
<1> QED
  BY <1>1, <1>2, <1>4, <1>5, <1>6, SignInKeeps

\* A row is inserted for an identity that no row had, with its first tokens.
LEMMA SignedUpKeeps ==
    ASSUME AccountsInv, NEW r \in LoginCalls, NEW u \in Users, SignedUp(r, u)
    PROVE  AccountsInv'
<1> USE DEF AccountsInv
<1> PICK c, i : c = login[r].client /\ i = login[r].identity
  OBVIOUS
<1> DEFINE k == IssueTokens(u, now)
           a == [life |-> "live", identity |-> i, trialEnds |-> now + TrialLength, deleted |-> Never]
<1>1. login[r].op = "login" /\ login[r] \in Logins /\ login[r] # NoLogin
  BY DEF SignedUp, NoLogin, AccountsTyped
<1>2. c \in Clients /\ i \in Identities /\ now \in Int
  BY <1>1 DEF Logins, AccountsTyped
<1>3. /\ \A v \in Users : account[v].life # "unused" => account[v].identity # i
      /\ account[u] = NoAccount
      /\ account' = [account EXCEPT ![u] = a] /\ session' = [session EXCEPT ![c] = k]
      /\ login' = [login EXCEPT ![r] = NoLogin] /\ now' = now
  BY DEF SignedUp, IdentityTaken, LoginDone
<1>4. k \in Tokens /\ k.user = u /\ k.read = now
  BY <1>2, TokensTyped
<1>5. a \in AccountRows /\ a.life = "live" /\ a.identity = i
  BY <1>2, AccountsAssumption DEF AccountRows, Never
<1> HIDE DEF k, a
<1>6. /\ \A v \in Users : account'[v] = IF v = u THEN a ELSE account[v]
      /\ \A d \in Clients : session'[d] = IF d = c THEN k ELSE session[d]
  BY <1>3 DEF AccountsTyped
<1>7. /\ login' \in [LoginCalls -> Logins]
      /\ \A q \in LoginCalls : login'[q].op = "login" => login'[q] = login[q]
  BY <1>3, DoneLeaves
<1>8. AccountsTyped'
  <2>1. i # NoIdentity
    BY <1>2, AccountsAssumption
  <2> QED
    BY <2>1, <1>2, <1>3, <1>4, <1>5, <1>6, <1>7 DEF AccountsTyped
<1>9. LooksPast'
  BY <1>2, <1>3, <1>4, <1>6, <1>7 DEF LooksPast
<1>10. GoneUnseen'
  BY <1>4, <1>5, <1>6, <1>7 DEF GoneUnseen
<1>11. OneEach'
  <2>1. \A v \in Users : account[v].life = "unused" => account[v].identity # i
    BY <1>2, AccountsAssumption DEF AccountsTyped
  <2> QED
    BY <2>1, <1>3, <1>5, <1>6 DEF OneEach
<1>12. RowsFirst'
  BY <1>3, <1>4, <1>5, <1>6, <1>7 DEF RowsFirst
<1> QED
  BY <1>8, <1>9, <1>10, <1>11, <1>12

\* A deletion is later than every look so far.
LEMMA DeletionKeeps ==
    ASSUME AccountsInv, NEW c \in Clients, DeleteAccount(c)
    PROVE  AccountsInv'
<1> USE DEF AccountsInv
<1> PICK u : u = session[c].user
  OBVIOUS
<1>1. /\ account' = [account EXCEPT ![u].life = "gone", ![u].deleted = now]
      /\ UNCHANGED <<now, session, login>> /\ now \in Int
  BY DEF DeleteAccount, AccountsTyped
<1>2. \A v \in Users : account'[v] = IF v = u THEN [account[v] EXCEPT !.life = "gone", !.deleted = now]
                                     ELSE account[v]
  BY <1>1 DEF AccountsTyped
<1>3. \A v \in Users : /\ account'[v].identity = account[v].identity
                       /\ v = u => account'[v].life = "gone" /\ account'[v].deleted = now
                       /\ v # u => account'[v] = account[v]
                       /\ account'[v] \in AccountRows
  <2> SUFFICES ASSUME NEW v \in Users
               PROVE  /\ account'[v].identity = account[v].identity
                      /\ v = u => account'[v].life = "gone" /\ account'[v].deleted = now
                      /\ v # u => account'[v] = account[v]
                      /\ account'[v] \in AccountRows
    OBVIOUS
  <2> PICK a \in AccountRows : a = account[v]
    BY DEF AccountsTyped
  <2> DEFINE b == [a EXCEPT !.life = "gone", !.deleted = now]
  <2>1. b \in AccountRows /\ b.identity = a.identity /\ b.life = "gone" /\ b.deleted = now
    BY <1>1 DEF AccountRows
  <2> QED
    BY <2>1, <1>2
<1>4. u \in Users => account[u].life # "unused"
  BY DEF RowsFirst
<1>5. AccountsTyped'
  <2>1. account' \in [Users -> AccountRows]
    BY <1>1, <1>3 DEF AccountsTyped
  <2>2. \A v \in Users : account'[v].life = "unused" <=> account'[v].identity = NoIdentity
    BY <1>3, <1>4 DEF AccountsTyped
  <2> QED
    BY <1>1, <2>1, <2>2 DEF AccountsTyped
<1>6. LooksPast'
  BY <1>1 DEF LooksPast
<1>7. GoneUnseen'
  BY <1>1, <1>3 DEF GoneUnseen, LooksPast
<1>8. OneEach'
  BY <1>3, <1>4 DEF OneEach
<1>9. RowsFirst'
  BY <1>1, <1>3 DEF RowsFirst
<1> QED
  BY <1>5, <1>6, <1>7, <1>8, <1>9

LEMMA RefusalKeeps ==
    ASSUME AccountsInv, NEW r \in LoginCalls, LoginRefused(r)
    PROVE  AccountsInv'
<1>1. UNCHANGED <<now, account, session>> /\ login' = [login EXCEPT ![r] = NoLogin]
  BY DEF LoginRefused, LoginDone
<1>2. /\ login' \in [LoginCalls -> Logins]
      /\ \A q \in LoginCalls : login'[q].op = "login" => login'[q] = login[q]
  BY <1>1, DoneLeaves DEF AccountsInv
<1> QED
  BY <1>1, <1>2 DEF AccountsInv, AccountsTyped, RowsFirst, LooksPast, GoneUnseen, OneEach

LEMMA ClockKeeps ==
    ASSUME AccountsInv, now' = now \/ Tick, UNCHANGED <<account, session, login>>
    PROVE  AccountsInv'
<1>1. now \in Int /\ (now' = now \/ now' = now + 1)
  BY DEF Tick, AccountsInv, AccountsTyped
<1>2. LooksPast'
  BY <1>1 DEF LooksPast, AccountsInv, AccountsTyped, Tokens, Logins, NoLogin
<1> QED
  BY <1>1, <1>2 DEF AccountsInv, AccountsTyped, RowsFirst, GoneUnseen, OneEach

LEMMA AccountsStep ==
    ASSUME AccountsInv, [ConsoleNext]_ConsoleVars
    PROVE  AccountsInv'
<1>1. ASSUME NEW r \in LoginCalls, LoginRefused(r)
      PROVE  AccountsInv'
  BY <1>1, RefusalKeeps
<1>2. CASE UNCHANGED <<now, account, session, login>>
  BY <1>2, ClockKeeps
<1>3. CASE Tick /\ UNCHANGED <<account, session, login>>
  BY <1>3, ClockKeeps
<1>4. CASE SignIns
  BY <1>1, <1>2, <1>4, LoginKeeps, LoggedInKeeps, SignedUpKeeps, RefreshKeeps
  DEF SignIns, RegisterDevice
<1>5. CASE AdministrationNext
  BY <1>2, <1>5, DeletionKeeps
  DEF AdministrationNext, PromoteUser, PatchUser, PatchLoaded, UserPatched, PatchLost, AdminLeaves, accounts
<1> QED
  BY <1>2, <1>3, <1>4, <1>5 DEF ConsoleNext, ConsoleVars, accounts

\* Whatever logins, refreshes and deletions overlap, and however many users and
\* clients there are, nobody is signed in to an account on the strength of a
\* look at it after its deletion, and an identity has one row and one trial for
\* good (AuthService.refresh, login_with_kakao, delete_account).
THEOREM DeletedAlwaysOut == ConsoleSpec => []DeletedStaysOut
<1>1. ClockInit /\ AccountsInit => AccountsInv
  BY AccountsStart
<1>2. AccountsInv /\ [ConsoleNext]_ConsoleVars => AccountsInv'
  BY AccountsStep
<1>3. AccountsInv => DeletedStaysOut
  BY DEF AccountsInv, AccountsTyped, Tokens, GoneUnseen, OneEach, DeletedStaysOut
<1> QED
  BY <1>1, <1>2, <1>3, PTL DEF ConsoleSpec

--------------------------------------------------------------------------------
(* Administrators                                                          *)

Patches == {AdminIdle} \cup [op : {"patch"}, user : Users, flag : BOOLEAN]

Revokes(r) == adminCall[r].op = "patch" /\ ~adminCall[r].flag

AdminsTyped ==
    /\ account \in [Users -> AccountRows]
    /\ admins \subseteq Users /\ IsFiniteSet(admins)
    /\ adminCall \in [AdminCalls -> Patches]

RevocationsNoted ==
    \A r, q \in AdminCalls : (r # q /\ Revokes(r) /\ Revokes(q)) => excuse # {}

\* A revocation that is to come leaves another administrator.
SomebodyElse ==
    excuse = {} =>
        \A r \in AdminCalls : Revokes(r) => \E w \in LiveAdmins : w # adminCall[r].user

AdminsInv == AdminsTyped /\ RevocationsNoted /\ SomebodyElse /\ LastAdminStays

LEMMA AdminsStart ==
    ASSUME AccountsInv, AdministrationInit
    PROVE  AdminsInv
<1>1. IsFiniteSet(admins)
  BY FS_EmptySet DEF AdministrationInit
<1> QED
  BY <1>1 DEF AccountsInv, AccountsTyped, AdministrationInit, AdminsInv, AdminsTyped, RevocationsNoted,
              SomebodyElse, LastAdminStays, Revokes, Patches, AdminIdle

\* A request ends, or none does, and no administrator is lost.
LEMMA MoreIsSafe ==
    ASSUME AdminsInv, AdminsTyped', LiveAdmins \subseteq LiveAdmins', excuse' = excuse,
           \A r \in AdminCalls : adminCall'[r] = adminCall[r] \/ adminCall'[r].op = "idle",
           founded' => founded \/ LiveAdmins' # {}
    PROVE  AdminsInv'
<1>1. RevocationsNoted'
  BY DEF AdminsInv, RevocationsNoted, Revokes
<1>2. SomebodyElse'
  BY DEF AdminsInv, SomebodyElse, Revokes
<1>3. LastAdminStays'
  BY DEF AdminsInv, LastAdminStays
<1> QED
  BY <1>1, <1>2, <1>3 DEF AdminsInv

LEMMA CallEnds ==
    ASSUME AdminsTyped, NEW r \in AdminCalls, adminCall' = [adminCall EXCEPT ![r] = AdminIdle]
    PROVE  /\ adminCall' \in [AdminCalls -> Patches]
           /\ \A q \in AdminCalls :
                 IF q = r THEN adminCall'[q].op = "idle" ELSE adminCall'[q] = adminCall[q]
BY DEF AdminsTyped, Patches, AdminIdle

\* Whoever may be revoked is not the only one.
LEMMA AnotherIsLeft ==
    ASSUME AdminsTyped, NEW u, Cardinality(LiveAdmins) > 1
    PROVE  \E w \in LiveAdmins : w # u
<1> SUFFICES ASSUME LiveAdmins \subseteq {u} PROVE FALSE
  OBVIOUS
<1>1. IsFiniteSet({u}) /\ Cardinality({u}) = 1
  BY FS_Singleton
<1>2. IsFiniteSet(LiveAdmins) /\ Cardinality(LiveAdmins) <= 1
  BY <1>1, FS_Subset
<1>3. Cardinality(LiveAdmins) \in Nat
  BY <1>2, FS_CardinalityType
<1> QED
  BY <1>2, <1>3

LEMMA PatchUserKeeps ==
    ASSUME AdminsInv, NEW r \in AdminCalls, NEW caller \in Users, NEW u \in Users, NEW flag \in BOOLEAN,
           PatchUser(r, caller, u, flag)
    PROVE  AdminsInv'
<1> DEFINE p == [op |-> "patch", user |-> u, flag |-> flag]
<1> USE DEF AdminsInv
<1>1. /\ adminCall' = [adminCall EXCEPT ![r] = p] /\ UNCHANGED <<account, admins, founded>>
      /\ excuse' = IF ~flag /\ \E q \in AdminCalls : Revokes(q) THEN excuse \cup {"overlap"} ELSE excuse
      /\ adminCall[r] = AdminIdle
  BY DEF PatchUser, PatchLoaded, accounts, Revokes
<1>2. p \in Patches /\ p.op = "patch" /\ p.user = u /\ p.flag = flag
  BY DEF Patches
<1> HIDE DEF p
<1>3. \A q \in AdminCalls : adminCall'[q] = IF q = r THEN p ELSE adminCall[q]
  BY <1>1 DEF AdminsTyped
<1>4. LiveAdmins' = LiveAdmins
  BY <1>1 DEF LiveAdmins, Alive
<1>5. AdminsTyped'
  BY <1>1, <1>2 DEF AdminsTyped
<1>6. ~flag => \E w \in LiveAdmins : w # u
  <2> SUFFICES ASSUME ~flag PROVE \E w \in LiveAdmins : w # u
    OBVIOUS
  <2>1. CASE u \in admins
    BY <2>1, AnotherIsLeft DEF PatchUser
  <2>2. CASE u \notin admins
    BY <2>2 DEF PatchUser, LiveAdmins
  <2> QED
    BY <2>1, <2>2
<1>7. RevocationsNoted'
  <2> SUFFICES ASSUME NEW q \in AdminCalls, NEW s \in AdminCalls, q # s, Revokes(q)', Revokes(s)'
               PROVE  excuse' # {}
    BY DEF RevocationsNoted
  <2>1. CASE q # r /\ s # r
    BY <2>1, <1>1, <1>3 DEF RevocationsNoted, Revokes
  <2>2. CASE q = r
    BY <2>2, <1>1, <1>2, <1>3 DEF Revokes
  <2>3. CASE s = r
    BY <2>3, <1>1, <1>2, <1>3 DEF Revokes
  <2> QED
    BY <2>1, <2>2, <2>3
<1>8. SomebodyElse'
  <2> SUFFICES ASSUME NEW q \in AdminCalls, excuse' = {}, Revokes(q)'
               PROVE  \E w \in LiveAdmins : w # adminCall'[q].user
    BY <1>4 DEF SomebodyElse
  <2>1. CASE q = r
    BY <2>1, <1>2, <1>3, <1>6 DEF Revokes
  <2>2. CASE q # r
    BY <2>2, <1>1, <1>3 DEF SomebodyElse, Revokes
  <2> QED
    BY <2>1, <2>2
<1>9. LastAdminStays'
  BY <1>1, <1>4 DEF LastAdminStays
<1> QED
  BY <1>5, <1>7, <1>8, <1>9

LEMMA UserPatchedKeeps ==
    ASSUME AdminsInv, NEW r \in AdminCalls, UserPatched(r)
    PROVE  AdminsInv'
<1> USE DEF AdminsInv
<1> PICK u : u = adminCall[r].user
  OBVIOUS
<1>1. /\ adminCall[r].op = "patch" /\ adminCall' = [adminCall EXCEPT ![r] = AdminIdle]
      /\ admins' = IF ~Alive(u) THEN admins
                   ELSE IF adminCall[r].flag THEN admins \cup {u} ELSE admins \ {u}
      /\ UNCHANGED <<account, founded, excuse>>
  BY DEF UserPatched, accounts
<1>2. \A q \in AdminCalls : IF q = r THEN adminCall'[q].op = "idle" ELSE adminCall'[q] = adminCall[q]
  BY <1>1, CallEnds
<1>3. AdminsTyped'
  <2>1. IsFiniteSet(admins \cup {u}) /\ IsFiniteSet(admins \ {u})
    BY FS_AddElement, FS_RemoveElement DEF AdminsTyped
  <2>2. adminCall' \in [AdminCalls -> Patches]
    BY <1>1, CallEnds
  <2> QED
    BY <2>1, <2>2, <1>1 DEF AdminsTyped, Alive
<1>4. \A w : Alive(w)' <=> Alive(w)
  BY <1>1 DEF Alive
<1>5. CASE Alive(u) /\ ~adminCall[r].flag
  <2>1. Revokes(r)
    BY <1>1, <1>5 DEF Revokes
  <2>2. \A q \in AdminCalls : ~Revokes(q)' \/ excuse # {}
    BY <1>2, <2>1 DEF RevocationsNoted, Revokes
  <2>3. RevocationsNoted' /\ SomebodyElse'
    BY <1>1, <2>2 DEF RevocationsNoted, SomebodyElse
  <2>4. excuse = {} => LiveAdmins' # {}
    BY <1>1, <1>4, <1>5, <2>1 DEF SomebodyElse, LiveAdmins
  <2>5. LastAdminStays'
    BY <1>1, <2>4 DEF LastAdminStays
  <2> QED
    BY <1>3, <2>3, <2>5
<1>6. CASE ~(Alive(u) /\ ~adminCall[r].flag)
  <2>1. LiveAdmins \subseteq LiveAdmins'
    BY <1>1, <1>4, <1>6 DEF LiveAdmins
  <2>2. founded' => founded
    BY <1>1
  <2> QED
    BY <1>1, <1>2, <1>3, <2>1, <2>2, MoreIsSafe
<1> QED
  BY <1>5, <1>6

\* An administrator who deletes the account is the excuse; anybody else takes
\* nothing away.
LEMMA AdminLeavesKeeps ==
    ASSUME AdminsInv, AccountsInv', NEW c \in Clients, AdminLeaves(c)
    PROVE  AdminsInv'
<1> USE DEF AdminsInv
<1> PICK u : u = session[c].user
  OBVIOUS
<1>1. /\ account' = [account EXCEPT ![u].life = "gone", ![u].deleted = now]
      /\ excuse' = IF u \in admins THEN excuse \cup {"deletion"} ELSE excuse
      /\ UNCHANGED <<admins, adminCall, founded>>
  BY DEF AdminLeaves, DeleteAccount
<1>2. AdminsTyped'
  BY <1>1 DEF AdminsTyped, AccountsInv, AccountsTyped
<1>3. CASE u \in admins
  BY <1>1, <1>2, <1>3 DEF RevocationsNoted, SomebodyElse, LastAdminStays
<1>4. CASE u \notin admins
  <2>1. \A v \in Users \ {u} : account'[v] = account[v]
    BY <1>1 DEF AdminsTyped
  <2>2. LiveAdmins \subseteq LiveAdmins'
    BY <1>1, <1>4, <2>1 DEF LiveAdmins, Alive, AdminsTyped
  <2> QED
    BY <1>1, <1>2, <1>4, <2>2, MoreIsSafe
<1> QED
  BY <1>3, <1>4

\* A sign-in takes no account away.
LEMMA SignInsKeepAlive ==
    ASSUME AdminsTyped, SignIns
    PROVE  \A v \in Users : Alive(v) => Alive(v)'
<1>1. ASSUME NEW r \in LoginCalls, NEW u \in Users, SignedUp(r, u)
      PROVE  \A v \in Users : Alive(v) => Alive(v)'
  <2>1. account[u] = NoAccount /\ \A v \in Users \ {u} : account'[v] = account[v]
    BY <1>1 DEF SignedUp, AdminsTyped
  <2> QED
    BY <2>1 DEF Alive, NoAccount
<1>2. CASE UNCHANGED account
  BY <1>2 DEF Alive
<1> QED
  BY <1>1, <1>2 DEF SignIns, Login, LoggedIn, LoginRefused, Refresh, RegisterDevice

LEMMA AdminsStep ==
    ASSUME AccountsInv, AdminsInv, [ConsoleNext]_ConsoleVars
    PROVE  AdminsInv'
<1>1. AccountsInv'
  BY AccountsStep
<1>2. ASSUME \A v \in Users : Alive(v) => Alive(v)', UNCHANGED administration
      PROVE  AdminsInv'
  <2>1. AdminsTyped' /\ LiveAdmins \subseteq LiveAdmins'
    BY <1>1, <1>2 DEF AdminsInv, AdminsTyped, administration, LiveAdmins, AccountsInv, AccountsTyped
  <2> QED
    BY <1>2, <2>1, MoreIsSafe DEF administration
<1>3. ASSUME NEW u \in Users, PromoteUser(u)
      PROVE  AdminsInv'
  <2>1. /\ Alive(u) /\ admins' = admins \cup {u} /\ UNCHANGED <<account, adminCall, excuse>>
    BY <1>3 DEF PromoteUser, accounts
  <2>2. LiveAdmins \subseteq LiveAdmins' /\ u \in LiveAdmins'
    BY <2>1 DEF LiveAdmins, Alive
  <2>3. AdminsTyped'
    BY <2>1, FS_AddElement DEF AdminsInv, AdminsTyped
  <2> QED
    BY <2>1, <2>2, <2>3, MoreIsSafe
<1>4. ASSUME NEW r \in AdminCalls, PatchLost(r)
      PROVE  AdminsInv'
  <2>1. UNCHANGED <<account, admins, founded, excuse>> /\ adminCall' = [adminCall EXCEPT ![r] = AdminIdle]
    BY <1>4 DEF PatchLost, accounts
  <2>2. /\ adminCall' \in [AdminCalls -> Patches]
        /\ \A q \in AdminCalls : adminCall'[q] = adminCall[q] \/ adminCall'[q].op = "idle"
    BY <2>1, CallEnds DEF AdminsInv
  <2>3. LiveAdmins' = LiveAdmins /\ AdminsTyped'
    BY <2>1, <2>2 DEF LiveAdmins, Alive, AdminsInv, AdminsTyped
  <2> QED
    BY <2>1, <2>2, <2>3, MoreIsSafe
<1>5. CASE AdministrationNext
  BY <1>1, <1>3, <1>4, <1>5, PatchUserKeeps, UserPatchedKeeps, AdminLeavesKeeps DEF AdministrationNext
<1>6. CASE SignIns /\ UNCHANGED administration
  BY <1>2, <1>6, SignInsKeepAlive DEF AdminsInv
<1>7. CASE UNCHANGED <<accounts, administration>>
  <2>1. UNCHANGED account
    BY <1>7 DEF accounts
  <2> QED
    BY <1>2, <1>7, <2>1 DEF Alive
<1> QED
  BY <1>5, <1>6, <1>7 DEF ConsoleNext, ConsoleVars

\* For any number of users and of requests in flight, there is an administrator
\* from the first one on, unless revocations overlapped or an administrator
\* deleted the account (AdminService.patch_user, AuthService.delete_account).
THEOREM AnAdminAlwaysStays == ConsoleSpec => []LastAdminStays
<1>1. ClockInit /\ AccountsInit /\ AdministrationInit => AccountsInv /\ AdminsInv
  BY AccountsStart, AdminsStart
<1>2. AccountsInv /\ AdminsInv /\ [ConsoleNext]_ConsoleVars => AccountsInv' /\ AdminsInv'
  BY AccountsStep, AdminsStep
<1>3. AdminsInv => LastAdminStays
  BY DEF AdminsInv
<1> QED
  BY <1>1, <1>2, <1>3, PTL DEF ConsoleSpec

--------------------------------------------------------------------------------
(***************************************************************************)
(* One referrer at most and not oneself, for any number of users, codes and  *)
(* requests.  Nothing in the database says so: a request that overlaps no    *)
(* other application of its user inserts what it has looked for itself, and  *)
(* where no two requests found the user without a code, the code a request   *)
(* takes for its user's stays the one the lookup would find.                 *)
(***************************************************************************)

ReferralSpec ==
    /\ ClockInit /\ ReferralInit
    /\ [][ReferralNext \/ (Tick /\ UNCHANGED referrals)]_<<now, referrals>>

AllCodes == Codes \cup {NoCode}

RefOps == {"code", "applying", "found", "apply"}

\* A code that was found is the one the request goes by.
RefBusy == {c \in [op : RefOps, user : Users, code : AllCodes, referrer : Users \cup {NoUser},
                   found : AllCodes, own : AllCodes] : c.found # NoCode => c.own = c.found}

RefCalls == {ReferralIdle} \cup RefBusy

ReferralRows == [row : Nat, referee : Users, referrer : Users, completed : Int]

ReferralTyped ==
    /\ now \in Int /\ ownCode \in [Users -> AllCodes]
    /\ refCall \in [ReferralCalls -> RefCalls]
    /\ referral \subseteq ReferralRows /\ IsFiniteSet(referral)

Applies(r, u) == refCall[r].op \in {"applying", "found", "apply"} /\ refCall[r].user = u

\* Applications of one user do not pass each other unnoticed.
ApplicationsNoted ==
    \A u \in Users \ applied : \A r, q \in ReferralCalls : (Applies(r, u) /\ Applies(q, u)) => r = q

\* What a request that has found a referrer holds.
ReferrerHeld ==
    \A r \in ReferralCalls : refCall[r].op \in {"found", "apply"} =>
        /\ refCall[r].referrer \in Users
        /\ refCall[r].referrer = refCall[r].user => refCall[r].user \in redrawn
        /\ (refCall[r].op = "apply" /\ refCall[r].user \notin applied) => ReferredBy(refCall[r].user) = {}

\* For a user nobody redraws for, one request at most found no code, none has
\* one from elsewhere meanwhile, and the code another goes by is the stored one.
CodesNoted ==
    \A u \in Users \ redrawn :
        /\ \A r, q \in Uncoded(u) : r = q
        /\ Uncoded(u) # {} => ownCode[u] = NoCode
        /\ \A r \in ReferralCalls : (refCall[r] # ReferralIdle /\ refCall[r].user = u /\ r \notin Uncoded(u))
               => refCall[r].own = ownCode[u]

RowsForeign == \A x \in referral : x.referrer = x.referee => x.referee \in redrawn

OneRow == \A u \in Users \ applied : \A x, y \in ReferredBy(u) : x = y

ReferralInv == /\ ReferralTyped /\ ApplicationsNoted /\ ReferrerHeld /\ CodesNoted
               /\ RowsForeign /\ OneRow

--------------------------------------------------------------------------------

LEMMA ReferralStarts ==
    ASSUME ClockInit, ReferralInit
    PROVE  ReferralInv
<1>1. IsFiniteSet(referral)
  BY FS_EmptySet DEF ReferralInit
<1>2. \A r \in ReferralCalls : refCall[r] = ReferralIdle /\ refCall[r].op = "idle"
  BY DEF ReferralInit, ReferralIdle
<1>3. ReferralTyped
  BY <1>1 DEF ClockInit, ReferralInit, ReferralTyped, RefCalls, AllCodes
<1>4. CodesNoted
  BY <1>2 DEF CodesNoted, Uncoded
<1> QED
  BY <1>2, <1>3, <1>4 DEF ReferralInit, ReferralInv, ApplicationsNoted, ReferrerHeld,
     RowsForeign, OneRow, Applies, ReferredBy

LEMMA InvariantImplies ==
    ASSUME ReferralInv
    PROVE  OneForeignReferrer
<1> USE DEF ReferralInv
<1> SUFFICES ASSUME NEW u \in Users, u \notin applied
             PROVE  ~(Cardinality(ReferredBy(u)) > 1)
  BY DEF OneForeignReferrer, RowsForeign, ReferredBy
<1>1. CASE ReferredBy(u) = {}
  BY <1>1, FS_EmptySet
<1>2. CASE ReferredBy(u) # {}
  <2>1. PICK x : x \in ReferredBy(u)
    BY <1>2
  <2>2. ReferredBy(u) = {x}
    BY <2>1 DEF OneRow
  <2>3. Cardinality({x}) = 1
    BY FS_Singleton
  <2>4. Cardinality(ReferredBy(u)) = 1
    BY <2>2, <2>3
  <2> QED
    BY <2>4
<1> QED
  BY <1>1, <1>2

LEMMA IdleFits == /\ ReferralIdle \in RefCalls /\ ReferralIdle.op = "idle"
                  /\ \A c \in RefBusy : c # ReferralIdle
BY DEF ReferralIdle, RefCalls, RefBusy, RefOps

\* A request that is under way has a whole record.
LEMMA Underway ==
    ASSUME ReferralTyped, NEW r \in ReferralCalls, refCall[r] # ReferralIdle
    PROVE  refCall[r] \in RefBusy
BY DEF ReferralTyped, RefCalls

LEMMA OpUnderway ==
    ASSUME ReferralTyped, NEW r \in ReferralCalls, refCall[r].op # "idle"
    PROVE  refCall[r] \in RefBusy
BY DEF ReferralTyped, RefCalls, ReferralIdle

\* A request moves on within its record: codes and rows stand.
LEMMA CallMoves ==
    ASSUME ReferralInv, NEW r \in ReferralCalls, refCall[r] \in RefBusy,
           NEW c \in RefBusy, refCall' = [refCall EXCEPT ![r] = c],
           UNCHANGED <<now, ownCode, referral, applied, redrawn>>,
           c.user = refCall[r].user, c.found = refCall[r].found,
           c.found # NoCode => c.own = refCall[r].own,
           c.op \in {"applying", "found", "apply"} => Applies(r, c.user),
           c.op \in {"found", "apply"} =>
               /\ c.referrer \in Users /\ (c.referrer = c.user => c.user \in redrawn)
               /\ (c.op = "apply" /\ c.user \notin applied) => ReferredBy(c.user) = {}
    PROVE  ReferralInv'
<1> USE DEF ReferralInv
<1>1. \A q \in ReferralCalls : refCall'[q] = IF q = r THEN c ELSE refCall[q]
  BY DEF ReferralTyped
<1>2. ReferralTyped'
  BY DEF ReferralTyped, RefCalls
<1>3. ApplicationsNoted'
  BY <1>1 DEF ApplicationsNoted, Applies
<1>4. ReferrerHeld'
  BY <1>1 DEF ReferrerHeld, ReferredBy
<1>5. \A u \in Users : Uncoded(u)' = Uncoded(u)
  BY <1>1, IdleFits DEF Uncoded
<1>6. \A q \in ReferralCalls : (refCall'[q] # ReferralIdle /\ q \notin Uncoded(refCall[q].user)) =>
          /\ refCall[q] # ReferralIdle /\ refCall'[q].user = refCall[q].user /\ refCall'[q].own = refCall[q].own
  <2>1. refCall[r] # ReferralIdle
    BY IdleFits
  <2>2. r \notin Uncoded(refCall[r].user) => refCall[r].found # NoCode
    BY <2>1 DEF Uncoded
  <2> QED
    BY <1>1, <2>1, <2>2
<1>7. CodesNoted'
  <2> SUFFICES ASSUME NEW u \in Users, u \notin redrawn
               PROVE  /\ \A p, q \in Uncoded(u)' : p = q
                      /\ Uncoded(u)' # {} => ownCode'[u] = NoCode
                      /\ \A q \in ReferralCalls :
                           (refCall'[q] # ReferralIdle /\ refCall'[q].user = u /\ q \notin Uncoded(u)')
                              => refCall'[q].own = ownCode'[u]
    BY DEF CodesNoted
  <2>1. \A p, q \in Uncoded(u)' : p = q
    BY <1>5 DEF CodesNoted
  <2>2. Uncoded(u)' # {} => ownCode'[u] = NoCode
    BY <1>5 DEF CodesNoted
  <2>3. ASSUME NEW q \in ReferralCalls, refCall'[q] # ReferralIdle, refCall'[q].user = u, q \notin Uncoded(u)'
        PROVE  refCall'[q].own = ownCode'[u]
    <3>1. refCall[q].user = u
      BY <1>1, <2>3
    <3>2. refCall[q] # ReferralIdle /\ refCall'[q].own = refCall[q].own /\ q \notin Uncoded(u)
      BY <1>5, <1>6, <2>3, <3>1
    <3> QED
      BY <3>1, <3>2 DEF CodesNoted
  <2> QED
    BY <2>1, <2>2, <2>3
<1>8. RowsForeign' /\ OneRow'
  BY DEF RowsForeign, OneRow, ReferredBy
<1> QED
  BY <1>2, <1>3, <1>4, <1>7, <1>8

\* A request ends, and what it has drawn is its user's or lost.
LEMMA ReferralEnds ==
    ASSUME ReferralInv, NEW r \in ReferralCalls, refCall[r] # ReferralIdle,
           refCall' = [refCall EXCEPT ![r] = ReferralIdle], UNCHANGED <<now, applied, redrawn>>,
           CodeCommitted(r) \/ ownCode' = ownCode
    PROVE  /\ ownCode' \in [Users -> AllCodes] /\ refCall' \in [ReferralCalls -> RefCalls]
           /\ ApplicationsNoted' /\ CodesNoted'
           /\ \A q \in ReferralCalls : refCall'[q].op # "idle" => q # r /\ refCall'[q] = refCall[q]
<1> USE DEF ReferralInv
<1> PICK u : u = refCall[r].user
  OBVIOUS
<1>1. refCall[r] \in RefBusy /\ u \in Users
  BY Underway DEF RefBusy
<1>2. \A q \in ReferralCalls : refCall'[q] = IF q = r THEN ReferralIdle ELSE refCall[q]
  BY DEF ReferralTyped
<1>3. ownCode' \in [Users -> AllCodes]
  BY <1>1 DEF CodeCommitted, ReferralTyped, RefBusy
<1>4. refCall' \in [ReferralCalls -> RefCalls]
  BY IdleFits DEF ReferralTyped
<1>5. \A q \in ReferralCalls : refCall'[q].op # "idle" => q # r /\ refCall'[q] = refCall[q]
  BY <1>2, IdleFits
<1>6. ApplicationsNoted'
  BY <1>2, IdleFits DEF ApplicationsNoted, Applies
<1>7. \A w \in Users : Uncoded(w)' = Uncoded(w) \ {r}
  BY <1>2 DEF Uncoded
<1>8. \A w \in Users : w # u => ownCode'[w] = ownCode[w]
  BY DEF CodeCommitted, ReferralTyped
<1>9. ownCode'[u] # ownCode[u] => r \in Uncoded(u)
  BY <1>1 DEF CodeCommitted, Written, Uncoded
<1>10. CodesNoted'
  <2> SUFFICES ASSUME NEW w \in Users, w \notin redrawn
               PROVE  /\ \A p, q \in Uncoded(w)' : p = q
                      /\ Uncoded(w)' # {} => ownCode'[w] = NoCode
                      /\ \A q \in ReferralCalls :
                           (refCall'[q] # ReferralIdle /\ refCall'[q].user = w /\ q \notin Uncoded(w)')
                              => refCall'[q].own = ownCode'[w]
    BY DEF CodesNoted
  <2>1. \A p, q \in Uncoded(w)' : p = q
    BY <1>7 DEF CodesNoted
  <2>2. Uncoded(w)' # {} => ownCode'[w] = ownCode[w]
    <3> SUFFICES ASSUME NEW q \in Uncoded(w), q # r, ownCode'[w] # ownCode[w]
                 PROVE  FALSE
      BY <1>7
    <3>1. w = u /\ r \in Uncoded(w)
      BY <1>8, <1>9
    <3> QED
      BY <3>1 DEF CodesNoted
  <2>3. Uncoded(w)' # {} => ownCode'[w] = NoCode
    BY <1>7, <2>2 DEF CodesNoted
  <2>4. ASSUME NEW q \in ReferralCalls, refCall'[q] # ReferralIdle, refCall'[q].user = w, q \notin Uncoded(w)'
        PROVE  refCall'[q].own = ownCode'[w]
    <3>1. q # r /\ refCall'[q] = refCall[q] /\ q \notin Uncoded(w)
      BY <1>2, <1>7, <2>4
    <3>2. refCall[q].own = ownCode[w] /\ refCall[q].found # NoCode
      BY <2>4, <3>1 DEF CodesNoted, Uncoded
    <3>3. refCall[q].own # NoCode
      <4>1. refCall[q] # ReferralIdle
        BY <2>4, <3>1
      <4> QED
        BY <4>1, <3>2, Underway DEF RefBusy
    <3>4. ownCode'[w] = ownCode[w]
      BY <1>8, <1>9, <3>2, <3>3 DEF CodesNoted
    <3> QED
      BY <3>1, <3>2, <3>4
  <2> QED
    BY <2>1, <2>3, <2>4
<1> QED
  BY <1>3, <1>4, <1>5, <1>6, <1>10

\* It ends without a row.
LEMMA ReferralEndsKeeps ==
    ASSUME ReferralInv, NEW r \in ReferralCalls, refCall[r] # ReferralIdle,
           refCall' = [refCall EXCEPT ![r] = ReferralIdle], UNCHANGED <<now, applied, redrawn, referral>>,
           CodeCommitted(r) \/ ownCode' = ownCode
    PROVE  ReferralInv'
<1> USE DEF ReferralInv
<1>1. /\ ownCode' \in [Users -> AllCodes] /\ refCall' \in [ReferralCalls -> RefCalls]
      /\ ApplicationsNoted' /\ CodesNoted'
      /\ \A q \in ReferralCalls : refCall'[q].op # "idle" => q # r /\ refCall'[q] = refCall[q]
  BY ReferralEnds
<1>2. ReferralTyped'
  BY <1>1 DEF ReferralTyped
<1>3. ReferrerHeld'
  BY <1>1 DEF ReferrerHeld, ReferredBy
<1>4. RowsForeign' /\ OneRow'
  BY DEF RowsForeign, OneRow, ReferredBy
<1> QED
  BY <1>1, <1>2, <1>3, <1>4

\* A request begins, and is noted where it overlaps another that found no code.
LEMMA RefLoadKeeps ==
    ASSUME ReferralInv, NEW r \in ReferralCalls, NEW u \in Users, NEW op \in {"code", "applying"},
           NEW d \in AllCodes, RefLoad(r, op, u, d), applied \subseteq applied',
           op = "applying" /\ u \notin applied' => \A q \in ReferralCalls \ {r} : ~Applies(q, u)
    PROVE  ReferralInv'
<1> USE DEF ReferralInv
<1> DEFINE c == [op |-> op, user |-> u, code |-> d, referrer |-> NoUser, found |-> ownCode[u], own |-> ownCode[u]]
<1>1. c \in RefBusy /\ c.op = op /\ c.user = u /\ c.found = ownCode[u] /\ c.own = ownCode[u]
  BY DEF RefBusy, RefOps, ReferralTyped
<1>2. /\ refCall' = [refCall EXCEPT ![r] = c] /\ refCall[r] = ReferralIdle
      /\ UNCHANGED <<now, ownCode, referral>>
      /\ redrawn' = IF ownCode[u] = NoCode /\ Uncoded(u) # {} THEN redrawn \cup {u} ELSE redrawn
  BY DEF RefLoad
<1> HIDE DEF c
<1>3. \A q \in ReferralCalls : refCall'[q] = IF q = r THEN c ELSE refCall[q]
  BY <1>2 DEF ReferralTyped
<1>4. ReferralTyped'
  BY <1>1, <1>2 DEF ReferralTyped, RefCalls
<1>5. ApplicationsNoted'
  <2> SUFFICES ASSUME NEW v \in Users, v \notin applied', NEW p \in ReferralCalls, NEW q \in ReferralCalls,
                      Applies(p, v)', Applies(q, v)'
               PROVE  p = q
    BY DEF ApplicationsNoted
  <2>1. v \notin applied
    OBVIOUS
  <2>2. CASE p # r /\ q # r
    BY <2>1, <2>2, <1>3 DEF ApplicationsNoted, Applies
  <2>3. CASE p = r /\ q # r
    BY <2>3, <1>1, <1>2, <1>3 DEF Applies
  <2>4. CASE q = r /\ p # r
    BY <2>4, <1>1, <1>2, <1>3 DEF Applies
  <2> QED
    BY <2>2, <2>3, <2>4
<1>6. redrawn \subseteq redrawn'
  BY <1>2
<1>7. ReferrerHeld'
  BY <1>1, <1>2, <1>3, <1>6 DEF ReferrerHeld, ReferredBy
<1>8. \A w \in Users : Uncoded(w)' = IF w = u /\ ownCode[u] = NoCode THEN Uncoded(w) \cup {r} ELSE Uncoded(w)
  <2>1. c # ReferralIdle
    BY <1>1, IdleFits
  <2> QED
    BY <2>1, <1>1, <1>2, <1>3 DEF Uncoded
<1>9. CodesNoted'
  <2> SUFFICES ASSUME NEW w \in Users, w \notin redrawn'
               PROVE  /\ \A p, q \in Uncoded(w)' : p = q
                      /\ Uncoded(w)' # {} => ownCode'[w] = NoCode
                      /\ \A q \in ReferralCalls :
                           (refCall'[q] # ReferralIdle /\ refCall'[q].user = w /\ q \notin Uncoded(w)')
                              => refCall'[q].own = ownCode'[w]
    BY DEF CodesNoted
  <2>1. w \notin redrawn /\ (w = u /\ ownCode[u] = NoCode => Uncoded(u) = {})
    BY <1>2
  <2>2. \A p, q \in Uncoded(w)' : p = q
    BY <1>8, <2>1 DEF CodesNoted
  <2>3. Uncoded(w)' # {} => ownCode'[w] = NoCode
    BY <1>2, <1>8, <2>1 DEF CodesNoted
  <2>4. ASSUME NEW q \in ReferralCalls, refCall'[q] # ReferralIdle, refCall'[q].user = w, q \notin Uncoded(w)'
        PROVE  refCall'[q].own = ownCode'[w]
    <3>1. CASE q = r
      BY <3>1, <2>4, <1>1, <1>2, <1>3
    <3>2. CASE q # r
      <4>1. refCall[q] # ReferralIdle /\ refCall[q].user = w /\ q \notin Uncoded(w) /\ refCall'[q].own = refCall[q].own
        BY <3>2, <2>4, <1>3, <1>8
      <4> QED
        BY <4>1, <2>1, <1>2 DEF CodesNoted
    <3> QED
      BY <3>1, <3>2
  <2> QED
    BY <2>2, <2>3, <2>4
<1>10. RowsForeign' /\ OneRow'
  BY <1>2, <1>6 DEF RowsForeign, OneRow, ReferredBy
<1> QED
  BY <1>4, <1>5, <1>7, <1>9, <1>10

LEMMA GetMyReferralKeeps ==
    ASSUME ReferralInv, NEW r \in ReferralCalls, NEW u \in Users, GetMyReferral(r, u)
    PROVE  ReferralInv'
<1>1. CASE ownCode[u] = NoCode
  <2>1. RefLoad(r, "code", u, NoCode) /\ applied' = applied
    BY <1>1 DEF GetMyReferral
  <2>2. NoCode \in AllCodes
    BY DEF AllCodes
  <2> QED
    BY <2>1, <2>2, RefLoadKeeps
<1>2. CASE ownCode[u] # NoCode
  BY <1>2 DEF GetMyReferral, ReferralInv, ReferralTyped, ApplicationsNoted, ReferrerHeld, CodesNoted, Uncoded,
     RowsForeign, OneRow, Applies, ReferredBy
<1> QED
  BY <1>1, <1>2

LEMMA ApplyReferralKeeps ==
    ASSUME ReferralInv, NEW r \in ReferralCalls, NEW u \in Users, NEW d \in Codes, ApplyReferral(r, u, d)
    PROVE  ReferralInv'
<1>1. RefLoad(r, "applying", u, d) /\ d \in AllCodes
  BY DEF ApplyReferral, AllCodes
<1>2. applied' = IF \E q \in ReferralCalls \ {r} : Applies(q, u) THEN applied \cup {u} ELSE applied
  BY DEF ApplyReferral, Applies
<1>3. applied \subseteq applied' /\ (u \notin applied' => \A q \in ReferralCalls \ {r} : ~Applies(q, u))
  BY <1>2
<1> QED
  BY <1>1, <1>3, RefLoadKeeps

LEMMA CodeDrawnKeeps ==
    ASSUME ReferralInv, NEW r \in ReferralCalls, NEW d \in Codes, CodeDrawn(r, d)
    PROVE  ReferralInv'
<1> USE DEF ReferralInv
<1> DEFINE c == [refCall[r] EXCEPT !.own = d]
<1>1. refCall' = [refCall EXCEPT ![r] = c] /\ UNCHANGED <<now, ownCode, referral, applied, redrawn>>
  BY DEF CodeDrawn
<1>2. refCall[r].op \in {"code", "applying"} /\ refCall[r].own = NoCode
  BY DEF CodeDrawn
<1>3. refCall[r] \in RefBusy
  BY <1>2, OpUnderway
<1>4. /\ c \in RefBusy /\ c.op = refCall[r].op /\ c.user = refCall[r].user /\ c.found = refCall[r].found
      /\ c.op = "applying" => Applies(r, c.user)
  BY <1>2, <1>3 DEF RefBusy, AllCodes, Applies
<1>5. c.found = NoCode
  BY <1>2, <1>3, <1>4 DEF RefBusy
<1> HIDE DEF c
<1> QED
  BY <1>1, <1>2, <1>3, <1>4, <1>5, CallMoves

\* A code that is not the caller's is not found to be the caller's, unless one
\* has been written over.
LEMMA ReferrerFoundKeeps ==
    ASSUME ReferralInv, NEW r \in ReferralCalls, ReferrerFound(r)
    PROVE  ReferralInv'
<1> USE DEF ReferralInv
<1> PICK u, own, d : u = refCall[r].user /\ own = refCall[r].own /\ d = refCall[r].code
  OBVIOUS
<1>1. PICK v \in Owner(r) : refCall' = [refCall EXCEPT ![r].op = "found", ![r].referrer = v]
  BY DEF ReferrerFound
<1>2. /\ refCall[r].op = "applying" /\ own # NoCode /\ own # d
      /\ UNCHANGED <<now, ownCode, referral, applied, redrawn>>
  BY DEF ReferrerFound, Foreign
<1>3. refCall[r] \in RefBusy
  BY <1>2, OpUnderway
<1> DEFINE c == [refCall[r] EXCEPT !.op = "found", !.referrer = v]
<1>4. refCall' = [refCall EXCEPT ![r] = c]
  BY <1>1, <1>3 DEF RefBusy, ReferralTyped
<1>5. v \in Users /\ u \in Users /\ (v = u => (IF Written(r) THEN own ELSE ownCode[u]) = d)
  BY <1>1, <1>3 DEF Owner, RefBusy
<1>6. /\ c \in RefBusy /\ c.op = "found" /\ c.user = u /\ c.found = refCall[r].found /\ c.own = own
      /\ c.referrer = v /\ Applies(r, u)
  BY <1>2, <1>3, <1>5 DEF RefBusy, RefOps, Applies
<1> HIDE DEF c
<1>7. v = u => u \in redrawn
  <2> SUFFICES ASSUME v = u, u \notin redrawn
               PROVE  FALSE
    OBVIOUS
  <2>1. ~Written(r) /\ ownCode[u] = d
    BY <1>2, <1>5
  <2>2. refCall[r] # ReferralIdle
    BY <1>3, IdleFits
  <2>3. r \notin Uncoded(u)
    BY <2>1, <2>2, <1>2 DEF Written, Uncoded
  <2> QED
    BY <1>2, <1>5, <2>1, <2>2, <2>3 DEF CodesNoted
<1> QED
  BY <1>2, <1>3, <1>4, <1>5, <1>6, <1>7, CallMoves

LEMMA RefereeFreeKeeps ==
    ASSUME ReferralInv, NEW r \in ReferralCalls, RefereeFree(r)
    PROVE  ReferralInv'
<1> USE DEF ReferralInv
<1> DEFINE c == [refCall[r] EXCEPT !.op = "apply"]
<1>1. /\ refCall[r].op = "found" /\ ReferredBy(refCall[r].user) = {} /\ refCall' = [refCall EXCEPT ![r] = c]
      /\ UNCHANGED <<now, ownCode, referral, applied, redrawn>>
  BY DEF RefereeFree
<1>2. refCall[r] \in RefBusy
  BY <1>1, OpUnderway
<1>3. /\ c \in RefBusy /\ c.op = "apply" /\ c.user = refCall[r].user /\ c.found = refCall[r].found
      /\ c.own = refCall[r].own /\ c.referrer = refCall[r].referrer /\ Applies(r, c.user)
  BY <1>1, <1>2 DEF RefBusy, RefOps, Applies
<1>4. c.referrer \in Users /\ (c.referrer = c.user => c.user \in redrawn)
  BY <1>1, <1>3 DEF ReferrerHeld
<1> HIDE DEF c
<1> QED
  BY <1>1, <1>2, <1>3, <1>4, CallMoves

\* A code given, an application answered, a request lost: no row.
LEMMA EndingsKeep ==
    ASSUME ReferralInv, NEW r \in ReferralCalls, CodeGiven(r) \/ AlreadyReferred(r) \/ ReferralLost(r)
    PROVE  ReferralInv'
<1>1. CASE CodeGiven(r) \/ AlreadyReferred(r)
  <2>1. refCall[r].op # "idle"
    BY <1>1 DEF CodeGiven, AlreadyReferred
  <2>2. refCall[r] # ReferralIdle
    BY <2>1, IdleFits
  <2> QED
    BY <1>1, <2>2, ReferralEndsKeeps DEF CodeGiven, AlreadyReferred, RefDone
<1>2. CASE ReferralLost(r)
  BY <1>2, ReferralEndsKeeps DEF ReferralLost, RefDone
<1> QED
  BY <1>1, <1>2

\* The row that is inserted is the first, unless applications have overlapped.
LEMMA ReferralAppliedKeeps ==
    ASSUME ReferralInv, NEW r \in ReferralCalls, ReferralApplied(r)
    PROVE  ReferralInv'
<1> USE DEF ReferralInv
<1> PICK u, v : u = refCall[r].user /\ v = refCall[r].referrer
  OBVIOUS
<1> PICK n : n = Cardinality(ReferredBy(u))
  OBVIOUS
<1> DEFINE x == [row |-> n, referee |-> u, referrer |-> v, completed |-> Never]
<1>1. /\ refCall[r].op = "apply" /\ refCall' = [refCall EXCEPT ![r] = ReferralIdle]
      /\ referral' = referral \cup {x} /\ UNCHANGED <<now, applied, redrawn>> /\ CodeCommitted(r)
  BY DEF ReferralApplied, RefDone
<1>2. refCall[r] # ReferralIdle /\ refCall[r] \in RefBusy /\ u \in Users
  <2>1. refCall[r] \in RefBusy
    BY <1>1, OpUnderway
  <2> QED
    BY <2>1, IdleFits DEF RefBusy
<1>3. n \in Nat
  <2>1. IsFiniteSet(ReferredBy(u))
    BY FS_Subset DEF ReferralTyped, ReferredBy
  <2> QED
    BY <2>1, FS_CardinalityType
<1>4. /\ v \in Users /\ (v = u => u \in redrawn) /\ (u \notin applied => ReferredBy(u) = {})
  BY <1>1 DEF ReferrerHeld
<1>5. x \in ReferralRows /\ x.referee = u /\ x.referrer = v
  BY <1>2, <1>3, <1>4 DEF ReferralRows, Never
<1> HIDE DEF x
<1>6. /\ ownCode' \in [Users -> AllCodes] /\ refCall' \in [ReferralCalls -> RefCalls]
      /\ ApplicationsNoted' /\ CodesNoted'
      /\ \A q \in ReferralCalls : refCall'[q].op # "idle" => q # r /\ refCall'[q] = refCall[q]
  BY <1>1, <1>2, ReferralEnds
<1>7. ReferralTyped'
  <2>1. IsFiniteSet(referral')
    BY <1>1, FS_AddElement DEF ReferralTyped
  <2>2. referral' \subseteq ReferralRows /\ now' \in Int
    BY <1>1, <1>5 DEF ReferralTyped
  <2> QED
    BY <1>6, <2>1, <2>2 DEF ReferralTyped
<1>8. ReferrerHeld'
  <2> SUFFICES ASSUME NEW q \in ReferralCalls, (refCall[q].op \in {"found", "apply"})'
               PROVE  (/\ refCall[q].referrer \in Users
                       /\ refCall[q].referrer = refCall[q].user => refCall[q].user \in redrawn
                       /\ (refCall[q].op = "apply" /\ refCall[q].user \notin applied)
                              => ReferredBy(refCall[q].user) = {})'
    BY DEF ReferrerHeld
  <2> PICK w : w = refCall[q].user
    OBVIOUS
  <2>1. q # r /\ refCall'[q] = refCall[q]
    BY <1>6
  <2>2. w \in Users
    BY <2>1, OpUnderway DEF RefBusy
  <2>3. /\ refCall[q].referrer \in Users /\ (refCall[q].referrer = w => w \in redrawn)
        /\ (refCall[q].op = "apply" /\ w \notin applied) => ReferredBy(w) = {}
    BY <2>1 DEF ReferrerHeld
  <2>4. w \notin applied => w # u
    BY <2>1, <2>2, <1>1 DEF ApplicationsNoted, Applies
  <2>5. (refCall[q].op = "apply" /\ w \notin applied) => ReferredBy(w)' = {}
    BY <2>3, <2>4, <1>1, <1>5 DEF ReferredBy
  <2> QED
    BY <2>1, <2>3, <2>5, <1>1 DEF ReferredBy
<1>9. RowsForeign'
  BY <1>1, <1>4, <1>5 DEF RowsForeign
<1>10. OneRow'
  BY <1>1, <1>4, <1>5 DEF OneRow, ReferredBy
<1> QED
  BY <1>6, <1>7, <1>8, <1>9, <1>10

\* Stamping rows adds none.
LEMMA CompletionKeeps ==
    ASSUME ReferralInv, NEW u \in Users, NEW duration, CompleteReferralIfEligible(u, duration)
    PROVE  ReferralInv'
<1> USE DEF ReferralInv
<1> DEFINE Stamped(x) == IF x.referee = u /\ x.completed = Never THEN [x EXCEPT !.completed = now] ELSE x
           f == [x \in referral |-> Stamped(x)]
<1>1. referral' = {Stamped(x) : x \in referral} /\ UNCHANGED <<now, ownCode, refCall, applied, redrawn>>
  BY DEF CompleteReferralIfEligible
<1>2. \A x \in ReferralRows : /\ Stamped(x) \in ReferralRows
                              /\ Stamped(x).referee = x.referee /\ Stamped(x).referrer = x.referrer
  BY DEF ReferralRows, ReferralTyped
<1>3. IsFiniteSet(referral')
  <2>1. f \in [referral -> referral'] /\ \A y \in referral' : \E x \in referral : f[x] = y
    BY <1>1
  <2> HIDE DEF f
  <2>2. f \in Surjection(referral, referral')
    BY <2>1 DEF Surjection
  <2> QED
    BY <2>2, FS_Surjection DEF ReferralTyped
<1> HIDE DEF Stamped
<1>4. ReferralTyped'
  BY <1>1, <1>2, <1>3 DEF ReferralTyped
<1>5. \A v \in Users : ReferredBy(v)' = {Stamped(x) : x \in ReferredBy(v)}
  BY <1>1, <1>2 DEF ReferredBy, ReferralTyped
<1>6. ApplicationsNoted'
  BY <1>1 DEF ApplicationsNoted, Applies
<1>7. ReferrerHeld'
  <2>1. \A q \in ReferralCalls : refCall[q].op \in {"found", "apply"} => refCall[q].user \in Users
    BY OpUnderway DEF RefBusy
  <2> QED
    BY <2>1, <1>1, <1>5 DEF ReferrerHeld, ReferredBy
<1>10. CodesNoted'
  BY <1>1 DEF CodesNoted, Uncoded
<1>8. RowsForeign'
  BY <1>1, <1>2 DEF RowsForeign, ReferralTyped
<1>9. OneRow'
  BY <1>1, <1>5 DEF OneRow
<1> QED
  BY <1>4, <1>6, <1>7, <1>8, <1>9, <1>10

LEMMA ReferralStep ==
    ASSUME ReferralInv, [ReferralNext \/ (Tick /\ UNCHANGED referrals)]_<<now, referrals>>
    PROVE  ReferralInv'
<1>1. CASE UNCHANGED referrals /\ (Tick \/ UNCHANGED now)
  <2>1. now' \in Int
    BY <1>1 DEF Tick, ReferralInv, ReferralTyped
  <2> QED
    BY <1>1, <2>1 DEF referrals, ReferralInv, ReferralTyped, ApplicationsNoted, ReferrerHeld, CodesNoted, Uncoded,
       RowsForeign, OneRow, Applies, ReferredBy
<1>2. CASE ReferralNext
  BY <1>2, GetMyReferralKeeps, CodeDrawnKeeps, ApplyReferralKeeps, ReferrerFoundKeeps, RefereeFreeKeeps,
     EndingsKeep, ReferralAppliedKeeps, CompletionKeeps DEF ReferralNext
<1> QED
  BY <1>1, <1>2 DEF referrals

\* Whatever requests overlap, only a user two of whose requests found no code
\* together can be their own referrer, and only one whose applications were in
\* flight together can have two (ReferralService.apply_referral, get_my_referral).
THEOREM ReferrersStayForeign == ReferralSpec => []OneForeignReferrer
<1>1. ClockInit /\ ReferralInit => ReferralInv
  BY ReferralStarts
<1>2. ReferralInv /\ [ReferralNext \/ (Tick /\ UNCHANGED referrals)]_<<now, referrals>> => ReferralInv'
  BY ReferralStep
<1>3. ReferralInv => OneForeignReferrer
  BY InvariantImplies
<1> QED
  BY <1>1, <1>2, <1>3, PTL DEF ReferralSpec

--------------------------------------------------------------------------------
(***************************************************************************)
(* Notifications and sweeps, for any number of users, jobs and days.  Neither *)
(* property is inductive.  What makes them true is that a job is the only    *)
(* one ever to tell of its event, or of its day for its worker, so that      *)
(* those it has still to tell have no row of it; that what is read into a    *)
(* week after the sweeps that report it is stamped later than they are; and  *)
(* that a trial's end, once it is set, does not move.                        *)
(***************************************************************************)

Handled(kind, about, by) ==
    \/ \E j \in Jobs : job[j].kind = kind /\ job[j].about = about /\ job[j].by = by
    \/ \E o \in finished : o.kind = kind /\ o.about = about /\ o.by = by

\* The bus hands an event to each of its handlers once.
HandledOnce ==
    \A j \in Jobs : job'[j] # job[j] => ~Handled(job'[j].kind, job'[j].about, job'[j].by)

NoticeVars == <<now, accounts, billing, notifications>>

\* From any accounts on.
NoticeInit == ClockInit /\ AccountsInv /\ BillingInit /\ NotificationsInit

NoticeNext ==
    \/ /\ \/ (HandlerNext /\ HandledOnce) \/ JobNext \/ SweepNext \/ InboxNext
          \/ \E j \in Jobs : SendReengagementCoupons(j)
          \/ \E r \in PrefCalls : PreferencesSaved(r)
          \/ \E u \in Users, d \in Int : ReadOn(u, d)
       /\ UNCHANGED <<accounts, billing>>
    \/ (BillingNext \/ \E j \in Jobs, u \in Users : IssueCoupon(j, u))
       /\ UNCHANGED <<accounts, notifications>>
    \/ AccountsNext /\ UNCHANGED <<billing, notifications>>
    \/ Tick /\ UNCHANGED <<accounts, billing, notifications>>

NoticeSpec == NoticeInit /\ [][NoticeNext]_NoticeVars

NoteShaped(x) ==
    /\ x = [user |-> x.user, kind |-> x.kind, about |-> x.about, by |-> x.by, read |-> x.read]
    /\ x = NoNote \/ (x.user \in Users /\ x.kind \in Toggleable \cup RequiredKinds)

JobShaped(c) ==
    /\ c = [kind |-> c.kind, about |-> c.about, by |-> c.by, actor |-> c.actor, todo |-> c.todo,
            skips |-> c.skips, figures |-> c.figures, note |-> c.note, tokens |-> c.tokens,
            wanted |-> c.wanted, failed |-> c.failed, quiet |-> c.quiet, unpaid |-> c.unpaid]
    /\ c.kind \in Toggleable \cup RequiredKinds /\ c.about \in Int
    /\ c.todo \subseteq c.wanted /\ c.wanted \subseteq Users /\ c.unpaid \subseteq Users
    /\ c.kind \in RequiredKinds => c.quiet = {}

NoticesTyped ==
    /\ now \in Nat
    /\ inbox = [n \in Notes |-> inbox[n]] /\ \A n \in Notes : NoteShaped(inbox[n])
    /\ job = [j \in Jobs |-> job[j]] /\ \A j \in Jobs : job[j] = JobIdle \/ JobShaped(job[j])

\* Nobody's doing.
SweepKinds == RequiredKinds \cup {"weekly"}

\* What a job has told so far, and whom it has still to tell.
JobTells(c) ==
    /\ c.kind \in SweepKinds => c.actor = NoUser
    /\ \A u \in c.wanted \ (c.todo \cup c.failed \cup c.quiet) : RowsAbout(u, c) # {}
    /\ \A u \in c.todo : RowsAbout(u, c) = {}
    /\ c.actor # NoUser => c.actor \notin c.todo /\ RowsAbout(c.actor, c) = {}
    /\ \A n \in c.note : n \in Notes /\ inbox[n] # NoNote

OutcomeTold(o) ==
    /\ o.wanted \subseteq Users /\ (o.kind \in SweepKinds => o.actor = NoUser)
    /\ o.kind \in RequiredKinds => o.quiet = {}
    /\ \A u \in o.wanted \ (o.failed \cup o.quiet) : RowsAbout(u, o) # {}
    /\ o.actor # NoUser => RowsAbout(o.actor, o) = {}

\* Every row is of a job that is at work or was.
RowsHandled ==
    \A n \in Notes : inbox[n] # NoNote => Handled(inbox[n].kind, inbox[n].about, inbox[n].by)

Alike(x, y) == x.kind = y.kind /\ x.about = y.about /\ x.by = y.by

\* Both remind of trials, or send the coupons after them, for one worker.
BothRequired(x, y) == x.kind \in RequiredKinds /\ y.kind \in RequiredKinds /\ x.by = y.by

\* No two jobs tell of one event, or of one day for one worker.
Apart ==
    /\ \A j, k \in Jobs : (j # k /\ job[j] # JobIdle) =>
          ~Alike(job[j], job[k]) /\ ~BothRequired(job[j], job[k])
    /\ \A j \in Jobs : \A o \in finished : job[j] # JobIdle => ~Alike(job[j], o)

\* Coupons follow upon reminders.
Reminded(about, by) == \E o \in finished : o.kind = "reminder" /\ o.about = about /\ o.by = by

OffersFollow ==
    /\ \A j \in Jobs : job[j].kind = "offer" => Reminded(job[j].about, job[j].by)
    /\ \A o \in finished : o.kind = "offer" => Reminded(o.about, o.by)

SameRow(x, y) == x.user = y.user /\ x.kind = y.kind /\ x.about = y.about /\ x.by = y.by

RowsOnce ==
    \A n, m \in Notes : (inbox[n] # NoNote /\ SameRow(inbox[n], inbox[m])) => n = m

PushedKept == \A p \in pushed : p[1] \in Notes /\ inbox[p[1]] # NoNote

NoticeInv ==
    /\ NoticesTyped /\ RowsHandled /\ Apart /\ OffersFollow /\ RowsOnce /\ PushedKept
    /\ \A j \in Jobs : job[j] # JobIdle => JobTells(job[j])
    /\ \A o \in finished : OutcomeTold(o)

\* The sweeps that report a week have begun.
Over(monday) == monday \in Int /\ SweepOf(monday) <= now

\* What a report of a week may say of a user.
RightDays(u, monday, days) ==
    Over(monday) /\ DueDays(u, monday) \subseteq days /\ days \subseteq DaysRead(u, monday)

InReport(u, monday) == \E w \in report : w[1] = u /\ w[2] = monday

\* Due nothing, or reported.
Served(u, monday) == DueDays(u, monday) # {} => InReport(u, monday)

\* Those a job has been through; a week's report does not heed preferences.
WeekTold(c) ==
    c.kind = "weekly" =>
        /\ Over(c.about)
        /\ c.figures = NoFigures \/ RightDays(c.figures.user, c.about, c.figures.days)
        /\ \A u \in c.wanted \ (c.todo \cup c.failed) : Served(u, c.about)

WeekKept(o) ==
    o.kind = "weekly" => Over(o.about) /\ \A u \in o.wanted \ o.failed : Served(u, o.about)

ReadBefore == \A x \in readDays : x[3] \in Int /\ x[3] <= now

ReportsRight ==
    /\ \A v, w \in report : (v[1] = w[1] /\ v[2] = w[2]) => v = w
    /\ \A w \in report : RightDays(w[1], w[2], w[3])

WeeksReported ==
    /\ ReadBefore /\ ReportsRight
    /\ (\A j \in Jobs : WeekTold(job[j])) /\ (\A o \in finished : WeekKept(o))

\* A sweep came within the last day of u's trial.
LastDay(u, at) == u \in Users /\ account[u].life # "unused" /\ account[u].trialEnds - at \in 1 .. Day

\* Of those who had not paid, a sweep's list holds whose last day it was.
Listed(c) ==
    \A u \in c.unpaid : u \in Users /\ account[u].life # "unused" /\ (LastDay(u, c.about) => u \in c.wanted)

SweepFits(c) ==
    c.kind = "reminder" => c.about \in Int /\ Listed(c) /\ \A u \in c.todo : LastDay(u, c.about)

OutcomeFits(o) == o.kind = "reminder" => o.about \in Int /\ Listed(o)

RowFits(x) == x.kind = "reminder" => x.about \in Int /\ LastDay(x.user, x.about)

\* A worker sweeps once a day.
SweptDaily ==
    \A a, b, by :
        (Handled("reminder", a, by) /\ Handled("reminder", b, by) /\ a \div Day = b \div Day) => a = b

TrialsReminded ==
    /\ \A n \in Notes : RowFits(inbox[n])
    /\ \A j \in Jobs : SweepFits(job[j])
    /\ \A o \in finished : OutcomeFits(o)
--------------------------------------------------------------------------------
(* What the actions do to jobs and rows                                    *)

JobBecomes(j, c, d) ==
    /\ c = job[j] /\ d = job'[j]
    /\ job' = [k \in Jobs |-> IF k = j THEN d ELSE job[k]]

\* A job goes on with its list.
Narrows(c, d) ==
    /\ JobShaped(c) /\ JobShaped(d)
    /\ Alike(d, c) /\ d.actor = c.actor /\ d.wanted = c.wanted /\ d.unpaid = c.unpaid
    /\ d.todo \subseteq c.todo /\ c.failed \subseteq d.failed /\ c.quiet \subseteq d.quiet

LEMMA JobKinds ==
    ASSUME NEW c, JobShaped(c)
    PROVE  c # JobIdle /\ c.kind # "idle" /\ c.kind # "none"
<1>1. c.kind # "idle" /\ c.kind # "none"
  BY DEF JobShaped, Toggleable, RequiredKinds
<1>2. JobIdle.kind = "idle"
  BY DEF JobIdle
<1> QED
  BY <1>1, <1>2

Began(j, kind, about, by, actor, todo) ==
    \E d : /\ JobBecomes(j, JobIdle, d) /\ JobShaped(d)
           /\ d.kind = kind /\ d.about = about /\ d.by = by /\ d.actor = actor /\ d.todo = todo
           /\ d.wanted = todo /\ d.note = {} /\ d.figures = NoFigures /\ d.unpaid = {u \in Users : Unpaid(u)}
           /\ UNCHANGED <<now, inbox, pushed, report, readDays, finished>>

LEMMA BeginEffect ==
    ASSUME NoticesTyped, NEW j \in Jobs, NEW kind \in Toggleable \cup RequiredKinds, NEW about \in Int, NEW by,
           NEW actor, NEW todo \in SUBSET Users, NEW skips, Begin(j, kind, about, by, actor, todo, skips)
    PROVE  Began(j, kind, about, by, actor, todo)
<1>1. PICK U : U = {u \in Users : Unpaid(u)} /\ U \subseteq Users
  OBVIOUS
<1>2. PICK d : d = [kind |-> kind, about |-> about, by |-> by, actor |-> actor, todo |-> todo,
                    skips |-> skips, figures |-> NoFigures, note |-> {}, tokens |-> {},
                    wanted |-> todo, failed |-> {}, quiet |-> {}, unpaid |-> U]
  OBVIOUS
<1>3. /\ job[j] = JobIdle /\ job' = [job EXCEPT ![j] = d]
      /\ UNCHANGED <<now, inbox, pushed, report, readDays, finished>>
  BY <1>1, <1>2 DEF Begin
<1>4. job' = [k \in Jobs |-> IF k = j THEN d ELSE job[k]]
  BY <1>3 DEF NoticesTyped
<1>5. JobBecomes(j, JobIdle, d)
  BY <1>3, <1>4 DEF JobBecomes
<1>6. JobShaped(d)
  BY <1>1, <1>2 DEF JobShaped
<1> QED
  BY <1>1, <1>2, <1>3, <1>5, <1>6 DEF Began

\* A job that goes on, as a record.
GoesOn(c, t, F, Q, N, T, G) ==
    [kind |-> c.kind, about |-> c.about, by |-> c.by, actor |-> c.actor, todo |-> t,
     skips |-> c.skips, figures |-> G, note |-> N, tokens |-> T,
     wanted |-> c.wanted, failed |-> F, quiet |-> Q, unpaid |-> c.unpaid]

LEMMA JobGoesOn ==
    ASSUME NEW c, JobShaped(c), NEW t, NEW F, NEW Q, NEW N, NEW T, NEW G, NEW d, d = GoesOn(c, t, F, Q, N, T, G),
           t \subseteq c.todo, c.failed \subseteq F, c.quiet \subseteq Q, Q = c.quiet \/ c.kind \notin RequiredKinds
    PROVE  Narrows(c, d) /\ d.todo = t /\ d.failed = F /\ d.quiet = Q /\ d.note = N /\ d.figures = G
<1>1. /\ d.kind = c.kind /\ d.about = c.about /\ d.by = c.by /\ d.actor = c.actor /\ d.todo = t
      /\ d.wanted = c.wanted /\ d.failed = F /\ d.quiet = Q /\ d.unpaid = c.unpaid
      /\ d.note = N /\ d.figures = G /\ d.skips = c.skips /\ d.tokens = T
  BY DEF GoesOn
<1>2. d = [kind |-> d.kind, about |-> d.about, by |-> d.by, actor |-> d.actor, todo |-> d.todo,
           skips |-> d.skips, figures |-> d.figures, note |-> d.note, tokens |-> d.tokens,
           wanted |-> d.wanted, failed |-> d.failed, quiet |-> d.quiet, unpaid |-> d.unpaid]
  BY DEF GoesOn
<1>3. JobShaped(d)
  BY <1>1, <1>2 DEF JobShaped
<1> QED
  BY <1>1, <1>3 DEF Narrows, Alike

\* What a step of a job does to the week's reports, and to whom it leaves behind.
WeekGoes(c, d) ==
    \/ report' = report /\ c.todo \ d.todo \subseteq d.failed /\ d.figures \in {c.figures, NoFigures}
    \/ report' = report /\ c.kind # "weekly"
    \/ \E u \in c.todo :
          /\ c.kind = "weekly" /\ d.failed = c.failed
          /\ \/ /\ report' = report /\ d.figures = c.figures
                /\ d.todo = c.todo \ {u} /\ DaysRead(u, c.about) = {}
             \/ /\ report' = report /\ d.figures = [user |-> u, days |-> DaysRead(u, c.about)]
                /\ d.todo = c.todo
             \/ /\ c.figures.user = u /\ d.figures = NoFigures
                /\ d.todo = c.todo \ {u} /\ report' = Upsert(u, c.about, c.figures.days)

LEMMA SavedEffect ==
    ASSUME NoticesTyped, NEW j \in Jobs, NEW u \in Users, NEW n \in Notes, NoticeSaved(j, u, n)
    PROVE  \E c, d, x :
               /\ JobBecomes(j, c, d) /\ Narrows(c, d)
               /\ u \in c.todo /\ d.todo = c.todo \ {u}
               /\ d.failed = c.failed /\ d.quiet = c.quiet /\ d.note = {n}
               /\ NoteShaped(x) /\ x # NoNote /\ x.user = u /\ Alike(x, c)
               /\ inbox[n] = NoNote /\ inbox' = [inbox EXCEPT ![n] = x]
               /\ WeekGoes(c, d)
               /\ UNCHANGED <<now, pushed, readDays, finished>>
<1>1. PICK c, T : c = job[j] /\ T = TokensOf(u)
  OBVIOUS
<1>2. JobShaped(c) /\ u \in c.todo /\ u \in Users /\ (c.kind = "weekly" => c.figures.user = u)
  BY <1>1 DEF NoticeSaved, Ready, AtTurn, Working, NoticesTyped
<1>3. PICK d : d = [c EXCEPT !.todo = @ \ {u}, !.figures = NoFigures, !.note = {n}, !.tokens = T]
  OBVIOUS
<1>4. d = GoesOn(c, c.todo \ {u}, c.failed, c.quiet, {n}, T, NoFigures)
  BY <1>2, <1>3 DEF JobShaped, GoesOn
<1>5. job' = [k \in Jobs |-> IF k = j THEN d ELSE job[k]]
  BY <1>1, <1>3 DEF NoticeSaved, NoticesTyped
<1>6. JobBecomes(j, c, d)
  BY <1>1, <1>5 DEF JobBecomes
<1>7. /\ Narrows(c, d) /\ d.todo = c.todo \ {u} /\ d.failed = c.failed /\ d.quiet = c.quiet
      /\ d.note = {n} /\ d.figures = NoFigures
  BY <1>2, <1>4, JobGoesOn
<1>9. PICK x : x = [user |-> u, kind |-> c.kind, about |-> c.about, by |-> c.by, read |-> Never]
  OBVIOUS
<1>10. NoteShaped(x) /\ x # NoNote /\ x.user = u /\ Alike(x, c)
  BY <1>2, <1>9, JobKinds DEF NoteShaped, NoNote, Alike, JobShaped
<1>11. /\ inbox[n] = NoNote /\ inbox' = [inbox EXCEPT ![n] = x]
       /\ report' = IF c.kind = "weekly" THEN Upsert(u, c.about, c.figures.days) ELSE report
       /\ UNCHANGED <<now, pushed, readDays, finished>>
  BY <1>1, <1>9 DEF NoticeSaved, ReportsWith
<1>12. WeekGoes(c, d)
  BY <1>2, <1>7, <1>11 DEF WeekGoes
<1> QED
  BY <1>2, <1>6, <1>7, <1>10, <1>11, <1>12

\* Nobody is told: those who leave the list have it turned off or have not
\* read, or it failed.
Quietly(j) ==
    \E c, d :
        /\ JobBecomes(j, c, d) /\ Narrows(c, d)
        /\ c.todo \ d.todo \subseteq d.failed \cup d.quiet
        /\ d.note \subseteq c.note
        /\ \A p \in pushed' : p \in pushed \/ p[1] \in c.note
        /\ WeekGoes(c, d)
        /\ UNCHANGED <<now, inbox, readDays, finished>>

LEMMA QuietEffect ==
    ASSUME NoticesTyped, NEW j \in Jobs,
           \/ \E u \in Users : StatsOfWeek(j, u) \/ NoticeSkipped(j, u) \/ NoticeFailed(j, u)
           \/ NoticePushed(j) \/ PushFailed(j)
    PROVE  Quietly(j)
<1>1. PICK c : c = job[j]
  OBVIOUS
<1>2. JobShaped(c)
  BY <1>1 DEF StatsOfWeek, NoticeSkipped, NoticeFailed, Ready, AtTurn, NoticePushed, PushFailed, Working, NoticesTyped
<1>3. ASSUME NEW d, job' = [job EXCEPT ![j] = d]
      PROVE  JobBecomes(j, c, d)
  BY <1>1, <1>3 DEF JobBecomes, NoticesTyped
<1>4. ASSUME NEW u \in Users, NoticeSkipped(j, u)
      PROVE  Quietly(j)
  <2>1. PICK d : d = [c EXCEPT !.todo = @ \ {u}, !.figures = NoFigures, !.quiet = @ \cup {u}]
    OBVIOUS
  <2>2. d = GoesOn(c, c.todo \ {u}, c.failed, c.quiet \cup {u}, c.note, c.tokens, NoFigures)
    BY <1>2, <2>1 DEF JobShaped, GoesOn
  <2>3. job' = [job EXCEPT ![j] = d]
    BY <1>1, <1>4, <2>1 DEF NoticeSkipped, NoticesTyped
  <2>4. u \in c.todo /\ c.kind \notin RequiredKinds /\ (c.kind = "weekly" => c.figures.user = u)
    BY <1>1, <1>4 DEF NoticeSkipped, Ready, AtTurn, Enabled
  <2>5. /\ report' = IF c.kind = "weekly" THEN Upsert(u, c.about, c.figures.days) ELSE report
        /\ UNCHANGED <<now, inbox, pushed, readDays, finished>>
    BY <1>1, <1>4 DEF NoticeSkipped, ReportsWith
  <2>6. /\ Narrows(c, d) /\ d.todo = c.todo \ {u} /\ d.failed = c.failed
        /\ d.quiet = c.quiet \cup {u} /\ d.note = c.note /\ d.figures = NoFigures
    BY <1>2, <2>2, <2>4, JobGoesOn
  <2>7. WeekGoes(c, d)
    BY <2>4, <2>5, <2>6 DEF WeekGoes
  <2> QED
    BY <1>3, <2>3, <2>5, <2>6, <2>7 DEF Quietly
<1>5. ASSUME NEW F, NEW t, NEW N, NEW T, NEW G, NEW d, d = GoesOn(c, t, F, c.quiet, N, T, G),
             N \subseteq c.note, t \subseteq c.todo, c.failed \subseteq F, c.todo \ t \subseteq F,
             G \in {c.figures, NoFigures}, job' = [job EXCEPT ![j] = d],
             \A p \in pushed' : p \in pushed \/ p[1] \in c.note,
             UNCHANGED <<now, inbox, report, readDays, finished>>
      PROVE  Quietly(j)
  <2>1. Narrows(c, d) /\ d.todo = t /\ d.failed = F /\ d.note = N /\ d.figures = G
    BY <1>2, <1>5, JobGoesOn
  <2>2. WeekGoes(c, d)
    BY <1>5, <2>1 DEF WeekGoes
  <2> QED
    BY <1>3, <1>5, <2>1, <2>2 DEF Quietly
<1>6. ASSUME NEW u \in Users, NoticeFailed(j, u)
      PROVE  Quietly(j)
  <2>1. PICK t, F : /\ t = (IF c.skips THEN c.todo \ {u} ELSE {})
                    /\ F = c.failed \cup (IF c.skips THEN {u} ELSE c.todo)
    OBVIOUS
  <2>2. PICK d : d = [c EXCEPT !.todo = t, !.figures = NoFigures, !.failed = F]
    OBVIOUS
  <2>3. job' = [job EXCEPT ![j] = d]
    BY <1>1, <1>6, <2>1, <2>2 DEF NoticeFailed, NoticesTyped
  <2>4. d = GoesOn(c, t, F, c.quiet, c.note, c.tokens, NoFigures)
    BY <1>2, <2>2 DEF JobShaped, GoesOn
  <2>5. t \subseteq c.todo /\ c.failed \subseteq F /\ c.todo \ t \subseteq F
    BY <2>1
  <2>6. UNCHANGED <<now, inbox, pushed, report, readDays, finished>>
    BY <1>6 DEF NoticeFailed
  <2> QED
    BY <1>5, <2>3, <2>4, <2>5, <2>6
<1>7. CASE NoticePushed(j)
  <2>1. PICK d : d = [c EXCEPT !.note = {}, !.tokens = {}]
    OBVIOUS
  <2>2. job' = [job EXCEPT ![j] = d]
    BY <1>1, <1>7, <2>1 DEF NoticePushed, NoticesTyped
  <2>3. d = GoesOn(c, c.todo, c.failed, c.quiet, {}, {}, c.figures)
    BY <1>2, <2>1 DEF JobShaped, GoesOn
  <2>4. NoteOf(j) \in c.note
    BY <1>1, <1>7 DEF NoticePushed, NoteOf
  <2>5. \A p \in pushed' : p \in pushed \/ p[1] \in c.note
    BY <1>7, <2>4 DEF NoticePushed
  <2>6. UNCHANGED <<now, inbox, report, readDays, finished>>
    BY <1>7 DEF NoticePushed
  <2>7. PICK N, t, F, G : N = {} /\ t = c.todo /\ F = c.failed /\ G = c.figures
    OBVIOUS
  <2>8. /\ N \subseteq c.note /\ t \subseteq c.todo /\ c.failed \subseteq F /\ c.todo \ t \subseteq F
        /\ G \in {c.figures, NoFigures}
    BY <2>7
  <2>9. d = GoesOn(c, t, F, c.quiet, N, N, G)
    BY <2>3, <2>7
  <2> QED
    BY <1>5, <2>2, <2>5, <2>6, <2>8, <2>9
<1>8. CASE PushFailed(j)
  <2>1. PICK t, F : /\ t = (IF c.skips THEN c.todo ELSE {})
                    /\ F = c.failed \cup (IF c.skips THEN {} ELSE c.todo)
    OBVIOUS
  <2>2. PICK d : d = [c EXCEPT !.note = {}, !.tokens = {}, !.todo = t, !.failed = F]
    OBVIOUS
  <2>3. job' = [job EXCEPT ![j] = d]
    BY <1>1, <1>8, <2>1, <2>2 DEF PushFailed, NoticesTyped
  <2>4. d = GoesOn(c, t, F, c.quiet, {}, {}, c.figures)
    BY <1>2, <2>2 DEF JobShaped, GoesOn
  <2>5. t \subseteq c.todo /\ c.failed \subseteq F /\ c.todo \ t \subseteq F
    BY <2>1
  <2>6. UNCHANGED <<now, inbox, pushed, report, readDays, finished>>
    BY <1>8 DEF PushFailed
  <2>7. PICK N, G : N = {} /\ G = c.figures
    OBVIOUS
  <2>8. N \subseteq c.note /\ G \in {c.figures, NoFigures} /\ \A p \in pushed' : p \in pushed \/ p[1] \in c.note
    BY <2>6, <2>7
  <2>9. d = GoesOn(c, t, F, c.quiet, N, N, G)
    BY <2>4, <2>7
  <2> QED
    BY <1>5, <2>3, <2>5, <2>6, <2>8, <2>9
<1>9. ASSUME NEW u \in Users, StatsOfWeek(j, u)
      PROVE  Quietly(j)
  <2>1. u \in c.todo /\ c.kind = "weekly" /\ UNCHANGED <<now, inbox, pushed, report, readDays, finished>>
    BY <1>1, <1>9 DEF StatsOfWeek, AtTurn
  <2>2. PICK days : days = DaysRead(u, c.about)
    OBVIOUS
  <2>3. c.kind \notin RequiredKinds
    BY <2>1 DEF RequiredKinds
  <2>4. CASE days = {}
    <3>1. PICK d : d = [c EXCEPT !.todo = @ \ {u}, !.quiet = @ \cup {u}]
      OBVIOUS
    <3>2. job' = [job EXCEPT ![j] = d]
      BY <1>1, <1>9, <2>2, <2>4, <3>1 DEF StatsOfWeek, NoticesTyped
    <3>3. d = GoesOn(c, c.todo \ {u}, c.failed, c.quiet \cup {u}, c.note, c.tokens, c.figures)
      BY <1>2, <3>1 DEF JobShaped, GoesOn
    <3>4. /\ Narrows(c, d) /\ d.todo = c.todo \ {u} /\ d.failed = c.failed
          /\ d.quiet = c.quiet \cup {u} /\ d.note = c.note /\ d.figures = c.figures
      BY <1>2, <2>3, <3>3, JobGoesOn
    <3>5. WeekGoes(c, d)
      BY <2>1, <2>2, <2>4, <3>4 DEF WeekGoes
    <3> QED
      BY <1>3, <2>1, <3>2, <3>4, <3>5 DEF Quietly
  <2>5. CASE days # {}
    <3>1. PICK d, G : G = [user |-> u, days |-> days] /\ d = [c EXCEPT !.figures = G]
      OBVIOUS
    <3>2. job' = [job EXCEPT ![j] = d]
      BY <1>1, <1>9, <2>2, <2>5, <3>1 DEF StatsOfWeek, NoticesTyped
    <3>3. d = GoesOn(c, c.todo, c.failed, c.quiet, c.note, c.tokens, G)
      BY <1>2, <3>1 DEF JobShaped, GoesOn
    <3>4. /\ Narrows(c, d) /\ d.todo = c.todo /\ d.failed = c.failed
          /\ d.quiet = c.quiet /\ d.note = c.note /\ d.figures = G
      BY <1>2, <3>3, JobGoesOn
    <3>5. WeekGoes(c, d)
      BY <2>1, <2>2, <3>1, <3>4 DEF WeekGoes
    <3> QED
      BY <1>3, <2>1, <3>2, <3>4, <3>5 DEF Quietly
  <2> QED
    BY <2>4, <2>5
<1> QED
  BY <1>4, <1>6, <1>7, <1>8, <1>9

\* A job is through, or dies: what it leaves behind.
Ends(j) ==
    \E c, o :
        /\ JobBecomes(j, c, JobIdle) /\ JobShaped(c)
        /\ finished' = finished \cup {o}
        /\ Alike(o, c) /\ o.actor = c.actor /\ o.wanted = c.wanted /\ o.unpaid = c.unpaid
        /\ c.todo \cup c.failed \subseteq o.failed /\ o.quiet = c.quiet
        /\ UNCHANGED <<now, inbox, pushed, report, readDays>>

LEMMA EndEffect ==
    ASSUME NoticesTyped, NEW j \in Jobs, JobDone(j) \/ JobDies(j)
    PROVE  Ends(j)
<1>1. PICK c : c = job[j]
  OBVIOUS
<1>2. JobShaped(c)
  BY <1>1 DEF JobDone, JobDies, Working, NoticesTyped
<1>3. PICK failed : /\ c.todo \cup c.failed \subseteq failed
                    /\ finished' = finished \cup {Outcome(j, failed)}
  BY <1>1 DEF JobDone, JobDies
<1>4. PICK o : o = [kind |-> c.kind, about |-> c.about, by |-> c.by, actor |-> c.actor, wanted |-> c.wanted,
                    failed |-> failed, quiet |-> c.quiet, unpaid |-> c.unpaid]
  OBVIOUS
<1>5. finished' = finished \cup {o}
  BY <1>1, <1>3, <1>4 DEF Outcome
<1>6. job' = [job EXCEPT ![j] = JobIdle] /\ UNCHANGED <<now, inbox, pushed, report, readDays>>
  BY DEF JobDone, JobDies
<1>7. JobBecomes(j, c, JobIdle)
  BY <1>1, <1>6 DEF JobBecomes, NoticesTyped
<1>8. /\ Alike(o, c) /\ o.actor = c.actor /\ o.wanted = c.wanted /\ o.unpaid = c.unpaid
      /\ o.failed = failed /\ o.quiet = c.quiet
  BY <1>4 DEF Alike
<1> QED
  BY <1>2, <1>3, <1>5, <1>6, <1>7, <1>8 DEF Ends

\* The reminders are through, and the coupons begin.
LEMMA ReengageEffect ==
    ASSUME NoticesTyped, NEW j \in Jobs, SendReengagementCoupons(j)
    PROVE  \E c, d, o :
               /\ JobBecomes(j, c, d) /\ JobShaped(c) /\ JobShaped(d)
               /\ c.kind = "reminder" /\ c.todo = {}
               /\ d.kind = "offer" /\ d.about = c.about /\ d.by = c.by
               /\ d.actor = c.actor /\ d.todo = d.wanted /\ d.note = {}
               /\ finished' = finished \cup {o}
               /\ Alike(o, c) /\ o.actor = c.actor /\ o.wanted = c.wanted /\ o.unpaid = c.unpaid
               /\ o.failed = c.failed /\ o.quiet = c.quiet
               /\ UNCHANGED <<now, inbox, pushed, report, readDays>>
<1>1. PICK c, L : c = job[j] /\ L = {u \in Users : Unpaid(u) /\
                       account[u].trialEnds \in now - RejoinAfter - Day .. now - RejoinAfter - 1}
  OBVIOUS
<1>2. /\ JobShaped(c) /\ c.kind = "reminder" /\ c.todo = {} /\ c.note = {} /\ L \subseteq Users
      /\ UNCHANGED <<now, inbox, pushed, report, readDays>>
  BY <1>1 DEF SendReengagementCoupons, Working, NoticesTyped
<1>3. PICK d : d = [c EXCEPT !.kind = "offer", !.todo = L, !.wanted = L, !.failed = {}]
  OBVIOUS
<1>4. d = [kind |-> "offer", about |-> c.about, by |-> c.by, actor |-> c.actor, todo |-> L,
           skips |-> c.skips, figures |-> c.figures, note |-> c.note, tokens |-> c.tokens,
           wanted |-> L, failed |-> {}, quiet |-> c.quiet, unpaid |-> c.unpaid]
  BY <1>2, <1>3 DEF JobShaped
<1>5. PICK o : o = [kind |-> c.kind, about |-> c.about, by |-> c.by, actor |-> c.actor, wanted |-> c.wanted,
                    failed |-> c.failed, quiet |-> c.quiet, unpaid |-> c.unpaid]
  OBVIOUS
<1>6. finished' = finished \cup {o}
  BY <1>1, <1>5 DEF SendReengagementCoupons, Outcome
<1>7. job' = [job EXCEPT ![j] = d]
  BY <1>1, <1>3 DEF SendReengagementCoupons
<1>8. JobBecomes(j, c, d)
  BY <1>1, <1>7 DEF JobBecomes, NoticesTyped
<1>9. JobShaped(d)
  BY <1>2, <1>4 DEF JobShaped, RequiredKinds
<1>10. /\ d.kind = "offer" /\ d.about = c.about /\ d.by = c.by
       /\ d.actor = c.actor /\ d.todo = d.wanted /\ d.note = {}
       /\ Alike(o, c) /\ o.actor = c.actor /\ o.wanted = c.wanted /\ o.unpaid = c.unpaid
       /\ o.failed = c.failed /\ o.quiet = c.quiet
  BY <1>2, <1>4, <1>5 DEF Alike
<1> QED
  BY <1>2, <1>6, <1>8, <1>9, <1>10

--------------------------------------------------------------------------------
(* Rows                                                                    *)

LEMMA RowsSame ==
    ASSUME \A n \in Notes : SameRow(inbox'[n], inbox[n]), NEW u, NEW o
    PROVE  RowsAbout(u, o)' = RowsAbout(u, o)
BY DEF RowsAbout, SameRow

LEMMA RowAdded ==
    ASSUME NoticesTyped, NEW n \in Notes, NEW x, inbox[n] = NoNote, inbox' = [inbox EXCEPT ![n] = x],
           NEW u, u # NoUser, NEW o
    PROVE  /\ RowsAbout(u, o) \subseteq RowsAbout(u, o)'
           /\ ~(x.user = u /\ Alike(x, o)) => RowsAbout(u, o)' = RowsAbout(u, o)
           /\ (x.user = u /\ Alike(x, o)) => n \in RowsAbout(u, o)'
<1>1. NoNote.user = NoUser
  BY DEF NoNote
<1>2. inbox'[n] = x /\ \A m \in Notes : m # n => inbox'[m] = inbox[m]
  BY DEF NoticesTyped
<1>3. inbox[n].user # u
  BY <1>1
<1>4. \A m : m \in RowsAbout(u, o)' <=> /\ m \in Notes /\ inbox'[m].user = u
                                        /\ inbox'[m].kind = o.kind /\ inbox'[m].about = o.about
                                        /\ inbox'[m].by = o.by
  BY DEF RowsAbout
<1>5. \A m : m \in RowsAbout(u, o) <=> /\ m \in Notes /\ inbox[m].user = u
                                       /\ inbox[m].kind = o.kind /\ inbox[m].about = o.about
                                       /\ inbox[m].by = o.by
  BY DEF RowsAbout
<1>6. RowsAbout(u, o) \subseteq RowsAbout(u, o)'
  BY <1>2, <1>3, <1>4, <1>5
<1>7. (x.user = u /\ Alike(x, o)) => n \in RowsAbout(u, o)'
  BY <1>2, <1>4 DEF Alike
<1>8. ASSUME ~(x.user = u /\ Alike(x, o))
      PROVE  RowsAbout(u, o)' \subseteq RowsAbout(u, o)
  BY <1>2, <1>4, <1>5, <1>8 DEF Alike
<1> QED
  BY <1>6, <1>7, <1>8

LEMMA AlikeRows ==
    ASSUME NEW u, NEW o, NEW c, Alike(o, c)
    PROVE  RowsAbout(u, o) = RowsAbout(u, c) /\ RowsAbout(u, o)' = RowsAbout(u, c)'
BY DEF RowsAbout, Alike

\* No row of what no job has told of.
LEMMA NoRowYet ==
    ASSUME NoticeInv, NEW u, NEW c, ~Handled(c.kind, c.about, c.by), c.kind # "none"
    PROVE  RowsAbout(u, c) = {}
<1> SUFFICES ASSUME NEW n \in RowsAbout(u, c)
             PROVE  FALSE
  OBVIOUS
<1>1. n \in Notes /\ inbox[n].kind = c.kind /\ inbox[n].about = c.about /\ inbox[n].by = c.by
  BY DEF RowsAbout
<1>2. inbox[n] # NoNote
  BY <1>1 DEF NoNote
<1> QED
  BY <1>1, <1>2 DEF NoticeInv, RowsHandled

--------------------------------------------------------------------------------
(* What jobs tell: the invariant                                           *)

LEMMA NoticesStart ==
    ASSUME NoticeInit
    PROVE  NoticeInv
<1>1. NoticesTyped
  BY DEF NoticeInit, NotificationsInit, ClockInit, NoticesTyped, NoteShaped, NoNote
<1>2. (\A n \in Notes : inbox[n] = NoNote) /\ (\A j \in Jobs : job[j] = JobIdle)
      /\ pushed = {} /\ finished = {}
  BY DEF NoticeInit, NotificationsInit
<1>3. JobIdle.kind = "idle"
  BY DEF JobIdle
<1>4. RowsHandled /\ Apart /\ OffersFollow /\ RowsOnce /\ PushedKept
  BY <1>2, <1>3 DEF RowsHandled, Apart, OffersFollow, RowsOnce, PushedKept
<1> QED
  BY <1>1, <1>2, <1>4 DEF NoticeInv

\* Rows are read at most.
LEMMA RowsKept ==
    ASSUME NoticeInv, UNCHANGED <<job, finished, pushed>>, now' \in Nat,
           inbox' = [n \in Notes |-> inbox'[n]],
           \A n \in Notes : /\ NoteShaped(inbox'[n]) /\ SameRow(inbox'[n], inbox[n])
                            /\ inbox'[n] = NoNote <=> inbox[n] = NoNote
    PROVE  NoticeInv'
<1>1. \A u, o : RowsAbout(u, o)' = RowsAbout(u, o)
  BY RowsSame
<1>2. NoticesTyped'
  BY DEF NoticeInv, NoticesTyped
<1>3. \A k, a, b : Handled(k, a, b)' <=> Handled(k, a, b)
  BY DEF Handled
<1>4. RowsHandled'
  BY <1>3 DEF NoticeInv, RowsHandled, SameRow
<1>5. Apart' /\ OffersFollow' /\ PushedKept'
  BY DEF NoticeInv, Apart, OffersFollow, Reminded, PushedKept
<1>6. RowsOnce'
  BY DEF NoticeInv, RowsOnce, SameRow
<1>7. \A j \in Jobs : (job[j] # JobIdle => JobTells(job[j]))'
  BY <1>1 DEF NoticeInv, JobTells
<1>8. \A o \in finished' : OutcomeTold(o)'
  BY <1>1 DEF NoticeInv, OutcomeTold
<1> QED
  BY <1>2, <1>4, <1>5, <1>6, <1>7, <1>8 DEF NoticeInv

LEMMA NoticesAside ==
    ASSUME NoticeInv, UNCHANGED <<inbox, job, finished, pushed>>, now' \in Nat
    PROVE  NoticeInv'
<1>1. /\ inbox' = [n \in Notes |-> inbox'[n]]
      /\ \A n \in Notes : NoteShaped(inbox'[n]) /\ SameRow(inbox'[n], inbox[n])
  BY DEF NoticeInv, NoticesTyped, SameRow
<1> QED
  BY <1>1, RowsKept

ReadNow(x) == [x EXCEPT !.read = now]

RowsOnlyRead(u) ==
    /\ UNCHANGED <<now, job, finished, pushed>> /\ inbox' = [n \in Notes |-> inbox'[n]]
    /\ \A n \in Notes : inbox'[n] = inbox[n] \/ (inbox[n].user = u /\ inbox'[n] = ReadNow(inbox[n]))

RowsStay ==
    /\ UNCHANGED <<now, job, finished, pushed>> /\ inbox' = [n \in Notes |-> inbox'[n]]
    /\ \A n \in Notes : /\ NoteShaped(inbox'[n]) /\ SameRow(inbox'[n], inbox[n])
                        /\ inbox'[n] = NoNote <=> inbox[n] = NoNote

\* To read a row leaves it the row it is.
LEMMA RowsReadSame ==
    ASSUME NoticesTyped, InboxNext
    PROVE  RowsStay
<1>1. PICK u \in Users : \/ MarkReadAll(u) \/ \E n \in Notes : MarkRead(u, n)
                         \/ \E r \in PrefCalls, kind \in Toggleable, on \in BOOLEAN :
                               UpdatePreferences(r, u, kind, on)
  BY DEF InboxNext
<1>2. NoNote.user = NoUser /\ u # NoUser
  BY ClockAssumption DEF NoNote
<1>3. ASSUME NEW x, NEW y, NoteShaped(x), x.user = u, y = ReadNow(x)
      PROVE  NoteShaped(y) /\ SameRow(y, x) /\ y # NoNote /\ x # NoNote
  <2>1. x # NoNote
    BY <1>2, <1>3
  <2>2. y = [user |-> x.user, kind |-> x.kind, about |-> x.about, by |-> x.by, read |-> now]
    BY <1>3 DEF NoteShaped, ReadNow
  <2>3. y.user = u
    BY <1>3, <2>2
  <2>4. y # NoNote
    BY <1>2, <2>3
  <2> QED
    BY <1>3, <2>1, <2>2, <2>4 DEF NoteShaped, SameRow
<1>4. CASE RowsOnlyRead(u)
  <2>1. ASSUME NEW n \in Notes
        PROVE  /\ NoteShaped(inbox'[n]) /\ SameRow(inbox'[n], inbox[n])
               /\ inbox'[n] = NoNote <=> inbox[n] = NoNote
    <3>1. PICK x, y : x = inbox[n] /\ y = inbox'[n]
      OBVIOUS
    <3>2. NoteShaped(x)
      BY <3>1 DEF NoticesTyped
    <3>3. CASE y = x
      BY <3>1, <3>2, <3>3 DEF SameRow
    <3>4. CASE x.user = u /\ y = ReadNow(x)
      BY <1>3, <3>1, <3>2, <3>4
    <3> QED
      BY <1>4, <3>1, <3>3, <3>4 DEF RowsOnlyRead
  <2> QED
    BY <1>4, <2>1 DEF RowsOnlyRead, RowsStay
<1>5. ASSUME NEW n \in Notes, MarkRead(u, n)
      PROVE  RowsStay
  <2>1. inbox' = [m \in Notes |-> IF m = n THEN ReadNow(inbox[n]) ELSE inbox[m]]
    BY <1>5 DEF MarkRead, NoticesTyped, ReadNow
  <2>2. inbox[n].user = u /\ UNCHANGED <<now, job, finished, pushed>>
    BY <1>5 DEF MarkRead
  <2>3. inbox' = [m \in Notes |-> inbox'[m]]
    BY <2>1
  <2>4. \A m \in Notes : inbox'[m] = inbox[m] \/ (m = n /\ inbox'[m] = ReadNow(inbox[m]))
    BY <2>1
  <2>5. \A m \in Notes : \/ inbox'[m] = inbox[m]
                         \/ inbox[m].user = u /\ inbox'[m] = ReadNow(inbox[m])
    BY <2>2, <2>4
  <2>7. RowsOnlyRead(u)
    BY <2>2, <2>3, <2>5 DEF RowsOnlyRead
  <2> QED
    BY <1>4, <2>7
<1>6. CASE MarkReadAll(u)
  <2>1. inbox' = [n \in Notes |-> IF n \in Unread(u) THEN ReadNow(inbox[n]) ELSE inbox[n]]
    BY <1>6 DEF MarkReadAll, ReadNow
  <2>2. \A n \in Unread(u) : inbox[n].user = u
    BY DEF Unread
  <2>3. inbox' = [m \in Notes |-> inbox'[m]]
    BY <2>1
  <2>6. UNCHANGED <<now, job, finished, pushed>>
    BY <1>6 DEF MarkReadAll
  <2>4. \A m \in Notes : inbox'[m] = inbox[m]
                         \/ (m \in Unread(u) /\ inbox'[m] = ReadNow(inbox[m]))
    BY <2>1
  <2>5. \A m \in Notes : \/ inbox'[m] = inbox[m]
                         \/ inbox[m].user = u /\ inbox'[m] = ReadNow(inbox[m])
    BY <2>2, <2>4
  <2>7. RowsOnlyRead(u)
    BY <2>3, <2>5, <2>6 DEF RowsOnlyRead
  <2> QED
    BY <1>4, <2>7
<1>7. ASSUME NEW r \in PrefCalls, NEW kind \in Toggleable, NEW on \in BOOLEAN, UpdatePreferences(r, u, kind, on)
      PROVE  RowsStay
  <2>1. UNCHANGED <<now, inbox, job, finished, pushed>>
    BY <1>7 DEF UpdatePreferences
  <2>2. inbox' = [m \in Notes |-> inbox'[m]]
    BY <2>1 DEF NoticesTyped
  <2>7. RowsOnlyRead(u)
    BY <2>1, <2>2 DEF RowsOnlyRead
  <2> QED
    BY <1>4, <2>7
<1> QED
  BY <1>1, <1>5, <1>6, <1>7

LEMMA InboxRead ==
    ASSUME NoticeInv, InboxNext
    PROVE  NoticeInv'
<1>1. NoticesTyped /\ now \in Nat
  BY DEF NoticeInv, NoticesTyped
<1>2. RowsStay
  BY <1>1, RowsReadSame
<1> QED
  BY <1>1, <1>2, RowsKept DEF RowsStay

LEMMA RowKinds ==
    ASSUME NoticesTyped, NEW n \in Notes, inbox[n] # NoNote
    PROVE  inbox[n].kind \in Toggleable \cup RequiredKinds /\ inbox[n].kind # "idle" /\ inbox[n].user \in Users
BY DEF NoticesTyped, NoteShaped, Toggleable, RequiredKinds

\* How a step of one job shows in the table of jobs.
LEMMA JobTable ==
    ASSUME NEW j \in Jobs, NEW c, NEW d, JobBecomes(j, c, d)
    PROVE  /\ job'[j] = d /\ \A k \in Jobs : k # j => job'[k] = job[k]
           /\ job' = [k \in Jobs |-> job'[k]]
BY DEF JobBecomes

LEMMA TypesKept ==
    ASSUME NoticesTyped, NEW j \in Jobs, NEW c, NEW d, JobBecomes(j, c, d), d = JobIdle \/ JobShaped(d),
           now' = now, inbox' = [n \in Notes |-> inbox'[n]], \A n \in Notes : NoteShaped(inbox'[n])
    PROVE  NoticesTyped'
<1>1. \A k \in Jobs : job'[k] = JobIdle \/ JobShaped(job'[k])
  BY JobTable DEF NoticesTyped
<1> QED
  BY <1>1, JobTable DEF NoticesTyped

\* What is handled stays handled.
LEMMA HandledStays ==
    ASSUME NoticesTyped, NEW j \in Jobs, NEW c, NEW d, JobBecomes(j, c, d),
           finished \subseteq finished',
           c = JobIdle \/ Alike(d, c) \/ \E o \in finished' : Alike(o, c),
           NEW k, NEW a, NEW b, Handled(k, a, b), k # "idle"
    PROVE  Handled(k, a, b)'
<1>1. JobIdle.kind = "idle"
  BY DEF JobIdle
<1>2. CASE \E i \in Jobs : job[i].kind = k /\ job[i].about = a /\ job[i].by = b
  <2>1. PICK i \in Jobs : job[i].kind = k /\ job[i].about = a /\ job[i].by = b
    BY <1>2
  <2>2. CASE i = j
    <3>1. c.kind = k /\ c.about = a /\ c.by = b /\ c # JobIdle
      BY <1>1, <2>1, <2>2 DEF JobBecomes
    <3> QED
      BY <3>1, JobTable DEF Handled, Alike
  <2>3. CASE i # j
    BY <2>1, <2>3, JobTable DEF Handled
  <2> QED
    BY <2>2, <2>3
<1>3. CASE \E o \in finished : o.kind = k /\ o.about = a /\ o.by = b
  BY <1>3 DEF Handled
<1> QED
  BY <1>2, <1>3 DEF Handled

\* A job begins to tell of what no job has told of.
LEMMA BeginKeepsNotices ==
    ASSUME NoticeInv, NEW j \in Jobs, NEW d, JobBecomes(j, JobIdle, d), JobShaped(d),
           d.todo = d.wanted, d.note = {}, d.actor = NoUser \/ d.actor \notin d.todo,
           d.kind # "offer", d.kind \in SweepKinds => d.actor = NoUser,
           ~Handled(d.kind, d.about, d.by), \A k \in Jobs : ~BothRequired(d, job[k]),
           UNCHANGED <<now, inbox, pushed, finished>>
    PROVE  NoticeInv'
<1>1. d # JobIdle /\ d.kind # "idle" /\ d.kind # "none"
  BY JobKinds
<1>2. /\ job'[j] = d /\ \A k \in Jobs : k # j => job'[k] = job[k]
      /\ job[j] = JobIdle /\ JobIdle.kind = "idle"
  BY JobTable DEF JobBecomes, JobIdle
<1>3. NoticesTyped'
  BY TypesKept DEF NoticeInv, NoticesTyped
<1>4. \A u, o : RowsAbout(u, o)' = RowsAbout(u, o)
  BY DEF RowsAbout
<1>5. RowsHandled'
  <2>1. ASSUME NEW n \in Notes, inbox[n] # NoNote
        PROVE  Handled(inbox[n].kind, inbox[n].about, inbox[n].by)'
    <3>1. Handled(inbox[n].kind, inbox[n].about, inbox[n].by) /\ inbox[n].kind # "idle"
      BY <2>1, RowKinds DEF NoticeInv, RowsHandled
    <3> QED
      BY <3>1, HandledStays DEF NoticeInv
  <2> QED
    BY <2>1 DEF RowsHandled
<1>6. Apart'
  <2>1. ASSUME NEW k \in Jobs
        PROVE  ~Alike(d, job[k]) /\ ~BothRequired(d, job[k])
    BY DEF Handled, Alike
  <2>2. ASSUME NEW i \in Jobs, NEW k \in Jobs, i # k, job'[i] # JobIdle
        PROVE  ~Alike(job'[i], job'[k]) /\ ~BothRequired(job'[i], job'[k])
    <3>1. CASE i = j
      BY <1>2, <2>1, <2>2, <3>1
    <3>2. CASE k = j
      BY <1>2, <2>1, <2>2, <3>2 DEF Alike, BothRequired
    <3>3. CASE i # j /\ k # j
      BY <1>2, <2>2, <3>3 DEF NoticeInv, Apart
    <3> QED
      BY <3>1, <3>2, <3>3
  <2>3. ASSUME NEW i \in Jobs, NEW o \in finished, job'[i] # JobIdle
        PROVE  ~Alike(job'[i], o)
    <3>1. CASE i = j
      BY <1>2, <2>3, <3>1 DEF Handled, Alike
    <3>2. CASE i # j
      BY <1>2, <2>3, <3>2 DEF NoticeInv, Apart
    <3> QED
      BY <3>1, <3>2
  <2> QED
    BY <2>2, <2>3 DEF Apart
<1>7. OffersFollow'
  BY <1>2 DEF NoticeInv, OffersFollow, Reminded
<1>8. RowsOnce' /\ PushedKept'
  BY DEF NoticeInv, RowsOnce, PushedKept, SameRow
<1>9. ASSUME NEW k \in Jobs, job'[k] # JobIdle
      PROVE  JobTells(job[k])'
  <2>1. CASE k # j
    BY <1>2, <1>4, <1>9, <2>1 DEF NoticeInv, JobTells
  <2>2. CASE k = j
    <3>1. \A u : RowsAbout(u, d) = {}
      BY <1>1, NoRowYet
    <3>2. /\ \A u \in d.wanted \ (d.todo \cup d.failed \cup d.quiet) : RowsAbout(u, d)' # {}
          /\ \A u \in d.todo : RowsAbout(u, d)' = {}
          /\ d.actor # NoUser => d.actor \notin d.todo /\ RowsAbout(d.actor, d)' = {}
          /\ \A n \in d.note : n \in Notes /\ inbox'[n] # NoNote
          /\ d.kind \in SweepKinds => d.actor = NoUser
      BY <1>4, <3>1 DEF SweepKinds
    <3> QED
      BY <1>2, <2>2, <3>2 DEF JobTells
  <2> QED
    BY <2>1, <2>2
<1>10. \A o \in finished' : OutcomeTold(o)'
  BY <1>4 DEF NoticeInv, OutcomeTold
<1> QED
  BY <1>3, <1>5, <1>6, <1>7, <1>8, <1>9, <1>10 DEF NoticeInv

\* A job that goes on is the job it was.
LEMMA NarrowsKeepsApart ==
    ASSUME NoticeInv, NEW j \in Jobs, NEW c, NEW d, JobBecomes(j, c, d), Narrows(c, d), UNCHANGED finished
    PROVE  Apart' /\ OffersFollow'
<1>1. /\ job'[j] = d /\ \A k \in Jobs : k # j => job'[k] = job[k]
      /\ job[j] = c /\ c # JobIdle /\ d # JobIdle
      /\ d.kind = c.kind /\ d.about = c.about /\ d.by = c.by
  BY JobTable, JobKinds DEF JobBecomes, Narrows, Alike
<1>2. \A k \in Jobs : job'[k].kind = job[k].kind /\ job'[k].about = job[k].about
                      /\ job'[k].by = job[k].by /\ (job'[k] = JobIdle <=> job[k] = JobIdle)
  BY <1>1
<1>3. Apart'
  BY <1>2 DEF NoticeInv, Apart, Alike, BothRequired
<1>4. OffersFollow'
  BY <1>2 DEF NoticeInv, OffersFollow, Reminded
<1> QED
  BY <1>3, <1>4

LEMMA QuietKeepsNotices ==
    ASSUME NoticeInv, NEW j \in Jobs, Quietly(j)
    PROVE  NoticeInv'
<1>1. PICK c, d :
        /\ JobBecomes(j, c, d) /\ Narrows(c, d)
        /\ c.todo \ d.todo \subseteq d.failed \cup d.quiet
        /\ d.note \subseteq c.note
        /\ \A p \in pushed' : p \in pushed \/ p[1] \in c.note
        /\ UNCHANGED <<now, inbox, readDays, finished>>
  BY DEF Quietly
<1>2. /\ job'[j] = d /\ \A k \in Jobs : k # j => job'[k] = job[k]
      /\ job[j] = c /\ c # JobIdle /\ Alike(d, c) /\ JobShaped(d)
  BY <1>1, JobTable, JobKinds DEF JobBecomes, Narrows
<1>3. NoticesTyped'
  BY <1>1, <1>2, TypesKept DEF NoticeInv, NoticesTyped
<1>4. \A u, o : RowsAbout(u, o)' = RowsAbout(u, o)
  BY <1>1 DEF RowsAbout
<1>5. RowsHandled'
  BY <1>1, <1>2, RowKinds, HandledStays DEF NoticeInv, RowsHandled
<1>6. Apart' /\ OffersFollow'
  BY <1>1, NarrowsKeepsApart
<1>7. JobTells(c)
  BY <1>2 DEF NoticeInv
<1>8. RowsOnce' /\ PushedKept'
  BY <1>1, <1>7 DEF NoticeInv, RowsOnce, PushedKept, SameRow, JobTells
<1>9. ASSUME NEW k \in Jobs, job'[k] # JobIdle
      PROVE  JobTells(job[k])'
  <2>1. CASE k # j
    BY <1>1, <1>2, <1>4, <1>9, <2>1 DEF NoticeInv, JobTells
  <2>2. CASE k = j
    <3>1. \A u : RowsAbout(u, d) = RowsAbout(u, c)
      BY <1>2, AlikeRows
    <3>2. /\ d.kind = c.kind /\ d.actor = c.actor /\ d.wanted = c.wanted
          /\ d.todo \subseteq c.todo /\ c.failed \subseteq d.failed /\ c.quiet \subseteq d.quiet
      BY <1>1 DEF Narrows, Alike
    <3>3. /\ \A u \in d.wanted \ (d.todo \cup d.failed \cup d.quiet) : RowsAbout(u, d)' # {}
          /\ \A u \in d.todo : RowsAbout(u, d)' = {}
          /\ d.actor # NoUser => d.actor \notin d.todo /\ RowsAbout(d.actor, d)' = {}
          /\ \A n \in d.note : n \in Notes /\ inbox'[n] # NoNote
          /\ d.kind \in SweepKinds => d.actor = NoUser
      BY <1>1, <1>4, <1>7, <3>1, <3>2 DEF JobTells
    <3> QED
      BY <1>2, <2>2, <3>3 DEF JobTells
  <2> QED
    BY <2>1, <2>2
<1>10. \A o \in finished' : OutcomeTold(o)'
  BY <1>1, <1>4 DEF NoticeInv, OutcomeTold
<1> QED
  BY <1>3, <1>5, <1>6, <1>8, <1>9, <1>10 DEF NoticeInv

LEMMA SavedKeepsNotices ==
    ASSUME NoticeInv, NEW j \in Jobs, NEW u \in Users, NEW n \in Notes, NoticeSaved(j, u, n)
    PROVE  NoticeInv'
<1>1. PICK c, d, x :
        /\ JobBecomes(j, c, d) /\ Narrows(c, d)
        /\ u \in c.todo /\ d.todo = c.todo \ {u}
        /\ d.failed = c.failed /\ d.quiet = c.quiet /\ d.note = {n}
        /\ NoteShaped(x) /\ x # NoNote /\ x.user = u /\ Alike(x, c)
        /\ inbox[n] = NoNote /\ inbox' = [inbox EXCEPT ![n] = x]
        /\ UNCHANGED <<now, pushed, readDays, finished>>
  BY SavedEffect DEF NoticeInv
<1>2. /\ job'[j] = d /\ \A k \in Jobs : k # j => job'[k] = job[k]
      /\ job[j] = c /\ c # JobIdle /\ Alike(d, c) /\ JobShaped(d) /\ JobShaped(c) /\ d # JobIdle
  BY <1>1, JobTable, JobKinds DEF JobBecomes, Narrows
<1>3. /\ inbox'[n] = x /\ \A m \in Notes : m # n => inbox'[m] = inbox[m]
      /\ inbox' = [m \in Notes |-> inbox'[m]]
  BY <1>1 DEF NoticeInv, NoticesTyped
<1>4. NoticesTyped'
  <2>1. \A m \in Notes : NoteShaped(inbox'[m])
    BY <1>1, <1>3 DEF NoticeInv, NoticesTyped
  <2> QED
    BY <1>1, <1>2, <1>3, <2>1, TypesKept DEF NoticeInv
<1>5. u # NoUser /\ NoUser \notin Users
  BY ClockAssumption
<1>6. ASSUME NEW v, NEW o, v # NoUser
      PROVE  /\ RowsAbout(v, o) \subseteq RowsAbout(v, o)'
             /\ ~(u = v /\ Alike(x, o)) => RowsAbout(v, o)' = RowsAbout(v, o)
             /\ (u = v /\ Alike(x, o)) => n \in RowsAbout(v, o)'
  <2>1. NoticesTyped /\ inbox[n] = NoNote /\ inbox' = [inbox EXCEPT ![n] = x]
    BY <1>1 DEF NoticeInv
  <2>2. /\ RowsAbout(v, o) \subseteq RowsAbout(v, o)'
        /\ ~(x.user = v /\ Alike(x, o)) => RowsAbout(v, o)' = RowsAbout(v, o)
        /\ (x.user = v /\ Alike(x, o)) => n \in RowsAbout(v, o)'
    BY <1>6, <2>1, RowAdded
  <2> QED
    BY <1>1, <2>2
<1>7. JobTells(c)
  BY <1>2 DEF NoticeInv
<1>8. RowsHandled'
  <2>1. ASSUME NEW m \in Notes, inbox'[m] # NoNote
        PROVE  Handled(inbox[m].kind, inbox[m].about, inbox[m].by)'
    <3>1. CASE m = n
      BY <1>1, <1>2, <1>3, <3>1 DEF Handled, Alike
    <3>2. CASE m # n
      <4>1. PICK y : y = inbox[m] /\ y = inbox'[m]
        BY <1>3, <3>2
      <4>2. Handled(y.kind, y.about, y.by) /\ y.kind # "idle"
        BY <2>1, <4>1, RowKinds DEF NoticeInv, RowsHandled
      <4>3. Handled(y.kind, y.about, y.by)'
        BY <1>1, <1>2, <4>2, HandledStays DEF NoticeInv
      <4> QED
        BY <4>1, <4>3
    <3> QED
      BY <3>1, <3>2
  <2> QED
    BY <2>1 DEF RowsHandled
<1>9. Apart' /\ OffersFollow'
  BY <1>1, NarrowsKeepsApart
<1>10. RowsOnce'
  <2>1. ASSUME NEW m \in Notes, m # n
        PROVE  ~SameRow(x, inbox[m])
    <3>1. RowsAbout(u, c) = {}
      BY <1>1, <1>7, <2>1 DEF JobTells, Alike
    <3> QED
      BY <1>1, <3>1 DEF RowsAbout, SameRow, Alike
  <2>2. ASSUME NEW m \in Notes, NEW p \in Notes, inbox'[m] # NoNote, SameRow(inbox'[m], inbox'[p])
        PROVE  m = p
    <3>1. CASE m = n \/ p = n
      BY <1>3, <2>1, <2>2, <3>1 DEF SameRow
    <3>2. CASE m # n /\ p # n
      BY <1>3, <2>2, <3>2 DEF NoticeInv, RowsOnce
    <3> QED
      BY <3>1, <3>2
  <2> QED
    BY <2>2 DEF RowsOnce
<1>11. PushedKept'
  BY <1>1, <1>3 DEF NoticeInv, PushedKept
<1>12. ASSUME NEW k \in Jobs, job'[k] # JobIdle
       PROVE  JobTells(job[k])'
  <2>1. CASE k # j
    <3>1. PICK e : e = job[k]
      OBVIOUS
    <3>2. e # JobIdle /\ JobTells(e) /\ JobShaped(e) /\ ~Alike(e, c) /\ job'[k] = e
      BY <1>2, <1>12, <2>1, <3>1 DEF NoticeInv, NoticesTyped, Apart
    <3>3. ~Alike(x, e)
      BY <1>1, <3>2 DEF Alike
    <3>4. e.todo \subseteq Users /\ e.wanted \subseteq Users
      BY <3>2 DEF JobShaped
    <3>5. \A v \in e.wanted \ (e.todo \cup e.failed \cup e.quiet) : RowsAbout(v, e)' # {}
      BY <1>5, <1>6, <3>2, <3>4 DEF JobTells
    <3>6. \A v \in e.todo : RowsAbout(v, e)' = {}
      BY <1>5, <1>6, <3>2, <3>3, <3>4 DEF JobTells
    <3>7. e.actor # NoUser => e.actor \notin e.todo /\ RowsAbout(e.actor, e)' = {}
      BY <1>6, <3>2, <3>3 DEF JobTells
    <3>8. \A m \in e.note : m \in Notes /\ inbox'[m] # NoNote
      BY <1>1, <1>3, <3>2 DEF JobTells
    <3>9. e.kind \in SweepKinds => e.actor = NoUser
      BY <3>2 DEF JobTells
    <3> QED
      BY <3>2, <3>5, <3>6, <3>7, <3>8, <3>9 DEF JobTells
  <2>2. CASE k = j
    <3>1. /\ d.kind = c.kind /\ d.actor = c.actor /\ d.wanted = c.wanted
          /\ d.todo \subseteq Users /\ d.wanted \subseteq Users /\ Alike(x, d)
      BY <1>1, <1>2 DEF Narrows, Alike, JobShaped
    <3>2. \A v : RowsAbout(v, d) = RowsAbout(v, c)
      BY <1>2, AlikeRows
    <3>3. ASSUME NEW v \in d.wanted \ (d.todo \cup d.failed \cup d.quiet)
          PROVE  RowsAbout(v, d)' # {}
      <4>1. CASE v = u
        BY <1>5, <1>6, <3>1, <4>1
      <4>2. CASE v # u
        <5>1. RowsAbout(v, d) # {}
          BY <1>1, <1>7, <3>1, <3>2, <4>2 DEF JobTells
        <5> QED
          BY <1>5, <1>6, <3>1, <5>1
      <4> QED
        BY <4>1, <4>2
    <3>4. ASSUME NEW v \in d.todo
          PROVE  RowsAbout(v, d)' = {}
      <4>1. RowsAbout(v, d) = {} /\ v # u /\ v # NoUser
        BY <1>1, <1>5, <1>7, <3>1, <3>2, <3>4 DEF JobTells
      <4> QED
        BY <1>6, <4>1
    <3>5. d.actor # NoUser => d.actor \notin d.todo /\ RowsAbout(d.actor, d)' = {}
      <4> SUFFICES ASSUME d.actor # NoUser
                   PROVE  d.actor \notin d.todo /\ RowsAbout(d.actor, d)' = {}
        OBVIOUS
      <4>1. RowsAbout(d.actor, d) = {} /\ d.actor \notin c.todo
        BY <1>7, <3>1, <3>2 DEF JobTells
      <4>2. RowsAbout(d.actor, d)' = RowsAbout(d.actor, d)
        BY <1>1, <1>6, <4>1
      <4> QED
        BY <1>1, <4>1, <4>2
    <3>6. \A m \in d.note : m \in Notes /\ inbox'[m] # NoNote
      BY <1>1, <1>3
    <3>7. d.kind \in SweepKinds => d.actor = NoUser
      BY <1>7, <3>1 DEF JobTells
    <3> QED
      BY <1>2, <2>2, <3>3, <3>4, <3>5, <3>6, <3>7 DEF JobTells
  <2> QED
    BY <2>1, <2>2
<1>13. ASSUME NEW o \in finished'
       PROVE  OutcomeTold(o)'
  <2>1. o \in finished /\ OutcomeTold(o)
    BY <1>1, <1>13 DEF NoticeInv
  <2>2. \A v \in o.wanted \ (o.failed \cup o.quiet) : RowsAbout(v, o)' # {}
    BY <1>5, <1>6, <2>1 DEF OutcomeTold
  <2>3. o.actor # NoUser => RowsAbout(o.actor, o)' = {}
    <3> SUFFICES ASSUME o.actor # NoUser
                 PROVE  RowsAbout(o.actor, o)' = {}
      OBVIOUS
    <3>1. RowsAbout(o.actor, o) = {}
      BY <2>1 DEF OutcomeTold
    <3>2. ~Alike(x, o)
      <4>1. ~Alike(c, o)
        BY <1>2, <2>1 DEF NoticeInv, Apart
      <4> QED
        BY <1>1, <4>1 DEF Alike
    <3> QED
      BY <1>6, <3>1, <3>2
  <2> QED
    BY <2>1, <2>2, <2>3 DEF OutcomeTold
<1> QED
  BY <1>4, <1>8, <1>9, <1>10, <1>11, <1>12, <1>13 DEF NoticeInv

LEMMA EndKeepsNotices ==
    ASSUME NoticeInv, NEW j \in Jobs, Ends(j)
    PROVE  NoticeInv'
<1>1. PICK c, o :
        /\ JobBecomes(j, c, JobIdle) /\ JobShaped(c)
        /\ finished' = finished \cup {o}
        /\ Alike(o, c) /\ o.actor = c.actor /\ o.wanted = c.wanted
        /\ c.todo \cup c.failed \subseteq o.failed /\ o.quiet = c.quiet
        /\ UNCHANGED <<now, inbox, pushed, report, readDays>>
  BY DEF Ends
<1>2. /\ job'[j] = JobIdle /\ \A k \in Jobs : k # j => job'[k] = job[k]
      /\ job[j] = c /\ c # JobIdle /\ JobIdle.kind = "idle"
  BY <1>1, JobTable, JobKinds DEF JobBecomes, JobIdle
<1>3. NoticesTyped'
  BY <1>1, TypesKept DEF NoticeInv, NoticesTyped
<1>4. \A u, p : RowsAbout(u, p)' = RowsAbout(u, p)
  BY <1>1 DEF RowsAbout
<1>5. RowsHandled'
  BY <1>1, <1>2, RowKinds, HandledStays DEF NoticeInv, RowsHandled
<1>6. Apart'
  <2>1. ASSUME NEW i \in Jobs, NEW k \in Jobs, i # k, job'[i] # JobIdle
        PROVE  ~Alike(job'[i], job'[k]) /\ ~BothRequired(job'[i], job'[k])
    <3>1. i # j /\ job'[i] = job[i]
      BY <1>2, <2>1
    <3>2. CASE k = j
      <4>1. job[i].kind # "idle"
        BY <2>1, <3>1, JobKinds DEF NoticeInv, NoticesTyped
      <4> QED
        BY <1>2, <3>1, <3>2, <4>1 DEF Alike, BothRequired, RequiredKinds
    <3>3. CASE k # j
      BY <1>2, <2>1, <3>1, <3>3 DEF NoticeInv, Apart
    <3> QED
      BY <3>2, <3>3
  <2>2. ASSUME NEW i \in Jobs, NEW p \in finished', job'[i] # JobIdle
        PROVE  ~Alike(job'[i], p)
    <3>1. i # j /\ job'[i] = job[i]
      BY <1>2, <2>2
    <3>2. CASE p = o
      BY <1>1, <1>2, <2>2, <3>1, <3>2 DEF NoticeInv, Apart, Alike
    <3>3. CASE p # o
      BY <1>1, <2>2, <3>1, <3>3 DEF NoticeInv, Apart
    <3> QED
      BY <3>2, <3>3
  <2> QED
    BY <2>1, <2>2 DEF Apart
<1>7. OffersFollow'
  BY <1>1, <1>2 DEF NoticeInv, OffersFollow, Reminded, Alike
<1>8. RowsOnce' /\ PushedKept'
  BY <1>1 DEF NoticeInv, RowsOnce, PushedKept, SameRow
<1>9. ASSUME NEW k \in Jobs, job'[k] # JobIdle
      PROVE  JobTells(job[k])'
  BY <1>1, <1>2, <1>4, <1>9 DEF NoticeInv, JobTells
<1>10. ASSUME NEW p \in finished'
       PROVE  OutcomeTold(p)'
  <2>1. CASE p \in finished
    BY <1>4, <2>1 DEF NoticeInv, OutcomeTold
  <2>2. CASE p = o
    <3>1. JobTells(c) /\ c.wanted \subseteq Users /\ \A u : RowsAbout(u, o) = RowsAbout(u, c)
      BY <1>1, <1>2, AlikeRows DEF NoticeInv, JobShaped
    <3>2. /\ o.wanted \subseteq Users /\ (o.kind \in SweepKinds => o.actor = NoUser)
          /\ o.kind \in RequiredKinds => o.quiet = {}
          /\ \A u \in o.wanted \ (o.failed \cup o.quiet) : RowsAbout(u, o)' # {}
          /\ o.actor # NoUser => RowsAbout(o.actor, o)' = {}
      BY <1>1, <1>4, <3>1 DEF JobTells, Alike, JobShaped
    <3> QED
      BY <2>2, <3>2 DEF OutcomeTold
  <2> QED
    BY <1>1, <1>10, <2>1, <2>2
<1> QED
  BY <1>3, <1>5, <1>6, <1>7, <1>8, <1>9, <1>10 DEF NoticeInv

LEMMA ReengageKeepsNotices ==
    ASSUME NoticeInv, NEW j \in Jobs, SendReengagementCoupons(j)
    PROVE  NoticeInv'
<1>1. PICK c, d, o :
        /\ JobBecomes(j, c, d) /\ JobShaped(c) /\ JobShaped(d)
        /\ c.kind = "reminder" /\ c.todo = {}
        /\ d.kind = "offer" /\ d.about = c.about /\ d.by = c.by
        /\ d.actor = c.actor /\ d.todo = d.wanted /\ d.note = {}
        /\ finished' = finished \cup {o}
        /\ Alike(o, c) /\ o.actor = c.actor /\ o.wanted = c.wanted
        /\ o.failed = c.failed /\ o.quiet = c.quiet
        /\ UNCHANGED <<now, inbox, pushed, report, readDays>>
  BY ReengageEffect DEF NoticeInv
<1>2. /\ job'[j] = d /\ \A k \in Jobs : k # j => job'[k] = job[k]
      /\ job[j] = c /\ c # JobIdle /\ d # JobIdle
  BY <1>1, JobTable, JobKinds DEF JobBecomes
<1>3. NoticesTyped'
  BY <1>1, TypesKept DEF NoticeInv, NoticesTyped
<1>4. \A u, p : RowsAbout(u, p)' = RowsAbout(u, p)
  BY <1>1 DEF RowsAbout
<1>5. RowsHandled'
  BY <1>1, <1>2, RowKinds, HandledStays DEF NoticeInv, RowsHandled
<1>6. /\ \A k \in Jobs : k # j => (job[k].kind \in RequiredKinds => job[k].by # c.by)
      /\ \A p \in finished : ~Alike(c, p)
  BY <1>1, <1>2 DEF NoticeInv, Apart, BothRequired, RequiredKinds
<1>7. \A p \in finished : ~Alike(d, p)
  BY <1>1, <1>6 DEF NoticeInv, OffersFollow, Reminded, Alike
<1>8. ~Handled("offer", c.about, c.by)
  BY <1>1, <1>2, <1>6, <1>7 DEF Handled, Alike, RequiredKinds
<1>9. Apart'
  <2>1. ASSUME NEW i \in Jobs, NEW k \in Jobs, i # k, job'[i] # JobIdle
        PROVE  ~Alike(job'[i], job'[k]) /\ ~BothRequired(job'[i], job'[k])
    <3>1. CASE i = j \/ k = j
      BY <1>1, <1>2, <1>6, <2>1, <3>1 DEF Alike, BothRequired, RequiredKinds
    <3>2. CASE i # j /\ k # j
      BY <1>2, <2>1, <3>2 DEF NoticeInv, Apart
    <3> QED
      BY <3>1, <3>2
  <2>2. ASSUME NEW i \in Jobs, NEW p \in finished', job'[i] # JobIdle
        PROVE  ~Alike(job'[i], p)
    <3>1. CASE i = j
      BY <1>1, <1>2, <1>7, <2>2, <3>1 DEF Alike
    <3>2. CASE i # j /\ p = o
      BY <1>1, <1>2, <2>2, <3>2 DEF NoticeInv, Apart, Alike
    <3>3. CASE i # j /\ p \in finished
      BY <1>2, <2>2, <3>3 DEF NoticeInv, Apart
    <3> QED
      BY <1>1, <2>2, <3>1, <3>2, <3>3
  <2> QED
    BY <2>1, <2>2 DEF Apart
<1>10. OffersFollow'
  <2>1. finished \subseteq finished' /\ o \in finished' /\ o.kind = "reminder" /\ o.about = d.about /\ o.by = d.by
    BY <1>1 DEF Alike
  <2>2. ASSUME NEW a, NEW b, Reminded(a, b)
        PROVE  Reminded(a, b)'
    BY <2>1, <2>2 DEF Reminded
  <2>3. Reminded(d.about, d.by)'
    BY <2>1 DEF Reminded
  <2>4. ASSUME NEW i \in Jobs, job'[i].kind = "offer"
        PROVE  Reminded(job[i].about, job[i].by)'
    <3>1. CASE i = j
      BY <1>2, <2>3, <3>1
    <3>2. CASE i # j
      <4>1. PICK e : e = job[i] /\ e = job'[i]
        BY <1>2, <3>2
      <4>2. Reminded(e.about, e.by)
        BY <2>4, <4>1 DEF NoticeInv, OffersFollow
      <4> QED
        BY <2>2, <4>1, <4>2
    <3> QED
      BY <3>1, <3>2
  <2>5. \A p \in finished' : p.kind = "offer" => Reminded(p.about, p.by)'
    BY <1>1, <2>1, <2>2 DEF NoticeInv, OffersFollow
  <2> QED
    BY <2>4, <2>5 DEF OffersFollow
<1>11. RowsOnce' /\ PushedKept'
  BY <1>1 DEF NoticeInv, RowsOnce, PushedKept, SameRow
<1>12. JobTells(c) /\ c.actor = NoUser
  BY <1>1, <1>2 DEF NoticeInv, JobTells, SweepKinds, RequiredKinds
<1>13. ASSUME NEW k \in Jobs, job'[k] # JobIdle
       PROVE  JobTells(job[k])'
  <2>1. CASE k # j
    BY <1>1, <1>2, <1>4, <1>13, <2>1 DEF NoticeInv, JobTells
  <2>2. CASE k = j
    <3>1. \A u : RowsAbout(u, d) = {}
      BY <1>1, <1>8, NoRowYet
    <3> QED
      BY <1>1, <1>2, <1>4, <1>12, <2>2, <3>1 DEF JobTells
  <2> QED
    BY <2>1, <2>2
<1>14. ASSUME NEW p \in finished'
       PROVE  OutcomeTold(p)'
  <2>1. CASE p \in finished
    BY <1>4, <2>1 DEF NoticeInv, OutcomeTold
  <2>2. CASE p = o
    <3>1. /\ c.wanted \subseteq Users /\ c.quiet = {}
          /\ \A u : RowsAbout(u, o) = RowsAbout(u, c)
      BY <1>1, AlikeRows DEF JobShaped, RequiredKinds
    <3>2. /\ o.wanted \subseteq Users /\ o.actor = NoUser /\ o.quiet = {}
          /\ \A u \in o.wanted \ (o.failed \cup o.quiet) : RowsAbout(u, o)' # {}
      BY <1>1, <1>4, <1>12, <3>1 DEF JobTells
    <3> QED
      BY <2>2, <3>2 DEF OutcomeTold
  <2> QED
    BY <1>1, <1>14, <2>1, <2>2
<1> QED
  BY <1>3, <1>5, <1>9, <1>10, <1>11, <1>13, <1>14 DEF NoticeInv

\* A handler begins, with a list that leaves out whose doing it was.
LEMMA HandlerEffect ==
    ASSUME NoticeInv, HandlerNext
    PROVE  \E j \in Jobs : \E d :
               /\ JobBecomes(j, JobIdle, d) /\ JobShaped(d)
               /\ d.todo = d.wanted /\ d.note = {} /\ (d.actor = NoUser \/ d.actor \notin d.todo)
               /\ d.kind \notin SweepKinds
               /\ UNCHANGED <<now, inbox, pushed, report, readDays, finished>>
<1>1. Times \subseteq Int /\ NoticesTyped
  BY ClockAssumption DEF Times, NoticeInv
<1>2. ASSUME NEW j \in Jobs, NEW kind \in Toggleable \ {"weekly"}, NEW e \in Times, NEW a, NEW todo \in SUBSET Users,
             NEW skips, Begin(j, kind, e, NoWorker, a, todo, skips), a = NoUser \/ a \notin todo
      PROVE  \E d :
               /\ JobBecomes(j, JobIdle, d) /\ JobShaped(d)
               /\ d.todo = d.wanted /\ d.note = {} /\ (d.actor = NoUser \/ d.actor \notin d.todo)
               /\ d.kind \notin SweepKinds
               /\ UNCHANGED <<now, inbox, pushed, report, readDays, finished>>
  <2>1. e \in Int /\ kind \in Toggleable \cup RequiredKinds /\ kind \notin SweepKinds
    BY <1>1, <1>2 DEF Toggleable, RequiredKinds, SweepKinds
  <2>2. PICK d : /\ JobBecomes(j, JobIdle, d) /\ JobShaped(d)
                 /\ d.kind = kind /\ d.actor = a /\ d.todo = todo /\ d.wanted = todo /\ d.note = {}
                 /\ UNCHANGED <<now, inbox, pushed, report, readDays, finished>>
    <3>1. Began(j, kind, e, NoWorker, a, todo)
      BY <1>1, <1>2, <2>1, BeginEffect
    <3> QED
      BY <3>1 DEF Began
  <2> QED
    BY <1>2, <2>1, <2>2
<1>3. PICK j \in Jobs, e \in Times, u \in Users :
          \/ \E v \in Users : OnReactionAdded(j, e, u, v)
          \/ \E v \in Users, w \in Users \cup {NoUser} : OnCommentAdded(j, e, u, v, w)
          \/ \E kind \in Toggleable : OnUserEvent(j, e, kind, u)
          \/ \E kind \in Toggleable, all \in SUBSET (Users \ {u}) : FanOutClubPush(j, e, kind, u, all)
  BY DEF HandlerNext
<1>4. \E kind \in Toggleable \ {"weekly"} : \E a : \E todo \in SUBSET Users : \E skips :
          Begin(j, kind, e, NoWorker, a, todo, skips) /\ (a = NoUser \/ a \notin todo)
  <2>1. ASSUME NEW v \in Users, OnReactionAdded(j, e, u, v)
        PROVE  <1>4!:
    <3>1. PICK skips : skips = FALSE
      OBVIOUS
    <3>2. Begin(j, "reaction", e, NoWorker, u, {v}, skips) /\ u \notin {v} /\ {v} \in SUBSET Users
      BY <2>1, <3>1 DEF OnReactionAdded
    <3>3. "reaction" \in Toggleable \ {"weekly"}
      BY DEF Toggleable
    <3> QED
      BY <3>2, <3>3
  <2>2. ASSUME NEW v \in Users, NEW w \in Users \cup {NoUser}, OnCommentAdded(j, e, u, v, w)
        PROVE  <1>4!:
    <3>1. PICK skips : skips = FALSE
      OBVIOUS
    <3>2. CommentRecipients(u, v, w) \subseteq Users /\ u \notin CommentRecipients(u, v, w)
      BY DEF CommentRecipients
    <3>3. Begin(j, "comment", e, NoWorker, u, CommentRecipients(u, v, w), skips)
      BY <2>2, <3>1 DEF OnCommentAdded
    <3>4. "comment" \in Toggleable \ {"weekly"}
      BY DEF Toggleable
    <3> QED
      BY <3>2, <3>3, <3>4
  <2>3. ASSUME NEW kind \in Toggleable, OnUserEvent(j, e, kind, u)
        PROVE  <1>4!:
    <3>1. kind \in Toggleable \ {"weekly"} /\ {u} \in SUBSET Users
      BY <2>3 DEF OnUserEvent
    <3>2. PICK skips : skips = FALSE
      OBVIOUS
    <3>3. Begin(j, kind, e, NoWorker, NoUser, {u}, skips)
      BY <2>3, <3>2 DEF OnUserEvent
    <3> QED
      BY <3>1, <3>3
  <2>4. ASSUME NEW kind \in Toggleable, NEW all \in SUBSET (Users \ {u}), FanOutClubPush(j, e, kind, u, all)
        PROVE  <1>4!:
    <3>1. kind \in Toggleable \ {"weekly"} /\ u \notin all /\ all \in SUBSET Users
      BY <2>4 DEF FanOutClubPush
    <3>2. PICK skips : skips = TRUE
      OBVIOUS
    <3>3. Begin(j, kind, e, NoWorker, u, all, skips)
      BY <2>4, <3>2 DEF FanOutClubPush
    <3> QED
      BY <3>1, <3>3
  <2> QED
    BY <1>3, <2>1, <2>2, <2>3, <2>4
<1> QED
  BY <1>2, <1>4

LEMMA DayIsInt ==
    ASSUME now \in Nat
    PROVE  Today \in Int
BY AccountsAssumption DEF Today

LEMMA WeeklyEffect ==
    ASSUME NoticeInv, NEW j \in Jobs, NEW w \in Workers, RunWeeklyReportBatch(j, w)
    PROVE  \E d : /\ JobBecomes(j, JobIdle, d) /\ JobShaped(d)
                  /\ d.todo = d.wanted /\ d.note = {} /\ d.figures = NoFigures
                  /\ d.actor = NoUser /\ d.kind = "weekly"
                  /\ Over(d.about) /\ ~Handled(d.kind, d.about, d.by)
                  /\ UNCHANGED <<now, inbox, pushed, report, readDays, finished>>
<1>1. now \in Nat /\ Day \in Nat \ {0} /\ Today \in Int /\ WeekDays \in Nat \ {0}
  BY DayIsInt, NotificationsAssumption, AccountsAssumption DEF NoticeInv, NoticesTyped
<1>2. Today % WeekDays = WeekDays - 1 /\ now % Day = 0
  BY DEF RunWeeklyReportBatch
<1>3. LastMonday \in Int /\ LastMonday + 2 * WeekDays - 1 = Today
  BY <1>1, <1>2 DEF LastMonday
<1>4. Today * Day = now
  <2>1. PICK t : t = now \div Day
    OBVIOUS
  <2>2. t \in Int /\ now = Day * t
    BY <1>1, <1>2, <2>1, SMT
  <2>3. Day * t = t * Day
    BY <1>1, <2>2, SMT
  <2> QED
    BY <2>1, <2>2, <2>3 DEF Today
<1>5. SweepOf(LastMonday) = now
  BY <1>3, <1>4 DEF SweepOf
<1>6. Over(LastMonday)
  BY <1>1, <1>3, <1>5 DEF Over
<1>7. PICK skips : skips = TRUE
  OBVIOUS
<1>8. PICK todo \in SUBSET Users : Begin(j, "weekly", LastMonday, w, NoUser, todo, skips)
  BY <1>7 DEF RunWeeklyReportBatch, AliveUsers
<1>9. "weekly" \in Toggleable \cup RequiredKinds /\ NoticesTyped
  BY DEF Toggleable, NoticeInv
<1>10. PICK d : /\ JobBecomes(j, JobIdle, d) /\ JobShaped(d)
                /\ d.kind = "weekly" /\ d.about = LastMonday /\ d.by = w /\ d.actor = NoUser
                /\ d.todo = todo /\ d.wanted = todo /\ d.note = {} /\ d.figures = NoFigures
                /\ UNCHANGED <<now, inbox, pushed, report, readDays, finished>>
  <2>1. Began(j, "weekly", LastMonday, w, NoUser, todo)
    BY <1>3, <1>8, <1>9, BeginEffect
  <2> QED
    BY <2>1 DEF Began
<1>11. ~Handled("weekly", LastMonday, w)
  BY DEF RunWeeklyReportBatch, NotRunning, Handled
<1> QED
  BY <1>6, <1>10, <1>11

LEMMA RemindersEffect ==
    ASSUME NoticeInv, NEW j \in Jobs, NEW w \in Workers, SendExpiryReminders(j, w)
    PROVE  \E d : /\ JobBecomes(j, JobIdle, d) /\ JobShaped(d)
                  /\ d.todo = d.wanted /\ d.note = {} /\ d.actor = NoUser /\ d.kind = "reminder"
                  /\ d.about = now /\ d.by = w
                  /\ d.unpaid = {u \in Users : Unpaid(u)} /\ d.wanted = {u \in Users : Unpaid(u) /\ Ending(u)}
                  /\ \A a : Handled("reminder", a, w) => a \div Day # now \div Day
                  /\ \A k \in Jobs : ~BothRequired(d, job[k])
                  /\ UNCHANGED <<now, inbox, pushed, report, readDays, finished>>
<1> DEFINE L == {u \in Users : Unpaid(u) /\ Ending(u)}
<1>1. PICK todo, skips : todo = L /\ skips = TRUE
  OBVIOUS
<1>6. todo \in SUBSET Users /\ Begin(j, "reminder", now, w, NoUser, todo, skips)
  BY <1>1 DEF SendExpiryReminders
<1>2. PICK d : /\ JobBecomes(j, JobIdle, d) /\ JobShaped(d)
               /\ d.kind = "reminder" /\ d.about = now /\ d.by = w /\ d.actor = NoUser
               /\ d.todo = todo /\ d.wanted = todo /\ d.note = {}
               /\ d.unpaid = {u \in Users : Unpaid(u)}
               /\ UNCHANGED <<now, inbox, pushed, report, readDays, finished>>
  <2>1. now \in Int /\ NoticesTyped /\ "reminder" \in Toggleable \cup RequiredKinds
    BY DEF NoticeInv, NoticesTyped, RequiredKinds
  <2>2. Began(j, "reminder", now, w, NoUser, todo)
    BY <1>6, <2>1, BeginEffect
  <2> QED
    BY <2>2 DEF Began
<1>3. /\ \A k \in Jobs : job[k].kind \in RequiredKinds => job[k].by # w
      /\ \A o \in finished : o.kind = "reminder" /\ o.by = w => o.about \div Day # now \div Day
  BY DEF SendExpiryReminders, NotRunning, RequiredKinds, Today
<1>4. \A a : Handled("reminder", a, w) => a \div Day # now \div Day
  BY <1>3 DEF Handled, RequiredKinds
<1>5. \A k \in Jobs : ~BothRequired(d, job[k])
  BY <1>2, <1>3 DEF BothRequired
<1> QED
  BY <1>1, <1>2, <1>4, <1>5

LEMMA ClockStands ==
    ASSUME BillingNext \/ (\E j \in Jobs, u \in Users : IssueCoupon(j, u)) \/ AccountsNext
    PROVE  now' = now
<1> USE DEF Load, BillDone, LoginDone
<1>1. ASSUME NEW r \in BillingCalls, StatusExpired(r) \/ CouponApplied(r) \/ MemberAdded(r) \/ BillLost(r)
      PROVE  now' = now
  BY <1>1 DEF StatusExpired, CouponApplied, MemberAdded, BillLost
<1>2. CASE SubscriptionNext
  BY <1>2 DEF SubscriptionNext, GetStatus, VerifyAndActivate, ApplyWebhookEvent
<1>3. CASE CouponNext
  BY <1>3 DEF CouponNext, CreateCoupon, ApplyCoupon
<1>4. CASE TeamNext
  BY <1>4 DEF TeamNext, CreateTeam, AddMember, RemoveMember
<1>5. ASSUME NEW j \in Jobs, NEW u \in Users, IssueCoupon(j, u)
      PROVE  now' = now
  BY <1>5 DEF IssueCoupon, CreateCoupon
<1>6. CASE AccountsNext
  BY <1>6 DEF AccountsNext, Login, LoggedIn, SignedUp, LoginRefused, Refresh, DeleteAccount, RegisterDevice
<1> QED
  BY <1>1, <1>2, <1>3, <1>4, <1>5, <1>6 DEF BillingNext

LEMMA NoticesStep ==
    ASSUME NoticeInv, [NoticeNext]_NoticeVars
    PROVE  NoticeInv'
<1>1. now \in Nat /\ NoticesTyped
  BY DEF NoticeInv, NoticesTyped
<1>2. CASE UNCHANGED <<now, inbox, job, finished, pushed>>
  BY <1>1, <1>2, NoticesAside
<1>3. CASE HandlerNext /\ HandledOnce
  <2>1. PICK j, d : /\ j \in Jobs /\ JobBecomes(j, JobIdle, d) /\ JobShaped(d)
                    /\ d.todo = d.wanted /\ d.note = {} /\ (d.actor = NoUser \/ d.actor \notin d.todo)
                    /\ d.kind \notin SweepKinds
                    /\ UNCHANGED <<now, inbox, pushed, finished>>
    BY <1>3, HandlerEffect
  <2>2. job[j] = JobIdle /\ job'[j] = d /\ d # JobIdle
    BY <2>1, JobTable, JobKinds DEF JobBecomes
  <2>3. ~Handled(d.kind, d.about, d.by)
    <3>1. job'[j] # job[j]
      BY <2>2
    <3>2. ~Handled(job'[j].kind, job'[j].about, job'[j].by)
      BY <1>3, <2>1, <3>1 DEF HandledOnce
    <3> QED
      BY <2>2, <3>2
  <2>4. d.kind \notin RequiredKinds /\ d.kind # "offer" /\ \A k \in Jobs : ~BothRequired(d, job[k])
    BY <2>1 DEF SweepKinds, RequiredKinds, BothRequired
  <2> QED
    BY <2>1, <2>3, <2>4, BeginKeepsNotices
<1>4. CASE JobNext
  BY <1>1, <1>4, QuietEffect, QuietKeepsNotices, EndEffect, EndKeepsNotices, SavedKeepsNotices DEF JobNext
<1>5. CASE SweepNext
  <2>1. ASSUME NEW j \in Jobs, NEW w \in Workers, RunWeeklyReportBatch(j, w)
        PROVE  NoticeInv'
    <3>1. PICK d : /\ JobBecomes(j, JobIdle, d) /\ JobShaped(d)
                   /\ d.todo = d.wanted /\ d.note = {} /\ d.actor = NoUser /\ d.kind = "weekly"
                   /\ ~Handled(d.kind, d.about, d.by)
                   /\ UNCHANGED <<now, inbox, pushed, finished>>
      BY <2>1, WeeklyEffect
    <3>2. d.kind # "offer" /\ \A k \in Jobs : ~BothRequired(d, job[k])
      BY <3>1 DEF RequiredKinds, BothRequired
    <3> QED
      BY <3>1, <3>2, BeginKeepsNotices
  <2>2. ASSUME NEW j \in Jobs, NEW w \in Workers, SendExpiryReminders(j, w)
        PROVE  NoticeInv'
    <3>1. PICK d : /\ JobBecomes(j, JobIdle, d) /\ JobShaped(d)
                   /\ d.todo = d.wanted /\ d.note = {} /\ d.actor = NoUser /\ d.kind = "reminder"
                   /\ d.about = now /\ d.by = w
                   /\ \A a : Handled("reminder", a, w) => a \div Day # now \div Day
                   /\ \A k \in Jobs : ~BothRequired(d, job[k])
                   /\ UNCHANGED <<now, inbox, pushed, finished>>
      BY <2>2, RemindersEffect
    <3>2. ~Handled(d.kind, d.about, d.by) /\ d.kind # "offer"
      BY <3>1
    <3> QED
      BY <3>1, <3>2, BeginKeepsNotices
  <2> QED
    BY <1>5, <2>1, <2>2 DEF SweepNext
<1>6. ASSUME NEW u \in Users, NEW d \in Int, ReadOn(u, d)
      PROVE  UNCHANGED <<now, inbox, job, finished, pushed>>
  BY <1>6 DEF ReadOn
<1>7. ASSUME NEW r \in PrefCalls, PreferencesSaved(r)
      PROVE  UNCHANGED <<now, inbox, job, finished, pushed>>
  BY <1>7 DEF PreferencesSaved
<1>8. CASE UNCHANGED notifications /\ (now' = now \/ Tick)
  <2>1. now' \in Nat /\ UNCHANGED <<inbox, job, finished, pushed>>
    BY <1>1, <1>8 DEF notifications, Tick
  <2> QED
    BY <2>1, NoticesAside
<1>9. CASE \/ (BillingNext \/ \E j \in Jobs, u \in Users : IssueCoupon(j, u)) /\ UNCHANGED <<accounts, notifications>>
           \/ AccountsNext /\ UNCHANGED <<billing, notifications>>
  BY <1>8, <1>9, ClockStands
<1>10. ASSUME NEW j \in Jobs, SendReengagementCoupons(j)
       PROVE  NoticeInv'
  BY <1>10, ReengageKeepsNotices
<1>11. CASE UNCHANGED NoticeVars
  BY <1>2, <1>11 DEF NoticeVars, notifications
<1>12. ASSUME \/ \E r \in PrefCalls : PreferencesSaved(r)
              \/ \E u \in Users, d \in Int : ReadOn(u, d)
       PROVE  NoticeInv'
  BY <1>2, <1>6, <1>7, <1>12
<1>13. CASE InboxNext
  BY <1>13, InboxRead
<1>14. CASE Tick /\ UNCHANGED <<accounts, billing, notifications>>
  BY <1>8, <1>14
<1> QED
  <2>1. CASE (HandlerNext /\ HandledOnce) \/ JobNext \/ SweepNext \/ InboxNext
    BY <1>3, <1>4, <1>5, <1>13, <2>1
  <2>2. CASE \/ \E j \in Jobs : SendReengagementCoupons(j)
             \/ \E r \in PrefCalls : PreferencesSaved(r)
             \/ \E u \in Users, d \in Int : ReadOn(u, d)
    BY <1>10, <1>12, <2>2
  <2>3. CASE NoticeNext
    <3>1. \/ (HandlerNext /\ HandledOnce) \/ JobNext \/ SweepNext \/ InboxNext
          \/ \E j \in Jobs : SendReengagementCoupons(j)
          \/ \E r \in PrefCalls : PreferencesSaved(r)
          \/ \E u \in Users, d \in Int : ReadOn(u, d)
          \/ (BillingNext \/ \E j \in Jobs, u \in Users : IssueCoupon(j, u))
             /\ UNCHANGED <<accounts, notifications>>
          \/ AccountsNext /\ UNCHANGED <<billing, notifications>>
          \/ Tick /\ UNCHANGED <<accounts, billing, notifications>>
      BY <2>3, ZenonT(60) DEF NoticeNext
    <3>2. CASE (BillingNext \/ \E j \in Jobs, u \in Users : IssueCoupon(j, u))
               /\ UNCHANGED <<accounts, notifications>>
      BY <1>9, <3>2
    <3>3. CASE AccountsNext /\ UNCHANGED <<billing, notifications>>
      BY <1>9, <3>3
    <3> QED
      BY <1>14, <2>1, <2>2, <3>1, <3>2, <3>3
  <2> QED
    BY <1>11, <2>3


--------------------------------------------------------------------------------
(* Reports of weeks whose sweeps have begun                                *)

LEMMA SweepInstant ==
    ASSUME NEW m \in Int
    PROVE  SweepOf(m) \in Int
<1>1. PICK a : a = m + 2 * WeekDays - 1
  OBVIOUS
<1>2. a \in Int /\ Day \in Int
  BY <1>1, NotificationsAssumption, AccountsAssumption
<1> QED
  BY <1>1, <1>2 DEF SweepOf

\* Time goes on.
TimeGoes == now \in Int /\ now' \in Int /\ now <= now'

LEMMA OverStays ==
    ASSUME TimeGoes, NEW m, Over(m)
    PROVE  Over(m)'
<1>1. SweepOf(m) \in Int /\ SweepOf(m)' = SweepOf(m)
  BY SweepInstant DEF Over, SweepOf
<1> QED
  BY <1>1 DEF Over, TimeGoes

ReadingAdds == readDays' = readDays \/ \E v, d : readDays' = readDays \cup {<<v, d, now>>}

\* What is read adds to what is read, and not to what is due.
LEMMA ReadingStands ==
    ASSUME ReadBefore, TimeGoes, ReadingAdds
    PROVE  /\ ReadBefore'
           /\ \A u, m : DaysRead(u, m) \subseteq DaysRead(u, m)'
           /\ \A u, m : Over(m) => DueDays(u, m)' = DueDays(u, m)
<1>1. readDays \subseteq readDays' /\ \A x \in readDays' : x \in readDays \/ x[3] = now
  BY DEF ReadingAdds
<1>2. ReadBefore'
  BY <1>1 DEF ReadBefore, TimeGoes
<1>3. \A u, m : DaysRead(u, m) \subseteq DaysRead(u, m)'
  BY <1>1 DEF DaysRead, WeekOf
<1>4. ASSUME NEW u, NEW m, Over(m)
      PROVE  DueDays(u, m)' = DueDays(u, m)
  <2>1. PICK s : s = SweepOf(m)
    OBVIOUS
  <2>2. s \in Int /\ SweepOf(m)' = s /\ s <= now
    BY <1>4, <2>1, SweepInstant DEF Over, SweepOf
  <2>3. \A x \in readDays' : x[3] < s => x \in readDays
    BY <1>1, <2>2 DEF TimeGoes
  <2>4. \A d : (\E x \in readDays' : x[1] = u /\ x[2] = d /\ x[3] < s)
               <=> (\E x \in readDays : x[1] = u /\ x[2] = d /\ x[3] < s)
    BY <1>1, <2>3
  <2>5. \A d : d \in DueDays(u, m) <=> d \in WeekOf(m) /\ \E x \in readDays : x[1] = u /\ x[2] = d /\ x[3] < s
    BY <2>1 DEF DueDays
  <2>6. \A d : d \in DueDays(u, m)' <=> d \in WeekOf(m)' /\ \E x \in readDays' : x[1] = u /\ x[2] = d /\ x[3] < s
    BY <2>2 DEF DueDays
  <2>7. WeekOf(m)' = WeekOf(m)
    BY DEF WeekOf
  <2>8. \A d : d \in DueDays(u, m)' <=> d \in DueDays(u, m)
    BY <2>4, <2>5, <2>6, <2>7
  <2> QED
    BY <2>8
<1> QED
  BY <1>2, <1>3, <1>4

\* What every step leaves standing.
WeeksStand ==
    /\ TimeGoes /\ ReadBefore' /\ ReportsRight'
    /\ \A u, m, days : RightDays(u, m, days) => RightDays(u, m, days)'
    /\ \A u, m : (Over(m) /\ Served(u, m)) => Served(u, m)'

LEMMA RightStands ==
    ASSUME ReadBefore, TimeGoes, ReadingAdds, NEW u, NEW m, NEW days, RightDays(u, m, days)
    PROVE  RightDays(u, m, days)'
<1>1. Over(m) /\ Over(m)'
  BY OverStays DEF RightDays
<1>2. DueDays(u, m)' = DueDays(u, m) /\ DaysRead(u, m) \subseteq DaysRead(u, m)'
  BY <1>1, ReadingStands
<1> QED
  BY <1>1, <1>2 DEF RightDays

LEMMA WeeksKept ==
    ASSUME WeeksReported, WeeksStand,
           \/ job' = job
           \/ \E j \in Jobs : \E c, d : JobBecomes(j, c, d) /\ WeekTold(d)',
           finished' = finished \/ \E o : finished' = finished \cup {o} /\ WeekKept(o)'
    PROVE  WeeksReported'
<1>1. ASSUME NEW m, Over(m)
      PROVE  Over(m)'
  BY <1>1, OverStays DEF WeeksStand
<1>2. ASSUME NEW c, WeekTold(c)
      PROVE  WeekTold(c)'
  <2> SUFFICES ASSUME c.kind = "weekly"
               PROVE  /\ Over(c.about)'
                      /\ c.figures = NoFigures \/ RightDays(c.figures.user, c.about, c.figures.days)'
                      /\ \A u \in c.wanted \ (c.todo \cup c.failed) : Served(u, c.about)'
    BY DEF WeekTold, NoFigures
  <2>1. PICK a, v, days, G : a = c.about /\ v = c.figures.user /\ days = c.figures.days /\ G = c.figures
    OBVIOUS
  <2>2. Over(a) /\ (G = NoFigures \/ RightDays(v, a, days))
        /\ \A u \in c.wanted \ (c.todo \cup c.failed) : Served(u, a)
    BY <1>2, <2>1 DEF WeekTold
  <2>3. Over(a)' /\ (G = NoFigures \/ RightDays(v, a, days)')
        /\ \A u \in c.wanted \ (c.todo \cup c.failed) : Served(u, a)'
    BY <1>1, <2>2 DEF WeeksStand
  <2> QED
    BY <2>1, <2>3
<1>3. ASSUME NEW o, WeekKept(o)
      PROVE  WeekKept(o)'
  BY <1>1, <1>3 DEF WeekKept, WeeksStand
<1>4. ASSUME NEW k \in Jobs
      PROVE  WeekTold(job[k])'
  <2>1. PICK y : y = job'[k]
    OBVIOUS
  <2>2. y = job[k] \/ WeekTold(y)'
    BY <2>1, JobTable
  <2>3. WeekTold(y)'
    BY <1>2, <2>2 DEF WeeksReported
  <2> QED
    BY <2>1, <2>3 DEF WeekTold
<1>5. \A o \in finished' : WeekKept(o)'
  BY <1>3 DEF WeeksReported
<1> QED
  BY <1>4, <1>5 DEF WeeksReported, WeeksStand

LEMMA IdleToldNoWeek == WeekTold(JobIdle)' /\ WeekTold(JobIdle)
<1>1. JobIdle.kind = "idle"
  BY DEF JobIdle
<1> QED
  BY <1>1 DEF WeekTold

LEMMA WeeksStart ==
    ASSUME NoticeInit
    PROVE  WeeksReported
<1>1. (\A j \in Jobs : job[j] = JobIdle) /\ finished = {} /\ report = {} /\ readDays = {}
  BY DEF NoticeInit, NotificationsInit
<1>2. ReadBefore /\ ReportsRight
  BY <1>1 DEF ReadBefore, ReportsRight
<1> QED
  BY <1>1, <1>2, IdleToldNoWeek DEF WeeksReported

\* No report changes.
LEMMA WeeksUntouched ==
    ASSUME NoticeInv, WeeksReported, report' = report, ReadingAdds, now' = now \/ Tick
    PROVE  WeeksStand
<1>1. TimeGoes
  BY DEF NoticeInv, NoticesTyped, Tick, TimeGoes
<1>2. ReadBefore /\ ReportsRight
  BY DEF WeeksReported
<1>3. \A u, m, days : RightDays(u, m, days) => RightDays(u, m, days)'
  BY <1>1, <1>2, RightStands
<1>4. ReportsRight'
  BY <1>2, <1>3 DEF ReportsRight
<1>5. ASSUME NEW u, NEW m, Over(m), Served(u, m)
      PROVE  Served(u, m)'
  <2>1. DueDays(u, m)' = DueDays(u, m)
    BY <1>1, <1>2, <1>5, ReadingStands
  <2>2. InReport(u, m)' <=> InReport(u, m)
    BY DEF InReport
  <2> QED
    BY <1>5, <2>1, <2>2 DEF Served
<1>6. ReadBefore'
  BY <1>1, <1>2, ReadingStands
<1> QED
  BY <1>1, <1>3, <1>4, <1>5, <1>6 DEF WeeksStand

\* A report takes the place of none but the same user's of the same week.
LEMMA WeeksUpserted ==
    ASSUME NoticeInv, WeeksReported, UNCHANGED <<now, readDays>>, NEW v, NEW a, NEW days,
           report' = Upsert(v, a, days), RightDays(v, a, days)
    PROVE  WeeksStand /\ Served(v, a)'
<1>1. TimeGoes /\ ReadingAdds
  BY DEF NoticeInv, NoticesTyped, TimeGoes, ReadingAdds
<1>2. ReadBefore /\ ReportsRight
  BY DEF WeeksReported
<1>3. \A u, m, ds : RightDays(u, m, ds) => RightDays(u, m, ds)'
  BY <1>1, <1>2, RightStands
<1>4. PICK t : t = <<v, a, days>>
  OBVIOUS
<1>5. t[1] = v /\ t[2] = a /\ t[3] = days /\ t \in report'
  BY <1>4 DEF Upsert
<1>6. \A w \in report' : w = t \/ (w \in report /\ (w[1] # v \/ w[2] # a))
  BY <1>4 DEF Upsert
<1>7. \A w \in report : w \in report' \/ (w[1] = v /\ w[2] = a)
  BY DEF Upsert
<1>8. \A w \in report' : RightDays(w[1], w[2], w[3])'
  <2>1. ASSUME NEW w \in report'
        PROVE  RightDays(w[1], w[2], w[3])
    BY <1>2, <1>5, <1>6 DEF ReportsRight
  <2> QED
    BY <1>3, <2>1
<1>9. \A w, x \in report' : (w[1] = x[1] /\ w[2] = x[2]) => w = x
  BY <1>2, <1>5, <1>6 DEF ReportsRight
<1>10. ASSUME NEW u, NEW m, Over(m), Served(u, m)
       PROVE  Served(u, m)'
  <2>1. DueDays(u, m)' = DueDays(u, m)
    BY <1>1, <1>2, <1>10, ReadingStands
  <2>2. InReport(u, m) => InReport(u, m)'
    BY <1>5, <1>7 DEF InReport
  <2> QED
    BY <1>10, <2>1, <2>2 DEF Served
<1>11. Served(v, a)'
  BY <1>5 DEF Served, InReport
<1>12. ReadBefore'
  BY <1>1, <1>2, ReadingStands
<1>13. ReportsRight'
  BY <1>8, <1>9 DEF ReportsRight
<1> QED
  BY <1>1, <1>3, <1>10, <1>11, <1>12, <1>13 DEF WeeksStand

LEMMA WeekGoesOn ==
    ASSUME NoticeInv, WeeksReported, NEW j \in Jobs, NEW c, NEW d, JobBecomes(j, c, d), Narrows(c, d),
           WeekGoes(c, d), UNCHANGED <<now, readDays, finished>>
    PROVE  WeeksReported'
<1>1. WeekTold(c)
  BY DEF WeeksReported, JobBecomes
<1>2. /\ d.kind = c.kind /\ d.about = c.about /\ d.wanted = c.wanted /\ c.todo \subseteq Users
      /\ d.todo \subseteq c.todo /\ c.failed \subseteq d.failed
  BY DEF Narrows, Alike, JobShaped
<1>3. ReadingAdds
  BY DEF ReadingAdds
<1>4. report' = report => WeeksStand
  BY <1>3, WeeksUntouched
<1>5. CASE report' = report /\ c.kind # "weekly"
  <2>1. WeekTold(d)'
    BY <1>2, <1>5 DEF WeekTold
  <2> QED
    BY <1>4, <1>5, <2>1, WeeksKept
<1>6. ASSUME WeeksStand, c.kind = "weekly",
             d.figures = NoFigures \/ RightDays(d.figures.user, c.about, d.figures.days),
             \A u \in c.todo \ (d.todo \cup d.failed) : Served(u, c.about)'
      PROVE  WeeksReported'
  <2>1. PICK a, v, days, G : a = c.about /\ v = d.figures.user /\ days = d.figures.days /\ G = d.figures
    OBVIOUS
  <2>2. Over(a) /\ \A u \in c.wanted \ (c.todo \cup c.failed) : Served(u, a)
    BY <1>1, <1>6, <2>1 DEF WeekTold
  <2>3. Over(a)'
    BY <1>6, <2>2, OverStays DEF WeeksStand
  <2>4. G = NoFigures \/ RightDays(v, a, days)'
    BY <1>6, <2>1 DEF WeeksStand
  <2>5. \A u \in c.wanted \ (c.todo \cup c.failed) : Served(u, a)'
    BY <1>6, <2>2 DEF WeeksStand
  <2>6. \A u \in d.wanted \ (d.todo \cup d.failed) : Served(u, a)'
    BY <1>2, <1>6, <2>1, <2>5
  <2>7. /\ Over(d.about)' /\ (d.figures = NoFigures \/ RightDays(d.figures.user, d.about, d.figures.days)')
        /\ \A u \in d.wanted \ (d.todo \cup d.failed) : Served(u, d.about)'
    BY <1>2, <2>1, <2>3, <2>4, <2>6
  <2>8. WeekTold(d)'
    BY <2>7 DEF WeekTold, NoFigures
  <2> QED
    BY <1>6, <2>8, WeeksKept
<1>7. CASE report' = report /\ c.todo \ d.todo \subseteq d.failed /\ d.figures \in {c.figures, NoFigures}
  <2>1. c.kind = "weekly" => d.figures = NoFigures \/ RightDays(d.figures.user, c.about, d.figures.days)
    BY <1>1, <1>7 DEF WeekTold
  <2> QED
    BY <1>4, <1>5, <1>6, <1>7, <2>1
<1>8. ASSUME NEW u \in c.todo, c.kind = "weekly", report' = report, d.figures = c.figures,
             d.todo = c.todo \ {u}, DaysRead(u, c.about) = {}
      PROVE  WeeksReported'
  <2>1. Over(c.about)
    BY <1>1, <1>8 DEF WeekTold
  <2>2. DueDays(u, c.about) = {}
    BY <1>8 DEF DueDays, DaysRead
  <2>3. PICK a : a = c.about
    OBVIOUS
  <2>4. Served(u, a)'
    BY <1>4, <1>8, <2>1, <2>2, <2>3 DEF WeeksStand, Served
  <2>5. \A v \in c.todo \ (d.todo \cup d.failed) : Served(v, c.about)'
    BY <1>8, <2>3, <2>4
  <2>6. d.figures = NoFigures \/ RightDays(d.figures.user, c.about, d.figures.days)
    BY <1>1, <1>8 DEF WeekTold
  <2> QED
    BY <1>4, <1>6, <1>8, <2>5, <2>6
<1>9. ASSUME NEW u \in c.todo, c.kind = "weekly", report' = report, d.todo = c.todo,
             d.figures = [user |-> u, days |-> DaysRead(u, c.about)]
      PROVE  WeeksReported'
  <2>1. Over(c.about)
    BY <1>1, <1>9 DEF WeekTold
  <2>2. DueDays(u, c.about) \subseteq DaysRead(u, c.about)
    BY DEF DueDays, DaysRead
  <2>3. RightDays(d.figures.user, c.about, d.figures.days)
    BY <1>9, <2>1, <2>2 DEF RightDays
  <2> QED
    BY <1>4, <1>6, <1>9, <2>3
<1>10. ASSUME NEW u \in c.todo, c.kind = "weekly", c.figures.user = u, d.figures = NoFigures,
              d.todo = c.todo \ {u}, report' = Upsert(u, c.about, c.figures.days)
       PROVE  WeeksReported'
  <2>1. c.figures # NoFigures
    BY <1>2, <1>10, ClockAssumption DEF NoFigures
  <2>2. PICK a, days : a = c.about /\ days = c.figures.days
    OBVIOUS
  <2>3. RightDays(u, a, days)
    BY <1>1, <1>10, <2>1, <2>2 DEF WeekTold
  <2>4. WeeksStand /\ Served(u, a)'
    BY <1>10, <2>2, <2>3, WeeksUpserted
  <2>5. \A v \in c.todo \ (d.todo \cup d.failed) : Served(v, c.about)'
    BY <1>10, <2>2, <2>4
  <2> QED
    BY <1>6, <1>10, <2>4, <2>5
<1> QED
  BY <1>5, <1>7, <1>8, <1>9, <1>10 DEF WeekGoes

LEMMA WeeksStep ==
    ASSUME NoticeInv, WeeksReported, [NoticeNext]_NoticeVars
    PROVE  WeeksReported'
<1>1. NoticesTyped
  BY DEF NoticeInv
<1>2. CASE UNCHANGED <<job, finished, report>> /\ ReadingAdds /\ (now' = now \/ Tick)
  BY <1>2, WeeksUntouched, WeeksKept
<1>3. ASSUME NEW j \in Jobs, NEW d, JobBecomes(j, JobIdle, d),
             d.kind = "weekly" => d.todo = d.wanted /\ d.figures = NoFigures /\ Over(d.about),
             UNCHANGED <<now, report, readDays, finished>>
      PROVE  WeeksReported'
  <2>1. WeeksStand
    BY <1>3, WeeksUntouched DEF ReadingAdds
  <2>2. d.kind = "weekly" => Over(d.about)'
    BY <1>3, <2>1, OverStays DEF WeeksStand
  <2>3. WeekTold(d)'
    BY <1>3, <2>2 DEF WeekTold, NoFigures
  <2> QED
    BY <1>3, <2>1, <2>3, WeeksKept
<1>4. CASE HandlerNext
  <2>1. PICK j, d : /\ j \in Jobs /\ JobBecomes(j, JobIdle, d) /\ d.kind \notin SweepKinds
                    /\ UNCHANGED <<now, report, readDays, finished>>
    BY <1>4, HandlerEffect
  <2>2. d.kind # "weekly"
    BY <2>1 DEF SweepKinds
  <2> QED
    BY <1>3, <2>1, <2>2
<1>5. ASSUME NEW j \in Jobs, NEW w \in Workers, RunWeeklyReportBatch(j, w)
      PROVE  WeeksReported'
  BY <1>3, <1>5, WeeklyEffect
<1>6. ASSUME NEW j \in Jobs, NEW w \in Workers, SendExpiryReminders(j, w)
      PROVE  WeeksReported'
  <2>1. PICK d : /\ JobBecomes(j, JobIdle, d) /\ d.kind = "reminder"
                 /\ UNCHANGED <<now, report, readDays, finished>>
    BY <1>6, RemindersEffect
  <2> QED
    BY <1>3, <2>1
<1>8. ASSUME NEW j \in Jobs, Quietly(j)
      PROVE  WeeksReported'
  <2>1. PICK c, d : /\ JobBecomes(j, c, d) /\ Narrows(c, d) /\ WeekGoes(c, d)
                    /\ UNCHANGED <<now, readDays, finished>>
    BY <1>8 DEF Quietly
  <2> QED
    BY <2>1, WeekGoesOn
<1>9. ASSUME NEW j \in Jobs, NEW u \in Users, NEW n \in Notes, NoticeSaved(j, u, n)
      PROVE  WeeksReported'
  <2>1. PICK c, d : /\ JobBecomes(j, c, d) /\ Narrows(c, d) /\ WeekGoes(c, d)
                    /\ UNCHANGED <<now, readDays, finished>>
    BY <1>1, <1>9, SavedEffect
  <2> QED
    BY <2>1, WeekGoesOn
<1>10. ASSUME NEW j \in Jobs, Ends(j)
       PROVE  WeeksReported'
  <2>1. PICK c, o : /\ JobBecomes(j, c, JobIdle) /\ finished' = finished \cup {o}
                    /\ Alike(o, c) /\ o.wanted = c.wanted /\ c.todo \cup c.failed \subseteq o.failed
                    /\ UNCHANGED <<now, report, readDays>>
    BY <1>10 DEF Ends
  <2>2. WeeksStand
    BY <2>1, WeeksUntouched DEF ReadingAdds
  <2>3. WeekTold(c)
    BY <2>1 DEF WeeksReported, JobBecomes
  <2>4. PICK a : a = c.about /\ a = o.about
    BY <2>1 DEF Alike
  <2>5. ASSUME o.kind = "weekly"
        PROVE  Over(a)' /\ \A u \in o.wanted \ o.failed : Served(u, a)'
    <3>1. Over(a) /\ \A u \in c.wanted \ (c.todo \cup c.failed) : Served(u, a)
      BY <2>1, <2>3, <2>4, <2>5 DEF Alike, WeekTold
    <3>2. Over(a)'
      BY <2>2, <3>1, OverStays DEF WeeksStand
    <3>3. \A u \in o.wanted \ o.failed : Served(u, a)
      BY <2>1, <3>1
    <3> QED
      BY <2>2, <3>1, <3>2, <3>3 DEF WeeksStand
  <2>6. WeekKept(o)'
    BY <2>4, <2>5 DEF WeekKept
  <2> QED
    BY <2>1, <2>2, <2>6, IdleToldNoWeek, WeeksKept
<1>11. ASSUME NEW j \in Jobs, SendReengagementCoupons(j)
       PROVE  WeeksReported'
  <2>1. PICK c, d, o : /\ JobBecomes(j, c, d) /\ finished' = finished \cup {o}
                       /\ c.kind = "reminder" /\ d.kind = "offer" /\ Alike(o, c)
                       /\ UNCHANGED <<now, report, readDays>>
    BY <1>1, <1>11, ReengageEffect
  <2>2. WeekKept(o)' /\ WeekTold(d)'
    BY <2>1 DEF WeekKept, WeekTold, Alike
  <2>3. WeeksStand
    BY <2>1, WeeksUntouched DEF ReadingAdds
  <2> QED
    BY <2>1, <2>2, <2>3, WeeksKept
<1>12. CASE JobNext
  BY <1>1, <1>8, <1>9, <1>10, <1>12, QuietEffect, EndEffect DEF JobNext
<1>13. ASSUME NEW v \in Users, NEW d \in Int, ReadOn(v, d)
       PROVE  WeeksReported'
  <2>1. UNCHANGED <<now, job, finished, report>> /\ ReadingAdds
    BY <1>13 DEF ReadOn, ReadingAdds
  <2> QED
    BY <1>2, <2>1
<1>14. CASE InboxNext
  <2>1. UNCHANGED <<now, job, finished, report, readDays>>
    BY <1>14 DEF InboxNext, MarkRead, MarkReadAll, UpdatePreferences
  <2> QED
    BY <1>2, <2>1 DEF ReadingAdds
<1>15. ASSUME NEW r \in PrefCalls, PreferencesSaved(r)
       PROVE  WeeksReported'
  <2>1. UNCHANGED <<now, job, finished, report, readDays>>
    BY <1>15 DEF PreferencesSaved
  <2> QED
    BY <1>2, <2>1 DEF ReadingAdds
<1>16. CASE UNCHANGED notifications /\ (now' = now \/ Tick)
  BY <1>2, <1>16 DEF notifications, ReadingAdds
<1>17. CASE UNCHANGED NoticeVars
  BY <1>16, <1>17 DEF NoticeVars
<1>18. CASE NoticeNext
  <2>1. \/ HandlerNext \/ JobNext \/ SweepNext \/ InboxNext
        \/ \E j \in Jobs : SendReengagementCoupons(j)
        \/ \E r \in PrefCalls : PreferencesSaved(r)
        \/ \E u \in Users, d \in Int : ReadOn(u, d)
        \/ /\ (BillingNext \/ \E j \in Jobs, u \in Users : IssueCoupon(j, u)) \/ AccountsNext
           /\ UNCHANGED notifications
        \/ Tick /\ UNCHANGED notifications
    BY <1>18, ZenonT(60) DEF NoticeNext
  <2>2. CASE SweepNext
    BY <1>5, <1>6, <2>2 DEF SweepNext
  <2>3. CASE /\ (BillingNext \/ \E j \in Jobs, u \in Users : IssueCoupon(j, u)) \/ AccountsNext
             /\ UNCHANGED notifications
    BY <1>16, <2>3, ClockStands
  <2> QED
    BY <1>4, <1>11, <1>12, <1>13, <1>14, <1>15, <1>16, <2>1, <2>2, <2>3
<1> QED
  BY <1>17, <1>18

\* For any number of users, jobs, workers, rows and days: whoever an event or a
\* sweep was for and did not fail for has a row of it when it is through, one
\* from each worker that swept, whose doing it was has none, no row comes twice
\* from one worker, and a reader's week has one report, of all that had been
\* read before the sweeps (_fan_out_club_push, send_expiry_reminders,
\* run_weekly_report_batch).
THEOREM EachIsToldOnce == NoticeSpec => []EveryoneToldOnce
<1>1. NoticeInit => NoticeInv /\ WeeksReported
  BY NoticesStart, WeeksStart
<1>2. NoticeInv /\ WeeksReported /\ [NoticeNext]_NoticeVars => (NoticeInv /\ WeeksReported)'
  BY NoticesStep, WeeksStep
<1>3. NoticeInv /\ WeeksReported => EveryoneToldOnce
  <2> SUFFICES ASSUME NoticeInv, WeeksReported
               PROVE  EveryoneToldOnce
    OBVIOUS
  <2>1. ASSUME NEW o \in finished
        PROVE  /\ \A u \in o.wanted \ (o.failed \cup o.quiet) : RowsAbout(u, o) # {}
               /\ o.actor # NoUser => RowsAbout(o.actor, o) = {}
               /\ o.kind = "weekly" => \A u \in o.wanted \ o.failed : DueDays(u, o.about) # {} =>
                     \E w \in report : w[1] = u /\ w[2] = o.about
    BY <2>1 DEF NoticeInv, OutcomeTold, WeeksReported, WeekKept, Served, InReport
  <2>2. /\ \A v, w \in report : (v[1] = w[1] /\ v[2] = w[2]) => v = w
        /\ \A w \in report : DueDays(w[1], w[2]) \subseteq w[3] /\ w[3] \subseteq DaysRead(w[1], w[2])
    BY DEF WeeksReported, ReportsRight, RightDays
  <2>3. \A p \in pushed : inbox[p[1]] # NoNote
    BY DEF NoticeInv, PushedKept
  <2>4. ASSUME NEW n \in Notes, NEW m \in Notes, inbox[n] # NoNote,
               [inbox[n] EXCEPT !.read = Never] = [inbox[m] EXCEPT !.read = Never]
        PROVE  n = m
    <3>1. PICK x, y : x = inbox[n] /\ y = inbox[m]
      OBVIOUS
    <3>2. /\ x = [user |-> x.user, kind |-> x.kind, about |-> x.about, by |-> x.by, read |-> x.read]
          /\ y = [user |-> y.user, kind |-> y.kind, about |-> y.about, by |-> y.by, read |-> y.read]
      BY <3>1 DEF NoticeInv, NoticesTyped, NoteShaped
    <3>3. [x EXCEPT !.read = Never] = [y EXCEPT !.read = Never]
      BY <2>4, <3>1
    <3>4. SameRow(x, y)
      BY <3>2, <3>3 DEF SameRow
    <3> QED
      BY <2>4, <3>1, <3>4 DEF NoticeInv, RowsOnce
  <2> QED
    BY <2>1, <2>2, <2>3, <2>4 DEF EveryoneToldOnce
<1> QED
  BY <1>1, <1>2, <1>3, PTL DEF NoticeSpec

--------------------------------------------------------------------------------
(* Trials and their reminders                                              *)

LEMMA AccountsNextKeeps ==
    ASSUME AccountsInv, AccountsNext
    PROVE  AccountsInv'
<1>1. ASSUME NEW c \in Clients, NEW t \in DeviceTokens, RegisterDevice(c, t)
      PROVE  AccountsInv'
  BY <1>1
  DEF RegisterDevice, AccountsInv, AccountsTyped, RowsFirst, LooksPast, GoneUnseen, OneEach
<1> QED
  BY <1>1, LoginKeeps, LoggedInKeeps, SignedUpKeeps, RefusalKeeps, RefreshKeeps, DeletionKeeps DEF AccountsNext

\* The end of a trial is set with the account, and stays.
TrialsStand ==
    \A u \in Users : account[u].life # "unused" =>
        account'[u].life # "unused" /\ account'[u].trialEnds = account[u].trialEnds

LEMMA TrialsDoStand ==
    ASSUME AccountsInv, AccountsNext \/ UNCHANGED account
    PROVE  TrialsStand
<1>1. CASE UNCHANGED account
  BY <1>1 DEF TrialsStand
<1>2. ASSUME NEW r \in LoginCalls, NEW u \in Users, SignedUp(r, u)
      PROVE  TrialsStand
  <2>1. PICK a : account' = [account EXCEPT ![u] = a]
    BY <1>2 DEF SignedUp
  <2>2. account[u].life = "unused"
    BY <1>2 DEF SignedUp, NoAccount
  <2> QED
    BY <2>1, <2>2 DEF TrialsStand, AccountsInv, AccountsTyped
<1>3. ASSUME NEW c \in Clients, DeleteAccount(c)
      PROVE  TrialsStand
  <2>1. PICK w : w = session[c].user
    OBVIOUS
  <2>2. account' = [account EXCEPT ![w].life = "gone", ![w].deleted = now]
    BY <1>3, <2>1 DEF DeleteAccount
  <2>3. ASSUME NEW u \in Users
        PROVE  account'[u].trialEnds = account[u].trialEnds /\ account'[u].life \in {account[u].life, "gone"}
    <3>1. PICK a \in AccountRows : a = account[u]
      BY DEF AccountsInv, AccountsTyped
    <3>2. account'[u] = a \/ account'[u] = [a EXCEPT !.life = "gone", !.deleted = now]
      BY <2>2, <3>1 DEF AccountsInv, AccountsTyped
    <3>3. PICK b : b = [a EXCEPT !.life = "gone", !.deleted = now]
      OBVIOUS
    <3>4. b.trialEnds = a.trialEnds /\ b.life = "gone"
      BY <3>3 DEF AccountRows
    <3> QED
      BY <3>1, <3>2, <3>3, <3>4
  <2> QED
    BY <2>3 DEF TrialsStand
<1>4. CASE AccountsNext
  <2>1. \/ \E r \in LoginCalls, u \in Users : SignedUp(r, u)
        \/ \E c \in Clients : DeleteAccount(c)
        \/ UNCHANGED account
    BY <1>4 DEF AccountsNext, Login, LoggedIn, LoginRefused, Refresh, RegisterDevice
  <2> QED
    BY <1>1, <1>2, <1>3, <2>1
<1> QED
  BY <1>1, <1>4

LEMMA LastDayStays ==
    ASSUME TrialsStand, NEW u, NEW at, u \in Users, account[u].life # "unused"
    PROVE  account'[u].life # "unused" /\ (LastDay(u, at)' <=> LastDay(u, at))
BY DEF TrialsStand, LastDay

LEMMA TrialsKept ==
    ASSUME TrialsReminded, TrialsStand,
           \/ \A n \in Notes : SameRow(inbox'[n], inbox[n])
           \/ \E n \in Notes : \E x : RowFits(x)' /\ \A m \in Notes : inbox'[m] = IF m = n THEN x ELSE inbox[m],
           \/ job' = job
           \/ \E j \in Jobs : \E c, d : JobBecomes(j, c, d) /\ SweepFits(d)',
           finished' = finished \/ \E o : finished' = finished \cup {o} /\ OutcomeFits(o)'
    PROVE  TrialsReminded'
<1>1. ASSUME NEW x, RowFits(x)
      PROVE  RowFits(x)'
  BY <1>1, LastDayStays DEF RowFits, LastDay
<1>2. ASSUME NEW c, Listed(c)
      PROVE  Listed(c)'
  BY <1>2, LastDayStays DEF Listed
<1>3. ASSUME NEW c, SweepFits(c)
      PROVE  SweepFits(c)'
  BY <1>2, <1>3, LastDayStays DEF SweepFits, LastDay
<1>4. ASSUME NEW o, OutcomeFits(o)
      PROVE  OutcomeFits(o)'
  BY <1>2, <1>4 DEF OutcomeFits
<1>5. ASSUME NEW m \in Notes
      PROVE  RowFits(inbox[m])'
  <2>1. PICK y : y = inbox'[m]
    OBVIOUS
  <2>2. SameRow(y, inbox[m]) \/ RowFits(y)'
    BY <2>1 DEF SameRow
  <2>3. RowFits(inbox[m])
    BY DEF TrialsReminded
  <2>4. CASE SameRow(y, inbox[m])
    <3>1. RowFits(y)
      BY <2>3, <2>4 DEF RowFits, SameRow
    <3> QED
      BY <1>1, <2>1, <3>1 DEF RowFits
  <2>5. CASE RowFits(y)'
    BY <2>1, <2>5 DEF RowFits
  <2> QED
    BY <2>2, <2>4, <2>5
<1>6. ASSUME NEW k \in Jobs
      PROVE  SweepFits(job[k])'
  <2>1. PICK y : y = job'[k]
    OBVIOUS
  <2>2. y = job[k] \/ SweepFits(y)'
    BY <2>1, JobTable
  <2>3. SweepFits(y)'
    BY <1>3, <2>2 DEF TrialsReminded
  <2> QED
    BY <2>1, <2>3 DEF SweepFits, Listed
<1>7. \A o \in finished' : OutcomeFits(o)'
  BY <1>4 DEF TrialsReminded
<1> QED
  BY <1>5, <1>6, <1>7 DEF TrialsReminded

LEMMA IdleRemindsNobody == SweepFits(JobIdle)' /\ SweepFits(JobIdle) /\ RowFits(NoNote)
<1>1. JobIdle.kind = "idle" /\ NoNote.kind = "none"
  BY DEF JobIdle, NoNote
<1> QED
  BY <1>1 DEF SweepFits, RowFits

LEMMA TrialsStart ==
    ASSUME NoticeInit
    PROVE  TrialsReminded
<1>1. (\A n \in Notes : inbox[n] = NoNote) /\ (\A j \in Jobs : job[j] = JobIdle) /\ finished = {}
  BY DEF NoticeInit, NotificationsInit
<1> QED
  BY <1>1, IdleRemindsNobody DEF TrialsReminded

\* The daily sweep lists whose last day it is, of those who have not paid.
LEMMA RemindersFit ==
    ASSUME AccountsInv, NEW j \in Jobs, NEW d, JobShaped(d), d.todo = d.wanted, d.kind = "reminder", d.about = now,
           d.unpaid = {u \in Users : Unpaid(u)},
           d.wanted = {u \in Users : Unpaid(u) /\ Ending(u)}
    PROVE  SweepFits(d)
<1>1. now \in Int /\ Day \in Nat /\ \A u \in Users : account[u].trialEnds \in Int
  BY AccountsAssumption DEF AccountsInv, AccountsTyped, AccountRows
<1>2. ASSUME NEW u \in Users, Unpaid(u)
      PROVE  account[u].life # "unused" /\ (LastDay(u, now) <=> Ending(u))
  BY <1>1, <1>2 DEF Unpaid, Alive, LastDay, Ending
<1> QED
  BY <1>1, <1>2 DEF SweepFits, Listed

LEMMA TrialsStep ==
    ASSUME NoticeInv, AccountsInv, TrialsReminded, [NoticeNext]_NoticeVars
    PROVE  AccountsInv' /\ TrialsReminded'
<1>1. NoticesTyped
  BY DEF NoticeInv
<1>2. ASSUME TrialsStand, \A n \in Notes : SameRow(inbox'[n], inbox[n]), UNCHANGED <<job, finished>>
      PROVE  TrialsReminded'
  BY <1>2, TrialsKept
<1>3. ASSUME UNCHANGED notifications
      PROVE  UNCHANGED <<job, finished>> /\ \A n \in Notes : SameRow(inbox'[n], inbox[n])
  BY <1>3 DEF notifications, SameRow
<1>4. CASE AccountsNext /\ UNCHANGED <<billing, notifications>>
  BY <1>2, <1>3, <1>4, AccountsNextKeeps, TrialsDoStand
<1>5. ASSUME UNCHANGED accounts
      PROVE  TrialsStand /\ UNCHANGED <<account, session, login>>
  BY <1>5, TrialsDoStand DEF accounts
<1>6. CASE UNCHANGED <<accounts, notifications>> /\ (now' = now \/ Tick)
  BY <1>2, <1>3, <1>5, <1>6, ClockKeeps
<1>7. CASE UNCHANGED NoticeVars
  BY <1>6, <1>7 DEF NoticeVars
<1>8. CASE UNCHANGED <<accounts, notifications>> /\ (BillingNext \/ \E j \in Jobs, u \in Users : IssueCoupon(j, u))
  BY <1>6, <1>8, ClockStands
<1>9. ASSUME NEW j \in Jobs, NEW c, NEW d, TrialsStand, JobBecomes(j, c, d), SweepFits(c) => SweepFits(d)',
             \A n \in Notes : SameRow(inbox'[n], inbox[n]), UNCHANGED finished
      PROVE  TrialsReminded'
  <2>1. SweepFits(c)
    BY <1>9 DEF TrialsReminded, JobBecomes
  <2> QED
    BY <1>9, <2>1, TrialsKept
<1>10. ASSUME NEW c, NEW d, TrialsStand, Narrows(c, d), SweepFits(c)
       PROVE  SweepFits(d)'
  <2>1. /\ d.kind = c.kind /\ d.about = c.about /\ d.wanted = c.wanted /\ d.unpaid = c.unpaid
        /\ d.todo \subseteq c.todo
    BY <1>10 DEF Narrows, Alike
  <2> QED
    BY <1>10, <2>1, LastDayStays DEF SweepFits, Listed, LastDay
<1>11. ASSUME TrialsStand, HandlerNext
       PROVE  TrialsReminded' /\ now' = now
  <2>1. PICK j, d : /\ j \in Jobs /\ JobBecomes(j, JobIdle, d) /\ d.kind \notin SweepKinds
                    /\ UNCHANGED <<now, inbox, finished>>
    BY <1>11, HandlerEffect
  <2>2. SweepFits(d)'
    BY <2>1 DEF SweepFits, SweepKinds, RequiredKinds
  <2> QED
    BY <1>9, <1>11, <2>1, <2>2 DEF SameRow
<1>12. ASSUME TrialsStand, NEW j \in Jobs, NEW w \in Workers, RunWeeklyReportBatch(j, w)
       PROVE  TrialsReminded' /\ now' = now
  <2>1. PICK d : JobBecomes(j, JobIdle, d) /\ d.kind = "weekly" /\ UNCHANGED <<now, inbox, finished>>
    BY <1>12, WeeklyEffect
  <2>2. SweepFits(d)'
    BY <2>1 DEF SweepFits
  <2> QED
    BY <1>9, <1>12, <2>1, <2>2 DEF SameRow
<1>13. ASSUME TrialsStand, NEW j \in Jobs, NEW w \in Workers, SendExpiryReminders(j, w)
       PROVE  TrialsReminded' /\ now' = now
  <2>1. PICK d : /\ JobBecomes(j, JobIdle, d) /\ JobShaped(d) /\ d.todo = d.wanted /\ d.kind = "reminder"
                 /\ d.about = now
                 /\ d.unpaid = {u \in Users : Unpaid(u)} /\ d.wanted = {u \in Users : Unpaid(u) /\ Ending(u)}
                 /\ UNCHANGED <<now, inbox, finished>>
    BY <1>13, RemindersEffect
  <2>2. SweepFits(d)
    BY <2>1, RemindersFit
  <2>3. SweepFits(d)'
    BY <1>13, <2>2, LastDayStays DEF SweepFits, Listed, LastDay
  <2> QED
    BY <1>9, <1>13, <2>1, <2>3 DEF SameRow
<1>14. ASSUME TrialsStand, NEW j \in Jobs, Quietly(j)
       PROVE  TrialsReminded' /\ now' = now
  <2>1. PICK c, d : JobBecomes(j, c, d) /\ Narrows(c, d) /\ UNCHANGED <<now, inbox, finished>>
    BY <1>14 DEF Quietly
  <2>2. SweepFits(c) => SweepFits(d)'
    BY <1>10, <1>14, <2>1
  <2> QED
    BY <1>9, <1>14, <2>1, <2>2 DEF SameRow
<1>15. ASSUME TrialsStand, NEW j \in Jobs, NEW u \in Users, NEW n \in Notes, NoticeSaved(j, u, n)
       PROVE  TrialsReminded' /\ now' = now
  <2>1. PICK c, d, x : /\ JobBecomes(j, c, d) /\ Narrows(c, d) /\ u \in c.todo
                       /\ x.user = u /\ Alike(x, c)
                       /\ inbox' = [inbox EXCEPT ![n] = x] /\ UNCHANGED <<now, finished>>
    BY <1>1, <1>15, SavedEffect
  <2>2. SweepFits(c)
    BY <2>1 DEF TrialsReminded, JobBecomes
  <2>3. SweepFits(d)'
    BY <1>10, <1>15, <2>1, <2>2
  <2>4. RowFits(x)
    BY <2>1, <2>2 DEF RowFits, SweepFits, Alike
  <2>5. RowFits(x)'
    BY <1>15, <2>4, LastDayStays DEF RowFits, LastDay
  <2>6. \A m \in Notes : inbox'[m] = IF m = n THEN x ELSE inbox[m]
    BY <1>1, <2>1 DEF NoticesTyped
  <2> QED
    BY <1>15, <2>1, <2>3, <2>5, <2>6, TrialsKept
<1>16. ASSUME TrialsStand, NEW j \in Jobs, NEW c, NEW d, NEW o, JobBecomes(j, c, d), d.kind # "reminder",
              finished' = finished \cup {o}, Alike(o, c), o.wanted = c.wanted, o.unpaid = c.unpaid,
              UNCHANGED inbox
       PROVE  TrialsReminded'
  <2>1. SweepFits(c)
    BY <1>16 DEF TrialsReminded, JobBecomes
  <2>2. OutcomeFits(o)
    BY <1>16, <2>1 DEF OutcomeFits, SweepFits, Listed, Alike
  <2>3. OutcomeFits(o)'
    BY <1>16, <2>2, LastDayStays DEF OutcomeFits, Listed
  <2>4. SweepFits(d)'
    BY <1>16 DEF SweepFits
  <2> QED
    BY <1>16, <2>3, <2>4, TrialsKept DEF SameRow
<1>17. ASSUME TrialsStand, NEW j \in Jobs, Ends(j)
       PROVE  TrialsReminded' /\ now' = now
  <2>1. PICK c, o : /\ JobBecomes(j, c, JobIdle) /\ finished' = finished \cup {o}
                    /\ Alike(o, c) /\ o.wanted = c.wanted /\ o.unpaid = c.unpaid
                    /\ UNCHANGED <<now, inbox>>
    BY <1>17 DEF Ends
  <2>2. JobIdle.kind # "reminder"
    BY DEF JobIdle
  <2> QED
    BY <1>16, <1>17, <2>1, <2>2
<1>18. ASSUME TrialsStand, NEW j \in Jobs, SendReengagementCoupons(j)
       PROVE  TrialsReminded' /\ now' = now
  <2>1. PICK c, d, o : /\ JobBecomes(j, c, d) /\ d.kind = "offer" /\ finished' = finished \cup {o}
                       /\ Alike(o, c) /\ o.wanted = c.wanted /\ o.unpaid = c.unpaid
                       /\ UNCHANGED <<now, inbox>>
    BY <1>1, <1>18, ReengageEffect
  <2> QED
    BY <1>16, <1>18, <2>1
<1>19. ASSUME TrialsStand, InboxNext
       PROVE  TrialsReminded' /\ now' = now
  <2>1. UNCHANGED <<now, job, finished>>
    BY <1>19 DEF InboxNext, MarkRead, MarkReadAll, UpdatePreferences
  <2>2. \A n \in Notes : SameRow(inbox'[n], inbox[n])
    BY <1>1, <1>19, RowsReadSame DEF RowsStay
  <2> QED
    BY <1>2, <1>19, <2>1, <2>2
<1>20. ASSUME TrialsStand, JobNext
       PROVE  TrialsReminded' /\ now' = now
  BY <1>1, <1>14, <1>15, <1>17, <1>20, QuietEffect, EndEffect DEF JobNext
<1>21. ASSUME TrialsStand, (\E r \in PrefCalls : PreferencesSaved(r)) \/ \E u \in Users, d \in Int : ReadOn(u, d)
       PROVE  TrialsReminded' /\ now' = now
  <2>1. UNCHANGED <<now, inbox, job, finished>>
    BY <1>21 DEF PreferencesSaved, ReadOn
  <2> QED
    BY <1>2, <1>21, <2>1 DEF SameRow
<1>22. CASE /\ \/ HandlerNext \/ JobNext \/ SweepNext \/ InboxNext
               \/ \E j \in Jobs : SendReengagementCoupons(j)
               \/ (\E r \in PrefCalls : PreferencesSaved(r)) \/ \E u \in Users, d \in Int : ReadOn(u, d)
            /\ UNCHANGED accounts
  <2>1. TrialsStand /\ UNCHANGED <<account, session, login>>
    BY <1>5, <1>22
  <2>2. TrialsReminded' /\ now' = now
    BY <1>11, <1>12, <1>13, <1>18, <1>19, <1>20, <1>21, <1>22, <2>1 DEF SweepNext
  <2> QED
    BY <2>1, <2>2, ClockKeeps
<1>23. CASE NoticeNext
  <2>1. \/ /\ \/ HandlerNext \/ JobNext \/ SweepNext \/ InboxNext
              \/ \E j \in Jobs : SendReengagementCoupons(j)
              \/ (\E r \in PrefCalls : PreferencesSaved(r)) \/ \E u \in Users, d \in Int : ReadOn(u, d)
           /\ UNCHANGED accounts
        \/ UNCHANGED <<accounts, notifications>> /\ (BillingNext \/ \E j \in Jobs, u \in Users : IssueCoupon(j, u))
        \/ AccountsNext /\ UNCHANGED <<billing, notifications>>
        \/ UNCHANGED <<accounts, notifications>> /\ Tick
    BY <1>23, ZenonT(60) DEF NoticeNext
  <2> QED
    BY <1>4, <1>6, <1>8, <1>22, <2>1
<1> QED
  BY <1>7, <1>23

\* No other reminders are handled than were.
NoNewReminders == \A a, by : Handled("reminder", a, by)' => Handled("reminder", a, by)

LEMMA NoneNew ==
    ASSUME NEW j \in Jobs, NEW c, NEW d, JobBecomes(j, c, d), d.kind # "reminder" \/ Alike(d, c),
           finished' = finished \/ \E o : finished' = finished \cup {o} /\ Alike(o, c)
    PROVE  NoNewReminders
<1> SUFFICES ASSUME NEW a, NEW b, Handled("reminder", a, b)'
             PROVE  Handled("reminder", a, b)
  BY DEF NoNewReminders
<1>1. job[j] = c
  BY DEF JobBecomes
<1>2. CASE \E k \in Jobs : job'[k].kind = "reminder" /\ job'[k].about = a /\ job'[k].by = b
  <2>1. PICK k \in Jobs : job'[k].kind = "reminder" /\ job'[k].about = a /\ job'[k].by = b
    BY <1>2
  <2>2. CASE k = j
    BY <1>1, <2>1, <2>2, JobTable DEF Alike, Handled
  <2>3. CASE k # j
    BY <2>1, <2>3, JobTable DEF Handled
  <2> QED
    BY <2>2, <2>3
<1>3. CASE \E o \in finished' : o.kind = "reminder" /\ o.about = a /\ o.by = b
  BY <1>1, <1>3 DEF Handled, Alike
<1> QED
  BY <1>2, <1>3 DEF Handled

LEMMA DailyStart ==
    ASSUME NoticeInit
    PROVE  SweptDaily
<1>1. (\A j \in Jobs : job[j].kind = "idle") /\ finished = {}
  BY DEF NoticeInit, NotificationsInit, JobIdle
<1> QED
  BY <1>1 DEF SweptDaily, Handled

LEMMA DailyStep ==
    ASSUME NoticeInv, SweptDaily, [NoticeNext]_NoticeVars
    PROVE  SweptDaily'
<1>1. NoticesTyped /\ JobIdle.kind # "reminder"
  BY DEF NoticeInv, JobIdle
<1>2. NoNewReminders => SweptDaily'
  BY DEF NoNewReminders, SweptDaily
<1>3. UNCHANGED <<job, finished>> => NoNewReminders
  BY DEF NoNewReminders, Handled
<1>4. CASE HandlerNext
  <2>1. PICK j, d : j \in Jobs /\ JobBecomes(j, JobIdle, d) /\ d.kind \notin SweepKinds /\ finished' = finished
    BY <1>4, HandlerEffect
  <2>2. d.kind # "reminder"
    BY <2>1 DEF SweepKinds, RequiredKinds
  <2> QED
    BY <1>2, <2>1, <2>2, NoneNew
<1>5. ASSUME NEW j \in Jobs, NEW w \in Workers, RunWeeklyReportBatch(j, w)
      PROVE  SweptDaily'
  <2>1. PICK d : JobBecomes(j, JobIdle, d) /\ d.kind = "weekly" /\ finished' = finished
    BY <1>5, WeeklyEffect
  <2> QED
    BY <1>2, <2>1, NoneNew
<1>6. ASSUME NEW j \in Jobs, NEW w \in Workers, SendExpiryReminders(j, w)
      PROVE  SweptDaily'
  <2>1. PICK d : /\ JobBecomes(j, JobIdle, d) /\ d.about = now /\ d.by = w
                 /\ \A a : Handled("reminder", a, w) => a \div Day # now \div Day
                 /\ finished' = finished
    BY <1>6, RemindersEffect
  <2>2. ASSUME NEW a, NEW b, Handled("reminder", a, b)'
        PROVE  Handled("reminder", a, b) \/ (a = now /\ b = w)
    <3>1. CASE \E k \in Jobs : job'[k].kind = "reminder" /\ job'[k].about = a /\ job'[k].by = b
      <4>1. PICK k \in Jobs : job'[k].kind = "reminder" /\ job'[k].about = a /\ job'[k].by = b
        BY <3>1
      <4>2. CASE k = j
        BY <2>1, <4>1, <4>2, JobTable
      <4>3. CASE k # j
        BY <2>1, <4>1, <4>3, JobTable DEF Handled
      <4> QED
        BY <4>2, <4>3
    <3>2. CASE \E o \in finished' : o.kind = "reminder" /\ o.about = a /\ o.by = b
      BY <2>1, <3>2 DEF Handled
    <3> QED
      BY <2>2, <3>1, <3>2 DEF Handled
  <2>3. ASSUME NEW a, NEW b, NEW by, Handled("reminder", a, by)', Handled("reminder", b, by)',
               a \div Day = b \div Day
        PROVE  a = b
    <3>1. CASE Handled("reminder", a, by) /\ Handled("reminder", b, by)
      BY <2>3, <3>1 DEF SweptDaily
    <3>2. CASE ~(Handled("reminder", a, by) /\ Handled("reminder", b, by))
      BY <2>1, <2>2, <2>3, <3>2
    <3> QED
      BY <3>1, <3>2
  <2> QED
    BY <2>3 DEF SweptDaily
<1>7. CASE JobNext
  <2>1. ASSUME NEW j \in Jobs, Quietly(j)
        PROVE  NoNewReminders
    <3>1. PICK c, d : JobBecomes(j, c, d) /\ Alike(d, c) /\ finished' = finished
      BY <2>1 DEF Quietly, Narrows
    <3> QED
      BY <3>1, NoneNew
  <2>2. ASSUME NEW j \in Jobs, NEW u \in Users, NEW n \in Notes, NoticeSaved(j, u, n)
        PROVE  NoNewReminders
    <3>1. PICK c, d : JobBecomes(j, c, d) /\ Alike(d, c) /\ finished' = finished
      BY <1>1, <2>2, SavedEffect DEF Narrows
    <3> QED
      BY <3>1, NoneNew
  <2>3. ASSUME NEW j \in Jobs, Ends(j)
        PROVE  NoNewReminders
    <3>1. PICK c, o : JobBecomes(j, c, JobIdle) /\ finished' = finished \cup {o} /\ Alike(o, c)
      BY <2>3 DEF Ends
    <3> QED
      BY <1>1, <3>1, NoneNew
  <2> QED
    BY <1>1, <1>2, <1>7, <2>1, <2>2, <2>3, QuietEffect, EndEffect DEF JobNext
<1>8. ASSUME NEW j \in Jobs, SendReengagementCoupons(j)
      PROVE  SweptDaily'
  <2>1. PICK c, d, o : /\ JobBecomes(j, c, d) /\ d.kind = "offer"
                       /\ finished' = finished \cup {o} /\ Alike(o, c)
    BY <1>1, <1>8, ReengageEffect
  <2> QED
    BY <1>2, <2>1, NoneNew
<1>9. CASE \/ InboxNext \/ (\E r \in PrefCalls : PreferencesSaved(r)) \/ \E u \in Users, d \in Int : ReadOn(u, d)
           \/ UNCHANGED notifications
  <2>1. UNCHANGED <<job, finished>>
    BY <1>9 DEF InboxNext, MarkRead, MarkReadAll, UpdatePreferences, PreferencesSaved, ReadOn, notifications
  <2> QED
    BY <1>2, <1>3, <2>1
<1>10. CASE NoticeNext
  <2>1. \/ HandlerNext \/ JobNext \/ SweepNext
        \/ \E j \in Jobs : SendReengagementCoupons(j)
        \/ InboxNext \/ (\E r \in PrefCalls : PreferencesSaved(r)) \/ \E u \in Users, d \in Int : ReadOn(u, d)
        \/ UNCHANGED notifications
    BY <1>10, ZenonT(60) DEF NoticeNext
  <2> QED
    BY <1>4, <1>5, <1>6, <1>7, <1>8, <1>9, <2>1 DEF SweepNext
<1>11. CASE UNCHANGED NoticeVars
  BY <1>9, <1>11 DEF NoticeVars
<1> QED
  BY <1>10, <1>11

\* The days a window of a day's length may touch.
LEMMA TwoDays ==
    ASSUME NEW d \in Nat \ {0}, NEW e \in Int, NEW a \in Int, e - a \in 1 .. d
    PROVE  a \div d = e \div d \/ a \div d = e \div d - 1
<1>1. PICK p, q : p = a \div d /\ q = e \div d
  OBVIOUS
<1>2. p \in Int /\ q \in Int /\ d * p <= a /\ a < d * p + d /\ d * q <= e /\ e < d * q + d
  BY <1>1, SMT
<1>3. ASSUME NEW x \in Int, NEW y \in Int, x < y
      PROVE  d * y >= d * x + d
  <2>1. d * y >= d * (x + 1)
    BY <1>3, SMT
  <2>2. d * (x + 1) = d * x + d
    BY <1>3, SMT
  <2> QED
    BY <1>3, <2>1, <2>2, SMT
<1>4. ~(q < p)
  BY <1>2, <1>3
<1>5. ~(p < q - 1)
  <2>1. d * (q - 1) = d * q - d
    BY <1>2, SMT
  <2>2. ASSUME p < q - 1
        PROVE  FALSE
    <3>1. d * (q - 1) >= d * p + d
      BY <1>2, <1>3, <2>2
    <3> QED
      BY <1>2, <2>1, <3>1
  <2> QED
    BY <2>2
<1> QED
  BY <1>1, <1>2, <1>4, <1>5

LEMMA AtMostTwo ==
    ASSUME NEW S, \A n, m, k \in S : n = m \/ k = n \/ k = m
    PROVE  Cardinality(S) <= 2
<1>1. CASE S = {}
  <2>1. Cardinality(S) = 0
    BY <1>1, FS_EmptySet
  <2> QED
    BY <2>1
<1>2. ASSUME NEW n \in S, S = {n}
      PROVE  Cardinality(S) <= 2
  <2>1. Cardinality(S) = 1
    BY <1>2, FS_Singleton
  <2> QED
    BY <2>1
<1>3. ASSUME NEW n \in S, NEW m \in S, n # m
      PROVE  Cardinality(S) <= 2
  <2>1. PICK T : T = {n}
    OBVIOUS
  <2>2. S = T \cup {m} /\ m \notin T
    BY <1>3, <2>1
  <2>3. IsFiniteSet(T) /\ Cardinality(T) = 1
    BY <2>1, FS_Singleton
  <2>4. Cardinality(T \cup {m}) = Cardinality(T) + 1
    BY <2>2, <2>3, FS_AddElement
  <2>5. Cardinality(S) = 2
    BY <2>2, <2>3, <2>4
  <2> QED
    BY <2>5
<1> QED
  BY <1>1, <1>2, <1>3

\* For any number of users, jobs, workers and days: a trial that ends unpaid has
\* a reminder of each worker that swept before the end, and again no more than a
\* day later, with the end no more than a day after the second, and did not fail
\* for it; every reminder is of the last day, and a worker's are of two days at
\* most (send_expiry_reminders, get_users_with_trial_ending_within).
THEOREM TrialsRemindedOnce == NoticeSpec => []TrialRemindedOnce
<1> DEFINE Inv == NoticeInv /\ AccountsInv /\ TrialsReminded /\ SweptDaily
<1>1. NoticeInit => Inv
  BY NoticesStart, TrialsStart, DailyStart DEF NoticeInit
<1>2. Inv /\ [NoticeNext]_NoticeVars => Inv'
  BY NoticesStep, TrialsStep, DailyStep
<1>3. Inv => TrialRemindedOnce
  <2> SUFFICES ASSUME NoticeInv, AccountsInv, TrialsReminded, SweptDaily,
                      NEW u \in Users, NEW w \in Workers, Alive(u),
                      NEW ends, ends = account[u].trialEnds, NEW rows, NEW swept,
                      rows = {n \in Notes : inbox[n].user = u /\ inbox[n].kind = "reminder" /\ inbox[n].by = w},
                      swept = {o \in finished : o.kind = "reminder" /\ o.by = w /\ u \in o.unpaid \ o.failed}
               PROVE  /\ \A o, p \in swept :
                            (o.about < ends /\ ends <= p.about + Day /\ p.about - o.about \in 0 .. Day)
                            => rows # {}
                      /\ \A n \in rows : ends - inbox[n].about \in 1 .. Day
                      /\ \A n, m \in rows : n # m => inbox[n].about \div Day # inbox[m].about \div Day
                      /\ Cardinality(rows) <= 2
    BY DEF TrialRemindedOnce
  <2>1. account[u].life # "unused" /\ ends \in Int /\ Day \in Nat \ {0}
    BY AccountsAssumption DEF Alive, AccountsInv, AccountsTyped, AccountRows
  <2>2. ASSUME NEW n \in rows
        PROVE  /\ n \in Notes /\ inbox[n] # NoNote /\ inbox[n].user = u /\ inbox[n].kind = "reminder"
               /\ inbox[n].by = w /\ inbox[n].about \in Int
               /\ ends - inbox[n].about \in 1 .. Day /\ Handled("reminder", inbox[n].about, w)
    <3>1. /\ n \in Notes /\ inbox[n].user = u /\ inbox[n].kind = "reminder" /\ inbox[n].by = w
          /\ RowFits(inbox[n])
      BY DEF TrialsReminded
    <3>2. inbox[n] # NoNote
      BY <3>1 DEF NoNote
    <3>3. Handled("reminder", inbox[n].about, w)
      BY <3>1, <3>2 DEF NoticeInv, RowsHandled
    <3> QED
      BY <3>1, <3>2, <3>3 DEF RowFits, LastDay
  <2>3. ASSUME NEW n \in rows, NEW m \in rows, inbox[n].about \div Day = inbox[m].about \div Day
        PROVE  n = m
    <3>1. inbox[n].about = inbox[m].about
      BY <2>2, <2>3 DEF SweptDaily
    <3>2. SameRow(inbox[n], inbox[m])
      BY <2>2, <3>1 DEF SameRow
    <3> QED
      BY <2>2, <3>2 DEF NoticeInv, RowsOnce
  <2>4. Cardinality(rows) <= 2
    <3>1. PICK z : z = ends \div Day
      OBVIOUS
    <3>2. \A k \in rows : inbox[k].about \div Day = z \/ inbox[k].about \div Day = z - 1
      BY <2>1, <2>2, <3>1, TwoDays
    <3>3. \A n, m, k \in rows : n = m \/ k = n \/ k = m
      BY <2>3, <3>2
    <3> QED
      BY <3>3, AtMostTwo
  <2>5. ASSUME NEW o \in swept, o.about < ends, ends <= o.about + Day
        PROVE  rows # {}
    <3>1. o \in finished /\ o.kind = "reminder" /\ o.by = w /\ u \in o.unpaid /\ u \notin o.failed
      OBVIOUS
    <3>2. o.about \in Int /\ Listed(o)
      BY <3>1 DEF TrialsReminded, OutcomeFits
    <3>3. LastDay(u, o.about)
      BY <2>1, <2>5, <3>2 DEF LastDay
    <3>4. u \in o.wanted
      BY <3>1, <3>2, <3>3 DEF Listed
    <3>5. OutcomeTold(o) /\ o.quiet = {}
      BY <3>1 DEF NoticeInv, OutcomeTold, RequiredKinds
    <3>6. RowsAbout(u, o) # {}
      BY <3>1, <3>4, <3>5 DEF OutcomeTold
    <3> QED
      BY <3>1, <3>6 DEF RowsAbout
  <2>6. ASSUME NEW o \in swept, NEW p \in swept, o.about < ends, ends <= p.about + Day,
               p.about - o.about \in 0 .. Day
        PROVE  rows # {}
    <3>1. o.about \in Int /\ p.about \in Int
      BY DEF TrialsReminded, OutcomeFits
    <3>2. CASE ends <= o.about + Day
      BY <2>5, <2>6, <3>2
    <3>3. CASE ends > o.about + Day
      <4>1. p.about < ends
        BY <2>1, <2>6, <3>1, <3>3
      <4> QED
        BY <2>5, <2>6, <4>1
    <3> QED
      BY <2>1, <3>1, <3>2, <3>3
  <2> QED
    BY <2>2, <2>3, <2>4, <2>6
<1> QED
  BY <1>1, <1>2, <1>3, PTL DEF NoticeSpec

--------------------------------------------------------------------------------
(***************************************************************************)
(* What there is a limited number of, for any number of users and of         *)
(* requests in flight.  A request that found something left takes it         *)
(* whoever has come before it, so what is bounded by the limit, and by one   *)
(* less than the number of requests, is what is taken together with all that *)
(* was found left, also what a request will not get in the end.              *)
(***************************************************************************)

\* A request gives up what it found left and takes it, or does not.
LEMMA TakenOrDropped ==
    ASSUME NEW C, IsFiniteSet(C), NEW x, NEW D \in SUBSET (C \cup {x}),
           NEW F, IsFiniteSet(F), NEW r \in F
    PROVE  /\ IsFiniteSet(D) /\ IsFiniteSet(F \ {r})
           /\ Cardinality(D) + Cardinality(F \ {r}) <= Cardinality(C) + Cardinality(F)
<1>1. IsFiniteSet(C \cup {x}) /\ Cardinality(C \cup {x}) <= Cardinality(C) + 1
  <2>1. Cardinality(C) \in Nat
    BY FS_CardinalityType
  <2>2. /\ IsFiniteSet(C \cup {x})
        /\ Cardinality(C \cup {x}) = IF x \in C THEN Cardinality(C) ELSE Cardinality(C) + 1
    BY FS_AddElement
  <2> QED
    BY <2>1, <2>2
<1>2. IsFiniteSet(D) /\ Cardinality(D) <= Cardinality(C \cup {x})
  BY <1>1, FS_Subset
<1>3. IsFiniteSet(F \ {r}) /\ Cardinality(F \ {r}) = Cardinality(F) - 1
  BY FS_RemoveElement
<1>4. /\ Cardinality(C) \in Nat /\ Cardinality(F) \in Nat /\ Cardinality(D) \in Nat
      /\ Cardinality(C \cup {x}) \in Nat
  BY <1>1, <1>2, FS_CardinalityType
<1> QED
  BY <1>1, <1>2, <1>3, <1>4

LEMMA FewerStill ==
    ASSUME NEW C, IsFiniteSet(C), NEW D \in SUBSET C, NEW F, IsFiniteSet(F), NEW G \in SUBSET F
    PROVE  /\ IsFiniteSet(D) /\ IsFiniteSet(G)
           /\ Cardinality(D) + Cardinality(G) <= Cardinality(C) + Cardinality(F)
           /\ Cardinality(D) \in Nat /\ Cardinality(G) \in Nat
           /\ Cardinality(C) \in Nat /\ Cardinality(F) \in Nat
<1>1. IsFiniteSet(D) /\ Cardinality(D) <= Cardinality(C) /\ IsFiniteSet(G) /\ Cardinality(G) <= Cardinality(F)
  BY FS_Subset
<1>2. /\ Cardinality(D) \in Nat /\ Cardinality(G) \in Nat
      /\ Cardinality(C) \in Nat /\ Cardinality(F) \in Nat
  BY <1>1, FS_CardinalityType
<1> QED
  BY <1>1, <1>2

--------------------------------------------------------------------------------
(* Places at a meetup                                                      *)

Asked(m) == {r \in MeetupCalls : meetCall[r].op = "join" /\ meetCall[r].meetup = m}

\* The requests that found a place at m.
Placed(m) == {r \in Asked(m) : meetCall[r].confirmed}

\* Nobody queues for a meetup before it is there.
PlacesKept(m) ==
    /\ meetup[m].places \in (Nat \ {0}) \cup {NoLimit}
    /\ IsFiniteSet(Queue(m)) /\ Confirmed(m) \subseteq Queue(m)
    /\ meetup[m] = NoMeetup => Queue(m) = {} /\ Asked(m) = {}
    /\ meetup[m].places # NoLimit =>
          Cardinality(Confirmed(m)) + Cardinality(Placed(m)) <= meetup[m].places + Cardinality(MeetupCalls) - 1

MeetupInv ==
    /\ meetup = [m \in Meetups |-> meetup[m]]
    /\ meetCall = [r \in MeetupCalls |-> meetCall[r]]
    /\ \A m \in Meetups : PlacesKept(m)

LEMMA MeetupsStart ==
    ASSUME MeetupsInit
    PROVE  MeetupInv
<1>1. ASSUME NEW m \in Meetups
      PROVE  PlacesKept(m)
  <2>1. meetup[m] = NoMeetup /\ Queue(m) = {} /\ Confirmed(m) = {}
    BY DEF MeetupsInit, Queue, Confirmed
  <2>2. Asked(m) = {} /\ Placed(m) = {}
    BY DEF MeetupsInit, Placed, Asked, MeetupIdle
  <2> QED
    BY <2>1, <2>2, FS_EmptySet DEF PlacesKept, NoMeetup
<1> QED
  BY <1>1 DEF MeetupInv, MeetupsInit

\* Requests and queue of a meetup that shrink.
LEMMA PlacesShrink ==
    ASSUME NEW m, PlacesKept(m), Placed(m)' \subseteq Placed(m), Queue(m)' \subseteq Queue(m),
           Confirmed(m)' \subseteq Confirmed(m) \cap Queue(m)',
           meetup'[m].places = meetup[m].places,
           meetup'[m] = NoMeetup => meetup[m] = NoMeetup /\ Asked(m)' \subseteq Asked(m)
    PROVE  PlacesKept(m)'
<1>1. IsFiniteSet(Placed(m)) /\ IsFiniteSet(Confirmed(m)) /\ Cardinality(MeetupCalls) \in Nat
  BY MeetupAssumption, FS_Subset, FS_CardinalityType DEF PlacesKept, Placed, Asked
<1>2. /\ Cardinality(Confirmed(m)') + Cardinality(Placed(m)') <= Cardinality(Confirmed(m)) + Cardinality(Placed(m))
      /\ Cardinality(Confirmed(m)') \in Nat /\ Cardinality(Placed(m)') \in Nat
      /\ Cardinality(Confirmed(m)) \in Nat /\ Cardinality(Placed(m)) \in Nat
  BY <1>1, FewerStill
<1>3. IsFiniteSet(Queue(m)')
  BY FS_Subset DEF PlacesKept
<1>4. meetup[m].places # NoLimit => meetup[m].places \in Nat
  BY DEF PlacesKept
<1>5. meetup'[m].places # NoLimit =>
          Cardinality(Confirmed(m)') + Cardinality(Placed(m)') <= meetup'[m].places + Cardinality(MeetupCalls) - 1
  BY <1>1, <1>2, <1>4 DEF PlacesKept
<1> QED
  BY <1>3, <1>5 DEF PlacesKept

\* Whatever a request has in hand when it is done, or when it is no join.
LEMMA OthersPlaced ==
    ASSUME MeetupInv, NEW r \in MeetupCalls, NEW c, meetCall' = [meetCall EXCEPT ![r] = c],
           c.op # "join" \/ ~c.confirmed, NEW m
    PROVE  /\ Placed(m)' \subseteq Placed(m) \ {r}
           /\ c.op # "join" => Asked(m)' \subseteq Asked(m) \ {r}
<1>1. \A q \in MeetupCalls : meetCall'[q] = IF q = r THEN c ELSE meetCall[q]
  BY DEF MeetupInv
<1> QED
  BY <1>1 DEF Placed, Asked

LEMMA JoinKeepsPlaces ==
    ASSUME MeetupInv, NEW r \in MeetupCalls, NEW u \in Users, NEW m \in Meetups, JoinWaitlist(r, u, m)
    PROVE  MeetupInv'
<1>1. PICK c : /\ c = [op |-> "join", user |-> u, meetup |-> m, confirmed |-> Within(m, Cardinality(Queue(m)) + 1)]
               /\ meetCall[r] = MeetupIdle /\ meetCall' = [meetCall EXCEPT ![r] = c]
  BY DEF JoinWaitlist, MeetLoad
<1>2. /\ meetup[m].life = "live" /\ UNCHANGED <<meetup, waitlist, confirmed>>
      /\ \A q \in MeetupCalls : meetCall'[q] = IF q = r THEN c ELSE meetCall[q]
  BY <1>1 DEF JoinWaitlist, Upcoming, MeetupInv
<1>3. meetCall' = [q \in MeetupCalls |-> meetCall'[q]] /\ meetup' = [n \in Meetups |-> meetup'[n]]
  BY <1>1, <1>2 DEF MeetupInv
<1>4. \A n : Queue(n)' = Queue(n) /\ Confirmed(n)' = Confirmed(n)
  BY <1>2 DEF Queue, Confirmed
<1>5. ASSUME NEW n \in Meetups, n # m \/ ~c.confirmed
      PROVE  PlacesKept(n)'
  <2>1. Placed(n)' \subseteq Placed(n) /\ (n # m => Asked(n)' \subseteq Asked(n))
    BY <1>1, <1>2, <1>5 DEF Placed, Asked
  <2>2. meetup[m] # NoMeetup
    BY <1>2 DEF NoMeetup
  <2> QED
    BY <2>1, <2>2, <1>2, <1>4, PlacesShrink DEF MeetupInv, PlacesKept
<1>6. CASE c.confirmed
  <2>1. meetup[m].places = NoLimit \/ Cardinality(Queue(m)) + 1 <= meetup[m].places
    BY <1>1, <1>6 DEF Within
  <2>2. PlacesKept(m) /\ meetup[m] # NoMeetup
    BY <1>2 DEF MeetupInv, NoMeetup
  <2>3. /\ Cardinality(Confirmed(m)) <= Cardinality(Queue(m))
        /\ Cardinality(Confirmed(m)) \in Nat /\ Cardinality(Queue(m)) \in Nat
    BY <2>2, FS_Subset, FS_CardinalityType DEF PlacesKept
  <2>4. /\ Cardinality(Placed(m)') <= Cardinality(MeetupCalls) /\ Cardinality(Placed(m)') \in Nat
        /\ Cardinality(MeetupCalls) \in Nat
    BY MeetupAssumption, FS_Subset, FS_CardinalityType DEF Placed, Asked
  <2>5. PlacesKept(m)'
    BY <2>1, <2>2, <2>3, <2>4, <1>2, <1>4 DEF PlacesKept
  <2> QED
    BY <1>3, <1>5, <2>5 DEF MeetupInv
<1> QED
  BY <1>3, <1>5, <1>6 DEF MeetupInv

LEMMA JoinedKeepsPlaces ==
    ASSUME MeetupInv, NEW r \in MeetupCalls, Joined(r)
    PROVE  MeetupInv'
<1>1. PICK m, u : m = meetCall[r].meetup /\ u = meetCall[r].user
  OBVIOUS
<1>2. /\ meetCall[r].op = "join" /\ waitlist' = waitlist \cup {<<m, u>>} /\ meetup' = meetup
      /\ confirmed' = IF meetCall[r].confirmed THEN confirmed \cup {<<m, u>>} ELSE confirmed
      /\ meetCall' = [meetCall EXCEPT ![r] = MeetupIdle]
  BY <1>1 DEF Joined, MeetDone
<1>3. meetCall' = [q \in MeetupCalls |-> meetCall'[q]] /\ meetup' = [n \in Meetups |-> meetup'[n]]
  BY <1>2 DEF MeetupInv
<1>4. \A n : Placed(n)' \subseteq Placed(n) \ {r} /\ Asked(n)' \subseteq Asked(n)
  <2>1. MeetupIdle.op # "join"
    BY DEF MeetupIdle
  <2> QED
    BY <1>2, <2>1, OthersPlaced
<1>5. \A n : /\ Queue(n)' \subseteq Queue(n) \cup {u} /\ Queue(n) \subseteq Queue(n)'
             /\ n # m => Queue(n)' = Queue(n) /\ Confirmed(n)' = Confirmed(n)
             /\ ~meetCall[r].confirmed => Confirmed(n)' = Confirmed(n)
             /\ Confirmed(n)' \subseteq Confirmed(n) \cup {u}
  BY <1>2 DEF Queue, Confirmed
<1>6. ASSUME NEW n \in Meetups
      PROVE  PlacesKept(n)'
  <2>1. PlacesKept(n)
    BY DEF MeetupInv
  <2>2. CASE n # m
    BY <2>1, <2>2, <1>2, <1>4, <1>5, PlacesShrink DEF PlacesKept
  <2>3. CASE n = m
    <3>1. IsFiniteSet(Queue(m)') /\ Confirmed(m)' \subseteq Queue(m)'
      <4>1. IsFiniteSet(Queue(m) \cup {u})
        BY <2>1, <2>3, FS_AddElement DEF PlacesKept
      <4>2. IsFiniteSet(Queue(m)')
        BY <4>1, <1>5, FS_Subset
      <4>3. Confirmed(m)' \subseteq Queue(m)'
        BY <2>1, <2>3, <1>2 DEF PlacesKept, Confirmed, Queue
      <4> QED
        BY <4>2, <4>3
    <3>2. /\ IsFiniteSet(Confirmed(m)) /\ IsFiniteSet(Placed(m)) /\ Cardinality(MeetupCalls) \in Nat
          /\ meetup[m].places # NoLimit => meetup[m].places \in Nat
      BY <2>1, <2>3, MeetupAssumption, FS_Subset, FS_CardinalityType DEF PlacesKept, Placed, Asked
    <3>3. /\ Cardinality(Confirmed(m)') + Cardinality(Placed(m)') <= Cardinality(Confirmed(m)) + Cardinality(Placed(m))
          /\ Cardinality(Confirmed(m)') \in Nat /\ Cardinality(Placed(m)') \in Nat
          /\ Cardinality(Confirmed(m)) \in Nat /\ Cardinality(Placed(m)) \in Nat
      <4>1. CASE meetCall[r].confirmed
        <5>1. r \in Placed(m)
          BY <1>1, <1>2, <4>1 DEF Placed, Asked
        <5>2. /\ Cardinality(Confirmed(m)') + Cardinality(Placed(m) \ {r}) <= Cardinality(Confirmed(m)) + Cardinality(Placed(m))
              /\ IsFiniteSet(Confirmed(m)') /\ IsFiniteSet(Placed(m) \ {r})
          BY <5>1, <3>2, <1>5, TakenOrDropped
        <5>3. Cardinality(Placed(m)') <= Cardinality(Placed(m) \ {r}) /\ IsFiniteSet(Placed(m)')
          BY <5>2, <1>4, FS_Subset
        <5> QED
          BY <3>2, <5>2, <5>3, FS_CardinalityType
      <4>2. CASE ~meetCall[r].confirmed
        <5>1. Confirmed(m)' \subseteq Confirmed(m) /\ Placed(m)' \subseteq Placed(m)
          BY <1>4, <1>5, <4>2
        <5> QED
          BY <5>1, <3>2, FewerStill
      <4> QED
        BY <4>1, <4>2
    <3>4. meetup[m] # NoMeetup
      <4>1. r \in Asked(m)
        BY <1>1, <1>2 DEF Asked
      <4> QED
        BY <2>1, <2>3, <4>1 DEF PlacesKept
    <3> QED
      BY <2>1, <2>3, <1>2, <3>1, <3>2, <3>3, <3>4 DEF PlacesKept
  <2> QED
    BY <2>2, <2>3
<1> QED
  BY <1>3, <1>6 DEF MeetupInv

LEMMA MeetupStep ==
    ASSUME MeetupInv, MeetupsNext \/ UNCHANGED meetups
    PROVE  MeetupInv'
<1>1. ASSUME UNCHANGED meetups
      PROVE  MeetupInv'
  <2>1. UNCHANGED <<meetup, waitlist, confirmed, meetCall>>
    BY <1>1 DEF meetups
  <2>2. ASSUME NEW m \in Meetups
        PROVE  PlacesKept(m)'
    <3>1. /\ meetup'[m] = meetup[m] /\ Queue(m)' = Queue(m) /\ Confirmed(m)' = Confirmed(m)
          /\ Placed(m)' = Placed(m) /\ Asked(m)' = Asked(m)
      BY <2>1 DEF Queue, Confirmed, Placed, Asked
    <3>2. PlacesKept(m)
      BY DEF MeetupInv
    <3> QED
      BY <3>1, <3>2 DEF PlacesKept
  <2> QED
    BY <2>1, <2>2 DEF MeetupInv
<1>2. ASSUME NEW u \in Users, NEW m \in Meetups, NEW at \in Times, NEW places \in Places,
             CreateMeetup(u, m, at, places)
      PROVE  MeetupInv'
  <2>1. PICK c : /\ c = [life |-> "live", creator |-> u, at |-> at, places |-> places]
                 /\ meetup[m] = NoMeetup /\ meetup' = [meetup EXCEPT ![m] = c]
                 /\ UNCHANGED <<waitlist, meetCall, confirmed>>
    BY <1>2 DEF CreateMeetup
  <2>2. \A n : Queue(n)' = Queue(n) /\ Confirmed(n)' = Confirmed(n) /\ Asked(n)' = Asked(n) /\ Placed(n)' = Placed(n)
    BY <2>1 DEF Queue, Confirmed, Asked, Placed
  <2>3. \A n \in Meetups : PlacesKept(n) /\ meetup'[n] = IF n = m THEN c ELSE meetup[n]
    BY <2>1 DEF MeetupInv
  <2>4. ASSUME NEW n \in Meetups, n # m
        PROVE  PlacesKept(n)'
    BY <2>2, <2>3, <2>4 DEF PlacesKept
  <2>5. PlacesKept(m)'
    <3>1. Queue(m) = {} /\ Asked(m) = {} /\ Confirmed(m) = {} /\ Placed(m) = {}
      BY <2>1, <2>3 DEF PlacesKept, Placed
    <3>2. /\ c.places \in (Nat \ {0}) \cup {NoLimit} /\ c # NoMeetup
          /\ Cardinality(MeetupCalls) \in Nat
      BY <2>1, MeetupAssumption, FS_CardinalityType DEF NoMeetup
    <3>3. meetup'[m] = c /\ IsFiniteSet(Queue(m)') /\ Cardinality(Confirmed(m)') = 0 /\ Cardinality(Placed(m)') = 0
      BY <2>2, <2>3, <3>1, FS_EmptySet
    <3> QED
      BY <2>2, <3>1, <3>2, <3>3 DEF PlacesKept
  <2>6. meetup' = [n \in Meetups |-> meetup'[n]] /\ meetCall' = [r \in MeetupCalls |-> meetCall'[r]]
    BY <2>1 DEF MeetupInv
  <2> QED
    BY <2>4, <2>5, <2>6 DEF MeetupInv
<1>3. ASSUME NEW u \in Users, NEW m \in Meetups, CancelMeetup(u, m)
      PROVE  MeetupInv'
  <2>1. PICK c : c = [meetup[m] EXCEPT !.life = "gone"] /\ meetup' = [meetup EXCEPT ![m] = c]
    BY <1>3 DEF CancelMeetup
  <2>2. meetup[m].life = "live" /\ UNCHANGED <<waitlist, meetCall, confirmed>>
    BY <1>3 DEF CancelMeetup, Upcoming
  <2>3. \A n : Queue(n)' = Queue(n) /\ Confirmed(n)' = Confirmed(n) /\ Asked(n)' = Asked(n) /\ Placed(n)' = Placed(n)
    BY <2>2 DEF Queue, Confirmed, Asked, Placed
  <2>4. c.places = meetup[m].places /\ meetup[m] # NoMeetup
    BY <2>1, <2>2 DEF NoMeetup
  <2>5. meetup' = [n \in Meetups |-> meetup'[n]] /\ meetCall' = [r \in MeetupCalls |-> meetCall'[r]]
    BY <2>1, <2>2 DEF MeetupInv
  <2>6. ASSUME NEW n \in Meetups
        PROVE  PlacesKept(n)'
    <3>1. PlacesKept(n) /\ meetup'[n] = IF n = m THEN c ELSE meetup[n]
      BY <2>1 DEF MeetupInv
    <3>2. CASE n # m
      BY <3>1, <3>2, <2>3 DEF PlacesKept
    <3>3. CASE n = m
      <4>1. c # NoMeetup
        <5>1. NoMeetup.life = "unused"
          BY DEF NoMeetup
        <5>2. c.life = "gone"
          BY <2>1, <2>2
        <5> QED
          BY <5>1, <5>2
      <4> QED
        BY <3>1, <3>3, <4>1, <2>3, <2>4 DEF PlacesKept
    <3> QED
      BY <3>2, <3>3
  <2> QED
    BY <2>5, <2>6 DEF MeetupInv
<1>4. ASSUME NEW u \in Users, NEW m \in Meetups, LeaveWaitlist(u, m)
      PROVE  MeetupInv'
  <2>1. /\ waitlist' = waitlist \ {<<m, u>>} /\ confirmed' = confirmed \ {<<m, u>>}
        /\ UNCHANGED <<meetup, meetCall>>
    BY <1>4 DEF LeaveWaitlist
  <2>2. ASSUME NEW n \in Meetups
        PROVE  PlacesKept(n)'
    <3>1. PlacesKept(n)
      BY DEF MeetupInv
    <3>2. Queue(n)' \subseteq Queue(n) /\ Confirmed(n)' \subseteq Confirmed(n) /\ Placed(n)' = Placed(n) /\ Asked(n)' = Asked(n)
      BY <2>1 DEF Queue, Confirmed, Placed, Asked
    <3>3. Confirmed(n)' \subseteq Queue(n)'
      BY <3>1, <2>1 DEF PlacesKept, Queue, Confirmed
    <3> QED
      BY <3>1, <3>2, <3>3, <2>1, PlacesShrink
  <2> QED
    BY <2>1, <2>2 DEF MeetupInv
<1>5. ASSUME NEW r \in MeetupCalls,
             (\E u \in Users, m \in Meetups : ReviewMeetup(r, u, m)) \/ MeetupReviewed(r) \/ MeetupLost(r)
      PROVE  MeetupInv'
  <2>1. PICK c : /\ c.op # "join" /\ meetCall' = [meetCall EXCEPT ![r] = c]
                 /\ UNCHANGED <<meetup, waitlist, confirmed>>
    BY <1>5 DEF ReviewMeetup, MeetupReviewed, MeetupLost, MeetLoad, MeetDone, MeetupIdle
  <2>2. ASSUME NEW n \in Meetups
        PROVE  PlacesKept(n)'
    <3>1. PlacesKept(n)
      BY DEF MeetupInv
    <3>2. Queue(n)' = Queue(n) /\ Confirmed(n)' = Confirmed(n)
      BY <2>1 DEF Queue, Confirmed
    <3>3. Placed(n)' \subseteq Placed(n) /\ Asked(n)' \subseteq Asked(n)
      BY <2>1, OthersPlaced
    <3> QED
      BY <3>1, <3>2, <3>3, <2>1, PlacesShrink DEF PlacesKept
  <2> QED
    BY <2>1, <2>2 DEF MeetupInv
<1>6. ASSUME MeetupsNext
      PROVE  MeetupInv'
  <2>1. ASSUME NEW u \in Users, NEW m \in Meetups,
               \/ \E at \in Times, places \in Places : CreateMeetup(u, m, at, places)
               \/ CancelMeetup(u, m) \/ LeaveWaitlist(u, m)
               \/ \E r \in MeetupCalls : JoinWaitlist(r, u, m) \/ ReviewMeetup(r, u, m)
        PROVE  MeetupInv'
    BY <2>1, <1>2, <1>3, <1>4, <1>5, JoinKeepsPlaces
  <2>2. ASSUME NEW r \in MeetupCalls, Joined(r)
        PROVE  MeetupInv'
    BY <2>2, JoinedKeepsPlaces
  <2>3. ASSUME NEW r \in MeetupCalls, MeetupReviewed(r) \/ MeetupLost(r)
        PROVE  MeetupInv'
    BY <2>3, <1>5
  <2> QED
    BY <1>6, <2>1, <2>2, <2>3 DEF MeetupsNext
<1> QED
  BY <1>1, <1>6

LEMMA PlacesBounded ==
    ASSUME MeetupInv
    PROVE  MeetupOverruns
<1> SUFFICES ASSUME NEW m \in Meetups, meetup[m].places # NoLimit
             PROVE  Cardinality(Confirmed(m)) + Cardinality({r \in MeetupCalls :
                        meetCall[r].op = "join" /\ meetCall[r].meetup = m
                        /\ meetCall[r].confirmed /\ meetCall[r].user \notin Queue(m)})
                        <= meetup[m].places + Cardinality(MeetupCalls) - 1
  BY DEF MeetupOverruns
<1> DEFINE S == {r \in MeetupCalls :
                        meetCall[r].op = "join" /\ meetCall[r].meetup = m
                        /\ meetCall[r].confirmed /\ meetCall[r].user \notin Queue(m)}
<1>1. PlacesKept(m) /\ S \subseteq Placed(m)
  BY DEF MeetupInv, Placed, Asked
<1>2. /\ IsFiniteSet(Confirmed(m)) /\ IsFiniteSet(Placed(m)) /\ Cardinality(MeetupCalls) \in Nat
      /\ meetup[m].places \in Nat
  BY <1>1, MeetupAssumption, FS_Subset, FS_CardinalityType DEF PlacesKept, Placed, Asked
<1>3. /\ Cardinality(Confirmed(m)) + Cardinality(S) <= Cardinality(Confirmed(m)) + Cardinality(Placed(m))
      /\ Cardinality(Confirmed(m)) \in Nat /\ Cardinality(S) \in Nat /\ Cardinality(Placed(m)) \in Nat
  BY <1>1, <1>2, FewerStill
<1> QED
  BY <1>1, <1>2, <1>3 DEF PlacesKept

--------------------------------------------------------------------------------
(* Coupons and seats                                                       *)

Applying(k) == {r \in BillingCalls : bill[r].op = "coupon" /\ bill[r].coupon = k}
Seating(t) == {r \in BillingCalls : bill[r].op = "seat" /\ bill[r].team = t}

\* A coupon that somebody was told is theirs is not found free.
CouponKept(k) ==
    /\ IsFiniteSet(redeemed[k])
    /\ redeemed[k] # {} => /\ coupon[k].by # NoUser
                           /\ Cardinality(redeemed[k]) + Cardinality(Applying(k)) <= Cardinality(BillingCalls)

SeatsKept(t) ==
    /\ IsFiniteSet(Roster(t))
    /\ team[t] = NoTeam => Roster(t) = {} /\ Seating(t) = {}
    /\ Cardinality(Roster(t)) + Cardinality(Seating(t)) <= Seats + Cardinality(BillingCalls) - 1

BillsTyped ==
    /\ coupon = [k \in Coupons |-> coupon[k]] /\ redeemed = [k \in Coupons |-> redeemed[k]]
    /\ team = [t \in Teams |-> team[t]] /\ bill = [r \in BillingCalls |-> bill[r]]
    /\ \A r \in BillingCalls : bill[r].op = "coupon" => bill[r].coupon \in Coupons /\ bill[r].user \in Users
    /\ \A r \in BillingCalls : bill[r].op = "seat" => bill[r].team \in Teams /\ bill[r].user \in Users

BillingInv ==
    BillsTyped /\ (\A k \in Coupons : CouponKept(k)) /\ (\A t \in Teams : SeatsKept(t))

LEMMA CallsCounted ==
    /\ IsFiniteSet(BillingCalls) /\ Cardinality(BillingCalls) \in Nat /\ Cardinality(BillingCalls) >= 1
    /\ \A S : S \subseteq BillingCalls =>
          IsFiniteSet(S) /\ Cardinality(S) \in Nat /\ Cardinality(S) <= Cardinality(BillingCalls)
<1>1. IsFiniteSet(BillingCalls) /\ Cardinality(BillingCalls) \in Nat /\ Cardinality(BillingCalls) # 0
  BY BillingAssumption, FS_CardinalityType, FS_EmptySet
<1>2. ASSUME NEW S, S \subseteq BillingCalls
      PROVE  IsFiniteSet(S) /\ Cardinality(S) \in Nat /\ Cardinality(S) <= Cardinality(BillingCalls)
  BY <1>1, <1>2, FS_Subset, FS_CardinalityType
<1> QED
  BY <1>1, <1>2

LEMMA BillingStart ==
    ASSUME BillingInit
    PROVE  BillingInv
<1>1. BillsTyped
  BY DEF BillingInit, BillsTyped, BillIdle
<1>2. ASSUME NEW k \in Coupons
      PROVE  CouponKept(k)
  BY FS_EmptySet DEF BillingInit, CouponKept
<1>3. ASSUME NEW t \in Teams
      PROVE  SeatsKept(t)
  <2>1. Roster(t) = {} /\ Seating(t) = {}
    BY DEF BillingInit, Roster, Seating, BillIdle
  <2>2. IsFiniteSet({}) /\ Cardinality({}) = 0 /\ Seats \in Nat \ {0}
    BY FS_EmptySet, BillingAssumption
  <2> QED
    BY <2>1, <2>2, CallsCounted DEF SeatsKept
<1> QED
  BY <1>1, <1>2, <1>3 DEF BillingInv

\* What is loaded, or done with.
Takes(r, c) ==
    /\ c = bill'[r]
    /\ bill' = [q \in BillingCalls |-> IF q = r THEN c ELSE bill[q]]

LEMMA CallsTyped ==
    ASSUME BillsTyped, NEW r \in BillingCalls, NEW c, Takes(r, c),
           c.op = "coupon" => c.coupon \in Coupons /\ c.user \in Users,
           c.op = "seat" => c.team \in Teams /\ c.user \in Users,
           coupon' = [k \in Coupons |-> coupon'[k]], redeemed' = [k \in Coupons |-> redeemed'[k]],
           team' = [t \in Teams |-> team'[t]]
    PROVE  BillsTyped'
<1>1. \A q \in BillingCalls : bill'[q] = IF q = r THEN c ELSE bill[q]
  BY DEF Takes
<1>2. bill' = [q \in BillingCalls |-> bill'[q]]
  BY DEF Takes
<1> QED
  BY <1>1, <1>2 DEF BillsTyped

LEMMA CallsMove ==
    ASSUME NEW r \in BillingCalls, NEW c, Takes(r, c)
    PROVE  /\ \A k : /\ Applying(k)' \subseteq Applying(k) \cup {r}
                     /\ (c.op = "coupon" => c.coupon # k) => Applying(k)' \subseteq Applying(k) \ {r}
           /\ \A t : /\ Seating(t)' \subseteq Seating(t) \cup {r}
                     /\ (c.op = "seat" => c.team # t) => Seating(t)' \subseteq Seating(t) \ {r}
<1>1. \A q \in BillingCalls : bill'[q] = IF q = r THEN c ELSE bill[q]
  BY DEF Takes
<1> QED
  BY <1>1 DEF Applying, Seating

LEMMA CouponStays ==
    ASSUME NEW k, CouponKept(k), redeemed'[k] = redeemed[k],
           redeemed[k] # {} => /\ Applying(k)' \subseteq Applying(k)
                               /\ coupon[k].by # NoUser => coupon'[k].by # NoUser
    PROVE  CouponKept(k)'
<1>1. Applying(k) \subseteq BillingCalls /\ IsFiniteSet(redeemed[k])
  BY DEF Applying, CouponKept
<1>2. CASE redeemed[k] # {}
  <2>1. /\ Cardinality(redeemed[k]) + Cardinality(Applying(k)') <= Cardinality(redeemed[k]) + Cardinality(Applying(k))
        /\ Cardinality(redeemed[k]) \in Nat /\ Cardinality(Applying(k)') \in Nat /\ Cardinality(Applying(k)) \in Nat
    BY <1>1, <1>2, CallsCounted, FewerStill
  <2> QED
    BY <1>2, <2>1, CallsCounted DEF CouponKept
<1> QED
  BY <1>1, <1>2 DEF CouponKept

LEMMA SeatsShrink ==
    ASSUME NEW t, SeatsKept(t), Roster(t)' \subseteq Roster(t), Seating(t)' \subseteq Seating(t),
           team'[t] = NoTeam => team[t] = NoTeam
    PROVE  SeatsKept(t)'
<1>1. Seating(t) \subseteq BillingCalls /\ IsFiniteSet(Roster(t))
  BY DEF Seating, SeatsKept
<1>2. /\ Cardinality(Roster(t)') + Cardinality(Seating(t)') <= Cardinality(Roster(t)) + Cardinality(Seating(t))
      /\ IsFiniteSet(Roster(t)')
      /\ Cardinality(Roster(t)) \in Nat /\ Cardinality(Roster(t)') \in Nat
      /\ Cardinality(Seating(t)) \in Nat /\ Cardinality(Seating(t)') \in Nat
  BY <1>1, CallsCounted, FewerStill
<1>3. Seats \in Nat
  BY BillingAssumption
<1> QED
  BY <1>2, <1>3, CallsCounted DEF SeatsKept

\* All that a request does to coupons, teams and seats when it loads or ends
\* with nothing done.
LEMMA CallKeepsBilling ==
    ASSUME BillingInv, NEW r \in BillingCalls, NEW c, Takes(r, c), c.op \notin {"coupon", "seat"},
           UNCHANGED <<coupon, redeemed, team, seat>>
    PROVE  BillingInv'
<1>1. BillsTyped'
  BY CallsTyped DEF BillingInv, BillsTyped
<1>2. ASSUME NEW k \in Coupons
      PROVE  CouponKept(k)'
  BY CallsMove, CouponStays DEF BillingInv
<1>3. ASSUME NEW t \in Teams
      PROVE  SeatsKept(t)'
  <2>1. Roster(t)' = Roster(t)
    BY DEF Roster
  <2> QED
    BY <2>1, CallsMove, SeatsShrink DEF BillingInv
<1> QED
  BY <1>1, <1>2, <1>3 DEF BillingInv

LEMMA CouponAskedKeeps ==
    ASSUME BillingInv, NEW r \in BillingCalls, NEW u \in Users, NEW k \in Coupons, ApplyCoupon(r, u, k)
    PROVE  BillingInv'
<1>1. PICK c : /\ c = [op |-> "coupon", user |-> u, coupon |-> k]
               /\ bill' = [bill EXCEPT ![r] = c] /\ UNCHANGED <<coupon, redeemed, team, seat>>
  BY DEF ApplyCoupon, Load
<1>2. Takes(r, c)
  BY <1>1 DEF Takes, BillingInv, BillsTyped
<1>3. BillsTyped'
  BY <1>1, <1>2, CallsTyped DEF BillingInv, BillsTyped
<1>4. ASSUME NEW n \in Coupons
      PROVE  CouponKept(n)'
  <2>1. redeemed[k] = {}
    BY DEF ApplyCoupon, BillingInv, CouponKept
  <2>2. redeemed[n] # {} => Applying(n)' \subseteq Applying(n)
    BY <1>1, <1>2, <2>1, CallsMove
  <2> QED
    BY <1>1, <2>2, CouponStays DEF BillingInv
<1>5. ASSUME NEW t \in Teams
      PROVE  SeatsKept(t)'
  <2>1. Roster(t)' = Roster(t) /\ Seating(t)' \subseteq Seating(t)
    BY <1>1, <1>2, CallsMove DEF Roster
  <2> QED
    BY <1>1, <2>1, SeatsShrink DEF BillingInv
<1> QED
  BY <1>3, <1>4, <1>5 DEF BillingInv

LEMMA CouponAppliedKeeps ==
    ASSUME BillingInv, NEW r \in BillingCalls, CouponApplied(r)
    PROVE  BillingInv'
<1>1. PICK k \in Coupons, u \in Users : k = bill[r].coupon /\ u = bill[r].user /\ bill[r].op = "coupon"
  BY DEF CouponApplied, BillingInv, BillsTyped
<1>2. /\ coupon' = [coupon EXCEPT ![k].by = u] /\ redeemed' = [redeemed EXCEPT ![k] = @ \cup {u}]
      /\ bill' = [bill EXCEPT ![r] = BillIdle] /\ UNCHANGED <<team, seat>>
  BY <1>1 DEF CouponApplied, BillDone
<1>3. Takes(r, BillIdle) /\ BillIdle.op \notin {"coupon", "seat"}
  BY <1>2 DEF Takes, BillingInv, BillsTyped, BillIdle
<1>4. PICK x : x = [coupon[k] EXCEPT !.by = u] /\ coupon' = [coupon EXCEPT ![k] = x]
  BY <1>2
<1>5. /\ \A n \in Coupons : /\ n # k => coupon'[n] = coupon[n] /\ redeemed'[n] = redeemed[n]
                            /\ n = k => coupon'[n] = x /\ redeemed'[n] = redeemed[n] \cup {u}
      /\ coupon' = [n \in Coupons |-> coupon'[n]] /\ redeemed' = [n \in Coupons |-> redeemed'[n]]
  BY <1>2, <1>4 DEF BillingInv, BillsTyped
<1>6. BillsTyped'
  BY <1>2, <1>3, <1>5, CallsTyped DEF BillingInv, BillsTyped
<1>7. ASSUME NEW n \in Coupons
      PROVE  CouponKept(n)'
  <2>1. CouponKept(n) /\ Applying(n)' \subseteq Applying(n) \ {r}
    BY <1>3, CallsMove DEF BillingInv
  <2>2. CASE n # k
    BY <2>1, <2>2, <1>5, CouponStays
  <2>3. CASE n = k
    <3>1. /\ r \in Applying(k) /\ Applying(k) \subseteq BillingCalls /\ IsFiniteSet(redeemed[k])
          /\ redeemed'[k] = redeemed[k] \cup {u} /\ coupon'[k] = x /\ Applying(k)' \subseteq Applying(k) \ {r}
      BY <2>1, <2>3, <1>1, <1>5 DEF Applying, CouponKept
    <3>2. x.by # NoUser
      <4>1. x.by = u
        BY <1>4 DEF BillingInv, BillsTyped
      <4> QED
        BY <4>1, ClockAssumption
    <3>3. PICK D : D = redeemed[k] \cup {u}
      OBVIOUS
    <3>4. /\ IsFiniteSet(D) /\ IsFiniteSet(Applying(k) \ {r})
          /\ Cardinality(D) + Cardinality(Applying(k) \ {r}) <= Cardinality(redeemed[k]) + Cardinality(Applying(k))
      BY <3>1, <3>3, CallsCounted, TakenOrDropped
    <3>5. Cardinality(Applying(k)') <= Cardinality(Applying(k) \ {r})
      BY <3>1, <3>4, FS_Subset
    <3>6. /\ Cardinality(D) \in Nat /\ Cardinality(Applying(k) \ {r}) \in Nat
          /\ Cardinality(Applying(k)) \in Nat /\ Cardinality(Applying(k)) <= Cardinality(BillingCalls)
          /\ Cardinality(Applying(k)') \in Nat /\ Cardinality(redeemed[k]) \in Nat
          /\ Cardinality(BillingCalls) \in Nat
      <4>1. Applying(k) \ {r} \subseteq BillingCalls /\ Applying(k)' \subseteq BillingCalls
        BY <3>1
      <4> QED
        BY <3>1, <3>4, <4>1, CallsCounted, FS_CardinalityType
    <3>7. Cardinality(redeemed[k]) + Cardinality(Applying(k)) <= Cardinality(BillingCalls)
      <4>1. redeemed[k] = {} => Cardinality(redeemed[k]) = 0
        BY FS_EmptySet
      <4> QED
        BY <2>1, <2>3, <3>6, <4>1 DEF CouponKept
    <3> QED
      BY <2>3, <3>1, <3>2, <3>3, <3>4, <3>5, <3>6, <3>7 DEF CouponKept
  <2> QED
    BY <2>2, <2>3
<1>8. ASSUME NEW t \in Teams
      PROVE  SeatsKept(t)'
  <2>1. Roster(t)' = Roster(t) /\ Seating(t)' \subseteq Seating(t)
    BY <1>2, <1>3, CallsMove DEF Roster
  <2> QED
    BY <1>2, <2>1, SeatsShrink DEF BillingInv
<1> QED
  BY <1>6, <1>7, <1>8 DEF BillingInv

LEMMA SeatAskedKeeps ==
    ASSUME BillingInv, NEW r \in BillingCalls, NEW t \in Teams, NEW u \in Users, AddMember(r, t, u)
    PROVE  BillingInv'
<1>1. PICK c : /\ c = [op |-> "seat", user |-> u, team |-> t]
               /\ bill' = [bill EXCEPT ![r] = c] /\ UNCHANGED <<coupon, redeemed, team, seat>>
  BY DEF AddMember, Load
<1>2. Takes(r, c)
  BY <1>1 DEF Takes, BillingInv, BillsTyped
<1>3. BillsTyped'
  BY <1>1, <1>2, CallsTyped DEF BillingInv, BillsTyped
<1>4. ASSUME NEW k \in Coupons
      PROVE  CouponKept(k)'
  BY <1>1, <1>2, CallsMove, CouponStays DEF BillingInv
<1>5. ASSUME NEW n \in Teams
      PROVE  SeatsKept(n)'
  <2>1. SeatsKept(n) /\ Roster(n)' = Roster(n)
    BY <1>1 DEF Roster, BillingInv
  <2>2. CASE n # t
    BY <1>1, <1>2, <2>1, <2>2, CallsMove, SeatsShrink
  <2>3. CASE n = t
    <3>1. /\ team[t] # NoTeam /\ Cardinality(Roster(t)) < Seats /\ Seats \in Nat
          /\ Cardinality(Roster(t)) \in Nat
      BY <2>1, <2>3, BillingAssumption, FS_CardinalityType DEF AddMember, SeatsKept
    <3>2. Seating(t)' \subseteq BillingCalls
      BY DEF Seating
    <3>3. Cardinality(Seating(t)') \in Nat /\ Cardinality(Seating(t)') <= Cardinality(BillingCalls)
          /\ Cardinality(BillingCalls) \in Nat
      BY <3>2, CallsCounted
    <3> QED
      BY <1>1, <2>1, <2>3, <3>1, <3>3 DEF SeatsKept
  <2> QED
    BY <2>2, <2>3
<1> QED
  BY <1>3, <1>4, <1>5 DEF BillingInv

LEMMA MemberAddedKeeps ==
    ASSUME BillingInv, NEW r \in BillingCalls, MemberAdded(r)
    PROVE  BillingInv'
<1>1. PICK t \in Teams, u \in Users : t = bill[r].team /\ u = bill[r].user /\ bill[r].op = "seat"
  BY DEF MemberAdded, BillingInv, BillsTyped
<1>2. /\ seat' = seat \cup {<<t, u>>} /\ bill' = [bill EXCEPT ![r] = BillIdle]
      /\ UNCHANGED <<coupon, redeemed, team>>
  BY <1>1 DEF MemberAdded, BillDone
<1>3. Takes(r, BillIdle) /\ BillIdle.op \notin {"coupon", "seat"}
  BY <1>2 DEF Takes, BillingInv, BillsTyped, BillIdle
<1>4. BillsTyped'
  BY <1>2, <1>3, CallsTyped DEF BillingInv, BillsTyped
<1>5. ASSUME NEW k \in Coupons
      PROVE  CouponKept(k)'
  BY <1>2, <1>3, CallsMove, CouponStays DEF BillingInv
<1>6. ASSUME NEW n \in Teams
      PROVE  SeatsKept(n)'
  <2>1. SeatsKept(n) /\ Seating(n)' \subseteq Seating(n) \ {r}
    BY <1>3, CallsMove DEF BillingInv
  <2>2. CASE n # t
    <3>1. Roster(n)' = Roster(n)
      BY <1>2, <2>2 DEF Roster
    <3> QED
      BY <1>2, <2>1, <3>1, SeatsShrink
  <2>3. CASE n = t
    <3>1. /\ r \in Seating(t) /\ Seating(t) \subseteq BillingCalls /\ IsFiniteSet(Roster(t)) /\ team[t] # NoTeam
          /\ Roster(t)' = Roster(t) \cup {u} /\ Seating(t)' \subseteq Seating(t) \ {r}
      <4>1. r \in Seating(t) /\ Roster(t)' = Roster(t) \cup {u} /\ Seating(t) \subseteq BillingCalls
        BY <1>1, <1>2 DEF Seating, Roster
      <4> QED
        BY <2>1, <2>3, <4>1 DEF SeatsKept
    <3>2. /\ IsFiniteSet(Roster(t)') /\ IsFiniteSet(Seating(t) \ {r})
          /\ Cardinality(Roster(t)') + Cardinality(Seating(t) \ {r}) <= Cardinality(Roster(t)) + Cardinality(Seating(t))
      BY <3>1, CallsCounted, TakenOrDropped
    <3>3. Cardinality(Seating(t)') <= Cardinality(Seating(t) \ {r})
      BY <3>1, <3>2, FS_Subset
    <3>4. /\ Cardinality(Roster(t)') \in Nat /\ Cardinality(Roster(t)) \in Nat
          /\ Cardinality(Seating(t) \ {r}) \in Nat /\ Cardinality(Seating(t)) \in Nat
          /\ Cardinality(Seating(t)') \in Nat /\ Cardinality(BillingCalls) \in Nat /\ Seats \in Nat
      <4>1. Seating(t) \ {r} \subseteq BillingCalls /\ Seating(t)' \subseteq BillingCalls
        BY <3>1
      <4> QED
        BY <3>1, <3>2, <4>1, CallsCounted, BillingAssumption, FS_CardinalityType
    <3> QED
      BY <1>2, <2>1, <2>3, <3>1, <3>2, <3>3, <3>4 DEF SeatsKept
  <2> QED
    BY <2>2, <2>3
<1> QED
  BY <1>4, <1>5, <1>6 DEF BillingInv

LEMMA TeamCreatedKeeps ==
    ASSUME BillingInv, NEW t \in Teams, NEW u \in Users, NEW until, CreateTeam(u, t, until)
    PROVE  BillingInv'
<1>1. /\ team[t] = NoTeam /\ team' = [team EXCEPT ![t] = [admin |-> u, until |-> until]]
      /\ seat' = seat \cup {<<t, u>>} /\ UNCHANGED <<coupon, redeemed, bill>>
  BY DEF CreateTeam
<1>2. team' = [n \in Teams |-> team'[n]] /\ \A n \in Teams \ {t} : team'[n] = team[n]
  BY <1>1 DEF BillingInv, BillsTyped
<1>3. team'[t] # NoTeam
  <2>1. team'[t] = [admin |-> u, until |-> until] /\ u # NoUser
    BY <1>1, ClockAssumption DEF BillingInv, BillsTyped
  <2> QED
    BY <2>1 DEF NoTeam
<1>4. BillsTyped'
  BY <1>1, <1>2 DEF BillingInv, BillsTyped
<1>5. ASSUME NEW k \in Coupons
      PROVE  CouponKept(k)'
  BY <1>1 DEF BillingInv, CouponKept, Applying
<1>6. ASSUME NEW n \in Teams
      PROVE  SeatsKept(n)'
  <2>1. SeatsKept(n) /\ Seating(n)' = Seating(n)
    BY <1>1 DEF BillingInv, Seating
  <2>2. CASE n # t
    <3>1. Roster(n)' = Roster(n)
      BY <1>1, <2>2 DEF Roster
    <3> QED
      BY <1>2, <2>1, <2>2, <3>1, SeatsShrink
  <2>3. CASE n = t
    <3>1. Roster(t) = {} /\ Seating(t) = {} /\ Roster(t)' = Roster(t) \cup {u}
      BY <1>1, <2>1, <2>3 DEF SeatsKept, Roster
    <3>2. Roster(t)' = {u} /\ Seating(t)' = {}
      BY <2>1, <2>3, <3>1
    <3>3. IsFiniteSet(Roster(t)') /\ Cardinality(Roster(t)') = 1 /\ Cardinality(Seating(t)') = 0
      BY <3>2, FS_Singleton, FS_EmptySet
    <3>4. Seats \in Nat \ {0}
      BY BillingAssumption
    <3> QED
      BY <1>3, <2>3, <3>3, <3>4, CallsCounted DEF SeatsKept
  <2> QED
    BY <2>2, <2>3
<1> QED
  BY <1>4, <1>5, <1>6 DEF BillingInv

LEMMA BillingStep ==
    ASSUME BillingInv, BillingNext \/ UNCHANGED <<coupon, redeemed, team, seat, bill>>
                                   \/ \E k \in Coupons : CreateCoupon(k)
    PROVE  BillingInv'
<1>1. ASSUME UNCHANGED <<coupon, redeemed, team, seat, bill>>
      PROVE  BillingInv'
  BY <1>1 DEF BillingInv, BillsTyped, CouponKept, SeatsKept, Applying, Seating, Roster
<1>2. ASSUME NEW r \in BillingCalls, NEW u, GetStatus(r, u)
      PROVE  BillingInv'
  <2>1. PICK c : /\ c = [op |-> "expire", user |-> u] /\ bill' = [bill EXCEPT ![r] = c]
                 /\ UNCHANGED <<coupon, redeemed, team, seat>>
    BY <1>2 DEF GetStatus, Load
  <2>2. Takes(r, c)
    BY <2>1 DEF Takes, BillingInv, BillsTyped
  <2> QED
    BY <2>1, <2>2, CallKeepsBilling
<1>3. ASSUME NEW r \in BillingCalls, StatusExpired(r) \/ BillLost(r)
      PROVE  BillingInv'
  <2>1. bill' = [bill EXCEPT ![r] = BillIdle] /\ UNCHANGED <<coupon, redeemed, team, seat>>
    BY <1>3 DEF StatusExpired, BillLost, BillDone
  <2>2. Takes(r, BillIdle) /\ BillIdle.op \notin {"coupon", "seat"}
    BY <2>1 DEF Takes, BillingInv, BillsTyped, BillIdle
  <2> QED
    BY <2>1, <2>2, CallKeepsBilling
<1>4. ASSUME NEW k \in Coupons, CreateCoupon(k)
      PROVE  BillingInv'
  <2>1. PICK x : /\ x = [coupon[k] EXCEPT !.issued = TRUE] /\ coupon' = [coupon EXCEPT ![k] = x]
                 /\ UNCHANGED <<redeemed, team, seat, bill>>
    BY <1>4 DEF CreateCoupon
  <2>2. \A n \in Coupons : coupon'[n].by = coupon[n].by
    BY <2>1 DEF BillingInv, BillsTyped
  <2>3. BillsTyped'
    BY <2>1 DEF BillingInv, BillsTyped
  <2> QED
    BY <2>1, <2>2, <2>3 DEF BillingInv, CouponKept, SeatsKept, Applying, Seating, Roster
<1>5. ASSUME NEW t \in Teams, NEW u \in Users, RemoveMember(t, u)
      PROVE  BillingInv'
  <2>1. seat' = seat \ {<<t, u>>} /\ UNCHANGED <<coupon, redeemed, team, bill>>
    BY <1>5 DEF RemoveMember
  <2>2. ASSUME NEW n \in Teams
        PROVE  SeatsKept(n)'
    <3>1. Roster(n)' \subseteq Roster(n) /\ Seating(n)' = Seating(n)
      BY <2>1 DEF Roster, Seating
    <3> QED
      BY <2>1, <3>1, SeatsShrink DEF BillingInv
  <2> QED
    BY <2>1, <2>2 DEF BillingInv, BillsTyped, CouponKept, Applying
<1>6. ASSUME SubscriptionNext
      PROVE  BillingInv'
  BY <1>6, <1>1, <1>2 DEF SubscriptionNext, VerifyAndActivate, ApplyWebhookEvent
<1>7. ASSUME CouponNext \/ TeamNext
      PROVE  BillingInv'
  <2>1. CASE CouponNext
    BY <2>1, <1>4, CouponAskedKeeps DEF CouponNext
  <2>2. CASE TeamNext
    BY <2>2, <1>5, SeatAskedKeeps, TeamCreatedKeeps DEF TeamNext
  <2> QED
    BY <1>7, <2>1, <2>2
<1> QED
  BY <1>1, <1>3, <1>4, <1>6, <1>7, CouponAppliedKeeps, MemberAddedKeeps DEF BillingNext

LEMMA BillsBounded ==
    ASSUME BillingInv
    PROVE  BillingOverruns
<1>1. ASSUME NEW k \in Coupons, redeemed[k] # {}
      PROVE  Cardinality(redeemed[k]) + Cardinality({r \in BillingCalls :
                 bill[r].op = "coupon" /\ bill[r].coupon = k}) <= Cardinality(BillingCalls)
  BY <1>1 DEF BillingInv, CouponKept, Applying
<1>2. ASSUME NEW t \in Teams
      PROVE  Cardinality(Roster(t)) + Cardinality({r \in BillingCalls :
                 bill[r].op = "seat" /\ bill[r].team = t /\ bill[r].user \notin Roster(t)})
                 <= Seats + Cardinality(BillingCalls) - 1
  <2> DEFINE S == {r \in BillingCalls :
                 bill[r].op = "seat" /\ bill[r].team = t /\ bill[r].user \notin Roster(t)}
  <2>1. SeatsKept(t) /\ S \subseteq Seating(t) /\ Seating(t) \subseteq BillingCalls /\ Seats \in Nat
    BY BillingAssumption DEF BillingInv, Seating
  <2>2. IsFiniteSet(Roster(t)) /\ IsFiniteSet(Seating(t)) /\ Cardinality(BillingCalls) \in Nat
    BY <2>1, CallsCounted DEF SeatsKept
  <2>3. /\ Cardinality(Roster(t)) + Cardinality(S) <= Cardinality(Roster(t)) + Cardinality(Seating(t))
        /\ Cardinality(Roster(t)) \in Nat /\ Cardinality(S) \in Nat /\ Cardinality(Seating(t)) \in Nat
    BY <2>1, <2>2, FewerStill
  <2> QED
    BY <2>1, <2>2, <2>3 DEF SeatsKept
<1> QED
  BY <1>1, <1>2 DEF BillingOverruns

\* Overlapping requests alone can pass a limit, and by less than their number: a
\* coupon is redeemed by no more users than there are requests in flight at once,
\* and a team is over its seats by fewer (CouponRedemptionService.apply, add_member).
THEOREM OffersHardlyOverrun == NoticeSpec => []BillingOverruns
<1>1. NoticeInit => BillingInv
  BY BillingStart DEF NoticeInit
<1>2. BillingInv /\ [NoticeNext]_NoticeVars => BillingInv'
  <2> SUFFICES ASSUME BillingInv, [NoticeNext]_NoticeVars
               PROVE  BillingInv'
    OBVIOUS
  <2>1. BillingNext \/ UNCHANGED <<coupon, redeemed, team, seat, bill>>
                   \/ \E k \in Coupons : CreateCoupon(k)
    BY NotificationsAssumption DEF NoticeNext, NoticeVars, IssueCoupon, billing
  <2> QED
    BY <2>1, BillingStep
<1> QED
  BY <1>1, <1>2, BillsBounded, PTL DEF NoticeSpec

--------------------------------------------------------------------------------
(* The assistant's limits                                                  *)

Limited == {"prep_card", "audio_intro", "reflection"}
Span(f) == IF f = "reflection" THEN Month ELSE Day
LimitOf(f) ==
    IF f = "prep_card" THEN PrepLimit ELSE IF f = "audio_intro" THEN AudioLimit ELSE ReflectionLimit

\* The rows a limit is about: of everybody's cards, of what was not paid for.
LogOf(f, u) == IF f = "prep_card" THEN used[<<u, f>>] ELSE unpaid[<<u, f>>]

InSpan(log, span, d) == {k \in DOMAIN log : log[k] \div span = d}

\* The request c was let in under the limit of f, or may yet be, and will add to
\* its rows.
Counts(yet, c, f) == /\ c.op # "idle" /\ c.feature = f
                     /\ IF c.op = "begun" THEN yet ELSE f # "prep_card" => c.free

Adding(yet, f, u, d) ==
    {r \in AiCalls : Counts(yet, aiCall[r], f) /\ aiCall[r].user = u /\ aiCall[r].at \div Span(f) = d}

Ceiling(yet, f) == LimitOf(f) + Cardinality(AiCalls) - 1 + (IF yet THEN Cardinality(AiCalls) ELSE 0)

UnderCeiling(yet, f, u, d) ==
    Cardinality(InSpan(LogOf(f, u), Span(f), d)) + Cardinality(Adding(yet, f, u, d)) <= Ceiling(yet, f)

\* The rows of a span that is not over, with those let in; and of any, with
\* those still to be counted.
LimitKept(f, u, d) ==
    /\ d >= now \div Span(f) => UnderCeiling(FALSE, f, u, d)
    /\ UnderCeiling(TRUE, f, u, d)

\* Every row of s is one of t.
Embeds(s, t) ==
    \E e \in [DOMAIN s -> DOMAIN t] :
        /\ \A k \in DOMAIN s : t[e[k]] = s[k]
        /\ \A j, k \in DOMAIN s : e[j] = e[k] => j = k

AiCallTyped(c) ==
    c.op # "idle" => /\ c = [op |-> c.op, feature |-> c.feature, user |-> c.user, of |-> c.of, at |-> c.at,
                             free |-> c.free]
                     /\ c.op \in {"begun", "allowed", "kept"} /\ c.feature \in Features /\ c.user \in Users
                     /\ (c.op = "kept" => c.feature = "prep_card")
                     /\ c.at \in Nat /\ c.free \in BOOLEAN

AiTyped ==
    /\ now \in Nat
    /\ used \in [Users \X Features -> Seq(Nat)] /\ unpaid \in [Users \X Features -> Seq(Nat)]
    /\ aiCall = [r \in AiCalls |-> aiCall[r]] /\ \A r \in AiCalls : AiCallTyped(aiCall[r])

AiInv ==
    /\ AiTyped
    /\ \A x \in Users \X Features : Embeds(unpaid[x], used[x])
    /\ \A f \in Limited, u \in Users, d \in Int : LimitKept(f, u, d)

LEMMA WritersCounted ==
    /\ Cardinality(AiCalls) \in Nat
    /\ \A S : S \subseteq AiCalls =>
          IsFiniteSet(S) /\ Cardinality(S) \in Nat /\ Cardinality(S) <= Cardinality(AiCalls)
BY AiAssumption, FS_Subset, FS_CardinalityType

LEMMA LimitsTyped ==
    ASSUME NEW f \in Limited
    PROVE  Span(f) \in Nat \ {0} /\ LimitOf(f) \in Nat \ {0} /\ f \in Features
BY AccountsAssumption, AiAssumption DEF Span, LimitOf, Limited, Features

LEMMA SpansCounted ==
    ASSUME NEW s \in Seq(Nat), NEW span, NEW d
    PROVE  /\ IsFiniteSet(InSpan(s, span, d)) /\ Cardinality(InSpan(s, span, d)) \in Nat
           /\ \A S : S \subseteq DOMAIN s =>
                 IsFiniteSet(S) /\ Cardinality(S) \in Nat
<1>1. IsFiniteSet(1 .. Len(s)) /\ DOMAIN s = 1 .. Len(s)
  BY FS_Interval
<1>2. ASSUME NEW S, S \subseteq DOMAIN s
      PROVE  IsFiniteSet(S) /\ Cardinality(S) \in Nat
  BY <1>1, <1>2, FS_Subset, FS_CardinalityType
<1> QED
  BY <1>2 DEF InSpan

LEMMA EmbedCounts ==
    ASSUME NEW s \in Seq(Nat), NEW t \in Seq(Nat), Embeds(s, t), NEW a \in Int
    PROVE  Cardinality({k \in DOMAIN s : s[k] >= a}) <= Cardinality({k \in DOMAIN t : t[k] >= a})
<1> DEFINE S == {k \in DOMAIN s : s[k] >= a}
           T == {k \in DOMAIN t : t[k] >= a}
<1>1. PICK e \in [DOMAIN s -> DOMAIN t] :
          /\ \A k \in DOMAIN s : t[e[k]] = s[k]
          /\ \A j, k \in DOMAIN s : e[j] = e[k] => j = k
  BY DEF Embeds
<1>2. PICK g : g = [k \in S |-> e[k]]
  OBVIOUS
<1>3. g \in [S -> T]
  <2>1. \A k \in S : e[k] \in DOMAIN t /\ t[e[k]] >= a
    BY <1>1
  <2> QED
    BY <1>2, <2>1
<1>4. \A j, k \in S : g[j] = g[k] => j = k
  BY <1>1, <1>2
<1>5. g \in Injection(S, T)
  <2> HIDE DEF S, T
  <2> QED
    BY <1>3, <1>4 DEF Injection, IsInjective
<1>6. IsFiniteSet(T)
  BY SpansCounted
<1> QED
  BY <1>5, <1>6, FS_Injection

LEMMA EmbedGrows ==
    ASSUME NEW s \in Seq(Nat), NEW t \in Seq(Nat), Embeds(s, t), NEW a \in Nat
    PROVE  Embeds(s, Append(t, a)) /\ Embeds(Append(s, a), Append(t, a))
<1>1. PICK e \in [DOMAIN s -> DOMAIN t] :
          /\ \A k \in DOMAIN s : t[e[k]] = s[k]
          /\ \A j, k \in DOMAIN s : e[j] = e[k] => j = k
  BY DEF Embeds
<1>2. /\ Len(s) \in Nat /\ Len(t) \in Nat /\ DOMAIN s = 1 .. Len(s) /\ DOMAIN t = 1 .. Len(t)
      /\ DOMAIN Append(s, a) = 1 .. Len(s) + 1 /\ DOMAIN Append(t, a) = 1 .. Len(t) + 1
      /\ \A k \in 1 .. Len(s) : Append(s, a)[k] = s[k]
      /\ \A k \in 1 .. Len(t) : Append(t, a)[k] = t[k]
      /\ Append(s, a)[Len(s) + 1] = a /\ Append(t, a)[Len(t) + 1] = a
  OBVIOUS
<1>3. PICK s2, t2, m, n : s2 = Append(s, a) /\ t2 = Append(t, a) /\ m = Len(s) /\ n = Len(t)
  OBVIOUS
<1>4. Embeds(s, t2)
  <2>1. e \in [DOMAIN s -> DOMAIN t2]
    BY <1>1, <1>2, <1>3
  <2>2. \A k \in DOMAIN s : t2[e[k]] = s[k]
    BY <1>1, <1>2, <1>3
  <2> QED
    BY <1>1, <2>1, <2>2 DEF Embeds
<1>5. Embeds(s2, t2)
  <2>1. PICK g : g = [k \in 1 .. m + 1 |-> IF k = m + 1 THEN n + 1 ELSE e[k]]
    OBVIOUS
  <2>2. \A k \in 1 .. m + 1 : k = m + 1 \/ (k \in 1 .. m /\ e[k] \in 1 .. n)
    BY <1>1, <1>2, <1>3
  <2>3. g \in [1 .. m + 1 -> 1 .. n + 1]
    BY <2>1, <2>2, <1>2, <1>3
  <2>4. \A k \in 1 .. m + 1 : t2[g[k]] = s2[k]
    <3> TAKE k \in 1 .. m + 1
    <3>1. CASE k = m + 1
      BY <3>1, <2>1, <1>2, <1>3
    <3>2. CASE k # m + 1
      BY <3>2, <2>1, <2>2, <1>1, <1>2, <1>3
    <3> QED
      BY <3>1, <3>2
  <2>5. \A j, k \in 1 .. m + 1 : g[j] = g[k] => j = k
    <3> SUFFICES ASSUME NEW j \in 1 .. m + 1, NEW k \in 1 .. m + 1, g[j] = g[k]
                 PROVE  j = k
      OBVIOUS
    <3>1. \A i \in 1 .. m + 1 : g[i] = n + 1 <=> i = m + 1
      BY <2>1, <2>2, <1>2, <1>3
    <3>2. CASE j = m + 1 \/ k = m + 1
      BY <3>1, <3>2
    <3>3. CASE j # m + 1 /\ k # m + 1
      BY <3>3, <2>1, <2>2, <1>1, <1>2, <1>3
    <3> QED
      BY <3>2, <3>3
  <2>6. DOMAIN s2 = 1 .. m + 1 /\ DOMAIN t2 = 1 .. n + 1
    BY <1>2, <1>3
  <2>7. /\ g \in [DOMAIN s2 -> DOMAIN t2]
        /\ \A k \in DOMAIN s2 : t2[g[k]] = s2[k]
        /\ \A j, k \in DOMAIN s2 : g[j] = g[k] => j = k
    BY <2>3, <2>4, <2>5, <2>6
  <2> QED
    BY <2>7 DEF Embeds
<1> QED
  BY <1>3, <1>4, <1>5

\* A row that is not older than the start of the span, count_since counts.
LEMMA SinceTheStart ==
    ASSUME NEW span \in Nat \ {0}, NEW a \in Nat, NEW b \in Nat, a \div span >= b \div span
    PROVE  a >= b - (b % span)
<1>1. PICK q \in Nat, m \in Nat : q = b \div span /\ m = b % span
  BY SMT
<1>2. b = span * q + m
  BY <1>1, SMT
<1>3. a >= span * (a \div span)
  BY SMT
<1>4. a >= span * q
  <2>1. PICK p \in Nat : p = a \div span
    BY SMT
  <2>2. p >= q /\ a >= span * p
    BY <1>1, <1>3, <2>1
  <2>3. span * p >= span * q
    BY <2>2, SMT
  <2>4. PICK y \in Nat, z \in Nat : y = span * q /\ z = span * p
    BY SMT
  <2> QED
    BY <2>2, <2>3, <2>4
<1>5. PICK y \in Nat : y = span * q
  BY SMT
<1> QED
  BY <1>1, <1>2, <1>4, <1>5

LEMMA SpansPass ==
    ASSUME NEW f \in Limited, NEW d \in Int, now \in Nat, now' \in Nat, now' >= now
    PROVE  d >= (now \div Span(f))' => d >= now \div Span(f)
<1>1. PICK span \in Nat \ {0}, a \in Nat, b \in Nat : span = Span(f) /\ a = now /\ b = now' /\ b >= a
  BY LimitsTyped
<1>2. (now \div Span(f))' = b \div span
  BY <1>1 DEF Span
<1>3. PICK p \in Nat, q \in Nat : p = a \div span /\ q = b \div span
  BY SMT
<1>4. a >= span * p /\ b < span * (q + 1)
  BY <1>3, SMT
<1>5. p <= q
  <2> SUFFICES ASSUME p >= q + 1
               PROVE  FALSE
    OBVIOUS
  <2>1. span * p >= span * (q + 1)
    BY SMT
  <2>2. PICK y \in Nat, z \in Nat : y = span * p /\ z = span * (q + 1)
    BY SMT
  <2> QED
    BY <1>1, <1>4, <2>1, <2>2
<1> QED
  BY <1>1, <1>2, <1>3, <1>5

LEMMA SpanNumbered ==
    ASSUME NEW a \in Nat, NEW span \in Nat \ {0}
    PROVE  a \div span \in Int
BY SMT

LEMMA OneRowMore ==
    ASSUME NEW s \in Seq(Nat), NEW a \in Nat
    PROVE  Append(s, a) \in Seq(Nat)
OBVIOUS

LEMMA AssistantStart ==
    ASSUME ClockInit, AssistantInit
    PROVE  AiInv
<1>1. AiTyped
  <2>1. used = [x \in Users \X Features |-> <<>>] /\ unpaid = used /\ <<>> \in Seq(Nat)
    BY DEF AssistantInit
  <2>2. used \in [Users \X Features -> Seq(Nat)] /\ unpaid \in [Users \X Features -> Seq(Nat)]
    BY <2>1
  <2>3. now \in Nat /\ aiCall = [r \in AiCalls |-> aiCall[r]] /\ \A r \in AiCalls : AiCallTyped(aiCall[r])
    BY DEF ClockInit, AssistantInit, AiCallTyped, AiIdle
  <2> QED
    BY <2>2, <2>3 DEF AiTyped
<1>2. ASSUME NEW x \in Users \X Features
      PROVE  Embeds(unpaid[x], used[x])
  <2>1. unpaid[x] = <<>> /\ used[x] = <<>>
    BY DEF AssistantInit
  <2>2. PICK e : e = [k \in {} |-> k]
    OBVIOUS
  <2>3. PICK s : s = <<>> /\ DOMAIN s = {}
    OBVIOUS
  <2>4. e \in [{} -> {}]
    BY <2>2
  <2>5. Embeds(s, s)
    BY <2>3, <2>4 DEF Embeds
  <2> QED
    BY <2>1, <2>3, <2>5
<1>3. ASSUME NEW f \in Limited, NEW u \in Users, NEW d \in Int
      PROVE  LimitKept(f, u, d)
  <2>1. LogOf(f, u) = <<>>
    BY LimitsTyped DEF AssistantInit, LogOf
  <2>2. InSpan(LogOf(f, u), Span(f), d) = {}
    BY <2>1 DEF InSpan
  <2>3. \A yet \in BOOLEAN : Adding(yet, f, u, d) = {}
    BY DEF Adding, Counts, AssistantInit, AiIdle
  <2>4. Cardinality({}) = 0
    BY FS_EmptySet
  <2>5. ASSUME NEW yet \in BOOLEAN
        PROVE  UnderCeiling(yet, f, u, d)
    <3>1. Ceiling(yet, f) \in Int /\ Ceiling(yet, f) >= 0
      BY LimitsTyped, WritersCounted DEF Ceiling
    <3>2. Adding(yet, f, u, d) = {}
      BY <2>3, Zenon
    <3> QED
      BY <2>2, <2>4, <3>1, <3>2 DEF UnderCeiling
  <2> QED
    BY <2>5, Zenon DEF LimitKept
<1> QED
  BY <1>1, <1>2, <1>3 DEF AiInv

LEMMA CeilingsTyped ==
    ASSUME NEW f \in Limited, NEW yet \in BOOLEAN
    PROVE  Ceiling(yet, f) \in Int /\ Ceiling(yet, f)' = Ceiling(yet, f)
BY LimitsTyped, WritersCounted DEF Ceiling, LimitOf

\* Fewer requests, the same rows.
LEMMA StaysWithin ==
    ASSUME NEW f \in Limited, NEW yet \in BOOLEAN, NEW u, NEW d, UnderCeiling(yet, f, u, d), LogOf(f, u) \in Seq(Nat),
           LogOf(f, u)' = LogOf(f, u), Adding(yet, f, u, d)' \subseteq Adding(yet, f, u, d)
    PROVE  UnderCeiling(yet, f, u, d)'
<1>1. Adding(yet, f, u, d) \subseteq AiCalls
  BY DEF Adding
<1>2. /\ Cardinality(Adding(yet, f, u, d)') <= Cardinality(Adding(yet, f, u, d))
      /\ Cardinality(Adding(yet, f, u, d)') \in Nat /\ Cardinality(Adding(yet, f, u, d)) \in Nat
  BY <1>1, WritersCounted, FS_Subset
<1>3. PICK S : S = InSpan(LogOf(f, u), Span(f), d)
  OBVIOUS
<1>4. InSpan(LogOf(f, u), Span(f), d)' = S /\ Cardinality(S) \in Nat
  BY <1>3, SpansCounted DEF InSpan, Span
<1>5. PICK n, m, c : /\ n = Cardinality(Adding(yet, f, u, d)) /\ m = Cardinality(Adding(yet, f, u, d)')
                     /\ c = Ceiling(yet, f)
  OBVIOUS
<1>6. c \in Int /\ Ceiling(yet, f)' = c
  BY <1>5, CeilingsTyped
<1>7. Cardinality(S) + n <= c
  BY <1>3, <1>5 DEF UnderCeiling
<1>8. Cardinality(S) + m <= c
  BY <1>2, <1>4, <1>5, <1>6, <1>7
<1> QED
  BY <1>4, <1>5, <1>6, <1>8 DEF UnderCeiling

\* The clock does not go back, so that a span that is not over was not.
LEMMA LimitStays ==
    ASSUME NEW f \in Limited, NEW u, NEW d \in Int, LimitKept(f, u, d), LogOf(f, u) \in Seq(Nat),
           now \in Nat, now' \in Nat, now' >= now,
           LogOf(f, u)' = LogOf(f, u), \A yet \in BOOLEAN : Adding(yet, f, u, d)' \subseteq Adding(yet, f, u, d)
    PROVE  LimitKept(f, u, d)'
<1>1. d >= (now \div Span(f))' => d >= now \div Span(f)
  BY SpansPass
<1>2. \A yet \in BOOLEAN : UnderCeiling(yet, f, u, d) => UnderCeiling(yet, f, u, d)'
  BY StaysWithin
<1> QED
  BY <1>1, <1>2 DEF LimitKept

LEMMA LogsTyped ==
    ASSUME AiTyped, NEW f \in Limited, NEW u \in Users
    PROVE  LogOf(f, u) \in Seq(Nat)
BY LimitsTyped DEF AiTyped, LogOf

Goes(r, c) ==
    /\ c = aiCall'[r]
    /\ aiCall' = [q \in AiCalls |-> IF q = r THEN c ELSE aiCall[q]]

LEMMA WritersMove ==
    ASSUME NEW r \in AiCalls, NEW c, Goes(r, c), NEW yet \in BOOLEAN, NEW f, NEW u, NEW d
    PROVE  /\ Adding(yet, f, u, d)' \subseteq Adding(yet, f, u, d) \cup {r}
           /\ ~(Counts(yet, c, f) /\ c.user = u /\ c.at \div Span(f) = d) =>
                 Adding(yet, f, u, d)' \subseteq Adding(yet, f, u, d) \ {r}
<1>1. \A q \in AiCalls : aiCall'[q] = IF q = r THEN c ELSE aiCall[q]
  BY DEF Goes
<1> QED
  BY <1>1 DEF Adding, Counts, Span

LEMMA AiCallsTyped ==
    ASSUME AiTyped, NEW r \in AiCalls, NEW c, Goes(r, c), AiCallTyped(c), now' = now,
           used' \in [Users \X Features -> Seq(Nat)], unpaid' \in [Users \X Features -> Seq(Nat)]
    PROVE  AiTyped'
<1>1. \A q \in AiCalls : aiCall'[q] = IF q = r THEN c ELSE aiCall[q]
  BY DEF Goes
<1>2. aiCall' = [q \in AiCalls |-> aiCall'[q]]
  BY DEF Goes
<1> QED
  BY <1>1, <1>2 DEF AiTyped, AiCallTyped

\* A request begins: those in flight are no more than may be.
LEMMA AskKeeps ==
    ASSUME AiInv, NEW r \in AiCalls, NEW op \in {"begun", "allowed"}, NEW g \in Features, NEW u \in Users, NEW what,
           Ask(r, op, g, u, what), op = "allowed" => g \notin Limited
    PROVE  AiInv'
<1>1. PICK c : /\ c = [op |-> op, feature |-> g, user |-> u, of |-> what, at |-> now, free |-> ~pro[u].is]
               /\ aiCall' = [aiCall EXCEPT ![r] = c]
  BY DEF Ask
<1>2. UNCHANGED <<now, used, unpaid>> /\ Goes(r, c)
  BY <1>1 DEF Ask, Goes, AiInv, AiTyped
<1>3. /\ c.op = op /\ c.feature = g /\ c.user = u /\ c.at = now /\ c.free \in BOOLEAN
      /\ c = [op |-> c.op, feature |-> c.feature, user |-> c.user, of |-> c.of, at |-> c.at, free |-> c.free]
  BY <1>1
<1>4. AiTyped'
  BY <1>2, <1>3, AiCallsTyped DEF AiInv, AiTyped, AiCallTyped
<1>5. ASSUME NEW f \in Limited, NEW v \in Users, NEW d \in Int
      PROVE  LimitKept(f, v, d)'
  <2>1. /\ LimitKept(f, v, d) /\ LogOf(f, v) \in Seq(Nat) /\ LogOf(f, v)' = LogOf(f, v)
        /\ now \in Nat /\ now' = now
    BY <1>2, LogsTyped DEF AiInv, AiTyped, LogOf
  <2>2. d >= now \div Span(f) => UnderCeiling(FALSE, f, v, d)'
    <3>1. ~Counts(FALSE, c, f)
      BY <1>3 DEF Counts
    <3>2. Adding(FALSE, f, v, d)' \subseteq Adding(FALSE, f, v, d)
      BY <3>1, <1>2, WritersMove
    <3> QED
      BY <2>1, <3>2, StaysWithin DEF LimitKept
  <2>3. CASE ~(Counts(TRUE, c, f) /\ v = u /\ now \div Span(f) = d)
    <3>1. Adding(TRUE, f, v, d)' \subseteq Adding(TRUE, f, v, d)
      BY <2>3, <1>2, <1>3, WritersMove
    <3>2. UnderCeiling(TRUE, f, v, d)'
      BY <2>1, <3>1, StaysWithin DEF LimitKept
    <3> QED
      BY <2>1, <2>2, <3>2 DEF LimitKept, Span
  <2>4. CASE now \div Span(f) = d
    <3>1. PICK S, n, m : /\ S = InSpan(LogOf(f, v), Span(f), d) /\ n = Cardinality(Adding(FALSE, f, v, d))
                         /\ m = Cardinality(Adding(TRUE, f, v, d)')
      OBVIOUS
    <3>2. Adding(FALSE, f, v, d) \subseteq AiCalls /\ Adding(TRUE, f, v, d)' \subseteq AiCalls
      BY DEF Adding
    <3>3. n \in Nat /\ m \in Nat /\ m <= Cardinality(AiCalls) /\ Cardinality(AiCalls) \in Nat /\ Cardinality(S) \in Nat
      BY <2>1, <3>1, <3>2, WritersCounted, SpansCounted
    <3>4. Cardinality(S) + n <= Ceiling(FALSE, f)
      <4>1. d >= now \div Span(f)
        BY <2>4
      <4>2. UnderCeiling(FALSE, f, v, d)
        BY <2>1, <4>1, Zenon DEF LimitKept
      <4> QED
        BY <3>1, <4>2, Zenon DEF UnderCeiling
    <3>5. Cardinality(S) + m <= Ceiling(TRUE, f)
      BY <3>3, <3>4, LimitsTyped DEF Ceiling
    <3>6. InSpan(LogOf(f, v), Span(f), d)' = S
      BY <2>1, <3>1 DEF InSpan, Span
    <3>7. UnderCeiling(TRUE, f, v, d)'
      BY <3>1, <3>5, <3>6, CeilingsTyped DEF UnderCeiling
    <3> QED
      BY <2>1, <2>2, <3>7 DEF LimitKept, Span
  <2> QED
    BY <2>3, <2>4
<1> QED
  BY <1>2, <1>4, <1>5 DEF AiInv

\* The rows of a span that is not over are counted from its start.
LEMMA RowsCounted ==
    ASSUME AiInv, NEW f \in Limited, NEW u \in Users, NEW d \in Int, d >= now \div Span(f),
           NEW start, start = now - (now % Span(f)), CountSince(u, f, start) < LimitOf(f)
    PROVE  /\ Cardinality(InSpan(LogOf(f, u), Span(f), d)) \in Nat
           /\ Cardinality(InSpan(LogOf(f, u), Span(f), d)) < LimitOf(f)
<1>1. PICK span, log, S : span = Span(f) /\ log = LogOf(f, u) /\ S = InSpan(log, span, d)
  OBVIOUS
<1>2. /\ now \in Nat /\ span \in Nat \ {0} /\ start \in Int /\ log \in Seq(Nat) /\ <<u, f>> \in Users \X Features
      /\ used[<<u, f>>] \in Seq(Nat) /\ unpaid[<<u, f>>] \in Seq(Nat) /\ Embeds(unpaid[<<u, f>>], used[<<u, f>>])
      /\ LimitOf(f) \in Nat
  <2>1. now \in Nat /\ span \in Nat \ {0} /\ f \in Features /\ LimitOf(f) \in Nat
    BY <1>1, LimitsTyped DEF AiInv, AiTyped
  <2>2. now % span \in Nat
    BY <2>1, SMT
  <2> QED
    BY <1>1, <2>1, <2>2, LogsTyped DEF AiInv, AiTyped
<1>3. S \subseteq {k \in DOMAIN log : log[k] >= start}
  <2> SUFFICES ASSUME NEW k \in S
               PROVE  k \in DOMAIN log /\ log[k] >= start
    OBVIOUS
  <2>1. k \in DOMAIN log /\ log[k] \in Nat /\ log[k] \div span = d
    BY <1>1, <1>2 DEF InSpan
  <2>2. log[k] \div span >= now \div span
    BY <1>1, <2>1
  <2> QED
    BY <2>1, <2>2, <1>1, <1>2, SinceTheStart
<1>4. Cardinality({k \in DOMAIN log : log[k] >= start}) <= CountSince(u, f, start)
  <2>1. CASE log = used[<<u, f>>]
    <3>1. CountSince(u, f, start) = Cardinality({k \in DOMAIN log : log[k] >= start})
      BY <2>1 DEF CountSince
    <3>2. Cardinality({k \in DOMAIN log : log[k] >= start}) \in Nat
      BY <1>2, SpansCounted
    <3> QED
      BY <3>1, <3>2
  <2>2. CASE log = unpaid[<<u, f>>]
    BY <2>2, <1>2, EmbedCounts DEF CountSince
  <2> QED
    BY <1>1, <2>1, <2>2 DEF LogOf
<1>5. IsFiniteSet({k \in DOMAIN log : log[k] >= start}) /\ Cardinality({k \in DOMAIN log : log[k] >= start}) \in Nat
  BY <1>2, SpansCounted
<1>6. Cardinality(S) <= Cardinality({k \in DOMAIN log : log[k] >= start})
  BY <1>3, <1>5, FS_Subset
<1>7. CountSince(u, f, start) \in Nat
  BY <1>2, SpansCounted DEF CountSince
<1>8. Cardinality(S) \in Nat
  BY <1>1, <1>2, SpansCounted
<1>9. Cardinality(S) < LimitOf(f)
  BY <1>2, <1>4, <1>5, <1>6, <1>7, <1>8
<1> QED
  BY <1>1, <1>8, <1>9

\* A request that is let in finds fewer rows than the limit.
LEMMA LetInKeeps ==
    ASSUME AiInv, NEW r \in AiCalls, NEW g \in Limited, NEW free \in BOOLEAN, LetIn(r, g, free),
           (g # "prep_card" => free) => CountSince(aiCall[r].user, g, now - (now % Span(g))) < LimitOf(g)
    PROVE  AiInv'
<1>1. PICK c, u : /\ c = [aiCall[r] EXCEPT !.op = "allowed", !.free = free] /\ u = aiCall[r].user
                  /\ aiCall[r].op = "begun" /\ aiCall[r].feature = g
                  /\ UNCHANGED <<now, used, unpaid>>
  BY DEF LetIn
<1>2. PICK x : /\ x = aiCall[r] /\ u \in Users /\ x.at \in Nat
               /\ x = [op |-> x.op, feature |-> x.feature, user |-> x.user, of |-> x.of, at |-> x.at, free |-> x.free]
  BY <1>1 DEF AiInv, AiTyped, AiCallTyped
<1>3. /\ c = [op |-> c.op, feature |-> c.feature, user |-> c.user, of |-> c.of, at |-> c.at, free |-> c.free]
      /\ c.op = "allowed" /\ c.feature = g /\ c.user = u /\ c.at = x.at /\ c.free = free
  BY <1>1, <1>2
<1>4. aiCall' = [aiCall EXCEPT ![r] = c]
  BY <1>1, <1>2 DEF LetIn, AiInv, AiTyped
<1>5. Goes(r, c)
  BY <1>4 DEF Goes, AiInv, AiTyped
<1>6. AiTyped'
  BY <1>1, <1>2, <1>3, <1>5, LimitsTyped, AiCallsTyped DEF AiInv, AiTyped, AiCallTyped
<1>7. ASSUME NEW f \in Limited, NEW v \in Users, NEW d \in Int
      PROVE  LimitKept(f, v, d)'
  <2>1. /\ LimitKept(f, v, d) /\ LogOf(f, v) \in Seq(Nat) /\ LogOf(f, v)' = LogOf(f, v)
        /\ now \in Nat /\ now' = now
    BY <1>1, LogsTyped DEF AiInv, AiTyped, LogOf
  <2>2. UnderCeiling(TRUE, f, v, d)'
    <3>1. Counts(TRUE, c, f) /\ c.user = v /\ c.at \div Span(f) = d => r \in Adding(TRUE, f, v, d)
      <4>1. Counts(TRUE, c, f) => Counts(TRUE, x, f)
        <5>1. x.op = "begun" /\ x.op # "idle" /\ x.feature = g
          BY <1>1, <1>2
        <5>2. Counts(TRUE, c, f) => f = g
          BY <1>3, Zenon DEF Counts
        <5> QED
          BY <5>1, <5>2, Zenon DEF Counts
      <4>2. c.user = x.user /\ c.at = x.at
        BY <1>1, <1>2, <1>3
      <4>3. ASSUME Counts(TRUE, c, f), c.user = v, c.at \div Span(f) = d
            PROVE  r \in Adding(TRUE, f, v, d)
        <5>1. Counts(TRUE, aiCall[r], f)
          BY <4>1, <4>3, <1>2
        <5>2. aiCall[r].user = v /\ aiCall[r].at \div Span(f) = d
          BY <4>2, <4>3, <1>2
        <5> QED
          BY <5>1, <5>2, Zenon DEF Adding
      <4> QED
        BY <4>3
    <3>2. Adding(TRUE, f, v, d)' \subseteq Adding(TRUE, f, v, d)
      <4>1. PICK yet \in BOOLEAN : yet = TRUE
        OBVIOUS
      <4>2. /\ Adding(yet, f, v, d)' \subseteq Adding(yet, f, v, d) \cup {r}
            /\ ~(Counts(yet, c, f) /\ c.user = v /\ c.at \div Span(f) = d) =>
                  Adding(yet, f, v, d)' \subseteq Adding(yet, f, v, d) \ {r}
        BY <1>5, WritersMove
      <4>3. CASE Counts(yet, c, f) /\ c.user = v /\ c.at \div Span(f) = d
        <5>1. r \in Adding(yet, f, v, d)
          BY <3>1, <4>1, <4>3
        <5>2. Adding(yet, f, v, d)' \subseteq Adding(yet, f, v, d)
          BY <4>2, <5>1
        <5> QED
          BY <4>1, <5>2
      <4>4. CASE ~(Counts(yet, c, f) /\ c.user = v /\ c.at \div Span(f) = d)
        <5>1. Adding(yet, f, v, d)' \subseteq Adding(yet, f, v, d)
          BY <4>2, <4>4
        <5> QED
          BY <4>1, <5>1
      <4> QED
        BY <4>3, <4>4
    <3> QED
      BY <2>1, <3>2, StaysWithin DEF LimitKept
  <2>3. ASSUME d >= now \div Span(f)
        PROVE  UnderCeiling(FALSE, f, v, d)'
    <3>1. CASE ~(Counts(FALSE, c, f) /\ c.user = v /\ c.at \div Span(f) = d)
      <4>1. Adding(FALSE, f, v, d)' \subseteq Adding(FALSE, f, v, d)
        BY <3>1, <1>5, WritersMove
      <4> QED
        BY <2>1, <2>3, <4>1, StaysWithin DEF LimitKept
    <3>2. CASE Counts(FALSE, c, f) /\ c.user = v
      <4>1. f = g /\ v = u /\ (g # "prep_card" => free)
        BY <3>2, <1>3 DEF Counts
      <4>2. PICK S, m : S = InSpan(LogOf(f, v), Span(f), d) /\ m = Cardinality(Adding(FALSE, f, v, d)')
        OBVIOUS
      <4>3. Cardinality(S) \in Nat /\ Cardinality(S) < LimitOf(f)
        BY <1>1, <2>3, <4>1, <4>2, RowsCounted
      <4>4. Adding(FALSE, f, v, d)' \subseteq AiCalls
        BY DEF Adding
      <4>5. m \in Nat /\ m <= Cardinality(AiCalls) /\ Cardinality(AiCalls) \in Nat /\ LimitOf(f) \in Nat
        BY <4>2, <4>4, WritersCounted, LimitsTyped
      <4>6. Cardinality(S) + m <= Ceiling(FALSE, f)
        BY <4>3, <4>5 DEF Ceiling
      <4>7. InSpan(LogOf(f, v), Span(f), d)' = S
        BY <2>1, <4>2 DEF InSpan, Span
      <4> QED
        BY <4>2, <4>6, <4>7, CeilingsTyped DEF UnderCeiling
    <3> QED
      BY <3>1, <3>2
  <2> QED
    BY <2>1, <2>2, <2>3 DEF LimitKept, Span
<1> QED
  BY <1>1, <1>6, <1>7 DEF AiInv

\* A request ends without a row.
LEMMA AiLostKeeps ==
    ASSUME AiInv, NEW r \in AiCalls, AiLost(r)
    PROVE  AiInv'
<1>1. aiCall' = [aiCall EXCEPT ![r] = AiIdle] /\ UNCHANGED <<now, used, unpaid>>
  BY DEF AiLost
<1>2. Goes(r, AiIdle) /\ AiIdle.op = "idle"
  BY <1>1 DEF Goes, AiInv, AiTyped, AiIdle
<1>3. AiTyped'
  BY <1>1, <1>2, AiCallsTyped DEF AiInv, AiTyped, AiCallTyped
<1>4. ASSUME NEW f \in Limited, NEW v \in Users, NEW d \in Int
      PROVE  LimitKept(f, v, d)'
  <2>1. \A yet \in BOOLEAN : ~Counts(yet, AiIdle, f)
    BY <1>2 DEF Counts
  <2>2. \A yet \in BOOLEAN : Adding(yet, f, v, d)' \subseteq Adding(yet, f, v, d)
    BY <1>2, <2>1, WritersMove
  <2>3. LogOf(f, v) \in Seq(Nat) /\ LogOf(f, v)' = LogOf(f, v) /\ now \in Nat /\ now' = now
    BY <1>1, LogsTyped DEF AiInv, AiTyped, LogOf
  <2> QED
    BY <2>2, <2>3, LimitStays DEF AiInv
<1> QED
  BY <1>1, <1>3, <1>4 DEF AiInv

LEMMA CardKeptKeeps ==
    ASSUME AiInv, NEW r \in AiCalls, PrepGenerated(r)
    PROVE  AiInv'
<1>1. PICK c : c = [aiCall[r] EXCEPT !.op = "kept"] /\ aiCall' = [aiCall EXCEPT ![r] = c]
  BY DEF PrepGenerated
<1>2. /\ aiCall[r].op = "allowed" /\ aiCall[r].feature = "prep_card" /\ UNCHANGED <<now, used, unpaid>>
      /\ Goes(r, c)
  BY <1>1 DEF PrepGenerated, Goes, AiInv, AiTyped
<1>3. PICK x : /\ x = aiCall[r] /\ x.user \in Users /\ x.at \in Nat /\ x.free \in BOOLEAN
               /\ x = [op |-> x.op, feature |-> x.feature, user |-> x.user, of |-> x.of, at |-> x.at, free |-> x.free]
  BY <1>2 DEF AiInv, AiTyped, AiCallTyped
<1>4. /\ c.op = "kept" /\ c.feature = "prep_card" /\ c.user = x.user /\ c.at = x.at /\ c.free = x.free
      /\ c = [op |-> c.op, feature |-> c.feature, user |-> c.user, of |-> c.of, at |-> c.at, free |-> c.free]
  BY <1>1, <1>2, <1>3
<1>5. AiTyped'
  BY <1>2, <1>3, <1>4, AiCallsTyped DEF AiInv, AiTyped, AiCallTyped, Features
<1>6. ASSUME NEW f \in Limited, NEW v \in Users, NEW d \in Int
      PROVE  LimitKept(f, v, d)'
  <2>1. ASSUME NEW yet \in BOOLEAN
        PROVE  Adding(yet, f, v, d)' \subseteq Adding(yet, f, v, d)
    <3>1. Counts(yet, c, f) /\ c.user = v /\ c.at \div Span(f) = d => r \in Adding(yet, f, v, d)
      BY <1>2, <1>3, <1>4 DEF Adding, Counts
    <3> QED
      BY <3>1, <1>2, WritersMove
  <2>2. LogOf(f, v) \in Seq(Nat) /\ LogOf(f, v)' = LogOf(f, v) /\ now \in Nat /\ now' = now
    BY <1>2, LogsTyped DEF AiInv, AiTyped, LogOf
  <2> QED
    BY <2>1, <2>2, LimitStays DEF AiInv
<1> QED
  BY <1>2, <1>5, <1>6 DEF AiInv

\* One row more, of the request that writes it no more.
LEMMA RowTakesPlace ==
    ASSUME NEW f \in Limited, NEW yet \in BOOLEAN, NEW u, NEW d, UnderCeiling(yet, f, u, d), NEW log \in Seq(Nat), log = LogOf(f, u),
           NEW a \in Nat, LogOf(f, u)' = Append(log, a), a \div Span(f) \in Int,
           NEW r \in AiCalls, Adding(yet, f, u, d)' \subseteq Adding(yet, f, u, d) \ {r},
           a \div Span(f) = d => r \in Adding(yet, f, u, d)
    PROVE  UnderCeiling(yet, f, u, d)'
<1>1. PICK s, S, S2 : s = Append(log, a) /\ S = InSpan(log, Span(f), d) /\ S2 = InSpan(s, Span(f), d)
  OBVIOUS
<1>2. /\ DOMAIN log = 1 .. Len(log) /\ Len(log) \in Nat /\ DOMAIN s = 1 .. Len(log) + 1
      /\ s[Len(log) + 1] = a /\ \A k \in 1 .. Len(log) : s[k] = log[k]
      /\ s \in Seq(Nat)
  BY <1>1
<1>3. IsFiniteSet(S) /\ Cardinality(S) \in Nat /\ Cardinality(S2) \in Nat
  BY <1>1, <1>2, SpansCounted
<1>4. /\ Adding(yet, f, u, d) \subseteq AiCalls /\ IsFiniteSet(Adding(yet, f, u, d))
      /\ Cardinality(Adding(yet, f, u, d)) \in Nat /\ Cardinality(Adding(yet, f, u, d)') \in Nat
      /\ Cardinality(AiCalls) \in Nat
  <2>1. Adding(yet, f, u, d) \subseteq AiCalls /\ Adding(yet, f, u, d)' \subseteq AiCalls
    BY DEF Adding
  <2> QED
    BY <2>1, WritersCounted
<1>5. Cardinality(S2) + Cardinality(Adding(yet, f, u, d)') <= Cardinality(S) + Cardinality(Adding(yet, f, u, d))
  <2>1. CASE a \div Span(f) = d
    <3>1. S2 \in SUBSET (S \cup {Len(log) + 1})
      BY <1>1, <1>2 DEF InSpan
    <3>2. /\ Cardinality(S2) + Cardinality(Adding(yet, f, u, d) \ {r}) <= Cardinality(S) + Cardinality(Adding(yet, f, u, d))
          /\ IsFiniteSet(Adding(yet, f, u, d) \ {r})
      BY <2>1, <3>1, <1>3, <1>4, TakenOrDropped
    <3>3. /\ Cardinality(Adding(yet, f, u, d)') <= Cardinality(Adding(yet, f, u, d) \ {r})
          /\ Cardinality(Adding(yet, f, u, d) \ {r}) \in Nat
      BY <3>2, FS_Subset, FS_CardinalityType
    <3> QED
      BY <3>2, <3>3, <1>3, <1>4
  <2>2. CASE a \div Span(f) # d
    <3>1. S2 \in SUBSET S /\ Adding(yet, f, u, d)' \in SUBSET Adding(yet, f, u, d)
      BY <2>2, <1>1, <1>2 DEF InSpan
    <3> QED
      BY <3>1, <1>3, <1>4, FewerStill
  <2> QED
    BY <2>1, <2>2
<1>6. InSpan(LogOf(f, u), Span(f), d)' = S2
  BY <1>1 DEF InSpan, Span
<1>7. PICK n, m, c : /\ n = Cardinality(Adding(yet, f, u, d)) /\ m = Cardinality(Adding(yet, f, u, d)')
                     /\ c = Ceiling(yet, f)
  OBVIOUS
<1>8. c \in Int /\ Ceiling(yet, f)' = c
  BY <1>7, CeilingsTyped
<1>9. Cardinality(S) + n <= c
  BY <1>1, <1>7 DEF UnderCeiling
<1>10. Cardinality(S2) + m <= c
  BY <1>3, <1>4, <1>5, <1>7, <1>8, <1>9
<1> QED
  BY <1>6, <1>7, <1>8, <1>10 DEF UnderCeiling

LEMMA RecordedKeeps ==
    ASSUME AiInv, NEW r \in AiCalls, Recorded(r), aiCall[r].op \in {"allowed", "kept"}
    PROVE  AiInv'
<1>1. PICK u, g, t, x, free : /\ u = aiCall[r].user /\ g = aiCall[r].feature /\ t = aiCall[r].at
                              /\ x = <<u, g>> /\ free = aiCall[r].free
  OBVIOUS
<1>2. u \in Users /\ g \in Features /\ t \in Nat /\ free \in BOOLEAN /\ x \in Users \X Features
  BY <1>1 DEF AiInv, AiTyped, AiCallTyped, Features
<1>3. /\ used' = [used EXCEPT ![x] = Append(@, t)]
      /\ unpaid' = IF free THEN [unpaid EXCEPT ![x] = Append(@, t)] ELSE unpaid
      /\ aiCall' = [aiCall EXCEPT ![r] = AiIdle] /\ now' = now
  BY <1>1 DEF Recorded
<1>4. Goes(r, AiIdle) /\ AiIdle.op = "idle"
  BY <1>3 DEF Goes, AiInv, AiTyped, AiIdle
<1>5. /\ used \in [Users \X Features -> Seq(Nat)] /\ unpaid \in [Users \X Features -> Seq(Nat)]
      /\ used[x] \in Seq(Nat) /\ unpaid[x] \in Seq(Nat)
      /\ Append(used[x], t) \in Seq(Nat) /\ Append(unpaid[x], t) \in Seq(Nat)
  <2>1. used \in [Users \X Features -> Seq(Nat)] /\ unpaid \in [Users \X Features -> Seq(Nat)]
    BY DEF AiInv, AiTyped
  <2>2. used[x] \in Seq(Nat) /\ unpaid[x] \in Seq(Nat)
    BY <1>2, <2>1
  <2>3. PICK s \in Seq(Nat), s2 \in Seq(Nat) : s = used[x] /\ s2 = unpaid[x]
    BY <2>2
  <2>4. Append(s, t) \in Seq(Nat) /\ Append(s2, t) \in Seq(Nat)
    BY <1>2, OneRowMore
  <2> QED
    BY <2>1, <2>3, <2>4
<1>6. used' \in [Users \X Features -> Seq(Nat)] /\ unpaid' \in [Users \X Features -> Seq(Nat)]
  BY <1>2, <1>3, <1>5
<1>7. /\ \A y \in Users \X Features : used'[y] = IF y = x THEN Append(used[x], t) ELSE used[y]
      /\ \A y \in Users \X Features :
             unpaid'[y] = IF y = x /\ free THEN Append(unpaid[x], t) ELSE unpaid[y]
  BY <1>2, <1>3, <1>5
<1>8. AiTyped'
  BY <1>3, <1>4, <1>6, AiCallsTyped DEF AiInv, AiCallTyped
<1>9. ASSUME NEW y \in Users \X Features
      PROVE  Embeds(unpaid'[y], used'[y])
  <2>1. Embeds(unpaid[y], used[y])
    BY DEF AiInv
  <2>2. CASE y = x
    <3>1. Embeds(unpaid[x], Append(used[x], t)) /\ Embeds(Append(unpaid[x], t), Append(used[x], t))
      BY <1>2, <1>5, <2>1, <2>2, EmbedGrows
    <3> QED
      BY <1>7, <2>2, <3>1
  <2>3. CASE y # x
    BY <1>7, <2>1, <2>3
  <2> QED
    BY <2>2, <2>3
<1>10. ASSUME NEW f \in Limited, NEW v \in Users, NEW d \in Int
       PROVE  LimitKept(f, v, d)'
  <2>1. /\ LimitKept(f, v, d) /\ LogOf(f, v) \in Seq(Nat) /\ f \in Features /\ <<v, f>> \in Users \X Features
        /\ now \in Nat
    BY LogsTyped, LimitsTyped DEF AiInv, AiTyped
  <2>2. \A yet \in BOOLEAN : ~Counts(yet, AiIdle, f)
    BY <1>4 DEF Counts
  <2>3. \A yet \in BOOLEAN : Adding(yet, f, v, d)' \subseteq Adding(yet, f, v, d) \ {r}
    BY <1>4, <2>2, WritersMove
  <2>4. CASE LogOf(f, v)' = LogOf(f, v)
    BY <1>3, <2>1, <2>3, <2>4, LimitStays
  <2>5. CASE LogOf(f, v)' # LogOf(f, v)
    <3>1. f = g /\ v = u /\ (f # "prep_card" => free)
      BY <1>1, <1>7, <2>1, <2>5 DEF LogOf
    <3>2. LogOf(f, v)' = Append(LogOf(f, v), t)
      <4>1. CASE f = "prep_card"
        BY <4>1, <3>1, <1>1, <1>2, <1>7 DEF LogOf
      <4>2. CASE f # "prep_card"
        BY <4>2, <3>1, <1>1, <1>2, <1>7 DEF LogOf
      <4> QED
        BY <4>1, <4>2
    <3>3. \A yet \in BOOLEAN : Counts(yet, aiCall[r], f)
      BY <3>1, <1>1 DEF Counts
    <3>4. \A yet \in BOOLEAN : t \div Span(f) = d => r \in Adding(yet, f, v, d)
      BY <3>1, <3>3, <1>1 DEF Adding
    <3>5. t \div Span(f) \in Int
      <4>1. PICK span \in Nat \ {0} : span = Span(f)
        BY LimitsTyped
      <4>2. t \div span \in Int
        BY <1>2, SpanNumbered
      <4> QED
        BY <4>1, <4>2
    <3>6. \A yet \in BOOLEAN : UnderCeiling(yet, f, v, d) => UnderCeiling(yet, f, v, d)'
      BY <2>1, <2>3, <3>2, <3>4, <3>5, <1>2, RowTakesPlace
    <3> QED
      BY <1>3, <2>1, <3>6 DEF LimitKept, Span
  <2> QED
    BY <2>4, <2>5
<1> QED
  BY <1>8, <1>9, <1>10 DEF AiInv

LEMMA AssistantStep ==
    ASSUME AiInv, AssistantNext \/ (UNCHANGED assistant /\ now' \in Nat /\ now' >= now)
    PROVE  AiInv'
<1>1. ASSUME UNCHANGED assistant, now' \in Nat, now' >= now
      PROVE  AiInv'
  <2>1. UNCHANGED <<used, unpaid, aiCall>>
    BY <1>1 DEF assistant
  <2>2. AiTyped'
    BY <1>1, <2>1 DEF AiInv, AiTyped, AiCallTyped
  <2>3. ASSUME NEW f \in Limited, NEW u \in Users, NEW d \in Int
        PROVE  LimitKept(f, u, d)'
    <3>1. /\ LogOf(f, u)' = LogOf(f, u) /\ LogOf(f, u) \in Seq(Nat) /\ now \in Nat
          /\ \A yet \in BOOLEAN : Adding(yet, f, u, d)' \subseteq Adding(yet, f, u, d)
      BY <2>1, LogsTyped DEF AiInv, AiTyped, LogOf, Adding, Span
    <3> QED
      BY <1>1, <3>1, LimitStays DEF AiInv
  <2> QED
    BY <2>1, <2>2, <2>3 DEF AiInv
<1>2. ASSUME NEW r \in AiCalls, NEW u \in Users, GetClubTopics(r, u)
      PROVE  AiInv'
  <2>1. "club_topics" \in Features \ Limited
    BY DEF Features, Limited
  <2> QED
    BY <1>2, <2>1, AskKeeps DEF GetClubTopics
<1>3. ASSUME NEW u \in Users, NEW s, SetCardStyle(u, s)
      PROVE  AiInv'
  <2>1. UNCHANGED <<now, used, unpaid, aiCall>>
    BY <1>3 DEF SetCardStyle
  <2>2. AiTyped'
    BY <2>1 DEF AiInv, AiTyped, AiCallTyped
  <2>3. ASSUME NEW f \in Limited, NEW v \in Users, NEW d \in Int
        PROVE  LimitKept(f, v, d)'
    <3>1. /\ LogOf(f, v)' = LogOf(f, v) /\ LogOf(f, v) \in Seq(Nat) /\ now \in Nat
          /\ \A yet \in BOOLEAN : Adding(yet, f, v, d)' \subseteq Adding(yet, f, v, d)
      BY <2>1, LogsTyped DEF AiInv, AiTyped, LogOf, Adding, Span
    <3> QED
      BY <2>1, <3>1, LimitStays DEF AiInv
  <2> QED
    BY <2>1, <2>2, <2>3 DEF AiInv
<1>4. ASSUME NEW r \in AiCalls, NEW u \in Users, NEW b,
             GetPrepCard(r, u, b) \/ GetAudioIntro(r, u, b) \/ CreateReflection(r, u, b)
      PROVE  AiInv'
  <2>1. PICK g \in Features : \E what : Ask(r, "begun", g, u, what)
    BY <1>4 DEF GetPrepCard, GetAudioIntro, CreateReflection, Features
  <2> QED
    BY <2>1, AskKeeps
<1>5. ASSUME NEW r \in AiCalls, PrepAllowed(r) \/ AudioAllowed(r) \/ ReflectionAllowed(r)
      PROVE  AiInv'
  <2>1. CASE PrepAllowed(r)
    <3>1. "prep_card" \in Limited /\ Span("prep_card") = Day /\ LimitOf("prep_card") = PrepLimit
      BY DEF Limited, Span, LimitOf
    <3>2. aiCall[r].free \in BOOLEAN
      BY <2>1 DEF PrepAllowed, LetIn, AiInv, AiTyped, AiCallTyped
    <3> QED
      BY <2>1, <3>1, <3>2, LetInKeeps DEF PrepAllowed, TodayStart
  <2>2. CASE AudioAllowed(r)
    <3>1. /\ "audio_intro" \in Limited /\ "audio_intro" # "prep_card" /\ Span("audio_intro") = Day
          /\ LimitOf("audio_intro") = AudioLimit
      BY DEF Limited, Span, LimitOf
    <3>2. aiCall[r].free \in BOOLEAN
      BY <2>2 DEF AudioAllowed, LetIn, AiInv, AiTyped, AiCallTyped
    <3> QED
      BY <2>2, <3>1, <3>2, LetInKeeps DEF AudioAllowed, TodayStart
  <2>3. CASE ReflectionAllowed(r)
    <3>1. /\ "reflection" \in Limited /\ "reflection" # "prep_card" /\ Span("reflection") = Month
          /\ LimitOf("reflection") = ReflectionLimit
      BY DEF Limited, Span, LimitOf
    <3>2. PICK free \in BOOLEAN : free = ~pro[aiCall[r].user].is
      OBVIOUS
    <3>3. LetIn(r, "reflection", free)
      BY <2>3, <3>2 DEF ReflectionAllowed
    <3>4. free => CountSince(aiCall[r].user, "reflection", now - (now % Month)) < ReflectionLimit
      BY <2>3, <3>2 DEF ReflectionAllowed, MonthStart
    <3> QED
      BY <3>1, <3>3, <3>4, LetInKeeps
  <2> QED
    BY <1>5, <2>1, <2>2, <2>3
<1>7. ASSUME NEW r \in AiCalls, NEW u \in Users, NEW b, GenerateAgendaTopicDrafts(r, u, b)
      PROVE  AiInv'
  <2>1. "agenda_topics" \in Features \ Limited
    BY DEF Features, Limited
  <2> QED
    BY <1>7, <2>1, AskKeeps DEF GenerateAgendaTopicDrafts
<1>8. ASSUME NEW r \in AiCalls, PrepRecorded(r) \/ ReflectionStored(r) \/ UseRecorded(r)
      PROVE  AiInv'
  BY <1>8, RecordedKeeps DEF PrepRecorded, ReflectionStored, UseRecorded
<1>9. ASSUME AssistantNext
      PROVE  AiInv'
  BY <1>9, <1>2, <1>3, <1>4, <1>5, <1>7, <1>8, AiLostKeeps, CardKeptKeeps DEF AssistantNext
<1> QED
  BY <1>1, <1>9

LEMMA UsesBounded ==
    ASSUME AiInv
    PROVE  AiOverruns
<1> DEFINE Allowed(limit, d, span) ==
               limit + Cardinality(AiCalls) - 1 + (IF d < now \div span THEN Cardinality(AiCalls) ELSE 0)
<1>1. ASSUME NEW f \in Limited, NEW u \in Users, NEW n \in DOMAIN LogOf(f, u)
      PROVE  Cardinality({k \in DOMAIN LogOf(f, u) : LogOf(f, u)[k] \div Span(f) = LogOf(f, u)[n] \div Span(f)})
                 <= Allowed(LimitOf(f), LogOf(f, u)[n] \div Span(f), Span(f))
  <2>1. PICK log, d, S : /\ log = LogOf(f, u) /\ d = log[n] \div Span(f) /\ S = InSpan(log, Span(f), d)
    OBVIOUS
  <2>2. log \in Seq(Nat) /\ Span(f) \in Nat \ {0} /\ LimitOf(f) \in Nat /\ now \in Nat
    BY <2>1, LogsTyped, LimitsTyped DEF AiInv, AiTyped
  <2>3. d \in Int /\ now \div Span(f) \in Int
    <3>1. log[n] \in Nat
      BY <2>1, <2>2
    <3> QED
      BY <2>1, <2>2, <3>1, SMT
  <2>4. ASSUME NEW yet \in BOOLEAN, UnderCeiling(yet, f, u, d)
        PROVE  Cardinality(S) <= Ceiling(yet, f)
    <3>1. Adding(yet, f, u, d) \subseteq AiCalls
      BY DEF Adding
    <3>2. PICK m : m = Cardinality(Adding(yet, f, u, d)) /\ m \in Nat
      BY <3>1, WritersCounted
    <3>3. Cardinality(S) \in Nat /\ Ceiling(yet, f) \in Int
      BY <2>1, <2>2, SpansCounted, CeilingsTyped
    <3>4. Cardinality(S) + m <= Ceiling(yet, f)
      BY <2>1, <2>4, <3>2, Zenon DEF UnderCeiling
    <3> QED
      BY <3>2, <3>3, <3>4
  <2>5. LimitKept(f, u, d)
    BY <2>3 DEF AiInv
  <2>6. CASE d < now \div Span(f)
    <3>1. Cardinality(S) <= Ceiling(TRUE, f)
      BY <2>4, <2>5, Zenon DEF LimitKept
    <3>2. Ceiling(TRUE, f) = Allowed(LimitOf(f), d, Span(f))
      BY <2>6 DEF Ceiling
    <3> QED
      BY <2>1, <3>1, <3>2, Zenon DEF InSpan
  <2>7. CASE d >= now \div Span(f)
    <3>1. Cardinality(S) <= Ceiling(FALSE, f)
      BY <2>4, <2>5, <2>7, Zenon DEF LimitKept
    <3>2. Ceiling(FALSE, f) = Allowed(LimitOf(f), d, Span(f))
      BY <2>3, <2>7 DEF Ceiling
    <3> QED
      BY <2>1, <3>1, <3>2, Zenon DEF InSpan
  <2> QED
    BY <2>3, <2>6, <2>7
<1> HIDE DEF Allowed
<1>2. ASSUME NEW u \in Users, NEW f \in Limited, NEW log, log = LogOf(f, u), NEW n \in DOMAIN log
      PROVE  Cardinality({k \in DOMAIN log : log[k] \div Span(f) = log[n] \div Span(f)})
                 <= Allowed(LimitOf(f), log[n] \div Span(f), Span(f))
  BY <1>1, <1>2
<1>3. ASSUME NEW u \in Users, NEW n \in DOMAIN used[<<u, "prep_card">>]
      PROVE  Cardinality({k \in DOMAIN used[<<u, "prep_card">>] :
                 used[<<u, "prep_card">>][k] \div Day = used[<<u, "prep_card">>][n] \div Day})
                 <= Allowed(PrepLimit, used[<<u, "prep_card">>][n] \div Day, Day)
  <2>1. "prep_card" \in Limited /\ Span("prep_card") = Day /\ LimitOf("prep_card") = PrepLimit
        /\ LogOf("prep_card", u) = used[<<u, "prep_card">>]
    BY DEF Limited, Span, LimitOf, LogOf
  <2> QED
    BY <1>2, <2>1
<1>4. ASSUME NEW u \in Users, NEW n \in DOMAIN unpaid[<<u, "audio_intro">>]
      PROVE  Cardinality({k \in DOMAIN unpaid[<<u, "audio_intro">>] :
                 unpaid[<<u, "audio_intro">>][k] \div Day = unpaid[<<u, "audio_intro">>][n] \div Day})
                 <= Allowed(AudioLimit, unpaid[<<u, "audio_intro">>][n] \div Day, Day)
  <2>1. "audio_intro" \in Limited /\ Span("audio_intro") = Day /\ LimitOf("audio_intro") = AudioLimit
        /\ LogOf("audio_intro", u) = unpaid[<<u, "audio_intro">>]
    BY DEF Limited, Span, LimitOf, LogOf
  <2> QED
    BY <1>2, <2>1
<1>5. ASSUME NEW u \in Users, NEW n \in DOMAIN unpaid[<<u, "reflection">>]
      PROVE  Cardinality({k \in DOMAIN unpaid[<<u, "reflection">>] :
                 unpaid[<<u, "reflection">>][k] \div Month = unpaid[<<u, "reflection">>][n] \div Month})
                 <= Allowed(ReflectionLimit, unpaid[<<u, "reflection">>][n] \div Month, Month)
  <2>1. "reflection" \in Limited /\ Span("reflection") = Month /\ LimitOf("reflection") = ReflectionLimit
        /\ LogOf("reflection", u) = unpaid[<<u, "reflection">>]
    BY DEF Limited, Span, LimitOf, LogOf
  <2> QED
    BY <1>2, <2>1
<1> USE DEF Allowed
<1> QED
  BY <1>3, <1>4, <1>5 DEF AiOverruns

--------------------------------------------------------------------------------
(* All limits together: no step of one part is felt by another, but for the
   clock, which each leaves where it is.                                      *)

LEMMA ConsoleTakesNoTime ==
    ASSUME AdministrationNext \/ SignIns
    PROVE  now' = now
<1>1. CASE AdministrationNext
  BY <1>1 DEF AdministrationNext, PromoteUser, PatchUser, PatchLoaded, UserPatched, PatchLost, AdminLeaves,
              DeleteAccount
<1>2. CASE SignIns
  BY <1>2 DEF SignIns, Login, LoggedIn, LoginRefused, SignedUp, LoginDone, Refresh, RegisterDevice
<1> QED
  BY <1>1, <1>2

LEMMA BillingTakesNoTime ==
    ASSUME BillingNext
    PROVE  now' = now
BY DEF BillingNext, SubscriptionNext, CouponNext, TeamNext, GetStatus, VerifyAndActivate, ApplyWebhookEvent,
       CreateCoupon, ApplyCoupon, CreateTeam, AddMember, RemoveMember, StatusExpired, CouponApplied,
       MemberAdded, BillLost, Load, BillDone

LEMMA MeetupsTakeNoTime ==
    ASSUME MeetupsNext
    PROVE  now' = now
BY DEF MeetupsNext, CreateMeetup, CancelMeetup, LeaveWaitlist, JoinWaitlist, ReviewMeetup, Joined,
       MeetupReviewed, MeetupLost

LEMMA AssistantTakesNoTime ==
    ASSUME AssistantNext
    PROVE  now' = now
<1>1. ASSUME NEW r, NEW op, NEW f, NEW u, NEW o, Ask(r, op, f, u, o)
      PROVE  now' = now
  BY <1>1 DEF Ask
<1>2. ASSUME NEW r, NEW f, NEW free, Recorded(r) \/ LetIn(r, f, free)
      PROVE  now' = now
  BY <1>2 DEF Recorded, LetIn
<1>3. ASSUME NEW r \in AiCalls, NEW u \in Users,
             GetClubTopics(r, u) \/ (\E s \in Styles : SetCardStyle(u, s))
      PROVE  now' = now
  BY <1>1, <1>3 DEF GetClubTopics, SetCardStyle
<1>4. ASSUME NEW r \in AiCalls, NEW u \in Users, NEW b \in Volumes,
             \/ GetPrepCard(r, u, b) \/ GetAudioIntro(r, u, b)
             \/ CreateReflection(r, u, b) \/ GenerateAgendaTopicDrafts(r, u, b)
      PROVE  now' = now
  BY <1>1, <1>4 DEF GetPrepCard, GetAudioIntro, CreateReflection, GenerateAgendaTopicDrafts
<1>5. ASSUME NEW r \in AiCalls, PrepAllowed(r) \/ AudioAllowed(r) \/ ReflectionAllowed(r)
      PROVE  now' = now
  BY <1>2, <1>5 DEF PrepAllowed, AudioAllowed, ReflectionAllowed
<1>6. ASSUME NEW r \in AiCalls,
             PrepGenerated(r) \/ PrepRecorded(r) \/ ReflectionStored(r) \/ UseRecorded(r) \/ AiLost(r)
      PROVE  now' = now
  BY <1>2, <1>6 DEF PrepGenerated, PrepRecorded, ReflectionStored, UseRecorded, AiLost
<1> QED
  BY <1>3, <1>4, <1>5, <1>6 DEF AssistantNext

LimitsInv == AccountsInv /\ AdminsInv /\ BillingInv /\ MeetupInv /\ AiInv

LEMMA LimitsStart ==
    ASSUME LimitsInit
    PROVE  LimitsInv
BY AccountsStart, AdminsStart, BillingStart, MeetupsStart, AssistantStart DEF LimitsInit, LimitsInv

LEMMA LimitsStep ==
    ASSUME LimitsInv, [LimitsNext]_LimitVars
    PROVE  LimitsInv'
<1>1. /\ AdministrationNext \/ (SignIns /\ UNCHANGED administration)
         \/ (Tick /\ UNCHANGED <<accounts, administration>>) \/ UNCHANGED <<now, accounts, administration>>
      /\ BillingNext \/ UNCHANGED billing
      /\ MeetupsNext \/ UNCHANGED meetups
      /\ AssistantNext \/ (UNCHANGED assistant /\ (now' = now \/ Tick))
  BY ConsoleTakesNoTime, BillingTakesNoTime, MeetupsTakeNoTime, AssistantTakesNoTime
     DEF LimitsNext, LimitVars
<1>2. AccountsInv' /\ AdminsInv'
  BY <1>1, AccountsStep, AdminsStep DEF LimitsInv, ConsoleNext, ConsoleVars
<1>3. BillingInv'
  BY <1>1, BillingStep DEF LimitsInv, billing
<1>4. MeetupInv'
  BY <1>1, MeetupStep DEF LimitsInv
<1>5. AiInv'
  <2>1. now \in Nat
    BY DEF LimitsInv, AiInv, AiTyped
  <2> QED
    BY <2>1, <1>1, AssistantStep DEF LimitsInv, Tick
<1> QED
  BY <1>2, <1>3, <1>4, <1>5 DEF LimitsInv

\* For any number of users and requests, what there is a limited number of is
\* given away too often only to requests that overlapped, and less often than
\* requests may be in flight (AdminService.patch_user,
\* CouponRedemptionService.apply, add_member, EventService.join_waitlist,
\* get_prep_card, get_audio_intro, create_reflection).
THEOREM LimitsHardlyOverrun == LimitsSpec => []OnlyOverlapOverruns
<1>1. LimitsInit => LimitsInv
  BY LimitsStart
<1>2. LimitsInv /\ [LimitsNext]_LimitVars => LimitsInv'
  BY LimitsStep
<1>3. LimitsInv => OnlyOverlapOverruns
  BY BillsBounded, PlacesBounded, UsesBounded DEF LimitsInv, AdminsInv, OnlyOverlapOverruns
<1> QED
  BY <1>1, <1>2, <1>3, PTL DEF LimitsSpec

--------------------------------------------------------------------------------
(***************************************************************************)
(* Recommendations.  Every query leaves out what the reader has now; what    *)
(* was off the shelf, or not rated, at a moment is so to this day or was so  *)
(* at that moment or later.  So an answer, and a model, stays right about    *)
(* the moment it was worked out at, however long it is kept.                 *)
(***************************************************************************)

DiscoveryVars == <<now, discovery>>

DiscoverySpec ==
    /\ ClockInit /\ (\E initial \in [Users \X Catalog -> {Off} \cup [status : Rated, at : {0}]] :
                        DiscoveryStart(initial))
    /\ [][DiscoveryNext \/ (Tick /\ UNCHANGED discovery)]_DiscoveryVars

LastOffShelf(u, b) == IF copies[<<u, b>>] = Off THEN now ELSE absent[<<u, b>>].off

LastNotRated(u, b) ==
    IF copies[<<u, b>>].status \in Rated THEN absent[<<u, b>>].unrated ELSE now

\* Books that were new to u at a moment, and what is not rated in a model.
WereNew(u, books, at) == \A b \in books : b \in Catalog /\ LastOffShelf(u, b) >= at

ModelTrue(m) ==
    /\ m.books \subseteq Catalog /\ m.at \in Int
    /\ \A u \in Users : \A b \in Catalog \ m.ratings[u] : LastNotRated(u, b) >= m.at

ShelvesTyped ==
    /\ now \in Nat
    /\ copies = [x \in Users \X Catalog |-> copies[x]] /\ absent = [x \in Users \X Catalog |-> absent[x]]
    /\ rec = [u \in Users |-> rec[u]] /\ local = [p \in Processes |-> local[p]]
    /\ discCall = [r \in DiscCalls |-> discCall[r]]
    /\ \A x \in Users \X Catalog :
          /\ absent[x].off \in Int /\ absent[x].off <= now
          /\ absent[x].unrated \in Int /\ absent[x].unrated <= now

AnswersTrue ==
    /\ \A u \in Users : rec[u] # NoRec => rec[u].at \in Int /\ WereNew(u, rec[u].books, rec[u].at)
    /\ \A r \in DiscCalls : discCall[r].op = "recommend" =>
          /\ discCall[r].user \in Users /\ discCall[r].at \in Int
          /\ WereNew(discCall[r].user, discCall[r].books, discCall[r].at)

ModelsTrue ==
    /\ model.until # Never => ModelTrue(model.learnt)
    /\ \A p \in Processes : local[p] # NoModel => ModelTrue(local[p])

DiscoveryInv == ShelvesTyped /\ AnswersTrue /\ ModelsTrue

--------------------------------------------------------------------------------
(* What a query gives *)

LEMMA RankedAreCandidates ==
    ASSUME NEW candidates, NEW score, NEW n, NEW S \in Ranked(candidates, score, n)
    PROVE  S \subseteq candidates
BY DEF Ranked

LEMMA PopularAreNew ==
    ASSUME NEW u, NEW n, NEW S, S \in CommunityPopular(u, n) \/ S \in Trending(u, n)
    PROVE  S \subseteq New(u)
BY RankedAreCandidates DEF CommunityPopular, Trending

LEMMA ReadAreNew ==
    ASSUME NEW u, NEW n, NEW vs, NEW S \in BooksReadByUsers(vs, u, n)
    PROVE  S \subseteq New(u)
BY RankedAreCandidates DEF BooksReadByUsers

LEMMA MatchesAreNew ==
    ASSUME NEW u, NEW n, NEW ks, NEW weight, NEW S \in BooksByGenreMatch(u, ks, weight, n)
    PROVE  S \subseteq New(u)
BY RankedAreCandidates DEF BooksByGenreMatch

LEMMA AddedAreNew ==
    ASSUME NEW u, NEW n, NEW S \in RecentlyAdded(u, n)
    PROVE  S \subseteq New(u)
BY RankedAreCandidates DEF RecentlyAdded

LEMMA ColdStartIsNew ==
    ASSUME NEW u, NEW n, NEW S \in ColdStart(u, n)
    PROVE  S \subseteq New(u)
BY PopularAreNew, MatchesAreNew DEF ColdStart

LEMMA RuleBasedIsNew ==
    ASSUME NEW u, NEW n, NEW S \in RuleBased(u, n)
    PROVE  S \subseteq New(u)
<1>1. PICK p \in CommunityPopular(u, MixSize), s \in SimilarReaders(u, MixSize), r \in RecentlyAdded(u, MixSize) :
          S \in Ranked(p \cup s \cup r,
                       [b \in Catalog |-> IF b \in p THEN 2 ELSE IF b \in s THEN 1 ELSE 0], n)
  BY DEF RuleBased
<1>2. p \subseteq New(u) /\ s \subseteq New(u) /\ r \subseteq New(u)
  BY PopularAreNew, ReadAreNew, AddedAreNew DEF SimilarReaders
<1> QED
  BY <1>1, <1>2, RankedAreCandidates

LEMMA TasteIsNew ==
    ASSUME NEW u, NEW n, NEW S \in ByTasteMatch(u, n)
    PROVE  S \subseteq New(u)
<1>1. CASE profile[u] = NoProfile
  BY <1>1, ColdStartIsNew DEF ByTasteMatch
<1>2. CASE profile[u] # NoProfile
  <2>1. PICK ks : S \in BooksByGenreMatch(u, ks, profile[u], n)
    BY <1>2 DEF ByTasteMatch
  <2> QED
    BY <2>1, MatchesAreNew
<1> QED
  BY <1>1, <1>2

LEMMA SimilarAreNew ==
    ASSUME NEW u, NEW n, NEW S \in BySimilarReaders(u, n)
    PROVE  S \subseteq New(u)
<1>1. CASE profile[u] = NoProfile
  BY <1>1, ColdStartIsNew DEF BySimilarReaders
<1>2. CASE profile[u] # NoProfile
  <2>1. PICK vs : S \in BooksReadByUsers(vs, u, n)
    BY <1>2 DEF BySimilarReaders
  <2> QED
    BY <2>1, ReadAreNew
<1> QED
  BY <1>1, <1>2

\* Whatever strategy is asked for and whichever serves.
LEMMA AnswersAreNew ==
    ASSUME NEW u, NEW strategy \in Strategies, NEW n, NEW S \in Recommendations(u, strategy, n)
    PROVE  S \subseteq New(u)
<1>1. PICK served : served = IF Cardinality(Done(u)) < MinDone /\ strategy # "collaborative"
                             THEN "cold_start" ELSE strategy
  OBVIOUS
<1>2. served \in Strategies
  BY <1>1 DEF Strategies
<1>3. S \in CASE served = "collaborative" -> RuleBased(u, n)
              [] served = "similar_readers" -> BySimilarReaders(u, n)
              [] served = "taste_match" -> ByTasteMatch(u, n)
              [] served = "cold_start" -> ColdStart(u, n)
  BY <1>1 DEF Recommendations
<1>4. \/ S \in RuleBased(u, n) \/ S \in BySimilarReaders(u, n)
      \/ S \in ByTasteMatch(u, n) \/ S \in ColdStart(u, n)
  BY <1>2, <1>3 DEF Strategies
<1> QED
  BY <1>4, RuleBasedIsNew, SimilarAreNew, TasteIsNew, ColdStartIsNew

--------------------------------------------------------------------------------

\* Time goes on, and shelves change; neither makes a book newer to its reader.
Later ==
    \A u \in Users, b \in Catalog :
        /\ LastOffShelf(u, b)' \in Int /\ LastOffShelf(u, b) \in Int
        /\ LastOffShelf(u, b)' >= LastOffShelf(u, b)
        /\ LastNotRated(u, b)' \in Int /\ LastNotRated(u, b) \in Int
        /\ LastNotRated(u, b)' >= LastNotRated(u, b)

LEMMA StillNew ==
    ASSUME Later, NEW u \in Users, NEW books, NEW at \in Int, WereNew(u, books, at)
    PROVE  WereNew(u, books, at)'
BY DEF Later, WereNew

LEMMA ModelStays ==
    ASSUME Later, NEW m, ModelTrue(m)
    PROVE  ModelTrue(m)'
BY DEF Later, ModelTrue

LEMMA NothingNewer ==
    ASSUME ShelvesTyped, now' \in Int, now' >= now, UNCHANGED <<copies, absent>>
    PROVE  Later
<1>1. ASSUME NEW u \in Users, NEW b \in Catalog
      PROVE  /\ LastOffShelf(u, b)' \in Int /\ LastOffShelf(u, b) \in Int
             /\ LastOffShelf(u, b)' >= LastOffShelf(u, b)
             /\ LastNotRated(u, b)' \in Int /\ LastNotRated(u, b) \in Int
             /\ LastNotRated(u, b)' >= LastNotRated(u, b)
  <2>1. /\ absent[<<u, b>>].off \in Int /\ absent[<<u, b>>].unrated \in Int
        /\ absent[<<u, b>>].off <= now /\ absent[<<u, b>>].unrated <= now /\ now \in Int
    BY DEF ShelvesTyped
  <2> QED
    BY <2>1 DEF LastOffShelf, LastNotRated
<1> QED
  BY <1>1 DEF Later

LEMMA CopyKept ==
    ASSUME ShelvesTyped, NEW u \in Users, NEW b \in Catalog, NEW status,
           status \in Rated \cup {"paused", "dropped"}, KeepCopy(u, b, status)
    PROVE  ShelvesTyped' /\ Later
<1>1. PICK c, a : /\ c = [status |-> status, at |-> IF copies[<<u, b>>] = Off THEN now ELSE copies[<<u, b>>].at]
                  /\ a = [off |-> IF copies[<<u, b>>] = Off THEN now ELSE absent[<<u, b>>].off,
                          unrated |-> IF copies[<<u, b>>].status \in Rated THEN absent[<<u, b>>].unrated ELSE now]
  OBVIOUS
<1>2. <<u, b>> \in Users \X Catalog
  OBVIOUS
<1>3. /\ copies' = [copies EXCEPT ![<<u, b>>] = c] /\ absent' = [absent EXCEPT ![<<u, b>>] = a]
      /\ UNCHANGED <<now, rec, local, discCall>>
  BY <1>1, <1>2 DEF KeepCopy, ShelvesTyped
<1>4. /\ \A x \in Users \X Catalog : copies'[x] = IF x = <<u, b>> THEN c ELSE copies[x]
      /\ \A x \in Users \X Catalog : absent'[x] = IF x = <<u, b>> THEN a ELSE absent[x]
      /\ copies' = [x \in Users \X Catalog |-> copies'[x]] /\ absent' = [x \in Users \X Catalog |-> absent'[x]]
  BY <1>3 DEF ShelvesTyped
<1>5. /\ absent[<<u, b>>].off \in Int /\ absent[<<u, b>>].unrated \in Int /\ now \in Int
      /\ absent[<<u, b>>].off <= now /\ absent[<<u, b>>].unrated <= now
  BY <1>2 DEF ShelvesTyped
<1>6. a.off \in Int /\ a.off <= now /\ a.unrated \in Int /\ a.unrated <= now
  BY <1>1, <1>5
<1>7. ShelvesTyped'
  BY <1>3, <1>4, <1>6 DEF ShelvesTyped
<1>8. c # Off
  <2>1. Off.status = "none"
    BY DEF Off
  <2>2. c.status = status /\ status # "none"
    BY <1>1 DEF Rated
  <2> QED
    BY <2>1, <2>2
<1>9. ASSUME NEW v \in Users, NEW d \in Catalog
      PROVE  /\ LastOffShelf(v, d)' \in Int /\ LastOffShelf(v, d) \in Int
             /\ LastOffShelf(v, d)' >= LastOffShelf(v, d)
             /\ LastNotRated(v, d)' \in Int /\ LastNotRated(v, d) \in Int
             /\ LastNotRated(v, d)' >= LastNotRated(v, d)
  <2>1. /\ absent[<<v, d>>].off \in Int /\ absent[<<v, d>>].unrated \in Int
        /\ absent[<<v, d>>].off <= now /\ absent[<<v, d>>].unrated <= now /\ <<v, d>> \in Users \X Catalog
    BY DEF ShelvesTyped
  <2>2. CASE <<v, d>> # <<u, b>>
    <3>1. copies'[<<v, d>>] = copies[<<v, d>>] /\ absent'[<<v, d>>] = absent[<<v, d>>]
      BY <2>1, <2>2, <1>4
    <3> QED
      BY <2>1, <3>1, <1>3, <1>5 DEF LastOffShelf, LastNotRated
  <2>3. CASE <<v, d>> = <<u, b>>
    <3>1. /\ copies'[<<v, d>>] = c /\ absent'[<<v, d>>] = a
          /\ a.off = IF copies[<<v, d>>] = Off THEN now ELSE absent[<<v, d>>].off
          /\ a.unrated = IF copies[<<v, d>>].status \in Rated THEN absent[<<v, d>>].unrated ELSE now
      BY <2>1, <2>3, <1>1, <1>4
    <3> QED
      BY <2>1, <3>1, <1>3, <1>5, <1>6, <1>8 DEF LastOffShelf, LastNotRated
  <2> QED
    BY <2>2, <2>3
<1> QED
  BY <1>7, <1>9 DEF Later

LEMMA CopyDropped ==
    ASSUME ShelvesTyped, NEW u \in Users, NEW b \in Catalog, DropCopy(u, b)
    PROVE  ShelvesTyped' /\ Later
<1>1. copies' = [copies EXCEPT ![<<u, b>>] = Off] /\ UNCHANGED <<now, absent, rec, local, discCall>>
  BY DEF DropCopy
<1>2. /\ \A x \in Users \X Catalog : copies'[x] = IF x = <<u, b>> THEN Off ELSE copies[x]
      /\ copies' = [x \in Users \X Catalog |-> copies'[x]]
  BY <1>1 DEF ShelvesTyped
<1>3. ShelvesTyped'
  BY <1>1, <1>2 DEF ShelvesTyped
<1>4. Off.status \notin Rated
  BY DEF Off, Rated
<1>5. ASSUME NEW v \in Users, NEW d \in Catalog
      PROVE  /\ LastOffShelf(v, d)' \in Int /\ LastOffShelf(v, d) \in Int
             /\ LastOffShelf(v, d)' >= LastOffShelf(v, d)
             /\ LastNotRated(v, d)' \in Int /\ LastNotRated(v, d) \in Int
             /\ LastNotRated(v, d)' >= LastNotRated(v, d)
  <2>1. /\ absent[<<v, d>>].off \in Int /\ absent[<<v, d>>].unrated \in Int /\ now \in Int
        /\ absent[<<v, d>>].off <= now /\ absent[<<v, d>>].unrated <= now /\ <<v, d>> \in Users \X Catalog
    BY DEF ShelvesTyped
  <2>2. copies'[<<v, d>>] = copies[<<v, d>>] \/ copies'[<<v, d>>] = Off
    BY <2>1, <1>2
  <2> QED
    BY <2>1, <2>2, <1>1, <1>4 DEF LastOffShelf, LastNotRated
<1> QED
  BY <1>3, <1>5 DEF Later

\* What is kept and what is in flight goes on being true.
LEMMA KeptStaysTrue ==
    ASSUME AnswersTrue, ModelsTrue, Later, UNCHANGED <<rec, discCall, model, local>>
    PROVE  AnswersTrue' /\ ModelsTrue'
<1>1. AnswersTrue'
  BY StillNew DEF AnswersTrue
<1>2. ModelsTrue'
  BY ModelStays DEF ModelsTrue
<1> QED
  BY <1>1, <1>2

LEMMA NoTimePasses ==
    ASSUME ShelvesTyped, UNCHANGED <<now, copies, absent>>
    PROVE  Later
BY NothingNewer DEF ShelvesTyped

\* A request that has computed something, an answer among it.
LEMMA ComputedIsTrue ==
    ASSUME DiscoveryInv, NEW r \in DiscCalls, NEW c, Compute(r, c),
           c.op = "recommend" => c.user \in Users /\ c.at \in Int /\ WereNew(c.user, c.books, c.at)
    PROVE  DiscoveryInv'
<1>1. /\ discCall' = [discCall EXCEPT ![r] = c]
      /\ UNCHANGED <<now, copies, rec, model, local, absent>>
  BY DEF Compute
<1>2. /\ \A q \in DiscCalls : discCall'[q] = IF q = r THEN c ELSE discCall[q]
      /\ discCall' = [q \in DiscCalls |-> discCall'[q]]
  BY <1>1 DEF DiscoveryInv, ShelvesTyped
<1>3. ShelvesTyped'
  BY <1>1, <1>2 DEF DiscoveryInv, ShelvesTyped
<1>4. Later
  BY <1>1, NoTimePasses DEF DiscoveryInv
<1>5. ASSUME NEW u \in Users, rec'[u] # NoRec
      PROVE  rec'[u].at \in Int /\ WereNew(u, rec[u].books, rec[u].at)'
  BY <1>1, <1>4, <1>5, StillNew DEF DiscoveryInv, AnswersTrue
<1>6. ASSUME NEW q \in DiscCalls, discCall'[q].op = "recommend"
      PROVE  /\ discCall'[q].user \in Users /\ discCall'[q].at \in Int
             /\ WereNew(discCall[q].user, discCall[q].books, discCall[q].at)'
  <2>1. PICK d : d = discCall'[q]
    OBVIOUS
  <2>2. d.user \in Users /\ d.at \in Int /\ WereNew(d.user, d.books, d.at)
    BY <1>2, <1>6, <2>1 DEF DiscoveryInv, AnswersTrue
  <2>3. WereNew(d.user, d.books, d.at)'
    BY <1>4, <2>2, StillNew
  <2> QED
    BY <2>1, <2>2, <2>3 DEF WereNew
<1>7. AnswersTrue'
  BY <1>5, <1>6 DEF AnswersTrue
<1>8. ModelsTrue'
  BY <1>1, <1>4, ModelStays DEF DiscoveryInv, ModelsTrue
<1> QED
  BY <1>3, <1>7, <1>8 DEF DiscoveryInv

\* What is new to u now.
LEMMA NewIsNew ==
    ASSUME ShelvesTyped, NEW u \in Users, NEW books, books \subseteq New(u)
    PROVE  WereNew(u, books, now)
<1>1. ASSUME NEW b \in books
      PROVE  b \in Catalog /\ LastOffShelf(u, b) >= now
  <2>1. b \in Catalog /\ copies[<<u, b>>] = Off
    BY DEF New, Mine
  <2> QED
    BY <2>1 DEF LastOffShelf, ShelvesTyped
<1> QED
  BY <1>1 DEF WereNew

LEMMA RequestsKeepTrue ==
    ASSUME DiscoveryInv, NEW r \in DiscCalls, NEW u \in Users,
           \/ \E kinds \in SUBSET Kinds : ReplaceAll(r, u, kinds)
           \/ Recompute(r, u)
           \/ \E s \in Strategies, n \in 1 .. Cardinality(Catalog) : GetRecommendations(r, u, s, n)
    PROVE  DiscoveryInv'
<1>1. CASE \E kinds \in SUBSET Kinds : ReplaceAll(r, u, kinds)
  <2>1. PICK kinds : ReplaceAll(r, u, kinds)
    BY <1>1
  <2>2. PICK c : Compute(r, c) /\ c.op = "replace"
    BY <2>1 DEF ReplaceAll
  <2> QED
    BY <2>2, ComputedIsTrue
<1>2. CASE Recompute(r, u)
  <2>1. PICK c : Compute(r, c) /\ c.op = "recompute"
    BY <1>2 DEF Recompute
  <2> QED
    BY <2>1, ComputedIsTrue
<1>3. CASE \E s \in Strategies, n \in 1 .. Cardinality(Catalog) : GetRecommendations(r, u, s, n)
  <2>1. PICK s \in Strategies, n \in 1 .. Cardinality(Catalog) : GetRecommendations(r, u, s, n)
    BY <1>3
  <2>2. PICK books \in Recommendations(u, s, n) :
            Compute(r, [op |-> "recommend", user |-> u, books |-> books, at |-> now])
    BY <2>1 DEF GetRecommendations
  <2>3. WereNew(u, books, now) /\ now \in Int
    BY <2>2, AnswersAreNew, NewIsNew DEF DiscoveryInv, ShelvesTyped
  <2>4. PICK c : /\ c = [op |-> "recommend", user |-> u, books |-> books, at |-> now]
                 /\ Compute(r, c)
    BY <2>2
  <2> QED
    BY <2>3, <2>4, ComputedIsTrue
<1> QED
  BY <1>1, <1>2, <1>3

\* A request that ends, keeping an answer for u or nothing.
LEMMA EndedIsTrue ==
    ASSUME DiscoveryInv, NEW r \in DiscCalls, DiscDone(r), UNCHANGED <<model, local>>,
           NEW u, NEW a, rec' = rec \/ rec' = [rec EXCEPT ![u] = a],
           u \in Users => a.at \in Int /\ WereNew(u, a.books, a.at)
    PROVE  DiscoveryInv'
<1>1. discCall' = [discCall EXCEPT ![r] = DiscIdle] /\ UNCHANGED <<now, copies, absent>>
  BY DEF DiscDone
<1>2. /\ \A q \in DiscCalls : discCall'[q] = IF q = r THEN DiscIdle ELSE discCall[q]
      /\ discCall' = [q \in DiscCalls |-> discCall'[q]]
      /\ DiscIdle.op = "idle"
  BY <1>1 DEF DiscoveryInv, ShelvesTyped, DiscIdle
<1>3. /\ \A v \in Users : rec'[v] = rec[v] \/ (v = u /\ rec'[v] = a)
      /\ rec' = [v \in Users |-> rec'[v]]
  BY DEF DiscoveryInv, ShelvesTyped
<1>4. ShelvesTyped'
  BY <1>1, <1>2, <1>3 DEF DiscoveryInv, ShelvesTyped
<1>5. Later
  BY <1>1, NoTimePasses DEF DiscoveryInv
<1>6. ASSUME NEW v \in Users, rec'[v] # NoRec
      PROVE  rec'[v].at \in Int /\ WereNew(v, rec[v].books, rec[v].at)'
  <2>1. PICK e : e = rec'[v]
    OBVIOUS
  <2>2. e.at \in Int /\ WereNew(v, e.books, e.at)
    BY <1>3, <1>6, <2>1 DEF DiscoveryInv, AnswersTrue
  <2>3. WereNew(v, e.books, e.at)'
    BY <1>5, <2>2, StillNew
  <2> QED
    BY <2>1, <2>2, <2>3 DEF WereNew
<1>7. ASSUME NEW q \in DiscCalls, discCall'[q].op = "recommend"
      PROVE  /\ discCall'[q].user \in Users /\ discCall'[q].at \in Int
             /\ WereNew(discCall[q].user, discCall[q].books, discCall[q].at)'
  <2>1. discCall'[q] = discCall[q] /\ discCall[q].op = "recommend"
    BY <1>2, <1>7
  <2>2. PICK d : d = discCall[q]
    OBVIOUS
  <2>3. d.user \in Users /\ d.at \in Int /\ WereNew(d.user, d.books, d.at)
    BY <2>1, <2>2 DEF DiscoveryInv, AnswersTrue
  <2>4. WereNew(d.user, d.books, d.at)'
    BY <1>5, <2>3, StillNew
  <2> QED
    BY <2>1, <2>2, <2>3, <2>4 DEF WereNew
<1>8. AnswersTrue'
  BY <1>6, <1>7 DEF AnswersTrue
<1>9. ModelsTrue'
  BY <1>5, ModelStays DEF DiscoveryInv, ModelsTrue
<1> QED
  BY <1>4, <1>8, <1>9 DEF DiscoveryInv

LEMMA EndsKeepTrue ==
    ASSUME DiscoveryInv, NEW r \in DiscCalls,
           InterestsSaved(r) \/ Recomputed(r) \/ RecKept(r) \/ DiscLost(r)
    PROVE  DiscoveryInv'
<1>1. CASE InterestsSaved(r) \/ Recomputed(r) \/ DiscLost(r)
  <2>1. DiscDone(r) /\ UNCHANGED <<rec, model, local>>
    BY <1>1 DEF InterestsSaved, Recomputed, DiscLost
  <2> QED
    BY <2>1, ClockAssumption, EndedIsTrue
<1>2. CASE RecKept(r)
  <2>1. PICK c : c = discCall[r]
    OBVIOUS
  <2>2. PICK a : a = [until |-> now + RecLife, books |-> c.books, at |-> c.at]
    OBVIOUS
  <2>3. /\ c.op = "recommend" /\ rec' = [rec EXCEPT ![c.user] = a]
        /\ DiscDone(r) /\ UNCHANGED <<model, local>>
    BY <1>2, <2>1, <2>2 DEF RecKept
  <2>4. c.user \in Users /\ a.at \in Int /\ WereNew(c.user, a.books, a.at)
    BY <2>1, <2>2, <2>3 DEF DiscoveryInv, AnswersTrue
  <2> QED
    BY <2>3, <2>4, EndedIsTrue
<1> QED
  BY <1>1, <1>2

\* Every model, learnt now or taken over, is right about what is not rated.
LEMMA ModelsKeepTrue ==
    ASSUME DiscoveryInv, NEW p \in Processes, Retrain(p) \/ LoadModel(p) \/ ProcessRestarts(p)
    PROVE  DiscoveryInv'
<1>1. UNCHANGED <<now, copies, absent, rec, discCall>>
  BY DEF Retrain, LoadModel, ProcessRestarts
<1>2. Later /\ now \in Nat
  BY <1>1, NoTimePasses DEF DiscoveryInv, ShelvesTyped
<1>3. AnswersTrue'
  BY <1>1, <1>2, StillNew DEF DiscoveryInv, AnswersTrue
<1>4. PICK m : /\ local' = [local EXCEPT ![p] = m] /\ (m # NoModel => ModelTrue(m))
               /\ \/ model' = model \/ (model'.learnt = m /\ ModelTrue(m))
  <2>1. CASE Retrain(p)
    <3>1. PICK m : /\ m = [books |-> Qualifying, ratings |-> [u \in Users |-> RatedBy(u)], at |-> now]
                   /\ model' = [until |-> now + ModelLife, learnt |-> m]
                   /\ local' = [local EXCEPT ![p] = m]
      BY <2>1 DEF Retrain
    <3>2. m.books \subseteq Catalog /\ m.at = now /\ m.ratings = [u \in Users |-> RatedBy(u)]
      BY <3>1 DEF Qualifying
    <3>3. ASSUME NEW u \in Users, NEW b \in Catalog \ m.ratings[u]
          PROVE  LastNotRated(u, b) >= m.at
      <4>1. copies[<<u, b>>].status \notin Rated
        BY <3>2 DEF RatedBy
      <4> QED
        BY <1>2, <3>2, <4>1 DEF LastNotRated
    <3>4. ModelTrue(m)
      BY <1>2, <3>2, <3>3 DEF ModelTrue
    <3>5. model'.learnt = m
      BY <3>1
    <3> QED
      BY <3>1, <3>4, <3>5
  <2>2. CASE LoadModel(p)
    <3>1. local' = [local EXCEPT ![p] = model.learnt] /\ model' = model /\ model.until > now
      BY <2>2 DEF LoadModel
    <3>2. model.until # Never
      BY <1>2, <3>1 DEF Never
    <3>3. PICK m : m = model.learnt
      OBVIOUS
    <3> QED
      BY <3>1, <3>2, <3>3 DEF DiscoveryInv, ModelsTrue
  <2>3. CASE ProcessRestarts(p)
    BY <2>3 DEF ProcessRestarts
  <2> QED
    BY <2>1, <2>2, <2>3
<1>5. /\ \A q \in Processes : local'[q] = IF q = p THEN m ELSE local[q]
      /\ local' = [q \in Processes |-> local'[q]]
  BY <1>4 DEF DiscoveryInv, ShelvesTyped
<1>6. ShelvesTyped'
  BY <1>1, <1>5 DEF DiscoveryInv, ShelvesTyped
<1>7. ASSUME NEW q \in Processes, local'[q] # NoModel
      PROVE  ModelTrue(local[q])'
  <2>1. PICK n : n = local'[q]
    OBVIOUS
  <2>2. ModelTrue(n)
    BY <1>4, <1>5, <1>7, <2>1 DEF DiscoveryInv, ModelsTrue
  <2>3. ModelTrue(n)'
    BY <1>2, <2>2, ModelStays
  <2> QED
    BY <2>1, <2>3 DEF ModelTrue
<1>8. ASSUME model'.until # Never
      PROVE  ModelTrue(model.learnt)'
  <2>1. PICK n : n = model'.learnt
    OBVIOUS
  <2>2. ModelTrue(n)
    BY <1>4, <1>8, <2>1 DEF DiscoveryInv, ModelsTrue
  <2>3. ModelTrue(n)'
    BY <1>2, <2>2, ModelStays
  <2> QED
    BY <2>1, <2>3 DEF ModelTrue
<1>9. ModelsTrue'
  BY <1>7, <1>8 DEF ModelsTrue
<1> QED
  BY <1>3, <1>6, <1>9 DEF DiscoveryInv

LEMMA ShelvesKeepTrue ==
    ASSUME DiscoveryInv, NEW u \in Users, NEW b \in Catalog,
           DropCopy(u, b) \/ \E s \in Rated \cup {"paused", "dropped"} : KeepCopy(u, b, s)
    PROVE  DiscoveryInv'
<1>1. ShelvesTyped' /\ Later
  BY CopyKept, CopyDropped DEF DiscoveryInv
<1>2. UNCHANGED <<rec, discCall, model, local>>
  BY DEF DropCopy, KeepCopy
<1> QED
  BY <1>1, <1>2, KeptStaysTrue DEF DiscoveryInv

LEMMA TimeKeepsTrue ==
    ASSUME DiscoveryInv, now' \in Nat, now' >= now, UNCHANGED discovery
    PROVE  DiscoveryInv'
<1>1. UNCHANGED <<copies, absent, rec, discCall, model, local>>
  BY DEF discovery
<1>2. Later
  BY <1>1, NothingNewer DEF DiscoveryInv
<1>3. ShelvesTyped'
  BY <1>1 DEF DiscoveryInv, ShelvesTyped
<1> QED
  BY <1>1, <1>2, <1>3, KeptStaysTrue DEF DiscoveryInv

LEMMA ModelsRecommendUnrated ==
    ASSUME NEW p, NEW u, NEW b \in Recommend(p, u)
    PROVE  local[p] # NoModel /\ b \in local[p].books \ local[p].ratings[u]
BY DEF Recommend

LEMMA TrueIsNew ==
    ASSUME DiscoveryInv
    PROVE  RecommendedWasNew
<1>1. ASSUME NEW u \in Users, rec[u] # NoRec, NEW b \in rec[u].books
      PROVE  (IF copies[<<u, b>>] = Off THEN now ELSE absent[<<u, b>>].off) >= rec[u].at
  BY <1>1 DEF DiscoveryInv, AnswersTrue, WereNew, LastOffShelf
<1>2. ASSUME NEW p \in Processes, NEW u \in Users, NEW b \in Recommend(p, u)
      PROVE  (IF copies[<<u, b>>].status \in Rated THEN absent[<<u, b>>].unrated ELSE now) >= local[p].at
  <2>1. ModelTrue(local[p]) /\ b \in Catalog \ local[p].ratings[u]
    BY ModelsRecommendUnrated DEF DiscoveryInv, ModelsTrue, ModelTrue
  <2> QED
    BY <2>1 DEF ModelTrue, LastNotRated
<1> QED
  BY <1>1, <1>2 DEF RecommendedWasNew

LEMMA DiscoveryInvStart ==
    ASSUME ClockInit, NEW initial \in [Users \X Catalog -> {Off} \cup [status : Rated, at : {0}]],
           DiscoveryStart(initial)
    PROVE  DiscoveryInv
<1>1. now \in Nat /\ Never \in Int /\ Never <= now
  BY DEF ClockInit, Never
<1>2. /\ \A x \in Users \X Catalog : absent[x] = [off |-> Never, unrated |-> Never]
      /\ copies = [x \in Users \X Catalog |-> copies[x]] /\ absent = [x \in Users \X Catalog |-> absent[x]]
      /\ rec = [u \in Users |-> NoRec] /\ local = [p \in Processes |-> NoModel]
      /\ discCall = [r \in DiscCalls |-> DiscIdle] /\ model = [until |-> Never]
  BY DEF DiscoveryStart
<1>3. ShelvesTyped
  BY <1>1, <1>2 DEF ShelvesTyped
<1>4. DiscIdle.op = "idle" /\ model.until = Never
  BY <1>2 DEF DiscIdle
<1> QED
  BY <1>2, <1>3, <1>4 DEF DiscoveryInv, AnswersTrue, ModelsTrue

LEMMA DiscoveryStep ==
    ASSUME DiscoveryInv, [DiscoveryNext \/ (Tick /\ UNCHANGED discovery)]_DiscoveryVars
    PROVE  DiscoveryInv'
<1>1. CASE DiscoveryNext
  BY <1>1, ShelvesKeepTrue, RequestsKeepTrue, EndsKeepTrue, ModelsKeepTrue DEF DiscoveryNext
<1>2. CASE Tick /\ UNCHANGED discovery
  BY <1>2, TimeKeepsTrue DEF Tick, DiscoveryInv, ShelvesTyped
<1>3. CASE UNCHANGED DiscoveryVars
  BY <1>3, TimeKeepsTrue DEF DiscoveryVars, DiscoveryInv, ShelvesTyped
<1> QED
  BY <1>1, <1>2, <1>3

\* What a reader is recommended was new to the reader when it was worked out,
\* by whichever strategy, fallback, channel or model, though Redis or a process
\* has kept it since.
THEOREM RecommendationsWereNew == DiscoverySpec => []RecommendedWasNew
<1>1. DiscoverySpec => []DiscoveryInv
  <2>1. ClockInit /\ (\E initial \in [Users \X Catalog -> {Off} \cup [status : Rated, at : {0}]] :
                         DiscoveryStart(initial)) => DiscoveryInv
    BY DiscoveryInvStart
  <2> QED
    BY <2>1, DiscoveryStep, PTL DEF DiscoverySpec
<1>2. DiscoveryInv => RecommendedWasNew
  BY TrueIsNew
<1> QED
  BY <1>1, <1>2, PTL

=================================================================================
