--------------------------------- MODULE Accounts ---------------------------------
(***************************************************************************)
(* Sign-in (domains/auth): one row of users per provider identity, never     *)
(* removed but marked deleted; a trial of Pro that starts with the row; the  *)
(* tokens a client holds, which nothing but time takes back; the device      *)
(* tokens pushes go to.  The profile's wording is left out.                  *)
(***************************************************************************)
EXTENDS ServiceClock

CONSTANTS
    Identities,        \* (provider, provider_sub) pairs
    Clients,           \* installs of the app
    DeviceTokens,      \* push tokens of installs
    LoginCalls,        \* logins that may be in flight at a time
    NoIdentity,
    Day,               \* ticks of a day
    TrialLength,       \* ticks of a trial, seven days in the code
    AccessLife, RefreshLife  \* ticks the two tokens are valid for

ASSUME AccountsAssumption ==
    /\ Day \in Nat \ {0} /\ TrialLength \in Nat
    /\ AccessLife \in Nat /\ RefreshLife \in Nat
    /\ NoIdentity \notin Identities

VARIABLES
    account,     \* users
    session,     \* what each client was last given
    device,      \* device_tokens: whose each token is
    login        \* what each login in flight has found

accounts == <<account, session, device, login>>

NoAccount == [life |-> "unused", identity |-> NoIdentity, trialEnds |-> Never, deleted |-> Never]

\* read: when the account behind the tokens was last looked at.
SignedOut == [user |-> NoUser, access |-> Never, refresh |-> Never, read |-> Never]

NoLogin == [op |-> "idle"]

AccountsInit ==
    /\ account = [u \in Users |-> NoAccount]
    /\ session = [c \in Clients |-> SignedOut]
    /\ device = [t \in DeviceTokens |-> NoUser]
    /\ login = [r \in LoginCalls |-> NoLogin]

Alive(u) == u \in Users /\ account[u].life = "live"

\* get_by_provider_sub passes deleted rows over.
OfIdentity(i) == {u \in Users : Alive(u) /\ account[u].identity = i}

\* uq_users_provider_sub does not.
IdentityTaken(i) == \E u \in Users : account[u].life # "unused" /\ account[u].identity = i

--------------------------------------------------------------------------------

IssueTokens(u, read) ==
    [user |-> u, access |-> now + AccessLife, refresh |-> now + RefreshLife, read |-> read]

\* Kakao, Apple and the development login look the identity up ...
Login(r, c, i) ==
    /\ login[r] = NoLogin
    /\ login' = [login EXCEPT ![r] = [op |-> "login", client |-> c, identity |-> i, read |-> now,
                    found |-> IF OfIdentity(i) = {} THEN NoUser
                              ELSE CHOOSE u \in OfIdentity(i) : TRUE]]
    /\ UNCHANGED <<now, account, session, device>>

LoginDone(r) ==
    /\ login' = [login EXCEPT ![r] = NoLogin]
    /\ UNCHANGED <<now, device>>

\* ... and sign the account in that was found, though it be deleted by now ...
LoggedIn(r) ==
    /\ login[r].op = "login" /\ login[r].found # NoUser
    /\ session' = [session EXCEPT ![login[r].client] =
                      IssueTokens(login[r].found, login[r].read)]
    /\ LoginDone(r)
    /\ UNCHANGED account

\* ... or insert one with its trial window.
SignedUp(r, u) ==
    /\ login[r].op = "login" /\ login[r].found = NoUser
    /\ ~IdentityTaken(login[r].identity)
    /\ account[u] = NoAccount
    /\ account' = [account EXCEPT ![u] =
                      [life |-> "live", identity |-> login[r].identity,
                       trialEnds |-> now + TrialLength, deleted |-> Never]]
    /\ session' = [session EXCEPT ![login[r].client] = IssueTokens(u, now)]
    /\ LoginDone(r)

\* USER_ALREADY_EXISTS: another first login was faster, or the identity's
\* account was deleted.
LoginRefused(r) ==
    /\ login[r].op = "login" /\ login[r].found = NoUser
    /\ IdentityTaken(login[r].identity)
    /\ LoginDone(r)
    /\ UNCHANGED <<account, session>>

RefreshUnread(c) ==
    /\ session[c].refresh > now
    /\ session' = [session EXCEPT ![c] = IssueTokens(@.user, now)]
    /\ UNCHANGED <<now, account, device, login>>

\* A refresh token is worth nothing once its account is deleted.
Refresh(c) ==
    /\ session[c].refresh > now
    /\ Alive(session[c].user)
    /\ session' = [session EXCEPT ![c] = IssueTokens(@.user, now)]
    /\ UNCHANGED <<now, account, device, login>>

\* get_current_user_id looks at the access token only, not at the account.
MayCall(c) == session[c].access > now

\* The token moves to whoever registered it last.
RegisterDevice(c, t) ==
    /\ MayCall(c)
    /\ device' = [device EXCEPT ![t] = session[c].user]
    /\ UNCHANGED <<now, account, session, login>>

\* The row and its device tokens stay; deleting again moves the mark.
DeleteAccount(c) ==
    /\ MayCall(c)
    /\ account' = [account EXCEPT ![session[c].user].life = "gone",
                                  ![session[c].user].deleted = now]
    /\ UNCHANGED <<now, session, device, login>>

\* get_trial_status: the last day counts to its end.
DaysRemaining(u) ==
    LET left == account[u].trialEnds - now
    IN  IF left > 0 THEN (left + Day - 1) \div Day ELSE 0

AccountsNext ==
    \/ \E r \in LoginCalls :
          \/ \E c \in Clients, i \in Identities : Login(r, c, i)
          \/ LoggedIn(r)
          \/ \E u \in Users : SignedUp(r, u)
          \/ LoginRefused(r)
    \/ \E c \in Clients :
          Refresh(c) \/ DeleteAccount(c) \/ \E t \in DeviceTokens : RegisterDevice(c, t)

--------------------------------------------------------------------------------

AccountsTypeOK ==
    /\ \A u \in Users :
          /\ account[u].life \in {"unused", "live", "gone"}
          /\ (account[u].life = "unused") = (account[u].identity = NoIdentity)
          /\ (account[u].life = "gone") = (account[u].deleted # Never)
    /\ \A c \in Clients : session[c].user \in Users \cup {NoUser}
    /\ \A t \in DeviceTokens : device[t] \in Users \cup {NoUser}

\* Nothing signs a client in to an account on the strength of a look at it after
\* its deletion: what clients of a deleted account still hold was earned before,
\* whatever logins, refreshes and deletions overlap (AuthService.refresh,
\* login_with_kakao, delete_account).  An identity whose account was deleted
\* does not get another, nor another trial.
DeletedStaysOut ==
    /\ \A c \in Clients : LET u == session[c].user IN
          (u # NoUser /\ account[u].life = "gone") => session[c].read <= account[u].deleted
    /\ \A u, v \in Users :
          (account[u].life # "unused" /\ account[v].identity = account[u].identity) => u = v

================================================================================
