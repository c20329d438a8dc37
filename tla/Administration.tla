------------------------------ MODULE Administration ------------------------------
(***************************************************************************)
(* The administrators (domains/admin, scripts/promote_admin.py): a flag on a *)
(* user that an operator sets first and that administrators then give and    *)
(* take, never the last one's.  The figures of the console are left out.     *)
(***************************************************************************)
EXTENDS Accounts

CONSTANT AdminCalls    \* requests that may be in flight at a time

VARIABLES
    admins,      \* users.is_admin
    adminCall,   \* what each request in flight will write
    founded,     \* history: there has been an administrator
    excuse       \* history: what may have left the console without one

administration == <<admins, adminCall, founded, excuse>>

AdminIdle == [op |-> "idle"]

AdministrationInit ==
    /\ admins = {}
    /\ adminCall = [r \in AdminCalls |-> AdminIdle]
    /\ founded = FALSE
    /\ excuse = {}

\* count_admins leaves deleted accounts out.
LiveAdmins == {u \in admins : Alive(u)}

\* promote_user of the script; an administrator stays one.
PromoteUser(u) ==
    /\ Alive(u)
    /\ admins' = admins \cup {u}
    /\ founded' = TRUE
    /\ UNCHANGED <<now, accounts, adminCall, excuse>>

PatchLoaded(r, u, flag) ==
    /\ adminCall[r] = AdminIdle
    /\ adminCall' = [adminCall EXCEPT ![r] = [op |-> "patch", user |-> u, flag |-> flag]]
    /\ excuse' = IF ~flag /\ \E q \in AdminCalls : adminCall[q].op = "patch" /\ ~adminCall[q].flag
                 THEN excuse \cup {"overlap"} ELSE excuse
    /\ UNCHANGED <<now, accounts, admins, founded>>

\* patch_user of an administrator's, who may be the one it is about.
PatchUser(r, caller, u, flag) ==
    /\ caller \in LiveAdmins
    /\ ~flag => /\ Alive(u)
                /\ u \in admins => Cardinality(LiveAdmins) > 1
    /\ PatchLoaded(r, u, flag)

\* The UPDATE passes an account over that is deleted by now.
UserPatched(r) ==
    LET u == adminCall[r].user IN
    /\ adminCall[r].op = "patch"
    /\ admins' = IF ~Alive(u) THEN admins
                 ELSE IF adminCall[r].flag THEN admins \cup {u} ELSE admins \ {u}
    /\ adminCall' = [adminCall EXCEPT ![r] = AdminIdle]
    /\ UNCHANGED <<now, accounts, founded, excuse>>

PatchLost(r) ==
    /\ adminCall[r] # AdminIdle
    /\ adminCall' = [adminCall EXCEPT ![r] = AdminIdle]
    /\ UNCHANGED <<now, accounts, admins, founded, excuse>>

\* delete_account asks nobody whether another administrator is left.
AdminLeaves(c) ==
    /\ DeleteAccount(c)
    /\ excuse' = IF session[c].user \in admins THEN excuse \cup {"deletion"} ELSE excuse
    /\ UNCHANGED <<admins, adminCall, founded>>

AdministrationNext ==
    \/ \E u \in Users :
          \/ PromoteUser(u)
          \/ \E r \in AdminCalls, caller \in Users, flag \in BOOLEAN : PatchUser(r, caller, u, flag)
    \/ \E r \in AdminCalls : UserPatched(r) \/ PatchLost(r)
    \/ \E c \in Clients : AdminLeaves(c)

AdministrationTypeOK ==
    /\ \A u \in admins : account[u].life # "unused"
    /\ admins # {} => founded
    /\ excuse \subseteq {"overlap", "deletion"}

\* Once there is an administrator there is one, unless two revocations
\* overlapped, each of which counted the other's, or an administrator deleted
\* the account: the write skew and the gap of AdminService.patch_user, which
\* guards the last one.
LastAdminStays == founded => LiveAdmins # {} \/ excuse # {}

================================================================================
