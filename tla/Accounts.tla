------------------------------ MODULE Accounts ------------------------------
(***************************************************************************)
(* Accounts: an administrator provisions one in Keycloak and then in the   *)
(* database, undoing the first when the second fails; administrators       *)
(* suspend and reactivate accounts; a token opens the application only to  *)
(* an active account linked to its Keycloak user.                          *)
(*                                                                         *)
(* A provisioning call names the account it would create.  Requests to     *)
(* Keycloak and the commit may fail without effect, or take effect and     *)
(* lose their answer; the server may restart between any two of them.      *)
(***************************************************************************)
EXTENDS Integers, FiniteSets

CONSTANTS
    Admins,         \* administrators with an account of their own
    Calls,          \* provisioning requests
    Email, Number,  \* what each asks for
    Updates,        \* requests to change an account's status
    MaxFaults       \* bound on failed or lost requests and restarts

\* The first administrator is there before anybody is provisioned.
ASSUME AccountsAssumption == Admins # {} /\ Admins \cap Calls = {}
ASSUME MaxFaultsAssumption == MaxFaults \in Nat

Users == Admins \cup Calls

VARIABLES
    status,     \* identity.users: account_status of committed rows
    kc,         \* Keycloak: the user each call created
    call,       \* progress of each provisioning request
    update,     \* progress of each change of status
    crossed,    \* history: an administrator was suspended while changing a status
    faults

vars == <<status, kc, call, update, crossed, faults>>

Nobody == [state |-> "none", role |-> FALSE, password |-> FALSE]
Idle == [pc |-> "idle", answer |-> "none", lostCreate |-> FALSE, lostCommit |-> FALSE]
NoUpdate == [pc |-> "idle", actor |-> "none", target |-> "none", status |-> "none"]

Statuses == {"active", "suspended"}
Answers == {"none", "created", "duplicate", "unavailable", "failed", "orphaned", "crashed",
            "unhandled"}

Steps == {"idle", "creating", "role", "password", "writing", "deleting", "disabling", "done"}

CallRows == [pc : Steps, answer : Answers, lostCreate : BOOLEAN, lostCommit : BOOLEAN]
KeycloakUsers ==
    [state : {"none", "enabled", "disabled", "deleted"}, role : BOOLEAN, password : BOOLEAN]
StatusChanges ==
    [pc : {"idle", "updating", "done"}, actor : Admins \cup {"none"},
     target : Users \cup {"none"}, status : Statuses \cup {"none"}]

AccountsTypeOK ==
    /\ status \in [Users -> Statuses \cup {"none"}]
    /\ kc \in [Calls -> KeycloakUsers]
    /\ call \in [Calls -> CallRows]
    /\ update \in [Updates -> StatusChanges]
    /\ crossed \in BOOLEAN
    /\ faults \in 0..MaxFaults

Init ==
    /\ status = [u \in Users |-> IF u \in Admins THEN "active" ELSE "none"]
    /\ kc = [c \in Calls |-> Nobody]
    /\ call = [c \in Calls |-> Idle]
    /\ update = [u \in Updates |-> NoUpdate]
    /\ crossed = FALSE
    /\ faults = 0

-----------------------------------------------------------------------------
(* AuthenticationService.authenticate: sub -> identity.users -> usable account *)

SignsIn(u) == u \in Admins \/ (kc[u].state = "enabled" /\ kc[u].password)

Access(u) ==
    CASE ~SignsIn(u) -> "invalid_token"
      [] status[u] = "none" -> "not_linked"
      [] status[u] # "active" -> "inactive"
      [] OTHER -> "admitted"

-----------------------------------------------------------------------------
(* AdminUserService.provision_account *)

\* uq_users_email and the registration or employee number's unique index.
Conflict(c) ==
    \E d \in Calls \ {c} : /\ status[d] # "none"
                           /\ Email[d] = Email[c] \/ Number[d] = Number[c]

\* Keycloak keeps one user per name, a disabled one included.
Taken(c) ==
    \E d \in Calls \ {c} : Email[d] = Email[c] /\ kc[d].state \in {"enabled", "disabled"}

Fault == faults < MaxFaults /\ faults' = faults + 1

Go(c, pc) == call' = [call EXCEPT ![c].pc = pc]

Answer(c, answer) == call' = [call EXCEPT ![c].pc = "done", ![c].answer = answer]

\* Faulty variant: the failure is answered and nothing undone.
AnswerAtOnce(c, answer) == call' = [call EXCEPT ![c].pc = "done", ![c].answer = answer]

\* What failed is answered once the compensation has been tried.
Compensate(c, answer) == call' = [call EXCEPT ![c].pc = "deleting", ![c].answer = answer]

Requested(c) ==
    /\ call[c].pc = "idle"
    /\ \E a \in Admins : Access(a) = "admitted"
    /\ IF Conflict(c) THEN Answer(c, "duplicate") ELSE Go(c, "creating")
    /\ UNCHANGED <<status, kc, update, crossed, faults>>

CreateUser(c) ==
    /\ call[c].pc = "creating"
    /\ \/ /\ Taken(c)
          /\ Answer(c, "duplicate")
          /\ UNCHANGED kc
       \/ /\ ~Taken(c)
          /\ Go(c, "role")
          /\ kc' = [kc EXCEPT ![c].state = "enabled"]
    /\ UNCHANGED <<status, update, crossed, faults>>

\* Without an identifier there is nothing to compensate, whether or not
\* Keycloak created the user before its answer was lost or came without one.
CreateFails(c, answer) ==
    /\ call[c].pc = "creating"
    /\ Fault
    /\ \/ /\ Answer(c, answer)
          /\ UNCHANGED kc
       \/ /\ ~Taken(c)
          /\ kc' = [kc EXCEPT ![c].state = "enabled"]
          /\ call' = [call EXCEPT ![c].pc = "done", ![c].answer = answer,
                                  ![c].lostCreate = TRUE]
    /\ UNCHANGED <<status, update, crossed>>

\* Faulty variant: the password step is skipped.
AssignRoleOnly(c) ==
    /\ call[c].pc = "role"
    /\ kc' = [kc EXCEPT ![c].role = TRUE]
    /\ Go(c, "writing")
    /\ UNCHANGED <<status, update, crossed, faults>>

AssignRole(c) ==
    /\ call[c].pc = "role"
    /\ kc' = [kc EXCEPT ![c].role = TRUE]
    /\ Go(c, "password")
    /\ UNCHANGED <<status, update, crossed, faults>>

SetPassword(c) ==
    /\ call[c].pc = "password"
    /\ kc' = [kc EXCEPT ![c].password = TRUE]
    /\ Go(c, "writing")
    /\ UNCHANGED <<status, update, crossed, faults>>

SetupFails(c, answer) ==
    /\ call[c].pc \in {"role", "password"}
    /\ Fault
    /\ \/ UNCHANGED kc
       \/ kc' = IF call[c].pc = "role" THEN [kc EXCEPT ![c].role = TRUE]
                                       ELSE [kc EXCEPT ![c].password = TRUE]
    /\ Compensate(c, answer)
    /\ UNCHANGED <<status, update, crossed>>

\* The role is looked up before it is assigned.  A lookup answered 200 with a body
\* that is no JSON raises an error the call does not handle: nothing is undone.
RoleUnreadable(c) ==
    /\ call[c].pc = "role"
    /\ Fault
    /\ Answer(c, "unhandled")
    /\ UNCHANGED <<status, kc, update, crossed>>

\* The row, the profile and the audit entry commit together or not at all.
WriteAccount(c) ==
    /\ call[c].pc = "writing"
    /\ \/ /\ ~Conflict(c)
          /\ status' = [status EXCEPT ![c] = "active"]
          /\ Answer(c, "created")
       \/ /\ Conflict(c)
          /\ Compensate(c, "failed")
          /\ UNCHANGED status
    /\ UNCHANGED <<kc, update, crossed, faults>>

WriteFails(c) ==
    /\ call[c].pc = "writing"
    /\ Fault
    /\ \/ /\ Compensate(c, "failed")
          /\ UNCHANGED status
       \/ /\ ~Conflict(c)
          /\ status' = [status EXCEPT ![c] = "active"]
          /\ call' = [call EXCEPT ![c].pc = "deleting", ![c].answer = "failed",
                                  ![c].lostCommit = TRUE]
    /\ UNCHANGED <<kc, update, crossed>>

\* A user already gone counts as deleted.
DeleteUser(c) ==
    /\ call[c].pc = "deleting"
    /\ kc' = [kc EXCEPT ![c].state = "deleted"]
    /\ Go(c, "done")
    /\ UNCHANGED <<status, update, crossed, faults>>

DeleteFails(c) ==
    /\ call[c].pc = "deleting"
    /\ Fault
    /\ \/ UNCHANGED kc
       \/ kc' = [kc EXCEPT ![c].state = "deleted"]
    /\ Go(c, "disabling")
    /\ UNCHANGED <<status, update, crossed>>

\* Keycloak knows no user to disable when the lost deletion took effect.
DisableUser(c) ==
    /\ call[c].pc = "disabling"
    /\ IF kc[c].state = "deleted"
       THEN Answer(c, "orphaned") /\ UNCHANGED kc
       ELSE Go(c, "done") /\ kc' = [kc EXCEPT ![c].state = "disabled"]
    /\ UNCHANGED <<status, update, crossed, faults>>

DisableFails(c) ==
    /\ call[c].pc = "disabling"
    /\ Fault
    /\ \/ UNCHANGED kc
       \/ kc[c].state = "enabled" /\ kc' = [kc EXCEPT ![c].state = "disabled"]
    /\ Answer(c, "orphaned")
    /\ UNCHANGED <<status, update, crossed>>

-----------------------------------------------------------------------------
(* AdminUserService.update_account_status *)

\* Faulty variant: one's own account is like any other.
AnyoneAtAll(actor, target) == TRUE

NotOneself(actor, target) == actor # target

\* The actor is authenticated before the transaction begins.
UpdateRequested(u, actor, target, new) ==
    /\ update[u].pc = "idle"
    /\ Access(actor) = "admitted"
    /\ NotOneself(actor, target)
    /\ update' = [update EXCEPT ![u] =
        [pc |-> "updating", actor |-> actor, target |-> target, status |-> new]]
    /\ UNCHANGED <<status, kc, call, crossed, faults>>

\* The row is locked, changed and read back in one transaction.
UpdateAccountStatus(u) ==
    /\ update[u].pc = "updating"
    /\ status' = [status EXCEPT ![update[u].target] =
        IF @ = "none" THEN @ ELSE update[u].status]
    /\ crossed' = (crossed \/ \E v \in Updates \ {u} :
        /\ update[v].pc = "updating" /\ update[v].actor = update[u].target
        /\ update[u].status = "suspended")
    /\ update' = [update EXCEPT ![u] = [NoUpdate EXCEPT !.pc = "done"]]
    /\ UNCHANGED <<kc, call, faults>>

-----------------------------------------------------------------------------

ServerRestarts ==
    /\ Fault
    /\ call' = [c \in Calls |->
        IF call[c].pc \in {"idle", "done"} THEN call[c]
        ELSE [call[c] EXCEPT !.pc = "done", !.answer = "crashed"]]
    /\ update' = [u \in Updates |->
        IF update[u].pc = "updating" THEN [NoUpdate EXCEPT !.pc = "done"] ELSE update[u]]
    /\ UNCHANGED <<status, kc, crossed>>

Provisioning(c) ==
    \/ Requested(c) \/ CreateUser(c) \/ AssignRole(c) \/ SetPassword(c)
    \/ WriteAccount(c) \/ DeleteUser(c) \/ DisableUser(c)

ProvisioningFault(c) ==
    \/ \E answer \in {"unavailable", "failed"} : CreateFails(c, answer) \/ SetupFails(c, answer)
    \/ RoleUnreadable(c) \/ WriteFails(c) \/ DeleteFails(c) \/ DisableFails(c)

Next ==
    \/ \E c \in Calls : Provisioning(c) \/ ProvisioningFault(c)
    \/ \E u \in Updates : \/ \E a \in Admins, t \in Users, s \in Statuses :
                                UpdateRequested(u, a, t, s)
                          \/ UpdateAccountStatus(u)
    \/ ServerRestarts

Spec == Init /\ [][Next]_vars

-----------------------------------------------------------------------------
(* Properties *)

Ready == [state |-> "enabled", role |-> TRUE, password |-> TRUE]

\* Whoever has an account can sign in: the Keycloak user behind a committed
\* row is enabled, has its role and its password.  Only a commit whose answer
\* was lost is compensated for, which leaves a row nobody can use.
AccountsUsable ==
    \A c \in Calls : status[c] # "none" => kc[c] = Ready \/ call[c].lostCommit

\* "Provisioning failed without leaving a known orphaned account"
\* (admin_users/exception.py:20): a Keycloak user left enabled without an
\* account is either reported by name, or the answer that would have named it
\* was lost, or the call ended without getting to undo anything, the server
\* restarting or the role's lookup being unreadable; and a failed call leaves no
\* account.
NothingLeftBehind ==
    \A c \in Calls : call[c].pc = "done" =>
        /\ kc[c].state = "enabled" /\ status[c] = "none" =>
               \/ call[c].answer \in {"orphaned", "crashed", "unhandled"}
               \/ call[c].lostCreate
        /\ status[c] # "none" => call[c].answer = "created" \/ call[c].lostCommit

\* Administrators cannot lock everybody out: refusing to change one's own
\* account keeps one of them active, unless two suspend each other at once.
SomeoneAdministers ==
    crossed \/ \E a \in Admins : Access(a) = "admitted"
=============================================================================
