--------------------------- MODULE AccountsProofs ---------------------------
(***************************************************************************)
(* Theorems about accounts, for any number of administrators, provisioning *)
(* calls, changes of status and faults.                                    *)
(***************************************************************************)
EXTENDS Accounts, TLAPS

-----------------------------------------------------------------------------
(* The invariant.                                                          *)

\* How far a call has come says what Keycloak and the database hold of it.
Progress(c) ==
    /\ call[c].pc \in {"idle", "creating"} => kc[c].state = "none" /\ status[c] = "none"
    /\ call[c].pc = "role" => kc[c].state = "enabled" /\ status[c] = "none"
    /\ call[c].pc = "password" =>
           kc[c].state = "enabled" /\ kc[c].role /\ status[c] = "none"
    /\ call[c].pc = "writing" => kc[c] = Ready /\ status[c] = "none"
    /\ call[c].pc \in {"deleting", "disabling"} => status[c] = "none" \/ call[c].lostCommit
    /\ call[c].pc = "done" =>
           /\ kc[c].state = "enabled" /\ status[c] = "none" =>
                  \/ call[c].answer \in {"orphaned", "crashed", "unhandled"}
                  \/ call[c].lostCreate
           /\ status[c] # "none" => \/ call[c].lostCommit
                                    \/ call[c].answer = "created" /\ kc[c] = Ready

\* Who changes a status is an active administrator and no target of the change,
\* as long as no two administrators have crossed.
Acting(u) ==
    update[u].pc = "updating" =>
        /\ update[u].actor \in Admins
        /\ update[u].target \in Users
        /\ update[u].status \in Statuses
        /\ update[u].actor # update[u].target
        /\ crossed \/ status[update[u].actor] = "active"

AccountsInv ==
    /\ AccountsTypeOK
    /\ \A c \in Calls : Progress(c)
    /\ \A u \in Updates : Acting(u)
    /\ crossed \/ \E a \in Admins : status[a] = "active"

\* An administrator with an account of their own signs in.
LEMMA AdminsAccess ==
    ASSUME NEW a \in Admins
    PROVE  Access(a) = "admitted" <=> status[a] = "active"
BY DEF Access, SignsIn

-----------------------------------------------------------------------------
(* Provisioning: a call writes its own rows only.                          *)

\* It is enough to look at the call's own rows.
LEMMA OwnRows ==
    ASSUME AccountsInv, AccountsTypeOK', NEW c \in Calls, Progress(c)',
           \A d \in Calls \ {c} : call'[d] = call[d] /\ kc'[d] = kc[d],
           \A u \in Users \ {c} : status'[u] = status[u],
           UNCHANGED <<update, crossed>>
    PROVE  AccountsInv'
<1>1. \A d \in Calls : Progress(d)'
    BY AccountsAssumption DEF AccountsInv, Progress, Users
<1>2. \A a \in Admins : status'[a] = status[a]
    BY AccountsAssumption DEF Users
<1>3. \A u \in Updates : Acting(u)'
    BY <1>2 DEF AccountsInv, Acting
<1> QED
    BY <1>1, <1>2, <1>3 DEF AccountsInv

\* What Go, Answer and the writes to Keycloak do to those rows.
LEMMA GoRow ==
    ASSUME call \in [Calls -> CallRows], NEW c \in Calls, NEW pc \in Steps, Go(c, pc)
    PROVE  /\ call' \in [Calls -> CallRows]
           /\ call'[c].pc = pc /\ call'[c].answer = call[c].answer
           /\ call'[c].lostCreate = call[c].lostCreate
           /\ call'[c].lostCommit = call[c].lostCommit
           /\ \A d \in Calls \ {c} : call'[d] = call[d]
BY DEF Go, CallRows

LEMMA AnswerRow ==
    ASSUME call \in [Calls -> CallRows], NEW c \in Calls,
           NEW pc \in {"done", "deleting"}, NEW answer \in Answers,
           call' = [call EXCEPT ![c].pc = pc, ![c].answer = answer]
    PROVE  /\ call' \in [Calls -> CallRows]
           /\ call'[c].pc = pc /\ call'[c].answer = answer
           /\ call'[c].lostCreate = call[c].lostCreate
           /\ call'[c].lostCommit = call[c].lostCommit
           /\ \A d \in Calls \ {c} : call'[d] = call[d]
BY DEF CallRows, Steps

LEMMA StateRow ==
    ASSUME kc \in [Calls -> KeycloakUsers], NEW c \in Calls,
           NEW s \in {"none", "enabled", "disabled", "deleted"},
           kc' = [kc EXCEPT ![c].state = s]
    PROVE  /\ kc' \in [Calls -> KeycloakUsers]
           /\ kc'[c].state = s
           /\ kc'[c].role = kc[c].role /\ kc'[c].password = kc[c].password
           /\ \A d \in Calls \ {c} : kc'[d] = kc[d]
BY DEF KeycloakUsers

LEMMA RoleRow ==
    ASSUME kc \in [Calls -> KeycloakUsers], NEW c \in Calls, kc' = [kc EXCEPT ![c].role = TRUE]
    PROVE  /\ kc' \in [Calls -> KeycloakUsers]
           /\ kc'[c].state = kc[c].state /\ kc'[c].role
           /\ \A d \in Calls \ {c} : kc'[d] = kc[d]
BY DEF KeycloakUsers

LEMMA PasswordRow ==
    ASSUME kc \in [Calls -> KeycloakUsers], NEW c \in Calls, kc' = [kc EXCEPT ![c].password = TRUE]
    PROVE  /\ kc' \in [Calls -> KeycloakUsers]
           /\ kc'[c].state = kc[c].state /\ kc'[c].role = kc[c].role
           /\ kc'[c].state = "enabled" /\ kc'[c].role => kc'[c] = Ready
           /\ \A d \in Calls \ {c} : kc'[d] = kc[d]
BY DEF KeycloakUsers, Ready

LEMMA ProvisioningKeeps ==
    ASSUME AccountsInv, NEW c \in Calls, Provisioning(c)
    PROVE  AccountsInv'
<1> USE DEF AccountsTypeOK
<1>1. CASE Requested(c)
    <2>1. CASE Go(c, "creating")
        BY <1>1, <2>1, GoRow, OwnRows DEF Requested, AccountsInv, Progress, Steps
    <2>2. CASE Answer(c, "duplicate")
        BY <1>1, <2>2, AnswerRow, OwnRows DEF Requested, Answer, Answers, AccountsInv, Progress
    <2> QED
        BY <1>1, <2>1, <2>2 DEF Requested
<1>2. CASE CreateUser(c)
    <2>1. CASE Answer(c, "duplicate") /\ UNCHANGED kc
        BY <1>2, <2>1, AnswerRow, OwnRows DEF CreateUser, Answer, Answers, AccountsInv, Progress
    <2>2. CASE Go(c, "role") /\ kc' = [kc EXCEPT ![c].state = "enabled"]
        <3>1. /\ call' \in [Calls -> CallRows] /\ call'[c].pc = "role"
              /\ call'[c].answer = call[c].answer
              /\ call'[c].lostCreate = call[c].lostCreate /\ call'[c].lostCommit = call[c].lostCommit
              /\ \A d \in Calls \ {c} : call'[d] = call[d]
            BY <1>2, <2>2, GoRow DEF CreateUser, AccountsInv, Steps
        <3>2. /\ kc' \in [Calls -> KeycloakUsers] /\ kc'[c].state = "enabled"
              /\ \A d \in Calls \ {c} : kc'[d] = kc[d]
            BY <1>2, <2>2, StateRow DEF CreateUser, AccountsInv, Progress
        <3>3. Progress(c)'
            BY <1>2, <2>2, <3>1, <3>2 DEF CreateUser, AccountsInv, Progress
        <3> QED
            BY <1>2, <2>2, <3>1, <3>2, <3>3, OwnRows DEF CreateUser, AccountsInv
    <2> QED
        BY <1>2, <2>1, <2>2 DEF CreateUser
<1>3. CASE AssignRole(c)
    <2>1. /\ call' \in [Calls -> CallRows] /\ call'[c].pc = "password"
          /\ call'[c].answer = call[c].answer
          /\ call'[c].lostCreate = call[c].lostCreate /\ call'[c].lostCommit = call[c].lostCommit
          /\ \A d \in Calls \ {c} : call'[d] = call[d]
        BY <1>3, GoRow DEF AssignRole, AccountsInv, Steps
    <2>2. /\ kc' \in [Calls -> KeycloakUsers] /\ kc'[c].state = "enabled" /\ kc'[c].role
          /\ \A d \in Calls \ {c} : kc'[d] = kc[d]
        BY <1>3, RoleRow DEF AssignRole, AccountsInv, Progress
    <2>3. Progress(c)'
        BY <1>3, <2>1, <2>2 DEF AssignRole, AccountsInv, Progress
    <2> QED
        BY <1>3, <2>1, <2>2, <2>3, OwnRows DEF AssignRole, AccountsInv
<1>4. CASE SetPassword(c)
    <2>1. /\ call' \in [Calls -> CallRows] /\ call'[c].pc = "writing"
          /\ call'[c].answer = call[c].answer
          /\ call'[c].lostCreate = call[c].lostCreate /\ call'[c].lostCommit = call[c].lostCommit
          /\ \A d \in Calls \ {c} : call'[d] = call[d]
        BY <1>4, GoRow DEF SetPassword, AccountsInv, Steps
    <2>2. /\ kc' \in [Calls -> KeycloakUsers] /\ kc'[c] = Ready
          /\ \A d \in Calls \ {c} : kc'[d] = kc[d]
            <3>1. kc[c].state = "enabled" /\ kc[c].role
            BY <1>4 DEF SetPassword, AccountsInv, Progress
        <3> QED
            BY <1>4, <3>1, PasswordRow DEF SetPassword, AccountsInv
    <2>3. Progress(c)'
        BY <1>4, <2>1, <2>2 DEF SetPassword, AccountsInv, Progress
    <2> QED
        BY <1>4, <2>1, <2>2, <2>3, OwnRows DEF SetPassword, AccountsInv
<1>5. CASE WriteAccount(c)
    <2>1. CASE status' = [status EXCEPT ![c] = "active"] /\ Answer(c, "created")
        BY <1>5, <2>1, AnswerRow, OwnRows
           DEF WriteAccount, Answer, Answers, AccountsInv, Progress, Users, Statuses
    <2>2. CASE Compensate(c, "failed") /\ UNCHANGED status
        BY <1>5, <2>2, AnswerRow, OwnRows
           DEF WriteAccount, Compensate, Answers, AccountsInv, Progress
    <2> QED
        BY <1>5, <2>1, <2>2 DEF WriteAccount
<1>6. CASE DeleteUser(c)
    <2>1. /\ call' \in [Calls -> CallRows] /\ call'[c].pc = "done"
          /\ call'[c].answer = call[c].answer
          /\ call'[c].lostCreate = call[c].lostCreate /\ call'[c].lostCommit = call[c].lostCommit
          /\ \A d \in Calls \ {c} : call'[d] = call[d]
        BY <1>6, GoRow DEF DeleteUser, AccountsInv, Steps
    <2>2. /\ kc' \in [Calls -> KeycloakUsers] /\ kc'[c].state = "deleted"
          /\ \A d \in Calls \ {c} : kc'[d] = kc[d]
        BY <1>6, StateRow DEF DeleteUser, AccountsInv, Progress
    <2>3. Progress(c)'
        BY <1>6, <2>1, <2>2 DEF DeleteUser, AccountsInv, Progress
    <2> QED
        BY <1>6, <2>1, <2>2, <2>3, OwnRows DEF DeleteUser, AccountsInv
<1>7. CASE DisableUser(c)
    <2>1. CASE kc[c].state = "deleted" /\ Answer(c, "orphaned") /\ UNCHANGED kc
        <3>1. /\ call' \in [Calls -> CallRows] /\ call'[c].pc = "done"
              /\ call'[c].lostCommit = call[c].lostCommit
              /\ \A d \in Calls \ {c} : call'[d] = call[d]
            BY <1>7, <2>1, AnswerRow DEF Answer, Answers, AccountsInv
        <3>2. Progress(c)'
            BY <1>7, <2>1, <3>1 DEF DisableUser, AccountsInv, Progress
        <3> QED
            BY <1>7, <2>1, <3>1, <3>2, OwnRows DEF DisableUser, AccountsInv
    <2>2. CASE Go(c, "done") /\ kc' = [kc EXCEPT ![c].state = "disabled"]
        <3>1. /\ call' \in [Calls -> CallRows] /\ call'[c].pc = "done"
              /\ call'[c].answer = call[c].answer
              /\ call'[c].lostCreate = call[c].lostCreate /\ call'[c].lostCommit = call[c].lostCommit
              /\ \A d \in Calls \ {c} : call'[d] = call[d]
            BY <1>7, <2>2, GoRow DEF DisableUser, AccountsInv, Steps
        <3>2. /\ kc' \in [Calls -> KeycloakUsers] /\ kc'[c].state = "disabled"
              /\ \A d \in Calls \ {c} : kc'[d] = kc[d]
            BY <1>7, <2>2, StateRow DEF DisableUser, AccountsInv, Progress
        <3>3. Progress(c)'
            BY <1>7, <2>2, <3>1, <3>2 DEF DisableUser, AccountsInv, Progress
        <3> QED
            BY <1>7, <2>2, <3>1, <3>2, <3>3, OwnRows DEF DisableUser, AccountsInv
    <2> QED
        BY <1>7, <2>1, <2>2 DEF DisableUser
<1> QED
    BY <1>1, <1>2, <1>3, <1>4, <1>5, <1>6, <1>7 DEF Provisioning

LEMMA OneMoreFault ==
    ASSUME faults \in 0..MaxFaults, Fault
    PROVE  faults' \in 0..MaxFaults
BY MaxFaultsAssumption DEF Fault

\* Whatever the lost request had done, a creation without its answer is remembered.
LEMMA CreateFailsKeeps ==
    ASSUME AccountsInv, NEW c \in Calls, NEW answer \in {"unavailable", "failed"},
           CreateFails(c, answer)
    PROVE  AccountsInv'
<1> USE DEF AccountsTypeOK
<1>1. faults' \in 0..MaxFaults
    BY OneMoreFault DEF CreateFails, AccountsInv
<1>2. kc[c].state = "none" /\ status[c] = "none" /\ answer \in Answers
    BY DEF CreateFails, AccountsInv, Progress, Answers
<1>3. CASE Answer(c, answer) /\ UNCHANGED kc
    <2>1. /\ call' \in [Calls -> CallRows] /\ call'[c].pc = "done"
          /\ \A d \in Calls \ {c} : call'[d] = call[d]
        BY <1>2, <1>3, AnswerRow DEF Answer, AccountsInv
    <2>2. Progress(c)'
        BY <1>2, <1>3, <2>1 DEF CreateFails, Progress
    <2> QED
        BY <1>1, <1>3, <2>1, <2>2, OwnRows DEF CreateFails, AccountsInv
<1>4. CASE /\ kc' = [kc EXCEPT ![c].state = "enabled"]
           /\ call' = [call EXCEPT ![c].pc = "done", ![c].answer = answer,
                                   ![c].lostCreate = TRUE]
    <2>1. /\ call' \in [Calls -> CallRows] /\ call'[c].pc = "done" /\ call'[c].lostCreate
          /\ \A d \in Calls \ {c} : call'[d] = call[d]
        BY <1>2, <1>4 DEF AccountsInv, CallRows, Steps
    <2>2. /\ kc' \in [Calls -> KeycloakUsers]
          /\ \A d \in Calls \ {c} : kc'[d] = kc[d]
        BY <1>4, StateRow DEF AccountsInv
    <2>3. Progress(c)'
        BY <1>2, <2>1 DEF CreateFails, Progress
    <2> QED
        BY <1>1, <2>1, <2>2, <2>3, OwnRows DEF CreateFails, AccountsInv
<1> QED
    BY <1>3, <1>4 DEF CreateFails

LEMMA SetupFailsKeeps ==
    ASSUME AccountsInv, NEW c \in Calls, NEW answer \in {"unavailable", "failed"},
           SetupFails(c, answer)
    PROVE  AccountsInv'
<1> USE DEF AccountsTypeOK
<1>1. faults' \in 0..MaxFaults
    BY OneMoreFault DEF SetupFails, AccountsInv
<1>2. status[c] = "none"
    BY DEF SetupFails, AccountsInv, Progress
<1>3. /\ call' \in [Calls -> CallRows] /\ call'[c].pc = "deleting"
      /\ \A d \in Calls \ {c} : call'[d] = call[d]
    BY AnswerRow DEF SetupFails, Compensate, Answers, AccountsInv
<1>4. /\ kc' \in [Calls -> KeycloakUsers]
      /\ \A d \in Calls \ {c} : kc'[d] = kc[d]
    BY RoleRow, PasswordRow DEF SetupFails, AccountsInv
<1>5. Progress(c)'
    BY <1>2, <1>3 DEF SetupFails, Progress
<1> QED
    BY <1>1, <1>3, <1>4, <1>5, OwnRows DEF SetupFails, AccountsInv

LEMMA RoleUnreadableKeeps ==
    ASSUME AccountsInv, NEW c \in Calls, RoleUnreadable(c)
    PROVE  AccountsInv'
<1> USE DEF AccountsTypeOK
<1>1. faults' \in 0..MaxFaults
    BY OneMoreFault DEF RoleUnreadable, AccountsInv
<1>2. /\ call' \in [Calls -> CallRows] /\ call'[c].pc = "done" /\ call'[c].answer = "unhandled"
      /\ \A d \in Calls \ {c} : call'[d] = call[d]
    BY AnswerRow DEF RoleUnreadable, Answer, Answers, AccountsInv
<1>3. Progress(c)'
    BY <1>2 DEF RoleUnreadable, AccountsInv, Progress
<1> QED
    BY <1>1, <1>2, <1>3, OwnRows DEF RoleUnreadable, AccountsInv

\* A commit whose answer is lost is remembered too.
LEMMA WriteFailsKeeps ==
    ASSUME AccountsInv, NEW c \in Calls, WriteFails(c)
    PROVE  AccountsInv'
<1> USE DEF AccountsTypeOK
<1>1. faults' \in 0..MaxFaults
    BY OneMoreFault DEF WriteFails, AccountsInv
<1>2. status[c] = "none"
    BY DEF WriteFails, AccountsInv, Progress
<1>3. CASE Compensate(c, "failed") /\ UNCHANGED status
    <2>1. /\ call' \in [Calls -> CallRows] /\ call'[c].pc = "deleting"
          /\ \A d \in Calls \ {c} : call'[d] = call[d]
        BY <1>3, AnswerRow DEF Compensate, Answers, AccountsInv
    <2>2. Progress(c)'
        BY <1>2, <1>3, <2>1 DEF Progress
    <2> QED
        BY <1>1, <1>3, <2>1, <2>2, OwnRows DEF WriteFails, AccountsInv
<1>4. CASE /\ status' = [status EXCEPT ![c] = "active"]
           /\ call' = [call EXCEPT ![c].pc = "deleting", ![c].answer = "failed",
                                   ![c].lostCommit = TRUE]
    <2>1. /\ call' \in [Calls -> CallRows] /\ call'[c].pc = "deleting" /\ call'[c].lostCommit
          /\ \A d \in Calls \ {c} : call'[d] = call[d]
        BY <1>4 DEF AccountsInv, CallRows, Steps, Answers
    <2>2. Progress(c)'
        BY <2>1 DEF Progress
    <2>3. /\ status' \in [Users -> Statuses \cup {"none"}]
          /\ \A u \in Users \ {c} : status'[u] = status[u]
        BY <1>4 DEF AccountsInv, Users, Statuses
    <2> QED
        BY <1>1, <2>1, <2>2, <2>3, OwnRows DEF WriteFails, AccountsInv
<1> QED
    BY <1>3, <1>4 DEF WriteFails

LEMMA DeleteFailsKeeps ==
    ASSUME AccountsInv, NEW c \in Calls, DeleteFails(c)
    PROVE  AccountsInv'
<1> USE DEF AccountsTypeOK
<1>1. faults' \in 0..MaxFaults
    BY OneMoreFault DEF DeleteFails, AccountsInv
<1>2. /\ call' \in [Calls -> CallRows] /\ call'[c].pc = "disabling"
      /\ call'[c].lostCommit = call[c].lostCommit
      /\ \A d \in Calls \ {c} : call'[d] = call[d]
    BY GoRow DEF DeleteFails, AccountsInv, Steps
<1>3. /\ kc' \in [Calls -> KeycloakUsers]
      /\ \A d \in Calls \ {c} : kc'[d] = kc[d]
    BY StateRow DEF DeleteFails, AccountsInv
<1>4. Progress(c)'
    BY <1>2 DEF DeleteFails, AccountsInv, Progress
<1> QED
    BY <1>1, <1>2, <1>3, <1>4, OwnRows DEF DeleteFails, AccountsInv

LEMMA DisableFailsKeeps ==
    ASSUME AccountsInv, NEW c \in Calls, DisableFails(c)
    PROVE  AccountsInv'
<1> USE DEF AccountsTypeOK
<1>1. faults' \in 0..MaxFaults
    BY OneMoreFault DEF DisableFails, AccountsInv
<1>2. /\ call' \in [Calls -> CallRows] /\ call'[c].pc = "done" /\ call'[c].answer = "orphaned"
      /\ call'[c].lostCommit = call[c].lostCommit
      /\ \A d \in Calls \ {c} : call'[d] = call[d]
    BY AnswerRow DEF DisableFails, Answer, AccountsInv, Answers
<1>3. /\ kc' \in [Calls -> KeycloakUsers]
      /\ \A d \in Calls \ {c} : kc'[d] = kc[d]
    BY StateRow DEF DisableFails, AccountsInv
<1>4. Progress(c)'
    BY <1>2 DEF DisableFails, AccountsInv, Progress
<1> QED
    BY <1>1, <1>2, <1>3, <1>4, OwnRows DEF DisableFails, AccountsInv

-----------------------------------------------------------------------------
(* Changes of status, and restarts.                                        *)

LEMMA RequestKeeps ==
    ASSUME AccountsInv, NEW u \in Updates, NEW actor \in Admins, NEW target \in Users,
           NEW new \in Statuses, UpdateRequested(u, actor, target, new)
    PROVE  AccountsInv'
<1> DEFINE row == [pc |-> "updating", actor |-> actor, target |-> target, status |-> new]
<1>1. row \in StatusChanges
    BY DEF StatusChanges
<1>2. status[actor] = "active" /\ actor # target
    BY AdminsAccess DEF UpdateRequested, NotOneself
<1>3. /\ update' \in [Updates -> StatusChanges]
      /\ update'[u] = row
      /\ \A v \in Updates \ {u} : update'[v] = update[v]
    BY <1>1 DEF UpdateRequested, AccountsInv, AccountsTypeOK
<1>4. \A v \in Updates : Acting(v)'
    BY <1>2, <1>3 DEF UpdateRequested, AccountsInv, Acting
<1>5. \A c \in Calls : Progress(c)'
    BY DEF UpdateRequested, AccountsInv, Progress
<1> QED
    BY <1>3, <1>4, <1>5 DEF UpdateRequested, AccountsInv, AccountsTypeOK

\* An account is suspended by another administrator, who stays; one that has a
\* change of their own under way is noted in crossed.
LEMMA UpdateKeeps ==
    ASSUME AccountsInv, NEW u \in Updates, UpdateAccountStatus(u)
    PROVE  AccountsInv'
<1> DEFINE target == update[u].target
           row == [NoUpdate EXCEPT !.pc = "done"]
<1>1. /\ update[u].pc = "updating" /\ update[u].actor \in Admins /\ target \in Users
      /\ update[u].status \in Statuses /\ update[u].actor # target
      /\ crossed \/ status[update[u].actor] = "active"
    BY DEF UpdateAccountStatus, AccountsInv, Acting
<1>2. row \in StatusChanges /\ row.pc = "done"
    BY DEF NoUpdate, StatusChanges
<1> HIDE DEF row
<1>3. /\ update' \in [Updates -> StatusChanges]
      /\ update'[u] = row
      /\ \A v \in Updates \ {u} : update'[v] = update[v]
    BY <1>2 DEF UpdateAccountStatus, AccountsInv, AccountsTypeOK, row
<1>4. /\ status' \in [Users -> Statuses \cup {"none"}]
      /\ \A x \in Users \ {target} : status'[x] = status[x]
      /\ status'[target] = IF status[target] = "none" THEN "none" ELSE update[u].status
    BY <1>1 DEF UpdateAccountStatus, AccountsInv, AccountsTypeOK
<1>5. crossed' \in BOOLEAN /\ (crossed => crossed')
    BY DEF UpdateAccountStatus, AccountsInv, AccountsTypeOK
<1>6. ASSUME NEW v \in Updates \ {u}, update[v].pc = "updating", update[v].actor = target,
             ~crossed'
      PROVE  update[u].status = "active"
    BY <1>1, <1>6 DEF UpdateAccountStatus, Statuses
<1>7. ASSUME NEW v \in Updates PROVE Acting(v)'
    <2>1. CASE v = u
        BY <1>2, <1>3, <2>1 DEF Acting
    <2>2. CASE v # u
        <3>1. Acting(v) /\ update'[v] = update[v]
            BY <1>3, <2>2 DEF AccountsInv
        <3>2. CASE update[v].actor = target
            BY <1>4, <1>5, <1>6, <2>2, <3>1, <3>2 DEF Acting, Users, Statuses
        <3>3. CASE update[v].actor # target
            BY <1>4, <1>5, <2>2, <3>1, <3>3 DEF Acting, Users
        <3> QED
            BY <3>2, <3>3
    <2> QED
        BY <2>1, <2>2
<1>8. ASSUME NEW c \in Calls PROVE Progress(c)'
    <2>1. (status[c] = "none") <=> (status'[c] = "none")
        BY <1>1, <1>4 DEF Users, Statuses
    <2> QED
        BY <2>1 DEF UpdateAccountStatus, AccountsInv, Progress
<1>9. crossed' \/ \E a \in Admins : status'[a] = "active"
    BY <1>1, <1>4, <1>5 DEF Users
<1> QED
    BY <1>3, <1>4, <1>5, <1>7, <1>8, <1>9 DEF UpdateAccountStatus, AccountsInv, AccountsTypeOK

LEMMA RestartKeeps ==
    ASSUME AccountsInv, ServerRestarts
    PROVE  AccountsInv'
<1>1. faults' \in 0..MaxFaults
    BY OneMoreFault DEF ServerRestarts, AccountsInv, AccountsTypeOK
<1>2. ASSUME NEW c \in Calls
      PROVE  call'[c] \in CallRows /\ Progress(c)'
    <2>1. CASE call[c].pc \in {"idle", "done"}
        BY <2>1 DEF ServerRestarts, AccountsInv, AccountsTypeOK, Progress
    <2>2. CASE call[c].pc \notin {"idle", "done"}
        <3>1. /\ call'[c] \in CallRows /\ call'[c].pc = "done" /\ call'[c].answer = "crashed"
              /\ call'[c].lostCommit = call[c].lostCommit
            BY <2>2 DEF ServerRestarts, AccountsInv, AccountsTypeOK, CallRows, Answers, Steps
        <3> QED
            BY <2>2, <3>1
            DEF ServerRestarts, AccountsInv, AccountsTypeOK, Progress, CallRows, Steps
    <2> QED
        BY <2>1, <2>2
<1>3. ASSUME NEW u \in Updates
      PROVE  update'[u] \in StatusChanges /\ Acting(u)'
    BY DEF ServerRestarts, AccountsInv, AccountsTypeOK, NoUpdate, StatusChanges, Acting
<1>4. call' \in [Calls -> CallRows] /\ update' \in [Updates -> StatusChanges]
    BY <1>2, <1>3 DEF ServerRestarts
<1> QED
    BY <1>1, <1>2, <1>3, <1>4 DEF ServerRestarts, AccountsInv, AccountsTypeOK

-----------------------------------------------------------------------------
(* The theorems.                                                           *)

LEMMA AccountsInit == Init => AccountsInv
<1> SUFFICES ASSUME Init PROVE AccountsInv
    OBVIOUS
<1>1. AccountsTypeOK
    <2>1. status \in [Users -> Statuses \cup {"none"}]
        BY DEF Init, Statuses
    <2>2. Nobody \in KeycloakUsers /\ Idle \in CallRows /\ NoUpdate \in StatusChanges
        BY DEF Nobody, KeycloakUsers, Idle, CallRows, Steps, Answers, NoUpdate, StatusChanges
    <2>3. faults \in 0..MaxFaults
        BY MaxFaultsAssumption DEF Init
    <2>4. crossed \in BOOLEAN
        BY DEF Init
    <2> QED
        BY <2>1, <2>2, <2>3, <2>4 DEF Init, AccountsTypeOK
<1>2. \A c \in Calls : Progress(c)
    BY AccountsAssumption DEF Init, Progress, Idle, Nobody, Users
<1>3. \A u \in Updates : Acting(u)
    BY DEF Init, Acting, NoUpdate
<1>4. PICK a \in Admins : TRUE
    BY AccountsAssumption
<1>5. status[a] = "active"
    BY <1>4 DEF Init, Users
<1> QED
    BY <1>1, <1>2, <1>3, <1>5 DEF AccountsInv

LEMMA AccountsStep == AccountsInv /\ [Next]_vars => AccountsInv'
<1> SUFFICES ASSUME AccountsInv, [Next]_vars PROVE AccountsInv'
    OBVIOUS
<1>1. CASE \E c \in Calls : Provisioning(c) \/ ProvisioningFault(c)
    <2>1. PICK c \in Calls : Provisioning(c) \/ ProvisioningFault(c)
        BY <1>1
    <2>2. CASE ProvisioningFault(c)
        BY <2>2, CreateFailsKeeps, SetupFailsKeeps, RoleUnreadableKeeps, WriteFailsKeeps, DeleteFailsKeeps,
           DisableFailsKeeps DEF ProvisioningFault
    <2> QED
        BY <2>1, <2>2, ProvisioningKeeps
<1>2. CASE \E u \in Updates : \/ \E a \in Admins, t \in Users, s \in Statuses :
                                      UpdateRequested(u, a, t, s)
                              \/ UpdateAccountStatus(u)
    BY <1>2, RequestKeeps, UpdateKeeps
<1>3. CASE ServerRestarts
    BY <1>3, RestartKeeps
<1>4. CASE UNCHANGED vars
    BY <1>4 DEF vars, AccountsInv, AccountsTypeOK, Progress, Acting
<1> QED
    BY <1>1, <1>2, <1>3, <1>4 DEF Next

LEMMA AccountsAlways == Spec => []AccountsInv
BY AccountsInit, AccountsStep, PTL DEF Spec

\* The Keycloak user behind an account can sign in, unless the answer to the
\* account's commit was lost and the user deleted for it
\* (AdminUserService.provision_account).
THEOREM EveryAccountUsable == Spec => []AccountsUsable
<1>1. AccountsInv => AccountsUsable
    BY DEF AccountsInv, AccountsTypeOK, CallRows, Steps, Progress, AccountsUsable
<1> QED
    BY <1>1, AccountsAlways, PTL

\* A call that has ended leaves no enabled Keycloak user behind that nobody was
\* told of, except where the answer was lost, the server died or the role's lookup
\* could not be read, and no account it did not report (the compensations of provision_account).
THEOREM NoOrphanUnreported == Spec => []NothingLeftBehind
<1>1. AccountsInv => NothingLeftBehind
    BY DEF AccountsInv, Progress, NothingLeftBehind
<1> QED
    BY <1>1, AccountsAlways, PTL

\* Refusing to change one's own account is enough to keep an administrator
\* active, however many of them there are, as long as no administrator is
\* suspended while changing another (update_account_status).
THEOREM AnAdministratorStays == Spec => []SomeoneAdministers
<1>1. AccountsInv => SomeoneAdministers
    BY AdminsAccess DEF AccountsInv, SomeoneAdministers
<1> QED
    BY <1>1, AccountsAlways, PTL

\* Identities, accounts, calls and changes of status keep their types, whatever fails.
THEOREM TypeCorrect == Spec => []AccountsTypeOK
BY AccountsAlways, PTL DEF AccountsInv

=============================================================================
