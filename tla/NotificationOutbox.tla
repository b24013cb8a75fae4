------------------------- MODULE NotificationOutbox -------------------------
(***************************************************************************)
(* Who is told what: the producer, the reminder scheduler, device tokens   *)
(* and preferences, the parts of notification/ in front of the queue.      *)
(* The workers of the queue are PushDelivery's, and run beside them here:  *)
(* of what the outbox reads they change the tokens they deactivate.        *)
(* One session; each of its events is announced to each user in at most    *)
(* one notification, by the code that is checked here.                     *)
(***************************************************************************)
EXTENDS PushDelivery

CONSTANTS
    Users,          \* the students of the session
    Events,         \* notification types announced for it
    Reminder,       \* the one the scheduler announces, UPCOMING_CLASS
    Schedulers,     \* processes with the reminder scheduler enabled
    Types,          \* notification_types: active, configurable and the defaults
    Offers,         \* bound: the channels a user chooses between
    Audiences,      \* bound: the users an announcement is made to
    NoUser, NoPlan

Channels == [inApp : BOOLEAN, push : BOOLEAN]
Off      == [inApp |-> FALSE, push |-> FALSE]

ASSUME OutboxAssumption ==
    /\ Reminder \in Events
    /\ Schedulers \cap Events = {}
    /\ Types \in [Events -> [active : BOOLEAN, configurable : BOOLEAN, default : Channels]]
    /\ Offers \subseteq Channels
    /\ Audiences \subseteq SUBSET Users
    /\ Deliveries = Events \X Users \X Devices
    /\ \A d \in Deliveries : DeviceOf[d] = d[3]

VARIABLES
    owner,      \* device_tokens.user_id
    choice,     \* notification_preferences, the defaults where there is no row
    notice,     \* notifications of each event and user
    plan,       \* what an open transaction has read: who is told, and how
    phase       \* sessions.status and its start, as far as reminders look at them:
                \* a start that has passed leaves nobody to remind, as activation does

outboxVars == <<owner, choice, notice, plan, phase>>
allVars    == <<vars, outboxVars>>

Notice   == [copies : 0..2, visible : BOOLEAN]
Senders  == Schedulers \cup (Events \ {Reminder})

IsPlan(p) ==
    /\ DOMAIN p \subseteq Users
    /\ \A u \in DOMAIN p : p[u] \in [channels : Channels, devices : SUBSET Devices]

OutboxTypeOK ==
    /\ TypeOK
    /\ owner \in [Devices -> Users \cup {NoUser}]
    /\ choice \in [Users -> [Events -> Channels]]
    /\ notice \in [Events -> [Users -> Notice]]
    /\ DOMAIN plan = Senders
    /\ \A s \in Senders : plan[s] = NoPlan \/ IsPlan(plan[s])
    /\ phase \in {"scheduled", "started"}

OutboxInit ==
    /\ Init
    /\ owner = [t \in Devices |-> NoUser]
    /\ choice = [u \in Users |-> [e \in Events |-> Types[e].default]]
    /\ notice = [e \in Events |-> [u \in Users |->
                    [copies |-> 0, visible |-> FALSE]]]
    /\ plan = [s \in Senders |-> NoPlan]
    /\ phase = "scheduled"

-----------------------------------------------------------------------------
(* Device tokens and preferences.                                          *)

\* A token belongs to whoever presents it last.
RegisterDevice(u, t) ==
    /\ owner' = [owner EXCEPT ![t] = u]
    /\ TokenChange(t, TRUE)
    /\ UNCHANGED <<choice, notice, plan, phase>>

RevokeDevice(u, t) ==
    /\ owner[t] = u
    /\ Revoke(t)
    /\ UNCHANGED outboxVars

UpdatePreference(u, e, channels) ==
    /\ Types[e].active
    /\ Types[e].configurable
    /\ choice' = [choice EXCEPT ![u][e] = channels]
    /\ UNCHANGED <<vars, owner, notice, plan, phase>>

-----------------------------------------------------------------------------
(* Announcements.  A transaction reads the preferences and the tokens, and *)
(* inserts what follows from them; others commit in between.               *)

FetchUserPreferences(u, e) == IF Types[e].active THEN choice[u][e] ELSE Off

ActiveDeviceTokens(u) == {t \in Devices : owner[t] = u /\ active[t]}

PlanFor(U, e) ==
    [u \in U |-> LET channels == FetchUserPreferences(u, e) IN
        [channels |-> channels,
         devices  |-> IF channels.push THEN ActiveDeviceTokens(u) ELSE {}]]

Told(p) == {u \in DOMAIN p : p[u].channels # Off}

\* Faulty variant: deliveries join the plan, not the rows that were inserted.
AttemptsPlanned(e, p, U) ==
    {d \in Deliveries : d[1] = e /\ d[2] \in Told(p) /\ d[3] \in p[d[2]].devices}

Attempts(e, p, U) ==
    {d \in Deliveries : d[1] = e /\ d[2] \in U /\ d[3] \in p[d[2]].devices}

\* Notifications and queued deliveries of plan p, for the users of U.
Insert(e, p, U) ==
    /\ notice' = [notice EXCEPT ![e] = [u \in Users |->
            IF u \in U THEN [notice[e][u] EXCEPT !.copies = @ + 1,
                                                 !.visible = p[u].channels.inApp]
            ELSE notice[e][u]]]
    /\ row' = [d \in Deliveries |-> IF d \in Attempts(e, p, U) THEN Queued ELSE row[d]]
    /\ UNCHANGED <<active, workerVars, ghostVars>>

\* activate, cancel, launch and decide call the producer inside their own
\* transaction, once.
Announce(e, U) ==
    /\ e # Reminder
    /\ plan[e] = NoPlan
    /\ \A u \in Users : notice[e][u].copies = 0
    /\ plan' = [plan EXCEPT ![e] = PlanFor(U, e)]
    /\ UNCHANGED <<vars, owner, choice, notice, phase>>

\* The notifications are written in a savepoint of their own: where that fails, the
\* change behind them is committed and tells nobody.
CommitAnnouncement(e) ==
    /\ e # Reminder
    /\ plan[e] # NoPlan
    /\ \E U \in {Told(plan[e]), {}} : Insert(e, plan[e], U)
    /\ plan' = [plan EXCEPT ![e] = NoPlan]
    /\ phase' = "started"
    /\ UNCHANGED <<owner, choice>>

\* The transaction is rolled back, or the scheduler's cycle fails.
Rollback(s) ==
    /\ plan[s] # NoPlan
    /\ plan' = [plan EXCEPT ![s] = NoPlan]
    /\ UNCHANGED <<vars, owner, choice, notice, phase>>

\* Faulty variant: one reminder counts for the session, not for the student.
CandidatesOfSession ==
    {u \in Users : \A v \in Users : notice[Reminder][v].copies = 0}

\* One statement: its snapshot shows who has no reminder yet ...
RemindCandidates == {u \in Users : notice[Reminder][u].copies = 0}

StartScan(s) ==
    /\ plan[s] = NoPlan
    /\ phase = "scheduled"
    /\ Types[Reminder].active
    /\ RemindCandidates # {}
    /\ plan' = [plan EXCEPT ![s] = PlanFor(RemindCandidates, Reminder)]
    /\ UNCHANGED <<vars, owner, choice, notice, phase>>

\* Faulty variant: a plain insert.
FreshOrNot(U) == U

\* ... and its insert skips who has got one since (ON CONFLICT DO NOTHING);
\* deliveries join the rows that were inserted.
Fresh(U) == {u \in U : notice[Reminder][u].copies = 0}

EnqueueUpcoming(s) ==
    /\ plan[s] # NoPlan
    /\ Insert(Reminder, plan[s], Fresh(Told(plan[s])))
    /\ plan' = [plan EXCEPT ![s] = NoPlan]
    /\ UNCHANGED <<owner, choice, phase>>

\* The workers of the queue, a loss of one, and the clock they wait for.
Deliver ==
    /\ \/ \E w \in Workers : WorkerStep(w) \/ Forget(w)
       \/ \E d \in Deliveries : Elapse(d)
    /\ UNCHANGED outboxVars

-----------------------------------------------------------------------------
Scheduler(s) == StartScan(s) \/ EnqueueUpcoming(s)

OutboxNext ==
    \/ \E u \in Users, t \in Devices : RegisterDevice(u, t) \/ RevokeDevice(u, t)
    \/ \E u \in Users, e \in Events, channels \in Offers : UpdatePreference(u, e, channels)
    \/ \E e \in Events : CommitAnnouncement(e) \/ \E U \in Audiences : Announce(e, U)
    \/ \E s \in Senders : Rollback(s)
    \/ \E s \in Schedulers : Scheduler(s)
    \/ Deliver

\* The scheduler's loop: a scan that can be made is made by some scheduler, and one
\* in infinitely many is not rolled back.
OutboxSpec ==
    /\ OutboxInit /\ [][OutboxNext]_allVars
    /\ WF_allVars(\E s \in Schedulers : StartScan(s))
    /\ SF_allVars(\E s \in Schedulers : EnqueueUpcoming(s))

-----------------------------------------------------------------------------
(* Properties.                                                             *)

\* Nobody is told the same thing twice, though two schedulers scan at once and
\* each works from a snapshot: the unique index decides.
ToldOnce == \A e \in Events, u \in Users : notice[e][u].copies <= 1

\* To the queue the outbox does what PushDelivery expects of the world: every
\* delivery is queued once, with its first attempt still to come.
QueueContract == Spec

\* Who wants to be reminded is, unless the session starts first: another student's
\* reminder, another scheduler's transaction or a cycle that failed is no reason
\* not to.
Reminded ==
    \A u \in Users :
        <>[](FetchUserPreferences(u, Reminder) # Off)
            => <>[](phase # "scheduled" \/ notice[Reminder][u].copies > 0)

=============================================================================
