---------------------- MODULE NotificationOutboxProofs ----------------------
(***************************************************************************)
(* Theorems about the outbox, for any number of users, events, devices,    *)
(* schedulers and announcements in flight.                                 *)
(***************************************************************************)
EXTENDS NotificationOutbox, PushDeliveryProofs

-----------------------------------------------------------------------------
(* The inductive invariant.                                                *)

OutboxTyped ==
    /\ active \in [Devices -> BOOLEAN]
    /\ owner \in [Devices -> Users \cup {NoUser}]
    /\ choice \in [Users -> [Events -> Channels]]
    /\ notice \in [Events -> [Users -> Notice]]
    /\ DOMAIN plan = Senders
    /\ \A s \in Senders : plan[s] = NoPlan \/ IsPlan(plan[s])
    /\ phase \in {"scheduled", "started"}

\* An announcement that is about to be made has told nobody yet: there is one
\* transaction of each event, and only it inserts the event's notifications.
PlansFresh ==
    \A e \in Events \ {Reminder} :
        plan[e] # NoPlan => \A u \in Users : notice[e][u].copies = 0

\* A delivery is queued with the notification it belongs to, never without.
QueuedWithNotice ==
    \A d \in Deliveries : row[d].status # "none" => notice[d[1]][d[2]].copies > 0

OutboxInv == OutboxTyped /\ ToldOnce /\ PlansFresh /\ QueuedWithNotice /\ PushInv

LEMMA DeliveryParts ==
    ASSUME NEW d \in Deliveries
    PROVE  d[1] \in Events /\ d[2] \in Users /\ d[3] \in Devices
BY OutboxAssumption

LEMMA OutboxStarts == OutboxInit => OutboxInv
<1> SUFFICES ASSUME OutboxInit PROVE OutboxInv
    OBVIOUS
<1>1. OutboxTyped
    BY OutboxAssumption DEF OutboxInit, Init, OutboxTyped, Notice
<1>2. ToldOnce /\ PlansFresh
    BY DEF OutboxInit, ToldOnce, PlansFresh, Senders
<1>3. QueuedWithNotice
    BY DEF OutboxInit, Init, NoRow, QueuedWithNotice
<1>4. PushInv
    BY PushInit DEF OutboxInit
<1> QED
    BY <1>1, <1>2, <1>3, <1>4 DEF OutboxInv

\* A plan names users, and of their devices only.
LEMMA PlanTyped ==
    ASSUME OutboxTyped, NEW U \in SUBSET Users, NEW e \in Events
    PROVE  IsPlan(PlanFor(U, e))
<1>1. ASSUME NEW u \in U
      PROVE  FetchUserPreferences(u, e) \in Channels
    BY DEF FetchUserPreferences, OutboxTyped, Off, Channels
<1>2. \A u \in U : PlanFor(U, e)[u] \in [channels : Channels, devices : SUBSET Devices]
    BY <1>1 DEF PlanFor, ActiveDeviceTokens
<1>3. DOMAIN PlanFor(U, e) = U
    BY DEF PlanFor
<1> QED
    BY <1>2, <1>3 DEF IsPlan

LEMMA ToldNotice ==
    ASSUME NEW n \in Notice, n.copies = 0, NEW inApp \in BOOLEAN
    PROVE  LET told == [n EXCEPT !.copies = @ + 1, !.visible = inApp]
           IN  told \in Notice /\ told.copies = 1
<1> DEFINE told == [n EXCEPT !.copies = @ + 1, !.visible = inApp]
<1>1. n.copies + 1 = 1
    OBVIOUS
<1>2. told = [n EXCEPT !.copies = 1, !.visible = inApp]
    BY <1>1
<1>3. 1 \in 0..2
    OBVIOUS
<1> HIDE DEF told
<1>4. told.copies = 1 /\ told \in Notice
    BY <1>2, <1>3 DEF Notice
<1> QED
    BY <1>4 DEF told

\* An insert for users who have not been told keeps what is queued and what
\* is told in step, and is one Enqueue of the queue.
LEMMA InsertKeeps ==
    ASSUME OutboxTyped, ToldOnce, QueuedWithNotice, NEW e \in Events, NEW p, IsPlan(p),
           NEW U \in SUBSET Told(p), \A u \in U : notice[e][u].copies = 0,
           Insert(e, p, U)
    PROVE  /\ notice' \in [Events -> [Users -> Notice]]
           /\ \A other \in Events \ {e} : notice'[other] = notice[other]
           /\ ToldOnce' /\ QueuedWithNotice'
           /\ Enqueue(Attempts(e, p, U))
<1>1. U \subseteq Users /\ \A u \in U : p[u].channels.inApp \in BOOLEAN
    BY DEF Told, IsPlan, Channels
<1> DEFINE told(u) == [notice[e][u] EXCEPT !.copies = @ + 1, !.visible = p[u].channels.inApp]
<1>2. ASSUME NEW u \in U PROVE told(u) \in Notice /\ told(u).copies = 1
    <2>1. notice[e][u] \in Notice /\ notice[e][u].copies = 0
        BY <1>1 DEF OutboxTyped
    <2> QED
        BY <1>1, <1>2, <2>1, ToldNotice
<1>3. notice' = [notice EXCEPT ![e] = [u \in Users |-> IF u \in U THEN told(u) ELSE notice[e][u]]]
    BY DEF Insert
<1> HIDE DEF told
<1>4. /\ notice' \in [Events -> [Users -> Notice]]
      /\ \A other \in Events \ {e} : notice'[other] = notice[other]
      /\ \A u \in Users : notice'[e][u] = IF u \in U THEN told(u) ELSE notice[e][u]
    BY <1>1, <1>2, <1>3 DEF OutboxTyped
<1>5. \A f \in Events, u \in Users :
         \/ notice'[f][u] = notice[f][u]
         \/ f = e /\ u \in U /\ notice'[f][u].copies = 1
    BY <1>2, <1>4
<1>6. ToldOnce'
    BY <1>5 DEF ToldOnce
<1>7. \A d \in Deliveries :
         IF d \in Attempts(e, p, U) THEN row'[d] = Queued /\ d[1] = e /\ d[2] \in U
         ELSE row'[d] = row[d]
    BY DEF Insert, Attempts
<1>8. QueuedWithNotice'
    <2> SUFFICES ASSUME NEW d \in Deliveries, row'[d].status # "none"
                 PROVE  notice'[d[1]][d[2]].copies > 0
        BY DEF QueuedWithNotice
    <2>1. d[1] \in Events /\ d[2] \in Users
        BY DeliveryParts
    <2>2. CASE d \in Attempts(e, p, U)
        BY <1>2, <1>4, <1>7, <2>1, <2>2
    <2>3. CASE d \notin Attempts(e, p, U)
        BY <1>5, <1>7, <2>1, <2>3 DEF QueuedWithNotice
    <2> QED
        BY <2>2, <2>3
<1>9. Enqueue(Attempts(e, p, U))
    <2>1. \A d \in Attempts(e, p, U) : row[d].status = "none"
        BY <1>7, DeliveryParts DEF QueuedWithNotice, Attempts
    <2> QED
        BY <2>1 DEF Insert, Enqueue
<1> QED
    BY <1>4, <1>6, <1>8, <1>9

\* What the outbox does to the queue is what the queue expects of the world.
Contract == OutboxInv' /\ [Next]_vars

\* The queue's own invariant comes with each step it allows.
LEMMA KeepsContract ==
    ASSUME OutboxInv, [Next]_vars, OutboxTyped', ToldOnce', PlansFresh', QueuedWithNotice'
    PROVE  Contract
BY PushNext DEF OutboxInv, Contract, PushStep

LEMMA SenderSteps ==
    ASSUME OutboxInv, NEW s \in Senders, NEW value,
           \/ value = NoPlan
           \/ IsPlan(value) /\ (s \in Events => \A u \in Users : notice[s][u].copies = 0),
           plan' = [plan EXCEPT ![s] = value], UNCHANGED <<vars, owner, choice, notice, phase>>
    PROVE  Contract
<1>1. OutboxTyped'
    BY DEF OutboxInv, OutboxTyped, vars, queueVars
<1>2. PlansFresh'
    BY DEF OutboxInv, OutboxTyped, PlansFresh, Senders
<1>3. ToldOnce' /\ QueuedWithNotice'
    BY DEF OutboxInv, ToldOnce, QueuedWithNotice, vars, queueVars
<1>4. UNCHANGED vars
    OBVIOUS
<1> QED
    BY <1>1, <1>2, <1>3, <1>4, KeepsContract

LEMMA AnnounceSteps ==
    ASSUME OutboxInv, NEW e \in Events, NEW U \in Audiences, Announce(e, U)
    PROVE  Contract
<1>1. IsPlan(PlanFor(U, e))
    BY PlanTyped, OutboxAssumption DEF OutboxInv
<1>2. e \in Senders
    BY DEF Announce, Senders
<1> QED
    BY <1>1, <1>2, SenderSteps DEF Announce

LEMMA ScanSteps ==
    ASSUME OutboxInv, NEW s \in Schedulers, StartScan(s)
    PROVE  Contract
<1>1. IsPlan(PlanFor(RemindCandidates, Reminder))
    BY PlanTyped, OutboxAssumption DEF OutboxInv, RemindCandidates
<1>2. s \in Senders /\ s \notin Events
    BY OutboxAssumption DEF Senders
<1> QED
    BY <1>1, <1>2, SenderSteps DEF StartScan

LEMMA CommitSteps ==
    ASSUME OutboxInv, NEW s \in Senders, NEW e \in Events, plan[s] # NoPlan,
           NEW U \in SUBSET Told(plan[s]), \A u \in U : notice[e][u].copies = 0,
           e = Reminder \/ s = e,
           Insert(e, plan[s], U), plan' = [plan EXCEPT ![s] = NoPlan],
           UNCHANGED <<owner, choice>>, phase' \in {"started", phase}
    PROVE  Contract
<1>1. IsPlan(plan[s])
    BY DEF OutboxInv, OutboxTyped
<1>2. /\ notice' \in [Events -> [Users -> Notice]]
      /\ \A other \in Events \ {e} : notice'[other] = notice[other]
      /\ ToldOnce' /\ QueuedWithNotice'
      /\ Enqueue(Attempts(e, plan[s], U))
    BY <1>1, InsertKeeps DEF OutboxInv
<1>3. OutboxTyped'
    BY <1>2 DEF OutboxInv, OutboxTyped, Insert
<1>4. PlansFresh'
    BY <1>2 DEF OutboxInv, OutboxTyped, PlansFresh, Senders
<1>5. Next
    <2>1. Attempts(e, plan[s], U) \in SUBSET Deliveries
        BY DEF Attempts
    <2> QED
        BY <1>2, <2>1 DEF Next
<1> QED
    BY <1>2, <1>3, <1>4, <1>5, KeepsContract

LEMMA TokenContract ==
    ASSUME OutboxInv, NEW t \in Devices, NEW flag \in BOOLEAN, TokenChange(t, flag),
           owner' \in [Devices -> Users \cup {NoUser}], UNCHANGED <<choice, notice, plan, phase>>
    PROVE  Contract
<1>1. active' = [active EXCEPT ![t] = flag] /\ UNCHANGED <<row, workerVars, ghostVars>>
    BY DEF TokenChange
<1>2. OutboxTyped' /\ ToldOnce' /\ PlansFresh' /\ QueuedWithNotice'
    BY <1>1 DEF OutboxInv, OutboxTyped, ToldOnce, PlansFresh, QueuedWithNotice
<1>3. [Next]_vars
    <2>1. CASE active[t] = flag
        BY <1>1, <2>1 DEF OutboxInv, OutboxTyped, vars, queueVars
    <2>2. CASE active[t] # flag
        <3>1. Register(t) \/ Revoke(t)
            BY <2>2 DEF OutboxInv, OutboxTyped, Register, Revoke
        <3> QED
            BY <3>1 DEF Next
    <2> QED
        BY <2>1, <2>2
<1> QED
    BY <1>2, <1>3, KeepsContract

\* A worker writes to deliveries it was handed, and is handed none that is not queued.
LEMMA WorkersQueueNothing ==
    ASSUME PushInv, Deliver, NEW d \in Deliveries, row[d].status = "none"
    PROVE  row'[d] = row[d]
<1>0. /\ row \in [Deliveries -> Row] /\ \A w \in Workers : ~Holds(w, d)
    BY DEF PushInv, TypeOK, Sound, Untouched
<1>1. ASSUME NEW e \in Deliveries, Elapse(e) PROVE row'[d] = row[d]
    BY <1>0, <1>1 DEF Elapse
<1>2. ASSUME NEW w \in Workers, ClaimReady(w) PROVE row'[d] = row[d]
    <2>1. PICK B \in Batch({e \in Deliveries : Ready(e)}, BatchSize) :
              row' = [e \in Deliveries |-> IF e \in B THEN Claimed(row[e]) ELSE row[e]]
        BY <1>2 DEF ClaimReady
    <2>2. d \notin B
        BY DEF Batch, Ready
    <2> QED
        BY <2>1, <2>2
<1>3. ASSUME NEW w \in Workers, ClaimReceipts(w) PROVE row'[d] = row[d]
    <2>1. PICK B \in Batch({e \in Deliveries : AwaitsReceipt(e)}, BatchSize) :
              row' = [e \in Deliveries |-> IF e \in B THEN [row[e] EXCEPT !.due = FALSE] ELSE row[e]]
        BY <1>3 DEF ClaimReceipts
    <2>2. d \notin B
        BY DEF Batch, AwaitsReceipt
    <2> QED
        BY <2>1, <2>2
<1>4. ASSUME NEW w \in Workers, NEW e \in Deliveries,
             FailInactive(w, e) \/ RecordTicket(w, e) \/ RecordReceipt(w, e)
      PROVE  row'[d] = row[d]
    <2>1. Holds(w, e)
        BY <1>4 DEF FailInactive, RecordTicket, RecordReceipt, Settle, Holds
    <2>2. e # d
        BY <1>0, <2>1
    <2> QED
        BY <1>0, <1>4, <2>2 DEF FailInactive, RecordTicket, RecordReceipt, Settle
<1>5. ASSUME NEW w \in Workers,
             Send(w) \/ StartPolling(w) \/ FetchReceipts(w) \/ EndCycle(w) \/ Forget(w)
      PROVE  row'[d] = row[d]
    BY <1>5 DEF Send, StartPolling, FetchReceipts, EndCycle, Forget, queueVars
<1> QED
    BY <1>1, <1>2, <1>3, <1>4, <1>5 DEF Deliver, WorkerStep

LEMMA DeliverSteps ==
    ASSUME OutboxInv, Deliver
    PROVE  Contract
<1>1. Next
    BY DEF Deliver, Next
<1>2. active' \in [Devices -> BOOLEAN]
    BY <1>1, PushNext DEF OutboxInv, PushStep, PushInv, TypeOK
<1>3. OutboxTyped' /\ ToldOnce' /\ PlansFresh'
    BY <1>2 DEF Deliver, outboxVars, OutboxInv, OutboxTyped, ToldOnce, PlansFresh
<1>4. QueuedWithNotice'
    BY WorkersQueueNothing DEF Deliver, outboxVars, OutboxInv, QueuedWithNotice
<1> QED
    BY <1>1, <1>3, <1>4, KeepsContract

LEMMA OutboxStep ==
    ASSUME OutboxInv, [OutboxNext]_allVars
    PROVE  Contract
<1>1. CASE \E u \in Users, t \in Devices : RegisterDevice(u, t)
    <2>1. PICK u \in Users, t \in Devices : RegisterDevice(u, t)
        BY <1>1
    <2>2. owner' \in [Devices -> Users \cup {NoUser}]
        BY <2>1 DEF RegisterDevice, OutboxInv, OutboxTyped
    <2> QED
        BY <2>1, <2>2, TokenContract DEF RegisterDevice
<1>2. ASSUME NEW t \in Devices, Revoke(t), UNCHANGED outboxVars PROVE Contract
    BY <1>2, TokenContract DEF Revoke, outboxVars, OutboxInv, OutboxTyped
<1>3. CASE \E u \in Users, e \in Events, channels \in Offers : UpdatePreference(u, e, channels)
    <2>1. PICK u \in Users, e \in Events, channels \in Offers : UpdatePreference(u, e, channels)
        BY <1>3
    <2>2. choice' \in [Users -> [Events -> Channels]]
        BY <2>1, OutboxAssumption DEF UpdatePreference, OutboxInv, OutboxTyped
    <2>3. OutboxTyped' /\ ToldOnce' /\ PlansFresh' /\ QueuedWithNotice' /\ UNCHANGED vars
        BY <2>1, <2>2 DEF UpdatePreference, OutboxInv, OutboxTyped, ToldOnce, PlansFresh,
            QueuedWithNotice, vars, queueVars
    <2> QED
        BY <2>3, KeepsContract
<1>4. CASE \E e \in Events, U \in Audiences : Announce(e, U)
    BY <1>4, AnnounceSteps
<1>5. CASE \E e \in Events : CommitAnnouncement(e)
    <2>1. PICK e \in Events : CommitAnnouncement(e)
        BY <1>5
    <2>2. e \in Senders /\ \A u \in Told(plan[e]) : notice[e][u].copies = 0
        BY <2>1 DEF CommitAnnouncement, Senders, OutboxInv, OutboxTyped, PlansFresh, Told, IsPlan
    <2>3. PICK U \in {Told(plan[e]), {}} : Insert(e, plan[e], U)
        BY <2>1 DEF CommitAnnouncement
    <2> QED
        BY <2>1, <2>2, <2>3, CommitSteps DEF CommitAnnouncement
<1>6. CASE \E s \in Senders : Rollback(s)
    BY <1>6, SenderSteps DEF Rollback
<1>7. CASE \E s \in Schedulers : StartScan(s)
    BY <1>7, ScanSteps
<1>8. CASE \E s \in Schedulers : EnqueueUpcoming(s)
    <2>1. PICK s \in Schedulers : EnqueueUpcoming(s)
        BY <1>8
    <2>2. s \in Senders /\ Fresh(Told(plan[s])) \subseteq Told(plan[s])
          /\ \A u \in Fresh(Told(plan[s])) : notice[Reminder][u].copies = 0
        BY DEF Senders, Fresh
    <2> QED
        BY <2>1, <2>2, CommitSteps, OutboxAssumption DEF EnqueueUpcoming
<1>9. CASE UNCHANGED allVars
    <2>1. OutboxTyped' /\ ToldOnce' /\ PlansFresh' /\ QueuedWithNotice' /\ UNCHANGED vars
        BY <1>9 DEF allVars, outboxVars, vars, queueVars, OutboxInv, OutboxTyped, ToldOnce,
            PlansFresh, QueuedWithNotice
    <2> QED
        BY <2>1, KeepsContract
<1>10. CASE Deliver
    BY <1>10, DeliverSteps
<1>11. CASE \E u \in Users, t \in Devices : RevokeDevice(u, t)
    BY <1>2, <1>11 DEF RevokeDevice
<1> QED
    BY <1>1, <1>3, <1>4, <1>5, <1>6, <1>7, <1>8, <1>9, <1>10, <1>11 DEF OutboxNext, Scheduler

LEMMA OutboxAlways == OutboxSpec => []OutboxInv
<1>1. OutboxInv /\ [OutboxNext]_allVars => OutboxInv'
    BY OutboxStep DEF Contract
<1> QED
    BY <1>1, OutboxStarts, PTL DEF OutboxSpec

-----------------------------------------------------------------------------
(* Theorems.                                                               *)

\* Nobody is told the same thing twice, for any number of schedulers that scan
\* at once, of announcements in flight and of rollbacks.
THEOREM NobodyToldTwice == OutboxSpec => []ToldOnce
<1>1. OutboxInv => ToldOnce
    BY DEF OutboxInv
<1> QED
    BY <1>1, OutboxAlways, PTL

\* The outbox keeps its contract with the queue: whatever it does is a step
\* PushDelivery allows the world, so what is proved of the queue alone holds
\* of the two together.
THEOREM ContractKept == OutboxSpec => QueueContract
<1>1. OutboxInit => Init
    BY DEF OutboxInit
<1>2. OutboxInv /\ [OutboxNext]_allVars => [Next]_vars
    BY OutboxStep DEF Contract
<1> QED
    BY <1>1, <1>2, OutboxAlways, PTL DEF OutboxSpec, QueueContract, Spec

\* Beside producers, schedulers, users who sign in and out, and workers that die: what
\* the provider is asked for was counted before, and what is delivered was accepted.
THEOREM DeliveredAsAnnounced == OutboxSpec => []PushesAreAttempts
BY ContractKept, PushesWithinAttempts, PTL DEF QueueContract

\* What was told to the device of a user was told to the user: a delivery is queued, sent
\* or over only beside its notification, which is there once.
THEOREM PushedWhatWasTold ==
    OutboxSpec => [](\A d \in Deliveries :
                        row[d].status # "none" => notice[d[1]][d[2]].copies = 1)
<1>1. OutboxInv => \A d \in Deliveries : row[d].status # "none" => notice[d[1]][d[2]].copies = 1
    <2> SUFFICES ASSUME OutboxInv, NEW d \in Deliveries, row[d].status # "none"
                 PROVE  notice[d[1]][d[2]].copies = 1
        OBVIOUS
    <2>1. d[1] \in Events /\ d[2] \in Users
        BY DeliveryParts
    <2>2. notice[d[1]][d[2]].copies \in 0..2
        BY <2>1 DEF OutboxInv, OutboxTyped, Notice
    <2> QED
        BY <2>1, <2>2 DEF OutboxInv, ToldOnce, QueuedWithNotice
<1> QED
    BY <1>1, OutboxAlways, PTL

\* The rows of the outbox and of the queue keep their types.
THEOREM OutboxTypes == OutboxSpec => []OutboxTypeOK
<1>1. OutboxInv => OutboxTypeOK
    BY DEF OutboxInv, OutboxTyped, OutboxTypeOK, PushInv
<1> QED
    BY <1>1, OutboxAlways, PTL

=============================================================================
