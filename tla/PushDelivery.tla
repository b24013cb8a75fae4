---------------------------- MODULE PushDelivery ----------------------------
(***************************************************************************)
(* The push queue and the workers that empty it (notification/push).  A    *)
(* worker claims due deliveries in one transaction, calls the provider     *)
(* outside any, and writes every answer with a statement of its own that   *)
(* looks at the delivery's id and at nothing else.                         *)
(***************************************************************************)
EXTENDS Naturals, FiniteSets

CONSTANTS
    Deliveries,     \* rows of notification.delivery_attempts
    Devices,        \* rows of notification.device_tokens
    DeviceOf,       \* the device a delivery goes to
    Workers,        \* processes of Core Backend with the worker enabled
    MaxAttempts,    \* push_worker_max_attempts
    BatchSize,      \* push_worker_batch_size
    MaxFaults       \* bound: losses, missing answers and slow workers together

ASSUME PushAssumption ==
    /\ DeviceOf \in [Deliveries -> Devices]
    /\ MaxAttempts \in Nat \ {0}
    /\ BatchSize \in Nat \ {0}
    /\ IsFiniteSet(Workers)

VARIABLES
    row,        \* delivery_attempts
    active,     \* device_tokens.is_active
    pc,         \* where each worker is in run_once
    claim,      \* the attempt number a worker holds each delivery with, 0: not held
    answer,     \* what the worker knows of the deliveries it holds
    pushes,     \* how often the provider accepted each delivery
    stray,      \* claims of each delivery that no worker finished in time
    overtaken,  \* deliveries claimed from a worker that was still at them
    faults

queueVars  == <<row, active>>
workerVars == <<pc, claim, answer>>
ghostVars  == <<pushes, stray, overtaken, faults>>
vars       == <<queueVars, workerVars, ghostVars>>

Statuses == {"none", "queued", "in_flight", "sent", "delivered", "failed"}
Terminal == {"delivered", "failed"}

\* `due` is what the three time columns say: the backoff of a queued row is
\* over, the lease of a row in flight has run out, the receipt of a sent row
\* may be asked for.  `ticket` is the attempt whose ticket the row carries.
Row == [status : Statuses, attempt : Nat, ticket : Nat, due : BOOLEAN]

NoRow == [status |-> "none", attempt |-> 0, ticket |-> 0, due |-> FALSE]

Answers == {"unheld", "unsent", "inactive", "ok", "invalid", "error",
            "deactivate", "asked", "unknown"}

Stages == {"idle", "claimed", "answered", "polling", "asking", "reported"}

TypeOK ==
    /\ row \in [Deliveries -> Row]
    /\ active \in [Devices -> BOOLEAN]
    /\ pc \in [Workers -> Stages]
    /\ claim \in [Workers -> [Deliveries -> Nat]]
    /\ answer \in [Workers -> [Deliveries -> Answers]]
    /\ pushes \in [Deliveries -> Nat]
    /\ stray \in [Deliveries -> Nat]
    /\ overtaken \subseteq Deliveries
    /\ faults \in Nat

Init ==
    /\ row = [d \in Deliveries |-> NoRow]
    /\ active = [t \in Devices |-> TRUE]
    /\ pc = [w \in Workers |-> "idle"]
    /\ claim = [w \in Workers |-> [d \in Deliveries |-> 0]]
    /\ answer = [w \in Workers |-> [d \in Deliveries |-> "unheld"]]
    /\ pushes = [d \in Deliveries |-> 0]
    /\ stray = [d \in Deliveries |-> 0]
    /\ overtaken = {}
    /\ faults = 0

Holds(w, d) == answer[w][d] # "unheld"
Holding(w)  == {d \in Deliveries : Holds(w, d)}

-----------------------------------------------------------------------------
(* Statements on one row: PushDeliveryRepository.                          *)

Queued == [NoRow EXCEPT !.status = "queued", !.due = TRUE]

\* Faulty variant: the attempt is counted by its failure.
ClaimedUncounted(r) == [r EXCEPT !.status = "in_flight", !.due = FALSE]

Claimed(r) == [r EXCEPT !.status = "in_flight", !.attempt = @ + 1, !.due = FALSE]

\* Faulty variant: an accepted message counts as delivered.
SentIsDelivered(r, n) == [r EXCEPT !.status = "delivered", !.ticket = n, !.due = FALSE]

MarkSent(r, n) == [r EXCEPT !.status = "sent", !.ticket = n, !.due = FALSE]

MarkDelivered(r) == [r EXCEPT !.status = "delivered", !.due = FALSE]

MarkFailed(r) == [r EXCEPT !.status = "failed", !.due = FALSE]

ScheduleRetry(r) == [r EXCEPT !.status = "queued", !.ticket = 0, !.due = FALSE]

\* Faulty variant: one attempt more than the limit.
RetryOnceMore(r, n) == IF n > MaxAttempts THEN MarkFailed(r) ELSE ScheduleRetry(r)

RetryOrFail(r, n) == IF n >= MaxAttempts THEN MarkFailed(r) ELSE ScheduleRetry(r)

\* Faulty variant: a lost claim is never taken again.
ReadyQueued(d) == row[d].status = "queued" /\ row[d].due

Ready(d) == row[d].status \in {"queued", "in_flight"} /\ row[d].due

AwaitsReceipt(d) == row[d].status = "sent" /\ row[d].due

\* A LIMIT: all of S, or as many as the limit allows.
Batch(S, limit) ==
    {B \in SUBSET S : IF Cardinality(S) <= limit THEN B = S ELSE Cardinality(B) = limit}

-----------------------------------------------------------------------------
(* What the worker does, PushDeliveryWorker.run_once.                      *)

Fault == faults < MaxFaults /\ faults' = faults + 1

\* Deliveries of B that another worker still holds.
Contested(B) == {d \in B : \E w \in Workers : Holds(w, d)}

Overtake(B) ==
    /\ overtaken' = overtaken \cup Contested(B)
    /\ stray' = [d \in Deliveries |->
          IF d \in B /\ (row[d].status = "in_flight" \/ d \in Contested(B))
          THEN stray[d] + 1 ELSE stray[d]]
    /\ IF Contested(B) = {} THEN UNCHANGED faults ELSE Fault

\* The first claim of a cycle: a delivery is queued and due, or its lease ran out.
ClaimReady(w) ==
    /\ pc[w] = "idle"
    /\ \E B \in Batch({d \in Deliveries : Ready(d)}, BatchSize) :
          /\ row' = [d \in Deliveries |-> IF d \in B THEN Claimed(row[d]) ELSE row[d]]
          /\ claim' = [claim EXCEPT ![w] =
                [d \in Deliveries |-> IF d \in B THEN row[d].attempt + 1 ELSE 0]]
          /\ answer' = [answer EXCEPT ![w] =
                [d \in Deliveries |-> IF d \notin B THEN "unheld"
                                      ELSE IF active[DeviceOf[d]] THEN "unsent"
                                      ELSE "inactive"]]
          /\ Overtake(B)
    /\ pc' = [pc EXCEPT ![w] = "claimed"]
    /\ UNCHANGED <<active, pushes>>

Release(w, d) ==
    /\ claim' = [claim EXCEPT ![w][d] = 0]
    /\ answer' = [answer EXCEPT ![w][d] = "unheld"]

\* Deliveries to inactive tokens fail before anything is sent.
FailInactive(w, d) ==
    /\ pc[w] = "claimed"
    /\ answer[w][d] = "inactive"
    /\ row' = [row EXCEPT ![d] = MarkFailed(@)]
    /\ Release(w, d)
    /\ UNCHANGED <<active, pc, ghostVars>>

\* One request to the provider.  It accepts A, rejects I as unregistered and
\* refuses the rest; the answer arrives, or is lost and everything counts as an
\* error.
Send(w) ==
    /\ pc[w] = "claimed"
    /\ Holding(w) # {}
    /\ \A d \in Holding(w) : answer[w][d] = "unsent"
    /\ \E A \in SUBSET Holding(w), I \in SUBSET Holding(w), arrives \in BOOLEAN :
          /\ A \cap I = {}
          /\ answer' = [answer EXCEPT ![w] =
                [d \in Deliveries |-> IF d \notin Holding(w) THEN "unheld"
                                      ELSE IF ~arrives THEN "error"
                                      ELSE IF d \in A THEN "ok"
                                      ELSE IF d \in I THEN "invalid" ELSE "error"]]
          /\ pushes' = [d \in Deliveries |-> IF d \in A THEN pushes[d] + 1 ELSE pushes[d]]
          /\ IF arrives THEN UNCHANGED faults ELSE Fault
    /\ pc' = [pc EXCEPT ![w] = "answered"]
    /\ UNCHANGED <<queueVars, claim, stray, overtaken>>

\* One answer is written; an unregistered token is deactivated by the statement
\* after the one that fails the delivery.
Settle(w, d) ==
    \/ /\ answer[w][d] = "error"
       /\ row' = [row EXCEPT ![d] = RetryOrFail(@, claim[w][d])]
       /\ Release(w, d)
       /\ UNCHANGED active
    \/ /\ answer[w][d] = "invalid"
       /\ row' = [row EXCEPT ![d] = MarkFailed(@)]
       /\ answer' = [answer EXCEPT ![w][d] = "deactivate"]
       /\ UNCHANGED <<active, claim>>
    \/ /\ answer[w][d] = "deactivate"
       /\ active' = [active EXCEPT ![DeviceOf[d]] = FALSE]
       /\ Release(w, d)
       /\ UNCHANGED row

RecordTicket(w, d) ==
    /\ pc[w] = "answered"
    /\ \/ /\ answer[w][d] = "ok"
          /\ row' = [row EXCEPT ![d] = MarkSent(@, claim[w][d])]
          /\ Release(w, d)
          /\ UNCHANGED active
       \/ Settle(w, d)
    /\ UNCHANGED <<pc, ghostVars>>

StartPolling(w) ==
    /\ pc[w] \in {"claimed", "answered"}
    /\ Holding(w) = {}
    /\ pc' = [pc EXCEPT ![w] = "polling"]
    /\ UNCHANGED <<queueVars, claim, answer, ghostVars>>

\* Sent deliveries are claimed for their receipts by pushing attempted_at on.
ClaimReceipts(w) ==
    /\ pc[w] = "polling"
    /\ \E B \in Batch({d \in Deliveries : AwaitsReceipt(d)}, BatchSize) :
          /\ row' = [d \in Deliveries |->
                IF d \in B THEN [row[d] EXCEPT !.due = FALSE] ELSE row[d]]
          /\ claim' = [claim EXCEPT ![w] =
                [d \in Deliveries |-> IF d \in B THEN row[d].attempt ELSE 0]]
          /\ answer' = [answer EXCEPT ![w] =
                [d \in Deliveries |-> IF d \in B THEN "asked" ELSE "unheld"]]
          /\ Overtake(B)
          /\ pc' = [pc EXCEPT ![w] = IF B = {} THEN "idle" ELSE "asking"]
    /\ UNCHANGED <<active, pushes>>

\* The provider reports what it knows.  A missing receipt, or a failed request,
\* leaves the row sent and eligible again after the receipt delay.
FetchReceipts(w) ==
    /\ pc[w] = "asking"
    /\ \E report \in [Holding(w) -> {"ok", "invalid", "error", "unknown"}] :
          /\ answer' = [answer EXCEPT ![w] =
                [d \in Deliveries |-> IF d \in Holding(w) THEN report[d] ELSE "unheld"]]
          /\ IF \E d \in Holding(w) : report[d] = "unknown" THEN Fault
             ELSE UNCHANGED faults
    /\ pc' = [pc EXCEPT ![w] = "reported"]
    /\ UNCHANGED <<queueVars, claim, pushes, stray, overtaken>>

RecordReceipt(w, d) ==
    /\ pc[w] = "reported"
    /\ \/ /\ answer[w][d] = "ok"
          /\ row' = [row EXCEPT ![d] = MarkDelivered(@)]
          /\ Release(w, d)
          /\ UNCHANGED active
       \/ /\ answer[w][d] = "unknown"
          /\ Release(w, d)
          /\ UNCHANGED <<row, active>>
       \/ Settle(w, d)
    /\ UNCHANGED <<pc, ghostVars>>

EndCycle(w) ==
    /\ pc[w] = "reported"
    /\ Holding(w) = {}
    /\ pc' = [pc EXCEPT ![w] = "idle"]
    /\ UNCHANGED <<queueVars, claim, answer, ghostVars>>

\* The process dies, is cancelled at shutdown, or the cycle raises: what the
\* worker held is forgotten, and the rows stay as they are.
Forget(w) ==
    /\ pc[w] # "idle"
    /\ Fault
    /\ pc' = [pc EXCEPT ![w] = "idle"]
    /\ claim' = [claim EXCEPT ![w] = [d \in Deliveries |-> 0]]
    /\ answer' = [answer EXCEPT ![w] = [d \in Deliveries |-> "unheld"]]
    /\ UNCHANGED <<queueVars, pushes, stray, overtaken>>

-----------------------------------------------------------------------------
(* The rest of the world.                                                  *)

\* A transaction of the producer queues deliveries.  It has read the tokens
\* before; one may have been revoked since.
Enqueue(D) ==
    /\ \A d \in D : row[d].status = "none"
    /\ row' = [d \in Deliveries |-> IF d \in D THEN Queued ELSE row[d]]
    /\ UNCHANGED <<active, workerVars, ghostVars>>

\* A backoff, a lease or a receipt delay ends.
Elapse(d) ==
    /\ row[d].status \in {"queued", "in_flight", "sent"}
    /\ ~row[d].due
    /\ row' = [row EXCEPT ![d].due = TRUE]
    /\ UNCHANGED <<active, workerVars, ghostVars>>

TokenChange(t, flag) ==
    /\ active' = [active EXCEPT ![t] = flag]
    /\ UNCHANGED <<row, workerVars, ghostVars>>

\* The app registers its token, or its user signs out of the device.
Register(t) == ~active[t] /\ TokenChange(t, TRUE)
Revoke(t)   == active[t] /\ TokenChange(t, FALSE)

WorkerStep(w) ==
    \/ ClaimReady(w)
    \/ \E d \in Deliveries : FailInactive(w, d) \/ RecordTicket(w, d) \/ RecordReceipt(w, d)
    \/ Send(w)
    \/ StartPolling(w)
    \/ ClaimReceipts(w)
    \/ FetchReceipts(w)
    \/ EndCycle(w)

Next ==
    \/ \E w \in Workers : WorkerStep(w) \/ Forget(w)
    \/ \E D \in SUBSET Deliveries : Enqueue(D)
    \/ \E d \in Deliveries : Elapse(d)
    \/ \E t \in Devices : Register(t) \/ Revoke(t)

\* The loop of each worker goes on, after a restart if need be, and time passes.
Fairness ==
    /\ \A w \in Workers : WF_vars(WorkerStep(w))
    /\ \A d \in Deliveries : WF_vars(Elapse(d))

Spec     == Init /\ [][Next]_vars
FairSpec == Spec /\ Fairness

-----------------------------------------------------------------------------
(* Properties.                                                             *)

\* The provider is asked at most once per counted attempt, and a delivery is
\* reported delivered only if the provider accepted it: attempt_number is
\* counted up by the claim, before the network is touched.
PushesAreAttempts ==
    \A d \in Deliveries :
        /\ pushes[d] <= row[d].attempt
        /\ row[d].status = "delivered" => pushes[d] > 0

\* No delivery is attempted beyond the limit but for claims that were lost or
\* outlived their lease: those are counted and not limited, one attempt each.
AttemptsBounded ==
    \A d \in Deliveries : row[d].attempt <= MaxAttempts + stray[d]

\* The workers implement the state machine of push/state.py for every delivery
\* that was not taken over from a worker still at it.
View == [d \in Deliveries |-> IF d \in overtaken THEN "overtaken" ELSE row[d].status]

Lifecycle == INSTANCE DeliveryLifecycle WITH phase <- View

LifecycleKept == Lifecycle!LifecycleSpec

\* Every queued delivery is at last delivered or given up, and stays so: no
\* crash, lost answer or lost receipt leaves one in flight or sent for good.
Settles ==
    \A d \in Deliveries : <>[](row[d].status \in Terminal \cup {"none"})

\* TERMINAL_DELIVERY_STATUSES: what is delivered or failed stays so.
TerminalIsFinal ==
    [][\A d \in Deliveries : row[d].status \in Terminal =>
            row'[d].status = row[d].status]_vars

=============================================================================
