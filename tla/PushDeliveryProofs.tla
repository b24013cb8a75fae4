------------------------- MODULE PushDeliveryProofs -------------------------
(***************************************************************************)
(* Theorems about push delivery, for any number of deliveries, devices,    *)
(* workers, attempts and faults.                                           *)
(***************************************************************************)
EXTENDS PushDelivery, FiniteSetTheorems, TLAPS

-----------------------------------------------------------------------------
(* The invariant, one delivery at a time.                                  *)

\* What a worker can know of a delivery at each stage of its cycle.
Fits(w, d) ==
    \/ answer[w][d] = "unheld"
    \/ pc[w] = "claimed" /\ answer[w][d] \in {"unsent", "inactive"}
    \/ pc[w] = "answered" /\ answer[w][d] \in {"ok", "invalid", "error", "deactivate"}
    \/ pc[w] = "asking" /\ answer[w][d] = "asked"
    \/ pc[w] = "reported" /\ answer[w][d] \in {"ok", "invalid", "error", "deactivate", "unknown"}

\* Claims made since a worker's own have each been counted as astray.
Counted(w, d) == Holds(w, d) => row[d].attempt <= claim[w][d] + stray[d]

\* A queued delivery has an attempt left.
Limited(d) ==
    /\ row[d].attempt <= MaxAttempts + stray[d]
    /\ row[d].status = "queued" => row[d].attempt < MaxAttempts + stray[d]

Untouched(d) ==
    row[d].status = "none" => pushes[d] = 0 /\ \A w \in Workers : ~Holds(w, d)

\* Tickets and receipts follow an acceptance.
Accepted(d) ==
    /\ row[d].status \in {"sent", "delivered"} => pushes[d] > 0
    /\ \A w \in Workers :
          \/ pc[w] = "answered" /\ answer[w][d] = "ok"
          \/ pc[w] \in {"asking", "reported"} /\ Holds(w, d)
          => pushes[d] > 0

\* The status a worker's next write to a delivery of its own finds.
Expected(w, d) ==
    IF answer[w][d] = "deactivate" THEN "failed"
    ELSE IF pc[w] \in {"claimed", "answered"} THEN "in_flight" ELSE "sent"

Alone(d) ==
    d \notin overtaken =>
        \A w \in Workers : Holds(w, d) =>
            /\ row[d].status = Expected(w, d)
            /\ \A v \in Workers : Holds(v, d) => v = w

Sound(d) ==
    /\ \A w \in Workers : Fits(w, d) /\ Counted(w, d)
    /\ Limited(d) /\ Untouched(d) /\ Accepted(d) /\ Alone(d)

PushInv == TypeOK /\ \A d \in Deliveries : Sound(d)

\* What a step may do to a delivery, in the terms of DeliveryLifecycle.
Seen(d) == IF d \in overtaken THEN "overtaken" ELSE row[d].status

Legal(d) ==
    \/ Seen(d)' = Seen(d)
    \/ <<Seen(d), Seen(d)'>> \in Lifecycle!Steps
    \/ Seen(d) \in Lifecycle!Held /\ Seen(d)' = "overtaken"

PushStep == PushInv' /\ \A d \in Deliveries : Legal(d)

-----------------------------------------------------------------------------
(* Statements on one row.                                                  *)

LEMMA RowOperations ==
    ASSUME NEW r \in Row, NEW n \in Nat
    PROVE  /\ Queued \in Row /\ Queued.status = "queued" /\ Queued.attempt = 0
           /\ Claimed(r) \in Row /\ Claimed(r).status = "in_flight"
           /\ Claimed(r).attempt = r.attempt + 1
           /\ MarkSent(r, n) \in Row /\ MarkSent(r, n).status = "sent"
           /\ MarkSent(r, n).attempt = r.attempt
           /\ MarkDelivered(r) \in Row /\ MarkDelivered(r).status = "delivered"
           /\ MarkDelivered(r).attempt = r.attempt
           /\ MarkFailed(r) \in Row /\ MarkFailed(r).status = "failed"
           /\ MarkFailed(r).attempt = r.attempt
           /\ ScheduleRetry(r) \in Row /\ ScheduleRetry(r).status = "queued"
           /\ ScheduleRetry(r).attempt = r.attempt
<1>1. Queued \in Row /\ Queued.status = "queued" /\ Queued.attempt = 0
    BY DEF Queued, NoRow, Row, Statuses
<1>2. /\ Claimed(r) \in Row /\ Claimed(r).status = "in_flight"
      /\ Claimed(r).attempt = r.attempt + 1
    <2>1. r.attempt \in Nat /\ r.attempt + 1 \in Nat
        BY DEF Row
    <2> DEFINE n1 == r.attempt + 1
    <2>2. Claimed(r) = [r EXCEPT !.status = "in_flight", !.attempt = n1, !.due = FALSE]
        BY DEF Claimed
    <2> HIDE DEF n1
    <2>3. n1 \in Nat
        BY <2>1 DEF n1
    <2>4. Claimed(r) \in Row /\ Claimed(r).status = "in_flight" /\ Claimed(r).attempt = n1
        BY <2>2, <2>3 DEF Row, Statuses
    <2> QED
        BY <2>4 DEF n1
<1>3. /\ MarkSent(r, n) \in Row /\ MarkSent(r, n).status = "sent"
      /\ MarkSent(r, n).attempt = r.attempt
    BY DEF MarkSent, Row, Statuses
<1>4. /\ MarkDelivered(r) \in Row /\ MarkDelivered(r).status = "delivered"
      /\ MarkDelivered(r).attempt = r.attempt
    BY DEF MarkDelivered, Row, Statuses
<1>5. /\ MarkFailed(r) \in Row /\ MarkFailed(r).status = "failed"
      /\ MarkFailed(r).attempt = r.attempt
    BY DEF MarkFailed, Row, Statuses
<1>6. /\ ScheduleRetry(r) \in Row /\ ScheduleRetry(r).status = "queued"
      /\ ScheduleRetry(r).attempt = r.attempt
    BY DEF ScheduleRetry, Row, Statuses
<1> QED
    BY <1>1, <1>2, <1>3, <1>4, <1>5, <1>6

\* A step that writes to one delivery of one worker only has to be looked at there.
LEMMA OneDelivery ==
    ASSUME PushInv, TypeOK', NEW w \in Workers, NEW d \in Deliveries,
           \A e \in Deliveries \ {d} : row'[e] = row[e],
           \A v \in Workers, e \in Deliveries :
               v # w \/ e # d => answer'[v][e] = answer[v][e] /\ claim'[v][e] = claim[v][e],
           UNCHANGED <<pc, pushes, stray, overtaken>>,
           Sound(d)', Legal(d)
    PROVE  PushStep
<1>1. ASSUME NEW e \in Deliveries \ {d} PROVE Sound(e)' /\ Legal(e)
    BY <1>1 DEF PushInv, Sound, Fits, Counted, Limited, Untouched, Accepted, Expected, Alone, Holds,
           Legal, Seen
<1> QED
    BY <1>1 DEF PushStep, PushInv

\* Release, or the mark that a token remains to be deactivated.
LEMMA ReleaseOne ==
    ASSUME TypeOK, NEW w \in Workers, NEW d \in Deliveries, Release(w, d)
    PROVE  /\ claim' \in [Workers -> [Deliveries -> Nat]]
           /\ answer' \in [Workers -> [Deliveries -> Answers]]
           /\ answer'[w][d] = "unheld"
           /\ \A v \in Workers, e \in Deliveries :
                  v # w \/ e # d => answer'[v][e] = answer[v][e] /\ claim'[v][e] = claim[v][e]
BY DEF Release, TypeOK, Answers

LEMMA RowSet ==
    ASSUME TypeOK, NEW d \in Deliveries, NEW r \in Row, row' = [row EXCEPT ![d] = r]
    PROVE  /\ row' \in [Deliveries -> Row] /\ row'[d] = r
           /\ \A e \in Deliveries \ {d} : row'[e] = row[e]
BY DEF TypeOK

\* A worker writes what it knows of one delivery, and lets it go or has its token
\* to deactivate.
LEMMA WriteOne ==
    ASSUME PushInv, TypeOK', NEW w \in Workers, NEW d \in Deliveries,
           Holds(w, d), pc[w] \in {"claimed", "answered", "reported"},
           \A e \in Deliveries \ {d} : row'[e] = row[e],
           \A v \in Workers, e \in Deliveries :
               v # w \/ e # d => answer'[v][e] = answer[v][e] /\ claim'[v][e] = claim[v][e],
           UNCHANGED <<pc, pushes, stray, overtaken>>,
           row'[d].attempt = row[d].attempt,
           \/ answer'[w][d] = "unheld"
           \/ /\ answer'[w][d] = "deactivate" /\ pc[w] # "claimed"
              /\ row'[d].status = "failed" /\ claim'[w][d] = claim[w][d],
           row'[d].status \in {"sent", "delivered"} => pushes[d] > 0,
           row'[d].status = "queued" =>
               row[d].status = "queued" \/ claim[w][d] < MaxAttempts,
           \/ row'[d].status = row[d].status
           \/ row'[d].status # "none" /\ <<Expected(w, d), row'[d].status>> \in Lifecycle!Steps
    PROVE  PushStep
<1>1. /\ row[d] \in Row /\ row'[d] \in Row /\ stray[d] \in Nat
      /\ \A v \in Workers : claim[v][d] \in Nat
      /\ MaxAttempts \in Nat
    BY PushAssumption DEF PushInv, TypeOK
<1>2. row[d].attempt \in Nat
    BY <1>1 DEF Row
<1>3. /\ Fits(w, d) /\ Counted(w, d) /\ Limited(d) /\ Untouched(d) /\ Accepted(d) /\ Alone(d)
      /\ row[d].status # "none"
    BY DEF PushInv, Sound, Untouched
<1>4. \A v \in Workers : Fits(v, d)' /\ Counted(v, d)'
    BY <1>3 DEF PushInv, Sound, Fits, Counted, Holds
<1>5. Limited(d)'
    BY <1>1, <1>2, <1>3 DEF Limited, Counted
<1>6. Untouched(d)'
    BY <1>3 DEF Untouched
<1>7. Accepted(d)'
    BY <1>3 DEF Accepted, Holds
<1>8. Alone(d)'
    BY <1>3 DEF Alone, Expected, Holds
<1>9. Legal(d)
    <2>1. CASE d \in overtaken
        BY <2>1 DEF Legal, Seen
    <2>2. CASE d \notin overtaken
        BY <1>3, <2>2 DEF Legal, Seen, Alone
    <2> QED
        BY <2>1, <2>2
<1> QED
    BY <1>4, <1>5, <1>6, <1>7, <1>8, <1>9, OneDelivery DEF Sound

LEMMA FailInactiveSteps ==
    ASSUME PushInv, NEW w \in Workers, NEW d \in Deliveries, FailInactive(w, d)
    PROVE  PushStep
<1>1. /\ MarkFailed(row[d]) \in Row /\ MarkFailed(row[d]).status = "failed"
      /\ MarkFailed(row[d]).attempt = row[d].attempt
    BY RowOperations DEF PushInv, TypeOK
<1>2. /\ row' \in [Deliveries -> Row] /\ row'[d] = MarkFailed(row[d])
      /\ \A e \in Deliveries \ {d} : row'[e] = row[e]
    BY <1>1, RowSet DEF FailInactive, PushInv
<1>3. /\ claim' \in [Workers -> [Deliveries -> Nat]]
      /\ answer' \in [Workers -> [Deliveries -> Answers]]
      /\ answer'[w][d] = "unheld"
      /\ \A v \in Workers, e \in Deliveries :
             v # w \/ e # d => answer'[v][e] = answer[v][e] /\ claim'[v][e] = claim[v][e]
    BY ReleaseOne DEF FailInactive, PushInv
<1>4. TypeOK'
    BY <1>2, <1>3 DEF FailInactive, ghostVars, PushInv, TypeOK
<1>5. Expected(w, d) = "in_flight" /\ Holds(w, d)
    BY DEF FailInactive, Expected, Holds
<1> QED
    BY <1>1, <1>2, <1>3, <1>4, <1>5, WriteOne DEF FailInactive, ghostVars, Lifecycle!Steps

\* What both phases do with an error, an unregistered token and its deactivation.
LEMMA SettleSteps ==
    ASSUME PushInv, NEW w \in Workers, NEW d \in Deliveries, Settle(w, d),
           pc[w] \in {"answered", "reported"}, UNCHANGED <<pc, ghostVars>>
    PROVE  PushStep
<1> USE DEF ghostVars
<1>1. /\ row[d] \in Row /\ claim[w][d] \in Nat /\ MaxAttempts \in Nat /\ Holds(w, d)
    BY PushAssumption DEF PushInv, TypeOK, Settle, Holds
<1>2. CASE answer[w][d] = "error"
    <2> DEFINE r == RetryOrFail(row[d], claim[w][d])
    <2>1. /\ r \in Row /\ r.attempt = row[d].attempt
          /\ r.status \in {"failed", "queued"}
          /\ r.status = "queued" => claim[w][d] < MaxAttempts
        BY <1>1, RowOperations DEF RetryOrFail
    <2>2. row' = [row EXCEPT ![d] = r] /\ Release(w, d) /\ UNCHANGED active
        BY <1>2 DEF Settle, PushInv, TypeOK
    <2> HIDE DEF r
    <2>3. /\ row' \in [Deliveries -> Row] /\ row'[d] = r
          /\ \A e \in Deliveries \ {d} : row'[e] = row[e]
        BY <2>1, <2>2, RowSet DEF PushInv
    <2>4. /\ claim' \in [Workers -> [Deliveries -> Nat]]
          /\ answer' \in [Workers -> [Deliveries -> Answers]]
          /\ answer'[w][d] = "unheld"
          /\ \A v \in Workers, e \in Deliveries :
                 v # w \/ e # d => answer'[v][e] = answer[v][e] /\ claim'[v][e] = claim[v][e]
        BY <2>2, ReleaseOne DEF PushInv
    <2>5. TypeOK'
        BY <2>2, <2>3, <2>4 DEF PushInv, TypeOK
    <2>6. <<Expected(w, d), r.status>> \in Lifecycle!Steps
        BY <1>2, <2>1 DEF Expected, Lifecycle!Steps
    <2> QED
        BY <1>1, <2>1, <2>3, <2>4, <2>5, <2>6, WriteOne
<1>3. CASE answer[w][d] = "invalid"
    <2>1. /\ MarkFailed(row[d]) \in Row /\ MarkFailed(row[d]).status = "failed"
          /\ MarkFailed(row[d]).attempt = row[d].attempt
        BY <1>1, RowOperations
    <2>2. /\ row' = [row EXCEPT ![d] = MarkFailed(row[d])]
          /\ answer' = [answer EXCEPT ![w][d] = "deactivate"]
          /\ UNCHANGED <<active, claim>>
        BY <1>3 DEF Settle, PushInv, TypeOK
    <2>3. /\ row' \in [Deliveries -> Row] /\ row'[d] = MarkFailed(row[d])
          /\ \A e \in Deliveries \ {d} : row'[e] = row[e]
        BY <2>1, <2>2, RowSet DEF PushInv
    <2>4. /\ answer' \in [Workers -> [Deliveries -> Answers]]
          /\ answer'[w][d] = "deactivate"
          /\ \A v \in Workers, e \in Deliveries :
                 v # w \/ e # d => answer'[v][e] = answer[v][e] /\ claim'[v][e] = claim[v][e]
        BY <2>2 DEF PushInv, TypeOK, Answers
    <2>5. TypeOK'
        BY <2>2, <2>3, <2>4 DEF PushInv, TypeOK
    <2>6. <<Expected(w, d), "failed">> \in Lifecycle!Steps
        BY <1>3 DEF Expected, Lifecycle!Steps
    <2> QED
        BY <1>1, <2>1, <2>2, <2>3, <2>4, <2>5, <2>6, WriteOne
<1>4. CASE answer[w][d] = "deactivate"
    <2>1. /\ active' = [active EXCEPT ![DeviceOf[d]] = FALSE] /\ Release(w, d) /\ row' = row
        BY <1>4 DEF Settle
    <2>2. /\ claim' \in [Workers -> [Deliveries -> Nat]]
          /\ answer' \in [Workers -> [Deliveries -> Answers]]
          /\ answer'[w][d] = "unheld"
          /\ \A v \in Workers, e \in Deliveries :
                 v # w \/ e # d => answer'[v][e] = answer[v][e] /\ claim'[v][e] = claim[v][e]
        BY <2>1, ReleaseOne DEF PushInv
    <2>3. active' \in [Devices -> BOOLEAN]
        BY <2>1 DEF PushInv, TypeOK
    <2>4. TypeOK'
        BY <2>1, <2>2, <2>3 DEF PushInv, TypeOK
    <2>5. row[d].status \in {"sent", "delivered"} => pushes[d] > 0
        BY DEF PushInv, Sound, Accepted
    <2> QED
        BY <1>1, <2>1, <2>2, <2>4, <2>5, WriteOne
<1> QED
    BY <1>2, <1>3, <1>4 DEF Settle

LEMMA TicketSteps ==
    ASSUME PushInv, NEW w \in Workers, NEW d \in Deliveries, RecordTicket(w, d)
    PROVE  PushStep
<1>1. CASE /\ answer[w][d] = "ok" /\ Release(w, d) /\ UNCHANGED active
           /\ row' = [row EXCEPT ![d] = MarkSent(@, claim[w][d])]
    <2> DEFINE r == MarkSent(row[d], claim[w][d])
    <2>1. r \in Row /\ r.attempt = row[d].attempt /\ r.status = "sent"
        <3>1. row[d] \in Row /\ claim[w][d] \in Nat
            BY DEF PushInv, TypeOK
        <3> QED
            BY <3>1, RowOperations
    <2>2. row' = [row EXCEPT ![d] = r]
        BY <1>1 DEF PushInv, TypeOK
    <2> HIDE DEF r
    <2>3. /\ row' \in [Deliveries -> Row] /\ row'[d] = r
          /\ \A e \in Deliveries \ {d} : row'[e] = row[e]
        BY <2>1, <2>2, RowSet DEF PushInv
    <2>4. /\ claim' \in [Workers -> [Deliveries -> Nat]]
          /\ answer' \in [Workers -> [Deliveries -> Answers]]
          /\ answer'[w][d] = "unheld"
          /\ \A v \in Workers, e \in Deliveries :
                 v # w \/ e # d => answer'[v][e] = answer[v][e] /\ claim'[v][e] = claim[v][e]
        BY <1>1, ReleaseOne DEF PushInv
    <2>5. TypeOK'
        BY <1>1, <2>3, <2>4 DEF RecordTicket, ghostVars, PushInv, TypeOK
    <2>6. /\ Holds(w, d) /\ pc[w] = "answered" /\ pushes[d] > 0
          /\ <<Expected(w, d), r.status>> \in Lifecycle!Steps
        BY <1>1, <2>1
        DEF RecordTicket, PushInv, Sound, Accepted, Holds, Expected, Lifecycle!Steps
    <2> QED
        BY <2>1, <2>3, <2>4, <2>5, <2>6, WriteOne DEF RecordTicket, ghostVars
<1>2. CASE Settle(w, d)
    BY <1>2, SettleSteps DEF RecordTicket
<1> QED
    BY <1>1, <1>2 DEF RecordTicket

LEMMA ReceiptSteps ==
    ASSUME PushInv, NEW w \in Workers, NEW d \in Deliveries, RecordReceipt(w, d)
    PROVE  PushStep
<1>1. CASE /\ answer[w][d] = "ok" /\ Release(w, d) /\ UNCHANGED active
           /\ row' = [row EXCEPT ![d] = MarkDelivered(@)]
    <2> DEFINE r == MarkDelivered(row[d])
    <2>1. r \in Row /\ r.attempt = row[d].attempt /\ r.status = "delivered"
        BY RowOperations DEF PushInv, TypeOK
    <2>2. row' = [row EXCEPT ![d] = r]
        BY <1>1 DEF PushInv, TypeOK
    <2> HIDE DEF r
    <2>3. /\ row' \in [Deliveries -> Row] /\ row'[d] = r
          /\ \A e \in Deliveries \ {d} : row'[e] = row[e]
        BY <2>1, <2>2, RowSet DEF PushInv
    <2>4. /\ claim' \in [Workers -> [Deliveries -> Nat]]
          /\ answer' \in [Workers -> [Deliveries -> Answers]]
          /\ answer'[w][d] = "unheld"
          /\ \A v \in Workers, e \in Deliveries :
                 v # w \/ e # d => answer'[v][e] = answer[v][e] /\ claim'[v][e] = claim[v][e]
        BY <1>1, ReleaseOne DEF PushInv
    <2>5. TypeOK'
        BY <1>1, <2>3, <2>4 DEF RecordReceipt, ghostVars, PushInv, TypeOK
    <2>6. /\ Holds(w, d) /\ pc[w] = "reported" /\ pushes[d] > 0
          /\ <<Expected(w, d), r.status>> \in Lifecycle!Steps
        BY <1>1, <2>1
        DEF RecordReceipt, PushInv, Sound, Accepted, Holds, Expected, Lifecycle!Steps
    <2> QED
        BY <2>1, <2>3, <2>4, <2>5, <2>6, WriteOne DEF RecordReceipt, ghostVars
<1>2. CASE answer[w][d] = "unknown" /\ Release(w, d) /\ UNCHANGED <<row, active>>
    <2>1. /\ claim' \in [Workers -> [Deliveries -> Nat]]
          /\ answer' \in [Workers -> [Deliveries -> Answers]]
          /\ answer'[w][d] = "unheld"
          /\ \A v \in Workers, e \in Deliveries :
                 v # w \/ e # d => answer'[v][e] = answer[v][e] /\ claim'[v][e] = claim[v][e]
        BY <1>2, ReleaseOne DEF PushInv
    <2>2. TypeOK'
        BY <1>2, <2>1 DEF RecordReceipt, ghostVars, PushInv, TypeOK
    <2>3. /\ Holds(w, d) /\ pc[w] = "reported"
          /\ row[d].status \in {"sent", "delivered"} => pushes[d] > 0
        BY <1>2 DEF RecordReceipt, PushInv, Sound, Accepted, Holds
    <2> QED
        BY <1>2, <2>1, <2>2, <2>3, WriteOne DEF RecordReceipt, ghostVars
<1>3. CASE Settle(w, d)
    BY <1>3, SettleSteps DEF RecordReceipt
<1> QED
    BY <1>1, <1>2, <1>3 DEF RecordReceipt

-----------------------------------------------------------------------------
(* Steps of a worker on all its deliveries.                                *)

\* A stage that ends with nothing held.
LEMMA StageSteps ==
    ASSUME PushInv, NEW w \in Workers, StartPolling(w) \/ EndCycle(w)
    PROVE  PushStep
<1>1. /\ UNCHANGED <<queueVars, claim, answer, ghostVars>>
      /\ \A d \in Deliveries : answer[w][d] = "unheld"
      /\ \A v \in Workers \ {w} : pc'[v] = pc[v]
      /\ pc' \in [Workers -> Stages]
    BY DEF StartPolling, EndCycle, Holding, Holds, PushInv, TypeOK, Stages
<1>2. TypeOK'
    BY <1>1 DEF queueVars, ghostVars, PushInv, TypeOK
<1>3. ASSUME NEW d \in Deliveries PROVE Sound(d)' /\ Legal(d)
    <2>1. Sound(d)
        BY DEF PushInv
    <2>2. \A v \in Workers : Fits(v, d)' /\ Counted(v, d)'
        BY <1>1, <2>1 DEF queueVars, ghostVars, Sound, Fits, Counted, Holds
    <2>3. Limited(d)' /\ Untouched(d)' /\ Accepted(d)'
        BY <1>1, <2>1 DEF queueVars, ghostVars, Sound, Limited, Untouched, Accepted, Holds
    <2>4. Alone(d)'
        BY <1>1, <2>1 DEF queueVars, ghostVars, Sound, Alone, Expected, Holds
    <2> QED
        BY <1>1, <2>2, <2>3, <2>4 DEF queueVars, ghostVars, Sound, Legal, Seen
<1> QED
    BY <1>2, <1>3 DEF PushStep, PushInv

LEMMA ForgetSteps ==
    ASSUME PushInv, NEW w \in Workers, Forget(w)
    PROVE  PushStep
<1>1. /\ UNCHANGED <<row, active, pushes, stray, overtaken>>
      /\ \A d \in Deliveries : answer'[w][d] = "unheld"
      /\ \A v \in Workers \ {w} :
             pc'[v] = pc[v] /\ answer'[v] = answer[v] /\ claim'[v] = claim[v]
    BY DEF Forget, queueVars, PushInv, TypeOK
<1>2. TypeOK'
    BY DEF Forget, Fault, queueVars, PushInv, TypeOK, Stages, Answers
<1>3. ASSUME NEW d \in Deliveries PROVE Sound(d)' /\ Legal(d)
    <2>1. Sound(d)
        BY DEF PushInv
    <2>2. \A v \in Workers : Fits(v, d)' /\ Counted(v, d)'
        BY <1>1, <2>1 DEF Sound, Fits, Counted, Holds
    <2>3. Limited(d)' /\ Untouched(d)' /\ Accepted(d)'
        BY <1>1, <2>1 DEF Sound, Limited, Untouched, Accepted, Holds
    <2>4. Alone(d)'
        BY <1>1, <2>1 DEF Sound, Alone, Expected, Holds
    <2> QED
        BY <1>1, <2>2, <2>3, <2>4 DEF Sound, Legal, Seen
<1> QED
    BY <1>2, <1>3 DEF PushStep, PushInv

\* The answers of a request, to the push or for receipts: rows stay as they are.
LEMMA SendSteps ==
    ASSUME PushInv, NEW w \in Workers, Send(w)
    PROVE  PushStep
<1>1. PICK A \in SUBSET Holding(w), I \in SUBSET Holding(w), arrives \in BOOLEAN :
          /\ answer' = [answer EXCEPT ![w] =
                [d \in Deliveries |-> IF d \notin Holding(w) THEN "unheld"
                                      ELSE IF ~arrives THEN "error"
                                      ELSE IF d \in A THEN "ok"
                                      ELSE IF d \in I THEN "invalid" ELSE "error"]]
          /\ pushes' = [d \in Deliveries |-> IF d \in A THEN pushes[d] + 1 ELSE pushes[d]]
    BY DEF Send
<1>2. \A d \in Deliveries :
          /\ answer'[w][d] \in {"unheld", "error", "ok", "invalid"}
          /\ answer'[w][d] = "unheld" <=> answer[w][d] = "unheld"
          /\ answer'[w][d] = "ok" => d \in A
    BY <1>1 DEF Holding, Holds, PushInv, TypeOK
<1>3. /\ \A v \in Workers \ {w} : answer'[v] = answer[v]
      /\ answer' \in [Workers -> [Deliveries -> Answers]]
    BY <1>1 DEF PushInv, TypeOK, Answers
<1>4. /\ pushes' \in [Deliveries -> Nat]
      /\ \A d \in Deliveries : pushes'[d] = IF d \in A THEN pushes[d] + 1 ELSE pushes[d]
    BY <1>1 DEF PushInv, TypeOK
<1>5. /\ pc[w] = "claimed" /\ pc'[w] = "answered" /\ pc' \in [Workers -> Stages]
      /\ \A v \in Workers \ {w} : pc'[v] = pc[v]
    BY DEF Send, PushInv, TypeOK, Stages
<1>6. UNCHANGED <<row, active, claim, stray, overtaken>> /\ faults' \in Nat
    BY DEF Send, Fault, queueVars, PushInv, TypeOK
<1>7. TypeOK'
    BY <1>2, <1>3, <1>4, <1>5, <1>6 DEF PushInv, TypeOK
<1>8. ASSUME NEW d \in Deliveries PROVE Sound(d)' /\ Legal(d)
    <2>1. Sound(d) /\ pushes[d] \in Nat
        BY DEF PushInv, TypeOK
    <2>2. \A v \in Workers : Fits(v, d)' /\ Counted(v, d)'
        BY <1>2, <1>3, <1>4, <1>5, <1>6, <2>1 DEF Sound, Fits, Counted, Holds
    <2>3. Limited(d)'
        BY <1>6, <2>1 DEF Sound, Limited
    <2>4. Untouched(d)'
        BY <1>2, <1>3, <1>4, <1>6, <2>1 DEF Sound, Untouched, Holding, Holds
    <2>5. Accepted(d)'
        BY <1>2, <1>3, <1>4, <1>5, <1>6, <2>1 DEF Sound, Accepted, Holds
    <2>6. answer[w][d] # "deactivate"
        BY <1>5, <2>1 DEF Sound, Fits
    <2>7. Alone(d)'
        BY <1>2, <1>3, <1>4, <1>5, <1>6, <2>1, <2>6 DEF Sound, Alone, Expected, Holds
    <2> QED
        BY <1>6, <2>2, <2>3, <2>4, <2>5, <2>7 DEF Sound, Legal, Seen
<1> QED
    BY <1>7, <1>8 DEF PushStep, PushInv

LEMMA FetchSteps ==
    ASSUME PushInv, NEW w \in Workers, FetchReceipts(w)
    PROVE  PushStep
<1>1. /\ \A d \in Deliveries :
             /\ answer'[w][d] \in {"unheld", "error", "ok", "invalid", "unknown"}
             /\ answer'[w][d] = "unheld" <=> answer[w][d] = "unheld"
      /\ \A v \in Workers \ {w} : pc'[v] = pc[v] /\ answer'[v] = answer[v]
      /\ answer' \in [Workers -> [Deliveries -> Answers]]
    BY DEF FetchReceipts, Holding, Holds, PushInv, TypeOK, Answers
<1>2. pc[w] = "asking" /\ pc'[w] = "reported" /\ pc' \in [Workers -> Stages]
    BY DEF FetchReceipts, PushInv, TypeOK, Stages
<1>3. UNCHANGED <<row, active, claim, pushes, stray, overtaken>> /\ faults' \in Nat
    BY DEF FetchReceipts, Fault, queueVars, PushInv, TypeOK
<1>4. TypeOK'
    BY <1>1, <1>2, <1>3 DEF PushInv, TypeOK
<1>5. ASSUME NEW d \in Deliveries PROVE Sound(d)' /\ Legal(d)
    <2>1. Sound(d)
        BY DEF PushInv
    <2>2. \A v \in Workers : Fits(v, d)' /\ Counted(v, d)'
        BY <1>1, <1>2, <1>3, <2>1 DEF Sound, Fits, Counted, Holds
    <2>3. Limited(d)' /\ Untouched(d)' /\ Accepted(d)'
        BY <1>1, <1>2, <1>3, <2>1 DEF Sound, Limited, Untouched, Accepted, Holds
    <2>4. answer[w][d] # "deactivate"
        BY <1>2, <2>1 DEF Sound, Fits
    <2>5. Alone(d)'
        BY <1>1, <1>2, <1>3, <2>1, <2>4 DEF Sound, Alone, Expected, Holds
    <2> QED
        BY <1>3, <2>2, <2>3, <2>5 DEF Sound, Legal, Seen
<1> QED
    BY <1>4, <1>5 DEF PushStep, PushInv

\* A claim takes deliveries over from the workers that still hold them, and
\* counts those and the lost ones as astray.
LEMMA OvertakeOne ==
    ASSUME PushInv, NEW B \in SUBSET Deliveries, Overtake(B), NEW d \in Deliveries
    PROVE  /\ d \in overtaken' <=> d \in overtaken \/ d \in Contested(B)
           /\ d \in Contested(B) <=> d \in B /\ \E v \in Workers : Holds(v, d)
           /\ stray'[d] = IF d \in B /\ (row[d].status = "in_flight" \/ d \in Contested(B))
                          THEN stray[d] + 1 ELSE stray[d]
BY DEF Overtake, Contested

LEMMA OvertakeTypes ==
    ASSUME PushInv, NEW B \in SUBSET Deliveries, Overtake(B)
    PROVE  stray' \in [Deliveries -> Nat] /\ overtaken' \subseteq Deliveries /\ faults' \in Nat
BY DEF Overtake, Contested, Fault, PushInv, TypeOK

LEMMA ClaimReadySteps ==
    ASSUME PushInv, NEW w \in Workers, ClaimReady(w)
    PROVE  PushStep
<1>1. PICK B \in Batch({d \in Deliveries : Ready(d)}, BatchSize) :
          /\ row' = [d \in Deliveries |-> IF d \in B THEN Claimed(row[d]) ELSE row[d]]
          /\ claim' = [claim EXCEPT ![w] =
                [d \in Deliveries |-> IF d \in B THEN row[d].attempt + 1 ELSE 0]]
          /\ answer' = [answer EXCEPT ![w] =
                [d \in Deliveries |-> IF d \notin B THEN "unheld"
                                      ELSE IF active[DeviceOf[d]] THEN "unsent"
                                      ELSE "inactive"]]
          /\ Overtake(B)
    BY DEF ClaimReady
<1>2. B \in SUBSET Deliveries /\ \A d \in B : row[d].status \in {"queued", "in_flight"}
    BY DEF Batch, Ready
<1>3. /\ pc[w] = "idle" /\ pc'[w] = "claimed" /\ pc' \in [Workers -> Stages]
      /\ \A v \in Workers \ {w} : pc'[v] = pc[v]
      /\ UNCHANGED <<active, pushes>>
    BY DEF ClaimReady, PushInv, TypeOK, Stages
<1>4. \A d \in Deliveries : /\ row[d] \in Row /\ row[d].attempt \in Nat
                            /\ stray[d] \in Nat /\ pushes[d] \in Nat
    BY DEF PushInv, TypeOK, Row
<1>5. \A d \in B : /\ Claimed(row[d]) \in Row /\ Claimed(row[d]).status = "in_flight"
                   /\ Claimed(row[d]).attempt = row[d].attempt + 1
    BY <1>2, <1>4, RowOperations
<1>6. row' \in [Deliveries -> Row]
    BY <1>1, <1>4, <1>5
<1>7. claim' \in [Workers -> [Deliveries -> Nat]] /\ answer' \in [Workers -> [Deliveries -> Answers]]
    BY <1>1, <1>4 DEF PushInv, TypeOK, Answers
<1>8. TypeOK'
    BY <1>1, <1>2, <1>3, <1>6, <1>7, OvertakeTypes DEF PushInv, TypeOK
<1>9. ASSUME NEW d \in Deliveries PROVE Sound(d)' /\ Legal(d)
    <2>1. Sound(d) /\ ~Holds(w, d) /\ MaxAttempts \in Nat
        BY <1>3, PushAssumption DEF PushInv, Sound, Fits, Holds
    <2>2. /\ \A v \in Workers \ {w} : answer'[v][d] = answer[v][d] /\ claim'[v][d] = claim[v][d]
          /\ \A v \in Workers : claim[v][d] \in Nat
        BY <1>1 DEF PushInv, TypeOK
    <2>3. CASE d \in B
        <3>1. /\ row'[d].status = "in_flight" /\ row'[d].attempt = row[d].attempt + 1
              /\ row[d].status \in {"queued", "in_flight"}
              /\ claim'[w][d] = row[d].attempt + 1
              /\ answer'[w][d] \in {"unsent", "inactive"}
            BY <1>1, <1>2, <1>5, <2>3 DEF PushInv, TypeOK
        <3>2. /\ d \in overtaken' <=> d \in overtaken \/ \E v \in Workers : Holds(v, d)
              /\ stray'[d] = IF row[d].status = "in_flight" \/ \E v \in Workers : Holds(v, d)
                             THEN stray[d] + 1 ELSE stray[d]
            BY <1>1, <1>2, <2>3, OvertakeOne
        <3>3. \A v \in Workers : Fits(v, d)'
            BY <1>3, <2>1, <2>2, <3>1 DEF Sound, Fits
        <3>4. \A v \in Workers : Counted(v, d)'
            <4>1. Counted(w, d)'
                BY <1>4, <3>1, <3>2 DEF Counted
            <4>2. ASSUME NEW v \in Workers \ {w} PROVE Counted(v, d)'
                BY <1>4, <2>1, <2>2, <3>1, <3>2 DEF Sound, Counted, Holds
            <4> QED
                BY <4>1, <4>2
        <3>5. Limited(d)'
            BY <1>4, <2>1, <3>1, <3>2 DEF Sound, Limited
        <3>6. Untouched(d)' /\ Accepted(d)'
            BY <1>3, <2>1, <2>2, <3>1 DEF Sound, Untouched, Accepted, Holds
        <3>7. Alone(d)'
            <4>1. CASE d \in overtaken'
                BY <4>1 DEF Alone
            <4>2. CASE d \notin overtaken'
                <5>1. \A v \in Workers \ {w} : ~Holds(v, d) /\ ~Holds(v, d)'
                    BY <2>2, <3>2, <4>2 DEF Holds
                <5>2. Expected(w, d)' = "in_flight"
                    BY <1>3, <3>1 DEF Expected
                <5> QED
                    BY <3>1, <5>1, <5>2 DEF Alone
            <4> QED
                BY <4>1, <4>2
        <3>8. Legal(d)
            <4>1. CASE d \in overtaken
                BY <3>2, <4>1 DEF Legal, Seen
            <4>2. CASE d \notin overtaken /\ d \in overtaken'
                <5>1. row[d].status \in {"in_flight", "sent", "failed"}
                    BY <2>1, <3>2, <4>2 DEF Sound, Alone, Expected
                <5> QED
                    BY <3>1, <4>2, <5>1 DEF Legal, Seen, Lifecycle!Held
            <4>3. CASE d \notin overtaken'
                BY <3>1, <3>2, <4>3 DEF Legal, Seen, Lifecycle!Steps
            <4> QED
                BY <4>1, <4>2, <4>3
        <3> QED
            BY <3>3, <3>4, <3>5, <3>6, <3>7, <3>8 DEF Sound
    <2>4. CASE d \notin B
        <3>1. row'[d] = row[d] /\ answer'[w][d] = "unheld"
            BY <1>1, <2>4 DEF PushInv, TypeOK
        <3>2. (d \in overtaken' <=> d \in overtaken) /\ stray'[d] = stray[d]
            BY <1>1, <1>2, <2>4, OvertakeOne
        <3>3. \A v \in Workers : Fits(v, d)' /\ Counted(v, d)'
            BY <1>3, <2>1, <2>2, <3>1, <3>2 DEF Sound, Fits, Counted, Holds
        <3>4. Limited(d)' /\ Untouched(d)' /\ Accepted(d)'
            BY <1>3, <2>1, <2>2, <3>1, <3>2 DEF Sound, Limited, Untouched, Accepted, Holds
        <3>5. Alone(d)'
            BY <1>3, <2>1, <2>2, <3>1, <3>2 DEF Sound, Alone, Expected, Holds
        <3> QED
            BY <3>1, <3>2, <3>3, <3>4, <3>5 DEF Sound, Legal, Seen
    <2> QED
        BY <2>3, <2>4
<1> QED
    BY <1>8, <1>9 DEF PushStep, PushInv

LEMMA ClaimReceiptsSteps ==
    ASSUME PushInv, NEW w \in Workers, ClaimReceipts(w)
    PROVE  PushStep
<1>1. PICK B \in Batch({d \in Deliveries : AwaitsReceipt(d)}, BatchSize) :
      /\ row' = [d \in Deliveries |->
                    IF d \in B THEN [row[d] EXCEPT !.due = FALSE] ELSE row[d]]
      /\ claim' = [claim EXCEPT ![w] =
                    [d \in Deliveries |-> IF d \in B THEN row[d].attempt ELSE 0]]
      /\ answer' = [answer EXCEPT ![w] =
                    [d \in Deliveries |-> IF d \in B THEN "asked" ELSE "unheld"]]
      /\ Overtake(B)
      /\ pc' = [pc EXCEPT ![w] = IF B = {} THEN "idle" ELSE "asking"]
    BY DEF ClaimReceipts
<1>2. B \in SUBSET Deliveries /\ \A d \in B : row[d].status = "sent"
    BY DEF Batch, AwaitsReceipt
<1>3. /\ pc[w] = "polling" /\ pc' \in [Workers -> Stages]
      /\ \A d \in B : pc'[w] = "asking"
      /\ \A v \in Workers \ {w} : pc'[v] = pc[v]
      /\ UNCHANGED <<active, pushes>>
    BY <1>1 DEF ClaimReceipts, PushInv, TypeOK, Stages
<1>4. \A d \in Deliveries : row[d] \in Row /\ row[d].attempt \in Nat /\ stray[d] \in Nat
    BY DEF PushInv, TypeOK, Row
<1>5. \A d \in Deliveries : /\ row'[d] \in Row
                            /\ row'[d].status = row[d].status /\ row'[d].attempt = row[d].attempt
    BY <1>1, <1>4 DEF Row
<1>6. row' \in [Deliveries -> Row]
    BY <1>1, <1>5
<1>7. claim' \in [Workers -> [Deliveries -> Nat]] /\ answer' \in [Workers -> [Deliveries -> Answers]]
    BY <1>1, <1>4 DEF PushInv, TypeOK, Answers
<1>8. TypeOK'
    BY <1>1, <1>2, <1>3, <1>6, <1>7, OvertakeTypes DEF PushInv, TypeOK
<1>9. ASSUME NEW d \in Deliveries PROVE Sound(d)' /\ Legal(d)
    <2>1. Sound(d) /\ ~Holds(w, d) /\ MaxAttempts \in Nat
        BY <1>3, PushAssumption DEF PushInv, Sound, Fits, Holds
    <2>2. /\ \A v \in Workers \ {w} : answer'[v][d] = answer[v][d] /\ claim'[v][d] = claim[v][d]
          /\ \A v \in Workers : claim[v][d] \in Nat
        BY <1>1 DEF PushInv, TypeOK
    <2>3. CASE d \in B
        <3>1. /\ row[d].status = "sent" /\ claim'[w][d] = row[d].attempt
              /\ answer'[w][d] = "asked"
            BY <1>1, <1>2, <2>3 DEF PushInv, TypeOK
        <3>2. /\ d \in overtaken' <=> d \in overtaken \/ \E v \in Workers : Holds(v, d)
              /\ stray'[d] = IF \E v \in Workers : Holds(v, d) THEN stray[d] + 1 ELSE stray[d]
            BY <1>1, <1>2, <2>3, <3>1, OvertakeOne
        <3>3. \A v \in Workers : Fits(v, d)'
            BY <1>3, <2>1, <2>2, <2>3, <3>1 DEF Sound, Fits
        <3>4. \A v \in Workers : Counted(v, d)'
            <4>1. Counted(w, d)'
                BY <1>4, <1>5, <3>1, <3>2 DEF Counted
            <4>2. ASSUME NEW v \in Workers \ {w} PROVE Counted(v, d)'
                BY <1>4, <1>5, <2>1, <2>2, <3>2 DEF Sound, Counted, Holds
            <4> QED
                BY <4>1, <4>2
        <3>5. Limited(d)'
            BY <1>4, <1>5, <2>1, <3>1, <3>2 DEF Sound, Limited
        <3>6. Untouched(d)' /\ Accepted(d)'
            BY <1>3, <1>5, <2>1, <2>2, <3>1 DEF Sound, Untouched, Accepted, Holds
        <3>7. Alone(d)'
            <4>1. CASE d \in overtaken'
                BY <4>1 DEF Alone
            <4>2. CASE d \notin overtaken'
                <5>1. \A v \in Workers \ {w} : ~Holds(v, d) /\ ~Holds(v, d)'
                    BY <2>2, <3>2, <4>2 DEF Holds
                <5>2. Expected(w, d)' = "sent"
                    BY <1>3, <2>3, <3>1 DEF Expected
                <5> QED
                    BY <1>5, <3>1, <5>1, <5>2 DEF Alone
            <4> QED
                BY <4>1, <4>2
        <3>8. Legal(d)
            BY <1>5, <3>1, <3>2 DEF Legal, Seen, Lifecycle!Held
        <3> QED
            BY <3>3, <3>4, <3>5, <3>6, <3>7, <3>8 DEF Sound
    <2>4. CASE d \notin B
        <3>1. answer'[w][d] = "unheld"
            BY <1>1, <2>4 DEF PushInv, TypeOK
        <3>2. (d \in overtaken' <=> d \in overtaken) /\ stray'[d] = stray[d]
            BY <1>1, <1>2, <2>4, OvertakeOne
        <3>3. \A v \in Workers : Fits(v, d)' /\ Counted(v, d)'
            BY <1>3, <1>5, <2>1, <2>2, <3>1, <3>2 DEF Sound, Fits, Counted, Holds
        <3>4. Limited(d)' /\ Untouched(d)' /\ Accepted(d)'
            BY <1>3, <1>5, <2>1, <2>2, <3>1, <3>2 DEF Sound, Limited, Untouched, Accepted, Holds
        <3>5. Alone(d)'
            BY <1>3, <1>5, <2>1, <2>2, <3>1, <3>2 DEF Sound, Alone, Expected, Holds
        <3> QED
            BY <1>5, <3>2, <3>3, <3>4, <3>5 DEF Sound, Legal, Seen
    <2> QED
        BY <2>3, <2>4
<1> QED
    BY <1>8, <1>9 DEF PushStep, PushInv

-----------------------------------------------------------------------------
(* The rest of the world.                                                  *)

\* A row may be queued or become due, and nothing else.
LEMMA WorldSteps ==
    ASSUME PushInv, TypeOK', UNCHANGED <<workerVars, ghostVars>>,
           \A d \in Deliveries :
               \/ row'[d].status = row[d].status /\ row'[d].attempt = row[d].attempt
               \/ row[d].status = "none" /\ row'[d].status = "queued" /\ row'[d].attempt = 0
    PROVE  PushStep
<1> USE DEF workerVars, ghostVars
<1>1. ASSUME NEW d \in Deliveries PROVE Sound(d)' /\ Legal(d)
    <2>1. /\ Sound(d) /\ MaxAttempts \in Nat \ {0} /\ stray[d] \in Nat
          /\ \A v \in Workers : claim[v][d] \in Nat
        BY PushAssumption DEF PushInv, TypeOK
    <2>2. CASE row'[d].status = row[d].status /\ row'[d].attempt = row[d].attempt
        BY <2>1, <2>2 DEF Sound, Fits, Counted, Limited, Untouched, Accepted, Alone, Expected, Holds,
                          Legal, Seen
    <2>3. CASE row[d].status = "none" /\ row'[d].status = "queued" /\ row'[d].attempt = 0
        <3>1. \A v \in Workers : Fits(v, d)' /\ Counted(v, d)'
            BY <2>1, <2>3 DEF Sound, Fits, Counted, Holds
        <3>2. Limited(d)'
            BY <2>1, <2>3 DEF Limited
        <3>3. Untouched(d)' /\ Accepted(d)' /\ Alone(d)'
            BY <2>1, <2>3 DEF Sound, Untouched, Accepted, Alone, Holds
        <3>4. Legal(d)
            BY <2>3 DEF Legal, Seen, Lifecycle!Steps
        <3> QED
            BY <3>1, <3>2, <3>3, <3>4 DEF Sound
    <2> QED
        BY <1>1, <2>2, <2>3
<1> QED
    BY <1>1 DEF PushStep, PushInv

LEMMA EnqueueSteps ==
    ASSUME PushInv, NEW D \in SUBSET Deliveries, Enqueue(D)
    PROVE  PushStep
<1>1. Queued \in Row /\ Queued.status = "queued" /\ Queued.attempt = 0
    BY DEF Queued, NoRow, Row, Statuses
<1>2. TypeOK'
    BY <1>1 DEF Enqueue, workerVars, ghostVars, PushInv, TypeOK
<1>3. ASSUME NEW d \in Deliveries
      PROVE  \/ row'[d].status = row[d].status /\ row'[d].attempt = row[d].attempt
             \/ row[d].status = "none" /\ row'[d].status = "queued" /\ row'[d].attempt = 0
    BY <1>1 DEF Enqueue
<1> QED
    BY <1>2, <1>3, WorldSteps DEF Enqueue

LEMMA ElapseSteps ==
    ASSUME PushInv, NEW d \in Deliveries, Elapse(d)
    PROVE  PushStep
<1>1. \A e \in Deliveries : row[e] \in Row
    BY DEF PushInv, TypeOK
<1>2. \A e \in Deliveries : /\ row'[e] \in Row
                            /\ row'[e].status = row[e].status /\ row'[e].attempt = row[e].attempt
    BY <1>1 DEF Elapse, PushInv, TypeOK, Row
<1>3. TypeOK'
    BY <1>2 DEF Elapse, workerVars, ghostVars, PushInv, TypeOK
<1> QED
    BY <1>2, <1>3, WorldSteps DEF Elapse

LEMMA TokenSteps ==
    ASSUME PushInv, NEW t \in Devices, Register(t) \/ Revoke(t)
    PROVE  PushStep
<1>1. TypeOK' /\ UNCHANGED <<row, workerVars, ghostVars>>
    BY DEF Register, Revoke, TokenChange, workerVars, ghostVars, PushInv, TypeOK
<1> QED
    BY <1>1, WorldSteps

-----------------------------------------------------------------------------

LEMMA PushInit == Init => PushInv
<1> SUFFICES ASSUME Init PROVE PushInv
    OBVIOUS
<1>1. NoRow \in Row /\ NoRow.status = "none" /\ NoRow.attempt = 0
    BY DEF NoRow, Row, Statuses
<1>2. TypeOK
    BY <1>1 DEF Init, TypeOK, Stages, Answers
<1>3. ASSUME NEW d \in Deliveries PROVE Sound(d)
    <2>1. \A v \in Workers : Fits(v, d) /\ Counted(v, d)
        BY DEF Init, Fits, Counted, Holds
    <2>2. Limited(d)
        BY <1>1, PushAssumption DEF Init, Limited
    <2>3. Untouched(d) /\ Accepted(d) /\ Alone(d)
        BY <1>1 DEF Init, Untouched, Accepted, Alone, Holds
    <2> QED
        BY <2>1, <2>2, <2>3 DEF Sound
<1> QED
    BY <1>2, <1>3 DEF PushInv

LEMMA PushNext == PushInv /\ [Next]_vars => PushStep
<1> SUFFICES ASSUME PushInv, [Next]_vars PROVE PushStep
    OBVIOUS
<1>1. ASSUME NEW w \in Workers, WorkerStep(w) PROVE PushStep
    BY <1>1, ClaimReadySteps, FailInactiveSteps, TicketSteps, ReceiptSteps, SendSteps, StageSteps,
       ClaimReceiptsSteps, FetchSteps DEF WorkerStep
<1>2. ASSUME NEW w \in Workers, Forget(w) PROVE PushStep
    BY <1>2, ForgetSteps
<1>3. CASE \E D \in SUBSET Deliveries : Enqueue(D)
    BY <1>3, EnqueueSteps
<1>4. CASE \E d \in Deliveries : Elapse(d)
    BY <1>4, ElapseSteps
<1>5. CASE \E t \in Devices : Register(t) \/ Revoke(t)
    BY <1>5, TokenSteps
<1>6. CASE UNCHANGED vars
    <2>1. TypeOK'
        BY <1>6 DEF vars, queueVars, workerVars, ghostVars, PushInv, TypeOK
    <2> QED
        BY <1>6, <2>1, WorldSteps DEF vars, queueVars
<1> QED
    BY <1>1, <1>2, <1>3, <1>4, <1>5, <1>6 DEF Next

LEMMA PushAlways == Spec => []PushInv
<1>1. PushInv /\ [Next]_vars => PushInv'
    BY PushNext DEF PushStep
<1> QED
    BY <1>1, PushInit, PTL DEF Spec

-----------------------------------------------------------------------------
(* Pushes are counted before they are made.                                *)

\* Workers that have counted an attempt and not sent it yet.
Unsent(d) == {w \in Workers : answer[w][d] = "unsent"}

Tally(d) == pushes[d] + Cardinality(Unsent(d)) <= row[d].attempt

\* How a step may spend attempts: not at all, by sending one, by counting one, or
\* on a row just queued.
Spends(d) ==
    \/ /\ pushes'[d] = pushes[d] /\ row'[d].attempt = row[d].attempt
       /\ Unsent(d)' \subseteq Unsent(d)
    \/ \E w \in Unsent(d) :
          /\ pushes'[d] <= pushes[d] + 1 /\ row'[d].attempt = row[d].attempt
          /\ Unsent(d)' \subseteq Unsent(d) \ {w}
    \/ \E w \in Workers :
          /\ pushes'[d] = pushes[d] /\ row'[d].attempt = row[d].attempt + 1
          /\ Unsent(d)' \subseteq Unsent(d) \cup {w}
    \/ pushes'[d] = 0 /\ Unsent(d)' = {}

LEMMA TallyKept ==
    ASSUME TypeOK, TypeOK', NEW d \in Deliveries, Tally(d), Spends(d)
    PROVE  Tally(d)'
<1>1. IsFiniteSet(Unsent(d)) /\ IsFiniteSet(Unsent(d)')
    <2>1. Unsent(d) \subseteq Workers /\ Unsent(d)' \subseteq Workers
        BY DEF Unsent
    <2> QED
        BY <2>1, PushAssumption, FS_Subset
<1>2. /\ Cardinality(Unsent(d)) \in Nat /\ Cardinality(Unsent(d)') \in Nat
      /\ pushes[d] \in Nat /\ pushes'[d] \in Nat
      /\ row[d].attempt \in Nat /\ row'[d].attempt \in Nat
    BY <1>1, FS_CardinalityType DEF TypeOK, Row
<1>3. CASE /\ pushes'[d] = pushes[d] /\ row'[d].attempt = row[d].attempt
           /\ Unsent(d)' \subseteq Unsent(d)
    <2>1. Cardinality(Unsent(d)') <= Cardinality(Unsent(d))
        BY <1>1, <1>3, FS_Subset
    <2> QED
        BY <1>2, <1>3, <2>1 DEF Tally
<1>4. ASSUME NEW w \in Unsent(d),
             pushes'[d] <= pushes[d] + 1, row'[d].attempt = row[d].attempt,
             Unsent(d)' \subseteq Unsent(d) \ {w}
      PROVE  Tally(d)'
    <2>1. /\ IsFiniteSet(Unsent(d) \ {w})
          /\ Cardinality(Unsent(d) \ {w}) = Cardinality(Unsent(d)) - 1
        BY <1>1, FS_RemoveElement
    <2>2. Cardinality(Unsent(d)') <= Cardinality(Unsent(d) \ {w})
        BY <1>4, <2>1, FS_Subset
    <2> QED
        BY <1>2, <1>4, <2>1, <2>2 DEF Tally
<1>5. ASSUME NEW w \in Workers,
             pushes'[d] = pushes[d], row'[d].attempt = row[d].attempt + 1,
             Unsent(d)' \subseteq Unsent(d) \cup {w}
      PROVE  Tally(d)'
    <2>1. /\ IsFiniteSet(Unsent(d) \cup {w})
          /\ Cardinality(Unsent(d) \cup {w}) <= Cardinality(Unsent(d)) + 1
        <3>1. /\ IsFiniteSet(Unsent(d) \cup {w})
              /\ Cardinality(Unsent(d) \cup {w}) =
                     IF w \in Unsent(d) THEN Cardinality(Unsent(d)) ELSE Cardinality(Unsent(d)) + 1
            BY <1>1, FS_AddElement
        <3> HIDE DEF Unsent
        <3> QED
            BY <1>2, <3>1
    <2>2. Cardinality(Unsent(d)') <= Cardinality(Unsent(d) \cup {w})
        BY <1>5, <2>1, FS_Subset
    <2>3. Cardinality(Unsent(d) \cup {w}) \in Nat
        BY <2>1, FS_CardinalityType
    <2> QED
        BY <1>2, <1>5, <2>1, <2>2, <2>3 DEF Tally
<1>6. CASE pushes'[d] = 0 /\ Unsent(d)' = {}
    <2>1. Cardinality(Unsent(d)') = 0
        BY <1>6, FS_EmptySet
    <2> QED
        BY <1>2, <1>6, <2>1 DEF Tally
<1> QED
    BY <1>3, <1>4, <1>5, <1>6 DEF Spends

\* A step that writes to the rows and lets deliveries go, or changes nothing here.
LEMMA SpendsNothing ==
    ASSUME NEW d \in Deliveries, UNCHANGED pushes, row'[d].attempt = row[d].attempt,
           \A w \in Workers : answer'[w][d] = "unsent" => answer[w][d] = "unsent"
    PROVE  Spends(d)
BY DEF Spends, Unsent

LEMMA RowWrites ==
    ASSUME PushInv, NEW w \in Workers, NEW d \in Deliveries,
           \/ FailInactive(w, d) \/ RecordTicket(w, d) \/ RecordReceipt(w, d)
    PROVE  \A e \in Deliveries : Spends(e)
<1>1. /\ row[d] \in Row /\ claim[w][d] \in Nat /\ UNCHANGED pushes
    BY DEF PushInv, TypeOK, FailInactive, RecordTicket, RecordReceipt, ghostVars
<1>2. \A v \in Workers, e \in Deliveries : answer'[v][e] = "unsent" => answer[v][e] = "unsent"
    BY DEF PushInv, TypeOK, FailInactive, RecordTicket, RecordReceipt, Settle, Release
<1>3. PICK r \in Row : /\ r.attempt = row[d].attempt
                       /\ row' = [row EXCEPT ![d] = r]
    <2>1. row = [row EXCEPT ![d] = row[d]]
        BY DEF PushInv, TypeOK
    <2> DEFINE sent == MarkSent(row[d], claim[w][d])
               told == MarkDelivered(row[d])
               gone == MarkFailed(row[d])
               again == ScheduleRetry(row[d])
    <2>2. /\ sent \in Row /\ sent.attempt = row[d].attempt
          /\ told \in Row /\ told.attempt = row[d].attempt
          /\ gone \in Row /\ gone.attempt = row[d].attempt
          /\ again \in Row /\ again.attempt = row[d].attempt
        BY <1>1, RowOperations
    <2>3. \/ row' = [row EXCEPT ![d] = row[d]]
          \/ row' = [row EXCEPT ![d] = sent]
          \/ row' = [row EXCEPT ![d] = told]
          \/ row' = [row EXCEPT ![d] = gone]
          \/ row' = [row EXCEPT ![d] = again]
        BY <2>1 DEF FailInactive, RecordTicket, RecordReceipt, Settle, RetryOrFail, PushInv, TypeOK
    <2> QED
        BY <1>1, <2>2, <2>3
<1>4. \A e \in Deliveries : row'[e].attempt = row[e].attempt
    BY <1>3 DEF PushInv, TypeOK
<1> QED
    BY <1>1, <1>2, <1>4, SpendsNothing

LEMMA SendSpends ==
    ASSUME PushInv, NEW w \in Workers, Send(w), NEW d \in Deliveries
    PROVE  Spends(d)
<1>1. PICK A \in SUBSET Holding(w) :
          pushes' = [e \in Deliveries |-> IF e \in A THEN pushes[e] + 1 ELSE pushes[e]]
    BY DEF Send
<1>2. /\ answer'[w][d] # "unsent"
      /\ \A v \in Workers \ {w} : answer'[v] = answer[v]
      /\ UNCHANGED row
    BY DEF Send, queueVars, PushInv, TypeOK
<1>3. CASE d \in Holding(w)
    <2>1. answer[w][d] = "unsent" /\ pushes[d] \in Nat
        BY <1>3 DEF Send, PushInv, TypeOK
    <2>2. pushes'[d] <= pushes[d] + 1
        BY <1>1, <2>1
    <2> QED
        BY <1>2, <2>1, <2>2 DEF Spends, Unsent
<1>4. CASE d \notin Holding(w)
    <2>1. pushes'[d] = pushes[d]
        BY <1>1, <1>4
    <2> QED
        BY <1>2, <2>1 DEF Spends, Unsent
<1> QED
    BY <1>3, <1>4

LEMMA ClaimSpends ==
    ASSUME PushInv, NEW w \in Workers, ClaimReady(w), NEW d \in Deliveries
    PROVE  Spends(d)
<1>1. PICK B \in Batch({e \in Deliveries : Ready(e)}, BatchSize) :
          /\ row' = [e \in Deliveries |-> IF e \in B THEN Claimed(row[e]) ELSE row[e]]
          /\ answer' = [answer EXCEPT ![w] =
                [e \in Deliveries |-> IF e \notin B THEN "unheld"
                                      ELSE IF active[DeviceOf[e]] THEN "unsent"
                                      ELSE "inactive"]]
    BY DEF ClaimReady
<1>2. UNCHANGED pushes /\ \A v \in Workers \ {w} : answer'[v] = answer[v]
    BY <1>1 DEF ClaimReady, PushInv, TypeOK
<1>3. CASE d \in B
    <2>1. row'[d].attempt = row[d].attempt + 1
        BY <1>1, <1>3, RowOperations DEF PushInv, TypeOK
    <2> QED
        BY <1>2, <2>1 DEF Spends, Unsent
<1>4. CASE d \notin B
    <2>1. row'[d] = row[d] /\ answer'[w][d] = "unheld"
        BY <1>1, <1>4 DEF PushInv, TypeOK
    <2> QED
        BY <1>2, <2>1 DEF Spends, Unsent
<1> QED
    BY <1>3, <1>4

\* Receipts are asked for without counting anything.
LEMMA ReceiptsSpend ==
    ASSUME PushInv, NEW w \in Workers, ClaimReceipts(w) \/ FetchReceipts(w) \/ Forget(w)
    PROVE  \A d \in Deliveries : Spends(d)
<1>1. /\ \A d \in Deliveries : row[d] \in Row
      /\ answer \in [Workers -> [Deliveries -> Answers]]
    BY DEF PushInv, TypeOK
<1>2. CASE ClaimReceipts(w)
    <2>1. PICK B \in Batch({d \in Deliveries : AwaitsReceipt(d)}, BatchSize) :
              /\ row' = [d \in Deliveries |->
                     IF d \in B THEN [row[d] EXCEPT !.due = FALSE] ELSE row[d]]
              /\ answer' = [answer EXCEPT ![w] =
                     [d \in Deliveries |-> IF d \in B THEN "asked" ELSE "unheld"]]
        BY <1>2 DEF ClaimReceipts
    <2>2. \A d \in Deliveries : row'[d].attempt = row[d].attempt
        BY <1>1, <2>1 DEF Row
    <2>3. \A d \in Deliveries : answer'[w][d] # "unsent"
        BY <1>1, <2>1
    <2>4. \A v \in Workers \ {w} : answer'[v] = answer[v]
        BY <1>1, <2>1
    <2>5. UNCHANGED pushes
        BY <1>2 DEF ClaimReceipts
    <2> QED
        BY <2>2, <2>3, <2>4, <2>5, SpendsNothing
<1>3. CASE FetchReceipts(w) \/ Forget(w)
    <2>1. UNCHANGED row /\ UNCHANGED pushes
        BY <1>3 DEF FetchReceipts, Forget, queueVars
    <2>2. /\ \A v \in Workers \ {w} : answer'[v] = answer[v]
          /\ \A d \in Deliveries : answer'[w][d] # "unsent"
        <3>1. CASE FetchReceipts(w)
            BY <1>1, <3>1 DEF FetchReceipts
        <3>2. CASE Forget(w)
            BY <1>1, <3>2 DEF Forget
        <3> QED
            BY <1>3, <3>1, <3>2
    <2> QED
        BY <2>1, <2>2, SpendsNothing
<1> QED
    BY <1>2, <1>3

LEMMA StagesSpend ==
    ASSUME PushInv, NEW w \in Workers, StartPolling(w) \/ EndCycle(w)
    PROVE  \A d \in Deliveries : Spends(d)
BY SpendsNothing DEF StartPolling, EndCycle, queueVars, ghostVars

LEMMA WorldSpends ==
    ASSUME PushInv,
           \/ \E D \in SUBSET Deliveries : Enqueue(D)
           \/ \E d \in Deliveries : Elapse(d)
           \/ \E t \in Devices : Register(t) \/ Revoke(t)
           \/ UNCHANGED vars
    PROVE  \A d \in Deliveries : Spends(d)
<1>1. UNCHANGED <<answer, pushes>>
    BY DEF Enqueue, Elapse, Register, Revoke, TokenChange, workerVars, ghostVars, vars
<1>2. CASE \E D \in SUBSET Deliveries : Enqueue(D)
    <2>1. PICK D \in SUBSET Deliveries : Enqueue(D)
        BY <1>2
    <2>2. \A d \in D : pushes[d] = 0 /\ Unsent(d) = {}
        BY <2>1 DEF Enqueue, PushInv, Sound, Untouched, Unsent, Holds
    <2>3. ASSUME NEW d \in Deliveries PROVE Spends(d)
        <3>1. CASE d \in D
            BY <1>1, <2>2, <3>1 DEF Spends, Unsent
        <3>2. CASE d \notin D
            BY <1>1, <2>1, <3>2, SpendsNothing DEF Enqueue
        <3> QED
            BY <3>1, <3>2
    <2> QED
        BY <2>3
<1>3. ASSUME NEW d \in Deliveries, Elapse(d) PROVE \A e \in Deliveries : Spends(e)
    <2>1. \A e \in Deliveries : row'[e].attempt = row[e].attempt
        BY <1>3 DEF Elapse, PushInv, TypeOK, Row
    <2> QED
        BY <1>1, <2>1, SpendsNothing
<1>4. CASE \/ \E t \in Devices : Register(t) \/ Revoke(t)
           \/ UNCHANGED vars
    BY <1>1, <1>4, SpendsNothing DEF Register, Revoke, TokenChange, vars, queueVars
<1> QED
    BY <1>2, <1>3, <1>4

LEMMA NextSpends ==
    ASSUME PushInv, [Next]_vars
    PROVE  \A d \in Deliveries : Spends(d)
<1>1. ASSUME NEW w \in Workers, WorkerStep(w) \/ Forget(w)
      PROVE  \A d \in Deliveries : Spends(d)
    BY <1>1, ClaimSpends, RowWrites, SendSpends, ReceiptsSpend, StagesSpend DEF WorkerStep
<1> QED
    BY <1>1, WorldSpends DEF Next

LEMMA TallyAlways == Spec => [](\A d \in Deliveries : Tally(d))
<1>1. Init => \A d \in Deliveries : Tally(d)
    <2> SUFFICES ASSUME Init, NEW d \in Deliveries PROVE Tally(d)
        OBVIOUS
    <2>1. Unsent(d) = {} /\ pushes[d] = 0 /\ row[d].attempt = 0
        BY DEF Init, Unsent, NoRow
    <2> QED
        BY <2>1, FS_EmptySet DEF Tally
<1>2. PushInv /\ PushInv' /\ (\A d \in Deliveries : Tally(d)) /\ [Next]_vars
          => (\A d \in Deliveries : Tally(d))'
    BY NextSpends, TallyKept DEF PushInv
<1> QED
    BY <1>1, <1>2, PushAlways, PTL DEF Spec

\* The provider is never asked more often than attempts were counted, whatever
\* workers die, time out or overtake each other, and nothing is delivered that it
\* did not accept (claim_ready counts before the network is touched).
THEOREM PushesWithinAttempts == Spec => []PushesAreAttempts
<1>1. PushInv /\ (\A d \in Deliveries : Tally(d)) => PushesAreAttempts
    <2> SUFFICES ASSUME PushInv, NEW d \in Deliveries, Tally(d)
                 PROVE  /\ pushes[d] <= row[d].attempt
                        /\ row[d].status = "delivered" => pushes[d] > 0
        BY DEF PushesAreAttempts
    <2>1. IsFiniteSet(Unsent(d))
        BY PushAssumption, FS_Subset DEF Unsent
    <2>2. /\ Cardinality(Unsent(d)) \in Nat /\ pushes[d] \in Nat
          /\ row[d].attempt \in Nat
        BY <2>1, FS_CardinalityType DEF PushInv, TypeOK, Row
    <2> QED
        BY <2>2 DEF Tally, PushInv, Sound, Accepted
<1> QED
    BY <1>1, PushAlways, TallyAlways, PTL

\* No delivery is attempted beyond push_worker_max_attempts, but for one attempt
\* per claim that was lost or outlived its lease (_retry_or_fail, claim_ready).
THEOREM AttemptsStayBounded == Spec => []AttemptsBounded
<1>1. PushInv => AttemptsBounded
    BY DEF PushInv, Sound, Limited, AttemptsBounded
<1> QED
    BY <1>1, PushAlways, PTL

\* The workers, claims, leases and lost answers together implement the state
\* machine of push/state.py for every delivery not taken from a live worker.
THEOREM LifecycleImplemented == Spec => LifecycleKept
<1>1. Init => Lifecycle!LifecycleInit
    BY DEF Init, NoRow, View, Lifecycle!LifecycleInit
<1>2. PushInv /\ [Next]_vars => [Lifecycle!Advance]_View
    <2> SUFFICES ASSUME PushInv, [Next]_vars PROVE Lifecycle!Advance
        OBVIOUS
    <2>1. PushStep
        BY PushNext
    <2>2. \A d \in Deliveries : View[d] = Seen(d) /\ View'[d] = Seen(d)'
        BY DEF View, Seen
    <2>3. \A d \in Deliveries : row'[d].status \in Statuses
        BY <2>1 DEF PushStep, PushInv, TypeOK, Row
    <2>4. View' \in [Deliveries -> {"none", "queued", "overtaken"} \cup Lifecycle!Held
                                       \cup Lifecycle!Terminal]
        BY <2>3 DEF View, Statuses, Lifecycle!Held, Lifecycle!Terminal
    <2> QED
        BY <2>1, <2>2, <2>4 DEF PushStep, Legal, Lifecycle!Advance
<1> QED
    BY <1>1, <1>2, PushAlways, PTL DEF Spec, LifecycleKept, Lifecycle!LifecycleSpec

\* What is delivered or failed stays so (push/state.py:7), for every delivery that was
\* not taken from a live worker: the counterexample of TerminalIsFinal needs a lease
\* that ran out under one.
THEOREM TerminalUnlessOvertaken ==
    Spec => [][\A d \in Deliveries \ overtaken' :
                  row[d].status \in Terminal => row'[d].status = row[d].status]_vars
<1>1. PushInv /\ [Next]_vars =>
          [\A d \in Deliveries \ overtaken' :
              row[d].status \in Terminal => row'[d].status = row[d].status]_vars
    <2> SUFFICES ASSUME PushInv, [Next]_vars, NEW d \in Deliveries, d \notin overtaken',
                        row[d].status \in Terminal
                 PROVE  row'[d].status = row[d].status
        OBVIOUS
    <2>1. PushInv' /\ Legal(d)
        BY PushNext DEF PushStep
    <2>2. row[d].status # "overtaken" /\ row'[d].status # "overtaken"
        BY <2>1 DEF PushInv, TypeOK, Row, Statuses
    <2>3. d \notin overtaken
        BY <2>1, <2>2 DEF Legal, Seen, Lifecycle!Steps, Lifecycle!Held
    <2>4. Seen(d) = row[d].status /\ Seen(d)' = row'[d].status
        BY <2>3 DEF Seen
    <2> QED
        BY <2>1, <2>4 DEF Legal, Terminal, Lifecycle!Steps, Lifecycle!Held
<1> QED
    BY <1>1, PushAlways, PTL DEF Spec

\* Rows, claims, devices and counts keep their types, whatever workers die.
THEOREM TypeCorrect == Spec => []TypeOK
BY PushAlways, PTL DEF PushInv

=============================================================================
