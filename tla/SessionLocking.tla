--------------------------- MODULE SessionLocking ---------------------------
(***************************************************************************)
(* The row locks under the attendance lifecycle, statement by statement,   *)
(* and the loop that closes overdue sessions.  AttendanceState takes a     *)
(* transaction as one step; here each lock is a step of its own, kept to   *)
(* the end of the transaction, and waits can close a circle, which the     *)
(* database breaks by aborting one of the transactions in it.              *)
(*                                                                         *)
(* Of a session the module keeps the row, one student's attempt and that   *)
(* student's record.  Rows nobody locks exclusively while holding one of   *)
(* these (profiles, roster, geofence, batches) are left out.               *)
(***************************************************************************)
EXTENDS Naturals, Sequences, FiniteSets, Functions

CONSTANTS
    StudentRequests, LecturerRequests,
    Schedulers,    \* one auto-close loop per worker of Core Backend
    SessionCount,  \* bound: overdue sessions, numbered by scheduled end
    MaxSessionsPerScan

ASSUME LockingAssumption ==
    /\ SessionCount \in Nat \ {0} /\ MaxSessionsPerScan \in Nat \ {0}
    /\ (StudentRequests \cup LecturerRequests) \cap Schedulers = {}

Sessions == 1..SessionCount
Actors   == StudentRequests \cup LecturerRequests \cup Schedulers

VARIABLES
    tx,        \* the transaction of each actor: its kind, session, next lock, roster read
    open,      \* the sessions not closed yet
    attempt,   \* the status of each session's attempt
    record,    \* the source of each session's record
    poisoned,  \* sessions whose finalization raises, every time
    scan       \* what is left of each scheduler's scan

vars == <<tx, open, attempt, record, poisoned, scan>>

StudentKinds  == {"geofence", "check_in", "face", "scan"}
LecturerKinds == {"manual", "review", "waiver", "launch", "close"}
Closing       == {"close", "auto_close"}
Kinds         == StudentKinds \cup LecturerKinds \cup {"auto_close"}

Rows    == {"session", "attempt", "record"}
NotRead == [attempt |-> "unread", record |-> "unread"]
NoTx    == [kind |-> "none", session |-> 0, at |-> 1, read |-> NotRead]
Ended   == [NoTx EXCEPT !.kind = "ended"]

AttemptStatuses == {"in_progress", "checked_in", "failed"}
RecordSources   == {"none", "automatic", "manual"}

LockingTypeOK ==
    /\ tx \in [Actors -> [kind : Kinds \cup {"none", "ended"}, session : Sessions \cup {0}, at : 1..4,
                          read : [attempt : AttemptStatuses, record : RecordSources] \cup {NotRead}]]
    /\ open \subseteq Sessions
    /\ attempt \in [Sessions -> AttemptStatuses]
    /\ record \in [Sessions -> RecordSources]
    /\ poisoned \subseteq Sessions
    /\ scan \in [Schedulers -> SUBSET Sessions]

\* Fewer sessions than a scan takes fail every time.
Init ==
    /\ tx = [t \in Actors |-> NoTx]
    /\ open = Sessions
    /\ attempt \in [Sessions -> {"in_progress", "failed"}]
    /\ record = [i \in Sessions |-> "none"]
    /\ poisoned \in {bad \in SUBSET Sessions : Cardinality(bad) < MaxSessionsPerScan}
    /\ scan = [w \in Schedulers |-> {}]

-----------------------------------------------------------------------------
(* The locks of each transaction, in the order its statements take them.   *)

Share(row)     == [row |-> row, exclusive |-> FALSE]
Exclusive(row) == [row |-> row, exclusive |-> TRUE]

\* The reading's attempt is inserted or touched; the check-in locks both again.
GeofenceLocks == <<Share("session"), Exclusive("attempt")>>
CheckInLocks  == <<Share("session"), Exclusive("attempt")>>

ScanLocks == <<Share("session"), Exclusive("attempt")>>
FaceLocks == <<Exclusive("attempt")>>

\* Faulty variant: the session is read and not locked.
RecordOnlyLocks == <<Exclusive("record")>>

ManualLocks == <<Share("session"), Exclusive("record")>>
ReviewLocks == <<Exclusive("attempt"), Share("session"), Exclusive("record")>>
\* Faulty variant: the waiver locks the attempt it may reopen before the session.
ReopenFirstLocks == <<Exclusive("attempt"), Exclusive("session")>>

WaiverLocks == <<Exclusive("session"), Exclusive("attempt")>>
LaunchLocks == <<Exclusive("session")>>
CloseLocks  == <<Exclusive("session"), Exclusive("attempt"), Exclusive("record")>>

Locks(kind) ==
    CASE kind = "geofence" -> GeofenceLocks
      [] kind = "check_in" -> CheckInLocks
      [] kind = "scan"     -> ScanLocks
      [] kind = "face"     -> FaceLocks
      [] kind = "manual"   -> ManualLocks
      [] kind = "review"   -> ReviewLocks
      [] kind = "waiver"   -> WaiverLocks
      [] kind = "launch"   -> LaunchLocks
      [] kind \in Closing  -> CloseLocks
      [] OTHER             -> <<>>

Running(t) == tx[t].kind \in Kinds

Held(t) == {Locks(tx[t].kind)[i] : i \in 1..(tx[t].at - 1)}

Wanted(t) == IF tx[t].at <= Len(Locks(tx[t].kind)) THEN {Locks(tx[t].kind)[tx[t].at]} ELSE {}

Blocks(u, t) ==
    /\ u # t /\ tx[u].session = tx[t].session
    /\ \E held \in Held(u), wanted \in Wanted(t) :
          held.row = wanted.row /\ (held.exclusive \/ wanted.exclusive)

Free(t) == \A u \in Actors : ~Blocks(u, t)

\* The scheduler passes over a locked session instead of waiting for it.
Skips(t) == tx[t].kind = "auto_close" /\ tx[t].at = 1

Waits(t) == Running(t) /\ ~Skips(t) /\ ~Free(t)

\* In a circle everybody waits for the next.
Deadlocked(t) ==
    /\ Waits(t)
    /\ \E circle \in SUBSET Actors : \E next \in Bijection(circle, circle) :
          t \in circle /\ \A u \in circle : Waits(u) /\ Blocks(next[u], u)

-----------------------------------------------------------------------------
(* Steps of a transaction.                                                 *)

\* What a guard finds once the lock before it is held.
Refused(t) ==
    LET i == tx[t].session IN
    /\ tx[t].at = 2
    /\ \/ tx[t].kind \in {"geofence", "scan", "launch"} \cup Closing /\ i \notin open
       \/ tx[t].kind = "review" /\ attempt[i] # "failed"
       \/ tx[t].kind = "waiver" /\ (i \notin open \/ attempt[i] # "failed")

OnlyTx == UNCHANGED <<open, attempt, record, poisoned, scan>>

Request(t, kind, i) ==
    /\ tx[t] = NoTx
    /\ tx' = [tx EXCEPT ![t] = [NoTx EXCEPT !.kind = kind, !.session = i]]
    /\ OnlyTx

\* A lock is granted.  A close reads the roster once every attempt is locked.
TakeLock(t) ==
    LET i == tx[t].session IN
    /\ Running(t) /\ ~Refused(t)
    /\ Wanted(t) # {} /\ Free(t)
    /\ tx' = [tx EXCEPT ![t].at = @ + 1,
                        ![t].read = IF tx[t].kind \in Closing /\ tx[t].at = 2
                                    THEN [attempt |-> attempt[i], record |-> record[i]]
                                    ELSE @]
    /\ OnlyTx

After(t) == IF t \in Schedulers THEN NoTx ELSE Ended

\* A refusal, a victim of the deadlock detector, a locked session passed over: the
\* transaction ends without effect.
GiveUp(t) ==
    /\ Running(t)
    /\ \/ Refused(t)
       \/ Deadlocked(t)
       \/ Skips(t) /\ ~Free(t)
    /\ tx' = [tx EXCEPT ![t] = After(t)]
    /\ OnlyTx

Done(t) == Running(t) /\ ~Refused(t) /\ Wanted(t) = {}

\* A step of a student; evidence later than the close no longer counts.
StudentEffect(t) ==
    LET i == tx[t].session
        outcomes == CASE tx[t].kind = "geofence" -> AttemptStatuses
                      [] tx[t].kind = "check_in" /\ i \in open -> {"in_progress", "checked_in"}
                      [] tx[t].kind = "face" -> {"in_progress", "failed"}
                      [] OTHER -> {attempt[i]}
    IN  /\ \E outcome \in IF attempt[i] = "in_progress" THEN outcomes ELSE {attempt[i]} :
              attempt' = [attempt EXCEPT ![i] = outcome]
        /\ UNCHANGED <<open, record>>

LecturerEffect(t) ==
    LET i == tx[t].session IN
    \/ /\ tx[t].kind \in {"manual", "review"}
       /\ record' = [record EXCEPT ![i] = "manual"]
       /\ UNCHANGED <<open, attempt>>
    \/ /\ tx[t].kind = "waiver"
       /\ attempt' = IF record[i] = "none" THEN [attempt EXCEPT ![i] = "in_progress"] ELSE attempt
       /\ UNCHANGED <<open, record>>
    \/ /\ tx[t].kind = "launch"
       /\ UNCHANGED <<open, attempt, record>>

\* Reconciliation and finalization; a poisoned session rolls back.
CloseEffect(t) ==
    LET i == tx[t].session IN
    IF i \in poisoned THEN UNCHANGED <<open, attempt, record>>
    ELSE /\ open' = open \ {i}
         /\ \E outcome \in IF attempt[i] = "in_progress" THEN {"in_progress", "checked_in"}
                           ELSE {attempt[i]} :
               attempt' = [attempt EXCEPT ![i] = outcome]
         /\ record' = [record EXCEPT ![i] = IF @ = "manual" THEN @ ELSE "automatic"]

Commit(t) ==
    /\ Done(t)
    /\ \/ tx[t].kind \in StudentKinds /\ StudentEffect(t)
       \/ tx[t].kind \in LecturerKinds \ Closing /\ LecturerEffect(t)
       \/ tx[t].kind \in Closing /\ CloseEffect(t)
    /\ tx' = [tx EXCEPT ![t] = After(t)]
    /\ UNCHANGED <<poisoned, scan>>

-----------------------------------------------------------------------------
(* The scheduler: auto_close.py.                                           *)

\* The overdue sessions one statement finds, by scheduled end, up to the limit.
Overdue == {found \in SUBSET open :
              /\ Cardinality(found) = IF Cardinality(open) < MaxSessionsPerScan
                                      THEN Cardinality(open) ELSE MaxSessionsPerScan
              /\ \A i \in found, j \in open \ found : i < j}

StartScan(w) ==
    /\ tx[w] = NoTx
    /\ scan[w] = {}
    /\ \E found \in Overdue : scan' = [scan EXCEPT ![w] = found]
    /\ UNCHANGED <<tx, open, attempt, record, poisoned>>

\* Faulty variant: a close that raises ends the cycle.
RestUnlessRaised(w, i) == IF i \in poisoned THEN {} ELSE scan[w] \ {i}

\* A close that raises is logged and the cycle goes on.
Rest(w, i) == scan[w] \ {i}

\* The next one by scheduled end.
CloseNext(w) ==
    /\ tx[w] = NoTx
    /\ \E i \in scan[w] :
          /\ \A j \in scan[w] : i <= j
          /\ tx' = [tx EXCEPT ![w] = [NoTx EXCEPT !.kind = "auto_close", !.session = i]]
          /\ scan' = [scan EXCEPT ![w] = Rest(w, i)]
    /\ UNCHANGED <<open, attempt, record, poisoned>>

-----------------------------------------------------------------------------
Proceed(t) == TakeLock(t) \/ GiveUp(t) \/ Commit(t)
Scan(w)    == StartScan(w) \/ CloseNext(w)

Next ==
    \/ \E r \in StudentRequests, kind \in StudentKinds, i \in Sessions : Request(r, kind, i)
    \/ \E r \in LecturerRequests, kind \in LecturerKinds, i \in Sessions : Request(r, kind, i)
    \/ \E t \in Actors : TakeLock(t) \/ GiveUp(t) \/ Commit(t)
    \/ \E w \in Schedulers : StartScan(w) \/ CloseNext(w)

\* Transactions under way go on, the database finds its deadlocks, the loops
\* turn.  Nobody is bound to send a request.
Fairness ==
    /\ \A t \in Actors : WF_vars(Proceed(t))
    /\ \A w \in Schedulers : WF_vars(Scan(w))

FairSpec == Init /\ [][Next]_vars /\ Fairness

-----------------------------------------------------------------------------
(* Properties.                                                             *)

\* The only circles there are: a review holds an attempt and waits for its session,
\* held by a waiver or a close that waits for the attempt.  Lecturers and schedulers
\* meet in no other, whatever they lock, and no circle is longer than two.
DeadlocksArePairs ==
    \A t \in Actors : Deadlocked(t) =>
        \E u \in Actors :
            /\ Blocks(t, u) /\ Blocks(u, t)
            /\ \E closer \in {"waiver"} \cup Closing :
                  {tx[t].kind, tx[u].kind} = {"review", closer}

\* A student's request waits, but never in a circle: whatever lecturers and
\* schedulers do at the same time, no geofence reading, check-in, face result or
\* scan is lost to the deadlock detector.
StudentsNeverVictims ==
    \A t \in Actors : tx[t].kind \in StudentKinds => ~Deadlocked(t)

\* What a close decides by is still so when it commits ("a snapshot nothing else
\* can change underneath it"), records included, which it does not lock.
RosterStable ==
    [][\A t \in Actors :
          tx[t].kind \in Closing /\ open' # open /\ tx'[t].kind # tx[t].kind =>
              tx[t].read = [attempt |-> attempt[tx[t].session], record |-> record[tx[t].session]]]_vars

\* Every session that can be closed gets closed: locks held by others, deadlocks
\* and sessions that fail in every scan do not keep the loop from it, as long as
\* fewer than a scan's limit fail.
OverdueClosed == \A i \in Sessions : i \in poisoned \/ <>(i \notin open)

=============================================================================
