-------------------------- MODULE AttendanceSystem --------------------------
(***************************************************************************)
(* The attendance lifecycle of one session: the components together, what  *)
(* they must keep true, and what must eventually happen.                   *)
(***************************************************************************)
EXTENDS SessionLifecycle, VerificationSteps, LecturerDecisions, QrBatches

CONSTANTS
    Rosters,        \* the enrolments a session may be created with
    ManualStatuses  \* bound: the statuses lecturers choose by hand

ASSUME ChoiceAssumption ==
    /\ Rosters \subseteq SUBSET Students
    /\ ManualStatuses \subseteq FinalStatuses

\* Time passes between any two statements.
Tick ==
    /\ now < MaxTime
    /\ now' = now + 1
    /\ UNCHANGED <<sessionVars, evidenceVars, decisionVars, qrVars, callVars>>

LifecycleStep ==
    \/ \E want \in Requests, enrolled \in Rosters : Create(want, enrolled)
    \/ Activate
    \/ CloseBegin
    \/ \E c \in lecturerCalls : CloseCommit(c)
    \/ AutoClose
    \/ Cancel
    \/ \E c \in lecturerCalls : LecturerGivesUp(c)

StudentStep ==
    \/ \E s \in Students : GeofenceBegin(s)
    \/ \E c \in calls, reading \in Readings : GeofenceCommit(c, reading)
    \/ \E s \in Students : StartBegin(s)
    \/ \E c \in calls : StartCommit(c)
    \/ \E s \in Students : FaceBegin(s)
    \/ \E c \in calls : FaceLockStatement(c)
    \/ \E c \in calls, matched \in BOOLEAN : FaceRecord(c, matched)
    \/ \E c \in calls : CoreCheckIn(c)
    \/ \E s \in Students : CheckIn(s)
    \/ \E c \in calls : Abandon(c)

DecisionStep ==
    \/ Waive
    \/ \E s \in Students, status \in ManualStatuses : ManualSet(s, status)
    \/ \E s \in Students, status \in ManualStatuses \ {"left_early"} : Review(s, status)

QrStep ==
    \/ \E kind \in {"static", "dynamic"} : LaunchBegin(kind)
    \/ \E c \in lecturerCalls, b \in Batches : LaunchCommit(c, b)
    \/ \E b \in Batches : VoidBatch(b)
    \/ \E b \in Batches : DeactivateBatch(b)
    \/ \E s \in Students, b \in Batches : ScanBegin(s, b)
    \/ \E scan \in scans : ScanCommit(scan)
    \/ \E scan \in scans : ScanLost(scan)

Next == Tick \/ LifecycleStep \/ StudentStep \/ DecisionStep \/ QrStep

Spec == Init /\ [][Next]_vars

\* The clock moves, and the auto-close loop comes round again.  Nothing is
\* assumed of lecturers, of students, or of a request once begun.
FairSpec == Spec /\ WF_vars(Tick) /\ WF_vars(AutoClose)

-----------------------------------------------------------------------------
(* Records.                                                                *)

Ended == session.status = "closed"

\* What the rules of final attendance say of a student, in their own words.
\* The documented rule: without a check-in, absent; with one, and no QR batch
\* asked after it, the check-in's own verdict; otherwise all, some or none of
\* those batches scanned.
Asked(s) == { b \in Batches :
                /\ batch[b].activatedAt # NoTime
                /\ attempt[s].checkedInAt < batch[b].activatedAt
                /\ batch[b].voided = FALSE }

Deserves(s, status) ==
    IF attempt[s].status # "checked_in" THEN status = "absent"
    ELSE CASE Asked(s) \subseteq accepted[s] ->
                 status = IF attempt[s].checkedInAt <= session.late THEN "present" ELSE "late"
           [] \E b \in Asked(s) : b \in accepted[s] /\ ~(Asked(s) \subseteq accepted[s]) ->
                 status = "left_early"
           [] OTHER -> status = "absent"

\* A check-in stamped into the past of a close that had already decided.  It
\* takes a face pass recorded from a snapshot older than the close.
OvertakenByFace(s) ==
    /\ session.face
    /\ record[s].status = "absent"
    /\ passed[s]["face"] # NoTime
    /\ passed[s]["face"] <= session.closedAt

\* Once the session is closed its automatic records agree with the evidence
\* in the database, whatever requests commit afterwards: late scans, batches
\* withdrawn, check-ins retried.  The one exception is a face pass recorded
\* by a request that read the session before the close.
RecordsMatchEvidence ==
    Ended => \A s \in roster :
        record[s].source = "automatic" =>
            Deserves(s, record[s].status) \/ OvertakenByFace(s)

\* The same without the exception, as the reconciliation's comment has it:
\* the decision does not depend on which transaction committed first.
OrderIndependence ==
    Ended => \A s \in roster :
        record[s].source = "automatic" => Deserves(s, record[s].status)

\* In the step that closes the session, an attempt whose evidence was complete
\* by the recorded closing time becomes a check-in: nobody who did everything
\* in time is decided as if the last step were missing.
NobodyLeftBehind ==
    [][~Ended /\ Ended' =>
          \A s \in Students : attempt'[s].status = "in_progress" =>
              \E step \in {"geofence", "face"} :
                  /\ step = "geofence" => ~waived
                  /\ step = "face" => session.face
                  /\ passed[s][step] = NoTime \/ passed[s][step] > session'.closedAt]_vars

\* The records of the session behave as the ledger promises.
Ledger == INSTANCE AttendanceLedger WITH phase <- session.status, ledger <- record
LedgerKept == Ledger!LedgerSpec

-----------------------------------------------------------------------------
(* Check-in.                                                               *)

\* A check-in rests on evidence of every step the session asks for, given by
\* the check-in's own time, and that time falls inside the check-in window
\* although the check-in may be written much later: on close, or on retry.
CheckInsEarned ==
    \A s \in Students : attempt[s].status = "checked_in" =>
        /\ \A step \in RequiredSteps(session.face, waived) :
              passed[s][step] # NoTime /\ passed[s][step] <= attempt[s].checkedInAt
        /\ attempt[s].checkedInAt \in {attempt[s].startedAt, passed[s]["geofence"],
                                       passed[s]["face"]}
        /\ session.opens <= attempt[s].checkedInAt
        /\ attempt[s].checkedInAt < session.closes
        /\ (attempt[s].initial = "late_checked_in") <=> (attempt[s].checkedInAt > session.late)

\* A check-in is final: no retry, later pass, waiver, close or cancellation
\* changes its time or its verdict.
CheckInStands ==
    [][\A s \in Students : attempt[s].status = "checked_in" => attempt'[s] = attempt[s]]_vars

\* Limits hold with requests in flight at once, and reaching the limit of the
\* face step without a match always ends the attempt, for good.
AttemptLimits ==
    \A s \in Students :
        /\ tries[s]["geofence"] <= MaxGeofenceAttempts
        /\ tries[s]["face"] <= MaxFaceAttempts
        /\ (tries[s]["face"] = MaxFaceAttempts /\ passed[s]["face"] = NoTime) =>
              attempt[s].status = "failed"

\* A failed attempt stays failed, with its reason.  Only the waiver takes a
\* failure back, in the step that grants it, only if location alone caused
\* it, and never after a lecturer decided the student's attendance.
FailureStands ==
    [][\A s \in Students : attempt[s].status = "failed" =>
          \/ attempt'[s] = attempt[s]
          \/ /\ waived' # waived
             /\ record[s] = NoRecord
             /\ attempt[s].reason \notin {"MOCK_LOCATION_DETECTED", "FACE_ATTEMPT_LIMIT_REACHED"}
      ]_vars

\* Failed for location alone, and not by the lecturer's own decision.
LockedOut(s) ==
    /\ attempt[s].status = "failed"
    /\ attempt[s].reason \in ReopenableReasons
    /\ record[s].source # "manual"

\* After the waiver nobody is locked out by location.
NoLocationLockout ==
    (waived /\ session.status = "active") => \A s \in Students : ~LockedOut(s)

\* Who is locked out nevertheless was so by a reading that met the waiver: the
\* waiver itself leaves nobody behind, and no request that comes after it, no
\* activation and no decision by hand locks anyone out.
LockoutsMeetTheWaiver ==
    [][waived' /\ session'.status = "active" =>
          \A s \in Students : LockedOut(s)' =>
              \/ waived /\ session.status = "active" /\ LockedOut(s)
              \/ \E c \in calls \ calls' : c.kind = "geofence" /\ c.student = s /\ ~c.seen]_vars

-----------------------------------------------------------------------------
(* QR.                                                                     *)

\* At any instant at most one batch can be scanned: the lifetimes of batches
\* that are not withdrawn do not overlap, whichever request committed first.
OneLiveBatch ==
    \A b1, b2 \in Batches :
        (b1 # b2 /\ batch[b1].status = "active" /\ batch[b2].status = "active") =>
            \/ batch[b1].expiresAt <= batch[b2].activatedAt
            \/ batch[b2].expiresAt <= batch[b1].activatedAt

\* A scan never lands on a batch that was withdrawn, or in a session that
\* ended, between the scan's classification and its transaction; nor for a
\* static code after the batch expired.
ScansLandOpen ==
    [][\A s \in Students, b \in Batches : b \in accepted'[s] \ accepted[s] =>
          /\ attempt[s].status = "checked_in"
          /\ session.status = "active" /\ now < SchedEnd
          /\ batch[b].status = "active" /\ ~batch[b].voided
          /\ batch[b].dynamic \/ now < batch[b].expiresAt]_vars

-----------------------------------------------------------------------------
(* Liveness.                                                               *)

\* An activated session never stays open: everyone on its roster gets a
\* record, or the session is cancelled, even if the lecturer never closes it.
RosterDecided ==
    \A s \in Students :
        (session.status = "active" /\ s \in roster) ~>
            \/ Ended /\ record[s].source # "none"
            \/ session.status = "cancelled"

=============================================================================
