--------------------------- MODULE AttendanceState ---------------------------
(***************************************************************************)
(* The database state of one attendance session that every component of    *)
(* the attendance lifecycle reads and writes, and the requests in flight.  *)
(*                                                                         *)
(* Core Backend and Face Verification share one PostgreSQL database at     *)
(* READ COMMITTED.  A transaction that holds the row locks it needs before *)
(* it reads is one action of the model.  A request that reads something    *)
(* before its locks (its clock, a statement's snapshot, the answer of      *)
(* another service) is split there: what it read travels in the record of  *)
(* the call, and any other transaction may commit in between.              *)
(***************************************************************************)
EXTENDS AttendanceRules, FiniteSets

CONSTANTS
    Students,             \* students who may be on the roster
    Batches,              \* identities of QR batches
    SchedStart, SchedEnd, \* the session's schedule
    Grace,                \* how long after SchedEnd the server waits
    Policy, DefaultLate,  \* the active attendance policy, the built-in default
    Validity,             \* how long a QR batch is asked to live
    MaxGeofenceAttempts, MaxFaceAttempts,
    Requests,             \* bodies of the session creation requests
    MaxTime, MaxCalls     \* bounds: the clock, the requests in flight

Time == 0..MaxTime
Stamp == Time \cup {NoTime}

ASSUME ScheduleAssumption ==
    /\ {SchedStart, SchedEnd, Grace, DefaultLate, Validity, MaxTime, MaxCalls} \subseteq Nat
    /\ SchedStart < SchedEnd
    /\ SchedEnd <= MaxTime
    /\ SchedStart + DefaultLate <= MaxTime
    /\ Validity > 0

ASSUME BatchAssumption == IsFiniteSet(Batches)

ASSUME StudentAssumption == IsFiniteSet(Students)

ASSUME LimitAssumption ==
    /\ MaxGeofenceAttempts \in Nat \ {0}
    /\ MaxFaceAttempts \in Nat \ {0}

ASSUME PolicyAssumption ==
    Policy \in [window : Nat \cup {NoTime}, late : Nat]

ASSUME RequestAssumption ==
    Requests \subseteq [face : BOOLEAN, qr : BOOLEAN,
                        opens : Stamp, closes : Stamp, late : Stamp]

VARIABLES
    now,           \* the clock both services read
    session,       \* attendance_session.sessions, the session's row
    roster,        \* attendance_session.session_students
    waived,        \* attendance_session.session_verification_overrides has a geofence row
    attempt,       \* attendance_verification.verification_attempts
    passed,        \* earliest pass of each step, over both validation tables
    tries,         \* how many readings or captures each step has recorded
    located,       \* the latest geofence reading is a pass
    record,        \* attendance_verification.attendance_records
    reviewed,      \* attendance_verification.manual_reviews with a decision
    batch,         \* attendance_session.qr_token_batches
    accepted,      \* accepted rows of qr_validation_attempts
    calls,         \* student requests in flight
    lecturerCalls, \* lecturer requests in flight
    scans          \* QR scans in flight

sessionVars  == <<session, roster>>
evidenceVars == <<attempt, passed, tries, located>>
decisionVars == <<waived, record, reviewed>>
qrVars       == <<batch, accepted>>
callVars     == <<calls, lecturerCalls, scans>>
vars == <<now, sessionVars, evidenceVars, decisionVars, qrVars, callVars>>

-----------------------------------------------------------------------------
(* The rows.                                                               *)

SessionStatuses == {"none", "scheduled", "active", "closed", "cancelled"}
AttemptStatuses == {"none", "in_progress", "checked_in", "failed"}
Reasons == {"none", "OUTSIDE_GEOFENCE", "MOCK_LOCATION_DETECTED",
            "ATTEMPT_LIMIT_REACHED", "FACE_ATTEMPT_LIMIT_REACHED"}
Sources == {"none", "automatic", "manual"}

SessionRow ==
    [status : SessionStatuses, face : BOOLEAN, qr : BOOLEAN,
     opens : Stamp, closes : Stamp, late : Stamp,
     explicit : SUBSET {"opens", "closes", "late"}, closedAt : Stamp]
AttemptRow ==
    [status : AttemptStatuses, reason : Reasons, startedAt : Stamp,
     checkedInAt : Stamp, initial : InitialStatuses \cup {"none"}]
RecordRow == [status : FinalStatuses \cup {"none"}, source : Sources]
BatchRow ==
    [status : {"unused", "active", "inactive"}, dynamic : BOOLEAN,
     activatedAt : Stamp, expiresAt : Stamp, voided : BOOLEAN]

\* What a request in flight carries.  seen is what its earlier statement
\* showed: the waiver (geofence, start), or that face verification was open
\* (locking).
StudentCall ==
    [kind : {"geofence", "start", "inference", "locking", "face_passed"},
     student : Students, at : Time, seen : BOOLEAN]
LecturerCall == [kind : {"close", "static", "dynamic"}, at : Time]
\* verdict is the classification made before the scan's transaction.
Scan == [student : Students, batch : Batches, verdict : BOOLEAN]

NoSession == [status |-> "none", face |-> FALSE, qr |-> FALSE,
              opens |-> NoTime, closes |-> NoTime, late |-> NoTime,
              explicit |-> {}, closedAt |-> NoTime]
NoAttempt == [status |-> "none", reason |-> "none", startedAt |-> NoTime,
              checkedInAt |-> NoTime, initial |-> "none"]
NoRecord  == [status |-> "none", source |-> "none"]
NoBatch   == [status |-> "unused", dynamic |-> FALSE, activatedAt |-> NoTime,
              expiresAt |-> NoTime, voided |-> FALSE]

\* The rows and the requests in flight are of their types.
TypeOK ==
    /\ now \in Time
    /\ session \in SessionRow
    /\ roster \subseteq Students
    /\ waived \in BOOLEAN
    /\ attempt \in [Students -> AttemptRow]
    /\ passed \in [Students -> [Steps -> Stamp]]
    /\ tries \in [Students -> [Steps -> Nat]]
    /\ located \in [Students -> BOOLEAN]
    /\ record \in [Students -> RecordRow]
    /\ reviewed \subseteq Students
    /\ batch \in [Batches -> BatchRow]
    /\ accepted \in [Students -> SUBSET Batches]
    /\ calls \subseteq StudentCall
    /\ lecturerCalls \subseteq LecturerCall
    /\ scans \subseteq Scan

Init ==
    /\ now = 0
    /\ session = NoSession
    /\ roster = {}
    /\ waived = FALSE
    /\ attempt = [s \in Students |-> NoAttempt]
    /\ passed = [s \in Students |-> [step \in Steps |-> NoTime]]
    /\ tries = [s \in Students |-> [step \in Steps |-> 0]]
    /\ located = [s \in Students |-> FALSE]
    /\ record = [s \in Students |-> NoRecord]
    /\ reviewed = {}
    /\ batch = [b \in Batches |-> NoBatch]
    /\ accepted = [s \in Students |-> {}]
    /\ calls = {}
    /\ lecturerCalls = {}
    /\ scans = {}

-----------------------------------------------------------------------------
(* Readings shared by the components.                                      *)

InFlight == Cardinality(calls) + Cardinality(lecturerCalls) + Cardinality(scans)
MayBegin == InFlight < MaxCalls

\* A request may still come to something.  One that arrives before the
\* session exists or after it ended is refused, and is not modelled.
NotEnded == session.status \in {"scheduled", "active"}

\* The guard of every verification step: open session, inside the window.
\* The window is checked at the instant the request arrived.
WindowOpen(at) ==
    /\ session.status = "active"
    /\ session.opens <= at
    /\ at < session.closes

\* Faulty variant: a batch launched at the instant of the check-in is asked for.
RequiredFromCheckIn(s) ==
    { b \in Batches : /\ batch[b].status # "unused" /\ ~batch[b].voided
                      /\ attempt[s].status = "checked_in"
                      /\ batch[b].activatedAt >= attempt[s].checkedInAt }

\* The batches finalization asks a student for: activated after the check-in
\* and not voided.  Whether they expired or were deactivated does not matter.
RequiredBatches(s) ==
    { b \in Batches : /\ batch[b].status # "unused"
                      /\ ~batch[b].voided
                      /\ attempt[s].status = "checked_in"
                      /\ batch[b].activatedAt > attempt[s].checkedInAt }

\* The attempt row once its required steps are complete.
CheckedIn(row, required, pass, late) ==
    LET at == CheckInTime(required, pass, row.startedAt)
    IN  [row EXCEPT !.status = "checked_in",
                    !.checkedInAt = at,
                    !.initial = InitialCheckInStatus(at, late)]

\* Faulty variant: an existing check-in is computed again.
RestampCheckIn(row, pass) ==
    LET required == RequiredSteps(session.face, waived)
    IN  IF row.status \in {"in_progress", "checked_in"}
           /\ Earned(required, pass, session.closedAt)
        THEN CheckedIn(row, required, pass, session.late)
        ELSE row

\* try_check_in on an attempt row whose passes are pass: only an attempt in
\* progress moves, and only when every required step passed, no later than
\* the close if the session is closed.  Neither the close nor a cancellation
\* stops it.
TryCheckIn(row, pass) ==
    LET required == RequiredSteps(session.face, waived)
    IN  IF row.status = "in_progress" /\ Earned(required, pass, session.closedAt)
        THEN CheckedIn(row, required, pass, session.late)
        ELSE row

=============================================================================
