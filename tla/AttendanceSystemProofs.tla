----------------------- MODULE AttendanceSystemProofs -----------------------
(***************************************************************************)
(* Theorems about the attendance lifecycle, for every roster, schedule,    *)
(* policy, limit and set of requests that the assumptions of               *)
(* AttendanceState and AttendanceSystem allow.                             *)
(***************************************************************************)
EXTENDS StudentViews, FiniteSetTheorems, TLAPS

-----------------------------------------------------------------------------
(* The rules.                                                              *)

LEMMA EarlierTyped ==
    ASSUME NEW a \in Nat, NEW b \in Time
    PROVE  Earlier(a, b) \in Time
BY ScheduleAssumption DEF Earlier, Time

LEMMA LaterTyped ==
    ASSUME NEW a \in Time, NEW b \in Time
    PROVE  Later(a, b) \in Time
BY DEF Later

\* A window resolved for a new session names an instant for every field.
LEMMA ResolvedWindow ==
    ASSUME NEW want \in Requests
    PROVE  LET w == ResolveCheckInTimes(want, SchedStart, SchedEnd, Policy, DefaultLate)
           IN  w \in [opens : Time, closes : Time, late : Time]
<1> DEFINE opens  == IF want.opens # NoTime THEN want.opens ELSE SchedStart
           closes == IF want.closes # NoTime THEN want.closes
                     ELSE IF Policy.window # NoTime
                          THEN Earlier(opens + Policy.window, SchedEnd)
                          ELSE SchedEnd
           late   == IF want.late # NoTime THEN want.late
                     ELSE IF Policy.window # NoTime
                          THEN Earlier(SchedStart + Policy.late, closes)
                          ELSE SchedStart + DefaultLate
<1>1. /\ want.opens \in Stamp /\ want.closes \in Stamp /\ want.late \in Stamp
      /\ Policy.window \in Nat \cup {NoTime} /\ Policy.late \in Nat
    BY RequestAssumption, PolicyAssumption
<1>2. /\ SchedStart \in Time /\ SchedEnd \in Time /\ SchedStart + DefaultLate \in Time
      /\ \A t \in Time : t \in Nat
    BY ScheduleAssumption DEF Time
<1>3. opens \in Time
    BY <1>1, <1>2 DEF Stamp
<1>4. closes \in Time
    <2>1. CASE want.closes # NoTime
        BY <1>1, <2>1 DEF Stamp
    <2>2. CASE want.closes = NoTime /\ Policy.window # NoTime
        <3>1. opens + Policy.window \in Nat
            BY <1>1, <1>2, <1>3, <2>2
        <3> QED
            BY <3>1, <1>2, <2>2, EarlierTyped
    <2>3. CASE want.closes = NoTime /\ Policy.window = NoTime
        BY <1>2, <2>3
    <2> QED
        BY <2>1, <2>2, <2>3
<1>5. late \in Time
    <2>1. SchedStart + Policy.late \in Nat
        BY <1>1, <1>2
    <2>2. Earlier(SchedStart + Policy.late, closes) \in Time
        BY <2>1, <1>4, EarlierTyped
    <2> QED
        BY <1>1, <1>2, <2>2 DEF Stamp
<1> QED
    BY <1>3, <1>4, <1>5 DEF ResolveCheckInTimes

\* An activation moves the window and leaves no field of it empty.
LEMMA ActivatedWindow ==
    ASSUME NEW w, w.opens \in Time, w.closes \in Time, w.late \in Time,
           NEW explicit, NEW at \in Time
    PROVE  ActivationWindow(w, explicit, SchedStart, SchedEnd, at, Policy, DefaultLate)
               \in [opens : Time, closes : Time, late : Time]
<1> DEFINE eff    == EffectiveStart(SchedStart, at)
           opens  == IF "opens" \in explicit THEN w.opens ELSE Earlier(eff, SchedEnd)
           closes == IF "closes" \in explicit THEN w.closes
                     ELSE IF Policy.window # NoTime
                          THEN Earlier(eff + Policy.window, SchedEnd)
                          ELSE SchedEnd
           late   == IF "late" \in explicit THEN w.late
                     ELSE IF Policy.window # NoTime
                          THEN Earlier(eff + Policy.late, closes)
                          ELSE Earlier(eff + DefaultLate, closes)
<1>1. /\ SchedStart \in Time /\ SchedEnd \in Time /\ DefaultLate \in Nat
      /\ \A t \in Time : t \in Nat
      /\ Policy.window \in Nat \cup {NoTime} /\ Policy.late \in Nat
    BY ScheduleAssumption, PolicyAssumption DEF Time
<1>2. eff \in Time /\ eff \in Nat
    BY <1>1, LaterTyped DEF EffectiveStart
<1>3. opens \in Time
    BY <1>1, <1>2, EarlierTyped
<1>4. closes \in Time
    <2>1. CASE Policy.window # NoTime
        <3>1. eff + Policy.window \in Nat
            BY <1>1, <1>2, <2>1
        <3> QED
            BY <3>1, <1>1, <2>1, EarlierTyped
    <2>2. CASE Policy.window = NoTime
        BY <1>1, <2>2
    <2> QED
        BY <2>1, <2>2
<1>5. late \in Time
    <2>1. eff + Policy.late \in Nat /\ eff + DefaultLate \in Nat
        BY <1>1, <1>2
    <2> HIDE DEF eff, closes
    <2> QED
        BY <2>1, <1>4, EarlierTyped
<1> QED
    BY <1>3, <1>4, <1>5 DEF ActivationWindow

\* A check-in is given a time of the clock: that of a pass, or of the start.
LEMMA CheckedInTyped ==
    ASSUME NEW row \in AttemptRow, NEW required \in SUBSET Steps,
           NEW pass \in [Steps -> Stamp], NEW bound, NEW late,
           Earned(required, pass, bound)
    PROVE  CheckedIn(row, required, pass, late) \in AttemptRow
<1>1. \A step \in required : pass[step] \in Time
    BY DEF Earned, CountsBy, Stamp
<1>2. CheckInTime(required, pass, row.startedAt) \in Stamp
    <2>1. CASE required = {}
        BY <2>1 DEF CheckInTime, AttemptRow
    <2>2. CASE required = Steps
        <3>1. pass["geofence"] \in Time /\ pass["face"] \in Time /\ required # {}
            BY <1>1, <2>2 DEF Steps
        <3> QED
            BY <3>1, <2>2, LaterTyped DEF CheckInTime, Stamp
    <2>3. CASE required # {} /\ required # Steps
        <3>1. (CHOOSE step \in required : TRUE) \in required
            BY <2>3
        <3> QED
            BY <1>1, <3>1, <2>3 DEF CheckInTime, Stamp
    <2> QED
        BY <2>1, <2>2, <2>3
<1> QED
    BY <1>2 DEF CheckedIn, AttemptRow, AttemptStatuses, InitialCheckInStatus, InitialStatuses

LEMMA TryCheckInTyped ==
    ASSUME NEW row \in AttemptRow, NEW pass \in [Steps -> Stamp]
    PROVE  TryCheckIn(row, pass) \in AttemptRow
<1>1. RequiredSteps(session.face, waived) \in SUBSET Steps
    BY DEF RequiredSteps
<1> QED
    BY <1>1, CheckedInTyped DEF TryCheckIn

-----------------------------------------------------------------------------
(* Types.                                                                  *)

\* A session that exists has a complete window.  Without this the activation
\* could compute with a missing closing time.
WindowSet ==
    session.status # "none" =>
        session.opens \in Time /\ session.closes \in Time /\ session.late \in Time

Typed == TypeOK /\ WindowSet

LEMMA InitTyped == Init => Typed
<1> SUFFICES ASSUME Init PROVE Typed
    OBVIOUS
<1>1. now \in Time
    BY ScheduleAssumption DEF Init, Time
<1>2. session \in SessionRow /\ WindowSet
    BY DEF Init, NoSession, SessionRow, SessionStatuses, Stamp, WindowSet
<1>3. NoAttempt \in AttemptRow /\ NoRecord \in RecordRow /\ NoBatch \in BatchRow
    BY DEF NoAttempt, AttemptRow, AttemptStatuses, Reasons, NoRecord, RecordRow,
           Sources, NoBatch, BatchRow, Stamp
<1>4. /\ roster \subseteq Students
      /\ waived \in BOOLEAN
      /\ attempt \in [Students -> AttemptRow]
      /\ passed \in [Students -> [Steps -> Stamp]]
      /\ tries \in [Students -> [Steps -> Nat]]
      /\ located \in [Students -> BOOLEAN]
      /\ record \in [Students -> RecordRow]
      /\ reviewed \subseteq Students
      /\ batch \in [Batches -> BatchRow]
      /\ accepted \in [Students -> SUBSET Batches]
      /\ calls \subseteq StudentCall /\ lecturerCalls \subseteq LecturerCall /\ scans \subseteq Scan
    BY <1>3 DEF Init, Stamp
<1> QED
    BY <1>1, <1>2, <1>4 DEF Typed, TypeOK

LEMMA CreateTyped ==
    ASSUME Typed, NEW want \in Requests, NEW enrolled \in Rosters, Create(want, enrolled)
    PROVE  Typed'
<1> DEFINE w == ResolveCheckInTimes(want, SchedStart, SchedEnd, Policy, DefaultLate)
<1>1. w \in [opens : Time, closes : Time, late : Time]
    BY ResolvedWindow
<1>2. want.face \in BOOLEAN /\ want.qr \in BOOLEAN
    BY RequestAssumption
<1> HIDE DEF w
<1>3. session' = [status |-> "scheduled", face |-> want.face, qr |-> want.qr,
                  opens |-> w.opens, closes |-> w.closes, late |-> w.late,
                  explicit |-> { f \in {"opens", "closes", "late"} : want[f] # NoTime },
                  closedAt |-> NoTime]
    BY DEF Create, NoSession, w
<1>4. session' \in SessionRow /\ WindowSet'
    BY <1>1, <1>2, <1>3 DEF SessionRow, SessionStatuses, Stamp, WindowSet, Time
<1>5. roster' \subseteq Students
    BY ChoiceAssumption DEF Create
<1> QED
    BY <1>4, <1>5 DEF Typed, TypeOK, Create, evidenceVars, decisionVars, qrVars, callVars, Time,
        Stamp, AttemptRow, RecordRow, BatchRow, StudentCall, LecturerCall

LEMMA ActivateTyped ==
    ASSUME Typed, Activate
    PROVE  Typed'
<1> DEFINE w == ActivationWindow(session, session.explicit, SchedStart, SchedEnd,
                                 now, Policy, DefaultLate)
<1>1. w \in [opens : Time, closes : Time, late : Time]
    BY ActivatedWindow DEF Typed, TypeOK, WindowSet, Activate
<1> HIDE DEF w
<1>2. session' = [session EXCEPT !.status = "active", !.opens = w.opens,
                                 !.closes = w.closes, !.late = w.late]
    BY DEF Activate, w
<1>3. session' \in SessionRow /\ WindowSet'
    BY <1>1, <1>2 DEF Typed, TypeOK, SessionRow, SessionStatuses, Stamp, WindowSet, Time
<1> QED
    BY <1>3 DEF Typed, TypeOK, Activate, evidenceVars, decisionVars, qrVars, callVars

LEMMA DeactivatedTyped ==
    ASSUME Typed, NEW at
    PROVE  Deactivated(at) \in [Batches -> BatchRow]
BY DEF Typed, TypeOK, Deactivated, BatchRow

LEMMA FinalizeTyped ==
    ASSUME Typed, session.status = "active", NEW at \in Time, Finalize(at),
           lecturerCalls' \subseteq LecturerCall
    PROVE  Typed'
<1>1. session' \in SessionRow /\ WindowSet'
    <2>1. session' = [session EXCEPT !.status = "closed", !.closedAt = at]
        BY DEF Finalize
    <2> QED
        BY <2>1 DEF Typed, TypeOK, SessionRow, SessionStatuses, Stamp, WindowSet, Time
<1>2. batch' \in [Batches -> BatchRow]
    BY DeactivatedTyped DEF Finalize
<1>3. attempt' \in [Students -> AttemptRow]
    <2>1. RequiredSteps(session.face, waived) \in SUBSET Steps
        BY DEF RequiredSteps
    <2>2. attempt \in [Students -> AttemptRow] /\ passed \in [Students -> [Steps -> Stamp]]
        BY DEF Typed, TypeOK
    <2>3. attempt' = Reconciled(at)
        BY DEF Finalize
    <2>4. \A s \in Students : Reconciled(at)[s] \in AttemptRow
        BY <2>1, <2>2, CheckedInTyped DEF Reconciled
    <2> QED
        BY <2>3, <2>4 DEF Reconciled
<1>4. record' \in [Students -> RecordRow]
    <2>1. \A s \in Students :
             DecideFinalAttendance(attempt'[s].initial, RequiredBatches(s)', accepted[s])
                 \in FinalStatuses
        BY <1>3 DEF DecideFinalAttendance, FinalStatuses, AttemptRow, InitialStatuses
    <2>2. record \in [Students -> RecordRow]
        BY DEF Typed, TypeOK
    <2> QED
        BY <2>1, <2>2 DEF Finalize, RecordRow, Sources
<1> QED
    BY <1>1, <1>2, <1>3, <1>4 DEF Typed, TypeOK, Finalize

LEMMA CancelTyped ==
    ASSUME Typed, Cancel
    PROVE  Typed'
<1>1. session' \in SessionRow /\ WindowSet'
    BY DEF Typed, TypeOK, Cancel, NotEnded, SessionRow, SessionStatuses, WindowSet, Time
<1>2. batch' \in [Batches -> BatchRow]
    BY DeactivatedTyped DEF Cancel
<1> QED
    BY <1>1, <1>2 DEF Typed, TypeOK, Cancel, evidenceVars, decisionVars, callVars

LEMMA LifecycleTyped ==
    ASSUME Typed, LifecycleStep
    PROVE  Typed'
<1>1. CASE \E want \in Requests, enrolled \in Rosters : Create(want, enrolled)
    BY <1>1, CreateTyped
<1>2. CASE Activate
    BY <1>2, ActivateTyped
<1>3. CASE CloseBegin
    BY <1>3 DEF Typed, TypeOK, WindowSet, CloseBegin, LecturerCall, sessionVars,
        evidenceVars, decisionVars, qrVars, Time
<1>4. CASE \E c \in lecturerCalls : CloseCommit(c)
    <2>1. PICK c \in lecturerCalls : CloseCommit(c)
        BY <1>4
    <2>2. c.at \in Time /\ lecturerCalls' \subseteq LecturerCall
        BY <2>1 DEF Typed, TypeOK, LecturerCall, CloseCommit
    <2> QED
        BY <2>1, <2>2, FinalizeTyped DEF CloseCommit
<1>5. CASE AutoClose
    BY <1>5, FinalizeTyped DEF AutoClose, Typed, TypeOK
<1>6. CASE Cancel
    BY <1>6, CancelTyped
<1>7. CASE \E c \in lecturerCalls : LecturerGivesUp(c)
    BY <1>7 DEF Typed, TypeOK, WindowSet, LecturerGivesUp, sessionVars, evidenceVars,
        decisionVars, qrVars, Time
<1> QED
    BY <1>1, <1>2, <1>3, <1>4, <1>5, <1>6, <1>7 DEF LifecycleStep

LEMMA StagedTyped ==
    ASSUME Typed, NEW c \in calls, NEW kind \in {"locking", "face_passed"}, NEW seen \in BOOLEAN,
           Stage(c, kind, seen)
    PROVE  calls' \subseteq StudentCall
BY DEF Typed, TypeOK, Stage, StudentCall

LEMMA BegunTyped ==
    ASSUME Typed, NEW s \in Students, NEW kind \in {"geofence", "start", "inference"},
           NEW seen \in BOOLEAN, Begin(s, kind, seen)
    PROVE  Typed'
<1>1. calls' \subseteq StudentCall
    BY DEF Typed, TypeOK, Begin, Join, StudentCall
<1> QED
    BY <1>1 DEF Typed, TypeOK, WindowSet, Begin, OnlyCalls, sessionVars, evidenceVars,
        decisionVars, qrVars, Time

LEMMA StartedTyped ==
    ASSUME Typed, NEW c \in calls
    PROVE  StartedAttempt(c) \in AttemptRow
BY DEF Typed, TypeOK, StartedAttempt, NoAttempt, AttemptRow, AttemptStatuses, Reasons,
    Stamp, StudentCall

LEMMA FailedTyped ==
    ASSUME NEW row \in AttemptRow, NEW reason \in Reasons
    PROVE  FailedAttempt(row, reason) \in AttemptRow
BY DEF FailedAttempt, AttemptRow, AttemptStatuses

LEMMA GeofenceTyped ==
    ASSUME Typed, NEW c \in calls, NEW reading \in Readings, GeofenceCommit(c, reading)
    PROVE  Typed'
<1> DEFINE s      == c.student
           number == tries[s]["geofence"] + 1
           result == FinalizeLastRetry(reading, number, MaxGeofenceAttempts)
           pass   == IF result = "passed"
                     THEN [passed[s] EXCEPT !["geofence"] = EarliestPass(@, c.at)]
                     ELSE passed[s]
<1>1. s \in Students /\ c.at \in Time
    BY DEF Typed, TypeOK, StudentCall
<1>2. number \in Nat
    BY <1>1 DEF Typed, TypeOK, Steps
<1>3. pass \in [Steps -> Stamp]
    <2>1. passed[s]["geofence"] \in Stamp
        BY <1>1 DEF Typed, TypeOK, Steps
    <2>2. EarliestPass(passed[s]["geofence"], c.at) \in Stamp
        BY <1>1, <2>1 DEF EarliestPass, Earlier, Stamp
    <2> QED
        BY <1>1, <2>2 DEF Typed, TypeOK
<1>4. result \in Readings \cup {"ATTEMPT_LIMIT_REACHED"}
    BY DEF FinalizeLastRetry
<1>5. /\ tries' = [tries EXCEPT ![s]["geofence"] = number]
      /\ located' = [located EXCEPT ![s] = (result = "passed")]
      /\ passed' = [passed EXCEPT ![s] = pass]
      /\ attempt' = [attempt EXCEPT ![s] =
                        CASE result = "passed"         -> TryCheckIn(StartedAttempt(c), pass)
                          [] result = "retry_required" -> StartedAttempt(c)
                          [] OTHER -> FailedAttempt(StartedAttempt(c), result)]
      /\ calls' \subseteq calls
    BY DEF GeofenceCommit, Leave
<1> HIDE DEF pass, result, number
<1>6. attempt' \in [Students -> AttemptRow]
    <2>1. CASE result = "passed"
        BY <1>1, <1>3, <1>5, <2>1, StartedTyped, TryCheckInTyped DEF Typed, TypeOK
    <2>2. CASE result = "retry_required"
        BY <1>1, <1>5, <2>2, StartedTyped DEF Typed, TypeOK
    <2>3. CASE result \in {"OUTSIDE_GEOFENCE", "MOCK_LOCATION_DETECTED", "ATTEMPT_LIMIT_REACHED"}
        <3>1. FailedAttempt(StartedAttempt(c), result) \in AttemptRow
            BY <2>3, StartedTyped, FailedTyped DEF Reasons
        <3> QED
            BY <1>1, <1>5, <2>3, <3>1 DEF Typed, TypeOK
    <2> QED
        BY <1>4, <2>1, <2>2, <2>3 DEF Readings
<1>7. passed' \in [Students -> [Steps -> Stamp]]
    BY <1>1, <1>3, <1>5 DEF Typed, TypeOK
<1>8. tries' \in [Students -> [Steps -> Nat]] /\ located' \in [Students -> BOOLEAN]
    BY <1>1, <1>2, <1>5 DEF Typed, TypeOK, Steps
<1> QED
    BY <1>5, <1>6, <1>7, <1>8 DEF Typed, TypeOK, WindowSet, GeofenceCommit, sessionVars,
        decisionVars, qrVars, Time

LEMMA StartTyped ==
    ASSUME Typed, NEW c \in calls, StartCommit(c)
    PROVE  Typed'
<1>1. c.student \in Students
    BY DEF Typed, TypeOK, StudentCall
<1>2. TryCheckIn(StartedAttempt(c), passed[c.student]) \in AttemptRow
    BY <1>1, StartedTyped, TryCheckInTyped DEF Typed, TypeOK
<1>3. attempt' \in [Students -> AttemptRow] /\ calls' \subseteq StudentCall
    BY <1>1, <1>2 DEF Typed, TypeOK, StartCommit, Leave
<1> QED
    BY <1>3 DEF Typed, TypeOK, WindowSet, StartCommit, sessionVars, decisionVars, qrVars, Time

LEMMA FaceRecordTyped ==
    ASSUME Typed, NEW c \in calls, NEW matched \in BOOLEAN, FaceRecord(c, matched)
    PROVE  Typed'
<1> DEFINE s      == c.student
           number == tries[s]["face"] + 1
<1>1. s \in Students /\ c.at \in Time /\ number \in Nat
    BY DEF Typed, TypeOK, StudentCall, Steps
<1>2. tries' \in [Students -> [Steps -> Nat]]
    BY <1>1 DEF Typed, TypeOK, FaceRecord, Steps
<1>3. /\ passed' \in [Students -> [Steps -> Stamp]]
      /\ attempt' \in [Students -> AttemptRow]
      /\ calls' \subseteq StudentCall
    <2>1. CASE matched
        <3>1. calls' \subseteq StudentCall
            BY <2>1, StagedTyped DEF FaceRecord
        <3>2. attempt' = attempt /\ passed' = [passed EXCEPT ![s]["face"] = c.at]
            BY <2>1 DEF FaceRecord
        <3> QED
            BY <1>1, <3>1, <3>2 DEF Typed, TypeOK, Steps, Stamp
    <2>2. CASE ~matched
        <3>1. /\ passed' = passed
              /\ calls' \subseteq calls
              /\ attempt' = [attempt EXCEPT ![s] =
                                IF CanRetry(number) THEN @
                                ELSE FailedAttempt(@, "FACE_ATTEMPT_LIMIT_REACHED")]
            BY <2>2 DEF FaceRecord, Leave
        <3>2. FailedAttempt(attempt[s], "FACE_ATTEMPT_LIMIT_REACHED") \in AttemptRow
            BY <1>1, FailedTyped DEF Typed, TypeOK, Reasons
        <3> QED
            BY <1>1, <3>1, <3>2 DEF Typed, TypeOK
    <2> QED
        BY <2>1, <2>2
<1> QED
    BY <1>2, <1>3 DEF Typed, TypeOK, WindowSet, FaceRecord, sessionVars, decisionVars, qrVars, Time

LEMMA CheckInAttemptTyped ==
    ASSUME Typed, NEW s \in Students, CheckInAttempt(s)
    PROVE  attempt' \in [Students -> AttemptRow]
<1>1. TryCheckIn(attempt[s], passed[s]) \in AttemptRow
    BY TryCheckInTyped DEF Typed, TypeOK
<1> QED
    BY <1>1 DEF Typed, TypeOK, CheckInAttempt

LEMMA StudentTyped ==
    ASSUME Typed, StudentStep
    PROVE  Typed'
<1>1. CASE \E s \in Students : GeofenceBegin(s)
    BY <1>1, BegunTyped DEF GeofenceBegin, Typed, TypeOK
<1>2. CASE \E c \in calls, reading \in Readings : GeofenceCommit(c, reading)
    BY <1>2, GeofenceTyped
<1>3. CASE \E s \in Students : StartBegin(s)
    BY <1>3, BegunTyped DEF StartBegin, Typed, TypeOK
<1>4. CASE \E c \in calls : StartCommit(c)
    BY <1>4, StartTyped
<1>5. CASE \E s \in Students : FaceBegin(s)
    BY <1>5, BegunTyped DEF FaceBegin
<1>6. CASE \E c \in calls : FaceLockStatement(c)
    <2>1. PICK c \in calls : FaceLockStatement(c)
        BY <1>6
    <2>2. FaceOpen(c.student, c.at) \in BOOLEAN
        BY DEF FaceOpen
    <2>3. calls' \subseteq StudentCall
        BY <2>1, <2>2, StagedTyped DEF FaceLockStatement
    <2> QED
        BY <2>1, <2>3 DEF Typed, TypeOK, WindowSet, FaceLockStatement, OnlyCalls, sessionVars,
            evidenceVars, decisionVars, qrVars, Time
<1>7. CASE \E c \in calls, matched \in BOOLEAN : FaceRecord(c, matched)
    BY <1>7, FaceRecordTyped
<1>8. CASE \E c \in calls : CoreCheckIn(c)
    <2>1. PICK c \in calls : CoreCheckIn(c)
        BY <1>8
    <2>2. attempt' \in [Students -> AttemptRow] /\ calls' \subseteq StudentCall
        BY <2>1, CheckInAttemptTyped DEF Typed, TypeOK, StudentCall, CoreCheckIn, Leave
    <2> QED
        BY <2>1, <2>2 DEF Typed, TypeOK, WindowSet, CoreCheckIn, sessionVars, decisionVars,
            qrVars, Time
<1>9. CASE \E s \in Students : CheckIn(s)
    <2>1. PICK s \in Students : CheckIn(s)
        BY <1>9
    <2>2. attempt' \in [Students -> AttemptRow]
        BY <2>1, CheckInAttemptTyped DEF CheckIn
    <2> QED
        BY <2>1, <2>2 DEF Typed, TypeOK, WindowSet, CheckIn, sessionVars, decisionVars,
            qrVars, callVars, Time
<1>10. CASE \E c \in calls : Abandon(c)
    BY <1>10 DEF Typed, TypeOK, WindowSet, Abandon, Leave, OnlyCalls, sessionVars,
        evidenceVars, decisionVars, qrVars, Time
<1> QED
    BY <1>1, <1>2, <1>3, <1>4, <1>5, <1>6, <1>7, <1>8, <1>9, <1>10 DEF StudentStep

LEMMA ReopenedTyped ==
    ASSUME NEW row \in AttemptRow
    PROVE  [row EXCEPT !.status = "in_progress", !.reason = "none"] \in AttemptRow
BY DEF AttemptRow, AttemptStatuses, Reasons

LEMMA DecisionTyped ==
    ASSUME Typed, DecisionStep
    PROVE  Typed'
<1>1. CASE Waive
    <2>1. \A s \in Students :
             [attempt[s] EXCEPT !.status = "in_progress", !.reason = "none"] \in AttemptRow
        BY ReopenedTyped DEF Typed, TypeOK
    <2>2. attempt' \in [Students -> AttemptRow]
        BY <1>1, <2>1 DEF Typed, TypeOK, Waive
    <2> QED
        BY <1>1, <2>2 DEF Typed, TypeOK, WindowSet, Waive, sessionVars, qrVars, callVars, Time
<1>2. ASSUME NEW s \in Students, NEW status \in ManualStatuses, SetStatus(s, status)
      PROVE  record' \in [Students -> RecordRow]
    BY <1>2, ChoiceAssumption DEF Typed, TypeOK, SetStatus, RecordRow, Sources
<1>3. CASE \E s \in Students, status \in ManualStatuses : ManualSet(s, status)
    BY <1>2, <1>3 DEF Typed, TypeOK, WindowSet, ManualSet, sessionVars, evidenceVars, qrVars,
        callVars, Time
<1>4. CASE \E s \in Students, status \in ManualStatuses \ {"left_early"} : Review(s, status)
    BY <1>2, <1>4 DEF Typed, TypeOK, WindowSet, Review, sessionVars, evidenceVars, qrVars,
        callVars, Time
<1> QED
    BY <1>1, <1>3, <1>4 DEF DecisionStep

LEMMA BatchTyped ==
    ASSUME Typed, OnlyBatches, batch' \in [Batches -> BatchRow],
           lecturerCalls' \subseteq LecturerCall
    PROVE  Typed'
BY DEF Typed, TypeOK, WindowSet, OnlyBatches, sessionVars, evidenceVars, decisionVars, Time

LEMMA ScanTyped ==
    ASSUME Typed, OnlyScans, accepted' \in [Students -> SUBSET Batches], scans' \subseteq Scan
    PROVE  Typed'
BY DEF Typed, TypeOK, WindowSet, OnlyScans, sessionVars, evidenceVars, decisionVars, Time

LEMMA QrTyped ==
    ASSUME Typed, QrStep
    PROVE  Typed'
<1>1. CASE \E kind \in {"static", "dynamic"} : LaunchBegin(kind)
    BY <1>1, BatchTyped DEF Typed, TypeOK, LaunchBegin, LecturerCall
<1>2. CASE \E c \in lecturerCalls, b \in Batches : LaunchCommit(c, b)
    <2>1. PICK c \in lecturerCalls, b \in Batches : LaunchCommit(c, b)
        BY <1>2
    <2>2. c.at \in Time
        BY DEF Typed, TypeOK, LecturerCall
    <2>3. Earlier(c.at + Validity, SchedEnd) \in Time
        <3>1. c.at + Validity \in Nat /\ SchedEnd \in Time
            BY <2>2, ScheduleAssumption DEF Time
        <3> QED
            BY <3>1, EarlierTyped
    <2>4. batch' \in [Batches -> BatchRow]
        BY <2>1, <2>2, <2>3 DEF Typed, TypeOK, LaunchCommit, BatchRow, Stamp
    <2> QED
        BY <2>1, <2>4, BatchTyped DEF Typed, TypeOK, LaunchCommit
<1>3. CASE \E b \in Batches : VoidBatch(b)
    <2>1. PICK b \in Batches : VoidBatch(b)
        BY <1>3
    <2>2. batch' = [batch EXCEPT ![b] = [@ EXCEPT !.voided = TRUE, !.status = "inactive"]]
        BY <2>1 DEF VoidBatch, Typed, TypeOK, BatchRow
    <2>3. batch' \in [Batches -> BatchRow]
        BY <2>2 DEF Typed, TypeOK, BatchRow
    <2> QED
        BY <2>1, <2>3, BatchTyped DEF Typed, TypeOK, VoidBatch
<1>4. CASE \E b \in Batches : DeactivateBatch(b)
    <2>1. batch' \in [Batches -> BatchRow] /\ UNCHANGED lecturerCalls /\ OnlyBatches
        BY <1>4 DEF Typed, TypeOK, DeactivateBatch, BatchRow
    <2> QED
        BY <2>1, BatchTyped DEF Typed, TypeOK
<1>5. CASE \E s \in Students, b \in Batches : ScanBegin(s, b)
    <2>1. PICK s \in Students, b \in Batches : ScanBegin(s, b)
        BY <1>5
    <2> DEFINE verdict == BatchOpen(b) /\ now < batch[b].expiresAt
    <2>2. verdict \in BOOLEAN /\ scans' = scans \cup {[student |-> s, batch |-> b, verdict |-> verdict]}
        BY <2>1 DEF ScanBegin
    <2> HIDE DEF verdict
    <2>3. scans' \subseteq Scan
        BY <2>2 DEF Typed, TypeOK, Scan
    <2> QED
        BY <2>1, <2>3, ScanTyped DEF Typed, TypeOK, ScanBegin
<1>6. CASE \E scan \in scans : ScanCommit(scan)
    BY <1>6, ScanTyped DEF Typed, TypeOK, ScanCommit, Scan
<1>7. CASE \E scan \in scans : ScanLost(scan)
    BY <1>7, ScanTyped DEF Typed, TypeOK, ScanLost
<1> QED
    BY <1>1, <1>2, <1>3, <1>4, <1>5, <1>6, <1>7 DEF QrStep

LEMMA TypedStep == Typed /\ [Next]_vars => Typed'
<1> SUFFICES ASSUME Typed, [Next]_vars PROVE Typed'
    OBVIOUS
<1>1. CASE Tick
    <2>1. now' \in Time
        BY <1>1, ScheduleAssumption DEF Typed, TypeOK, Tick, Time
    <2> QED
        BY <1>1, <2>1 DEF Typed, TypeOK, WindowSet, Tick, sessionVars, evidenceVars,
            decisionVars, qrVars, callVars, Time
<1>2. CASE UNCHANGED vars
    BY <1>2 DEF Typed, TypeOK, WindowSet, vars, sessionVars, evidenceVars, decisionVars,
        qrVars, callVars, Time
<1> QED
    BY <1>1, <1>2, LifecycleTyped, StudentTyped, DecisionTyped, QrTyped DEF Next

LEMMA AlwaysTyped == Spec => []Typed
BY InitTyped, TypedStep, PTL DEF Spec

\* Every row and every request in flight keeps its type.  The window of a
\* session and the time of a check-in are instants the clock can show,
\* although both are computed: from the policy, from the effective start, and
\* from the evidence of the last required step.
THEOREM TypeCorrect == Spec => []TypeOK
<1>1. Typed => TypeOK
    BY DEF Typed
<1> QED
    BY <1>1, AlwaysTyped, PTL

-----------------------------------------------------------------------------
(* Attempts.                                                               *)

LEMMA TryCheckInMoves ==
    ASSUME NEW row, NEW pass, TryCheckIn(row, pass) # row
    PROVE  row.status = "in_progress"
BY DEF TryCheckIn

\* What a step may do to attempts.  Whatever the interleaving, an attempt that
\* is over is moved by the waiver alone.
Moves(s) ==
    \/ attempt'[s] = attempt[s]
    \/ attempt[s].status \in {"none", "in_progress"}
    \/ /\ Waive
       /\ Reopenable(s)
       /\ attempt'[s].status = "in_progress"

LEMMA LifecycleMoves ==
    ASSUME Typed, LifecycleStep, NEW s \in Students
    PROVE  Moves(s)
<1>1. ASSUME NEW at, Finalize(at) PROVE Moves(s)
    BY <1>1 DEF Finalize, Reconciled, Moves
<1>2. CASE \E want \in Requests, enrolled \in Rosters : Create(want, enrolled)
    BY <1>2 DEF Create, evidenceVars, Moves
<1>3. CASE Activate
    BY <1>3 DEF Activate, evidenceVars, Moves
<1>4. CASE CloseBegin
    BY <1>4 DEF CloseBegin, evidenceVars, Moves
<1>5. CASE \E c \in lecturerCalls : CloseCommit(c)
    BY <1>1, <1>5 DEF CloseCommit
<1>6. CASE AutoClose
    BY <1>1, <1>6 DEF AutoClose
<1>7. CASE Cancel
    BY <1>7 DEF Cancel, evidenceVars, Moves
<1>8. CASE \E c \in lecturerCalls : LecturerGivesUp(c)
    BY <1>8 DEF LecturerGivesUp, evidenceVars, Moves
<1> QED
    BY <1>2, <1>3, <1>4, <1>5, <1>6, <1>7, <1>8 DEF LifecycleStep

LEMMA StudentMoves ==
    ASSUME Typed, StudentStep, NEW s \in Students
    PROVE  Moves(s)
<1>0. /\ attempt \in [Students -> AttemptRow]
      /\ \A c \in calls : c.student \in Students
    BY DEF Typed, TypeOK, StudentCall
<1>1. CASE OnlyCalls
    BY <1>1 DEF OnlyCalls, evidenceVars, Moves
<1>2. CASE \E c \in calls, reading \in Readings : GeofenceCommit(c, reading)
    <2>1. PICK c \in calls, reading \in Readings : GeofenceCommit(c, reading)
        BY <1>2
    <2>2. attempt[c.student].status \in {"none", "in_progress"}
        BY <2>1 DEF GeofenceCommit, StartedAttempt
    <2>3. s # c.student => attempt'[s] = attempt[s]
        BY <1>0, <2>1 DEF GeofenceCommit
    <2> QED
        BY <2>2, <2>3 DEF Moves
<1>3. CASE \E c \in calls : StartCommit(c)
    <2>1. PICK c \in calls : StartCommit(c)
        BY <1>3
    <2>2. attempt[c.student].status \in {"none", "in_progress"}
        BY <2>1 DEF StartCommit, StartedAttempt
    <2>3. s # c.student => attempt'[s] = attempt[s]
        BY <1>0, <2>1 DEF StartCommit
    <2> QED
        BY <2>2, <2>3 DEF Moves
<1>4. CASE \E c \in calls, matched \in BOOLEAN : FaceRecord(c, matched)
    <2>1. PICK c \in calls, matched \in BOOLEAN : FaceRecord(c, matched)
        BY <1>4
    <2>2. attempt[c.student].status = "in_progress"
        BY <2>1 DEF FaceRecord, FaceAllowed
    <2>3. s # c.student => attempt'[s] = attempt[s]
        BY <1>0, <2>1 DEF FaceRecord
    <2> QED
        BY <2>2, <2>3 DEF Moves
<1>5. ASSUME NEW t \in Students, CheckInAttempt(t) PROVE Moves(s)
    <2>1. attempt' = [attempt EXCEPT ![t] = TryCheckIn(attempt[t], passed[t])]
        BY <1>5 DEF CheckInAttempt
    <2> QED
        BY <1>0, <2>1, TryCheckInMoves DEF Moves
<1> QED
    BY <1>0, <1>1, <1>2, <1>3, <1>4, <1>5 DEF StudentStep, GeofenceBegin, StartBegin, FaceBegin,
        Begin, FaceLockStatement, Abandon, CoreCheckIn, CheckIn

LEMMA AttemptMoves ==
    ASSUME Typed, [Next]_vars, NEW s \in Students
    PROVE  Moves(s)
<1>1. CASE Waive
    BY <1>1 DEF Waive, Typed, TypeOK, AttemptRow, Moves
<1>2. CASE UNCHANGED attempt
    BY <1>2 DEF Moves
<1>3. CASE DecisionStep
    BY <1>1, <1>2, <1>3 DEF DecisionStep, ManualSet, Review, evidenceVars
<1>4. CASE QrStep
    BY <1>2, <1>4 DEF QrStep, LaunchBegin, LaunchCommit, VoidBatch, DeactivateBatch, OnlyBatches,
        ScanBegin, ScanCommit, ScanLost, OnlyScans, evidenceVars
<1>5. CASE Tick \/ UNCHANGED vars
    BY <1>2, <1>5 DEF Tick, vars, evidenceVars
<1> QED
    BY <1>3, <1>4, <1>5, LifecycleMoves, StudentMoves DEF Next

\* A check-in is final, for any number of students, of requests in flight and
\* of retries: no step of the system writes to a checked-in attempt.
THEOREM CheckInIsFinal == Spec => CheckInStands
<1>1. Typed /\ [Next]_vars =>
          \A s \in Students : attempt[s].status = "checked_in" => attempt'[s] = attempt[s]
    BY AttemptMoves DEF Moves, Reopenable
<1>2. Typed /\ [Next]_vars =>
          [\A s \in Students : attempt[s].status = "checked_in" => attempt'[s] = attempt[s]]_vars
    BY <1>1
<1> QED
    BY <1>2, AlwaysTyped, PTL DEF Spec, CheckInStands

\* A student's record is whole: one without a source has no status either.
RecordsWhole == \A s \in Students : record[s].source = "none" => record[s] = NoRecord

LEMMA RecordsWholeStep ==
    ASSUME Typed, RecordsWhole, [Next]_vars
    PROVE  RecordsWhole'
<1>1. CASE UNCHANGED record
    BY <1>1 DEF RecordsWhole
<1>2. ASSUME NEW at, Finalize(at) PROVE RecordsWhole'
    BY <1>2 DEF Finalize, RecordsWhole
<1>3. ASSUME NEW s \in Students, NEW status \in ManualStatuses, SetStatus(s, status)
      PROVE  RecordsWhole'
    BY <1>3 DEF SetStatus, RecordsWhole, Typed, TypeOK
<1>4. CASE LifecycleStep
    BY <1>1, <1>2, <1>4 DEF LifecycleStep, Create, Activate, CloseBegin, CloseCommit, AutoClose,
        Cancel, LecturerGivesUp, decisionVars
<1>5. CASE StudentStep
    BY <1>1, <1>5 DEF StudentStep, GeofenceBegin, GeofenceCommit, StartBegin, StartCommit,
        FaceBegin, FaceLockStatement, FaceRecord, CoreCheckIn, CheckIn, Abandon, Begin,
        OnlyCalls, decisionVars
<1>6. CASE DecisionStep
    BY <1>1, <1>3, <1>6 DEF DecisionStep, Waive, ManualSet, Review
<1>7. CASE QrStep
    BY <1>1, <1>7 DEF QrStep, LaunchBegin, LaunchCommit, VoidBatch, DeactivateBatch,
        OnlyBatches, ScanBegin, ScanCommit, ScanLost, OnlyScans, decisionVars
<1>8. CASE Tick \/ UNCHANGED vars
    BY <1>1, <1>8 DEF Tick, vars, decisionVars
<1> QED
    BY <1>4, <1>5, <1>6, <1>7, <1>8 DEF Next

LEMMA AlwaysWhole == Spec => [](Typed /\ RecordsWhole)
<1>1. Init => RecordsWhole
    BY DEF Init, RecordsWhole
<1> QED
    BY <1>1, AlwaysTyped, RecordsWholeStep, PTL DEF Spec

\* A failure is taken back by the waiver alone, in the step that grants it,
\* and never one that tampering or the face limit caused, nor one a lecturer
\* has already decided about.
THEOREM FailureIsFinal == Spec => FailureStands
<1> DEFINE Stands ==
        \A s \in Students : attempt[s].status = "failed" =>
           \/ attempt'[s] = attempt[s]
           \/ /\ waived' # waived
              /\ record[s] = NoRecord
              /\ attempt[s].reason \notin {"MOCK_LOCATION_DETECTED", "FACE_ATTEMPT_LIMIT_REACHED"}
<1>1. ASSUME Typed, RecordsWhole, [Next]_vars
      PROVE  Stands
    <2> SUFFICES ASSUME NEW s \in Students, attempt[s].status = "failed", attempt'[s] # attempt[s]
                 PROVE  /\ waived' # waived
                        /\ record[s] = NoRecord
                        /\ attempt[s].reason \notin {"MOCK_LOCATION_DETECTED", "FACE_ATTEMPT_LIMIT_REACHED"}
        OBVIOUS
    <2>1. Waive /\ Reopenable(s)
        BY <1>1, AttemptMoves DEF Moves
    <2> QED
        BY <1>1, <2>1 DEF Waive, Reopenable, ReopenableReasons, RecordsWhole
<1> HIDE DEF Stands
<1>2. Typed /\ RecordsWhole /\ [Next]_vars => [Stands]_vars
    BY <1>1
<1>3. Spec => [][Stands]_vars
    BY <1>2, AlwaysWhole, PTL DEF Spec
<1> QED
    BY <1>3 DEF FailureStands, Stands

-----------------------------------------------------------------------------
(* Limits.                                                                 *)

\* The inductive form of AttemptLimits: the limits alone would not survive a
\* waiver, which reopens failed attempts.  An attempt out of face captures
\* failed for that very reason, and the waiver passes over it.
Exhausted(s) == tries[s]["face"] = MaxFaceAttempts /\ passed[s]["face"] = NoTime

LimitsHold ==
    \A s \in Students :
        /\ tries[s]["geofence"] <= MaxGeofenceAttempts
        /\ tries[s]["face"] <= MaxFaceAttempts
        /\ Exhausted(s) => /\ attempt[s].status = "failed"
                           /\ attempt[s].reason = "FACE_ATTEMPT_LIMIT_REACHED"

\* A step that neither records a reading nor loses a pass keeps the limits.
LEMMA LimitsKept ==
    ASSUME Typed, LimitsHold, [Next]_vars,
           \A s \in Students :
              /\ tries'[s]["geofence"] <= MaxGeofenceAttempts
              /\ tries'[s]["face"] = tries[s]["face"]
              /\ passed'[s]["face"] = passed[s]["face"]
    PROVE  LimitsHold'
<1> SUFFICES ASSUME NEW s \in Students, Exhausted(s)
             PROVE  /\ attempt'[s].status = "failed"
                    /\ attempt'[s].reason = "FACE_ATTEMPT_LIMIT_REACHED"
    BY DEF LimitsHold, Exhausted
<1>1. attempt[s].status = "failed" /\ attempt[s].reason = "FACE_ATTEMPT_LIMIT_REACHED"
    BY DEF LimitsHold
<1>2. attempt'[s] = attempt[s]
    BY <1>1, AttemptMoves DEF Moves, Reopenable, ReopenableReasons
<1> QED
    BY <1>1, <1>2

LEMMA LimitsStep ==
    ASSUME Typed, LimitsHold, [Next]_vars
    PROVE  LimitsHold'
<1>0. /\ tries \in [Students -> [Steps -> Nat]]
      /\ passed \in [Students -> [Steps -> Stamp]]
      /\ attempt \in [Students -> AttemptRow]
      /\ \A c \in calls : c.student \in Students /\ c.at \in Time
    BY DEF Typed, TypeOK, StudentCall
<1>1. CASE UNCHANGED <<tries, passed>>
    BY <1>1, LimitsKept DEF LimitsHold
<1>2. ASSUME NEW c \in calls, NEW reading \in Readings, GeofenceCommit(c, reading)
      PROVE  LimitsHold'
    <2> DEFINE s == c.student
    <2>1. /\ tries' = [tries EXCEPT ![s]["geofence"] = tries[s]["geofence"] + 1]
          /\ tries[s]["geofence"] + 1 <= MaxGeofenceAttempts
        BY <1>2 DEF GeofenceCommit
    <2>2. \/ passed' = [passed EXCEPT ![s] = [passed[s] EXCEPT !["geofence"] =
                                                    EarliestPass(@, c.at)]]
          \/ passed' = [passed EXCEPT ![s] = passed[s]]
        BY <1>2 DEF GeofenceCommit
    <2>3. \A t \in Students :
             /\ tries'[t]["geofence"] <= MaxGeofenceAttempts
             /\ tries'[t]["face"] = tries[t]["face"]
        BY <1>0, <2>1 DEF LimitsHold, Steps
    <2>4. \A t \in Students : passed'[t]["face"] = passed[t]["face"]
        <3>1. CASE passed' = [passed EXCEPT ![s] = [passed[s] EXCEPT !["geofence"] =
                                                           EarliestPass(@, c.at)]]
            BY <1>0, <3>1 DEF Steps
        <3>2. CASE passed' = [passed EXCEPT ![s] = passed[s]]
            BY <1>0, <3>2
        <3> QED
            BY <2>2, <3>1, <3>2
    <2> QED
        BY <2>3, <2>4, LimitsKept
<1>3. ASSUME NEW c \in calls, NEW matched \in BOOLEAN, FaceRecord(c, matched)
      PROVE  LimitsHold'
    <2> DEFINE s      == c.student
               number == tries[s]["face"] + 1
    <2>1. /\ tries' = [tries EXCEPT ![s]["face"] = number]
          /\ tries[s]["face"] < MaxFaceAttempts
        BY <1>3 DEF FaceRecord, FaceAllowed
    <2>2. \A t \in Students :
             /\ tries'[t]["geofence"] <= MaxGeofenceAttempts
             /\ tries'[t]["face"] <= MaxFaceAttempts
        BY <1>0, <2>1, LimitAssumption DEF LimitsHold, Steps
    <2>3. CASE matched
        <3>1. passed' = [passed EXCEPT ![s]["face"] = c.at] /\ attempt' = attempt
            BY <1>3, <2>3 DEF FaceRecord
        <3>2. passed'[s]["face"] # NoTime
            BY <1>0, <3>1, NoTimeAssumption DEF Steps, Time
        <3>3. \A t \in Students \ {s} : passed'[t] = passed[t] /\ tries'[t] = tries[t]
            BY <1>0, <2>1, <3>1
        <3> QED
            BY <2>2, <3>1, <3>2, <3>3 DEF LimitsHold, Exhausted
    <2>4. CASE ~matched
        <3>1. /\ passed' = passed
              /\ attempt' = [attempt EXCEPT ![s] =
                                IF CanRetry(number) THEN @
                                ELSE FailedAttempt(@, "FACE_ATTEMPT_LIMIT_REACHED")]
            BY <1>3, <2>4 DEF FaceRecord
        <3>2. \A t \in Students \ {s} : attempt'[t] = attempt[t] /\ tries'[t] = tries[t]
            BY <1>0, <2>1, <3>1
        <3>3. tries'[s]["face"] = number
            BY <1>0, <2>1 DEF Steps
        <3>4. number = MaxFaceAttempts =>
                 /\ attempt'[s].status = "failed"
                 /\ attempt'[s].reason = "FACE_ATTEMPT_LIMIT_REACHED"
            BY <1>0, <3>1, LimitAssumption DEF CanRetry, FailedAttempt, AttemptRow
        <3> QED
            BY <2>2, <3>1, <3>2, <3>3, <3>4 DEF LimitsHold, Exhausted
    <2> QED
        BY <2>3, <2>4
<1>4. CASE LifecycleStep
    BY <1>1, <1>4 DEF LifecycleStep, Create, Activate, CloseBegin, CloseCommit, Finalize,
        AutoClose, Cancel, LecturerGivesUp, evidenceVars
<1>5. CASE StudentStep
    BY <1>1, <1>2, <1>3, <1>5 DEF StudentStep, GeofenceBegin, StartBegin, StartCommit, FaceBegin,
        FaceLockStatement, CoreCheckIn, CheckIn, Abandon, Begin, OnlyCalls, evidenceVars
<1>6. CASE DecisionStep
    BY <1>1, <1>6 DEF DecisionStep, Waive, ManualSet, Review, evidenceVars
<1>7. CASE QrStep
    BY <1>1, <1>7 DEF QrStep, LaunchBegin, LaunchCommit, VoidBatch, DeactivateBatch,
        OnlyBatches, ScanBegin, ScanCommit, ScanLost, OnlyScans, evidenceVars
<1>8. CASE Tick \/ UNCHANGED vars
    BY <1>1, <1>8 DEF Tick, vars, evidenceVars
<1> QED
    BY <1>4, <1>5, <1>6, <1>7, <1>8 DEF Next

\* However many requests overlap, no step records more readings or captures
\* than its limit, and an attempt out of face captures without a match has
\* failed: a waiver granted later does not reopen it.
THEOREM LimitsRespected == Spec => []AttemptLimits
<1>1. Init => LimitsHold
    BY LimitAssumption DEF Init, LimitsHold, Exhausted, Steps
<1>2. LimitsHold => AttemptLimits
    BY DEF LimitsHold, Exhausted, AttemptLimits
<1>3. Typed /\ LimitsHold /\ [Next]_vars => LimitsHold'
    BY LimitsStep
<1> QED
    BY <1>1, <1>2, <1>3, AlwaysTyped, PTL DEF Spec

-----------------------------------------------------------------------------
(* QR.                                                                     *)

\* A batch that can be scanned has a lifetime and is not void.
BatchesSound ==
    \A b \in Batches : batch[b].status = "active" =>
        /\ batch[b].activatedAt \in Time
        /\ batch[b].expiresAt \in Time
        /\ ~batch[b].voided

\* A step that launches nothing leaves the batches it does not withdraw alone.
NoneLaunched ==
    \A b \in Batches : batch'[b].status = "active" => batch'[b] = batch[b]

LEMMA BatchMoves ==
    ASSUME Typed, [Next]_vars
    PROVE  NoneLaunched \/ \E c \in lecturerCalls, b \in Batches : LaunchCommit(c, b)
<1>0. batch \in [Batches -> BatchRow]
    BY DEF Typed, TypeOK
<1>1. CASE UNCHANGED batch
    BY <1>1 DEF NoneLaunched
<1>2. ASSUME NEW at, batch' = Deactivated(at) PROVE NoneLaunched
    BY <1>0, <1>2 DEF Deactivated, NoneLaunched, BatchRow
<1>3. CASE LifecycleStep
    BY <1>1, <1>2, <1>3 DEF LifecycleStep, Create, Activate, CloseBegin, CloseCommit, Finalize,
        AutoClose, Cancel, LecturerGivesUp, qrVars
<1>4. CASE StudentStep
    BY <1>1, <1>4 DEF StudentStep, GeofenceBegin, GeofenceCommit, StartBegin, StartCommit,
        FaceBegin, FaceLockStatement, FaceRecord, CoreCheckIn, CheckIn, Abandon, Begin,
        OnlyCalls, qrVars
<1>5. CASE DecisionStep
    BY <1>1, <1>5 DEF DecisionStep, Waive, ManualSet, Review, qrVars
<1>6. CASE QrStep
    <2>1. CASE \E b \in Batches : VoidBatch(b)
        <3>1. PICK b \in Batches : VoidBatch(b)
            BY <2>1
        <3>2. batch' = [batch EXCEPT ![b] = [@ EXCEPT !.voided = TRUE, !.status = "inactive"]]
            BY <1>0, <3>1 DEF VoidBatch, BatchRow
        <3>3. batch'[b].status # "active"
            BY <1>0, <3>2 DEF BatchRow
        <3> QED
            BY <1>0, <3>2, <3>3 DEF NoneLaunched
    <2>2. CASE \E b \in Batches : DeactivateBatch(b)
        BY <1>0, <2>2 DEF DeactivateBatch, NoneLaunched, BatchRow
    <2> QED
        BY <1>1, <1>6, <2>1, <2>2 DEF QrStep, LaunchBegin, ScanBegin, ScanCommit, ScanLost, OnlyScans
<1>7. CASE Tick \/ UNCHANGED vars
    BY <1>1, <1>7 DEF Tick, vars, qrVars
<1> QED
    BY <1>3, <1>4, <1>5, <1>6, <1>7 DEF Next

LEMMA LaunchOpens ==
    ASSUME Typed, BatchesSound, NEW c \in lecturerCalls, NEW b \in Batches, LaunchCommit(c, b)
    PROVE  /\ batch'[b].activatedAt = c.at
           /\ batch'[b].activatedAt \in Time /\ batch'[b].expiresAt \in Time
           /\ ~batch'[b].voided
           /\ \A other \in Batches \ {b} :
                 /\ batch'[other] = batch[other]
                 /\ batch[other].status = "active" => batch[other].expiresAt <= c.at
<1>1. batch \in [Batches -> BatchRow] /\ c.at \in Time /\ c.at \in Nat
    BY ScheduleAssumption DEF Typed, TypeOK, LecturerCall, Time
<1>2. Earlier(c.at + Validity, SchedEnd) \in Time
    <2>1. c.at + Validity \in Nat /\ SchedEnd \in Time
        BY <1>1, ScheduleAssumption DEF Time
    <2> QED
        BY <2>1, EarlierTyped
<1>3. batch' = [batch EXCEPT ![b] =
                   [status |-> "active", dynamic |-> c.kind = "dynamic",
                    activatedAt |-> c.at, voided |-> FALSE,
                    expiresAt |-> Earlier(c.at + Validity, SchedEnd)]]
    BY DEF LaunchCommit
<1>4. ASSUME NEW other \in Batches \ {b}, batch[other].status = "active"
      PROVE  batch[other].expiresAt <= c.at
    <2>1. batch[other].expiresAt \in Nat /\ ~(batch[other].expiresAt > c.at)
        BY <1>4 DEF LaunchCommit, Live, BatchesSound, Time
    <2> QED
        BY <1>1, <2>1
<1> QED
    BY <1>1, <1>2, <1>3, <1>4

LEMMA BatchesStep ==
    ASSUME Typed, BatchesSound, OneLiveBatch, [Next]_vars
    PROVE  BatchesSound' /\ OneLiveBatch'
<1>1. CASE NoneLaunched
    BY <1>1 DEF NoneLaunched, BatchesSound, OneLiveBatch
<1>2. CASE \E c \in lecturerCalls, b \in Batches : LaunchCommit(c, b)
    <2>1. PICK c \in lecturerCalls, b \in Batches : LaunchCommit(c, b)
        BY <1>2
    <2>2. BatchesSound'
        BY <2>1, LaunchOpens DEF BatchesSound
    <2>3. OneLiveBatch'
        BY <2>1, LaunchOpens DEF OneLiveBatch
    <2> QED
        BY <2>2, <2>3
<1> QED
    BY <1>1, <1>2, BatchMoves

LEMMA AlwaysSound == Spec => [](Typed /\ BatchesSound /\ OneLiveBatch)
<1>1. Init => BatchesSound /\ OneLiveBatch
    BY DEF Init, NoBatch, BatchesSound, OneLiveBatch
<1> QED
    BY <1>1, AlwaysTyped, BatchesStep, PTL DEF Spec

\* Two launches whose clocks were read in one order and whose transactions
\* committed in the other still cannot produce batches with overlapping
\* lifetimes, for any number of batches and of launches in flight.
THEOREM BatchesDoNotOverlap == Spec => []OneLiveBatch
BY AlwaysSound, PTL

\* A scan is accepted only while the session runs and its batch is still
\* open, whatever was withdrawn since the scan was classified.
THEOREM ScansOnOpenBatches == Spec => ScansLandOpen
<1> DEFINE Lands ==
        \A s \in Students, b \in Batches : b \in accepted'[s] \ accepted[s] =>
          /\ attempt[s].status = "checked_in"
          /\ session.status = "active" /\ now < SchedEnd
          /\ batch[b].status = "active" /\ ~batch[b].voided
          /\ batch[b].dynamic \/ now < batch[b].expiresAt
<1>1. ASSUME Typed, BatchesSound, [Next]_vars
      PROVE  Lands
    <2>1. CASE UNCHANGED accepted
        BY <2>1
    <2>2. CASE \E scan \in scans : ScanCommit(scan)
        <3>1. PICK scan \in scans : ScanCommit(scan)
            BY <2>2
        <3>2. /\ scan.student \in Students /\ scan.batch \in Batches
              /\ accepted \in [Students -> SUBSET Batches]
            BY <1>1 DEF Typed, TypeOK, Scan
        <3> SUFFICES ASSUME NEW s \in Students, NEW b \in Batches, b \in accepted'[s] \ accepted[s]
                     PROVE  /\ attempt[s].status = "checked_in"
                            /\ session.status = "active" /\ now < SchedEnd
                            /\ batch[b].status = "active" /\ ~batch[b].voided
                            /\ batch[b].dynamic \/ now < batch[b].expiresAt
            OBVIOUS
        <3>3. s = scan.student /\ b = scan.batch /\ ScanVerdict(scan)
            BY <3>1, <3>2 DEF ScanCommit
        <3> QED
            BY <1>1, <3>1, <3>2, <3>3 DEF ScanCommit, ScanVerdict, BatchOpen, BatchesSound
    <2>3. CASE QrStep
        BY <2>1, <2>2, <2>3 DEF QrStep, LaunchBegin, LaunchCommit, VoidBatch, DeactivateBatch,
            OnlyBatches, ScanBegin, ScanLost
    <2>4. CASE LifecycleStep
        BY <2>1, <2>4 DEF LifecycleStep, Create, Activate, CloseBegin, CloseCommit, Finalize,
            AutoClose, Cancel, LecturerGivesUp, qrVars
    <2>5. CASE StudentStep
        BY <2>1, <2>5 DEF StudentStep, GeofenceBegin, GeofenceCommit, StartBegin, StartCommit,
            FaceBegin, FaceLockStatement, FaceRecord, CoreCheckIn, CheckIn, Abandon, Begin,
            OnlyCalls, qrVars
    <2>6. CASE DecisionStep
        BY <2>1, <2>6 DEF DecisionStep, Waive, ManualSet, Review, qrVars
    <2>7. CASE Tick \/ UNCHANGED vars
        BY <2>1, <2>7 DEF Tick, vars, qrVars
    <2> QED
        BY <1>1, <2>3, <2>4, <2>5, <2>6, <2>7 DEF Next
<1> HIDE DEF Lands
<1>2. Typed /\ BatchesSound /\ [Next]_vars => [Lands]_vars
    BY <1>1
<1>3. Spec => [][Lands]_vars
    BY <1>2, AlwaysSound, PTL DEF Spec
<1> QED
    BY <1>3 DEF ScansLandOpen, Lands

-----------------------------------------------------------------------------
(* The abstract ledger.                                                    *)

LEMMA LedgerInitially == Init => Ledger!LedgerInit
BY DEF Init, NoSession, NoRecord, Ledger!LedgerInit, Ledger!NoEntry

\* A close, by whoever asks for it, is the ledger's Close: the verdicts are
\* those finalization computes, one for every student.
LEMMA FinalizeRefines ==
    ASSUME Typed, session.status = "active", NEW at \in Time, Finalize(at),
           lecturerCalls' \subseteq LecturerCall
    PROVE  Ledger!Close
<1> DEFINE verdict == [s \in Students |->
                          DecideFinalAttendance(attempt'[s].initial, RequiredBatches(s)', accepted[s])]
<1>1. verdict \in [Students -> FinalStatuses]
    <2>1. attempt' \in [Students -> AttemptRow]
        BY FinalizeTyped DEF Typed, TypeOK
    <2> QED
        BY <2>1 DEF DecideFinalAttendance, FinalStatuses, AttemptRow, InitialStatuses
<1>2. record' = [s \in Students |->
                    IF KeepsRecord(s) THEN record[s]
                    ELSE [source |-> "automatic", status |-> verdict[s]]]
    BY DEF Finalize
<1> HIDE DEF verdict
<1>3. record' = [s \in Students |->
                    IF s \in roster /\ record[s].source # "manual"
                    THEN [status |-> verdict[s], source |-> "automatic"]
                    ELSE record[s]]
    BY <1>2 DEF KeepsRecord
<1>4. session'.status = "closed" /\ roster' = roster
    BY DEF Finalize, Typed, TypeOK, SessionRow
<1> QED
    BY <1>1, <1>3, <1>4 DEF Ledger!Close

LEMMA LedgerStutters ==
    ASSUME UNCHANGED <<session, roster, record>>
    PROVE  UNCHANGED Ledger!ledgerVars
BY DEF Ledger!ledgerVars

LEMMA LifecycleRefines ==
    ASSUME Typed, LifecycleStep
    PROVE  Ledger!LedgerNext \/ UNCHANGED Ledger!ledgerVars
<1>1. CASE \E want \in Requests, enrolled \in Rosters : Create(want, enrolled)
    <2>1. PICK want \in Requests, enrolled \in Rosters : Create(want, enrolled)
        BY <1>1
    <2>2. session'.status = "scheduled" /\ roster' = enrolled /\ record' = record
        BY <2>1 DEF Create, NoSession, decisionVars
    <2>3. Ledger!Schedule
        BY <2>1, <2>2, ChoiceAssumption DEF Create, Ledger!Schedule
    <2> QED
        BY <2>3 DEF Ledger!LedgerNext
<1>2. CASE Activate
    <2>1. session'.status = "active"
        BY <1>2 DEF Activate, Typed, TypeOK, SessionRow
    <2>2. Ledger!Open
        BY <1>2, <2>1 DEF Activate, decisionVars, Ledger!Open
    <2> QED
        BY <2>2 DEF Ledger!LedgerNext
<1>3. CASE \E c \in lecturerCalls : CloseCommit(c)
    <2>1. PICK c \in lecturerCalls : CloseCommit(c)
        BY <1>3
    <2>2. c.at \in Time /\ lecturerCalls' \subseteq LecturerCall
        BY <2>1 DEF CloseCommit, Typed, TypeOK, LecturerCall
    <2> QED
        BY <2>1, <2>2, FinalizeRefines DEF CloseCommit, Ledger!LedgerNext
<1>4. CASE AutoClose
    <2>1. now \in Time /\ lecturerCalls' \subseteq LecturerCall
        BY <1>4 DEF AutoClose, Typed, TypeOK
    <2> QED
        BY <1>4, <2>1, FinalizeRefines DEF AutoClose, Ledger!LedgerNext
<1>5. CASE Cancel
    <2>1. session'.status = "cancelled"
        BY <1>5 DEF Cancel, Typed, TypeOK, SessionRow
    <2>2. Ledger!CallOff
        BY <1>5, <2>1 DEF Cancel, NotEnded, decisionVars, Ledger!CallOff
    <2> QED
        BY <2>2 DEF Ledger!LedgerNext
<1>6. CASE CloseBegin \/ \E c \in lecturerCalls : LecturerGivesUp(c)
    BY <1>6, LedgerStutters DEF CloseBegin, LecturerGivesUp, sessionVars, decisionVars
<1> QED
    BY <1>1, <1>2, <1>3, <1>4, <1>5, <1>6 DEF LifecycleStep

LEMMA DecisionRefines ==
    ASSUME Typed, DecisionStep
    PROVE  Ledger!LedgerNext \/ UNCHANGED Ledger!ledgerVars
<1>1. ASSUME NEW s \in Students, NEW status \in ManualStatuses, SetStatus(s, status),
             UNCHANGED <<session, roster>>
      PROVE  Ledger!LedgerNext
    <2>1. Ledger!Decide(s)
        BY <1>1, ChoiceAssumption DEF SetStatus, Ledger!Decide
    <2> QED
        BY <2>1 DEF Ledger!LedgerNext
<1>2. CASE Waive
    BY <1>2, LedgerStutters DEF Waive, sessionVars
<1> QED
    BY <1>1, <1>2 DEF DecisionStep, ManualSet, Review, sessionVars

\* Every step of the system is a step of the ledger, or invisible to it.
LEMMA LedgerStep ==
    ASSUME Typed, [Next]_vars
    PROVE  [Ledger!LedgerNext]_(Ledger!ledgerVars)
<1>1. CASE StudentStep
    BY <1>1, LedgerStutters DEF StudentStep, GeofenceBegin, GeofenceCommit, StartBegin, StartCommit,
        FaceBegin, FaceLockStatement, FaceRecord, CoreCheckIn, CheckIn, Abandon, Begin,
        OnlyCalls, sessionVars, decisionVars
<1>2. CASE QrStep
    BY <1>2, LedgerStutters DEF QrStep, LaunchBegin, LaunchCommit, VoidBatch, DeactivateBatch,
        OnlyBatches, ScanBegin, ScanCommit, ScanLost, OnlyScans, sessionVars, decisionVars
<1>3. CASE Tick \/ UNCHANGED vars
    BY <1>3, LedgerStutters DEF Tick, vars, sessionVars, decisionVars
<1> QED
    BY <1>1, <1>2, <1>3, LifecycleRefines, DecisionRefines DEF Next

\* The lifecycle, with its clock, its evidence and its requests in flight,
\* implements the ledger: automatic records appear once, in the close, for the
\* whole roster; manual ones stand; nothing is recorded after a cancellation.
THEOREM LedgerImplemented == Spec => LedgerKept
<1>1. Typed /\ [Next]_vars => [Ledger!LedgerNext]_(Ledger!ledgerVars)
    BY LedgerStep
<1> QED
    BY <1>1, LedgerInitially, AlwaysTyped, PTL DEF Spec, LedgerKept, Ledger!LedgerSpec

-----------------------------------------------------------------------------
(* The close.                                                              *)

\* What stays in progress after the reconciliation lacks a required step, or
\* passed it only after the recorded closing time.
LEMMA ReconciledLeaves ==
    ASSUME Typed, NEW at \in Time, NEW s \in Students, Reconciled(at)[s].status = "in_progress"
    PROVE  \E step \in {"geofence", "face"} :
              /\ step = "geofence" => ~waived
              /\ step = "face" => session.face
              /\ passed[s][step] = NoTime \/ passed[s][step] > at
<1> DEFINE required == RequiredSteps(session.face, waived)
<1>1. ~Earned(required, passed[s], at)
    BY DEF Reconciled, CheckedIn, Typed, TypeOK, AttemptRow
<1>2. PICK step \in required : ~CountsBy(passed[s][step], at)
    BY <1>1 DEF Earned
<1>3. step \in Steps /\ (step = "geofence" => ~waived) /\ (step = "face" => session.face)
    BY <1>2 DEF RequiredSteps, Steps
<1>4. passed[s][step] = NoTime \/ passed[s][step] > at
    <2>1. passed[s][step] \in Stamp
        BY <1>3 DEF Typed, TypeOK
    <2> QED
        BY <1>2, <2>1, ScheduleAssumption DEF CountsBy, Stamp, Time
<1> QED
    BY <1>3, <1>4 DEF Steps

\* Whoever closes the session, and however long the close waited for its
\* lock, an attempt complete by the recorded time does not stay open.
THEOREM CloseLeavesNobodyBehind == Spec => NobodyLeftBehind
<1> DEFINE Left ==
        ~Ended /\ Ended' =>
          \A s \in Students : attempt'[s].status = "in_progress" =>
              \E step \in {"geofence", "face"} :
                  /\ step = "geofence" => ~waived
                  /\ step = "face" => session.face
                  /\ passed[s][step] = NoTime \/ passed[s][step] > session'.closedAt
<1>1. ASSUME Typed, [Next]_vars
      PROVE  Left
    <2>0. session \in SessionRow
        BY <1>1 DEF Typed, TypeOK
    <2>1. ASSUME NEW at \in Time, Finalize(at) PROVE Left
        <3>1. session'.closedAt = at /\ attempt' = Reconciled(at)
            BY <2>0, <2>1 DEF Finalize, SessionRow
        <3> QED
            BY <1>1, <3>1, ReconciledLeaves
    <2>2. CASE session'.status = session.status
        BY <2>2 DEF Ended
    <2>3. CASE LifecycleStep
        <3>1. CASE \E c \in lecturerCalls : CloseCommit(c)
            BY <1>1, <2>1, <3>1 DEF CloseCommit, Typed, TypeOK, LecturerCall
        <3>2. CASE AutoClose
            BY <1>1, <2>1, <3>2 DEF AutoClose, Typed, TypeOK
        <3>3. CASE \E want \in Requests, enrolled \in Rosters : Create(want, enrolled)
            BY <3>3 DEF Create, NoSession, Ended
        <3>4. CASE Activate \/ Cancel
            BY <2>0, <3>4 DEF Activate, Cancel, SessionRow, Ended
        <3>5. CASE CloseBegin \/ \E c \in lecturerCalls : LecturerGivesUp(c)
            BY <2>2, <3>5 DEF CloseBegin, LecturerGivesUp, sessionVars
        <3> QED
            BY <2>3, <3>1, <3>2, <3>3, <3>4, <3>5 DEF LifecycleStep
    <2>4. CASE StudentStep
        BY <2>2, <2>4 DEF StudentStep, GeofenceBegin, GeofenceCommit, StartBegin, StartCommit,
            FaceBegin, FaceLockStatement, FaceRecord, CoreCheckIn, CheckIn, Abandon, Begin,
            OnlyCalls, sessionVars
    <2>5. CASE DecisionStep
        BY <2>2, <2>5 DEF DecisionStep, Waive, ManualSet, Review, sessionVars
    <2>6. CASE QrStep
        BY <2>2, <2>6 DEF QrStep, LaunchBegin, LaunchCommit, VoidBatch, DeactivateBatch,
            OnlyBatches, ScanBegin, ScanCommit, ScanLost, OnlyScans, sessionVars
    <2>7. CASE Tick \/ UNCHANGED vars
        BY <2>2, <2>7 DEF Tick, vars, sessionVars
    <2> QED
        BY <1>1, <2>3, <2>4, <2>5, <2>6, <2>7 DEF Next
<1> HIDE DEF Left
<1>2. Typed /\ [Next]_vars => [Left]_vars
    BY <1>1
<1>3. Spec => [][Left]_vars
    BY <1>2, AlwaysTyped, PTL DEF Spec
<1> QED
    BY <1>3 DEF NobodyLeftBehind, Left

-----------------------------------------------------------------------------
(* Evidence.  What one step may do to the passes and to the attempt of a   *)
(* student, whatever requests are in flight.                               *)

\* The session was started: from here on its window and steps do not change.
PastActivation == session.status \notin {"none", "scheduled"}

InWindow(t) == t \in Time /\ session.opens <= t /\ t < session.closes

SameWindow ==
    /\ session'.face = session.face /\ session'.opens = session.opens
    /\ session'.closes = session.closes /\ session'.late = session.late

LEMMA SessionMoves ==
    ASSUME Typed, [Next]_vars
    PROVE  \/ session.status = "none" /\ \E want \in Requests, enrolled \in Rosters : Create(want, enrolled)
           \/ session.status = "scheduled" /\ Activate
           \/ SameWindow /\ (PastActivation => PastActivation')
<1> DEFINE Kept == SameWindow /\ (PastActivation => PastActivation')
<1>0. session \in SessionRow
    BY DEF Typed, TypeOK
<1>1. CASE UNCHANGED session
    BY <1>1 DEF SameWindow, PastActivation
<1>2. ASSUME NEW at, Finalize(at) PROVE Kept
    BY <1>0, <1>2 DEF Finalize, SessionRow, SameWindow, PastActivation
<1>3. CASE Cancel
    BY <1>0, <1>3 DEF Cancel, SessionRow, SameWindow, PastActivation
<1>4. CASE LifecycleStep
    BY <1>1, <1>2, <1>3, <1>4 DEF LifecycleStep, Create, Activate, CloseBegin, CloseCommit,
        AutoClose, LecturerGivesUp, sessionVars
<1>5. CASE StudentStep
    BY <1>1, <1>5 DEF StudentStep, GeofenceBegin, GeofenceCommit, StartBegin, StartCommit,
        FaceBegin, FaceLockStatement, FaceRecord, CoreCheckIn, CheckIn, Abandon, Begin,
        OnlyCalls, sessionVars
<1>6. CASE DecisionStep
    BY <1>1, <1>6 DEF DecisionStep, Waive, ManualSet, Review, sessionVars
<1>7. CASE QrStep
    BY <1>1, <1>7 DEF QrStep, LaunchBegin, LaunchCommit, VoidBatch, DeactivateBatch,
        OnlyBatches, ScanBegin, ScanCommit, ScanLost, OnlyScans, sessionVars
<1>8. CASE Tick \/ UNCHANGED vars
    BY <1>1, <1>8 DEF Tick, vars, sessionVars
<1> QED
    BY <1>4, <1>5, <1>6, <1>7, <1>8 DEF Next

\* A pass is recorded for an attempt that is not over, at an instant inside
\* the window, and only a face pass may come after the end of the session.
Passes(s, step) ==
    /\ attempt[s].status \in {"none", "in_progress"}
    /\ attempt'[s].status # "none"
    /\ PastActivation /\ passed'[s][step] # NoTime /\ InWindow(passed'[s][step])
    /\ UNCHANGED <<session, waived>>
    /\ step = "geofence" => session.status = "active"
    /\ step = "face" => session.face /\ passed[s][step] = NoTime

\* The row an attempt in progress continues from: its own, or a new one.
Continues(s, row) ==
    /\ row \in AttemptRow
    /\ row.status = "in_progress"
    /\ \/ row = attempt[s]
       \/ /\ attempt[s].status = "none"
          /\ session.status = "active"
          /\ InWindow(row.startedAt)
          /\ row.initial = "none"

Opens(s, row) ==
    /\ Continues(s, row)
    /\ attempt'[s] = row
    /\ session.status = "active"
    /\ UNCHANGED <<session, waived>>

Fails(s, row, reason) ==
    /\ Continues(s, row)
    /\ reason \in Reasons
    /\ attempt'[s] = FailedAttempt(row, reason)
    /\ UNCHANGED <<session, waived>>

\* A check-in rests on the passes recorded by the end of the step.
ChecksIn(s, row, bound) ==
    LET required == RequiredSteps(session.face, waived)
    IN  /\ Continues(s, row)
        /\ Earned(required, passed'[s], bound)
        /\ attempt'[s] = CheckedIn(row, required, passed'[s], session.late)
        /\ UNCHANGED waived
        /\ \/ UNCHANGED session /\ bound = session.closedAt
           \/ session.status = "active" /\ Finalize(bound)

Reopens(s) ==
    /\ Waive
    /\ Reopenable(s)
    /\ attempt'[s] = [attempt[s] EXCEPT !.status = "in_progress", !.reason = "none"]

Writes(s) ==
    \/ UNCHANGED attempt[s]
    \/ \E row : Opens(s, row)
    \/ \E row, reason : Fails(s, row, reason)
    \/ \E row, bound : ChecksIn(s, row, bound)
    \/ Reopens(s)

LEMMA TryCheckInWrites ==
    ASSUME NEW s \in Students, NEW row, Continues(s, row),
           attempt'[s] = TryCheckIn(row, passed'[s]),
           row = attempt[s] \/ session.status = "active",
           UNCHANGED <<session, waived>>
    PROVE  Writes(s)
<1>1. CASE Earned(RequiredSteps(session.face, waived), passed'[s], session.closedAt)
    <2>1. ChecksIn(s, row, session.closedAt)
        BY <1>1 DEF ChecksIn, TryCheckIn, Continues
    <2> QED
        BY <2>1 DEF Writes
<1>2. CASE ~Earned(RequiredSteps(session.face, waived), passed'[s], session.closedAt)
    <2>1. attempt'[s] = row
        BY <1>2 DEF TryCheckIn
    <2>2. row = attempt[s] \/ Opens(s, row)
        BY <2>1 DEF Opens
    <2> QED
        BY <2>1, <2>2 DEF Writes
<1> QED
    BY <1>1, <1>2

LEMMA StartedContinues ==
    ASSUME Typed, NEW c \in calls, Eligible(c), StartedAttempt(c).status = "in_progress"
    PROVE  /\ Continues(c.student, StartedAttempt(c))
           /\ session.status = "active" /\ PastActivation /\ InWindow(c.at)
           /\ attempt[c.student].status \in {"none", "in_progress"}
<1>1. c.student \in Students /\ c.at \in Time /\ StartedAttempt(c) \in AttemptRow
    BY StartedTyped DEF Typed, TypeOK, StudentCall
<1>2. session.status = "active" /\ PastActivation /\ InWindow(c.at)
    BY <1>1 DEF Eligible, WindowOpen, PastActivation, InWindow
<1>3. CASE attempt[c.student].status = "none"
    BY <1>1, <1>2, <1>3 DEF StartedAttempt, NoAttempt, Continues, InWindow
<1>4. CASE attempt[c.student].status # "none"
    BY <1>1, <1>2, <1>4 DEF StartedAttempt, Continues
<1> QED
    BY <1>2, <1>3, <1>4

LEMMA GeofenceWrites ==
    ASSUME Typed, NEW c \in calls, NEW reading \in Readings, GeofenceCommit(c, reading),
           NEW s \in Students
    PROVE  /\ Writes(s)
           /\ \A step \in Steps : passed'[s][step] = passed[s][step] \/ Passes(s, step)
<1> DEFINE number == tries[c.student]["geofence"] + 1
           result == FinalizeLastRetry(reading, number, MaxGeofenceAttempts)
           pass   == IF result = "passed"
                     THEN [passed[c.student] EXCEPT !["geofence"] = EarliestPass(@, c.at)]
                     ELSE passed[c.student]
<1>1. /\ c.student \in Students /\ c.at \in Time
      /\ attempt \in [Students -> AttemptRow]
      /\ passed \in [Students -> [Steps -> Stamp]]
    BY DEF Typed, TypeOK, StudentCall
<1>2. /\ Continues(c.student, StartedAttempt(c))
      /\ session.status = "active" /\ PastActivation /\ InWindow(c.at)
      /\ attempt[c.student].status \in {"none", "in_progress"}
    BY StartedContinues DEF GeofenceCommit
<1>3. /\ UNCHANGED <<session, waived>>
      /\ passed' = [passed EXCEPT ![c.student] = pass]
      /\ attempt' = [attempt EXCEPT ![c.student] =
                        CASE result = "passed"         -> TryCheckIn(StartedAttempt(c), pass)
                          [] result = "retry_required" -> StartedAttempt(c)
                          [] OTHER -> FailedAttempt(StartedAttempt(c), result)]
    BY DEF GeofenceCommit, sessionVars, decisionVars
<1>4. result \in Readings \cup {"ATTEMPT_LIMIT_REACHED"}
    BY DEF FinalizeLastRetry
<1>5. passed'[c.student] = pass
    BY <1>1, <1>3
<1> HIDE DEF result, number
<1>6. CASE s # c.student
    BY <1>1, <1>3, <1>6 DEF Writes
<1>7. CASE s = c.student
    <2>1. Writes(s)
        <3>1. CASE result = "passed"
            BY <1>1, <1>2, <1>3, <1>5, <1>7, <3>1, TryCheckInWrites
        <3>2. CASE result = "retry_required"
            <4>1. Opens(s, StartedAttempt(c))
                BY <1>1, <1>2, <1>3, <1>7, <3>2 DEF Opens
            <4> QED
                BY <4>1 DEF Writes
        <3>3. CASE result \in {"OUTSIDE_GEOFENCE", "MOCK_LOCATION_DETECTED", "ATTEMPT_LIMIT_REACHED"}
            <4>1. Fails(s, StartedAttempt(c), result)
                BY <1>1, <1>2, <1>3, <1>7, <3>3 DEF Fails, Reasons
            <4> QED
                BY <4>1 DEF Writes
        <3> QED
            BY <1>4, <3>1, <3>2, <3>3 DEF Readings
    <2>2. ASSUME NEW step \in Steps, passed'[s][step] # passed[s][step]
          PROVE  Passes(s, step)
        <3>1. step = "geofence" /\ passed'[s][step] = EarliestPass(passed[s][step], c.at)
            BY <1>1, <1>5, <1>7, <2>2 DEF Steps
        <3>2. passed'[s][step] = c.at
            BY <2>2, <3>1 DEF EarliestPass, Earlier
        <3>3. attempt'[s].status # "none"
            <4>1. result = "passed"
                BY <1>1, <1>5, <1>7, <2>2
            <4>2. attempt'[s] = TryCheckIn(StartedAttempt(c), pass)
                BY <1>1, <1>3, <1>7, <4>1
            <4> HIDE DEF pass
            <4> QED
                BY <1>2, <4>2 DEF TryCheckIn, CheckedIn, Continues, AttemptRow
        <3> QED
            BY <1>1, <1>2, <1>3, <1>7, <2>2, <3>1, <3>2, <3>3, NoTimeAssumption DEF Passes, Time
    <2> QED
        BY <2>1, <2>2
<1> QED
    BY <1>6, <1>7

LEMMA StartWrites ==
    ASSUME Typed, NEW c \in calls, StartCommit(c), NEW s \in Students
    PROVE  Writes(s)
<1>1. c.student \in Students /\ attempt \in [Students -> AttemptRow]
    BY DEF Typed, TypeOK, StudentCall
<1>2. /\ Continues(c.student, StartedAttempt(c))
      /\ session.status = "active"
    BY StartedContinues DEF StartCommit
<1>3. /\ UNCHANGED <<session, waived>>
      /\ passed' = passed
      /\ attempt' = [attempt EXCEPT ![c.student] =
                        TryCheckIn(StartedAttempt(c), passed[c.student])]
    BY DEF StartCommit, sessionVars, decisionVars
<1>4. CASE s # c.student
    BY <1>1, <1>3, <1>4 DEF Writes
<1>5. CASE s = c.student
    BY <1>1, <1>2, <1>3, <1>5, TryCheckInWrites
<1> QED
    BY <1>4, <1>5

LEMMA CheckInAttemptWrites ==
    ASSUME Typed, NEW t \in Students, CheckInAttempt(t), UNCHANGED <<session, waived, passed>>,
           NEW s \in Students
    PROVE  Writes(s)
<1>1. attempt \in [Students -> AttemptRow]
    BY DEF Typed, TypeOK
<1>2. attempt' = [attempt EXCEPT ![t] = TryCheckIn(attempt[t], passed[t])]
    BY DEF CheckInAttempt
<1>3. CASE s # t \/ attempt[t].status # "in_progress"
    BY <1>1, <1>2, <1>3 DEF Writes, TryCheckIn
<1>4. CASE s = t /\ attempt[t].status = "in_progress"
    <2>1. Continues(s, attempt[s])
        BY <1>1, <1>4 DEF Continues
    <2> QED
        BY <1>1, <1>2, <1>4, <2>1, TryCheckInWrites
<1> QED
    BY <1>3, <1>4

LEMMA FaceWrites ==
    ASSUME Typed, NEW c \in calls, NEW matched \in BOOLEAN, FaceRecord(c, matched),
           PastActivation, session.face, InWindow(c.at), NEW s \in Students
    PROVE  /\ Writes(s)
           /\ \A step \in Steps : passed'[s][step] = passed[s][step] \/ Passes(s, step)
<1>1. /\ c.student \in Students /\ c.at \in Time
      /\ attempt \in [Students -> AttemptRow]
      /\ passed \in [Students -> [Steps -> Stamp]]
    BY DEF Typed, TypeOK, StudentCall
<1>2. /\ UNCHANGED <<session, waived>>
      /\ attempt[c.student].status = "in_progress"
      /\ passed[c.student]["face"] = NoTime
    BY DEF FaceRecord, FaceAllowed, sessionVars, decisionVars
<1>3. Continues(c.student, attempt[c.student])
    BY <1>1, <1>2 DEF Continues
<1>4. CASE matched
    <2>1. passed' = [passed EXCEPT ![c.student]["face"] = c.at] /\ attempt' = attempt
        BY <1>4 DEF FaceRecord
    <2> QED
        BY <1>1, <1>2, <2>1, NoTimeAssumption DEF Writes, Passes, Steps, Time
<1>5. CASE ~matched
    <2> DEFINE number == tries[c.student]["face"] + 1
    <2>1. /\ passed' = passed
          /\ attempt' = [attempt EXCEPT ![c.student] =
                            IF CanRetry(number) THEN @
                            ELSE FailedAttempt(@, "FACE_ATTEMPT_LIMIT_REACHED")]
        BY <1>5 DEF FaceRecord
    <2>2. \/ attempt'[s] = attempt[s]
          \/ /\ s = c.student
             /\ attempt'[s] = FailedAttempt(attempt[s], "FACE_ATTEMPT_LIMIT_REACHED")
        BY <1>1, <2>1
    <2>3. s = c.student => Fails(s, attempt[s], "FACE_ATTEMPT_LIMIT_REACHED")
                           \/ attempt'[s] = attempt[s]
        BY <1>2, <1>3, <2>2 DEF Fails, Reasons
    <2> QED
        BY <2>1, <2>2, <2>3 DEF Writes
<1> QED
    BY <1>4, <1>5

\* A request of the face step that may still record was let in while the
\* window of a session that asks for the face was open.
FaceLetIn ==
    \A c \in calls : c.kind = "locking" /\ c.seen => PastActivation /\ session.face /\ InWindow(c.at)

EvidenceMoves ==
    \A s \in Students :
        /\ Writes(s)
        /\ \A step \in Steps : passed'[s][step] = passed[s][step] \/ Passes(s, step)

LEMMA EvidenceStep ==
    ASSUME Typed, FaceLetIn, [Next]_vars
    PROVE  EvidenceMoves
<1>1. CASE UNCHANGED <<attempt, passed>>
    BY <1>1 DEF EvidenceMoves, Writes
<1>2. ASSUME NEW at, session.status = "active", Finalize(at) PROVE EvidenceMoves
    <2>1. UNCHANGED <<waived, passed>> /\ attempt' = Reconciled(at)
        BY <1>2 DEF Finalize
    <2>2. ASSUME NEW s \in Students, attempt'[s] # attempt[s]
          PROVE  ChecksIn(s, attempt[s], at)
        BY <1>2, <2>1, <2>2 DEF Reconciled, ChecksIn, Continues, Typed, TypeOK
    <2> QED
        BY <2>1, <2>2 DEF EvidenceMoves, Writes
<1>3. CASE Waive
    <2>1. UNCHANGED passed
        BY <1>3 DEF Waive
    <2>2. ASSUME NEW s \in Students PROVE Writes(s)
        BY <1>3 DEF Waive, Writes, Reopens
    <2> QED
        BY <2>1, <2>2 DEF EvidenceMoves
<1>4. CASE \E c \in calls, reading \in Readings : GeofenceCommit(c, reading)
    BY <1>4, GeofenceWrites DEF EvidenceMoves
<1>5. CASE \E c \in calls : StartCommit(c)
    BY <1>5, StartWrites DEF EvidenceMoves, StartCommit
<1>6. CASE \E c \in calls, matched \in BOOLEAN : FaceRecord(c, matched)
    BY <1>6, FaceWrites DEF EvidenceMoves, FaceRecord, FaceLetIn
<1>7. ASSUME NEW t \in Students, CheckInAttempt(t), UNCHANGED <<session, waived, passed>>
      PROVE  EvidenceMoves
    BY <1>7, CheckInAttemptWrites DEF EvidenceMoves
<1>8. CASE \E c \in calls : CoreCheckIn(c)
    BY <1>7, <1>8 DEF CoreCheckIn, Typed, TypeOK, StudentCall, sessionVars, decisionVars
<1>9. CASE \E s \in Students : CheckIn(s)
    BY <1>7, <1>9 DEF CheckIn, sessionVars, decisionVars
<1>10. CASE LifecycleStep
    BY <1>1, <1>2, <1>10 DEF LifecycleStep, Create, Activate, CloseBegin, CloseCommit,
        AutoClose, Cancel, LecturerGivesUp, evidenceVars
<1>11. CASE StudentStep
    BY <1>1, <1>4, <1>5, <1>6, <1>8, <1>9, <1>11 DEF StudentStep, GeofenceBegin, StartBegin,
        FaceBegin, FaceLockStatement, Abandon, Begin, OnlyCalls, evidenceVars
<1>12. CASE DecisionStep
    BY <1>1, <1>3, <1>12 DEF DecisionStep, ManualSet, Review, evidenceVars
<1>13. CASE QrStep
    BY <1>1, <1>13 DEF QrStep, LaunchBegin, LaunchCommit, VoidBatch, DeactivateBatch,
        OnlyBatches, ScanBegin, ScanCommit, ScanLost, OnlyScans, evidenceVars
<1>14. CASE Tick \/ UNCHANGED vars
    BY <1>1, <1>14 DEF Tick, vars, evidenceVars
<1> QED
    BY <1>10, <1>11, <1>12, <1>13, <1>14 DEF Next

\* The first inductive invariant: whatever evidence there is was given inside
\* the window of a session that had been started.
EvidenceInWindow ==
    /\ \A s \in Students : attempt[s].status # "none" => PastActivation /\ InWindow(attempt[s].startedAt)
    /\ \A s \in Students, step \in Steps :
          passed[s][step] # NoTime => PastActivation /\ InWindow(passed[s][step])
    /\ FaceLetIn

LEMMA WritesStarted ==
    ASSUME Typed, EvidenceInWindow, NEW s \in Students, Writes(s), attempt'[s].status # "none"
    PROVE  PastActivation /\ InWindow(attempt'[s].startedAt)
<1>1. CASE UNCHANGED attempt[s]
    BY <1>1 DEF EvidenceInWindow
<1>2. ASSUME NEW row, Continues(s, row), attempt'[s].startedAt = row.startedAt
      PROVE  PastActivation /\ InWindow(attempt'[s].startedAt)
    BY <1>2 DEF Continues, EvidenceInWindow, PastActivation
<1>3. CASE \E row : Opens(s, row)
    BY <1>2, <1>3 DEF Opens
<1>4. CASE \E row, reason : Fails(s, row, reason)
    BY <1>2, <1>4 DEF Fails, FailedAttempt, Continues, AttemptRow
<1>5. CASE \E row, bound : ChecksIn(s, row, bound)
    BY <1>2, <1>5 DEF ChecksIn, CheckedIn, Continues, AttemptRow
<1>6. CASE Reopens(s)
    BY <1>6 DEF Reopens, Reopenable, EvidenceInWindow, Typed, TypeOK, AttemptRow
<1> QED
    BY <1>1, <1>3, <1>4, <1>5, <1>6 DEF Writes

LEMMA CallsLetIn ==
    ASSUME Typed, FaceLetIn, [Next]_vars, NEW c \in calls', c.kind = "locking", c.seen
    PROVE  PastActivation /\ session.face /\ InWindow(c.at)
<1>1. CASE calls' \subseteq calls
    BY <1>1 DEF FaceLetIn
<1>2. ASSUME NEW s \in Students, NEW kind \in {"geofence", "start", "inference"}, NEW seen,
             Begin(s, kind, seen)
      PROVE  PastActivation /\ session.face /\ InWindow(c.at)
    <2>1. c.kind = kind \/ c \in calls
        BY <1>2 DEF Begin, Join
    <2> QED
        BY <2>1 DEF FaceLetIn
<1>3. ASSUME NEW d \in calls, NEW kind \in {"locking", "face_passed"}, NEW seen, Stage(d, kind, seen),
             kind = "locking" => seen = FaceOpen(d.student, d.at)
      PROVE  PastActivation /\ session.face /\ InWindow(c.at)
    <2>1. d.at \in Time /\ d \in StudentCall
        BY DEF Typed, TypeOK, StudentCall
    <2>2. CASE c \in calls
        BY <2>2 DEF FaceLetIn
    <2>3. CASE c = [d EXCEPT !.kind = kind, !.seen = seen]
        <3>1. c.kind = kind /\ c.seen = seen /\ c.at = d.at
            BY <2>1, <2>3 DEF StudentCall
        <3> QED
            BY <1>3, <2>1, <3>1 DEF FaceOpen, WindowOpen, PastActivation, InWindow
    <2> QED
        BY <1>3, <2>2, <2>3 DEF Stage
<1>4. CASE LifecycleStep
    BY <1>1, <1>4 DEF LifecycleStep, Create, Activate, CloseBegin, CloseCommit, Finalize,
        AutoClose, Cancel, LecturerGivesUp, callVars
<1>5. CASE StudentStep
    <2>1. CASE (\E s \in Students : GeofenceBegin(s) \/ StartBegin(s) \/ FaceBegin(s))
        BY <1>2, <2>1 DEF GeofenceBegin, StartBegin, FaceBegin
    <2>2. CASE \E d \in calls : FaceLockStatement(d)
        BY <1>3, <2>2 DEF FaceLockStatement
    <2>3. CASE \E d \in calls, matched \in BOOLEAN : FaceRecord(d, matched)
        BY <1>1, <1>3, <2>3 DEF FaceRecord, Leave
    <2> QED
        BY <1>1, <1>5, <2>1, <2>2, <2>3 DEF StudentStep, GeofenceCommit, StartCommit, CoreCheckIn,
            CheckIn, Abandon, Leave, callVars
<1>6. CASE DecisionStep
    BY <1>1, <1>6 DEF DecisionStep, Waive, ManualSet, Review, callVars
<1>7. CASE QrStep
    BY <1>1, <1>7 DEF QrStep, LaunchBegin, LaunchCommit, VoidBatch, DeactivateBatch,
        OnlyBatches, ScanBegin, ScanCommit, ScanLost, OnlyScans
<1>8. CASE Tick \/ UNCHANGED vars
    BY <1>1, <1>8 DEF Tick, vars, callVars
<1> QED
    BY <1>4, <1>5, <1>6, <1>7, <1>8 DEF Next

LEMMA EvidenceInWindowStep ==
    ASSUME Typed, EvidenceInWindow, [Next]_vars
    PROVE  EvidenceInWindow'
<1>1. CASE ~PastActivation /\ UNCHANGED <<attempt, passed, calls>>
    BY <1>1 DEF EvidenceInWindow, FaceLetIn
<1>2. CASE SameWindow /\ (PastActivation => PastActivation')
    <2>1. EvidenceMoves
        BY EvidenceStep DEF EvidenceInWindow
    <2>2. ASSUME NEW s \in Students, attempt'[s].status # "none"
          PROVE  PastActivation' /\ InWindow(attempt[s].startedAt)'
        <3>1. PastActivation /\ InWindow(attempt'[s].startedAt)
            BY <2>1, <2>2, WritesStarted DEF EvidenceMoves
        <3> QED
            BY <1>2, <3>1 DEF InWindow, SameWindow, Time
    <2>3. ASSUME NEW s \in Students, NEW step \in Steps, passed'[s][step] # NoTime
          PROVE  PastActivation' /\ InWindow(passed[s][step])'
        <3>1. PastActivation /\ InWindow(passed'[s][step])
            BY <2>1, <2>3 DEF EvidenceMoves, EvidenceInWindow, Passes
        <3> QED
            BY <1>2, <3>1 DEF InWindow, SameWindow, Time
    <2>4. FaceLetIn'
        BY <1>2, CallsLetIn DEF EvidenceInWindow, FaceLetIn, InWindow, SameWindow, Time
    <2> QED
        BY <2>2, <2>3, <2>4 DEF EvidenceInWindow
<1> QED
    BY <1>1, <1>2, SessionMoves DEF PastActivation, Create, Activate, evidenceVars, callVars

-----------------------------------------------------------------------------
(* Check-in times.                                                         *)

\* The time of a check-in is that of its last required pass, or of the start.
LEMMA CheckInTimeIsLast ==
    ASSUME NEW required \in SUBSET Steps, NEW pass \in [Steps -> Stamp], NEW startedAt,
           NEW bound, Earned(required, pass, bound)
    PROVE  LET at == CheckInTime(required, pass, startedAt)
           IN  /\ \A step \in required : pass[step] \in Time /\ pass[step] <= at
               /\ at = startedAt \/ \E step \in required : at = pass[step]
<1>1. \A step \in required : pass[step] \in Time /\ pass[step] \in Nat
    BY ScheduleAssumption DEF Earned, CountsBy, Stamp, Time
<1>2. CASE required = {}
    BY <1>2 DEF CheckInTime
<1>3. CASE required = Steps
    BY <1>1, <1>3 DEF CheckInTime, Later, Steps
<1>4. CASE required # {} /\ required # Steps
    <2>1. PICK step \in Steps : required = {step}
        BY <1>4 DEF Steps
    <2>2. CheckInTime(required, pass, startedAt) = pass[step]
        BY <1>4, <2>1 DEF CheckInTime
    <2> QED
        BY <1>1, <2>1, <2>2
<1> QED
    BY <1>2, <1>3, <1>4

\* What CheckInsEarned says of one attempt, and that its time is an instant.
EarnedBy(row, pass) ==
    /\ \A step \in RequiredSteps(session.face, waived) :
          pass[step] # NoTime /\ pass[step] <= row.checkedInAt
    /\ row.checkedInAt \in {row.startedAt, pass["geofence"], pass["face"]}
    /\ InWindow(row.checkedInAt)
    /\ (row.initial = "late_checked_in") <=> (row.checkedInAt > session.late)

\* The second: the inductive form of CheckInsEarned.
AllEarned ==
    \A s \in Students : attempt[s].status = "checked_in" => EarnedBy(attempt[s], passed[s])

LEMMA ChecksInEarned ==
    ASSUME Typed, NEW row \in AttemptRow, NEW pass \in [Steps -> Stamp], NEW bound,
           Earned(RequiredSteps(session.face, waived), pass, bound),
           InWindow(row.startedAt),
           \A step \in Steps : pass[step] # NoTime => InWindow(pass[step])
    PROVE  EarnedBy(CheckedIn(row, RequiredSteps(session.face, waived), pass, session.late), pass)
<1> DEFINE required == RequiredSteps(session.face, waived)
           at       == CheckInTime(required, pass, row.startedAt)
           new      == CheckedIn(row, required, pass, session.late)
<1>1. required \in SUBSET Steps
    BY DEF RequiredSteps
<1>2. /\ \A step \in required : pass[step] \in Time /\ pass[step] <= at
      /\ at = row.startedAt \/ \E step \in required : at = pass[step]
    BY <1>1, CheckInTimeIsLast
<1>3. /\ new.checkedInAt = at /\ new.startedAt = row.startedAt
      /\ new.initial = InitialCheckInStatus(at, session.late)
    BY DEF CheckedIn, AttemptRow
<1> HIDE DEF at, new
<1>4. InWindow(at)
    BY <1>1, <1>2, NoTimeAssumption DEF Time
<1>5. at \in {row.startedAt, pass["geofence"], pass["face"]}
    BY <1>1, <1>2 DEF Steps
<1>6. \A step \in required : pass[step] # NoTime
    BY <1>2, NoTimeAssumption DEF Time
<1> HIDE DEF required
<1> QED
    BY <1>2, <1>3, <1>4, <1>5, <1>6 DEF EarnedBy, InitialCheckInStatus, InWindow, required, new

LEMMA WaivedStays ==
    ASSUME [Next]_vars, waived
    PROVE  waived'
<1>1. CASE LifecycleStep
    BY <1>1 DEF LifecycleStep, Create, Activate, CloseBegin, CloseCommit, Finalize,
        AutoClose, Cancel, LecturerGivesUp, decisionVars
<1>2. CASE StudentStep
    BY <1>2 DEF StudentStep, GeofenceBegin, GeofenceCommit, StartBegin, StartCommit,
        FaceBegin, FaceLockStatement, FaceRecord, CoreCheckIn, CheckIn, Abandon, Begin,
        OnlyCalls, decisionVars
<1>3. CASE DecisionStep
    BY <1>3 DEF DecisionStep, Waive, ManualSet, Review
<1>4. CASE QrStep
    BY <1>4 DEF QrStep, LaunchBegin, LaunchCommit, VoidBatch, DeactivateBatch,
        OnlyBatches, ScanBegin, ScanCommit, ScanLost, OnlyScans, decisionVars
<1>5. CASE Tick \/ UNCHANGED vars
    BY <1>5 DEF Tick, vars, decisionVars
<1> QED
    BY <1>1, <1>2, <1>3, <1>4, <1>5 DEF Next

LEMMA RequiredStep ==
    ASSUME NEW face, NEW off, NEW step
    PROVE  step \in RequiredSteps(face, off) <=> (step = "geofence" /\ ~off) \/ (step = "face" /\ face)
BY DEF RequiredSteps, Steps

LEMMA AllEarnedStep ==
    ASSUME Typed, EvidenceInWindow, AllEarned, [Next]_vars
    PROVE  AllEarned'
<1>1. Typed' /\ EvidenceMoves
    BY TypedStep, EvidenceStep DEF EvidenceInWindow
<1> SUFFICES ASSUME NEW s \in Students, attempt'[s].status = "checked_in"
             PROVE  EarnedBy(attempt[s], passed[s])'
    BY DEF AllEarned
<1>2. PastActivation
    BY <1>1, WritesStarted DEF EvidenceMoves
<1>3. SameWindow
    BY <1>2, SessionMoves DEF PastActivation
<1>4. \A step : step \in RequiredSteps(session.face, waived)' =>
                   step \in RequiredSteps(session.face, waived)
    <2>1. RequiredSteps(session.face, waived)' = RequiredSteps(session.face, waived')
        BY <1>3 DEF SameWindow
    <2> QED
        BY <2>1, WaivedStays, RequiredStep
<1>5. EarnedBy(attempt'[s], passed'[s])
    <2>1. CASE attempt[s].status = "checked_in"
        <3>1. attempt'[s] = attempt[s]
            BY <2>1, AttemptMoves DEF Moves, Reopenable
        <3>2. \A step \in Steps : passed'[s][step] = passed[s][step]
            BY <1>1, <2>1 DEF EvidenceMoves, Passes
        <3>3. EarnedBy(attempt[s], passed[s])
            BY <2>1 DEF AllEarned
        <3>4. /\ passed'[s]["geofence"] = passed[s]["geofence"]
              /\ passed'[s]["face"] = passed[s]["face"]
              /\ \A step \in RequiredSteps(session.face, waived) : passed'[s][step] = passed[s][step]
            BY <3>2 DEF Steps, RequiredSteps
        <3> QED
            BY <3>1, <3>3, <3>4 DEF EarnedBy
    <2>2. CASE attempt[s].status # "checked_in"
        <3>1. PICK row, bound : ChecksIn(s, row, bound)
            <4>1. attempt[s] \in AttemptRow /\ Writes(s)
                BY <1>1 DEF EvidenceMoves, Typed, TypeOK
            <4>2. ~\E row : Opens(s, row)
                BY DEF Opens, Continues
            <4>3. ~\E row, reason : Fails(s, row, reason)
                BY DEF Fails, Continues, FailedAttempt, AttemptRow
            <4>4. ~Reopens(s)
                BY <4>1 DEF Reopens, AttemptRow
            <4> QED
                BY <2>2, <4>1, <4>2, <4>3, <4>4 DEF Writes
        <3>2. row \in AttemptRow /\ passed'[s] \in [Steps -> Stamp]
            BY <1>1, <3>1 DEF ChecksIn, Continues, Typed, TypeOK
        <3>3. InWindow(attempt'[s].startedAt)
            BY <1>1, WritesStarted DEF EvidenceMoves
        <3>4. InWindow(row.startedAt)
            BY <3>1, <3>2, <3>3 DEF ChecksIn, CheckedIn, AttemptRow
        <3>5. \A step \in Steps : passed'[s][step] # NoTime => InWindow(passed'[s][step])
            BY <1>1 DEF EvidenceMoves, EvidenceInWindow, Passes
        <3> QED
            BY <3>1, <3>2, <3>4, <3>5, ChecksInEarned DEF ChecksIn
    <2> QED
        BY <2>1, <2>2
<1> QED
    BY <1>3, <1>4, <1>5 DEF EarnedBy, InWindow, SameWindow, Time

LEMMA AlwaysEarned == Spec => [](Typed /\ EvidenceInWindow /\ AllEarned)
<1>1. Init => EvidenceInWindow /\ AllEarned
    BY DEF Init, NoAttempt, EvidenceInWindow, FaceLetIn, AllEarned
<1> QED
    BY <1>1, AlwaysTyped, EvidenceInWindowStep, AllEarnedStep, PTL DEF Spec

\* A check-in rests on evidence of every required step, given by its own time
\* and inside the window, for any number of requests in flight: those that
\* read the session before it closed, and those that commit long after.
THEOREM CheckInsRestOnEvidence == Spec => []CheckInsEarned
<1>1. AllEarned => CheckInsEarned
    BY DEF AllEarned, EarnedBy, InWindow, CheckInsEarned
<1> QED
    BY <1>1, AlwaysEarned, PTL

-----------------------------------------------------------------------------
(* Records.                                                                *)

\* Two columns that tell the same thing agree, in each of the rows the
\* decision reads; a session that is not closed has no closing time.
RowsSound ==
    /\ \A s \in Students : attempt[s].status = "checked_in" <=> attempt[s].initial # "none"
    /\ \A b \in Batches : batch[b].status = "unused" <=> batch[b].activatedAt = NoTime
    /\ session.status # "closed" => session.closedAt = NoTime

LEMMA InitialsStep ==
    ASSUME Typed, RowsSound, NEW s \in Students, Writes(s)
    PROVE  attempt'[s].status = "checked_in" <=> attempt'[s].initial # "none"
<1>0. attempt[s] \in AttemptRow
    BY DEF Typed, TypeOK
<1>1. CASE UNCHANGED attempt[s]
    BY <1>1 DEF RowsSound
<1>2. ASSUME NEW row, Continues(s, row) PROVE row.initial = "none" /\ row \in AttemptRow
    BY <1>2 DEF Continues, RowsSound
<1>3. CASE \E row : Opens(s, row)
    BY <1>2, <1>3 DEF Opens, Continues
<1>4. CASE \E row, reason : Fails(s, row, reason)
    BY <1>2, <1>4 DEF Fails, FailedAttempt, AttemptRow
<1>5. CASE \E row, bound : ChecksIn(s, row, bound)
    BY <1>2, <1>5 DEF ChecksIn, CheckedIn, InitialCheckInStatus, AttemptRow
<1>6. CASE Reopens(s)
    BY <1>0, <1>6 DEF Reopens, Reopenable, RowsSound, AttemptRow
<1> QED
    BY <1>1, <1>3, <1>4, <1>5, <1>6 DEF Writes

LEMMA BatchRowsStep ==
    ASSUME Typed, RowsSound, [Next]_vars, NEW b \in Batches
    PROVE  batch'[b].status = "unused" <=> batch'[b].activatedAt = NoTime
<1>0. batch \in [Batches -> BatchRow]
    BY DEF Typed, TypeOK
<1>1. CASE batch'[b] = batch[b]
    BY <1>1 DEF RowsSound
<1>2. CASE \E c \in lecturerCalls, other \in Batches : LaunchCommit(c, other)
    <2>1. PICK c \in lecturerCalls, other \in Batches : LaunchCommit(c, other)
        BY <1>2
    <2>2. c.at \in Time /\ c.at # NoTime
        BY NoTimeAssumption DEF Typed, TypeOK, LecturerCall, Time
    <2> QED
        BY <1>0, <1>1, <2>1, <2>2 DEF LaunchCommit
<1>3. ASSUME NEW at, batch' = Deactivated(at) PROVE batch'[b].status = "unused" <=> batch'[b].activatedAt = NoTime
    BY <1>0, <1>3 DEF Deactivated, RowsSound, BatchRow
<1>4. CASE \E other \in Batches : VoidBatch(other)
    <2>1. PICK other \in Batches : VoidBatch(other)
        BY <1>4
    <2>2. batch' = [batch EXCEPT ![other] = [@ EXCEPT !.voided = TRUE, !.status = "inactive"]]
        BY <1>0, <2>1 DEF VoidBatch, BatchRow
    <2> QED
        BY <1>0, <1>1, <2>1, <2>2 DEF VoidBatch, RowsSound, BatchRow
<1>5. CASE \E other \in Batches : DeactivateBatch(other)
    BY <1>0, <1>1, <1>5 DEF DeactivateBatch, RowsSound, BatchRow
<1>6. CASE UNCHANGED batch
    BY <1>1, <1>6
<1>7. CASE LifecycleStep
    BY <1>3, <1>6, <1>7 DEF LifecycleStep, Create, Activate, CloseBegin, CloseCommit, Finalize,
        AutoClose, Cancel, LecturerGivesUp, qrVars
<1>8. CASE StudentStep
    BY <1>6, <1>8 DEF StudentStep, GeofenceBegin, GeofenceCommit, StartBegin, StartCommit,
        FaceBegin, FaceLockStatement, FaceRecord, CoreCheckIn, CheckIn, Abandon, Begin,
        OnlyCalls, qrVars
<1>9. CASE DecisionStep
    BY <1>6, <1>9 DEF DecisionStep, Waive, ManualSet, Review, qrVars
<1>10. CASE QrStep
    BY <1>2, <1>4, <1>5, <1>6, <1>10 DEF QrStep, LaunchBegin, ScanBegin, ScanCommit, ScanLost, OnlyScans
<1>11. CASE Tick \/ UNCHANGED vars
    BY <1>6, <1>11 DEF Tick, vars, qrVars
<1> QED
    BY <1>7, <1>8, <1>9, <1>10, <1>11 DEF Next

\* What the end of a session leaves for a step to do.  A close settles the
\* session: no step moves its row, its roster, its waiver or its scans again.
Settled == UNCHANGED <<session, roster, waived, accepted>>

LEMMA ClosingStep ==
    ASSUME Typed, [Next]_vars
    PROVE  \/ Ended /\ Settled
           \/ ~Ended /\ ~Ended' /\ (session.closedAt = NoTime => session'.closedAt = NoTime)
           \/ ~Ended /\ Ended' /\ \E at \in Time : Finalize(at)
<1> DEFINE Open == ~Ended /\ ~Ended' /\ (session.closedAt = NoTime => session'.closedAt = NoTime)
           Close == ~Ended /\ Ended' /\ \E at \in Time : Finalize(at)
<1>0. session \in SessionRow /\ now \in Time /\ \A c \in lecturerCalls : c.at \in Time
    BY DEF Typed, TypeOK, LecturerCall
<1>1. CASE UNCHANGED <<session, roster, waived, accepted>>
    BY <1>1 DEF Ended, Settled
<1>2. ASSUME NEW at \in Time, Finalize(at), session.status = "active" PROVE Close
    BY <1>0, <1>2 DEF Finalize, Ended, SessionRow
<1>3. CASE \E want \in Requests, enrolled \in Rosters : Create(want, enrolled)
    BY <1>3 DEF Create, NoSession, Ended
<1>4. CASE Activate \/ Cancel
    BY <1>0, <1>4 DEF Activate, Cancel, NotEnded, SessionRow, Ended
<1>5. CASE LifecycleStep
    BY <1>0, <1>1, <1>2, <1>3, <1>4, <1>5 DEF LifecycleStep, CloseBegin, CloseCommit, AutoClose,
        LecturerGivesUp, sessionVars, decisionVars, qrVars
<1>6. CASE StudentStep
    BY <1>1, <1>6 DEF StudentStep, GeofenceBegin, GeofenceCommit, StartBegin, StartCommit,
        FaceBegin, FaceLockStatement, FaceRecord, CoreCheckIn, CheckIn, Abandon, Begin,
        OnlyCalls, sessionVars, decisionVars, qrVars
<1>7. CASE DecisionStep
    BY <1>1, <1>7 DEF DecisionStep, Waive, ManualSet, Review, sessionVars, qrVars, Ended
<1>8. CASE QrStep
    <2>1. CASE \E scan \in scans : ScanCommit(scan)
        <3>1. PICK scan \in scans : ScanCommit(scan)
            BY <2>1
        <3>2. UNCHANGED <<session, roster, waived>>
            BY <3>1 DEF ScanCommit, OnlyScans, sessionVars, decisionVars
        <3>3. Ended => accepted' = accepted
            BY <3>1 DEF ScanCommit, ScanVerdict, BatchOpen, Ended, Typed, TypeOK
        <3> QED
            BY <3>2, <3>3 DEF Ended, Settled
    <2> QED
        BY <1>1, <1>8, <2>1 DEF QrStep, LaunchBegin, LaunchCommit, VoidBatch, DeactivateBatch,
            OnlyBatches, ScanBegin, ScanLost, OnlyScans, sessionVars, decisionVars
<1>9. CASE Tick \/ UNCHANGED vars
    BY <1>1, <1>9 DEF Tick, vars, sessionVars, decisionVars, qrVars
<1> QED
    BY <1>5, <1>6, <1>7, <1>8, <1>9 DEF Next

LEMMA RowsSoundStep ==
    ASSUME Typed, EvidenceInWindow, RowsSound, [Next]_vars
    PROVE  RowsSound'
<1>1. \A s \in Students : attempt'[s].status = "checked_in" <=> attempt'[s].initial # "none"
    BY EvidenceStep, InitialsStep DEF EvidenceMoves, EvidenceInWindow
<1>2. session'.status # "closed" => session'.closedAt = NoTime
    BY ClosingStep DEF RowsSound, Ended, Settled
<1> QED
    BY <1>1, <1>2, BatchRowsStep DEF RowsSound

\* After the close an attempt fails or is checked in, on the evidence given by
\* the closing time; none is opened or reopened.
LEMMA SettledWrites ==
    ASSUME Typed, Ended, Settled, NEW s \in Students, Writes(s)
    PROVE  \/ UNCHANGED attempt[s]
           \/ attempt[s].status = "in_progress" /\ attempt'[s].status = "failed"
           \/ /\ attempt[s].status = "in_progress" /\ attempt'[s].status = "checked_in"
              /\ Earned(RequiredSteps(session.face, waived), passed'[s], session.closedAt)
<1>1. session.status # "active"
    BY DEF Ended
<1>2. ASSUME NEW row, Continues(s, row) PROVE row = attempt[s] /\ row.status = "in_progress" /\ row \in AttemptRow
    BY <1>1, <1>2 DEF Continues
<1>3. ~(\E row : Opens(s, row)) /\ ~Reopens(s)
    BY <1>1 DEF Opens, Reopens, Waive
<1>4. ASSUME NEW row, NEW reason, Fails(s, row, reason)
      PROVE  attempt[s].status = "in_progress" /\ attempt'[s].status = "failed"
    BY <1>2, <1>4 DEF Fails, FailedAttempt, AttemptRow
<1>5. ASSUME NEW row, NEW bound, ChecksIn(s, row, bound)
      PROVE  /\ attempt[s].status = "in_progress" /\ attempt'[s].status = "checked_in"
             /\ Earned(RequiredSteps(session.face, waived), passed'[s], session.closedAt)
    BY <1>1, <1>2, <1>5 DEF ChecksIn, CheckedIn, AttemptRow
<1> QED
    BY <1>3, <1>4, <1>5 DEF Writes

\* What the close leaves in progress can be complete by the closing time only
\* if the session asks for the face: the pass that completes it was recorded
\* by a request let in before the close.
Latecomers ==
    Ended => /\ session.closedAt \in Time
             /\ \A s \in Students :
                  /\ attempt[s].status = "in_progress"
                  /\ Earned(RequiredSteps(session.face, waived), passed[s], session.closedAt)
                  => session.face

LEMMA LatecomersStep ==
    ASSUME Typed, EvidenceInWindow, Latecomers, [Next]_vars
    PROVE  Latecomers'
<1>0. EvidenceMoves /\ session \in SessionRow
    BY EvidenceStep DEF EvidenceInWindow, Typed, TypeOK
<1>1. CASE Ended /\ Settled
    <2>1. session' = session /\ waived' = waived /\ session.closedAt \in Time
        BY <1>1 DEF Settled, Latecomers
    <2>2. ASSUME NEW s \in Students, attempt'[s].status = "in_progress", ~session.face,
                 Earned(RequiredSteps(session.face, waived), passed'[s], session.closedAt)
          PROVE  FALSE
        <3>1. attempt'[s] = attempt[s]
            BY <1>0, <1>1, <2>2, SettledWrites DEF EvidenceMoves
        <3>2. \A step \in Steps : passed'[s][step] = passed[s][step]
            BY <1>0, <1>1, <2>2 DEF EvidenceMoves, Passes, Ended, Steps
        <3>3. Earned(RequiredSteps(session.face, waived), passed[s], session.closedAt)
            BY <2>2, <3>2, RequiredStep DEF Earned, Steps
        <3> QED
            BY <1>1, <2>2, <3>1, <3>3 DEF Latecomers
    <2> QED
        BY <2>1, <2>2 DEF Latecomers
<1>2. CASE ~Ended'
    BY <1>2 DEF Latecomers
<1>3. ASSUME NEW at \in Time, Finalize(at) PROVE Latecomers'
    <2>1. /\ session'.closedAt = at /\ session'.face = session.face
          /\ UNCHANGED <<waived, passed>> /\ attempt' = Reconciled(at)
        BY <1>0, <1>3 DEF Finalize, SessionRow
    <2>2. ASSUME NEW s \in Students, attempt'[s].status = "in_progress"
          PROVE  ~Earned(RequiredSteps(session.face, waived), passed[s], at)
        <3> SUFFICES ASSUME Earned(RequiredSteps(session.face, waived), passed[s], at)
                     PROVE  FALSE
            OBVIOUS
        <3>1. attempt[s] \in AttemptRow
            BY DEF Typed, TypeOK
        <3>2. attempt'[s] = IF attempt[s].status = "in_progress"
                            THEN CheckedIn(attempt[s], RequiredSteps(session.face, waived), passed[s],
                                           session.late)
                            ELSE attempt[s]
            BY <2>1 DEF Reconciled
        <3>3. CheckedIn(attempt[s], RequiredSteps(session.face, waived), passed[s],
                        session.late).status = "checked_in"
            BY <3>1 DEF CheckedIn, AttemptRow
        <3> QED
            BY <2>2, <3>2, <3>3
    <2>3. RequiredSteps(session.face, waived)' = RequiredSteps(session.face, waived)
        BY <2>1
    <2> QED
        BY <2>1, <2>2, <2>3 DEF Latecomers
<1> QED
    BY <1>1, <1>2, <1>3, ClosingStep

LEMMA RecordMoves ==
    ASSUME Typed, Ended, [Next]_vars, NEW s \in Students
    PROVE  record'[s] = record[s] \/ record'[s].source = "manual"
<1>1. CASE UNCHANGED record
    BY <1>1
<1>2. ASSUME NEW t \in Students, NEW status, SetStatus(t, status)
      PROVE  record'[s] = record[s] \/ record'[s].source = "manual"
    BY <1>2 DEF SetStatus, Typed, TypeOK
<1>3. CASE LifecycleStep
    BY <1>1, <1>3 DEF LifecycleStep, Create, Activate, CloseBegin, CloseCommit, AutoClose,
        Cancel, NotEnded, LecturerGivesUp, decisionVars, Ended
<1>4. CASE StudentStep
    BY <1>1, <1>4 DEF StudentStep, GeofenceBegin, GeofenceCommit, StartBegin, StartCommit,
        FaceBegin, FaceLockStatement, FaceRecord, CoreCheckIn, CheckIn, Abandon, Begin,
        OnlyCalls, decisionVars
<1>5. CASE DecisionStep
    BY <1>1, <1>2, <1>5 DEF DecisionStep, Waive, ManualSet, Review
<1>6. CASE QrStep
    BY <1>1, <1>6 DEF QrStep, LaunchBegin, LaunchCommit, VoidBatch, DeactivateBatch,
        OnlyBatches, ScanBegin, ScanCommit, ScanLost, OnlyScans, decisionVars
<1>7. CASE Tick \/ UNCHANGED vars
    BY <1>1, <1>7 DEF Tick, vars, decisionVars
<1> QED
    BY <1>3, <1>4, <1>5, <1>6, <1>7 DEF Next

\* After the close a batch may still be deactivated: nothing is asked of
\* anyone by that.
LEMMA AskedStays ==
    ASSUME Typed, Ended, [Next]_vars, NEW b \in Batches
    PROVE  batch'[b].activatedAt = batch[b].activatedAt /\ batch'[b].voided = batch[b].voided
<1>0. batch \in [Batches -> BatchRow]
    BY DEF Typed, TypeOK
<1>1. CASE UNCHANGED batch
    BY <1>1
<1>2. CASE \E other \in Batches : DeactivateBatch(other)
    BY <1>0, <1>2 DEF DeactivateBatch, BatchRow
<1>3. CASE LifecycleStep
    BY <1>1, <1>3 DEF LifecycleStep, Create, Activate, CloseBegin, CloseCommit, AutoClose,
        Cancel, NotEnded, LecturerGivesUp, qrVars, Ended
<1>4. CASE StudentStep
    BY <1>1, <1>4 DEF StudentStep, GeofenceBegin, GeofenceCommit, StartBegin, StartCommit,
        FaceBegin, FaceLockStatement, FaceRecord, CoreCheckIn, CheckIn, Abandon, Begin,
        OnlyCalls, qrVars
<1>5. CASE DecisionStep
    BY <1>1, <1>5 DEF DecisionStep, Waive, ManualSet, Review, qrVars
<1>6. CASE QrStep
    BY <1>1, <1>2, <1>6 DEF QrStep, LaunchBegin, LaunchCommit, VoidBatch, ScanBegin,
        ScanCommit, ScanLost, OnlyScans, Ended
<1>7. CASE Tick \/ UNCHANGED vars
    BY <1>1, <1>7 DEF Tick, vars, qrVars
<1> QED
    BY <1>3, <1>4, <1>5, <1>6, <1>7 DEF Next

\* The verdict computed for a student is the one the documented rule gives.
Decided(s) == DecideFinalAttendance(attempt[s].initial, RequiredBatches(s), accepted[s])

DecisionsDeserved ==
    Typed /\ EvidenceInWindow /\ RowsSound /\ AllEarned =>
        \A s \in Students : \A status : status = Decided(s) => Deserves(s, status)

LEMMA DecisionDeserved == DecisionsDeserved
<1> SUFFICES ASSUME Typed, EvidenceInWindow, RowsSound, AllEarned, NEW s \in Students,
                    NEW status, status = Decided(s)
             PROVE  Deserves(s, status)
    BY DEF DecisionsDeserved
<1>1. /\ attempt[s] \in AttemptRow
      /\ attempt[s].status = "checked_in" <=> attempt[s].initial # "none"
      /\ \A b \in Batches : batch[b] \in BatchRow
      /\ \A b \in Batches : batch[b].status = "unused" <=> batch[b].activatedAt = NoTime
    BY DEF Typed, TypeOK, RowsSound
<1>2. CASE attempt[s].status # "checked_in"
    BY <1>1, <1>2 DEF Decided, DecideFinalAttendance, Deserves
<1>3. CASE attempt[s].status = "checked_in"
    <2>1. /\ attempt[s].checkedInAt \in Nat /\ session.late \in Nat
          /\ (attempt[s].initial = "late_checked_in") <=> (attempt[s].checkedInAt > session.late)
        BY <1>3, ScheduleAssumption
            DEF AllEarned, EarnedBy, InWindow, EvidenceInWindow, PastActivation, Typed, WindowSet, Time
    <2>2. ASSUME NEW b \in Batches, batch[b].activatedAt # NoTime
          PROVE  batch[b].activatedAt \in Nat
        BY <1>1, <2>2, ScheduleAssumption DEF BatchRow, Stamp, Time
    <2>3. RequiredBatches(s) = Asked(s)
        BY <1>1, <1>3, <2>1, <2>2 DEF RequiredBatches, Asked, BatchRow
    <2>4. status = IF Asked(s) # {} /\ Asked(s) \cap accepted[s] = {} THEN "absent"
                   ELSE IF ~(Asked(s) \subseteq accepted[s]) THEN "left_early"
                   ELSE IF attempt[s].initial = "late_checked_in" THEN "late" ELSE "present"
        BY <1>1, <1>3, <2>3 DEF Decided, DecideFinalAttendance
    <2>5. CASE Asked(s) \subseteq accepted[s]
        BY <1>3, <2>1, <2>4, <2>5 DEF Deserves
    <2>6. CASE ~(Asked(s) \subseteq accepted[s])
        BY <1>3, <2>4, <2>6 DEF Deserves
    <2> QED
        BY <2>5, <2>6
<1> QED
    BY <1>2, <1>3

\* What is deserved stays so while the attempt, what is asked and what was
\* scanned stay, or while there is no check-in before or after.
LEMMA DeservesStays ==
    ASSUME Typed, Ended, Settled, [Next]_vars, NEW s \in Students, Deserves(s, record[s].status),
           record'[s] = record[s],
           \/ UNCHANGED attempt[s]
           \/ attempt[s].status # "checked_in" /\ attempt'[s].status # "checked_in"
    PROVE  Deserves(s, record[s].status)'
<1>1. UNCHANGED <<session, accepted>>
    BY DEF Settled
<1>2. CASE attempt[s].status # "checked_in" /\ attempt'[s].status # "checked_in"
    BY <1>2 DEF Deserves
<1>3. CASE UNCHANGED attempt[s]
    <2>1. Asked(s)' = Asked(s)
        BY <1>3, AskedStays DEF Asked
    <2> QED
        BY <1>1, <1>3, <2>1 DEF Deserves
<1> QED
    BY <1>2, <1>3

LEMMA OvertakenStays ==
    ASSUME Typed, EvidenceMoves, Settled, NEW s \in Students, OvertakenByFace(s),
           record'[s] = record[s]
    PROVE  OvertakenByFace(s)'
<1>1. passed'[s]["face"] = passed[s]["face"]
    BY DEF EvidenceMoves, Passes, OvertakenByFace, Steps
<1> QED
    BY <1>1 DEF OvertakenByFace, Settled

LEMMA RecordsStep ==
    ASSUME Typed, EvidenceInWindow, AllEarned, RowsSound, Latecomers, RecordsMatchEvidence,
           [Next]_vars
    PROVE  RecordsMatchEvidence'
<1>1. /\ Typed' /\ EvidenceInWindow' /\ AllEarned' /\ RowsSound' /\ EvidenceMoves
    BY TypedStep, EvidenceInWindowStep, AllEarnedStep, RowsSoundStep, EvidenceStep
       DEF EvidenceInWindow
<1>2. ASSUME NEW at \in Time, Finalize(at), NEW s \in roster', record'[s].source = "automatic"
      PROVE  Deserves(s, record[s].status)'
    <2>1. s \in Students
        BY <1>1 DEF Typed, TypeOK
    <2>2. record'[s].status = Decided(s)'
        BY <1>2, <2>1 DEF Finalize, KeepsRecord, Decided
    <2>3. DecisionsDeserved'
        BY DecisionDeserved, PTL
    <2>4. \A status : status = Decided(s)' => Deserves(s, status)'
        BY <1>1, <2>1, <2>3 DEF DecisionsDeserved
    <2> QED
        BY <2>2, <2>4 DEF Deserves, Asked
<1>3. ASSUME Ended, Settled, NEW s \in roster', record'[s].source = "automatic"
      PROVE  Deserves(s, record[s].status)' \/ OvertakenByFace(s)'
    <2>1. s \in Students /\ s \in roster
        BY <1>3 DEF Settled, Typed, TypeOK
    <2>2. record'[s] = record[s]
        BY <1>3, <2>1, RecordMoves
    <2>3. Deserves(s, record[s].status) \/ OvertakenByFace(s)
        BY <1>3, <2>1, <2>2 DEF RecordsMatchEvidence
    <2>4. CASE OvertakenByFace(s)
        BY <1>1, <1>3, <2>1, <2>2, <2>4, OvertakenStays
    <2>5. CASE /\ Deserves(s, record[s].status)
               /\ \/ UNCHANGED attempt[s]
                  \/ attempt[s].status # "checked_in" /\ attempt'[s].status # "checked_in"
        BY <1>3, <2>1, <2>2, <2>5, DeservesStays
    <2>6. CASE /\ Deserves(s, record[s].status)
               /\ attempt[s].status = "in_progress"
               /\ Earned(RequiredSteps(session.face, waived), passed'[s], session.closedAt)
        <3>1. record[s].status = "absent"
            BY <2>6 DEF Deserves
        <3>2. session.closedAt \in Time /\ session.closedAt # NoTime
            BY <1>3, NoTimeAssumption DEF Latecomers, Time
        <3>3. session.face
            <4>1. CASE \A step \in Steps : passed'[s][step] = passed[s][step]
                <5>1. Earned(RequiredSteps(session.face, waived), passed[s], session.closedAt)
                    BY <2>6, <4>1, RequiredStep DEF Earned, Steps
                <5> QED
                    BY <1>3, <2>1, <2>6, <5>1 DEF Latecomers
            <4>2. CASE \E step \in Steps : passed'[s][step] # passed[s][step]
                BY <1>1, <1>3, <2>1, <4>2 DEF EvidenceMoves, Passes, Ended, Steps
            <4> QED
                BY <4>1, <4>2
        <3>4. passed'[s]["face"] # NoTime /\ passed'[s]["face"] <= session.closedAt
            BY <2>6, <3>2, <3>3, RequiredStep DEF Earned, CountsBy
        <3> QED
            BY <1>3, <2>2, <3>1, <3>3, <3>4 DEF OvertakenByFace, Settled
    <2>7. \/ UNCHANGED attempt[s]
          \/ attempt[s].status = "in_progress" /\ attempt'[s].status = "failed"
          \/ /\ attempt[s].status = "in_progress" /\ attempt'[s].status = "checked_in"
             /\ Earned(RequiredSteps(session.face, waived), passed'[s], session.closedAt)
        BY <1>1, <1>3, <2>1, SettledWrites DEF EvidenceMoves
    <2> QED
        BY <2>3, <2>4, <2>5, <2>6, <2>7
<1>4. CASE ~Ended'
    BY <1>4 DEF RecordsMatchEvidence
<1>5. CASE \E at \in Time : Finalize(at)
    BY <1>2, <1>5 DEF RecordsMatchEvidence
<1>6. CASE Ended /\ Settled
    BY <1>3, <1>6 DEF RecordsMatchEvidence
<1> QED
    BY <1>4, <1>5, <1>6, ClosingStep

LEMMA AlwaysMatched ==
    Spec => [](Typed /\ EvidenceInWindow /\ AllEarned /\ RowsSound /\ Latecomers /\ RecordsMatchEvidence)
<1>1. Init => RowsSound /\ Latecomers /\ RecordsMatchEvidence
    BY DEF Init, NoAttempt, NoBatch, NoSession, RowsSound, Latecomers, RecordsMatchEvidence, Ended
<1> QED
    BY <1>1, AlwaysEarned, RowsSoundStep, LatecomersStep, RecordsStep, PTL DEF Spec

\* Once a session is closed its automatic records agree with the evidence in
\* the database, for every roster, schedule and number of requests that
\* commit after the close: the decision depends on no order among them, but
\* for a face pass recorded by a request let in before the close.
THEOREM DecisionsMatchEvidence == Spec => []RecordsMatchEvidence
BY AlwaysMatched, PTL

-----------------------------------------------------------------------------
(* Screens.                                                                *)

\* The first step's tries: none before there is an attempt, and an attempt
\* that used them all and still goes on has just passed.
StepLeft ==
    \A s \in Students :
        /\ attempt[s].status = "none" => tries[s]["geofence"] = 0
        /\ attempt[s].status = "in_progress" /\ ~waived /\ tries[s]["geofence"] = MaxGeofenceAttempts
              => located[s] /\ passed[s]["geofence"] # NoTime

\* A step that records no reading keeps what the attempt has left.
LEMMA StepLeftKept ==
    ASSUME Typed, FaceLetIn, StepLeft, [Next]_vars, UNCHANGED located,
           \A s \in Students : tries'[s]["geofence"] = tries[s]["geofence"]
    PROVE  StepLeft'
<1>0. EvidenceMoves /\ attempt \in [Students -> AttemptRow] /\ tries \in [Students -> [Steps -> Nat]]
    BY EvidenceStep DEF Typed, TypeOK
<1> SUFFICES ASSUME NEW s \in Students
             PROVE  /\ attempt'[s].status = "none" => tries'[s]["geofence"] = 0
                    /\ attempt'[s].status = "in_progress" /\ ~waived'
                          /\ tries'[s]["geofence"] = MaxGeofenceAttempts
                       => located'[s] /\ passed'[s]["geofence"] # NoTime
    BY DEF StepLeft
<1>1. attempt'[s].status = "none" => attempt[s].status = "none"
    <2>1. Writes(s) /\ attempt[s] \in AttemptRow
        BY <1>0 DEF EvidenceMoves
    <2> QED
        BY <2>1 DEF Writes, Opens, Fails, ChecksIn, Reopens, Continues, FailedAttempt,
            CheckedIn, AttemptRow
<1>2. passed[s]["geofence"] # NoTime => passed'[s]["geofence"] # NoTime
    BY <1>0 DEF EvidenceMoves, Passes, Steps
<1>3. ASSUME attempt'[s].status = "in_progress", ~waived'
      PROVE  attempt[s].status \in {"none", "in_progress"} /\ ~waived
    <2>1. ~waived
        BY <1>3, WaivedStays
    <2>2. Moves(s)
        BY AttemptMoves
    <2> QED
        BY <1>3, <2>1, <2>2 DEF Moves, Waive
<1>4. attempt[s].status = "none" => tries[s]["geofence"] # MaxGeofenceAttempts
    BY LimitAssumption DEF StepLeft
<1> QED
    BY <1>1, <1>2, <1>3, <1>4 DEF StepLeft

LEMMA GeofenceLeaves ==
    ASSUME Typed, FaceLetIn, StepLeft, [Next]_vars,
           NEW c \in calls, NEW reading \in Readings, GeofenceCommit(c, reading)
    PROVE  StepLeft'
<1> DEFINE s      == c.student
           number == tries[s]["geofence"] + 1
           result == FinalizeLastRetry(reading, number, MaxGeofenceAttempts)
           pass   == IF result = "passed"
                     THEN [passed[s] EXCEPT !["geofence"] = EarliestPass(@, c.at)]
                     ELSE passed[s]
<1>1. /\ s \in Students /\ c.at \in Time
      /\ attempt \in [Students -> AttemptRow]
      /\ passed \in [Students -> [Steps -> Stamp]]
      /\ tries \in [Students -> [Steps -> Nat]]
      /\ located \in [Students -> BOOLEAN]
    BY DEF Typed, TypeOK, StudentCall
<1>2. /\ waived' = waived
      /\ passed' = [passed EXCEPT ![s] = pass]
      /\ tries' = [tries EXCEPT ![s]["geofence"] = number]
      /\ located' = [located EXCEPT ![s] = (result = "passed")]
      /\ attempt' = [attempt EXCEPT ![s] =
                        CASE result = "passed"         -> TryCheckIn(StartedAttempt(c), pass)
                          [] result = "retry_required" -> StartedAttempt(c)
                          [] OTHER -> FailedAttempt(StartedAttempt(c), result)]
      /\ StartedAttempt(c).status = "in_progress"
    BY DEF GeofenceCommit, decisionVars
<1>3. StartedAttempt(c) \in AttemptRow
    BY StartedTyped
<1>4. passed'[s] = pass /\ tries'[s]["geofence"] = number /\ located'[s] = (result = "passed")
    BY <1>1, <1>2 DEF Steps
<1>5. attempt'[s].status # "none"
    <2> HIDE DEF result, pass
    <2> QED
        BY <1>1, <1>2, <1>3 DEF TryCheckIn, CheckedIn, FailedAttempt, AttemptRow
<1>6. ASSUME attempt'[s].status = "in_progress", number = MaxGeofenceAttempts
      PROVE  located'[s] /\ passed'[s]["geofence"] # NoTime
    <2>1. result \in Readings \cup {"ATTEMPT_LIMIT_REACHED"} /\ result # "retry_required"
        BY <1>6 DEF FinalizeLastRetry, Readings
    <2>2. result = "passed"
        <3> HIDE DEF result, pass
        <3> QED
            BY <1>1, <1>2, <1>3, <1>6, <2>1 DEF FailedAttempt, AttemptRow
    <2>3. passed'[s]["geofence"] = EarliestPass(passed[s]["geofence"], c.at)
        BY <1>1, <1>4, <2>2 DEF Steps
    <2>4. passed[s]["geofence"] \in Stamp
        BY <1>1 DEF Steps
    <2>5. located'[s]
        BY <1>4, <2>2
    <2> HIDE DEF s, result, pass, number
    <2> QED
        BY <1>1, <2>3, <2>4, <2>5, NoTimeAssumption DEF EarliestPass, Earlier, Stamp, Time
<1>7. ASSUME NEW t \in Students, t # s
      PROVE  /\ attempt'[t] = attempt[t] /\ passed'[t] = passed[t]
             /\ tries'[t] = tries[t] /\ located'[t] = located[t]
    <2> HIDE DEF result, pass, number
    <2> QED
        BY <1>1, <1>2, <1>7
<1> HIDE DEF s, number
<1>8. ASSUME NEW t \in Students
      PROVE  /\ attempt'[t].status = "none" => tries'[t]["geofence"] = 0
             /\ attempt'[t].status = "in_progress" /\ ~waived'
                   /\ tries'[t]["geofence"] = MaxGeofenceAttempts
                => located'[t] /\ passed'[t]["geofence"] # NoTime
    BY <1>2, <1>4, <1>5, <1>6, <1>7, <1>8 DEF StepLeft
<1> QED
    BY <1>8 DEF StepLeft

LEMMA StepLeftStep ==
    ASSUME Typed, EvidenceInWindow, StepLeft, [Next]_vars
    PROVE  StepLeft'
<1>0. FaceLetIn /\ tries \in [Students -> [Steps -> Nat]]
    BY DEF EvidenceInWindow, Typed, TypeOK
<1>1. CASE UNCHANGED <<tries, located>>
    BY <1>0, <1>1, StepLeftKept
<1>2. CASE \E c \in calls, reading \in Readings : GeofenceCommit(c, reading)
    BY <1>0, <1>2, GeofenceLeaves
<1>3. CASE \E c \in calls, matched \in BOOLEAN : FaceRecord(c, matched)
    <2>1. PICK c \in calls, matched \in BOOLEAN : FaceRecord(c, matched)
        BY <1>3
    <2>2. \A s \in Students : tries'[s]["geofence"] = tries[s]["geofence"]
        BY <1>0, <2>1 DEF FaceRecord, Steps
    <2>3. UNCHANGED located
        BY <2>1 DEF FaceRecord
    <2> QED
        BY <1>0, <2>2, <2>3, StepLeftKept
<1>4. CASE LifecycleStep
    BY <1>1, <1>4 DEF LifecycleStep, Create, Activate, CloseBegin, CloseCommit, Finalize,
        AutoClose, Cancel, LecturerGivesUp, evidenceVars
<1>5. CASE StudentStep
    BY <1>1, <1>2, <1>3, <1>5 DEF StudentStep, GeofenceBegin, StartBegin, StartCommit, FaceBegin,
        FaceLockStatement, CoreCheckIn, CheckIn, Abandon, Begin, OnlyCalls, evidenceVars
<1>6. CASE DecisionStep
    BY <1>1, <1>6 DEF DecisionStep, Waive, ManualSet, Review, evidenceVars
<1>7. CASE QrStep
    BY <1>1, <1>7 DEF QrStep, LaunchBegin, LaunchCommit, VoidBatch, DeactivateBatch,
        OnlyBatches, ScanBegin, ScanCommit, ScanLost, OnlyScans, evidenceVars
<1>8. CASE Tick \/ UNCHANGED vars
    BY <1>1, <1>8 DEF Tick, vars, evidenceVars
<1> QED
    BY <1>4, <1>5, <1>6, <1>7, <1>8 DEF Next

LEMMA OfferHolds ==
    ASSUME Typed, StepLeft, LimitsHold, RowsSound
    PROVE  OfferKept
<1> SUFFICES ASSUME NEW s \in Students, SessionFound(s), CanStartCheckIn(s)
             PROVE  SomeStepOpen(s) /\ VisibleSession(s)
    BY DEF OfferKept
<1>1. /\ session.status = "active" /\ s \in roster /\ record[s].source = "none"
      /\ attempt[s].status \in {"none", "in_progress"}
      /\ session.opens <= now /\ now < session.closes
      /\ session.closedAt = NoTime
    BY DEF SessionFound, CanStartCheckIn, SessionState, RowsSound, Typed, TypeOK, AttemptRow,
        AttemptStatuses
<1>2. VisibleSession(s)
    BY <1>1 DEF VisibleSession
<1>3. WindowOpen(now)
    BY <1>1 DEF WindowOpen
<1>4. CASE waived \/ tries[s]["geofence"] < MaxGeofenceAttempts
    <2> DEFINE request == [kind |-> "geofence", student |-> s, at |-> now, seen |-> waived]
    <2>1. Eligible(request)
        BY <1>1, <1>3 DEF Eligible
    <2>2. StartedAttempt(request).status = "in_progress"
        BY <1>1 DEF StartedAttempt, NoAttempt
    <2> QED
        BY <1>2, <1>4, <2>1, <2>2 DEF SomeStepOpen
<1>5. CASE ~waived /\ ~(tries[s]["geofence"] < MaxGeofenceAttempts)
    <2>1. tries[s]["geofence"] \in Nat /\ tries[s]["geofence"] <= MaxGeofenceAttempts
          /\ MaxGeofenceAttempts \in Nat \ {0}
        BY LimitAssumption DEF LimitsHold, Typed, TypeOK, Steps
    <2>2. tries[s]["geofence"] = MaxGeofenceAttempts /\ tries[s]["geofence"] # 0
        BY <1>5, <2>1
    <2>3. attempt[s].status = "in_progress" /\ located[s] /\ passed[s]["geofence"] # NoTime
        BY <1>1, <1>5, <2>2 DEF StepLeft
    <2>4. CASE session.face /\ passed[s]["face"] = NoTime
        <3>1. tries[s]["face"] \in Nat /\ tries[s]["face"] <= MaxFaceAttempts
              /\ tries[s]["face"] # MaxFaceAttempts /\ MaxFaceAttempts \in Nat
            BY <2>3, <2>4, LimitAssumption DEF LimitsHold, Exhausted, Typed, TypeOK, Steps
        <3>2. FaceOpen(s, now) /\ FaceAllowed(s)
            BY <1>3, <2>3, <2>4, <3>1 DEF FaceOpen, FaceAllowed
        <3> QED
            BY <1>2, <3>2 DEF SomeStepOpen
    <2>5. CASE ~(session.face /\ passed[s]["face"] = NoTime)
        <3>1. Earned(RequiredSteps(session.face, waived), passed[s], session.closedAt)
            BY <1>1, <2>3, <2>5, RequiredStep DEF Earned, CountsBy
        <3>2. TryCheckIn(attempt[s], passed[s]).status = "checked_in"
            BY <2>3, <3>1 DEF TryCheckIn, CheckedIn, Typed, TypeOK, AttemptRow
        <3> QED
            BY <1>2, <3>2 DEF SomeStepOpen
    <2> QED
        BY <2>4, <2>5
<1> QED
    BY <1>4, <1>5

\* A student who is told to check in can, for every pair of limits and every
\* history of readings, captures, waivers and decisions.
THEOREM OffersAreKept == Spec => []OfferKept
<1>1. Init => StepLeft /\ LimitsHold
    BY LimitAssumption DEF Init, NoAttempt, StepLeft, LimitsHold, Exhausted, Steps
<1>2. Typed /\ LimitsHold /\ [Next]_vars => LimitsHold'
    BY LimitsStep
<1> QED
    BY <1>1, <1>2, AlwaysMatched, StepLeftStep, OfferHolds, PTL DEF Spec

\* What a student is shown of the batches is what the documented rule asks.
LEMMA ProgressIsAsked ==
    ASSUME Typed, EvidenceInWindow, AllEarned, RowsSound, NEW s \in Students, attempt[s].status = "checked_in"
    PROVE  LET mine == StudentBatches(s)
           IN  /\ {b \in Launched : mine[b].required} = Asked(s)
               /\ {b \in Launched : mine[b].required /\ mine[b].passed} = Asked(s) \cap accepted[s]
<1> DEFINE mine == StudentBatches(s)
<1>1. attempt[s].checkedInAt \in Nat
    BY ScheduleAssumption DEF AllEarned, EarnedBy, InWindow, Time
<1>2. ASSUME NEW b \in Batches
      PROVE  /\ batch[b].voided \in BOOLEAN
             /\ b \in Launched <=> batch[b].activatedAt # NoTime
             /\ batch[b].activatedAt # NoTime => batch[b].activatedAt \in Nat
    <2>1. batch[b] \in BatchRow
        BY DEF Typed, TypeOK
    <2> QED
        BY <2>1, ScheduleAssumption DEF RowsSound, Launched, BatchRow, Stamp, Time
<1>3. ASSUME NEW b \in Launched
      PROVE  /\ b \in Batches
             /\ mine[b].required <=> b \in Asked(s)
             /\ mine[b].passed <=> ~batch[b].voided /\ b \in accepted[s]
    <2>1. b \in Batches
        BY DEF Launched
    <2>2. /\ mine[b].required = AskedOf(s, b)
          /\ mine[b].passed = (~batch[b].voided /\ b \in accepted[s])
        BY DEF StudentBatches
    <2>3. AskedOf(s, b) <=> b \in Asked(s)
        BY <1>1, <1>2, <2>1 DEF AskedOf, Asked
    <2> QED
        BY <2>1, <2>2, <2>3
<1>4. \A b : b \in Asked(s) => b \in Launched /\ ~batch[b].voided
    BY <1>2 DEF Asked
<1> HIDE DEF mine
<1>5. /\ {b \in Launched : mine[b].required} = Asked(s)
      /\ {b \in Launched : mine[b].required /\ mine[b].passed} = Asked(s) \cap accepted[s]
    BY <1>3, <1>4
<1> QED
    BY <1>5 DEF mine

-----------------------------------------------------------------------------
(* The decision itself.                                                    *)

\* The better of two decisions for the student.
Rank(final) == CASE final = "absent" -> 0 [] final = "left_early" -> 1
                 [] final = "late" -> 2 [] final = "present" -> 3

\* More scans, and batches voided that the student had not scanned, never make the
\* decision worse, and neither does a check-in in time instead of a late one
\* (decide_final_attendance).  Of a voided batch that was scanned this is not so.
THEOREM EvidenceOnlyHelps ==
    ASSUME NEW initial \in InitialStatuses \cup {"none"},
           NEW better \in {initial} \cup (IF initial = "none" THEN {} ELSE {"checked_in"}),
           NEW required, NEW voided, NEW scanned, NEW more,
           voided \cap scanned = {}, scanned \subseteq more
    PROVE  Rank(DecideFinalAttendance(initial, required, scanned))
               <= Rank(DecideFinalAttendance(better, required \ voided, more))
<1> DEFINE before == DecideFinalAttendance(initial, required, scanned)
           after  == DecideFinalAttendance(better, required \ voided, more)
<1>1. before = "absent" \/ /\ initial # "none"
                           /\ required = {} \/ required \cap scanned # {}
    BY DEF DecideFinalAttendance
<1>2. CASE before = "absent"
    <2>1. after \in {"absent", "left_early", "late", "present"}
        BY DEF DecideFinalAttendance
    <2> QED
        BY <1>2, <2>1 DEF Rank
<1>3. CASE before # "absent"
    <2>1. /\ initial # "none" /\ better \in {initial, "checked_in"} /\ better # "none"
          /\ required \ voided = {} \/ (required \ voided) \cap more # {}
        BY <1>1, <1>3
    <2>2. CASE required \subseteq scanned
        <3>1. required \ voided \subseteq more
            BY <2>2
        <3>2. before = (IF initial = "late_checked_in" THEN "late" ELSE "present")
            BY <1>1, <1>3, <2>2 DEF DecideFinalAttendance
        <3>3. after = (IF better = "late_checked_in" THEN "late" ELSE "present")
            BY <2>1, <3>1 DEF DecideFinalAttendance
        <3> QED
            BY <2>1, <3>2, <3>3 DEF Rank, InitialStatuses
    <2>3. CASE ~(required \subseteq scanned)
        <3>1. before = "left_early"
            BY <1>1, <1>3, <2>3 DEF DecideFinalAttendance
        <3>2. after \in {"left_early", "late", "present"}
            BY <2>1 DEF DecideFinalAttendance
        <3> QED
            BY <3>1, <3>2 DEF Rank
    <2> QED
        BY <2>2, <2>3
<1> QED
    BY <1>2, <1>3

\* However late the lecturer starts the session, and whatever the policy says, a window
\* of which the request named nothing lies in the session, begins no earlier than the
\* lecture did, and its threshold lies in the window; and who starts it before its end
\* leaves students a window that is open (activation_timing.py).
THEOREM ActivatedInSession ==
    ASSUME NEW w, NEW start \in Nat, NEW end \in Nat, start <= end, NEW activatedAt \in Nat,
           NEW policy, policy.window \in Nat \cup {NoTime}, policy.late \in Nat,
           NEW defaultLate \in Nat
    PROVE  LET a == ActivationWindow(w, {}, start, end, activatedAt, policy, defaultLate)
           IN  /\ start <= a.opens /\ a.opens <= a.late /\ a.late <= a.closes /\ a.closes <= end
               /\ activatedAt <= end => activatedAt <= a.opens
               /\ start < end /\ activatedAt < end /\ policy.window # 0 => a.opens < a.closes
<1> DEFINE eff    == EffectiveStart(start, activatedAt)
           opens  == Earlier(eff, end)
           closes == IF policy.window # NoTime THEN Earlier(eff + policy.window, end) ELSE end
           late   == IF policy.window # NoTime THEN Earlier(eff + policy.late, closes)
                     ELSE Earlier(eff + defaultLate, closes)
<1>1. eff \in Nat /\ start <= eff /\ activatedAt <= eff /\ eff \in {start, activatedAt}
    BY DEF EffectiveStart, Later
<1> HIDE DEF eff
<1>2. opens \in Nat /\ start <= opens /\ opens <= eff /\ opens <= end
    BY <1>1 DEF Earlier
<1>3. activatedAt <= end => activatedAt <= opens
    BY <1>1 DEF Earlier
<1> HIDE DEF opens
<1>4. closes \in Nat /\ opens <= closes /\ closes <= end
    <2>1. CASE policy.window # NoTime
        <3>1. policy.window \in Nat
            BY <2>1
        <3> QED
            BY <1>1, <1>2, <2>1, <3>1 DEF Earlier
    <2>2. CASE policy.window = NoTime
        BY <1>2, <2>2
    <2> QED
        BY <2>1, <2>2
<1>5. start < end /\ activatedAt < end /\ policy.window # 0 => opens < closes
    <2> SUFFICES ASSUME start < end, activatedAt < end, policy.window # 0 PROVE opens < closes
        OBVIOUS
    <2>1. eff < end /\ opens = eff
        BY <1>1 DEF opens, Earlier
    <2>2. CASE policy.window # NoTime
        <3>1. policy.window \in Nat /\ policy.window > 0
            BY <2>2
        <3> QED
            BY <1>1, <2>1, <2>2, <3>1 DEF Earlier
    <2>3. CASE policy.window = NoTime
        BY <2>1, <2>3
    <2> QED
        BY <2>2, <2>3
<1> HIDE DEF closes
<1>6. opens <= late /\ late <= closes
    BY <1>1, <1>2, <1>4 DEF Earlier
<1> HIDE DEF late
<1>7. ActivationWindow(w, {}, start, end, activatedAt, policy, defaultLate)
          = [opens |-> opens, closes |-> closes, late |-> late]
    BY DEF ActivationWindow, eff, opens, closes, late
<1> QED
    BY <1>2, <1>3, <1>4, <1>5, <1>6, <1>7

-----------------------------------------------------------------------------
(* What follows from the ledger, and where the findings end.               *)

\* What the ledger says of the records at every phase of the session.
RecordsBelong ==
    /\ record \in [Students -> RecordRow]
    /\ \A s \in Students : s \notin roster => record[s] = NoRecord
    /\ session.status \in {"none", "scheduled"} => \A s \in Students : record[s] = NoRecord
    /\ session.status \in {"active", "cancelled"} =>
          \A s \in Students : record[s].source # "automatic"
    /\ Ended => \A s \in Students : s \in roster => record[s].source # "none"

LEMMA LedgerKeepsRecords ==
    ASSUME RecordsBelong, [Ledger!LedgerNext]_(Ledger!ledgerVars)
    PROVE  RecordsBelong'
<1>1. CASE UNCHANGED Ledger!ledgerVars
    BY <1>1 DEF Ledger!ledgerVars, RecordsBelong, Ended
<1>2. CASE Ledger!Schedule \/ Ledger!Open \/ Ledger!CallOff
    BY <1>2 DEF Ledger!Schedule, Ledger!Open, Ledger!CallOff, RecordsBelong, Ended, NoRecord
<1>3. ASSUME NEW s \in Students, Ledger!Decide(s) PROVE RecordsBelong'
    <2>1. PICK status \in FinalStatuses :
              record' = [record EXCEPT ![s] = [status |-> status, source |-> "manual"]]
        BY <1>3 DEF Ledger!Decide
    <2> DEFINE entry == [status |-> status, source |-> "manual"]
    <2>2. entry \in RecordRow /\ entry.source = "manual" /\ record' = [record EXCEPT ![s] = entry]
        BY <2>1 DEF RecordRow, Sources
    <2> HIDE DEF entry
    <2> QED
        BY <1>3, <2>2 DEF Ledger!Decide, RecordsBelong, Ended
<1>4. CASE Ledger!Close
    <2>1. PICK verdict \in [Students -> FinalStatuses] :
              record' = [s \in Students |->
                            IF s \in roster /\ record[s].source # "manual"
                            THEN [status |-> verdict[s], source |-> "automatic"]
                            ELSE record[s]]
        BY <1>4 DEF Ledger!Close
    <2>2. record' \in [Students -> RecordRow]
        BY <2>1 DEF RecordsBelong, RecordRow, Sources
    <2>3. \A s \in Students : /\ s \notin roster => record'[s] = record[s]
                              /\ s \in roster => record'[s].source # "none"
        BY <2>1 DEF RecordsBelong
    <2> QED
        BY <1>4, <2>2, <2>3 DEF Ledger!Close, RecordsBelong, Ended
<1> QED
    BY <1>1, <1>2, <1>3, <1>4 DEF Ledger!LedgerNext

\* Whatever keeps the ledger's promise, and so the system: before the session is
\* started nobody has a record, until it is closed nobody has an automatic one, and
\* neither has anybody after a cancellation; after the close everybody of the roster
\* has one, and nobody else ever (FinalizationService.finalize, the upsert of
\* manual_attendance).
THEOREM RecordsFollowTheSession == Spec => []RecordsBelong
<1>1. Ledger!LedgerInit => RecordsBelong
    BY DEF Ledger!LedgerInit, Ledger!NoEntry, RecordsBelong, RecordRow, Sources, NoRecord, Ended
<1> QED
    BY <1>1, LedgerKeepsRecords, LedgerImplemented, PTL DEF LedgerKept, Ledger!LedgerSpec

\* An automatic record is replaced by a decision by hand and by nothing else, a decision
\* by hand only by another, and after a cancellation nothing is (a second close, a
\* close after a cancellation, a finalization beside a manual record).
THEOREM RecordsStand ==
    Spec => [][\A s \in Students :
                  /\ record[s].source # "none" => record'[s] = record[s] \/ record'[s].source = "manual"
                  /\ session.status = "cancelled" => record'[s] = record[s]]_vars
<1> DEFINE Stand ==
        \A s \in Students :
            /\ record[s].source # "none" => record'[s] = record[s] \/ record'[s].source = "manual"
            /\ session.status = "cancelled" => record'[s] = record[s]
<1>1. ASSUME RecordsBelong, [Ledger!LedgerNext]_(Ledger!ledgerVars) PROVE Stand
    <2>1. CASE UNCHANGED Ledger!ledgerVars \/ Ledger!Schedule \/ Ledger!Open \/ Ledger!CallOff
        BY <2>1 DEF Ledger!ledgerVars, Ledger!Schedule, Ledger!Open, Ledger!CallOff
    <2>2. ASSUME NEW t \in Students, Ledger!Decide(t) PROVE Stand
        BY <1>1, <2>2 DEF Ledger!Decide, RecordsBelong
    <2>3. CASE Ledger!Close
        <3>1. \A s \in Students : record[s].source \in {"none", "manual"}
            BY <1>1, <2>3 DEF Ledger!Close, RecordsBelong, RecordRow, Sources
        <3> QED
            BY <2>3, <3>1 DEF Ledger!Close
    <2> QED
        BY <1>1, <2>1, <2>2, <2>3 DEF Ledger!LedgerNext
<1>2. Typed /\ RecordsBelong /\ [Next]_vars => [Stand]_vars
    BY <1>1, LedgerStep
<1> QED
    BY <1>2, AlwaysTyped, RecordsFollowTheSession, PTL DEF Spec

\* Where the session does not ask for the face, the comment of reconcile_before_close
\* is right as it stands: the decision is the same whatever commits first.  The
\* counterexample of OrderIndependence needs a face step.
THEOREM OrderMattersForFacesOnly == Spec => [](~session.face => OrderIndependence)
<1>1. RecordsMatchEvidence => (~session.face => OrderIndependence)
    BY DEF RecordsMatchEvidence, OvertakenByFace, OrderIndependence
<1> QED
    BY <1>1, DecisionsMatchEvidence, PTL

\* Decisions by hand: a waiver is given to a session that was started, and whoever was
\* reviewed has a manual record.
HandsSound ==
    /\ waived => PastActivation
    /\ \A s \in reviewed : record[s].source = "manual"

LEMMA HandMoves ==
    ASSUME [Next]_vars
    PROVE  \/ UNCHANGED <<waived, record, reviewed>>
           \/ Waive
           \/ \E at : Finalize(at)
           \/ /\ UNCHANGED <<session, waived>>
              /\ \E s \in Students, status \in FinalStatuses :
                    /\ SetStatus(s, status)
                    /\ reviewed' \in {reviewed, reviewed \cup {s}}
<1>1. CASE LifecycleStep
    BY <1>1 DEF LifecycleStep, Create, Activate, CloseBegin, CloseCommit, AutoClose, Cancel,
        LecturerGivesUp, decisionVars
<1>2. CASE StudentStep
    BY <1>2 DEF StudentStep, GeofenceBegin, GeofenceCommit, StartBegin, StartCommit,
        FaceBegin, FaceLockStatement, FaceRecord, CoreCheckIn, CheckIn, Abandon, Begin,
        OnlyCalls, decisionVars
<1>3. CASE DecisionStep
    BY <1>3, ChoiceAssumption DEF DecisionStep, ManualSet, Review, sessionVars
<1>4. CASE QrStep
    BY <1>4 DEF QrStep, LaunchBegin, LaunchCommit, VoidBatch, DeactivateBatch,
        OnlyBatches, ScanBegin, ScanCommit, ScanLost, OnlyScans, decisionVars
<1>5. CASE Tick \/ UNCHANGED vars
    BY <1>5 DEF Tick, vars, decisionVars
<1> QED
    BY <1>1, <1>2, <1>3, <1>4, <1>5 DEF Next

LEMMA ManualStays ==
    ASSUME Typed, [Next]_vars, NEW s \in Students, record[s].source = "manual"
    PROVE  record'[s].source = "manual"
<1>1. CASE UNCHANGED record
    BY <1>1
<1>2. ASSUME NEW at, Finalize(at) PROVE record'[s].source = "manual"
    BY <1>2 DEF Finalize, KeepsRecord
<1>3. ASSUME NEW t \in Students, NEW status \in FinalStatuses, SetStatus(t, status)
      PROVE  record'[s].source = "manual"
    BY <1>3 DEF SetStatus, Typed, TypeOK
<1> QED
    BY <1>1, <1>2, <1>3, HandMoves DEF Waive

LEMMA HandsSoundStep ==
    ASSUME Typed, HandsSound, [Next]_vars
    PROVE  HandsSound'
<1>0. reviewed \subseteq Students /\ record \in [Students -> RecordRow]
    BY DEF Typed, TypeOK
<1>1. waived' => PastActivation'
    <2>1. PastActivation => PastActivation'
        <3>1. CASE SameWindow /\ (PastActivation => PastActivation')
            BY <3>1
        <3>2. CASE session.status \in {"none", "scheduled"}
            BY <3>2 DEF PastActivation
        <3> QED
            BY <3>1, <3>2, SessionMoves
    <2>2. CASE Waive
        BY <2>2 DEF Waive, sessionVars, PastActivation
    <2>3. CASE waived' = waived
        BY <2>1, <2>3 DEF HandsSound
    <2> QED
        BY <2>2, <2>3, HandMoves DEF Finalize
<1>2. ASSUME NEW s \in reviewed' PROVE record'[s].source = "manual"
    <2>1. CASE s \in reviewed
        BY <1>0, <2>1, ManualStays DEF HandsSound
    <2>2. CASE s \notin reviewed
        <3>1. PICK t \in Students, status \in FinalStatuses :
                  SetStatus(t, status) /\ reviewed' \in {reviewed, reviewed \cup {t}}
            BY <1>2, <2>2, HandMoves DEF Waive, Finalize
        <3>2. s = t
            BY <1>2, <2>2, <3>1
        <3> QED
            BY <1>0, <3>1, <3>2 DEF SetStatus
    <2> QED
        BY <2>1, <2>2
<1> QED
    BY <1>1, <1>2 DEF HandsSound

\* Only a location reading fails an attempt for location.
LEMMA ReadingsFail ==
    ASSUME Typed, [Next]_vars, NEW s \in Students, attempt'[s] # attempt[s],
           attempt'[s].status = "failed", attempt'[s].reason \in ReopenableReasons
    PROVE  \E c \in calls, reading \in Readings : GeofenceCommit(c, reading) /\ c.student = s
<1>0. /\ attempt \in [Students -> AttemptRow]
      /\ \A c \in calls : c.student \in Students
    BY DEF Typed, TypeOK, StudentCall
<1>1. ASSUME NEW row \in AttemptRow, NEW pass, attempt'[s] = TryCheckIn(row, pass),
             row.status = "in_progress" \/ row = attempt[s]
      PROVE  FALSE
    BY <1>1 DEF TryCheckIn, CheckedIn, AttemptRow
<1>2. ASSUME NEW at, Finalize(at) PROVE FALSE
    BY <1>0, <1>2 DEF Finalize, Reconciled, CheckedIn, AttemptRow
<1>3. CASE LifecycleStep
    BY <1>2, <1>3 DEF LifecycleStep, Create, Activate, CloseBegin, CloseCommit, AutoClose, Cancel,
        LecturerGivesUp, evidenceVars
<1>4. CASE DecisionStep
    BY <1>0, <1>4 DEF DecisionStep, Waive, ManualSet, Review, evidenceVars, AttemptRow
<1>5. CASE QrStep
    BY <1>5 DEF QrStep, LaunchBegin, LaunchCommit, VoidBatch, DeactivateBatch, OnlyBatches,
        ScanBegin, ScanCommit, ScanLost, OnlyScans, evidenceVars
<1>6. CASE Tick \/ UNCHANGED vars
    BY <1>6 DEF Tick, vars, evidenceVars
<1>7. ASSUME NEW c \in calls, NEW reading \in Readings, GeofenceCommit(c, reading)
      PROVE  c.student = s
    BY <1>0, <1>7 DEF GeofenceCommit
<1>8. ASSUME NEW c \in calls, StartCommit(c) PROVE FALSE
    <2>1. CASE c.student = s
        <3>1. attempt'[s] = TryCheckIn(StartedAttempt(c), passed[s])
            BY <1>0, <1>8, <2>1 DEF StartCommit
        <3>2. StartedAttempt(c) \in AttemptRow /\ StartedAttempt(c).status = "in_progress"
            BY <1>8, StartedTyped DEF StartCommit
        <3> QED
            BY <1>1, <3>1, <3>2
    <2>2. CASE c.student # s
        BY <1>0, <1>8, <2>2 DEF StartCommit
    <2> QED
        BY <2>1, <2>2
<1>9. ASSUME NEW c \in calls, NEW matched \in BOOLEAN, FaceRecord(c, matched) PROVE FALSE
    <2>1. attempt' = [attempt EXCEPT ![c.student] =
                         FailedAttempt(attempt[c.student], "FACE_ATTEMPT_LIMIT_REACHED")]
        BY <1>0, <1>9 DEF FaceRecord
    <2>2. attempt'[s].reason = "FACE_ATTEMPT_LIMIT_REACHED"
        BY <1>0, <2>1 DEF FailedAttempt, AttemptRow
    <2> QED
        BY <2>2 DEF ReopenableReasons
<1>10. ASSUME NEW t \in Students, CheckInAttempt(t) PROVE FALSE
    <2>1. attempt' = [attempt EXCEPT ![t] = TryCheckIn(attempt[t], passed[t])]
        BY <1>10 DEF CheckInAttempt
    <2> QED
        BY <1>0, <1>1, <2>1
<1>11. CASE OnlyCalls
    BY <1>11 DEF OnlyCalls, evidenceVars
<1>12. CASE StudentStep
    BY <1>0, <1>7, <1>8, <1>9, <1>10, <1>11, <1>12 DEF StudentStep, GeofenceBegin, StartBegin,
        FaceBegin, Begin, FaceLockStatement, Abandon, CoreCheckIn, CheckIn
<1> QED
    BY <1>3, <1>4, <1>5, <1>6, <1>12 DEF Next

\* The waiver leaves nobody locked out, and afterwards only a reading whose statement
\* read the session before the waiver locks anyone out (lock_attendance_session,
\* grant_geofence_waiver): the finding has no other cause.
THEOREM LockoutsAreRaces == Spec => LockoutsMeetTheWaiver
<1> DEFINE Met ==
        waived' /\ session'.status = "active" =>
            \A s \in Students : LockedOut(s)' =>
                \/ waived /\ session.status = "active" /\ LockedOut(s)
                \/ \E c \in calls \ calls' : c.kind = "geofence" /\ c.student = s /\ ~c.seen
<1>1. ASSUME Typed, RecordsBelong, HandsSound, [Next]_vars PROVE Met
    <2> SUFFICES ASSUME waived', session'.status = "active", NEW s \in Students, LockedOut(s)'
                 PROVE  \/ waived /\ session.status = "active" /\ LockedOut(s)
                        \/ \E c \in calls \ calls' :
                              c.kind = "geofence" /\ c.student = s /\ ~c.seen
        OBVIOUS
    <2>0. /\ record \in [Students -> RecordRow] /\ attempt \in [Students -> AttemptRow]
          /\ calls \subseteq StudentCall /\ waived \in BOOLEAN
        BY <1>1 DEF Typed, TypeOK
    <2>1. ~Waive
        <3> SUFFICES ASSUME Waive PROVE FALSE
            OBVIOUS
        <3>1. attempt'[s] = attempt[s] /\ ~Reopenable(s)
            BY <2>0 DEF Waive, LockedOut, AttemptRow
        <3>2. record[s].source # "none" \/ s \in reviewed
            BY <3>1 DEF LockedOut, Reopenable
        <3>3. record[s].source # "manual" /\ record[s].source # "automatic"
            BY <1>1 DEF Waive, LockedOut, RecordsBelong
        <3>4. record[s].source \in {"none", "automatic", "manual"}
            BY <2>0 DEF RecordRow, Sources
        <3> QED
            BY <1>1, <3>2, <3>3, <3>4 DEF HandsSound
    <2>2. waived
        BY <1>1, <2>1, HandMoves DEF Finalize
    <2>3. session.status = "active"
        <3>1. session.status \in {"scheduled", "active"}
            BY <1>1, LedgerStep DEF Ledger!LedgerNext, Ledger!ledgerVars, Ledger!Schedule, Ledger!Open,
                Ledger!Decide, Ledger!Close, Ledger!CallOff
        <3> QED
            BY <1>1, <2>2, <3>1 DEF HandsSound, PastActivation
    <2>4. record[s].source # "manual"
        BY <1>1, ManualStays DEF LockedOut
    <2>5. CASE attempt'[s] = attempt[s]
        BY <2>2, <2>3, <2>4, <2>5 DEF LockedOut
    <2>6. CASE attempt'[s] # attempt[s]
        <3>1. PICK c \in calls, reading \in Readings : GeofenceCommit(c, reading) /\ c.student = s
            BY <1>1, <2>6, ReadingsFail DEF LockedOut
        <3>2. c.kind = "geofence" /\ FALSE \in WaiverRead(c) /\ calls' = calls \ {c}
            BY <3>1 DEF GeofenceCommit, Leave
        <3>3. ~c.seen
            BY <2>0, <2>2, <3>2 DEF WaiverRead, StudentCall
        <3> QED
            BY <3>1, <3>2, <3>3
    <2> QED
        BY <2>5, <2>6
<1>2. Typed /\ RecordsBelong /\ HandsSound /\ [Next]_vars => [Met]_vars
    BY <1>1
<1>3. Init => HandsSound
    BY DEF Init, HandsSound
<1> QED
    BY <1>2, <1>3, AlwaysTyped, RecordsFollowTheSession, HandsSoundStep, PTL
    DEF Spec, LockoutsMeetTheWaiver

-----------------------------------------------------------------------------
(* The screens and the decision.                                           *)

\* The lecturer's line for a batch shows a gap where a checked-in student of the
\* roster was asked for the batch by the documented rule and did not scan it.
LEMMA TableGaps ==
    ASSUME Typed, EvidenceInWindow, AllEarned, RowsSound, NEW b \in Launched
    PROVE  Participation(b).passed # Participation(b).required <=>
               \E s \in roster : attempt[s].status = "checked_in" /\ b \in Asked(s) /\ b \notin accepted[s]
<1> DEFINE asked   == {s \in roster : attempt[s].status = "checked_in" /\ b \in Asked(s)}
           scanned == {s \in asked : b \in accepted[s]}
           table   == {s \in roster : /\ attempt[s].status = "checked_in"
                                      /\ attempt[s].checkedInAt # NoTime
                                      /\ attempt[s].checkedInAt < batch[b].activatedAt
                                      /\ batch[b].voided = FALSE}
<1>1. b \in Batches /\ batch[b].activatedAt # NoTime
    BY DEF Launched, RowsSound
<1>2. \A s \in roster : attempt[s].status = "checked_in" => attempt[s].checkedInAt # NoTime
    BY ScheduleAssumption, NoTimeAssumption DEF AllEarned, EarnedBy, InWindow, Time, Typed, TypeOK
<1>3. table = asked
    BY <1>1, <1>2 DEF Asked
<1>4. Participation(b) = [required |-> Cardinality(table),
                          passed |-> Cardinality({s \in table : b \in accepted[s]})]
    BY DEF Participation
<1>5. IsFiniteSet(asked)
    <2>1. asked \subseteq Students
        BY DEF Typed, TypeOK
    <2> QED
        BY <2>1, StudentAssumption, FS_Subset
<1> HIDE DEF table
<1>6. Participation(b).required = Cardinality(asked) /\ Participation(b).passed = Cardinality(scanned)
    BY <1>3, <1>4
<1>7. scanned \subseteq asked /\ (Cardinality(scanned) = Cardinality(asked) => scanned = asked)
    BY <1>5, FS_Subset
<1>8. scanned = asked <=> ~\E s \in roster : attempt[s].status = "checked_in" /\ b \in Asked(s)
                                                /\ b \notin accepted[s]
    OBVIOUS
<1> HIDE DEF scanned, asked
<1> QED
    BY <1>6, <1>7, <1>8

LEMMA ScreensHold ==
    ASSUME Typed, EvidenceInWindow, AllEarned, RowsSound, RecordsMatchEvidence, RecordsBelong
    PROVE  ScreensMatchDecision
<1> SUFFICES ASSUME Ended PROVE ScreensMatchDecision
    BY DEF ScreensMatchDecision
<1>1. ASSUME NEW s \in roster, record[s].source = "automatic"
      PROVE  \/ record[s].status \in
                    IF AttendanceView(s).checkIn = "none" THEN {"absent"}
                    ELSE IF QrProgress(s).passed = QrProgress(s).required THEN {"present", "late"}
                    ELSE IF QrProgress(s).passed = 0 THEN {"absent"} ELSE {"left_early"}
             \/ OvertakenByFace(s)
    <2>1. s \in Students
        BY DEF Typed, TypeOK
    <2>2. CASE OvertakenByFace(s)
        BY <2>2
    <2>3. CASE Deserves(s, record[s].status) /\ attempt[s].status # "checked_in"
        <3>1. AttendanceView(s).checkIn = "none"
            BY <2>1, <2>3 DEF AttendanceView, RowsSound
        <3> QED
            BY <2>3, <3>1 DEF Deserves
    <2>4. CASE Deserves(s, record[s].status) /\ attempt[s].status = "checked_in"
        <3> DEFINE scanned == Asked(s) \cap accepted[s]
        <3>1. AttendanceView(s).checkIn # "none"
            BY <2>1, <2>4 DEF AttendanceView, RowsSound
        <3>2. QrProgress(s).required = Cardinality(Asked(s)) /\ QrProgress(s).passed = Cardinality(scanned)
            BY <2>1, <2>4, ProgressIsAsked DEF QrProgress
        <3>3. IsFiniteSet(Asked(s))
            BY BatchAssumption, FS_Subset DEF Asked
        <3>4. IsFiniteSet(scanned) /\ (Cardinality(scanned) = Cardinality(Asked(s)) => scanned = Asked(s))
            BY <3>3, FS_Subset
        <3>5. Cardinality(scanned) = 0 <=> scanned = {}
            BY <3>4, FS_EmptySet
        <3>6. CASE Asked(s) \subseteq accepted[s]
            <4>1. scanned = Asked(s)
                BY <3>6
            <4>2. record[s].status \in {"present", "late"}
                BY <2>4, <3>6 DEF Deserves
            <4> QED
                BY <3>1, <3>2, <4>1, <4>2
        <3>7. CASE ~(Asked(s) \subseteq accepted[s])
            <4>1. Cardinality(scanned) # Cardinality(Asked(s))
                BY <3>4, <3>7
            <4>2. record[s].status = IF scanned = {} THEN "absent" ELSE "left_early"
                BY <2>4, <3>7 DEF Deserves
            <4> HIDE DEF scanned
            <4> QED
                BY <3>1, <3>2, <3>5, <4>1, <4>2
        <3> QED
            BY <3>6, <3>7
    <2> QED
        BY <1>1, <2>2, <2>3, <2>4 DEF RecordsMatchEvidence
<1> DEFINE gaps  == {b \in Launched : Participation(b).passed # Participation(b).required}
           short == {s \in roster : /\ AttendanceView(s).attempt = "checked_in"
                                    /\ record[s].status \in {"absent", "left_early"}}
<1>2. ASSUME NEW s \in roster
      PROVE  /\ s \in Students /\ record[s].source \in {"automatic", "manual"}
             /\ AttendanceView(s).attempt = attempt[s].status
    <2>1. s \in Students
        BY DEF Typed, TypeOK
    <2> QED
        BY <2>1 DEF RecordsBelong, RecordRow, Sources, AttendanceView
<1>3. ASSUME gaps # {} PROVE short # {} \/ \E s \in roster : record[s].source = "manual"
    <2>1. PICK b \in gaps : TRUE
        BY <1>3
    <2>2. PICK s \in roster : attempt[s].status = "checked_in" /\ b \in Asked(s) /\ b \notin accepted[s]
        BY <2>1, TableGaps
    <2>3. CASE record[s].source = "automatic"
        <3>1. Deserves(s, record[s].status) => record[s].status \in {"absent", "left_early"}
            BY <2>2 DEF Deserves
        <3>2. record[s].status \in {"absent", "left_early"}
            BY <2>3, <3>1 DEF RecordsMatchEvidence, OvertakenByFace
        <3> QED
            BY <1>2, <2>2, <3>2
    <2> QED
        BY <1>2, <2>3
<1>4. ASSUME gaps = {}, NEW s \in short, record[s].source # "manual" PROVE OvertakenByFace(s)
    <2>1. /\ s \in roster /\ s \in Students /\ attempt[s].status = "checked_in"
          /\ record[s].source = "automatic" /\ record[s].status \in {"absent", "left_early"}
        BY <1>2, <1>4
    <2>2. Asked(s) \subseteq accepted[s]
        <3> SUFFICES ASSUME NEW b \in Asked(s), b \notin accepted[s] PROVE FALSE
            OBVIOUS
        <3>1. b \in Launched
            BY DEF Asked, Launched, RowsSound
        <3> QED
            BY <1>4, <2>1, <3>1, TableGaps
    <2>3. ~Deserves(s, record[s].status)
        BY <2>1, <2>2 DEF Deserves
    <2> QED
        BY <2>1, <2>3 DEF RecordsMatchEvidence
<1> QED
    BY <1>1, <1>3, <1>4 DEF ScreensMatchDecision

\* After the close the student's screen, the lecturer's table and the records tell
\* the same story, for every roster and every finite number of batches.
THEOREM ScreensAgree == Spec => []ScreensMatchDecision
BY AlwaysMatched, RecordsFollowTheSession, ScreensHold, PTL

\* No step takes a launch or its time back, and none undoes a voiding.
LEMMA LaunchedStays ==
    ASSUME Typed, [Next]_vars, NEW b \in Batches, batch[b].status # "unused"
    PROVE  /\ batch'[b].status # "unused"
           /\ batch'[b].activatedAt = batch[b].activatedAt
           /\ batch[b].voided => batch'[b].voided
<1> DEFINE Stays == /\ batch'[b].status # "unused"
                    /\ batch'[b].activatedAt = batch[b].activatedAt
                    /\ batch[b].voided => batch'[b].voided
<1>0. batch \in [Batches -> BatchRow]
    BY DEF Typed, TypeOK
<1>1. CASE batch'[b] = batch[b]
    BY <1>1
<1>2. CASE \E c \in lecturerCalls, other \in Batches : LaunchCommit(c, other)
    <2>1. PICK c \in lecturerCalls, other \in Batches : LaunchCommit(c, other)
        BY <1>2
    <2> QED
        BY <1>0, <1>1, <2>1 DEF LaunchCommit
<1>3. ASSUME NEW at, batch' = Deactivated(at) PROVE Stays
    BY <1>0, <1>3 DEF Deactivated, BatchRow
<1>4. CASE \E other \in Batches : VoidBatch(other) \/ DeactivateBatch(other)
    <2>1. PICK other \in Batches : VoidBatch(other) \/ DeactivateBatch(other)
        BY <1>4
    <2>2. CASE other # b
        BY <1>0, <1>1, <2>1, <2>2 DEF VoidBatch, DeactivateBatch
    <2>3. CASE other = b
        BY <1>0, <2>1, <2>3 DEF VoidBatch, DeactivateBatch, BatchRow
    <2> QED
        BY <2>2, <2>3
<1>5. CASE UNCHANGED batch
    BY <1>1, <1>5
<1>6. CASE LifecycleStep
    BY <1>3, <1>5, <1>6 DEF LifecycleStep, Create, Activate, CloseBegin, CloseCommit, Finalize,
        AutoClose, Cancel, LecturerGivesUp, qrVars
<1>7. CASE StudentStep
    BY <1>5, <1>7 DEF StudentStep, GeofenceBegin, GeofenceCommit, StartBegin, StartCommit,
        FaceBegin, FaceLockStatement, FaceRecord, CoreCheckIn, CheckIn, Abandon, Begin,
        OnlyCalls, qrVars
<1>8. CASE DecisionStep
    BY <1>5, <1>8 DEF DecisionStep, Waive, ManualSet, Review, qrVars
<1>9. CASE QrStep
    BY <1>2, <1>4, <1>5, <1>9 DEF QrStep, LaunchBegin, ScanBegin, ScanCommit, ScanLost, OnlyScans
<1>10. CASE Tick \/ UNCHANGED vars
    BY <1>5, <1>10 DEF Tick, vars, qrVars
<1> QED
    BY <1>6, <1>7, <1>8, <1>9, <1>10 DEF Next

\* A check-in is dated by the last of the steps it needed, or by the start of the
\* attempt where it needed none.
LEMMA DatedByEvidence ==
    ASSUME Typed, EvidenceInWindow, AllEarned, [Next]_vars, NEW s \in Students,
           attempt[s].status # "checked_in", attempt'[s].status = "checked_in"
    PROVE  /\ attempt'[s].checkedInAt \in Nat
           /\ RequiredSteps(session.face, waived)' = {} =>
                 attempt'[s].startedAt = attempt'[s].checkedInAt
           /\ \A step \in RequiredSteps(session.face, waived)' :
                 passed'[s][step] \in Nat /\ passed'[s][step] <= attempt'[s].checkedInAt
<1>1. Typed' /\ EvidenceMoves /\ AllEarned' /\ session \in SessionRow
    BY TypedStep, EvidenceStep, AllEarnedStep DEF EvidenceInWindow, Typed, TypeOK
<1>2. EarnedBy(attempt[s], passed[s])'
    BY <1>1 DEF AllEarned
<1>3. attempt'[s].checkedInAt \in Nat
    BY <1>2, ScheduleAssumption DEF EarnedBy, InWindow, Time
<1>4. ASSUME NEW step \in RequiredSteps(session.face, waived)'
      PROVE  passed'[s][step] \in Nat /\ passed'[s][step] <= attempt'[s].checkedInAt
    <2>1. passed'[s][step] # NoTime /\ passed'[s][step] <= attempt'[s].checkedInAt
        BY <1>2 DEF EarnedBy
    <2>2. step \in Steps /\ passed'[s][step] \in Stamp
        BY <1>1 DEF RequiredSteps, Typed, TypeOK
    <2> QED
        BY <2>1, <2>2, ScheduleAssumption DEF Stamp, Time
<1>5. PICK row, bound : ChecksIn(s, row, bound)
    <2>1. Writes(s)
        BY <1>1 DEF EvidenceMoves
    <2>2. ~\E other : Opens(s, other)
        BY DEF Opens, Continues
    <2>3. ASSUME NEW other, NEW reason PROVE ~Fails(s, other, reason)
        BY DEF Fails, Continues, FailedAttempt, AttemptRow
    <2>4. ~Reopens(s)
        BY DEF Reopens, Typed, TypeOK, AttemptRow
    <2> QED
        BY <2>1, <2>2, <2>3, <2>4 DEF Writes
<1>6. RequiredSteps(session.face, waived)' = RequiredSteps(session.face, waived)
    BY <1>1, <1>5 DEF ChecksIn, Finalize, SessionRow
<1>7. ASSUME RequiredSteps(session.face, waived)' = {}
      PROVE  attempt'[s].startedAt = attempt'[s].checkedInAt
    BY <1>5, <1>6, <1>7 DEF ChecksIn, Continues, CheckedIn, CheckInTime, AttemptRow
<1> QED
    BY <1>3, <1>4, <1>7

LEMMA AskedMoves ==
    ASSUME Typed, EvidenceInWindow, AllEarned, RowsSound, [Next]_vars, NEW s \in Students, s \in roster'
    PROVE  /\ \A b \in AskedBatches(s)' \ AskedBatches(s) :
                 \/ b \notin Launched /\ s \in Notified(b)'
                 \/ b \in Launched /\ attempt[s].status # "checked_in" /\ ReadyBefore(s, b)'
           /\ \A b \in AskedBatches(s) \ AskedBatches(s)' : ~batch[b].voided /\ batch'[b].voided
<1>1. /\ attempt[s].status = "checked_in" => attempt'[s] = attempt[s]
      /\ RowsSound' /\ Typed'
    BY AttemptMoves, RowsSoundStep, TypedStep DEF Moves, Reopenable
<1>2. ASSUME NEW b \in AskedBatches(s)', b \notin AskedBatches(s)
      PROVE  \/ b \notin Launched /\ s \in Notified(b)'
             \/ b \in Launched /\ attempt[s].status # "checked_in" /\ ReadyBefore(s, b)'
    <2>1. /\ b \in Batches /\ batch'[b].status # "unused" /\ attempt'[s].status = "checked_in"
          /\ batch'[b].activatedAt > attempt'[s].checkedInAt /\ ~batch'[b].voided
        BY <1>2 DEF AskedBatches, AskedOf, Launched
    <2>2. CASE b \notin Launched
        BY <2>1, <2>2 DEF Notified
    <2>3. CASE b \in Launched
        <3>1. batch'[b].activatedAt = batch[b].activatedAt /\ (batch[b].voided => batch'[b].voided)
            BY <2>3, LaunchedStays DEF Launched
        <3>2. attempt[s].status # "checked_in"
            BY <1>1, <1>2, <2>1, <2>3, <3>1 DEF AskedBatches, AskedOf
        <3>3. batch'[b].activatedAt \in Nat
            BY <1>1, <2>1, ScheduleAssumption DEF RowsSound, Typed, TypeOK, BatchRow, Stamp, Time
        <3>4. ReadyBefore(s, b)'
            BY <2>1, <3>2, <3>3, DatedByEvidence DEF ReadyBefore
        <3> QED
            BY <2>3, <3>2, <3>4
    <2> QED
        BY <2>2, <2>3
<1>3. ASSUME NEW b \in AskedBatches(s), b \notin AskedBatches(s)'
      PROVE  ~batch[b].voided /\ batch'[b].voided
    <2>1. b \in Batches /\ batch[b].status # "unused" /\ AskedOf(s, b)
        BY <1>3 DEF AskedBatches, Launched
    <2>2. attempt'[s] = attempt[s] /\ batch'[b].status # "unused"
          /\ batch'[b].activatedAt = batch[b].activatedAt
        BY <1>1, <2>1, LaunchedStays DEF AskedOf
    <2> QED
        BY <1>3, <2>1, <2>2 DEF AskedBatches, AskedOf, Launched
<1> QED
    BY <1>2, <1>3

\* A student is asked for a batch by the launch that announces it or by a check-in
\* earned before the launch, and released by voiding alone, for any number of
\* launches, retries, waivers and closes in any order.
THEOREM AsksAreAnnounced == Spec => AskedWhenTold
<1> DEFINE Asks ==
        \A s \in roster' :
            /\ \A b \in AskedBatches(s)' \ AskedBatches(s) :
                  \/ b \notin Launched /\ s \in Notified(b)'
                  \/ b \in Launched /\ attempt[s].status # "checked_in" /\ ReadyBefore(s, b)'
            /\ \A b \in AskedBatches(s) \ AskedBatches(s)' : ~batch[b].voided /\ batch'[b].voided
<1>1. Typed /\ EvidenceInWindow /\ AllEarned /\ RowsSound /\ [Next]_vars => Asks
    <2> SUFFICES ASSUME Typed, EvidenceInWindow, AllEarned, RowsSound, [Next]_vars, NEW s \in roster'
                 PROVE  s \in Students
        BY AskedMoves
    <2> QED
        BY TypedStep DEF Typed, TypeOK
<1>2. Typed /\ EvidenceInWindow /\ AllEarned /\ RowsSound /\ [Next]_vars => [Asks]_vars
    BY <1>1
<1> HIDE DEF Asks
<1>3. Spec => [][Asks]_vars
    BY <1>2, AlwaysMatched, PTL DEF Spec
<1> QED
    BY <1>3 DEF Asks, AskedWhenTold

=============================================================================
