--------------------------- MODULE AttendanceRules ---------------------------
(***************************************************************************)
(* The pure rules of the attendance lifecycle: the parts of the program    *)
(* that decide something from values they are given, without reading or    *)
(* writing a table.                                                        *)
(*                                                                         *)
(* Instants are natural numbers.  NoTime stands for a NULL timestamp.      *)
(***************************************************************************)
EXTENDS Naturals

CONSTANT NoTime

ASSUME NoTimeAssumption == NoTime \notin Nat

\* The two steps a session can ask for before a student is checked in.  QR is
\* not one of them: it is evidence of staying, weighed when the session closes.
Steps == {"geofence", "face"}

InitialStatuses == {"checked_in", "late_checked_in"}
FinalStatuses   == {"present", "late", "left_early", "absent"}

Earlier(a, b) == IF a <= b THEN a ELSE b
Later(a, b)   == IF a >= b THEN a ELSE b

-----------------------------------------------------------------------------
(* Check-in window.                                                        *)

\* The check-in window of a new session.  want holds what the request names
\* (NoTime where it names nothing); policy is the active attendance policy,
\* or NoPolicy, a policy whose window is NoTime.
ResolveCheckInTimes(want, start, end, policy, defaultLate) ==
    LET opens  == IF want.opens # NoTime THEN want.opens ELSE start
        closes == IF want.closes # NoTime THEN want.closes
                  ELSE IF policy.window # NoTime
                       THEN Earlier(opens + policy.window, end)
                       ELSE end
        late   == IF want.late # NoTime THEN want.late
                  ELSE IF policy.window # NoTime
                       THEN Earlier(start + policy.late, closes)
                       ELSE start + defaultLate
    IN  [opens |-> opens, closes |-> closes, late |-> late]

\* What session creation insists on before it stores a window.
ValidWindow(w) == w.opens < w.closes /\ w.opens <= w.late /\ w.late <= w.closes

\* When the lecture effectively began.
EffectiveStart(start, activatedAt) == Later(start, activatedAt)

\* The window an activation stores: fields named at creation are kept as they
\* are, unclamped, and the others move with the effective start.
ActivationWindow(w, explicit, start, end, activatedAt, policy, defaultLate) ==
    LET eff    == EffectiveStart(start, activatedAt)
        opens  == IF "opens" \in explicit THEN w.opens ELSE Earlier(eff, end)
        closes == IF "closes" \in explicit THEN w.closes
                  ELSE IF policy.window # NoTime
                       THEN Earlier(eff + policy.window, end)
                       ELSE end
        late   == IF "late" \in explicit THEN w.late
                  ELSE IF policy.window # NoTime
                       THEN Earlier(eff + policy.late, closes)
                       ELSE Earlier(eff + defaultLate, closes)
    IN  [opens |-> opens, closes |-> closes, late |-> late]

-----------------------------------------------------------------------------
(* Initial check-in.                                                       *)

\* The steps that must genuinely pass: a waived geofence is not one of them.
RequiredSteps(requiresFace, waived) ==
    { step \in Steps : CASE step = "geofence" -> ~waived
                         [] step = "face"     -> requiresFace }

\* Faulty variant: a pass at the very bound is left out.
CountsBefore(passedAt, bound) ==
    passedAt # NoTime /\ (bound # NoTime => passedAt < bound)

\* A step counts if it passed, and passed no later than the bound (if any).
CountsBy(passedAt, bound) ==
    /\ passedAt # NoTime
    /\ bound # NoTime => passedAt <= bound

\* The earliest pass, once one more is recorded.  Readings carry the time their
\* request arrived, so the later to commit may be the earlier pass.
EarliestPass(passedAt, at) == IF passedAt = NoTime THEN at ELSE Earlier(passedAt, at)

\* Every required step has passed.  passed is a function from Steps to the
\* time each step first passed.
Earned(required, passed, bound) ==
    \A step \in required : CountsBy(passed[step], bound)

\* Faulty variant: the first step's time instead of the last's.
FirstStepTime(required, passed, startedAt) ==
    IF required = {} THEN startedAt
    ELSE IF required = Steps THEN Earlier(passed["geofence"], passed["face"])
    ELSE passed[CHOOSE step \in required : TRUE]

\* The check-in time: when the last required step passed, or when the attempt
\* started if nothing is required.
CheckInTime(required, passed, startedAt) ==
    IF required = {} THEN startedAt
    ELSE IF required = Steps THEN Later(passed["geofence"], passed["face"])
    ELSE passed[CHOOSE step \in required : TRUE]

\* Faulty variant: late at the threshold itself.
LateAtThreshold(checkedInAt, lateAfter) ==
    IF checkedInAt >= lateAfter THEN "late_checked_in" ELSE "checked_in"

\* Late when the check-in itself landed after the threshold.
InitialCheckInStatus(checkedInAt, lateAfter) ==
    IF checkedInAt > lateAfter THEN "late_checked_in" ELSE "checked_in"

-----------------------------------------------------------------------------
(* Geofence and final attendance.                                          *)

\* What one geofence reading comes to: a reading that asks for a retry on the
\* last allowed attempt fails the step instead.
FinalizeLastRetry(reading, attemptNumber, maxAttempts) ==
    IF reading = "retry_required" /\ attemptNumber = maxAttempts
    THEN "ATTEMPT_LIMIT_REACHED" ELSE reading

\* Final attendance of a student without a manual record.  required and passed
\* are the sets of QR batches asked of the student and scanned by the student.
DecideFinalAttendance(initial, required, passed) ==
    IF initial = "none" THEN "absent"
    ELSE IF required # {} /\ required \cap passed = {} THEN "absent"
    ELSE IF ~(required \subseteq passed) THEN "left_early"
    ELSE IF initial = "late_checked_in" THEN "late"
    ELSE "present"

=============================================================================
