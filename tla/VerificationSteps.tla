-------------------------- MODULE VerificationSteps --------------------------
(***************************************************************************)
(* What a student does to be checked in: a geofence reading, the start of  *)
(* an attempt without location, face verification in the other service,    *)
(* and the check-in that follows a pass.                                   *)
(***************************************************************************)
EXTENDS AttendanceState

Leave(c) == calls' = calls \ {c}
Join(c)  == calls' = calls \cup {c}
Stage(c, kind, seen) == calls' = (calls \ {c}) \cup {[c EXCEPT !.kind = kind, !.seen = seen]}

OnlyCalls == UNCHANGED <<now, sessionVars, evidenceVars, decisionVars, qrVars,
                         lecturerCalls, scans>>

\* A request that reaches the service reads the clock before anything else.
Begin(s, kind, seen) ==
    /\ MayBegin
    /\ Join([kind |-> kind, student |-> s, at |-> now, seen |-> seen])
    /\ OnlyCalls

\* A call ends without effect: refused by a guard, rolled back, timed out
\* between the services, or lost with the process that served it.
Abandon(c) == Leave(c) /\ OnlyCalls

-----------------------------------------------------------------------------
(* Geofence.                                                               *)

\* A request outside the window of an active session is refused, whatever
\* happens while it waits, and is not modelled.
MayBeEligible == NotEnded /\ (session.status = "active" => WindowOpen(now))

\* The statement that locks the session reads the waiver too.  While it waits
\* for the lock its snapshot ages, so the waiver it reports is that of any
\* moment between the request and the commit.
GeofenceBegin(s) ==
    /\ MayBeEligible
    /\ Begin(s, "geofence", waived)

WaiverRead(c) == {c.seen, waived}

\* The guards both location entry points share.
Eligible(c) ==
    /\ WindowOpen(c.at)
    /\ record[c.student].source = "none"
    /\ c.student \in roster

\* The attempt of the student, created when there is none.
StartedAttempt(c) ==
    IF attempt[c.student].status = "none"
    THEN [NoAttempt EXCEPT !.status = "in_progress", !.startedAt = c.at]
    ELSE attempt[c.student]

FailedAttempt(row, reason) == [row EXCEPT !.status = "failed", !.reason = reason]

Readings == {"passed", "retry_required", "OUTSIDE_GEOFENCE", "MOCK_LOCATION_DETECTED"}

\* One location reading is recorded.  A pass tries the check-in in the same
\* transaction; a failure ends the attempt; the last retry is a failure.
GeofenceCommit(c, reading) ==
    LET s      == c.student
        number == tries[s]["geofence"] + 1
        result == FinalizeLastRetry(reading, number, MaxGeofenceAttempts)
        pass   == IF result = "passed"
                  THEN [passed[s] EXCEPT !["geofence"] = EarliestPass(@, c.at)]
                  ELSE passed[s]
    IN  /\ c.kind = "geofence"
        /\ FALSE \in WaiverRead(c)
        /\ Eligible(c)
        /\ StartedAttempt(c).status = "in_progress"
        /\ number <= MaxGeofenceAttempts
        /\ tries' = [tries EXCEPT ![s]["geofence"] = number]
        /\ located' = [located EXCEPT ![s] = (result = "passed")]
        /\ passed' = [passed EXCEPT ![s] = pass]
        /\ attempt' = [attempt EXCEPT ![s] =
                          CASE result = "passed"         -> TryCheckIn(StartedAttempt(c), pass)
                            [] result = "retry_required" -> StartedAttempt(c)
                            [] OTHER -> FailedAttempt(StartedAttempt(c), result)]
        /\ Leave(c)
        /\ UNCHANGED <<now, sessionVars, decisionVars, qrVars, lecturerCalls, scans>>

\* With location waived the student starts the attempt directly.
StartBegin(s) ==
    /\ MayBeEligible
    /\ Begin(s, "start", waived)

StartCommit(c) ==
    LET s == c.student
    IN  /\ c.kind = "start"
        /\ TRUE \in WaiverRead(c)
        /\ Eligible(c)
        /\ StartedAttempt(c).status = "in_progress"
        /\ attempt' = [attempt EXCEPT ![s] = TryCheckIn(StartedAttempt(c), passed[s])]
        /\ Leave(c)
        /\ UNCHANGED <<now, sessionVars, passed, tries, located, decisionVars,
                       qrVars, lecturerCalls, scans>>

-----------------------------------------------------------------------------
(* Face.  The service reads the attempt and the session, lets go of them   *)
(* for the inference, and locks the attempt, but never the session, to     *)
(* record the outcome.                                                     *)

\* What one snapshot of the session and the geofence readings shows.
FaceOpen(s, at) ==
    /\ WindowOpen(at)
    /\ session.face
    /\ waived \/ located[s]

FaceAllowed(s) ==
    /\ attempt[s].status = "in_progress"
    /\ passed[s]["face"] = NoTime
    /\ tries[s]["face"] < MaxFaceAttempts

FaceBegin(s) ==
    /\ FaceOpen(s, now)
    /\ FaceAllowed(s)
    /\ Begin(s, "inference", FALSE)

\* The statement that locks the attempt takes its snapshot of the session
\* here; it may then wait for the attempt's lock.
FaceLockStatement(c) ==
    /\ c.kind = "inference"
    /\ Stage(c, "locking", FaceOpen(c.student, c.at))
    /\ OnlyCalls

\* Faulty variant: one capture too many.
CanRetryOnceMore(number) == number <= MaxFaceAttempts

CanRetry(number) == number < MaxFaceAttempts

\* With the attempt locked, its row is current and the session is what the
\* snapshot showed.  A capture that does not match on the last allowed
\* attempt fails the verification.
FaceRecord(c, matched) ==
    LET s      == c.student
        number == tries[s]["face"] + 1
    IN  /\ c.kind = "locking"
        /\ c.seen
        /\ FaceAllowed(s)
        /\ tries' = [tries EXCEPT ![s]["face"] = number]
        /\ IF matched
           THEN /\ passed' = [passed EXCEPT ![s]["face"] = c.at]
                /\ Stage(c, "face_passed", TRUE)
                /\ UNCHANGED attempt
           ELSE /\ attempt' = [attempt EXCEPT ![s] =
                                  IF CanRetry(number) THEN @
                                  ELSE FailedAttempt(@, "FACE_ATTEMPT_LIMIT_REACHED")]
                /\ Leave(c)
                /\ UNCHANGED passed
        /\ UNCHANGED <<now, sessionVars, located, decisionVars, qrVars,
                       lecturerCalls, scans>>

-----------------------------------------------------------------------------
(* Check-in.                                                               *)

CheckInAttempt(s) ==
    /\ session.status # "none"
    /\ attempt[s].status # "none"
    /\ attempt' = [attempt EXCEPT ![s] = TryCheckIn(@, passed[s])]

\* Core Backend hears of the face pass and checks the student in, in a
\* transaction of its own.
CoreCheckIn(c) ==
    /\ c.kind = "face_passed"
    /\ CheckInAttempt(c.student)
    /\ Leave(c)
    /\ UNCHANGED <<now, sessionVars, passed, tries, located, decisionVars,
                   qrVars, lecturerCalls, scans>>

\* The student asks for the check-in over HTTP.
CheckIn(s) ==
    /\ CheckInAttempt(s)
    /\ UNCHANGED <<now, sessionVars, passed, tries, located, decisionVars,
                   qrVars, callVars>>

=============================================================================
