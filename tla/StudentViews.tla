---------------------------- MODULE StudentViews ----------------------------
(***************************************************************************)
(* What the screens say of a session (active_sessions, qr_session): each   *)
(* is computed by statements of its own, apart from the guards and the     *)
(* decisions it speaks of.  Nothing is written.  A screen reads with       *)
(* several statements; a view here is what they show when nothing commits  *)
(* in between.                                                             *)
(***************************************************************************)
EXTENDS AttendanceSystem

-----------------------------------------------------------------------------
(* The student's session and attendance state.                             *)

\* A session is found by the students on its roster.
SessionFound(s) == session.status # "none" /\ s \in roster

\* closed_at and cancelled_at decide before the stored status does.
SessionState ==
    IF session.status \in {"none", "scheduled"} THEN "scheduled" ELSE session.status

\* Faulty variant: a failed attempt is offered again.
OfferAgain(s) ==
    /\ SessionState = "active"
    /\ record[s].source = "none"
    /\ attempt[s].status # "checked_in"
    /\ session.opens <= now /\ now < session.closes

CanStartCheckIn(s) ==
    /\ SessionState = "active"
    /\ record[s].source = "none"
    /\ attempt[s].status \notin {"checked_in", "failed"}
    /\ session.opens <= now /\ now < session.closes

VisibleSession(s) ==
    /\ s \in roster
    /\ session.status = "active"
    /\ \/ session.opens <= now /\ now < session.closes
       \/ attempt[s].status = "checked_in"

\* The state a student is shown.
AttendanceView(s) ==
    [state    |-> SessionState,
     start    |-> CanStartCheckIn(s),
     attempt  |-> attempt[s].status,
     located  |-> located[s],
     face     |-> passed[s]["face"] # NoTime,
     checkIn  |-> attempt[s].initial,
     final    |-> record[s].status,
     required |-> RequiredSteps(session.face, waived)]

-----------------------------------------------------------------------------
(* QR batches, as the student's progress and the lecturer's table tell.    *)

Launched == {b \in Batches : batch[b].status # "unused"}

\* Faulty variant: voided batches are still asked for.
AskedRegardless(s, b) ==
    attempt[s].status = "checked_in" /\ batch[b].activatedAt > attempt[s].checkedInAt

AskedOf(s, b) ==
    /\ attempt[s].status = "checked_in"
    /\ batch[b].activatedAt > attempt[s].checkedInAt
    /\ ~batch[b].voided

StudentBatches(s) ==
    [b \in Launched |-> [required |-> AskedOf(s, b),
                         passed   |-> ~batch[b].voided /\ b \in accepted[s]]]

QrProgress(s) ==
    LET mine == StudentBatches(s) IN
    [required |-> Cardinality({b \in Launched : mine[b].required}),
     passed   |-> Cardinality({b \in Launched : mine[b].required /\ mine[b].passed})]

\* Faulty variant: the lecturer's table counts voided batches.
ParticipationRegardless(b) ==
    LET asked == {s \in roster : attempt[s].status = "checked_in"
                                 /\ attempt[s].checkedInAt < batch[b].activatedAt} IN
    [required |-> Cardinality(asked),
     passed   |-> Cardinality({s \in asked : b \in accepted[s]})]

\* The lecturer's line for a batch, a statement of its own over all attempts.
Participation(b) ==
    LET asked == {s \in roster : /\ attempt[s].status = "checked_in"
                                 /\ attempt[s].checkedInAt # NoTime
                                 /\ attempt[s].checkedInAt < batch[b].activatedAt
                                 /\ batch[b].voided = FALSE} IN
    [required |-> Cardinality(asked),
     passed   |-> Cardinality({s \in asked : b \in accepted[s]})]

\* Faulty variant: a launch that waited too long for its lock tells nobody.
NotifiedIfLive(b) ==
    {s \in roster : /\ attempt[s].status = "checked_in"
                    /\ batch[b].activatedAt > attempt[s].checkedInAt
                    /\ now < batch[b].expiresAt}

\* Who is notified of batch b by the transaction that launches it.
Notified(b) ==
    {s \in roster : /\ attempt[s].status = "checked_in"
                    /\ batch[b].activatedAt > attempt[s].checkedInAt
                    /\ ~batch[b].voided}

-----------------------------------------------------------------------------
(* Properties.                                                             *)

\* A location entry point, the face step or the check-in itself, if a request sent
\* now would be taken.
SomeStepOpen(s) ==
    LET request == [kind |-> "geofence", student |-> s, at |-> now, seen |-> waived] IN
    \/ /\ Eligible(request)
       /\ StartedAttempt(request).status = "in_progress"
       /\ waived \/ tries[s]["geofence"] < MaxGeofenceAttempts
    \/ FaceOpen(s, now) /\ FaceAllowed(s)
    \/ TryCheckIn(attempt[s], passed[s]).status = "checked_in"

\* A student who is told to check in can: whatever readings, captures, waivers and
\* decisions came before, one of the steps still takes a request, and the session
\* is on the student's list.  No attempt ends up in progress with every step of it
\* used up.
OfferKept ==
    \A s \in Students :
        SessionFound(s) /\ CanStartCheckIn(s) => SomeStepOpen(s) /\ VisibleSession(s)

\* After the close the three counts agree.  The progress a student is shown is the
\* one the decision was made by; and where the lecturer's table shows a batch some
\* student did not scan, a student left early, is absent, or was decided by hand,
\* while a table without a gap has no checked-in student for whom it is so.  The one
\* exception is the records': a face pass recorded by a request let in before the
\* close shows as a check-in beside the absence.
ScreensMatchDecision ==
    Ended =>
        /\ \A s \in roster : record[s].source = "automatic" =>
              LET mine == QrProgress(s) IN
              \/ record[s].status \in
                     IF AttendanceView(s).checkIn = "none" THEN {"absent"}
                     ELSE IF mine.passed = mine.required THEN {"present", "late"}
                     ELSE IF mine.passed = 0 THEN {"absent"} ELSE {"left_early"}
              \/ OvertakenByFace(s)
        /\ LET gaps == {b \in Launched : Participation(b).passed # Participation(b).required}
               short == {s \in roster : /\ AttendanceView(s).attempt = "checked_in"
                                        /\ record[s].status \in {"absent", "left_early"}}
           IN  /\ gaps # {} => short # {} \/ \E s \in roster : record[s].source = "manual"
               /\ gaps = {} => \A s \in short : record[s].source = "manual" \/ OvertakenByFace(s)

\* All that b's student needed for the check-in was given before b was launched.
ReadyBefore(s, b) ==
    LET required == RequiredSteps(session.face, waived) IN
    /\ required = {} => attempt[s].startedAt < batch[b].activatedAt
    /\ \A step \in required : passed[s][step] < batch[b].activatedAt

AskedBatches(s) == {b \in Launched : AskedOf(s, b)}

\* A student is asked for a batch by its launch, which tells the student, or by a
\* check-in written after the launch and earned before it: no retry, waiver, close
\* or other launch ever asks a checked-in student for a batch nobody announced to
\* that student.  What was asked once, only voiding takes back.
AskedWhenTold ==
    [][\A s \in roster' :
          /\ \A b \in AskedBatches(s)' \ AskedBatches(s) :
                \/ b \notin Launched /\ s \in Notified(b)'
                \/ b \in Launched /\ attempt[s].status # "checked_in" /\ ReadyBefore(s, b)'
          /\ \A b \in AskedBatches(s) \ AskedBatches(s)' : ~batch[b].voided /\ batch'[b].voided]_vars

=============================================================================
