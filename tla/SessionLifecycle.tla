--------------------------- MODULE SessionLifecycle ---------------------------
(***************************************************************************)
(* A lecture session from creation to its end: LecturerSessionService,     *)
(* the automatic close, and the finalization both kinds of close run.      *)
(***************************************************************************)
EXTENDS AttendanceState

\* The lecturer schedules the session, and the enrolled students become its
\* roster.  Fields of the window the request names are remembered as explicit.
Create(want, enrolled) ==
    LET w == ResolveCheckInTimes(want, SchedStart, SchedEnd, Policy, DefaultLate)
    IN  /\ session.status = "none"
        /\ ValidWindow(w)
        /\ session' = [NoSession EXCEPT
                         !.status = "scheduled", !.face = want.face, !.qr = want.qr,
                         !.opens = w.opens, !.closes = w.closes, !.late = w.late,
                         !.explicit = { f \in {"opens", "closes", "late"} : want[f] # NoTime }]
        /\ roster' = enrolled
        /\ UNCHANGED <<now, evidenceVars, decisionVars, qrVars, callVars>>

\* The lecturer starts the session: the window follows the effective start.
\* The clock is read under the session's lock.
Activate ==
    LET w == ActivationWindow(session, session.explicit, SchedStart, SchedEnd,
                              now, Policy, DefaultLate)
    IN  /\ session.status = "scheduled"
        /\ session' = [session EXCEPT !.status = "active", !.opens = w.opens,
                                      !.closes = w.closes, !.late = w.late]
        /\ UNCHANGED <<now, roster, evidenceVars, decisionVars, qrVars, callVars>>

-----------------------------------------------------------------------------
(* The end of a session.                                                   *)

\* Live batches lose their status; expired ones keep theirs.
Deactivated(at) ==
    [b \in Batches |->
        IF batch[b].status = "active" /\ batch[b].expiresAt > at
        THEN [batch[b] EXCEPT !.status = "inactive"] ELSE batch[b]]

\* Check-ins earned by closedAt are written before attendance is decided.
Reconciled(closedAt) ==
    LET required == RequiredSteps(session.face, waived)
    IN  [s \in Students |->
            IF attempt[s].status = "in_progress" /\ Earned(required, passed[s], closedAt)
            THEN CheckedIn(attempt[s], required, passed[s], session.late)
            ELSE attempt[s]]

\* Faulty variants: manual records overwritten; attempts walked, not the roster.
OverwritesManual(s) == s \notin roster
SkipsNoShows(s) ==
    s \notin roster \/ record[s].source = "manual" \/ attempt[s].status = "none"

\* The rows finalization leaves alone.
KeepsRecord(s) == s \notin roster \/ record[s].source = "manual"

\* Everything that follows marking a session closed: the one path of a
\* lecturer's close and the automatic close.
Finalize(closedAt) ==
    /\ session' = [session EXCEPT !.status = "closed", !.closedAt = closedAt]
    /\ batch' = Deactivated(closedAt)
    /\ attempt' = Reconciled(closedAt)
    /\ record' =
         [s \in Students |->
            IF KeepsRecord(s) THEN record[s]
            ELSE [source |-> "automatic",
                  status |-> DecideFinalAttendance(
                                 attempt'[s].initial,
                                 RequiredBatches(s)', accepted[s])]]
    /\ UNCHANGED <<now, roster, passed, tries, located, waived, reviewed,
                   accepted, calls, scans>>

\* The lecturer asks to close.  closed_at is the database's now(), the start
\* of the transaction, which may wait for the session's lock after that.
CloseBegin ==
    /\ MayBegin
    /\ NotEnded
    /\ lecturerCalls' = lecturerCalls \cup {[kind |-> "close", at |-> now]}
    /\ UNCHANGED <<now, sessionVars, evidenceVars, decisionVars, qrVars, calls, scans>>

CloseCommit(c) ==
    /\ c.kind = "close"
    /\ session.status = "active"
    /\ Finalize(c.at)
    /\ lecturerCalls' = lecturerCalls \ {c}

Overdue == SchedEnd + Grace < now

\* The server closes a session still open Grace after its scheduled end.
\* SKIP LOCKED: it never waits for the session's lock.
AutoClose ==
    /\ session.status = "active"
    /\ Overdue
    /\ Finalize(now)
    /\ UNCHANGED lecturerCalls

\* The lecturer cancels.  No attendance is decided.
Cancel ==
    /\ NotEnded
    /\ session' = [session EXCEPT !.status = "cancelled"]
    /\ batch' = Deactivated(now)
    /\ UNCHANGED <<now, roster, evidenceVars, decisionVars, accepted, callVars>>

\* A lecturer's request ends without effect: refused, rolled back or lost.
LecturerGivesUp(c) ==
    /\ lecturerCalls' = lecturerCalls \ {c}
    /\ UNCHANGED <<now, sessionVars, evidenceVars, decisionVars, qrVars, calls, scans>>

=============================================================================
