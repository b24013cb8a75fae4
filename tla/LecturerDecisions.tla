-------------------------- MODULE LecturerDecisions --------------------------
(***************************************************************************)
(* What a lecturer decides by hand about verification: waiving location    *)
(* for the session, setting one student's attendance, and reviewing a      *)
(* failed attempt.                                                         *)
(***************************************************************************)
EXTENDS AttendanceState

\* Failures a waiver takes back: those of location alone, tampering excepted.
ReopenableReasons == {"OUTSIDE_GEOFENCE", "ATTEMPT_LIMIT_REACHED"}

\* Faulty variant: decided students are reopened too.
ReopenableRegardless(s) ==
    attempt[s].status = "failed" /\ attempt[s].reason \in ReopenableReasons

\* Faulty variant: whoever used up the readings is left behind.
ReopenableOutside(s) ==
    /\ attempt[s].status = "failed"
    /\ attempt[s].reason = "OUTSIDE_GEOFENCE"
    /\ record[s].source = "none"
    /\ s \notin reviewed

Reopenable(s) ==
    /\ attempt[s].status = "failed"
    /\ attempt[s].reason \in ReopenableReasons
    /\ record[s].source = "none"
    /\ s \notin reviewed

\* The waiver is recorded once.  Attempts nobody decided are put back in
\* progress; their readings stay as they are.
Waive ==
    /\ session.status = "active"
    /\ ~waived
    /\ waived' = TRUE
    /\ attempt' = [s \in Students |->
                      IF Reopenable(s)
                      THEN [attempt[s] EXCEPT !.status = "in_progress", !.reason = "none"]
                      ELSE attempt[s]]
    /\ UNCHANGED <<now, sessionVars, passed, tries, located, record, reviewed,
                   qrVars, callVars>>

\* The upsert of a manual record, over whatever is there.  It takes the
\* session's lock, shared, so it never races a close or a cancellation.
SetStatus(s, status) ==
    /\ session.status \in {"active", "closed"}
    /\ s \in roster
    /\ record' = [record EXCEPT ![s] = [status |-> status, source |-> "manual"]]

ManualSet(s, status) ==
    /\ SetStatus(s, status)
    /\ UNCHANGED <<now, sessionVars, evidenceVars, waived, reviewed, qrVars, callVars>>

\* A review of a failed attempt: an approval names present or late, a
\* rejection is absent.  The decision and the manual record land together.
Review(s, status) ==
    /\ attempt[s].status = "failed"
    /\ SetStatus(s, status)
    /\ reviewed' = reviewed \cup {s}
    /\ UNCHANGED <<now, sessionVars, evidenceVars, waived, qrVars, callVars>>

=============================================================================
