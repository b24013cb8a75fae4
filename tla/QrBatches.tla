------------------------------ MODULE QrBatches ------------------------------
(***************************************************************************)
(* QR batches and the scans of them: QrSessionService.                     *)
(***************************************************************************)
EXTENDS AttendanceState

\* Faulty variant: the wrong column.
LiveFromActivation(b, at) ==
    batch[b].status = "active" /\ batch[b].activatedAt > at

Live(b, at) ==
    /\ batch[b].status = "active"
    /\ batch[b].expiresAt > at

OnlyBatches == UNCHANGED <<now, sessionVars, evidenceVars, decisionVars, accepted,
                           calls, scans>>

\* The lecturer launches a batch.  The clock is read before the session's
\* lock is taken.
LaunchBegin(kind) ==
    /\ MayBegin
    /\ NotEnded
    /\ session.qr
    /\ SchedEnd > now
    /\ lecturerCalls' = lecturerCalls \cup {[kind |-> kind, at |-> now]}
    /\ UNCHANGED batch
    /\ OnlyBatches

\* A batch that is still live, by the clock the request read, refuses it.
LaunchCommit(c, b) ==
    /\ c.kind \in {"static", "dynamic"}
    /\ session.status = "active"
    /\ \A other \in Batches : ~Live(other, c.at)
    /\ batch[b].status = "unused"
    /\ batch' = [batch EXCEPT ![b] =
                    [status |-> "active", dynamic |-> c.kind = "dynamic",
                     activatedAt |-> c.at, voided |-> FALSE,
                     expiresAt |-> Earlier(c.at + Validity, SchedEnd)]]
    /\ lecturerCalls' = lecturerCalls \ {c}
    /\ OnlyBatches

\* A void batch asks nothing of anyone; scans of it stay where they are.
VoidBatch(b) ==
    /\ session.status = "active"
    /\ batch[b].status # "unused"
    /\ ~batch[b].voided
    /\ batch' = [batch EXCEPT ![b].voided = TRUE, ![b].status = "inactive"]
    /\ UNCHANGED lecturerCalls
    /\ OnlyBatches

\* Deactivation looks at the batch alone, not at the session.
DeactivateBatch(b) ==
    /\ batch[b].status = "active"
    /\ batch' = [batch EXCEPT ![b].status = "inactive"]
    /\ UNCHANGED lecturerCalls
    /\ OnlyBatches

-----------------------------------------------------------------------------
(* Scans.                                                                  *)

OnlyScans == UNCHANGED <<now, sessionVars, evidenceVars, decisionVars, batch,
                         calls, lecturerCalls>>

\* The batch is open for scanning: the session runs and the batch is not
\* withdrawn.  Expiry is a matter of the code, not of this.
BatchOpen(b) ==
    /\ session.status = "active"
    /\ SchedEnd > now
    /\ batch[b].status = "active"

\* The classification before the scan's transaction, of a genuine code.
ScanBegin(s, b) ==
    /\ MayBegin
    /\ s \in roster
    /\ attempt[s].status = "checked_in"
    /\ b \notin accepted[s]
    /\ scans' = scans \cup {[student |-> s, batch |-> b,
                             verdict |-> BatchOpen(b) /\ now < batch[b].expiresAt]}
    /\ UNCHANGED accepted
    /\ OnlyScans

\* Faulty variant: the classification made before the lock is trusted.
VerdictUnchecked(scan) == scan.verdict

\* Under the session's lock the batch is looked at again.  A static code is
\* classified again, expiry included; a dynamic one keeps its verdict.
ScanVerdict(scan) ==
    /\ BatchOpen(scan.batch)
    /\ IF batch[scan.batch].dynamic
       THEN scan.verdict
       ELSE now < batch[scan.batch].expiresAt

ScanCommit(scan) ==
    /\ attempt[scan.student].status = "checked_in"
    /\ accepted' = [accepted EXCEPT ![scan.student] =
                       IF ScanVerdict(scan) THEN @ \cup {scan.batch} ELSE @]
    /\ scans' = scans \ {scan}
    /\ OnlyScans

\* A scan ends without a row: an error, a lost connection, a crash.
ScanLost(scan) ==
    /\ scans' = scans \ {scan}
    /\ UNCHANGED accepted
    /\ OnlyScans

=============================================================================
