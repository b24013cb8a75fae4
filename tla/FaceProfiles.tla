---------------------------- MODULE FaceProfiles ----------------------------
(***************************************************************************)
(* Reference faces of the face-verification service: enrolling photographs *)
(* uploaded by administrators or imported by the command-line script, and  *)
(* the readiness checks students run against the stored reference.         *)
(*                                                                         *)
(* A folder of photographs is a function from registration numbers to the  *)
(* number of files bearing that number.  Uploads run inside the service,   *)
(* one at a time behind a process-wide lock; scripts are processes of      *)
(* their own and take no lock.  Each student is enrolled in a transaction  *)
(* of its own, which stays open while the photograph is analysed.          *)
(***************************************************************************)
EXTENDS Integers, FiniteSets, FiniteSetsExt

CONSTANTS
    Numbers,        \* registration numbers a file may bear, naturals
    Students,       \* those that identify a student
    Active,         \* the students whose profile is active
    Uploads,        \* upload requests of administrators
    Scripts,        \* runs of scripts/enroll_reference_faces.py
    Checks,         \* readiness checks of students
    Folders,        \* the folders an import may be given
    MaxRestarts     \* bound on restarts of the service

ASSUME NumbersAssumption == Numbers \subseteq Nat /\ IsFiniteSet(Numbers)
ASSUME StudentsAssumption == Active \subseteq Students /\ Students \subseteq Numbers
ASSUME ImportsAssumption == Uploads \cap Scripts = {} /\ "none" \notin Uploads \cup Scripts
ASSUME FoldersAssumption == Folders \subseteq [Numbers -> 0..2]
ASSUME MaxRestartsAssumption == MaxRestarts \in Nat

Imports == Uploads \cup Scripts
NoOne == -1

VARIABLES
    profile,    \* face_profiles: committed row of each student
    import,     \* progress of each import
    answer,     \* what the administrator was told about each upload
    check,      \* readiness checks
    restarts

vars == <<profile, import, answer, check, restarts>>

Outcomes == {"enrolled", "already", "skipped", "failed", "validated"}

\* "none" is the absent row; "pending" never leaves the transaction inserting it
Profiles == [status : {"none", "generated", "failed", "revoked"},
             ref : Imports \cup {"none"},
             readiness : {"not_checked", "passed", "failed"},
             checked : Imports \cup {"none"}]

NoProfile == [status |-> "none", ref |-> "none",
              readiness |-> "not_checked", checked |-> "none"]

NoImport == [pc |-> "idle", commit |-> TRUE, saw |-> "none", good |-> FALSE,
             folder |-> [n \in Numbers |-> 0], outcome |-> [n \in {} |-> "failed"]]

NoCheck == [pc |-> "idle", student |-> NoOne, ref |-> "none"]

TypeOK ==
    /\ profile \in [Students -> Profiles]
    /\ \A i \in Imports :
        /\ import[i].pc \in {"idle", "importing", "inserting", "analysing",
                             "saving", "reported", "refused", "lost"}
        /\ import[i].commit \in BOOLEAN /\ import[i].good \in BOOLEAN
        /\ import[i].saw \in {"none", "failed"}
        /\ import[i].folder \in Folders \cup {NoImport.folder}
        /\ DOMAIN import[i].outcome \subseteq Numbers
        /\ \A n \in DOMAIN import[i].outcome : import[i].outcome[n] \in Outcomes
    /\ answer \in [Uploads -> {"waiting", "report", "rejected", "busy", "unavailable"}]
    /\ check \in [Checks -> [pc : {"idle", "comparing", "done"},
                             student : Students \cup {NoOne},
                             ref : Imports \cup {"none"}]]
    /\ restarts \in 0..MaxRestarts

\* Rows as earlier imports left them.  No code revokes a reference or lifts a
\* revocation: a row starts revoked or never is.
Init ==
    /\ profile \in [Students -> {[NoProfile EXCEPT !.status = st] :
                                    st \in {"none", "failed", "revoked"}}]
    /\ import = [i \in Imports |-> NoImport]
    /\ answer = [u \in Uploads |-> "waiting"]
    /\ check = [c \in Checks |-> NoCheck]
    /\ restarts = 0

-----------------------------------------------------------------------------
(* Reading the folder *)

Pending(i) ==
    {n \in Numbers : import[i].folder[n] > 0 /\ n \notin DOMAIN import[i].outcome}

\* Files are taken in the order of their names.
Current(i) == Min(Pending(i))

Duplicates(i) == {n \in Numbers : import[i].folder[n] > 1}

InFlight == {"importing", "inserting", "analysing", "saving"}

\* Faulty variant: the lock is let go while a photograph is analysed.
LockBetweenPhotographs == \E u \in Uploads : import[u].pc = "importing"

LockHeld == \E u \in Uploads : import[u].pc \in InFlight

\* The current photograph is dealt with and the next one is taken.
Record(i, outcome) ==
    import' = [import EXCEPT ![i].pc = "importing", ![i].saw = "none", ![i].good = FALSE,
        ![i].outcome = [n \in DOMAIN @ \cup {Current(i)} |->
            IF n = Current(i) THEN outcome ELSE @[n]]]

Move(i, pc, saw, good) ==
    import' = [import EXCEPT ![i].pc = pc, ![i].saw = saw, ![i].good = good]

\* A new row flushed but not committed by i: others cannot see it, and an
\* insert for the same student waits for the transaction.
Inserting(i, s) ==
    /\ import[i].pc \in {"analysing", "saving"}
    /\ import[i].saw = "none"
    /\ Current(i) = s

-----------------------------------------------------------------------------
(* Starting *)

Start(i, folder, commit) ==
    /\ import[i].pc = "idle"
    /\ import' = [import EXCEPT ![i].pc = "importing",
                                ![i].folder = folder, ![i].commit = commit]

\* The answers Core Backend gives the administrator's browser; one is final.
Told(u, what) == [answer EXCEPT ![u] = IF @ = "waiting" THEN what ELSE @]

\* lock.locked() and acquiring the lock have no await between them.
UploadAccepted(u, folder) ==
    /\ ~LockHeld
    /\ Start(u, folder, TRUE)
    /\ UNCHANGED <<profile, answer, check, restarts>>

UploadBusy(u) ==
    /\ import[u].pc = "idle"
    /\ LockHeld
    /\ import' = [import EXCEPT ![u].pc = "refused"]
    /\ answer' = Told(u, "busy")
    /\ UNCHANGED <<profile, check, restarts>>

\* An unsafe, repeated, empty or oversized file: the batch is refused before
\* any photograph is looked at.
UploadRejected(u) ==
    /\ import[u].pc = "idle"
    /\ ~LockHeld
    /\ import' = [import EXCEPT ![u].pc = "refused"]
    /\ answer' = Told(u, "rejected")
    /\ UNCHANGED <<profile, check, restarts>>

ScriptStarts(i, folder, commit) ==
    /\ Start(i, folder, commit)
    /\ UNCHANGED <<profile, answer, check, restarts>>

-----------------------------------------------------------------------------
(* One photograph: import_reference_photos and ReferenceEnrollmentService.enroll *)

\* Photographs decided without looking at the face profile.
Screened(i) ==
    LET n == Current(i) IN
    CASE n \in Duplicates(i) -> "skipped"
      [] n \notin Students -> "failed"
      [] n \notin Active -> "skipped"
      [] ~import[i].commit -> "validated"
      [] OTHER -> "enrol"

\* Faulty variant: an existing reference is replaced by the new photograph.
Replacing(s) == IF profile[s].status = "revoked" THEN "skipped" ELSE "enrol"

\* What the status of the committed row decides at once.
Standing(s) ==
    CASE profile[s].status = "generated" -> "already"
      [] profile[s].status = "revoked" -> "skipped"
      [] OTHER -> "enrol"

TakeUp(i) ==
    /\ import[i].pc = "importing"
    /\ Pending(i) # {}
    /\ LET s == Current(i) IN
       \/ Screened(i) # "enrol" /\ Record(i, Screened(i))
       \/ Screened(i) = "enrol" /\ Standing(s) # "enrol" /\ Record(i, Standing(s))
       \/ /\ Screened(i) = "enrol" /\ Standing(s) = "enrol"
          /\ IF profile[s].status = "none"
             THEN Move(i, "inserting", "none", FALSE)
             ELSE Move(i, "analysing", "failed", FALSE)
    /\ UNCHANGED <<profile, answer, check, restarts>>

\* The insert meets uq_face_profiles_student_id once the other row is committed.
InsertRow(i) ==
    /\ import[i].pc = "inserting"
    /\ \A j \in Imports : ~Inserting(j, Current(i))
    /\ IF profile[Current(i)].status = "none"
       THEN Move(i, "analysing", "none", FALSE)
       ELSE Record(i, "failed")
    /\ UNCHANGED <<profile, answer, check, restarts>>

Analyse(i, good) ==
    /\ import[i].pc = "analysing"
    /\ Move(i, "saving", import[i].saw, good)
    /\ UNCHANGED <<profile, answer, check, restarts>>

\* Faulty variant: an unusable photograph is counted as enrolled.
SaveUnread(i) ==
    /\ import[i].pc = "saving"
    /\ profile' = [profile EXCEPT
           ![Current(i)].status = IF import[i].good THEN "generated" ELSE "failed",
           ![Current(i)].ref = IF import[i].good THEN i ELSE "none"]
    /\ Record(i, "enrolled")
    /\ UNCHANGED <<answer, check, restarts>>

\* Both updates are by profile id alone and leave the readiness columns alone.
Save(i) ==
    /\ import[i].pc = "saving"
    /\ LET s == Current(i) IN
       profile' = [profile EXCEPT
           ![s].status = IF import[i].good THEN "generated" ELSE "failed",
           ![s].ref = IF import[i].good THEN i ELSE "none"]
    /\ Record(i, IF import[i].good THEN "enrolled" ELSE "failed")
    /\ UNCHANGED <<answer, check, restarts>>

\* The inference queue times out or a statement raises: rolled back and counted.
EnrolFails(i) ==
    /\ import[i].pc \in {"analysing", "saving"}
    /\ Record(i, "failed")
    /\ UNCHANGED <<profile, answer, check, restarts>>

Finish(i) ==
    /\ import[i].pc = "importing"
    /\ Pending(i) = {}
    /\ import' = [import EXCEPT ![i].pc = "reported"]
    /\ answer' = IF i \in Uploads THEN Told(i, "report") ELSE answer
    /\ UNCHANGED <<profile, check, restarts>>

-----------------------------------------------------------------------------
(* Faults: a restart loses the uploads in progress with their transactions *)

Lost == [NoImport EXCEPT !.pc = "lost"]

ServiceRestarts ==
    /\ restarts < MaxRestarts
    /\ restarts' = restarts + 1
    /\ import' = [i \in Imports |->
        IF i \in Uploads /\ import[i].pc \in InFlight THEN Lost ELSE import[i]]
    /\ answer' = [u \in Uploads |->
        IF import[u].pc \in InFlight /\ answer[u] = "waiting"
        THEN "unavailable" ELSE answer[u]]
    /\ check' = [c \in Checks |->
        IF check[c].pc = "comparing" THEN [check[c] EXCEPT !.pc = "done"] ELSE check[c]]
    /\ UNCHANGED profile

ScriptDies(i) ==
    /\ import[i].pc \in InFlight
    /\ import' = [import EXCEPT ![i] = Lost]
    /\ UNCHANGED <<profile, answer, check, restarts>>

\* Core Backend's timeout: the administrator is told 503, the import goes on.
CoreGivesUp(u) ==
    /\ import[u].pc \in InFlight
    /\ answer[u] = "waiting"
    /\ answer' = Told(u, "unavailable")
    /\ UNCHANGED <<profile, import, check, restarts>>

-----------------------------------------------------------------------------
(* Readiness: ReadinessVerificationService *)

CheckBegin(c, s) ==
    /\ check[c].pc = "idle"
    /\ profile[s].status = "generated"
    /\ check' = [check EXCEPT ![c] =
        [pc |-> "comparing", student |-> s, ref |-> profile[s].ref]]
    /\ UNCHANGED <<profile, import, answer, restarts>>

Comparisons == {"matched", "not_matched", "no_face", "multiple_faces",
                "low_quality", "processing_failed", "model_mismatch"}

\* Whatever kept the capture from being compared counts against the student.
Readiness(comparison) == IF comparison = "matched" THEN "passed" ELSE "failed"

\* The result goes to the row by its id, whatever the row says by now.
CheckRecord(c, comparison) ==
    /\ check[c].pc = "comparing"
    /\ profile' = [profile EXCEPT
        ![check[c].student].readiness = Readiness(comparison),
        ![check[c].student].checked = check[c].ref]
    /\ check' = [check EXCEPT ![c].pc = "done"]
    /\ UNCHANGED <<import, answer, restarts>>

\* The inference queue times out: rolled back, nothing recorded.
CheckFails(c) ==
    /\ check[c].pc = "comparing"
    /\ check' = [check EXCEPT ![c].pc = "done"]
    /\ UNCHANGED <<profile, import, answer, restarts>>

\* get_status: what the student's dashboard shows.
ShownReadiness(s) ==
    IF profile[s].status = "generated" THEN profile[s].readiness
                                       ELSE "profile_not_enrolled"

-----------------------------------------------------------------------------

ImportStep(i) ==
    \/ TakeUp(i)
    \/ InsertRow(i)
    \/ \E good \in BOOLEAN : Analyse(i, good)
    \/ Save(i)
    \/ EnrolFails(i)
    \/ Finish(i)

Next ==
    \/ \E u \in Uploads : \/ \E f \in Folders : UploadAccepted(u, f)
                          \/ UploadBusy(u)
                          \/ UploadRejected(u)
                          \/ CoreGivesUp(u)
    \/ \E i \in Scripts : \/ \E f \in Folders, b \in BOOLEAN : ScriptStarts(i, f, b)
                          \/ ScriptDies(i)
    \/ \E i \in Imports : ImportStep(i)
    \/ \E c \in Checks : \/ \E s \in Students : CheckBegin(c, s)
                         \/ \E r \in Comparisons : CheckRecord(c, r)
                         \/ CheckFails(c)
    \/ ServiceRestarts

Spec == Init /\ [][Next]_vars

-----------------------------------------------------------------------------
(* Properties *)

\* Imports that come through the service exclude each other; a script is
\* excluded by nothing.
ServiceOnly == \A i \in Scripts : import[i].pc = "idle"

\* "Normal enrollment never overwrites it" (reference_enrollment_service.py:59):
\* a generated reference changes hands only where a script takes part, and only
\* under an import that had read the row while it still said failed.
ReferenceKept ==
    [][\A s \in Students : profile[s].status = "generated" /\ profile'[s].ref # profile[s].ref
        => /\ ~ServiceOnly
           /\ \E i \in Imports : /\ import[i].pc = "saving" /\ import[i].saw = "failed"
                                 /\ Current(i) = s]_vars

\* What the dashboard shows as passed was measured on the reference now stored,
\* as long as every import came through the service.
ReadinessHonest ==
    ServiceOnly =>
        \A s \in Students : ShownReadiness(s) = "passed" => profile[s].checked = profile[s].ref

\* The report an administrator reads: each photograph is counted under one
\* heading, nobody it calls enrolled or already enrolled is without a
\* reference, and an enrolled student's reference is this upload's own.
ReportTrue ==
    ServiceOnly =>
        \A u \in Uploads : answer[u] = "report" =>
            /\ DOMAIN import[u].outcome = {n \in Numbers : import[u].folder[n] > 0}
            /\ \A n \in DOMAIN import[u].outcome :
                /\ import[u].outcome[n] \in {"enrolled", "already"} =>
                       profile[n].status = "generated"
                /\ import[u].outcome[n] = "enrolled" => profile[n].ref = u
                /\ n \in Students /\ profile[n].ref = u => import[u].outcome[n] = "enrolled"
=============================================================================
