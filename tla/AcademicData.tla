---------------------------- MODULE AcademicData ----------------------------
(***************************************************************************)
(* The academic tables and those who change them while classes go on: the  *)
(* administrators' screens (admin_academic_data), the lecturers'           *)
(* correction requests and their decisions, and the part of a session that *)
(* reports read: the offering it belongs to, its roster and what was       *)
(* recorded for each student.  Several administrators and lecturers act at *)
(* once; each transaction takes the locks the code takes.                  *)
(***************************************************************************)
EXTENDS AttendanceRules, FiniteSets

CONSTANTS Offerings, Lecturers, Students, Entries, Sessions, Requests,
          OfferingRows,     \* what administrators enter: status, natural key
                            \* (course, semester, batch, type), threshold
          NoThreshold,      \* attendance_threshold IS NULL
          Outcomes,         \* how an attempt may end
          ManualStatuses,   \* statuses recorded by hand
          MaxActs           \* bound on the calls that change data by hand

ASSUME AcademicAssumption ==
    /\ \A row \in OfferingRows : row.status \in {"active", "inactive"}
    /\ NoThreshold \notin 0 .. 100
    /\ Outcomes \subseteq InitialStatuses \cup {"failed"}
    /\ ManualStatuses \subseteq FinalStatuses
    /\ MaxActs \in Nat

VARIABLES
    offering,    \* course_offerings: status, natural key, threshold
    teaches,     \* course_lecturers: the lecturers of each offering
    enrolment,   \* course_enrolments
    entry,       \* timetable_entries: offering and status
    session,     \* sessions, session_students, verification_attempts, records
    request,     \* correction_requests
    changing,    \* changes of an offering in flight
    creating,    \* session creations in flight
    deciding,    \* decisions of a request in flight
    acts         \* such calls made so far

tables == <<offering, teaches, enrolment, entry>>
vars == <<tables, session, request, changing, creating, deciding, acts>>

NoOffering == [status |-> "none"]
Exists(o) == offering[o].status # "none"

NoStudentRow == [attempt |-> "none", reviewed |-> FALSE, record |-> "none", manual |-> FALSE]
StudentRows == [attempt : {"none", "failed"} \cup InitialStatuses, reviewed : BOOLEAN,
                record : {"none"} \cup FinalStatuses, manual : BOOLEAN]
NoSession == [phase |-> "none"]
SessionRows == [phase : {"scheduled", "active", "closed", "cancelled"},
                offering : Offerings, roster : SUBSET Students,
                student : [Students -> StudentRows]]

Decisions == {"approved", "rejected", "resolved"}

\* What a decision may follow: a request is approved or rejected once, and an
\* approved one is later marked resolved.
AllowedDecisions(status) ==
    CASE status = "pending"  -> {"approved", "rejected"}
      [] status = "approved" -> {"resolved"}
      [] OTHER               -> {}

Changes == [lecturer : Lecturers, seen : SUBSET Lecturers, row : OfferingRows \cup {NoOffering}]
Creations == [lecturer : Lecturers, offering : Offerings]
DecisionCalls == [decision : Decisions, seen : {"pending"} \cup Decisions]

TypeOK ==
    /\ offering \in [Offerings -> OfferingRows \cup {NoOffering}]
    /\ teaches \in [Offerings -> SUBSET Lecturers]
    /\ enrolment \in [Offerings -> [Students -> {"none", "enrolled", "dropped"}]]
    /\ entry \in [Entries -> [offering : Offerings, status : {"none", "active", "inactive"}]]
    /\ session \in [Sessions -> SessionRows \cup {NoSession}]
    /\ request \in [Requests -> {"none", "pending"} \cup Decisions]
    /\ changing \in [Offerings -> SUBSET Changes]
    /\ creating \in [Sessions -> SUBSET Creations]
    /\ deciding \in [Requests -> SUBSET DecisionCalls]
    /\ acts \in Nat

\* The data an institution starts from: offerings with a lecturer each, some
\* students enrolled, and a timetable.
Init ==
    /\ offering \in [Offerings -> OfferingRows \cup {NoOffering}]
    /\ \A o, p \in Offerings : o # p /\ Exists(o) /\ Exists(p) =>
          offering[o].key # offering[p].key
    /\ \E l \in Lecturers : teaches = [o \in Offerings |-> IF Exists(o) THEN {l} ELSE {}]
    /\ \E on \in SUBSET Students :
          enrolment = [o \in Offerings |-> [s \in Students |->
                          IF Exists(o) /\ s \in on THEN "enrolled" ELSE "none"]]
    /\ entry \in [Entries -> [offering : {o \in Offerings : Exists(o)}, status : {"active"}]]
    /\ session = [n \in Sessions |-> NoSession]
    /\ request = [r \in Requests |-> "none"]
    /\ changing = [o \in Offerings |-> {}]
    /\ creating = [n \in Sessions |-> {}]
    /\ deciding = [r \in Requests |-> {}]
    /\ acts = 0

\* A new call, within the bound.  Creations are bounded by Sessions and
\* submissions by Requests.
Act == acts < MaxActs /\ acts' = acts + 1

-----------------------------------------------------------------------------
(* Offerings and who teaches them.                                         *)

KeyFree(o, key) == \A p \in Offerings \ {o} : Exists(p) => offering[p].key # key

\* A new offering and its lecturer, in one transaction.
CreateOffering(o, row, l) ==
    /\ Act
    /\ ~Exists(o)
    /\ KeyFree(o, row.key)
    /\ offering' = [offering EXCEPT ![o] = row]
    /\ teaches' = [teaches EXCEPT ![o] = {l}]
    /\ UNCHANGED <<enrolment, entry, session, request, changing, creating, deciding>>

\* Faulty variant: the offering is read without its lock.
BeginUnlocked(o, row, l) ==
    /\ Act
    /\ Exists(o)
    /\ changing' = [changing EXCEPT
                      ![o] = @ \cup {[lecturer |-> l, seen |-> teaches[o], row |-> row]}]
    /\ UNCHANGED <<tables, session, request, creating, deciding>>

\* update_offering or, with no row, assign_lecturer: the offering is locked, then
\* the assignments to delete are those the DELETE can see.
BeginChange(o, row, l) ==
    /\ Act
    /\ Exists(o)
    /\ changing[o] = {}
    /\ changing' = [changing EXCEPT
                      ![o] = @ \cup {[lecturer |-> l, seen |-> teaches[o], row |-> row]}]
    /\ UNCHANGED <<tables, session, request, creating, deciding>>

\* The old assignments go and the new one is inserted.  Both unique keys are
\* checked by the database: a clash makes the call a conflict (EndChange).
CommitChange(o, c) ==
    /\ c.row # NoOffering => KeyFree(o, c.row.key)
    /\ c.lecturer \notin teaches[o] \ c.seen
    /\ offering' = [offering EXCEPT ![o] = IF c.row = NoOffering THEN @ ELSE c.row]
    /\ teaches' = [teaches EXCEPT ![o] = (@ \ c.seen) \cup {c.lecturer}]
    /\ changing' = [changing EXCEPT ![o] = @ \ {c}]
    /\ UNCHANGED <<enrolment, entry, session, request, creating, deciding, acts>>

\* Refused, rolled back or lost.
EndChange(o, c) ==
    /\ changing' = [changing EXCEPT ![o] = @ \ {c}]
    /\ UNCHANGED <<tables, session, request, creating, deciding, acts>>

-----------------------------------------------------------------------------
(* Enrolments and the timetable.                                           *)

\* A student who dropped the course gets the same row back.
Enrol(o, s) ==
    /\ Act
    /\ Exists(o)
    /\ enrolment[o][s] # "enrolled"
    /\ enrolment' = [enrolment EXCEPT ![o][s] = "enrolled"]
    /\ UNCHANGED <<offering, teaches, entry, session, request, changing, creating, deciding>>

Drop(o, s) ==
    /\ Act
    /\ enrolment[o][s] # "none"
    /\ enrolment' = [enrolment EXCEPT ![o][s] = "dropped"]
    /\ UNCHANGED <<offering, teaches, entry, session, request, changing, creating, deciding>>

\* A new entry, an entry edited (it may move to another offering), or one
\* deactivated.  Sessions already made from it keep their offering.
SetEntry(e, o, status) ==
    /\ Act
    /\ Exists(o)
    /\ entry[e].status = "none" => status = "active"
    /\ entry' = [entry EXCEPT ![e] = [offering |-> o, status |-> status]]
    /\ UNCHANGED <<offering, teaches, enrolment, session, request, changing, creating, deciding>>

-----------------------------------------------------------------------------
(* Correction requests.                                                    *)

\* Only about an offering the lecturer is assigned to, named directly or by one
\* of its timetable entries.
Submit(r, l, o) ==
    /\ request[r] = "none"
    /\ l \in teaches[o]
    /\ request' = [request EXCEPT ![r] = "pending"]
    /\ UNCHANGED <<tables, session, changing, creating, deciding, acts>>

\* Faulty variant: the request is read without its lock.
DecideUnlocked(r, decision) ==
    /\ Act
    /\ request[r] # "none"
    /\ deciding' = [deciding EXCEPT ![r] = @ \cup {[decision |-> decision, seen |-> request[r]]}]
    /\ UNCHANGED <<tables, session, request, changing, creating>>

\* lock_status: SELECT ... FOR UPDATE.
BeginDecision(r, decision) ==
    /\ Act
    /\ request[r] # "none"
    /\ deciding[r] = {}
    /\ deciding' = [deciding EXCEPT ![r] = @ \cup {[decision |-> decision, seen |-> request[r]]}]
    /\ UNCHANGED <<tables, session, request, changing, creating>>

CommitDecision(r, d) ==
    /\ d.decision \in AllowedDecisions(d.seen)
    /\ request' = [request EXCEPT ![r] = d.decision]
    /\ deciding' = [deciding EXCEPT ![r] = @ \ {d}]
    /\ UNCHANGED <<tables, session, changing, creating, acts>>

\* Refused, rolled back or lost.
EndDecision(r, d) ==
    /\ deciding' = [deciding EXCEPT ![r] = @ \ {d}]
    /\ UNCHANGED <<tables, session, request, changing, creating, acts>>

-----------------------------------------------------------------------------
(* Sessions, as far as reports read them.                                  *)

\* The entry is looked up among the active ones of the lecturer's offerings.
BeginCreate(n, l, e) ==
    /\ session[n] = NoSession /\ creating[n] = {}
    /\ entry[e].status = "active" /\ l \in teaches[entry[e].offering]
    /\ creating' = [creating EXCEPT ![n] = {[lecturer |-> l, offering |-> entry[e].offering]}]
    /\ UNCHANGED <<tables, session, request, changing, deciding, acts>>

EnrolledIn(o) == {s \in Students : enrolment[o][s] = "enrolled"}

\* The students enrolled now become the roster.  The session is read back as one
\* of the lecturer's: an assertion fails if the offering was reassigned meanwhile.
CommitCreate(n, c) ==
    /\ c.lecturer \in teaches[c.offering]
    /\ session' = [session EXCEPT ![n] =
                     [phase |-> "scheduled", offering |-> c.offering,
                      roster |-> EnrolledIn(c.offering),
                      student |-> [s \in Students |-> NoStudentRow]]]
    /\ creating' = [creating EXCEPT ![n] = @ \ {c}]
    /\ UNCHANGED <<tables, request, changing, deciding, acts>>

EndCreate(n, c) ==
    /\ creating' = [creating EXCEPT ![n] = @ \ {c}]
    /\ UNCHANGED <<tables, session, request, changing, deciding, acts>>

SetPhase(n, phase) ==
    /\ session' = [session EXCEPT ![n].phase = phase]
    /\ UNCHANGED <<tables, request, changing, creating, deciding, acts>>

\* A lecturer of the offering starts or cancels the session.
Activate(n) ==
    session[n].phase = "scheduled" /\ teaches[session[n].offering] # {} /\ SetPhase(n, "active")
Cancel(n) ==
    /\ session[n].phase \in {"scheduled", "active"}
    /\ teaches[session[n].offering] # {}
    /\ SetPhase(n, "cancelled")

SetStudent(n, s, row) ==
    /\ Act
    /\ s \in session[n].roster
    /\ session' = [session EXCEPT ![n].student[s] = row]
    /\ UNCHANGED <<tables, request, changing, creating, deciding>>

\* A student's attempt is checked in or fails for good.  It needs no record to start,
\* but a started attempt may end after a status was set by hand.
Attempt(n, s, outcome) ==
    /\ session[n].phase = "active"
    /\ session[n].student[s].attempt = "none"
    /\ SetStudent(n, s, [session[n].student[s] EXCEPT !.attempt = outcome])

\* A status set by hand, or a review of a failed attempt, which sets one too.
SetByHand(n, s, status, review) ==
    /\ session[n].phase \in {"active", "closed"}
    /\ review => session[n].student[s].attempt = "failed"
    /\ SetStudent(n, s, [session[n].student[s] EXCEPT
                           !.record = status, !.manual = TRUE, !.reviewed = @ \/ review])

\* What finalization may decide for a student, over the QR evidence there can be.
Decided(row) ==
    IF row.manual THEN {row.record}
    ELSE LET initial == IF row.attempt \in InitialStatuses THEN row.attempt ELSE "none"
         IN  {DecideFinalAttendance(initial, {1, 2}, scanned) : scanned \in SUBSET {1, 2}}

\* Those a close writes a record for.
ToDecide(n) == session[n].roster

\* A close, by the lecturer or by the scheduler: every student on the roster gets
\* a record.
Close(n) ==
    /\ session[n].phase = "active"
    /\ \E final \in [Students -> FinalStatuses \cup {"none"}] :
        /\ \A s \in Students :
              final[s] \in IF s \in ToDecide(n) THEN Decided(session[n].student[s])
                           ELSE {session[n].student[s].record}
        /\ session' = [session EXCEPT
                         ![n].phase = "closed",
                         ![n].student = [s \in Students |-> [@[s] EXCEPT !.record = final[s]]]]
    /\ UNCHANGED <<tables, request, changing, creating, deciding, acts>>

-----------------------------------------------------------------------------
Administer ==
    \/ \E o \in Offerings, l \in Lecturers :
          \/ \E row \in OfferingRows : CreateOffering(o, row, l)
          \/ \E row \in OfferingRows \cup {NoOffering} : BeginChange(o, row, l)
    \/ \E o \in Offerings : \E c \in changing[o] : CommitChange(o, c) \/ EndChange(o, c)
    \/ \E o \in Offerings, s \in Students : Enrol(o, s) \/ Drop(o, s)
    \/ \E e \in Entries, o \in Offerings, status \in {"active", "inactive"} :
          SetEntry(e, o, status)

Correct ==
    \E r \in Requests :
        \/ \E l \in Lecturers, o \in Offerings : Submit(r, l, o)
        \/ \E decision \in Decisions : BeginDecision(r, decision)
        \/ \E d \in deciding[r] : CommitDecision(r, d) \/ EndDecision(r, d)

Teach ==
    \E n \in Sessions :
        \/ \E l \in Lecturers, e \in Entries : BeginCreate(n, l, e)
        \/ \E c \in creating[n] : CommitCreate(n, c) \/ EndCreate(n, c)
        \/ session[n] # NoSession /\ (Activate(n) \/ Cancel(n) \/ Close(n))
        \/ /\ session[n] # NoSession
           /\ \E s \in Students :
                \/ \E outcome \in Outcomes : Attempt(n, s, outcome)
                \/ \E status \in ManualStatuses, review \in BOOLEAN :
                      SetByHand(n, s, status, review)

Next == Administer \/ Correct \/ Teach

Spec == Init /\ [][Next]_vars

-----------------------------------------------------------------------------
(* Properties.                                                             *)

\* However many administrators assign and edit at once, an offering has exactly one
\* lecturer: course_lecturers allows any number, and the lists and the reports join
\* it as if there were one.
OneLecturer == \A o \in Offerings : Cardinality(teaches[o]) = IF Exists(o) THEN 1 ELSE 0

\* A request is approved or rejected once, and only an approved one is resolved,
\* whatever administrators decide at the same time.
DecidedOnce ==
    [][\A r \in Requests :
          request'[r] # request[r] =>
              \/ request[r] = "none" /\ request'[r] = "pending"
              \/ request'[r] \in AllowedDecisions(request[r])]_vars

=============================================================================
