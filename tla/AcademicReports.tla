--------------------------- MODULE AcademicReports ---------------------------
(***************************************************************************)
(* What the reports and the course pages compute from the academic tables  *)
(* and the recorded attendance: the student's courses (student_courses),   *)
(* the lecturer's courses, sessions and reports (lecturer_courses,         *)
(* lecturer_sessions, lecturer_reports) and the institution's report       *)
(* (admin_institution_reports).  Each is a query of its own; an operator   *)
(* here is what one query returns.  A rate is kept as the pair of counts   *)
(* it divides; the rounding for display is left out.                       *)
(***************************************************************************)
EXTENDS AcademicData, Functions

CONSTANTS WeekOf,        \* the week each session is scheduled in
          TrendWeeks     \* how many weeks a trend goes back

ASSUME TrendAssumption == WeekOf \in [Sessions -> Nat] /\ TrendWeeks \in Nat \ {0}
\* The tables are finite; a requirement is a percentage.
ASSUME CountAssumption ==
    /\ IsFiniteSet(Sessions) /\ IsFiniteSet(Students)
    /\ IsFiniteSet(Lecturers) /\ IsFiniteSet(Offerings)
    /\ \A row \in OfferingRows : row.threshold \in 0 .. 100 \cup {NoThreshold}

Attended == {"present", "late", "left_early"}

Made == {n \in Sessions : session[n] # NoSession}
SessionsOf(o) == {n \in Made : session[n].offering = o}
Record(n, s) == session[n].student[s].record

\* closed_at IS NOT NULL AND cancelled_at IS NULL.
Completed(n) == session[n].phase = "closed"

\* The rows of sessions JOIN session_students LEFT JOIN attendance_records.
RosterRows(sessions) == UNION {{n} \X session[n].roster : n \in sessions}

\* How many of these rows are attended, and how many there are.
Rate(rows) ==
    [attended |-> Cardinality({row \in rows : Record(row[1], row[2]) \in Attended}),
     total    |-> Cardinality(rows)]

\* COALESCE(attendance_threshold, 70).
DefaultThreshold == 70
ThresholdOf(o) ==
    IF offering[o].threshold = NoThreshold THEN DefaultThreshold ELSE offering[o].threshold

BelowThreshold(rate, o) == rate.total > 0 /\ 100 * rate.attended < ThresholdOf(o) * rate.total

\* The newest weeks in which these sessions have rows, and the rate of each.
Weeks(sessions) == {WeekOf[row[1]] : row \in RosterRows(sessions)}
Trend(sessions) ==
    LET weeks == Weeks(sessions) IN
    [w \in {v \in weeks : Cardinality({u \in weeks : u > v}) < TrendWeeks} |->
        Rate(RosterRows({n \in sessions : WeekOf[n] = w}))]

-----------------------------------------------------------------------------
(* The student's courses.                                                  *)

\* Faulty variant: every class of the course counts, whoever was on its roster.
CountsEveryClass(s, o) == SessionsOf(o)

\* The sessions joined to a student's enrolment: those whose roster has the student.
MySessions(s, o) == {n \in SessionsOf(o) : s \in session[n].roster}

CourseListed(s, o) == enrolment[o][s] = "enrolled" /\ offering[o].status = "active"

\* The counts of a listed course: sessions are counted, not rows.
CourseRate(s, o) ==
    LET total == {n \in MySessions(s, o) : Completed(n)} IN
    [attended |-> Cardinality({n \in total : Record(n, s) \in Attended}),
     total    |-> Cardinality(total)]

\* The sessions under a course and the status each is shown with.  A record shows
\* as soon as it is written; the clock only tells open from upcoming.
ShownSessions(s, o) ==
    {n \in SessionsOf(o) : s \in session[n].roster /\ enrolment[o][s] = "enrolled"}
ShownStatus(s, n) ==
    IF session[n].phase = "cancelled" THEN "cancelled"
    ELSE IF Record(n, s) # "none" THEN Record(n, s)
    ELSE IF session[n].phase = "closed" THEN "absent" ELSE "awaiting"

-----------------------------------------------------------------------------
(* The lecturer's courses, sessions and reports.                           *)

\* The rows a lecturer's figures are computed from: one for each assignment of the
\* lecturer, so the rows of an offering with two lecturers are in both.
LecturerSessions(l) == {n \in Made : l \in teaches[session[n].offering]}

\* Faulty variant: classes still going on are counted too.
CountsRunningClasses(l) == {n \in LecturerSessions(l) : session[n].phase # "cancelled"}

CompletedSessions(l) == {n \in LecturerSessions(l) : Completed(n)}

LecturerRate(l)  == Rate(RosterRows(CompletedSessions(l)))
LecturerTrend(l) == Trend(CompletedSessions(l))

\* A line of the lecturer's course list.
LecturerCourse(o) ==
    [enrolled |-> Cardinality(EnrolledIn(o)),
     rate     |-> Rate(RosterRows({n \in SessionsOf(o) : Completed(n)}))]

\* Rows are grouped by student and offering.
RateWith(l, s, o) ==
    Rate({row \in RosterRows(CompletedSessions(l)) :
            row[2] = s /\ session[row[1]].offering = o})

AtRisk(l) ==
    {row \in Students \X {o \in Offerings : Exists(o)} :
        BelowThreshold(RateWith(l, row[1], row[2]), row[2])}

\* A failed attempt counts until it is reviewed.
PendingIn(n) ==
    {s \in Students : session[n].student[s].attempt = "failed" /\ ~session[n].student[s].reviewed}

\* The sessions still to come and those of today are counted by the clock, which is
\* not kept here.
Overview(l) ==
    [courses |-> Cardinality({o \in Offerings : l \in teaches[o] /\ offering[o].status = "active"}),
     rate    |-> LecturerRate(l),
     pending |-> SumFunction([n \in LecturerSessions(l) |-> Cardinality(PendingIn(n))])]

CountOf(n, status) == Cardinality({s \in Students : Record(n, s) = status})

\* A line of the course report.  Absent also counts, after the close, those of the
\* roster without a record.
SessionReport(n) ==
    [enrolled |-> Cardinality(session[n].roster),
     present  |-> CountOf(n, "present"),
     late     |-> CountOf(n, "late"),
     left     |-> CountOf(n, "left_early"),
     absent   |-> Cardinality({s \in session[n].roster :
                      \/ Record(n, s) = "absent"
                      \/ Completed(n) /\ Record(n, s) = "none"}),
     pending  |-> Cardinality(PendingIn(n))]

\* The same session on the lecturer's session page: only records count, and an
\* attempt whose student has a manual record is not pending.
SessionPage(n) ==
    [enrolled |-> Cardinality(session[n].roster),
     present  |-> CountOf(n, "present"),
     late     |-> CountOf(n, "late"),
     left     |-> CountOf(n, "left_early"),
     absent   |-> CountOf(n, "absent"),
     pending  |-> Cardinality({s \in PendingIn(n) : ~session[n].student[s].manual})]

-----------------------------------------------------------------------------
(* The institution's report.                                               *)

Institution      == Rate(RosterRows({n \in Made : Completed(n)}))
InstitutionTrend == Trend({n \in Made : Completed(n)})

StudentsAtRisk ==
    {s \in Students : \E o \in {p \in Offerings : Exists(p)} :
        BelowThreshold(Rate({row \in RosterRows({n \in SessionsOf(o) : Completed(n)}) :
                               row[2] = s}), o)}

CoursesAtRisk ==
    {o \in Offerings : Exists(o)
        /\ BelowThreshold(Rate(RosterRows({n \in SessionsOf(o) : Completed(n)})), o)}

-----------------------------------------------------------------------------
(* Properties.                                                             *)

\* The lecturers' figures add up to the institution's.
FiguresAddUp ==
    LET rate == [l \in Lecturers |-> Overview(l).rate] IN
    Institution = [attended |-> SumFunction([l \in Lecturers |-> rate[l].attended]),
                   total    |-> SumFunction([l \in Lecturers |-> rate[l].total])]

\* A lecturer's overview adds up to the lines of the lecturer's courses and sessions.
OverviewAddsUp(l) ==
    LET mine   == {o \in Offerings : l \in teaches[o]}
        listed == UNION {SessionsOf(o) : o \in mine}
    IN  /\ Overview(l).rate.total = SumFunction([o \in mine |-> LecturerCourse(o).rate.total])
        /\ Overview(l).pending = SumFunction([n \in listed |-> SessionReport(n).pending])

\* A student is at risk for the institution exactly when some lecturer's list has the
\* student, and no course is below its requirement without a student who is.
RiskListed ==
    LET listed == UNION {AtRisk(l) : l \in Lecturers} IN
    /\ StudentsAtRisk = {row[1] : row \in listed}
    /\ CoursesAtRisk \subseteq {row[2] : row \in listed}

\* The institution's trend is the sum of the lecturers' in every week it goes back to.
TrendsAddUp ==
    LET whole     == InstitutionTrend
        trend     == [l \in Lecturers |-> LecturerTrend(l)]
        having(w) == {l \in Lecturers : w \in DOMAIN trend[l]}
    IN  \A w \in DOMAIN whole :
            whole[w].attended = SumFunction([l \in having(w) |-> trend[l][w].attended])

\* Every student of every completed class is counted once: institution, lecturers,
\* courses and sessions are counted by queries of their own, and their counts agree.
ClassesCountedOnce ==
    /\ FiguresAddUp
    /\ \A l \in Lecturers : OverviewAddsUp(l)
    /\ RiskListed
    /\ TrendsAddUp

\* The pages agree.  What a student reads about a course agrees with the sessions
\* listed under it and with the counts the lecturer's list is made from, however the
\* student enrolled, dropped and enrolled again while classes were held.  After the
\* close a session's line adds up to its roster, and the two pages that show it to
\* the lecturer, each with counts of its own, agree on attendance.
PagesAgree ==
    /\ \A s \in Students, o \in {p \in Offerings : Exists(p)} :
          CourseListed(s, o) =>
              LET completed == {n \in ShownSessions(s, o) : Completed(n)}
                  shown(is) == Cardinality({n \in completed : ShownStatus(s, n) \in is})
              IN  /\ \A l \in teaches[o] : CourseRate(s, o) = RateWith(l, s, o)
                  /\ CourseRate(s, o) = [attended |-> shown(Attended),
                                         total    |-> shown(Attended) + shown({"absent"})]
    /\ \A n \in Made :
          LET report == SessionReport(n)
              page   == SessionPage(n)
          IN  /\ Completed(n) =>
                    report.enrolled
                        = report.present + report.late + report.left + report.absent
              /\ report.absent = page.absent
              /\ page.pending <= report.pending

=============================================================================
