----------------------------- MODULE MCAcademic -----------------------------
(***************************************************************************)
(* Two offerings, two lecturers, two students, one timetable entry and two *)
(* sessions of different weeks; one correction request.  Students are     *)
(* interchangeable, and so are lecturers and offerings.                    *)
(***************************************************************************)
EXTENDS AcademicReports, TLC

CONSTANTS k1, k2, n1, n2

SomeRows == {[status |-> "active",   key |-> k1, threshold |-> NoThreshold],
             [status |-> "inactive", key |-> k2, threshold |-> 50]}
SomeOutcomes == {"late_checked_in", "failed"}
TwoWeeks == [n \in Sessions |-> IF n = n1 THEN 1 ELSE 2]
SomeStatuses == {"present"}

Interchangeable == Permutations(Students) \cup Permutations(Lecturers)
                       \cup Permutations(Offerings)

=============================================================================
