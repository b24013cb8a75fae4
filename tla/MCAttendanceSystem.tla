------------------------- MODULE MCAttendanceSystem -------------------------
(***************************************************************************)
(* Small instances of the attendance lifecycle.  Every .cfg picks the      *)
(* values it needs.                                                        *)
(***************************************************************************)
EXTENDS StudentViews, TLC

\* Requests that leave the whole window to the policy.
Plain(face, qr) == [face |-> face, qr |-> qr,
                    opens |-> NoTime, closes |-> NoTime, late |-> NoTime]

FaceRequests == {Plain(TRUE, FALSE)}
QrRequests   == {[Plain(FALSE, TRUE) EXCEPT !.closes = 2, !.late = 0]}

\* The lecturer opens the window before the lecture and names the late time,
\* or names the whole window.
NamedRequests ==
    { [Plain(FALSE, FALSE) EXCEPT !.opens = 0, !.late = 1],
      [Plain(TRUE, FALSE) EXCEPT !.opens = 1, !.closes = 3, !.late = 3] }
MixedRequests == NamedRequests \cup FaceRequests

WindowPolicy == [window |-> 2, late |-> 0]
NoPolicy     == [window |-> NoTime, late |-> 0]

FullRoster == {Students}
AnyRoster  == SUBSET Students

BatchSymmetry == Permutations(Batches)

=============================================================================
