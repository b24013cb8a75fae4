--------------------------- MODULE MCFaceProfiles ---------------------------
(***************************************************************************)
(* An active student, an inactive one and a number nobody bears; one       *)
(* folder holds a photograph of each, the other two of the second.         *)
(***************************************************************************)
EXTENDS FaceProfiles

Known == {1, 2}
OnlyFirst == {1}
Seen == {1, 2, 3}
TwoFolders == {[n \in Numbers |-> 1], [n \in Numbers |-> IF n = 1 THEN 1 ELSE 2]}
=============================================================================
