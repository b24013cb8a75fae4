-------------------------- MODULE MCSessionLocking --------------------------
(***************************************************************************)
(* A small instance of the locks and the auto-close loop.                  *)
(***************************************************************************)
EXTENDS SessionLocking

CONSTANTS r1, l1, w1

=============================================================================
