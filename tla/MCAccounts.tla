----------------------------- MODULE MCAccounts -----------------------------
(***************************************************************************)
(* Two requests for one address and a third for the number of the first.   *)
(***************************************************************************)
EXTENDS Accounts, TLC

CONSTANTS c1, c2, c3, e1, e2, n1, n2

Addresses == [c \in Calls |-> IF c = c3 THEN e2 ELSE e1]
Numbers == [c \in Calls |-> IF c = c2 THEN n2 ELSE n1]
Alike == Permutations(Admins) \cup Permutations(Updates)
=============================================================================
