--------------------------- MODULE MCFinanceEditing ---------------------------
(***************************************************************************)
(* FinanceEditing with two administrators and two sites.                   *)
(***************************************************************************)
EXTENDS FinanceEditing, TLC

CONSTANTS ann, bob, vn, rdc

Symmetry == Permutations(Sites) \cup Permutations(Clients)
=============================================================================
