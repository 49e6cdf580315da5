----------------------------- MODULE MCAccounts ------------------------------
(* Accounts with up to two users, two machines and two requests awaiting.  *)
EXTENDS Accounts, TLC

CONSTANTS m1, m2, r1, r2

TwoMachines == {m1, m2}
TwoRequests == {r1, r2}
Symmetry == Permutations(TwoMachines) \cup Permutations(TwoRequests)
=============================================================================
