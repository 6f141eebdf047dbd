------------------------------ MODULE MCPayments ------------------------------
(***************************************************************************)
(* Instance of Payments for TLC: one subscription billed for two months.   *)
(***************************************************************************)
EXTENDS Payments, TLC

CONSTANTS s1, g1, k1

TheGuardian == [s \in {s1} |-> g1]
TheStudent  == [s \in {s1} |-> k1]

Symmetry == Permutations(Ids)
===============================================================================
