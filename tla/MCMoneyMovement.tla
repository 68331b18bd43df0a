-------------------------- MODULE MCMoneyMovement --------------------------
(***************************************************************************)
(* Instances of MoneyMovement for TLC.                                     *)
(***************************************************************************)
EXTENDS MoneyMovement, TLC

CONSTANTS a1, a2, p1, p2, t1, c1

AgentsAndPayments == Permutations({a1, a2}) \cup Permutations({p1, p2})
=============================================================================
