---------------------------- MODULE MoneyColumns ----------------------------
(***************************************************************************)
(* What a money column keeps of an amount.                                 *)
(*                                                                         *)
(* The API takes decimal strings of any length (schemas/common.py);        *)
(* NUMERIC(38, 9) rounds to the ninth digit, half away from zero, what is  *)
(* written to a column (models/base.py), and a later request works with    *)
(* what was stored.  A stored unit is that ninth digit.  Amounts with more *)
(* digits are natural numbers too: of parts of a stored unit.              *)
(*                                                                         *)
(* Definitions marked "Fault" are wrong on purpose, as in MoneyMovement.   *)
(***************************************************************************)
EXTENDS Integers

CONSTANTS
    Finer,         \* parts of a stored unit that an amount may be given in
    MaxParts,      \* bound: largest amount a request names
    AmountsGiven   \* bound: the amounts requests name, in parts

ASSUME FinerIsPositive == Finer \in Nat \ {0}
ASSUME AmountsGivenArePositive == MaxParts \in Nat /\ AmountsGiven \subseteq 1 .. MaxParts

\* The integer next to n / d, for n not negative; the larger one of two.
HalfUp(n, d) == (2 * n + d) \div (2 * d)

\* Fault: the column cuts off what it cannot hold.
Truncated(n) == n \div Finer

\* What a column holds after n parts, n not negative, have been written to it.
Stored(n) == HalfUp(n, Finer)

Parts(units) == units * Finer

=============================================================================
