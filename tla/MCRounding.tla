---------------------------- MODULE MCRounding ----------------------------
(***************************************************************************)
(* An instance of Rounding for TLC: amounts in quarters of a stored unit,  *)
(* which Decimal adds up exactly.                                          *)
(***************************************************************************)
EXTENDS Rounding

CONSTANTS m1, m2
=============================================================================
