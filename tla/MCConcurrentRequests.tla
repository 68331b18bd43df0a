----------------------- MODULE MCConcurrentRequests -----------------------
(***************************************************************************)
(* Instances of ConcurrentRequests for TLC.                                *)
(***************************************************************************)
EXTENDS ConcurrentRequests

CONSTANTS p1, p2

\* Payments of one unit, and one of two.
MCAmount == [m \in Payments |-> IF m = p1 THEN 2 ELSE 1]
=============================================================================
