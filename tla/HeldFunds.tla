----------------------------- MODULE HeldFunds -----------------------------
(***************************************************************************)
(* What the money movement core promises to the holders of an account,     *)
(* without saying how: no balance columns, no approvals, no clock.         *)
(*                                                                         *)
(* A movement is done at most once, directly or out of a hold.  A hold     *)
(* reserves part of what its holder owns, so that a held movement can      *)
(* always be done; it is either done or void in the end.                   *)
(***************************************************************************)
EXTENDS Integers, FiniteSets

CONSTANTS
    Holders,    \* who may own and spend, a subset of Accounts
    Accounts, Movements, MaxAmount

VARIABLES
    owned,  \* account  -> what the ledger says it owns
    stage,  \* movement -> "open", "held", "done" or "void"
    from,   \* movement -> the holder that pays
    to,     \* movement -> the account that is paid
    value   \* movement -> its amount

contractVars == <<owned, stage, from, to, value>>

Init ==
    /\ owned = [a \in Accounts |-> 0]
    /\ stage = [m \in Movements |-> "open"]
    /\ from \in [Movements -> Holders]
    /\ to \in [Movements -> Accounts]
    /\ value = [m \in Movements |-> 0]

\* The sum of the values of a set of movements, counted unit by unit.
Sum(S) == Cardinality({u \in S \X (1 .. MaxAmount) : u[2] <= value[u[1]]})

Spendable(h) ==
    owned[h] - Sum({m \in Movements : stage[m] = "held" /\ from[m] = h})

Move(src, dst, a) == owned' = [owned EXCEPT ![src] = @ - a, ![dst] = @ + a]

\* Money enters: a holder gains what another account gives.
Deposit(src, h, a) ==
    /\ src \in Accounts \ Holders
    /\ Move(src, h, a)
    /\ UNCHANGED <<stage, from, to, value>>

\* A movement is requested: covered by what its holder may spend, it is done
\* at once or put on hold.
Request(m, src, dst, a, next) ==
    /\ stage[m] = "open"
    /\ a <= Spendable(src)
    /\ stage' = [stage EXCEPT ![m] = next]
    /\ from' = [from EXCEPT ![m] = src]
    /\ to' = [to EXCEPT ![m] = dst]
    /\ value' = [value EXCEPT ![m] = a]
    /\ \/ next = "done" /\ Move(src, dst, a)
       \/ next = "held" /\ UNCHANGED owned

Settle(m) ==
    /\ stage[m] = "held"
    /\ Move(from[m], to[m], value[m])
    /\ stage' = [stage EXCEPT ![m] = "done"]
    /\ UNCHANGED <<from, to, value>>

\* A set of holds ends without money having moved.
Void(S) ==
    /\ \A m \in S : stage[m] = "held"
    /\ stage' = [m \in Movements |-> IF m \in S THEN "void" ELSE stage[m]]
    /\ UNCHANGED <<owned, from, to, value>>

Next ==
    \/ \E src \in Accounts, h \in Holders, a \in 1 .. MaxAmount : Deposit(src, h, a)
    \/ \E m \in Movements, src \in Holders, dst \in Accounts,
          a \in 1 .. MaxAmount, next \in {"done", "held"} :
             Request(m, src, dst, a, next)
    \/ \E m \in Movements : Settle(m)
    \/ \E S \in SUBSET Movements : Void(S)

\* Every hold ends.
HoldsAreResolved == \A m \in Movements : stage[m] = "held" ~> stage[m] # "held"

Spec == Init /\ [][Next]_contractVars /\ HoldsAreResolved

=============================================================================
