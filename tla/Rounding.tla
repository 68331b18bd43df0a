------------------------------ MODULE Rounding ------------------------------
(***************************************************************************)
(* Amounts with more digits than a money column keeps (MoneyColumns).      *)
(*                                                                         *)
(* A sum is rounded twice before a later request sees it: Python's Decimal *)
(* keeps 28 significant digits of it, half to even (services/ledger.py     *)
(* computes in the default context), and its column what a column can.     *)
(* Each column is written by itself.  The balance of one holder and one    *)
(* account's ledger entries are in stored units; every request is one      *)
(* transaction.                                                            *)
(*                                                                         *)
(* Definitions marked "Fault" are wrong on purpose, as in MoneyMovement.   *)
(***************************************************************************)
EXTENDS MoneyColumns, FiniteSets

CONSTANTS
    Limit,      \* Decimal's coefficients are below it (10^28)
    Grains,     \* bound: what a coefficient's last digit may be worth, in parts:
                \* the powers of ten from one part on
    MaxFunded,  \* bound: most that is funded
    MaxCloseCalls,  \* bound: most of the amounts counted below that come in
    Movements   \* ids of payments and outgoing transfers

\* Balances below 10^18 keep ten decimals at least, so half a stored unit, five
\* in the tenth, is a multiple of each grain.
ASSUME GrainsFit ==
    /\ Limit \in Nat /\ Grains \subseteq Nat \ {0} /\ 1 \in Grains
    /\ \A g \in Grains : \E k \in 1 .. Finer : Finer = 2 * (k * g)
ASSUME FundingIsBounded == MaxFunded \in Nat
ASSUME FinitelyManyMovements == IsFiniteSet(Movements)

VARIABLES
    availableColumn,  \* balances.available
    pendingColumn,    \* balances.pending_out
    entries,          \* the holder's credits minus debits in ledger_entries
    heldColumn,       \* movement on hold -> its amount as its row has it, or 0
    moved,            \* movements that have been made
    ties,             \* history: outgoing amounts that ended in half a unit
    closeCalls        \* history: amounts that ended so close to it that Decimal may
                      \* have rounded their sum to the half

roundingVars == <<availableColumn, pendingColumn, entries, heldColumn, moved, ties,
                  closeCalls>>

RoundingTypeOK ==
    /\ availableColumn \in Nat /\ pendingColumn \in Nat /\ entries \in Int
    /\ heldColumn \in [Movements -> Nat]
    /\ moved \in SUBSET Movements
    /\ ties \in Nat /\ closeCalls \in Nat

RoundingInit ==
    /\ availableColumn = 0 /\ pendingColumn = 0 /\ entries = 0
    /\ heldColumn = [m \in Movements |-> 0]
    /\ moved = {} /\ ties = 0 /\ closeCalls = 0

\* The integer next to n / g, for n not negative; the even one of two.
HalfEven(n, g) ==
    LET q == n \div g
        r == n % g
    IN  IF 2 * r > g \/ (2 * r = g /\ q % 2 = 1) THEN q + 1 ELSE q

Reaches(g, n) == n < g * Limit

\* What the last of the digits that Decimal keeps of n is worth.
Grain(n) == CHOOSE g \in Grains : Reaches(g, n) /\ \A h \in Grains : Reaches(h, n) => g <= h

\* What Decimal makes of a sum or difference that is exactly n.
Kept(n) == Grain(n) * HalfEven(n, Grain(n))

\* The largest sum that moving n can lead to; a bound on it.
Total(n) == Parts(availableColumn + pendingColumn) + n
InReach(n) == \E g \in Grains : Reaches(g, Total(n))

\* How far n parts are above, or below, half a stored unit, twice.
OffHalf(n) == 2 * (n % Finer) - Finer
IsTie(n) == OffHalf(n) = 0
IsClose(n) == OffHalf(n) <= Grain(Total(n)) /\ -OffHalf(n) <= Grain(Total(n))

CountOutgoing(n) ==
    /\ ties' = IF IsTie(n) THEN ties + 1 ELSE ties
    /\ closeCalls' = IF IsClose(n) THEN closeCalls + 1 ELSE closeCalls

\* What comes in can only be rounded up.
CountIncoming(n) ==
    /\ IF IsClose(n) /\ OffHalf(n) < 0
       THEN closeCalls < MaxCloseCalls /\ closeCalls' = closeCalls + 1
       ELSE UNCHANGED closeCalls
    /\ UNCHANGED ties

\* post_journal adds the amount, negated, to its own: with more digits than Decimal
\* keeps the journal does not balance.
Balances(n) == Kept(n) = n

\* Fault: money on hold may be spent.
CoversOwned(n) == Parts(availableColumn + pendingColumn) >= n

\* ensure_available compares the exact amount with the stored balance.
Covers(n) == Parts(availableColumn) >= n

FundHolder(n) ==
    /\ availableColumn + pendingColumn + Stored(n) <= MaxFunded /\ InReach(n)
    /\ Balances(n)
    /\ availableColumn' = Stored(Kept(Parts(availableColumn) + n))
    /\ entries' = entries + Stored(n)
    /\ CountIncoming(n)
    /\ UNCHANGED <<pendingColumn, heldColumn, moved>>

\* pay_out and internal_transfer, from available.
MoveOut(m, n) ==
    /\ m \notin moved /\ InReach(n)
    /\ Covers(n) /\ Balances(n)
    /\ availableColumn' = Stored(Kept(Parts(availableColumn) - n))
    /\ entries' = entries - Stored(n)
    /\ moved' = moved \cup {m} /\ CountOutgoing(n)
    /\ UNCHANGED <<pendingColumn, heldColumn>>

\* reserve: two columns of the balance and the movement's row are written, and no
\* journal.
HoldOut(m, n) ==
    /\ m \notin moved /\ InReach(n)
    /\ Covers(n)
    /\ availableColumn' = Stored(Kept(Parts(availableColumn) - n))
    /\ pendingColumn' = Stored(Kept(Parts(pendingColumn) + n))
    /\ heldColumn' = [heldColumn EXCEPT ![m] = Stored(n)]
    /\ moved' = moved \cup {m} /\ CountOutgoing(n)
    /\ UNCHANGED entries

\* An approved hold leaves with the amount of the row: sums of stored units are
\* kept as they are.  A row of amount 0 has nothing to post: post_journal raises,
\* and the hold stays.
ReleaseOut(m) ==
    /\ heldColumn[m] > 0
    /\ pendingColumn' = pendingColumn - heldColumn[m]
    /\ entries' = entries - heldColumn[m]
    /\ heldColumn' = [heldColumn EXCEPT ![m] = 0]
    /\ UNCHANGED <<availableColumn, moved, ties, closeCalls>>

\* Rejected, cancelled or expired.
GiveBack(m) ==
    /\ heldColumn[m] > 0
    /\ pendingColumn' = pendingColumn - heldColumn[m]
    /\ availableColumn' = availableColumn + heldColumn[m]
    /\ heldColumn' = [heldColumn EXCEPT ![m] = 0]
    /\ UNCHANGED <<entries, moved, ties, closeCalls>>

RoundingNext ==
    \/ \E n \in AmountsGiven : FundHolder(n)
    \/ \E m \in Movements :
          \/ \E n \in AmountsGiven : MoveOut(m, n) \/ HoldOut(m, n)
          \/ ReleaseOut(m) \/ GiveBack(m)

RoundingSpec == RoundingInit /\ [][RoundingNext]_roundingVars

----------------------------------------------------------------------------
(***************************************************************************)
(* Properties.                                                             *)
(***************************************************************************)

\* What services/ledger.py says is kept everywhere.
ColumnsAgree == availableColumn = entries - pendingColumn

\* What is kept: the balance is never below the ledger, and above it by one stored
\* unit at least for each outgoing amount that ended in half a unit, at most for
\* each amount that ended so close to it that Decimal cannot tell; so it agrees as
\* long as amounts have no more digits than the columns.  pending_out exceeds the
\* rows on hold by such amounts only.
DriftIsBounded ==
    LET drift == availableColumn + pendingColumn - entries
        onHold == Cardinality({u \in Movements \X (1..MaxParts) : u[2] <= heldColumn[u[1]]})
    IN  /\ ties <= drift /\ drift <= closeCalls
        /\ onHold <= pendingColumn /\ pendingColumn <= onHold + closeCalls

=============================================================================
